----------------------- MODULE SubscriptionsProperties -----------------------
(***************************************************************************)
(* What handlers, cache and database guarantee about subscriptions, and    *)
(* what the comments and the README say of them.                           *)
(***************************************************************************)
EXTENDS Subscriptions

(* Every variable stays within its type, and what a handler goes on with   *)
(* has been found.                                                         *)
TypeOK ==
    /\ row \in [Sub -> Data \cup {None}]
    /\ logs \subseteq Entry
    /\ old \subseteq logs
    /\ held \in [Sub -> Agent \cup {None}]
    /\ cached \in [Sub -> Data \cup {None}]
    /\ used \subseteq Sub
    /\ tasked \subseteq Sub
    /\ pc \in [Agent -> Label]
    /\ req \in [Agent -> Request \cup {None}]
    /\ got \in [Agent -> Data \cup {None}]
    /\ doomed \in [Agent -> SUBSET Entry]
    /\ deleted \in [Sub -> Nat]
    /\ written \in 0..MaxLogs
    /\ faults \in 0..MaxFaults
    /\ \A a \in Agent :
        /\ pc[a] # "idle" => req[a] # None
        /\ pc[a] \in {"insert", "patch", "fill", "queue"} => got[a] # None

(* The statements of the handlers, the worker and the cleanup, interleaved *)
(* and failing, do to the committed rows what atomic operations would:     *)
(* a delete takes the row and all its log rows, or nothing.                *)
Atomic == INSTANCE Registry
RefinesRegistry == Atomic!RegistrySpec

(* Of any number of overlapping deletes of a subscription one at most is   *)
(* answered with "Subscription deleted".                                   *)
OneDelete == \A s \in Sub : deleted[s] <= 1

(* The cache is behind the database, never ahead of it: a copy is of a     *)
(* subscription that was stored, and has no URL or secret the row does not *)
(* have (a PATCH adds, and can not remove them).                           *)
CacheBehind ==
    \A s \in Sub : cached[s] # None =>
        /\ s \in used
        /\ row[s] # None /\ cached[s].full => row[s].full

(* Every request is answered: no row lock outlives its handler, and no     *)
(* handlers wait for each other for ever.                                  *)
EveryRequestAnswered == \A a \in Agent : pc[a] # "idle" ~> pc[a] = "idle"

(* The call of the own server by which a new subscription gets its first   *)
(* webhook succeeds, unless something fails or the row is deleted before.  *)
FirstWebhook ==
    \A s \in Sub :
        (row[s] # None /\ \E a \in Client : req[a] # None /\ req[a].kind = "create"
                                                        /\ req[a].sub = s)
            ~> (s \in tasked \/ row[s] = None \/ faults > 0)

(* A log row beyond the retention period is deleted, whatever requests     *)
(* for its subscription go on.                                             *)
OldLogsGo == \A l \in Entry : l \in old ~> l \notin logs

(* deleteSubscriptions is to "delete from Redis cache": after its answer,  *)
(* with nothing else going on, the cache has no copy.                      *)
DeletedNotCached ==
    \A s \in Sub :
        deleted[s] > 0 /\ (\A a \in Agent : req[a] = None \/ req[a].sub # s)
            => cached[s] = None
=============================================================================
