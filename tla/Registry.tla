------------------------------ MODULE Registry ------------------------------
(***************************************************************************)
(* What the database promises about subscriptions and their delivery logs, *)
(* whoever asks: every change is atomic, a log row belongs to a            *)
(* subscription that exists, and it goes only with that subscription or    *)
(* when it is older than the retention period. An identifier is used once. *)
(***************************************************************************)
CONSTANTS Sub, Data, Entry, None

VARIABLES
    row,   \* row[s]: the subscription, or None
    logs,  \* the log rows
    old,   \* the log rows beyond the retention period
    used   \* identifiers given to a subscription so far

registryVars == <<row, logs, old, used>>

RegistryInit ==
    /\ row = [s \in Sub |-> None]
    /\ logs = {}
    /\ old = {}
    /\ used = {}

Insert(s) ==
    /\ s \notin used
    /\ used' = used \cup {s}
    /\ \E d \in Data : row' = [row EXCEPT ![s] = d]
    /\ UNCHANGED <<logs, old>>

Change(s) ==
    /\ row[s] # None
    /\ \E d \in Data : row' = [row EXCEPT ![s] = d]
    /\ UNCHANGED <<logs, old, used>>

Remove(s) ==
    /\ row[s] # None
    /\ row' = [row EXCEPT ![s] = None]
    /\ logs' = {l \in logs : l.sub # s}
    /\ old' = {l \in old : l.sub # s}
    /\ UNCHANGED used

Record(l) ==
    /\ l \notin logs
    /\ row[l.sub] # None
    /\ logs' = logs \cup {l}
    /\ UNCHANGED <<row, old, used>>

Age(l) ==
    /\ l \in logs
    /\ old' = old \cup {l}
    /\ UNCHANGED <<row, logs, used>>

Expire ==
    /\ logs' = logs \ old
    /\ old' = {}
    /\ UNCHANGED <<row, used>>

RegistryNext ==
    \/ \E s \in Sub : Insert(s) \/ Change(s) \/ Remove(s)
    \/ \E l \in Entry : Record(l) \/ Age(l)
    \/ Expire

RegistrySpec == RegistryInit /\ [][RegistryNext]_registryVars
=============================================================================
