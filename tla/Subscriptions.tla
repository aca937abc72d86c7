---------------------------- MODULE Subscriptions ----------------------------
(***************************************************************************)
(* Subscriptions: their rows and log rows in Postgres (internal/db,        *)
(* internal/service), their copies in the Redis cache (internal/cache),    *)
(* the HTTP handlers that use both (internal/api), the part of the         *)
(* scheduler that looks subscriptions up, and the log cleanup worker.      *)
(*                                                                         *)
(* Each step is one statement or one command. Outside a transaction a      *)
(* statement commits by itself. Postgres is external: its row locks, its   *)
(* foreign key check and its deadlock detector are modelled as READ        *)
(* COMMITTED transactions see them.                                        *)
(***************************************************************************)
EXTENDS Naturals, FiniteSets

CONSTANTS
    Sub,        \* subscription identifiers
    Url,        \* target URLs
    Client,     \* concurrent HTTP requests
    Logger,     \* workers that log a delivery attempt
    None,       \* no row, no cache entry, no request
    Kinds,      \* the kinds of request that are made
    MaxLogs,    \* bound on the log rows ever written
    MaxFaults   \* bound on failing statements and commands

Agent == Client \cup Logger

(* full: neither target_url nor secret is empty.                           *)
Data == [url: Url, full: BOOLEAN]
Entry == [sub: Sub, n: 1..MaxLogs]
Request == [kind: {"create", "ingest", "update", "delete", "log"}, sub: Sub,
            round: {1, 2}]

ASSUME SubscriptionsAssumption ==
    /\ Client \cap Logger = {} /\ IsFiniteSet(Logger)
    /\ None \notin Data /\ None \notin Request /\ None \notin Agent
    /\ Kinds \subseteq {"create", "ingest", "update", "delete", "log"}
    /\ MaxLogs \in Nat /\ MaxFaults \in Nat

VARIABLES
    row,      \* row[s]: the committed row of subscriptions, or None
    logs,     \* the committed rows of logs
    old,      \* those created before the cutoff of the next cleanup
    held,     \* held[s]: the transaction that has the row's lock, or None
    cached,   \* cached[s]: the copy in Redis under the subscription's ID
    used,     \* identifiers created so far
    tasked,   \* subscriptions for which a task was created
    pc,       \* pc[a]: the statement or command a is at
    req,      \* req[a]: the request a serves
    got,      \* got[a]: the subscription a has read, or is to write
    doomed,   \* doomed[a]: the log rows the transaction of a deletes
    deleted,  \* deleted[s]: "Subscription deleted" answers for s
    written,  \* log rows written so far
    faults    \* failures so far

dbVars  == <<row, logs, old, held, used, written>>
reqVars == <<req, doomed>>
vars == <<dbVars, cached, tasked, pc, reqVars, got, deleted, faults>>

Label == {"idle", "insert", "get", "read", "fill", "queue", "save", "patch",
          "wipe", "drop", "verify", "commit", "uncache"}

Goto(a, l) == pc' = [pc EXCEPT ![a] = l]
At(a, l) == pc[a] = l

(* Commands on the rows of others wait for the transaction to end.         *)
Free(s) == held[s] = None
Taken(l) == {a \in Agent : pc[a] \in {"drop", "verify", "commit"} /\ l \in doomed[a]}
LogsOf(s) == {l \in logs : l.sub = s}

Init ==
    /\ row = [s \in Sub |-> None]
    /\ logs = {}
    /\ old = {}
    /\ held = [s \in Sub |-> None]
    /\ cached = [s \in Sub |-> None]
    /\ used = {}
    /\ tasked = {}
    /\ pc = [a \in Agent |-> "idle"]
    /\ req = [a \in Agent |-> None]
    /\ got = [a \in Agent |-> None]
    /\ doomed = [a \in Agent |-> {}]
    /\ deleted = [s \in Sub |-> 0]
    /\ written = 0
    /\ faults = 0

(* A request for s arrives; its handler begins with the command at l.      *)
Begin(a, kind, s, l) ==
    /\ At(a, "idle")
    /\ kind \in Kinds
    /\ req' = [req EXCEPT ![a] = [kind |-> kind, sub |-> s, round |-> 1]]
    /\ Goto(a, l)

(* The handler answers and ends: what it held is forgotten.                *)
End(a) ==
    /\ Goto(a, "idle")
    /\ req' = [req EXCEPT ![a] = None]
    /\ got' = [got EXCEPT ![a] = None]
    /\ doomed' = [doomed EXCEPT ![a] = {}]

-----------------------------------------------------------------------------
(* GetSubscriptionCache, then on a miss FetchAndCacheSubscription: by      *)
(* IngestTask (round 1), by ProcessRequest through GetSubscriptionDetails  *)
(* (round 2) and by logDeliveryAttempt.                                    *)

(* Nothing is found: IngestTask answers 404, or, when it was ProcessRequest *)
(* that looked, 202 without a task; logDeliveryAttempt skips the row.      *)
NotFound(a) == End(a)

(* Faulty: looks again until there are a URL and a secret.                 *)
FoundPersistent(a, d) ==
    LET again == req[a].kind # "log" /\ ~d.full IN
    /\ got' = [got EXCEPT ![a] = d]
    /\ Goto(a, IF again THEN "get"
               ELSE IF req[a].kind = "log" THEN "save" ELSE "queue")
    /\ UNCHANGED reqVars

(* The lookup of a returns d. IngestTask reads the request's body next,    *)
(* and answers 400 when that is no JSON; create's call of it sends JSON.   *)
Found(a, d) ==
    LET again == req[a].kind # "log" /\ req[a].round = 1 /\ ~d.full IN
    \/ /\ got' = [got EXCEPT ![a] = d]
       /\ req' = IF again THEN [req EXCEPT ![a].round = 2] ELSE req
       /\ Goto(a, IF again THEN "get"
                  ELSE IF req[a].kind = "log" THEN "save" ELSE "queue")
       /\ UNCHANGED doomed
    \/ /\ req[a].kind = "ingest" /\ req[a].round = 1
       /\ End(a)

GetCached(a) ==
    LET s == req[a].sub IN
    /\ At(a, "get")
    /\ IF cached[s] # None THEN Found(a, cached[s])
       ELSE Goto(a, "read") /\ UNCHANGED <<reqVars, got>>
    /\ UNCHANGED <<dbVars, cached, tasked, deleted, faults>>

(* Faulty: sql.ErrNoRows is not noticed.                                   *)
ReadRowUnchecked(a) ==
    /\ At(a, "read")
    /\ got' = [got EXCEPT ![a] = row[req[a].sub]]
    /\ Goto(a, "fill")
    /\ UNCHANGED <<dbVars, cached, tasked, reqVars, deleted, faults>>

ReadRow(a) ==
    LET s == req[a].sub IN
    /\ At(a, "read")
    /\ IF row[s] = None THEN NotFound(a)
       ELSE /\ got' = [got EXCEPT ![a] = row[s]]
            /\ Goto(a, "fill")
            /\ UNCHANGED <<reqVars>>
    /\ UNCHANGED <<dbVars, cached, tasked, deleted, faults>>

FillCache(a) ==
    /\ At(a, "fill")
    /\ cached' = [cached EXCEPT ![req[a].sub] = got[a]]
    /\ Found(a, got[a])
    /\ UNCHANGED <<dbVars, tasked, deleted, faults>>

-----------------------------------------------------------------------------
(* POST /api/subscriptions, with a payload. The row is committed before    *)
(* the handler calls /api/ingest of its own server and waits for the       *)
(* answer.                                                                 *)
Create(a, s, d) ==
    /\ s \notin used
    /\ \A b \in Agent : req[b] # None /\ req[b].kind = "create" => req[b].sub # s
    /\ Begin(a, "create", s, "insert")
    /\ got' = [got EXCEPT ![a] = d]
    /\ UNCHANGED <<dbVars, cached, tasked, doomed, deleted, faults>>

Inserted(a) ==
    /\ row' = [row EXCEPT ![req[a].sub] = got[a]]
    /\ used' = used \cup {req[a].sub}

(* The request to the own server: what its handler does, IngestTask, is    *)
(* done by a itself, which waits for nothing else.                         *)
SendTaskToQueue(a) == Goto(a, "get")

InsertRow(a) ==
    /\ At(a, "insert")
    /\ Inserted(a)
    /\ SendTaskToQueue(a)
    /\ UNCHANGED <<logs, old, held, written, cached, tasked, reqVars, got, deleted, faults>>

(* POST /api/ingest/:id                                                    *)
Ingest(a, s) ==
    /\ Begin(a, "ingest", s, "get")
    /\ UNCHANGED <<dbVars, cached, tasked, got, doomed, deleted, faults>>

(* The task is created with the URL and secret that were found.            *)
Queue(a) ==
    /\ At(a, "queue")
    /\ tasked' = tasked \cup {req[a].sub}
    /\ End(a)
    /\ UNCHANGED <<dbVars, cached, deleted, faults>>

(* Faulty: the cache is written first, with what the request says.         *)
UpdateCacheFirst(a, s, d) ==
    /\ Begin(a, "update", s, "patch")
    /\ got' = [got EXCEPT ![a] = d]
    /\ cached' = [cached EXCEPT ![s] = d]
    /\ UNCHANGED <<dbVars, tasked, doomed, deleted, faults>>

(* PATCH /api/subscriptions/:id. Only the row changes, not the cache.      *)
Update(a, s, d) ==
    /\ Begin(a, "update", s, "patch")
    /\ got' = [got EXCEPT ![a] = d]
    /\ UNCHANGED <<dbVars, cached, tasked, doomed, deleted, faults>>

(* Empty fields are left out of the SET clause: a full row stays full.     *)
Patched(a) ==
    /\ Free(req[a].sub)
    /\ row[req[a].sub] # None
    /\ row' = [row EXCEPT ![req[a].sub] =
                  [url |-> got[a].url, full |-> @.full \/ got[a].full]]

UpdateRow(a) ==
    /\ At(a, "patch")
    /\ \/ Patched(a) /\ End(a)
       \/ /\ Free(req[a].sub) /\ row[req[a].sub] = None
          /\ End(a)
          /\ UNCHANGED row
    /\ UNCHANGED <<logs, old, held, used, written, cached, tasked, deleted, faults>>

-----------------------------------------------------------------------------
(* DELETE /api/subscriptions/:id: a transaction, then the cache.           *)

(* The first statement sees the log rows that are committed when it starts *)
(* and waits for those another transaction is deleting.                    *)
Delete(a, s) ==
    /\ Begin(a, "delete", s, "wipe")
    /\ doomed' = [doomed EXCEPT ![a] = LogsOf(s)]
    /\ UNCHANGED <<dbVars, cached, tasked, got, deleted, faults>>

(* Faulty: the statement is executed outside the transaction.              *)
DeleteLogsAtOnce(a) ==
    /\ At(a, "wipe")
    /\ logs' = logs \ doomed[a]
    /\ old' = old \ doomed[a]
    /\ Goto(a, "drop")
    /\ UNCHANGED <<row, held, used, written, cached, tasked, reqVars, got, deleted, faults>>

DeleteLogs(a) ==
    /\ At(a, "wipe")
    /\ \A l \in doomed[a] : Taken(l) = {}
    /\ doomed' = [doomed EXCEPT ![a] = @ \cap logs]
    /\ Goto(a, "drop")
    /\ UNCHANGED <<dbVars, cached, tasked, req, got, deleted, faults>>

(* tx.Rollback, deferred, and the answer 500.                              *)
Abort(a) ==
    /\ held' = [s \in Sub |-> IF held[s] = a THEN None ELSE held[s]]
    /\ End(a)

(* Faulty: without the deferred Rollback the transaction stays open.       *)
DeleteRowLeaks(a) ==
    LET s == req[a].sub IN
    /\ At(a, "drop")
    /\ Free(s)
    /\ held' = [held EXCEPT ![s] = a]
    /\ IF row[s] = None THEN End(a)
       ELSE Goto(a, "verify") /\ UNCHANGED <<reqVars, got>>
    /\ UNCHANGED <<row, logs, old, used, written, cached, tasked, deleted, faults>>

(* Faulty: RowsAffected is not looked at.                                  *)
DeleteRowBlindly(a) ==
    LET s == req[a].sub IN
    /\ At(a, "drop")
    /\ Free(s)
    /\ held' = [held EXCEPT ![s] = a]
    /\ Goto(a, "verify")
    /\ UNCHANGED <<row, logs, old, used, written, cached, tasked, reqVars, got,
                   deleted, faults>>

DeleteRow(a) ==
    LET s == req[a].sub IN
    /\ At(a, "drop")
    /\ Free(s)
    /\ IF row[s] = None THEN Abort(a)
       ELSE /\ held' = [held EXCEPT ![s] = a]
            /\ Goto(a, "verify")
            /\ UNCHANGED <<reqVars, got>>
    /\ UNCHANGED <<row, logs, old, used, written, cached, tasked, deleted, faults>>

(* The foreign key check of that statement sees what others have committed *)
(* since, and waits for log rows that others are deleting.                 *)
CheckLogs(a) ==
    LET left == LogsOf(req[a].sub) \ doomed[a] IN
    /\ At(a, "verify")
    /\ \A l \in left : Taken(l) = {}
    /\ IF left # {} THEN Abort(a)
       ELSE Goto(a, "commit") /\ UNCHANGED <<held, reqVars, got>>
    /\ UNCHANGED <<row, logs, old, used, written, cached, tasked, deleted, faults>>

Applied(a) ==
    LET s == req[a].sub IN
    /\ row' = [row EXCEPT ![s] = None]
    /\ logs' = logs \ doomed[a]
    /\ old' = old \ doomed[a]
    /\ held' = [held EXCEPT ![s] = None]

Commit(a) ==
    /\ At(a, "commit")
    /\ Applied(a)
    /\ Goto(a, "uncache")
    /\ UNCHANGED <<used, written, cached, tasked, reqVars, got, deleted, faults>>

Uncache(a) ==
    LET s == req[a].sub IN
    /\ At(a, "uncache")
    /\ cached' = [cached EXCEPT ![s] = None]
    /\ deleted' = [deleted EXCEPT ![s] = @ + 1]
    /\ End(a)
    /\ UNCHANGED <<dbVars, tasked, faults>>

-----------------------------------------------------------------------------
(* logDeliveryAttempt of a worker, and CleanupOldLogs.                     *)
LogAttempt(a, s) ==
    /\ s \in tasked
    /\ written + Cardinality({g \in Logger : req[g] # None}) < MaxLogs
    /\ Begin(a, "log", s, "get")
    /\ UNCHANGED <<dbVars, cached, tasked, got, doomed, deleted, faults>>

(* CreateLog; without the row Postgres refuses and the error is logged.    *)
SaveLog(a) ==
    LET s == req[a].sub IN
    /\ At(a, "save")
    /\ Free(s)
    /\ IF row[s] = None THEN UNCHANGED <<logs, written>>
       ELSE /\ written' = written + 1
            /\ logs' = logs \cup {[sub |-> s, n |-> written + 1]}
    /\ End(a)
    /\ UNCHANGED <<row, old, held, used, cached, tasked, deleted, faults>>

GrowOld(l) ==
    /\ l \in logs \ old
    /\ old' = old \cup {l}
    /\ UNCHANGED <<row, logs, held, used, written, cached, tasked, pc, reqVars, got,
                   deleted, faults>>

(* Faulty: the comparison with the cutoff is the wrong way round.          *)
CleanupInverted ==
    /\ logs # old
    /\ logs' = old
    /\ UNCHANGED <<row, old, held, used, written, cached, tasked, pc, reqVars, got,
                   deleted, faults>>

CleanupOldLogs ==
    /\ old # {}
    /\ \A l \in old : Taken(l) = {}
    /\ logs' = logs \ old
    /\ old' = {}
    /\ UNCHANGED <<row, held, used, written, cached, tasked, pc, reqVars, got,
                   deleted, faults>>

-----------------------------------------------------------------------------
(* Failures                                                                *)

(* Two deletes each wait for a row the other has: Postgres aborts one.     *)
WaitsFor(a) ==
    IF At(a, "drop") THEN {held[req[a].sub]} \ {None}
    ELSE IF At(a, "verify")
      THEN UNION {Taken(l) : l \in LogsOf(req[a].sub) \ doomed[a]}
    ELSE {}

DeadlockAbort(a) ==
    /\ \E b \in WaitsFor(a) : a \in WaitsFor(b)
    /\ Abort(a)
    /\ UNCHANGED <<row, logs, old, used, written, cached, tasked, deleted, faults>>

(* A command of Redis or a statement of Postgres returns an error. It may  *)
(* have been executed all the same.                                        *)
GetFails(a) ==
    /\ At(a, "get")
    /\ Goto(a, "read")
    /\ UNCHANGED <<dbVars, cached, reqVars, got, deleted>>

LookupFails(a) ==
    /\ \/ At(a, "read") /\ UNCHANGED cached
       \/ At(a, "fill") /\ cached' \in {cached, [cached EXCEPT ![req[a].sub] = got[a]]}
    /\ NotFound(a)
    /\ UNCHANGED <<dbVars, deleted>>

(* Statements outside the transaction. (A log row that was written after   *)
(* all is SaveLog.)                                                        *)
StatementFails(a) ==
    /\ \/ At(a, "insert") /\ (Inserted(a) \/ UNCHANGED <<row, used>>)
       \/ At(a, "patch") /\ (Patched(a) \/ UNCHANGED row) /\ UNCHANGED used
       \/ At(a, "save") /\ UNCHANGED <<row, used>>
    /\ End(a)
    /\ UNCHANGED <<logs, old, held, written, cached, deleted>>

TransactionFails(a) ==
    /\ \E l \in {"wipe", "drop", "verify", "commit"} : At(a, l)
    /\ \/ Abort(a) /\ UNCHANGED <<row, logs, old>>
       \/ At(a, "commit") /\ Applied(a) /\ End(a)
    /\ UNCHANGED <<used, written, cached, deleted>>

(* The error of DeleteSubscriptionCache is assigned and not looked at.     *)
UncacheFails(a) ==
    /\ At(a, "uncache")
    /\ deleted' = [deleted EXCEPT ![req[a].sub] = @ + 1]
    /\ End(a)
    /\ UNCHANGED <<dbVars, cached>>

Failing(a) ==
    /\ faults < MaxFaults
    /\ faults' = faults + 1
    /\ UNCHANGED tasked
    /\ \/ GetFails(a) \/ LookupFails(a) \/ StatementFails(a)
       \/ TransactionFails(a) \/ UncacheFails(a)

-----------------------------------------------------------------------------
Arrive(a, s) ==
    \/ /\ a \in Client
       /\ \/ Ingest(a, s) \/ Delete(a, s)
          \/ \E d \in Data : Create(a, s, d) \/ Update(a, s, d)
    \/ a \in Logger /\ LogAttempt(a, s)

(* What a handler does once its request has arrived.                       *)
Serve(a) ==
    \/ GetCached(a) \/ ReadRow(a) \/ FillCache(a) \/ Queue(a)
    \/ InsertRow(a) \/ UpdateRow(a) \/ SaveLog(a)
    \/ DeleteLogs(a) \/ DeleteRow(a) \/ CheckLogs(a) \/ Commit(a) \/ Uncache(a)
    \/ DeadlockAbort(a)

Next ==
    \/ \E a \in Agent : Serve(a) \/ Failing(a) \/ \E s \in Sub : Arrive(a, s)
    \/ \E l \in Entry : GrowOld(l)
    \/ CleanupOldLogs

Spec == Init /\ [][Next]_vars

(* Handlers that can go on do. A statement that waits for a row gets it in *)
(* the end, however often others take the row before (Postgres queues      *)
(* them): strong fairness. So does the cleanup that its ticker starts.     *)
Fairness ==
    /\ \A a \in Agent : SF_vars(Serve(a))
    /\ SF_vars(CleanupOldLogs)

LiveSpec == Spec /\ Fairness
=============================================================================
