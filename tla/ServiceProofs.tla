---------------------------- MODULE ServiceProofs ----------------------------
(***************************************************************************)
(* The service as a whole: the composition is a behaviour of each of its   *)
(* parts, so that what is proved of the parts holds in it; and with one    *)
(* process and no faults, whoever reads a task and then its subscription's *)
(* logs finds the row of every outcome that the task shows.                *)
(*                                                                         *)
(* The argument for the logs: the accounting of the scheduler says which   *)
(* rows have been written, the atomic Registry that a row stays as long as *)
(* its subscription, and a worker leaves logDeliveryAttempt without a row  *)
(* only when the subscription has gone - for good, for no identifier is    *)
(* used twice.                                                             *)
(***************************************************************************)
EXTENDS Service, SoloProofs

(* The proofs about Subscriptions, of the instance of it in Service.       *)
SP == INSTANCE SubscriptionsProofs WITH
        Client <- Clients, Logger <- Loggers, MaxFaults <- 0,
        logs <- table, pc <- at, faults <- failures

-----------------------------------------------------------------------------
(* The parts                                                               *)
LEMMA Assumed == SP!SubscriptionsAssumption
BY SchedulerAssumption, ServiceAssumption
DEF S!Data, S!Request, S!Agent, SP!Data, SP!Request, SP!Agent, Clients, Loggers,
    IsFiniteSet, SP!IsFiniteSet

(* S and SP are the same instance under two names.                         *)
LEMMA SameInit == S!Init <=> SP!Init
BY DEF S!Init, SP!Init, S!Agent, SP!Agent

LEMMA SameVars == S!vars = SP!vars
BY DEF S!vars, SP!vars, S!dbVars, SP!dbVars, S!reqVars, SP!reqVars

LEMMA SameServe == \A a : S!Serve(a) <=> SP!Serve(a)
<1>1. \A a : S!GetCached(a) <=> SP!GetCached(a)
  BY DEF S!GetCached, SP!GetCached, S!At, SP!At, S!Goto, SP!Goto, S!Found,
      SP!Found, S!End, SP!End, S!dbVars, SP!dbVars, S!reqVars, SP!reqVars
<1>2. \A a : S!ReadRow(a) <=> SP!ReadRow(a)
  BY DEF S!ReadRow, SP!ReadRow, S!At, SP!At, S!Goto, SP!Goto, S!NotFound,
      SP!NotFound, S!End, SP!End, S!dbVars, SP!dbVars, S!reqVars, SP!reqVars
<1>3. \A a : S!FillCache(a) <=> SP!FillCache(a)
  BY DEF S!FillCache, SP!FillCache, S!At, SP!At, S!Found, SP!Found, S!Goto,
      SP!Goto, S!End, SP!End, S!dbVars, SP!dbVars, S!reqVars, SP!reqVars
<1>4. \A a : S!Queue(a) <=> SP!Queue(a)
  BY DEF S!Queue, SP!Queue, S!At, SP!At, S!End, SP!End, S!Goto, SP!Goto,
      S!dbVars, SP!dbVars, S!reqVars, SP!reqVars
<1>5. \A a : S!InsertRow(a) <=> SP!InsertRow(a)
  BY DEF S!InsertRow, SP!InsertRow, S!At, SP!At, S!Inserted, SP!Inserted,
      S!SendTaskToQueue, SP!SendTaskToQueue, S!Goto, SP!Goto, S!dbVars,
      SP!dbVars, S!reqVars, SP!reqVars
<1>6. \A a : S!UpdateRow(a) <=> SP!UpdateRow(a)
  BY DEF S!UpdateRow, SP!UpdateRow, S!At, SP!At, S!Patched, SP!Patched, S!Free,
      SP!Free, S!End, SP!End, S!Goto, SP!Goto, S!dbVars, SP!dbVars, S!reqVars,
      SP!reqVars
<1>7. \A a : S!SaveLog(a) <=> SP!SaveLog(a)
  BY DEF S!SaveLog, SP!SaveLog, S!At, SP!At, S!Free, SP!Free, S!End, SP!End,
      S!Goto, SP!Goto, S!dbVars, SP!dbVars, S!reqVars, SP!reqVars
<1>8. \A a : S!DeleteLogs(a) <=> SP!DeleteLogs(a)
  BY DEF S!DeleteLogs, SP!DeleteLogs, S!At, SP!At, S!Taken, SP!Taken, S!Goto,
      SP!Goto, S!Agent, SP!Agent, S!dbVars, SP!dbVars, S!reqVars, SP!reqVars
<1>9. \A a : S!DeleteRow(a) <=> SP!DeleteRow(a)
  BY DEF S!DeleteRow, SP!DeleteRow, S!At, SP!At, S!Free, SP!Free, S!Abort,
      SP!Abort, S!End, SP!End, S!Goto, SP!Goto, S!dbVars, SP!dbVars, S!reqVars,
      SP!reqVars
<1>10. \A a : S!CheckLogs(a) <=> SP!CheckLogs(a)
  BY DEF S!CheckLogs, SP!CheckLogs, S!At, SP!At, S!LogsOf, SP!LogsOf, S!Taken,
      SP!Taken, S!Abort, SP!Abort, S!End, SP!End, S!Goto, SP!Goto, S!Agent,
      SP!Agent, S!dbVars, SP!dbVars, S!reqVars, SP!reqVars
<1>11. \A a : S!Commit(a) <=> SP!Commit(a)
  BY DEF S!Commit, SP!Commit, S!At, SP!At, S!Applied, SP!Applied, S!Goto,
      SP!Goto, S!dbVars, SP!dbVars, S!reqVars, SP!reqVars
<1>12. \A a : S!Uncache(a) <=> SP!Uncache(a)
  BY DEF S!Uncache, SP!Uncache, S!At, SP!At, S!End, SP!End, S!Goto, SP!Goto,
      S!dbVars, SP!dbVars, S!reqVars, SP!reqVars
<1>13. \A a : S!DeadlockAbort(a) <=> SP!DeadlockAbort(a)
  BY DEF S!DeadlockAbort, SP!DeadlockAbort, S!WaitsFor, SP!WaitsFor, S!At,
      SP!At, S!Taken, SP!Taken, S!LogsOf, SP!LogsOf, S!Agent, SP!Agent, S!Abort,
      SP!Abort, S!End, SP!End, S!Goto, SP!Goto, S!dbVars, SP!dbVars, S!reqVars,
      SP!reqVars
<1> QED BY <1>1, <1>2, <1>3, <1>4, <1>5, <1>6, <1>7, <1>8, <1>9, <1>10, <1>11,
    <1>12, <1>13 DEF S!Serve, SP!Serve

LEMMA SameArrive == \A a, s : S!Arrive(a, s) <=> SP!Arrive(a, s)
<1>1. \A a, s : S!Ingest(a, s) <=> SP!Ingest(a, s)
  BY DEF S!Ingest, SP!Ingest, S!Begin, SP!Begin, S!At, SP!At, S!Goto, SP!Goto,
      S!dbVars, SP!dbVars, S!reqVars, SP!reqVars
<1>2. \A a, s : S!Delete(a, s) <=> SP!Delete(a, s)
  BY DEF S!Delete, SP!Delete, S!LogsOf, SP!LogsOf, S!Begin, SP!Begin, S!At,
      SP!At, S!Goto, SP!Goto, S!dbVars, SP!dbVars, S!reqVars, SP!reqVars
<1>3. \A a, s, d : S!Create(a, s, d) <=> SP!Create(a, s, d)
  BY DEF S!Create, SP!Create, S!Agent, SP!Agent, S!Begin, SP!Begin, S!At, SP!At,
      S!Goto, SP!Goto, S!dbVars, SP!dbVars, S!reqVars, SP!reqVars
<1>4. \A a, s, d : S!Update(a, s, d) <=> SP!Update(a, s, d)
  BY DEF S!Update, SP!Update, S!Begin, SP!Begin, S!At, SP!At, S!Goto, SP!Goto,
      S!dbVars, SP!dbVars, S!reqVars, SP!reqVars
<1>5. \A a, s : S!LogAttempt(a, s) <=> SP!LogAttempt(a, s)
  BY DEF S!LogAttempt, SP!LogAttempt, S!Cardinality, SP!Cardinality, S!Begin,
      SP!Begin, S!At, SP!At, S!Goto, SP!Goto, S!dbVars, SP!dbVars, S!reqVars,
      SP!reqVars
<1>6. S!Data = SP!Data
  BY DEF S!Data, SP!Data
<1> QED BY <1>1, <1>2, <1>3, <1>4, <1>5, <1>6 DEF S!Arrive, SP!Arrive

LEMMA StepOfParts ==
    ASSUME [ServiceNext]_allVars
    PROVE  /\ [Next]_vars
           /\ \/ \E a \in S!Agent : S!Serve(a) \/ \E s \in Sub : S!Arrive(a, s)
              \/ UNCHANGED subVars
<1> DEFINE Part ==
             \/ \E a \in S!Agent : S!Serve(a) \/ \E s \in Sub : S!Arrive(a, s)
             \/ UNCHANGED subVars
<1>1. CASE UNCHANGED allVars
  BY <1>1 DEF allVars, vars, subVars
<1>2. ASSUME NEW a \in Clients \cup Loggers, Serve(a) PROVE [Next]_vars /\ Part
  <2>1. a \in Actor /\ a \in S!Agent
    BY SchedulerAssumption DEF Clients, Loggers, Role, S!Agent
  <2>2. (\E t \in Task : Accept(a, t)) \/ Settle(a) \/ UNCHANGED vars
    BY <1>2 DEF Serve, Logged
  <2> QED BY <1>2, <2>1, <2>2 DEF Next, Run, Work, Request, Serve
<1>3. ASSUME NEW a \in Clients \cup Loggers, NEW s \in Sub, Arrive(a, s)
      PROVE  [Next]_vars /\ Part
  BY <1>3 DEF S!Agent, Arrive
<1>4. ASSUME NEW a \in Actor, Deliveries(a) PROVE [Next]_vars /\ Part
  BY <1>4 DEF Deliveries, Next, Request
<1>5. ASSUME NEW t \in Task, Time(t) PROVE [Next]_vars /\ Part
  BY <1>5 DEF Time, Next
<1> QED BY <1>1, <1>2, <1>3, <1>4, <1>5 DEF ServiceNext

LEMMA StepBelow ==
    ASSUME [ServiceNext]_allVars PROVE [S!Next]_(S!vars) /\ [SP!Next]_(SP!vars)
<1>1. UNCHANGED subVars => UNCHANGED S!vars /\ UNCHANGED SP!vars
  BY DEF subVars, S!vars, S!dbVars, S!reqVars, SP!vars, SP!dbVars, SP!reqVars
<1>2. ASSUME NEW a \in S!Agent, S!Serve(a) PROVE S!Next /\ SP!Next
  BY <1>2, SameServe DEF S!Next, SP!Next, S!Agent, SP!Agent
<1>3. ASSUME NEW a \in S!Agent, NEW s \in Sub, S!Arrive(a, s) PROVE S!Next /\ SP!Next
  BY <1>3, SameArrive DEF S!Next, SP!Next, S!Agent, SP!Agent
<1> QED BY <1>1, <1>2, <1>3, StepOfParts

(* What the service does is what the scheduler does, and what the          *)
(* subscriptions do: the handlers and workers that connect the two take no *)
(* step that either module does not have. So every property proved of one  *)
(* part alone holds of the whole.                                          *)
THEOREM Parts == ServiceSpec => Spec /\ S!Spec
<1>1. ServiceInit => Init /\ S!Init
  BY DEF ServiceInit
<1>2. [ServiceNext]_allVars => [Next]_vars /\ [S!Next]_(S!vars)
  BY StepOfParts, StepBelow
<1> QED BY <1>1, <1>2, PTL DEF ServiceSpec, Spec, S!Spec

-----------------------------------------------------------------------------
(* The log rows                                                            *)

(* A worker is in logDeliveryAttempt of its task while it is at "log", and *)
(* a webhook is accepted for a subscription that has been there.           *)
LogPlace == {"get", "read", "fill", "save"}

Looking ==
    /\ old = {}
    /\ \A t \in accepted : SubOf[t] \in used
    /\ \A a \in Clients : at[a] = "queue" => req[a].sub \in used
    /\ \A a \in Loggers :
         /\ at[a] \in LogPlace \cup {"idle"}
         /\ at[a] # "idle" => At(a, "log") /\ req[a].sub = SubOf[cur[a].id]

(* contents has every row that was written.                                *)
Booked ==
    /\ contents \in Seq(LogRow)
    /\ Len(contents) = written
    /\ \A n \in 1..written : contents[n] \in logs

(* Every POST for a task whose subscription is there has its row, unless a *)
(* worker is about to write it.                                            *)
Filed(t, k) ==
    \E l \in table : /\ l.sub = SubOf[t]
                     /\ contents[l.n].task = t /\ contents[l.n].attempt = k

Logging(t) == \E a \in Actor : Holds(a, t) /\ At(a, "log")

Complete ==
    \A t \in Task : row[SubOf[t]] # None =>
        \A k \in 1..sends[t] : Filed(t, k) \/ (k = sends[t] /\ Logging(t))

TypesBelow ==
    /\ req \in [Clients \cup Loggers -> S!Request \cup {None}]
    /\ at \in [Clients \cup Loggers -> SP!Label]

LEMMA LocalsBelow == SP!Inv => TypesBelow
BY DEF TypesBelow, SP!Inv, SP!TypeLocals, SP!Agent, SP!Request, S!Request

(* What a step of a logger does.                                           *)
Others(a) ==
    \A b \in (Clients \cup Loggers) \ {a} : at'[b] = at[b] /\ req'[b] = req[b]

NewRow(a) == [sub |-> req[a].sub, n |-> written + 1]

LEMMA LoggerServes ==
    ASSUME SP!Inv, Looking, NEW a \in Loggers, S!Serve(a)
    PROVE  /\ at[a] # "idle" /\ Others(a)
           /\ UNCHANGED <<row, old, used>>
           /\ \/ /\ at'[a] \in LogPlace /\ req'[a].sub = req[a].sub
                 /\ UNCHANGED <<table, written>>
              \/ /\ at'[a] = "idle"
                 /\ IF row[req[a].sub] = None THEN UNCHANGED <<table, written>>
                    ELSE /\ table' = table \cup {NewRow(a)}
                         /\ written' = written + 1
<1> USE DEF TypesBelow, S!dbVars, S!reqVars, S!Goto, S!At, Others, LogPlace
<1>0. at[a] \in {"get", "read", "fill", "save", "idle"}
  BY DEF Looking
<1>1. TypesBelow
  BY LocalsBelow
<1>2. at[a] # "idle" => req[a] # None /\ req[a].kind = "log"
  BY DEF SP!Inv, SP!Mine, SP!Agent
<1>3. CASE S!GetCached(a)
  BY <1>1, <1>2, <1>3 DEF S!GetCached, S!Found, S!End
<1>4. CASE S!ReadRow(a)
  BY <1>1, <1>2, <1>4 DEF S!ReadRow, S!NotFound, S!End
<1>5. CASE S!FillCache(a)
  BY <1>1, <1>2, <1>5 DEF S!FillCache, S!Found, S!End
<1>6. CASE S!SaveLog(a)
  BY <1>1, <1>2, <1>6 DEF S!SaveLog, S!End, NewRow
<1>7. ~S!DeadlockAbort(a)
  BY <1>0 DEF S!DeadlockAbort, S!WaitsFor
<1>8. ~(S!Queue(a) \/ S!InsertRow(a) \/ S!UpdateRow(a) \/ S!DeleteLogs(a)
          \/ S!DeleteRow(a) \/ S!CheckLogs(a) \/ S!Commit(a) \/ S!Uncache(a))
  BY <1>0 DEF S!Queue, S!InsertRow, S!UpdateRow, S!DeleteLogs, S!DeleteRow,
     S!CheckLogs,
              S!Commit, S!Uncache
<1> QED BY <1>3, <1>4, <1>5, <1>6, <1>7, <1>8 DEF S!Serve

(* What a step of a client does.                                           *)
LEMMA ClientServes ==
    ASSUME SP!Inv, Looking, NEW a \in Clients, S!Serve(a)
    PROVE  /\ at[a] # "idle" /\ Others(a)
           /\ UNCHANGED written /\ old' = {} /\ used \subseteq used'
           /\ at'[a] = "queue" => req'[a].sub \in used'
<1> USE DEF TypesBelow, S!dbVars, S!reqVars, S!Goto, S!At, Others
<1>1. TypesBelow
  BY LocalsBelow
<1>2. Clients \cap Loggers = {}
  BY SchedulerAssumption DEF Clients, Loggers
<1>3. at[a] # "save" /\ (at[a] # "idle" => req[a] \in S!Request)
  BY <1>1, <1>2 DEF SP!Inv, SP!Mine, SP!Agent
<1>4. at[a] = "get" /\ cached[req[a].sub] # None => req[a].sub \in used
  BY <1>3 DEF SP!Inv, SP!Settled, SP!CacheBehind, S!Request
<1>5. at[a] = "fill" => req[a].sub \in used
  BY DEF SP!Inv, SP!Mine, SP!Agent
<1>6. old = {}
  BY DEF Looking
<1>7. CASE S!GetCached(a) \/ S!FillCache(a)
  <2>1. \A d : S!Found(a, d) =>
          /\ \A b \in (Clients \cup Loggers) \ {a} : at'[b] = at[b] /\ req'[b] = req[b]
          /\ at'[a] = "queue" => req'[a].sub = req[a].sub
    BY <1>1 DEF S!Found, S!End
  <2>2. CASE S!GetCached(a) /\ cached[req[a].sub] # None
    BY <1>4, <1>6, <2>1, <2>2 DEF S!GetCached
  <2>3. CASE S!GetCached(a) /\ cached[req[a].sub] = None
    BY <1>1, <1>6, <2>3 DEF S!GetCached
  <2>4. CASE S!FillCache(a)
    BY <1>5, <1>6, <2>1, <2>4 DEF S!FillCache
  <2> QED BY <1>7, <2>2, <2>3, <2>4
<1>8. CASE S!ReadRow(a) \/ S!Queue(a)
  BY <1>1, <1>6, <1>8 DEF S!ReadRow, S!Queue, S!NotFound, S!End
<1>9. CASE S!InsertRow(a) \/ S!UpdateRow(a)
  BY <1>1, <1>6, <1>9 DEF S!InsertRow, S!UpdateRow, S!Inserted,
     S!SendTaskToQueue, S!Patched, S!End
<1>10. CASE \/ S!DeleteLogs(a) \/ S!DeleteRow(a) \/ S!CheckLogs(a)
            \/ S!Commit(a) \/ S!Uncache(a)
  BY <1>1, <1>6, <1>10 DEF S!DeleteLogs, S!DeleteRow, S!CheckLogs, S!Commit,
     S!Uncache, S!Applied, S!Abort, S!End
<1>11. CASE S!DeadlockAbort(a)
  <2>1. at[a] \in {"drop", "verify"}
    BY <1>11 DEF S!DeadlockAbort, S!WaitsFor
  <2> QED BY <1>1, <1>6, <1>11, <2>1 DEF S!DeadlockAbort, S!Abort, S!End
<1>12. ~S!SaveLog(a)
  BY <1>3 DEF S!SaveLog
<1> QED BY <1>7, <1>8, <1>9, <1>10, <1>11, <1>12 DEF S!Serve

(* As long as nothing grows old, a row stays while its subscription does,  *)
(* and a subscription that comes is a new one.                             *)
LEMMA TablesKept ==
    ASSUME SP!Inv, old = {}, SP!Refined
    PROVE  /\ used \subseteq used'
           /\ \A s \in Sub : row'[s] # None /\ row[s] = None => s \notin used
           /\ \A l \in table : row'[l.sub] # None => l \in table'
<1>0. row \in [Sub -> SP!Data \cup {None}] /\ \A l \in table : l.sub \in Sub
  BY DEF SP!Inv, SP!TypeTables, SP!Entry
<1>1. CASE UNCHANGED <<row, table, old, used>>
  BY <1>1
<1>2. ASSUME NEW s \in Sub, SP!Atomic!Insert(s) \/ SP!Atomic!Change(s)
      PROVE  /\ used \subseteq used'
             /\ \A t \in Sub : row'[t] # None /\ row[t] = None => t \notin used
             /\ table' = table
  BY <1>0, <1>2 DEF SP!Atomic!Insert, SP!Atomic!Change
<1>3. ASSUME NEW s \in Sub, SP!Atomic!Remove(s)
      PROVE  /\ used \subseteq used'
             /\ \A t \in Sub : row'[t] # None => row[t] # None
             /\ \A l \in table : row'[l.sub] # None => l \in table'
  BY <1>0, <1>3 DEF SP!Atomic!Remove
<1>4. ASSUME NEW l \in SP!Entry, SP!Atomic!Record(l) \/ SP!Atomic!Age(l)
      PROVE  UNCHANGED <<used, row>> /\ table \subseteq table'
  BY <1>4 DEF SP!Atomic!Record, SP!Atomic!Age
<1>5. CASE SP!Atomic!Expire
  BY <1>5 DEF SP!Atomic!Expire
<1> QED BY <1>1, <1>2, <1>3, <1>4, <1>5 DEF SP!Refined, SP!Atomic!RegistryNext

LEMMA Arrives ==
    ASSUME SP!Inv, NEW a \in Clients \cup Loggers, NEW s \in Sub, S!Arrive(a, s)
    PROVE  /\ at[a] = "idle" /\ Others(a)
           /\ UNCHANGED <<row, table, old, used, written>>
           /\ IF a \in Loggers THEN at'[a] = "get" /\ req'[a].sub = s
              ELSE at'[a] # "queue"
<1> USE DEF TypesBelow, S!dbVars, S!reqVars, S!Goto, S!At, S!Begin, Others
<1>1. TypesBelow
  BY LocalsBelow
<1>2. Clients \cap Loggers = {}
  BY SchedulerAssumption DEF Clients, Loggers
<1>3. CASE a \in Loggers
  BY <1>1, <1>2, <1>3 DEF S!Arrive, S!LogAttempt
<1>4. CASE a \in Clients
  <2>1. CASE S!Ingest(a, s) \/ S!Delete(a, s)
    BY <1>1, <1>2, <1>4, <2>1 DEF S!Ingest, S!Delete
  <2>2. ASSUME NEW d \in S!Data, S!Create(a, s, d) \/ S!Update(a, s, d)
        PROVE  /\ at[a] = "idle" /\ Others(a) /\ at'[a] # "queue"
               /\ UNCHANGED <<row, table, old, used, written>>
    BY <1>1, <2>2 DEF S!Create, S!Update
  <2> QED BY <1>2, <1>4, <2>1, <2>2 DEF S!Arrive
<1> QED BY <1>3, <1>4

-----------------------------------------------------------------------------
(* A worker stays at "log" until it settles.                               *)
LEMMA StaysAtLog ==
    ASSUME TypeInv, StoreInv, NEW a \in Actor, NEW b \in Actor, At(b, "log"),
           Run(a) \/ \E t \in Task : Request(a, t),
           a # b \/ ~At(a, "log")
    PROVE  At(b, "log")' /\ cur'[b] = cur[b]
<1>0. a # b
  OBVIOUS
<1>1. CASE Program(a)
  <2>1. Moves(a)
    BY <1>1, ProgramMoves
  <2> QED BY <1>0, <2>1 DEF Moves, At
<1>2. CASE Redis(a)
  <2>1. Performs(a)
    BY <1>2, PerformEffect
  <2> QED BY <1>0, <2>1 DEF Performs, goVars, At
<1>3. CASE Recover(a)
  <2>1. a[2] \in Role /\ pc[a] \in Place(a[2])
    BY OneStore DEF Placed
  <2>2. pc[a] \notin {"scan", "reset"}
    BY <2>1 DEF Place
  <2> QED BY <1>3, <2>2 DEF Recover, RecoverScan, RecoverEnd, RecoverNext, At
<1> QED BY <1>1, <1>2, <1>3 DEF Run, Program

(* Only a worker that delivers counts a request.                           *)
LEMMA RunCounts ==
    ASSUME TypeInv, NEW a \in Actor, Run(a) \/ \E t \in Task : Cancel(a, t), ~At(a, "log")
    PROVE  UNCHANGED <<accepted, logs>> /\ (sends' = sends \/ Deliver(a))
<1> USE DEF extVars
<1>1. CASE Work(a)
  BY <1>1 DEF Work, Take, Finish, Skip, Begin, CountAttempt, Deliver, Settle,
     Unlock
<1>2. CASE Dispatch(a)
  BY <1>2 DEF Dispatch, Poll, PassOver, Claim, Put, PutBack, DispatcherPanic,
     Inspect
<1>3. CASE Recover(a) \/ Enqueue(a) \/ Mark(a)
  BY <1>3 DEF Recover, RecoverScan, RecoverEnd, RecoverNext, Enqueue, Offer,
     OfferFull,
              OfferPanic, Mark
<1>4. CASE Redis(a)
  BY <1>4 DEF Redis
<1>5. ASSUME NEW t \in Task, Cancel(a, t)
      PROVE  UNCHANGED <<accepted, logs, sends>>
  BY <1>5 DEF Cancel
<1> QED BY <1>1, <1>2, <1>3, <1>4, <1>5 DEF Run

(* The steps of the composition, with what each does to both sides.        *)
LEMMA LookingNext ==
    ASSUME TypeInv, StoreInv, SP!Inv, SP!Refined, Looking, ServiceNext
    PROVE  Looking'
<1>0. /\ Clients \cup Loggers \subseteq Actor /\ old = {} /\ used \subseteq used'
      /\ Clients \cap Loggers = {}
  BY TablesKept, SchedulerAssumption DEF Clients, Loggers, Role, Looking
<1>1. ASSUME NEW a \in Loggers, Serve(a) PROVE Looking'
  <2>1. /\ at[a] # "idle" /\ Others(a) /\ UNCHANGED <<old, used>>
        /\ \/ at'[a] \in LogPlace /\ req'[a].sub = req[a].sub
           \/ at'[a] = "idle"
    BY <1>1, LoggerServes DEF Serve
  <2>2. at[a] \in LogPlace /\ At(a, "log") /\ req[a].sub = SubOf[cur[a].id]
    BY <2>1 DEF Looking
  <2>3. CASE at'[a] \in LogPlace /\ req'[a].sub = req[a].sub
    <3>1. UNCHANGED vars
      BY <1>1, <2>2, <2>3 DEF Serve, LogPlace
    <3>2. UNCHANGED <<pc, cur, todo, accepted>>
      BY <3>1 DEF vars, goVars, extVars, storeVars
    <3> QED BY <1>0, <2>1, <2>2, <2>3, <3>2 DEF Looking, Others, At
  <2>4. CASE at'[a] = "idle"
    <3>1. Settle(a) /\ UNCHANGED accepted
      BY <1>1, <2>2, <2>4 DEF Serve, LogPlace, Logged, Settle
    <3>2. Run(a) /\ a \in Actor
      BY <1>0, <3>1 DEF Run, Work
    <3>3. \A b \in Loggers \ {a} : At(b, "log") => At(b, "log")' /\ cur'[b] = cur[b]
      BY <1>0, <3>2, StaysAtLog
    <3> QED BY <1>0, <2>1, <2>4, <3>1, <3>3 DEF Looking, Others
  <2> QED BY <2>1, <2>3, <2>4
<1>2. ASSUME NEW a \in Clients, Serve(a) PROVE Looking'
  <2>1. /\ at[a] # "idle" /\ Others(a) /\ old' = {}
        /\ at'[a] = "queue" => req'[a].sub \in used'
    BY <1>2, ClientServes DEF Serve
  <2>2. CASE at[a] = "queue"
    <3>1. PICK t \in Task : SubOf[t] = req[a].sub /\ Accept(a, t)
      BY <1>2, <2>2 DEF Serve
    <3>2. accepted' = accepted \cup {t} /\ SubOf[t] \in used /\ ~At(a, "log")
      BY <2>2, <3>1 DEF Accept, Looking, At
    <3>3. \A b \in Loggers : At(b, "log") => At(b, "log")' /\ cur'[b] = cur[b]
      BY <1>0, <3>1, <3>2, StaysAtLog DEF Request
    <3> QED BY <1>0, <2>1, <3>2, <3>3 DEF Looking, Others
  <2>3. CASE at[a] # "queue"
    <3>1. UNCHANGED vars
      BY <1>0, <1>2, <2>3 DEF Serve
    <3>2. UNCHANGED <<pc, cur, todo, accepted>>
      BY <3>1 DEF vars, goVars, extVars, storeVars
    <3> QED BY <1>0, <2>1, <3>2 DEF Looking, Others, At
  <2> QED BY <2>2, <2>3
<1>3. ASSUME NEW a \in Clients \cup Loggers, NEW s \in Sub, Arrive(a, s) PROVE Looking'
  <2>1. UNCHANGED <<pc, cur, todo, accepted>>
    BY <1>3 DEF Arrive, vars, goVars, extVars, storeVars
  <2>2. a \in Loggers => At(a, "log") /\ s = SubOf[cur[a].id]
    BY <1>3 DEF Arrive
  <2> QED BY <1>0, <1>3, <2>1, <2>2, Arrives DEF Looking, Others, At, Arrive,
      LogPlace
<1>4. ASSUME NEW a \in Actor, Deliveries(a) PROVE Looking'
  <2>1. UNCHANGED <<old, used, at, req, accepted>>
    BY <1>4, RunCounts DEF Deliveries, subVars
  <2>2. \A b \in Loggers : At(b, "log") => At(b, "log")' /\ cur'[b] = cur[b]
    BY <1>0, <1>4, StaysAtLog DEF Deliveries, Request
  <2> QED BY <2>1, <2>2 DEF Looking
<1>5. ASSUME NEW t \in Task, Time(t) PROVE Looking'
  <2>1. UNCHANGED <<old, used, at, req, accepted, pc, cur, todo>>
    BY <1>5 DEF Time, Clock, BackoffElapses, LockExpires, goVars, extVars,
       subVars
  <2> QED BY <2>1 DEF Looking, At
<1> QED BY <1>1, <1>2, <1>3, <1>4, <1>5 DEF ServiceNext

(* contents only grows, with the rows.                                     *)
LEMMA BookedNext ==
    ASSUME TypeInv, TypeInv', SP!Inv, Looking, Booked, ServiceNext
    PROVE  Booked' /\ \A n \in 1..written : contents'[n] = contents[n]
<1>0. written \in Nat /\ (logs \subseteq LogRow)'
  BY DEF SP!Inv, SP!TypeTables, TypeInv, TypeOK
<1>1. ASSUME UNCHANGED <<written, contents>>, logs \subseteq logs'
      PROVE  Booked' /\ \A n \in 1..written : contents'[n] = contents[n]
  BY <1>1 DEF Booked
<1>2. ASSUME NEW r \in logs', logs \subseteq logs', written' = written + 1,
             contents' = Append(contents, r)
      PROVE  Booked' /\ \A n \in 1..written : contents'[n] = contents[n]
  <2>1. r \in LogRow /\ contents \in Seq(LogRow) /\ Len(contents) = written
    BY <1>0, <1>2 DEF Booked
  <2>2. /\ contents' \in Seq(LogRow) /\ Len(contents') = written + 1
        /\ contents'[written + 1] = r
        /\ \A n \in 1..written : contents'[n] = contents[n]
    BY <1>2, <2>1
  <2>3. \A n \in 1..(written + 1) : n \in 1..written \/ n = written + 1
    BY <1>0
  <2> QED BY <1>2, <2>2, <2>3 DEF Booked
<1>3. UNCHANGED vars => UNCHANGED logs
  BY DEF vars, extVars
<1>4. ASSUME NEW a \in Loggers, Serve(a)
      PROVE  Booked' /\ \A n \in 1..written : contents'[n] = contents[n]
  <2>1. /\ at[a] \in LogPlace
        /\ \/ at'[a] \in LogPlace /\ UNCHANGED written
           \/ at'[a] = "idle" /\ written' \in {written, written + 1}
    BY <1>4, LoggerServes DEF Serve, Looking
  <2>2. CASE at'[a] \in LogPlace
    BY <1>1, <1>3, <1>4, <2>1, <2>2 DEF Serve, LogPlace
  <2>3. CASE at'[a] = "idle"
    <3>1. Logged(a)
      BY <1>4, <2>1, <2>3 DEF Serve, LogPlace
    <3>2. CASE written' = written
      BY <1>1, <3>1, <3>2 DEF Logged
    <3>3. CASE written' = written + 1
      <4>1. written' # written
        BY <1>0, <3>3
      <4> QED BY <1>2, <3>1, <3>3, <4>1 DEF Logged
    <3> QED BY <2>1, <2>3, <3>2, <3>3 DEF LogPlace
  <2> QED BY <2>1, <2>2, <2>3
<1>5. ASSUME NEW a \in Clients, Serve(a)
      PROVE  Booked' /\ \A n \in 1..written : contents'[n] = contents[n]
  <2>1. UNCHANGED written /\ a \notin Loggers
    BY <1>5, ClientServes, SchedulerAssumption DEF Serve, Clients, Loggers
  <2>2. UNCHANGED <<contents, logs>>
    BY <1>3, <1>5, <2>1 DEF Serve, Accept
  <2> QED BY <1>1, <2>1, <2>2
<1>6. ASSUME NEW a \in Clients \cup Loggers, NEW s \in Sub, Arrive(a, s)
      PROVE  Booked' /\ \A n \in 1..written : contents'[n] = contents[n]
  BY <1>1, <1>3, <1>6, Arrives DEF Arrive
<1>7. ASSUME NEW a \in Actor, Deliveries(a)
      PROVE  Booked' /\ \A n \in 1..written : contents'[n] = contents[n]
  BY <1>1, <1>7, RunCounts DEF Deliveries, subVars
<1>8. ASSUME NEW t \in Task, Time(t)
      PROVE  Booked' /\ \A n \in 1..written : contents'[n] = contents[n]
  <2>1. UNCHANGED <<written, contents, logs>>
    BY <1>8 DEF Time, Clock, BackoffElapses, LockExpires, extVars, subVars
  <2> QED BY <1>1, <2>1
<1> QED BY <1>4, <1>5, <1>6, <1>7, <1>8 DEF ServiceNext

(* A step that makes no request keeps the log complete, if whoever is done *)
(* with logging has filed the row or has lost the subscription.            *)
LEMMA CompleteKept ==
    ASSUME TypeInv, CalmInv, Counted, SP!Inv, SP!Refined, Looking, Booked, Complete,
           \A n \in 1..written : contents'[n] = contents[n],
           UNCHANGED sends,
           \A t \in Task : Logging(t) =>
               \/ Logging(t)'
               \/ row'[SubOf[t]] # None /\ row[SubOf[t]] # None => Filed(t, sends[t])'
    PROVE  Complete'
<1> SUFFICES ASSUME NEW t \in Task, row'[SubOf[t]] # None, NEW k \in 1..sends[t]
             PROVE  Filed(t, k)' \/ (k = sends[t] /\ Logging(t)')
  BY DEF Complete
<1>1. SubOf[t] \in Sub
  BY ServiceAssumption
<1>2. row[SubOf[t]] # None
  <2>1. sends[t] # 0
    BY TypeParts DEF RestOK
  <2>2. t \in accepted
    BY <2>1 DEF Counted, CalmInv, BirthInv, Unborn
  <2>3. SubOf[t] \in used
    BY <2>2 DEF Looking
  <2> QED BY <1>1, <2>3, TablesKept DEF Looking
<1>3. CASE Filed(t, k)
  <2>1. PICK l \in table : /\ l.sub = SubOf[t]
                           /\ contents[l.n].task = t /\ contents[l.n].attempt = k
    BY <1>3 DEF Filed
  <2>2. l \in table'
    BY <2>1, TablesKept DEF Looking
  <2>3. l.n \in 1..written
    BY <2>1 DEF SP!Inv, SP!TypeTables, SP!Settled, SP!Entry
  <2> QED BY <2>1, <2>2, <2>3 DEF Filed
<1>4. CASE k = sends[t] /\ Logging(t)
  BY <1>2, <1>4
<1> QED BY <1>2, <1>3, <1>4 DEF Complete

(* A worker that posts is about to log the request.                        *)
LEMMA DeliverComplete ==
    ASSUME TypeInv, CalmInv, CustodyInv, (TypeInv /\ StoreInv)', Complete,
           NEW a \in Actor, Deliver(a),
           UNCHANGED <<row, table, contents>>
    PROVE  Complete'
<1>0. StoreInv
  BY DEF CalmInv
<1>1. PICK t \in Task : t = cur[a].id /\ pc[a] = "send" /\ Active(a, t)
  BY <1>0, DeliverEnds
<1>2. sends' = [sends EXCEPT ![t] = @ + 1] /\ sends \in [Task -> Nat]
  BY <1>1, TypeParts DEF Deliver, RestOK
<1>3. Logging(t)'
  <2>1. pc'[a] = "log" /\ Active(a, t)'
    BY <1>0, <1>1, DeliverEnds
  <2>2. todo'[a] = <<>>
    BY DEF Deliver, At, storeVars
  <2>3. ~Writes(a, t)'
    BY <2>2 DEF Writes
  <2> QED BY <2>1, <2>2, <2>3 DEF Logging, Active, Has, At
<1>4. ~Logging(t)
  <2> SUFFICES ASSUME NEW b \in Actor, Holds(b, t), At(b, "log") PROVE FALSE
    BY DEF Logging
  <2>1. Active(b, t)
    BY DEF Active, Has, Spent, At
  <2> QED BY <1>1, <2>1 DEF CustodyInv, Alone, At
<1>5. \A u \in Task \ {t} : Logging(u) => Logging(u)'
  <2> SUFFICES ASSUME NEW u \in Task \ {t}, NEW b \in Actor, Holds(b, u), At(b, "log")
               PROVE  (Holds(b, u) /\ At(b, "log"))'
    BY DEF Logging
  <2>1. b # a
    BY <1>1 DEF At
  <2> QED BY <2>1, TypeParts DEF Deliver, At, Goto, Hold, Holds, storeVars,
      RestOK
<1>6. \A u \in Task : \A k : Filed(u, k) => Filed(u, k)'
  BY DEF Filed
<1> SUFFICES ASSUME NEW u \in Task, row[SubOf[u]] # None, NEW k \in 1..sends'[u]
             PROVE  Filed(u, k)' \/ (k = sends'[u] /\ Logging(u)')
  BY DEF Complete
<1>7. CASE u # t
  BY <1>2, <1>5, <1>6, <1>7 DEF Complete
<1>8. CASE u = t
  <2>1. k = sends'[t] \/ k \in 1..sends[t]
    BY <1>1, <1>2, <1>8
  <2> QED BY <1>3, <1>4, <1>6, <1>8, <2>1 DEF Complete
<1> QED BY <1>7, <1>8

(* A worker that has logged has written the row, if it could.              *)
LEMMA SettleComplete ==
    ASSUME TypeInv, CalmInv, CustodyInv, Counted, Recorded, (TypeInv /\ StoreInv)',
           SP!Inv, SP!Refined, Looking, Booked, Complete,
           \A n \in 1..written : contents'[n] = contents[n],
           NEW a \in Loggers, S!Serve(a), at'[a] = "idle", Logged(a)
    PROVE  Complete'
<1>0. StoreInv /\ a \in Actor /\ Settle(a)
  BY SchedulerAssumption DEF CalmInv, Loggers, Logged, Role
<1>1. PICK t \in Task : t = cur[a].id
  BY <1>0, SettleEnds
<1>2. cur[a].attempts = sends[t] /\ At(a, "log")
  BY <1>0, <1>1, SettleRow DEF Settle
<1>3. UNCHANGED sends
  BY <1>0 DEF Settle
<1>4. \A b \in Actor \ {a} : At(b, "log") => At(b, "log")' /\ cur'[b] = cur[b]
  BY <1>0, StaysAtLog DEF Run, Work
<1>5. ASSUME NEW u \in Task \ {t}, Logging(u) PROVE Logging(u)'
  BY <1>1, <1>4, <1>5 DEF Logging, Holds
<1>6. ASSUME row[SubOf[t]] # None PROVE Filed(t, sends[t])'
  <2>1. at[a] # "idle" /\ req[a].sub = SubOf[t]
    BY <1>1, LoggerServes DEF Looking
  <2>2. table' = table \cup {NewRow(a)} /\ written' = written + 1
    BY <1>6, <2>1, LoggerServes DEF LogPlace
  <2>3. written \in Nat /\ written' # written
    BY <2>2 DEF SP!Inv, SP!TypeTables
  <2>4. contents' = Append(contents, [task |-> t, attempt |-> sends[t],
                                       status |-> LogStatus(cur[a])])
    BY <1>1, <1>2, <2>3 DEF Logged
  <2>5. contents \in Seq(LogRow) /\ Len(contents) = written
    BY DEF Booked
  <2>6. contents'[written + 1].task = t /\ contents'[written + 1].attempt = sends[t]
    BY <2>4, <2>5
  <2>7. NewRow(a).sub = SubOf[t] /\ NewRow(a).n = written + 1
    BY <2>1 DEF NewRow
  <2>8. \E l \in table' : /\ l.sub = SubOf[t]
                          /\ contents'[l.n].task = t /\ contents'[l.n].attempt = sends[t]
    BY <2>2, <2>6, <2>7
  <2> QED BY <1>3, <2>8 DEF Filed
<1> QED BY <1>2, <1>3, <1>5, <1>6, CompleteKept

LEMMA CompleteNext ==
    ASSUME TypeInv, CalmInv, CustodyInv, Counted, Recorded, (TypeInv /\ StoreInv)',
           SP!Inv, SP!Refined, Looking, Booked, Complete,
           \A n \in 1..written : contents'[n] = contents[n],
           ServiceNext
    PROVE  Complete'
<1>0. StoreInv /\ Clients \cup Loggers \subseteq Actor /\ Clients \cap Loggers = {}
  BY SchedulerAssumption DEF CalmInv, Clients, Loggers, Role
<1>1. ASSUME UNCHANGED <<sends, pc, cur, todo>> PROVE Complete'
  <2>1. \A t \in Task : Logging(t) => Logging(t)'
    BY <1>1 DEF Logging, Holds, At
  <2> QED BY <1>1, <2>1, CompleteKept
<1>2. UNCHANGED vars => UNCHANGED <<sends, pc, cur, todo>>
  BY DEF vars, goVars, extVars, storeVars
<1>3. ASSUME NEW a \in Actor, Run(a) \/ \E t \in Task : Request(a, t), ~At(a, "log")
      PROVE  \A t \in Task : Logging(t) => Logging(t)'
  <2>1. \A b \in Actor : At(b, "log") => At(b, "log")' /\ cur'[b] = cur[b]
    BY <1>0, <1>3, StaysAtLog
  <2> QED BY <2>1 DEF Logging, Holds
<1>4. ASSUME NEW a \in Loggers, Serve(a) PROVE Complete'
  <2>1. at[a] \in LogPlace /\ S!Serve(a)
    BY <1>4, LoggerServes DEF Serve, Looking
  <2>2. CASE at'[a] = "idle"
    <3>1. Logged(a)
      BY <1>4, <2>1, <2>2 DEF Serve, LogPlace
    <3> QED BY <2>1, <2>2, <3>1, SettleComplete
  <2>3. CASE at'[a] # "idle"
    <3>1. UNCHANGED vars
      BY <1>4, <2>1, <2>3 DEF Serve, LogPlace
    <3> QED BY <1>1, <1>2, <3>1
  <2> QED BY <2>2, <2>3
<1>5. ASSUME NEW a \in Clients, Serve(a) PROVE Complete'
  <2>1. (\E t \in Task : Accept(a, t)) \/ UNCHANGED vars
    BY <1>0, <1>5 DEF Serve
  <2>2. CASE \E t \in Task : Accept(a, t)
    <3>1. UNCHANGED sends /\ ~At(a, "log")
      BY <2>2 DEF Accept, At
    <3>2. \A t \in Task : Logging(t) => Logging(t)'
      BY <1>0, <1>3, <2>2, <3>1 DEF Request
    <3> QED BY <3>1, <3>2, CompleteKept
  <2> QED BY <1>1, <1>2, <2>1, <2>2
<1>6. ASSUME NEW a \in Clients \cup Loggers, NEW s \in Sub, Arrive(a, s) PROVE Complete'
  BY <1>1, <1>2, <1>6 DEF Arrive
<1>7. ASSUME NEW a \in Actor, Deliveries(a) PROVE Complete'
  <2>1. \A t \in Task : Logging(t) => Logging(t)'
    BY <1>3, <1>7 DEF Deliveries, Request
  <2>2. sends' = sends \/ Deliver(a)
    BY <1>7, RunCounts DEF Deliveries
  <2>3. UNCHANGED <<row, table, contents>>
    BY <1>7 DEF Deliveries, subVars
  <2> QED BY <2>1, <2>2, <2>3, CompleteKept, DeliverComplete
<1>8. ASSUME NEW t \in Task, Time(t) PROVE Complete'
  <2>1. UNCHANGED <<sends, pc, cur, todo>>
    BY <1>8 DEF Time, Clock, BackoffElapses, LockExpires, goVars, extVars
  <2> QED BY <1>1, <2>1
<1> QED BY <1>4, <1>5, <1>6, <1>7, <1>8 DEF ServiceNext

(* A row that is filed can be read, and is one of those that the scheduler *)
(* knows to have been written.                                             *)
RowOf(x, t, k) ==
    /\ x \in GetLogs(SubOf[t]) /\ x.task = t /\ x.attempt = k
    /\ x = [task |-> t, attempt |-> k, status |-> x.status]
    /\ x.status \in {"Success", "Failure", "Failed Attempt"}

LEMMA FiledRow ==
    ASSUME SP!Inv, Booked, TypeInv, NEW t \in Task, NEW k \in Nat, Filed(t, k)
    PROVE  \E x \in logs : RowOf(x, t, k)
<1>1. PICK l \in table : /\ l.sub = SubOf[t]
                         /\ contents[l.n].task = t /\ contents[l.n].attempt = k
  BY DEF Filed
<1>2. l.n \in 1..written
  BY <1>1 DEF SP!Inv, SP!TypeTables, SP!Settled, SP!Entry
<1>3. contents[l.n] \in logs
  BY <1>2 DEF Booked
<1>4. contents[l.n] \in LogRow
  BY <1>3, TypeParts DEF RestOK
<1>5. /\ contents[l.n] = [task |-> t, attempt |-> k, status |-> contents[l.n].status]
      /\ contents[l.n].status \in {"Success", "Failure", "Failed Attempt"}
  BY <1>1, <1>4 DEF LogRow
<1>6. contents[l.n] \in GetLogs(SubOf[t])
  BY <1>1 DEF GetLogs, S!LogsOf
<1> QED BY <1>1, <1>3, <1>5, <1>6 DEF RowOf

(* Who logs a task works on its record, which is in progress.              *)
LEMMA LoggingInProgress ==
    ASSUME TypeInv, CalmInv, CustodyInv, NEW t \in Task, Logging(t)
    PROVE  /\ Known(t) => rec[t].status = "in_progress"
           /\ \A a \in Actor : ~Sending(a, t)
<1>1. PICK b \in Actor : Holds(b, t) /\ At(b, "log")
  BY DEF Logging
<1>2. Active(b, t) /\ pc[b] = "log" /\ StoreInv
  BY <1>1 DEF Active, Has, Spent, At, CalmInv
<1>3. Agrees(b) /\ Hand(b).id = t
  BY <1>2, HandOf DEF CustodyInv, Agreed, Active
<1>4. Replaces(b[2], "log", rec[t], Hand(b))
  BY <1>2, <1>3 DEF Agrees
<1>5. rec[t].status = "in_progress"
  BY <1>4 DEF Replaces, From
<1> QED BY <1>2, <1>5 DEF CustodyInv, Alone, Sending

(* The record says how the task ended, unless it is in progress.           *)
LEMMA OverRecord ==
    ASSUME TypeInv, CalmInv, CustodyInv, NEW t \in Task, Known(t),
           NEW s \in {"completed", "failed"}, Over(t, s)
    PROVE  \/ rec[t].status = s
           \/ /\ rec[t].status = "in_progress"
              /\ \A a \in Actor : ~Sending(a, t)
<1>1. CASE StatusOf(t) = s
  BY <1>1 DEF StatusOf
<1>2. ASSUME NEW a \in Actor, Ends(a, t, s), pc[a] = "unlock"
      PROVE  \/ rec[t].status = s
             \/ /\ rec[t].status = "in_progress"
                /\ \A b \in Actor : ~Sending(b, t)
  <2>1. Active(a, t) /\ cur[a].status = s /\ StoreInv
    BY <1>2 DEF Ends, CalmInv
  <2>2. /\ Agrees(a) /\ Hand(a).id = t /\ a[2] \in Role /\ Placed(a[2], pc[a], cur[a])
        /\ a[2] \in Worker \cup {"dispatcher"} => Hand(a) = cur[a]
    BY <2>1, HandOf DEF CustodyInv, Agreed, Active
  <2>3. a[2] \notin Canceller
    BY <1>2 DEF CustodyInv, Idle
  <2>4. a[2] \in Worker \cup {"dispatcher"}
    BY <1>2, <2>2, <2>3, Roles DEF Placed, Place, Role
  <2>5. a[2] # "dispatcher"
    <3>1. Carried(a[2], pc[a], cur[a])
      BY <2>2, <2>4 DEF Agrees
    <3> QED BY <1>2, <2>1, <3>1 DEF Carried, Statuses
  <2>6. \/ Replaces(a[2], "unlock", rec[t], cur[a])
        \/ rec[t] = cur[a]
    BY <1>2, <2>2, <2>4 DEF Agrees
  <2>7. rec[t].status = "in_progress" \/ rec[t].status = s
    BY <2>1, <2>5, <2>6 DEF Replaces, From
  <2>8. \A b \in Actor : ~Sending(b, t)
    BY <1>2, <2>1 DEF CustodyInv, Alone, Sending
  <2> QED BY <2>7, <2>8
<1> QED BY <1>1, <1>2 DEF Over

(* Who sends a task has counted the attempt, or is about to.               *)
LEMMA SendingRecord ==
    ASSUME TypeInv, CalmInv, CustodyInv, Counted, NEW t \in Task, Known(t)
    PROVE  \/ rec[t].attempts = sends[t] /\ \A a \in Actor : ~Sending(a, t)
           \/ /\ rec[t].attempts \in {sends[t], sends[t] + 1}
              /\ rec[t].status = "in_progress"
              /\ \E a \in Actor : Sending(a, t)
<1>1. CASE \A a \in Actor : ~Sending(a, t)
  BY <1>1 DEF Counted
<1>2. ASSUME NEW a \in Actor, Sending(a, t)
      PROVE  /\ rec[t].attempts \in {sends[t], sends[t] + 1}
             /\ rec[t].status = "in_progress"
  <2>1. Active(a, t) /\ pc[a] = "send" /\ cur[a].attempts = sends[t] + 1 /\ StoreInv
    BY <1>2 DEF Sending, Counted, CalmInv
  <2>2. /\ Agrees(a) /\ Hand(a).id = t /\ a[2] \in Role /\ Placed(a[2], pc[a], cur[a])
        /\ a[2] \in Worker \cup {"dispatcher"} => Hand(a) = cur[a]
    BY <2>1, HandOf DEF CustodyInv, Agreed, Active
  <2>3. Hand(a) = cur[a]
    BY <2>1, <2>2, RoleOf
  <2>4. Carried(a[2], "send", cur[a])
        /\ (Replaces(a[2], "send", rec[t], cur[a]) \/ rec[t] = cur[a])
    BY <2>1, <2>2, <2>3 DEF Agrees
  <2>5. rec[t].status = "in_progress"
    BY <2>4 DEF Carried, Statuses, Replaces, From
  <2>6. rec[t].attempts \in Nat /\ sends[t] \in Nat
    BY TypeParts DEF RestOK, Copy, Known, TypeInv, TypeOK, StoreTypeOK
  <2>7. cur[a].attempts = rec[t].attempts + 1 \/ cur[a].attempts = rec[t].attempts
    BY <2>4 DEF Replaces
  <2> QED BY <2>1, <2>5, <2>6, <2>7
<1> QED BY <1>1, <1>2

(* So a complete log shows every outcome that the record shows.            *)
LEMMA CompleteOutcomes ==
    ASSUME TypeInv, CalmInv, CustodyInv, Counted, Recorded, SP!Inv, Booked, Complete
    PROVE  OutcomesLogged
<1> SUFFICES ASSUME NEW t \in Task, Known(t), row[SubOf[t]] # None,
                    NEW k \in 1..rec[t].attempts,
                    ~(k = rec[t].attempts /\ rec[t].status = "in_progress")
             PROVE  [task |-> t, attempt |-> k,
                     status |-> IF k = rec[t].attempts THEN LogStatus(rec[t])
                                ELSE "Failed Attempt"] \in GetLogs(SubOf[t])
  BY DEF OutcomesLogged
<1>0. rec[t].attempts \in Nat /\ sends[t] \in Nat /\ k \in Nat /\ k >= 1
  BY TypeParts DEF RestOK, Copy, Known, TypeInv, TypeOK, StoreTypeOK
<1>1. k <= sends[t]
  BY <1>0, SendingRecord
<1>2. ~(k = sends[t] /\ Logging(t))
  BY <1>0, SendingRecord, LoggingInProgress
<1>3. Filed(t, k)
  BY <1>0, <1>1, <1>2 DEF Complete
<1>4. PICK x \in logs : RowOf(x, t, k)
  BY <1>0, <1>3, FiledRow
<1>5. CASE k < sends[t]
  <2>1. x.status = "Failed Attempt"
    BY <1>4, <1>5 DEF RowOf, Recorded
  <2>2. k # rec[t].attempts
    BY <1>0, <1>5, SendingRecord
  <2> QED BY <1>4, <2>1, <2>2 DEF RowOf
<1>6. CASE k = sends[t] /\ k = rec[t].attempts
  <2>1. /\ x.status = "Success" <=> Over(t, "completed")
        /\ x.status = "Failure" <=> Over(t, "failed")
    BY <1>4, <1>6 DEF RowOf, Recorded
  <2>2. rec[t].status # "in_progress"
    BY <1>6
  <2>3. \A s \in {"completed", "failed"} : Over(t, s) <=> rec[t].status = s
    BY <2>2, OverRecord DEF Over, StatusOf
  <2> QED BY <1>4, <1>6, <2>1, <2>3 DEF RowOf, LogStatus
<1>7. CASE k = sends[t] /\ k # rec[t].attempts
  <2>1. rec[t].status = "in_progress" /\ \E a \in Actor : Sending(a, t)
    BY <1>7, SendingRecord
  <2>2. ~Over(t, "completed") /\ ~Over(t, "failed")
    BY <2>1, OverRecord
  <2>3. x.status = "Failed Attempt"
    BY <1>4, <1>7, <2>2 DEF RowOf, Recorded
  <2> QED BY <1>4, <1>7, <2>3 DEF RowOf
<1>8. k < sends[t] \/ k = sends[t]
  BY <1>0, <1>1
<1> QED BY <1>5, <1>6, <1>7, <1>8

LEMMA LogsInit ==
    ServiceInit => Looking /\ Booked /\ Complete
<1> SUFFICES ASSUME ServiceInit PROVE Looking /\ Booked /\ Complete
  OBVIOUS
<1> USE DEF ServiceInit, Init, S!Init, S!Agent
<1>1. Looking
  BY DEF Looking, LogPlace
<1>2. Booked
  BY DEF Booked
<1>3. Complete
  BY ServiceAssumption DEF Complete
<1> QED BY <1>1, <1>2, <1>3

LEMMA LogsStutter ==
    Looking /\ Booked /\ Complete /\ UNCHANGED allVars => (Looking /\ Booked /\ Complete)'
BY DEF allVars, vars, subVars, storeVars, goVars, extVars, Looking, Booked,
   Complete,
       Filed, Logging, Holds, At, LogPlace

(* With one process and no faults, whoever reads a task and then the logs  *)
(* of its subscription finds for every attempt of which the task shows the *)
(* outcome a row that says the same, as long as the subscription has not   *)
(* been deleted - although row and record are written by different         *)
(* statements to different databases, and the subscription is looked up    *)
(* again before.                                                           *)
THEOREM Outcomes == Solo => (ServiceSpec => []OutcomesLogged)
<1> SUFFICES ASSUME Solo PROVE ServiceSpec => []OutcomesLogged
  OBVIOUS
<1> DEFINE Scheduled == TypeInv /\ CalmInv /\ CustodyInv /\ Counted /\ Recorded
           Reading == Looking /\ Booked /\ Complete
<1>1. ServiceSpec => []Scheduled
  BY Parts, Custody, Counting, Recording, PTL
<1>2. ServiceSpec => []SP!Inv
  <2>1. ServiceInit => SP!Inv
    BY Assumed, SameInit, SP!InitInv DEF ServiceInit
  <2>2. SP!Inv /\ [ServiceNext]_allVars => SP!Inv'
    BY Assumed, StepBelow, SP!NextInv
  <2> QED BY <2>1, <2>2, PTL DEF ServiceSpec
<1>3. Scheduled /\ Scheduled' /\ SP!Inv /\ Reading /\ [ServiceNext]_allVars => Reading'
  <2> SUFFICES ASSUME Scheduled, Scheduled', SP!Inv, Reading, [ServiceNext]_allVars
               PROVE  Reading'
    OBVIOUS
  <2>1. SP!Refined /\ TypeInv' /\ (TypeInv /\ StoreInv)' /\ StoreInv
    BY Assumed, StepBelow, SP!NextInv DEF CalmInv
  <2> QED BY <2>1, LookingNext, BookedNext, CompleteNext, LogsStutter
<1>4. Scheduled /\ SP!Inv /\ Reading => OutcomesLogged
  BY CompleteOutcomes
<1> QED BY <1>1, <1>2, <1>3, <1>4, LogsInit, PTL DEF ServiceSpec
=============================================================================
