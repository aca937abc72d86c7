------------------------------ MODULE Scheduler ------------------------------
(***************************************************************************)
(* The webhook delivery scheduler (internal/worker/worker.go): processes   *)
(* that share one Redis, each with a bounded channel of tasks, worker      *)
(* goroutines, the retry dispatcher, the start-up recovery pass, the HTTP  *)
(* handlers that enqueue webhooks, and callers of CancelTask.              *)
(*                                                                         *)
(* A goroutine is an actor <<p, r>>: its process and its role.  Its place  *)
(* in the code is pc, the *Task it holds is cur.  A step other than Redis  *)
(* needs todo[a] = <<>>: the commands issued before are all done.          *)
(***************************************************************************)
EXTENDS TaskStore

CONSTANTS
    Proc,         \* operating system processes that run a Scheduler
    Worker,       \* worker goroutines of a process (5 in main.go)
    Handler,      \* concurrent HTTP requests for /api/ingest
    Canceller,    \* concurrent callers of CancelTask
    QueueCap,     \* capacity of taskQueue (100 in NewScheduler)
    MaxAttempts,  \* 5 in ProcessRequest
    Cancellable,  \* the tasks somebody may ask to cancel
    Steady,       \* processes already running, recovery pass finished
    PromptSteps,  \* no goroutine holds a task longer than its lock's expiry
                  \* (30 min); its Redis commands do not take longer than the
                  \* shortest back-off (10 s)
    FaultKinds,   \* of "crash", "stop" (SIGTERM), "redis" (a command fails)
                  \* and "expiry" (a record's 48 h run out), those that occur
    MaxFaults,    \* bound on their number
    MaxSends      \* bound on the deliveries of a task

Role == Worker \cup Handler \cup Canceller \cup {"dispatcher", "recoverer"}

ASSUME SchedulerAssumption ==
    /\ Actor = Proc \X Role
    /\ Worker \cap Handler = {} /\ Worker \cap Canceller = {}
    /\ Handler \cap Canceller = {}
    /\ {"dispatcher", "recoverer"} \cap (Worker \cup Handler \cup Canceller) = {}
    /\ QueueCap \in Nat \ {0}
    /\ MaxAttempts \in Nat \ {0}
    /\ Cancellable \subseteq Task
    /\ Steady \subseteq Proc
    /\ PromptSteps \in BOOLEAN
    /\ FaultKinds \subseteq {"crash", "stop", "redis", "expiry"}
    /\ MaxFaults \in Nat
    /\ MaxSends \in Nat

VARIABLES
    phase,   \* phase[p]: "off", "running" or "stopping" (taskQueue closed)
    queue,   \* queue[p]: the buffer of taskQueue
    pc,      \* pc[a]: where goroutine a is
    cur,     \* cur[a]: the task a works on, or None
    batch,   \* batch[a]: the rest of an SMEMBERS answer a loops over
    accepted, \* tasks created by ProcessRequest
    sends,   \* sends[t]: calls of deliverPayload for t, each one POST
             \* unless the request cannot even be made
    acked,   \* the tasks some POST of which was answered with a 2xx
    logs,    \* rows of the logs table, of one delivery attempt each; what
             \* two equal rows would be is one here
    faults   \* faults so far

procVars == <<phase, queue>>
goVars   == <<pc, cur, batch>>
extVars  == <<accepted, sends, acked, logs, faults>>
vars     == <<storeVars, procVars, goVars, extVars>>

Label == {"off", "exit", "unlock",
          "take", "lock", "attempt", "send", "log",   \* worker
          "poll", "claim", "put",                     \* dispatcher
          "scan", "reset",                            \* recoverPendingTasks
          "accept", "offer",                          \* ingest handler
          "cancel", "mark"}                           \* CancelTask

(* Between a successful acquireTaskLock and the matching release.          *)
Section == {"attempt", "send", "log", "put", "mark", "unlock"}

LogRow == [task: Task, attempt: Nat,
           status: {"Success", "Failure", "Failed Attempt"}]

(* Where a goroutine of role r starts, and where it returns to.            *)
Home(r) == IF r \in Worker THEN "take"
           ELSE IF r \in Handler THEN "accept"
           ELSE IF r \in Canceller THEN "cancel"
           ELSE IF r = "dispatcher" THEN "poll" ELSE "scan"

Up(p) == phase[p] # "off"

At(a, l) == pc[a] = l /\ todo[a] = <<>>
Goto(a, l) == pc' = [pc EXCEPT ![a] = l]
Hold(a, c) == cur' = [cur EXCEPT ![a] = c]
Issue(a, cmds) == todo' = [todo EXCEPT ![a] = cmds]

(* Some goroutine has t in hand: it works on it, or has commands pending.  *)
Holds(a, t) == cur[a] # None /\ cur[a].id = t
Writes(a, t) == \E i \in DOMAIN todo[a] : todo[a][i].copy.id = t
InHand(t) == \E a \in Actor : Holds(a, t) \/ Writes(a, t)

InSection(a, t) == Holds(a, t) /\ pc[a] \in Section

-----------------------------------------------------------------------------
Init ==
    /\ StoreInit
    /\ phase = [p \in Proc |-> IF p \in Steady THEN "running" ELSE "off"]
    /\ queue = [p \in Proc |-> <<>>]
    /\ pc = [a \in Actor |-> IF a[1] \notin Steady THEN "off"
                             ELSE IF a[2] = "recoverer" THEN "exit"
                             ELSE Home(a[2])]
    /\ cur = [a \in Actor |-> None]
    /\ batch = [a \in Actor |-> {}]
    /\ accepted = {}
    /\ sends = [t \in Task |-> 0]
    /\ acked = {}
    /\ logs = {}
    /\ faults = 0

(* One Redis command of any goroutine.                                     *)
Redis(a) == Exec(a) /\ UNCHANGED <<procVars, goVars, extVars>>

-----------------------------------------------------------------------------
(* worker                                                                  *)

Take(a) ==
    LET p == a[1] IN
    /\ At(a, "take")
    /\ queue[p] # <<>>
    /\ Hold(a, Head(queue[p]))
    /\ queue' = [queue EXCEPT ![p] = Tail(@)]
    /\ Goto(a, "lock")
    /\ UNCHANGED <<storeVars, phase, batch, extVars>>

(* Faulty: leaves a closed channel undrained; never notices its closing.   *)
FinishEarly(a) ==
    /\ At(a, "take")
    /\ phase[a[1]] = "stopping"
    /\ Goto(a, "exit")
    /\ UNCHANGED <<storeVars, procVars, cur, batch, extVars>>

FinishNever(a) ==
    /\ FinishEarly(a)
    /\ phase[a[1]] = "running"

(* The range loop ends when the closed channel is drained.                 *)
Finish(a) ==
    /\ At(a, "take")
    /\ queue[a[1]] = <<>>
    /\ phase[a[1]] = "stopping"
    /\ Goto(a, "exit")
    /\ UNCHANGED <<storeVars, procVars, cur, batch, extVars>>

Skip(a) ==
    /\ At(a, "lock")
    /\ cur[a].id \in locked
    /\ Hold(a, None)
    /\ Goto(a, "take")
    /\ UNCHANGED <<storeVars, procVars, batch, extVars>>

(* Faulty: takes the lock but does not mark the record in_progress.        *)
BeginUnmarked(a) ==
    /\ At(a, "lock")
    /\ AcquireLock(cur[a].id)
    /\ Goto(a, "attempt")
    /\ UNCHANGED <<rec, members, todo, procVars, cur, batch, extVars>>

Begin(a) ==
    LET c == [cur[a] EXCEPT !.status = "in_progress"] IN
    /\ At(a, "lock")
    /\ AcquireLock(c.id)
    /\ Hold(a, c)
    /\ Issue(a, UpdateTask(c))
    /\ Goto(a, "attempt")
    /\ UNCHANGED <<rec, members, procVars, batch, extVars>>

(* Faulty: the attempt is not counted.                                     *)
CountAttemptForgets(a) ==
    /\ At(a, "attempt")
    /\ Issue(a, UpdateTask(cur[a]))
    /\ Goto(a, "send")
    /\ UNCHANGED <<rec, members, locked, procVars, cur, batch, extVars>>

(* processTask counts and persists the attempt before it delivers.         *)
CountAttempt(a) ==
    LET c == [cur[a] EXCEPT !.attempts = @ + 1] IN
    /\ At(a, "attempt")
    /\ Hold(a, c)
    /\ Issue(a, UpdateTask(c))
    /\ Goto(a, "send")
    /\ UNCHANGED <<rec, members, locked, procVars, batch, extVars>>

(* Faulty: one attempt too many, one too few.                              *)
OutcomeLate(c, ok) == IF ok THEN "completed"
                      ELSE IF c.attempts > MaxAttempts THEN "failed"
                      ELSE "retry_pending"

OutcomeEarly(c, ok) == IF ok THEN "completed"
                       ELSE IF c.attempts + 1 >= MaxAttempts THEN "failed"
                       ELSE "retry_pending"

(* deliverPayload, and the status its outcome leads to.                    *)
Outcome(c, ok) == IF ok THEN "completed"
                  ELSE IF c.attempts >= MaxAttempts THEN "failed"
                  ELSE "retry_pending"

(* Faulty: processTask also stores the outcome, before the log row.        *)
DeliverRecords(a) ==
    LET c == cur[a] IN
    /\ At(a, "send")
    /\ sends[c.id] < MaxSends
    /\ \E ok \in BOOLEAN :
        /\ Hold(a, [c EXCEPT !.status = Outcome(c, ok)])
        /\ Issue(a, UpdateTask([c EXCEPT !.status = Outcome(c, ok)]))
        /\ acked' = IF ok THEN acked \cup {c.id} ELSE acked
    /\ sends' = [sends EXCEPT ![c.id] = @ + 1]
    /\ Goto(a, "log")
    /\ UNCHANGED <<rec, members, locked, procVars, batch, accepted, logs, faults>>

Deliver(a) ==
    LET c == cur[a] IN
    /\ At(a, "send")
    /\ sends[c.id] < MaxSends
    /\ \E ok \in BOOLEAN :
        /\ Hold(a, [c EXCEPT !.status = Outcome(c, ok)])
        /\ acked' = IF ok THEN acked \cup {c.id} ELSE acked
    /\ sends' = [sends EXCEPT ![c.id] = @ + 1]
    /\ Goto(a, "log")
    /\ UNCHANGED <<storeVars, procVars, batch, accepted, logs, faults>>

(* logDeliveryAttempt may fail to write its row: the subscription is gone  *)
(* or the database refuses.  Then the record gets the outcome.             *)
LogStatus(c) == IF c.status = "completed" THEN "Success"
                ELSE IF c.status = "failed" THEN "Failure"
                ELSE "Failed Attempt"

(* Faulty: the record is not updated after a failed attempt.               *)
SettleForgetsRetry(a) ==
    LET c == cur[a] IN
    /\ At(a, "log")
    /\ logs' = logs
    /\ Issue(a, IF c.status = "retry_pending" THEN AddTo("retry_pending", c)
                ELSE UpdateTask(c))
    /\ Goto(a, "unlock")
    /\ UNCHANGED <<rec, members, locked, procVars, cur, batch, extVars>>

Settle(a) ==
    LET retry == cur[a].status = "retry_pending"
        c == [cur[a] EXCEPT !.due = IF retry THEN FALSE ELSE @]
        row == [task |-> c.id, attempt |-> c.attempts, status |-> LogStatus(c)]
    IN
    /\ At(a, "log")
    /\ logs' \in {logs, logs \cup {row}}
    /\ Hold(a, c)
    /\ Issue(a, UpdateTask(c) \o
                (IF retry THEN AddTo("retry_pending", c) ELSE <<>>))
    /\ Goto(a, "unlock")
    /\ UNCHANGED <<rec, members, locked, procVars, batch, accepted, sends, acked, faults>>

(* releaseTaskLock by the worker, the dispatcher or CancelTask.            *)
Unlock(a) ==
    /\ At(a, "unlock")
    /\ ReleaseLock(cur[a].id)
    /\ Hold(a, None)
    /\ Goto(a, Home(a[2]))
    /\ UNCHANGED <<rec, members, todo, procVars, batch, extVars>>

-----------------------------------------------------------------------------
(* taskDispatcher and dispatchScheduledTasks                               *)

(* Faulty: looks for lost tasks in the set of queued ones as well.         *)
PollQueued(a) ==
    /\ At(a, "poll")
    /\ batch[a] = {}
    /\ batch' = [batch EXCEPT ![a] = members["retry_pending"] \cup members["queued"]]
    /\ UNCHANGED <<storeVars, procVars, pc, cur, extVars>>

Poll(a) ==
    /\ At(a, "poll")
    /\ batch[a] = {}
    /\ batch' = [batch EXCEPT ![a] = members["retry_pending"]]
    /\ UNCHANGED <<storeVars, procVars, pc, cur, extVars>>

Inspect(a, t) ==
    /\ At(a, "poll")
    /\ t \in batch[a]
    /\ batch' = [batch EXCEPT ![a] = @ \ {t}]
    /\ IF Known(t) /\ rec[t].due
         THEN Hold(a, rec[t]) /\ Goto(a, "claim")
         ELSE UNCHANGED <<cur, pc>>
    /\ UNCHANGED <<storeVars, procVars, extVars>>

PassOver(a) ==
    /\ At(a, "claim")
    /\ cur[a].id \in locked
    /\ Hold(a, None)
    /\ Goto(a, "poll")
    /\ UNCHANGED <<storeVars, procVars, batch, extVars>>

(* Faulty: the record stays in the retry set while it is queued.           *)
ClaimUnmarked(a) ==
    /\ At(a, "claim")
    /\ AcquireLock(cur[a].id)
    /\ Goto(a, "put")
    /\ UNCHANGED <<rec, members, todo, procVars, cur, batch, extVars>>

Claim(a) ==
    LET c == [cur[a] EXCEPT !.status = "queued"] IN
    /\ At(a, "claim")
    /\ AcquireLock(c.id)
    /\ Hold(a, c)
    /\ Issue(a, UpdateTask(c) \o RemoveFrom("retry_pending", c))
    /\ Goto(a, "put")
    /\ UNCHANGED <<rec, members, procVars, batch, extVars>>

(* The send succeeds: the dispatcher goes on and leaves the lock set.      *)
Put(a) ==
    LET p == a[1] IN
    /\ At(a, "put")
    /\ phase[p] = "running"
    /\ Len(queue[p]) < QueueCap
    /\ queue' = [queue EXCEPT ![p] = Append(@, cur[a])]
    /\ Hold(a, None)
    /\ Goto(a, "poll")
    /\ UNCHANGED <<storeVars, phase, batch, extVars>>

PutBack(a) ==
    LET c == [cur[a] EXCEPT !.status = "retry_pending"] IN
    /\ At(a, "put")
    /\ phase[a[1]] = "running"
    /\ Len(queue[a[1]]) = QueueCap
    /\ Hold(a, c)
    /\ Issue(a, UpdateTask(c) \o AddTo("retry_pending", c))
    /\ Goto(a, "unlock")
    /\ UNCHANGED <<rec, members, locked, procVars, batch, extVars>>

(* A send on the closed channel panics; nothing in the dispatcher recovers *)
(* it, so the process dies with all its goroutines.                        *)
Down(p) ==
    /\ phase' = [phase EXCEPT ![p] = "off"]
    /\ queue' = [queue EXCEPT ![p] = <<>>]
    /\ pc'    = [a \in Actor |-> IF a[1] = p THEN "off" ELSE pc[a]]
    /\ cur'   = [a \in Actor |-> IF a[1] = p THEN None ELSE cur[a]]
    /\ batch' = [a \in Actor |-> IF a[1] = p THEN {} ELSE batch[a]]
    /\ todo'  = [a \in Actor |-> IF a[1] = p THEN <<>> ELSE todo[a]]
    /\ UNCHANGED <<rec, members, locked>>

DispatcherPanic(a) ==
    /\ At(a, "put")
    /\ phase[a[1]] = "stopping"
    /\ Down(a[1])
    /\ UNCHANGED extVars

-----------------------------------------------------------------------------
(* recoverPendingTasks: takes no lock                                      *)

RecoverScan(a) ==
    /\ At(a, "scan")
    /\ batch' = [batch EXCEPT ![a] = members["in_progress"]]
    /\ Goto(a, "reset")
    /\ UNCHANGED <<storeVars, procVars, cur, extVars>>

Reset(c) == [c EXCEPT !.status = "retry_pending", !.due = FALSE]

(* Faulty: also drops the lock that the interrupted worker left.           *)
RecoverUnlocks(a, t) ==
    /\ At(a, "reset")
    /\ t \in batch[a]
    /\ Known(t)
    /\ batch' = [batch EXCEPT ![a] = @ \ {t}]
    /\ Issue(a, UpdateTask(Reset(rec[t])))
    /\ ReleaseLock(t)
    /\ UNCHANGED <<rec, members, procVars, pc, cur, extVars>>

RecoverNext(a, t) ==
    /\ At(a, "reset")
    /\ t \in batch[a]
    /\ batch' = [batch EXCEPT ![a] = @ \ {t}]
    /\ IF Known(t)
         THEN LET c == Reset(rec[t]) IN
              Issue(a, UpdateTask(c) \o RemoveFrom("in_progress", c)
                       \o AddTo("retry_pending", c))
         ELSE UNCHANGED todo
    /\ UNCHANGED <<rec, members, locked, procVars, pc, cur, extVars>>

RecoverEnd(a) ==
    /\ At(a, "reset")
    /\ batch[a] = {}
    /\ Goto(a, "exit")
    /\ UNCHANGED <<storeVars, procVars, cur, batch, extVars>>

-----------------------------------------------------------------------------
(* ProcessRequest and EnqueueTask, in the goroutine of an HTTP request     *)

NewTask(t) == [id |-> t, status |-> "queued", attempts |-> 0, due |-> TRUE]

(* Faulty: the task is locked before it is offered, as on the retry path.  *)
AcceptLocked(a, t) ==
    /\ At(a, "accept")
    /\ t \notin accepted
    /\ accepted' = accepted \cup {t}
    /\ Hold(a, NewTask(t))
    /\ Issue(a, SaveTask(NewTask(t)))
    /\ AcquireLock(t)
    /\ Goto(a, "offer")
    /\ UNCHANGED <<rec, members, procVars, batch, sends, acked, logs, faults>>

Accept(a, t) ==
    /\ At(a, "accept")
    /\ t \notin accepted
    /\ accepted' = accepted \cup {t}
    /\ Hold(a, NewTask(t))
    /\ Issue(a, SaveTask(NewTask(t)))
    /\ Goto(a, "offer")
    /\ UNCHANGED <<rec, members, locked, procVars, batch,
                   sends, acked, logs, faults>>

(* Faulty: an unbounded queue takes the place of the channel.              *)
OfferUnbounded(a) ==
    /\ At(a, "offer")
    /\ queue' = [queue EXCEPT ![a[1]] = Append(@, cur[a])]
    /\ Hold(a, None)
    /\ Goto(a, "accept")
    /\ UNCHANGED <<storeVars, phase, batch, extVars>>

Offer(a) ==
    LET p == a[1] IN
    /\ At(a, "offer")
    /\ phase[p] = "running"
    /\ Len(queue[p]) < QueueCap
    /\ queue' = [queue EXCEPT ![p] = Append(@, cur[a])]
    /\ Hold(a, None)
    /\ Goto(a, "accept")
    /\ UNCHANGED <<storeVars, phase, batch, extVars>>

OfferFull(a) ==
    LET c == Reset(cur[a]) IN
    /\ At(a, "offer")
    /\ phase[a[1]] = "running"
    /\ Len(queue[a[1]]) = QueueCap
    /\ Issue(a, UpdateTask(c) \o AddTo("retry_pending", c))
    /\ Hold(a, None)
    /\ Goto(a, "accept")
    /\ UNCHANGED <<rec, members, locked, procVars, batch, extVars>>

(* The panic of a request's goroutine is recovered by the HTTP server.     *)
OfferPanic(a) ==
    /\ At(a, "offer")
    /\ phase[a[1]] = "stopping"
    /\ Hold(a, None)
    /\ Goto(a, "accept")
    /\ UNCHANGED <<storeVars, procVars, batch, extVars>>

-----------------------------------------------------------------------------
(* CancelTask, by a caller that knows the task's ID. It need not wait for  *)
(* the handler that creates the task: the ID is in the subscription's list *)
(* (GetSubscriptionTasks) before EnqueueTask is done, and CancelTask looks *)
(* at nothing but the lock. With the lock taken by another it returns an   *)
(* error and nothing changes.                                              *)

Cancel(a, t) ==
    /\ At(a, "cancel")
    /\ t \in Cancellable \cap accepted
    /\ AcquireLock(t)
    /\ Hold(a, NewTask(t))  \* only the ID matters
    /\ Goto(a, "mark")
    /\ UNCHANGED <<rec, members, todo, procVars, batch, extVars>>

(* Faulty: stores the record by a plain SET, and takes the old status from *)
(* it after the change.                                                    *)
MarkUnindexed(a) ==
    LET t == cur[a].id IN
    /\ At(a, "mark")
    /\ IF Known(t) /\ rec[t].status \notin Terminal
         THEN LET c == [rec[t] EXCEPT !.status = "cancelled"] IN
              Issue(a, Cmd("set", c.status, c) \o RemoveFrom(c.status, c)
                       \o AddTo("cancelled", c))
         ELSE UNCHANGED todo
    /\ Goto(a, "unlock")
    /\ UNCHANGED <<rec, members, locked, procVars, cur, batch, extVars>>

Mark(a) ==
    LET t == cur[a].id IN
    /\ At(a, "mark")
    /\ IF Known(t) /\ rec[t].status \notin Terminal
         THEN LET c == [rec[t] EXCEPT !.status = "cancelled"] IN
              Issue(a, UpdateTask(c) \o RemoveFrom(rec[t].status, c)
                       \o AddTo("cancelled", c))
         ELSE UNCHANGED todo
    /\ Goto(a, "unlock")
    /\ UNCHANGED <<rec, members, locked, procVars, cur, batch, extVars>>

-----------------------------------------------------------------------------
(* Time, processes and faults                                              *)

Fault(kind) ==
    /\ kind \in FaultKinds
    /\ faults < MaxFaults
    /\ faults' = faults + 1
    /\ UNCHANGED <<accepted, sends, acked, logs>>

(* NextAttemptAt passes.                                                   *)
BackoffElapses(t) ==
    /\ Known(t)
    /\ ~rec[t].due
    /\ PromptSteps => ~ \E a \in Actor : Writes(a, t)
    /\ rec' = [rec EXCEPT ![t].due = TRUE]
    /\ UNCHANGED <<members, locked, todo, procVars, goVars, extVars>>

LockExpires(t) ==
    /\ t \in locked
    /\ PromptSteps => ~InHand(t)
    /\ ReleaseLock(t)
    /\ UNCHANGED <<rec, members, todo, procVars, goVars, extVars>>

RecordExpires(t) ==
    /\ Fault("expiry")
    /\ Known(t)
    /\ ~InHand(t)
    /\ rec' = [rec EXCEPT ![t] = None]
    /\ UNCHANGED <<members, locked, todo, procVars, goVars>>

Start(p) ==
    /\ phase[p] = "off"
    /\ phase' = [phase EXCEPT ![p] = "running"]
    /\ pc' = [a \in Actor |-> IF a[1] = p THEN Home(a[2]) ELSE pc[a]]
    /\ UNCHANGED <<storeVars, queue, cur, batch, extVars>>

(* SIGTERM: Stop closes taskQueue. The server and the dispatcher go on.    *)
Stop(p) ==
    /\ Fault("stop")
    /\ phase[p] = "running"
    /\ phase' = [phase EXCEPT ![p] = "stopping"]
    /\ UNCHANGED <<storeVars, queue, goVars>>

(* workerWg.Wait returns, e.Shutdown makes e.Start return, main exits.     *)
Exit(p) ==
    /\ phase[p] = "stopping"
    /\ \A w \in Worker : pc[<<p, w>>] = "exit"
    /\ Down(p)
    /\ UNCHANGED extVars

Crash(p) ==
    /\ Fault("crash")
    /\ Up(p)
    /\ Down(p)

(* A Redis command returns an error. SET NX and DEL of the lock may have   *)
(* been applied all the same.                                              *)
CommandFails(a) ==
    /\ Fault("redis")
    /\ ExecFails(a)
    /\ UNCHANGED <<procVars, goVars>>

LockFails(a) ==
    /\ Fault("redis")
    /\ \E l \in {"lock", "claim"} : At(a, l)
    /\ locked' \in {locked, locked \cup {cur[a].id}}
    /\ Hold(a, None)
    /\ Goto(a, Home(a[2]))
    /\ UNCHANGED <<rec, members, todo, procVars, batch>>

(* The same in CancelTask, which returns.                                  *)
CancelFails(a, t) ==
    /\ Fault("redis")
    /\ At(a, "cancel")
    /\ t \in Cancellable \cap accepted
    /\ locked' = locked \cup {t}
    /\ UNCHANGED <<rec, members, todo, procVars, goVars>>

UnlockFails(a) ==
    /\ Fault("redis")
    /\ At(a, "unlock")
    /\ Hold(a, None)
    /\ Goto(a, Home(a[2]))
    /\ UNCHANGED <<storeVars, procVars, batch>>

(* GET fails in a loop of dispatcher or recoverer, or in CancelTask.       *)
ReadFails(a) ==
    /\ Fault("redis")
    /\ \/ /\ \E l \in {"poll", "reset"} : At(a, l)
          /\ \E t \in batch[a] : batch' = [batch EXCEPT ![a] = @ \ {t}]
          /\ UNCHANGED pc
       \/ /\ At(a, "scan")
          /\ Goto(a, "exit")
          /\ UNCHANGED batch
       \/ /\ At(a, "mark")
          /\ Goto(a, "unlock")
          /\ UNCHANGED batch
    /\ UNCHANGED <<storeVars, procVars, cur>>

-----------------------------------------------------------------------------
Work(a) ==
    \/ Take(a) \/ Finish(a) \/ Skip(a) \/ Begin(a) \/ CountAttempt(a)
    \/ Deliver(a) \/ Settle(a) \/ Unlock(a)

Dispatch(a) ==
    \/ Poll(a) \/ PassOver(a) \/ Claim(a) \/ Put(a) \/ PutBack(a)
    \/ DispatcherPanic(a)
    \/ \E t \in Task : Inspect(a, t)

Recover(a) ==
    RecoverScan(a) \/ RecoverEnd(a) \/ \E t \in Task : RecoverNext(a, t)

Enqueue(a) == Offer(a) \/ OfferFull(a) \/ OfferPanic(a)

(* What a goroutine does by itself once it is started.                     *)
Run(a) ==
    Redis(a) \/ Work(a) \/ Dispatch(a) \/ Recover(a) \/ Enqueue(a) \/ Mark(a)

Request(a, t) == Accept(a, t) \/ Cancel(a, t)

Clock(t) == BackoffElapses(t) \/ LockExpires(t)

Failing(a) ==
    \/ CommandFails(a) \/ LockFails(a) \/ UnlockFails(a) \/ ReadFails(a)
    \/ \E t \in Task : CancelFails(a, t)

Next ==
    \/ \E a \in Actor : Run(a) \/ Failing(a) \/ \E t \in Task : Request(a, t)
    \/ \E t \in Task : Clock(t) \/ RecordExpires(t)
    \/ \E p \in Proc : Start(p) \/ Stop(p) \/ Exit(p) \/ Crash(p)

Spec == Init /\ [][Next]_vars

(* Goroutines that can run do, clocks advance, and the platform restarts   *)
(* a process that is down. Nobody has to send webhooks, cancel or fail.    *)
Fairness ==
    /\ \A a \in Actor : WF_vars(Run(a))
    /\ \A t \in Task : WF_vars(BackoffElapses(t)) /\ WF_vars(LockExpires(t))
    /\ \A p \in Proc : WF_vars(Start(p)) /\ WF_vars(Exit(p))

LiveSpec == Spec /\ Fairness
=============================================================================
