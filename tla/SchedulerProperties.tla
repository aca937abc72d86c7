------------------------- MODULE SchedulerProperties -------------------------
(***************************************************************************)
(* What the delivery scheduler guarantees, and what its comments and its   *)
(* README say of it. "At rest" means that no goroutine has the task in     *)
(* hand.                                                                   *)
(***************************************************************************)
EXTENDS Scheduler

(* Every variable stays within its type; a channel never exceeds its       *)
(* capacity.                                                               *)
TypeOK ==
    /\ StoreTypeOK
    /\ phase \in [Proc -> {"off", "running", "stopping"}]
    /\ queue \in [Proc -> Seq(Copy)]
    /\ \A p \in Proc : Len(queue[p]) <= QueueCap
    /\ pc \in [Actor -> Label]
    /\ cur \in [Actor -> Copy \cup {None}]
    /\ batch \in [Actor -> SUBSET Task]
    /\ accepted \subseteq Task
    /\ sends \in [Task -> Nat]
    /\ acked \subseteq Task
    /\ logs \subseteq LogRow
    /\ faults \in Nat

(* At most one goroutine of all processes works on a task at a time, as    *)
(* acquireTaskLock is there to ensure.                                     *)
MutualExclusion ==
    \A a, b \in Actor, t \in Task :
        InSection(a, t) /\ InSection(b, t) => a = b

(* A record says completed only after a receiver answered 2xx, and failed  *)
(* only when its attempts are used up, whatever stale copies are written.  *)
TerminalJustified ==
    \A t \in Task : Known(t) =>
        /\ rec[t].status = "completed" => t \in acked
        /\ rec[t].status = "failed" => rec[t].attempts >= MaxAttempts

(* A worker leaves its loop only when Stop has closed a channel that is    *)
(* empty for good: an orderly exit abandons no task of the channel.        *)
ExitDrained ==
    \A p \in Proc, w \in Worker :
        pc[<<p, w>>] = "exit" => phase[p] = "stopping" /\ queue[p] = <<>>

(* Without faults a record says in_progress only while a goroutine works   *)
(* on the task.                                                            *)
InProgressIsWorked ==
    \A t \in Task : Known(t) /\ rec[t].status = "in_progress" => InHand(t)

(* The places of t in the channel of p.                                    *)
Waiting(p, t) == {i \in DOMAIN queue[p] : queue[p][i].id = t}

(* Without faults a cancelled task stays cancelled for good, in every      *)
(* process, once nothing is left of it that was read or begun before: no   *)
(* copy in a channel or a goroutine, no place in the retry set or in the   *)
(* list a dispatcher goes through. CancelTask of a task that is still      *)
(* being enqueued may leave it in the retry set.                           *)
Quiet(t) ==
    /\ ~InHand(t)
    /\ \A p \in Proc : Waiting(p, t) = {}
    /\ \A a \in Actor : t \notin batch[a]

CancelSticks ==
    \A t \in Task :
        [](StatusOf(t) = "cancelled" /\ Quiet(t) /\ t \notin members["retry_pending"]
             => [](StatusOf(t) = "cancelled"))

(* Without faults a task at rest is listed, and it is in the set of its    *)
(* status and in no other: the writes of updateTaskInRedis and the extra   *)
(* SADD and SREM of its callers never leave a stray entry.                 *)
IndexComplete ==
    \A t \in Task : Known(t) /\ ~InHand(t) =>
        /\ t \in members["listed"]
        /\ \A s \in Status : t \in members[s] <=> s = rec[t].status

(* CancelTask is not called for a webhook whose handler is still at it.    *)
CancelAfterAnswer ==
    \A t \in Task, a, h \in Actor :
        a[2] \in Canceller /\ h[2] \in Handler =>
            ~ ((Holds(a, t) \/ Writes(a, t)) /\ (Holds(h, t) \/ Writes(h, t)))

(* The same with several processes and callers of CancelTask, as long as   *)
(* none of them cancels a webhook before it is answered. Nothing in the    *)
(* code makes them wait.                                                   *)
IndexKeepsUp == []CancelAfterAnswer => []IndexComplete

(* Without faults, whoever cancels what and when: a task at rest can be    *)
(* found by the passes that go by the sets. It is listed, it is in the set *)
(* of its status unless that is cancelled, and the sets of work in         *)
(* progress, which recoverPendingTasks resets without a look at the        *)
(* status, and of work that is done hold no other task.                    *)
Findable ==
    \A t \in Task : Known(t) /\ ~InHand(t) =>
        /\ t \in members["listed"]
        /\ rec[t].status # "cancelled" => t \in members[rec[t].status]
        /\ \A s \in {"in_progress", "completed", "failed"} :
             t \in members[s] => s = rec[t].status

(* With one process and no faults the attempts in a record at rest are the *)
(* POST requests made, and a task is given up after MaxAttempts of them.   *)
AttemptAccounting ==
    \A t \in Task : Known(t) /\ ~InHand(t) =>
        /\ rec[t].attempts = sends[t]
        /\ rec[t].status = "failed" => sends[t] = MaxAttempts

(* With one process and no faults the log rows of a task have different    *)
(* attempt numbers, and only the last can be other than a failed attempt.  *)
LogHistory ==
    \A l, m \in logs :
        l.task = m.task /\ l.attempt <= m.attempt =>
            \/ l = m
            \/ l.attempt < m.attempt /\ l.status = "Failed Attempt"

(* With one process and no faults a webhook its receiver acknowledged is   *)
(* never sent again.                                                       *)
NoSendAfterAck ==
    [][\A t \in acked : sends'[t] = sends[t]]_vars

(* With one process and no faults a task is in one place at most: once in  *)
(* the channel, or in the hands of one goroutine.                          *)
SinglePlace ==
    \A t \in Task, p \in Proc :
        /\ \A i, j \in Waiting(p, t) : i = j
        /\ Waiting(p, t) # {} => \A a \in Actor : ~Holds(a, t)

(* The life of each record, as a reader of Redis sees it.                  *)
Lifecycle == INSTANCE TaskLifecycle WITH
    st <- [t \in Task |-> StatusOf(t)],
    n  <- [t \in Task |-> IF Known(t) THEN rec[t].attempts ELSE 0]

(* With one process and no faults the records go through the life cycle of *)
(* TaskLifecycle and through no other.                                     *)
RefinesLifecycle == Lifecycle!LifeSpec

(* While channels have room every accepted webhook is sent at least once.  *)
FirstAttempt == \A t \in Task : t \in accepted ~> sends[t] > 0

(* Stop terminates: workers drain the channel, finish what they hold and   *)
(* return, and the process ends.                                           *)
StopTerminates ==
    \A p \in Proc : phase[p] = "stopping" ~> phase[p] = "off"

(* README: workers "process queued webhook deliveries with automatic       *)
(* retries". A task waiting for its retry is sent again.                   *)
RetriesAreSent ==
    \A t \in Task, k \in 1..MaxSends :
        (Known(t) /\ rec[t].status = "retry_pending" /\ sends[t] = k)
            ~> sends[t] > k

(* EnqueueTask stores a task "for persistence": it survives a crash of the *)
(* process and is sent in the end.                                         *)
QueuedSurvives ==
    \A t \in Task : StatusOf(t) = "queued" ~> sends[t] > 0

(* "Task completed successfully": a completed record is never put back     *)
(* into play.                                                              *)
CompletedIsFinal ==
    [][\A t \in Task : StatusOf(t) = "completed"
           => StatusOf(t)' \in {"completed", "unknown"}]_vars

(* "Stop waits for all workers to finish": a stopping process ends with    *)
(* every worker out of its loop.                                           *)
StopWaits ==
    [][\A p \in Proc : phase[p] = "stopping" /\ phase'[p] = "off"
           => \A w \in Worker : pc[<<p, w>>] = "exit"]_vars
=============================================================================
