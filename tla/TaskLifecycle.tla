---------------------------- MODULE TaskLifecycle ----------------------------
(***************************************************************************)
(* What the scheduler promises about a single webhook, whoever looks at    *)
(* its record: a life of queueing and attempts that ends in success or     *)
(* after MaxAttempts failed attempts, and never resumes after its end.     *)
(* The statuses are those of Task.Status in internal/worker/worker.go.     *)
(***************************************************************************)
EXTENDS Naturals

CONSTANTS Task, MaxAttempts

VARIABLES
    st,  \* st[t]: "unknown" before the webhook is accepted, then its status
    n    \* n[t]: attempts begun so far

lifeVars == <<st, n>>

Move(t, from, to) ==
    /\ st[t] = from
    /\ st' = [st EXCEPT ![t] = to]
    /\ n' = n

LifeInit == st = [t \in Task |-> "unknown"] /\ n = [t \in Task |-> 0]

Accepted(t) == Move(t, "unknown", "queued")
Postponed(t) == Move(t, "queued", "retry_pending")
Requeued(t) == Move(t, "retry_pending", "queued")
Started(t) == n[t] < MaxAttempts /\ Move(t, "queued", "in_progress")

Attempted(t) ==
    /\ st[t] = "in_progress"
    /\ n[t] < MaxAttempts
    /\ n' = [n EXCEPT ![t] = @ + 1]
    /\ st' = st

Succeeded(t) == n[t] > 0 /\ Move(t, "in_progress", "completed")
GivenUp(t) == n[t] = MaxAttempts /\ Move(t, "in_progress", "failed")
Failed(t) == n[t] \in 1..(MaxAttempts - 1) /\ Move(t, "in_progress", "retry_pending")

LifeNext == \E t \in Task :
    \/ Accepted(t) \/ Postponed(t) \/ Requeued(t) \/ Started(t)
    \/ Attempted(t) \/ Succeeded(t) \/ GivenUp(t) \/ Failed(t)

LifeSpec == LifeInit /\ [][LifeNext]_lifeVars
=============================================================================
