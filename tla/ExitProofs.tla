----------------------------- MODULE ExitProofs -----------------------------
(***************************************************************************)
(* A worker leaves its loop only when its channel is closed and drained.   *)
(*                                                                         *)
(* Other roles reach the label "exit" too: the invariant must say that a   *)
(* worker is never where only they can be (WorkerPlaces).                  *)
(***************************************************************************)
EXTENDS SchedulerProofs

WorkerLabel == {"off", "exit", "take", "lock", "attempt", "send", "log", "unlock"}

WorkerPlaces == \A p \in Proc, w \in Worker : pc[<<p, w>>] \in WorkerLabel

DrainInv == WorkerPlaces /\ ExitDrained

(* The place of a worker, whichever actor it is.                           *)
LEMMA WorkerPlace ==
    ASSUME DrainInv, NEW a \in Actor, a[2] \in Worker
    PROVE  pc[a] \in WorkerLabel
<1>1. a = <<a[1], a[2]>> /\ a[1] \in Proc
  BY SchedulerAssumption
<1> QED BY <1>1 DEF DrainInv, WorkerPlaces

(* Goroutine a goes to label l. A closed and drained channel stays so.     *)
LEMMA MoveDrained ==
    ASSUME TypeInv, DrainInv, UNCHANGED phase, NEW a \in Actor, NEW l,
           Goto(a, l) \/ UNCHANGED pc,
           a[2] \in Worker => /\ l \in WorkerLabel
                              /\ l = "exit" => /\ phase[a[1]] = "stopping"
                                               /\ queue[a[1]] = <<>>,
           \A p \in Proc :
               phase[p] = "stopping" /\ queue[p] = <<>> => queue'[p] = <<>>
    PROVE  DrainInv'
<1> SUFFICES ASSUME NEW p \in Proc, NEW w \in Worker
             PROVE  /\ pc'[<<p, w>>] \in WorkerLabel
                    /\ pc'[<<p, w>>] = "exit" =>
                         phase'[p] = "stopping" /\ queue'[p] = <<>>
  BY DEF DrainInv, WorkerPlaces, ExitDrained
<1> DEFINE b == <<p, w>>
<1>1. b \in Actor /\ b[1] = p /\ b[2] = w
  BY SchedulerAssumption DEF Role
<1>2. /\ pc[b] \in WorkerLabel
      /\ pc[b] = "exit" => phase[p] = "stopping" /\ queue[p] = <<>>
  BY DEF DrainInv, WorkerPlaces, ExitDrained
<1>3. pc'[b] = pc[b] \/ (b = a /\ pc'[b] = l)
  BY <1>1, TypeParts DEF Goto
<1> HIDE DEF b
<1>4. CASE pc'[b] = pc[b]
  BY <1>2, <1>4 DEF b
<1>5. CASE b = a /\ pc'[b] = l
  BY <1>1, <1>5 DEF b
<1> QED BY <1>3, <1>4, <1>5

(* All goroutines of a process go down with it.                            *)
LEMMA DownDrained ==
    ASSUME TypeInv, DrainInv, NEW p \in Proc, Down(p)
    PROVE  DrainInv'
<1> SUFFICES ASSUME NEW q \in Proc, NEW w \in Worker
             PROVE  /\ pc'[<<q, w>>] \in WorkerLabel
                    /\ pc'[<<q, w>>] = "exit" =>
                         phase'[q] = "stopping" /\ queue'[q] = <<>>
  BY DEF DrainInv, WorkerPlaces, ExitDrained
<1>1. <<q, w>> \in Actor
  BY SchedulerAssumption DEF Role
<1>2. CASE q = p
  BY <1>1, <1>2 DEF Down, WorkerLabel
<1>3. CASE q # p
  <2>1. pc'[<<q, w>>] = pc[<<q, w>>] /\ phase'[q] = phase[q] /\ queue'[q] = queue[q]
    BY <1>1, <1>3, TypeParts DEF Down, RestOK
  <2> QED BY <2>1 DEF DrainInv, WorkerPlaces, ExitDrained
<1> QED BY <1>2, <1>3

LEMMA HomePlace ==
    \A r \in Role : r \in Worker => Home(r) = "take"
BY DEF Home

-----------------------------------------------------------------------------
LEMMA WorkDrained ==
    ASSUME TypeInv, DrainInv, NEW a \in Actor, Work(a)
    PROVE  DrainInv'
<1>1. CASE Take(a)
  <2>1. /\ Goto(a, "lock") /\ UNCHANGED phase
        /\ queue[a[1]] # <<>> /\ queue' = [queue EXCEPT ![a[1]] = Tail(@)]
    BY <1>1 DEF Take
  <2>2. \A p \in Proc : queue[p] = <<>> => queue'[p] = <<>>
    BY <2>1, TypeParts DEF RestOK
  <2> QED BY <2>1, <2>2, MoveDrained DEF WorkerLabel
<1>2. CASE Finish(a)
  <2>1. /\ Goto(a, "exit") /\ UNCHANGED <<phase, queue>>
        /\ phase[a[1]] = "stopping" /\ queue[a[1]] = <<>>
    BY <1>2 DEF Finish, procVars
  <2> QED BY <2>1, MoveDrained DEF WorkerLabel
<1>3. CASE \/ Skip(a) \/ Begin(a) \/ CountAttempt(a)
           \/ Deliver(a) \/ Settle(a)
  <2>1. \E l \in WorkerLabel \ {"exit"} : Goto(a, l)
    BY <1>3 DEF Skip, Begin, CountAttempt, Deliver, Settle, WorkerLabel
  <2>2. UNCHANGED <<phase, queue>>
    BY <1>3 DEF Skip, Begin, CountAttempt, Deliver, Settle, procVars
  <2> QED BY <2>1, <2>2, MoveDrained
<1>4. CASE Unlock(a)
  <2>1. Goto(a, Home(a[2])) /\ UNCHANGED <<phase, queue>>
    BY <1>4 DEF Unlock, procVars
  <2> QED BY <2>1, CurType, HomePlace, MoveDrained DEF WorkerLabel
<1> QED BY <1>1, <1>2, <1>3, <1>4 DEF Work

(* What the other goroutines do starts where a worker never is.            *)
LEMMA OtherDrained ==
    ASSUME TypeInv, DrainInv, NEW a \in Actor,
           Dispatch(a) \/ Recover(a) \/ Enqueue(a) \/ Mark(a)
           \/ \E t \in Task : Request(a, t)
    PROVE  DrainInv'
<1>1. pc[a] \notin WorkerLabel
  BY DEF Dispatch, Poll, PassOver, Claim, Put, PutBack, DispatcherPanic, Inspect,
         Recover, RecoverScan, RecoverEnd, RecoverNext, Enqueue, Offer, OfferFull,
         OfferPanic, Mark, Request, Accept, Cancel, At, WorkerLabel
<1>2. a[2] \notin Worker
  BY <1>1, WorkerPlace
<1>3. CASE DispatcherPanic(a)
  BY <1>3, CurType, DownDrained DEF DispatcherPanic
<1>4. CASE ~DispatcherPanic(a)
  <2>1. UNCHANGED phase /\ ((\E l : Goto(a, l)) \/ UNCHANGED pc)
    BY <1>4 DEF Dispatch, Poll, PassOver, Claim, Put, PutBack, Inspect,
       Recover, RecoverScan, RecoverEnd, RecoverNext, Enqueue, Offer, OfferFull,
       OfferPanic, Mark, Request, Accept, Cancel, procVars
  <2>2. UNCHANGED queue \/ phase[a[1]] = "running"
    BY <1>4 DEF Dispatch, Poll, PassOver, Claim, Put, PutBack, Inspect,
       Recover, RecoverScan, RecoverEnd, RecoverNext, Enqueue, Offer, OfferFull,
       OfferPanic, Mark, Request, Accept, Cancel, procVars
  <2>3. \A p \in Proc : p # a[1] => queue'[p] = queue[p]
    BY <1>4, TypeParts
    DEF Dispatch, Poll, PassOver, Claim, Put, PutBack, Inspect,
       Recover, RecoverScan, RecoverEnd, RecoverNext, Enqueue, Offer, OfferFull,
       OfferPanic, Mark, Request, Accept, Cancel, procVars, RestOK
  <2>4. \A p \in Proc :
            phase[p] = "stopping" /\ queue[p] = <<>> => queue'[p] = <<>>
    BY <2>2, <2>3
  <2> QED BY <1>2, <2>1, <2>4, MoveDrained
<1> QED BY <1>3, <1>4

LEMMA FailingDrained ==
    ASSUME TypeInv, DrainInv, NEW a \in Actor, Failing(a)
    PROVE  DrainInv'
<1>1. UNCHANGED <<phase, queue>>
  BY DEF Failing, CommandFails, LockFails, UnlockFails, ReadFails, CancelFails,
         procVars
<1>2. CASE CommandFails(a)
  <2>1. UNCHANGED pc
    BY <1>2 DEF CommandFails, goVars
  <2> QED BY <1>1, <2>1 DEF DrainInv, WorkerPlaces, ExitDrained
<1>3. CASE LockFails(a) \/ UnlockFails(a)
  <2>1. Goto(a, Home(a[2]))
    BY <1>3 DEF LockFails, UnlockFails
  <2> QED BY <1>1, <2>1, CurType, HomePlace, MoveDrained DEF WorkerLabel
<1>4. CASE ReadFails(a)
  <2>1. pc[a] \notin WorkerLabel /\ ((\E l : Goto(a, l)) \/ UNCHANGED pc)
    BY <1>4 DEF ReadFails, At, WorkerLabel
  <2>2. a[2] \notin Worker
    BY <2>1, WorkerPlace
  <2> QED BY <1>1, <2>1, <2>2, MoveDrained
<1>5. ASSUME NEW t \in Task, CancelFails(a, t) PROVE DrainInv'
  <2>1. UNCHANGED pc
    BY <1>5 DEF CancelFails, goVars
  <2> QED BY <1>1, <2>1 DEF DrainInv, WorkerPlaces, ExitDrained
<1> QED BY <1>2, <1>3, <1>4, <1>5 DEF Failing

LEMMA ProcessDrained ==
    ASSUME TypeInv, DrainInv, NEW p \in Proc,
           Start(p) \/ Stop(p) \/ Exit(p) \/ Crash(p)
    PROVE  DrainInv'
<1> DEFINE Drained(q, w) ==
              /\ pc'[<<q, w>>] \in WorkerLabel
              /\ pc'[<<q, w>>] = "exit" =>
                   phase'[q] = "stopping" /\ queue'[q] = <<>>
<1>1. CASE Start(p)
  <2> SUFFICES ASSUME NEW q \in Proc, NEW w \in Worker PROVE Drained(q, w)
    BY DEF DrainInv, WorkerPlaces, ExitDrained
  <2>1. <<q, w>> \in Actor /\ w \in Role
    BY SchedulerAssumption DEF Role
  <2>2. CASE q = p
    <3>1. pc'[<<q, w>>] = Home(w)
      BY <1>1, <2>1, <2>2 DEF Start
    <3> QED BY <2>1, <3>1, HomePlace DEF WorkerLabel
  <2>3. CASE q # p
    <3>1. /\ pc'[<<q, w>>] = pc[<<q, w>>]
          /\ phase'[q] = phase[q] /\ queue'[q] = queue[q]
      BY <1>1, <2>1, <2>3, TypeParts DEF Start, RestOK
    <3> QED BY <3>1 DEF DrainInv, WorkerPlaces, ExitDrained
  <2> QED BY <2>2, <2>3
<1>2. CASE Stop(p)
  <2>1. UNCHANGED <<pc, queue>> /\ phase[p] = "running"
        /\ phase' = [phase EXCEPT ![p] = "stopping"]
    BY <1>2 DEF Stop, goVars
  <2>2. \A q \in Proc : phase[q] = "stopping" => phase'[q] = "stopping"
    BY <2>1, TypeParts DEF RestOK
  <2> QED BY <2>1, <2>2 DEF DrainInv, WorkerPlaces, ExitDrained
<1>3. CASE Exit(p) \/ Crash(p)
  BY <1>3, DownDrained DEF Exit, Crash
<1> QED BY <1>1, <1>2, <1>3

LEMMA NextDrained ==
    ASSUME TypeInv, DrainInv, [Next]_vars
    PROVE  DrainInv'
<1>1. ASSUME NEW a \in Actor, Run(a) PROVE DrainInv'
  <2>1. CASE Redis(a)
    <3>1. UNCHANGED <<pc, phase, queue>>
      BY <2>1 DEF Redis, procVars, goVars
    <3> QED BY <3>1 DEF DrainInv, WorkerPlaces, ExitDrained
  <2> QED BY <1>1, <2>1, WorkDrained, OtherDrained DEF Run
<1>2. ASSUME NEW a \in Actor, Failing(a) PROVE DrainInv'
  BY <1>2, FailingDrained
<1>3. ASSUME NEW a \in Actor, NEW t \in Task, Request(a, t) PROVE DrainInv'
  BY <1>3, OtherDrained
<1>4. ASSUME NEW t \in Task, Clock(t) \/ RecordExpires(t) PROVE DrainInv'
  <2>1. UNCHANGED <<pc, phase, queue>>
    BY <1>4 DEF Clock, BackoffElapses, LockExpires, RecordExpires, procVars, goVars
  <2> QED BY <2>1 DEF DrainInv, WorkerPlaces, ExitDrained
<1>5. ASSUME NEW p \in Proc, Start(p) \/ Stop(p) \/ Exit(p) \/ Crash(p)
      PROVE DrainInv'
  BY <1>5, ProcessDrained
<1>6. CASE UNCHANGED vars
  BY <1>6 DEF vars, procVars, goVars, DrainInv, WorkerPlaces, ExitDrained
<1> QED BY <1>1, <1>2, <1>3, <1>4, <1>5, <1>6 DEF Next

(* No worker of any process ever leaves its loop with a task still in the  *)
(* channel, or before Stop has closed it, whatever else happens.           *)
THEOREM Drained == Spec => []ExitDrained
<1>1. Init => DrainInv
  <2> SUFFICES ASSUME Init, NEW p \in Proc, NEW w \in Worker
               PROVE  pc[<<p, w>>] \in WorkerLabel \ {"exit"}
    BY DEF DrainInv, WorkerPlaces, ExitDrained
  <2>1. <<p, w>> \in Actor /\ w \in Role /\ w # "recoverer"
    BY SchedulerAssumption DEF Role
  <2>2. Home(w) = "take"
    BY DEF Home
  <2>3. pc[<<p, w>>] \in {"off", Home(w)}
    BY <2>1 DEF Init
  <2> QED BY <2>2, <2>3 DEF WorkerLabel
<1>2. TypeInv /\ DrainInv /\ [Next]_vars => DrainInv'
  BY NextDrained
<1>3. DrainInv => ExitDrained
  BY DEF DrainInv
<1> QED BY <1>1, <1>2, <1>3, TypeCorrect, PTL DEF Spec
=============================================================================
