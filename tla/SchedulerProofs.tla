--------------------------- MODULE SchedulerProofs ---------------------------
(***************************************************************************)
(* Type correctness and mutual exclusion of the delivery scheduler, for    *)
(* every number of processes, workers and webhooks, with all its faults.   *)
(*                                                                         *)
(* TypeOK alone is not inductive: that a goroutine holds a task where the  *)
(* code dereferences it, and that the task carries an outcome when it is   *)
(* logged, must be carried along (HandsFull). Mutual exclusion needs that  *)
(* the lock is held throughout a section (LockHeld), which in turn needs   *)
(* that nobody else releases it.                                           *)
(***************************************************************************)
EXTENDS SchedulerProperties, TLAPS

Holding == {"lock", "attempt", "send", "log", "unlock",
            "claim", "put", "offer", "mark"}

(* A goroutine holds a task wherever the code dereferences its *Task.      *)
HandsFull ==
    \A a \in Actor :
        /\ pc[a] \in Holding => cur[a] # None
        /\ pc[a] = "log" =>
             cur[a].status \in {"completed", "failed", "retry_pending"}

(* The lock of a task exists as long as a goroutine is in its section.     *)
LockHeld == \A a \in Actor, t \in Task : InSection(a, t) => t \in locked

TypeInv == TypeOK /\ HandsFull

LockInv == LockHeld /\ MutualExclusion

-----------------------------------------------------------------------------
(* The command lists consist of commands, and commands are executed into   *)
(* lists of commands.                                                      *)
LEMMA CmdType ==
    ASSUME NEW op \in {"update", "set", "add", "rem"},
           NEW k \in Key \cup {"unknown"}, NEW c \in Copy
    PROVE  Cmd(op, k, c) \in Seq(Command)
BY DEF Cmd, Command

LEMMA ListTypes ==
    ASSUME NEW c \in Copy, NEW k \in Key, NEW old \in Key \cup {"unknown"}
    PROVE  /\ AddTo(k, c) \in Seq(Command)
           /\ RemoveFrom(k, c) \in Seq(Command)
           /\ UpdateTask(c) \in Seq(Command)
           /\ SaveTask(c) \in Seq(Command)
           /\ AfterSet(old, c) \in Seq(Command)
<1>1. c.status \in Key /\ "listed" \in Key
  BY DEF Copy, Key
<1>2. \A j \in Key : AddTo(j, c) \in Seq(Command)
  BY CmdType DEF AddTo
<1>3. \A j \in Key : RemoveFrom(j, c) \in Seq(Command)
  BY CmdType DEF RemoveFrom
<1>4. UpdateTask(c) \in Seq(Command) /\ SaveTask(c) \in Seq(Command)
  BY CmdType, <1>1 DEF UpdateTask, SaveTask
<1>5. AfterSet(old, c) \in Seq(Command)
  <2>1. CASE old = "listed" \/ old = "unknown" \/ old = c.status
    BY <1>1, <1>2, <2>1 DEF AfterSet
  <2>2. CASE ~(old = "listed" \/ old = "unknown" \/ old = c.status)
    BY <1>1, <1>2, <1>3, <2>2 DEF AfterSet
  <2> QED BY <2>1, <2>2
<1> QED BY <1>2, <1>3, <1>4, <1>5

(* One command of any goroutine keeps the store well typed.                *)
LEMMA ExecType ==
    ASSUME StoreTypeOK, NEW a \in Actor, Exec(a) \/ ExecFails(a)
    PROVE  StoreTypeOK'
<1> DEFINE h == Head(todo[a])
<1>1. todo[a] # <<>> /\ todo[a] \in Seq(Command)
  BY DEF StoreTypeOK, Exec, ExecUpdate, ExecSet, ExecAdd, ExecRemove, First,
         ExecFails, ReadOldFails, SetFails, IndexFails
<1>2. h \in Command /\ Tail(todo[a]) \in Seq(Command)
  BY <1>1
<1>3. /\ h.copy \in Copy /\ h.copy.id \in Task
      /\ h.key \in Key \cup {"unknown"}
  BY <1>2 DEF Command, Copy
<1>4. ASSUME NEW cmds \in Seq(Command), Continue(a, cmds)
      PROVE  todo' \in [Actor -> Seq(Command)]
  BY <1>2, <1>4 DEF Continue, StoreTypeOK
<1>5. StatusOf(h.copy.id) \in Key \cup {"unknown"}
  BY <1>3 DEF StatusOf, Known, StoreTypeOK, Copy, Key
<1>6. Cmd("set", StatusOf(h.copy.id), h.copy) \in Seq(Command)
  BY CmdType, <1>3, <1>5
<1>7. Cmd("set", "unknown", h.copy) \in Seq(Command)
  BY CmdType, <1>3
<1>8. AfterSet(h.key, h.copy) \in Seq(Command)
  BY ListTypes, <1>3 DEF Key
<1>9. <<>> \in Seq(Command)
  OBVIOUS
<1>10. CASE ExecUpdate(a)
  BY <1>4, <1>6, <1>10 DEF ExecUpdate, StoreTypeOK
<1>11. CASE ExecSet(a)
  <2>1. rec' = [rec EXCEPT ![h.copy.id] = h.copy] /\ UNCHANGED <<members, locked>>
        /\ Continue(a, AfterSet(h.key, h.copy))
    BY <1>11 DEF ExecSet
  <2> QED BY <1>3, <1>4, <1>8, <2>1 DEF StoreTypeOK
<1>12. CASE ExecAdd(a)
  <2>1. /\ members' = [members EXCEPT ![h.key] = @ \cup {h.copy.id}]
        /\ UNCHANGED <<rec, locked>> /\ Continue(a, <<>>)
    BY <1>12 DEF ExecAdd
  <2>2. members' \in [Key -> SUBSET Task]
    BY <1>3, <2>1 DEF StoreTypeOK
  <2> QED BY <1>4, <1>9, <2>1, <2>2 DEF StoreTypeOK
<1>13. CASE ExecRemove(a)
  <2>1. /\ members' = [members EXCEPT ![h.key] = @ \ {h.copy.id}]
        /\ UNCHANGED <<rec, locked>> /\ Continue(a, <<>>)
    BY <1>13 DEF ExecRemove
  <2>2. members' \in [Key -> SUBSET Task]
    BY <1>3, <2>1 DEF StoreTypeOK
  <2> QED BY <1>4, <1>9, <2>1, <2>2 DEF StoreTypeOK
<1>14. CASE ReadOldFails(a)
  BY <1>4, <1>7, <1>14 DEF ReadOldFails, StoreTypeOK
<1>15. CASE SetFails(a)
  <2>1. /\ rec' \in {rec, [rec EXCEPT ![h.copy.id] = h.copy]}
        /\ todo' = [todo EXCEPT ![a] =
                      IF h.copy.status = "cancelled" THEN <<>> ELSE Tail(@)]
        /\ UNCHANGED <<members, locked>>
    BY <1>15 DEF SetFails
  <2>2. rec' \in [Task -> Copy \cup {None}]
    BY <1>3, <2>1 DEF StoreTypeOK
  <2>3. todo' \in [Actor -> Seq(Command)]
    BY <1>2, <1>9, <2>1 DEF StoreTypeOK
  <2> QED BY <2>1, <2>2, <2>3 DEF StoreTypeOK
<1>16. CASE IndexFails(a)
  BY <1>4, <1>9, <1>16 DEF IndexFails, StoreTypeOK
<1> QED BY <1>10, <1>11, <1>12, <1>13, <1>14, <1>15, <1>16
        DEF Exec, ExecFails

-----------------------------------------------------------------------------
(* Type correctness.                                                       *)

LEMMA HomeType == \A r \in Role : Home(r) \in Label \ (Section \cup Holding)
BY DEF Home, Role, Label, Section, Holding

LEMMA NewTaskType == \A t \in Task : NewTask(t) \in Copy /\ NewTask(t).id = t
BY DEF NewTask, Copy, Status

(* The initial state is well typed and no goroutine holds a task.          *)
LEMMA InitTypeInv == Init => TypeInv
<1> SUFFICES ASSUME Init PROVE TypeInv
  OBVIOUS
<1> USE SchedulerAssumption DEF Init
<1>1. StoreTypeOK
  BY DEF StoreInit, StoreTypeOK
<1>2. \A a \in Actor : a[2] \in Role
  OBVIOUS
<1>3. pc \in [Actor -> Label]
  BY <1>2, HomeType DEF Label
<1>4. \A a \in Actor : pc[a] \notin Holding
  BY <1>2, HomeType DEF Holding
<1>5. HandsFull
  BY <1>4 DEF HandsFull, Holding
<1>6. /\ queue \in [Proc -> Seq(Copy)]
      /\ \A p \in Proc : Len(queue[p]) <= QueueCap
  OBVIOUS
<1> QED BY <1>1, <1>3, <1>5, <1>6 DEF TypeInv, TypeOK

(* A process that goes down leaves a well-typed state.                     *)
LEMMA DownType ==
    ASSUME TypeInv, NEW p \in Proc, Down(p),
           accepted' \subseteq Task, sends' \in [Task -> Nat],
           acked' \subseteq Task, logs' \subseteq LogRow, faults' \in Nat
    PROVE  TypeInv'
<1> USE DEF TypeInv, TypeOK, Down
<1>1. StoreTypeOK'
  BY DEF StoreTypeOK
<1>2. /\ phase' \in [Proc -> {"off", "running", "stopping"}]
      /\ queue' \in [Proc -> Seq(Copy)]
      /\ \A q \in Proc : Len(queue'[q]) <= QueueCap
  BY SchedulerAssumption
<1>3. /\ pc' \in [Actor -> Label]
      /\ cur' \in [Actor -> Copy \cup {None}]
      /\ batch' \in [Actor -> SUBSET Task]
  BY DEF Label
<1>4. HandsFull'
  BY DEF HandsFull, Holding
<1> QED BY <1>1, <1>2, <1>3, <1>4

(* The part of TypeOK that is not about where goroutines are and what they *)
(* hold.                                                                   *)
RestOK ==
    /\ rec \in [Task -> Copy \cup {None}]
    /\ members \in [Key -> SUBSET Task]
    /\ locked \subseteq Task
    /\ phase \in [Proc -> {"off", "running", "stopping"}]
    /\ queue \in [Proc -> Seq(Copy)]
    /\ \A p \in Proc : Len(queue[p]) <= QueueCap
    /\ batch \in [Actor -> SUBSET Task]
    /\ accepted \subseteq Task
    /\ sends \in [Task -> Nat]
    /\ acked \subseteq Task
    /\ logs \subseteq LogRow
    /\ faults \in Nat

LEMMA TypeParts ==
    TypeInv <=> /\ RestOK /\ HandsFull
                /\ todo \in [Actor -> Seq(Command)]
                /\ pc \in [Actor -> Label]
                /\ cur \in [Actor -> Copy \cup {None}]
BY DEF TypeInv, TypeOK, StoreTypeOK, RestOK

LEMMA TypePartsNext ==
    ASSUME RestOK', HandsFull', todo' \in [Actor -> Seq(Command)],
           pc' \in [Actor -> Label], cur' \in [Actor -> Copy \cup {None}]
    PROVE  TypeInv'
BY DEF TypeInv, TypeOK, StoreTypeOK, RestOK

(* Goroutine a goes to label l with c, or nothing, in its hands and the    *)
(* commands cmds to issue; nothing else of the goroutines changes.         *)
LEMMA MoveType ==
    ASSUME TypeInv, RestOK', NEW a \in Actor, NEW l \in Label,
           NEW c \in Copy \cup {None}, NEW cmds \in Seq(Command),
           Goto(a, l) \/ (UNCHANGED pc /\ l = pc[a]),
           Hold(a, c) \/ (UNCHANGED cur /\ c = cur[a]),
           Issue(a, cmds) \/ UNCHANGED todo,
           l \in Holding => c # None,
           l = "log" => c.status \in {"completed", "failed", "retry_pending"}
    PROVE  TypeInv'
<1>1. /\ pc' \in [Actor -> Label] /\ cur' \in [Actor -> Copy \cup {None}]
      /\ todo' \in [Actor -> Seq(Command)]
  BY TypeParts DEF Goto, Hold, Issue
<1>2. pc'[a] = l /\ cur'[a] = c
  BY TypeParts DEF Goto, Hold
<1>3. \A b \in Actor \ {a} : pc'[b] = pc[b] /\ cur'[b] = cur[b]
  BY TypeParts DEF Goto, Hold
<1>4. HandsFull'
  BY <1>2, <1>3, TypeParts DEF HandsFull
<1> QED BY <1>1, <1>4, TypePartsNext

(* The same without commands.                                              *)
LEMMA StayType ==
    ASSUME TypeInv, RestOK', NEW a \in Actor, NEW l \in Label,
           NEW c \in Copy \cup {None}, UNCHANGED todo,
           Goto(a, l) \/ (UNCHANGED pc /\ l = pc[a]),
           Hold(a, c) \/ (UNCHANGED cur /\ c = cur[a]),
           l \in Holding => c # None,
           l = "log" => c.status \in {"completed", "failed", "retry_pending"}
    PROVE  TypeInv'
<1>1. <<>> \in Seq(Command)
  OBVIOUS
<1> QED BY <1>1, MoveType

(* What a goroutine holds where the code dereferences it, and the copies   *)
(* made from it.                                                           *)
LEMMA CurType ==
    ASSUME TypeInv, NEW a \in Actor
    PROVE  /\ a[1] \in Proc /\ a[2] \in Role
           /\ Home(a[2]) \in Label \ Holding
           /\ pc[a] \in Label /\ cur[a] \in Copy \cup {None}
           /\ pc[a] \in Holding => cur[a] \in Copy /\ cur[a].id \in Task
<1>1. a[1] \in Proc /\ a[2] \in Role
  BY SchedulerAssumption
<1>2. Home(a[2]) \in Label \ Holding
  BY <1>1, HomeType
<1>3. pc[a] \in Label /\ cur[a] \in Copy \cup {None}
  BY TypeParts
<1>4. pc[a] \in Holding => cur[a] \in Copy /\ cur[a].id \in Task
  BY <1>3, TypeParts DEF HandsFull, Copy
<1> QED BY <1>1, <1>2, <1>3, <1>4

LEMMA CopyType ==
    ASSUME NEW c \in Copy
    PROVE  /\ c.id \in Task /\ c.status \in Status /\ c.attempts \in Nat
           /\ \A s \in Status :
                /\ [c EXCEPT !.status = s] \in Copy
                /\ [c EXCEPT !.status = s].id = c.id
                /\ [c EXCEPT !.status = s].status = s
           /\ \A d \in BOOLEAN :
                /\ [c EXCEPT !.due = d] \in Copy
                /\ [c EXCEPT !.due = d].id = c.id
           /\ [c EXCEPT !.attempts = @ + 1] \in Copy
           /\ [c EXCEPT !.attempts = @ + 1].id = c.id
           /\ Reset(c) \in Copy /\ Reset(c).id = c.id
<1> USE DEF Copy
<1>1. c.id \in Task /\ c.status \in Status /\ c.attempts \in Nat
  OBVIOUS
<1>2. ASSUME NEW s \in Status
      PROVE  /\ [c EXCEPT !.status = s] \in Copy
             /\ [c EXCEPT !.status = s].id = c.id
             /\ [c EXCEPT !.status = s].status = s
  OBVIOUS
<1>3. ASSUME NEW d \in BOOLEAN
      PROVE  [c EXCEPT !.due = d] \in Copy /\ [c EXCEPT !.due = d].id = c.id
  OBVIOUS
<1>4. /\ [c EXCEPT !.attempts = @ + 1] \in Copy
      /\ [c EXCEPT !.attempts = @ + 1].id = c.id
  OBVIOUS
<1>5. Reset(c) \in Copy /\ Reset(c).id = c.id
  BY DEF Reset, Status
<1> HIDE DEF Copy
<1> QED BY <1>1, <1>2, <1>3, <1>4, <1>5

LEMMA OutcomeType ==
    \A c \in Copy, ok \in BOOLEAN :
        Outcome(c, ok) \in {"completed", "failed", "retry_pending"}
BY DEF Outcome

LEMMA ConcatType ==
    ASSUME NEW s \in Seq(Command), NEW t \in Seq(Command)
    PROVE  s \o t \in Seq(Command)
OBVIOUS

-----------------------------------------------------------------------------
(* What the worker goroutines do.                                          *)
LEMMA WorkType ==
    ASSUME TypeInv, NEW a \in Actor, Work(a)
    PROVE  TypeInv'
<1>0. RestOK
  BY TypeParts
<1> DEFINE p == a[1]
<1>a. <<>> \in Seq(Command) /\ None \in Copy \cup {None}
  OBVIOUS
<1>1. CASE Take(a)
  <2>1. /\ Head(queue[p]) \in Copy /\ Tail(queue[p]) \in Seq(Copy)
        /\ Len(Tail(queue[p])) <= QueueCap
    BY <1>0, <1>1, CurType, SchedulerAssumption DEF Take, RestOK
  <2>2. queue' \in [Proc -> Seq(Copy)] /\ \A q \in Proc : Len(queue'[q]) <= QueueCap
    BY <1>0, <1>1, <2>1, CurType DEF Take, RestOK
  <2>3. RestOK'
    BY <1>0, <1>1, <2>2 DEF Take, RestOK, storeVars, extVars
  <2>4. Head(queue[p]) # None /\ "lock" \in Label
    BY <2>1, NoneAssumption DEF Label
  <2>5. Goto(a, "lock") /\ Hold(a, Head(queue[p])) /\ UNCHANGED todo
    BY <1>1 DEF Take, storeVars
  <2> QED BY <2>1, <2>3, <2>4, <2>5, StayType
<1>2. CASE Finish(a)
  <2>1. RestOK'
    BY <1>0, <1>2 DEF Finish, RestOK, storeVars, procVars, extVars
  <2>2. "exit" \in Label \ Holding
    BY DEF Label, Holding
  <2> QED BY <1>2, <1>a, <2>1, <2>2, CurType, StayType DEF Finish, Holding, storeVars
<1>3. CASE Skip(a)
  <2>1. RestOK'
    BY <1>0, <1>3 DEF Skip, RestOK, storeVars, procVars, extVars
  <2>2. "take" \in Label \ Holding
    BY DEF Label, Holding
  <2> QED BY <1>3, <1>a, <2>1, <2>2, StayType DEF Skip, Holding, storeVars
<1>4. CASE Begin(a)
  <2> DEFINE c == [cur[a] EXCEPT !.status = "in_progress"]
  <2>1. cur[a] \in Copy
    BY <1>4, CurType DEF Begin, At, Holding
  <2>2. c \in Copy /\ c.id \in Task
    BY <2>1, CopyType DEF Status
  <2>3. UpdateTask(c) \in Seq(Command)
    BY <2>2, ListTypes DEF Key
  <2>4. RestOK'
    BY <1>0, <1>4, <2>2 DEF Begin, RestOK, AcquireLock, procVars, extVars
  <2>5. "attempt" \in Label
    BY DEF Label
  <2> HIDE DEF c
  <2>6. Goto(a, "attempt") /\ Hold(a, c) /\ Issue(a, UpdateTask(c))
    BY <1>4 DEF Begin, c
  <2> QED BY <2>2, <2>3, <2>4, <2>5, <2>6, MoveType, NoneAssumption
<1>5. CASE CountAttempt(a)
  <2> DEFINE c == [cur[a] EXCEPT !.attempts = @ + 1]
  <2>1. cur[a] \in Copy
    BY <1>5, CurType DEF CountAttempt, At, Holding
  <2>2. c \in Copy
    BY <2>1, CopyType
  <2>3. UpdateTask(c) \in Seq(Command)
    BY <2>2, ListTypes DEF Key
  <2>4. RestOK'
    BY <1>0, <1>5 DEF CountAttempt, RestOK, procVars, extVars
  <2>5. "send" \in Label
    BY DEF Label
  <2> HIDE DEF c
  <2>6. Goto(a, "send") /\ Hold(a, c) /\ Issue(a, UpdateTask(c))
    BY <1>5 DEF CountAttempt, c
  <2> QED BY <2>2, <2>3, <2>4, <2>5, <2>6, MoveType, NoneAssumption
<1>6. CASE Deliver(a)
  <2>1. cur[a] \in Copy /\ cur[a].id \in Task
    BY <1>6, CurType DEF Deliver, At, Holding
  <2>2. PICK ok \in BOOLEAN :
          /\ Hold(a, [cur[a] EXCEPT !.status = Outcome(cur[a], ok)])
          /\ acked' = IF ok THEN acked \cup {cur[a].id} ELSE acked
    BY <1>6 DEF Deliver
  <2> DEFINE o == Outcome(cur[a], ok)
             c == [cur[a] EXCEPT !.status = o]
  <2>3. o \in {"completed", "failed", "retry_pending"}
    BY <2>1, OutcomeType
  <2>10. o \in Status
    BY <2>3 DEF Status
  <2>4. c \in Copy /\ c.status = o
    BY <2>1, <2>10, CopyType
  <2>5. acked' \subseteq Task /\ sends' \in [Task -> Nat]
    BY <1>0, <1>6, <2>1, <2>2 DEF Deliver, RestOK
  <2>6. RestOK'
    BY <1>0, <1>6, <2>5 DEF Deliver, RestOK, storeVars, procVars
  <2>7. "log" \in Label
    BY DEF Label
  <2>8. Goto(a, "log") /\ Hold(a, c) /\ UNCHANGED todo
    BY <1>6, <2>2 DEF Deliver, storeVars
  <2>9. c # None /\ c.status \in {"completed", "failed", "retry_pending"}
    BY <2>3, <2>4, NoneAssumption
  <2> HIDE DEF c, o
  <2> QED BY <2>4, <2>6, <2>7, <2>8, <2>9, StayType
<1>7. CASE Settle(a)
  <2> DEFINE retry == cur[a].status = "retry_pending"
             c == [cur[a] EXCEPT !.due = IF retry THEN FALSE ELSE @]
             row == [task |-> c.id, attempt |-> c.attempts,
                     status |-> LogStatus(c)]
             more == IF retry THEN AddTo("retry_pending", c) ELSE <<>>
             cmds == UpdateTask(c) \o more
  <2>1. cur[a] \in Copy
    BY <1>7, CurType DEF Settle, At, Holding
  <2>2. c \in Copy
    BY <2>1 DEF Copy
  <2>3. row \in LogRow
    BY <2>2, CopyType DEF LogRow, LogStatus
  <2>4. UpdateTask(c) \in Seq(Command) /\ more \in Seq(Command)
    BY <2>2, <1>a, ListTypes DEF Key, Status
  <2>5. logs' \subseteq LogRow
    BY <1>0, <1>7, <2>3 DEF Settle, RestOK
  <2>6. RestOK'
    BY <1>0, <1>7, <2>5 DEF Settle, RestOK, procVars
  <2>7. "unlock" \in Label
    BY DEF Label
  <2>8. Goto(a, "unlock") /\ Hold(a, c) /\ Issue(a, cmds)
    BY <1>7 DEF Settle
  <2>9. cmds \in Seq(Command)
    BY <2>4, ConcatType
  <2>10. c # None
    BY <2>2, NoneAssumption
  <2> HIDE DEF c, more, cmds, retry, row
  <2> QED BY <2>2, <2>6, <2>7, <2>8, <2>9, <2>10, MoveType
<1>8. CASE Unlock(a)
  <2>1. RestOK'
    BY <1>0, <1>8 DEF Unlock, RestOK, ReleaseLock, procVars, extVars
  <2> QED BY <1>8, <1>a, <2>1, CurType, StayType DEF Unlock, Holding
<1> QED
  BY <1>1, <1>2, <1>3, <1>4, <1>5, <1>6, <1>7, <1>8 DEF Work

(* What the dispatcher does.                                               *)
LEMMA DispatchType ==
    ASSUME TypeInv, NEW a \in Actor, Dispatch(a)
    PROVE  TypeInv'
<1>0. RestOK
  BY TypeParts
<1> DEFINE p == a[1]
<1>a. "poll" \in Label \ Holding /\ {"claim", "put", "unlock"} \subseteq Label
  BY DEF Label, Holding
<1>1. CASE Poll(a)
  <2>1. members["retry_pending"] \subseteq Task
    BY <1>0 DEF RestOK, Key, Status
  <2>2. RestOK'
    BY <1>0, <1>1, <2>1 DEF Poll, RestOK, storeVars, procVars, extVars
  <2> QED
    BY <1>1, <2>2, <1>a, CurType, StayType DEF Poll, storeVars, At, Holding
<1>2. CASE PassOver(a)
  <2>1. RestOK'
    BY <1>0, <1>2 DEF PassOver, RestOK, storeVars, procVars, extVars
  <2> QED BY <1>2, <2>1, <1>a, StayType DEF PassOver, storeVars, Holding
<1>3. CASE Claim(a)
  <2> DEFINE c == [cur[a] EXCEPT !.status = "queued"]
             cmds == UpdateTask(c) \o RemoveFrom("retry_pending", c)
  <2>1. cur[a] \in Copy
    BY <1>3, CurType DEF Claim, At, Holding
  <2>2. c \in Copy /\ c.id \in Task
    BY <2>1, CopyType DEF Status
  <2>3. /\ UpdateTask(c) \in Seq(Command)
        /\ RemoveFrom("retry_pending", c) \in Seq(Command)
    BY <2>2, ListTypes DEF Key, Status
  <2>4. cmds \in Seq(Command)
    BY <2>3, ConcatType
  <2>5. RestOK'
    BY <1>0, <1>3, <2>2 DEF Claim, RestOK, AcquireLock, procVars, extVars
  <2>6. Goto(a, "put") /\ Hold(a, c) /\ Issue(a, cmds)
    BY <1>3 DEF Claim
  <2>7. c # None
    BY <2>2, NoneAssumption
  <2> HIDE DEF c, cmds
  <2> QED BY <1>a, <2>2, <2>4, <2>5, <2>6, <2>7, MoveType
<1>4. CASE Put(a)
  <2>1. cur[a] \in Copy
    BY <1>4, CurType DEF Put, At, Holding
  <2>2. /\ Append(queue[p], cur[a]) \in Seq(Copy)
        /\ Len(Append(queue[p], cur[a])) <= QueueCap
    BY <1>0, <1>4, <2>1, CurType, SchedulerAssumption DEF Put, RestOK
  <2>3. queue' \in [Proc -> Seq(Copy)] /\ \A q \in Proc : Len(queue'[q]) <= QueueCap
    BY <1>0, <1>4, <2>2, CurType DEF Put, RestOK
  <2>4. RestOK'
    BY <1>0, <1>4, <2>3 DEF Put, RestOK, storeVars, extVars
  <2>5. Goto(a, "poll") /\ Hold(a, None) /\ UNCHANGED todo
    BY <1>4 DEF Put, storeVars
  <2> QED BY <1>a, <2>4, <2>5, StayType DEF Holding
<1>5. CASE PutBack(a)
  <2> DEFINE c == [cur[a] EXCEPT !.status = "retry_pending"]
             cmds == UpdateTask(c) \o AddTo("retry_pending", c)
  <2>1. cur[a] \in Copy
    BY <1>5, CurType DEF PutBack, At, Holding
  <2>2. c \in Copy
    BY <2>1, CopyType DEF Status
  <2>3. /\ UpdateTask(c) \in Seq(Command)
        /\ AddTo("retry_pending", c) \in Seq(Command)
    BY <2>2, ListTypes DEF Key, Status
  <2>4. cmds \in Seq(Command)
    BY <2>3, ConcatType
  <2>5. RestOK'
    BY <1>0, <1>5 DEF PutBack, RestOK, procVars, extVars
  <2>6. Goto(a, "unlock") /\ Hold(a, c) /\ Issue(a, cmds)
    BY <1>5 DEF PutBack
  <2>7. c # None
    BY <2>2, NoneAssumption
  <2> HIDE DEF c, cmds
  <2> QED BY <1>a, <2>2, <2>4, <2>5, <2>6, <2>7, MoveType
<1>6. CASE DispatcherPanic(a)
  BY <1>0, <1>6, CurType, DownType DEF DispatcherPanic, extVars, RestOK
<1>7. ASSUME NEW t \in Task, Inspect(a, t) PROVE TypeInv'
  <2>1. RestOK'
    BY <1>0, <1>7 DEF Inspect, RestOK, storeVars, procVars, extVars
  <2>2. CASE Known(t) /\ rec[t].due
    <3>1. rec[t] \in Copy /\ rec[t] # None
      BY <1>0, <2>2 DEF RestOK, Known
    <3>2. Goto(a, "claim") /\ Hold(a, rec[t]) /\ UNCHANGED todo
      BY <1>7, <2>2 DEF Inspect, storeVars
    <3> QED BY <1>a, <2>1, <3>1, <3>2, StayType
  <2>3. CASE ~(Known(t) /\ rec[t].due)
    <3>1. UNCHANGED <<pc, cur, todo>>
      BY <1>7, <2>3 DEF Inspect, storeVars
    <3> QED BY <1>7, <2>1, <3>1, CurType, StayType DEF Inspect, At, Holding
  <2> QED BY <2>2, <2>3
<1> QED
  BY <1>1, <1>2, <1>3, <1>4, <1>5, <1>6, <1>7 DEF Dispatch

(* What the recovery pass does.                                            *)
LEMMA RecoverType ==
    ASSUME TypeInv, NEW a \in Actor, Recover(a)
    PROVE  TypeInv'
<1>0. RestOK
  BY TypeParts
<1>a. {"scan", "reset", "exit"} \subseteq Label \ Holding
  BY DEF Label, Holding
<1>1. CASE RecoverScan(a)
  <2>1. members["in_progress"] \subseteq Task
    BY <1>0 DEF RestOK, Key, Status
  <2>2. RestOK'
    BY <1>0, <1>1, <2>1 DEF RecoverScan, RestOK, storeVars, procVars, extVars
  <2> QED
    BY <1>1, <2>2, <1>a, CurType, StayType DEF RecoverScan, storeVars, Holding
<1>2. CASE RecoverEnd(a)
  <2>1. RestOK'
    BY <1>0, <1>2 DEF RecoverEnd, RestOK, storeVars, procVars, extVars
  <2> QED
    BY <1>2, <2>1, <1>a, CurType, StayType DEF RecoverEnd, storeVars, Holding
<1>3. ASSUME NEW t \in Task, RecoverNext(a, t) PROVE TypeInv'
  <2>1. RestOK'
    BY <1>0, <1>3 DEF RecoverNext, RestOK, procVars, extVars
  <2>2. pc[a] = "reset" /\ UNCHANGED <<pc, cur>>
    BY <1>3 DEF RecoverNext, At
  <2>3. CASE Known(t)
    <3> DEFINE c == Reset(rec[t])
               cmds == UpdateTask(c) \o RemoveFrom("in_progress", c)
                         \o AddTo("retry_pending", c)
    <3>1. rec[t] \in Copy
      BY <1>0, <2>3 DEF RestOK, Known
    <3>2. c \in Copy
      BY <3>1, CopyType
    <3>3. /\ UpdateTask(c) \in Seq(Command)
          /\ RemoveFrom("in_progress", c) \in Seq(Command)
          /\ AddTo("retry_pending", c) \in Seq(Command)
      BY <3>2, ListTypes DEF Key, Status
    <3>4. UpdateTask(c) \o RemoveFrom("in_progress", c) \in Seq(Command)
      BY <3>3, ConcatType
    <3>5. cmds \in Seq(Command)
      BY <3>3, <3>4, ConcatType
    <3>6. Issue(a, cmds)
      BY <1>3, <2>3 DEF RecoverNext
    <3> HIDE DEF cmds, c
    <3> QED BY <1>a, <2>1, <2>2, <3>5, <3>6, CurType, MoveType
  <2>4. CASE ~Known(t)
    <3>1. UNCHANGED todo
      BY <1>3, <2>4 DEF RecoverNext
    <3> QED BY <1>a, <2>1, <2>2, <3>1, CurType, StayType
  <2> QED BY <2>3, <2>4
<1> QED BY <1>1, <1>2, <1>3 DEF Recover

(* What the goroutine of a request does after it has saved the task.       *)
LEMMA EnqueueType ==
    ASSUME TypeInv, NEW a \in Actor, Enqueue(a)
    PROVE  TypeInv'
<1>0. RestOK
  BY TypeParts
<1> DEFINE p == a[1]
<1>a. "accept" \in Label \ Holding
  BY DEF Label, Holding
<1>1. CASE Offer(a)
  <2>1. cur[a] \in Copy
    BY <1>1, CurType DEF Offer, At, Holding
  <2>2. /\ Append(queue[p], cur[a]) \in Seq(Copy)
        /\ Len(Append(queue[p], cur[a])) <= QueueCap
    BY <1>0, <1>1, <2>1, CurType, SchedulerAssumption DEF Offer, RestOK
  <2>3. queue' \in [Proc -> Seq(Copy)] /\ \A q \in Proc : Len(queue'[q]) <= QueueCap
    BY <1>0, <1>1, <2>2, CurType DEF Offer, RestOK
  <2>4. RestOK'
    BY <1>0, <1>1, <2>3 DEF Offer, RestOK, storeVars, extVars
  <2>5. Goto(a, "accept") /\ Hold(a, None) /\ UNCHANGED todo
    BY <1>1 DEF Offer, storeVars
  <2> QED BY <1>a, <2>4, <2>5, StayType DEF Holding
<1>2. CASE OfferFull(a)
  <2> DEFINE c == Reset(cur[a])
             cmds == UpdateTask(c) \o AddTo("retry_pending", c)
  <2>1. cur[a] \in Copy
    BY <1>2, CurType DEF OfferFull, At, Holding
  <2>2. c \in Copy
    BY <2>1, CopyType
  <2>3. /\ UpdateTask(c) \in Seq(Command)
        /\ AddTo("retry_pending", c) \in Seq(Command)
    BY <2>2, ListTypes DEF Key, Status
  <2>4. cmds \in Seq(Command)
    BY <2>3, ConcatType
  <2>5. RestOK'
    BY <1>0, <1>2 DEF OfferFull, RestOK, procVars, extVars
  <2>6. Goto(a, "accept") /\ Hold(a, None) /\ Issue(a, cmds)
    BY <1>2 DEF OfferFull
  <2> HIDE DEF c, cmds
  <2> QED BY <1>a, <2>4, <2>5, <2>6, MoveType DEF Holding
<1>3. CASE OfferPanic(a)
  <2>1. RestOK'
    BY <1>0, <1>3 DEF OfferPanic, RestOK, storeVars, procVars, extVars
  <2> QED BY <1>3, <1>a, <2>1, StayType DEF OfferPanic, storeVars, Holding
<1> QED BY <1>1, <1>2, <1>3 DEF Enqueue

(* What CancelTask does under the lock.                                    *)
LEMMA MarkType ==
    ASSUME TypeInv, NEW a \in Actor, Mark(a)
    PROVE  TypeInv'
<1> DEFINE t == cur[a].id
<1>1. RestOK
  BY TypeParts
<1>2. RestOK'
  BY <1>1 DEF Mark, RestOK, procVars, extVars
<1>3. cur[a] \in Copy /\ cur[a].id \in Task /\ UNCHANGED cur
  BY CurType DEF Mark, At, Holding
<1>4. cur[a] # None /\ Goto(a, "unlock") /\ "unlock" \in Label
  BY <1>3, NoneAssumption DEF Mark, Label
<1>5. CASE Known(t) /\ rec[t].status \notin Terminal
  <2> DEFINE c == [rec[t] EXCEPT !.status = "cancelled"]
             cmds == UpdateTask(c) \o RemoveFrom(rec[t].status, c)
                       \o AddTo("cancelled", c)
  <2>1. rec[t] \in Copy /\ rec[t].status \in Key
    BY <1>1, <1>3, <1>5 DEF RestOK, Known, Copy, Key
  <2>2. c \in Copy
    BY <2>1, CopyType DEF Status
  <2>3. /\ UpdateTask(c) \in Seq(Command)
        /\ RemoveFrom(rec[t].status, c) \in Seq(Command)
        /\ AddTo("cancelled", c) \in Seq(Command)
    BY <2>1, <2>2, ListTypes DEF Key, Status
  <2>4. UpdateTask(c) \o RemoveFrom(rec[t].status, c) \in Seq(Command)
    BY <2>3, ConcatType
  <2>5. cmds \in Seq(Command)
    BY <2>3, <2>4, ConcatType
  <2>6. Issue(a, cmds)
    BY <1>5 DEF Mark
  <2> HIDE DEF cmds, c
  <2> QED BY <1>2, <1>3, <1>4, <2>5, <2>6, MoveType
<1>6. CASE ~(Known(t) /\ rec[t].status \notin Terminal)
  <2>1. UNCHANGED todo
    BY <1>6 DEF Mark
  <2> QED BY <1>2, <1>3, <1>4, <2>1, StayType
<1> QED BY <1>5, <1>6

(* One Redis command, answered or failing.                                 *)
LEMMA CommandType ==
    ASSUME TypeInv, NEW a \in Actor, Redis(a) \/ CommandFails(a)
    PROVE  TypeInv'
<1>1. UNCHANGED <<procVars, goVars, accepted, sends, acked, logs>>
  BY DEF Redis, CommandFails, Fault, extVars
<1>2. faults' \in Nat
  BY DEF Redis, CommandFails, Fault, extVars, TypeInv, TypeOK
<1>3. StoreTypeOK'
  BY ExecType DEF Redis, CommandFails, TypeInv, TypeOK
<1>4. HandsFull'
  BY <1>1 DEF HandsFull, goVars, TypeInv
<1> QED BY <1>1, <1>2, <1>3, <1>4 DEF TypeInv, TypeOK, procVars, goVars

(* A webhook arrives, or somebody cancels a task.                          *)
LEMMA RequestType ==
    ASSUME TypeInv, NEW a \in Actor, NEW t \in Task, Request(a, t)
    PROVE  TypeInv'
<1>0. RestOK
  BY TypeParts
<1>1. NewTask(t) \in Copy /\ NewTask(t) # None
  BY NewTaskType, NoneAssumption
<1>2. {"offer", "mark"} \subseteq Label
  BY DEF Label
<1>3. CASE Accept(a, t)
  <2>1. SaveTask(NewTask(t)) \in Seq(Command)
    BY <1>1, ListTypes DEF Key
  <2>2. RestOK'
    BY <1>0, <1>3 DEF Accept, RestOK, procVars
  <2>3. /\ Goto(a, "offer") /\ Hold(a, NewTask(t))
        /\ Issue(a, SaveTask(NewTask(t)))
    BY <1>3 DEF Accept
  <2> QED BY <1>1, <1>2, <2>1, <2>2, <2>3, MoveType
<1>4. CASE Cancel(a, t)
  <2>1. RestOK'
    BY <1>0, <1>4 DEF Cancel, RestOK, AcquireLock, procVars, extVars
  <2>2. Goto(a, "mark") /\ Hold(a, NewTask(t)) /\ UNCHANGED todo
    BY <1>4 DEF Cancel
  <2> QED BY <1>1, <1>2, <2>1, <2>2, StayType
<1> QED BY <1>3, <1>4 DEF Request

(* Commands of the lock and reads that fail.                               *)
LEMMA FailingType ==
    ASSUME TypeInv, NEW a \in Actor, Failing(a)
    PROVE  TypeInv'
<1>0. RestOK /\ a[2] \in Role
  BY TypeParts, CurType
<1>1. CASE CommandFails(a)
  BY <1>1, CommandType
<1>2. CASE LockFails(a)
  <2>1. cur[a].id \in Task
    BY <1>2, CurType DEF LockFails, At, Holding
  <2>2. RestOK'
    BY <1>0, <1>2, <2>1 DEF LockFails, Fault, RestOK, procVars
  <2> QED BY <1>2, <2>2, CurType, StayType DEF LockFails, Holding
<1>3. CASE UnlockFails(a)
  <2>1. RestOK'
    BY <1>0, <1>3 DEF UnlockFails, Fault, RestOK, storeVars, procVars
  <2> QED BY <1>3, <2>1, CurType, StayType DEF UnlockFails, storeVars, Holding
<1>4. CASE ReadFails(a)
  <2>1. batch' \in [Actor -> SUBSET Task]
    BY <1>0, <1>4 DEF ReadFails, RestOK
  <2>2. RestOK'
    BY <1>0, <1>4, <2>1 DEF ReadFails, Fault, RestOK, storeVars, procVars
  <2>3. UNCHANGED <<todo, cur>>
    BY <1>4 DEF ReadFails, storeVars
  <2>4. \/ UNCHANGED pc
        \/ Goto(a, "exit")
        \/ pc[a] = "mark" /\ Goto(a, "unlock")
    BY <1>4 DEF ReadFails, At
  <2>5. {"exit", "unlock"} \subseteq Label /\ "exit" \notin Holding
    BY DEF Label, Holding
  <2>6. CASE UNCHANGED pc
    BY <2>2, <2>3, <2>6, TypeParts, TypePartsNext DEF HandsFull
  <2>7. CASE Goto(a, "exit")
    BY <2>2, <2>3, <2>5, <2>7, CurType, StayType
  <2>8. CASE pc[a] = "mark" /\ Goto(a, "unlock")
    BY <2>2, <2>3, <2>5, <2>8, CurType, StayType, NoneAssumption DEF Holding
  <2> QED BY <2>4, <2>6, <2>7, <2>8
<1>5. ASSUME NEW t \in Task, CancelFails(a, t) PROVE TypeInv'
  <2>1. RestOK'
    BY <1>0, <1>5 DEF CancelFails, Fault, RestOK, procVars, goVars
  <2>2. UNCHANGED <<todo, pc, cur>>
    BY <1>5 DEF CancelFails, goVars
  <2>3. HandsFull'
    BY <2>2 DEF HandsFull, TypeInv
  <2> QED BY <2>1, <2>2, <2>3, TypeParts, TypePartsNext
<1> QED BY <1>1, <1>2, <1>3, <1>4, <1>5 DEF Failing

(* Clocks, and processes that start, stop and die.                         *)
LEMMA ClockType ==
    ASSUME TypeInv, NEW t \in Task, Clock(t) \/ RecordExpires(t)
    PROVE  TypeInv'
<1>0. RestOK
  BY TypeParts
<1>1. UNCHANGED <<todo, pc, cur>>
  BY DEF Clock, BackoffElapses, LockExpires, RecordExpires, goVars
<1>2. HandsFull'
  BY <1>1 DEF HandsFull, TypeInv
<1>3. CASE BackoffElapses(t)
  <2>1. rec[t] \in Copy
    BY <1>0, <1>3 DEF BackoffElapses, Known, RestOK
  <2>2. [rec[t] EXCEPT !.due = TRUE] \in Copy
    BY <2>1, CopyType
  <2>3. RestOK'
    BY <1>0, <1>3, <2>2 DEF BackoffElapses, RestOK, procVars, goVars, extVars
  <2> QED BY <1>1, <1>2, <2>3, TypeParts, TypePartsNext
<1>4. CASE LockExpires(t)
  <2>1. RestOK'
    BY <1>0, <1>4 DEF LockExpires, ReleaseLock, RestOK, procVars, goVars, extVars
  <2> QED BY <1>1, <1>2, <2>1, TypeParts, TypePartsNext
<1>5. CASE RecordExpires(t)
  <2>1. RestOK'
    BY <1>0, <1>5 DEF RecordExpires, Fault, RestOK, procVars, goVars
  <2> QED BY <1>1, <1>2, <2>1, TypeParts, TypePartsNext
<1> QED BY <1>3, <1>4, <1>5 DEF Clock

LEMMA ProcessType ==
    ASSUME TypeInv, NEW p \in Proc, Start(p) \/ Stop(p) \/ Exit(p) \/ Crash(p)
    PROVE  TypeInv'
<1>0. RestOK
  BY TypeParts
<1>1. CASE Start(p)
  <2>1. RestOK'
    BY <1>0, <1>1 DEF Start, RestOK, storeVars, extVars
  <2>2. \A a \in Actor : Home(a[2]) \in Label \ Holding
    BY CurType
  <2>3. pc' \in [Actor -> Label] /\ UNCHANGED <<cur, todo>>
    BY <1>1, <2>2, TypeParts DEF Start, storeVars
  <2>4. \A a \in Actor : pc'[a] = pc[a] \/ pc'[a] \notin Holding
    BY <1>1, <2>2 DEF Start
  <2>5. HandsFull'
    BY <2>3, <2>4 DEF HandsFull, Holding, TypeInv
  <2> QED BY <2>1, <2>3, <2>5, TypeParts, TypePartsNext
<1>2. CASE Stop(p)
  <2>1. RestOK'
    BY <1>0, <1>2 DEF Stop, Fault, RestOK, storeVars, goVars
  <2>2. UNCHANGED <<todo, pc, cur>>
    BY <1>2 DEF Stop, storeVars, goVars
  <2>3. HandsFull'
    BY <2>2 DEF HandsFull, TypeInv
  <2> QED BY <2>1, <2>2, <2>3, TypeParts, TypePartsNext
<1>3. CASE Exit(p)
  BY <1>0, <1>3, DownType DEF Exit, extVars, RestOK
<1>4. CASE Crash(p)
  BY <1>0, <1>4, DownType DEF Crash, Fault, RestOK
<1> QED BY <1>1, <1>2, <1>3, <1>4

(* Every step keeps the types.                                             *)
LEMMA NextTypeInv ==
    ASSUME TypeInv, [Next]_vars
    PROVE  TypeInv'
<1>1. ASSUME NEW a \in Actor, Run(a) PROVE TypeInv'
  BY <1>1, CommandType, WorkType, DispatchType, RecoverType, EnqueueType,
     MarkType DEF Run
<1>2. ASSUME NEW a \in Actor, Failing(a) PROVE TypeInv'
  BY <1>2, FailingType
<1>3. ASSUME NEW a \in Actor, NEW t \in Task, Request(a, t) PROVE TypeInv'
  BY <1>3, RequestType
<1>4. ASSUME NEW t \in Task, Clock(t) \/ RecordExpires(t) PROVE TypeInv'
  BY <1>4, ClockType
<1>5. ASSUME NEW p \in Proc, Start(p) \/ Stop(p) \/ Exit(p) \/ Crash(p)
      PROVE TypeInv'
  BY <1>5, ProcessType
<1>6. CASE UNCHANGED vars
  BY <1>6 DEF vars, storeVars, procVars, goVars, extVars, TypeInv, TypeOK,
              StoreTypeOK, HandsFull
<1> QED BY <1>1, <1>2, <1>3, <1>4, <1>5, <1>6 DEF Next

(* The scheduler is well typed in every execution, and no goroutine        *)
(* dereferences a task it does not hold.                                   *)
THEOREM TypeCorrect == Spec => []TypeInv
<1>1. Init => TypeInv
  BY InitTypeInv
<1>2. TypeInv /\ [Next]_vars => TypeInv'
  BY NextTypeInv
<1> QED BY <1>1, <1>2, PTL DEF Spec

(* In particular a channel never holds more than QueueCap tasks.           *)
THEOREM TypeSafe == Spec => []TypeOK
<1>1. TypeInv => TypeOK
  BY DEF TypeInv
<1> QED BY <1>1, TypeCorrect, PTL

-----------------------------------------------------------------------------
(* Mutual exclusion. The lock is taken at the entrance of a section and    *)
(* given back at its end by the goroutine that took it; in between only    *)
(* its expiry could remove it, and with PromptSteps it does not expire     *)
(* under a goroutine that works on the task.                               *)

(* No goroutine enters a section and no lock goes away.                    *)
LEMMA KeepSections ==
    ASSUME LockInv, locked \subseteq locked',
           \A b \in Actor, t \in Task : InSection(b, t)' => InSection(b, t)
    PROVE  LockInv'
BY DEF LockInv, LockHeld, MutualExclusion

(* Goroutine a takes the lock of u and enters the section.                 *)
LEMMA EnterSection ==
    ASSUME LockInv, NEW a \in Actor, NEW u \in Task, AcquireLock(u),
           \A t \in Task : InSection(a, t)' => t = u,
           \A b \in Actor \ {a}, t \in Task : InSection(b, t)' => InSection(b, t)
    PROVE  LockInv'
BY DEF LockInv, LockHeld, MutualExclusion, AcquireLock

(* Goroutine a, in the section of u, gives the lock back and leaves.       *)
LEMMA LeaveSection ==
    ASSUME LockInv, NEW a \in Actor, NEW u \in Task, InSection(a, u),
           ReleaseLock(u),
           \A t \in Task : ~InSection(a, t)',
           \A b \in Actor \ {a}, t \in Task : InSection(b, t)' => InSection(b, t)
    PROVE  LockInv'
BY DEF LockInv, LockHeld, MutualExclusion, ReleaseLock

(* A lock disappears that belongs to no section.                           *)
LEMMA DropLock ==
    ASSUME LockInv, NEW u \in Task, ReleaseLock(u), UNCHANGED <<pc, cur>>,
           \A a \in Actor : ~InSection(a, u)
    PROVE  LockInv'
BY DEF LockInv, LockHeld, MutualExclusion, ReleaseLock, InSection, Holds

(* The sections of the other goroutines when a moves, and the section of a *)
(* when it stays in it, with the same task, or ends outside.               *)
LEMMA OthersStay ==
    ASSUME TypeInv, NEW a \in Actor,
           UNCHANGED pc \/ \E l \in Label : Goto(a, l),
           UNCHANGED cur \/ \E c \in Copy \cup {None} : Hold(a, c)
    PROVE  \A b \in Actor \ {a}, t \in Task : InSection(b, t)' => InSection(b, t)
<1>1. \A b \in Actor \ {a} : pc'[b] = pc[b] /\ cur'[b] = cur[b]
  BY TypeParts DEF Goto, Hold
<1> QED BY <1>1 DEF InSection, Holds

LEMMA SameSection ==
    ASSUME TypeInv, NEW a \in Actor, NEW l \in Label, NEW c \in Copy,
           pc[a] \in Section, Goto(a, l), Hold(a, c), c.id = cur[a].id
    PROVE  \A b \in Actor, t \in Task : InSection(b, t)' => InSection(b, t)
<1>1. pc'[a] = l /\ cur'[a] = c
  BY TypeParts DEF Goto, Hold
<1>2. cur[a] # None
  BY TypeParts DEF HandsFull, Holding, Section
<1>3. \A t \in Task : InSection(a, t)' => InSection(a, t)
  BY <1>1, <1>2 DEF InSection, Holds
<1> QED BY <1>3, OthersStay

LEMMA OutsideSection ==
    ASSUME TypeInv, NEW a \in Actor, NEW l \in Label, Goto(a, l),
           UNCHANGED cur \/ \E c \in Copy \cup {None} : Hold(a, c),
           l \notin Section \/ Hold(a, None)
    PROVE  /\ \A t \in Task : ~InSection(a, t)'
           /\ \A b \in Actor, t \in Task : InSection(b, t)' => InSection(b, t)
<1>1. pc'[a] = l /\ (l \notin Section \/ cur'[a] = None)
  BY TypeParts DEF Goto, Hold
<1>2. \A t \in Task : ~InSection(a, t)'
  BY <1>1 DEF InSection, Holds
<1> QED BY <1>2, OthersStay

(* Nothing changes for goroutines but the ends of some.                    *)
LEMMA DownSections ==
    ASSUME TypeInv, LockInv, NEW p \in Proc, Down(p)
    PROVE  LockInv'
<1>1. \A b \in Actor : pc'[b] = "off" \/ (pc'[b] = pc[b] /\ cur'[b] = cur[b])
  BY DEF Down
<1>2. \A b \in Actor, t \in Task : InSection(b, t)' => InSection(b, t)
  BY <1>1 DEF InSection, Holds, Section
<1> QED BY <1>2, KeepSections DEF Down

LEMMA WorkLock ==
    ASSUME TypeInv, LockInv, NEW a \in Actor, Work(a)
    PROVE  LockInv'
<1>a. /\ {"attempt", "send", "log", "unlock"} \subseteq Label \cap Section
      /\ {"take", "lock", "exit"} \subseteq Label \ Section
  BY DEF Label, Section
<1>1. CASE Take(a)
  <2>1. Head(queue[a[1]]) \in Copy
    BY <1>1, CurType, TypeParts DEF Take, RestOK
  <2>2. Goto(a, "lock") /\ Hold(a, Head(queue[a[1]])) /\ UNCHANGED locked
    BY <1>1 DEF Take, storeVars
  <2>3. \A b \in Actor, t \in Task : InSection(b, t)' => InSection(b, t)
    BY <1>a, <2>1, <2>2, OutsideSection
  <2> QED BY <2>2, <2>3, KeepSections
<1>2. CASE Finish(a)
  <2>1. Goto(a, "exit") /\ UNCHANGED <<cur, locked>>
    BY <1>2 DEF Finish, storeVars
  <2> QED BY <1>a, <2>1, OutsideSection, KeepSections
<1>3. CASE Skip(a)
  <2>1. Goto(a, "take") /\ Hold(a, None) /\ UNCHANGED locked
    BY <1>3 DEF Skip, storeVars
  <2> QED BY <1>a, <2>1, OutsideSection, KeepSections
<1>4. CASE Begin(a)
  <2> DEFINE c == [cur[a] EXCEPT !.status = "in_progress"]
  <2>1. cur[a] \in Copy
    BY <1>4, CurType DEF Begin, At, Holding
  <2>2. c \in Copy /\ c.id \in Task
    BY <2>1, CopyType DEF Status
  <2>3. AcquireLock(c.id) /\ Hold(a, c) /\ Goto(a, "attempt")
    BY <1>4 DEF Begin
  <2> HIDE DEF c
  <2>4. cur'[a] = c
    BY <2>3, TypeParts DEF Hold
  <2>5. \A t \in Task : InSection(a, t)' => t = c.id
    BY <2>4 DEF InSection, Holds
  <2> QED BY <1>a, <2>2, <2>3, <2>5, OthersStay, EnterSection
<1>5. CASE CountAttempt(a)
  <2> DEFINE c == [cur[a] EXCEPT !.attempts = @ + 1]
  <2>1. cur[a] \in Copy /\ pc[a] = "attempt"
    BY <1>5, CurType DEF CountAttempt, At, Holding
  <2>2. c \in Copy /\ c.id = cur[a].id
    BY <2>1, CopyType
  <2>3. Hold(a, c) /\ Goto(a, "send") /\ UNCHANGED locked
    BY <1>5 DEF CountAttempt
  <2> HIDE DEF c
  <2> QED BY <1>a, <2>1, <2>2, <2>3, SameSection, KeepSections
<1>6. CASE Deliver(a)
  <2>1. cur[a] \in Copy /\ pc[a] = "send"
    BY <1>6, CurType DEF Deliver, At, Holding
  <2>2. PICK ok \in BOOLEAN : Hold(a, [cur[a] EXCEPT !.status = Outcome(cur[a], ok)])
    BY <1>6 DEF Deliver
  <2> DEFINE c == [cur[a] EXCEPT !.status = Outcome(cur[a], ok)]
  <2>3. Outcome(cur[a], ok) \in Status
    BY <2>1, OutcomeType DEF Status
  <2>4. c \in Copy /\ c.id = cur[a].id
    BY <2>1, <2>3, CopyType
  <2>5. Hold(a, c) /\ Goto(a, "log") /\ UNCHANGED locked
    BY <1>6, <2>2 DEF Deliver, storeVars
  <2> HIDE DEF c
  <2> QED BY <1>a, <2>1, <2>4, <2>5, SameSection, KeepSections
<1>7. CASE Settle(a)
  <2> DEFINE c == [cur[a] EXCEPT !.due =
                     IF cur[a].status = "retry_pending" THEN FALSE ELSE @]
  <2>1. cur[a] \in Copy /\ pc[a] = "log"
    BY <1>7, CurType DEF Settle, At, Holding
  <2>2. c \in Copy /\ c.id = cur[a].id
    BY <2>1 DEF Copy
  <2>3. Hold(a, c) /\ Goto(a, "unlock") /\ UNCHANGED locked
    BY <1>7 DEF Settle
  <2> HIDE DEF c
  <2> QED BY <1>a, <2>1, <2>2, <2>3, SameSection, KeepSections
<1>8. CASE Unlock(a)
  <2>1. cur[a] # None /\ pc[a] = "unlock" /\ cur[a].id \in Task
    BY <1>8, CurType, NoneAssumption DEF Unlock, At, Holding
  <2>2. InSection(a, cur[a].id)
    BY <1>a, <2>1 DEF InSection, Holds
  <2>3. ReleaseLock(cur[a].id) /\ Hold(a, None) /\ Goto(a, Home(a[2]))
    BY <1>8 DEF Unlock
  <2>4. \A t \in Task : ~InSection(a, t)'
    BY <2>3, CurType, OutsideSection
  <2>5. \A b \in Actor \ {a}, t \in Task : InSection(b, t)' => InSection(b, t)
    BY <2>3, CurType, OutsideSection
  <2> QED BY <2>1, <2>2, <2>3, <2>4, <2>5, LeaveSection
<1> QED
  BY <1>1, <1>2, <1>3, <1>4, <1>5, <1>6, <1>7, <1>8 DEF Work

LEMMA DispatchLock ==
    ASSUME TypeInv, LockInv, NEW a \in Actor, Dispatch(a)
    PROVE  LockInv'
<1>a. /\ {"put", "unlock"} \subseteq Label \cap Section
      /\ {"poll", "claim"} \subseteq Label \ Section
  BY DEF Label, Section
<1>1. CASE Poll(a)
  <2>1. UNCHANGED <<pc, cur, locked>>
    BY <1>1 DEF Poll, storeVars
  <2> QED BY <2>1, KeepSections DEF InSection, Holds
<1>2. CASE PassOver(a)
  <2>1. Goto(a, "poll") /\ Hold(a, None) /\ UNCHANGED locked
    BY <1>2 DEF PassOver, storeVars
  <2> QED BY <1>a, <2>1, OutsideSection, KeepSections
<1>3. CASE Claim(a)
  <2> DEFINE c == [cur[a] EXCEPT !.status = "queued"]
  <2>1. cur[a] \in Copy
    BY <1>3, CurType DEF Claim, At, Holding
  <2>2. c \in Copy /\ c.id \in Task
    BY <2>1, CopyType DEF Status
  <2>3. AcquireLock(c.id) /\ Hold(a, c) /\ Goto(a, "put")
    BY <1>3 DEF Claim
  <2> HIDE DEF c
  <2>4. cur'[a] = c
    BY <2>3, TypeParts DEF Hold
  <2>5. \A t \in Task : InSection(a, t)' => t = c.id
    BY <2>4 DEF InSection, Holds
  <2> QED BY <1>a, <2>2, <2>3, <2>5, OthersStay, EnterSection
<1>4. CASE Put(a)
  <2>1. Goto(a, "poll") /\ Hold(a, None) /\ UNCHANGED locked
    BY <1>4 DEF Put, storeVars
  <2> QED BY <1>a, <2>1, OutsideSection, KeepSections
<1>5. CASE PutBack(a)
  <2> DEFINE c == [cur[a] EXCEPT !.status = "retry_pending"]
  <2>1. cur[a] \in Copy /\ pc[a] = "put"
    BY <1>5, CurType DEF PutBack, At, Holding
  <2>2. c \in Copy /\ c.id = cur[a].id
    BY <2>1, CopyType DEF Status
  <2>3. Hold(a, c) /\ Goto(a, "unlock") /\ UNCHANGED locked
    BY <1>5 DEF PutBack
  <2> HIDE DEF c
  <2> QED BY <1>a, <2>1, <2>2, <2>3, SameSection, KeepSections
<1>6. CASE DispatcherPanic(a)
  BY <1>6, CurType, DownSections DEF DispatcherPanic
<1>7. ASSUME NEW t \in Task, Inspect(a, t) PROVE LockInv'
  <2>1. UNCHANGED locked
    BY <1>7 DEF Inspect, storeVars
  <2>2. CASE Known(t) /\ rec[t].due
    <3>1. Goto(a, "claim") /\ Hold(a, rec[t]) /\ rec[t] \in Copy
      BY <1>7, <2>2, TypeParts DEF Inspect, RestOK, Known
    <3> QED BY <1>a, <2>1, <3>1, OutsideSection, KeepSections
  <2>3. CASE ~(Known(t) /\ rec[t].due)
    <3>1. UNCHANGED <<pc, cur>>
      BY <1>7, <2>3 DEF Inspect
    <3> QED BY <2>1, <3>1, KeepSections DEF InSection, Holds
  <2> QED BY <2>2, <2>3
<1> QED
  BY <1>1, <1>2, <1>3, <1>4, <1>5, <1>6, <1>7 DEF Dispatch

(* The steps of goroutines other than workers and dispatchers.             *)
LEMMA OtherLock ==
    ASSUME TypeInv, LockInv, NEW a \in Actor,
           Redis(a) \/ Recover(a) \/ Enqueue(a) \/ Mark(a)
    PROVE  LockInv'
<1>a. /\ "unlock" \in Label \cap Section
      /\ {"accept", "reset", "exit"} \subseteq Label \ Section
  BY DEF Label, Section
<1>1. CASE Redis(a)
  <2>1. UNCHANGED <<pc, cur, locked>>
    BY <1>1 DEF Redis, Exec, ExecUpdate, ExecSet, ExecAdd, ExecRemove, goVars
  <2> QED BY <2>1, KeepSections DEF InSection, Holds
<1>2. CASE Recover(a)
  <2>1. CASE RecoverScan(a)
    <3>1. Goto(a, "reset") /\ UNCHANGED <<cur, locked>>
      BY <2>1 DEF RecoverScan, storeVars
    <3> QED BY <1>a, <3>1, OutsideSection, KeepSections
  <2>2. CASE RecoverEnd(a)
    <3>1. Goto(a, "exit") /\ UNCHANGED <<cur, locked>>
      BY <2>2 DEF RecoverEnd, storeVars
    <3> QED BY <1>a, <3>1, OutsideSection, KeepSections
  <2>3. ASSUME NEW t \in Task, RecoverNext(a, t) PROVE LockInv'
    <3>1. UNCHANGED <<pc, cur, locked>>
      BY <2>3 DEF RecoverNext
    <3> QED BY <3>1, KeepSections DEF InSection, Holds
  <2> QED BY <1>2, <2>1, <2>2, <2>3 DEF Recover
<1>3. CASE Enqueue(a)
  <2>1. Goto(a, "accept") /\ Hold(a, None) /\ UNCHANGED locked
    BY <1>3 DEF Enqueue, Offer, OfferFull, OfferPanic, storeVars
  <2> QED BY <1>a, <2>1, OutsideSection, KeepSections
<1>4. CASE Mark(a)
  <2>1. pc[a] = "mark" /\ cur[a] \in Copy /\ UNCHANGED <<cur, locked>>
    BY <1>4, CurType DEF Mark, At, Holding
  <2>2. Goto(a, "unlock") /\ Hold(a, cur[a])
    BY <1>4, TypeParts DEF Mark, Hold
  <2>3. pc[a] \in Section
    BY <2>1 DEF Section
  <2> QED BY <1>a, <2>1, <2>2, <2>3, SameSection, KeepSections
<1> QED BY <1>1, <1>2, <1>3, <1>4

LEMMA RequestLock ==
    ASSUME TypeInv, LockInv, NEW a \in Actor, NEW t \in Task, Request(a, t)
    PROVE  LockInv'
<1>1. NewTask(t) \in Copy /\ NewTask(t).id = t
  BY NewTaskType
<1>2. "offer" \in Label \ Section /\ "mark" \in Label
  BY DEF Label, Section
<1>3. CASE Accept(a, t)
  <2>1. Goto(a, "offer") /\ Hold(a, NewTask(t)) /\ UNCHANGED locked
    BY <1>3 DEF Accept
  <2> QED BY <1>1, <1>2, <2>1, OutsideSection, KeepSections
<1>4. CASE Cancel(a, t)
  <2>1. AcquireLock(t) /\ Goto(a, "mark") /\ Hold(a, NewTask(t))
    BY <1>4 DEF Cancel
  <2>2. cur'[a] = NewTask(t)
    BY <2>1, TypeParts DEF Hold
  <2>3. \A u \in Task : InSection(a, u)' => u = t
    BY <1>1, <2>2 DEF InSection, Holds
  <2> QED BY <1>1, <1>2, <2>1, <2>3, OthersStay, EnterSection
<1> QED BY <1>3, <1>4 DEF Request

LEMMA FailingLock ==
    ASSUME TypeInv, LockInv, NEW a \in Actor, Failing(a)
    PROVE  LockInv'
<1>1. CASE CommandFails(a)
  <2>1. UNCHANGED <<pc, cur, locked>>
    BY <1>1 DEF CommandFails, ExecFails, ReadOldFails, SetFails, IndexFails,
                goVars
  <2> QED BY <2>1, KeepSections DEF InSection, Holds
<1>2. CASE LockFails(a) \/ UnlockFails(a)
  <2>1. Goto(a, Home(a[2])) /\ Hold(a, None) /\ locked \subseteq locked'
    BY <1>2 DEF LockFails, UnlockFails, storeVars
  <2> QED BY <2>1, CurType, OutsideSection, KeepSections
<1>3. CASE ReadFails(a)
  <2>1. UNCHANGED <<cur, locked>>
    BY <1>3 DEF ReadFails, storeVars
  <2>2. \/ UNCHANGED pc
        \/ Goto(a, "exit")
        \/ pc[a] = "mark" /\ Goto(a, "unlock")
    BY <1>3 DEF ReadFails, At
  <2>3. CASE UNCHANGED pc
    BY <2>1, <2>3, KeepSections DEF InSection, Holds
  <2>4. CASE Goto(a, "exit")
    <3>1. "exit" \in Label \ Section
      BY DEF Label, Section
    <3> QED BY <2>1, <2>4, <3>1, OutsideSection, KeepSections
  <2>5. CASE pc[a] = "mark" /\ Goto(a, "unlock")
    <3>1. pc[a] \in Section \cap Holding /\ "unlock" \in Label
      BY <2>5 DEF Section, Holding, Label
    <3>2. cur[a] \in Copy /\ Hold(a, cur[a])
      BY <2>1, <3>1, CurType, TypeParts DEF Hold
    <3> QED BY <2>1, <2>5, <3>1, <3>2, SameSection, KeepSections
  <2> QED BY <2>2, <2>3, <2>4, <2>5
<1>4. ASSUME NEW t \in Task, CancelFails(a, t) PROVE LockInv'
  <2>1. UNCHANGED <<pc, cur>> /\ locked \subseteq locked'
    BY <1>4 DEF CancelFails, goVars
  <2> QED BY <2>1, KeepSections DEF InSection, Holds
<1> QED BY <1>1, <1>2, <1>3, <1>4 DEF Failing

LEMMA ClockLock ==
    ASSUME TypeInv, LockInv, PromptSteps, NEW t \in Task,
           Clock(t) \/ RecordExpires(t)
    PROVE  LockInv'
<1>1. UNCHANGED <<pc, cur>>
  BY DEF Clock, BackoffElapses, LockExpires, RecordExpires, goVars
<1>2. CASE LockExpires(t)
  <2>1. \A a \in Actor : ~InSection(a, t)
    BY <1>2 DEF LockExpires, InHand, InSection
  <2> QED BY <1>1, <1>2, <2>1, DropLock DEF LockExpires
<1>3. CASE BackoffElapses(t) \/ RecordExpires(t)
  <2>1. UNCHANGED locked
    BY <1>3 DEF BackoffElapses, RecordExpires
  <2> QED BY <1>1, <2>1, KeepSections DEF InSection, Holds
<1> QED BY <1>2, <1>3 DEF Clock

LEMMA ProcessLock ==
    ASSUME TypeInv, LockInv, NEW p \in Proc,
           Start(p) \/ Stop(p) \/ Exit(p) \/ Crash(p)
    PROVE  LockInv'
<1>1. CASE Start(p)
  <2>1. \A b \in Actor : Home(b[2]) \notin Section
    BY CurType, HomeType
  <2>2. \A b \in Actor : pc'[b] = pc[b] \/ pc'[b] \notin Section
    BY <1>1, <2>1 DEF Start
  <2>3. UNCHANGED <<cur, locked>>
    BY <1>1 DEF Start, storeVars
  <2> QED BY <2>2, <2>3, KeepSections DEF InSection, Holds
<1>2. CASE Stop(p)
  <2>1. UNCHANGED <<pc, cur, locked>>
    BY <1>2 DEF Stop, storeVars, goVars
  <2> QED BY <2>1, KeepSections DEF InSection, Holds
<1>3. CASE Exit(p) \/ Crash(p)
  BY <1>3, DownSections DEF Exit, Crash
<1> QED BY <1>1, <1>2, <1>3

LEMMA NextLockInv ==
    ASSUME TypeInv, LockInv, PromptSteps, [Next]_vars
    PROVE  LockInv'
<1>1. ASSUME NEW a \in Actor, Run(a) PROVE LockInv'
  BY <1>1, WorkLock, DispatchLock, OtherLock DEF Run
<1>2. ASSUME NEW a \in Actor, Failing(a) PROVE LockInv'
  BY <1>2, FailingLock
<1>3. ASSUME NEW a \in Actor, NEW t \in Task, Request(a, t) PROVE LockInv'
  BY <1>3, RequestLock
<1>4. ASSUME NEW t \in Task, Clock(t) \/ RecordExpires(t) PROVE LockInv'
  BY <1>4, ClockLock
<1>5. ASSUME NEW p \in Proc, Start(p) \/ Stop(p) \/ Exit(p) \/ Crash(p)
      PROVE LockInv'
  BY <1>5, ProcessLock
<1>6. CASE UNCHANGED vars
  BY <1>6 DEF vars, storeVars, goVars, LockInv, LockHeld, MutualExclusion,
              InSection, Holds
<1> QED BY <1>1, <1>2, <1>3, <1>4, <1>5, <1>6 DEF Next

(* As long as no goroutine outlives the expiry of its lock, at most one    *)
(* goroutine of all processes works on a task, whatever crashes, stops or  *)
(* fails.                                                                  *)
THEOREM Exclusion == PromptSteps => (Spec => []MutualExclusion)
<1> SUFFICES ASSUME PromptSteps PROVE Spec => []MutualExclusion
  OBVIOUS
<1>1. Init => LockInv
  BY DEF Init, LockInv, LockHeld, MutualExclusion, InSection, Holds
<1>2. TypeInv /\ LockInv /\ [Next]_vars => LockInv'
  BY NextLockInv
<1>3. LockInv => MutualExclusion
  BY DEF LockInv
<1> QED BY <1>1, <1>2, <1>3, TypeCorrect, PTL DEF Spec
=============================================================================
