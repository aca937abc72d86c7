--------------------------- MODULE TerminalProofs ---------------------------
(***************************************************************************)
(* A record says completed only after a 2xx answer, and failed only after  *)
(* its attempts are used up.                                               *)
(*                                                                         *)
(* Stale copies of a task lie in hands, channels and pending commands, and *)
(* any of them may overwrite the record: the invariant that is inductive   *)
(* speaks of all copies, not only of the records.                          *)
(***************************************************************************)
EXTENDS SchedulerProofs

Justified(c) ==
    /\ c.status = "completed" => c.id \in acked
    /\ c.status = "failed" => c.attempts >= MaxAttempts

RecordsOK  == \A t \in Task :
                  Known(t) => Justified(rec[t]) /\ rec[t].id = t
HandsOK    == \A a \in Actor : cur[a] # None => Justified(cur[a])
ChannelsOK == \A p \in Proc : \A i \in 1..Len(queue[p]) : Justified(queue[p][i])
CommandsOK == \A a \in Actor :
                  \A i \in 1..Len(todo[a]) : Justified(todo[a][i].copy)

AllJustified == RecordsOK /\ HandsOK /\ ChannelsOK /\ CommandsOK

LEMMA JustifiedMonotone ==
    ASSUME acked \subseteq acked', NEW c, Justified(c)
    PROVE  Justified(c)'
BY DEF Justified

(* Command lists about a single copy, and their concatenations.            *)
About(s, c) == \A i \in 1..Len(s) : s[i].copy = c

LEMMA AboutLists ==
    ASSUME NEW c \in Copy, NEW k \in Key, NEW old \in Key \cup {"unknown"},
           NEW op \in {"update", "set", "add", "rem"}
    PROVE  /\ About(<<>>, c)
           /\ About(Cmd(op, old, c), c)
           /\ About(AddTo(k, c), c) /\ About(RemoveFrom(k, c), c)
           /\ About(UpdateTask(c), c) /\ About(SaveTask(c), c)
           /\ About(AfterSet(old, c), c)
<1>1. \A o, j : About(Cmd(o, j, c), c)
  BY DEF About, Cmd
<1>2. About(<<>>, c)
  BY DEF About
<1>3. /\ \A j : About(AddTo(j, c), c) /\ About(RemoveFrom(j, c), c)
      /\ About(UpdateTask(c), c) /\ About(SaveTask(c), c)
  BY <1>1 DEF AddTo, RemoveFrom, UpdateTask, SaveTask
<1>4. ASSUME NEW s \in Seq(Command), NEW t \in Seq(Command),
             About(s, c), About(t, c)
      PROVE  About(s \o t, c)
  BY <1>4 DEF About
<1>5. c.status \in Key /\ "listed" \in Key
  BY DEF Copy, Key
<1>6. \A j \in Key : AddTo(j, c) \in Seq(Command) /\ RemoveFrom(j, c) \in Seq(Command)
  BY ListTypes
<1>7. About(AfterSet(old, c), c)
  <2>1. CASE old = "listed"
    BY <1>3, <1>4, <1>5, <1>6, <2>1 DEF AfterSet
  <2>2. CASE old # "listed" /\ old # c.status /\ old # "unknown"
    BY <1>3, <1>4, <1>5, <1>6, <2>2 DEF AfterSet
  <2>3. CASE old # "listed" /\ (old = c.status \/ old = "unknown")
    BY <1>2, <1>3, <2>3 DEF AfterSet
  <2> QED BY <2>1, <2>2, <2>3
<1> QED BY <1>1, <1>2, <1>3, <1>7

LEMMA AboutConcat ==
    ASSUME NEW c, NEW s \in Seq(Command), NEW t \in Seq(Command),
           About(s, c), About(t, c)
    PROVE  About(s \o t, c)
BY DEF About

(* How the four parts survive the changes that steps make.                 *)
LEMMA RecordsStay ==
    ASSUME RecordsOK, acked \subseteq acked',
           \A t \in Task : rec'[t] \in {rec[t], None}
    PROVE  RecordsOK'
BY DEF RecordsOK, Known, Justified

LEMMA HandsStay ==
    ASSUME HandsOK, acked \subseteq acked',
           \A b \in Actor : cur'[b] \in {cur[b], None}
    PROVE  HandsOK'
BY DEF HandsOK, Justified

LEMMA HandsTake ==
    ASSUME TypeInv, HandsOK, acked \subseteq acked', NEW a \in Actor,
           NEW c \in Copy, Hold(a, c), Justified(c)'
    PROVE  HandsOK'
<1>1. \A b \in Actor \ {a} : cur'[b] = cur[b]
  BY TypeParts DEF Hold
<1>2. cur'[a] = c
  BY TypeParts DEF Hold
<1> QED BY <1>1, <1>2 DEF HandsOK, Justified

LEMMA HandsEmpty ==
    ASSUME TypeInv, HandsOK, acked \subseteq acked', NEW a \in Actor, Hold(a, None)
    PROVE  HandsOK'
<1>1. \A b \in Actor : cur'[b] \in {cur[b], None}
  BY TypeParts DEF Hold
<1> QED BY <1>1, HandsStay

LEMMA ChannelsStay ==
    ASSUME ChannelsOK, acked \subseteq acked',
           \A p \in Proc : queue'[p] \in {queue[p], <<>>}
    PROVE  ChannelsOK'
BY DEF ChannelsOK, Justified

LEMMA ChannelsAppend ==
    ASSUME TypeInv, ChannelsOK, acked \subseteq acked', NEW p \in Proc,
           NEW c \in Copy, Justified(c)',
           queue' = [queue EXCEPT ![p] = Append(@, c)]
    PROVE  ChannelsOK'
<1>1. queue[p] \in Seq(Copy) /\ queue'[p] = Append(queue[p], c)
  BY TypeParts DEF RestOK
<1>2. \A q \in Proc \ {p} : queue'[q] = queue[q]
  BY TypeParts DEF RestOK
<1>3. \A i \in 1..Len(queue'[p]) : queue'[p][i] = c \/
          (i \in 1..Len(queue[p]) /\ queue'[p][i] = queue[p][i])
  BY <1>1
<1> QED BY <1>2, <1>3 DEF ChannelsOK, Justified

LEMMA ChannelsTail ==
    ASSUME TypeInv, ChannelsOK, acked \subseteq acked', NEW p \in Proc,
           queue[p] # <<>>, queue' = [queue EXCEPT ![p] = Tail(@)]
    PROVE  ChannelsOK' /\ Head(queue[p]) \in Copy /\ Justified(Head(queue[p]))
<1>1. queue[p] \in Seq(Copy) /\ queue'[p] = Tail(queue[p])
  BY TypeParts DEF RestOK
<1>2. \A q \in Proc \ {p} : queue'[q] = queue[q]
  BY TypeParts DEF RestOK
<1>3. \A i \in 1..Len(queue'[p]) :
          i + 1 \in 1..Len(queue[p]) /\ queue'[p][i] = queue[p][i + 1]
  <2>1. Len(queue[p]) \in Nat /\ Len(Tail(queue[p])) = Len(queue[p]) - 1
    BY <1>1
  <2>2. \A i \in 1..Len(Tail(queue[p])) : Tail(queue[p])[i] = queue[p][i + 1]
    BY <1>1, <2>1
  <2>3. \A n \in Nat : \A i \in 1..(n - 1) : i + 1 \in 1..n
    OBVIOUS
  <2>4. Len(queue'[p]) = Len(queue[p]) - 1
    BY <1>1, <2>1
  <2>5. \A i \in 1..Len(queue'[p]) : i + 1 \in 1..Len(queue[p])
    BY <2>1, <2>3, <2>4
  <2>6. \A i \in 1..Len(queue'[p]) : queue'[p][i] = queue[p][i + 1]
    BY <1>1, <2>2
  <2> QED BY <2>5, <2>6
<1>4. Head(queue[p]) = queue[p][1] /\ 1 \in 1..Len(queue[p])
  BY <1>1
<1>5. Head(queue[p]) \in Copy
  BY <1>1
<1> QED BY <1>2, <1>3, <1>4, <1>5 DEF ChannelsOK, Justified

LEMMA CommandsStay ==
    ASSUME CommandsOK, acked \subseteq acked',
           \A b \in Actor : todo'[b] \in {todo[b], <<>>}
    PROVE  CommandsOK'
BY DEF CommandsOK, Justified

LEMMA CommandsIssue ==
    ASSUME TypeInv, CommandsOK, acked \subseteq acked', NEW a \in Actor,
           NEW c \in Copy, NEW cmds \in Seq(Command), About(cmds, c),
           Justified(c)', Issue(a, cmds)
    PROVE  CommandsOK'
<1>1. \A b \in Actor \ {a} : todo'[b] = todo[b]
  BY TypeParts DEF Issue
<1>2. todo'[a] = cmds
  BY TypeParts DEF Issue
<1> QED BY <1>1, <1>2 DEF CommandsOK, About, Justified

(* Copies made from a justified copy are justified, whatever their status  *)
(* becomes, if it is not a terminal one.                                   *)
LEMMA JustifiedCopies ==
    ASSUME NEW c \in Copy, Justified(c)
    PROVE  /\ \A s \in Status \ {"completed", "failed"} :
                  Justified([c EXCEPT !.status = s])
           /\ \A d \in BOOLEAN : Justified([c EXCEPT !.due = d])
           /\ Justified([c EXCEPT !.attempts = @ + 1])
           /\ Justified(Reset(c))
<1> USE DEF Copy
<1>1. \A s \in Status \ {"completed", "failed"} :
          Justified([c EXCEPT !.status = s])
  BY DEF Justified
<1>2. \A d \in BOOLEAN : Justified([c EXCEPT !.due = d])
  BY DEF Justified
<1>3. Justified([c EXCEPT !.attempts = @ + 1])
  BY SchedulerAssumption DEF Justified
<1>4. Justified(Reset(c))
  BY DEF Justified, Reset
<1> QED BY <1>1, <1>2, <1>3, <1>4

-----------------------------------------------------------------------------
(* Steps. A command of goroutine a is replaced by commands about the same  *)
(* copy.                                                                   *)
LEMMA CommandsContinue ==
    ASSUME TypeInv, CommandsOK, UNCHANGED acked, NEW a \in Actor,
           todo[a] # <<>>, NEW cmds \in Seq(Command),
           About(cmds, Head(todo[a]).copy),
           \/ Continue(a, cmds)
           \/ todo' = [todo EXCEPT ![a] = <<>>]
    PROVE  CommandsOK'
<1> DEFINE s == todo[a]
           c == Head(s).copy
<1>1. s \in Seq(Command) /\ Tail(s) \in Seq(Command)
  BY TypeParts
<1>2. Head(s) = s[1] /\ 1 \in 1..Len(s)
  BY <1>1
<1>3. Justified(c)
  BY <1>2 DEF CommandsOK
<1>4. \A b \in Actor \ {a} : todo'[b] = todo[b]
  BY TypeParts DEF Continue
<1>5. todo'[a] = cmds \o Tail(s) \/ todo'[a] = <<>>
  BY TypeParts DEF Continue
<1>6. ASSUME NEW i \in 1..Len(todo'[a]) PROVE Justified(todo'[a][i].copy)
  <2>1. CASE todo'[a] = <<>>
    BY <1>6, <2>1
  <2>2. CASE todo'[a] = cmds \o Tail(s)
    <3>1. Len(s) \in Nat /\ Len(Tail(s)) = Len(s) - 1
      BY <1>1, <1>2
    <3>2. CASE i \in 1..Len(cmds)
      <4>1. todo'[a][i] = cmds[i]
        BY <1>1, <2>2, <3>2
      <4> QED BY <1>3, <3>2, <4>1 DEF About
    <3>3. CASE i \notin 1..Len(cmds)
      <4> DEFINE j == i - Len(cmds)
      <4>1. Len(cmds) \in Nat /\ Len(todo'[a]) = Len(cmds) + Len(Tail(s))
        BY <1>1, <2>2
      <4>2. j \in 1..Len(Tail(s)) /\ todo'[a][i] = Tail(s)[j]
        BY <1>1, <2>2, <3>1, <3>3, <4>1
      <4>3. Tail(s)[j] = s[j + 1] /\ j + 1 \in 1..Len(s)
        BY <1>1, <3>1, <4>2
      <4> QED BY <4>2, <4>3 DEF CommandsOK
    <3> QED BY <3>2, <3>3
  <2> QED BY <1>5, <2>1, <2>2
<1> QED BY <1>4, <1>6 DEF CommandsOK, Justified

(* A goroutine takes a justified copy c, or nothing, and issues commands   *)
(* about c, or none.                                                       *)
LEMMA MoveJustified ==
    ASSUME TypeInv, AllJustified, acked \subseteq acked', UNCHANGED <<rec, queue>>,
           NEW a \in Actor, NEW c \in Copy, Justified(c)',
           Hold(a, c) \/ Hold(a, None) \/ UNCHANGED cur,
           NEW cmds \in Seq(Command), About(cmds, c),
           Issue(a, cmds) \/ UNCHANGED todo
    PROVE  AllJustified'
<1>1. RecordsOK'
  BY RecordsStay DEF AllJustified
<1>2. HandsOK'
  BY HandsTake, HandsEmpty, HandsStay DEF AllJustified
<1>3. ChannelsOK'
  BY ChannelsStay DEF AllJustified
<1>4. CommandsOK'
  BY CommandsIssue, CommandsStay DEF AllJustified
<1> QED BY <1>1, <1>2, <1>3, <1>4 DEF AllJustified

(* No copy is made: copies only stay where they are or disappear.          *)
LEMMA QuietJustified ==
    ASSUME AllJustified, UNCHANGED acked,
           \A t \in Task : rec'[t] \in {rec[t], None},
           \A b \in Actor : cur'[b] \in {cur[b], None} /\ todo'[b] \in {todo[b], <<>>},
           \A p \in Proc : queue'[p] \in {queue[p], <<>>}
    PROVE  AllJustified'
BY RecordsStay, HandsStay, ChannelsStay, CommandsStay DEF AllJustified

LEMMA DropJustified ==
    ASSUME TypeInv, AllJustified, UNCHANGED <<acked, rec, queue, todo>>,
           NEW a \in Actor, Hold(a, None) \/ UNCHANGED cur
    PROVE  AllJustified'
<1>1. \A b \in Actor : cur'[b] \in {cur[b], None}
  BY TypeParts DEF Hold
<1> QED BY <1>1, QuietJustified

LEMMA AppendJustified ==
    ASSUME TypeInv, AllJustified, UNCHANGED <<acked, rec, todo>>, NEW a \in Actor,
           cur[a] \in Copy, Hold(a, None),
           queue' = [queue EXCEPT ![a[1]] = Append(@, cur[a])]
    PROVE  AllJustified'
<1>1. PICK c \in Copy : c = cur[a]
  OBVIOUS
<1>2. Justified(c)'
  BY <1>1, NoneAssumption DEF AllJustified, HandsOK, Justified
<1>3. RecordsOK' /\ CommandsOK'
  BY RecordsStay, CommandsStay DEF AllJustified
<1>4. HandsOK'
  BY HandsEmpty DEF AllJustified
<1>5. a[1] \in Proc /\ queue' = [queue EXCEPT ![a[1]] = Append(@, c)]
  BY <1>1, CurType
<1>6. ChannelsOK'
  BY <1>2, <1>5, ChannelsAppend DEF AllJustified
<1> QED BY <1>3, <1>4, <1>6 DEF AllJustified

LEMMA HandJustified ==
    ASSUME TypeInv, AllJustified, NEW a \in Actor, pc[a] \in Holding
    PROVE  cur[a] \in Copy /\ Justified(cur[a])
BY CurType, NoneAssumption DEF AllJustified, HandsOK

(* The copy that carries a new outcome is justified after the delivery.    *)
LEMMA OutcomeJustified ==
    ASSUME NEW c \in Copy, NEW ok \in BOOLEAN,
           acked' = IF ok THEN acked \cup {c.id} ELSE acked,
           NEW d \in Copy, d = [c EXCEPT !.status = Outcome(c, ok)]
    PROVE  Justified(d)'
<1>1. d.id = c.id /\ d.attempts = c.attempts /\ d.status = Outcome(c, ok)
  BY DEF Copy
<1>2. Outcome(c, ok) = "completed" => c.id \in acked'
  BY DEF Outcome
<1>3. Outcome(c, ok) = "failed" => c.attempts >= MaxAttempts
  BY DEF Outcome
<1> QED BY <1>1, <1>2, <1>3 DEF Justified

-----------------------------------------------------------------------------
LEMMA WorkJustified ==
    ASSUME TypeInv, AllJustified, NEW a \in Actor, Work(a)
    PROVE  AllJustified'
<1>1. CASE Take(a)
  <2>1. queue[a[1]] # <<>> /\ queue' = [queue EXCEPT ![a[1]] = Tail(@)]
        /\ Hold(a, Head(queue[a[1]])) /\ UNCHANGED <<rec, todo, acked>>
    BY <1>1 DEF Take, storeVars, extVars
  <2>2. ChannelsOK' /\ Head(queue[a[1]]) \in Copy /\ Justified(Head(queue[a[1]]))
    BY <2>1, CurType, ChannelsTail DEF AllJustified
  <2>3. HandsOK'
    BY <2>1, <2>2, HandsTake, JustifiedMonotone DEF AllJustified
  <2>4. RecordsOK' /\ CommandsOK'
    BY <2>1, RecordsStay, CommandsStay DEF AllJustified
  <2> QED BY <2>2, <2>3, <2>4 DEF AllJustified
<1>2. CASE Finish(a)
  BY <1>2, DropJustified DEF Finish, storeVars, procVars, extVars
<1>3. CASE Skip(a)
  BY <1>3, DropJustified DEF Skip, storeVars, procVars, extVars
<1>4. CASE Begin(a)
  <2>1. cur[a] \in Copy /\ Justified(cur[a])
    BY <1>4, HandJustified DEF Begin, At, Holding
  <2>2. PICK c \in Copy :
          c = [cur[a] EXCEPT !.status = "in_progress"] /\ Justified(c)
    BY <2>1, CopyType, JustifiedCopies DEF Status
  <2>3. /\ Hold(a, c) /\ Issue(a, UpdateTask(c))
        /\ UNCHANGED <<rec, queue, acked>>
    BY <1>4, <2>2 DEF Begin, procVars, extVars
  <2>4. UpdateTask(c) \in Seq(Command) /\ About(UpdateTask(c), c)
    BY <2>2, ListTypes, AboutLists DEF Key
  <2>5. Justified(c)'
    BY <2>2, <2>3 DEF Justified
  <2> QED BY <2>2, <2>3, <2>4, <2>5, MoveJustified
<1>5. CASE CountAttempt(a)
  <2>1. cur[a] \in Copy /\ Justified(cur[a])
    BY <1>5, HandJustified DEF CountAttempt, At, Holding
  <2> DEFINE d == [cur[a] EXCEPT !.attempts = @ + 1]
  <2>0. d \in Copy /\ Justified(d)
    BY <2>1, CopyType, JustifiedCopies
  <2> HIDE DEF d
  <2>2. PICK c \in Copy : c = d /\ Justified(c)
    BY <2>0
  <2>3. /\ Hold(a, c) /\ Issue(a, UpdateTask(c))
        /\ UNCHANGED <<rec, queue, acked>>
    BY <1>5, <2>2 DEF CountAttempt, procVars, extVars, d
  <2>4. UpdateTask(c) \in Seq(Command) /\ About(UpdateTask(c), c)
    BY <2>2, ListTypes, AboutLists DEF Key
  <2>5. Justified(c)'
    BY <2>2, <2>3 DEF Justified
  <2> QED BY <2>2, <2>3, <2>4, <2>5, MoveJustified
<1>6. CASE Deliver(a)
  <2>1. cur[a] \in Copy
    BY <1>6, HandJustified DEF Deliver, At, Holding
  <2>2. PICK ok \in BOOLEAN :
           /\ Hold(a, [cur[a] EXCEPT !.status = Outcome(cur[a], ok)])
           /\ acked' = IF ok THEN acked \cup {cur[a].id} ELSE acked
    BY <1>6 DEF Deliver
  <2>0. Outcome(cur[a], ok) \in Status
    BY <2>1, OutcomeType DEF Status
  <2>3. [cur[a] EXCEPT !.status = Outcome(cur[a], ok)] \in Copy
    BY <2>0, <2>1, CopyType
  <2>4. PICK c \in Copy : c = [cur[a] EXCEPT !.status = Outcome(cur[a], ok)]
    BY <2>3
  <2>5. PICK b \in Copy : b = cur[a]
    BY <2>1
  <2>7. Justified(c)'
    BY <2>2, <2>4, <2>5, OutcomeJustified
  <2>8. Hold(a, c) /\ UNCHANGED <<rec, queue, todo>> /\ acked \subseteq acked'
    BY <1>6, <2>2, <2>4 DEF Deliver, storeVars, procVars
  <2>6. <<>> \in Seq(Command) /\ About(<<>>, c)
    BY DEF About
  <2> QED BY <2>6, <2>7, <2>8, MoveJustified
<1>7. CASE Settle(a)
  <2> DEFINE Cmds(c) == UpdateTask(c) \o
               (IF cur[a].status = "retry_pending"
                  THEN AddTo("retry_pending", c) ELSE <<>>)
  <2>1. cur[a] \in Copy /\ Justified(cur[a])
    BY <1>7, HandJustified DEF Settle, At, Holding
  <2>2. PICK d \in BOOLEAN :
           d = IF cur[a].status = "retry_pending" THEN FALSE ELSE cur[a].due
    BY <2>1 DEF Copy
  <2>3. PICK c \in Copy : c = [cur[a] EXCEPT !.due = d] /\ Justified(c)
    BY <2>1, CopyType, JustifiedCopies
  <2>4. Hold(a, c) /\ Issue(a, Cmds(c)) /\ UNCHANGED <<rec, queue, acked>>
    BY <1>7, <2>2, <2>3 DEF Settle, procVars
  <2>5. /\ UpdateTask(c) \in Seq(Command) /\ About(UpdateTask(c), c)
        /\ AddTo("retry_pending", c) \in Seq(Command)
        /\ About(AddTo("retry_pending", c), c)
        /\ <<>> \in Seq(Command) /\ About(<<>>, c)
    BY <2>3, ListTypes, AboutLists DEF Key, Status
  <2>6. PICK cmds \in Seq(Command) : cmds = Cmds(c) /\ About(cmds, c)
    BY <2>5, ConcatType, AboutConcat
  <2>7. Justified(c)'
    BY <2>3, <2>4 DEF Justified
  <2>8. Issue(a, cmds)
    BY <2>4, <2>6
  <2> HIDE DEF Cmds
  <2> QED BY <2>4, <2>6, <2>7, <2>8, MoveJustified
<1>8. CASE Unlock(a)
  BY <1>8, DropJustified DEF Unlock, procVars, extVars
<1> QED BY <1>1, <1>2, <1>3, <1>4, <1>5, <1>6, <1>7, <1>8 DEF Work

LEMMA DownJustified ==
    ASSUME TypeInv, AllJustified, UNCHANGED acked, NEW p \in Proc, Down(p)
    PROVE  AllJustified'
<1>1. \A b \in Actor : cur'[b] \in {cur[b], None} /\ todo'[b] \in {todo[b], <<>>}
  BY DEF Down
<1>2. \A q \in Proc : queue'[q] \in {queue[q], <<>>}
  BY TypeParts DEF Down, RestOK
<1>3. UNCHANGED rec
  BY DEF Down
<1> QED BY <1>1, <1>2, <1>3, QuietJustified

(* A record that exists is a justified copy.                               *)
LEMMA RecordJustified ==
    ASSUME TypeInv, AllJustified, NEW t \in Task, Known(t)
    PROVE  rec[t] \in Copy /\ Justified(rec[t]) /\ rec[t].id = t
BY TypeParts DEF RestOK, Known, AllJustified, RecordsOK

(* An issue of commands by a goroutine that holds on to nothing new.       *)
LEMMA IssueJustified ==
    ASSUME TypeInv, AllJustified, UNCHANGED <<rec, queue, acked>>,
           NEW a \in Actor, Hold(a, None) \/ UNCHANGED cur,
           NEW c \in Copy, Justified(c),
           NEW cmds \in Seq(Command), About(cmds, c), Issue(a, cmds)
    PROVE  AllJustified'
<1>1. Justified(c)'
  BY DEF Justified
<1> QED BY <1>1, MoveJustified

LEMMA DispatchJustified ==
    ASSUME TypeInv, AllJustified, NEW a \in Actor, Dispatch(a)
    PROVE  AllJustified'
<1>1. CASE Poll(a)
  BY <1>1, DropJustified DEF Poll, storeVars, procVars, extVars
<1>2. CASE PassOver(a)
  BY <1>2, DropJustified DEF PassOver, storeVars, procVars, extVars
<1>3. CASE Claim(a)
  <2> DEFINE Cmds(c) == UpdateTask(c) \o RemoveFrom("retry_pending", c)
  <2>1. cur[a] \in Copy /\ Justified(cur[a])
    BY <1>3, HandJustified DEF Claim, At, Holding
  <2>2. PICK c \in Copy :
          c = [cur[a] EXCEPT !.status = "queued"] /\ Justified(c)
    BY <2>1, CopyType, JustifiedCopies DEF Status
  <2>3. Hold(a, c) /\ Issue(a, Cmds(c)) /\ UNCHANGED <<rec, queue, acked>>
    BY <1>3, <2>2 DEF Claim, procVars, extVars
  <2>4. /\ UpdateTask(c) \in Seq(Command) /\ About(UpdateTask(c), c)
        /\ RemoveFrom("retry_pending", c) \in Seq(Command)
        /\ About(RemoveFrom("retry_pending", c), c)
    BY <2>2, ListTypes, AboutLists DEF Key, Status
  <2>5. PICK cmds \in Seq(Command) : cmds = Cmds(c) /\ About(cmds, c)
    BY <2>4, ConcatType, AboutConcat
  <2>6. Issue(a, cmds) /\ Justified(c)'
    BY <2>2, <2>3, <2>5 DEF Justified
  <2> HIDE DEF Cmds
  <2> QED BY <2>3, <2>5, <2>6, MoveJustified
<1>4. CASE Put(a)
  <2>1. cur[a] \in Copy
    BY <1>4, HandJustified DEF Put, At, Holding
  <2>2. /\ queue' = [queue EXCEPT ![a[1]] = Append(@, cur[a])]
        /\ Hold(a, None) /\ UNCHANGED <<acked, rec, todo>>
    BY <1>4 DEF Put, storeVars, extVars
  <2> QED BY <2>1, <2>2, AppendJustified
<1>5. CASE PutBack(a)
  <2> DEFINE Cmds(c) == UpdateTask(c) \o AddTo("retry_pending", c)
  <2>1. cur[a] \in Copy /\ Justified(cur[a])
    BY <1>5, HandJustified DEF PutBack, At, Holding
  <2>2. PICK c \in Copy :
          c = [cur[a] EXCEPT !.status = "retry_pending"] /\ Justified(c)
    BY <2>1, CopyType, JustifiedCopies DEF Status
  <2>3. Hold(a, c) /\ Issue(a, Cmds(c)) /\ UNCHANGED <<rec, queue, acked>>
    BY <1>5, <2>2 DEF PutBack, procVars, extVars
  <2>4. /\ UpdateTask(c) \in Seq(Command) /\ About(UpdateTask(c), c)
        /\ AddTo("retry_pending", c) \in Seq(Command)
        /\ About(AddTo("retry_pending", c), c)
    BY <2>2, ListTypes, AboutLists DEF Key, Status
  <2>5. PICK cmds \in Seq(Command) : cmds = Cmds(c) /\ About(cmds, c)
    BY <2>4, ConcatType, AboutConcat
  <2>6. Issue(a, cmds) /\ Justified(c)'
    BY <2>2, <2>3, <2>5 DEF Justified
  <2> HIDE DEF Cmds
  <2> QED BY <2>3, <2>5, <2>6, MoveJustified
<1>6. CASE DispatcherPanic(a)
  BY <1>6, CurType, DownJustified DEF DispatcherPanic, extVars
<1>7. ASSUME NEW t \in Task, Inspect(a, t) PROVE AllJustified'
  <2>1. UNCHANGED <<rec, queue, todo, acked>>
    BY <1>7 DEF Inspect, storeVars, procVars, extVars
  <2>2. CASE UNCHANGED cur
    BY <2>1, <2>2, DropJustified
  <2>3. CASE Known(t) /\ Hold(a, rec[t])
    <3>1. PICK c \in Copy : c = rec[t] /\ Justified(c)
      BY <2>3, RecordJustified
    <3>2. <<>> \in Seq(Command) /\ About(<<>>, c)
      BY DEF About
    <3>3. Justified(c)' /\ Hold(a, c)
      BY <2>1, <2>3, <3>1 DEF Justified
    <3> QED BY <2>1, <3>2, <3>3, MoveJustified
  <2> QED BY <1>7, <2>2, <2>3 DEF Inspect
<1> QED BY <1>1, <1>2, <1>3, <1>4, <1>5, <1>6, <1>7 DEF Dispatch

LEMMA RecoverJustified ==
    ASSUME TypeInv, AllJustified, NEW a \in Actor, Recover(a)
    PROVE  AllJustified'
<1>1. CASE RecoverScan(a) \/ RecoverEnd(a)
  BY <1>1, DropJustified
  DEF RecoverScan, RecoverEnd, storeVars, procVars, extVars
<1>2. ASSUME NEW t \in Task, RecoverNext(a, t) PROVE AllJustified'
  <2>1. UNCHANGED <<rec, queue, cur, acked>>
    BY <1>2 DEF RecoverNext, procVars, extVars
  <2>2. CASE UNCHANGED todo
    BY <2>1, <2>2, DropJustified
  <2>3. CASE ~UNCHANGED todo
    <3> DEFINE Cmds(c) == UpdateTask(c) \o RemoveFrom("in_progress", c)
                          \o AddTo("retry_pending", c)
    <3>1. Known(t) /\ Issue(a, Cmds(Reset(rec[t])))
      BY <1>2, <2>3 DEF RecoverNext
    <3>2. PICK c \in Copy : c = Reset(rec[t]) /\ Justified(c)
      BY <3>1, RecordJustified, CopyType, JustifiedCopies
    <3>3. /\ UpdateTask(c) \in Seq(Command) /\ About(UpdateTask(c), c)
          /\ RemoveFrom("in_progress", c) \in Seq(Command)
          /\ About(RemoveFrom("in_progress", c), c)
          /\ AddTo("retry_pending", c) \in Seq(Command)
          /\ About(AddTo("retry_pending", c), c)
      BY <3>2, ListTypes, AboutLists DEF Key, Status
    <3>4. /\ UpdateTask(c) \o RemoveFrom("in_progress", c) \in Seq(Command)
          /\ About(UpdateTask(c) \o RemoveFrom("in_progress", c), c)
      BY <3>3, ConcatType, AboutConcat
    <3>5. PICK cmds \in Seq(Command) : cmds = Cmds(c) /\ About(cmds, c)
      BY <3>3, <3>4, ConcatType, AboutConcat
    <3>6. Issue(a, cmds)
      BY <3>1, <3>2, <3>5
    <3> HIDE DEF Cmds
    <3> QED BY <2>1, <3>2, <3>5, <3>6, IssueJustified
  <2> QED BY <2>2, <2>3
<1> QED BY <1>1, <1>2 DEF Recover

LEMMA EnqueueJustified ==
    ASSUME TypeInv, AllJustified, NEW a \in Actor, Enqueue(a)
    PROVE  AllJustified'
<1>1. CASE Offer(a)
  <2>1. cur[a] \in Copy
    BY <1>1, HandJustified DEF Offer, At, Holding
  <2>2. /\ queue' = [queue EXCEPT ![a[1]] = Append(@, cur[a])]
        /\ Hold(a, None) /\ UNCHANGED <<acked, rec, todo>>
    BY <1>1 DEF Offer, storeVars, extVars
  <2> QED BY <2>1, <2>2, AppendJustified
<1>2. CASE OfferFull(a)
  <2> DEFINE Cmds(c) == UpdateTask(c) \o AddTo("retry_pending", c)
  <2>1. cur[a] \in Copy /\ Justified(cur[a])
    BY <1>2, HandJustified DEF OfferFull, At, Holding
  <2>2. PICK c \in Copy : c = Reset(cur[a]) /\ Justified(c)
    BY <2>1, CopyType, JustifiedCopies
  <2>3. Hold(a, None) /\ Issue(a, Cmds(c)) /\ UNCHANGED <<rec, queue, acked>>
    BY <1>2, <2>2 DEF OfferFull, procVars, extVars
  <2>4. /\ UpdateTask(c) \in Seq(Command) /\ About(UpdateTask(c), c)
        /\ AddTo("retry_pending", c) \in Seq(Command)
        /\ About(AddTo("retry_pending", c), c)
    BY <2>2, ListTypes, AboutLists DEF Key, Status
  <2>5. PICK cmds \in Seq(Command) : cmds = Cmds(c) /\ About(cmds, c)
    BY <2>4, ConcatType, AboutConcat
  <2>6. Issue(a, cmds)
    BY <2>3, <2>5
  <2> HIDE DEF Cmds
  <2> QED BY <2>2, <2>3, <2>5, <2>6, IssueJustified
<1>3. CASE OfferPanic(a)
  BY <1>3, DropJustified DEF OfferPanic, storeVars, procVars, extVars
<1> QED BY <1>1, <1>2, <1>3 DEF Enqueue

LEMMA MarkJustified ==
    ASSUME TypeInv, AllJustified, NEW a \in Actor, Mark(a)
    PROVE  AllJustified'
<1> DEFINE t == cur[a].id
           Cmds(c, s) == UpdateTask(c) \o RemoveFrom(s, c) \o AddTo("cancelled", c)
<1>1. t \in Task /\ UNCHANGED <<rec, queue, cur, acked>>
  BY CurType DEF Mark, At, Holding, procVars, extVars
<1>2. CASE UNCHANGED todo
  BY <1>1, <1>2, DropJustified
<1>3. CASE ~UNCHANGED todo
  <2>1. /\ Known(t)
        /\ Issue(a, Cmds([rec[t] EXCEPT !.status = "cancelled"], rec[t].status))
    BY <1>3 DEF Mark
  <2>2. rec[t] \in Copy /\ Justified(rec[t])
    BY <1>1, <2>1, RecordJustified
  <2>0. /\ [rec[t] EXCEPT !.status = "cancelled"] \in Copy
        /\ Justified([rec[t] EXCEPT !.status = "cancelled"])
    <3>1. "cancelled" \in Status \ {"completed", "failed"}
      BY DEF Status
    <3> QED BY <2>2, <3>1, CopyType, JustifiedCopies
  <2>3. PICK c \in Copy :
          c = [rec[t] EXCEPT !.status = "cancelled"] /\ Justified(c)
    BY <2>0
  <2>4. rec[t].status \in Key /\ "cancelled" \in Key
    BY <2>2, CopyType DEF Key, Status
  <2>5. /\ UpdateTask(c) \in Seq(Command) /\ About(UpdateTask(c), c)
        /\ RemoveFrom(rec[t].status, c) \in Seq(Command)
        /\ About(RemoveFrom(rec[t].status, c), c)
        /\ AddTo("cancelled", c) \in Seq(Command)
        /\ About(AddTo("cancelled", c), c)
    BY <2>4, ListTypes, AboutLists
  <2>6. /\ UpdateTask(c) \o RemoveFrom(rec[t].status, c) \in Seq(Command)
        /\ About(UpdateTask(c) \o RemoveFrom(rec[t].status, c), c)
    BY <2>5, ConcatType, AboutConcat
  <2>7. PICK cmds \in Seq(Command) :
            cmds = Cmds(c, rec[t].status) /\ About(cmds, c)
    BY <2>5, <2>6, ConcatType, AboutConcat
  <2>8. Issue(a, cmds)
    BY <2>1, <2>3, <2>7
  <2> HIDE DEF Cmds
  <2> QED BY <1>1, <2>3, <2>7, <2>8, IssueJustified
<1> QED BY <1>2, <1>3

(* A new task has no terminal status.                                      *)
LEMMA RequestJustified ==
    ASSUME TypeInv, AllJustified, NEW a \in Actor, NEW t \in Task, Request(a, t)
    PROVE  AllJustified'
<1>1. PICK c \in Copy : c = NewTask(t) /\ Justified(c)
  BY NewTaskType DEF NewTask, Justified
<1>2. Hold(a, c) /\ UNCHANGED <<rec, queue, acked>>
  BY <1>1 DEF Request, Accept, Cancel, procVars, extVars
<1>3. Justified(c)'
  BY <1>1, <1>2 DEF Justified
<1>4. SaveTask(c) \in Seq(Command) /\ About(SaveTask(c), c)
  BY ListTypes, AboutLists DEF Key
<1>5. Issue(a, SaveTask(c)) \/ UNCHANGED todo
  BY <1>1 DEF Request, Accept, Cancel
<1> QED BY <1>2, <1>3, <1>4, <1>5, MoveJustified

(* Commands write justified copies.                                        *)
LEMMA ExecJustified ==
    ASSUME TypeInv, AllJustified, NEW a \in Actor, Exec(a) \/ ExecFails(a),
           UNCHANGED <<queue, cur, acked>>
    PROVE  AllJustified'
<1> DEFINE h == Head(todo[a])
<1>1. todo[a] # <<>> /\ todo[a] \in Seq(Command)
  BY TypeParts DEF Exec, ExecUpdate, ExecSet, ExecAdd, ExecRemove, First,
         ExecFails, ReadOldFails, SetFails, IndexFails
<1>0. h \in Command
  BY <1>1
<1>2. /\ h \in Command /\ h.copy \in Copy /\ h.copy.id \in Task
      /\ h.key \in Key \cup {"unknown"}
  BY <1>0 DEF Command, Copy
<1>3. Justified(h.copy)
  <2>1. h = todo[a][1] /\ 1 \in 1..Len(todo[a])
    BY <1>1
  <2> QED BY <2>1 DEF AllJustified, CommandsOK
<1>4. StatusOf(h.copy.id) \in Key \cup {"unknown"}
  BY <1>2, TypeParts DEF StatusOf, Known, RestOK, Copy, Key
<1>5. PICK cmds \in Seq(Command) :
         /\ About(cmds, h.copy)
         /\ Continue(a, cmds) \/ todo' = [todo EXCEPT ![a] = <<>>]
  <2>0. ASSUME NEW k \in Key \cup {"unknown"}
        PROVE  /\ Cmd("set", k, h.copy) \in Seq(Command)
               /\ About(Cmd("set", k, h.copy), h.copy)
    BY <1>2, CmdType DEF About, Cmd
  <2>1. CASE ExecUpdate(a)
    BY <1>4, <2>0, <2>1 DEF ExecUpdate
  <2>2. CASE ReadOldFails(a)
    BY <2>0, <2>2 DEF ReadOldFails
  <2>3. CASE ExecSet(a)
    <3>1. /\ AfterSet(h.key, h.copy) \in Seq(Command)
          /\ About(AfterSet(h.key, h.copy), h.copy)
      BY <1>2, ListTypes, AboutLists DEF Key
    <3> QED BY <2>3, <3>1 DEF ExecSet
  <2>4. <<>> \in Seq(Command) /\ About(<<>>, h.copy)
    BY DEF About
  <2>5. CASE ExecAdd(a) \/ ExecRemove(a) \/ IndexFails(a)
    BY <2>4, <2>5 DEF ExecAdd, ExecRemove, IndexFails
  <2>6. CASE SetFails(a)
    <3>1. todo' = [todo EXCEPT ![a] = Tail(@)] \/ todo' = [todo EXCEPT ![a] = <<>>]
      BY <2>6 DEF SetFails
    <3>2. <<>> \o Tail(todo[a]) = Tail(todo[a])
      BY <1>1
    <3> QED BY <2>4, <3>1, <3>2 DEF Continue
  <2> QED BY <2>1, <2>2, <2>3, <2>5, <2>6 DEF Exec, ExecFails
<1>6. CommandsOK'
  BY <1>1, <1>5, CommandsContinue DEF AllJustified
<1>7. UNCHANGED rec \/ rec' = [rec EXCEPT ![h.copy.id] = h.copy]
  BY DEF Exec, ExecUpdate, ExecSet, ExecAdd, ExecRemove,
         ExecFails, ReadOldFails, SetFails, IndexFails
<1>8. RecordsOK'
  <2>1. \A t \in Task : \/ rec'[t] = rec[t]
                        \/ rec'[t] = h.copy /\ h.copy.id = t
    BY <1>2, <1>7, TypeParts DEF RestOK
  <2> QED BY <1>3, <2>1 DEF RecordsOK, AllJustified, Justified, Known
<1>9. HandsOK' /\ ChannelsOK'
  BY HandsStay, ChannelsStay DEF AllJustified
<1> QED BY <1>6, <1>8, <1>9 DEF AllJustified

LEMMA FailingJustified ==
    ASSUME TypeInv, AllJustified, NEW a \in Actor, Failing(a)
    PROVE  AllJustified'
<1>1. CASE CommandFails(a)
  BY <1>1, ExecJustified DEF CommandFails, Fault, procVars, goVars
<1>2. CASE LockFails(a) \/ UnlockFails(a)
  <2>1. UNCHANGED <<rec, todo, queue, acked>> /\ Hold(a, None)
    BY <1>2 DEF LockFails, UnlockFails, Fault, procVars, storeVars
  <2> QED BY <2>1, DropJustified
<1>3. CASE ReadFails(a)
  <2>1. UNCHANGED <<rec, todo, queue, acked, cur>>
    BY <1>3 DEF ReadFails, Fault, procVars, storeVars
  <2> QED BY <2>1, DropJustified
<1>4. ASSUME NEW t \in Task, CancelFails(a, t) PROVE AllJustified'
  <2>1. UNCHANGED <<rec, todo, queue, acked, cur>>
    BY <1>4 DEF CancelFails, Fault, procVars, goVars
  <2> QED BY <2>1, DropJustified
<1> QED BY <1>1, <1>2, <1>3, <1>4 DEF Failing

LEMMA ClockJustified ==
    ASSUME TypeInv, AllJustified, NEW t \in Task, Clock(t) \/ RecordExpires(t)
    PROVE  AllJustified'
<1>1. UNCHANGED <<todo, queue, cur, acked>>
  BY DEF Clock, BackoffElapses, LockExpires, RecordExpires, Fault,
         procVars, goVars, extVars
<1>2. CASE BackoffElapses(t)
  <2>1. /\ rec[t] \in Copy /\ Justified(rec[t])
        /\ rec' = [rec EXCEPT ![t].due = TRUE]
    BY <1>2, RecordJustified DEF BackoffElapses
  <2>2. /\ Justified([rec[t] EXCEPT !.due = TRUE])
        /\ [rec[t] EXCEPT !.due = TRUE].id = t
    BY <1>2, <2>1, RecordJustified, JustifiedCopies, CopyType DEF BackoffElapses
  <2>3. \A u \in Task : \/ rec'[u] = rec[u]
                        \/ u = t /\ rec'[u] = [rec[t] EXCEPT !.due = TRUE]
    BY <2>1, TypeParts DEF RestOK
  <2>4. RecordsOK'
    <3> DEFINE d == [rec[t] EXCEPT !.due = TRUE]
    <3>1. PICK c : c = d /\ Justified(c) /\ c.id = t
      BY <2>2
    <3>2. \A u \in Task : rec'[u] = rec[u] \/ (u = t /\ rec'[u] = c)
      BY <2>3, <3>1
    <3> QED BY <1>1, <3>1, <3>2 DEF RecordsOK, AllJustified, Justified, Known
  <2>5. HandsOK' /\ ChannelsOK' /\ CommandsOK'
    BY <1>1, HandsStay, ChannelsStay, CommandsStay DEF AllJustified
  <2> QED BY <2>4, <2>5 DEF AllJustified
<1>3. CASE LockExpires(t)
  BY <1>1, <1>3, QuietJustified DEF LockExpires
<1>4. CASE RecordExpires(t)
  <2>1. \A u \in Task : rec'[u] \in {rec[u], None}
    BY <1>4, TypeParts DEF RecordExpires, RestOK
  <2> QED BY <1>1, <2>1, QuietJustified
<1> QED BY <1>2, <1>3, <1>4 DEF Clock

LEMMA ProcessJustified ==
    ASSUME TypeInv, AllJustified, NEW p \in Proc,
           Start(p) \/ Stop(p) \/ Exit(p) \/ Crash(p)
    PROVE  AllJustified'
<1>1. CASE Start(p) \/ Stop(p)
  <2>1. UNCHANGED <<rec, todo, queue, cur, acked>>
    BY <1>1 DEF Start, Stop, Fault, storeVars, goVars, extVars
  <2> QED BY <2>1, QuietJustified
<1>2. CASE Exit(p) \/ Crash(p)
  BY <1>2, DownJustified DEF Exit, Crash, Fault, extVars
<1> QED BY <1>1, <1>2

LEMMA NextJustified ==
    ASSUME TypeInv, AllJustified, [Next]_vars
    PROVE  AllJustified'
<1>1. ASSUME NEW a \in Actor, Run(a) PROVE AllJustified'
  <2>1. CASE Redis(a)
    BY <2>1, ExecJustified DEF Redis, procVars, goVars, extVars
  <2> QED BY <1>1, <2>1, WorkJustified, DispatchJustified, RecoverJustified,
             EnqueueJustified, MarkJustified DEF Run
<1>2. ASSUME NEW a \in Actor, Failing(a) PROVE AllJustified'
  BY <1>2, FailingJustified
<1>3. ASSUME NEW a \in Actor, NEW t \in Task, Request(a, t) PROVE AllJustified'
  BY <1>3, RequestJustified
<1>4. ASSUME NEW t \in Task, Clock(t) \/ RecordExpires(t) PROVE AllJustified'
  BY <1>4, ClockJustified
<1>5. ASSUME NEW p \in Proc, Start(p) \/ Stop(p) \/ Exit(p) \/ Crash(p)
      PROVE AllJustified'
  BY <1>5, ProcessJustified
<1>6. CASE UNCHANGED vars
  <2>1. UNCHANGED <<rec, todo, queue, cur, acked>>
    BY <1>6 DEF vars, storeVars, procVars, goVars, extVars
  <2> QED BY <2>1, QuietJustified
<1> QED BY <1>1, <1>2, <1>3, <1>4, <1>5, <1>6 DEF Next

(* Whatever crashes, fails or overlaps, with any number of processes: a    *)
(* completed record was acknowledged by its receiver, and a failed one has *)
(* used up its attempts.                                                   *)
THEOREM Terminated == Spec => []TerminalJustified
<1>1. Init => AllJustified
  <2> SUFFICES ASSUME Init PROVE AllJustified
    OBVIOUS
  <2>1. RecordsOK /\ HandsOK
    BY DEF Init, StoreInit, RecordsOK, HandsOK, Known
  <2>2. ChannelsOK
    <3>1. \A p \in Proc : queue[p] = <<>>
      BY DEF Init
    <3> QED BY <3>1 DEF ChannelsOK
  <2>3. CommandsOK
    <3>1. \A a \in Actor : todo[a] = <<>>
      BY DEF Init, StoreInit
    <3> QED BY <3>1 DEF CommandsOK
  <2> QED BY <2>1, <2>2, <2>3 DEF AllJustified
<1>2. TypeInv /\ AllJustified /\ [Next]_vars => AllJustified'
  BY NextJustified
<1>3. TypeInv /\ AllJustified => TerminalJustified
  <2> SUFFICES ASSUME TypeInv, AllJustified, NEW t \in Task, Known(t)
               PROVE  /\ rec[t].status = "completed" => t \in acked
                      /\ rec[t].status = "failed" => rec[t].attempts >= MaxAttempts
    BY DEF TerminalJustified
  <2>1. Justified(rec[t]) /\ rec[t].id = t
    BY RecordJustified
  <2> QED BY <2>1 DEF Justified
<1> QED BY <1>1, <1>2, <1>3, TypeCorrect, PTL DEF Spec
=============================================================================
