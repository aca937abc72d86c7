--------------------------- MODULE FaultFreeProofs ---------------------------
(***************************************************************************)
(* The delivery scheduler when nothing fails: every process runs and no    *)
(* goroutine outlives its lock. For any number of processes, workers,      *)
(* requests, callers of CancelTask and webhooks.                           *)
(*                                                                         *)
(* Some of it holds whoever cancels what and when: BasicInv, on which      *)
(* InProgressIsWorked and CancelSticks rest. The index is complete only if *)
(* nobody cancels a webhook that its handler has not answered yet. Then    *)
(* every list of Redis commands has one author, who has the task for       *)
(* itself while the list is not empty - by the lock, or because the        *)
(* webhook is so young that nobody else is at it. So the record that a     *)
(* list started from is still the record when it ends, and what each list  *)
(* leaves undone at any point is exactly what the index lacks: CalmInv.    *)
(***************************************************************************)
EXTENDS SchedulerProofs

FaultFree == PromptSteps /\ FaultKinds = {} /\ Steady = Proc

(* All processes run.                                                      *)
Running == \A p \in Proc : phase[p] = "running"

(* Where a goroutine of role r can be, and that it holds a task exactly    *)
(* where its code has one.                                                 *)
Place(r) ==
    IF r \in Worker
      THEN {"take", "lock", "attempt", "send", "log", "unlock"}
    ELSE IF r \in Handler THEN {"accept", "offer"}
    ELSE IF r \in Canceller THEN {"cancel", "mark", "unlock"}
    ELSE IF r = "dispatcher" THEN {"poll", "claim", "put", "unlock"}
    ELSE {"exit"}

Placed(r, l, c) == l \in Place(r) /\ (c # None <=> l \in Holding)

(* The status of the task c in the hands of a goroutine at l.              *)
Carries(l, c) ==
    /\ l \in {"attempt", "send"} => c.status = "in_progress"
    /\ l = "put" => c.status = "queued"
    /\ l = "offer" => c = NewTask(c.id)
    /\ l \in {"mark", "unlock"} => c.status # "in_progress"

(* A list of commands is about one copy of one task; it reads or writes    *)
(* the record first, and then only adds the task to the set of the copy's  *)
(* status or removes it from another.                                      *)
Elems(s) == {s[i] : i \in DOMAIN s}

Indexes(x) ==
    \/ x.op = "add" /\ x.key \in {x.copy.status, "listed"}
    \/ x.op = "rem" /\ x.key \in Status \ {x.copy.status}

Shape(s) ==
    s # <<>> =>
        /\ \A x \in Elems(Tail(s)) : Indexes(x) /\ x.copy = Head(s).copy
        /\ Head(s).op \in {"add", "rem"} => Indexes(Head(s))

(* Who issues the list s, from where, about which copy.                    *)
Author(r, l, c, s) ==
    s # <<>> => LET d == Head(s).copy IN
        /\ r # "recoverer"
        /\ r \in Worker \cup {"dispatcher"} => l \in Section /\ d = c
        /\ r \in Canceller => l = "unlock" /\ d.id = c.id /\ d.status = "cancelled"
        /\ r \in Handler => \/ l = "offer" /\ d = c
                            \/ l = "accept" /\ d = Reset(NewTask(d.id))

Local(a) ==
    /\ Placed(a[2], pc[a], cur[a])
    /\ Carries(pc[a], cur[a])
    /\ Shape(todo[a])
    /\ Author(a[2], pc[a], cur[a], todo[a])

(* The first command of a list finds a record, unless it is to create it.  *)
Fits(s) ==
    s # <<>> => LET h == Head(s)
                    t == h.copy.id IN
        /\ h.op \in {"update", "add", "rem"} => Known(t)
        /\ h.op = "set" => /\ h.key \in Status \cup {"listed"}
                           /\ h.key = "listed" <=> ~Known(t)

(* It finds the record as the list expects it: nobody else has written.    *)
Current(s) ==
    s # <<>> => LET h == Head(s)
                    t == h.copy.id IN
        /\ h.op = "set" =>
             h.key = IF Known(t) THEN rec[t].status ELSE "listed"
        /\ h.op \in {"add", "rem"} => rec[t] = h.copy

Exact == \A a \in Actor : Current(todo[a])

(* A record is that of its task, and a task on its way has one.            *)
Stored ==
    /\ \A t \in Task : Known(t) => rec[t].id = t
    /\ \A a \in Actor :
         /\ a[2] \in Worker \cup {"dispatcher"} /\ cur[a] # None =>
              Known(cur[a].id)
         /\ pc[a] = "offer" /\ todo[a] = <<>> => Known(cur[a].id)
    /\ \A p \in Proc : \A i \in DOMAIN queue[p] : Known(queue[p][i].id)

(* A handler has the task it created for itself until it is done with it,  *)
(* although it takes no lock: it is in no channel, and a dispatcher that   *)
(* sees it already finds it not due.                                       *)
Has(a, t) == Holds(a, t) \/ Writes(a, t)

Young(a, t) == a[2] \in Handler /\ Has(a, t)

YoungAlone ==
    \A a \in Actor, t \in Task : Young(a, t) =>
        /\ t \in accepted
        /\ \A b \in Actor \ {a} : ~Has(b, t)
        /\ \A p \in Proc : Waiting(p, t) = {}

YoungNotDue ==
    \A a, b \in Actor, t \in Task :
        Young(a, t) /\ t \in members["retry_pending"] \cup batch[b] =>
            pc[a] = "accept" /\ Known(t) /\ ~rec[t].due

(* Nothing is known of a task before it is accepted.                       *)
Unborn ==
    \A t \in Task : t \notin accepted =>
        /\ ~Known(t)
        /\ \A a \in Actor : ~Has(a, t) /\ t \notin batch[a]
        /\ \A p \in Proc : Waiting(p, t) = {}

(* No set names a task without a record, and before there is one, only the *)
(* goroutine that creates it writes.                                       *)
Founded ==
    /\ \A t \in Task : ~Known(t) => \A k \in Key : t \notin members[k]
    /\ \A a, b \in Actor, t \in Task :
         a # b /\ Writes(a, t) /\ Writes(b, t) => Known(t)

(* What the index lacks is still to be done by somebody.                   *)
Pending(op, k, t) ==
    \E a \in Actor : \E x \in Elems(todo[a]) :
        x.op = op /\ x.key = k /\ x.copy.id = t

Indexed ==
    \A t \in Task :
        /\ ~Known(t) => \A k \in Key : t \notin members[k]
        /\ Known(t) =>
             /\ t \in members["listed"] \/ Pending("add", "listed", t)
             /\ \A s \in Status :
                  IF s = rec[t].status
                    THEN t \in members[s] \/ Pending("add", s, t)
                    ELSE t \notin members[s] \/ Pending("rem", s, t)

(* A record in progress is in the section of a worker that has not yet     *)
(* written the outcome.                                                    *)
Unwritten(a) == todo[a] # <<>> /\ Head(todo[a]).op \in {"update", "set"}

WorksOn(a, t) ==
    /\ Holds(a, t)
    /\ \/ pc[a] \in {"attempt", "send", "log"}
       \/ pc[a] = "unlock" /\ Unwritten(a)

Worked ==
    \A t \in Task : StatusOf(t) = "in_progress" => \E a \in Actor : WorksOn(a, t)

StoreInv == Running /\ (\A a \in Actor : Local(a) /\ Fits(todo[a])) /\ Stored
BasicInv == StoreInv /\ Unborn /\ Founded /\ Worked

BirthInv == YoungAlone /\ YoungNotDue /\ Unborn
CalmInv == StoreInv /\ Exact /\ BirthInv /\ Indexed /\ Worked

(* A cancelled task of which nothing is left but callers of CancelTask.    *)
Gone(t) ==
    /\ StatusOf(t) = "cancelled" /\ t \notin members["retry_pending"]
    /\ \A a \in Actor :
         /\ Holds(a, t) => a[2] \in Canceller
         /\ ~Writes(a, t)
         /\ t \notin batch[a]
    /\ \A p \in Proc : Waiting(p, t) = {}

-----------------------------------------------------------------------------
(* Lists of commands.                                                      *)
LEMMA ElemsOf ==
    ASSUME NEW s \in Seq(Command), s # <<>>
    PROVE  /\ Head(s) \in Command /\ Tail(s) \in Seq(Command)
           /\ Elems(s) = {Head(s)} \cup Elems(Tail(s))
<1>1. Head(s) \in Command /\ Tail(s) \in Seq(Command)
  OBVIOUS
<1>2. ASSUME NEW i \in DOMAIN s PROVE s[i] \in {Head(s)} \cup Elems(Tail(s))
  <2>1. CASE i = 1
    BY <2>1
  <2>2. CASE i # 1
    <3>1. i - 1 \in DOMAIN Tail(s) /\ Tail(s)[i - 1] = s[i]
      BY <2>2
    <3> QED BY <3>1 DEF Elems
  <2> QED BY <2>1, <2>2
<1>3. ASSUME NEW i \in DOMAIN Tail(s) PROVE Tail(s)[i] \in Elems(s)
  <2>1. i + 1 \in DOMAIN s /\ Tail(s)[i] = s[i + 1]
    OBVIOUS
  <2> QED BY <2>1 DEF Elems
<1>4. Head(s) \in Elems(s)
  <2>1. 1 \in DOMAIN s /\ Head(s) = s[1]
    OBVIOUS
  <2> QED BY <2>1 DEF Elems
<1> QED BY <1>1, <1>2, <1>3, <1>4 DEF Elems

LEMMA ElemsConcat ==
    ASSUME NEW s \in Seq(Command), NEW r \in Seq(Command)
    PROVE  Elems(s \o r) = Elems(s) \cup Elems(r)
<1>1. ASSUME NEW i \in DOMAIN (s \o r)
      PROVE (s \o r)[i] \in Elems(s) \cup Elems(r)
  <2>1. CASE i <= Len(s)
    <3>1. i \in DOMAIN s /\ (s \o r)[i] = s[i]
      BY <2>1
    <3> QED BY <3>1 DEF Elems
  <2>2. CASE ~(i <= Len(s))
    <3>1. i - Len(s) \in DOMAIN r /\ (s \o r)[i] = r[i - Len(s)]
      BY <2>2
    <3> QED BY <3>1 DEF Elems
  <2> QED BY <2>1, <2>2
<1>2. ASSUME NEW i \in DOMAIN s PROVE s[i] \in Elems(s \o r)
  <2>1. i \in DOMAIN (s \o r) /\ (s \o r)[i] = s[i]
    OBVIOUS
  <2> QED BY <2>1 DEF Elems
<1>3. ASSUME NEW i \in DOMAIN r PROVE r[i] \in Elems(s \o r)
  <2>1. i + Len(s) \in DOMAIN (s \o r) /\ (s \o r)[i + Len(s)] = r[i]
    OBVIOUS
  <2> QED BY <2>1 DEF Elems
<1> QED BY <1>1, <1>2, <1>3 DEF Elems

LEMMA ConcatParts ==
    ASSUME NEW s \in Seq(Command), NEW r \in Seq(Command)
    PROVE  /\ s # <<>> =>
                /\ s \o r # <<>> /\ Head(s \o r) = Head(s)
                /\ Tail(s \o r) = Tail(s) \o r
           /\ s = <<>> => s \o r = r
<1>1. ASSUME s # <<>>
      PROVE  s \o r # <<>> /\ Head(s \o r) = Head(s) /\ Tail(s \o r) = Tail(s) \o r
  <2>1. Len(s) > 0 /\ Len(s \o r) = Len(s) + Len(r)
    BY <1>1
  <2>2. s \o r # <<>> /\ Head(s \o r) = Head(s)
    BY <2>1
  <2>3. Tail(s \o r) = Tail(s) \o r
    BY <2>1, <1>1
  <2> QED BY <2>2, <2>3
<1>2. ASSUME s = <<>> PROVE s \o r = r
  BY <1>2
<1> QED BY <1>1, <1>2

LEMMA ElemsEmpty == Elems(<<>>) = {}
BY DEF Elems

LEMMA CmdParts ==
    ASSUME NEW op \in {"update", "set", "add", "rem"},
           NEW k \in Key \cup {"unknown"}, NEW c \in Copy
    PROVE  /\ Cmd(op, k, c) \in Seq(Command) /\ Cmd(op, k, c) # <<>>
           /\ Head(Cmd(op, k, c)) = [op |-> op, key |-> k, copy |-> c]
           /\ Tail(Cmd(op, k, c)) = <<>>
           /\ Elems(Cmd(op, k, c)) = {[op |-> op, key |-> k, copy |-> c]}
<1>1. Cmd(op, k, c) \in Seq(Command)
  BY CmdType
<1>2. /\ Cmd(op, k, c) # <<>>
      /\ Head(Cmd(op, k, c)) = [op |-> op, key |-> k, copy |-> c]
      /\ Tail(Cmd(op, k, c)) = <<>>
  BY DEF Cmd
<1> QED BY <1>1, <1>2, ElemsOf, ElemsEmpty

(* Commands about the index of copy c.                                     *)
IndexList(s, c) == \A x \in Elems(s) : Indexes(x) /\ x.copy = c

LEMMA IndexLists ==
    ASSUME NEW c \in Copy
    PROVE  /\ IndexList(<<>>, c)
           /\ IndexList(AddTo(c.status, c), c) /\ IndexList(AddTo("listed", c), c)
           /\ \A k \in Status \ {c.status} : IndexList(RemoveFrom(k, c), c)
           /\ \A s, r \in Seq(Command) :
                IndexList(s, c) /\ IndexList(r, c) => IndexList(s \o r, c)
<1>1. IndexList(<<>>, c)
  BY ElemsEmpty DEF IndexList
<1>2. ASSUME NEW k \in {c.status, "listed"} PROVE IndexList(AddTo(k, c), c)
  <2>1. k \in Key
    BY DEF Key, Copy
  <2>2. Elems(AddTo(k, c)) = {[op |-> "add", key |-> k, copy |-> c]}
    BY <2>1, CmdParts DEF AddTo
  <2> QED BY <2>2 DEF IndexList, Indexes
<1>3. ASSUME NEW k \in Status \ {c.status} PROVE IndexList(RemoveFrom(k, c), c)
  <2>1. k \in Key
    BY DEF Key
  <2>2. Elems(RemoveFrom(k, c)) = {[op |-> "rem", key |-> k, copy |-> c]}
    BY <2>1, CmdParts DEF RemoveFrom
  <2> QED BY <2>2 DEF IndexList, Indexes
<1>4. ASSUME NEW s \in Seq(Command), NEW r \in Seq(Command),
             IndexList(s, c), IndexList(r, c)
      PROVE  IndexList(s \o r, c)
  BY <1>4, ElemsConcat DEF IndexList
<1> QED BY <1>1, <1>2, <1>3, <1>4

(* A list that begins with a read or a write of the record.                *)
LEMMA HeadedShape ==
    ASSUME NEW op \in {"update", "set"}, NEW k \in Key \cup {"unknown"},
           NEW c \in Copy, NEW s \in Seq(Command), IndexList(s, c)
    PROVE  LET l == Cmd(op, k, c) \o s IN
           /\ l \in Seq(Command) /\ l # <<>> /\ Shape(l)
           /\ Head(l) = [op |-> op, key |-> k, copy |-> c] /\ Tail(l) = s
<1> DEFINE m == Cmd(op, k, c)
           l == m \o s
           h == [op |-> op, key |-> k, copy |-> c]
<1>1. /\ m \in Seq(Command) /\ m # <<>>
      /\ Head(m) = h /\ Tail(m) = <<>>
  BY CmdParts
<1> HIDE DEF h, m
<1>2. m \o s # <<>> /\ Head(m \o s) = h /\ Tail(m \o s) = Tail(m) \o s
  BY <1>1, ConcatParts, Zenon
<1>3. <<>> \o s = s
  OBVIOUS
<1>4. l \in Seq(Command)
  BY <1>1, ConcatType
<1> HIDE DEF l
<1>5. h.op = op /\ h.copy = c
  BY DEF h
<1>6. Shape(l)
  BY <1>1, <1>2, <1>3, <1>5 DEF Shape, IndexList, l
<1> QED BY <1>1, <1>2, <1>3, <1>4, <1>6 DEF l, h, m

(* Lists about the index only, and what follows a write of the record.     *)
LEMMA IndexShape ==
    ASSUME NEW c \in Copy, NEW s \in Seq(Command), IndexList(s, c)
    PROVE  /\ Shape(s)
           /\ s # <<>> => /\ Head(s).copy = c /\ Head(s).op \in {"add", "rem"}
                          /\ IndexList(Tail(s), c)
<1>1. CASE s = <<>>
  BY <1>1 DEF Shape
<1>2. CASE s # <<>>
  BY <1>2, ElemsOf DEF Shape, IndexList, Indexes
<1> QED BY <1>1, <1>2

LEMMA AfterSetList ==
    ASSUME NEW c \in Copy, NEW old \in Status \cup {"listed"}
    PROVE  /\ AfterSet(old, c) \in Seq(Command)
           /\ IndexList(AfterSet(old, c), c)
           /\ old = "listed" => Elems(AfterSet(old, c)) =
                {[op |-> "add", key |-> "listed", copy |-> c],
                 [op |-> "add", key |-> c.status, copy |-> c]}
           /\ old \in Status \ {c.status} => Elems(AfterSet(old, c)) =
                {[op |-> "rem", key |-> old, copy |-> c],
                 [op |-> "add", key |-> c.status, copy |-> c]}
<1>1. c.status \in Key /\ "listed" \in Key \ Status /\ "unknown" \notin Status
      /\ c.status \in Status
  BY DEF Key, Copy, Status
<1>2. AfterSet(old, c) \in Seq(Command)
  BY ListTypes DEF Key
<1>3. CASE old = "listed"
  <2>1. AfterSet(old, c) = AddTo("listed", c) \o AddTo(c.status, c)
    BY <1>3 DEF AfterSet
  <2>2. /\ AddTo("listed", c) \in Seq(Command) /\ AddTo(c.status, c) \in Seq(Command)
        /\ Elems(AddTo("listed", c)) = {[op |-> "add", key |-> "listed", copy |-> c]}
        /\ Elems(AddTo(c.status, c)) = {[op |-> "add", key |-> c.status, copy |-> c]}
    BY <1>1, CmdParts DEF AddTo
  <2>3. IndexList(AfterSet(old, c), c)
    BY <2>1, <2>2, IndexLists
  <2>4. Elems(AfterSet(old, c)) = Elems(AddTo("listed", c)) \cup Elems(AddTo(c.status, c))
    BY <2>1, <2>2, ElemsConcat
  <2>5. Elems(AfterSet(old, c)) =
          {[op |-> "add", key |-> "listed", copy |-> c],
           [op |-> "add", key |-> c.status, copy |-> c]}
    BY <2>2, <2>4
  <2>6. old \notin Status
    BY <1>1, <1>3
  <2> QED BY <1>2, <2>3, <2>5, <2>6
<1>4. CASE old = c.status
  <2>1. AfterSet(old, c) = <<>>
    BY <1>1, <1>4 DEF AfterSet
  <2> QED BY <1>1, <1>2, <1>4, <2>1, IndexLists
<1>5. CASE old \in Status \ {c.status}
  <2>1. AfterSet(old, c) = RemoveFrom(old, c) \o AddTo(c.status, c)
    BY <1>1, <1>5 DEF AfterSet
  <2>2. old \in Key
    BY <1>5 DEF Key
  <2>3. /\ RemoveFrom(old, c) \in Seq(Command) /\ AddTo(c.status, c) \in Seq(Command)
        /\ Elems(RemoveFrom(old, c)) = {[op |-> "rem", key |-> old, copy |-> c]}
        /\ Elems(AddTo(c.status, c)) = {[op |-> "add", key |-> c.status, copy |-> c]}
    BY <1>1, <2>2, CmdParts DEF AddTo, RemoveFrom
  <2> QED BY <1>1, <1>2, <1>5, <2>1, <2>3, ElemsConcat, IndexLists
<1>6. old = "listed" \/ old = c.status \/ old \in Status \ {c.status}
  OBVIOUS
<1> QED BY <1>3, <1>4, <1>5, <1>6, Zenon

(* The lists that the program issues.                                      *)
LEMMA IssuedLists ==
    ASSUME NEW c \in Copy
    PROVE  /\ \A s \in {UpdateTask(c), UpdateTask(c) \o AddTo(c.status, c)}
                  \cup {UpdateTask(c) \o RemoveFrom(k, c) : k \in Status \ {c.status}}
                  \cup {UpdateTask(c) \o RemoveFrom(k, c) \o AddTo(c.status, c) :
                          k \in Status \ {c.status}} :
                /\ s \in Seq(Command) /\ s # <<>> /\ Shape(s)
                /\ Head(s).op = "update" /\ Head(s).copy = c
           /\ LET s == SaveTask(c) IN
                /\ s \in Seq(Command) /\ s # <<>> /\ Shape(s)
                /\ Head(s) = [op |-> "set", key |-> "listed", copy |-> c]
<1>1. c.status \in Key /\ "listed" \in Key
  BY DEF Key, Copy
<1>2. ASSUME NEW r \in Seq(Command), IndexList(r, c)
      PROVE  LET s == UpdateTask(c) \o r IN
             /\ s \in Seq(Command) /\ s # <<>> /\ Shape(s)
             /\ Head(s).op = "update" /\ Head(s).copy = c
  <2> DEFINE s == UpdateTask(c) \o r
  <2>1. /\ s \in Seq(Command) /\ s # <<>> /\ Shape(s)
        /\ Head(s) = [op |-> "update", key |-> c.status, copy |-> c]
    BY <1>1, <1>2, HeadedShape DEF UpdateTask
  <2> HIDE DEF s
  <2>2. Head(s).op = "update" /\ Head(s).copy = c
    BY <2>1
  <2> QED BY <2>1, <2>2 DEF s
<1>3. /\ UpdateTask(c) = UpdateTask(c) \o <<>>
      /\ SaveTask(c) = SaveTask(c) \o <<>>
  BY ListTypes, <1>1
<1>4. <<>> \in Seq(Command) /\ IndexList(<<>>, c)
  BY IndexLists
<1>5. AddTo(c.status, c) \in Seq(Command) /\ IndexList(AddTo(c.status, c), c)
  BY <1>1, IndexLists, ListTypes
<1>6. ASSUME NEW k \in Status \ {c.status}
      PROVE  LET q == RemoveFrom(k, c)
                 r == RemoveFrom(k, c) \o AddTo(c.status, c) IN
             /\ q \in Seq(Command) /\ r \in Seq(Command)
             /\ IndexList(q, c) /\ IndexList(r, c)
             /\ UpdateTask(c) \o q \o AddTo(c.status, c) = UpdateTask(c) \o r
  <2>1. k \in Key
    BY DEF Key
  <2>2. /\ UpdateTask(c) \in Seq(Command) /\ RemoveFrom(k, c) \in Seq(Command)
        /\ AddTo(c.status, c) \in Seq(Command)
    BY <1>1, <2>1, ListTypes
  <2>3. IndexList(RemoveFrom(k, c), c)
    BY IndexLists
  <2> QED BY <1>5, <2>2, <2>3, ConcatType, IndexLists
<1>7. LET s == SaveTask(c) IN
        /\ s \in Seq(Command) /\ s # <<>> /\ Shape(s)
        /\ Head(s) = [op |-> "set", key |-> "listed", copy |-> c]
  <2> DEFINE s == Cmd("set", "listed", c) \o <<>>
  <2>1. /\ s \in Seq(Command) /\ s # <<>> /\ Shape(s)
        /\ Head(s) = [op |-> "set", key |-> "listed", copy |-> c]
    BY <1>1, <1>4, HeadedShape
  <2>2. SaveTask(c) = s
    BY <1>3 DEF SaveTask
  <2> HIDE DEF s
  <2> QED BY <2>1, <2>2
<1> DEFINE Good(s) == /\ s \in Seq(Command) /\ s # <<>> /\ Shape(s)
                      /\ Head(s).op = "update" /\ Head(s).copy = c
<1>8. \A r \in Seq(Command) : IndexList(r, c) => Good(UpdateTask(c) \o r)
  BY <1>2
<1> HIDE DEF Good
<1>9. Good(UpdateTask(c)) /\ Good(UpdateTask(c) \o AddTo(c.status, c))
  BY <1>3, <1>4, <1>5, <1>8
<1>10. \A k \in Status \ {c.status} :
         /\ Good(UpdateTask(c) \o RemoveFrom(k, c))
         /\ Good(UpdateTask(c) \o RemoveFrom(k, c) \o AddTo(c.status, c))
  BY <1>6, <1>8
<1> QED BY <1>7, <1>9, <1>10 DEF Good

-----------------------------------------------------------------------------
(* Where goroutines are, by their roles.                                   *)
LEMMA RoleOf ==
    ASSUME NEW a \in Actor, NEW c, NEW l, Placed(a[2], l, c)
    PROVE  /\ a[2] \in Role
           /\ l \in {"take", "lock", "attempt", "send", "log"} => a[2] \in Worker
           /\ l \in {"poll", "claim", "put"} => a[2] = "dispatcher"
           /\ l \in {"accept", "offer"} => a[2] \in Handler
           /\ l \in {"cancel", "mark"} => a[2] \in Canceller
           /\ l = "unlock" => a[2] \in Worker \cup Canceller \cup {"dispatcher"}
           /\ l \notin {"off", "scan", "reset"}
           /\ c # None <=> l \in Holding
<1>1. a[2] \in Role
  BY SchedulerAssumption
<1> QED BY <1>1 DEF Placed, Place, Role

LEMMA Roles ==
    /\ Worker \cap Handler = {} /\ Worker \cap Canceller = {}
    /\ Handler \cap Canceller = {}
    /\ "dispatcher" \notin Worker \cup Handler \cup Canceller
    /\ "recoverer" \notin Worker \cup Handler \cup Canceller
BY SchedulerAssumption

(* A goroutine moves to l with c in its hands and the list s to issue.     *)
LEMMA Become ==
    ASSUME TypeInv, NEW a \in Actor, NEW l, NEW c, NEW s,
           Goto(a, l) \/ (UNCHANGED pc /\ l = pc[a]),
           Hold(a, c) \/ (UNCHANGED cur /\ c = cur[a]),
           Issue(a, s) \/ (UNCHANGED todo /\ s = todo[a])
    PROVE  /\ pc'[a] = l /\ cur'[a] = c /\ todo'[a] = s
           /\ \A b \in Actor \ {a} :
                pc'[b] = pc[b] /\ cur'[b] = cur[b] /\ todo'[b] = todo[b]
BY TypeParts DEF Goto, Hold, Issue

(* A step of the program, the commands before it done, keeps StoreInv if   *)
(* it leaves its goroutine in order.                                       *)
LEMMA ProgramStore ==
    ASSUME TypeInv, StoreInv, NEW a \in Actor, NEW l, NEW c, NEW s,
           Goto(a, l) \/ (UNCHANGED pc /\ l = pc[a]),
           Hold(a, c) \/ (UNCHANGED cur /\ c = cur[a]),
           Issue(a, s) \/ (UNCHANGED todo /\ s = todo[a]),
           UNCHANGED <<rec, phase>>,
           Placed(a[2], l, c), Carries(l, c), Shape(s), Author(a[2], l, c, s),
           Fits(s),
           (a[2] \in Worker \cup {"dispatcher"} /\ c # None) => Known(c.id),
           (l = "offer" /\ s = <<>>) => Known(c.id),
           \A p \in Proc : \A i \in DOMAIN queue'[p] : Known(queue'[p][i].id)
    PROVE  StoreInv'
<1>1. /\ pc'[a] = l /\ cur'[a] = c /\ todo'[a] = s
      /\ \A b \in Actor \ {a} :
           pc'[b] = pc[b] /\ cur'[b] = cur[b] /\ todo'[b] = todo[b]
  BY TypeParts DEF Goto, Hold, Issue
<1>2. Running'
  BY DEF StoreInv, Running
<1>3. \A b \in Actor : Local(b)'
  BY <1>1 DEF StoreInv, Local
<1>4. \A t : Known(t)' <=> Known(t)
  BY DEF Known
<1>6. (\A b \in Actor : Fits(todo[b]))'
  BY <1>1, <1>4 DEF StoreInv, Fits
<1>7. Stored'
  BY <1>1, <1>4 DEF StoreInv, Stored
<1> QED BY <1>2, <1>3, <1>6, <1>7 DEF StoreInv

(* What StoreInv says of one goroutine.                                    *)
LEMMA OneStore ==
    ASSUME TypeInv, StoreInv, NEW a \in Actor
    PROVE  /\ a[1] \in Proc /\ a[2] \in Role /\ phase[a[1]] = "running"
           /\ Placed(a[2], pc[a], cur[a]) /\ Carries(pc[a], cur[a])
           /\ Shape(todo[a]) /\ Author(a[2], pc[a], cur[a], todo[a])
           /\ Fits(todo[a])
           /\ todo[a] \in Seq(Command)
           /\ cur[a] # None <=> pc[a] \in Holding
           /\ pc[a] \in Holding => cur[a] \in Copy /\ cur[a].id \in Task
           /\ pc[a] \in Holding /\ a[2] \in Worker \cup {"dispatcher"} =>
                Known(cur[a].id)
           /\ \A p \in Proc : \A i \in DOMAIN queue[p] : Known(queue[p][i].id)
           /\ \A t \in Task : Known(t) => rec[t] \in Copy /\ rec[t].id = t
<1>1. a[1] \in Proc /\ a[2] \in Role /\ todo[a] \in Seq(Command)
  BY CurType, TypeParts
<1>2. pc[a] \in Holding => cur[a] \in Copy /\ cur[a].id \in Task
  BY CurType
<1>3. /\ Placed(a[2], pc[a], cur[a]) /\ Carries(pc[a], cur[a])
      /\ Shape(todo[a]) /\ Author(a[2], pc[a], cur[a], todo[a])
      /\ Fits(todo[a]) /\ phase[a[1]] = "running"
  BY <1>1 DEF StoreInv, Local, Running
<1>4. cur[a] # None <=> pc[a] \in Holding
  BY <1>3 DEF Placed
<1>5. /\ pc[a] \in Holding /\ a[2] \in Worker \cup {"dispatcher"} =>
           Known(cur[a].id)
      /\ \A p \in Proc : \A i \in DOMAIN queue[p] : Known(queue[p][i].id)
  BY <1>4 DEF StoreInv, Stored
<1>6. \A t \in Task : Known(t) => rec[t] \in Copy /\ rec[t].id = t
  BY TypeParts DEF StoreInv, Stored, RestOK, Known
<1> QED BY <1>1, <1>2, <1>3, <1>4, <1>5, <1>6

(* Empty lists, and lists that begin with the read of a known record.      *)
LEMMA NoCommands ==
    \A r, l, c : Shape(<<>>) /\ Author(r, l, c, <<>>) /\ Fits(<<>>)
BY DEF Shape, Author, Fits

LEMMA UpdateFits ==
    ASSUME NEW s, Head(s).op = "update", Known(Head(s).copy.id)
    PROVE  Fits(s)
BY DEF Fits

(* The steps of workers.                                                   *)
LEMMA WorkStore ==
    ASSUME TypeInv, StoreInv, NEW a \in Actor, Work(a)
    PROVE  StoreInv'
<1>0. /\ a[1] \in Proc /\ phase[a[1]] = "running"
      /\ Placed(a[2], pc[a], cur[a])
      /\ pc[a] \in Holding => cur[a] \in Copy /\ cur[a].id \in Task
      /\ pc[a] \in Holding /\ a[2] \in Worker \cup {"dispatcher"} =>
           Known(cur[a].id)
      /\ \A p \in Proc : \A i \in DOMAIN queue[p] : Known(queue[p][i].id)
  BY OneStore
<1>1. CASE Take(a)
  <2> DEFINE c == Head(queue[a[1]])
  <2>1. pc[a] = "take" /\ todo[a] = <<>> /\ queue[a[1]] # <<>>
        /\ queue[a[1]] \in Seq(Copy)
    BY <1>0, <1>1, TypeParts DEF Take, At, RestOK
  <2>2. a[2] \in Worker
    BY <1>0, <2>1, RoleOf
  <2>3. c \in Copy /\ Known(c.id)
    <3>1. c \in Copy /\ 1 \in DOMAIN queue[a[1]] /\ c = queue[a[1]][1]
      BY <2>1
    <3> QED BY <1>0, <3>1
  <2>4. \A p \in Proc : \A i \in DOMAIN queue'[p] : Known(queue'[p][i].id)
    <3>1. queue' = [queue EXCEPT ![a[1]] = Tail(queue[a[1]])]
          /\ queue \in [Proc -> Seq(Copy)]
      BY <1>1, TypeParts DEF Take, RestOK
    <3>2. \A i \in DOMAIN Tail(queue[a[1]]) :
            i + 1 \in DOMAIN queue[a[1]] /\ Tail(queue[a[1]])[i] = queue[a[1]][i + 1]
      BY <2>1
    <3>3. \A i \in DOMAIN Tail(queue[a[1]]) : Known(Tail(queue[a[1]])[i].id)
      BY <1>0, <3>2
    <3> QED BY <1>0, <3>1, <3>3
  <2>5. Goto(a, "lock") /\ Hold(a, c) /\ UNCHANGED <<todo, rec, phase>>
    BY <1>1 DEF Take, storeVars
  <2>6. Placed(a[2], "lock", c)
    BY <2>2, <2>3, NoneAssumption DEF Placed, Place, Holding
  <2>7. Carries("lock", c)
    BY DEF Carries
  <2> HIDE DEF c
  <2> QED BY <2>1, <2>3, <2>4, <2>5, <2>6, <2>7, NoCommands, ProgramStore
<1>2. CASE Finish(a)
  BY <1>0, <1>2 DEF Finish
<1>3. CASE Skip(a)
  <2>1. pc[a] = "lock" /\ todo[a] = <<>>
    BY <1>3 DEF Skip, At
  <2>2. a[2] \in Worker
    BY <1>0, <2>1, RoleOf
  <2>3. Goto(a, "take") /\ Hold(a, None) /\ UNCHANGED <<todo, rec, phase, queue>>
    BY <1>3 DEF Skip, storeVars, procVars
  <2>4. Placed(a[2], "take", None) /\ Carries("take", None)
    BY <2>2 DEF Placed, Place, Holding, Carries
  <2> QED BY <1>0, <2>1, <2>3, <2>4, NoCommands, ProgramStore
<1>4. CASE Begin(a)
  <2> DEFINE c == [cur[a] EXCEPT !.status = "in_progress"]
             s == UpdateTask(c)
  <2>1. pc[a] = "lock" /\ todo[a] = <<>>
    BY <1>4 DEF Begin, At
  <2>2. a[2] \in Worker /\ cur[a] \in Copy /\ Known(cur[a].id)
    BY <1>0, <2>1, RoleOf DEF Holding
  <2>3. c \in Copy /\ c.id = cur[a].id /\ c.status = "in_progress"
    BY <2>2 DEF Copy, Status
  <2>4. Goto(a, "attempt") /\ Hold(a, c) /\ Issue(a, s)
        /\ UNCHANGED <<rec, phase, queue>>
    BY <1>4 DEF Begin, procVars
  <2> HIDE DEF c
  <2>5. s # <<>> /\ Shape(s) /\ Head(s).op = "update" /\ Head(s).copy = c
    BY <2>3, IssuedLists
  <2> HIDE DEF s
  <2>6. Placed(a[2], "attempt", c) /\ Carries("attempt", c)
    BY <2>2, <2>3, NoneAssumption DEF Placed, Place, Holding, Carries
  <2>7. Author(a[2], "attempt", c, s)
    BY <2>2, <2>5, Roles DEF Author, Section
  <2> QED BY <1>0, <2>2, <2>3, <2>4, <2>5, <2>6, <2>7, UpdateFits, ProgramStore
<1>5. CASE CountAttempt(a)
  <2> DEFINE c == [cur[a] EXCEPT !.attempts = @ + 1]
             s == UpdateTask(c)
  <2>1. pc[a] = "attempt" /\ todo[a] = <<>>
    BY <1>5 DEF CountAttempt, At
  <2>2. a[2] \in Worker /\ cur[a] \in Copy /\ Known(cur[a].id)
        /\ cur[a].status = "in_progress"
    BY <1>0, <2>1, RoleOf, OneStore DEF Holding, Carries
  <2>3. c \in Copy /\ c.id = cur[a].id /\ c.status = "in_progress"
    BY <2>2, CopyType DEF Copy
  <2>4. Goto(a, "send") /\ Hold(a, c) /\ Issue(a, s)
        /\ UNCHANGED <<rec, phase, queue>>
    BY <1>5 DEF CountAttempt, procVars
  <2> HIDE DEF c
  <2>5. s # <<>> /\ Shape(s) /\ Head(s).op = "update" /\ Head(s).copy = c
    BY <2>3, IssuedLists
  <2> HIDE DEF s
  <2>6. Placed(a[2], "send", c) /\ Carries("send", c)
    BY <2>2, <2>3, NoneAssumption DEF Placed, Place, Holding, Carries
  <2>7. Author(a[2], "send", c, s)
    BY <2>2, <2>5, Roles DEF Author, Section
  <2> QED BY <1>0, <2>2, <2>3, <2>4, <2>5, <2>6, <2>7, UpdateFits, ProgramStore
<1>6. CASE Deliver(a)
  <2>1. pc[a] = "send" /\ todo[a] = <<>>
    BY <1>6 DEF Deliver, At
  <2>2. a[2] \in Worker /\ cur[a] \in Copy /\ Known(cur[a].id)
    BY <1>0, <2>1, RoleOf DEF Holding
  <2>3. PICK ok \in BOOLEAN : Hold(a, [cur[a] EXCEPT !.status = Outcome(cur[a], ok)])
    BY <1>6 DEF Deliver
  <2> DEFINE c == [cur[a] EXCEPT !.status = Outcome(cur[a], ok)]
  <2>4. c \in Copy /\ c.id = cur[a].id
    <3>1. Outcome(cur[a], ok) \in Status
      BY <2>2, OutcomeType DEF Status
    <3> QED BY <2>2, <3>1, CopyType
  <2>5. Goto(a, "log") /\ Hold(a, c) /\ UNCHANGED <<todo, rec, phase, queue>>
    BY <1>6, <2>3 DEF Deliver, storeVars, procVars
  <2> HIDE DEF c
  <2>6. Placed(a[2], "log", c) /\ Carries("log", c)
    BY <2>2, <2>4, NoneAssumption DEF Placed, Place, Holding, Carries
  <2> QED BY <1>0, <2>1, <2>2, <2>4, <2>5, <2>6, NoCommands, ProgramStore
<1>7. CASE Settle(a)
  <2> DEFINE retry == cur[a].status = "retry_pending"
             c == [cur[a] EXCEPT !.due = IF retry THEN FALSE ELSE @]
             s == UpdateTask(c) \o
                    (IF retry THEN AddTo("retry_pending", c) ELSE <<>>)
  <2>1. pc[a] = "log" /\ todo[a] = <<>>
    BY <1>7 DEF Settle, At
  <2>2. a[2] \in Worker /\ cur[a] \in Copy /\ Known(cur[a].id)
        /\ cur[a].status \in {"completed", "failed", "retry_pending"}
    BY <1>0, <2>1, RoleOf, TypeParts DEF Holding, HandsFull
  <2>3. c \in Copy /\ c.id = cur[a].id /\ c.status = cur[a].status
    BY <2>2 DEF Copy
  <2>4. Goto(a, "unlock") /\ Hold(a, c) /\ Issue(a, s)
        /\ UNCHANGED <<rec, phase, queue>>
    BY <1>7 DEF Settle, procVars
  <2> HIDE DEF c
  <2>5. s \in {UpdateTask(c), UpdateTask(c) \o AddTo(c.status, c)}
    <3>1. UpdateTask(c) \o <<>> = UpdateTask(c)
      BY <2>3, ListTypes, ConcatType DEF Key, Status
    <3> QED BY <2>3, <3>1
  <2> HIDE DEF s
  <2>6. s # <<>> /\ Shape(s) /\ Head(s).op = "update" /\ Head(s).copy = c
    BY <2>3, <2>5, IssuedLists
  <2>7. Placed(a[2], "unlock", c) /\ Carries("unlock", c)
    BY <2>2, <2>3, NoneAssumption DEF Placed, Place, Holding, Carries
  <2>8. Author(a[2], "unlock", c, s)
    BY <2>2, <2>6, Roles DEF Author, Section
  <2> QED BY <1>0, <2>2, <2>3, <2>4, <2>6, <2>7, <2>8, UpdateFits, ProgramStore
<1>8. CASE Unlock(a)
  <2>1. pc[a] = "unlock" /\ todo[a] = <<>>
    BY <1>8 DEF Unlock, At
  <2>2. a[2] \in Worker \cup Canceller \cup {"dispatcher"}
    BY <1>0, <2>1, RoleOf
  <2>3. Goto(a, Home(a[2])) /\ Hold(a, None)
        /\ UNCHANGED <<todo, rec, phase, queue>>
    BY <1>8 DEF Unlock, procVars
  <2>4. Home(a[2]) \in {"take", "cancel", "poll"} /\ Home(a[2]) \in Place(a[2])
    BY <2>2, Roles DEF Home, Place
  <2>5. Placed(a[2], Home(a[2]), None) /\ Carries(Home(a[2]), None)
    BY <2>4 DEF Placed, Holding, Carries
  <2> QED BY <1>0, <2>1, <2>3, <2>4, <2>5, NoCommands, ProgramStore
<1> QED
  BY <1>1, <1>2, <1>3, <1>4, <1>5, <1>6, <1>7, <1>8 DEF Work

(* The steps of dispatchers.                                               *)
LEMMA DispatchStore ==
    ASSUME TypeInv, StoreInv, NEW a \in Actor, Dispatch(a)
    PROVE  StoreInv'
<1>0. /\ a[1] \in Proc /\ phase[a[1]] = "running"
      /\ Placed(a[2], pc[a], cur[a])
      /\ cur[a] # None <=> pc[a] \in Holding
      /\ pc[a] \in Holding => cur[a] \in Copy /\ cur[a].id \in Task
      /\ pc[a] \in Holding /\ a[2] \in Worker \cup {"dispatcher"} =>
           Known(cur[a].id)
      /\ \A p \in Proc : \A i \in DOMAIN queue[p] : Known(queue[p][i].id)
  BY OneStore
<1>a. \A c : c # None => Placed("dispatcher", "claim", c) /\ Placed("dispatcher", "put", c)
                         /\ Placed("dispatcher", "unlock", c)
  BY Roles DEF Placed, Place, Holding
<1>b. Placed("dispatcher", "poll", None) /\ Carries("poll", None)
  BY Roles DEF Placed, Place, Holding, Carries
<1>1. CASE Poll(a)
  <2>1. pc[a] = "poll" /\ todo[a] = <<>> /\ UNCHANGED <<pc, cur, todo, rec, phase, queue>>
    BY <1>1 DEF Poll, At, storeVars, procVars
  <2>2. a[2] = "dispatcher" /\ cur[a] = None
    BY <1>0, <2>1, RoleOf DEF Holding
  <2> QED BY <1>0, <1>b, <2>1, <2>2, NoCommands, ProgramStore
<1>2. CASE PassOver(a)
  <2>1. /\ pc[a] = "claim" /\ todo[a] = <<>> /\ Goto(a, "poll") /\ Hold(a, None)
        /\ UNCHANGED <<todo, rec, phase, queue>>
    BY <1>2 DEF PassOver, At, storeVars, procVars
  <2>2. a[2] = "dispatcher"
    BY <1>0, <2>1, RoleOf
  <2> QED BY <1>0, <1>b, <2>1, <2>2, NoCommands, ProgramStore
<1>3. CASE Claim(a)
  <2> DEFINE c == [cur[a] EXCEPT !.status = "queued"]
             s == UpdateTask(c) \o RemoveFrom("retry_pending", c)
  <2>1. pc[a] = "claim" /\ todo[a] = <<>>
    BY <1>3 DEF Claim, At
  <2>2. a[2] = "dispatcher" /\ cur[a] \in Copy /\ Known(cur[a].id)
    BY <1>0, <2>1, RoleOf DEF Holding
  <2>3. c \in Copy /\ c.id = cur[a].id /\ c.status = "queued"
    BY <2>2 DEF Copy, Status
  <2>4. Goto(a, "put") /\ Hold(a, c) /\ Issue(a, s)
        /\ UNCHANGED <<rec, phase, queue>>
    BY <1>3 DEF Claim, procVars
  <2> HIDE DEF c
  <2>5. "retry_pending" \in Status \ {c.status}
    BY <2>3 DEF Status
  <2>6. s # <<>> /\ Shape(s) /\ Head(s).op = "update" /\ Head(s).copy = c
    BY <2>3, <2>5, IssuedLists
  <2> HIDE DEF s
  <2>7. Carries("put", c)
    BY <2>3 DEF Carries
  <2>8. Author(a[2], "put", c, s)
    BY <2>2, <2>6, Roles DEF Author, Section
  <2> QED BY <1>0, <1>a, <2>2, <2>3, <2>4, <2>6, <2>7, <2>8, NoneAssumption,
             UpdateFits, ProgramStore
<1>4. CASE Put(a)
  <2>1. /\ pc[a] = "put" /\ todo[a] = <<>> /\ Goto(a, "poll") /\ Hold(a, None)
        /\ UNCHANGED <<todo, rec, phase>>
        /\ queue' = [queue EXCEPT ![a[1]] = Append(queue[a[1]], cur[a])]
    BY <1>4 DEF Put, At, storeVars
  <2>2. a[2] = "dispatcher" /\ cur[a] \in Copy /\ Known(cur[a].id)
    BY <1>0, <2>1, RoleOf DEF Holding
  <2>3. \A p \in Proc : \A i \in DOMAIN queue'[p] : Known(queue'[p][i].id)
    BY <1>0, <2>1, <2>2, TypeParts DEF RestOK
  <2> QED BY <1>b, <2>1, <2>2, <2>3, NoCommands, ProgramStore
<1>5. CASE PutBack(a)
  <2> DEFINE c == [cur[a] EXCEPT !.status = "retry_pending"]
             s == UpdateTask(c) \o AddTo("retry_pending", c)
  <2>1. pc[a] = "put" /\ todo[a] = <<>>
    BY <1>5 DEF PutBack, At
  <2>2. a[2] = "dispatcher" /\ cur[a] \in Copy /\ Known(cur[a].id)
    BY <1>0, <2>1, RoleOf DEF Holding
  <2>3. c \in Copy /\ c.id = cur[a].id /\ c.status = "retry_pending"
    BY <2>2 DEF Copy, Status
  <2>4. Goto(a, "unlock") /\ Hold(a, c) /\ Issue(a, s)
        /\ UNCHANGED <<rec, phase, queue>>
    BY <1>5 DEF PutBack, procVars
  <2> HIDE DEF c
  <2>5. s # <<>> /\ Shape(s) /\ Head(s).op = "update" /\ Head(s).copy = c
    BY <2>3, IssuedLists
  <2> HIDE DEF s
  <2>6. Carries("unlock", c)
    BY <2>3 DEF Carries
  <2>7. Author(a[2], "unlock", c, s)
    BY <2>2, <2>5, Roles DEF Author, Section
  <2> QED BY <1>0, <1>a, <2>2, <2>3, <2>4, <2>5, <2>6, <2>7, NoneAssumption,
             UpdateFits, ProgramStore
<1>6. CASE DispatcherPanic(a)
  BY <1>0, <1>6 DEF DispatcherPanic
<1>7. ASSUME NEW t \in Task, Inspect(a, t) PROVE StoreInv'
  <2>1. pc[a] = "poll" /\ todo[a] = <<>> /\ UNCHANGED <<todo, rec, phase, queue>>
    BY <1>7 DEF Inspect, At, storeVars, procVars
  <2>2. a[2] = "dispatcher" /\ cur[a] = None
    BY <1>0, <2>1, RoleOf DEF Holding
  <2>3. CASE Known(t) /\ rec[t].due
    <3>1. Goto(a, "claim") /\ Hold(a, rec[t])
      BY <1>7, <2>3 DEF Inspect
    <3>2. rec[t] # None /\ rec[t].id = t /\ Known(rec[t].id)
      BY <2>3, OneStore DEF Known
    <3>3. Carries("claim", rec[t])
      BY DEF Carries
    <3> QED BY <1>0, <1>a, <2>1, <2>2, <3>1, <3>2, <3>3, NoCommands, ProgramStore
  <2>4. CASE ~(Known(t) /\ rec[t].due)
    <3>1. UNCHANGED <<pc, cur>>
      BY <1>7, <2>4 DEF Inspect
    <3> QED BY <1>0, <1>b, <2>1, <2>2, <3>1, NoCommands, ProgramStore
  <2> QED BY <2>3, <2>4
<1> QED
  BY <1>1, <1>2, <1>3, <1>4, <1>5, <1>6, <1>7 DEF Dispatch

(* The steps of requests and of callers of CancelTask.                     *)
LEMMA EnqueueStore ==
    ASSUME TypeInv, StoreInv, NEW a \in Actor, Enqueue(a)
    PROVE  StoreInv'
<1>0. /\ a[1] \in Proc /\ phase[a[1]] = "running"
      /\ Placed(a[2], pc[a], cur[a]) /\ Carries(pc[a], cur[a])
      /\ pc[a] \in Holding => cur[a] \in Copy /\ cur[a].id \in Task
      /\ \A p \in Proc : \A i \in DOMAIN queue[p] : Known(queue[p][i].id)
  BY OneStore
<1>1. /\ pc[a] = "offer" /\ todo[a] = <<>> /\ Goto(a, "accept") /\ Hold(a, None)
      /\ UNCHANGED <<rec, phase>>
  BY DEF Enqueue, Offer, OfferFull, OfferPanic, At, storeVars, procVars
<1>2. a[2] \in Handler /\ cur[a] \in Copy
  BY <1>0, <1>1, RoleOf DEF Holding
<1>3. Known(cur[a].id) /\ cur[a] = NewTask(cur[a].id)
  BY <1>0, <1>1 DEF StoreInv, Stored, Carries
<1>4. Placed(a[2], "accept", None) /\ Carries("accept", None)
  BY <1>2, Roles DEF Placed, Place, Holding, Carries
<1>5. a[2] \notin Worker \cup {"dispatcher"}
  BY <1>2, Roles
<1>6. CASE Offer(a)
  <2>1. UNCHANGED todo /\ queue' = [queue EXCEPT ![a[1]] = Append(queue[a[1]], cur[a])]
    BY <1>6 DEF Offer, storeVars
  <2>2. \A p \in Proc : \A i \in DOMAIN queue'[p] : Known(queue'[p][i].id)
    BY <1>0, <1>2, <1>3, <2>1, TypeParts DEF RestOK
  <2> QED BY <1>1, <1>4, <1>5, <2>1, <2>2, NoCommands, ProgramStore
<1>7. CASE OfferFull(a)
  <2> DEFINE c == Reset(cur[a])
             s == UpdateTask(c) \o AddTo("retry_pending", c)
  <2>1. c \in Copy /\ c.id = cur[a].id /\ c.status = "retry_pending"
    BY <1>2, CopyType DEF Copy, Reset
  <2>2. Issue(a, s) /\ UNCHANGED queue
    BY <1>7 DEF OfferFull, procVars
  <2>3. c = Reset(NewTask(c.id))
    BY <1>3, <2>1
  <2> HIDE DEF c
  <2>4. s # <<>> /\ Shape(s) /\ Head(s).op = "update" /\ Head(s).copy = c
    BY <2>1, IssuedLists
  <2> HIDE DEF s
  <2>5. Author(a[2], "accept", None, s)
    BY <1>2, <2>3, <2>4, Roles DEF Author
  <2> QED BY <1>0, <1>1, <1>3, <1>4, <1>5, <2>1, <2>2, <2>4, <2>5, UpdateFits,
             ProgramStore
<1>8. CASE OfferPanic(a)
  BY <1>0, <1>8 DEF OfferPanic
<1> QED BY <1>6, <1>7, <1>8 DEF Enqueue

LEMMA MarkStore ==
    ASSUME TypeInv, StoreInv, NEW a \in Actor, Mark(a)
    PROVE  StoreInv'
<1> DEFINE t == cur[a].id
<1>0. /\ Placed(a[2], pc[a], cur[a])
      /\ pc[a] \in Holding => cur[a] \in Copy /\ cur[a].id \in Task
      /\ \A p \in Proc : \A i \in DOMAIN queue[p] : Known(queue[p][i].id)
      /\ \A u \in Task : Known(u) => rec[u] \in Copy /\ rec[u].id = u
  BY OneStore
<1>1. /\ pc[a] = "mark" /\ todo[a] = <<>> /\ Goto(a, "unlock")
      /\ UNCHANGED <<cur, rec, phase, queue>>
  BY DEF Mark, At, procVars
<1>2. a[2] \in Canceller /\ cur[a] \in Copy /\ t \in Task
  BY <1>0, <1>1, RoleOf DEF Holding
<1>3. a[2] \notin Worker \cup {"dispatcher"} /\ a[2] \notin Handler
  BY <1>2, Roles
<1>4. Placed(a[2], "unlock", cur[a])
  BY <1>2, Roles, NoneAssumption DEF Placed, Place, Holding
<1>5. Carries("unlock", cur[a])
  BY <1>1, OneStore DEF Carries
<1>6. CASE Known(t) /\ rec[t].status \notin Terminal
  <2> DEFINE c == [rec[t] EXCEPT !.status = "cancelled"]
             s == UpdateTask(c) \o RemoveFrom(rec[t].status, c)
                    \o AddTo("cancelled", c)
  <2>1. c \in Copy /\ c.id = t /\ c.status = "cancelled"
    BY <1>0, <1>2, <1>6 DEF Copy, Status
  <2>2. rec[t].status \in Status \ {c.status}
    BY <1>0, <1>2, <1>6, <2>1 DEF Copy, Terminal
  <2>3. Issue(a, s)
    BY <1>6 DEF Mark
  <2> HIDE DEF c
  <2>4. s # <<>> /\ Shape(s) /\ Head(s).op = "update" /\ Head(s).copy = c
    BY <2>1, <2>2, IssuedLists
  <2> HIDE DEF s
  <2>5. Author(a[2], "unlock", cur[a], s)
    BY <1>2, <1>3, <2>1, <2>4, Roles DEF Author
  <2> QED BY <1>0, <1>1, <1>3, <1>4, <1>5, <1>6, <2>1, <2>3, <2>4, <2>5,
             UpdateFits, ProgramStore
<1>7. CASE ~(Known(t) /\ rec[t].status \notin Terminal)
  <2>1. UNCHANGED todo
    BY <1>7 DEF Mark
  <2> QED BY <1>0, <1>1, <1>3, <1>4, <1>5, <2>1, NoCommands, ProgramStore
<1> QED BY <1>6, <1>7

LEMMA RequestStore ==
    ASSUME TypeInv, StoreInv, Unborn, NEW a \in Actor, NEW t \in Task, Request(a, t)
    PROVE  StoreInv'
<1>0. /\ Placed(a[2], pc[a], cur[a])
      /\ \A p \in Proc : \A i \in DOMAIN queue[p] : Known(queue[p][i].id)
  BY OneStore
<1> DEFINE c == NewTask(t)
<1>1. c \in Copy /\ c.id = t /\ c # None /\ c.status = "queued"
  BY NewTaskType, NoneAssumption DEF NewTask
<1>2. c = NewTask(c.id)
  BY <1>1
<1> HIDE DEF c
<1>3. CASE Accept(a, t)
  <2> DEFINE s == SaveTask(c)
  <2>1. /\ pc[a] = "accept" /\ todo[a] = <<>> /\ t \notin accepted
        /\ Goto(a, "offer") /\ Hold(a, c) /\ Issue(a, s)
        /\ UNCHANGED <<rec, phase, queue>>
    BY <1>3 DEF Accept, At, procVars, c
  <2>2. a[2] \in Handler /\ a[2] \notin Worker \cup {"dispatcher"}
    BY <1>0, <2>1, RoleOf, Roles
  <2>3. /\ s # <<>> /\ Shape(s)
        /\ Head(s) = [op |-> "set", key |-> "listed", copy |-> c]
    BY <1>1, IssuedLists
  <2> HIDE DEF s
  <2>4. Head(s).op = "set" /\ Head(s).key = "listed" /\ Head(s).copy = c
    BY <2>3
  <2>5. ~Known(t)
    BY <2>1 DEF Unborn
  <2>6. Fits(s)
    BY <1>1, <2>4, <2>5 DEF Fits
  <2>7. Placed(a[2], "offer", c) /\ Carries("offer", c)
    BY <1>1, <1>2, <2>2, Roles DEF Placed, Place, Holding, Carries
  <2>8. Author(a[2], "offer", c, s)
    BY <2>2, <2>4, Roles DEF Author
  <2> QED BY <1>0, <2>1, <2>2, <2>3, <2>6, <2>7, <2>8, ProgramStore
<1>4. CASE Cancel(a, t)
  <2>1. /\ pc[a] = "cancel" /\ todo[a] = <<>> /\ Goto(a, "mark") /\ Hold(a, c)
        /\ UNCHANGED <<todo, rec, phase, queue>>
    BY <1>4 DEF Cancel, At, procVars, c
  <2>2. a[2] \in Canceller /\ a[2] \notin Worker \cup {"dispatcher"}
    BY <1>0, <2>1, RoleOf, Roles
  <2>3. Placed(a[2], "mark", c) /\ Carries("mark", c)
    BY <1>1, <2>2, Roles DEF Placed, Place, Holding, Carries
  <2> QED BY <1>0, <2>1, <2>2, <2>3, NoCommands, ProgramStore
<1> QED BY <1>3, <1>4 DEF Request

-----------------------------------------------------------------------------
(* A list of commands has one author, who has the task for itself.         *)
LEMMA WritesHead ==
    ASSUME TypeInv, StoreInv, NEW a \in Actor, NEW t
    PROVE  Writes(a, t) <=> todo[a] # <<>> /\ Head(todo[a]).copy.id = t
<1>1. todo[a] \in Seq(Command) /\ Shape(todo[a])
  BY OneStore
<1>2. Writes(a, t) <=> \E x \in Elems(todo[a]) : x.copy.id = t
  BY DEF Writes, Elems
<1>3. CASE todo[a] = <<>>
  BY <1>2, <1>3, ElemsEmpty
<1>4. CASE todo[a] # <<>>
  BY <1>1, <1>2, <1>4, ElemsOf DEF Shape
<1> QED BY <1>3, <1>4

LEMMA WritesInSection ==
    ASSUME TypeInv, StoreInv, NEW a \in Actor, NEW t \in Task,
           Writes(a, t), a[2] \notin Handler
    PROVE  InSection(a, t)
<1>1. todo[a] # <<>> /\ Head(todo[a]).copy.id = t
  BY WritesHead
<1>2. /\ Author(a[2], pc[a], cur[a], todo[a]) /\ a[2] \in Role
      /\ cur[a] # None <=> pc[a] \in Holding
  BY OneStore
<1>3. pc[a] \in Section /\ cur[a].id = t
  BY <1>1, <1>2 DEF Author, Section, Role
<1>4. cur[a] # None
  BY <1>2, <1>3 DEF Section, Holding
<1> QED BY <1>3, <1>4 DEF InSection, Holds

LEMMA OneWriter ==
    ASSUME TypeInv, LockInv, StoreInv, YoungAlone, NEW a \in Actor, NEW b \in Actor,
           NEW t \in Task, Writes(a, t), Writes(b, t)
    PROVE  a = b
<1>1. CASE a[2] \in Handler \/ b[2] \in Handler
  BY <1>1 DEF YoungAlone, Young, Has
<1>2. CASE a[2] \notin Handler /\ b[2] \notin Handler
  BY <1>2, WritesInSection DEF LockInv, MutualExclusion
<1> QED BY <1>1, <1>2

(* What one Redis command of a does.                                       *)
Performs(a) ==
    LET h == Head(todo[a])
        c == h.copy
        r == Tail(todo[a])
    IN  /\ todo[a] # <<>> /\ h \in Command /\ c \in Copy /\ c.id \in Task
        /\ r \in Seq(Command) /\ IndexList(r, c)
        /\ \A b \in Actor \ {a} : todo'[b] = todo[b]
        /\ UNCHANGED <<locked, procVars, goVars, extVars>>
        /\ \/ /\ h.op = "update" /\ Known(c.id)
              /\ todo'[a] = Cmd("set", rec[c.id].status, c) \o r
              /\ UNCHANGED <<rec, members>>
           \/ /\ h.op = "set" /\ h.key \in Status \cup {"listed"}
              /\ h.key = "listed" <=> ~Known(c.id)
              /\ rec' = [rec EXCEPT ![c.id] = c]
              /\ todo'[a] = AfterSet(h.key, c) \o r
              /\ UNCHANGED members
           \/ /\ h.op = "add" /\ Indexes(h) /\ Known(c.id)
              /\ members' = [members EXCEPT ![h.key] = @ \cup {c.id}]
              /\ todo'[a] = r
              /\ UNCHANGED rec
           \/ /\ h.op = "rem" /\ Indexes(h) /\ Known(c.id)
              /\ members' = [members EXCEPT ![h.key] = @ \ {c.id}]
              /\ todo'[a] = r
              /\ UNCHANGED rec

(* What it does when the record is the one the list started from.          *)
Executes(a) ==
    LET h == Head(todo[a])
        c == h.copy
        r == Tail(todo[a])
    IN  /\ todo[a] # <<>> /\ h \in Command /\ c \in Copy /\ c.id \in Task
        /\ r \in Seq(Command) /\ IndexList(r, c)
        /\ \A b \in Actor \ {a} : todo'[b] = todo[b]
        /\ UNCHANGED <<locked, procVars, goVars, extVars>>
        /\ \/ /\ h.op = "update" /\ Known(c.id)
              /\ todo'[a] = Cmd("set", rec[c.id].status, c) \o r
              /\ UNCHANGED <<rec, members>>
           \/ /\ h.op = "set"
              /\ h.key = IF Known(c.id) THEN rec[c.id].status ELSE "listed"
              /\ rec' = [rec EXCEPT ![c.id] = c]
              /\ todo'[a] = AfterSet(h.key, c) \o r
              /\ UNCHANGED members
           \/ /\ h.op = "add" /\ Indexes(h) /\ rec[c.id] = c
              /\ members' = [members EXCEPT ![h.key] = @ \cup {c.id}]
              /\ todo'[a] = r
              /\ UNCHANGED rec
           \/ /\ h.op = "rem" /\ Indexes(h) /\ rec[c.id] = c
              /\ members' = [members EXCEPT ![h.key] = @ \ {c.id}]
              /\ todo'[a] = r
              /\ UNCHANGED rec

LEMMA PerformEffect ==
    ASSUME TypeInv, StoreInv, NEW a \in Actor, Redis(a)
    PROVE  Performs(a)
<1> DEFINE h == Head(todo[a])
           c == h.copy
           r == Tail(todo[a])
<1>1. todo[a] # <<>>
  BY DEF Redis, Exec, ExecUpdate, ExecSet, ExecAdd, ExecRemove, First
<1>2. todo[a] \in Seq(Command) /\ Shape(todo[a]) /\ Fits(todo[a])
      /\ todo \in [Actor -> Seq(Command)]
  BY OneStore, TypeParts
<1>3. h \in Command /\ r \in Seq(Command) /\ c \in Copy /\ c.id \in Task
  BY <1>1, <1>2, ElemsOf DEF Command, Copy
<1>4. IndexList(r, c)
  BY <1>1, <1>2 DEF Shape, IndexList
<1>5. UNCHANGED <<locked, procVars, goVars, extVars>>
  BY DEF Redis, Exec, ExecUpdate, ExecSet, ExecAdd, ExecRemove
<1>6. ASSUME NEW cmds, Continue(a, cmds)
      PROVE  todo'[a] = cmds \o r /\ \A b \in Actor \ {a} : todo'[b] = todo[b]
  BY <1>2, <1>6 DEF Continue
<1>7. <<>> \o r = r
  BY <1>3
<1>8. CASE ExecUpdate(a)
  <2>1. h.op = "update" /\ Known(c.id) /\ StatusOf(c.id) = rec[c.id].status
    BY <1>1, <1>2, <1>8 DEF ExecUpdate, First, Fits, StatusOf
  <2>2. Continue(a, Cmd("set", rec[c.id].status, c)) /\ UNCHANGED <<rec, members>>
    BY <1>8, <2>1 DEF ExecUpdate
  <2>3. /\ todo'[a] = Cmd("set", rec[c.id].status, c) \o r
        /\ \A b \in Actor \ {a} : todo'[b] = todo[b]
    BY <1>6, <2>2
  <2> QED BY <1>1, <1>3, <1>4, <1>5, <2>1, <2>2, <2>3 DEF Performs
<1>9. CASE ExecSet(a)
  <2>1. /\ h.op = "set" /\ h.key \in Status \cup {"listed"}
        /\ h.key = "listed" <=> ~Known(c.id)
    <3>1. Fits(todo[a]) /\ todo[a] # <<>> /\ h.op = "set"
      BY <1>1, <1>2, <1>9 DEF ExecSet, First
    <3> QED BY <3>1 DEF Fits
  <2>2. /\ Continue(a, AfterSet(h.key, c)) /\ UNCHANGED members
        /\ rec' = [rec EXCEPT ![c.id] = c]
    BY <1>9 DEF ExecSet
  <2> QED BY <1>1, <1>3, <1>4, <1>5, <1>6, <2>1, <2>2 DEF Performs
<1>10. CASE ExecAdd(a)
  <2>1. h.op = "add" /\ Indexes(h) /\ Known(c.id)
    BY <1>1, <1>2, <1>10 DEF ExecAdd, First, Fits, Shape
  <2>2. /\ Continue(a, <<>>) /\ UNCHANGED rec
        /\ members' = [members EXCEPT ![h.key] = @ \cup {c.id}]
    BY <1>10 DEF ExecAdd
  <2> QED BY <1>1, <1>3, <1>4, <1>5, <1>6, <1>7, <2>1, <2>2 DEF Performs
<1>11. CASE ExecRemove(a)
  <2>1. h.op = "rem" /\ Indexes(h) /\ Known(c.id)
    BY <1>1, <1>2, <1>11 DEF ExecRemove, First, Fits, Shape
  <2>2. /\ Continue(a, <<>>) /\ UNCHANGED rec
        /\ members' = [members EXCEPT ![h.key] = @ \ {c.id}]
    BY <1>11 DEF ExecRemove
  <2> QED BY <1>1, <1>3, <1>4, <1>5, <1>6, <1>7, <2>1, <2>2 DEF Performs
<1> QED BY <1>8, <1>9, <1>10, <1>11 DEF Redis, Exec

LEMMA ExecEffect ==
    ASSUME TypeInv, StoreInv, Exact, NEW a \in Actor, Redis(a)
    PROVE  Executes(a)
<1>1. Performs(a) /\ Current(todo[a])
  BY PerformEffect DEF Exact
<1> QED BY <1>1 DEF Performs, Executes, Current

LEMMA ExecPerforms ==
    ASSUME TypeInv, NEW a \in Actor, Executes(a)
    PROVE  Performs(a)
<1> DEFINE c == Head(todo[a]).copy
<1>1. c \in Copy /\ c.id \in Task /\ rec \in [Task -> Copy \cup {None}]
  BY TypeParts DEF Executes, RestOK
<1>2. c # None
  BY <1>1, NoneAssumption
<1>3. Known(c.id) => rec[c.id].status \in Status
  BY <1>1 DEF Known, Copy
<1>4. "listed" \notin Status
  BY DEF Status
<1> QED BY <1>1, <1>2, <1>3, <1>4 DEF Executes, Performs, Known

(* The list that remains is in order and about the same copy.              *)
LEMMA PerformList ==
    ASSUME TypeInv, StoreInv, NEW a \in Actor, Performs(a)
    PROVE  LET h == Head(todo[a])
               c == h.copy
               s == todo'[a] IN
           /\ Shape(s)
           /\ s # <<>> => Head(s).copy = c
           /\ s # <<>> => (Head(s).op = "update" => FALSE)
           /\ s # <<>> =>
                (Head(s).op = "set" => Known(c.id) /\ rec' = rec
                                       /\ Head(s).key = rec[c.id].status)
           /\ (s = <<>> \/ Head(s).op \in {"add", "rem"}) =>
                /\ h.op \in {"set", "add", "rem"}
                /\ h.op = "set" => rec'[c.id] = c
                /\ h.op \in {"add", "rem"} => rec' = rec
           /\ rec'[c.id] # None
<1> DEFINE h == Head(todo[a])
           c == h.copy
           r == Tail(todo[a])
           s == todo'[a]
<1>1. /\ c \in Copy /\ c.id \in Task /\ r \in Seq(Command) /\ IndexList(r, c)
      /\ rec \in [Task -> Copy \cup {None}]
  BY TypeParts DEF Performs, RestOK
<1>2. c # None
  BY <1>1, NoneAssumption
<1>3. ASSUME h.op = "update", Known(c.id), UNCHANGED rec,
             s = Cmd("set", rec[c.id].status, c) \o r
      PROVE  /\ Shape(s) /\ s # <<>> /\ Head(s).copy = c /\ Head(s).op = "set"
             /\ Head(s).key = rec[c.id].status /\ rec'[c.id] # None
  <2> DEFINE k == rec[c.id].status
             d == [op |-> "set", key |-> k, copy |-> c]
  <2>1. k \in Key \cup {"unknown"}
    BY <1>1, <1>3 DEF Known, Copy, Key
  <2> HIDE DEF s
  <2>2. Shape(s) /\ s # <<>> /\ Head(s) = d
    <3> HIDE DEF k
    <3>1. LET l == Cmd("set", k, c) \o r IN Shape(l) /\ l # <<>> /\ Head(l) = d
      BY <1>1, <2>1, HeadedShape
    <3>2. s = Cmd("set", k, c) \o r
      BY <1>3 DEF k
    <3> QED BY <3>1, <3>2
  <2>3. d.op = "set" /\ d.key = k /\ d.copy = c
    OBVIOUS
  <2> HIDE DEF d, k
  <2>4. Head(s).copy = c /\ Head(s).op = "set" /\ Head(s).key = k
    BY <2>2, <2>3
  <2> QED BY <1>3, <2>2, <2>4 DEF Known, k
<1>4. ASSUME s \in Seq(Command), IndexList(s, c)
      PROVE  /\ Shape(s)
             /\ s # <<>> => Head(s).copy = c /\ Head(s).op \in {"add", "rem"}
  BY <1>1, <1>4, IndexShape
<1>5. ASSUME h.key \in Status \cup {"listed"},
             rec' = [rec EXCEPT ![c.id] = c], s = AfterSet(h.key, c) \o r
      PROVE  rec'[c.id] = c /\ s \in Seq(Command) /\ IndexList(s, c)
  <2>1. AfterSet(h.key, c) \in Seq(Command) /\ IndexList(AfterSet(h.key, c), c)
    <3>1. c \in Copy /\ h.key \in Status \cup {"listed"}
      BY <1>1, <1>5
    <3> HIDE DEF c, h
    <3> QED BY <3>1, AfterSetList
  <2>2. s \in Seq(Command) /\ IndexList(s, c)
    <3> DEFINE l == AfterSet(h.key, c)
    <3>1. s = l \o r /\ c \in Copy /\ r \in Seq(Command) /\ IndexList(r, c)
      BY <1>1, <1>5
    <3> HIDE DEF s, l, c, h, r
    <3>2. l \in Seq(Command) /\ IndexList(l, c)
      BY <2>1 DEF l
    <3> QED BY <3>1, <3>2, ConcatType, IndexLists
  <2> QED BY <1>1, <1>5, <2>2
<1>6. \/ h.op = "update" /\ Shape(s) /\ s # <<>> /\ Head(s).copy = c
         /\ Head(s).op = "set" /\ Head(s).key = rec[c.id].status
         /\ rec'[c.id] # None /\ Known(c.id) /\ rec' = rec
      \/ /\ h.op \in {"set", "add", "rem"}
         /\ h.op = "set" => rec'[c.id] = c
         /\ h.op \in {"add", "rem"} => rec' = rec
         /\ Shape(s) /\ rec'[c.id] # None
         /\ s # <<>> => Head(s).copy = c /\ Head(s).op \in {"add", "rem"}
  <2>1. CASE h.op = "update"
    BY <1>3, <2>1 DEF Performs
  <2>2. CASE h.op = "set"
    BY <1>2, <1>4, <1>5, <2>2 DEF Performs
  <2>3. CASE h.op \in {"add", "rem"}
    BY <1>1, <1>4, <2>3 DEF Performs, Known
  <2> QED BY <2>1, <2>2, <2>3 DEF Performs
<1> HIDE DEF s, c, h
<1>7. /\ Shape(s)
      /\ s # <<>> => Head(s).copy = c
      /\ s # <<>> => (Head(s).op = "update" => FALSE)
      /\ s # <<>> => (Head(s).op = "set" => Known(c.id) /\ rec' = rec
                                       /\ Head(s).key = rec[c.id].status)
      /\ (s = <<>> \/ Head(s).op \in {"add", "rem"}) =>
           /\ h.op \in {"set", "add", "rem"}
           /\ h.op = "set" => rec'[c.id] = c
           /\ h.op \in {"add", "rem"} => rec' = rec
      /\ rec'[c.id] # None
  BY <1>6
<1> QED BY <1>7 DEF s, c, h

LEMMA ExecList ==
    ASSUME TypeInv, StoreInv, NEW a \in Actor, Executes(a)
    PROVE  LET c == Head(todo[a]).copy
               s == todo'[a] IN
           /\ Shape(s)
           /\ s # <<>> => Head(s).copy = c
           /\ s # <<>> => (Head(s).op = "update" => FALSE)
           /\ s # <<>> =>
                (Head(s).op = "set" => Known(c.id) /\ rec' = rec
                                       /\ Head(s).key = rec[c.id].status)
           /\ s # <<>> => (Head(s).op \in {"add", "rem"} => rec'[c.id] = c)
           /\ rec'[c.id] # None
           /\ s = <<>> => rec'[c.id] = c
<1> DEFINE h == Head(todo[a])
           c == h.copy
           s == todo'[a]
<1>1. /\ Shape(s)
      /\ s # <<>> => Head(s).copy = c
      /\ s # <<>> => (Head(s).op = "update" => FALSE)
      /\ s # <<>> => (Head(s).op = "set" => Known(c.id) /\ rec' = rec
                                       /\ Head(s).key = rec[c.id].status)
      /\ (s = <<>> \/ Head(s).op \in {"add", "rem"}) =>
           /\ h.op \in {"set", "add", "rem"}
           /\ h.op = "set" => rec'[c.id] = c
           /\ h.op \in {"add", "rem"} => rec' = rec
      /\ rec'[c.id] # None
  BY ExecPerforms, PerformList
<1>2. h.op \in {"add", "rem"} => rec[c.id] = c
  BY DEF Executes
<1> HIDE DEF h, c, s
<1>3. /\ s # <<>> => (Head(s).op \in {"add", "rem"} => rec'[c.id] = c)
      /\ s = <<>> => rec'[c.id] = c
  BY <1>1, <1>2
<1> QED BY <1>1, <1>3 DEF h, c, s

(* Records change for the writer's task only, and never disappear.         *)
LEMMA PerformRecords ==
    ASSUME TypeInv, StoreInv, NEW a \in Actor, Performs(a)
    PROVE  /\ \A t \in Task : t # Head(todo[a]).copy.id => rec'[t] = rec[t]
           /\ \A t \in Task : Known(t) => Known(t)'
           /\ \A t \in Task : rec'[t] # rec[t] => rec'[t] = Head(todo[a]).copy
<1>1. rec \in [Task -> Copy \cup {None}]
  BY TypeParts DEF RestOK
<1>2. Head(todo[a]).copy # None
  BY NoneAssumption DEF Performs
<1> QED BY <1>1, <1>2 DEF Performs, Known

LEMMA ExecRecords ==
    ASSUME TypeInv, StoreInv, NEW a \in Actor, Executes(a)
    PROVE  /\ \A t \in Task : t # Head(todo[a]).copy.id => rec'[t] = rec[t]
           /\ \A t \in Task : Known(t) => Known(t)'
           /\ \A t \in Task : rec'[t] # rec[t] => rec'[t] = Head(todo[a]).copy
BY ExecPerforms, PerformRecords

LEMMA PerformStore ==
    ASSUME TypeInv, StoreInv, Founded, NEW a \in Actor, Redis(a)
    PROVE  StoreInv'
<1> DEFINE c == Head(todo[a]).copy
<1>1. Performs(a)
  BY PerformEffect
<1>2. /\ UNCHANGED <<phase, queue, pc, cur>>
      /\ \A b \in Actor \ {a} : todo'[b] = todo[b]
      /\ todo[a] # <<>> /\ c.id \in Task
  BY <1>1 DEF Performs, procVars, goVars
<1>3. Shape(todo'[a]) /\ (todo'[a] # <<>> => Head(todo'[a]).copy = c)
  BY <1>1, PerformList
<1>4. Author(a[2], pc[a], cur[a], todo'[a])
  BY <1>2, <1>3, OneStore DEF Author
<1>5. \A b \in Actor : Local(b)'
  BY <1>2, <1>3, <1>4 DEF StoreInv, Local
<1>6. \A b \in Actor \ {a} : Fits(todo[b])'
  <2> SUFFICES ASSUME NEW b \in Actor \ {a} PROVE Fits(todo[b])'
    OBVIOUS
  <2> DEFINE d == Head(todo[b]).copy.id
  <2>1. CASE todo[b] = <<>>
    BY <1>2, <2>1 DEF Fits
  <2>2. CASE todo[b] # <<>>
    <3>1. todo[b] \in Seq(Command)
      BY OneStore
    <3>2. d \in Task
      BY <2>2, <3>1, ElemsOf DEF Command, Copy
    <3>3. d = c.id => Known(d)
      <4> SUFFICES ASSUME d = c.id PROVE Known(d)
        OBVIOUS
      <4>1. Writes(a, d) /\ Writes(b, d)
        BY <1>2, <2>2, WritesHead
      <4> HIDE DEF d, c
      <4> QED BY <3>2, <4>1 DEF Founded
    <3>4. /\ d # c.id => rec'[d] = rec[d]
          /\ Known(d) => rec'[d] # None
      <4>1. /\ \A t \in Task : t # c.id => rec'[t] = rec[t]
            /\ \A t \in Task : Known(t) => Known(t)'
        BY <1>1, PerformRecords
      <4> HIDE DEF d, c
      <4> QED BY <3>2, <4>1 DEF Known
    <3>5. Fits(todo[b])
      BY OneStore
    <3> HIDE DEF c
    <3> QED BY <1>2, <3>3, <3>4, <3>5 DEF Fits, Known
  <2> QED BY <2>1, <2>2
<1>7. Fits(todo[a])'
  <2> DEFINE s == todo'[a]
  <2>1. /\ s # <<>> => Head(s).copy = c
        /\ s # <<>> => (Head(s).op = "update" => FALSE)
        /\ s # <<>> =>
             (Head(s).op = "set" => Known(c.id) /\ rec' = rec
                                    /\ Head(s).key = rec[c.id].status)
        /\ rec'[c.id] # None
    BY <1>1, PerformList
  <2>2. Known(c.id) => rec[c.id].status \in Status
    BY <1>2, TypeParts DEF Known, RestOK, Copy
  <2>3. "listed" \notin Status
    BY DEF Status
  <2> HIDE DEF c
  <2> QED BY <2>1, <2>2, <2>3 DEF Fits, Known
<1>8. Stored'
  <2>1. \A t \in Task : Known(t) => Known(t)'
    BY <1>1, PerformRecords
  <2>2. ASSUME NEW t \in Task, Known(t)' PROVE rec'[t].id = t
    <3>1. CASE rec'[t] = rec[t]
      BY <2>2, <3>1 DEF StoreInv, Stored, Known
    <3>2. CASE rec'[t] # rec[t]
      BY <1>1, <3>2, PerformRecords
    <3> QED BY <3>1, <3>2
  <2>3. \A b \in Actor : cur[b] # None => cur[b].id \in Task
    BY TypeParts DEF Copy
  <2>4. \A p \in Proc : \A i \in DOMAIN queue[p] : queue[p][i].id \in Task
    <3>1. ASSUME NEW p \in Proc, NEW i \in DOMAIN queue[p]
          PROVE  queue[p][i] \in Copy
      BY TypeParts DEF RestOK
    <3> QED BY <3>1 DEF Copy
  <2>5. ASSUME NEW b \in Actor, pc[b] = "offer", todo'[b] = <<>>
        PROVE  Known(cur[b].id)'
    <3>1. CASE b # a
      <4>1. Known(cur[b].id) /\ cur[b].id \in Task
        BY <1>2, <2>5, <3>1, OneStore DEF StoreInv, Stored, Holding
      <4> QED BY <1>2, <2>1, <4>1 DEF Known
    <3>2. CASE b = a
      <4>1. a[2] \in Handler /\ c = cur[a]
        <5>1. pc[a] = "offer" /\ Placed(a[2], pc[a], cur[a])
              /\ Author(a[2], pc[a], cur[a], todo[a])
          BY <2>5, <3>2, OneStore
        <5>2. a[2] \in Handler
          BY <5>1, RoleOf
        <5> QED BY <1>2, <5>1, <5>2 DEF Author
      <4>2. rec'[c.id] # None
        BY <1>1, PerformList
      <4> QED BY <1>2, <3>2, <4>1, <4>2 DEF Known
    <3> QED BY <3>1, <3>2
  <2> QED BY <1>2, <2>1, <2>2, <2>3, <2>4, <2>5 DEF StoreInv, Stored, Known
<1>9. Running'
  BY <1>2 DEF StoreInv, Running
<1> QED BY <1>5, <1>6, <1>7, <1>8, <1>9, <1>2 DEF StoreInv

(* While every list has one author, its records stay what it expects.      *)
LEMMA ExecExact ==
    ASSUME TypeInv, LockInv, StoreInv, Exact, YoungAlone, NEW a \in Actor, Executes(a)
    PROVE  Exact'
<1> DEFINE c == Head(todo[a]).copy
<1>1. /\ \A b \in Actor \ {a} : todo'[b] = todo[b]
      /\ todo[a] # <<>> /\ c.id \in Task
  BY DEF Executes
<1>2. ASSUME NEW b \in Actor \ {a}, todo[b] # <<>> PROVE Current(todo[b])'
  <2> DEFINE d == Head(todo[b]).copy.id
  <2>1. todo[b] \in Seq(Command)
    BY OneStore
  <2>2. d \in Task
    BY <1>2, <2>1, ElemsOf DEF Command, Copy
  <2>3. d # c.id
    <3> SUFFICES ASSUME d = c.id PROVE FALSE
      OBVIOUS
    <3>1. Writes(a, d) /\ Writes(b, d)
      BY <1>1, <1>2, WritesHead
    <3> QED BY <2>2, <3>1, OneWriter
  <2>4. rec'[d] = rec[d]
    BY <2>2, <2>3, ExecRecords
  <2>5. Current(todo[b])
    BY DEF Exact
  <2> QED BY <1>1, <2>4, <2>5 DEF Current, Known
<1>3. Current(todo[a])'
  <2> DEFINE s == todo'[a]
  <2>1. /\ s # <<>> => Head(s).copy = c
        /\ s # <<>> =>
             (Head(s).op = "set" => Known(c.id) /\ rec' = rec
                                    /\ Head(s).key = rec[c.id].status)
        /\ s # <<>> => (Head(s).op \in {"add", "rem"} => rec'[c.id] = c)
    BY ExecList
  <2> QED BY <2>1 DEF Current, Known
<1>4. \A b \in Actor \ {a} : todo[b] = <<>> => Current(todo[b])'
  BY <1>1 DEF Current
<1> QED BY <1>2, <1>3, <1>4 DEF Exact

(* Clocks: a back-off that elapses changes no record somebody writes.      *)
LEMMA ClockStore ==
    ASSUME PromptSteps, TypeInv, StoreInv, NEW t \in Task, Clock(t)
    PROVE  StoreInv'
<1>1. UNCHANGED <<phase, queue, pc, cur, todo>>
  BY DEF Clock, BackoffElapses, LockExpires, procVars, goVars
<1>2. CASE LockExpires(t)
  <2>1. UNCHANGED rec
    BY <1>2 DEF LockExpires
  <2> QED BY <1>1, <2>1 DEF StoreInv, Running, Local, Fits, Stored, Known
<1>3. CASE BackoffElapses(t)
  <2>1. /\ rec' = [rec EXCEPT ![t].due = TRUE] /\ Known(t)
        /\ \A a \in Actor : ~Writes(a, t)
        /\ rec \in [Task -> Copy \cup {None}]
    BY <1>3, TypeParts DEF BackoffElapses, RestOK
  <2>2. rec[t] \in Copy
    BY <2>1 DEF Known
  <2>3. /\ rec'[t] \in Copy /\ rec'[t].id = rec[t].id
        /\ rec'[t].status = rec[t].status
        /\ \A u \in Task \ {t} : rec'[u] = rec[u]
    BY <2>1, <2>2 DEF Copy
  <2>4. \A u \in Task : Known(u)' <=> Known(u)
    BY <2>1, <2>3, NoneAssumption DEF Known
  <2>5. (\A a \in Actor : Fits(todo[a]))'
    <3> SUFFICES ASSUME NEW a \in Actor, todo[a] # <<>>
                 PROVE  Fits(todo[a])'
      BY <1>1 DEF Fits
    <3>1. todo[a] \in Seq(Command) /\ Fits(todo[a])
      BY OneStore
    <3>2. Head(todo[a]).copy.id \in Task
      BY <3>1, ElemsOf DEF Command, Copy
    <3>3. Head(todo[a]).copy.id # t
      BY <2>1, WritesHead
    <3>4. rec'[Head(todo[a]).copy.id] = rec[Head(todo[a]).copy.id]
      BY <2>3, <3>2, <3>3
    <3> QED BY <1>1, <3>1, <3>4 DEF Fits, Known
  <2>6. \A p \in Proc : \A i \in DOMAIN queue[p] : queue[p][i].id \in Task
    <3>1. ASSUME NEW p \in Proc, NEW i \in DOMAIN queue[p]
          PROVE  queue[p][i] \in Copy
      BY TypeParts DEF RestOK
    <3> QED BY <3>1 DEF Copy
  <2>7. \A a \in Actor : cur[a] # None => cur[a].id \in Task
    BY TypeParts DEF Copy
  <2>8. \A a \in Actor : pc[a] = "offer" => cur[a] # None
    BY OneStore DEF Holding
  <2>9. Stored'
    BY <1>1, <2>3, <2>4, <2>6, <2>7, <2>8 DEF StoreInv, Stored, Known
  <2> QED BY <1>1, <2>5, <2>9 DEF StoreInv, Running, Local
<1> QED BY <1>2, <1>3 DEF Clock

LEMMA ClockExact ==
    ASSUME PromptSteps, TypeInv, StoreInv, Exact, NEW t \in Task, Clock(t)
    PROVE  Exact'
<1>1. UNCHANGED todo
  BY DEF Clock, BackoffElapses, LockExpires
<1>2. \/ UNCHANGED rec
      \/ /\ rec' = [rec EXCEPT ![t].due = TRUE]
         /\ \A a \in Actor : ~Writes(a, t)
  BY DEF Clock, BackoffElapses, LockExpires
<1>3. ASSUME NEW a \in Actor PROVE Current(todo[a])'
  <2>1. CASE todo[a] = <<>>
    BY <1>1, <2>1 DEF Current
  <2>2. CASE todo[a] # <<>>
    <3>1. todo[a] \in Seq(Command) /\ Current(todo[a])
      BY OneStore DEF Exact
    <3>2. Head(todo[a]).copy.id \in Task
      BY <2>2, <3>1, ElemsOf DEF Command, Copy
    <3>3. Writes(a, Head(todo[a]).copy.id)
      BY <2>2, WritesHead
    <3>4. rec'[Head(todo[a]).copy.id] = rec[Head(todo[a]).copy.id]
      BY <1>2, <3>2, <3>3, TypeParts DEF RestOK
    <3> QED BY <1>1, <3>1, <3>4 DEF Current, Known
  <2> QED BY <2>1, <2>2
<1> QED BY <1>3 DEF Exact

-----------------------------------------------------------------------------
(* A young task is alone with its handler.                                 *)

(* What a goroutine other than a handler writes, it also holds.            *)
LEMMA HasValue ==
    ASSUME NEW r \in Role \ Handler, NEW l, NEW c, NEW s \in Seq(Command),
           Placed(r, l, c), Shape(s), Author(r, l, c, s), NEW t,
           (c # None /\ c.id = t) \/ \E i \in DOMAIN s : s[i].copy.id = t
    PROVE  c # None /\ c.id = t
<1>1. CASE c # None /\ c.id = t
  BY <1>1
<1>2. CASE \E i \in DOMAIN s : s[i].copy.id = t
  <2>1. PICK x \in Elems(s) : x.copy.id = t
    BY <1>2 DEF Elems
  <2>2. s # <<>>
    BY <2>1, ElemsEmpty
  <2>3. Head(s).copy.id = t
    BY <2>1, <2>2, ElemsOf DEF Shape
  <2>4. l \in Section /\ c.id = t
    BY <2>2, <2>3 DEF Author, Section, Role
  <2>5. c # None
    BY <2>4 DEF Placed, Section, Holding
  <2> QED BY <2>4, <2>5
<1> QED BY <1>1, <1>2

LEMMA HasNext ==
    ASSUME TypeInv', StoreInv', NEW a \in Actor, a[2] \notin Handler, NEW t,
           Has(a, t)'
    PROVE  cur'[a] # None /\ cur'[a].id = t
<1>1. a[2] \in Role \ Handler
  BY SchedulerAssumption
<1>2. todo'[a] \in Seq(Command)
  BY DEF TypeInv, TypeOK, StoreTypeOK
<1>3. /\ Placed(a[2], pc'[a], cur'[a]) /\ Shape(todo'[a])
      /\ Author(a[2], pc'[a], cur'[a], todo'[a])
  BY DEF StoreInv, Local
<1> DEFINE r == a[2]
           l == pc'[a]
           c == cur'[a]
           s == todo'[a]
<1>4. (c # None /\ c.id = t) \/ \E i \in DOMAIN s : s[i].copy.id = t
  BY DEF Has, Holds, Writes
<1>5. r \in Role \ Handler /\ s \in Seq(Command) /\ Placed(r, l, c) /\ Shape(s)
      /\ Author(r, l, c, s)
  BY <1>1, <1>2, <1>3
<1> HIDE DEF r, l, c, s
<1>6. c # None /\ c.id = t
  BY <1>4, <1>5, HasValue
<1> QED BY <1>6 DEF c

(* The list that remains is about the task the first command was about.    *)
LEMMA PerformHas ==
    ASSUME TypeInv, TypeInv', StoreInv, NEW a \in Actor, Performs(a)
    PROVE  /\ \A b \in Actor, t \in Task : Has(b, t)' => Has(b, t)
           /\ \A b \in Actor, t \in Task : Writes(b, t)' => Writes(b, t)
           /\ Writes(a, Head(todo[a]).copy.id)
           /\ \A x \in Elems(todo'[a]) : x.copy = Head(todo[a]).copy
<1> DEFINE c == Head(todo[a]).copy
           s == todo'[a]
<1>1. Writes(a, c.id)
  BY WritesHead DEF Performs
<1>2. s \in Seq(Command)
  BY DEF TypeInv, TypeOK, StoreTypeOK
<1>3. \A x \in Elems(s) : x.copy = c
  <2>1. Shape(s) /\ (s # <<>> => Head(s).copy = c)
    BY PerformList
  <2>2. CASE s = <<>>
    BY <2>2, ElemsEmpty
  <2>3. CASE s # <<>>
    <3> HIDE DEF s, c
    <3> QED BY <1>2, <2>1, <2>3, ElemsOf DEF Shape
  <2> QED BY <2>2, <2>3
<1>4. \A t \in Task : Writes(a, t)' => Writes(a, t)
  BY <1>1, <1>3 DEF Writes, Elems
<1>5. \A b \in Actor, t \in Task : Writes(b, t)' => Writes(b, t)
  BY <1>4 DEF Performs, Writes
<1>6. \A b \in Actor, t \in Task : Holds(b, t)' <=> Holds(b, t)
  BY DEF Performs, Holds, goVars
<1> QED BY <1>1, <1>3, <1>5, <1>6 DEF Has

LEMMA ExecHas ==
    ASSUME TypeInv, TypeInv', StoreInv, NEW a \in Actor, Executes(a)
    PROVE  /\ \A b \in Actor, t \in Task : Has(b, t)' => Has(b, t)
           /\ \A b \in Actor, t \in Task : Writes(b, t)' => Writes(b, t)
           /\ Writes(a, Head(todo[a]).copy.id)
           /\ \A x \in Elems(todo'[a]) : x.copy = Head(todo[a]).copy
BY ExecPerforms, PerformHas

(* The copy a handler writes.                                              *)
LEMMA YoungCopy ==
    ASSUME TypeInv, StoreInv, NEW a \in Actor, a[2] \in Handler, todo[a] # <<>>
    PROVE  LET c == Head(todo[a]).copy IN
           \/ pc[a] = "offer" /\ c.status = "queued"
           \/ pc[a] = "accept" /\ c.status = "retry_pending" /\ c.due = FALSE
<1> DEFINE c == Head(todo[a]).copy
<1>1. Author(a[2], pc[a], cur[a], todo[a]) /\ Carries(pc[a], cur[a])
  BY OneStore
<1>2. CASE pc[a] = "offer" /\ c = cur[a]
  BY <1>1, <1>2 DEF Carries, NewTask
<1>3. CASE pc[a] = "accept" /\ c = Reset(NewTask(c.id))
  BY <1>3 DEF Reset, NewTask
<1> QED BY <1>1, <1>2, <1>3 DEF Author

(* Sets change for the writer's task only, one at a time.                  *)
LEMMA PerformMembers ==
    ASSUME TypeInv, NEW a \in Actor, Performs(a), NEW k \in Key, NEW t
    PROVE  LET h == Head(todo[a])
               c == h.copy IN
           /\ t \in members'[k] /\ t \notin members[k] =>
                /\ h.op = "add" /\ h.key = k /\ t = c.id
                /\ Indexes(h) /\ Known(c.id) /\ UNCHANGED rec
           /\ t \in members[k] /\ t \notin members'[k] =>
                /\ h.op = "rem" /\ h.key = k /\ t = c.id
                /\ Indexes(h) /\ Known(c.id) /\ UNCHANGED rec
           /\ h.op = "add" /\ h.key = k => c.id \in members'[k]
           /\ h.op = "rem" /\ h.key = k => c.id \notin members'[k]
<1> DEFINE h == Head(todo[a])
           c == h.copy
<1>1. members \in [Key -> SUBSET Task]
  BY TypeParts DEF RestOK
<1>2. \/ UNCHANGED members /\ h.op \in {"update", "set"}
      \/ /\ h.op = "add" /\ Indexes(h) /\ Known(c.id) /\ UNCHANGED rec
         /\ members' = [members EXCEPT ![h.key] = @ \cup {c.id}]
      \/ /\ h.op = "rem" /\ Indexes(h) /\ Known(c.id) /\ UNCHANGED rec
         /\ members' = [members EXCEPT ![h.key] = @ \ {c.id}]
  BY DEF Performs
<1> HIDE DEF h, c
<1>3. CASE UNCHANGED members /\ h.op \in {"update", "set"}
  BY <1>3 DEF h, c
<1>4. CASE /\ h.op = "add" /\ Indexes(h) /\ Known(c.id) /\ UNCHANGED rec
           /\ members' = [members EXCEPT ![h.key] = @ \cup {c.id}]
  <2>1. members'[k] = IF k = h.key THEN members[k] \cup {c.id} ELSE members[k]
    BY <1>1, <1>4
  <2> QED BY <1>4, <2>1 DEF h, c
<1>5. CASE /\ h.op = "rem" /\ Indexes(h) /\ Known(c.id) /\ UNCHANGED rec
           /\ members' = [members EXCEPT ![h.key] = @ \ {c.id}]
  <2>1. members'[k] = IF k = h.key THEN members[k] \ {c.id} ELSE members[k]
    BY <1>1, <1>5
  <2> QED BY <1>5, <2>1 DEF h, c
<1> QED BY <1>2, <1>3, <1>4, <1>5

LEMMA ExecMembers ==
    ASSUME TypeInv, NEW a \in Actor, Executes(a), NEW k \in Key, NEW t
    PROVE  LET h == Head(todo[a])
               c == h.copy IN
           /\ t \in members'[k] /\ t \notin members[k] =>
                /\ h.op = "add" /\ h.key = k /\ t = c.id
                /\ Indexes(h) /\ rec[c.id] = c /\ UNCHANGED rec
           /\ t \in members[k] /\ t \notin members'[k] =>
                /\ h.op = "rem" /\ h.key = k /\ t = c.id
                /\ Indexes(h) /\ rec[c.id] = c /\ UNCHANGED rec
           /\ h.op = "add" /\ h.key = k => c.id \in members'[k]
           /\ h.op = "rem" /\ h.key = k => c.id \notin members'[k]
<1> DEFINE h == Head(todo[a])
           c == h.copy
<1>1. /\ t \in members'[k] /\ t \notin members[k] =>
           h.op = "add" /\ h.key = k /\ t = c.id /\ Indexes(h) /\ UNCHANGED rec
      /\ t \in members[k] /\ t \notin members'[k] =>
           h.op = "rem" /\ h.key = k /\ t = c.id /\ Indexes(h) /\ UNCHANGED rec
      /\ h.op = "add" /\ h.key = k => c.id \in members'[k]
      /\ h.op = "rem" /\ h.key = k => c.id \notin members'[k]
  BY ExecPerforms, PerformMembers
<1>2. h.op \in {"add", "rem"} => rec[c.id] = c
  BY DEF Executes
<1> QED BY <1>1, <1>2

(* A step of the program of a: the commands before it are done, and the    *)
(* store and the other goroutines are as they were.                        *)
Moves(a) ==
    /\ todo[a] = <<>>
    /\ \A b \in Actor \ {a} : /\ pc'[b] = pc[b] /\ cur'[b] = cur[b]
                              /\ todo'[b] = todo[b] /\ batch'[b] = batch[b]
    /\ UNCHANGED <<rec, members, phase>>

(* What a newly takes or puts into a channel is not young.                 *)
TakesOld(a) ==
    /\ UNCHANGED accepted
    /\ batch'[a] \subseteq batch[a] \cup members["retry_pending"]
    /\ a[2] \in Handler => pc'[a] \in {"accept", pc[a]}
    /\ \A t \in Task : Has(a, t)' =>
         \/ Has(a, t)
         \/ a[2] \notin Handler /\ t \in accepted /\ \A b \in Actor : ~Young(b, t)
    /\ \A p \in Proc, t \in Task : Waiting(p, t)' # {} =>
         \/ Waiting(p, t) # {}
         \/ t \in accepted /\ \A b \in Actor : ~Young(b, t)'

(* A step of a that leaves records and sets alone keeps the young ones     *)
(* alone, if what it newly takes or puts into a channel is not young.      *)
LEMMA KeepBirth ==
    ASSUME BirthInv, Indexed, NEW a \in Actor, Moves(a), TakesOld(a)
    PROVE  BirthInv'
<1> USE DEF Moves, TakesOld
<1>1. \A b \in Actor \ {a}, t \in Task : Has(b, t)' <=> Has(b, t)
  BY DEF Has, Holds, Writes
<1>2. \A b \in Actor, t \in Task : Young(b, t)' => Young(b, t)
  BY <1>1 DEF Young
<1>3. YoungAlone'
  <2> SUFFICES ASSUME NEW b \in Actor, NEW t \in Task, Young(b, t)'
               PROVE  /\ t \in accepted'
                      /\ \A d \in Actor \ {b} : ~Has(d, t)'
                      /\ \A p \in Proc : Waiting(p, t)' = {}
    BY DEF YoungAlone
  <2>1. /\ Young(b, t) /\ t \in accepted
        /\ \A d \in Actor \ {b} : ~Has(d, t)
        /\ \A p \in Proc : Waiting(p, t) = {}
    BY <1>2 DEF BirthInv, YoungAlone
  <2> QED BY <1>1, <2>1
<1>4. \A b \in Actor, t \in Task :
        t \in members'["retry_pending"] \cup batch'[b] =>
          t \in members["retry_pending"] \cup batch[b]
  OBVIOUS
<1>5. YoungNotDue'
  <2> SUFFICES ASSUME NEW b \in Actor, NEW d \in Actor, NEW t \in Task, Young(b, t)',
                      t \in members'["retry_pending"] \cup batch'[d]
               PROVE  pc'[b] = "accept" /\ Known(t)' /\ ~rec'[t].due
    BY DEF YoungNotDue
  <2>1. pc[b] = "accept" /\ Known(t) /\ ~rec[t].due /\ Young(b, t)
    BY <1>2, <1>4 DEF BirthInv, YoungNotDue
  <2> QED BY <2>1 DEF Known, Young
<1>6. Unborn'
  <2> SUFFICES ASSUME NEW t \in Task, t \notin accepted'
               PROVE  /\ ~Known(t)'
                      /\ \A b \in Actor : ~Has(b, t)' /\ t \notin batch'[b]
                      /\ \A p \in Proc : Waiting(p, t)' = {}
    BY DEF Unborn
  <2>1. /\ ~Known(t)
        /\ \A b \in Actor : ~Has(b, t) /\ t \notin batch[b]
        /\ \A p \in Proc : Waiting(p, t) = {}
    BY DEF BirthInv, Unborn
  <2>2. t \notin members["retry_pending"]
    BY <2>1 DEF Indexed, Key, Status
  <2> QED BY <1>1, <1>4, <2>1, <2>2 DEF Known
<1> QED BY <1>3, <1>5, <1>6 DEF BirthInv

(* What the steps of the program have in common.                           *)
Program(a) ==
    \/ Work(a) \/ Dispatch(a) \/ Enqueue(a) \/ Mark(a)
    \/ \E t \in Task : Request(a, t)

LEMMA ProgramMoves ==
    ASSUME TypeInv, StoreInv, NEW a \in Actor, Program(a)
    PROVE  Moves(a)
<1> USE TypeParts DEF Goto, Hold, Issue, RestOK, At, storeVars, procVars
<1>0. phase[a[1]] = "running"
  BY OneStore
<1>1. CASE Work(a)
  <2>1. CASE Take(a) \/ Skip(a) \/ Deliver(a) \/ Unlock(a)
    BY <2>1 DEF Take, Skip, Deliver, Unlock, Moves
  <2>2. CASE Begin(a)
    BY <2>2 DEF Begin, Moves
  <2>3. CASE CountAttempt(a)
    BY <2>3 DEF CountAttempt, Moves
  <2>4. CASE Settle(a)
    BY <2>4 DEF Settle, Moves
  <2>5. CASE Finish(a)
    BY <1>0, <2>5 DEF Finish
  <2> QED BY <1>1, <2>1, <2>2, <2>3, <2>4, <2>5 DEF Work
<1>2. CASE Dispatch(a)
  <2>1. CASE Poll(a) \/ PassOver(a) \/ Put(a)
    BY <2>1 DEF Poll, PassOver, Put, Moves
  <2>2. CASE Claim(a)
    BY <2>2 DEF Claim, Moves
  <2>3. CASE PutBack(a)
    BY <2>3 DEF PutBack, Moves
  <2>4. ASSUME NEW t \in Task, Inspect(a, t) PROVE Moves(a)
    BY <2>4 DEF Inspect, Moves
  <2>5. CASE DispatcherPanic(a)
    BY <1>0, <2>5 DEF DispatcherPanic
  <2> QED BY <1>2, <2>1, <2>2, <2>3, <2>4, <2>5 DEF Dispatch
<1>3. CASE Enqueue(a)
  BY <1>0, <1>3 DEF Enqueue, Offer, OfferFull, OfferPanic, Moves
<1>4. CASE Mark(a)
  BY <1>4 DEF Mark, Moves
<1>5. ASSUME NEW t \in Task, Request(a, t) PROVE Moves(a)
  BY <1>5 DEF Request, Accept, Cancel, Moves
<1> QED BY <1>1, <1>2, <1>3, <1>4, <1>5 DEF Program

(* A list that a step issues begins with the read of a record, unless it   *)
(* is that of a new task.                                                  *)
LEMMA ProgramIssues ==
    ASSUME TypeInv, StoreInv, NEW a \in Actor, Program(a),
           ~ \E t \in Task : Accept(a, t)
    PROVE  todo'[a] # <<>> => Head(todo'[a]).op = "update"
<1>0. /\ todo[a] = <<>> /\ phase[a[1]] = "running"
      /\ pc[a] \in Holding => cur[a] \in Copy /\ cur[a].id \in Task
      /\ \A t \in Task : Known(t) => rec[t] \in Copy
  BY ProgramMoves, OneStore DEF Moves
<1>1. \A c \in Copy : \A s \in {UpdateTask(c), UpdateTask(c) \o AddTo(c.status, c)}
              \cup {UpdateTask(c) \o RemoveFrom(k, c) : k \in Status \ {c.status}}
              \cup {UpdateTask(c) \o RemoveFrom(k, c) \o AddTo(c.status, c) :
                      k \in Status \ {c.status}} : Head(s).op = "update"
  BY IssuedLists
<1>2. CASE UNCHANGED todo
  BY <1>0, <1>2
<1>3. CASE Begin(a)
  <2>1. cur[a] \in Copy
    BY <1>0, <1>3 DEF Begin, At, Holding
  <2>2. [cur[a] EXCEPT !.status = "in_progress"] \in Copy
    BY <2>1 DEF Copy, Status
  <2> QED BY <1>1, <1>3, <2>2, TypeParts DEF Begin, Issue
<1>4. CASE CountAttempt(a)
  <2>1. cur[a] \in Copy
    BY <1>0, <1>4 DEF CountAttempt, At, Holding
  <2>2. [cur[a] EXCEPT !.attempts = @ + 1] \in Copy
    BY <2>1 DEF Copy
  <2> QED BY <1>1, <1>4, <2>2, TypeParts DEF CountAttempt, Issue
<1>5. CASE Settle(a)
  <2> DEFINE retry == cur[a].status = "retry_pending"
             c == [cur[a] EXCEPT !.due = IF retry THEN FALSE ELSE @]
             s == UpdateTask(c) \o
                    (IF retry THEN AddTo("retry_pending", c) ELSE <<>>)
  <2>1. cur[a] \in Copy
    BY <1>0, <1>5 DEF Settle, At, Holding
  <2>2. c \in Copy /\ c.status = cur[a].status
    BY <2>1 DEF Copy
  <2>3. todo'[a] = s
    BY <1>5, TypeParts DEF Settle, Issue
  <2> HIDE DEF c
  <2>4. s \in {UpdateTask(c), UpdateTask(c) \o AddTo(c.status, c)}
    <3>1. UpdateTask(c) \o <<>> = UpdateTask(c)
      BY <2>2, ListTypes, ConcatType DEF Key, Status
    <3> QED BY <2>2, <3>1
  <2> HIDE DEF s
  <2> QED BY <1>1, <2>2, <2>3, <2>4
<1>6. CASE Claim(a)
  <2> DEFINE c == [cur[a] EXCEPT !.status = "queued"]
  <2>1. cur[a] \in Copy
    BY <1>0, <1>6 DEF Claim, At, Holding
  <2>2. c \in Copy /\ "retry_pending" \in Status \ {c.status}
    BY <2>1 DEF Copy, Status
  <2>3. todo'[a] = UpdateTask(c) \o RemoveFrom("retry_pending", c)
    BY <1>6, TypeParts DEF Claim, Issue
  <2> HIDE DEF c
  <2> QED BY <1>1, <2>2, <2>3
<1>7. CASE PutBack(a)
  <2> DEFINE c == [cur[a] EXCEPT !.status = "retry_pending"]
  <2>1. cur[a] \in Copy
    BY <1>0, <1>7 DEF PutBack, At, Holding
  <2>2. c \in Copy /\ c.status = "retry_pending"
    BY <2>1 DEF Copy, Status
  <2>3. todo'[a] = UpdateTask(c) \o AddTo(c.status, c)
    BY <1>7, <2>2, TypeParts DEF PutBack, Issue
  <2> HIDE DEF c
  <2> QED BY <1>1, <2>2, <2>3
<1>8. CASE OfferFull(a)
  <2> DEFINE c == Reset(cur[a])
  <2>1. cur[a] \in Copy
    BY <1>0, <1>8 DEF OfferFull, At, Holding
  <2>2. c \in Copy /\ c.status = "retry_pending"
    BY <2>1, CopyType DEF Copy, Reset
  <2>3. todo'[a] = UpdateTask(c) \o AddTo(c.status, c)
    BY <1>8, <2>2, TypeParts DEF OfferFull, Issue
  <2> HIDE DEF c
  <2> QED BY <1>1, <2>2, <2>3
<1>9. CASE Mark(a) /\ ~UNCHANGED todo
  <2> DEFINE t == cur[a].id
             c == [rec[t] EXCEPT !.status = "cancelled"]
  <2>1. /\ cur[a] \in Copy /\ t \in Task /\ Known(t) /\ rec[t].status \notin Terminal
        /\ todo'[a] = UpdateTask(c) \o RemoveFrom(rec[t].status, c) \o AddTo("cancelled", c)
    BY <1>0, <1>9, TypeParts DEF Mark, At, Holding, Issue
  <2>2. c \in Copy /\ c.status = "cancelled" /\ rec[t].status \in Status \ {c.status}
    BY <1>0, <2>1 DEF Copy, Status, Terminal
  <2> DEFINE k == rec[t].status
             s == UpdateTask(c) \o RemoveFrom(k, c) \o AddTo(c.status, c)
  <2>3. k \in Status \ {c.status} /\ todo'[a] = s
    BY <2>1, <2>2
  <2> HIDE DEF c, k
  <2>4. s \in {UpdateTask(c) \o RemoveFrom(j, c) \o AddTo(c.status, c) :
                j \in Status \ {c.status}}
    BY <2>3
  <2> HIDE DEF s
  <2> QED BY <1>1, <2>2, <2>3, <2>4
<1>10. CASE Work(a)
  BY <1>0, <1>2, <1>3, <1>4, <1>5, <1>10
     DEF Work, Take, Finish, Skip, Deliver, Unlock, storeVars
<1>11. CASE Dispatch(a)
  BY <1>0, <1>2, <1>6, <1>7, <1>11
     DEF Dispatch, Poll, PassOver, Put, Inspect, DispatcherPanic, storeVars
<1>12. CASE Enqueue(a)
  BY <1>2, <1>8, <1>12 DEF Enqueue, Offer, OfferPanic, storeVars
<1>13. CASE \E t \in Task : Cancel(a, t)
  BY <1>2, <1>13 DEF Cancel
<1> QED BY <1>2, <1>9, <1>10, <1>11, <1>12, <1>13 DEF Program, Request

LEMMA HandlerSteps ==
    ASSUME TypeInv, StoreInv, NEW a \in Actor, a[2] \in Handler, Program(a),
           ~ \E t \in Task : Accept(a, t)
    PROVE  Enqueue(a)
<1>1. /\ Placed(a[2], pc[a], cur[a])
      /\ \A l \in {"take", "lock", "attempt", "send", "log", "unlock",
                   "poll", "claim", "put", "cancel", "mark"} : pc[a] # l
  BY OneStore, Roles DEF Placed, Place
<1> QED BY <1>1
        DEF Program, Work, Dispatch, Request, Take, Finish, Skip, Begin,
            CountAttempt, Deliver, Settle, Unlock, Poll, PassOver,
            Claim, Put, PutBack, DispatcherPanic, Inspect, Mark, Cancel, At

(* What is in a channel after a send and after a receive.                  *)
LEMMA WaitingAppend ==
    ASSUME TypeInv, NEW q \in Proc, NEW c \in Copy,
           queue' = [queue EXCEPT ![q] = Append(queue[q], c)],
           NEW p \in Proc, NEW t, Waiting(p, t)' # {}
    PROVE  Waiting(p, t) # {} \/ c.id = t
<1>1. queue \in [Proc -> Seq(Copy)]
  BY TypeParts DEF RestOK
<1>2. PICK i \in DOMAIN queue'[p] : queue'[p][i].id = t
  BY DEF Waiting
<1>3. CASE i \in DOMAIN queue[p] /\ queue'[p][i] = queue[p][i]
  BY <1>2, <1>3 DEF Waiting
<1>4. CASE ~(i \in DOMAIN queue[p] /\ queue'[p][i] = queue[p][i])
  <2>1. p = q
    BY <1>1, <1>2, <1>4
  <2>2. queue[p] \in Seq(Copy) /\ queue'[p] = Append(queue[p], c)
    BY <1>1, <2>1
  <2>3. queue'[p][i] = c
    BY <1>2, <1>4, <2>2
  <2> QED BY <1>2, <2>3
<1> QED BY <1>3, <1>4

LEMMA WaitingTail ==
    ASSUME TypeInv, NEW q \in Proc, queue[q] # <<>>,
           queue' = [queue EXCEPT ![q] = Tail(queue[q])],
           NEW p \in Proc, NEW t, Waiting(p, t)' # {}
    PROVE  Waiting(p, t) # {}
<1>1. queue \in [Proc -> Seq(Copy)]
  BY TypeParts DEF RestOK
<1>2. PICK i \in DOMAIN queue'[p] : queue'[p][i].id = t
  BY DEF Waiting
<1>3. CASE p # q
  BY <1>1, <1>2, <1>3 DEF Waiting
<1>4. CASE p = q
  <2>1. queue[p] \in Seq(Copy) /\ queue'[p] = Tail(queue[p]) /\ queue[p] # <<>>
    BY <1>1, <1>4
  <2>2. \A j \in DOMAIN Tail(queue[p]) :
          j + 1 \in DOMAIN queue[p] /\ queue[p][j + 1] = Tail(queue[p])[j]
    BY <2>1
  <2>3. i + 1 \in DOMAIN queue[p] /\ queue[p][i + 1].id = t
    BY <1>2, <2>1, <2>2
  <2> QED BY <2>3 DEF Waiting
<1> QED BY <1>3, <1>4

(* What a takes, it takes from a channel, its batch, or its caller; what   *)
(* it sends on a channel, it holds.                                        *)
TakesKnown(a) ==
    /\ UNCHANGED accepted
    /\ \A t \in Task : Holds(a, t)' =>
         \/ Holds(a, t)
         \/ a[2] \in Canceller /\ t \in accepted
         \/ a[2] \in Worker /\ \E p \in Proc : Waiting(p, t) # {}
         \/ a[2] = "dispatcher" /\ t \in batch[a]
    /\ \A p \in Proc, t \in Task : Waiting(p, t)' # {} =>
         \/ Waiting(p, t) # {}
         \/ Holds(a, t) /\ a[2] \notin Canceller
    /\ batch'[a] \subseteq batch[a] \cup members["retry_pending"]

LEMMA ProgramTakes ==
    ASSUME TypeInv, StoreInv, NEW a \in Actor, Program(a),
           ~ \E t \in Task : Accept(a, t)
    PROVE  TakesKnown(a)
<1>0. /\ a[1] \in Proc /\ phase[a[1]] = "running"
      /\ Placed(a[2], pc[a], cur[a])
      /\ pc[a] \in Holding => cur[a] \in Copy /\ cur[a] # None
      /\ \A t \in Task : Known(t) => rec[t].id = t
  BY OneStore
<1>a. UNCHANGED accepted
  <2> USE DEF extVars
  <2>1. CASE Work(a)
    BY <2>1 DEF Work, Take, Finish, Skip, Begin, CountAttempt, Deliver, Settle, Unlock
  <2>2. CASE Dispatch(a)
    BY <1>0, <2>2 DEF Dispatch, Poll, PassOver, Claim, Put, PutBack, DispatcherPanic,
                      Inspect
  <2>3. CASE Enqueue(a) \/ Mark(a)
    BY <2>3 DEF Enqueue, Offer, OfferFull, OfferPanic, Mark
  <2>4. CASE \E t \in Task : Cancel(a, t)
    BY <2>4 DEF Cancel
  <2> QED BY <2>1, <2>2, <2>3, <2>4 DEF Program, Request
<1>1. ASSUME cur'[a] # None => cur[a] # None /\ cur'[a].id = cur[a].id,
             UNCHANGED queue,
             batch'[a] \subseteq batch[a] \cup members["retry_pending"]
      PROVE  TakesKnown(a)
  BY <1>a, <1>1 DEF TakesKnown, Holds, Waiting
<1>2. CASE Take(a)
  <2> DEFINE c == Head(queue[a[1]])
  <2>1. /\ pc[a] = "take" /\ queue[a[1]] # <<>> /\ queue[a[1]] \in Seq(Copy)
        /\ UNCHANGED batch /\ cur'[a] = c
        /\ queue' = [queue EXCEPT ![a[1]] = Tail(queue[a[1]])]
    BY <1>0, <1>2, TypeParts DEF Take, At, RestOK, Hold
  <2>2. a[2] \in Worker
    BY <1>0, <2>1, RoleOf
  <2>3. Waiting(a[1], c.id) # {}
    <3>1. 1 \in DOMAIN queue[a[1]] /\ queue[a[1]][1] = c
      BY <2>1
    <3> QED BY <3>1 DEF Waiting
  <2>4. \A p \in Proc, t \in Task : Waiting(p, t)' # {} => Waiting(p, t) # {}
    BY <1>0, <2>1, WaitingTail
  <2> HIDE DEF c
  <2> QED BY <1>0, <1>a, <2>1, <2>2, <2>3, <2>4 DEF TakesKnown, Holds
<1>3. CASE Finish(a)
  BY <1>0, <1>3 DEF Finish
<1>4. CASE Skip(a) \/ Unlock(a) \/ PassOver(a)
  <2>1. cur'[a] = None /\ UNCHANGED <<queue, batch>>
    BY <1>4, TypeParts DEF Skip, Unlock, PassOver, Hold, procVars
  <2> QED BY <1>1, <2>1
<1>5. CASE Begin(a) \/ CountAttempt(a) \/ Deliver(a) \/ Settle(a) \/ Claim(a)
           \/ PutBack(a)
  <2>1. /\ pc[a] \in {"lock", "attempt", "send", "log", "claim", "put"}
        /\ UNCHANGED <<batch, queue>>
    BY <1>5 DEF Begin, CountAttempt, Deliver, Settle, Claim, PutBack, At, procVars
  <2>2. cur[a] \in Copy /\ cur[a] # None
    BY <1>0, <2>1 DEF Holding
  <2>3. cur'[a].id = cur[a].id
    BY <1>5, <2>2, TypeParts
       DEF Begin, CountAttempt, Deliver, Settle, Claim, PutBack, Hold, Copy
  <2> QED BY <1>1, <2>1, <2>2, <2>3
<1>6. CASE Poll(a)
  BY <1>1, <1>6, TypeParts DEF Poll, procVars, RestOK
<1>7. CASE DispatcherPanic(a)
  BY <1>0, <1>7 DEF DispatcherPanic
<1>8. CASE Put(a) \/ Offer(a)
  <2>1. /\ pc[a] \in {"put", "offer"} /\ cur'[a] = None /\ UNCHANGED batch
        /\ queue' = [queue EXCEPT ![a[1]] = Append(queue[a[1]], cur[a])]
    BY <1>8, TypeParts DEF Put, Offer, At, Hold
  <2>2. cur[a] \in Copy /\ cur[a] # None
    BY <1>0, <2>1 DEF Holding
  <2>3. a[2] \notin Canceller
    BY <1>0, <2>1, RoleOf, Roles
  <2>4. \A p \in Proc, t \in Task : Waiting(p, t)' # {} =>
          Waiting(p, t) # {} \/ Holds(a, t)
    BY <1>0, <2>1, <2>2, WaitingAppend DEF Holds
  <2> QED BY <1>a, <2>1, <2>3, <2>4 DEF TakesKnown, Holds
<1>9. ASSUME NEW t \in Task, Inspect(a, t) PROVE TakesKnown(a)
  <2>1. /\ UNCHANGED queue /\ t \in batch[a] /\ batch'[a] \subseteq batch[a]
        /\ pc[a] = "poll"
    BY <1>9, TypeParts DEF Inspect, procVars, RestOK, At
  <2>2. CASE Known(t) /\ rec[t].due
    <3>1. cur'[a] = rec[t] /\ rec[t].id = t
      BY <1>0, <1>9, <2>2, TypeParts DEF Inspect, Hold
    <3>2. a[2] = "dispatcher"
      BY <1>0, <2>1, RoleOf
    <3> QED BY <1>a, <2>1, <3>1, <3>2 DEF TakesKnown, Holds, Waiting
  <2>3. CASE ~(Known(t) /\ rec[t].due)
    <3>1. UNCHANGED cur
      BY <1>9, <2>3 DEF Inspect
    <3> QED BY <1>1, <2>1, <3>1
  <2> QED BY <2>2, <2>3
<1>10. CASE OfferFull(a) \/ OfferPanic(a)
  <2>1. cur'[a] = None /\ UNCHANGED <<queue, batch>>
    BY <1>10, TypeParts DEF OfferFull, OfferPanic, Hold, procVars
  <2> QED BY <1>1, <2>1
<1>11. CASE Mark(a)
  <2>1. UNCHANGED <<cur, queue, batch>>
    BY <1>11 DEF Mark, procVars
  <2> QED BY <1>1, <2>1
<1>12. ASSUME NEW t \in Task, Cancel(a, t) PROVE TakesKnown(a)
  <2>1. pc[a] = "cancel" /\ UNCHANGED <<queue, batch>>
    BY <1>12 DEF Cancel, procVars, At
  <2>2. a[2] \in Canceller
    BY <1>0, <2>1, RoleOf
  <2>3. cur'[a].id = t /\ t \in accepted
    BY <1>12, TypeParts, NewTaskType DEF Cancel, Hold
  <2> QED BY <1>a, <2>1, <2>2, <2>3 DEF TakesKnown, Holds, Waiting
<1> QED BY <1>2, <1>3, <1>4, <1>5, <1>6, <1>7, <1>8, <1>9, <1>10, <1>11, <1>12
        DEF Program, Work, Dispatch, Enqueue, Request

LEMMA EnqueueHas ==
    ASSUME TypeInv, StoreInv, NEW a \in Actor, Enqueue(a), NEW t \in Task, Has(a, t)'
    PROVE  Has(a, t) /\ ~Offer(a)
<1>0. /\ phase[a[1]] = "running"
      /\ pc[a] \in Holding => cur[a] \in Copy /\ cur[a] # None
  BY OneStore
<1>1. /\ pc[a] = "offer" /\ todo[a] = <<>> /\ cur'[a] = None
  BY TypeParts DEF Enqueue, Offer, OfferFull, OfferPanic, At, Hold
<1>2. cur[a] \in Copy /\ cur[a] # None
  BY <1>0, <1>1 DEF Holding
<1>3. CASE Offer(a)
  <2>1. UNCHANGED todo
    BY <1>3 DEF Offer, storeVars
  <2> QED BY <1>1, <2>1 DEF Has, Holds, Writes
<1>4. CASE OfferFull(a) /\ ~Offer(a)
  <2> DEFINE c == Reset(cur[a])
             s == UpdateTask(c) \o AddTo("retry_pending", c)
  <2>1. c \in Copy /\ c.id = cur[a].id /\ c.status = "retry_pending"
    BY <1>2, CopyType DEF Copy, Reset
  <2>2. todo'[a] = s
    BY <1>4, TypeParts DEF OfferFull, Issue
  <2> HIDE DEF c
  <2>3. s # <<>> /\ s \in Seq(Command) /\ Shape(s) /\ Head(s).copy = c
    BY <2>1, IssuedLists
  <2> HIDE DEF s
  <2>4. \A x \in Elems(s) : x.copy = c
    BY <2>3, ElemsOf DEF Shape
  <2>5. \A u \in Task : Writes(a, u)' => u = cur[a].id
    BY <2>1, <2>2, <2>4 DEF Writes, Elems
  <2> QED BY <1>1, <1>2, <1>4, <2>5 DEF Has, Holds
<1>5. CASE OfferPanic(a)
  BY <1>0, <1>5 DEF OfferPanic
<1> QED BY <1>3, <1>4, <1>5 DEF Enqueue

LEMMA AcceptHas ==
    ASSUME TypeInv, NEW a \in Actor, NEW t \in Task, Accept(a, t)
    PROVE  /\ cur'[a] = NewTask(t) /\ todo'[a] = SaveTask(NewTask(t))
           /\ \A u : Has(a, u)' => u = t
<1> DEFINE c == NewTask(t)
           s == SaveTask(c)
<1>1. cur'[a] = c /\ todo'[a] = s
  BY TypeParts DEF Accept, Hold, Issue
<1>2. c \in Copy /\ c.id = t
  BY NewTaskType
<1> HIDE DEF c
<1>3. /\ s # <<>> /\ s \in Seq(Command) /\ Shape(s)
      /\ Head(s) = [op |-> "set", key |-> "listed", copy |-> c]
  BY <1>2, IssuedLists
<1> HIDE DEF s
<1>4. Head(s).copy = c
  BY <1>3
<1>5. \A x \in Elems(s) : x.copy = c
  BY <1>3, <1>4, ElemsOf DEF Shape
<1>6. \A u : Has(a, u)' => u = t
  BY <1>1, <1>2, <1>5 DEF Has, Holds, Writes, Elems
<1> QED BY <1>1, <1>6 DEF c, s

(* What waits in a channel or is in the hands of another is not young.     *)
LEMMA NotYoung ==
    ASSUME BirthInv, NEW t \in Task
    PROVE  /\ \A p \in Proc : Waiting(p, t) # {} =>
                t \in accepted /\ \A b \in Actor : ~Young(b, t)
           /\ \A a \in Actor : Has(a, t) /\ a[2] \notin Handler =>
                t \in accepted /\ \A b \in Actor : ~Young(b, t)
           /\ \A a \in Actor : Has(a, t) =>
                t \in accepted /\ \A b \in Actor \ {a} : ~Young(b, t)
           /\ \A d \in Actor : t \in batch[d] /\ rec[t].due =>
                t \in accepted /\ \A b \in Actor : ~Young(b, t)
<1>1. ASSUME NEW p \in Proc, Waiting(p, t) # {}
      PROVE  t \in accepted /\ \A b \in Actor : ~Young(b, t)
  BY <1>1 DEF BirthInv, YoungAlone, Unborn
<1>2. ASSUME NEW a \in Actor, Has(a, t)
      PROVE  t \in accepted /\ \A b \in Actor \ {a} : ~Young(b, t)
  BY <1>2 DEF BirthInv, YoungAlone, Unborn
<1>3. ASSUME NEW d \in Actor, t \in batch[d], rec[t].due
      PROVE  t \in accepted /\ \A b \in Actor : ~Young(b, t)
  BY <1>3 DEF BirthInv, YoungNotDue, Unborn
<1>4. \A a \in Actor : a[2] \notin Handler => ~Young(a, t)
  BY DEF Young
<1> QED BY <1>1, <1>2, <1>3, <1>4

(* The hands of a goroutine that is no handler after a step.               *)
LEMMA TakesOldHands ==
    ASSUME TypeInv, StoreInv, TypeInv', StoreInv', BirthInv,
           NEW a \in Actor, a[2] \notin Handler, UNCHANGED accepted,
           batch'[a] \subseteq batch[a] \cup members["retry_pending"],
           \A t \in Task : cur'[a] # None /\ cur'[a].id = t =>
             \/ Has(a, t)
             \/ t \in accepted /\ \A b \in Actor : ~Young(b, t),
           \A p \in Proc, t \in Task : Waiting(p, t)' # {} =>
             \/ Waiting(p, t) # {}
             \/ t \in accepted /\ \A b \in Actor : ~Young(b, t)'
    PROVE  TakesOld(a)
<1>1. \A t \in Task : Has(a, t)' => cur'[a] # None /\ cur'[a].id = t
  BY HasNext
<1> QED BY <1>1 DEF TakesOld

LEMMA WorkOld ==
    ASSUME TypeInv, StoreInv, TypeInv', StoreInv', BirthInv,
           NEW a \in Actor, Work(a)
    PROVE  TakesOld(a)
<1>0. /\ a[1] \in Proc /\ phase[a[1]] = "running"
      /\ Placed(a[2], pc[a], cur[a])
      /\ pc[a] \in Holding => cur[a] \in Copy /\ cur[a] # None
  BY OneStore
<1>1. CASE Take(a)
  <2> DEFINE c == Head(queue[a[1]])
  <2>1. /\ pc[a] = "take" /\ queue[a[1]] # <<>> /\ queue[a[1]] \in Seq(Copy)
        /\ UNCHANGED <<accepted, batch>> /\ Hold(a, c)
        /\ queue' = [queue EXCEPT ![a[1]] = Tail(queue[a[1]])]
    BY <1>0, <1>1, TypeParts DEF Take, At, RestOK, extVars
  <2>2. a[2] \notin Handler
    BY <1>0, <2>1, RoleOf, Roles
  <2>3. cur'[a] = c
    BY <2>1, TypeParts DEF Hold
  <2>4. Waiting(a[1], c.id) # {}
    <3>1. 1 \in DOMAIN queue[a[1]] /\ queue[a[1]][1] = c
      BY <2>1
    <3> QED BY <3>1 DEF Waiting
  <2>5. \A t \in Task : cur'[a] # None /\ cur'[a].id = t =>
          t \in accepted /\ \A b \in Actor : ~Young(b, t)
    BY <1>0, <2>3, <2>4, NotYoung
  <2>6. \A p \in Proc, t \in Task : Waiting(p, t)' # {} => Waiting(p, t) # {}
    BY <1>0, <2>1, WaitingTail
  <2> HIDE DEF c
  <2> QED BY <2>1, <2>2, <2>5, <2>6, TakesOldHands
<1>2. CASE Finish(a)
  BY <1>0, <1>2 DEF Finish
<1>3. ASSUME pc[a] \in {"lock", "attempt", "send", "log", "unlock"},
             UNCHANGED <<accepted, batch, queue>>,
             cur'[a] # None => cur'[a].id = cur[a].id
      PROVE  TakesOld(a)
  <2>1. a[2] \notin Handler /\ cur[a] # None
    BY <1>0, <1>3, RoleOf, Roles DEF Holding
  <2>2. \A t \in Task : cur'[a] # None /\ cur'[a].id = t => Has(a, t)
    BY <1>3, <2>1 DEF Has, Holds
  <2>3. \A p \in Proc, t \in Task : Waiting(p, t)' # {} => Waiting(p, t) # {}
    BY <1>3 DEF Waiting
  <2> QED BY <1>3, <2>1, <2>2, <2>3, TakesOldHands
<1>4. CASE Skip(a) \/ Unlock(a)
  <2>1. cur'[a] = None
    BY <1>4, TypeParts DEF Skip, Unlock, Hold
  <2> QED BY <1>3, <1>4, <2>1 DEF Skip, Unlock, At, procVars, extVars
<1>5. CASE Begin(a) \/ CountAttempt(a) \/ Deliver(a) \/ Settle(a)
  <2>1. /\ pc[a] \in {"lock", "attempt", "send", "log"}
        /\ UNCHANGED <<accepted, batch, queue>>
    BY <1>5 DEF Begin, CountAttempt, Deliver, Settle, At, procVars, extVars
  <2>2. cur[a] \in Copy
    BY <1>0, <2>1 DEF Holding
  <2>3. cur'[a].id = cur[a].id
    BY <1>5, <2>2, TypeParts DEF Begin, CountAttempt, Deliver, Settle, Hold, Copy
  <2> QED BY <1>3, <2>1, <2>3
<1> QED BY <1>1, <1>2, <1>4, <1>5 DEF Work

LEMMA DispatchOld ==
    ASSUME TypeInv, StoreInv, TypeInv', StoreInv', BirthInv,
           NEW a \in Actor, Dispatch(a)
    PROVE  TakesOld(a)
<1>0. /\ a[1] \in Proc /\ phase[a[1]] = "running"
      /\ Placed(a[2], pc[a], cur[a])
      /\ pc[a] \in Holding => cur[a] \in Copy /\ cur[a] # None
      /\ \A t \in Task : Known(t) => rec[t].id = t
  BY OneStore
<1>1. CASE DispatcherPanic(a)
  BY <1>0, <1>1 DEF DispatcherPanic
<1>2. \/ pc[a] \in {"poll", "claim", "put"} /\ UNCHANGED accepted
      \/ DispatcherPanic(a)
  BY DEF Dispatch, Poll, PassOver, Claim, Put, PutBack, Inspect, At, extVars
<1>3. CASE a[2] \in Handler
  BY <1>0, <1>1, <1>2, <1>3, RoleOf, Roles
<1>4. UNCHANGED queue => \A p \in Proc, t \in Task : Waiting(p, t)' = Waiting(p, t)
  BY DEF Waiting
<1>5. CASE Poll(a)
  <2>1. UNCHANGED <<cur, queue, accepted>>
        /\ batch'[a] \subseteq batch[a] \cup members["retry_pending"]
    BY <1>5, TypeParts DEF Poll, procVars, extVars, RestOK
  <2> QED BY <1>3, <1>4, <2>1, TakesOldHands DEF Has, Holds
<1>6. CASE PassOver(a) \/ Claim(a) \/ PutBack(a)
  <2>1. /\ pc[a] \in {"claim", "put"} /\ UNCHANGED <<accepted, batch, queue>>
    BY <1>6 DEF PassOver, Claim, PutBack, At, procVars, extVars
  <2>2. cur[a] \in Copy /\ cur[a] # None
    BY <1>0, <2>1 DEF Holding
  <2>3. cur'[a] # None => cur'[a].id = cur[a].id
    BY <1>6, <2>2, TypeParts DEF PassOver, Claim, PutBack, Hold, Copy
  <2>4. \A t \in Task : cur'[a] # None /\ cur'[a].id = t => Has(a, t)
    BY <2>2, <2>3 DEF Has, Holds
  <2> QED BY <1>3, <1>4, <2>1, <2>4, TakesOldHands
<1>7. CASE Put(a)
  <2>1. /\ pc[a] = "put" /\ UNCHANGED <<accepted, batch>> /\ Hold(a, None)
        /\ queue' = [queue EXCEPT ![a[1]] = Append(queue[a[1]], cur[a])]
        /\ todo[a] = <<>> /\ UNCHANGED todo
    BY <1>7 DEF Put, At, extVars, storeVars
  <2>2. cur[a] \in Copy /\ cur[a] # None /\ cur'[a] = None
    BY <1>0, <2>1, TypeParts DEF Holding, Hold
  <2>3. Moves(a)
    BY <1>7, ProgramMoves DEF Program, Dispatch
  <2>4. ASSUME NEW p \in Proc, NEW t \in Task, Waiting(p, t)' # {}
        PROVE  Waiting(p, t) # {} \/ (t \in accepted /\ \A b \in Actor : ~Young(b, t)')
    <3>1. CASE Waiting(p, t) # {}
      BY <3>1
    <3>2. CASE cur[a].id = t
      <4>1. Has(a, t)
        BY <2>2, <3>2 DEF Has, Holds
      <4>2. t \in accepted /\ \A b \in Actor \ {a} : ~Young(b, t)
        BY <4>1, NotYoung
      <4>3. \A b \in Actor \ {a} : ~Young(b, t)'
        BY <2>3, <4>2 DEF Moves, Young, Has, Holds, Writes
      <4>4. ~Young(a, t)'
        BY <2>1, <2>2 DEF Young, Has, Holds, Writes
      <4> QED BY <4>2, <4>3, <4>4
    <3> QED BY <1>0, <2>1, <2>2, <2>4, <3>1, <3>2, WaitingAppend
  <2> QED BY <1>3, <2>1, <2>2, <2>4, TakesOldHands
<1>8. ASSUME NEW t \in Task, Inspect(a, t) PROVE TakesOld(a)
  <2>1. /\ UNCHANGED <<accepted, queue>> /\ t \in batch[a]
        /\ batch'[a] \subseteq batch[a]
    BY <1>8, TypeParts DEF Inspect, extVars, procVars, RestOK
  <2>2. CASE Known(t) /\ rec[t].due
    <3>1. cur'[a] = rec[t] /\ rec[t].id = t
      BY <1>0, <1>8, <2>2, TypeParts DEF Inspect, Hold
    <3>2. t \in accepted /\ \A b \in Actor : ~Young(b, t)
      BY <2>1, <2>2, NotYoung
    <3> QED BY <1>3, <1>4, <2>1, <3>1, <3>2, TakesOldHands
  <2>3. CASE ~(Known(t) /\ rec[t].due)
    <3>1. UNCHANGED cur
      BY <1>8, <2>3 DEF Inspect
    <3> QED BY <1>3, <1>4, <2>1, <3>1, TakesOldHands DEF Has, Holds
  <2> QED BY <2>2, <2>3
<1> QED BY <1>1, <1>5, <1>6, <1>7, <1>8 DEF Dispatch

LEMMA EnqueueOld ==
    ASSUME TypeInv, StoreInv, TypeInv', StoreInv', BirthInv,
           NEW a \in Actor, Enqueue(a)
    PROVE  TakesOld(a)
<1>0. /\ a[1] \in Proc /\ phase[a[1]] = "running"
      /\ Placed(a[2], pc[a], cur[a])
      /\ pc[a] \in Holding => cur[a] \in Copy /\ cur[a] # None
  BY OneStore
<1>1. /\ pc[a] = "offer" /\ todo[a] = <<>>
      /\ pc'[a] = "accept" /\ cur'[a] = None
      /\ UNCHANGED <<accepted, batch>>
  BY TypeParts
     DEF Enqueue, Offer, OfferFull, OfferPanic, At, Goto, Hold, extVars
<1>2. a[2] \in Handler /\ cur[a] \in Copy /\ cur[a] # None
  BY <1>0, <1>1, RoleOf DEF Holding
<1>3. Moves(a)
  BY ProgramMoves DEF Program
<1>4. CASE Offer(a)
  <2>1. /\ UNCHANGED todo
        /\ queue' = [queue EXCEPT ![a[1]] = Append(queue[a[1]], cur[a])]
    BY <1>4 DEF Offer, storeVars
  <2>2. \A t \in Task : ~Has(a, t)'
    BY <1>4, EnqueueHas
  <2>3. ASSUME NEW p \in Proc, NEW t \in Task, Waiting(p, t)' # {}
        PROVE  Waiting(p, t) # {} \/ (t \in accepted /\ \A b \in Actor : ~Young(b, t)')
    <3>1. CASE Waiting(p, t) # {}
      BY <3>1
    <3>2. CASE cur[a].id = t
      <4>1. Has(a, t)
        BY <1>2, <3>2 DEF Has, Holds
      <4>2. t \in accepted /\ \A b \in Actor \ {a} : ~Young(b, t)
        BY <4>1, NotYoung
      <4>3. \A b \in Actor \ {a} : ~Young(b, t)'
        BY <1>3, <4>2 DEF Moves, Young, Has, Holds, Writes
      <4>4. ~Young(a, t)'
        BY <2>2 DEF Young
      <4> QED BY <4>2, <4>3, <4>4
    <3> QED BY <1>0, <1>2, <2>1, <2>3, <3>1, <3>2, WaitingAppend
  <2> QED BY <1>1, <2>2, <2>3 DEF TakesOld
<1>5. CASE OfferFull(a)
  <2>1. UNCHANGED queue
    BY <1>5 DEF OfferFull, procVars
  <2>6. \A t \in Task : Has(a, t)' => Has(a, t)
    BY EnqueueHas
  <2>7. \A p \in Proc, t \in Task : Waiting(p, t)' # {} => Waiting(p, t) # {}
    BY <2>1 DEF Waiting
  <2> QED BY <1>1, <2>6, <2>7 DEF TakesOld
<1>6. CASE OfferPanic(a)
  BY <1>0, <1>6 DEF OfferPanic
<1> QED BY <1>4, <1>5, <1>6 DEF Enqueue

LEMMA CancellerOld ==
    ASSUME TypeInv, StoreInv, TypeInv', StoreInv', BirthInv, CancelAfterAnswer',
           NEW a \in Actor, Mark(a) \/ \E t \in Task : Cancel(a, t)
    PROVE  TakesOld(a)
<1>0. /\ Placed(a[2], pc[a], cur[a])
      /\ pc[a] \in Holding => cur[a] \in Copy /\ cur[a] # None
  BY OneStore
<1>1. pc[a] \in {"mark", "cancel"} /\ UNCHANGED <<accepted, queue, batch>>
  BY DEF Mark, Cancel, At, procVars, extVars
<1>2. a[2] \notin Handler
  BY <1>0, <1>1, RoleOf, Roles
<1>3. \A p \in Proc, t \in Task : Waiting(p, t)' # {} => Waiting(p, t) # {}
  BY <1>1 DEF Waiting
<1>4. CASE Mark(a)
  <2>1. UNCHANGED cur
    BY <1>4 DEF Mark
  <2> QED BY <1>1, <1>2, <1>3, <2>1, TakesOldHands DEF Has, Holds
<1>5. ASSUME NEW t \in Task, Cancel(a, t) PROVE TakesOld(a)
  <2>1. cur'[a].id = t /\ cur'[a] # None /\ t \in accepted
    BY <1>5, TypeParts, NewTaskType, NoneAssumption DEF Cancel, Hold
  <2>2. a[2] \in Canceller
    BY <1>0, <1>5, RoleOf DEF Cancel, At
  <2>3. Moves(a)
    BY <1>5, ProgramMoves DEF Program, Request
  <2>4. ASSUME NEW b \in Actor, Young(b, t) PROVE FALSE
    <3>1. b # a /\ Has(b, t)'
      BY <1>2, <2>3, <2>4 DEF Moves, Young, Has, Holds, Writes
    <3> QED BY <2>1, <2>2, <2>4, <3>1 DEF CancelAfterAnswer, Young, Has, Holds, Writes
  <2> QED BY <1>1, <1>2, <1>3, <2>1, <2>4, TakesOldHands
<1> QED BY <1>4, <1>5

(* A request creates a task that nobody knew.                              *)
LEMMA AcceptBirth ==
    ASSUME TypeInv, StoreInv, BirthInv, Indexed, NEW a \in Actor, NEW t \in Task,
           Accept(a, t)
    PROVE  BirthInv'
<1>1. Moves(a)
  BY ProgramMoves DEF Program, Request
<1>2. /\ t \notin accepted /\ accepted' = accepted \cup {t}
      /\ cur'[a] = NewTask(t) /\ todo'[a] = SaveTask(NewTask(t))
      /\ UNCHANGED <<batch, queue>>
  BY TypeParts DEF Accept, Hold, Issue, procVars
<1>3. /\ ~Known(t)
      /\ \A b \in Actor : ~Has(b, t) /\ t \notin batch[b]
      /\ \A p \in Proc : Waiting(p, t) = {}
  BY <1>2 DEF BirthInv, Unborn
<1>4. \A k \in Key : t \notin members[k]
  BY <1>3 DEF Indexed
<1>5. \A u : Has(a, u)' => u = t
  BY AcceptHas
<1>6. \A b \in Actor \ {a}, u \in Task : Has(b, u)' <=> Has(b, u)
  BY <1>1 DEF Moves, Has, Holds, Writes
<1>7. \A p \in Proc, u \in Task : Waiting(p, u)' = Waiting(p, u)
  BY <1>2 DEF Waiting
<1>8. YoungAlone'
  <2> SUFFICES ASSUME NEW b \in Actor, NEW u \in Task, Young(b, u)'
               PROVE  /\ u \in accepted'
                      /\ \A d \in Actor \ {b} : ~Has(d, u)'
                      /\ \A p \in Proc : Waiting(p, u)' = {}
    BY DEF YoungAlone
  <2>1. CASE u = t
    <3>1. b = a
      BY <1>3, <1>6, <2>1 DEF Young
    <3> QED BY <1>2, <1>3, <1>6, <1>7, <2>1, <3>1
  <2>2. CASE u # t
    <3>1. b # a /\ Young(b, u)
      BY <1>5, <1>6, <2>2 DEF Young
    <3> QED BY <1>2, <1>5, <1>6, <1>7, <2>2, <3>1 DEF BirthInv, YoungAlone
  <2> QED BY <2>1, <2>2
<1>9. YoungNotDue'
  <2> SUFFICES ASSUME NEW b \in Actor, NEW d \in Actor, NEW u \in Task, Young(b, u)',
                      u \in members'["retry_pending"] \cup batch'[d]
               PROVE  pc'[b] = "accept" /\ Known(u)' /\ ~rec'[u].due
    BY DEF YoungNotDue
  <2>1. u \in members["retry_pending"] \cup batch[d]
    BY <1>1, <1>2 DEF Moves
  <2>2. u # t
    BY <1>3, <1>4, <2>1 DEF Key, Status
  <2>3. b # a /\ Young(b, u)
    BY <1>5, <1>6, <2>2 DEF Young
  <2>4. pc[b] = "accept" /\ Known(u) /\ ~rec[u].due
    BY <2>1, <2>3 DEF BirthInv, YoungNotDue
  <2> QED BY <1>1, <2>3, <2>4 DEF Moves, Known
<1>10. Unborn'
  BY <1>1, <1>2, <1>5, <1>6, <1>7 DEF BirthInv, Unborn, Moves, Known
<1> QED BY <1>8, <1>9, <1>10 DEF BirthInv

LEMMA ExecBirth ==
    ASSUME TypeInv, TypeInv', StoreInv, BirthInv, NEW a \in Actor, Executes(a)
    PROVE  BirthInv'
<1> DEFINE c == Head(todo[a]).copy
<1>1. UNCHANGED <<accepted, batch, queue, pc>> /\ c.id \in Task
  BY DEF Executes, procVars, goVars, extVars
<1>2. /\ \A b \in Actor, t \in Task : Has(b, t)' => Has(b, t)
      /\ Has(a, c.id)
  BY ExecHas DEF Has
<1>3. \A b \in Actor, t \in Task : Young(b, t)' => Young(b, t)
  BY <1>2 DEF Young
<1>4. \A p \in Proc, t \in Task : Waiting(p, t)' = Waiting(p, t)
  BY <1>1 DEF Waiting
<1>5. YoungAlone'
  BY <1>1, <1>2, <1>3, <1>4 DEF BirthInv, YoungAlone
<1>6. /\ \A t \in Task : t # c.id => rec'[t] = rec[t]
      /\ \A t \in Task : rec'[t] # rec[t] => rec'[t] = c
      /\ \A t \in Task : Known(t) => Known(t)'
  BY ExecRecords
<1>7. YoungNotDue'
  <2> SUFFICES ASSUME NEW b \in Actor, NEW d \in Actor, NEW t \in Task, Young(b, t)',
                      t \in members'["retry_pending"] \cup batch'[d]
               PROVE  pc'[b] = "accept" /\ Known(t)' /\ ~rec'[t].due
    BY DEF YoungNotDue
  <2>1. Young(b, t)
    BY <1>3
  <2>2. CASE t \in members["retry_pending"] \cup batch[d]
    <3>1. pc[b] = "accept" /\ Known(t) /\ ~rec[t].due
      BY <2>1, <2>2 DEF BirthInv, YoungNotDue
    <3>2. CASE rec'[t] = rec[t]
      BY <1>1, <1>6, <3>1, <3>2
    <3>3. CASE rec'[t] # rec[t]
      <4>1. t = c.id /\ rec'[t] = c
        BY <1>6, <3>3
      <4>2. a = b
        BY <1>2, <2>1, <4>1 DEF BirthInv, YoungAlone
      <4>3. c.due = FALSE
        BY <2>1, <3>1, <4>2, YoungCopy DEF Young, Executes
      <4> QED BY <1>1, <1>6, <3>1, <4>1, <4>3
    <3> QED BY <3>2, <3>3
  <2>3. CASE t \notin members["retry_pending"] \cup batch[d]
    <3> DEFINE h == Head(todo[a])
    <3>0. "retry_pending" \in Key
      BY DEF Key, Status
    <3>1. /\ Indexes(h) /\ rec[c.id] = c /\ UNCHANGED rec
          /\ h.op = "add" /\ h.key = "retry_pending" /\ t = c.id
      BY <1>1, <2>3, <3>0, ExecMembers
    <3>2. c.status = "retry_pending"
      BY <3>1 DEF Indexes
    <3>3. a = b
      BY <1>2, <2>1, <3>1 DEF BirthInv, YoungAlone
    <3>4. pc[a] = "accept" /\ c.due = FALSE
      BY <2>1, <3>2, <3>3, YoungCopy DEF Young, Executes
    <3>5. c # None
      BY NoneAssumption DEF Executes
    <3> QED BY <1>1, <3>1, <3>3, <3>4, <3>5 DEF Known
  <2> QED BY <2>2, <2>3
<1>8. Unborn'
  <2> SUFFICES ASSUME NEW t \in Task, t \notin accepted'
               PROVE  /\ ~Known(t)'
                      /\ \A b \in Actor : ~Has(b, t)' /\ t \notin batch'[b]
                      /\ \A p \in Proc : Waiting(p, t)' = {}
    BY DEF Unborn
  <2>1. /\ ~Known(t)
        /\ \A b \in Actor : ~Has(b, t) /\ t \notin batch[b]
        /\ \A p \in Proc : Waiting(p, t) = {}
    BY <1>1 DEF BirthInv, Unborn
  <2>2. t # c.id
    BY <1>2, <2>1
  <2> QED BY <1>1, <1>2, <1>4, <1>6, <2>1, <2>2 DEF Known
<1> QED BY <1>5, <1>7, <1>8 DEF BirthInv

LEMMA ClockBirth ==
    ASSUME PromptSteps, TypeInv, StoreInv, BirthInv, NEW t \in Task, Clock(t)
    PROVE  BirthInv'
<1>1. UNCHANGED <<members, todo, pc, cur, batch, queue, accepted>>
  BY DEF Clock, BackoffElapses, LockExpires, procVars, goVars, extVars
<1>2. \A b \in Actor, u \in Task : Has(b, u)' <=> Has(b, u)
  BY <1>1 DEF Has, Holds, Writes
<1>3. \A p \in Proc, u \in Task : Waiting(p, u)' = Waiting(p, u)
  BY <1>1 DEF Waiting
<1>4. YoungAlone'
  BY <1>1, <1>2, <1>3 DEF BirthInv, YoungAlone, Young
<1>5. \/ UNCHANGED rec
      \/ /\ rec' = [rec EXCEPT ![t].due = TRUE] /\ Known(t)
         /\ \A b \in Actor : ~Writes(b, t)
  BY DEF Clock, BackoffElapses, LockExpires
<1>6. \A u \in Task : u # t => rec'[u] = rec[u]
  BY <1>5, TypeParts DEF RestOK
<1>7. \A u \in Task : Known(u)' => Known(u)
  BY <1>5, <1>6 DEF Known
<1>8. Unborn'
  BY <1>1, <1>2, <1>3, <1>7 DEF BirthInv, Unborn
<1>9. YoungNotDue'
  <2> SUFFICES ASSUME NEW b \in Actor, NEW d \in Actor, NEW u \in Task, Young(b, u)',
                      u \in members'["retry_pending"] \cup batch'[d]
               PROVE  pc'[b] = "accept" /\ Known(u)' /\ ~rec'[u].due
    BY DEF YoungNotDue
  <2>1. Young(b, u) /\ pc[b] = "accept" /\ Known(u) /\ ~rec[u].due
    BY <1>1, <1>2 DEF BirthInv, YoungNotDue, Young
  <2>2. CASE rec'[u] = rec[u]
    BY <1>1, <2>1, <2>2 DEF Known
  <2>3. CASE rec'[u] # rec[u]
    <3>1. ~Writes(b, u)
      BY <1>5, <1>6, <2>3
    <3>2. cur[b] = None
      BY <2>1, OneStore DEF Holding
    <3> QED BY <2>1, <3>1, <3>2 DEF Young, Has, Holds
  <2> QED BY <2>2, <2>3
<1> QED BY <1>4, <1>8, <1>9 DEF BirthInv

-----------------------------------------------------------------------------
(* The index lacks what is pending, and nothing else.                      *)

LEMMA MovesIndexed ==
    ASSUME Indexed, NEW a \in Actor, Moves(a)
    PROVE  Indexed'
<1>1. \A op, k, t : Pending(op, k, t) => Pending(op, k, t)'
  BY ElemsEmpty DEF Pending, Moves
<1> QED BY <1>1 DEF Indexed, Moves, Known

(* A clock changes no status and nobody's place or hands.                  *)
LEMMA ClockStatus ==
    ASSUME TypeInv, NEW t \in Task, Clock(t)
    PROVE  /\ UNCHANGED <<members, todo, pc, cur, batch, queue, phase>>
           /\ \A u \in Task : /\ Known(u)' <=> Known(u)
                              /\ Known(u) => rec'[u].status = rec[u].status
                              /\ StatusOf(u)' = StatusOf(u)
<1>1. UNCHANGED <<members, todo, pc, cur, batch, queue, phase>>
  BY DEF Clock, BackoffElapses, LockExpires, goVars, procVars
<1>2. CASE UNCHANGED rec
  BY <1>1, <1>2 DEF StatusOf, Known
<1>3. CASE rec' = [rec EXCEPT ![t].due = TRUE] /\ Known(t)
  <2>1. rec \in [Task -> Copy \cup {None}] /\ rec[t] \in Copy
    BY <1>3, TypeParts DEF RestOK, Known
  <2>2. rec'[t] \in Copy /\ rec'[t].status = rec[t].status
        /\ \A u \in Task \ {t} : rec'[u] = rec[u]
    BY <1>3, <2>1 DEF Copy
  <2>3. \A u \in Task : /\ Known(u)' <=> Known(u)
                        /\ Known(u) => rec'[u].status = rec[u].status
    BY <1>3, <2>2, NoneAssumption DEF Known
  <2>4. \A u \in Task : StatusOf(u)' = StatusOf(u)
    BY <2>3 DEF StatusOf
  <2> QED BY <1>1, <2>3, <2>4
<1> QED BY <1>2, <1>3 DEF Clock, BackoffElapses, LockExpires

LEMMA ClockIndexed ==
    ASSUME TypeInv, Indexed, NEW t \in Task, Clock(t)
    PROVE  Indexed'
<1>1. /\ UNCHANGED <<members, todo>>
      /\ \A u \in Task : /\ Known(u)' <=> Known(u)
                         /\ Known(u) => rec'[u].status = rec[u].status
  BY ClockStatus
<1>2. \A op, k, u : Pending(op, k, u) => Pending(op, k, u)'
  BY <1>1 DEF Pending
<1> QED BY <1>1, <1>2 DEF Indexed

(* Only the command that is executed is no longer pending; a SET leaves    *)
(* pending what moves the task from the old status to the new one.         *)
LEMMA PerformPending ==
    ASSUME TypeInv, TypeInv', StoreInv, NEW a \in Actor, Performs(a)
    PROVE  LET h == Head(todo[a])
               c == h.copy IN
           /\ \A op \in {"add", "rem"} : \A k, t : Pending(op, k, t) =>
                Pending(op, k, t)' \/ (h.op = op /\ h.key = k /\ t = c.id)
           /\ h.op = "set" /\ h.key # c.status => \A k, t : t = c.id =>
                /\ k = c.status => Pending("add", k, t)'
                /\ k = h.key =>
                     IF k = "listed" THEN Pending("add", k, t)'
                     ELSE Pending("rem", k, t)'
<1> DEFINE h == Head(todo[a])
           c == h.copy
           r == Tail(todo[a])
           s == todo'[a]
<1>1. /\ todo[a] \in Seq(Command) /\ todo[a] # <<>> /\ r \in Seq(Command)
      /\ c \in Copy
  BY OneStore DEF Performs
<1>2. Elems(todo[a]) = {h} \cup Elems(r)
  BY <1>1, ElemsOf
<1>3. CASE h.op = "update"
  <2>1. s = Cmd("set", rec[c.id].status, c) \o r /\ rec[c.id].status \in Key
    <3>1. Known(c.id) /\ rec[c.id] \in Copy
      BY <1>3, TypeParts DEF Performs, Known, RestOK
    <3> QED BY <1>3, <3>1 DEF Performs, Copy, Key
  <2>2. Cmd("set", rec[c.id].status, c) \in Seq(Command)
    BY <1>1, <2>1, CmdType
  <2>3. Elems(r) \subseteq Elems(s)
    <3> DEFINE m == Cmd("set", rec[c.id].status, c)
    <3>1. m \in Seq(Command) /\ s = m \o r
      BY <2>1, <2>2
    <3> HIDE DEF m, r, s
    <3>2. Elems(m \o r) = Elems(m) \cup Elems(r)
      BY <1>1, <3>1, ElemsConcat
    <3> QED BY <3>1, <3>2
  <2> HIDE DEF h, c, r, s
  <2>4. ASSUME NEW op \in {"add", "rem"}, NEW k, NEW t, Pending(op, k, t)
        PROVE  Pending(op, k, t)'
    <3>0. PICK b \in Actor : \E x \in Elems(todo[b]) :
                               x.op = op /\ x.key = k /\ x.copy.id = t
      BY <2>4 DEF Pending
    <3>1. PICK x \in Elems(todo[b]) : x.op = op /\ x.key = k /\ x.copy.id = t
      BY <3>0
    <3>2. CASE b = a
      <4>1. x \in Elems(r)
        BY <1>2, <1>3, <3>1, <3>2
      <4> QED BY <2>3, <3>1, <4>1 DEF Pending, s
    <3>3. CASE b # a
      BY <3>1, <3>3 DEF Pending, Performs
    <3> QED BY <3>2, <3>3
  <2> QED BY <1>3, <2>4 DEF h, c
<1>4. CASE h.op = "set"
  <2> DEFINE m == AfterSet(h.key, c)
  <2>1. /\ s = m \o r
        /\ h.key \in Status \cup {"listed"}
    BY <1>4 DEF Performs
  <2>2. m \in Seq(Command)
    BY <1>1, <2>1, AfterSetList
  <2>3. Elems(s) = Elems(m) \cup Elems(r)
    <3>1. m \in Seq(Command) /\ s = m \o r
      BY <2>1, <2>2
    <3> HIDE DEF m, r, s
    <3>2. Elems(m \o r) = Elems(m) \cup Elems(r)
      BY <1>1, <3>1, ElemsConcat
    <3> QED BY <3>1, <3>2
  <2>4. /\ h.key = "listed" => Elems(m) =
                {[op |-> "add", key |-> "listed", copy |-> c],
                 [op |-> "add", key |-> c.status, copy |-> c]}
        /\ h.key \in Status \ {c.status} => Elems(m) =
                {[op |-> "rem", key |-> h.key, copy |-> c],
                 [op |-> "add", key |-> c.status, copy |-> c]}
    BY <1>1, <2>1, AfterSetList
  <2> HIDE DEF h, c, r, s, m
  <2>5. ASSUME NEW op \in {"add", "rem"}, NEW k, NEW t, Pending(op, k, t)
        PROVE  Pending(op, k, t)'
    <3>0. PICK b \in Actor : \E x \in Elems(todo[b]) :
                               x.op = op /\ x.key = k /\ x.copy.id = t
      BY <2>5 DEF Pending
    <3>1. PICK x \in Elems(todo[b]) : x.op = op /\ x.key = k /\ x.copy.id = t
      BY <3>0
    <3>2. CASE b = a
      <4>1. x \in Elems(r)
        BY <1>2, <1>4, <3>1, <3>2
      <4> QED BY <2>3, <3>1, <4>1 DEF Pending, s
    <3>3. CASE b # a
      BY <3>1, <3>3 DEF Pending, Performs
    <3> QED BY <3>2, <3>3
  <2>6. ASSUME NEW op, NEW k, [op |-> op, key |-> k, copy |-> c] \in Elems(m),
               NEW t, t = c.id
        PROVE  Pending(op, k, t)'
    <3> DEFINE x == [op |-> op, key |-> k, copy |-> c]
    <3>1. x.op = op /\ x.key = k /\ x.copy.id = t /\ x \in Elems(s)
      BY <2>3, <2>6
    <3> HIDE DEF x
    <3> QED BY <3>1 DEF Pending, s
  <2>7. ASSUME h.key # c.status, NEW k, NEW t, t = c.id, k = c.status
        PROVE  Pending("add", k, t)'
    BY <2>1, <2>4, <2>6, <2>7
  <2>8. ASSUME h.key # c.status, NEW k, NEW t, t = c.id, k = h.key
        PROVE  IF k = "listed" THEN Pending("add", k, t)' ELSE Pending("rem", k, t)'
    BY <2>1, <2>4, <2>6, <2>8
  <2> QED BY <1>4, <2>5, <2>7, <2>8 DEF h, c
<1>5. CASE h.op \in {"add", "rem"}
  <2>1. s = r
    BY <1>5 DEF Performs
  <2> HIDE DEF h, r, s
  <2>2. ASSUME NEW op \in {"add", "rem"}, NEW k, NEW t, Pending(op, k, t)
        PROVE  Pending(op, k, t)' \/ (h.op = op /\ h.key = k /\ t = c.id)
    <3>0. PICK b \in Actor : \E x \in Elems(todo[b]) :
                               x.op = op /\ x.key = k /\ x.copy.id = t
      BY <2>2 DEF Pending
    <3>1. PICK x \in Elems(todo[b]) : x.op = op /\ x.key = k /\ x.copy.id = t
      BY <3>0
    <3>2. CASE b = a
      <4>1. x = h \/ x \in Elems(r)
        BY <1>2, <3>1, <3>2
      <4> QED BY <2>1, <3>1, <4>1 DEF Pending, s
    <3>3. CASE b # a
      BY <3>1, <3>3 DEF Pending, Performs
    <3> QED BY <3>2, <3>3
  <2> QED BY <1>5, <2>2 DEF h
<1> QED BY <1>3, <1>4, <1>5 DEF Performs

LEMMA ExecIndexed ==
    ASSUME TypeInv, TypeInv', StoreInv, Indexed, NEW a \in Actor, Executes(a)
    PROVE  Indexed'
<1> DEFINE h == Head(todo[a])
           c == h.copy
<1>1. /\ c \in Copy /\ c.id \in Task /\ c.status \in Status
      /\ "listed" \in Key \ Status /\ Status \subseteq Key
  BY DEF Executes, Copy, Key, Status
<1>2. /\ \A t \in Task : t # c.id => rec'[t] = rec[t]
      /\ \A t \in Task : Known(t) => Known(t)'
  BY ExecRecords
<1>3. \A k \in Key : \A t :
        /\ t \in members'[k] /\ t \notin members[k] =>
             h.op = "add" /\ h.key = k /\ t = c.id /\ Indexes(h)
             /\ rec[c.id] = c /\ UNCHANGED rec
        /\ t \in members[k] /\ t \notin members'[k] =>
             h.op = "rem" /\ h.key = k /\ t = c.id /\ Indexes(h)
             /\ rec[c.id] = c /\ UNCHANGED rec
        /\ h.op = "add" /\ h.key = k => c.id \in members'[k]
        /\ h.op = "rem" /\ h.key = k => c.id \notin members'[k]
  BY ExecMembers
<1>4. /\ \A op \in {"add", "rem"} : \A k, t : Pending(op, k, t) =>
           Pending(op, k, t)' \/ (h.op = op /\ h.key = k /\ t = c.id)
      /\ h.op = "set" /\ h.key # c.status => \A k, t : t = c.id =>
           /\ k = c.status => Pending("add", k, t)'
           /\ k = h.key =>
                IF k = "listed" THEN Pending("add", k, t)'
                ELSE Pending("rem", k, t)'
  BY ExecPerforms, PerformPending
<1>5. rec'[c.id] # rec[c.id] =>
        /\ h.op = "set" /\ rec'[c.id] = c
        /\ h.key = IF Known(c.id) THEN rec[c.id].status ELSE "listed"
  BY TypeParts DEF Executes, RestOK
<1>6. Indexes(h) => \/ h.op = "add" /\ h.key \in {c.status, "listed"}
                    \/ h.op = "rem" /\ h.key \in Status \ {c.status}
  BY DEF Indexes
<1>7. \A t \in Task : Known(t)' /\ ~Known(t) =>
        t = c.id /\ h.op = "set" /\ h.key = "listed" /\ rec'[t] = c
  BY <1>2, <1>5 DEF Known
<1>8. c # None
  BY NoneAssumption, <1>1
<1>9. Known(c.id) /\ h.op = "set" =>
        h.key = rec[c.id].status /\ rec'[c.id] = c
  BY TypeParts DEF Executes, RestOK
<1>10. \A t \in Task : Known(t) => rec[t].status \in Status
  BY TypeParts DEF RestOK, Known, Copy
<1> SUFFICES ASSUME NEW t \in Task
             PROVE
        /\ ~Known(t)' => \A k \in Key : t \notin members'[k]
        /\ Known(t)' =>
             /\ t \in members'["listed"] \/ Pending("add", "listed", t)'
             /\ \A s \in Status :
                  IF s = rec'[t].status
                    THEN t \in members'[s] \/ Pending("add", s, t)'
                    ELSE t \notin members'[s] \/ Pending("rem", s, t)'
  BY DEF Indexed
<1> HIDE DEF h, c
<1>11. ~Known(t)' => \A k \in Key : t \notin members'[k]
  BY <1>2, <1>3, <1>8 DEF Indexed, Known
<1>12. ASSUME Known(t)', ~Known(t)
       PROVE  /\ t \in members'["listed"] \/ Pending("add", "listed", t)'
              /\ \A s \in Status :
                  IF s = rec'[t].status
                    THEN t \in members'[s] \/ Pending("add", s, t)'
                    ELSE t \notin members'[s] \/ Pending("rem", s, t)'
  <2>1. t = c.id /\ h.op = "set" /\ h.key = "listed" /\ rec'[t] = c
    BY <1>7, <1>12
  <2>2. \A k \in Key : t \notin members[k]
    BY <1>12 DEF Indexed
  <2>3. \A k \in Key : t \notin members'[k]
    BY <1>3, <2>1, <2>2
  <2>4. \A k : k \in {"listed", c.status} => Pending("add", k, t)'
    BY <1>1, <1>4, <2>1
  <2>5. t \in members'["listed"] \/ Pending("add", "listed", t)'
    BY <2>4
  <2>6. ASSUME NEW s \in Status
        PROVE  IF s = rec'[t].status
                    THEN t \in members'[s] \/ Pending("add", s, t)'
                    ELSE t \notin members'[s] \/ Pending("rem", s, t)'
    <3>1. t \notin members'[s]
      BY <1>1, <2>3
    <3> QED BY <2>1, <2>4, <3>1
  <2> QED BY <2>5, <2>6
<1>13. ASSUME Known(t)', Known(t)
       PROVE  t \in members'["listed"] \/ Pending("add", "listed", t)'
  <2>1. t \in members["listed"] \/ Pending("add", "listed", t)
    BY <1>13 DEF Indexed
  <2> QED BY <1>1, <1>3, <1>4, <1>6, <2>1
<1>14. ASSUME Known(t)', Known(t), NEW s \in Status
       PROVE  IF s = rec'[t].status
                    THEN t \in members'[s] \/ Pending("add", s, t)'
                    ELSE t \notin members'[s] \/ Pending("rem", s, t)'
  <2>1. IF s = rec[t].status
          THEN t \in members[s] \/ Pending("add", s, t)
          ELSE t \notin members[s] \/ Pending("rem", s, t)
    BY <1>14 DEF Indexed
  <2>2. CASE rec'[t].status = rec[t].status
    <3>1. CASE s = rec[t].status
      <4>1. h.op = "rem" /\ h.key = s /\ t = c.id =>
              ~(Indexes(h) /\ rec[c.id] = c)
        BY <1>6, <3>1
      <4> QED BY <1>1, <1>3, <1>4, <2>1, <2>2, <3>1, <4>1
    <3>2. CASE s # rec[t].status
      <4>1. h.op = "add" /\ h.key = s /\ t = c.id =>
              ~(Indexes(h) /\ rec[c.id] = c)
        BY <1>1, <1>6, <3>2
      <4> QED BY <1>1, <1>3, <1>4, <2>1, <2>2, <3>2, <4>1
    <3> QED BY <3>1, <3>2
  <2>3. CASE rec'[t].status # rec[t].status
    <3>1. t = c.id /\ h.op = "set" /\ rec'[t] = c
      BY <1>2, <1>5, <2>3
    <3>2. h.key = rec[t].status /\ h.key # c.status /\ h.key \in Status
      BY <1>9, <1>10, <1>14, <2>3, <3>1
    <3>3. t \in members'[s] <=> t \in members[s]
      BY <1>1, <1>3, <3>1
    <3>4. CASE s = c.status
      BY <1>4, <3>1, <3>2, <3>4
    <3>5. CASE s = h.key
      BY <1>1, <1>4, <3>1, <3>2, <3>5
    <3>6. CASE s # c.status /\ s # h.key
      BY <1>4, <2>1, <3>1, <3>2, <3>3, <3>6
    <3> QED BY <3>4, <3>5, <3>6
  <2> QED BY <2>2, <2>3
<1> QED BY <1>11, <1>12, <1>13, <1>14

-----------------------------------------------------------------------------
(* A record in progress is being worked on.                                *)

(* A worker that has begun keeps its task until the outcome is issued.     *)
LEMMA ProgramWorks ==
    ASSUME TypeInv, StoreInv, NEW a \in Actor, Program(a),
           pc[a] \in {"attempt", "send", "log"}
    PROVE  /\ cur'[a] # None /\ cur'[a].id = cur[a].id
           /\ \/ pc'[a] \in {"attempt", "send", "log"}
              \/ pc'[a] = "unlock" /\ Unwritten(a)'
<1>1. cur[a] \in Copy /\ cur[a] # None
  BY OneStore DEF Holding
<1>2. CountAttempt(a) \/ Deliver(a) \/ Settle(a)
  BY DEF Program, Work, Dispatch, Enqueue, Request, Take, Finish, Skip, Begin,
         Unlock, Poll, PassOver, Claim, Put, PutBack, DispatcherPanic, Inspect,
         Offer, OfferFull, OfferPanic, Mark, Accept, Cancel, At
<1>3. CASE CountAttempt(a) \/ Deliver(a)
  <2>1. pc'[a] \in {"send", "log"} /\ cur'[a] \in Copy /\ cur'[a].id = cur[a].id
    <3>1. CASE CountAttempt(a)
      BY <1>1, <3>1, TypeParts DEF CountAttempt, Goto, Hold, Copy
    <3>2. CASE Deliver(a)
      <4>1. PICK ok \in BOOLEAN : Hold(a, [cur[a] EXCEPT !.status = Outcome(cur[a], ok)])
        BY <3>2 DEF Deliver
      <4>2. Outcome(cur[a], ok) \in Status
        BY <1>1, OutcomeType DEF Status
      <4> QED BY <1>1, <3>2, <4>1, <4>2, TypeParts DEF Deliver, Goto, Hold, Copy
    <3> QED BY <1>3, <3>1, <3>2
  <2> QED BY <2>1, NoneAssumption
<1>4. CASE Settle(a)
  <2> DEFINE retry == cur[a].status = "retry_pending"
             c == [cur[a] EXCEPT !.due = IF retry THEN FALSE ELSE @]
             s == UpdateTask(c) \o
                    (IF retry THEN AddTo("retry_pending", c) ELSE <<>>)
  <2>1. c \in Copy /\ c.id = cur[a].id /\ c.status = cur[a].status
    BY <1>1 DEF Copy
  <2>2. pc'[a] = "unlock" /\ cur'[a] = c /\ todo'[a] = s
    BY <1>4, TypeParts DEF Settle, Goto, Hold, Issue
  <2> HIDE DEF c
  <2>3. s \in {UpdateTask(c), UpdateTask(c) \o AddTo(c.status, c)}
    <3>1. UpdateTask(c) \o <<>> = UpdateTask(c)
      BY <2>1, ListTypes, ConcatType DEF Key, Status
    <3> QED BY <2>1, <3>1
  <2> HIDE DEF s
  <2>4. s # <<>> /\ Head(s).op = "update"
    BY <2>1, <2>3, IssuedLists
  <2>5. Unwritten(a)'
    BY <2>2, <2>4 DEF Unwritten
  <2> QED BY <2>1, <2>2, <2>5, NoneAssumption
<1> QED BY <1>2, <1>3, <1>4

LEMMA ProgramWorked ==
    ASSUME TypeInv, StoreInv, Worked, NEW a \in Actor, Program(a)
    PROVE  Worked'
<1>1. Moves(a)
  BY ProgramMoves
<1> SUFFICES ASSUME NEW t \in Task, StatusOf(t)' = "in_progress"
             PROVE  \E b \in Actor : WorksOn(b, t)'
  BY DEF Worked
<1>2. PICK b \in Actor : WorksOn(b, t)
  BY <1>1 DEF Worked, Moves, StatusOf, Known
<1>3. CASE b # a
  <2>1. WorksOn(b, t)'
    BY <1>1, <1>2, <1>3 DEF WorksOn, Moves, Holds, Unwritten
  <2> QED BY <2>1
<1>4. CASE b = a
  <2>1. pc[a] \in {"attempt", "send", "log"} /\ cur[a].id = t
    BY <1>1, <1>2, <1>4 DEF WorksOn, Moves, Holds, Unwritten
  <2>2. WorksOn(a, t)'
    BY <2>1, ProgramWorks DEF WorksOn, Holds
  <2> QED BY <2>2
<1> QED BY <1>3, <1>4

LEMMA PerformWorked ==
    ASSUME TypeInv, StoreInv, Worked, NEW a \in Actor, Performs(a)
    PROVE  Worked'
<1> DEFINE h == Head(todo[a])
           c == h.copy
<1>0. /\ \A b \in Actor \ {a} : todo'[b] = todo[b]
      /\ UNCHANGED <<pc, cur>>
      /\ todo[a] # <<>> /\ a[2] \in Role
      /\ Author(a[2], pc[a], cur[a], todo[a]) /\ Carries(pc[a], cur[a])
      /\ Placed(a[2], pc[a], cur[a])
  BY OneStore DEF Performs, goVars
<1>1. /\ \A t \in Task : t # c.id => rec'[t] = rec[t]
      /\ \A t \in Task : rec'[t] # rec[t] => rec'[t] = c
  BY PerformRecords
<1> SUFFICES ASSUME NEW t \in Task, StatusOf(t)' = "in_progress"
             PROVE  \E b \in Actor : WorksOn(b, t)'
  BY DEF Worked
<1>2. rec'[t].status = "in_progress"
  BY DEF StatusOf, Known
<1>3. CASE rec'[t] # rec[t]
  <2>1. t = c.id /\ c.status = "in_progress"
    BY <1>1, <1>2, <1>3
  <2>2. a[2] \notin Handler /\ a[2] \notin Canceller
    BY <1>0, <2>1, YoungCopy DEF Author
  <2>3. c = cur[a] /\ pc[a] \in Section
    BY <1>0, <2>2 DEF Author, Role
  <2>4. pc[a] \in {"attempt", "send", "log"} /\ cur[a] # None
    BY <1>0, <2>1, <2>3 DEF Carries, Section, Placed, Holding
  <2>5. WorksOn(a, t)'
    BY <1>0, <2>1, <2>3, <2>4 DEF WorksOn, Holds
  <2> QED BY <2>5
<1>4. CASE rec'[t] = rec[t]
  <2>1. PICK b \in Actor : WorksOn(b, t)
    BY <1>4 DEF Worked, StatusOf, Known
  <2>2. CASE b # a \/ pc[b] # "unlock"
    <3>1. WorksOn(b, t)'
      BY <1>0, <2>1, <2>2 DEF WorksOn, Holds, Unwritten
    <3> QED BY <3>1
  <2>3. CASE b = a /\ pc[b] = "unlock"
    <3>1. cur[a].id = t /\ h.op \in {"update", "set"}
      BY <2>1, <2>3 DEF WorksOn, Holds, Unwritten
    <3>2. a[2] \in Worker \cup Canceller \cup {"dispatcher"}
      BY <1>0, <2>3, RoleOf
    <3>3. c.id = t /\ c.status # "in_progress"
      BY <1>0, <2>3, <3>1, <3>2 DEF Author, Carries
    <3>4. CASE h.op = "set"
      <4>1. rec'[t] = c
        BY <3>3, <3>4, TypeParts DEF Performs, RestOK
      <4> QED BY <1>2, <3>3, <4>1
    <3>5. CASE h.op = "update"
      <4>1. todo'[a] = Cmd("set", rec[c.id].status, c) \o Tail(todo[a])
            /\ c \in Copy /\ Tail(todo[a]) \in Seq(Command) /\ Known(c.id)
            /\ IndexList(Tail(todo[a]), c)
        BY <3>5 DEF Performs
      <4> DEFINE k == rec[c.id].status
                 r == Tail(todo[a])
      <4>2. k \in Key \cup {"unknown"}
        BY <3>3, <4>1, TypeParts DEF RestOK, Known, Copy, Key
      <4> HIDE DEF c, k, r
      <4>3. LET l == Cmd("set", k, c) \o r IN
              l # <<>> /\ Head(l) = [op |-> "set", key |-> k, copy |-> c]
        BY <4>1, <4>2, HeadedShape DEF r
      <4>4. todo'[a] # <<>> /\ Head(todo'[a]) = [op |-> "set", key |-> k, copy |-> c]
        BY <4>1, <4>3 DEF k, r
      <4>5. Unwritten(a)'
        BY <4>4 DEF Unwritten
      <4>6. WorksOn(a, t)'
        BY <1>0, <2>1, <2>3, <4>5 DEF WorksOn, Holds
      <4> QED BY <4>6
    <3> QED BY <3>1, <3>4, <3>5
  <2> QED BY <2>2, <2>3
<1> QED BY <1>3, <1>4

LEMMA ClockWorked ==
    ASSUME TypeInv, Worked, NEW t \in Task, Clock(t)
    PROVE  Worked'
BY ClockStatus DEF Worked, WorksOn, Holds, Unwritten

-----------------------------------------------------------------------------
(* The invariant.                                                          *)

LEMMA BasicInit == FaultFree /\ Init => BasicInv
<1> SUFFICES ASSUME FaultFree, Init PROVE BasicInv
  OBVIOUS
<1>1. /\ \A a \in Actor : a[1] \in Proc /\ a[2] \in Role /\ a[1] \in Steady
      /\ Steady = Proc
  BY SchedulerAssumption DEF FaultFree
<1>2. \A a \in Actor : todo[a] = <<>> /\ cur[a] = None /\ batch[a] = {}
  BY DEF Init, StoreInit
<1>3. \A t \in Task : ~Known(t) /\ \A k \in Key : t \notin members[k]
  BY DEF Init, StoreInit, Known
<1>4. \A a \in Actor : pc[a] = IF a[2] = "recoverer" THEN "exit" ELSE Home(a[2])
  BY <1>1 DEF Init
<1>5. \A p \in Proc : queue[p] = <<>> /\ phase[p] = "running"
  BY <1>1 DEF Init
<1>6. \A a \in Actor : pc[a] \in Place(a[2]) \ Holding
  <2> TAKE a \in Actor
  <2>1. a[2] \in Role /\ pc[a] = IF a[2] = "recoverer" THEN "exit" ELSE Home(a[2])
    BY <1>1, <1>4
  <2> QED BY <2>1, Roles DEF Place, Home, Role, Holding
<1>7. \A a \in Actor : Local(a) /\ Fits(todo[a])
  <2> TAKE a \in Actor
  <2>1. pc[a] \in Place(a[2]) \ Holding /\ cur[a] = None /\ todo[a] = <<>>
    BY <1>2, <1>6
  <2>2. Carries(pc[a], cur[a]) /\ Placed(a[2], pc[a], cur[a])
    BY <2>1 DEF Carries, Placed, Holding
  <2> QED BY <2>1, <2>2, NoCommands DEF Local
<1>8. Stored
  <2>1. \A a \in Actor : pc[a] # "offer"
    BY <1>6 DEF Holding
  <2> QED BY <1>2, <1>3, <1>5, <2>1 DEF Stored
<1>9. StoreInv
  BY <1>5, <1>7, <1>8 DEF StoreInv, Running
<1>10. /\ \A a \in Actor, t \in Task : ~Has(a, t)
       /\ \A p \in Proc, t \in Task : Waiting(p, t) = {}
  BY <1>2, <1>5 DEF Has, Holds, Writes, Waiting
<1>11. Unborn /\ Founded
  BY <1>2, <1>3, <1>10 DEF Unborn, Founded, Has
<1>12. Worked
  BY <1>3 DEF Worked, StatusOf
<1> QED BY <1>9, <1>11, <1>12 DEF BasicInv

(* What can happen when nothing fails.                                     *)
LEMMA CalmSteps ==
    ASSUME FaultFree, TypeInv, StoreInv, Next
    PROVE  \/ \E a \in Actor : Redis(a) \/ Program(a)
           \/ \E t \in Task : Clock(t)
<1>1. \A k : ~Fault(k)
  BY DEF Fault, FaultFree
<1>2. \A p \in Proc : phase[p] = "running"
  BY DEF StoreInv, Running
<1>3. ASSUME NEW a \in Actor, Recover(a) PROVE FALSE
  <2>1. pc[a] \in {"scan", "reset"}
    BY <1>3 DEF Recover, RecoverScan, RecoverEnd, RecoverNext, At
  <2> QED BY <2>1, OneStore, RoleOf
<1>4. \A a \in Actor : ~Failing(a)
  BY <1>1 DEF Failing, CommandFails, LockFails, CancelFails, UnlockFails, ReadFails
<1>5. \A p \in Proc : ~(Start(p) \/ Stop(p) \/ Exit(p) \/ Crash(p))
  BY <1>1, <1>2 DEF Start, Stop, Exit, Crash
<1>6. \A t \in Task : ~RecordExpires(t)
  BY <1>1 DEF RecordExpires
<1> QED BY <1>3, <1>4, <1>5, <1>6 DEF Next, Run, Program

LEMMA UnbornNext ==
    ASSUME FaultFree, TypeInv, TypeInv', BasicInv, StoreInv', Next
    PROVE  Unborn'
<1>0. StoreInv /\ Unborn /\ Founded
  BY DEF BasicInv
<1> DEFINE Free(t) == /\ ~Known(t)
                      /\ \A b \in Actor : ~Has(b, t) /\ t \notin batch[b]
                      /\ \A p \in Proc : Waiting(p, t) = {}
<1> SUFFICES ASSUME NEW t \in Task, t \notin accepted' PROVE Free(t)'
  BY DEF Unborn
<1>1. t \notin accepted => Free(t) /\ t \notin members["retry_pending"]
  BY <1>0 DEF Unborn, Founded, Key, Status
<1>2. ASSUME NEW a \in Actor, Redis(a) PROVE Free(t)'
  <2>1. Performs(a)
    BY <1>0, <1>2, PerformEffect
  <2>2. UNCHANGED <<accepted, batch, queue>>
    BY <2>1 DEF Performs, procVars, goVars, extVars
  <2>3. /\ \A b \in Actor : Has(b, t)' => Has(b, t)
        /\ Has(a, Head(todo[a]).copy.id)
    BY <1>0, <2>1, PerformHas DEF Has
  <2>4. t # Head(todo[a]).copy.id
    BY <1>1, <2>2, <2>3
  <2>5. rec'[t] = rec[t]
    BY <1>0, <2>1, <2>4, PerformRecords
  <2> QED BY <1>1, <2>2, <2>3, <2>5 DEF Known, Waiting
<1>3. ASSUME NEW a \in Actor, NEW u \in Task, Accept(a, u) PROVE Free(t)'
  <2>1. Moves(a)
    BY <1>0, <1>3, ProgramMoves DEF Program, Request
  <2>2. /\ accepted' = accepted \cup {u} /\ UNCHANGED <<batch, queue>>
    BY <1>3 DEF Accept, procVars
  <2>3. ~Has(a, t)'
    BY <1>3, <2>2, AcceptHas
  <2>4. \A b \in Actor \ {a} : Has(b, t)' <=> Has(b, t)
    BY <2>1 DEF Moves, Has, Holds, Writes
  <2> QED BY <1>1, <2>1, <2>2, <2>3, <2>4 DEF Moves, Known, Waiting
<1>4. ASSUME NEW a \in Actor, Program(a), ~ \E u \in Task : Accept(a, u)
      PROVE  Free(t)'
  <2>1. Moves(a) /\ TakesKnown(a)
    BY <1>0, <1>4, ProgramMoves, ProgramTakes
  <2>2. Free(t) /\ t \notin members["retry_pending"] /\ t \notin accepted
    BY <1>1, <2>1 DEF TakesKnown
  <2>3. ~Holds(a, t)' /\ t \notin batch'[a] /\ \A p \in Proc : Waiting(p, t)' = {}
    BY <2>1, <2>2 DEF TakesKnown, Has
  <2>4. ~Has(a, t)'
    <3>1. CASE a[2] \notin Handler
      BY <2>3, <3>1, HasNext DEF Holds
    <3>2. CASE a[2] \in Handler
      <4>1. Enqueue(a)
        BY <1>0, <1>4, <3>2, HandlerSteps
      <4> QED BY <1>0, <2>2, <4>1, EnqueueHas
    <3> QED BY <3>1, <3>2
  <2>5. \A b \in Actor \ {a} : Has(b, t)' <=> Has(b, t)
    BY <2>1 DEF Moves, Has, Holds, Writes
  <2> QED BY <2>1, <2>2, <2>3, <2>4, <2>5 DEF Moves, Known
<1>5. ASSUME NEW u \in Task, Clock(u) PROVE Free(t)'
  <2>1. UNCHANGED accepted
    BY <1>5 DEF Clock, BackoffElapses, LockExpires, extVars
  <2> QED BY <1>1, <1>5, <2>1, ClockStatus DEF Has, Holds, Writes, Waiting
<1> QED BY <1>0, <1>2, <1>3, <1>4, <1>5, CalmSteps

LEMMA FoundedNext ==
    ASSUME FaultFree, TypeInv, TypeInv', BasicInv, StoreInv', Next
    PROVE  Founded'
<1>0. StoreInv /\ Unborn /\ Founded
  BY DEF BasicInv
<1>1. ASSUME \A t \in Task : Known(t)' <=> Known(t),
             UNCHANGED members,
             \A a, b \in Actor, t \in Task :
               a # b /\ Writes(a, t)' /\ Writes(b, t)' => Known(t)
      PROVE  Founded'
  BY <1>0, <1>1 DEF Founded
<1>2. ASSUME NEW a \in Actor, Redis(a) PROVE Founded'
  <2>1. Performs(a)
    BY <1>0, <1>2, PerformEffect
  <2>2. \A t \in Task : Known(t) => Known(t)'
    BY <1>0, <2>1, PerformRecords
  <2>3. \A b \in Actor, t \in Task : Writes(b, t)' => Writes(b, t)
    BY <1>0, <2>1, PerformHas
  <2>4. ASSUME NEW t \in Task, NEW k \in Key, t \in members'[k] PROVE Known(t)'
    <3>1. CASE t \in members[k]
      BY <1>0, <2>2, <3>1 DEF Founded
    <3>2. CASE t \notin members[k]
      BY <2>1, <2>2, <2>4, <3>2, PerformMembers
    <3> QED BY <3>1, <3>2
  <2> QED BY <1>0, <2>2, <2>3, <2>4 DEF Founded
<1>3. ASSUME NEW a \in Actor, Program(a) PROVE Founded'
  <2>1. Moves(a)
    BY <1>0, <1>3, ProgramMoves
  <2>2. \A b \in Actor \ {a}, t \in Task : Writes(b, t)' <=> Writes(b, t)
    BY <2>1 DEF Moves, Writes
  <2>3. ASSUME NEW t \in Task, NEW b \in Actor \ {a}, Writes(a, t)', Writes(b, t)
        PROVE  Known(t)
    <3>1. CASE \E u \in Task : Accept(a, u)
      <4>1. PICK u \in Task : Accept(a, u)
        BY <3>1
      <4>2. t = u /\ u \notin accepted
        BY <2>3, <4>1, AcceptHas DEF Has, Accept
      <4> QED BY <1>0, <2>3, <4>2 DEF Unborn, Has
    <3>2. CASE ~ \E u \in Task : Accept(a, u)
      <4>1. todo'[a] # <<>> => Head(todo'[a]).op = "update"
        BY <1>0, <1>3, <3>2, ProgramIssues
      <4>2. todo'[a] # <<>> /\ Head(todo'[a]).copy.id = t
        <5>1. todo'[a] \in Seq(Command) /\ Shape(todo'[a])
          BY DEF TypeInv, TypeOK, StoreTypeOK, StoreInv, Local
        <5>2. PICK x \in Elems(todo'[a]) : x.copy.id = t
          BY <2>3 DEF Writes, Elems
        <5>3. todo'[a] # <<>>
          BY <5>2, ElemsEmpty
        <5> QED BY <5>1, <5>2, <5>3, ElemsOf DEF Shape
      <4>3. Known(t)'
        BY <4>1, <4>2 DEF StoreInv, Fits
      <4> QED BY <2>1, <4>3 DEF Moves, Known
    <3> QED BY <3>1, <3>2
  <2>4. ASSUME NEW b \in Actor, NEW d \in Actor, NEW t \in Task, b # d,
               Writes(b, t)', Writes(d, t)'
        PROVE  Known(t)
    BY <1>0, <2>2, <2>3, <2>4 DEF Founded
  <2> QED BY <1>1, <2>1, <2>4 DEF Moves, Known
<1>4. ASSUME NEW u \in Task, Clock(u) PROVE Founded'
  <2>1. \A b \in Actor, t \in Task : Writes(b, t)' <=> Writes(b, t)
    BY <1>4, ClockStatus DEF Writes
  <2> QED BY <1>0, <1>1, <1>4, <2>1, ClockStatus DEF Founded
<1> QED BY <1>0, <1>2, <1>3, <1>4, CalmSteps

LEMMA BasicNext ==
    ASSUME FaultFree, TypeInv, TypeInv', BasicInv, Next
    PROVE  BasicInv'
<1>0. StoreInv /\ Unborn /\ Founded /\ Worked /\ PromptSteps
  BY DEF BasicInv, FaultFree
<1>1. StoreInv' /\ Worked'
  <2>1. ASSUME NEW a \in Actor, Redis(a) PROVE StoreInv' /\ Worked'
    BY <1>0, <2>1, PerformStore, PerformEffect, PerformWorked
  <2>2. ASSUME NEW a \in Actor, Program(a) PROVE StoreInv' /\ Worked'
    BY <1>0, <2>2, WorkStore, DispatchStore, EnqueueStore, MarkStore, RequestStore,
       ProgramWorked DEF Program
  <2>3. ASSUME NEW t \in Task, Clock(t) PROVE StoreInv' /\ Worked'
    BY <1>0, <2>3, ClockStore, ClockWorked
  <2> QED BY <1>0, <2>1, <2>2, <2>3, CalmSteps
<1> QED BY <1>1, UnbornNext, FoundedNext DEF BasicInv

LEMMA BasicStutter == BasicInv /\ UNCHANGED vars => BasicInv'
<1> USE DEF vars, storeVars, procVars, goVars, extVars
<1> SUFFICES ASSUME BasicInv, UNCHANGED vars PROVE BasicInv'
  OBVIOUS
<1>1. StoreInv'
  BY DEF BasicInv, StoreInv, Running, Local, Fits, Stored, Known
<1>2. Unborn' /\ Founded'
  BY DEF BasicInv, Unborn, Founded, Has, Holds, Writes, Waiting, Known
<1>3. Worked'
  BY DEF BasicInv, Worked, WorksOn, StatusOf, Known, Holds, Unwritten
<1> QED BY <1>1, <1>2, <1>3 DEF BasicInv

LEMMA Basic == FaultFree => (Spec => [](TypeInv /\ LockInv /\ BasicInv))
<1> SUFFICES ASSUME FaultFree PROVE Spec => [](TypeInv /\ LockInv /\ BasicInv)
  OBVIOUS
<1>1. Init => TypeInv /\ LockInv /\ BasicInv
  <2>1. Init => LockInv
    BY DEF Init, LockInv, LockHeld, MutualExclusion, InSection, Holds
  <2> QED BY <2>1, InitTypeInv, BasicInit
<1>2. TypeInv /\ LockInv /\ BasicInv /\ [Next]_vars =>
        TypeInv' /\ LockInv' /\ BasicInv'
  <2> SUFFICES ASSUME TypeInv, LockInv, BasicInv, [Next]_vars
               PROVE  TypeInv' /\ LockInv' /\ BasicInv'
    OBVIOUS
  <2>1. TypeInv' /\ LockInv'
    BY NextTypeInv, NextLockInv DEF FaultFree
  <2> QED BY <2>1, BasicNext, BasicStutter
<1> QED BY <1>1, <1>2, PTL DEF Spec

(* When nothing fails, a record says in_progress only while a worker holds *)
(* the task: none is left over for a recovery pass.                        *)
THEOREM WorkedOn == FaultFree => (Spec => []InProgressIsWorked)
<1> SUFFICES ASSUME FaultFree PROVE Spec => []InProgressIsWorked
  OBVIOUS
<1>1. BasicInv => InProgressIsWorked
  BY DEF BasicInv, Worked, WorksOn, InProgressIsWorked, InHand, StatusOf
<1> QED BY <1>1, Basic, PTL

-----------------------------------------------------------------------------
(* When nobody cancels a webhook before it is answered.                    *)

LEMMA CalmInit == FaultFree /\ Init => CalmInv
<1> SUFFICES ASSUME FaultFree, Init PROVE CalmInv
  OBVIOUS
<1>1. BasicInv
  BY BasicInit
<1>2. \A a \in Actor : todo[a] = <<>> /\ cur[a] = None
  BY DEF Init, StoreInit
<1>3. \A t \in Task : ~Known(t) /\ \A k \in Key : t \notin members[k]
  BY DEF Init, StoreInit, Known
<1>4. Exact
  BY <1>2 DEF Exact, Current
<1>5. \A a \in Actor, t \in Task : ~Young(a, t)
  BY <1>2 DEF Young, Has, Holds, Writes
<1>6. YoungAlone /\ YoungNotDue /\ Indexed
  BY <1>3, <1>5 DEF YoungAlone, YoungNotDue, Indexed
<1> QED BY <1>1, <1>4, <1>6 DEF BasicInv, CalmInv, BirthInv

LEMMA CalmNext ==
    ASSUME FaultFree, TypeInv, LockInv, TypeInv', BasicInv', CancelAfterAnswer', CalmInv, Next
    PROVE  CalmInv'
<1>0. StoreInv /\ Exact /\ BirthInv /\ Indexed /\ PromptSteps /\ YoungAlone /\ Unborn
      /\ StoreInv' /\ Worked'
  BY DEF CalmInv, BirthInv, BasicInv, FaultFree
<1>1. ASSUME NEW a \in Actor, Redis(a) PROVE CalmInv'
  <2>1. Executes(a)
    BY <1>0, <1>1, ExecEffect
  <2> QED BY <1>0, <2>1, ExecExact, ExecBirth, ExecIndexed DEF CalmInv
<1>2. ASSUME NEW a \in Actor, Program(a) PROVE CalmInv'
  <2>1. Moves(a)
    BY <1>0, <1>2, ProgramMoves
  <2>2. Exact'
    <3>1. \A b \in Actor \ {a} : Current(todo[b])'
      BY <1>0, <2>1 DEF Moves, Exact, Current, Known
    <3>2. Current(todo[a])'
      <4>1. CASE \E t \in Task : Accept(a, t)
        <5>1. PICK t \in Task : Accept(a, t)
          BY <4>1
        <5>2. t \notin accepted /\ todo'[a] = SaveTask(NewTask(t))
          BY <5>1, AcceptHas DEF Accept
        <5>3. ~Known(t)'
          BY <1>0, <2>1, <5>2 DEF Unborn, Moves, Known
        <5>4. NewTask(t) \in Copy /\ NewTask(t).id = t
          BY NewTaskType
        <5>5. Head(todo'[a]) = [op |-> "set", key |-> "listed", copy |-> NewTask(t)]
          BY <5>2, <5>4, IssuedLists
        <5>6. /\ Head(todo'[a]).op = "set" /\ Head(todo'[a]).key = "listed"
              /\ Head(todo'[a]).copy.id = t
          BY <5>4, <5>5
        <5> QED BY <5>3, <5>6 DEF Current
      <4>2. CASE ~ \E t \in Task : Accept(a, t)
        BY <1>0, <1>2, <4>2, ProgramIssues DEF Current
      <4> QED BY <4>1, <4>2
    <3> QED BY <3>1, <3>2 DEF Exact
  <2>3. BirthInv'
    <3>1. CASE \E t \in Task : Accept(a, t)
      BY <1>0, <3>1, AcceptBirth
    <3>2. CASE ~ \E t \in Task : Accept(a, t)
      <4>1. TakesOld(a)
        BY <1>0, <1>2, <3>2, WorkOld, DispatchOld, EnqueueOld, CancellerOld
           DEF Program, Request
      <4> QED BY <1>0, <2>1, <4>1, KeepBirth
    <3> QED BY <3>1, <3>2
  <2> QED BY <1>0, <2>1, <2>2, <2>3, MovesIndexed DEF CalmInv
<1>3. ASSUME NEW t \in Task, Clock(t) PROVE CalmInv'
  BY <1>0, <1>3, ClockExact, ClockBirth, ClockIndexed DEF CalmInv
<1> QED BY <1>0, <1>1, <1>2, <1>3, CalmSteps

LEMMA CalmStutter == CalmInv /\ UNCHANGED vars => CalmInv'
<1> USE DEF vars, storeVars, procVars, goVars, extVars
<1> SUFFICES ASSUME CalmInv, UNCHANGED vars PROVE CalmInv'
  OBVIOUS
<1>1. StoreInv'
  BY DEF CalmInv, StoreInv, Running, Local, Fits, Stored, Known
<1>2. BirthInv'
  BY DEF CalmInv, BirthInv, YoungAlone, YoungNotDue, Unborn, Young, Has, Holds,
         Writes, Waiting, Known
<1>3. Indexed' /\ Exact'
  BY DEF CalmInv, Indexed, Pending, Known, Exact, Current
<1>4. Worked'
  BY DEF CalmInv, Worked, WorksOn, StatusOf, Known, Holds, Unwritten
<1> QED BY <1>1, <1>2, <1>3, <1>4 DEF CalmInv

LEMMA Calm ==
    FaultFree => (Spec /\ []CancelAfterAnswer => [](TypeInv /\ LockInv /\ CalmInv))
<1> SUFFICES ASSUME FaultFree
             PROVE  Spec /\ []CancelAfterAnswer => [](TypeInv /\ LockInv /\ CalmInv)
  OBVIOUS
<1>1. Init => CalmInv
  BY CalmInit
<1>2. (TypeInv /\ LockInv /\ BasicInv) /\ (TypeInv /\ LockInv /\ BasicInv)'
        /\ CancelAfterAnswer' /\ CalmInv /\ [Next]_vars
      => CalmInv'
  <2> SUFFICES ASSUME TypeInv, LockInv, (TypeInv /\ LockInv /\ BasicInv)',
                      CancelAfterAnswer', CalmInv, [Next]_vars
               PROVE  CalmInv'
    OBVIOUS
  <2>1. TypeInv' /\ BasicInv'
    OBVIOUS
  <2>2. CASE Next
    BY <2>1, <2>2, CalmNext
  <2>3. CASE UNCHANGED vars
    BY <2>3, CalmStutter
  <2> QED BY <2>2, <2>3
<1> QED BY <1>1, <1>2, Basic, PTL DEF Spec

(* When nothing fails and nobody cancels a webhook before it is answered,  *)
(* a task that nobody has in hand is listed and is in the set of its       *)
(* status and in no other, however many processes, workers and callers of  *)
(* CancelTask write records and sets at the same time.                     *)
THEOREM IndexKept == FaultFree => (Spec => IndexKeepsUp)
<1> SUFFICES ASSUME FaultFree PROVE Spec => ([]CancelAfterAnswer => []IndexComplete)
  BY DEF IndexKeepsUp
<1>1. TypeInv /\ CalmInv => IndexComplete
  <2> SUFFICES ASSUME TypeInv, CalmInv, NEW t \in Task, Known(t), ~InHand(t)
               PROVE  /\ t \in members["listed"]
                      /\ \A s \in Status : t \in members[s] <=> s = rec[t].status
    BY DEF IndexComplete
  <2>1. \A op, k : ~Pending(op, k, t)
    BY DEF InHand, Pending, Elems, Writes
  <2> QED BY <2>1 DEF CalmInv, Indexed
<1> QED BY <1>1, Calm, PTL

(* Where nobody calls CancelTask, nobody calls it too early.               *)
LEMMA Uncancelled == FaultFree /\ Cancellable = {} => (Spec => []CancelAfterAnswer)
<1> SUFFICES ASSUME FaultFree, Cancellable = {} PROVE Spec => []CancelAfterAnswer
  OBVIOUS
<1> DEFINE Resting == \A a \in Actor : a[2] \in Canceller => pc[a] = "cancel"
<1>1. Init => Resting
  <2> SUFFICES ASSUME Init, NEW a \in Actor, a[2] \in Canceller
               PROVE  pc[a] = "cancel"
    OBVIOUS
  <2>1. a[1] \in Proc /\ Steady = Proc /\ a[2] \notin Worker \cup Handler
        /\ a[2] # "recoverer"
    BY SchedulerAssumption DEF FaultFree
  <2> QED BY <2>1 DEF Init, Home
<1>2. TypeInv /\ BasicInv /\ Resting /\ [Next]_vars => Resting'
  <2> SUFFICES ASSUME TypeInv, BasicInv, Resting, [Next]_vars,
                      NEW a \in Actor, a[2] \in Canceller
               PROVE  pc'[a] = "cancel"
    OBVIOUS
  <2>0. StoreInv /\ pc[a] = "cancel"
    BY DEF BasicInv
  <2>1. ASSUME NEW b \in Actor, Redis(b) PROVE pc'[a] = "cancel"
    BY <2>0, <2>1 DEF Redis, goVars
  <2>2. ASSUME NEW b \in Actor, Program(b) PROVE pc'[a] = "cancel"
    <3>1. CASE b # a
      BY <2>0, <2>2, <3>1, ProgramMoves DEF Moves
    <3>2. CASE b = a
      BY <2>0, <2>2, <3>2, Roles
         DEF Program, Work, Dispatch, Enqueue, Request, Take, Finish, Skip, Begin,
             CountAttempt, Deliver, Settle, Unlock, Poll, PassOver, Claim, Put,
             PutBack, DispatcherPanic, Inspect, Offer, OfferFull, OfferPanic, Mark,
             Accept, Cancel, At
    <3> QED BY <3>1, <3>2
  <2>3. ASSUME NEW t \in Task, Clock(t) PROVE pc'[a] = "cancel"
    BY <2>0, <2>3, ClockStatus
  <2>4. CASE UNCHANGED vars
    BY <2>0, <2>4 DEF vars, goVars
  <2> QED BY <2>0, <2>1, <2>2, <2>3, <2>4, CalmSteps
<1>3. TypeInv /\ BasicInv /\ Resting => CancelAfterAnswer
  <2> SUFFICES ASSUME TypeInv, BasicInv, Resting,
                      NEW t \in Task, NEW a \in Actor, a[2] \in Canceller
               PROVE  ~Holds(a, t) /\ ~Writes(a, t)
    BY DEF CancelAfterAnswer
  <2>1. /\ Author(a[2], pc[a], cur[a], todo[a]) /\ pc[a] = "cancel"
        /\ cur[a] # None <=> pc[a] \in Holding
    BY OneStore DEF BasicInv
  <2>2. todo[a] = <<>>
    BY <2>1 DEF Author
  <2> QED BY <2>1, <2>2 DEF Holds, Writes, Holding
<1> QED BY <1>1, <1>2, <1>3, Basic, PTL DEF Spec

-----------------------------------------------------------------------------
(* A cancelled task.                                                       *)

(* Nothing finds a task that is gone, and CancelTask leaves it.            *)
LEMMA ProgramGone ==
    ASSUME TypeInv, BasicInv, TypeInv', StoreInv', NEW a \in Actor, Program(a),
           NEW t \in Task, Gone(t)
    PROVE  Gone(t)'
<1>0. StoreInv /\ Unborn
  BY DEF BasicInv
<1>1. Moves(a)
  BY <1>0, ProgramMoves
<1>2. t \notin members'["retry_pending"]
  BY <1>1 DEF Moves, Gone
<1>3. StatusOf(t)' = "cancelled"
  BY <1>1 DEF Moves, Gone, StatusOf, Known
<1>4. ASSUME Holds(a, t)' => a[2] \in Canceller, ~Writes(a, t)', t \notin batch'[a],
             \A p \in Proc : Waiting(p, t)' = {}
      PROVE  Gone(t)'
  <2>1. \A b \in Actor \ {a} : /\ Holds(b, t)' <=> Holds(b, t)
                               /\ Writes(b, t)' <=> Writes(b, t)
                               /\ batch'[b] = batch[b]
    BY <1>1 DEF Moves, Holds, Writes
  <2> QED BY <1>2, <1>3, <1>4, <2>1 DEF Gone
<1>5. CASE \E u \in Task : Accept(a, u)
  <2>1. PICK u \in Task : Accept(a, u)
    BY <1>5
  <2>2. u \notin accepted /\ UNCHANGED <<queue, batch>>
    BY <2>1 DEF Accept, procVars
  <2>3. u # t
    BY <1>0, <2>2 DEF Unborn, Gone, StatusOf
  <2>4. ~Has(a, t)'
    BY <2>1, <2>3, AcceptHas
  <2> QED BY <1>4, <2>2, <2>4 DEF Has, Gone, Waiting
<1>6. CASE ~ \E u \in Task : Accept(a, u)
  <2>1. TakesKnown(a)
    BY <1>0, <1>6, ProgramTakes
  <2>2. Holds(a, t)' => a[2] \in Canceller
    BY <2>1 DEF TakesKnown, Gone
  <2>3. t \notin batch'[a] /\ \A p \in Proc : Waiting(p, t)' = {}
    BY <2>1 DEF TakesKnown, Gone
  <2>4. ~Writes(a, t)'
    <3>1. CASE a[2] \in Handler
      <4>1. Has(a, t)' => Has(a, t)
        BY <1>0, <1>6, <3>1, HandlerSteps, EnqueueHas
      <4>2. ~Has(a, t)
        BY <3>1, Roles DEF Has, Gone
      <4> QED BY <4>1, <4>2 DEF Has
    <3>2. CASE a[2] \notin Handler /\ a[2] \notin Canceller
      BY <2>2, <3>2, HasNext DEF Has, Holds
    <3>3. CASE a[2] \in Canceller
      <4>1. UNCHANGED todo \/ (Mark(a) /\ Known(cur[a].id)
                                 /\ rec[cur[a].id].status \notin Terminal)
        <5>1. Placed(a[2], pc[a], cur[a]) /\ pc[a] \in {"cancel", "mark", "unlock"}
          BY <1>0, <3>3, OneStore, Roles DEF Placed, Place
        <5>2. Mark(a) \/ Unlock(a) \/ \E u \in Task : Cancel(a, u)
          BY <1>6, <5>1
             DEF Program, Work, Dispatch, Enqueue, Request, Take, Finish, Skip, Begin,
                 CountAttempt, Deliver, Settle, Poll, PassOver, Claim, Put, PutBack,
                 DispatcherPanic, Inspect, Offer, OfferFull, OfferPanic, At
        <5> QED BY <5>2 DEF Mark, Unlock, Cancel
      <4>2. CASE UNCHANGED todo
        BY <4>2 DEF Writes, Gone
      <4>3. CASE Mark(a) /\ Known(cur[a].id) /\ rec[cur[a].id].status \notin Terminal
        <5>1. cur[a].id # t
          BY <4>3 DEF Gone, StatusOf, Terminal
        <5>2. UNCHANGED cur
          BY <4>3 DEF Mark
        <5>3. a[2] \notin Handler
          BY <3>3, Roles
        <5> QED BY <5>1, <5>2, <5>3, HasNext DEF Has
      <4> QED BY <4>1, <4>2, <4>3
    <3> QED BY <3>1, <3>2, <3>3
  <2> QED BY <1>4, <2>2, <2>3, <2>4
<1> QED BY <1>5, <1>6

LEMMA GoneNext ==
    ASSUME FaultFree, TypeInv, BasicInv, TypeInv', BasicInv', NEW t \in Task, Gone(t),
           [Next]_vars
    PROVE  Gone(t)'
<1>0. StoreInv /\ StoreInv'
  BY DEF BasicInv
<1>1. ASSUME NEW a \in Actor, Redis(a) PROVE Gone(t)'
  <2>1. Performs(a)
    BY <1>0, <1>1, PerformEffect
  <2>2. /\ UNCHANGED <<batch, queue, cur>>
        /\ \A b \in Actor : Writes(b, t)' => Writes(b, t)
        /\ Writes(a, Head(todo[a]).copy.id)
    BY <1>0, <2>1, PerformHas DEF Performs, procVars, goVars
  <2>3. rec'[t] = rec[t]
    BY <1>0, <2>1, <2>2, PerformRecords DEF Gone
  <2>4. t \notin members'["retry_pending"]
    BY <2>1, <2>2, PerformMembers DEF Gone, Key, Status
  <2> QED BY <2>2, <2>3, <2>4 DEF Gone, StatusOf, Known, Holds, Waiting
<1>2. ASSUME NEW a \in Actor, Program(a) PROVE Gone(t)'
  BY <1>0, <1>2, ProgramGone
<1>3. ASSUME NEW u \in Task, Clock(u) PROVE Gone(t)'
  BY <1>3, ClockStatus DEF Gone, Holds, Writes, Waiting
<1>4. CASE UNCHANGED vars
  BY <1>4 DEF vars, storeVars, procVars, goVars, Gone, StatusOf, Known, Holds,
              Writes, Waiting
<1> QED BY <1>0, <1>1, <1>2, <1>3, <1>4, CalmSteps

(* When nothing fails, a cancellation is final for a task of which nothing *)
(* read or begun earlier is left, whenever it came: no process takes the   *)
(* task up again, and a second call of CancelTask leaves it alone.         *)
THEOREM Cancelled == FaultFree => (Spec => CancelSticks)
<1> SUFFICES ASSUME FaultFree PROVE Spec => CancelSticks
  OBVIOUS
<1>1. ASSUME NEW t \in Task
      PROVE  Spec => [](StatusOf(t) = "cancelled" /\ Quiet(t)
                          /\ t \notin members["retry_pending"]
                          => [](StatusOf(t) = "cancelled"))
  <2>1. StatusOf(t) = "cancelled" /\ Quiet(t) /\ t \notin members["retry_pending"]
          => Gone(t)
    BY DEF Quiet, InHand, Gone
  <2>2. (TypeInv /\ LockInv /\ BasicInv) /\ (TypeInv /\ LockInv /\ BasicInv)'
          /\ Gone(t) /\ [Next]_vars => Gone(t)'
    BY GoneNext
  <2>3. Gone(t) => StatusOf(t) = "cancelled"
    BY DEF Gone
  <2> QED BY <2>1, <2>2, <2>3, Basic, PTL DEF Spec
<1> QED BY <1>1 DEF CancelSticks
=============================================================================
