------------------------------ MODULE SoloProofs ------------------------------
(***************************************************************************)
(* The delivery scheduler as it is deployed most simply: one process,      *)
(* nothing fails and nobody cancels. For any number of workers, requests   *)
(* and webhooks, and any capacity of the channel.                          *)
(*                                                                         *)
(* The argument: a task is in one custody at a time - a request's, the     *)
(* channel's, a worker's, the dispatcher's or the retry set's - although   *)
(* only some of these take its lock. So the copy a goroutine works on is   *)
(* never stale: the record is either that copy or the one it was made      *)
(* from, and every write of a record is a step of the task's life.         *)
(***************************************************************************)
EXTENDS FaultFreeProofs

Solo == FaultFree /\ Cancellable = {} /\ \A p, q \in Proc : p = q

(* A goroutine that has only to release the lock does not touch the task   *)
(* any more; every other one that has it is active on it.                  *)
Spent(a) == pc[a] = "unlock" /\ todo[a] = <<>>

Active(a, t) == Has(a, t) /\ ~Spent(a)

Alone ==
    \A a, b \in Actor, t \in Task : Active(a, t) /\ Active(b, t) => a = b

(* Nobody cancels, and only the dispatcher goes through the retry set.     *)
Idle ==
    \A a \in Actor : /\ a[2] \in Canceller => pc[a] = "cancel"
                     /\ a[2] # "dispatcher" => batch[a] = {}

(* The attempts that a record of each status can show.                     *)
Sound(c) ==
    /\ c.status \in {"queued", "retry_pending"} => c.attempts < MaxAttempts
    /\ c.status = "in_progress" => c.attempts <= MaxAttempts
    /\ c.status = "completed" => c.attempts \in 1..MaxAttempts
    /\ c.status = "failed" => c.attempts = MaxAttempts
    /\ c.status # "cancelled"

(* The status of the record that the copy made at l is going to replace.   *)
From(r, l) ==
    IF l = "put" THEN "retry_pending"
    ELSE IF l \in {"send", "log"} \/ (l = "unlock" /\ r # "dispatcher")
      THEN "in_progress"
    ELSE "queued"

(* The copy c that a goroutine of role r works on at l.                    *)
Statuses(r, l) ==
    IF l \in {"lock", "put", "offer"} THEN {"queued"}
    ELSE IF l \in {"attempt", "send"} THEN {"in_progress"}
    ELSE IF l = "log" \/ (l = "unlock" /\ r # "dispatcher")
      THEN {"completed", "failed", "retry_pending"}
    ELSE {"retry_pending"}

Carried(r, l, c) ==
    /\ Sound(c)
    /\ c.status \in Statuses(r, l)
    /\ c.due <=> ~(l = "accept" \/ (l = "unlock" /\ r # "dispatcher"
                                      /\ c.status = "retry_pending"))
    /\ l = "attempt" => c.attempts < MaxAttempts
    /\ From(r, l) = "in_progress" => c.attempts > 0

Replaces(r, l, old, c) ==
    IF l = "offer" THEN old = None
    ELSE /\ old # None
         /\ old.status = From(r, l)
         /\ c.attempts = old.attempts + (IF l = "send" THEN 1 ELSE 0)
         /\ old.due

(* The copy that a works on, and how the record agrees with it.            *)
Hand(a) == IF todo[a] # <<>> THEN Head(todo[a]).copy ELSE cur[a]

Agrees(a) ==
    LET c == Hand(a) IN
    /\ Carried(a[2], pc[a], c)
    /\ pc[a] = "log" => todo[a] = <<>>
    /\ IF Unwritten(a) \/ pc[a] = "log"
         THEN Replaces(a[2], pc[a], rec[c.id], c)
         ELSE rec[c.id] = c

Agreed == \A a \in Actor, t \in Task : Active(a, t) => Agrees(a)

(* What waits in the channel is the record, once, and in nobody's hands.   *)
Channel ==
    \A p \in Proc :
        /\ \A i \in DOMAIN queue[p] :
             LET c == queue[p][i] IN
             /\ rec[c.id] = c /\ c.status = "queued" /\ c.due
             /\ \A a \in Actor : ~Has(a, c.id)
        /\ \A t \in Task : \A i, j \in Waiting(p, t) : i = j

(* What is in the retry set, or was when the dispatcher read it, is not in *)
(* the channel and in nobody's hands, but for the dispatcher itself and    *)
(* who is just about to put it there.                                      *)
Retries ==
    \A t \in Task :
        /\ t \in members["retry_pending"] =>
             /\ \A p \in Proc : Waiting(p, t) = {}
             /\ \A a \in Actor : Active(a, t) =>
                  a[2] = "dispatcher" \/ (Writes(a, t) /\ ~rec[t].due)
        /\ \A d \in Actor : t \in batch[d] =>
             /\ \A p \in Proc : Waiting(p, t) = {}
             /\ StatusOf(t) = "retry_pending"
             /\ \A a \in Actor : Active(a, t) => Writes(a, t) /\ ~rec[t].due

Sane == \A t \in Task : Known(t) => Sound(rec[t])

CustodyInv == Idle /\ Alone /\ Agreed /\ Channel /\ Retries /\ Sane

(* The attempts counted and the requests made.                             *)
Sending(a, t) == Active(a, t) /\ pc[a] = "send"

Counted ==
    \A t \in Task :
        /\ ~Known(t) => sends[t] = 0
        /\ \A a \in Actor : Sending(a, t) => cur[a].attempts = sends[t] + 1
        /\ Known(t) /\ (\A a \in Actor : ~Sending(a, t)) =>
             rec[t].attempts = sends[t]

(* The record says s, or somebody has that outcome and is about to say so. *)
Ends(a, t, s) == Active(a, t) /\ pc[a] \in {"log", "unlock"} /\ cur[a].status = s

Acknowledged ==
    \A t \in acked :
        StatusOf(t) = "completed" \/ \E a \in Actor : Ends(a, t, "completed")

(* The end of a task is what the row of its last attempt says of it; the   *)
(* row comes first, and the attempts before it failed.                     *)
Over(t, s) ==
    StatusOf(t) = s \/ \E a \in Actor : Ends(a, t, s) /\ pc[a] = "unlock"

Recorded ==
    /\ LogHistory
    /\ \A l \in logs :
         /\ l.attempt <= sends[l.task]
         /\ l.attempt < sends[l.task] => l.status = "Failed Attempt"
         /\ l.attempt = sends[l.task] =>
              /\ \A a \in Actor : Active(a, l.task) => pc[a] # "log"
              /\ l.status = "Success" <=> Over(l.task, "completed")
              /\ l.status = "Failure" <=> Over(l.task, "failed")

-----------------------------------------------------------------------------
(* The one copy that a goroutine works on.                                 *)
LEMMA HandOf ==
    TypeInv /\ StoreInv =>
      \A a \in Actor :
        /\ a[2] \in Role /\ a[1] \in Proc
        /\ Placed(a[2], pc[a], cur[a])
        /\ Hand(a) \in Copy \cup {None}
        /\ \A t \in Task : Has(a, t) <=> Hand(a) # None /\ Hand(a).id = t
        /\ Hand(a) # None => Hand(a).id \in Task
        /\ todo[a] = <<>> => ~Unwritten(a)
        /\ a[2] \in Worker \cup {"dispatcher"} => Hand(a) = cur[a]
        /\ todo[a] = <<>> => Hand(a) = cur[a]
<1> SUFFICES ASSUME TypeInv, StoreInv, NEW a \in Actor
             PROVE  /\ a[2] \in Role /\ a[1] \in Proc
                    /\ Placed(a[2], pc[a], cur[a])
                    /\ Hand(a) \in Copy \cup {None}
                    /\ \A t \in Task : Has(a, t) <=> Hand(a) # None /\ Hand(a).id = t
                    /\ Hand(a) # None => Hand(a).id \in Task
                    /\ todo[a] = <<>> => ~Unwritten(a)
                    /\ a[2] \in Worker \cup {"dispatcher"} => Hand(a) = cur[a]
                    /\ todo[a] = <<>> => Hand(a) = cur[a]
  OBVIOUS
<1>1. /\ a[2] \in Role /\ a[1] \in Proc /\ Placed(a[2], pc[a], cur[a])
      /\ Author(a[2], pc[a], cur[a], todo[a]) /\ todo[a] \in Seq(Command)
      /\ cur[a] \in Copy \cup {None}
  BY OneStore, CurType
<1>2. todo[a] # <<>> => Head(todo[a]).copy \in Copy
  BY <1>1, ElemsOf DEF Command
<1>3. Hand(a) \in Copy \cup {None}
  BY <1>1, <1>2 DEF Hand
<1>4. Hand(a) # None => Hand(a).id \in Task
  BY <1>3 DEF Copy
<1>5. todo[a] = <<>> => ~Unwritten(a)
  BY DEF Unwritten
<1>6. a[2] \in Worker \cup {"dispatcher"} => Hand(a) = cur[a]
  BY <1>1, Roles DEF Hand, Author
<1>7. CASE todo[a] = <<>>
  BY <1>1, <1>3, <1>4, <1>5, <1>7, WritesHead DEF Hand, Has, Holds
<1>8. CASE todo[a] # <<>>
  <2> DEFINE d == Head(todo[a]).copy
  <2>1. Hand(a) = d /\ d # None
    BY <1>2, <1>8, NoneAssumption DEF Hand
  <2>2. \/ cur[a] # None /\ cur[a].id = d.id
        \/ cur[a] = None /\ a[2] \in Handler
    <3>1. a[2] \in Worker \cup {"dispatcher"} => pc[a] \in Section /\ d = cur[a]
      BY <1>1, <1>8 DEF Author
    <3>2. a[2] \in Canceller => pc[a] = "unlock" /\ d.id = cur[a].id
      BY <1>1, <1>8 DEF Author
    <3>3. a[2] \in Handler => (pc[a] = "offer" /\ d = cur[a]) \/ pc[a] = "accept"
      BY <1>1, <1>8 DEF Author
    <3>4. a[2] # "recoverer"
      BY <1>1, <1>8 DEF Author
    <3>5. cur[a] # None <=> pc[a] \in Holding
      BY <1>1 DEF Placed
    <3> QED BY <1>1, <3>1, <3>2, <3>3, <3>4, <3>5 DEF Section, Holding, Role
  <2>3. \A t \in Task : Writes(a, t) <=> d.id = t
    BY <1>8, WritesHead
  <2> QED BY <1>1, <1>3, <1>4, <1>5, <1>6, <1>8, <2>1, <2>2, <2>3 DEF Has, Holds
<1> QED BY <1>7, <1>8

LEMMA HandNext ==
    (TypeInv /\ StoreInv)' =>
      (\A a \in Actor :
        /\ a[2] \in Role /\ a[1] \in Proc
        /\ Placed(a[2], pc[a], cur[a])
        /\ Hand(a) \in Copy \cup {None}
        /\ \A t \in Task : Has(a, t) <=> Hand(a) # None /\ Hand(a).id = t
        /\ Hand(a) # None => Hand(a).id \in Task
        /\ todo[a] = <<>> => ~Unwritten(a)
        /\ a[2] \in Worker \cup {"dispatcher"} => Hand(a) = cur[a]
        /\ todo[a] = <<>> => Hand(a) = cur[a])'
BY HandOf, PTL

(* Who works on a record that is not due: whoever has just written it and  *)
(* is about to put it into the retry set.                                  *)
LEMMA NotDue ==
    ASSUME TypeInv, StoreInv, Agreed, NEW a \in Actor, NEW t \in Task,
           Active(a, t), Known(t), ~rec[t].due
    PROVE  /\ rec[t] = Hand(a) /\ rec[t].status = "retry_pending"
           /\ ~Unwritten(a) /\ todo[a] # <<>> /\ Writes(a, t)
           /\ pc[a] \in {"accept", "unlock"} /\ a[2] # "dispatcher"
<1> DEFINE c == Hand(a)
<1>1. Has(a, t) /\ ~Spent(a) /\ Agrees(a)
  BY DEF Active, Agreed
<1>2. c # None /\ c.id = t /\ c \in Copy
  BY <1>1, HandOf
<1>3. Carried(a[2], pc[a], c)
  BY <1>1 DEF Agrees
<1>4. ~Unwritten(a) /\ pc[a] # "log" /\ rec[t] = c
  <2>1. ~Replaces(a[2], pc[a], rec[t], c)
    BY DEF Replaces, Known
  <2> QED BY <1>1, <1>2, <2>1 DEF Agrees
<1>5. /\ c.status = "retry_pending"
      /\ pc[a] = "accept" \/ (pc[a] = "unlock" /\ a[2] # "dispatcher")
  BY <1>3, <1>4 DEF Carried, Statuses
<1>6. todo[a] # <<>> /\ a[2] # "dispatcher"
  <2>1. CASE pc[a] = "unlock"
    BY <1>1, <1>5, <2>1 DEF Spent
  <2>2. CASE pc[a] = "accept"
    <3>1. Placed(a[2], pc[a], cur[a])
      BY HandOf
    <3>2. cur[a] = None
      BY <2>2, <3>1 DEF Placed, Holding
    <3> QED BY <1>2, <1>3, <2>2, <3>2, HandOf DEF Carried
  <2> QED BY <1>5, <2>1, <2>2
<1>7. Writes(a, t)
  BY <1>2, <1>6, WritesHead DEF Hand
<1> QED BY <1>4, <1>5, <1>6, <1>7

(* A step of a that leaves the records and the sets alone.                 *)
LEMMA OthersKeep ==
    ASSUME NEW a \in Actor, Moves(a), NEW b \in Actor \ {a}
    PROVE  /\ Agrees(b)' <=> Agrees(b)
           /\ \A t : /\ Has(b, t)' <=> Has(b, t)
                     /\ Writes(b, t)' <=> Writes(b, t)
                     /\ Active(b, t)' <=> Active(b, t)
<1>1. /\ pc'[b] = pc[b] /\ cur'[b] = cur[b] /\ todo'[b] = todo[b]
      /\ rec' = rec
  BY DEF Moves
<1>2. \A t : /\ Has(b, t)' <=> Has(b, t)
             /\ Writes(b, t)' <=> Writes(b, t)
             /\ Active(b, t)' <=> Active(b, t)
  BY <1>1 DEF Has, Holds, Writes, Active, Spent
<1>3. Agrees(b)' <=> Agrees(b)
  BY <1>1 DEF Agrees, Hand, Unwritten
<1> QED BY <1>2, <1>3

LEMMA MovesCustody ==
    ASSUME CustodyInv, NEW a \in Actor, Moves(a), Idle', Channel',
           \A t \in Task : Active(a, t)' =>
             /\ Agrees(a)'
             /\ \A b \in Actor \ {a} : ~Active(b, t)
             /\ a[2] = "dispatcher" \/ t \notin members["retry_pending"]
             /\ \A d \in Actor : t \notin batch'[d],
           \A t \in Task : (\E p \in Proc : Waiting(p, t)' # {}) =>
             /\ t \notin members["retry_pending"]
             /\ \A d \in Actor : t \notin batch'[d],
           \A d \in Actor, t \in Task : t \in batch'[d] =>
             \/ t \in batch[d]
             \/ /\ t \in members["retry_pending"] /\ StatusOf(t) = "retry_pending"
                /\ \A b \in Actor : Active(b, t) => Writes(b, t) /\ ~rec[t].due
    PROVE  CustodyInv'
<1>1. UNCHANGED <<rec, members>> /\ todo[a] = <<>>
  BY DEF Moves
<1>2. \A b \in Actor \ {a} :
        /\ Agrees(b)' <=> Agrees(b)
        /\ \A t : /\ Has(b, t)' <=> Has(b, t)
                  /\ Writes(b, t)' <=> Writes(b, t)
                  /\ Active(b, t)' <=> Active(b, t)
  BY OthersKeep
<1>3. Alone'
  <2> SUFFICES ASSUME NEW x \in Actor, NEW y \in Actor, NEW t \in Task,
                      Active(x, t)', Active(y, t)'
               PROVE  x = y
    BY DEF Alone
  <2>1. CASE x = a \/ y = a
    BY <1>2, <2>1
  <2>2. CASE x # a /\ y # a
    BY <1>2, <2>2 DEF CustodyInv, Alone
  <2> QED BY <2>1, <2>2
<1>4. Agreed'
  <2> SUFFICES ASSUME NEW b \in Actor, NEW t \in Task, Active(b, t)'
               PROVE  Agrees(b)'
    BY DEF Agreed
  <2>1. CASE b = a
    BY <2>1
  <2>2. CASE b # a
    BY <1>2, <2>2 DEF CustodyInv, Agreed
  <2> QED BY <2>1, <2>2
<1>5. Sane'
  BY <1>1 DEF CustodyInv, Sane, Known
<1>6. Retries'
  <2> SUFFICES ASSUME NEW t \in Task
               PROVE  /\ t \in members["retry_pending"]' =>
                           /\ \A p \in Proc : Waiting(p, t)' = {}
                           /\ \A b \in Actor : Active(b, t)' =>
                                b[2] = "dispatcher" \/ (Writes(b, t)' /\ ~rec'[t].due)
                      /\ \A d \in Actor : t \in batch'[d] =>
                           /\ \A p \in Proc : Waiting(p, t)' = {}
                           /\ StatusOf(t)' = "retry_pending"
                           /\ \A b \in Actor : Active(b, t)' =>
                                Writes(b, t)' /\ ~rec'[t].due
    BY DEF Retries
  <2>1. /\ t \in members["retry_pending"] =>
             \A b \in Actor : Active(b, t) =>
               b[2] = "dispatcher" \/ (Writes(b, t) /\ ~rec[t].due)
        /\ \A d \in Actor : t \in batch[d] =>
             /\ StatusOf(t) = "retry_pending"
             /\ \A b \in Actor : Active(b, t) => Writes(b, t) /\ ~rec[t].due
    BY DEF CustodyInv, Retries
  <2>2. ASSUME t \in members["retry_pending"]'
        PROVE  /\ \A p \in Proc : Waiting(p, t)' = {}
               /\ \A b \in Actor : Active(b, t)' =>
                    b[2] = "dispatcher" \/ (Writes(b, t)' /\ ~rec'[t].due)
    <3>1. t \in members["retry_pending"]
      BY <1>1, <2>2
    <3>2. \A p \in Proc : Waiting(p, t)' = {}
      BY <3>1
    <3>3. ASSUME NEW b \in Actor, Active(b, t)'
          PROVE b[2] = "dispatcher" \/ (Writes(b, t)' /\ ~rec'[t].due)
      BY <1>1, <1>2, <2>1, <3>1, <3>3
    <3> QED BY <3>2, <3>3
  <2>3. ASSUME NEW d \in Actor, t \in batch'[d]
        PROVE  /\ \A p \in Proc : Waiting(p, t)' = {}
               /\ StatusOf(t)' = "retry_pending"
               /\ \A b \in Actor : Active(b, t)' => Writes(b, t)' /\ ~rec'[t].due
    <3>1. /\ StatusOf(t) = "retry_pending"
          /\ \A b \in Actor : Active(b, t) => Writes(b, t) /\ ~rec[t].due
      BY <2>1, <2>3
    <3>2. StatusOf(t)' = "retry_pending"
      BY <1>1, <3>1 DEF StatusOf, Known
    <3>3. \A p \in Proc : Waiting(p, t)' = {}
      BY <2>3
    <3>4. ASSUME NEW b \in Actor, Active(b, t)'
          PROVE Writes(b, t)' /\ ~rec'[t].due
      <4>1. b # a
        BY <2>3, <3>4
      <4> QED BY <1>1, <1>2, <3>1, <3>4, <4>1
    <3> QED BY <3>2, <3>3, <3>4
  <2> QED BY <2>2, <2>3
<1> QED BY <1>3, <1>4, <1>5, <1>6 DEF CustodyInv

LEMMA InChannel ==
    ASSUME TypeInv, NEW p \in Proc, NEW i \in DOMAIN queue[p]
    PROVE  /\ queue[p][i] \in Copy /\ queue[p][i].id \in Task
           /\ i \in Waiting(p, queue[p][i].id)
<1>1. queue[p] \in Seq(Copy)
  BY TypeParts DEF RestOK
<1>2. queue[p][i] \in Copy
  BY <1>1
<1> QED BY <1>2 DEF Copy, Waiting

(* What it means for the copy c to wait in a channel.                      *)
Waits(c) ==
    /\ rec[c.id] = c /\ c.status = "queued" /\ c.due
    /\ \A a \in Actor : ~Has(a, c.id)

LEMMA ChannelNext ==
    ASSUME \A p \in Proc : \A i \in DOMAIN queue'[p] : \A c :
             c = queue'[p][i] => Waits(c)',
           \A p \in Proc, t \in Task : \A i, j \in Waiting(p, t)' : i = j
    PROVE  Channel'
BY DEF Channel, Waits, Has, Holds, Writes

(* A step that takes nothing out of a channel and puts nothing into one.   *)
LEMMA SameChannel ==
    ASSUME TypeInv, CustodyInv, NEW a \in Actor, Moves(a), UNCHANGED queue,
           \A t \in Task : Has(a, t)' => Has(a, t) \/ \A p \in Proc : Waiting(p, t) = {}
    PROVE  Channel' /\ \A p \in Proc, t \in Task : Waiting(p, t)' = Waiting(p, t)
<1>1. rec' = rec
  BY DEF Moves
<1>2. \A p \in Proc, t \in Task : Waiting(p, t)' = Waiting(p, t)
  BY DEF Waiting
<1>3. ASSUME NEW p \in Proc, NEW i \in DOMAIN queue'[p], NEW c, c = queue'[p][i]
      PROVE  Waits(c)'
  <2>1. i \in DOMAIN queue[p] /\ c = queue[p][i]
    BY <1>3
  <2>2. c.id \in Task /\ Waiting(p, c.id) # {}
    BY <2>1, InChannel
  <2>3. Waits(c)
    BY <2>1 DEF CustodyInv, Channel, Waits
  <2>4. \A b \in Actor : ~Has(b, c.id)'
    BY <2>2, <2>3, OthersKeep DEF Waits
  <2> QED BY <1>1, <2>3, <2>4 DEF Waits
<1>4. \A p \in Proc, t \in Task : \A i, j \in Waiting(p, t)' : i = j
  BY <1>2 DEF CustodyInv, Channel
<1>5. Channel'
  BY <1>3, <1>4, ChannelNext
<1> QED BY <1>2, <1>5

(* A goroutine goes on with the task it has, or lets go of it.             *)
LEMMA WorkOn ==
    ASSUME TypeInv, StoreInv, (TypeInv /\ StoreInv)', CustodyInv,
           NEW a \in Actor, Moves(a), UNCHANGED queue, a[2] \notin Canceller,
           batch'[a] \subseteq batch[a],
           Hand(a)' = None \/ (/\ Active(a, Hand(a)'.id) /\ Hand(a)'.id \in Task
                               /\ Agrees(a)')
    PROVE  CustodyInv'
<1>1. todo[a] = <<>>
  BY DEF Moves
<1>2. ASSUME NEW t \in Task, Has(a, t)'
      PROVE  Has(a, t) /\ Active(a, t) /\ Agrees(a)'
  <2>1. Hand(a)' # None /\ Hand(a)'.id = t
    BY <1>2, HandNext
  <2> QED BY <2>1 DEF Active
<1>3. ~ \E t : Writes(a, t)
  BY <1>1 DEF Writes
<1>4. \A d \in Actor : batch'[d] \subseteq batch[d]
  BY DEF Moves
<1>5. Idle'
  <2>1. ASSUME NEW b \in Actor
        PROVE  /\ b[2] \in Canceller => pc'[b] = "cancel"
               /\ b[2] # "dispatcher" => batch'[b] = {}
    BY <1>4 DEF CustodyInv, Idle, Moves
  <2> QED BY <2>1 DEF Idle
<1>6. Channel' /\ \A p \in Proc, t \in Task : Waiting(p, t)' = Waiting(p, t)
  BY <1>2, SameChannel
<1>7. ASSUME NEW t \in Task, Active(a, t)'
      PROVE  /\ Agrees(a)'
             /\ \A b \in Actor \ {a} : ~Active(b, t)
             /\ a[2] = "dispatcher" \/ t \notin members["retry_pending"]
             /\ \A d \in Actor : t \notin batch'[d]
  <2>1. Active(a, t) /\ Agrees(a)'
    BY <1>2, <1>7 DEF Active
  <2>2. \A b \in Actor \ {a} : ~Active(b, t)
    BY <2>1 DEF CustodyInv, Alone
  <2>3. a[2] = "dispatcher" \/ t \notin members["retry_pending"]
    BY <2>1, <1>3 DEF CustodyInv, Retries
  <2>4. \A d \in Actor : t \notin batch'[d]
    BY <2>1, <1>3, <1>4 DEF CustodyInv, Retries
  <2> QED BY <2>1, <2>2, <2>3, <2>4
<1>8. ASSUME NEW t \in Task, \E p \in Proc : Waiting(p, t)' # {}
      PROVE  /\ t \notin members["retry_pending"]
             /\ \A d \in Actor : t \notin batch'[d]
  BY <1>4, <1>6, <1>8 DEF CustodyInv, Retries
<1> QED BY <1>4, <1>5, <1>6, <1>7, <1>8, MovesCustody

(* The copy that a goes on with is written next.                           *)
LEMMA Writing ==
    ASSUME NEW a \in Actor, NEW l, NEW c, pc'[a] = l, l # "log",
           todo'[a] # <<>>, Head(todo'[a]).op \in {"update", "set"},
           Head(todo'[a]).copy = c,
           Carried(a[2], l, c), Replaces(a[2], l, rec'[c.id], c)
    PROVE  Hand(a)' = c /\ Agrees(a)'
<1>1. Hand(a)' = c
  BY DEF Hand
<1>2. Unwritten(a)'
  BY DEF Unwritten
<1> QED BY <1>1, <1>2 DEF Agrees

(* A goroutine in its code, with no command left: what it has in hand.     *)
LEMMA InHandNow ==
    ASSUME TypeInv, StoreInv, Agreed, NEW a \in Actor, todo[a] = <<>>,
           pc[a] \in Holding \ {"unlock"}
    PROVE  /\ Hand(a) = cur[a] /\ cur[a] \in Copy /\ cur[a] # None
           /\ cur[a].id \in Task
           /\ Active(a, cur[a].id) /\ Carried(a[2], pc[a], cur[a])
           /\ IF pc[a] = "log"
                THEN Replaces(a[2], pc[a], rec[cur[a].id], cur[a])
                ELSE rec[cur[a].id] = cur[a]
<1>1. /\ Hand(a) = cur[a] /\ cur[a] \in Copy /\ cur[a] # None
      /\ cur[a].id \in Task /\ ~Unwritten(a)
  BY HandOf, OneStore
<1>2. Active(a, cur[a].id)
  BY <1>1, HandOf DEF Active, Spent
<1>3. Agrees(a)
  BY <1>1, <1>2 DEF Agreed
<1> QED BY <1>1, <1>2, <1>3 DEF Agrees

LEMMA WorkCustody ==
    ASSUME TypeInv, StoreInv, (TypeInv /\ StoreInv)', CustodyInv,
           NEW a \in Actor, Work(a), ~Take(a)
    PROVE  CustodyInv'
<1>0. /\ a[1] \in Proc /\ phase[a[1]] = "running"
      /\ Placed(a[2], pc[a], cur[a])
      /\ Moves(a) /\ todo[a] = <<>>
  BY OneStore, ProgramMoves DEF Program, Moves
<1>1. ~Finish(a)
  BY <1>0 DEF Finish
<1>2. /\ pc[a] \in {"lock", "attempt", "send", "log", "unlock"}
      /\ UNCHANGED <<batch, queue>>
  BY <1>1 DEF Work, Skip, Begin, CountAttempt, Deliver, Settle, Unlock, At,
       procVars, extVars
<1>3. a[2] \notin Canceller
  BY <1>0, <1>2 DEF CustodyInv, Idle
<1>4. SUFFICES Hand(a)' = None \/ (/\ Active(a, Hand(a)'.id) /\ Hand(a)'.id \in Task
                                  /\ Agrees(a)')
  BY <1>0, <1>2, <1>3, WorkOn
<1>5. CASE Skip(a) \/ Unlock(a)
  <2>1. cur'[a] = None /\ todo' = todo
    BY <1>5, TypeParts DEF Skip, Unlock, Hold, storeVars
  <2> QED BY <1>0, <2>1 DEF Hand
<1> DEFINE c0 == cur[a]
<1>6. CASE pc[a] \in {"lock", "attempt", "send", "log"}
  <2>1. a[2] \in Worker /\ a[2] # "dispatcher"
    BY <1>0, <1>6, RoleOf, Roles
  <2>2. /\ c0 \in Copy /\ c0.id \in Task
        /\ Active(a, c0.id) /\ Carried(a[2], pc[a], c0)
        /\ IF pc[a] = "log"
             THEN Replaces(a[2], pc[a], rec[c0.id], c0)
             ELSE rec[c0.id] = c0
        /\ rec' = rec
    BY <1>0, <1>6, InHandNow DEF CustodyInv, Holding, Moves
  <2>3. c0.attempts \in Nat /\ MaxAttempts \in Nat \ {0} /\ c0 # None
    BY <2>2, SchedulerAssumption, NoneAssumption DEF Copy
  <2>4. CASE Begin(a)
    <3> DEFINE c == [c0 EXCEPT !.status = "in_progress"]
    <3>1. /\ c \in Copy /\ c.id = c0.id /\ c.status = "in_progress"
          /\ c.attempts = c0.attempts /\ c.due = c0.due
      BY <2>2 DEF Copy, Status
    <3>2. pc[a] = "lock" /\ pc'[a] = "attempt" /\ todo'[a] = UpdateTask(c)
      BY <2>4, TypeParts DEF Begin, At, Goto, Hold, Issue
    <3> HIDE DEF c
    <3>3. todo'[a] # <<>> /\ Head(todo'[a]).op = "update" /\ Head(todo'[a]).copy = c
      BY <3>1, <3>2, IssuedLists
    <3>4. Carried(a[2], "attempt", c) /\ Replaces(a[2], "attempt", rec'[c.id], c)
      BY <2>1, <2>2, <2>3, <3>1, <3>2 DEF Carried, Sound, Statuses, Replaces, From
    <3>5. Hand(a)' = c /\ Agrees(a)'
      BY <3>2, <3>3, <3>4, Writing
    <3> QED BY <2>2, <3>1, <3>5
  <2>5. CASE CountAttempt(a)
    <3> DEFINE c == [c0 EXCEPT !.attempts = @ + 1]
    <3>1. /\ c \in Copy /\ c.id = c0.id /\ c.status = c0.status
          /\ c.attempts = c0.attempts + 1 /\ c.due = c0.due
      BY <2>2, <2>3 DEF Copy
    <3>2. pc[a] = "attempt" /\ pc'[a] = "send" /\ todo'[a] = UpdateTask(c)
      BY <2>5, TypeParts DEF CountAttempt, At, Goto, Hold, Issue
    <3> HIDE DEF c
    <3>3. todo'[a] # <<>> /\ Head(todo'[a]).op = "update" /\ Head(todo'[a]).copy = c
      BY <3>1, <3>2, IssuedLists
    <3>4. Carried(a[2], "send", c) /\ Replaces(a[2], "send", rec'[c.id], c)
      BY <2>1, <2>2, <2>3, <3>1, <3>2 DEF Carried, Sound, Statuses, Replaces, From
    <3>5. Hand(a)' = c /\ Agrees(a)'
      BY <3>2, <3>3, <3>4, Writing
    <3> QED BY <2>2, <3>1, <3>5
  <2>6. CASE Deliver(a)
    <3>1. PICK ok \in BOOLEAN : Hold(a, [c0 EXCEPT !.status = Outcome(c0, ok)])
      BY <2>6 DEF Deliver
    <3> DEFINE c == [c0 EXCEPT !.status = Outcome(c0, ok)]
    <3>2. Outcome(c0, ok) \in Status
      BY <2>2, OutcomeType DEF Status
    <3>3. /\ c \in Copy /\ c.id = c0.id /\ c.status = Outcome(c0, ok)
          /\ c.attempts = c0.attempts /\ c.due = c0.due
      BY <2>2, <3>2 DEF Copy
    <3>4. pc[a] = "send" /\ pc'[a] = "log" /\ todo'[a] = <<>> /\ cur'[a] = c
      BY <1>0, <2>6, <3>1, TypeParts DEF Deliver, At, Goto, Hold, storeVars
    <3> HIDE DEF c
    <3>5. Hand(a)' = c
      BY <3>4 DEF Hand
    <3>6. c0.attempts \in 1..MaxAttempts /\ c0.status = "in_progress" /\ c0.due
      BY <2>1, <2>2, <2>3, <3>4 DEF Carried, Sound, Statuses, From
    <3>7. Carried(a[2], "log", c)
      BY <2>1, <2>3, <3>3, <3>6 DEF Carried, Sound, Statuses, Outcome
    <3>8. Replaces(a[2], "log", rec'[c.id], c)
      BY <2>1, <2>2, <2>3, <3>3, <3>4, <3>6 DEF Replaces, From
    <3>9. Agrees(a)'
      BY <3>4, <3>5, <3>7, <3>8 DEF Agrees
    <3> QED BY <2>2, <3>3, <3>5, <3>9
  <2>7. CASE Settle(a)
    <3> DEFINE retry == c0.status = "retry_pending"
               c == [c0 EXCEPT !.due = IF retry THEN FALSE ELSE @]
               s == UpdateTask(c) \o
                      (IF retry THEN AddTo("retry_pending", c) ELSE <<>>)
    <3>1. /\ c \in Copy /\ c.id = c0.id /\ c.status = c0.status
          /\ c.attempts = c0.attempts
          /\ c.due = IF retry THEN FALSE ELSE c0.due
      BY <2>2 DEF Copy
    <3>2. pc[a] = "log" /\ pc'[a] = "unlock" /\ todo'[a] = s
      BY <2>7, TypeParts DEF Settle, At, Goto, Hold, Issue
    <3> HIDE DEF c
    <3>3. s \in {UpdateTask(c), UpdateTask(c) \o AddTo(c.status, c)}
      <4>1. UpdateTask(c) \o <<>> = UpdateTask(c)
        BY <3>1, ListTypes, ConcatType DEF Key, Status
      <4> QED BY <3>1, <4>1
    <3> HIDE DEF s
    <3>4. todo'[a] # <<>> /\ Head(todo'[a]).op = "update" /\ Head(todo'[a]).copy = c
      BY <3>1, <3>2, <3>3, IssuedLists
    <3>5. Carried(a[2], "unlock", c)
      BY <2>1, <2>2, <2>3, <3>1, <3>2 DEF Carried, Sound, Statuses, From
    <3>6. Replaces(a[2], "unlock", rec'[c.id], c)
      BY <2>1, <2>2, <2>3, <3>1, <3>2 DEF Replaces, From
    <3>7. Hand(a)' = c /\ Agrees(a)'
      BY <3>2, <3>4, <3>5, <3>6, Writing
    <3> QED BY <2>2, <3>1, <3>7
  <2>8. ~Skip(a) /\ ~Unlock(a) => Begin(a) \/ CountAttempt(a) \/ Deliver(a) \/ Settle(a)
    BY <1>1 DEF Work
  <2> QED BY <1>5, <2>4, <2>5, <2>6, <2>7, <2>8
<1>7. pc[a] = "unlock" => Unlock(a)
  BY <1>1 DEF Work, Skip, Begin, CountAttempt, Deliver, Settle, At
<1> QED BY <1>2, <1>5, <1>6, <1>7

(* Where the goroutines of a role are when there is one process.           *)
LEMMA OneDispatcher ==
    ASSUME Solo, NEW a \in Actor, NEW b \in Actor,
           a[2] = "dispatcher", b[2] = "dispatcher"
    PROVE  a = b
<1>1. a \in Proc \X Role /\ b \in Proc \X Role
  BY SchedulerAssumption
<1>2. a[1] = b[1]
  BY <1>1 DEF Solo
<1> QED BY <1>1, <1>2

(* The steps of the dispatcher that neither read the retry set nor put     *)
(* anything into the channel.                                              *)
LEMMA ClaimCustody ==
    ASSUME TypeInv, StoreInv, (TypeInv /\ StoreInv)', CustodyInv,
           NEW a \in Actor, PassOver(a) \/ Claim(a) \/ PutBack(a)
    PROVE  CustodyInv'
<1>0. /\ a[1] \in Proc /\ phase[a[1]] = "running"
      /\ Placed(a[2], pc[a], cur[a])
      /\ Moves(a) /\ todo[a] = <<>>
  BY OneStore, ProgramMoves DEF Program, Dispatch, Moves
<1>1. /\ pc[a] \in {"claim", "put"}
      /\ UNCHANGED <<batch, queue>>
  BY DEF PassOver, Claim, PutBack, At, procVars, extVars
<1>2. a[2] = "dispatcher" /\ a[2] \notin Canceller /\ a[2] \notin Worker
  BY <1>0, <1>1, RoleOf, Roles
<1>3. SUFFICES Hand(a)' = None \/ (/\ Active(a, Hand(a)'.id) /\ Hand(a)'.id \in Task
                                  /\ Agrees(a)')
  BY <1>0, <1>1, <1>2, WorkOn
<1> DEFINE c0 == cur[a]
<1>4. /\ c0 \in Copy /\ c0.id \in Task
      /\ Active(a, c0.id) /\ Carried(a[2], pc[a], c0)
      /\ rec[c0.id] = c0 /\ rec' = rec
  BY <1>0, <1>1, InHandNow DEF CustodyInv, Holding, Moves
<1>5. c0.attempts \in Nat /\ MaxAttempts \in Nat \ {0} /\ c0 # None
  BY <1>4, SchedulerAssumption, NoneAssumption DEF Copy
<1>6. CASE PassOver(a)
  <2>1. cur'[a] = None /\ todo' = todo
    BY <1>6, TypeParts DEF PassOver, Hold, storeVars
  <2> QED BY <1>0, <2>1 DEF Hand
<1>7. CASE Claim(a)
  <2> DEFINE c == [c0 EXCEPT !.status = "queued"]
             s == UpdateTask(c) \o RemoveFrom("retry_pending", c)
  <2>1. /\ c \in Copy /\ c.id = c0.id /\ c.status = "queued"
        /\ c.attempts = c0.attempts /\ c.due = c0.due
    BY <1>4 DEF Copy, Status
  <2>2. pc[a] = "claim" /\ pc'[a] = "put" /\ todo'[a] = s
    BY <1>7, TypeParts DEF Claim, At, Goto, Hold, Issue
  <2> HIDE DEF c
  <2>3. s \in {UpdateTask(c) \o RemoveFrom(k, c) : k \in Status \ {c.status}}
    BY <2>1 DEF Status
  <2> HIDE DEF s
  <2>4. todo'[a] # <<>> /\ Head(todo'[a]).op = "update" /\ Head(todo'[a]).copy = c
    BY <2>1, <2>2, <2>3, IssuedLists
  <2>5. Carried(a[2], "put", c) /\ Replaces(a[2], "put", rec'[c.id], c)
    BY <1>2, <1>4, <1>5, <2>1, <2>2 DEF Carried, Sound, Statuses, Replaces, From
  <2>6. Hand(a)' = c /\ Agrees(a)'
    BY <2>2, <2>4, <2>5, Writing
  <2> QED BY <1>4, <2>1, <2>6
<1>8. CASE PutBack(a)
  <2> DEFINE c == [c0 EXCEPT !.status = "retry_pending"]
             s == UpdateTask(c) \o AddTo("retry_pending", c)
  <2>1. /\ c \in Copy /\ c.id = c0.id /\ c.status = "retry_pending"
        /\ c.attempts = c0.attempts /\ c.due = c0.due
    BY <1>4 DEF Copy, Status
  <2>2. pc[a] = "put" /\ pc'[a] = "unlock" /\ todo'[a] = s
    BY <1>8, TypeParts DEF PutBack, At, Goto, Hold, Issue
  <2> HIDE DEF c
  <2>3. s = UpdateTask(c) \o AddTo(c.status, c)
    BY <2>1
  <2> HIDE DEF s
  <2>4. todo'[a] # <<>> /\ Head(todo'[a]).op = "update" /\ Head(todo'[a]).copy = c
    BY <2>1, <2>2, <2>3, IssuedLists
  <2>5. Carried(a[2], "unlock", c) /\ Replaces(a[2], "unlock", rec'[c.id], c)
    BY <1>2, <1>4, <1>5, <2>1, <2>2 DEF Carried, Sound, Statuses, Replaces, From
  <2>6. Hand(a)' = c /\ Agrees(a)'
    BY <2>2, <2>4, <2>5, Writing
  <2> QED BY <1>4, <2>1, <2>6
<1> QED BY <1>6, <1>7, <1>8

LEMMA OfferFullCustody ==
    ASSUME TypeInv, StoreInv, (TypeInv /\ StoreInv)', CustodyInv,
           NEW a \in Actor, OfferFull(a)
    PROVE  CustodyInv'
<1>0. /\ Placed(a[2], pc[a], cur[a]) /\ Moves(a) /\ todo[a] = <<>>
      /\ Carries(pc[a], cur[a])
  BY OneStore, ProgramMoves DEF Program, Enqueue, Moves
<1>1. pc[a] = "offer" /\ UNCHANGED <<batch, queue>>
  BY DEF OfferFull, At, procVars, extVars
<1>2. a[2] \in Handler /\ a[2] \notin Canceller /\ a[2] # "dispatcher"
  BY <1>0, <1>1, RoleOf, Roles
<1> DEFINE c0 == cur[a]
           c == Reset(c0)
           s == UpdateTask(c) \o AddTo("retry_pending", c)
<1>3. /\ c0 \in Copy /\ c0.id \in Task
      /\ Active(a, c0.id) /\ Carried(a[2], pc[a], c0)
      /\ rec[c0.id] = c0 /\ rec' = rec
  BY <1>0, <1>1, InHandNow DEF CustodyInv, Holding, Moves
<1>4. c0.attempts \in Nat /\ MaxAttempts \in Nat \ {0}
  BY <1>3, SchedulerAssumption, NoneAssumption DEF Copy
<1>5. c0 # None
  BY <1>3, NoneAssumption
<1>6. /\ c \in Copy /\ c.id = c0.id /\ c.status = "retry_pending"
      /\ c.attempts = c0.attempts /\ c.due = FALSE
  BY <1>3 DEF Copy, Status, Reset
<1>7. pc'[a] = "accept" /\ todo'[a] = s
  BY TypeParts DEF OfferFull, Goto, Issue
<1> HIDE DEF c
<1>8. s = UpdateTask(c) \o AddTo(c.status, c)
  BY <1>6
<1> HIDE DEF s
<1>9. todo'[a] # <<>> /\ Head(todo'[a]).op = "update" /\ Head(todo'[a]).copy = c
  BY <1>6, <1>7, <1>8, IssuedLists
<1>10. /\ c0.status = "queued" /\ c0.due /\ c0.attempts < MaxAttempts
  BY <1>1, <1>3 DEF Carried, Statuses, Sound
<1>11. Carried(a[2], "accept", c) /\ Replaces(a[2], "accept", rec'[c.id], c)
  BY <1>2, <1>3, <1>4, <1>5, <1>6, <1>10
     DEF Carried, Sound, Statuses, Replaces, From
<1>12. Hand(a)' = c /\ Agrees(a)'
  BY <1>7, <1>9, <1>11, Writing
<1> QED BY <1>0, <1>1, <1>2, <1>3, <1>6, <1>12, WorkOn

(* A task that is put into a channel: the record of it, in nobody's hands  *)
(* any more, in no channel and not to be retried.                          *)
LEMMA AppendCustody ==
    ASSUME TypeInv, CustodyInv, NEW a \in Actor, Moves(a), NEW q \in Proc,
           NEW c \in Copy, c.id \in Task,
           queue' = [queue EXCEPT ![q] = Append(queue[q], c)],
           UNCHANGED batch, pc'[a] \in {"poll", "accept"}, a[2] \notin Canceller,
           rec[c.id] = c, c.status = "queued", c.due,
           \A t \in Task : ~Has(a, t)',
           \A b \in Actor \ {a} : ~Has(b, c.id),
           \A p \in Proc : Waiting(p, c.id) = {},
           c.id \notin members["retry_pending"],
           \A d \in Actor : c.id \notin batch[d]
    PROVE  CustodyInv'
<1>1. rec' = rec /\ queue \in [Proc -> Seq(Copy)]
  BY TypeParts DEF Moves, RestOK
<1>2. /\ DOMAIN queue'[q] = DOMAIN queue[q] \cup {Len(queue[q]) + 1}
      /\ queue'[q][Len(queue[q]) + 1] = c
      /\ \A i \in DOMAIN queue[q] : queue'[q][i] = queue[q][i]
      /\ \A p \in Proc \ {q} : queue'[p] = queue[p]
  <2>1. /\ queue'[q] = Append(queue[q], c) /\ queue[q] \in Seq(Copy)
        /\ \A p \in Proc \ {q} : queue'[p] = queue[p]
    BY <1>1
  <2> QED BY <2>1
<1>3. \A p \in Proc : \A i \in DOMAIN queue'[p] :
        \/ i \in DOMAIN queue[p] /\ queue'[p][i] = queue[p][i]
        \/ p = q /\ i = Len(queue[q]) + 1 /\ queue'[p][i] = c
  BY <1>2
<1>4. ASSUME NEW p \in Proc, NEW i \in DOMAIN queue'[p], NEW d, d = queue'[p][i]
      PROVE  Waits(d)'
  <2>1. CASE i \in DOMAIN queue[p] /\ d = queue[p][i]
    <3>1. d.id \in Task
      BY <2>1, InChannel
    <3>2. Waits(d)
      BY <2>1 DEF CustodyInv, Channel, Waits
    <3>3. \A b \in Actor : ~Has(b, d.id)'
      BY <3>1, <3>2, OthersKeep DEF Waits
    <3> QED BY <1>1, <3>2, <3>3 DEF Waits
  <2>2. CASE d = c
    <3>1. \A b \in Actor : ~Has(b, c.id)'
      BY OthersKeep
    <3> QED BY <1>1, <2>2, <3>1 DEF Waits
  <2> QED BY <1>3, <1>4, <2>1, <2>2
<1>5. ASSUME NEW p \in Proc, NEW t \in Task
      PROVE  /\ \A i, j \in Waiting(p, t)' : i = j
             /\ Waiting(p, t)' # {} => Waiting(p, t) # {} \/ c.id = t
  <2>1. /\ \A i \in Waiting(p, t)' : i \in Waiting(p, t)
             \/ (t = c.id /\ p = q /\ i = Len(queue[q]) + 1)
    BY <1>3 DEF Waiting
  <2>2. \A i, j \in Waiting(p, t) : i = j
    BY DEF CustodyInv, Channel
  <2> QED BY <2>1, <2>2
<1>6. Channel'
  BY <1>4, <1>5, ChannelNext
<1>7. \A t \in Task : ~Active(a, t)'
  BY DEF Active
<1>8. ASSUME NEW t \in Task, \E p \in Proc : Waiting(p, t)' # {}
      PROVE  /\ t \notin members["retry_pending"]
             /\ \A d \in Actor : t \notin batch'[d]
  <2>1. c.id = t \/ \E p \in Proc : Waiting(p, t) # {}
    BY <1>5, <1>8
  <2> QED BY <2>1 DEF CustodyInv, Retries
<1>9. Idle'
  <2>1. ASSUME NEW b \in Actor
        PROVE  /\ b[2] \in Canceller => pc'[b] = "cancel"
               /\ b[2] # "dispatcher" => batch'[b] = {}
    BY DEF CustodyInv, Idle, Moves
  <2> QED BY <2>1 DEF Idle
<1> QED BY <1>6, <1>7, <1>8, <1>9, MovesCustody

LEMMA PutCustody ==
    ASSUME TypeInv, LockInv, StoreInv, Indexed, (TypeInv /\ StoreInv)', CustodyInv,
           NEW a \in Actor, Put(a)
    PROVE  CustodyInv'
<1>0. /\ Placed(a[2], pc[a], cur[a]) /\ Moves(a) /\ todo[a] = <<>> /\ a[1] \in Proc
  BY OneStore, ProgramMoves DEF Program, Dispatch, Moves
<1> DEFINE c == cur[a]
<1>1. /\ pc[a] = "put" /\ UNCHANGED batch
      /\ queue' = [queue EXCEPT ![a[1]] = Append(queue[a[1]], c)]
      /\ pc'[a] = "poll" /\ cur'[a] = None /\ todo'[a] = <<>>
  BY <1>0, TypeParts DEF Put, At, Goto, Hold, storeVars
<1>2. a[2] = "dispatcher" /\ a[2] \notin Canceller
  BY <1>0, <1>1, RoleOf, Roles
<1>3. /\ c \in Copy /\ c.id \in Task /\ c # None
      /\ Active(a, c.id) /\ Carried(a[2], pc[a], c) /\ rec[c.id] = c
  BY <1>0, <1>1, InHandNow DEF CustodyInv, Holding
<1>4. c.status = "queued" /\ c.due
  BY <1>1, <1>3 DEF Carried, Statuses
<1>5. \A t \in Task : ~Has(a, t)'
  <2>1. Hand(a)' = None
    BY <1>1 DEF Hand
  <2> QED BY <2>1, HandNext
<1>6. ASSUME NEW b \in Actor \ {a} PROVE ~Has(b, c.id)
  <2>1. ~Active(b, c.id)
    BY <1>3 DEF CustodyInv, Alone
  <2>2. ASSUME Spent(b), Has(b, c.id) PROVE FALSE
    <3>1. pc[b] = "unlock" /\ Holds(b, c.id)
      BY <2>2 DEF Spent, Has, Writes
    <3>2. InSection(b, c.id) /\ InSection(a, c.id)
      BY <1>1, <1>3, <3>1 DEF InSection, Section, Holds
    <3> QED BY <1>3, <3>2 DEF LockInv, MutualExclusion
  <2> QED BY <2>1, <2>2 DEF Active
<1>7. \A p \in Proc : Waiting(p, c.id) = {}
  <2> SUFFICES ASSUME NEW p \in Proc, NEW i \in Waiting(p, c.id) PROVE FALSE
    OBVIOUS
  <2>1. i \in DOMAIN queue[p] /\ queue[p][i].id = c.id
    BY DEF Waiting
  <2>2. ~Has(a, c.id)
    BY <2>1 DEF CustodyInv, Channel
  <2> QED BY <1>3, <2>2 DEF Active
<1>8. ~ \E x \in Actor : Writes(x, c.id)
  <2> SUFFICES ASSUME NEW x \in Actor, Writes(x, c.id) PROVE FALSE
    OBVIOUS
  <2>1. Active(x, c.id)
    BY DEF Active, Has, Spent, Writes
  <2>2. x = a
    BY <1>3, <2>1 DEF CustodyInv, Alone
  <2> QED BY <1>0, <2>2 DEF Writes
<1>9. c.id \notin members["retry_pending"]
  <2>1. ~Pending("rem", "retry_pending", c.id)
    <3> SUFFICES ASSUME NEW x \in Actor, NEW y \in Elems(todo[x]), y.copy.id = c.id
                 PROVE FALSE
      BY DEF Pending
    <3>1. Writes(x, c.id)
      BY DEF Writes, Elems
    <3> QED BY <1>8, <3>1
  <2>2. Known(c.id) /\ rec[c.id].status = "queued"
    BY <1>3, <1>4 DEF Known
  <2> QED BY <1>3, <2>1, <2>2 DEF Indexed, Status
<1>10. \A d \in Actor : c.id \notin batch[d]
  BY <1>3, <1>8 DEF CustodyInv, Retries
<1> HIDE DEF c
<1> QED BY <1>0, <1>1, <1>2, <1>3, <1>4, <1>5, <1>6, <1>7, <1>9, <1>10, AppendCustody

LEMMA OfferCustody ==
    ASSUME TypeInv, StoreInv, BirthInv, (TypeInv /\ StoreInv)', CustodyInv,
           NEW a \in Actor, Offer(a)
    PROVE  CustodyInv'
<1>0. /\ Placed(a[2], pc[a], cur[a]) /\ Moves(a) /\ todo[a] = <<>> /\ a[1] \in Proc
  BY OneStore, ProgramMoves DEF Program, Enqueue, Moves
<1> DEFINE c == cur[a]
<1>1. /\ pc[a] = "offer" /\ UNCHANGED batch
      /\ queue' = [queue EXCEPT ![a[1]] = Append(queue[a[1]], c)]
      /\ pc'[a] = "accept" /\ cur'[a] = None /\ todo'[a] = <<>>
  BY <1>0, TypeParts DEF Offer, At, Goto, Hold, storeVars
<1>2. a[2] \in Handler /\ a[2] \notin Canceller
  BY <1>0, <1>1, RoleOf, Roles
<1>3. /\ c \in Copy /\ c.id \in Task /\ c # None
      /\ Active(a, c.id) /\ Carried(a[2], pc[a], c) /\ rec[c.id] = c
  BY <1>0, <1>1, InHandNow DEF CustodyInv, Holding
<1>4. c.status = "queued" /\ c.due
  BY <1>1, <1>3 DEF Carried, Statuses
<1>5. \A t \in Task : ~Has(a, t)'
  <2>1. Hand(a)' = None
    BY <1>1 DEF Hand
  <2> QED BY <2>1, HandNext
<1>6. Young(a, c.id)
  BY <1>2, <1>3 DEF Young, Active
<1>7. /\ \A b \in Actor \ {a} : ~Has(b, c.id)
      /\ \A p \in Proc : Waiting(p, c.id) = {}
  BY <1>3, <1>6 DEF BirthInv, YoungAlone
<1>8. /\ c.id \notin members["retry_pending"]
      /\ \A d \in Actor : c.id \notin batch[d]
  BY <1>1, <1>3, <1>6 DEF BirthInv, YoungNotDue
<1> HIDE DEF c
<1> QED BY <1>0, <1>1, <1>2, <1>3, <1>4, <1>5, <1>7, <1>8, AppendCustody

LEMMA TakeCustody ==
    ASSUME Solo, TypeInv, StoreInv, (TypeInv /\ StoreInv)', CustodyInv,
           NEW a \in Actor, Take(a)
    PROVE  CustodyInv'
<1>0. /\ Placed(a[2], pc[a], cur[a]) /\ Moves(a) /\ todo[a] = <<>> /\ a[1] \in Proc
      /\ queue \in [Proc -> Seq(Copy)]
  BY OneStore, ProgramMoves, TypeParts DEF Program, Work, Moves, RestOK
<1> DEFINE q == a[1]
           c == Head(queue[q])
<1>1. /\ pc[a] = "take" /\ UNCHANGED batch /\ queue[q] # <<>>
      /\ queue' = [queue EXCEPT ![q] = Tail(queue[q])]
      /\ pc'[a] = "lock" /\ cur'[a] = c /\ todo'[a] = <<>>
  BY <1>0, TypeParts DEF Take, At, Goto, Hold, storeVars
<1>2. a[2] \in Worker /\ a[2] \notin Canceller /\ a[2] # "dispatcher"
  BY <1>0, <1>1, RoleOf, Roles
<1>3. queue[q] \in Seq(Copy) /\ 1 \in DOMAIN queue[q] /\ queue[q][1] = c
  BY <1>0, <1>1
<1>4. c \in Copy /\ c.id \in Task /\ 1 \in Waiting(q, c.id) /\ c # None
  BY <1>0, <1>3, InChannel, NoneAssumption
<1>5. /\ rec[c.id] = c /\ c.status = "queued" /\ c.due
      /\ \A b \in Actor : ~Has(b, c.id)
  BY <1>0, <1>3 DEF CustodyInv, Channel
<1>6. \A t \in Task : Has(a, t)' => t = c.id
  <2>1. Hand(a)' = c
    BY <1>1 DEF Hand
  <2> QED BY <1>4, <2>1, HandNext
<1>7. rec' = rec
  BY <1>0 DEF Moves
<1>8. Agrees(a)'
  <2>1. Sound(c)
    BY <1>4, <1>5 DEF CustodyInv, Sane, Known
  <2>2. Carried(a[2], "lock", c)
    BY <1>5, <2>1 DEF Carried, Statuses, From
  <2>3. Hand(a)' = c /\ ~Unwritten(a)'
    BY <1>1 DEF Hand, Unwritten
  <2> QED BY <1>1, <1>5, <1>7, <2>2, <2>3 DEF Agrees
<1>9. /\ c.id \notin members["retry_pending"]
      /\ \A d \in Actor : c.id \notin batch'[d]
  BY <1>0, <1>1, <1>4 DEF CustodyInv, Retries
<1>10. ASSUME NEW p \in Proc, NEW i \in DOMAIN queue'[p]
       PROVE  /\ p = q /\ i \in Nat /\ i + 1 \in DOMAIN queue[p] /\ i + 1 # 1
              /\ queue'[p][i] = queue[p][i + 1]
  <2>1. \A j \in DOMAIN Tail(queue[q]) :
          /\ j \in Nat /\ j + 1 \in DOMAIN queue[q] /\ j + 1 # 1
          /\ Tail(queue[q])[j] = queue[q][j + 1]
    BY <1>1, <1>3
  <2>2. p = q /\ queue'[q] = Tail(queue[q])
    BY <1>0, <1>1 DEF Solo
  <2> QED BY <2>1, <2>2
<1>11. ASSUME NEW p \in Proc, NEW t \in Task, NEW i \in Waiting(p, t)'
       PROVE  i \in Nat /\ i + 1 \in Waiting(p, t) /\ t # c.id
  <2>1. i \in DOMAIN queue'[p] /\ queue'[p][i].id = t
    BY DEF Waiting
  <2>2. i \in Nat /\ i + 1 \in Waiting(p, t) /\ i + 1 # 1 /\ p = q
    BY <1>10, <2>1 DEF Waiting
  <2>3. \A j, k \in Waiting(p, t) : j = k
    BY DEF CustodyInv, Channel
  <2> QED BY <1>4, <2>2, <2>3
<1>12. Channel'
  <2>1. ASSUME NEW p \in Proc, NEW i \in DOMAIN queue'[p], NEW d, d = queue'[p][i]
        PROVE  Waits(d)'
    <3>1. i + 1 \in DOMAIN queue[p] /\ d = queue[p][i + 1]
      BY <1>10, <2>1
    <3>2. d.id \in Task /\ i \in Waiting(p, d.id)'
      BY <2>1, <3>1, InChannel DEF Waiting
    <3>3. d.id # c.id
      BY <1>11, <3>2
    <3>4. Waits(d)
      BY <3>1 DEF CustodyInv, Channel, Waits
    <3>5. \A b \in Actor : ~Has(b, d.id)'
      BY <1>0, <1>6, <3>2, <3>3, <3>4, OthersKeep DEF Waits
    <3> QED BY <1>7, <3>4, <3>5 DEF Waits
  <2>2. ASSUME NEW p \in Proc, NEW t \in Task, NEW i \in Waiting(p, t)',
               NEW j \in Waiting(p, t)'
        PROVE  i = j
    <3>1. i \in Nat /\ j \in Nat /\ i + 1 \in Waiting(p, t) /\ j + 1 \in Waiting(p, t)
      BY <1>11
    <3>2. i + 1 = j + 1
      BY <3>1 DEF CustodyInv, Channel
    <3> QED BY <3>1, <3>2
  <2> QED BY <2>1, <2>2, ChannelNext
<1>13. ASSUME NEW t \in Task, Active(a, t)'
       PROVE  /\ Agrees(a)'
              /\ \A b \in Actor \ {a} : ~Active(b, t)
              /\ a[2] = "dispatcher" \/ t \notin members["retry_pending"]
              /\ \A d \in Actor : t \notin batch'[d]
  BY <1>5, <1>6, <1>8, <1>9, <1>13 DEF Active
<1>14. ASSUME NEW t \in Task, \E p \in Proc : Waiting(p, t)' # {}
       PROVE  /\ t \notin members["retry_pending"]
              /\ \A d \in Actor : t \notin batch'[d]
  <2>1. \E p \in Proc : Waiting(p, t) # {}
    BY <1>11, <1>14
  <2> QED BY <1>1, <2>1 DEF CustodyInv, Retries
<1>15. Idle'
  <2>1. ASSUME NEW b \in Actor
        PROVE  /\ b[2] \in Canceller => pc'[b] = "cancel"
               /\ b[2] # "dispatcher" => batch'[b] = {}
    BY <1>0, <1>1, <1>2 DEF CustodyInv, Idle, Moves
  <2> QED BY <2>1 DEF Idle
<1> QED BY <1>0, <1>1, <1>12, <1>13, <1>14, <1>15, MovesCustody

(* Reading the retry set: what is in it is not being worked on.            *)
LEMMA PollCustody ==
    ASSUME Solo, TypeInv, StoreInv, Indexed, (TypeInv /\ StoreInv)', CustodyInv,
           NEW a \in Actor, Poll(a)
    PROVE  CustodyInv'
<1>0. /\ Placed(a[2], pc[a], cur[a]) /\ Moves(a) /\ todo[a] = <<>>
      /\ members \in [Key -> SUBSET Task]
  BY OneStore, ProgramMoves, TypeParts DEF Program, Dispatch, Moves, RestOK
<1>1. /\ pc[a] = "poll" /\ batch' = [batch EXCEPT ![a] = members["retry_pending"]]
      /\ UNCHANGED <<queue, pc, cur, todo>>
  BY DEF Poll, At, procVars, storeVars
<1>2. a[2] = "dispatcher" /\ a[2] \notin Canceller /\ cur[a] = None
  BY <1>0, <1>1, RoleOf, Roles DEF Holding
<1>3. batch'[a] = members["retry_pending"] /\ \A d \in Actor \ {a} : batch'[d] = batch[d]
  BY <1>1, TypeParts DEF RestOK
<1>4. \A t \in Task : ~Has(a, t) /\ ~Has(a, t)'
  <2>1. Hand(a) = None /\ Hand(a)' = None
    BY <1>0, <1>1, <1>2 DEF Hand
  <2> QED BY <2>1, HandOf, HandNext
<1>5. ASSUME NEW t \in Task, t \in members["retry_pending"]
      PROVE  /\ StatusOf(t) = "retry_pending"
             /\ \A b \in Actor : Active(b, t) => Writes(b, t) /\ ~rec[t].due
  <2>1. Known(t)
    BY <1>5 DEF Indexed, Key, Status
  <2>2. ASSUME NEW b \in Actor, Active(b, t)
        PROVE  Writes(b, t) /\ ~rec[t].due
    <3>1. b # a
      BY <1>4, <2>2 DEF Active
    <3>2. a[2] = "dispatcher" /\ (b[2] = "dispatcher" => b = a)
      BY <1>2, OneDispatcher
    <3> QED BY <1>5, <2>2, <3>1, <3>2 DEF CustodyInv, Retries
  <2>3. CASE \E x \in Actor : Writes(x, t)
    <3>1. PICK x \in Actor : Writes(x, t)
      BY <2>3
    <3>2. Active(x, t)
      BY <3>1 DEF Active, Has, Spent, Writes
    <3>3. rec[t].status = "retry_pending"
      BY <2>1, <2>2, <3>2, NotDue DEF CustodyInv
    <3> QED BY <2>1, <2>2, <3>3 DEF StatusOf
  <2>4. CASE ~ \E x \in Actor : Writes(x, t)
    <3>1. ~Pending("rem", "retry_pending", t)
      <4> SUFFICES ASSUME NEW x \in Actor, NEW y \in Elems(todo[x]), y.copy.id = t
                   PROVE FALSE
        BY DEF Pending
      <4>1. Writes(x, t)
        BY DEF Writes, Elems
      <4> QED BY <2>4, <4>1
    <3>2. rec[t].status = "retry_pending"
      BY <1>5, <2>1, <3>1 DEF Indexed, Status
    <3> QED BY <2>1, <2>2, <3>2 DEF StatusOf
  <2> QED BY <2>3, <2>4
<1>6. Channel' /\ \A p \in Proc, t \in Task : Waiting(p, t)' = Waiting(p, t)
  BY <1>0, <1>1, <1>4, SameChannel
<1>7. \A t \in Task : ~Active(a, t)'
  BY <1>4 DEF Active
<1>8. ASSUME NEW t \in Task, \E p \in Proc : Waiting(p, t)' # {}
      PROVE  /\ t \notin members["retry_pending"]
             /\ \A d \in Actor : t \notin batch'[d]
  <2>1. \E p \in Proc : Waiting(p, t) # {}
    BY <1>6, <1>8
  <2>2. /\ t \notin members["retry_pending"]
        /\ \A d \in Actor : t \notin batch[d]
    BY <2>1 DEF CustodyInv, Retries
  <2> QED BY <1>3, <2>2
<1>9. Idle'
  <2>1. ASSUME NEW b \in Actor
        PROVE  /\ b[2] \in Canceller => pc'[b] = "cancel"
               /\ b[2] # "dispatcher" => batch'[b] = {}
    BY <1>1, <1>2, <1>3 DEF CustodyInv, Idle
  <2> QED BY <2>1 DEF Idle
<1>10. ASSUME NEW d \in Actor, NEW t \in Task, t \in batch'[d]
       PROVE \/ t \in batch[d]
             \/ /\ t \in members["retry_pending"] /\ StatusOf(t) = "retry_pending"
                /\ \A b \in Actor : Active(b, t) => Writes(b, t) /\ ~rec[t].due
  BY <1>3, <1>5, <1>10
<1> QED BY <1>0, <1>6, <1>7, <1>8, <1>9, <1>10, MovesCustody

(* What the dispatcher finds due is where its list said: in the retry set  *)
(* and with nobody, however old the list.                                  *)
LEMMA InspectCustody ==
    ASSUME Solo, TypeInv, StoreInv, (TypeInv /\ StoreInv)', CustodyInv,
           NEW a \in Actor, NEW u \in Task, Inspect(a, u)
    PROVE  CustodyInv'
<1>0. /\ Placed(a[2], pc[a], cur[a]) /\ Moves(a) /\ todo[a] = <<>> /\ todo'[a] = <<>>
      /\ batch \in [Actor -> SUBSET Task] /\ rec' = rec
  BY OneStore, ProgramMoves, TypeParts
     DEF Program, Dispatch, Moves, RestOK, Inspect, storeVars
<1>1. /\ pc[a] = "poll" /\ u \in batch[a] /\ batch' = [batch EXCEPT ![a] = @ \ {u}]
      /\ UNCHANGED queue
  BY DEF Inspect, At, procVars
<1>2. a[2] = "dispatcher" /\ a[2] \notin Canceller /\ cur[a] = None
  BY <1>0, <1>1, RoleOf, Roles DEF Holding
<1>3. /\ batch'[a] = batch[a] \ {u} /\ \A d \in Actor \ {a} : batch'[d] = {}
  <2>1. \A d \in Actor \ {a} : d[2] # "dispatcher"
    <3>1. Solo /\ a[2] = "dispatcher"
      BY <1>2
    <3> QED BY <3>1, OneDispatcher
  <2> QED BY <1>0, <1>1, <2>1 DEF CustodyInv, Idle
<1>4. /\ StatusOf(u) = "retry_pending" /\ \A p \in Proc : Waiting(p, u) = {}
      /\ \A b \in Actor : Active(b, u) => ~rec[u].due
  BY <1>1 DEF CustodyInv, Retries
<1>5. Known(u) /\ rec[u].status = "retry_pending" /\ rec[u] \in Copy /\ rec[u].id = u
  <2>1. Known(u) /\ rec[u].status = "retry_pending"
    BY <1>4 DEF StatusOf
  <2> QED BY <2>1, OneStore
<1>6. \/ rec[u].due /\ pc'[a] = "claim" /\ cur'[a] = rec[u]
      \/ cur'[a] = None /\ pc'[a] = "poll"
  BY <1>1, <1>2, TypeParts DEF Inspect, Hold, Goto
<1>7. ASSUME NEW t \in Task, Has(a, t)'
      PROVE  /\ t = u /\ rec[u].due /\ Agrees(a)'
             /\ \A b \in Actor : ~Active(b, u)
  <2>1. Hand(a)' = cur'[a] /\ ~Unwritten(a)'
    BY <1>0 DEF Hand, Unwritten
  <2>2. cur'[a] # None /\ cur'[a].id = t
    BY <1>7, <2>1, HandNext
  <2>3. rec[u].due /\ pc'[a] = "claim" /\ cur'[a] = rec[u] /\ t = u
    BY <1>5, <1>6, <2>2
  <2>4. Sound(rec[u])
    BY <1>5 DEF CustodyInv, Sane
  <2>5. Carried(a[2], "claim", rec[u])
    BY <1>5, <2>3, <2>4 DEF Carried, Statuses, From
  <2>6. Agrees(a)'
    BY <1>0, <1>5, <2>1, <2>3, <2>5 DEF Agrees
  <2> QED BY <1>4, <2>3, <2>6
<1>8. Channel' /\ \A p \in Proc, t \in Task : Waiting(p, t)' = Waiting(p, t)
  BY <1>0, <1>1, <1>4, <1>7, SameChannel
<1>9. ASSUME NEW t \in Task, Active(a, t)'
      PROVE  /\ Agrees(a)'
             /\ \A b \in Actor \ {a} : ~Active(b, t)
             /\ a[2] = "dispatcher" \/ t \notin members["retry_pending"]
             /\ \A d \in Actor : t \notin batch'[d]
  <2>1. Has(a, t)'
    BY <1>9 DEF Active
  <2> QED BY <1>2, <1>3, <1>7, <2>1
<1>10. ASSUME NEW t \in Task, \E p \in Proc : Waiting(p, t)' # {}
      PROVE  /\ t \notin members["retry_pending"]
             /\ \A d \in Actor : t \notin batch'[d]
  <2>1. \E p \in Proc : Waiting(p, t) # {}
    BY <1>8, <1>10
  <2>2. /\ t \notin members["retry_pending"]
        /\ \A d \in Actor : t \notin batch[d]
    BY <2>1 DEF CustodyInv, Retries
  <2> QED BY <1>3, <2>2
<1>11. Idle'
  <2>1. ASSUME NEW b \in Actor
        PROVE  /\ b[2] \in Canceller => pc'[b] = "cancel"
               /\ b[2] # "dispatcher" => batch'[b] = {}
    BY <1>0, <1>2, <1>3 DEF CustodyInv, Idle, Moves
  <2> QED BY <2>1 DEF Idle
<1>12. \A d \in Actor, t \in Task : t \in batch'[d] => t \in batch[d]
  BY <1>3
<1> QED BY <1>0, <1>8, <1>9, <1>10, <1>11, <1>12, MovesCustody

LEMMA AcceptCustody ==
    ASSUME TypeInv, StoreInv, BirthInv, Indexed, (TypeInv /\ StoreInv)', CustodyInv,
           NEW a \in Actor, NEW u \in Task, Accept(a, u)
    PROVE  CustodyInv'
<1>0. /\ Placed(a[2], pc[a], cur[a]) /\ Moves(a) /\ todo[a] = <<>>
      /\ rec' = rec
  BY OneStore, ProgramMoves DEF Program, Request, Moves
<1>1. /\ pc[a] = "accept" /\ u \notin accepted /\ UNCHANGED <<queue, batch>>
      /\ pc'[a] = "offer" /\ cur'[a] = NewTask(u) /\ todo'[a] = SaveTask(NewTask(u))
  BY TypeParts, AcceptHas DEF Accept, At, Goto, procVars
<1>2. a[2] \in Handler /\ a[2] \notin Canceller /\ a[2] # "dispatcher"
  BY <1>0, <1>1, RoleOf, Roles
<1> DEFINE c == NewTask(u)
<1>3. c \in Copy /\ c.id = u
  BY NewTaskType
<1>4. /\ todo'[a] # <<>> /\ Head(todo'[a]).op = "set" /\ Head(todo'[a]).copy = c
  BY <1>1, <1>3, IssuedLists
<1>5. /\ ~Known(u) /\ \A p \in Proc : Waiting(p, u) = {}
      /\ \A b \in Actor : ~Has(b, u) /\ u \notin batch[b]
  BY <1>1 DEF BirthInv, Unborn
<1>6. u \notin members["retry_pending"]
  BY <1>5 DEF Indexed, Key, Status
<1>7. c.status = "queued" /\ c.attempts = 0 /\ c.due
  BY DEF NewTask
<1> HIDE DEF c
<1>8. Carried(a[2], "offer", c)
  <2>1. 0 < MaxAttempts
    BY SchedulerAssumption
  <2>2. Sound(c)
    BY <1>7, <2>1 DEF Sound
  <2> QED BY <1>2, <1>7, <2>2 DEF Carried, Statuses, From
<1>9. Replaces(a[2], "offer", rec'[c.id], c)
  BY <1>0, <1>3, <1>5 DEF Replaces, Known
<1>10. Agrees(a)'
  BY <1>1, <1>4, <1>8, <1>9, Writing
<1>11. \A t \in Task : Has(a, t)' => t = u
  BY AcceptHas
<1>12. Channel' /\ \A p \in Proc, t \in Task : Waiting(p, t)' = Waiting(p, t)
  BY <1>0, <1>1, <1>5, <1>11, SameChannel
<1>13. ASSUME NEW t \in Task, Active(a, t)'
       PROVE  /\ Agrees(a)'
              /\ \A b \in Actor \ {a} : ~Active(b, t)
              /\ a[2] = "dispatcher" \/ t \notin members["retry_pending"]
              /\ \A d \in Actor : t \notin batch'[d]
  BY <1>1, <1>5, <1>6, <1>10, <1>11, <1>13 DEF Active
<1>14. ASSUME NEW t \in Task, \E p \in Proc : Waiting(p, t)' # {}
       PROVE  /\ t \notin members["retry_pending"]
              /\ \A d \in Actor : t \notin batch'[d]
  <2>1. \E p \in Proc : Waiting(p, t) # {}
    BY <1>12, <1>14
  <2> QED BY <1>1, <2>1 DEF CustodyInv, Retries
<1>15. Idle'
  <2>1. ASSUME NEW b \in Actor
        PROVE  /\ b[2] \in Canceller => pc'[b] = "cancel"
               /\ b[2] # "dispatcher" => batch'[b] = {}
    BY <1>0, <1>1, <1>2 DEF CustodyInv, Idle, Moves
  <2> QED BY <2>1 DEF Idle
<1>16. \A d \in Actor, t \in Task : t \in batch'[d] => t \in batch[d]
  BY <1>1
<1> QED BY <1>0, <1>12, <1>13, <1>14, <1>15, <1>16, MovesCustody

LEMMA ProgramCustody ==
    ASSUME Solo, TypeInv, LockInv, CalmInv, (TypeInv /\ StoreInv)', CustodyInv,
           NEW a \in Actor, Program(a)
    PROVE  CustodyInv'
<1>0. /\ StoreInv /\ BirthInv /\ Indexed
      /\ a[1] \in Proc /\ phase[a[1]] = "running" /\ Placed(a[2], pc[a], cur[a])
  BY OneStore DEF CalmInv
<1>1. CASE Work(a)
  BY <1>0, <1>1, WorkCustody, TakeCustody
<1>2. CASE Dispatch(a)
  <2>1. ~DispatcherPanic(a)
    BY <1>0 DEF DispatcherPanic
  <2> QED BY <1>0, <1>2, <2>1, PollCustody, ClaimCustody, PutCustody, InspectCustody
             DEF Dispatch
<1>3. CASE Enqueue(a)
  <2>1. ~OfferPanic(a)
    BY <1>0 DEF OfferPanic
  <2> QED BY <1>0, <1>3, <2>1, OfferCustody, OfferFullCustody DEF Enqueue
<1>4. ~Mark(a)
  <2> SUFFICES ASSUME Mark(a) PROVE FALSE
    OBVIOUS
  <2>1. pc[a] = "mark"
    BY DEF Mark, At
  <2>2. a[2] \in Canceller
    BY <1>0, <2>1, RoleOf
  <2> QED BY <2>1, <2>2 DEF CustodyInv, Idle
<1>5. CASE \E t \in Task : Request(a, t)
  <2>1. PICK t \in Task : Request(a, t)
    BY <1>5
  <2>2. ~Cancel(a, t)
    BY DEF Cancel, Solo
  <2> QED BY <1>0, <2>1, <2>2, AcceptCustody DEF Request
<1> QED BY <1>1, <1>2, <1>3, <1>4, <1>5 DEF Program

(* A Redis command of a leaves the copy in its hands as it was.            *)
LEMMA ExecHand ==
    ASSUME TypeInv, StoreInv, (TypeInv /\ StoreInv)', NEW a \in Actor, Executes(a),
           Agreed
    PROVE  LET c == Head(todo[a]).copy IN
           /\ Hand(a) = c /\ Active(a, c.id) /\ Agrees(a) /\ c \in Copy /\ c.id \in Task
           /\ pc[a] # "log" /\ pc'[a] = pc[a] /\ cur'[a] = cur[a]
           /\ \A t \in Task : Active(a, t)' => t = c.id /\ Hand(a)' = c
           /\ \A t \in Task : Active(a, t)' /\ pc[a] \in {"accept", "unlock"} =>
                Writes(a, t)'
<1> DEFINE c == Head(todo[a]).copy
<1>1. /\ todo[a] # <<>> /\ c \in Copy /\ c.id \in Task
      /\ pc' = pc /\ cur' = cur
  BY DEF Executes, goVars
<1>2. Hand(a) = c /\ c # None
  BY <1>1, NoneAssumption DEF Hand
<1> HIDE DEF c
<1>3. Active(a, c.id)
  BY <1>1, <1>2, HandOf DEF Active, Spent
<1>4. Agrees(a) /\ pc[a] # "log"
  BY <1>1, <1>3 DEF Agreed, Agrees
<1>5. ASSUME NEW t \in Task, Active(a, t)'
      PROVE  /\ t = c.id /\ Hand(a)' = c
             /\ pc[a] \in {"accept", "unlock"} => Writes(a, t)'
  <2>1. Hand(a)' # None /\ Hand(a)'.id = t
    BY <1>5, HandNext DEF Active
  <2>2. CASE todo'[a] # <<>>
    <3>1. Head(todo'[a]).copy = c
      BY <2>2, ExecList DEF c
    <3>2. Hand(a)' = c
      BY <2>2, <3>1 DEF Hand
    <3>3. Head(todo'[a]) = todo'[a][1] /\ 1 \in DOMAIN todo'[a]
      <4>1. todo'[a] \in Seq(Command)
        BY DEF TypeInv, TypeOK, StoreTypeOK
      <4> QED BY <2>2, <4>1
    <3>4. Writes(a, t)'
      BY <2>1, <3>1, <3>2, <3>3 DEF Writes
    <3> QED BY <2>1, <3>2, <3>4
  <2>3. CASE todo'[a] = <<>>
    <3>1. Hand(a)' = cur[a] /\ cur[a] # None
      BY <1>1, <2>1, <2>3 DEF Hand
    <3>2. pc[a] \in Holding /\ pc[a] # "unlock"
      <4>1. pc[a] \in Holding
        BY <3>1, OneStore
      <4>2. ~Spent(a)'
        BY <1>5 DEF Active
      <4> QED BY <1>1, <2>3, <4>1, <4>2 DEF Spent
    <3>3. cur[a] = c
      <4>1. Author(a[2], pc[a], cur[a], todo[a]) /\ a[2] \in Role
        BY OneStore
      <4>2. a[2] # "recoverer" /\ a[2] \notin Canceller
        BY <1>1, <3>2, <4>1 DEF Author
      <4> QED BY <1>1, <3>2, <4>1, <4>2 DEF Author, Role, c, Holding
    <3> QED BY <2>1, <3>1, <3>2, <3>3 DEF Holding
  <2> QED BY <2>2, <2>3
<1> QED BY <1>1, <1>2, <1>3, <1>4, <1>5 DEF c

(* A write is left only after the read that comes before it.               *)
LEMMA ExecUnwritten ==
    ASSUME TypeInv, StoreInv, NEW a \in Actor, Executes(a), Unwritten(a)'
    PROVE  rec' = rec /\ Unwritten(a)
<1> DEFINE h == Head(todo[a])
           c == h.copy
           r == Tail(todo[a])
<1>1. /\ todo[a] # <<>> /\ h \in Command /\ c \in Copy /\ c.id \in Task
      /\ r \in Seq(Command) /\ IndexList(r, c)
  BY DEF Executes
<1>2. r # <<>> => Head(r).op \in {"add", "rem"}
  BY <1>1, IndexShape
<1>3. todo'[a] # <<>> /\ Head(todo'[a]).op \in {"update", "set"}
  BY DEF Unwritten
<1>4. CASE h.op = "update"
  BY <1>1, <1>4 DEF Executes, Unwritten
<1>5. CASE h.op \in {"add", "rem"}
  <2>1. todo'[a] = r
    BY <1>5 DEF Executes
  <2> QED BY <1>2, <1>3, <2>1
<1>6. CASE h.op = "set"
  <2> DEFINE k == h.key
             s == AfterSet(k, c)
  <2>1. /\ todo'[a] = s \o r
        /\ k = IF Known(c.id) THEN rec[c.id].status ELSE "listed"
    BY <1>6 DEF Executes
  <2>2. k \in Status \cup {"listed"}
    BY <1>1, <2>1, OneStore DEF Copy
  <2> HIDE DEF h, c, r, k
  <2>3. s \in Seq(Command) /\ IndexList(s, c)
    BY <1>1, <2>2, AfterSetList
  <2> HIDE DEF s
  <2>4. s \o r \in Seq(Command) /\ IndexList(s \o r, c)
    BY <1>1, <2>3, IndexLists, ConcatType
  <2>5. s \o r # <<>> => Head(s \o r).op \in {"add", "rem"}
    BY <1>1, <2>4, IndexShape
  <2> QED BY <1>3, <2>1, <2>5
<1> QED BY <1>1, <1>4, <1>5, <1>6 DEF Executes

(* The commands of a about its task leave the other goroutines and the     *)
(* other tasks alone.                                                      *)
LEMMA ExecKeeps ==
    ASSUME TypeInv, StoreInv, (TypeInv /\ StoreInv)', Alone, Agreed,
           NEW a \in Actor, Executes(a)
    PROVE  LET c == Head(todo[a]).copy IN
           /\ \A b \in Actor \ {a}, t \in Task :
                /\ Active(b, t)' <=> Active(b, t)
                /\ Writes(b, t)' <=> Writes(b, t)
                /\ Unwritten(b)' <=> Unwritten(b)
                /\ Hand(b)' = Hand(b)
           /\ \A b \in Actor, t \in Task : /\ Has(b, t)' => Has(b, t)
                                           /\ Active(b, t)' => Active(b, t)
           /\ \A t \in Task : t # c.id => rec'[t] = rec[t]
           /\ \A b \in Actor, t \in Task :
                Active(b, t) /\ b # a => t # c.id /\ rec'[t] = rec[t]
<1> DEFINE c == Head(todo[a]).copy
<1>1. /\ UNCHANGED <<pc, cur>>
      /\ \A b \in Actor \ {a} : todo'[b] = todo[b]
  BY DEF Executes, goVars
<1>2. /\ Active(a, c.id) /\ c.id \in Task
      /\ \A t \in Task : Active(a, t)' => t = c.id
  BY ExecHand
<1>3. \A b \in Actor \ {a}, t \in Task :
        /\ Active(b, t)' <=> Active(b, t)
        /\ Writes(b, t)' <=> Writes(b, t)
        /\ Unwritten(b)' <=> Unwritten(b)
        /\ Hand(b)' = Hand(b)
  BY <1>1 DEF Active, Has, Holds, Writes, Spent, Unwritten, Hand
<1>4. \A b \in Actor, t \in Task : /\ Has(b, t)' => Has(b, t)
                                   /\ Active(b, t)' => Active(b, t)
  <2>1. \A b \in Actor, t \in Task : Has(b, t)' => Has(b, t)
    BY ExecHas
  <2> QED BY <1>2, <1>3, <2>1
<1>5. \A t \in Task : t # c.id => rec'[t] = rec[t]
  BY ExecRecords
<1>6. \A b \in Actor, t \in Task : Active(b, t) /\ b # a => t # c.id /\ rec'[t] = rec[t]
  BY <1>2, <1>5 DEF Alone
<1> QED BY <1>3, <1>4, <1>5, <1>6

LEMMA ExecCustody ==
    ASSUME TypeInv, StoreInv, Indexed, (TypeInv /\ StoreInv)', CustodyInv,
           NEW a \in Actor, Executes(a)
    PROVE  CustodyInv'
<1> DEFINE h == Head(todo[a])
           c == h.copy
<1>1. /\ todo[a] # <<>> /\ h \in Command /\ UNCHANGED <<pc, cur, batch, queue>>
      /\ \A b \in Actor \ {a} : todo'[b] = todo[b]
      /\ h.op \in {"update", "set", "add", "rem"}
  BY DEF Executes, goVars, procVars
<1>2. /\ Hand(a) = c /\ Active(a, c.id) /\ Agrees(a) /\ c \in Copy /\ c.id \in Task
      /\ pc[a] # "log"
      /\ \A t \in Task : Active(a, t)' => t = c.id /\ Hand(a)' = c
      /\ \A t \in Task : Active(a, t)' /\ pc[a] \in {"accept", "unlock"} =>
           Writes(a, t)'
  BY ExecHand DEF CustodyInv
<1>3. \A b \in Actor \ {a}, t \in Task :
        /\ Active(b, t)' <=> Active(b, t)
        /\ Writes(b, t)' <=> Writes(b, t)
        /\ Unwritten(b)' <=> Unwritten(b)
        /\ Hand(b)' = Hand(b)
  BY ExecKeeps DEF CustodyInv
<1>4. \A b \in Actor, t \in Task : /\ Has(b, t)' => Has(b, t)
                                   /\ Active(b, t)' => Active(b, t)
  BY ExecKeeps DEF CustodyInv
<1>5. /\ \A t \in Task : t # c.id => rec'[t] = rec[t]
      /\ \A t \in Task : Known(t) => Known(t)'
      /\ \A t \in Task : rec'[t] # rec[t] => rec'[t] = c /\ t = c.id
  BY ExecRecords
<1>6. Alone'
  BY <1>4 DEF CustodyInv, Alone
<1>7. Idle'
  BY <1>1 DEF CustodyInv, Idle
<1>8. \A b \in Actor, t \in Task : Active(b, t) /\ b # a => t # c.id /\ rec'[t] = rec[t]
  BY ExecKeeps DEF CustodyInv
<1>9. ~Unwritten(a) => rec' = rec
  BY <1>1 DEF Executes, Unwritten
<1>10. Agreed'
  <2> SUFFICES ASSUME NEW b \in Actor, NEW t \in Task, Active(b, t)'
               PROVE  Agrees(b)'
    BY DEF Agreed
  <2>1. CASE b = a
    <3>1. Hand(a)' = c /\ Carried(a[2], pc[a], c)
      BY <1>2, <2>1 DEF Agrees
    <3>2. CASE Unwritten(a)'
      <4>1. rec' = rec /\ Unwritten(a)
        BY <3>2, ExecUnwritten
      <4>2. Replaces(a[2], pc[a], rec[c.id], c)
        BY <1>2, <4>1 DEF Agrees
      <4> QED BY <1>1, <1>2, <2>1, <3>1, <3>2, <4>1, <4>2 DEF Agrees
    <3>3. CASE ~Unwritten(a)'
      <4>1. rec'[c.id] = c
        <5>1. CASE todo'[a] = <<>>
          BY <5>1, ExecList
        <5>2. CASE todo'[a] # <<>>
          <6>1. todo'[a] \in Seq(Command)
            BY DEF TypeInv, TypeOK, StoreTypeOK
          <6>2. Head(todo'[a]) \in Command
            BY <5>2, <6>1
          <6>3. Head(todo'[a]).op \in {"add", "rem"}
            BY <3>3, <5>2, <6>2 DEF Unwritten, Command
          <6> QED BY <5>2, <6>3, ExecList
        <5> QED BY <5>1, <5>2
      <4> QED BY <1>1, <1>2, <2>1, <3>1, <3>3, <4>1 DEF Agrees
    <3> QED BY <3>2, <3>3
  <2>2. CASE b # a
    <3>1. Active(b, t) /\ Agrees(b) /\ Hand(b)' = Hand(b) /\ rec'[t] = rec[t]
      BY <1>3, <1>8, <2>2 DEF CustodyInv, Agreed
    <3>2. Hand(b).id = t
      BY <3>1, HandOf DEF Active
    <3>3. /\ pc'[b] = pc[b] /\ todo'[b] = todo[b]
          /\ Unwritten(b)' <=> Unwritten(b)
      BY <1>1, <1>3, <2>2
    <3> QED BY <3>1, <3>2, <3>3 DEF Agrees
  <2> QED BY <2>1, <2>2
<1>11. Channel'
  <2>1. ASSUME NEW p \in Proc, NEW i \in DOMAIN queue'[p], NEW d, d = queue'[p][i]
        PROVE  Waits(d)'
    <3>1. i \in DOMAIN queue[p] /\ d = queue[p][i]
      BY <1>1, <2>1
    <3>2. d.id \in Task
      BY <3>1, InChannel
    <3>3. Waits(d)
      BY <3>1 DEF CustodyInv, Channel, Waits
    <3>4. d.id # c.id
      BY <1>2, <3>3 DEF Waits, Active
    <3> QED BY <1>4, <1>5, <3>2, <3>3, <3>4 DEF Waits
  <2>2. \A p \in Proc, t \in Task : \A i, j \in Waiting(p, t)' : i = j
    BY <1>1 DEF CustodyInv, Channel, Waiting
  <2> QED BY <2>1, <2>2, ChannelNext
<1>12. Sane'
  <2>1. Sound(c)
    BY <1>2 DEF Agrees, Carried
  <2> SUFFICES ASSUME NEW t \in Task, Known(t)' PROVE Sound(rec'[t])
    BY DEF Sane
  <2> QED BY <1>5, <2>1 DEF CustodyInv, Sane, Known
<1>13. ASSUME NEW b \in Actor, NEW t \in Task, Active(b, t)', Known(t),
              Writes(b, t), ~rec[t].due
       PROVE  Writes(b, t)' /\ rec'[t] = rec[t]
  <2>1. Active(b, t)
    BY <1>4, <1>13
  <2>2. CASE b # a
    BY <1>3, <1>8, <1>13, <2>1, <2>2
  <2>3. CASE b = a
    <3>1. ~Unwritten(a) /\ pc[a] \in {"accept", "unlock"}
      BY <1>13, <2>1, <2>3, NotDue DEF CustodyInv
    <3> QED BY <1>2, <1>9, <1>13, <2>3, <3>1
  <2> QED BY <2>2, <2>3
<1>14. ASSUME NEW t \in Task, t \in members'["retry_pending"]
       PROVE  /\ \A p \in Proc : Waiting(p, t) = {}
              /\ \A b \in Actor : Active(b, t)' =>
                   b[2] = "dispatcher" \/ (Writes(b, t)' /\ ~rec'[t].due)
  <2>1. CASE t \in members["retry_pending"]
    <3>1. Known(t)
      BY <2>1 DEF Indexed, Key, Status
    <3>2. /\ \A p \in Proc : Waiting(p, t) = {}
          /\ \A b \in Actor : Active(b, t) =>
               b[2] = "dispatcher" \/ (Writes(b, t) /\ ~rec[t].due)
      BY <2>1 DEF CustodyInv, Retries
    <3>3. ASSUME NEW b \in Actor, Active(b, t)', b[2] # "dispatcher"
          PROVE  Writes(b, t)' /\ ~rec'[t].due
      BY <1>4, <1>13, <3>1, <3>2, <3>3
    <3> QED BY <3>2, <3>3
  <2>2. CASE t \notin members["retry_pending"]
    <3>1. /\ h.op = "add" /\ h.key = "retry_pending" /\ t = c.id
          /\ Indexes(h) /\ rec[c.id] = c /\ UNCHANGED rec
      BY <1>14, <2>2, ExecMembers DEF Key, Status
    <3>2. c.status = "retry_pending"
      BY <3>1 DEF Indexes
    <3>3. \A p \in Proc : Waiting(p, t) = {}
      <4> SUFFICES ASSUME NEW p \in Proc, NEW i \in Waiting(p, t) PROVE FALSE
        OBVIOUS
      <4>1. i \in DOMAIN queue[p] /\ queue[p][i].id = c.id
        BY <3>1 DEF Waiting
      <4>2. ~Has(a, c.id)
        BY <4>1 DEF CustodyInv, Channel
      <4> QED BY <1>2, <4>2 DEF Active
    <3>4. ASSUME NEW b \in Actor, Active(b, t)', b[2] # "dispatcher"
          PROVE  Writes(b, t)' /\ ~rec'[t].due
      <4>1. b = a
        BY <1>4, <1>8, <3>1, <3>4
      <4>2. Carried(a[2], pc[a], c)
        BY <1>2 DEF Agrees
      <4>3. pc[a] \in {"accept", "unlock"}
        <5>1. a[2] \in Role /\ Author(a[2], pc[a], cur[a], todo[a])
          BY OneStore
        <5>2. /\ a[2] # "recoverer"
              /\ a[2] \in Worker => pc[a] \in Section
              /\ a[2] \in Handler => pc[a] \in {"offer", "accept"}
              /\ a[2] \in Canceller => pc[a] = "unlock"
          BY <1>1, <5>1 DEF Author
        <5>3. pc[a] \in {"attempt", "send", "put", "mark", "unlock", "offer", "accept"}
          BY <1>2, <3>4, <4>1, <5>1, <5>2 DEF Role, Section
        <5>4. pc[a] # "mark"
          <6>1. Placed(a[2], pc[a], cur[a])
            BY OneStore
          <6>2. pc[a] = "mark" => a[2] \in Canceller
            BY <6>1, RoleOf
          <6> QED BY <5>2, <6>2
        <5> QED BY <3>2, <4>2, <5>3, <5>4 DEF Carried, Statuses
      <4>4. ~c.due
        BY <1>2, <3>2, <3>4, <4>1, <4>2, <4>3 DEF Carried
      <4> QED BY <1>2, <3>1, <3>4, <4>1, <4>3, <4>4
    <3> QED BY <3>3, <3>4
  <2> QED BY <2>1, <2>2
<1>15. ASSUME NEW d \in Actor, NEW t \in Task, t \in batch[d]
       PROVE  /\ \A p \in Proc : Waiting(p, t) = {}
              /\ StatusOf(t)' = "retry_pending"
              /\ \A b \in Actor : Active(b, t)' => Writes(b, t)' /\ ~rec'[t].due
  <2>1. /\ \A p \in Proc : Waiting(p, t) = {}
        /\ StatusOf(t) = "retry_pending"
        /\ \A b \in Actor : Active(b, t) => Writes(b, t) /\ ~rec[t].due
    BY <1>15 DEF CustodyInv, Retries
  <2>2. Known(t)
    BY <2>1 DEF StatusOf
  <2>3. rec'[t] = rec[t]
    <3>1. CASE t # c.id
      BY <1>5, <3>1
    <3>2. CASE t = c.id
      <4>1. Active(a, t) /\ ~rec[t].due
        BY <1>2, <2>1, <3>2
      <4>2. ~Unwritten(a)
        BY <2>2, <4>1, NotDue DEF CustodyInv
      <4> QED BY <1>9, <4>2
    <3> QED BY <3>1, <3>2
  <2>4. StatusOf(t)' = "retry_pending"
    BY <2>1, <2>2, <2>3 DEF StatusOf, Known
  <2>5. ASSUME NEW b \in Actor, Active(b, t)'
        PROVE  Writes(b, t)' /\ ~rec'[t].due
    BY <1>4, <1>13, <2>1, <2>2, <2>3, <2>5
  <2> QED BY <2>1, <2>4, <2>5
<1>16. Retries'
  <2> SUFFICES ASSUME NEW t \in Task
               PROVE  /\ t \in members["retry_pending"]' =>
                           /\ \A p \in Proc : Waiting(p, t)' = {}
                           /\ \A b \in Actor : Active(b, t)' =>
                                b[2] = "dispatcher" \/ (Writes(b, t)' /\ ~rec'[t].due)
                      /\ \A d \in Actor : t \in batch'[d] =>
                           /\ \A p \in Proc : Waiting(p, t)' = {}
                           /\ StatusOf(t)' = "retry_pending"
                           /\ \A b \in Actor : Active(b, t)' =>
                                Writes(b, t)' /\ ~rec'[t].due
    BY DEF Retries
  <2>1. \A p \in Proc : Waiting(p, t)' = Waiting(p, t)
    BY <1>1 DEF Waiting
  <2> QED BY <1>1, <1>14, <1>15, <2>1
<1> QED BY <1>6, <1>7, <1>10, <1>11, <1>12, <1>16 DEF CustodyInv

(* A back-off that elapses while nobody writes the record: nobody works on *)
(* the task, and it waits in no channel.                                   *)
LEMMA ClockCustody ==
    ASSUME Solo, TypeInv, StoreInv, (TypeInv /\ StoreInv)', CustodyInv,
           NEW u \in Task, Clock(u)
    PROVE  CustodyInv'
<1>1. UNCHANGED <<members, todo, pc, cur, batch, queue>>
  BY DEF Clock, BackoffElapses, LockExpires, procVars, goVars
<1>2. /\ \A b \in Actor, t \in Task : /\ Has(b, t)' <=> Has(b, t)
                                      /\ Writes(b, t)' <=> Writes(b, t)
                                      /\ Active(b, t)' <=> Active(b, t)
      /\ \A p \in Proc, t \in Task : Waiting(p, t)' = Waiting(p, t)
      /\ \A b \in Actor : Hand(b)' = Hand(b) /\ (Unwritten(b)' <=> Unwritten(b))
  BY <1>1 DEF Has, Holds, Writes, Active, Spent, Waiting, Hand, Unwritten
<1>3. Alone' /\ Idle'
  BY <1>1, <1>2 DEF CustodyInv, Alone, Idle
<1>4. ASSUME NEW t \in Task, rec'[t] # rec[t]
      PROVE  /\ Known(t) /\ ~rec[t].due /\ \A b \in Actor : ~Active(b, t)
             /\ rec'[t] = [rec[t] EXCEPT !.due = TRUE] /\ rec[t] \in Copy
  <2>1. BackoffElapses(u)
    BY <1>4 DEF Clock, LockExpires
  <2>2. /\ Known(u) /\ ~rec[u].due /\ \A b \in Actor : ~Writes(b, u)
        /\ rec' = [rec EXCEPT ![u].due = TRUE]
    BY <2>1 DEF BackoffElapses, Solo, FaultFree
  <2>3. rec \in [Task -> Copy \cup {None}]
    BY TypeParts DEF RestOK
  <2>4. t = u /\ rec'[t] = [rec[t] EXCEPT !.due = TRUE]
    BY <1>4, <2>2, <2>3
  <2>5. \A b \in Actor : ~Active(b, t)
    BY <2>2, <2>4, NotDue DEF CustodyInv
  <2> QED BY <2>2, <2>3, <2>4, <2>5 DEF Known
<1>5. Agreed'
  <2> SUFFICES ASSUME NEW b \in Actor, NEW t \in Task, Active(b, t)'
               PROVE  Agrees(b)'
    BY DEF Agreed
  <2>1. Active(b, t) /\ Agrees(b) /\ rec'[t] = rec[t]
    BY <1>2, <1>4 DEF CustodyInv, Agreed
  <2>2. Hand(b).id = t
    BY <2>1, HandOf DEF Active
  <2> QED BY <1>1, <1>2, <2>1, <2>2 DEF Agrees
<1>6. Channel'
  <2>1. ASSUME NEW p \in Proc, NEW i \in DOMAIN queue'[p], NEW d, d = queue'[p][i]
        PROVE  Waits(d)'
    <3>1. i \in DOMAIN queue[p] /\ d = queue[p][i]
      BY <1>1, <2>1
    <3>2. d.id \in Task
      BY <3>1, InChannel
    <3>3. Waits(d)
      BY <3>1 DEF CustodyInv, Channel, Waits
    <3>4. rec'[d.id] = rec[d.id]
      BY <1>4, <3>2, <3>3 DEF Waits
    <3> QED BY <1>2, <3>2, <3>3, <3>4 DEF Waits
  <2>2. \A p \in Proc, t \in Task : \A i, j \in Waiting(p, t)' : i = j
    BY <1>2 DEF CustodyInv, Channel
  <2> QED BY <2>1, <2>2, ChannelNext
<1>7. \A t \in Task : /\ Known(t)' <=> Known(t)
                      /\ Known(t) => rec'[t].status = rec[t].status
                      /\ StatusOf(t)' = StatusOf(t)
  BY ClockStatus
<1>8. Sane'
  <2> SUFFICES ASSUME NEW t \in Task, Known(t)' PROVE Sound(rec'[t])
    BY DEF Sane
  <2>1. Sound(rec[t])
    BY <1>7 DEF CustodyInv, Sane
  <2>2. rec'[t].status = rec[t].status /\ rec'[t].attempts = rec[t].attempts
    BY <1>4 DEF Copy
  <2> QED BY <2>1, <2>2 DEF Sound
<1>9. Retries'
  <2> SUFFICES ASSUME NEW t \in Task
               PROVE  /\ t \in members["retry_pending"]' =>
                           /\ \A p \in Proc : Waiting(p, t)' = {}
                           /\ \A b \in Actor : Active(b, t)' =>
                                b[2] = "dispatcher" \/ (Writes(b, t)' /\ ~rec'[t].due)
                      /\ \A d \in Actor : t \in batch'[d] =>
                           /\ \A p \in Proc : Waiting(p, t)' = {}
                           /\ StatusOf(t)' = "retry_pending"
                           /\ \A b \in Actor : Active(b, t)' =>
                                Writes(b, t)' /\ ~rec'[t].due
    BY DEF Retries
  <2>1. \A b \in Actor : Active(b, t) => rec'[t] = rec[t]
    BY <1>4
  <2>2. /\ t \in members["retry_pending"] =>
             /\ \A p \in Proc : Waiting(p, t) = {}
             /\ \A b \in Actor : Active(b, t) =>
                  b[2] = "dispatcher" \/ (Writes(b, t) /\ ~rec[t].due)
        /\ \A d \in Actor : t \in batch[d] =>
             /\ \A p \in Proc : Waiting(p, t) = {}
             /\ StatusOf(t) = "retry_pending"
             /\ \A b \in Actor : Active(b, t) => Writes(b, t) /\ ~rec[t].due
    BY DEF CustodyInv, Retries
  <2> QED BY <1>1, <1>2, <1>7, <2>1, <2>2
<1> QED BY <1>3, <1>5, <1>6, <1>8, <1>9 DEF CustodyInv

LEMMA CustodyInit == Solo /\ Init => CustodyInv
<1> SUFFICES ASSUME Solo, Init PROVE CustodyInv
  OBVIOUS
<1>1. /\ \A a \in Actor : a[1] \in Steady /\ a[2] \in Role
      /\ MaxAttempts > 0
  BY SchedulerAssumption DEF Solo, FaultFree
<1>2. /\ \A a \in Actor : todo[a] = <<>> /\ cur[a] = None /\ batch[a] = {}
      /\ \A p \in Proc : queue[p] = <<>>
      /\ \A t \in Task : ~Known(t) /\ t \notin members["retry_pending"]
  BY DEF Init, StoreInit, Known, Key, Status
<1>3. \A a \in Actor : a[2] \in Canceller => pc[a] = "cancel"
  BY <1>1, Roles DEF Init, Home
<1>4. \A a \in Actor, t \in Task : ~Has(a, t) /\ ~Active(a, t)
  <2> SUFFICES ASSUME NEW a \in Actor, NEW t \in Task
               PROVE  ~Has(a, t) /\ ~Active(a, t)
    OBVIOUS
  <2>1. cur[a] = None /\ todo[a] = <<>>
    BY <1>2
  <2> QED BY <2>1 DEF Has, Holds, Writes, Active
<1>5. \A p \in Proc, t \in Task : Waiting(p, t) = {}
  <2> SUFFICES ASSUME NEW p \in Proc, NEW t \in Task PROVE Waiting(p, t) = {}
    OBVIOUS
  <2>1. queue[p] = <<>>
    BY <1>2
  <2> QED BY <2>1 DEF Waiting
<1>6. Channel
  BY <1>2, <1>5 DEF Channel
<1> QED BY <1>2, <1>3, <1>4, <1>5, <1>6
       DEF CustodyInv, Idle, Alone, Agreed, Retries, Sane

LEMMA CustodyStutter == CustodyInv /\ UNCHANGED vars => CustodyInv'
<1> SUFFICES ASSUME CustodyInv, UNCHANGED vars PROVE CustodyInv'
  OBVIOUS
<1>1. UNCHANGED <<rec, members, locked, todo, queue, pc, cur, batch>>
  BY DEF vars, storeVars, procVars, goVars
<1>2. /\ \A b \in Actor, t \in Task : /\ Has(b, t)' <=> Has(b, t)
                                      /\ Writes(b, t)' <=> Writes(b, t)
                                      /\ Active(b, t)' <=> Active(b, t)
      /\ \A p \in Proc, t \in Task : Waiting(p, t)' = Waiting(p, t)
      /\ \A b \in Actor : Agrees(b)' <=> Agrees(b)
  BY <1>1 DEF Has, Holds, Writes, Active, Spent, Waiting, Agrees, Hand, Unwritten
<1>3. Alone' /\ Idle' /\ Agreed' /\ Sane'
  BY <1>1, <1>2 DEF CustodyInv, Alone, Idle, Agreed, Sane, Known
<1>4. Channel'
  BY <1>1 DEF CustodyInv, Channel, Has, Holds, Writes, Waiting
<1>5. Retries'
  BY <1>1 DEF CustodyInv, Retries, StatusOf, Known, Waiting, Active, Has, Holds,
              Writes, Spent
<1> QED BY <1>3, <1>4, <1>5 DEF CustodyInv

LEMMA Custody == Solo => (Spec => [](TypeInv /\ CalmInv /\ CustodyInv))
<1> SUFFICES ASSUME Solo PROVE Spec => [](TypeInv /\ CalmInv /\ CustodyInv)
  OBVIOUS
<1>1. Spec => [](TypeInv /\ LockInv /\ CalmInv)
  <2>1. (Spec => []CancelAfterAnswer) /\ (Spec /\ []CancelAfterAnswer => [](TypeInv /\ LockInv /\ CalmInv))
    BY Calm, Uncancelled DEF Solo
  <2> QED BY <2>1
<1>2. Init => CustodyInv
  BY CustodyInit
<1>3. (TypeInv /\ LockInv /\ CalmInv) /\ (TypeInv /\ LockInv /\ CalmInv)'
        /\ CustodyInv /\ [Next]_vars => CustodyInv'
  <2> SUFFICES ASSUME TypeInv, LockInv, CalmInv, (TypeInv /\ LockInv /\ CalmInv)',
                      CustodyInv, [Next]_vars
               PROVE  CustodyInv'
    OBVIOUS
  <2>1. StoreInv /\ Exact /\ Indexed /\ (TypeInv /\ StoreInv)' /\ FaultFree
    BY DEF CalmInv, Solo
  <2>2. ASSUME NEW a \in Actor, Redis(a) PROVE CustodyInv'
    BY <2>1, <2>2, ExecEffect, ExecCustody
  <2>3. ASSUME NEW a \in Actor, Program(a) PROVE CustodyInv'
    BY <2>1, <2>3, ProgramCustody
  <2>4. ASSUME NEW t \in Task, Clock(t) PROVE CustodyInv'
    BY <2>1, <2>4, ClockCustody
  <2> QED BY <2>1, <2>2, <2>3, <2>4, CalmSteps, CustodyStutter
<1> QED BY <1>1, <1>2, <1>3, PTL DEF Spec

(* With one process and no faults a task is in the channel once at most,   *)
(* and then no goroutine has it: neither the handler that sent it, nor a   *)
(* worker, nor the dispatcher that read the retry set some time ago.       *)
THEOREM Placement == Solo => (Spec => []SinglePlace)
<1> SUFFICES ASSUME Solo PROVE Spec => []SinglePlace
  OBVIOUS
<1>1. CustodyInv => SinglePlace
  <2> SUFFICES ASSUME CustodyInv, NEW t \in Task, NEW p \in Proc
               PROVE  /\ \A i, j \in Waiting(p, t) : i = j
                      /\ Waiting(p, t) # {} => \A a \in Actor : ~Holds(a, t)
    BY DEF SinglePlace
  <2>1. \A i, j \in Waiting(p, t) : i = j
    BY DEF CustodyInv, Channel
  <2>2. ASSUME NEW i \in Waiting(p, t), NEW a \in Actor
        PROVE  ~Holds(a, t)
    <3>1. i \in DOMAIN queue[p] /\ queue[p][i].id = t
      BY DEF Waiting
    <3>2. ~Has(a, t)
      BY <3>1 DEF CustodyInv, Channel
    <3> QED BY <3>2 DEF Has
  <2> QED BY <2>1, <2>2
<1> QED BY <1>1, Custody, PTL

-----------------------------------------------------------------------------
(* What becomes of a record.                                               *)

(* A record that changes by a command is replaced as its writer expects.   *)
LEMMA ExecReplaces ==
    ASSUME TypeInv, StoreInv, (TypeInv /\ StoreInv)', Agreed,
           NEW a \in Actor, Executes(a), NEW t \in Task, rec'[t] # rec[t]
    PROVE  LET c == Head(todo[a]).copy IN
           /\ t = c.id /\ rec'[t] = c /\ Active(a, t)
           /\ Carried(a[2], pc[a], c) /\ Replaces(a[2], pc[a], rec[t], c)
           /\ pc[a] = "offer" => c = NewTask(t)
           /\ pc[a] \in {"offer", "accept", "attempt", "send", "put", "unlock"}
<1> DEFINE c == Head(todo[a]).copy
<1>1. /\ Hand(a) = c /\ Active(a, c.id) /\ Agrees(a) /\ c \in Copy /\ pc[a] # "log"
  BY ExecHand
<1>2. t = c.id /\ rec'[t] = c
  BY ExecRecords
<1>3. Unwritten(a)
  BY DEF Executes, Unwritten
<1>4. Carried(a[2], pc[a], c) /\ Replaces(a[2], pc[a], rec[t], c)
  BY <1>1, <1>2, <1>3 DEF Agrees
<1>5. /\ a[2] \in Role /\ a[2] # "recoverer"
      /\ a[2] \in Worker \cup {"dispatcher"} => pc[a] \in Section
      /\ a[2] \in Handler => (pc[a] = "offer" /\ c = cur[a]) \/ pc[a] = "accept"
      /\ a[2] \in Canceller => pc[a] = "unlock"
  BY <1>3, OneStore DEF Author, Unwritten
<1>6. Placed(a[2], pc[a], cur[a]) /\ Carries(pc[a], cur[a])
  BY OneStore
<1>7. pc[a] = "mark" => a[2] \in Canceller
  BY <1>6, RoleOf
<1>8. pc[a] = "offer" => a[2] \in Handler /\ c = cur[a]
  BY <1>5, <1>6, RoleOf
<1>9. pc[a] = "offer" => c = NewTask(t)
  BY <1>2, <1>6, <1>8 DEF Carries
<1>10. pc[a] \in {"offer", "accept", "attempt", "send", "put", "unlock"}
  BY <1>1, <1>5, <1>7 DEF Role, Section
<1> QED BY <1>1, <1>2, <1>4, <1>9, <1>10

(* A goroutine is done with its task when the record is what it has.       *)
LEMMA ExecDone ==
    ASSUME TypeInv, StoreInv, (TypeInv /\ StoreInv)', Agreed,
           NEW a \in Actor, Executes(a), NEW t \in Task, Active(a, t), ~Active(a, t)'
    PROVE  LET c == Head(todo[a]).copy IN
           /\ t = c.id /\ rec'[t] = c /\ pc[a] \in {"accept", "unlock"}
           /\ pc[a] = "unlock" /\ a[2] \notin Canceller => c = cur[a]
<1> DEFINE c == Head(todo[a]).copy
<1>1. /\ Hand(a) = c /\ c \in Copy /\ pc'[a] = pc[a] /\ cur'[a] = cur[a]
      /\ todo[a] # <<>> /\ c # None
  BY ExecHand, NoneAssumption DEF Executes
<1>2. t = c.id
  BY <1>1, HandOf DEF Active
<1>3. CASE todo'[a] # <<>>
  <2>1. Head(todo'[a]).copy = c
    BY <1>3, ExecList
  <2>2. Hand(a)' = c
    BY <1>3, <2>1 DEF Hand
  <2>3. Has(a, t)'
    BY <1>1, <1>2, <2>2, HandNext
  <2> QED BY <1>3, <2>3 DEF Active, Spent
<1>4. CASE todo'[a] = <<>>
  <2>1. rec'[t] = c
    BY <1>2, <1>4, ExecList
  <2>2. /\ a[2] \in Role /\ a[2] # "recoverer"
        /\ a[2] \in Worker \cup {"dispatcher"} => pc[a] \in Section /\ c = cur[a]
        /\ a[2] \in Handler => (pc[a] = "offer" /\ c = cur[a]) \/ pc[a] = "accept"
        /\ a[2] \in Canceller => pc[a] = "unlock"
    BY <1>1, OneStore DEF Author
  <2>3. Hand(a)' = cur[a]
    BY <1>1, <1>4 DEF Hand
  <2>4. c = cur[a] => Has(a, t)'
    BY <1>1, <1>2, <2>3, HandNext
  <2>5. Has(a, t)' => pc[a] = "unlock"
    BY <1>1 DEF Active, Spent
  <2>6. pc[a] \in {"accept", "unlock"}
    BY <2>2, <2>4, <2>5 DEF Role
  <2>7. pc[a] = "unlock" /\ a[2] \notin Canceller => c = cur[a]
    BY <2>2 DEF Role
  <2> QED BY <1>2, <2>1, <2>6, <2>7
<1> QED BY <1>3, <1>4

(* What a step of the program can have to do with an attempt.              *)
LEMMA ProgramAttempts ==
    ASSUME Solo, TypeInv, StoreInv, Idle, NEW a \in Actor, Program(a)
    PROVE  \/ CountAttempt(a) \/ Deliver(a) \/ Settle(a)
           \/ /\ UNCHANGED <<sends, acked, logs>>
              /\ pc'[a] \notin {"send", "log"}
              /\ pc[a] \notin {"attempt", "send", "log"}
              /\ pc'[a] = "unlock" => a[2] \notin Worker
<1>0. /\ a[1] \in Proc /\ phase[a[1]] = "running" /\ Placed(a[2], pc[a], cur[a])
      /\ a[2] \in Role /\ pc \in [Actor -> Label]
  BY OneStore, TypeParts
<1>1. /\ Home(a[2]) \notin {"send", "log", "unlock"}
      /\ pc[a] \in {"put", "mark"} => a[2] \notin Worker
  BY <1>0, RoleOf, Roles DEF Home
<1>2. CASE Work(a)
  BY <1>0, <1>1, <1>2 DEF Work, Take, Finish, Skip, Begin, Unlock, At, Goto, extVars
<1>3. CASE Dispatch(a)
  BY <1>0, <1>1, <1>3 DEF Dispatch, Poll, PassOver, Claim, Put, PutBack,
                          DispatcherPanic, Inspect, At, Goto, extVars
<1>4. CASE Enqueue(a)
  BY <1>0, <1>4 DEF Enqueue, Offer, OfferFull, OfferPanic, At, Goto, extVars
<1>5. CASE Mark(a)
  BY <1>0, <1>1, <1>5 DEF Mark, At, Goto, extVars
<1>6. CASE \E t \in Task : Request(a, t)
  BY <1>0, <1>6 DEF Request, Accept, Cancel, At, Goto, extVars
<1> QED BY <1>2, <1>3, <1>4, <1>5, <1>6 DEF Program

-----------------------------------------------------------------------------
(* The attempts counted and the requests made.                             *)
LEMMA ProgramCounted ==
    ASSUME Solo, TypeInv, StoreInv, (TypeInv /\ StoreInv)', CustodyInv, Alone',
           Counted, NEW a \in Actor, Program(a)
    PROVE  Counted'
<1>0. /\ Moves(a) /\ todo[a] = <<>> /\ rec' = rec
      /\ sends \in [Task -> Nat] /\ Placed(a[2], pc[a], cur[a])
      /\ Agreed /\ Idle /\ Alone
  BY ProgramMoves, OneStore, TypeParts DEF Moves, RestOK, CustodyInv
<1>1. \A b \in Actor \ {a}, t \in Task : Sending(b, t)' <=> Sending(b, t)
  BY <1>0, OthersKeep DEF Sending, Moves
<1>2. \A b \in Actor \ {a} : cur'[b] = cur[b]
  BY <1>0 DEF Moves
<1>3. CASE /\ UNCHANGED sends /\ pc'[a] \notin {"send"} /\ pc[a] # "send"
  <2>1. \A t \in Task : ~Sending(a, t) /\ ~Sending(a, t)'
    BY <1>3 DEF Sending
  <2> QED BY <1>0, <1>1, <1>2, <1>3, <2>1 DEF Counted, Known
<1>4. CASE CountAttempt(a)
  <2>1. /\ pc[a] = "attempt" /\ pc'[a] = "send" /\ UNCHANGED sends
        /\ cur'[a] = [cur[a] EXCEPT !.attempts = @ + 1]
        /\ todo'[a] = UpdateTask(cur'[a])
    BY <1>4, TypeParts DEF CountAttempt, At, Goto, Hold, Issue, extVars
  <2>2. /\ cur[a] \in Copy /\ cur[a].id \in Task /\ Active(a, cur[a].id)
        /\ rec[cur[a].id] = cur[a] /\ cur[a] # None
    BY <1>0, <2>1, InHandNow DEF Holding
  <2>3. cur'[a].id = cur[a].id /\ cur'[a].attempts = cur[a].attempts + 1
    BY <2>1, <2>2 DEF Copy
  <2>4. \A b \in Actor : ~Sending(b, cur[a].id)
    BY <1>0, <2>1, <2>2 DEF Sending, Alone
  <2>5. cur[a].attempts = sends[cur[a].id]
    BY <2>2, <2>4 DEF Counted, Known
  <2>6. a[2] \in Worker
    BY <1>0, <2>1, RoleOf
  <2>7. \A t \in Task : Has(a, t)' => t = cur[a].id
    <3>1. Hand(a)' = cur'[a]
      BY <2>6, HandNext
    <3> QED BY <2>3, <3>1, HandNext
  <2>8. Active(a, cur[a].id)'
    <3>1. Hand(a)' = cur'[a] /\ cur'[a] # None
      <4>1. cur'[a] \in Copy
        BY <2>1, <2>2, CopyType
      <4> QED BY <4>1, <2>6, HandNext, NoneAssumption
    <3>2. Has(a, cur[a].id)'
      BY <2>2, <2>3, <3>1, HandNext
    <3> QED BY <2>1, <3>2 DEF Active, Spent
  <2>9. \A t \in Task : Sending(a, t)' <=> t = cur[a].id
    BY <2>1, <2>2, <2>7, <2>8 DEF Sending, Active
  <2>10. \A t \in Task : ~Sending(a, t)
    BY <2>1 DEF Sending
  <2>11. ASSUME NEW t \in Task
         PROVE  /\ ~Known(t)' => sends'[t] = 0
                /\ \A b \in Actor : Sending(b, t)' => cur'[b].attempts = sends'[t] + 1
                /\ Known(t)' /\ (\A b \in Actor : ~Sending(b, t)') =>
                     rec'[t].attempts = sends'[t]
    <3>1. \A b \in Actor \ {a} : Sending(b, t)' => cur'[b].attempts = sends'[t] + 1
      BY <1>1, <1>2, <2>1 DEF Counted
    <3>2. Sending(a, t)' => cur'[a].attempts = sends'[t] + 1
      BY <2>1, <2>3, <2>5, <2>9
    <3>3. ~Known(t)' => sends'[t] = 0
      BY <1>0, <2>1 DEF Counted, Known
    <3>4. Known(t)' /\ (\A b \in Actor : ~Sending(b, t)') => rec'[t].attempts = sends'[t]
      BY <1>0, <1>1, <2>1, <2>10 DEF Counted, Known
    <3> QED BY <3>1, <3>2, <3>3, <3>4
  <2> QED BY <2>11 DEF Counted
<1>5. CASE Deliver(a)
  <2>1. /\ pc[a] = "send" /\ pc'[a] = "log"
        /\ sends' = [sends EXCEPT ![cur[a].id] = @ + 1]
    BY <1>5, TypeParts DEF Deliver, At, Goto
  <2>2. /\ cur[a] \in Copy /\ cur[a].id \in Task /\ Active(a, cur[a].id)
        /\ rec[cur[a].id] = cur[a] /\ cur[a] # None
    BY <1>0, <2>1, InHandNow DEF Holding
  <2>3. Sending(a, cur[a].id)
    BY <2>1, <2>2 DEF Sending
  <2>4. cur[a].attempts = sends[cur[a].id] + 1 /\ sends'[cur[a].id] = sends[cur[a].id] + 1
    BY <1>0, <2>1, <2>2, <2>3 DEF Counted
  <2>5. \A t \in Task : t # cur[a].id => sends'[t] = sends[t] /\ ~Sending(a, t)
    <3>1. \A t \in Task : Sending(a, t) => t = cur[a].id
      BY <1>0, HandOf DEF Sending, Active
    <3> QED BY <1>0, <2>1, <3>1
  <2>6. \A b \in Actor \ {a} : ~Sending(b, cur[a].id)
    BY <1>0, <2>2 DEF Sending, Alone
  <2>7. \A t \in Task : ~Sending(a, t)'
    BY <2>1 DEF Sending
  <2>8. ASSUME NEW t \in Task
        PROVE  /\ ~Known(t)' => sends'[t] = 0
               /\ \A b \in Actor : Sending(b, t)' => cur'[b].attempts = sends'[t] + 1
               /\ Known(t)' /\ (\A b \in Actor : ~Sending(b, t)') =>
                    rec'[t].attempts = sends'[t]
    <3>1. CASE t = cur[a].id
      BY <1>0, <1>1, <2>2, <2>4, <2>6, <2>7, <3>1 DEF Known
    <3>2. CASE t # cur[a].id
      BY <1>0, <1>1, <1>2, <2>5, <2>7, <3>2 DEF Counted, Known
    <3> QED BY <3>1, <3>2
  <2> QED BY <2>8 DEF Counted
<1>6. CASE Settle(a)
  <2>1. pc[a] = "log" /\ pc'[a] = "unlock" /\ UNCHANGED sends
    BY <1>6, TypeParts DEF Settle, At, Goto
  <2> QED BY <1>3, <2>1
<1> QED BY <1>0, <1>3, <1>4, <1>5, <1>6, ProgramAttempts

LEMMA ExecCounted ==
    ASSUME TypeInv, StoreInv, (TypeInv /\ StoreInv)', CustodyInv, Counted,
           NEW a \in Actor, Executes(a)
    PROVE  Counted'
<1> DEFINE c == Head(todo[a]).copy
<1>0. Agreed /\ Alone /\ UNCHANGED <<pc, cur, sends>>
  BY DEF CustodyInv, Executes, goVars, extVars
<1>1. \A b \in Actor, t \in Task : Sending(b, t)' => Sending(b, t)
  BY <1>0, ExecKeeps DEF Sending
<1>2. ASSUME NEW t \in Task, NEW b \in Actor, Sending(b, t)
      PROVE  Sending(b, t)'
  <2>1. CASE b # a
    BY <1>0, <1>2, <2>1, ExecKeeps DEF Sending
  <2>2. CASE b = a
    BY <1>0, <1>2, <2>2, ExecDone DEF Sending
  <2> QED BY <2>1, <2>2
<1>3. \A t \in Task : Known(t) => Known(t)'
  BY ExecRecords
<1>4. ASSUME NEW t \in Task, Known(t)', \A b \in Actor : ~Sending(b, t)'
      PROVE  rec'[t].attempts = sends[t]
  <2>1. \A b \in Actor : ~Sending(b, t)
    BY <1>2, <1>4
  <2>2. CASE rec'[t] = rec[t]
    BY <1>4, <2>1, <2>2 DEF Counted, Known
  <2>3. CASE rec'[t] # rec[t]
    <3>1. /\ rec'[t] = c /\ Active(a, t) /\ Replaces(a[2], pc[a], rec[t], c)
          /\ pc[a] = "offer" => c = NewTask(t)
      BY <1>0, <2>3, ExecReplaces
    <3>2. pc[a] # "send"
      BY <2>1, <3>1 DEF Sending
    <3>3. CASE pc[a] = "offer"
      BY <3>1, <3>3 DEF Replaces, Counted, Known, NewTask
    <3>4. CASE pc[a] # "offer"
      <4>1. Known(t) /\ c.attempts = rec[t].attempts + 0
        BY <3>1, <3>2, <3>4 DEF Replaces, Known
      <4>2. rec[t].attempts = sends[t] /\ rec[t].attempts \in Nat
        BY <2>1, <4>1, OneStore DEF Counted, Copy
      <4> QED BY <3>1, <4>1, <4>2
    <3> QED BY <3>3, <3>4
  <2> QED BY <2>2, <2>3
<1> QED BY <1>0, <1>1, <1>3, <1>4 DEF Counted

LEMMA ClockAttempts ==
    ASSUME TypeInv, NEW u \in Task, Clock(u)
    PROVE  \A t \in Task : Known(t) => rec'[t].attempts = rec[t].attempts
<1> SUFFICES ASSUME NEW t \in Task, Known(t)
             PROVE  rec'[t].attempts = rec[t].attempts
  OBVIOUS
<1>1. rec \in [Task -> Copy \cup {None}]
  BY TypeParts DEF RestOK
<1>2. rec[t] \in Copy
  BY <1>1 DEF Known
<1>3. rec'[t] = rec[t] \/ rec'[t] = [rec[t] EXCEPT !.due = TRUE]
  BY <1>1 DEF Clock, BackoffElapses, LockExpires
<1> QED BY <1>2, <1>3 DEF Copy

LEMMA ClockCounted ==
    ASSUME TypeInv, Counted, NEW u \in Task, Clock(u)
    PROVE  Counted'
<1>1. UNCHANGED <<todo, pc, cur, sends>>
  BY DEF Clock, BackoffElapses, LockExpires, procVars, goVars, extVars
<1>2. \A t \in Task : Known(t)' <=> Known(t)
  BY ClockStatus
<1>3. \A b \in Actor, t \in Task : Sending(b, t)' <=> Sending(b, t)
  BY <1>1 DEF Sending, Active, Has, Holds, Writes, Spent
<1> QED BY <1>1, <1>2, <1>3, ClockAttempts DEF Counted

LEMMA SoloSteps ==
    ASSUME Solo, TypeInv, CalmInv, [Next]_vars
    PROVE  \/ \E a \in Actor : Executes(a) \/ Program(a)
           \/ \E t \in Task : Clock(t)
           \/ UNCHANGED vars
<1>1. StoreInv /\ Exact /\ FaultFree
  BY DEF CalmInv, Solo
<1>2. Next \/ UNCHANGED vars
  OBVIOUS
<1>3. CASE Next
  <2>1. (\E a \in Actor : Redis(a) \/ Program(a)) \/ \E t \in Task : Clock(t)
    BY <1>1, <1>3, CalmSteps
  <2> QED BY <1>1, <2>1, ExecEffect
<1> QED BY <1>2, <1>3

LEMMA Counting == Solo => (Spec => []Counted)
<1> SUFFICES ASSUME Solo PROVE Spec => []Counted
  OBVIOUS
<1>1. Init => Counted
  <2> SUFFICES ASSUME Init PROVE Counted
    OBVIOUS
  <2>1. \A t \in Task : ~Known(t) /\ sends[t] = 0
    BY DEF Init, StoreInit, Known
  <2>2. \A a \in Actor, t \in Task : ~Sending(a, t)
    <3> SUFFICES ASSUME NEW a \in Actor PROVE pc[a] # "send"
      BY DEF Sending
    <3>1. Home(a[2]) # "send"
      BY DEF Home
    <3> QED BY <3>1 DEF Init
  <2> QED BY <2>1, <2>2 DEF Counted
<1>2. (TypeInv /\ CalmInv /\ CustodyInv) /\ (TypeInv /\ CalmInv /\ CustodyInv)'
        /\ Counted /\ [Next]_vars => Counted'
  <2> SUFFICES ASSUME TypeInv, CalmInv, CustodyInv,
                      (TypeInv /\ CalmInv /\ CustodyInv)', Counted, [Next]_vars
               PROVE  Counted'
    OBVIOUS
  <2>1. StoreInv /\ (TypeInv /\ StoreInv)' /\ Alone'
    BY DEF CalmInv, CustodyInv
  <2>2. UNCHANGED vars => Counted'
    BY DEF Counted, Known, Sending, Active, Has, Holds, Writes, Spent,
           vars, storeVars, goVars, extVars
  <2> QED BY <2>1, <2>2, SoloSteps, ExecCounted, ProgramCounted, ClockCounted
<1> QED BY <1>1, <1>2, Custody, PTL DEF Spec

(* With one process and no faults the attempts in a record that nobody has *)
(* in hand are the requests made, and a task that is given up has had      *)
(* MaxAttempts of them, whatever the interleaving of its goroutines.       *)
THEOREM Accounting == Solo => (Spec => []AttemptAccounting)
<1> SUFFICES ASSUME Solo PROVE Spec => []AttemptAccounting
  OBVIOUS
<1>1. TypeInv /\ CalmInv /\ CustodyInv /\ Counted => AttemptAccounting
  <2> SUFFICES ASSUME TypeInv, CustodyInv, Counted, NEW t \in Task,
                      Known(t), ~InHand(t)
               PROVE  /\ rec[t].attempts = sends[t]
                      /\ rec[t].status = "failed" => sends[t] = MaxAttempts
    BY DEF AttemptAccounting
  <2>1. \A a \in Actor : ~Sending(a, t)
    BY DEF InHand, Sending, Active, Has
  <2>2. rec[t].attempts = sends[t]
    BY <2>1 DEF Counted
  <2> QED BY <2>2 DEF CustodyInv, Sane, Sound
<1> QED BY <1>1, Custody, Counting, PTL

-----------------------------------------------------------------------------
(* Acknowledgements.                                                       *)

(* An outcome that somebody has stays with him, or is written.             *)
LEMMA ExecEnds ==
    ASSUME TypeInv, StoreInv, (TypeInv /\ StoreInv)', CustodyInv,
           NEW a \in Actor, Executes(a), NEW b \in Actor, NEW t \in Task,
           NEW s, Ends(b, t, s)
    PROVE  StatusOf(t)' = s \/ (Ends(b, t, s)' /\ pc'[b] = pc[b])
<1> DEFINE c == Head(todo[a]).copy
<1>1. UNCHANGED <<pc, cur>> /\ Agreed /\ Alone /\ Idle
  BY DEF Executes, goVars, CustodyInv
<1>2. CASE Active(b, t)'
  BY <1>1, <1>2 DEF Ends
<1>3. CASE ~Active(b, t)'
  <2>1. b = a /\ Active(a, t)
    BY <1>1, <1>3, ExecKeeps DEF Ends
  <2>2. a[2] \notin Canceller
    BY <1>1, <2>1 DEF Ends, Idle
  <2>3. t = c.id /\ rec'[t] = c /\ c = cur[a]
    BY <1>1, <1>3, <2>1, <2>2, ExecDone DEF Ends
  <2>4. rec'[t] # None
    BY <2>3, NoneAssumption DEF Executes
  <2> QED BY <2>1, <2>3, <2>4 DEF StatusOf, Known, Ends
<1> QED BY <1>2, <1>3

LEMMA ExecFinal ==
    ASSUME TypeInv, StoreInv, (TypeInv /\ StoreInv)', Agreed,
           NEW a \in Actor, Executes(a), NEW t \in Task,
           StatusOf(t) \in {"completed", "failed"}
    PROVE  StatusOf(t)' = StatusOf(t)
<1>1. Known(t) /\ rec[t].status \in {"completed", "failed"}
  BY DEF StatusOf
<1>2. rec'[t] = rec[t]
  <2> SUFFICES ASSUME rec'[t] # rec[t] PROVE FALSE
    OBVIOUS
  <2>1. Replaces(a[2], pc[a], rec[t], Head(todo[a]).copy)
    BY ExecReplaces
  <2> QED BY <1>1, <2>1 DEF Replaces, From, Known
<1> QED BY <1>2 DEF StatusOf, Known

LEMMA ProgramEnds ==
    ASSUME Solo, TypeInv, StoreInv, CustodyInv, NEW a \in Actor, Program(a),
           NEW b \in Actor, NEW t \in Task, NEW s, Ends(b, t, s)
    PROVE  \/ b # a /\ Ends(b, t, s)' /\ pc'[b] = pc[b]
           \/ b = a /\ Settle(a) /\ pc[a] = "log" /\ cur[a].id = t
<1>1. Moves(a) /\ todo[a] = <<>> /\ Idle /\ Placed(a[2], pc[a], cur[a])
  BY ProgramMoves, OneStore DEF Moves, CustodyInv
<1>2. CASE b # a
  <2>1. pc'[b] = pc[b] /\ cur'[b] = cur[b] /\ (Active(b, t)' <=> Active(b, t))
    BY <1>1, <1>2, OthersKeep DEF Moves
  <2> QED BY <1>2, <2>1 DEF Ends
<1>3. CASE b = a
  <2>1. pc[a] = "log"
    BY <1>1, <1>3 DEF Ends, Active, Spent
  <2>2. Settle(a)
    BY <1>1, <2>1, ProgramAttempts DEF CountAttempt, Deliver, At
  <2>3. cur[a].id = t
    BY <1>1, <1>3, HandOf DEF Ends, Active
  <2> QED BY <1>3, <2>1, <2>2, <2>3
<1> QED BY <1>2, <1>3

(* What becomes of an attempt that is over and not yet written.            *)
LEMMA SettleEnds ==
    ASSUME TypeInv, StoreInv, (TypeInv /\ StoreInv)', CustodyInv,
           NEW a \in Actor, Settle(a)
    PROVE  /\ pc[a] = "log" /\ pc'[a] = "unlock" /\ cur[a] \in Copy
           /\ Active(a, cur[a].id) /\ cur[a].id \in Task
           /\ \A t \in Task : \A s : t = cur[a].id /\ s = cur[a].status =>
                Ends(a, t, s)'
           /\ Replaces(a[2], "log", rec[cur[a].id], cur[a])
           /\ rec' = rec /\ sends' = sends
           /\ cur'[a].attempts = cur[a].attempts
<1>1. /\ todo[a] = <<>> /\ pc[a] = "log" /\ pc'[a] = "unlock" /\ UNCHANGED <<rec, sends>>
      /\ cur'[a] = [cur[a] EXCEPT !.due =
                      IF cur[a].status = "retry_pending" THEN FALSE ELSE @]
      /\ Placed(a[2], pc[a], cur[a])
  BY TypeParts, OneStore DEF Settle, At, Goto, Hold
<1>2. a[2] \in Worker
  BY <1>1, RoleOf
<1>3. /\ cur[a] \in Copy /\ cur[a].id \in Task /\ Active(a, cur[a].id)
      /\ Replaces(a[2], "log", rec[cur[a].id], cur[a])
  BY <1>1, InHandNow DEF CustodyInv, Holding
<1>4. /\ cur'[a] \in Copy /\ cur'[a].id = cur[a].id /\ cur'[a].status = cur[a].status
      /\ cur'[a].attempts = cur[a].attempts
  BY <1>1, <1>3 DEF Copy
<1>5. Hand(a)' = cur'[a] /\ cur'[a] # None
  BY <1>2, <1>4, HandNext, NoneAssumption
<1>6. \A t \in Task : t = cur[a].id => Has(a, t)'
  BY <1>4, <1>5, HandNext
<1>7. todo'[a] # <<>>
  BY <1>1, ProgramWorks DEF Program, Work, Unwritten
<1>8. \A t \in Task : \A s : t = cur[a].id /\ s = cur[a].status => Ends(a, t, s)'
  BY <1>1, <1>4, <1>6, <1>7 DEF Ends, Active, Spent
<1> QED BY <1>1, <1>3, <1>4, <1>8

(* What an attempt leaves behind: its outcome, in the worker's hands.      *)
LEMMA DeliverEnds ==
    ASSUME TypeInv, StoreInv, (TypeInv /\ StoreInv)', CustodyInv,
           NEW a \in Actor, Deliver(a)
    PROVE  /\ pc[a] = "send" /\ pc'[a] = "log" /\ rec' = rec /\ logs' = logs
           /\ cur[a] \in Copy /\ cur[a].id \in Task /\ Active(a, cur[a].id)
           /\ rec[cur[a].id] = cur[a] /\ cur[a].status = "in_progress"
           /\ sends' = [sends EXCEPT ![cur[a].id] = @ + 1]
           /\ \A t \in Task : Active(a, t)' <=> t = cur[a].id
           /\ \/ acked' = acked
              \/ \E t \in Task : /\ t = cur[a].id /\ acked' = acked \cup {t}
                                 /\ Ends(a, t, "completed")'
<1>1. /\ todo[a] = <<>> /\ pc[a] = "send" /\ pc'[a] = "log"
      /\ UNCHANGED <<rec, logs, todo>>
      /\ sends' = [sends EXCEPT ![cur[a].id] = @ + 1]
      /\ Placed(a[2], pc[a], cur[a])
  BY TypeParts, OneStore DEF Deliver, At, Goto, storeVars
<1>2. a[2] \in Worker
  BY <1>1, RoleOf
<1>3. /\ cur[a] \in Copy /\ cur[a].id \in Task /\ Active(a, cur[a].id)
      /\ rec[cur[a].id] = cur[a] /\ Agrees(a) /\ Hand(a) = cur[a]
  BY <1>1, InHandNow, HandOf DEF CustodyInv, Holding, Agreed
<1>4. cur[a].status = "in_progress"
  BY <1>1, <1>3 DEF Agrees, Carried, Statuses
<1>5. PICK ok \in BOOLEAN :
        /\ cur'[a] = [cur[a] EXCEPT !.status = Outcome(cur[a], ok)]
        /\ acked' = IF ok THEN acked \cup {cur[a].id} ELSE acked
  BY TypeParts DEF Deliver, Hold
<1>6. Outcome(cur[a], ok) \in Status
  BY DEF Outcome, Status
<1>7. /\ cur'[a] \in Copy /\ cur'[a].id = cur[a].id
      /\ cur'[a].status = Outcome(cur[a], ok)
  BY <1>3, <1>5, <1>6 DEF Copy
<1>8. Hand(a)' = cur'[a] /\ cur'[a] # None
  BY <1>2, <1>7, HandNext, NoneAssumption
<1>9. \A t \in Task : Active(a, t)' <=> t = cur[a].id
  BY <1>1, <1>7, <1>8, HandNext DEF Active, Spent
<1>10. ok => \A t \in Task : t = cur[a].id => Ends(a, t, "completed")'
  BY <1>1, <1>3, <1>7, <1>9 DEF Ends, Outcome
<1> QED BY <1>1, <1>3, <1>4, <1>5, <1>9, <1>10

LEMMA AcknowledgedNext ==
    ASSUME Solo, TypeInv, CalmInv, CustodyInv, (TypeInv /\ CalmInv /\ CustodyInv)',
           Acknowledged, [Next]_vars
    PROVE  Acknowledged'
<1>0. /\ StoreInv /\ (TypeInv /\ StoreInv)' /\ Idle /\ Agreed /\ acked \subseteq Task
  BY TypeParts DEF CalmInv, CustodyInv, RestOK
<1>1. ASSUME NEW a \in Actor, Executes(a) PROVE Acknowledged'
  <2>1. acked' = acked
    BY <1>1 DEF Executes, extVars
  <2>2. ASSUME NEW t \in acked
        PROVE  StatusOf(t)' = "completed" \/ \E b \in Actor : Ends(b, t, "completed")'
    BY <1>0, <1>1, <2>2, ExecEnds, ExecFinal DEF Acknowledged
  <2> QED BY <2>1, <2>2 DEF Acknowledged
<1>2. ASSUME NEW a \in Actor, Program(a) PROVE Acknowledged'
  <2>1. rec' = rec
    BY <1>0, <1>2, ProgramMoves DEF Moves
  <2>2. ASSUME NEW t \in acked
        PROVE  StatusOf(t)' = "completed" \/ \E b \in Actor : Ends(b, t, "completed")'
    <3>1. StatusOf(t)' = StatusOf(t)
      BY <2>1 DEF StatusOf, Known
    <3>2. ASSUME NEW b \in Actor, Ends(b, t, "completed")
          PROVE  \E d \in Actor : Ends(d, t, "completed")'
      <4>1. CASE Ends(b, t, "completed")'
        BY <4>1
      <4>2. CASE b = a /\ Settle(a) /\ pc[a] = "log" /\ cur[a].id = t
        <5>1. cur[a].status = "completed"
          BY <3>2, <4>2 DEF Ends
        <5> QED BY <1>0, <4>2, <5>1, SettleEnds
      <4> QED BY <1>0, <1>2, <2>2, <3>2, <4>1, <4>2, ProgramEnds
    <3> QED BY <2>2, <3>1, <3>2 DEF Acknowledged
  <2>3. acked' = acked \/ \E t \in Task : acked' = acked \cup {t}
                                          /\ Ends(a, t, "completed")'
    <3>1. CASE Deliver(a)
      BY <1>0, <3>1, DeliverEnds
    <3>2. CASE acked' = acked
      BY <3>2
    <3> QED BY <1>0, <1>2, <3>1, <3>2, ProgramAttempts
            DEF CountAttempt, Settle, extVars
  <2> QED BY <2>2, <2>3 DEF Acknowledged
<1>3. ASSUME NEW u \in Task, Clock(u) PROVE Acknowledged'
  <2>1. acked' = acked /\ UNCHANGED <<todo, pc, cur>>
    BY <1>3 DEF Clock, BackoffElapses, LockExpires, extVars, goVars
  <2>2. \A t \in Task : StatusOf(t)' = StatusOf(t)
    BY <1>3, ClockStatus
  <2>3. \A b \in Actor, t \in Task :
          Ends(b, t, "completed")' <=> Ends(b, t, "completed")
    BY <2>1 DEF Ends, Active, Has, Holds, Writes, Spent
  <2> QED BY <1>0, <2>1, <2>2, <2>3 DEF Acknowledged
<1>4. UNCHANGED vars => Acknowledged'
  BY DEF Acknowledged, StatusOf, Known, Ends, Active, Has, Holds, Writes, Spent,
         vars, storeVars, goVars, extVars
<1> QED BY <1>1, <1>2, <1>3, <1>4, SoloSteps

LEMMA Answered == Solo => (Spec => []Acknowledged)
<1> SUFFICES ASSUME Solo PROVE Spec => []Acknowledged
  OBVIOUS
<1>1. Init => Acknowledged
  BY DEF Init, Acknowledged
<1>2. (TypeInv /\ CalmInv /\ CustodyInv) /\ (TypeInv /\ CalmInv /\ CustodyInv)'
        /\ Acknowledged /\ [Next]_vars => Acknowledged'
  BY AcknowledgedNext
<1> QED BY <1>1, <1>2, Custody, PTL DEF Spec

(* With one process and no faults no request is made for a webhook after   *)
(* its receiver answered one with 2xx, neither by the worker that got the  *)
(* answer nor by another that takes the task up later.                     *)
THEOREM NoResend == Solo => (Spec => NoSendAfterAck)
<1> SUFFICES ASSUME Solo PROVE Spec => NoSendAfterAck
  OBVIOUS
<1>1. (TypeInv /\ CalmInv /\ CustodyInv) /\ (TypeInv /\ CalmInv /\ CustodyInv)'
        /\ Acknowledged /\ [Next]_vars => [\A t \in acked : sends'[t] = sends[t]]_vars
  <2> SUFFICES ASSUME TypeInv, CalmInv, CustodyInv,
                      (TypeInv /\ CalmInv /\ CustodyInv)', Acknowledged, [Next]_vars,
                      NEW t \in acked, sends'[t] # sends[t]
               PROVE  FALSE
    OBVIOUS
  <2>1. /\ StoreInv /\ (TypeInv /\ StoreInv)' /\ Idle /\ Agreed /\ Alone
        /\ acked \subseteq Task /\ sends \in [Task -> Nat]
    BY TypeParts DEF CalmInv, CustodyInv, RestOK
  <2>2. PICK a \in Actor : Program(a)
    <3>1. ~ \E u \in Task : Clock(u)
      BY DEF Clock, BackoffElapses, LockExpires, extVars
    <3>2. ~ \E a \in Actor : Executes(a)
      BY DEF Executes, extVars
    <3>3. ~ UNCHANGED vars
      BY DEF vars, extVars
    <3> QED BY <3>1, <3>2, <3>3, SoloSteps
  <2>3. Deliver(a)
    BY <2>1, <2>2, ProgramAttempts DEF CountAttempt, Settle, extVars
  <2>4. /\ pc[a] = "send" /\ Active(a, t)
        /\ Known(t) /\ rec[t].status = "in_progress"
    BY <2>1, <2>3, DeliverEnds, NoneAssumption DEF Known
  <2>5. PICK b \in Actor : Ends(b, t, "completed")
    BY <2>4 DEF Acknowledged, StatusOf
  <2> QED BY <2>1, <2>4, <2>5 DEF Alone, Ends
<1> QED BY <1>1, Custody, Answered, PTL DEF Spec, NoSendAfterAck

-----------------------------------------------------------------------------
(* The rows of the log.                                                    *)

LEMMA ExecOver ==
    ASSUME TypeInv, StoreInv, (TypeInv /\ StoreInv)', CustodyInv,
           NEW a \in Actor, Executes(a), NEW t \in Task,
           NEW s \in {"completed", "failed"}
    PROVE  Over(t, s)' <=> Over(t, s)
<1> DEFINE c == Head(todo[a]).copy
<1>1. UNCHANGED <<pc, cur>> /\ Agreed /\ Alone /\ Idle
  BY DEF Executes, goVars, CustodyInv
<1>2. ASSUME Over(t, s) PROVE Over(t, s)'
  <2>1. CASE StatusOf(t) = s
    BY <1>1, <2>1, ExecFinal DEF Over
  <2>2. ASSUME NEW b \in Actor, Ends(b, t, s), pc[b] = "unlock"
        PROVE  StatusOf(t)' = s \/ (Ends(b, t, s)' /\ pc'[b] = "unlock")
    BY <2>2, ExecEnds
  <2> QED BY <1>2, <2>1, <2>2 DEF Over
<1>3. ASSUME NEW b \in Actor, Ends(b, t, s)', pc'[b] = "unlock" PROVE Over(t, s)
  BY <1>1, <1>3, ExecKeeps DEF Ends, Over
<1>4. ASSUME StatusOf(t)' = s PROVE Over(t, s)
  <2>1. CASE rec'[t] = rec[t]
    BY <1>4, <2>1 DEF StatusOf, Known, Over
  <2>2. CASE rec'[t] # rec[t]
    <3>1. /\ rec'[t] = c /\ Active(a, t) /\ c.status \in Statuses(a[2], pc[a])
          /\ pc[a] \in {"offer", "accept", "attempt", "send", "put", "unlock"}
      BY <1>1, <2>2, ExecReplaces DEF Carried
    <3>2. c.status = s
      BY <1>4, <3>1 DEF StatusOf, Known
    <3>3. pc[a] = "unlock" /\ a[2] # "dispatcher"
      BY <3>1, <3>2 DEF Statuses
    <3>4. a[2] \in Worker
      BY <1>1, <3>3, OneStore, RoleOf DEF Idle
    <3>5. cur[a] = c
      BY <1>1, <3>4, HandOf, ExecHand
    <3> QED BY <3>1, <3>2, <3>3, <3>5 DEF Over, Ends
  <2> QED BY <2>1, <2>2
<1> QED BY <1>2, <1>3, <1>4 DEF Over

LEMMA ExecRecorded ==
    ASSUME TypeInv, StoreInv, (TypeInv /\ StoreInv)', CustodyInv, Recorded,
           NEW a \in Actor, Executes(a)
    PROVE  Recorded'
<1>1. /\ UNCHANGED <<pc, cur, sends, logs>> /\ Agreed /\ Alone
      /\ \A l \in logs : l.task \in Task
  BY TypeParts DEF Executes, goVars, extVars, CustodyInv, RestOK, LogRow
<1>2. \A t \in Task, s \in {"completed", "failed"} : Over(t, s)' <=> Over(t, s)
  BY ExecOver
<1>3. \A b \in Actor, t \in Task : Active(b, t)' => Active(b, t)
  BY <1>1, ExecKeeps
<1> QED BY <1>1, <1>2, <1>3 DEF Recorded, LogHistory

(* Nothing but the end of an attempt makes a task be over.                 *)
LEMMA ProgramOver ==
    ASSUME Solo, TypeInv, StoreInv, (TypeInv /\ StoreInv)', CustodyInv, CustodyInv',
           NEW a \in Actor, Program(a), NEW t \in Task,
           NEW s \in {"completed", "failed"}
    PROVE  /\ Over(t, s) => Over(t, s)'
           /\ Over(t, s)' => Over(t, s) \/ (Settle(a) /\ Active(a, t)')
<1>0. Moves(a) /\ Idle
  BY ProgramMoves DEF CustodyInv
<1>1. StatusOf(t)' = StatusOf(t)
  BY <1>0 DEF Moves, StatusOf, Known
<1>2. ASSUME NEW b \in Actor, Ends(b, t, s), pc[b] = "unlock"
      PROVE  Ends(b, t, s)' /\ pc'[b] = "unlock"
  BY <1>2, ProgramEnds
<1>3. ASSUME NEW b \in Actor, Ends(b, t, s)', pc'[b] = "unlock"
      PROVE  Over(t, s) \/ (Settle(a) /\ Active(a, t)')
  <2>1. CASE b # a
    <3>1. pc'[b] = pc[b] /\ cur'[b] = cur[b] /\ (Active(b, t)' <=> Active(b, t))
      BY <1>0, <2>1, OthersKeep DEF Moves
    <3> QED BY <1>3, <3>1 DEF Ends, Over
  <2>2. CASE b = a
    <3>1. Active(a, t)' /\ cur'[a].status = s
      BY <1>3, <2>2 DEF Ends
    <3>2. /\ a[2] \in Worker \cup Canceller \cup {"dispatcher"}
          /\ a[2] \in Canceller => pc'[a] = "cancel"
      <4>1. Placed(a[2], pc'[a], cur'[a])
        BY HandNext
      <4>2. a[2] \in Canceller => pc'[a] = "cancel"
        BY DEF CustodyInv, Idle
      <4> QED BY <1>3, <2>2, <4>1, <4>2, RoleOf
    <3>3. a[2] # "dispatcher"
      <4> SUFFICES ASSUME a[2] = "dispatcher" PROVE FALSE
        OBVIOUS
      <4>1. Hand(a)' = cur'[a]
        BY HandNext
      <4>2. Agrees(a)'
        BY <3>1 DEF CustodyInv, Agreed
      <4>3. cur'[a].status \in Statuses(a[2], pc'[a])
        BY <4>1, <4>2 DEF Agrees, Carried
      <4> QED BY <1>3, <2>2, <3>1, <4>3 DEF Statuses
    <3>4. a[2] \in Worker
      BY <1>3, <2>2, <3>2, <3>3
    <3>5. CountAttempt(a) => pc'[a] = "send"
      BY TypeParts DEF CountAttempt, Goto
    <3>6. Deliver(a) => pc'[a] = "log"
      BY TypeParts DEF Deliver, Goto
    <3> QED BY <1>0, <1>3, <2>2, <3>1, <3>4, <3>5, <3>6, ProgramAttempts
  <2> QED BY <2>1, <2>2
<1> QED BY <1>1, <1>2, <1>3 DEF Over

(* The row that a worker writes is of the last request, and the first that *)
(* is; every earlier one is of a failed attempt.                           *)
LEMMA SettleRow ==
    ASSUME TypeInv, StoreInv, (TypeInv /\ StoreInv)', CustodyInv, Counted, Recorded,
           NEW a \in Actor, Settle(a)
    PROVE  /\ cur[a].attempts = sends[cur[a].id]
           /\ \A m \in logs : m.task = cur[a].id =>
                m.attempt < cur[a].attempts /\ m.status = "Failed Attempt"
<1>1. /\ pc[a] = "log" /\ cur[a] \in Copy /\ Active(a, cur[a].id)
      /\ cur[a].id \in Task /\ Replaces(a[2], "log", rec[cur[a].id], cur[a])
      /\ Alone
  BY SettleEnds DEF CustodyInv
<1> DEFINE t == cur[a].id
<1>2. Known(t) /\ rec[t].attempts \in Nat
  BY <1>1, OneStore DEF Replaces, Known, Copy
<1>3. cur[a].attempts = rec[t].attempts
  BY <1>1, <1>2 DEF Replaces
<1>4. \A b \in Actor : Active(b, t) => b = a
  BY <1>1 DEF Alone
<1>5. rec[t].attempts = sends[t]
  BY <1>1, <1>2, <1>4 DEF Counted, Sending
<1>6. ASSUME NEW m \in logs, m.task = t
      PROVE  m.attempt < cur[a].attempts /\ m.status = "Failed Attempt"
  <2>1. \A i, j \in Nat : i <= j /\ i # j => i < j
    OBVIOUS
  <2>2. m.attempt \in Nat /\ m.attempt <= sends[t] /\ m.attempt # sends[t]
    BY <1>1, <1>6, TypeParts DEF Recorded, RestOK, LogRow
  <2>3. sends[t] \in Nat
    BY <1>2, <1>5
  <2>4. m.attempt < sends[t]
    BY <2>1, <2>2, <2>3
  <2>5. m.status = "Failed Attempt"
    BY <1>6, <2>4 DEF Recorded
  <2> QED BY <1>3, <1>5, <2>4, <2>5
<1> QED BY <1>3, <1>5, <1>6

LEMMA SettleRecorded ==
    ASSUME Solo, TypeInv, StoreInv, (TypeInv /\ StoreInv)', CustodyInv, CustodyInv',
           Counted, Recorded, NEW a \in Actor, Settle(a)
    PROVE  Recorded'
<1>0. /\ Moves(a) /\ Program(a) /\ Alone /\ Alone' /\ sends \in [Task -> Nat]
      /\ \A m \in logs : m.task \in Task /\ m.attempt \in Nat
  BY ProgramMoves, TypeParts DEF CustodyInv, RestOK, LogRow, Program, Work
<1>1. \A b \in Actor \ {a}, t \in Task :
        pc'[b] = pc[b] /\ (Active(b, t)' <=> Active(b, t))
  BY <1>0, OthersKeep DEF Moves
<1>2. /\ pc[a] = "log" /\ pc'[a] = "unlock" /\ sends' = sends /\ rec' = rec
      /\ cur[a] \in Copy /\ cur[a].id \in Task /\ Active(a, cur[a].id)
      /\ \A t \in Task : \A s : t = cur[a].id /\ s = cur[a].status => Ends(a, t, s)'
      /\ Replaces(a[2], "log", rec[cur[a].id], cur[a])
  BY SettleEnds
<1> DEFINE k == cur[a].attempts
           u == cur[a].id
           new == [task |-> u, attempt |-> k, status |-> LogStatus(cur[a])]
<1>3. logs' = logs \/ logs' = logs \cup {new}
  <2>1. LET c == [cur[a] EXCEPT !.due =
                    IF cur[a].status = "retry_pending" THEN FALSE ELSE @] IN
        c.id = cur[a].id /\ c.attempts = cur[a].attempts /\ c.status = cur[a].status
    BY <1>2 DEF Copy
  <2> QED BY <2>1 DEF Settle, LogStatus
<1>4. k = sends[u] /\ k \in Nat
  BY <1>2, SettleRow DEF Copy
<1>5. \A m \in logs : m.task = u => m.attempt < k /\ m.status = "Failed Attempt"
  BY SettleRow
<1>6. \A t \in Task : Active(a, t)' => t = u
  <2> SUFFICES ASSUME NEW t \in Task, Active(a, t)' PROVE t = u
    OBVIOUS
  <2>1. Active(a, t)
    <3>1. todo[a] = <<>> /\ a[2] \in Worker
      BY <1>2, OneStore, RoleOf DEF Settle, At
    <3>2. cur'[a].id = u /\ Hand(a)' = cur'[a]
      BY <1>2, <3>1, HandNext, TypeParts DEF Settle, Hold, Copy
    <3>3. t = u
      BY <3>2, HandNext DEF Active
    <3> QED BY <1>2, <3>3
  <2> QED BY <1>2, <2>1, HandOf DEF Active
<1>7. ASSUME NEW m \in logs
      PROVE  /\ m.attempt <= sends'[m.task]
             /\ m.attempt < sends'[m.task] => m.status = "Failed Attempt"
             /\ m.attempt = sends'[m.task] =>
                  /\ \A b \in Actor : Active(b, m.task)' => pc'[b] # "log"
                  /\ m.status = "Success" <=> Over(m.task, "completed")'
                  /\ m.status = "Failure" <=> Over(m.task, "failed")'
  <2>1. CASE m.task = u
    <3>1. m.attempt < k /\ m.attempt \in Nat /\ m.status = "Failed Attempt"
      BY <1>0, <1>5, <2>1
    <3>2. \A i, j \in Nat : i < j => i <= j /\ i # j
      OBVIOUS
    <3> HIDE DEF k, u
    <3> QED BY <1>2, <1>4, <2>1, <3>1, <3>2
  <2>2. CASE m.task # u
    <3>1. /\ Over(m.task, "completed")' <=> Over(m.task, "completed")
          /\ Over(m.task, "failed")' <=> Over(m.task, "failed")
      BY <1>0, <1>6, <2>2, ProgramOver
    <3> QED BY <1>0, <1>1, <1>2, <3>1 DEF Recorded
  <2> QED BY <2>1, <2>2
<1>8. \A m \in logs \cup {new} :
        /\ m.attempt <= sends'[m.task]
        /\ m.attempt < sends'[m.task] => m.status = "Failed Attempt"
        /\ m.attempt = sends'[m.task] =>
             /\ \A b \in Actor : Active(b, m.task)' => pc'[b] # "log"
             /\ m.status = "Success" <=> Over(m.task, "completed")'
             /\ m.status = "Failure" <=> Over(m.task, "failed")'
  <2>1. /\ new.task = u /\ new.attempt = k /\ new.status = LogStatus(cur[a])
        /\ sends'[u] = k
    BY <1>2, <1>4
  <2>2. k <= k /\ ~(k < k)
    <3> HIDE DEF k
    <3> QED BY <1>4
  <2>3. \A t \in Task : t = u => \A b \in Actor : Active(b, t)' => pc'[b] # "log"
    <3> SUFFICES ASSUME NEW t \in Task, t = u, NEW b \in Actor, Active(b, t)'
                 PROVE  pc'[b] # "log"
      OBVIOUS
    <3> QED BY <1>0, <1>1, <1>2 DEF Alone
  <2>4. ASSUME NEW s \in {"completed", "failed"}
        PROVE  \A t \in Task : t = u => (Over(t, s)' <=> cur[a].status = s)
    <3> SUFFICES ASSUME NEW t \in Task, t = u
                 PROVE  Over(t, s)' <=> cur[a].status = s
      OBVIOUS
    <3>1. Active(a, t)' /\ cur'[a].status = cur[a].status
      BY <1>2 DEF Ends
    <3>2. StatusOf(t)' = "in_progress"
      BY <1>2 DEF StatusOf, Known, Replaces, From
    <3>3. \A b \in Actor : Ends(b, t, s)' => b = a
      BY <1>0, <3>1 DEF Ends, Alone
    <3>4. cur[a].status = s => Over(t, s)'
      BY <1>2 DEF Over
    <3>5. Over(t, s)' => cur[a].status = s
      BY <3>1, <3>2, <3>3 DEF Over, Ends
    <3> QED BY <3>4, <3>5
  <2>5. \A t \in Task : t = u =>
          /\ new.status = "Success" <=> Over(t, "completed")'
          /\ new.status = "Failure" <=> Over(t, "failed")'
    BY <2>1, <2>4 DEF LogStatus
  <2>6. u \in Task
    BY <1>2
  <2> HIDE DEF new, k, u
  <2>7. ASSUME NEW m, m = new
        PROVE  /\ m.attempt <= sends'[m.task] /\ ~(m.attempt < sends'[m.task])
               /\ \A b \in Actor : Active(b, m.task)' => pc'[b] # "log"
               /\ m.status = "Success" <=> Over(m.task, "completed")'
               /\ m.status = "Failure" <=> Over(m.task, "failed")'
    <3>1. m.task = u /\ m.attempt = k /\ m.status = new.status /\ m.task \in Task
      BY <2>1, <2>6, <2>7
    <3>2. sends'[m.task] = k
      BY <2>1, <3>1
    <3> QED BY <2>2, <2>3, <2>5, <3>1, <3>2
  <2> QED BY <1>7, <2>7
<1>9. LogHistory'
  <2> SUFFICES ASSUME NEW l \in logs', NEW m \in logs', l.task = m.task,
                      l.attempt <= m.attempt
               PROVE  l = m \/ (l.attempt < m.attempt /\ l.status = "Failed Attempt")
    BY DEF LogHistory
  <2>1. CASE l \in logs /\ m \in logs
    BY <2>1 DEF Recorded, LogHistory
  <2>2. CASE l \in logs /\ m = new
    BY <1>5, <2>2
  <2>3. CASE l = new /\ m \in logs
    <3>1. l.attempt = k /\ l.task = u
      BY <2>3
    <3>2. m.attempt < k /\ m.attempt \in Nat
      BY <1>0, <1>5, <2>3, <3>1
    <3>3. \A i, j \in Nat : ~(i < j /\ j <= i)
      OBVIOUS
    <3> QED BY <1>4, <3>1, <3>2, <3>3
  <2> HIDE DEF new
  <2>4. (l \in logs \/ l = new) /\ (m \in logs \/ m = new)
    BY <1>3
  <2>5. CASE l = new /\ m = new
    BY <2>5
  <2> QED BY <2>1, <2>2, <2>3, <2>4, <2>5
<1> HIDE DEF new
<1> QED BY <1>3, <1>7, <1>8, <1>9 DEF Recorded

LEMMA ProgramRecorded ==
    ASSUME Solo, TypeInv, StoreInv, (TypeInv /\ StoreInv)', CustodyInv, CustodyInv',
           Counted, Recorded, NEW a \in Actor, Program(a)
    PROVE  Recorded'
<1>0. /\ Moves(a) /\ Idle /\ Alone /\ sends \in [Task -> Nat]
      /\ \A m \in logs : m \in LogRow /\ m.task \in Task /\ m.attempt \in Nat
  BY ProgramMoves, TypeParts DEF CustodyInv, RestOK, LogRow
<1>1. \A b \in Actor \ {a}, t \in Task :
        pc'[b] = pc[b] /\ (Active(b, t)' <=> Active(b, t))
  BY <1>0, OthersKeep DEF Moves
<1>2. ~Settle(a) => \A t \in Task, s \in {"completed", "failed"} :
        Over(t, s)' <=> Over(t, s)
  BY ProgramOver
<1>3. CASE UNCHANGED <<sends, logs>> /\ pc'[a] # "log" /\ ~Settle(a)
  BY <1>0, <1>1, <1>2, <1>3 DEF Recorded, LogHistory
<1>4. CASE Deliver(a)
  <2>1. /\ logs' = logs /\ sends' = [sends EXCEPT ![cur[a].id] = @ + 1]
        /\ cur[a].id \in Task /\ \A t \in Task : Active(a, t)' => t = cur[a].id
        /\ Active(a, cur[a].id) /\ pc[a] = "send"
        /\ rec[cur[a].id] = cur[a] /\ cur[a].status = "in_progress"
    BY <1>4, DeliverEnds
  <2>2. ~Settle(a)
    BY <2>1 DEF Settle, At
  <2>3. ASSUME NEW m \in logs
        PROVE  /\ m.attempt <= sends'[m.task]
               /\ m.attempt < sends'[m.task] => m.status = "Failed Attempt"
               /\ m.attempt = sends'[m.task] =>
                    /\ \A b \in Actor : Active(b, m.task)' => pc'[b] # "log"
                    /\ m.status = "Success" <=> Over(m.task, "completed")'
                    /\ m.status = "Failure" <=> Over(m.task, "failed")'
    <3>1. CASE m.task = cur[a].id
      <4>1. /\ m.attempt <= sends[m.task] /\ m.attempt \in Nat
            /\ m.task \in Task /\ sends[m.task] \in Nat
        BY <1>0 DEF Recorded
      <4>2. sends'[m.task] = sends[m.task] + 1
        BY <1>0, <2>1, <3>1, <4>1
      <4>3. ~Over(m.task, "completed") /\ ~Over(m.task, "failed")
        BY <1>0, <2>1, <3>1 DEF Over, Ends, StatusOf, Alone
      <4>4. m.attempt = sends[m.task] => m.status = "Failed Attempt"
        BY <1>0, <4>3 DEF Recorded, LogRow
      <4>5. m.attempt < sends[m.task] => m.status = "Failed Attempt"
        BY DEF Recorded
      <4>6. \A i, j \in Nat : i <= j => (i < j \/ i = j) /\ i <= j + 1 /\ i # j + 1
        OBVIOUS
      <4>7. /\ m.attempt < sends[m.task] \/ m.attempt = sends[m.task]
            /\ m.attempt <= sends[m.task] + 1 /\ m.attempt # sends[m.task] + 1
        BY <4>1, <4>6
      <4> QED BY <4>2, <4>4, <4>5, <4>7
    <3>2. CASE m.task # cur[a].id
      <4>1. m.task \in Task /\ sends'[m.task] = sends[m.task] /\ ~Active(a, m.task)'
        BY <1>0, <2>1, <3>2
      <4>2. /\ Over(m.task, "completed")' <=> Over(m.task, "completed")
            /\ Over(m.task, "failed")' <=> Over(m.task, "failed")
        BY <1>2, <2>2, <4>1
      <4> QED BY <1>1, <4>1, <4>2 DEF Recorded
    <3> QED BY <3>1, <3>2
  <2>4. LogHistory'
    BY <2>1 DEF Recorded, LogHistory
  <2> QED BY <2>1, <2>3, <2>4 DEF Recorded
<1>5. CASE Settle(a)
  BY <1>5, SettleRecorded
<1>6. CASE CountAttempt(a)
  <2>1. /\ UNCHANGED <<sends, logs>> /\ pc[a] = "attempt" /\ pc'[a] = "send"
    BY <1>6, TypeParts DEF CountAttempt, At, Goto, extVars
  <2> QED BY <1>3, <2>1 DEF Settle, At
<1> QED BY <1>0, <1>3, <1>4, <1>5, <1>6, ProgramAttempts DEF Settle, At

LEMMA RecordedKept ==
    ASSUME TypeInv, Recorded, UNCHANGED <<todo, pc, cur, sends, logs>>,
           \A t \in Task : StatusOf(t)' = StatusOf(t)
    PROVE  Recorded'
<1>1. \A l \in logs : l.task \in Task
  BY TypeParts DEF RestOK, LogRow
<1>2. /\ \A b \in Actor, t \in Task : Active(b, t)' <=> Active(b, t)
      /\ \A b \in Actor, t \in Task : \A s : Ends(b, t, s)' <=> Ends(b, t, s)
  BY DEF Ends, Active, Has, Holds, Writes, Spent
<1>3. \A t \in Task : \A s : Over(t, s) <=> Over(t, s)'
  BY <1>2 DEF Over
<1> QED BY <1>1, <1>2, <1>3 DEF Recorded, LogHistory

LEMMA Recording == Solo => (Spec => []Recorded)
<1> SUFFICES ASSUME Solo PROVE Spec => []Recorded
  OBVIOUS
<1>1. Init => Recorded
  BY DEF Init, Recorded, LogHistory
<1>2. (TypeInv /\ CalmInv /\ CustodyInv) /\ (TypeInv /\ CalmInv /\ CustodyInv)'
        /\ Counted /\ Recorded /\ [Next]_vars => Recorded'
  <2> SUFFICES ASSUME TypeInv, CalmInv, CustodyInv,
                      (TypeInv /\ CalmInv /\ CustodyInv)', Counted, Recorded, [Next]_vars
               PROVE  Recorded'
    OBVIOUS
  <2>1. StoreInv /\ (TypeInv /\ StoreInv)' /\ CustodyInv'
    BY DEF CalmInv
  <2>2. UNCHANGED vars => Recorded'
    BY RecordedKept DEF StatusOf, Known, vars, storeVars, goVars, extVars
  <2>3. ASSUME NEW u \in Task, Clock(u) PROVE Recorded'
    <3>1. UNCHANGED <<todo, pc, cur, sends, logs>>
      BY <2>3 DEF Clock, BackoffElapses, LockExpires, procVars, goVars, extVars
    <3> QED BY <2>3, <3>1, ClockStatus, RecordedKept
  <2> QED BY <2>1, <2>2, <2>3, SoloSteps, ExecRecorded, ProgramRecorded
<1> QED BY <1>1, <1>2, Custody, Counting, PTL DEF Spec

(* With one process and no faults the delivery log of a webhook is a       *)
(* history: no two rows for one attempt, and every row but that of the     *)
(* last attempt says "Failed Attempt", although a worker writes its row    *)
(* before it has updated the record.                                       *)
THEOREM History == Solo => (Spec => []LogHistory)
BY Recording, PTL DEF Recorded

-----------------------------------------------------------------------------
(* The life of a record, as TaskLifecycle sees it.                         *)
Attempts(t) == IF Known(t) THEN rec[t].attempts ELSE 0

(* The record of one task is replaced, and no other.                       *)
LEMMA RecordMoves ==
    ASSUME NEW t \in Task, \A u \in Task : u # t => rec'[u] = rec[u]
    PROVE  /\ [u \in Task |-> StatusOf(u)]' =
                [[u \in Task |-> StatusOf(u)] EXCEPT ![t] = StatusOf(t)']
           /\ [u \in Task |-> IF Known(u) THEN rec[u].attempts ELSE 0]' =
                [[u \in Task |-> IF Known(u) THEN rec[u].attempts ELSE 0]
                   EXCEPT ![t] = Attempts(t)']
BY DEF StatusOf, Attempts, Known

LEMMA LifeMove ==
    ASSUME NEW t \in Task, \A u \in Task : u # t => rec'[u] = rec[u],
           Attempts(t)' = Attempts(t),
           NEW from, NEW to, StatusOf(t) = from, StatusOf(t)' = to
    PROVE  Lifecycle!Move(t, from, to)
BY RecordMoves DEF Lifecycle!Move, Attempts

LEMMA LifeCount ==
    ASSUME NEW t \in Task, \A u \in Task : u # t => rec'[u] = rec[u],
           StatusOf(t)' = StatusOf(t), Attempts(t)' = Attempts(t) + 1,
           StatusOf(t) = "in_progress", Attempts(t) < MaxAttempts
    PROVE  Lifecycle!Attempted(t)
BY RecordMoves DEF Lifecycle!Attempted, Attempts

(* Each write of a record is the step that the program was about to make.  *)
LEMMA ExecLives ==
    ASSUME TypeInv, StoreInv, (TypeInv /\ StoreInv)', Agreed,
           NEW a \in Actor, Executes(a), NEW t \in Task, rec'[t] # rec[t]
    PROVE  Lifecycle!LifeNext
<1> DEFINE c == Head(todo[a]).copy
<1>1. /\ t = c.id /\ rec'[t] = c
      /\ Carried(a[2], pc[a], c) /\ Replaces(a[2], pc[a], rec[t], c)
      /\ pc[a] = "offer" => c = NewTask(t)
      /\ pc[a] \in {"offer", "accept", "attempt", "send", "put", "unlock"}
  BY ExecReplaces
<1>2. /\ \A u \in Task : u # t => rec'[u] = rec[u]
      /\ c \in Copy /\ c.attempts \in Nat /\ c # None
      /\ MaxAttempts \in Nat
      /\ Known(t) => rec[t].attempts \in Nat
  BY <1>1, ExecRecords, ExecHand, OneStore, SchedulerAssumption, NoneAssumption
     DEF Copy
<1>3. StatusOf(t)' = c.status /\ Attempts(t)' = c.attempts
  BY <1>1, <1>2 DEF StatusOf, Attempts, Known
<1>4. Sound(c) /\ c.status \in Statuses(a[2], pc[a])
  BY <1>1 DEF Carried
<1>5. CASE pc[a] = "offer"
  <2>1. /\ StatusOf(t) = "unknown" /\ Attempts(t) = 0
        /\ c.status = "queued" /\ c.attempts = 0
    BY <1>1, <1>5 DEF Replaces, StatusOf, Attempts, Known, NewTask
  <2>2. Lifecycle!Move(t, "unknown", "queued")
    BY <1>2, <1>3, <2>1, LifeMove
  <2> QED BY <2>2 DEF Lifecycle!LifeNext, Lifecycle!Accepted
<1>6. CASE pc[a] = "send"
  <2>1. /\ StatusOf(t) = "in_progress" /\ c.status = "in_progress"
        /\ Attempts(t) \in Nat /\ c.attempts = Attempts(t) + 1
        /\ c.attempts <= MaxAttempts
    BY <1>1, <1>2, <1>4, <1>6
       DEF Replaces, From, Statuses, StatusOf, Attempts, Known, Sound
  <2>2. Attempts(t) < MaxAttempts
    BY <1>2, <2>1
  <2>3. StatusOf(t)' = StatusOf(t) /\ Attempts(t)' = Attempts(t) + 1
    BY <1>3, <2>1
  <2>4. Lifecycle!Attempted(t)
    BY <1>2, <2>1, <2>2, <2>3, LifeCount
  <2> QED BY <2>4 DEF Lifecycle!LifeNext
<1>7. CASE pc[a] \notin {"offer", "send"}
  <2>1. /\ StatusOf(t) = From(a[2], pc[a]) /\ Attempts(t) = c.attempts /\ Known(t)
        /\ Attempts(t) \in Nat
    BY <1>1, <1>2, <1>7 DEF Replaces, StatusOf, Attempts, Known
  <2>2. \A from, to : From(a[2], pc[a]) = from /\ c.status = to =>
                        Lifecycle!Move(t, from, to)
    BY <1>2, <1>3, <2>1, LifeMove
  <2>3. CASE pc[a] = "accept" \/ (pc[a] = "unlock" /\ a[2] = "dispatcher")
    <3>1. From(a[2], pc[a]) = "queued" /\ c.status = "retry_pending"
      BY <1>4, <2>3 DEF From, Statuses
    <3> QED BY <2>2, <3>1 DEF Lifecycle!LifeNext, Lifecycle!Postponed
  <2>4. CASE pc[a] = "put"
    <3>1. From(a[2], pc[a]) = "retry_pending" /\ c.status = "queued"
      BY <1>4, <2>4 DEF From, Statuses
    <3> QED BY <2>2, <3>1 DEF Lifecycle!LifeNext, Lifecycle!Requeued
  <2>5. CASE pc[a] = "attempt"
    <3>1. /\ From(a[2], pc[a]) = "queued" /\ c.status = "in_progress"
          /\ Attempts(t) < MaxAttempts
      BY <1>1, <1>4, <2>1, <2>5 DEF From, Statuses, Carried
    <3>2. Lifecycle!Started(t)
      BY <2>2, <3>1 DEF Lifecycle!Started, Attempts
    <3> QED BY <3>2 DEF Lifecycle!LifeNext
  <2>6. CASE pc[a] = "unlock" /\ a[2] # "dispatcher"
    <3>1. /\ From(a[2], pc[a]) = "in_progress" /\ Attempts(t) > 0
          /\ c.status \in {"completed", "failed", "retry_pending"}
      BY <1>1, <1>4, <2>1, <2>6 DEF From, Statuses, Carried
    <3>2. CASE c.status = "completed"
      <4>1. Lifecycle!Succeeded(t)
        BY <2>2, <3>1, <3>2 DEF Lifecycle!Succeeded, Attempts
      <4> QED BY <4>1 DEF Lifecycle!LifeNext
    <3>3. CASE c.status = "failed"
      <4>1. Attempts(t) = MaxAttempts
        BY <1>4, <2>1, <3>3 DEF Sound
      <4>2. Lifecycle!GivenUp(t)
        BY <2>2, <3>1, <3>3, <4>1 DEF Lifecycle!GivenUp, Attempts
      <4> QED BY <4>2 DEF Lifecycle!LifeNext
    <3>4. CASE c.status = "retry_pending"
      <4>1. Attempts(t) \in 1..(MaxAttempts - 1)
        BY <1>2, <1>4, <2>1, <3>1, <3>4 DEF Sound
      <4>2. Lifecycle!Failed(t)
        BY <2>2, <3>1, <3>4, <4>1 DEF Lifecycle!Failed, Attempts
      <4> QED BY <4>2 DEF Lifecycle!LifeNext
    <3> QED BY <3>1, <3>2, <3>3, <3>4
  <2> QED BY <1>1, <1>7, <2>3, <2>4, <2>5, <2>6
<1> QED BY <1>1, <1>5, <1>6, <1>7

(* The scheduler implements the life cycle: with one process and no faults *)
(* a reader of Redis sees each webhook queued, postponed, attempted and    *)
(* ended as TaskLifecycle says, whatever the goroutines do in between.     *)
THEOREM Refinement == Solo => (Spec => RefinesLifecycle)
<1> SUFFICES ASSUME Solo PROVE Spec => RefinesLifecycle
  OBVIOUS
<1>1. Init => Lifecycle!LifeInit
  <2> SUFFICES ASSUME Init PROVE Lifecycle!LifeInit
    OBVIOUS
  <2>1. \A t \in Task : ~Known(t)
    BY DEF Init, StoreInit, Known
  <2> QED BY <2>1 DEF Lifecycle!LifeInit, StatusOf
<1>2. (TypeInv /\ CalmInv /\ CustodyInv) /\ (TypeInv /\ CalmInv /\ CustodyInv)'
        /\ [Next]_vars => [Lifecycle!LifeNext]_(Lifecycle!lifeVars)
  <2> SUFFICES ASSUME TypeInv, CalmInv, CustodyInv,
                      (TypeInv /\ CalmInv /\ CustodyInv)', [Next]_vars
               PROVE  Lifecycle!LifeNext \/ UNCHANGED Lifecycle!lifeVars
    OBVIOUS
  <2>1. StoreInv /\ (TypeInv /\ StoreInv)' /\ Agreed
    BY DEF CalmInv, CustodyInv
  <2>2. CASE \A t \in Task : StatusOf(t)' = StatusOf(t) /\ Attempts(t)' = Attempts(t)
    BY <2>2 DEF Lifecycle!lifeVars, Attempts
  <2>3. UNCHANGED rec => \A t \in Task : StatusOf(t)' = StatusOf(t)
                                         /\ Attempts(t)' = Attempts(t)
    BY DEF StatusOf, Attempts, Known
  <2>4. ASSUME NEW a \in Actor, Executes(a)
        PROVE  Lifecycle!LifeNext \/ UNCHANGED Lifecycle!lifeVars
    <3>1. CASE \A t \in Task : rec'[t] = rec[t]
      BY <2>2, <3>1 DEF StatusOf, Attempts, Known
    <3>2. CASE \E t \in Task : rec'[t] # rec[t]
      BY <2>1, <2>4, <3>2, ExecLives
    <3> QED BY <3>1, <3>2
  <2>5. ASSUME NEW a \in Actor, Program(a) PROVE UNCHANGED rec
    BY <2>1, <2>5, ProgramMoves DEF Moves
  <2>6. ASSUME NEW u \in Task, Clock(u)
        PROVE  \A t \in Task : StatusOf(t)' = StatusOf(t) /\ Attempts(t)' = Attempts(t)
    BY <2>6, ClockStatus, ClockAttempts DEF Attempts
  <2>7. UNCHANGED vars => UNCHANGED rec
    BY DEF vars, storeVars
  <2> QED BY <2>2, <2>3, <2>4, <2>5, <2>6, <2>7, SoloSteps
<1> QED BY <1>1, <1>2, Custody, PTL DEF Spec, RefinesLifecycle, Lifecycle!LifeSpec
=============================================================================
