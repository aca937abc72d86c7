---------------------------- MODULE StartupProofs ----------------------------
(***************************************************************************)
(* For any number of processes, migrations and faults: the schema is built *)
(* once, in order, and is complete before a process works with it.         *)
(***************************************************************************)
EXTENDS StartupProperties, TLAPS

Locking == {"check", "mark", "run", "clear", "unlock"}
Done == {"unlock", "redis", "scheduler", "notify", "listen", "serving"}

(* Whoever is at the migrations has the lock.                              *)
LockHeld == \A p \in Proc : pc[p] \in Locking => lock = p

(* Which migrations have been executed, from what the database says.       *)
Counted ==
    \A k \in 1..Migrations :
        /\ k < version => runs[k] = 1
        /\ k = version => runs[k] \in {0, 1} /\ (~dirty => runs[k] = 1)
        /\ k > version => runs[k] = 0

(* What a process may conclude from where it is.                           *)
Placed ==
    \A p \in Proc :
        /\ pc[p] = "mark" => ~dirty /\ version < Migrations
        /\ pc[p] = "run" => dirty /\ version >= 1 /\ runs[version] = 0
        /\ pc[p] = "clear" => dirty /\ version >= 1 /\ runs[version] = 1
        /\ pc[p] \in Done \/ p \in working => ~dirty /\ version = Migrations

Inv == TypeOK /\ LockHeld /\ Counted /\ Placed

LEMMA InitInv == Init => Inv
<1> SUFFICES ASSUME Init PROVE Inv
  OBVIOUS
<1> USE StartupAssumption DEF Init
<1>1. TypeOK
  <2>1. pc \in [Proc -> Label] BY DEF Label
  <2>2. runs \in [1..Migrations -> Nat] OBVIOUS
  <2>3. version \in 0..Migrations /\ faults \in Nat OBVIOUS
  <2>4. dirty \in BOOLEAN BY Zenon
  <2>5. lock \in Proc \cup {None} /\ working \subseteq Proc /\ told \subseteq Proc
    OBVIOUS
  <2> QED BY ONLY <2>1, <2>2, <2>3, <2>4, <2>5 DEF TypeOK
<1>2. LockHeld BY DEF LockHeld, Locking
<1>3. Counted BY DEF Counted
<1>4. Placed BY DEF Placed, Done
<1> QED BY <1>1, <1>2, <1>3, <1>4 DEF Inv

(* The end of a process takes nothing from the others.                     *)
LEMMA DieInv ==
    ASSUME Inv, NEW p \in Proc, Die(p), faults' \in Nat
    PROVE  Inv'
<1>1. TypeOK'
  BY DEF Inv, TypeOK, Die, Goto, Label
<1>2. LockHeld'
  BY DEF Inv, TypeOK, LockHeld, Die, Goto, Locking
<1>3. Counted'
  BY DEF Inv, Counted, Die
<1>4. Placed'
  BY DEF Inv, TypeOK, Placed, Die, Goto, Done
<1> QED BY <1>1, <1>2, <1>3, <1>4 DEF Inv

(* Steps that leave the database alone, of a process that is not at the    *)
(* migrations, or leaves them.                                             *)
LEMMA QuietInv ==
    ASSUME Inv, NEW p \in Proc, NEW l \in Label \ Locking, Goto(p, l),
           UNCHANGED <<version, dirty, runs>>,
           (lock' = lock) \/ (pc[p] \in Locking /\ lock' = None),
           (working' = working) \/ (pc[p] \in Done /\ working' = working \cup {p}),
           told' \subseteq Proc, faults' \in Nat,
           l \in Done => pc[p] \in Done
    PROVE  Inv'
<1>1. TypeOK'
  BY DEF Inv, TypeOK, Goto
<1>2. LockHeld'
  <2> SUFFICES ASSUME NEW q \in Proc, pc'[q] \in Locking PROVE lock' = q
    BY DEF LockHeld
  <2>1. q # p /\ pc'[q] = pc[q]
    BY DEF Inv, TypeOK, Goto
  <2>2. lock = q
    BY <2>1 DEF Inv, LockHeld
  <2> QED BY <2>1, <2>2 DEF Inv, LockHeld
<1>3. Counted'
  BY DEF Inv, Counted
<1>4. Placed'
  BY DEF Inv, TypeOK, Placed, Goto, Done, Locking, Label
<1> QED BY <1>1, <1>2, <1>3, <1>4 DEF Inv

(* The steps of MigrateDB that keep the lock.                              *)
LEMMA MigrateInv ==
    ASSUME Inv, NEW p \in Proc,
           Lock(p) \/ Check(p) \/ MarkDirty(p) \/ RunSql(p) \/ ClearDirty(p)
    PROVE  Inv'
<1> USE StartupAssumption
<1>1. CASE Lock(p)
  <2>1. TypeOK' BY <1>1 DEF Inv, TypeOK, Lock, At, Goto, Label
  <2>2. LockHeld'
    BY <1>1 DEF Inv, TypeOK, LockHeld, Lock, At, Goto
  <2>3. Counted' BY <1>1 DEF Inv, Counted, Lock
  <2>4. Placed' BY <1>1 DEF Inv, TypeOK, Placed, Lock, At, Goto, Done
  <2> QED BY <2>1, <2>2, <2>3, <2>4 DEF Inv
<1>2. CASE Check(p)
  <2>1. CASE dirty
    BY <1>2, <2>1, DieInv DEF Check, Inv, TypeOK
  <2>2. CASE ~dirty
    <3>1. TypeOK' BY <1>2, <2>2 DEF Inv, TypeOK, Check, At, Goto, Label, dbVars
    <3>2. LockHeld'
      BY <1>2, <2>2 DEF Inv, TypeOK, LockHeld, Check, At, Goto, Locking, dbVars
    <3>3. Counted' BY <1>2, <2>2 DEF Inv, Counted, Check, dbVars
    <3>4. Placed'
      BY <1>2, <2>2 DEF Inv, TypeOK, Placed, Check, At, Goto, Done, dbVars
    <3> QED BY <3>1, <3>2, <3>3, <3>4 DEF Inv
  <2> QED BY <2>1, <2>2
<1>3. CASE MarkDirty(p)
  <2>0. ~dirty /\ version < Migrations /\ lock = p
    BY <1>3 DEF Inv, Placed, LockHeld, MarkDirty, At, Locking
  <2>1. TypeOK' BY <1>3, <2>0 DEF Inv, TypeOK, MarkDirty, At, Goto, Label
  <2>2. LockHeld' BY <1>3, <2>0 DEF Inv, TypeOK, LockHeld, MarkDirty, At, Goto
  <2>3. Counted' BY <1>3, <2>0 DEF Inv, TypeOK, Counted, MarkDirty
  <2>4. runs[version + 1] = 0
    BY <2>0 DEF Inv, TypeOK, Counted
  <2>5. \A q \in Proc \ {p} : pc[q] \notin Locking
    BY <2>0 DEF Inv, LockHeld
  <2>6. Placed'
    BY <1>3, <2>0, <2>4, <2>5
    DEF Inv, TypeOK, Placed, MarkDirty, At, Goto, Done, Locking
  <2> QED BY <2>1, <2>2, <2>3, <2>6 DEF Inv
<1>4. CASE RunSql(p)
  <2>0. dirty /\ version \in 1..Migrations /\ runs[version] = 0 /\ lock = p
    BY <1>4 DEF Inv, TypeOK, Placed, LockHeld, RunSql, At, Locking
  <2>1. TypeOK' BY <1>4, <2>0 DEF Inv, TypeOK, RunSql, At, Goto, Label
  <2>2. LockHeld' BY <1>4, <2>0 DEF Inv, TypeOK, LockHeld, RunSql, At, Goto
  <2>3. Counted' BY <1>4, <2>0 DEF Inv, TypeOK, Counted, RunSql
  <2>4. \A q \in Proc \ {p} : pc[q] \notin Locking
    BY <2>0 DEF Inv, LockHeld
  <2>5. Placed'
    BY <1>4, <2>0, <2>4 DEF Inv, TypeOK, Placed, RunSql, At, Goto, Done, Locking
  <2> QED BY <2>1, <2>2, <2>3, <2>5 DEF Inv
<1>5. CASE ClearDirty(p)
  <2>0. dirty /\ version \in 1..Migrations /\ runs[version] = 1 /\ lock = p
    BY <1>5 DEF Inv, TypeOK, Placed, LockHeld, ClearDirty, At, Locking
  <2>1. TypeOK' BY <1>5, <2>0 DEF Inv, TypeOK, ClearDirty, At, Goto, Label
  <2>2. LockHeld' BY <1>5, <2>0 DEF Inv, TypeOK, LockHeld, ClearDirty, At, Goto
  <2>3. Counted' BY <1>5, <2>0 DEF Inv, TypeOK, Counted, ClearDirty
  <2>4. \A q \in Proc \ {p} : pc[q] \notin Locking
    BY <2>0 DEF Inv, LockHeld
  <2>5. Placed'
    BY <1>5, <2>0, <2>4 DEF Inv, TypeOK, Placed, ClearDirty, At, Goto, Done, Locking
  <2> QED BY <2>1, <2>2, <2>3, <2>5 DEF Inv
<1> QED BY <1>1, <1>2, <1>3, <1>4, <1>5

LEMMA NextInv == Inv /\ [Next]_vars => Inv'
<1> SUFFICES ASSUME Inv, [Next]_vars PROVE Inv'
  OBVIOUS
<1>1. CASE UNCHANGED vars
  BY <1>1 DEF Inv, TypeOK, LockHeld, Counted, Placed, vars, dbVars
<1>2. ASSUME NEW p \in Proc,
             Lock(p) \/ Check(p) \/ MarkDirty(p) \/ RunSql(p) \/ ClearDirty(p)
      PROVE  Inv'
  BY <1>2, MigrateInv
<1>3. ASSUME NEW p \in Proc, Shutdown(p) \/ LockTimeout(p) PROVE Inv'
  BY <1>3, DieInv DEF Shutdown, LockTimeout, Inv, TypeOK
<1>4. ASSUME NEW p \in Proc, Crash(p) \/ StartFails(p) PROVE Inv'
  BY <1>4, DieInv DEF Crash, StartFails, Fault, Inv, TypeOK
<1>5. ASSUME NEW p \in Proc, Launch(p) \/ ConnectPostgres(p) PROVE Inv'
  <2>1. PICK l \in {"postgres", "lock"} : Goto(p, l)
    BY <1>5 DEF Launch, ConnectPostgres
  <2>2. UNCHANGED <<version, dirty, runs, lock, working, told, faults>>
    BY <1>5 DEF Launch, ConnectPostgres, dbVars
  <2>3. l \in Label \ Locking /\ l \notin Done
    BY DEF Label, Locking, Done
  <2>4. told' \subseteq Proc /\ faults' \in Nat
    BY <2>2 DEF Inv, TypeOK
  <2> QED BY <2>1, <2>2, <2>3, <2>4, QuietInv
<1>6. ASSUME NEW p \in Proc,
             \/ Unlock(p) \/ ConnectRedis(p) \/ InitScheduler(p)
             \/ Notify(p) \/ Listen(p)
      PROVE  Inv'
  <2>1. PICK l \in {"redis", "scheduler", "notify", "listen", "serving"} : Goto(p, l)
    BY <1>6 DEF Unlock, ConnectRedis, InitScheduler, Notify, Listen
  <2>2. pc[p] \in Done
    BY <1>6 DEF Unlock, ConnectRedis, InitScheduler, Notify, Listen, At, Done
  <2>3. (lock' = lock) \/ (pc[p] \in Locking /\ lock' = None)
    BY <1>6
    DEF Unlock, ConnectRedis, InitScheduler, Notify, Listen, At, Locking, dbVars
  <2>4. /\ UNCHANGED <<version, dirty, runs, told, faults>>
        /\ (working' = working) \/ (working' = working \cup {p})
    BY <1>6 DEF Unlock, ConnectRedis, InitScheduler, Notify, Listen, dbVars
  <2>5. l \in Label \ Locking
    BY DEF Label, Locking
  <2> QED BY <2>1, <2>2, <2>3, <2>4, <2>5, QuietInv DEF Inv, TypeOK
<1>7. ASSUME NEW p \in Proc, StopScheduler(p) PROVE Inv'
  BY <1>7
  DEF StopScheduler, dbVars, Inv, TypeOK, LockHeld, Counted, Placed
<1>8. ASSUME NEW p \in Proc, Signal(p) PROVE Inv'
  <2>1. faults' \in Nat
    BY <1>8 DEF Signal, Fault, Inv, TypeOK
  <2>2. CASE pc[p] \in {"listen", "serving"}
    BY <1>8, <2>1, <2>2
    DEF Signal, dbVars, Inv, TypeOK, LockHeld, Counted, Placed
  <2>3. CASE pc[p] \notin {"listen", "serving"}
    BY <1>8, <2>1, <2>3, DieInv DEF Signal
  <2> QED BY <2>2, <2>3
<1> QED BY <1>1, <1>2, <1>3, <1>4, <1>5, <1>6, <1>7, <1>8 DEF Next, Main

(* Every reachable state satisfies the invariant.                          *)
LEMMA Invariant == Spec => []Inv
BY InitInv, NextInv, PTL DEF Spec

(* Every variable keeps its type: the version never passes the number of   *)
(* migrations, whoever dies in between.                                    *)
THEOREM Types == Spec => []TypeOK
BY Invariant, PTL DEF Inv

(* Concurrent starts, crashes, signals and restarts never execute the SQL  *)
(* of a migration twice, nor out of order.                                 *)
THEOREM Once == Spec => []AppliedOnce
<1>1. Inv => AppliedOnce
  <2> SUFFICES ASSUME Inv PROVE AppliedOnce
    OBVIOUS
  <2>1. version \in Nat /\ Migrations \in Nat
    BY StartupAssumption DEF Inv, TypeOK
  <2> QED BY <2>1 DEF Inv, TypeOK, Counted, AppliedOnce
<1> QED BY <1>1, Invariant, PTL

(* No worker and no handler of any process runs on an incomplete schema.   *)
THEOREM Ready == Spec => []SchemaReady
<1>1. Inv => SchemaReady
  <2> SUFFICES ASSUME Inv, NEW p \in Proc,
                      p \in working \/ pc[p] \in {"notify", "listen", "serving"}
               PROVE  /\ version = Migrations /\ ~dirty
                      /\ \A k \in 1..Migrations : runs[k] = 1
    BY DEF SchemaReady
  <2>1. version = Migrations /\ ~dirty
    BY DEF Inv, Placed, Done
  <2> QED BY <2>1, StartupAssumption DEF Inv, TypeOK, Counted
<1> QED BY <1>1, Invariant, PTL
=============================================================================
