------------------------------ MODULE TaskStore ------------------------------
(***************************************************************************)
(* The Redis side of the delivery scheduler (internal/worker/worker.go):   *)
(* task records, the status sets that index them, and the per-task lock.   *)
(*                                                                         *)
(* Every Redis command is atomic, but a Go function that issues several    *)
(* commands is not.  A goroutine therefore computes the commands it is     *)
(* about to issue and keeps them in todo[a]; each step executes the first. *)
(* updateTaskInRedis begins with a read of the old record, so its later    *)
(* commands are only known once that read has been executed.               *)
(***************************************************************************)
EXTENDS Naturals, Sequences

CONSTANTS
    Task,   \* task identifiers, each created by one webhook request
    Actor,  \* the goroutines that talk to Redis
    None    \* "no task": a missing record, or empty hands

VARIABLES
    rec,      \* rec[t]: the JSON record under webhook:task:<t>, or None
    members,  \* members[k]: the set webhook:tasks:<status>, and for "listed"
              \* the list webhook:subscription:<id>:tasks
    locked,   \* the tasks whose key webhook:task:<t>:lock exists
    todo      \* todo[a]: the Redis commands a has still to issue

storeVars == <<rec, members, locked, todo>>

Status == {"queued", "in_progress", "retry_pending",
           "completed", "failed", "cancelled"}
Terminal == {"completed", "failed", "cancelled"}
Key == Status \cup {"listed"}

(* The fields of Task that steer the program.  due abstracts               *)
(* NextAttemptAt.Before(now): a zero or a past time is due.                *)
Copy == [id: Task, status: Status, attempts: Nat, due: BOOLEAN]

(* For "set" the key is the status that GetTaskStatus found before it,     *)
(* "unknown" if it found none, "listed" when saveTaskToRedis issues it.    *)
Command == [op: {"update", "set", "add", "rem"},
            key: Key \cup {"unknown"}, copy: Copy]

ASSUME NoneAssumption == None \notin Task /\ None \notin Copy

Known(t) == rec[t] # None
StatusOf(t) == IF Known(t) THEN rec[t].status ELSE "unknown"

-----------------------------------------------------------------------------
(* The commands a function starts with.                                    *)

Cmd(op, k, c) == <<[op |-> op, key |-> k, copy |-> c]>>

AddTo(k, c)      == Cmd("add", k, c)
RemoveFrom(k, c) == Cmd("rem", k, c)
UpdateTask(c)    == Cmd("update", c.status, c)
SaveTask(c)      == Cmd("set", "listed", c)

(* Faulty: the entry under the old status stays.                           *)
AfterSetKeepsOld(old, c) ==
    IF old = "listed" THEN AddTo("listed", c) \o AddTo(c.status, c)
    ELSE AddTo(c.status, c)

(* What follows a successful SET of record c.                              *)
AfterSet(old, c) ==
    IF old = "listed" THEN AddTo("listed", c) \o AddTo(c.status, c)
    ELSE IF old = c.status THEN <<>>
    ELSE IF old = "unknown" THEN AddTo(c.status, c)
    ELSE RemoveFrom(old, c) \o AddTo(c.status, c)

-----------------------------------------------------------------------------
(* Execution of the first command of goroutine a.                          *)

First(a, op) == todo[a] # <<>> /\ Head(todo[a]).op = op

(* The commands of a once the first is replaced by cmds.                   *)
Continue(a, cmds) == todo' = [todo EXCEPT ![a] = cmds \o Tail(@)]

ExecUpdate(a) ==
    /\ First(a, "update")
    /\ LET c == Head(todo[a]).copy IN Continue(a, Cmd("set", StatusOf(c.id), c))
    /\ UNCHANGED <<rec, members, locked>>

ExecSet(a) ==
    /\ First(a, "set")
    /\ LET c == Head(todo[a]).copy IN
        /\ rec' = [rec EXCEPT ![c.id] = c]
        /\ Continue(a, AfterSet(Head(todo[a]).key, c))
    /\ UNCHANGED <<members, locked>>

ExecAdd(a) ==
    /\ First(a, "add")
    /\ LET c == Head(todo[a])
       IN  members' = [members EXCEPT ![c.key] = @ \cup {c.copy.id}]
    /\ Continue(a, <<>>)
    /\ UNCHANGED <<rec, locked>>

ExecRemove(a) ==
    /\ First(a, "rem")
    /\ LET c == Head(todo[a])
       IN  members' = [members EXCEPT ![c.key] = @ \ {c.copy.id}]
    /\ Continue(a, <<>>)
    /\ UNCHANGED <<rec, locked>>

Exec(a) == ExecUpdate(a) \/ ExecSet(a) \/ ExecAdd(a) \/ ExecRemove(a)

(* The first command of a returns an error; the write may or may not have  *)
(* reached Redis.  A failed read makes the old status "unknown", a failed  *)
(* SET ends its function (and CancelTask with it), other errors are        *)
(* ignored.                                                                *)
ReadOldFails(a) ==
    /\ First(a, "update")
    /\ LET c == Head(todo[a]).copy IN Continue(a, Cmd("set", "unknown", c))
    /\ UNCHANGED <<rec, members, locked>>

SetFails(a) ==
    /\ First(a, "set")
    /\ LET c == Head(todo[a]).copy IN
        /\ rec' \in {rec, [rec EXCEPT ![c.id] = c]}
        /\ todo' = [todo EXCEPT ![a] =
                      IF c.status = "cancelled" THEN <<>> ELSE Tail(@)]
    /\ UNCHANGED <<members, locked>>

IndexFails(a) ==
    /\ First(a, "add") \/ First(a, "rem")
    /\ Continue(a, <<>>)
    /\ UNCHANGED <<rec, members, locked>>

ExecFails(a) == ReadOldFails(a) \/ SetFails(a) \/ IndexFails(a)

-----------------------------------------------------------------------------
(* The lock: SET NX with a 30 minute expiry, and an unconditional DEL.     *)

(* Faulty: SET without NX.                                                 *)
AcquireAnyway(t) == locked' = locked \cup {t}

AcquireLock(t) == t \notin locked /\ locked' = locked \cup {t}
ReleaseLock(t) == locked' = locked \ {t}

StoreInit ==
    /\ rec = [t \in Task |-> None]
    /\ members = [k \in Key |-> {}]
    /\ locked = {}
    /\ todo = [a \in Actor |-> <<>>]

StoreTypeOK ==
    /\ rec \in [Task -> Copy \cup {None}]
    /\ members \in [Key -> SUBSET Task]
    /\ locked \subseteq Task
    /\ todo \in [Actor -> Seq(Command)]
=============================================================================
