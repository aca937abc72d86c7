------------------------------- MODULE Startup -------------------------------
(***************************************************************************)
(* How a process of the service comes up and ends (main.go, with           *)
(* internal/db/postgres.go and internal/cache/redis.go). Processes may     *)
(* start at the same time on one database; the platform restarts those     *)
(* that end (restart: always).                                             *)
(*                                                                         *)
(* The migrations are run by golang-migrate, which is external: under an   *)
(* advisory lock of its database session it marks the version dirty, runs  *)
(* the SQL file as one statement, and clears the mark.                     *)
(***************************************************************************)
EXTENDS Naturals

CONSTANTS
    Proc,        \* processes
    None,        \* no process
    Migrations,  \* number of files in migrations/
    FaultKinds,  \* of "crash", "signal" (SIGTERM) and "error", those that occur
    MaxFaults    \* bound on their number

ASSUME StartupAssumption ==
    /\ None \notin Proc
    /\ Migrations \in Nat
    /\ FaultKinds \subseteq {"crash", "signal", "error"}
    /\ MaxFaults \in Nat

VARIABLES
    pc,       \* pc[p]: where main is
    version,  \* schema_migrations: the last version begun, and whether
    dirty,    \* it is not known to be complete
    runs,     \* runs[k]: how often the SQL of migration k has been executed
    lock,     \* the process whose session has the advisory lock, or None
    working,  \* processes whose scheduler and log cleanup run
    told,     \* processes whose signal handler has been told to stop
    faults    \* faults so far

dbVars == <<version, dirty, runs, lock>>
vars == <<pc, dbVars, working, told, faults>>

Label == {"down", "postgres", "lock", "check", "mark", "run", "clear", "unlock",
          "redis", "scheduler", "notify", "listen", "serving"}

At(p, l) == pc[p] = l
Goto(p, l) == pc' = [pc EXCEPT ![p] = l]

Init ==
    /\ pc = [p \in Proc |-> "down"]
    /\ version = 0
    /\ dirty = FALSE
    /\ runs = [k \in 1..Migrations |-> 0]
    /\ lock = None
    /\ working = {}
    /\ told = {}
    /\ faults = 0

(* The process ends, whatever the reason, and with it its sessions.        *)
Die(p) ==
    /\ Goto(p, "down")
    /\ lock' = IF lock = p THEN None ELSE lock
    /\ working' = working \ {p}
    /\ told' = told \ {p}
    /\ UNCHANGED <<version, dirty, runs>>

Launch(p) ==
    /\ At(p, "down")
    /\ Goto(p, "postgres")
    /\ UNCHANGED <<dbVars, working, told, faults>>

(* Faulty: main does not migrate.                                          *)
ConnectUnmigrated(p) ==
    /\ At(p, "postgres")
    /\ Goto(p, "redis")
    /\ UNCHANGED <<dbVars, working, told, faults>>

ConnectPostgres(p) ==
    /\ At(p, "postgres")
    /\ Goto(p, "lock")
    /\ UNCHANGED <<dbVars, working, told, faults>>

-----------------------------------------------------------------------------
(* MigrateDB: m.Up()                                                       *)

Lock(p) ==
    /\ At(p, "lock")
    /\ lock = None
    /\ lock' = p
    /\ Goto(p, "check")
    /\ UNCHANGED <<version, dirty, runs, working, told, faults>>

(* After 15 seconds m.Up gives up, and main with it.                       *)
LockTimeout(p) ==
    /\ At(p, "lock")
    /\ lock # None
    /\ Die(p)
    /\ UNCHANGED faults

(* Faulty: the mark that a migration was interrupted is ignored.           *)
CheckForces(p) ==
    /\ At(p, "check")
    /\ Goto(p, IF version = Migrations THEN "unlock" ELSE "mark")
    /\ UNCHANGED <<dbVars, working, told, faults>>

(* Faulty: a start migrates by a step, whether there is a file or not.     *)
CheckSteps(p) ==
    /\ At(p, "check")
    /\ IF dirty THEN Die(p)
       ELSE Goto(p, "mark") /\ UNCHANGED <<dbVars, working, told>>
    /\ UNCHANGED faults

(* Faulty: MigrateDB takes ErrNoChange for an error.                       *)
CheckStrict(p) ==
    /\ At(p, "check")
    /\ IF dirty \/ version = Migrations THEN Die(p)
       ELSE Goto(p, "mark") /\ UNCHANGED <<dbVars, working, told>>
    /\ UNCHANGED faults

(* A dirty version is an error that ends main; ErrNoChange is none.        *)
Check(p) ==
    /\ At(p, "check")
    /\ IF dirty THEN Die(p)
       ELSE /\ Goto(p, IF version = Migrations THEN "unlock" ELSE "mark")
            /\ UNCHANGED <<dbVars, working, told>>
    /\ UNCHANGED faults

MarkDirty(p) ==
    /\ At(p, "mark")
    /\ version' = version + 1
    /\ dirty' = TRUE
    /\ Goto(p, "run")
    /\ UNCHANGED <<runs, lock, working, told, faults>>

RunSql(p) ==
    /\ At(p, "run")
    /\ runs' = [runs EXCEPT ![version] = @ + 1]
    /\ Goto(p, "clear")
    /\ UNCHANGED <<version, dirty, lock, working, told, faults>>

ClearDirty(p) ==
    /\ At(p, "clear")
    /\ dirty' = FALSE
    /\ Goto(p, IF version = Migrations THEN "unlock" ELSE "mark")
    /\ UNCHANGED <<version, runs, lock, working, told, faults>>

Unlock(p) ==
    /\ At(p, "unlock")
    /\ lock' = None
    /\ Goto(p, "redis")
    /\ UNCHANGED <<version, dirty, runs, working, told, faults>>

-----------------------------------------------------------------------------
ConnectRedis(p) ==
    /\ At(p, "redis")
    /\ Goto(p, "scheduler")
    /\ UNCHANGED <<dbVars, working, told, faults>>

(* NewScheduler, Start and StartLogCleanupWorker.                          *)
InitScheduler(p) ==
    /\ At(p, "scheduler")
    /\ working' = working \cup {p}
    /\ Goto(p, "notify")
    /\ UNCHANGED <<dbVars, told, faults>>

(* RegisterRoutes, then signal.Notify and the goroutine that waits.        *)
Notify(p) ==
    /\ At(p, "notify")
    /\ Goto(p, "listen")
    /\ UNCHANGED <<dbVars, working, told, faults>>

Listen(p) ==
    /\ At(p, "listen")
    /\ Goto(p, "serving")
    /\ UNCHANGED <<dbVars, working, told, faults>>

(* Stop returns when the workers are done.                                 *)
StopScheduler(p) ==
    /\ p \in told
    /\ p \in working
    /\ working' = working \ {p}
    /\ UNCHANGED <<pc, dbVars, told, faults>>

(* e.Shutdown: e.Start returns, or will when it is called, with an error   *)
(* that is fatal.                                                          *)
Shutdown(p) ==
    /\ p \in told \ working
    /\ Die(p)
    /\ UNCHANGED faults

-----------------------------------------------------------------------------
Fault(kind) ==
    /\ kind \in FaultKinds
    /\ faults < MaxFaults
    /\ faults' = faults + 1

Crash(p) == ~At(p, "down") /\ Fault("crash") /\ Die(p)

(* SIGTERM: before signal.Notify its default action ends the process, with *)
(* or without a running scheduler.                                         *)
Signal(p) ==
    /\ ~At(p, "down")
    /\ Fault("signal")
    /\ IF pc[p] \in {"listen", "serving"}
         THEN told' = told \cup {p} /\ UNCHANGED <<pc, dbVars, working>>
         ELSE Die(p)

(* Postgres or Redis does not answer, or refuses: log.Fatalf. A file that  *)
(* fails leaves the version dirty and has no effect.                       *)
StartFails(p) ==
    /\ Fault("error")
    /\ pc[p] \in {"postgres", "lock", "check", "mark", "run", "clear", "redis"}
    /\ Die(p)

(* What main and its signal handler do once the process is started.        *)
Main(p) ==
    \/ ConnectPostgres(p)
    \/ Lock(p) \/ Check(p) \/ MarkDirty(p) \/ RunSql(p) \/ ClearDirty(p) \/ Unlock(p)
    \/ ConnectRedis(p) \/ InitScheduler(p) \/ Notify(p) \/ Listen(p)
    \/ StopScheduler(p) \/ Shutdown(p)

Next ==
    \E p \in Proc :
        \/ Launch(p) \/ Main(p) \/ LockTimeout(p)
        \/ Crash(p) \/ Signal(p) \/ StartFails(p)

Spec == Init /\ [][Next]_vars

LiveSpec == Spec /\ \A p \in Proc : WF_vars(Main(p)) /\ WF_vars(Launch(p))
=============================================================================
