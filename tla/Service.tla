------------------------------- MODULE Service -------------------------------
(***************************************************************************)
(* The delivery scheduler and the subscriptions together, as the handlers  *)
(* (internal/api/handler.go) and the workers connect them.                 *)
(*                                                                         *)
(* A handler of Scheduler is a client of Subscriptions: the request looks  *)
(* its subscription up there, and where it has found it there (Queue) it   *)
(* creates a task here (Accept). A worker of Scheduler is a logger of      *)
(* Subscriptions: while it is at "log" here it looks the subscription up   *)
(* and inserts a row there, and where that ends it goes on here (Settle).  *)
(* Everything else is a step of one side only. Faults are left to the two  *)
(* modules, and so is the retention of log rows (72 h, records 48 h).      *)
(***************************************************************************)
EXTENDS SchedulerProperties, FiniteSets

CONSTANTS
    Sub, Url, Kinds, MaxLogs,  \* as in Subscriptions
    SubOf   \* SubOf[t]: the subscription task t is for

VARIABLES
    row, old, held, cached, used, tasked, req, got, doomed, deleted, written,
    table,     \* logs of Subscriptions: the rows that exist
    at,        \* pc of Subscriptions
    failures,  \* faults of Subscriptions
    contents   \* contents[n]: what is in the n-th row ever written

subVars == <<row, table, old, held, cached, used, tasked, at, req, got, doomed,
             deleted, written, failures>>
allVars == <<vars, subVars, contents>>

Clients == Proc \X Handler
Loggers == Proc \X Worker

S == INSTANCE Subscriptions WITH
        Client <- Clients, Logger <- Loggers, MaxFaults <- 0,
        logs <- table, pc <- at, faults <- failures

(* None is no data, request or actor of Subscriptions either; the workers  *)
(* are finitely many.                                                      *)
ASSUME ServiceAssumption ==
    /\ SubOf \in [Task -> Sub]
    /\ None \notin S!Data /\ None \notin S!Request /\ None \notin S!Agent
    /\ IsFiniteSet(Loggers)
    /\ Kinds \subseteq {"create", "ingest", "update", "delete", "log"}
    /\ MaxLogs \in Nat

ServiceInit ==
    /\ Init
    /\ S!Init
    /\ contents = <<>>

-----------------------------------------------------------------------------
(* A request arrives at a handler that is free; a worker that has posted   *)
(* begins with logDeliveryAttempt.                                         *)
Arrive(a, s) ==
    /\ IF a \in Loggers THEN At(a, "log") /\ s = SubOf[cur[a].id] ELSE At(a, "accept")
    /\ S!Arrive(a, s)
    /\ UNCHANGED <<vars, contents>>

(* logDeliveryAttempt returns, with a row or without.                      *)
Logged(a) ==
    LET c == cur[a]
        r == [task |-> c.id, attempt |-> c.attempts, status |-> LogStatus(c)]
    IN
    /\ IF written' = written
         THEN UNCHANGED <<logs, contents>>
         ELSE logs' = logs \cup {r} /\ contents' = Append(contents, r)
    /\ Settle(a)

Serve(a) ==
    /\ S!Serve(a)
    /\ IF at[a] = "queue"
         THEN /\ \E t \in Task : SubOf[t] = req[a].sub /\ Accept(a, t)
              /\ UNCHANGED contents
       ELSE IF a \in Loggers /\ at'[a] = "idle" THEN Logged(a)
       ELSE UNCHANGED <<vars, contents>>

(* Steps of the scheduler alone.                                           *)
Deliveries(a) ==
    /\ ~At(a, "log")
    /\ Run(a) \/ \E t \in Task : Cancel(a, t)
    /\ UNCHANGED <<subVars, contents>>

Time(t) == Clock(t) /\ UNCHANGED <<subVars, contents>>

-----------------------------------------------------------------------------
ServiceNext ==
    \/ \E a \in Clients \cup Loggers : Serve(a) \/ \E s \in Sub : Arrive(a, s)
    \/ \E a \in Actor : Deliveries(a)
    \/ \E t \in Task : Time(t)

ServiceSpec ==
    /\ ServiceInit
    /\ [][ServiceNext]_allVars
    /\ \A a \in Clients \cup Loggers : SF_allVars(Serve(a))
    /\ \A a \in Loggers : WF_allVars(\E s \in Sub : Arrive(a, s))
    /\ \A a \in Actor : WF_allVars(Deliveries(a))
    /\ \A t \in Task : WF_allVars(Time(t))

(* GET /api/subscriptions/:id/logs: one SELECT.                            *)
GetLogs(s) == {contents[l.n] : l \in S!LogsOf(s)}

(* A client that polls a task and then asks for the logs finds a row for   *)
(* every attempt whose outcome the task shows, and in the last row the     *)
(* same outcome: the row is written before the record. (Unless the         *)
(* subscription has been deleted.)                                         *)
OutcomesLogged ==
    \A t \in Task : Known(t) /\ row[SubOf[t]] # None =>
        \A k \in 1..rec[t].attempts :
            LET latest == k = rec[t].attempts IN
            \/ latest /\ rec[t].status = "in_progress"
            \/ [task |-> t, attempt |-> k,
                status |-> IF latest THEN LogStatus(rec[t]) ELSE "Failed Attempt"]
                    \in GetLogs(SubOf[t])
=============================================================================
