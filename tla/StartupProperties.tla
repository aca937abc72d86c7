-------------------------- MODULE StartupProperties --------------------------
(***************************************************************************)
(* What starting processes guarantee each other, whatever ends them.       *)
(***************************************************************************)
EXTENDS Startup

(* Every variable stays within its type.                                   *)
TypeOK ==
    /\ pc \in [Proc -> Label]
    /\ version \in 0..Migrations
    /\ dirty \in BOOLEAN
    /\ runs \in [1..Migrations -> Nat]
    /\ lock \in Proc \cup {None}
    /\ working \subseteq Proc
    /\ told \subseteq Proc
    /\ faults \in Nat

(* The SQL of a migration, which can not be repeated (CREATE INDEX,        *)
(* CREATE TRIGGER), is executed once at most, and only after all before it *)
(* were: concurrent starts, crashes and restarts do not repeat it.         *)
AppliedOnce ==
    /\ \A k \in 1..Migrations : runs[k] <= 1
    /\ \A j, k \in 1..Migrations : j < k /\ runs[k] = 1 => runs[j] = 1

(* As soon as workers or handlers of a process run, the schema is complete *)
(* and nobody changes it any more.                                         *)
SchemaReady ==
    \A p \in Proc : p \in working \/ pc[p] \in {"notify", "listen", "serving"} =>
        /\ version = Migrations /\ ~dirty
        /\ \A k \in 1..Migrations : runs[k] = 1

(* Every process comes up in the end, after the last fault, unless a       *)
(* migration was interrupted: then none ever does.                         *)
ComesUp ==
    \A p \in Proc : <>[](pc[p] = "serving" /\ p \in working) \/ <>[]dirty
=============================================================================
