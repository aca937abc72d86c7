------------------------------ MODULE MCService ------------------------------
(***************************************************************************)
(* Service with values for its constants, for TLC.                         *)
(***************************************************************************)
EXTENDS Service

CONSTANT TheSub

MCActor == Proc \X Role
MCSubOf == [t \in Task |-> TheSub]
=============================================================================
