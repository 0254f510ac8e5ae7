------------------------------ MODULE MCEngine ------------------------------
(* The instance of Engine that TLC checks. *)
EXTENDS Engine

=============================================================================
