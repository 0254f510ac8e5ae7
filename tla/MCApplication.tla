--------------------------- MODULE MCApplication ---------------------------
(* The instance of Application for TLC. *)
EXTENDS Application
=============================================================================
