------------------------------- MODULE MCPort -------------------------------
(* Small instances of Port. *)
EXTENDS Port
=============================================================================
