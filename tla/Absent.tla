------------------------------- MODULE Absent ------------------------------
(***************************************************************************)
(* null: the value of what is not there, in the modules that one run       *)
(* checks side by side.                                                    *)
(***************************************************************************)
CONSTANT None
=============================================================================
