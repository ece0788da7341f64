---------------------------- MODULE MCButtonsDrv -----------------------------
(***************************************************************************)
(* Two processes and two keys; see the .cfg files.  Liveness is checked    *)
(* with model values but without symmetry.                                 *)
(***************************************************************************)
EXTENDS ButtonsDrv
=============================================================================
