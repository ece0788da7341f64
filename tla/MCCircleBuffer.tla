--------------------------- MODULE MCCircleBuffer ---------------------------
(***************************************************************************)
(* A ring of four slots: empty, full and every wrap of both indices occur. *)
(***************************************************************************)
EXTENDS CircleBuffer

MCDurations == {560, 1680}
=============================================================================
