--------------------------- MODULE MCTouchscreen -----------------------------
(***************************************************************************)
(* Two conversions per report, points of at most two reports.              *)
(***************************************************************************)
EXTENDS Touchscreen

MCPositions == {<<1, 2>>, <<3, 5>>}
=============================================================================
