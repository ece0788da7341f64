---------------------------- MODULE MCSystemTimer ---------------------------
(***************************************************************************)
(* A counter of five values, two counts per microsecond, three wraps:      *)
(* every position of the wrap relative to the reads, delays longer than a  *)
(* period, durations longer than W.                                        *)
(***************************************************************************)
EXTENDS SystemTimer

MCDelays == {0, 1, 3}
=============================================================================
