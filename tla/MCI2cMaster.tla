----------------------------- MODULE MCI2cMaster ----------------------------
(***************************************************************************)
(* Instances of I2cMaster for TLC.                                         *)
(***************************************************************************)
EXTENDS I2cMaster

\* Short reads and strings; long enough for a first, a middle and a last
\* byte, and to wrap around the end of a device of 3 cells.
MCWriteLens == 1 .. 2
MCReadLens  == 1 .. 3
=============================================================================
