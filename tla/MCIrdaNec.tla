----------------------------- MODULE MCIrdaNec ------------------------------
(* One-bit bytes: a frame has four bits and twelve pulses.                 *)
EXTENDS IrdaNec

Bit(b) == [j \in 0 .. 0 |-> b]
Key(a, c, d, s) ==
  [repeat |-> FALSE, address |-> Bit(a), check |-> Bit(c), data |-> Bit(d), skew |-> s]

\* A key by the NEC rules, one of a remote whose check byte is not the inverse of
\* its address, and the repeat code.
MCMessages ==
  {Key(0, 1, 1, 280), Key(1, 1, 0, -280), [Key(0, 0, 0, 280) EXCEPT !.repeat = TRUE]}
MCMisreads ==
  {DURATION_DATA0_HIGH, DURATION_DATA1_HIGH, DURATION_HEAD_LOW}
=============================================================================
