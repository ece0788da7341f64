------------------------------ MODULE MCDm9000 ------------------------------
(***************************************************************************)
(* Two packets in the RX memory (more may come while the handler empties   *)
(* it), the receive limit after two, a chip that is not 0x1A.              *)
(***************************************************************************)
EXTENDS Dm9000
=============================================================================
