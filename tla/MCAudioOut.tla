----------------------------- MODULE MCAudioOut -----------------------------
(* Rings of two and of three fragments; nine units go more than once round *)
(* each of them and leave a part of a fragment for sync.                   *)
EXTENDS AudioOut

MCGeometry == {<<2, 2>>, <<3, 1>>, <<3, 2>>}
MCDefault == <<2, 2>>
=============================================================================
