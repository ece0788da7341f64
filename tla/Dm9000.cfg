SPECIFICATION Spec
CONSTANTS
  Rev1A = FALSE
  CONT_RX_PKT_CNT = 2
  RxRoom = 2
INVARIANTS CountInv AtMostTwo WritesToSram
PROPERTIES QueueRestarts RxServed
