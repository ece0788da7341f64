---------------------------- MODULE Dm9000Proofs ----------------------------
(***************************************************************************)
(* The safety properties of the DM9000C driver for both revisions of the   *)
(* chip and every size of its RX memory and of the receive limit.          *)
(***************************************************************************)
EXTENDS Dm9000, TLAPS

USE Dm9000Assumption

(***************************************************************************)
(* The inductive invariant.                                                *)
(***************************************************************************)
\* Where the handler and the call below it can be, and dmfe_start_xmit's copy
\* of the count.
ControlType ==
  /\ irq \in {"none", "link", "rx", "rxtx", "rxtxspin", "tx", "txspin", "exit"}
  /\ pc \in {"idle", "store", "stop", "mask", "select", "data", "unmask",
             "timeout"}
  /\ tmp \in 0 .. 1
  /\ up \in BOOLEAN /\ pend \in BOOLEAN /\ crossed \in BOOLEAN

\* The interface goes down between calls and between interrupts.
DownIdle == ~up => pc = "idle" /\ irq = "none"

\* The receive loop runs below its limit.
LoopBelowLimit == irq = "rx" => cont_rx_pkt_cnt < CONT_RX_PKT_CNT

\* The count is negative only until the handler has set it to 0.
CountNotNegative == irq \notin {"rxtxspin", "txspin"} => tx_pkt_cnt >= 0

\* The handler holds the index register of the call it has interrupted.
SramKept == pc = "data" =>
  IF irq = "none" THEN addr = "sram" ELSE reg_save = "sram"

\* A full count stands for a packet the chip has or is about to get.
FullCount ==
  tx_pkt_cnt = 2 => tx + nsr >= 1 \/ pc \in {"stop", "mask", "select", "data"}

\* While the count is being increased nobody else increases it.
OneIncrement == pc = "store" => tx_pkt_cnt <= tmp

\* A line that is up has left its edge.
EdgeKept == Level(isr, imr) => pend

\* A completion that has not been read is announced by the status register, or
\* by the handler's copy of it as long as NSR will be read.
Announced ==
  nsr > 0 =>
    \/ "tx" \in isr
    \/ "tx" \in int_status /\ irq \in {"link", "rx", "rxtx", "tx"}

\* Outside the handler the chip of an open interface is masked only by the
\* sending call.
MaskedBySender ==
  up /\ irq = "none" /\ imr = "off" => pc \in {"select", "data", "unmask"}

\* The packets in the chip, and the one about to go there, are all counted.
Counting == pc \in {"stop", "mask", "select", "data"}
AllCounted == tx + nsr + (IF Counting THEN 1 ELSE 0) <= tx_pkt_cnt

\* Or the handler has just waited for the chip to send everything and set the
\* count to 0: completions that it did not count are read before anything
\* else is sent.
JustDrained ==
  /\ tx = 0 /\ tx_pkt_cnt <= 0 /\ ~Sending
  /\ nsr > 0 => irq # "none" \/ pend

NoneUncounted == ~crossed => AllCounted \/ JustDrained

IInv ==
  /\ CountInv
  /\ ControlType /\ DownIdle /\ LoopBelowLimit /\ CountNotNegative
  /\ SramKept
  /\ FullCount /\ OneIncrement
  /\ EdgeKept /\ Announced /\ MaskedBySender
  /\ NoneUncounted /\ AtMostTwo

\* A watchdog that finds the chip sending changes nothing but where it is.
LEMMA TimeoutLooks ==
  ASSUME dmfe_timeout, tx > 0
  PROVE  /\ tx_pkt_cnt' = tx_pkt_cnt /\ stopped' = stopped /\ pc' = "timeout"
         /\ Runs /\ pc = "idle"
         /\ UNCHANGED <<chip, addr, up, Speed, cont_rx_pkt_cnt, handler, tmp,
                        ghosts>>
<1>1. ~(tx = 0)
  OBVIOUS
<1> QED
  BY <1>1, ZenonT(30) DEF dmfe_timeout

(***************************************************************************)
(* Every step keeps the invariant, part by part.                           *)
(***************************************************************************)
\* Every step keeps the index register for the call that writes a packet.
LEMMA IndexStep ==
  ControlType /\ SramKept /\ [Next]_vars => SramKept'
<1> SUFFICES ASSUME ControlType, SramKept, [Next]_vars PROVE SramKept'
  OBVIOUS
<1> USE DEF ControlType, SramKept, chip, handler, xmit
<1>1. CASE TxComplete
  BY <1>1 DEF TxComplete
<1>2. CASE RxArrive
  BY <1>2 DEF RxArrive
<1>3. CASE LinkChange
  BY <1>3 DEF LinkChange
<1>4. CASE IrqEnter
  BY <1>4 DEF IrqEnter
<1>5. CASE IrqLink
  BY <1>5 DEF IrqLink
<1>6. CASE RxEmpty
  BY <1>6 DEF RxEmpty
<1>7. CASE RxGarbled
  BY <1>7 DEF RxGarbled
<1>8. CASE RxBad
  BY <1>8 DEF RxBad
<1>9. CASE RxSqueezed
  BY <1>9 DEF RxSqueezed
<1>10. CASE RxGood
  BY <1>10 DEF RxGood
<1>11. CASE SkipTxDone
  BY <1>11 DEF SkipTxDone
<1>12. CASE dmfe_tx_done
  BY <1>12 DEF dmfe_tx_done, AfterTxDone
<1>13. CASE TxSpin
  BY <1>13 DEF TxSpin, AfterTxDone
<1>14. CASE IrqExit
  BY <1>14 DEF IrqExit, RestoreAddress
<1>15. CASE dmfe_start_xmit
  BY <1>15 DEF dmfe_start_xmit
<1>16. CASE XmitStore
  BY <1>16 DEF XmitStore
<1>17. CASE XmitStop
  BY <1>17 DEF XmitStop
<1>18. CASE XmitMask
  BY <1>18 DEF XmitMask
<1>19. CASE XmitSelect
  BY <1>19 DEF XmitSelect, Runs
<1>20. CASE XmitData
  BY <1>20 DEF XmitData
<1>21. CASE XmitUnmask
  BY <1>21 DEF XmitUnmask
<1>22. CASE TimeoutWakes
  BY <1>22 DEF TimeoutWakes, WakeIdle
<1>23. CASE TimeoutResets
  BY <1>23 DEF TimeoutResets
<1>24. CASE dmfe_timeout
  BY <1>24 DEF dmfe_timeout, WakeIdle
<1>25. CASE dmfe_timer
  BY <1>25 DEF dmfe_timer
<1>26. CASE dmfe_open
  BY <1>26 DEF dmfe_open
<1>27. CASE dmfe_stop
  BY <1>27 DEF dmfe_stop
<1>28. CASE UNCHANGED vars
  BY <1>28 DEF vars
<1> QED
  BY <1>1, <1>2, <1>3, <1>4, <1>5, <1>6, <1>7, <1>8, <1>9, <1>10, <1>11,
     <1>12, <1>13, <1>14, <1>15, <1>16, <1>17, <1>18, <1>19, <1>20, <1>21,
     <1>22, <1>23, <1>24, <1>25, <1>26, <1>27, <1>28 DEF Next, dmfe_interrupt,
     dmfe_packet_receive, Finish

\* Every step keeps where the handler and the call can be, and the bounds of
\* the receive loop and of the count.
LEMMA ControlStep ==
  IInv /\ [Next]_vars => DownIdle' /\ LoopBelowLimit' /\ CountNotNegative'
<1> SUFFICES ASSUME TypeOK, ControlType, DownIdle, LoopBelowLimit,
                    CountNotNegative, [Next]_vars
             PROVE  DownIdle' /\ LoopBelowLimit' /\ CountNotNegative'
  BY DEF IInv, CountInv
<1> USE DEF TypeOK, ControlType, DownIdle, LoopBelowLimit, CountNotNegative,
            chip, handler, xmit
<1>1. CASE TxComplete
  BY <1>1 DEF TxComplete
<1>2. CASE RxArrive
  BY <1>2 DEF RxArrive
<1>3. CASE LinkChange
  BY <1>3 DEF LinkChange
<1>4. CASE IrqEnter
  BY <1>4 DEF IrqEnter
<1>5. CASE IrqLink
  BY <1>5 DEF IrqLink
<1>6. CASE RxEmpty
  BY <1>6 DEF RxEmpty
<1>7. CASE RxGarbled
  BY <1>7 DEF RxGarbled, dmfe_reset, dmfe_init_dm9000, netif_wake_queue
<1>8. CASE RxBad
  BY <1>8 DEF RxBad
<1>9. CASE RxSqueezed
  BY <1>9 DEF RxSqueezed
<1>10. CASE RxGood
  BY <1>10 DEF RxGood
<1>11. CASE SkipTxDone
  BY <1>11 DEF SkipTxDone
<1>12. CASE dmfe_tx_done
  BY <1>12 DEF dmfe_tx_done, Counted, AfterTxDone, netif_wake_queue
<1>13. CASE TxSpin
  BY <1>13 DEF TxSpin, AfterTxDone, netif_wake_queue
<1>14. CASE IrqExit
  BY <1>14 DEF IrqExit
<1>15. CASE dmfe_start_xmit
  BY <1>15 DEF dmfe_start_xmit, Runs, RoomToSend, Limit
<1>16. CASE XmitStore
  BY <1>16 DEF XmitStore
<1>17. CASE XmitStop
  BY <1>17 DEF XmitStop
<1>18. CASE XmitMask
  BY <1>18 DEF XmitMask
<1>19. CASE XmitSelect
  BY <1>19 DEF XmitSelect
<1>20. CASE XmitData
  BY <1>20 DEF XmitData
<1>21. CASE XmitUnmask
  BY <1>21 DEF XmitUnmask
<1>22. CASE TimeoutWakes
  BY <1>22 DEF TimeoutWakes, WakeIdle
<1>23. CASE TimeoutResets
  BY <1>23 DEF TimeoutResets, Runs, dmfe_reset, dmfe_init_dm9000,
      netif_wake_queue
<1>24. CASE dmfe_timeout
  <2>1. CASE tx = 0
    BY <1>24, <2>1 DEF dmfe_timeout, WakeIdle, Runs, netif_wake_queue
  <2>2. CASE tx > 0
    BY <1>24, <2>2, TimeoutLooks DEF Runs
  <2> QED
    BY <1>24, <2>1, <2>2 DEF dmfe_timeout
<1>25. CASE dmfe_timer
  BY <1>25 DEF dmfe_timer
<1>26. CASE dmfe_open
  BY <1>26 DEF dmfe_open, dmfe_init_dm9000
<1>27. CASE dmfe_stop
  BY <1>27 DEF dmfe_stop, Runs, Line, netif_stop_queue
<1>28. CASE UNCHANGED vars
  BY <1>28 DEF vars
<1> QED
  BY <1>1, <1>2, <1>3, <1>4, <1>5, <1>6, <1>7, <1>8, <1>9, <1>10, <1>11,
     <1>12, <1>13, <1>14, <1>15, <1>16, <1>17, <1>18, <1>19, <1>20, <1>21,
     <1>22, <1>23, <1>24, <1>25, <1>26, <1>27, <1>28 DEF Next, dmfe_interrupt,
     dmfe_packet_receive, Finish

\* Every step keeps the registers and the count in range.
LEMMA TypeStep == IInv /\ [Next]_vars => TypeOK'
<1> SUFFICES ASSUME TypeOK, ControlType, LoopBelowLimit, CountNotNegative,
                    [Next]_vars
             PROVE  TypeOK'
  BY DEF IInv, CountInv
<1> USE DEF TypeOK, ControlType, LoopBelowLimit, CountNotNegative, chip,
            handler, xmit, MaxTx
<1>1. CASE TxComplete
  BY <1>1 DEF TxComplete, Line
<1>2. CASE RxArrive
  BY <1>2 DEF RxArrive, Line
<1>3. CASE LinkChange
  BY <1>3 DEF LinkChange, Line
<1>4. CASE IrqEnter
  BY <1>4 DEF IrqEnter
<1>5. CASE IrqLink
  BY <1>5 DEF IrqLink
<1>6. CASE RxEmpty
  BY <1>6 DEF RxEmpty
<1>7. CASE RxGarbled
  BY <1>7 DEF RxGarbled, dmfe_reset, dmfe_init_dm9000, netif_wake_queue
<1>8. CASE RxBad
  BY <1>8 DEF RxBad
<1>9. CASE RxSqueezed
  BY <1>9 DEF RxSqueezed
<1>10. CASE RxGood
  BY <1>10 DEF RxGood
<1>11. CASE SkipTxDone
  BY <1>11 DEF SkipTxDone
<1>12. CASE dmfe_tx_done
  BY <1>12 DEF dmfe_tx_done, Counted, AfterTxDone, netif_wake_queue
<1>13. CASE TxSpin
  BY <1>13 DEF TxSpin
<1>14. CASE IrqExit
  BY <1>14 DEF IrqExit, Line, RestoreAddress
<1>15. CASE dmfe_start_xmit
  BY <1>15 DEF dmfe_start_xmit
<1>16. CASE XmitStore
  BY <1>16 DEF XmitStore
<1>17. CASE XmitStop
  BY <1>17 DEF XmitStop
<1>18. CASE XmitMask
  BY <1>18 DEF XmitMask, Line
<1>19. CASE XmitSelect
  BY <1>19 DEF XmitSelect
<1>20. CASE XmitData
  BY <1>20 DEF XmitData
<1>21. CASE XmitUnmask
  BY <1>21 DEF XmitUnmask, Runs, Line
<1>22. CASE TimeoutWakes
  BY <1>22 DEF TimeoutWakes, WakeIdle
<1>23. CASE TimeoutResets
  BY <1>23 DEF TimeoutResets, Runs, dmfe_reset, dmfe_init_dm9000,
      netif_wake_queue
<1>24. CASE dmfe_timeout
  <2>1. CASE tx = 0
    BY <1>24, <2>1 DEF dmfe_timeout, WakeIdle, Runs, netif_wake_queue
  <2>2. CASE tx > 0
    BY <1>24, <2>2, TimeoutLooks DEF Runs
  <2> QED
    BY <1>24, <2>1, <2>2 DEF dmfe_timeout
<1>25. CASE dmfe_timer
  BY <1>25 DEF dmfe_timer, Runs, TimerUnmask, Line
<1>26. CASE dmfe_open
  BY <1>26 DEF dmfe_open, dmfe_init_dm9000
<1>27. CASE dmfe_stop
  BY <1>27 DEF dmfe_stop, Runs, Line, netif_stop_queue
<1>28. CASE UNCHANGED vars
  BY <1>28 DEF vars
<1> QED
  BY <1>1, <1>2, <1>3, <1>4, <1>5, <1>6, <1>7, <1>8, <1>9, <1>10, <1>11,
     <1>12, <1>13, <1>14, <1>15, <1>16, <1>17, <1>18, <1>19, <1>20, <1>21,
     <1>22, <1>23, <1>24, <1>25, <1>26, <1>27, <1>28 DEF Next, dmfe_interrupt,
     dmfe_packet_receive, Finish

\* Every step keeps the control of the handler and of the call below it.
LEMMA ControlTypeStep == IInv /\ [Next]_vars => ControlType'
<1> SUFFICES ASSUME TypeOK, ControlType, CountNotNegative, [Next]_vars
             PROVE  ControlType'
  BY DEF IInv, CountInv
<1> USE DEF TypeOK, ControlType, CountNotNegative, chip, handler, xmit, ghosts
<1>1. CASE TxComplete
  BY <1>1 DEF TxComplete, Line
<1>2. CASE RxArrive
  BY <1>2 DEF RxArrive, Line
<1>3. CASE LinkChange
  BY <1>3 DEF LinkChange, Line
<1>4. CASE IrqEnter
  BY <1>4 DEF IrqEnter
<1>5. CASE IrqLink
  BY <1>5 DEF IrqLink
<1>6. CASE RxEmpty
  BY <1>6 DEF RxEmpty
<1>7. CASE RxGarbled
  BY <1>7 DEF RxGarbled, dmfe_reset, dmfe_init_dm9000, netif_wake_queue
<1>8. CASE RxBad
  BY <1>8 DEF RxBad
<1>9. CASE RxSqueezed
  BY <1>9 DEF RxSqueezed
<1>10. CASE RxGood
  BY <1>10 DEF RxGood
<1>11. CASE SkipTxDone
  BY <1>11 DEF SkipTxDone
<1>12. CASE dmfe_tx_done
  BY <1>12 DEF dmfe_tx_done, Counted, AfterTxDone, netif_wake_queue
<1>13. CASE TxSpin
  BY <1>13 DEF TxSpin, AfterTxDone, netif_wake_queue
<1>14. CASE IrqExit
  BY <1>14 DEF IrqExit, Line, RestoreAddress
<1>15. CASE dmfe_start_xmit
  BY <1>15 DEF dmfe_start_xmit, Runs, RoomToSend, Limit
<1>16. CASE XmitStore
  BY <1>16 DEF XmitStore
<1>17. CASE XmitStop
  BY <1>17 DEF XmitStop
<1>18. CASE XmitMask
  BY <1>18 DEF XmitMask, Line
<1>19. CASE XmitSelect
  BY <1>19 DEF XmitSelect
<1>20. CASE XmitData
  BY <1>20 DEF XmitData
<1>21. CASE XmitUnmask
  BY <1>21 DEF XmitUnmask, Runs, Line
<1>22. CASE TimeoutWakes
  BY <1>22 DEF TimeoutWakes, WakeIdle
<1>23. CASE TimeoutResets
  BY <1>23 DEF TimeoutResets, Runs, dmfe_reset, dmfe_init_dm9000,
      netif_wake_queue
<1>24. CASE dmfe_timeout
  BY <1>24 DEF dmfe_timeout, WakeIdle
<1>25. CASE dmfe_timer
  BY <1>25 DEF dmfe_timer, Runs, TimerUnmask, Line
<1>26. CASE dmfe_open
  BY <1>26 DEF dmfe_open, dmfe_init_dm9000
<1>27. CASE dmfe_stop
  BY <1>27 DEF dmfe_stop, Runs, Line, netif_stop_queue
<1>28. CASE UNCHANGED vars
  BY <1>28 DEF vars
<1> QED
  BY <1>1, <1>2, <1>3, <1>4, <1>5, <1>6, <1>7, <1>8, <1>9, <1>10, <1>11,
     <1>12, <1>13, <1>14, <1>15, <1>16, <1>17, <1>18, <1>19, <1>20, <1>21,
     <1>22, <1>23, <1>24, <1>25, <1>26, <1>27, <1>28 DEF Next, dmfe_interrupt,
     dmfe_packet_receive, Finish

\* Every step keeps what a full count stands for.
LEMMA FullStep == IInv /\ [Next]_vars => FullCount' /\ OneIncrement'
<1> SUFFICES ASSUME TypeOK, ControlType, FullCount, OneIncrement,
                    CountNotNegative, [Next]_vars
             PROVE  FullCount' /\ OneIncrement'
  BY DEF IInv, CountInv
<1> USE DEF TypeOK, ControlType, FullCount, OneIncrement, CountNotNegative,
            chip, handler, xmit, MaxTx
<1>1. CASE TxComplete
  BY <1>1 DEF TxComplete
<1>2. CASE RxArrive
  BY <1>2 DEF RxArrive
<1>3. CASE LinkChange
  BY <1>3 DEF LinkChange
<1>4. CASE IrqEnter
  BY <1>4 DEF IrqEnter
<1>5. CASE IrqLink
  BY <1>5 DEF IrqLink
<1>6. CASE RxEmpty
  BY <1>6 DEF RxEmpty
<1>7. CASE RxGarbled
  BY <1>7 DEF RxGarbled, dmfe_reset, dmfe_init_dm9000, netif_wake_queue
<1>8. CASE RxBad
  BY <1>8 DEF RxBad
<1>9. CASE RxSqueezed
  BY <1>9 DEF RxSqueezed
<1>10. CASE RxGood
  BY <1>10 DEF RxGood
<1>11. CASE SkipTxDone
  BY <1>11 DEF SkipTxDone
<1>12. CASE dmfe_tx_done
  BY <1>12 DEF dmfe_tx_done, Counted, AfterTxDone, netif_wake_queue
<1>13. CASE TxSpin
  BY <1>13 DEF TxSpin
<1>14. CASE IrqExit
  BY <1>14 DEF IrqExit
<1>15. CASE dmfe_start_xmit
  BY <1>15 DEF dmfe_start_xmit
<1>16. CASE XmitStore
  BY <1>16 DEF XmitStore
<1>17. CASE XmitStop
  BY <1>17 DEF XmitStop
<1>18. CASE XmitMask
  BY <1>18 DEF XmitMask
<1>19. CASE XmitSelect
  BY <1>19 DEF XmitSelect
<1>20. CASE XmitData
  BY <1>20 DEF XmitData
<1>21. CASE XmitUnmask
  BY <1>21 DEF XmitUnmask
<1>22. CASE TimeoutWakes
  BY <1>22 DEF TimeoutWakes, WakeIdle
<1>23. CASE TimeoutResets
  BY <1>23 DEF TimeoutResets, Runs, dmfe_reset, dmfe_init_dm9000,
      netif_wake_queue
<1>24. CASE dmfe_timeout
  <2>1. CASE tx = 0
    BY <1>24, <2>1 DEF dmfe_timeout, WakeIdle, Runs, netif_wake_queue
  <2>2. CASE tx > 0
    BY <1>24, <2>2, TimeoutLooks DEF Runs
  <2> QED
    BY <1>24, <2>1, <2>2 DEF dmfe_timeout
<1>25. CASE dmfe_timer
  BY <1>25 DEF dmfe_timer
<1>26. CASE dmfe_open
  BY <1>26 DEF dmfe_open, dmfe_init_dm9000
<1>27. CASE dmfe_stop
  BY <1>27 DEF dmfe_stop
<1>28. CASE UNCHANGED vars
  BY <1>28 DEF vars
<1> QED
  BY <1>1, <1>2, <1>3, <1>4, <1>5, <1>6, <1>7, <1>8, <1>9, <1>10, <1>11,
     <1>12, <1>13, <1>14, <1>15, <1>16, <1>17, <1>18, <1>19, <1>20, <1>21,
     <1>22, <1>23, <1>24, <1>25, <1>26, <1>27, <1>28 DEF Next, dmfe_interrupt,
     dmfe_packet_receive, Finish

\* Every step keeps the edge of a line that is up.
LEMMA LineStep ==
  IInv /\ [Next]_vars => EdgeKept' /\ Announced' /\ MaskedBySender'
<1> SUFFICES ASSUME TypeOK, ControlType, EdgeKept, Announced, MaskedBySender,
                    [Next]_vars
             PROVE  EdgeKept' /\ Announced' /\ MaskedBySender'
  BY DEF IInv, CountInv
<1> USE DEF TypeOK, ControlType, EdgeKept, Announced, MaskedBySender,
            chip, handler, xmit, Level, Enabled
<1>1. CASE TxComplete
  BY <1>1 DEF TxComplete, Line
<1>2. CASE RxArrive
  BY <1>2 DEF RxArrive, Line
<1>3. CASE LinkChange
  BY <1>3 DEF LinkChange, Line
<1>4. CASE IrqEnter
  BY <1>4 DEF IrqEnter
<1>5. CASE IrqLink
  BY <1>5 DEF IrqLink
<1>6. CASE RxEmpty
  BY <1>6 DEF RxEmpty
<1>7. CASE RxGarbled
  BY <1>7 DEF RxGarbled, dmfe_reset, dmfe_init_dm9000, netif_wake_queue
<1>8. CASE RxBad
  BY <1>8 DEF RxBad
<1>9. CASE RxSqueezed
  BY <1>9 DEF RxSqueezed
<1>10. CASE RxGood
  BY <1>10 DEF RxGood
<1>11. CASE SkipTxDone
  BY <1>11 DEF SkipTxDone
<1>12. CASE dmfe_tx_done
  BY <1>12 DEF dmfe_tx_done, Counted, AfterTxDone, netif_wake_queue
<1>13. CASE TxSpin
  BY <1>13 DEF TxSpin, AfterTxDone, netif_wake_queue
<1>14. CASE IrqExit
  BY <1>14 DEF IrqExit, Line, RestoreAddress
<1>15. CASE dmfe_start_xmit
  BY <1>15 DEF dmfe_start_xmit
<1>16. CASE XmitStore
  BY <1>16 DEF XmitStore
<1>17. CASE XmitStop
  BY <1>17 DEF XmitStop
<1>18. CASE XmitMask
  BY <1>18 DEF XmitMask, Line
<1>19. CASE XmitSelect
  BY <1>19 DEF XmitSelect
<1>20. CASE XmitData
  BY <1>20 DEF XmitData
<1>21. CASE XmitUnmask
  BY <1>21 DEF XmitUnmask, Runs, Line
<1>22. CASE TimeoutWakes
  BY <1>22 DEF TimeoutWakes, WakeIdle
<1>23. CASE TimeoutResets
  BY <1>23 DEF TimeoutResets, Runs, dmfe_reset, dmfe_init_dm9000,
      netif_wake_queue
<1>24. CASE dmfe_timeout
  BY <1>24 DEF dmfe_timeout, WakeIdle
<1>25. CASE dmfe_timer
  BY <1>25 DEF dmfe_timer, Runs, TimerUnmask, Line
<1>26. CASE dmfe_open
  BY <1>26 DEF dmfe_open, dmfe_init_dm9000
<1>27. CASE dmfe_stop
  BY <1>27 DEF dmfe_stop, Runs, Line, netif_stop_queue
<1>28. CASE UNCHANGED vars
  BY <1>28 DEF vars
<1> QED
  BY <1>1, <1>2, <1>3, <1>4, <1>5, <1>6, <1>7, <1>8, <1>9, <1>10, <1>11,
     <1>12, <1>13, <1>14, <1>15, <1>16, <1>17, <1>18, <1>19, <1>20, <1>21,
     <1>22, <1>23, <1>24, <1>25, <1>26, <1>27, <1>28 DEF Next, dmfe_interrupt,
     dmfe_packet_receive, Finish

\* Every step keeps every packet counted, as long as nothing crossed.
LEMMA PacketStep == IInv /\ [Next]_vars => NoneUncounted'
<1> SUFFICES ASSUME IInv, [Next]_vars
             PROVE  NoneUncounted'
  OBVIOUS
<1> USE DEF IInv, CountInv, TypeOK, ControlType, CountNotNegative, OneIncrement,
            EdgeKept, Announced, MaskedBySender, NoneUncounted, AllCounted,
            JustDrained, Counting, Sending, Level, Enabled, MaxTx, chip,
            handler, xmit, ghosts
<1>1. CASE TxComplete
  BY <1>1 DEF TxComplete
<1>2. CASE RxArrive
  BY <1>2 DEF RxArrive, Line
<1>3. CASE LinkChange
  BY <1>3 DEF LinkChange, Line
<1>4. CASE IrqEnter
  BY <1>4 DEF IrqEnter
<1>5. CASE IrqLink
  BY <1>5 DEF IrqLink
<1>6. CASE RxEmpty
  BY <1>6 DEF RxEmpty
<1>7. CASE RxGarbled
  <2>1. tx' = 0 /\ nsr' = 0 /\ tx_pkt_cnt' = 0 /\ UNCHANGED pc
    BY <1>7 DEF RxGarbled, dmfe_reset, dmfe_init_dm9000
  <2>2. CASE Sending
    <3>1. crossed'
      BY <1>7, <2>2 DEF RxGarbled, dmfe_reset
    <3> QED
      BY <3>1
  <2>3. CASE ~Sending
    BY <2>1, <2>3
  <2> QED
    BY <2>2, <2>3
<1>8. CASE RxBad
  BY <1>8 DEF RxBad
<1>9. CASE RxSqueezed
  BY <1>9 DEF RxSqueezed
<1>10. CASE RxGood
  BY <1>10 DEF RxGood
<1>11. CASE SkipTxDone
  BY <1>11 DEF SkipTxDone
<1>12. CASE dmfe_tx_done
  BY <1>12 DEF dmfe_tx_done, Counted, AfterTxDone, netif_wake_queue
<1>13. CASE TxSpin
  <2>1. /\ tx = 0 /\ tx_pkt_cnt' = 0 /\ irq' \in {"tx", "exit"}
        /\ UNCHANGED <<tx, pc>>
    BY <1>13 DEF TxSpin, AfterTxDone
  <2>2. CASE Sending
    <3>1. crossed'
      BY <1>13, <2>2 DEF TxSpin
    <3> QED
      BY <3>1
  <2>3. CASE ~Sending
    BY <2>1, <2>3
  <2> QED
    BY <2>2, <2>3
<1>14. CASE IrqExit
  BY <1>14 DEF IrqExit, Line, RestoreAddress
<1>15. CASE dmfe_start_xmit
  BY <1>15 DEF dmfe_start_xmit, Runs, RoomToSend, Limit
<1>16. CASE XmitStore
  BY <1>16 DEF XmitStore
<1>17. CASE XmitStop
  BY <1>17 DEF XmitStop
<1>18. CASE XmitMask
  BY <1>18 DEF XmitMask
<1>19. CASE XmitSelect
  BY <1>19 DEF XmitSelect
<1>20. CASE XmitData
  BY <1>20 DEF XmitData
<1>21. CASE XmitUnmask
  BY <1>21 DEF XmitUnmask, Runs, Line
<1>22. CASE TimeoutWakes
  BY <1>22 DEF TimeoutWakes, WakeIdle, Runs, netif_wake_queue
<1>23. CASE TimeoutResets
  BY <1>23 DEF TimeoutResets, Runs, dmfe_reset, dmfe_init_dm9000,
      netif_wake_queue
<1>24. CASE dmfe_timeout
  <2>1. CASE tx = 0
    BY <1>24, <2>1 DEF dmfe_timeout, WakeIdle, Runs, netif_wake_queue
  <2>2. CASE tx > 0
    BY <1>24, <2>2, TimeoutLooks DEF Runs
  <2> QED
    BY <1>24, <2>1, <2>2 DEF dmfe_timeout
<1>25. CASE dmfe_timer
  BY <1>25 DEF dmfe_timer, Runs, TimerUnmask, Line
<1>26. CASE dmfe_open
  BY <1>26 DEF dmfe_open, dmfe_init_dm9000, DownIdle
<1>27. CASE dmfe_stop
  BY <1>27 DEF dmfe_stop, Runs, Line, netif_stop_queue
<1>28. CASE UNCHANGED vars
  BY <1>28 DEF vars
<1> QED
  BY <1>1, <1>2, <1>3, <1>4, <1>5, <1>6, <1>7, <1>8, <1>9, <1>10, <1>11,
     <1>12, <1>13, <1>14, <1>15, <1>16, <1>17, <1>18, <1>19, <1>20, <1>21,
     <1>22, <1>23, <1>24, <1>25, <1>26, <1>27, <1>28 DEF Next, dmfe_interrupt,
     dmfe_packet_receive, Finish

(***************************************************************************)
(* The theorems.                                                           *)
(***************************************************************************)
\* dmfe_probe leaves the driver in a good state.
LEMMA InitInv == Init => IInv
<1> SUFFICES ASSUME Init PROVE IInv
  OBVIOUS
<1> USE DEF Init
<1>1. CountInv
  BY DEF CountInv, TypeOK, CountWithinOne, MaxTx
<1>2. ControlType
  <2>1. up \in BOOLEAN /\ pend \in BOOLEAN /\ crossed \in BOOLEAN
    BY Zenon
  <2>2. tmp \in 0 .. 1
    OBVIOUS
  <2> QED
    BY <2>1, <2>2 DEF ControlType
<1>3. DownIdle /\ LoopBelowLimit /\ CountNotNegative /\ SramKept
  BY DEF DownIdle, LoopBelowLimit, CountNotNegative, SramKept
<1>4. FullCount /\ OneIncrement /\ Announced /\ MaskedBySender
  BY DEF FullCount, OneIncrement, Announced, MaskedBySender
<1>5. EdgeKept
  BY DEF EdgeKept, Level
<1>6. NoneUncounted /\ AtMostTwo
  BY DEF NoneUncounted, AllCounted, Counting, AtMostTwo
<1> QED
  BY <1>1, <1>2, <1>3, <1>4, <1>5, <1>6 DEF IInv

\* What the runs check of the count follows from what it stands for.
LEMMA CountFollows ==
  TypeOK /\ FullCount /\ NoneUncounted => CountInv /\ AtMostTwo
<1> SUFFICES ASSUME TypeOK, FullCount, NoneUncounted
             PROVE  CountInv /\ AtMostTwo
  OBVIOUS
<1>1. CountWithinOne
  BY DEF TypeOK, FullCount, CountWithinOne
<1>2. AtMostTwo
  BY DEF TypeOK, NoneUncounted, AllCounted, JustDrained, AtMostTwo
<1> QED
  BY <1>1, <1>2 DEF CountInv

\* Every step of the chip, the handler, the calls and the timers keeps the
\* invariant.
LEMMA StepInv == IInv /\ [Next]_vars => IInv'
<1> SUFFICES ASSUME IInv, [Next]_vars PROVE IInv'
  OBVIOUS
<1>1. TypeOK' /\ ControlType'
  BY TypeStep, ControlTypeStep
<1>2. DownIdle' /\ LoopBelowLimit' /\ CountNotNegative'
  BY ControlStep
<1>3. SramKept'
  BY IndexStep DEF IInv
<1>4. FullCount' /\ OneIncrement'
  BY FullStep
<1>5. EdgeKept' /\ Announced' /\ MaskedBySender'
  BY LineStep
<1>6. NoneUncounted'
  BY PacketStep
<1>7. CountInv' /\ AtMostTwo'
  BY <1>1, <1>4, <1>6, CountFollows, PTL
<1> QED
  BY <1>1, <1>2, <1>3, <1>4, <1>5, <1>6, <1>7 DEF IInv

\* The invariant holds in every reachable state.
THEOREM InductiveInvariant == Spec => []IInv
<1> QED
  BY InitInv, StepInv, PTL DEF Spec

\* The count that dmfe_start_xmit and the handler change without a lock stays
\* in range and, between calls, within one of the packets in the chip.
THEOREM CountInRange == Spec => []CountInv
<1>1. IInv => CountInv
  BY DEF IInv
<1> QED
  BY <1>1, InductiveInvariant, PTL

\* dmfe_start_xmit never gives the chip a third packet, unless the count was
\* set to 0 under a packet being written.
THEOREM NoThirdPacket == Spec => []AtMostTwo
<1>1. IInv => AtMostTwo
  BY DEF IInv
<1> QED
  BY <1>1, InductiveInvariant, PTL

\* The bytes of a packet go to the TX memory, whatever interrupts the call that
\* writes them.
THEOREM DataToSram == Spec => []WritesToSram
<1>1. IInv => WritesToSram
  BY DEF IInv, SramKept, WritesToSram
<1> QED
  BY <1>1, InductiveInvariant, PTL

(***************************************************************************)
(* Nothing waits for nobody: the safety halves of QueueRestarts and        *)
(* RxServed.  The line is edge triggered, so an edge that is missing once  *)
(* never comes, and only the watchdog would help.                          *)
(***************************************************************************)
\* A queue that is stopped will be woken: by the completion of a packet that is
\* on its way to the chip or in it, or by one that is announced already, or by
\* the handler, which is about to read it or waits for the chip to drain.
WakeComes ==
  up /\ stopped =>
    \/ pc \in {"mask", "select", "data"}
    \/ tx > 0
    \/ "tx" \in isr
    \/ "tx" \in int_status /\ irq \in {"link", "rx", "rxtx", "tx"}
    \/ irq \in {"rxtxspin", "txspin"}

\* As long as no packet has arrived since the handler read the status, those it
\* has received and those still there fitted into the RX memory together.
LoopSeesAll ==
  /\ Len(rx) <= RxRoom
  /\ irq = "rx" /\ "rx" \notin isr => cont_rx_pkt_cnt + Len(rx) <= RxRoom

\* A packet in the chip that was not left there for lack of memory is announced
\* or is being fetched.
ReceiveComes ==
  up /\ rx # <<>> /\ ~squeezed =>
    \/ "rx" \in isr
    \/ irq = "rx"
    \/ irq = "link" /\ "rx" \in int_status

\* The receive interrupt is masked only after the limit, with the count that
\* makes the timer unmask it, or by a call that is about to do so itself.
MaskedByLimit ==
  imr = "norx" =>
    /\ irq = "none"
    /\ cont_rx_pkt_cnt >= CONT_RX_PKT_CNT \/ pc = "unmask"

WaitInv == WakeComes /\ LoopSeesAll /\ ReceiveComes /\ MaskedByLimit

\* Neither the handler nor a call is under way, and no interrupt is pending.
Quiet == up /\ irq = "none" /\ ~pend /\ pc = "idle"

\* The queue is not left stopped with an idle chip: a packet is being sent, and
\* its completion will raise the line, which is down (lines 765-771, 971-973).
SenderNotStuck ==
  Quiet /\ stopped => tx > 0 /\ "tx" \in Enabled(imr) /\ ~Level(isr, imr)

\* No packet is left in the chip without a notice: if one is there, the handler
\* stopped at its limit, the packet is announced behind the mask, and the next
\* dmfe_timer raises the line (lines 975-977, 1136-1139, 1343).
ReceiverNotStuck ==
  Quiet /\ rx # <<>> /\ ~squeezed =>
    /\ cont_rx_pkt_cnt >= CONT_RX_PKT_CNT
    /\ "rx" \in isr /\ ~Level(isr, imr)

\* Whoever stops the queue or takes a completion sees to it that it is woken.
LEMMA WakeStep == IInv /\ WakeComes /\ [Next]_vars => WakeComes'
<1> SUFFICES ASSUME TypeOK, ControlType, DownIdle, WakeComes, [Next]_vars
             PROVE  WakeComes'
  BY DEF IInv, CountInv
<1> USE DEF TypeOK, ControlType, DownIdle, WakeComes, MaxTx, chip, handler, xmit
<1>1. CASE TxComplete
  BY <1>1 DEF TxComplete, Line
<1>2. CASE RxArrive
  BY <1>2 DEF RxArrive, Line
<1>3. CASE LinkChange
  BY <1>3 DEF LinkChange, Line
<1>4. CASE IrqEnter
  BY <1>4 DEF IrqEnter
<1>5. CASE IrqLink
  BY <1>5 DEF IrqLink, netif_wake_queue
<1>6. CASE RxEmpty
  BY <1>6 DEF RxEmpty
<1>7. CASE RxGarbled
  BY <1>7 DEF RxGarbled, dmfe_reset, dmfe_init_dm9000, netif_wake_queue
<1>8. CASE RxBad
  BY <1>8 DEF RxBad
<1>9. CASE RxSqueezed
  BY <1>9 DEF RxSqueezed
<1>10. CASE RxGood
  BY <1>10 DEF RxGood
<1>11. CASE SkipTxDone
  BY <1>11 DEF SkipTxDone
<1>12. CASE dmfe_tx_done
  BY <1>12 DEF dmfe_tx_done, Counted, AfterTxDone, netif_wake_queue
<1>13. CASE TxSpin
  BY <1>13 DEF TxSpin, AfterTxDone, netif_wake_queue
<1>14. CASE IrqExit
  BY <1>14 DEF IrqExit, Line, RestoreAddress
<1>15. CASE dmfe_start_xmit
  BY <1>15 DEF dmfe_start_xmit, Runs
<1>16. CASE XmitStore
  BY <1>16 DEF XmitStore, Runs
<1>17. CASE XmitStop
  BY <1>17 DEF XmitStop, netif_stop_queue
<1>18. CASE XmitMask
  BY <1>18 DEF XmitMask, Line
<1>19. CASE XmitSelect
  BY <1>19 DEF XmitSelect, Runs
<1>20. CASE XmitData
  BY <1>20 DEF XmitData, Runs
<1>21. CASE XmitUnmask
  BY <1>21 DEF XmitUnmask, Runs, Line
<1>22. CASE TimeoutWakes
  BY <1>22 DEF TimeoutWakes, WakeIdle, netif_wake_queue
<1>23. CASE TimeoutResets
  BY <1>23 DEF TimeoutResets, dmfe_reset, dmfe_init_dm9000, netif_wake_queue
<1>24. CASE dmfe_timeout
  BY <1>24 DEF dmfe_timeout, WakeIdle
<1>25. CASE dmfe_timer
  BY <1>25 DEF dmfe_timer, Runs, TimerUnmask, Line
<1>26. CASE dmfe_open
  BY <1>26 DEF dmfe_open, dmfe_init_dm9000
<1>27. CASE dmfe_stop
  BY <1>27 DEF dmfe_stop, Line
<1>28. CASE UNCHANGED vars
  BY <1>28 DEF vars
<1> QED
  BY <1>1, <1>2, <1>3, <1>4, <1>5, <1>6, <1>7, <1>8, <1>9, <1>10, <1>11,
     <1>12, <1>13, <1>14, <1>15, <1>16, <1>17, <1>18, <1>19, <1>20, <1>21,
     <1>22, <1>23, <1>24, <1>25, <1>26, <1>27, <1>28 DEF Next, dmfe_interrupt,
     dmfe_packet_receive, Finish

\* Whoever clears the announcement of a packet fetches it.
LEMMA ReceiveStep ==
  IInv /\ LoopSeesAll /\ ReceiveComes /\ [Next]_vars => LoopSeesAll' /\ ReceiveComes'
<1> SUFFICES ASSUME TypeOK, ControlType, DownIdle, LoopBelowLimit, LoopSeesAll,
                    ReceiveComes, [Next]_vars
             PROVE  LoopSeesAll' /\ ReceiveComes'
  BY DEF IInv, CountInv
<1> USE DEF TypeOK, ControlType, DownIdle, LoopBelowLimit, LoopSeesAll,
            ReceiveComes, chip, handler, xmit, ghosts
<1>1. CASE TxComplete
  BY <1>1 DEF TxComplete, Line
<1>2. CASE RxArrive
  BY <1>2 DEF RxArrive, Line
<1>3. CASE LinkChange
  BY <1>3 DEF LinkChange, Line
<1>4. CASE IrqEnter
  BY <1>4 DEF IrqEnter
<1>5. CASE IrqLink
  BY <1>5 DEF IrqLink
<1>6. CASE RxEmpty
  BY <1>6 DEF RxEmpty
<1>7. CASE RxGarbled
  BY <1>7 DEF RxGarbled, dmfe_reset, dmfe_init_dm9000
<1>8. CASE RxBad
  BY <1>8 DEF RxBad
<1>9. CASE RxSqueezed
  BY <1>9 DEF RxSqueezed
<1>10. CASE RxGood
  BY <1>10 DEF RxGood
<1>11. CASE SkipTxDone
  BY <1>11 DEF SkipTxDone
<1>12. CASE dmfe_tx_done
  BY <1>12 DEF dmfe_tx_done, Counted, AfterTxDone
<1>13. CASE TxSpin
  BY <1>13 DEF TxSpin, AfterTxDone
<1>14. CASE IrqExit
  BY <1>14 DEF IrqExit, Line, RestoreAddress
<1>15. CASE dmfe_start_xmit
  BY <1>15 DEF dmfe_start_xmit, Runs
<1>16. CASE XmitStore
  BY <1>16 DEF XmitStore, Runs
<1>17. CASE XmitStop
  BY <1>17 DEF XmitStop
<1>18. CASE XmitMask
  BY <1>18 DEF XmitMask, Line
<1>19. CASE XmitSelect
  BY <1>19 DEF XmitSelect, Runs
<1>20. CASE XmitData
  BY <1>20 DEF XmitData, Runs
<1>21. CASE XmitUnmask
  BY <1>21 DEF XmitUnmask, Runs, Line
<1>22. CASE TimeoutWakes
  BY <1>22 DEF TimeoutWakes, WakeIdle
<1>23. CASE TimeoutResets
  <2>1. rx' = <<>> /\ UNCHANGED irq /\ irq = "none"
    BY <1>23 DEF TimeoutResets, Runs, dmfe_reset, dmfe_init_dm9000
  <2> QED
    BY <2>1
<1>24. CASE dmfe_timeout
  BY <1>24 DEF dmfe_timeout, WakeIdle
<1>25. CASE dmfe_timer
  BY <1>25 DEF dmfe_timer, Runs, TimerUnmask, Line
<1>26. CASE dmfe_open
  BY <1>26 DEF dmfe_open, dmfe_init_dm9000
<1>27. CASE dmfe_stop
  BY <1>27 DEF dmfe_stop, Line
<1>28. CASE UNCHANGED vars
  BY <1>28 DEF vars
<1> QED
  BY <1>1, <1>2, <1>3, <1>4, <1>5, <1>6, <1>7, <1>8, <1>9, <1>10, <1>11,
     <1>12, <1>13, <1>14, <1>15, <1>16, <1>17, <1>18, <1>19, <1>20, <1>21,
     <1>22, <1>23, <1>24, <1>25, <1>26, <1>27, <1>28 DEF Next, dmfe_interrupt,
     dmfe_packet_receive, Finish

\* Whoever masks the receive interrupt leaves the count at the limit.
LEMMA MaskStep == IInv /\ MaskedByLimit /\ [Next]_vars => MaskedByLimit'
<1> SUFFICES ASSUME TypeOK, ControlType, DownIdle, MaskedByLimit, [Next]_vars
             PROVE  MaskedByLimit'
  BY DEF IInv, CountInv
<1> USE DEF TypeOK, ControlType, DownIdle, MaskedByLimit, chip, handler, xmit
<1>1. CASE TxComplete
  BY <1>1 DEF TxComplete, Line
<1>2. CASE RxArrive
  BY <1>2 DEF RxArrive, Line
<1>3. CASE LinkChange
  BY <1>3 DEF LinkChange, Line
<1>4. CASE IrqEnter
  BY <1>4 DEF IrqEnter
<1>5. CASE IrqLink
  BY <1>5 DEF IrqLink
<1>6. CASE RxEmpty
  BY <1>6 DEF RxEmpty
<1>7. CASE RxGarbled
  BY <1>7 DEF RxGarbled, dmfe_reset, dmfe_init_dm9000
<1>8. CASE RxBad
  BY <1>8 DEF RxBad
<1>9. CASE RxSqueezed
  BY <1>9 DEF RxSqueezed
<1>10. CASE RxGood
  BY <1>10 DEF RxGood
<1>11. CASE SkipTxDone
  BY <1>11 DEF SkipTxDone
<1>12. CASE dmfe_tx_done
  BY <1>12 DEF dmfe_tx_done, Counted, AfterTxDone
<1>13. CASE TxSpin
  BY <1>13 DEF TxSpin, AfterTxDone
<1>14. CASE IrqExit
  BY <1>14 DEF IrqExit, Line, RestoreAddress
<1>15. CASE dmfe_start_xmit
  BY <1>15 DEF dmfe_start_xmit, Runs
<1>16. CASE XmitStore
  BY <1>16 DEF XmitStore, Runs
<1>17. CASE XmitStop
  BY <1>17 DEF XmitStop
<1>18. CASE XmitMask
  BY <1>18 DEF XmitMask, Line
<1>19. CASE XmitSelect
  BY <1>19 DEF XmitSelect, Runs
<1>20. CASE XmitData
  BY <1>20 DEF XmitData, Runs
<1>21. CASE XmitUnmask
  BY <1>21 DEF XmitUnmask, Runs, Line
<1>22. CASE TimeoutWakes
  BY <1>22 DEF TimeoutWakes, WakeIdle
<1>23. CASE TimeoutResets
  BY <1>23 DEF TimeoutResets, dmfe_reset, dmfe_init_dm9000
<1>24. CASE dmfe_timeout
  BY <1>24 DEF dmfe_timeout, WakeIdle
<1>25. CASE dmfe_timer
  BY <1>25 DEF dmfe_timer, Runs, TimerUnmask, Line
<1>26. CASE dmfe_open
  BY <1>26 DEF dmfe_open, dmfe_init_dm9000
<1>27. CASE dmfe_stop
  BY <1>27 DEF dmfe_stop, Line
<1>28. CASE UNCHANGED vars
  BY <1>28 DEF vars
<1> QED
  BY <1>1, <1>2, <1>3, <1>4, <1>5, <1>6, <1>7, <1>8, <1>9, <1>10, <1>11,
     <1>12, <1>13, <1>14, <1>15, <1>16, <1>17, <1>18, <1>19, <1>20, <1>21,
     <1>22, <1>23, <1>24, <1>25, <1>26, <1>27, <1>28 DEF Next, dmfe_interrupt,
     dmfe_packet_receive, Finish

\* Between calls and interrupts what is awaited is under way.
LEMMA QuietFollows == IInv /\ WaitInv => SenderNotStuck /\ ReceiverNotStuck
<1> SUFFICES ASSUME IInv, WaitInv, Quiet
             PROVE  /\ stopped => tx > 0 /\ "tx" \in Enabled(imr) /\ ~Level(isr, imr)
                    /\ rx # <<>> /\ ~squeezed =>
                         /\ cont_rx_pkt_cnt >= CONT_RX_PKT_CNT
                         /\ "rx" \in isr /\ ~Level(isr, imr)
  BY DEF SenderNotStuck, ReceiverNotStuck
<1>1. up /\ irq = "none" /\ ~pend /\ pc = "idle"
  BY DEF Quiet
<1>2. imr \in {"all", "norx"}
  BY <1>1 DEF IInv, CountInv, TypeOK, MaskedBySender
<1>3. ~Level(isr, imr)
  BY <1>1 DEF IInv, EdgeKept
<1>4. "tx" \in Enabled(imr) /\ "tx" \notin isr
  BY <1>2, <1>3 DEF Enabled, Level
<1>5. stopped => tx > 0
  BY <1>1, <1>4 DEF WaitInv, WakeComes
<1>6. ASSUME rx # <<>>, ~squeezed
      PROVE  cont_rx_pkt_cnt >= CONT_RX_PKT_CNT /\ "rx" \in isr
  <2>1. "rx" \in isr
    BY <1>1, <1>6 DEF WaitInv, ReceiveComes
  <2>2. imr = "norx"
    BY <1>2, <1>3, <2>1 DEF Enabled, Level
  <2> QED
    BY <1>1, <2>1, <2>2 DEF WaitInv, MaskedByLimit
<1> QED
  BY <1>3, <1>4, <1>5, <1>6

\* The interface is down and the chip empty at first.
LEMMA InitWait == Init => WaitInv
<1> QED
  BY DEF Init, WaitInv, WakeComes, LoopSeesAll, ReceiveComes, MaskedByLimit

\* What is awaited is under way in every reachable state.
THEOREM WaitInvariant == Spec => [](IInv /\ WaitInv)
<1>1. IInv /\ WaitInv /\ [Next]_vars => IInv' /\ WaitInv'
  BY StepInv, WakeStep, ReceiveStep, MaskStep DEF WaitInv
<1> QED
  BY InitInv, InitWait, <1>1, PTL DEF Spec

\* A stopped queue waits for a packet the chip is sending, whose completion
\* raises the line: it never depends on the watchdog.
THEOREM QueueIsWoken == Spec => []SenderNotStuck
<1> QED
  BY WaitInvariant, QuietFollows, PTL

\* A packet in the chip is announced behind the mask that the timer opens: the
\* limit on the receive loop leaves none behind.
THEOREM PacketsFetched == Spec => []ReceiverNotStuck
<1> QED
  BY WaitInvariant, QuietFollows, PTL
=============================================================================
