------------------------------- MODULE Dm9000 -------------------------------
(***************************************************************************)
(* The DM9000C network driver of 17th_dm9000c (dm9dev9000c.c): sending,    *)
(* the interrupt handler with receiving, link changes and completions, the *)
(* watchdog, the periodic timer, and bringing the interface up and down.   *)
(*                                                                         *)
(* hard_start_xmit, the watchdog and the timer exclude each other (transmit *)
(* lock, bottom halves), the interrupt comes between any two steps of      *)
(* theirs, and the chip acts at any time, also while the handler runs.     *)
(* The interrupt line is edge triggered: an edge is kept in pend until the *)
(* handler is entered.  Packets to send have no contents; packets received *)
(* are good, bad, or garbled so that the RX memory itself looks broken.    *)
(***************************************************************************)
EXTENDS Integers, Sequences

CONSTANTS
  Rev1A,            \* the chip is of revision 0x1A
  CONT_RX_PKT_CNT,  \* packets received in one interrupt, 0xFFFF in the code
  RxRoom            \* packets the RX memory of the chip holds, 13 Kbyte

\* The limit is above what the RX memory holds: RxServed rests on it.
ASSUME Dm9000Assumption ==
  /\ Rev1A \in BOOLEAN
  /\ CONT_RX_PKT_CNT \in Nat /\ RxRoom \in 1 .. CONT_RX_PKT_CNT

VARIABLES
  \* the chip
  tx, nsr, rx,     \* packets being sent, completions not read, packets received
  isr, imr, pend,  \* interrupt status, mask, and the edge kept for the CPU
  addr,            \* the index register: "sram" while MWCMD is selected
  \* the driver
  up, stopped,     \* the interface, its queue
  tx_pkt_cnt, Speed, cont_rx_pkt_cnt,
  irq, int_status, reg_save,  \* the handler: where it is, its locals
  pc, tmp,         \* dmfe_start_xmit or dmfe_timeout: where it is, its locals
  \* what happened
  crossed,         \* a reset or an uncounted completion hit a packet being sent
  squeezed         \* a packet was left in the chip for lack of memory

chip == <<tx, nsr, rx, isr, imr, pend>>
handler == <<irq, int_status, reg_save>>
xmit == <<pc, tmp>>
ghosts == <<crossed, squeezed>>
vars == <<chip, addr, up, stopped, tx_pkt_cnt, Speed, cont_rx_pkt_cnt, handler, xmit, ghosts>>

Enabled(mask) ==
  CASE mask = "all" -> {"rx", "tx", "link"}
    [] mask = "norx" -> {"tx", "link"}
    [] mask = "off" -> {}

Level(status, mask) == status \intersect Enabled(mask) # {}

\* New status and mask; a line that goes up leaves an edge.
Line(status, mask) ==
  /\ isr' = status
  /\ imr' = mask
  /\ pend' = (pend \/ (Level(status, mask) /\ ~Level(isr, imr)))

Limit == IF ~Rev1A /\ Speed = 10 THEN 1 ELSE 2
MaxTx == 3  \* stands for any number of packets above the two the TX memory holds

WakeForgotten == UNCHANGED stopped  \* mutant of netif_wake_queue

netif_stop_queue == stopped' = TRUE
netif_wake_queue == stopped' = FALSE

-----------------------------------------------------------------------------
(* The chip.                                                               *)

TxComplete ==
  /\ tx > 0
  /\ tx' = tx - 1
  /\ nsr' = IF nsr = 2 THEN 2 ELSE nsr + 1
  /\ Line(isr \union {"tx"}, imr)
  /\ UNCHANGED <<rx, addr, up, stopped, tx_pkt_cnt, Speed, cont_rx_pkt_cnt, handler, xmit, ghosts>>

RxArrive ==
  /\ up /\ Len(rx) < RxRoom
  /\ \E k \in {"good", "bad", "garbled"} : rx' = Append(rx, k)
  /\ Line(isr \union {"rx"}, imr)
  /\ squeezed' = FALSE
  /\ UNCHANGED <<tx, nsr, addr, up, stopped, tx_pkt_cnt, Speed, cont_rx_pkt_cnt, handler, xmit,
                 crossed>>

LinkChange ==
  /\ up
  /\ Line(isr \union {"link"}, imr)
  /\ UNCHANGED <<tx, nsr, rx, addr, up, stopped, tx_pkt_cnt, Speed, cont_rx_pkt_cnt, handler, xmit, ghosts>>

-----------------------------------------------------------------------------
(* dmfe_init_dm9000 and dmfe_reset, which saves and restores addr.         *)

Sending == pc \in {"store", "stop", "mask", "select", "data"}

dmfe_init_dm9000 ==
  /\ tx' = 0 /\ nsr' = 0 /\ rx' = <<>>
  /\ isr' = {} /\ imr' = "all" /\ UNCHANGED pend
  /\ tx_pkt_cnt' = 0

dmfe_reset ==
  /\ dmfe_init_dm9000
  /\ Speed' \in {10, 100}
  /\ netif_wake_queue
  /\ crossed' = (crossed \/ Sending) /\ squeezed' = FALSE

-----------------------------------------------------------------------------
(* dmfe_interrupt.                                                         *)

IrqEnter ==
  /\ irq = "none" /\ up /\ pend
  /\ reg_save' = addr /\ addr' = "other"
  /\ int_status' = isr
  /\ isr' = {} /\ imr' = "off" /\ pend' = FALSE
  /\ irq' = "link"
  /\ UNCHANGED <<tx, nsr, rx, up, stopped, tx_pkt_cnt, Speed, cont_rx_pkt_cnt, xmit, ghosts>>

\* The queue is stopped while the handler waits for the link, half a second at
\* most, and woken whatever the count is.
IrqLink ==
  /\ irq = "link"
  /\ \/ "link" \in int_status /\ Speed' \in {10, 100} /\ netif_wake_queue
     \/ "link" \notin int_status /\ UNCHANGED <<Speed, stopped>>
  /\ \/ "rx" \in int_status /\ irq' = "rx" /\ cont_rx_pkt_cnt' = 0
     \/ "rx" \notin int_status /\ irq' = "tx" /\ UNCHANGED cont_rx_pkt_cnt
  /\ UNCHANGED <<chip, addr, up, tx_pkt_cnt, int_status, reg_save, xmit, ghosts>>

\* One round of the loop of dmfe_packet_receive.
RxEmpty ==
  /\ irq = "rx" /\ rx = <<>>
  /\ irq' = "tx"
  /\ UNCHANGED <<chip, addr, up, stopped, tx_pkt_cnt, Speed, cont_rx_pkt_cnt,
                 int_status, reg_save, xmit, ghosts>>

RxGarbled ==
  /\ irq = "rx" /\ rx # <<>> /\ Head(rx) = "garbled"
  /\ dmfe_reset
  /\ irq' = "tx"
  /\ UNCHANGED <<addr, up, cont_rx_pkt_cnt, int_status, reg_save, xmit>>

RxBad ==
  /\ irq = "rx" /\ rx # <<>> /\ Head(rx) = "bad"
  /\ rx' = Tail(rx)
  /\ UNCHANGED <<tx, nsr, isr, imr, pend, addr, up, stopped, tx_pkt_cnt, Speed,
                 cont_rx_pkt_cnt, handler, xmit, ghosts>>

\* No memory: the read pointer is put back and the packet stays in the chip.
RxSqueezed ==
  /\ irq = "rx" /\ rx # <<>> /\ Head(rx) = "good"
  /\ irq' = "tx"
  /\ squeezed' = ("rx" \notin isr)
  /\ UNCHANGED <<chip, addr, up, stopped, tx_pkt_cnt, Speed, cont_rx_pkt_cnt,
                 int_status, reg_save, xmit, crossed>>

RxGood ==
  /\ irq = "rx" /\ rx # <<>> /\ Head(rx) = "good"
  /\ rx' = Tail(rx)
  /\ cont_rx_pkt_cnt' = cont_rx_pkt_cnt + 1
  /\ irq' = IF cont_rx_pkt_cnt' >= CONT_RX_PKT_CNT THEN "rxtx" ELSE "rx"
  /\ UNCHANGED <<tx, nsr, isr, imr, pend, addr, up, stopped, tx_pkt_cnt, Speed,
                 int_status, reg_save, xmit, ghosts>>

AfterTxDone == IF irq \in {"rxtx", "rxtxspin"} THEN "tx" ELSE "exit"

SkipTxDone ==
  /\ irq = "tx" /\ "tx" \notin int_status
  /\ irq' = "exit"
  /\ UNCHANGED <<chip, addr, up, stopped, tx_pkt_cnt, Speed, cont_rx_pkt_cnt,
                 int_status, reg_save, xmit, ghosts>>

CountedNever(n) == tx_pkt_cnt  \* mutant of Counted

Counted(n) == tx_pkt_cnt - n

\* Reading NSR clears it.  With nothing in it, or more than was counted, the
\* handler spins until the chip has sent everything.
dmfe_tx_done ==
  /\ irq = "rxtx" \/ (irq = "tx" /\ "tx" \in int_status)
  /\ nsr' = 0
  /\ tx_pkt_cnt' = Counted(nsr)
  /\ \/ nsr > 0 /\ tx_pkt_cnt' >= 0 /\ netif_wake_queue /\ irq' = AfterTxDone
     \/ /\ nsr = 0 \/ tx_pkt_cnt' < 0
        /\ irq' = IF irq = "rxtx" THEN "rxtxspin" ELSE "txspin"
        /\ UNCHANGED stopped
  /\ UNCHANGED <<tx, rx, isr, imr, pend, addr, up, Speed, cont_rx_pkt_cnt,
                 int_status, reg_save, xmit, ghosts>>

TxSpin ==
  /\ irq \in {"rxtxspin", "txspin"}
  /\ tx = 0
  /\ tx_pkt_cnt' = 0
  /\ netif_wake_queue
  /\ crossed' = (crossed \/ Sending)
  /\ irq' = AfterTxDone
  /\ UNCHANGED <<chip, addr, up, Speed, cont_rx_pkt_cnt, int_status, reg_save, xmit, squeezed>>

RestoreForgotten == UNCHANGED addr  \* mutant of RestoreAddress

RestoreAddress == addr' = reg_save

IrqExit ==
  /\ irq = "exit"
  /\ Line(isr, IF cont_rx_pkt_cnt >= CONT_RX_PKT_CNT THEN "norx" ELSE "all")
  /\ RestoreAddress
  /\ irq' = "none" /\ int_status' = {} /\ reg_save' = "other"
  /\ UNCHANGED <<tx, nsr, rx, up, stopped, tx_pkt_cnt, Speed, cont_rx_pkt_cnt, xmit, ghosts>>

-----------------------------------------------------------------------------
(* dmfe_start_xmit.  A pending edge is taken before the next step; only    *)
(* the write that masks the chip can cross it on the bus.                  *)

Runs == up /\ irq = "none" /\ ~pend

LimitCheckLoose == tx_pkt_cnt <= Limit  \* mutant of RoomToSend

RoomToSend == tx_pkt_cnt < Limit

dmfe_start_xmit ==
  /\ Runs /\ pc = "idle" /\ ~stopped
  /\ \/ RoomToSend /\ tmp' = tx_pkt_cnt /\ pc' = "store"
     \/ ~RoomToSend /\ UNCHANGED xmit  \* return 1: the packet is offered again
  /\ UNCHANGED <<chip, addr, up, stopped, tx_pkt_cnt, Speed, cont_rx_pkt_cnt, handler, ghosts>>

\* The second half of tx_pkt_cnt++.
XmitStore ==
  /\ Runs /\ pc = "store"
  /\ tx_pkt_cnt' = tmp + 1
  /\ pc' = "stop"
  /\ UNCHANGED <<chip, addr, up, stopped, Speed, cont_rx_pkt_cnt, handler, tmp, ghosts>>

\* The compiler may test the count it has stored or read it again.
XmitStop ==
  /\ Runs /\ pc = "stop"
  /\ \E n \in {tx_pkt_cnt, tmp + 1} :
       \/ n >= Limit /\ netif_stop_queue
       \/ n < Limit /\ UNCHANGED stopped
  /\ pc' = "mask" /\ tmp' = 0
  /\ UNCHANGED <<chip, addr, up, tx_pkt_cnt, Speed, cont_rx_pkt_cnt, handler, ghosts>>

XmitMask ==
  /\ up /\ irq = "none" /\ pc = "mask"
  /\ Line(isr, "off")
  /\ pc' = "select"
  /\ UNCHANGED <<tx, nsr, rx, addr, up, stopped, tx_pkt_cnt, Speed, cont_rx_pkt_cnt,
                 handler, tmp, ghosts>>

XmitSelect ==
  /\ Runs /\ pc = "select"
  /\ addr' = "sram"
  /\ pc' = "data"
  /\ UNCHANGED <<chip, up, stopped, tx_pkt_cnt, Speed, cont_rx_pkt_cnt, handler, tmp, ghosts>>

\* The packet is written to the TX memory and the chip told to send it.
XmitData ==
  /\ Runs /\ pc = "data"
  /\ tx' = IF tx = MaxTx THEN MaxTx ELSE tx + 1
  /\ addr' = "other"
  /\ cont_rx_pkt_cnt' = 0
  /\ pc' = "unmask"
  /\ UNCHANGED <<nsr, rx, isr, imr, pend, up, stopped, tx_pkt_cnt, Speed, handler, tmp, ghosts>>

XmitUnmask ==
  /\ Runs /\ pc = "unmask"
  /\ Line(isr, "all")
  /\ pc' = "idle"
  /\ UNCHANGED <<tx, nsr, rx, addr, up, stopped, tx_pkt_cnt, Speed, cont_rx_pkt_cnt,
                 handler, tmp, ghosts>>

-----------------------------------------------------------------------------
(* The watchdog, the timer, up and down.                                   *)

\* Nothing is being sent: start counting anew.
WakeIdle ==
  /\ tx_pkt_cnt' = 0
  /\ netif_wake_queue
  /\ pc' = "idle"

\* The networking layer calls it while the queue is stopped.  It looks at TCR for
\* up to 3 ms, with interrupts on; the first look may find it clear.
dmfe_timeout ==
  /\ Runs /\ pc = "idle" /\ stopped
  /\ \/ tx = 0 /\ WakeIdle
     \/ tx > 0 /\ pc' = "timeout" /\ UNCHANGED <<tx_pkt_cnt, stopped>>
  /\ UNCHANGED <<chip, addr, up, Speed, cont_rx_pkt_cnt, handler, tmp, ghosts>>

TimeoutWakes ==
  /\ Runs /\ pc = "timeout" /\ tx = 0
  /\ WakeIdle
  /\ UNCHANGED <<chip, addr, up, Speed, cont_rx_pkt_cnt, handler, tmp, ghosts>>

\* Also when TCR clears just before the last look: i is 100 then.
TimeoutResets ==
  /\ Runs /\ pc = "timeout"
  /\ dmfe_reset
  /\ pc' = "idle"
  /\ UNCHANGED <<addr, up, cont_rx_pkt_cnt, handler, tmp>>

TimerMaskKept == UNCHANGED <<isr, imr, pend>>  \* mutant of TimerUnmask

TimerUnmask == Line(isr, "all")

dmfe_timer ==
  /\ Runs /\ pc = "idle"
  /\ cont_rx_pkt_cnt >= CONT_RX_PKT_CNT
  /\ cont_rx_pkt_cnt' = 0
  /\ TimerUnmask
  /\ UNCHANGED <<tx, nsr, rx, addr, up, stopped, tx_pkt_cnt, Speed, handler, xmit, ghosts>>

dmfe_open ==
  /\ ~up
  /\ up' = TRUE
  /\ dmfe_init_dm9000
  /\ cont_rx_pkt_cnt' = 0
  /\ Speed' \in {10, 100}
  /\ stopped' = FALSE
  /\ crossed' = FALSE /\ squeezed' = FALSE
  /\ UNCHANGED <<addr, handler, xmit>>

dmfe_stop ==
  /\ Runs /\ pc = "idle"
  /\ up' = FALSE
  /\ netif_stop_queue
  /\ Line(isr, "off")
  /\ UNCHANGED <<tx, nsr, rx, addr, tx_pkt_cnt, Speed, cont_rx_pkt_cnt, handler, xmit, ghosts>>

-----------------------------------------------------------------------------
Init ==
  /\ tx = 0 /\ nsr = 0 /\ rx = <<>> /\ isr = {} /\ imr = "off" /\ pend = FALSE
  /\ addr = "other" /\ up = FALSE /\ stopped = TRUE
  /\ tx_pkt_cnt = 0 /\ Speed = 10 /\ cont_rx_pkt_cnt = 0
  /\ irq = "none" /\ int_status = {} /\ reg_save = "other"
  /\ pc = "idle" /\ tmp = 0
  /\ crossed = FALSE /\ squeezed = FALSE

dmfe_packet_receive == RxEmpty \/ RxGarbled \/ RxBad \/ RxSqueezed \/ RxGood

dmfe_interrupt ==
  IrqEnter \/ IrqLink \/ dmfe_packet_receive \/ SkipTxDone \/ dmfe_tx_done \/ TxSpin \/ IrqExit

\* The rest of a dmfe_start_xmit or dmfe_timeout that has begun.
Finish ==
  XmitStore \/ XmitStop \/ XmitMask \/ XmitSelect \/ XmitData \/ XmitUnmask
  \/ TimeoutWakes \/ TimeoutResets

Next ==
  \/ TxComplete \/ RxArrive \/ LinkChange
  \/ dmfe_interrupt \/ dmfe_start_xmit \/ Finish
  \/ dmfe_timeout \/ dmfe_timer \/ dmfe_open \/ dmfe_stop

\* The chip sends what it was given, the processor runs the handler and finishes
\* calls, the timer expires.  Nothing is assumed of the watchdog.
Spec ==
  /\ Init /\ [][Next]_vars
  /\ WF_vars(TxComplete) /\ WF_vars(dmfe_interrupt) /\ SF_vars(Finish) /\ WF_vars(dmfe_timer)

-----------------------------------------------------------------------------
\* The count stays within the two packets the driver counts and the two the
\* status register can report, the handler leaves its loop by the limit.
TypeOK ==
  /\ tx \in 0 .. MaxTx /\ nsr \in 0 .. 2 /\ rx \in Seq({"good", "bad", "garbled"})
  /\ isr \subseteq {"rx", "tx", "link"} /\ imr \in {"all", "norx", "off"}
  /\ addr \in {"sram", "other"} /\ reg_save \in {"sram", "other"}
  /\ Speed \in {10, 100} /\ cont_rx_pkt_cnt \in 0 .. CONT_RX_PKT_CNT
  /\ tx_pkt_cnt \in -2 .. 2

\* The TX memory of the chip holds two packets.  The check at the head of
\* dmfe_start_xmit keeps a third one out although tx_pkt_cnt++ there and the
\* decrements of dmfe_tx_done in the handler are not atomic, and although a
\* link change wakes the queue whatever the count is.  The exception is a count
\* that the handler set to 0 under a packet that is being written.
AtMostTwo == ~crossed => tx <= 2

\* A completion that interrupts tx_pkt_cnt++ is lost and the count stays too
\* high for ever, so dmfe_start_xmit would one day refuse everything.  It does
\* not add up: between calls the count is at most one above the packets the
\* chip has not sent or not reported.
CountWithinOne ==
  (up /\ irq = "none" /\ pc = "idle" /\ ~pend) => tx_pkt_cnt <= tx + nsr + 1

\* The unlocked count stays in range and, between calls, within one of the truth.
CountInv == TypeOK /\ CountWithinOne

\* dmfe_start_xmit masks the chip, but an interrupt that crosses the mask runs
\* the handler and unmasks it again: the handler may then come between
\* selecting MWCMD and the data, moves the index register and resets the chip.
\* The data goes to the TX memory all the same.
WritesToSram == (pc = "data" /\ irq = "none") => addr = "sram"

\* The queue that dmfe_start_xmit stops is woken without the watchdog's help,
\* whatever receive errors, resets and link changes come in between, unless
\* interrupts follow one another without end.
QueueRestarts ==
  []<>(irq = "none" /\ ~pend) => ((stopped /\ up) ~> (~stopped \/ ~up))

\* A packet in the chip reaches dmfe_packet_receive, or a reset throws it away,
\* although the line is edge triggered, the status is cleared before the packets
\* are read, and the handler masks the receive interrupt after CONT_RX_PKT_CNT
\* packets.  The exception is a packet left behind for lack of memory: nothing comes back
\* for it before the next one arrives.  A limit below RxRoom would leave
\* packets behind in the same way.
RxServed == (rx # <<>> /\ up /\ ~squeezed) ~> (irq = "rx" \/ rx = <<>> \/ squeezed \/ ~up)
=============================================================================
