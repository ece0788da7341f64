----------------------------- MODULE I2cMaster -----------------------------
(***************************************************************************)
(* The interrupt-driven I2C master of the bare-metal program and its only  *)
(* client, the AT24Cxx EEPROM code:                                        *)
(*                                                                         *)
(*   i2c/at24cxx.c               at24cxx_write, at24cxx_read               *)
(*   i2c/i2c_controller.c        i2c_transfer                              *)
(*   i2c/s3c2440_i2c_controller.c  s3c2440_master_xfer, do_master_tx,      *)
(*                               do_master_rx, i2c_interrupt_func          *)
(*                                                                         *)
(* Two threads of control share one i2c_msg: main, which fills it, starts  *)
(* the transfer and spins on it, and the interrupt handler, which moves    *)
(* the bytes.  The handler runs with IRQs masked, so it is one step; main  *)
(* can be interrupted between any two of its steps.  The controller's      *)
(* shift engine and the EEPROM are the environment (marked external).      *)
(***************************************************************************)
EXTENDS Integers, Sequences

CONSTANTS
  M,          \* values of an unsigned char, and cells of the EEPROM (256)
  WriteLens,  \* lengths at24cxx_write is called with
  ReadLens    \* lengths at24cxx_read is called with

ASSUME MAssumption    == M \in Nat \ {0}
ASSUME LensAssumption == WriteLens \subseteq Nat \ {0} /\ ReadLens \subseteq Nat

Byte  == 0 .. M - 1
Junk  == -1      \* an array element nothing was stored into yet
SLA_W == 160     \* AT24CXX_ADDR << 1
SLA_R == 161     \* (AT24CXX_ADDR << 1) | 1

VARIABLES
  pc,         \* where main is
  call,       \* arguments of the at24cxx_* call main is in (or was in last)
  n,          \* at24cxx_write's loop counter
  msgs,       \* the i2c_msg array of that call
  i,          \* s3c2440_master_xfer's loop counter, from 1
  p_cur_msg,  \* index of the message the handler works on; 0 is NULL
  ret,        \* what the last finished at24cxx_* call returned
  IICCON,     \* [ack: bit 7, pend: bit 4] of the control register
  IICDS,      \* data shift register
  nack,       \* bit 0 of IICSTAT: the last transmitted byte was not ACKed
  bus,        \* what the controller is shifting, "idle" after a STOP
  eeprom,     \* external: cells, address pointer, bus phase
  mem0        \* history: the cells when the current call began

mainVars == <<pc, call, n, i, ret, mem0>>
vars == <<mainVars, msgs, p_cur_msg, IICCON, IICDS, nack, bus, eeprom>>

(***************************************************************************)
(* Messages.                                                               *)
(***************************************************************************)
Message(flags, len, buf) ==
  [flags |-> flags, len |-> len, cnt_transferred |-> -1, err |-> 0,
   buf |-> buf]

\* mutant of WriteMessage: ++addr for addr++
WriteMessagePreIncrement(addr, b) ==
  Message(0, 2, [j \in 0 .. 1 |-> IF j = 0 THEN (addr + 1) % M ELSE b])

\* msg.buf = { addr++, data[i] } of at24cxx_write: both are unsigned char.
WriteMessage(addr, b) ==
  Message(0, 2, [j \in 0 .. 1 |-> IF j = 0 THEN addr % M ELSE b])

\* msg[0].buf = &addr of at24cxx_read: the low byte of the address.
PointerMessage(addr) == Message(0, 1, [j \in 0 .. 0 |-> addr % M])

DataMessage(len) == Message(1, len, [j \in 0 .. len - 1 |-> Junk])

\* mutant of Started: the count starts at 0, as if no address byte were sent
StartedStale(m) == [m EXCEPT !.cnt_transferred = 0, !.err = 0]

\* What do_master_* and the handler store into a message.
Started(m)       == [m EXCEPT !.cnt_transferred = -1, !.err = 0]
Counted(m, cnt)  == [m EXCEPT !.cnt_transferred = cnt]
Failed(m, cnt)   == [m EXCEPT !.cnt_transferred = cnt, !.err = -1]
\* mutant of Filled: the byte is counted but not stored
FilledNot(m, cnt, b) == [m EXCEPT !.cnt_transferred = cnt]

Filled(m, cnt, b) == [m EXCEPT !.cnt_transferred = cnt,
                               !.buf = [m.buf EXCEPT ![cnt - 1] = b]]

(***************************************************************************)
(* main: the two calls of the test menu, and the transfer loop.            *)
(***************************************************************************)
\* What gets() leaves in str with its NUL: strlen(str)+1 bytes.
Strings(len) ==
  {s \in [1 .. len -> Byte] : \A k \in 1 .. len : s[k] = 0 <=> k = len}

\* do_write_at24cxx: data is the string typed in, addr may be up to 256.
do_write_at24cxx(addr, data) ==
  /\ pc = "menu"
  /\ pc' = "at24cxx_write"
  /\ call' = [fn |-> "at24cxx_write", addr |-> addr, data |-> data,
              len |-> Len(data)]
  /\ n' = 0
  /\ mem0' = eeprom.mem
  /\ UNCHANGED <<i, ret, msgs, p_cur_msg, IICCON, IICDS, nack, bus, eeprom>>

\* One turn of at24cxx_write's loop: one 2-byte message per data byte.
at24cxx_write ==
  /\ pc = "at24cxx_write"
  /\ \/ /\ n < call.len
        /\ msgs' = << WriteMessage(call.addr + n, call.data[n + 1]) >>
        /\ n' = n + 1
        /\ i' = 1
        /\ pc' = "master_xfer"
        /\ UNCHANGED ret
     \/ /\ n = call.len
        /\ ret' = 0
        /\ pc' = "menu"
        /\ UNCHANGED <<n, i, msgs>>
  /\ UNCHANGED <<call, p_cur_msg, IICCON, IICDS, nack, bus, eeprom, mem0>>

\* do_read_at24cxx and at24cxx_read up to the call of i2c_transfer.
do_read_at24cxx(addr, len) ==
  /\ pc = "menu"
  /\ pc' = "master_xfer"
  /\ call' = [fn |-> "at24cxx_read", addr |-> addr, data |-> <<>>,
              len |-> len]
  /\ msgs' = << PointerMessage(addr), DataMessage(len) >>
  /\ i' = 1
  /\ n' = 0
  /\ mem0' = eeprom.mem
  /\ UNCHANGED <<ret, p_cur_msg, IICCON, IICDS, nack, bus, eeprom>>

\* s3c2440_master_xfer returns e: at24cxx_write goes on unless e is an
\* error, at24cxx_read returns it.
XferReturn(e) ==
  IF call.fn = "at24cxx_write" /\ e = 0
  THEN pc' = "at24cxx_write" /\ UNCHANGED ret
  ELSE pc' = "menu" /\ ret' = e

\* do_master_tx / do_master_rx up to the busy wait, for message i.
StartMessage(sla) ==
  /\ p_cur_msg' = i
  /\ msgs' = [msgs EXCEPT ![i] = Started(msgs[i])]
  /\ IICCON' = [IICCON EXCEPT !.ack = TRUE]
  /\ IICDS' = sla
  /\ bus' = "addr"
  /\ pc' = "wait"
  /\ UNCHANGED <<i, ret>>

do_master_tx == msgs[i].flags = 0 /\ StartMessage(SLA_W)
do_master_rx == msgs[i].flags = 1 /\ StartMessage(SLA_R)

s3c2440_master_xfer ==
  /\ pc = "master_xfer"
  /\ \/ i <= Len(msgs) /\ do_master_tx
     \/ i <= Len(msgs) /\ do_master_rx
     \/ /\ i > Len(msgs)
        /\ XferReturn(0)
        /\ UNCHANGED <<i, msgs, p_cur_msg, IICCON, IICDS, bus>>
  /\ UNCHANGED <<call, n, nack, eeprom, mem0>>

\* mutant of TransferOver: compares with the index of the last byte
TransferOverEarly(m) == m.err # 0 \/ m.cnt_transferred = m.len - 1

\* mutant of TransferOver: an error does not end the wait
TransferOverDeaf(m) == m.cnt_transferred = m.len

\* The condition of while (!msg->err && msg->cnt_transferred != msg->len).
TransferOver(m) == m.err # 0 \/ m.cnt_transferred = m.len

\* The busy wait ends; do_master_* returns and the loop goes on or stops.
WaitEnds ==
  /\ pc = "wait"
  /\ TransferOver(msgs[i])
  /\ IF msgs[i].err # 0
     THEN XferReturn(-1) /\ UNCHANGED i
     ELSE pc' = "master_xfer" /\ i' = i + 1 /\ UNCHANGED ret
  /\ UNCHANGED <<call, n, msgs, p_cur_msg, IICCON, IICDS, nack, bus,
                 eeprom, mem0>>

(***************************************************************************)
(* i2c_interrupt_func, run by handle_irq_c for interrupt 27.               *)
(***************************************************************************)
\* mutant of isLastData: off by one, the last byte is acknowledged as well
isLastDataLate(m, cnt) == cnt = m.len

isLastData(m, cnt) == cnt = m.len - 1

\* IICSTAT = 0xd0 or 0x90, then bit 4 of IICCON is cleared: STOP goes out.
Stop ==
  /\ bus' = "idle"
  /\ IICCON' = [IICCON EXCEPT !.pend = FALSE]
  /\ eeprom' = [eeprom EXCEPT !.phase = "off"]

\* resume_iic_with_ack / resume_iic_without_ack
ResumeRx(m, cnt) ==
  /\ bus' = "rx"
  /\ IICCON' = [ack |-> ~isLastData(m, cnt), pend |-> FALSE]
  /\ UNCHANGED eeprom

IsrNoAck(m, cnt) ==
  /\ cnt = 0 /\ nack
  /\ Stop
  /\ msgs' = [msgs EXCEPT ![p_cur_msg] = Failed(m, cnt)]
  /\ UNCHANGED IICDS

IsrTx(m, cnt) ==
  /\ m.flags = 0
  /\ ~(cnt = 0 /\ nack)
  /\ msgs' = [msgs EXCEPT ![p_cur_msg] = Counted(m, cnt)]
  /\ \/ /\ cnt < m.len
        /\ IICDS' = m.buf[cnt]
        /\ IICCON' = [IICCON EXCEPT !.pend = FALSE]
        /\ bus' = "tx"
        /\ UNCHANGED eeprom
     \/ cnt >= m.len /\ Stop /\ UNCHANGED IICDS

IsrRx(m, cnt) ==
  /\ m.flags = 1
  /\ ~(cnt = 0 /\ nack)
  /\ \/ /\ cnt = 0
        /\ msgs' = [msgs EXCEPT ![p_cur_msg] = Counted(m, cnt)]
        /\ ResumeRx(m, cnt)
     \/ /\ cnt # 0 /\ cnt < m.len
        /\ msgs' = [msgs EXCEPT ![p_cur_msg] = Filled(m, cnt, IICDS)]
        /\ ResumeRx(m, cnt)
     \/ /\ cnt # 0 /\ cnt >= m.len
        /\ msgs' = [msgs EXCEPT ![p_cur_msg] = Counted(m, cnt)]
        /\ Stop
  /\ UNCHANGED IICDS

i2c_interrupt_func ==
  /\ IICCON.pend
  /\ LET m   == msgs[p_cur_msg]
         cnt == m.cnt_transferred + 1
     IN  IsrNoAck(m, cnt) \/ IsrTx(m, cnt) \/ IsrRx(m, cnt)
  /\ UNCHANGED <<mainVars, p_cur_msg, nack>>

(***************************************************************************)
(* External: the controller finishes shifting a byte and raises bit 4 of   *)
(* IICCON, holding the bus until the handler clears it.  The EEPROM may    *)
(* refuse its address (absent, or busy with an internal write cycle).      *)
(***************************************************************************)
AddressByte(acked) ==
  /\ bus = "addr"
  /\ nack' = ~acked
  /\ eeprom' = [eeprom EXCEPT !.phase =
                  IF ~acked THEN "off"
                  ELSE IF IICDS = SLA_W THEN "pointer" ELSE "send"]
  /\ UNCHANGED IICDS

DataByteOut ==
  /\ bus = "tx"
  /\ nack' = FALSE
  /\ eeprom' =
       IF eeprom.phase = "pointer"
       THEN [eeprom EXCEPT !.ptr = IICDS, !.phase = "store"]
       ELSE [eeprom EXCEPT !.mem[eeprom.ptr] = IICDS,
                           !.ptr = (eeprom.ptr + 1) % M]
  /\ UNCHANGED IICDS

DataByteIn ==
  /\ bus = "rx"
  /\ IICDS' = eeprom.mem[eeprom.ptr]
  /\ eeprom' = [eeprom EXCEPT !.ptr = (eeprom.ptr + 1) % M,
                  !.phase = IF IICCON.ack THEN "send" ELSE "released"]
  /\ UNCHANGED nack

ByteShifted ==
  /\ ~IICCON.pend
  /\ (\E acked \in BOOLEAN : AddressByte(acked)) \/ DataByteOut \/ DataByteIn
  /\ IICCON' = [IICCON EXCEPT !.pend = TRUE]
  /\ UNCHANGED <<mainVars, msgs, p_cur_msg, bus>>

(***************************************************************************)
(* The specification.                                                      *)
(***************************************************************************)
\* After i2c_init, with arbitrary EEPROM contents.
Init ==
  /\ pc = "menu"
  /\ call = [fn |-> "none", addr |-> 0, data |-> <<>>, len |-> 0]
  /\ n = 0
  /\ msgs = <<>>
  /\ i = 1
  /\ p_cur_msg = 0
  /\ ret = 0
  /\ IICCON = [ack |-> TRUE, pend |-> FALSE]
  /\ IICDS = 0
  /\ nack = FALSE
  /\ bus = "idle"
  /\ \E mem \in [Byte -> Byte] :
       /\ eeprom = [mem |-> mem, ptr |-> 0, phase |-> "off"]
       /\ mem0 = mem

Menu ==
  \/ \E addr \in 0 .. M, len \in WriteLens :
       \E data \in Strings(len) : do_write_at24cxx(addr, data)
  \/ \E addr \in 0 .. M, len \in ReadLens : do_read_at24cxx(addr, len)

Main == at24cxx_write \/ s3c2440_master_xfer \/ WaitEnds

Next == Menu \/ Main \/ i2c_interrupt_func \/ ByteShifted

\* main spins, the CPU takes a pending interrupt, the controller shifts.
Fairness == WF_vars(Main) /\ WF_vars(i2c_interrupt_func) /\ WF_vars(ByteShifted)

Spec == Init /\ [][Next]_vars /\ Fairness

(***************************************************************************)
(* Properties.                                                             *)
(***************************************************************************)
Call == [fn : {"none", "at24cxx_write", "at24cxx_read"}, addr : 0 .. M,
         data : Seq(Byte), len : Nat]

MessagesOf(flags, len, Data) ==
  [flags : {flags}, len : {len}, cnt_transferred : -1 .. len, err : {0, -1},
   buf : [0 .. len - 1 -> Data]]

TxMessages == UNION {MessagesOf(0, len, Byte) : len \in {1, 2}}
RxMessages == UNION {MessagesOf(1, len, Byte \cup {Junk}) : len \in ReadLens}
Messages   == TxMessages \cup RxMessages

\* Every variable has its type; above all the handler's cnt_transferred never
\* runs past msg->len, so buf is never indexed outside its bounds.
TypeOK ==
  /\ pc \in {"menu", "at24cxx_write", "master_xfer", "wait"}
  /\ call \in Call
  /\ n \in 0 .. call.len
  /\ msgs \in Seq(Messages)
  /\ Len(msgs) \in 0 .. 2
  /\ i \in 1 .. Len(msgs) + 1
  /\ p_cur_msg \in 0 .. 2
  /\ ret \in {0, -1}
  /\ IICCON \in [ack : BOOLEAN, pend : BOOLEAN]
  /\ IICDS \in Byte \cup {SLA_W, SLA_R}
  /\ nack \in BOOLEAN
  /\ bus \in {"idle", "addr", "tx", "rx"}
  /\ eeprom \in [mem : [Byte -> Byte], ptr : Byte,
                 phase : {"off", "pointer", "store", "send", "released"}]
  /\ mem0 \in [Byte -> Byte]

\* main leaves the busy wait of do_master_tx/do_master_rx only when the
\* handler has no more work: no byte on the wire and no interrupt pending
\* once main goes on, frees the i2c_msg on its stack or reuses it.
WaitCoversTransfer == bus # "idle" \/ IICCON.pend => pc = "wait"

\* When the handler sends STOP the EEPROM is not driving SDA for a further
\* byte: the last byte of a read was not acknowledged (isLastData).  A slave
\* that was ACKed would hold the line and the STOP would be lost.
SlaveReleasedAtStop ==
  [][bus # "idle" /\ bus' = "idle" => eeprom.phase # "send"]_vars

Returned(fn) == pc = "menu" /\ call.fn = fn

\* at24cxx_write returned 0: every byte of the string is in its cell, the
\* cells counted modulo the device size as buf[0] = addr++ does.  (For a
\* string that wraps onto itself the later byte wins.)
WriteStored ==
  Returned("at24cxx_write") /\ ret = 0 =>
    \A k \in 0 .. call.len - 1 :
      (k + M >= call.len) =>
        eeprom.mem[(call.addr + k) % M] = call.data[k + 1]

\* At any moment of any call, failed ones included, a cell differs from what
\* it was when the call began only if at24cxx_write has already reached it:
\* reads change nothing, and writes neither spill nor run ahead.
WriteConfined ==
  \A a \in Byte :
    eeprom.mem[a] # mem0[a] =>
      /\ call.fn = "at24cxx_write"
      /\ \E k \in 0 .. n - 1 :
           /\ (call.addr + k) % M = a
           /\ eeprom.mem[a] = call.data[k + 1]

\* What at24cxx_write leaves in the EEPROM, whether it succeeds or not.
WriteOutcome == WriteStored /\ WriteConfined

\* at24cxx_read returned 0: no byte of the caller's buffer is from a wrong cell
\* (the index is one less than the count, which the address byte begins), and
\* those before the last have all been stored.
ReadDelivers ==
  Returned("at24cxx_read") /\ ret = 0 =>
    \A k \in 0 .. call.len - 1 :
      \/ msgs[2].buf[k] = mem0[(call.addr + k) % M]
      \/ k = call.len - 1 /\ msgs[2].buf[k] = Junk

\* The comment in i2c_interrupt_func: an interrupt that is not the first one
\* means a new byte, which is read from IICDS and stored.  So at24cxx_read
\* that returns 0 has filled the whole buffer, the last byte too.
ReadComplete ==
  Returned("at24cxx_read") /\ ret = 0 =>
    \A k \in 0 .. call.len - 1 : msgs[2].buf[k] = mem0[(call.addr + k) % M]

\* Every call of at24cxx_write and at24cxx_read returns, also when the
\* EEPROM does not answer: the busy wait on err and cnt_transferred ends.
CallReturns == pc # "menu" ~> pc = "menu"

(***************************************************************************)
(* How main, the handler and the bus agree during a transfer: the          *)
(* strengthening that makes the safety properties inductive.               *)
(***************************************************************************)
BusInv ==
  /\ bus # "idle" => pc = "wait"
  /\ IICCON.pend => bus # "idle"
  /\ pc = "wait" => i <= Len(msgs) /\ p_cur_msg = i

AddrInv ==
  bus = "addr" =>
    /\ msgs[i].cnt_transferred = -1 /\ msgs[i].err = 0
    /\ IICDS = IF msgs[i].flags = 0 THEN SLA_W ELSE SLA_R
    /\ IICCON.pend =>
         eeprom.phase = IF nack THEN "off"
                        ELSE IF msgs[i].flags = 0 THEN "pointer" ELSE "send"

TxInv ==
  bus = "tx" =>
    /\ msgs[i].flags = 0 /\ msgs[i].err = 0
    /\ msgs[i].cnt_transferred \in 0 .. msgs[i].len - 1
    /\ IICDS \in Byte
    /\ eeprom.phase # "send"

RxInv ==
  bus = "rx" =>
    /\ msgs[i].flags = 1 /\ msgs[i].err = 0
    /\ msgs[i].cnt_transferred \in 0 .. msgs[i].len - 1
    /\ IICCON.ack = ~isLastData(msgs[i], msgs[i].cnt_transferred)
    /\ IICCON.pend =>
         /\ IICDS \in Byte
         /\ eeprom.phase = IF IICCON.ack THEN "send" ELSE "released"

\* During a transfer the handler works on the message main waits for, bit 7
\* of IICCON is 0 exactly while the last byte of a read is on the wire, and
\* the EEPROM is in the phase the handler believes it is in.
TransferInv ==
  /\ BusInv /\ AddrInv /\ TxInv /\ RxInv
  /\ call.fn = "at24cxx_write" => Len(call.data) = call.len
  /\ pc = "at24cxx_write" => call.fn = "at24cxx_write"
=============================================================================
