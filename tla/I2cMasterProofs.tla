-------------------------- MODULE I2cMasterProofs ---------------------------
(***************************************************************************)
(* Proofs about I2cMaster for every device size and all lengths, provided  *)
(* no read of length 0 is asked for.                                       *)
(***************************************************************************)
EXTENDS I2cMaster, SequenceTheorems, TLAPS

\* The one restriction: a read of length 0 leaves the busy wait too early.
ReadsNonEmpty == 0 \notin ReadLens

IInv == TypeOK /\ TransferInv

(***************************************************************************)
(* Messages.                                                               *)
(***************************************************************************)
\* What membership in Messages says field by field.
LEMMA MessageFields ==
  ASSUME NEW m \in Messages
  PROVE  /\ m.flags \in {0, 1}
         /\ m.len \in Nat
         /\ m.cnt_transferred \in -1 .. m.len
         /\ m.err \in {0, -1}
         /\ m.flags = 0 => m.len \in {1, 2} /\ m.buf \in [0 .. m.len - 1 -> Byte]
         /\ m.flags = 1 => /\ m.len \in ReadLens
                           /\ m.buf \in [0 .. m.len - 1 -> Byte \cup {Junk}]
         /\ m \in MessagesOf(m.flags, m.len,
                    IF m.flags = 0 THEN Byte ELSE Byte \cup {Junk})
<1>1. CASE \E len \in {1, 2} : m \in MessagesOf(0, len, Byte)
  BY <1>1 DEF MessagesOf
<1>2. CASE \E len \in ReadLens : m \in MessagesOf(1, len, Byte \cup {Junk})
  BY <1>2, LensAssumption DEF MessagesOf
<1> QED BY <1>1, <1>2 DEF Messages, TxMessages, RxMessages

\* Membership from the fields.
LEMMA IsMessage ==
  ASSUME NEW m,
         \/ \E len \in {1, 2} : m \in MessagesOf(0, len, Byte)
         \/ \E len \in ReadLens : m \in MessagesOf(1, len, Byte \cup {Junk})
  PROVE  m \in Messages
BY DEF Messages, TxMessages, RxMessages

\* A message keeps its type and its other fields when the handler counts.
LEMMA CountedType ==
  ASSUME NEW m \in Messages, NEW c \in -1 .. m.len
  PROVE  /\ Counted(m, c) \in Messages
         /\ Counted(m, c).cnt_transferred = c
         /\ Counted(m, c).len = m.len
         /\ Counted(m, c).flags = m.flags
         /\ Counted(m, c).err = m.err
         /\ Counted(m, c).buf = m.buf
<1>1. m \in MessagesOf(m.flags, m.len, IF m.flags = 0 THEN Byte ELSE Byte \cup {Junk})
  BY MessageFields
<1>2. /\ Counted(m, c) \in MessagesOf(m.flags, m.len,
           IF m.flags = 0 THEN Byte ELSE Byte \cup {Junk})
      /\ Counted(m, c).cnt_transferred = c
      /\ Counted(m, c).len = m.len
      /\ Counted(m, c).flags = m.flags
      /\ Counted(m, c).err = m.err
      /\ Counted(m, c).buf = m.buf
  BY <1>1 DEF MessagesOf, Counted
<1> QED BY <1>2, MessageFields, IsMessage

\* The same for a message whose transfer failed.
LEMMA FailedType ==
  ASSUME NEW m \in Messages, NEW c \in -1 .. m.len
  PROVE  /\ Failed(m, c) \in Messages
         /\ Failed(m, c).cnt_transferred = c
         /\ Failed(m, c).len = m.len
         /\ Failed(m, c).flags = m.flags
         /\ Failed(m, c).err = -1
         /\ Failed(m, c).buf = m.buf
<1>1. m \in MessagesOf(m.flags, m.len, IF m.flags = 0 THEN Byte ELSE Byte \cup {Junk})
  BY MessageFields
<1>2. /\ Failed(m, c) \in MessagesOf(m.flags, m.len,
           IF m.flags = 0 THEN Byte ELSE Byte \cup {Junk})
      /\ Failed(m, c).cnt_transferred = c
      /\ Failed(m, c).len = m.len
      /\ Failed(m, c).flags = m.flags
      /\ Failed(m, c).err = -1
      /\ Failed(m, c).buf = m.buf
  BY <1>1 DEF MessagesOf, Failed
<1> QED BY <1>2, MessageFields, IsMessage

\* The same for a message do_master_* starts.
LEMMA StartedType ==
  ASSUME NEW m \in Messages
  PROVE  /\ Started(m) \in Messages
         /\ Started(m).cnt_transferred = -1
         /\ Started(m).len = m.len
         /\ Started(m).flags = m.flags
         /\ Started(m).err = 0
         /\ Started(m).buf = m.buf
<1>1. m \in MessagesOf(m.flags, m.len, IF m.flags = 0 THEN Byte ELSE Byte \cup {Junk})
  BY MessageFields
<1>2. -1 \in -1 .. m.len
  BY MessageFields
<1>3. /\ Started(m) \in MessagesOf(m.flags, m.len,
           IF m.flags = 0 THEN Byte ELSE Byte \cup {Junk})
      /\ Started(m).cnt_transferred = -1
      /\ Started(m).len = m.len
      /\ Started(m).flags = m.flags
      /\ Started(m).err = 0
      /\ Started(m).buf = m.buf
  BY <1>1, <1>2 DEF MessagesOf, Started
<1> QED BY <1>3, MessageFields, IsMessage

\* The same for a read message that receives a byte: the store is inside buf.
LEMMA FilledType ==
  ASSUME NEW m \in Messages, m.flags = 1,
         NEW c \in 1 .. m.len, NEW b \in Byte
  PROVE  /\ Filled(m, c, b) \in Messages
         /\ Filled(m, c, b).cnt_transferred = c
         /\ Filled(m, c, b).len = m.len
         /\ Filled(m, c, b).flags = m.flags
         /\ Filled(m, c, b).err = m.err
<1>1. /\ m \in MessagesOf(1, m.len, Byte \cup {Junk})
      /\ m.len \in ReadLens /\ m.len \in Nat
      /\ m.buf \in [0 .. m.len - 1 -> Byte \cup {Junk}]
  <2>1. 1 # 0
    OBVIOUS
  <2> QED BY <2>1, MessageFields
<1>2. c \in -1 .. m.len /\ c - 1 \in 0 .. m.len - 1
  BY <1>1
<1> DEFINE d == [m.buf EXCEPT ![c - 1] = b]
<1>3. d \in [0 .. m.len - 1 -> Byte \cup {Junk}]
  BY <1>1, <1>2
<1> HIDE DEF d
<1>4. /\ [m EXCEPT !.cnt_transferred = c, !.buf = d]
           \in MessagesOf(1, m.len, Byte \cup {Junk})
      /\ [m EXCEPT !.cnt_transferred = c, !.buf = d].cnt_transferred = c
      /\ [m EXCEPT !.cnt_transferred = c, !.buf = d].len = m.len
      /\ [m EXCEPT !.cnt_transferred = c, !.buf = d].flags = m.flags
      /\ [m EXCEPT !.cnt_transferred = c, !.buf = d].err = m.err
  BY <1>1, <1>2, <1>3 DEF MessagesOf
<1>5. Filled(m, c, b) = [m EXCEPT !.cnt_transferred = c, !.buf = d]
  BY DEF Filled, d
<1> QED BY <1>1, <1>4, <1>5, IsMessage

\* The messages at24cxx_write and at24cxx_read build.
LEMMA NewMessages ==
  ASSUME NEW addr \in Nat
  PROVE  /\ \A b \in Byte : WriteMessage(addr, b) \in Messages
         /\ PointerMessage(addr) \in Messages
         /\ \A len \in ReadLens : DataMessage(len) \in Messages
<1>1. addr % M \in Byte
  BY MAssumption DEF Byte
<1>2. ASSUME NEW b \in Byte PROVE WriteMessage(addr, b) \in Messages
  <2>1. WriteMessage(addr, b) \in MessagesOf(0, 2, Byte)
    BY <1>1 DEF WriteMessage, Message, MessagesOf
  <2> QED BY <2>1, IsMessage
<1>3. PointerMessage(addr) \in Messages
  <2>1. PointerMessage(addr) \in MessagesOf(0, 1, Byte)
    BY <1>1 DEF PointerMessage, Message, MessagesOf
  <2> QED BY <2>1, IsMessage
<1>4. ASSUME NEW len \in ReadLens PROVE DataMessage(len) \in Messages
  <2>1. DataMessage(len) \in MessagesOf(1, len, Byte \cup {Junk})
    BY LensAssumption DEF DataMessage, Message, MessagesOf
  <2> QED BY <2>1, IsMessage
<1> QED BY <1>2, <1>3, <1>4

\* Replacing one message of the array.
LEMMA MsgsUpdate ==
  ASSUME TypeOK, NEW k \in 1 .. Len(msgs), NEW x \in Messages,
         msgs' = [msgs EXCEPT ![k] = x]
  PROVE  /\ msgs' \in Seq(Messages)
         /\ Len(msgs') = Len(msgs)
         /\ msgs'[k] = x
         /\ \A j \in 1 .. Len(msgs) : j # k => msgs'[j] = msgs[j]
<1>1. msgs \in Seq(Messages)
  BY DEF TypeOK
<1> QED BY <1>1, ExceptSeq

(***************************************************************************)
(* main's steps.                                                           *)
(***************************************************************************)
\* Nothing is under way when the program starts.
LEMMA InitIInv == Init => IInv
<1> SUFFICES ASSUME Init PROVE IInv
  OBVIOUS
<1>1. 0 \in Byte
  BY MAssumption DEF Byte
<1>2. msgs \in Seq(Messages) /\ Len(msgs) = 0
  BY EmptySeq DEF Init
<1>3. call \in Call /\ n \in 0 .. call.len
  <2>1. <<>> \in Seq(Byte)
    BY EmptySeq
  <2>2. 0 \in 0 .. M
    BY MAssumption
  <2> QED BY <2>1, <2>2 DEF Init, Call
<1>4. /\ eeprom \in [mem : [Byte -> Byte], ptr : Byte,
                     phase : {"off", "pointer", "store", "send", "released"}]
      /\ mem0 \in [Byte -> Byte]
  BY <1>1 DEF Init
<1>5. TypeOK
  BY <1>1, <1>2, <1>3, <1>4 DEF Init, TypeOK
<1>6. TransferInv
  BY DEF Init, TransferInv, BusInv, AddrInv, TxInv, RxInv
<1> QED BY <1>5, <1>6 DEF IInv

\* The menu starts a call while the bus is idle.
LEMMA MenuIInv ==
  ASSUME IInv, Menu
  PROVE  IInv'
<1> USE DEF IInv
<1>0. 0 \in Nat /\ bus = "idle"
  BY DEF Menu, do_write_at24cxx, do_read_at24cxx, TransferInv, BusInv
<1>1. ASSUME NEW addr \in 0 .. M, NEW len \in WriteLens,
             NEW data \in Strings(len), do_write_at24cxx(addr, data)
      PROVE  IInv'
  <2>1. len \in Nat /\ data \in [1 .. len -> Byte]
    BY LensAssumption DEF Strings
  <2>2. data \in Seq(Byte) /\ Len(data) = len
    BY <2>1
  <2>3. call' \in Call /\ n' \in 0 .. call'.len
    BY <1>1, <2>1, <2>2 DEF do_write_at24cxx, Call
  <2>4. TypeOK'
    BY <1>1, <2>3 DEF do_write_at24cxx, TypeOK
  <2>5. TransferInv'
    BY <1>0, <1>1, <2>2
       DEF do_write_at24cxx, TransferInv, BusInv, AddrInv, TxInv, RxInv
  <2> QED BY <2>4, <2>5
<1>2. ASSUME NEW addr \in 0 .. M, NEW len \in ReadLens,
             do_read_at24cxx(addr, len)
      PROVE  IInv'
  <2>1. len \in Nat /\ addr \in Nat
    BY LensAssumption, MAssumption
  <2>2. call' \in Call /\ n' \in 0 .. call'.len
    <3>1. <<>> \in Seq(Byte)
      BY EmptySeq
    <3> QED BY <1>2, <2>1, <3>1 DEF do_read_at24cxx, Call
  <2>3. msgs' \in Seq(Messages) /\ Len(msgs') = 2
    BY <1>2, <2>1, NewMessages DEF do_read_at24cxx
  <2>4. TypeOK'
    BY <1>2, <2>2, <2>3 DEF do_read_at24cxx, TypeOK
  <2>5. TransferInv'
    BY <1>0, <1>2
       DEF do_read_at24cxx, TransferInv, BusInv, AddrInv, TxInv, RxInv
  <2> QED BY <2>4, <2>5
<1> QED BY <1>1, <1>2 DEF Menu

\* A turn of at24cxx_write's loop.
LEMMA WriteIInv ==
  ASSUME IInv, at24cxx_write
  PROVE  IInv'
<1> USE DEF IInv
<1>0. bus = "idle"
  BY DEF at24cxx_write, TransferInv, BusInv
<1>1. CASE n < call.len
  <2>1. call.addr \in Nat /\ n \in Nat /\ call.len \in Nat
    BY MAssumption DEF TypeOK, Call
  <2>2. call.data[n + 1] \in Byte
    <3>1. call.data \in Seq(Byte) /\ Len(call.data) = call.len
      BY DEF TypeOK, Call, TransferInv, at24cxx_write
    <3>2. n + 1 \in 1 .. call.len
      BY <1>1, <2>1
    <3> QED BY <3>1, <3>2, ElementOfSeq
  <2>3. /\ msgs' = << WriteMessage(call.addr + n, call.data[n + 1]) >>
        /\ n' = n + 1 /\ i' = 1 /\ pc' = "master_xfer"
        /\ UNCHANGED <<ret, call, p_cur_msg, IICCON, IICDS, nack, bus, eeprom,
                       mem0>>
    BY <1>1, <2>1 DEF at24cxx_write
  <2>4. msgs' \in Seq(Messages) /\ Len(msgs') = 1
    <3>1. WriteMessage(call.addr + n, call.data[n + 1]) \in Messages
      BY <2>1, <2>2, NewMessages
    <3> QED BY <2>3, <3>1
  <2>5. n' \in 0 .. call.len
    BY <1>1, <2>1, <2>3
  <2>6. TypeOK'
    BY <2>3, <2>4, <2>5 DEF TypeOK
  <2>7. TransferInv'
    BY <1>0, <2>3 DEF TransferInv, BusInv, AddrInv, TxInv, RxInv
  <2> QED BY <2>6, <2>7
<1>2. CASE ~(n < call.len)
  <2>1. /\ ret' = 0 /\ pc' = "menu"
        /\ UNCHANGED <<n, i, msgs, call, p_cur_msg, IICCON, IICDS, nack, bus,
                       eeprom, mem0>>
    BY <1>2 DEF at24cxx_write
  <2>2. TypeOK'
    BY <2>1 DEF TypeOK
  <2>3. TransferInv'
    BY <1>0, <2>1 DEF TransferInv, BusInv, AddrInv, TxInv, RxInv
  <2> QED BY <2>2, <2>3
<1> QED BY <1>1, <1>2

\* The transfer loop starts the next message or returns.
LEMMA XferIInv ==
  ASSUME IInv, s3c2440_master_xfer
  PROVE  IInv'
<1> USE DEF IInv
<1>0. bus = "idle" /\ ~IICCON.pend
  BY DEF s3c2440_master_xfer, TransferInv, BusInv
<1>1. CASE i <= Len(msgs)
  <2>0. Len(msgs) \in 0 .. 2 /\ i \in 1 .. Len(msgs)
    BY <1>1 DEF TypeOK
  <2>1. msgs[i] \in Messages
    BY <2>0, ElementOfSeq DEF TypeOK
  <2>2. /\ msgs[i].flags \in {0, 1}
        /\ p_cur_msg' = i
        /\ msgs' = [msgs EXCEPT ![i] = Started(msgs[i])]
        /\ IICCON' = [IICCON EXCEPT !.ack = TRUE]
        /\ IICDS' = IF msgs[i].flags = 0 THEN SLA_W ELSE SLA_R
        /\ bus' = "addr"
        /\ pc' = "wait"
        /\ UNCHANGED <<i, ret, call, n, nack, eeprom, mem0>>
    BY <1>1, <2>0 DEF s3c2440_master_xfer, do_master_tx, do_master_rx, StartMessage
  <2>3. /\ Started(msgs[i]) \in Messages
        /\ Started(msgs[i]).cnt_transferred = -1
        /\ Started(msgs[i]).flags = msgs[i].flags
        /\ Started(msgs[i]).err = 0
    BY <2>1, StartedType
  <2>4. /\ msgs' \in Seq(Messages)
        /\ Len(msgs') = Len(msgs)
        /\ msgs'[i] = Started(msgs[i])
    BY <2>0, <2>2, <2>3, MsgsUpdate
  <2>5. /\ IICCON' \in [ack : BOOLEAN, pend : BOOLEAN]
        /\ IICCON'.pend = IICCON.pend
    BY <2>2 DEF TypeOK
  <2>6. TypeOK'
    BY <2>0, <2>2, <2>4, <2>5 DEF TypeOK
  <2>7. BusInv'
    BY <1>0, <2>0, <2>2, <2>4, <2>5 DEF BusInv
  <2>8. AddrInv' /\ TxInv' /\ RxInv'
    BY <1>0, <2>2, <2>3, <2>4, <2>5 DEF AddrInv, TxInv, RxInv
  <2> QED BY <2>2, <2>6, <2>7, <2>8 DEF TransferInv
<1>2. CASE ~(i <= Len(msgs))
  <2>1. /\ XferReturn(0)
        /\ UNCHANGED <<i, msgs, p_cur_msg, IICCON, IICDS, bus, call, n, nack,
                       eeprom, mem0>>
    BY <1>2 DEF s3c2440_master_xfer
  <2>2. /\ pc' \in {"menu", "at24cxx_write"} /\ ret' \in {0, -1}
        /\ pc' = "at24cxx_write" => call.fn = "at24cxx_write"
    BY <2>1 DEF XferReturn, TypeOK
  <2>3. TypeOK'
    BY <2>1, <2>2 DEF TypeOK
  <2>4. TransferInv'
    BY <1>0, <2>1, <2>2 DEF TransferInv, BusInv, AddrInv, TxInv, RxInv
  <2> QED BY <2>3, <2>4
<1> QED BY <1>1, <1>2

\* main leaves the wait only after the handler has sent STOP: while the bus
\* is busy, err is 0 and cnt_transferred is below len.
LEMMA WaitIInv ==
  ASSUME IInv, WaitEnds, ReadsNonEmpty
  PROVE  IInv'
<1> USE DEF IInv
<1>0. /\ Len(msgs) \in 0 .. 2 /\ i \in 1 .. Len(msgs)
      /\ pc = "wait"
  BY DEF TypeOK, TransferInv, BusInv, WaitEnds
<1>1. msgs[i] \in Messages
  BY <1>0, ElementOfSeq DEF TypeOK
<1>2. msgs[i].len \in Nat \ {0} /\ msgs[i].cnt_transferred \in Int
  BY <1>1, MessageFields, LensAssumption DEF ReadsNonEmpty
<1>3. bus = "idle"
  <2>1. bus \in {"idle", "addr", "tx", "rx"}
    BY DEF TypeOK
  <2>2. bus # "addr" /\ bus # "tx" /\ bus # "rx"
    BY <1>2 DEF TransferInv, AddrInv, TxInv, RxInv, WaitEnds, TransferOver
  <2> QED BY <2>1, <2>2
<1>4. /\ UNCHANGED <<call, n, msgs, p_cur_msg, IICCON, IICDS, nack, bus,
                     eeprom, mem0>>
      /\ i' \in 1 .. Len(msgs) + 1
      /\ pc' \in {"menu", "at24cxx_write", "master_xfer"}
      /\ ret' \in {0, -1}
      /\ pc' = "at24cxx_write" => call.fn = "at24cxx_write"
  BY <1>0 DEF WaitEnds, XferReturn, TypeOK
<1>5. TypeOK'
  BY <1>4 DEF TypeOK
<1>6. TransferInv'
  BY <1>3, <1>4 DEF TransferInv, BusInv, AddrInv, TxInv, RxInv
<1> QED BY <1>5, <1>6

(***************************************************************************)
(* The handler.                                                            *)
(***************************************************************************)
\* Where the handler finds things when it runs.
LEMMA HandlerEntry ==
  ASSUME IInv, IICCON.pend, ReadsNonEmpty
  PROVE  /\ pc = "wait" /\ p_cur_msg = i
         /\ Len(msgs) \in 0 .. 2 /\ i \in 1 .. Len(msgs)
         /\ msgs[i] \in Messages
         /\ msgs[i].len \in Nat \ {0}
         /\ bus \in {"addr", "tx", "rx"}
         /\ msgs[i].err = 0
         /\ msgs[i].cnt_transferred \in -1 .. msgs[i].len - 1
         /\ msgs[i].cnt_transferred = -1 <=> bus = "addr"
<1> USE DEF IInv
<1>1. /\ bus \in {"addr", "tx", "rx"}
      /\ pc = "wait" /\ p_cur_msg = i
      /\ Len(msgs) \in 0 .. 2 /\ i \in 1 .. Len(msgs)
  BY DEF TypeOK, TransferInv, BusInv
<1>2. msgs[i] \in Messages
  BY <1>1, ElementOfSeq DEF TypeOK
<1>3. msgs[i].len \in Nat \ {0}
  BY <1>2, MessageFields, LensAssumption DEF ReadsNonEmpty
<1>4. CASE bus = "addr"
  BY <1>1, <1>2, <1>3, <1>4 DEF TransferInv, AddrInv
<1>5. CASE bus = "tx"
  BY <1>1, <1>2, <1>3, <1>5 DEF TransferInv, TxInv
<1>6. CASE bus = "rx"
  BY <1>1, <1>2, <1>3, <1>6 DEF TransferInv, RxInv
<1> QED BY <1>1, <1>4, <1>5, <1>6

\* After a STOP nothing is left of the transfer but the result.
LEMMA StopIInv ==
  ASSUME IInv, IICCON.pend, ReadsNonEmpty, Stop,
         NEW x \in Messages, msgs' = [msgs EXCEPT ![i] = x],
         UNCHANGED <<mainVars, p_cur_msg, nack, IICDS>>
  PROVE  IInv'
<1> USE DEF IInv
<1>1. /\ pc = "wait" /\ p_cur_msg = i
      /\ Len(msgs) \in 0 .. 2 /\ i \in 1 .. Len(msgs)
  BY HandlerEntry
<1>2. msgs' \in Seq(Messages) /\ Len(msgs') = Len(msgs)
  BY <1>1, MsgsUpdate
<1>3. /\ IICCON' \in [ack : BOOLEAN, pend : BOOLEAN]
      /\ ~IICCON'.pend
      /\ eeprom' \in [mem : [Byte -> Byte], ptr : Byte,
                      phase : {"off", "pointer", "store", "send", "released"}]
      /\ bus' = "idle"
  BY DEF Stop, TypeOK
<1>4. TypeOK'
  BY <1>2, <1>3 DEF TypeOK, mainVars
<1>5. TransferInv'
  BY <1>1, <1>2, <1>3
     DEF TransferInv, BusInv, AddrInv, TxInv, RxInv, mainVars
<1> QED BY <1>4, <1>5

\* The no-ACK branch.
LEMMA NoAckIInv ==
  ASSUME IInv, IICCON.pend, ReadsNonEmpty,
         IsrNoAck(msgs[i], msgs[i].cnt_transferred + 1),
         UNCHANGED <<mainVars, p_cur_msg, nack>>
  PROVE  IInv' /\ eeprom.phase # "send"
<1> DEFINE m == msgs[i]
           c == msgs[i].cnt_transferred + 1
<1>1. /\ p_cur_msg = i /\ m \in Messages /\ c \in 0 .. m.len
      /\ c = 0 => bus = "addr"
  BY HandlerEntry
<1>2. Failed(m, c) \in Messages
  <2>1. c \in -1 .. m.len
    BY <1>1, MessageFields
  <2> QED BY <1>1, <2>1, FailedType
<1>3. IInv'
  BY <1>1, <1>2, StopIInv DEF IsrNoAck
<1>4. eeprom.phase # "send"
  BY <1>1 DEF IsrNoAck, IInv, TransferInv, AddrInv
<1> QED BY <1>3, <1>4

\* The write branch.
LEMMA TxIInv ==
  ASSUME IInv, IICCON.pend, ReadsNonEmpty,
         IsrTx(msgs[i], msgs[i].cnt_transferred + 1),
         UNCHANGED <<mainVars, p_cur_msg, nack>>
  PROVE  /\ IInv'
         /\ bus' = "idle" => eeprom.phase # "send"
<1> DEFINE m == msgs[i]
           c == msgs[i].cnt_transferred + 1
<1>1. /\ pc = "wait" /\ p_cur_msg = i /\ m \in Messages /\ c \in 0 .. m.len
      /\ m.len \in Nat \ {0} /\ m.err = 0 /\ m.flags = 0
      /\ Len(msgs) \in 0 .. 2 /\ i \in 1 .. Len(msgs)
      /\ c = 0 <=> bus = "addr"
      /\ bus \in {"addr", "tx", "rx"}
  BY HandlerEntry DEF IsrTx
<1>2. bus # "rx" /\ eeprom.phase # "send"
  BY <1>1 DEF IsrTx, IInv, TransferInv, AddrInv, TxInv, RxInv
<1>3. c \in -1 .. m.len
  BY <1>1
<1>4. /\ Counted(m, c) \in Messages
      /\ Counted(m, c).cnt_transferred = c
      /\ Counted(m, c).len = m.len
      /\ Counted(m, c).flags = m.flags
      /\ Counted(m, c).err = m.err
  BY <1>1, <1>3, CountedType
<1>5. msgs' = [msgs EXCEPT ![i] = Counted(m, c)]
  BY <1>1 DEF IsrTx
<1>6. CASE c >= m.len
  <2>1. Stop /\ UNCHANGED IICDS
    BY <1>1, <1>6 DEF IsrTx
  <2> QED BY <1>2, <1>4, <1>5, <2>1, StopIInv
<1>7. CASE ~(c >= m.len)
  <2>1. /\ IICDS' = m.buf[c]
        /\ IICCON' = [IICCON EXCEPT !.pend = FALSE]
        /\ bus' = "tx"
        /\ UNCHANGED eeprom
    BY <1>1, <1>7 DEF IsrTx
  <2>2. c \in 0 .. m.len - 1
    BY <1>1, <1>7
  <2>3. IICDS' \in Byte
    BY <1>1, <2>1, <2>2, MessageFields
  <2> HIDE DEF m, c
  <2>4. /\ msgs' \in Seq(Messages)
        /\ Len(msgs') = Len(msgs)
        /\ msgs'[i] = Counted(m, c)
    BY <1>1, <1>4, <1>5, MsgsUpdate DEF IInv
  <2>5. /\ IICCON' \in [ack : BOOLEAN, pend : BOOLEAN]
        /\ ~IICCON'.pend
    BY <2>1 DEF IInv, TypeOK
  <2>6. TypeOK'
    BY <1>1, <2>1, <2>3, <2>4, <2>5 DEF IInv, TypeOK, mainVars
  <2>7. BusInv' /\ AddrInv' /\ RxInv'
    BY <1>1, <2>1, <2>4, <2>5 DEF BusInv, AddrInv, RxInv, mainVars
  <2>8. TxInv'
    BY <1>1, <1>2, <1>4, <2>1, <2>2, <2>3, <2>4 DEF TxInv, mainVars
  <2> QED BY <2>1, <2>6, <2>7, <2>8 DEF IInv, TransferInv, mainVars
<1> QED BY <1>6, <1>7

\* The read branch.
LEMMA RxIInv ==
  ASSUME IInv, IICCON.pend, ReadsNonEmpty,
         IsrRx(msgs[i], msgs[i].cnt_transferred + 1),
         UNCHANGED <<mainVars, p_cur_msg, nack>>
  PROVE  /\ IInv'
         /\ bus' = "idle" => eeprom.phase # "send"
<1> DEFINE m == msgs[i]
           c == msgs[i].cnt_transferred + 1
<1>1. /\ pc = "wait" /\ p_cur_msg = i /\ m \in Messages /\ c \in 0 .. m.len
      /\ m.len \in Nat \ {0} /\ m.err = 0 /\ m.flags = 1
      /\ Len(msgs) \in 0 .. 2 /\ i \in 1 .. Len(msgs)
      /\ c = 0 <=> bus = "addr"
      /\ bus \in {"addr", "tx", "rx"}
      /\ UNCHANGED IICDS
  BY HandlerEntry DEF IsrRx
<1>2. bus # "tx"
  BY <1>1 DEF IInv, TransferInv, TxInv
<1>3. c \in -1 .. m.len
  BY <1>1
<1>4. /\ Counted(m, c) \in Messages
      /\ Counted(m, c).cnt_transferred = c
      /\ Counted(m, c).len = m.len
      /\ Counted(m, c).flags = m.flags
      /\ Counted(m, c).err = m.err
  BY <1>1, <1>3, CountedType
<1>5. ASSUME NEW x \in Messages, msgs' = [msgs EXCEPT ![i] = x],
             x.cnt_transferred = c, x.len = m.len, x.flags = 1, x.err = 0,
             ResumeRx(m, c), c < m.len
      PROVE  IInv' /\ bus' # "idle"
  <2>1. /\ bus' = "rx"
        /\ IICCON' = [ack |-> ~isLastData(m, c), pend |-> FALSE]
        /\ UNCHANGED eeprom
    BY <1>5 DEF ResumeRx
  <2>2. c \in 0 .. m.len - 1
    BY <1>1, <1>5
  <2> HIDE DEF m, c
  <2>3. /\ msgs' \in Seq(Messages)
        /\ Len(msgs') = Len(msgs)
        /\ msgs'[i] = x
    BY <1>1, <1>5, MsgsUpdate DEF IInv
  <2>4. /\ IICCON' \in [ack : BOOLEAN, pend : BOOLEAN]
        /\ ~IICCON'.pend
        /\ IICCON'.ack = ~isLastData(m, c)
    BY <2>1 DEF isLastData
  <2>5. TypeOK'
    BY <1>1, <2>1, <2>3, <2>4 DEF IInv, TypeOK, mainVars
  <2>6. BusInv' /\ AddrInv' /\ TxInv'
    BY <1>1, <2>1, <2>3, <2>4 DEF BusInv, AddrInv, TxInv, mainVars
  <2>7. RxInv'
    BY <1>1, <1>5, <2>1, <2>2, <2>3, <2>4 DEF RxInv, mainVars, isLastData
  <2> QED BY <2>1, <2>5, <2>6, <2>7 DEF IInv, TransferInv, mainVars
<1>6. CASE c = 0
  <2>1. ResumeRx(m, c) /\ msgs' = [msgs EXCEPT ![i] = Counted(m, c)]
    BY <1>1, <1>6 DEF IsrRx
  <2>2. c < m.len
    BY <1>1, <1>6
  <2> HIDE DEF m, c
  <2> QED BY <1>1, <1>4, <1>5, <2>1, <2>2
<1>7. CASE c # 0 /\ c < m.len
  <2>1. ResumeRx(m, c) /\ msgs' = [msgs EXCEPT ![i] = Filled(m, c, IICDS)]
    BY <1>1, <1>7 DEF IsrRx
  <2>2. IICDS \in Byte
    BY <1>1, <1>2, <1>7 DEF IInv, TransferInv, RxInv
  <2>3. c \in 1 .. m.len
    BY <1>1, <1>7
  <2> HIDE DEF m, c
  <2>4. /\ Filled(m, c, IICDS) \in Messages
        /\ Filled(m, c, IICDS).cnt_transferred = c
        /\ Filled(m, c, IICDS).len = m.len
        /\ Filled(m, c, IICDS).flags = m.flags
        /\ Filled(m, c, IICDS).err = m.err
    BY <1>1, <2>2, <2>3, FilledType
  <2> QED BY <1>1, <1>5, <1>7, <2>1, <2>4
<1>8. CASE c # 0 /\ ~(c < m.len)
  <2>1. Stop /\ msgs' = [msgs EXCEPT ![i] = Counted(m, c)]
    BY <1>1, <1>8 DEF IsrRx
  <2>2. IInv'
    BY <1>1, <1>4, <2>1, StopIInv
  <2>3. eeprom.phase # "send"
    <3>1. bus = "rx"
      BY <1>1, <1>2, <1>8
    <3>2. isLastData(msgs[i], msgs[i].cnt_transferred)
      BY <1>1, <1>8, MessageFields DEF isLastData
    <3>3. ~IICCON.ack
      BY <3>1, <3>2 DEF IInv, TransferInv, RxInv
    <3> QED BY <3>1, <3>3 DEF IInv, TransferInv, RxInv
  <2> QED BY <2>2, <2>3
<1> QED BY <1>6, <1>7, <1>8

\* The handler, whichever branch it takes.
LEMMA HandlerIInv ==
  ASSUME IInv, i2c_interrupt_func, ReadsNonEmpty
  PROVE  /\ IInv'
         /\ bus' = "idle" => eeprom.phase # "send"
<1>1. IICCON.pend /\ p_cur_msg = i /\ UNCHANGED <<mainVars, p_cur_msg, nack>>
  BY HandlerEntry DEF i2c_interrupt_func
<1>2. \/ IsrNoAck(msgs[i], msgs[i].cnt_transferred + 1)
      \/ IsrTx(msgs[i], msgs[i].cnt_transferred + 1)
      \/ IsrRx(msgs[i], msgs[i].cnt_transferred + 1)
  BY <1>1 DEF i2c_interrupt_func
<1> QED BY <1>1, <1>2, NoAckIInv, TxIInv, RxIInv

(***************************************************************************)
(* The bus.                                                                *)
(***************************************************************************)
\* A byte went over the wire: the interrupt is pending, the handler's data
\* are untouched, and the EEPROM is in the phase the handler expects.
LEMMA ByteIInv ==
  ASSUME IInv, ByteShifted, ReadsNonEmpty
  PROVE  IInv' /\ bus' = bus
<1> USE DEF IInv
<1>0. /\ UNCHANGED <<mainVars, msgs, p_cur_msg, bus>>
      /\ IICCON' = [IICCON EXCEPT !.pend = TRUE]
  BY DEF ByteShifted
<1>1. /\ IICCON' \in [ack : BOOLEAN, pend : BOOLEAN]
      /\ IICCON'.ack = IICCON.ack
  BY <1>0 DEF TypeOK
<1>2. /\ eeprom.mem \in [Byte -> Byte] /\ eeprom.ptr \in Byte
      /\ (eeprom.ptr + 1) % M \in Byte
  <2>1. eeprom.mem \in [Byte -> Byte] /\ eeprom.ptr \in Byte
    BY DEF TypeOK
  <2>2. \A p \in Byte : (p + 1) % M \in Byte
    BY MAssumption DEF Byte
  <2> QED BY <2>1, <2>2
<1> DEFINE EepromType ==
             [mem : [Byte -> Byte], ptr : Byte,
              phase : {"off", "pointer", "store", "send", "released"}]
<1>3. ASSUME nack' \in BOOLEAN, eeprom' \in EepromType,
             IICDS' \in Byte \cup {SLA_W, SLA_R}
      PROVE  TypeOK'
  BY <1>0, <1>1, <1>3 DEF TypeOK, mainVars
<1>4. CASE \E acked \in BOOLEAN : AddressByte(acked)
  <2> PICK acked \in BOOLEAN : AddressByte(acked)
    BY <1>4
  <2>1. /\ bus = "addr" /\ nack' = ~acked /\ UNCHANGED IICDS
        /\ eeprom' = [eeprom EXCEPT !.phase =
             IF ~acked THEN "off"
             ELSE IF IICDS = SLA_W THEN "pointer" ELSE "send"]
    BY DEF AddressByte
  <2>2. /\ eeprom' \in EepromType
        /\ eeprom'.phase = IF ~acked THEN "off"
                           ELSE IF IICDS = SLA_W THEN "pointer" ELSE "send"
    BY <2>1 DEF TypeOK
  <2>3. TypeOK'
    BY <1>3, <2>1, <2>2 DEF TypeOK
  <2>4. /\ pc = "wait" /\ i <= Len(msgs) /\ p_cur_msg = i
        /\ msgs[i].cnt_transferred = -1 /\ msgs[i].err = 0
        /\ IICDS = IF msgs[i].flags = 0 THEN SLA_W ELSE SLA_R
    BY <2>1 DEF TransferInv, BusInv, AddrInv
  <2>5. eeprom'.phase = IF nack' THEN "off"
                        ELSE IF msgs[i].flags = 0 THEN "pointer" ELSE "send"
    <3>1. SLA_W # SLA_R
      BY DEF SLA_W, SLA_R
    <3>2. IICDS = SLA_W <=> msgs[i].flags = 0
      BY <2>4, <3>1
    <3>3. CASE acked = TRUE
      BY <2>1, <2>2, <3>2, <3>3
    <3>4. CASE acked = FALSE
      BY <2>1, <2>2, <3>4
    <3> QED BY <3>3, <3>4
  <2>6. AddrInv'
    BY <1>0, <2>1, <2>4, <2>5 DEF AddrInv, mainVars
  <2>7. BusInv' /\ TxInv' /\ RxInv'
    BY <1>0, <2>1, <2>4 DEF BusInv, TxInv, RxInv, mainVars
  <2> QED BY <1>0, <2>3, <2>6, <2>7 DEF TransferInv, mainVars
<1>5. CASE DataByteOut
  <2>1. /\ bus = "tx" /\ nack' = FALSE /\ UNCHANGED IICDS
        /\ pc = "wait" /\ i <= Len(msgs) /\ p_cur_msg = i
        /\ IICDS \in Byte
    BY <1>5 DEF DataByteOut, TransferInv, BusInv, TxInv
  <2>2. eeprom' \in EepromType /\ eeprom'.phase # "send"
    <3>1. CASE eeprom.phase = "pointer"
      BY <1>5, <2>1, <3>1 DEF DataByteOut, TypeOK
    <3>2. CASE eeprom.phase # "pointer"
      <4> DEFINE mm == [eeprom.mem EXCEPT ![eeprom.ptr] = IICDS]
      <4>1. mm \in [Byte -> Byte]
        BY <1>2, <2>1
      <4>2. eeprom' = [eeprom EXCEPT !.mem = mm, !.ptr = (eeprom.ptr + 1) % M]
        BY <1>5, <3>2 DEF DataByteOut
      <4>3. eeprom.phase # "send"
        BY <2>1 DEF TransferInv, TxInv
      <4> HIDE DEF mm
      <4> QED BY <1>2, <4>1, <4>2, <4>3 DEF TypeOK
    <3> QED BY <3>1, <3>2
  <2>3. TypeOK'
    BY <1>3, <2>1, <2>2 DEF TypeOK
  <2>4. TxInv'
    BY <1>0, <2>1, <2>2 DEF TransferInv, TxInv, mainVars
  <2>5. BusInv' /\ AddrInv' /\ RxInv'
    BY <1>0, <2>1 DEF BusInv, AddrInv, RxInv, mainVars
  <2> QED BY <1>0, <2>3, <2>4, <2>5 DEF TransferInv, mainVars
<1>6. CASE DataByteIn
  <2>1. /\ bus = "rx" /\ UNCHANGED nack
        /\ pc = "wait" /\ i <= Len(msgs) /\ p_cur_msg = i
        /\ IICDS' = eeprom.mem[eeprom.ptr]
    BY <1>6 DEF DataByteIn, TransferInv, BusInv
  <2>2. IICDS' \in Byte
    BY <1>2, <2>1
  <2>3. /\ eeprom' \in EepromType
        /\ eeprom'.phase = IF IICCON.ack THEN "send" ELSE "released"
    BY <1>2, <1>6 DEF DataByteIn, TypeOK
  <2>4. TypeOK'
    BY <1>3, <2>1, <2>2, <2>3 DEF TypeOK
  <2>5. RxInv'
    BY <1>0, <1>1, <2>1, <2>2, <2>3 DEF TransferInv, RxInv, mainVars
  <2>6. BusInv' /\ AddrInv' /\ TxInv'
    BY <1>0, <2>1 DEF BusInv, AddrInv, TxInv, mainVars
  <2> QED BY <1>0, <2>4, <2>5, <2>6 DEF TransferInv, mainVars
<1> QED BY <1>0, <1>4, <1>5, <1>6 DEF ByteShifted

(***************************************************************************)
(* The theorems.                                                           *)
(***************************************************************************)
\* main's steps leave a busy bus alone.
LEMMA MainBus ==
  ASSUME IInv, ReadsNonEmpty, Menu \/ Main, bus # "idle"
  PROVE  bus' # "idle"
BY DEF IInv, TransferInv, BusInv, Menu, Main, do_write_at24cxx, do_read_at24cxx,
       at24cxx_write, s3c2440_master_xfer, WaitEnds

\* Every step keeps the invariant, and no step ends a transfer while the
\* EEPROM is about to send another byte.
LEMMA NextIInv ==
  ASSUME IInv, [Next]_vars, ReadsNonEmpty
  PROVE  /\ IInv'
         /\ bus # "idle" /\ bus' = "idle" => eeprom.phase # "send"
<1>1. CASE Menu
  BY <1>1, MenuIInv, MainBus
<1>2. CASE Main
  BY <1>2, WriteIInv, XferIInv, WaitIInv, MainBus DEF Main
<1>3. CASE i2c_interrupt_func
  BY <1>3, HandlerIInv
<1>4. CASE ByteShifted
  BY <1>4, ByteIInv
<1>5. CASE UNCHANGED vars
  <2>1. TypeOK'
    BY <1>5 DEF IInv, TypeOK, vars, mainVars
  <2>2. TransferInv'
    BY <1>5 DEF IInv, TransferInv, BusInv, AddrInv, TxInv, RxInv, isLastData,
                vars, mainVars
  <2> QED BY <1>5, <2>1, <2>2 DEF IInv, vars
<1> QED BY <1>1, <1>2, <1>3, <1>4, <1>5 DEF Next

\* The invariant of the whole program: the types, and the agreement of main,
\* handler, controller and EEPROM on the state of the transfer.
THEOREM TransferInvariant == ReadsNonEmpty /\ Spec => [](TypeOK /\ TransferInv)
<1>1. ReadsNonEmpty /\ IInv /\ [Next]_vars => IInv'
  BY NextIInv
<1>2. IInv <=> TypeOK /\ TransferInv
  BY DEF IInv
<1>3. SUFFICES ASSUME ReadsNonEmpty PROVE Spec => [](TypeOK /\ TransferInv)
  OBVIOUS
<1>4. IInv /\ [Next]_vars => IInv'
  BY <1>1, <1>3
<1> QED BY <1>2, <1>4, InitIInv, PTL DEF Spec

\* do_master_tx and do_master_rx return only when nothing of the transfer is
\* left for the handler to do.
THEOREM WaitIsLongEnough == ReadsNonEmpty /\ Spec => []WaitCoversTransfer
<1>1. TypeOK /\ TransferInv => WaitCoversTransfer
  BY DEF TransferInv, BusInv, WaitCoversTransfer
<1> QED BY <1>1, TransferInvariant, PTL

\* The handler never sends STOP to an EEPROM it has just acknowledged.
THEOREM StopIsSeen == ReadsNonEmpty /\ Spec => SlaveReleasedAtStop
<1>1. SUFFICES ASSUME ReadsNonEmpty PROVE Spec => SlaveReleasedAtStop
  OBVIOUS
<1>2. IInv /\ [Next]_vars =>
        [bus # "idle" /\ bus' = "idle" => eeprom.phase # "send"]_vars
  BY <1>1, NextIInv
<1>3. Spec => []IInv
  <2>1. IInv /\ [Next]_vars => IInv'
    BY <1>1, NextIInv
  <2> QED BY <2>1, InitIInv, PTL DEF Spec
<1> QED BY <1>2, <1>3, PTL DEF Spec, SlaveReleasedAtStop

(***************************************************************************)
(* The safety half of CallReturns.                                         *)
(***************************************************************************)
\* The busy wait ends exactly when the bus is idle: as long as main spins a byte
\* is on the wire or its interrupt is pending, and once the handler has sent
\* STOP, for whatever reason, the count or the error lets main go (lines 56-58,
\* 75, 92-94, 137, 187, 217).
WaitEndsWithBus == pc = "wait" => (bus = "idle" <=> TransferOver(msgs[i]))

\* A handler that sends STOP leaves a message that is over.
LEMMA StopMeansOver ==
  ASSUME IInv, ReadsNonEmpty, i2c_interrupt_func, bus' = "idle"
  PROVE  TransferOver(msgs'[i])
<1> DEFINE m == msgs[i]
           c == msgs[i].cnt_transferred + 1
<1>1. /\ p_cur_msg = i /\ i \in 1 .. Len(msgs) /\ m \in Messages
      /\ m.len \in Nat \ {0} /\ c \in 0 .. m.len
  BY HandlerEntry DEF i2c_interrupt_func
<1>2. IsrNoAck(m, c) \/ IsrTx(m, c) \/ IsrRx(m, c)
  BY <1>1 DEF i2c_interrupt_func
<1>3. \/ msgs' = [msgs EXCEPT ![i] = Failed(m, c)]
      \/ c >= m.len /\ msgs' = [msgs EXCEPT ![i] = Counted(m, c)]
  BY <1>1, <1>2 DEF IsrNoAck, IsrTx, IsrRx, ResumeRx
<1>4. /\ Failed(m, c) \in Messages /\ Failed(m, c).err = -1
      /\ Counted(m, c) \in Messages
      /\ Counted(m, c).cnt_transferred = c /\ Counted(m, c).len = m.len
  <2>1. c \in -1 .. m.len
    BY <1>1
  <2> QED BY <1>1, <2>1, FailedType, CountedType
<1> HIDE DEF m, c
<1>5. CASE msgs' = [msgs EXCEPT ![i] = Failed(m, c)]
  <2>1. msgs'[i] = Failed(m, c)
    BY <1>1, <1>4, <1>5, MsgsUpdate DEF IInv
  <2> QED BY <1>4, <2>1 DEF TransferOver
<1>6. CASE c >= m.len /\ msgs' = [msgs EXCEPT ![i] = Counted(m, c)]
  <2>1. msgs'[i] = Counted(m, c)
    BY <1>1, <1>4, <1>6, MsgsUpdate DEF IInv
  <2> QED BY <1>1, <1>4, <1>6, <2>1 DEF TransferOver
<1> QED BY <1>3, <1>5, <1>6

\* Every step ends the wait together with the transfer.
LEMMA WaitStep ==
  ASSUME IInv, ReadsNonEmpty, WaitEndsWithBus, [Next]_vars
  PROVE  pc' = "wait" /\ bus' = "idle" => TransferOver(msgs'[i'])
<1> SUFFICES ASSUME pc' = "wait", bus' = "idle" PROVE TransferOver(msgs'[i'])
  OBVIOUS
<1>1. CASE Menu \/ Main
  BY <1>1 DEF Menu, Main, do_write_at24cxx, do_read_at24cxx, at24cxx_write,
     s3c2440_master_xfer, do_master_tx, do_master_rx, StartMessage, WaitEnds,
     XferReturn
<1>2. CASE i2c_interrupt_func
  BY <1>2, StopMeansOver DEF i2c_interrupt_func, mainVars
<1>3. CASE ByteShifted
  BY <1>3 DEF ByteShifted, mainVars, AddressByte, DataByteOut, DataByteIn
<1>4. CASE UNCHANGED vars
  BY <1>4 DEF vars, mainVars, WaitEndsWithBus
<1> QED BY <1>1, <1>2, <1>3, <1>4 DEF Next

\* While a byte is on its way the message is not over.
LEMMA BusyNotOver ==
  ASSUME IInv, ReadsNonEmpty, pc = "wait", bus # "idle"
  PROVE  ~TransferOver(msgs[i])
<1>1. i \in 1 .. Len(msgs) /\ bus \in {"addr", "tx", "rx"}
  BY DEF IInv, TypeOK, TransferInv, BusInv
<1>2. msgs[i] \in Messages
  BY <1>1, ElementOfSeq DEF IInv, TypeOK
<1>3. msgs[i].len \in Nat
  BY <1>2, MessageFields
<1> QED
  BY <1>1, <1>3 DEF IInv, TransferInv, AddrInv, TxInv, RxInv, TransferOver

\* main never spins on a transfer that is over, nor on one that nothing moves
\* forward, also when the EEPROM does not answer, for messages of any length.
THEOREM WaitEndsInTime == ReadsNonEmpty /\ Spec => []WaitEndsWithBus
<1> SUFFICES ASSUME ReadsNonEmpty PROVE Spec => []WaitEndsWithBus
  OBVIOUS
<1> DEFINE I == IInv /\ WaitEndsWithBus
<1>1. Init => I
  BY InitIInv DEF Init, WaitEndsWithBus
<1>2. I /\ [Next]_vars => I'
  <2> SUFFICES ASSUME I, [Next]_vars PROVE I'
    OBVIOUS
  <2>1. IInv'
    BY NextIInv
  <2>2. (pc = "wait" /\ bus # "idle" => ~TransferOver(msgs[i]))'
    BY <2>1, BusyNotOver, PTL
  <2> QED BY <2>1, <2>2, WaitStep DEF WaitEndsWithBus, TransferOver
<1>3. I => WaitEndsWithBus
  OBVIOUS
<1> QED BY <1>1, <1>2, <1>3, PTL DEF Spec

(***************************************************************************)
(* The data.  What the EEPROM and the caller's buffer hold follows from    *)
(* the bytes on the wire: each is the one the message says, at the place   *)
(* the EEPROM's pointer says.                                              *)
(***************************************************************************)
Busy == pc \in {"master_xfer", "wait"}

CallInv ==
  /\ pc # "menu" => call.fn # "none"
  /\ call.fn = "at24cxx_read" => call.len \in ReadLens

\* While at24cxx_write is in a transfer, its message is the one for byte n - 1.
WriteMsg ==
  call.fn = "at24cxx_write" /\ Busy =>
    /\ Len(msgs) = 1 /\ n \in 1 .. call.len
    /\ msgs[1].flags = 0 /\ msgs[1].len = 2
    /\ msgs[1].buf[0] = (call.addr + n - 1) % M
    /\ msgs[1].buf[1] = call.data[n]

\* A buffer of len bytes after the handler counted cnt of them.
Received(buf, mem, addr, len, cnt) ==
  \A k \in 0 .. len - 1 :
    buf[k] = IF k < cnt /\ k < len - 1 THEN mem[(addr + k) % M] ELSE Junk

\* The messages of at24cxx_read, the second one with the bytes read so far.
ReadMsgs ==
  call.fn = "at24cxx_read" =>
    /\ Len(msgs) = 2
    /\ msgs[1].flags = 0 /\ msgs[1].len = 1
    /\ msgs[1].buf[0] = call.addr % M
    /\ msgs[2].flags = 1 /\ msgs[2].len = call.len
    /\ Received(msgs[2].buf, mem0, call.addr, call.len, msgs[2].cnt_transferred)
    /\ Busy /\ (i = 1 \/ (pc = "master_xfer" /\ i = 2)) =>
         msgs[2].cnt_transferred = -1
    /\ (pc = "master_xfer" /\ i = 3) \/ (pc = "menu" /\ ret = 0) =>
         msgs[2].cnt_transferred = call.len

\* The first byte of a message sets the pointer, the second is stored there.
TxData ==
  bus = "tx" =>
    /\ IICDS = msgs[i].buf[msgs[i].cnt_transferred]
    /\ msgs[i].cnt_transferred = 0 =>
         IF IICCON.pend THEN eeprom.phase = "store" /\ eeprom.ptr = msgs[i].buf[0]
                        ELSE eeprom.phase = "pointer"
    /\ msgs[i].cnt_transferred = 1 =>
         eeprom.phase = "store" /\ (~IICCON.pend => eeprom.ptr = msgs[i].buf[0])

\* The pointer a read starts from, and how it moves on.
RxData ==
  call.fn = "at24cxx_read" =>
    /\ pc = "master_xfer" /\ i = 2 => eeprom.ptr = call.addr % M
    /\ pc = "wait" /\ i = 1 /\ bus = "idle" /\ msgs[1].err = 0 =>
         eeprom.ptr = call.addr % M
    /\ bus = "addr" /\ i = 2 => eeprom.ptr = call.addr % M
    /\ bus = "rx" =>
         IF IICCON.pend
         THEN /\ IICDS = mem0[(call.addr + msgs[2].cnt_transferred) % M]
              /\ eeprom.ptr = (call.addr + msgs[2].cnt_transferred + 1) % M
         ELSE eeprom.ptr = (call.addr + msgs[2].cnt_transferred) % M

\* The first m bytes of the string are in their cells, unless a later one of
\* them went to the same cell.
Stored(mem, addr, data, m) ==
  \A k \in 0 .. m - 1 : k + M >= m => mem[(addr + k) % M] = data[k + 1]

\* The byte of the current message has reached its cell.
ByteStored ==
  \/ pc = "master_xfer" /\ i = 2
  \/ pc = "wait" /\ bus = "tx" /\ IICCON.pend /\ msgs[i].cnt_transferred = 1
  \/ pc = "wait" /\ bus = "idle" /\ msgs[i].err = 0

\* How much of the string is in the EEPROM.
WritePrefix ==
  call.fn = "at24cxx_write" =>
    /\ pc = "at24cxx_write" => Stored(eeprom.mem, call.addr, call.data, n)
    /\ pc = "menu" /\ ret = 0 =>
         Stored(eeprom.mem, call.addr, call.data, call.len)
    /\ Busy /\ ByteStored => Stored(eeprom.mem, call.addr, call.data, n)
    /\ Busy /\ ~ByteStored => Stored(eeprom.mem, call.addr, call.data, n - 1)

DataInv ==
  /\ CallInv /\ WriteMsg /\ ReadMsgs /\ TxData /\ RxData /\ WritePrefix
  /\ WriteConfined

\* The byte a read message receives goes to its place and no other.
LEMMA FilledBuf ==
  ASSUME NEW m \in Messages, m.flags = 1, NEW c \in 1 .. m.len, NEW b
  PROVE  \A k \in 0 .. m.len - 1 :
           Filled(m, c, b).buf[k] = IF k = c - 1 THEN b ELSE m.buf[k]
<1>1. /\ m \in MessagesOf(1, m.len, Byte \cup {Junk})
      /\ m.buf \in [0 .. m.len - 1 -> Byte \cup {Junk}]
  <2>1. 1 # 0
    OBVIOUS
  <2> QED BY <2>1, MessageFields
<1> DEFINE d == [m.buf EXCEPT ![c - 1] = b]
<1>2. \A k \in 0 .. m.len - 1 : d[k] = IF k = c - 1 THEN b ELSE m.buf[k]
  BY <1>1
<1> HIDE DEF d
<1>3. [m EXCEPT !.cnt_transferred = c, !.buf = d].buf = d
  BY <1>1 DEF MessagesOf
<1>4. Filled(m, c, b).buf = d
  BY <1>3 DEF Filled, d
<1> QED BY <1>2, <1>4

\* Quotient and remainder by M.
LEMMA DivMod ==
  ASSUME NEW x \in Int
  PROVE  /\ x \div M \in Int
         /\ x % M \in Int
         /\ x = M * (x \div M) + (x % M)
         /\ 0 <= x % M /\ x % M < M
BY MAssumption

\* The only multiple of M between -M and M is 0.
LEMMA SmallMultiple ==
  ASSUME NEW q \in Int, M * q < M, -M < M * q
  PROVE  q = 0
<1>0. M \in Nat \ {0}
  BY MAssumption
<1>1. CASE q >= 1
  <2>1. M * (q - 1) >= 0
    BY <1>0, <1>1
  <2> QED BY <1>0, <2>1
<1>2. CASE q <= -1
  <2>1. M * (q + 1) <= 0
    BY <1>0, <1>2
  <2> QED BY <1>0, <2>1
<1> QED BY <1>1, <1>2

\* Addresses less than M apart are different cells.
LEMMA CellsDiffer ==
  ASSUME NEW a \in Nat, NEW b \in Nat, a < b, b < a + M
  PROVE  a % M # b % M
<1> DEFINE d == a \div M
           e == b \div M
           r == a % M
           t == b % M
<1>1. d \in Int /\ r \in Int /\ a = M * d + r
  BY DivMod
<1>2. e \in Int /\ t \in Int /\ b = M * e + t
  BY DivMod
<1> HIDE DEF d, e, r, t
<1> SUFFICES ASSUME r = t PROVE FALSE
  BY DEF r, t
<1>3. b - a = M * (e - d)
  BY <1>1, <1>2, MAssumption
<1>4. M * (e - d) < M /\ -M < M * (e - d)
  BY <1>3, MAssumption
<1>5. e - d = 0
  BY <1>1, <1>2, <1>4, SmallMultiple
<1>6. M * (e - d) = 0
  BY <1>5, MAssumption
<1> QED BY <1>3, <1>6

\* The pointer moves on to the cell of the next address.
LEMMA NextCell ==
  ASSUME NEW a \in Nat
  PROVE  /\ a % M \in Byte
         /\ ((a % M) + 1) % M = (a + 1) % M
<1> DEFINE d == a \div M
           r == a % M
           e == (a + 1) \div M
           t == (a + 1) % M
           f == (r + 1) \div M
           u == (r + 1) % M
<1>1. d \in Int /\ r \in Int /\ a = M * d + r /\ 0 <= r /\ r < M
  BY DivMod
<1>2. e \in Int /\ t \in Int /\ a + 1 = M * e + t /\ 0 <= t /\ t < M
  BY DivMod
<1>3. f \in Int /\ u \in Int /\ r + 1 = M * f + u /\ 0 <= u /\ u < M
  <2>1. r + 1 \in Int
    BY <1>1
  <2> HIDE DEF r
  <2> QED BY <2>1, DivMod
<1> HIDE DEF d, e, f, r, t, u
<1>4. u - t = M * (e - d - f)
  BY <1>1, <1>2, <1>3, MAssumption
<1>5. e - d - f = 0
  BY <1>1, <1>2, <1>3, <1>4, SmallMultiple, MAssumption
<1>6. u = t
  BY <1>1, <1>2, <1>3, <1>4, <1>5, MAssumption
<1>7. r \in Byte
  BY <1>1, MAssumption DEF Byte
<1> QED BY <1>6, <1>7 DEF r, t, u

\* A step that stores nothing in the EEPROM and takes no byte back.
LEMMA ConfinedKept ==
  ASSUME IInv, IInv', WriteConfined, UNCHANGED <<call, mem0>>,
         eeprom'.mem = eeprom.mem, n <= n'
  PROVE  WriteConfined'
<1>1. n \in Nat /\ n' \in Nat
  BY DEF IInv, TypeOK, Call
<1>2. SUFFICES ASSUME NEW a \in Byte, eeprom.mem[a] # mem0[a]
               PROVE  /\ call.fn = "at24cxx_write"
                      /\ \E k \in 0 .. n' - 1 :
                           /\ (call.addr + k) % M = a
                           /\ eeprom.mem[a] = call.data[k + 1]
  BY DEF WriteConfined
<1>3. /\ call.fn = "at24cxx_write"
      /\ \E k \in 0 .. n - 1 :
           /\ (call.addr + k) % M = a
           /\ eeprom.mem[a] = call.data[k + 1]
  BY <1>2 DEF WriteConfined
<1>4. \A k \in 0 .. n - 1 : k \in 0 .. n' - 1
  BY <1>1
<1> QED BY <1>3, <1>4

\* Nothing is written before the first call.
LEMMA InitData == Init => DataInv
<1> SUFFICES ASSUME Init PROVE DataInv
  OBVIOUS
<1>1. CallInv /\ WriteMsg /\ ReadMsgs /\ TxData /\ RxData /\ WritePrefix
  BY DEF Init, CallInv, WriteMsg, ReadMsgs, TxData, RxData, WritePrefix, Busy
<1>2. WriteConfined
  BY DEF Init, WriteConfined
<1> QED BY <1>1, <1>2 DEF DataInv

\* A call starts from the EEPROM as it is.
LEMMA MenuData ==
  ASSUME IInv, DataInv, Menu
  PROVE  DataInv'
<1>0. bus = "idle"
  BY DEF Menu, do_write_at24cxx, do_read_at24cxx, IInv, TransferInv, BusInv
<1>1. ASSUME NEW addr \in 0 .. M, NEW len \in WriteLens,
             NEW data \in Strings(len), do_write_at24cxx(addr, data)
      PROVE  DataInv'
  <2>1. /\ pc' = "at24cxx_write" /\ call'.fn = "at24cxx_write" /\ n' = 0
        /\ mem0' = eeprom.mem /\ UNCHANGED <<eeprom, bus>>
    BY <1>1 DEF do_write_at24cxx
  <2>2. Stored(eeprom'.mem, call'.addr, call'.data, n')
    BY <2>1 DEF Stored
  <2>3. CallInv' /\ WriteMsg' /\ ReadMsgs' /\ TxData' /\ RxData'
    BY <1>0, <2>1 DEF CallInv, WriteMsg, ReadMsgs, TxData, RxData, Busy
  <2>4. WritePrefix'
    BY <2>1, <2>2 DEF WritePrefix, Busy
  <2>5. WriteConfined'
    BY <2>1 DEF WriteConfined
  <2> QED BY <2>3, <2>4, <2>5 DEF DataInv
<1>2. ASSUME NEW addr \in 0 .. M, NEW len \in ReadLens,
             do_read_at24cxx(addr, len)
      PROVE  DataInv'
  <2>1. /\ pc' = "master_xfer" /\ call'.fn = "at24cxx_read"
        /\ call'.addr = addr /\ call'.len = len /\ i' = 1
        /\ mem0' = eeprom.mem /\ UNCHANGED <<eeprom, bus>>
        /\ msgs' = << PointerMessage(addr), DataMessage(len) >>
    BY <1>2 DEF do_read_at24cxx
  <2>2. /\ PointerMessage(addr).flags = 0 /\ PointerMessage(addr).len = 1
        /\ PointerMessage(addr).buf[0] = addr % M
    BY DEF PointerMessage, Message
  <2>3. /\ DataMessage(len).flags = 1 /\ DataMessage(len).len = len
        /\ DataMessage(len).cnt_transferred = -1
        /\ \A k \in 0 .. len - 1 : DataMessage(len).buf[k] = Junk
    BY DEF DataMessage, Message
  <2>4. /\ Len(msgs') = 2 /\ msgs'[1] = PointerMessage(addr)
        /\ msgs'[2] = DataMessage(len)
    BY <2>1
  <2>5. Received(msgs'[2].buf, mem0', call'.addr, call'.len,
                 msgs'[2].cnt_transferred)
    BY <2>1, <2>3, <2>4 DEF Received
  <2>6. CallInv' /\ WriteMsg' /\ TxData' /\ RxData' /\ WritePrefix'
    BY <1>0, <2>1 DEF CallInv, WriteMsg, TxData, RxData, WritePrefix
  <2>7. ReadMsgs'
    BY <2>1, <2>2, <2>3, <2>4, <2>5 DEF ReadMsgs
  <2>8. WriteConfined'
    BY <2>1 DEF WriteConfined
  <2> QED BY <2>6, <2>7, <2>8 DEF DataInv
<1> QED BY <1>1, <1>2 DEF Menu

\* at24cxx_write builds the message of the next byte, or returns.
LEMMA WriteData ==
  ASSUME IInv, IInv', DataInv, at24cxx_write
  PROVE  DataInv'
<1>0. /\ bus = "idle" /\ call.fn = "at24cxx_write"
      /\ Stored(eeprom.mem, call.addr, call.data, n)
  BY DEF at24cxx_write, IInv, TransferInv, BusInv, DataInv, WritePrefix
<1>1. call.addr \in Nat /\ n \in Nat /\ call.len \in Nat /\ n <= call.len
  BY MAssumption DEF IInv, TypeOK, Call
<1>2. CASE n < call.len
  <2>1. /\ msgs' = << WriteMessage(call.addr + n, call.data[n + 1]) >>
        /\ n' = n + 1 /\ i' = 1 /\ pc' = "master_xfer"
        /\ UNCHANGED <<call, bus, eeprom, mem0>>
    BY <1>1, <1>2 DEF at24cxx_write
  <2> DEFINE w == WriteMessage(call.addr + n, call.data[n + 1])
  <2>2. /\ w.flags = 0 /\ w.len = 2 /\ w.buf[0] = (call.addr + n) % M
        /\ w.buf[1] = call.data[n + 1]
    BY DEF WriteMessage, Message
  <2>3. Len(msgs') = 1 /\ msgs'[1] = w
    BY <2>1
  <2> HIDE DEF w
  <2>4. call'.addr + n' - 1 = call.addr + n /\ n' - 1 = n
    BY <1>1, <2>1
  <2>5. n' \in 1 .. call'.len
    BY <1>1, <1>2, <2>1
  <2>6. WriteMsg'
    BY <2>1, <2>2, <2>3, <2>4, <2>5 DEF WriteMsg
  <2>7. CallInv' /\ ReadMsgs' /\ TxData' /\ RxData'
    BY <1>0, <2>1 DEF CallInv, ReadMsgs, TxData, RxData
  <2>8. WritePrefix'
    <3>1. ~ByteStored'
      BY <2>1 DEF ByteStored
    <3>2. Stored(eeprom'.mem, call'.addr, call'.data, n' - 1)
      BY <1>0, <2>1, <2>4
    <3> QED BY <2>1, <3>1, <3>2 DEF WritePrefix
  <2>9. WriteConfined'
    BY <1>1, <2>1, ConfinedKept DEF DataInv
  <2> QED BY <2>6, <2>7, <2>8, <2>9 DEF DataInv
<1>3. CASE ~(n < call.len)
  <2>1. /\ pc' = "menu" /\ n = call.len
        /\ UNCHANGED <<n, call, bus, eeprom, mem0>>
    BY <1>1, <1>3 DEF at24cxx_write
  <2>2. CallInv' /\ WriteMsg' /\ ReadMsgs' /\ TxData' /\ RxData'
    BY <1>0, <2>1 DEF CallInv, WriteMsg, ReadMsgs, TxData, RxData, Busy
  <2>3. WritePrefix'
    BY <1>0, <2>1 DEF WritePrefix, Busy
  <2>4. WriteConfined'
    BY <1>1, <2>1, ConfinedKept DEF DataInv
  <2> QED BY <2>2, <2>3, <2>4 DEF DataInv
<1> QED BY <1>2, <1>3

\* Which message a transfer works on.
LEMMA MessageAt ==
  ASSUME IInv, DataInv, Busy
  PROVE  /\ call.fn \in {"at24cxx_write", "at24cxx_read"}
         /\ call.fn = "at24cxx_write" =>
              /\ Len(msgs) = 1 /\ i \in {1, 2}
              /\ i \in 1 .. Len(msgs) => i = 1
         /\ call.fn = "at24cxx_read" =>
              /\ Len(msgs) = 2 /\ i \in {1, 2, 3}
              /\ i \in 1 .. Len(msgs) => i \in {1, 2}
<1>1. call.fn \in {"at24cxx_write", "at24cxx_read"}
  BY DEF IInv, TypeOK, Call, DataInv, CallInv, Busy
<1>2. i \in 1 .. Len(msgs) + 1
  BY DEF IInv, TypeOK
<1>3. ASSUME call.fn = "at24cxx_write"
      PROVE  /\ Len(msgs) = 1 /\ i \in {1, 2}
             /\ i \in 1 .. Len(msgs) => i = 1
  <2>1. Len(msgs) = 1
    BY <1>3 DEF DataInv, WriteMsg
  <2> QED BY <1>2, <2>1
<1>4. ASSUME call.fn = "at24cxx_read"
      PROVE  /\ Len(msgs) = 2 /\ i \in {1, 2, 3}
             /\ i \in 1 .. Len(msgs) => i \in {1, 2}
  <2>1. Len(msgs) = 2
    BY <1>4 DEF DataInv, ReadMsgs
  <2> QED BY <1>2, <2>1
<1> QED BY <1>1, <1>3, <1>4

\* A step of a transfer that changes only the current message, which keeps its
\* contents or, in a read, receives what the EEPROM holds.
LEMMA MessageKept ==
  ASSUME IInv, IInv', DataInv, Busy, pc' = "wait", i \in 1 .. Len(msgs),
         UNCHANGED <<call, n, i, mem0>>, eeprom'.mem = eeprom.mem,
         NEW x \in Messages, msgs' = [msgs EXCEPT ![i] = x],
         x.flags = msgs[i].flags, x.len = msgs[i].len,
         x.flags = 0 => x.buf = msgs[i].buf,
         x.flags = 1 => Received(x.buf, mem0, call.addr, call.len,
                                 x.cnt_transferred)
  PROVE  CallInv' /\ WriteMsg' /\ ReadMsgs' /\ WriteConfined'
<1>1. /\ Len(msgs') = Len(msgs)
      /\ msgs'[i] = x
      /\ \A j \in 1 .. Len(msgs) : j # i => msgs'[j] = msgs[j]
  BY MsgsUpdate DEF IInv
<1>2. Busy' /\ pc # "menu" /\ n <= n'
  <2>1. n \in Nat
    BY DEF IInv, TypeOK, Call
  <2> QED BY <2>1 DEF Busy
<1>3. CallInv' /\ WriteConfined'
  BY <1>2, ConfinedKept DEF DataInv, CallInv
<1>4. CASE call.fn = "at24cxx_write"
  <2>1. Len(msgs) = 1 /\ i = 1
    BY <1>4, MessageAt
  <2>2. WriteMsg'
    BY <1>1, <1>2, <1>4, <2>1 DEF DataInv, WriteMsg
  <2> QED BY <1>3, <1>4, <2>2 DEF ReadMsgs
<1>5. CASE call.fn = "at24cxx_read"
  <2>1. Len(msgs) = 2 /\ i \in {1, 2}
    BY <1>5, MessageAt
  <2>2. CASE i = 1
    <3>1. msgs'[1] = x /\ msgs'[2] = msgs[2]
      BY <1>1, <2>1, <2>2
    <3>2. ReadMsgs'
      BY <1>1, <1>5, <2>1, <2>2, <3>1 DEF DataInv, ReadMsgs
    <3> QED BY <1>3, <1>5, <3>2 DEF WriteMsg
  <2>3. CASE i = 2
    <3>1. msgs'[2] = x /\ msgs'[1] = msgs[1]
      BY <1>1, <2>1, <2>3
    <3>2. ReadMsgs'
      BY <1>1, <1>5, <2>1, <2>3, <3>1 DEF DataInv, ReadMsgs
    <3> QED BY <1>3, <1>5, <3>2 DEF WriteMsg
  <2> QED BY <2>1, <2>2, <2>3
<1> QED BY <1>2, <1>4, <1>5, MessageAt

\* Starting a message changes no data; the transfer returns once the last one
\* is through.
LEMMA XferData ==
  ASSUME IInv, IInv', DataInv, s3c2440_master_xfer
  PROVE  DataInv'
<1>0. /\ bus = "idle" /\ ~IICCON.pend /\ pc = "master_xfer" /\ Busy
      /\ Len(msgs) \in 0 .. 2 /\ i \in 1 .. Len(msgs) + 1
      /\ n \in Nat
  BY DEF s3c2440_master_xfer, IInv, TypeOK, Call, TransferInv, BusInv, Busy
<1>1. CASE i <= Len(msgs)
  <2>1. i \in 1 .. Len(msgs) /\ msgs[i] \in Messages
    BY <1>0, <1>1, ElementOfSeq DEF IInv, TypeOK
  <2>2. /\ msgs' = [msgs EXCEPT ![i] = Started(msgs[i])]
        /\ IICCON'.pend = IICCON.pend
        /\ bus' = "addr" /\ pc' = "wait"
        /\ UNCHANGED <<i, call, n, eeprom, mem0>>
    BY <1>0, <1>1 DEF s3c2440_master_xfer, do_master_tx, do_master_rx,
                      StartMessage, IInv, TypeOK
  <2> DEFINE x == Started(msgs[i])
  <2>3. /\ x \in Messages /\ x.cnt_transferred = -1 /\ x.len = msgs[i].len
        /\ x.flags = msgs[i].flags /\ x.err = 0 /\ x.buf = msgs[i].buf
    BY <2>1, StartedType
  <2> HIDE DEF x
  <2>4. x.flags = 1 => Received(x.buf, mem0, call.addr, call.len,
                                x.cnt_transferred)
    <3>1. SUFFICES ASSUME x.flags = 1
                   PROVE  Received(x.buf, mem0, call.addr, call.len,
                                   x.cnt_transferred)
      OBVIOUS
    <3>2. call.fn = "at24cxx_read" /\ i = 2
      <4>1. msgs[i].flags = 1
        BY <2>3, <3>1
      <4>2. call.fn # "at24cxx_write"
        BY <1>0, <2>1, <4>1, MessageAt DEF DataInv, WriteMsg
      <4>3. call.fn = "at24cxx_read" /\ i \in {1, 2}
        BY <1>0, <2>1, <4>2, MessageAt
      <4>4. msgs[1].flags = 0
        BY <4>3 DEF DataInv, ReadMsgs
      <4> QED BY <4>1, <4>3, <4>4
    <3>3. /\ msgs[2].cnt_transferred = -1
          /\ Received(msgs[2].buf, mem0, call.addr, call.len,
                      msgs[2].cnt_transferred)
      BY <1>0, <3>2 DEF DataInv, ReadMsgs
    <3> QED BY <2>3, <3>2, <3>3
  <2>5. CallInv' /\ WriteMsg' /\ ReadMsgs' /\ WriteConfined'
    BY <1>0, <2>1, <2>2, <2>3, <2>4, MessageKept DEF x
  <2>6. TxData'
    BY <2>2 DEF TxData
  <2>7. RxData'
    BY <1>0, <2>2 DEF RxData, DataInv
  <2>8. WritePrefix'
    <3>1. call.fn = "at24cxx_write" => i = 1
      BY <1>0, <2>1, MessageAt
    <3>2. call.fn = "at24cxx_write" => ~ByteStored /\ ~ByteStored'
      BY <1>0, <2>2, <3>1 DEF ByteStored
    <3> QED BY <1>0, <2>2, <3>2 DEF DataInv, WritePrefix, Busy
  <2> QED BY <2>5, <2>6, <2>7, <2>8 DEF DataInv
<1>2. CASE ~(i <= Len(msgs))
  <2>1. /\ XferReturn(0)
        /\ UNCHANGED <<i, msgs, bus, call, n, eeprom, mem0>>
        /\ i = Len(msgs) + 1
    BY <1>0, <1>2 DEF s3c2440_master_xfer
  <2>2. WriteConfined'
    BY <1>0, <2>1, ConfinedKept DEF DataInv
  <2>3. TxData'
    BY <1>0, <2>1 DEF TxData
  <2>4. CASE call.fn = "at24cxx_write"
    <3>1. pc' = "at24cxx_write" /\ i = 2
      BY <1>0, <2>1, <2>4, MessageAt DEF XferReturn
    <3>2. Stored(eeprom.mem, call.addr, call.data, n)
      BY <1>0, <2>4, <3>1 DEF DataInv, WritePrefix, ByteStored
    <3>3. CallInv' /\ WriteMsg' /\ ReadMsgs' /\ RxData'
      BY <2>1, <2>4, <3>1 DEF CallInv, WriteMsg, ReadMsgs, RxData, Busy
    <3>4. WritePrefix'
      BY <2>1, <3>1, <3>2 DEF WritePrefix, Busy
    <3> QED BY <2>2, <2>3, <3>3, <3>4 DEF DataInv
  <2>5. CASE call.fn = "at24cxx_read"
    <3>1. pc' = "menu" /\ i = 3
      <4>1. Len(msgs) = 2
        BY <1>0, <2>5, MessageAt
      <4>2. pc' = "menu"
        BY <2>1, <2>5 DEF XferReturn
      <4> QED BY <2>1, <4>1, <4>2
    <3>2. CallInv' /\ WriteMsg' /\ WritePrefix' /\ RxData'
      BY <1>0, <2>1, <2>5, <3>1
         DEF DataInv, CallInv, WriteMsg, WritePrefix, RxData
    <3>3. ReadMsgs'
      BY <1>0, <2>1, <2>5, <3>1 DEF DataInv, ReadMsgs, Busy
    <3> QED BY <2>2, <2>3, <3>2, <3>3 DEF DataInv
  <2> QED BY <1>0, <2>4, <2>5, MessageAt
<1> QED BY <1>1, <1>2

\* The wait ends with every byte of the message transferred, or with an error.
LEMMA WaitData ==
  ASSUME IInv, IInv', DataInv, WaitEnds, ReadsNonEmpty
  PROVE  DataInv'
<1>0. /\ pc = "wait" /\ Busy /\ i \in 1 .. Len(msgs) /\ n \in Nat
      /\ UNCHANGED <<call, n, msgs, bus, eeprom, mem0>>
  BY DEF WaitEnds, IInv, TypeOK, Call, TransferInv, BusInv, Busy
<1>1. bus = "idle"
  <2>1. msgs[i] \in Messages
    BY <1>0, ElementOfSeq DEF IInv, TypeOK
  <2>2. msgs[i].len \in Nat \ {0} /\ msgs[i].cnt_transferred \in Int
    BY <2>1, MessageFields, LensAssumption DEF ReadsNonEmpty
  <2>3. bus \in {"idle", "addr", "tx", "rx"}
    BY DEF IInv, TypeOK
  <2>4. bus # "addr" /\ bus # "tx" /\ bus # "rx"
    BY <2>2 DEF IInv, TransferInv, AddrInv, TxInv, RxInv, WaitEnds, TransferOver
  <2> QED BY <2>3, <2>4
<1>2. WriteConfined'
  BY <1>0, ConfinedKept DEF DataInv
<1>3. TxData'
  BY <1>0, <1>1 DEF TxData
<1>4. CASE msgs[i].err # 0
  <2>1. pc' = "menu" /\ ret' = -1
    BY <1>4 DEF WaitEnds, XferReturn
  <2>2. CallInv' /\ WriteMsg' /\ ReadMsgs' /\ RxData' /\ WritePrefix'
    BY <1>0, <1>1, <2>1
       DEF DataInv, CallInv, WriteMsg, ReadMsgs, RxData, WritePrefix, Busy
  <2> QED BY <1>2, <1>3, <2>2 DEF DataInv
<1>5. CASE msgs[i].err = 0
  <2>1. /\ pc' = "master_xfer" /\ i' = i + 1
        /\ msgs[i].cnt_transferred = msgs[i].len
    BY <1>5 DEF WaitEnds, TransferOver
  <2>2. CASE call.fn = "at24cxx_write"
    <3>1. i = 1 /\ i' = 2
      BY <1>0, <2>1, <2>2, MessageAt
    <3>2. Stored(eeprom.mem, call.addr, call.data, n)
      BY <1>0, <1>1, <1>5, <2>2 DEF DataInv, WritePrefix, ByteStored
    <3>3. CallInv' /\ WriteMsg' /\ ReadMsgs' /\ RxData'
      BY <1>0, <2>1, <2>2 DEF DataInv, CallInv, WriteMsg, ReadMsgs, RxData, Busy
    <3>4. ByteStored'
      BY <2>1, <3>1 DEF ByteStored
    <3>5. WritePrefix'
      BY <1>0, <2>1, <3>2, <3>4 DEF WritePrefix
    <3> QED BY <1>2, <1>3, <3>3, <3>5 DEF DataInv
  <2>3. CASE call.fn = "at24cxx_read"
    <3>1. i \in {1, 2} /\ i' \in {2, 3}
      BY <1>0, <2>1, <2>3, MessageAt
    <3>2. CallInv' /\ WriteMsg' /\ WritePrefix'
      BY <1>0, <2>1, <2>3 DEF DataInv, CallInv, WriteMsg, WritePrefix
    <3>3. RxData'
      BY <1>0, <1>1, <1>5, <2>1, <3>1 DEF DataInv, RxData
    <3>4. CASE i = 1
      <4>1. msgs[2].cnt_transferred = -1
        BY <1>0, <2>3, <3>4 DEF DataInv, ReadMsgs
      <4>2. ReadMsgs'
        BY <1>0, <2>1, <2>3, <3>4, <4>1 DEF DataInv, ReadMsgs
      <4> QED BY <1>2, <1>3, <3>2, <3>3, <4>2 DEF DataInv
    <3>5. CASE i = 2
      <4>1. msgs[2].cnt_transferred = call.len
        BY <2>1, <2>3, <3>5 DEF DataInv, ReadMsgs
      <4>2. ReadMsgs'
        BY <1>0, <2>1, <2>3, <3>5, <4>1 DEF DataInv, ReadMsgs
      <4> QED BY <1>2, <1>3, <3>2, <3>3, <4>2 DEF DataInv
    <3> QED BY <3>1, <3>4, <3>5
  <2> QED BY <1>0, <2>2, <2>3, MessageAt
<1> QED BY <1>4, <1>5

\* The message the handler finds: in a read the first one carries the address,
\* the second one the data; a write has one message of two bytes.
LEMMA HandlerMessage ==
  ASSUME IInv, DataInv, pc = "wait"
  PROVE  /\ Busy
         /\ msgs[i].flags = 0 =>
              \/ call.fn = "at24cxx_write" /\ i = 1 /\ msgs[i].len = 2
              \/ call.fn = "at24cxx_read" /\ i = 1 /\ msgs[i].len = 1
         /\ msgs[i].flags = 1 => call.fn = "at24cxx_read" /\ i = 2
<1>1. Busy
  BY DEF Busy
<1>2. i \in 1 .. Len(msgs)
  BY DEF IInv, TypeOK, TransferInv, BusInv
<1>3. CASE call.fn = "at24cxx_write"
  <2>1. i = 1
    BY <1>1, <1>2, <1>3, MessageAt
  <2>2. msgs[1].flags = 0 /\ msgs[1].len = 2
    BY <1>1, <1>3 DEF DataInv, WriteMsg
  <2> QED BY <1>1, <1>3, <2>1, <2>2
<1>4. CASE call.fn = "at24cxx_read"
  <2>1. i \in {1, 2}
    BY <1>1, <1>2, <1>4, MessageAt
  <2>2. msgs[1].flags = 0 /\ msgs[1].len = 1 /\ msgs[2].flags = 1
    BY <1>4 DEF DataInv, ReadMsgs
  <2> QED BY <1>1, <1>4, <2>1, <2>2
<1> QED BY <1>1, <1>3, <1>4, MessageAt

\* No ACK: the data stay as they are.
LEMMA NoAckData ==
  ASSUME IInv, IInv', DataInv, IICCON.pend, ReadsNonEmpty,
         IsrNoAck(msgs[i], msgs[i].cnt_transferred + 1),
         UNCHANGED <<mainVars, p_cur_msg, nack>>
  PROVE  DataInv'
<1>1. /\ pc = "wait" /\ p_cur_msg = i /\ i \in 1 .. Len(msgs)
      /\ msgs[i] \in Messages /\ bus = "addr"
      /\ msgs[i].cnt_transferred = -1
      /\ msgs[i].len \in Nat \ {0}
      /\ UNCHANGED <<pc, call, n, i, ret, mem0>>
  BY HandlerEntry DEF IsrNoAck, mainVars
<1>2. /\ bus' = "idle" /\ eeprom'.mem = eeprom.mem
      /\ msgs' = [msgs EXCEPT ![i] = Failed(msgs[i], 0)]
  BY <1>1 DEF IsrNoAck, Stop, IInv, TypeOK
<1> DEFINE x == Failed(msgs[i], 0)
<1>3. /\ x \in Messages /\ x.cnt_transferred = 0 /\ x.len = msgs[i].len
      /\ x.flags = msgs[i].flags /\ x.err = -1 /\ x.buf = msgs[i].buf
  <2>1. 0 \in -1 .. msgs[i].len
    BY <1>1
  <2> QED BY <1>1, <2>1, FailedType
<1>4. msgs' = [msgs EXCEPT ![i] = x]
  BY <1>2
<1> HIDE DEF x
<1>5. x.flags = 1 => Received(x.buf, mem0, call.addr, call.len,
                              x.cnt_transferred)
  <2>1. SUFFICES ASSUME x.flags = 1
                 PROVE  Received(x.buf, mem0, call.addr, call.len, 0)
    BY <1>3
  <2>2. call.fn = "at24cxx_read" /\ i = 2
    BY <1>1, <1>3, <2>1, HandlerMessage
  <2>3. Received(x.buf, mem0, call.addr, call.len, -1)
    BY <1>1, <1>3, <2>2 DEF DataInv, ReadMsgs
  <2> QED BY <2>3 DEF Received
<1>6. Busy
  BY <1>1 DEF Busy
<1>7. CallInv' /\ WriteMsg' /\ ReadMsgs' /\ WriteConfined'
  BY <1>1, <1>2, <1>3, <1>4, <1>5, <1>6, MessageKept
<1>8. msgs'[i].err = -1
  BY <1>1, <1>3, <1>4, MsgsUpdate DEF IInv
<1>9. TxData' /\ RxData'
  BY <1>1, <1>2, <1>8 DEF TxData, RxData
<1>10. WritePrefix'
  <2>1. ~ByteStored /\ ~ByteStored'
    BY <1>1, <1>2, <1>8 DEF ByteStored
  <2> QED BY <1>1, <1>2, <2>1 DEF DataInv, WritePrefix, Busy
<1> QED BY <1>7, <1>9, <1>10 DEF DataInv

\* The write branch: the next byte of the message goes to the shift register,
\* or the last one has reached the EEPROM.
LEMMA TxStepData ==
  ASSUME IInv, IInv', DataInv, IICCON.pend, ReadsNonEmpty,
         IsrTx(msgs[i], msgs[i].cnt_transferred + 1),
         UNCHANGED <<mainVars, p_cur_msg, nack>>
  PROVE  DataInv'
<1> DEFINE c == msgs[i].cnt_transferred + 1
           x == Counted(msgs[i], c)
<1>1. /\ pc = "wait" /\ p_cur_msg = i /\ i \in 1 .. Len(msgs)
      /\ msgs[i] \in Messages /\ msgs[i].flags = 0 /\ msgs[i].err = 0
      /\ msgs[i].len \in Nat \ {0}
      /\ c \in 0 .. msgs[i].len
      /\ c = 0 <=> bus = "addr"
      /\ bus \in {"addr", "tx", "rx"}
      /\ UNCHANGED <<pc, call, n, i, ret, mem0>>
  BY HandlerEntry DEF IsrTx, mainVars
<1>2. /\ Busy
      /\ \/ call.fn = "at24cxx_write" /\ i = 1 /\ msgs[i].len = 2
         \/ call.fn = "at24cxx_read" /\ i = 1 /\ msgs[i].len = 1
  BY <1>1, HandlerMessage
<1>3. bus # "rx"
  BY <1>1 DEF IInv, TransferInv, RxInv
<1>4. /\ x \in Messages /\ x.cnt_transferred = c /\ x.len = msgs[i].len
      /\ x.flags = msgs[i].flags /\ x.err = msgs[i].err
      /\ x.buf = msgs[i].buf
  <2>1. c \in -1 .. msgs[i].len
    BY <1>1
  <2> QED BY <1>1, <2>1, CountedType
<1>5. msgs' = [msgs EXCEPT ![i] = x] /\ eeprom'.mem = eeprom.mem
      /\ eeprom'.ptr = eeprom.ptr
  BY <1>1 DEF IsrTx, Stop, IInv, TypeOK
<1>6. /\ c = 0 => eeprom.phase = "pointer"
      /\ c = 1 => eeprom.phase = "store" /\ eeprom.ptr = msgs[i].buf[0]
  <2>1. c = 0 => eeprom.phase = "pointer"
    BY <1>1 DEF IsrTx, IInv, TypeOK, TransferInv, AddrInv
  <2>2. ASSUME c = 1 PROVE eeprom.phase = "store" /\ eeprom.ptr = msgs[i].buf[0]
    <3>1. bus = "tx" /\ msgs[i].cnt_transferred = 0
      BY <1>1, <1>3, <2>2, MessageFields
    <3> QED BY <3>1 DEF DataInv, TxData
  <2> QED BY <2>1, <2>2
<1>7. CASE c < msgs[i].len
  <2>1. /\ IICDS' = msgs[i].buf[c] /\ ~IICCON'.pend /\ bus' = "tx"
        /\ UNCHANGED eeprom
    BY <1>1, <1>7 DEF IsrTx, IInv, TypeOK
  <2>2. ~ByteStored
    <3>1. ~(bus = "tx" /\ msgs[i].cnt_transferred = 1)
      BY <1>1, <1>2, <1>7
    <3> QED BY <1>1, <3>1 DEF ByteStored
  <2> HIDE DEF c, x
  <2>3. CallInv' /\ WriteMsg' /\ ReadMsgs' /\ WriteConfined'
    <3>1. ~(x.flags = 1)
      BY <1>1, <1>4
    <3> QED BY <1>1, <1>2, <1>4, <1>5, <3>1, MessageKept
  <2>4. msgs'[i] = x
    BY <1>1, <1>4, <1>5, MsgsUpdate DEF IInv
  <2>5. TxData'
    BY <1>1, <1>4, <1>6, <2>1, <2>4 DEF TxData
  <2>6. RxData'
    BY <1>1, <1>2, <2>1 DEF RxData
  <2>7. WritePrefix'
    <3>1. ~ByteStored'
      BY <1>1, <2>1 DEF ByteStored
    <3> QED BY <1>1, <1>5, <2>2, <3>1 DEF DataInv, WritePrefix, Busy
  <2> QED BY <2>3, <2>5, <2>6, <2>7 DEF DataInv
<1>8. CASE ~(c < msgs[i].len)
  <2>1. bus' = "idle"
    BY <1>1, <1>8 DEF IsrTx, Stop
  <2>2. c = msgs[i].len /\ bus = "tx"
    BY <1>1, <1>3, <1>8
  <2>3. call.fn = "at24cxx_write" => ByteStored
    BY <1>1, <1>2, <2>2, MessageFields DEF ByteStored
  <2>4. call.fn = "at24cxx_read" => eeprom.ptr = call.addr % M
    <3>1. call.fn = "at24cxx_read" => msgs[1].buf[0] = call.addr % M
      BY DEF DataInv, ReadMsgs
    <3> QED BY <1>2, <1>6, <2>2, <3>1
  <2> HIDE DEF c, x
  <2>5. CallInv' /\ WriteMsg' /\ ReadMsgs' /\ WriteConfined'
    <3>1. ~(x.flags = 1)
      BY <1>1, <1>4
    <3> QED BY <1>1, <1>2, <1>4, <1>5, <3>1, MessageKept
  <2>6. msgs'[i] = x
    BY <1>1, <1>4, <1>5, MsgsUpdate DEF IInv
  <2>7. TxData' /\ RxData'
    BY <1>1, <1>2, <1>5, <2>1, <2>4 DEF TxData, RxData
  <2>8. WritePrefix'
    <3>1. ByteStored'
      BY <1>1, <1>4, <2>1, <2>6 DEF ByteStored
    <3> QED BY <1>1, <1>2, <1>5, <2>3, <3>1 DEF DataInv, WritePrefix
  <2> QED BY <2>5, <2>7, <2>8 DEF DataInv
<1> QED BY <1>7, <1>8

\* The read branch: the byte that was received goes to its place in the buffer,
\* except the last one.
LEMMA RxStepData ==
  ASSUME IInv, IInv', DataInv, IICCON.pend, ReadsNonEmpty,
         IsrRx(msgs[i], msgs[i].cnt_transferred + 1),
         UNCHANGED <<mainVars, p_cur_msg, nack>>
  PROVE  DataInv'
<1> DEFINE c == msgs[i].cnt_transferred + 1
<1>1. /\ pc = "wait" /\ p_cur_msg = i /\ i \in 1 .. Len(msgs)
      /\ msgs[i] \in Messages /\ msgs[i].flags = 1
      /\ msgs[i].len \in Nat \ {0}
      /\ c \in 0 .. msgs[i].len
      /\ c = 0 <=> bus = "addr"
      /\ bus \in {"addr", "tx", "rx"}
      /\ UNCHANGED <<pc, call, n, i, ret, mem0>>
  BY HandlerEntry DEF IsrRx, mainVars
<1>2. Busy /\ call.fn = "at24cxx_read" /\ i = 2
  BY <1>1, HandlerMessage
<1>3. /\ bus # "tx" /\ msgs[2].len = call.len /\ call.addr \in Nat
      /\ msgs[2].cnt_transferred = c - 1
      /\ Received(msgs[2].buf, mem0, call.addr, call.len, c - 1)
  <2>1. bus # "tx"
    BY <1>1 DEF IInv, TransferInv, TxInv
  <2>2. msgs[2].cnt_transferred = c - 1
    BY <1>1, <1>2, MessageFields
  <2>3. call.addr \in Nat
    BY MAssumption DEF IInv, TypeOK, Call
  <2> QED BY <1>2, <2>1, <2>2, <2>3 DEF DataInv, ReadMsgs
<1>4. c # 0 => /\ IICDS = mem0[(call.addr + (c - 1)) % M]
               /\ eeprom.ptr = (call.addr + c) % M
  <2>1. SUFFICES ASSUME c # 0
                 PROVE  /\ IICDS = mem0[(call.addr + (c - 1)) % M]
                        /\ eeprom.ptr = (call.addr + c) % M
    OBVIOUS
  <2>2. bus = "rx"
    BY <1>1, <1>3, <2>1
  <2>3. /\ IICDS = mem0[(call.addr + msgs[2].cnt_transferred) % M]
        /\ eeprom.ptr = (call.addr + msgs[2].cnt_transferred + 1) % M
    BY <1>2, <2>2 DEF DataInv, RxData
  <2>4. call.addr + msgs[2].cnt_transferred + 1 = call.addr + c
    BY <1>1, <1>3
  <2> QED BY <1>3, <2>3, <2>4
<1>5. c = 0 => eeprom.ptr = (call.addr + c) % M
  <2>1. call.addr + 0 = call.addr
    BY <1>3
  <2>2. bus = "addr" => eeprom.ptr = call.addr % M
    BY <1>2 DEF DataInv, RxData
  <2> QED BY <1>1, <2>1, <2>2
<1>6. eeprom'.mem = eeprom.mem /\ eeprom'.ptr = eeprom.ptr
  BY DEF IsrRx, ResumeRx, Stop, IInv, TypeOK
<1>7. /\ Counted(msgs[i], c) \in Messages
      /\ Counted(msgs[i], c).cnt_transferred = c
      /\ Counted(msgs[i], c).len = msgs[i].len
      /\ Counted(msgs[i], c).flags = msgs[i].flags
      /\ Counted(msgs[i], c).buf = msgs[i].buf
  <2>1. c \in -1 .. msgs[i].len
    BY <1>1
  <2> QED BY <1>1, <2>1, CountedType
<1>8. ASSUME NEW x \in Messages, msgs' = [msgs EXCEPT ![i] = x],
             x.flags = 1, x.len = msgs[i].len, x.cnt_transferred = c,
             Received(x.buf, mem0, call.addr, call.len, c),
             bus' = "idle" \/ (bus' = "rx" /\ ~IICCON'.pend)
      PROVE  DataInv'
  <2> HIDE DEF c
  <2>1. CallInv' /\ WriteMsg' /\ ReadMsgs' /\ WriteConfined'
    <3>1. ~(x.flags = 0)
      BY <1>8
    <3> QED BY <1>1, <1>2, <1>6, <1>8, <3>1, MessageKept
  <2>2. msgs'[2] = x
    BY <1>1, <1>2, <1>8, MsgsUpdate DEF IInv
  <2>3. eeprom'.ptr = (call.addr + msgs'[2].cnt_transferred) % M
    BY <1>4, <1>5, <1>6, <1>8, <2>2
  <2>4. TxData'
    BY <1>8 DEF TxData
  <2>5. RxData'
    BY <1>1, <1>2, <1>8, <2>3 DEF RxData
  <2>6. WritePrefix'
    BY <1>1, <1>2 DEF WritePrefix
  <2> QED BY <2>1, <2>4, <2>5, <2>6 DEF DataInv
<1>9. CASE c = 0
  <2>1. /\ msgs' = [msgs EXCEPT ![i] = Counted(msgs[i], c)]
        /\ bus' = "rx" /\ ~IICCON'.pend
    BY <1>1, <1>9 DEF IsrRx, ResumeRx
  <2>2. Received(msgs[i].buf, mem0, call.addr, call.len, c)
    BY <1>2, <1>3, <1>9 DEF Received
  <2> HIDE DEF c
  <2> QED BY <1>1, <1>7, <1>8, <2>1, <2>2
<1>10. CASE c # 0 /\ c < msgs[i].len
  <2> DEFINE x == Filled(msgs[i], c, IICDS)
  <2>1. /\ msgs' = [msgs EXCEPT ![i] = x]
        /\ bus' = "rx" /\ ~IICCON'.pend
    BY <1>1, <1>10 DEF IsrRx, ResumeRx
  <2>2. IICDS \in Byte
    BY <1>1, <1>3, <1>10 DEF IInv, TransferInv, RxInv
  <2>3. c \in 1 .. msgs[i].len
    BY <1>1, <1>10
  <2>4. call.len \in Nat
    BY DEF IInv, TypeOK, Call
  <2> HIDE DEF c
  <2>5. /\ x \in Messages /\ x.cnt_transferred = c /\ x.len = msgs[i].len
        /\ x.flags = 1
    BY <1>1, <2>2, <2>3, FilledType
  <2>6. \A k \in 0 .. msgs[i].len - 1 :
          x.buf[k] = IF k = c - 1 THEN IICDS ELSE msgs[i].buf[k]
    BY <1>1, <2>3, FilledBuf
  <2> HIDE DEF x
  <2>7. Received(x.buf, mem0, call.addr, call.len, c)
    <3>1. SUFFICES ASSUME NEW k \in 0 .. call.len - 1
                   PROVE  x.buf[k] = IF k < c /\ k < call.len - 1
                                     THEN mem0[(call.addr + k) % M] ELSE Junk
      BY DEF Received
    <3>2. x.buf[k] = IF k = c - 1 THEN IICDS ELSE msgs[2].buf[k]
      BY <1>2, <1>3, <2>6
    <3>3. msgs[2].buf[k] = IF k < c - 1 /\ k < call.len - 1
                           THEN mem0[(call.addr + k) % M] ELSE Junk
      BY <1>3 DEF Received
    <3>4. CASE k = c - 1
      <4>1. k < c /\ k < call.len - 1
        BY <1>2, <1>3, <1>10, <2>3, <2>4, <3>4
      <4> QED BY <1>4, <1>10, <3>2, <3>4, <4>1
    <3>5. CASE k # c - 1
      <4>1. k < c <=> k < c - 1
        BY <2>3, <2>4, <3>5
      <4> QED BY <3>2, <3>3, <3>5, <4>1
    <3> QED BY <3>4, <3>5
  <2> QED BY <1>8, <2>1, <2>5, <2>7
<1>11. CASE c # 0 /\ ~(c < msgs[i].len)
  <2>1. /\ msgs' = [msgs EXCEPT ![i] = Counted(msgs[i], c)]
        /\ bus' = "idle"
    BY <1>1, <1>11 DEF IsrRx, Stop
  <2>2. Received(msgs[i].buf, mem0, call.addr, call.len, c)
    <3>1. c = call.len /\ call.len \in Nat
      BY <1>1, <1>2, <1>3, <1>11
    <3> HIDE DEF c
    <3>2. \A k \in 0 .. call.len - 1 :
            (k < c - 1 /\ k < call.len - 1) <=> (k < c /\ k < call.len - 1)
      BY <3>1
    <3> QED BY <1>2, <1>3, <3>2 DEF Received
  <2> HIDE DEF c
  <2> QED BY <1>1, <1>7, <1>8, <2>1, <2>2
<1> QED BY <1>9, <1>10, <1>11

\* The handler, whichever branch it takes.
LEMMA HandlerData ==
  ASSUME IInv, IInv', DataInv, i2c_interrupt_func, ReadsNonEmpty
  PROVE  DataInv'
<1>1. IICCON.pend /\ p_cur_msg = i /\ UNCHANGED <<mainVars, p_cur_msg, nack>>
  BY HandlerEntry DEF i2c_interrupt_func
<1>2. \/ IsrNoAck(msgs[i], msgs[i].cnt_transferred + 1)
      \/ IsrTx(msgs[i], msgs[i].cnt_transferred + 1)
      \/ IsrRx(msgs[i], msgs[i].cnt_transferred + 1)
  BY <1>1 DEF i2c_interrupt_func
<1> QED BY <1>1, <1>2, NoAckData, TxStepData, RxStepData

\* A step of the bus changes no message and nothing of main's.
LEMMA BusKeeps ==
  ASSUME IInv, DataInv, ByteShifted, bus # "idle"
  PROVE  /\ pc = "wait" /\ Busy /\ i \in 1 .. Len(msgs)
         /\ IICCON'.pend /\ ~IICCON.pend
         /\ UNCHANGED <<pc, call, n, i, ret, mem0, msgs, bus>>
         /\ CallInv' /\ WriteMsg' /\ ReadMsgs'
<1>1. /\ pc = "wait" /\ Busy /\ i \in 1 .. Len(msgs)
      /\ IICCON'.pend /\ ~IICCON.pend
      /\ UNCHANGED <<pc, call, n, i, ret, mem0, msgs, bus>>
  BY DEF ByteShifted, mainVars, IInv, TypeOK, TransferInv, BusInv, Busy
<1>2. CallInv' /\ WriteMsg'
  BY <1>1 DEF DataInv, CallInv, WriteMsg, Busy
<1>3. ReadMsgs'
  BY <1>1 DEF DataInv, ReadMsgs, Busy
<1> QED BY <1>1, <1>2, <1>3

\* The address byte: no data yet.
LEMMA AddressData ==
  ASSUME IInv, IInv', DataInv, ByteShifted, NEW acked \in BOOLEAN,
         AddressByte(acked)
  PROVE  DataInv'
<1>1. /\ bus = "addr" /\ eeprom'.mem = eeprom.mem /\ eeprom'.ptr = eeprom.ptr
  BY DEF AddressByte, IInv, TypeOK
<1>2. /\ pc = "wait" /\ Busy
      /\ UNCHANGED <<pc, call, n, i, ret, mem0, msgs, bus>>
      /\ CallInv' /\ WriteMsg' /\ ReadMsgs'
  BY <1>1, BusKeeps
<1>3. TxData' /\ RxData'
  BY <1>1, <1>2 DEF DataInv, TxData, RxData
<1>4. WritePrefix'
  <2>1. ~ByteStored /\ ~ByteStored'
    BY <1>1, <1>2 DEF ByteStored
  <2> QED BY <1>1, <1>2, <2>1 DEF DataInv, WritePrefix, Busy
<1>5. WriteConfined'
  <2>1. n <= n'
    BY <1>2 DEF IInv, TypeOK, Call
  <2> QED BY <1>1, <1>2, <2>1, ConfinedKept DEF DataInv
<1> QED BY <1>2, <1>3, <1>4, <1>5 DEF DataInv

\* One more byte of the string is in its cell: it overwrites only a byte of the
\* string that went to the same cell before.
LEMMA StoredNext ==
  ASSUME NEW mem \in [Byte -> Byte], NEW addr \in Nat, NEW data,
         NEW m \in Nat \ {0}, NEW b \in Byte, b = data[m],
         Stored(mem, addr, data, m - 1)
  PROVE  Stored([mem EXCEPT ![(addr + m - 1) % M] = b], addr, data, m)
<1> DEFINE p == (addr + m - 1) % M
           new == [mem EXCEPT ![p] = b]
<1>1. p \in Byte
  <2>1. addr + m - 1 \in Nat
    OBVIOUS
  <2> QED BY <2>1, NextCell
<1>2. \A q \in Byte : new[q] = IF q = p THEN b ELSE mem[q]
  BY <1>1
<1> HIDE DEF new, p
<1>3. SUFFICES ASSUME NEW k \in 0 .. m - 1, k + M >= m
               PROVE  new[(addr + k) % M] = data[k + 1]
  BY DEF Stored, new, p
<1>4. (addr + k) % M \in Byte
  <2>1. addr + k \in Nat
    OBVIOUS
  <2> QED BY <2>1, NextCell
<1>5. CASE k = m - 1
  <2>1. addr + k = addr + m - 1 /\ k + 1 = m
    BY <1>5
  <2>2. (addr + k) % M = p
    BY <2>1 DEF p
  <2> QED BY <1>2, <1>4, <2>1, <2>2
<1>6. CASE k # m - 1
  <2>1. k \in 0 .. (m - 1) - 1 /\ k + M >= m - 1
    BY <1>3, <1>6, MAssumption
  <2>2. mem[(addr + k) % M] = data[k + 1]
    BY <2>1 DEF Stored
  <2>3. (addr + k) % M # p
    <3> DEFINE a == addr + k
               e == addr + m - 1
    <3>1. a \in Nat /\ e \in Nat /\ a < e /\ e < a + M
      BY <1>3, <1>6, MAssumption
    <3>2. a % M # e % M
      <4> HIDE DEF a, e
      <4> QED BY <3>1, CellsDiffer
    <3> QED BY <3>2 DEF p
  <2> QED BY <1>2, <1>4, <2>2, <2>3
<1> QED BY <1>5, <1>6

\* A byte main sent arrives: the first one is the address, the second one goes
\* to that cell.
LEMMA ByteOutData ==
  ASSUME IInv, IInv', DataInv, ByteShifted, DataByteOut
  PROVE  DataInv'
<1>1. /\ bus = "tx" /\ IICDS' = IICDS
      /\ msgs[i].flags = 0 /\ msgs[i].cnt_transferred \in 0 .. msgs[i].len - 1
      /\ IICDS \in Byte
  BY DEF DataByteOut, IInv, TransferInv, TxInv
<1>2. /\ pc = "wait" /\ Busy /\ IICCON'.pend /\ ~IICCON.pend
      /\ UNCHANGED <<pc, call, n, i, ret, mem0, msgs, bus>>
      /\ CallInv' /\ WriteMsg' /\ ReadMsgs'
  BY <1>1, BusKeeps
<1>3. /\ i = 1
      /\ \/ call.fn = "at24cxx_write" /\ msgs[i].len = 2
         \/ call.fn = "at24cxx_read" /\ msgs[i].len = 1
  BY <1>1, <1>2, HandlerMessage
<1>4. /\ n \in Nat /\ call.addr \in Nat /\ eeprom.mem \in [Byte -> Byte]
      /\ eeprom.ptr \in Byte
  BY MAssumption DEF IInv, TypeOK, Call
<1>5. IICDS = msgs[i].buf[msgs[i].cnt_transferred]
  BY <1>1 DEF DataInv, TxData
<1>6. RxData'
  BY <1>1, <1>2, <1>3 DEF RxData
<1>7. ~ByteStored
  BY <1>1, <1>2 DEF ByteStored
<1>8. CASE msgs[i].cnt_transferred = 0
  <2>1. eeprom.phase = "pointer"
    BY <1>1, <1>2, <1>8 DEF DataInv, TxData
  <2>2. /\ eeprom'.mem = eeprom.mem /\ eeprom'.ptr = IICDS
        /\ eeprom'.phase = "store"
    BY <2>1 DEF DataByteOut, IInv, TypeOK
  <2>3. TxData'
    BY <1>1, <1>2, <1>5, <1>8, <2>2 DEF TxData
  <2>4. WritePrefix'
    <3>1. ~ByteStored'
      BY <1>1, <1>2, <1>8 DEF ByteStored
    <3> QED BY <1>2, <1>7, <2>2, <3>1 DEF DataInv, WritePrefix, Busy
  <2>5. WriteConfined'
    BY <1>2, <1>4, <2>2, ConfinedKept DEF DataInv
  <2> QED BY <1>2, <1>6, <2>3, <2>4, <2>5 DEF DataInv
<1>9. CASE msgs[i].cnt_transferred # 0
  <2>1. /\ call.fn = "at24cxx_write" /\ msgs[i].cnt_transferred = 1
    BY <1>1, <1>3, <1>9
  <2>2. /\ eeprom.phase = "store" /\ eeprom.ptr = msgs[1].buf[0]
        /\ IICDS = msgs[1].buf[1]
    BY <1>1, <1>2, <1>3, <1>5, <2>1 DEF DataInv, TxData
  <2>3. /\ n \in 1 .. call.len /\ msgs[1].buf[0] = (call.addr + n - 1) % M
        /\ msgs[1].buf[1] = call.data[n]
    BY <1>2, <2>1 DEF DataInv, WriteMsg
  <2> DEFINE p == (call.addr + n - 1) % M
             new == [eeprom.mem EXCEPT ![p] = IICDS]
  <2>4. eeprom.ptr = p /\ IICDS = call.data[n]
    BY <2>2, <2>3
  <2>5. eeprom'.mem = new /\ eeprom'.phase = "store"
    BY <2>2, <2>4 DEF DataByteOut, IInv, TypeOK
  <2>6. Stored(new, call.addr, call.data, n)
    <3>1. Stored(eeprom.mem, call.addr, call.data, n - 1)
      BY <1>2, <1>7, <2>1 DEF DataInv, WritePrefix
    <3>2. n \in Nat \ {0}
      BY <1>4, <2>3
    <3> QED BY <1>1, <1>4, <2>4, <3>1, <3>2, StoredNext
  <2>7. \A q \in Byte : new[q] = IF q = p THEN IICDS ELSE eeprom.mem[q]
    BY <1>4, <2>4
  <2> HIDE DEF new, p
  <2>8. TxData'
    BY <1>1, <1>2, <1>5, <2>1, <2>5 DEF TxData
  <2>9. WritePrefix'
    <3>1. ByteStored'
      BY <1>1, <1>2, <2>1 DEF ByteStored
    <3> QED BY <1>2, <2>5, <2>6, <3>1 DEF WritePrefix, Busy
  <2>10. WriteConfined'
    <3>1. SUFFICES ASSUME NEW q \in Byte, new[q] # mem0[q]
                   PROVE  \E k \in 0 .. n - 1 :
                            /\ (call.addr + k) % M = q
                            /\ new[q] = call.data[k + 1]
      BY <1>2, <2>1, <2>5 DEF WriteConfined
    <3>2. CASE q = p
      <4>1. n - 1 \in 0 .. n - 1 /\ (n - 1) + 1 = n
            /\ call.addr + (n - 1) = call.addr + n - 1
        BY <1>4, <2>3
      <4>2. (call.addr + (n - 1)) % M = q
        BY <3>2, <4>1 DEF p
      <4>3. new[q] = call.data[(n - 1) + 1]
        BY <2>4, <2>7, <3>2, <4>1
      <4> QED BY <4>1, <4>2, <4>3
    <3>3. CASE q # p
      <4>1. new[q] = eeprom.mem[q]
        BY <2>7, <3>3
      <4> QED BY <3>1, <4>1 DEF DataInv, WriteConfined
    <3> QED BY <3>2, <3>3
  <2> QED BY <1>2, <1>6, <2>8, <2>9, <2>10 DEF DataInv
<1> QED BY <1>8, <1>9

\* A byte of the EEPROM arrives in the shift register: the one the call asked
\* for, since no read changes a cell.
LEMMA ByteInData ==
  ASSUME IInv, IInv', DataInv, ByteShifted, DataByteIn
  PROVE  DataInv'
<1>1. /\ bus = "rx" /\ IICDS' = eeprom.mem[eeprom.ptr]
      /\ eeprom'.mem = eeprom.mem
      /\ eeprom'.ptr = (eeprom.ptr + 1) % M
  BY DEF DataByteIn, IInv, TypeOK
<1>2. /\ pc = "wait" /\ Busy /\ IICCON'.pend /\ ~IICCON.pend
      /\ UNCHANGED <<pc, call, n, i, ret, mem0, msgs, bus>>
      /\ CallInv' /\ WriteMsg' /\ ReadMsgs'
  BY <1>1, BusKeeps
<1>3. /\ msgs[i].flags = 1
      /\ msgs[i].cnt_transferred \in 0 .. msgs[i].len - 1
  BY <1>1 DEF IInv, TransferInv, RxInv
<1>4. call.fn = "at24cxx_read" /\ i = 2
  BY <1>2, <1>3, HandlerMessage
<1>5. /\ n \in Nat /\ call.addr \in Nat /\ eeprom.ptr \in Byte
      /\ msgs[2].cnt_transferred \in Nat
  BY <1>3, <1>4, MAssumption DEF IInv, TypeOK, Call
<1> DEFINE a == call.addr + msgs[2].cnt_transferred
<1>6. eeprom.ptr = a % M /\ a \in Nat
  BY <1>1, <1>2, <1>4, <1>5 DEF DataInv, RxData
<1>7. IICDS' = mem0[a % M]
  <2>1. eeprom.mem[eeprom.ptr] = mem0[eeprom.ptr]
    BY <1>4, <1>5 DEF DataInv, WriteConfined
  <2> QED BY <1>1, <1>6, <2>1
<1>8. eeprom'.ptr = (a + 1) % M
  <2> HIDE DEF a
  <2>1. ((a % M) + 1) % M = (a + 1) % M
    BY <1>6, NextCell
  <2> QED BY <1>1, <1>6, <2>1
<1>9. RxData'
  BY <1>1, <1>2, <1>7, <1>8 DEF RxData
<1>10. TxData' /\ WritePrefix'
  BY <1>1, <1>2, <1>4 DEF TxData, WritePrefix
<1>11. WriteConfined'
  BY <1>1, <1>2, <1>5, ConfinedKept DEF DataInv
<1> QED BY <1>2, <1>9, <1>10, <1>11 DEF DataInv

\* Every step keeps the data right.
LEMMA NextData ==
  ASSUME IInv, IInv', DataInv, [Next]_vars, ReadsNonEmpty
  PROVE  DataInv'
<1>1. CASE Menu
  BY <1>1, MenuData
<1>2. CASE Main
  BY <1>2, WriteData, XferData, WaitData DEF Main
<1>3. CASE i2c_interrupt_func
  BY <1>3, HandlerData
<1>4. CASE ByteShifted
  BY <1>4, AddressData, ByteOutData, ByteInData DEF ByteShifted
<1>5. CASE UNCHANGED vars
  <2>1. UNCHANGED <<pc, call, n, i, ret, mem0, msgs, p_cur_msg, IICCON, IICDS,
                    nack, bus, eeprom>>
    BY <1>5 DEF vars, mainVars
  <2>2. CallInv' /\ WriteMsg' /\ ReadMsgs'
    BY <2>1 DEF DataInv, CallInv, WriteMsg, ReadMsgs, Busy
  <2>3. TxData' /\ RxData'
    BY <2>1 DEF DataInv, TxData, RxData
  <2>4. WritePrefix'
    <3>1. ByteStored' <=> ByteStored
      BY <2>1 DEF ByteStored
    <3> QED BY <2>1, <3>1 DEF DataInv, WritePrefix, Busy
  <2>5. WriteConfined'
    BY <2>1 DEF DataInv, WriteConfined
  <2> QED BY <2>2, <2>3, <2>4, <2>5 DEF DataInv
<1> QED BY <1>1, <1>2, <1>3, <1>4, <1>5 DEF Next

\* The bytes on the wire, the cells and the caller's buffer agree throughout
\* every call.
THEOREM DataInvariant == ReadsNonEmpty /\ Spec => [](IInv /\ DataInv)
<1>1. SUFFICES ASSUME ReadsNonEmpty PROVE Spec => [](IInv /\ DataInv)
  OBVIOUS
<1>2. Init => IInv /\ DataInv
  BY InitIInv, InitData
<1>3. IInv /\ DataInv /\ [Next]_vars => (IInv /\ DataInv)'
  BY <1>1, NextIInv, NextData
<1> QED BY <1>2, <1>3, PTL DEF Spec

\* at24cxx_write returns 0 only with the whole string in the EEPROM, and at no
\* moment, in no call and whatever fails, does it change any other cell.
THEOREM WritesLand == ReadsNonEmpty /\ Spec => []WriteOutcome
<1>1. IInv /\ DataInv => WriteOutcome
  <2>1. SUFFICES ASSUME IInv, DataInv PROVE WriteOutcome
    OBVIOUS
  <2>2. WriteConfined
    BY <2>1 DEF DataInv
  <2>3. WriteStored
    BY <2>1 DEF WriteStored, Returned, DataInv, WritePrefix, Stored
  <2> QED BY <2>2, <2>3 DEF WriteOutcome
<1> QED BY <1>1, DataInvariant, PTL

\* at24cxx_read returns 0 only with every byte before the last read from its cell,
\* and the last one is from no other cell.
THEOREM ReadsDeliver == ReadsNonEmpty /\ Spec => []ReadDelivers
<1>1. SUFFICES ASSUME ReadsNonEmpty PROVE Spec => []ReadDelivers
  OBVIOUS
<1>2. IInv /\ DataInv => ReadDelivers
  <2>1. SUFFICES ASSUME IInv, DataInv, Returned("at24cxx_read"), ret = 0,
                        NEW k \in 0 .. call.len - 1
                 PROVE  \/ msgs[2].buf[k] = mem0[(call.addr + k) % M]
                        \/ k = call.len - 1 /\ msgs[2].buf[k] = Junk
    BY DEF ReadDelivers
  <2>2. /\ pc = "menu" /\ call.fn = "at24cxx_read"
        /\ call.len \in Nat \ {0}
    BY <1>1, <2>1, LensAssumption DEF Returned, DataInv, CallInv, ReadsNonEmpty
  <2>3. Received(msgs[2].buf, mem0, call.addr, call.len, call.len)
    BY <2>1, <2>2 DEF DataInv, ReadMsgs
  <2>4. CASE k < call.len - 1
    <3>1. k < call.len
      BY <2>2
    <3> QED BY <2>3, <2>4, <3>1 DEF Received
  <2>5. CASE ~(k < call.len - 1)
    <3>1. k = call.len - 1
      BY <2>2, <2>5
    <3>2. msgs[2].buf[k] = Junk
      BY <2>3, <2>5 DEF Received
    <3> QED BY <3>1, <3>2
  <2> QED BY <2>4, <2>5
<1> QED BY <1>1, <1>2, DataInvariant, PTL
=============================================================================
