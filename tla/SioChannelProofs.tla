--------------------------- MODULE SioChannelProofs ---------------------------
(***************************************************************************)
(* For rings, thresholds and bursts of every size that RingAssumption      *)
(* allows: RTS flow control loses no byte and stalls nobody, the           *)
(* transmitter is never overwritten, and the receive ring is a queue.      *)
(***************************************************************************)
EXTENDS SioChannel, DataTheorems

SioState == [ptr : {0, 2, 5}, rts : BOOLEAN, txen : BOOLEAN, txip : BOOLEAN]

\* A pending transmit interrupt, and the flag the handler derives from it, mean
\* an empty transmit buffer.
TxTruth == (sio.txip => ~txbuf) /\ (tx_ready => ~txbuf)

\* READER's locals agree with the ring while it takes a byte out, as long as no
\* flush has come in between: handlers move the head only.
Taking ==
    upset # "tail" =>
        /\ pc \in {"next", "load", "store"} => rxtail # rxhead
        /\ pc \in {"load", "store"} => new_tail = Succ(rxtail)
        /\ pc = "store" => ch = rxbuf[rxtail]
        /\ pc = "check" => new_tail = rxtail
        /\ pc \in {"sel5", "wr5"} => Used <= window

\* RTS and the register pointer are where the code believes them to be.  With
\* RTS on the ring is below the threshold; with RTS off there is room for all
\* the sender may still send, and an empty ring means that READER is about to
\* turn RTS on.
Footing ==
    upset = "none" =>
        /\ sio.ptr = IF pc = "wr5" THEN 5 ELSE 0
        /\ sio.rts => Used < RXTHHI
        /\ ~sio.rts => Used + credit <= RXBUFSZ - 1
        /\ (~sio.rts /\ Used = 0) => pc \in {"check", "sel5", "wr5"}

IInv == TypeOK /\ TxTruth /\ Taking /\ Footing

-----------------------------------------------------------------------------
(***************************************************************************)
(* The SIO's control port and the ring's indices.                          *)
(***************************************************************************)

\* A write to register 0.
WriteReg0(s, v) ==
    [s EXCEPT !.ptr = CASE v = "sel5" -> 5 [] v = "rts_on" -> 2 [] OTHER -> 0,
              !.txip = @ /\ v \notin {"reset_tx", "rts_on", "rts_off"}]

LEMMA Reg0Fields ==
    ASSUME NEW s \in SioState, NEW v
    PROVE  /\ WriteReg0(s, v).ptr = CASE v = "sel5" -> 5 [] v = "rts_on" -> 2 [] OTHER -> 0
           /\ WriteReg0(s, v).rts = s.rts
           /\ WriteReg0(s, v).txip => s.txip
           /\ WriteReg0(s, v) \in SioState
  <1> DEFINE p == CASE v = "sel5" -> 5 [] v = "rts_on" -> 2 [] OTHER -> 0
             i == s.txip /\ v \notin {"reset_tx", "rts_on", "rts_off"}
  <1>1. p \in {0, 2, 5} /\ i \in BOOLEAN /\ (i => s.txip)
    OBVIOUS
  <1>2. WriteReg0(s, v) = [s EXCEPT !.ptr = p, !.txip = i]
    BY DEF WriteReg0
  <1>3. WriteReg0(s, v) \in SioState /\ WriteReg0(s, v).rts = s.rts
    <2> HIDE DEF p, i
    <2> QED
      BY <1>1, <1>2 DEF SioState
  <1>4. WriteReg0(s, v).txip = i /\ WriteReg0(s, v).ptr = p
    <2> HIDE DEF p, i
    <2> QED
      BY <1>1, <1>2 DEF SioState
  <1> QED
    BY <1>1, <1>3, <1>4

\* A write to register 5.
WriteReg5(s, v) ==
    [s EXCEPT !.ptr = 0, !.rts = (v = "rts_on"), !.txen = v \in {"rts_on", "rts_off", "reset_tx"}]

LEMMA Reg5Fields ==
    ASSUME NEW s \in SioState, NEW v
    PROVE  /\ WriteReg5(s, v).ptr = 0
           /\ v = "rts_on" => WriteReg5(s, v).rts
           /\ v # "rts_on" => ~WriteReg5(s, v).rts
           /\ WriteReg5(s, v).txip = s.txip
           /\ WriteReg5(s, v) \in SioState
  <1> DEFINE r == (v = "rts_on")
             e == v \in {"rts_on", "rts_off", "reset_tx"}
  <1>1. r \in BOOLEAN /\ e \in BOOLEAN
    OBVIOUS
  <1>2. WriteReg5(s, v) = [s EXCEPT !.ptr = 0, !.rts = r, !.txen = e]
    BY DEF WriteReg5
  <1>3. /\ WriteReg5(s, v) \in SioState /\ WriteReg5(s, v).ptr = 0
        /\ WriteReg5(s, v).rts = r /\ WriteReg5(s, v).txip = s.txip
    <2> HIDE DEF r, e
    <2> QED
      BY <1>1, <1>2 DEF SioState
  <1>4. (v = "rts_on" => r) /\ (v # "rts_on" => ~r)
    OBVIOUS
  <1> HIDE DEF r
  <1> QED
    BY <1>3, <1>4

\* Which register a write goes to.
LEMMA WriteTo ==
    ASSUME NEW s \in SioState, NEW v
    PROVE  /\ s.ptr = 0 => Write(s, v) = WriteReg0(s, v)
           /\ s.ptr = 5 => Write(s, v) = WriteReg5(s, v)
           /\ s.ptr = 2 => Write(s, v) = [s EXCEPT !.ptr = 0]
  <1>1. s.ptr = 0 => Write(s, v) = WriteReg0(s, v)
    BY DEF Write, WriteReg0
  <1>2. s.ptr = 5 => Write(s, v) = WriteReg5(s, v)
    BY DEF Write, WriteReg5
  <1>3. s.ptr = 2 => Write(s, v) = [s EXCEPT !.ptr = 0]
    BY DEF Write
  <1> QED
    BY <1>1, <1>2, <1>3

\* A write leaves the SIO in one of its states, and raises no interrupt.
LEMMA WriteState ==
    ASSUME NEW s \in SioState, NEW v
    PROVE  Write(s, v) \in SioState /\ (Write(s, v).txip => s.txip)
  <1>1. s.ptr \in {0, 2, 5}
    BY DEF SioState
  <1>2. CASE s.ptr = 0
    BY <1>2, WriteTo, Reg0Fields
  <1>3. CASE s.ptr = 5
    BY <1>3, WriteTo, Reg5Fields
  <1>4. CASE s.ptr = 2
    <2>1. [s EXCEPT !.ptr = 0] \in SioState /\ [s EXCEPT !.ptr = 0].txip = s.txip
      BY DEF SioState
    <2> QED
      BY <1>4, <2>1, WriteTo
  <1> QED
    BY <1>1, <1>2, <1>3, <1>4

\* With no register selected a command selects none and leaves RTS.
LEMMA WriteCommand ==
    ASSUME NEW s \in SioState, s.ptr = 0,
           NEW v \in {"reset_tx", "reset_ext", "reset_err", "sel1"}
    PROVE  Write(s, v).ptr = 0 /\ Write(s, v).rts = s.rts
  BY WriteTo, Reg0Fields

\* The reader's two writes turn RTS on.
LEMMA WriteSelect ==
    ASSUME NEW s \in SioState, s.ptr = 0
    PROVE  Write(s, "sel5").ptr = 5 /\ Write(s, "sel5").rts = s.rts
  BY WriteTo, Reg0Fields

LEMMA WriteAssert ==
    ASSUME NEW s \in SioState, s.ptr = 5
    PROVE  Write(s, "rts_on").ptr = 0 /\ Write(s, "rts_on").rts
  BY WriteTo, Reg5Fields

\* With no register selected, the two writes of RtsOff turn RTS off.
LEMMA WriteRtsOff ==
    ASSUME NEW s \in SioState, s.ptr = 0
    PROVE  /\ Write(Write(s, "sel5"), "rts_off").ptr = 0
           /\ ~Write(Write(s, "sel5"), "rts_off").rts
  <1>1. Write(s, "sel5") \in SioState /\ Write(s, "sel5").ptr = 5
    BY WriteState, WriteSelect
  <1> QED
    BY <1>1, WriteTo, Reg5Fields

\* Reading the control port ends a selection and changes nothing else.
LEMMA ReadState ==
    ASSUME NEW s \in SioState
    PROVE  /\ Read(s) \in SioState /\ Read(s).ptr = 0
           /\ Read(s).rts = s.rts /\ Read(s).txip = s.txip
  BY DEF Read, SioState

\* Masking keeps an index in the ring.
LEMMA SuccIndex == ASSUME NEW i \in Index PROVE Succ(i) \in Index
  BY RingAssumption, SMT DEF Succ, Index

\* The types the lemmas about rings ask for.
LEMMA RingTypes ==
    ASSUME TypeOK
    PROVE  /\ RXBUFSZ \in Nat \ {0}
           /\ rxhead \in 0 .. RXBUFSZ - 1 /\ rxtail \in 0 .. RXBUFSZ - 1
           /\ rxbuf \in [0 .. RXBUFSZ - 1 -> Byte]
  BY RingAssumption DEF TypeOK, Index

\* Used counts the bytes in the ring.
LEMMA UsedRange ==
    ASSUME TypeOK
    PROVE  Used \in 0 .. RXBUFSZ - 1 /\ (Used = 0 <=> rxtail = rxhead)
  <1>1. Used = IF rxtail <= rxhead THEN rxhead - rxtail ELSE rxhead - rxtail + RXBUFSZ
    BY RingTypes, Distance DEF Used
  <1> QED
    BY RingTypes, <1>1

\* Where the head moves there is one byte more.
LEMMA UsedPut ==
    ASSUME TypeOK, ~RingFull(Succ(rxhead))
    PROVE  /\ (Succ(rxhead) - rxtail) % RXBUFSZ = Used + 1
           /\ Used < RXBUFSZ - 1
  <1>1. (rxhead + 1) % RXBUFSZ # rxtail
    BY DEF RingFull, Succ
  <1>2. (((rxhead + 1) % RXBUFSZ) - rxtail) % RXBUFSZ = ((rxhead - rxtail) % RXBUFSZ) + 1
    BY <1>1, RingTypes, DistancePut
  <1>3. (rxhead - rxtail) % RXBUFSZ < RXBUFSZ - 1
    BY <1>1, RingTypes, DistancePut
  <1> QED
    BY <1>2, <1>3 DEF Succ, Used

\* Where the tail moves there is one byte less.
LEMMA UsedGet ==
    ASSUME TypeOK, rxtail # rxhead
    PROVE  (rxhead - Succ(rxtail)) % RXBUFSZ = Used - 1
  <1>1. (rxhead - ((rxtail + 1) % RXBUFSZ)) % RXBUFSZ = ((rxhead - rxtail) % RXBUFSZ) - 1
    BY RingTypes, DistanceGet
  <1> QED
    BY <1>1 DEF Succ, Used

\* A byte is dropped only when the ring holds RXBUFSZ - 1.
LEMMA UsedFull ==
    ASSUME TypeOK, RingFull(Succ(rxhead))
    PROVE  Used = RXBUFSZ - 1
  <1>1. (rxhead + 1) % RXBUFSZ = rxtail
    BY DEF RingFull, Succ
  <1>2. (rxhead - rxtail) % RXBUFSZ = RXBUFSZ - 1
    BY <1>1, RingTypes, DistanceFull
  <1> QED
    BY <1>2 DEF Used

-----------------------------------------------------------------------------
(***************************************************************************)
(* The invariant is inductive.                                             *)
(***************************************************************************)

\* After readi() RTS is on, the ring empty and no interrupt pending.
LEMMA InitIInv == Init => IInv
  <1> SUFFICES ASSUME Init PROVE IInv
    OBVIOUS
  <1>1. PICK b \in Byte : rxbuf = [i \in Index |-> b] /\ ch = b /\ got = b
    BY DEF Init
  <1>2. 0 \in Index /\ Slack \in 0 .. Slack /\ 0 \in 0 .. Burst
    BY RingAssumption DEF Index
  <1>3. sio.ptr = 0 /\ sio.rts /\ ~sio.txip
    BY DEF Init
  <1>4. TypeOK
    BY <1>1, <1>2 DEF Init, TypeOK, Upset
  <1>5. Used = 0
    BY <1>4, UsedRange DEF Init
  <1>6. TxTruth
    BY <1>3 DEF Init, TxTruth
  <1>7. Taking
    BY DEF Init, Taking
  <1>8. Footing
    BY <1>3, <1>5, RingAssumption DEF Init, Footing
  <1> QED
    BY <1>4, <1>6, <1>7, <1>8 DEF IInv

\* RtsOff keeps the SIO's state and the sender's credit in their types.
LEMMA RtsOffTypes ==
    ASSUME TypeOK, MaySend, RtsOff
    PROVE  /\ sio' \in SioState /\ (sio'.txip => sio.txip)
           /\ credit' \in 0 .. Slack
           /\ (sio.ptr = 0 => sio'.ptr = 0 /\ ~sio'.rts)
  <1>1. sio \in SioState
    BY DEF TypeOK, SioState
  <1>2. sio' = Write(Write(sio, "sel5"), "rts_off")
    BY DEF RtsOff
  <1>3. sio' \in SioState /\ (sio'.txip => sio.txip)
    BY <1>1, <1>2, WriteState
  <1>4. credit' \in 0 .. Slack
    BY RingAssumption DEF RtsOff, MaySend, TypeOK
  <1>5. sio.ptr = 0 => sio'.ptr = 0 /\ ~sio'.rts
    BY <1>1, <1>2, WriteRtsOff
  <1> QED
    BY <1>3, <1>4, <1>5

\* isr_sio_a_rx, isr_sio_b_rx: the byte was dropped.  With flow control in
\* order this never happens.
LEMMA RxDropped ==
    ASSUME IInv, IsrRx, RingFull(Succ(rxhead)), RtsOff, UNCHANGED ring
    PROVE  IInv'
  <1>1. TypeOK /\ MaySend
    BY DEF IInv, IsrRx
  <1>2. /\ sio' \in SioState /\ (sio'.txip => sio.txip) /\ credit' \in 0 .. Slack
    BY <1>1, RtsOffTypes
  <1>3. UNCHANGED <<rxbuf, rxhead, rxtail, txbuf, tx_ready, pc, ur1, new_tail, ch, got, upset>>
    BY DEF IsrRx, ring, xmit, local
  <1>4. window' \in 0 .. Burst /\ window' >= window
    BY <1>1, RingAssumption DEF IsrRx, TypeOK
  <1>5. Used = RXBUFSZ - 1 /\ Used' = Used
    BY <1>1, <1>3, UsedFull DEF Used
  <1>6. TypeOK'
    BY <1>1, <1>2, <1>3, <1>4 DEF TypeOK, SioState
  <1>7. TxTruth'
    BY <1>2, <1>3 DEF IInv, TxTruth
  <1>8. Taking'
    <2>1. window \in Nat /\ window' \in Nat
      BY <1>1, <1>4, RingAssumption DEF TypeOK
    <2>2. Used \in Nat
      BY <1>1, UsedRange, RingTypes
    <2> HIDE DEF Used
    <2> QED
      BY <1>3, <1>4, <1>5, <2>1, <2>2 DEF IInv, Taking, Succ
  <1>9. Footing'
    <2>1. SUFFICES ASSUME upset' = "none" PROVE FALSE
      BY DEF Footing
    <2>2. CASE sio.rts
      BY <1>3, <1>5, <2>1, <2>2, RingAssumption DEF IInv, Footing
    <2>3. CASE ~sio.rts
      BY <1>1, <1>3, <1>5, <2>1, <2>3, RingAssumption DEF IInv, Footing, MaySend, TypeOK
    <2> QED
      BY <2>2, <2>3
  <1> QED
    BY <1>6, <1>7, <1>8, <1>9 DEF IInv

\* isr_sio_a_rx, isr_sio_b_rx: the byte was stored.
LEMMA RxStored ==
    ASSUME IInv, IsrRx, ~RingFull(Succ(rxhead)), NEW b \in Byte,
           rxbuf' = [rxbuf EXCEPT ![rxhead] = b], rxhead' = Succ(rxhead), rxtail' = rxtail,
           IF PlentyOfRoom(Used + 1)
           THEN credit' = (IF sio.rts THEN credit ELSE credit - 1) /\ UNCHANGED sio
           ELSE RtsOff
    PROVE  IInv'
  <1>1. TypeOK /\ MaySend
    BY DEF IInv, IsrRx
  <1>2. sio' \in SioState /\ (sio'.txip => sio.txip) /\ credit' \in 0 .. Slack
    <2>1. CASE PlentyOfRoom(Used + 1)
      <3>1. sio' = sio /\ credit' = IF sio.rts THEN credit ELSE credit - 1
        BY <2>1
      <3>2. credit' \in 0 .. Slack
        BY <1>1, <3>1, RingAssumption DEF MaySend, TypeOK
      <3> QED
        BY <1>1, <3>1, <3>2 DEF TypeOK, SioState
    <2>2. CASE ~PlentyOfRoom(Used + 1)
      BY <1>1, <2>2, RtsOffTypes
    <2> QED
      BY <2>1, <2>2
  <1>3. UNCHANGED <<txbuf, tx_ready, pc, ur1, new_tail, ch, got, upset>>
    BY DEF IsrRx, xmit, local
  <1>4. /\ window' \in 0 .. Burst
        /\ pc \in {"sel5", "wr5"} => window' = window + 1
    BY <1>1, RingAssumption DEF IsrRx, TypeOK
  <1>5. Used' = Used + 1 /\ Used < RXBUFSZ - 1 /\ Used \in 0 .. RXBUFSZ - 1
    BY <1>1, UsedPut, UsedRange DEF Used
  <1>6. rxhead \in Index /\ rxhead' \in Index /\ rxhead' # rxtail
    BY <1>1, SuccIndex DEF TypeOK, RingFull
  <1>7. TypeOK'
    BY <1>1, <1>2, <1>3, <1>4, <1>6 DEF TypeOK, SioState
  <1>8. TxTruth'
    BY <1>2, <1>3 DEF IInv, TxTruth
  <1>9. Taking'
    <2>1. window \in Nat
      BY <1>1, RingAssumption DEF TypeOK
    <2>2. pc = "store" /\ upset # "tail" => rxbuf'[rxtail] = rxbuf[rxtail]
      BY <1>1, <1>6 DEF IInv, Taking, TypeOK
    <2> HIDE DEF Used
    <2> QED
      BY <1>3, <1>4, <1>5, <1>6, <2>1, <2>2, RingAssumption DEF IInv, Taking, Succ
  <1>10. Footing'
    <2>1. SUFFICES ASSUME upset' = "none" PROVE Footing'
      BY DEF Footing
    <2>2. /\ sio.ptr = IF pc = "wr5" THEN 5 ELSE 0
          /\ sio.rts => Used < RXTHHI
          /\ ~sio.rts => Used + credit <= RXBUFSZ - 1
      BY <1>3, <2>1 DEF IInv, Footing
    <2>3. pc = "wr5" => Used <= window /\ window + 1 \in 0 .. Burst
      BY <1>3, <1>4, <2>1 DEF IInv, Taking
    <2>4. Used' # 0 /\ credit \in Nat
      BY <1>1, <1>5, RingAssumption DEF TypeOK
    <2> HIDE DEF Used
    <2>5. CASE PlentyOfRoom(Used + 1)
      <3>1. sio' = sio /\ credit' = IF sio.rts THEN credit ELSE credit - 1
        BY <2>5
      <3>2. Used + 1 < RXTHHI
        BY <2>5 DEF PlentyOfRoom
      <3> QED
        BY <1>3, <1>5, <2>2, <2>4, <3>1, <3>2, RingAssumption DEF Footing
    <2>6. CASE ~PlentyOfRoom(Used + 1)
      <3>1. ~(Used + 1 < RXTHHI) /\ RtsOff
        BY <2>6 DEF PlentyOfRoom
      <3>2. pc # "wr5"
        BY <1>1, <1>5, <2>3, <3>1, RingAssumption DEF TypeOK
      <3>3. sio'.ptr = 0 /\ ~sio'.rts
        BY <1>1, <2>2, <3>1, <3>2, RtsOffTypes
      <3>4. Used' + credit' <= RXBUFSZ - 1
        BY <1>5, <2>2, <2>4, <3>1, RingAssumption DEF RtsOff
      <3> QED
        BY <1>3, <2>4, <3>2, <3>3, <3>4 DEF Footing
    <2> QED
      BY <2>5, <2>6
  <1> QED
    BY <1>7, <1>8, <1>9, <1>10 DEF IInv

\* A received byte keeps the invariant.
LEMMA RxKeeps == ASSUME IInv, IsrRx PROVE IInv'
  <1>1. PICK b \in Byte :
          \/ RingFull(Succ(rxhead)) /\ RtsOff /\ UNCHANGED ring
          \/ /\ ~RingFull(Succ(rxhead))
             /\ rxbuf' = [rxbuf EXCEPT ![rxhead] = b]
             /\ rxhead' = Succ(rxhead)
             /\ UNCHANGED rxtail
             /\ IF PlentyOfRoom((Succ(rxhead) - rxtail) % RXBUFSZ)
                THEN /\ credit' = IF sio.rts THEN credit ELSE credit - 1
                     /\ UNCHANGED sio
                ELSE RtsOff
    BY DEF IsrRx
  <1>2. CASE RingFull(Succ(rxhead))
    BY <1>1, <1>2, RxDropped
  <1>3. CASE ~RingFull(Succ(rxhead))
    <2>1. (Succ(rxhead) - rxtail) % RXBUFSZ = Used + 1
      BY <1>3, UsedPut DEF IInv
    <2> QED
      BY <1>1, <1>3, <2>1, RxStored
  <1> QED
    BY <1>2, <1>3

\* The transmit interrupt: the buffer is empty and the flag says so.
LEMMA TxKeeps == ASSUME IInv, IsrTx PROVE IInv'
  <1>1. sio \in SioState /\ sio.txip /\ sio' = Write(sio, "reset_tx")
    BY DEF IInv, TypeOK, SioState, IsrTx
  <1>2. sio' \in SioState /\ (sio'.txip => sio.txip)
    BY <1>1, WriteState
  <1>3. UNCHANGED <<rxbuf, rxhead, rxtail, txbuf, window, pc, ur1, new_tail, ch, got>>
    BY DEF IsrTx, ring, local
  <1>4. /\ upset' = IF pc = "wr5" /\ upset = "none" THEN "rts" ELSE upset
        /\ credit' = IF sio.rts /\ ~sio'.rts THEN Slack ELSE credit
    BY DEF IsrTx, RtsUpsetIf
  <1>5. TypeOK'
    BY <1>2, <1>3, <1>4, RingAssumption DEF IInv, TypeOK, IsrTx, SioState, Upset
  <1>6. TxTruth'
    BY <1>1, <1>3 DEF IInv, TxTruth
  <1>7. Used' = Used
    BY <1>3 DEF Used
  <1>8. Taking'
    BY <1>3, <1>4, <1>7 DEF IInv, Taking, Succ
  <1>9. Footing'
    <2>1. SUFFICES ASSUME upset' = "none" PROVE Footing'
      BY DEF Footing
    <2>2. upset = "none" /\ pc # "wr5"
      BY <1>4, <2>1
    <2>3. sio.ptr = 0
      BY <2>2 DEF IInv, Footing
    <2>4. sio'.ptr = 0 /\ sio'.rts = sio.rts
      BY <1>1, <2>3, WriteCommand
    <2>5. credit' = credit
      BY <1>4, <2>4
    <2> QED
      BY <1>3, <1>7, <2>2, <2>4, <2>5 DEF IInv, Footing
  <1> QED
    BY <1>5, <1>6, <1>8, <1>9 DEF IInv

\* The external-status interrupt.
LEMMA ExtKeeps == ASSUME IInv, IsrExt PROVE IInv'
  <1>1. sio \in SioState /\ sio' = Write(Read(sio), "reset_ext")
    BY DEF IInv, TypeOK, SioState, IsrExt
  <1>2. Read(sio) \in SioState /\ Read(sio).ptr = 0 /\ Read(sio).rts = sio.rts
        /\ Read(sio).txip = sio.txip
    BY <1>1, ReadState
  <1>3. sio' \in SioState /\ (sio'.txip => sio.txip) /\ sio'.ptr = 0 /\ sio'.rts = sio.rts
    BY <1>1, <1>2, WriteState, WriteCommand
  <1>4. UNCHANGED <<rxbuf, rxhead, rxtail, txbuf, tx_ready, credit, window, pc, ur1, new_tail, ch, got>>
    BY DEF IsrExt, ring, xmit, local
  <1>5. upset' = IF pc = "wr5" /\ upset = "none" THEN "rts" ELSE upset
    BY DEF IsrExt, RtsUpsetIf
  <1>6. TypeOK'
    BY <1>3, <1>4, <1>5 DEF IInv, TypeOK, SioState, Upset
  <1>7. TxTruth'
    BY <1>3, <1>4 DEF IInv, TxTruth
  <1>8. Used' = Used
    BY <1>4 DEF Used
  <1>9. Taking'
    BY <1>4, <1>5, <1>8 DEF IInv, Taking, Succ
  <1>10. Footing'
    BY <1>3, <1>4, <1>5, <1>8 DEF IInv, Footing
  <1> QED
    BY <1>6, <1>7, <1>9, <1>10 DEF IInv

\* The special-receive interrupt flushes the ring.
LEMMA SpecKeeps == ASSUME IInv, IsrSpec PROVE IInv'
  <1>1. sio \in SioState /\ sio' = Write(Read(Write(sio, "sel1")), "reset_err")
    BY DEF IInv, TypeOK, SioState, IsrSpec
  <1> DEFINE s1 == Write(sio, "sel1")
             s2 == Read(s1)
  <1>2. s1 \in SioState /\ (s1.txip => sio.txip) /\ (sio.ptr = 0 => s1.rts = sio.rts)
    BY <1>1, WriteState, WriteCommand
  <1>3. s2 \in SioState /\ s2.ptr = 0 /\ s2.rts = s1.rts /\ s2.txip = s1.txip
    BY <1>2, ReadState
  <1>4. sio' \in SioState /\ (sio'.txip => s2.txip) /\ sio'.ptr = 0 /\ sio'.rts = s2.rts
    BY <1>1, <1>3, WriteState, WriteCommand
  <1> HIDE DEF s1, s2
  <1>5. (sio'.txip => sio.txip) /\ (sio.ptr = 0 => sio'.rts = sio.rts)
    BY <1>2, <1>3, <1>4
  <1>6. UNCHANGED <<rxbuf, txbuf, tx_ready, window, pc, ur1, new_tail, ch, got>>
    BY DEF IsrSpec, xmit, local
  <1>7. /\ rxhead' = 0 /\ rxtail' = 0
        /\ credit' = IF sio.rts /\ ~sio'.rts THEN Slack ELSE credit
        /\ upset' = IF pc \in {"next", "load", "store", "check"} THEN "tail"
                    ELSE IF (pc = "wr5" \/ (~sio'.rts /\ pc # "sel5")) /\ upset = "none"
                         THEN "rts" ELSE upset
    BY DEF IsrSpec, RtsUpsetIf
  <1>8. 0 \in Index
    BY RingAssumption DEF Index
  <1>9. TypeOK'
    BY <1>4, <1>6, <1>7, <1>8, RingAssumption DEF IInv, TypeOK, SioState, Upset
  <1>10. TxTruth'
    BY <1>5, <1>6 DEF IInv, TxTruth
  <1>11. Used' = 0
    <2>1. (Used \in 0 .. RXBUFSZ - 1 /\ (Used = 0 <=> rxtail = rxhead))'
      BY <1>9, UsedRange, PTL
    <2> QED
      BY <1>7, <2>1
  <1>12. Taking'
    <2>1. window \in Nat
      BY RingAssumption DEF IInv, TypeOK
    <2> QED
      BY <1>6, <1>7, <1>11, <2>1 DEF Taking
  <1>13. Footing'
    <2>1. SUFFICES ASSUME upset' = "none" PROVE Footing'
      BY DEF Footing
    <2>2. upset = "none" /\ pc # "wr5" /\ (sio'.rts \/ pc = "sel5")
      BY <1>7, <2>1
    <2>3. sio'.rts = sio.rts
      BY <1>5, <2>2 DEF IInv, Footing
    <2>4. credit' = credit /\ credit \in 0 .. Slack
      BY <1>7, <2>3 DEF IInv, TypeOK
    <2> QED
      BY <1>4, <1>6, <1>11, <2>2, <2>3, <2>4, RingAssumption DEF Footing
  <1> QED
    BY <1>9, <1>10, <1>12, <1>13 DEF IInv

\* READER moves the tail over the byte it has loaded.
LEMMA StoreKeeps == ASSUME IInv, ReaderStore PROVE IInv'
  <1>1. pc = "store" /\ rxtail' = new_tail /\ got' = ch /\ pc' = IF ur1 THEN "idle" ELSE "check"
    BY DEF ReaderStore
  <1>2. UNCHANGED <<rxbuf, rxhead, sio, txbuf, tx_ready, credit, window, ur1, new_tail, ch>>
    BY DEF ReaderStore, xmit
  <1>3. upset' = IF ur1 /\ new_tail = rxhead /\ ~sio.rts /\ upset = "none" THEN "rts" ELSE upset
    BY DEF ReaderStore, RtsUpsetIf, Emptied
  <1>4. TypeOK'
    BY <1>1, <1>2, <1>3 DEF IInv, TypeOK, Upset
  <1>5. TxTruth'
    BY <1>2 DEF IInv, TxTruth
  <1>6. Taking'
    BY <1>1, <1>2 DEF Taking
  <1>7. Footing'
    <2>1. SUFFICES ASSUME upset' = "none" PROVE Footing'
      BY DEF Footing
    <2>2. upset = "none" /\ new_tail = Succ(rxtail) /\ rxtail # rxhead
      BY <1>1, <1>3, <2>1 DEF IInv, Taking
    <2>3. Used' = Used - 1 /\ Used \in 0 .. RXBUFSZ - 1
      BY <1>1, <1>2, <2>2, UsedGet, UsedRange DEF IInv, Used
    <2>4. Used' = 0 <=> new_tail = rxhead
      <3>1. (Used \in 0 .. RXBUFSZ - 1 /\ (Used = 0 <=> rxtail = rxhead))'
        BY <1>4, UsedRange, PTL
      <3> QED
        BY <1>1, <1>2, <3>1
    <2>5. credit \in 0 .. Slack
      BY DEF IInv, TypeOK
    <2> QED
      BY <1>1, <1>2, <1>3, <2>1, <2>2, <2>3, <2>4, <2>5, RingAssumption DEF IInv, Footing
  <1> QED
    BY <1>4, <1>5, <1>6, <1>7 DEF IInv

\* The reader that emptied the ring goes on to turn RTS on.
LEMMA CheckKeeps == ASSUME IInv, ReaderCheck PROVE IInv'
  <1>1. pc = "check" /\ pc' = (IF new_tail = rxhead THEN "sel5" ELSE "idle") /\ window' = 0
    BY DEF ReaderCheck, Emptied
  <1>2. UNCHANGED <<rxbuf, rxhead, rxtail, sio, txbuf, tx_ready, credit, ur1, new_tail, ch, got, upset>>
    BY DEF ReaderCheck, ring, xmit, local
  <1>3. Used' = Used /\ (Used = 0 <=> rxtail = rxhead)
    BY <1>2, UsedRange DEF IInv, Used
  <1>4. upset # "tail" => new_tail = rxtail
    BY <1>1 DEF IInv, Taking
  <1>5. TypeOK'
    BY <1>1, <1>2, RingAssumption DEF IInv, TypeOK
  <1>6. TxTruth'
    BY <1>2 DEF IInv, TxTruth
  <1>7. Taking'
    BY <1>1, <1>2, <1>3, <1>4 DEF Taking
  <1>8. Footing'
    BY <1>1, <1>2, <1>3, <1>4 DEF IInv, Footing
  <1> QED
    BY <1>5, <1>6, <1>7, <1>8 DEF IInv

\* The reader selects WR5.
LEMMA SelectKeeps == ASSUME IInv, ReaderSelect PROVE IInv'
  <1>1. /\ sio \in SioState /\ sio' = Write(sio, "sel5") /\ pc = "sel5" /\ pc' = "wr5"
        /\ credit' = IF sio.rts /\ ~sio'.rts THEN Slack ELSE credit
    BY DEF IInv, TypeOK, SioState, ReaderSelect
  <1>2. sio' \in SioState /\ (sio'.txip => sio.txip)
    BY <1>1, WriteState
  <1>3. UNCHANGED <<rxbuf, rxhead, rxtail, txbuf, tx_ready, window, ur1, new_tail, ch, got, upset>>
    BY DEF ReaderSelect, ring, xmit, local
  <1>4. Used' = Used
    BY <1>3 DEF Used
  <1>5. TypeOK'
    BY <1>1, <1>2, <1>3, RingAssumption DEF IInv, TypeOK, SioState
  <1>6. TxTruth'
    BY <1>2, <1>3 DEF IInv, TxTruth
  <1>7. Taking'
    BY <1>1, <1>3, <1>4 DEF IInv, Taking
  <1>8. Footing'
    <2>1. upset = "none" => sio.ptr = 0
      BY <1>1 DEF IInv, Footing
    <2>2. upset = "none" => sio'.ptr = 5 /\ sio'.rts = sio.rts
      BY <1>1, <2>1, WriteSelect
    <2> QED
      BY <1>1, <1>3, <1>4, <2>2 DEF IInv, Footing
  <1> QED
    BY <1>5, <1>6, <1>7, <1>8 DEF IInv

\* The reader writes WR5: RTS is on, with less than the threshold waiting.
LEMMA AssertKeeps == ASSUME IInv, ReaderAssert PROVE IInv'
  <1>1. sio \in SioState /\ sio' = Write(sio, "rts_on") /\ pc = "wr5" /\ pc' = "idle"
    BY DEF IInv, TypeOK, SioState, ReaderAssert
  <1>2. sio' \in SioState /\ (sio'.txip => sio.txip)
    BY <1>1, WriteState
  <1>3. UNCHANGED <<rxbuf, rxhead, rxtail, txbuf, tx_ready, credit, window, ur1, new_tail, ch, got, upset>>
    BY DEF ReaderAssert, ring, xmit, local
  <1>4. Used' = Used /\ Used \in 0 .. RXBUFSZ - 1
    BY <1>3, UsedRange DEF IInv, Used
  <1>5. TypeOK'
    BY <1>1, <1>2, <1>3 DEF IInv, TypeOK, SioState
  <1>6. TxTruth'
    BY <1>2, <1>3 DEF IInv, TxTruth
  <1>7. Taking'
    BY <1>1 DEF Taking
  <1>8. Footing'
    <2>1. SUFFICES ASSUME upset' = "none" PROVE Footing'
      BY DEF Footing
    <2>2. sio.ptr = 5
      BY <1>1, <1>3, <2>1 DEF IInv, Footing
    <2>3. sio'.ptr = 0 /\ sio'.rts
      BY <1>1, <2>2, WriteAssert
    <2>4. Used <= window /\ window \in 0 .. Burst
      BY <1>1, <1>3, <2>1 DEF IInv, Taking, TypeOK
    <2> QED
      BY <1>1, <1>4, <2>3, <2>4, RingAssumption DEF Footing
  <1> QED
    BY <1>5, <1>6, <1>7, <1>8 DEF IInv

\* The steps of the program that touch neither the ring's indices nor the SIO.
LEMMA ProgramKeeps ==
    ASSUME IInv, Reader \/ ReaderWait \/ ReaderNext \/ ReaderLoad \/ Punch PROVE IInv'
  <1>1. UNCHANGED <<rxbuf, rxhead, rxtail, sio, txbuf, tx_ready, credit, window, got, upset>>
    BY DEF Reader, ReaderWait, ReaderNext, ReaderLoad, Punch, ring, xmit, local
  <1>2. Used' = Used
    BY <1>1 DEF Used
  <1>3. TxTruth'
    BY <1>1 DEF IInv, TxTruth
  <1>4. TypeOK' /\ Taking'
    <2>1. CASE Reader
      BY <1>1, <2>1 DEF IInv, TypeOK, Taking, Reader
    <2>2. CASE ReaderWait
      BY <1>1, <2>2 DEF IInv, TypeOK, Taking, ReaderWait, local
    <2>3. CASE ReaderNext
      <3>1. Succ(rxtail) \in Index
        BY SuccIndex DEF IInv, TypeOK
      <3>2. TypeOK'
        BY <1>1, <2>3, <3>1 DEF IInv, TypeOK, ReaderNext
      <3>3. Taking'
        BY <1>1, <2>3 DEF IInv, Taking, ReaderNext, Succ
      <3> QED
        BY <3>2, <3>3
    <2>4. CASE ReaderLoad
      <3>1. ch' = rxbuf[rxtail] /\ rxbuf[rxtail] \in Byte
        BY <2>4 DEF ReaderLoad, ReadSlot, IInv, TypeOK
      <3>2. TypeOK'
        BY <1>1, <2>4, <3>1 DEF IInv, TypeOK, ReaderLoad
      <3>3. Taking'
        BY <1>1, <2>4, <3>1 DEF IInv, Taking, ReaderLoad, Succ
      <3> QED
        BY <3>2, <3>3
    <2>5. CASE Punch
      BY <1>1, <2>5 DEF IInv, TypeOK, Taking, Punch, local
    <2> QED
      BY <2>1, <2>2, <2>3, <2>4, <2>5
  <1>5. Footing'
    <2>1. pc \notin {"check", "sel5", "wr5"} /\ pc' \notin {"check", "sel5", "wr5"}
      BY DEF Reader, ReaderWait, ReaderNext, ReaderLoad, Punch
    <2> QED
      BY <1>1, <1>2, <2>1 DEF IInv, Footing
  <1> QED
    BY <1>3, <1>4, <1>5 DEF IInv

\* The transmitter: the buffer becomes empty, and PUNCH fills it.
LEMMA XmitKeeps == ASSUME IInv, TxEmpty \/ PunchSend PROVE IInv'
  <1>1. UNCHANGED <<rxbuf, rxhead, rxtail, credit, window, ur1, new_tail, ch, got, upset>>
    BY DEF TxEmpty, PunchSend, ring, local
  <1>2. Used' = Used
    BY <1>1 DEF Used
  <1>3. sio \in SioState
    BY DEF IInv, TypeOK, SioState
  <1>4. sio' \in SioState /\ sio'.ptr = sio.ptr /\ sio'.rts = sio.rts
    <2>1. CASE TxEmpty
      BY <1>3, <2>1 DEF TxEmpty, SioState
    <2>2. CASE PunchSend
      BY <1>3, <2>2 DEF PunchSend, SioState
    <2> QED
      BY <2>1, <2>2
  <1>5. TypeOK' /\ TxTruth'
    <2>1. CASE TxEmpty
      BY <1>1, <1>4, <2>1 DEF IInv, TypeOK, TxTruth, TxEmpty, SioState
    <2>2. CASE PunchSend
      <3>1. ~sio'.txip
        BY <1>3, <2>2 DEF PunchSend, SioState
      <3> QED
        BY <1>1, <1>4, <2>2, <3>1 DEF IInv, TypeOK, TxTruth, PunchSend, SioState, MarkBusy
    <2> QED
      BY <2>1, <2>2
  <1>6. pc' = pc \/ (pc = "punch" /\ pc' = "idle")
    BY DEF TxEmpty, PunchSend
  <1>7. Taking'
    BY <1>1, <1>2, <1>6 DEF IInv, Taking, Succ
  <1>8. Footing'
    BY <1>1, <1>2, <1>4, <1>6 DEF IInv, Footing
  <1> QED
    BY <1>5, <1>7, <1>8 DEF IInv

\* No step of READER, PUNCH, the SIO or a handler breaks the invariant.
LEMMA NextIInv == IInv /\ [Next]_vars => IInv'
  <1> SUFFICES ASSUME IInv, [Next]_vars PROVE IInv'
    OBVIOUS
  <1>1. CASE UNCHANGED vars
    <2>1. UNCHANGED <<rxbuf, rxhead, rxtail, sio, txbuf, tx_ready, credit, window, pc,
                      ur1, new_tail, ch, got, upset>>
      BY <1>1 DEF vars, ring, xmit, local
    <2>2. Used' = Used
      BY <2>1 DEF Used
    <2> QED
      BY <2>1, <2>2 DEF IInv, TypeOK, TxTruth, Taking, Footing, Succ
  <1> QED
    BY <1>1, RxKeeps, TxKeeps, ExtKeeps, SpecKeeps, StoreKeeps, CheckKeeps, SelectKeeps,
       AssertKeeps, ProgramKeeps, XmitKeeps DEF Next, Isr, ReaderStep

\* The strengthened invariant holds in every reachable state.
LEMMA Inductive == Spec => []IInv
  BY InitIInv, NextIInv, PTL DEF Spec

-----------------------------------------------------------------------------
(***************************************************************************)
(* What the code promises.                                                 *)
(***************************************************************************)

\* isr_sio_a_rx and bios_reader_body: whenever a byte may arrive there is room
\* for it, and READER never waits on an empty ring while the sender waits for
\* RTS, unless an upset has come before; for every ring, threshold and slack
\* that RingAssumption allows.
THEOREM FlowControl == Spec => []FlowControlled
  <1>1. IInv => FlowControlled
    <2> SUFFICES ASSUME IInv PROVE FlowControlled
      OBVIOUS
    <2>1. TypeOK /\ Used \in 0 .. RXBUFSZ - 1 /\ credit \in 0 .. Slack
      BY UsedRange DEF IInv, TypeOK
    <2>2. NoDrop
      BY <2>1, RingAssumption DEF IInv, Footing, NoDrop, MaySend
    <2>3. NoStall
      BY <2>1 DEF IInv, Footing, NoStall, MaySend
    <2> QED
      BY <2>1, <2>2, <2>3 DEF FlowControlled
  <1> QED
    BY Inductive, <1>1, PTL

\* PUNCH, LIST and serial_conout write a byte only into an empty transmit
\* buffer.
THEOREM TxSafe == Spec => []TxNotOverwritten
  <1>1. IInv => TxNotOverwritten
    BY DEF IInv, TxTruth, TxNotOverwritten
  <1> QED
    BY Inductive, <1>1, PTL

-----------------------------------------------------------------------------
(***************************************************************************)
(* The receive ring is a queue.                                            *)
(***************************************************************************)

\* A step of the ring seen as a step of the queue.
QueueStep == [Queue!Next]_<<Waiting, got>>

LEMMA SioIsRing == IInv => IsRing(rxbuf, rxhead, rxtail, RXBUFSZ, Byte)
  <1> SUFFICES ASSUME IInv PROVE IsRing(rxbuf, rxhead, rxtail, RXBUFSZ, Byte)
    OBVIOUS
  <1> QED
    BY RingTypes DEF IInv, IsRing

LEMMA WaitingHeld == Waiting = Held(rxbuf, rxhead, rxtail, RXBUFSZ)
  BY DEF Waiting, Held, Used

\* A byte stored by the handler joins the queue at its end.
LEMMA RxPuts == ASSUME IInv, IsrRx PROVE QueueStep
  <1>1. PICK b \in Byte :
          \/ UNCHANGED ring
          \/ /\ ~RingFull(Succ(rxhead))
             /\ rxbuf' = [rxbuf EXCEPT ![rxhead] = b]
             /\ rxhead' = Succ(rxhead)
             /\ UNCHANGED rxtail
    BY DEF IsrRx
  <1>2. UNCHANGED got
    BY DEF IsrRx, local
  <1>3. CASE UNCHANGED ring
    BY <1>2, <1>3 DEF ring, QueueStep, Waiting, Used
  <1>4. CASE ~UNCHANGED ring
    <2>1. (rxhead + 1) % RXBUFSZ # rxtail
      BY <1>1, <1>4 DEF RingFull, Succ
    <2>2. Len(Waiting) < RXBUFSZ - 1
      BY SioIsRing, <2>1, HeldRoom, WaitingHeld
    <2>3. Held(Stored(rxbuf, rxhead, b), (rxhead + 1) % RXBUFSZ, rxtail, RXBUFSZ)
            = Append(Waiting, b)
      BY SioIsRing, <2>1, HeldPut, WaitingHeld
    <2>4. Waiting' = Held(Stored(rxbuf, rxhead, b), (rxhead + 1) % RXBUFSZ, rxtail, RXBUFSZ)
      BY <1>1, <1>4 DEF Waiting, Used, Held, Succ, Stored
    <2>5. Queue!Put
      BY <1>2, <2>2, <2>3, <2>4 DEF Queue!Put
    <2> QED
      BY <2>5 DEF QueueStep, Queue!Next
  <1> QED
    BY <1>3, <1>4

\* READER moves the tail over the byte it returns: the oldest one.
LEMMA StoreGets == ASSUME IInv, ReaderStore, upset # "tail" PROVE QueueStep
  <1>1. rxtail # rxhead /\ got' = rxbuf[rxtail] /\ rxtail' = Succ(rxtail)
    BY DEF IInv, ReaderStore, Taking
  <1>2. UNCHANGED <<rxbuf, rxhead>>
    BY DEF ReaderStore
  <1>3. /\ Waiting # <<>> /\ Head(Waiting) = rxbuf[rxtail]
        /\ Held(rxbuf, rxhead, (rxtail + 1) % RXBUFSZ, RXBUFSZ) = Tail(Waiting)
    BY SioIsRing, <1>1, HeldGet, WaitingHeld
  <1>4. Waiting' = Held(rxbuf, rxhead, (rxtail + 1) % RXBUFSZ, RXBUFSZ)
    BY <1>1, <1>2 DEF Waiting, Used, Held, Succ
  <1>5. Queue!Get
    BY <1>1, <1>3, <1>4 DEF Queue!Get
  <1> QED
    BY <1>5 DEF QueueStep, Queue!Next

\* The special-receive handler empties the queue.
LEMMA SpecFlushes == ASSUME IInv, IsrSpec PROVE QueueStep
  <1>1. rxhead' = 0 /\ rxtail' = 0 /\ UNCHANGED <<rxbuf, got>> /\ "spec" \in Events
    BY DEF IsrSpec, local
  <1>2. IsRing(rxbuf, 0, 0, RXBUFSZ, Byte)
    BY SioIsRing DEF IsRing
  <1>3. Held(rxbuf, 0, 0, RXBUFSZ) = <<>>
    BY <1>2, HeldEmpty
  <1>4. Waiting' = Held(rxbuf, 0, 0, RXBUFSZ)
    BY <1>1 DEF Waiting, Used, Held
  <1>5. Queue!Flush
    BY <1>1, <1>3, <1>4 DEF Queue!Flush
  <1> QED
    BY <1>5 DEF QueueStep, Queue!Next

\* No other step moves the ring or the byte the program got.
LEMMA QueueSteps == IInv /\ [Next]_vars => [QueueStep \/ upset = "tail"]_vars
  <1> SUFFICES ASSUME IInv, Next, upset # "tail" PROVE QueueStep
    OBVIOUS
  <1>1. CASE UNCHANGED <<rxbuf, rxhead, rxtail, got>>
    BY <1>1 DEF QueueStep, Waiting, Used
  <1> QED
    BY <1>1, RxPuts, StoreGets, SpecFlushes DEF Next, Isr, ReaderStep, IsrTx, IsrExt, TxEmpty,
       Reader, ReaderWait, ReaderNext, ReaderLoad, ReaderCheck, ReaderSelect, ReaderAssert,
       Punch, PunchSend, ring, local

\* The empty ring is the empty queue.
LEMMA QueueInit == Init => Queue!Init
  <1> SUFFICES ASSUME Init PROVE Queue!Init
    OBVIOUS
  <1>1. IInv /\ rxhead = rxtail
    BY InitIInv DEF Init
  <1>2. Waiting = <<>>
    BY <1>1, SioIsRing, HeldEmpty, WaitingHeld
  <1> QED
    BY <1>1, <1>2 DEF Queue!Init, IInv, TypeOK

\* isr_sio_a_rx, bios_reader_body and isr_sio_a_spec, interleaved in any way: READER
\* returns the bytes in the order they came and each once, and a flush removes
\* what was waiting and nothing else, until a flush comes while READER is
\* taking a byte out.
THEOREM IsQueue == Spec => ImplementsQueue
  BY QueueInit, QueueSteps, Inductive, PTL DEF Spec, ImplementsQueue, QueueStep
=============================================================================
