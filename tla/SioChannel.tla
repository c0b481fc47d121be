------------------------------ MODULE SioChannel ------------------------------
(***************************************************************************)
(* One channel of the Z80-SIO as the BIOS drives it (rcbios-in-c/bios.c):  *)
(* the receive ring filled by an interrupt handler and emptied by READER   *)
(* (channel A) or CONIN (channel B), with RTS flow control; the            *)
(* transmitter used by PUNCH, LIST and serial console output; and the      *)
(* handlers for transmit, external-status and special-receive interrupts.  *)
(*                                                                         *)
(* The program's code is one step per access to shared state, since an     *)
(* interrupt may come between any two; a handler runs with interrupts off  *)
(* and is one step.  The control port of the SIO is two-step as well: a    *)
(* write to register 0 selects the register the next write goes to.        *)
(***************************************************************************)
EXTENDS Integers

CONSTANTS
    Byte,
    RXBUFSZ,     \* size of the ring
    RXTHHI,      \* RTS goes off when this many bytes are waiting
    Slack,       \* bytes that still arrive after RTS went off
    Burst,       \* bytes that arrive while the reader turns RTS on
    Events       \* what happens besides receiving: transmission and external
                 \* status and error interrupts; RDR:=UR1

\* The sender stops within the room left above RXTHHI, and no more than Burst
\* bytes (one character time is 260 us at 38400 baud) fit between the reader's
\* test for an empty ring and its write to WR5.
ASSUME RingAssumption ==
    /\ RXBUFSZ \in Nat /\ RXTHHI \in 1 .. RXBUFSZ - 1
    /\ Slack \in Nat /\ RXTHHI + Slack <= RXBUFSZ - 1
    /\ Burst \in Nat /\ Burst < RXTHHI
    /\ Events \subseteq {"tx", "ext", "spec", "ur1"}
    /\ Byte # {}

Index == 0 .. RXBUFSZ - 1

\* What the code writes to the control port.  0x28 resets the transmit
\* interrupt, 0x10 the external-status one, 0x30 an error.
Control == {"sel5", "sel1", "rts_on", "rts_off", "reset_tx", "reset_ext", "reset_err"}

VARIABLES
    rxbuf, rxhead, rxtail,
    sio,         \* register pointer, WR5's RTS and TX-enable bits, and transmit
                 \* interrupt pending
    txbuf,       \* a byte waits in the SIO's transmit buffer
    tx_ready,
    credit,      \* bytes the sender will still send with RTS off
    window,      \* bytes received since the reader found the ring empty
    pc,          \* where the program is: in no call, or in READER or PUNCH
    ur1,         \* READER was called with RDR:=UR1
    new_tail, ch,
    got,         \* the byte READER returned last
    upset        \* what has gone wrong between reader and handlers, see below

ring == <<rxbuf, rxhead, rxtail>>
xmit == <<txbuf, tx_ready>>
local == <<ur1, new_tail, ch, got>>
vars == <<ring, sio, xmit, credit, window, pc, local, upset>>

\* RTS flow control has lost its footing ("rts"): a handler used the control
\* port between the reader's select of WR5 and its write, or the ring was emptied
\* with RTS off, by a flush or by the UR1 case of READER, and nobody is about to
\* turn RTS on.  The ring itself has ("tail"): it was flushed while the reader
\* was working with its tail.
Upset == {"none", "rts", "tail"}

TypeOK ==
    /\ rxbuf \in [Index -> Byte] /\ rxhead \in Index /\ rxtail \in Index
    /\ sio \in [ptr : {0, 2, 5}, rts : BOOLEAN, txen : BOOLEAN, txip : BOOLEAN]
    /\ txbuf \in BOOLEAN /\ tx_ready \in BOOLEAN
    /\ credit \in 0 .. Slack
    /\ window \in 0 .. Burst
    /\ pc \in {"idle", "wait", "next", "load", "store", "check", "sel5", "wr5", "punch"}
    /\ ur1 \in BOOLEAN /\ new_tail \in Index /\ ch \in Byte /\ got \in Byte
    /\ upset \in Upset

(***************************************************************************)
(* The SIO's control port.                                                 *)
(***************************************************************************)

\* A write of v: to the register selected before, or to register 0, where v is
\* a command or selects the next register.  The WR5 values (0xEA, 0xE8), taken
\* as register 0 commands, reset the transmit interrupt, and 0xEA selects
\* register 2, which in channel B is the interrupt vector.
Write(s, v) ==
    CASE s.ptr = 0 -> [s EXCEPT
            !.ptr = CASE v = "sel5" -> 5 [] v = "rts_on" -> 2 [] OTHER -> 0,
            !.txip = @ /\ v \notin {"reset_tx", "rts_on", "rts_off"}]
      [] s.ptr = 5 -> [s EXCEPT
            !.ptr = 0,
            !.rts = (v = "rts_on"),
            !.txen = v \in {"rts_on", "rts_off", "reset_tx"}]
      [] s.ptr = 2 -> [s EXCEPT !.ptr = 0]

\* A read of the control port also ends a selection.
Read(s) == [s EXCEPT !.ptr = 0]

(***************************************************************************)
(* Interrupt handlers.                                                     *)
(***************************************************************************)

Succ(i) == (i + 1) % RXBUFSZ

Used == (rxhead - rxtail) % RXBUFSZ
MaySend == sio.rts \/ credit > 0

\* Bug: the threshold is tested one byte late.
PlentyOfRoom_Late(used) == used <= RXTHHI

PlentyOfRoom(used) == used < RXTHHI

RingFull(new_head) == new_head = rxtail

\* Turn RTS off; the sender notices and sends no more than Slack bytes.
RtsOff ==
    /\ sio' = Write(Write(sio, "sel5"), "rts_off")
    /\ credit' = IF sio.rts THEN Slack ELSE credit - 1

\* isr_sio_a_rx, isr_sio_b_rx: store the byte, and turn RTS off when the ring
\* is nearly full or the byte had to be dropped.
IsrRx ==
    /\ MaySend
    /\ pc \in {"sel5", "wr5"} => window < Burst
    /\ window' = IF pc \in {"sel5", "wr5"} THEN window + 1 ELSE window
    /\ \E b \in Byte :
          LET new_head == Succ(rxhead)
              used == (new_head - rxtail) % RXBUFSZ
          IN  \/ /\ RingFull(new_head)
                 /\ RtsOff
                 /\ UNCHANGED ring
              \/ /\ ~RingFull(new_head)
                 /\ rxbuf' = [rxbuf EXCEPT ![rxhead] = b]
                 /\ rxhead' = new_head
                 /\ UNCHANGED rxtail
                 /\ IF PlentyOfRoom(used)
                    THEN /\ credit' = IF sio.rts THEN credit ELSE credit - 1
                         /\ UNCHANGED sio
                    ELSE RtsOff
    /\ UNCHANGED <<xmit, pc, local, upset>>

RtsUpsetIf(cond) == upset' = IF cond /\ upset = "none" THEN "rts" ELSE upset

\* isr_sio_a_tx, isr_sio_b_tx: the transmit buffer is empty.
IsrTx ==
    /\ sio.txip
    /\ sio' = Write(sio, "reset_tx")
    /\ tx_ready' = TRUE
    /\ credit' = IF sio.rts /\ ~sio'.rts THEN Slack ELSE credit
    /\ RtsUpsetIf(pc = "wr5")
    /\ UNCHANGED <<ring, txbuf, window, pc, local>>

\* isr_sio_a_ext, isr_sio_b_ext: a modem line changed.
IsrExt ==
    /\ "ext" \in Events
    /\ sio' = Write(Read(sio), "reset_ext")
    /\ RtsUpsetIf(pc = "wr5")
    /\ UNCHANGED <<ring, xmit, credit, window, pc, local>>

\* isr_sio_a_spec, isr_sio_b_spec: a parity, framing or overrun error; the ring
\* is flushed.  With no selection pending, 0x01 selects RR1 and the read that
\* follows ends that selection.
IsrSpec ==
    /\ "spec" \in Events
    /\ sio' = Write(Read(Write(sio, "sel1")), "reset_err")
    /\ credit' = IF sio.rts /\ ~sio'.rts THEN Slack ELSE credit
    /\ rxhead' = 0 /\ rxtail' = 0
    /\ IF pc \in {"next", "load", "store", "check"} THEN upset' = "tail"
       ELSE RtsUpsetIf(pc = "wr5" \/ (~sio'.rts /\ pc # "sel5"))
    /\ UNCHANGED <<rxbuf, xmit, window, pc, local>>

\* The SIO has moved the byte to the shift register.
TxEmpty ==
    /\ txbuf /\ sio.txen
    /\ txbuf' = FALSE
    /\ sio' = [sio EXCEPT !.txip = TRUE]
    /\ UNCHANGED <<ring, tx_ready, credit, window, pc, local, upset>>

(***************************************************************************)
(* READER (bios_reader_body) and CONIN (serial_conin).                     *)
(***************************************************************************)

Reader ==
    /\ pc = "idle"
    /\ pc' = "wait"
    /\ ur1' \in BOOLEAN /\ (ur1' => "ur1" \in Events)
    /\ UNCHANGED <<ring, sio, xmit, credit, window, new_tail, ch, got, upset>>

ReaderWait ==
    /\ pc = "wait" /\ rxtail # rxhead
    /\ pc' = "next"
    /\ UNCHANGED <<ring, sio, xmit, credit, window, local, upset>>

ReaderNext ==
    /\ pc = "next"
    /\ new_tail' = Succ(rxtail)
    /\ pc' = "load"
    /\ UNCHANGED <<ring, sio, xmit, credit, window, ur1, ch, got, upset>>

\* Bug: the byte is taken after the index has been advanced.
ReadSlot_Next == new_tail

ReadSlot == rxtail

ReaderLoad ==
    /\ pc = "load"
    /\ ch' = rxbuf[ReadSlot]
    /\ pc' = "store"
    /\ UNCHANGED <<ring, sio, xmit, credit, window, ur1, new_tail, got, upset>>

Emptied == new_tail = rxhead

\* The UR1 case of READER ends here: it does no flow control.
ReaderStore ==
    /\ pc = "store"
    /\ rxtail' = new_tail
    /\ got' = ch
    /\ pc' = IF ur1 THEN "idle" ELSE "check"
    /\ RtsUpsetIf(ur1 /\ Emptied /\ ~sio.rts)
    /\ UNCHANGED <<rxbuf, rxhead, sio, xmit, credit, window, ur1, new_tail, ch>>

\* Bug: the reader goes on until the ring is empty.
ReaderCheck_Drains ==
    /\ pc = "check"
    /\ pc' = IF Emptied THEN "sel5" ELSE "wait"
    /\ window' = 0
    /\ UNCHANGED <<ring, sio, xmit, credit, local, upset>>

ReaderCheck ==
    /\ pc = "check"
    /\ pc' = IF Emptied THEN "sel5" ELSE "idle"
    /\ window' = 0
    /\ UNCHANGED <<ring, sio, xmit, credit, local, upset>>

ReaderSelect ==
    /\ pc = "sel5"
    /\ sio' = Write(sio, "sel5")
    /\ credit' = IF sio.rts /\ ~sio'.rts THEN Slack ELSE credit
    /\ pc' = "wr5"
    /\ UNCHANGED <<ring, xmit, window, local, upset>>

ReaderAssert ==
    /\ pc = "wr5"
    /\ sio' = Write(sio, "rts_on")
    /\ pc' = "idle"
    /\ UNCHANGED <<ring, xmit, credit, window, local, upset>>

(***************************************************************************)
(* PUNCH (bios_punch_body), LIST (list_lpt) and serial_conout.             *)
(***************************************************************************)

Punch ==
    /\ "tx" \in Events
    /\ pc = "idle"
    /\ pc' = "punch"
    /\ UNCHANGED <<ring, sio, xmit, credit, window, local, upset>>

\* Bug: the transmitter is not marked busy.
MarkBusy_Not == TRUE

MarkBusy == FALSE

\* The flag is cleared and the byte written with interrupts off.
PunchSend ==
    /\ pc = "punch" /\ tx_ready
    /\ tx_ready' = MarkBusy
    /\ txbuf' = TRUE
    /\ sio' = [sio EXCEPT !.txip = FALSE]
    /\ pc' = "idle"
    /\ UNCHANGED <<ring, credit, window, local, upset>>

-----------------------------------------------------------------------------
\* After readi(): RTS on, transmitter enabled, ring empty.
Init ==
    /\ \E b \in Byte : rxbuf = [i \in Index |-> b] /\ ch = b /\ got = b
    /\ rxhead = 0 /\ rxtail = 0
    /\ sio = [ptr |-> 0, rts |-> TRUE, txen |-> TRUE, txip |-> FALSE]
    /\ txbuf = FALSE /\ tx_ready = TRUE
    /\ credit = Slack /\ window = 0
    /\ pc = "idle" /\ ur1 = FALSE /\ new_tail = 0
    /\ upset = "none"

Isr == IsrRx \/ IsrTx \/ IsrExt \/ IsrSpec
ReaderStep == \/ ReaderWait \/ ReaderNext \/ ReaderLoad \/ ReaderStore
              \/ ReaderCheck \/ ReaderSelect \/ ReaderAssert

Next == Isr \/ TxEmpty \/ Reader \/ ReaderStep \/ Punch \/ PunchSend

Spec == Init /\ [][Next]_vars

\* The program's code goes on, and the sender goes on sending while it may.
FairSpec == Spec /\ WF_vars(ReaderStep) /\ WF_vars(IsrRx)

-----------------------------------------------------------------------------
(***************************************************************************)
(* Properties.                                                             *)
(***************************************************************************)

\* The bytes the program has not yet taken, oldest first.
Waiting == [i \in 1 .. Used |-> rxbuf[(rxtail + i - 1) % RXBUFSZ]]

Queue == INSTANCE ByteQueue WITH
            queue <- Waiting, Capacity <- RXBUFSZ - 1, Flushes <- "spec" \in Events

\* The ring is a queue: READER returns the bytes in the order they came, each
\* once, whatever interrupts it in the middle of its update, and a flush on a
\* line error removes what was waiting and nothing else; all this until a flush
\* comes while READER is taking a byte out.
ImplementsQueue ==
    /\ Queue!Init
    /\ [][[Queue!Next]_<<Waiting, got>> \/ upset = "tail"]_vars

\* RTS goes off early enough: whenever a byte may still arrive there is room
\* for it, so isr_sio_a_rx never drops one, unless one of the upsets has come
\* before.
NoDrop == MaySend => Used < RXBUFSZ - 1 \/ upset # "none"

\* No standstill: READER never waits for a byte on an empty ring while the
\* sender waits for RTS, unless one of the upsets has come before.
NoStall == (pc = "wait" /\ Used = 0) => MaySend \/ upset # "none"

\* A call of READER returns, as long as the sender has something to send and the
\* line is not in error for ever, unless one of the upsets has come before.
ReadReturns ==
    []<><<IsrSpec>>_vars \/ ((pc = "wait") ~> (pc = "idle" \/ upset # "none"))

\* A byte is written to the transmitter only when its buffer is empty: the
\* flag that IsrTx sets and PUNCH clears always tells the truth.
TxNotOverwritten == tx_ready => ~txbuf

\* "Reassert RTS-B when ring empties" (bios.c:913): the reader that emptied the
\* ring has left RTS on, or a byte has come since.
RtsReasserted == (pc = "wait" /\ Used = 0) => MaySend

\* RTS does what it is for (isr_sio_a_rx, bios_reader_body): the ring never has to
\* drop a byte, and neither side waits for the other for ever.
FlowControlled == TypeOK /\ NoDrop /\ NoStall
=============================================================================
