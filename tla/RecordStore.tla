----------------------------- MODULE RecordStore -----------------------------
(***************************************************************************)
(* What the BIOS disk entry points promise the BDOS: a store of 128-byte   *)
(* records with READ and WRITE, over drives that can fail at any time.     *)
(*                                                                         *)
(* A record is "live" when CP/M wrote it, was told that the write worked,  *)
(* and has not given its block back since.  Only live records are promised *)
(* to keep their value.  A live record may be lost, but never quietly:     *)
(*   - a failed disk write loses the records of one host sector and leaves *)
(*     an error owed, which the next READ or WRITE must return;            *)
(*   - after an error there may be one sector "in doubt", whose records    *)
(*     can still be lost until the next transfer succeeds;                 *)
(*   - a reset loses the records of one host sector at most.               *)
(***************************************************************************)
CONSTANTS Record,     \* the records of all the drives
          Sector,     \* the host (physical) sectors
          SectorOf,   \* [Record -> Sector]
          Extent,     \* the sets of records that are given back together
          Value       \* what a record can hold

VARIABLES content,    \* [Record -> Value]: what a READ would find
          live,       \* the records whose value is promised
          owed,       \* an error has happened that no call has returned yet
          doubt,      \* sectors whose records may still be lost
          dma,        \* the record-sized buffer at the DMA address
          reply       \* "busy" during a READ or WRITE, then its outcome

vars == <<content, live, owed, doubt, dma, reply>>

InSector(h) == {r \in Record : SectorOf[r] = h}

\* The records of S keep their value in this step.
Keeps(S) == \A r \in S : content'[r] = content[r]

Init ==
    /\ content \in [Record -> Value]
    /\ live \subseteq Record
    /\ owed = FALSE
    /\ doubt = {}
    /\ dma \in Value
    /\ reply = "busy"

\* A READ or WRITE is called; a WRITE brings its data in the DMA buffer.
Call ==
    /\ reply' = "busy"
    /\ dma' \in Value
    /\ Keeps(live)
    /\ UNCHANGED <<live, owed, doubt>>

\* The records of S are given back (their block is freed).
Forget(S) ==
    /\ live' = live \ S
    /\ Keeps(live')
    /\ UNCHANGED <<owed, doubt, dma, reply>>

\* A READ delivers a record.
ReadOk(r) ==
    /\ ~owed
    /\ r \in live => dma' = content[r]
    /\ Keeps(live)
    /\ doubt' \subseteq doubt
    /\ reply' = "ok"
    /\ UNCHANGED <<live, owed>>

\* A WRITE takes effect; it answers now or after the sector reached the disk.
WriteOk(r) ==
    /\ ~owed
    /\ content'[r] = dma
    /\ Keeps(live \ {r})
    /\ live' = live \cup {r}
    /\ doubt' \subseteq doubt
    /\ reply' \in {"ok", "busy"}
    /\ UNCHANGED <<owed, dma>>

\* The sector of a WRITE that had to reach the disk has reached it.
WriteThrough ==
    /\ reply = "busy" /\ ~owed
    /\ Keeps(live)
    /\ reply' = "ok"
    /\ UNCHANGED <<live, owed, doubt, dma>>

\* A READ or WRITE of record r returns an error, and whatever error was owed
\* is thereby delivered.  A failed WRITE promises nothing of r, and leaves at
\* most the sector of r in doubt.
Error(r) ==
    /\ reply' = "err"
    /\ owed' = FALSE
    /\ live' \in {live, live \ {r}}
    /\ Keeps(live')
    /\ doubt' \subseteq doubt \cup {SectorOf[r]}

\* A disk write fails: the records of one sector are lost and an error is owed.
LoseSector(h) ==
    /\ owed' = TRUE
    /\ live' = live \ InSector(h)
    /\ Keeps(live')
    /\ doubt' \subseteq doubt \cup {h}
    /\ UNCHANGED <<dma, reply>>

\* ... and is returned by the very call it happened in.
LoseSectorError(h) ==
    /\ live' = live \ InSector(h)
    /\ Keeps(live')
    /\ reply' = "err"
    /\ owed' = FALSE
    /\ doubt' \subseteq doubt
    /\ UNCHANGED dma

\* The records of a sector in doubt are lost after all.
DoubtLoss(h) ==
    /\ h \in doubt
    /\ live' = live \ InSector(h)
    /\ Keeps(live')
    /\ doubt' \subseteq doubt
    /\ UNCHANGED <<owed, dma, reply>>

\* A reset: one sector's worth of records at most, and no error survives it.
Crash ==
    /\ \E h \in Sector : live' \in {live, live \ InSector(h)}
    /\ Keeps(live')
    /\ owed' = FALSE
    /\ doubt' = {}
    /\ reply' = "busy"
    /\ UNCHANGED dma

Next ==
    \/ Call
    \/ \E S \in Extent : Forget(S)
    \/ \E r \in Record : ReadOk(r) \/ WriteOk(r) \/ Error(r)
    \/ WriteThrough
    \/ \E h \in Sector : LoseSector(h) \/ LoseSectorError(h) \/ DoubtLoss(h)
    \/ Crash

Spec == Init /\ [][Next]_vars
=============================================================================
