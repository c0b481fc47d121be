------------------------------- MODULE BiosDisk -------------------------------
(***************************************************************************)
(* The disk half of the RC702 CP/M BIOS (rcbios-in-c/bios.c): the one-     *)
(* sector host buffer that blocks and deblocks 128-byte CP/M records, with *)
(* SELDSK, HOME, READ, WRITE, the warm boot that reloads CCP+BDOS through  *)
(* it, and the cold boot that forgets it.                                  *)
(*                                                                         *)
(* A BIOS call is a few steps, one for each disk transfer it makes; pc is  *)
(* the place in the code, and caller the place a finished call returns to. *)
(* A transfer (wrthst, rdhst) works or, after the driver's retries, fails. *)
(* SETTRK, SETSEC and SETDMA only store their argument, and the BDOS makes *)
(* all three before every READ and WRITE: they are the parameters of those *)
(* two calls.  rdhst clears unalloc_count unless unalloc_mask is set, but  *)
(* both its callers have cleared it already, so the mask is left out.      *)
(***************************************************************************)
EXTENDS Integers, FiniteSets

CONSTANTS
    Drive,                    \* 0 .. max_drive_num
    Track,                    \* the cylinders in use; 1 holds CCP and BDOS
    HostSector,               \* host sector numbers, on any format
    SlotIndex,                \* record slots of hstbuf
    Value,                    \* contents of a 128-byte record
    Garbage,                  \* sectors a failed transfer may leave behind
    Format,                   \* format codes
    fd0,                      \* [Drive -> Format]: the drive format table
    cpm_sectors_per_track,    \* [Format -> Nat]: the FSPA fields ...
    records_per_alloc_block,  \* [Format -> Nat]
    deblock_mask,             \* [Format -> Nat]: records per sector, less 1
    TrkOff,                   \* reserved tracks (DPB off)
    DirBlocks,                \* directory blocks at the start of a drive
    NSECTS,                   \* records of CCP+BDOS on track 1
    SequentialAlloc           \* a new block is first written at its start

SectorsOf(f) == 0 .. cpm_sectors_per_track[f] - 1

\* cpm_sector >> (deblock_shift - 1): the host sector of a CP/M sector.
HostSectorOf(f, s) == s \div (deblock_mask[f] + 1)
\* cpm_sector & deblock_mask: its slot in that host sector.
SlotOf(f, s) == s % (deblock_mask[f] + 1)

ASSUME GeometryAssumption ==
    /\ Drive \subseteq Nat /\ 0 \in Drive
    /\ Track \subseteq Nat /\ 1 \in Track
    /\ TrkOff \in Nat /\ DirBlocks \in Nat /\ NSECTS \in Nat
    /\ fd0 \in [Drive -> Format]
    /\ cpm_sectors_per_track \in [Format -> Nat]
    /\ records_per_alloc_block \in [Format -> Nat \ {0}]
    /\ deblock_mask \in [Format -> Nat]
    /\ NSECTS <= cpm_sectors_per_track[fd0[0]]
    /\ \A f \in Format : 0 \in SectorsOf(f)
    /\ \A f \in Format : \A s \in SectorsOf(f) :
          HostSectorOf(f, s) \in HostSector /\ SlotOf(f, s) \in SlotIndex
    /\ Garbage \subseteq [SlotIndex -> Value] /\ Garbage # {}
    /\ SequentialAlloc \in BOOLEAN

\* On every format a track and an allocation block are whole host sectors.
ASSUME AlignmentAssumption ==
    \A f \in Format : /\ cpm_sectors_per_track[f] % (deblock_mask[f] + 1) = 0
                      /\ records_per_alloc_block[f] % (deblock_mask[f] + 1) = 0

VARIABLES
    disk,                \* what the drives hold
    hstbuf,              \* the host sector buffer
    hostbuf,             \* <<hostbuf_disk, hostbuf_track, hostbuf_sector>>
    hostbuf_valid, hostbuf_dirty, disk_error,
    cpm,                 \* <<cpm_disk, cpm_track, cpm_sector>>
    unalloc_count,
    unalloc,             \* <<unalloc_disk, unalloc_track, unalloc_sector>>
    current_format_idx,
    op,                  \* is_read, write_type and need_pre_read
    dma,                 \* the record at cpm_dma_addr
    reply,               \* what READ or WRITE returned
    pc, caller, sec,     \* sec is wboot_c's record counter
    alloc,               \* BDOS: the allocated blocks
    live                 \* BDOS: records that hold data (see RecordStore)

bufVars == <<hstbuf, hostbuf, hostbuf_valid, hostbuf_dirty, disk_error>>
posVars == <<cpm, unalloc_count, unalloc, current_format_idx, op>>
ctlVars == <<dma, reply, pc, caller, sec>>
vars == <<disk, bufVars, posVars, ctlVars, alloc, live>>

\* How the BDOS writes: to an allocated block, to the directory, or for the
\* first time to a block it has just allocated.
WriteType == {"WRALL", "WRDIR", "WRUAL"}
Sector == [SlotIndex -> Value]
Host == Drive \X Track \X HostSector
Record == UNION {{d} \X Track \X SectorsOf(fd0[d]) : d \in Drive}
HostOf(r) == <<r[1], r[2], HostSectorOf(fd0[r[1]], r[3])>>
RecordsIn(h) == {r \in Record : HostOf(r) = h}
OnDisk(r) == disk[HostOf(r)][SlotOf(fd0[r[1]], r[3])]

\* Allocation blocks start at the first track after the reserved ones.
Position(r) == (r[2] - TrkOff) * cpm_sectors_per_track[fd0[r[1]]] + r[3]
BlockOf(r) == <<r[1], Position(r) \div records_per_alloc_block[fd0[r[1]]]>>
DataRecord == {r \in Record : r[2] >= TrkOff}
Block == {BlockOf(r) : r \in DataRecord}
IsDir(b) == b[2] < DirBlocks
RecordsOfBlock(b) == {r \in DataRecord : BlockOf(r) = b}
FirstOfBlock(r) == Position(r) % records_per_alloc_block[fd0[r[1]]] = 0

FlushPoint == {"rwoper_flush", "dir_flush", "seldsk_flush", "home_flush"}
Label == FlushPoint \cup
         {"bdos", "rwoper_fill", "rwoper_match", "wboot_home", "wboot_load", "halted"}
Caller == {"bdos", "wboot_home", "wboot_load"}

TypeOK ==
    /\ disk \in [Host -> Sector]
    /\ hstbuf \in Sector
    /\ hostbuf \in Host
    /\ hostbuf_valid \in BOOLEAN /\ hostbuf_dirty \in BOOLEAN
    /\ disk_error \in BOOLEAN
    /\ cpm \in Drive \X Track \X Nat
    /\ unalloc_count \in Nat
    /\ unalloc \in Drive \X Nat \X Nat
    /\ current_format_idx \in Format
    /\ op \in [is_read : BOOLEAN, write_type : WriteType, need_pre_read : BOOLEAN]
    /\ dma \in Value
    /\ reply \in {"busy", "ok", "err"}
    /\ pc \in Label /\ caller \in Caller
    /\ sec \in 0 .. NSECTS
    /\ alloc \subseteq Block
    /\ live \subseteq Record

(***************************************************************************)
(* Disk transfers (chktrk and sec_rw).                                     *)
(***************************************************************************)

\* Bug: the DMA count is one record short.
Transfer_Short(from, to) ==
    [i \in SlotIndex |-> IF i < deblock_mask[current_format_idx]
                         THEN from[i] ELSE to[i]]

\* The DMA moves as many bytes as a sector of the current format has.
Transfer(from, to) ==
    [i \in SlotIndex |-> IF i <= deblock_mask[current_format_idx]
                         THEN from[i] ELSE to[i]]

\* wrthst: the buffer reaches its sector; a flush of a buffer that is not
\* valid puts that sector's records at the mercy of what the buffer held.
WrthstOk ==
    /\ disk' = [disk EXCEPT ![hostbuf] = Transfer(hstbuf, @)]
    /\ live' = IF hostbuf_valid THEN live ELSE live \ RecordsIn(hostbuf)
    /\ UNCHANGED <<hostbuf_valid, disk_error>>

\* A write that did not end well: nobody knows what the sector holds now.
SectorDamaged ==
    /\ \E s \in Garbage \cup {disk[hostbuf]} : disk' = [disk EXCEPT ![hostbuf] = s]
    /\ live' = live \ RecordsIn(hostbuf)

\* wrthst gives up.
WrthstFail ==
    /\ SectorDamaged
    /\ hostbuf_valid' = FALSE
    /\ disk_error' = TRUE

(***************************************************************************)
(* READ and WRITE.                                                         *)
(***************************************************************************)

\* cpm_sector_as_host, with the drive and track: what rwoper is asked for.
Target(c) == <<c[1], c[2], HostSectorOf(current_format_idx, c[3])>>

\* Bug: the drive is left out of the comparison.
BufferHolds_AnyDrive(c) == hostbuf[2] = Target(c)[2] /\ hostbuf[3] = Target(c)[3]

BufferHolds(c) == hostbuf = Target(c)

\* Where rwoper starts: the buffer matches, must be flushed, or is filled.
RwoperEntry(c) ==
    IF hostbuf_valid
    THEN IF BufferHolds(c) THEN "rwoper_match"
         ELSE IF hostbuf_dirty THEN "rwoper_flush" ELSE "rwoper_fill"
    ELSE "rwoper_fill"

\* Bug: a READ does not end a run of unallocated records.
RunAfterRead_Kept == unalloc_count

RunAfterRead == 0

XreadOp == [is_read |-> TRUE, write_type |-> "WRUAL", need_pre_read |-> TRUE]

\* xread: record s of track t of the selected drive.
Xread(t, s) ==
    /\ cpm' = <<cpm[1], t, s>>
    /\ unalloc_count' = RunAfterRead
    /\ op' = XreadOp
    /\ reply' = "busy"
    /\ pc' = RwoperEntry(cpm')
    /\ UNCHANGED <<disk, bufVars, unalloc, current_format_idx, dma, alloc, live>>

\* A WRITE of the first kind starts a run of records that are all new; the
\* run goes on while the records are written one after the other.
UnallocCount(wt) ==
    IF wt = "WRUAL" THEN records_per_alloc_block[current_format_idx] ELSE unalloc_count
UnallocAt(wt, c) == IF wt = "WRUAL" THEN c ELSE unalloc
InUnallocRun(wt, c) == UnallocCount(wt) # 0 /\ UnallocAt(wt, c) = c

NextSector(u) ==
    IF u[3] + 1 >= cpm_sectors_per_track[current_format_idx]
    THEN <<u[1], u[2] + 1, 0>> ELSE <<u[1], u[2], u[3] + 1>>

\* xwrite: record s of track t, of kind wt, from the DMA buffer.
Xwrite(wt, t, s) ==
    LET c == <<cpm[1], t, s>>
        run == InUnallocRun(wt, c)
    IN  /\ cpm' = c
        /\ unalloc_count' = IF run THEN UnallocCount(wt) - 1 ELSE 0
        /\ unalloc' = IF run THEN NextSector(c) ELSE unalloc
        /\ op' = [is_read |-> FALSE, write_type |-> wt,
                  need_pre_read |-> ~run /\ deblock_mask[current_format_idx] # 0]
        /\ reply' = "busy"
        /\ pc' = RwoperEntry(c)
        /\ UNCHANGED <<disk, bufVars, current_format_idx, live>>

\* rwoper flushes the sector it is about to drop.
RwoperFlush ==
    /\ pc = "rwoper_flush"
    /\ WrthstOk \/ WrthstFail
    /\ pc' = "rwoper_fill"
    /\ UNCHANGED <<hstbuf, hostbuf, hostbuf_dirty, posVars, dma, reply, caller, sec, alloc>>

\* Bug: a WRITE does not mark the buffer dirty.
DirtyAfter_Kept(dirty, through) == ~through /\ dirty

\* The copy of a WRITE marks the buffer dirty, the flush that follows the copy
\* of a directory record takes the mark off.
DirtyAfter(dirty, through) == ~through /\ (dirty \/ ~op.is_read)

\* rwoper from label match on, with buffer contents buf and flags valid, dirty
\* and err: the copy, the drop of a buffer in error, and the return, which
\* for a directory write comes after one more flush.
Match(buf, valid, dirty, err) ==
    LET slot == SlotOf(current_format_idx, cpm[3])
        through == op.write_type = "WRDIR" /\ ~err
    IN  /\ IF op.is_read
           THEN dma' = buf[slot] /\ hstbuf' = buf
           ELSE hstbuf' = [buf EXCEPT ![slot] = dma] /\ UNCHANGED dma
        /\ hostbuf_dirty' = DirtyAfter(dirty, through)
        /\ hostbuf_valid' = (valid /\ ~err)
        /\ disk_error' = FALSE
        /\ reply' = IF through THEN "busy" ELSE IF err THEN "err" ELSE "ok"
        /\ pc' = IF through THEN "dir_flush" ELSE caller
        /\ live' = IF op.is_read THEN live
                   ELSE IF err THEN live \ {cpm} ELSE live \cup {cpm}
        /\ UNCHANGED <<disk, posVars, caller, sec, alloc>>

RwoperMatch ==
    /\ pc = "rwoper_match"
    /\ Match(hstbuf, TRUE, hostbuf_dirty, disk_error)
    /\ UNCHANGED hostbuf

\* rwoper takes over the buffer for another sector, reading it first (rdhst)
\* when the call needs the rest of it; a failed read leaves anything in it.
RwoperFill ==
    /\ pc = "rwoper_fill"
    /\ hostbuf' = Target(cpm)
    /\ \/ ~op.need_pre_read /\ Match(hstbuf, TRUE, FALSE, disk_error)
       \/ op.need_pre_read /\ Match(Transfer(disk[Target(cpm)], hstbuf), TRUE, FALSE, disk_error)
       \/ op.need_pre_read /\ \E s \in Garbage : Match(Transfer(s, hstbuf), FALSE, FALSE, TRUE)

\* rwoper's flush of a directory record.
RwoperDirFlush ==
    /\ pc = "dir_flush"
    /\ \/ WrthstOk /\ reply' = "ok"
       \/ /\ SectorDamaged
          /\ hostbuf_valid' = FALSE
          /\ reply' = "err" /\ UNCHANGED disk_error
    /\ pc' = caller
    /\ UNCHANGED <<hstbuf, hostbuf, hostbuf_dirty, posVars, dma, caller, sec, alloc>>

(***************************************************************************)
(* SELDSK and HOME, as called from the place ret goes back to.             *)
(***************************************************************************)

\* Bug: the format changes under a dirty buffer.
MustFlush_Never(d) == FALSE

MustFlush(d) == fd0[d] # current_format_idx /\ hostbuf_dirty

\* bios_seldsk_c: a change of format flushes first.
SelectDrive(d, ret) ==
    /\ cpm' = [cpm EXCEPT ![1] = d]
    /\ IF MustFlush(d)
       THEN pc' = "seldsk_flush" /\ UNCHANGED current_format_idx
       ELSE pc' = ret /\ current_format_idx' = fd0[d]
    /\ caller' = ret
    /\ UNCHANGED <<disk, bufVars, unalloc_count, unalloc, op, dma, reply, sec, alloc, live>>

SeldskFlush ==
    /\ pc = "seldsk_flush"
    /\ WrthstOk \/ WrthstFail
    /\ hostbuf_dirty' = FALSE
    /\ current_format_idx' = fd0[cpm[1]]
    /\ pc' = caller
    /\ UNCHANGED <<hstbuf, hostbuf, cpm, unalloc_count, unalloc, op, dma, reply,
                   caller, sec, alloc>>

\* bios_home: a dirty buffer is written and kept (dirty still), a clean one is
\* dropped, and then the drive is recalibrated.
Home(ret) ==
    /\ pc' = IF hostbuf_dirty THEN "home_flush" ELSE ret
    /\ hostbuf_valid' = (hostbuf_valid /\ hostbuf_dirty)
    /\ caller' = ret
    /\ UNCHANGED <<disk, hstbuf, hostbuf, hostbuf_dirty, disk_error, dma, reply, alloc, live>>

HomeFlush ==
    /\ pc = "home_flush"
    /\ WrthstOk \/ WrthstFail
    /\ pc' = caller
    /\ UNCHANGED <<hstbuf, hostbuf, hostbuf_dirty, posVars, dma, reply, caller, sec, alloc>>

(***************************************************************************)
(* The BDOS's calls.                                                       *)
(***************************************************************************)

Seldsk ==
    /\ pc = "bdos"
    /\ \E d \in Drive : SelectDrive(d, "bdos")

BiosHome ==
    /\ pc = "bdos"
    /\ Home("bdos")
    /\ UNCHANGED <<posVars, sec>>

BiosRead ==
    /\ pc = "bdos"
    /\ \E r \in DataRecord : r[1] = cpm[1] /\ Xread(r[2], r[3])
    /\ caller' = "bdos"
    /\ UNCHANGED sec

\* diskwrite and wrdir of the BDOS choose the kind of a WRITE.
BdosWrites(wt, r) ==
    \/ wt = "WRALL" /\ BlockOf(r) \in alloc /\ ~IsDir(BlockOf(r))
    \/ wt = "WRDIR" /\ IsDir(BlockOf(r))
    \/ wt = "WRUAL" /\ BlockOf(r) \notin alloc /\ (SequentialAlloc => FirstOfBlock(r))

BiosWrite ==
    /\ pc = "bdos"
    /\ \E r \in DataRecord, wt \in WriteType, v \in Value :
          /\ r[1] = cpm[1]
          /\ BdosWrites(wt, r)
          /\ dma' = v
          /\ alloc' = alloc \cup {BlockOf(r)}
          /\ Xwrite(wt, r[2], r[3])
    /\ caller' = "bdos"
    /\ UNCHANGED sec

\* The BDOS deletes a file: a block is free again.
FreeBlock ==
    /\ pc = "bdos"
    /\ \E b \in alloc :
          /\ ~IsDir(b)
          /\ alloc' = alloc \ {b}
          /\ live' = live \ RecordsOfBlock(b)
    /\ UNCHANGED <<disk, bufVars, posVars, ctlVars>>

(***************************************************************************)
(* Warm and cold boot.                                                     *)
(***************************************************************************)

\* wboot_c starts: select drive 0 ...
Wboot ==
    /\ pc = "bdos"
    /\ SelectDrive(0, "wboot_home")

\* ... then home it and go to track 1 ...
WbootHome ==
    /\ pc = "wboot_home"
    /\ Home("wboot_load")
    /\ cpm' = [cpm EXCEPT ![2] = 1]
    /\ unalloc_count' = 0
    /\ sec' = 0
    /\ UNCHANGED <<unalloc, current_format_idx, op>>

MoreToLoad == sec < NSECTS

\* ... and read CCP and BDOS, record by record; the first error stops the
\* machine, and the last record hands over to the CCP.
WbootLoad ==
    /\ pc = "wboot_load"
    /\ LET failed == sec > 0 /\ reply = "err" IN
       \/ /\ ~failed /\ MoreToLoad
          /\ Xread(1, sec) /\ sec' = sec + 1 /\ UNCHANGED caller
       \/ /\ failed \/ ~MoreToLoad
          /\ pc' = IF failed THEN "halted" ELSE "bdos"
          /\ UNCHANGED <<disk, bufVars, posVars, dma, reply, caller, sec, alloc, live>>

\* The reset button: bios_hw_init and bios_boot_c start from nothing.  A write
\* that was under way may have damaged its sector, and what the buffer alone
\* held is gone.
ColdBoot ==
    /\ IF pc \in FlushPoint THEN SectorDamaged
       ELSE /\ UNCHANGED disk
            /\ live' = IF hostbuf_dirty THEN live \ RecordsIn(hostbuf) ELSE live
    /\ hostbuf_valid' = FALSE /\ hostbuf_dirty' = FALSE /\ disk_error' = FALSE
    /\ unalloc_count' = 0
    /\ current_format_idx' = fd0[0]
    /\ cpm' = [cpm EXCEPT ![1] = 0]
    /\ pc' = "wboot_home" /\ caller' = "wboot_home"
    /\ reply' = "busy"
    /\ UNCHANGED <<hstbuf, hostbuf, unalloc, op, dma, sec, alloc>>

-----------------------------------------------------------------------------
\* A machine just started from a disk whose directory is there, with any
\* contents; v0 stands for the contents of the records not in use yet.
Init ==
    /\ \E v0 \in Value : /\ disk = [h \in Host |-> [i \in SlotIndex |-> v0]]
                         /\ hstbuf = [i \in SlotIndex |-> v0]
                         /\ dma = v0
    /\ hostbuf = <<0, 1, HostSectorOf(fd0[0], 0)>>
    /\ hostbuf_valid = FALSE /\ hostbuf_dirty = FALSE /\ disk_error = FALSE
    /\ cpm = <<0, 1, 0>>
    /\ unalloc_count = 0
    /\ unalloc = <<0, 1, 0>>
    /\ current_format_idx = fd0[0]
    /\ op = XreadOp
    /\ reply = "busy"
    /\ pc = "wboot_home" /\ caller = "wboot_home"
    /\ sec = 0
    /\ alloc = {b \in Block : IsDir(b)}
    /\ live = {r \in DataRecord : IsDir(BlockOf(r))} \cup (Record \ DataRecord)

Next ==
    \/ Seldsk \/ BiosHome \/ BiosRead \/ BiosWrite \/ FreeBlock
    \/ RwoperFlush \/ RwoperFill \/ RwoperMatch \/ RwoperDirFlush
    \/ SeldskFlush \/ HomeFlush
    \/ Wboot \/ WbootHome \/ WbootLoad \/ ColdBoot

Spec == Init /\ [][Next]_vars

-----------------------------------------------------------------------------
(***************************************************************************)
(* Properties.                                                             *)
(***************************************************************************)

\* What a READ of record r would find: the buffer if it holds r's sector, else
\* the disk.
View(r) ==
    IF hostbuf_valid /\ hostbuf = HostOf(r)
    THEN hstbuf[SlotOf(fd0[r[1]], r[3])] ELSE OnDisk(r)

\* A valid buffer that is not marked dirty agrees with the disk on every record
\* slot of its sector, so that rwoper and HOME may drop it without a write.
\* (During a directory flush the mark is already off.)
Coherence ==
    (hostbuf_valid /\ ~hostbuf_dirty /\ pc # "dir_flush") =>
        \A i \in SlotIndex :
            i <= deblock_mask[fd0[hostbuf[1]]] => hstbuf[i] = disk[hostbuf][i]

\* A buffer that is still to be written is written with the geometry of its own
\* drive: SELDSK flushes before it changes the format, so no flush can use the
\* sector size and numbering of another drive.
FlushFormat ==
    (hostbuf_dirty \/ pc \in FlushPoint) => fd0[hostbuf[1]] = current_format_idx

\* The host buffer may be dropped when it is clean and written when it is dirty, also
\* after a change to a drive of another format.
BufferKept == Coherence /\ FlushFormat

\* A WRITE that skips the pre-read destroys no live record: whatever the buffer
\* puts into the other slots of the sector is what they hold already, or
\* nobody's data ("guaranteed-new territory", bios.c:1782).
NoPreReadIsSafe ==
    (pc = "rwoper_fill" /\ ~op.need_pre_read /\ ~disk_error) =>
        \A r \in live : (HostOf(r) = Target(cpm) /\ r # cpm) =>
            hstbuf[SlotOf(fd0[r[1]], r[3])] = OnDisk(r)

\* Where the code is tells what it relies on: the format is that of the
\* selected drive except while SELDSK flushes, a transfer's record exists on
\* that drive, the three plain flushes have something to write, and label match
\* is reached with the wanted sector in the buffer.
CallState ==
    /\ pc # "seldsk_flush" => current_format_idx = fd0[cpm[1]]
    /\ pc \in {"rwoper_flush", "rwoper_fill", "rwoper_match", "dir_flush"} => cpm \in Record
    /\ pc \in {"rwoper_flush", "seldsk_flush", "home_flush"} => hostbuf_dirty
    /\ pc = "rwoper_match" => hostbuf_valid /\ hostbuf = Target(cpm)
    /\ pc = "dir_flush" => ~hostbuf_dirty

\* A warm boot works on drive 0 until it is over, and a READ always pre-reads.
BootState ==
    /\ pc \in {"wboot_home", "wboot_load"} => caller = pc
    /\ (pc \notin {"bdos", "halted"} /\ caller # "bdos") => cpm[1] = 0
    /\ op.is_read => op.need_pre_read

\* The inductive invariant behind Coherence and FlushFormat.
IInv == TypeOK /\ CallState /\ BootState /\ Coherence /\ FlushFormat

\* Once a directory write has been answered with success everything CP/M has
\* written is on the disk, the data written before the directory record too:
\* closing a file makes it survive a reset.
DirWriteDurable ==
    [][(pc = "dir_flush" /\ reply' = "ok") => \A r \in live : OnDisk(r)' = View(r)]_vars

\* A disk write that works changes no record that CP/M has not written ("the
\* untouched bytes in that physical sector must be preserved", bios.c:1801).
FlushPreserves ==
    [][(/\ pc \in FlushPoint /\ pc' # "wboot_home" /\ ~disk_error'
        /\ pc = "dir_flush" => reply' = "ok") =>
          \A r \in live : View(r)' = View(r)]_vars

Store == INSTANCE RecordStore WITH
            Sector <- Host,
            SectorOf <- [r \in Record |-> HostOf(r)],
            Extent <- {RecordsOfBlock(b) : b \in Block},
            content <- [r \in Record |-> View(r)],
            owed <- disk_error,
            doubt <- IF hostbuf_dirty /\ ~hostbuf_valid THEN {hostbuf} ELSE {}

\* The driver implements the record store: a READ returns what was last written,
\* and no live record is lost without an error that CP/M gets to see.
ImplementsStore == Store!Spec
=============================================================================
