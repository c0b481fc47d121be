---------------------------- MODULE BiosDiskProofs ----------------------------
(***************************************************************************)
(* Proofs about BiosDisk, for every geometry that GeometryAssumption and   *)
(* AlignmentAssumption admit: the type invariant, the coherence of the     *)
(* host buffer with the disk, the format of every flush, the durability of *)
(* directory writes, the safety of writing without a pre-read, and the     *)
(* refinement of RecordStore.                                              *)
(***************************************************************************)
EXTENDS BiosDisk, DataTheorems

\* A record is a drive, a track and a sector that the drive's format has.
LEMMA RecordFacts ==
    /\ \A r \in Record : /\ r \in Drive \X Track \X Nat
                         /\ r[3] \in SectorsOf(fd0[r[1]])
    /\ \A d \in Drive, t \in Track : \A s \in SectorsOf(fd0[d]) : <<d, t, s>> \in Record
<1>1. ASSUME NEW r \in Record
      PROVE  r \in Drive \X Track \X Nat /\ r[3] \in SectorsOf(fd0[r[1]])
  <2>1. PICK d \in Drive : r \in {d} \X Track \X SectorsOf(fd0[d])
    BY DEF Record
  <2>2. SectorsOf(fd0[d]) \subseteq Nat
    BY GeometryAssumption DEF SectorsOf
  <2> QED
    BY <2>1, <2>2
<1>2. ASSUME NEW d \in Drive, NEW t \in Track, NEW s \in SectorsOf(fd0[d])
      PROVE  <<d, t, s>> \in Record
  BY DEF Record
<1> QED
  BY <1>1, <1>2

\* The sector and the slot that rwoper computes exist.
LEMMA TargetFacts ==
    ASSUME NEW c \in Record, current_format_idx = fd0[c[1]]
    PROVE  /\ Target(c) \in Host
           /\ Target(c)[1] = c[1]
           /\ SlotOf(current_format_idx, c[3]) \in SlotIndex
           /\ fd0[c[1]] \in Format
<1>1. c \in Drive \X Track \X Nat /\ c[3] \in SectorsOf(fd0[c[1]])
  BY RecordFacts
<1>2. fd0[c[1]] \in Format
  BY <1>1, GeometryAssumption
<1>3. HostSectorOf(fd0[c[1]], c[3]) \in HostSector /\ SlotOf(fd0[c[1]], c[3]) \in SlotIndex
  BY <1>1, <1>2, GeometryAssumption
<1> QED
  BY <1>1, <1>2, <1>3 DEF Target, Host

\* A transfer yields a sector.
LEMMA TransferType ==
    ASSUME NEW a \in Sector, NEW b \in Sector
    PROVE  Transfer(a, b) \in Sector
  BY DEF Transfer, Sector

LEMMA InitIInv == Init => IInv
<1> SUFFICES ASSUME Init PROVE IInv
  OBVIOUS
<1>0. 0 \in Drive /\ 1 \in Track /\ fd0[0] \in Format /\ 0 \in SectorsOf(fd0[0])
  BY GeometryAssumption
<1>1. HostSectorOf(fd0[0], 0) \in HostSector
  BY <1>0, GeometryAssumption
<1>2. TypeOK
  <2>1. disk \in [Host -> Sector] /\ hstbuf \in Sector /\ dma \in Value
    BY DEF Init, Sector
  <2>2. hostbuf \in Host
    BY <1>0, <1>1 DEF Init, Host
  <2>3. cpm \in Drive \X Track \X Nat /\ unalloc \in Drive \X Nat \X Nat
    BY <1>0, GeometryAssumption DEF Init
  <2>4. alloc \subseteq Block /\ live \subseteq Record
    BY DEF Init, DataRecord
  <2>5. sec \in 0 .. NSECTS
    BY GeometryAssumption DEF Init
  <2> QED
    BY <1>0, <2>1, <2>2, <2>3, <2>4, <2>5 DEF Init, TypeOK, XreadOp, WriteType, Label, Caller, FlushPoint
<1>3. CallState /\ BootState
  BY <1>0 DEF Init, CallState, BootState, XreadOp
<1>4. Coherence /\ FlushFormat
  BY DEF Init, Coherence, FlushFormat, FlushPoint
<1> QED
  BY <1>2, <1>3, <1>4 DEF IInv

\* Both outcomes of wrthst keep the disk and the record set well-typed, and a
\* flush of the right format makes the sector equal to the buffer.
LEMMA WrthstFacts ==
    ASSUME TypeOK, WrthstOk \/ SectorDamaged
    PROVE  /\ disk' \in [Host -> Sector]
           /\ live' \subseteq Record
           /\ WrthstOk => \A i \in SlotIndex :
                 i <= deblock_mask[current_format_idx] => disk'[hostbuf][i] = hstbuf[i]
<1>1. CASE WrthstOk
  <2>1. Transfer(hstbuf, disk[hostbuf]) \in Sector
    BY TransferType DEF TypeOK
  <2>2. disk' = [disk EXCEPT ![hostbuf] = Transfer(hstbuf, disk[hostbuf])]
    BY <1>1 DEF WrthstOk
  <2>3. disk' \in [Host -> Sector] /\ disk'[hostbuf] = Transfer(hstbuf, disk[hostbuf])
    BY <2>1, <2>2 DEF TypeOK
  <2>4. \A i \in SlotIndex : i <= deblock_mask[current_format_idx] =>
                disk'[hostbuf][i] = hstbuf[i]
    BY <2>3 DEF Transfer
  <2>5. live' \subseteq Record
    BY <1>1 DEF WrthstOk, TypeOK
  <2> QED
    BY <2>3, <2>4, <2>5
<1>2. CASE SectorDamaged /\ ~WrthstOk
  BY <1>2, GeometryAssumption DEF SectorDamaged, TypeOK, Sector
<1> QED
  BY <1>1, <1>2

\* The entry of rwoper for a record c of the selected drive, after xread or
\* xwrite has set the position and left the buffer alone.
LEMMA EntryFacts ==
    ASSUME IInv, pc # "dir_flush", NEW c \in Record, current_format_idx = fd0[c[1]],
           cpm' = c, pc' = RwoperEntry(c), UNCHANGED <<disk, bufVars, current_format_idx>>
    PROVE  pc' \in Label /\ CallState' /\ Coherence' /\ FlushFormat'
<1>1. pc' \in {"rwoper_flush", "rwoper_fill", "rwoper_match"}
  BY DEF RwoperEntry
<1>2. pc' = "rwoper_flush" => hostbuf_dirty
  BY DEF RwoperEntry
<1>3. pc' = "rwoper_match" => hostbuf_valid /\ hostbuf = Target(c)
  BY DEF RwoperEntry, BufferHolds
<1>4. Target(cpm)' = Target(c)
  BY DEF Target
<1>5. CallState'
  BY <1>1, <1>2, <1>3, <1>4 DEF CallState, bufVars
<1>6. FlushFormat'
  BY <1>1, <1>2 DEF FlushFormat, IInv, bufVars, FlushPoint
<1>7. Coherence'
  BY DEF Coherence, IInv, bufVars
<1> QED
  BY <1>1, <1>5, <1>6, <1>7 DEF Label, FlushPoint

\* rwoper from label match on, for a buffer that belongs to the wanted sector
\* and, if it may be dropped without a write, agrees with it.
LEMMA MatchInv ==
    ASSUME IInv, pc \in {"rwoper_fill", "rwoper_match"},
           NEW buf \in Sector, NEW valid \in BOOLEAN, NEW dirty \in BOOLEAN, NEW err \in BOOLEAN,
           valid /\ ~dirty /\ op.is_read => \A i \in SlotIndex :
               i <= deblock_mask[current_format_idx] => buf[i] = disk[Target(cpm)][i],
           hostbuf' = Target(cpm), Match(buf, valid, dirty, err)
    PROVE  IInv'
<1> DEFINE slot == SlotOf(current_format_idx, cpm[3])
           through == op.write_type = "WRDIR" /\ ~err
<1>0. cpm \in Record /\ current_format_idx = fd0[cpm[1]] /\ caller \in Caller
  BY DEF IInv, CallState, TypeOK
<1>1. /\ Target(cpm) \in Host /\ Target(cpm)[1] = cpm[1]
      /\ slot \in SlotIndex /\ fd0[cpm[1]] \in Format
  BY <1>0, TargetFacts
<1>2. UNCHANGED <<disk, cpm, unalloc_count, unalloc, current_format_idx, op, caller, sec, alloc>>
  BY DEF Match, posVars
<1>3. /\ dma' \in Value /\ hstbuf' \in Sector
      /\ op.is_read => hstbuf' = buf
  BY <1>1 DEF Match, IInv, TypeOK, Sector
<1>4. /\ hostbuf_dirty' = (~through /\ (dirty \/ ~op.is_read))
      /\ hostbuf_valid' = (valid /\ ~err) /\ disk_error' = FALSE
      /\ pc' = IF through THEN "dir_flush" ELSE caller
      /\ reply' \in {"busy", "ok", "err"}
  BY DEF Match, DirtyAfter
<1>5. live' \subseteq Record
  BY <1>0 DEF Match, IInv, TypeOK
<1>6. pc' \in Label /\ (pc' = "dir_flush" \/ pc' \in Caller)
  BY <1>0, <1>4 DEF Label, FlushPoint, Caller
<1>7. TypeOK'
  BY <1>1, <1>2, <1>3, <1>4, <1>5, <1>6 DEF IInv, TypeOK
<1>8. CallState' /\ BootState'
  BY <1>0, <1>2, <1>4, <1>6 DEF IInv, CallState, BootState, Caller
<1>9. FlushFormat'
  BY <1>0, <1>1, <1>2 DEF FlushFormat
<1>10. Coherence'
  <2> SUFFICES ASSUME hostbuf_valid', ~hostbuf_dirty', pc' # "dir_flush",
                      NEW i \in SlotIndex, i <= deblock_mask[fd0[hostbuf'[1]]]
               PROVE  hstbuf'[i] = disk'[hostbuf'][i]
    BY DEF Coherence
  <2>1. ~through /\ ~dirty /\ op.is_read /\ valid
    BY <1>4
  <2> QED
    BY <2>1, <1>0, <1>1, <1>2, <1>3
<1> QED
  BY <1>7, <1>8, <1>9, <1>10 DEF IInv

\* A plain flush (everything but the directory's) leaves buffer and position
\* alone; it may take the dirty mark off only after it has tried to write.
LEMMA FlushInv ==
    ASSUME IInv, pc \in {"rwoper_flush", "seldsk_flush", "home_flush"},
           WrthstOk \/ WrthstFail,
           UNCHANGED <<hstbuf, hostbuf, cpm, unalloc_count, unalloc, op, dma, reply, caller, sec, alloc>>,
           pc' = IF pc = "rwoper_flush" THEN "rwoper_fill" ELSE caller,
           hostbuf_dirty' = (pc # "seldsk_flush"),
           current_format_idx' = fd0[cpm[1]]
    PROVE  IInv'
<1>1. /\ disk' \in [Host -> Sector] /\ live' \subseteq Record
      /\ WrthstOk => \A i \in SlotIndex :
            i <= deblock_mask[current_format_idx] => disk'[hostbuf][i] = hstbuf[i]
  BY WrthstFacts DEF IInv, WrthstFail
<1>2. hostbuf_valid' \in BOOLEAN /\ disk_error' \in BOOLEAN
  BY DEF WrthstOk, WrthstFail, IInv, TypeOK
<1>3. fd0[cpm[1]] \in Format
  BY GeometryAssumption DEF IInv, TypeOK
<1>4. pc' \in Label /\ pc' \notin FlushPoint \cup {"rwoper_match"}
  BY DEF IInv, TypeOK, Caller, Label, FlushPoint
<1>5. TypeOK'
  BY <1>1, <1>2, <1>3, <1>4 DEF IInv, TypeOK
<1>6. pc' = "rwoper_fill" => pc = "rwoper_flush"
  BY DEF IInv, TypeOK, Caller
<1>7. CallState' /\ BootState'
  BY <1>4, <1>6 DEF IInv, CallState, BootState, FlushPoint, TypeOK, Caller
<1>8. FlushFormat'
  <2>1. fd0[hostbuf[1]] = current_format_idx
    BY DEF IInv, FlushFormat, FlushPoint
  <2> QED
    BY <2>1, <1>4 DEF FlushFormat, IInv, CallState
<1>9. Coherence'
  <2>1. fd0[hostbuf[1]] = current_format_idx
    BY DEF IInv, FlushFormat, FlushPoint
  <2>2. CASE WrthstOk
    BY <2>1, <2>2, <1>1 DEF Coherence
  <2>3. CASE WrthstFail
    BY <2>3 DEF WrthstFail, Coherence
  <2> QED
    BY <2>2, <2>3
<1> QED
  BY <1>5, <1>7, <1>8, <1>9 DEF IInv

\* SELDSK up to its flush.
LEMMA SelectDriveInv ==
    ASSUME IInv, pc = "bdos", NEW d \in Drive, NEW ret \in Caller, SelectDrive(d, ret),
           ret = "bdos" \/ (ret = "wboot_home" /\ d = 0)
    PROVE  IInv'
<1>1. /\ UNCHANGED <<disk, hstbuf, hostbuf, hostbuf_valid, hostbuf_dirty, disk_error, unalloc_count,
                     unalloc, op, dma, reply, sec, alloc, live>>
      /\ cpm' = [cpm EXCEPT ![1] = d] /\ caller' = ret
  BY DEF SelectDrive, bufVars
<1>2. cpm' \in Drive \X Track \X Nat /\ cpm'[1] = d
  BY <1>1 DEF IInv, TypeOK
<1>3. fd0[d] \in Format
  BY GeometryAssumption
<1>4. CASE MustFlush(d)
  <2>1. pc' = "seldsk_flush" /\ current_format_idx' = current_format_idx /\ hostbuf_dirty
    BY <1>4 DEF SelectDrive, MustFlush
  <2>2. TypeOK'
    BY <1>1, <1>2, <2>1 DEF IInv, TypeOK, Label, FlushPoint
  <2>3. CallState' /\ BootState' /\ Coherence' /\ FlushFormat'
    BY <1>1, <1>2, <2>1 DEF IInv, CallState, BootState, Coherence, FlushFormat
  <2> QED
    BY <2>2, <2>3 DEF IInv
<1>5. CASE ~MustFlush(d)
  <2>1. pc' = ret /\ current_format_idx' = fd0[d]
    BY <1>5 DEF SelectDrive
  <2>2. TypeOK'
    BY <1>1, <1>2, <1>3, <2>1 DEF IInv, TypeOK, Label, Caller
  <2>3. CallState' /\ BootState' /\ Coherence'
    BY <1>1, <1>2, <2>1 DEF IInv, CallState, BootState, Coherence, Caller
  <2>4. FlushFormat'
    BY <1>1, <1>5, <2>1 DEF IInv, FlushFormat, MustFlush, Caller, FlushPoint
  <2> QED
    BY <2>2, <2>3, <2>4 DEF IInv
<1> QED
  BY <1>4, <1>5

\* HOME up to its flush, as the BDOS calls it and as wboot_c does.
LEMMA HomeInv ==
    ASSUME IInv, NEW ret \in Caller, Home(ret),
           (pc = "bdos" /\ ret = "bdos") \/ (pc = "wboot_home" /\ ret = "wboot_load"),
           cpm' \in Drive \X Track \X Nat, cpm'[1] = cpm[1], unalloc_count' \in Nat,
           sec' \in 0 .. NSECTS, UNCHANGED <<unalloc, current_format_idx, op>>
    PROVE  IInv'
<1>1. /\ UNCHANGED <<disk, hstbuf, hostbuf, hostbuf_dirty, disk_error, dma, reply, alloc, live>>
      /\ hostbuf_valid' = (hostbuf_valid /\ hostbuf_dirty) /\ caller' = ret
      /\ pc' = IF hostbuf_dirty THEN "home_flush" ELSE ret
  BY DEF Home
<1>2. TypeOK'
  BY <1>1 DEF IInv, TypeOK, Label, Caller, FlushPoint
<1>3. CallState' /\ BootState'
  BY <1>1 DEF IInv, CallState, BootState, Caller
<1>4. Coherence' /\ FlushFormat'
  BY <1>1 DEF IInv, Coherence, FlushFormat, Caller, FlushPoint
<1> QED
  BY <1>2, <1>3, <1>4 DEF IInv

\* A step of xread or xwrite, up to the entry of rwoper.
LEMMA CallInv ==
    ASSUME IInv, pc \in {"bdos", "wboot_load"}, NEW c \in Record, c[1] = cpm[1],
           cpm' = c, pc' = RwoperEntry(c), UNCHANGED <<disk, bufVars, current_format_idx, live>>,
           unalloc_count' \in Nat, unalloc' \in Drive \X Nat \X Nat,
           op' \in [is_read : BOOLEAN, write_type : WriteType, need_pre_read : BOOLEAN],
           op'.is_read => op'.need_pre_read,
           (pc = "bdos" /\ caller' = "bdos") \/ (pc = "wboot_load" /\ caller' = caller),
           dma' \in Value, reply' = "busy", sec' \in 0 .. NSECTS,
           alloc' \subseteq Block
    PROVE  IInv'
<1>1. pc' \in Label /\ CallState' /\ Coherence' /\ FlushFormat'
  BY EntryFacts DEF IInv, CallState
<1>2. cpm' \in Drive \X Track \X Nat
  BY RecordFacts
<1>3. TypeOK'
  BY <1>1, <1>2 DEF IInv, TypeOK, bufVars, Caller
<1>4. BootState'
  BY DEF RwoperEntry, IInv, BootState
<1> QED
  BY <1>1, <1>3, <1>4 DEF IInv

LEMMA NextIInv == IInv /\ [Next]_vars => IInv'
<1> SUFFICES ASSUME IInv, [Next]_vars PROVE IInv'
  OBVIOUS
<1> USE DEF posVars, ctlVars
<1>0. TypeOK /\ CallState /\ BootState /\ Coherence /\ FlushFormat
  BY DEF IInv
<1>1. CASE Seldsk
  BY <1>1, SelectDriveInv DEF Seldsk, Caller
<1>2. CASE BiosHome
  BY <1>0, <1>2, HomeInv DEF BiosHome, Caller, TypeOK
<1>3. CASE BiosRead
  <2>1. PICK r \in DataRecord : r[1] = cpm[1] /\ Xread(r[2], r[3])
    BY <1>3 DEF BiosRead
  <2>2. r \in Record /\ r = <<cpm[1], r[2], r[3]>>
    BY <2>1, RecordFacts DEF DataRecord
  <2>3. /\ cpm' = r /\ pc' = RwoperEntry(r) /\ unalloc_count' = 0 /\ op' = XreadOp
        /\ reply' = "busy"
        /\ UNCHANGED <<disk, bufVars, unalloc, current_format_idx, dma, alloc, live>>
    BY <2>1, <2>2 DEF Xread, RunAfterRead
  <2>4. /\ XreadOp \in [is_read : BOOLEAN, write_type : WriteType, need_pre_read : BOOLEAN]
        /\ XreadOp.need_pre_read
    BY DEF XreadOp, WriteType
  <2> QED
    BY <1>0, <1>3, <2>1, <2>2, <2>3, <2>4, CallInv DEF BiosRead, TypeOK, Caller
<1>4. CASE BiosWrite
  <2>1. PICK r \in DataRecord, wt \in WriteType, v \in Value :
          /\ r[1] = cpm[1] /\ dma' = v /\ alloc' = alloc \cup {BlockOf(r)}
          /\ Xwrite(wt, r[2], r[3])
    BY <1>4 DEF BiosWrite
  <2>2. /\ r \in Record /\ r = <<cpm[1], r[2], r[3]>> /\ r \in Drive \X Track \X Nat
        /\ BlockOf(r) \in Block
    BY <2>1, RecordFacts DEF DataRecord, Block
  <2>3. /\ cpm' = r /\ pc' = RwoperEntry(r) /\ reply' = "busy"
        /\ unalloc_count' = IF InUnallocRun(wt, r) THEN UnallocCount(wt) - 1 ELSE 0
        /\ unalloc' = IF InUnallocRun(wt, r) THEN NextSector(r) ELSE unalloc
        /\ op' = [is_read |-> FALSE, write_type |-> wt,
                  need_pre_read |-> ~InUnallocRun(wt, r) /\ deblock_mask[current_format_idx] # 0]
        /\ UNCHANGED <<disk, bufVars, current_format_idx, live>>
    BY <2>1, <2>2 DEF Xwrite
  <2>4. unalloc_count' \in Nat
    <3>1. UnallocCount(wt) \in Nat
      BY <1>0, GeometryAssumption DEF UnallocCount, TypeOK
    <3> QED
      BY <2>3, <3>1 DEF InUnallocRun
  <2>5. unalloc' \in Drive \X Nat \X Nat
    <3>1. NextSector(r) \in Drive \X Nat \X Nat
      <4>1. r[1] \in Drive /\ r[2] \in Nat /\ r[3] \in Nat
        BY <2>2, GeometryAssumption
      <4>2. <<r[1], r[2] + 1, 0>> \in Drive \X Nat \X Nat
        BY <4>1
      <4>3. <<r[1], r[2], r[3] + 1>> \in Drive \X Nat \X Nat
        BY <4>1
      <4> QED
        BY <4>2, <4>3 DEF NextSector
    <3> QED
      BY <1>0, <2>3, <3>1 DEF TypeOK
  <2>6. op' \in [is_read : BOOLEAN, write_type : WriteType, need_pre_read : BOOLEAN] /\ ~op'.is_read
    BY <2>3
  <2>7. alloc' \subseteq Block /\ dma' \in Value /\ caller' = "bdos" /\ sec' \in 0 .. NSECTS
    BY <1>0, <1>4, <2>1, <2>2 DEF BiosWrite, TypeOK, Caller
  <2> QED
    BY <1>4, <2>1, <2>2, <2>3, <2>4, <2>5, <2>6, <2>7, CallInv DEF BiosWrite
<1>5. CASE FreeBlock
  BY <1>0, <1>5 DEF FreeBlock, IInv, TypeOK, CallState, BootState, Coherence, FlushFormat, bufVars, Target
<1>6. CASE RwoperFlush
  BY <1>0, <1>6, FlushInv DEF RwoperFlush, CallState
<1>7. CASE RwoperFill
  <2>1. pc = "rwoper_fill" /\ hostbuf' = Target(cpm)
    BY <1>7 DEF RwoperFill
  <2>2. Target(cpm) \in Host /\ disk_error \in BOOLEAN /\ hstbuf \in Sector
    BY <1>0, <2>1, TargetFacts DEF CallState, TypeOK
  <2>3. CASE ~op.need_pre_read /\ Match(hstbuf, TRUE, FALSE, disk_error)
    <3>1. ~op.is_read
      BY <1>0, <2>3 DEF BootState
    <3> QED
      BY <2>1, <2>2, <2>3, <3>1, MatchInv
  <2>4. CASE op.need_pre_read /\ Match(Transfer(disk[Target(cpm)], hstbuf), TRUE, FALSE, disk_error)
    <3> DEFINE buf == Transfer(disk[Target(cpm)], hstbuf)
    <3>1. buf \in Sector
      BY <1>0, <2>2, TransferType DEF TypeOK
    <3>2. \A i \in SlotIndex : i <= deblock_mask[current_format_idx] => buf[i] = disk[Target(cpm)][i]
      BY DEF Transfer
    <3> QED
      BY <2>1, <2>2, <2>4, <3>1, <3>2, MatchInv
  <2>5. CASE op.need_pre_read /\ \E s \in Garbage : Match(Transfer(s, hstbuf), FALSE, FALSE, TRUE)
    <3>1. PICK s \in Garbage : Match(Transfer(s, hstbuf), FALSE, FALSE, TRUE)
      BY <2>5
    <3>2. Transfer(s, hstbuf) \in Sector
      BY <2>2, TransferType, GeometryAssumption DEF Sector
    <3> QED
      BY <2>1, <3>1, <3>2, MatchInv
  <2> QED
    BY <1>7, <2>3, <2>4, <2>5 DEF RwoperFill
<1>8. CASE RwoperMatch
  <2>1. /\ pc = "rwoper_match" /\ hostbuf' = hostbuf
        /\ Match(hstbuf, TRUE, hostbuf_dirty, disk_error)
    BY <1>8 DEF RwoperMatch
  <2>2. hostbuf_valid /\ hostbuf = Target(cpm) /\ fd0[hostbuf[1]] = current_format_idx
    BY <1>0, <2>1, TargetFacts DEF CallState
  <2> QED
    BY <1>0, <2>1, <2>2, MatchInv DEF TypeOK, Coherence
<1>9. CASE RwoperDirFlush
  <2>1. pc = "dir_flush" /\ ~hostbuf_dirty /\ fd0[hostbuf[1]] = current_format_idx
    BY <1>0, <1>9 DEF RwoperDirFlush, CallState, FlushFormat, FlushPoint
  <2>2. /\ UNCHANGED <<hstbuf, hostbuf, hostbuf_dirty, cpm, unalloc_count, unalloc,
                       current_format_idx, op, dma, caller, sec, alloc>>
        /\ pc' = caller /\ reply' \in {"ok", "err"} /\ disk_error' = disk_error
    BY <1>9 DEF RwoperDirFlush, WrthstOk
  <2>3. \/ WrthstOk
        \/ SectorDamaged /\ hostbuf_valid' = FALSE
    BY <1>9 DEF RwoperDirFlush
  <2>4. /\ disk' \in [Host -> Sector] /\ live' \subseteq Record
        /\ WrthstOk => \A i \in SlotIndex :
              i <= deblock_mask[current_format_idx] => disk'[hostbuf][i] = hstbuf[i]
    BY <1>0, <2>3, WrthstFacts
  <2>5. hostbuf_valid' \in BOOLEAN /\ pc' \in Label \ (FlushPoint \cup {"rwoper_fill", "rwoper_match"})
    BY <1>0, <2>2, <2>3 DEF WrthstOk, TypeOK, Caller, Label, FlushPoint
  <2>6. TypeOK'
    BY <1>0, <2>2, <2>4, <2>5 DEF TypeOK
  <2>7. CallState' /\ BootState' /\ FlushFormat'
    BY <1>0, <2>1, <2>2, <2>5 DEF CallState, BootState, FlushFormat, FlushPoint, TypeOK, Caller
  <2>8. Coherence'
    BY <2>1, <2>2, <2>3, <2>4 DEF Coherence
  <2> QED
    BY <2>6, <2>7, <2>8 DEF IInv
<1>10. CASE SeldskFlush
  BY <1>0, <1>10, FlushInv DEF SeldskFlush
<1>11. CASE HomeFlush
  BY <1>0, <1>11, FlushInv DEF HomeFlush, CallState
<1>12. CASE Wboot
  BY <1>12, SelectDriveInv, GeometryAssumption DEF Wboot, Caller
<1>13. CASE WbootHome
  <2>1. cpm' = [cpm EXCEPT ![2] = 1] /\ unalloc_count' = 0 /\ sec' = 0
    BY <1>13 DEF WbootHome
  <2>2. cpm' \in Drive \X Track \X Nat /\ cpm'[1] = cpm[1] /\ sec' \in 0 .. NSECTS
    BY <1>0, <2>1, GeometryAssumption DEF TypeOK
  <2> QED
    BY <1>13, <2>1, <2>2, HomeInv DEF WbootHome, Caller
<1>14. CASE WbootLoad
  <2>1. CASE MoreToLoad /\ Xread(1, sec) /\ sec' = sec + 1 /\ UNCHANGED caller
    <3> DEFINE c == <<cpm[1], 1, sec>>
    <3>1. sec < NSECTS /\ sec \in Nat /\ NSECTS \in Nat /\ sec' \in 0 .. NSECTS
      BY <1>0, <2>1, GeometryAssumption DEF MoreToLoad, TypeOK
    <3>2. cpm[1] = 0 /\ pc = "wboot_load"
      BY <1>0, <1>14 DEF WbootLoad, BootState
    <3>3. sec \in SectorsOf(fd0[0])
      BY <3>1, GeometryAssumption DEF SectorsOf
    <3>4. c \in Record /\ c[1] = cpm[1]
      BY <3>2, <3>3, RecordFacts, GeometryAssumption
    <3>5. /\ cpm' = c /\ pc' = RwoperEntry(c) /\ unalloc_count' = 0 /\ op' = XreadOp
          /\ reply' = "busy"
          /\ UNCHANGED <<disk, bufVars, unalloc, current_format_idx, dma, alloc, live>>
      BY <2>1 DEF Xread, RunAfterRead
    <3>6. /\ XreadOp \in [is_read : BOOLEAN, write_type : WriteType, need_pre_read : BOOLEAN]
          /\ XreadOp.need_pre_read
      BY DEF XreadOp, WriteType
    <3> HIDE DEF c
    <3> QED
      BY <1>0, <2>1, <3>1, <3>2, <3>4, <3>5, <3>6, CallInv DEF TypeOK
  <2>2. CASE /\ pc' \in {"halted", "bdos"}
             /\ UNCHANGED <<disk, bufVars, posVars, dma, reply, caller, sec, alloc, live>>
    BY <1>0, <1>14, <2>2 DEF WbootLoad, IInv, TypeOK, CallState, BootState, Coherence, FlushFormat, bufVars,
       Label, FlushPoint
  <2> QED
    BY <1>14, <2>1, <2>2 DEF WbootLoad
<1>15. CASE ColdBoot
  <2>1. /\ ~hostbuf_valid' /\ ~hostbuf_dirty' /\ ~disk_error' /\ unalloc_count' = 0
        /\ hostbuf_valid' \in BOOLEAN /\ hostbuf_dirty' \in BOOLEAN /\ disk_error' \in BOOLEAN
        /\ current_format_idx' = fd0[0] /\ cpm' = [cpm EXCEPT ![1] = 0]
        /\ pc' = "wboot_home" /\ caller' = "wboot_home" /\ reply' = "busy"
        /\ UNCHANGED <<hstbuf, hostbuf, unalloc, op, dma, sec, alloc>>
    BY <1>15 DEF ColdBoot
  <2>2. disk' \in [Host -> Sector] /\ live' \subseteq Record
    <3>1. CASE SectorDamaged
      BY <1>0, <3>1, WrthstFacts
    <3>2. CASE UNCHANGED disk /\ live' \subseteq live
      BY <1>0, <3>2 DEF TypeOK
    <3> QED
      BY <1>15, <3>1, <3>2 DEF ColdBoot
  <2>3. cpm' \in Drive \X Track \X Nat /\ cpm'[1] = 0 /\ fd0[0] \in Format
    BY <1>0, <2>1, GeometryAssumption DEF TypeOK
  <2>4. TypeOK'
    BY <1>0, <2>1, <2>2, <2>3 DEF TypeOK, Label, Caller
  <2> QED
    BY <1>0, <2>1, <2>3, <2>4 DEF IInv, CallState, BootState, Coherence, FlushFormat, FlushPoint
<1>16. CASE UNCHANGED vars
  BY <1>0, <1>16 DEF vars, bufVars, IInv, TypeOK, CallState, BootState, Coherence, FlushFormat, Target
<1> QED
  BY <1>1, <1>2, <1>3, <1>4, <1>5, <1>6, <1>7, <1>8, <1>9, <1>10, <1>11, <1>12, <1>13, <1>14,
     <1>15, <1>16 DEF Next

\* In every behaviour of the driver, on every geometry, each state is well-typed:
\* no call, retry, failed transfer or boot leaves a position that does not exist.
THEOREM TypeCorrect == Spec => []TypeOK
<1>1. IInv => TypeOK
  BY DEF IInv
<1> QED
  BY <1>1, InitIInv, NextIInv, PTL DEF Spec

\* The host buffer is never dropped while it is the only holder of data: when
\* it is valid and clean the disk has the same records, whatever transfers
\* failed before.  And no sector is ever written with the format of another drive.
THEOREM BufferIsKept == Spec => []BufferKept
<1>1. IInv => BufferKept
  BY DEF IInv, BufferKept
<1> QED
  BY <1>1, InitIInv, NextIInv, PTL DEF Spec

-----------------------------------------------------------------------------
(***************************************************************************)
(* Sectors, slots and blocks: where the records of one host sector lie.    *)
(***************************************************************************)

\* A number that leaves a rest is not the last.
LEMMA NotLast ==
    ASSUME NEW a \in Nat, NEW n \in Nat, n - a - 1 # 0
    PROVE  a + 1 # n
  OBVIOUS

\* A number in a block of n, and the next one.
LEMMA NextInBlock ==
    ASSUME NEW n \in Nat \ {0}, NEW p \in Nat, (p % n) + 1 # n
    PROVE  (p + 1) % n = (p % n) + 1 /\ (p + 1) \div n = p \div n
<1>1. PICK q \in Nat, k \in 0 .. n - 1 : p = q * n + k
  BY Divided
<1>2. p \div n = q /\ p % n = k
  BY <1>1, DivMod
<1>3. k + 1 \in 0 .. n - 1 /\ p + 1 = q * n + (k + 1)
  BY <1>1, <1>2
<1>4. (q * n + (k + 1)) \div n = q /\ (q * n + (k + 1)) % n = k + 1
  BY <1>3, DivMod
<1> QED
  BY <1>2, <1>3, <1>4

\* When the quotient by m changes from s to s + 1, s + 1 is the least number
\* with its quotient.
LEMMA QuotientStarts ==
    ASSUME NEW m \in Nat \ {0}, NEW s \in Nat, NEW x \in Nat,
           (s + 1) \div m # s \div m, x \div m = (s + 1) \div m
    PROVE  x >= s + 1
<1>1. PICK q \in Nat, i \in 0 .. m - 1 : s = q * m + i
  BY Divided
<1>2. s \div m = q
  BY <1>1, DivMod
<1>3. i = m - 1
  <2> SUFFICES ASSUME i # m - 1 PROVE FALSE
    OBVIOUS
  <2>1. i + 1 \in 0 .. m - 1 /\ s + 1 = q * m + (i + 1)
    BY <1>1
  <2>2. (q * m + (i + 1)) \div m = q
    BY <2>1, DivMod
  <2> QED
    BY <1>2, <2>1, <2>2
<1>4. s + 1 = (q + 1) * m + 0
  BY <1>1, <1>3
<1>5. ((q + 1) * m + 0) \div m = q + 1
  BY DivMod
<1>6. PICK q2 \in Nat, j \in 0 .. m - 1 : x = q2 * m + j
  BY Divided
<1>7. x \div m = q2
  BY <1>6, DivMod
<1>8. q2 = q + 1
  BY <1>4, <1>5, <1>7
<1>9. (q + 1) * m \in Nat
  BY Mult
<1> QED
  BY <1>4, <1>6, <1>8, <1>9

\* The format of a record's drive.
LEMMA FormatFacts ==
    ASSUME NEW d \in Drive
    PROVE  /\ fd0[d] \in Format
           /\ deblock_mask[fd0[d]] + 1 \in Nat \ {0} /\ deblock_mask[fd0[d]] \in Nat
           /\ cpm_sectors_per_track[fd0[d]] \in Nat
           /\ records_per_alloc_block[fd0[d]] \in Nat \ {0}
           /\ cpm_sectors_per_track[fd0[d]] % (deblock_mask[fd0[d]] + 1) = 0
           /\ records_per_alloc_block[fd0[d]] % (deblock_mask[fd0[d]] + 1) = 0
<1>1. fd0[d] \in Format
  BY GeometryAssumption
<1> QED
  BY <1>1, GeometryAssumption, AlignmentAssumption

\* Every slot of a record is one that a transfer moves, and two records of one
\* sector have two slots.
LEMMA SlotFacts ==
    /\ \A r \in Record : /\ HostOf(r) \in Host
                         /\ SlotOf(fd0[r[1]], r[3]) \in SlotIndex
                         /\ SlotOf(fd0[r[1]], r[3]) <= deblock_mask[fd0[r[1]]]
    /\ \A r, c \in Record :
          HostOf(r) = HostOf(c) /\ SlotOf(fd0[r[1]], r[3]) = SlotOf(fd0[c[1]], c[3]) => r = c
<1>1. ASSUME NEW r \in Record
      PROVE  /\ r = <<r[1], r[2], r[3]>> /\ r[1] \in Drive /\ r[2] \in Track
             /\ r[3] \in Nat /\ r[3] \in SectorsOf(fd0[r[1]])
  BY RecordFacts
<1>2. ASSUME NEW r \in Record
      PROVE  /\ HostOf(r) \in Host
             /\ SlotOf(fd0[r[1]], r[3]) \in SlotIndex
             /\ SlotOf(fd0[r[1]], r[3]) <= deblock_mask[fd0[r[1]]]
  <2>1. fd0[r[1]] \in Format /\ deblock_mask[fd0[r[1]]] + 1 \in Nat \ {0} /\ deblock_mask[fd0[r[1]]] \in Nat
    BY <1>1, FormatFacts
  <2>2. HostSectorOf(fd0[r[1]], r[3]) \in HostSector /\ SlotOf(fd0[r[1]], r[3]) \in SlotIndex
    BY <1>1, <2>1, GeometryAssumption
  <2>3. HostOf(r) \in Host
    BY <1>1, <2>2 DEF HostOf, Host
  <2>4. r[3] % (deblock_mask[fd0[r[1]]] + 1) <= deblock_mask[fd0[r[1]]]
    BY <1>1, <2>1
  <2> QED
    BY <2>2, <2>3, <2>4 DEF SlotOf
<1>3. ASSUME NEW r \in Record, NEW c \in Record,
             HostOf(r) = HostOf(c), SlotOf(fd0[r[1]], r[3]) = SlotOf(fd0[c[1]], c[3])
      PROVE  r = c
  <2>1. r[1] = c[1] /\ r[2] = c[2] /\ HostSectorOf(fd0[r[1]], r[3]) = HostSectorOf(fd0[c[1]], c[3])
    BY <1>3 DEF HostOf
  <2> DEFINE m == deblock_mask[fd0[r[1]]] + 1
             x == r[3]
             y == c[3]
  <2>2. m \in Nat \ {0} /\ x \in Nat /\ y \in Nat
    BY <1>1, FormatFacts
  <2>3. x \div m = y \div m /\ x % m = y % m
    BY <1>3, <2>1 DEF HostSectorOf, SlotOf
  <2>4. x = y
    <3> HIDE DEF m, x, y
    <3>1. x = m * (x \div m) + (x % m) /\ y = m * (y \div m) + (y % m)
      BY <2>2
    <3> QED
      BY <2>3, <3>1
  <2> QED
    BY <1>1, <2>1, <2>4
<1> QED
  BY <1>2, <1>3

\* A data record has a position on its drive, and NextSector is the next one.
LEMMA PositionFacts ==
    ASSUME NEW c \in DataRecord
    PROVE  /\ Position(c) \in Nat
           /\ current_format_idx = fd0[c[1]] =>
                 /\ NextSector(c)[1] = c[1] /\ NextSector(c)[2] >= TrkOff
                 /\ NextSector(c) \in Drive \X Nat \X Nat
                 /\ Position(NextSector(c)) = Position(c) + 1
<1> DEFINE t == c[2] - TrkOff
           n == cpm_sectors_per_track[fd0[c[1]]]
           s == c[3]
<1>1. /\ c = <<c[1], c[2], c[3]>> /\ c[1] \in Drive /\ c[2] \in Nat /\ c[2] >= TrkOff /\ TrkOff \in Nat
      /\ t \in Nat /\ n \in Nat /\ s \in 0 .. n - 1
  BY RecordFacts, FormatFacts, GeometryAssumption DEF DataRecord, SectorsOf
<1>2. t * n \in Nat /\ (t + 1) * n = t * n + n
  BY <1>1, Mult
<1>3. Position(c) = t * n + s
  BY DEF Position
<1>4. Position(c) \in Nat
  BY <1>1, <1>2, <1>3
<1>5. ASSUME current_format_idx = fd0[c[1]]
      PROVE  /\ NextSector(c)[1] = c[1] /\ NextSector(c)[2] >= TrkOff
             /\ NextSector(c) \in Drive \X Nat \X Nat
             /\ Position(NextSector(c)) = Position(c) + 1
  <2>1. CASE s + 1 >= n
    <3>1. NextSector(c) = <<c[1], c[2] + 1, 0>>
      BY <1>5, <2>1 DEF NextSector
    <3>2. Position(NextSector(c)) = ((c[2] + 1) - TrkOff) * n + 0
      BY <3>1 DEF Position
    <3>3. (c[2] + 1) - TrkOff = t + 1
      BY <1>1
    <3>4. Position(NextSector(c)) = (t + 1) * n
      BY <3>2, <3>3, <1>1, <1>2
    <3>5. s + 1 = n
      BY <1>1, <2>1
    <3> HIDE DEF t, n, s
    <3>6. Position(NextSector(c)) = Position(c) + 1
      BY <1>1, <1>2, <1>3, <3>4, <3>5
    <3> QED
      BY <1>1, <3>1, <3>6
  <2>2. CASE ~(s + 1 >= n)
    <3>1. NextSector(c) = <<c[1], c[2], c[3] + 1>>
      BY <1>5, <2>2 DEF NextSector
    <3>2. Position(NextSector(c)) = t * n + (s + 1)
      BY <3>1 DEF Position
    <3> HIDE DEF t, n
    <3>3. Position(NextSector(c)) = Position(c) + 1
      BY <1>1, <1>2, <1>3, <3>2
    <3> QED
      BY <1>1, <3>1, <3>3
  <2> QED
    BY <2>1, <2>2
<1> QED
  BY <1>4, <1>5

\* A host sector lies in one block.
LEMMA SectorInBlock ==
    ASSUME NEW r \in Record, NEW u \in Drive \X Nat \X Nat, u[2] >= TrkOff, HostOf(r) = HostOf(u)
    PROVE  r \in DataRecord /\ BlockOf(r) = BlockOf(u)
<1>1. r[1] = u[1] /\ r[2] = u[2] /\ HostSectorOf(fd0[r[1]], r[3]) = HostSectorOf(fd0[r[1]], u[3])
  BY DEF HostOf
<1>2. r[1] \in Drive /\ r[3] \in Nat /\ u[3] \in Nat /\ u[2] \in Nat /\ TrkOff \in Nat
  BY RecordFacts, GeometryAssumption
<1> DEFINE m == deblock_mask[fd0[r[1]]] + 1
           t == cpm_sectors_per_track[fd0[r[1]]]
           b == records_per_alloc_block[fd0[r[1]]]
           k == r[2] - TrkOff
           x == r[3]
           y == u[3]
<1>3. m \in Nat \ {0} /\ t \in Nat /\ b \in Nat \ {0} /\ t % m = 0 /\ b % m = 0
  BY <1>2, FormatFacts
<1>4. k \in Nat /\ x \in Nat /\ y \in Nat /\ x \div m = y \div m
  BY <1>1, <1>2 DEF HostSectorOf
<1>5. Position(r) = k * t + x /\ Position(u) = k * t + y
  BY <1>1 DEF Position
<1>6. BlockOf(r) = <<r[1], Position(r) \div b>> /\ BlockOf(u) = <<r[1], Position(u) \div b>>
  BY <1>1 DEF BlockOf
<1>7. (k * t + x) \div b = (k * t + y) \div b
  <2> HIDE DEF m, t, b, k, x, y
  <2>0. m \in Nat \ {0} /\ t \in Nat /\ b \in Nat \ {0} /\ k \in Nat /\ x \in Nat /\ y \in Nat
    BY <1>3, <1>4
  <2> USE <2>0
  <2>1. PICK a \in Nat, i0 \in 0 .. m - 1 : t = a * m + i0
    BY Divided
  <2>2. t = a * m
    BY <1>3, <2>1, DivMod
  <2>3. PICK e \in Nat, i1 \in 0 .. m - 1 : b = e * m + i1
    BY Divided
  <2>4. b = e * m /\ e \in Nat \ {0}
    BY <1>3, <2>3, DivMod
  <2>5. PICK q \in Nat, i \in 0 .. m - 1 : x = q * m + i
    BY Divided
  <2>6. PICK q2 \in Nat, j \in 0 .. m - 1 : y = q2 * m + j
    BY Divided
  <2>7. q2 = q
    <3>1. x \div m = q /\ y \div m = q2
      BY <1>3, <2>5, <2>6, DivMod
    <3> QED
      BY <1>4, <3>1
  <2> DEFINE K == k * a + q
  <2>8. K \in Nat
    BY Mult
  <2>9. PICK g \in Nat, h \in 0 .. e - 1 : K = g * e + h
    <3> HIDE DEF K
    <3> QED
      BY <2>4, <2>8, Divided
  <2>10. ASSUME NEW z \in 0 .. m - 1
         PROVE  (k * t + (q * m + z)) \div b = g
    <3>1. k * t + (q * m + z) = K * m + z
      <4>1. k * (a * m) = (k * a) * m
        OBVIOUS
      <4>2. (k * a + q) * m = (k * a) * m + q * m
        OBVIOUS
      <4> QED
        BY <2>2, <4>1, <4>2
    <3>2. K * m = g * b + h * m
      <4>1. (g * e + h) * m = (g * e) * m + h * m
        OBVIOUS
      <4>2. (g * e) * m = g * (e * m)
        OBVIOUS
      <4> QED
        BY <2>4, <2>9, <4>1, <4>2
    <3>3. h * m + z \in 0 .. b - 1
      <4>1. h + 1 <= e /\ (h + 1) * m <= e * m /\ (h + 1) * m = h * m + m /\ h * m \in Nat
        BY Mult
      <4> QED
        BY <2>4, <4>1
    <3>4. (g * b + (h * m + z)) \div b = g
      BY <3>3, DivMod
    <3>5. h * m \in Nat /\ g * b \in Nat
      BY Mult
    <3>6. k * t + (q * m + z) = g * b + (h * m + z)
      BY <3>1, <3>2, <3>5
    <3> QED
      BY <3>4, <3>6
  <2> QED
    BY <2>5, <2>6, <2>7, <2>10
<1> QED
  BY <1>1, <1>5, <1>6, <1>7 DEF DataRecord

\* When the next record lies in another sector, it is the first of it.
LEMMA SectorStart ==
    ASSUME NEW c \in DataRecord, current_format_idx = fd0[c[1]], HostOf(NextSector(c)) # HostOf(c),
           NEW r \in Record, HostOf(r) = HostOf(NextSector(c))
    PROVE  ~(Position(r) < Position(NextSector(c)))
<1> DEFINE u == NextSector(c)
           t == u[2] - TrkOff
           n == cpm_sectors_per_track[fd0[c[1]]]
           m == deblock_mask[fd0[c[1]]] + 1
<1>1. /\ c[1] \in Drive /\ c[2] \in Nat /\ c[3] \in Nat /\ c[2] >= TrkOff /\ TrkOff \in Nat
      /\ n \in Nat /\ m \in Nat \ {0} /\ r[3] \in Nat
  BY RecordFacts, FormatFacts, GeometryAssumption DEF DataRecord
<1>2. u[1] = c[1] /\ u[2] >= TrkOff /\ u \in Drive \X Nat \X Nat
  BY PositionFacts
<1>3. r[1] = u[1] /\ r[2] = u[2] /\ r[3] \div m = u[3] \div m
  BY <1>2 DEF HostOf, HostSectorOf
<1>4. t * n \in Nat
  BY <1>1, <1>2, Mult
<1>5. Position(r) = t * n + r[3] /\ Position(u) = t * n + u[3]
  BY <1>2, <1>3 DEF Position
<1>6. r[3] >= u[3]
  <2>1. CASE u = <<c[1], c[2] + 1, 0>>
    BY <1>1, <2>1
  <2>2. CASE u = <<c[1], c[2], c[3] + 1>>
    <3>1. (c[3] + 1) \div m # c[3] \div m
      BY <2>2 DEF HostOf, HostSectorOf
    <3>2. r[3] \div m = (c[3] + 1) \div m
      BY <1>3, <2>2
    <3>3. r[3] >= c[3] + 1
      <4> HIDE DEF m
      <4> QED
        BY <1>1, <3>1, <3>2, QuotientStarts, Zenon
    <3> QED
      BY <2>2, <3>3
  <2> QED
    BY <2>1, <2>2 DEF NextSector
<1>7. u[3] \in Nat
  BY <1>2
<1> HIDE DEF t, n, u
<1> QED
  BY <1>1, <1>4, <1>5, <1>6, <1>7 DEF u

-----------------------------------------------------------------------------
(***************************************************************************)
(* What else is known of the buffer, and what a directory WRITE promises.  *)
(***************************************************************************)

\* The buffer agrees with the disk on every record of its sector.
Agrees ==
    \A i \in SlotIndex : i <= deblock_mask[fd0[hostbuf[1]]] => hstbuf[i] = disk[hostbuf][i]

\* A buffer after a failed transfer is not used; the buffer that a directory
\* flush writes is valid; and rwoper takes over only a buffer that does not
\* hold the wanted sector and may be dropped.
BufferState ==
    /\ disk_error => ~hostbuf_valid
    /\ pc = "dir_flush" => hostbuf_valid /\ ~disk_error /\ reply = "busy"
    /\ pc \in {"rwoper_flush", "rwoper_fill"} => ~(hostbuf_valid /\ hostbuf = Target(cpm))
    /\ pc = "rwoper_fill" /\ hostbuf_valid => Agrees
    /\ op.is_read => op.write_type = "WRUAL"

LEMMA InitBufferState == Init => BufferState
  BY DEF Init, BufferState, XreadOp

\* The entry of rwoper: it is sent to the fill only with a buffer that is clean
\* or not valid.
LEMMA EntryBufferState ==
    ASSUME IInv, BufferState, pc # "dir_flush", NEW c, cpm' = c, pc' = RwoperEntry(c),
           UNCHANGED <<disk, bufVars, current_format_idx>>,
           op'.is_read => op'.write_type = "WRUAL"
    PROVE  BufferState'
<1>1. UNCHANGED <<disk, hstbuf, hostbuf, hostbuf_valid, hostbuf_dirty, disk_error, current_format_idx>>
  BY DEF bufVars
<1>2. Target(cpm)' = Target(c)
  BY <1>1 DEF Target
<1>3. pc' = "rwoper_fill" /\ hostbuf_valid => Agrees'
  BY <1>1 DEF RwoperEntry, IInv, Coherence, Agrees
<1> QED
  BY <1>1, <1>2, <1>3 DEF BufferState, RwoperEntry, BufferHolds

\* The end of rwoper: a buffer in error is dropped, and the error is delivered.
LEMMA MatchBufferState ==
    ASSUME IInv, BufferState, NEW buf, NEW valid \in BOOLEAN, NEW dirty, NEW err \in BOOLEAN,
           ~valid => err, Match(buf, valid, dirty, err)
    PROVE  BufferState'
<1>1. /\ hostbuf_valid' = (valid /\ ~err) /\ disk_error' = FALSE /\ op' = op
      /\ pc' \in Caller \/ (pc' = "dir_flush" /\ ~err /\ reply' = "busy")
  BY DEF Match, posVars, IInv, TypeOK
<1> QED
  BY <1>1 DEF BufferState, Caller

\* A flush: the buffer agrees with the sector it has been written to.
LEMMA FlushBufferState ==
    ASSUME IInv, BufferState, pc \in FlushPoint,
           WrthstOk \/ ~hostbuf_valid', UNCHANGED <<hstbuf, hostbuf, cpm, op>>,
           pc = "rwoper_flush" => pc' = "rwoper_fill" /\ UNCHANGED current_format_idx,
           pc # "rwoper_flush" => pc' = caller
    PROVE  BufferState'
<1>0. TypeOK /\ FlushFormat
  BY DEF IInv
<1>1. pc' # "rwoper_fill" => pc' \in Caller
  BY <1>0 DEF TypeOK
<1>2. disk_error' => ~hostbuf_valid'
  <2>1. WrthstOk => hostbuf_valid' = hostbuf_valid /\ disk_error' = disk_error
    BY DEF WrthstOk
  <2> QED
    BY <1>0, <2>1 DEF BufferState, TypeOK
<1>3. pc' = "rwoper_fill" =>
         /\ ~(hostbuf_valid' /\ hostbuf' = Target(cpm)')
         /\ hostbuf_valid' => Agrees'
  <2> SUFFICES ASSUME pc' = "rwoper_fill", hostbuf_valid'
               PROVE  hostbuf' # Target(cpm)' /\ Agrees'
    OBVIOUS
  <2>1. pc = "rwoper_flush" /\ WrthstOk
    BY <1>0 DEF TypeOK, Caller
  <2>2. hostbuf_valid /\ Target(cpm)' = Target(cpm)
    BY <2>1 DEF WrthstOk, Target
  <2>3. fd0[hostbuf[1]] = current_format_idx
    BY <1>0 DEF FlushFormat
  <2> QED
    BY <1>0, <2>1, <2>2, <2>3, WrthstFacts DEF BufferState, Agrees
<1> QED
  BY <1>1, <1>2, <1>3 DEF BufferState, Caller

LEMMA NextBufferState == IInv /\ BufferState /\ [Next]_vars => BufferState'
<1> SUFFICES ASSUME IInv, BufferState, [Next]_vars PROVE BufferState'
  OBVIOUS
<1> USE DEF posVars, ctlVars
<1>0. TypeOK /\ CallState
  BY DEF IInv
<1>r. ASSUME NEW t, NEW s, pc # "dir_flush", Xread(t, s) PROVE BufferState'
  BY <1>r, EntryBufferState DEF Xread, XreadOp
<1>q. ASSUME pc' \in Caller \cup {"halted", "seldsk_flush", "home_flush"},
             disk_error' = disk_error, hostbuf_valid' = hostbuf_valid \/ ~hostbuf_valid', op' = op
      PROVE  BufferState'
  BY <1>0, <1>q DEF BufferState, Caller, TypeOK
<1>1. CASE Seldsk
  BY <1>1, <1>q DEF Seldsk, SelectDrive, bufVars, Caller
<1>2. CASE BiosHome
  BY <1>0, <1>2, <1>q DEF BiosHome, Home, Caller, TypeOK
<1>3. CASE BiosRead
  BY <1>3, <1>r DEF BiosRead
<1>4. CASE BiosWrite
  BY <1>4, EntryBufferState DEF BiosWrite, Xwrite
<1>5. CASE FreeBlock
  BY <1>5, <1>q DEF FreeBlock, bufVars, Caller
<1>6. CASE RwoperFlush
  BY <1>6, FlushBufferState DEF RwoperFlush, WrthstFail, FlushPoint
<1>7. CASE RwoperFill
  BY <1>0, <1>7, MatchBufferState DEF RwoperFill, TypeOK
<1>8. CASE RwoperMatch
  BY <1>0, <1>8, MatchBufferState DEF RwoperMatch, TypeOK
<1>9. CASE RwoperDirFlush
  BY <1>9, FlushBufferState DEF RwoperDirFlush, FlushPoint
<1>10. CASE SeldskFlush
  BY <1>10, FlushBufferState DEF SeldskFlush, WrthstFail, FlushPoint
<1>11. CASE HomeFlush
  BY <1>11, FlushBufferState DEF HomeFlush, WrthstFail, FlushPoint
<1>12. CASE Wboot
  BY <1>12, <1>q DEF Wboot, SelectDrive, bufVars, Caller
<1>13. CASE WbootHome
  BY <1>0, <1>13, <1>q DEF WbootHome, Home, Caller, TypeOK
<1>14. CASE WbootLoad
  BY <1>14, <1>r, <1>q DEF WbootLoad, bufVars, Caller
<1>15. CASE ColdBoot
  BY <1>15 DEF ColdBoot, BufferState
<1>16. CASE UNCHANGED vars
  BY <1>16 DEF vars, bufVars, BufferState, Agrees, Target
<1> QED
  BY <1>1, <1>2, <1>3, <1>4, <1>5, <1>6, <1>7, <1>8, <1>9, <1>10, <1>11, <1>12, <1>13, <1>14,
     <1>15, <1>16 DEF Next

\* A write that works puts every record of its sector on the disk, and leaves
\* every other sector alone.
LEMMA WrittenRecords ==
    ASSUME IInv, pc \in FlushPoint, WrthstOk, NEW r \in Record
    PROVE  OnDisk(r)' = IF HostOf(r) = hostbuf THEN hstbuf[SlotOf(fd0[r[1]], r[3])] ELSE OnDisk(r)
<1>0. TypeOK /\ fd0[hostbuf[1]] = current_format_idx
  BY DEF IInv, FlushFormat
<1>1. /\ HostOf(r) \in Host /\ HostOf(r)[1] = r[1]
      /\ SlotOf(fd0[r[1]], r[3]) \in SlotIndex /\ SlotOf(fd0[r[1]], r[3]) <= deblock_mask[fd0[r[1]]]
  BY SlotFacts DEF HostOf
<1>2. OnDisk(r)' = disk'[HostOf(r)][SlotOf(fd0[r[1]], r[3])]
  BY DEF OnDisk
<1>3. CASE HostOf(r) = hostbuf
  BY <1>0, <1>1, <1>2, <1>3, WrthstFacts
<1>4. CASE HostOf(r) # hostbuf
  <2>1. disk'[HostOf(r)] = disk[HostOf(r)]
    BY <1>0, <1>1, <1>4 DEF WrthstOk, TypeOK
  <2> QED
    BY <1>2, <1>4, <2>1 DEF OnDisk
<1> QED
  BY <1>3, <1>4

\* A directory WRITE that returns success has put everything that CP/M wrote
\* on the disk, on every geometry and after any failures before.
THEOREM DirWriteIsDurable == Spec => DirWriteDurable
<1>1. ASSUME IInv, BufferState, [Next]_vars
      PROVE  [(pc = "dir_flush" /\ reply' = "ok") => \A r \in live : OnDisk(r)' = View(r)]_vars
  <2> SUFFICES ASSUME Next, pc = "dir_flush", reply' = "ok", NEW r \in live
               PROVE  OnDisk(r)' = View(r)
    BY <1>1
  <2>1. RwoperDirFlush
    BY DEF Next, Seldsk, BiosHome, BiosRead, BiosWrite, FreeBlock, RwoperFlush, RwoperFill, RwoperMatch,
       SeldskFlush, HomeFlush, Wboot, WbootHome, WbootLoad, ColdBoot
  <2>2. WrthstOk /\ hostbuf_valid /\ r \in Record
    BY <1>1, <2>1 DEF RwoperDirFlush, BufferState, IInv, TypeOK
  <2> QED
    BY <1>1, <2>2, WrittenRecords DEF View, FlushPoint
<1> QED
  BY <1>1, InitIInv, NextIInv, InitBufferState, NextBufferState, PTL DEF Spec, DirWriteDurable

-----------------------------------------------------------------------------
(***************************************************************************)
(* Runs of unallocated records.  What a WRITE without a pre-read relies on *)
(* has been true since the run began: nothing behind the run is in use,    *)
(* and what is in use in the run's sector is what the buffer holds.        *)
(***************************************************************************)

Rwoper == {"rwoper_flush", "rwoper_fill", "rwoper_match"}

\* The buffer was filled with r's sector and, if it has been dropped since, it
\* still holds what the disk has of r.
Kept(r) ==
    /\ hostbuf = HostOf(r)
    /\ hostbuf_valid \/ hstbuf[SlotOf(fd0[r[1]], r[3])] = OnDisk(r)

\* Only records of allocated blocks are in use, and a WRITE goes to one.
AllocState ==
    /\ \A r \in live : r \in DataRecord => BlockOf(r) \in alloc
    /\ (pc \in Rwoper /\ ~op.is_read) => cpm \in DataRecord /\ BlockOf(cpm) \in alloc

\* A run ends where its block ends, and no record of the rest of the block is
\* in use; the records in use of the sector the run has come to are kept.
RunState ==
    unalloc_count # 0 =>
        /\ unalloc[2] >= TrkOff
        /\ LET n == records_per_alloc_block[fd0[unalloc[1]]]
           IN  unalloc_count = n - (Position(unalloc) % n)
        /\ pc \in Rwoper => unalloc = NextSector(cpm) /\ ~op.is_read /\ ~op.need_pre_read
        /\ \A r \in live : r \in DataRecord /\ BlockOf(r) = BlockOf(unalloc) => Position(r) < Position(unalloc)
        /\ pc \notin Rwoper => \A r \in live : HostOf(r) = HostOf(unalloc) => Kept(r)

\* The same for the sector of a WRITE that is under way.
FillState ==
    (pc \in Rwoper /\ ~op.need_pre_read) =>
        \A r \in live : HostOf(r) = Target(cpm) /\ r # cpm => Kept(r)

\* The inductive invariant behind NoPreReadIsSafe.
FreshInv == IInv /\ AllocState /\ BufferState /\ RunState /\ FillState

LEMMA InitFresh == Init => FreshInv
<1> SUFFICES ASSUME Init PROVE FreshInv
  OBVIOUS
<1>1. AllocState
  <2>1. pc \notin Rwoper
    BY DEF Init, Rwoper
  <2>2. ASSUME NEW r \in live, r \in DataRecord PROVE BlockOf(r) \in alloc
    BY <2>2 DEF Init, Block
  <2> QED
    BY <2>1, <2>2 DEF AllocState
<1>2. RunState /\ FillState
  BY DEF Init, RunState, FillState, Rwoper
<1> QED
  BY <1>1, <1>2, InitIInv, InitBufferState DEF FreshInv

\* A flush changes the disk under a kept record only if the record is lost.
LEMMA FlushKept ==
    ASSUME TypeOK, NEW r \in live', Kept(r), UNCHANGED <<hstbuf, hostbuf>>,
           WrthstOk \/ SectorDamaged
    PROVE  WrthstOk /\ Kept(r)'
<1>1. r \in Record /\ r \in RecordsIn(hostbuf)
  BY DEF WrthstOk, SectorDamaged, TypeOK, Kept, RecordsIn
<1>2. WrthstOk /\ hostbuf_valid /\ hostbuf_valid'
  BY <1>1 DEF WrthstOk, SectorDamaged
<1> QED
  BY <1>2 DEF Kept

\* A flush keeps the invariant.
LEMMA FlushFresh ==
    ASSUME FreshInv, IInv', BufferState', pc \in FlushPoint,
           WrthstOk \/ SectorDamaged,
           UNCHANGED <<hstbuf, hostbuf, cpm, unalloc_count, unalloc, op, alloc>>,
           pc = "rwoper_flush" => pc' = "rwoper_fill" /\ UNCHANGED current_format_idx,
           pc # "rwoper_flush" => pc' = caller
    PROVE  FreshInv'
<1>0. TypeOK /\ AllocState /\ BufferState /\ RunState /\ FillState /\ CallState
  BY DEF FreshInv, IInv
<1>1. live' \subseteq live /\ live \subseteq Record
  BY <1>0 DEF WrthstOk, SectorDamaged, TypeOK
<1>2. pc' # "dir_flush" /\ pc' # "rwoper_flush" /\ (pc' \in Rwoper <=> pc \in Rwoper)
  BY <1>0 DEF TypeOK, Caller, FlushPoint, Rwoper
<1>3. ASSUME NEW r \in live', Kept(r) PROVE Kept(r)'
  BY <1>0, <1>3, FlushKept
<1>4. pc \in Rwoper => Target(cpm)' = Target(cpm)
  BY DEF Target, Rwoper, FlushPoint
<1>5. AllocState'
  BY <1>0, <1>1, <1>2 DEF AllocState
<1>7. RunState'
  <2> SUFFICES ASSUME unalloc_count' # 0 PROVE RunState'
    BY DEF RunState
  <2>1. unalloc' = unalloc /\ unalloc_count # 0
    OBVIOUS
  <2>2. pc' \in Rwoper => NextSector(cpm)' = NextSector(cpm)
    BY <1>2 DEF NextSector, Rwoper, FlushPoint
  <2>3. ASSUME NEW r \in live', pc' \notin Rwoper, HostOf(r) = HostOf(unalloc) PROVE Kept(r)'
    BY <1>0, <1>1, <1>2, <1>3, <2>1, <2>3 DEF RunState
  <2> QED
    BY <1>0, <1>1, <1>2, <2>1, <2>2, <2>3 DEF RunState
<1>8. FillState'
  <2> SUFFICES ASSUME pc' \in Rwoper, ~op'.need_pre_read, NEW r \in live', HostOf(r) = Target(cpm)', r # cpm'
               PROVE  Kept(r)'
    BY DEF FillState
  <2> QED
    BY <1>0, <1>1, <1>2, <1>3, <1>4 DEF FillState
<1> QED
  BY <1>5, <1>7, <1>8 DEF FreshInv

\* The end of rwoper keeps the invariant.
LEMMA MatchFresh ==
    ASSUME FreshInv, IInv', BufferState', pc \in {"rwoper_fill", "rwoper_match"},
           NEW buf \in Sector, NEW valid \in BOOLEAN, NEW dirty \in BOOLEAN, NEW err \in BOOLEAN,
           ~valid => err, pc = "rwoper_match" => ~err,
           ~op.need_pre_read => buf = hstbuf,
           hostbuf' = Target(cpm), Match(buf, valid, dirty, err)
    PROVE  FreshInv'
<1>0. TypeOK /\ AllocState /\ BufferState /\ RunState /\ FillState /\ CallState
  BY DEF FreshInv, IInv
<1>1. UNCHANGED <<disk, cpm, unalloc_count, unalloc, current_format_idx, op, caller, sec, alloc>>
  BY DEF Match, posVars
<1>2. /\ hostbuf_valid' = (valid /\ ~err) /\ ~disk_error'
      /\ pc' \notin Rwoper /\ (pc' = "dir_flush" => ~err)
  BY <1>0 DEF Match, TypeOK, Caller, Rwoper
<1>3. /\ live \subseteq Record /\ cpm \in Record /\ current_format_idx = fd0[cpm[1]]
      /\ live' = IF op.is_read THEN live ELSE IF err THEN live \ {cpm} ELSE live \cup {cpm}
  BY <1>0 DEF CallState, TypeOK, Match
<1>4. Target(cpm) = HostOf(cpm) /\ hstbuf \in Sector
  BY <1>0, <1>3 DEF Target, HostOf, TypeOK
<1>5. AllocState'
  BY <1>0, <1>1, <1>2, <1>3 DEF AllocState, Rwoper
<1>7. FillState'
  BY <1>2 DEF FillState
<1>8. RunState'
  <2> SUFFICES ASSUME unalloc_count # 0 PROVE RunState'
    BY <1>1 DEF RunState
  <2>1. /\ unalloc[2] >= TrkOff /\ unalloc = NextSector(cpm) /\ ~op.is_read /\ ~op.need_pre_read
        /\ LET n == records_per_alloc_block[fd0[unalloc[1]]]
           IN  unalloc_count = n - (Position(unalloc) % n)
        /\ \A r \in live : r \in DataRecord /\ BlockOf(r) = BlockOf(unalloc) => Position(r) < Position(unalloc)
    BY <1>0 DEF RunState, Rwoper
  <2>2. cpm \in DataRecord
    BY <1>0, <2>1 DEF AllocState, Rwoper
  <2>3. Position(unalloc) = Position(cpm) + 1 /\ Position(cpm) \in Nat
    BY <1>3, <2>1, <2>2, PositionFacts
  <2>4. \A r \in live' : r \in DataRecord /\ BlockOf(r) = BlockOf(unalloc) => Position(r) < Position(unalloc)
    BY <1>3, <2>1, <2>3
  <2>5. ASSUME NEW r \in live', HostOf(r) = HostOf(unalloc) PROVE Kept(r)'
    <3>0. r \in Record
      BY <1>3
    <3>1. CASE HostOf(unalloc) = HostOf(cpm)
      <4>1. hostbuf' = HostOf(r)
        BY <1>4, <2>5, <3>1
      <4>2. CASE ~err
        BY <1>2, <4>1, <4>2 DEF Kept
      <4>3. CASE err
        <5>1. r \in live /\ r # cpm /\ pc = "rwoper_fill"
          BY <1>3, <2>1, <4>3
        <5>2. Kept(r) /\ ~(hostbuf_valid /\ hostbuf = Target(cpm))
          BY <1>0, <1>4, <2>1, <2>5, <3>1, <5>1 DEF FillState, BufferState, Rwoper
        <5>3. hstbuf[SlotOf(fd0[r[1]], r[3])] = OnDisk(r)
          BY <1>4, <2>5, <3>1, <5>2 DEF Kept
        <5>4. hstbuf' = [hstbuf EXCEPT ![SlotOf(current_format_idx, cpm[3])] = dma]
          BY <2>1 DEF Match
        <5>5. SlotOf(fd0[r[1]], r[3]) \in SlotIndex /\ SlotOf(fd0[r[1]], r[3]) # SlotOf(current_format_idx, cpm[3])
          BY <1>3, <2>5, <3>0, <3>1, <5>1, SlotFacts
        <5>6. hstbuf'[SlotOf(fd0[r[1]], r[3])] = hstbuf[SlotOf(fd0[r[1]], r[3])]
          BY <1>4, <5>4, <5>5 DEF Sector
        <5>7. OnDisk(r)' = OnDisk(r)
          BY <1>1 DEF OnDisk
        <5> QED
          BY <4>1, <5>3, <5>6, <5>7 DEF Kept
      <4> QED
        BY <4>2, <4>3
    <3>2. CASE HostOf(unalloc) # HostOf(cpm)
      <4>1. r # cpm /\ r \in live
        BY <1>3, <2>1, <2>5, <3>2
      <4>2. r \in DataRecord /\ BlockOf(r) = BlockOf(unalloc)
        BY <1>0, <2>1, <2>5, <3>0, SectorInBlock DEF TypeOK
      <4>3. ~(Position(r) < Position(unalloc))
        BY <1>3, <2>1, <2>2, <2>5, <3>0, <3>2, SectorStart
      <4> QED
        BY <2>1, <4>1, <4>2, <4>3
    <3> QED
      BY <3>1, <3>2
  <2> QED
    BY <1>1, <1>2, <2>1, <2>4, <2>5 DEF RunState
<1> QED
  BY <1>5, <1>7, <1>8 DEF FreshInv

\* A WRITE keeps the invariant, if the first record written to a new block is
\* the block's first.
LEMMA WriteFresh ==
    ASSUME SequentialAlloc, FreshInv, IInv', BufferState', pc = "bdos", NEW c \in DataRecord, c[1] = cpm[1],
           NEW wt \in WriteType, BdosWrites(wt, c), alloc' = alloc \cup {BlockOf(c)},
           cpm' = c, pc' = RwoperEntry(c), UNCHANGED <<disk, bufVars, current_format_idx, live>>,
           unalloc_count' = IF InUnallocRun(wt, c) THEN UnallocCount(wt) - 1 ELSE 0,
           unalloc' = IF InUnallocRun(wt, c) THEN NextSector(c) ELSE unalloc,
           op' = [is_read |-> FALSE, write_type |-> wt,
                  need_pre_read |-> ~InUnallocRun(wt, c) /\ deblock_mask[current_format_idx] # 0]
    PROVE  FreshInv'
<1>0. TypeOK /\ AllocState /\ BufferState /\ RunState /\ FillState /\ CallState
  BY DEF FreshInv, IInv
<1>1. /\ live \subseteq Record /\ live' = live /\ c \in Record /\ current_format_idx = fd0[c[1]]
      /\ current_format_idx' = current_format_idx
      /\ UNCHANGED <<disk, hstbuf, hostbuf, hostbuf_valid, hostbuf_dirty, disk_error>>
  BY <1>0 DEF CallState, TypeOK, DataRecord, bufVars
<1>2. /\ Target(c) = HostOf(c) /\ Target(cpm)' = Target(c) /\ NextSector(cpm)' = NextSector(c)
      /\ c \in Drive \X Nat \X Nat /\ c[2] >= TrkOff /\ c[1] \in Drive
  <2>1. c \in Drive \X Track \X Nat
    BY <1>1, RecordFacts
  <2> QED
    BY <1>1, <2>1, GeometryAssumption DEF Target, HostOf, NextSector, DataRecord
<1>3. \A r \in live : Kept(r)' <=> Kept(r)
  BY <1>1 DEF Kept, OnDisk
<1>4. pc' \in Rwoper /\ pc \notin Rwoper
  BY DEF RwoperEntry, Rwoper
<1>5. op'.is_read = FALSE
  OBVIOUS
<1>6. AllocState'
  BY <1>0, <1>1, <1>4 DEF AllocState
<1>8. CASE InUnallocRun(wt, c)
  <2> DEFINE n == records_per_alloc_block[fd0[c[1]]]
             p == Position(c)
  <2>0. n \in Nat \ {0} /\ p \in Nat
    BY <1>2, FormatFacts, PositionFacts
  <2>1. /\ UnallocCount(wt) = n - (p % n)
        /\ \A r \in live : r \in DataRecord /\ BlockOf(r) = BlockOf(c) => Position(r) < p
        /\ \A r \in live : HostOf(r) = HostOf(c) => Kept(r)
    <3>1. CASE wt = "WRUAL"
      <4>1. BlockOf(c) \notin alloc /\ p % n = 0
        BY <3>1 DEF BdosWrites, FirstOfBlock
      <4>2. UnallocCount(wt) = n
        BY <1>1, <3>1 DEF UnallocCount
      <4>3. \A r \in live : r \in DataRecord => BlockOf(r) # BlockOf(c)
        BY <1>0, <4>1 DEF AllocState
      <4>4. \A r \in live : HostOf(r) # HostOf(c)
        BY <1>1, <1>2, <4>3, SectorInBlock
      <4>5. n = n - (p % n)
        <5> HIDE DEF n, p
        <5> QED
          BY <2>0, <4>1
      <4> QED
        BY <4>2, <4>3, <4>4, <4>5
    <3>2. CASE wt # "WRUAL"
      <4>1. unalloc_count # 0 /\ unalloc = c /\ UnallocCount(wt) = unalloc_count
        BY <1>8, <3>2 DEF InUnallocRun, UnallocCount, UnallocAt
      <4> QED
        BY <1>0, <1>4, <4>1 DEF RunState
    <3> QED
      BY <3>1, <3>2
  <2>2. RunState'
    <3> SUFFICES ASSUME unalloc_count' # 0 PROVE RunState'
      BY DEF RunState
    <3>1. unalloc' = NextSector(c) /\ unalloc_count' = n - (p % n) - 1
      BY <1>8, <2>1
    <3>2. /\ NextSector(c)[1] = c[1] /\ NextSector(c)[2] >= TrkOff /\ Position(NextSector(c)) = p + 1
          /\ BlockOf(c) = <<c[1], p \div n>> /\ BlockOf(NextSector(c)) = <<c[1], (p + 1) \div n>>
      <4>1. /\ NextSector(c)[1] = c[1] /\ NextSector(c)[2] >= TrkOff /\ Position(NextSector(c)) = p + 1
        BY <1>1, PositionFacts
      <4> QED
        BY <4>1 DEF BlockOf
    <3>3. (p % n) + 1 # n /\ p % n \in Nat
      <4> HIDE DEF n, p
      <4> DEFINE a == p % n
      <4>0. a \in Nat /\ n \in Nat
        BY <2>0
      <4>1. n - a - 1 # 0
        BY <3>1
      <4>2. a + 1 # n
        <5> HIDE DEF a
        <5> QED
          BY <4>0, <4>1, NotLast, Zenon
      <4> QED
        BY <4>0, <4>2
    <3>4. (p + 1) % n = (p % n) + 1 /\ (p + 1) \div n = p \div n
      <4> HIDE DEF n, p
      <4> QED
        BY <2>0, <3>3, NextInBlock, Zenon
    <3>5. unalloc_count' = n - ((p + 1) % n)
      <4> HIDE DEF n, p
      <4> DEFINE a == p % n
                 b == (p + 1) % n
      <4>1. b = a + 1 /\ a \in Nat /\ unalloc_count' = n - a - 1 /\ n \in Nat
        BY <2>0, <3>1, <3>3, <3>4
      <4>2. unalloc_count' = n - b
        <5> HIDE DEF a, b
        <5> QED
          BY <4>1
      <4> QED
        BY <4>2
    <3>6. ASSUME NEW r \in live, r \in DataRecord, BlockOf(r) = BlockOf(NextSector(c))
          PROVE  Position(r) < Position(NextSector(c))
      <4>1. Position(r) < p /\ Position(r) \in Nat
        BY <2>1, <3>2, <3>4, <3>6, PositionFacts
      <4> QED
        <5> HIDE DEF p
        <5> QED
          BY <2>0, <3>2, <4>1
    <3>7. /\ unalloc'[2] >= TrkOff /\ unalloc' = NextSector(cpm)' /\ ~op'.need_pre_read
          /\ LET n2 == records_per_alloc_block[fd0[unalloc'[1]]]
             IN  unalloc_count' = n2 - (Position(unalloc') % n2)
      BY <1>2, <1>8, <3>1, <3>2, <3>5
    <3>8. \A r \in live' : r \in DataRecord /\ BlockOf(r) = BlockOf(unalloc') => Position(r) < Position(unalloc')
      BY <1>1, <3>1, <3>6
    <3> HIDE DEF n, p
    <3> QED
      BY <1>4, <1>5, <3>7, <3>8 DEF RunState, Position, BlockOf
  <2>3. FillState'
    BY <1>1, <1>2, <1>3, <2>1 DEF FillState
  <2> QED
    BY <1>6, <2>2, <2>3 DEF FreshInv
<1>9. CASE ~InUnallocRun(wt, c)
  <2>1. RunState'
    BY <1>9 DEF RunState
  <2>2. FillState'
    <3> SUFFICES ASSUME ~op'.need_pre_read, NEW r \in live, HostOf(r) = HostOf(c), r # c
                 PROVE  FALSE
      BY <1>1, <1>2 DEF FillState
    <3>1. deblock_mask[fd0[c[1]]] = 0 /\ r \in Record /\ r[1] = c[1]
      BY <1>1, <1>9 DEF HostOf
    <3>2. r[3] \in Nat /\ c[3] \in Nat
      BY <1>1, <3>1, RecordFacts
    <3>3. r[3] % 1 = 0 /\ c[3] % 1 = 0
      BY <3>2
    <3>4. SlotOf(fd0[r[1]], r[3]) = SlotOf(fd0[c[1]], c[3])
      BY <3>1, <3>3 DEF SlotOf
    <3> QED
      BY <1>1, <3>1, <3>4, SlotFacts
  <2> QED
    BY <1>6, <2>1, <2>2 DEF FreshInv
<1> QED
  BY <1>8, <1>9

\* A step between calls that leaves the buffer's contents, the disk and the
\* run alone, but may drop a clean buffer and forget records.
LEMMA IdleFresh ==
    ASSUME FreshInv, IInv', BufferState', pc \notin FlushPoint \cup Rwoper, pc' \notin Rwoper \cup {"dir_flush"},
           live' \subseteq live, \A r \in live' : r \in DataRecord => BlockOf(r) \in alloc',
           UNCHANGED <<disk, hstbuf, hostbuf, unalloc>>,
           hostbuf_valid' = hostbuf_valid \/ (~hostbuf_dirty /\ ~hostbuf_valid'),
           unalloc_count' \in {unalloc_count, 0}
    PROVE  FreshInv'
<1>0. TypeOK /\ RunState /\ Coherence
  BY DEF FreshInv, IInv
<1>1. AllocState' /\ FillState'
  BY DEF AllocState, FillState
<1>3. ASSUME NEW r \in live, Kept(r) PROVE Kept(r)'
  <2>1. OnDisk(r)' = OnDisk(r)
    BY DEF OnDisk
  <2>2. CASE hostbuf_valid' = hostbuf_valid
    BY <1>3, <2>1, <2>2 DEF Kept
  <2>3. CASE ~hostbuf_dirty /\ hostbuf_valid
    <3>1. r \in Record
      BY <1>0 DEF TypeOK
    <3>2. SlotOf(fd0[r[1]], r[3]) \in SlotIndex /\ SlotOf(fd0[r[1]], r[3]) <= deblock_mask[fd0[r[1]]]
      BY <3>1, SlotFacts
    <3>3. hostbuf = HostOf(r) /\ hostbuf[1] = r[1]
      BY <1>3 DEF Kept, HostOf
    <3>4. hstbuf[SlotOf(fd0[r[1]], r[3])] = OnDisk(r)
      BY <1>0, <2>3, <3>2, <3>3 DEF Coherence, OnDisk, FlushPoint
    <3> QED
      BY <2>1, <3>3, <3>4 DEF Kept
  <2> QED
    BY <1>0, <1>3, <2>1, <2>2, <2>3 DEF Kept
<1>4. RunState'
  <2> SUFFICES ASSUME unalloc_count' # 0 PROVE RunState'
    BY DEF RunState
  <2>1. unalloc_count' = unalloc_count /\ unalloc' = unalloc /\ pc \notin Rwoper
    OBVIOUS
  <2>2. \A r \in live' : HostOf(r) = HostOf(unalloc) => Kept(r)'
    BY <1>0, <1>3, <2>1 DEF RunState
  <2> QED
    BY <1>0, <2>1, <2>2 DEF RunState
<1> QED
  BY <1>1, <1>4 DEF FreshInv

\* A READ keeps the invariant: it ends the run, and it always pre-reads.
LEMMA ReadFresh ==
    ASSUME FreshInv, IInv', BufferState', NEW t, NEW s, Xread(t, s)
    PROVE  FreshInv'
<1>0. AllocState
  BY DEF FreshInv
<1>1. /\ unalloc_count' = 0 /\ op' = XreadOp /\ pc' = RwoperEntry(cpm')
      /\ UNCHANGED <<disk, hstbuf, hostbuf, hostbuf_valid, hostbuf_dirty, disk_error,
                     current_format_idx, alloc, live>>
  BY DEF Xread, RunAfterRead, bufVars
<1>2. op'.is_read /\ op'.need_pre_read
  BY <1>1 DEF XreadOp
<1>5. AllocState' /\ RunState' /\ FillState'
  BY <1>0, <1>1, <1>2 DEF AllocState, RunState, FillState
<1> QED
  BY <1>5 DEF FreshInv

LEMMA NextFresh == SequentialAlloc /\ FreshInv /\ [Next]_vars => FreshInv'
<1> SUFFICES ASSUME SequentialAlloc, FreshInv, [Next]_vars PROVE FreshInv'
  OBVIOUS
<1> USE DEF posVars, ctlVars
<1>0. /\ TypeOK /\ CallState /\ BootState /\ AllocState /\ BufferState /\ RunState /\ FillState
      /\ IInv' /\ BufferState'
  BY NextIInv, NextBufferState DEF FreshInv, IInv
<1> HIDE DEF FreshInv
<1> DEFINE Quiet == /\ pc \notin FlushPoint \cup Rwoper /\ pc' \notin Rwoper \cup {"dir_flush"}
                    /\ UNCHANGED <<disk, hstbuf, hostbuf, unalloc>>
<1>l. live' = live /\ alloc' = alloc => \A r \in live' : r \in DataRecord => BlockOf(r) \in alloc'
  BY <1>0 DEF AllocState
<1>s. ASSUME NEW d \in Drive, NEW ret \in Caller, pc = "bdos", SelectDrive(d, ret) PROVE FreshInv'
  <2>1. Quiet /\ UNCHANGED <<hostbuf_valid, unalloc_count, live, alloc>>
    BY <1>s DEF SelectDrive, bufVars, Caller, FlushPoint, Rwoper
  <2> QED
    BY <1>0, <1>l, <2>1, IdleFresh
<1>h. ASSUME NEW ret \in Caller, pc \in Caller, Home(ret), unalloc_count' \in {unalloc_count, 0},
             UNCHANGED unalloc
      PROVE  FreshInv'
  <2>1. Quiet /\ UNCHANGED <<live, alloc>>
    BY <1>h DEF Home, Caller, FlushPoint, Rwoper
  <2>2. hostbuf_valid' = hostbuf_valid \/ (~hostbuf_dirty /\ ~hostbuf_valid')
    BY <1>0, <1>h DEF Home, TypeOK
  <2> QED
    BY <1>0, <1>h, <1>l, <2>1, <2>2, IdleFresh
<1>1. CASE Seldsk
  BY <1>1, <1>s DEF Seldsk, Caller
<1>2. CASE BiosHome
  BY <1>2, <1>h DEF BiosHome, Caller
<1>3. CASE BiosRead
  BY <1>0, <1>3, ReadFresh DEF BiosRead
<1>4. CASE BiosWrite
  <2>1. PICK r \in DataRecord, wt \in WriteType, v \in Value :
          /\ r[1] = cpm[1] /\ alloc' = alloc \cup {BlockOf(r)} /\ BdosWrites(wt, r)
          /\ Xwrite(wt, r[2], r[3])
    BY <1>4 DEF BiosWrite
  <2>2. r = <<cpm[1], r[2], r[3]>> /\ pc = "bdos"
    BY <1>4, <2>1, RecordFacts DEF DataRecord, BiosWrite
  <2>3. /\ cpm' = r /\ pc' = RwoperEntry(r)
        /\ unalloc_count' = IF InUnallocRun(wt, r) THEN UnallocCount(wt) - 1 ELSE 0
        /\ unalloc' = IF InUnallocRun(wt, r) THEN NextSector(r) ELSE unalloc
        /\ op' = [is_read |-> FALSE, write_type |-> wt,
                  need_pre_read |-> ~InUnallocRun(wt, r) /\ deblock_mask[current_format_idx] # 0]
        /\ UNCHANGED <<disk, bufVars, current_format_idx, live>>
    BY <2>1, <2>2 DEF Xwrite
  <2> QED
    BY <1>0, <2>1, <2>2, <2>3, WriteFresh
<1>5. CASE FreeBlock
  <2>1. PICK b \in alloc : alloc' = alloc \ {b} /\ live' = live \ RecordsOfBlock(b)
    BY <1>5 DEF FreeBlock
  <2>2. Quiet /\ UNCHANGED <<hostbuf_valid, unalloc_count>>
    BY <1>5 DEF FreeBlock, bufVars, FlushPoint, Rwoper
  <2>3. \A r \in live' : r \in DataRecord => BlockOf(r) \in alloc'
    BY <1>0, <2>1 DEF AllocState, RecordsOfBlock
  <2> QED
    BY <1>0, <2>1, <2>2, <2>3, IdleFresh
<1>6. CASE RwoperFlush
  BY <1>0, <1>6, FlushFresh DEF RwoperFlush, WrthstFail, FlushPoint
<1>7. CASE RwoperFill
  <2>1. pc = "rwoper_fill" /\ hostbuf' = Target(cpm)
    BY <1>7 DEF RwoperFill
  <2>2. Target(cpm) \in Host /\ disk_error \in BOOLEAN /\ hstbuf \in Sector
    BY <1>0, <2>1, TargetFacts DEF CallState, TypeOK
  <2>3. CASE ~op.need_pre_read /\ Match(hstbuf, TRUE, FALSE, disk_error)
    BY <1>0, <2>1, <2>2, <2>3, MatchFresh
  <2>4. CASE op.need_pre_read /\ Match(Transfer(disk[Target(cpm)], hstbuf), TRUE, FALSE, disk_error)
    <3> DEFINE buf == Transfer(disk[Target(cpm)], hstbuf)
    <3>1. buf \in Sector
      BY <1>0, <2>2, TransferType DEF TypeOK
    <3> HIDE DEF buf
    <3> QED
      BY <1>0, <2>1, <2>2, <2>4, <3>1, MatchFresh DEF buf
  <2>5. CASE op.need_pre_read /\ \E s \in Garbage : Match(Transfer(s, hstbuf), FALSE, FALSE, TRUE)
    <3>1. PICK s \in Garbage : Match(Transfer(s, hstbuf), FALSE, FALSE, TRUE)
      BY <2>5
    <3>2. Transfer(s, hstbuf) \in Sector
      BY <2>2, TransferType, GeometryAssumption DEF Sector
    <3> QED
      BY <1>0, <2>1, <2>5, <3>1, <3>2, MatchFresh
  <2> QED
    BY <1>7, <2>3, <2>4, <2>5 DEF RwoperFill
<1>8. CASE RwoperMatch
  <2>1. /\ pc = "rwoper_match" /\ hostbuf' = hostbuf
        /\ Match(hstbuf, TRUE, hostbuf_dirty, disk_error)
    BY <1>8 DEF RwoperMatch
  <2>2. hostbuf_valid /\ hostbuf = Target(cpm) /\ ~disk_error
    BY <1>0, <2>1 DEF CallState, BufferState
  <2> QED
    BY <1>0, <2>1, <2>2, MatchFresh DEF TypeOK
<1>9. CASE RwoperDirFlush
  BY <1>0, <1>9, FlushFresh DEF RwoperDirFlush, FlushPoint
<1>10. CASE SeldskFlush
  BY <1>0, <1>10, FlushFresh DEF SeldskFlush, WrthstFail, FlushPoint
<1>11. CASE HomeFlush
  BY <1>0, <1>11, FlushFresh DEF HomeFlush, WrthstFail, FlushPoint
<1>12. CASE Wboot
  BY <1>12, <1>s, GeometryAssumption DEF Wboot, Caller
<1>13. CASE WbootHome
  BY <1>13, <1>h DEF WbootHome, Caller
<1>14. CASE WbootLoad
  <2>1. CASE Xread(1, sec)
    BY <1>0, <2>1, ReadFresh
  <2>2. CASE /\ pc' \in {"halted", "bdos"}
             /\ UNCHANGED <<disk, bufVars, posVars, dma, reply, caller, sec, alloc, live>>
    <3>1. Quiet /\ UNCHANGED <<hostbuf_valid, unalloc_count, live, alloc>>
      BY <1>14, <2>2 DEF WbootLoad, bufVars, FlushPoint, Rwoper
    <3> QED
      BY <1>0, <1>l, <3>1, IdleFresh
  <2> QED
    BY <1>14, <2>1, <2>2 DEF WbootLoad
<1>15. CASE ColdBoot
  <2>1. /\ unalloc_count' = 0 /\ pc' = "wboot_home"
        /\ alloc' = alloc /\ live' \subseteq live
    BY <1>15 DEF ColdBoot, SectorDamaged
  <2> QED
    BY <1>0, <2>1 DEF FreshInv, AllocState, RunState, FillState, Rwoper
<1>16. CASE UNCHANGED vars
  <2>1. UNCHANGED <<disk, hstbuf, hostbuf, hostbuf_valid, disk_error, cpm, unalloc_count, unalloc,
                    current_format_idx, op, pc, alloc, live>>
    BY <1>16 DEF vars, bufVars
  <2>2. AllocState'
    BY <1>0, <2>1 DEF AllocState
  <2>3. \A r : Kept(r)' <=> Kept(r)
    BY <2>1 DEF Kept, OnDisk
  <2>4. RunState' /\ FillState'
    BY <1>0, <2>1, <2>3 DEF RunState, FillState, Target, NextSector
  <2> QED
    BY <1>0, <2>2, <2>4 DEF FreshInv
<1> QED
  BY <1>1, <1>2, <1>3, <1>4, <1>5, <1>6, <1>7, <1>8, <1>9, <1>10, <1>11, <1>12, <1>13, <1>14,
     <1>15, <1>16 DEF Next

\* Skipping the pre-read is safe on every geometry whose tracks and blocks are
\* whole sectors, as long as the BDOS writes the first record of a new block
\* first: no WRITE of a run puts anything into a slot that holds other data.
THEOREM NoPreReadSafe ==
    ASSUME SequentialAlloc
    PROVE  Spec => []NoPreReadIsSafe
<1>1. FreshInv => NoPreReadIsSafe
  <2> SUFFICES ASSUME FreshInv, pc = "rwoper_fill", ~op.need_pre_read,
                      NEW r \in live, HostOf(r) = Target(cpm), r # cpm
               PROVE  hstbuf[SlotOf(fd0[r[1]], r[3])] = OnDisk(r)
    BY DEF NoPreReadIsSafe
  <2>1. Kept(r) /\ ~(hostbuf_valid /\ hostbuf = Target(cpm))
    BY DEF FreshInv, FillState, BufferState, Rwoper
  <2> QED
    BY <2>1 DEF Kept
<1>2. FreshInv /\ [Next]_vars => FreshInv'
  BY NextFresh
<1> QED
  BY <1>1, <1>2, InitFresh, PTL DEF Spec

-----------------------------------------------------------------------------
(***************************************************************************)
(* The driver implements the record store.                                 *)
(***************************************************************************)

Step == [Store!Next]_(Store!vars)

\* The sectors in doubt, as the refinement maps them.
Doubt == IF hostbuf_dirty /\ ~hostbuf_valid THEN {hostbuf} ELSE {}

\* The records of S keep their value in this step.
KeepsAll(S) == \A r \in S : View(r)' = View(r)

\* The operators of RecordStore in the terms of the driver.
LEMMA StoreTerms ==
    ASSUME TypeOK
    PROVE  /\ \A S \in SUBSET Record : KeepsAll(S) => Store!Keeps(S)
           /\ \A h : Store!InSector(h) = RecordsIn(h)
           /\ \A r \in Record : [q \in Record |-> HostOf(q)][r] = HostOf(r)
<1>1. \A S \in SUBSET Record : KeepsAll(S) => Store!Keeps(S)
  BY DEF KeepsAll, Store!Keeps
<1>2. \A h : Store!InSector(h) = RecordsIn(h)
  BY DEF Store!InSector, RecordsIn
<1> QED
  BY <1>1, <1>2

LEMMA StoreInit == Init => Store!Init
<1> SUFFICES ASSUME Init PROVE Store!Init
  OBVIOUS
<1>0. TypeOK
  BY InitIInv DEF IInv
<1>1. ASSUME NEW r \in Record PROVE View(r) \in Value
  <2>1. HostOf(r) \in Host /\ SlotOf(fd0[r[1]], r[3]) \in SlotIndex
    BY SlotFacts
  <2> QED
    BY <1>0, <2>1 DEF View, OnDisk, TypeOK, Sector
<1> QED
  BY <1>0, <1>1 DEF Init, Store!Init, TypeOK

\* A step that changes nothing that the record store shows.
LEMMA StoreStutter ==
    ASSUME KeepsAll(Record), UNCHANGED <<live, disk_error, dma, reply>>, Doubt' = Doubt
    PROVE  Step
<1>1. [r \in Record |-> View(r)]' = [r \in Record |-> View(r)]
  BY DEF KeepsAll
<1> QED
  BY <1>1 DEF Step, Store!vars, Doubt

\* A READ or WRITE is called.
LEMMA StoreCall ==
    ASSUME TypeOK, reply' = "busy", dma' \in Value, UNCHANGED <<disk, bufVars, live>>
    PROVE  Step
<1>1. UNCHANGED <<disk, hstbuf, hostbuf, hostbuf_valid, hostbuf_dirty, disk_error, live>>
  BY DEF bufVars
<1>2. KeepsAll(live) /\ live \in SUBSET Record
  BY <1>1 DEF KeepsAll, View, OnDisk, TypeOK
<1>3. Store!Keeps(live)
  BY <1>2, StoreTerms
<1>4. Store!Call
  BY <1>1, <1>3 DEF Store!Call
<1> QED
  BY <1>4 DEF Step, Store!Next

\* A flush, all but the directory's.
LEMMA StoreFlush ==
    ASSUME IInv, pc \in FlushPoint, hostbuf_dirty, WrthstOk \/ WrthstFail,
           UNCHANGED <<hstbuf, hostbuf, dma, reply>>,
           hostbuf_dirty' \in {hostbuf_dirty, FALSE}
    PROVE  Step
<1>0. TypeOK /\ live \in SUBSET Record /\ hostbuf \in Host
  BY DEF IInv, TypeOK
<1>1. CASE WrthstOk /\ hostbuf_valid
  <2>1. hostbuf_valid' = hostbuf_valid /\ disk_error' = disk_error /\ live' = live
    BY <1>1 DEF WrthstOk
  <2>2. KeepsAll(Record)
    BY <1>1, <2>1, WrittenRecords DEF KeepsAll, View
  <2>3. Doubt' = Doubt
    BY <1>1, <2>1 DEF Doubt
  <2> QED
    BY <2>1, <2>2, <2>3, StoreStutter
<1>2. CASE WrthstOk /\ ~hostbuf_valid
  <2>1. hostbuf_valid' = hostbuf_valid /\ disk_error' = disk_error /\ live' = live \ RecordsIn(hostbuf)
    BY <1>2 DEF WrthstOk
  <2>2. KeepsAll(live') /\ live' \in SUBSET Record
    BY <1>0, <1>2, <2>1, WrittenRecords DEF KeepsAll, View, RecordsIn
  <2>3. Store!Keeps(live') /\ Store!InSector(hostbuf) = RecordsIn(hostbuf)
    BY <1>0, <2>2, StoreTerms
  <2>4. Store!DoubtLoss(hostbuf)
    BY <1>2, <2>1, <2>3 DEF Store!DoubtLoss
  <2> QED
    BY <1>0, <2>4 DEF Step, Store!Next
<1>3. CASE WrthstFail
  <2>1. ~hostbuf_valid' /\ disk_error' = TRUE /\ live' = live \ RecordsIn(hostbuf)
    BY <1>3 DEF WrthstFail, SectorDamaged
  <2>2. KeepsAll(live') /\ live' \in SUBSET Record
    <3>1. ASSUME NEW r \in live' PROVE r \in Record /\ HostOf(r) # hostbuf /\ HostOf(r) \in Host
      BY <1>0, <2>1, SlotFacts DEF RecordsIn
    <3>2. ASSUME NEW r \in live' PROVE OnDisk(r)' = OnDisk(r)
      BY <1>0, <1>3, <3>1 DEF WrthstFail, SectorDamaged, OnDisk, TypeOK
    <3> QED
      BY <2>1, <3>1, <3>2 DEF KeepsAll, View
  <2>3. Store!Keeps(live') /\ Store!InSector(hostbuf) = RecordsIn(hostbuf)
    BY <1>0, <2>2, StoreTerms
  <2>4. Store!LoseSector(hostbuf)
    BY <2>1, <2>3 DEF Store!LoseSector
  <2> QED
    BY <1>0, <2>4 DEF Step, Store!Next
<1> QED
  BY <1>1, <1>2, <1>3

\* A directory flush.
LEMMA StoreDirFlush ==
    ASSUME IInv, BufferState, RwoperDirFlush
    PROVE  Step
<1>0. /\ TypeOK /\ live \in SUBSET Record /\ hostbuf \in Host /\ pc \in FlushPoint
      /\ hostbuf_valid /\ ~disk_error /\ reply = "busy" /\ ~hostbuf_dirty
      /\ UNCHANGED <<hstbuf, hostbuf, hostbuf_dirty, dma>>
  BY DEF IInv, TypeOK, RwoperDirFlush, BufferState, FlushPoint, CallState
<1>1. CASE WrthstOk /\ reply' = "ok"
  <2>1. hostbuf_valid' = hostbuf_valid /\ disk_error' = disk_error /\ live' = live
    BY <1>0, <1>1 DEF WrthstOk
  <2>2. KeepsAll(live)
    BY <1>0, <1>1, <2>1, WrittenRecords DEF KeepsAll, View
  <2>3. Store!Keeps(live)
    BY <1>0, <2>2, StoreTerms
  <2>4. Store!WriteThrough
    BY <1>0, <1>1, <2>1, <2>3 DEF Store!WriteThrough
  <2> QED
    BY <2>4 DEF Step, Store!Next
<1>2. CASE SectorDamaged /\ hostbuf_valid' = FALSE /\ reply' = "err" /\ UNCHANGED disk_error
  <2>1. live' = live \ RecordsIn(hostbuf)
    BY <1>2 DEF SectorDamaged
  <2>2. KeepsAll(live') /\ live' \in SUBSET Record
    <3>1. ASSUME NEW r \in live' PROVE r \in Record /\ HostOf(r) # hostbuf /\ HostOf(r) \in Host
      BY <1>0, <2>1, SlotFacts DEF RecordsIn
    <3>2. ASSUME NEW r \in live' PROVE OnDisk(r)' = OnDisk(r)
      BY <1>0, <1>2, <3>1 DEF SectorDamaged, OnDisk, TypeOK
    <3> QED
      BY <1>0, <2>1, <3>1, <3>2 DEF KeepsAll, View
  <2>3. Store!Keeps(live') /\ Store!InSector(hostbuf) = RecordsIn(hostbuf)
    BY <1>0, <2>2, StoreTerms
  <2>4. disk_error' = FALSE
    BY <1>0, <1>2 DEF TypeOK
  <2>5. Store!LoseSectorError(hostbuf)
    BY <1>0, <1>2, <2>1, <2>3, <2>4 DEF Store!LoseSectorError
  <2> QED
    BY <1>0, <2>5 DEF Step, Store!Next
<1> QED
  BY <1>1, <1>2 DEF RwoperDirFlush

\* The end of a READ or WRITE, with a buffer that holds the other records of
\* the wanted sector, when the buffer that is dropped holds nothing else.
LEMMA StoreMatch ==
    ASSUME IInv, BufferState, pc \in {"rwoper_fill", "rwoper_match"},
           NEW buf \in Sector, NEW valid \in BOOLEAN, NEW dirty \in BOOLEAN, NEW err \in BOOLEAN,
           hostbuf' = Target(cpm), Match(buf, valid, dirty, err),
           ~valid => err, ~err => ~disk_error,
           \A r \in live : HostOf(r) # Target(cpm) \/ err => View(r) = OnDisk(r),
           ~err => \A r \in live : HostOf(r) = Target(cpm) /\ (op.is_read \/ r # cpm) =>
                       buf[SlotOf(fd0[r[1]], r[3])] = View(r)
    PROVE  Step
<1> DEFINE slot == SlotOf(current_format_idx, cpm[3])
<1>0. TypeOK /\ live \in SUBSET Record /\ cpm \in Record /\ current_format_idx = fd0[cpm[1]]
  BY DEF IInv, TypeOK, CallState
<1>1. Target(cpm) = HostOf(cpm) /\ slot \in SlotIndex /\ Target(cpm) \in Host
  BY <1>0, TargetFacts DEF Target, HostOf
<1>2. /\ hostbuf_valid' = (valid /\ ~err) /\ disk_error' = FALSE /\ disk' = disk
      /\ op.is_read => dma' = buf[slot] /\ hstbuf' = buf /\ live' = live
      /\ ~op.is_read => /\ hstbuf' = [buf EXCEPT ![slot] = dma] /\ dma' = dma
                        /\ live' = IF err THEN live \ {cpm} ELSE live \cup {cpm}
      /\ err => reply' = "err"
      /\ ~err => reply' \in {"ok", "busy"} /\ (op.is_read => reply' = "ok")
      /\ cpm' = cpm
  BY DEF Match, BufferState, posVars
<1>3. \A r : OnDisk(r)' = OnDisk(r)
  BY <1>2 DEF OnDisk
<1>4. CASE err
  <2>1. KeepsAll(live') /\ live' \in SUBSET Record /\ live' \in {live, live \ {cpm}}
    BY <1>0, <1>2, <1>3, <1>4 DEF KeepsAll, View
  <2>2. Store!Keeps(live') /\ [q \in Record |-> HostOf(q)][cpm] = HostOf(cpm)
    BY <1>0, <2>1, StoreTerms
  <2>3. Store!Error(cpm)
    BY <1>1, <1>2, <1>4, <2>1, <2>2 DEF Store!Error
  <2> QED
    BY <1>0, <2>3 DEF Step, Store!Next
<1>5. CASE ~err
  <2>0. valid /\ hostbuf_valid' /\ ~disk_error /\ disk_error' = disk_error
    BY <1>0, <1>2, <1>5 DEF TypeOK
  <2>1. ASSUME NEW r \in live, op.is_read \/ r # cpm PROVE View(r)' = View(r)
    <3>1. CASE HostOf(r) = Target(cpm)
      <4>1. r \in Record /\ View(r)' = hstbuf'[SlotOf(fd0[r[1]], r[3])]
        BY <1>0, <2>0, <3>1 DEF View
      <4>2. SlotOf(fd0[r[1]], r[3]) \in SlotIndex /\ (r # cpm => SlotOf(fd0[r[1]], r[3]) # slot)
        BY <1>0, <1>1, <3>1, <4>1, SlotFacts
      <4>3. hstbuf'[SlotOf(fd0[r[1]], r[3])] = buf[SlotOf(fd0[r[1]], r[3])]
        <5> DEFINE k == SlotOf(fd0[r[1]], r[3])
        <5> HIDE DEF k, slot
        <5> QED
          BY <1>1, <1>2, <2>1, <4>2 DEF Sector, k
      <4> QED
        BY <1>5, <2>1, <3>1, <4>1, <4>3
    <3>2. CASE HostOf(r) # Target(cpm)
      BY <1>3, <3>2 DEF View
    <3> QED
      BY <3>1, <3>2
  <2>2. View(cpm)' = hstbuf'[slot]
    BY <1>0, <1>1, <1>2, <2>0 DEF View
  <2>3. CASE op.is_read
    <3>1. KeepsAll(live) /\ (cpm \in live => dma' = View(cpm))
      BY <1>0, <1>1, <1>2, <1>5, <2>1, <2>3 DEF KeepsAll
    <3>2. Store!Keeps(live)
      BY <1>0, <3>1, StoreTerms
    <3>3. Store!ReadOk(cpm)
      BY <1>0, <1>2, <1>5, <2>0, <2>3, <3>1, <3>2 DEF Store!ReadOk
    <3> QED
      BY <1>0, <3>3 DEF Step, Store!Next
  <2>4. CASE ~op.is_read
    <3>1. KeepsAll(live \ {cpm}) /\ View(cpm)' = dma
      BY <1>1, <1>2, <2>1, <2>2, <2>4 DEF KeepsAll, Sector
    <3>2. Store!Keeps(live \ {cpm})
      BY <1>0, <3>1, StoreTerms
    <3>3. [r \in Record |-> View(r)]'[cpm] = View(cpm)'
      BY <1>0, <1>2 DEF View, OnDisk
    <3>4. Store!WriteOk(cpm)
      BY <1>0, <1>2, <1>5, <2>0, <2>4, <3>1, <3>2, <3>3 DEF Store!WriteOk
    <3> QED
      BY <1>0, <3>4 DEF Step, Store!Next
  <2> QED
    BY <2>3, <2>4
<1> QED
  BY <1>4, <1>5

\* What a valid buffer that agrees with the disk shows is what the disk has.
LEMMA AgreedView ==
    ASSUME TypeOK, NEW r \in live, hostbuf_valid /\ hostbuf = HostOf(r) => Agrees
    PROVE  View(r) = OnDisk(r)
<1>1. /\ r \in Record /\ HostOf(r)[1] = r[1] /\ SlotOf(fd0[r[1]], r[3]) \in SlotIndex
      /\ SlotOf(fd0[r[1]], r[3]) <= deblock_mask[fd0[r[1]]]
  BY SlotFacts DEF TypeOK, HostOf
<1> QED
  BY <1>1 DEF View, Agrees, OnDisk

\* The buffer is taken over for another sector.
LEMMA StoreFill ==
    ASSUME IInv, BufferState, NoPreReadIsSafe, RwoperFill
    PROVE  Step
<1>0. /\ TypeOK /\ pc = "rwoper_fill" /\ hostbuf' = Target(cpm) /\ disk_error \in BOOLEAN /\ hstbuf \in Sector
      /\ cpm \in Record /\ current_format_idx = fd0[cpm[1]]
  BY DEF IInv, TypeOK, RwoperFill, CallState
<1>1. \A r \in live : View(r) = OnDisk(r)
  BY <1>0, AgreedView DEF BufferState
<1>2. Target(cpm) \in Host /\ Target(cpm) = HostOf(cpm)
  BY <1>0, TargetFacts DEF Target, HostOf
<1>3. CASE ~op.need_pre_read /\ Match(hstbuf, TRUE, FALSE, disk_error)
  <2>1. ~op.is_read
    BY <1>3 DEF IInv, BootState
  <2>2. ~disk_error => \A r \in live : HostOf(r) = Target(cpm) /\ (op.is_read \/ r # cpm) =>
            hstbuf[SlotOf(fd0[r[1]], r[3])] = View(r)
    BY <1>0, <1>1, <1>3, <2>1 DEF NoPreReadIsSafe
  <2> QED
    BY <1>0, <1>1, <1>3, <2>2, StoreMatch
<1>4. CASE op.need_pre_read /\ Match(Transfer(disk[Target(cpm)], hstbuf), TRUE, FALSE, disk_error)
  <2> DEFINE buf == Transfer(disk[Target(cpm)], hstbuf)
  <2>1. buf \in Sector
    BY <1>0, <1>2, TransferType DEF TypeOK
  <2>2. ASSUME NEW r \in live, HostOf(r) = Target(cpm) PROVE buf[SlotOf(fd0[r[1]], r[3])] = View(r)
    <3>1. /\ r \in Record /\ r[1] = cpm[1] /\ SlotOf(fd0[r[1]], r[3]) \in SlotIndex
          /\ SlotOf(fd0[r[1]], r[3]) <= deblock_mask[fd0[r[1]]]
      BY <1>0, <1>2, <2>2, SlotFacts DEF TypeOK, HostOf
    <3>2. buf[SlotOf(fd0[r[1]], r[3])] = disk[Target(cpm)][SlotOf(fd0[r[1]], r[3])]
      BY <1>0, <3>1 DEF Transfer
    <3> QED
      BY <1>1, <2>2, <3>2 DEF OnDisk
  <2> HIDE DEF buf
  <2> QED
    BY <1>0, <1>1, <1>4, <2>1, <2>2, StoreMatch DEF buf
<1>5. CASE op.need_pre_read /\ \E s \in Garbage : Match(Transfer(s, hstbuf), FALSE, FALSE, TRUE)
  <2>1. PICK s \in Garbage : Match(Transfer(s, hstbuf), FALSE, FALSE, TRUE)
    BY <1>5
  <2>2. Transfer(s, hstbuf) \in Sector
    BY <1>0, TransferType, GeometryAssumption DEF Sector
  <2> QED
    BY <1>0, <1>1, <2>1, <2>2, StoreMatch
<1> QED
  BY <1>3, <1>4, <1>5 DEF RwoperFill

\* The buffer holds the wanted sector already.
LEMMA StoreHit ==
    ASSUME IInv, BufferState, RwoperMatch
    PROVE  Step
<1>0. /\ TypeOK /\ pc = "rwoper_match" /\ hostbuf' = hostbuf /\ hostbuf_valid /\ hostbuf = Target(cpm)
      /\ ~disk_error /\ disk_error \in BOOLEAN /\ hostbuf_dirty \in BOOLEAN /\ hstbuf \in Sector
      /\ Match(hstbuf, TRUE, hostbuf_dirty, disk_error)
  BY DEF IInv, TypeOK, RwoperMatch, CallState, BufferState
<1>1. \A r \in live : View(r) = IF HostOf(r) = Target(cpm) THEN hstbuf[SlotOf(fd0[r[1]], r[3])] ELSE OnDisk(r)
  BY <1>0 DEF View
<1> QED
  BY <1>0, <1>1, StoreMatch

\* A reset.
LEMMA StoreCrash ==
    ASSUME IInv, ColdBoot
    PROVE  Step
<1>0. TypeOK /\ Coherence /\ live \in SUBSET Record /\ hostbuf \in Host
  BY DEF IInv, TypeOK
<1>1. /\ ~hostbuf_valid' /\ ~hostbuf_dirty' /\ disk_error' = FALSE /\ reply' = "busy" /\ dma' = dma
      /\ hostbuf' = hostbuf
  BY DEF ColdBoot
<1>2. /\ live' \in {live, live \ RecordsIn(hostbuf)}
      /\ \A r \in live' : HostOf(r) # hostbuf => OnDisk(r)' = OnDisk(r)
      /\ \A r \in live' : HostOf(r) = hostbuf => ~hostbuf_dirty /\ pc \notin FlushPoint /\ disk' = disk
  <2>1. CASE SectorDamaged /\ pc \in FlushPoint
    <3>1. live' = live \ RecordsIn(hostbuf)
      BY <2>1 DEF SectorDamaged
    <3>2. ASSUME NEW r \in live' PROVE r \in Record /\ HostOf(r) # hostbuf /\ HostOf(r) \in Host
      BY <1>0, <3>1, SlotFacts DEF RecordsIn
    <3>3. ASSUME NEW r \in live' PROVE OnDisk(r)' = OnDisk(r)
      BY <1>0, <2>1, <3>2 DEF SectorDamaged, OnDisk, TypeOK
    <3> QED
      BY <3>1, <3>2, <3>3
  <2>2. CASE /\ UNCHANGED disk /\ pc \notin FlushPoint
             /\ live' = IF hostbuf_dirty THEN live \ RecordsIn(hostbuf) ELSE live
    BY <1>0, <2>2 DEF OnDisk, RecordsIn
  <2> QED
    BY <2>1, <2>2 DEF ColdBoot
<1>3. ASSUME NEW r \in live' PROVE View(r)' = View(r)
  <2>0. r \in live
    BY <1>2
  <2>1. CASE HostOf(r) # hostbuf
    BY <1>1, <1>2, <2>1 DEF View
  <2>2. CASE HostOf(r) = hostbuf
    <3>1. hostbuf_valid => Agrees
      BY <1>0, <1>2, <2>2 DEF Coherence, Agrees, FlushPoint
    <3>2. OnDisk(r)' = OnDisk(r)
      BY <1>2, <2>2 DEF OnDisk
    <3>3. View(r) = OnDisk(r)
      BY <1>0, <2>0, <3>1, AgreedView
    <3> QED
      BY <1>1, <3>2, <3>3 DEF View
  <2> QED
    BY <2>1, <2>2
<1>4. Store!Keeps(live') /\ Store!InSector(hostbuf) = RecordsIn(hostbuf)
  BY <1>0, <1>2, <1>3, StoreTerms DEF KeepsAll
<1>5. Store!Crash
  BY <1>0, <1>1, <1>2, <1>4 DEF Store!Crash
<1> QED
  BY <1>5 DEF Step, Store!Next

LEMMA StoreSteps == IInv /\ BufferState /\ NoPreReadIsSafe /\ [Next]_vars => Step
<1> SUFFICES ASSUME IInv, BufferState, NoPreReadIsSafe, [Next]_vars PROVE Step
  OBVIOUS
<1> USE DEF posVars, ctlVars
<1>0. TypeOK /\ CallState /\ Coherence
  BY DEF IInv
<1>u. ASSUME UNCHANGED <<disk, bufVars, live, dma, reply>> PROVE Step
  <2>1. UNCHANGED <<disk, hstbuf, hostbuf, hostbuf_valid, hostbuf_dirty, disk_error>>
    BY <1>u DEF bufVars
  <2>2. KeepsAll(Record) /\ Doubt' = Doubt
    BY <2>1 DEF KeepsAll, View, OnDisk, Doubt
  <2> QED
    BY <1>u, <2>1, <2>2, StoreStutter
<1>h. ASSUME NEW ret, Home(ret), pc # "dir_flush" PROVE Step
  <2>1. /\ UNCHANGED <<disk, hstbuf, hostbuf, hostbuf_dirty, disk_error, live, dma, reply>>
        /\ hostbuf_valid' = (hostbuf_valid /\ hostbuf_dirty)
    BY <1>h DEF Home
  <2>2. Doubt' = Doubt
    BY <1>0, <2>1 DEF Doubt, TypeOK
  <2>3. ASSUME NEW r \in Record PROVE View(r)' = View(r)
    <3>1. OnDisk(r)' = OnDisk(r)
      BY <2>1 DEF OnDisk
    <3>2. CASE hostbuf_dirty
      BY <2>1, <3>1, <3>2 DEF View
    <3>3. CASE ~hostbuf_dirty
      <4>1. /\ HostOf(r)[1] = r[1] /\ SlotOf(fd0[r[1]], r[3]) \in SlotIndex
            /\ SlotOf(fd0[r[1]], r[3]) <= deblock_mask[fd0[r[1]]]
        BY SlotFacts DEF HostOf
      <4>2. View(r) = OnDisk(r)
        BY <1>0, <1>h, <3>3, <4>1 DEF View, Coherence, OnDisk
      <4> QED
        BY <2>1, <3>1, <3>3, <4>2 DEF View
    <3> QED
      BY <3>2, <3>3
  <2> QED
    BY <2>1, <2>2, <2>3, StoreStutter DEF KeepsAll
<1>1. CASE Seldsk
  BY <1>1, <1>u DEF Seldsk, SelectDrive
<1>2. CASE BiosHome
  BY <1>2, <1>h DEF BiosHome
<1>3. CASE BiosRead
  BY <1>0, <1>3, StoreCall DEF BiosRead, Xread, TypeOK
<1>4. CASE BiosWrite
  BY <1>0, <1>4, StoreCall DEF BiosWrite, Xwrite
<1>5. CASE FreeBlock
  <2>1. PICK b \in alloc : live' = live \ RecordsOfBlock(b)
    BY <1>5 DEF FreeBlock
  <2>2. UNCHANGED <<disk, hstbuf, hostbuf, hostbuf_valid, hostbuf_dirty, disk_error, dma, reply>>
    BY <1>5 DEF FreeBlock, bufVars
  <2>3. KeepsAll(live') /\ live' \in SUBSET Record /\ b \in Block
    BY <1>0, <2>1, <2>2 DEF KeepsAll, View, OnDisk, TypeOK
  <2>4. Store!Keeps(live')
    BY <1>0, <2>3, StoreTerms
  <2>5. Store!Forget(RecordsOfBlock(b))
    BY <2>1, <2>2, <2>4 DEF Store!Forget
  <2> QED
    BY <2>3, <2>5 DEF Step, Store!Next
<1>6. CASE RwoperFlush
  BY <1>0, <1>6, StoreFlush DEF RwoperFlush, FlushPoint, CallState
<1>7. CASE RwoperFill
  BY <1>7, StoreFill
<1>8. CASE RwoperMatch
  BY <1>8, StoreHit
<1>9. CASE RwoperDirFlush
  BY <1>9, StoreDirFlush
<1>10. CASE SeldskFlush
  BY <1>0, <1>10, StoreFlush DEF SeldskFlush, FlushPoint, CallState
<1>11. CASE HomeFlush
  BY <1>0, <1>11, StoreFlush DEF HomeFlush, FlushPoint, CallState
<1>12. CASE Wboot
  BY <1>12, <1>u DEF Wboot, SelectDrive
<1>13. CASE WbootHome
  BY <1>13, <1>h DEF WbootHome
<1>14. CASE WbootLoad
  <2>1. CASE Xread(1, sec)
    BY <1>0, <2>1, StoreCall DEF Xread, TypeOK
  <2>2. CASE UNCHANGED <<disk, bufVars, posVars, dma, reply, caller, sec, alloc, live>>
    BY <2>2, <1>u
  <2> QED
    BY <1>14, <2>1, <2>2 DEF WbootLoad
<1>15. CASE ColdBoot
  BY <1>15, StoreCrash
<1>16. CASE UNCHANGED vars
  BY <1>16, <1>u DEF vars
<1> QED
  BY <1>1, <1>2, <1>3, <1>4, <1>5, <1>6, <1>7, <1>8, <1>9, <1>10, <1>11, <1>12, <1>13, <1>14,
     <1>15, <1>16 DEF Next

\* The driver is a record store: through every sequence of calls, failed
\* transfers, drive changes and boots, a READ returns what was last written, and
\* a record is lost only with an error that CP/M gets to see or in a reset.
THEOREM IsStore ==
    ASSUME SequentialAlloc
    PROVE  Spec => ImplementsStore
<1>1. FreshInv /\ [Next]_vars => FreshInv'
  BY NextFresh
<1>2. FreshInv => IInv /\ BufferState
  BY DEF FreshInv
<1>3. Spec => []NoPreReadIsSafe
  BY NoPreReadSafe
<1> QED
  BY <1>1, <1>2, <1>3, InitFresh, StoreInit, StoreSteps, PTL DEF Spec, ImplementsStore, Store!Spec, Step
=============================================================================
