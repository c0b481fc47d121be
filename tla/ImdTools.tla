------------------------------ MODULE ImdTools ------------------------------
(***************************************************************************)
(* The tools of rcbios/ that read and rewrite ImageDisk (.IMD) files:       *)
(* imd2raw.py, imdinfo.py, imd_rebase_sectors.py, patch_bios.py and          *)
(* bin2imd.py, and the two checkers rcbios-in-c/verify_checksums.py and     *)
(* cpm/verify_against_imd.py.  Each has a parser of its own for the same     *)
(* byte format, in which nothing marks the start of a track or a sector: a  *)
(* tool that takes one length wrong reads or writes nonsense from there on. *)
(*                                                                         *)
(* The model keeps the file as a sequence of bytes, without the header text *)
(* up to 1AH that all tools skip or copy, and beside it the diskette the    *)
(* file stands for, as a function from cylinder, head and sector number to  *)
(* data.  The tools work on the file, the properties speak of the diskette. *)
(***************************************************************************)
EXTENDS Integers, Sequences, SequencesExt, FiniteSetsExt, TLC

CONSTANTS
    RecLen,        \* bytes of the smallest sector and of a CP/M record (128)
    Images,        \* the sequences of tracks ImageDisk may have read
    RawImages,     \* raw images to convert
    Cims,          \* BIOS images to patch in
    Delta,         \* values --delta is called with
    MaxId,         \* bound: sector numbers are not rebased past this
    MaxiCyls, MaxiSecs,   \* 77 cylinders, 15 sectors of an 8" disk
    QdSecs, QdMin,        \* 10 sectors of an RC703 disk, at least 40 cylinders
    MiniT0, MiniSecs,     \* 16 sectors of a mini's track 0, 9 of the others
    CkT0, CkSecs,         \* sectors of a side verify_checksums.py reads: 26, 15
    XLT,                  \* skew tables by sectors per side
    Skew,                 \* the skew each of them is made with
    CcpRecords,           \* records of CCP and BDOS (44)
    Builts,               \* what a build of CCP and BDOS may have made
    MaxDiffs              \* bytes of it that may differ, those of the serial number (6)

VARIABLES
    file,     \* the bytes of the .IMD file
    disk,     \* what the diskette holds: <<cyl, head, sector>> -> bytes
    broken,   \* history: the file has lost a map its head byte announces
    report       \* the tool run last on this file, and what it reported

imdVars == <<file, disk, broken, report>>

E5 == 229
Size(code) == RecLen * 2^code
Fill(b, n) == [k \in 1 .. n |-> b]
SumOf(seq) == FoldLeft(LAMBDA a, b : a + b, 0, seq)
Sorted(sectors) == SortSeq(sectors, LAMBDA a, b : a[1] < b[1])
\* Bytes from..to of a sequence as a slice has them: those that are there.
Slice(s, from, to) == SubSeq(s, from, Min({to, Len(s)}))
Flag(b) == IF b THEN 1 ELSE 0

(***************************************************************************)
(* ImageDisk itself, which is not part of the repository: one track of a    *)
(* diskette as it writes it.  A track is a record of mode, cyl, head, the   *)
(* optional cylinder and head maps, the size code and the sectors, each     *)
(* with its number, its type (0 unreadable, odd in full, even one byte for  *)
(* all) and its data.                                                       *)
(***************************************************************************)
ImageDiskSector(s) ==
    IF s.type = 0 THEN <<0>>
    ELSE IF s.type % 2 = 1 THEN <<s.type>> \o s.data ELSE <<s.type, s.data[1]>>

ImageDiskTrack(t) ==
    LET n == Len(t.secs)
        map(with, v) == IF with THEN Fill(v, n) ELSE <<>>
    IN  <<t.mode, t.cyl, t.head + 128 * Flag(t.cmap) + 64 * Flag(t.hmap), n, t.code>>
        \o [i \in 1 .. n |-> t.secs[i].id]
        \o map(t.cmap, t.cyl) \o map(t.hmap, t.head)
        \o FlattenSeq([i \in 1 .. n |-> ImageDiskSector(t.secs[i])])

DisketteOf(image) ==
    LET at(k) == CHOOSE ti \in {<<t, i>> : t \in Range(image), i \in 1 .. 9} :
                    /\ ti[2] \in DOMAIN ti[1].secs
                    /\ k = <<ti[1].cyl, ti[1].head, ti[1].secs[ti[2]].id>>
    IN  [k \in UNION {{<<t.cyl, t.head, t.secs[i].id>> : i \in DOMAIN t.secs} :
                         t \in Range(image)} |->
            at(k)[1].secs[at(k)[2]].data]

-----------------------------------------------------------------------------
(* Reading.  A sector record begins at pos; the result is its data and      *)
(* where the next one begins.  A type above 8 ends the tool: such a file is *)
(* no image and is left out.                                                *)

ReadSector(f, pos, size) ==
    CASE f[pos] = 0 -> [data |-> Fill(0, size), next |-> pos + 1]
      [] f[pos] \in {1, 3, 5, 7} ->
            [data |-> SubSeq(f, pos + 1, pos + size), next |-> pos + 1 + size]
      [] f[pos] \in {2, 4, 6, 8} -> [data |-> Fill(f[pos + 1], size), next |-> pos + 2]

\* verify_checksums.py takes every type above 4 to have no bytes.
ChecksumSector(f, pos, size) ==
    CASE f[pos] \in {1, 3} ->
            [data |-> SubSeq(f, pos + 1, pos + size), next |-> pos + 1 + size]
      [] f[pos] \in {2, 4} -> [data |-> Fill(f[pos + 1], size), next |-> pos + 2]
      [] OTHER -> [data |-> Fill(0, size), next |-> pos + 1]

\* The track record that begins at pos, and where it ends, as tool reads it.
Track(f, pos, tool) ==
    LET Read(g, p, size) == IF tool = "checksums" THEN ChecksumSector(g, p, size)
                            ELSE ReadSector(g, p, size)
        n == f[pos + 3]
        bytes == Size(f[pos + 4])
        maps == Flag(f[pos + 2] >= 128) + Flag((f[pos + 2] \div 64) % 2 = 1)
        at[i \in 0 .. n] ==
            IF i = 0 THEN pos + 5 + n + maps * n ELSE Read(f, at[i - 1], bytes).next
    IN  [mode |-> f[pos], cyl |-> f[pos + 1], head |-> f[pos + 2] % 64,
         head_byte |-> f[pos + 2], nsect |-> n, code |-> f[pos + 4], size |-> bytes,
         secnums |-> SubSeq(f, pos + 5, pos + 4 + n),
         types |-> {f[at[i - 1]] : i \in 1 .. n},
         sectors |-> [i \in 1 .. n |-> <<f[pos + 4 + i], Read(f, at[i - 1], bytes).data>>],
         start |-> pos, end |-> at[n]]

FollowedBy(t, from) == <<t>> \o from[t.end]

Tracks(f, tool) ==
    LET from[pos \in 1 .. Len(f) + 1] ==
            IF pos > Len(f) THEN <<>> ELSE FollowedBy(Track(f, pos, tool), from)
    IN  from[1]

\* parse_imd of imd2raw.py, of verify_against_imd.py and of patch_bios.py,
\* the last with the places of the tracks in the file.
parse_imd(f) == Tracks(f, "imd2raw")
reference_parse_imd(f) == Tracks(f, "ccpbdos")
patch_parse_imd(f) == Tracks(f, "patch")

-----------------------------------------------------------------------------
(* The tools as functions of the file. *)

\* The leading tracks of cylinder 0, each in the order of sector numbers.
extract_track0(ts) ==
    LET lead == {i \in DOMAIN ts : \A j \in 1 .. i : ts[j].cyl = 0}
        bytes(t) == LET s == Sorted(t.sectors)
                    IN  FlattenSeq([k \in 1 .. t.nsect |-> s[k][2]])
    IN  FlattenSeq([i \in 1 .. Cardinality(lead) |-> bytes(ts[i])])

\* The places of the sector numbers in the file.
NumberMaps(ts) == UNION {t.start + 5 .. t.start + 4 + t.nsect : t \in Range(ts)}

\* <<>>: a new sector number does not fit a byte, bytes() raises ValueError
\* and nothing is written.
rebase(f, delta, inMap) ==
    IF \E p \in inMap : f[p] + delta \notin 0 .. 255 THEN <<>>
    ELSE [p \in DOMAIN f |-> IF p \in inMap THEN f[p] + delta ELSE f[p]]

\* patch_bios.py: a track with new data, in the order of its own number map.
\* The head byte keeps its flags, the cylinder and head maps it announces are not
\* written.
write_track(trk, data_map) ==
    <<trk.mode, trk.cyl, trk.head_byte, trk.nsect, trk.code>> \o trk.secnums
    \o FlattenSeq([i \in 1 .. trk.nsect |->
          LET d == data_map[trk.secnums[i]]
          IN  IF Cardinality(Range(d)) = 1 THEN <<2, d[1]>> ELSE <<1>> \o d])

\* The data of a side once cim has been laid over its sectors in the order of
\* their numbers, from byte pos of cim on; past its end the old bytes stay.
fill_side(trk, cim, pos) ==
    LET s == Sorted(trk.sectors)
        over(i) == [k \in 1 .. trk.size |->
                       LET c == pos + (i - 1) * trk.size + k
                       IN  IF c <= Len(cim) THEN cim[c] ELSE s[i][2][k]]
    IN  [id \in Range(trk.secnums) |->
            over(CHOOSE i \in 1 .. trk.nsect : s[i][1] = id)]

\* Bug: side 1 is filled from the start of the image again.
BugPatch(f, cim, ts) ==
    LET side(h) == SelectSeq(ts, LAMBDA t : t.cyl = 0 /\ t.head = h)
        total(h) == IF side(h) = <<>> THEN 0 ELSE side(h)[1].nsect * side(h)[1].size
    IN  IF side(0) = <<>> \/ Len(cim) > total(0) + total(1) THEN <<>>
        ELSE FlattenSeq([i \in 1 .. Len(ts) |->
            IF ts[i].cyl = 0 /\ (ts[i].head = 0 \/ (ts[i].head = 1 /\ Len(cim) > total(0)))
            THEN write_track(ts[i], fill_side(ts[i], cim, 0))
            ELSE SubSeq(f, ts[i].start, ts[i].end - 1)])

\* <<>>: no side 0 of track 0, or the image is larger than the track.
patch(f, cim, ts) ==
    LET side(h) == SelectSeq(ts, LAMBDA t : t.cyl = 0 /\ t.head = h)
        total(h) == IF side(h) = <<>> THEN 0 ELSE side(h)[1].nsect * side(h)[1].size
    IN  IF side(0) = <<>> \/ Len(cim) > total(0) + total(1) THEN <<>>
        ELSE FlattenSeq([i \in 1 .. Len(ts) |->
            IF ts[i].cyl = 0 /\ ts[i].head = 0
            THEN write_track(ts[i], fill_side(ts[i], cim, 0))
            ELSE IF ts[i].cyl = 0 /\ ts[i].head = 1 /\ Len(cim) > total(0)
            THEN write_track(ts[i], fill_side(ts[i], cim, total(0)))
            ELSE SubSeq(f, ts[i].start, ts[i].end - 1)])

-----------------------------------------------------------------------------
(* bin2imd.py *)

raw_write_track(mode, cyl, head, nsect, code, raw, pos) ==
    <<mode, cyl, head, nsect, code>> \o [i \in 1 .. nsect |-> i]
    \o FlattenSeq([i \in 1 .. nsect |->
          <<1>> \o SubSeq(raw, pos + (i - 1) * Size(code) + 1, pos + i * Size(code))])

\* cyls cylinders from cylinder first on, two sides of nsect sectors of 512.
UniformTracks(mode, first, cyls, nsect, raw, pos) ==
    FlattenSeq([s \in 1 .. 2 * cyls |->
        raw_write_track(mode, first + (s - 1) \div 2, (s - 1) % 2, nsect, 2, raw,
                        pos + (s - 1) * nsect * Size(2))])

convert_rc702_mini(raw) ==
    LET t0 == MiniT0 * (Size(0) + Size(1))
    IN  raw_write_track(2, 0, 0, MiniT0, 0, raw, 0)
        \o raw_write_track(5, 0, 1, MiniT0, 1, raw, MiniT0 * Size(0))
        \o UniformTracks(5, 1, (Len(raw) - t0) \div (2 * MiniSecs * Size(2)),
                         MiniSecs, raw, t0)

convert_rc703_mini(raw) ==
    UniformTracks(5, 0, Len(raw) \div (2 * QdSecs * Size(2)), QdSecs, raw, 0)

convert_rc702_maxi(raw) == UniformTracks(3, 0, MaxiCyls, MaxiSecs, raw, 0)

\* The geometry a raw image is taken to have, and its bytes less a tail of E5.
geometry(raw) ==
    LET remaining == Len(raw) - MiniT0 * (Size(0) + Size(1))
        excess == remaining % (2 * MiniSecs * Size(2))
        qd == 2 * QdSecs * Size(2)
    IN  CASE Len(raw) = MaxiCyls * 2 * MaxiSecs * Size(2) -> <<"maxi", raw>>
          [] (Len(raw) % qd) = 0 /\ Len(raw) >= qd * QdMin
             /\ Len(raw) # MaxiCyls * 2 * MaxiSecs * Size(2) -> <<"qd", raw>>
          [] OTHER ->
             IF remaining > 0
                /\ \A i \in Len(raw) - excess + 1 .. Len(raw) : raw[i] = E5
             THEN <<"mini", SubSeq(raw, 1, Len(raw) - excess)>>
             ELSE <<"unknown", <<>> >>

convert(raw) ==
    LET g == geometry(raw)
    IN  CASE g[1] = "maxi" -> convert_rc702_maxi(g[2])
          [] g[1] = "qd" -> convert_rc703_mini(g[2])
          [] g[1] = "mini" -> convert_rc702_mini(g[2])
          [] OTHER -> <<>>

-----------------------------------------------------------------------------
(* imdinfo.py: kind of disk, cylinders, sides, runs of cylinders of the same *)
(* geometry, and what the first sector says of the system.                  *)

InfoGroups(ts) ==
    LET geo(c) == {<<t.head, t.mode, t.nsect, t.size>> : t \in {u \in Range(ts) : u.cyl = c}}
        cyls == SetToSortSeq({t.cyl : t \in Range(ts)}, <)
        add(g, c) == IF g # <<>> /\ Last(g)[3] = geo(c) /\ c = Last(g)[2] + 1
                     THEN Front(g) \o << <<Last(g)[1], c, geo(c)>> >>
                     ELSE Append(g, <<c, c, geo(c)>>)
    IN  FoldLeft(add, <<>>, cyls)

InfoSystem(t0_raw) ==
    IF Len(t0_raw) < 2 THEN "none"
    ELSE IF Range(SubSeq(t0_raw, 1, RecLen)) = {E5} THEN "data only"
    ELSE CASE t0_raw[1] + 256 * t0_raw[2] = 640 -> "56K"
           [] t0_raw[1] + 256 * t0_raw[2] = 896 -> "58K"
           [] OTHER -> "other"

imdinfo(ts) ==
    LET zero == SelectSeq(ts, LAMBDA t : t.cyl = 0)
        bytes(t) == LET s == Sorted(t.sectors)
                    IN  FlattenSeq([k \in 1 .. t.nsect |-> s[k][2]])
    IN  [cyls |-> Max({t.cyl : t \in Range(ts)}) + 1,
         sides |-> Max({t.head : t \in Range(ts)}) + 1,
         groups |-> InfoGroups(ts),
         system |-> InfoSystem(FlattenSeq([i \in 1 .. Len(zero) |-> bytes(zero[i])]))]

-----------------------------------------------------------------------------
(* The checkers. *)

\* verify_skew.py: from sector 1 on in steps of skew, past those taken.
skew_table(spt, skew) ==
    LET free(cur, taken) ==
            LET after(k) == ((cur - 1 + k) % spt) + 1
            IN  after(CHOOSE k \in 0 .. spt - 1 : /\ after(k) \notin taken
                                                 /\ \A j \in 0 .. k - 1 : after(j) \in taken)
        place(t, n) ==
            Append(t, free(IF t = <<>> THEN 1 ELSE ((Last(t) - 1 + skew) % spt) + 1, Range(t)))
    IN  FoldLeft(place, <<>>, [n \in 1 .. spt |-> n])

\* verify_skew.py's main: the tables written by hand are the computed ones.
verify_skew == \A spt \in DOMAIN XLT : XLT[spt] = skew_table(spt, Skew[spt])
ASSUME SkewTablesMatch == verify_skew

\* parse_imd of verify_checksums.py: places and data of all sectors.
checksum_parse_imd(ts) ==
    FlattenSeq([i \in 1 .. Len(ts) |->
        [k \in 1 .. ts[i].nsect |->
            << <<ts[i].cyl, ts[i].head_byte % 2, ts[i].sectors[k][1]>>, ts[i].sectors[k][2]>>]])

\* The sectors it finds, as a function like disk: of two with the same place the
\* first counts.
find_sector(all) ==
    LET firstAt(key) == CHOOSE i \in DOMAIN all :
                           all[i][1] = key /\ \A j \in 1 .. i - 1 : all[j][1] # key
    IN  [key \in {s[1] : s \in Range(all)} |-> all[firstAt(key)][2]]

\* The records from to to-1 of a cylinder, 2^shift records to a sector, by
\* the table xlate and per sectors on a side: their sum and how many are
\* missing.
compute_track_cksum(sectors, trk, from, to, shift, per, xlate) ==
    LET host(r) == r \div 2^shift
        key(r) == IF host(r) < per THEN <<trk, 0, xlate[host(r) + 1]>>
                  ELSE <<trk, 1, xlate[host(r) - per + 1]>>
        rec(r) == Slice(sectors[key(r)], (r % 2^shift) * RecLen + 1, ((r % 2^shift) + 1) * RecLen)
        found == {r \in from .. to - 1 : key(r) \in DOMAIN sectors}
    IN  <<MapThenSumSet(LAMBDA r : SumOf(rec(r)), found) % 65536, to - from - Cardinality(found)>>

\* The sums of all cylinders, the first side by side, and the errors.
compute_checksums(sectors) ==
    LET identity == [i \in 1 .. CkT0 |-> i]
        max_cyl == Max({k[1] : k \in DOMAIN sectors})
        parts == <<compute_track_cksum(sectors, 0, 0, CkT0, 0, CkT0, identity),
                   compute_track_cksum(sectors, 0, 2 * CkT0, 4 * CkT0, 1, CkT0, identity)>>
                 \o [c \in 1 .. max_cyl |->
                       compute_track_cksum(sectors, c, 0, 8 * CkSecs, 2, CkSecs, XLT[CkSecs])]
    IN  <<SumOf([i \in DOMAIN parts |-> parts[i][1]]) % 65536,
          SumOf([i \in DOMAIN parts |-> parts[i][2]])>>

\* Side, sector number and first byte of record r of cylinder 1.
CcpPlace(spt, r) ==
    <<(r \div 4) \div spt, XLT[spt][((r \div 4) % spt) + 1], (r % 4) * RecLen>>

CylinderOne(ts) ==
    SortSeq(SelectSeq(ts, LAMBDA t : t.cyl = 1), LAMBDA a, b : a.head < b.head)

\* CCP and BDOS as the sides t1 of cylinder 1 hold them; <<>> for the errors that
\* end it.
extract_ccp_bdos(t1) ==
    LET spt == t1[1].nsect
        sector(p) == LET s == t1[p[1] + 1].sectors
                     IN  s[Max({i \in DOMAIN s : s[i][1] = p[2]})][2]
        there(p) == p[1] < Len(t1) /\ \E s \in Range(t1[p[1] + 1].sectors) : s[1] = p[2]
    IN  IF t1 = <<>> THEN <<>>
        ELSE IF spt \notin DOMAIN XLT \/ t1[1].size # Size(2) THEN <<>>
        ELSE IF \E r \in 0 .. CcpRecords - 1 : ~there(CcpPlace(spt, r)) THEN <<>>
        ELSE FlattenSeq([n \in 1 .. CcpRecords |->
                LET p == CcpPlace(spt, n - 1)
                IN  SubSeq(sector(p), p[3] + 1, p[3] + RecLen)])

-----------------------------------------------------------------------------
(* The tools run one after the other on one file. *)

NoReport == [tool |-> "none"]

ImdIdle == file = <<>> /\ disk = <<>> /\ broken = FALSE /\ report = NoReport

ImdInit ==
    \E image \in Images :
        /\ file = FlattenSeq([i \in 1 .. Len(image) |-> ImageDiskTrack(image[i])])
        /\ disk = DisketteOf(image)
        /\ broken = FALSE
        /\ report = NoReport

\* A tool that reads the file; from a broken one it takes nonsense, or stops.
Reads(result) ==
    /\ file # <<>>
    /\ IF broken THEN report' = [tool |-> "nonsense"] ELSE report' = result
    /\ UNCHANGED <<file, disk, broken>>

\* extract_track0 of imd2raw.py on the file.
Imd2Raw == Reads([tool |-> "imd2raw", bytes |-> extract_track0(parse_imd(file))])

Imdinfo == Reads([tool |-> "imdinfo", info |-> imdinfo(Tracks(file, "imdinfo"))])

\* Behind a sector of a type above 4, which it takes to have no bytes, it is out of
\* step with the file.
OutOfStep == \E t \in Range(parse_imd(file)) : ~(t.types \subseteq 0 .. 4)

VerifyChecksums ==
    Reads(IF OutOfStep THEN [tool |-> "nonsense"]
          ELSE [tool |-> "checksums", sums |-> compute_checksums(
                    find_sector(checksum_parse_imd(Tracks(file, "checksums"))))])

\* main of verify_against_imd.py: a build that is too short, or an image without the
\* system (ref is empty), ends it with status 1; so do more differences than a serial
\* number makes.
Accepts(built, ref) ==
    /\ ref # <<>> /\ Len(built) >= Len(ref)
    /\ Cardinality({i \in DOMAIN ref : built[i] # ref[i]}) <= MaxDiffs

VerifyAgainstImd(built) ==
    \E ref \in {IF broken \/ Len(built) < CcpRecords * RecLen THEN <<>>
                ELSE extract_ccp_bdos(CylinderOne(reference_parse_imd(file)))} :
        Reads([tool |-> "ccpbdos", built |-> built, bytes |-> ref,
               status |-> IF Accepts(built, ref) THEN 0 ELSE 1])

\* imd_rebase_sectors.py in place: every sector is found under its new number.  What it
\* makes of a broken file, as patch_bios.py does, is not followed.
Rebase(delta) ==
    LET new == rebase(file, delta, NumberMaps(Tracks(file, "rebase")))
        move(k) == <<k[1], k[2], k[3] - delta>>
    IN  /\ file # <<>>
        /\ \A k \in DOMAIN disk : k[3] + delta <= MaxId
        /\ IF broken \/ new = <<>> THEN UNCHANGED <<file, disk>>
           ELSE /\ file' = new
                /\ disk' = [k \in {<<d[1], d[2], d[3] + delta>> : d \in DOMAIN disk} |->
                               disk[move(k)]]
        /\ report' = NoReport
        /\ UNCHANGED broken

\* The bytes before a sector of cylinder 0 when its sides are read one after
\* the other in the order of the sector numbers, as the PROM does.
Before(k) ==
    LET earlier == {d \in DOMAIN disk : d[1] = 0 /\ (d[2] < k[2] \/ (d[2] = k[2] /\ d[3] < k[3]))}
    IN  MapThenSumSet(LAMBDA d : Len(disk[d]), earlier)

\* patch_bios.py in place.  A track of cylinder 0 that has a map (head_byte of 64 or
\* more) and is written anew leaves a file that can no longer be read.
PatchBios(cim) ==
    LET ts == patch_parse_imd(file)
        new == patch(file, cim, ts)
        side0 == MapThenSumSet(LAMBDA k : Len(disk[k]), {k \in DOMAIN disk : k[1] = 0 /\ k[2] = 0})
        anew == {t \in Range(ts) : t.cyl = 0 /\ (t.head = 0 \/ Len(cim) > side0)}
        laid(k) == [i \in 1 .. Len(disk[k]) |->
                      IF Before(k) + i <= Len(cim) THEN cim[Before(k) + i] ELSE disk[k][i]]
    IN  /\ file # <<>>
        /\ IF broken \/ new = <<>> THEN UNCHANGED <<file, disk, broken>>
           ELSE /\ file' = new
                /\ broken' = \E t \in anew : t.head_byte >= 64
                /\ disk' = [k \in DOMAIN disk |-> IF k[1] = 0 THEN laid(k) ELSE disk[k]]
        /\ report' = NoReport

\* bin2imd.py over the file: sector k of the new diskette is where a disk of
\* that geometry has it.
Bin2Imd(raw) ==
    LET g == geometry(raw)
        t0 == MiniT0 * (Size(0) + Size(1))
        uniform(first, n, skip) ==
            [k \in (first .. first + (Len(g[2]) - skip) \div (2 * n * Size(2)) - 1)
                    \X {0, 1} \X (1 .. n) |->
                LET at == skip + (((k[1] - first) * 2 + k[2]) * n + k[3] - 1) * Size(2)
                IN  SubSeq(g[2], at + 1, at + Size(2))]
        zero == [k \in {0} \X {0, 1} \X (1 .. MiniT0) |->
                   LET at == IF k[2] = 0 THEN (k[3] - 1) * Size(0)
                             ELSE MiniT0 * Size(0) + (k[3] - 1) * Size(1)
                   IN  SubSeq(g[2], at + 1, at + Size(k[2]))]
    IN  /\ file # <<>>
        /\ report' = NoReport
        /\ IF g[1] = "unknown" THEN UNCHANGED <<file, disk, broken>>
           ELSE /\ file' = convert(raw)
                /\ broken' = FALSE
                /\ disk' = CASE g[1] = "maxi" -> uniform(0, MaxiSecs, 0)
                             [] g[1] = "qd" -> uniform(0, QdSecs, 0)
                             [] g[1] = "mini" -> zero @@ uniform(1, MiniSecs, t0)

ImdNext ==
    \/ Imd2Raw
    \/ Imdinfo
    \/ VerifyChecksums
    \/ \E built \in Builts : VerifyAgainstImd(built)
    \/ \E delta \in Delta : Rebase(delta)
    \/ \E cim \in Cims : PatchBios(cim)
    \/ \E raw \in RawImages : Bin2Imd(raw)

-----------------------------------------------------------------------------
(* Properties. *)

\* The file is a sequence of bytes and the diskette has whole sectors.
ImdTypeOK ==
    /\ \A i \in DOMAIN file : file[i] \in 0 .. 255
    /\ \A k \in DOMAIN disk : \E code \in 0 .. 2 : Len(disk[k]) = Size(code)
    /\ report.tool \in {"none", "imd2raw", "imdinfo", "checksums", "ccpbdos", "nonsense"}
    /\ broken \in BOOLEAN

\* However often the image has been renumbered, patched and made anew, whatever
\* types of sector records and number maps it has, reading it gives every sector of
\* the diskette and no other: what rebase() and patch() write is in step with what
\* parse_imd() reads, byte for byte.  Optional maps do no harm on the tracks that
\* patch() copies; a track with one that write_track writes anew breaks the file, and
\* nothing is said of it until bin2imd.py makes it again.
FileHoldsDisk ==
    ~broken =>
        LET ts == parse_imd(file)
            place(t, s) == <<t.cyl, t.head, s[1]>>
        IN  /\ UNION {{place(t, s) : s \in Range(t.sectors)} : t \in Range(ts)} = DOMAIN disk
            /\ \A t \in Range(ts) : \A s \in Range(t.sectors) : disk[place(t, s)] = s[2]

\* What imd2raw.py extracts is cylinder 0 as the PROM loads it, side by side
\* and sector by sector: a BIOS patched in comes out again.
TrackZeroExtracted ==
    report.tool = "imd2raw" =>
        /\ Len(report.bytes) = MapThenSumSet(LAMBDA k : Len(disk[k]), {k \in DOMAIN disk : k[1] = 0})
        /\ \A k \in DOMAIN disk : k[1] = 0 =>
              SubSeq(report.bytes, Before(k) + 1, Before(k) + Len(disk[k])) = disk[k]

\* imdinfo.py's runs of cylinders are the diskette: every cylinder is in one
\* run only, with its own sides, numbers and sizes of sectors, and none that
\* is not on the diskette is in a run.
InfoIsTheDisk ==
    report.tool = "imdinfo" =>
        LET shown(c) == {i \in DOMAIN report.info.groups :
                            c \in report.info.groups[i][1] .. report.info.groups[i][2]}
            geo(c) == {<<h, Cardinality({k \in DOMAIN disk : k[1] = c /\ k[2] = h}),
                         Len(disk[CHOOSE k \in DOMAIN disk : k[1] = c /\ k[2] = h])>> :
                         h \in {k[2] : k \in {d \in DOMAIN disk : d[1] = c}}}
        IN  \A c \in 0 .. report.info.cyls :
                IF \E k \in DOMAIN disk : k[1] = c
                THEN \E i \in DOMAIN report.info.groups :
                        /\ shown(c) = {i}
                        /\ {<<g[1], g[3], g[4]>> : g \in report.info.groups[i][3]} = geo(c)
                ELSE shown(c) = {}

\* On a disk with the sides and sectors verify_checksums.py expects, the sum
\* it prints takes in every byte of the diskette once; on any other that
\* lacks one of its sectors it counts an error.  (Only where no sector was read with
\* an error: its parse_imd loses its place behind a type above 4.)
ChecksumTakesAll ==
    report.tool = "checksums" =>
        LET last == Max({k[1] : k \in DOMAIN disk})
            wanted == ({0} \X {0, 1} \X (1 .. CkT0)) \cup ((1 .. last) \X {0, 1} \X (1 .. CkSecs))
            all == MapThenSumSet(LAMBDA k : SumOf(disk[k]), DOMAIN disk)
        IN  /\ report.sums[2] = 0 <=> wanted \subseteq DOMAIN disk
            /\ DOMAIN disk = wanted => report.sums[1] = all % 65536

\* verify_against_imd.py reads the system as the BIOS does: record after
\* record along the skewed sectors of side 0 and then of side 1, each once.  It
\* accepts a build just when the system on the diskette differs from it in no more
\* bytes than a serial number has.
SystemInOrder ==
    report.tool = "ccpbdos" =>
        LET n == Cardinality({k \in DOMAIN disk : k[1] = 1 /\ k[2] = 0})
            order == skew_table(n, Skew[n])
            bios(b) == disk[<<1, ((b - 1) \div Size(2)) \div n,
                              order[(((b - 1) \div Size(2)) % n) + 1]>>][((b - 1) % Size(2)) + 1]
        IN  IF report.bytes = <<>> THEN report.status = 1
            ELSE /\ \A b \in DOMAIN report.bytes : report.bytes[b] = bios(b)
                 /\ report.status = 0 <=>
                      Cardinality({b \in DOMAIN report.bytes : report.built[b] # bios(b)}) <= MaxDiffs

\* The seven tools agree on what a file holds: what one of them wrote the others read,
\* sector for sector, but for the two cases named above (a map on a rewritten track,
\* verify_checksums.py on sectors with a data error).
DiskKept ==
    /\ ImdTypeOK /\ FileHoldsDisk /\ TrackZeroExtracted
    /\ InfoIsTheDisk /\ ChecksumTakesAll /\ SystemInOrder
=============================================================================
