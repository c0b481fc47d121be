----------------------------- MODULE CpnetServer -----------------------------
(***************************************************************************)
(* The BDOS functions that cpnet/server.py performs for the RC702 (class   *)
(* CPNetServer): one action per handler, on host directories that hold     *)
(* files of cells (bytes).  Requests come from one CP/M program through    *)
(* NDOS, which keeps the FCB and copies the FCB of an answer back into it. *)
(* How a request and its answer cross the line is the module DriLink.      *)
(*                                                                         *)
(* A file name on the host is a pair of sequences of characters, the part  *)
(* before the last dot and the part after it.  An FCB holds NameLen +      *)
(* ExtLen characters padded with blanks; a character with a quote has its  *)
(* attribute bit (bit 7) set.                                              *)
(***************************************************************************)
EXTENDS CpmRecords, SequencesExt, Functions

CONSTANTS
    DriveDir,       \* drive_dirs: a function from drive numbers to directories
    FcbDrives,      \* the drive codes programs use (0 is the default drive)
    FcbNames,       \* the names programs use
    Patterns,       \* the FCB names searches use
    HostFiles,      \* what the directories may hold when the server starts
    NameLen, ExtLen,
    RecPerExt,      \* records of an extent (128)
    ExtMod,         \* extents that EX tells apart after a random access (32)
    ByteMax,        \* the largest value of a byte of the FCB (255)
    Sectors,        \* the records programs write
    MaxRec          \* bound: records written and random ones are 0 .. MaxRec - 1

ASSUME ServerAssumption ==
    /\ FcbDrives \subseteq Nat /\ DOMAIN DriveDir \subseteq Nat
    /\ FcbDrives # {} /\ FcbNames # {}
    /\ {NameLen, ExtLen, RecPerExt, ExtMod, ByteMax} \subseteq Nat \ {0}
    /\ ExtMod <= ByteMax + 1
    /\ \A s \in Sectors : s \in Seq(Nat) /\ Len(s) = RecSize
    /\ \A n \in FcbNames \cup Patterns : n \in Seq(STRING) /\ Len(n) = NameLen + ExtLen
    /\ MaxRec \in Nat

\* The directories of the drives exist, and hold files with names.
ASSUME HostAssumption ==
    \A f \in HostFiles :
        /\ \A d \in DOMAIN DriveDir : DriveDir[d] \in DOMAIN f
        /\ \A d \in DOMAIN f :
              /\ IsFiniteSet(DOMAIN f[d])
              /\ \A h \in DOMAIN f[d] : h \in Seq(STRING) \X Seq(STRING) /\ f[d][h] \in Seq(Nat)

VARIABLES
    fs,             \* the host directories: names to contents
    search,         \* search_state, <<>> when there is none
    fcb,            \* the program's FCB
    reply,          \* the return code of the last answer
    serving,
    pos,            \* history: the record the program is at in its file
    scan,           \* history: the search under way, as CP/M defines it
    missed          \* history: what searches that came to their end left out

cpnetVars == <<fs, search, fcb, reply, serving, pos, scan, missed>>
program == <<fcb, pos>>
found == <<search, scan, missed>>
-------------------------------------------------------------------------------
(* Names *)

Blank == " "

\* b & 0x7F
Plain(c) == IF c = "A'" THEN "A" ELSE IF c = "B'" THEN "B" ELSE c
Upper(c) == IF c = "a" THEN "A" ELSE IF c = "b" THEN "B" ELSE c

RStrip(s) == SubSeq(s, 1, Max({0} \cup {i \in DOMAIN s : s[i] # Blank}))
Map(F(_), s) == [i \in DOMAIN s |-> F(s[i])]
Pad(s, n) == [i \in 1 .. n |-> IF i <= Len(s) THEN s[i] ELSE Blank]

\* The two fields of an FCB's name.
Split(n) == LET p == Map(Plain, n) IN
            <<RStrip(SubSeq(p, 1, NameLen)),
              RStrip(SubSeq(p, NameLen + 1, NameLen + ExtLen))>>

FcbDrive(d) == IF d > 0 THEN d - 1 ELSE 0

\* The host's spelling of an FCB's name: as it is, not in upper case.
PathOf(n) == Split(n)

\* A host name as a directory entry shows it.
EntryFields(h) == <<SubSeq(Map(Upper, h[1]), 1, Min({NameLen, Len(h[1])})),
                    SubSeq(Map(Upper, h[2]), 1, Min({ExtLen, Len(h[2])}))>>
EntryName(h) == Pad(EntryFields(h)[1], NameLen) \o Pad(EntryFields(h)[2], ExtLen)

MatchPattern(p, s) ==
    \/ \A i \in DOMAIN p : p[i] = "?"
    \/ LET n == Max({Len(p), Len(s)}) IN
       \A i \in 1 .. n : Pad(p, n)[i] \in {"?", Pad(s, n)[i]}

\* What a search of CP/M finds: the fields compared character by character.
CpmMatch(pat, h) ==
    \A i \in 1 .. NameLen + ExtLen : Plain(pat[i]) \in {"?", EntryName(h)[i]}
-------------------------------------------------------------------------------
(* Contents *)

ZeroFill(c, rec) ==
    IF rec * RecSize > Len(c) THEN c \o [i \in 1 .. rec * RecSize - Len(c) |-> 0] ELSE c

Dir(d) == DriveDir[FcbDrive(d)]
Mapped(d) == FcbDrive(d) \in DOMAIN DriveDir
Exists(d, n) == Mapped(d) /\ PathOf(n) \in DOMAIN fs[Dir(d)]
Content(d, n) == IF Exists(d, n) THEN fs[Dir(d)][PathOf(n)] ELSE <<>>

Set(d, n, c) == fs' = [fs EXCEPT ![Dir(d)] =
                          [h \in DOMAIN @ \cup {PathOf(n)} |-> IF h = PathOf(n) THEN c ELSE @[h]]]
-------------------------------------------------------------------------------
(* Answers *)

Says(code) == reply' = code

\* While a search is under way: the matching files that have been there all the
\* time, and the ones listed.
NoScan == [stable |-> {}, listed |-> <<>>]
Watch == scan' = [scan EXCEPT !.stable = {h \in @ : h[2] \in DOMAIN fs'[h[1]]}]

CpnetStart(how) ==
    /\ fs \in HostFiles
    /\ search = <<>>
    /\ fcb = [dr |-> CHOOSE d \in FcbDrives : TRUE, name |-> CHOOSE n \in FcbNames : TRUE,
              ex |-> 0, cr |-> 0]
    /\ reply = 0 /\ serving = how
    /\ pos = 0
    /\ scan = NoScan /\ missed = {}

CpnetInit == CpnetStart("up")

\* The server's functions are not part of the behaviour.
CpnetIdle == CpnetStart("off")

\* The FCB of the answers to open and make: extent and record 0.
NewFcb(d, n) == fcb' = [dr |-> d, name |-> n, ex |-> 0, cr |-> 0]

Open(d, n) ==
    /\ IF Exists(d, n) THEN NewFcb(d, n) /\ pos' = 0 /\ Says(0)
                       ELSE UNCHANGED program /\ Says(255)
    /\ UNCHANGED <<fs, serving, found>>

\* open(path, 'ab'): a file that exists keeps its contents.
MakeFile(d, n) ==
    /\ IF Mapped(d) THEN /\ Set(d, n, Content(d, n))
                         /\ NewFcb(d, n) /\ pos' = 0 /\ Says(0)
                    ELSE UNCHANGED <<fs, program>> /\ Says(255)
    /\ UNCHANGED <<serving, found>>

Delete(d, n) ==
    /\ IF Exists(d, n)
       THEN /\ fs' = [fs EXCEPT ![Dir(d)] = Restrict(@, DOMAIN @ \ {PathOf(n)})]
            /\ Says(0)
       ELSE UNCHANGED fs /\ Says(255)
    /\ Watch
    /\ UNCHANGED <<search, missed, program, serving>>

\* os.rename: a file that has the new name already is replaced.
Rename(d, n, m) ==
    /\ IF Exists(d, n)
       THEN /\ fs' = [fs EXCEPT ![Dir(d)] =
                         [h \in (DOMAIN @ \ {PathOf(n)}) \cup {PathOf(m)} |->
                             IF h = PathOf(m) THEN @[PathOf(n)] ELSE @[h]]]
            /\ Says(0)
       ELSE UNCHANGED fs /\ Says(255)
    /\ Watch
    /\ UNCHANGED <<search, missed, program, serving>>
-------------------------------------------------------------------------------
(* Reading and writing *)

Position == fcb.ex * RecPerExt + fcb.cr

\* CR and EX of the answer.  A value over a byte's raises ValueError, which run
\* does not catch: the request has been performed, and the server ends.
Advance ==
    IF fcb.cr + 1 < RecPerExt
    THEN /\ fcb' = [fcb EXCEPT !.cr = @ + 1] /\ pos' = pos + 1 /\ Says(0) /\ UNCHANGED serving
    ELSE IF fcb.ex < ByteMax
    THEN /\ fcb' = [fcb EXCEPT !.ex = @ + 1, !.cr = 0] /\ pos' = pos + 1 /\ Says(0) /\ UNCHANGED serving
    ELSE serving' = "failed" /\ UNCHANGED <<program, reply>>

ReadSeq ==
    /\ IF ~Exists(fcb.dr, fcb.name) THEN Says(255) /\ UNCHANGED <<program, serving>>
       ELSE IF ReadAt(Content(fcb.dr, fcb.name), Position) = <<>>
       THEN Says(1) /\ UNCHANGED <<program, serving>>
       ELSE Advance
    /\ UNCHANGED <<fs, found>>

WriteSeq(data) ==
    /\ Position < MaxRec
    /\ IF Mapped(fcb.dr)
       THEN /\ Set(fcb.dr, fcb.name, WriteAt(Content(fcb.dr, fcb.name), Position, data))
            /\ Advance
       ELSE Says(255) /\ UNCHANGED <<fs, program, serving>>
    /\ UNCHANGED found

\* Bug: CR is kept in the answer to a random access.
PlaceExtentOnly(rec) ==
    fcb' = [fcb EXCEPT !.ex = (rec \div RecPerExt) % ExtMod] /\ pos' = rec
\* EX and CR of the answer to a random access.
Place(rec) ==
    /\ fcb' = [fcb EXCEPT !.ex = (rec \div RecPerExt) % ExtMod, !.cr = rec % RecPerExt]
    /\ pos' = rec

ReadRand(rec) ==
    /\ IF ~Exists(fcb.dr, fcb.name) THEN Says(255) /\ UNCHANGED program
       ELSE IF ReadAt(Content(fcb.dr, fcb.name), rec) = <<>>
       THEN Says(6) /\ UNCHANGED program
       ELSE Says(0) /\ Place(rec)
    /\ UNCHANGED <<fs, serving, found>>

Random(rec, c) ==
    /\ IF Mapped(fcb.dr) THEN Set(fcb.dr, fcb.name, c) /\ Says(0) /\ Place(rec)
                         ELSE Says(255) /\ UNCHANGED <<fs, program>>
    /\ UNCHANGED <<serving, found>>

WriteRand(rec, data) == Random(rec, WriteAt(Content(fcb.dr, fcb.name), rec, data))
WriteRandZF(rec, data) ==
    Random(rec, WriteAt(ZeroFill(Content(fcb.dr, fcb.name), rec), rec, data))

\* The answer carries the file's number of records in R0-R2.
FileSize(d, n) ==
    /\ Says(IF Exists(d, n) THEN 0 ELSE 255)
    /\ UNCHANGED <<fs, program, serving, found>>
-------------------------------------------------------------------------------
(* Searching *)

\* Bug: the index counts in the directory as it is now.
EntryNow(s) ==
    LET now == SelectSeq(s.matches, LAMBDA h : h \in DOMAIN fs[s.dir]) IN
    IF s.index > Len(now) THEN <<>> ELSE now[s.index]
\* The entry at the index of the list taken by search first.
Entry(s) == IF s.index > Len(s.matches) THEN <<>> ELSE s.matches[s.index]

\* _search_result, for the search state s; sc is the search as CP/M defines it.
Result(s, sc) ==
    IF Entry(s) = <<>>
    THEN /\ search' = <<>> /\ Says(255)
         /\ missed' = sc.stable \ Range(sc.listed) /\ scan' = NoScan
    ELSE /\ search' = [s EXCEPT !.index = @ + 1]
         /\ Says(0)
         /\ scan' = [sc EXCEPT !.listed = Append(@, <<s.dir, Entry(s)>>)]
         /\ UNCHANGED missed

\* os.listdir gives the names in any order.
Listings(S) == {q \in [1 .. Cardinality(S) -> S] : IsInjective(q)}

Matching(dir, pat) ==
    {h \in DOMAIN fs[dir] : /\ MatchPattern(Split(pat)[1], EntryFields(h)[1])
                            /\ MatchPattern(Split(pat)[2], EntryFields(h)[2])}

SearchFirst(d, pat) ==
    /\ IF Mapped(d)
       THEN \E q \in Listings(Matching(Dir(d), pat)) :
               Result([dir |-> Dir(d), matches |-> q, index |-> 1],
                      [stable |-> {Dir(d)} \X {h \in DOMAIN fs[Dir(d)] : CpmMatch(pat, h)},
                       listed |-> <<>>])
       ELSE Says(255) /\ UNCHANGED found
    /\ UNCHANGED <<fs, program, serving>>

SearchNext ==
    /\ IF search = <<>> THEN Says(255) /\ UNCHANGED found
                        ELSE Result(search, scan)
    /\ UNCHANGED <<fs, program, serving>>
-------------------------------------------------------------------------------
(* Session, devices and the functions that only answer *)

\* User, login vector, list output, log-in and log-off, configuration, drives, DPB,
\* DMA, status, select and reset: answers that change nothing a program can see.
\* What goes to the list device or the console goes to the host.
OnlyAnswers(code) ==
    /\ Says(code)
    /\ UNCHANGED <<fs, program, serving, found>>

Close == OnlyAnswers(0)
SetRecord == OnlyAnswers(0)
Vectors == OnlyAnswers(0)
ConsoleOutput == OnlyAnswers(0)
ConsoleStatus == \E code \in {0, 255} : OnlyAnswers(code)
NetworkInit == OnlyAnswers(0)
Unhandled == OnlyAnswers(255)

\* handle_console_input: Ctrl-] raises KeyboardInterrupt, which ends run.
ConsoleInput(ch) ==
    /\ IF ch = "quit" THEN serving' = "stopped" /\ UNCHANGED reply
                      ELSE Says(0) /\ UNCHANGED serving
    /\ UNCHANGED <<fs, program, found>>

handlers ==
    \/ \E d \in FcbDrives, n \in FcbNames :
          \/ Open(d, n) \/ MakeFile(d, n) \/ Delete(d, n) \/ FileSize(d, n)
          \/ \E m \in FcbNames : Rename(d, n, m)
    \/ ReadSeq \/ \E data \in Sectors : WriteSeq(data)
    \/ \E rec \in 0 .. MaxRec - 1 :
          \/ ReadRand(rec)
          \/ \E data \in Sectors : WriteRand(rec, data) \/ WriteRandZF(rec, data)
    \/ \E d \in FcbDrives, pat \in Patterns : SearchFirst(d, pat)
    \/ SearchNext
    \/ \E ch \in {"y", "quit"} : ConsoleInput(ch)
    \/ OnlyAnswers(0) \/ Close \/ SetRecord \/ Vectors \/ ConsoleOutput \/ ConsoleStatus
    \/ NetworkInit \/ Unhandled

\* run: requests are served one after the other until the server ends.
CpnetNext == serving = "up" /\ handlers

CpnetSpec == CpnetInit /\ [][CpnetNext]_cpnetVars
-------------------------------------------------------------------------------
(* Properties *)

\* Type correctness of the handlers' state.
CpnetTypeOK ==
    /\ \A d \in DOMAIN fs : \A h \in DOMAIN fs[d] : fs[d][h] \in Seq(Nat)
    /\ fcb.ex \in 0 .. ByteMax /\ fcb.cr \in 0 .. RecPerExt - 1
    /\ reply \in {0, 1, 6, 255} /\ serving \in {"up", "failed", "stopped", "off"}
    /\ search # <<>> => search.index \in 1 .. Len(search.matches) + 1

\* The EX and CR that read and write answers put into the FCB (handle_read_seq,
\* handle_write_seq, handle_read_rand, handle_write_rand) always name the record
\* the program is at: the next one after a sequential access, the same one after
\* a random access.
PositionKept == Position = pos

\* A program that searches to the end (handle_search_first, handle_search_next)
\* has been given every file CP/M would match that was there all the time, and no
\* file twice, whatever it made, deleted or renamed in between.
ScanComplete == IsInjective(scan.listed) /\ missed = {}

\* Function 40 leaves the file function 34 leaves: what handle_write_rand_zf fills
\* by hand the host fills for handle_write_rand.
ZeroFillAgrees ==
    \A d \in DOMAIN fs : \A h \in DOMAIN fs[d] : \A r \in 0 .. MaxRec - 1, s \in Sectors :
        WriteAt(ZeroFill(fs[d][h], r), r, s) = WriteAt(fs[d][h], r, s)

KeptBut(rec) ==
    \A d \in DOMAIN fs : \A h \in DOMAIN fs[d] : \A q \in 0 .. Records(fs[d][h]) - 1 :
        \/ ReadAt(fs'[d][h], q) = ReadAt(fs[d][h], q)
        \/ q = Records(fs[d][h]) - 1 /\ Len(fs[d][h]) % RecSize # 0
        \/ d = Dir(fcb.dr) /\ h = PathOf(fcb.name) /\ q = rec

\* A write of one record leaves every other record of every file as a program
\* reads it.  The exception is a last record that the host file holds in part: its
\* ^Z padding turns into zeros when a later record is written.
OtherRecordsKept ==
    [][fs' # fs => \A s \in Sectors :
          /\ WriteSeq(s) => KeptBut(Position)
          /\ \A r \in 0 .. MaxRec - 1 : WriteRand(r, s) \/ WriteRandZF(r, s) => KeptBut(r)]_cpnetVars

\* The three functions that write (handle_write_seq, handle_write_rand,
\* handle_write_rand_zf) change one record only and agree with each other.
WritesConfined == [](CpnetTypeOK /\ ZeroFillAgrees) /\ OtherRecordsKept
===============================================================================
