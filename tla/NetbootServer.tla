---------------------------- MODULE NetbootServer ----------------------------
(***************************************************************************)
(* cpnos-rom/netboot_server.py and the station that boots from it.         *)
(*                                                                         *)
(* The station runs netboot_mpm (cpnos-rom/netboot_mpm.c): log in, open    *)
(* CPNOS.IMG, read it record by record into memory, close, start it.  Then *)
(* programs call BDOS functions on the server's files through NDOS.        *)
(*                                                                         *)
(* The server keeps its state over sessions: the host's files, the files   *)
(* written in memory, the contents cached at open, the pending matches of  *)
(* a search.  The host's files may be built anew while it runs.            *)
(*                                                                         *)
(* An FCB names a file by its key and an attribute: TRUE stands for bits 7 *)
(* that are set or letters in lower case, which _fcb_key removes.          *)
(***************************************************************************)
EXTENDS CpmRecords, SequencesExt, Functions, TLC

CONSTANTS
    IMG,            \* the key of CPNOS.IMG
    Keys,           \* the keys programs use
    Builds,         \* the contents the host gives CPNOS.IMG, one after the other
    HostFiles,      \* the other files of the host: keys to contents
    RecPerExt,
    Limit,          \* records that fit below the resident BIOS (0xEE00)
    Sectors,        \* the records programs write
    MaxRec          \* bound: programs write records 0 .. MaxRec - 1

ASSUME NetbootAssumption ==
    /\ Builds \in Seq(Seq(Nat)) /\ Builds # <<>>
    /\ IMG \notin DOMAIN HostFiles /\ \A k \in DOMAIN HostFiles : HostFiles[k] \in Seq(Nat)
    /\ {RecPerExt, Limit} \subseteq Nat \ {0} /\ MaxRec \in Nat
    /\ \A s \in Sectors : s \in Seq(Nat) /\ Len(s) = RecSize

VARIABLES
    disk,           \* _FILE_MAP with the contents of the files it names
    writes,         \* _WRITES
    cache,          \* _OPEN_FILES
    pending,        \* _SEARCH_STATE
    build,          \* how many builds of CPNOS.IMG the host has made
    stage,          \* the station: what netboot_mpm does next
    fcb,
    image,          \* the records loaded
    rc,             \* the return code of the last answer
    opened,         \* history: the contents of CPNOS.IMG when it was opened
    stale           \* history: keys changed behind the cache

netbootVars == <<disk, writes, cache, pending, build, stage, fcb, image, rc, opened, stale>>
files == <<disk, writes, build>>
boot == <<stage, image, opened>>
-------------------------------------------------------------------------------
(* The server's files *)

Key(n) == n[1]

Has(f, k) == k \in DOMAIN f
Put(f, k, c) == [j \in DOMAIN f \cup {k} |-> IF j = k THEN c ELSE f[j]]
Drop(f, k) == Restrict(f, DOMAIN f \ {k})
Move(f, k, j) == IF Has(f, k) THEN Put(Drop(f, k), j, f[k]) ELSE f

Known(k) == Has(writes, k) \/ Has(disk, k)
FileContent(k) == IF Has(writes, k) THEN writes[k] ELSE disk[k]

Position == fcb.ex * RecPerExt + fcb.cr
Advance == fcb' = IF fcb.cr + 1 < RecPerExt THEN [fcb EXCEPT !.cr = @ + 1]
                  ELSE [fcb EXCEPT !.cr = 0, !.ex = @ + 1]
\* The FCB of the answers to open and make: without attributes, at record 0.
Opened(n) == fcb' = [name |-> <<Key(n), FALSE>>, ex |-> 0, cr |-> 0]

OpenOk(n) ==
    /\ Known(Key(n))
    /\ cache' = Put(cache, Key(n), FileContent(Key(n)))
    /\ stale' = stale \ {Key(n)}
    /\ Opened(n) /\ rc' = 0

\* The record a sequential read returns: from the contents cached at open.
Sector == ReadAt(cache[Key(fcb.name)], Position)

CloseFile == cache' = Drop(cache, Key(fcb.name)) /\ stale' = stale \ {Key(fcb.name)}
-------------------------------------------------------------------------------
(* The station's boot: netboot_mpm *)

\* The FCB in the boot's message buffer.
BootName == <<IMG, FALSE>>

PowerOn ==
    /\ stage \in {"off", "halted", "running"}
    /\ stage' = "login" /\ image' = <<>> /\ opened' = <<>>
    /\ fcb' = [name |-> BootName, ex |-> 0, cr |-> 0]
    /\ UNCHANGED <<files, cache, pending, rc, stale>>

Login ==
    /\ stage = "login"
    /\ rc' = 0 /\ stage' = "open"
    /\ UNCHANGED <<files, cache, pending, fcb, image, opened, stale>>

BootOpen ==
    /\ stage = "open"
    /\ IF Known(IMG)
       THEN OpenOk(BootName) /\ stage' = "read" /\ opened' = FileContent(IMG)
       ELSE rc' = 255 /\ stage' = "halted" /\ UNCHANGED <<cache, fcb, opened, stale>>
    /\ UNCHANGED <<files, pending, image>>

\* Bug: the image is started although it ran into the resident BIOS.
BootReadNoLimit ==
    /\ stage = "read"
    /\ IF Sector = <<>> THEN rc' = 1 /\ stage' = "close" /\ UNCHANGED <<image, fcb>>
       ELSE rc' = 0 /\ Advance /\ image' = Append(image, Sector) /\ UNCHANGED stage
    /\ UNCHANGED <<files, cache, pending, opened, stale>>
\* One turn of the read loop: the end of the file, or a record and the check that
\* the image still fits.
BootRead ==
    /\ stage = "read"
    /\ IF Sector = <<>> THEN rc' = 1 /\ stage' = "close" /\ UNCHANGED <<image, fcb>>
       ELSE /\ rc' = 0 /\ Advance
            /\ image' = Append(image, Sector)
            /\ stage' = IF Len(image') > Limit THEN "halted" ELSE "read"
    /\ UNCHANGED <<files, cache, pending, opened, stale>>

BootClose ==
    /\ stage = "close"
    /\ CloseFile /\ rc' = 0 /\ stage' = "running"
    /\ image' = <<>> /\ opened' = <<>>          \* history no longer needed
    /\ UNCHANGED <<files, pending, fcb>>

\* A byte out of place, a timeout or a lost connection ends the session (handle):
\* the transaction fails, and netboot_mpm gives up.
SessionEnds ==
    /\ stage \in {"login", "open", "read"}
    /\ stage' = "halted"
    /\ UNCHANGED <<files, cache, pending, fcb, image, rc, opened, stale>>

\* The developer builds CPNOS.IMG again.
Rebuild ==
    /\ build < Len(Builds) /\ Has(disk, IMG)
    /\ build' = build + 1
    /\ disk' = Put(disk, IMG, Builds[build + 1])
    /\ stale' = IF Has(cache, IMG) THEN stale \cup {IMG} ELSE stale
    /\ UNCHANGED <<writes, cache, pending, boot, fcb, rc>>
-------------------------------------------------------------------------------
(* Programs *)

Program == stage = "running" /\ UNCHANGED <<boot, build>>
Refused == rc' = 255 /\ UNCHANGED <<disk, writes, cache, fcb, stale>>

Open(n) ==
    /\ Program /\ UNCHANGED pending
    /\ IF Known(Key(n)) THEN OpenOk(n) /\ UNCHANGED <<disk, writes>> ELSE Refused

MakeFile(n) ==
    /\ Program /\ UNCHANGED pending
    /\ IF Has(disk, Key(n)) THEN Refused
       ELSE /\ writes' = Put(writes, Key(n), <<>>)
            /\ cache' = Put(cache, Key(n), <<>>)
            /\ stale' = stale \ {Key(n)}
            /\ Opened(n) /\ rc' = 0 /\ UNCHANGED disk

\* _OPEN_FILES after a sequential write.
RefreshCache(k) == cache' = Put(cache, k, writes'[k]) /\ stale' = stale \ {k}

WriteSeq(data) ==
    LET k == Key(fcb.name) IN
    /\ Program /\ UNCHANGED pending /\ Position < MaxRec
    /\ IF ~Has(writes, k) THEN Refused
       ELSE /\ writes' = Put(writes, k, WriteAt(writes[k], Position, data))
            /\ RefreshCache(k)
            /\ Advance /\ rc' = 0 /\ UNCHANGED disk

ReadSeq ==
    /\ Program /\ UNCHANGED <<disk, writes, cache, pending, stale>>
    /\ IF ~Has(cache, Key(fcb.name)) THEN rc' = 255 /\ UNCHANGED fcb
       ELSE IF Sector = <<>> THEN rc' = 1 /\ UNCHANGED fcb
       ELSE rc' = 0 /\ Advance

Close ==
    /\ Program /\ UNCHANGED <<disk, writes, pending, fcb>>
    /\ CloseFile /\ rc' = 0

ReadRand(rec) ==
    /\ Program /\ UNCHANGED <<disk, writes, cache, pending, fcb, stale>>
    /\ rc' = IF ~Known(Key(fcb.name)) THEN 255
             ELSE IF ReadAt(FileContent(Key(fcb.name)), rec) = <<>> THEN 1 ELSE 0

\* The first random write to a file of the host makes a copy of it in memory.  The
\* cache is left as it is.
WriteRand(rec, data) ==
    LET k == Key(fcb.name) IN
    /\ Program /\ UNCHANGED pending
    /\ IF ~Known(k) THEN Refused
       ELSE /\ writes' = Put(writes, k, WriteAt(FileContent(k), rec, data))
            /\ stale' = IF Has(cache, k) THEN stale \cup {k} ELSE stale
            /\ rc' = 0 /\ UNCHANGED <<disk, cache, fcb>>

Uncache(k) == cache' = Drop(cache, k) /\ stale' = stale \ {k}

\* A copy of a host file is dropped and the host's file is there again; a host file
\* itself is not deleted.
Delete(n) ==
    /\ Program /\ UNCHANGED pending
    /\ IF ~Has(writes, Key(n)) THEN Refused
       ELSE /\ writes' = Drop(writes, Key(n))
            /\ Uncache(Key(n))
            /\ rc' = 0 /\ UNCHANGED <<disk, fcb>>

\* Bug: the new name is only looked up among the written files.
TakenInMemory(k) == Has(writes, k)
Taken(k) == Known(k)

Rename(n, m) ==
    LET k == Key(n) j == Key(m) IN
    /\ Program /\ UNCHANGED pending
    /\ IF ~Known(k) \/ Taken(j) THEN Refused
       ELSE /\ writes' = Move(writes, k, j)
            /\ cache' = Move(cache, k, j)
            /\ disk' = Move(disk, k, j)
            /\ stale' = IF k \in stale THEN (stale \ {k}) \cup {j} ELSE stale
            /\ rc' = 0 /\ UNCHANGED fcb

\* _search_reply: the next pending key, whether its file is still there or not.
SearchReply(p) ==
    /\ rc' = IF p = <<>> THEN 255 ELSE 0
    /\ pending' = IF p = <<>> THEN p ELSE Tail(p)
    /\ UNCHANGED <<disk, writes, cache, fcb, stale>>

\* The keys that match, in order; a pattern is the set of keys it matches.
SearchFirst(pat) ==
    /\ Program
    /\ SearchReply(SetToSortSeq({k \in pat : Known(k)}, <))
SearchNext == Program /\ SearchReply(pending)

\* Version, file size, select, reset, DMA, user, free drive and unknown functions.
OnlyAnswers ==
    /\ Program /\ rc' = 0
    /\ UNCHANGED <<disk, writes, cache, pending, fcb, stale>>

NetbootStart(at) ==
    /\ disk = Put(HostFiles, IMG, Builds[1]) /\ build = 1
    /\ writes = <<>> /\ cache = <<>> /\ pending = <<>>
    /\ stage = at /\ image = <<>> /\ rc = 0
    /\ fcb = [name |-> BootName, ex |-> 0, cr |-> 0]
    /\ opened = <<>> /\ stale = {}

NetbootInit == NetbootStart("off")
NetbootIdle == NetbootStart("unused")

Names == Keys \X BOOLEAN

Boot == PowerOn \/ Login \/ BootOpen \/ BootRead \/ BootClose
Call ==
    \/ \E n \in Names : Open(n) \/ MakeFile(n) \/ Delete(n)
    \/ \E k, j \in Keys : Rename(<<k, FALSE>>, <<j, FALSE>>)
    \/ ReadSeq \/ Close \/ SearchNext \/ OnlyAnswers \/ SearchFirst(Keys)
    \/ \E data \in Sectors : WriteSeq(data)
    \/ \E rec \in 0 .. MaxRec - 1 : ReadRand(rec) \/ \E data \in Sectors : WriteRand(rec, data)

NetbootNext == stage # "unused" /\ (Boot \/ SessionEnds \/ Rebuild \/ Call)

NetbootSpec == NetbootInit /\ [][NetbootNext]_netbootVars

\* netboot_mpm is a straight loop: it goes on with its next transaction.
NetbootFairness == WF_netbootVars(Login \/ BootOpen \/ BootRead \/ BootClose)
-------------------------------------------------------------------------------
(* Properties *)

\* Type correctness of the server's tables and the station.
NetbootTypeOK ==
    /\ \A f \in {disk, writes, cache} : \A k \in DOMAIN f : f[k] \in Seq(Nat)
    /\ stage \in {"unused", "off", "login", "open", "read", "close", "running", "halted"}
    /\ fcb.cr \in 0 .. RecPerExt - 1
    /\ rc \in {0, 1, 255} /\ build \in 1 .. Len(Builds)

\* The image the station is about to start is one whole version of CPNOS.IMG, the one
\* that was there when it was opened, and it fits below the resident BIOS: a rebuild in the
\* middle of the read loop (netboot_mpm.c) never gives a mixture.
WholeImage ==
    stage = "close" =>
        /\ image = [r \in 1 .. Records(opened) |-> ReadAt(opened, r - 1)]
        /\ Len(image) <= Limit

\* Sequential reads, which come from _OPEN_FILES, return what _file_content returns,
\* except for a file written at random or built anew since it was opened: the
\* only operations of dispatch_sndmsg that pass the cache by.
CacheCoherent ==
    \A k \in DOMAIN cache : k \in stale \/ (Known(k) /\ cache[k] = FileContent(k))

\* A rename (fn 23) loses nothing: every other file reads as before, and the renamed
\* one is found under its new name.
RenameKeepsFiles ==
    [][files' # files /\ rc' = 0 =>
          \A k, j \in Keys : Rename(<<k, FALSE>>, <<j, FALSE>>) =>
             \A i \in {i \in Keys \cup {IMG} : Known(i)} :
                LET i2 == IF i = k THEN j ELSE i
                IN  Known(i2)' /\ FileContent(i2)' = FileContent(i)]_netbootVars

\* A station that has begun to boot starts its image or gives up.
BootEnds == stage = "login" ~> stage \in {"running", "halted"}

\* The server's three places for files, _FILE_MAP, _WRITES and _OPEN_FILES, stay in step
\* whatever is opened, written, deleted or renamed.
FilesKept == [](NetbootTypeOK /\ CacheCoherent) /\ RenameKeepsFiles
===============================================================================
