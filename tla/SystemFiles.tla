----------------------------- MODULE SystemFiles -----------------------------
(***************************************************************************)
(* The tools that finish the system's binaries after the assembler:          *)
(*  - stamp_serial.py, which writes the serial number into CCP and BDOS or  *)
(*    into a HEX overlay, and apply_hex.py, which lays an overlay over the   *)
(*    joined binary;                                                         *)
(*  - build_snios.py, which makes a page relocatable file of SNIOS, and      *)
(*    spr_relocate of netboot_server.py, which relocates one;                *)
(*  - patch_payload_checksum.py and the relocator of the CP/NOS PROMs that   *)
(*    checks what it wrote.                                                  *)
(* Each is a few lines that only work together with another: an offset here *)
(* is an address there.                                                     *)
(***************************************************************************)
EXTENDS IntelHex, TLC

CONSTANTS
    CcpLen,          \* bytes of CCP, where BDOS follows in the joined binary
    CcpStampAt,      \* offset of the stamp in CCP (328H); in BDOS it is 0
    CcpBase,         \* address of CCP (C400H)
    Ccps, Bdoses,    \* binaries as assembled or stamped before
    Serials,         \* --serial: <<"hex", six bytes>> or <<"text", parts between the dashes>>
    Version, DefaultMfg,   \* of CP/M 2.2 (16H); of Regnecentralen (08D5H)
    Programs,        \* relocatable programs: sequences of <<"byte" or "page", value>>
    Pages,           \* pages to load them at
    SecLen,          \* bytes of a sector of the .SPR file (128)
    Payloads,        \* resident payloads of CP/NOS before the checksum
    ChunkA           \* bytes of a payload in PROM0, the rest is in PROM1

VARIABLES
    ccp, bdos, joined, status,     \* the stamped files, the joined binary, exit status
    label,                     \* the serial number printed last, as parts
    source, spr, image,          \* a program, its .SPR file, the relocated program
    payload, proms, boot       \* a patched payload, the PROMs, what the relocator did

fileVars == <<ccp, bdos, joined, status, label, source, spr, image, payload, proms, boot>>

-----------------------------------------------------------------------------
(* Serial numbers. *)

Number(digits) == FoldLeft(LAMBDA n, d : 10 * n + d, 0, digits)
Digits(n) ==
    LET d[k \in Nat] == IF k < 10 THEN <<k>> ELSE Append(d[k \div 10], k % 10)
    IN  d[n]

\* The six bytes of a serial number; <<>> when it is refused.
parse_serial(s) ==
    LET parts == s[2]
        mfg == CASE Len(parts) = 1 -> DefaultMfg
                 [] Len(parts) = 2 -> Number(parts[1])
                 [] Len(parts) = 3 -> Number(parts[1] \o parts[2])
        serial == Number(Last(parts))
    IN  IF s[1] = "hex" THEN s[2]
        ELSE IF Len(parts) > 3 THEN <<>>
        ELSE IF mfg > 65535 \/ serial > 16777215 THEN <<>>
        ELSE <<mfg % 256, Version, mfg \div 256, serial \div 65536, (serial \div 256) % 256, serial % 256>>

\* The printed form: the first digit of the manufacturer apart, the serial
\* number of at least four digits.
format_stamp(stamp) ==
    LET mfg == Digits(256 * stamp[3] + stamp[1])
        n == Digits(65536 * stamp[4] + 256 * stamp[5] + stamp[6])
        serial == [i \in 1 .. 4 - Len(n) |-> 0] \o n
    IN  <<"text", IF Len(mfg) > 1 THEN <<SubSeq(mfg, 1, 1), Tail(mfg), serial>>
                  ELSE <<mfg, serial>> >>

\* stamp_file: the new content, or <<>> when it refuses.
stamp_file(file, offset, stamp) ==
    LET old == SubSeq(file, offset + 1, offset + Len(stamp))
    IN  IF offset + Len(stamp) > Len(file) THEN <<>>
        ELSE IF old # stamp /\ Range(old) # {0} /\ old[2] # Version THEN <<>>
        ELSE [i \in DOMAIN file |->
                IF i - offset \in DOMAIN stamp THEN stamp[i - offset] ELSE file[i]]

\* emit_hex, for either kind of end record.
emit_hex(stamp, intel) ==
    <<ihex_record(0, CcpBase + CcpStampAt, stamp), ihex_record(0, CcpBase + CcpLen, stamp),
      IF intel THEN IntelEof ELSE ihex_record(0, 0, <<>>)>>

\* main of apply_hex.py; <<>> when it refuses.
ApplyHex(bin, recs) ==
    LET parsed == parse_hex(recs)
        applied == apply_records(CcpBase, bin, parsed[2])
    IN  IF parsed[1] /\ applied[1] THEN applied[2] ELSE <<>>

\* main of stamp_serial.py with --ccp and --bdos: CCP is written before BDOS
\* is looked at.
\*
\* Bug: a refusal for BDOS is printed but not returned.
BugStampFiles(serial) ==
    LET stamp == parse_serial(serial)
        c == stamp_file(ccp, CcpStampAt, stamp)
        b == stamp_file(bdos, 0, stamp)
    IN  /\ ccp # <<>>
        /\ IF stamp = <<>> THEN status' = 1 /\ label' = <<>> /\ UNCHANGED <<ccp, bdos>>
           ELSE /\ label' = format_stamp(stamp)
                /\ IF c = <<>> THEN status' = 1 /\ UNCHANGED <<ccp, bdos>>
                   ELSE ccp' = c /\ status' = 0 /\ bdos' = IF b = <<>> THEN bdos ELSE b
        /\ UNCHANGED <<joined, source, spr, image, payload, proms, boot>>

StampFiles(serial) ==
    LET stamp == parse_serial(serial)
        c == stamp_file(ccp, CcpStampAt, stamp)
        b == stamp_file(bdos, 0, stamp)
    IN  /\ ccp # <<>>
        /\ IF stamp = <<>> THEN status' = 1 /\ label' = <<>> /\ UNCHANGED <<ccp, bdos>>
           ELSE /\ label' = format_stamp(stamp)
                /\ IF c = <<>> THEN status' = 1 /\ UNCHANGED <<ccp, bdos>>
                   ELSE /\ ccp' = c
                        /\ IF b = <<>> THEN status' = 1 /\ UNCHANGED bdos
                           ELSE status' = 0 /\ bdos' = b
        /\ UNCHANGED <<joined, source, spr, image, payload, proms, boot>>

\* The Makefile's other way: the overlay of the stamp over CCP and BDOS joined.
StampJoined(serial, intel) ==
    /\ ccp # <<>> /\ parse_serial(serial) # <<>>
    /\ LET stamp == parse_serial(serial)
       IN  joined' = <<stamp, ApplyHex(ccp \o bdos, emit_hex(stamp, intel))>>
    /\ UNCHANGED <<ccp, bdos, status, label, source, spr, image, payload, proms, boot>>

-----------------------------------------------------------------------------
(* Relocation. *)

\* zmac, external: the program at a page.
Assemble(p, page) ==
    [i \in DOMAIN p |-> IF p[i][1] = "page" THEN (p[i][2] + page) % 256 ELSE p[i][2]]

\* The bits of main of build_snios.py: a byte that differs by one between
\* the two assemblies is relocatable, others that differ get a warning only.
Bitmap(low, high) ==
    [b \in 1 .. (Len(low) + 7) \div 8 |->
        MapThenSumSet(LAMBDA j : LET i == (b - 1) * 8 + j + 1
                                 IN  IF i <= Len(low) /\ high[i] - low[i] = 1 THEN 2^(7 - j) ELSE 0,
                      0 .. 7)]

\* Two sectors, of which the first has the lengths, then code and bits padded.
build_spr(code, bits) ==
    LET body == code \o bits
        param == [i \in 1 .. SecLen |-> CASE i = 2 -> Len(code) % 256
                                          [] i = 3 -> Len(code) \div 256
                                          [] OTHER -> 0]
    IN  param \o [i \in 1 .. SecLen |-> 0] \o body
        \o [i \in 1 .. (-Len(body)) % SecLen |-> 0]

\* netboot_server.py; <<>> for an IndexError: the bits of a last part of a
\* byte of the bitmap are not read.
spr_relocate(file, page) ==
    LET code_len == file[2] + 256 * file[3]
        data_len == file[5] + 256 * file[6]
        code == SubSeq(file, 2 * SecLen + 1, 2 * SecLen + code_len)
        at == 2 * SecLen + code_len + data_len
        bit(i) == (file[at + 1 + (i - 1) \div 8] \div 2^(7 - ((i - 1) % 8))) % 2
    IN  IF code_len % 8 # 0 THEN <<>>
        ELSE [i \in 1 .. code_len |-> IF bit(i) = 1 THEN (code[i] + page) % 256 ELSE code[i]]
             \o SubSeq(file, 2 * SecLen + code_len + 1, at)

BuildSpr ==
    /\ source # <<>> /\ spr = <<>>
    /\ spr' = build_spr(Assemble(source, 0), Bitmap(Assemble(source, 0), Assemble(source, 1)))
    /\ UNCHANGED <<ccp, bdos, joined, status, label, source, image, payload, proms, boot>>

Relocate(page) ==
    /\ spr # <<>>
    /\ image' = <<page, spr_relocate(spr, page)>>
    /\ UNCHANGED <<ccp, bdos, joined, status, label, source, spr, payload, proms, boot>>

-----------------------------------------------------------------------------
(* The PROMs of CP/NOS. *)

MAGIC == 51966       \* CAFEH

word_sum(data) ==
    MapThenSumSet(LAMBDA i : data[2 * i - 1] + 256 * data[2 * i], 1 .. Len(data) \div 2) % 65536

\* main of patch_payload_checksum.py; <<>> for a size it refuses.
patch_checksum(data) ==
    LET n == Len(data)
        correction == (MAGIC - word_sum(SubSeq(data, 1, n - 2))) % 65536
    IN  IF n < 4 \/ n % 2 # 0 THEN <<>>
        ELSE [data EXCEPT ![n - 1] = correction % 256, ![n] = correction \div 256]

\* The Makefile's order: the payload is patched, then cut for the two PROMs.
Parts(p) == <<SubSeq(p, 1, ChunkA), SubSeq(p, ChunkA + 1, Len(p))>>

BurnProms ==
    /\ payload # <<>> /\ proms = <<>>
    /\ patch_checksum(payload) # <<>>
    /\ proms' = Parts(patch_checksum(payload))
    /\ UNCHANGED <<ccp, bdos, joined, status, label, source, spr, image, payload, boot>>

\* One PROM is of another build of the same length, or missing and read as FFH.
ExchangeProm(k, other) ==
    /\ proms # <<>> /\ boot = "off"
    /\ proms = Parts(patch_checksum(payload))
    /\ Len(other) = Len(payload)
    /\ \E chunk \in {Parts(patch_checksum(other))[k], [i \in 1 .. Len(proms[k]) |-> 255]} :
          proms' = [proms EXCEPT ![k] = chunk]
    /\ UNCHANGED <<ccp, bdos, joined, status, label, source, spr, image, payload, boot>>

\* relocate() of relocator.c: copy both parts, sum the words, start or stop.
Relocator ==
    /\ proms # <<>> /\ boot = "off"
    /\ boot' = IF word_sum(proms[1] \o proms[2]) = MAGIC THEN "started" ELSE "BAD CHECKSUM"
    /\ UNCHANGED <<ccp, bdos, joined, status, label, source, spr, image, payload, proms>>

-----------------------------------------------------------------------------
FilesIdle ==
    /\ ccp = <<>> /\ bdos = <<>> /\ joined = <<>> /\ status = 0 /\ label = <<>>
    /\ source = <<>> /\ spr = <<>> /\ image = <<>>
    /\ payload = <<>> /\ proms = <<>> /\ boot = "off"

FilesInit ==
    /\ joined = <<>> /\ status = 0 /\ label = <<>> /\ spr = <<>> /\ image = <<>> /\ proms = <<>> /\ boot = "off"
    /\ \/ ccp \in Ccps /\ bdos \in Bdoses /\ source = <<>> /\ payload = <<>>
       \/ ccp = <<>> /\ bdos = <<>> /\ source \in Programs /\ payload = <<>>
       \/ ccp = <<>> /\ bdos = <<>> /\ source = <<>> /\ payload \in Payloads

FilesNext ==
    \/ \E serial \in Serials : StampFiles(serial)
    \/ \E serial \in Serials, intel \in BOOLEAN : StampJoined(serial, intel)
    \/ BuildSpr
    \/ \E page \in Pages : Relocate(page)
    \/ BurnProms
    \/ \E k \in 1 .. 2, other \in Payloads : ExchangeProm(k, other)
    \/ Relocator

-----------------------------------------------------------------------------
(* Properties. *)

\* A run of stamp_serial.py that ends well leaves the same stamp in CCP and in
\* BDOS, which CCP compares when it starts, whatever earlier runs did, the ones
\* that stopped between the two files included.
StampsMatch ==
    [][status' = 0 /\ ccp' # <<>> /\ <<ccp, bdos>>' # <<ccp, bdos>> =>
          \A i \in 1 .. 6 : /\ CcpStampAt + i \in DOMAIN ccp' /\ i \in DOMAIN bdos'
                            /\ ccp'[CcpStampAt + i] = bdos'[i]]_fileVars

\* The number stamp_serial.py prints, given to it again, is the stamp in the
\* file, but for the version, which a label does not have: labels can be copied
\* from its output.
LabelReadsBack ==
    status = 0 /\ label # <<>> =>
        parse_serial(label) = [SubSeq(ccp, CcpStampAt + 1, CcpStampAt + 6) EXCEPT ![2] = Version]

\* The overlay over the joined binary and the stamping of the two files are the
\* same: wherever the files can be stamped, both ways give the same bytes.
BothWaysStamp ==
    joined # <<>> =>
        LET c == stamp_file(ccp, CcpStampAt, joined[1])
            b == stamp_file(bdos, 0, joined[1])
        IN  c # <<>> /\ b # <<>> => joined[2] = c \o b

\* A relocated program is the program assembled for that page, unless its
\* length is no multiple of eight (then spr_relocate stops with an error) or an
\* address lies in the last page (then build_snios.py has printed a warning).
RelocatedAsAssembled ==
    image # <<>> =>
        \/ Len(source) % 8 # 0
        \/ \E i \in DOMAIN source : source[i] = <<"page", 255>>
        \/ image[2] = Assemble(source, image[1])

\* The PROMs start the payload if they are the ones built together; if one has
\* been exchanged, only if its words add up to the same as the right one's.
OnlyWholePayloadStarts ==
    boot # "off" =>
        LET right == Parts(patch_checksum(payload))
        IN  boot = "started" <=> \A k \in 1 .. 2 : word_sum(proms[k]) = word_sum(right[k])

\* Each tool leaves what the next one in the row (CCP's comparison, apply_hex.py,
\* spr_relocate, the relocator of the PROMs) takes for granted.
FilesFinished ==
    /\ [](LabelReadsBack /\ BothWaysStamp /\ RelocatedAsAssembled /\ OnlyWholePayloadStarts)
    /\ StampsMatch
=============================================================================
