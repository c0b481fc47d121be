------------------------------ MODULE BiosBuild ------------------------------
(***************************************************************************)
(* A new BIOS on its way to the system tracks.  mk_cpm56.py or              *)
(* mk_sysgen_hex.py turns bios.cim into a HEX file for CP/M, which holds    *)
(* side 0 and side 1 of track 0 at the addresses SYSGEN writes them from,   *)
(* and a small program at 0100H that sums what arrived and prints OK or     *)
(* FAIL.  The file goes over a serial line (records may be lost or spoiled) *)
(* and through LOAD or MLOAD into memory.  mk_sysgen_t0.py makes the same   *)
(* layout as a file, without the detour.                                    *)
(*                                                                         *)
(* The program at 0100H is kept as the numbers it is made with: the sum it  *)
(* expects and the places and lengths of the regions; its instructions are  *)
(* modelled by what they compute (RunValidator).                            *)
(***************************************************************************)
EXTENDS IntelHex, TLC

CONSTANTS
    SIDE0, GAP, SIDE1,   \* bytes of side 0, of the gap and of side 1 (3328, 3328, 6656)
    TPA,                 \* where programs are loaded (0100H)
    T0,                  \* where SYSGEN has track 0 (4500H)
    Bios,                \* the images bios.cim may hold
    HexBases,            \* addresses bin2ihex.py and cim_to_hex.py are called with
    Com,                 \* the files CPM56.COM may hold
    MemTop,              \* bound: memory ends here
    MaxMishaps            \* bound: records lost or spoiled

VARIABLES
    cim,      \* bios.cim
    hex,      \* the records of the HEX file as the machine has received them
    mem,      \* memory from TPA on
    msg,      \* what the loaded program printed
    mishaps    \* ghost: what happened to the file on the way

buildVars == <<cim, hex, mem, msg, mishaps>>

S1At == T0 + SIDE0 + GAP

\* Places and lengths of the two regions of an image of n bytes.
Regions(n) ==
    <<T0, Min({n, SIDE0})>> \o (IF n > SIDE0 THEN <<S1At, n - SIDE0>> ELSE <<>>)

\* build_validator and the sum it is given, in mk_cpm56.py and
\* mk_sysgen_hex.py: the sum, the number of regions and the regions.
\*
\* Bug: the program sums side 0 alone, and so does the script.
BugValidator(c) ==
    <<HexSum(SubSeq(c, 1, Min({Len(c), SIDE0}))) % 65536, 1, T0, Min({Len(c), SIDE0})>>

build_validator(c) ==
    <<HexSum(c) % 65536, Len(Regions(Len(c))) \div 2>> \o Regions(Len(c))

CpmEof == ihex_record(0, 0, <<>>)

\* main of mk_sysgen_hex.py; <<>> when the image is too large for track 0.
mk_sysgen_hex(c) ==
    IF Len(c) > SIDE0 + SIDE1 THEN <<>>
    ELSE ihex_data(TPA, build_validator(c), 2)
         \o ihex_data(T0, SubSeq(c, 1, Min({Len(c), SIDE0})), 2)
         \o (IF Len(c) > SIDE0 THEN ihex_data(S1At, SubSeq(c, SIDE0 + 1, Len(c)), 2) ELSE <<>>)
         \o <<CpmEof>>

\* CPM56.COM with the image in place of its track 0: the gap is zero, behind a
\* side 1 in use come zeros, and nothing is written past the end of a file that
\* goes beyond the gap (a shorter one grows to its end).
PatchedCom(com, c) ==
    LET at(i) == TPA + i - 1                 \* the address of byte i of the file
        side0(a) == a - T0 + 1
        side1(a) == a - S1At + 1
    IN  [i \in 1 .. Max({Len(com), S1At - TPA}) |->
            LET a == at(i)
            IN  IF a < T0 THEN com[i]
                ELSE IF a < T0 + SIDE0 THEN IF side0(a) <= Len(c) THEN c[side0(a)] ELSE com[i]
                ELSE IF a < S1At THEN 0
                ELSE IF Len(c) <= SIDE0 THEN com[i]
                ELSE IF SIDE0 + side1(a) <= Len(c) THEN c[SIDE0 + side1(a)]
                ELSE IF side1(a) <= SIDE1 THEN 0 ELSE com[i]]

\* The HEX file of mk_cpm56.py: the program and all of the .COM from track 0 on.
mk_cpm56(com, c) ==
    LET new == PatchedCom(com, c)
    IN  ihex_data(TPA, build_validator(c), 3)
        \o ihex_data(T0, SubSeq(new, T0 - TPA + 1, Len(new)), 3)
        \o <<CpmEof>>

\* mk_sysgen_t0.py: track 0 as SYSGEN has it in memory; <<>> if too large.
mk_sysgen_t0(c) ==
    IF Len(c) > SIDE0 + SIDE1 THEN <<>>
    ELSE [i \in 1 .. SIDE0 + GAP + SIDE1 |->
            IF i <= Min({Len(c), SIDE0}) THEN c[i]
            ELSE IF i > SIDE0 + GAP /\ i - GAP <= Len(c) THEN c[i - GAP]
            ELSE 0]

-----------------------------------------------------------------------------
(* CP/M's side, which is not part of the repository. *)

\* LOAD and MLOAD: the data records up to the empty one, over the base file;
\* a record with a wrong checksum ends it.  Zero where nothing is loaded.
Loaded(base, recs) ==
    LET eof == {i \in DOMAIN recs : recs[i].data = <<>>}
        read == SubSeq(recs, 1, IF eof = {} THEN Len(recs) ELSE Min(eof) - 1)
        lay(m, r) == [a \in DOMAIN m |->
                        IF a \in r.addr .. r.addr + Len(r.data) - 1
                        THEN r.data[a - r.addr + 1] ELSE m[a]]
        start == [a \in TPA .. MemTop |->
                    IF a - TPA + 1 \in DOMAIN base THEN base[a - TPA + 1] ELSE 0]
    IN  IF \A r \in Range(read) : SumOk(r) THEN FoldLeft(lay, start, read) ELSE <<>>

\* build_checksum16_loop and build_validator as the machine runs them.
RunValidator(m) ==
    LET n == m[TPA + 1]
        region(r) == m[TPA + 2 * r] .. m[TPA + 2 * r] + m[TPA + 2 * r + 1] - 1
        sum(r) == MapThenSumSet(LAMBDA a : IF a \in DOMAIN m THEN m[a] ELSE 0, region(r))
    IN  IF MapThenSumSet(sum, 1 .. n) % 65536 = m[TPA] THEN "OK" ELSE "FAIL"

-----------------------------------------------------------------------------
BuildIdle == cim = <<>> /\ hex = <<>> /\ mem = <<>> /\ msg = "none" /\ mishaps = {}

BuildInit == cim \in Bios /\ hex = <<>> /\ mem = <<>> /\ msg = "none" /\ mishaps = {}

MakeSysgenHex ==
    /\ cim # <<>> /\ hex = <<>>
    /\ mk_sysgen_hex(cim) # <<>>
    /\ hex' = mk_sysgen_hex(cim)
    /\ UNCHANGED <<cim, mem, msg, mishaps>>

MakeCpm56(com) ==
    /\ cim # <<>> /\ hex = <<>>
    /\ hex' = mk_cpm56(com, cim)
    /\ UNCHANGED <<cim, mem, msg, mishaps>>

\* On the serial line a record is lost, or one of its bytes is spoiled.
LoseRecord(i) ==
    /\ mem = <<>> /\ Cardinality(mishaps) < MaxMishaps
    /\ hex' = RemoveAt(hex, i)
    /\ mishaps' = mishaps \cup {<<"lost", hex[i]>>}
    /\ UNCHANGED <<cim, mem, msg>>

SpoilRecord(i) ==
    /\ mem = <<>> /\ Cardinality(mishaps) < MaxMishaps
    /\ hex[i].data # <<>>
    /\ hex' = [hex EXCEPT ![i].data[1] = (@ + 1) % 256]
    /\ mishaps' = mishaps \cup {<<"spoiled", hex[i]>>}
    /\ UNCHANGED <<cim, mem, msg>>

\* MLOAD over BDOSCCP.COM, which ends before track 0, or LOAD without a base.
Load(base) ==
    /\ hex # <<>> /\ mem = <<>>
    /\ Loaded(base, hex) # <<>>
    /\ mem' = Loaded(base, hex)
    /\ UNCHANGED <<cim, hex, msg, mishaps>>

\* All of the program has arrived; where a record of it was lost there are zeros, or
\* bytes of the base.
ProgramWhole ==
    \A k \in 1 .. Len(build_validator(cim)) : mem[TPA + k - 1] = build_validator(cim)[k]

\* What is at 0100H is run: the program, or what is left of it, which may slide over
\* the gap into any of its ends, or into none.
Validate ==
    /\ mem # <<>> /\ msg = "none"
    /\ IF ProgramWhole THEN msg' = RunValidator(mem) ELSE msg' \in {"OK", "FAIL", "hangs"}
    /\ UNCHANGED <<cim, hex, mem, mishaps>>

BuildNext ==
    \/ MakeSysgenHex
    \/ \E com \in Com : MakeCpm56(com)
    \/ \E i \in DOMAIN hex : LoseRecord(i)
    \/ \E i \in DOMAIN hex : SpoilRecord(i)
    \/ \E com \in Com : \E n \in {0, T0 - TPA} : Load(SubSeq(com, 1, n))
    \/ Validate

-----------------------------------------------------------------------------
(* Properties. *)

\* bin2ihex.py and cim_to_hex.py write the same file, and the readers of
\* apply_hex.py and verify_bios.py get from it the image and its address back,
\* for every length of a record and across the end of a page.
HexFilesReadBack ==
    cim # <<>> =>
        \A base \in HexBases, len \in 1 .. 3 :
            LET a == to_ihex(cim, base, len)
                zero == [i \in DOMAIN cim |-> 0]
            IN  /\ a = to_hex(cim, base, len)
                /\ hex_to_bin(a) = <<cim, base>>
                /\ parse_hex(a)[1] /\ apply_records(base, zero, parse_hex(a)[2]) = <<TRUE, cim>>

\* When the program has arrived whole and printed OK, all of the new BIOS is where
\* SYSGEN will write it from, both sides of it, whatever else was lost or spoiled on
\* the line and whatever the size of the .COM it was put in: what mk_sysgen_t0.py would
\* have placed there is there.  Nothing guards the program itself, and mk_cpm56.py puts
\* an image that is larger than track 0 into a .COM that is long enough (only
\* mk_sysgen_hex.py and mk_sysgen_t0.py refuse it): the OK of either is worth nothing.
OkMeansWhole ==
    msg = "OK" /\ ProgramWhole /\ Len(cim) <= SIDE0 + SIDE1 =>
        \A i \in 1 .. Len(cim) :
            LET k == IF i <= SIDE0 THEN i ELSE i + GAP
            IN  mem[T0 + k - 1] = mk_sysgen_t0(cim)[k]

\* And when nothing was lost or spoiled, FAIL means that the image is larger
\* than the .COM it was put in, never that the scripts disagree with the sum.
FailMeansFault ==
    msg \in {"FAIL", "hangs"} /\ mishaps = {} =>
        Len(cim) > SIDE0 /\ \A r \in Range(hex) : r.addr + Len(r.data) < S1At + Len(cim) - SIDE0

\* The HEX writers, their readers and the program at 0100H agree on the image: where
\* the program arrived whole, the image did too or the user is told.
LoadedAsBuilt == HexFilesReadBack /\ OkMeansWhole /\ FailMeansFault
=============================================================================
