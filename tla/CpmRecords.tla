------------------------------ MODULE CpmRecords ------------------------------
(***************************************************************************)
(* How both CP/NET servers (cpnet/server.py, cpnos-rom/netboot_server.py)  *)
(* present a host file, a sequence of bytes, as records of RecSize bytes.  *)
(***************************************************************************)
EXTENDS Integers, Sequences, FiniteSets, FiniteSetsExt

CONSTANT RecSize        \* bytes of a record (128)

ASSUME RecSizeAssumption == RecSize \in Nat \ {0}

EOFCHAR == 26

Records(c) == (Len(c) + RecSize - 1) \div RecSize

\* The bytes of a record, padded with ^Z; nothing at the end of the file.
ReadAt(c, rec) ==
    LET d == SubSeq(c, rec * RecSize + 1, Min({Len(c), (rec + 1) * RecSize}))
    IN  IF d = <<>> THEN d ELSE d \o [i \in 1 .. RecSize - Len(d) |-> EOFCHAR]

\* Bug: a file that exists is opened "wb" and loses its other records.
WriteAtTruncates(c, rec, d) ==
    [i \in 1 .. (rec + 1) * RecSize |->
        IF i > rec * RecSize THEN d[i - rec * RecSize] ELSE 0]
\* A write at the record's offset; a gap before it reads as zeros.
WriteAt(c, rec, d) ==
    LET off == rec * RecSize IN
    [i \in 1 .. Max({Len(c), off + RecSize}) |->
        IF i \in off + 1 .. off + RecSize THEN d[i - off]
        ELSE IF i <= Len(c) THEN c[i] ELSE 0]
===============================================================================
