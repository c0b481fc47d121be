------------------------------ MODULE IntelHex ------------------------------
(***************************************************************************)
(* Intel HEX files: the four writers (bin2ihex.py, cim_to_hex.py, the       *)
(* ihex_record of mk_cpm56.py, mk_sysgen_hex.py and stamp_serial.py) and    *)
(* the two readers (apply_hex.py, verify_bios.py).  A line is a record of   *)
(* its fields; digits and line ends are left out.  An image is a sequence   *)
(* of bytes, memory a function from addresses to bytes.                     *)
(***************************************************************************)
EXTENDS Integers, Sequences, SequencesExt, FiniteSetsExt

HexSum(seq) == FoldLeft(LAMBDA a, b : a + b, 0, seq)

\* The record of mk_cpm56.py, mk_sysgen_hex.py and stamp_serial.py.
ihex_record(rtype, addr, data) ==
    LET body == <<Len(data), (addr \div 256) % 256, addr % 256, rtype>> \o data
    IN  [type |-> rtype, addr |-> addr % 65536, data |-> data, sum |-> (-HexSum(body)) % 256]

IntelEof == [type |-> 1, addr |-> 0, data |-> <<>>, sum |-> 255]

\* data in records of at most max bytes from addr on.
ihex_data(addr, data, max) ==
    [i \in 1 .. (Len(data) + max - 1) \div max |->
        ihex_record(0, addr + (i - 1) * max,
                    SubSeq(data, (i - 1) * max + 1, Min({i * max, Len(data)})))]

\* bin2ihex.py, and cim_to_hex.py, which sums the address without cutting it
\* to a byte first.
to_ihex(data, base, len) == ihex_data(base, data, len) \o <<IntelEof>>

to_hex(data, base, len) ==
    LET n == (Len(data) + len - 1) \div len
        chunk(i) == SubSeq(data, (i - 1) * len + 1, Min({i * len, Len(data)}))
        addr(i) == base + (i - 1) * len
    IN  [i \in 1 .. n |->
            [type |-> 0, addr |-> addr(i), data |-> chunk(i),
             sum |-> (-(Len(chunk(i)) + addr(i) \div 256 + (addr(i) % 256) + HexSum(chunk(i)))) % 256]]
        \o <<IntelEof>>

SumOk(r) ==
    r.sum = ihex_record(r.type, r.addr, r.data).sum

\* The records up to the first end record.
UpToEof(recs) ==
    LET eof == {i \in DOMAIN recs : recs[i].type = 1}
    IN  SubSeq(recs, 1, IF eof = {} THEN Len(recs) ELSE Min(eof) - 1)

\* apply_hex.py: the data records and TRUE, or FALSE when a line before the
\* end record (or the end record itself) has a wrong checksum.
parse_hex(recs) ==
    LET eof == {i \in DOMAIN recs : recs[i].type = 1}
        read == SubSeq(recs, 1, IF eof = {} THEN Len(recs) ELSE Min(eof))
    IN  <<\A r \in Range(read) : SumOk(r),
          SelectSeq(UpToEof(recs), LAMBDA r : r.type = 0)>>

\* Records laid over a binary that begins at base, and FALSE when one with
\* data falls outside of it.
apply_records(base, bin, recs) ==
    LET lay(b, r) == [i \in DOMAIN b |->
                        LET k == base + i - 1 - r.addr
                        IN  IF k \in 0 .. Len(r.data) - 1 THEN r.data[k + 1] ELSE b[i]]
        fits(r) == r.data = <<>> \/ (r.addr >= base /\ r.addr - base + Len(r.data) <= Len(bin))
    IN  <<\A r \in Range(recs) : fits(r), FoldLeft(lay, bin, recs)>>

\* verify_bios.py: the bytes from the lowest address to the highest, zero
\* where no record has one, and the lowest address.  Checksums are not read.
hex_to_bin(recs) ==
    LET data == SelectSeq(UpToEof(recs), LAMBDA r : r.type = 0 /\ r.data # <<>>)
        at(a) == {i \in DOMAIN data : a \in data[i].addr .. data[i].addr + Len(data[i].data) - 1}
        addrs == UNION {r.addr .. r.addr + Len(r.data) - 1 : r \in Range(data)}
        value(a) == LET i == Max(at(a)) IN data[i].data[a - data[i].addr + 1]
    IN  IF addrs = {} THEN <<<<>>, 0>>
        ELSE <<[i \in 1 .. Max(addrs) - Min(addrs) + 1 |->
                   IF at(Min(addrs) + i - 1) = {} THEN 0 ELSE value(Min(addrs) + i - 1)],
               Min(addrs)>>
=============================================================================
