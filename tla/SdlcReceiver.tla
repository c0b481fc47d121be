---------------------------- MODULE SdlcReceiver ----------------------------
(***************************************************************************)
(* sdlc_receiver.py: SDLC frames out of samples of the transmit line of     *)
(* SIO-B.  The line has no clock, so bit cells are recovered from the       *)
(* samples (dpll_bits, or samples_to_bits in the live path), NRZI is        *)
(* undone, flags are looked for, stuffed zeros dropped and the CRC checked. *)
(*                                                                         *)
(* The sender, the Z80-SIO in SDLC mode, is not part of src/: it is         *)
(* modelled as the standard has it, and the receiver is measured by the     *)
(* frames that were sent.  Samples are levels 0 and 1 (the mask of the pin  *)
(* is left out); sps is even, so that half a cell is a number of samples.   *)
(***************************************************************************)
EXTENDS Integers, Sequences, SequencesExt, FiniteSetsExt

CONSTANTS
    Sendings,     \* sequences of <<flags before the frame, payload bytes>>
    Sps,          \* samples per bit cell
    Jitters,      \* sequences of -1, 0, 1: cell k is longer by the k-th, in turn
    Nominal,      \* samples per cell the operator assumes with --auto
    Coarse, Fine, \* the steps of auto_decode, in percent and in samples
    MaxRunBits    \* 8

VARIABLES
    onLine,     \* what the sender sends
    samples,   \* what was captured
    jitter,    \* how the lengths of the cells were off
    got        \* <<how, payloads with a good CRC>>, once decoded

sdlcVars == <<onLine, samples, jitter, got>>

-----------------------------------------------------------------------------
(* The sender. *)

ByteBits(b) == [k \in 1 .. 8 |-> (b \div 2^(k - 1)) % 2]
ToBits(bytes) == FlattenSeq([i \in 1 .. Len(bytes) |-> ByteBits(bytes[i])])
Flag7E == <<0, 1, 1, 1, 1, 1, 1, 0>>

\* CRC-CCITT, least significant bit first, as sixteen bits: crc_ccitt.
crc_ccitt(bits) ==
    LET step(crc, b) ==
            LET s == Append(Tail(crc), 0)
            IN  IF crc[1] # b THEN [i \in 1 .. 16 |-> IF i \in {4, 11, 16} THEN 1 - s[i] ELSE s[i]]
                ELSE s
        reg[n \in 0 .. Len(bits)] == IF n = 0 THEN [i \in 1 .. 16 |-> 1] ELSE step(reg[n - 1], bits[n])
        end == reg[Len(bits)]
    IN  [i \in 1 .. 16 |-> 1 - end[i]]

\* The sender's own CRC, by polynomial division of the bits.
SenderCrc(bits) ==
    LET poly(r) == [i \in 1 .. 16 |-> IF i \in {4, 11, 16} THEN 1 - r[i] ELSE r[i]]
        step(r, b) == LET s == Tail(r) \o <<0>> IN IF (r[1] + b) % 2 = 1 THEN poly(s) ELSE s
        reg[n \in 0 .. Len(bits)] == IF n = 0 THEN [i \in 1 .. 16 |-> 1] ELSE step(reg[n - 1], bits[n])
        end == reg[Len(bits)]
    IN  [i \in 1 .. 16 |-> 1 - end[i]]

\* A zero after every five ones.
Stuffed(bits) ==
    LET add(acc, b) == LET a == Append(acc, b)
                       IN  IF Len(a) >= 5 /\ SubSeq(a, Len(a) - 4, Len(a)) = <<1, 1, 1, 1, 1>>
                           THEN Append(a, 0) ELSE a
        upto[n \in 0 .. Len(bits)] == IF n = 0 THEN <<>> ELSE add(upto[n - 1], bits[n])
    IN  upto[Len(bits)]

FrameBits(payload) == Stuffed(ToBits(payload) \o SenderCrc(ToBits(payload)))

Repeated(s, n) == FlattenSeq([i \in 1 .. n |-> s])

\* Flags, frame, flags, frame, ... and two flags at the end.
LineBits(sending) ==
    FlattenSeq([i \in 1 .. Len(sending) |->
        Repeated(Flag7E, sending[i][1]) \o FrameBits(sending[i][2])]) \o Repeated(Flag7E, 2)

\* A zero changes the level, a one keeps it.
Levels(bits) ==
    [k \in 1 .. Len(bits) + 1 |-> (1 + Cardinality({j \in 1 .. k - 1 : bits[j] = 0})) % 2]

\* Put together sixteen cells at a time.
Sampled(levels, off) ==
    LET cell(k) == [s \in 1 .. Sps + off[((k - 1) % Len(off)) + 1] |-> levels[k]]
        cells(from) == FlattenSeq([k \in 1 .. Min({16, Len(levels) - from}) |-> cell(from + k)])
    IN  FlattenSeq([j \in 1 .. (Len(levels) + 15) \div 16 |-> cells(16 * (j - 1))])

-----------------------------------------------------------------------------
(* The receiver. *)

\* run / sps rounded to the nearest, a half to the even one.
Rounded(run, sps) ==
    LET q == run \div sps
        r == run % sps
    IN  IF 2 * r > sps \/ (2 * r = sps /\ q % 2 = 1) THEN q + 1 ELSE q

\* One level per cell from the lengths of the runs, without the last run.
samples_to_bits(smp, sps) ==
    LET n == Len(smp)
        ends == SelectSeq([i \in 1 .. n - 1 |-> i], LAMBDA i : smp[i] # smp[i + 1])
        run(k) == ends[k] - (IF k = 1 THEN 0 ELSE ends[k - 1])
        cells(k) == Min({Max({1, Rounded(run(k), sps)}), MaxRunBits})
    IN  FlattenSeq([k \in 1 .. Len(ends) |-> [c \in 1 .. cells(k) |-> smp[ends[k]]]])

\* Levels at the middle of the cells; a change of level seen before the next
\* middle sets the phase anew.  t counts from 0, as in the code.
dpll_bits(smp, sps) ==
    LET n == Len(smp)
        change == {i \in 1 .. n - 1 : smp[i + 1] # smp[1]}
        next(t) == LET seen == {j \in t .. Min({n, t + (sps \div 2) + 1}) - 1 : smp[j + 1] # smp[t + 1]}
                   IN  IF seen = {} THEN t + sps ELSE Min(seen) + (sps \div 2)
        at[t \in Nat] == IF t >= n THEN <<>> ELSE <<smp[t + 1]>> \o at[next(t)]
    IN  IF change = {} THEN <<>> ELSE at[Min(change) + (sps \div 2)]

nrzi_decode(bits, flip) ==
    [i \in 1 .. Len(bits) |->
        IF (bits[i] = (IF i = 1 THEN 1 ELSE bits[i - 1])) # flip THEN 1 ELSE 0]

FlagAt(bits, i) == i + 7 <= Len(bits) /\ SubSeq(bits, i, i + 7) = Flag7E

\* The bits from a flag's end to the next six ones, without stuffed zeros;
\* the zero of the closing flag stays at the end.
\*
\* Bug: the zero is dropped after six ones instead of five.
BugCollect(bits, from) ==
    LET ones(k, m) == k - m >= from /\ \A j \in 1 .. m : bits[k - j] = 1
        six == {k \in from .. Len(bits) : bits[k] = 1 /\ ones(k, 6)}
        last == IF six = {} THEN Len(bits) ELSE Min(six) - 7
        keep == SelectSeq([k \in 1 .. last |-> k], LAMBDA k : k >= from /\ ~(bits[k] = 0 /\ ones(k, 6)))
    IN  [bits |-> [i \in 1 .. Len(keep) |-> bits[keep[i]]],
         next |-> IF six = {} THEN Len(bits) + 1 ELSE Min(six)]

Collect(bits, from) ==
    LET ones(k, m) == k - m >= from /\ \A j \in 1 .. m : bits[k - j] = 1
        six == {k \in from .. Len(bits) : bits[k] = 1 /\ ones(k, 5)}
        last == IF six = {} THEN Len(bits) ELSE Min(six) - 6
        keep == SelectSeq([k \in 1 .. last |-> k], LAMBDA k : k >= from /\ ~(bits[k] = 0 /\ ones(k, 5)))
    IN  [bits |-> [i \in 1 .. Len(keep) |-> bits[keep[i]]],
         next |-> IF six = {} THEN Len(bits) + 1 ELSE Min(six)]

find_frames(bits) ==
    LET n == Len(bits)
        past[i \in Nat] == IF FlagAt(bits, i) THEN past[i + 8] ELSE i
        from[i \in Nat] ==
            LET flags == {p \in i .. n - 8 : FlagAt(bits, p)}
                c == Collect(bits, past[Min(flags)])
            IN  IF flags = {} THEN <<>>
                ELSE (IF c.bits = <<>> THEN <<>> ELSE <<c.bits>>) \o from[c.next]
    IN  from[1]

bits_to_bytes(bits) ==
    [j \in 1 .. Len(bits) \div 8 |->
        MapThenSumSet(LAMBDA k : bits[8 * (j - 1) + k] * 2^(k - 1), 1 .. 8)]

decode_with(smp, sps, flip) == find_frames(nrzi_decode(dpll_bits(smp, sps), flip))

\* Payloads of the frames whose CRC is right.
GoodFrames(frames) ==
    LET whole(f) == SubSeq(f, 1, 8 * (Len(f) \div 8))
        data(f) == SubSeq(whole(f), 1, Len(whole(f)) - 16)
        ok(f) == Len(f) >= 16 /\ crc_ccitt(data(f)) = SubSeq(whole(f), Len(whole(f)) - 15, Len(whole(f)))
        good == SelectSeq(frames, ok)
    IN  [i \in 1 .. Len(good) |-> bits_to_bytes(data(good[i]))]

evaluate_config(smp, sps, flip) ==
    LET frames == decode_with(smp, sps, flip)
        good == GoodFrames(frames)
    IN  [sps |-> sps, good |-> good, score |-> 1000 * Len(good) + Len(frames)]

\* The best of the coarse steps, then of the fine steps around it; of equal
\* ones the first.  The code's steps, 50 to 200 percent by 10 and then tenths of
\* a sample, are thinned out to those of Coarse and Fine that give an even
\* number of samples; --expect-ascii, which adds to the score, is not given.
auto_decode(smp, nominal) ==
    LET best(cands) == cands[CHOOSE i \in DOMAIN cands :
                               /\ \A j \in DOMAIN cands : cands[j].score <= cands[i].score
                               /\ \A j \in 1 .. i - 1 : cands[j].score < cands[i].score]
        both(sps) == <<evaluate_config(smp, sps, FALSE), evaluate_config(smp, sps, TRUE)>>
        steps == SelectSeq([i \in 1 .. Len(Coarse) |-> (nominal * Coarse[i]) \div 100],
                           LAMBDA s : s >= 2 /\ s <= 64)
        coarse == best(FlattenSeq([i \in 1 .. Len(steps) |-> both(steps[i])]))
        around == SelectSeq([i \in 1 .. Len(Fine) |-> coarse.sps + Fine[i]], LAMBDA s : s > 2)
    IN  best(<<coarse>> \o FlattenSeq([i \in 1 .. Len(around) |-> both(around[i])]))

-----------------------------------------------------------------------------
SdlcIdle == onLine = <<>> /\ samples = <<>> /\ jitter = <<>> /\ got = <<>>

SdlcInit == onLine \in Sendings /\ samples = <<>> /\ jitter = <<>> /\ got = <<>>

Capture(off) ==
    /\ onLine # <<>> /\ samples = <<>>
    /\ samples' = Sampled(Levels(LineBits(onLine)), off)
    /\ jitter' = off
    /\ UNCHANGED <<onLine, got>>

\* The live path of main.
DecodeLive ==
    /\ samples # <<>> /\ got = <<>>
    /\ got' = <<"runs", GoodFrames(find_frames(nrzi_decode(samples_to_bits(samples, Sps), FALSE)))>>
    /\ UNCHANGED <<onLine, samples, jitter>>

\* --decode-only.
DecodeOnly ==
    /\ samples # <<>> /\ got = <<>>
    /\ got' = <<"dpll", GoodFrames(decode_with(samples, Sps, FALSE))>>
    /\ UNCHANGED <<onLine, samples, jitter>>

\* --decode-only --auto.
DecodeAuto ==
    /\ samples # <<>> /\ got = <<>>
    /\ got' = <<"auto", auto_decode(samples, Nominal).good>>
    /\ UNCHANGED <<onLine, samples, jitter>>

SdlcNext ==
    \/ \E off \in Jitters : Capture(off)
    \/ DecodeLive
    \/ DecodeOnly
    \/ DecodeAuto

-----------------------------------------------------------------------------
\* What a way of decoding must cope with.  The cells are on average as long
\* as thought, or shorter by no more than a sample in four cells; the live
\* path and the sweep are asked for nothing but equal cells.
Copes(how) ==
    LET sum == FoldLeft(LAMBDA a, b : a + b, 0, jitter)
    IN  IF how = "dpll" THEN sum <= 0 /\ -4 * sum <= Len(jitter) ELSE sum = 0 /\ Len(jitter) = 1

\* Every frame that follows at least two flags is decoded, with its bytes, in
\* order, and nothing that was not sent passes for a frame: stuffing, flags
\* and CRC are undone for any payload, with the phase of the samples off by
\* one now and then in the path that follows it, and with a wrong idea of the
\* rate in the automatic one.  (A frame behind a single flag may be missed:
\* the flag that closed the frame before has been used up.)
FramesDecoded ==
    (got # <<>> /\ Copes(got[1])) =>
        \E pick \in SUBSET DOMAIN onLine :
            /\ \A i \in DOMAIN onLine : onLine[i][1] >= 2 => i \in pick
            /\ LET order == SetToSortSeq(pick, <)
               IN  got[2] = [k \in 1 .. Len(order) |-> onLine[order[k]][2]]
=============================================================================
