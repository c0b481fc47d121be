----------------------------- MODULE DataTheorems -----------------------------
(***************************************************************************)
(* Lemmas about the data of several modules: induction on the natural      *)
(* numbers, in the form that needs no operator as a parameter; maxima;     *)
(* quotients; rings, buffers used in a circle; and sequences of sequences  *)
(* joined end to end.                                                      *)
(***************************************************************************)
EXTENDS Integers, Sequences, FiniteSetsExt, SequencesExt, SequenceTheorems, WellFoundedInduction, TLAPS

\* A set of natural numbers that is not empty has a least element (the form of
\* induction that needs no operator as a parameter).
LEMMA Least ==
  ASSUME NEW T \in SUBSET Nat, T # {}
  PROVE \E x \in T : \A y \in T : ~(y < x)
<1>1. IsWellFoundedOn(OpToRel(<,Nat), Nat) BY NatLessThanWellFounded
<1>2. \E x \in T : \A y \in T : <<y,x>> \notin OpToRel(<,Nat)
  BY <1>1, WFMin
<1>3. PICK x \in T : \A y \in T : <<y,x>> \notin OpToRel(<,Nat) BY <1>2
<1>4. ASSUME NEW y \in T, y < x PROVE FALSE
  <2>1. <<y,x>> \in Nat \X Nat OBVIOUS
  <2>2. <<y,x>> \in OpToRel(<,Nat) BY <2>1, <1>4 DEF OpToRel
  <2> QED BY <2>2, <1>3
<1> QED BY <1>3, <1>4

\* Induction up to n, on a set.
LEMMA UpTo ==
  ASSUME NEW n \in Nat, NEW S, 0 \in S,
         \A i \in 0 .. n : i > 0 /\ i - 1 \in S => i \in S
  PROVE  n \in S
<1> DEFINE T == {i \in 0 .. n : i \notin S}
<1> SUFFICES ASSUME n \notin S PROVE FALSE OBVIOUS
<1>1. T \in SUBSET Nat /\ T # {} OBVIOUS
<1>2. PICK i \in T : \A j \in T : ~(j < i) BY <1>1, Least
<1>3. i \in 0 .. n /\ i \notin S /\ i > 0 BY <1>2
<1>4. i - 1 \in 0 .. n /\ i - 1 < i BY <1>3
<1> QED BY <1>2, <1>3, <1>4

\* What Max is.
LEMMA MaxIs ==
  ASSUME NEW S \in SUBSET Nat, NEW k \in S, \A i \in S : i <= k
  PROVE  Max(S) = k
<1> DEFINE P(i) == \A j \in S : i >= j
<1>1. P(k) OBVIOUS
<1>2. Max(S) \in S /\ P(Max(S))
   <2> HIDE DEF P
   <2>1. (CHOOSE i \in S : P(i)) \in S /\ P(CHOOSE i \in S : P(i)) BY <1>1
   <2> QED BY <2>1 DEF Max, P
<1>3. Max(S) \in Nat /\ k \in Nat /\ Max(S) >= k /\ Max(S) <= k BY <1>2
<1> QED BY <1>3

\* A bounded set of numbers that is not empty has a maximum.
LEMMA MaxExists ==
  ASSUME NEW n \in Nat, NEW S \in SUBSET (0 .. n), S # {}
  PROVE  Max(S) \in S /\ \A i \in S : i <= Max(S)
<1> DEFINE T == {i \in Nat : \E j \in S : i = n - j}
<1>1. T \in SUBSET Nat OBVIOUS
<1>2. T # {}
   <2>1. PICK j \in S : TRUE OBVIOUS
   <2>2. n - j \in T BY <2>1
   <2> QED BY <2>2
<1>3. PICK t \in T : \A u \in T : ~(u < t)
   <2> HIDE DEF T
   <2> QED BY <1>1, <1>2, Least
<1>4. PICK k \in S : t = n - k BY <1>3
<1>5. ASSUME NEW i \in S PROVE i <= k
   <2>1. n - i \in T OBVIOUS
   <2>2. ~(n - i < t) BY <2>1, <1>3
   <2> QED BY <2>2, <1>4
<1>6. S \in SUBSET Nat OBVIOUS
<1>7. Max(S) = k BY <1>5, <1>6, MaxIs
<1> QED BY <1>5, <1>7

\* The maximum of two numbers.
LEMMA MaxOfTwo ==
  ASSUME NEW a \in Nat, NEW b \in Nat
  PROVE  Max({a, b}) = IF a >= b THEN a ELSE b
<1>1. CASE a >= b
   <2>1. {a, b} \in SUBSET Nat /\ a \in {a, b} /\ \A i \in {a, b} : i <= a BY <1>1
   <2> QED BY <2>1, <1>1, MaxIs
<1>2. CASE ~(a >= b)
   <2>1. {a, b} \in SUBSET Nat /\ b \in {a, b} /\ \A i \in {a, b} : i <= b BY <1>2
   <2> QED BY <2>1, <1>2, MaxIs
<1> QED BY <1>1, <1>2

\* The minimum of two numbers.
LEMMA MinOfTwo ==
  ASSUME NEW a \in Nat, NEW b \in Nat
  PROVE  Min({a, b}) = IF a <= b THEN a ELSE b
<1> DEFINE S == {a, b}
           P(i) == \A j \in S : i <= j
           k == IF a <= b THEN a ELSE b
<1>1. k \in S /\ P(k) OBVIOUS
<1>2. Min(S) \in S /\ P(Min(S))
   <2> HIDE DEF P, k
   <2>1. (CHOOSE i \in S : P(i)) \in S /\ P(CHOOSE i \in S : P(i)) BY <1>1
   <2> QED BY <2>1 DEF Min, P
<1>3. Min(S) \in Nat /\ Min(S) <= a /\ Min(S) <= b BY <1>2
<1> QED BY <1>2, <1>3

\* Multiples in order.
LEMMA Mult ==
  ASSUME NEW a \in Nat, NEW b \in Nat, NEW c \in Nat, a <= b
  PROVE  a * c <= b * c /\ a * c \in Nat /\ (a + 1) * c = a * c + c
OBVIOUS

\* Quotient and remainder.
LEMMA DivMod ==
  ASSUME NEW n \in Nat \ {0}, NEW q \in Nat, NEW k \in 0 .. n - 1
  PROVE  (q * n + k) \div n = q /\ (q * n + k) % n = k
<1> DEFINE c == q * n + k
           d == c \div n
<1>1. c \in Nat OBVIOUS
<1>2. d \in Nat /\ c = n * d + (c % n) /\ c % n \in 0 .. n - 1
   <2> HIDE DEF c
   <2> QED BY <1>1
<1>3. d = q
   <2> HIDE DEF d
   <2>1. CASE d < q
      <3>1. n * d + n <= n * q BY <2>1, <1>2
      <3> QED BY <3>1, <1>1, <1>2
   <2>2. CASE d > q
      <3>1. n * q + n <= n * d BY <2>2, <1>2
      <3> QED BY <3>1, <1>1, <1>2
   <2> QED BY <2>1, <2>2, <1>2
<1> QED BY <1>1, <1>2, <1>3

\* Every number has a quotient and a remainder.
LEMMA Divided ==
  ASSUME NEW n \in Nat \ {0}, NEW c \in Nat
  PROVE  \E q \in Nat : \E k \in 0 .. n - 1 : c = q * n + k
<1>1. c \div n \in Nat /\ c % n \in 0 .. n - 1 /\ c = (c \div n) * n + (c % n)
   OBVIOUS
<1> QED BY <1>1

-----------------------------------------------------------------------------
(***************************************************************************)
(* What the receive rings of the BIOS have in common: n slots, the head    *)
(* where the next byte goes, the tail where the oldest byte is, both       *)
(* counted modulo n, and one slot left free so that head = tail means      *)
(* empty.  The theorems say how the sequence a ring holds changes with a   *)
(* step of its head or its tail.                                           *)
(***************************************************************************)

\* What a ring holds, oldest first.
Held(buf, head, tail, n) ==
    [i \in 1 .. (head - tail) % n |-> buf[(tail + i - 1) % n]]

\* A ring of n slots for elements of B.
IsRing(buf, head, tail, n, B) ==
    /\ n \in Nat \ {0}
    /\ buf \in [0 .. n - 1 -> B] /\ head \in 0 .. n - 1 /\ tail \in 0 .. n - 1

\* The buffer after a byte has been stored at the head.
Stored(buf, head, b) == [buf EXCEPT ![head] = b]

\* Masking keeps an index in the ring and wraps only at its end.
LEMMA Wrap ==
    ASSUME NEW n \in Nat \ {0}, NEW i \in 0 .. n - 1
    PROVE  (i + 1) % n = IF i = n - 1 THEN 0 ELSE i + 1
  BY SMT

\* The number of bytes in a ring, without the modulus.
LEMMA Distance ==
    ASSUME NEW n \in Nat \ {0}, NEW h \in 0 .. n - 1, NEW t \in 0 .. n - 1
    PROVE  (h - t) % n = IF t <= h THEN h - t ELSE h - t + n
  BY SMT

\* The slot of the i-th byte, without the modulus.
LEMMA Slot ==
    ASSUME NEW n \in Nat \ {0}, NEW t \in 0 .. n - 1, NEW i \in 1 .. n
    PROVE  (t + i - 1) % n = IF t + i - 1 < n THEN t + i - 1 ELSE t + i - 1 - n
  BY SMT

\* A step of the head is one byte more, unless the ring was full.
LEMMA DistancePut ==
    ASSUME NEW n \in Nat \ {0}, NEW h \in 0 .. n - 1, NEW t \in 0 .. n - 1, (h + 1) % n # t
    PROVE  /\ (h + 1) % n \in 0 .. n - 1
           /\ (((h + 1) % n) - t) % n = ((h - t) % n) + 1
           /\ (h - t) % n < n - 1
  <1> DEFINE g == (h + 1) % n
             before == (h - t) % n
             after == (g - t) % n
  <1>1. g = IF h = n - 1 THEN 0 ELSE h + 1
    BY Wrap
  <1>2. before = IF t <= h THEN h - t ELSE h - t + n
    BY Distance
  <1>3. g # t
    OBVIOUS
  <1> HIDE DEF g, before
  <1>4. g \in 0 .. n - 1
    BY <1>1
  <1>5. after = IF t <= g THEN g - t ELSE g - t + n
    BY <1>4, Distance
  <1> HIDE DEF after
  <1>6. after = before + 1 /\ before < n - 1
    BY <1>1, <1>2, <1>3, <1>5
  <1> QED
    BY <1>4, <1>6, Zenon DEF g, before, after

\* A step of the tail is one byte less, unless the ring was empty.
LEMMA DistanceGet ==
    ASSUME NEW n \in Nat \ {0}, NEW h \in 0 .. n - 1, NEW t \in 0 .. n - 1, h # t
    PROVE  /\ (t + 1) % n \in 0 .. n - 1
           /\ (h - ((t + 1) % n)) % n = ((h - t) % n) - 1
           /\ (h - t) % n > 0
  <1> DEFINE s == (t + 1) % n
             before == (h - t) % n
             after == (h - s) % n
  <1>1. s = IF t = n - 1 THEN 0 ELSE t + 1
    BY Wrap
  <1>2. before = IF t <= h THEN h - t ELSE h - t + n
    BY Distance
  <1> HIDE DEF s, before
  <1>3. s \in 0 .. n - 1
    BY <1>1
  <1>4. after = IF s <= h THEN h - s ELSE h - s + n
    BY <1>3, Distance
  <1> HIDE DEF after
  <1>5. after = before - 1 /\ before > 0
    BY <1>1, <1>2, <1>4
  <1> QED
    BY <1>3, <1>5, Zenon DEF s, before, after

\* A full ring holds n - 1 bytes.
LEMMA DistanceFull ==
    ASSUME NEW n \in Nat \ {0}, NEW h \in 0 .. n - 1, NEW t \in 0 .. n - 1, (h + 1) % n = t
    PROVE  (h - t) % n = n - 1
  <1>1. t = IF h = n - 1 THEN 0 ELSE h + 1
    BY Wrap
  <1>2. (h - t) % n = IF t <= h THEN h - t ELSE h - t + n
    BY Distance
  <1> DEFINE d == (h - t) % n
  <1> HIDE DEF d
  <1>3. d = IF t <= h THEN h - t ELSE h - t + n
    BY <1>2 DEF d
  <1>4. d = n - 1
    BY <1>1, <1>3
  <1> QED
    BY <1>4, Zenon DEF d

\* What a ring holds is a sequence; head = tail means that it is empty.
LEMMA HeldSeq ==
    ASSUME NEW B, NEW n \in Nat \ {0}, NEW buf \in [0 .. n - 1 -> B],
           NEW h \in 0 .. n - 1, NEW t \in 0 .. n - 1
    PROVE  /\ Held(buf, h, t, n) \in Seq(B)
           /\ Len(Held(buf, h, t, n)) = (h - t) % n
           /\ (h - t) % n \in 0 .. n - 1
           /\ Held(buf, h, t, n) = <<>> <=> h = t
  <1>1. (h - t) % n \in 0 .. n - 1 /\ ((h - t) % n = 0 <=> h = t)
    BY Distance
  <1>2. \A i \in 1 .. (h - t) % n : (t + i - 1) % n \in 0 .. n - 1
    BY <1>1, Slot
  <1>3. \A i \in 1 .. (h - t) % n : buf[(t + i - 1) % n] \in B
    BY <1>2
  <1>4. Held(buf, h, t, n) \in [1 .. (h - t) % n -> B]
    BY <1>3 DEF Held
  <1>5. Held(buf, h, t, n) \in Seq(B) /\ Len(Held(buf, h, t, n)) = (h - t) % n
    BY <1>1, <1>4, LenProperties, SeqDef
  <1> QED
    BY <1>1, <1>5, EmptySeq, SMT

\* A ring whose head and tail meet is empty.
LEMMA HeldEmpty ==
    ASSUME NEW B, NEW n, NEW buf, NEW h, IsRing(buf, h, h, n, B)
    PROVE  Held(buf, h, h, n) = <<>>
  <1> USE DEF IsRing
  <1>1. Held(buf, h, h, n) \in Seq(B)
    BY HeldSeq
  <1>2. Len(Held(buf, h, h, n)) = (h - h) % n
    BY HeldSeq
  <1>3. (h - h) % n = 0
    BY Distance
  <1> QED
    BY <1>1, <1>2, <1>3, EmptySeq

\* A ring that is not full has room for one more.
LEMMA HeldRoom ==
    ASSUME NEW B, NEW n, NEW buf, NEW h, NEW t, IsRing(buf, h, t, n, B), (h + 1) % n # t
    PROVE  Len(Held(buf, h, t, n)) < n - 1
  <1> USE DEF IsRing
  <1>1. Len(Held(buf, h, t, n)) = (h - t) % n
    BY HeldSeq
  <1>2. (h - t) % n < n - 1
    BY DistancePut
  <1> QED
    BY <1>1, <1>2

\* The byte stored at the head joins at the end.
THEOREM HeldPut ==
    ASSUME NEW B, NEW n, NEW buf, NEW h, NEW t, IsRing(buf, h, t, n, B), (h + 1) % n # t, NEW b \in B
    PROVE  Held(Stored(buf, h, b), (h + 1) % n, t, n) = Append(Held(buf, h, t, n), b)
  <1> USE DEF IsRing
  <1> DEFINE g == (h + 1) % n
             buf2 == Stored(buf, h, b)
             old == Held(buf, h, t, n)
             new == Held(buf2, g, t, n)
             len == (h - t) % n
             slot(i) == (t + i - 1) % n
  <1>1. g \in 0 .. n - 1 /\ (g - t) % n = len + 1 /\ len < n - 1
    BY DistancePut, Zenon
  <1>2. old \in Seq(B) /\ Len(old) = len /\ len \in 0 .. n - 1
    <2>1. old \in Seq(B)
      BY HeldSeq
    <2>2. Len(old) = len
      BY HeldSeq
    <2>3. len \in 0 .. n - 1
      BY Distance
    <2> QED
      BY <2>1, <2>2, <2>3
  <1>3. len = IF t <= h THEN h - t ELSE h - t + n
    BY Distance
  <1>4. buf2 \in [0 .. n - 1 -> B]
    BY DEF Stored
  <1> HIDE DEF g, buf2
  <1>5. new \in Seq(B) /\ Len(new) = (g - t) % n
    BY <1>1, <1>4, HeldSeq, SMTT(30)
  <1>6. /\ Append(old, b) \in Seq(B) /\ Len(Append(old, b)) = len + 1
        /\ \A i \in 1 .. len : Append(old, b)[i] = old[i]
        /\ Append(old, b)[len + 1] = b
    BY <1>2, AppendProperties
  <1> HIDE DEF len
  <1>7. ASSUME NEW i \in 1 .. len + 1 PROVE new[i] = Append(old, b)[i]
    <2>1. i \in 1 .. n
      BY <1>1, <1>2
    <2>2. slot(i) = IF t + i - 1 < n THEN t + i - 1 ELSE t + i - 1 - n
      BY <2>1, Slot
    <2>3. new[i] = buf2[slot(i)]
      BY <1>1 DEF Held
    <2>4. i \in 1 .. len => old[i] = buf[slot(i)]
      BY DEF Held, len
    <2> HIDE DEF slot, old, new
    <2>5. CASE i = len + 1
      <3>1. slot(i) = h
        BY <1>1, <1>2, <1>3, <2>2, <2>5
      <3> QED
        BY <1>6, <2>3, <2>5, <3>1 DEF buf2, Stored
    <2>6. CASE i # len + 1
      <3>1. i \in 1 .. len
        BY <1>2, <2>6
      <3>2. slot(i) \in 0 .. n - 1 /\ slot(i) # h
        BY <1>1, <1>2, <1>3, <2>1, <2>2, <3>1
      <3> QED
        BY <1>6, <2>3, <2>4, <3>1, <3>2 DEF buf2, Stored
    <2> QED
      BY <2>5, <2>6
  <1> HIDE DEF old, new
  <1>8. Len(new) = len + 1
    BY <1>1, <1>5
  <1>9. new = Append(old, b)
    BY <1>5, <1>6, <1>7, <1>8, SeqEqual
  <1> QED
    BY <1>9 DEF old, new, g, buf2

\* The byte at the tail is the first to leave.
THEOREM HeldGet ==
    ASSUME NEW B, NEW n, NEW buf, NEW h, NEW t, IsRing(buf, h, t, n, B), h # t
    PROVE  /\ Held(buf, h, t, n) # <<>>
           /\ Head(Held(buf, h, t, n)) = buf[t]
           /\ Held(buf, h, (t + 1) % n, n) = Tail(Held(buf, h, t, n))
  <1> USE DEF IsRing
  <1> DEFINE s == (t + 1) % n
             old == Held(buf, h, t, n)
             new == Held(buf, h, s, n)
             len == (h - t) % n
             slot(k, i) == (k + i - 1) % n
  <1>1. s \in 0 .. n - 1 /\ (h - s) % n = len - 1 /\ len > 0
    BY DistanceGet, Zenon
  <1>2. old \in Seq(B) /\ Len(old) = len /\ len \in 0 .. n - 1 /\ old # <<>>
    BY HeldSeq
  <1>3. s = IF t = n - 1 THEN 0 ELSE t + 1
    BY Wrap
  <1> HIDE DEF s
  <1>4. new \in Seq(B) /\ Len(new) = (h - s) % n
    <2>1. new \in Seq(B)
      BY <1>1, HeldSeq
    <2>2. s \in 0 .. n - 1
      BY <1>1
    <2>3. Len(new) = (h - s) % n
      BY <2>2, HeldSeq
    <2> QED
      BY <2>1, <2>3
  <1> HIDE DEF len
  <1>5. /\ Head(old) = old[1]
        /\ Tail(old) \in Seq(B) /\ Len(Tail(old)) = len - 1
        /\ \A i \in 1 .. Len(Tail(old)) : Tail(old)[i] = old[i + 1]
    BY <1>1, <1>2, HeadTailProperties
  <1>6. \A i \in 1 .. len : old[i] = buf[slot(t, i)]
    BY DEF Held, len
  <1>7. \A i \in 1 .. len - 1 : new[i] = buf[slot(s, i)]
    BY <1>1 DEF Held
  <1>8. \A k \in 0 .. n - 1 : \A i \in 1 .. n :
           slot(k, i) = IF k + i - 1 < n THEN k + i - 1 ELSE k + i - 1 - n
    BY Slot
  <1> HIDE DEF slot, old, new
  <1>9. Head(old) = buf[t]
    <2>1. 1 \in 1 .. len /\ slot(t, 1) = t
      BY <1>1, <1>2, <1>8
    <2> QED
      BY <1>5, <1>6, <2>1
  <1>10. ASSUME NEW i \in 1 .. len - 1 PROVE new[i] = Tail(old)[i]
    <2>1. i + 1 \in 1 .. len /\ i + 1 \in 1 .. n /\ i \in 1 .. n
      BY <1>1, <1>2
    <2>2. slot(s, i) = slot(t, i + 1)
      BY <1>1, <1>3, <1>8, <2>1
    <2> QED
      BY <1>5, <1>6, <1>7, <2>1, <2>2
  <1>11. Len(new) = len - 1
    BY <1>1, <1>4
  <1>12. new = Tail(old)
    BY <1>4, <1>5, <1>10, <1>11, SeqEqual
  <1> QED
    BY <1>2, <1>9, <1>12 DEF old, new, s
-----------------------------------------------------------------------------
(* Sequences *)

\* A sequence grown by one element.
LEMMA Grown ==
  ASSUME NEW S, NEW s \in Seq(S), NEW b \in S
  PROVE  /\ Append(s, b) \in Seq(S) /\ Len(Append(s, b)) = Len(s) + 1 /\ Append(s, b)[Len(s) + 1] = b
         /\ \A i \in 1 .. Len(s) : Append(s, b)[i] = s[i]
BY AppendProperties

\* f joins the first sequences of ss, one more at each index.
Joins(f, ss, n) == f = [i \in 1 .. n |-> IF i = 1 THEN ss[i] ELSE f[i - 1] \o ss[i]]

\* The recursive function of FlattenSeq exists.
LEMMA JoinsExists == ASSUME NEW ss, NEW n \in Nat PROVE \E f : Joins(f, ss, n)
<1> DEFINE T == {k \in 0 .. n : \E f : Joins(f, ss, k)}
<1>1. 0 \in T
  <2>1. Joins([i \in 1 .. 0 |-> 0], ss, 0) BY DEF Joins
  <2> QED BY <2>1
<1>2. ASSUME NEW k \in 0 .. n, k > 0, k - 1 \in T PROVE k \in T
  <2>1. PICK f : Joins(f, ss, k - 1) BY <1>2
  <2> DEFINE h == IF k = 1 THEN ss[k] ELSE f[k - 1] \o ss[k]
             g == [i \in 1 .. k |-> IF i = k THEN h ELSE f[i]]
  <2>2. \A i \in 1 .. k - 1 : f[i] = IF i = 1 THEN ss[i] ELSE f[i - 1] \o ss[i] BY <2>1 DEF Joins
  <2>3. ASSUME NEW i \in 1 .. k PROVE g[i] = IF i = 1 THEN ss[i] ELSE g[i - 1] \o ss[i]
    <3> HIDE DEF h
    <3>0. g[k] = h /\ \A j \in 1 .. k - 1 : g[j] = f[j] BY <1>2
    <3> HIDE DEF g
    <3>1. CASE i = k
      <4>1. CASE k = 1 BY <3>0, <3>1, <4>1 DEF h
      <4>2. CASE k # 1
        <5>1. k - 1 \in 1 .. k - 1 BY <1>2, <4>2
        <5> QED BY <3>0, <3>1, <4>2, <5>1 DEF h
      <4> QED BY <4>1, <4>2
    <3>2. CASE i # k
      <4>1. i \in 1 .. k - 1 BY <3>2
      <4>2. CASE i = 1 BY <2>2, <3>0, <4>1, <4>2
      <4>3. CASE i # 1
        <5>1. i - 1 \in 1 .. k - 1 BY <4>1, <4>3
        <5> QED BY <2>2, <3>0, <4>1, <4>3, <5>1
      <4> QED BY <4>2, <4>3
    <3> QED BY <3>1, <3>2
  <2> HIDE DEF h
  <2>4. DOMAIN g = 1 .. k /\ g = [i \in 1 .. k |-> g[i]] OBVIOUS
  <2> HIDE DEF g
  <2>5. g = [i \in 1 .. k |-> IF i = 1 THEN ss[i] ELSE g[i - 1] \o ss[i]] BY <2>3, <2>4
  <2>6. Joins(g, ss, k) BY <2>5 DEF Joins
  <2> QED BY <2>6
<1> HIDE DEF T
<1>3. n \in T BY <1>1, <1>2, UpTo
<1> QED BY <1>3 DEF T

\* What FlattenSeq makes of a sequence that is not empty.
LEMMA FlattenJoins ==
  ASSUME NEW ss, NEW n \in Nat, Len(ss) = n, n > 0
  PROVE  \E f : Joins(f, ss, n) /\ FlattenSeq(ss) = f[n]
<1> DEFINE fl == CHOOSE f : f = [i \in 1 .. Len(ss) |-> IF i = 1 THEN ss[i] ELSE f[i - 1] \o ss[i]]
<1>1. FlattenSeq(ss) = fl[Len(ss)] BY DEF FlattenSeq
<1>2. \E f : f = [i \in 1 .. Len(ss) |-> IF i = 1 THEN ss[i] ELSE f[i - 1] \o ss[i]]
  <2>1. \E f : Joins(f, ss, Len(ss)) BY JoinsExists
  <2> QED BY <2>1 DEF Joins
<1>3. fl = [i \in 1 .. Len(ss) |-> IF i = 1 THEN ss[i] ELSE fl[i - 1] \o ss[i]] BY <1>2
<1> HIDE DEF fl
<1>4. Joins(fl, ss, n) BY <1>3 DEF Joins
<1> QED BY <1>1, <1>4

\* One more sequence.
LEMMA FlattenAppend ==
  ASSUME NEW S, NEW ss \in Seq(Seq(S)), NEW t \in Seq(S)
  PROVE  FlattenSeq(Append(ss, t)) = FlattenSeq(ss) \o t
<1> DEFINE n == Len(ss)
           st == Append(ss, t)
<1>0. n \in Nat /\ Len(st) = n + 1 /\ st[n + 1] = t /\ \A i \in 1 .. n : st[i] = ss[i]
  BY AppendProperties
<1> HIDE DEF n, st
<1>1. PICK g : Joins(g, st, n + 1) /\ FlattenSeq(st) = g[n + 1]
  <2>1. n + 1 \in Nat /\ n + 1 > 0 BY <1>0
  <2> QED BY <1>0, <2>1, FlattenJoins
<1>2. \A i \in 1 .. n + 1 : g[i] = IF i = 1 THEN st[i] ELSE g[i - 1] \o st[i] BY <1>1 DEF Joins
<1>3. CASE n = 0
  <2>1. ss = <<>> BY <1>3 DEF n
  <2>2. FlattenSeq(ss) = <<>> BY <2>1 DEF FlattenSeq
  <2>3. g[n + 1] = t BY <1>0, <1>2, <1>3
  <2>4. <<>> \o t = t BY ConcatEmptySeq
  <2> QED BY <1>1, <2>2, <2>3, <2>4 DEF st
<1>4. CASE n # 0
  <2>1. PICK f : Joins(f, ss, n) /\ FlattenSeq(ss) = f[n] BY <1>0, <1>4, FlattenJoins DEF n
  <2>2. \A i \in 1 .. n : f[i] = IF i = 1 THEN ss[i] ELSE f[i - 1] \o ss[i] BY <2>1 DEF Joins
  <2> DEFINE T == {k \in 0 .. n : k = 0 \/ f[k] = g[k]}
  <2>3. 0 \in T BY <1>0
  <2>4. ASSUME NEW k \in 0 .. n, k > 0, k - 1 \in T PROVE k \in T
    <3>1. k \in 1 .. n /\ k \in 1 .. n + 1 BY <1>0, <2>4
    <3>2. f[k] = IF k = 1 THEN ss[k] ELSE f[k - 1] \o ss[k] BY <2>2, <3>1
    <3>3. g[k] = IF k = 1 THEN st[k] ELSE g[k - 1] \o st[k] BY <1>2, <3>1
    <3>4. st[k] = ss[k] BY <1>0, <3>1
    <3>5. k # 1 => f[k - 1] = g[k - 1] BY <2>4, <3>1
    <3> QED BY <3>2, <3>3, <3>4, <3>5
  <2> HIDE DEF T
  <2>5. n \in T BY <1>0, <2>3, <2>4, UpTo
  <2>6. f[n] = g[n] BY <1>4, <2>5 DEF T
  <2>7. g[n + 1] = g[n] \o t
    <3>1. n + 1 \in 1 .. n + 1 /\ n + 1 # 1 /\ (n + 1) - 1 = n BY <1>0, <1>4
    <3> QED BY <1>0, <1>2, <3>1
  <2> QED BY <1>1, <2>1, <2>6, <2>7 DEF st
<1> QED BY <1>3, <1>4

\* Nothing to join.
LEMMA FlattenEmpty == FlattenSeq(<<>>) = <<>>
BY DEF FlattenSeq

\* Prefixes of a sequence grow by its elements.
LEMMA PrefixGrows ==
  ASSUME NEW S, NEW s \in Seq(S), NEW k \in 1 .. Len(s)
  PROVE  SubSeq(s, 1, k) = Append(SubSeq(s, 1, k - 1), s[k]) /\ SubSeq(s, 1, k - 1) \in Seq(S) /\ s[k] \in S
<1>1. 1 \in 1 .. Len(s) /\ k \in 1 .. Len(s) OBVIOUS
<1>2. SubSeq(s, 1, k - 1) \in Seq(S) /\ s[k] \in S OBVIOUS
<1>3. SubSeq(s, 1, k) = SubSeq(s, 1, k - 1) \o <<s[k]>> BY <1>1, SubSeqRecursiveSecond
<1> QED BY <1>2, <1>3, AppendIsConcat

\* Joining makes a sequence.
LEMMA FlattenType == ASSUME NEW S, NEW ss \in Seq(Seq(S)) PROVE FlattenSeq(ss) \in Seq(S)
<1> DEFINE n == Len(ss)
           u(k) == SubSeq(ss, 1, k)
           T == {k \in 0 .. n : FlattenSeq(u(k)) \in Seq(S)}
<1>0. n \in Nat /\ ss = u(n) BY SubSeqFull
<1>1. 0 \in T
  <2>1. u(0) = <<>> /\ <<>> \in Seq(S) OBVIOUS
  <2>2. FlattenSeq(u(0)) \in Seq(S) BY <2>1, FlattenEmpty
  <2> QED BY <1>0, <2>2
<1>2. ASSUME NEW k \in 0 .. n, k > 0, k - 1 \in T PROVE k \in T
  <2>1. k \in 1 .. Len(ss) BY <1>0, <1>2
  <2>2. u(k) = Append(u(k - 1), ss[k]) /\ u(k - 1) \in Seq(Seq(S)) /\ ss[k] \in Seq(S) BY <2>1, PrefixGrows
  <2>3. FlattenSeq(u(k - 1)) \in Seq(S) BY <1>2
  <2> HIDE DEF u
  <2>4. FlattenSeq(u(k)) = FlattenSeq(u(k - 1)) \o ss[k] BY <2>2, FlattenAppend
  <2>5. FlattenSeq(u(k)) \in Seq(S) BY <2>2, <2>3, <2>4, ConcatProperties
  <2> QED BY <2>5
<1> HIDE DEF T, n, u
<1>3. n \in T BY <1>0, <1>1, <1>2, UpTo
<1> QED BY <1>0, <1>3 DEF T

\* An element appended to the second part is appended to the whole.
LEMMA ConcatAppend ==
  ASSUME NEW S, NEW s \in Seq(S), NEW t \in Seq(S), NEW e \in S
  PROVE  s \o Append(t, e) = Append(s \o t, e)
<1> DEFINE w == <<e>>
<1>1. w \in Seq(S) OBVIOUS
<1>2. Append(t, e) = t \o w BY AppendIsConcat
<1>3. s \o t \in Seq(S) BY ConcatProperties
<1>4. Append(s \o t, e) = (s \o t) \o w BY <1>3, AppendIsConcat
<1> HIDE DEF w
<1>5. (s \o t) \o w = s \o (t \o w) BY <1>1, ConcatAssociative
<1> QED BY <1>2, <1>4, <1>5

\* Joining in two parts.
LEMMA FlattenConcat ==
  ASSUME NEW S, NEW ss \in Seq(Seq(S)), NEW tt \in Seq(Seq(S))
  PROVE  FlattenSeq(ss \o tt) = FlattenSeq(ss) \o FlattenSeq(tt)
<1> DEFINE n == Len(tt)
           u(k) == SubSeq(tt, 1, k)
           R(k) == FlattenSeq(ss \o u(k)) = FlattenSeq(ss) \o FlattenSeq(u(k))
           T == {k \in 0 .. n : R(k)}
<1>0. n \in Nat /\ tt = u(n) BY SubSeqFull
<1>t. FlattenSeq(ss) \in Seq(S) BY FlattenType
<1>1. 0 \in T
  <2>1. u(0) = <<>> OBVIOUS
  <2>2. ss \o u(0) = ss BY <2>1, ConcatEmptySeq
  <2>3. FlattenSeq(u(0)) = <<>> BY <2>1, FlattenEmpty
  <2>4. FlattenSeq(ss) \o <<>> = FlattenSeq(ss) BY <1>t, ConcatEmptySeq
  <2>5. R(0) BY <2>2, <2>3, <2>4
  <2> QED BY <1>0, <2>5
<1>2. ASSUME NEW k \in 0 .. n, k > 0, k - 1 \in T PROVE k \in T
  <2>1. k \in 1 .. Len(tt) BY <1>0, <1>2
  <2>2. u(k) = Append(u(k - 1), tt[k]) /\ u(k - 1) \in Seq(Seq(S)) /\ tt[k] \in Seq(S) BY <2>1, PrefixGrows
  <2>3. R(k - 1) BY <1>2
  <2> HIDE DEF u
  <2> DEFINE v == u(k - 1)
             t == tt[k]
  <2>4. v \in Seq(Seq(S)) /\ t \in Seq(S) /\ u(k) = Append(v, t) /\ FlattenSeq(ss \o v) = FlattenSeq(ss) \o FlattenSeq(v)
    BY <2>2, <2>3
  <2> HIDE DEF v, t
  <2>5. ss \o v \in Seq(Seq(S)) BY <2>4, ConcatProperties
  <2>6. ss \o u(k) = Append(ss \o v, t)
    <3> DEFINE Q == Seq(S)
    <3>1. ss \in Seq(Q) OBVIOUS
    <3>2. v \in Seq(Q) BY <2>4
    <3>3. t \in Q BY <2>4
    <3> HIDE DEF Q
    <3>4. ss \o Append(v, t) = Append(ss \o v, t) BY <3>1, <3>2, <3>3, ConcatAppend, SMTT(60)
    <3> QED BY <2>4, <3>4
  <2>7. FlattenSeq(v) \in Seq(S) BY <2>4, FlattenType
  <2>8. FlattenSeq(u(k)) = FlattenSeq(v) \o t BY <2>4, FlattenAppend
  <2>9. FlattenSeq(ss \o u(k)) = (FlattenSeq(ss) \o FlattenSeq(v)) \o t BY <2>4, <2>5, <2>6, FlattenAppend
  <2>10. (FlattenSeq(ss) \o FlattenSeq(v)) \o t = FlattenSeq(ss) \o (FlattenSeq(v) \o t)
    <3>1. t \in Seq(S) BY <2>4
    <3> QED BY <1>t, <3>1, <2>7, ConcatAssociative, SMTT(60)
  <2>11. R(k) BY <2>8, <2>9, <2>10
  <2> QED BY <2>11
<1> HIDE DEF T, n, u
<1>3. n \in T BY <1>0, <1>1, <1>2, UpTo
<1> QED BY <1>0, <1>3 DEF T

\* Nothing joined is nothing.
LEMMA FlattenNone ==
  ASSUME NEW S, NEW ss \in Seq(Seq(S)), \A i \in 1 .. Len(ss) : ss[i] = <<>>
  PROVE  FlattenSeq(ss) = <<>>
<1> DEFINE n == Len(ss)
           u(k) == SubSeq(ss, 1, k)
           T == {k \in 0 .. n : FlattenSeq(u(k)) = <<>>}
<1>0. n \in Nat /\ ss = u(n) BY SubSeqFull
<1>1. 0 \in T
  <2>1. u(0) = <<>> OBVIOUS
  <2>2. FlattenSeq(u(0)) = <<>> BY <2>1, FlattenEmpty
  <2> QED BY <1>0, <2>2
<1>2. ASSUME NEW k \in 0 .. n, k > 0, k - 1 \in T PROVE k \in T
  <2>1. k \in 1 .. Len(ss) BY <1>0, <1>2
  <2>2. u(k) = Append(u(k - 1), ss[k]) /\ u(k - 1) \in Seq(Seq(S)) /\ ss[k] \in Seq(S) BY <2>1, PrefixGrows
  <2>3. FlattenSeq(u(k - 1)) = <<>> BY <1>2
  <2> HIDE DEF u
  <2>4. FlattenSeq(u(k)) = FlattenSeq(u(k - 1)) \o ss[k] BY <2>2, FlattenAppend
  <2>5. ss[k] = <<>> BY <2>1
  <2>6. <<>> \o <<>> = <<>> OBVIOUS
  <2>7. FlattenSeq(u(k)) = <<>> BY <2>3, <2>4, <2>5, <2>6
  <2> QED BY <2>7
<1> HIDE DEF T, n, u
<1>3. n \in T BY <1>0, <1>1, <1>2, UpTo
<1> QED BY <1>0, <1>3 DEF T

\* The elements joined are the sequence.
LEMMA FlattenOnes ==
  ASSUME NEW S, NEW s \in Seq(S), NEW ss \in Seq(Seq(S)), Len(ss) = Len(s),
         \A i \in 1 .. Len(s) : ss[i] = <<s[i]>>
  PROVE  FlattenSeq(ss) = s
<1> DEFINE n == Len(ss)
           u(k) == SubSeq(ss, 1, k)
           v(k) == SubSeq(s, 1, k)
           T == {k \in 0 .. n : FlattenSeq(u(k)) = v(k)}
<1>0. n \in Nat /\ ss = u(n) /\ s = v(n) BY SubSeqFull
<1>1. 0 \in T
  <2>1. u(0) = <<>> /\ v(0) = <<>> OBVIOUS
  <2>2. FlattenSeq(u(0)) = v(0) BY <2>1, FlattenEmpty
  <2> QED BY <1>0, <2>2
<1>2. ASSUME NEW k \in 0 .. n, k > 0, k - 1 \in T PROVE k \in T
  <2>1. k \in 1 .. Len(ss) /\ k \in 1 .. Len(s) BY <1>0, <1>2
  <2>2. u(k) = Append(u(k - 1), ss[k]) /\ u(k - 1) \in Seq(Seq(S)) /\ ss[k] \in Seq(S) BY <2>1, PrefixGrows
  <2>3. v(k) = Append(v(k - 1), s[k]) /\ v(k - 1) \in Seq(S) /\ s[k] \in S BY <2>1, PrefixGrows
  <2>4. FlattenSeq(u(k - 1)) = v(k - 1) BY <1>2
  <2> HIDE DEF u, v
  <2>5. FlattenSeq(u(k)) = FlattenSeq(u(k - 1)) \o ss[k] BY <2>2, FlattenAppend
  <2>6. ss[k] = <<s[k]>> BY <2>1
  <2>7. v(k) = v(k - 1) \o <<s[k]>> BY <2>3, AppendIsConcat
  <2>8. FlattenSeq(u(k)) = v(k) BY <2>4, <2>5, <2>6, <2>7
  <2> QED BY <2>8
<1> HIDE DEF T, n, u, v
<1>3. n \in T BY <1>0, <1>1, <1>2, UpTo
<1> QED BY <1>0, <1>3 DEF T

\* A pair put behind a sequence.
LEMMA PairBehind ==
  ASSUME NEW S, NEW f \in Seq(S), NEW t \in Seq(S), Len(t) = 2
  PROVE  /\ f \o t \in Seq(S) /\ Len(f \o t) = Len(f) + 2
         /\ (f \o t)[Len(f) + 1] = t[1] /\ (f \o t)[Len(f) + 2] = t[2]
         /\ \A i \in 1 .. Len(f) : (f \o t)[i] = f[i]
<1>1. Len(f) \in Nat /\ Len(t) = 2 BY LenProperties
<1>2. /\ f \o t \in Seq(S)
      /\ Len(f \o t) = Len(f) + Len(t)
      /\ \A i \in 1 .. Len(f) + Len(t) : (f \o t)[i] = IF i <= Len(f) THEN f[i] ELSE t[i - Len(f)]
  BY ConcatProperties
<1> DEFINE g == f \o t
           n == Len(f)
<1>3. /\ n \in Nat /\ Len(g) = n + 2
      /\ \A i \in 1 .. n + 2 : g[i] = IF i <= n THEN f[i] ELSE t[i - n]
  BY <1>1, <1>2
<1> HIDE DEF g, n
<1>4. g[n + 1] = t[1] /\ g[n + 2] = t[2] /\ \A i \in 1 .. n : g[i] = f[i] BY <1>3
<1> QED BY <1>2, <1>3, <1>4 DEF g, n

\* Pairs joined.
LEMMA FlattenPairs ==
  ASSUME NEW S, NEW ss \in Seq(Seq(S)), \A i \in 1 .. Len(ss) : Len(ss[i]) = 2
  PROVE  /\ FlattenSeq(ss) \in Seq(S) /\ Len(FlattenSeq(ss)) = 2 * Len(ss)
         /\ \A i \in 1 .. Len(ss) : FlattenSeq(ss)[2 * i - 1] = ss[i][1] /\ FlattenSeq(ss)[2 * i] = ss[i][2]
<1> DEFINE n == Len(ss)
           u(k) == SubSeq(ss, 1, k)
           F(k) == FlattenSeq(u(k))
           R(k) == /\ F(k) \in Seq(S) /\ Len(F(k)) = 2 * k
                   /\ \A i \in 1 .. k : F(k)[2 * i - 1] = ss[i][1] /\ F(k)[2 * i] = ss[i][2]
           T == {k \in 0 .. n : R(k)}
<1>0. n \in Nat /\ ss = u(n) BY SubSeqFull
<1>1. 0 \in T
  <2>1. u(0) = <<>> OBVIOUS
  <2>2. F(0) = <<>> BY <2>1, FlattenEmpty
  <2> HIDE DEF F
  <2>3. F(0) \in Seq(S) /\ Len(F(0)) = 0 BY <2>2, EmptySeq
  <2>4. R(0) BY <2>3
  <2> QED BY <1>0, <2>4
<1>2. ASSUME NEW k \in 0 .. n, k > 0, k - 1 \in T PROVE k \in T
  <2>1. k \in 1 .. Len(ss) BY <1>0, <1>2
  <2>2. u(k) = Append(u(k - 1), ss[k]) /\ u(k - 1) \in Seq(Seq(S)) /\ ss[k] \in Seq(S) BY <2>1, PrefixGrows
  <2>3. R(k - 1) BY <1>2
  <2>4. Len(ss[k]) = 2 BY <2>1
  <2> DEFINE f == F(k - 1)
             g == F(k)
             t == ss[k]
  <2>5. g = f \o t
    <3> HIDE DEF u
    <3> QED BY <2>2, FlattenAppend
  <2>6. /\ f \in Seq(S) /\ Len(f) = 2 * (k - 1)
        /\ \A i \in 1 .. k - 1 : f[2 * i - 1] = ss[i][1] /\ f[2 * i] = ss[i][2]
    BY <2>3
  <2>7. t \in Seq(S) /\ Len(t) = 2 BY <2>2, <2>4
  <2>8. k \in Nat /\ k >= 1 BY <2>1, <1>0
  <2> HIDE DEF f, g
  <2> HIDE DEF t
  <2>j. /\ g \in Seq(S) /\ Len(g) = Len(f) + 2
        /\ g[Len(f) + 1] = t[1] /\ g[Len(f) + 2] = t[2]
        /\ \A i \in 1 .. Len(f) : g[i] = f[i]
    <3>1. f \in Seq(S) /\ t \in Seq(S) /\ Len(t) = 2 BY <2>6, <2>7
    <3>2. /\ f \o t \in Seq(S) /\ Len(f \o t) = Len(f) + 2
          /\ (f \o t)[Len(f) + 1] = t[1] /\ (f \o t)[Len(f) + 2] = t[2]
          /\ \A i \in 1 .. Len(f) : (f \o t)[i] = f[i]
      BY <3>1, PairBehind
    <3> QED BY <2>5, <3>2
  <2>9. g \in Seq(S) /\ Len(g) = 2 * k BY <2>6, <2>8, <2>j
  <2>10. ASSUME NEW i \in 1 .. k PROVE g[2 * i - 1] = ss[i][1] /\ g[2 * i] = ss[i][2]
    <3>1. CASE i = k
      <4>1. 2 * i - 1 = Len(f) + 1 /\ 2 * i = Len(f) + 2 BY <3>1, <2>6, <2>8
      <4> QED BY <3>1, <4>1, <2>j DEF t
    <3>2. CASE i < k
      <4>1. i \in 1 .. k - 1 /\ 2 * i - 1 \in 1 .. Len(f) /\ 2 * i \in 1 .. Len(f) BY <3>2, <2>6, <2>8
      <4> QED BY <4>1, <2>j, <2>6
    <3> QED BY <3>1, <3>2, <2>8
  <2>11. R(k) BY <2>9, <2>10 DEF f, g
  <2> QED BY <2>11
<1> HIDE DEF T, n, u
<1>3. n \in T BY <1>0, <1>1, <1>2, UpTo
<1>4. R(n) BY <1>3 DEF T
<1> QED BY <1>0, <1>4 DEF n, u
=============================================================================
