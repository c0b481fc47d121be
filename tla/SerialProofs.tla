---------------------------- MODULE SerialProofs ----------------------------
(***************************************************************************)
(* The host's programs on a serial line, for every stream, every file and  *)
(* every buffer: the testers are faithful, the files PIP is fed with are   *)
(* whole, the bridges keep every stream however it is cut into pieces, and *)
(* the console scripts report what they have written or started.           *)
(*                                                                         *)
(* The programs share no variable, so each has its own invariant:          *)
(* MonitorInv, TeeInv, SmokeInv, FeedInv, BridgeInv and ScriptsInv.  The   *)
(* last part puts them together for the specification of the run.          *)
(***************************************************************************)
EXTENDS MCHostPrograms, ConsoleScriptsProofs

-----------------------------------------------------------------------------
(* The counters of ThroughputMonitor *)

Counters == [Dir -> Nat]

\* What is counted is in the counters, in the thread's hand or in a line.
MonitorInv ==
    /\ count \in Counters /\ csv \in Counters /\ added \in Counters
    /\ hand = None \/ hand \in Counters
    /\ NothingUncounted

\* Before the first byte all counters are zero.
LEMMA MonitorStarts == ASSUME NEW t, MonitorStart(t) PROVE MonitorInv
BY DEF MonitorStart, MonitorInv, Counters, Zero, NothingUncounted

\* An empty hand is told from one that holds counters.
LEMMA NoneIsNot == ASSUME NEW h \in Counters PROVE h # None
<1>1. DOMAIN h = Dir /\ DOMAIN None = {} BY DEF Counters, None
<1> QED BY <1>1 DEF Dir

\* Adding moves both sides by the same amount; _run moves what is counted from the
\* counters to its hand and from there to a line, and loses none.
LEMMA MonitorKeeps == ASSUME MonitorInv, [MonitorNext]_monitorVars PROVE MonitorInv'
<1> USE DEF MonitorInv
<1>1. CASE start \/ stop \/ UNCHANGED monitorVars
  BY <1>1 DEF start, stop, monitorVars, NothingUncounted
<1>2. ASSUME NEW d \in Dir, NEW n \in 1 .. 2, add(d, n) PROVE MonitorInv'
  <2>1. /\ count' = [count EXCEPT ![d] = @ + n] /\ added' = [added EXCEPT ![d] = @ + n]
        /\ UNCHANGED <<hand, csv>>
    BY <1>2 DEF add
  <2>2. count' \in Counters /\ added' \in Counters BY <2>1 DEF Counters
  <2>3. ASSUME NEW e \in Dir
        PROVE  csv'[e] + count'[e] + (IF hand' = None THEN 0 ELSE hand'[e]) = added'[e]
    <3>1. csv[e] + count[e] + (IF hand = None THEN 0 ELSE hand[e]) = added[e] BY DEF NothingUncounted
    <3>2. csv[e] \in Nat /\ count[e] \in Nat /\ added[e] \in Nat /\ (hand = None \/ hand[e] \in Nat)
      BY DEF Counters
    <3> QED BY <2>1, <3>1, <3>2 DEF Counters
  <2> QED BY <2>1, <2>2, <2>3 DEF NothingUncounted
<1>3. CASE Run
  <2>0. UNCHANGED added BY <1>3 DEF Run
  <2>1. CASE hand = None
    <3>1. hand' = count /\ count' = Zero /\ csv' = csv BY <1>3, <2>1 DEF Run
    <3>2. hand' \in Counters /\ count' \in Counters BY <3>1 DEF Counters, Zero
    <3>3. hand' # None BY <3>1, <3>2, NoneIsNot
    <3>4. ASSUME NEW e \in Dir
          PROVE  csv'[e] + count'[e] + (IF hand' = None THEN 0 ELSE hand'[e]) = added'[e]
      <4>1. csv[e] + count[e] = added[e] /\ csv[e] \in Nat /\ count[e] \in Nat
        BY <2>1 DEF NothingUncounted, Counters
      <4> QED BY <2>0, <3>1, <3>3, <4>1 DEF Zero
    <3> QED BY <2>0, <3>1, <3>2, <3>4 DEF NothingUncounted
  <2>2. CASE hand # None
    <3>1. csv' = [d \in Dir |-> csv[d] + hand[d]] /\ hand' = None /\ count' = count BY <1>3, <2>2 DEF Run
    <3>2. csv' \in Counters BY <2>2, <3>1 DEF Counters
    <3>3. ASSUME NEW e \in Dir
          PROVE  csv'[e] + count'[e] + (IF hand' = None THEN 0 ELSE hand'[e]) = added'[e]
      <4>1. csv[e] + count[e] + hand[e] = added[e] /\ csv[e] \in Nat /\ count[e] \in Nat /\ hand[e] \in Nat
        BY <2>2 DEF NothingUncounted, Counters
      <4> QED BY <2>0, <3>1, <4>1
    <3> QED BY <2>0, <3>1, <3>2, <3>3 DEF NothingUncounted
  <2> QED BY <2>1, <2>2
<1> QED BY <1>1, <1>2, <1>3 DEF MonitorNext

-----------------------------------------------------------------------------
(* The two threads of sio_tee.py *)

\* The n numbers behind d.
From(d, n) == [i \in 1 .. n |-> d + i]

PumpPcs == {"recv", "send", "log", "shutdown", "end"}

TeeTypes ==
    /\ nsent \in [End -> Nat] /\ pumpPc \in [End -> PumpPcs]
    /\ arrived \in [End -> Seq(Nat)] /\ chunk \in [End -> Seq(Nat)]
    /\ delivered \in [End -> Seq(Nat)] /\ logged \in [End -> Seq(Nat)]

\* Bytes are numbered: d of them have been sent on, the chunk in hand comes next,
\* then what has arrived.  Once the thread has left its loop, what is not in the log is
\* the part of its last chunk that was sent on.
Pumped(s) ==
    /\ delivered[s] = From(0, Len(delivered[s]))
    /\ pumpPc[s] \in {"recv", "send"} => logged[s] = delivered[s]
    /\ pumpPc[s] = "recv" => chunk[s] = <<>>
    /\ pumpPc[s] = "log" => delivered[s] = logged[s] \o chunk[s]
    /\ pumpPc[s] \in {"shutdown", "end"} =>
          \E t, u \in Seq(Nat) : delivered[s] = logged[s] \o t /\ chunk[s] = t \o u
    /\ pumpPc[s] \in {"recv", "log"} =>
          /\ arrived[s] = From(Len(delivered[s]), Len(arrived[s]))
          /\ nsent[s] = Len(delivered[s]) + Len(arrived[s])
    /\ pumpPc[s] = "send" =>
          /\ chunk[s] = From(Len(delivered[s]), Len(chunk[s]))
          /\ arrived[s] = From(Len(delivered[s]) + Len(chunk[s]), Len(arrived[s]))
          /\ nsent[s] = Len(delivered[s]) + Len(chunk[s]) + Len(arrived[s])

TeeInv == TeeTypes /\ \A s \in End : Pumped(s)

\* Numbers in a row: what they are, split and put together.
LEMMA FromIs ==
  ASSUME NEW d \in Nat, NEW n \in Nat
  PROVE  From(d, n) \in Seq(Nat) /\ Len(From(d, n)) = n /\ \A i \in 1 .. n : From(d, n)[i] = d + i
<1>1. From(d, n) \in [1 .. n -> Nat] BY DEF From
<1> QED BY <1>1 DEF From

\* A run of numbers is its first part and the rest.
LEMMA FromSplit ==
  ASSUME NEW d \in Nat, NEW n \in Nat, NEW k \in 0 .. n
  PROVE  /\ SubSeq(From(d, n), 1, k) = From(d, k)
         /\ SubSeq(From(d, n), k + 1, n) = From(d + k, n - k)
<1>1. From(d, n) \in Seq(Nat) /\ Len(From(d, n)) = n /\ \A i \in 1 .. n : From(d, n)[i] = d + i BY FromIs
<1> DEFINE f == From(d, n)
           a == SubSeq(f, 1, k)
           b == SubSeq(f, k + 1, n)
<1> HIDE DEF f
<1>2. /\ a \in Seq(Nat) /\ Len(a) = k /\ \A i \in 1 .. k : a[i] = d + i
  BY <1>1 DEF f
<1>3. /\ b \in Seq(Nat) /\ Len(b) = n - k /\ \A i \in 1 .. n - k : b[i] = d + k + i
  BY <1>1 DEF f
<1>4. a = From(d, k)
  <2>1. From(d, k) \in Seq(Nat) /\ Len(From(d, k)) = k /\ \A i \in 1 .. k : From(d, k)[i] = d + i BY FromIs
  <2> HIDE DEF a
  <2> QED BY <1>2, <2>1, SeqEqual
<1>5. b = From(d + k, n - k)
  <2>0. d + k \in Nat /\ n - k \in Nat OBVIOUS
  <2>1. /\ From(d + k, n - k) \in Seq(Nat) /\ Len(From(d + k, n - k)) = n - k
        /\ \A i \in 1 .. n - k : From(d + k, n - k)[i] = d + k + i
    BY <2>0, FromIs
  <2> HIDE DEF b
  <2> QED BY <1>3, <2>1, SeqEqual
<1> QED BY <1>4, <1>5 DEF f

\* Two runs, the second where the first ends, are one.
LEMMA FromJoin ==
  ASSUME NEW d \in Nat, NEW n \in Nat, NEW m \in Nat
  PROVE  From(d, n) \o From(d + n, m) = From(d, n + m)
<1>1. From(d, n) \in Seq(Nat) /\ Len(From(d, n)) = n /\ \A i \in 1 .. n : From(d, n)[i] = d + i BY FromIs
<1>2. /\ From(d + n, m) \in Seq(Nat) /\ Len(From(d + n, m)) = m
      /\ \A i \in 1 .. m : From(d + n, m)[i] = d + n + i
  <2>0. d + n \in Nat OBVIOUS
  <2> QED BY <2>0, FromIs
<1>3. /\ From(d, n + m) \in Seq(Nat) /\ Len(From(d, n + m)) = n + m
      /\ \A i \in 1 .. n + m : From(d, n + m)[i] = d + i
  <2>0. n + m \in Nat OBVIOUS
  <2> QED BY <2>0, FromIs
<1> DEFINE a == From(d, n)
           b == From(d + n, m)
           c == From(d, n + m)
           ab == a \o b
<1> HIDE DEF a, b, c
<1>4. ab \in Seq(Nat) /\ Len(ab) = n + m /\ \A i \in 1 .. n + m : ab[i] = d + i
  <2>1. a \in Seq(Nat) /\ Len(a) = n /\ \A i \in 1 .. n : a[i] = d + i BY <1>1 DEF a
  <2>2. b \in Seq(Nat) /\ Len(b) = m /\ \A i \in 1 .. m : b[i] = d + n + i BY <1>2 DEF b
  <2>3. ab \in Seq(Nat) /\ Len(ab) = n + m
    BY <2>1, <2>2, ConcatProperties
  <2>4. ASSUME NEW i \in 1 .. n + m PROVE ab[i] = d + i
    <3>0. ab[i] = IF i <= n THEN a[i] ELSE b[i - n] BY <2>1, <2>2, ConcatProperties
    <3>1. CASE i <= n
      <4>1. i \in 1 .. n BY <3>1
      <4> QED BY <3>0, <3>1, <4>1, <2>1
    <3>2. CASE ~(i <= n)
      <4>1. i - n \in 1 .. m /\ d + n + (i - n) = d + i BY <3>2
      <4> QED BY <3>0, <3>2, <4>1, <2>2
    <3> QED BY <3>1, <3>2
  <2> QED BY <2>3, <2>4
<1> HIDE DEF ab
<1>5. ab = c BY <1>3, <1>4, SeqEqual DEF c
<1> QED BY <1>5 DEF ab, a, b, c

\* The next number.
LEMMA FromNext ==
  ASSUME NEW d \in Nat, NEW n \in Nat
  PROVE  Append(From(d, n), d + n + 1) = From(d, n + 1)
<1>1. From(d, n) \in Seq(Nat) /\ Len(From(d, n)) = n /\ \A i \in 1 .. n : From(d, n)[i] = d + i BY FromIs
<1>2. /\ From(d, n + 1) \in Seq(Nat) /\ Len(From(d, n + 1)) = n + 1
      /\ \A i \in 1 .. n + 1 : From(d, n + 1)[i] = d + i
  <2>0. n + 1 \in Nat OBVIOUS
  <2> QED BY <2>0, FromIs
<1> DEFINE a == Append(From(d, n), d + n + 1)
<1>3. a \in Seq(Nat) /\ Len(a) = n + 1 /\ \A i \in 1 .. n + 1 : a[i] = d + i
  BY <1>1
<1> HIDE DEF a
<1>4. a = From(d, n + 1) BY <1>2, <1>3, SeqEqual
<1> QED BY <1>4 DEF a

\* Nothing has been sent, read or logged.
LEMMA TeeStarts == ASSUME NEW t, TeeStart(t) PROVE TeeInv
<1>1. TeeTypes BY DEF TeeStart, TeeTypes, PumpPcs
<1>2. From(0, 0) = <<>>
  <2>1. From(0, 0) \in Seq(Nat) /\ Len(From(0, 0)) = 0 BY FromIs
  <2> QED BY <2>1
<1>3. ASSUME NEW s \in End PROVE Pumped(s)
  <2>1. /\ arrived[s] = <<>> /\ nsent[s] = 0 /\ delivered[s] = <<>> /\ logged[s] = <<>>
        /\ pumpPc[s] \in {"recv", "end"} /\ chunk[s] = <<>>
    BY DEF TeeStart
  <2>2. Len(<<>>) = 0 /\ <<>> \in Seq(Nat) /\ <<>> \o <<>> = <<>> OBVIOUS
  <2>3. \E v, u \in Seq(Nat) : delivered[s] = logged[s] \o v /\ chunk[s] = v \o u BY <2>1, <2>2
  <2> QED BY <1>2, <2>1, <2>2, <2>3 DEF Pumped
<1> QED BY <1>1, <1>3 DEF TeeInv

\* A step of one direction leaves the other alone.
LEMMA OtherPump ==
  ASSUME NEW e \in End, Pumped(e), arrived'[e] = arrived[e], nsent'[e] = nsent[e], pumpPc'[e] = pumpPc[e],
         chunk'[e] = chunk[e], delivered'[e] = delivered[e], logged'[e] = logged[e]
  PROVE  Pumped(e)'
BY DEF Pumped

\* A step of one pump keeps what it holds in step with what it has sent and logged, and
\* leaves the other one's alone.
LEMMA PumpKeeps == ASSUME TeeInv, NEW s \in End, Pump(s) PROVE TeeInv'
<1> DEFINE d == Len(delivered[s])
           a == Len(arrived[s])
           c == Len(chunk[s])
<1>0. /\ TeeTypes /\ Pumped(s) /\ arrived[s] \in Seq(Nat) /\ chunk[s] \in Seq(Nat) /\ delivered[s] \in Seq(Nat)
      /\ logged[s] \in Seq(Nat) /\ d \in Nat /\ a \in Nat /\ c \in Nat
      /\ d = Len(delivered[s]) /\ a = Len(arrived[s]) /\ c = Len(chunk[s])
  BY DEF TeeInv, TeeTypes
<1> HIDE DEF d, a, c
<1>n. d \in Nat /\ a \in Nat /\ c \in Nat BY <1>0
<1>1. ASSUME NEW k \in 0 .. a, PumpRecv(s, k) PROVE TeeInv'
  <2>0. UNCHANGED <<nsent, delivered, logged>> /\ pumpPc[s] = "recv" BY <1>1 DEF PumpRecv
  <2>a. arrived[s] = From(d, a) /\ nsent[s] = d + a /\ logged[s] = delivered[s] /\ chunk[s] = <<>>
    BY <1>0, <2>0 DEF Pumped
  <2>1. CASE k > 0
    <3>1. /\ chunk' = [chunk EXCEPT ![s] = SubSeq(arrived[s], 1, k)]
          /\ arrived' = [arrived EXCEPT ![s] = SubSeq(arrived[s], k + 1, a)]
          /\ pumpPc' = [pumpPc EXCEPT ![s] = "send"]
      BY <1>0, <1>1, <2>1 DEF PumpRecv
    <3>2. SubSeq(arrived[s], 1, k) = From(d, k) /\ SubSeq(arrived[s], k + 1, a) = From(d + k, a - k)
      <4>1. SubSeq(From(d, a), 1, k) = From(d, k) /\ SubSeq(From(d, a), k + 1, a) = From(d + k, a - k)
        BY <1>0, FromSplit
      <4> QED BY <4>1, <2>a
    <3>3. /\ From(d, k) \in Seq(Nat) /\ Len(From(d, k)) = k
          /\ From(d + k, a - k) \in Seq(Nat) /\ Len(From(d + k, a - k)) = a - k
      <4>1. k \in Nat /\ d + k \in Nat /\ a - k \in Nat BY <1>0
      <4> QED BY <1>0, <4>1, FromIs
    <3>4. chunk'[s] = From(d, k) /\ arrived'[s] = From(d + k, a - k) /\ pumpPc'[s] = "send"
      BY <1>0, <3>1, <3>2 DEF TeeTypes
    <3>5. TeeTypes' BY <1>0, <2>0, <3>1, <3>2, <3>3 DEF TeeTypes, PumpPcs
    <3>6. Pumped(s)'
      <4>1. Len(chunk'[s]) = k /\ Len(arrived'[s]) = a - k BY <3>3, <3>4
      <4>2. nsent'[s] = d + k + (a - k)
        <5>1. nsent'[s] = d + a BY <2>0, <2>a
        <5> QED BY <1>n, <5>1
      <4>3. delivered'[s] = From(0, d) /\ d = Len(delivered'[s]) BY <1>0, <2>0 DEF Pumped
      <4> QED BY <2>0, <2>a, <3>4, <4>1, <4>2, <4>3 DEF Pumped
    <3>7. ASSUME NEW e \in End, e # s PROVE Pumped(e)'
      <4>1. Pumped(e) BY DEF TeeInv
      <4> QED BY <4>1, <1>0, <2>0, <3>1, <3>7, OtherPump DEF TeeTypes
    <3> QED BY <3>5, <3>6, <3>7 DEF TeeInv
  <2>2. CASE k = 0
    <3>1. pumpPc' = [pumpPc EXCEPT ![s] = "shutdown"] /\ UNCHANGED <<chunk, arrived>>
      BY <1>1, <2>2 DEF PumpRecv
    <3>2. TeeTypes' BY <1>0, <2>0, <3>1 DEF TeeTypes, PumpPcs
    <3>3. pumpPc'[s] = "shutdown" BY <1>0, <3>1 DEF TeeTypes
    <3>4. Pumped(s)'
      <4>1. <<>> \in Seq(Nat) /\ logged[s] \o <<>> = logged[s] /\ <<>> \o <<>> = <<>> BY <1>0, ConcatEmptySeq
      <4>2. \E t, u \in Seq(Nat) : delivered'[s] = logged'[s] \o t /\ chunk'[s] = t \o u BY <2>0, <2>a, <3>1, <4>1
      <4> QED BY <1>0, <2>0, <3>3, <4>2 DEF Pumped
    <3>5. ASSUME NEW e \in End, e # s PROVE Pumped(e)'
      <4>1. Pumped(e) BY DEF TeeInv
      <4> QED BY <4>1, <1>0, <2>0, <3>1, <3>5, OtherPump DEF TeeTypes
    <3> QED BY <3>2, <3>4, <3>5 DEF TeeInv
  <2> QED BY <2>1, <2>2, <1>0
<1>2. CASE PumpSend(s)
  <2>0. UNCHANGED <<arrived, nsent, chunk, logged>> /\ pumpPc[s] = "send" BY <1>2 DEF PumpSend
  <2>a. /\ chunk[s] = From(d, c) /\ arrived[s] = From(d + c, a) /\ nsent[s] = d + c + a /\ logged[s] = delivered[s]
        /\ delivered[s] = From(0, d)
    BY <1>0, <2>0 DEF Pumped
  <2>1. ASSUME NEW k \in 0 .. c, pumpPc' = [pumpPc EXCEPT ![s] = "shutdown"],
               delivered' = [delivered EXCEPT ![s] = delivered[s] \o SubSeq(chunk[s], 1, k)]
        PROVE  TeeInv'
    <3> DEFINE t == From(d, k)
               u == From(d + k, c - k)
    <3>0. k \in Nat /\ d + k \in Nat /\ c - k \in Nat /\ 0 + d = d /\ k + (c - k) = c BY <1>n
    <3>1. t \in Seq(Nat) /\ u \in Seq(Nat) BY <1>n, <3>0, FromIs
    <3>a. SubSeq(chunk[s], 1, k) = t
      <4>1. SubSeq(From(d, c), 1, k) = From(d, k) BY <1>n, FromSplit
      <4> QED BY <2>a, <4>1
    <3>b. chunk[s] = t \o u
      <4>1. From(d, k) \o From(d + k, c - k) = From(d, k + (c - k)) BY <1>n, <3>0, FromJoin
      <4> QED BY <2>a, <3>0, <4>1
    <3>c. delivered[s] \o t = From(0, d + k) /\ Len(From(0, d + k)) = d + k /\ From(0, d + k) \in Seq(Nat)
      <4>1. From(0, d) \o From(0 + d, k) = From(0, d + k) BY <1>n, <3>0, FromJoin
      <4>2. Len(From(0, d + k)) = d + k /\ From(0, d + k) \in Seq(Nat) BY <3>0, FromIs
      <4> QED BY <2>a, <3>0, <4>1, <4>2
    <3> HIDE DEF t, u
    <3>2. TeeTypes' BY <1>0, <2>0, <2>1, <3>a, <3>c DEF TeeTypes, PumpPcs
    <3>3. pumpPc'[s] = "shutdown" /\ delivered'[s] = delivered[s] \o t BY <1>0, <2>1, <3>a DEF TeeTypes
    <3>4. Pumped(s)'
      <4>1. delivered'[s] = From(0, Len(delivered'[s])) BY <3>3, <3>c
      <4>2. delivered'[s] = logged'[s] \o t /\ chunk'[s] = t \o u BY <2>0, <2>a, <3>3, <3>b
      <4> QED BY <3>1, <3>3, <4>1, <4>2 DEF Pumped
    <3>5. ASSUME NEW e \in End, e # s PROVE Pumped(e)'
      <4>1. Pumped(e) BY DEF TeeInv
      <4> QED BY <4>1, <1>0, <2>0, <2>1, <3>5, OtherPump DEF TeeTypes
    <3> QED BY <3>2, <3>4, <3>5 DEF TeeInv
  <2>2. CASE /\ delivered' = [delivered EXCEPT ![s] = delivered[s] \o chunk[s]]
             /\ pumpPc' = [pumpPc EXCEPT ![s] = "log"]
    <3>1. delivered[s] \o chunk[s] = From(0, d + c)
      <4>1. From(0, d) \o From(0 + d, c) = From(0, d + c) BY <1>0, FromJoin
      <4>2. 0 + d = d BY <1>0
      <4> QED BY <4>1, <4>2, <2>a
    <3>2. delivered[s] \o chunk[s] \in Seq(Nat) /\ Len(delivered[s] \o chunk[s]) = d + c BY <1>0
    <3>3. TeeTypes' BY <1>0, <2>0, <2>2, <3>2 DEF TeeTypes, PumpPcs
    <3>4. pumpPc'[s] = "log" /\ delivered'[s] = delivered[s] \o chunk[s] BY <1>0, <2>2 DEF TeeTypes
    <3>5. Pumped(s)' BY <1>0, <2>0, <2>a, <3>1, <3>2, <3>4 DEF Pumped
    <3>6. ASSUME NEW e \in End, e # s PROVE Pumped(e)'
      <4>1. Pumped(e) BY DEF TeeInv
      <4> QED BY <4>1, <1>0, <2>0, <2>2, <3>6, OtherPump DEF TeeTypes
    <3> QED BY <3>3, <3>5, <3>6 DEF TeeInv
  <2> QED BY <1>0, <1>2, <2>1, <2>2 DEF PumpSend
<1>3. CASE PumpLog(s)
  <2>1. /\ UNCHANGED <<arrived, nsent, delivered>> /\ pumpPc[s] = "log" /\ chunk' = [chunk EXCEPT ![s] = <<>>]
        /\ logged' = [logged EXCEPT ![s] = logged[s] \o chunk[s]] /\ pumpPc' = [pumpPc EXCEPT ![s] = "recv"]
    BY <1>3 DEF PumpLog
  <2>2. delivered[s] = logged[s] \o chunk[s] BY <1>0, <2>1 DEF Pumped
  <2>3. pumpPc'[s] = "recv" /\ logged'[s] = delivered[s] /\ chunk'[s] = <<>> BY <1>0, <2>1, <2>2 DEF TeeTypes
  <2>4. TeeTypes' BY <1>0, <2>1, <2>2 DEF TeeTypes, PumpPcs
  <2>5. Pumped(s)' BY <1>0, <2>1, <2>3 DEF Pumped
  <2>6. ASSUME NEW e \in End, e # s PROVE Pumped(e)'
    <3>1. Pumped(e) BY DEF TeeInv
    <3> QED BY <3>1, <1>0, <2>1, <2>6, OtherPump DEF TeeTypes
  <2> QED BY <2>4, <2>5, <2>6 DEF TeeInv
<1>4. CASE PumpShutdown(s)
  <2>1. /\ UNCHANGED <<arrived, nsent, chunk, delivered, logged>> /\ pumpPc[s] = "shutdown"
        /\ pumpPc' = [pumpPc EXCEPT ![s] = "end"]
    BY <1>4 DEF PumpShutdown
  <2>2. pumpPc'[s] = "end" BY <1>0, <2>1 DEF TeeTypes
  <2>3. TeeTypes' BY <1>0, <2>1 DEF TeeTypes, PumpPcs
  <2>4. Pumped(s)' BY <1>0, <2>1, <2>2 DEF Pumped
  <2>5. ASSUME NEW e \in End, e # s PROVE Pumped(e)'
    <3>1. Pumped(e) BY DEF TeeInv
    <3> QED BY <3>1, <1>0, <2>1, <2>5, OtherPump DEF TeeTypes
  <2> QED BY <2>3, <2>4, <2>5 DEF TeeInv
<1> QED BY <1>0, <1>1, <1>2, <1>3, <1>4 DEF Pump

\* What an end sends is put behind what is still on its way.
LEMMA EndSendsKeeps == ASSUME TeeInv, NEW s \in End, EndSends(s) PROVE TeeInv'
<1> DEFINE d == Len(delivered[s])
           a == Len(arrived[s])
           c == Len(chunk[s])
<1>0. /\ TeeTypes /\ Pumped(s) /\ arrived[s] \in Seq(Nat) /\ nsent[s] \in Nat
      /\ d \in Nat /\ a \in Nat /\ c \in Nat
      /\ d = Len(delivered[s]) /\ a = Len(arrived[s]) /\ c = Len(chunk[s])
  BY DEF TeeInv, TeeTypes
<1> HIDE DEF d, a, c
<1>n. d \in Nat /\ a \in Nat /\ c \in Nat BY <1>0
<1>1. /\ nsent' = [nsent EXCEPT ![s] = nsent[s] + 1] /\ arrived' = [arrived EXCEPT ![s] = Append(arrived[s], nsent'[s])]
      /\ UNCHANGED <<pumpPc, chunk, delivered, logged>>
  BY DEF EndSends
<1>2. nsent'[s] = nsent[s] + 1 /\ arrived'[s] = Append(arrived[s], nsent[s] + 1) BY <1>0, <1>1 DEF TeeTypes
<1>3. Append(arrived[s], nsent[s] + 1) \in Seq(Nat) /\ Len(Append(arrived[s], nsent[s] + 1)) = a + 1 BY <1>0
<1>4. TeeTypes' BY <1>0, <1>1, <1>2, <1>3 DEF TeeTypes
<1>5. CASE pumpPc[s] \in {"recv", "log"}
  <2>1. arrived[s] = From(d, a) /\ nsent[s] = d + a BY <1>0, <1>5 DEF Pumped
  <2>2. arrived'[s] = From(d, a + 1) BY <1>0, <1>2, <2>1, FromNext
  <2>3. nsent'[s] = d + (a + 1)
    <3>1. nsent'[s] = (d + a) + 1 BY <1>2, <2>1
    <3> QED BY <1>n, <3>1
  <2> QED BY <1>0, <1>1, <1>2, <1>3, <1>4, <1>5, <2>2, <2>3, OtherPump DEF Pumped, TeeInv, TeeTypes
<1>6. CASE pumpPc[s] = "send"
  <2>1. arrived[s] = From(d + c, a) /\ nsent[s] = d + c + a BY <1>0, <1>6 DEF Pumped
  <2>2. arrived'[s] = From(d + c, a + 1)
    <3>1. d + c \in Nat BY <1>n
    <3> QED BY <1>0, <1>2, <2>1, <3>1, FromNext
  <2>3. nsent'[s] = d + c + (a + 1)
    <3>1. nsent'[s] = (d + c + a) + 1 BY <1>2, <2>1
    <3> QED BY <1>n, <3>1
  <2> QED BY <1>0, <1>1, <1>2, <1>3, <1>4, <1>6, <2>2, <2>3, OtherPump DEF Pumped, TeeInv, TeeTypes
<1>7. CASE pumpPc[s] \in {"shutdown", "end"}
  <2>1. Pumped(s)' BY <1>0, <1>1, <1>7 DEF Pumped
  <2>2. ASSUME NEW e \in End, e # s PROVE Pumped(e)'
    <3>1. Pumped(e) BY DEF TeeInv
    <3> QED BY <1>0, <1>1, <2>2, <3>1, OtherPump DEF TeeTypes
  <2> QED BY <1>4, <2>1, <2>2 DEF TeeInv
<1> QED BY <1>0, <1>5, <1>6, <1>7 DEF TeeTypes, PumpPcs

\* Every step of the tee and of its two ends keeps the invariant.
LEMMA TeeKeeps == ASSUME TeeInv, [TeeNext]_teeVars PROVE TeeInv'
<1>1. ASSUME NEW s \in End, EndCloses(s) PROVE TeeInv'
  BY <1>1 DEF EndCloses, TeeInv, TeeTypes, Pumped
<1>2. CASE UNCHANGED teeVars
  BY <1>2 DEF teeVars, TeeInv, TeeTypes, Pumped
<1> QED BY <1>1, <1>2, PumpKeeps, EndSendsKeeps DEF TeeNext

\* What is appended to has its old value as a prefix.
LEMMA PrefixOfConcat == ASSUME NEW S, NEW s \in Seq(S), NEW t \in Seq(S) PROVE IsPrefix(s, s \o t)
<1> DEFINE st == s \o t
           p == SubSeq(st, 1, Len(s))
<1>1. st \in Seq(S) /\ Len(st) = Len(s) + Len(t) /\ Len(s) \in Nat /\ Len(t) \in Nat OBVIOUS
<1>2. \A i \in 1 .. Len(s) : st[i] = s[i] OBVIOUS
<1> HIDE DEF st
<1>3. p \in Seq(S) /\ Len(p) = Len(s) /\ \A i \in 1 .. Len(s) : p[i] = st[i] BY <1>1
<1> HIDE DEF p
<1>4. \A i \in 1 .. Len(s) : p[i] = s[i] BY <1>2, <1>3
<1>5. s = p BY <1>3, <1>4, SeqEqual
<1>6. SubSeq(s, 1, Len(s)) = s BY SubSeqFull
<1>7. Len(s) <= Len(st) BY <1>1
<1>8. IsPrefix(s, st) BY <1>5, <1>6, <1>7 DEF IsPrefix, p
<1> QED BY <1>8 DEF st

\* What has been delivered and logged is a beginning of what was sent.
LEMMA TeeIsTransparent == ASSUME TeeInv PROVE TeeTransparent
<1> SUFFICES ASSUME NEW s \in End
             PROVE  /\ delivered[s] = [i \in 1 .. Len(delivered[s]) |-> i]
                    /\ IsPrefix(logged[s], delivered[s])
                    /\ pumpPc[s] # "log" => IsPrefix(delivered[s], logged[s] \o chunk[s])
  BY DEF TeeTransparent
<1>1. TeeTypes /\ Pumped(s) /\ delivered[s] \in Seq(Nat) /\ logged[s] \in Seq(Nat) /\ chunk[s] \in Seq(Nat)
  BY DEF TeeInv, TeeTypes
<1>2. delivered[s] = [i \in 1 .. Len(delivered[s]) |-> i]
  <2>1. Len(delivered[s]) \in Nat BY <1>1
  <2>2. delivered[s] = [i \in 1 .. Len(delivered[s]) |-> 0 + i] BY <1>1 DEF Pumped, From
  <2> HIDE DEF From
  <2>3. \A i \in 1 .. Len(delivered[s]) : 0 + i = i BY <2>1
  <2> QED BY <2>2, <2>3
<1>p. pumpPc[s] \in PumpPcs BY <1>1 DEF TeeTypes
<1>n. logged[s] \in Seq(Nat) /\ chunk[s] \in Seq(Nat) BY <1>1
<1>3. CASE pumpPc[s] \in {"recv", "send"}
  <2>1. logged[s] = delivered[s] BY <1>1, <1>3 DEF Pumped
  <2>2. IsPrefix(logged[s], logged[s] \o chunk[s]) BY <1>n, PrefixOfConcat
  <2>3. IsPrefix(logged[s], logged[s]) BY <1>1 DEF IsPrefix
  <2> QED BY <1>2, <2>1, <2>2, <2>3
<1>4. CASE pumpPc[s] = "log"
  <2>1. delivered[s] = logged[s] \o chunk[s] BY <1>1, <1>4 DEF Pumped
  <2>2. IsPrefix(logged[s], logged[s] \o chunk[s]) BY <1>n, PrefixOfConcat
  <2> QED BY <1>2, <1>4, <2>1, <2>2
<1>5. CASE pumpPc[s] \in {"shutdown", "end"}
  <2>1. PICK t \in Seq(Nat), u \in Seq(Nat) : delivered[s] = logged[s] \o t /\ chunk[s] = t \o u
    BY <1>1, <1>5 DEF Pumped
  <2>2. IsPrefix(logged[s], logged[s] \o t) BY <1>n, PrefixOfConcat
  <2>3. (logged[s] \o t) \o u = logged[s] \o (t \o u)
    <3> DEFINE l == logged[s]
    <3>1. l \in Seq(Nat) BY <1>n
    <3> HIDE DEF l
    <3>2. (l \o t) \o u = l \o (t \o u) BY <3>1, ConcatAssociative
    <3> QED BY <3>2 DEF l
  <2>4. IsPrefix(delivered[s], delivered[s] \o u) BY <1>1, PrefixOfConcat
  <2> QED BY <1>2, <2>1, <2>2, <2>3, <2>4
<1> QED BY <1>p, <1>3, <1>4, <1>5 DEF PumpPcs

-----------------------------------------------------------------------------
(* The prompts smoke_inject.py waits for *)

\* What the machine sends.
Sent == {"A", ">", "O", "K", " ", "x", "echo"}

NoPrompt(s) == \A i \in 1 .. Len(s) : s[i] # ">"
OnePrompt(s) == \A i, j \in 1 .. Len(s) : s[i] = ">" /\ s[j] = ">" => i = j

\* At most one prompt is read or under way.
AtMostOne(x, y) == OnePrompt(x) /\ OnePrompt(y) /\ (NoPrompt(x) \/ NoPrompt(y))

SmokeTypes ==
    /\ inbuf \in Seq(Sent) /\ stream \in Seq(Sent) /\ sent \in Seq(Nat)
    /\ step_idx \in Nat /\ prompts \in Nat /\ cpm \in {"boot", "ready", "busy"}

\* A prompt is printed before the first command and after each one that is carried out.
PromptsCounted ==
    /\ step_idx <= prompts /\ Len(sent) <= step_idx
    /\ cpm = "boot" => prompts = 0
    /\ cpm = "busy" => prompts <= step_idx - Len(sent)
    /\ cpm = "ready" => prompts <= 1 + step_idx - Len(sent)

\* What is not typed yet is at most one prompt ahead, and that prompt is the only
\* one in buf and in the stream.
PromptsAhead ==
    /\ prompts = step_idx => NoPrompt(inbuf) /\ NoPrompt(stream)
    /\ prompts = step_idx + 1 => AtMostOne(inbuf, stream)

SmokeInv == SmokeTypes /\ PromptsCounted /\ PromptsAhead

\* What is printed, byte by byte.
LEMMA PrintedBytes ==
  /\ Prompt \in Seq(Sent) /\ Len(Prompt) = 2 /\ Prompt[1] = "A" /\ Prompt[2] = ">" /\ OnePrompt(Prompt)
  /\ <<"echo">> \in Seq(Sent) /\ NoPrompt(<<"echo">>)
  /\ <<"x">> \in Seq(Sent) /\ NoPrompt(<<"x">>)
  /\ Append(Marker, " ") \in Seq(Sent) /\ NoPrompt(Append(Marker, " "))
<1>1. \A i \in 1 .. 1 : i = 1 OBVIOUS
<1>2. \A i \in 1 .. 2 : i = 1 \/ i = 2 OBVIOUS
<1>3. \A i \in 1 .. 3 : i = 1 \/ i = 2 \/ i = 3 OBVIOUS
<1>4. <<"A", ">">> \in Seq(Sent) /\ Len(<<"A", ">">>) = 2 BY DEF Sent
<1>5. OnePrompt(<<"A", ">">>) BY <1>2, <1>4 DEF OnePrompt
<1>6. <<"echo">> \in Seq(Sent) /\ Len(<<"echo">>) = 1 BY DEF Sent
<1>7. NoPrompt(<<"echo">>) BY <1>1, <1>6 DEF NoPrompt
<1>8. <<"x">> \in Seq(Sent) /\ Len(<<"x">>) = 1 BY DEF Sent
<1>9. NoPrompt(<<"x">>) BY <1>1, <1>8 DEF NoPrompt
<1>10. ASSUME NEW S, NEW m \in Seq(S), Len(m) = 2, NEW e \in S, m[1] # ">", m[2] # ">", e # ">"
       PROVE  Append(m, e) \in Seq(S) /\ NoPrompt(Append(m, e))
  <2> DEFINE a == Append(m, e)
  <2>1. a \in Seq(S) /\ Len(a) = Len(m) + 1 /\ a[Len(m) + 1] = e /\ \A i \in 1 .. Len(m) : a[i] = m[i] BY Grown
  <2>2. 2 + 1 = 3 /\ 1 \in 1 .. 2 /\ 2 \in 1 .. 2 OBVIOUS
  <2> HIDE DEF a
  <2>3. Len(a) = 3 /\ a[3] = e /\ a[1] = m[1] /\ a[2] = m[2] BY <1>10, <2>1, <2>2
  <2>4. NoPrompt(a) BY <1>3, <1>10, <2>3 DEF NoPrompt
  <2> QED BY <2>1, <2>4 DEF a
<1>13. Marker \in Seq(Sent) /\ Len(Marker) = 2 /\ Marker[1] # ">" /\ Marker[2] # ">"
  <2>1. "O" \in Sent /\ "K" \in Sent BY Zenon DEF Sent
  <2> QED BY <2>1 DEF Marker
<1>11. " " \in Sent /\ " " # ">" BY Zenon DEF Sent
<1>12. Append(Marker, " ") \in Seq(Sent) /\ NoPrompt(Append(Marker, " ")) BY <1>10, <1>11, <1>13, Zenon
<1> QED BY <1>4, <1>5, <1>6, <1>7, <1>8, <1>9, <1>12, Zenon DEF Prompt

\* Nothing has been printed, read or typed.
LEMMA SmokeStarts == ASSUME NEW s, SmokeStart(s) PROVE SmokeInv
<1>1. SmokeTypes BY DEF SmokeStart, SmokeTypes
<1>2. PromptsCounted BY DEF SmokeStart, PromptsCounted
<1>3. PromptsAhead BY DEF SmokeStart, PromptsAhead, NoPrompt, AtMostOne, OnePrompt
<1> QED BY <1>1, <1>2, <1>3 DEF SmokeInv

\* Bytes added behind.
LEMMA QuietConcat ==
  ASSUME NEW x \in Seq(Sent), NEW y \in Seq(Sent)
  PROVE  /\ NoPrompt(x) /\ NoPrompt(y) => NoPrompt(x \o y)
         /\ AtMostOne(x, y) => OnePrompt(x \o y)
         /\ OnePrompt(x) /\ NoPrompt(y) => OnePrompt(x \o y)
<1> DEFINE z == x \o y
           n == Len(x)
           m == Len(y)
<1>0. z \in Seq(Sent) /\ Len(z) = n + m /\ n \in Nat /\ m \in Nat BY ConcatProperties
<1>1. \A i \in 1 .. n + m : z[i] = IF i <= n THEN x[i] ELSE y[i - n] BY ConcatProperties
<1> HIDE DEF z, n, m
<1>2. ASSUME NoPrompt(x), NoPrompt(y) PROVE NoPrompt(z)
  <2>1. (\A i \in 1 .. n : x[i] # ">") /\ (\A i \in 1 .. m : y[i] # ">") BY <1>2 DEF NoPrompt, n, m
  <2>2. \A i \in 1 .. n + m : z[i] # ">" BY <1>0, <1>1, <2>1
  <2> QED BY <1>0, <2>2 DEF NoPrompt
<1>3. ASSUME OnePrompt(x), NoPrompt(y) PROVE OnePrompt(z)
  <2>1. /\ \A i, j \in 1 .. n : x[i] = ">" /\ x[j] = ">" => i = j
        /\ \A i \in 1 .. m : y[i] # ">"
    BY <1>3 DEF NoPrompt, OnePrompt, n, m
  <2>2. ASSUME NEW i \in 1 .. n + m, z[i] = ">" PROVE i \in 1 .. n /\ x[i] = ">" BY <1>0, <1>1, <2>1, <2>2
  <2>3. \A i, j \in 1 .. n + m : z[i] = ">" /\ z[j] = ">" => i = j BY <2>1, <2>2
  <2> QED BY <1>0, <2>3 DEF OnePrompt
<1>4. ASSUME NoPrompt(x), OnePrompt(y) PROVE OnePrompt(z)
  <2>1. /\ \A i, j \in 1 .. m : y[i] = ">" /\ y[j] = ">" => i = j
        /\ \A i \in 1 .. n : x[i] # ">"
    BY <1>4 DEF NoPrompt, OnePrompt, n, m
  <2>2. ASSUME NEW i \in 1 .. n + m, z[i] = ">" PROVE i - n \in 1 .. m /\ y[i - n] = ">" BY <1>0, <1>1, <2>1, <2>2
  <2>3. ASSUME NEW i \in 1 .. n + m, NEW j \in 1 .. n + m, z[i] = ">", z[j] = ">" PROVE i = j
    <3>1. i - n = j - n BY <2>1, <2>2, <2>3
    <3> QED BY <3>1, <1>0
  <2> QED BY <1>0, <2>3 DEF OnePrompt
<1> QED BY <1>2, <1>3, <1>4 DEF z, AtMostOne

\* A piece of what is read.
LEMMA QuietPiece ==
  ASSUME NEW x \in Seq(Sent), NEW a \in 1 .. Len(x) + 1, NEW b \in 0 .. Len(x)
  PROVE  /\ SubSeq(x, a, b) \in Seq(Sent)
         /\ NoPrompt(x) => NoPrompt(SubSeq(x, a, b))
         /\ OnePrompt(x) => OnePrompt(SubSeq(x, a, b))
<1> DEFINE z == SubSeq(x, a, b)
           n == Len(x)
<1>0. n \in Nat /\ a \in Nat /\ b \in Nat OBVIOUS
<1>1. \A i \in a .. b : x[i] \in Sent /\ i \in 1 .. n BY <1>0
<1>2. /\ z \in Seq(Sent) /\ Len(z) = IF a <= b THEN b - a + 1 ELSE 0
      /\ \A i \in 1 .. b - a + 1 : z[i] = x[a + i - 1]
  BY <1>0, <1>1, SubSeqProperties
<1> HIDE DEF z, n
<1>3. ASSUME NEW i \in 1 .. Len(z) PROVE a + i - 1 \in 1 .. n /\ z[i] = x[a + i - 1]
  <2>1. Len(z) = IF a <= b THEN b - a + 1 ELSE 0 BY <1>2
  <2>2. i \in 1 .. b - a + 1 /\ a + i - 1 \in a .. b BY <1>0, <2>1
  <2> QED BY <1>1, <1>2, <2>2
<1>4. NoPrompt(x) => NoPrompt(z) BY <1>3 DEF NoPrompt, n
<1>5. ASSUME OnePrompt(x), NEW i \in 1 .. Len(z), NEW j \in 1 .. Len(z), z[i] = ">", z[j] = ">" PROVE i = j
  <2>1. a + i - 1 = a + j - 1 BY <1>3, <1>5 DEF OnePrompt, n
  <2>2. i \in Int /\ j \in Int OBVIOUS
  <2> QED BY <1>0, <2>1, <2>2
<1> QED BY <1>2, <1>4, <1>5 DEF z, OnePrompt

\* What is kept of buf.
LEMMA TailedIs ==
  ASSUME NEW x \in Seq(Sent)
  PROVE  Tailed(x) \in Seq(Sent) /\ (NoPrompt(x) => NoPrompt(Tailed(x))) /\ (OnePrompt(x) => OnePrompt(Tailed(x)))
<1>1. CASE Len(x) > MaxBuf
  <2>1. Len(x) \in Nat /\ Len(x) - MaxBuf + 1 \in 1 .. Len(x) + 1 /\ Len(x) \in 0 .. Len(x)
    BY <1>1, BufHoldsMarker
  <2>2. Tailed(x) = SubSeq(x, Len(x) - MaxBuf + 1, Len(x)) BY <1>1 DEF Tailed
  <2> QED BY <2>1, <2>2, QuietPiece
<1>2. CASE ~(Len(x) > MaxBuf) BY <1>2 DEF Tailed
<1> QED BY <1>1, <1>2

\* A buffer that ends with the prompt ends with its last character.
LEMMA PromptEnds ==
  ASSUME NEW b \in Seq(Sent), IsSuffix(Prompt, b)
  PROVE  Len(b) \in 1 .. Len(b) /\ b[Len(b)] = ">"
<1> DEFINE n == Len(b)
           r == [i \in 1 .. n |-> b[(n - i) + 1]]
           q == [i \in 1 .. 2 |-> Prompt[(2 - i) + 1]]
<1>0. n \in Nat /\ Len(Prompt) = 2 BY DEF Prompt
<1>1. r \in Seq(Sent) /\ Len(r) = n
  <2>1. r \in [1 .. n -> Sent] OBVIOUS
  <2> QED BY <1>0, <2>1
<1>2. q \in Seq(Sent) /\ Len(q) = 2 /\ q[1] = ">"
  <2>0. Prompt[1] = "A" /\ Prompt[2] = ">" BY PrintedBytes
  <2>a. ASSUME NEW i \in 1 .. 2 PROVE Prompt[(2 - i) + 1] \in Sent
    <3>1. (2 - i) + 1 = 1 \/ (2 - i) + 1 = 2 OBVIOUS
    <3>2. "A" \in Sent /\ ">" \in Sent BY DEF Sent
    <3> QED BY <2>0, <3>1, <3>2
  <2>1. q \in [1 .. 2 -> Sent] BY <2>a
  <2> QED BY <2>1 DEF Prompt
<1>3. 2 <= n /\ SubSeq(q, 1, 2) = SubSeq(r, 1, 2)
  <2>1. IsPrefix(q, r) BY <1>0 DEF IsSuffix, Reverse
  <2> HIDE DEF q, r
  <2> QED BY <1>1, <1>2, <2>1 DEF IsPrefix
<1>4. r[1] = b[n] BY <1>0, <1>3
<1> HIDE DEF q, r, n
<1>5. SubSeq(q, 1, 2)[1] = q[1] BY <1>2
<1>6. SubSeq(r, 1, 2)[1] = r[1] BY <1>0, <1>1, <1>3
<1> QED BY <1>0, <1>2, <1>3, <1>4, <1>5, <1>6 DEF n

\* Typing the next command: its prompt is there, and no other.
LEMMA FireKeeps ==
  ASSUME SmokeInv, NEW b \in Seq(Sent), NEW rest \in Seq(Sent), maybe_fire_step(b), stream' = rest,
         UNCHANGED <<cpm, prompts>>,
         prompts = step_idx => NoPrompt(b) /\ NoPrompt(rest),
         prompts = step_idx + 1 => AtMostOne(b, rest)
  PROVE  SmokeInv'
<1>0. /\ SmokeTypes /\ PromptsCounted /\ step_idx \in Nat /\ prompts \in Nat /\ sent \in Seq(Nat)
      /\ Len(sent) \in Nat
  BY DEF SmokeInv, SmokeTypes
<1>1. CASE step_idx < NSteps /\ ~cooling /\ IsSuffix(Prompt, b)
  <2>1. sent' = Append(sent, step_idx + 1) /\ step_idx' = step_idx + 1 /\ inbuf' = <<>>
    BY <1>1 DEF maybe_fire_step
  <2>2. Len(b) \in 1 .. Len(b) /\ b[Len(b)] = ">" BY <1>1, PromptEnds
  <2>3. ~NoPrompt(b) BY <2>2 DEF NoPrompt
  <2>4. prompts = step_idx + 1
    <3>1. prompts # step_idx /\ step_idx <= prompts /\ Len(sent) <= step_idx BY <1>0, <2>3 DEF PromptsCounted
    <3>2. prompts = 0 \/ prompts <= step_idx - Len(sent) \/ prompts <= 1 + step_idx - Len(sent)
      BY <1>0 DEF PromptsCounted, SmokeTypes
    <3>3. prompts <= 1 + step_idx - Len(sent) BY <1>0, <3>1, <3>2
    <3> QED BY <1>0, <3>1, <3>3
  <2>5. NoPrompt(rest) BY <2>3, <2>4 DEF AtMostOne
  <2>6. sent' \in Seq(Nat) /\ Len(sent') = Len(sent) + 1 BY <1>0, <2>1
  <2>7. SmokeTypes' BY <1>0, <2>1, <2>6 DEF SmokeTypes
  <2>8. PromptsCounted'
    <3>1. cpm # "boot" BY <1>0, <2>4 DEF PromptsCounted
    <3>2. cpm = "busy" => prompts <= step_idx - Len(sent) BY <1>0 DEF PromptsCounted
    <3>3. cpm = "ready" => prompts <= 1 + step_idx - Len(sent) BY <1>0 DEF PromptsCounted
    <3>4. Len(sent) <= step_idx BY <1>0 DEF PromptsCounted
    <3> QED BY <1>0, <2>1, <2>4, <2>6, <3>1, <3>2, <3>3, <3>4 DEF PromptsCounted
  <2>9. PromptsAhead'
    <3>1. NoPrompt(<<>>) /\ OnePrompt(<<>>) BY DEF NoPrompt, OnePrompt
    <3>2. prompts' = step_idx' /\ prompts' # step_idx' + 1 BY <1>0, <2>1, <2>4
    <3> QED BY <2>1, <2>5, <3>1, <3>2 DEF PromptsAhead
  <2> QED BY <2>7, <2>8, <2>9 DEF SmokeInv
<1>2. CASE ~(step_idx < NSteps /\ ~cooling /\ IsSuffix(Prompt, b))
  <2>1. inbuf' = b /\ UNCHANGED <<sent, step_idx, prompts, cpm>> BY <1>2 DEF maybe_fire_step
  <2>2. SmokeTypes' BY <1>0, <2>1 DEF SmokeTypes
  <2>3. PromptsCounted' BY <1>0, <2>1 DEF PromptsCounted
  <2>4. PromptsAhead' BY <2>1 DEF PromptsAhead
  <2> QED BY <2>2, <2>3, <2>4 DEF SmokeInv
<1> QED BY <1>1, <1>2

\* Bytes taken out of the stream.
LEMMA RecvDataKeeps ==
  ASSUME SmokeInv, NEW k \in 1 .. RecvSize, RecvData(k)
  PROVE  SmokeInv'
<1> DEFINE x == SubSeq(stream, 1, k)
           y == SubSeq(stream, k + 1, Len(stream))
           b == Tailed(inbuf \o x)
<1>0. /\ SmokeTypes /\ PromptsCounted /\ PromptsAhead /\ inbuf \in Seq(Sent) /\ stream \in Seq(Sent)
      /\ Len(stream) \in Nat
  BY DEF SmokeInv, SmokeTypes
<1>1. k \in Nat /\ k <= Len(stream) /\ UNCHANGED <<cpm, prompts>> /\ stream' = y
  BY BufHoldsMarker DEF RecvData
<1>2. k \in 0 .. Len(stream) /\ k + 1 \in 1 .. Len(stream) + 1 /\ 1 \in 1 .. Len(stream) + 1
      /\ Len(stream) \in 0 .. Len(stream)
  <2>1. Len(stream) \in Nat BY <1>0
  <2> QED BY <1>1, <2>1
<1>3. /\ x \in Seq(Sent) /\ y \in Seq(Sent)
      /\ NoPrompt(stream) => NoPrompt(x) /\ NoPrompt(y)
      /\ OnePrompt(stream) => OnePrompt(x) /\ OnePrompt(y)
  BY <1>0, <1>2, QuietPiece
<1>4. OnePrompt(stream) => NoPrompt(x) \/ NoPrompt(y)
  <2> SUFFICES ASSUME OnePrompt(stream), ~NoPrompt(x), ~NoPrompt(y) PROVE FALSE OBVIOUS
  <2>1. PICK i \in 1 .. Len(x) : x[i] = ">" BY DEF NoPrompt
  <2>2. PICK j \in 1 .. Len(y) : y[j] = ">" BY DEF NoPrompt
  <2>3. Len(x) = k /\ \A l \in 1 .. k : x[l] = stream[l] BY <1>0, <1>1
  <2>4. Len(y) = Len(stream) - k /\ \A l \in 1 .. Len(stream) - k : y[l] = stream[k + l] BY <1>0, <1>1
  <2> HIDE DEF x, y
  <2>5. i \in 1 .. k /\ i \in 1 .. Len(stream) /\ stream[i] = ">" BY <1>0, <1>1, <2>1, <2>3
  <2>6. k + j \in 1 .. Len(stream) /\ stream[k + j] = ">" /\ k + j > k
    <3>1. j \in 1 .. Len(stream) - k BY <2>2, <2>4
    <3> QED BY <1>0, <1>1, <3>1, <2>2, <2>4
  <2>7. i = k + j BY <2>5, <2>6 DEF OnePrompt
  <2> QED BY <1>1, <2>5, <2>6, <2>7
<1> HIDE DEF x, y
<1>5. inbuf \o x \in Seq(Sent) BY <1>0, <1>3
<1>6. b \in Seq(Sent) BY <1>5, TailedIs
<1>7. prompts = step_idx => NoPrompt(b) /\ NoPrompt(y)
  BY <1>0, <1>3, <1>5, QuietConcat, TailedIs DEF PromptsAhead
<1>8. ASSUME prompts = step_idx + 1 PROVE AtMostOne(b, y)
  <2>1. AtMostOne(inbuf, stream) BY <1>0, <1>8 DEF PromptsAhead
  <2>2. CASE NoPrompt(inbuf)
    <3>1. OnePrompt(stream) BY <2>1 DEF AtMostOne
    <3>2. OnePrompt(inbuf \o x) /\ OnePrompt(y)
      BY <1>0, <1>3, <2>1, <2>2, <3>1, QuietConcat DEF AtMostOne
    <3>3. NoPrompt(inbuf \o x) \/ NoPrompt(y) BY <1>0, <1>3, <1>4, <2>2, <3>1, QuietConcat
    <3> QED BY <1>5, <3>2, <3>3, TailedIs DEF AtMostOne
  <2>3. CASE NoPrompt(stream)
    <3>1. NoPrompt(x) /\ NoPrompt(y) BY <1>3, <2>3
    <3>2. OnePrompt(y) BY <3>1 DEF NoPrompt, OnePrompt
    <3>3. OnePrompt(inbuf \o x) BY <1>0, <1>3, <2>1, <3>1, QuietConcat DEF AtMostOne
    <3> QED BY <1>5, <3>1, <3>2, <3>3, TailedIs DEF AtMostOne
  <2> QED BY <2>1, <2>2, <2>3 DEF AtMostOne
<1>9. CASE maybe_fire_step(b) BY <1>1, <1>3, <1>6, <1>7, <1>8, <1>9, FireKeeps
<1>10. CASE inbuf' = b /\ UNCHANGED <<sent, step_idx, cooling>>
  <2>1. SmokeTypes' BY <1>0, <1>1, <1>3, <1>6, <1>10 DEF SmokeTypes
  <2>2. PromptsCounted' BY <1>0, <1>1, <1>10 DEF PromptsCounted
  <2>3. PromptsAhead' BY <1>1, <1>7, <1>8, <1>10 DEF PromptsAhead
  <2> QED BY <2>1, <2>2, <2>3 DEF SmokeInv
<1> QED BY <1>9, <1>10 DEF RecvData, x

\* Nothing but the prompt ends in its last character.
LEMMA PrintedQuiet ==
  ASSUME SmokeInv, NEW m \in Seq(Sent), NoPrompt(m), stream' = stream \o m, UNCHANGED <<inbuf, step_idx, prompts>>
  PROVE  PromptsAhead' /\ stream' \in Seq(Sent)
<1>1. inbuf \in Seq(Sent) /\ stream \in Seq(Sent) /\ PromptsAhead BY DEF SmokeInv, SmokeTypes
<1>2. prompts = step_idx => NoPrompt(inbuf) /\ NoPrompt(stream \o m) BY <1>1, QuietConcat DEF PromptsAhead
<1>3. prompts = step_idx + 1 => AtMostOne(inbuf, stream \o m) BY <1>1, QuietConcat DEF PromptsAhead, AtMostOne
<1>4. stream \o m \in Seq(Sent) BY <1>1, ConcatProperties
<1> QED BY <1>2, <1>3, <1>4 DEF PromptsAhead

\* Every step of smoke_inject.py, of the CCP and of programs keeps the count of prompts.
LEMMA SmokeKeeps == ASSUME SmokeInv, [SmokeNext]_smokeVars PROVE SmokeInv'
<1>0. /\ SmokeTypes /\ PromptsCounted /\ PromptsAhead /\ inbuf \in Seq(Sent) /\ stream \in Seq(Sent)
      /\ sent \in Seq(Nat) /\ Len(sent) \in Nat /\ step_idx \in Nat /\ prompts \in Nat
  BY DEF SmokeInv, SmokeTypes
<1>1. CASE RecvTimeout
  <2>1. maybe_fire_step(inbuf) /\ stream' = stream /\ UNCHANGED <<cpm, prompts>> BY <1>1 DEF RecvTimeout
  <2> QED BY <1>0, <2>1, FireKeeps DEF PromptsAhead
<1>2. CASE CooldownOver \/ Finish \/ UNCHANGED smokeVars
  BY <1>2 DEF CooldownOver, Finish, smokeVars, SmokeInv, SmokeTypes, PromptsCounted, PromptsAhead
<1>3. CASE PrintPrompt
  <2>1. /\ cpm \in {"boot", "busy"} /\ cpm' = "ready" /\ stream' = stream \o Prompt /\ prompts' = prompts + 1
        /\ UNCHANGED <<inbuf, step_idx, sent>>
    BY <1>3 DEF PrintPrompt
  <2>2. Prompt \in Seq(Sent) /\ OnePrompt(Prompt) BY PrintedBytes
  <2>3. prompts = step_idx
    <3>1. prompts = 0 \/ prompts <= step_idx - Len(sent) BY <1>0, <2>1 DEF PromptsCounted
    <3>2. step_idx <= prompts BY <1>0 DEF PromptsCounted
    <3> QED BY <1>0, <3>1, <3>2
  <2>4. NoPrompt(inbuf) /\ NoPrompt(stream) BY <1>0, <2>3 DEF PromptsAhead
  <2>5. OnePrompt(stream \o Prompt) /\ stream \o Prompt \in Seq(Sent)
    <3>1. OnePrompt(stream) BY <2>4 DEF NoPrompt, OnePrompt
    <3> QED BY <1>0, <2>2, <2>4, <3>1, QuietConcat, ConcatProperties DEF AtMostOne
  <2>6. SmokeTypes' BY <1>0, <2>1, <2>5 DEF SmokeTypes
  <2>7. PromptsCounted'
    <3>1. prompts = 0 \/ prompts <= step_idx - Len(sent) BY <1>0, <2>1 DEF PromptsCounted
    <3>2. step_idx <= prompts /\ Len(sent) <= step_idx BY <1>0 DEF PromptsCounted
    <3>3. step_idx <= prompts + 1 /\ prompts + 1 <= 1 + step_idx - Len(sent) BY <1>0, <3>1, <3>2
    <3> QED BY <2>1, <3>2, <3>3 DEF PromptsCounted
  <2>8. PromptsAhead'
    <3>1. prompts' # step_idx' BY <1>0, <2>1, <2>3
    <3>2. OnePrompt(inbuf) BY <2>4 DEF NoPrompt, OnePrompt
    <3> QED BY <2>1, <2>4, <2>5, <3>1, <3>2 DEF PromptsAhead, AtMostOne
  <2> QED BY <2>6, <2>7, <2>8 DEF SmokeInv
<1>4. CASE ReadCommand
  <2>1. sent # <<>> /\ sent' = Tail(sent) /\ UNCHANGED <<inbuf, step_idx, prompts>> BY <1>4 DEF ReadCommand
  <2>2. sent' \in Seq(Nat) /\ Len(sent') = Len(sent) - 1 BY <1>0, <2>1
  <2>n. Len(sent') = Len(sent) - 1 /\ Len(sent) \in Nat /\ step_idx \in Nat /\ prompts \in Nat BY <1>0, <2>2
  <2>c. /\ step_idx <= prompts /\ Len(sent) <= step_idx
        /\ cpm = "boot" => prompts = 0
        /\ cpm = "busy" => prompts <= step_idx - Len(sent)
        /\ cpm = "ready" => prompts <= 1 + step_idx - Len(sent)
    BY <1>0 DEF PromptsCounted
  <2>3. CASE cpm = "ready"
    <3>1. cpm' = "busy" /\ stream' = Append(stream, "echo") BY <1>4, <2>3 DEF ReadCommand
    <3>2. stream' = stream \o <<"echo">>
      <4>1. "echo" \in Sent BY DEF Sent
      <4> QED BY <1>0, <3>1, <4>1, AppendIsConcat
    <3>3. <<"echo">> \in Seq(Sent) /\ NoPrompt(<<"echo">>) BY PrintedBytes
    <3>4. PromptsAhead' /\ stream' \in Seq(Sent) BY <2>1, <3>2, <3>3, PrintedQuiet
    <3>5. PromptsCounted' BY <2>1, <2>n, <2>c, <2>3, <3>1 DEF PromptsCounted
    <3>6. SmokeTypes' BY <1>0, <2>1, <2>2, <3>1, <3>4 DEF SmokeTypes
    <3> QED BY <3>4, <3>5, <3>6 DEF SmokeInv
  <2>4. CASE cpm # "ready"
    <3>1. UNCHANGED <<cpm, stream>> BY <1>4, <2>4 DEF ReadCommand
    <3>2. PromptsAhead' BY <1>0, <2>1, <3>1 DEF PromptsAhead
    <3>3. PromptsCounted' BY <2>1, <2>n, <2>c, <2>4, <3>1 DEF PromptsCounted
    <3>4. SmokeTypes' BY <1>0, <2>1, <2>2, <3>1 DEF SmokeTypes
    <3> QED BY <3>2, <3>3, <3>4 DEF SmokeInv
  <2> QED BY <2>3, <2>4
<1>5. CASE RunProgram
  <2>1. UNCHANGED <<inbuf, step_idx, sent, cpm, prompts>> BY <1>5 DEF RunProgram
  <2>2. PICK m \in {Append(Marker, " "), <<"x">>} : stream' = stream \o m BY <1>5 DEF RunProgram
  <2>3. m \in Seq(Sent) /\ NoPrompt(m) BY PrintedBytes
  <2>4. PromptsAhead' /\ stream' \in Seq(Sent) BY <2>1, <2>2, <2>3, PrintedQuiet
  <2>5. PromptsCounted' BY <1>0, <2>1 DEF PromptsCounted
  <2>6. SmokeTypes' BY <1>0, <2>1, <2>4 DEF SmokeTypes
  <2> QED BY <2>4, <2>5, <2>6 DEF SmokeInv
<1> QED BY <1>1, <1>2, <1>3, <1>4, <1>5, RecvDataKeeps DEF SmokeNext
-----------------------------------------------------------------------------
(* What is sent to PIP and what its commands ask for *)

Bytes == {EOF} \cup (FileNames \X Nat)
BatchCommands == ({"PIP", "LOAD", "REN", "RUN"} \X (FileNames \ {"GO.SUB"})) \cup {<<"TRIGGER">>}

\* What a command reads, and what the commands of a batch read.
Whole(f) == Content(f) \o <<EOF>>
FilePart(c) == IF c[1] = "PIP" THEN Whole(c[2]) ELSE <<>>
FileParts(b) == [i \in 1 .. Len(b) |-> FilePart(b[i])]
Need(b) == FlattenSeq(FileParts(b))

\* What a file holds: as many bytes as it is long, none of them an end mark.
LEMMA ContentIs ==
  ASSUME NEW f \in FileNames
  PROVE  /\ Lengths[f] \in Nat /\ Content(f) \in Seq(Bytes) /\ Len(Content(f)) = Lengths[f]
         /\ \A i \in 1 .. Lengths[f] : Content(f)[i] = <<f, i>> /\ Content(f)[i] # EOF
         /\ <<EOF>> \in Seq(Bytes) /\ Whole(f) \in Seq(Bytes)
<1>1. Lengths[f] \in Nat BY FeedSizes
<1>2. \A i \in 1 .. Lengths[f] : <<f, i>> \in Bytes BY <1>1 DEF Bytes
<1>3. \A i \in 1 .. Lengths[f] : <<f, i>> # EOF BY DEF EOF
<1>4. Content(f) \in [1 .. Lengths[f] -> Bytes] /\ \A i \in 1 .. Lengths[f] : Content(f)[i] = <<f, i>>
  BY <1>2 DEF Content
<1>5. Content(f) \in Seq(Bytes) /\ Len(Content(f)) = Lengths[f] BY <1>1, <1>4
<1>6. <<EOF>> \in Seq(Bytes)
  <2>1. EOF \in Bytes BY DEF Bytes
  <2> QED BY <2>1
<1>7. Whole(f) \in Seq(Bytes) BY <1>5, <1>6, ConcatProperties DEF Whole
<1> QED BY <1>1, <1>3, <1>4, <1>5, <1>6, <1>7

\* What a command reads is a sequence of bytes.
LEMMA PartType == ASSUME NEW c \in BatchCommands PROVE FilePart(c) \in Seq(Bytes)
<1>1. CASE c = <<"TRIGGER">> BY <1>1 DEF FilePart
<1>2. CASE c \in {"PIP", "LOAD", "REN", "RUN"} \X (FileNames \ {"GO.SUB"})
  <2>1. c[2] \in FileNames BY <1>2
  <2>2. Whole(c[2]) \in Seq(Bytes) BY <2>1, ContentIs
  <2> QED BY <2>2 DEF FilePart
<1> QED BY <1>1, <1>2 DEF BatchCommands

\* So is what a batch reads.
LEMMA PartsType ==
  ASSUME NEW b \in Seq(BatchCommands)
  PROVE  FileParts(b) \in Seq(Seq(Bytes)) /\ Len(FileParts(b)) = Len(b) /\ Need(b) \in Seq(Bytes)
<1>1. \A i \in 1 .. Len(b) : b[i] \in BatchCommands OBVIOUS
<1>2. FileParts(b) \in [1 .. Len(b) -> Seq(Bytes)] BY <1>1, PartType DEF FileParts
<1>3. Len(b) \in Nat OBVIOUS
<1>4. FileParts(b) \in Seq(Seq(Bytes)) /\ Len(FileParts(b)) = Len(b) BY <1>2, <1>3
<1> QED BY <1>4, FlattenType DEF Need

\* A batch in two parts reads what the first reads and then what the second reads.
LEMMA NeedConcat ==
  ASSUME NEW a \in Seq(BatchCommands), NEW b \in Seq(BatchCommands)
  PROVE  Need(a \o b) = Need(a) \o Need(b)
<1> DEFINE ab == a \o b
           n == Len(a)
           m == Len(b)
           pa == FileParts(a)
           pb == FileParts(b)
           pab == FileParts(ab)
           q == pa \o pb
<1>1. /\ ab \in Seq(BatchCommands) /\ Len(ab) = n + m /\ n \in Nat /\ m \in Nat
      /\ \A i \in 1 .. n + m : ab[i] = IF i <= n THEN a[i] ELSE b[i - n]
  BY ConcatProperties
<1>2. pa \in Seq(Seq(Bytes)) /\ Len(pa) = n /\ pb \in Seq(Seq(Bytes)) /\ Len(pb) = m BY PartsType
<1>3. /\ \A i \in 1 .. n : pa[i] = FilePart(a[i])
      /\ \A i \in 1 .. m : pb[i] = FilePart(b[i])
  BY DEF FileParts
<1> HIDE DEF ab
<1>4. pab \in Seq(Seq(Bytes)) /\ Len(pab) = n + m BY <1>1, PartsType
<1>5. \A i \in 1 .. n + m : pab[i] = FilePart(ab[i]) BY <1>1 DEF FileParts
<1> HIDE DEF n, m, pa, pb, pab
<1>6. /\ q \in Seq(Seq(Bytes)) /\ Len(q) = n + m
      /\ \A i \in 1 .. n + m : q[i] = IF i <= n THEN pa[i] ELSE pb[i - n]
  BY <1>2, ConcatProperties
<1> HIDE DEF q
<1>7. ASSUME NEW i \in 1 .. n + m PROVE pab[i] = q[i]
  <2>1. CASE i <= n
    <3>1. i \in 1 .. n BY <1>1, <2>1
    <3>2. ab[i] = a[i] /\ q[i] = pa[i] BY <1>1, <1>6, <2>1
    <3> QED BY <1>3, <1>5, <3>1, <3>2
  <2>2. CASE ~(i <= n)
    <3>1. i - n \in 1 .. m BY <1>1, <2>2
    <3>2. ab[i] = b[i - n] /\ q[i] = pb[i - n] BY <1>1, <1>6, <2>2
    <3> QED BY <1>3, <1>5, <3>1, <3>2
  <2> QED BY <2>1, <2>2
<1>8. pab = q BY <1>4, <1>6, <1>7, SeqEqual
<1>9. FlattenSeq(q) = FlattenSeq(pa) \o FlattenSeq(pb) BY <1>2, FlattenConcat DEF q
<1> QED BY <1>8, <1>9 DEF Need, pab, ab, pa, pb

\* A batch of one command reads what that command reads.
LEMMA NeedOne ==
  ASSUME NEW c \in BatchCommands
  PROVE  <<c>> \in Seq(BatchCommands) /\ Need(<<c>>) = FilePart(c)
<1>0. <<c>> \in Seq(BatchCommands) /\ Len(<<c>>) = 1 /\ <<c>>[1] = c OBVIOUS
<1>1. FilePart(c) \in Seq(Bytes) BY PartType
<1>2. FileParts(<<c>>) = <<FilePart(c)>> BY <1>0 DEF FileParts
<1>3. <<FilePart(c)>> = Append(<<>>, FilePart(c)) /\ <<>> \in Seq(Seq(Bytes)) BY <1>1
<1>4. FlattenSeq(Append(<<>>, FilePart(c))) = FlattenSeq(<<>>) \o FilePart(c) BY <1>1, <1>3, FlattenAppend
<1>5. <<>> \o FilePart(c) = FilePart(c) BY <1>1, ConcatEmptySeq
<1> QED BY <1>0, <1>2, <1>3, <1>4, <1>5, FlattenEmpty DEF Need

\* An empty batch reads nothing.
LEMMA NeedNone == Need(<<>>) = <<>>
<1>1. FileParts(<<>>) = <<>>
  <2>1. Len(<<>>) = 0 OBVIOUS
  <2>2. FileParts(<<>>) = [i \in 1 .. 0 |-> FilePart(<<>>[i])] BY <2>1 DEF FileParts
  <2>3. [i \in 1 .. 0 |-> FilePart(<<>>[i])] \in Seq({}) /\ Len([i \in 1 .. 0 |-> FilePart(<<>>[i])]) = 0 OBVIOUS
  <2> QED BY <2>2, <2>3
<1> QED BY <1>1, FlattenEmpty DEF Need

\* The next command's file comes first.
LEMMA NeedNext ==
  ASSUME NEW b \in Seq(BatchCommands), b # <<>>
  PROVE  /\ Head(b) \in BatchCommands /\ Tail(b) \in Seq(BatchCommands)
         /\ Need(b) = FilePart(Head(b)) \o Need(Tail(b))
<1>1. Head(b) \in BatchCommands /\ Tail(b) \in Seq(BatchCommands) OBVIOUS
<1>2. b = <<Head(b)>> \o Tail(b) OBVIOUS
<1>3. <<Head(b)>> \in Seq(BatchCommands) /\ Need(<<Head(b)>>) = FilePart(Head(b)) BY <1>1, NeedOne
<1>4. Need(<<Head(b)>> \o Tail(b)) = Need(<<Head(b)>>) \o Need(Tail(b)) BY <1>1, <1>3, NeedConcat
<1> QED BY <1>1, <1>2, <1>3, <1>4

\* The commands of GO.SUB for one file, and what they read.
BatchSteps(i) ==
    LET f == <<"CHKSUM", "CPNETLDR", "NETWORK", "CCP", "SNIOS", "NDOS">>[i]
    IN  <<<<"PIP", f>>, <<"LOAD", f>>>> \o (IF i > 3 THEN <<<<"REN", f>>>> ELSE <<>>)

\* The two lists of names, of send_hex_files and of GO.SUB, are the same.
LEMMA OrderIs ==
  ASSUME NEW i \in 1 .. 6
  PROVE  /\ <<"CHKSUM", "CPNETLDR", "NETWORK", "CCP", "SNIOS", "NDOS">>[i] \in FileNames \ {"GO.SUB"}
         /\ <<"CHKSUM", "CPNETLDR", "NETWORK", "CCP", "SNIOS", "NDOS">>[i] = FILE_ORDER[i]
<1>1. i = 1 \/ i = 2 \/ i = 3 \/ i = 4 \/ i = 5 \/ i = 6 OBVIOUS
<1> QED BY <1>1 DEF FILE_ORDER, FileNames

\* A pair in two parts.
LEMMA PairIs == ASSUME NEW a, NEW b PROVE <<a, b>> = <<a>> \o <<b>>
<1> DEFINE S == {a, b}
           x == <<a>>
           y == <<b>>
           z == <<a, b>>
           v == x \o y
<1>1. x \in Seq(S) /\ y \in Seq(S) /\ Len(x) = 1 /\ Len(y) = 1 /\ x[1] = a /\ y[1] = b OBVIOUS
<1>2. z \in Seq(S) /\ Len(z) = 2 /\ z[1] = a /\ z[2] = b OBVIOUS
<1> HIDE DEF x, y, z, S
<1>3. v \in Seq(S) /\ Len(v) = 1 + 1 /\ \A i \in 1 .. 1 + 1 : v[i] = IF i <= 1 THEN x[i] ELSE y[i - 1]
  BY <1>1, ConcatProperties
<1> HIDE DEF v
<1>4. Len(v) = 2 /\ v[1] = a /\ v[2] = b BY <1>1, <1>3
<1>5. \A i \in 1 .. 2 : i = 1 \/ i = 2 OBVIOUS
<1>6. \A i \in 1 .. Len(v) : v[i] = z[i] BY <1>2, <1>4, <1>5
<1>7. v = z BY <1>2, <1>3, <1>4, <1>6, SeqEqual
<1> QED BY <1>7 DEF v, x, y, z

\* Elements of a concatenation.
LEMMA ConcatLeft ==
  ASSUME NEW S, NEW s \in Seq(S), NEW t \in Seq(S), NEW i \in 1 .. Len(s)
  PROVE  (s \o t)[i] = s[i]
<1>1. i \in 1 .. Len(s) + Len(t) /\ i <= Len(s) OBVIOUS
<1>2. (s \o t)[i] = IF i <= Len(s) THEN s[i] ELSE t[i - Len(s)] BY <1>1, ConcatProperties
<1> QED BY <1>1, <1>2

\* Equals joined on the right.
LEMMA ConcatRight ==
  ASSUME NEW S, NEW s \in Seq(S), NEW t \in Seq(S), t # <<>>
  PROVE  (s \o t)[Len(s) + 1] = Head(t)
<1>1. Len(s) + 1 \in 1 .. Len(s) + Len(t) /\ ~(Len(s) + 1 <= Len(s)) /\ (Len(s) + 1) - Len(s) = 1 OBVIOUS
<1>2. (s \o t)[Len(s) + 1] = IF Len(s) + 1 <= Len(s) THEN s[Len(s) + 1] ELSE t[(Len(s) + 1) - Len(s)]
  BY <1>1, ConcatProperties
<1>3. t[1] = Head(t) OBVIOUS
<1> QED BY <1>1, <1>2, <1>3

\* The commands for one file read that file and its end mark.
LEMMA StepsNeed ==
  ASSUME NEW i \in 1 .. 6
  PROVE  BatchSteps(i) \in Seq(BatchCommands) /\ Need(BatchSteps(i)) = Whole(FILE_ORDER[i])
<1> DEFINE f == FILE_ORDER[i]
           p == <<"PIP", f>>
           l == <<"LOAD", f>>
           r == <<"REN", f>>
           t == IF i > 3 THEN <<r>> ELSE <<>>
<1>1. f \in FileNames \ {"GO.SUB"} BY OrderIs
<1>2. BatchSteps(i) = <<p, l>> \o t BY OrderIs DEF BatchSteps
<1> HIDE DEF f
<1>3. p \in BatchCommands /\ l \in BatchCommands /\ r \in BatchCommands BY <1>1 DEF BatchCommands
<1>4. FilePart(p) = Whole(f) /\ FilePart(l) = <<>> /\ FilePart(r) = <<>> BY DEF FilePart
<1> HIDE DEF p, l, r
<1>5. <<p, l>> = <<p>> \o <<l>> BY PairIs
<1>6. <<p>> \in Seq(BatchCommands) /\ <<l>> \in Seq(BatchCommands) /\ t \in Seq(BatchCommands) BY <1>3
<1>7. Need(<<p>>) = Whole(f) /\ Need(<<l>>) = <<>> BY <1>3, <1>4, NeedOne
<1>8. Need(t) = <<>> BY <1>3, <1>4, NeedOne, NeedNone
<1>9. Whole(f) \in Seq(Bytes) BY <1>1, ContentIs
<1>10. Whole(f) \o <<>> = Whole(f) BY <1>9, ConcatEmptySeq
<1>11. <<p>> \o <<l>> \in Seq(BatchCommands) BY <1>6, ConcatProperties
<1>12. Need(<<p>> \o <<l>>) = Whole(f) BY <1>6, <1>7, <1>10, NeedConcat
<1>13. Need((<<p>> \o <<l>>) \o t) = Whole(f) BY <1>6, <1>8, <1>10, <1>11, <1>12, NeedConcat
<1>14. (<<p>> \o <<l>>) \o t \in Seq(BatchCommands) BY <1>6, <1>11, ConcatProperties
<1> QED BY <1>2, <1>5, <1>13, <1>14 DEF f

\* GO.SUB reads the six files in the order send_hex_files sends them.
LEMMA GoSubNeeds ==
  /\ go_sub \in Seq(BatchCommands)
  /\ Need(go_sub) = FlattenSeq([i \in 1 .. 6 |-> Whole(FILE_ORDER[i])])
<1> DEFINE G == [i \in 1 .. 6 |-> BatchSteps(i)]
           H == [i \in 1 .. 6 |-> Whole(FILE_ORDER[i])]
           run == <<"RUN", "CPNETLDR">>
           u(k) == SubSeq(G, 1, k)
           v(k) == SubSeq(H, 1, k)
           R(k) == FlattenSeq(u(k)) \in Seq(BatchCommands) /\ Need(FlattenSeq(u(k))) = FlattenSeq(v(k))
           T == {k \in 0 .. 6 : R(k)}
<1>1. go_sub = FlattenSeq(G) \o <<run>> BY DEF go_sub, BatchSteps
<1>2. G \in Seq(Seq(BatchCommands)) /\ Len(G) = 6 /\ \A i \in 1 .. 6 : G[i] = BatchSteps(i)
  <2>1. G \in [1 .. 6 -> Seq(BatchCommands)] BY StepsNeed
  <2> QED BY <2>1
<1>3. H \in Seq(Seq(Bytes)) /\ Len(H) = 6 /\ \A i \in 1 .. 6 : H[i] = Whole(FILE_ORDER[i])
  <2>1. \A i \in 1 .. 6 : Whole(FILE_ORDER[i]) \in Seq(Bytes) BY OrderIs, ContentIs
  <2>2. H \in [1 .. 6 -> Seq(Bytes)] BY <2>1
  <2> QED BY <2>2
<1> HIDE DEF G, H
<1>4. u(6) = G /\ v(6) = H BY <1>2, <1>3, SubSeqFull
<1>5. 0 \in T
  <2>1. u(0) = <<>> /\ v(0) = <<>> /\ <<>> \in Seq(BatchCommands) BY <1>2, <1>3
  <2>2. R(0) BY <2>1, FlattenEmpty, NeedNone
  <2> QED BY <2>2
<1>6. ASSUME NEW k \in 0 .. 6, k > 0, k - 1 \in T PROVE k \in T
  <2>0. k \in 1 .. 6 BY <1>6
  <2>1. u(k) = Append(u(k - 1), G[k]) /\ u(k - 1) \in Seq(Seq(BatchCommands)) /\ G[k] \in Seq(BatchCommands)
    BY <1>2, <2>0, PrefixGrows
  <2>2. v(k) = Append(v(k - 1), H[k]) /\ v(k - 1) \in Seq(Seq(Bytes)) /\ H[k] \in Seq(Bytes)
    BY <1>3, <2>0, PrefixGrows
  <2>3. R(k - 1) BY <1>6
  <2> HIDE DEF u, v
  <2>4. FlattenSeq(u(k)) = FlattenSeq(u(k - 1)) \o G[k] BY <2>1, FlattenAppend
  <2>5. FlattenSeq(v(k)) = FlattenSeq(v(k - 1)) \o H[k] BY <2>2, FlattenAppend
  <2>6. Need(G[k]) = H[k] BY <1>2, <1>3, <2>0, StepsNeed
  <2>7. FlattenSeq(u(k - 1)) \in Seq(BatchCommands) BY <2>3
  <2>8. Need(FlattenSeq(u(k - 1)) \o G[k]) = Need(FlattenSeq(u(k - 1))) \o Need(G[k]) BY <2>1, <2>7, NeedConcat
  <2>9. FlattenSeq(u(k - 1)) \o G[k] \in Seq(BatchCommands) BY <2>1, <2>7, ConcatProperties
  <2>10. R(k) BY <2>3, <2>4, <2>5, <2>6, <2>8, <2>9
  <2> QED BY <2>10
<1> HIDE DEF T, u, v
<1>7. 6 \in T BY <1>5, <1>6, UpTo
<1>8. FlattenSeq(G) \in Seq(BatchCommands) /\ Need(FlattenSeq(G)) = FlattenSeq(H) BY <1>4, <1>7 DEF T
<1>9. run \in BatchCommands /\ FilePart(run) = <<>> BY DEF BatchCommands, FileNames, FilePart
<1>10. <<run>> \in Seq(BatchCommands) /\ Need(<<run>>) = <<>> BY <1>9, NeedOne
<1> HIDE DEF run
<1>11. FlattenSeq(G) \o <<run>> \in Seq(BatchCommands) BY <1>8, <1>10, ConcatProperties
<1>12. Need(FlattenSeq(G) \o <<run>>) = FlattenSeq(H) \o <<>> BY <1>8, <1>10, NeedConcat
<1>13. FlattenSeq(H) \o <<>> = FlattenSeq(H)
  <2>1. FlattenSeq(H) \in Seq(Bytes) BY <1>3, FlattenType
  <2> QED BY <2>1, ConcatEmptySeq
<1> QED BY <1>1, <1>11, <1>12, <1>13 DEF H

\* All that is sent, and what is asked for first.
HexStream == Whole("GO.SUB") \o Need(go_sub)

\* With all files there, what send_hex_files sends is what GO.SUB's PIPs read.
LEMMA HexStreamSent == absent = {} => send_hex_files = HexStream
<1> SUFFICES ASSUME absent = {} PROVE send_hex_files = HexStream OBVIOUS
<1>1. [i \in 1 .. 6 |-> IF FILE_ORDER[i] \in absent THEN <<>> ELSE Content(FILE_ORDER[i]) \o <<EOF>>]
         = [i \in 1 .. 6 |-> Whole(FILE_ORDER[i])]
  BY DEF Whole
<1> QED BY <1>1, GoSubNeeds DEF send_hex_files, HexStream, Whole

\* It is a sequence of bytes.
LEMMA HexStreamType == HexStream \in Seq(Bytes)
<1>1. Whole("GO.SUB") \in Seq(Bytes)
  <2>1. "GO.SUB" \in FileNames BY DEF FileNames
  <2> QED BY <2>1, ContentIs
<1>2. Need(go_sub) \in Seq(Bytes) BY GoSubNeeds, PartsType
<1> QED BY <1>1, <1>2, ConcatProperties DEF HexStream

\* One byte read by PIP from r, with w written and n behind the file.
ReadRight(f, w, r, n) ==
    /\ Head(r) = EOF => w = Content(f) /\ Tail(r) = n
    /\ Head(r) # EOF => /\ Len(Append(w, Head(r))) <= Lengths[f]
                        /\ Append(w, Head(r)) \o Tail(r) = Whole(f) \o n

\* The end mark comes when the file is whole and not before.
LEMMA ByteRead ==
  ASSUME NEW f \in FileNames, NEW w \in Seq(Bytes), NEW r \in Seq(Bytes), NEW n \in Seq(Bytes), r # <<>>,
         w \o r = Whole(f) \o n, Len(w) <= Lengths[f]
  PROVE  ReadRight(f, w, r, n)
<1> DEFINE L == Lengths[f]
           k == Len(w)
           c == Content(f)
           z == w \o r
           h == Head(r)
<1>0. /\ L \in Nat /\ c \in Seq(Bytes) /\ Len(c) = L /\ \A i \in 1 .. L : c[i] # EOF
      /\ <<EOF>> \in Seq(Bytes) /\ Whole(f) \in Seq(Bytes) /\ k \in Nat /\ Len(r) \in Nat /\ Len(r) > 0
  BY ContentIs
<1>1. r = <<h>> \o Tail(r) /\ h \in Bytes /\ <<h>> \in Seq(Bytes) /\ Tail(r) \in Seq(Bytes) OBVIOUS
<1>2. z = c \o (<<EOF>> \o n) /\ <<EOF>> \o n \in Seq(Bytes)
  BY <1>0, ConcatAssociative, ConcatProperties DEF Whole
<1>3. z[k + 1] = h BY ConcatRight
<1>e. <<EOF>> \o n # <<>> /\ Head(<<EOF>> \o n) = EOF BY <1>0
<1>4. ASSUME NEW i \in 1 .. L PROVE z[i] = c[i]
  <2>1. c \in Seq(Bytes) /\ <<EOF>> \o n \in Seq(Bytes) /\ i \in 1 .. Len(c) BY <1>0, <1>2
  <2>2. (c \o (<<EOF>> \o n))[i] = c[i] BY <2>1, ConcatLeft
  <2> QED BY <1>2, <2>2
<1>5. z[L + 1] = EOF
  <2>1. c \in Seq(Bytes) /\ <<EOF>> \o n \in Seq(Bytes) BY <1>0, <1>2
  <2>2. (c \o (<<EOF>> \o n))[Len(c) + 1] = Head(<<EOF>> \o n) BY <2>1, <1>e, ConcatRight
  <2> QED BY <1>0, <1>2, <1>e, <2>2
<1>6. ASSUME h = EOF PROVE w = c /\ Tail(r) = n
  <2>1. k = L
    <3>1. k <= L BY <1>0
    <3>2. ~(k + 1 \in 1 .. L) BY <1>0, <1>3, <1>4, <1>6
    <3> HIDE DEF k, L
    <3> QED BY <1>0, <3>1, <3>2
  <2>2. \A i \in 1 .. k : z[i] = w[i] BY ConcatLeft
  <2>3. w = c
    <3>1. Len(w) = Len(c) /\ \A i \in 1 .. Len(w) : w[i] = c[i] BY <1>0, <1>4, <2>1, <2>2
    <3> QED BY <1>0, <3>1, SeqEqual
  <2>4. r = <<EOF>> \o n
    <3>1. c \o r = c \o (<<EOF>> \o n) BY <1>2, <2>3
    <3> HIDE DEF c
    <3> QED BY <1>0, <1>2, <3>1, ConcatSimplifications
  <2>5. Tail(<<EOF>> \o n) = n
    <3>1. <<EOF>> \o Tail(r) = <<EOF>> \o n BY <1>1, <1>6, <2>4
    <3>2. Tail(r) = n BY <1>0, <1>1, <3>1, ConcatSimplifications
    <3> QED BY <2>4, <3>2
  <2> QED BY <2>3, <2>4, <2>5
<1>7. ASSUME h # EOF PROVE Len(Append(w, h)) <= L /\ Append(w, h) \o Tail(r) = Whole(f) \o n
  <2>1. k # L BY <1>3, <1>5, <1>7
  <2>2. k + 1 <= L
    <3>1. k <= L BY <1>0
    <3> HIDE DEF k, L
    <3> QED BY <1>0, <2>1, <3>1
  <2>3. Len(Append(w, h)) = k + 1 /\ Append(w, h) = w \o <<h>> BY <1>1, AppendProperties, AppendIsConcat
  <2>4. (w \o <<h>>) \o Tail(r) = w \o (<<h>> \o Tail(r)) BY <1>1, ConcatAssociative
  <2> QED BY <1>1, <2>2, <2>3, <2>4
<1> QED BY <1>6, <1>7 DEF ReadRight

-----------------------------------------------------------------------------
(* The files PIP is fed with *)

FirstBatch == <<<<"PIP", "GO.SUB">>>>

\* The types of the variables.
FeedTypes ==
    /\ unsent \in Seq(Bytes) /\ wire \in Seq(Bytes) /\ ring \in Seq(Bytes)
    /\ pip \in FileNames \cup {"none"} /\ files \in [FileNames -> Seq(Bytes)] /\ coms \in [FileNames -> Seq(Bytes)]
    /\ batch = FirstBatch \/ batch \in Seq(BatchCommands)

\* What is still to come to PIP.
Coming == IF sender = "wait" THEN (IF feed = "hex" THEN HexStream ELSE Payload) ELSE (ring \o wire) \o unsent

\* What the commands still ask for, behind the file that PIP reads.
Asked == IF batch = FirstBatch THEN HexStream ELSE Need(batch)
AskedBehind == IF pip = "GO.SUB" THEN Need(go_sub) ELSE Need(batch)

\* A server that has waited in vain sends nothing.
GaveUp ==
    /\ sender = "failed" /\ unsent = <<>> /\ wire = <<>> /\ ring = <<>>
    /\ \A f \in FileNames : files[f] = <<>>

\* What comes is what is asked for, in that order.
InStep ==
    \/ GaveUp
    \/ pip = "none" /\ Coming = Asked
    \/ /\ pip # "none" /\ batch # FirstBatch /\ Len(files[pip]) <= Lengths[pip]
       /\ files[pip] \o Coming = Whole(pip) \o AskedBehind

\* A file that PIP is not writing is empty or whole, and so is what LOAD has made of one.
FilesWhole == \A f \in FileNames : (f # pip => files[f] \in {<<>>, Content(f)}) /\ coms[f] \in {<<>>, Content(f)}

\* All this, and what a sender that waits has not sent; on SIO-B the ring takes all that
\* is under way.
Fed ==
    /\ FeedTypes /\ FilesWhole /\ InStep
    /\ sender = "wait" => wire = <<>> /\ ring = <<>> /\ unsent = <<>>
    /\ sender = "wait" /\ feed # "hex" => \A f \in FileNames : files[f] = <<>>
    /\ feed = "iobyte" => Len(wire) + Len(ring) <= RingSize

\* The invariant of the senders: nothing is claimed when a file was missing, or when a byte
\* went over the line before it was set.
FeedInv == (feed # "hex" => absent = {}) /\ (absent = {} /\ ~early => Fed)

\* The commands of a batch are not the first one's.
LEMMA NotFirst == ASSUME NEW b \in Seq(BatchCommands) PROVE b # FirstBatch
<1> SUFFICES ASSUME b = FirstBatch PROVE FALSE OBVIOUS
<1>1. Len(b) = 1 /\ b[1] = <<"PIP", "GO.SUB">> BY DEF FirstBatch
<1>2. b[1] \in BatchCommands BY <1>1
<1>3. b[1][2] = "GO.SUB" /\ b[1] # <<"TRIGGER">> BY <1>1
<1> QED BY <1>2, <1>3 DEF BatchCommands

\* The one file of the other two senders.
LEMMA PayloadIs ==
  /\ Payload \in Seq(Bytes) /\ Payload = Need(<<<<"PIP", "PAYLOAD">>, <<"TRIGGER">>>>)
  /\ <<<<"PIP", "PAYLOAD">>, <<"TRIGGER">>>> \in Seq(BatchCommands)
<1> DEFINE p == <<"PIP", "PAYLOAD">>
           t == <<"TRIGGER">>
<1>1. p \in BatchCommands /\ t \in BatchCommands BY DEF BatchCommands, FileNames
<1>2. FilePart(p) = Payload /\ FilePart(t) = <<>> BY DEF FilePart, Whole, Payload
<1>3. Payload \in Seq(Bytes)
  <2>1. "PAYLOAD" \in FileNames BY DEF FileNames
  <2> QED BY <2>1, ContentIs DEF Payload, Whole
<1> HIDE DEF p, t
<1>4. /\ <<p>> \in Seq(BatchCommands) /\ Need(<<p>>) = Payload /\ <<t>> \in Seq(BatchCommands) /\ Need(<<t>>) = <<>>
  BY <1>1, <1>2, NeedOne
<1>5. <<p, t>> = <<p>> \o <<t>> BY PairIs
<1>6. Need(<<p>> \o <<t>>) = Payload \o <<>> BY <1>4, NeedConcat
<1>7. Payload \o <<>> = Payload BY <1>3, ConcatEmptySeq
<1>8. <<p>> \o <<t>> \in Seq(BatchCommands) BY <1>4, ConcatProperties
<1> QED BY <1>3, <1>5, <1>6, <1>7, <1>8 DEF p, t

\* At the start everything is still to be sent, and all of it will be asked for.
LEMMA FeedStarts == ASSUME FeedsInit \/ FeedsIdle PROVE FeedInv
<1>0. /\ unsent = <<>> /\ wire = <<>> /\ ring = <<>> /\ pip = "none" /\ files = Empty /\ coms = Empty
      /\ feed # "hex" => absent = {}
  BY DEF FeedsInit, FeedsIdle
<1>1. batch = FirstBatch \/ batch \in Seq(BatchCommands)
  <2>1. CASE FeedsIdle BY <2>1 DEF FeedsIdle
  <2>2. CASE FeedsInit /\ feed = "hex" BY <2>2 DEF FeedsInit, FirstBatch
  <2>3. CASE FeedsInit /\ feed # "hex"
    <3>1. batch = <<<<"PIP", "PAYLOAD">>, <<"TRIGGER">>>> BY <2>3 DEF FeedsInit
    <3> QED BY <3>1, PayloadIs
  <2> QED BY <2>1, <2>2, <2>3
<1>2. FeedTypes BY <1>0, <1>1 DEF FeedTypes, Empty
<1>3. FilesWhole BY <1>0 DEF FilesWhole, Empty
<1>4. InStep
  <2>1. CASE FeedsIdle
    <3>1. batch = <<>> /\ sender = "done" BY <2>1 DEF FeedsIdle
    <3>2. batch # FirstBatch BY <3>1 DEF FirstBatch
    <3>3. Asked = <<>> BY <3>1, <3>2, NeedNone DEF Asked
    <3>4. Coming = <<>> BY <1>0, <3>1 DEF Coming
    <3> QED BY <1>0, <3>3, <3>4 DEF InStep
  <2>2. CASE FeedsInit
    <3>1. sender = "wait" BY <2>2 DEF FeedsInit
    <3>2. CASE feed = "hex"
      <4>1. batch = FirstBatch BY <2>2, <3>2 DEF FeedsInit, FirstBatch
      <4> QED BY <1>0, <3>1, <3>2, <4>1 DEF InStep, Coming, Asked
    <3>3. CASE feed # "hex"
      <4>1. batch = <<<<"PIP", "PAYLOAD">>, <<"TRIGGER">>>> BY <2>2, <3>3 DEF FeedsInit
      <4>2. batch # FirstBatch BY <4>1, PayloadIs, NotFirst
      <4> QED BY <1>0, <3>1, <3>3, <4>1, <4>2, PayloadIs DEF InStep, Coming, Asked
    <3> QED BY <3>2, <3>3
  <2> QED BY <2>1, <2>2
<1>5. Len(wire) + Len(ring) <= RingSize BY <1>0, FeedSizes
<1>6. \A f \in FileNames : files[f] = <<>> BY <1>0 DEF Empty
<1> QED BY <1>0, <1>2, <1>3, <1>4, <1>5, <1>6 DEF FeedInv, Fed

\* A step that touches none of what PIP has, and leaves what comes as it is.
LEMMA SentOn ==
  ASSUME Fed, UNCHANGED <<feed, batch, pip, files, coms>>, Coming' = Coming, ~GaveUp,
         unsent' \in Seq(Bytes), wire' \in Seq(Bytes), ring' \in Seq(Bytes), sender' # "wait",
         feed = "iobyte" => Len(wire') + Len(ring') <= RingSize
  PROVE  Fed'
<1>1. FeedTypes' BY DEF Fed, FeedTypes
<1>2. FilesWhole' BY DEF Fed, FilesWhole
<1>3. InStep' BY DEF Fed, InStep, Asked, AskedBehind
<1> QED BY <1>1, <1>2, <1>3 DEF Fed

\* Empty buffers in front change nothing.
LEMMA EmptyRows == ASSUME NEW S, NEW s \in Seq(S) PROVE (<<>> \o <<>>) \o s = s
<1>1. <<>> \in Seq(S) OBVIOUS
<1>2. <<>> \o <<>> = <<>> BY <1>1, ConcatEmptySeq
<1> QED BY <1>2, ConcatEmptySeq

\* The sender: what is taken from it comes.
LEMMA SenderKeeps ==
  ASSUME Fed, absent = {},
         PollTrigger \/ PollTimeout \/ StartHexFiles \/ SendChunk \/ SendFails \/ AllSent
  PROVE  Fed'
<1>0. FeedTypes /\ unsent \in Seq(Bytes) /\ wire \in Seq(Bytes) /\ ring \in Seq(Bytes) BY DEF Fed, FeedTypes
<1>1. CASE PollTrigger
  <2>1. /\ sender = "wait" /\ feed # "hex" /\ sender' = "send" /\ unsent' = Payload
        /\ UNCHANGED <<feed, wire, ring, batch, pip, files, coms>>
    BY <1>1 DEF PollTrigger
  <2>2. wire = <<>> /\ ring = <<>> BY <2>1 DEF Fed
  <2>3. Payload \in Seq(Bytes) BY PayloadIs
  <2>4. Coming' = Coming BY <2>1, <2>2, <2>3, EmptyRows DEF Coming
  <2>5. feed = "iobyte" => Len(wire') + Len(ring') <= RingSize BY <2>1 DEF Fed
  <2>6. ~GaveUp BY <2>1 DEF GaveUp
  <2> QED BY <1>0, <2>1, <2>3, <2>4, <2>5, <2>6, SentOn
<1>2. CASE StartHexFiles
  <2>1. /\ sender = "wait" /\ feed = "hex" /\ sender' = "send" /\ unsent' = HexStream
        /\ UNCHANGED <<feed, wire, ring, batch, pip, files, coms>>
    BY <1>2, HexStreamSent DEF StartHexFiles
  <2>2. wire = <<>> /\ ring = <<>> BY <2>1 DEF Fed
  <2>3. HexStream \in Seq(Bytes) BY HexStreamType
  <2>4. Coming' = Coming BY <2>1, <2>2, <2>3, EmptyRows DEF Coming
  <2>5. feed = "iobyte" => Len(wire') + Len(ring') <= RingSize BY <2>1 DEF Fed
  <2>6. ~GaveUp BY <2>1 DEF GaveUp
  <2> QED BY <1>0, <2>1, <2>3, <2>4, <2>5, <2>6, SentOn
<1>3. CASE PollTimeout
  <2>1. /\ sender = "wait" /\ feed # "hex" /\ sender' = "failed"
        /\ UNCHANGED <<feed, unsent, wire, ring, batch, pip, files, coms>>
    BY <1>3 DEF PollTimeout
  <2>2. GaveUp' BY <2>1 DEF Fed, GaveUp
  <2>3. FeedTypes' /\ FilesWhole' BY <2>1 DEF Fed, FeedTypes, FilesWhole
  <2>4. feed' = "iobyte" => Len(wire') + Len(ring') <= RingSize BY <2>1 DEF Fed
  <2> QED BY <2>1, <2>2, <2>3, <2>4 DEF Fed, InStep
<1>4. CASE SendFails \/ AllSent
  <2>1. /\ sender = "send" /\ sender' \in {"failed", "done"}
        /\ UNCHANGED <<feed, unsent, wire, ring, batch, pip, files, coms>>
    BY <1>4 DEF SendFails, AllSent
  <2>2. ~GaveUp /\ sender' # "wait" BY <2>1 DEF GaveUp
  <2>3. Coming' = Coming BY <2>1, <2>2 DEF Coming
  <2>4. feed = "iobyte" => Len(wire') + Len(ring') <= RingSize BY <2>1 DEF Fed
  <2> QED BY <1>0, <2>1, <2>2, <2>3, <2>4, SentOn
<1>5. CASE SendChunk
  <2> DEFINE n == Len(unsent)
             k == IF n < Chunk THEN n ELSE Chunk
             x == SubSeq(unsent, 1, k)
             y == SubSeq(unsent, k + 1, n)
  <2>1. /\ sender = "send" /\ sender' = "send" /\ wire' = wire \o x /\ unsent' = y
        /\ UNCHANGED <<feed, ring, batch, pip, files, coms>>
        /\ feed = "iobyte" => Len(wire) + Len(ring) <= Lag
    BY <1>5 DEF SendChunk
  <2>2. n \in Nat /\ Chunk \in Nat BY <1>0, FeedSizes
  <2>3. k \in Nat /\ k <= n /\ k <= Chunk BY <2>2
  <2> HIDE DEF k
  <2>4. x \in Seq(Bytes) /\ y \in Seq(Bytes) /\ Len(x) = k BY <1>0, <2>2, <2>3
  <2>5. x \o y = unsent
    <3>1. 1 \in 1 .. n + 1 /\ k \in 1 - 1 .. n /\ n \in k .. n BY <2>2, <2>3
    <3>2. x \o y = SubSeq(unsent, 1, n) BY <1>0, <3>1, ConcatAdjacentSubSeq
    <3> QED BY <1>0, <3>2, SubSeqFull
  <2> HIDE DEF x, y, n
  <2>6. Coming' = Coming
    <3> DEFINE q == ring \o wire
    <3>0. ring \in Seq(Bytes) /\ wire \in Seq(Bytes) /\ x \in Seq(Bytes) BY <1>0, <2>4
    <3>1. (ring \o wire) \o x = ring \o (wire \o x) BY <3>0, ConcatAssociative
    <3>2. q \in Seq(Bytes) BY <1>0, ConcatProperties
    <3> HIDE DEF q
    <3>3. x \in Seq(Bytes) /\ y \in Seq(Bytes) BY <2>4
    <3>4. (q \o x) \o y = q \o (x \o y) BY <3>2, <3>3, ConcatAssociative
    <3> QED BY <2>1, <2>5, <3>1, <3>4 DEF Coming, q
  <2>7. feed = "iobyte" => Len(wire') + Len(ring') <= RingSize
    <3>1. Len(wire') = Len(wire) + k BY <1>0, <2>1, <2>4, ConcatProperties
    <3>2. Len(wire) \in Nat /\ Len(ring) \in Nat BY <1>0
    <3> QED BY <2>1, <2>2, <2>3, <3>1, <3>2, LagFits, FeedSizes
  <2>8. ~GaveUp BY <2>1 DEF GaveUp
  <2>9. wire' \in Seq(Bytes) BY <1>0, <2>1, <2>4, ConcatProperties
  <2> QED BY <1>0, <2>1, <2>4, <2>6, <2>7, <2>8, <2>9, SentOn
<1> QED BY <1>1, <1>2, <1>3, <1>4, <1>5

\* The line, once it is set: a byte goes into the ring, where there is room for it.
LEMMA TransmitKeeps == ASSUME Fed, Transmit, ~early' PROVE Fed'
<1>0. FeedTypes /\ unsent \in Seq(Bytes) /\ wire \in Seq(Bytes) /\ ring \in Seq(Bytes) BY DEF Fed, FeedTypes
<1>1. wire # <<>> /\ wire' = Tail(wire) /\ UNCHANGED <<feed, unsent, sender, batch, pip, files, coms>>
  BY DEF Transmit
<1>c. /\ feed # "iobyte" => Len(ring) < RingSize
      /\ ring' = IF Len(ring) < RingSize THEN Append(ring, Head(wire)) ELSE ring
  BY DEF Transmit
<1> DEFINE h == Head(wire)
           t == Tail(wire)
<1>2. wire = <<h>> \o t /\ h \in Bytes /\ t \in Seq(Bytes) /\ Len(t) = Len(wire) - 1 /\ Len(wire) \in Nat
      /\ Len(wire) > 0 /\ Len(ring) \in Nat
  BY <1>0, <1>1
<1>3. Len(ring) < RingSize
  <2>1. CASE feed # "iobyte" BY <1>c, <2>1
  <2>2. CASE feed = "iobyte"
    <3>1. Len(wire) + Len(ring) <= RingSize BY <2>2 DEF Fed
    <3> QED BY <1>2, <3>1, FeedSizes
  <2> QED BY <2>1, <2>2
<1>4. ring' = Append(ring, h) BY <1>c, <1>3
<1> HIDE DEF h, t
<1>5. ring' \in Seq(Bytes) /\ Len(ring') = Len(ring) + 1 /\ ring' = ring \o <<h>>
  BY <1>0, <1>2, <1>4, AppendProperties, AppendIsConcat
<1>6. ~GaveUp /\ sender # "wait" BY <1>1 DEF GaveUp, Fed
<1>7. Coming' = Coming
  <2>1. <<h>> \in Seq(Bytes) BY <1>2
  <2>2. (ring \o <<h>>) \o t = ring \o (<<h>> \o t) BY <1>0, <1>2, <2>1, ConcatAssociative
  <2>3. wire' = t BY <1>1 DEF t
  <2> QED BY <1>1, <1>2, <1>5, <1>6, <2>2, <2>3 DEF Coming
<1>8. feed = "iobyte" => Len(wire') + Len(ring') <= RingSize
  <2>1. Len(wire') = Len(wire) - 1 BY <1>1, <1>2 DEF t
  <2>2. feed = "iobyte" => Len(wire) + Len(ring) <= RingSize BY DEF Fed
  <2> QED BY <1>2, <1>5, <2>1, <2>2, FeedSizes
<1>9. wire' \in Seq(Bytes) BY <1>1, <1>2 DEF t
<1> QED BY <1>0, <1>1, <1>5, <1>6, <1>7, <1>8, <1>9, SentOn

\* A command: PIP starts where its file starts.
LEMMA CommandKeeps == ASSUME Fed, Command PROVE Fed'
<1> DEFINE c == Head(batch)
<1>0. FeedTypes /\ FilesWhole /\ files \in [FileNames -> Seq(Bytes)] /\ coms \in [FileNames -> Seq(Bytes)]
  BY DEF Fed, FeedTypes
<1>1. /\ pip = "none" /\ batch # <<>> /\ batch' = Tail(batch)
      /\ UNCHANGED <<feed, unsent, sender, wire, ring>>
  BY DEF Command
<1>2. GaveUp \/ Coming = Asked BY <1>1 DEF Fed, InStep
<1>3. Coming' = Coming BY <1>1 DEF Coming
<1>4. ASSUME NEW f \in FileNames, pip' = f, files' = [files EXCEPT ![f] = <<>>], coms' = coms,
             batch' \in Seq(BatchCommands),
             ~GaveUp => Coming = Whole(f) \o (IF f = "GO.SUB" THEN Need(go_sub) ELSE Need(batch'))
      PROVE  Fed'
  <2>1. files' \in [FileNames -> Seq(Bytes)] /\ files'[f] = <<>> BY <1>0, <1>4
  <2>2. FeedTypes' BY <1>0, <1>1, <1>4, <2>1 DEF FeedTypes
  <2>3. FilesWhole'
    <3>1. "none" \notin FileNames BY DEF FileNames
    <3>2. \A g \in FileNames : files[g] \in {<<>>, Content(g)} /\ coms[g] \in {<<>>, Content(g)}
      BY <1>0, <1>1, <3>1 DEF FilesWhole
    <3>3. \A g \in FileNames : g # f => files'[g] = files[g] BY <1>0, <1>4
    <3> QED BY <1>4, <3>2, <3>3 DEF FilesWhole
  <2>4. InStep'
    <3>1. CASE GaveUp
      <4>1. GaveUp' BY <1>0, <1>1, <1>4, <3>1 DEF GaveUp
      <4> QED BY <4>1 DEF InStep
    <3>2. CASE ~GaveUp
      <4>0. f # "none" BY DEF FileNames
      <4>1. batch' # FirstBatch BY <1>4, NotFirst
      <4>2. Lengths[f] \in Nat /\ Whole(f) \in Seq(Bytes) BY ContentIs
      <4>3. AskedBehind' \in Seq(Bytes) BY <1>4, GoSubNeeds, PartsType DEF AskedBehind
      <4>4. Coming' = Whole(f) \o AskedBehind' BY <1>3, <1>4, <3>2 DEF AskedBehind
      <4>5. Coming' \in Seq(Bytes) BY <4>2, <4>3, <4>4, ConcatProperties
      <4>6. <<>> \o Coming' = Coming' BY <4>5, ConcatEmptySeq
      <4>7. Len(<<>>) <= Lengths[f] BY <4>2
      <4> QED BY <1>4, <2>1, <4>0, <4>1, <4>4, <4>6, <4>7 DEF InStep
    <3> QED BY <3>1, <3>2
  <2>5. sender' = "wait" /\ feed' # "hex" => \A g \in FileNames : files'[g] = <<>>
    BY <1>0, <1>1, <1>4 DEF Fed
  <2> QED BY <1>1, <2>2, <2>3, <2>4, <2>5 DEF Fed
<1>5. ASSUME pip' = pip, files' = files, batch' \in Seq(BatchCommands), coms' \in [FileNames -> Seq(Bytes)],
             \A f \in FileNames : coms'[f] \in {<<>>, Content(f)},
             ~GaveUp => Coming = Need(batch')
      PROVE  Fed'
  <2>1. FeedTypes' BY <1>0, <1>1, <1>5 DEF FeedTypes
  <2>2. FilesWhole' BY <1>0, <1>5 DEF FilesWhole
  <2>3. batch' # FirstBatch BY <1>5, NotFirst
  <2>4. InStep' BY <1>1, <1>3, <1>5, <2>3 DEF InStep, GaveUp, Asked
  <2> QED BY <1>1, <1>5, <2>1, <2>2, <2>4 DEF Fed
<1>6. CASE batch = FirstBatch
  <2>1. c = <<"PIP", "GO.SUB">> /\ batch' = <<>> BY <1>1, <1>6 DEF FirstBatch
  <2>2. pip' = "GO.SUB" /\ files' = [files EXCEPT !["GO.SUB"] = <<>>] /\ coms' = coms BY <2>1 DEF Command
  <2>3. ~GaveUp => Coming = HexStream BY <1>2, <1>6 DEF Asked
  <2>4. "GO.SUB" \in FileNames BY DEF FileNames
  <2>5. batch' \in Seq(BatchCommands) BY <2>1
  <2> QED BY <1>4, <2>2, <2>3, <2>4, <2>5 DEF HexStream
<1>7. CASE batch # FirstBatch
  <2>0. batch \in Seq(BatchCommands) BY <1>0, <1>7 DEF FeedTypes
  <2>1. c \in BatchCommands /\ batch' \in Seq(BatchCommands) /\ Need(batch) = FilePart(c) \o Need(batch')
    BY <1>1, <2>0, NeedNext
  <2>2. ~GaveUp => Coming = FilePart(c) \o Need(batch') BY <1>2, <1>7, <2>1 DEF Asked
  <2>3. Need(batch') \in Seq(Bytes) BY <2>1, PartsType
  <2>4. CASE c[1] = "PIP"
    <3>1. pip' = c[2] /\ files' = [files EXCEPT ![c[2]] = <<>>] /\ coms' = coms BY <2>4 DEF Command
    <3>2. c # <<"TRIGGER">> BY <2>4
    <3>3. c[2] \in FileNames /\ c[2] # "GO.SUB" BY <2>1, <3>2 DEF BatchCommands
    <3>4. FilePart(c) = Whole(c[2]) BY <2>4 DEF FilePart
    <3> HIDE DEF c
    <3> QED BY <1>4, <2>1, <2>2, <3>1, <3>3, <3>4
  <2>5. CASE c[1] # "PIP"
    <3>1. ~GaveUp => Coming = Need(batch')
      <4>1. FilePart(c) = <<>> BY <2>5 DEF FilePart
      <4>2. <<>> \o Need(batch') = Need(batch') BY <2>3, ConcatEmptySeq
      <4> QED BY <2>2, <4>1, <4>2
    <3>2. CASE c[1] = "LOAD"
      <4>1. pip' = pip /\ files' = files /\ coms' = [coms EXCEPT ![c[2]] = files[c[2]]] BY <3>2 DEF Command
      <4>2. c # <<"TRIGGER">> BY <3>2
      <4>3. c[2] \in FileNames BY <2>1, <4>2 DEF BatchCommands
      <4>4. files[c[2]] \in {<<>>, Content(c[2])}
        <5>1. c[2] # pip BY <1>1, <4>3 DEF FileNames
        <5> QED BY <1>0, <4>3, <5>1 DEF FilesWhole
      <4> HIDE DEF c
      <4>5. coms' \in [FileNames -> Seq(Bytes)] BY <1>0, <4>1, <4>3
      <4>6. \A f \in FileNames : coms'[f] \in {<<>>, Content(f)} BY <1>0, <4>1, <4>3, <4>4 DEF FilesWhole
      <4> QED BY <1>5, <2>1, <3>1, <4>1, <4>5, <4>6
    <3>3. CASE c[1] # "LOAD"
      <4>1. UNCHANGED <<pip, files, coms>> BY <2>5, <3>3 DEF Command
      <4> QED BY <1>0, <1>5, <2>1, <3>1, <4>1 DEF FilesWhole
    <3> QED BY <3>2, <3>3
  <2> QED BY <2>4, <2>5
<1> QED BY <1>6, <1>7

\* Writing the trigger sends nothing.
LEMMA WriteTriggerKeeps == ASSUME Fed, WriteTrigger PROVE Fed'
<1>0. FeedTypes /\ FilesWhole BY DEF Fed
<1>1. /\ batch # <<>> /\ batch[1][1] = "TRIGGER" /\ batch' \in {batch, Tail(batch)}
      /\ UNCHANGED <<feed, unsent, sender, wire, ring, pip, files, coms>>
  BY DEF WriteTrigger
<1>2. batch # FirstBatch BY <1>1 DEF FirstBatch
<1>3. batch \in Seq(BatchCommands) BY <1>0, <1>2 DEF FeedTypes
<1>4. Need(Tail(batch)) = Need(batch) /\ Tail(batch) \in Seq(BatchCommands)
  <2>1. /\ Tail(batch) \in Seq(BatchCommands) /\ Need(batch) = FilePart(Head(batch)) \o Need(Tail(batch))
    BY <1>1, <1>3, NeedNext
  <2>2. Head(batch)[1] = "TRIGGER" BY <1>1, <1>3
  <2>3. FilePart(Head(batch)) = <<>> BY <2>2 DEF FilePart
  <2>4. Need(Tail(batch)) \in Seq(Bytes) BY <2>1, PartsType
  <2>5. <<>> \o Need(Tail(batch)) = Need(Tail(batch)) BY <2>4, ConcatEmptySeq
  <2> QED BY <2>1, <2>3, <2>5
<1>5. batch' \in Seq(BatchCommands) /\ Need(batch') = Need(batch) BY <1>1, <1>3, <1>4
<1>6. batch' # FirstBatch BY <1>5, NotFirst
<1>7. FeedTypes' BY <1>0, <1>1, <1>5 DEF FeedTypes
<1>8. FilesWhole' BY <1>0, <1>1 DEF FilesWhole
<1>9. Asked' = Asked /\ AskedBehind' = AskedBehind BY <1>1, <1>2, <1>5, <1>6 DEF Asked, AskedBehind
<1>10. Coming' = Coming /\ (GaveUp => GaveUp') BY <1>1 DEF Coming, GaveUp
<1>11. InStep' BY <1>1, <1>6, <1>9, <1>10 DEF Fed, InStep
<1> QED BY <1>1, <1>7, <1>8, <1>11 DEF Fed

\* PIP takes a byte.
LEMMA PipReadsKeeps == ASSUME Fed, PipReads PROVE Fed'
<1> DEFINE f == pip
           h == Head(ring)
           w == files[pip]
<1>0. /\ FeedTypes /\ FilesWhole /\ unsent \in Seq(Bytes) /\ wire \in Seq(Bytes) /\ ring \in Seq(Bytes)
      /\ files \in [FileNames -> Seq(Bytes)]
  BY DEF Fed, FeedTypes
<1>1. /\ f # "none" /\ ring # <<>> /\ ring' = Tail(ring) /\ UNCHANGED <<feed, unsent, sender, wire, coms>>
  BY DEF PipReads
<1>2. f \in FileNames /\ w \in Seq(Bytes) BY <1>0, <1>1 DEF FeedTypes
<1>3. sender # "wait" /\ ~GaveUp BY <1>1 DEF Fed, GaveUp
<1>4. /\ batch # FirstBatch /\ Len(w) <= Lengths[f] /\ w \o Coming = Whole(f) \o AskedBehind
  BY <1>1, <1>3 DEF Fed, InStep
<1>5. batch \in Seq(BatchCommands) BY <1>0, <1>4 DEF FeedTypes
<1>6. AskedBehind \in Seq(Bytes) BY <1>5, GoSubNeeds, PartsType DEF AskedBehind
<1>7. Coming \in Seq(Bytes) /\ Coming # <<>> /\ Head(Coming) = h /\ Tail(Coming) = Coming'
  <2> DEFINE t == Tail(ring)
             r == (t \o wire) \o unsent
  <2>1. ring = <<h>> \o t /\ h \in Bytes /\ t \in Seq(Bytes) /\ <<h>> \in Seq(Bytes) BY <1>0, <1>1
  <2>2. Coming = (ring \o wire) \o unsent BY <1>3 DEF Coming
  <2>3. Coming' = r BY <1>1, <1>3 DEF Coming
  <2> HIDE DEF h, t
  <2>4. t \o wire \in Seq(Bytes) /\ r \in Seq(Bytes) BY <1>0, <2>1, ConcatProperties
  <2>5. (<<h>> \o t) \o wire = <<h>> \o (t \o wire) BY <1>0, <2>1, ConcatAssociative
  <2>6. (<<h>> \o (t \o wire)) \o unsent = <<h>> \o r BY <1>0, <2>1, <2>4, ConcatAssociative
  <2>7. Coming = <<h>> \o r BY <2>1, <2>2, <2>5, <2>6
  <2> HIDE DEF r
  <2>8. <<h>> \o r \in Seq(Bytes) BY <2>1, <2>4, ConcatProperties
  <2>9. <<h>> \o r # <<>> /\ Head(<<h>> \o r) = h /\ Tail(<<h>> \o r) = r BY <2>1, <2>4
  <2> QED BY <2>3, <2>7, <2>8, <2>9
<1>8. /\ h = EOF => w = Content(f) /\ Coming' = AskedBehind
      /\ h # EOF => /\ Len(Append(w, h)) <= Lengths[f]
                    /\ Append(w, h) \o Coming' = Whole(f) \o AskedBehind
  <2>1. /\ Head(Coming) = EOF => w = Content(f) /\ Tail(Coming) = AskedBehind
        /\ Head(Coming) # EOF => /\ Len(Append(w, Head(Coming))) <= Lengths[f]
                                 /\ Append(w, Head(Coming)) \o Tail(Coming) = Whole(f) \o AskedBehind
    <3> DEFINE r == Coming
               n == AskedBehind
    <3>1. /\ f \in FileNames /\ w \in Seq(Bytes) /\ r \in Seq(Bytes) /\ n \in Seq(Bytes) /\ r # <<>>
          /\ w \o r = Whole(f) \o n /\ Len(w) <= Lengths[f]
      BY <1>2, <1>4, <1>6, <1>7
    <3> HIDE DEF f, w, r, n
    <3>2. ReadRight(f, w, r, n) BY <3>1, ByteRead
    <3> QED BY <3>2 DEF ReadRight, r, n
  <2> QED BY <1>7, <2>1
<1>9. ring' \in Seq(Bytes) /\ Len(ring') <= Len(ring) /\ Len(ring') \in Nat /\ Len(ring) \in Nat /\ h \in Bytes
  BY <1>0, <1>1
<1>10. feed' = "iobyte" => Len(wire') + Len(ring') <= RingSize
  <2>1. feed = "iobyte" => Len(wire) + Len(ring) <= RingSize BY DEF Fed
  <2>2. Len(wire) \in Nat BY <1>0
  <2>3. RingSize \in Nat BY FeedSizes
  <2> QED BY <1>1, <1>9, <2>1, <2>2, <2>3
<1>11. CASE h = EOF
  <2>1. pip' = "none" /\ files' = files /\ batch' = IF f = "GO.SUB" THEN go_sub ELSE batch BY <1>11 DEF PipReads
  <2>2. batch' \in Seq(BatchCommands) BY <1>5, <2>1, GoSubNeeds
  <2>3. batch' # FirstBatch BY <2>2, NotFirst
  <2>4. FeedTypes' BY <1>0, <1>1, <1>9, <2>1, <2>2 DEF FeedTypes
  <2>5. FilesWhole' BY <1>0, <1>1, <1>8, <1>11, <2>1 DEF FilesWhole
  <2>6. Asked' = AskedBehind BY <2>1, <2>3 DEF Asked, AskedBehind
  <2>7. InStep' BY <1>8, <1>11, <2>1, <2>6 DEF InStep
  <2> QED BY <1>1, <1>3, <1>10, <2>4, <2>5, <2>7 DEF Fed
<1>12. CASE h # EOF
  <2>1. files' = [files EXCEPT ![f] = Append(w, h)] /\ pip' = f /\ batch' = batch BY <1>12 DEF PipReads
  <2>2. Append(w, h) \in Seq(Bytes) BY <1>2, <1>9, AppendProperties
  <2>3. files' \in [FileNames -> Seq(Bytes)] /\ files'[f] = Append(w, h)
        /\ \A g \in FileNames : g # f => files'[g] = files[g]
    <3> HIDE DEF h, w
    <3> QED BY <1>0, <1>2, <2>1, <2>2
  <2>4. FeedTypes' BY <1>0, <1>1, <1>9, <2>1, <2>3 DEF FeedTypes
  <2>5. FilesWhole' BY <1>0, <1>1, <2>1, <2>3 DEF FilesWhole
  <2>6. AskedBehind' = AskedBehind BY <2>1 DEF AskedBehind
  <2>7. InStep'
    <3> HIDE DEF h, w
    <3> QED BY <1>1, <1>4, <1>8, <1>12, <2>1, <2>3, <2>6 DEF InStep
  <2> QED BY <1>1, <1>3, <1>10, <2>4, <2>5, <2>7 DEF Fed
<1> QED BY <1>11, <1>12

\* Every step of a sender, of the line and of CP/M keeps what is coming equal to what will
\* be asked for.
LEMMA FeedKeeps == ASSUME FeedInv, [FeedsNext]_feedVars PROVE FeedInv'
<1>1. UNCHANGED <<feed, absent>> /\ (~early' => ~early)
  BY DEF FeedsNext, feedVars, PollTrigger, PollTimeout, StartHexFiles, SendChunk, SendFails, AllSent, Configure, Transmit,
         Command, WriteTrigger, PipReads
<1>2. ASSUME absent = {}, Fed, ~early' PROVE Fed'
  <2>1. CASE UNCHANGED feedVars \/ Configure
    BY <1>2, <2>1 DEF feedVars, Configure, Fed, FeedTypes, FilesWhole, InStep, GaveUp, Coming, Asked, AskedBehind
  <2>2. CASE FeedsNext /\ ~Configure
    BY <1>2, <2>2, SenderKeeps, TransmitKeeps, CommandKeeps, WriteTriggerKeeps, PipReadsKeeps DEF FeedsNext
  <2> QED BY <2>1, <2>2
<1> QED BY <1>1, <1>2 DEF FeedInv

\* So a file that is complete is its own, and LOAD has worked on that.
LEMMA FeedIsFed == ASSUME FeedInv PROVE FilesFed
<1> SUFFICES ASSUME ~early PROVE LoadedIsItsFile /\ PayloadWhole BY DEF FilesFed
<1>1. LoadedIsItsFile
  <2> SUFFICES ASSUME absent = {}, NEW f \in DOMAIN coms, coms[f] # <<>> PROVE coms[f] = Content(f)
    BY DEF LoadedIsItsFile
  <2>1. Fed /\ FeedTypes BY DEF FeedInv, Fed
  <2>2. f \in FileNames BY <2>1 DEF FeedTypes
  <2> QED BY <2>1, <2>2 DEF Fed, FilesWhole
<1>2. PayloadWhole
  <2> SUFFICES ASSUME feed \in {"sysgen", "iobyte"}, pip = "none", files["PAYLOAD"] # <<>>
               PROVE  files["PAYLOAD"] = Content("PAYLOAD")
    BY DEF PayloadWhole
  <2>1. Fed BY DEF FeedInv
  <2>2. "PAYLOAD" \in FileNames /\ "PAYLOAD" # "none" BY DEF FileNames
  <2> QED BY <2>1, <2>2 DEF Fed, FilesWhole
<1> QED BY <1>1, <1>2

\* Whatever is read, and what the programs send.
Symbols == STRING \cup {"ESC", "q", "CR", "ACK", "ENQ", "INJECT", "x"}

-----------------------------------------------------------------------------
(* Escapes *)

\* Numbers alternate.
LEMMA Parity == ASSUME NEW n \in Nat PROVE n % 2 \in {0, 1} /\ (n + 1) % 2 = 1 - (n % 2)
OBVIOUS

\* The escapes before a key: as many as there are in a row.
Row(s, i, n) ==
    /\ \A j \in i - n .. i - 1 : s[j] = "ESC"
    /\ i - n > 1 => s[i - n - 1] # "ESC"

\* There is a row of escapes before every key, if only an empty one.
LEMMA RowExists == ASSUME NEW s, NEW i \in Nat, i > 0 PROVE \E n \in 0 .. i - 1 : Row(s, i, n)
<1> DEFINE T == {n \in 0 .. i - 1 : n = i - 1 \/ s[i - n - 1] # "ESC"}
<1>1. T \in SUBSET Nat /\ i - 1 \in T OBVIOUS
<1>2. PICK n \in T : \A y \in T : ~(y < n) BY <1>1, Least
<1>3. n \in 0 .. i - 1 /\ (n = i - 1 \/ s[i - n - 1] # "ESC") BY <1>2
<1>4. ASSUME NEW j \in i - n .. i - 1 PROVE s[j] = "ESC"
  <2>1. i - 1 - j \in 0 .. i - 1 /\ i - 1 - j < n /\ i - (i - 1 - j) - 1 = j /\ i - 1 - j # i - 1 BY <1>3
  <2>2. i - 1 - j \notin T BY <1>2, <2>1
  <2> QED BY <2>1, <2>2
<1>5. i - n > 1 => s[i - n - 1] # "ESC" BY <1>3
<1> QED BY <1>3, <1>4, <1>5 DEF Row

\* There is only one.
LEMMA RowUnique ==
  ASSUME NEW s, NEW i \in Nat, NEW n \in 0 .. i - 1, NEW m \in 0 .. i - 1, Row(s, i, n), Row(s, i, m)
  PROVE  n = m
<1>1. ASSUME NEW a \in 0 .. i - 1, NEW b \in 0 .. i - 1, Row(s, i, a), Row(s, i, b), a < b PROVE FALSE
  <2>1. i - a > 1 /\ i - a - 1 \in i - b .. i - 1 BY <1>1
  <2> QED BY <1>1, <2>1 DEF Row
<1>2. ~(n < m) /\ ~(m < n) BY <1>1
<1> QED BY <1>2

\* Leads in terms of that row.
LEMMA LeadsIs == ASSUME NEW s, NEW i
  PROVE Leads(s, i) <=> s[i] = "ESC" /\ \E n \in 0 .. i - 1 : n % 2 = 0 /\ Row(s, i, n)
BY DEF Leads, Row

\* The escape behind an escape belongs to it.
LEMMA LeadsNext ==
  ASSUME NEW s, NEW i \in Nat, i > 0
  PROVE  Leads(s, i + 1) <=> s[i + 1] = "ESC" /\ ~Leads(s, i)
<1>1. PICK n \in 0 .. i - 1 : Row(s, i, n) BY RowExists
<1>2. Leads(s, i) <=> s[i] = "ESC" /\ n % 2 = 0 BY <1>1, LeadsIs, RowUnique
<1>3. CASE s[i] = "ESC"
  <2>1. n + 1 \in 0 .. (i + 1) - 1 OBVIOUS
  <2>2. Row(s, i + 1, n + 1)
    <3>1. ASSUME NEW j \in (i + 1) - (n + 1) .. (i + 1) - 1 PROVE s[j] = "ESC"
      <4>1. j = i \/ j \in i - n .. i - 1 OBVIOUS
      <4> QED BY <1>1, <1>3, <4>1 DEF Row
    <3>2. (i + 1) - (n + 1) = i - n /\ (i + 1) - (n + 1) - 1 = i - n - 1 OBVIOUS
    <3>3. (i + 1) - (n + 1) > 1 => s[(i + 1) - (n + 1) - 1] # "ESC" BY <1>1, <3>2 DEF Row
    <3> QED BY <3>1, <3>3 DEF Row
  <2>3. i + 1 \in Nat OBVIOUS
  <2>4. Leads(s, i + 1) <=> s[i + 1] = "ESC" /\ (n + 1) % 2 = 0 BY <2>1, <2>2, <2>3, LeadsIs, RowUnique
  <2>5. (n + 1) % 2 = 0 <=> ~(n % 2 = 0) BY Parity
  <2> QED BY <1>2, <1>3, <2>4, <2>5
<1>4. CASE s[i] # "ESC"
  <2>1. Row(s, i + 1, 0) /\ 0 \in 0 .. (i + 1) - 1
    <3>1. (i + 1) - 0 - 1 = i /\ \A j \in (i + 1) - 0 .. (i + 1) - 1 : FALSE OBVIOUS
    <3> QED BY <1>4, <3>1 DEF Row
  <2>2. 0 % 2 = 0 OBVIOUS
  <2>3. Leads(s, i + 1) <=> s[i + 1] = "ESC" BY <2>1, <2>2, LeadsIs
  <2> QED BY <1>2, <1>4, <2>3
<1> QED BY <1>3, <1>4

\* The first key leads if it is an escape.
LEMMA LeadsFirst == ASSUME NEW s PROVE Leads(s, 1) <=> s[1] = "ESC"
<1>1. Row(s, 1, 0) /\ 0 \in 0 .. 1 - 1 /\ 0 % 2 = 0
  <2>1. \A j \in 1 - 0 .. 1 - 1 : FALSE OBVIOUS
  <2> QED BY <2>1 DEF Row
<1> QED BY <1>1, LeadsIs

\* What comes later does not change what a key is.
LEMMA LeadsKept ==
  ASSUME NEW S, NEW s \in Seq(S), NEW b \in S, NEW i \in 1 .. Len(s)
  PROVE  Leads(Append(s, b), i) <=> Leads(s, i)
<1> DEFINE t == Append(s, b)
<1>1. \A j \in 1 .. Len(s) : t[j] = s[j] BY Grown
<1>2. Len(s) \in Nat OBVIOUS
<1> HIDE DEF t
<1>3. t[i] = s[i] BY <1>1
<1>4. ASSUME NEW n \in 0 .. i - 1 PROVE Row(t, i, n) <=> Row(s, i, n)
  <2>1. \A j \in i - n .. i - 1 : t[j] = s[j]
    <3>1. \A j \in i - n .. i - 1 : j \in 1 .. Len(s) BY <1>2
    <3> QED BY <1>1, <3>1
  <2>2. i - n > 1 => t[i - n - 1] = s[i - n - 1]
    <3>1. i - n > 1 => i - n - 1 \in 1 .. Len(s) BY <1>2
    <3> QED BY <1>1, <3>1
  <2> QED BY <2>1, <2>2 DEF Row
<1>5. Leads(t, i) <=> Leads(s, i) BY <1>3, <1>4, LeadsIs
<1> QED BY <1>5 DEF t

-----------------------------------------------------------------------------
(* What keys mean, one more at a time *)

Pending(s) == Len(s) > 0 /\ Leads(s, Len(s))
Meanings(s) == [i \in 1 .. Len(s) |-> Meant(s, i)]
Means(s) == FlattenSeq(Meanings(s))
Last1(s, b) ==
    IF Pending(s) THEN <<"ESC", b>>
    ELSE IF b = "ESC" THEN <<>> ELSE IF b = "LF" THEN <<"CR">> ELSE <<b>>

\* An escape is pending behind a key if the key is one and none was pending before it.
LEMMA PendingNext ==
  ASSUME NEW s \in Seq(Symbols), NEW b \in Symbols
  PROVE  Pending(Append(s, b)) <=> b = "ESC" /\ ~Pending(s)
<1> DEFINE t == Append(s, b)
           n == Len(s)
<1>1. t \in Seq(Symbols) /\ Len(t) = n + 1 /\ t[n + 1] = b /\ n \in Nat BY Grown
<1>2. n > 0 => (Leads(t, n) <=> Leads(s, n)) BY LeadsKept
<1> HIDE DEF t, n
<1>3. CASE n = 0
  <2>1. Leads(t, 1) <=> t[1] = "ESC" BY LeadsFirst
  <2> QED BY <1>1, <1>3, <2>1 DEF Pending, t, n
<1>4. CASE n # 0
  <2>1. Leads(t, n + 1) <=> t[n + 1] = "ESC" /\ ~Leads(t, n) BY <1>1, <1>4, LeadsNext
  <2>2. n > 0 /\ n + 1 > 0 BY <1>1, <1>4
  <2> QED BY <1>1, <1>2, <2>1, <2>2 DEF Pending, t, n
<1> QED BY <1>3, <1>4

\* The keys quit with the q behind a pending escape.
LEMMA QuitsNext ==
  ASSUME NEW s \in Seq(Symbols), NEW b \in Symbols
  PROVE  Quits(Append(s, b)) <=> Quits(s) \/ (Pending(s) /\ b = "q")
<1> DEFINE t == Append(s, b)
           n == Len(s)
<1>1. t \in Seq(Symbols) /\ Len(t) = n + 1 /\ t[n + 1] = b /\ n \in Nat /\ \A i \in 1 .. n : t[i] = s[i] BY Grown
<1>2. \A i \in 1 .. n : Leads(t, i) <=> Leads(s, i) BY LeadsKept
<1> HIDE DEF t, n
<1>3. ASSUME NEW i \in 2 .. n PROVE i \in 1 .. n /\ i - 1 \in 1 .. n /\ i \in 2 .. n + 1 BY <1>1
<1>4. Quits(s) <=> \E i \in 2 .. n : Leads(s, i - 1) /\ s[i] = "q" BY DEF Quits, n
<1>5. Quits(t) <=> \E i \in 2 .. n + 1 : Leads(t, i - 1) /\ t[i] = "q" BY <1>1 DEF Quits
<1>6. Quits(s) => Quits(t) BY <1>1, <1>2, <1>3, <1>4, <1>5
<1>7. Pending(s) /\ b = "q" => Quits(t)
  <2> SUFFICES ASSUME Pending(s), b = "q" PROVE Quits(t) OBVIOUS
  <2>1. n > 0 /\ Leads(s, n) BY DEF Pending, n
  <2>2. n + 1 \in 2 .. n + 1 /\ (n + 1) - 1 = n /\ n \in 1 .. n BY <1>1, <2>1
  <2>3. Leads(t, (n + 1) - 1) /\ t[n + 1] = "q" BY <1>1, <1>2, <2>1, <2>2
  <2> QED BY <1>5, <2>2, <2>3
<1>8. Quits(t) => Quits(s) \/ (Pending(s) /\ b = "q")
  <2> SUFFICES ASSUME Quits(t), ~Quits(s) PROVE Pending(s) /\ b = "q" OBVIOUS
  <2>1. PICK i \in 2 .. n + 1 : Leads(t, i - 1) /\ t[i] = "q" BY <1>5
  <2>2. i = n + 1
    <3>1. ASSUME i \in 2 .. n PROVE FALSE BY <1>1, <1>2, <1>3, <1>4, <2>1, <3>1
    <3> QED BY <1>1, <3>1
  <2>3. n \in 1 .. n /\ i - 1 = n /\ n > 0 BY <1>1, <2>2
  <2>4. Leads(s, n) /\ b = "q" BY <1>1, <1>2, <2>1, <2>2, <2>3
  <2> QED BY <2>3, <2>4 DEF Pending, n
<1> QED BY <1>6, <1>7, <1>8 DEF t

\* What a key means is a sequence of symbols.
LEMMA MeantType ==
  ASSUME NEW s \in Seq(Symbols), NEW i \in 1 .. Len(s) PROVE Meant(s, i) \in Seq(Symbols)
<1>1. s[i] \in Symbols /\ "ESC" \in Symbols /\ "CR" \in Symbols BY DEF Symbols
<1>2. <<"ESC", s[i]>> \in Seq(Symbols) /\ <<"CR">> \in Seq(Symbols) /\ <<s[i]>> \in Seq(Symbols) /\ <<>> \in Seq(Symbols)
  BY <1>1
<1> QED BY <1>2 DEF Meant

\* So is what all of them mean.
LEMMA MeaningsType ==
  ASSUME NEW s \in Seq(Symbols)
  PROVE  Meanings(s) \in Seq(Seq(Symbols)) /\ Len(Meanings(s)) = Len(s) /\ Means(s) \in Seq(Symbols)
<1>1. Meanings(s) \in [1 .. Len(s) -> Seq(Symbols)] BY MeantType DEF Meanings
<1>2. Len(s) \in Nat OBVIOUS
<1>3. Meanings(s) \in Seq(Seq(Symbols)) /\ Len(Meanings(s)) = Len(s) BY <1>1, <1>2
<1> QED BY <1>3, FlattenType DEF Means

\* One more key adds what it means in its place and changes no other.
LEMMA MeansNext ==
  ASSUME NEW s \in Seq(Symbols), NEW b \in Symbols
  PROVE  Means(Append(s, b)) = Means(s) \o Last1(s, b) /\ Last1(s, b) \in Seq(Symbols)
<1> DEFINE t == Append(s, b)
           n == Len(s)
           m == Last1(s, b)
           u == Append(Meanings(s), m)
<1>1. t \in Seq(Symbols) /\ Len(t) = n + 1 /\ t[n + 1] = b /\ n \in Nat /\ \A i \in 1 .. n : t[i] = s[i] BY Grown
<1>2. \A i \in 1 .. n : Leads(t, i) <=> Leads(s, i) BY LeadsKept
<1>3. Pending(t) <=> b = "ESC" /\ ~Pending(s) BY PendingNext
<1> HIDE DEF t, n
<1>4. Meant(t, n + 1) = m
  <2>1. n + 1 > 1 /\ Leads(t, (n + 1) - 1) <=> Pending(s)
    <3>1. CASE n = 0 BY <1>1, <3>1 DEF Pending, n
    <3>2. CASE n # 0
      <4>1. n + 1 > 1 /\ (n + 1) - 1 = n /\ n \in 1 .. n /\ n > 0 BY <1>1, <3>2
      <4> QED BY <1>2, <4>1 DEF Pending, n
    <3> QED BY <3>1, <3>2
  <2>2. Leads(t, n + 1) <=> Pending(t)
    <3>1. n + 1 > 0 BY <1>1
    <3> QED BY <1>1, <3>1 DEF Pending
  <2>3. Meant(t, n + 1) = IF n + 1 > 1 /\ Leads(t, (n + 1) - 1) THEN <<"ESC", b>>
                          ELSE IF Leads(t, n + 1) THEN <<>>
                          ELSE IF b = "LF" THEN <<"CR">> ELSE <<b>>
    BY <1>1 DEF Meant
  <2> QED BY <1>3, <2>1, <2>2, <2>3 DEF Last1
<1>5. ASSUME NEW i \in 1 .. n PROVE Meant(t, i) = Meant(s, i)
  <2>1. t[i] = s[i] /\ (Leads(t, i) <=> Leads(s, i)) BY <1>1, <1>2
  <2>2. i > 1 => (Leads(t, i - 1) <=> Leads(s, i - 1))
    <3>1. i > 1 => i - 1 \in 1 .. n BY <1>1
    <3> QED BY <1>2, <3>1
  <2> QED BY <2>1, <2>2 DEF Meant
<1>6. m \in Seq(Symbols)
  <2>1. n + 1 \in 1 .. Len(t) BY <1>1
  <2> QED BY <1>1, <1>4, <2>1, MeantType
<1>7. Meanings(s) \in Seq(Seq(Symbols)) /\ Len(Meanings(s)) = n BY MeaningsType DEF n
<1>8. Meanings(t) \in Seq(Seq(Symbols)) /\ Len(Meanings(t)) = n + 1 BY <1>1, MeaningsType
<1>9. /\ u \in Seq(Seq(Symbols)) /\ Len(u) = n + 1 /\ u[n + 1] = m /\ \A i \in 1 .. n : u[i] = Meanings(s)[i]
  BY <1>6, <1>7, Grown
<1> HIDE DEF u, m
<1>10. ASSUME NEW i \in 1 .. n + 1 PROVE Meanings(t)[i] = u[i]
  <2>0. Meanings(t)[i] = Meant(t, i) BY <1>1 DEF Meanings
  <2>1. CASE i = n + 1 BY <1>4, <1>9, <2>0, <2>1
  <2>2. CASE i # n + 1
    <3>1. i \in 1 .. n BY <1>1, <2>2
    <3>2. Meanings(s)[i] = Meant(s, i) BY <3>1 DEF Meanings, n
    <3> QED BY <1>5, <1>9, <2>0, <3>1, <3>2
  <2> QED BY <2>1, <2>2
<1>11. Meanings(t) = u BY <1>8, <1>9, <1>10, SeqEqual
<1>12. FlattenSeq(u) = FlattenSeq(Meanings(s)) \o m BY <1>6, <1>7, FlattenAppend DEF u
<1> QED BY <1>6, <1>11, <1>12 DEF Means, t, m

-----------------------------------------------------------------------------
(* A piece of keys *)

Acc == [out : Seq(Symbols), esc : BOOLEAN, quit : BOOLEAN]
NoKey(esc) == [out |-> <<>>, esc |-> esc, quit |-> FALSE]
Runs(f, esc, p, n) == f = [i \in 0 .. n |-> IF i = 0 THEN NoKey(esc) ELSE Key(f[i - 1], p[i])]

\* The recursive function of KeyByKey exists.
LEMMA RunsExists == ASSUME NEW esc, NEW p, NEW n \in Nat PROVE \E f : Runs(f, esc, p, n)
<1> DEFINE T == {k \in 0 .. n : \E f : Runs(f, esc, p, k)}
<1>1. 0 \in T
  <2>1. Runs([i \in 0 .. 0 |-> NoKey(esc)], esc, p, 0) BY DEF Runs
  <2> QED BY <2>1
<1>2. ASSUME NEW k \in 0 .. n, k > 0, k - 1 \in T PROVE k \in T
  <2>1. PICK f : Runs(f, esc, p, k - 1) BY <1>2
  <2> DEFINE h == Key(f[k - 1], p[k])
             g == [i \in 0 .. k |-> IF i = k THEN h ELSE f[i]]
  <2>2. \A i \in 0 .. k - 1 : f[i] = IF i = 0 THEN NoKey(esc) ELSE Key(f[i - 1], p[i]) BY <2>1 DEF Runs
  <2>3. ASSUME NEW i \in 0 .. k PROVE g[i] = IF i = 0 THEN NoKey(esc) ELSE Key(g[i - 1], p[i])
    <3> HIDE DEF h
    <3>0. g[k] = h /\ \A j \in 0 .. k - 1 : g[j] = f[j] BY <1>2
    <3> HIDE DEF g
    <3>1. CASE i = k
      <4>1. k - 1 \in 0 .. k - 1 BY <1>2
      <4> QED BY <1>2, <3>0, <3>1, <4>1 DEF h
    <3>2. CASE i # k
      <4>1. i \in 0 .. k - 1 BY <3>2
      <4>2. CASE i = 0 BY <2>2, <3>0, <4>1, <4>2
      <4>3. CASE i # 0
        <5>1. i - 1 \in 0 .. k - 1 BY <4>1, <4>3
        <5> QED BY <2>2, <3>0, <4>1, <4>3, <5>1
      <4> QED BY <4>2, <4>3
    <3> QED BY <3>1, <3>2
  <2> HIDE DEF h
  <2>4. DOMAIN g = 0 .. k /\ g = [i \in 0 .. k |-> g[i]] OBVIOUS
  <2> HIDE DEF g
  <2>5. g = [i \in 0 .. k |-> IF i = 0 THEN NoKey(esc) ELSE Key(g[i - 1], p[i])] BY <2>3, <2>4
  <2>6. Runs(g, esc, p, k) BY <2>5 DEF Runs
  <2> QED BY <2>6
<1> HIDE DEF T
<1>3. n \in T BY <1>1, <1>2, UpTo
<1> QED BY <1>3 DEF T

\* KeyByKey is its last value.
LEMMA KeyByKeyRuns ==
  ASSUME NEW esc, NEW p, NEW n \in Nat, Len(p) = n
  PROVE  \E f : Runs(f, esc, p, n) /\ KeyByKey(esc, p) = f[n]
<1> DEFINE fl == CHOOSE f : f = [i \in 0 .. Len(p) |-> IF i = 0 THEN [out |-> <<>>, esc |-> esc, quit |-> FALSE]
                                                      ELSE Key(f[i - 1], p[i])]
<1>1. KeyByKey(esc, p) = fl[Len(p)] BY DEF KeyByKey
<1>2. \E f : f = [i \in 0 .. Len(p) |-> IF i = 0 THEN [out |-> <<>>, esc |-> esc, quit |-> FALSE]
                                         ELSE Key(f[i - 1], p[i])]
  <2>1. \E f : Runs(f, esc, p, Len(p)) BY RunsExists
  <2> QED BY <2>1 DEF Runs, NoKey
<1>3. fl = [i \in 0 .. Len(p) |-> IF i = 0 THEN [out |-> <<>>, esc |-> esc, quit |-> FALSE] ELSE Key(fl[i - 1], p[i])]
  BY <1>2
<1> HIDE DEF fl
<1>4. Runs(fl, esc, p, n) BY <1>3 DEF Runs, NoKey
<1> QED BY <1>1, <1>4

\* The cases of one key.
LEMMA KeyCases ==
  ASSUME NEW a \in Acc, NEW b \in Symbols
  PROVE  /\ a.quit => Key(a, b) = a
         /\ ~a.quit /\ a.esc /\ b = "q" => Key(a, b) = [a EXCEPT !.quit = TRUE]
         /\ ~a.quit /\ a.esc /\ b # "q" => Key(a, b) = [a EXCEPT !.esc = FALSE, !.out = a.out \o <<"ESC", b>>]
         /\ ~a.quit /\ ~a.esc /\ b = "ESC" => Key(a, b) = [a EXCEPT !.esc = TRUE]
         /\ ~a.quit /\ ~a.esc /\ b # "ESC" =>
               Key(a, b) = [a EXCEPT !.out = Append(a.out, IF b = "LF" THEN "CR" ELSE b)]
BY DEF Key

\* The keys read are t, and a is what the script has made of the piece so far.
Understood(tl, t, a) ==
    /\ a \in Acc /\ (a.quit <=> Quits(t))
    /\ ~a.quit => (a.esc <=> Pending(t)) /\ tl \o a.out = Means(t)

\* One more key of a piece is understood as the keys so far say.
LEMMA KeyUnderstood ==
  ASSUME NEW tl \in Seq(Symbols), NEW t \in Seq(Symbols), NEW a, NEW b \in Symbols, Understood(tl, t, a)
  PROVE  Understood(tl, Append(t, b), Key(a, b))
<1> DEFINE k == Key(a, b)
           u == Append(t, b)
<1>0. a \in Acc /\ a.out \in Seq(Symbols) /\ a.esc \in BOOLEAN /\ a.quit \in BOOLEAN BY DEF Understood, Acc
<1>1. Quits(u) <=> Quits(t) \/ (Pending(t) /\ b = "q") BY QuitsNext
<1>2. Pending(u) <=> b = "ESC" /\ ~Pending(t) BY PendingNext
<1>3. Means(u) = Means(t) \o Last1(t, b) /\ Last1(t, b) \in Seq(Symbols) BY MeansNext
<1>s. "ESC" \in Symbols /\ "CR" \in Symbols BY DEF Symbols
<1> HIDE DEF u
<1>4. CASE a.quit
  <2>1. k = a BY <1>0, <1>4, KeyCases
  <2>2. Quits(u) BY <1>1, <1>4 DEF Understood
  <2> QED BY <1>0, <1>4, <2>1, <2>2 DEF Understood, u
<1>5. CASE ~a.quit /\ a.esc /\ b = "q"
  <2>1. k = [a EXCEPT !.quit = TRUE] BY <1>0, <1>5, KeyCases
  <2>2. k \in Acc /\ k.quit BY <1>0, <2>1 DEF Acc
  <2>3. Quits(u) BY <1>1, <1>5 DEF Understood
  <2> QED BY <2>2, <2>3 DEF Understood, u
<1>6. CASE ~a.quit /\ ~(a.esc /\ b = "q")
  <2>0. ~Quits(u) /\ (a.esc <=> Pending(t)) /\ tl \o a.out = Means(t) BY <1>1, <1>6 DEF Understood
  <2>1. /\ k.out = a.out \o Last1(t, b) /\ (k.esc <=> Pending(u)) /\ k.quit = FALSE /\ k.esc \in BOOLEAN
        /\ k \in Acc
    <3>1. CASE a.esc
      <4>1. k = [a EXCEPT !.esc = FALSE, !.out = a.out \o <<"ESC", b>>] BY <1>0, <1>6, <3>1, KeyCases
      <4>2. Last1(t, b) = <<"ESC", b>> /\ ~Pending(u) BY <1>2, <2>0, <3>1 DEF Last1
      <4>3. a.out \o <<"ESC", b>> \in Seq(Symbols) BY <1>0, <1>3, <4>2, ConcatProperties
      <4> QED BY <1>0, <1>6, <4>1, <4>2, <4>3 DEF Acc
    <3>2. CASE ~a.esc /\ b = "ESC"
      <4>1. k = [a EXCEPT !.esc = TRUE] BY <1>0, <1>6, <3>2, KeyCases
      <4>2. Last1(t, b) = <<>> /\ Pending(u) BY <1>2, <2>0, <3>2 DEF Last1
      <4>3. a.out \o <<>> = a.out BY <1>0, ConcatEmptySeq
      <4> QED BY <1>0, <1>6, <4>1, <4>2, <4>3 DEF Acc
    <3>3. CASE ~a.esc /\ b # "ESC"
      <4> DEFINE e == IF b = "LF" THEN "CR" ELSE b
      <4>1. k = [a EXCEPT !.out = Append(a.out, e)] BY <1>0, <1>6, <3>3, KeyCases
      <4>2. Last1(t, b) = <<e>> /\ ~Pending(u) BY <1>2, <2>0, <3>3 DEF Last1
      <4>3. e \in Symbols BY <1>s
      <4> HIDE DEF e
      <4>4. Append(a.out, e) = a.out \o <<e>> /\ Append(a.out, e) \in Seq(Symbols)
        BY <1>0, <4>3, AppendIsConcat, AppendProperties
      <4> QED BY <1>0, <1>6, <3>3, <4>1, <4>2, <4>4 DEF Acc
    <3> QED BY <3>1, <3>2, <3>3
  <2>2. tl \o k.out = Means(u)
    <3> DEFINE o == a.out
               l == Last1(t, b)
    <3>0. o \in Seq(Symbols) /\ l \in Seq(Symbols) BY <1>0, <1>3
    <3> HIDE DEF o, l
    <3>2. (tl \o o) \o l = tl \o (o \o l)
      <4>1. tl \in Seq(Symbols) OBVIOUS
      <4> QED BY ONLY <3>0, <4>1, ConcatAssociative
    <3>1. (tl \o a.out) \o Last1(t, b) = tl \o (a.out \o Last1(t, b)) BY <3>2 DEF o, l
    <3> QED BY <1>3, <2>0, <2>1, <3>1
  <2> HIDE DEF k
  <2> QED BY <2>0, <2>1, <2>2 DEF Understood, u, k
<1> QED BY <1>4, <1>5, <1>6

\* However many keys come at once.
LEMMA PieceUnderstood ==
  ASSUME NEW tl \in Seq(Symbols), NEW s \in Seq(Symbols), NEW p \in Seq(Symbols), NEW esc \in BOOLEAN,
         ~Quits(s), esc <=> Pending(s), tl = Means(s)
  PROVE  Understood(tl, s \o p, KeyByKey(esc, p))
<1> DEFINE n == Len(p)
           t(k) == s \o SubSeq(p, 1, k)
<1>0. n \in Nat /\ t(n) = s \o p BY SubSeqFull
<1>1. PICK f : Runs(f, esc, p, n) /\ KeyByKey(esc, p) = f[n] BY <1>0, KeyByKeyRuns
<1>2. f[0] = NoKey(esc) /\ \A i \in 1 .. n : f[i] = Key(f[i - 1], p[i]) 
  <2> HIDE DEF n
  <2>1. 0 \in 0 .. n BY <1>0
  <2>2. \A i \in 0 .. n : f[i] = IF i = 0 THEN NoKey(esc) ELSE Key(f[i - 1], p[i]) BY <1>1 DEF Runs
  <2>3. \A i \in 1 .. n : i \in 0 .. n /\ i # 0 BY <1>0
  <2> QED BY <2>1, <2>2, <2>3
<1>3. ASSUME NEW k \in 1 .. n
      PROVE  t(k) = Append(t(k - 1), p[k]) /\ t(k - 1) \in Seq(Symbols) /\ p[k] \in Symbols
  <2> DEFINE v == SubSeq(p, 1, k - 1)
  <2>1. SubSeq(p, 1, k) = Append(v, p[k]) /\ v \in Seq(Symbols) /\ p[k] \in Symbols BY PrefixGrows
  <2> HIDE DEF v
  <2>2. <<p[k]>> \in Seq(Symbols) /\ Append(v, p[k]) = v \o <<p[k]>> BY <2>1, AppendIsConcat
  <2>3. (s \o v) \o <<p[k]>> = s \o (v \o <<p[k]>>) BY <2>1, <2>2, ConcatAssociative
  <2>4. s \o v \in Seq(Symbols) BY <2>1, ConcatProperties
  <2>5. Append(s \o v, p[k]) = (s \o v) \o <<p[k]>> BY <2>1, <2>4, AppendIsConcat
  <2> QED BY <2>1, <2>2, <2>3, <2>4, <2>5 DEF v
<1>4. t(0) = s
  <2>1. SubSeq(p, 1, 0) = <<>> OBVIOUS
  <2> QED BY <2>1, ConcatEmptySeq
<1> DEFINE T == {k \in 0 .. n : Understood(tl, t(k), f[k])}
<1> HIDE DEF t, n
<1>5. 0 \in T
  <2>1. f[0] \in Acc /\ f[0].quit = FALSE /\ f[0].esc = esc /\ f[0].out = <<>> BY <1>2 DEF NoKey, Acc
  <2>2. tl \o <<>> = tl BY ConcatEmptySeq
  <2>3. Understood(tl, s, f[0]) BY <2>1, <2>2 DEF Understood
  <2> QED BY <1>0, <1>4, <2>3
<1>6. ASSUME NEW k \in 0 .. n, k > 0, k - 1 \in T PROVE k \in T
  <2>1. k \in 1 .. n BY <1>0, <1>6
  <2>2. Understood(tl, t(k - 1), f[k - 1]) BY <1>6
  <2>3. Understood(tl, Append(t(k - 1), p[k]), Key(f[k - 1], p[k])) BY <1>3, <2>1, <2>2, KeyUnderstood
  <2> QED BY <1>2, <1>3, <2>1, <2>3
<1> HIDE DEF T
<1>7. n \in T BY <1>0, <1>5, <1>6, UpTo
<1> QED BY <1>0, <1>1, <1>7 DEF T
-----------------------------------------------------------------------------
(* One byte value among the others *)

OnlyParts(s, b) == [i \in 1 .. Len(s) |-> IF s[i] = b THEN <<b>> ELSE <<>>]
WithoutParts(s, b) == [i \in 1 .. Len(s) |-> IF s[i] = b THEN <<>> ELSE <<s[i]>>]

\* What is selected is a sequence of symbols.
LEMMA SelectedType ==
  ASSUME NEW s \in Seq(Symbols), NEW b \in Symbols
  PROVE  /\ OnlyParts(s, b) \in Seq(Seq(Symbols)) /\ Len(OnlyParts(s, b)) = Len(s)
         /\ WithoutParts(s, b) \in Seq(Seq(Symbols)) /\ Len(WithoutParts(s, b)) = Len(s)
         /\ Only(s, b) \in Seq(Symbols) /\ Without(s, b) \in Seq(Symbols)
<1>1. Len(s) \in Nat /\ <<b>> \in Seq(Symbols) /\ <<>> \in Seq(Symbols) OBVIOUS
<1>2. ASSUME NEW i \in 1 .. Len(s) PROVE <<s[i]>> \in Seq(Symbols)
  <2>1. s[i] \in Symbols OBVIOUS
  <2> QED BY <2>1
<1>3. OnlyParts(s, b) \in [1 .. Len(s) -> Seq(Symbols)] BY <1>1 DEF OnlyParts
<1>4. WithoutParts(s, b) \in [1 .. Len(s) -> Seq(Symbols)] BY <1>1, <1>2 DEF WithoutParts
<1>5. OnlyParts(s, b) \in Seq(Seq(Symbols)) /\ Len(OnlyParts(s, b)) = Len(s) BY <1>1, <1>3
<1>6. WithoutParts(s, b) \in Seq(Seq(Symbols)) /\ Len(WithoutParts(s, b)) = Len(s) BY <1>1, <1>4
<1>7. Only(s, b) = FlattenSeq(OnlyParts(s, b)) /\ Without(s, b) = FlattenSeq(WithoutParts(s, b))
  BY DEF Only, Without, OnlyParts, WithoutParts
<1> QED BY <1>5, <1>6, <1>7, FlattenType

\* Selection from two parts is selection from each.
LEMMA SelectedConcat ==
  ASSUME NEW s \in Seq(Symbols), NEW t \in Seq(Symbols), NEW b \in Symbols
  PROVE  /\ s \o t \in Seq(Symbols)
         /\ Only(s \o t, b) = Only(s, b) \o Only(t, b)
         /\ Without(s \o t, b) = Without(s, b) \o Without(t, b)
<1> DEFINE u == s \o t
           n == Len(s)
           m == Len(t)
<1>1. u \in Seq(Symbols) /\ Len(u) = n + m /\ n \in Nat /\ m \in Nat
      /\ \A i \in 1 .. n + m : u[i] = IF i <= n THEN s[i] ELSE t[i - n]
  BY ConcatProperties
<1> HIDE DEF u
<1>2. OnlyParts(u, b) = OnlyParts(s, b) \o OnlyParts(t, b)
  <2> DEFINE a == OnlyParts(s, b)
             c == OnlyParts(t, b)
             d == OnlyParts(u, b)
  <2>1. a \in Seq(Seq(Symbols)) /\ Len(a) = n /\ c \in Seq(Seq(Symbols)) /\ Len(c) = m
        /\ d \in Seq(Seq(Symbols)) /\ Len(d) = n + m
    BY <1>1, SelectedType
  <2>2. /\ \A i \in 1 .. n : a[i] = IF s[i] = b THEN <<b>> ELSE <<>>
        /\ \A i \in 1 .. m : c[i] = IF t[i] = b THEN <<b>> ELSE <<>>
        /\ \A i \in 1 .. n + m : d[i] = IF u[i] = b THEN <<b>> ELSE <<>>
    BY <1>1 DEF OnlyParts
  <2> HIDE DEF a, c, d, n, m
  <2>3. a \o c \in Seq(Seq(Symbols)) /\ Len(a \o c) = n + m
        /\ \A i \in 1 .. n + m : (a \o c)[i] = IF i <= n THEN a[i] ELSE c[i - n]
    BY <2>1, ConcatProperties
  <2>4. \A i \in 1 .. n + m : (i <= n => i \in 1 .. n) /\ (~(i <= n) => i - n \in 1 .. m) BY <1>1
  <2>5. \A i \in 1 .. n + m : d[i] = (a \o c)[i] BY <1>1, <2>2, <2>3, <2>4
  <2>6. d = a \o c BY <2>1, <2>3, <2>5, SeqEqual
  <2> QED BY <2>6 DEF a, c, d
<1>3. WithoutParts(u, b) = WithoutParts(s, b) \o WithoutParts(t, b)
  <2> DEFINE a == WithoutParts(s, b)
             c == WithoutParts(t, b)
             d == WithoutParts(u, b)
  <2>1. a \in Seq(Seq(Symbols)) /\ Len(a) = n /\ c \in Seq(Seq(Symbols)) /\ Len(c) = m
        /\ d \in Seq(Seq(Symbols)) /\ Len(d) = n + m
    BY <1>1, SelectedType
  <2>2. /\ \A i \in 1 .. n : a[i] = IF s[i] = b THEN <<>> ELSE <<s[i]>>
        /\ \A i \in 1 .. m : c[i] = IF t[i] = b THEN <<>> ELSE <<t[i]>>
        /\ \A i \in 1 .. n + m : d[i] = IF u[i] = b THEN <<>> ELSE <<u[i]>>
    BY <1>1 DEF WithoutParts
  <2> HIDE DEF a, c, d, n, m
  <2>3. a \o c \in Seq(Seq(Symbols)) /\ Len(a \o c) = n + m
        /\ \A i \in 1 .. n + m : (a \o c)[i] = IF i <= n THEN a[i] ELSE c[i - n]
    BY <2>1, ConcatProperties
  <2>4. \A i \in 1 .. n + m : (i <= n => i \in 1 .. n) /\ (~(i <= n) => i - n \in 1 .. m) BY <1>1
  <2>5. \A i \in 1 .. n + m : d[i] = (a \o c)[i] BY <1>1, <2>2, <2>3, <2>4
  <2>6. d = a \o c BY <2>1, <2>3, <2>5, SeqEqual
  <2> QED BY <2>6 DEF a, c, d
<1>4. \A x \in {s, t, u} : OnlyParts(x, b) \in Seq(Seq(Symbols)) /\ WithoutParts(x, b) \in Seq(Seq(Symbols))
  BY <1>1, SelectedType
<1>5. \A x : Only(x, b) = FlattenSeq(OnlyParts(x, b)) /\ Without(x, b) = FlattenSeq(WithoutParts(x, b))
  BY DEF Only, Without, OnlyParts, WithoutParts
<1>6. FlattenSeq(OnlyParts(s, b) \o OnlyParts(t, b)) = FlattenSeq(OnlyParts(s, b)) \o FlattenSeq(OnlyParts(t, b))
  BY <1>4, FlattenConcat
<1>7. FlattenSeq(WithoutParts(s, b) \o WithoutParts(t, b))
      = FlattenSeq(WithoutParts(s, b)) \o FlattenSeq(WithoutParts(t, b))
  BY <1>4, FlattenConcat
<1>8. Only(u, b) = Only(s, b) \o Only(t, b) BY <1>2, <1>5, <1>6
<1>9. Without(u, b) = Without(s, b) \o Without(t, b) BY <1>3, <1>5, <1>7
<1> QED BY <1>1, <1>8, <1>9 DEF u

\* Selection from a sequence of the one symbol.
LEMMA AllTheSame ==
  ASSUME NEW s \in Seq(Symbols), NEW b \in Symbols, \A i \in 1 .. Len(s) : s[i] = b
  PROVE  Only(s, b) = s /\ Without(s, b) = <<>>
<1>1. OnlyParts(s, b) \in Seq(Seq(Symbols)) /\ Len(OnlyParts(s, b)) = Len(s)
      /\ WithoutParts(s, b) \in Seq(Seq(Symbols)) /\ Len(WithoutParts(s, b)) = Len(s)
  BY SelectedType
<1>2. \A i \in 1 .. Len(s) : OnlyParts(s, b)[i] = <<s[i]>> /\ WithoutParts(s, b)[i] = <<>>
  BY DEF OnlyParts, WithoutParts
<1>3. Only(s, b) = FlattenSeq(OnlyParts(s, b)) /\ Without(s, b) = FlattenSeq(WithoutParts(s, b))
  BY DEF Only, Without, OnlyParts, WithoutParts
<1>4. FlattenSeq(OnlyParts(s, b)) = s BY <1>1, <1>2, FlattenOnes
<1>5. FlattenSeq(WithoutParts(s, b)) = <<>> BY <1>1, <1>2, FlattenNone
<1> QED BY <1>3, <1>4, <1>5

\* Selection from a sequence without it.
LEMMA NoneTheSame ==
  ASSUME NEW s \in Seq(Symbols), NEW b \in Symbols, \A i \in 1 .. Len(s) : s[i] # b
  PROVE  Only(s, b) = <<>> /\ Without(s, b) = s
<1>1. OnlyParts(s, b) \in Seq(Seq(Symbols)) /\ Len(OnlyParts(s, b)) = Len(s)
      /\ WithoutParts(s, b) \in Seq(Seq(Symbols)) /\ Len(WithoutParts(s, b)) = Len(s)
  BY SelectedType
<1>2. \A i \in 1 .. Len(s) : WithoutParts(s, b)[i] = <<s[i]>> /\ OnlyParts(s, b)[i] = <<>>
  BY DEF OnlyParts, WithoutParts
<1>3. Only(s, b) = FlattenSeq(OnlyParts(s, b)) /\ Without(s, b) = FlattenSeq(WithoutParts(s, b))
  BY DEF Only, Without, OnlyParts, WithoutParts
<1>4. FlattenSeq(WithoutParts(s, b)) = s BY <1>1, <1>2, FlattenOnes
<1>5. FlattenSeq(OnlyParts(s, b)) = <<>> BY <1>1, <1>2, FlattenNone
<1> QED BY <1>3, <1>4, <1>5

\* The answers to a piece.
LEMMA AcksAre ==
  ASSUME NEW p \in Seq(Symbols)
  PROVE  /\ Acks(p) \in Seq(Symbols) /\ Only(Acks(p), "ACK") = Acks(p) /\ Without(Acks(p), "ACK") = <<>>
         /\ Len(Acks(p)) = Len(Only(p, "ENQ"))
<1> DEFINE n == Len(Only(p, "ENQ"))
           a == Acks(p)
<1>s. "ACK" \in Symbols /\ "ENQ" \in Symbols BY DEF Symbols
<1>1. Only(p, "ENQ") \in Seq(Symbols) BY <1>s, SelectedType
<1>2. n \in Nat BY <1>1
<1>3. a = [i \in 1 .. n |-> "ACK"] BY DEF Acks
<1> HIDE DEF n, a
<1>4. a \in Seq(Symbols) /\ Len(a) = n /\ \A i \in 1 .. Len(a) : a[i] = "ACK"
  <2>1. a \in [1 .. n -> Symbols] BY <1>3, <1>s
  <2> QED BY <1>2, <1>3, <2>1
<1>5. Only(a, "ACK") = a /\ Without(a, "ACK") = <<>> BY <1>s, <1>4, AllTheSame
<1> QED BY <1>4, <1>5 DEF a, n
-----------------------------------------------------------------------------
(* Commands that are kept *)

KeptParts(n, drop) == [i \in 1 .. n |-> IF i \in drop THEN <<>> ELSE <<Commands[i]>>]

\* Commands are symbols and no answers.
LEMMA CommandsAre ==
  /\ Commands \in Seq(Symbols) /\ Len(Commands) \in Nat
  /\ \A i \in 1 .. Len(Commands) : Commands[i] \in Symbols /\ Commands[i] # "ACK"
<1>1. Commands \in Seq(STRING) /\ \A i \in DOMAIN Commands : Commands[i] # "ACK" BY StreamsAre
<1>2. DOMAIN Commands = 1 .. Len(Commands) /\ Len(Commands) \in Nat BY <1>1
<1>3. \A i \in 1 .. Len(Commands) : Commands[i] \in Symbols BY <1>1 DEF Symbols
<1> QED BY <1>1, <1>2, <1>3

\* The commands kept are a sequence of symbols.
LEMMA KeptType ==
  ASSUME NEW n \in 0 .. Len(Commands), NEW drop
  PROVE  /\ KeptParts(n, drop) \in Seq(Seq(Symbols)) /\ Len(KeptParts(n, drop)) = n
         /\ Kept(n, drop) = FlattenSeq(KeptParts(n, drop)) /\ Kept(n, drop) \in Seq(Symbols)
<1>1. n \in Nat /\ \A i \in 1 .. n : Commands[i] \in Symbols BY CommandsAre
<1>2. ASSUME NEW i \in 1 .. n PROVE <<Commands[i]>> \in Seq(Symbols)
  <2>1. Commands[i] \in Symbols BY <1>1
  <2> QED BY <2>1
<1>3. KeptParts(n, drop) \in [1 .. n -> Seq(Symbols)]
  <2>1. <<>> \in Seq(Symbols) OBVIOUS
  <2> QED BY <1>2, <2>1 DEF KeptParts
<1>4. KeptParts(n, drop) \in Seq(Seq(Symbols)) /\ Len(KeptParts(n, drop)) = n BY <1>1, <1>3
<1>5. Kept(n, drop) = FlattenSeq(KeptParts(n, drop)) BY DEF Kept, KeptParts
<1> QED BY <1>4, <1>5, FlattenType

\* Part of the commands.
LEMMA CommandsFrom ==
  ASSUME NEW m \in Nat, NEW n \in 0 .. Len(Commands), m <= n
  PROVE  /\ SubSeq(Commands, m + 1, n) \in Seq(Symbols) /\ Len(SubSeq(Commands, m + 1, n)) = n - m
         /\ \A i \in 1 .. n - m : SubSeq(Commands, m + 1, n)[i] = Commands[m + i]
         /\ \A i \in 1 .. n - m : SubSeq(Commands, m + 1, n)[i] # "ACK"
<1> DEFINE c == SubSeq(Commands, m + 1, n)
<1>0. Commands \in Seq(Symbols) /\ Len(Commands) \in Nat /\ n \in Nat BY CommandsAre
<1>1. \A i \in (m + 1) .. n : i \in 1 .. Len(Commands) BY <1>0
<1>2. c \in Seq(Symbols) BY <1>0, <1>1, SubSeqProperties
<1>3. Len(c) = n - m BY <1>0, <1>1, SubSeqProperties
<1>4. \A i \in 1 .. n - m : c[i] = Commands[m + 1 + i - 1]
  <2>1. \A i \in 1 .. n - (m + 1) + 1 : c[i] = Commands[m + 1 + i - 1] BY <1>0, <1>1, SubSeqProperties
  <2>2. n - (m + 1) + 1 = n - m BY <1>0
  <2> QED BY <2>1, <2>2
<1>5. \A i \in 1 .. n - m : m + 1 + i - 1 = m + i /\ m + i \in 1 .. Len(Commands) BY <1>0
<1> HIDE DEF c
<1>6. \A i \in 1 .. n - m : c[i] = Commands[m + i] BY <1>4, <1>5
<1>7. \A i \in 1 .. n - m : c[i] # "ACK" BY <1>5, <1>6, CommandsAre
<1> QED BY <1>2, <1>3, <1>6, <1>7 DEF c

\* Nothing of what came last is dropped.
LEMMA KeptAll ==
  ASSUME NEW m \in Nat, NEW n \in 0 .. Len(Commands), m <= n, NEW drop, \A i \in m + 1 .. n : i \notin drop
  PROVE  Kept(n, drop) = Kept(m, drop) \o SubSeq(Commands, m + 1, n)
<1> DEFINE c == SubSeq(Commands, m + 1, n)
           a == KeptParts(m, drop)
           d == KeptParts(n, drop)
           e == [i \in 1 .. n - m |-> <<c[i]>>]
<1>0. n \in Nat /\ n - m \in Nat /\ m \in 0 .. Len(Commands) BY CommandsAre
<1>1. c \in Seq(Symbols) /\ Len(c) = n - m /\ \A i \in 1 .. n - m : c[i] = Commands[m + i] BY CommandsFrom
<1>2. a \in Seq(Seq(Symbols)) /\ Len(a) = m /\ d \in Seq(Seq(Symbols)) /\ Len(d) = n BY <1>0, KeptType
<1>3. \A i \in 1 .. m : a[i] = IF i \in drop THEN <<>> ELSE <<Commands[i]>> BY DEF KeptParts
<1>4. \A i \in 1 .. n : d[i] = IF i \in drop THEN <<>> ELSE <<Commands[i]>> BY DEF KeptParts
<1> HIDE DEF a, c, d
<1>5. e \in Seq(Seq(Symbols)) /\ Len(e) = n - m /\ \A i \in 1 .. n - m : e[i] = <<c[i]>>
  <2>1. ASSUME NEW i \in 1 .. n - m PROVE <<c[i]>> \in Seq(Symbols)
    <3>1. c[i] \in Symbols BY <1>1
    <3> QED BY <3>1
  <2>2. e \in [1 .. n - m -> Seq(Symbols)] BY <2>1
  <2> QED BY <1>0, <2>2
<1> HIDE DEF e
<1>6. a \o e \in Seq(Seq(Symbols)) /\ Len(a \o e) = n
      /\ \A i \in 1 .. n : (a \o e)[i] = IF i <= m THEN a[i] ELSE e[i - m]
  <2> DEFINE g == a \o e
  <2>1. m + (n - m) = n BY <1>0
  <2>2. g \in Seq(Seq(Symbols)) /\ Len(g) = Len(a) + Len(e)
        /\ \A i \in 1 .. Len(a) + Len(e) : g[i] = IF i <= Len(a) THEN a[i] ELSE e[i - Len(a)]
    BY <1>2, <1>5, ConcatProperties
  <2> HIDE DEF g
  <2>3. Len(a) + Len(e) = n BY <1>2, <1>5, <2>1
  <2>4. g \in Seq(Seq(Symbols)) /\ Len(g) = n /\ \A i \in 1 .. n : g[i] = IF i <= m THEN a[i] ELSE e[i - m]
    BY <1>2, <2>2, <2>3
  <2> QED BY <2>4 DEF g
<1>7. ASSUME NEW i \in 1 .. n PROVE d[i] = (a \o e)[i]
  <2>1. CASE i <= m
    <3>1. i \in 1 .. m BY <2>1
    <3> QED BY <1>3, <1>4, <1>6, <2>1, <3>1
  <2>2. CASE ~(i <= m)
    <3>1. i - m \in 1 .. n - m /\ m + (i - m) = i /\ i \in m + 1 .. n BY <1>0, <2>2
    <3>2. i \notin drop BY <3>1
    <3>3. e[i - m] = <<Commands[i]>> BY <1>1, <1>5, <3>1
    <3> QED BY <1>4, <1>6, <2>2, <3>2, <3>3
  <2> QED BY <2>1, <2>2
<1>8. d = a \o e BY <1>2, <1>6, <1>7, SeqEqual
<1>9. FlattenSeq(e) = c BY <1>1, <1>5, FlattenOnes
<1>10. FlattenSeq(a \o e) = FlattenSeq(a) \o FlattenSeq(e) BY <1>2, <1>5, FlattenConcat
<1>11. Kept(n, drop) = FlattenSeq(d) /\ Kept(m, drop) = FlattenSeq(a) BY <1>0, KeptType DEF a, d
<1> QED BY <1>8, <1>9, <1>10, <1>11 DEF c

\* All of what came last is dropped.
LEMMA KeptNone ==
  ASSUME NEW m \in Nat, NEW n \in 0 .. Len(Commands), m <= n, NEW drop, NEW more,
         \A i \in m + 1 .. n : i \in more, \A i \in 1 .. m : i \in more <=> i \in drop
  PROVE  Kept(n, more) = Kept(m, drop)
<1> DEFINE a == KeptParts(m, drop)
           d == KeptParts(n, more)
           e == [i \in 1 .. n - m |-> <<>>]
<1>0. n \in Nat /\ n - m \in Nat /\ m \in 0 .. Len(Commands) BY CommandsAre
<1>2. a \in Seq(Seq(Symbols)) /\ Len(a) = m /\ d \in Seq(Seq(Symbols)) /\ Len(d) = n BY <1>0, KeptType
<1>3. \A i \in 1 .. m : a[i] = IF i \in drop THEN <<>> ELSE <<Commands[i]>> BY DEF KeptParts
<1>4. \A i \in 1 .. n : d[i] = IF i \in more THEN <<>> ELSE <<Commands[i]>> BY DEF KeptParts
<1> HIDE DEF a, d
<1>5. e \in Seq(Seq(Symbols)) /\ Len(e) = n - m /\ \A i \in 1 .. n - m : e[i] = <<>>
  <2>1. e \in [1 .. n - m -> Seq(Symbols)]
    <3>1. <<>> \in Seq(Symbols) OBVIOUS
    <3> QED BY <3>1
  <2> QED BY <1>0, <2>1
<1> HIDE DEF e
<1>6. a \o e \in Seq(Seq(Symbols)) /\ Len(a \o e) = n
      /\ \A i \in 1 .. n : (a \o e)[i] = IF i <= m THEN a[i] ELSE e[i - m]
  <2> DEFINE g == a \o e
  <2>1. m + (n - m) = n BY <1>0
  <2>2. g \in Seq(Seq(Symbols)) /\ Len(g) = Len(a) + Len(e)
        /\ \A i \in 1 .. Len(a) + Len(e) : g[i] = IF i <= Len(a) THEN a[i] ELSE e[i - Len(a)]
    BY <1>2, <1>5, ConcatProperties
  <2> HIDE DEF g
  <2>3. Len(a) + Len(e) = n BY <1>2, <1>5, <2>1
  <2>4. g \in Seq(Seq(Symbols)) /\ Len(g) = n /\ \A i \in 1 .. n : g[i] = IF i <= m THEN a[i] ELSE e[i - m]
    BY <1>2, <2>2, <2>3
  <2> QED BY <2>4 DEF g
<1>7. ASSUME NEW i \in 1 .. n PROVE d[i] = (a \o e)[i]
  <2>1. CASE i <= m
    <3>1. i \in 1 .. m BY <2>1
    <3> QED BY <1>3, <1>4, <1>6, <2>1, <3>1
  <2>2. CASE ~(i <= m)
    <3>1. i - m \in 1 .. n - m /\ i \in m + 1 .. n BY <1>0, <2>2
    <3>2. i \in more /\ e[i - m] = <<>> BY <1>5, <3>1
    <3> QED BY <1>4, <1>6, <2>2, <3>2
  <2> QED BY <2>1, <2>2
<1>8. d = a \o e BY <1>2, <1>6, <1>7, SeqEqual
<1>9. FlattenSeq(e) = <<>> BY <1>5, FlattenNone
<1>10. FlattenSeq(a \o e) = FlattenSeq(a) \o FlattenSeq(e) BY <1>2, <1>5, FlattenConcat
<1>11. FlattenSeq(a) \o <<>> = FlattenSeq(a)
  <2>1. FlattenSeq(a) \in Seq(Symbols) BY <1>2, FlattenType
  <2> QED BY <2>1, ConcatEmptySeq
<1>12. Kept(n, more) = FlattenSeq(d) /\ Kept(m, drop) = FlattenSeq(a) BY <1>0, KeptType DEF a, d
<1> QED BY <1>8, <1>9, <1>10, <1>11, <1>12

-----------------------------------------------------------------------------
(* The pattern and the window *)

\* The pattern is in s, i bytes from its start.
At(s, i) == i + Len(Trigger) <= Len(s) /\ \A j \in 1 .. Len(Trigger) : s[i + j] = Trigger[j]
Occurs(s) == \E i \in 0 .. Len(s) : At(s, i)

\* The pattern is not empty.
LEMMA TriggerIs == Trigger \in Seq(Symbols) /\ Len(Trigger) \in Nat /\ Len(Trigger) > 0
<1>1. Trigger \in Seq(STRING) /\ Trigger # <<>> BY StreamsAre
<1>2. Len(Trigger) \in Nat /\ Len(Trigger) > 0 BY <1>1, EmptySeq
<1>3. \A i \in 1 .. Len(Trigger) : Trigger[i] \in Symbols BY <1>1 DEF Symbols
<1> QED BY <1>1, <1>2, <1>3

\* The part of s behind its first k bytes.
LEMMA AfterIs ==
  ASSUME NEW s \in Seq(Symbols), NEW k \in 0 .. Len(s)
  PROVE  /\ After(s, k) \in Seq(Symbols) /\ Len(After(s, k)) = Len(s) - k
         /\ \A j \in 1 .. Len(s) - k : After(s, k)[j] = s[k + j]
<1> DEFINE n == Len(s)
           a == SubSeq(s, k + 1, n)
<1>0. n \in Nat /\ k \in Nat /\ k <= n OBVIOUS
<1>1. \A i \in (k + 1) .. n : i \in 1 .. Len(s) BY <1>0
<1>2. a \in Seq(Symbols) BY <1>0, <1>1, SubSeqProperties
<1>3. Len(a) = n - k BY <1>0, <1>1, SubSeqProperties
<1>4. \A i \in 1 .. n - k : a[i] = s[k + 1 + i - 1]
  <2>1. \A i \in 1 .. n - (k + 1) + 1 : a[i] = s[k + 1 + i - 1] BY <1>0, <1>1, SubSeqProperties
  <2>2. n - (k + 1) + 1 = n - k BY <1>0
  <2> QED BY <2>1, <2>2
<1>5. \A i \in 1 .. n - k : k + 1 + i - 1 = k + i BY <1>0
<1> HIDE DEF a
<1>6. \A i \in 1 .. n - k : a[i] = s[k + i] BY <1>4, <1>5
<1> QED BY <1>2, <1>3, <1>6 DEF a, After

\* A prefix of the rest of s, byte by byte.
LEMMA AtIs ==
  ASSUME NEW s \in Seq(Symbols), NEW i \in 0 .. Len(s)
  PROVE  IsPrefix(Trigger, After(s, i)) <=> At(s, i)
<1> DEFINE t == Len(Trigger)
           a == After(s, i)
           n == Len(s)
<1>0. Trigger \in Seq(Symbols) /\ t \in Nat /\ n \in Nat BY TriggerIs
<1>1. a \in Seq(Symbols) /\ Len(a) = n - i /\ \A j \in 1 .. n - i : a[j] = s[i + j] BY AfterIs
<1>2. IsPrefix(Trigger, a) <=> t <= Len(a) /\ SubSeq(Trigger, 1, t) = SubSeq(a, 1, t) BY DEF IsPrefix
<1>3. SubSeq(Trigger, 1, t) = Trigger BY <1>0, SubSeqFull
<1> HIDE DEF t, a, n
<1>4. t <= Len(a) <=> i + t <= n BY <1>0, <1>1
<1>5. ASSUME t <= Len(a) PROVE SubSeq(a, 1, t) = Trigger <=> \A j \in 1 .. t : s[i + j] = Trigger[j]
  <2> DEFINE b == SubSeq(a, 1, t)
  <2>1. b \in Seq(Symbols) /\ Len(b) = t /\ \A j \in 1 .. t : b[j] = a[j]
    <3>1. \A j \in 1 .. t : j \in 1 .. Len(a) BY <1>0, <1>1, <1>5
    <3>7. \A j \in 1 .. t : a[j] \in Symbols BY <1>1, <3>1
    <3>2. b \in Seq(Symbols) BY <1>0, <3>7, SubSeqProperties
    <3>3. Len(b) = t BY <1>0, <3>7, SubSeqProperties
    <3>4. \A j \in 1 .. t - 1 + 1 : b[j] = a[1 + j - 1] BY <1>0, <3>7, SubSeqProperties
    <3>5. t - 1 + 1 = t /\ \A j \in 1 .. t : 1 + j - 1 = j BY <1>0
    <3> HIDE DEF b
    <3>6. \A j \in 1 .. t : b[j] = a[j] BY <3>4, <3>5
    <3> QED BY <3>2, <3>3, <3>6
  <2>2. \A j \in 1 .. t : j \in 1 .. n - i BY <1>0, <1>1, <1>5
  <2> HIDE DEF b
  <2>3. \A j \in 1 .. t : b[j] = s[i + j] BY <1>1, <2>1, <2>2
  <2>4. b = Trigger <=> \A j \in 1 .. t : b[j] = Trigger[j]
    <3>1. (\A j \in 1 .. t : b[j] = Trigger[j]) => b = Trigger BY <1>0, <2>1, SeqEqual DEF t
    <3> QED BY <3>1
  <2> QED BY <2>3, <2>4 DEF b
<1>6. At(s, i) <=> i + t <= n /\ \A j \in 1 .. t : s[i + j] = Trigger[j] BY DEF At, t, n
<1>7. IsPrefix(Trigger, a) <=> At(s, i) BY <1>2, <1>3, <1>4, <1>5, <1>6
<1> QED BY <1>7 DEF a

\* The pattern is in a stream or in the window, byte by byte.
LEMMA OccursIs ==
  ASSUME NEW s \in Seq(Symbols)
  PROVE  /\ (\E i \in 0 .. Len(s) : IsPrefix(Trigger, After(s, i))) <=> Occurs(s)
         /\ \A p : Matches(s, p) <=> Occurs(s)
<1>1. (\E i \in 0 .. Len(s) : IsPrefix(Trigger, After(s, i))) <=> Occurs(s) BY AtIs DEF Occurs
<1>2. \A p : Matches(s, p) <=> \E i \in 0 .. Len(s) : IsPrefix(Trigger, After(s, i)) BY DEF Matches, After
<1> QED BY <1>1, <1>2

\* b holds the last bytes of s, as many as the window takes.
WindowOf(b, s) ==
    /\ b \in Seq(Symbols) /\ Len(b) <= Len(s) /\ Len(b) <= Window
    /\ Len(b) = Len(s) \/ Len(b) = Window
    /\ \A i \in 1 .. Len(b) : b[i] = s[Len(s) - Len(b) + i]

Cut(all) == IF Len(all) > Window THEN After(all, Len(all) - Window) ELSE all

\* The window and the pieces fit together.
LEMMA WindowIs == Window \in Nat /\ Piece \in Nat /\ Len(Trigger) + Piece - 1 <= Window
BY WindowFits

\* The window is that of the longer stream after a piece has been put behind it and the
\* excess cut off.
LEMMA CutIsWindow ==
  ASSUME NEW b, NEW s \in Seq(Symbols), NEW p \in Seq(Symbols), WindowOf(b, s)
  PROVE  WindowOf(Cut(b \o p), s \o p)
<1> DEFINE all == b \o p
           t == s \o p
           w == Cut(all)
           B == Len(b)
           S == Len(s)
           P == Len(p)
<1>0. B \in Nat /\ S \in Nat /\ P \in Nat /\ Window \in Nat BY WindowIs DEF WindowOf
<1>1. all \in Seq(Symbols) /\ Len(all) = B + P
      /\ \A i \in 1 .. B + P : all[i] = IF i <= B THEN b[i] ELSE p[i - B]
  BY ConcatProperties DEF WindowOf
<1>2. t \in Seq(Symbols) /\ Len(t) = S + P
      /\ \A i \in 1 .. S + P : t[i] = IF i <= S THEN s[i] ELSE p[i - S]
  BY ConcatProperties
<1>3. b \in Seq(Symbols) /\ B <= S /\ B <= Window /\ (B = S \/ B = Window) /\ \A i \in 1 .. B : b[i] = s[S - B + i]
  BY DEF WindowOf
<1> HIDE DEF all, t, B, S, P
<1>4. ASSUME NEW i \in 1 .. B + P PROVE all[i] = t[S - B + i]
  <2>1. CASE i <= B
    <3>1. S - B + i \in 1 .. S + P /\ S - B + i <= S /\ i \in 1 .. B BY <1>0, <1>3, <2>1
    <3> QED BY <1>1, <1>2, <1>3, <2>1, <3>1
  <2>2. CASE ~(i <= B)
    <3>1. S - B + i \in 1 .. S + P /\ ~(S - B + i <= S) /\ (S - B + i) - S = i - B BY <1>0, <1>3, <2>2
    <3> QED BY <1>1, <1>2, <2>2, <3>1
  <2> QED BY <2>1, <2>2
<1>5. CASE B + P > Window
  <2> DEFINE k == B + P - Window
  <2>1. k \in 0 .. Len(all) /\ k \in Nat /\ Len(all) - k = Window BY <1>0, <1>1, <1>5
  <2>2. w = After(all, k)
    <3>1. w = IF Len(all) > Window THEN After(all, Len(all) - Window) ELSE all BY DEF Cut
    <3>0. Len(all) = B + P BY <1>1
    <3>2. Len(all) > Window /\ Len(all) - Window = k BY <1>0, <1>5, <3>0
    <3> HIDE DEF w, k
    <3> QED BY <3>1, <3>2
  <2>3. w \in Seq(Symbols) /\ Len(w) = Window /\ \A i \in 1 .. Window : w[i] = all[k + i]
    <3>1. After(all, k) \in Seq(Symbols) /\ Len(After(all, k)) = Len(all) - k
          /\ \A j \in 1 .. Len(all) - k : After(all, k)[j] = all[k + j]
      <4> HIDE DEF k
      <4> QED BY <1>1, <2>1, AfterIs
    <3> QED BY <2>1, <2>2, <3>1
  <2>4. ASSUME NEW i \in 1 .. Window PROVE w[i] = t[(S + P) - Window + i]
    <3>1. k + i \in 1 .. B + P /\ S - B + (k + i) = (S + P) - Window + i BY <1>0, <1>5
    <3> HIDE DEF k, w
    <3>2. w[i] = all[k + i] BY <2>3
    <3>3. all[k + i] = t[S - B + (k + i)] BY <1>4, <3>1
    <3> QED BY <3>1, <3>2, <3>3
  <2>5. Window <= S + P BY <1>0, <1>3, <1>5
  <2> HIDE DEF w
  <2>6. WindowOf(w, t) BY <1>0, <1>2, <2>3, <2>4, <2>5 DEF WindowOf
  <2> QED BY <2>6 DEF w, t, all
<1>6. CASE ~(B + P > Window)
  <2>1. w = all BY <1>1, <1>6 DEF Cut
  <2>2. B + P <= S + P /\ B + P <= Window /\ (B + P = S + P \/ B + P = Window) BY <1>0, <1>3, <1>6
  <2>3. ASSUME NEW i \in 1 .. B + P PROVE all[i] = t[(S + P) - (B + P) + i]
    <3>1. (S + P) - (B + P) + i = S - B + i BY <1>0
    <3> QED BY <1>4, <3>1
  <2>4. WindowOf(all, t) BY <1>1, <1>2, <2>2, <2>3 DEF WindowOf
  <2> QED BY <2>1, <2>4 DEF t, all
<1> QED BY <1>0, <1>5, <1>6

\* What has come stays.
LEMMA OccursStays ==
  ASSUME NEW s \in Seq(Symbols), NEW p \in Seq(Symbols), Occurs(s) PROVE Occurs(s \o p)
<1> DEFINE t == s \o p
           S == Len(s)
           P == Len(p)
           T == Len(Trigger)
<1>1. t \in Seq(Symbols) /\ Len(t) = S + P /\ \A i \in 1 .. S + P : t[i] = IF i <= S THEN s[i] ELSE p[i - S]
  BY ConcatProperties
<1>0. S \in Nat /\ P \in Nat /\ T \in Nat BY TriggerIs
<1>2. PICK i \in 0 .. S : i + T <= S /\ \A j \in 1 .. T : s[i + j] = Trigger[j] BY DEF Occurs, At
<1> HIDE DEF t, S, P, T
<1>3. i \in 0 .. S + P /\ i + T <= S + P BY <1>0, <1>2
<1>4. \A j \in 1 .. T : i + j \in 1 .. S + P /\ i + j <= S BY <1>0, <1>2
<1>5. \A j \in 1 .. T : t[i + j] = Trigger[j] BY <1>1, <1>2, <1>4
<1>6. i \in 0 .. Len(t) /\ At(t, i) BY <1>1, <1>3, <1>5 DEF At, T
<1> QED BY <1>6 DEF Occurs, t

\* A pattern that is new with a piece is in the window.
LEMMA OccursInWindow ==
  ASSUME NEW s \in Seq(Symbols), NEW p \in Seq(Symbols), NEW w, WindowOf(w, s \o p), Len(p) <= Piece, ~Occurs(s)
  PROVE  Occurs(w) <=> Occurs(s \o p)
<1> DEFINE t == s \o p
           S == Len(s)
           P == Len(p)
           T == Len(Trigger)
           W == Len(w)
<1>1. t \in Seq(Symbols) /\ Len(t) = S + P /\ \A i \in 1 .. S + P : t[i] = IF i <= S THEN s[i] ELSE p[i - S]
  BY ConcatProperties
<1>0. S \in Nat /\ P \in Nat /\ T \in Nat /\ W \in Nat /\ Window \in Nat /\ Piece \in Nat /\ P <= Piece
      /\ T + Piece - 1 <= Window
  BY TriggerIs, WindowIs DEF WindowOf
<1>2. W <= S + P /\ (W = S + P \/ W = Window) /\ \A i \in 1 .. W : w[i] = t[(S + P) - W + i] BY <1>1 DEF WindowOf
<1>3. \A r, i : At(r, i) <=> i + T <= Len(r) /\ \A j \in 1 .. T : r[i + j] = Trigger[j] BY DEF At
<1> HIDE DEF t, S, P, T, W
<1>4. ASSUME Occurs(w) PROVE Occurs(t)
  <2>1. PICK i \in 0 .. W : i + T <= W /\ \A j \in 1 .. T : w[i + j] = Trigger[j] BY <1>3, <1>4 DEF Occurs, W
  <2> DEFINE k == (S + P) - W + i
  <2>2. k \in 0 .. S + P /\ k + T <= S + P /\ \A j \in 1 .. T : i + j \in 1 .. W /\ (S + P) - W + (i + j) = k + j
    BY <1>0, <1>2, <2>1
  <2> HIDE DEF k
  <2>3. \A j \in 1 .. T : t[k + j] = Trigger[j] BY <1>2, <2>1, <2>2
  <2>4. k \in 0 .. Len(t) /\ At(t, k) BY <1>1, <1>3, <2>2, <2>3
  <2> QED BY <2>4 DEF Occurs
<1>5. ASSUME Occurs(t) PROVE Occurs(w)
  <2>1. PICK i \in 0 .. S + P : i + T <= S + P /\ \A j \in 1 .. T : t[i + j] = Trigger[j] BY <1>1, <1>3, <1>5 DEF Occurs
  <2>2. i + T > S
    <3> SUFFICES ASSUME i + T <= S PROVE FALSE BY <1>0
    <3>1. i \in 0 .. S /\ \A j \in 1 .. T : i + j \in 1 .. S + P /\ i + j <= S BY <1>0
    <3>2. \A j \in 1 .. T : s[i + j] = Trigger[j] BY <1>1, <2>1, <3>1
    <3>3. At(s, i) BY <1>3, <3>2 DEF S
    <3> QED BY <3>1, <3>3 DEF Occurs, S
  <2> DEFINE k == i - ((S + P) - W)
  <2>3. k \in 0 .. W /\ k + T <= W BY <1>0, <1>2, <2>1, <2>2
  <2>4. \A j \in 1 .. T : k + j \in 1 .. W /\ (S + P) - W + (k + j) = i + j BY <1>0, <2>3
  <2> HIDE DEF k
  <2>5. \A j \in 1 .. T : w[k + j] = Trigger[j] BY <1>2, <2>1, <2>4
  <2>6. At(w, k) BY <1>3, <2>3, <2>5 DEF W
  <2> QED BY <2>3, <2>6 DEF Occurs, W
<1> QED BY <1>4, <1>5 DEF t
-----------------------------------------------------------------------------
(* The invariant *)

BridgeTypes ==
    /\ tool \in {"interactive", "daemon", "driver", "none"}
    /\ typed \in Seq(Symbols) /\ line \in Seq(Symbols) /\ keysRead \in Seq(Symbols) /\ lineRead \in Seq(Symbols)
    /\ toLine \in Seq(Symbols) /\ shown \in Seq(Symbols)
    /\ escape_pending \in BOOLEAN /\ armed \in BOOLEAN /\ over \in BOOLEAN
    /\ written \in 0 .. Len(Commands) /\ fifo_fd \in {"open", "eof", "closed"}

\* The keys read so far, and what is pending.
KeysHeld ==
    tool = "interactive" =>
        /\ Quits(keysRead) => over
        /\ ~Quits(keysRead) => toLine = Means(keysRead) /\ (escape_pending <=> Pending(keysRead))

\* The first m commands have gone out but for those in drop, the others are in
\* the FIFO; with an empty read behind it, these came after it.
Passed(m, drop) ==
    /\ m \in 0 .. written /\ drop \subseteq unlucky /\ (\A i \in drop : i \in 1 .. m)
    /\ Without(toLine, "ACK") = Kept(m, drop)
    /\ fifo = SubSeq(Commands, m + 1, written)
    /\ fifo_fd = "eof" => \A i \in m + 1 .. written : i \in unlucky
    /\ fifo_fd = "closed" => m = written

CommandsHeld == tool = "daemon" => \E m, drop : Passed(m, drop)

\* The window holds the end of what was read, and the driver is armed as long
\* as the pattern has not come.
WindowHeld ==
    tool = "driver" =>
        /\ WindowOf(buf, lineRead) /\ (armed <=> ~Occurs(lineRead))
        /\ toLine = IF Occurs(lineRead) THEN <<"INJECT">> ELSE <<>>

BridgeInv == BridgeTypes /\ KeysHeld /\ EnquiriesAnswered /\ CommandsHeld /\ WindowHeld

\* The symbols include all strings and those the programs send.
LEMMA SymbolsAre ==
  /\ {"ESC", "q", "CR", "ACK", "ENQ", "INJECT", "x"} \subseteq Symbols
  /\ \A s \in Seq(STRING) : s \in Seq(Symbols)
<1>1. ASSUME NEW s \in Seq(STRING) PROVE s \in Seq(Symbols)
  <2>1. \A i \in 1 .. Len(s) : s[i] \in Symbols BY DEF Symbols
  <2> QED BY <2>1
<1> QED BY <1>1 DEF Symbols

\* What holds of empty streams.
LEMMA NothingRead ==
  /\ <<>> \in Seq(Symbols) /\ ~Quits(<<>>) /\ ~Pending(<<>>) /\ Means(<<>>) = <<>>
  /\ \A b \in Symbols : Only(<<>>, b) = <<>> /\ Without(<<>>, b) = <<>>
  /\ Kept(0, {}) = <<>> /\ ~Occurs(<<>>) /\ WindowOf(<<>>, <<>>)
<1>0. <<>> \in Seq(Symbols) /\ Len(<<>>) = 0 OBVIOUS
<1>1. ~Quits(<<>>) /\ ~Pending(<<>>)
  <2>1. 2 .. 0 = {} OBVIOUS
  <2> QED BY <1>0, <2>1 DEF Quits, Pending
<1>2. \A f : [i \in 1 .. 0 |-> f[i]] = <<>> OBVIOUS
<1>3. Means(<<>>) = <<>>
  <2>1. Meanings(<<>>) \in Seq(Seq(Symbols)) /\ Len(Meanings(<<>>)) = 0 BY <1>0, MeaningsType
  <2>2. Meanings(<<>>) = <<>> BY <2>1, EmptySeq
  <2> QED BY <2>2, FlattenEmpty DEF Means
<1>4. ASSUME NEW b \in Symbols PROVE Only(<<>>, b) = <<>> /\ Without(<<>>, b) = <<>>
  <2>1. \A i \in 1 .. Len(<<>>) : <<>>[i] = b OBVIOUS
  <2> QED BY <1>0, <2>1, AllTheSame
<1>5. Kept(0, {}) = <<>>
  <2>0. 0 \in 0 .. Len(Commands) BY CommandsAre
  <2>1. KeptParts(0, {}) \in Seq(Seq(Symbols)) /\ Len(KeptParts(0, {})) = 0 /\ Kept(0, {}) = FlattenSeq(KeptParts(0, {}))
    BY <2>0, KeptType
  <2>2. KeptParts(0, {}) = <<>> BY <2>1, EmptySeq
  <2> QED BY <2>1, <2>2, FlattenEmpty
<1>6. ~Occurs(<<>>)
  <2>1. \A i \in 0 .. 0 : ~(i + Len(Trigger) <= 0) BY TriggerIs
  <2> QED BY <1>0, <2>1 DEF Occurs, At
<1>7. WindowOf(<<>>, <<>>)
  <2>1. 0 <= Window /\ 0 <= 0 BY WindowIs
  <2>2. \A i \in 1 .. 0 : FALSE OBVIOUS
  <2> QED BY <1>0, <2>1, <2>2 DEF WindowOf
<1> QED BY <1>0, <1>1, <1>3, <1>4, <1>5, <1>6, <1>7

\* Nothing has been read or sent.
LEMMA BridgeStarts == ASSUME BridgesInit \/ BridgesIdle PROVE BridgeInv
<1>1. PICK t \in {"interactive", "daemon", "driver", "none"} :
        BridgesStart(t) /\ typed \in Seq(Symbols) /\ line \in Seq(Symbols)
  <2>1. Typed \subseteq Seq(Symbols) /\ Lines \subseteq Seq(Symbols) BY StreamsAre, SymbolsAre
  <2>2. <<"x">> \in Seq(Symbols) /\ <<>> \in Seq(Symbols)
    <3>1. "x" \in Symbols BY SymbolsAre
    <3> QED BY <3>1
  <2> QED BY <2>1, <2>2 DEF BridgesInit, BridgesIdle
<1>2. /\ tool = t /\ keysRead = <<>> /\ lineRead = <<>> /\ escape_pending = FALSE /\ armed = (t = "driver")
      /\ buf = <<>> /\ toLine = <<>> /\ shown = <<>> /\ fifo = <<>> /\ fifo_fd = "open" /\ written = 0
      /\ unlucky = {} /\ over = FALSE
  BY <1>1 DEF BridgesStart
<1>3. BridgeTypes
  <2>1. written \in 0 .. Len(Commands) BY <1>2, CommandsAre
  <2>2. escape_pending \in BOOLEAN /\ armed \in BOOLEAN /\ over \in BOOLEAN BY <1>2
  <2>3. <<>> \in Seq(Symbols) OBVIOUS
  <2> QED BY <1>1, <1>2, <2>1, <2>2, <2>3 DEF BridgeTypes
<1>4. KeysHeld BY <1>2, NothingRead DEF KeysHeld
<1>s. "ACK" \in Symbols /\ "ENQ" \in Symbols BY SymbolsAre
<1>5. EnquiriesAnswered BY <1>s, <1>2, NothingRead DEF EnquiriesAnswered
<1>6. CommandsHeld
  <2>1. SubSeq(Commands, 0 + 1, 0) = <<>> /\ 0 \in 0 .. 0 BY CommandsAre, SubSeqEmpty
  <2>2. Passed(0, {}) BY <1>s, <1>2, <2>1, NothingRead DEF Passed
  <2> QED BY <2>2 DEF CommandsHeld
<1>7. WindowHeld BY <1>1, <1>2, NothingRead DEF WindowHeld
<1> QED BY <1>3, <1>4, <1>5, <1>6, <1>7 DEF BridgeInv

\* A piece of a stream and the rest.
LEMMA PieceOf ==
  ASSUME NEW s \in Seq(Symbols), NEW k \in Upto(s)
  PROVE  /\ SubSeq(s, 1, k) \in Seq(Symbols) /\ Len(SubSeq(s, 1, k)) <= Piece
         /\ After(s, k) \in Seq(Symbols)
<1>1. Len(s) \in Nat /\ Piece \in Nat BY WindowIs
<1>2. k \in 1 .. Len(s) /\ k <= Piece BY <1>1 DEF Upto
<1>3. SubSeq(s, 1, k) \in Seq(Symbols) /\ Len(SubSeq(s, 1, k)) = k
  <2>1. \A i \in 1 .. k : s[i] \in Symbols BY <1>1, <1>2
  <2>2. 1 \in Int /\ k \in Int /\ 1 <= k /\ k - 1 + 1 = k BY <1>2
  <2>3. SubSeq(s, 1, k) \in Seq(Symbols) BY <2>1, <2>2, SubSeqProperties
  <2>4. Len(SubSeq(s, 1, k)) = IF 1 <= k THEN k - 1 + 1 ELSE 0 BY <2>1, <2>2, SubSeqProperties
  <2> QED BY <2>2, <2>3, <2>4
<1>4. After(s, k) \in Seq(Symbols)
  <2>1. k \in 0 .. Len(s) BY <1>1, <1>2
  <2> QED BY <2>1, AfterIs
<1> QED BY <1>2, <1>3, <1>4

\* siob_interactive.py reads a piece of keys, wherever it ends.
LEMMA KeysKept ==
  ASSUME BridgeInv, NEW k \in Upto(typed), ReadKeys(k) PROVE BridgeInv'
<1> DEFINE p == SubSeq(typed, 1, k)
           res == KeyByKey(escape_pending, p)
<1>0. BridgeTypes /\ KeysHeld BY DEF BridgeInv
<1>1. tool = "interactive" /\ over = FALSE BY <1>0 DEF ReadKeys, BridgeTypes
<1>2. p \in Seq(Symbols) /\ After(typed, k) \in Seq(Symbols)
  <2>1. typed \in Seq(Symbols) BY <1>0 DEF BridgeTypes
  <2> QED BY <2>1, PieceOf
<1>3. ~Quits(keysRead) /\ toLine = Means(keysRead) /\ (escape_pending <=> Pending(keysRead))
  BY <1>0, <1>1 DEF KeysHeld
<1>4. toLine \in Seq(Symbols) /\ keysRead \in Seq(Symbols) /\ escape_pending \in BOOLEAN BY <1>0 DEF BridgeTypes
<1>5. /\ over' = res.quit /\ toLine' = (IF res.quit THEN toLine ELSE toLine \o res.out) /\ escape_pending' = res.esc
      /\ keysRead' = keysRead \o p /\ typed' = After(typed, k)
  BY DEF ReadKeys, Keys
<1>6. UNCHANGED <<tool, line, lineRead, armed, buf, shown, fifo, fifo_fd, written, unlucky>> BY DEF ReadKeys
<1> HIDE DEF p
<1>7. Understood(toLine, keysRead \o p, res) BY <1>2, <1>3, <1>4, PieceUnderstood
<1> HIDE DEF res
<1>8. res.quit \in BOOLEAN /\ res.esc \in BOOLEAN /\ res.out \in Seq(Symbols) BY <1>7 DEF Understood, Acc
<1>9. keysRead \o p \in Seq(Symbols) /\ toLine \o res.out \in Seq(Symbols) BY <1>2, <1>4, <1>8, ConcatProperties
<1>10. BridgeTypes' BY <1>0, <1>2, <1>4, <1>5, <1>6, <1>8, <1>9 DEF BridgeTypes
<1>11. KeysHeld' BY <1>5, <1>7 DEF KeysHeld, Understood
<1>12. EnquiriesAnswered' /\ CommandsHeld' /\ WindowHeld'
  BY <1>1, <1>6 DEF EnquiriesAnswered, CommandsHeld, WindowHeld
<1> QED BY <1>10, <1>11, <1>12 DEF BridgeInv

\* The end of a program changes no stream.
LEMMA CloseKept == ASSUME BridgeInv, Close PROVE BridgeInv'
<1>0. UNCHANGED <<tool, typed, line, keysRead, lineRead, escape_pending,
                  armed, buf, toLine, shown, fifo, fifo_fd, written, unlucky>>
      /\ over' = TRUE /\ tool # "daemon"
  BY DEF Close
<1>1. BridgeTypes' /\ KeysHeld' BY <1>0 DEF BridgeTypes, KeysHeld, BridgeInv
<1>2. EnquiriesAnswered' /\ CommandsHeld' BY <1>0 DEF EnquiriesAnswered, CommandsHeld
<1>3. WindowHeld' BY <1>0 DEF WindowHeld, BridgeInv
<1> QED BY <1>1, <1>2, <1>3 DEF BridgeInv

\* With the commands in place a step of the FIFO keeps the rest.
LEMMA FifoKept ==
  ASSUME BridgeInv, tool = "daemon", written' \in 0 .. Len(Commands), fifo_fd' \in {"open", "eof", "closed"},
         UNCHANGED <<tool, typed, line, keysRead, lineRead, escape_pending, armed, buf, shown, over>>,
         toLine' \in Seq(Symbols), Only(toLine', "ACK") = Only(toLine, "ACK"), CommandsHeld'
  PROVE  BridgeInv'
<1>1. BridgeTypes' BY DEF BridgeTypes, BridgeInv
<1>2. EnquiriesAnswered' BY DEF EnquiriesAnswered, BridgeInv
<1>3. KeysHeld' /\ WindowHeld' BY DEF KeysHeld, WindowHeld
<1> QED BY <1>1, <1>2, <1>3 DEF BridgeInv

\* siob_daemon.py reads nothing: all commands have gone out.
LEMMA FifoEofKept == ASSUME BridgeInv, FifoEof PROVE BridgeInv'
<1>1. tool = "daemon" /\ fifo = <<>> /\ fifo_fd' = "eof"
      /\ UNCHANGED <<tool, typed, line, keysRead, lineRead, escape_pending,
                     armed, buf, toLine, shown, fifo, written, unlucky, over>>
  BY DEF FifoEof
<1>2. PICK m, drop : Passed(m, drop) BY <1>1 DEF BridgeInv, CommandsHeld
<1>3. written \in 0 .. Len(Commands) /\ toLine \in Seq(Symbols) BY DEF BridgeInv, BridgeTypes
<1>4. m = written
  <2>1. m \in Nat /\ m <= written /\ written \in Nat BY <1>2, <1>3, CommandsAre DEF Passed
  <2>2. Len(fifo) = written - m BY <1>2, <1>3, <2>1, CommandsFrom DEF Passed
  <2>3. Len(fifo) = 0 BY <1>1
  <2> QED BY <2>1, <2>2, <2>3
<1>5. \A i \in m + 1 .. written : FALSE
  <2>1. written \in Nat BY <1>3, CommandsAre
  <2> QED BY <1>4, <2>1
<1>6. Passed(m, drop)' BY <1>1, <1>2, <1>5 DEF Passed
<1>7. CommandsHeld' BY <1>6 DEF CommandsHeld
<1> QED BY <1>1, <1>3, <1>7, FifoKept

\* Its close takes the commands in the FIFO with it, which were all written after the
\* empty read.
LEMMA FifoReopenKept == ASSUME BridgeInv, FifoReopen PROVE BridgeInv'
<1>1. tool = "daemon" /\ fifo_fd \in {"eof", "closed"}
      /\ UNCHANGED <<tool, typed, line, keysRead, lineRead, escape_pending,
                     armed, buf, toLine, shown, written, unlucky, over>>
  BY DEF FifoReopen
<1>2. PICK m, drop : Passed(m, drop) BY <1>1 DEF BridgeInv, CommandsHeld
<1>3. written \in 0 .. Len(Commands) /\ toLine \in Seq(Symbols) BY DEF BridgeInv, BridgeTypes
<1>4. CASE fifo_fd = "eof"
  <2>1. fifo_fd' = "closed" /\ fifo' = <<>> BY <1>4 DEF FifoReopen
  <2>2. m \in Nat /\ m <= written /\ written \in Nat BY <1>2, <1>3, CommandsAre DEF Passed
  <2>0. PICK w, more : w = written /\ more = drop \cup (m + 1 .. written) OBVIOUS
  <2>3. more \subseteq unlucky BY <1>2, <1>4, <2>0 DEF Passed
  <2>4. \A i \in more : i \in 1 .. written
    <3>1. \A i \in 1 .. m : i \in 1 .. written BY <2>2
    <3>2. \A i \in m + 1 .. written : i \in 1 .. written BY <2>2
    <3> QED BY <1>2, <2>0, <3>1, <3>2 DEF Passed
  <2>5. \A i \in 1 .. m : i \in more <=> i \in drop
    <3>1. \A i \in 1 .. m : i \notin m + 1 .. written BY <2>2
    <3> QED BY <2>0, <3>1
  <2>6. \A i \in m + 1 .. written : i \in more BY <2>0
  <2>7. Kept(written, more) = Kept(m, drop) BY <1>3, <2>2, <2>5, <2>6, KeptNone
  <2>8. SubSeq(Commands, written + 1, written) = <<>> BY <2>2, SubSeqEmpty
  <2>9. written \in 0 .. written BY <2>2
  <2>10. Without(toLine, "ACK") = Kept(written, more) BY <1>2, <2>7 DEF Passed
  <2>11. Passed(w, more)' BY <1>1, <2>0, <2>1, <2>3, <2>4, <2>8, <2>9, <2>10 DEF Passed
  <2>12. CommandsHeld' BY <2>11 DEF CommandsHeld
  <2> QED BY <1>1, <1>3, <2>1, <2>12, FifoKept
<1>5. CASE fifo_fd = "closed"
  <2>1. fifo_fd' = "open" /\ fifo' = fifo BY <1>5 DEF FifoReopen
  <2>2. Passed(m, drop)' BY <1>1, <1>2, <2>1 DEF Passed
  <2>3. CommandsHeld' BY <2>2 DEF CommandsHeld
  <2> QED BY <1>1, <1>3, <2>1, <2>3, FifoKept
<1> QED BY <1>1, <1>4, <1>5

\* It passes on all the FIFO holds.
LEMMA FifoReadKept == ASSUME BridgeInv, FifoRead PROVE BridgeInv'
<1>1. tool = "daemon" /\ fifo_fd = "open" /\ toLine' = toLine \o fifo /\ fifo' = <<>>
      /\ UNCHANGED <<tool, typed, line, keysRead, lineRead, escape_pending,
                     armed, buf, shown, fifo_fd, written, unlucky, over>>
  BY DEF FifoRead
<1>2. PICK m, drop : Passed(m, drop) BY <1>1 DEF BridgeInv, CommandsHeld
<1>3. written \in 0 .. Len(Commands) /\ toLine \in Seq(Symbols) BY DEF BridgeInv, BridgeTypes
<1>4. m \in Nat /\ m <= written /\ written \in Nat BY <1>2, <1>3, CommandsAre DEF Passed
<1>5. fifo = SubSeq(Commands, m + 1, written) BY <1>2 DEF Passed
<1>6. fifo \in Seq(Symbols) /\ \A i \in 1 .. Len(fifo) : fifo[i] # "ACK" BY <1>3, <1>4, <1>5, CommandsFrom
<1>s. "ACK" \in Symbols BY SymbolsAre
<1>7. Only(fifo, "ACK") = <<>> /\ Without(fifo, "ACK") = fifo BY <1>s, <1>6, NoneTheSame
<1>8. /\ toLine \o fifo \in Seq(Symbols)
      /\ Only(toLine \o fifo, "ACK") = Only(toLine, "ACK") \o Only(fifo, "ACK")
      /\ Without(toLine \o fifo, "ACK") = Without(toLine, "ACK") \o Without(fifo, "ACK")
  BY <1>s, <1>3, <1>6, SelectedConcat
<1>9. Only(toLine', "ACK") = Only(toLine, "ACK")
  <2>1. Only(toLine, "ACK") \in Seq(Symbols) BY <1>s, <1>3, SelectedType
  <2>2. Only(toLine, "ACK") \o <<>> = Only(toLine, "ACK") BY <2>1, ConcatEmptySeq
  <2> QED BY <1>1, <1>7, <1>8, <2>2
<1>10. \A i \in m + 1 .. written : i \notin drop
  <2>1. \A i \in m + 1 .. written : i \notin 1 .. m BY <1>4
  <2> QED BY <1>2, <2>1 DEF Passed
<1>11. Kept(written, drop) = Kept(m, drop) \o fifo BY <1>3, <1>4, <1>5, <1>10, KeptAll
<1>12. Without(toLine', "ACK") = Kept(written, drop) BY <1>1, <1>2, <1>7, <1>8, <1>11 DEF Passed
<1>13. SubSeq(Commands, written + 1, written) = <<>> /\ written \in 0 .. written BY <1>4, SubSeqEmpty
<1>14. \A i \in drop : i \in 1 .. written
  <2>1. \A i \in 1 .. m : i \in 1 .. written BY <1>4
  <2> QED BY <1>2, <2>1 DEF Passed
<1>15. drop \subseteq unlucky BY <1>2 DEF Passed
<1>16. Passed(written, drop)' BY <1>1, <1>12, <1>13, <1>14, <1>15 DEF Passed
<1>17. CommandsHeld' BY <1>16 DEF CommandsHeld
<1>18. written' \in 0 .. Len(Commands) /\ fifo_fd' \in {"open", "eof", "closed"} /\ toLine' \in Seq(Symbols)
  BY <1>1, <1>3, <1>8
<1> QED BY <1>1, <1>9, <1>17, <1>18, FifoKept

\* A shell writes one more command.
LEMMA WriteCommandKept == ASSUME BridgeInv, WriteCommand PROVE BridgeInv'
<1>1. /\ tool = "daemon" /\ fifo_fd # "closed" /\ written < Len(Commands) /\ written' = written + 1
      /\ fifo' = Append(fifo, Commands[written'])
      /\ unlucky' = (IF fifo_fd = "eof" THEN unlucky \cup {written'} ELSE unlucky)
      /\ UNCHANGED <<tool, typed, line, keysRead, lineRead, escape_pending, armed, buf, toLine, shown, fifo_fd, over>>
  BY DEF WriteCommand
<1>2. PICK m, drop : Passed(m, drop) BY <1>1 DEF BridgeInv, CommandsHeld
<1>3. written \in 0 .. Len(Commands) /\ toLine \in Seq(Symbols) /\ fifo_fd \in {"open", "eof", "closed"}
  BY DEF BridgeInv, BridgeTypes
<1>4. m \in Nat /\ m <= written /\ written \in Nat BY <1>2, <1>3, CommandsAre DEF Passed
<1> DEFINE w == written + 1
<1>5. w \in 0 .. Len(Commands) /\ w \in Nat /\ m \in 0 .. w /\ w \in 1 .. Len(Commands) BY <1>1, <1>3, <1>4, CommandsAre
<1>6. SubSeq(Commands, m + 1, w) = Append(SubSeq(Commands, m + 1, written), Commands[w])
  <2> DEFINE c == SubSeq(Commands, m + 1, written)
             d == SubSeq(Commands, m + 1, w)
             e == Append(c, Commands[w])
  <2>1. c \in Seq(Symbols) /\ Len(c) = written - m /\ \A i \in 1 .. written - m : c[i] = Commands[m + i]
    BY <1>3, <1>4, CommandsFrom
  <2>2. d \in Seq(Symbols) /\ Len(d) = w - m /\ \A i \in 1 .. w - m : d[i] = Commands[m + i]
    <3>1. m <= w BY <1>4
    <3> HIDE DEF w
    <3> QED BY <1>4, <1>5, <3>1, CommandsFrom
  <2>3. Commands[w] \in Symbols BY <1>5, CommandsAre
  <2> HIDE DEF c, d
  <2>4. e \in Seq(Symbols) /\ Len(e) = Len(c) + 1 /\ e[Len(c) + 1] = Commands[w] /\ \A i \in 1 .. Len(c) : e[i] = c[i]
    <3> HIDE DEF w
    <3> QED BY <2>1, <2>3, Grown
  <2>5. Len(c) + 1 = w - m BY <1>4, <2>1
  <2> HIDE DEF e
  <2>6. ASSUME NEW i \in 1 .. w - m PROVE d[i] = e[i]
    <3>1. CASE i = w - m
      <4>1. m + i = w /\ i = Len(c) + 1 BY <1>4, <2>5, <3>1
      <4> HIDE DEF w
      <4> QED BY <2>2, <2>4, <4>1
    <3>2. CASE i # w - m
      <4>1. i \in 1 .. written - m BY <1>4, <3>2
      <4>2. i \in 1 .. Len(c) BY <2>1, <4>1
      <4> HIDE DEF w
      <4> QED BY <2>1, <2>2, <2>4, <4>1, <4>2
    <3> QED BY <3>1, <3>2
  <2> HIDE DEF w
  <2>7. Len(e) = w - m BY <2>4, <2>5
  <2>8. d = e BY <2>2, <2>4, <2>6, <2>7, SeqEqual
  <2> QED BY <2>8 DEF c, d, e
<1>7. written' = w BY <1>1
<1>8. fifo' = SubSeq(Commands, m + 1, written') BY <1>1, <1>2, <1>6, <1>7 DEF Passed
<1>9. \A i \in m + 1 .. w : i = w \/ i \in m + 1 .. written BY <1>4
<1> HIDE DEF w
<1>10. fifo_fd = "eof" => \A i \in m + 1 .. w : i \in unlucky' BY <1>1, <1>2, <1>7, <1>9 DEF Passed
<1>11. drop \subseteq unlucky' BY <1>1, <1>2 DEF Passed
<1>12. Passed(m, drop)' BY <1>1, <1>2, <1>5, <1>7, <1>8, <1>10, <1>11 DEF Passed
<1>13. CommandsHeld' BY <1>12 DEF CommandsHeld
<1>14. written' \in 0 .. Len(Commands) /\ fifo_fd' \in {"open", "eof", "closed"} /\ toLine' \in Seq(Symbols)
       /\ Only(toLine', "ACK") = Only(toLine, "ACK")
  BY <1>1, <1>3, <1>5, <1>7
<1> QED BY <1>1, <1>13, <1>14, FifoKept

\* A piece of the machine's bytes is read: siob_daemon.py answers, sio_b_driver.py compares.
LEMMA LineKept ==
  ASSUME BridgeInv, NEW k \in Upto(line), ReadLine(k) PROVE BridgeInv'
<1> DEFINE p == SubSeq(line, 1, k)
           w == Cut(buf \o p)
           fire == tool = "driver" /\ armed /\ Matches(w, p)
<1>0. BridgeTypes BY DEF BridgeInv
<1>1. p \in Seq(Symbols) /\ Len(p) <= Piece /\ After(line, k) \in Seq(Symbols)
  <2>1. line \in Seq(Symbols) BY <1>0 DEF BridgeTypes
  <2> QED BY <2>1, PieceOf
<1>2. /\ shown' = shown \o (IF tool = "daemon" THEN Without(p, "ENQ") ELSE p)
      /\ buf' = (IF tool = "driver" THEN w ELSE buf)
      /\ armed' = (armed /\ ~fire)
      /\ lineRead' = lineRead \o p
      /\ line' = After(line, k)
  BY DEF ReadLine, Cut
<1>3. /\ tool = "daemon" => toLine' = toLine \o Acks(p)
      /\ tool # "daemon" /\ fire => toLine' = Append(toLine, "INJECT")
      /\ tool # "daemon" /\ ~fire => toLine' = toLine
  BY DEF ReadLine, Cut
<1>4. UNCHANGED <<tool, typed, keysRead, escape_pending, fifo, fifo_fd, written, unlucky, over>> BY DEF ReadLine
<1> HIDE DEF p, w, fire
<1>s. "ACK" \in Symbols /\ "ENQ" \in Symbols /\ "INJECT" \in Symbols BY SymbolsAre
<1>5. shown \in Seq(Symbols) /\ lineRead \in Seq(Symbols) /\ toLine \in Seq(Symbols) BY <1>0 DEF BridgeTypes
<1>6. Without(p, "ENQ") \in Seq(Symbols) /\ Only(p, "ENQ") \in Seq(Symbols) BY <1>s, <1>1, SelectedType
<1>7. lineRead' \in Seq(Symbols) BY <1>1, <1>2, <1>5, ConcatProperties
<1>8. shown' \in Seq(Symbols) BY <1>1, <1>2, <1>5, <1>6, ConcatProperties
<1>9. toLine' \in Seq(Symbols)
  <2>1. Acks(p) \in Seq(Symbols) BY <1>1, AcksAre
  <2>2. toLine \o Acks(p) \in Seq(Symbols) BY <1>5, <2>1, ConcatProperties
  <2>3. Append(toLine, "INJECT") \in Seq(Symbols) BY <1>s, <1>5, AppendProperties
  <2> QED BY <1>3, <1>5, <2>2, <2>3
<1>10. armed' \in BOOLEAN BY <1>0, <1>2 DEF BridgeTypes
<1>11. BridgeTypes' BY <1>0, <1>1, <1>2, <1>4, <1>7, <1>8, <1>9, <1>10 DEF BridgeTypes
<1>12. KeysHeld'
  <2>1. tool = "interactive" => toLine' = toLine BY <1>3 DEF fire
  <2> QED BY <1>4, <2>1 DEF KeysHeld, BridgeInv
<1>13. EnquiriesAnswered'
  <2> SUFFICES ASSUME tool = "daemon"
               PROVE  Len(Only(toLine', "ACK")) = Len(Only(lineRead', "ENQ")) /\ shown' = Without(lineRead', "ENQ")
    BY <1>4 DEF EnquiriesAnswered
  <2>0. Len(Only(toLine, "ACK")) = Len(Only(lineRead, "ENQ")) /\ shown = Without(lineRead, "ENQ")
    BY DEF BridgeInv, EnquiriesAnswered
  <2>1. Acks(p) \in Seq(Symbols) /\ Only(Acks(p), "ACK") = Acks(p) /\ Len(Acks(p)) = Len(Only(p, "ENQ")) BY <1>1, AcksAre
  <2>2. Only(toLine \o Acks(p), "ACK") = Only(toLine, "ACK") \o Acks(p)
    <3> DEFINE a == Acks(p)
    <3>1. a \in Seq(Symbols) /\ Only(a, "ACK") = a BY <2>1
    <3> HIDE DEF a
    <3>2. Only(toLine \o a, "ACK") = Only(toLine, "ACK") \o Only(a, "ACK") BY <1>s, <1>5, <3>1, SelectedConcat
    <3>3. Only(toLine \o a, "ACK") = Only(toLine, "ACK") \o a BY <3>1, <3>2
    <3> QED BY <3>3 DEF a
  <2>3. Only(lineRead \o p, "ENQ") = Only(lineRead, "ENQ") \o Only(p, "ENQ")
        /\ Without(lineRead \o p, "ENQ") = Without(lineRead, "ENQ") \o Without(p, "ENQ")
    <3>1. "ENQ" \in Symbols /\ p \in Seq(Symbols) /\ lineRead \in Seq(Symbols) BY <1>s, <1>1, <1>5
    <3> QED BY ONLY <3>1, SelectedConcat
  <2>4. Only(toLine, "ACK") \in Seq(Symbols) /\ Only(lineRead, "ENQ") \in Seq(Symbols) BY <1>s, <1>5, SelectedType
  <2>5. Len(Only(toLine, "ACK") \o Acks(p)) = Len(Only(toLine, "ACK")) + Len(Acks(p)) BY <2>1, <2>4, ConcatProperties
  <2>6. Len(Only(lineRead, "ENQ") \o Only(p, "ENQ")) = Len(Only(lineRead, "ENQ")) + Len(Only(p, "ENQ"))
    BY <1>6, <2>4, ConcatProperties
  <2> QED BY <1>2, <1>3, <2>0, <2>1, <2>2, <2>3, <2>5, <2>6
<1>14. CommandsHeld'
  <2> SUFFICES ASSUME tool = "daemon" PROVE \E m, drop : Passed(m, drop)' BY <1>4 DEF CommandsHeld
  <2>1. PICK m, drop : Passed(m, drop) BY DEF BridgeInv, CommandsHeld
  <2>2. Acks(p) \in Seq(Symbols) /\ Without(Acks(p), "ACK") = <<>> BY <1>1, AcksAre
  <2>3. Without(toLine \o Acks(p), "ACK") = Without(toLine, "ACK") \o <<>>
    <3> DEFINE a == Acks(p)
    <3>1. a \in Seq(Symbols) /\ Without(a, "ACK") = <<>> BY <2>2
    <3> HIDE DEF a
    <3>2. Without(toLine \o a, "ACK") = Without(toLine, "ACK") \o Without(a, "ACK") BY <1>s, <1>5, <3>1, SelectedConcat
    <3>3. Without(toLine \o a, "ACK") = Without(toLine, "ACK") \o <<>> BY <3>1, <3>2
    <3> QED BY <3>3 DEF a
  <2>4. Without(toLine, "ACK") \in Seq(Symbols) BY <1>s, <1>5, SelectedType
  <2>5. Without(toLine, "ACK") \o <<>> = Without(toLine, "ACK") BY <2>4, ConcatEmptySeq
  <2>6. Without(toLine', "ACK") = Without(toLine, "ACK") BY <1>3, <2>3, <2>5
  <2>7. Passed(m, drop)' BY <1>4, <2>1, <2>6 DEF Passed
  <2> QED BY <2>7
<1>15. WindowHeld'
  <2> SUFFICES ASSUME tool = "driver"
               PROVE  /\ WindowOf(w, lineRead \o p) /\ (armed' <=> ~Occurs(lineRead \o p))
                      /\ toLine' = IF Occurs(lineRead \o p) THEN <<"INJECT">> ELSE <<>>
    BY <1>2, <1>4 DEF WindowHeld
  <2>0. WindowOf(buf, lineRead) /\ (armed <=> ~Occurs(lineRead)) /\ toLine = IF Occurs(lineRead) THEN <<"INJECT">> ELSE <<>>
    BY DEF BridgeInv, WindowHeld
  <2>1. WindowOf(w, lineRead \o p) BY <1>1, <1>5, <2>0, CutIsWindow DEF w
  <2>2. CASE Occurs(lineRead)
    <3>1. Occurs(lineRead \o p) BY <1>1, <1>5, <2>2, OccursStays
    <3>2. ~fire /\ ~armed BY <2>0, <2>2 DEF fire
    <3>3. toLine' = <<"INJECT">> BY <1>3, <2>0, <2>2, <3>2
    <3> QED BY <1>2, <2>1, <3>1, <3>2, <3>3
  <2>3. CASE ~Occurs(lineRead)
    <3>1. Occurs(w) <=> Occurs(lineRead \o p) BY <1>1, <1>5, <2>1, <2>3, OccursInWindow
    <3>2. w \in Seq(Symbols) BY <2>1 DEF WindowOf
    <3>3. fire <=> Occurs(lineRead \o p) BY <2>0, <2>3, <3>1, <3>2, OccursIs DEF fire
    <3>4. armed' <=> ~Occurs(lineRead \o p) BY <1>2, <2>0, <2>3, <3>3
    <3>5. Append(<<>>, "INJECT") = <<"INJECT">> OBVIOUS
    <3>6. toLine' = IF Occurs(lineRead \o p) THEN <<"INJECT">> ELSE <<>> BY <1>3, <2>0, <2>3, <3>3, <3>5
    <3> QED BY <2>1, <3>4, <3>6
  <2> QED BY <2>2, <2>3
<1> QED BY <1>11, <1>12, <1>13, <1>14, <1>15 DEF BridgeInv

\* Every step of the bridges keeps the invariant.
LEMMA BridgeKeeps == ASSUME BridgeInv, [BridgesNext]_bridgeVars PROVE BridgeInv'
<1>1. CASE UNCHANGED bridgeVars
  BY <1>1 DEF BridgeInv, BridgeTypes, KeysHeld, EnquiriesAnswered, CommandsHeld, Passed, WindowHeld, bridgeVars
<1>2. CASE BridgesNext
  <2>1. CASE \E k \in Upto(typed) : ReadKeys(k) BY <2>1, KeysKept
  <2>2. CASE \E k \in Upto(line) : ReadLine(k) BY <2>2, LineKept
  <2> QED BY <1>2, <2>1, <2>2, FifoEofKept, FifoReopenKept, FifoReadKept, WriteCommandKept, CloseKept DEF BridgesNext
<1> QED BY <1>1, <1>2

\* The streams are kept.
LEMMA BridgeIsFaithful == ASSUME BridgeInv PROVE StreamsKept
<1>1. KeysKeepMeaning
  <2>1. Means(keysRead) = FlattenSeq([i \in 1 .. Len(keysRead) |-> Meant(keysRead, i)]) BY DEF Means, Meanings
  <2> QED BY <2>1 DEF BridgeInv, KeysHeld, KeysKeepMeaning
<1>2. CommandsPassedOn
  <2> SUFFICES ASSUME tool = "daemon"
               PROVE  \E drop \in SUBSET unlucky : Without(toLine, "ACK") \o fifo = Kept(written, drop)
    BY DEF CommandsPassedOn
  <2>1. PICK m, drop : Passed(m, drop) BY DEF BridgeInv, CommandsHeld
  <2>2. written \in 0 .. Len(Commands) BY DEF BridgeInv, BridgeTypes
  <2>3. m \in Nat /\ m <= written /\ written \in Nat BY <2>1, <2>2, CommandsAre DEF Passed
  <2>4. \A i \in m + 1 .. written : i \notin drop
    <3>1. \A i \in m + 1 .. written : i \notin 1 .. m BY <2>3
    <3> QED BY <2>1, <3>1 DEF Passed
  <2>5. Kept(written, drop) = Kept(m, drop) \o SubSeq(Commands, m + 1, written) BY <2>2, <2>3, <2>4, KeptAll
  <2> QED BY <2>1, <2>5 DEF Passed
<1>3. InjectedOnce
  <2>1. lineRead \in Seq(Symbols) BY DEF BridgeInv, BridgeTypes
  <2>2. (\E i \in 0 .. Len(lineRead) : IsPrefix(Trigger, After(lineRead, i))) <=> Occurs(lineRead) BY <2>1, OccursIs
  <2> QED BY <2>2 DEF BridgeInv, WindowHeld, InjectedOnce
<1> QED BY <1>1, <1>2, <1>3 DEF BridgeInv, StreamsKept

-----------------------------------------------------------------------------
(* The programs together *)

\* Each program starts or is idle.
LEMMA ProgramsStart == ASSUME Init PROVE MonitorInv /\ TeeInv /\ SmokeInv /\ FeedInv /\ BridgeInv /\ ScriptsInv
<1>1. /\ MonitorInit \/ MonitorIdle
      /\ TeeInit \/ TeeIdle
      /\ SmokeInit \/ SmokeIdle
      /\ FeedsInit \/ FeedsIdle
      /\ BridgesInit \/ BridgesIdle
      /\ ScriptsInit \/ ScriptsIdle
  BY DEF Init, SerialInit, SerialIdle
<1>2. MonitorInv BY <1>1, MonitorStarts DEF MonitorInit, MonitorIdle
<1>3. TeeInv BY <1>1, TeeStarts DEF TeeInit, TeeIdle
<1>4. SmokeInv BY <1>1, SmokeStarts DEF SmokeInit, SmokeIdle
<1>5. FeedInv /\ BridgeInv BY <1>1, FeedStarts, BridgeStarts
<1>6. ScriptsInv BY <1>1, ScriptsBegin
<1> QED BY <1>2, <1>3, <1>4, <1>5, <1>6

\* A step is one of one program, or leaves all of these alone.
LEMMA ProgramsStep ==
  ASSUME [Next]_<<toolsVars, serialVars>>
  PROVE  /\ [MonitorNext]_monitorVars /\ [TeeNext]_teeVars /\ [SmokeNext]_smokeVars
         /\ [FeedsNext]_feedVars /\ [BridgesNext]_bridgeVars /\ [ScriptsNext]_scriptVars
<1>1. SerialNext \/ UNCHANGED serialVars BY DEF Next
<1>2. CASE UNCHANGED serialVars BY <1>2 DEF serialVars
<1>3. CASE SerialNext BY <1>3 DEF SerialNext
<1> QED BY <1>1, <1>2, <1>3

\* For every size of the buffers, number of commands and bytes: smoke_inject.py types no
\* command without a prompt of its own, sio_tee.py delivers what was sent, in order, and
\* logs what it delivers, and ThroughputMonitor counts every byte once.
THEOREM TestersAreFaithful == Spec => []TestersFaithful
<1> DEFINE I == MonitorInv /\ TeeInv /\ SmokeInv
<1>1. Init => I BY ProgramsStart
<1>2. I /\ [Next]_<<toolsVars, serialVars>> => I' BY ProgramsStep, MonitorKeeps, TeeKeeps, SmokeKeeps
<1>3. I => TestersFaithful
  <2>1. MonitorInv => NothingUncounted BY DEF MonitorInv
  <2>2. TeeInv => TeeTransparent BY TeeIsTransparent
  <2>3. SmokeInv => OnePromptEach BY DEF SmokeInv, PromptsCounted, OnePromptEach
  <2> QED BY <2>1, <2>2, <2>3 DEF TestersFaithful
<1> HIDE DEF I
<1> QED BY <1>1, <1>2, <1>3, PTL DEF Spec

\* For files of every length: what LOAD makes a program of is the whole file of that name,
\* if no file was missing, and a single file is whole when PIP has ended, without RTS as
\* long as PIP's lag fits the ring (LagFits) -- if no byte was sent before the emulator had
\* set the line.
THEOREM FilesAreFed == Spec => []FilesFed
<1>1. Init => FeedInv BY ProgramsStart
<1>2. FeedInv /\ [Next]_<<toolsVars, serialVars>> => FeedInv' BY ProgramsStep, FeedKeeps
<1>3. FeedInv => FilesFed BY FeedIsFed
<1> QED BY <1>1, <1>2, <1>3, PTL DEF Spec

\* For every stream and every way to cut it into pieces: the keys keep their meaning,
\* enquiries are answered once, commands are passed on once and in order but for those
\* written between the empty read and the close, and the pattern is found as soon as it
\* has come.
THEOREM StreamsAreKept == Spec => []StreamsKept
<1>1. Init => BridgeInv BY ProgramsStart
<1>2. BridgeInv /\ [Next]_<<toolsVars, serialVars>> => BridgeInv' BY ProgramsStep, BridgeKeeps
<1>3. BridgeInv => StreamsKept BY BridgeIsFaithful
<1> QED BY <1>1, <1>2, <1>3, PTL DEF Spec

\* For every program, every old contents of memory and every number of faults:
\* siob_deploy_server.py has no system with a wrong sum written to the system tracks
\* without a warning, sioa_fix_via_ddt.py starts the program it typed if no line is lost,
\* however far ahead of DDT it runs, and the scripts that wait for answers are at most a
\* line ahead of a machine that answers.
THEOREM ScriptsReport == Spec => []DeployedAsReported
<1>1. Init => ScriptsInv BY ProgramsStart
<1>2. ScriptsInv /\ [Next]_<<toolsVars, serialVars>> => ScriptsInv' BY ProgramsStep, ScriptsKeep
<1>3. ScriptsInv => DeployedAsReported BY ScriptsAreReported
<1> QED BY <1>1, <1>2, <1>3, PTL DEF Spec
=============================================================================
