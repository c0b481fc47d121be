------------------------ MODULE ConsoleScriptsProofs ------------------------
(***************************************************************************)
(* The scripts that drive CP/M over its console, for every program, every  *)
(* old contents of memory and every number of faults: no broken system is  *)
(* written without a warning, a deployment in which nothing goes wrong     *)
(* writes the system that was sent, the repair script starts what it has   *)
(* typed although it does not wait for DDT, and the others are never more  *)
(* than a line ahead of a machine that answers.                            *)
(*                                                                         *)
(* ScriptsAre is the shape of the state, and Warned, DeployInTurn, FixAhead *)
(* and WaitsInStep are the inductive invariants behind the properties.     *)
(***************************************************************************)
EXTENDS ConsoleScripts, DataTheorems

-----------------------------------------------------------------------------
(* The steps of the scripts *)

\* The words that are typed and the texts that are awaited.
TypedWords ==
    {"PIP", "MLOAD", "CPM56", "SYSGEN", "A", "CR", "DDT", "S", ".", "D", "G0", "G100", "ERA", "SAVE", "RUN", "DIR", "ASM", "TYPE"}
AwaitedTexts == {"A>", "-", "OK", "BLANK", "DESTINATION_DRIVE", "DESTINATION_ON_A", "FUNCTION_COMPLETE"}

\* The steps scripts are made of.
ScriptSteps ==
    {Type(w) : w \in TypedWords} \cup {TypeByte(i) : i \in 1 .. N}
    \cup {Await(t, m) : t \in AwaitedTexts, m \in -2 .. 5} \cup {AwaitAddr(a) : a \in 0 .. N}
    \cup {[do |-> d] : d \in {"trigger", "data", "verify"}}

\* The size of the program.
LEMMA ProgramSize == N \in Nat /\ N >= 1 /\ LastRow \in 0 .. N - 1 /\ Program \in [1 .. N -> 0 .. 255]
<1>1. Program \in Seq(0 .. 255) /\ Program # <<>> BY ScriptSizes
<1>2. N \in Nat /\ N >= 1 BY <1>1, EmptySeq DEF N
<1>3. Program \in [1 .. N -> 0 .. 255] BY <1>1, LenProperties DEF N
<1>4. RowLen \in Nat /\ RowLen > 0 BY ScriptSizes
<1>5. LastRow \in 0 .. N - 1
  <2> DEFINE q == (N - 1) \div RowLen
  <2>1. q \in Nat /\ q * RowLen <= N - 1 BY <1>2, <1>4
  <2>2. q * RowLen \in Nat BY <2>1, <1>4
  <2> QED BY <1>2, <2>1, <2>2 DEF LastRow
<1> QED BY <1>2, <1>3, <1>5

\* A part of a script joined to another.
LEMMA StepsJoin ==
  ASSUME NEW S, NEW f \in Seq(S), NEW g \in Seq(S)
  PROVE  /\ f \o g \in Seq(S) /\ Len(f \o g) = Len(f) + Len(g)
         /\ \A i \in 1 .. Len(f) : (f \o g)[i] = f[i]
         /\ \A i \in 1 .. Len(g) : (f \o g)[Len(f) + i] = g[i]
<1>1. /\ f \o g \in Seq(S) /\ Len(f \o g) = Len(f) + Len(g)
      /\ \A i \in 1 .. Len(f) + Len(g) : (f \o g)[i] = IF i <= Len(f) THEN f[i] ELSE g[i - Len(f)]
  BY ConcatProperties
<1>2. Len(f) \in Nat /\ Len(g) \in Nat BY LenProperties
<1> DEFINE h == f \o g
           m == Len(f)
           n == Len(g)
<1>3. m \in Nat /\ n \in Nat /\ \A i \in 1 .. m + n : h[i] = IF i <= m THEN f[i] ELSE g[i - m] BY <1>1, <1>2
<1> HIDE DEF h, m, n
<1>4. \A i \in 1 .. m : h[i] = f[i] BY <1>3
<1>5. \A i \in 1 .. n : h[m + i] = g[i] BY <1>3
<1> QED BY <1>1, <1>4, <1>5 DEF h, m, n

\* The bytes typed and the addresses awaited.
LEMMA TypedBytes ==
  LET f == FlattenSeq([i \in 1 .. N |-> <<TypeByte(i), AwaitAddr(i)>>])
  IN  /\ f \in Seq(ScriptSteps) /\ Len(f) = 2 * N
      /\ \A i \in 1 .. N : f[2 * i - 1] = TypeByte(i) /\ f[2 * i] = AwaitAddr(i)
<1> DEFINE ss == [i \in 1 .. N |-> <<TypeByte(i), AwaitAddr(i)>>]
<1>1. N \in Nat BY ProgramSize
<1>2. \A i \in 1 .. N : TypeByte(i) \in ScriptSteps /\ AwaitAddr(i) \in ScriptSteps BY <1>1 DEF ScriptSteps
<1>3. \A i \in 1 .. N : /\ ss[i] \in Seq(ScriptSteps) /\ Len(ss[i]) = 2
                        /\ ss[i][1] = TypeByte(i) /\ ss[i][2] = AwaitAddr(i)
  BY <1>2
<1>4. ss \in Seq(Seq(ScriptSteps)) /\ Len(ss) = N BY <1>1, <1>3
<1> HIDE DEF ss
<1>5. \A i \in 1 .. Len(ss) : Len(ss[i]) = 2 BY <1>3, <1>4
<1>6. /\ FlattenSeq(ss) \in Seq(ScriptSteps) /\ Len(FlattenSeq(ss)) = 2 * Len(ss)
      /\ \A i \in 1 .. Len(ss) : FlattenSeq(ss)[2 * i - 1] = ss[i][1] /\ FlattenSeq(ss)[2 * i] = ss[i][2]
  BY <1>4, <1>5, FlattenPairs
<1>7. /\ FlattenSeq(ss) \in Seq(ScriptSteps) /\ Len(FlattenSeq(ss)) = 2 * N
      /\ \A i \in 1 .. N : FlattenSeq(ss)[2 * i - 1] = TypeByte(i) /\ FlattenSeq(ss)[2 * i] = AwaitAddr(i)
  BY <1>3, <1>4, <1>6
<1> QED BY <1>7 DEF ss

\* The same for the repair script, which waits first.
LEMMA AwaitedBytes ==
  LET f == FlattenSeq([i \in 1 .. N |-> <<Await("BLANK", 0), TypeByte(i)>>])
  IN  /\ f \in Seq(ScriptSteps) /\ Len(f) = 2 * N
      /\ \A i \in 1 .. N : f[2 * i - 1] = Await("BLANK", 0) /\ f[2 * i] = TypeByte(i)
<1> DEFINE ss == [i \in 1 .. N |-> <<Await("BLANK", 0), TypeByte(i)>>]
<1>1. N \in Nat BY ProgramSize
<1>b. Await("BLANK", 0) \in ScriptSteps
  <2>1. "BLANK" \in AwaitedTexts /\ 0 \in -2 .. 5 BY DEF AwaitedTexts
  <2> QED BY <2>1 DEF ScriptSteps
<1>a. \A i \in 1 .. N : TypeByte(i) \in ScriptSteps BY <1>1 DEF ScriptSteps
<1>2. \A i \in 1 .. N : TypeByte(i) \in ScriptSteps /\ Await("BLANK", 0) \in ScriptSteps BY <1>a, <1>b
<1>3. \A i \in 1 .. N : /\ ss[i] \in Seq(ScriptSteps) /\ Len(ss[i]) = 2
                        /\ ss[i][1] = Await("BLANK", 0) /\ ss[i][2] = TypeByte(i)
  BY <1>2
<1>4. ss \in Seq(Seq(ScriptSteps)) /\ Len(ss) = N BY <1>1, <1>3
<1> HIDE DEF ss
<1>5. \A i \in 1 .. Len(ss) : Len(ss[i]) = 2 BY <1>3, <1>4
<1>6. /\ FlattenSeq(ss) \in Seq(ScriptSteps) /\ Len(FlattenSeq(ss)) = 2 * Len(ss)
      /\ \A i \in 1 .. Len(ss) : FlattenSeq(ss)[2 * i - 1] = ss[i][1] /\ FlattenSeq(ss)[2 * i] = ss[i][2]
  BY <1>4, <1>5, FlattenPairs
<1>7. /\ FlattenSeq(ss) \in Seq(ScriptSteps) /\ Len(FlattenSeq(ss)) = 2 * N
      /\ \A i \in 1 .. N : FlattenSeq(ss)[2 * i - 1] = Await("BLANK", 0) /\ FlattenSeq(ss)[2 * i] = TypeByte(i)
  BY <1>3, <1>4, <1>6
<1> QED BY <1>7 DEF ss

\* Steps with a word are steps.
LEMMA WordSteps ==
  /\ \A w \in TypedWords : Type(w) \in ScriptSteps
  /\ \A w \in AwaitedTexts : \A m \in -2 .. 5 : Await(w, m) \in ScriptSteps
  /\ \A a \in 0 .. N : AwaitAddr(a) \in ScriptSteps
  /\ \A d \in {"trigger", "data", "verify"} : [do |-> d] \in ScriptSteps
<1>1. \A w \in TypedWords : Type(w) \in ScriptSteps BY DEF ScriptSteps
<1>2. \A w \in AwaitedTexts : \A m \in -2 .. 5 : Await(w, m) \in ScriptSteps BY DEF ScriptSteps
<1>3. \A a \in 0 .. N : AwaitAddr(a) \in ScriptSteps BY DEF ScriptSteps
<1>4. \A d \in {"trigger", "data", "verify"} : [do |-> d] \in ScriptSteps BY DEF ScriptSteps
<1> QED BY <1>1, <1>2, <1>3, <1>4

\* enter_bytes_via_ddt step by step.
LEMMA EnterForm ==
  /\ enter_bytes_via_ddt \in Seq(ScriptSteps) /\ Len(enter_bytes_via_ddt) = 2 * N + 4
  /\ enter_bytes_via_ddt[1] = Type("S") /\ enter_bytes_via_ddt[2] = AwaitAddr(0)
  /\ \A i \in 1 .. N : enter_bytes_via_ddt[2 * i + 1] = TypeByte(i) /\ enter_bytes_via_ddt[2 * i + 2] = AwaitAddr(i)
  /\ enter_bytes_via_ddt[2 * N + 3] = Type(".") /\ enter_bytes_via_ddt[2 * N + 4] = Await("-", 0)
<1> DEFINE a == <<Type("S"), AwaitAddr(0)>>
           f == FlattenSeq([i \in 1 .. N |-> <<TypeByte(i), AwaitAddr(i)>>])
           z == <<Type("."), Await("-", 0)>>
           b == a \o f
           e == b \o z
<1>0. enter_bytes_via_ddt = e BY DEF enter_bytes_via_ddt
<1>n. N \in Nat BY ProgramSize
<1>1. a \in Seq(ScriptSteps) /\ Len(a) = 2 /\ a[1] = Type("S") /\ a[2] = AwaitAddr(0)
  <2>1. Type("S") \in ScriptSteps /\ AwaitAddr(0) \in ScriptSteps BY <1>n, WordSteps DEF TypedWords
  <2> QED BY <2>1
<1>2. z \in Seq(ScriptSteps) /\ Len(z) = 2 /\ z[1] = Type(".") /\ z[2] = Await("-", 0)
  <2>1. Type(".") \in ScriptSteps /\ Await("-", 0) \in ScriptSteps BY WordSteps DEF TypedWords, AwaitedTexts
  <2> QED BY <2>1
<1>3. /\ f \in Seq(ScriptSteps) /\ Len(f) = 2 * N
      /\ \A i \in 1 .. N : f[2 * i - 1] = TypeByte(i) /\ f[2 * i] = AwaitAddr(i)
  BY TypedBytes
<1> HIDE DEF a, f, z
<1>4. /\ b \in Seq(ScriptSteps) /\ Len(b) = Len(a) + Len(f)
      /\ \A i \in 1 .. Len(a) : b[i] = a[i]
      /\ \A i \in 1 .. Len(f) : b[Len(a) + i] = f[i]
  <2>1. a \in Seq(ScriptSteps) /\ f \in Seq(ScriptSteps) BY <1>1, <1>3
  <2> QED BY <2>1, StepsJoin
<1> HIDE DEF b
<1>5. /\ e \in Seq(ScriptSteps) /\ Len(e) = Len(b) + Len(z)
      /\ \A i \in 1 .. Len(b) : e[i] = b[i]
      /\ \A i \in 1 .. Len(z) : e[Len(b) + i] = z[i]
  <2>1. b \in Seq(ScriptSteps) /\ z \in Seq(ScriptSteps) BY <1>2, <1>4
  <2> QED BY <2>1, StepsJoin
<1> HIDE DEF e
<1>6. Len(b) = 2 * N + 2 /\ Len(e) = 2 * N + 4 BY <1>1, <1>2, <1>3, <1>4, <1>5
<1>7. e[1] = Type("S") /\ e[2] = AwaitAddr(0) BY <1>n, <1>1, <1>4, <1>5, <1>6
<1>8. ASSUME NEW i \in 1 .. N PROVE e[2 * i + 1] = TypeByte(i) /\ e[2 * i + 2] = AwaitAddr(i)
  <2>1. 2 * i - 1 \in 1 .. Len(f) /\ 2 * i \in 1 .. Len(f) BY <1>n, <1>3
  <2>2. b[Len(a) + (2 * i - 1)] = TypeByte(i) /\ b[Len(a) + 2 * i] = AwaitAddr(i) BY <2>1, <1>3, <1>4
  <2>3. Len(a) + (2 * i - 1) = 2 * i + 1 /\ Len(a) + 2 * i = 2 * i + 2 BY <1>1, <1>n
  <2>4. 2 * i + 1 \in 1 .. Len(b) /\ 2 * i + 2 \in 1 .. Len(b) BY <1>6, <1>n
  <2> QED BY <2>2, <2>3, <2>4, <1>5
<1>9. e[2 * N + 3] = Type(".") /\ e[2 * N + 4] = Await("-", 0)
  <2>1. e[Len(b) + 1] = z[1] /\ e[Len(b) + 2] = z[2] BY <1>2, <1>5
  <2>2. Len(b) + 1 = 2 * N + 3 /\ Len(b) + 2 = 2 * N + 4 BY <1>6, <1>n
  <2> QED BY <2>1, <2>2, <1>2
<1> QED BY <1>0, <1>5, <1>6, <1>7, <1>8, <1>9

\* main of siob_deploy_server.py step by step.
LEMMA DeployForm ==
  /\ siob_deploy \in Seq(ScriptSteps) /\ Len(siob_deploy) = 14
  /\ siob_deploy[1] = [do |-> "trigger"] /\ siob_deploy[2] = Type("PIP") /\ siob_deploy[3] = [do |-> "data"]
  /\ siob_deploy[4] = Await("A>", 3) /\ siob_deploy[5] = Type("MLOAD") /\ siob_deploy[6] = Await("A>", 4)
  /\ siob_deploy[7] = Type("CPM56") /\ siob_deploy[8] = Await("OK", -2) /\ siob_deploy[9] = Type("SYSGEN")
  /\ siob_deploy[10] = Await("DESTINATION_DRIVE", 5) /\ siob_deploy[11] = Type("A")
  /\ siob_deploy[12] = Await("DESTINATION_ON_A", -2) /\ siob_deploy[13] = Type("CR")
  /\ siob_deploy[14] = Await("FUNCTION_COMPLETE", -2)
<1>1. /\ [do |-> "trigger"] \in ScriptSteps /\ Type("PIP") \in ScriptSteps /\ [do |-> "data"] \in ScriptSteps
      /\ Await("A>", 3) \in ScriptSteps /\ Type("MLOAD") \in ScriptSteps /\ Await("A>", 4) \in ScriptSteps
      /\ Type("CPM56") \in ScriptSteps /\ Await("OK", -2) \in ScriptSteps /\ Type("SYSGEN") \in ScriptSteps
      /\ Await("DESTINATION_DRIVE", 5) \in ScriptSteps /\ Type("A") \in ScriptSteps
      /\ Await("DESTINATION_ON_A", -2) \in ScriptSteps /\ Type("CR") \in ScriptSteps
      /\ Await("FUNCTION_COMPLETE", -2) \in ScriptSteps
  BY WordSteps DEF TypedWords, AwaitedTexts
<1>2. siob_deploy \in Seq(ScriptSteps) /\ Len(siob_deploy) = 14 BY <1>1 DEF siob_deploy
<1>3. /\ siob_deploy[1] = [do |-> "trigger"] /\ siob_deploy[2] = Type("PIP") /\ siob_deploy[3] = [do |-> "data"]
      /\ siob_deploy[4] = Await("A>", 3) /\ siob_deploy[5] = Type("MLOAD") /\ siob_deploy[6] = Await("A>", 4)
      /\ siob_deploy[7] = Type("CPM56") /\ siob_deploy[8] = Await("OK", -2) /\ siob_deploy[9] = Type("SYSGEN")
      /\ siob_deploy[10] = Await("DESTINATION_DRIVE", 5) /\ siob_deploy[11] = Type("A")
      /\ siob_deploy[12] = Await("DESTINATION_ON_A", -2) /\ siob_deploy[13] = Type("CR")
      /\ siob_deploy[14] = Await("FUNCTION_COMPLETE", -2)
  BY DEF siob_deploy
<1> QED BY <1>2, <1>3

\* main of siob_console_server.py step by step.
LEMMA ConsoleForm ==
  /\ siob_console \in Seq(ScriptSteps) /\ Len(siob_console) = 7 /\ siob_console[1] = [do |-> "trigger"]
  /\ siob_console[2] = Type("DIR") /\ siob_console[4] = Type("ASM") /\ siob_console[6] = Type("TYPE")
  /\ siob_console[3] = Await("A>", 0) /\ siob_console[5] = Await("A>", 0) /\ siob_console[7] = Await("A>", 0)
<1> DEFINE ss == [i \in 1 .. 3 |-> <<Type(<<"DIR", "ASM", "TYPE">>[i]), Await("A>", 0)>>]
           f == FlattenSeq(ss)
           a == <<[do |-> "trigger"]>>
           e == a \o f
<1>0. siob_console = e BY DEF siob_console
<1>1. \A i \in 1 .. 3 : Type(<<"DIR", "ASM", "TYPE">>[i]) \in ScriptSteps
  <2>1. \A i \in 1 .. 3 : <<"DIR", "ASM", "TYPE">>[i] \in TypedWords BY DEF TypedWords
  <2> QED BY <2>1, WordSteps
<1>2. Await("A>", 0) \in ScriptSteps /\ [do |-> "trigger"] \in ScriptSteps BY WordSteps DEF AwaitedTexts
<1>3. \A i \in 1 .. 3 : /\ ss[i] \in Seq(ScriptSteps) /\ Len(ss[i]) = 2
                        /\ ss[i][1] = Type(<<"DIR", "ASM", "TYPE">>[i]) /\ ss[i][2] = Await("A>", 0)
  BY <1>1, <1>2
<1>4. ss \in Seq(Seq(ScriptSteps)) /\ Len(ss) = 3 BY <1>3
<1>5. a \in Seq(ScriptSteps) /\ Len(a) = 1 /\ a[1] = [do |-> "trigger"] BY <1>2
<1>w. <<"DIR", "ASM", "TYPE">>[1] = "DIR" /\ <<"DIR", "ASM", "TYPE">>[2] = "ASM" /\ <<"DIR", "ASM", "TYPE">>[3] = "TYPE"
  OBVIOUS
<1>l. ss[1][1] = Type("DIR") /\ ss[2][1] = Type("ASM") /\ ss[3][1] = Type("TYPE") BY <1>3, <1>w
<1> HIDE DEF ss, a
<1>6. \A i \in 1 .. Len(ss) : Len(ss[i]) = 2 BY <1>3, <1>4
<1>7. /\ f \in Seq(ScriptSteps) /\ Len(f) = 2 * Len(ss)
      /\ \A i \in 1 .. Len(ss) : f[2 * i - 1] = ss[i][1] /\ f[2 * i] = ss[i][2]
  BY <1>4, <1>6, FlattenPairs
<1> HIDE DEF f
<1>8. /\ Len(f) = 6 /\ f[1] = Type("DIR") /\ f[3] = Type("ASM") /\ f[5] = Type("TYPE")
      /\ f[2] = Await("A>", 0) /\ f[4] = Await("A>", 0) /\ f[6] = Await("A>", 0)
  <2>1. /\ f[2 * 1 - 1] = ss[1][1] /\ f[2 * 1] = ss[1][2] /\ f[2 * 2 - 1] = ss[2][1] /\ f[2 * 2] = ss[2][2]
        /\ f[2 * 3 - 1] = ss[3][1] /\ f[2 * 3] = ss[3][2]
    BY <1>4, <1>7
  <2>2. ss[1][2] = Await("A>", 0) /\ ss[2][2] = Await("A>", 0) /\ ss[3][2] = Await("A>", 0) BY <1>3
  <2> QED BY <1>4, <1>7, <1>l, <2>1, <2>2
<1>9. /\ e \in Seq(ScriptSteps) /\ Len(e) = Len(a) + Len(f)
      /\ \A i \in 1 .. Len(a) : e[i] = a[i]
      /\ \A i \in 1 .. Len(f) : e[Len(a) + i] = f[i]
  <2>1. a \in Seq(ScriptSteps) /\ f \in Seq(ScriptSteps) BY <1>5, <1>7
  <2> QED BY <2>1, StepsJoin
<1> HIDE DEF e
<1>10. /\ Len(e) = 7 /\ e[1] = [do |-> "trigger"]
       /\ e[2] = f[1] /\ e[3] = f[2] /\ e[4] = f[3] /\ e[5] = f[4] /\ e[6] = f[5] /\ e[7] = f[6]
  <2>1. e[1 + 1] = f[1] /\ e[1 + 2] = f[2] /\ e[1 + 3] = f[3] /\ e[1 + 4] = f[4] /\ e[1 + 5] = f[5] /\ e[1 + 6] = f[6]
    BY <1>5, <1>8, <1>9
  <2> QED BY <1>5, <1>8, <1>9, <2>1
<1> QED BY <1>0, <1>8, <1>9, <1>10

\* main of ddt_deploy.py step by step.
LEMMA DdtForm ==
  /\ ddt_deploy \in Seq(ScriptSteps) /\ Len(ddt_deploy) = 2 * N + 17
  /\ ddt_deploy[1] = Type("CR") /\ ddt_deploy[2] = Await("A>", 1) /\ ddt_deploy[3] = Type("DDT")
  /\ ddt_deploy[4] = Await("-", 0)
  /\ ddt_deploy[5] = Type("S") /\ ddt_deploy[6] = AwaitAddr(0)
  /\ \A i \in 1 .. N : ddt_deploy[2 * i + 5] = TypeByte(i) /\ ddt_deploy[2 * i + 6] = AwaitAddr(i)
  /\ ddt_deploy[2 * N + 7] = Type(".") /\ ddt_deploy[2 * N + 8] = Await("-", 0)
  /\ ddt_deploy[2 * N + 9] = Type("D") /\ ddt_deploy[2 * N + 10] = AwaitAddr(LastRow)
  /\ ddt_deploy[2 * N + 11] = [do |-> "verify"] /\ ddt_deploy[2 * N + 12] = Type("G0")
  /\ ddt_deploy[2 * N + 13] = Await("A>", 0) /\ ddt_deploy[2 * N + 14] = Type("ERA")
  /\ ddt_deploy[2 * N + 15] = Await("A>", 0) /\ ddt_deploy[2 * N + 16] = Type("SAVE")
  /\ ddt_deploy[2 * N + 17] = Await("A>", 0)
<1> DEFINE a == <<Type("CR"), Await("A>", 1), Type("DDT"), Await("-", 0)>>
           f == enter_bytes_via_ddt
           z == <<Type("D"), AwaitAddr(LastRow), [do |-> "verify"], Type("G0"), Await("A>", 0), Type("ERA"), Await("A>", 0), Type("SAVE"), Await("A>", 0)>>
           b == a \o f
           e == b \o z
<1>0. ddt_deploy = e BY DEF ddt_deploy
<1>n. N \in Nat BY ProgramSize
<1>1. a \in Seq(ScriptSteps) /\ Len(a) = 4
  <2>1. /\ Type("CR") \in ScriptSteps /\ Await("A>", 1) \in ScriptSteps /\ Type("DDT") \in ScriptSteps
        /\ Await("-", 0) \in ScriptSteps
    BY WordSteps DEF TypedWords, AwaitedTexts
  <2> QED BY <2>1
<1>a. /\ a[1] = Type("CR") /\ a[2] = Await("A>", 1) /\ a[3] = Type("DDT") /\ a[4] = Await("-", 0)
  OBVIOUS
<1>2. z \in Seq(ScriptSteps) /\ Len(z) = 9
  <2>0. LastRow \in 0 .. N BY ProgramSize
  <2>1. /\ Type("D") \in ScriptSteps /\ AwaitAddr(LastRow) \in ScriptSteps /\ [do |-> "verify"] \in ScriptSteps
        /\ Type("G0") \in ScriptSteps /\ Await("A>", 0) \in ScriptSteps /\ Type("ERA") \in ScriptSteps
        /\ Type("SAVE") \in ScriptSteps
    BY <2>0, WordSteps DEF TypedWords, AwaitedTexts
  <2> QED BY <2>1
<1>z. /\ z[1] = Type("D") /\ z[2] = AwaitAddr(LastRow) /\ z[3] = [do |-> "verify"] /\ z[4] = Type("G0")
      /\ z[5] = Await("A>", 0) /\ z[6] = Type("ERA") /\ z[7] = Await("A>", 0) /\ z[8] = Type("SAVE")
      /\ z[9] = Await("A>", 0)
  OBVIOUS
<1>3. /\ f \in Seq(ScriptSteps) /\ Len(f) = 2 * N + 4
      /\ f[1] = Type("S") /\ f[2] = AwaitAddr(0)
      /\ \A i \in 1 .. N : f[2 * i + 1] = TypeByte(i) /\ f[2 * i + 2] = AwaitAddr(i)
      /\ f[2 * N + 3] = Type(".") /\ f[2 * N + 4] = Await("-", 0)
  BY EnterForm
<1> HIDE DEF a, f, z
<1>4. /\ b \in Seq(ScriptSteps) /\ Len(b) = Len(a) + Len(f)
      /\ \A i \in 1 .. Len(a) : b[i] = a[i]
      /\ \A i \in 1 .. Len(f) : b[Len(a) + i] = f[i]
  <2>1. a \in Seq(ScriptSteps) /\ f \in Seq(ScriptSteps) BY <1>1, <1>3
  <2> QED BY <2>1, StepsJoin
<1> HIDE DEF b
<1>5. /\ e \in Seq(ScriptSteps) /\ Len(e) = Len(b) + Len(z)
      /\ \A i \in 1 .. Len(b) : e[i] = b[i]
      /\ \A i \in 1 .. Len(z) : e[Len(b) + i] = z[i]
  <2>1. b \in Seq(ScriptSteps) /\ z \in Seq(ScriptSteps) BY <1>2, <1>4
  <2> QED BY <2>1, StepsJoin
<1> HIDE DEF e
<1>6. Len(b) = 2 * N + 8 /\ Len(e) = 2 * N + 17 BY <1>1, <1>2, <1>3, <1>4, <1>5, <1>n
<1>7. /\ e[1] = Type("CR") /\ e[2] = Await("A>", 1) /\ e[3] = Type("DDT") /\ e[4] = Await("-", 0)
  BY <1>n, <1>1, <1>a, <1>4, <1>5, <1>6
<1>8. \A i \in 1 .. Len(f) : e[4 + i] = f[i]
  <2> TAKE i \in 1 .. Len(f)
  <2>1. 4 + i \in 1 .. Len(b) /\ Len(a) + i = 4 + i BY <1>n, <1>1, <1>3, <1>6
  <2>2. e[4 + i] = b[4 + i] BY <2>1, <1>5
  <2>3. b[Len(a) + i] = f[i] BY <1>4
  <2> QED BY <2>1, <2>2, <2>3
<1>9. /\ e[5] = Type("S") /\ e[6] = AwaitAddr(0)
  <2>1. e[4 + 1] = f[1] /\ e[4 + 2] = f[2] BY <1>8, <1>3, <1>n
  <2> QED BY <2>1, <1>3
<1>10. ASSUME NEW i \in 1 .. N PROVE e[2 * i + 5] = TypeByte(i) /\ e[2 * i + 6] = AwaitAddr(i)
  <2>1. 2 * i + 1 \in 1 .. Len(f) /\ 2 * i + 2 \in 1 .. Len(f) BY <1>n, <1>3
  <2>2. e[4 + (2 * i + 1)] = f[2 * i + 1] /\ e[4 + (2 * i + 2)] = f[2 * i + 2] BY <2>1, <1>8
  <2>3. 4 + (2 * i + 1) = 2 * i + 5 /\ 4 + (2 * i + 2) = 2 * i + 6 BY <1>n
  <2> QED BY <2>2, <2>3, <1>3
<1>11. /\ e[2 * N + 7] = Type(".") /\ e[2 * N + 8] = Await("-", 0)
  <2>1. e[4 + (2 * N + 3)] = f[2 * N + 3] /\ e[4 + (2 * N + 4)] = f[2 * N + 4] BY <1>8, <1>3, <1>n
  <2>2. 4 + (2 * N + 3) = 2 * N + 7 /\ 4 + (2 * N + 4) = 2 * N + 8 BY <1>n
  <2> QED BY <2>1, <2>2, <1>3
<1>12. /\ e[2 * N + 9] = Type("D") /\ e[2 * N + 10] = AwaitAddr(LastRow) /\ e[2 * N + 11] = [do |-> "verify"]
      /\ e[2 * N + 12] = Type("G0") /\ e[2 * N + 13] = Await("A>", 0) /\ e[2 * N + 14] = Type("ERA")
      /\ e[2 * N + 15] = Await("A>", 0) /\ e[2 * N + 16] = Type("SAVE") /\ e[2 * N + 17] = Await("A>", 0)
  <2>1. /\ e[Len(b) + 1] = z[1] /\ e[Len(b) + 2] = z[2] /\ e[Len(b) + 3] = z[3] /\ e[Len(b) + 4] = z[4]
        /\ e[Len(b) + 5] = z[5] /\ e[Len(b) + 6] = z[6] /\ e[Len(b) + 7] = z[7] /\ e[Len(b) + 8] = z[8]
        /\ e[Len(b) + 9] = z[9]
    BY <1>2, <1>5
  <2>2. /\ Len(b) + 1 = 2 * N + 9 /\ Len(b) + 2 = 2 * N + 10 /\ Len(b) + 3 = 2 * N + 11 /\ Len(b) + 4 = 2 * N + 12
        /\ Len(b) + 5 = 2 * N + 13 /\ Len(b) + 6 = 2 * N + 14 /\ Len(b) + 7 = 2 * N + 15 /\ Len(b) + 8 = 2 * N + 16
        /\ Len(b) + 9 = 2 * N + 17
    BY <1>6, <1>n
  <2> QED BY <2>1, <2>2, <1>z
<1> QED BY <1>0, <1>5, <1>6, <1>7, <1>9, <1>10, <1>11, <1>12

\* main of sioa_fix_via_ddt.py step by step.
LEMMA FixForm ==
  /\ sioa_fix \in Seq(ScriptSteps) /\ Len(sioa_fix) = 2 * N + 10
  /\ sioa_fix[1] = Type("CR") /\ sioa_fix[2] = Await("A>", 0) /\ sioa_fix[3] = Type("DDT")
  /\ sioa_fix[4] = Await("-", 0) /\ sioa_fix[5] = Type("S")
  /\ \A i \in 1 .. N : sioa_fix[2 * i + 4] = Await("BLANK", 0) /\ sioa_fix[2 * i + 5] = TypeByte(i)
  /\ sioa_fix[2 * N + 6] = Await("BLANK", 0) /\ sioa_fix[2 * N + 7] = Type(".") /\ sioa_fix[2 * N + 8] = Await("-", 0)
  /\ sioa_fix[2 * N + 9] = Type("G100") /\ sioa_fix[2 * N + 10] = Await("A>", 0)
<1> DEFINE a == <<Type("CR"), Await("A>", 0), Type("DDT"), Await("-", 0), Type("S")>>
           f == FlattenSeq([i \in 1 .. N |-> <<Await("BLANK", 0), TypeByte(i)>>])
           z == <<Await("BLANK", 0), Type("."), Await("-", 0), Type("G100"), Await("A>", 0)>>
           b == a \o f
           e == b \o z
<1>0. sioa_fix = e BY DEF sioa_fix
<1>n. N \in Nat BY ProgramSize
<1>1. a \in Seq(ScriptSteps) /\ Len(a) = 5
  <2>1. /\ Type("CR") \in ScriptSteps /\ Await("A>", 0) \in ScriptSteps /\ Type("DDT") \in ScriptSteps
        /\ Await("-", 0) \in ScriptSteps /\ Type("S") \in ScriptSteps
    BY WordSteps DEF TypedWords, AwaitedTexts
  <2> QED BY <2>1
<1>a. /\ a[1] = Type("CR") /\ a[2] = Await("A>", 0) /\ a[3] = Type("DDT") /\ a[4] = Await("-", 0) /\ a[5] = Type("S")
  OBVIOUS
<1>2. z \in Seq(ScriptSteps) /\ Len(z) = 5
  <2>0. LastRow \in 0 .. N BY ProgramSize
  <2>1. /\ Await("BLANK", 0) \in ScriptSteps /\ Type(".") \in ScriptSteps /\ Await("-", 0) \in ScriptSteps
        /\ Type("G100") \in ScriptSteps /\ Await("A>", 0) \in ScriptSteps
    BY <2>0, WordSteps DEF TypedWords, AwaitedTexts
  <2> QED BY <2>1
<1>z. /\ z[1] = Await("BLANK", 0) /\ z[2] = Type(".") /\ z[3] = Await("-", 0) /\ z[4] = Type("G100")
      /\ z[5] = Await("A>", 0)
  OBVIOUS
<1>3. /\ f \in Seq(ScriptSteps) /\ Len(f) = 2 * N
      /\ \A i \in 1 .. N : f[2 * i - 1] = Await("BLANK", 0) /\ f[2 * i] = TypeByte(i)
  BY AwaitedBytes
<1> HIDE DEF a, f, z
<1>4. /\ b \in Seq(ScriptSteps) /\ Len(b) = Len(a) + Len(f)
      /\ \A i \in 1 .. Len(a) : b[i] = a[i]
      /\ \A i \in 1 .. Len(f) : b[Len(a) + i] = f[i]
  <2>1. a \in Seq(ScriptSteps) /\ f \in Seq(ScriptSteps) BY <1>1, <1>3
  <2> QED BY <2>1, StepsJoin
<1> HIDE DEF b
<1>5. /\ e \in Seq(ScriptSteps) /\ Len(e) = Len(b) + Len(z)
      /\ \A i \in 1 .. Len(b) : e[i] = b[i]
      /\ \A i \in 1 .. Len(z) : e[Len(b) + i] = z[i]
  <2>1. b \in Seq(ScriptSteps) /\ z \in Seq(ScriptSteps) BY <1>2, <1>4
  <2> QED BY <2>1, StepsJoin
<1> HIDE DEF e
<1>6. Len(b) = 2 * N + 5 /\ Len(e) = 2 * N + 10 BY <1>1, <1>2, <1>3, <1>4, <1>5, <1>n
<1>7. /\ e[1] = Type("CR") /\ e[2] = Await("A>", 0) /\ e[3] = Type("DDT") /\ e[4] = Await("-", 0) /\ e[5] = Type("S")
  BY <1>n, <1>1, <1>a, <1>4, <1>5, <1>6
<1>8. \A i \in 1 .. Len(f) : e[5 + i] = f[i] BY <1>n, <1>1, <1>3, <1>4, <1>5, <1>6
<1>9. ASSUME NEW i \in 1 .. N PROVE e[2 * i + 4] = Await("BLANK", 0) /\ e[2 * i + 5] = TypeByte(i)
  <2>1. 2 * i - 1 \in 1 .. Len(f) /\ 2 * i \in 1 .. Len(f) BY <1>n, <1>3
  <2>2. e[5 + (2 * i - 1)] = f[2 * i - 1] /\ e[5 + (2 * i)] = f[2 * i] BY <2>1, <1>8
  <2>3. 5 + (2 * i - 1) = 2 * i + 4 /\ 5 + (2 * i) = 2 * i + 5 BY <1>n
  <2> QED BY <2>2, <2>3, <1>3
<1>10. /\ e[2 * N + 6] = Await("BLANK", 0) /\ e[2 * N + 7] = Type(".") /\ e[2 * N + 8] = Await("-", 0)
      /\ e[2 * N + 9] = Type("G100") /\ e[2 * N + 10] = Await("A>", 0)
  <2>1. /\ e[Len(b) + 1] = z[1] /\ e[Len(b) + 2] = z[2] /\ e[Len(b) + 3] = z[3] /\ e[Len(b) + 4] = z[4]
        /\ e[Len(b) + 5] = z[5]
    BY <1>2, <1>5
  <2>2. /\ Len(b) + 1 = 2 * N + 6 /\ Len(b) + 2 = 2 * N + 7 /\ Len(b) + 3 = 2 * N + 8 /\ Len(b) + 4 = 2 * N + 9
        /\ Len(b) + 5 = 2 * N + 10
    BY <1>6, <1>n
  <2> QED BY <2>1, <2>2, <1>z
<1> QED BY <1>0, <1>5, <1>6, <1>7, <1>9, <1>10

\* ddt_deploy.py with --run: two steps more.
DdtRun == ddt_deploy \o <<Type("RUN"), Await("A>", 0)>>

\* The last eleven steps of ddt_deploy, after the bytes.
LEMMA DdtEnd ==
  /\ ddt_deploy[2 * N + 7] = Type(".") /\ ddt_deploy[2 * N + 8] = Await("-", 0)
  /\ ddt_deploy[2 * N + 9] = Type("D") /\ ddt_deploy[2 * N + 10] = AwaitAddr(LastRow)
  /\ ddt_deploy[2 * N + 11] = [do |-> "verify"] /\ ddt_deploy[2 * N + 12] = Type("G0")
  /\ ddt_deploy[2 * N + 13] = Await("A>", 0) /\ ddt_deploy[2 * N + 14] = Type("ERA")
  /\ ddt_deploy[2 * N + 15] = Await("A>", 0) /\ ddt_deploy[2 * N + 16] = Type("SAVE")
  /\ ddt_deploy[2 * N + 17] = Await("A>", 0)
BY DdtForm

\* main of ddt_deploy.py with --run step by step.
LEMMA DdtRunForm ==
  /\ DdtRun \in Seq(ScriptSteps) /\ Len(DdtRun) = 2 * N + 19
  /\ \A p \in 1 .. 2 * N + 17 : DdtRun[p] = ddt_deploy[p]
  /\ DdtRun[2 * N + 18] = Type("RUN") /\ DdtRun[2 * N + 19] = Await("A>", 0)
<1> DEFINE b == ddt_deploy
           z == <<Type("RUN"), Await("A>", 0)>>
           e == b \o z
<1>0. DdtRun = e BY DEF DdtRun
<1>n. N \in Nat BY ProgramSize
<1>1. b \in Seq(ScriptSteps) /\ Len(b) = 2 * N + 17 BY DdtForm
<1>2. z \in Seq(ScriptSteps) /\ Len(z) = 2 /\ z[1] = Type("RUN") /\ z[2] = Await("A>", 0)
  <2>1. Type("RUN") \in ScriptSteps /\ Await("A>", 0) \in ScriptSteps BY WordSteps DEF TypedWords, AwaitedTexts
  <2> QED BY <2>1
<1> HIDE DEF b, z
<1>3. /\ e \in Seq(ScriptSteps) /\ Len(e) = Len(b) + Len(z)
      /\ \A i \in 1 .. Len(b) : e[i] = b[i]
      /\ \A i \in 1 .. Len(z) : e[Len(b) + i] = z[i]
  <2>1. b \in Seq(ScriptSteps) /\ z \in Seq(ScriptSteps) BY <1>1, <1>2
  <2> QED BY <2>1, StepsJoin
<1> HIDE DEF e
<1>4. e[Len(b) + 1] = z[1] /\ e[Len(b) + 2] = z[2] BY <1>2, <1>3
<1>5. Len(b) + 1 = 2 * N + 18 /\ Len(b) + 2 = 2 * N + 19 /\ Len(e) = 2 * N + 19 BY <1>1, <1>2, <1>3, <1>n
<1> QED BY <1>0, <1>1, <1>2, <1>3, <1>4, <1>5 DEF b

\* Which script is under way.
LEMMA StepsAre ==
  /\ script = "deploy" => Steps = siob_deploy
  /\ script = "ddt" => Steps = ddt_deploy
  /\ script = "ddt_run" => Steps = DdtRun
  /\ script = "fix" => Steps = sioa_fix
  /\ script = "console" => Steps = siob_console
BY DEF Steps, DdtRun

\* The scripts.
ScriptNames == {"deploy", "ddt", "ddt_run", "fix", "console"}

\* Every script is a sequence of such steps.
LEMMA StepsType ==
  ASSUME script \in ScriptNames
  PROVE  Steps \in Seq(ScriptSteps) /\ Len(Steps) \in Nat
<1>1. Steps \in Seq(ScriptSteps)
  BY StepsAre, DeployForm, DdtForm, DdtRunForm, FixForm, ConsoleForm DEF ScriptNames
<1> QED BY <1>1, LenProperties

\* Where a position of ddt_deploy.py and of the repair script can be.
LEMMA DdtPositions ==
  ASSUME NEW p \in 1 .. 2 * N + 19
  PROVE  \/ p \in 1 .. 6
         \/ \E i \in 1 .. N : p = 2 * i + 5 \/ p = 2 * i + 6
         \/ \E k \in 7 .. 19 : p = 2 * N + k
<1>1. N \in Nat BY ProgramSize
<1>2. CASE p \in 7 .. 2 * N + 6
  <2> DEFINE i == (p - 5) \div 2
  <2>1. i \in Int /\ 2 * i <= p - 5 /\ p - 5 < 2 * i + 2 BY <1>1
  <2> HIDE DEF i
  <2>2. i \in 1 .. N /\ (p = 2 * i + 5 \/ p = 2 * i + 6) BY <2>1, <1>1, <1>2
  <2> QED BY <2>2
<1>3. CASE p \in 2 * N + 7 .. 2 * N + 19
  <2> DEFINE k == p - 2 * N
  <2>1. k \in 7 .. 19 /\ p = 2 * N + k BY <1>3, <1>1
  <2> QED BY <2>1
<1> QED BY <1>1, <1>2, <1>3

\* Where a step of the repair script is.
LEMMA FixPositions ==
  ASSUME NEW p \in 1 .. 2 * N + 10
  PROVE  \/ p \in 1 .. 5
         \/ \E i \in 1 .. N : p = 2 * i + 4 \/ p = 2 * i + 5
         \/ \E k \in 6 .. 10 : p = 2 * N + k
<1>1. N \in Nat BY ProgramSize
<1>2. CASE p \in 6 .. 2 * N + 5
  <2> DEFINE i == (p - 4) \div 2
  <2>1. i \in Int /\ 2 * i <= p - 4 /\ p - 4 < 2 * i + 2 BY <1>1
  <2> HIDE DEF i
  <2>2. i \in 1 .. N /\ (p = 2 * i + 4 \/ p = 2 * i + 5) BY <2>1, <1>1, <1>2
  <2> QED BY <2>2
<1>3. CASE p \in 2 * N + 6 .. 2 * N + 10
  <2> DEFINE k == p - 2 * N
  <2>1. k \in 6 .. 10 /\ p = 2 * N + k BY <1>3, <1>1
  <2> QED BY <2>1
<1> QED BY <1>1, <1>2, <1>3

\* Lines that are typed.
TypedLines == {<<w>> : w \in TypedWords} \cup {<<"byte", x>> : x \in 0 .. 255}

\* A step is of one of five kinds.
LEMMA StepKinds ==
  ASSUME NEW t \in ScriptSteps
  PROVE  /\ t.do \in {"type", "await", "trigger", "data", "verify"}
         /\ t.do = "type" => t.line \in TypedLines
         /\ t.do = "await" => t.miss \in -2 .. 5
                             /\ ((\E w \in AwaitedTexts : t.needle = <<w>>) \/ \E a \in 0 .. N : t.needle = <<"addr", a>>)
<1>1. CASE \E w \in TypedWords : t = Type(w) BY <1>1 DEF Type, TypedLines
<1>2. CASE \E i \in 1 .. N : t = TypeByte(i)
  <2>1. PICK i \in 1 .. N : t = TypeByte(i) BY <1>2
  <2>2. Program[i] \in 0 .. 255 BY ProgramSize
  <2> QED BY <2>1, <2>2 DEF TypeByte, TypedLines
<1>3. CASE \E w \in AwaitedTexts : \E m \in -2 .. 5 : t = Await(w, m) BY <1>3 DEF Await
<1>4. CASE \E a \in 0 .. N : t = AwaitAddr(a) BY <1>4 DEF AwaitAddr
<1>5. CASE \E d \in {"trigger", "data", "verify"} : t = [do |-> d] BY <1>5
<1> QED BY <1>1, <1>2, <1>3, <1>4, <1>5 DEF ScriptSteps

\* ddt_deploy.py starts neither SYSGEN nor the program.
LEMMA DdtTypes ==
  ASSUME NEW p \in 1 .. 2 * N + 19, NEW t, t = DdtRun[p], t.do = "type"
  PROVE  t.line[1] \notin {"SYSGEN", "G100"}
<1>n. N \in Nat BY ProgramSize
<1>1. CASE p \in 1 .. 6
  <2>1. DdtRun[p] = ddt_deploy[p] BY <1>1, <1>n, DdtRunForm
  <2>2. t \in {Type("CR"), Await("A>", 1), Type("DDT"), Await("-", 0), Type("S"), AwaitAddr(0)} BY <1>1, <2>1, DdtForm
  <2> QED BY <2>2 DEF Type, Await, AwaitAddr
<1>2. CASE \E i \in 1 .. N : p = 2 * i + 5 \/ p = 2 * i + 6
  <2>1. PICK i \in 1 .. N : p = 2 * i + 5 \/ p = 2 * i + 6 BY <1>2
  <2>2. DdtRun[p] = ddt_deploy[p] BY <2>1, <1>n, DdtRunForm
  <2>3. t = TypeByte(i) \/ t = AwaitAddr(i) BY <2>1, <2>2, DdtForm
  <2> QED BY <2>3 DEF TypeByte, AwaitAddr
<1>3. CASE \E k \in 7 .. 19 : p = 2 * N + k
  <2>1. PICK k \in 7 .. 19 : p = 2 * N + k BY <1>3
  <2>2. CASE k \in 7 .. 17
    <3>1. DdtRun[p] = ddt_deploy[p] BY <2>1, <2>2, <1>n, DdtRunForm
    <3>2. t \in {Type("."), Await("-", 0), Type("D"), AwaitAddr(LastRow), [do |-> "verify"], Type("G0"), Await("A>", 0),
                 Type("ERA"), Type("SAVE")}
      <4>0. t = ddt_deploy[2 * N + k] BY <2>1, <3>1
      <4>1. CASE k \in 7 .. 11
        <5>1. ddt_deploy[2 * N + k] \in {Type("."), Await("-", 0), Type("D"), AwaitAddr(LastRow), [do |-> "verify"]}
          BY <4>1, DdtEnd
        <5> QED BY <4>0, <5>1
      <4>2. CASE k \in 12 .. 14
        <5>1. ddt_deploy[2 * N + k] \in {Type("G0"), Await("A>", 0), Type("ERA")} BY <4>2, DdtEnd
        <5> QED BY <4>0, <5>1
      <4>3. CASE k \in 15 .. 17
        <5>1. ddt_deploy[2 * N + k] \in {Await("A>", 0), Type("SAVE")} BY <4>3, DdtEnd
        <5> QED BY <4>0, <5>1
      <4> QED BY <2>2, <4>1, <4>2, <4>3
    <3> QED BY <3>2 DEF Type, Await, AwaitAddr
  <2>3. CASE k \in 18 .. 19
    <3>1. t \in {Type("RUN"), Await("A>", 0)} BY <2>1, <2>3, DdtRunForm
    <3> QED BY <3>1 DEF Type, Await
  <2> QED BY <2>1, <2>2, <2>3
<1> QED BY <1>1, <1>2, <1>3, DdtPositions

\* Only the deployment starts SYSGEN, only the repair script the program.
LEMMA TypedHere ==
  ASSUME script \in ScriptNames, NEW p \in 1 .. Len(Steps), Steps[p].do = "type"
  PROVE  (Steps[p].line[1] = "SYSGEN" => script = "deploy") /\ (Steps[p].line[1] = "G100" => script = "fix")
<1>n. N \in Nat BY ProgramSize
<1>1. CASE script = "deploy"
  <2>1. Steps = siob_deploy /\ p \in 1 .. 14 BY <1>1, StepsAre, DeployForm
  <2>2. siob_deploy[p] \in {[do |-> "trigger"], Type("PIP"), [do |-> "data"], Await("A>", 3), Type("MLOAD"), Await("A>", 4),
           Type("CPM56"), Await("OK", -2), Type("SYSGEN"), Await("DESTINATION_DRIVE", 5), Type("A"),
           Await("DESTINATION_ON_A", -2), Type("CR"), Await("FUNCTION_COMPLETE", -2)}
    BY <2>1, DeployForm
  <2> QED BY <1>1, <2>1, <2>2 DEF Type, Await
<1>2. CASE script \in {"ddt", "ddt_run"}
  <2>1. p \in 1 .. 2 * N + 19 /\ Steps[p] = DdtRun[p]
    <3>1. CASE script = "ddt"
      <4>1. Steps = ddt_deploy /\ Len(Steps) = 2 * N + 17 BY <3>1, StepsAre, DdtForm
      <4>2. p \in 1 .. 2 * N + 17 BY <4>1
      <4> QED BY <1>n, <4>1, <4>2, DdtRunForm
    <3>2. CASE script = "ddt_run" BY <3>2, <1>n, StepsAre, DdtRunForm
    <3> QED BY <1>2, <3>1, <3>2
  <2> QED BY <2>1, DdtTypes
<1>3. CASE script = "fix"
  <2>1. Steps = sioa_fix /\ p \in 1 .. 2 * N + 10 BY <1>3, StepsAre, FixForm
  <2>2. CASE p \in 1 .. 5
    <3>1. Steps[p] \in {Type("CR"), Await("A>", 0), Type("DDT"), Await("-", 0), Type("S")} BY <2>1, <2>2, FixForm
    <3> QED BY <3>1, <1>3 DEF Type, Await
  <2>3. CASE \E i \in 1 .. N : p = 2 * i + 4 \/ p = 2 * i + 5
    <3>1. PICK i \in 1 .. N : p = 2 * i + 4 \/ p = 2 * i + 5 BY <2>3
    <3>2. Steps[p] = Await("BLANK", 0) \/ Steps[p] = TypeByte(i) BY <2>1, <3>1, FixForm
    <3> QED BY <3>2, <1>3 DEF TypeByte, Await
  <2>4. CASE \E k \in 6 .. 10 : p = 2 * N + k
    <3>1. PICK k \in 6 .. 10 : p = 2 * N + k BY <2>4
    <3>2. Steps[p] \in {Await("BLANK", 0), Type("."), Await("-", 0), Type("G100"), Await("A>", 0)} BY <2>1, <3>1, FixForm
    <3> QED BY <3>2, <1>3 DEF Type, Await
  <2> QED BY <2>1, <2>2, <2>3, <2>4, FixPositions
<1>4. CASE script = "console"
  <2>1. Steps = siob_console /\ p \in 1 .. 7 BY <1>4, StepsAre, ConsoleForm
  <2>2. siob_console[p] \in {[do |-> "trigger"], Type("DIR"), Type("ASM"), Type("TYPE"), Await("A>", 0)} BY <2>1, ConsoleForm
  <2> QED BY <2>1, <2>2 DEF Type, Await
<1> QED BY <1>1, <1>2, <1>3, <1>4 DEF ScriptNames

\* What is in memory.
MemBytes == OldBytes \cup 0 .. 255
\* The pieces of text.
Tokens ==
    {<<w>> : w \in AwaitedTexts \cup {"?", "FAIL"}} \cup {<<"echo", l>> : l \in TypedLines}
    \cup {<<"at", a, b>> : a \in 0 .. N, b \in MemBytes}
\* The lines the script types.
TypedBy == {l \in TypedLines : (l[1] = "SYSGEN" => script = "deploy") /\ (l[1] = "G100" => script = "fix")}
\* What a file of the system may hold.
Systems == {"none", "old", "new", "bad"}

\* The shape of the state.
ScriptsAre ==
    /\ script \in ScriptNames \cup {"none"} /\ pc \in Nat /\ rc \in -1 .. 5
    /\ rc = -1 => script \in ScriptNames /\ pc \in 1 .. Len(Steps)
    /\ faults \in 0 .. MaxFaults /\ unsure \in BOOLEAN
    /\ port \in {<<>>, <<"new">>, <<"bad">>}
    /\ \E h \in Systems, c \in Systems : \E v : dsk = [hex |-> h, com |-> c, saved |-> v]
    /\ tracks \in Systems \cup {"boot"}
    /\ prog \in {"ccp", "pip", "sysgen", "sysgen_on_A", "ddt", "set", "gone"} /\ addr \in 0 .. N
    /\ script \in ScriptNames => tpa \in [1 .. N -> MemBytes]
    /\ script = "none" => keys = <<>> /\ prog = "ccp"
    /\ keys \in Seq(TypedBy) /\ out \in Seq(Tokens) /\ seen \in Seq(Tokens)

\* The step a running script is at.
LEMMA StepIs ==
  ASSUME ScriptsAre, Running
  PROVE  /\ script \in ScriptNames /\ pc \in 1 .. Len(Steps) /\ Len(Steps) \in Nat /\ Steps \in Seq(ScriptSteps)
         /\ Step \in ScriptSteps /\ StatusAt(pc + 1) \in {-1, 0}
         /\ StatusAt(pc + 1) = -1 => pc + 1 \in 1 .. Len(Steps)
<1>1. script \in ScriptNames /\ pc \in 1 .. Len(Steps) BY DEF ScriptsAre, Running
<1>2. Len(Steps) \in Nat /\ Steps \in Seq(ScriptSteps) BY <1>1, StepsType
<1>3. Step \in ScriptSteps BY <1>1, <1>2 DEF Step
<1>4. pc \in Nat BY <1>1, <1>2
<1>5. StatusAt(pc + 1) \in {-1, 0} /\ (StatusAt(pc + 1) = -1 => pc + 1 \in 1 .. Len(Steps)) BY <1>2, <1>4 DEF StatusAt
<1> QED BY <1>1, <1>2, <1>3, <1>5

\* The sets do not change while a script runs.
LEMMA SameScript ==
  ASSUME UNCHANGED script
  PROVE  Steps' = Steps /\ TypedBy' = TypedBy
BY DEF Steps, TypedBy

\* A line is answered.
LEMMA AnswerIs ==
  ASSUME ScriptsAre, NEW toks \in Seq(Tokens), keys # <<>>, Answer(toks)
  PROVE  /\ out' \in Seq(Tokens) /\ keys' \in Seq(TypedBy) /\ script \in ScriptNames
         /\ Head(keys) \in TypedBy /\ Len(keys) \in Nat /\ Len(keys) >= 1 /\ Len(keys') = Len(keys) - 1
         /\ \A i \in 1 .. Len(keys') : keys'[i] = keys[i + 1]
         /\ Head(keys) = keys[1] /\ out' = (out \o <<<<"echo", Head(keys)>>>>) \o toks
         /\ <<<<"echo", Head(keys)>>>> \in Seq(Tokens)
<1>1. keys \in Seq(TypedBy) /\ out \in Seq(Tokens) BY DEF ScriptsAre
<1>2. keys' = Tail(keys) /\ out' = (out \o <<<<"echo", Head(keys)>>>>) \o toks BY DEF Answer
<1>3. /\ Len(keys) \in Nat /\ Len(keys) >= 1 /\ Head(keys) \in TypedBy /\ Tail(keys) \in Seq(TypedBy)
      /\ Len(Tail(keys)) = Len(keys) - 1 /\ \A i \in 1 .. Len(Tail(keys)) : Tail(keys)[i] = keys[i + 1]
      /\ Head(keys) = keys[1]
  <2>1. Len(keys) \in Nat /\ Len(keys) >= 1 BY <1>1, EmptySeq
  <2> QED BY <1>1, <2>1, HeadTailProperties
<1>4. <<"echo", Head(keys)>> \in Tokens BY <1>3 DEF Tokens, TypedBy
<1>5. <<<<"echo", Head(keys)>>>> \in Seq(Tokens) BY <1>4
<1> DEFINE w == <<<<"echo", Head(keys)>>>>
<1> HIDE DEF w
<1>6. out \o w \in Seq(Tokens) BY <1>1, <1>5, ConcatProperties DEF w
<1>7. out' \in Seq(Tokens) BY <1>2, <1>6, ConcatProperties DEF w
<1>8. script \in ScriptNames BY DEF ScriptsAre
<1> QED BY <1>2, <1>3, <1>5, <1>7, <1>8

\* Short answers.
LEMMA Texts ==
  /\ <<>> \in Seq(Tokens)
  /\ \A w \in AwaitedTexts \cup {"?", "FAIL"} : <<w>> \in Tokens /\ <<<<w>>>> \in Seq(Tokens)
  /\ \A v, w \in AwaitedTexts \cup {"?", "FAIL"} : <<<<v>>, <<w>>>> \in Seq(Tokens)
<1>1. \A w \in AwaitedTexts \cup {"?", "FAIL"} : <<w>> \in Tokens BY DEF Tokens
<1>2. ASSUME NEW w \in AwaitedTexts \cup {"?", "FAIL"} PROVE <<<<w>>>> \in Seq(Tokens)
  <2> DEFINE x == <<w>>
  <2>1. x \in Tokens BY <1>1
  <2> HIDE DEF x
  <2>2. <<x>> \in Seq(Tokens) BY <2>1
  <2> QED BY <2>2 DEF x
<1>3. ASSUME NEW v \in AwaitedTexts \cup {"?", "FAIL"}, NEW w \in AwaitedTexts \cup {"?", "FAIL"}
      PROVE  <<<<v>>, <<w>>>> \in Seq(Tokens)
  <2> DEFINE x == <<v>>
             y == <<w>>
  <2>1. x \in Tokens /\ y \in Tokens BY <1>1
  <2> HIDE DEF x, y
  <2>2. <<x, y>> \in Seq(Tokens) BY <2>1
  <2> QED BY <2>2 DEF x, y
<1> QED BY <1>1, <1>2, <1>3, EmptySeq

\* What CCP does with a line.
CcpDoes(toks) ==
    /\ prog = "ccp" /\ keys # <<>> /\ Answer(toks) /\ toks \in Seq(Tokens)
    /\ UNCHANGED <<script, port, pc, seen, addr, tpa, tracks, missing, ran, unsure, rc>>
    /\ faults' = faults \/ (faults < MaxFaults /\ faults' = faults + 1)
    /\ \/ Head(keys)[1] = "DDT" /\ There("DDT") /\ toks = <<<<"-">>>> /\ prog' = "ddt" /\ dsk' = dsk
       \/ Head(keys)[1] = "PIP" /\ toks = <<>> /\ prog' = "pip" /\ dsk' = dsk
       \/ Head(keys)[1] = "SYSGEN" /\ toks = <<<<"DESTINATION_DRIVE">>>> /\ prog' = "sysgen" /\ dsk' = dsk
       \/ /\ Head(keys)[1] = "MLOAD" /\ toks = <<<<"A>">>>> /\ prog' = "ccp"
          /\ dsk' = [dsk EXCEPT !.com = dsk.hex] \/ (dsk' = dsk /\ (dsk.hex = "none" \/ faults' = faults + 1))
       \/ /\ Head(keys)[1] = "CPM56" /\ prog' = "ccp" /\ dsk' = dsk
          /\ toks = <<<<"FAIL">>, <<"A>">>>> \/ (toks = <<<<"OK">>, <<"A>">>>> /\ dsk.com # "bad")
       \/ /\ toks = <<<<"A>">>>> /\ prog' = "ccp" /\ Head(keys)[1] # "MLOAD"
          /\ (Head(keys)[1] = "DDT" => ~There("DDT")) /\ (Head(keys)[1] = "PIP" => ~There("PIP"))
          /\ dsk' = dsk \/ \E v : dsk' = [dsk EXCEPT !.saved = v]
       \/ Head(keys)[1] = "MLOAD" /\ ~There("MLOAD") /\ toks = <<<<"A>">>>> /\ prog' = "ccp" /\ dsk' = dsk

\* CCP does one of these.
LEMMA CcpCases == ASSUME Ccp PROVE \E toks : CcpDoes(toks)
<1> DEFINE line == Head(keys)
<1>0. /\ prog = "ccp" /\ keys # <<>>
      /\ UNCHANGED <<script, port, pc, seen, addr, tpa, tracks, missing, ran, unsure, rc>>
  BY DEF Ccp
<1>w. /\ <<<<"A>">>>> \in Seq(Tokens) /\ <<<<"-">>>> \in Seq(Tokens) /\ <<<<"DESTINATION_DRIVE">>>> \in Seq(Tokens)
      /\ <<<<"FAIL">>, <<"A>">>>> \in Seq(Tokens) /\ <<<<"OK">>, <<"A>">>>> \in Seq(Tokens) /\ <<>> \in Seq(Tokens)
  BY Texts DEF AwaitedTexts
<1>1. CASE line[1] = "DDT" /\ There("DDT")
  <2>1. Answer(<<<<"-">>>>) /\ prog' = "ddt" /\ UNCHANGED <<dsk, faults>> BY <1>1 DEF Ccp
  <2>2. CcpDoes(<<<<"-">>>>) BY <1>0, <1>w, <1>1, <2>1 DEF CcpDoes
  <2> QED BY <2>2
<1>2. CASE line[1] = "PIP" /\ There("PIP")
  <2>1. Answer(<<>>) /\ prog' = "pip" /\ UNCHANGED <<dsk, faults>> BY <1>2 DEF Ccp
  <2>2. CcpDoes(<<>>) BY <1>0, <1>w, <1>2, <2>1 DEF CcpDoes
  <2> QED BY <2>2
<1>3. CASE line[1] = "SYSGEN" /\ There("SYSGEN")
  <2>1. Answer(<<<<"DESTINATION_DRIVE">>>>) /\ prog' = "sysgen" /\ UNCHANGED <<dsk, faults>> BY <1>3 DEF Ccp
  <2>2. CcpDoes(<<<<"DESTINATION_DRIVE">>>>) BY <1>0, <1>w, <1>3, <2>1 DEF CcpDoes
  <2> QED BY <2>2
<1>4. CASE line[1] = "MLOAD" /\ There("MLOAD")
  <2>1. /\ Answer(<<<<"A>">>>>) /\ UNCHANGED prog
        /\ \/ dsk' = [dsk EXCEPT !.com = dsk.hex] /\ UNCHANGED faults
           \/ dsk.hex = "none" /\ UNCHANGED <<dsk, faults>>
           \/ faults < MaxFaults /\ faults' = faults + 1 /\ UNCHANGED dsk
    BY <1>4 DEF Ccp
  <2>2. CcpDoes(<<<<"A>">>>>) BY <1>0, <1>w, <1>4, <2>1 DEF CcpDoes
  <2> QED BY <2>2
<1>5. CASE line[1] = "CPM56" /\ dsk.com # "none"
  <2>1. Answer(<<IF dsk.com = "bad" THEN <<"FAIL">> ELSE <<"OK">>, <<"A>">> >>) /\ UNCHANGED <<prog, dsk, faults>>
    BY <1>5 DEF Ccp
  <2>2. CASE dsk.com = "bad"
    <3>1. Answer(<<<<"FAIL">>, <<"A>">>>>) BY <2>1, <2>2
    <3>2. CcpDoes(<<<<"FAIL">>, <<"A>">>>>) BY <1>0, <1>w, <1>5, <2>1, <3>1 DEF CcpDoes
    <3> QED BY <3>2
  <2>3. CASE dsk.com # "bad"
    <3>1. Answer(<<<<"OK">>, <<"A>">>>>) BY <2>1, <2>3
    <3>2. CcpDoes(<<<<"OK">>, <<"A>">>>>) BY <1>0, <1>w, <1>5, <2>1, <2>3, <3>1 DEF CcpDoes
    <3> QED BY <3>2
  <2> QED BY <2>2, <2>3
<1>6. CASE line[1] = "ERA"
  <2>1. Answer(<<<<"A>">>>>) /\ dsk' = [dsk EXCEPT !.saved = <<>>] /\ UNCHANGED <<prog, faults>> BY <1>6 DEF Ccp
  <2>2. CcpDoes(<<<<"A>">>>>) BY <1>0, <1>w, <1>6, <2>1 DEF CcpDoes
  <2> QED BY <2>2
<1>7. CASE line[1] = "SAVE"
  <2>1. /\ Answer(<<<<"A>">>>>) /\ UNCHANGED prog
        /\ \/ dsk' = [dsk EXCEPT !.saved = tpa] /\ UNCHANGED faults
           \/ faults < MaxFaults /\ faults' = faults + 1 /\ UNCHANGED dsk
    BY <1>7 DEF Ccp
  <2>2. CcpDoes(<<<<"A>">>>>) BY <1>0, <1>w, <1>7, <2>1 DEF CcpDoes
  <2> QED BY <2>2
<1>8. CASE /\ ~(line[1] = "DDT" /\ There("DDT")) /\ ~(line[1] = "PIP" /\ There("PIP"))
           /\ ~(line[1] = "SYSGEN" /\ There("SYSGEN")) /\ ~(line[1] = "MLOAD" /\ There("MLOAD"))
           /\ ~(line[1] = "CPM56" /\ dsk.com # "none") /\ line[1] # "ERA" /\ line[1] # "SAVE"
  <2>1. Answer(<<<<"A>">>>>) /\ UNCHANGED <<prog, dsk, faults>> BY <1>8 DEF Ccp
  <2>2. CcpDoes(<<<<"A>">>>>) BY <1>0, <1>w, <1>8, <2>1 DEF CcpDoes
  <2> QED BY <2>2
<1> QED BY <1>1, <1>2, <1>3, <1>4, <1>5, <1>6, <1>7, <1>8

\* What SYSGEN does with a line.
SysgenDoes(toks) ==
    /\ keys # <<>> /\ Answer(toks) /\ toks \in Seq(Tokens)
    /\ UNCHANGED <<script, port, pc, seen, addr, tpa, dsk, missing, ran, unsure, rc, faults>>
    /\ \/ /\ prog = "sysgen" /\ tracks' = tracks
          /\ \/ toks = <<<<"DESTINATION_ON_A">>>> /\ prog' = "sysgen_on_A"
             \/ toks = <<<<"A>">>>> /\ prog' = "ccp"
       \/ /\ prog = "sysgen_on_A" /\ tracks' = dsk.com /\ prog' = "sysgen"
          /\ toks = <<<<"FUNCTION_COMPLETE">>, <<"DESTINATION_DRIVE">>>>

\* SYSGEN does one of these.
LEMMA SysgenCases == ASSUME Sysgen PROVE \E toks : SysgenDoes(toks)
<1>w. /\ <<<<"A>">>>> \in Seq(Tokens) /\ <<<<"DESTINATION_ON_A">>>> \in Seq(Tokens)
      /\ <<<<"FUNCTION_COMPLETE">>, <<"DESTINATION_DRIVE">>>> \in Seq(Tokens)
  BY Texts DEF AwaitedTexts
<1>0. keys # <<>> /\ UNCHANGED <<script, port, pc, seen, addr, tpa, dsk, missing, ran, unsure, rc, faults>> BY DEF Sysgen
<1>1. CASE /\ prog = "sysgen" /\ UNCHANGED tracks
           /\ Answer(<<<<"DESTINATION_ON_A">>>>) /\ prog' = "sysgen_on_A"
  <2>1. SysgenDoes(<<<<"DESTINATION_ON_A">>>>) BY <1>w, <1>0, <1>1 DEF SysgenDoes
  <2> QED BY <2>1
<1>2. CASE prog = "sysgen" /\ UNCHANGED tracks /\ Answer(<<<<"A>">>>>) /\ prog' = "ccp"
  <2>1. SysgenDoes(<<<<"A>">>>>) BY <1>w, <1>0, <1>2 DEF SysgenDoes
  <2> QED BY <2>1
<1>3. CASE /\ prog = "sysgen_on_A" /\ Answer(<<<<"FUNCTION_COMPLETE">>, <<"DESTINATION_DRIVE">>>>)
           /\ prog' = "sysgen" /\ tracks' = dsk.com
  <2>1. SysgenDoes(<<<<"FUNCTION_COMPLETE">>, <<"DESTINATION_DRIVE">>>>) BY <1>w, <1>0, <1>3 DEF SysgenDoes
  <2> QED BY <2>1
<1> QED BY <1>1, <1>2, <1>3 DEF Sysgen

\* What DDT shows of memory.
LEMMA DumpIs ==
  ASSUME ScriptsAre, script \in ScriptNames
  PROVE  /\ Append(Dump, <<"-">>) \in Seq(Tokens) /\ Dump \in Seq(Tokens) /\ Len(Dump) = N
         /\ \A i \in 1 .. N : Dump[i] = <<"at", i - 1, tpa[i]>>
<1>1. N \in Nat /\ tpa \in [1 .. N -> MemBytes] BY ProgramSize DEF ScriptsAre
<1>2. \A i \in 1 .. N : <<"at", i - 1, tpa[i]>> \in Tokens
  <2> TAKE i \in 1 .. N
  <2>1. i - 1 \in 0 .. N /\ tpa[i] \in MemBytes BY <1>1
  <2> QED BY <2>1 DEF Tokens
<1>3. Dump \in Seq(Tokens) /\ Len(Dump) = N BY <1>1, <1>2 DEF Dump
<1>4. <<"-">> \in Tokens BY Texts DEF AwaitedTexts
<1>5. Append(Dump, <<"-">>) \in Seq(Tokens) BY <1>3, <1>4, AppendProperties
<1>6. \A i \in 1 .. N : Dump[i] = <<"at", i - 1, tpa[i]>> BY DEF Dump
<1> QED BY <1>3, <1>5, <1>6

\* What DDT does with a line.
DdtDoes(toks) ==
    /\ prog = "ddt" /\ keys # <<>> /\ Answer(toks) /\ toks \in Seq(Tokens)
    /\ UNCHANGED <<script, port, pc, seen, tpa, dsk, tracks, missing, unsure, rc, faults>>
    /\ \/ Head(keys)[1] = "S" /\ toks = <<<<"at", 0, tpa[1]>>>> /\ prog' = "set" /\ addr' = 0 /\ ran' = ran
       \/ Head(keys)[1] = "D" /\ toks = Append(Dump, <<"-">>) /\ prog' = "ddt" /\ addr' = addr /\ ran' = ran
       \/ Head(keys)[1] = "G0" /\ toks = <<<<"A>">>>> /\ prog' = "ccp" /\ addr' = addr /\ ran' = ran
       \/ Head(keys)[1] = "G100" /\ toks = <<<<"A>">>>> /\ prog' = "ccp" /\ addr' = addr /\ ran' = tpa
       \/ /\ toks = <<<<"?">>, <<"-">>>> /\ prog' = "ddt" /\ addr' = addr /\ ran' = ran
          /\ Head(keys)[1] \notin {"S", "D", "G0", "G100"}

\* DDT does one of these.
LEMMA DdtCases == ASSUME ScriptsAre, Ddt PROVE \E toks : DdtDoes(toks)
<1> DEFINE line == Head(keys)
<1>0. prog = "ddt" /\ keys # <<>> /\ UNCHANGED <<script, port, pc, seen, tpa, dsk, tracks, missing, unsure, rc, faults>>
  BY DEF Ddt
<1>s. script \in ScriptNames BY <1>0 DEF ScriptsAre
<1>w. <<<<"A>">>>> \in Seq(Tokens) /\ <<<<"?">>, <<"-">>>> \in Seq(Tokens) BY Texts DEF AwaitedTexts
<1>a. <<<<"at", 0, tpa[1]>>>> \in Seq(Tokens)
  <2>1. N \in Nat /\ N >= 1 /\ tpa \in [1 .. N -> MemBytes] BY <1>s, ProgramSize DEF ScriptsAre
  <2>2. <<"at", 0, tpa[1]>> \in Tokens BY <2>1 DEF Tokens
  <2> QED BY <2>2
<1>1. CASE line[1] = "S"
  <2>1. Answer(<<<<"at", 0, tpa[1]>>>>) /\ prog' = "set" /\ addr' = 0 /\ UNCHANGED ran BY <1>1 DEF Ddt
  <2>2. DdtDoes(<<<<"at", 0, tpa[1]>>>>) BY <1>0, <1>a, <1>1, <2>1 DEF DdtDoes
  <2> QED BY <2>2
<1>2. CASE line[1] = "D"
  <2>1. Answer(Append(Dump, <<"-">>)) /\ UNCHANGED <<prog, addr, ran>> BY <1>2 DEF Ddt
  <2>2. DdtDoes(Append(Dump, <<"-">>)) BY <1>0, <1>s, <1>2, <2>1, DumpIs DEF DdtDoes
  <2> QED BY <2>2
<1>3. CASE line[1] = "G0"
  <2>1. Answer(<<<<"A>">>>>) /\ prog' = "ccp" /\ UNCHANGED <<addr, ran>> BY <1>3 DEF Ddt
  <2>2. DdtDoes(<<<<"A>">>>>) BY <1>0, <1>w, <1>3, <2>1 DEF DdtDoes
  <2> QED BY <2>2
<1>4. CASE line[1] = "G100"
  <2>1. Answer(<<<<"A>">>>>) /\ prog' = "ccp" /\ ran' = tpa /\ UNCHANGED addr BY <1>4 DEF Ddt
  <2>2. DdtDoes(<<<<"A>">>>>) BY <1>0, <1>w, <1>4, <2>1 DEF DdtDoes
  <2> QED BY <2>2
<1>5. CASE line[1] \notin {"S", "D", "G0", "G100"}
  <2>1. Answer(<<<<"?">>, <<"-">>>>) /\ UNCHANGED <<prog, addr, ran>> BY <1>5 DEF Ddt
  <2>2. DdtDoes(<<<<"?">>, <<"-">>>>) BY <1>0, <1>w, <1>5, <2>1 DEF DdtDoes
  <2> QED BY <2>2
<1> QED BY <1>1, <1>2, <1>3, <1>4, <1>5

\* What the S command does with a line.
SetDoes(toks) ==
    /\ prog = "set" /\ keys # <<>> /\ Answer(toks) /\ toks \in Seq(Tokens)
    /\ UNCHANGED <<script, port, pc, seen, dsk, tracks, missing, ran, unsure, rc, faults>>
    /\ \/ /\ Head(keys)[1] = "byte" /\ prog' = "set"
          /\ tpa' = IF addr + 1 <= N THEN [tpa EXCEPT ![addr + 1] = Head(keys)[2]] ELSE tpa
          /\ addr' = IF addr + 1 <= N THEN addr + 1 ELSE N
          /\ \E b : toks = <<<<"at", addr', b>>>>
       \/ /\ Head(keys)[1] # "byte" /\ prog' = "ddt" /\ tpa' = tpa /\ addr' = addr
          /\ toks = <<<<"-">>>> \/ toks = <<<<"?">>, <<"-">>>>

\* The S command does one of these.
LEMMA SetCases == ASSUME ScriptsAre, Set PROVE \E toks : SetDoes(toks)
<1> DEFINE line == Head(keys)
           next == addr + 1
<1>0. prog = "set" /\ keys # <<>> /\ UNCHANGED <<script, port, pc, seen, dsk, tracks, missing, ran, unsure, rc, faults>>
  BY DEF Set
<1>s. script \in ScriptNames BY <1>0 DEF ScriptsAre
<1>w. <<<<"-">>>> \in Seq(Tokens) /\ <<<<"?">>, <<"-">>>> \in Seq(Tokens) BY Texts DEF AwaitedTexts
<1>1. CASE line[1] = "byte"
  <2> DEFINE b == IF next < N THEN tpa[next + 1] ELSE 0
             a == IF next <= N THEN next ELSE N
  <2>1. /\ tpa' = IF next <= N THEN [tpa EXCEPT ![next] = line[2]] ELSE tpa
        /\ Answer(<<<<"at", a, b>>>>) /\ addr' = a /\ UNCHANGED prog
    BY <1>1 DEF Set
  <2>2. N \in Nat /\ tpa \in [1 .. N -> MemBytes] /\ addr \in 0 .. N BY <1>s, ProgramSize DEF ScriptsAre
  <2>3. a \in 0 .. N BY <2>2
  <2>4. b \in MemBytes
    <3>1. CASE next < N
      <4>1. next + 1 \in 1 .. N BY <3>1, <2>2
      <4> QED BY <3>1, <4>1, <2>2
    <3>2. CASE ~(next < N) BY <3>2 DEF MemBytes
    <3> QED BY <3>1, <3>2
  <2> HIDE DEF a, b
  <2>5. <<"at", a, b>> \in Tokens BY <2>3, <2>4 DEF Tokens
  <2>6. <<<<"at", a, b>>>> \in Seq(Tokens) BY <2>5
  <2>7. addr' = IF addr + 1 <= N THEN addr + 1 ELSE N BY <2>1 DEF a
  <2>8. SetDoes(<<<<"at", a, b>>>>)
    <3>1. \E c : <<<<"at", a, b>>>> = <<<<"at", addr', c>>>> BY <2>1
    <3> QED BY <1>0, <1>1, <2>1, <2>6, <2>7, <3>1 DEF SetDoes
  <2> QED BY <2>8
<1>2. CASE line[1] # "byte"
  <2>1. /\ Answer(IF line[1] = "." THEN <<<<"-">>>> ELSE <<<<"?">>, <<"-">>>>) /\ prog' = "ddt"
        /\ UNCHANGED <<tpa, addr>>
    BY <1>2 DEF Set
  <2>2. CASE Answer(<<<<"-">>>>)
    <3>1. SetDoes(<<<<"-">>>>) BY <1>0, <1>w, <1>2, <2>1, <2>2 DEF SetDoes
    <3> QED BY <3>1
  <2>3. CASE Answer(<<<<"?">>, <<"-">>>>)
    <3>1. SetDoes(<<<<"?">>, <<"-">>>>) BY <1>0, <1>w, <1>2, <2>1, <2>3 DEF SetDoes
    <3> QED BY <3>1
  <2> QED BY <2>1, <2>2, <2>3
<1> QED BY <1>1, <1>2

\* What an answer changes of the shape.
LEMMA AnswerKeepsType ==
  ASSUME ScriptsAre, NEW toks \in Seq(Tokens), keys # <<>>, Answer(toks),
         UNCHANGED <<script, port, pc, seen, missing, unsure, rc>>,
         faults' \in 0 .. MaxFaults, prog' \in {"ccp", "pip", "sysgen", "sysgen_on_A", "ddt", "set"},
         addr' \in 0 .. N, tpa' \in [1 .. N -> MemBytes], tracks' \in Systems \cup {"boot"},
         \E h \in Systems, c \in Systems : \E v : dsk' = [hex |-> h, com |-> c, saved |-> v]
  PROVE  ScriptsAre'
<1>1. out' \in Seq(Tokens) /\ keys' \in Seq(TypedBy) /\ script \in ScriptNames BY AnswerIs
<1>2. Steps' = Steps /\ TypedBy' = TypedBy BY SameScript
<1>3. keys' \in Seq(TypedBy') BY <1>1, <1>2
<1>4. script' \in ScriptNames /\ script' # "none" BY <1>1 DEF ScriptNames
<1> QED BY <1>1, <1>2, <1>3, <1>4 DEF ScriptsAre

\* CCP keeps the shape of the state.
LEMMA CcpKeepsType == ASSUME ScriptsAre, Ccp PROVE ScriptsAre'
<1>1. PICK toks : CcpDoes(toks) BY CcpCases
<1>2. script \in ScriptNames BY <1>1 DEF CcpDoes, ScriptsAre
<1>3. faults' \in 0 .. MaxFaults
  <2>1. faults' = faults \/ (faults < MaxFaults /\ faults' = faults + 1) BY <1>1 DEF CcpDoes
  <2>2. faults \in 0 .. MaxFaults BY DEF ScriptsAre
  <2> QED BY <2>1, <2>2, ScriptSizes
<1>4. prog' = "ccp" \/ prog' = "pip" \/ prog' = "sysgen" \/ prog' = "ddt" BY <1>1 DEF CcpDoes
<1>5. \E h \in Systems, c \in Systems : \E v : dsk' = [hex |-> h, com |-> c, saved |-> v]
  <2>0. PICK h \in Systems, c \in Systems : \E v : dsk = [hex |-> h, com |-> c, saved |-> v] BY DEF ScriptsAre
  <2>1. PICK v : dsk = [hex |-> h, com |-> c, saved |-> v] BY <2>0
  <2>2. dsk' = dsk \/ dsk' = [dsk EXCEPT !.com = dsk.hex] \/ \E w : dsk' = [dsk EXCEPT !.saved = w] BY <1>1 DEF CcpDoes
  <2>3. CASE dsk' = dsk BY <2>1, <2>3
  <2>4. CASE dsk' = [dsk EXCEPT !.com = dsk.hex]
    <3>1. dsk' = [hex |-> h, com |-> h, saved |-> v] BY <2>1, <2>4
    <3> QED BY <3>1
  <2>5. CASE \E w : dsk' = [dsk EXCEPT !.saved = w]
    <3>1. PICK w : dsk' = [dsk EXCEPT !.saved = w] BY <2>5
    <3>2. dsk' = [hex |-> h, com |-> c, saved |-> w] BY <2>1, <3>1
    <3> QED BY <3>2
  <2> QED BY <2>2, <2>3, <2>4, <2>5
<1>6. /\ keys # <<>> /\ Answer(toks) /\ toks \in Seq(Tokens)
      /\ UNCHANGED <<script, port, pc, seen, missing, unsure, rc>> /\ UNCHANGED <<addr, tpa, tracks>>
  BY <1>1 DEF CcpDoes
<1>7. addr' \in 0 .. N /\ tpa' \in [1 .. N -> MemBytes] /\ tracks' \in Systems \cup {"boot"} BY <1>2, <1>6 DEF ScriptsAre
<1> QED BY <1>3, <1>4, <1>5, <1>6, <1>7, AnswerKeepsType

\* SYSGEN keeps the shape of the state.
LEMMA SysgenKeepsType == ASSUME ScriptsAre, Sysgen PROVE ScriptsAre'
<1>1. PICK toks : SysgenDoes(toks) BY SysgenCases
<1>2. script \in ScriptNames BY <1>1 DEF SysgenDoes, ScriptsAre
<1>3. prog' \in {"ccp", "sysgen", "sysgen_on_A"} BY <1>1 DEF SysgenDoes
<1>4. /\ keys # <<>> /\ Answer(toks) /\ toks \in Seq(Tokens)
      /\ UNCHANGED <<script, port, pc, seen, missing, unsure, rc>> /\ UNCHANGED <<addr, tpa, dsk, faults>>
  BY <1>1 DEF SysgenDoes
<1>5. \E h \in Systems, c \in Systems : \E v : dsk = [hex |-> h, com |-> c, saved |-> v] BY DEF ScriptsAre
<1>6. dsk.com \in Systems BY <1>5
<1>7. tracks' \in Systems \cup {"boot"} BY <1>1, <1>6 DEF SysgenDoes, ScriptsAre
<1>8. addr' \in 0 .. N /\ tpa' \in [1 .. N -> MemBytes] /\ faults' \in 0 .. MaxFaults BY <1>2, <1>4 DEF ScriptsAre
<1>9. \E h \in Systems, c \in Systems : \E v : dsk' = [hex |-> h, com |-> c, saved |-> v] BY <1>4, <1>5
<1> QED BY <1>3, <1>4, <1>7, <1>8, <1>9, AnswerKeepsType

\* DDT keeps the shape of the state.
LEMMA DdtKeepsType == ASSUME ScriptsAre, Ddt PROVE ScriptsAre'
<1>1. PICK toks : DdtDoes(toks) BY DdtCases
<1>2. script \in ScriptNames BY <1>1 DEF DdtDoes, ScriptsAre
<1>3. prog' \in {"ccp", "ddt", "set"} BY <1>1 DEF DdtDoes
<1>4. /\ keys # <<>> /\ Answer(toks) /\ toks \in Seq(Tokens)
      /\ UNCHANGED <<script, port, pc, seen, missing, unsure, rc>> /\ UNCHANGED <<tpa, dsk, tracks, faults>>
  BY <1>1 DEF DdtDoes
<1>5. N \in Nat /\ addr \in 0 .. N BY ProgramSize DEF ScriptsAre
<1>6. addr' \in 0 .. N BY <1>1, <1>5 DEF DdtDoes
<1>7. tpa' \in [1 .. N -> MemBytes] /\ faults' \in 0 .. MaxFaults /\ tracks' \in Systems \cup {"boot"}
  BY <1>2, <1>4 DEF ScriptsAre
<1>8. \E h \in Systems, c \in Systems : \E v : dsk' = [hex |-> h, com |-> c, saved |-> v] BY <1>4 DEF ScriptsAre
<1> QED BY <1>3, <1>4, <1>6, <1>7, <1>8, AnswerKeepsType

\* DDT's S command keeps the shape of the state.
LEMMA SetKeepsType == ASSUME ScriptsAre, Set PROVE ScriptsAre'
<1>1. PICK toks : SetDoes(toks) BY SetCases
<1>2. script \in ScriptNames BY <1>1 DEF SetDoes, ScriptsAre
<1>3. prog' \in {"ddt", "set"} BY <1>1 DEF SetDoes
<1>4. /\ keys # <<>> /\ Answer(toks) /\ toks \in Seq(Tokens)
      /\ UNCHANGED <<script, port, pc, seen, missing, unsure, rc>> /\ UNCHANGED <<dsk, tracks, faults>>
  BY <1>1 DEF SetDoes
<1>5. N \in Nat /\ addr \in 0 .. N /\ tpa \in [1 .. N -> MemBytes] BY <1>2, ProgramSize DEF ScriptsAre
<1>6. addr' \in 0 .. N BY <1>1, <1>5 DEF SetDoes
<1>7. tpa' \in [1 .. N -> MemBytes]
  <2>1. Head(keys) \in TypedLines BY <1>4, AnswerIs DEF TypedBy
  <2>2. Head(keys)[1] = "byte" => Head(keys)[2] \in 0 .. 255 BY <2>1 DEF TypedLines, TypedWords
  <2>3. CASE tpa' = tpa BY <2>3, <1>5
  <2>4. CASE Head(keys)[1] = "byte" /\ addr + 1 <= N /\ tpa' = [tpa EXCEPT ![addr + 1] = Head(keys)[2]]
    <3>1. Head(keys)[2] \in MemBytes BY <2>2, <2>4 DEF MemBytes
    <3> QED BY <3>1, <2>4, <1>5
  <2> QED BY <1>1, <2>3, <2>4 DEF SetDoes
<1>8. faults' \in 0 .. MaxFaults /\ tracks' \in Systems \cup {"boot"} BY <1>4 DEF ScriptsAre
<1>9. \E h \in Systems, c \in Systems : \E v : dsk' = [hex |-> h, com |-> c, saved |-> v] BY <1>4 DEF ScriptsAre
<1> QED BY <1>3, <1>4, <1>6, <1>7, <1>8, <1>9, AnswerKeepsType

\* PIP keeps the shape of the state.
LEMMA PipKeepsType == ASSUME ScriptsAre, Pip PROVE ScriptsAre'
<1>0. PICK h \in Systems, c \in Systems : \E v : dsk = [hex |-> h, com |-> c, saved |-> v] BY DEF ScriptsAre
<1>1. PICK v : dsk = [hex |-> h, com |-> c, saved |-> v] BY <1>0
<1>2. port[1] \in Systems BY DEF Pip, ScriptsAre, Systems
<1>3. dsk' = [hex |-> port[1], com |-> c, saved |-> v] BY <1>1 DEF Pip
<1>4. \E h2 \in Systems, c2 \in Systems : \E v2 : dsk' = [hex |-> h2, com |-> c2, saved |-> v2] BY <1>1, <1>2, <1>3
<1>5. <<"A>">> \in Tokens BY Texts DEF AwaitedTexts
<1>6. out' \in Seq(Tokens) BY <1>5, AppendProperties DEF Pip, ScriptsAre
<1>7. UNCHANGED script /\ script # "none" BY DEF Pip, ScriptsAre
<1>8. Steps' = Steps /\ TypedBy' = TypedBy BY <1>7, SameScript
<1> QED BY <1>4, <1>6, <1>7, <1>8 DEF Pip, ScriptsAre

\* A step of the script itself: what it may change.
LEMMA ScriptKeepsType ==
  ASSUME ScriptsAre, Running, UNCHANGED <<script, prog, addr, tpa, dsk, tracks, missing, ran>>,
         pc' \in {pc, pc + 1}, rc' \in {-1} \cup 0 .. 5, rc' = -1 => pc' \in 1 .. Len(Steps),
         seen' \in Seq(Tokens), out' \in Seq(Tokens), keys' \in Seq(TypedBy),
         port' \in {<<>>, <<"new">>, <<"bad">>}, unsure' \in BOOLEAN, faults' \in 0 .. MaxFaults
  PROVE  ScriptsAre'
<1>1. script \in ScriptNames BY StepIs
<1>2. Steps' = Steps /\ TypedBy' = TypedBy BY SameScript
<1>3. keys' \in Seq(TypedBy') BY <1>2
<1>4. pc' \in Nat BY DEF ScriptsAre
<1>5. script' \in ScriptNames /\ script' # "none" BY <1>1 DEF ScriptNames
<1>6. rc' \in -1 .. 5 OBVIOUS
<1>7. rc' = -1 => pc' \in 1 .. Len(Steps') BY <1>2
<1> QED BY <1>2, <1>3, <1>4, <1>5, <1>6, <1>7 DEF ScriptsAre

\* A sequence cut in two.
LEMMA CutInTwo ==
  ASSUME NEW S, NEW s \in Seq(S), NEW k \in 0 .. Len(s)
  PROVE  /\ SubSeq(s, 1, k) \in Seq(S) /\ SubSeq(s, k + 1, Len(s)) \in Seq(S)
         /\ s = SubSeq(s, 1, k) \o SubSeq(s, k + 1, Len(s))
<1> DEFINE n == Len(s)
           a == SubSeq(s, 1, k)
           b == SubSeq(s, k + 1, n)
<1>0. n \in Nat /\ k \in Nat BY LenProperties
<1>1. a \in Seq(S) /\ Len(a) = k /\ \A i \in 1 .. k : a[i] = s[i]
  <2>1. \A i \in 1 .. k : s[i] \in S BY <1>0
  <2> QED BY <1>0, <2>1
<1>2. b \in Seq(S) /\ Len(b) = n - k /\ \A i \in 1 .. n - k : b[i] = s[k + i]
  <2>1. \A i \in k + 1 .. n : s[i] \in S BY <1>0
  <2> QED BY <1>0, <2>1
<1> HIDE DEF a, b
<1>3. /\ a \o b \in Seq(S) /\ Len(a \o b) = Len(a) + Len(b)
      /\ \A i \in 1 .. Len(a) + Len(b) : (a \o b)[i] = IF i <= Len(a) THEN a[i] ELSE b[i - Len(a)]
  BY <1>1, <1>2, ConcatProperties
<1> DEFINE c == a \o b
<1>4. c \in Seq(S) /\ Len(c) = n /\ \A i \in 1 .. n : c[i] = IF i <= k THEN a[i] ELSE b[i - k] BY <1>0, <1>1, <1>2, <1>3
<1> HIDE DEF c
<1>5. \A i \in 1 .. n : c[i] = s[i]
  <2> TAKE i \in 1 .. n
  <2>1. CASE i <= k BY <2>1, <1>0, <1>1, <1>4
  <2>2. CASE i > k
    <3>1. i - k \in 1 .. n - k /\ k + (i - k) = i BY <2>2, <1>0
    <3> QED BY <2>2, <3>1, <1>0, <1>2, <1>4
  <2> QED BY <2>1, <2>2, <1>0
<1>6. c = s BY <1>0, <1>4, <1>5, SeqEqual
<1> QED BY <1>1, <1>2, <1>6 DEF a, b, c

\* What is read of the text on its way.
LEMMA Pieces ==
  ASSUME ScriptsAre, NEW k \in 0 .. Len(out)
  PROVE  /\ SubSeq(out, 1, k) \in Seq(Tokens) /\ SubSeq(out, k + 1, Len(out)) \in Seq(Tokens)
         /\ seen \o SubSeq(out, 1, k) \in Seq(Tokens) /\ Len(out) \in Nat
         /\ out = SubSeq(out, 1, k) \o SubSeq(out, k + 1, Len(out))
<1>1. out \in Seq(Tokens) /\ seen \in Seq(Tokens) BY DEF ScriptsAre
<1>2. Len(out) \in Nat BY <1>1, LenProperties
<1>3. /\ SubSeq(out, 1, k) \in Seq(Tokens) /\ SubSeq(out, k + 1, Len(out)) \in Seq(Tokens)
      /\ out = SubSeq(out, 1, k) \o SubSeq(out, k + 1, Len(out))
  BY <1>1, <1>2, CutInTwo
<1>5. seen \o SubSeq(out, 1, k) \in Seq(Tokens)
  <2> DEFINE w == SubSeq(out, 1, k)
  <2>1. w \in Seq(Tokens) BY <1>3
  <2> HIDE DEF w
  <2>2. seen \o w \in Seq(Tokens) BY <1>1, <2>1, ConcatProperties
  <2> QED BY <2>2 DEF w
<1> QED BY <1>2, <1>3, <1>5

\* The wait for the trigger keeps the shape of the state.
LEMMA TriggerKeepsType == ASSUME ScriptsAre, AwaitTrigger PROVE ScriptsAre'
<1>1. /\ Running /\ UNCHANGED <<script, prog, addr, tpa, dsk, tracks, missing, ran>>
      /\ UNCHANGED <<port, keys, unsure, faults>>
  BY DEF AwaitTrigger
<1>2. /\ pc \in 1 .. Len(Steps) /\ StatusAt(pc + 1) \in {-1, 0}
      /\ StatusAt(pc + 1) = -1 => pc + 1 \in 1 .. Len(Steps)
  BY <1>1, StepIs
<1>3. /\ port' \in {<<>>, <<"new">>, <<"bad">>} /\ keys' \in Seq(TypedBy) /\ unsure' \in BOOLEAN /\ faults' \in 0 .. MaxFaults
      /\ seen \in Seq(Tokens) /\ out \in Seq(Tokens)
  BY <1>1 DEF ScriptsAre
<1>4. CASE Goto(pc + 1) /\ out' = <<>>
  <2>1. pc' = pc + 1 /\ seen' = <<>> /\ rc' = StatusAt(pc + 1) BY <1>4 DEF Goto
  <2>2. seen' \in Seq(Tokens) /\ out' \in Seq(Tokens) BY <1>4, <2>1, EmptySeq
  <2> QED BY <1>1, <1>2, <1>3, <2>1, <2>2, ScriptKeepsType
<1>5. CASE rc' = 2 /\ UNCHANGED <<pc, seen, out>>
  BY <1>1, <1>3, <1>5, ScriptKeepsType
<1> QED BY <1>4, <1>5 DEF AwaitTrigger

\* Typing a line keeps the shape of the state.
LEMMA SendKeepsType == ASSUME ScriptsAre, Send PROVE ScriptsAre' /\ Step.line \in TypedBy
<1>1. /\ Running /\ Step.do = "type" /\ UNCHANGED <<script, prog, addr, tpa, dsk, tracks, missing, ran>>
      /\ UNCHANGED <<port, out, unsure, faults>> /\ keys' = Append(keys, Step.line)
      /\ pc' = pc + 1 /\ seen' = <<>> /\ rc' = StatusAt(pc + 1)
  BY DEF Send, Goto
<1>2. /\ pc \in 1 .. Len(Steps) /\ StatusAt(pc + 1) \in {-1, 0} /\ Step \in ScriptSteps /\ script \in ScriptNames
      /\ StatusAt(pc + 1) = -1 => pc + 1 \in 1 .. Len(Steps)
  BY <1>1, StepIs
<1>3. Step.line \in TypedBy
  <2>1. Step.line \in TypedLines BY <1>1, <1>2, StepKinds
  <2>2. (Step.line[1] = "SYSGEN" => script = "deploy") /\ (Step.line[1] = "G100" => script = "fix")
    BY <1>1, <1>2, TypedHere DEF Step
  <2> QED BY <2>1, <2>2 DEF TypedBy
<1>4. keys' \in Seq(TypedBy)
  <2>1. keys \in Seq(TypedBy) BY DEF ScriptsAre
  <2> QED BY <1>1, <1>3, <2>1, AppendProperties
<1>5. /\ port' \in {<<>>, <<"new">>, <<"bad">>} /\ unsure' \in BOOLEAN /\ faults' \in 0 .. MaxFaults /\ out' \in Seq(Tokens)
  BY <1>1 DEF ScriptsAre
<1>6. seen' \in Seq(Tokens) BY <1>1, EmptySeq
<1>7. ScriptsAre' BY <1>1, <1>2, <1>4, <1>5, <1>6, ScriptKeepsType
<1> QED BY <1>3, <1>7

\* The HEX file keeps the shape of the state.
LEMMA DataKeepsType == ASSUME ScriptsAre, SendData PROVE ScriptsAre'
<1>1. /\ Running /\ UNCHANGED <<script, prog, addr, tpa, dsk, tracks, missing, ran>>
      /\ UNCHANGED <<out, keys, unsure>> /\ port' \in {<<"new">>, <<"bad">>}
      /\ faults' = faults \/ (faults < MaxFaults /\ faults' = faults + 1)
      /\ pc' = pc + 1 /\ seen' = <<>> /\ rc' = StatusAt(pc + 1)
  BY DEF SendData, Goto
<1>2. /\ pc \in 1 .. Len(Steps) /\ StatusAt(pc + 1) \in {-1, 0}
      /\ StatusAt(pc + 1) = -1 => pc + 1 \in 1 .. Len(Steps)
  BY <1>1, StepIs
<1>3. keys' \in Seq(TypedBy) /\ unsure' \in BOOLEAN /\ out' \in Seq(Tokens) /\ port' \in {<<>>, <<"new">>, <<"bad">>}
  BY <1>1 DEF ScriptsAre
<1>4. faults' \in 0 .. MaxFaults BY <1>1, ScriptSizes DEF ScriptsAre
<1>5. seen' \in Seq(Tokens) BY <1>1, EmptySeq
<1> QED BY <1>1, <1>2, <1>3, <1>4, <1>5, ScriptKeepsType

\* Reading text keeps the shape of the state.
LEMMA ReceiveKeepsType == ASSUME ScriptsAre, NEW k \in 1 .. Len(out), Receive(k) PROVE ScriptsAre'
<1>1. Running /\ UNCHANGED <<script, prog, addr, tpa, dsk, tracks, missing, ran>> /\ UNCHANGED <<port, keys, unsure, faults>>
  BY DEF Receive
<1>2. /\ pc \in 1 .. Len(Steps) /\ StatusAt(pc + 1) \in {-1, 0}
      /\ StatusAt(pc + 1) = -1 => pc + 1 \in 1 .. Len(Steps)
  BY <1>1, StepIs
<1>3. /\ port' \in {<<>>, <<"new">>, <<"bad">>} /\ keys' \in Seq(TypedBy) /\ unsure' \in BOOLEAN /\ faults' \in 0 .. MaxFaults
  BY <1>1 DEF ScriptsAre
<1> DEFINE text == seen \o SubSeq(out, 1, k)
           rest == SubSeq(out, k + 1, Len(out))
<1>k. k \in 0 .. Len(out) BY LenProperties DEF ScriptsAre
<1>4. text \in Seq(Tokens) /\ rest \in Seq(Tokens) BY <1>k, Pieces
<1>5. <<<<"BLANK">>>> \o rest \in Seq(Tokens)
  <2>1. <<<<"BLANK">>>> \in Seq(Tokens) BY Texts DEF AwaitedTexts
  <2> HIDE DEF rest
  <2> QED BY <1>4, <2>1, ConcatProperties
<1>6. <<>> \in Seq(Tokens) BY EmptySeq
<1>7. CASE Found(text)
  <2>1. /\ out' = rest \/ out' = <<<<"BLANK">>>> \o rest
        /\ pc' = pc + 1 /\ rc' = StatusAt(pc + 1) /\ (seen' = text \/ seen' = <<>>)
    BY <1>7 DEF Receive
  <2> HIDE DEF text, rest
  <2>2. out' \in Seq(Tokens) /\ seen' \in Seq(Tokens) BY <1>4, <1>5, <1>6, <2>1
  <2> QED BY <1>1, <1>2, <1>3, <2>1, <2>2, ScriptKeepsType
<1>8. CASE ~Found(text)
  <2>1. out' = rest /\ seen' = text /\ UNCHANGED <<pc, rc>> BY <1>8 DEF Receive
  <2> HIDE DEF text, rest
  <2>2. rc' = -1 /\ pc' = pc BY <1>1, <2>1 DEF Running
  <2> QED BY <1>1, <1>2, <1>3, <1>4, <2>1, <2>2, ScriptKeepsType
<1> QED BY <1>7, <1>8

\* A wait that runs out keeps the shape of the state.
LEMMA ExpireKeepsType == ASSUME ScriptsAre, Expire PROVE ScriptsAre'
<1>1. /\ Running /\ Step.do = "await" /\ UNCHANGED <<script, prog, addr, tpa, dsk, tracks, missing, ran>>
      /\ UNCHANGED <<port, keys, out>> /\ (faults' = faults \/ (faults < MaxFaults /\ faults' = faults + 1))
      /\ pc' = pc + 1 /\ rc' = (IF Step.miss > 0 THEN Step.miss ELSE StatusAt(pc + 1))
      /\ seen' = seen \/ seen' = <<>>
      /\ unsure' = (unsure \/ Step.miss = -2)
  BY DEF Expire
<1>2. /\ pc \in 1 .. Len(Steps) /\ StatusAt(pc + 1) \in {-1, 0} /\ Step \in ScriptSteps
      /\ StatusAt(pc + 1) = -1 => pc + 1 \in 1 .. Len(Steps)
  BY <1>1, StepIs
<1>3. Step.miss \in -2 .. 5 BY <1>1, <1>2, StepKinds
<1>4. rc' \in {-1} \cup 0 .. 5 /\ (rc' = -1 => pc' \in 1 .. Len(Steps)) BY <1>1, <1>2, <1>3
<1>5. /\ port' \in {<<>>, <<"new">>, <<"bad">>} /\ keys' \in Seq(TypedBy) /\ out' \in Seq(Tokens) BY <1>1 DEF ScriptsAre
<1>6. faults' \in 0 .. MaxFaults BY <1>1, ScriptSizes DEF ScriptsAre
<1>7. unsure' \in BOOLEAN BY <1>1
<1>8. seen' \in Seq(Tokens) BY <1>1, EmptySeq DEF ScriptsAre
<1> QED BY <1>1, <1>4, <1>5, <1>6, <1>7, <1>8, ScriptKeepsType

\* The comparison of the dump keeps the shape of the state.
LEMMA VerifyKeepsType == ASSUME ScriptsAre, NEW k \in 0 .. Len(out), Verify(k) PROVE ScriptsAre'
<1>1. /\ Running /\ UNCHANGED <<script, prog, addr, tpa, dsk, tracks, missing, ran>> /\ UNCHANGED <<port, unsure, faults>>
      /\ out' = SubSeq(out, k + 1, Len(out))
  BY DEF Verify
<1>2. /\ pc \in 1 .. Len(Steps) /\ StatusAt(pc + 1) \in {-1, 0}
      /\ StatusAt(pc + 1) = -1 => pc + 1 \in 1 .. Len(Steps)
  BY <1>1, StepIs
<1>3. out' \in Seq(Tokens) BY <1>1, Pieces
<1>4. /\ port' \in {<<>>, <<"new">>, <<"bad">>} /\ keys \in Seq(TypedBy) /\ unsure' \in BOOLEAN /\ faults' \in 0 .. MaxFaults
  BY <1>1 DEF ScriptsAre
<1>5. seen' = <<>> BY DEF Verify, Goto
<1>6. seen' \in Seq(Tokens) BY <1>5, EmptySeq
<1>7. \/ pc' = pc + 1 /\ rc' = StatusAt(pc + 1) /\ keys' = keys
      \/ rc' = 2 /\ keys' = Append(keys, <<"G0">>) /\ pc' = pc
  BY DEF Verify, Goto
<1>8. <<"G0">> \in TypedBy BY DEF TypedBy, TypedLines, TypedWords
<1>9. keys' \in Seq(TypedBy)
  <2>1. Append(keys, <<"G0">>) \in Seq(TypedBy) BY <1>4, <1>8, AppendProperties
  <2> QED BY <1>4, <1>7, <2>1
<1> QED BY <1>1, <1>2, <1>3, <1>4, <1>6, <1>7, <1>9, ScriptKeepsType

\* A lost line keeps the shape of the state.
LEMMA LossKeepsType == ASSUME ScriptsAre, LoseLine \/ DropByte PROVE ScriptsAre'
<1>1. /\ faults < MaxFaults /\ faults' = faults + 1 /\ keys # <<>>
      /\ UNCHANGED <<script, port, pc, seen, out, prog, addr, tpa, dsk, tracks, missing, ran, unsure, rc>>
      /\ keys' = Tail(keys) \/ keys' = <<<<"byte", 0>>>> \o Tail(keys)
  BY DEF LoseLine, DropByte
<1>2. keys \in Seq(TypedBy) BY DEF ScriptsAre
<1>3. Tail(keys) \in Seq(TypedBy) BY <1>1, <1>2, HeadTailProperties
<1>4. <<"byte", 0>> \in TypedBy BY DEF TypedBy, TypedLines
<1>5. <<<<"byte", 0>>>> \in Seq(TypedBy) BY <1>4
<1>6. keys' \in Seq(TypedBy)
  <2> DEFINE w == <<<<"byte", 0>>>>
             t == Tail(keys)
  <2>1. w \in Seq(TypedBy) /\ t \in Seq(TypedBy) BY <1>3, <1>5
  <2> HIDE DEF w, t
  <2>2. w \o t \in Seq(TypedBy) BY <2>1, ConcatProperties
  <2> QED BY <1>1, <2>1, <2>2 DEF w, t
<1>7. Steps' = Steps /\ TypedBy' = TypedBy BY <1>1, SameScript
<1>8. faults' \in 0 .. MaxFaults BY <1>1, ScriptSizes DEF ScriptsAre
<1>9. script # "none" BY <1>1 DEF ScriptsAre
<1>10. keys' \in Seq(TypedBy') BY <1>6, <1>7
<1> QED BY <1>1, <1>7, <1>8, <1>9, <1>10 DEF ScriptsAre

\* A machine that goes away keeps the shape of the state.
LEMMA VanishKeepsType == ASSUME ScriptsAre, Vanish PROVE ScriptsAre'
<1>1. /\ Running /\ faults < MaxFaults /\ faults' = faults + 1 /\ prog' = "gone"
      /\ UNCHANGED <<script, port, pc, seen, out, keys, addr, tpa, dsk, tracks, missing, ran, unsure, rc>>
  BY DEF Vanish
<1>2. Steps' = Steps /\ TypedBy' = TypedBy BY <1>1, SameScript
<1>3. faults' \in 0 .. MaxFaults BY <1>1, ScriptSizes DEF ScriptsAre
<1>4. script \in ScriptNames /\ script # "none" BY <1>1, StepIs DEF ScriptNames
<1>5. keys' \in Seq(TypedBy') BY <1>1, <1>2 DEF ScriptsAre
<1> QED BY <1>1, <1>2, <1>3, <1>4, <1>5 DEF ScriptsAre

\* A connection that breaks keeps the shape of the state.
LEMMA AbortKeepsType == ASSUME ScriptsAre, Abort PROVE ScriptsAre'
<1>1. /\ Running /\ rc' = 1
      /\ UNCHANGED <<script, pc, seen, out, keys, port, prog, addr, tpa, dsk, tracks, missing, ran, unsure, faults>>
  BY DEF Abort
<1>2. /\ port' \in {<<>>, <<"new">>, <<"bad">>} /\ keys' \in Seq(TypedBy) /\ unsure' \in BOOLEAN /\ faults' \in 0 .. MaxFaults
      /\ seen' \in Seq(Tokens) /\ out' \in Seq(Tokens)
  BY <1>1 DEF ScriptsAre
<1> QED BY <1>1, <1>2, ScriptKeepsType

\* The shape is kept.
LEMMA ScriptsKeepType == ASSUME ScriptsAre, [ScriptsNext]_scriptVars PROVE ScriptsAre'
<1>1. CASE ScriptsNext
  <2>1. CASE AwaitTrigger BY <2>1, TriggerKeepsType
  <2>2. CASE Send BY <2>2, SendKeepsType
  <2>3. CASE SendData BY <2>3, DataKeepsType
  <2>4. CASE \E k \in 1 .. Len(out) : Receive(k) BY <2>4, ReceiveKeepsType
  <2>5. CASE Expire BY <2>5, ExpireKeepsType
  <2>6. CASE \E k \in 0 .. Len(out) : Verify(k) BY <2>6, VerifyKeepsType
  <2>7. CASE Ccp BY <2>7, CcpKeepsType
  <2>8. CASE Pip BY <2>8, PipKeepsType
  <2>9. CASE Sysgen BY <2>9, SysgenKeepsType
  <2>10. CASE Ddt BY <2>10, DdtKeepsType
  <2>11. CASE Set BY <2>11, SetKeepsType
  <2>12. CASE LoseLine \/ DropByte BY <2>12, LossKeepsType
  <2>13. CASE Vanish BY <2>13, VanishKeepsType
  <2>14. CASE Abort BY <2>14, AbortKeepsType
  <2> QED BY <1>1, <2>1, <2>2, <2>3, <2>4, <2>5, <2>6, <2>7, <2>8, <2>9, <2>10, <2>11, <2>12, <2>13, <2>14 DEF ScriptsNext
<1>2. CASE UNCHANGED scriptVars
  <2>1. UNCHANGED <<script, pc, seen, out, keys, port, prog, addr, tpa, dsk, tracks, missing, ran, unsure, rc, faults>>
    BY <1>2 DEF scriptVars
  <2>2. Steps' = Steps /\ TypedBy' = TypedBy BY <2>1, SameScript
  <2> QED BY <2>1, <2>2 DEF ScriptsAre
<1> QED BY <1>1, <1>2

\* The state has its shape at the start.
LEMMA ScriptsStart == ASSUME ScriptsInit \/ ScriptsIdle PROVE ScriptsAre
<1>n. N \in Nat /\ N >= 1 /\ MaxFaults \in Nat BY ProgramSize, ScriptSizes
<1>1. CASE ScriptsIdle
  <2>1. dsk = [hex |-> "none", com |-> "none", saved |-> <<>>] BY <1>1 DEF ScriptsIdle
  <2>2. "none" \in Systems /\ "none" \notin ScriptNames BY DEF Systems, ScriptNames
  <2>3. keys \in Seq(TypedBy) /\ out \in Seq(Tokens) /\ seen \in Seq(Tokens) BY <1>1, EmptySeq DEF ScriptsIdle
  <2>4. \E h \in Systems, c \in Systems : \E v : dsk = [hex |-> h, com |-> c, saved |-> v] BY <2>1, <2>2
  <2>5. /\ script = "none" /\ pc = 0 /\ rc = 0 /\ faults = 0 /\ unsure = FALSE /\ port = <<>> /\ tracks = "boot" /\ prog = "ccp"
        /\ addr = 0 /\ keys = <<>>
    BY <1>1 DEF ScriptsIdle
  <2>6. pc \in Nat /\ rc \in -1 .. 5 /\ rc # -1 /\ faults \in 0 .. MaxFaults /\ addr \in 0 .. N BY <1>n, <2>5
  <2>7. unsure \in BOOLEAN BY <2>5
  <2>8. script \in ScriptNames \cup {"none"} /\ script \notin ScriptNames BY <2>2, <2>5
  <2> QED BY <2>3, <2>4, <2>5, <2>6, <2>7, <2>8 DEF ScriptsAre
<1>2. CASE ScriptsInit
  <2>1. script \in ScriptNames /\ pc = 1 /\ rc = -1 BY <1>2 DEF ScriptsInit, ScriptNames
  <2>2. Len(Steps) >= 1 /\ Len(Steps) \in Nat
    <3>1. CASE script = "deploy"
      <4>1. Len(Steps) = 14 BY <3>1, StepsAre, DeployForm
      <4> QED BY <4>1
    <3>2. CASE script = "ddt" BY <3>2, <1>n, StepsAre, DdtForm
    <3>3. CASE script = "ddt_run" BY <3>3, <1>n, StepsAre, DdtRunForm
    <3>4. CASE script = "fix" BY <3>4, <1>n, StepsAre, FixForm
    <3>5. CASE script = "console"
      <4>1. Len(Steps) = 7 BY <3>5, StepsAre, ConsoleForm
      <4> QED BY <4>1
    <3> QED BY <2>1, <3>1, <3>2, <3>3, <3>4, <3>5 DEF ScriptNames
  <2>3. PICK old \in {"none", "old"} : dsk = [hex |-> old, com |-> old, saved |-> <<>>] BY <1>2 DEF ScriptsInit
  <2>4. old \in Systems /\ "none" \notin ScriptNames BY DEF Systems, ScriptNames
  <2>5. <<<<"A>">>>> \in Seq(Tokens) BY Texts DEF AwaitedTexts
  <2>6. keys \in Seq(TypedBy) /\ out \in Seq(Tokens) /\ seen \in Seq(Tokens) BY <1>2, <2>5, EmptySeq DEF ScriptsInit
  <2>7. tpa \in [1 .. N -> MemBytes] BY <1>2 DEF ScriptsInit, MemBytes
  <2>8. script # "none" BY <2>1 DEF ScriptNames
  <2>9. \E h \in Systems, c \in Systems : \E v : dsk = [hex |-> h, com |-> c, saved |-> v] BY <2>3, <2>4
  <2>10. /\ faults = 0 /\ unsure = FALSE /\ port = <<>> /\ tracks = "boot" /\ prog = "ccp" /\ addr = 0 /\ keys = <<>>
    BY <1>2 DEF ScriptsInit
  <2>11. pc \in 1 .. Len(Steps) BY <2>1, <2>2
  <2>12. pc \in Nat /\ rc \in -1 .. 5 /\ faults \in 0 .. MaxFaults /\ addr \in 0 .. N BY <1>n, <2>1, <2>10
  <2>13. unsure \in BOOLEAN BY <2>10
  <2> QED BY <2>1, <2>6, <2>7, <2>8, <2>9, <2>10, <2>11, <2>12, <2>13 DEF ScriptsAre
<1> QED BY <1>1, <1>2

\* The state has its type.
LEMMA ScriptsTyped == ASSUME ScriptsAre PROVE ScriptsTypeOK
<1>1. dsk.com \in Systems BY DEF ScriptsAre
<1> QED BY <1>1 DEF ScriptsAre, ScriptsTypeOK, Systems, Running

-----------------------------------------------------------------------------
(* A machine that has gone is one of the faults.                              *)

GoneIsFault == prog = "gone" => faults # 0

\* Nothing brings it back or takes a fault away.
LEMMA StillGone == ASSUME ScriptsAre, GoneIsFault, [ScriptsNext]_scriptVars PROVE GoneIsFault'
<1>0. faults \in Nat BY ScriptSizes DEF ScriptsAre
<1>1. ASSUME UNCHANGED prog, faults' = faults \/ faults' = faults + 1 PROVE GoneIsFault' BY <1>0, <1>1 DEF GoneIsFault
<1>2. CASE AwaitTrigger BY <1>1, <1>2 DEF AwaitTrigger
<1>3. CASE Send BY <1>1, <1>3 DEF Send
<1>4. CASE SendData BY <1>1, <1>4 DEF SendData
<1>5. CASE \E k \in 1 .. Len(out) : Receive(k) BY <1>1, <1>5 DEF Receive
<1>6. CASE Expire BY <1>1, <1>6 DEF Expire
<1>7. CASE \E k \in 0 .. Len(out) : Verify(k) BY <1>1, <1>7 DEF Verify
<1>8. CASE Abort BY <1>1, <1>8 DEF Abort
<1>9. CASE Ccp
  <2>1. PICK toks : CcpDoes(toks) BY <1>9, CcpCases
  <2>2. prog' # "gone" BY <2>1 DEF CcpDoes
  <2> QED BY <2>2 DEF GoneIsFault
<1>10. CASE Pip BY <1>10 DEF Pip, GoneIsFault
<1>11. CASE Sysgen
  <2>1. PICK toks : SysgenDoes(toks) BY <1>11, SysgenCases
  <2>2. prog' # "gone" BY <2>1 DEF SysgenDoes
  <2> QED BY <2>2 DEF GoneIsFault
<1>12. CASE Ddt
  <2>1. PICK toks : DdtDoes(toks) BY <1>12, DdtCases
  <2>2. prog' # "gone" BY <2>1 DEF DdtDoes
  <2> QED BY <2>2 DEF GoneIsFault
<1>13. CASE Set
  <2>1. PICK toks : SetDoes(toks) BY <1>13, SetCases
  <2>2. prog' # "gone" BY <2>1 DEF SetDoes
  <2> QED BY <2>2 DEF GoneIsFault
<1>14. CASE LoseLine \/ DropByte BY <1>1, <1>14 DEF LoseLine, DropByte
<1>15. CASE Vanish BY <1>0, <1>15 DEF Vanish, GoneIsFault
<1>16. CASE UNCHANGED scriptVars BY <1>1, <1>16 DEF scriptVars
<1> QED BY <1>2, <1>3, <1>4, <1>5, <1>6, <1>7, <1>8, <1>9, <1>10, <1>11, <1>12, <1>13, <1>14, <1>15, <1>16 DEF ScriptsNext

-----------------------------------------------------------------------------
(* BrokenSystemWarned: the new system is loaded before its sum is printed and *)
(* its sum is printed before SYSGEN is started.                               *)

\* Text s has the piece x in it.
HasText(s, x) == \E i \in 1 .. Len(s) : s[i] = x
\* A line with command w is on its way.
Waiting(w) == \E i \in 1 .. Len(keys) : keys[i][1] = w
\* The checksum program's OK is on its way or has been read.
OkShown == HasText(seen, <<"OK">>) \/ HasText(out, <<"OK">>)

\* In the deployment: an OK is one for a sound system that nothing will replace, and without a
\* warning SYSGEN is typed only behind such an OK.
DeployWarned ==
    /\ pc <= 5 => ~Waiting("MLOAD")
    /\ pc <= 7 => ~Waiting("CPM56") /\ ~OkShown
    /\ pc <= 9 => ~Waiting("SYSGEN") /\ prog \notin {"sysgen", "sysgen_on_A"} /\ tracks = "boot"
    /\ \A i, j \in 1 .. Len(keys) : keys[i][1] = "MLOAD" /\ keys[j][1] = "CPM56" => i < j
    /\ OkShown => dsk.com # "bad" /\ ~Waiting("MLOAD")
    /\ pc >= 9 /\ ~unsure => dsk.com # "bad" /\ ~Waiting("MLOAD")
    /\ tracks = "bad" => unsure
\* Only the deployment runs SYSGEN.
Warned ==
    /\ script = "deploy" => DeployWarned
    /\ script # "deploy" => tracks = "boot" /\ prog \notin {"sysgen", "sysgen_on_A"}

\* Text joined has what its parts have.
LEMMA HasTextConcat ==
  ASSUME NEW S, NEW s \in Seq(S), NEW t \in Seq(S), NEW x
  PROVE  HasText(s \o t, x) <=> HasText(s, x) \/ HasText(t, x)
<1>0. Len(s) \in Nat /\ Len(t) \in Nat BY LenProperties
<1>1. /\ Len(s \o t) = Len(s) + Len(t)
      /\ \A i \in 1 .. Len(s) : (s \o t)[i] = s[i]
      /\ \A i \in 1 .. Len(t) : (s \o t)[Len(s) + i] = t[i]
  BY StepsJoin
<1> DEFINE u == s \o t
           m == Len(s)
           n == Len(t)
<1>2. /\ m \in Nat /\ n \in Nat /\ Len(u) = m + n /\ Len(s) = m /\ Len(t) = n
      /\ \A i \in 1 .. m : u[i] = s[i] /\ \A j \in 1 .. n : u[m + j] = t[j]
  BY <1>0, <1>1
<1> HIDE DEF u, m, n
<1>3. ASSUME HasText(s, x) PROVE HasText(u, x)
  <2>1. PICK i \in 1 .. m : s[i] = x BY <1>2, <1>3 DEF HasText
  <2>2. i \in 1 .. Len(u) /\ u[i] = x BY <2>1, <1>2
  <2> QED BY <2>2 DEF HasText
<1>4. ASSUME HasText(t, x) PROVE HasText(u, x)
  <2>1. PICK j \in 1 .. n : t[j] = x BY <1>2, <1>4 DEF HasText
  <2>2. m + j \in 1 .. Len(u) /\ u[m + j] = x BY <2>1, <1>0, <1>1 DEF u, m, n
  <2> QED BY <2>2 DEF HasText
<1>5. ASSUME HasText(u, x) PROVE HasText(s, x) \/ HasText(t, x)
  <2>1. PICK i \in 1 .. m + n : u[i] = x BY <1>2, <1>5 DEF HasText
  <2>2. CASE i <= m
    <3>1. i \in 1 .. Len(s) /\ s[i] = x BY <2>1, <2>2, <1>0, <1>1 DEF u, m, n
    <3> QED BY <3>1 DEF HasText
  <2>3. CASE i > m
    <3>1. i - m \in 1 .. Len(t) /\ m + (i - m) = i BY <2>1, <2>3, <1>2
    <3>2. t[i - m] = x BY <2>1, <3>1, <1>1 DEF u, m, n
    <3> QED BY <3>1, <3>2 DEF HasText
  <2> QED BY <2>1, <2>2, <2>3, <1>2
<1> QED BY <1>3, <1>4, <1>5 DEF u

\* Text of no piece, of one and of two.
LEMMA HasTextShort ==
  ASSUME NEW x
  PROVE  /\ ~HasText(<<>>, x)
         /\ \A a : HasText(<<a>>, x) <=> a = x
         /\ \A a, b : HasText(<<a, b>>, x) <=> a = x \/ b = x
<1>1. ~HasText(<<>>, x) BY EmptySeq DEF HasText
<1>2. ASSUME NEW a PROVE HasText(<<a>>, x) <=> a = x
  <2>1. Len(<<a>>) = 1 /\ <<a>>[1] = a OBVIOUS
  <2> QED BY <2>1 DEF HasText
<1>3. ASSUME NEW a, NEW b PROVE HasText(<<a, b>>, x) <=> a = x \/ b = x
  <2>1. Len(<<a, b>>) = 2 /\ <<a, b>>[1] = a /\ <<a, b>>[2] = b OBVIOUS
  <2> QED BY <2>1 DEF HasText
<1> QED BY <1>1, <1>2, <1>3

\* An answer adds its text and the echo of its line.
LEMMA AnswerAdds ==
  ASSUME ScriptsAre, NEW toks \in Seq(Tokens), keys # <<>>, Answer(toks), NEW w
  PROVE  HasText(out', <<w>>) => HasText(out, <<w>>) \/ HasText(toks, <<w>>)
<1> DEFINE e == <<<<"echo", Head(keys)>>>>
           x == <<w>>
<1>1. out' = (out \o e) \o toks /\ e \in Seq(Tokens) /\ out \in Seq(Tokens) BY AnswerIs DEF ScriptsAre
<1>2. ~HasText(e, x)
  <2>1. <<"echo", Head(keys)>> # <<w>> OBVIOUS
  <2> QED BY <2>1, HasTextShort
<1> HIDE DEF e, x
<1>3. out \o e \in Seq(Tokens) BY <1>1, ConcatProperties
<1>4. HasText((out \o e) \o toks, x) <=> HasText(out \o e, x) \/ HasText(toks, x) BY <1>3, HasTextConcat
<1>5. HasText(out \o e, x) <=> HasText(out, x) \/ HasText(e, x) BY <1>1, HasTextConcat
<1>6. HasText(out', x) => HasText(out, x) \/ HasText(toks, x) BY <1>1, <1>2, <1>4, <1>5
<1> QED BY <1>6 DEF x

\* An answer adds its text, and its line is gone.
LEMMA AnswerShows ==
  ASSUME ScriptsAre, NEW toks \in Seq(Tokens), keys # <<>>, Answer(toks), UNCHANGED seen
  PROVE  /\ OkShown' => OkShown \/ HasText(toks, <<"OK">>)
         /\ \A w : Waiting(w)' => Waiting(w)
         /\ Waiting(Head(keys)[1])
<1>1. /\ Head(keys) = keys[1] /\ Len(keys) \in Nat /\ Len(keys) >= 1 /\ Len(keys') = Len(keys) - 1
      /\ \A i \in 1 .. Len(keys') : keys'[i] = keys[i + 1]
  BY AnswerIs
<1> DEFINE ok == <<"OK">>
<1>6. HasText(out', ok) => HasText(out, ok) \/ HasText(toks, ok) BY AnswerAdds
<1> HIDE DEF ok
<1>7. OkShown' => OkShown \/ HasText(toks, <<"OK">>)
  <2>1. OkShown' <=> HasText(seen, ok) \/ HasText(out', ok) BY DEF OkShown, ok, HasText
  <2>2. OkShown <=> HasText(seen, ok) \/ HasText(out, ok) BY DEF OkShown, ok
  <2> QED BY <1>6, <2>1, <2>2 DEF ok
<1>8. ASSUME NEW w, Waiting(w)' PROVE Waiting(w)
  <2>1. PICK i \in 1 .. Len(keys') : keys'[i][1] = w BY <1>8 DEF Waiting
  <2>2. i + 1 \in 1 .. Len(keys) /\ keys[i + 1][1] = w BY <1>1, <2>1
  <2> QED BY <2>2 DEF Waiting
<1>9. Waiting(Head(keys)[1])
  <2>1. 1 \in 1 .. Len(keys) BY <1>1
  <2> QED BY <1>1, <2>1 DEF Waiting
<1> QED BY <1>7, <1>8, <1>9

\* A line that is answered leaves the order of the others.
LEMMA AnswerOrder ==
  ASSUME ScriptsAre, NEW toks \in Seq(Tokens), keys # <<>>, Answer(toks),
         \A i, j \in 1 .. Len(keys) : keys[i][1] = "MLOAD" /\ keys[j][1] = "CPM56" => i < j
  PROVE  /\ \A i, j \in 1 .. Len(keys') : keys'[i][1] = "MLOAD" /\ keys'[j][1] = "CPM56" => i < j
         /\ Head(keys)[1] = "CPM56" => ~Waiting("MLOAD")'
<1>1. /\ Head(keys) = keys[1] /\ Len(keys) \in Nat /\ Len(keys) >= 1 /\ Len(keys') = Len(keys) - 1
      /\ \A i \in 1 .. Len(keys') : keys'[i] = keys[i + 1]
  BY AnswerIs
<1>2. ASSUME NEW i \in 1 .. Len(keys'), NEW j \in 1 .. Len(keys'), keys'[i][1] = "MLOAD", keys'[j][1] = "CPM56" PROVE i < j
  <2>1. i + 1 \in 1 .. Len(keys) /\ j + 1 \in 1 .. Len(keys) BY <1>1
  <2>2. keys[i + 1][1] = "MLOAD" /\ keys[j + 1][1] = "CPM56" BY <1>1, <1>2
  <2>3. i + 1 < j + 1 BY <2>1, <2>2
  <2> QED BY <2>3, <1>1
<1>3. ASSUME Head(keys)[1] = "CPM56", Waiting("MLOAD")' PROVE FALSE
  <2>1. PICK i \in 1 .. Len(keys') : keys'[i][1] = "MLOAD" BY <1>3 DEF Waiting
  <2>2. i + 1 \in 1 .. Len(keys) /\ 1 \in 1 .. Len(keys) /\ keys[i + 1][1] = "MLOAD" BY <1>1, <2>1
  <2>3. i + 1 < 1 BY <2>2, <1>1, <1>3
  <2> QED BY <2>3, <1>1
<1> QED BY <1>2, <1>3

\* CCP keeps Warned.
LEMMA CcpWarned == ASSUME ScriptsAre, Warned, Ccp PROVE Warned'
<1>1. PICK toks : CcpDoes(toks) BY CcpCases
<1>2. /\ prog = "ccp" /\ keys # <<>> /\ Answer(toks) /\ toks \in Seq(Tokens)
      /\ script' = script /\ pc' = pc /\ seen' = seen /\ tracks' = tracks /\ unsure' = unsure
  BY <1>1 DEF CcpDoes
<1>3. /\ OkShown' => OkShown \/ HasText(toks, <<"OK">>)
      /\ \A w : Waiting(w)' => Waiting(w)
      /\ Waiting(Head(keys)[1]) /\ Head(keys) \in TypedBy
  BY <1>2, AnswerShows, AnswerIs
<1>4. prog' \in {"sysgen", "sysgen_on_A"} => Head(keys)[1] = "SYSGEN" BY <1>1 DEF CcpDoes
<1>5. HasText(toks, <<"OK">>) => Head(keys)[1] = "CPM56" /\ dsk.com # "bad" /\ dsk' = dsk
  <2>1. \/ toks \in {<<<<"-">>>>, <<>>, <<<<"DESTINATION_DRIVE">>>>, <<<<"A>">>>>, <<<<"FAIL">>, <<"A>">>>>}
        \/ Head(keys)[1] = "CPM56" /\ dsk.com # "bad" /\ dsk' = dsk
    BY <1>1 DEF CcpDoes
  <2>2. /\ ~HasText(<<<<"-">>>>, <<"OK">>) /\ ~HasText(<<>>, <<"OK">>) /\ ~HasText(<<<<"DESTINATION_DRIVE">>>>, <<"OK">>)
        /\ ~HasText(<<<<"A>">>>>, <<"OK">>) /\ ~HasText(<<<<"FAIL">>, <<"A>">>>>, <<"OK">>)
    <3>1. /\ <<"-">> # <<"OK">> /\ <<"DESTINATION_DRIVE">> # <<"OK">> /\ <<"A>">> # <<"OK">> /\ <<"FAIL">> # <<"OK">> OBVIOUS
    <3> QED BY <3>1, HasTextShort
  <2> QED BY <2>1, <2>2
<1>6. dsk'.com = dsk.com \/ Head(keys)[1] = "MLOAD"
  <2>1. dsk = [hex |-> dsk.hex, com |-> dsk.com, saved |-> dsk.saved] BY DEF ScriptsAre
  <2>2. dsk' = dsk \/ Head(keys)[1] = "MLOAD" \/ \E v : dsk' = [dsk EXCEPT !.saved = v] BY <1>1 DEF CcpDoes
  <2> QED BY <2>1, <2>2
<1>7. CASE script = "deploy"
  <2>0. DeployWarned BY <1>7 DEF Warned
  <2>1. pc' <= 5 => ~Waiting("MLOAD")' BY <1>2, <1>3, <2>0 DEF DeployWarned
  <2>2. pc' <= 7 => ~Waiting("CPM56")' /\ ~OkShown'
    BY <1>2, <1>3, <1>5, <2>0 DEF DeployWarned
  <2>3. pc' <= 9 => ~Waiting("SYSGEN")' /\ prog' \notin {"sysgen", "sysgen_on_A"} /\ tracks' = "boot"
    BY <1>2, <1>3, <1>4, <2>0 DEF DeployWarned
  <2>4. \A i, j \in 1 .. Len(keys') : keys'[i][1] = "MLOAD" /\ keys'[j][1] = "CPM56" => i < j
    BY <1>2, <2>0, AnswerOrder DEF DeployWarned
  <2>5. Head(keys)[1] = "CPM56" => ~Waiting("MLOAD")' BY <1>2, <2>0, AnswerOrder DEF DeployWarned
  <2>6. OkShown' => dsk'.com # "bad" /\ ~Waiting("MLOAD")' BY <1>3, <1>5, <1>6, <2>0, <2>5 DEF DeployWarned
  <2>7. pc' >= 9 /\ ~unsure' => dsk'.com # "bad" /\ ~Waiting("MLOAD")' BY <1>2, <1>3, <1>6, <2>0 DEF DeployWarned
  <2>8. tracks' = "bad" => unsure' BY <1>2, <2>0 DEF DeployWarned
  <2>9. DeployWarned' BY <2>1, <2>2, <2>3, <2>4, <2>6, <2>7, <2>8 DEF DeployWarned
  <2> QED BY <1>2, <1>7, <2>9 DEF Warned
<1>8. CASE script # "deploy"
  <2>1. Head(keys)[1] # "SYSGEN" BY <1>3, <1>8 DEF TypedBy
  <2> QED BY <1>2, <1>4, <1>8, <2>1 DEF Warned
<1> QED BY <1>7, <1>8

\* An answer of another program than CCP, that does not touch the tracks.
LEMMA OtherAnswerWarned ==
  ASSUME ScriptsAre, Warned, NEW toks \in Seq(Tokens), keys # <<>>, Answer(toks), ~HasText(toks, <<"OK">>),
         UNCHANGED <<script, pc, seen, dsk, unsure>>,
         tracks' = tracks \/ (prog = "sysgen_on_A" /\ tracks' = dsk.com),
         prog \in {"sysgen", "sysgen_on_A"} \/ prog' \notin {"sysgen", "sysgen_on_A"}
  PROVE  Warned'
<1>3. (OkShown' => OkShown) /\ \A w : Waiting(w)' => Waiting(w)
  BY AnswerShows
<1>7. CASE script = "deploy"
  <2>0. DeployWarned BY <1>7 DEF Warned
  <2>t. pc \in Nat BY DEF ScriptsAre
  <2>1. pc' <= 5 => ~Waiting("MLOAD")' BY <1>3, <2>0 DEF DeployWarned
  <2>2. pc' <= 7 => ~Waiting("CPM56")' /\ ~OkShown' BY <1>3, <2>0 DEF DeployWarned
  <2>3. pc' <= 9 => ~Waiting("SYSGEN")' /\ prog' \notin {"sysgen", "sysgen_on_A"} /\ tracks' = "boot"
    BY <1>3, <2>0 DEF DeployWarned
  <2>4. \A i, j \in 1 .. Len(keys') : keys'[i][1] = "MLOAD" /\ keys'[j][1] = "CPM56" => i < j
    BY <2>0, AnswerOrder DEF DeployWarned
  <2>6. OkShown' => dsk'.com # "bad" /\ ~Waiting("MLOAD")' BY <1>3, <2>0 DEF DeployWarned
  <2>7. pc' >= 9 /\ ~unsure' => dsk'.com # "bad" /\ ~Waiting("MLOAD")' BY <1>3, <2>0 DEF DeployWarned
  <2>8. tracks' = "bad" => unsure' BY <2>0, <2>t DEF DeployWarned
  <2>9. DeployWarned' BY <2>1, <2>2, <2>3, <2>4, <2>6, <2>7, <2>8 DEF DeployWarned
  <2> QED BY <1>7, <2>9 DEF Warned
<1>8. CASE script # "deploy" BY <1>8 DEF Warned
<1> QED BY <1>7, <1>8

\* Answers without an OK.
LEMMA NoOk ==
  /\ ~HasText(<<<<"DESTINATION_ON_A">>>>, <<"OK">>) /\ ~HasText(<<<<"A>">>>>, <<"OK">>) /\ ~HasText(<<<<"-">>>>, <<"OK">>)
  /\ ~HasText(<<<<"FUNCTION_COMPLETE">>, <<"DESTINATION_DRIVE">>>>, <<"OK">>) /\ ~HasText(<<<<"?">>, <<"-">>>>, <<"OK">>)
  /\ \A a, b : ~HasText(<<<<"at", a, b>>>>, <<"OK">>)
<1>1. /\ <<"DESTINATION_ON_A">> # <<"OK">> /\ <<"A>">> # <<"OK">> /\ <<"-">> # <<"OK">> /\ <<"?">> # <<"OK">>
      /\ <<"FUNCTION_COMPLETE">> # <<"OK">> /\ <<"DESTINATION_DRIVE">> # <<"OK">>
  OBVIOUS
<1>2. \A a, b : <<"at", a, b>> # <<"OK">> OBVIOUS
<1>3. \A a : HasText(<<a>>, <<"OK">>) <=> a = <<"OK">> BY HasTextShort
<1>4. \A a, b : HasText(<<a, b>>, <<"OK">>) <=> a = <<"OK">> \/ b = <<"OK">> BY HasTextShort
<1>5. /\ ~HasText(<<<<"DESTINATION_ON_A">>>>, <<"OK">>) /\ ~HasText(<<<<"A>">>>>, <<"OK">>)
      /\ ~HasText(<<<<"-">>>>, <<"OK">>) /\ \A a, b : ~HasText(<<<<"at", a, b>>>>, <<"OK">>)
  BY <1>1, <1>2, <1>3
<1>6. /\ ~HasText(<<<<"FUNCTION_COMPLETE">>, <<"DESTINATION_DRIVE">>>>, <<"OK">>) /\ ~HasText(<<<<"?">>, <<"-">>>>, <<"OK">>)
  BY <1>1, <1>4
<1> QED BY <1>5, <1>6

\* SYSGEN keeps Warned.
LEMMA SysgenWarned == ASSUME ScriptsAre, Warned, Sysgen PROVE Warned'
<1>1. PICK toks : SysgenDoes(toks) BY SysgenCases
<1>2. ~HasText(toks, <<"OK">>) BY <1>1, NoOk DEF SysgenDoes
<1> QED BY <1>1, <1>2, OtherAnswerWarned DEF SysgenDoes

\* DDT keeps Warned.
LEMMA DdtWarned == ASSUME ScriptsAre, Warned, Ddt PROVE Warned'
<1>1. PICK toks : DdtDoes(toks) BY DdtCases
<1>2. script \in ScriptNames BY <1>1 DEF DdtDoes, ScriptsAre
<1>3. ~HasText(Append(Dump, <<"-">>), <<"OK">>)
  <2>1. /\ N \in Nat /\ Dump \in Seq(Tokens) /\ Len(Dump) = N /\ <<"-">> \in Tokens
        /\ \A i \in 1 .. N : Dump[i] = <<"at", i - 1, tpa[i]>>
    BY <1>2, DumpIs, ProgramSize, Texts DEF AwaitedTexts
  <2>2. /\ Len(Append(Dump, <<"-">>)) = N + 1 /\ Append(Dump, <<"-">>)[N + 1] = <<"-">>
        /\ \A i \in 1 .. N : Append(Dump, <<"-">>)[i] = Dump[i]
    BY <2>1, Grown
  <2>3. \A i \in 1 .. N + 1 : Append(Dump, <<"-">>)[i] # <<"OK">>
    <3> TAKE i \in 1 .. N + 1
    <3>1. CASE i = N + 1 BY <3>1, <2>2
    <3>2. CASE i \in 1 .. N BY <3>2, <2>1, <2>2
    <3> QED BY <3>1, <3>2, <2>1
  <2> QED BY <2>2, <2>3 DEF HasText
<1>4. ~HasText(toks, <<"OK">>) BY <1>1, <1>3, NoOk DEF DdtDoes
<1> QED BY <1>1, <1>4, OtherAnswerWarned DEF DdtDoes

\* DDT's S command keeps Warned.
LEMMA SetWarned == ASSUME ScriptsAre, Warned, Set PROVE Warned'
<1>1. PICK toks : SetDoes(toks) BY SetCases
<1>2. ~HasText(toks, <<"OK">>) BY <1>1, NoOk DEF SetDoes
<1> QED BY <1>1, <1>2, OtherAnswerWarned DEF SetDoes

\* A step of a script, or a lost line, that shows nothing new.
LEMMA ScriptWarned ==
  ASSUME ScriptsAre, Warned, UNCHANGED <<script, prog, tracks>>, dsk'.com = dsk.com, OkShown' => OkShown, pc' \in {pc, pc + 1},
         unsure => unsure', unsure' \in BOOLEAN, script = "deploy" /\ pc = 8 /\ pc' = 9 => OkShown \/ unsure',
         NEW d \in Nat, \A i \in 1 .. Len(keys') : i + d \in 1 .. Len(keys) /\ keys'[i][1] = keys[i + d][1]
  PROVE  Warned'
<1>1. ASSUME NEW w, Waiting(w)' PROVE Waiting(w)
  <2>1. PICK i \in 1 .. Len(keys') : keys'[i][1] = w BY <1>1 DEF Waiting
  <2>2. i + d \in 1 .. Len(keys) /\ keys[i + d][1] = w BY <2>1
  <2> QED BY <2>2 DEF Waiting
<1>2. pc \in Nat /\ unsure \in BOOLEAN BY DEF ScriptsAre
<1>3. CASE script = "deploy"
  <2>0. DeployWarned BY <1>3 DEF Warned
  <2>1. pc' <= 5 => ~Waiting("MLOAD")' BY <1>1, <1>2, <2>0 DEF DeployWarned
  <2>2. pc' <= 7 => ~Waiting("CPM56")' /\ ~OkShown' BY <1>1, <1>2, <2>0 DEF DeployWarned
  <2>3. pc' <= 9 => ~Waiting("SYSGEN")' /\ prog' \notin {"sysgen", "sysgen_on_A"} /\ tracks' = "boot"
    BY <1>1, <1>2, <2>0 DEF DeployWarned
  <2>4. ASSUME NEW i \in 1 .. Len(keys'), NEW j \in 1 .. Len(keys'), keys'[i][1] = "MLOAD", keys'[j][1] = "CPM56" PROVE i < j
    <3>1. i + d \in 1 .. Len(keys) /\ j + d \in 1 .. Len(keys) /\ keys[i + d][1] = "MLOAD" /\ keys[j + d][1] = "CPM56"
      BY <2>4
    <3>2. i + d < j + d BY <2>0, <3>1 DEF DeployWarned
    <3>3. i \in Int /\ j \in Int OBVIOUS
    <3> QED BY <3>2, <3>3
  <2>6. OkShown' => dsk'.com # "bad" /\ ~Waiting("MLOAD")' BY <1>1, <2>0 DEF DeployWarned
  <2>7. pc' >= 9 /\ ~unsure' => dsk'.com # "bad" /\ ~Waiting("MLOAD")'
    <3>1. CASE pc >= 9 BY <3>1, <1>1, <2>0 DEF DeployWarned
    <3>2. CASE pc < 9
      <4>1. pc' >= 9 => pc = 8 /\ pc' = 9 BY <3>2, <1>2
      <4> QED BY <4>1, <1>1, <1>3, <2>0 DEF DeployWarned
    <3> QED BY <3>1, <3>2, <1>2
  <2>8. tracks' = "bad" => unsure' BY <2>0 DEF DeployWarned
  <2>9. DeployWarned' BY <2>1, <2>2, <2>3, <2>4, <2>6, <2>7, <2>8 DEF DeployWarned
  <2> QED BY <1>3, <2>9 DEF Warned
<1>4. CASE script # "deploy" BY <1>4 DEF Warned
<1> QED BY <1>3, <1>4

\* The lines are the same.
LEMMA SameKeys ==
  ASSUME ScriptsAre, UNCHANGED keys
  PROVE  \A i \in 1 .. Len(keys') : i + 0 \in 1 .. Len(keys) /\ keys'[i][1] = keys[i + 0][1]
<1>1. Len(keys) \in Nat BY LenProperties DEF ScriptsAre
<1> QED BY <1>1

\* PIP keeps Warned.
LEMMA PipWarned == ASSUME ScriptsAre, Warned, Pip PROVE Warned'
<1>1. dsk'.com = dsk.com BY DEF Pip, ScriptsAre
<1>2. OkShown' => OkShown
  <2> DEFINE x == <<<<"A>">>>>
  <2>0. out \in Seq(Tokens) /\ x \in Seq(Tokens) BY Texts DEF ScriptsAre, AwaitedTexts
  <2>1. out' = out \o x BY <2>0, AppendIsConcat DEF Pip
  <2>2. ~HasText(x, <<"OK">>) BY NoOk
  <2> HIDE DEF x
  <2>3. HasText(out', <<"OK">>) => HasText(out, <<"OK">>) BY <2>0, <2>1, <2>2, HasTextConcat
  <2>4. seen' = seen BY DEF Pip
  <2> QED BY <2>3, <2>4 DEF OkShown
<1>3. /\ UNCHANGED <<script, pc, keys, unsure, tracks, seen>> /\ prog' = "ccp" BY DEF Pip
<1>5. \A w : Waiting(w)' <=> Waiting(w) BY <1>3 DEF Waiting
<1>6. CASE script = "deploy"
  <2>0. DeployWarned BY <1>6 DEF Warned
  <2>1. DeployWarned' BY <1>1, <1>2, <1>3, <1>5, <2>0 DEF DeployWarned
  <2> QED BY <2>1, <1>6, <1>3 DEF Warned
<1>7. CASE script # "deploy" BY <1>3, <1>7 DEF Warned
<1> QED BY <1>6, <1>7

\* The steps of the deployment.
LEMMA DeploySteps ==
  ASSUME ScriptsAre, Running, script = "deploy"
  PROVE  /\ pc \in 1 .. 14 /\ Step = siob_deploy[pc] /\ Len(Steps) = 14 /\ Steps = siob_deploy
         /\ Step.do = "type" <=> pc \in {2, 5, 7, 9, 11, 13}
         /\ Step.do = "await" <=> pc \in {4, 6, 8, 10, 12, 14}
         /\ Step.do = "trigger" <=> pc = 1
         /\ Step.do = "data" <=> pc = 3
         /\ pc = 8 => Step.needle = <<"OK">> /\ Step.miss = -2
         /\ pc = 14 => Step.needle = <<"FUNCTION_COMPLETE">> /\ Step.miss = -2
<1>1. Steps = siob_deploy /\ Len(Steps) = 14 BY StepsAre, DeployForm
<1>2. pc \in 1 .. 14 BY <1>1, StepIs
<1>3. Step = siob_deploy[pc] BY <1>1 DEF Step
<1>4. pc \in 1 .. 7 \/ pc \in 8 .. 14 BY <1>2
<1>5. CASE pc \in 1 .. 7 BY <1>5, <1>1, <1>2, <1>3, DeployForm DEF Type, Await
<1>6. CASE pc \in 8 .. 14 BY <1>6, <1>1, <1>2, <1>3, DeployForm DEF Type, Await
<1> QED BY <1>4, <1>5, <1>6

\* The wait for the trigger keeps Warned.
LEMMA TriggerWarned == ASSUME ScriptsAre, Warned, AwaitTrigger PROVE Warned'
<1>1. Running /\ Step.do = "trigger" /\ UNCHANGED <<script, port, keys, prog, dsk, tracks, unsure>> BY DEF AwaitTrigger
<1>2. pc' \in {pc, pc + 1} /\ ((seen' = <<>> /\ out' = <<>>) \/ UNCHANGED <<seen, out>>) BY DEF AwaitTrigger, Goto
<1>3. OkShown' => OkShown BY <1>2, HasTextShort DEF OkShown
<1>4. unsure' \in BOOLEAN /\ pc \in Nat BY <1>1 DEF ScriptsAre
<1>5. ~(script = "deploy" /\ pc = 8 /\ pc' = 9) BY <1>1, DeploySteps
<1>6. \A i \in 1 .. Len(keys') : i + 0 \in 1 .. Len(keys) /\ keys'[i][1] = keys[i + 0][1] BY <1>1, SameKeys
<1>7. dsk'.com = dsk.com /\ 0 \in Nat BY <1>1
<1> QED BY <1>1, <1>2, <1>3, <1>4, <1>5, <1>6, <1>7, ScriptWarned

\* The HEX file keeps Warned.
LEMMA DataWarned == ASSUME ScriptsAre, Warned, SendData PROVE Warned'
<1>1. Running /\ Step.do = "data" /\ UNCHANGED <<script, out, keys, prog, dsk, tracks, unsure>> BY DEF SendData
<1>2. pc' = pc + 1 /\ seen' = <<>> BY DEF SendData, Goto
<1>3. OkShown' => OkShown BY <1>1, <1>2, HasTextShort DEF OkShown
<1>4. unsure' \in BOOLEAN /\ pc \in Nat BY <1>1 DEF ScriptsAre
<1>5. ~(script = "deploy" /\ pc = 8 /\ pc' = 9) BY <1>1, DeploySteps
<1>6. \A i \in 1 .. Len(keys') : i + 0 \in 1 .. Len(keys) /\ keys'[i][1] = keys[i + 0][1] BY <1>1, SameKeys
<1>7. dsk'.com = dsk.com /\ 0 \in Nat BY <1>1
<1> QED BY <1>1, <1>2, <1>3, <1>4, <1>5, <1>6, <1>7, ScriptWarned

\* A wait that runs out keeps Warned.
LEMMA ExpireWarned == ASSUME ScriptsAre, Warned, Expire PROVE Warned'
<1>1. Running /\ Step.do = "await" /\ UNCHANGED <<script, out, keys, prog, dsk, tracks>> BY DEF Expire
<1>2. pc' = pc + 1 /\ (seen' = <<>> \/ seen' = seen) /\ unsure' = (unsure \/ Step.miss = -2) BY DEF Expire
<1>3. OkShown' => OkShown BY <1>1, <1>2, HasTextShort DEF OkShown
<1>4. unsure' \in BOOLEAN /\ pc \in Nat BY <1>2 DEF ScriptsAre
<1>5. script = "deploy" /\ pc = 8 /\ pc' = 9 => unsure' BY <1>1, <1>2, DeploySteps
<1>6. \A i \in 1 .. Len(keys') : i + 0 \in 1 .. Len(keys) /\ keys'[i][1] = keys[i + 0][1] BY <1>1, SameKeys
<1>7. dsk'.com = dsk.com /\ 0 \in Nat /\ (unsure => unsure') BY <1>1, <1>2
<1> QED BY <1>1, <1>2, <1>3, <1>4, <1>5, <1>6, <1>7, ScriptWarned

\* A lost line keeps Warned.
LEMMA LossWarned == ASSUME ScriptsAre, Warned, LoseLine \/ DropByte PROVE Warned'
<1>1. /\ UNCHANGED <<script, prog, tracks, pc, unsure, dsk, seen, out>> /\ keys # <<>>
      /\ \/ keys' = Tail(keys)
         \/ Head(keys)[1] = "byte" /\ keys' = <<<<"byte", 0>>>> \o Tail(keys)
  BY DEF LoseLine, DropByte
<1>2. OkShown' => OkShown BY <1>1 DEF OkShown
<1>3. unsure' \in BOOLEAN /\ pc \in Nat /\ keys \in Seq(TypedBy) BY <1>1 DEF ScriptsAre
<1>4. /\ Tail(keys) \in Seq(TypedBy) /\ Len(keys) \in Nat /\ Len(keys) >= 1 /\ Head(keys) = keys[1]
      /\ Len(Tail(keys)) = Len(keys) - 1 /\ \A i \in 1 .. Len(Tail(keys)) : Tail(keys)[i] = keys[i + 1]
  <2>1. Len(keys) \in Nat /\ Len(keys) >= 1 BY <1>1, <1>3, EmptySeq
  <2> QED BY <1>1, <1>3, <2>1, HeadTailProperties
<1>5. ~(script = "deploy" /\ pc = 8 /\ pc' = 9) /\ dsk'.com = dsk.com /\ 0 \in Nat /\ 1 \in Nat BY <1>1
<1>6. CASE keys' = Tail(keys)
  <2>1. \A i \in 1 .. Len(keys') : i + 1 \in 1 .. Len(keys) /\ keys'[i][1] = keys[i + 1][1] BY <1>4, <1>6
  <2> QED BY <1>1, <1>2, <1>3, <1>5, <2>1, ScriptWarned
<1>7. CASE Head(keys)[1] = "byte" /\ keys' = <<<<"byte", 0>>>> \o Tail(keys)
  <2> DEFINE w == <<<<"byte", 0>>>>
             t == Tail(keys)
             u == w \o t
  <2>1. w \in Seq(TypedBy) /\ Len(w) = 1 /\ w[1][1] = "byte"
    <3>1. <<"byte", 0>> \in TypedBy /\ <<"byte", 0>>[1] = "byte" BY DEF TypedBy, TypedLines
    <3> QED BY <3>1
  <2>2. t \in Seq(TypedBy) /\ Len(t) = Len(keys) - 1 /\ \A i \in 1 .. Len(t) : t[i] = keys[i + 1] BY <1>4
  <2> HIDE DEF w, t
  <2>3. /\ Len(u) = Len(w) + Len(t)
        /\ \A i \in 1 .. Len(w) : u[i] = w[i]
        /\ \A i \in 1 .. Len(t) : u[Len(w) + i] = t[i]
    <3>1. w \in Seq(TypedBy) /\ t \in Seq(TypedBy) BY <2>1, <2>2
    <3> QED BY <3>1, StepsJoin
  <2>4. keys' = u BY <1>7 DEF w, t
  <2> HIDE DEF u
  <2>5. \A i \in 1 .. Len(keys') : i + 0 \in 1 .. Len(keys) /\ keys'[i][1] = keys[i + 0][1]
    <3> TAKE i \in 1 .. Len(keys')
    <3>1. i + 0 = i /\ i \in 1 .. Len(keys) BY <1>4, <2>1, <2>2, <2>3, <2>4
    <3>2. CASE i = 1 BY <3>1, <3>2, <1>4, <1>7, <2>1, <2>3, <2>4
    <3>3. CASE i > 1
      <4>1. i - 1 \in 1 .. Len(t) /\ 1 + (i - 1) = i /\ (i - 1) + 1 = i BY <3>1, <3>3, <2>2, <1>4
      <4>2. u[Len(w) + (i - 1)] = t[i - 1] /\ Len(w) + (i - 1) = i BY <4>1, <2>1, <2>3
      <4>3. t[i - 1] = keys[i] BY <4>1, <2>2
      <4>4. keys'[i] = keys[i] BY <4>2, <4>3, <2>4
      <4> QED BY <4>4, <3>1
    <3> QED BY <3>1, <3>2, <3>3
  <2> QED BY <1>1, <1>2, <1>3, <1>5, <2>5, ScriptWarned
<1> QED BY <1>1, <1>6, <1>7

\* The comparison of the dump keeps Warned.
LEMMA VerifyWarned == ASSUME ScriptsAre, Warned, NEW k \in 0 .. Len(out), Verify(k) PROVE Warned'
<1>1. Running /\ Step.do = "verify" /\ UNCHANGED <<script, prog, tracks>> BY DEF Verify
<1>2. script # "deploy"
  <2>1. SUFFICES ASSUME script = "deploy" PROVE FALSE OBVIOUS
  <2>2. pc \in 1 .. 14 BY <1>1, <2>1, DeploySteps
  <2> QED BY <1>1, <2>1, <2>2, DeploySteps
<1> QED BY <1>1, <1>2 DEF Warned

\* Reading text keeps Warned.
LEMMA ReceiveWarned == ASSUME ScriptsAre, Warned, NEW k \in 1 .. Len(out), Receive(k) PROVE Warned'
<1> DEFINE a == SubSeq(out, 1, k)
           b == SubSeq(out, k + 1, Len(out))
           text == seen \o a
           ok == <<"OK">>
<1>k. k \in 0 .. Len(out) BY LenProperties DEF ScriptsAre
<1>1. a \in Seq(Tokens) /\ b \in Seq(Tokens) /\ text \in Seq(Tokens) /\ out = a \o b /\ seen \in Seq(Tokens)
  BY <1>k, Pieces DEF ScriptsAre
<1>2. Running /\ Step.do = "await" /\ UNCHANGED <<script, prog, tracks, dsk, unsure, keys>> BY DEF Receive
<1>3. Found(text) => pc' = pc + 1 /\ (out' = b \/ out' = <<<<"BLANK">>>> \o b) /\ (seen' = text \/ seen' = <<>>)
  BY DEF Receive
<1>4. ~Found(text) => pc' = pc /\ out' = b /\ seen' = text BY DEF Receive
<1>5. <<<<"BLANK">>>> \in Seq(Tokens) /\ ~HasText(<<<<"BLANK">>>>, ok) /\ ~HasText(<<>>, ok)
  <2>1. <<"BLANK">> # ok OBVIOUS
  <2> QED BY <2>1, Texts, HasTextShort DEF AwaitedTexts
<1> HIDE DEF a, b
<1>6. (HasText(text, ok) <=> HasText(seen, ok) \/ HasText(a, ok)) /\ (HasText(out, ok) <=> HasText(a, ok) \/ HasText(b, ok))
  BY <1>1, HasTextConcat
<1>7. ~HasText(<<<<"BLANK">>>> \o b, ok) \/ HasText(b, ok) BY <1>1, <1>5, HasTextConcat
<1> HIDE DEF text
<1>8. OkShown' => OkShown BY <1>3, <1>4, <1>5, <1>6, <1>7 DEF OkShown, ok
<1>9. script = "deploy" /\ pc = 8 /\ pc' = 9 => OkShown
  <2> SUFFICES ASSUME script = "deploy", pc = 8, pc' = 9 PROVE OkShown OBVIOUS
  <2>1. Found(text) BY <1>4
  <2>2. Step.needle = <<"OK">> BY <1>2, DeploySteps
  <2>3. PICK i \in DOMAIN text : Shows(text[i], <<"OK">>) BY <2>1, <2>2 DEF Found
  <2>4. text[i] = ok BY <2>3 DEF Shows
  <2>5. i \in 1 .. Len(text) BY <1>1, <2>3
  <2>6. HasText(text, ok) BY <2>4, <2>5 DEF HasText
  <2> QED BY <2>6, <1>6 DEF OkShown, ok
<1>10. unsure' \in BOOLEAN /\ pc \in Nat /\ pc' \in {pc, pc + 1} /\ dsk'.com = dsk.com /\ 0 \in Nat
  BY <1>2, <1>3, <1>4 DEF ScriptsAre
<1>11. \A i \in 1 .. Len(keys') : i + 0 \in 1 .. Len(keys) /\ keys'[i][1] = keys[i + 0][1] BY <1>2, SameKeys
<1> QED BY <1>2, <1>8, <1>9, <1>10, <1>11, ScriptWarned

\* Typing a line keeps Warned.
LEMMA SendWarned == ASSUME ScriptsAre, Warned, Send PROVE Warned'
<1>1. /\ Running /\ Step.do = "type" /\ UNCHANGED <<script, out, prog, dsk, tracks, unsure>>
      /\ keys' = Append(keys, Step.line) /\ pc' = pc + 1 /\ seen' = <<>>
  BY DEF Send, Goto
<1>2. CASE script = "deploy"
  <2>0. DeployWarned BY <1>2 DEF Warned
  <2>1. pc \in {2, 5, 7, 9, 11, 13} /\ Step = siob_deploy[pc] BY <1>1, <1>2, DeploySteps
  <2> DEFINE w == Step.line[1]
  <2>2. (w = "MLOAD" => pc = 5) /\ (w = "CPM56" => pc = 7) /\ (w = "SYSGEN" => pc = 9) BY <2>1, DeployForm DEF Type
  <2>3. OkShown' => OkShown BY <1>1, HasTextShort DEF OkShown
  <2>4. keys \in Seq(TypedBy) /\ Len(keys) \in Nat /\ Step.line \in TypedBy BY SendKeepsType, LenProperties DEF ScriptsAre
  <2>5. /\ Len(keys') = Len(keys) + 1 /\ keys'[Len(keys) + 1] = Step.line
        /\ \A i \in 1 .. Len(keys) : keys'[i] = keys[i]
    BY <1>1, <2>4, Grown
  <2> HIDE DEF w
  <2>6. ASSUME NEW x, Waiting(x)' PROVE Waiting(x) \/ w = x
    <3>1. PICK i \in 1 .. Len(keys) + 1 : keys'[i][1] = x BY <2>5, <2>6 DEF Waiting
    <3>2. CASE i \in 1 .. Len(keys) BY <3>1, <3>2, <2>5 DEF Waiting
    <3>3. CASE i = Len(keys) + 1 BY <3>1, <3>3, <2>5 DEF w
    <3> QED BY <3>2, <3>3, <2>4
  <2>7. pc' <= 5 => ~Waiting("MLOAD")' BY <1>1, <2>0, <2>1, <2>2, <2>6 DEF DeployWarned
  <2>8. pc' <= 7 => ~Waiting("CPM56")' /\ ~OkShown' BY <1>1, <2>0, <2>1, <2>2, <2>3, <2>6 DEF DeployWarned
  <2>9. pc' <= 9 => ~Waiting("SYSGEN")' /\ prog' \notin {"sysgen", "sysgen_on_A"} /\ tracks' = "boot"
    BY <1>1, <2>0, <2>1, <2>2, <2>6 DEF DeployWarned
  <2>10. ASSUME NEW i \in 1 .. Len(keys'), NEW j \in 1 .. Len(keys'), keys'[i][1] = "MLOAD", keys'[j][1] = "CPM56" PROVE i < j
    <3>1. CASE j \in 1 .. Len(keys)
      <4>1. keys[j][1] = "CPM56" BY <2>5, <2>10, <3>1
      <4>2. Waiting("CPM56") BY <4>1, <3>1 DEF Waiting
      <4>3. ~(pc <= 7) BY <4>2, <2>0 DEF DeployWarned
      <4>4. w # "MLOAD" BY <4>3, <2>2
      <4>5. i \in 1 .. Len(keys) BY <4>4, <2>4, <2>5, <2>10 DEF w
      <4>6. keys[i][1] = "MLOAD" BY <4>5, <2>5, <2>10
      <4> QED BY <3>1, <4>1, <4>5, <4>6, <2>0 DEF DeployWarned
    <3>2. CASE j = Len(keys) + 1
      <4>1. w = "CPM56" BY <3>2, <2>5, <2>10 DEF w
      <4>2. i # j BY <2>10
      <4> QED BY <3>2, <4>2, <2>4, <2>5
    <3> QED BY <3>1, <3>2, <2>4, <2>5
  <2>11. OkShown' => dsk'.com # "bad" /\ ~Waiting("MLOAD")'
    <3>1. OkShown => ~(pc <= 7) BY <2>0 DEF DeployWarned
    <3>2. OkShown => w # "MLOAD" BY <3>1, <2>2
    <3> QED BY <1>1, <2>0, <2>3, <2>6, <3>2 DEF DeployWarned
  <2>12. pc' >= 9 /\ ~unsure' => dsk'.com # "bad" /\ ~Waiting("MLOAD")'
    <3>1. pc' >= 9 => pc >= 9 /\ w # "MLOAD" BY <1>1, <2>1, <2>2
    <3> QED BY <1>1, <3>1, <2>0, <2>6 DEF DeployWarned
  <2>13. tracks' = "bad" => unsure' BY <1>1, <2>0 DEF DeployWarned
  <2>14. DeployWarned' BY <2>7, <2>8, <2>9, <2>10, <2>11, <2>12, <2>13 DEF DeployWarned
  <2> QED BY <1>1, <1>2, <2>14 DEF Warned
<1>3. CASE script # "deploy" BY <1>1, <1>3 DEF Warned
<1> QED BY <1>2, <1>3

\* A machine that goes away keeps Warned: what it had shown is still there.
LEMMA VanishWarned == ASSUME ScriptsAre, Warned, Vanish PROVE Warned'
<1>1. UNCHANGED <<script, pc, keys, seen, out, tracks, dsk, unsure>> /\ prog' = "gone" BY DEF Vanish
<1>2. \A w : Waiting(w)' <=> Waiting(w) BY <1>1 DEF Waiting
<1>3. OkShown' <=> OkShown BY <1>1 DEF OkShown
<1>4. CASE script = "deploy"
  <2>1. DeployWarned BY <1>4 DEF Warned
  <2>2. DeployWarned' BY <1>1, <1>2, <1>3, <2>1 DEF DeployWarned
  <2> QED BY <1>1, <1>4, <2>2 DEF Warned
<1>5. CASE script # "deploy" BY <1>1, <1>5 DEF Warned
<1> QED BY <1>4, <1>5

\* No step has a broken system written without a warning.
LEMMA StillWarned == ASSUME ScriptsAre, Warned, [ScriptsNext]_scriptVars PROVE Warned'
<1>1. CASE AwaitTrigger BY <1>1, TriggerWarned
<1>2. CASE Send BY <1>2, SendWarned
<1>3. CASE SendData BY <1>3, DataWarned
<1>4. CASE \E k \in 1 .. Len(out) : Receive(k) BY <1>4, ReceiveWarned
<1>5. CASE Expire BY <1>5, ExpireWarned
<1>6. CASE \E k \in 0 .. Len(out) : Verify(k) BY <1>6, VerifyWarned
<1>7. CASE Ccp BY <1>7, CcpWarned
<1>8. CASE Pip BY <1>8, PipWarned
<1>9. CASE Sysgen BY <1>9, SysgenWarned
<1>10. CASE Ddt BY <1>10, DdtWarned
<1>11. CASE Set BY <1>11, SetWarned
<1>12. CASE LoseLine \/ DropByte BY <1>12, LossWarned
<1>13. CASE UNCHANGED scriptVars
  <2>1. UNCHANGED <<script, pc, keys, seen, out, prog, tracks, dsk, unsure>> BY <1>13 DEF scriptVars
  <2> QED BY <2>1 DEF Warned, DeployWarned, OkShown, Waiting
<1>14. CASE Vanish BY <1>14, VanishWarned
<1>15. CASE Abort
  <2>1. UNCHANGED <<script, pc, keys, seen, out, prog, tracks, dsk, unsure>> BY <1>15 DEF Abort
  <2> QED BY <2>1 DEF Warned, DeployWarned, OkShown, Waiting
<1> QED BY <1>1, <1>2, <1>3, <1>4, <1>5, <1>6, <1>7, <1>8, <1>9, <1>10, <1>11, <1>12, <1>13, <1>14, <1>15 DEF ScriptsNext

\* At the start nothing has been written.
LEMMA WarnedAtStart == ASSUME ScriptsInit \/ ScriptsIdle PROVE Warned
<1>1. keys = <<>> /\ seen = <<>> /\ tracks = "boot" /\ prog = "ccp" BY DEF ScriptsInit, ScriptsIdle
<1>2. Len(keys) = 0 BY <1>1
<1>3. out = <<>> \/ out = <<<<"A>">>>> BY DEF ScriptsInit, ScriptsIdle
<1>4. ~OkShown BY <1>1, <1>3, HasTextShort, NoOk DEF OkShown
<1>5. \A w : ~Waiting(w) BY <1>2 DEF Waiting
<1>6. script = "deploy" => pc = 1 BY DEF ScriptsInit, ScriptsIdle
<1> QED BY <1>1, <1>2, <1>4, <1>5, <1>6 DEF Warned, DeployWarned

\* The property follows.
LEMMA WarnedIs == ASSUME Warned PROVE BrokenSystemWarned
BY DEF Warned, DeployWarned, BrokenSystemWarned

-----------------------------------------------------------------------------
(* FixRunsWhole: the lines on their way are the next ones of the repair      *)
(* script, and DDT is as far as the lines it has read.                       *)

\* The lines of the repair script.
FixLine(c) ==
    IF c = 1 THEN <<"CR">> ELSE IF c = 2 THEN <<"DDT">> ELSE IF c = 3 THEN <<"S">>
    ELSE IF c <= N + 3 THEN <<"byte", Program[c - 3]>> ELSE IF c = N + 4 THEN <<".">> ELSE <<"G100">>

\* The machine has read c lines.
FixMachine(c) ==
    \/ "DDT" \in missing /\ prog = "ccp" /\ ran = <<>>
    \/ c <= 1 /\ prog = "ccp" /\ ran = <<>>
    \/ c = 2 /\ prog = "ddt" /\ ran = <<>>
    \/ c \in 3 .. N + 3 /\ prog = "set" /\ addr = c - 3 /\ (\A i \in 1 .. c - 3 : tpa[i] = Program[i]) /\ ran = <<>>
    \/ c = N + 4 /\ prog = "ddt" /\ (\A i \in 1 .. N : tpa[i] = Program[i]) /\ ran = <<>>
    \/ c = N + 5 /\ prog = "ccp" /\ ran = Program

\* c lines read and n on their way.
FixAt(c, n) ==
    /\ c + n <= N + 5 /\ pc \in {2 * (c + n), 2 * (c + n) + 1}
    /\ Len(keys) = n /\ \A i \in 1 .. n : keys[i] = FixLine(c + i)
    /\ FixMachine(c)

\* Without a fault the repair script is some lines ahead of the machine.
FixAhead ==
    /\ script # "fix" => ran = <<>>
    /\ script = "fix" /\ faults = 0 => \E c \in Nat, n \in Nat : FixAt(c, n)

\* The steps of the repair script.
LEMMA FixSteps ==
  ASSUME ScriptsAre, Running, script = "fix", NEW t \in Nat, t <= N + 5
  PROVE  /\ pc = 2 * t => Step.do = "await"
         /\ pc = 2 * t + 1 => t <= N + 4 /\ Step.do = "type" /\ Step.line = FixLine(t + 1)
<1>n. N \in Nat /\ N >= 1 BY ProgramSize
<1>1. Steps = sioa_fix /\ Len(Steps) = 2 * N + 10 BY StepsAre, FixForm
<1>2. pc \in 1 .. 2 * N + 10 BY <1>1, StepIs
<1>3. Step = sioa_fix[pc] BY <1>1 DEF Step
<1>4. CASE pc \in 1 .. 5
  <2>1. pc = 1 => Step = Type("CR") BY <1>3, FixForm
  <2>2. /\ pc = 2 => Step = Await("A>", 0)
        /\ pc = 3 => Step = Type("DDT")
        /\ pc = 4 => Step = Await("-", 0)
        /\ pc = 5 => Step = Type("S")
    BY <1>3, FixForm
  <2>3. /\ pc = 2 * t => pc \in {2, 4}
        /\ pc = 2 * t + 1 => (pc = 1 /\ t = 0) \/ (pc = 3 /\ t = 1) \/ (pc = 5 /\ t = 2)
    BY <1>4
  <2>4. FixLine(1) = <<"CR">> /\ FixLine(2) = <<"DDT">> /\ FixLine(3) = <<"S">> BY DEF FixLine
  <2>5. (t = 0 => t + 1 = 1) /\ (t = 1 => t + 1 = 2) /\ (t = 2 => t + 1 = 3) /\ (t \in {0, 1, 2} => t <= N + 4) BY <1>n
  <2>6. pc = 2 * t => Step.do = "await" BY <2>2, <2>3 DEF Await
  <2>7. pc = 2 * t + 1 => t <= N + 4 /\ Step.do = "type" /\ Step.line = FixLine(t + 1)
    BY <2>1, <2>2, <2>3, <2>4, <2>5 DEF Type
  <2> QED BY <2>6, <2>7
<1>5. CASE \E i \in 1 .. N : pc = 2 * i + 4 \/ pc = 2 * i + 5
  <2>1. PICK i \in 1 .. N : pc = 2 * i + 4 \/ pc = 2 * i + 5 BY <1>5
  <2>2. (pc = 2 * i + 4 => Step = Await("BLANK", 0)) /\ (pc = 2 * i + 5 => Step = TypeByte(i)) BY <1>3, FixForm
  <2>3. (pc = 2 * t => pc = 2 * i + 4) /\ (pc = 2 * t + 1 => pc = 2 * i + 5 /\ t = i + 2) BY <2>1
  <2>4. FixLine(i + 3) = <<"byte", Program[i]>> BY <1>n DEF FixLine
  <2>5. t = i + 2 => t + 1 = i + 3 /\ t <= N + 4 BY <1>n
  <2> QED BY <2>2, <2>3, <2>4, <2>5 DEF Await, TypeByte
<1>6. CASE \E k \in 6 .. 10 : pc = 2 * N + k
  <2>1. /\ pc = 2 * N + 6 => Step = Await("BLANK", 0)
        /\ pc = 2 * N + 7 => Step = Type(".")
        /\ pc = 2 * N + 8 => Step = Await("-", 0)
        /\ pc = 2 * N + 9 => Step = Type("G100")
        /\ pc = 2 * N + 10 => Step = Await("A>", 0)
    BY <1>3, FixForm
  <2>2. /\ pc = 2 * t => pc = 2 * N + 6 \/ pc = 2 * N + 8 \/ pc = 2 * N + 10
        /\ pc = 2 * t + 1 => (pc = 2 * N + 7 /\ t = N + 3) \/ (pc = 2 * N + 9 /\ t = N + 4)
    BY <1>n, <1>6
  <2>3. FixLine(N + 4) = <<".">> /\ FixLine(N + 5) = <<"G100">> BY <1>n DEF FixLine
  <2>4. (t = N + 3 => t + 1 = N + 4 /\ t <= N + 4) /\ (t = N + 4 => t + 1 = N + 5) BY <1>n
  <2> QED BY <2>1, <2>2, <2>3, <2>4, <1>n DEF Type, Await
<1> QED BY <1>2, <1>4, <1>5, <1>6, FixPositions

\* What the lines of the repair script are.
LEMMA FixLines ==
  ASSUME NEW c \in Nat, c + 1 <= N + 5
  PROVE  /\ FixLine(c + 1)[1] \notin {"PIP", "SYSGEN", "MLOAD", "CPM56"}
         /\ FixLine(c + 1)[1] = "DDT" => c = 1
         /\ c = 1 => FixLine(c + 1)[1] = "DDT"
         /\ c = 2 => FixLine(c + 1)[1] = "S"
         /\ c \in 3 .. N + 2 => FixLine(c + 1) = <<"byte", Program[c - 2]>>
         /\ c = N + 3 => FixLine(c + 1)[1] = "."
         /\ c = N + 4 => FixLine(c + 1)[1] = "G100"
<1>n. N \in Nat /\ N >= 1 BY ProgramSize
<1>1. (c + 1) - 3 = c - 2 OBVIOUS
<1> QED BY <1>n, <1>1 DEF FixLine

\* A line of the repair script is answered.
LEMMA FixAnswered ==
  ASSUME ScriptsAre, NEW c \in Nat, NEW n \in Nat, FixAt(c, n), keys # <<>>, NEW toks \in Seq(Tokens), Answer(toks), UNCHANGED pc
  PROVE  /\ n >= 1 /\ c + 1 <= N + 5 /\ Head(keys) = FixLine(c + 1) /\ c + 1 \in Nat /\ n - 1 \in Nat
         /\ FixMachine(c + 1)' => FixAt(c + 1, n - 1)'
<1>n. N \in Nat BY ProgramSize
<1>1. /\ Len(keys) \in Nat /\ Len(keys) >= 1 /\ Head(keys) = keys[1] /\ Len(keys') = Len(keys) - 1
      /\ \A i \in 1 .. Len(keys') : keys'[i] = keys[i + 1]
  BY AnswerIs
<1>2. n >= 1 /\ Len(keys) = n /\ c + n <= N + 5 /\ pc \in {2 * (c + n), 2 * (c + n) + 1}
      /\ \A i \in 1 .. n : keys[i] = FixLine(c + i)
  BY <1>1 DEF FixAt
<1>3. Head(keys) = FixLine(c + 1) /\ c + 1 <= N + 5 BY <1>1, <1>2, <1>n
<1>4. (c + 1) + (n - 1) = c + n /\ n - 1 \in Nat BY <1>2
<1>5. \A i \in 1 .. n - 1 : keys'[i] = FixLine((c + 1) + i)
  <2> TAKE i \in 1 .. n - 1
  <2>1. i + 1 \in 1 .. n /\ c + (i + 1) = (c + 1) + i /\ i \in 1 .. Len(keys') BY <1>1, <1>2
  <2>2. keys'[i] = keys[i + 1] /\ keys[i + 1] = FixLine(c + (i + 1)) BY <2>1, <1>1, <1>2
  <2> QED BY <2>1, <2>2
<1>6. FixMachine(c + 1)' => FixAt(c + 1, n - 1)' BY <1>1, <1>2, <1>4, <1>5 DEF FixAt, FixLine
<1> QED BY <1>2, <1>3, <1>4, <1>6

\* It is enough to show where the repair script is.
LEMMA FixKept ==
  ASSUME ScriptsAre, FixAhead, UNCHANGED script, script # "fix" => ran' = <<>>,
         script = "fix" /\ faults' = 0 => \E c \in Nat, n \in Nat : FixAt(c, n)'
  PROVE  FixAhead'
BY DEF FixAhead, FixAt, FixMachine, FixLine

\* CCP keeps FixAhead.
LEMMA CcpFix == ASSUME ScriptsAre, FixAhead, Ccp PROVE FixAhead'
<1>1. PICK toks : CcpDoes(toks) BY CcpCases
<1>2. /\ prog = "ccp" /\ keys # <<>> /\ Answer(toks) /\ toks \in Seq(Tokens)
      /\ UNCHANGED <<script, pc, addr, tpa, missing, ran>> /\ (faults' = faults \/ faults' = faults + 1)
  BY <1>1 DEF CcpDoes
<1>3. ASSUME script = "fix", faults' = 0 PROVE \E c \in Nat, n \in Nat : FixAt(c, n)'
  <2>n. N \in Nat /\ N >= 1 BY ProgramSize
  <2>0. faults = 0 BY <1>2, <1>3 DEF ScriptsAre
  <2>1. PICK c \in Nat, n \in Nat : FixAt(c, n) BY <1>3, <2>0 DEF FixAhead
  <2>2. /\ n >= 1 /\ c + 1 <= N + 5 /\ Head(keys) = FixLine(c + 1) /\ c + 1 \in Nat /\ n - 1 \in Nat
        /\ FixMachine(c + 1)' => FixAt(c + 1, n - 1)'
    BY <1>2, <2>1, FixAnswered
  <2>3. FixMachine(c) BY <2>1 DEF FixAt
  <2>4. /\ Head(keys)[1] \notin {"PIP", "SYSGEN", "MLOAD", "CPM56"}
        /\ Head(keys)[1] = "DDT" => c = 1
        /\ c = 1 => Head(keys)[1] = "DDT"
    BY <2>2, FixLines
  <2>5. \/ Head(keys)[1] = "DDT" /\ There("DDT") /\ prog' = "ddt"
        \/ prog' = "ccp" /\ (Head(keys)[1] = "DDT" => ~There("DDT"))
    BY <1>1, <2>4 DEF CcpDoes
  <2>6. FixMachine(c + 1)'
    <3>1. CASE "DDT" \in missing
      <4>1. ran = <<>> BY <3>1, <1>2, <2>2, <2>3, <2>n DEF FixMachine
      <4>2. prog' = "ccp" BY <2>5, <3>1 DEF There
      <4> QED BY <1>2, <3>1, <4>1, <4>2 DEF FixMachine
    <3>2. CASE "DDT" \notin missing
      <4>1. c <= 1 /\ ran = <<>> BY <3>2, <1>2, <2>2, <2>3, <2>n DEF FixMachine
      <4>2. CASE c = 0
        <5>1. prog' = "ccp" BY <4>2, <2>4, <2>5
        <5>2. c + 1 <= 1 BY <4>2
        <5> QED BY <5>1, <5>2, <4>1, <1>2 DEF FixMachine
      <4>3. CASE c = 1
        <5>1. prog' = "ddt" BY <4>3, <3>2, <2>4, <2>5 DEF There
        <5>2. c + 1 = 2 BY <4>3
        <5> QED BY <5>1, <5>2, <4>1, <1>2 DEF FixMachine
      <4> QED BY <4>1, <4>2, <4>3
    <3> QED BY <3>1, <3>2
  <2> QED BY <2>2, <2>6
<1>4. script # "fix" => ran' = <<>> BY <1>2 DEF FixAhead
<1> QED BY <1>2, <1>3, <1>4, FixKept

\* DDT keeps FixAhead.
LEMMA DdtFix == ASSUME ScriptsAre, FixAhead, Ddt PROVE FixAhead'
<1>1. PICK toks : DdtDoes(toks) BY DdtCases
<1>2. /\ prog = "ddt" /\ keys # <<>> /\ Answer(toks) /\ toks \in Seq(Tokens)
      /\ UNCHANGED <<script, pc, tpa, missing, faults>>
  BY <1>1 DEF DdtDoes
<1>3. ASSUME script = "fix", faults' = 0 PROVE \E c \in Nat, n \in Nat : FixAt(c, n)'
  <2>n. N \in Nat /\ N >= 1 BY ProgramSize
  <2>1. PICK c \in Nat, n \in Nat : FixAt(c, n) BY <1>2, <1>3 DEF FixAhead
  <2>2. /\ n >= 1 /\ c + 1 <= N + 5 /\ Head(keys) = FixLine(c + 1) /\ c + 1 \in Nat /\ n - 1 \in Nat
        /\ FixMachine(c + 1)' => FixAt(c + 1, n - 1)'
    BY <1>2, <2>1, FixAnswered
  <2>3. \/ c = 2 /\ ran = <<>>
        \/ c = N + 4 /\ (\A i \in 1 .. N : tpa[i] = Program[i]) /\ ran = <<>>
    BY <2>1, <1>2 DEF FixAt, FixMachine
  <2>4. CASE c = 2 /\ ran = <<>>
    <3>1. Head(keys)[1] = "S" BY <2>2, <2>4, FixLines
    <3>2. prog' = "set" /\ addr' = 0 /\ ran' = ran BY <1>1, <3>1 DEF DdtDoes
    <3>3. c + 1 = 3 /\ c + 1 \in 3 .. N + 3 /\ (c + 1) - 3 = 0 BY <2>4, <2>n
    <3>4. FixMachine(c + 1)' BY <2>4, <3>2, <3>3 DEF FixMachine
    <3> QED BY <2>2, <3>4
  <2>5. CASE c = N + 4 /\ (\A i \in 1 .. N : tpa[i] = Program[i]) /\ ran = <<>>
    <3>1. Head(keys)[1] = "G100" BY <2>2, <2>5, FixLines
    <3>2. prog' = "ccp" /\ ran' = tpa BY <1>1, <3>1 DEF DdtDoes
    <3>3. tpa \in [1 .. N -> MemBytes] BY <1>3 DEF ScriptsAre, ScriptNames
    <3>4. tpa = Program BY <3>3, <2>5, ProgramSize
    <3>5. c + 1 = N + 5 BY <2>5, <2>n
    <3>6. FixMachine(c + 1)' BY <3>2, <3>4, <3>5 DEF FixMachine
    <3> QED BY <2>2, <3>6
  <2> QED BY <2>3, <2>4, <2>5
<1>4. script # "fix" => ran' = <<>>
  <2>1. Head(keys) \in TypedBy BY <1>2, AnswerIs
  <2>2. script # "fix" => Head(keys)[1] # "G100" BY <2>1 DEF TypedBy
  <2>3. Head(keys)[1] # "G100" => ran' = ran BY <1>1 DEF DdtDoes
  <2> QED BY <2>2, <2>3 DEF FixAhead
<1> QED BY <1>2, <1>3, <1>4, FixKept

\* DDT's S command keeps FixAhead.
LEMMA SetFix == ASSUME ScriptsAre, FixAhead, Set PROVE FixAhead'
<1>1. PICK toks : SetDoes(toks) BY SetCases
<1>2. /\ prog = "set" /\ keys # <<>> /\ Answer(toks) /\ toks \in Seq(Tokens)
      /\ UNCHANGED <<script, pc, ran, missing, faults>>
  BY <1>1 DEF SetDoes
<1>3. ASSUME script = "fix", faults' = 0 PROVE \E c \in Nat, n \in Nat : FixAt(c, n)'
  <2>n. N \in Nat /\ N >= 1 BY ProgramSize
  <2>1. PICK c \in Nat, n \in Nat : FixAt(c, n) BY <1>2, <1>3 DEF FixAhead
  <2>2. /\ n >= 1 /\ c + 1 <= N + 5 /\ Head(keys) = FixLine(c + 1) /\ c + 1 \in Nat /\ n - 1 \in Nat
        /\ FixMachine(c + 1)' => FixAt(c + 1, n - 1)'
    BY <1>2, <2>1, FixAnswered
  <2>3. c \in 3 .. N + 3 /\ addr = c - 3 /\ (\A i \in 1 .. c - 3 : tpa[i] = Program[i]) /\ ran = <<>>
    BY <2>1, <1>2 DEF FixAt, FixMachine
  <2>4. tpa \in [1 .. N -> MemBytes] BY <1>3 DEF ScriptsAre, ScriptNames
  <2>5. CASE c <= N + 2
    <3>1. Head(keys) = <<"byte", Program[c - 2]>> BY <2>2, <2>3, <2>5, FixLines
    <3>2. Head(keys)[1] = "byte" /\ Head(keys)[2] = Program[c - 2] BY <3>1
    <3>3. addr + 1 = c - 2 /\ c - 2 \in 1 .. N BY <2>3, <2>5, <2>n
    <3>4. prog' = "set" /\ addr' = c - 2 /\ tpa' = [tpa EXCEPT ![c - 2] = Program[c - 2]]
      BY <1>1, <3>2, <3>3, <2>n DEF SetDoes
    <3>5. \A i \in 1 .. c - 2 : tpa'[i] = Program[i]
      <4> TAKE i \in 1 .. c - 2
      <4>1. i \in 1 .. N BY <3>3, <2>n
      <4>2. i # c - 2 => i \in 1 .. c - 3 BY <2>3
      <4> QED BY <2>3, <2>4, <3>4, <4>1, <4>2
    <3>6. c + 1 \in 3 .. N + 3 /\ (c + 1) - 3 = c - 2 BY <2>3, <2>5, <2>n
    <3>7. FixMachine(c + 1)' BY <1>2, <2>3, <3>4, <3>5, <3>6 DEF FixMachine
    <3> QED BY <2>2, <3>7
  <2>6. CASE c = N + 3
    <3>1. Head(keys)[1] # "byte" BY <2>2, <2>6, FixLines
    <3>2. prog' = "ddt" /\ tpa' = tpa BY <1>1, <3>1 DEF SetDoes
    <3>3. c + 1 = N + 4 /\ c - 3 = N BY <2>6, <2>n
    <3>4. \A i \in 1 .. N : tpa'[i] = Program[i] BY <2>3, <3>2, <3>3
    <3>5. FixMachine(c + 1)' BY <1>2, <2>3, <3>2, <3>3, <3>4 DEF FixMachine
    <3> QED BY <2>2, <3>5
  <2> QED BY <2>3, <2>5, <2>6, <2>n
<1>4. script # "fix" => ran' = <<>> BY <1>2 DEF FixAhead
<1> QED BY <1>2, <1>3, <1>4, FixKept

\* The repair script never runs PIP or SYSGEN.
LEMMA OtherFix == ASSUME ScriptsAre, FixAhead, Pip \/ Sysgen PROVE FixAhead'
<1>1. prog \in {"pip", "sysgen", "sysgen_on_A"} /\ UNCHANGED <<script, ran, faults>> BY DEF Pip, Sysgen
<1>2. ASSUME script = "fix", faults' = 0 PROVE FALSE
  <2>1. PICK c \in Nat, n \in Nat : FixAt(c, n) BY <1>1, <1>2 DEF FixAhead
  <2> QED BY <2>1, <1>1 DEF FixAt, FixMachine
<1>3. script # "fix" => ran' = <<>> BY <1>1 DEF FixAhead
<1> QED BY <1>1, <1>2, <1>3, FixKept

\* Typing a line keeps FixAhead.
LEMMA SendFix == ASSUME ScriptsAre, FixAhead, Send PROVE FixAhead'
<1>1. /\ Running /\ Step.do = "type" /\ UNCHANGED <<script, prog, addr, tpa, missing, ran, faults>>
      /\ keys' = Append(keys, Step.line) /\ pc' = pc + 1
  BY DEF Send, Goto
<1>2. ASSUME script = "fix", faults' = 0 PROVE \E c \in Nat, n \in Nat : FixAt(c, n)'
  <2>n. N \in Nat /\ N >= 1 BY ProgramSize
  <2>1. PICK c \in Nat, n \in Nat : FixAt(c, n) BY <1>1, <1>2 DEF FixAhead
  <2>2. /\ c + n <= N + 5 /\ pc \in {2 * (c + n), 2 * (c + n) + 1} /\ Len(keys) = n
        /\ (\A i \in 1 .. n : keys[i] = FixLine(c + i)) /\ FixMachine(c) /\ c + n \in Nat
    BY <2>1 DEF FixAt
  <2>3. pc = 2 * (c + n) + 1 /\ c + n <= N + 4 /\ Step.line = FixLine((c + n) + 1)
    <3>1. /\ pc = 2 * (c + n) => Step.do = "await"
          /\ pc = 2 * (c + n) + 1 => c + n <= N + 4 /\ Step.do = "type" /\ Step.line = FixLine((c + n) + 1)
      BY <1>1, <1>2, <2>2, FixSteps
    <3> QED BY <1>1, <2>2, <3>1
  <2>4. keys \in Seq(TypedBy) /\ Step.line \in TypedBy BY SendKeepsType DEF ScriptsAre
  <2>5. /\ Len(keys') = n + 1 /\ keys'[n + 1] = Step.line /\ \A i \in 1 .. n : keys'[i] = keys[i]
    BY <1>1, <2>2, <2>4, Grown
  <2>6. \A i \in 1 .. n + 1 : keys'[i] = FixLine(c + i)
    <3> TAKE i \in 1 .. n + 1
    <3>1. CASE i = n + 1
      <4>1. c + i = (c + n) + 1 BY <3>1
      <4> QED BY <3>1, <4>1, <2>3, <2>5
    <3>2. CASE i \in 1 .. n BY <3>2, <2>2, <2>5
    <3> QED BY <3>1, <3>2
  <2>7. /\ c + (n + 1) <= N + 5 /\ pc' = 2 * (c + (n + 1)) /\ n + 1 \in Nat
    <3>1. pc' = (2 * (c + n) + 1) + 1 BY <1>1, <2>3
    <3>2. c + (n + 1) = (c + n) + 1 OBVIOUS
    <3> QED BY <3>1, <3>2, <2>3, <2>n
  <2>8. FixMachine(c)' BY <1>1, <2>2 DEF FixMachine
  <2>9. FixAt(c, n + 1)' BY <2>5, <2>6, <2>7, <2>8 DEF FixAt, FixLine
  <2> QED BY <2>7, <2>9
<1>3. script # "fix" => ran' = <<>> BY <1>1 DEF FixAhead
<1> QED BY <1>1, <1>2, <1>3, FixKept

\* A wait of the repair script comes to its end, or not.
LEMMA WaitFix ==
  ASSUME ScriptsAre, FixAhead, Running, Step.do = "await", UNCHANGED <<script, prog, addr, tpa, missing, ran, keys>>,
         pc' \in {pc, pc + 1}, faults' = faults \/ faults' = faults + 1
  PROVE  FixAhead'
<1>2. ASSUME script = "fix", faults' = 0 PROVE \E c \in Nat, n \in Nat : FixAt(c, n)'
  <2>0. faults = 0 BY <1>2 DEF ScriptsAre
  <2>1. PICK c \in Nat, n \in Nat : FixAt(c, n) BY <1>2, <2>0 DEF FixAhead
  <2>2. /\ c + n <= N + 5 /\ pc \in {2 * (c + n), 2 * (c + n) + 1} /\ Len(keys) = n
        /\ (\A i \in 1 .. n : keys[i] = FixLine(c + i)) /\ FixMachine(c) /\ c + n \in Nat
    BY <2>1 DEF FixAt
  <2>3. pc = 2 * (c + n)
    <3>1. pc = 2 * (c + n) + 1 => Step.do = "type"
      BY <1>2, <2>2, FixSteps
    <3> QED BY <2>2, <3>1
  <2>4. pc' \in {2 * (c + n), 2 * (c + n) + 1} BY <2>3
  <2>5. FixMachine(c)' BY <2>2 DEF FixMachine
  <2>6. FixAt(c, n)' BY <2>2, <2>4, <2>5 DEF FixAt, FixLine
  <2> QED BY <2>6
<1>3. script # "fix" => ran' = <<>> BY DEF FixAhead
<1> QED BY <1>2, <1>3, FixKept

\* The other scripts.
LEMMA NotFix ==
  ASSUME ScriptsAre, FixAhead, Running, Step.do \in {"trigger", "data", "verify"}, UNCHANGED <<script, ran>>
  PROVE  FixAhead'
<1>1. ASSUME script = "fix" PROVE FALSE
  <2>n. N \in Nat BY ProgramSize
  <2>1. Len(Steps) = 2 * N + 10 BY <1>1, StepsAre, FixForm
  <2>2. pc \in 1 .. 2 * N + 10 BY <2>1, StepIs
  <2> DEFINE t == pc \div 2
  <2>3. t \in Nat /\ t <= N + 5 /\ (pc = 2 * t \/ pc = 2 * t + 1) BY <2>n, <2>2
  <2> HIDE DEF t
  <2> QED BY <1>1, <2>3, FixSteps
<1> QED BY <1>1 DEF FixAhead

\* No step of a faultless run changes the order of the lines.
LEMMA StillAhead == ASSUME ScriptsAre, FixAhead, [ScriptsNext]_scriptVars PROVE FixAhead'
<1>1. CASE AwaitTrigger BY <1>1, NotFix DEF AwaitTrigger
<1>2. CASE Send BY <1>2, SendFix
<1>3. CASE SendData BY <1>3, NotFix DEF SendData
<1>4. CASE \E k \in 1 .. Len(out) : Receive(k)
  <2>1. PICK k \in 1 .. Len(out) : Receive(k) BY <1>4
  <2>2. Running /\ Step.do = "await" /\ UNCHANGED <<script, prog, addr, tpa, missing, ran, keys, faults>> BY <2>1 DEF Receive
  <2>3. pc' \in {pc, pc + 1} BY <2>1 DEF Receive
  <2> QED BY <2>2, <2>3, WaitFix
<1>5. CASE Expire
  <2>1. /\ Running /\ Step.do = "await" /\ UNCHANGED <<script, prog, addr, tpa, missing, ran, keys>> /\ pc' = pc + 1
        /\ faults' = faults \/ faults' = faults + 1
    BY <1>5 DEF Expire
  <2> QED BY <2>1, WaitFix
<1>6. CASE \E k \in 0 .. Len(out) : Verify(k) BY <1>6, NotFix DEF Verify
<1>7. CASE Ccp BY <1>7, CcpFix
<1>8. CASE Pip BY <1>8, OtherFix
<1>9. CASE Sysgen BY <1>9, OtherFix
<1>10. CASE Ddt BY <1>10, DdtFix
<1>11. CASE Set BY <1>11, SetFix
<1>12. CASE LoseLine \/ DropByte
  <2>1. faults' = faults + 1 /\ UNCHANGED <<script, ran>> BY <1>12 DEF LoseLine, DropByte
  <2>2. faults' # 0 BY <2>1 DEF ScriptsAre
  <2> QED BY <2>1, <2>2 DEF FixAhead
<1>13. CASE UNCHANGED scriptVars
  <2>1. UNCHANGED <<script, pc, keys, prog, addr, tpa, missing, ran, faults>> BY <1>13 DEF scriptVars
  <2> QED BY <2>1 DEF FixAhead, FixAt, FixMachine, FixLine
<1>14. CASE Vanish
  <2>1. faults' = faults + 1 /\ UNCHANGED <<script, ran>> BY <1>14 DEF Vanish
  <2>2. faults' # 0 BY <2>1 DEF ScriptsAre
  <2> QED BY <2>1, <2>2 DEF FixAhead
<1>15. CASE Abort
  <2>1. UNCHANGED <<script, pc, keys, prog, addr, tpa, missing, ran, faults>> BY <1>15 DEF Abort
  <2> QED BY <2>1 DEF FixAhead, FixAt, FixMachine, FixLine
<1> QED BY <1>1, <1>2, <1>3, <1>4, <1>5, <1>6, <1>7, <1>8, <1>9, <1>10, <1>11, <1>12, <1>13, <1>14, <1>15 DEF ScriptsNext

\* At the start no line has been typed.
LEMMA FixAtStart == ASSUME ScriptsInit \/ ScriptsIdle PROVE FixAhead
<1>1. ran = <<>> /\ keys = <<>> /\ prog = "ccp" BY DEF ScriptsInit, ScriptsIdle
<1>2. script = "fix" => pc = 1 BY DEF ScriptsInit, ScriptsIdle
<1>3. N \in Nat /\ Len(keys) = 0 BY <1>1, ProgramSize
<1>4. script = "fix" => FixAt(0, 0) BY <1>1, <1>2, <1>3 DEF FixAt, FixMachine
<1> QED BY <1>1, <1>4 DEF FixAhead

\* The property follows.
LEMMA FixIs == ASSUME ScriptsAre, FixAhead PROVE FixRunsWhole
<1>1. SUFFICES ASSUME ran # <<>>, faults = 0 PROVE ran = Program BY DEF FixRunsWhole
<1>2. script = "fix" BY <1>1 DEF FixAhead
<1>3. PICK c \in Nat, n \in Nat : FixAt(c, n) BY <1>1, <1>2 DEF FixAhead
<1> QED BY <1>1, <1>3 DEF FixAt, FixMachine

-----------------------------------------------------------------------------
(* TypesInStep: a script that waits for an answer finds it only when its line *)
(* has been read, as what is left of earlier answers does not show it.        *)

\* The scripts that wait for an answer before the next line.
Waiters == {"deploy", "ddt", "ddt_run", "console"}

\* The line typed last before step p.
LineFor(p) == IF Steps[p - 1].do = "type" THEN Steps[p - 1].line ELSE Steps[p - 2].line
\* The text awaited first from step p on.
Needle(p) ==
    IF Steps[p].do = "await" THEN Steps[p].needle
    ELSE IF Steps[p + 1].do = "await" THEN Steps[p + 1].needle ELSE Steps[p + 2].needle

\* Nothing in text s is n.
NotShown(s, n) == \A i \in 1 .. Len(s) : ~Shows(s[i], n)
\* Nothing that follows n in text s is m.
Ordered(s, n, m) == \A i, j \in 1 .. Len(s) : i < j /\ Shows(s[i], n) => ~Shows(s[j], m)

\* Where a script is in its dialogue with the machine.
InTurn ==
    /\ Step.do \in {"trigger", "type", "verify"} => keys = <<>>
    /\ Step.do \in {"type", "data", "verify"} => NotShown(out, Needle(pc))
    /\ Step.do = "data" => keys = <<>> \/ keys = <<LineFor(pc)>>
    /\ Step.do = "await" =>
          /\ NotShown(seen, Needle(pc))
          /\ keys = <<>> \/ (keys = <<LineFor(pc)>> /\ NotShown(out, Needle(pc)))
          /\ pc < Len(Steps) => Ordered(out, Needle(pc), Needle(pc + 1))

\* PIP runs while the file is sent, DDT while bytes are typed.
ProgramRuns ==
    /\ script = "deploy" /\ pc <= 3 => port = <<>> /\ (prog = "ccp" \/ (prog = "pip" /\ keys = <<>>))
    /\ prog = "pip" => script = "deploy" /\ pc \in {3, 4} /\ keys = <<>> /\ NotShown(out, <<"A>">>)
    /\ script = "deploy" /\ pc = 4 /\ (prog = "pip" \/ keys # <<>>) => port # <<>>
    /\ script \in {"ddt", "ddt_run"} =>
          /\ pc <= 3 => prog = "ccp"
          /\ pc = 4 => prog = IF keys = <<>> THEN "ddt" ELSE "ccp"
          /\ pc \in 5 .. 2 * N + 12 => prog \in {"ddt", "set"}

\* At most one line is on its way, and the dialogue is in order.
InStepNow == Len(keys) <= 1 /\ (Running => InTurn /\ ProgramRuns)
\* Nothing has gone wrong for a script that waits.
Waits == script \in Waiters /\ faults = 0 /\ missing = {}
\* The invariant behind TypesInStep.
WaitsInStep == Waits => InStepNow

\* Texts that end an answer.
Ends == {<<"A>">>, <<"-">>, <<"DESTINATION_DRIVE">>, <<"DESTINATION_ON_A">>}

\* Line l is typed, n awaited for it, and m for the next one.
RoundIs(l, n, m) ==
    \/ n \in Ends
    \/ n = <<"OK">> /\ m = <<"DESTINATION_DRIVE">>
    \/ l = <<"S">> /\ n = <<"addr", 0>> /\ m = <<"addr", 1>>
    \/ l[1] = "byte" /\ \E i \in 1 .. N : n = <<"addr", i>>
    \/ l = <<"D">> /\ n = <<"addr", LastRow>> /\ m = <<"A>">> /\ script \in {"ddt", "ddt_run"} /\ pc = 2 * N + 10

\* What follows the step of a script that waits.
Turn ==
    /\ Step.do \in {"type", "await", "trigger", "data", "verify"}
    /\ Step.do # "await" => pc + 1 <= Len(Steps)
    /\ Step.do = "trigger" => Steps[pc + 1].do = "type"
    /\ Step.do = "type" =>
          /\ Needle(pc + 1) = Needle(pc) /\ LineFor(pc + 1) = Step.line
          /\ Steps[pc + 1].do = "await" \/ (script = "deploy" /\ pc = 2 /\ Steps[pc + 1].do = "data")
    /\ Step.do = "data" =>
          /\ script = "deploy" /\ pc = 3 /\ Steps[pc + 1].do = "await" /\ Needle(pc + 1) = Needle(pc) /\ Needle(pc) = <<"A>">>
          /\ LineFor(pc) = <<"PIP">> /\ LineFor(pc + 1) = <<"PIP">>
    /\ Step.do = "verify" => Steps[pc + 1].do = "type" /\ Needle(pc + 1) = Needle(pc)
    /\ Step.do = "await" =>
          /\ Needle(pc) = Step.needle /\ Step.needle # <<"BLANK">>
          /\ pc < Len(Steps) =>
                Steps[pc + 1].do \in {"type", "verify"} /\ RoundIs(LineFor(pc), Needle(pc), Needle(pc + 1))

\* A line is typed and its answer awaited.
LEMMA TypeTurn ==
  ASSUME pc \in Nat, pc + 1 <= Len(Steps), Steps[pc].do = "type", Steps[pc + 1].do = "await"
  PROVE  Turn
<1>1. (pc + 1) - 1 = pc OBVIOUS
<1>2. Needle(pc) = Steps[pc + 1].needle /\ Needle(pc + 1) = Steps[pc + 1].needle BY DEF Needle
<1>3. LineFor(pc + 1) = Steps[pc].line BY <1>1 DEF LineFor
<1> QED BY <1>2, <1>3 DEF Turn, Step

\* An answer is awaited, and the next line is typed.
LEMMA AwaitTurn ==
  ASSUME pc \in Nat, Steps[pc].do = "await", Steps[pc].needle # <<"BLANK">>,
         pc < Len(Steps) => /\ Steps[pc + 1].do = "type" /\ Steps[pc + 2].do = "await"
                            /\ RoundIs(LineFor(pc), Steps[pc].needle, Steps[pc + 2].needle)
  PROVE  Turn
<1>1. (pc + 1) + 1 = pc + 2 OBVIOUS
<1>2. Needle(pc) = Steps[pc].needle BY DEF Needle
<1>3. pc < Len(Steps) => Needle(pc + 1) = Steps[pc + 2].needle BY <1>1 DEF Needle
<1> QED BY <1>2, <1>3 DEF Turn, Step

\* The deployment, step by step.
LEMMA DeployTurn == ASSUME ScriptsAre, Running, script = "deploy" PROVE Turn
<1>1. pc \in 1 .. 14 /\ Steps = siob_deploy /\ Len(Steps) = 14 BY DeploySteps
<1>2. /\ Steps[1] = [do |-> "trigger"] /\ Steps[2] = Type("PIP") /\ Steps[3] = [do |-> "data"]
      /\ Steps[4] = Await("A>", 3) /\ Steps[5] = Type("MLOAD") /\ Steps[6] = Await("A>", 4)
      /\ Steps[7] = Type("CPM56") /\ Steps[8] = Await("OK", -2) /\ Steps[9] = Type("SYSGEN")
      /\ Steps[10] = Await("DESTINATION_DRIVE", 5) /\ Steps[11] = Type("A")
      /\ Steps[12] = Await("DESTINATION_ON_A", -2) /\ Steps[13] = Type("CR")
      /\ Steps[14] = Await("FUNCTION_COMPLETE", -2)
  BY <1>1, DeployForm
<1>3. /\ Steps[1].do = "trigger" /\ Steps[2].do = "type" /\ Steps[2].line = <<"PIP">> /\ Steps[3].do = "data"
      /\ \A p \in {5, 7, 9, 11, 13} : Steps[p].do = "type"
      /\ \A p \in {4, 6, 8, 10, 12, 14} : Steps[p].do = "await"
      /\ Steps[4].needle = <<"A>">> /\ Steps[6].needle = <<"A>">> /\ Steps[8].needle = <<"OK">>
      /\ Steps[10].needle = <<"DESTINATION_DRIVE">> /\ Steps[12].needle = <<"DESTINATION_ON_A">>
      /\ Steps[14].needle = <<"FUNCTION_COMPLETE">>
  BY <1>2 DEF Type, Await
<1> HIDE DEF Steps
<1>4. CASE pc = 1 BY <1>1, <1>3, <1>4 DEF Turn, Step
<1>5. CASE pc = 2
  <2>1. /\ pc + 1 = 3 /\ pc + 2 = 4 /\ (pc + 1) + 1 = 4 /\ (pc + 1) - 1 = 2 BY <1>5
  <2>2. Needle(pc) = <<"A>">> /\ Needle(pc + 1) = <<"A>">> /\ LineFor(pc + 1) = <<"PIP">> BY <1>3, <1>5, <2>1 DEF Needle, LineFor
  <2> QED BY <1>1, <1>3, <1>5, <2>1, <2>2 DEF Turn, Step
<1>6. CASE pc = 3
  <2>1. /\ pc + 1 = 4 /\ (pc + 1) - 1 = 3 /\ (pc + 1) - 2 = 2 /\ pc - 1 = 2 BY <1>6
  <2>2. Needle(pc) = <<"A>">> /\ Needle(pc + 1) = <<"A>">> /\ LineFor(pc) = <<"PIP">> /\ LineFor(pc + 1) = <<"PIP">>
    BY <1>3, <1>6, <2>1 DEF Needle, LineFor
  <2> QED BY <1>1, <1>3, <1>6, <2>1, <2>2 DEF Turn, Step
<1>7. CASE pc \in {5, 7, 9, 11, 13}
  <2>1. pc \in Nat /\ pc + 1 <= Len(Steps) /\ pc + 1 \in {6, 8, 10, 12, 14} BY <1>1, <1>7
  <2>2. Steps[pc].do = "type" /\ Steps[pc + 1].do = "await" BY <1>3, <1>7, <2>1
  <2> QED BY <2>1, <2>2, TypeTurn
<1>8. CASE pc \in {4, 6, 8, 10, 12, 14}
  <2>1. Steps[pc].do = "await" /\ Steps[pc].needle # <<"BLANK">> /\ pc \in Nat BY <1>3, <1>8
  <2>2. CASE pc = 14
    <3>1. ~(pc < Len(Steps)) BY <2>2, <1>1
    <3> QED BY <2>1, <3>1, AwaitTurn
  <2>3. CASE pc \in {4, 6, 8, 10, 12}
    <3>1. pc + 1 \in {5, 7, 9, 11, 13} /\ pc + 2 \in {6, 8, 10, 12, 14} BY <2>3
    <3>2. Steps[pc + 1].do = "type" /\ Steps[pc + 2].do = "await" BY <1>3, <3>1
    <3>3. Steps[pc].needle \in Ends \/ (Steps[pc].needle = <<"OK">> /\ Steps[pc + 2].needle = <<"DESTINATION_DRIVE">>)
      <4>1. CASE pc = 8
        <5>1. pc + 2 = 10 BY <4>1
        <5> QED BY <4>1, <5>1, <1>3
      <4>2. CASE pc \in {4, 6, 10, 12} BY <4>2, <1>3 DEF Ends
      <4> QED BY <2>3, <4>1, <4>2
    <3>4. RoundIs(LineFor(pc), Steps[pc].needle, Steps[pc + 2].needle) BY <3>3 DEF RoundIs
    <3> QED BY <2>1, <3>2, <3>4, AwaitTurn
  <2> QED BY <1>8, <2>2, <2>3
<1> QED BY <1>1, <1>4, <1>5, <1>6, <1>7, <1>8

\* The commands of the test.
LEMMA ConsoleTurn == ASSUME ScriptsAre, Running, script = "console" PROVE Turn
<1>1. Steps = siob_console /\ Len(Steps) = 7 BY StepsAre, ConsoleForm
<1>2. pc \in 1 .. 7 BY <1>1, StepIs
<1>3. /\ Steps[1].do = "trigger"
      /\ \A p \in {2, 4, 6} : Steps[p].do = "type"
      /\ \A p \in {3, 5, 7} : Steps[p].do = "await" /\ Steps[p].needle = <<"A>">>
  BY <1>1, ConsoleForm DEF Type, Await
<1> HIDE DEF Steps
<1>4. CASE pc = 1 BY <1>1, <1>3, <1>4 DEF Turn, Step
<1>5. CASE pc \in {2, 4, 6}
  <2>1. pc \in Nat /\ pc + 1 <= Len(Steps) /\ pc + 1 \in {3, 5, 7} BY <1>1, <1>5
  <2>2. Steps[pc].do = "type" /\ Steps[pc + 1].do = "await" BY <1>3, <1>5, <2>1
  <2> QED BY <2>1, <2>2, TypeTurn
<1>6. CASE pc \in {3, 5, 7}
  <2>1. Steps[pc].do = "await" /\ Steps[pc].needle = <<"A>">> /\ Steps[pc].needle # <<"BLANK">> /\ pc \in Nat BY <1>3, <1>6
  <2>2. pc < Len(Steps) => pc + 1 \in {4, 6} /\ pc + 2 \in {5, 7} BY <1>1, <1>6
  <2>3. pc < Len(Steps) => Steps[pc + 1].do = "type" /\ Steps[pc + 2].do = "await" BY <1>3, <2>2
  <2>4. RoundIs(LineFor(pc), Steps[pc].needle, Steps[pc + 2].needle) BY <2>1 DEF RoundIs, Ends
  <2> QED BY <2>1, <2>3, <2>4, AwaitTurn
<1> QED BY <1>2, <1>4, <1>5, <1>6

\* The steps of ddt_deploy.py, with or without --run.
LEMMA DdtTable ==
  ASSUME ScriptsAre, Running, script \in {"ddt", "ddt_run"}
  PROVE  /\ Len(Steps) \in {2 * N + 17, 2 * N + 19} /\ pc \in 1 .. Len(Steps)
         /\ \A p \in {1, 3, 5, 2 * N + 7, 2 * N + 9, 2 * N + 12, 2 * N + 14, 2 * N + 16} : Steps[p].do = "type"
         /\ Steps[1].line = <<"CR">> /\ Steps[3].line = <<"DDT">> /\ Steps[5].line = <<"S">>
         /\ Steps[2 * N + 7].line = <<".">> /\ Steps[2 * N + 9].line = <<"D">>
         /\ Steps[2 * N + 12].line = <<"G0">> /\ Steps[2 * N + 14].line = <<"ERA">> /\ Steps[2 * N + 16].line = <<"SAVE">>
         /\ \A p \in {2, 4, 6, 2 * N + 8, 2 * N + 10, 2 * N + 13, 2 * N + 15, 2 * N + 17} : Steps[p].do = "await"
         /\ Steps[2].needle = <<"A>">> /\ Steps[4].needle = <<"-">> /\ Steps[6].needle = <<"addr", 0>>
         /\ Steps[2 * N + 8].needle = <<"-">> /\ Steps[2 * N + 10].needle = <<"addr", LastRow>>
         /\ \A p \in {2 * N + 13, 2 * N + 15, 2 * N + 17} : Steps[p].needle = <<"A>">>
         /\ Steps[2 * N + 11].do = "verify"
         /\ \A i \in 1 .. N : /\ Steps[2 * i + 5].do = "type" /\ Steps[2 * i + 5].line = <<"byte", Program[i]>>
                              /\ Steps[2 * i + 6].do = "await" /\ Steps[2 * i + 6].needle = <<"addr", i>>
         /\ Len(Steps) = 2 * N + 19 =>
               /\ Steps[2 * N + 18].do = "type" /\ Steps[2 * N + 18].line = <<"RUN">>
               /\ Steps[2 * N + 19].do = "await" /\ Steps[2 * N + 19].needle = <<"A>">>
<1>n. N \in Nat /\ N >= 1 BY ProgramSize
<1>1. Len(Steps) \in {2 * N + 17, 2 * N + 19} BY StepsAre, DdtForm, DdtRunForm
<1>2. pc \in 1 .. Len(Steps) BY StepIs
<1>3. ASSUME NEW p \in 1 .. 2 * N + 17 PROVE Steps[p] = ddt_deploy[p] BY <1>n, StepsAre, DdtRunForm
<1>4. Len(Steps) = 2 * N + 19 => Steps[2 * N + 18] = Type("RUN") /\ Steps[2 * N + 19] = Await("A>", 0)
  <2>1. Len(Steps) = 2 * N + 19 => script = "ddt_run" BY <1>n, StepsAre, DdtForm
  <2> QED BY <2>1, StepsAre, DdtRunForm
<1> HIDE DEF Steps
<1>5. /\ Steps[1] = Type("CR") /\ Steps[2] = Await("A>", 1) /\ Steps[3] = Type("DDT")
      /\ Steps[4] = Await("-", 0) /\ Steps[5] = Type("S") /\ Steps[6] = AwaitAddr(0)
  BY <1>n, <1>3, DdtForm
<1>6. /\ Steps[2 * N + 7] = Type(".") /\ Steps[2 * N + 8] = Await("-", 0)
      /\ Steps[2 * N + 9] = Type("D") /\ Steps[2 * N + 10] = AwaitAddr(LastRow)
      /\ Steps[2 * N + 11] = [do |-> "verify"]
  <2>1. \A k \in 7 .. 11 : Steps[2 * N + k] = ddt_deploy[2 * N + k]
    <3> TAKE k \in 7 .. 11
    <3>1. 2 * N + k \in 1 .. 2 * N + 17 BY <1>n
    <3> QED BY <3>1, <1>3
  <2> QED BY <2>1, DdtEnd
<1>7. /\ Steps[2 * N + 12] = Type("G0") /\ Steps[2 * N + 13] = Await("A>", 0) /\ Steps[2 * N + 14] = Type("ERA")
      /\ Steps[2 * N + 15] = Await("A>", 0) /\ Steps[2 * N + 16] = Type("SAVE") /\ Steps[2 * N + 17] = Await("A>", 0)
  <2>1. \A k \in 12 .. 17 : Steps[2 * N + k] = ddt_deploy[2 * N + k]
    <3> TAKE k \in 12 .. 17
    <3>1. 2 * N + k \in 1 .. 2 * N + 17 BY <1>n
    <3> QED BY <3>1, <1>3
  <2> QED BY <2>1, DdtEnd
<1>8. ASSUME NEW i \in 1 .. N PROVE Steps[2 * i + 5] = TypeByte(i) /\ Steps[2 * i + 6] = AwaitAddr(i)
  <2>1. 2 * i + 5 \in 1 .. 2 * N + 17 /\ 2 * i + 6 \in 1 .. 2 * N + 17 BY <1>n
  <2> QED BY <2>1, <1>3, DdtForm
<1>9. \A p \in {1, 3, 5, 2 * N + 7, 2 * N + 9, 2 * N + 12, 2 * N + 14, 2 * N + 16} : Steps[p].do = "type"
  BY <1>5, <1>6, <1>7 DEF Type
<1>10. \A p \in {2, 4, 6, 2 * N + 8, 2 * N + 10, 2 * N + 13, 2 * N + 15, 2 * N + 17} : Steps[p].do = "await"
  BY <1>5, <1>6, <1>7 DEF Await, AwaitAddr
<1>11. /\ Steps[1].line = <<"CR">> /\ Steps[3].line = <<"DDT">> /\ Steps[5].line = <<"S">>
       /\ Steps[2 * N + 7].line = <<".">> /\ Steps[2 * N + 9].line = <<"D">> /\ Steps[2 * N + 11].do = "verify"
  BY <1>5, <1>6 DEF Type
<1>12. /\ Steps[2].needle = <<"A>">> /\ Steps[4].needle = <<"-">> /\ Steps[6].needle = <<"addr", 0>>
       /\ Steps[2 * N + 8].needle = <<"-">> /\ Steps[2 * N + 10].needle = <<"addr", LastRow>>
       /\ \A p \in {2 * N + 13, 2 * N + 15, 2 * N + 17} : Steps[p].needle = <<"A>">>
  BY <1>5, <1>6, <1>7 DEF Await, AwaitAddr
<1>13. \A i \in 1 .. N : /\ Steps[2 * i + 5].do = "type" /\ Steps[2 * i + 5].line = <<"byte", Program[i]>>
                         /\ Steps[2 * i + 6].do = "await" /\ Steps[2 * i + 6].needle = <<"addr", i>>
  <2> TAKE i \in 1 .. N
  <2>1. Steps[2 * i + 5] = TypeByte(i) /\ Steps[2 * i + 6] = AwaitAddr(i) BY <1>8
  <2>2. TypeByte(i).do = "type" /\ TypeByte(i).line = <<"byte", Program[i]>> BY DEF TypeByte
  <2>3. AwaitAddr(i).do = "await" /\ AwaitAddr(i).needle = <<"addr", i>> BY DEF AwaitAddr
  <2> HIDE DEF TypeByte, AwaitAddr
  <2> QED BY <2>1, <2>2, <2>3
<1>14. Len(Steps) = 2 * N + 19 =>
          /\ Steps[2 * N + 18].do = "type" /\ Steps[2 * N + 18].line = <<"RUN">>
          /\ Steps[2 * N + 19].do = "await" /\ Steps[2 * N + 19].needle = <<"A>">>
  BY <1>4 DEF Type, Await
<1>15. Steps[2 * N + 12].line = <<"G0">> /\ Steps[2 * N + 14].line = <<"ERA">> /\ Steps[2 * N + 16].line = <<"SAVE">>
  BY <1>7 DEF Type
<1> QED BY <1>1, <1>2, <1>9, <1>10, <1>11, <1>12, <1>13, <1>14, <1>15

\* The steps of ddt_deploy.py that type, and the ones that wait.
LEMMA DdtKinds ==
  ASSUME ScriptsAre, Running, script \in {"ddt", "ddt_run"}
  PROVE  /\ \A p \in {1, 3, 5, 2 * N + 7, 2 * N + 9, 2 * N + 12, 2 * N + 14, 2 * N + 16} : Steps[p].do = "type"
         /\ \A p \in {2, 4, 6, 2 * N + 8, 2 * N + 10, 2 * N + 13, 2 * N + 15, 2 * N + 17} : Steps[p].do = "await"
BY DdtTable

\* The two steps of ddt_deploy.py for a byte.
LEMMA DdtByte ==
  ASSUME ScriptsAre, Running, script \in {"ddt", "ddt_run"}, NEW i \in 1 .. N
  PROVE  /\ Steps[2 * i + 5].do = "type" /\ Steps[2 * i + 5].line = <<"byte", Program[i]>>
         /\ Steps[2 * i + 6].do = "await" /\ Steps[2 * i + 6].needle = <<"addr", i>>
BY DdtTable

\* ddt_deploy.py types a line and waits; the lines of its waits up to the dump.
LEMMA DdtTurn ==
  ASSUME ScriptsAre, Running, script \in {"ddt", "ddt_run"}
  PROVE  /\ Turn
         /\ Step.do = "await" /\ pc <= 2 * N + 11 =>
               \/ pc = 2 /\ LineFor(pc) = <<"CR">>
               \/ pc = 4 /\ LineFor(pc) = <<"DDT">>
               \/ pc >= 5 /\ LineFor(pc)[1] \in {"S", "byte", ".", "D"}
         /\ pc > 2 * N + 12 /\ Step.do = "await" => LineFor(pc) \in {<<"G0">>, <<"ERA">>, <<"SAVE">>, <<"RUN">>}
         /\ pc \in {1, 3, 5, 2 * N + 12} => Step.do # "await"
<1>n. N \in Nat /\ N >= 1 BY ProgramSize
<1>0. pc \in 1 .. Len(Steps) /\ Len(Steps) \in {2 * N + 17, 2 * N + 19} /\ pc \in Nat
  <2>1. pc \in 1 .. Len(Steps) /\ Len(Steps) \in {2 * N + 17, 2 * N + 19} BY DdtTable
  <2> QED BY <2>1, <1>n
<1> HIDE DEF Steps
<1>t. ASSUME pc + 1 <= Len(Steps), Steps[pc].do = "type", Steps[pc + 1].do = "await" PROVE Turn /\ Step.do # "await"
  BY <1>0, <1>t, TypeTurn DEF Step
<1>a. ASSUME NEW l, NEW n, Steps[pc - 1].do = "type", Steps[pc - 1].line = l, Steps[pc].do = "await", Steps[pc].needle = n,
             Steps[pc + 1].do = "type", Steps[pc + 2].do = "await", n # <<"BLANK">>, RoundIs(l, n, Steps[pc + 2].needle)
      PROVE  Turn /\ LineFor(pc) = l
  <2>1. LineFor(pc) = l BY <1>a DEF LineFor
  <2> QED BY <1>0, <1>a, <2>1, AwaitTurn
<1>1. CASE pc \in {1, 3, 5}
  <2>1. pc + 1 \in {2, 4, 6} /\ pc + 1 <= Len(Steps) /\ pc <= 5 BY <1>n, <1>0, <1>1
  <2>2. Steps[pc].do = "type" /\ Steps[pc + 1].do = "await" BY <1>1, <2>1, DdtKinds
  <2> QED BY <1>t, <2>1, <2>2
<1>2. CASE pc = 2
  <2>1. pc - 1 = 1 /\ pc + 1 = 3 /\ pc + 2 = 4 BY <1>2
  <2>2. RoundIs(<<"CR">>, <<"A>">>, Steps[pc + 2].needle) BY DEF RoundIs, Ends
  <2>f. /\ Steps[pc - 1].do = "type" /\ Steps[pc - 1].line = <<"CR">> /\ Steps[pc].do = "await" /\ Steps[pc].needle = <<"A>">>
        /\ Steps[pc + 1].do = "type" /\ Steps[pc + 2].do = "await"
    <3>1. Steps[1].line = <<"CR">> /\ Steps[2].needle = <<"A>">> BY DdtTable
    <3>2. Steps[1].do = "type" /\ Steps[2].do = "await" /\ Steps[3].do = "type" /\ Steps[4].do = "await" BY DdtKinds
    <3> QED BY <1>2, <2>1, <3>1, <3>2
  <2>g. <<"A>">> # <<"BLANK">> OBVIOUS
  <2>3. Turn /\ LineFor(pc) = <<"CR">> BY <2>2, <2>f, <2>g, <1>a
  <2>4. ~(pc > 2 * N + 12) BY <1>2, <1>n
  <2> QED BY <1>2, <2>3, <2>4, <1>n
<1>3. CASE pc = 4
  <2>1. pc - 1 = 3 /\ pc + 1 = 5 /\ pc + 2 = 6 BY <1>3
  <2>2. RoundIs(<<"DDT">>, <<"-">>, Steps[pc + 2].needle) BY DEF RoundIs, Ends
  <2>f. /\ Steps[pc - 1].do = "type" /\ Steps[pc - 1].line = <<"DDT">> /\ Steps[pc].do = "await" /\ Steps[pc].needle = <<"-">>
        /\ Steps[pc + 1].do = "type" /\ Steps[pc + 2].do = "await"
    <3>1. Steps[3].line = <<"DDT">> /\ Steps[4].needle = <<"-">> BY DdtTable
    <3>2. Steps[3].do = "type" /\ Steps[4].do = "await" /\ Steps[5].do = "type" /\ Steps[6].do = "await" BY DdtKinds
    <3> QED BY <1>3, <2>1, <3>1, <3>2
  <2>g. <<"-">> # <<"BLANK">> OBVIOUS
  <2>3. Turn /\ LineFor(pc) = <<"DDT">> BY <2>2, <2>f, <2>g, <1>a
  <2>4. ~(pc > 2 * N + 12) BY <1>3, <1>n
  <2> QED BY <1>3, <2>3, <2>4, <1>n
<1>4. CASE pc = 6
  <2>1. pc - 1 = 5 /\ pc + 1 = 2 * 1 + 5 /\ pc + 2 = 2 * 1 + 6 /\ 1 \in 1 .. N BY <1>4, <1>n
  <2>2. Steps[pc + 1].do = "type" /\ Steps[pc + 2].do = "await" /\ Steps[pc + 2].needle = <<"addr", 1>>
    <3>1. Steps[2 * 1 + 5].do = "type" /\ Steps[2 * 1 + 6].do = "await" /\ Steps[2 * 1 + 6].needle = <<"addr", 1>>
      BY <2>1, DdtByte
    <3> QED BY <2>1, <3>1
  <2>3. RoundIs(<<"S">>, <<"addr", 0>>, Steps[pc + 2].needle) BY <2>2 DEF RoundIs
  <2>f. Steps[pc - 1].do = "type" /\ Steps[pc - 1].line = <<"S">> /\ Steps[pc].do = "await" /\ Steps[pc].needle = <<"addr", 0>>
    BY <1>4, <2>1, DdtTable
  <2>g. <<"addr", 0>> # <<"BLANK">> OBVIOUS
  <2>4. Turn /\ LineFor(pc) = <<"S">> BY <2>2, <2>3, <2>f, <2>g, <1>a
  <2>5. ~(pc > 2 * N + 12) BY <1>4, <1>n
  <2> QED BY <1>4, <2>4, <2>5, <1>n
<1>5. CASE \E i \in 1 .. N : pc = 2 * i + 5
  <2>1. PICK i \in 1 .. N : pc = 2 * i + 5 BY <1>5
  <2>2. pc + 1 = 2 * i + 6 /\ pc + 1 <= Len(Steps) BY <1>n, <1>0, <2>1
  <2>3. Steps[pc].do = "type" /\ Steps[pc + 1].do = "await" BY <2>1, <2>2, DdtByte
  <2> QED BY <1>t, <2>2, <2>3
<1>6. CASE \E i \in 1 .. N : pc = 2 * i + 6
  <2>1. PICK i \in 1 .. N : pc = 2 * i + 6 BY <1>6
  <2>2. pc - 1 = 2 * i + 5 /\ pc >= 5 /\ pc \notin {1, 3, 5} BY <2>1
  <2>3. Steps[pc - 1].do = "type" /\ Steps[pc - 1].line = <<"byte", Program[i]>>
        /\ Steps[pc].do = "await" /\ Steps[pc].needle = <<"addr", i>>
    BY <2>1, <2>2, DdtByte
  <2>4. Steps[pc + 1].do = "type" /\ Steps[pc + 2].do = "await"
    <3>1. CASE i = N
      <4>1. pc + 1 = 2 * N + 7 /\ pc + 2 = 2 * N + 8 BY <3>1, <2>1, <1>n
      <4> QED BY <4>1, DdtKinds
    <3>2. CASE i < N
      <4>1. i + 1 \in 1 .. N /\ pc + 1 = 2 * (i + 1) + 5 /\ pc + 2 = 2 * (i + 1) + 6 BY <3>2, <2>1, <1>n
      <4>2. Steps[2 * (i + 1) + 5].do = "type" /\ Steps[2 * (i + 1) + 6].do = "await" BY <4>1, DdtByte
      <4> QED BY <4>1, <4>2
    <3> QED BY <3>1, <3>2, <1>n
  <2>5. RoundIs(<<"byte", Program[i]>>, <<"addr", i>>, Steps[pc + 2].needle) BY DEF RoundIs
  <2>6. Turn /\ LineFor(pc) = <<"byte", Program[i]>> BY <2>3, <2>4, <2>5, <1>a
  <2>7. pc # 2 * N + 12 /\ ~(pc > 2 * N + 12) BY <2>1, <1>n
  <2> QED BY <2>2, <2>6, <2>7
<1>7. CASE pc = 2 * N + 8
  <2>1. pc - 1 = 2 * N + 7 /\ pc + 1 = 2 * N + 9 /\ pc + 2 = 2 * N + 10 /\ pc >= 5 /\ pc \notin {1, 3, 5, 2 * N + 12}
        /\ ~(pc > 2 * N + 12)
    BY <1>7, <1>n
  <2>2. RoundIs(<<".">>, <<"-">>, Steps[pc + 2].needle) BY DEF RoundIs, Ends
  <2>f. /\ Steps[pc - 1].do = "type" /\ Steps[pc - 1].line = <<".">> /\ Steps[pc].do = "await" /\ Steps[pc].needle = <<"-">>
        /\ Steps[pc + 1].do = "type" /\ Steps[pc + 2].do = "await"
    <3>1. Steps[2 * N + 7].line = <<".">> /\ Steps[2 * N + 8].needle = <<"-">> BY DdtTable
    <3>2. /\ Steps[2 * N + 7].do = "type" /\ Steps[2 * N + 8].do = "await"
          /\ Steps[2 * N + 9].do = "type" /\ Steps[2 * N + 10].do = "await"
      BY DdtKinds
    <3> QED BY <1>7, <2>1, <3>1, <3>2
  <2>g. <<"-">> # <<"BLANK">> OBVIOUS
  <2>3. Turn /\ LineFor(pc) = <<".">> BY <2>2, <2>f, <2>g, <1>a
  <2> QED BY <2>1, <2>3
<1>8. CASE pc \in {2 * N + 7, 2 * N + 9, 2 * N + 12, 2 * N + 14, 2 * N + 16}
  <2>1. pc + 1 \in {2 * N + 8, 2 * N + 10, 2 * N + 13, 2 * N + 15, 2 * N + 17} /\ pc + 1 <= Len(Steps) BY <1>n, <1>0, <1>8
  <2>2. Steps[pc].do = "type" /\ Steps[pc + 1].do = "await" BY <1>8, <2>1, DdtKinds
  <2> QED BY <1>t, <2>1, <2>2
<1>9. CASE pc = 2 * N + 10
  <2>1. /\ pc - 1 = 2 * N + 9 /\ pc + 1 = 2 * N + 11 /\ (pc + 1) + 1 = 2 * N + 12 /\ (pc + 1) + 2 = 2 * N + 13
        /\ pc >= 5 /\ pc \notin {1, 3, 5, 2 * N + 12} /\ ~(pc > 2 * N + 12)
    BY <1>9, <1>n
  <2>2. /\ Steps[pc - 1].do = "type" /\ Steps[pc - 1].line = <<"D">> /\ Steps[pc].do = "await"
        /\ Steps[pc].needle = <<"addr", LastRow>> /\ Steps[pc + 1].do = "verify" /\ Steps[(pc + 1) + 1].do = "type"
        /\ Steps[(pc + 1) + 2].needle = <<"A>">>
    <3>1. /\ Steps[2 * N + 9].line = <<"D">> /\ Steps[2 * N + 10].needle = <<"addr", LastRow>>
          /\ Steps[2 * N + 11].do = "verify" /\ Steps[2 * N + 13].needle = <<"A>">>
      BY DdtTable
    <3>2. Steps[2 * N + 9].do = "type" /\ Steps[2 * N + 10].do = "await" /\ Steps[2 * N + 12].do = "type" BY DdtKinds
    <3> QED BY <1>9, <2>1, <3>1, <3>2
  <2>3. LineFor(pc) = <<"D">> /\ Needle(pc) = <<"addr", LastRow>> /\ Needle(pc + 1) = <<"A>">>
    BY <2>2 DEF LineFor, Needle
  <2>4. RoundIs(<<"D">>, <<"addr", LastRow>>, <<"A>">>) BY <1>9 DEF RoundIs
  <2>5. <<"addr", LastRow>> # <<"BLANK">> OBVIOUS
  <2>6. Turn BY <2>2, <2>3, <2>4, <2>5 DEF Turn, Step
  <2> QED BY <2>1, <2>3, <2>6
<1>10. CASE pc = 2 * N + 11
  <2>1. /\ pc + 1 = 2 * N + 12 /\ pc + 2 = 2 * N + 13 /\ (pc + 1) + 1 = 2 * N + 13 /\ pc + 1 <= Len(Steps)
    BY <1>10, <1>n, <1>0
  <2>2. Steps[pc].do = "verify" /\ Steps[pc + 1].do = "type" /\ Steps[pc + 2].do = "await" BY <1>10, <2>1, DdtTable
  <2>3. Needle(pc) = Steps[pc + 2].needle /\ Needle(pc + 1) = Steps[pc + 2].needle BY <2>1, <2>2 DEF Needle
  <2>4. Turn BY <2>1, <2>2, <2>3 DEF Turn, Step
  <2> QED BY <2>2, <2>4 DEF Step
<1>11. CASE pc \in {2 * N + 13, 2 * N + 15, 2 * N + 17, 2 * N + 19}
  <2>1. Steps[pc].do = "await" /\ Steps[pc].needle = <<"A>">>
    <3>1. CASE pc \in {2 * N + 13, 2 * N + 15, 2 * N + 17} BY <3>1, DdtTable
    <3>2. CASE pc = 2 * N + 19
      <4>1. Len(Steps) = 2 * N + 19 BY <3>2, <1>0, <1>n
      <4> QED BY <3>2, <4>1, DdtTable
    <3> QED BY <1>11, <3>1, <3>2
  <2>2. pc < Len(Steps) => Steps[pc + 1].do = "type" /\ Steps[pc + 2].do = "await"
    <3> SUFFICES ASSUME pc < Len(Steps) PROVE Steps[pc + 1].do = "type" /\ Steps[pc + 2].do = "await" OBVIOUS
    <3>1. CASE pc \in {2 * N + 13, 2 * N + 15}
      <4>1. pc + 1 \in {2 * N + 14, 2 * N + 16} /\ pc + 2 \in {2 * N + 15, 2 * N + 17} BY <3>1, <1>n
      <4> QED BY <4>1, DdtKinds
    <3>2. CASE pc = 2 * N + 17
      <4>1. Len(Steps) = 2 * N + 19 /\ pc + 1 = 2 * N + 18 /\ pc + 2 = 2 * N + 19 BY <3>2, <1>0, <1>n
      <4> QED BY <4>1, DdtTable
    <3>3. pc # 2 * N + 19 BY <1>0, <1>n
    <3> QED BY <1>11, <3>1, <3>2, <3>3
  <2>3. RoundIs(LineFor(pc), Steps[pc].needle, Steps[pc + 2].needle) BY <2>1 DEF RoundIs, Ends
  <2>4. Turn BY <1>0, <2>1, <2>2, <2>3, AwaitTurn
  <2>5. pc > 2 * N + 12 /\ pc \notin {1, 3, 5} BY <1>11, <1>n
  <2>6. LineFor(pc) \in {<<"G0">>, <<"ERA">>, <<"SAVE">>, <<"RUN">>}
    <3>1. CASE pc \in {2 * N + 13, 2 * N + 15, 2 * N + 17}
      <4>1. pc - 1 \in {2 * N + 12, 2 * N + 14, 2 * N + 16} BY <3>1, <1>n
      <4>2. /\ Steps[2 * N + 12].line = <<"G0">> /\ Steps[2 * N + 14].line = <<"ERA">>
            /\ Steps[2 * N + 16].line = <<"SAVE">>
        BY DdtTable
      <4>3. Steps[pc - 1].do = "type" BY <4>1, DdtKinds
      <4>4. LineFor(pc) = Steps[pc - 1].line BY <4>3 DEF LineFor
      <4> QED BY <4>1, <4>2, <4>4
    <3>2. CASE pc = 2 * N + 19
      <4>1. Len(Steps) = 2 * N + 19 /\ pc - 1 = 2 * N + 18 BY <3>2, <1>0, <1>n
      <4> QED BY <4>1, DdtTable DEF LineFor
    <3> QED BY <1>11, <3>1, <3>2
  <2> QED BY <2>4, <2>5, <2>6, <1>n, <1>0
<1>12. CASE pc = 2 * N + 18
  <2>1. Len(Steps) = 2 * N + 19 /\ pc + 1 = 2 * N + 19 BY <1>12, <1>0, <1>n
  <2>2. Steps[pc].do = "type" /\ Steps[pc + 1].do = "await" /\ pc + 1 <= Len(Steps) BY <1>12, <2>1, DdtTable
  <2> QED BY <1>t, <2>2
<1>13. pc \in 1 .. 2 * N + 19 BY <1>0, <1>n
<1>14. \/ pc \in 1 .. 6
       \/ \E i \in 1 .. N : pc = 2 * i + 5 \/ pc = 2 * i + 6
       \/ \E k \in 7 .. 19 : pc = 2 * N + k
  BY <1>13, DdtPositions
<1>15. CASE pc \in 1 .. 6
  <2>1. pc \in {1, 3, 5} \/ pc = 2 \/ pc = 4 \/ pc = 6 BY <1>15
  <2> QED BY <2>1, <1>1, <1>2, <1>3, <1>4
<1>16. CASE \E k \in 7 .. 19 : pc = 2 * N + k
  <2>1. PICK k \in 7 .. 19 : pc = 2 * N + k BY <1>16
  <2>2. k \in {7, 8, 9, 10, 11, 12, 13, 14, 15, 16, 17, 18, 19} BY <2>1
  <2> QED BY <2>1, <2>2, <1>7, <1>8, <1>9, <1>10, <1>11, <1>12
<1> QED BY <1>14, <1>15, <1>16, <1>5, <1>6

\* ddt_deploy.py waits for no trigger and sends no file.
LEMMA DdtSteps ==
  ASSUME ScriptsAre, Running, script \in {"ddt", "ddt_run"}
  PROVE  Step.do \notin {"trigger", "data"} /\ (Step.do = "verify" => pc = 2 * N + 11)
<1>n. N \in Nat /\ N >= 1 BY ProgramSize
<1>0. pc \in 1 .. Len(Steps) /\ Len(Steps) \in {2 * N + 17, 2 * N + 19} BY DdtTable
<1>1. pc \in 1 .. 2 * N + 19 BY <1>0, <1>n
<1> HIDE DEF Steps
<1>2. CASE pc \in 1 .. 6
  <2>1. pc \in {1, 3, 5} \/ pc \in {2, 4, 6} BY <1>2
  <2>2. Steps[pc].do \in {"type", "await"} BY <2>1, DdtKinds
  <2> QED BY <2>2 DEF Step
<1>3. CASE \E i \in 1 .. N : pc = 2 * i + 5 \/ pc = 2 * i + 6
  <2>1. PICK i \in 1 .. N : pc = 2 * i + 5 \/ pc = 2 * i + 6 BY <1>3
  <2>2. Steps[pc].do \in {"type", "await"} BY <2>1, DdtByte
  <2> QED BY <2>2 DEF Step
<1>4. CASE \E k \in 7 .. 19 : pc = 2 * N + k
  <2>1. PICK k \in 7 .. 19 : pc = 2 * N + k BY <1>4
  <2>2. CASE k \in {7, 8, 9, 10, 12, 13, 14, 15, 16, 17}
    <3>1. \/ pc \in {2 * N + 7, 2 * N + 9, 2 * N + 12, 2 * N + 14, 2 * N + 16}
          \/ pc \in {2 * N + 8, 2 * N + 10, 2 * N + 13, 2 * N + 15, 2 * N + 17}
      BY <2>1, <2>2
    <3>2. Steps[pc].do \in {"type", "await"} BY <3>1, DdtKinds
    <3> QED BY <3>2 DEF Step
  <2>3. CASE k = 11
    <3>1. Steps[pc].do = "verify" BY <2>1, <2>3, DdtTable
    <3> QED BY <2>1, <2>3, <3>1 DEF Step
  <2>4. CASE k \in {18, 19}
    <3>1. Len(Steps) = 2 * N + 19 BY <2>1, <2>4, <1>0, <1>n
    <3>2. Steps[pc].do \in {"type", "await"} BY <2>1, <2>4, <3>1, DdtTable
    <3> QED BY <3>2 DEF Step
  <2>5. k \in {7, 8, 9, 10, 11, 12, 13, 14, 15, 16, 17, 18, 19} BY <2>1
  <2> QED BY <2>2, <2>3, <2>4, <2>5
<1> QED BY <1>1, <1>2, <1>3, <1>4, DdtPositions

\* The scripts that wait take turns with the machine.
LEMMA TurnIs == ASSUME ScriptsAre, Running, script \in Waiters PROVE Turn
BY DeployTurn, ConsoleTurn, DdtTurn DEF Waiters

\* Where a text is found.
LEMMA ShowsWord ==
  ASSUME NEW tok, NEW w \in AwaitedTexts, w # "BLANK"
  PROVE  Shows(tok, <<w>>) <=> tok = <<w>>
<1>1. <<w>> # <<"BLANK">> OBVIOUS
<1>2. \A a \in 0 .. N : <<w>> # <<"addr", a>> OBVIOUS
<1> QED BY <1>1, <1>2 DEF Shows

\* An address is found where memory is shown, or in the echo of a command.
LEMMA ShowsAddr ==
  ASSUME NEW tok \in Tokens, NEW a \in 0 .. N, Shows(tok, <<"addr", a>>)
  PROVE  \/ tok[1] = "at" /\ tok[2] = a
         \/ tok = <<"echo", <<"S">>>> /\ a = 0
         \/ tok = <<"echo", <<"D">>>>
<1>1. <<"addr", a>> # <<"BLANK">> OBVIOUS
<1>2. tok # <<"addr", a>>
  <2>1. \A w : <<w>> # <<"addr", a>> OBVIOUS
  <2>2. \A l : <<"echo", l>> # <<"addr", a>> OBVIOUS
  <2>3. \A x, y : <<"at", x, y>> # <<"addr", a>> OBVIOUS
  <2> QED BY <2>1, <2>2, <2>3 DEF Tokens
<1>3. \A b \in 0 .. N : <<"addr", a>> = <<"addr", b>> => a = b OBVIOUS
<1> QED BY <1>1, <1>2, <1>3 DEF Shows

\* Nothing is found in empty text.
LEMMA ShownEmpty == ASSUME NEW n, NEW m PROVE NotShown(<<>>, n) /\ Ordered(<<>>, n, m)
<1>1. Len(<<>>) = 0 OBVIOUS
<1> QED BY <1>1 DEF NotShown, Ordered

\* Text that is joined, and what is left of a longer one.
LEMMA ShownJoined ==
  ASSUME NEW S, NEW s \in Seq(S), NEW t \in Seq(S), NEW n, NEW m
  PROVE  /\ NotShown(s, n) /\ NotShown(t, n) => NotShown(s \o t, n)
         /\ NotShown(s \o t, n) => NotShown(s, n) /\ NotShown(t, n)
         /\ NotShown(s, n) /\ Ordered(t, n, m) => Ordered(s \o t, n, m)
         /\ Ordered(s \o t, n, m) => Ordered(t, n, m) /\ (NotShown(s, n) \/ NotShown(t, m))
<1> DEFINE u == s \o t
           a == Len(s)
           b == Len(t)
<1>1. a \in Nat /\ b \in Nat /\ Len(s) = a /\ Len(t) = b BY LenProperties
<1>2. Len(u) = a + b /\ (\A i \in 1 .. a : u[i] = s[i]) /\ (\A i \in 1 .. b : u[a + i] = t[i]) BY StepsJoin
<1> HIDE DEF u, a, b
<1>3. ASSUME NEW i \in 1 .. a + b, i > a PROVE i - a \in 1 .. b /\ u[i] = t[i - a]
  <2>1. i - a \in 1 .. b /\ a + (i - a) = i BY <1>1, <1>3
  <2> QED BY <2>1, <1>2
<1>4. ASSUME NEW i \in 1 .. b PROVE a + i \in 1 .. a + b /\ u[a + i] = t[i]
  <2>1. a + i \in 1 .. a + b BY <1>1
  <2> QED BY <2>1, <1>2
<1>5. ASSUME NotShown(s, n), NotShown(t, n) PROVE NotShown(u, n)
  <2> SUFFICES ASSUME NEW i \in 1 .. a + b PROVE ~Shows(u[i], n) BY <1>2 DEF NotShown
  <2>1. CASE i <= a
    <3>1. i \in 1 .. a BY <2>1, <1>1
    <3> QED BY <3>1, <1>1, <1>2, <1>5 DEF NotShown
  <2>2. CASE i > a BY <2>2, <1>1, <1>3, <1>5 DEF NotShown
  <2> QED BY <2>1, <2>2, <1>1
<1>6. ASSUME NotShown(u, n) PROVE NotShown(s, n) /\ NotShown(t, n)
  <2>1. ASSUME NEW i \in 1 .. a PROVE ~Shows(s[i], n)
    <3>1. i \in 1 .. a + b BY <1>1
    <3> QED BY <3>1, <1>2, <1>6 DEF NotShown
  <2>2. ASSUME NEW i \in 1 .. b PROVE ~Shows(t[i], n) BY <1>2, <1>4, <1>6 DEF NotShown
  <2> QED BY <1>1, <2>1, <2>2 DEF NotShown
<1>7. ASSUME NotShown(s, n), Ordered(t, n, m) PROVE Ordered(u, n, m)
  <2> SUFFICES ASSUME NEW i \in 1 .. a + b, NEW j \in 1 .. a + b, i < j, Shows(u[i], n) PROVE ~Shows(u[j], m)
    BY <1>2 DEF Ordered
  <2>1. i > a
    <3>1. ASSUME i <= a PROVE FALSE
      <4>1. i \in 1 .. a BY <3>1, <1>1
      <4> QED BY <4>1, <1>1, <1>2, <1>7 DEF NotShown
    <3> QED BY <3>1, <1>1
  <2>2. j > a /\ i - a < j - a BY <2>1, <1>1
  <2>3. i - a \in 1 .. b /\ u[i] = t[i - a] /\ j - a \in 1 .. b /\ u[j] = t[j - a] BY <2>1, <2>2, <1>3
  <2> QED BY <2>2, <2>3, <1>1, <1>7 DEF Ordered
<1>8. ASSUME Ordered(u, n, m) PROVE Ordered(t, n, m)
  <2> SUFFICES ASSUME NEW i \in 1 .. b, NEW j \in 1 .. b, i < j, Shows(t[i], n) PROVE ~Shows(t[j], m) BY <1>1 DEF Ordered
  <2>1. a + i < a + j BY <1>1
  <2>2. a + i \in 1 .. a + b /\ u[a + i] = t[i] /\ a + j \in 1 .. a + b /\ u[a + j] = t[j] BY <1>4
  <2> QED BY <2>1, <2>2, <1>2, <1>8 DEF Ordered
<1>9. ASSUME Ordered(u, n, m), ~NotShown(s, n) PROVE NotShown(t, m)
  <2>1. PICK i \in 1 .. a : Shows(s[i], n) BY <1>1, <1>9 DEF NotShown
  <2> SUFFICES ASSUME NEW j \in 1 .. b PROVE ~Shows(t[j], m) BY <1>1 DEF NotShown
  <2>2. i \in 1 .. a + b /\ u[i] = s[i] /\ i < a + j BY <1>1, <1>2, <2>1
  <2>3. a + j \in 1 .. a + b /\ u[a + j] = t[j] BY <1>4
  <2> QED BY <2>1, <2>2, <2>3, <1>2, <1>9 DEF Ordered
<1> QED BY <1>5, <1>6, <1>7, <1>8, <1>9 DEF u

\* What the answer to line l may be.
AnswerTo(l, toks) ==
    /\ \A i \in 1 .. Len(toks) : toks[i][1] # "echo"
    /\ \A i \in 1 .. Len(toks) : i < Len(toks) => toks[i] \notin Ends
    /\ \A i, j \in 1 .. Len(toks) : i < j /\ toks[i] = <<"OK">> => toks[j] # <<"DESTINATION_DRIVE">>
    /\ l[1] # "D" => \A i \in 1 .. Len(toks) : toks[i][1] = "at" => i = Len(toks) /\ (l[1] = "S" => toks[i][2] = 0)
    /\ l[1] = "D" /\ prog \in {"ddt", "set"} => \A i \in 1 .. Len(toks) : toks[i] # <<"A>">>

\* Answers of one and two texts.
LEMMA ShortAnswers ==
  ASSUME NEW l
  PROVE  /\ AnswerTo(l, <<>>)
         /\ \A w : w \notin {"at", "echo"} /\ (w = "A>" => l[1] # "D" \/ prog \notin {"ddt", "set"}) => AnswerTo(l, <<<<w>>>>)
         /\ \A v, w : /\ v \in {"?", "FAIL", "OK", "FUNCTION_COMPLETE"} /\ w \notin {"at", "echo"}
                      /\ w = "A>" => l[1] # "D" \/ prog \notin {"ddt", "set"}
                      /\ v = "OK" => w # "DESTINATION_DRIVE"
                      => AnswerTo(l, <<<<v>>, <<w>>>>)
         /\ \A a, b : (l[1] = "S" => a = 0) => AnswerTo(l, <<<<"at", a, b>>>>)
<1>1. AnswerTo(l, <<>>)
  <2>1. Len(<<>>) = 0 OBVIOUS
  <2> QED BY <2>1 DEF AnswerTo
<1>2. ASSUME NEW w, w \notin {"at", "echo"}, w = "A>" => l[1] # "D" \/ prog \notin {"ddt", "set"} PROVE AnswerTo(l, <<<<w>>>>)
  <2> DEFINE x == <<w>>
             t == <<x>>
  <2>1. x[1] = w /\ (x = <<"A>">> => w = "A>") OBVIOUS
  <2>2. Len(t) = 1 /\ t[1] = x OBVIOUS
  <2> HIDE DEF x, t
  <2>3. AnswerTo(l, t) BY <1>2, <2>1, <2>2 DEF AnswerTo
  <2> QED BY <2>3 DEF x, t
<1>3. ASSUME NEW v, NEW w, v \in {"?", "FAIL", "OK", "FUNCTION_COMPLETE"}, w \notin {"at", "echo"},
             w = "A>" => l[1] # "D" \/ prog \notin {"ddt", "set"}, v = "OK" => w # "DESTINATION_DRIVE"
      PROVE  AnswerTo(l, <<<<v>>, <<w>>>>)
  <2> DEFINE x == <<v>>
             y == <<w>>
             t == <<x, y>>
  <2>1. /\ x[1] = v /\ y[1] = w /\ (y = <<"A>">> => w = "A>") /\ x \notin Ends /\ x # <<"A>">> /\ (x = <<"OK">> => v = "OK")
        /\ y = <<"DESTINATION_DRIVE">> => w = "DESTINATION_DRIVE"
    BY <1>3 DEF Ends
  <2>2. Len(t) = 2 /\ t[1] = x /\ t[2] = y OBVIOUS
  <2> HIDE DEF x, y, t
  <2>3. AnswerTo(l, t) BY <1>3, <2>1, <2>2 DEF AnswerTo
  <2> QED BY <2>3 DEF x, y, t
<1>4. ASSUME NEW a, NEW b, l[1] = "S" => a = 0 PROVE AnswerTo(l, <<<<"at", a, b>>>>)
  <2> DEFINE x == <<"at", a, b>>
             t == <<x>>
  <2>1. x[1] = "at" /\ x[2] = a /\ x # <<"A>">> OBVIOUS
  <2>2. Len(t) = 1 /\ t[1] = x OBVIOUS
  <2> HIDE DEF x, t
  <2>3. AnswerTo(l, t) BY <1>4, <2>1, <2>2 DEF AnswerTo
  <2> QED BY <2>3 DEF x, t
<1> QED BY <1>1, <1>2, <1>3, <1>4

\* CCP's answers are such answers.
LEMMA CcpAnswers == ASSUME NEW toks, CcpDoes(toks) PROVE AnswerTo(Head(keys), toks)
<1> DEFINE l == Head(keys)
<1>1. prog \notin {"ddt", "set"} BY DEF CcpDoes
<1>2. toks \in {<<<<"-">>>>, <<>>, <<<<"DESTINATION_DRIVE">>>>, <<<<"A>">>>>, <<<<"FAIL">>, <<"A>">>>>, <<<<"OK">>, <<"A>">>>>}
  BY DEF CcpDoes
<1> HIDE DEF l
<1>3. /\ AnswerTo(l, <<<<"-">>>>) /\ AnswerTo(l, <<>>) /\ AnswerTo(l, <<<<"DESTINATION_DRIVE">>>>) /\ AnswerTo(l, <<<<"A>">>>>)
      /\ AnswerTo(l, <<<<"FAIL">>, <<"A>">>>>) /\ AnswerTo(l, <<<<"OK">>, <<"A>">>>>)
  BY <1>1, ShortAnswers
<1> QED BY <1>2, <1>3 DEF l

\* SYSGEN's answers.
LEMMA SysgenAnswers == ASSUME NEW toks, SysgenDoes(toks) PROVE AnswerTo(Head(keys), toks)
<1> DEFINE l == Head(keys)
<1>1. prog \notin {"ddt", "set"} BY DEF SysgenDoes
<1>2. toks \in {<<<<"DESTINATION_ON_A">>>>, <<<<"A>">>>>, <<<<"FUNCTION_COMPLETE">>, <<"DESTINATION_DRIVE">>>>}
  BY DEF SysgenDoes
<1> HIDE DEF l
<1>3. /\ AnswerTo(l, <<<<"DESTINATION_ON_A">>>>) /\ AnswerTo(l, <<<<"A>">>>>)
      /\ AnswerTo(l, <<<<"FUNCTION_COMPLETE">>, <<"DESTINATION_DRIVE">>>>)
  BY <1>1, ShortAnswers
<1> QED BY <1>2, <1>3 DEF l

\* DDT's answers.
LEMMA DdtAnswers == ASSUME ScriptsAre, NEW toks, DdtDoes(toks) PROVE AnswerTo(Head(keys), toks)
<1> DEFINE l == Head(keys)
<1>1. \/ l[1] = "S" /\ toks = <<<<"at", 0, tpa[1]>>>>
      \/ l[1] = "D" /\ toks = Append(Dump, <<"-">>)
      \/ l[1] \in {"G0", "G100"} /\ toks = <<<<"A>">>>>
      \/ toks = <<<<"?">>, <<"-">>>>
  BY DEF DdtDoes
<1>2. script \in ScriptNames BY DEF DdtDoes, ScriptsAre
<1> HIDE DEF l
<1>3. CASE l[1] = "S" /\ toks = <<<<"at", 0, tpa[1]>>>>
  <2>1. AnswerTo(l, <<<<"at", 0, tpa[1]>>>>) BY ShortAnswers
  <2> QED BY <2>1, <1>3 DEF l
<1>4. CASE l[1] \in {"G0", "G100"} /\ toks = <<<<"A>">>>>
  <2>1. AnswerTo(l, <<<<"A>">>>>) BY <1>4, ShortAnswers
  <2> QED BY <2>1, <1>4 DEF l
<1>5. CASE toks = <<<<"?">>, <<"-">>>>
  <2>1. AnswerTo(l, <<<<"?">>, <<"-">>>>) BY ShortAnswers
  <2> QED BY <2>1, <1>5 DEF l
<1>6. CASE l[1] = "D" /\ toks = Append(Dump, <<"-">>)
  <2>1. /\ N \in Nat /\ Dump \in Seq(Tokens) /\ Len(Dump) = N /\ <<"-">> \in Tokens
        /\ \A i \in 1 .. N : Dump[i] = <<"at", i - 1, tpa[i]>>
    BY <1>2, DumpIs, ProgramSize, Texts DEF AwaitedTexts
  <2>2. /\ Len(toks) = N + 1 /\ toks[N + 1] = <<"-">>
        /\ \A i \in 1 .. N : toks[i] = Dump[i]
    BY <1>6, <2>1, Grown
  <2>3. ASSUME NEW i \in 1 .. N + 1
        PROVE  /\ toks[i][1] # "echo" /\ toks[i] # <<"OK">> /\ toks[i] # <<"A>">>
               /\ i < N + 1 => toks[i] \notin Ends
    <3>1. CASE i = N + 1 BY <3>1, <2>2
    <3>2. CASE i \in 1 .. N
      <4>1. toks[i] = <<"at", i - 1, tpa[i]>> BY <3>2, <2>1, <2>2
      <4>2. \A a, b : <<"at", a, b>>[1] = "at" /\ <<"at", a, b>> \notin Ends /\ <<"at", a, b>> # <<"OK">> /\ <<"at", a, b>> # <<"A>">>
        BY DEF Ends
      <4> QED BY <4>1, <4>2
    <3> QED BY <3>1, <3>2, <2>1
  <2>4. AnswerTo(l, toks) BY <1>6, <2>2, <2>3 DEF AnswerTo
  <2> QED BY <2>4 DEF l
<1> QED BY <1>1, <1>3, <1>4, <1>5, <1>6

\* The S command's answers.
LEMMA SetAnswers == ASSUME NEW toks, SetDoes(toks) PROVE AnswerTo(Head(keys), toks)
<1> DEFINE l == Head(keys)
<1>1. \/ l[1] = "byte" /\ \E a, b : toks = <<<<"at", a, b>>>>
      \/ toks = <<<<"-">>>> \/ toks = <<<<"?">>, <<"-">>>>
  BY DEF SetDoes
<1> HIDE DEF l
<1>2. l[1] = "byte" => \A a, b : AnswerTo(l, <<<<"at", a, b>>>>) BY ShortAnswers
<1>3. AnswerTo(l, <<<<"-">>>>) /\ AnswerTo(l, <<<<"?">>, <<"-">>>>) BY ShortAnswers
<1> QED BY <1>1, <1>2, <1>3 DEF l

\* Nothing in an answer that comes behind the awaited text is what is awaited next.
LEMMA RoundOrdered ==
  ASSUME NEW l \in TypedLines, NEW toks \in Seq(Tokens), NEW n, NEW m, AnswerTo(l, toks), RoundIs(l, n, m),
         pc = 2 * N + 10 /\ script \in {"ddt", "ddt_run"} => prog \in {"ddt", "set"}
  PROVE  Ordered(<<<<"echo", l>>>> \o toks, n, m)
<1> DEFINE e == <<"echo", l>>
           w == <<e>>
           u == w \o toks
           k == Len(toks)
<1>n. N \in Nat /\ N >= 1 /\ LastRow \in 0 .. N BY ProgramSize
<1>1. e \in Tokens BY DEF Tokens
<1>2. w \in Seq(Tokens) /\ Len(w) = 1 /\ w[1] = e BY <1>1
<1>3. k \in Nat /\ Len(toks) = k BY LenProperties
<1>4. Len(u) = 1 + k /\ u[1] = e /\ \A i \in 1 .. k : u[1 + i] = toks[i]
  <2> HIDE DEF w
  <2>1. w \in Seq(Tokens) /\ toks \in Seq(Tokens) BY <1>2
  <2>2. Len(u) = Len(w) + Len(toks) /\ (\A i \in 1 .. Len(w) : u[i] = w[i]) /\ (\A i \in 1 .. Len(toks) : u[Len(w) + i] = toks[i])
    BY <2>1, StepsJoin
  <2> QED BY <1>2, <1>3, <2>2
<1>5. \A x \in AwaitedTexts : e # <<x>> OBVIOUS
<1>6. (e = <<"echo", <<"S">>>> => l = <<"S">>) /\ (e = <<"echo", <<"D">>>> => l = <<"D">>) /\ e[1] = "echo" OBVIOUS
<1>7. l[1] = "byte" => l # <<"S">> /\ l # <<"D">> OBVIOUS
<1> HIDE DEF e, w, k
<1> SUFFICES ASSUME NEW i \in 1 .. 1 + k, NEW j \in 1 .. 1 + k, i < j, Shows(u[i], n) PROVE ~Shows(u[j], m)
  BY <1>4 DEF Ordered, w, e
<1> HIDE DEF u
<1>8. j - 1 \in 1 .. k /\ u[j] = toks[j - 1]
  <2>1. j - 1 \in 1 .. k /\ 1 + (j - 1) = j BY <1>3
  <2> QED BY <2>1, <1>4
<1>9. toks[j - 1] \in Tokens BY <1>3, <1>8
<1>10. i # 1 => i - 1 \in 1 .. k /\ u[i] = toks[i - 1] /\ toks[i - 1] \in Tokens /\ i - 1 < j - 1 /\ i - 1 < k
  <2> SUFFICES ASSUME i # 1 PROVE i - 1 \in 1 .. k /\ u[i] = toks[i - 1] /\ toks[i - 1] \in Tokens /\ i - 1 < j - 1 /\ i - 1 < k
    OBVIOUS
  <2>1. i - 1 \in 1 .. k /\ 1 + (i - 1) = i /\ i - 1 < j - 1 /\ i - 1 < k BY <1>3
  <2> QED BY <2>1, <1>3, <1>4
<1>11. /\ \A y \in AwaitedTexts : y # "BLANK" /\ Shows(u[i], <<y>>) => i # 1 /\ toks[i - 1] = <<y>>
  BY <1>4, <1>5, <1>10, ShowsWord
<1>12. CASE n \in Ends
  <2>1. i # 1 /\ toks[i - 1] = n BY <1>11, <1>12 DEF Ends, AwaitedTexts
  <2>2. toks[i - 1] \notin Ends BY <1>3, <1>10, <2>1 DEF AnswerTo
  <2> QED BY <1>12, <2>1, <2>2
<1>13. CASE n = <<"OK">> /\ m = <<"DESTINATION_DRIVE">>
  <2>1. i # 1 /\ toks[i - 1] = <<"OK">> BY <1>11, <1>13 DEF AwaitedTexts
  <2>2. toks[j - 1] # <<"DESTINATION_DRIVE">> BY <1>3, <1>8, <1>10, <2>1 DEF AnswerTo
  <2> QED BY <1>8, <1>13, <2>2, ShowsWord DEF AwaitedTexts
<1>14. CASE l = <<"S">> /\ n = <<"addr", 0>> /\ m = <<"addr", 1>>
  <2>0. l[1] = "S" /\ 0 \in 0 .. N /\ 1 \in 0 .. N BY <1>14, <1>n
  <2>1. i = 1
    <3> SUFFICES ASSUME i # 1 PROVE FALSE OBVIOUS
    <3>0. toks[i - 1] \in Tokens /\ Shows(toks[i - 1], <<"addr", 0>>) BY <1>10, <1>14
    <3>1. toks[i - 1][1] = "at" \/ toks[i - 1][1] = "echo" BY <2>0, <3>0, ShowsAddr
    <3> QED BY <3>1, <2>0, <1>3, <1>10 DEF AnswerTo
  <2>2. ASSUME Shows(u[j], m) PROVE FALSE
    <3>0. toks[j - 1] \in Tokens /\ Shows(toks[j - 1], <<"addr", 1>>) BY <2>2, <1>8, <1>9, <1>14
    <3>1. (toks[j - 1][1] = "at" /\ toks[j - 1][2] = 1) \/ toks[j - 1][1] = "echo" BY <2>0, <3>0, ShowsAddr
    <3> QED BY <3>1, <2>0, <1>3, <1>8 DEF AnswerTo
  <2> QED BY <2>2
<1>15. CASE l[1] = "byte" /\ \E a \in 1 .. N : n = <<"addr", a>>
  <2>1. PICK a \in 1 .. N : n = <<"addr", a>> BY <1>15
  <2>2. a \in 0 .. N BY <1>n
  <2>3. CASE i = 1
    <3>1. e[1] = "at" \/ e = <<"echo", <<"S">>>> \/ e = <<"echo", <<"D">>>> BY <2>1, <2>2, <2>3, <1>1, <1>4, ShowsAddr
    <3> QED BY <3>1, <1>6, <1>7, <1>15
  <2>4. CASE i # 1
    <3>0. toks[i - 1] \in Tokens /\ Shows(toks[i - 1], <<"addr", a>>) BY <2>1, <2>4, <1>10
    <3>1. toks[i - 1][1] = "at" \/ toks[i - 1][1] = "echo" BY <2>2, <3>0, ShowsAddr
    <3> QED BY <3>1, <2>4, <1>3, <1>10, <1>15 DEF AnswerTo
  <2> QED BY <2>3, <2>4
<1>16. CASE l = <<"D">> /\ m = <<"A>">> /\ script \in {"ddt", "ddt_run"} /\ pc = 2 * N + 10
  <2>1. l[1] = "D" /\ prog \in {"ddt", "set"} BY <1>16
  <2>2. toks[j - 1] # <<"A>">> BY <2>1, <1>3, <1>8 DEF AnswerTo
  <2> QED BY <1>8, <1>16, <2>2, ShowsWord DEF AwaitedTexts
<1> QED BY <1>12, <1>13, <1>14, <1>15, <1>16 DEF RoundIs

\* The state after a step that leaves the script at step q.
LEMMA TurnTaken ==
  ASSUME UNCHANGED script, NEW q, pc' = q,
         /\ Steps[q].do \in {"trigger", "type", "verify"} => keys' = <<>>
         /\ Steps[q].do \in {"type", "data", "verify"} => NotShown(out', Needle(q))
         /\ Steps[q].do = "data" => keys' = <<>> \/ keys' = <<LineFor(q)>>
         /\ Steps[q].do = "await" =>
               /\ NotShown(seen', Needle(q))
               /\ keys' = <<>> \/ (keys' = <<LineFor(q)>> /\ NotShown(out', Needle(q)))
               /\ q < Len(Steps) => Ordered(out', Needle(q), Needle(q + 1))
  PROVE  InTurn'
<1>1. Steps' = Steps BY SameScript
<1> HIDE DEF Steps
<1>2. Step' = Steps[q] BY <1>1 DEF Step
<1>3. Needle(pc)' = Needle(q) BY <1>1 DEF Needle
<1>4. Needle(pc + 1)' = Needle(q + 1) BY <1>1 DEF Needle
<1>5. LineFor(pc)' = LineFor(q) BY <1>1 DEF LineFor
<1> HIDE DEF Needle, LineFor
<1> QED BY <1>1, <1>2, <1>3, <1>4, <1>5 DEF InTurn, NotShown, Ordered

\* A line that is only echoed.
LEMMA EchoOnly ==
  ASSUME ScriptsAre, keys # <<>>, Answer(<<>>), NotShown(out, <<"A>">>)
  PROVE  NotShown(out', <<"A>">>)
<1> DEFINE w == <<<<"echo", Head(keys)>>>>
           v == out \o w
<1>0. <<>> \in Seq(Tokens) BY Texts
<1>1. out' = v \o <<>> /\ w \in Seq(Tokens) /\ out \in Seq(Tokens) BY <1>0, AnswerIs DEF ScriptsAre
<1>2. NotShown(w, <<"A>">>)
  <2>1. w[1] = <<"echo", Head(keys)>> /\ Len(w) = 1 /\ <<"echo", Head(keys)>> # <<"A>">> OBVIOUS
  <2> HIDE DEF w
  <2> QED BY <2>1, ShowsWord DEF NotShown, AwaitedTexts
<1> HIDE DEF w
<1>3. v \in Seq(Tokens) /\ NotShown(v, <<"A>">>) BY <1>1, <1>2, ConcatProperties, ShownJoined
<1> HIDE DEF v
<1>4. v \o <<>> = v BY <1>3, ConcatEmptySeq
<1> QED BY <1>1, <1>3, <1>4

\* The line on its way is read and answered.
LEMMA AnswerInTurn ==
  ASSUME ScriptsAre, Waits, InStepNow, NEW toks \in Seq(Tokens), keys # <<>>, Answer(toks), AnswerTo(Head(keys), toks),
         UNCHANGED <<script, pc, seen, rc>>, Running /\ Step.do = "data" => toks = <<>>
  PROVE  /\ keys' = <<>> /\ Len(keys') <= 1
         /\ Running => InTurn' /\ Head(keys) = LineFor(pc) /\ Step.do \in {"data", "await"}
<1>1. /\ Len(keys) \in Nat /\ Len(keys) >= 1 /\ Len(keys') = Len(keys) - 1 /\ keys' \in Seq(TypedBy) /\ Head(keys) \in TypedBy
      /\ out' = (out \o <<<<"echo", Head(keys)>>>>) \o toks /\ <<<<"echo", Head(keys)>>>> \in Seq(Tokens)
  BY AnswerIs
<1>2. Len(keys) <= 1 BY DEF InStepNow
<1>3. Len(keys') = 0 BY <1>1, <1>2
<1>4. keys' = <<>> /\ Len(keys') <= 1
  <2>1. keys' = <<>> BY <1>1, <1>3, EmptySeq
  <2>2. Len(keys') <= 1 BY <1>3
  <2> QED BY <2>1, <2>2
<1>5. ASSUME Running PROVE InTurn' /\ Head(keys) = LineFor(pc) /\ Step.do \in {"data", "await"}
  <2>1. InTurn /\ Turn /\ ProgramRuns /\ pc \in 1 .. Len(Steps) /\ Len(Steps) \in Nat /\ script \in Waiters
    BY <1>5, TurnIs, StepIs DEF InStepNow, Waits
  <2>2. Step.do \in {"data", "await"} /\ keys = <<LineFor(pc)>> BY <2>1 DEF InTurn, Turn
  <2>3. Head(keys) = LineFor(pc) BY <2>2
  <2> DEFINE l == Head(keys)
             w == <<<<"echo", l>>>>
  <2>4. l \in TypedLines /\ w \in Seq(Tokens) /\ out \in Seq(Tokens) BY <1>1 DEF TypedBy, ScriptsAre
  <2>5. out' = (out \o w) \o toks BY <1>1
  <2>6. out' = out \o (w \o toks) /\ w \o toks \in Seq(Tokens)
    <3> HIDE DEF w
    <3>1. (out \o w) \o toks = out \o (w \o toks) BY <2>4, ConcatAssociative
    <3>2. w \o toks \in Seq(Tokens) BY <2>4, ConcatProperties
    <3> QED BY <3>1, <3>2, <2>5
  <2>7. CASE Step.do = "data"
    <3>1. NotShown(out, Needle(pc)) /\ Needle(pc) = <<"A>">> BY <2>1, <2>7 DEF InTurn, Turn
    <3>2. toks = <<>> BY <1>5, <2>7
    <3>6. NotShown(out', Needle(pc)) BY <3>1, <3>2, EchoOnly
    <3>7. InTurn' BY <1>4, <2>7, <3>6, TurnTaken DEF Step
    <3> QED BY <2>2, <2>3, <3>7 DEF l
  <2>8. CASE Step.do = "await"
    <3>1. NotShown(seen, Needle(pc)) /\ NotShown(out, Needle(pc)) BY <2>1, <2>2, <2>8 DEF InTurn
    <3>2. pc < Len(Steps) => RoundIs(l, Needle(pc), Needle(pc + 1)) BY <2>1, <2>3, <2>8 DEF Turn
    <3>3. pc = 2 * N + 10 /\ script \in {"ddt", "ddt_run"} => prog \in {"ddt", "set"}
      <4>1. N \in Nat /\ N >= 1 BY ProgramSize
      <4>2. pc = 2 * N + 10 => pc \in 5 .. 2 * N + 12 BY <4>1
      <4> QED BY <2>1, <4>2 DEF ProgramRuns
    <3>4. pc < Len(Steps) => Ordered(w \o toks, Needle(pc), Needle(pc + 1))
      BY <2>4, <3>2, <3>3, RoundOrdered
    <3> DEFINE z == w \o toks
    <3>5. z \in Seq(Tokens) /\ out' = out \o z BY <2>6
    <3> HIDE DEF w, l, z
    <3>6. pc < Len(Steps) => Ordered(out', Needle(pc), Needle(pc + 1))
      <4>1. pc < Len(Steps) => Ordered(z, Needle(pc), Needle(pc + 1)) BY <3>4 DEF z
      <4> QED BY <3>1, <3>5, <4>1, <2>4, ShownJoined
    <3>7. NotShown(seen', Needle(pc)) BY <3>1
    <3>8. InTurn' BY <1>4, <2>8, <3>6, <3>7, TurnTaken DEF Step
    <3> QED BY <2>2, <2>3, <3>8 DEF l
  <2> QED BY <2>2, <2>7, <2>8
<1> QED BY <1>4, <1>5

\* The lines whose answers the scripts wait for.
LEMMA TypedFor ==
  ASSUME ScriptsAre, Running, script \in Waiters, Step.do \in {"data", "await"}
  PROVE  /\ script = "deploy" => /\ pc >= 3 /\ (pc = 3 <=> Step.do = "data")
                                 /\ (pc \in {3, 4} => LineFor(pc) = <<"PIP">> /\ Needle(pc) = <<"A>">>)
                                 /\ (pc > 4 => LineFor(pc)[1] # "PIP") /\ LineFor(pc)[1] # "DDT"
         /\ script \in {"ddt", "ddt_run"} =>
               /\ Step.do = "await" /\ pc \notin {1, 3, 5, 2 * N + 12}
               /\ (pc = 2 => LineFor(pc) = <<"CR">>) /\ (pc = 4 => LineFor(pc) = <<"DDT">>)
               /\ (pc \in 5 .. 2 * N + 12 => LineFor(pc)[1] \in {"S", "byte", ".", "D"})
               /\ LineFor(pc)[1] # "PIP"
         /\ script = "console" => LineFor(pc)[1] # "PIP"
<1>n. N \in Nat /\ N >= 1 BY ProgramSize
<1>0. Turn /\ pc \in 1 .. Len(Steps) /\ Len(Steps) \in Nat BY TurnIs, StepIs
<1>1. CASE script = "deploy"
  <2>1. pc \in {3, 4, 6, 8, 10, 12, 14} /\ Steps = siob_deploy /\ (pc = 3 <=> Step.do = "data") BY <1>1, DeploySteps
  <2>2. CASE pc = 3
    <3>1. Needle(pc) = <<"A>">> /\ LineFor(pc) = <<"PIP">> BY <1>0, <2>1, <2>2 DEF Turn
    <3> QED BY <1>1, <2>1, <2>2, <3>1
  <2>3. CASE pc = 4
    <3>1. pc - 1 = 3 /\ pc - 2 = 2 BY <2>3
    <3>2. Needle(pc) = <<"A>">> BY <2>1, <2>3, DeployForm DEF Needle, Await
    <3>3. LineFor(pc) = <<"PIP">> BY <2>1, <3>1, DeployForm DEF LineFor, Type
    <3> QED BY <1>1, <2>1, <2>3, <3>2, <3>3
  <2>4. CASE pc \in {6, 8, 10, 12, 14}
    <3>1. pc - 1 \in {5, 7, 9, 11, 13} BY <2>4
    <3>2. Steps[pc - 1] \in {Type("MLOAD"), Type("CPM56"), Type("SYSGEN"), Type("A"), Type("CR")} BY <2>1, <3>1, DeployForm
    <3>3. LineFor(pc) \in {<<"MLOAD">>, <<"CPM56">>, <<"SYSGEN">>, <<"A">>, <<"CR">>} BY <3>2 DEF LineFor, Type
    <3> QED BY <1>1, <2>1, <2>4, <3>3
  <2> QED BY <2>1, <2>2, <2>3, <2>4
<1>2. CASE script \in {"ddt", "ddt_run"}
  <2>1. Step.do = "await" BY <1>0, <1>2 DEF Turn
  <2>2. pc \notin {1, 3, 5, 2 * N + 12} BY <1>2, <2>1, DdtTurn
  <2>3. CASE pc <= 2 * N + 11
    <3>1. \/ pc = 2 /\ LineFor(pc) = <<"CR">>
          \/ pc = 4 /\ LineFor(pc) = <<"DDT">>
          \/ pc >= 5 /\ LineFor(pc)[1] \in {"S", "byte", ".", "D"}
      BY <1>2, <2>1, <2>3, DdtTurn
    <3> QED BY <1>2, <2>1, <2>2, <3>1
  <2>4. CASE pc > 2 * N + 11
    <3>1. pc > 2 * N + 12 /\ pc \notin 5 .. 2 * N + 12 /\ pc \notin {2, 4} BY <1>0, <1>n, <2>2, <2>4
    <3>2. LineFor(pc) \in {<<"G0">>, <<"ERA">>, <<"SAVE">>, <<"RUN">>} BY <1>2, <2>1, <3>1, DdtTurn
    <3> QED BY <1>2, <2>1, <2>2, <3>1, <3>2
  <2> QED BY <1>0, <1>n, <2>3, <2>4
<1>3. CASE script = "console"
  <2>1. Steps = siob_console /\ pc \in 1 .. 7 BY <1>0, <1>3, StepsAre, ConsoleForm
  <2>2. Step.do = "await" BY <1>0, <1>3 DEF Turn
  <2>3. pc \in {3, 5, 7} BY <2>1, <2>2, ConsoleForm DEF Step, Type
  <2>4. pc - 1 \in {2, 4, 6} BY <2>3
  <2>5. LineFor(pc) \in {<<"DIR">>, <<"ASM">>, <<"TYPE">>} BY <2>1, <2>3, <2>4, ConsoleForm DEF LineFor, Type
  <2> QED BY <1>3, <2>5
<1> QED BY <1>1, <1>2, <1>3 DEF Waiters

\* CCP keeps WaitsInStep.
LEMMA CcpInStep == ASSUME ScriptsAre, WaitsInStep, Ccp PROVE WaitsInStep'
<1>1. PICK toks : CcpDoes(toks) BY CcpCases
<1>2. /\ prog = "ccp" /\ keys # <<>> /\ Answer(toks) /\ toks \in Seq(Tokens)
      /\ UNCHANGED <<script, port, pc, seen, missing, rc>> /\ (faults' = faults \/ faults' = faults + 1)
  BY <1>1 DEF CcpDoes
<1>3. SUFFICES ASSUME Waits' PROVE InStepNow' BY DEF WaitsInStep
<1>4. Waits /\ InStepNow
  <2>1. faults = 0 BY <1>2, <1>3 DEF Waits, ScriptsAre
  <2> QED BY <1>2, <1>3, <2>1 DEF Waits, WaitsInStep
<1>5. AnswerTo(Head(keys), toks) BY <1>1, CcpAnswers
<1>n. N \in Nat /\ N >= 1 BY ProgramSize
<1>6. ASSUME Running PROVE Turn /\ InTurn /\ ProgramRuns /\ script \in Waiters /\ pc \in Nat
  BY <1>4, <1>6, TurnIs DEF InStepNow, Waits, ScriptsAre
<1>7. \/ Head(keys)[1] = "DDT" /\ prog' = "ddt"
      \/ Head(keys)[1] = "PIP" /\ prog' = "pip" /\ toks = <<>>
      \/ Head(keys)[1] = "SYSGEN" /\ prog' = "sysgen"
      \/ prog' = "ccp" /\ Head(keys)[1] \notin {"DDT", "PIP"}
  BY <1>1, <1>4 DEF CcpDoes, There, Waits
<1>8. ASSUME Running, Step.do = "data" PROVE toks = <<>>
  <2>1. keys = <<LineFor(pc)>> /\ LineFor(pc) = <<"PIP">> BY <1>2, <1>6, <1>8 DEF Turn, InTurn
  <2>2. Head(keys)[1] = "PIP" BY <2>1
  <2> QED BY <1>7, <2>2
<1>9. /\ keys' = <<>> /\ Len(keys') <= 1
      /\ Running => InTurn' /\ Head(keys) = LineFor(pc) /\ Step.do \in {"data", "await"}
  BY <1>2, <1>4, <1>5, <1>8, AnswerInTurn
<1>10. ASSUME Running PROVE ProgramRuns'
  <2> DEFINE l == LineFor(pc)
  <2>1. Head(keys) = l /\ Step.do \in {"data", "await"} BY <1>9, <1>10
  <2>2. script = "deploy" => /\ pc >= 3 /\ (pc = 3 <=> Step.do = "data")
                             /\ (pc \in {3, 4} => l = <<"PIP">> /\ Needle(pc) = <<"A>">>)
                             /\ (pc > 4 => l[1] # "PIP") /\ l[1] # "DDT"
    BY <1>6, <1>10, <2>1, TypedFor
  <2>3. script \in {"ddt", "ddt_run"} =>
               /\ Step.do = "await" /\ pc \notin {1, 3, 5, 2 * N + 12}
               /\ (pc = 2 => l = <<"CR">>) /\ (pc = 4 => l = <<"DDT">>)
               /\ l[1] # "PIP"
    BY <1>6, <1>10, <2>1, TypedFor
  <2>4. script = "console" => l[1] # "PIP" BY <1>6, <1>10, <2>1, TypedFor
  <2>5. script \in Waiters /\ pc \in Nat BY <1>6, <1>10
  <2> HIDE DEF l
  <2>6. script = "deploy" /\ pc <= 3 => port' = <<>> /\ prog' = "pip"
    <3> SUFFICES ASSUME script = "deploy", pc <= 3 PROVE port' = <<>> /\ prog' = "pip" OBVIOUS
    <3>1. pc = 3 /\ l = <<"PIP">> BY <2>2, <2>5
    <3>2. Head(keys)[1] = "PIP" BY <2>1, <3>1
    <3>3. port = <<>> BY <1>6, <1>10 DEF ProgramRuns
    <3> QED BY <1>2, <1>7, <3>2, <3>3
  <2>7. prog' = "pip" => toks = <<>> /\ script = "deploy" /\ pc \in {3, 4} BY <1>7, <2>1, <2>2, <2>3, <2>4, <2>5 DEF Waiters
  <2>8. prog' = "pip" => NotShown(out', <<"A>">>)
    <3> SUFFICES ASSUME prog' = "pip" PROVE NotShown(out', <<"A>">>) OBVIOUS
    <3>1. Needle(pc) = <<"A>">> BY <2>2, <2>7
    <3>2. NotShown(out, Needle(pc)) BY <1>2, <1>6, <1>10, <2>1 DEF InTurn
    <3> QED BY <1>2, <2>7, <3>1, <3>2, EchoOnly
  <2>9. script = "deploy" /\ pc = 4 => port' # <<>> BY <1>2, <1>6, <1>10 DEF ProgramRuns
  <2>10. script \in {"ddt", "ddt_run"} => (pc <= 3 => prog' = "ccp") /\ (pc = 4 => prog' = "ddt") /\ pc \notin 5 .. 2 * N + 12
    <3> SUFFICES ASSUME script \in {"ddt", "ddt_run"}
                 PROVE  (pc <= 3 => prog' = "ccp") /\ (pc = 4 => prog' = "ddt") /\ pc \notin 5 .. 2 * N + 12
      OBVIOUS
    <3>1. pc \notin 5 .. 2 * N + 12 BY <1>2, <1>6, <1>10 DEF ProgramRuns
    <3>2. pc = 4 => prog' = "ddt"
      <4>1. pc = 4 => Head(keys)[1] = "DDT" BY <2>1, <2>3
      <4> QED BY <4>1, <1>7
    <3>3. pc <= 3 => prog' = "ccp"
      <4>1. pc <= 3 => pc = 2 \/ pc = 0 BY <2>3, <2>5
      <4>2. pc # 0 BY <1>10, StepIs
      <4>3. pc <= 3 => Head(keys)[1] = "CR" BY <2>1, <2>3, <4>1, <4>2
      <4> QED BY <4>3, <1>7
    <3> QED BY <3>1, <3>2, <3>3
  <2> QED BY <1>2, <1>9, <2>6, <2>7, <2>8, <2>9, <2>10 DEF ProgramRuns, NotShown
<1> QED BY <1>2, <1>9, <1>10 DEF InStepNow, Running

\* Another program than CCP answers.
LEMMA OtherInStep ==
  ASSUME ScriptsAre, WaitsInStep, prog \notin {"ccp", "pip"}, prog' # "pip", NEW toks \in Seq(Tokens), keys # <<>>, Answer(toks),
         AnswerTo(Head(keys), toks), UNCHANGED <<script, port, pc, seen, missing, rc, faults>>,
         prog \in {"ddt", "set"} /\ Head(keys)[1] \in {"S", "byte", ".", "D"} => prog' \in {"ddt", "set"}
  PROVE  WaitsInStep'
<1>1. SUFFICES ASSUME Waits' PROVE InStepNow' BY DEF WaitsInStep
<1>2. Waits /\ InStepNow BY <1>1 DEF Waits, WaitsInStep
<1>3. ASSUME Running PROVE Turn /\ InTurn /\ ProgramRuns /\ script \in Waiters /\ pc \in Nat
  BY <1>2, <1>3, TurnIs DEF InStepNow, Waits, ScriptsAre
<1>4. ASSUME Running PROVE Step.do # "data"
  <2>1. Step.do = "data" => script = "deploy" /\ pc = 3 BY <1>3, <1>4 DEF Turn
  <2> QED BY <1>3, <1>4, <2>1 DEF ProgramRuns
<1>5. /\ keys' = <<>> /\ Len(keys') <= 1
      /\ Running => InTurn' /\ Head(keys) = LineFor(pc) /\ Step.do \in {"data", "await"}
  BY <1>2, <1>4, AnswerInTurn
<1>6. ASSUME Running PROVE ProgramRuns'
  <2>1. ~(script = "deploy" /\ pc <= 3) BY <1>3, <1>6 DEF ProgramRuns
  <2>2. ASSUME script \in {"ddt", "ddt_run"} PROVE pc > 4 /\ (pc \in 5 .. 2 * N + 12 => prog' \in {"ddt", "set"})
    <3>1. pc > 4 BY <1>3, <1>6, <2>2 DEF ProgramRuns
    <3>2. pc \in 5 .. 2 * N + 12 => Head(keys)[1] \in {"S", "byte", ".", "D"} BY <1>3, <1>5, <1>6, <2>2, TypedFor
    <3>3. pc \in 5 .. 2 * N + 12 => prog \in {"ddt", "set"} BY <1>3, <1>6, <2>2 DEF ProgramRuns
    <3> QED BY <3>1, <3>2, <3>3
  <2>3. pc \in Nat BY <1>3, <1>6
  <2>4. ~(script' = "deploy" /\ pc' <= 3) BY <2>1
  <2>5. script' \in {"ddt", "ddt_run"} => ~(pc' <= 3) /\ pc' # 4 /\ (pc' \in 5 .. 2 * N + 12 => prog' \in {"ddt", "set"})
    BY <2>2, <2>3
  <2> QED BY <1>5, <2>4, <2>5 DEF ProgramRuns
<1> QED BY <1>5, <1>6 DEF InStepNow, Running

\* SYSGEN keeps WaitsInStep.
LEMMA SysgenInStep == ASSUME ScriptsAre, WaitsInStep, Sysgen PROVE WaitsInStep'
<1>1. PICK toks : SysgenDoes(toks) BY SysgenCases
<1>2. AnswerTo(Head(keys), toks) BY <1>1, SysgenAnswers
<1>3. /\ prog \in {"sysgen", "sysgen_on_A"} /\ prog' # "pip" /\ toks \in Seq(Tokens) /\ keys # <<>> /\ Answer(toks)
      /\ UNCHANGED <<script, port, pc, seen, missing, rc, faults>>
  BY <1>1 DEF SysgenDoes
<1> QED BY <1>2, <1>3, OtherInStep

\* DDT keeps WaitsInStep.
LEMMA DdtInStep == ASSUME ScriptsAre, WaitsInStep, Ddt PROVE WaitsInStep'
<1>1. PICK toks : DdtDoes(toks) BY DdtCases
<1>2. AnswerTo(Head(keys), toks) BY <1>1, DdtAnswers
<1>3. /\ prog = "ddt" /\ prog' # "pip" /\ toks \in Seq(Tokens) /\ keys # <<>> /\ Answer(toks)
      /\ UNCHANGED <<script, port, pc, seen, missing, rc, faults>>
      /\ Head(keys)[1] \in {"S", "byte", ".", "D"} => prog' \in {"ddt", "set"}
  BY <1>1 DEF DdtDoes
<1> QED BY <1>2, <1>3, OtherInStep

\* DDT's S command keeps WaitsInStep.
LEMMA SetInStep == ASSUME ScriptsAre, WaitsInStep, Set PROVE WaitsInStep'
<1>1. PICK toks : SetDoes(toks) BY SetCases
<1>2. AnswerTo(Head(keys), toks) BY <1>1, SetAnswers
<1>3. /\ prog = "set" /\ prog' # "pip" /\ toks \in Seq(Tokens) /\ keys # <<>> /\ Answer(toks)
      /\ UNCHANGED <<script, port, pc, seen, missing, rc, faults>> /\ prog' \in {"ddt", "set"}
  BY <1>1 DEF SetDoes
<1> QED BY <1>2, <1>3, OtherInStep

\* PIP keeps WaitsInStep.
LEMMA PipInStep == ASSUME ScriptsAre, WaitsInStep, Pip PROVE WaitsInStep'
<1>1. /\ prog = "pip" /\ port # <<>> /\ out' = Append(out, <<"A>">>) /\ prog' = "ccp"
      /\ UNCHANGED <<script, pc, seen, keys, missing, rc, faults>>
  BY DEF Pip
<1>2. SUFFICES ASSUME Waits' PROVE InStepNow' BY DEF WaitsInStep
<1>3. Waits /\ InStepNow BY <1>1, <1>2 DEF Waits, WaitsInStep
<1>4. ASSUME Running PROVE InTurn' /\ ProgramRuns'
  <2>1. Turn /\ InTurn /\ ProgramRuns /\ script \in Waiters /\ pc \in 1 .. Len(Steps) /\ Len(Steps) \in Nat
    BY <1>3, <1>4, TurnIs, StepIs DEF InStepNow, Waits
  <2>2. script = "deploy" /\ pc = 4 /\ keys = <<>> /\ NotShown(out, <<"A>">>) BY <1>1, <2>1 DEF ProgramRuns
  <2>3. Step.do = "await" BY <1>4, <2>2, DeploySteps
  <2>4. Needle(pc) = <<"A>">> BY <1>4, <2>1, <2>2, <2>3, TypedFor
  <2> DEFINE x == <<<<"A>">>>>
             m == Needle(pc + 1)
  <2>5. x \in Seq(Tokens) /\ out \in Seq(Tokens) BY Texts DEF ScriptsAre, AwaitedTexts
  <2>6. out' = out \o x BY <1>1, <2>5, AppendIsConcat
  <2>7. Ordered(x, <<"A>">>, m)
    <3>1. Len(x) = 1 OBVIOUS
    <3> QED BY <3>1 DEF Ordered
  <2> HIDE DEF x, m
  <2>8. Ordered(out', <<"A>">>, m) BY <2>2, <2>5, <2>6, <2>7, ShownJoined
  <2>9. NotShown(seen', Needle(pc)) BY <1>1, <2>1, <2>3 DEF InTurn
  <2>10. InTurn' BY <1>1, <2>2, <2>3, <2>4, <2>8, <2>9, TurnTaken DEF Step, m
  <2>11. ProgramRuns' BY <1>1, <2>2 DEF ProgramRuns
  <2> QED BY <2>10, <2>11
<1>5. Len(keys') <= 1 BY <1>1, <1>3 DEF InStepNow
<1> QED BY <1>1, <1>4, <1>5 DEF InStepNow, Running

\* The wait for the trigger keeps WaitsInStep.
LEMMA TriggerInStep == ASSUME ScriptsAre, WaitsInStep, AwaitTrigger PROVE WaitsInStep'
<1>1. /\ Running /\ Step.do = "trigger" /\ UNCHANGED <<script, port, keys, prog, missing, faults>>
      /\ (pc' = pc + 1 /\ seen' = <<>> /\ rc' = StatusAt(pc + 1) /\ out' = <<>>) \/ rc' = 2
  BY DEF AwaitTrigger, Goto
<1>2. SUFFICES ASSUME Waits' PROVE InStepNow' BY DEF WaitsInStep
<1>3. Waits /\ InStepNow BY <1>1, <1>2 DEF Waits, WaitsInStep
<1>4. Turn /\ InTurn /\ ProgramRuns /\ script \in Waiters /\ pc \in 1 .. Len(Steps) /\ Len(Steps) \in Nat
  BY <1>1, <1>3, TurnIs, StepIs DEF InStepNow, Waits
<1>5. keys = <<>> /\ Steps[pc + 1].do = "type" BY <1>1, <1>4 DEF InTurn, Turn
<1>6. Len(keys') <= 1
  <2>1. Len(<<>>) = 0 OBVIOUS
  <2> QED BY <1>1, <1>5, <2>1
<1>7. ASSUME Running' PROVE InTurn' /\ ProgramRuns'
  <2>1. pc' = pc + 1 /\ out' = <<>> BY <1>1, <1>7 DEF Running
  <2>2. NotShown(out', Needle(pc + 1)) BY <2>1, ShownEmpty
  <2>3. InTurn' BY <1>1, <1>5, <2>1, <2>2, TurnTaken
  <2>4. pc = 1 /\ script \in {"deploy", "console"}
    <3>1. CASE script = "deploy" BY <1>1, <3>1, DeploySteps
    <3>2. CASE script = "console"
      <4>1. Steps = siob_console /\ Len(Steps) = 7 BY <3>2, StepsAre, ConsoleForm
      <4>2. pc \in 1 .. 7 BY <1>4, <4>1
      <4> QED BY <1>1, <3>2, <4>1, <4>2, ConsoleForm DEF Step, Type, Await
    <3>3. CASE script \in {"ddt", "ddt_run"} BY <1>1, <3>3, DdtSteps
    <3> QED BY <1>4, <3>1, <3>2, <3>3 DEF Waiters
  <2>5. prog # "pip" BY <1>4, <2>4 DEF ProgramRuns
  <2>6. pc' = 2 BY <2>1, <2>4
  <2>7. script = "deploy" => port' = <<>> /\ prog' = "ccp" BY <1>1, <1>4, <2>4, <2>5 DEF ProgramRuns
  <2>8. script' \notin {"ddt", "ddt_run"} BY <1>1, <2>4
  <2>9. ProgramRuns' BY <1>1, <1>5, <2>5, <2>6, <2>7, <2>8 DEF ProgramRuns
  <2> QED BY <2>3, <2>9
<1> QED BY <1>6, <1>7 DEF InStepNow

\* What is not there is followed by nothing.
LEMMA NothingFollows == ASSUME NEW s, NEW n, NEW m, NotShown(s, n) PROVE Ordered(s, n, m)
BY DEF NotShown, Ordered

\* Which steps of a script that waits are waits.
LEMMA AwaitsAt ==
  ASSUME ScriptsAre, Running, script \in Waiters
  PROVE  /\ script = "deploy" => /\ Step.do = "type" => pc \in {2, 5, 7, 9, 11, 13}
                                 /\ Step.do = "await" => pc \in {4, 6, 8, 10, 12, 14}
         /\ script \in {"ddt", "ddt_run"} => /\ Step.do = "type" => pc \notin {2, 4}
                                             /\ Step.do = "await" => pc \notin {1, 3}
         /\ Step.do = "verify" => script \in {"ddt", "ddt_run"} /\ pc = 2 * N + 11
<1>1. CASE script = "deploy"
  <2>1. /\ pc \in 1 .. 14 /\ (Step.do = "type" <=> pc \in {2, 5, 7, 9, 11, 13})
        /\ (Step.do = "await" <=> pc \in {4, 6, 8, 10, 12, 14}) /\ (Step.do = "trigger" <=> pc = 1) /\ (Step.do = "data" <=> pc = 3)
    BY <1>1, DeploySteps
  <2>2. pc \in {2, 5, 7, 9, 11, 13} \/ pc \in {4, 6, 8, 10, 12, 14} \/ pc = 1 \/ pc = 3 BY <2>1
  <2>3. Step.do # "verify" BY <2>1, <2>2
  <2> QED BY <1>1, <2>1, <2>3
<1>2. CASE script \in {"ddt", "ddt_run"}
  <2>1. Step.do = "verify" => pc = 2 * N + 11 BY <1>2, DdtSteps
  <2>2. Steps[1].do = "type" /\ Steps[3].do = "type" /\ Steps[2].do = "await" /\ Steps[4].do = "await" BY <1>2, DdtTable
  <2>3. /\ Step.do = "type" => pc \notin {2, 4}
        /\ Step.do = "await" => pc \notin {1, 3}
    BY <2>2 DEF Step
  <2> QED BY <1>2, <2>1, <2>3
<1>3. CASE script = "console"
  <2>1. Steps = siob_console /\ Len(Steps) = 7 BY <1>3, StepsAre, ConsoleForm
  <2>2. pc \in 1 .. 7 BY <2>1, StepIs
  <2>3. Step.do # "verify" BY <2>1, <2>2, ConsoleForm DEF Step, Type, Await
  <2> QED BY <1>3, <2>3
<1> QED BY <1>1, <1>2, <1>3 DEF Waiters

\* A script at its turn, and what it knows.
LEMMA AtTurn ==
  ASSUME ScriptsAre, Waits, InStepNow, Running
  PROVE  Turn /\ InTurn /\ ProgramRuns /\ script \in Waiters /\ pc \in 1 .. Len(Steps) /\ Len(Steps) \in Nat /\ pc \in Nat
BY TurnIs, StepIs DEF InStepNow, Waits, ScriptsAre

\* Typing a line keeps WaitsInStep.
LEMMA SendInStep == ASSUME ScriptsAre, WaitsInStep, Send PROVE WaitsInStep'
<1>1. /\ Running /\ Step.do = "type" /\ UNCHANGED <<script, port, out, prog, missing, faults>>
      /\ keys' = Append(keys, Step.line) /\ pc' = pc + 1 /\ seen' = <<>>
  BY DEF Send, Goto
<1>2. SUFFICES ASSUME Waits' PROVE InStepNow' BY DEF WaitsInStep
<1>3. Waits /\ InStepNow BY <1>1, <1>2 DEF Waits, WaitsInStep
<1>4. Turn /\ InTurn /\ ProgramRuns /\ script \in Waiters /\ pc \in Nat BY <1>1, <1>3, AtTurn
<1>5. /\ keys = <<>> /\ NotShown(out, Needle(pc)) /\ Needle(pc + 1) = Needle(pc) /\ LineFor(pc + 1) = Step.line
      /\ Steps[pc + 1].do \in {"await", "data"}
  BY <1>1, <1>4 DEF InTurn, Turn
<1>6. keys' = <<LineFor(pc + 1)>> /\ keys' # <<>> /\ Len(keys') = 1
  <2>1. \A x : Append(<<>>, x) = <<x>> OBVIOUS
  <2>2. keys' = <<LineFor(pc + 1)>> BY <1>1, <1>5, <2>1
  <2>3. \A x : <<x>> # <<>> /\ Len(<<x>>) = 1 OBVIOUS
  <2> QED BY <2>2, <2>3
<1>7. InTurn'
  <2>1. NotShown(out', Needle(pc + 1)) BY <1>1, <1>5
  <2>2. NotShown(seen', Needle(pc + 1)) BY <1>1, ShownEmpty
  <2>3. Ordered(out', Needle(pc + 1), Needle((pc + 1) + 1)) BY <2>1, NothingFollows
  <2> QED BY <1>1, <1>5, <1>6, <2>1, <2>2, <2>3, TurnTaken
<1>8. ProgramRuns'
  <2>1. /\ script = "deploy" => pc \in {2, 5, 7, 9, 11, 13}
        /\ script \in {"ddt", "ddt_run"} => pc \notin {2, 4}
    BY <1>1, <1>4, AwaitsAt
  <2>2. prog # "pip" BY <1>4, <2>1 DEF ProgramRuns
  <2>3. script = "deploy" => (pc + 1 <= 3 => port = <<>> /\ prog = "ccp") /\ pc + 1 # 4 BY <1>4, <2>1, <2>2 DEF ProgramRuns
  <2>4. script \in {"ddt", "ddt_run"} =>
          /\ pc + 1 <= 3 => prog = "ccp"
          /\ pc + 1 = 4 => prog = "ccp"
          /\ pc + 1 \in 5 .. 2 * N + 12 => prog \in {"ddt", "set"}
    <3> SUFFICES ASSUME script \in {"ddt", "ddt_run"}
                 PROVE  /\ pc + 1 <= 4 => prog = "ccp"
                        /\ pc + 1 \in 5 .. 2 * N + 12 => prog \in {"ddt", "set"}
      BY <1>4
    <3>n. N \in Nat /\ N >= 1 BY ProgramSize
    <3>1. pc + 1 <= 4 => pc <= 3 BY <1>4
    <3>2. pc + 1 \in 5 .. 2 * N + 12 => pc \in 5 .. 2 * N + 12 BY <1>4, <2>1, <3>n
    <3> QED BY <1>4, <3>1, <3>2 DEF ProgramRuns
  <2> QED BY <1>1, <1>6, <2>2, <2>3, <2>4 DEF ProgramRuns
<1> QED BY <1>6, <1>7, <1>8 DEF InStepNow

\* The HEX file keeps WaitsInStep.
LEMMA DataInStep == ASSUME ScriptsAre, WaitsInStep, SendData PROVE WaitsInStep'
<1>1. /\ Running /\ Step.do = "data" /\ UNCHANGED <<script, out, keys, prog, missing>>
      /\ (port' = <<"new">> /\ faults' = faults) \/ faults' = faults + 1
      /\ pc' = pc + 1 /\ seen' = <<>>
  BY DEF SendData, Goto
<1>2. SUFFICES ASSUME Waits' PROVE InStepNow' BY DEF WaitsInStep
<1>3. faults = 0 /\ port' = <<"new">> BY <1>1, <1>2 DEF Waits, ScriptsAre
<1>4. Waits /\ InStepNow BY <1>1, <1>2, <1>3 DEF Waits, WaitsInStep
<1>5. Turn /\ InTurn /\ ProgramRuns /\ script \in Waiters /\ pc \in Nat BY <1>1, <1>4, AtTurn
<1>6. /\ script = "deploy" /\ pc = 3 /\ Steps[pc + 1].do = "await" /\ Needle(pc + 1) = Needle(pc) /\ Needle(pc) = <<"A>">>
      /\ LineFor(pc) = LineFor(pc + 1) /\ NotShown(out, Needle(pc)) /\ (keys = <<>> \/ keys = <<LineFor(pc)>>)
  BY <1>1, <1>5 DEF Turn, InTurn
<1>7. InTurn'
  <2>1. NotShown(out', Needle(pc + 1)) BY <1>1, <1>6
  <2>2. NotShown(seen', Needle(pc + 1)) BY <1>1, ShownEmpty
  <2>3. Ordered(out', Needle(pc + 1), Needle((pc + 1) + 1)) BY <2>1, NothingFollows
  <2> QED BY <1>1, <1>6, <2>1, <2>2, <2>3, TurnTaken
<1>8. ProgramRuns'
  <2>1. prog = "pip" => keys = <<>> /\ NotShown(out, <<"A>">>) BY <1>5 DEF ProgramRuns
  <2>2. pc' = 4 /\ port' # <<>> /\ script' = "deploy" BY <1>1, <1>3, <1>6
  <2>3. prog' = "pip" => keys' = <<>> /\ NotShown(out', <<"A>">>) BY <1>1, <2>1
  <2> QED BY <2>2, <2>3 DEF ProgramRuns, NotShown
<1>9. Len(keys') <= 1 BY <1>1, <1>4 DEF InStepNow
<1> QED BY <1>7, <1>8, <1>9 DEF InStepNow

\* A wait is over and its line has been read.
LEMMA NextTurn ==
  ASSUME ScriptsAre, Waits, InStepNow, Running, Step.do = "await", pc < Len(Steps), keys = <<>>, prog # "pip",
         UNCHANGED <<script, prog, port, keys>>, pc' = pc + 1, NotShown(out', Needle(pc + 1))
  PROVE  InTurn' /\ ProgramRuns'
<1>1. Turn /\ InTurn /\ ProgramRuns /\ script \in Waiters /\ pc \in Nat BY AtTurn
<1>2. Steps[pc + 1].do \in {"type", "verify"} BY <1>1 DEF Turn
<1>3. InTurn' BY <1>2, TurnTaken
<1>4. /\ script = "deploy" => pc \in {4, 6, 8, 10, 12, 14}
      /\ script \in {"ddt", "ddt_run"} => pc \notin {1, 3}
  BY <1>1, AwaitsAt
<1>5. script = "deploy" => ~(pc + 1 <= 3) /\ pc + 1 # 4 BY <1>4
<1>6. script \in {"ddt", "ddt_run"} =>
          /\ pc + 1 <= 3 => prog = "ccp"
          /\ pc + 1 # 4
          /\ pc + 1 \in 5 .. 2 * N + 12 => prog \in {"ddt", "set"}
  <2> SUFFICES ASSUME script \in {"ddt", "ddt_run"}
               PROVE  /\ pc + 1 <= 3 => prog = "ccp"
                      /\ pc + 1 # 4
                      /\ pc + 1 \in 5 .. 2 * N + 12 => prog \in {"ddt", "set"}
    OBVIOUS
  <2>n. N \in Nat /\ N >= 1 BY ProgramSize
  <2>1. pc + 1 # 4 /\ (pc + 1 <= 3 => pc <= 3) BY <1>1, <1>4
  <2>2. pc + 1 \in 5 .. 2 * N + 12 => pc \in 5 .. 2 * N + 12 \/ pc = 4 BY <1>1, <2>n
  <2>3. (pc <= 3 => prog = "ccp") /\ (pc = 4 => prog = "ddt") /\ (pc \in 5 .. 2 * N + 12 => prog \in {"ddt", "set"})
    BY <1>1 DEF ProgramRuns
  <2> QED BY <2>1, <2>2, <2>3
<1>7. ProgramRuns' BY <1>5, <1>6 DEF ProgramRuns
<1> QED BY <1>3, <1>7

\* Text that is found is the answer to a line that has been read.
LEMMA FoundInTurn ==
  ASSUME ScriptsAre, Waits, InStepNow, Running, Step.do = "await", NEW k \in 0 .. Len(out),
         Found(seen \o SubSeq(out, 1, k))
  PROVE  keys = <<>> /\ prog # "pip" /\ Step.needle # <<"BLANK">> /\ ~NotShown(SubSeq(out, 1, k), Needle(pc))
<1> DEFINE a == SubSeq(out, 1, k)
           b == SubSeq(out, k + 1, Len(out))
           text == seen \o a
           n == Needle(pc)
<1>1. a \in Seq(Tokens) /\ b \in Seq(Tokens) /\ text \in Seq(Tokens) /\ out = a \o b /\ seen \in Seq(Tokens)
  BY Pieces DEF ScriptsAre
<1>2. Turn /\ InTurn /\ ProgramRuns /\ script \in Waiters BY AtTurn
<1>3. /\ Step.needle = n /\ n # <<"BLANK">> /\ NotShown(seen, n)
      /\ keys = <<>> \/ (keys = <<LineFor(pc)>> /\ NotShown(out, n))
  BY <1>2 DEF Turn, InTurn
<1>f. Found(text) OBVIOUS
<1> HIDE DEF a, b, n
<1>4. ~NotShown(text, n)
  <2>1. DOMAIN text = 1 .. Len(text) BY <1>1
  <2> HIDE DEF text
  <2> QED BY <1>f, <1>3, <2>1 DEF Found, NotShown
<1>5. ~NotShown(a, n) BY <1>1, <1>3, <1>4, ShownJoined
<1>6. ~NotShown(out, n) BY <1>1, <1>5, ShownJoined
<1>7. prog # "pip"
  <2> SUFFICES ASSUME prog = "pip" PROVE FALSE OBVIOUS
  <2>1. script = "deploy" /\ pc \in {3, 4} /\ NotShown(out, <<"A>">>) BY <1>2 DEF ProgramRuns
  <2>2. pc = 4 BY <1>2, <2>1, AwaitsAt
  <2>3. n = <<"A>">> BY <1>2, <2>1, <2>2, TypedFor DEF n
  <2> QED BY <1>6, <2>1, <2>3
<1> QED BY <1>3, <1>5, <1>6, <1>7 DEF a, n

\* Reading text keeps WaitsInStep.
LEMMA ReceiveInStep == ASSUME ScriptsAre, WaitsInStep, NEW k \in 1 .. Len(out), Receive(k) PROVE WaitsInStep'
<1> DEFINE a == SubSeq(out, 1, k)
           b == SubSeq(out, k + 1, Len(out))
           text == seen \o a
<1>k. k \in 0 .. Len(out) BY LenProperties DEF ScriptsAre
<1>1. a \in Seq(Tokens) /\ b \in Seq(Tokens) /\ text \in Seq(Tokens) /\ out = a \o b /\ seen \in Seq(Tokens)
  BY <1>k, Pieces DEF ScriptsAre
<1>2. Running /\ Step.do = "await" /\ UNCHANGED <<script, port, keys, prog, missing, faults>> BY DEF Receive
<1>3. Found(text) => /\ pc' = pc + 1 /\ rc' = StatusAt(pc + 1)
                     /\ out' = b \/ Step.needle = <<"BLANK">>
  BY DEF Receive
<1>4. ~Found(text) => pc' = pc /\ rc' = rc /\ out' = b /\ seen' = text BY DEF Receive
<1> HIDE DEF a, b
<1>5. SUFFICES ASSUME Waits' PROVE InStepNow' BY DEF WaitsInStep
<1>6. Waits /\ InStepNow BY <1>2, <1>5 DEF Waits, WaitsInStep
<1>7. Turn /\ InTurn /\ ProgramRuns /\ script \in Waiters /\ pc \in Nat /\ pc \in 1 .. Len(Steps) /\ Len(Steps) \in Nat
  BY <1>2, <1>6, AtTurn
<1>f. Found(text) => keys = <<>> /\ prog # "pip" /\ ~NotShown(a, Needle(pc)) BY <1>k, <1>2, <1>6, FoundInTurn DEF a
<1> DEFINE n == Needle(pc)
           m == Needle(pc + 1)
<1>8. /\ Step.needle = n /\ n # <<"BLANK">> /\ NotShown(seen, n)
      /\ keys = <<>> \/ (keys = <<LineFor(pc)>> /\ NotShown(out, n))
      /\ pc < Len(Steps) => Ordered(out, n, m)
  BY <1>2, <1>7 DEF Turn, InTurn
<1> HIDE DEF n, m
<1>9. Found(text) <=> ~NotShown(text, n)
  <2>1. DOMAIN text = 1 .. Len(text) BY <1>1
  <2> HIDE DEF text
  <2> QED BY <1>8, <2>1 DEF Found, NotShown
<1>10. NotShown(text, n) <=> NotShown(a, n) BY <1>1, <1>8, ShownJoined
<1>11. NotShown(out, n) => NotShown(a, n) /\ NotShown(b, n) BY <1>1, ShownJoined
<1>12. Ordered(out, n, m) => Ordered(b, n, m) /\ (NotShown(a, n) \/ NotShown(b, m)) BY <1>1, ShownJoined
<1> HIDE DEF text
<1>13. Len(keys') <= 1 BY <1>2, <1>6 DEF InStepNow
<1>14. CASE Found(text)
  <2>1. ~NotShown(a, n) /\ keys = <<>> /\ out' = b /\ pc' = pc + 1 BY <1>3, <1>8, <1>14, <1>f DEF n
  <2>2. prog # "pip" BY <1>14, <1>f
  <2>3. ASSUME Running' PROVE InTurn' /\ ProgramRuns'
    <3>1. pc < Len(Steps)
      <4>1. StatusAt(pc + 1) = -1 BY <1>3, <1>14, <2>3 DEF Running
      <4> QED BY <4>1, <1>7 DEF StatusAt
    <3>2. NotShown(out', Needle(pc + 1)) BY <1>8, <1>12, <2>1, <3>1 DEF m
    <3> QED BY <1>2, <1>6, <2>1, <2>2, <3>1, <3>2, NextTurn
  <2> QED BY <1>13, <2>3 DEF InStepNow
<1>15. CASE ~Found(text)
  <2>1. pc' = pc /\ out' = b /\ seen' = text /\ Steps[pc].do = "await" BY <1>2, <1>4, <1>15 DEF Step
  <2>2. NotShown(seen', Needle(pc)) BY <1>9, <1>15, <2>1 DEF n
  <2>3. keys' = <<>> \/ (keys' = <<LineFor(pc)>> /\ NotShown(out', Needle(pc))) BY <1>2, <1>8, <1>11, <2>1 DEF n
  <2>4. pc < Len(Steps) => Ordered(out', Needle(pc), Needle(pc + 1)) BY <1>8, <1>12, <2>1 DEF n, m
  <2>5. InTurn' BY <1>2, <2>1, <2>2, <2>3, <2>4, TurnTaken
  <2>6. NotShown(out, <<"A>">>) => NotShown(out', <<"A>">>) BY <1>1, <2>1, ShownJoined
  <2>7. ProgramRuns' BY <1>2, <1>7, <2>1, <2>6 DEF ProgramRuns, NotShown
  <2> QED BY <1>13, <2>5, <2>7 DEF InStepNow
<1> QED BY <1>14, <1>15

\* A wait that runs out keeps WaitsInStep.
LEMMA ExpireInStep == ASSUME ScriptsAre, GoneIsFault, WaitsInStep, Expire PROVE WaitsInStep'
<1>1. /\ Running /\ Step.do = "await" /\ UNCHANGED <<script, port, out, keys, prog, missing>>
      /\ (Quiet /\ faults' = faults) \/ faults' = faults + 1
      /\ pc' = pc + 1 /\ rc' = IF Step.miss > 0 THEN Step.miss ELSE StatusAt(pc + 1)
  BY DEF Expire
<1>2. SUFFICES ASSUME Waits' PROVE InStepNow' BY DEF WaitsInStep
<1>3. faults = 0 /\ Quiet BY <1>1, <1>2 DEF Waits, ScriptsAre
<1>4. Waits /\ InStepNow BY <1>1, <1>2, <1>3 DEF Waits, WaitsInStep
<1>5. Turn /\ InTurn /\ ProgramRuns /\ script \in Waiters /\ pc \in Nat /\ Len(Steps) \in Nat BY <1>1, <1>4, AtTurn
<1>6. keys = <<>> /\ out' = <<>> /\ ~(prog = "pip" /\ port # <<>>) BY <1>1, <1>3 DEF Quiet, GoneIsFault
<1>7. prog # "pip"
  <2>1. prog = "pip" => script = "deploy" /\ pc = 4 BY <1>1, <1>5, AwaitsAt DEF ProgramRuns
  <2> QED BY <1>5, <1>6, <2>1 DEF ProgramRuns
<1>8. Len(keys') <= 1 BY <1>1, <1>4 DEF InStepNow
<1>9. ASSUME Running' PROVE InTurn' /\ ProgramRuns'
  <2>1. pc < Len(Steps)
    <3>0. Step \in ScriptSteps BY <1>1, StepIs
    <3>1. Step.miss \in -2 .. 5 BY <1>1, <3>0, StepKinds
    <3>2. StatusAt(pc + 1) = -1 BY <1>1, <1>9, <3>1 DEF Running
    <3> QED BY <3>2, <1>5 DEF StatusAt
  <2>2. NotShown(out', Needle(pc + 1)) BY <1>6, ShownEmpty
  <2> QED BY <1>1, <1>4, <1>6, <1>7, <2>1, <2>2, NextTurn
<1> QED BY <1>8, <1>9 DEF InStepNow

\* The comparison of the dump keeps WaitsInStep.
LEMMA VerifyInStep == ASSUME ScriptsAre, WaitsInStep, NEW k \in 0 .. Len(out), Verify(k) PROVE WaitsInStep'
<1>1. /\ Running /\ Step.do = "verify" /\ UNCHANGED <<script, port, prog, missing, faults>>
      /\ out' = SubSeq(out, k + 1, Len(out))
      /\ \/ pc' = pc + 1 /\ keys' = keys
         \/ rc' = 2 /\ keys' = Append(keys, <<"G0">>)
  BY DEF Verify, Goto
<1>2. SUFFICES ASSUME Waits' PROVE InStepNow' BY DEF WaitsInStep
<1>3. Waits /\ InStepNow BY <1>1, <1>2 DEF Waits, WaitsInStep
<1>4. Turn /\ InTurn /\ ProgramRuns /\ script \in Waiters /\ pc \in Nat BY <1>1, <1>3, AtTurn
<1>5. /\ keys = <<>> /\ NotShown(out, Needle(pc)) /\ Steps[pc + 1].do = "type" /\ Needle(pc + 1) = Needle(pc)
  BY <1>1, <1>4 DEF InTurn, Turn
<1>6. script \in {"ddt", "ddt_run"} /\ pc = 2 * N + 11 BY <1>1, <1>4, AwaitsAt
<1>7. Len(keys') <= 1
  <2>1. Len(<<>>) = 0 /\ (\A x : Len(Append(<<>>, x)) = 1) OBVIOUS
  <2>2. keys' = <<>> \/ keys' = Append(<<>>, <<"G0">>) BY <1>1, <1>5
  <2>3. CASE keys' = <<>> BY <2>1, <2>3
  <2>4. CASE keys' = Append(<<>>, <<"G0">>)
    <3>1. Len(keys') = 1 BY <2>1, <2>4
    <3> QED BY <3>1
  <2> QED BY <2>2, <2>3, <2>4
<1>8. ASSUME Running' PROVE InTurn' /\ ProgramRuns'
  <2>1. pc' = pc + 1 /\ keys' = <<>> BY <1>1, <1>5, <1>8 DEF Running
  <2>2. NotShown(out', Needle(pc + 1))
    <3> DEFINE a == SubSeq(out, 1, k)
               b == SubSeq(out, k + 1, Len(out))
    <3>1. a \in Seq(Tokens) /\ b \in Seq(Tokens) /\ out = a \o b BY Pieces
    <3>2. out' = b BY <1>1
    <3> HIDE DEF a, b
    <3> QED BY <1>5, <3>1, <3>2, ShownJoined
  <2>3. InTurn' BY <1>1, <1>5, <2>1, <2>2, TurnTaken
  <2>n. N \in Nat /\ N >= 1 BY ProgramSize
  <2>4. prog \in {"ddt", "set"}
    <3>1. pc \in 5 .. 2 * N + 12 BY <1>6, <2>n
    <3> QED BY <1>4, <1>6, <3>1 DEF ProgramRuns
  <2>5. pc' > 4 BY <1>6, <2>1, <2>n
  <2>6. script' # "deploy" /\ prog' # "pip" /\ prog' \in {"ddt", "set"} BY <1>1, <1>6, <2>4
  <2>7. pc' \in Nat BY <1>4, <2>1
  <2>8. ~(pc' <= 3) /\ pc' # 4 BY <2>5, <2>7
  <2> QED BY <2>3, <2>6, <2>8 DEF ProgramRuns
<1> QED BY <1>7, <1>8 DEF InStepNow

\* A line is lost or the machine goes away: something has gone wrong.
LEMMA LossInStep == ASSUME ScriptsAre, LoseLine \/ DropByte \/ Vanish PROVE WaitsInStep'
<1>1. faults' = faults + 1 BY DEF LoseLine, DropByte, Vanish
<1>2. faults' # 0 BY <1>1 DEF ScriptsAre
<1> QED BY <1>2 DEF WaitsInStep, Waits

\* No step puts a script that waits out of step.
LEMMA StillInStep == ASSUME ScriptsAre, GoneIsFault, WaitsInStep, [ScriptsNext]_scriptVars PROVE WaitsInStep'
<1>1. CASE UNCHANGED scriptVars
  <2>1. UNCHANGED <<script, pc, seen, out, keys, port, prog, missing, rc, faults>> BY <1>1 DEF scriptVars
  <2>2. SUFFICES ASSUME Waits' PROVE InStepNow' BY DEF WaitsInStep
  <2>3. Waits /\ InStepNow BY <2>1, <2>2 DEF Waits, WaitsInStep
  <2>4. Len(keys') <= 1 BY <2>1, <2>3 DEF InStepNow
  <2>5. ASSUME Running' PROVE InTurn' /\ ProgramRuns'
    <3>1. Running BY <2>1, <2>5 DEF Running
    <3>2. InTurn /\ ProgramRuns BY <2>3, <3>1 DEF InStepNow
    <3>3. InTurn' BY <2>1, <3>2, TurnTaken DEF InTurn, Step
    <3>4. ProgramRuns' BY <2>1, <3>2 DEF ProgramRuns, NotShown
    <3> QED BY <3>3, <3>4
  <2> QED BY <2>4, <2>5 DEF InStepNow
<1>2. CASE ScriptsNext
  <2>1. CASE AwaitTrigger BY <2>1, TriggerInStep
  <2>2. CASE Send BY <2>2, SendInStep
  <2>3. CASE SendData BY <2>3, DataInStep
  <2>4. CASE \E k \in 1 .. Len(out) : Receive(k) BY <2>4, ReceiveInStep
  <2>5. CASE Expire BY <2>5, ExpireInStep
  <2>6. CASE \E k \in 0 .. Len(out) : Verify(k) BY <2>6, VerifyInStep
  <2>7. CASE Ccp BY <2>7, CcpInStep
  <2>8. CASE Pip BY <2>8, PipInStep
  <2>9. CASE Sysgen BY <2>9, SysgenInStep
  <2>10. CASE Ddt BY <2>10, DdtInStep
  <2>11. CASE Set BY <2>11, SetInStep
  <2>12. CASE LoseLine \/ DropByte \/ Vanish BY <2>12, LossInStep
  <2>13. CASE Abort
    <3>1. prog = "gone" /\ UNCHANGED faults BY <2>13 DEF Abort
    <3> QED BY <3>1 DEF GoneIsFault, WaitsInStep, Waits
  <2> QED BY <1>2, <2>1, <2>2, <2>3, <2>4, <2>5, <2>6, <2>7, <2>8, <2>9, <2>10, <2>11, <2>12, <2>13 DEF ScriptsNext
<1> QED BY <1>1, <1>2

\* The scripts begin in step.
LEMMA InStepAtStart == ASSUME ScriptsInit \/ ScriptsIdle PROVE WaitsInStep
<1>0. ScriptsAre BY ScriptsStart
<1>1. CASE ScriptsIdle BY <1>1 DEF ScriptsIdle, WaitsInStep, Waits, Waiters
<1>2. CASE ScriptsInit
  <2>1. /\ pc = 1 /\ keys = <<>> /\ port = <<>> /\ prog = "ccp" /\ Running
        /\ script \notin {"deploy", "console"} => out = <<>>
    BY <1>2 DEF ScriptsInit, Running
  <2> SUFFICES ASSUME Waits PROVE InStepNow BY DEF WaitsInStep
  <2>2. script \in Waiters /\ Turn BY <1>0, <2>1, TurnIs DEF Waits
  <2>3. Len(keys) <= 1
    <3>1. Len(<<>>) = 0 OBVIOUS
    <3> QED BY <2>1, <3>1
  <2>4. \/ Step.do = "trigger"
        \/ Step.do = "type" /\ NotShown(out, Needle(pc))
    <3>1. CASE script = "deploy" BY <1>0, <2>1, <3>1, DeploySteps
    <3>2. CASE script = "console"
      <4>1. Steps = siob_console BY <3>2, StepsAre
      <4> QED BY <2>1, <4>1, ConsoleForm DEF Step
    <3>3. CASE script \in {"ddt", "ddt_run"}
      <4>1. Steps[1].do = "type" BY <1>0, <2>1, <3>3, DdtTable
      <4>2. out = <<>> BY <2>1, <3>3
      <4>3. NotShown(out, Needle(pc)) BY <4>2, ShownEmpty
      <4> QED BY <2>1, <4>1, <4>3 DEF Step
    <3> QED BY <2>2, <3>1, <3>2, <3>3 DEF Waiters
  <2>5. InTurn BY <2>1, <2>4 DEF InTurn
  <2>6. ProgramRuns BY <2>1 DEF ProgramRuns
  <2> QED BY <2>3, <2>5, <2>6 DEF InStepNow
<1> QED BY <1>1, <1>2

\* Scripts in step do not type ahead.
LEMMA StepIsKept == ASSUME ScriptsAre, WaitsInStep PROVE TypesInStep
<1> SUFFICES ASSUME script # "fix", faults = 0, missing = {} PROVE Len(keys) <= 1 BY DEF TypesInStep
<1>1. CASE script = "none"
  <2>1. keys = <<>> BY <1>1 DEF ScriptsAre
  <2>2. Len(<<>>) = 0 OBVIOUS
  <2> QED BY <2>1, <2>2
<1>2. CASE script # "none"
  <2>1. script \in Waiters BY <1>2 DEF ScriptsAre, ScriptNames, Waiters
  <2> QED BY <2>1 DEF WaitsInStep, Waits, InStepNow
<1> QED BY <1>1, <1>2

-----------------------------------------------------------------------------
(* SystemIsSent: as long as nothing goes wrong the deployment is a file     *)
(* received, loaded, summed and written, each before the next begins.       *)

\* What the disk holds at each step of the deployment, and what runs.
Sending ==
    /\ port = <<>> \/ port = <<"new">>
    /\ prog \notin {"ddt", "set"}
    /\ pc <= 9 \/ (pc = 10 /\ keys # <<>>) => prog \in {"ccp", "pip"}
    /\ pc = 3 /\ keys = <<>> => prog = "pip"
    /\ (pc = 4 /\ keys = <<>> /\ prog # "pip") \/ pc >= 5 => dsk.hex = "new"
    /\ (pc = 6 /\ keys = <<>>) \/ pc >= 7 => dsk.com = "new"
\* SYSGEN's message is on its way or has been read.
DoneShown == HasText(seen, <<"FUNCTION_COMPLETE">>) \/ HasText(out, <<"FUNCTION_COMPLETE">>)
\* The system tracks, while the script runs.
Writing == tracks \in {"boot", "new"} /\ (DoneShown => tracks = "new")
\* The invariant behind SystemIsSent.
DeployInTurn ==
    Waits /\ script = "deploy" =>
        /\ Running => Sending /\ Writing
        /\ rc = 0 /\ ~unsure => tracks = "new" /\ keys = <<>>

\* The deployment while nothing has gone wrong.
LEMMA DeployNow ==
  ASSUME ScriptsAre, WaitsInStep, DeployInTurn, Waits, script = "deploy", Running
  PROVE  /\ InTurn /\ ProgramRuns /\ Sending /\ Writing /\ pc \in 1 .. 14
         /\ Step.do \in {"data", "await"} \/ keys = <<>>
         /\ pc \notin {3, 4, 6, 8, 10, 12, 14} => keys = <<>>
<1>1. InStepNow BY DEF WaitsInStep
<1>2. Turn /\ InTurn /\ ProgramRuns BY <1>1, AtTurn
<1>3. Sending /\ Writing BY DEF DeployInTurn
<1>4. /\ pc \in 1 .. 14 /\ (Step.do = "type" <=> pc \in {2, 5, 7, 9, 11, 13})
      /\ (Step.do = "await" <=> pc \in {4, 6, 8, 10, 12, 14}) /\ (Step.do = "trigger" <=> pc = 1) /\ (Step.do = "data" <=> pc = 3)
  BY DeploySteps
<1>5. Step.do \in {"data", "await"} \/ keys = <<>> BY <1>2 DEF Turn, InTurn
<1>6. pc \notin {3, 4, 6, 8, 10, 12, 14} => keys = <<>> BY <1>4, <1>5
<1> QED BY <1>2, <1>3, <1>4, <1>5, <1>6

\* The lines of the deployment.
LEMMA DeployLines ==
  ASSUME ScriptsAre, Running, script = "deploy"
  PROVE  /\ pc \in {3, 4} => LineFor(pc) = <<"PIP">>
         /\ pc = 6 => LineFor(pc) = <<"MLOAD">>
         /\ pc = 8 => LineFor(pc) = <<"CPM56">>
         /\ pc = 10 => LineFor(pc) = <<"SYSGEN">>
         /\ pc = 12 => LineFor(pc) = <<"A">>
         /\ pc = 14 => LineFor(pc) = <<"CR">>
<1>1. Steps = siob_deploy BY DeploySteps
<1>2. /\ Steps[2] = Type("PIP") /\ Steps[3] = [do |-> "data"] /\ Steps[5] = Type("MLOAD") /\ Steps[7] = Type("CPM56")
      /\ Steps[9] = Type("SYSGEN") /\ Steps[11] = Type("A") /\ Steps[13] = Type("CR")
  BY <1>1, DeployForm
<1> HIDE DEF Steps
<1>3. CASE pc = 3
  <2>1. pc - 1 = 2 BY <1>3
  <2> QED BY <1>2, <1>3, <2>1 DEF LineFor, Type
<1>4. CASE pc = 4
  <2>1. pc - 1 = 3 /\ pc - 2 = 2 BY <1>4
  <2> QED BY <1>2, <1>4, <2>1 DEF LineFor, Type
<1>5. CASE pc \in {6, 8, 10, 12, 14}
  <2>1. /\ pc = 6 => pc - 1 = 5
        /\ pc = 8 => pc - 1 = 7
        /\ pc = 10 => pc - 1 = 9
        /\ pc = 12 => pc - 1 = 11
        /\ pc = 14 => pc - 1 = 13
    OBVIOUS
  <2> QED BY <1>2, <1>5, <2>1 DEF LineFor, Type
<1> QED BY <1>3, <1>4, <1>5

\* Nothing has gone wrong before either.
LEMMA WaitedBefore ==
  ASSUME ScriptsAre, Waits', UNCHANGED <<script, missing>>, faults' = faults \/ faults' = faults + 1
  PROVE  Waits /\ faults' = faults
BY DEF Waits, ScriptsAre

\* A line of the deployment is answered.
LEMMA AnswerDeploys ==
  ASSUME ScriptsAre, WaitsInStep, DeployInTurn, Waits, script = "deploy", Running,
         NEW toks \in Seq(Tokens), keys # <<>>, Answer(toks), UNCHANGED seen
  PROVE  /\ keys' = <<>> /\ Head(keys) = LineFor(pc) /\ pc \in {3, 4, 6, 8, 10, 12, 14}
         /\ DoneShown' => DoneShown \/ HasText(toks, <<"FUNCTION_COMPLETE">>)
<1>1. InTurn /\ Step.do \in {"data", "await"} /\ pc \in {3, 4, 6, 8, 10, 12, 14} BY DeployNow
<1>2. keys = <<LineFor(pc)>> BY <1>1 DEF InTurn
<1>3. keys' = <<>> /\ Head(keys) = LineFor(pc)
  <2>1. \A x : Head(<<x>>) = x /\ Tail(<<x>>) = <<>> OBVIOUS
  <2>2. keys' = Tail(keys) BY DEF Answer
  <2> QED BY <1>2, <2>1, <2>2
<1> DEFINE done == <<"FUNCTION_COMPLETE">>
<1>4. HasText(out', done) => HasText(out, done) \/ HasText(toks, done) BY AnswerAdds
<1> HIDE DEF done
<1>5. DoneShown' <=> HasText(seen, done) \/ HasText(out', done) BY DEF DoneShown, done, HasText
<1>6. DoneShown <=> HasText(seen, done) \/ HasText(out, done) BY DEF DoneShown, done
<1> QED BY <1>1, <1>3, <1>4, <1>5, <1>6 DEF done

\* CCP starts PIP and SYSGEN and loads what has been received.
LEMMA CcpDeploys == ASSUME ScriptsAre, WaitsInStep, DeployInTurn, Ccp PROVE DeployInTurn'
<1>1. PICK toks : CcpDoes(toks) BY CcpCases
<1>2. /\ prog = "ccp" /\ keys # <<>> /\ Answer(toks) /\ toks \in Seq(Tokens)
      /\ UNCHANGED <<script, port, pc, seen, tracks, missing, unsure, rc>> /\ (faults' = faults \/ faults' = faults + 1)
  BY <1>1 DEF CcpDoes
<1>3. SUFFICES ASSUME Waits', script' = "deploy"
               PROVE  /\ Running' => Sending' /\ Writing'
                      /\ rc' = 0 /\ ~unsure' => tracks' = "new" /\ keys' = <<>>
  BY DEF DeployInTurn
<1>4. Waits /\ script = "deploy" /\ faults' = faults BY <1>2, <1>3, WaitedBefore
<1>5. ~(rc' = 0 /\ ~unsure') BY <1>2, <1>4 DEF DeployInTurn
<1>6. ASSUME Running PROVE Sending' /\ Writing'
  <2>1. Sending /\ Writing /\ pc \in 1 .. 14 BY <1>4, <1>6, DeployNow
  <2>2. /\ keys' = <<>> /\ Head(keys) = LineFor(pc) /\ pc \in {3, 4, 6, 8, 10, 12, 14}
        /\ DoneShown' => DoneShown \/ HasText(toks, <<"FUNCTION_COMPLETE">>)
    BY <1>2, <1>4, <1>6, AnswerDeploys
  <2>3. ~HasText(toks, <<"FUNCTION_COMPLETE">>)
    <3>1. \/ toks = <<>>
          \/ toks \in {<<<<"-">>>>, <<<<"DESTINATION_DRIVE">>>>, <<<<"A>">>>>}
          \/ toks \in {<<<<"FAIL">>, <<"A>">>>>, <<<<"OK">>, <<"A>">>>>}
      BY <1>1 DEF CcpDoes
    <3>2. /\ <<"-">> # <<"FUNCTION_COMPLETE">> /\ <<"DESTINATION_DRIVE">> # <<"FUNCTION_COMPLETE">>
          /\ <<"A>">> # <<"FUNCTION_COMPLETE">> /\ <<"FAIL">> # <<"FUNCTION_COMPLETE">> /\ <<"OK">> # <<"FUNCTION_COMPLETE">>
      OBVIOUS
    <3> QED BY <3>1, <3>2, HasTextShort
  <2>4. Writing' BY <1>2, <2>1, <2>2, <2>3 DEF Writing
  <2>5. \E h, c, v : dsk = [hex |-> h, com |-> c, saved |-> v] BY DEF ScriptsAre
  <2>6. There("PIP") /\ There("MLOAD") /\ faults' # faults + 1 BY <1>4 DEF There, Waits, ScriptsAre
  <2>7. CASE pc \in {3, 4}
    <3>1. Head(keys)[1] = "PIP" BY <1>4, <1>6, <2>2, <2>7, DeployLines
    <3>2. prog' = "pip" /\ dsk' = dsk BY <1>1, <2>6, <3>1 DEF CcpDoes
    <3> QED BY <1>2, <2>1, <2>4, <2>7, <3>2 DEF Sending
  <2>8. CASE pc = 6
    <3>1. Head(keys)[1] = "MLOAD" BY <1>4, <1>6, <2>2, <2>8, DeployLines
    <3>2. dsk.hex = "new" BY <2>1, <2>8 DEF Sending
    <3>3. prog' = "ccp" /\ dsk' = [dsk EXCEPT !.com = dsk.hex] BY <1>1, <2>6, <3>1, <3>2 DEF CcpDoes
    <3>4. dsk'.hex = "new" /\ dsk'.com = "new" BY <2>5, <3>2, <3>3
    <3> QED BY <1>2, <2>1, <2>4, <2>8, <3>3, <3>4 DEF Sending
  <2>9. CASE pc \in {8, 10, 12, 14}
    <3>1. Head(keys)[1] \in {"CPM56", "SYSGEN", "A", "CR"} BY <1>4, <1>6, <2>2, <2>9, DeployLines
    <3>2. /\ prog' = "ccp" \/ (prog' = "sysgen" /\ Head(keys)[1] = "SYSGEN")
          /\ dsk' = dsk \/ \E v : dsk' = [dsk EXCEPT !.saved = v]
      BY <1>1, <3>1 DEF CcpDoes
    <3>3. dsk'.hex = dsk.hex /\ dsk'.com = dsk.com BY <2>5, <3>2
    <3>4. dsk.hex = "new" /\ dsk.com = "new" BY <2>1, <2>9 DEF Sending
    <3>5. pc = 8 => prog' = "ccp"
      <4>1. pc = 8 => Head(keys)[1] = "CPM56" BY <1>4, <1>6, <2>2, DeployLines
      <4> QED BY <3>2, <4>1
    <3> QED BY <1>2, <2>1, <2>2, <2>4, <2>9, <3>2, <3>3, <3>4, <3>5 DEF Sending
  <2> QED BY <2>2, <2>7, <2>8, <2>9
<1> QED BY <1>2, <1>5, <1>6 DEF Running

\* SYSGEN writes what has been loaded.
LEMMA SysgenDeploys == ASSUME ScriptsAre, WaitsInStep, DeployInTurn, Sysgen PROVE DeployInTurn'
<1>1. PICK toks : SysgenDoes(toks) BY SysgenCases
<1>2. /\ prog \in {"sysgen", "sysgen_on_A"} /\ prog' \notin {"ddt", "set"}
      /\ keys # <<>> /\ Answer(toks) /\ toks \in Seq(Tokens)
      /\ UNCHANGED <<script, port, pc, seen, dsk, missing, unsure, rc, faults>>
      /\ \/ tracks' = dsk.com
         \/ tracks' = tracks /\ toks \in {<<<<"DESTINATION_ON_A">>>>, <<<<"A>">>>>}
  BY <1>1 DEF SysgenDoes
<1>3. SUFFICES ASSUME Waits', script' = "deploy"
               PROVE  /\ Running' => Sending' /\ Writing'
                      /\ rc' = 0 /\ ~unsure' => tracks' = "new" /\ keys' = <<>>
  BY DEF DeployInTurn
<1>4. Waits /\ script = "deploy" BY <1>2, <1>3, WaitedBefore
<1>5. ~(rc' = 0 /\ ~unsure') BY <1>2, <1>4 DEF DeployInTurn
<1>6. ASSUME Running PROVE Sending' /\ Writing'
  <2>1. Sending /\ Writing /\ pc \in 1 .. 14 BY <1>4, <1>6, DeployNow
  <2>2. /\ keys' = <<>> /\ pc \in {3, 4, 6, 8, 10, 12, 14}
        /\ DoneShown' => DoneShown \/ HasText(toks, <<"FUNCTION_COMPLETE">>)
    BY <1>2, <1>4, <1>6, AnswerDeploys
  <2>3. pc \in {12, 14} BY <1>2, <2>1, <2>2 DEF Sending
  <2>4. Sending' /\ dsk.com = "new" BY <1>2, <2>1, <2>3 DEF Sending
  <2>5. CASE tracks' = dsk.com BY <2>4, <2>5 DEF Writing
  <2>6. CASE tracks' = tracks /\ toks \in {<<<<"DESTINATION_ON_A">>>>, <<<<"A>">>>>}
    <3>1. <<"DESTINATION_ON_A">> # <<"FUNCTION_COMPLETE">> /\ <<"A>">> # <<"FUNCTION_COMPLETE">> OBVIOUS
    <3>2. ~HasText(<<<<"DESTINATION_ON_A">>>>, <<"FUNCTION_COMPLETE">>) /\ ~HasText(<<<<"A>">>>>, <<"FUNCTION_COMPLETE">>)
      BY <3>1, HasTextShort
    <3>3. ~HasText(toks, <<"FUNCTION_COMPLETE">>) BY <2>6, <3>2
    <3> QED BY <2>1, <2>2, <2>4, <2>6, <3>3 DEF Writing
  <2> QED BY <1>2, <2>5, <2>6
<1> QED BY <1>2, <1>5, <1>6 DEF Running

\* DDT is not run by the deployment.
LEMMA DdtDeploys == ASSUME ScriptsAre, WaitsInStep, DeployInTurn, Ddt \/ Set PROVE DeployInTurn'
<1>1. /\ prog \in {"ddt", "set"} /\ keys # <<>> /\ UNCHANGED <<script, missing, rc, unsure, faults>>
  BY DEF Ddt, Set
<1>2. ~(Waits /\ script = "deploy" /\ Running) BY <1>1 DEF DeployInTurn, Sending
<1>3. ~(Waits /\ script = "deploy" /\ rc = 0 /\ ~unsure) BY <1>1 DEF DeployInTurn
<1> QED BY <1>1, <1>2, <1>3 DEF DeployInTurn, Waits, Running

\* PIP receives what was sent.
LEMMA PipDeploys == ASSUME ScriptsAre, WaitsInStep, DeployInTurn, Pip PROVE DeployInTurn'
<1>1. /\ prog = "pip" /\ port # <<>> /\ out' = Append(out, <<"A>">>) /\ prog' = "ccp" /\ port' = <<>>
      /\ dsk' = [dsk EXCEPT !.hex = port[1]]
      /\ UNCHANGED <<script, pc, seen, keys, tracks, missing, unsure, rc, faults>>
  BY DEF Pip
<1>2. SUFFICES ASSUME Waits', script' = "deploy"
               PROVE  /\ Running' => Sending' /\ Writing'
                      /\ rc' = 0 /\ ~unsure' => tracks' = "new" /\ keys' = <<>>
  BY DEF DeployInTurn
<1>3. Waits /\ script = "deploy" BY <1>1, <1>2, WaitedBefore
<1>4. rc' = 0 /\ ~unsure' => tracks' = "new" /\ keys' = <<>> BY <1>1, <1>3 DEF DeployInTurn
<1>5. ASSUME Running PROVE Sending' /\ Writing'
  <2>1. Sending /\ Writing /\ ProgramRuns /\ pc \in 1 .. 14 BY <1>3, <1>5, DeployNow
  <2>2. pc = 4 /\ port = <<"new">> BY <1>1, <1>3, <2>1 DEF ProgramRuns, Sending
  <2>3. \E h, c, v : dsk = [hex |-> h, com |-> c, saved |-> v] BY DEF ScriptsAre
  <2>4. dsk'.hex = "new" BY <1>1, <2>2, <2>3
  <2>5. Sending' BY <1>1, <2>2, <2>4 DEF Sending
  <2> DEFINE x == <<<<"A>">>>>
             done == <<"FUNCTION_COMPLETE">>
  <2>6. x \in Seq(Tokens) /\ out \in Seq(Tokens) BY Texts DEF ScriptsAre, AwaitedTexts
  <2>7. out' = out \o x BY <1>1, <2>6, AppendIsConcat
  <2>8. ~HasText(x, done)
    <3>1. <<"A>">> # <<"FUNCTION_COMPLETE">> OBVIOUS
    <3> QED BY <3>1, HasTextShort
  <2> HIDE DEF x, done
  <2>9. HasText(out', done) => HasText(out, done) BY <2>6, <2>7, <2>8, HasTextConcat
  <2>10. DoneShown' => DoneShown
    <3>1. DoneShown' <=> HasText(seen, done) \/ HasText(out', done) BY <1>1 DEF DoneShown, done, HasText
    <3>2. DoneShown <=> HasText(seen, done) \/ HasText(out, done) BY DEF DoneShown, done
    <3> QED BY <2>9, <3>1, <3>2
  <2> QED BY <1>1, <2>1, <2>5, <2>10 DEF Writing
<1> QED BY <1>1, <1>4, <1>5 DEF Running

\* Nothing new is read.
LEMMA DoneBefore ==
  ASSUME HasText(out', <<"FUNCTION_COMPLETE">>) => HasText(out, <<"FUNCTION_COMPLETE">>),
         HasText(seen', <<"FUNCTION_COMPLETE">>) => DoneShown, UNCHANGED tracks, Writing
  PROVE  Writing'
<1>1. DoneShown' <=> HasText(seen', <<"FUNCTION_COMPLETE">>) \/ HasText(out', <<"FUNCTION_COMPLETE">>)
  BY DEF DoneShown, HasText
<1>2. DoneShown' => DoneShown BY <1>1 DEF DoneShown
<1> QED BY <1>2 DEF Writing

\* The script types a line, sends the file or has seen the trigger.
LEMMA TypeDeploys == ASSUME ScriptsAre, WaitsInStep, DeployInTurn, AwaitTrigger \/ Send \/ SendData PROVE DeployInTurn'
<1>1. /\ Running /\ UNCHANGED <<script, prog, dsk, tracks, missing, unsure>>
      /\ faults' = faults \/ faults' = faults + 1
      /\ rc' = 2 \/ (pc' = pc + 1 /\ seen' = <<>> /\ rc' = StatusAt(pc + 1) /\ (out' = out \/ out' = <<>>))
  BY DEF AwaitTrigger, Send, SendData, Goto
<1>2. SUFFICES ASSUME Waits', script' = "deploy"
               PROVE  /\ Running' => Sending' /\ Writing'
                      /\ rc' = 0 /\ ~unsure' => tracks' = "new" /\ keys' = <<>>
  BY DEF DeployInTurn
<1>3. Waits /\ script = "deploy" /\ faults' = faults BY <1>1, <1>2, WaitedBefore
<1>4. /\ InTurn /\ ProgramRuns /\ Sending /\ Writing /\ pc \in 1 .. 14
      /\ pc \notin {3, 4, 6, 8, 10, 12, 14} => keys = <<>>
  BY <1>1, <1>3, DeployNow
<1>5. /\ Len(Steps) = 14 /\ (Step.do = "type" <=> pc \in {2, 5, 7, 9, 11, 13})
      /\ (Step.do = "trigger" <=> pc = 1) /\ (Step.do = "data" <=> pc = 3)
  BY <1>1, <1>3, DeploySteps
<1>6. Step.do \in {"trigger", "type", "data"} BY DEF AwaitTrigger, Send, SendData
<1>7. pc \in {1, 2, 3, 5, 7, 9, 11, 13} BY <1>5, <1>6
<1>8. rc' # 0 BY <1>1, <1>5, <1>7 DEF StatusAt
<1>9. ASSUME Running' PROVE Sending' /\ Writing'
  <2>1. pc' = pc + 1 /\ seen' = <<>> /\ (out' = out \/ out' = <<>>) BY <1>1, <1>9 DEF Running
  <2>2. Writing' BY <1>1, <1>4, <2>1, DoneBefore, HasTextShort
  <2>3. CASE pc = 1
    <3>1. AwaitTrigger BY <1>5, <2>3 DEF Send, SendData
    <3>2. UNCHANGED port BY <3>1 DEF AwaitTrigger
    <3> QED BY <1>1, <1>4, <2>1, <2>2, <2>3, <3>2 DEF Sending
  <2>4. CASE pc = 3
    <3>1. SendData BY <1>5, <2>4 DEF Send, AwaitTrigger
    <3>2. keys' = keys /\ port' = <<"new">> BY <1>3, <3>1 DEF SendData, ScriptsAre
    <3> QED BY <1>1, <1>4, <2>1, <2>2, <2>4, <3>2 DEF Sending
  <2>5. CASE pc \in {2, 5, 7, 9, 11, 13}
    <3>1. Send BY <1>5, <2>5 DEF SendData, AwaitTrigger
    <3>2. port' = port /\ keys' = Append(keys, Step.line) /\ keys = <<>> BY <1>4, <2>5, <3>1 DEF Send
    <3>3. keys' # <<>>
      <4>1. \A x : Append(<<>>, x) # <<>> OBVIOUS
      <4> QED BY <3>2, <4>1
    <3> QED BY <1>1, <1>4, <2>1, <2>2, <2>5, <3>2, <3>3 DEF Sending
  <2> QED BY <1>7, <2>3, <2>4, <2>5
<1> QED BY <1>8, <1>9

\* A wait is over: what it was for has been done.
LEMMA NextDeploys ==
  ASSUME ScriptsAre, Running, script = "deploy", Step.do = "await", Sending, keys = <<>>, prog # "pip",
         UNCHANGED <<port, keys, prog, dsk>>, pc' = pc + 1
  PROVE  Sending'
<1>1. pc \in {4, 6, 8, 10, 12, 14} BY DeploySteps
<1> QED BY <1>1 DEF Sending

\* Reading text keeps DeployInTurn.
LEMMA ReceiveDeploys ==
  ASSUME ScriptsAre, WaitsInStep, DeployInTurn, NEW k \in 1 .. Len(out), Receive(k)
  PROVE  DeployInTurn'
<1> DEFINE a == SubSeq(out, 1, k)
           b == SubSeq(out, k + 1, Len(out))
           text == seen \o a
           done == <<"FUNCTION_COMPLETE">>
<1>k. k \in 0 .. Len(out) BY LenProperties DEF ScriptsAre
<1>1. a \in Seq(Tokens) /\ b \in Seq(Tokens) /\ text \in Seq(Tokens) /\ out = a \o b /\ seen \in Seq(Tokens)
  BY <1>k, Pieces DEF ScriptsAre
<1>2. Running /\ Step.do = "await" /\ UNCHANGED <<script, port, keys, prog, dsk, tracks, missing, unsure, faults>> BY DEF Receive
<1>3. Found(text) => /\ pc' = pc + 1 /\ rc' = StatusAt(pc + 1) /\ seen' \in {text, <<>>}
                     /\ out' = b \/ Step.needle = <<"BLANK">>
  BY DEF Receive
<1>4. ~Found(text) => pc' = pc /\ rc' = rc /\ out' = b /\ seen' = text BY DEF Receive
<1>5. SUFFICES ASSUME Waits', script' = "deploy"
               PROVE  /\ Running' => Sending' /\ Writing'
                      /\ rc' = 0 /\ ~unsure' => tracks' = "new" /\ keys' = <<>>
  BY DEF DeployInTurn
<1>6. Waits /\ script = "deploy" BY <1>2, <1>5, WaitedBefore
<1>7. Sending /\ Writing /\ InStepNow BY <1>2, <1>6, DeployNow DEF WaitsInStep
<1>8. Found(text) => keys = <<>> /\ prog # "pip" /\ Step.needle # <<"BLANK">> BY <1>k, <1>2, <1>6, <1>7, FoundInTurn
<1>9. out' = b /\ seen' \in {text, <<>>} BY <1>3, <1>4, <1>8
<1> HIDE DEF a, b, done
<1>10. HasText(b, done) => HasText(out, done) BY <1>1, HasTextConcat
<1>11. HasText(text, done) => HasText(seen, done) \/ HasText(out, done)
  <2>1. HasText(text, done) <=> HasText(seen, done) \/ HasText(a, done) BY <1>1, HasTextConcat
  <2>2. HasText(a, done) => HasText(out, done) BY <1>1, HasTextConcat
  <2> QED BY <2>1, <2>2
<1>12. HasText(text, done) => DoneShown BY <1>11 DEF DoneShown, done
<1>t. DOMAIN text = 1 .. Len(text) BY <1>1
<1> HIDE DEF text
<1>13. Writing'
  <2>1. HasText(out', done) => HasText(out, done) BY <1>9, <1>10
  <2>2. HasText(seen', done) => DoneShown BY <1>9, <1>12, HasTextShort
  <2> QED BY <1>2, <1>7, <2>1, <2>2, DoneBefore DEF done
<1>14. CASE ~Found(text)
  <2>1. Sending' /\ rc' # 0 BY <1>2, <1>4, <1>7, <1>14 DEF Sending, Running
  <2> QED BY <1>13, <2>1
<1>15. CASE Found(text)
  <2>1. keys = <<>> /\ prog # "pip" /\ pc' = pc + 1 BY <1>3, <1>8, <1>15
  <2>2. Sending' BY <1>2, <1>6, <1>7, <2>1, NextDeploys
  <2>3. ASSUME rc' = 0 PROVE tracks' = "new" /\ keys' = <<>>
    <3>1. pc \in 1 .. 14 /\ Len(Steps) = 14 BY <1>2, <1>6, DeploySteps
    <3>2. pc = 14 BY <1>3, <1>15, <2>3, <3>1 DEF StatusAt
    <3>3. Step.needle = done BY <1>2, <1>6, <3>2, DeploySteps DEF done
    <3>4. PICK i \in 1 .. Len(text) : Shows(text[i], done) BY <1>15, <1>t, <3>3 DEF Found
    <3>5. text[i] = done BY <3>4 DEF Shows, done
    <3>6. HasText(text, done) BY <3>5 DEF HasText
    <3> QED BY <1>2, <1>7, <1>12, <2>1, <3>6 DEF Writing
  <2> QED BY <1>13, <2>2, <2>3
<1> QED BY <1>14, <1>15

\* A wait that runs out keeps DeployInTurn: the last one warns.
LEMMA ExpireDeploys ==
  ASSUME ScriptsAre, GoneIsFault, WaitsInStep, DeployInTurn, Expire
  PROVE  DeployInTurn'
<1>1. /\ Running /\ Step.do = "await" /\ UNCHANGED <<script, port, out, keys, prog, dsk, tracks, missing>>
      /\ (Quiet /\ faults' = faults) \/ faults' = faults + 1
      /\ pc' = pc + 1 /\ rc' = (IF Step.miss > 0 THEN Step.miss ELSE StatusAt(pc + 1))
      /\ seen' \in {seen, <<>>} /\ unsure' = (unsure \/ Step.miss = -2)
  BY DEF Expire
<1>2. SUFFICES ASSUME Waits', script' = "deploy"
               PROVE  /\ Running' => Sending' /\ Writing'
                      /\ rc' = 0 /\ ~unsure' => tracks' = "new" /\ keys' = <<>>
  BY DEF DeployInTurn
<1>3. Waits /\ script = "deploy" /\ faults' = faults BY <1>1, <1>2, WaitedBefore
<1>4. Quiet /\ prog # "gone" BY <1>1, <1>3 DEF Waits, ScriptsAre, GoneIsFault
<1>5. Sending /\ Writing /\ ProgramRuns /\ pc \in 1 .. 14 BY <1>1, <1>3, DeployNow
<1>6. keys = <<>> /\ ~(prog = "pip" /\ port # <<>>) BY <1>4 DEF Quiet
<1>7. pc \in {4, 6, 8, 10, 12, 14} /\ Len(Steps) = 14 /\ (pc = 14 => Step.miss = -2) BY <1>1, <1>3, DeploySteps
<1>8. prog # "pip"
  <2>1. prog = "pip" => pc = 4 BY <1>5, <1>7 DEF ProgramRuns
  <2> QED BY <1>3, <1>5, <1>6, <2>1 DEF ProgramRuns
<1>9. Sending' BY <1>1, <1>3, <1>5, <1>6, <1>8, NextDeploys
<1>10. Writing' BY <1>1, <1>5, DoneBefore, HasTextShort DEF DoneShown
<1>11. ~(rc' = 0 /\ ~unsure')
  <2>1. CASE pc = 14 BY <1>1, <1>7, <2>1
  <2>2. CASE pc # 14
    <3>1. StatusAt(pc + 1) = -1 BY <1>7, <2>2 DEF StatusAt
    <3>2. Step.miss \in -2 .. 5 BY <1>1, StepIs, StepKinds
    <3> QED BY <1>1, <3>1, <3>2
  <2> QED BY <2>1, <2>2
<1> QED BY <1>9, <1>10, <1>11

\* Nothing puts the deployment out of turn as long as nothing goes wrong.
LEMMA StillDeploys ==
  ASSUME ScriptsAre, GoneIsFault, WaitsInStep, DeployInTurn, [ScriptsNext]_scriptVars
  PROVE  DeployInTurn'
<1>1. CASE UNCHANGED scriptVars
  <2>1. UNCHANGED <<script, pc, seen, out, keys, port, prog, dsk, tracks, missing, unsure, rc, faults>> BY <1>1 DEF scriptVars
  <2> QED BY <2>1 DEF DeployInTurn, Waits, Running, Sending, Writing, DoneShown, HasText
<1>2. CASE ScriptsNext
  <2>1. CASE AwaitTrigger \/ Send \/ SendData BY <2>1, TypeDeploys
  <2>2. CASE \E k \in 1 .. Len(out) : Receive(k) BY <2>2, ReceiveDeploys
  <2>3. CASE Expire BY <2>3, ExpireDeploys
  <2>4. CASE \E k \in 0 .. Len(out) : Verify(k)
    <3>1. Running /\ Step.do = "verify" /\ UNCHANGED script BY <2>4 DEF Verify
    <3>2. script # "deploy" BY <3>1, AwaitsAt DEF Waiters
    <3> QED BY <3>1, <3>2 DEF DeployInTurn
  <2>5. CASE Ccp BY <2>5, CcpDeploys
  <2>6. CASE Pip BY <2>6, PipDeploys
  <2>7. CASE Sysgen BY <2>7, SysgenDeploys
  <2>8. CASE Ddt \/ Set BY <2>8, DdtDeploys
  <2>9. CASE LoseLine \/ DropByte \/ Vanish
    <3>1. faults' = faults + 1 BY <2>9 DEF LoseLine, DropByte, Vanish
    <3>2. faults' # 0 BY <3>1 DEF ScriptsAre
    <3> QED BY <3>2 DEF DeployInTurn, Waits
  <2>10. CASE Abort
    <3>1. prog = "gone" /\ UNCHANGED faults BY <2>10 DEF Abort
    <3> QED BY <3>1 DEF GoneIsFault, DeployInTurn, Waits
  <2> QED BY <1>2, <2>1, <2>2, <2>3, <2>4, <2>5, <2>6, <2>7, <2>8, <2>9, <2>10 DEF ScriptsNext
<1> QED BY <1>1, <1>2

\* The deployment begins with nothing sent.
LEMMA DeployAtStart == ASSUME ScriptsInit \/ ScriptsIdle PROVE DeployInTurn
<1>1. CASE ScriptsIdle BY <1>1 DEF ScriptsIdle, DeployInTurn
<1>2. CASE ScriptsInit
  <2>1. /\ pc = 1 /\ seen = <<>> /\ port = <<>> /\ prog = "ccp" /\ tracks = "boot" /\ rc = -1
        /\ script = "deploy" => out = <<<<"A>">>>>
    BY <1>2 DEF ScriptsInit
  <2>2. Sending BY <2>1 DEF Sending
  <2>3. script = "deploy" => Writing
    <3>1. <<"A>">> # <<"FUNCTION_COMPLETE">> OBVIOUS
    <3>2. ~HasText(<<<<"A>">>>>, <<"FUNCTION_COMPLETE">>) /\ ~HasText(<<>>, <<"FUNCTION_COMPLETE">>) BY <3>1, HasTextShort
    <3> QED BY <2>1, <3>2 DEF Writing, DoneShown
  <2> QED BY <2>1, <2>2, <2>3 DEF DeployInTurn
<1> QED BY <1>1, <1>2

\* What is written is what was sent.
LEMMA SentIs == ASSUME DeployInTurn PROVE SystemIsSent
BY DEF DeployInTurn, SystemIsSent, Waits, Waiters

-----------------------------------------------------------------------------
(* The parts together *)

\* The invariant of the console scripts.
ScriptsInv == ScriptsAre /\ GoneIsFault /\ Warned /\ FixAhead /\ WaitsInStep /\ DeployInTurn

\* It holds at the start.
LEMMA ScriptsBegin == ASSUME ScriptsInit \/ ScriptsIdle PROVE ScriptsInv
<1>1. prog = "ccp" BY DEF ScriptsInit, ScriptsIdle
<1>2. GoneIsFault BY <1>1 DEF GoneIsFault
<1> QED BY <1>2, ScriptsStart, WarnedAtStart, FixAtStart, InStepAtStart, DeployAtStart DEF ScriptsInv

\* Every step keeps it.
LEMMA ScriptsKeep == ASSUME ScriptsInv, [ScriptsNext]_scriptVars PROVE ScriptsInv'
BY ScriptsKeepType, StillGone, StillWarned, StillAhead, StillInStep, StillDeploys DEF ScriptsInv

\* The property follows.
LEMMA ScriptsAreReported == ASSUME ScriptsInv PROVE DeployedAsReported
BY ScriptsTyped, WarnedIs, FixIs, StepIsKept, SentIs DEF ScriptsInv, DeployedAsReported
=============================================================================
