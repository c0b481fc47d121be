--------------------------- MODULE ConsoleScripts ---------------------------
(***************************************************************************)
(* The scripts of rcbios-in-c/ that drive CP/M over its serial console:     *)
(* siob_deploy_server.py (a new system by PIP, MLOAD and SYSGEN),            *)
(* ddt_deploy.py (a program typed into DDT, dumped, compared and saved),     *)
(* sioa_fix_via_ddt.py (a repair program typed in and started) and           *)
(* siob_console_server.py (commands for a test).  All of them type a line,  *)
(* read until some text turns up or the time is over, and go on.            *)
(*                                                                         *)
(* A script is kept as the sequence of its steps.  Text is kept as tokens:  *)
(* prompts, echoes of typed lines, and <<"at", address, byte>> for what DDT *)
(* shows of memory.  The machine is not part of src/: it reads one line at  *)
(* a time, whenever it comes to it, and answers.  Lines get lost, bytes     *)
(* spoiled, programs are missing, any wait may run out too early, and the   *)
(* machine may go away for good (prog = "gone").                            *)
(***************************************************************************)
EXTENDS Integers, Sequences, SequencesExt, FiniteSetsExt

CONSTANTS
    Program,      \* the bytes ddt_deploy.py and sioa_fix_via_ddt.py type in
    RowLen,       \* bytes of a line of a dump (16)
    OldBytes,     \* what memory may hold before
    MaxFaults     \* bound

VARIABLES
    script, pc,   \* the script and its next step
    seen,         \* what the wait under way has read
    out,          \* text on its way to the host
    keys,         \* lines on their way to the machine
    port,         \* the HEX file on the other channel
    prog,         \* what reads them
    addr,         \* DDT: where the S command is
    tpa,          \* memory from 0100H
    dsk,          \* CPM56.HEX, CPM56.COM and the saved program
    tracks,       \* the system on the system tracks
    missing,      \* programs that are not on the disk
    ran,          \* the program the repair script has started
    unsure,       \* a warning has been printed
    rc,           \* exit status, -1: running
    faults

scriptVars == <<script, pc, seen, out, keys, port, prog, addr, tpa, dsk, tracks, missing, ran, unsure, rc, faults>>

N == Len(Program)
LastRow == ((N - 1) \div RowLen) * RowLen

\* There is a program to be typed in, and it is made of bytes.
ASSUME ScriptSizes ==
    /\ Program \in Seq(0 .. 255) /\ Program # <<>>
    /\ RowLen \in Nat \ {0} /\ MaxFaults \in Nat

-----------------------------------------------------------------------------
(* The scripts. *)

Type(word) == [do |-> "type", line |-> <<word>>]
TypeByte(i) == [do |-> "type", line |-> <<"byte", Program[i]>>]
\* miss: exit status when the time is over, 0 to go on, -2 to warn and go on.
Await(text, miss) == [do |-> "await", needle |-> <<text>>, miss |-> miss]
AwaitAddr(a) == [do |-> "await", needle |-> <<"addr", a>>, miss |-> 0]

\* Bug: the end of the checksum program is awaited, whatever it says.
BugDeploy ==
    <<[do |-> "trigger"], Type("PIP"), [do |-> "data"], Await("A>", 3),
      Type("MLOAD"), Await("A>", 4), Type("CPM56"), Await("A>", -2),
      Type("SYSGEN"), Await("DESTINATION_DRIVE", 5),
      Type("A"), Await("DESTINATION_ON_A", -2), Type("CR"), Await("FUNCTION_COMPLETE", -2)>>

\* main of siob_deploy_server.py, from the trigger to the file that tells the
\* emulator to reset.
siob_deploy ==
    <<[do |-> "trigger"], Type("PIP"), [do |-> "data"], Await("A>", 3),
      Type("MLOAD"), Await("A>", 4), Type("CPM56"), Await("OK", -2),
      Type("SYSGEN"), Await("DESTINATION_DRIVE", 5),
      Type("A"), Await("DESTINATION_ON_A", -2), Type("CR"), Await("FUNCTION_COMPLETE", -2)>>

enter_bytes_via_ddt ==
    <<Type("S"), AwaitAddr(0)>>
    \o FlattenSeq([i \in 1 .. N |-> <<TypeByte(i), AwaitAddr(i)>>])
    \o <<Type("."), Await("-", 0)>>

\* main of ddt_deploy.py; "verify" ends the script when bytes differ.  With
\* --run the program is started at the end.
ddt_deploy ==
    <<Type("CR"), Await("A>", 1), Type("DDT"), Await("-", 0)>>
    \o enter_bytes_via_ddt
    \o <<Type("D"), AwaitAddr(LastRow), [do |-> "verify"],
         Type("G0"), Await("A>", 0), Type("ERA"), Await("A>", 0), Type("SAVE"), Await("A>", 0)>>

\* main of sioa_fix_via_ddt.py.  A prompt of the S command has two blanks, so
\* the script may be ahead of DDT.
sioa_fix ==
    <<Type("CR"), Await("A>", 0), Type("DDT"), Await("-", 0), Type("S")>>
    \o FlattenSeq([i \in 1 .. N |-> <<Await("BLANK", 0), TypeByte(i)>>])
    \o <<Await("BLANK", 0), Type("."), Await("-", 0), Type("G100"), Await("A>", 0)>>

\* main of siob_console_server.py.
siob_console ==
    <<[do |-> "trigger"]>>
    \o FlattenSeq([i \in 1 .. 3 |-> <<Type(<<"DIR", "ASM", "TYPE">>[i]), Await("A>", 0)>>])

Steps == CASE script = "deploy" -> siob_deploy
           [] script = "ddt" -> ddt_deploy
           [] script = "ddt_run" -> ddt_deploy \o <<Type("RUN"), Await("A>", 0)>>
           [] script = "fix" -> sioa_fix
           [] script = "console" -> siob_console

Step == Steps[pc]
Running == rc = -1

\* These two talk to the emulator over sockets, the others over a tty with
\* RTS/CTS.
Sockets == {"deploy", "console"}

\* The script waits until the line has taken what it sends; the first line of
\* the repair is not flushed.
Flushes == script \notin Sockets /\ ~(script = "fix" /\ pc = 1)

\* Status before step n.
StatusAt(n) == IF n > Len(Steps) THEN 0 ELSE -1

Goto(n) == pc' = n /\ seen' = <<>> /\ rc' = StatusAt(n)

-----------------------------------------------------------------------------
(* What the scripts do. *)

\* The connection, the file the emulator's script writes when CP/M is up, and the
\* output of the boot read and forgotten; or the file never comes.  Without an
\* emulator nothing ends this: accept has no timeout, and the loop that reads the
\* output goes round for ever once the emulator has closed the connection.
AwaitTrigger ==
    /\ Running /\ Step.do = "trigger" /\ prog # "gone"
    /\ \/ Goto(pc + 1) /\ out' = <<>>
       \/ rc' = 2 /\ UNCHANGED <<pc, seen, out>>
    /\ UNCHANGED <<script, port, keys, prog, addr, tpa, dsk, tracks, missing, ran, unsure, faults>>

\* send, sendall.  The flush of a tty has no timeout: it waits for CTS.
Send ==
    /\ Running /\ Step.do = "type" /\ (prog = "gone" => ~Flushes)
    /\ keys' = Append(keys, Step.line)
    /\ Goto(pc + 1)
    /\ UNCHANGED <<script, port, out, prog, addr, tpa, dsk, tracks, missing, ran, unsure, faults>>

\* The HEX file on the other channel.  RTS holds it back while nobody reads;
\* PIP takes it to the end mark.  A byte of it may be lost.
SendData ==
    /\ Running /\ Step.do = "data"
    /\ \/ port' = <<"new">> /\ UNCHANGED faults
       \/ faults < MaxFaults /\ faults' = faults + 1 /\ port' = <<"bad">>
    /\ Goto(pc + 1)
    /\ UNCHANGED <<script, out, keys, prog, addr, tpa, dsk, tracks, missing, ran, unsure>>

\* Is the needle in this piece of text?  An address is also in the echo of the
\* commands that have it as an argument.
Shows(tok, needle) ==
    \/ tok = needle
    \/ /\ needle = <<"BLANK">> /\ tok[1] = "at"
    \/ \E a \in 0 .. N :
          /\ needle = <<"addr", a>>
          /\ \/ tok[1] = "at" /\ tok[2] = a
             \/ tok = <<"echo", <<"S">>>> /\ a = 0
             \/ tok = <<"echo", <<"D">>>> /\ a \in {0, N - 1}

Found(text) == \E i \in DOMAIN text : Shows(text[i], Step.needle)

\* read_until and wait_for: k pieces arrive at once.  With the needle found
\* the script goes on, and what came with it is used up; verify_via_ddt keeps
\* it, and the second blank of a prompt may be left for the next wait.
Receive(k) ==
    /\ Running /\ Step.do = "await"
    /\ LET text == seen \o SubSeq(out, 1, k)
           rest == SubSeq(out, k + 1, Len(out))
       IN  IF Found(text)
           THEN /\ \/ out' = rest
                   \/ Step.needle = <<"BLANK">> /\ Last(text)[1] = "at" /\ out' = <<<<"BLANK">>>> \o rest
                /\ pc' = pc + 1 /\ rc' = StatusAt(pc + 1)
                /\ seen' = IF pc < Len(Steps) /\ Steps[pc + 1].do = "verify" THEN text ELSE <<>>
           ELSE out' = rest /\ seen' = text /\ UNCHANGED <<pc, rc>>
    /\ UNCHANGED <<script, port, keys, prog, addr, tpa, dsk, tracks, missing, ran, unsure, faults>>

\* Nothing more comes (wait_for also ends when the connection is closed), or the
\* machine is too slow for the wait.
Quiet == out = <<>> /\ (prog = "gone" \/ (keys = <<>> /\ ~(prog = "pip" /\ port # <<>>)))

Expire ==
    /\ Running /\ Step.do = "await"
    /\ IF Quiet THEN UNCHANGED faults ELSE faults < MaxFaults /\ faults' = faults + 1
    /\ pc' = pc + 1 /\ rc' = IF Step.miss > 0 THEN Step.miss ELSE StatusAt(pc + 1)
    /\ seen' = IF pc < Len(Steps) /\ Steps[pc + 1].do = "verify" THEN seen ELSE <<>>
    /\ unsure' = (unsure \/ Step.miss = -2)
    /\ UNCHANGED <<script, port, out, keys, prog, addr, tpa, dsk, tracks, missing, ran>>

\* sendall or recv on a connection the emulator has reset: nobody catches it.
Abort ==
    /\ Running /\ prog = "gone" /\ script \in Sockets /\ Step.do \in {"type", "data", "await"}
    /\ rc' = 1
    /\ UNCHANGED <<script, pc, seen, out, keys, port, prog, addr, tpa, dsk, tracks, missing, ran, unsure, faults>>

\* parse_dump: address and up to sixteen bytes; of two for the same address
\* the later one counts.  A prompt of the S command looks like a short line of
\* a dump, and the byte typed behind it like a second byte of it.
parse_dump(text) ==
    LET add(acc, tok) ==
            CASE tok[1] = "at" -> [mem |-> [acc.mem EXCEPT ![tok[2]] = tok[3]], last |-> tok[2]]
              [] tok[1] = "echo" /\ tok[2][1] = "byte" /\ acc.last \in 0 .. N - 1 ->
                    [mem |-> [acc.mem EXCEPT ![acc.last + 1] = tok[2][2]], last |-> -1]
              [] OTHER -> [acc EXCEPT !.last = -1]
    IN  FoldLeft(add, [mem |-> [a \in 0 .. N |-> -1], last |-> -1], text).mem

\* Bug: bytes the dump does not show are taken as right.
BugVerify(text) == \A i \in 1 .. N : parse_dump(text)[i - 1] \in {-1, Program[i]}

verify_via_ddt(text) == \A i \in 1 .. N : parse_dump(text)[i - 1] = Program[i]

\* After a moment what has come by then is added and compared.  When bytes differ
\* DDT is left before the script ends.
Verify(k) ==
    /\ Running /\ Step.do = "verify"
    /\ out' = SubSeq(out, k + 1, Len(out))
    /\ IF verify_via_ddt(seen \o SubSeq(out, 1, k))
       THEN Goto(pc + 1) /\ UNCHANGED keys
       ELSE prog # "gone" /\ rc' = 2 /\ seen' = <<>> /\ keys' = Append(keys, <<"G0">>) /\ UNCHANGED pc
    /\ UNCHANGED <<script, port, prog, addr, tpa, dsk, tracks, missing, ran, unsure, faults>>

-----------------------------------------------------------------------------
(* The machine. *)

Answer(toks) == out' = out \o <<<<"echo", Head(keys)>>>> \o toks /\ keys' = Tail(keys)
There(name) == name \notin missing

\* CCP: programs that end with the prompt, and those that go on reading.
Ccp ==
    /\ prog = "ccp" /\ keys # <<>>
    /\ LET line == Head(keys)
           fails == faults < MaxFaults     \* no space, file not found
       IN  CASE line[1] = "DDT" /\ There("DDT") -> Answer(<<<<"-">>>>) /\ prog' = "ddt" /\ UNCHANGED <<dsk, faults>>
             [] line[1] = "PIP" /\ There("PIP") -> Answer(<<>>) /\ prog' = "pip" /\ UNCHANGED <<dsk, faults>>
             [] line[1] = "SYSGEN" /\ There("SYSGEN") ->
                   Answer(<<<<"DESTINATION_DRIVE">>>>) /\ prog' = "sysgen" /\ UNCHANGED <<dsk, faults>>
             [] line[1] = "MLOAD" /\ There("MLOAD") ->
                   /\ Answer(<<<<"A>">>>>) /\ UNCHANGED prog
                   /\ \/ dsk.hex # "none" /\ dsk' = [dsk EXCEPT !.com = dsk.hex] /\ UNCHANGED faults
                      \/ dsk.hex = "none" /\ UNCHANGED <<dsk, faults>>
                      \/ fails /\ faults' = faults + 1 /\ UNCHANGED dsk
             [] line[1] = "CPM56" /\ dsk.com # "none" ->
                   Answer(<<IF dsk.com = "bad" THEN <<"FAIL">> ELSE <<"OK">>, <<"A>">> >>) /\ UNCHANGED <<prog, dsk, faults>>
             [] line[1] = "ERA" -> Answer(<<<<"A>">>>>) /\ dsk' = [dsk EXCEPT !.saved = <<>>] /\ UNCHANGED <<prog, faults>>
             [] line[1] = "SAVE" ->
                   /\ Answer(<<<<"A>">>>>) /\ UNCHANGED prog
                   /\ \/ dsk' = [dsk EXCEPT !.saved = tpa] /\ UNCHANGED faults
                      \/ fails /\ faults' = faults + 1 /\ UNCHANGED dsk
             [] OTHER -> Answer(<<<<"A>">>>>) /\ UNCHANGED <<prog, dsk, faults>>
    /\ UNCHANGED <<script, port, pc, seen, addr, tpa, tracks, missing, ran, unsure, rc>>

\* PIP reads its file; lines typed meanwhile wait.
Pip ==
    /\ prog = "pip" /\ port # <<>>
    /\ dsk' = [dsk EXCEPT !.hex = port[1]]
    /\ port' = <<>>
    /\ out' = Append(out, <<"A>">>) /\ prog' = "ccp"
    /\ UNCHANGED <<script, pc, seen, keys, addr, tpa, tracks, missing, ran, unsure, rc, faults>>

Sysgen ==
    /\ keys # <<>>
    /\ \/ /\ prog = "sysgen"
          /\ IF Head(keys) = <<"A">> THEN Answer(<<<<"DESTINATION_ON_A">>>>) /\ prog' = "sysgen_on_A"
             ELSE Answer(<<<<"A>">>>>) /\ prog' = "ccp"
          /\ UNCHANGED tracks
       \/ /\ prog = "sysgen_on_A"
          /\ Answer(<<<<"FUNCTION_COMPLETE">>, <<"DESTINATION_DRIVE">>>>) /\ prog' = "sysgen"
          /\ tracks' = dsk.com
    /\ UNCHANGED <<script, port, pc, seen, addr, tpa, dsk, missing, ran, unsure, rc, faults>>

Dump == [a \in 1 .. N |-> <<"at", a - 1, tpa[a]>>]

Ddt ==
    /\ prog = "ddt" /\ keys # <<>>
    /\ LET line == Head(keys)
       IN  CASE line[1] = "S" -> Answer(<<<<"at", 0, tpa[1]>>>>) /\ prog' = "set" /\ addr' = 0 /\ UNCHANGED ran
             [] line[1] = "D" -> Answer(Append(Dump, <<"-">>)) /\ UNCHANGED <<prog, addr, ran>>
             [] line[1] = "G0" -> Answer(<<<<"A>">>>>) /\ prog' = "ccp" /\ UNCHANGED <<addr, ran>>
             [] line[1] = "G100" -> Answer(<<<<"A>">>>>) /\ prog' = "ccp" /\ ran' = tpa /\ UNCHANGED addr
             [] OTHER -> Answer(<<<<"?">>, <<"-">>>>) /\ UNCHANGED <<prog, addr, ran>>
    /\ UNCHANGED <<script, port, pc, seen, tpa, dsk, tracks, missing, unsure, rc, faults>>

\* The S command: a byte, the end, or an error that ends it.  Behind the last
\* byte memory is not kept.
Set ==
    /\ prog = "set" /\ keys # <<>>
    /\ LET line == Head(keys)
           next == addr + 1
       IN  IF line[1] = "byte"
           THEN /\ tpa' = IF next <= N THEN [tpa EXCEPT ![next] = line[2]] ELSE tpa
                /\ Answer(<<<<"at", IF next <= N THEN next ELSE N, IF next < N THEN tpa[next + 1] ELSE 0>>>>)
                /\ addr' = IF next <= N THEN next ELSE N
                /\ UNCHANGED prog
           ELSE /\ Answer(IF line[1] = "." THEN <<<<"-">>>> ELSE <<<<"?">>, <<"-">>>>) /\ prog' = "ddt"
                /\ UNCHANGED <<tpa, addr>>
    /\ UNCHANGED <<script, port, pc, seen, dsk, tracks, missing, ran, unsure, rc, faults>>

\* A typed line is lost, or a byte arrives as another one.
LoseLine ==
    /\ faults < MaxFaults /\ keys # <<>>
    /\ faults' = faults + 1
    /\ keys' = IF Head(keys)[1] = "byte" THEN <<<<"byte", 0>>>> \o Tail(keys) ELSE Tail(keys)
    /\ UNCHANGED <<script, port, pc, seen, out, prog, addr, tpa, dsk, tracks, missing, ran, unsure, rc>>

DropByte ==
    /\ faults < MaxFaults /\ keys # <<>> /\ Head(keys)[1] = "byte"
    /\ faults' = faults + 1
    /\ keys' = Tail(keys)
    /\ UNCHANGED <<script, port, pc, seen, out, prog, addr, tpa, dsk, tracks, missing, ran, unsure, rc>>

\* The emulator quits or was never started, or the machine is switched off and CTS
\* with it.
Vanish ==
    /\ Running /\ prog # "gone" /\ faults < MaxFaults
    /\ faults' = faults + 1 /\ prog' = "gone"
    /\ UNCHANGED <<script, port, pc, seen, out, keys, addr, tpa, dsk, tracks, missing, ran, unsure, rc>>

-----------------------------------------------------------------------------
ScriptsIdle ==
    /\ script = "none" /\ pc = 0 /\ seen = <<>> /\ out = <<>> /\ keys = <<>> /\ port = <<>> /\ prog = "ccp" /\ addr = 0
    /\ tpa = <<>> /\ dsk = [hex |-> "none", com |-> "none", saved |-> <<>>] /\ tracks = "boot"
    /\ missing = {} /\ ran = <<>> /\ unsure = FALSE /\ rc = 0 /\ faults = 0

ScriptsInit ==
    /\ script \in {"deploy", "ddt", "ddt_run", "fix", "console"}
    /\ out = IF script \in {"deploy", "console"} THEN <<<<"A>">>>> ELSE <<>>     \* left from the boot
    /\ pc = 1 /\ seen = <<>> /\ keys = <<>> /\ port = <<>> /\ prog = "ccp" /\ addr = 0
    /\ \E b \in OldBytes : tpa = [i \in 1 .. N |-> b]
    /\ \E old \in {"none", "old"} : dsk = [hex |-> old, com |-> old, saved |-> <<>>]
    /\ tracks = "boot" /\ missing \in {{}} \cup {{p} : p \in {"DDT", "PIP", "MLOAD", "SYSGEN"}}
    /\ ran = <<>> /\ unsure = FALSE /\ rc = -1 /\ faults = 0

ScriptsNext ==
    \/ AwaitTrigger
    \/ Send
    \/ SendData
    \/ \E k \in 1 .. Len(out) : Receive(k)
    \/ Expire
    \/ Abort
    \/ \E k \in 0 .. Len(out) : Verify(k)
    \/ Ccp
    \/ Pip
    \/ Sysgen
    \/ Ddt
    \/ Set
    \/ LoseLine
    \/ DropByte
    \/ Vanish

-----------------------------------------------------------------------------
(* Properties. *)

\* Every script is at one of its steps or has ended with a status.
ScriptsTypeOK ==
    /\ rc \in -1 .. 5 /\ faults \in 0 .. MaxFaults /\ unsure \in BOOLEAN
    /\ Running => pc \in 1 .. Len(Steps)
    /\ tracks \in {"boot", "old", "new", "bad", "none"} /\ dsk.com \in {"none", "old", "new", "bad"}

\* A program ddt_deploy.py has had saved is the program, byte for byte, although
\* lines were lost, spoiled or answered too late while it was typed, dumped and
\* compared.  (Within MaxFaults: with more of them errors could make up for each
\* other, as bytes are compared and not where they came from.)
SavedIsData == dsk.saved # <<>> => dsk.saved = Program

\* siob_deploy_server.py never has a system with a wrong sum written to the
\* system tracks without having warned of it, whatever is lost, late, missing
\* or fails on the way.
BrokenSystemWarned == tracks = "bad" => unsure

\* As long as nothing goes wrong on the line, the scripts that wait for the
\* answer before the next line are never more than a line ahead of the machine.
TypesInStep == script # "fix" /\ faults = 0 /\ missing = {} =>
                  Len(keys) <= 1

\* The repair script, however far it runs ahead of DDT, starts the program it
\* has typed, if the line loses nothing.
FixRunsWhole == ran # <<>> /\ faults = 0 => ran = Program

\* When siob_deploy_server.py ends with status 0 and without a warning, the system
\* on the system tracks is the one it sent, provided that the programs it calls are
\* on the disk and nothing went wrong on the way.  (Otherwise an old one may be
\* written: any A> is taken for the end of PIP and of MLOAD, also the one of CCP
\* that finds no PIP or no MLOAD, and the OK of an old CPM56.COM is about itself.)
SystemIsSent ==
    script = "deploy" /\ rc = 0 /\ ~unsure /\ faults = 0 /\ missing = {} => tracks = "new"

\* Where a script whose machine has gone waits for ever: accept (86, 90) and the
\* reading of the boot's output (109-113) in siob_deploy_server.py and accept (49) in
\* siob_console_server.py; s.flush in ddt_deploy.py (56) and sioa_fix_via_ddt.py (50-75).
Stuck == Running /\ prog = "gone" /\ Step.do \in IF Flushes THEN {"type", "verify"} ELSE {"trigger"}

\* Every script ends, with every line, answer and program that may be missing, and
\* when the machine goes away in the middle too, unless it is at one of the places
\* without a timeout then.  (The two with sockets end with the file that tells the
\* emulator to quit; what they read after that is not kept.)
ScriptEnds == <>(rc # -1 \/ Stuck)

\* The four scripts warn before a broken system is written to the system tracks, have
\* written the system they sent if all went well, start nothing but the program they
\* have typed, and do not type ahead of a machine that answers.
DeployedAsReported ==
    ScriptsTypeOK /\ BrokenSystemWarned /\ SystemIsSent /\ TypesInStep /\ FixRunsWhole
=============================================================================
