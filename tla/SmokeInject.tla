----------------------------- MODULE SmokeInject -----------------------------
(***************************************************************************)
(* cpnos-rom/testutil/smoke_inject.py: types the commands of the smoke test  *)
(* one by one, each when the stream from the machine ends with the prompt,  *)
(* and waits for the marker the last one prints.                            *)
(*                                                                         *)
(* A program may be silent for long and CCP may be slow to echo.  The       *)
(* machine loses what is typed while CCP does not read, which is why the    *)
(* script exists.  CCP and the programs are not part of src/.               *)
(***************************************************************************)
EXTENDS Integers, Sequences, SequencesExt

CONSTANTS
    NSteps,       \* commands of the workload (3 for sumtest, 1 for filecopy)
    RecvSize,     \* bytes read at once (256)
    MaxBuf        \* bytes of the stream that are kept (4096)

\* A marker that began before the last read is still in buf.
ASSUME BufHoldsMarker == RecvSize \in Nat /\ MaxBuf \in Nat /\ MaxBuf >= RecvSize + 1

VARIABLES
    smoke,        \* "running", "done", "late" (deadline), "closed", "off"
    inbuf,        \* buf: what has been read since the last command
    step_idx,
    cooling,      \* before cooldown_until
    saw_marker,
    sent,         \* commands on their way to the machine
    stream,       \* bytes on their way to the script
    cpm,          \* "boot", "ready" (CCP reads), "busy"
    current,      \* the command CCP carries out
    prompts       \* prompts printed

smokeVars == <<smoke, inbuf, step_idx, cooling, saw_marker, sent, stream, cpm, current, prompts>>

Prompt == <<"A", ">">>
Marker == <<"O", "K">>
Holds(s, pattern) == \E i \in 0 .. Len(s) - Len(pattern) : SubSeq(s, i + 1, i + Len(pattern)) = pattern
Tailed(s) == IF Len(s) > MaxBuf THEN SubSeq(s, Len(s) - MaxBuf + 1, Len(s)) ELSE s

-----------------------------------------------------------------------------
\* The next command, if the stream ends with its prompt.  Then nothing is
\* typed for half a second, and the prompt is forgotten.
maybe_fire_step(b) ==
    IF step_idx < NSteps /\ ~cooling /\ IsSuffix(Prompt, b)
    THEN /\ sent' = Append(sent, step_idx + 1) /\ step_idx' = step_idx + 1
         /\ cooling' = TRUE /\ inbuf' = <<>>
    ELSE inbuf' = b /\ UNCHANGED <<sent, step_idx, cooling>>

\* Data: the marker counts once all commands are out.
RecvData(k) ==
    /\ smoke = "running" /\ k <= Len(stream)
    /\ LET b == Tailed(inbuf \o SubSeq(stream, 1, k))
       IN  IF step_idx >= NSteps /\ Holds(b, Marker) /\ ~saw_marker
           THEN saw_marker' = TRUE /\ inbuf' = b /\ UNCHANGED <<sent, step_idx, cooling>>
           ELSE maybe_fire_step(b) /\ UNCHANGED saw_marker
    /\ stream' = SubSeq(stream, k + 1, Len(stream))
    /\ UNCHANGED <<smoke, cpm, current, prompts>>

\* Half a second without data: a prompt that came during the pause is still
\* in buf.
RecvTimeout ==
    /\ smoke = "running" /\ stream = <<>>
    /\ maybe_fire_step(inbuf)
    /\ UNCHANGED <<smoke, saw_marker, stream, cpm, current, prompts>>

CooldownOver ==
    /\ smoke = "running" /\ cooling
    /\ cooling' = FALSE
    /\ UNCHANGED <<smoke, inbuf, step_idx, saw_marker, sent, stream, cpm, current, prompts>>

\* Three seconds after the marker, after --timeout, or when the peer closes.
Finish ==
    /\ smoke = "running"
    /\ \/ saw_marker /\ smoke' = "done"
       \/ ~saw_marker /\ smoke' \in {"late", "closed"}
    /\ UNCHANGED <<inbuf, step_idx, cooling, saw_marker, sent, stream, cpm, current, prompts>>

-----------------------------------------------------------------------------
(* The machine. *)

PrintPrompt ==
    /\ smoke # "off" /\ cpm \in {"boot", "busy"}
    /\ cpm' = "ready" /\ stream' = stream \o Prompt /\ prompts' = prompts + 1
    /\ (cpm = "busy" => current = 0) /\ current' = 0
    /\ UNCHANGED <<smoke, inbuf, step_idx, cooling, saw_marker, sent>>

\* CCP reads and echoes a line; typed while it is busy, a line is lost.
ReadCommand ==
    /\ sent # <<>>
    /\ sent' = Tail(sent)
    /\ IF cpm = "ready" THEN cpm' = "busy" /\ current' = Head(sent) /\ stream' = Append(stream, "echo")
       ELSE UNCHANGED <<cpm, current, stream>>
    /\ UNCHANGED <<smoke, inbuf, step_idx, cooling, saw_marker, prompts>>

\* The program prints: the last one its marker, the others anything.
RunProgram ==
    /\ cpm = "busy" /\ current # 0
    /\ current' = 0
    /\ stream' = stream \o (IF current = NSteps THEN Append(Marker, " ") ELSE <<"x">>)
    /\ UNCHANGED <<smoke, inbuf, step_idx, cooling, saw_marker, sent, cpm, prompts>>

-----------------------------------------------------------------------------
SmokeStart(s) ==
    /\ smoke = s /\ inbuf = <<>> /\ step_idx = 0 /\ cooling = FALSE /\ saw_marker = FALSE /\ sent = <<>>
    /\ stream = <<>> /\ cpm = "boot" /\ current = 0 /\ prompts = 0

SmokeIdle == SmokeStart("off")
SmokeInit == SmokeStart("running")

SmokeNext ==
    \/ \E k \in 1 .. RecvSize : RecvData(k)
    \/ RecvTimeout
    \/ CooldownOver
    \/ Finish
    \/ PrintPrompt
    \/ ReadCommand
    \/ RunProgram

SmokeFairness ==
    /\ WF_smokeVars(\E k \in 1 .. RecvSize : RecvData(k)) /\ WF_smokeVars(RecvTimeout)
    /\ WF_smokeVars(CooldownOver) /\ WF_smokeVars(saw_marker /\ Finish)
    /\ WF_smokeVars(PrintPrompt) /\ WF_smokeVars(ReadCommand) /\ WF_smokeVars(RunProgram)

-----------------------------------------------------------------------------
(* Properties. *)

\* No command is typed without a prompt of its own, so that none is lost in a
\* machine that is busy with the one before.
OnePromptEach == step_idx <= prompts

\* Unless the time is over or the machine gone, every command is typed and the
\* marker is found: a prompt that comes during the pause after a command, or
\* in two pieces, is not missed, and nothing more need come for it to be seen.
SmokeDone == (smoke = "running") ~> (smoke \in {"done", "late", "closed"})
=============================================================================
