---------------------------- MODULE SerialBridges ----------------------------
(***************************************************************************)
(* Host programs between a person or a script and the machine's SIO-B:      *)
(* siob_interactive.py (a terminal), siob_daemon.py (a log and a FIFO of     *)
(* commands) and sio_b_driver.py (text is typed once a pattern has come).   *)
(*                                                                         *)
(* All of them take a stream in pieces whose borders mean nothing: an        *)
(* escape sequence, a pattern or two enquiries may be in one piece or       *)
(* spread over several.  A pass of the main loop is one action.             *)
(***************************************************************************)
EXTENDS Integers, Sequences, SequencesExt

CONSTANTS
    Typed, Lines, \* streams tried: of the terminal, of the machine
    Trigger,      \* the pattern of sio_b_driver.py
    Window,       \* bytes it keeps for the match (4096)
    Piece,        \* bytes read at once (256)
    Commands      \* bound: the commands written to the FIFO, one after the other

\* An empty pattern would never be armed; commands are text and no answers.
ASSUME StreamsAre ==
    /\ Typed \subseteq Seq(STRING) /\ Lines \subseteq Seq(STRING)
    /\ Trigger \in Seq(STRING) /\ Trigger # <<>>
    /\ Commands \in Seq(STRING) /\ \A i \in DOMAIN Commands : Commands[i] # "ACK"

\* The window holds a pattern that began before the last piece.
ASSUME WindowFits == {Window, Piece} \subseteq Nat /\ Len(Trigger) + Piece - 1 <= Window

VARIABLES
    tool,         \* "interactive", "daemon", "driver", or "none"
    typed, line,  \* still to be read: keys, bytes of the machine
    keysRead, lineRead,
    escape_pending, armed, buf,
    toLine,       \* sent to the machine
    shown,        \* written to the screen or the log
    fifo,         \* commands in the FIFO
    fifo_fd,      \* "open", "eof" (read was empty), "closed"
    written,      \* commands written so far
    unlucky,      \* numbers of those written between the empty read and the close
    over          \* the program has ended

bridgeVars == <<tool, typed, line, keysRead, lineRead, escape_pending, armed, buf, toLine, shown,
                fifo, fifo_fd, written, unlucky, over>>

Upto(s) == 1 .. IF Len(s) < Piece THEN Len(s) ELSE Piece
After(s, k) == SubSeq(s, k + 1, Len(s))
Only(s, b) == FlattenSeq([i \in 1 .. Len(s) |-> IF s[i] = b THEN <<b>> ELSE <<>>])
Without(s, b) == FlattenSeq([i \in 1 .. Len(s) |-> IF s[i] = b THEN <<>> ELSE <<s[i]>>])

-----------------------------------------------------------------------------
(* siob_interactive.py *)

\* One key: what has been collected to send, and what is pending.  With quit
\* set the rest of the piece is not looked at.
Key(acc, b) ==
    CASE ~acc.quit /\ acc.esc /\ b = "q" -> [acc EXCEPT !.quit = TRUE]
      [] ~acc.quit /\ acc.esc /\ b # "q" -> [acc EXCEPT !.esc = FALSE, !.out = @ \o <<"ESC", b>>]
      [] ~acc.quit /\ ~acc.esc /\ b = "ESC" -> [acc EXCEPT !.esc = TRUE]
      [] ~acc.quit /\ ~acc.esc /\ b # "ESC" -> [acc EXCEPT !.out = Append(@, IF b = "LF" THEN "CR" ELSE b)]
      [] OTHER -> acc

\* The keys of a piece, one after the other.
KeyByKey(esc, piece) ==
    LET after[n \in 0 .. Len(piece)] ==
            IF n = 0 THEN [out |-> <<>>, esc |-> esc, quit |-> FALSE] ELSE Key(after[n - 1], piece[n])
    IN  after[Len(piece)]

\* Bug: the pending escape is forgotten at the end of a piece.
BugKeys(piece) == KeyByKey(FALSE, piece)

Keys(piece) == KeyByKey(escape_pending, piece)

\* Keys that came with the quit are not sent.
ReadKeys(k) ==
    /\ tool = "interactive" /\ ~over
    /\ LET res == Keys(SubSeq(typed, 1, k))
       IN  /\ over' = res.quit
           /\ toLine' = IF res.quit THEN toLine ELSE toLine \o res.out
           /\ escape_pending' = res.esc
    /\ keysRead' = keysRead \o SubSeq(typed, 1, k) /\ typed' = After(typed, k)
    /\ UNCHANGED <<tool, line, lineRead, armed, buf, shown, fifo, fifo_fd, written, unlucky>>

-----------------------------------------------------------------------------
(* siob_daemon.py *)

\* An answer for every enquiry of the boot probe.
Acks(piece) == [i \in 1 .. Len(Only(piece, "ENQ")) |-> "ACK"]

\* An empty read: every writer has closed, or (on some systems) none has
\* opened yet.  The file is closed and opened again, in two steps.
FifoEof ==
    /\ tool = "daemon" /\ fifo_fd = "open" /\ fifo = <<>>
    /\ fifo_fd' = "eof"
    /\ UNCHANGED <<tool, typed, line, keysRead, lineRead, escape_pending, armed, buf, toLine, shown, fifo, written, unlucky, over>>

\* With the last end of a FIFO closed its content is gone.
FifoReopen ==
    /\ tool = "daemon" /\ fifo_fd \in {"eof", "closed"}
    /\ IF fifo_fd = "eof" THEN fifo_fd' = "closed" /\ fifo' = <<>> ELSE fifo_fd' = "open" /\ UNCHANGED fifo
    /\ UNCHANGED <<tool, typed, line, keysRead, lineRead, escape_pending, armed, buf, toLine, shown, written, unlucky, over>>

FifoRead ==
    /\ tool = "daemon" /\ fifo_fd = "open" /\ fifo # <<>>
    /\ toLine' = toLine \o fifo /\ fifo' = <<>>
    /\ UNCHANGED <<tool, typed, line, keysRead, lineRead, escape_pending, armed, buf, shown, fifo_fd, written, unlucky, over>>

\* A shell writes a command and closes; its open waits for a reader.
WriteCommand ==
    /\ tool = "daemon" /\ fifo_fd # "closed" /\ written < Len(Commands)
    /\ written' = written + 1 /\ fifo' = Append(fifo, Commands[written'])
    /\ unlucky' = IF fifo_fd = "eof" THEN unlucky \cup {written'} ELSE unlucky
    /\ UNCHANGED <<tool, typed, line, keysRead, lineRead, escape_pending, armed, buf, toLine, shown, fifo_fd, over>>

-----------------------------------------------------------------------------
(* What the machine sends. *)

\* The pattern is in the window.
Matches(b, piece) == \E i \in 0 .. Len(b) : IsPrefix(Trigger, SubSeq(b, i + 1, Len(b)))

\* Shown or logged; answered by the daemon; compared by the driver, which
\* types once and then only listens.
ReadLine(k) ==
    /\ ~over /\ fifo_fd = "open"
    /\ LET piece == SubSeq(line, 1, k)
           all == buf \o piece
           win == IF Len(all) > Window THEN After(all, Len(all) - Window) ELSE all
           fire == tool = "driver" /\ armed /\ Matches(win, piece)
       IN  /\ shown' = shown \o (IF tool = "daemon" THEN Without(piece, "ENQ") ELSE piece)
           /\ buf' = IF tool = "driver" THEN win ELSE buf
           /\ armed' = (armed /\ ~fire)
           /\ toLine' = CASE tool = "daemon" -> toLine \o Acks(piece)
                          [] fire -> Append(toLine, "INJECT")
                          [] OTHER -> toLine
           /\ lineRead' = lineRead \o piece
    /\ line' = After(line, k)
    /\ UNCHANGED <<tool, typed, keysRead, escape_pending, fifo, fifo_fd, written, unlucky, over>>

\* The connection is closed, or the driver's time is over.
Close ==
    /\ tool \in {"interactive", "driver"} /\ ~over
    /\ over' = TRUE
    /\ UNCHANGED <<tool, typed, line, keysRead, lineRead, escape_pending, armed, buf, toLine, shown, fifo, fifo_fd, written, unlucky>>

-----------------------------------------------------------------------------
BridgesStart(t) ==
    /\ tool = t /\ keysRead = <<>> /\ lineRead = <<>> /\ escape_pending = FALSE /\ armed = (t = "driver")
    /\ buf = <<>> /\ toLine = <<>> /\ shown = <<>> /\ fifo = <<>> /\ fifo_fd = "open" /\ written = 0
    /\ unlucky = {} /\ over = FALSE

BridgesIdle == BridgesStart("none") /\ typed = <<>> /\ line = <<>>

BridgesInit ==
    \/ BridgesStart("interactive") /\ typed \in Typed /\ line = <<"x">>
    \/ \E t \in {"daemon", "driver"} : BridgesStart(t) /\ typed = <<>> /\ line \in Lines

BridgesNext ==
    \/ \E k \in Upto(typed) : ReadKeys(k)
    \/ \E k \in Upto(line) : ReadLine(k)
    \/ FifoEof
    \/ FifoReopen
    \/ FifoRead
    \/ WriteCommand
    \/ Close

-----------------------------------------------------------------------------
(* Properties. *)

\* A key is the start of an escape sequence if an even number of escapes comes
\* directly before it.
Leads(s, i) ==
    /\ s[i] = "ESC"
    /\ \E n \in 0 .. i - 1 :
          /\ n % 2 = 0 /\ (\A j \in i - n .. i - 1 : s[j] = "ESC")
          /\ i - n > 1 => s[i - n - 1] # "ESC"

\* What key i means: the second of an escape sequence, the first, or itself.
Meant(s, i) ==
    IF i > 1 /\ Leads(s, i - 1) THEN <<"ESC", s[i]>>
    ELSE IF Leads(s, i) THEN <<>>
    ELSE IF s[i] = "LF" THEN <<"CR">> ELSE <<s[i]>>

Quits(s) == \E i \in 2 .. Len(s) : Leads(s, i - 1) /\ s[i] = "q"

\* siob_interactive.py sends what the keys mean, wherever the pieces end: the
\* escape with the key behind it, a CR for an LF, everything else as it is --
\* and it ends at an escape with a q behind it.
KeysKeepMeaning ==
    tool = "interactive" =>
        /\ Quits(keysRead) => over
        /\ ~Quits(keysRead) => toLine = FlattenSeq([i \in 1 .. Len(keysRead) |-> Meant(keysRead, i)])

\* siob_daemon.py answers every enquiry of the BIOS once, however they come,
\* and keeps the answers apart from commands and log: a probe without answer
\* makes the BIOS go on without the host.
EnquiriesAnswered ==
    tool = "daemon" =>
        /\ Len(Only(toLine, "ACK")) = Len(Only(lineRead, "ENQ"))
        /\ shown = Without(lineRead, "ENQ")

\* The first n commands but for those in drop.
Kept(n, drop) == FlattenSeq([i \in 1 .. n |-> IF i \in drop THEN <<>> ELSE <<Commands[i]>>])

\* Every command written to the FIFO is passed on once and in order, but for
\* those written between the daemon's empty read and its close.
CommandsPassedOn ==
    tool = "daemon" => \E drop \in SUBSET unlucky : Without(toLine, "ACK") \o fifo = Kept(written, drop)

\* sio_b_driver.py types its text once, and as soon as the pattern has come,
\* also when the pattern is spread over pieces or the window has been cut.
InjectedOnce ==
    tool = "driver" =>
        toLine = IF \E i \in 0 .. Len(lineRead) : IsPrefix(Trigger, After(lineRead, i)) THEN <<"INJECT">> ELSE <<>>

\* The three bridges pass every stream on as it is meant, whatever pieces it comes in.
StreamsKept == KeysKeepMeaning /\ EnquiriesAnswered /\ CommandsPassedOn /\ InjectedOnce
=============================================================================
