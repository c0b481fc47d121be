----------------------------- MODULE SerialFeeds -----------------------------
(***************************************************************************)
(* Files sent to PIP, which reads them from RDR: up to an end mark:          *)
(* send_hex_files of cpnet/server.py (GO.SUB and the six files its PIPs ask  *)
(* for, in a row), sysgen_serial_server.py and siob_iobyte_server.py (one    *)
(* file, in small parts, when a file in /tmp says that PIP is ready).        *)
(*                                                                         *)
(* Bytes go from the socket (wire) into the ring of the BIOS and from there *)
(* to PIP.  RTS holds the wire back while the ring is full, but not on      *)
(* SIO-B in the test of siob_iobyte_server.py, which relies on its pauses.  *)
(* Speed and RTS of the line are set by the emulator's script in its first  *)
(* frame: what is sent before that is lost or arrives as something else.    *)
(* The emulator's scripts and CP/M are not modelled beyond this.            *)
(***************************************************************************)
EXTENDS Integers, Sequences, SequencesExt

CONSTANTS
    Lengths,      \* length of each file, by name
    RingSize,     \* bytes of the ring
    Chunk,        \* bytes sent at a time
    Lag           \* assumption: bytes PIP is behind at most after a pause

FileNames == {"GO.SUB", "CHKSUM", "CPNETLDR", "NETWORK", "CCP", "SNIOS", "NDOS", "PAYLOAD"}

ASSUME FeedSizes == Lengths \in [FileNames -> Nat] /\ {RingSize, Chunk, Lag} \subseteq Nat
ASSUME LagFits == Lag + Chunk + 1 <= RingSize

VARIABLES
    feed,         \* the sender: "hex", "sysgen", "iobyte", or "none"
    absent,       \* files that are not in the directory
    configured,   \* the emulator's script has set speed and flow control
    early,        \* history: a byte has gone over the line before that
    trigger,      \* the file in /tmp: "none", "empty" (created, not written), "go"
    unsent,       \* what is still to be sent
    sender,       \* "wait", "send", "done", "failed"
    wire, ring,
    batch,        \* commands CP/M has still to carry out
    pip,          \* the name of the file PIP is writing, or "none"
    files, coms   \* what PIP has written, what LOAD has made of it

feedVars == <<feed, absent, configured, early, trigger, unsent, sender, wire, ring, batch, pip, files, coms>>

EOF == <<"^Z">>
Garbled == <<"garbled">>
Content(f) == [i \in 1 .. Lengths[f] |-> <<f, i>>]

-----------------------------------------------------------------------------
(* What is sent. *)

\* Bug: two files are sent in the other order.
BugFileOrder == <<"CHKSUM", "NETWORK", "CPNETLDR", "CCP", "SNIOS", "NDOS">>

FILE_ORDER == <<"CHKSUM", "CPNETLDR", "NETWORK", "CCP", "SNIOS", "NDOS">>

\* The commands of GO.SUB.
go_sub ==
    FlattenSeq([i \in 1 .. 6 |->
        LET f == <<"CHKSUM", "CPNETLDR", "NETWORK", "CCP", "SNIOS", "NDOS">>[i]
        IN  <<<<"PIP", f>>, <<"LOAD", f>>>> \o (IF i > 3 THEN <<<<"REN", f>>>> ELSE <<>>)])
    \o <<<<"RUN", "CPNETLDR">>>>

\* GO.SUB and the files that are there, each with its end mark.
send_hex_files ==
    Content("GO.SUB") \o <<EOF>>
    \o FlattenSeq([i \in 1 .. 6 |->
          IF FILE_ORDER[i] \in absent THEN <<>> ELSE Content(FILE_ORDER[i]) \o <<EOF>>])

Payload == Content("PAYLOAD") \o <<EOF>>

-----------------------------------------------------------------------------
(* The senders. *)

\* The content is looked at, so that a file just created does not count.
PollTrigger ==
    /\ sender = "wait" /\ feed # "hex" /\ trigger = "go"
    /\ trigger' = "none" /\ sender' = "send"
    /\ unsent' = Payload
    /\ UNCHANGED <<feed, absent, configured, early, wire, ring, batch, pip, files, coms>>

\* 600 polls without success.
PollTimeout ==
    /\ sender = "wait" /\ feed # "hex" /\ trigger # "go"
    /\ sender' = "failed"
    /\ UNCHANGED <<feed, absent, configured, early, trigger, unsent, wire, ring, batch, pip, files, coms>>

\* The half second send_hex_files sleeps first is for the emulator's script to set
\* the speed.
StartHexFiles ==
    /\ sender = "wait" /\ feed = "hex" /\ configured
    /\ unsent' = send_hex_files /\ sender' = "send"
    /\ UNCHANGED <<feed, absent, configured, early, trigger, wire, ring, batch, pip, files, coms>>

\* One part, after the pause where there is one.
SendChunk ==
    /\ sender = "send" /\ unsent # <<>>
    /\ feed = "iobyte" => Len(wire) + Len(ring) <= Lag
    /\ LET k == IF Len(unsent) < Chunk THEN Len(unsent) ELSE Chunk
       IN  wire' = wire \o SubSeq(unsent, 1, k) /\ unsent' = SubSeq(unsent, k + 1, Len(unsent))
    /\ UNCHANGED <<feed, absent, configured, early, trigger, sender, ring, batch, pip, files, coms>>

\* server.py's socket has a timeout of 30 s: with the line held back for that
\* long sendall raises OSError and the transfer is given up.
SendFails ==
    /\ sender = "send" /\ feed = "hex" /\ Len(ring) = RingSize /\ unsent # <<>>
    /\ sender' = "failed"
    /\ UNCHANGED <<feed, absent, configured, early, trigger, unsent, wire, ring, batch, pip, files, coms>>

AllSent ==
    /\ sender = "send" /\ unsent = <<>>
    /\ sender' = "done"
    /\ UNCHANGED <<feed, absent, configured, early, trigger, unsent, wire, ring, batch, pip, files, coms>>

-----------------------------------------------------------------------------
(* The machine. *)

\* configure_serial, in the first frame of the emulator.
Configure ==
    /\ ~configured /\ configured' = TRUE
    /\ UNCHANGED <<feed, absent, early, trigger, unsent, sender, wire, ring, batch, pip, files, coms>>

\* At another speed and without RTS a byte is garbled or lost.
Transmit ==
    /\ wire # <<>> /\ wire' = Tail(wire)
    /\ \/ /\ configured /\ UNCHANGED early
          /\ feed # "iobyte" => Len(ring) < RingSize
          /\ ring' = IF Len(ring) < RingSize THEN Append(ring, Head(wire)) ELSE ring
       \/ /\ ~configured /\ early' = TRUE
          /\ \/ UNCHANGED ring
             \/ Len(ring) < RingSize /\ ring' = Append(ring, Garbled)
    /\ UNCHANGED <<feed, absent, configured, trigger, unsent, sender, batch, pip, files, coms>>

\* The next command of the emulator's script, or of GO.SUB once it is there.
Command ==
    /\ configured /\ pip = "none" /\ batch # <<>> /\ batch[1][1] # "TRIGGER"
    /\ LET c == Head(batch)
       IN  /\ batch' = Tail(batch)
           /\ CASE c[1] = "PIP" -> pip' = c[2] /\ files' = [files EXCEPT ![c[2]] = <<>>] /\ UNCHANGED coms
                [] c[1] = "LOAD" -> coms' = [coms EXCEPT ![c[2]] = files[c[2]]] /\ UNCHANGED <<pip, files>>
                [] OTHER -> UNCHANGED <<pip, files, coms>>
    /\ UNCHANGED <<feed, absent, configured, early, trigger, unsent, sender, wire, ring>>

\* The script writes the trigger with PIP running: the file is there before
\* its content is.
WriteTrigger ==
    /\ feed # "hex" /\ batch # <<>> /\ batch[1][1] = "TRIGGER"
    /\ IF trigger = "empty" THEN trigger' = "go" /\ batch' = Tail(batch)
       ELSE trigger' = "empty" /\ UNCHANGED batch
    /\ UNCHANGED <<feed, absent, configured, early, unsent, sender, wire, ring, pip, files, coms>>

\* PIP takes a byte; the end mark ends it.  SUBMIT then has its commands.
PipReads ==
    /\ pip # "none" /\ ring # <<>>
    /\ ring' = Tail(ring)
    /\ IF Head(ring) = EOF
       THEN /\ pip' = "none" /\ UNCHANGED files
            /\ batch' = IF pip = "GO.SUB" THEN go_sub ELSE batch
       ELSE files' = [files EXCEPT ![pip] = Append(@, Head(ring))] /\ UNCHANGED <<pip, batch>>
    /\ UNCHANGED <<feed, absent, configured, early, trigger, unsent, sender, wire, coms>>

-----------------------------------------------------------------------------
Empty == [f \in FileNames |-> <<>>]

FeedsIdle ==
    /\ feed = "none" /\ absent = {} /\ configured = TRUE /\ early = FALSE /\ trigger = "none" /\ unsent = <<>> /\ sender = "done"
    /\ wire = <<>> /\ ring = <<>> /\ batch = <<>> /\ pip = "none" /\ files = Empty /\ coms = Empty

\* A trigger of an earlier run may be left for sysgen_serial_server.py; the
\* Makefile removes the one of siob_iobyte_server.py.
FeedsInit ==
    /\ feed \in {"hex", "sysgen", "iobyte"}
    /\ absent \in {{}, {"NETWORK"}} /\ (feed # "hex" => absent = {})
    /\ configured = FALSE /\ early = FALSE
    /\ trigger \in {"none", "go"} /\ (feed # "sysgen" => trigger = "none")
    /\ unsent = <<>> /\ sender = "wait" /\ wire = <<>> /\ ring = <<>> /\ pip = "none"
    /\ batch = IF feed = "hex" THEN <<<<"PIP", "GO.SUB">>>> ELSE <<<<"PIP", "PAYLOAD">>, <<"TRIGGER">>>>
    /\ files = Empty /\ coms = Empty

\* WriteTrigger comes while PIP runs.
FeedsNext ==
    \/ PollTrigger
    \/ PollTimeout
    \/ StartHexFiles
    \/ SendChunk
    \/ SendFails
    \/ AllSent
    \/ Configure
    \/ Transmit
    \/ Command
    \/ WriteTrigger
    \/ PipReads

FeedsFairness ==
    /\ WF_feedVars(PollTrigger \/ StartHexFiles \/ SendChunk \/ AllSent)
    /\ WF_feedVars(Configure) /\ WF_feedVars(Transmit) /\ WF_feedVars(Command \/ PipReads) /\ WF_feedVars(WriteTrigger)

-----------------------------------------------------------------------------
(* Properties. *)

\* What LOAD makes a program of is the file of that name, whole: the order of
\* the files is that of the PIPs in GO.SUB, the end marks separate them, and
\* nothing is lost in between -- if every file was there to be sent.  (Without one
\* of them it is not so: OneShort.)
LoadedIsItsFile ==
    absent = {} => \A f \in DOMAIN coms : coms[f] # <<>> => coms[f] = Content(f)

\* send_hex_files skips a file that is missing, GO.SUB still has its PIP: from there on
\* every program is made of the whole file behind its own, and the last PIP waits.
OneShort ==
    /\ pip = "NDOS" /\ wire = <<>> /\ ring = <<>>
    /\ \A m \in 1 .. 6 : FILE_ORDER[m] \in absent =>
          \A i \in 1 .. 5 : coms[FILE_ORDER[i]] = Content(FILE_ORDER[IF i < m THEN i ELSE i + 1])

\* A single file is whole when PIP has ended, without RTS as long as PIP keeps up.
PayloadWhole ==
    (feed \in {"sysgen", "iobyte"} /\ pip = "none" /\ files["PAYLOAD"] # <<>>) =>
        files["PAYLOAD"] = Content("PAYLOAD")

\* Unless the sender gives up or a left trigger made it send too early, everything
\* arrives: nobody waits for a byte that is held back, or for a trigger that has been
\* missed.  Only when a file is missing the last PIP waits for ever.
FeedArrives ==
    (feed # "none") ~>
        \/ sender = "failed" \/ early
        \/ sender = "done" /\ (IF absent = {} THEN batch = <<>> /\ pip = "none" ELSE OneShort)

\* The files that CP/M has in the end are the ones send_hex_files and the two servers
\* of a single file sent, if no byte went over the line before the emulator had set it.
\* A trigger left from an earlier run makes sysgen_serial_server.py send as soon as the
\* machine is connected: what is sent between that and the first frame is garbled, what
\* is sent later is held back by RTS until PIP asks for it.
FilesFed == ~early => LoadedIsItsFile /\ PayloadWhole
=============================================================================
