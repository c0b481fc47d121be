------------------------------- MODULE SioTee -------------------------------
(***************************************************************************)
(* cpnos-rom/testutil/sio_tee.py: two threads that pass bytes between the    *)
(* emulator ("mame") and the CP/NET server ("up") and log them.              *)
(*                                                                         *)
(* A connection has, for each end, the bytes that have come and whether its *)
(* peer has closed; shutdown by one thread ends a recv of the other.        *)
(***************************************************************************)
EXTENDS Integers, Sequences, SequencesExt

CONSTANT MaxBytes     \* bound: bytes sent by each end

End == {"mame", "up"}
Other(e) == IF e = "mame" THEN "up" ELSE "mame"

VARIABLES
    tee,          \* "on", "off"
    arrived,      \* per end: bytes the tee has not received yet
    nsent,        \* per end: bytes sent
    gone,         \* ends that have closed
    shut,         \* connections the tee has shut down
    pumpPc,       \* per source: "recv", "send", "log", "shutdown", "end"
    chunk,        \* per source: the bytes in hand
    delivered,    \* per source: what has been sent on
    logged        \* per source: what is in the log

teeVars == <<tee, arrived, nsent, gone, shut, pumpPc, chunk, delivered, logged>>

-----------------------------------------------------------------------------
(* pump *)

\* recv: some bytes, or the end when the peer has closed or the connection has
\* been shut down, with bytes not read yet or without.
PumpRecv(s, k) ==
    /\ pumpPc[s] = "recv"
    /\ \/ /\ k > 0
          /\ chunk' = [chunk EXCEPT ![s] = SubSeq(arrived[s], 1, k)]
          /\ arrived' = [arrived EXCEPT ![s] = SubSeq(@, k + 1, Len(@))]
          /\ pumpPc' = [pumpPc EXCEPT ![s] = "send"]
       \/ /\ k = 0 /\ (s \in shut \/ (s \in gone /\ arrived[s] = <<>>))
          /\ pumpPc' = [pumpPc EXCEPT ![s] = "shutdown"]
          /\ UNCHANGED <<chunk, arrived>>
    /\ UNCHANGED <<tee, nsent, gone, shut, delivered, logged>>

\* Bug: what is received is logged before it is sent on.
BugPumpSend(s) ==
    /\ pumpPc[s] = "send"
    /\ logged' = [logged EXCEPT ![s] = @ \o chunk[s]]
    /\ \/ /\ Other(s) \in gone \cup shut
          /\ pumpPc' = [pumpPc EXCEPT ![s] = "shutdown"] /\ UNCHANGED delivered
       \/ /\ Other(s) \notin shut
          /\ delivered' = [delivered EXCEPT ![s] = @ \o chunk[s]] /\ pumpPc' = [pumpPc EXCEPT ![s] = "recv"]
    /\ UNCHANGED <<tee, arrived, nsent, gone, shut, chunk>>

\* sendall, which fails when the other connection has been shut down, and
\* sooner or later when its peer has closed; some of the bytes have gone out by then.
PumpSend(s) ==
    /\ pumpPc[s] = "send"
    /\ \/ /\ Other(s) \in gone \cup shut
          /\ pumpPc' = [pumpPc EXCEPT ![s] = "shutdown"]
          /\ \E k \in 0 .. Len(chunk[s]) :
                delivered' = [delivered EXCEPT ![s] = @ \o SubSeq(chunk[s], 1, k)]
       \/ /\ Other(s) \notin shut
          /\ delivered' = [delivered EXCEPT ![s] = @ \o chunk[s]] /\ pumpPc' = [pumpPc EXCEPT ![s] = "log"]
    /\ UNCHANGED <<tee, arrived, nsent, gone, shut, chunk, logged>>

\* Under the lock.
PumpLog(s) ==
    /\ pumpPc[s] = "log"
    /\ logged' = [logged EXCEPT ![s] = @ \o chunk[s]]
    /\ chunk' = [chunk EXCEPT ![s] = <<>>]
    /\ pumpPc' = [pumpPc EXCEPT ![s] = "recv"]
    /\ UNCHANGED <<tee, arrived, nsent, gone, shut, delivered>>

\* Bug: the other thread is left alone.
BugPumpShutdown(s) ==
    /\ pumpPc[s] = "shutdown"
    /\ pumpPc' = [pumpPc EXCEPT ![s] = "end"]
    /\ UNCHANGED <<tee, arrived, nsent, gone, shut, chunk, delivered, logged>>

\* The destination is shut down, so that the other thread's recv ends.
PumpShutdown(s) ==
    /\ pumpPc[s] = "shutdown"
    /\ shut' = shut \cup {Other(s)}
    /\ pumpPc' = [pumpPc EXCEPT ![s] = "end"]
    /\ UNCHANGED <<tee, arrived, nsent, gone, chunk, delivered, logged>>

Pump(s) ==
    \/ \E k \in 0 .. Len(arrived[s]) : PumpRecv(s, k)
    \/ PumpSend(s)
    \/ PumpLog(s)
    \/ PumpShutdown(s)

\* The ends: bytes are numbered, and either may close at any time.
EndSends(s) ==
    /\ s \notin gone /\ nsent[s] < MaxBytes /\ tee = "on"
    /\ nsent' = [nsent EXCEPT ![s] = @ + 1]
    /\ arrived' = [arrived EXCEPT ![s] = Append(@, nsent'[s])]
    /\ UNCHANGED <<tee, gone, shut, pumpPc, chunk, delivered, logged>>

EndCloses(s) ==
    /\ tee = "on" /\ s \notin gone /\ gone' = gone \cup {s}
    /\ UNCHANGED <<tee, arrived, nsent, shut, pumpPc, chunk, delivered, logged>>

-----------------------------------------------------------------------------
TeeStart(t) ==
    /\ tee = t /\ arrived = [s \in End |-> <<>>] /\ nsent = [s \in End |-> 0] /\ gone = {} /\ shut = {}
    /\ pumpPc = [s \in End |-> IF t = "on" THEN "recv" ELSE "end"] /\ chunk = [s \in End |-> <<>>]
    /\ delivered = [s \in End |-> <<>>] /\ logged = [s \in End |-> <<>>]

TeeIdle == TeeStart("off")
TeeInit == TeeStart("on")

TeeNext ==
    \/ \E s \in End : Pump(s)
    \/ \E s \in End : EndSends(s)
    \/ \E s \in End : EndCloses(s)

TeeFairness == \A s \in End : WF_teeVars(Pump(s))

-----------------------------------------------------------------------------
(* Properties. *)

\* The tee changes nothing: each direction delivers the bytes sent, in order,
\* and what the log shows of it has been delivered -- all of it, once the
\* thread has ended, but for the part of a chunk that went out before its
\* sendall failed.
TeeTransparent ==
    \A s \in End :
        /\ delivered[s] = [i \in 1 .. Len(delivered[s]) |-> i]
        /\ IsPrefix(logged[s], delivered[s])
        /\ pumpPc[s] # "log" => IsPrefix(delivered[s], logged[s] \o chunk[s])

\* When either end closes both threads end, so that main's joins return and
\* the log gets its last line.
TeeEnds == (gone # {}) ~> (\A s \in End : pumpPc[s] = "end")
=============================================================================
