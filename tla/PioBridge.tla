------------------------------ MODULE PioBridge ------------------------------
(***************************************************************************)
(* Three programs in a row: the station's parallel port transport          *)
(* (cpnos-rom/transport_pio.c), the bridge cpnet_pio_server.py, and an      *)
(* envelope-speaking server (netboot_server.py).  The bridge answers by    *)
(* itself ("local") or forwards every request but the probe ("proxy").     *)
(* In the third set-up cpnet12_client.py talks to the server ("test").     *)
(*                                                                         *)
(* On the parallel port a frame is FMT DID SID FNC SIZ, SIZ + 1 bytes and   *)
(* a checksum, sent after a stale byte when the port changes direction.    *)
(* The bridge and the server exchange ENQ, header and data, each answered  *)
(* by ACK.  A byte is a number; sums are modulo 256.                        *)
(*                                                                         *)
(* The two sides of a TCP connection never lose bytes.  A byte may be       *)
(* spoiled on its way from the port to the bridge; the station's wait for  *)
(* an answer may run out before a slow bridge has answered.  An answer is   *)
(* sent by one sendall and reaches the port as a whole.                    *)
(***************************************************************************)
EXTENDS Integers, SequencesExt, FiniteSetsExt

CONSTANTS
    Requests,       \* what the station asks: records of fnc and dat
    SID,            \* SLAVE_SID
    Turns,       \* may the port emit its latch when it turns: a set of Booleans
    Strays,         \* bytes the upstream console may send before an ENQ
    BadBytes,       \* what a byte may be spoiled to
    MaxReq,         \* bound: requests of one run
    MaxSpoil        \* bound: how many of them a byte may be spoiled in

PING == 192
PingByte == 80
LOGIN == 64
SOH == 1
STX == 2
ETX == 3
EOT == 4
ENQ == 5
ACK == 6

ASSUME BridgeAssumption ==
    /\ SID \in 1 .. 255                          \* differs from the master's 0
    /\ \A r \in Requests : r.fnc \in 0 .. 255 /\ r.dat # <<>>

VARIABLES
    mode,           \* "local", "proxy" or "test"; or "off"
    pio, reply,     \* bytes from the station to the bridge and back
    up, down,       \* bytes from the bridge (or test client) to the server and back
    st,             \* the station: "idle" or "waiting"
    latch,          \* the last byte the port sent
    cl,             \* the bridge, or the test client: what it waits for
    msg,            \* the message it holds
    sv,             \* the server: what it waits for
    job,            \* the message the server holds
    asked,          \* history: the requests sent
    served,         \* history: the requests carried out
    taken,          \* history: the last answer the station, or test client, took
    late,           \* history: waits that ran out
    spoiled,        \* history: a byte has been spoiled
    sent,           \* history: of every frame in pio, where its header is and how long it is
    misread         \* history: the bridge has taken a frame from or to a wrong place

frames == <<sent, misread>>
pioVars == <<mode, pio, reply, up, down, st, latch, cl, msg, sv, job, asked, served, taken, late, spoiled, frames>>
station == <<pio, st, latch, asked, late, spoiled, frames>>
server == <<sv, job>>
-------------------------------------------------------------------------------
(* Frames *)

ByteSum(s) == FoldLeft(+, 0, s) % 256
Neg(x) == (256 - x) % 256

Message(fmt, did, sid, fnc, dat) == [hdr |-> <<fmt, did, sid, fnc, Len(dat) - 1>>, dat |-> dat]
Nothing == [hdr |-> <<>>, dat |-> <<>>]

\* send_scb: header, data and the byte that makes the sum zero.
Scb(m) == m.hdr \o m.dat \o <<Neg(ByteSum(m.hdr \o m.dat))>>

\* recv_scb: where the header begins, by the place of SID; 0 when it is at neither.
HeaderAt(raw) == IF raw[3] = SID THEN 1 ELSE IF raw[4] = SID THEN 2 ELSE 0

\* The envelope's two blocks, and whether a received one adds up.
HeaderBlock(h) == <<SOH>> \o h \o <<Neg((SOH + ByteSum(h)) % 256)>>
DataBlock(d) == <<STX>> \o d \o <<ETX, Neg((STX + ETX + ByteSum(d)) % 256), EOT>>

Starts(q, b) == q # <<>> /\ q[1] = b
Size(h) == h[5] + 1

\* dispatch_sndmsg: a status, with the FCB of the request after open and close.
Dispatch(m) == IF m.hdr[4] \in {15, 16} THEN <<0>> \o m.dat ELSE <<0>>

\* The bridge's answer to the probe.
Pong == <<79>>

Expected(m) ==
    Message(1, m.hdr[3], 0, m.hdr[4], IF m.hdr[4] = PING THEN Pong ELSE Dispatch(m))
-------------------------------------------------------------------------------
(* The station: pio_send_msg and pio_recv_msg *)

\* The port turns to output, which may emit its latch, and the frame goes out.
Ask(r, stale) ==
    LET m == Message(0, 0, SID, r.fnc, r.dat) IN
    /\ mode # "test" /\ st = "idle" /\ Len(asked) < MaxReq
    /\ pio' = pio \o (IF stale THEN <<latch>> ELSE <<>>) \o Scb(m)
    /\ latch' = Last(Scb(m))
    /\ st' = "waiting" /\ asked' = Append(asked, m)
    /\ sent' = Append(sent, [at |-> IF stale THEN 2 ELSE 1, len |-> Len(pio') - Len(pio)])
    /\ taken' = Nothing
    /\ UNCHANGED <<mode, reply, up, down, cl, msg, server, served, late, spoiled, misread>>

\* Once the first byte is there, five bytes of header and as many as SIZ says are read
\* without waiting for any of them; the checksum is not looked at.
Take ==
    /\ st = "waiting" /\ Len(reply) >= 5
    /\ LET h == SubSeq(reply, 1, 5) n == Size(h) IN
       /\ taken' = [hdr |-> h, dat |-> SubSeq(reply, 6, 5 + n)]
       /\ reply' = SubSeq(reply, 7 + n, Len(reply))
    /\ st' = "idle"
    /\ UNCHANGED <<mode, pio, up, down, latch, cl, msg, server, asked, served, late, spoiled, frames>>

\* The wait for the first byte has run out (PIO_FIRST_BYTE_BUDGET).
GiveUp ==
    /\ st = "waiting" /\ reply = <<>>
    /\ st' = "idle" /\ late' = late + 1
    /\ UNCHANGED <<mode, pio, reply, up, down, latch, cl, msg, server, asked, served, taken, spoiled, frames>>

Spoil(i, b) ==
    /\ ~spoiled /\ pio[i] # b /\ Len(asked) <= MaxSpoil
    /\ pio' = [pio EXCEPT ![i] = b] /\ spoiled' = TRUE
    /\ UNCHANGED <<mode, reply, up, down, st, latch, cl, msg, server, asked, served, taken, late, frames>>
-------------------------------------------------------------------------------
(* The bridge *)

Fail == cl' = "ended" /\ UNCHANGED <<reply, up, down, msg, served>>

Answer(m) == reply' = reply \o Scb(m) /\ cl' = "scb" /\ msg' = Nothing

\* recv_scb: six bytes tell where the header is; then the rest of the frame.
FrameReady ==
    /\ Len(pio) >= 6
    /\ LET k == HeaderAt(pio) IN k # 0 => Len(pio) >= k + 5 + Size(SubSeq(pio, k, k + 4))
Received ==
    LET k == HeaderAt(pio) h == SubSeq(pio, k, k + 4) IN
    [hdr |-> h, dat |-> SubSeq(pio, k + 5, k + 4 + Size(h))]
\* Bug: the checksum is not looked at.
CksumAny == TRUE
CksumOk ==
    LET k == HeaderAt(pio) n == Size(Received.hdr) IN
    ByteSum(Received.hdr \o Received.dat \o <<pio[k + 5 + n]>>) = 0

IsPing(m) == m.hdr[4] = PING

\* handle_ping refuses a probe that does not begin with its letter.
BadPing == IsPing(Received) /\ Received.dat[1] # PingByte

\* The bridge takes k + 5 + SIZ + 1 bytes; is that the frame the station sent?
Mistaken ==
    LET k == HeaderAt(pio) IN
    sent = <<>> \/ sent[1] # [at |-> k, len |-> k + 5 + Size(Received.hdr)]

\* One turn of handle: the probe and, without an upstream, every request is answered
\* here; a frame that cannot be read ends the session.
Bridge ==
    /\ mode # "test" /\ cl = "scb" /\ FrameReady
    /\ IF HeaderAt(pio) = 0 \/ ~CksumOk \/ BadPing THEN Fail /\ UNCHANGED <<pio, frames>>
       ELSE LET m == Received k == HeaderAt(pio) IN
            /\ pio' = SubSeq(pio, k + 6 + Size(m.hdr), Len(pio))
            /\ misread' = (misread \/ Mistaken)
            /\ sent' = IF sent = <<>> THEN <<>> ELSE Tail(sent)
            /\ IF IsPing(m) \/ mode = "local"
               THEN /\ Answer(Message(1, m.hdr[3], m.hdr[2], m.hdr[4],
                                      IF IsPing(m) THEN Pong ELSE Dispatch(m)))
                    /\ served' = Append(served, m) /\ UNCHANGED up
               ELSE /\ up' = Append(up, ENQ) /\ cl' = "ack enq" /\ msg' = m
                    /\ UNCHANGED <<reply, served>>
            /\ UNCHANGED down
    /\ UNCHANGED <<mode, st, latch, server, asked, taken, late, spoiled>>

\* No byte within the 60 seconds of the socket, or the rest of a frame is missing.
BridgeIdle ==
    /\ mode # "test" /\ cl = "scb" /\ ~FrameReady
    /\ Fail /\ UNCHANGED <<mode, station, server, taken>>

\* The bridge's accept of ACK, and the test client's, which ignores bit 7.
IsAck(b) == IF mode = "test" THEN b % 128 = ACK ELSE b = ACK

\* upstream_send: each block goes out when the one before is acknowledged.
SendHeader ==
    /\ cl = "ack enq" /\ down # <<>>
    /\ IF IsAck(down[1]) THEN /\ up' = up \o HeaderBlock(msg.hdr) /\ down' = Tail(down)
                              /\ cl' = "ack header" /\ UNCHANGED <<reply, msg, served>>
       ELSE Fail
    /\ UNCHANGED <<mode, station, server, taken>>

SendData ==
    /\ cl = "ack header" /\ down # <<>>
    /\ IF IsAck(down[1]) THEN /\ up' = up \o DataBlock(msg.dat) /\ down' = Tail(down)
                              /\ cl' = "ack data" /\ UNCHANGED <<reply, msg, served>>
       ELSE Fail
    /\ UNCHANGED <<mode, station, server, taken>>

Sent ==
    /\ cl = "ack data" /\ down # <<>>
    /\ IF IsAck(down[1]) THEN cl' = "enq" /\ down' = Tail(down) /\ UNCHANGED <<reply, up, msg, served>>
       ELSE Fail
    /\ UNCHANGED <<mode, station, server, taken>>

\* upstream_recv waits for an ENQ and skips other bytes; the test client does not.
SkipsStrays == mode = "proxy"

AwaitEnq ==
    /\ cl = "enq" /\ down # <<>>
    /\ IF down[1] % 128 = ENQ THEN /\ up' = Append(up, ACK) /\ down' = Tail(down)
                                   /\ cl' = "header" /\ UNCHANGED <<reply, msg, served>>
       ELSE IF SkipsStrays THEN down' = Tail(down) /\ UNCHANGED <<reply, up, cl, msg, served>>
       ELSE Fail
    /\ UNCHANGED <<mode, station, server, taken>>

RecvHeader ==
    /\ cl = "header" /\ Len(down) >= 7
    /\ IF down[1] % 128 = SOH /\ ByteSum(SubSeq(down, 1, 7)) = 0
       THEN /\ up' = Append(up, ACK) /\ msg' = [hdr |-> SubSeq(down, 2, 6), dat |-> <<>>]
            /\ down' = SubSeq(down, 8, Len(down)) /\ cl' = "data" /\ UNCHANGED <<reply, served>>
       ELSE Fail
    /\ UNCHANGED <<mode, station, server, taken>>

\* The data block is good: its markers are in place and it adds up.
DataOk(n) ==
    /\ down[1] % 128 = STX /\ down[n + 2] % 128 = ETX /\ down[n + 4] % 128 = EOT
    /\ ByteSum(SubSeq(down, 1, n + 3)) = 0

\* The bridge passes the answer on, the test client prints it and is done.
RecvData ==
    LET n == Size(msg.hdr) m == [msg EXCEPT !.dat = SubSeq(down, 2, n + 1)] IN
    /\ cl = "data" /\ Len(down) >= n + 4
    /\ IF DataOk(n)
       THEN /\ up' = Append(up, ACK) /\ down' = SubSeq(down, n + 5, Len(down))
            /\ IF mode = "proxy" THEN Answer(m) /\ UNCHANGED taken
               ELSE cl' = "done" /\ taken' = m /\ UNCHANGED <<reply, msg>>
            /\ UNCHANGED served
       ELSE Fail /\ UNCHANGED taken
    /\ UNCHANGED <<mode, station, server>>

\* The server has closed the connection.
Closed ==
    /\ sv = "ended" /\ down = <<>>
    /\ cl \in {"ack enq", "ack header", "ack data", "enq", "header", "data"}
    /\ Fail /\ UNCHANGED <<mode, station, server, taken>>
-------------------------------------------------------------------------------
(* cpnet12_client.py *)

\* test_login: one message.
TestSend(r) ==
    /\ mode = "test" /\ cl = "start" /\ r.fnc = LOGIN
    /\ msg' = Message(0, 0, SID, r.fnc, r.dat)
    /\ asked' = Append(asked, msg')
    /\ up' = Append(up, ENQ) /\ cl' = "ack enq"
    /\ UNCHANGED <<mode, pio, reply, down, st, latch, server, served, taken, late, spoiled, frames>>
-------------------------------------------------------------------------------
(* The server: snios_recv_sndmsg, dispatch_sndmsg, snios_send_rcvmsg *)

ToClient(s, q, n) == down' = down \o s /\ up' = SubSeq(q, n + 1, Len(q))
ServerOnly == UNCHANGED <<mode, pio, reply, st, latch, cl, msg, asked, taken, late, spoiled, frames>>
Hangs == sv' = "ended" /\ UNCHANGED <<up, down, job, served>>

GetEnq ==
    /\ sv = "enq" /\ up # <<>>
    /\ IF Starts(up, ENQ) THEN ToClient(<<ACK>>, up, 1) /\ sv' = "header" /\ UNCHANGED <<job, served>>
       ELSE Hangs
    /\ ServerOnly

\* Bug: the header is not acknowledged.
GetHeaderSilent ==
    /\ sv = "header" /\ up # <<>> /\ Starts(up, SOH) /\ Len(up) >= 7
    /\ job' = [hdr |-> SubSeq(up, 2, 6), dat |-> <<>>]
    /\ ToClient(<<>>, up, 7) /\ sv' = "data" /\ UNCHANGED served
    /\ ServerOnly
\* A wrong checksum is only reported.
GetHeader ==
    /\ sv = "header" /\ up # <<>> /\ (Starts(up, SOH) => Len(up) >= 7)
    /\ IF Starts(up, SOH)
       THEN /\ job' = [hdr |-> SubSeq(up, 2, 6), dat |-> <<>>]
            /\ ToClient(<<ACK>>, up, 7) /\ sv' = "data" /\ UNCHANGED served
       ELSE Hangs
    /\ ServerOnly

\* The data, its acknowledgement, and the ENQ that announces the answer.
GetData(stray) ==
    LET n == Size(job.hdr) m == [job EXCEPT !.dat = SubSeq(up, 2, n + 1)] IN
    /\ sv = "data" /\ up # <<>> /\ (Starts(up, STX) => Len(up) >= n + 4)
    /\ IF Starts(up, STX)
       THEN /\ job' = Message(1, m.hdr[3], 0, m.hdr[4], Dispatch(m))
            /\ served' = Append(served, m)
            /\ ToClient(<<ACK>> \o stray \o <<ENQ>>, up, n + 4) /\ sv' = "ack enq"
       ELSE Hangs
    /\ ServerOnly

\* Whatever comes in place of an ACK is only reported.
PutHeader ==
    /\ sv = "ack enq" /\ up # <<>>
    /\ ToClient(HeaderBlock(job.hdr), up, 1) /\ sv' = "ack header"
    /\ UNCHANGED <<job, served>> /\ ServerOnly
PutData ==
    /\ sv = "ack header" /\ up # <<>>
    /\ ToClient(DataBlock(job.dat), up, 1) /\ sv' = "ack data"
    /\ UNCHANGED <<job, served>> /\ ServerOnly
PutDone ==
    /\ sv = "ack data" /\ up # <<>>
    /\ ToClient(<<>>, up, 1) /\ sv' = "enq"
    /\ UNCHANGED <<job, served>> /\ ServerOnly

\* No request for 30 seconds, or the client is gone.
ServerIdle ==
    /\ up = <<>> /\ (sv = "enq" \/ (sv # "ended" /\ cl \in {"ended", "done"}))
    /\ Hangs /\ ServerOnly
-------------------------------------------------------------------------------
PioStart(modes) ==
    /\ mode \in modes
    /\ pio = <<>> /\ reply = <<>> /\ up = <<>> /\ down = <<>>
    /\ st = "idle" /\ latch = 0
    /\ cl = CASE mode = "test" -> "start" [] mode = "off" -> "ended" [] OTHER -> "scb"
    /\ sv = IF mode \in {"local", "off"} THEN "ended" ELSE "enq"
    /\ msg = Nothing /\ job = Nothing
    /\ asked = <<>> /\ served = <<>> /\ taken = Nothing /\ late = 0 /\ spoiled = FALSE
    /\ sent = <<>> /\ misread = FALSE

PioInit == PioStart({"local", "proxy", "test"})
PioIdle == PioStart({"off"})

Station ==
    \/ \E r \in Requests, stale \in Turns : Ask(r, stale)
    \/ Take \/ GiveUp \/ \E i \in DOMAIN pio, b \in BadBytes : Spoil(i, b)
Client ==
    \/ Bridge \/ SendHeader \/ SendData \/ Sent \/ AwaitEnq \/ RecvHeader \/ RecvData \/ Closed
Server ==
    \/ GetEnq \/ GetHeader \/ PutHeader \/ PutData \/ PutDone
    \/ \E s \in {<<>>} \cup {<<b>> : b \in IF mode = "proxy" THEN Strays ELSE {}} : GetData(s)

PioNext ==
    /\ mode # "off"
    /\ \/ Station \/ Client \/ Server \/ BridgeIdle \/ ServerIdle
       \/ \E r \in Requests : TestSend(r)

\* Both programs go on as soon as the bytes they wait for are there.
PioFairness == WF_pioVars(Client) /\ WF_pioVars(Server)
-------------------------------------------------------------------------------
(* Properties *)

\* Type correctness of the programs' stages and of the queues' bytes.
PioTypeOK ==
    /\ mode \in {"off", "local", "proxy", "test"} /\ st \in {"idle", "waiting"}
    /\ cl \in {"start", "scb", "ack enq", "ack header", "ack data", "enq", "header", "data", "done", "ended"}
    /\ sv \in {"enq", "header", "data", "ack enq", "ack header", "ack data", "ended"}
    /\ \A q \in {pio, reply, up, down} : \A i \in DOMAIN q : q[i] \in 0 .. 255
    /\ late \in 0 .. MaxReq /\ spoiled \in BOOLEAN /\ misread \in BOOLEAN

\* Without a spoiled byte the bridge (recv_scb) finds every frame's header and end,
\* whatever stale byte precedes it and however many frames are waiting.  As long as it
\* does, what the bridge or the server carries out is the next request the station
\* sent, whole: a request with a spoiled byte is refused.  A byte spoiled to look like
\* the SID, or a spoiled SID, DID or SIZ, can make it take the frame from or to a wrong
\* place, and the one-byte sum over that stretch may come out right: recv_scb has no
\* defence against it, and nothing is claimed of what it then carries out.
ServedAsAsked == (misread => spoiled) /\ (~misread => IsPrefix(served, asked))

\* The answer the station takes (pio_recv_msg checks neither function nor checksum) is
\* the answer to its request, or, after waits that ran out, to one as many requests
\* earlier: no answer is passed to the wrong request on a link where no wait ran out.
\* The same exception as above for a frame the bridge took in a wrong place.
AnswerMatches ==
    taken # Nothing /\ ~misread =>
        \E j \in Max({1, Len(asked) - late}) .. Len(asked) : taken = Expected(asked[j])

\* The bridge and the server never wait for each other (handle, upstream_send,
\* upstream_recv and the server's snios functions): an exchange once begun comes to
\* its end without any timeout.
ExchangeEnds == cl = "ack enq" ~> cl \in {"scb", "done", "ended"}

\* A session that the server has not closed and whose bytes were not spoiled does not
\* fail: stray bytes of the upstream console (upstream_recv) and stale bytes of the
\* port (recv_scb) end no exchange.
NoFalseFailure ==
    [][cl' = "ended" /\ cl # "ended" => spoiled \/ sv = "ended" \/ (BridgeIdle /\ Len(pio) < 6)]_pioVars

\* Requests and answers pass through handle of cpnet_pio_server.py unchanged and to the
\* one they are for.
ExchangeRight == PioTypeOK /\ ServedAsAsked /\ AnswerMatches
===============================================================================
