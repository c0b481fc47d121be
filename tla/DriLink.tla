-------------------------------- MODULE DriLink --------------------------------
(***************************************************************************)
(* The CP/NET link between the RC702 and its server: SNDMSG and RCVMSG of  *)
(* the SNIOS (cpnet/snios.asm) on one side, recv_frame, handle_request and *)
(* send_frame of cpnet/server.py on the other, over a serial line that may *)
(* lose or spoil bytes.                                                    *)
(*                                                                         *)
(* The line carries control bytes (ENQ, ACK, NAK) and the two parts of a   *)
(* frame: SOH, header and checksum is one item, STX, data, checksum and    *)
(* EOT the other.  An item of a frame arrives good, bad (the checksum does *)
(* not match) or short (a byte is missing, and the receiver either notices *)
(* at once or waits for one byte more).                                    *)
(*                                                                         *)
(* Time is in the order of the timeouts: SNIOS waits about 1.6 s in GETACK *)
(* (RECVBT, 8000H polls), the server 5 s for any byte inside a frame, and  *)
(* SNIOS 160 s (TMRETRY times RECVBT) for the answer to an ENQ and for the *)
(* first byte of a message.  A timeout comes only when nothing is left     *)
(* that could happen before; a fault of kind "late" is a GETACK timeout    *)
(* that comes while the server is still about to answer.                   *)
(***************************************************************************)
EXTENDS Naturals, Sequences, SequencesExt, FiniteSets

CONSTANTS
    Request,        \* the requests NDOS makes, in this order: 1 .. N
    NoReply,        \* those the server does not answer (NTWKDN's shutdown)
    MAXRETRY,
    MaxFaults       \* bound on the faults of the line

FaultKind == {"lose", "garble", "bad", "short", "late"}

\* What a fault on a line puts in question: whether SNIOS learns of an ACK the
\* server did send; a byte that SNIOS waits for in RECVBY; nothing but the
\* checksum of a request; or some other part of the handshake.
Effect(on, kind) ==
    IF on = "s2c" /\ kind \in {"garble", "late"} THEN "doubt"
    ELSE IF <<on, kind>> \in {<<"c2s", "lose">>, <<"c2s", "garble">>, <<"s2c", "short">>} THEN "owed"
    ELSE IF on = "c2s" /\ kind = "bad" THEN "spoiled"
    ELSE "broken"

ASSUME LinkAssumption ==
    /\ IsFiniteSet(Request) /\ Request = 1 .. Cardinality(Request)
    /\ NoReply \subseteq Request
    /\ MAXRETRY \in Nat \ {0} /\ MaxFaults \in Nat

Control == {"ENQ", "ACK", "NAK", "junk"}
Quality == {"good", "bad", "short"}
Item == [kind : Control, msg : {0}, q : {"good"}]
        \cup [kind : {"HDR", "DATA"}, msg : Request, q : Quality]

Byte(k) == [kind |-> k, msg |-> 0, q |-> "good"]
Frame(k, m) == [kind |-> k, msg |-> m, q |-> "good"]

VARIABLES
    c2s, s2c,        \* what is on the line, each way
    cpc, RETCNT, status,
    req,             \* the request NDOS is working on
    result,          \* what SNDMSG and RCVMSG returned for it
    answer,          \* the request whose answer RCVMSG took last
    spc, sreq,       \* server.py, and the request it has received
    executed,        \* how often each request was executed
    faults, effects  \* the faults of the line so far: how many, of what effect

line == <<c2s, s2c>>
client == <<cpc, RETCNT, status, req, result, answer>>
server == <<spc, sreq, executed>>
noise == <<faults, effects>>
vars == <<line, client, server, noise>>

\* Where SNIOS waits for an ACK for a short time, for a long time, for ever.
ShortWait == {"hdr_ack", "data_ack"}
LongWait == {"enq_ack", "rcv_enq"}
ForeverWait == {"rcv_hdr", "rcv_hdr_more", "rcv_data", "rcv_data_more"}

TypeOK ==
    /\ c2s \in Seq(Item) /\ s2c \in Seq(Item)
    /\ cpc \in {"idle"} \cup ShortWait \cup LongWait \cup ForeverWait
    /\ RETCNT \in 0 .. MAXRETRY
    /\ status \subseteq {"ACTIVE", "SNDERR", "RCVERR"}
    /\ req \in {0} \cup Request
    /\ result \in {"none", "ok", "err"} /\ answer \in {0} \cup Request
    /\ spc \in {"enq", "hdr", "hdr_more", "data", "data_more", "handle",
                "tx_enq", "tx_hdr", "tx_data"}
    /\ sreq \in {0} \cup Request
    /\ executed \in [Request -> Nat]
    /\ faults \in 0 .. MaxFaults
    /\ effects \subseteq {"doubt", "owed", "spoiled", "broken"}

\* A fault is counted.
Happens(on, kind) ==
    /\ faults < MaxFaults /\ faults' = faults + 1
    /\ effects' = effects \cup {Effect(on, kind)}

(***************************************************************************)
(* SNIOS: SNDMSG.                                                          *)
(***************************************************************************)

Sends(items) == c2s' = c2s \o items
Takes == s2c # <<>> /\ s2c' = Tail(s2c)
Quiet == c2s = <<>> /\ s2c = <<>> /\ spc = "enq"
ServerWillAnswer == c2s # <<>> \/ spc = "handle"

\* Bug: the status byte is set but the call returns success.
Fail_Silent(bit) ==
    /\ cpc' = "idle" /\ result' = "ok"
    /\ status' = status \cup {bit}
    /\ UNCHANGED <<c2s, req>>

\* ERRRTN: the error bit is set and NDOS gets 0FFh.
Fail(bit) ==
    /\ cpc' = "idle" /\ result' = "err"
    /\ status' = status \cup {bit}
    /\ UNCHANGED <<c2s, req>>

\* Bug: one attempt is given away.
AnotherTry_OneLess == RETCNT' > 1

\* DEC (HL); JR NZ.
AnotherTry == RETCNT' # 0

\* SNDRET: another attempt, from ENQ on, while RETCNT lasts.
Retry ==
    /\ RETCNT' = RETCNT - 1
    /\ IF AnotherTry
       THEN /\ Sends(<<Byte("ENQ")>>) /\ cpc' = "enq_ack"
            /\ UNCHANGED <<status, req, result>>
       ELSE Fail("SNDERR")

\* NDOS sends the next request; NTWKDN sends its own past the check for ACTIVE.
SNDMSG ==
    /\ cpc = "idle" /\ req + 1 \in Request
    /\ "ACTIVE" \in status \/ req + 1 \in NoReply
    /\ req' = req + 1
    /\ result' = "none"
    /\ RETCNT' = MAXRETRY
    /\ Sends(<<Byte("ENQ")>>)
    /\ cpc' = "enq_ack"
    /\ UNCHANGED <<s2c, status, answer, server, noise>>

\* The ACK SNIOS waits for is here, and the next part of the frame goes out;
\* anything else is a reason to try again (CHKACK).
Acked(part, next) ==
    /\ Takes
    /\ IF Head(s2c).kind = "ACK"
       THEN /\ Sends(<<Frame(part, req)>>) /\ cpc' = next
            /\ UNCHANGED <<RETCNT, status, req, result>>
       ELSE Retry
    /\ UNCHANGED <<answer, server, noise>>

ENQRSP == cpc = "enq_ack" /\ Acked("HDR", "hdr_ack")
HeaderAck == cpc = "hdr_ack" /\ Acked("DATA", "data_ack")

\* The last ACK ends SNDMSG, and NDOS goes on to RCVMSG.
DataAck ==
    /\ cpc = "data_ack"
    /\ Takes
    /\ IF Head(s2c).kind = "ACK"
       THEN /\ cpc' = IF req \in NoReply THEN "idle" ELSE "rcv_enq"
            /\ result' = IF req \in NoReply THEN "ok" ELSE "none"
            /\ RETCNT' = MAXRETRY
            /\ UNCHANGED <<c2s, status, req>>
       ELSE Retry
    /\ UNCHANGED <<answer, server, noise>>

\* Bug: the ENQ is sent again when no ACK comes.
EnqTimeout_Resends ==
    /\ cpc = "enq_ack" /\ Quiet
    /\ Retry
    /\ UNCHANGED <<s2c, answer, server, noise>>

\* No answer to the ENQ: SNDMSG gives up.
EnqTimeout ==
    /\ cpc = "enq_ack" /\ Quiet
    /\ Fail("SNDERR")
    /\ UNCHANGED <<s2c, RETCNT, answer, server, noise>>

\* Bug: GETACK waits without a timeout.
AckTimeout_Never == FALSE /\ UNCHANGED vars

\* No ACK in GETACK: another attempt.
AckTimeout ==
    /\ cpc \in ShortWait /\ s2c = <<>>
    /\ \/ ~ServerWillAnswer /\ UNCHANGED noise
       \/ ServerWillAnswer /\ Happens("s2c", "late")
    /\ Retry
    /\ UNCHANGED <<s2c, answer, server>>

(***************************************************************************)
(* SNIOS: RCVMSG.                                                          *)
(***************************************************************************)

\* RECV returns to RECALL: look for ENQ again while RETCNT lasts.
Recall ==
    /\ RETCNT' = RETCNT - 1
    /\ IF AnotherTry THEN cpc' = "rcv_enq" /\ UNCHANGED <<status, result>>
       ELSE cpc' = "idle" /\ result' = "err" /\ status' = status \cup {"RCVERR"}

RCVFST ==
    /\ cpc = "rcv_enq"
    /\ Takes
    /\ IF Head(s2c).kind = "ENQ" THEN Sends(<<Byte("ACK")>>) /\ cpc' = "rcv_hdr"
       ELSE UNCHANGED <<c2s, cpc>>
    /\ UNCHANGED <<RETCNT, status, req, result, answer, server, noise>>

RcvTimeout ==
    /\ cpc = "rcv_enq" /\ Quiet
    /\ Fail("RCVERR")
    /\ UNCHANGED <<s2c, RETCNT, answer, server, noise>>

\* A part of a frame that does not arrive good: BADCKS, or the silent return
\* to RECALL, or the wait in RECVBY for one byte more, which never comes: the
\* server sends nothing before it has an ACK.
BadPart(item, part, wait) ==
    \/ item.kind = part /\ item.q = "bad" /\ Sends(<<Byte("NAK")>>) /\ Recall
    \/ item.kind = part /\ item.q = "short" /\ cpc' = wait
       /\ UNCHANGED <<c2s, RETCNT, status, result>>
    \/ (item.kind # part \/ item.q = "short") /\ Recall /\ UNCHANGED c2s

RcvHeader ==
    /\ cpc = "rcv_hdr"
    /\ Takes
    /\ LET item == Head(s2c) IN
       \/ /\ item.kind = "HDR" /\ item.q = "good"
          /\ Sends(<<Byte("ACK")>>) /\ cpc' = "rcv_data"
          /\ UNCHANGED <<RETCNT, status, result>>
       \/ BadPart(item, "HDR", "rcv_hdr_more")
    /\ UNCHANGED <<req, answer, server, noise>>

RcvData ==
    /\ cpc = "rcv_data"
    /\ Takes
    /\ LET item == Head(s2c) IN
       \/ /\ item.kind = "DATA" /\ item.q = "good"
          /\ Sends(<<Byte("ACK")>>) /\ cpc' = "idle"
          /\ result' = "ok" /\ answer' = item.msg
          /\ UNCHANGED <<RETCNT, status>>
       \/ BadPart(item, "DATA", "rcv_data_more") /\ UNCHANGED answer
    /\ UNCHANGED <<req, server, noise>>

(***************************************************************************)
(* SNIOS: initialisation and status.                                       *)
(***************************************************************************)

\* CPNETLDR calls NTWKIN before anything else, and again when it is run again.
\* It drains the ring of what has arrived by then.
NTWKIN ==
    /\ cpc = "idle"
    /\ \E n \in 0 .. Len(s2c) : s2c' = SubSeq(s2c, n + 1, Len(s2c))
    /\ status' = {"ACTIVE"}
    /\ UNCHANGED <<c2s, cpc, RETCNT, req, result, answer, server, noise>>

NTWKST ==
    /\ cpc = "idle" /\ status \cap {"SNDERR", "RCVERR"} # {}
    /\ status' = status \ {"SNDERR", "RCVERR"}
    /\ UNCHANGED <<line, cpc, RETCNT, req, result, answer, server, noise>>

(***************************************************************************)
(* server.py: recv_frame, handle_request and send_frame.                   *)
(***************************************************************************)

Answers(items) == s2c' = s2c \o items
Reads == c2s # <<>> /\ c2s' = Tail(c2s)

\* recv_frame looks for ENQ.
RecvEnq ==
    /\ spc = "enq"
    /\ Reads
    /\ IF Head(c2s).kind = "ENQ" THEN Answers(<<Byte("ACK")>>) /\ spc' = "hdr"
       ELSE UNCHANGED <<s2c, spc>>
    /\ UNCHANGED <<client, sreq, executed, noise>>

\* What recv_frame does with a part that does not arrive good: NAK, or return
\* None without a word, or wait for one byte more.
BadFrame(item, part, wait) ==
    \/ item.kind = part /\ item.q = "bad" /\ Answers(<<Byte("NAK")>>) /\ spc' = "enq"
    \/ item.kind = part /\ item.q = "short" /\ spc' = wait /\ UNCHANGED s2c
    \/ (item.kind # part \/ item.q = "short") /\ spc' = "enq" /\ UNCHANGED s2c

RecvHeader ==
    /\ spc = "hdr"
    /\ Reads
    /\ LET item == Head(c2s) IN
       \/ /\ item.kind = "HDR" /\ item.q = "good"
          /\ Answers(<<Byte("ACK")>>) /\ spc' = "data"
       \/ BadFrame(item, "HDR", "hdr_more")
    /\ UNCHANGED <<client, sreq, executed, noise>>

RecvData ==
    /\ spc = "data"
    /\ Reads
    /\ LET item == Head(c2s) IN
       \/ /\ item.kind = "DATA" /\ item.q = "good"
          /\ Answers(<<Byte("ACK")>>) /\ spc' = "handle"
          /\ sreq' = item.msg
       \/ BadFrame(item, "DATA", "data_more") /\ UNCHANGED sreq
    /\ UNCHANGED <<client, executed, noise>>

\* The byte that was missing: a header's checksum is then wrong, the data's
\* last byte is not EOT.
RecvOneMore ==
    /\ spc \in {"hdr_more", "data_more"}
    /\ Reads
    /\ IF spc = "hdr_more" THEN Answers(<<Byte("NAK")>>) ELSE UNCHANGED s2c
    /\ spc' = "enq"
    /\ UNCHANGED <<client, sreq, executed, noise>>

\* handle_request executes the request, and send_frame begins with ENQ.
HandleRequest ==
    /\ spc = "handle"
    /\ executed' = [executed EXCEPT ![sreq] = @ + 1]
    /\ IF sreq \in NoReply THEN spc' = "enq" /\ UNCHANGED s2c
       ELSE spc' = "tx_enq" /\ Answers(<<Byte("ENQ")>>)
    /\ UNCHANGED <<c2s, client, sreq, noise>>

\* send_frame goes on with each ACK; anything else ends it, and the answer with
\* it.
SendFrame ==
    /\ spc \in {"tx_enq", "tx_hdr", "tx_data"}
    /\ Reads
    /\ IF Head(c2s).kind # "ACK" \/ spc = "tx_data" THEN spc' = "enq" /\ UNCHANGED s2c
       ELSE IF spc = "tx_enq" THEN spc' = "tx_hdr" /\ Answers(<<Frame("HDR", sreq)>>)
       ELSE spc' = "tx_data" /\ Answers(<<Frame("DATA", sreq)>>)
    /\ UNCHANGED <<client, sreq, executed, noise>>

\* Five seconds without a byte: SNIOS is not in its shorter wait and has taken
\* what was there to take, or it is idle and lets it lie in the ring.
ServerTimeout ==
    /\ spc \notin {"enq", "handle"}
    /\ c2s = <<>> /\ (s2c = <<>> \/ cpc = "idle") /\ cpc \notin ShortWait
    /\ spc' = "enq"
    /\ UNCHANGED <<line, client, sreq, executed, noise>>

(***************************************************************************)
(* The line.                                                               *)
(***************************************************************************)

\* A control byte is lost or becomes another; a part of a frame is spoiled or
\* loses a byte.
Damaged(q, kind) ==
    LET Where(kinds) == {i \in DOMAIN q : q[i].q = "good" /\ q[i].kind \in kinds} IN
    IF kind = "lose" THEN {RemoveAt(q, i) : i \in Where(Control)}
    ELSE IF kind = "garble" THEN {[q EXCEPT ![i] = Byte("junk")] : i \in Where(Control \ {"junk"})}
    ELSE IF kind \in {"bad", "short"} THEN {[q EXCEPT ![i].q = kind] : i \in Where({"HDR", "DATA"})}
    ELSE {}

Fault ==
    /\ \E kind \in FaultKind :
          \/ c2s' \in Damaged(c2s, kind) /\ UNCHANGED s2c /\ Happens("c2s", kind)
          \/ s2c' \in Damaged(s2c, kind) /\ UNCHANGED c2s /\ Happens("s2c", kind)
    /\ UNCHANGED <<client, server>>

-----------------------------------------------------------------------------
Init ==
    /\ c2s = <<>> /\ s2c = <<>>
    /\ cpc = "idle" /\ RETCNT = 0 /\ status = {}
    /\ req = 0 /\ result = "none" /\ answer = 0
    /\ spc = "enq" /\ sreq = 0
    /\ executed = [m \in Request |-> 0]
    /\ faults = 0 /\ effects = {}

Snios ==
    \/ ENQRSP \/ HeaderAck \/ DataAck \/ EnqTimeout \/ AckTimeout
    \/ RCVFST \/ RcvTimeout \/ RcvHeader \/ RcvData
Server ==
    \/ RecvEnq \/ RecvHeader \/ RecvData \/ RecvOneMore
    \/ HandleRequest \/ SendFrame \/ ServerTimeout
Ndos == SNDMSG \/ NTWKIN \/ NTWKST

Next == Ndos \/ Snios \/ Server \/ Fault

Spec == Init /\ [][Next]_vars

\* Both programs run and their timers expire; the line owes nobody anything.
FairSpec == Spec /\ WF_vars(Snios) /\ WF_vars(Server)

-----------------------------------------------------------------------------
(***************************************************************************)
(* Properties.                                                             *)
(***************************************************************************)

\* A request is executed at most once, whatever SNIOS sends again, as long as
\* no ACK of the server is garbled or late: there are no sequence numbers, so
\* nothing but the order of the handshakes prevents a second execution.
AtMostOnce == "doubt" \notin effects => \A m \in Request \ NoReply : executed[m] <= 1

\* When RCVMSG returns success the message is the answer to the request at hand
\* and the server has executed it: no answer to an earlier request that failed
\* is taken for this one's.
AnswerMatches == result = "ok" /\ req \notin NoReply => executed[req] >= 1 /\ answer = req

\* Requests that reach the server with a wrong checksum, fewer of them than
\* MAXRETRY, are repaired by NAK and retry: NDOS sees no error.
RetryRecovers == effects \subseteq {"spoiled"} /\ faults < MAXRETRY => result # "err"

\* SNDMSG and RCVMSG return to NDOS, with success or an error, as long as no
\* byte is lost that SNIOS waits for in RECVBY.
CallsReturn == (cpc # "idle") ~> (cpc = "idle" \/ "owed" \in effects)

\* A part of a message that does not come ends the wait for it: "TIMEOUT -> RECALL
\* RETRY" (snios.asm:317) and "TIMEOUT -> RETRY" (snios.asm:326) say so of RECVBY.
RecallOnTimeout == (cpc \in ForeverWait) ~> (cpc \notin ForeverWait)

\* MAXRETRY attempts, never more (SNDMSG, RCVMSG), repair fewer spoiled requests.
RetriesEnough == TypeOK /\ RetryRecovers
=============================================================================
