----------------------------- MODULE CpnetProofs -----------------------------
(***************************************************************************)
(* CP/NET: the link between SNIOS and server.py, and server.py's handlers. *)
(*                                                                         *)
(* The link, for any number of requests, attempts and faults: no request   *)
(* is executed twice as long as SNIOS learns of every ACK that arrives,    *)
(* and MAXRETRY attempts repair fewer than MAXRETRY spoiled requests.      *)
(* Neither is an invariant that could be proved by itself, because the     *)
(* protocol has no sequence numbers: what excludes a second execution is   *)
(* what the two programs can be doing at the same time.  The inductive     *)
(* invariants are therefore tables that say, for each place where SNIOS    *)
(* waits, what the line carries each way and where server.py can be.       *)
(*                                                                         *)
(* The handlers, for any number and size of files, records, extents and    *)
(* names: the FCB they answer with names the record the program is at,     *)
(* writes change one record only, and a search leaves no file out.         *)
(***************************************************************************)
EXTENDS CpnetServer, DriLink, DataTheorems, FiniteSetTheorems

-----------------------------------------------------------------------------
(***************************************************************************)
(* The line and the types.                                                 *)
(***************************************************************************)

\* Sequences of one item and of two: all a line ever holds in what follows.
LEMMA Lines ==
    /\ \A x : /\ <<x>> # <<>> /\ Head(<<x>>) = x /\ Tail(<<x>>) = <<>>
              /\ <<>> \o <<x>> = <<x>>
    /\ \A x, y : /\ <<x, y>> # <<>> /\ Head(<<x, y>>) = x /\ Tail(<<x, y>>) = <<y>>
                 /\ <<x>> \o <<y>> = <<x, y>> /\ <<x, y>> # <<x>>
<1>1. ASSUME NEW x PROVE <<x>> # <<>> /\ Head(<<x>>) = x /\ Tail(<<x>>) = <<>> /\ <<>> \o <<x>> = <<x>>
  OBVIOUS
<1>2. ASSUME NEW x, NEW y
      PROVE  <<x, y>> # <<>> /\ Head(<<x, y>>) = x /\ Tail(<<x, y>>) = <<y>> /\ <<x, y>> # <<x>>
  OBVIOUS
<1>3. ASSUME NEW x, NEW y PROVE <<x>> \o <<y>> = <<x, y>>
  <2> DEFINE S == {x,y}
  <2>1. <<x>> \in Seq(S) /\ <<y>> \in Seq(S) /\ <<x,y>> \in Seq(S) /\ <<x>> \o <<y>> \in Seq(S)
    BY ConcatProperties
  <2>2. Len(<<x>> \o <<y>>) = 2 /\ (<<x>> \o <<y>>)[1] = x /\ (<<x>> \o <<y>>)[2] = y
    BY <2>1
  <2>3. Len(<<x,y>>) = 2 /\ \A i \in 1 .. Len(<<x>> \o <<y>>) : (<<x>> \o <<y>>)[i] = <<x,y>>[i]
    BY <2>2
  <2> HIDE DEF S
  <2> QED
    BY <2>1, <2>2, <2>3, SeqEqual
<1> QED
  BY <1>1, <1>2, <1>3

\* The parts of a sequence of two.
LEMMA Single ==
    ASSUME NEW x, NEW y
    PROVE  SubSeq(<<x, y>>, 1, 1) = <<x>> /\ SubSeq(<<x, y>>, 2, 2) = <<y>>
<1> DEFINE S == {x, y}
           s == <<x, y>>
<1>1. s \in Seq(S) /\ <<x>> \in Seq(S) /\ <<y>> \in Seq(S) /\ Len(<<x>>) = 1 /\ Len(<<y>>) = 1 /\ <<x>>[1] = x /\ <<y>>[1] = y OBVIOUS
<1>2. /\ SubSeq(s, 1, 1) \in Seq(S) /\ SubSeq(s, 2, 2) \in Seq(S)
      OBVIOUS
<1>3. /\ Len(SubSeq(s, 1, 1)) = 1 /\ Len(SubSeq(s, 2, 2)) = 1
      /\ SubSeq(s, 1, 1)[1] = x /\ SubSeq(s, 2, 2)[1] = y
  OBVIOUS
<1>4. \A i \in 1 .. 1 : i = 1 OBVIOUS
<1> HIDE DEF S, s
<1>5. SubSeq(s, 1, 1) = <<x>> BY <1>1, <1>2, <1>3, <1>4, SeqEqual
<1>6. SubSeq(s, 2, 2) = <<y>> BY <1>1, <1>2, <1>3, <1>4, SeqEqual
<1> QED BY <1>5, <1>6 DEF s

\* Requests are positive numbers.
LEMMA Requests == Request \subseteq Nat \ {0}
  BY LinkAssumption, FS_CardinalityType

\* A control byte is of its kind.
LEMMA ByteIs == \A k : Byte(k).kind = k
  BY DEF Byte

\* With the types: SNIOS has an attempt left while it is at work, and the server has
\* a request while it answers.
TypeInv ==
    /\ TypeOK
    /\ cpc # "idle" => RETCNT >= 1 /\ req \in Request
    /\ spc \in {"handle", "tx_enq", "tx_hdr", "tx_data"} => sreq \in Request

\* Where SNIOS may be.
LEMMA Places ==
    ASSUME TypeOK
    PROVE  cpc \in {"idle", "enq_ack", "hdr_ack", "data_ack", "rcv_enq", "rcv_hdr", "rcv_hdr_more",
                    "rcv_data", "rcv_data_more"}
  BY DEF TypeOK, ShortWait, LongWait, ForeverWait

\* Control bytes and parts of frames are items.
LEMMA Items ==
    /\ \A k \in Control : Byte(k) \in Item
    /\ \A k \in {"HDR", "DATA"}, m \in Request : Frame(k, m) \in Item
    /\ {"ENQ", "ACK", "NAK", "junk"} \subseteq Control
  BY DEF Item, Byte, Frame, Quality, Control

\* A damaged line is a line.
LEMMA DamagedType ==
    ASSUME NEW s \in Seq(Item), NEW kind, NEW q \in Damaged(s, kind)
    PROVE  q \in Seq(Item)
<1>1. CASE kind = "lose"
  <2>1. PICK i \in 1 .. Len(s) : q = SubSeq(s, 1, i - 1) \o SubSeq(s, i + 1, Len(s))
    <3>1. PICK j \in DOMAIN s : q = RemoveAt(s, j)
      BY <1>1 DEF Damaged
    <3>2. j \in 1 .. Len(s)
      OBVIOUS
    <3> QED
      BY <3>1, <3>2 DEF RemoveAt
  <2>2. SubSeq(s, 1, i - 1) \in Seq(Item) /\ SubSeq(s, i + 1, Len(s)) \in Seq(Item)
    OBVIOUS
  <2> QED
    BY <2>1, <2>2
<1>2. CASE kind = "garble"
  <2>1. PICK i \in 1 .. Len(s) : q = [s EXCEPT ![i] = Byte("junk")]
    BY <1>2 DEF Damaged
  <2> QED
    BY <2>1, Items
<1>3. CASE kind \in {"bad", "short"}
  <2>1. PICK i \in 1 .. Len(s) : s[i].kind \in {"HDR", "DATA"} /\ q = [s EXCEPT ![i].q = kind]
    BY <1>3 DEF Damaged
  <2>2. s[i] \in [kind : {"HDR", "DATA"}, msg : Request, q : Quality]
    BY <2>1 DEF Item, Control
  <2>3. [s[i] EXCEPT !.q = kind] \in Item
    BY <1>3, <2>2 DEF Item, Quality
  <2>4. q = [s EXCEPT ![i] = [s[i] EXCEPT !.q = kind]]
    BY <2>1
  <2> QED
    BY <2>3, <2>4
<1> QED
  BY <1>1, <1>2, <1>3 DEF Damaged

\* What is appended to and taken from a line.
LEMMA LineType ==
    /\ \A s \in Seq(Item), i \in Item : s \o <<i>> \in Seq(Item)
    /\ \A s \in Seq(Item) : s # <<>> => Tail(s) \in Seq(Item) /\ Head(s) \in Item
  OBVIOUS

\* A part of a frame names a request.
LEMMA HeadMsg ==
    ASSUME NEW i \in Item, i.kind \in {"HDR", "DATA"}
    PROVE  i.msg \in Request
  BY DEF Item, Control

\* The types again, by what an action changes together.
SniosPlace == {"idle"} \cup ShortWait \cup LongWait \cup ForeverWait

ClientType ==
    /\ cpc \in SniosPlace
    /\ RETCNT \in 0 .. MAXRETRY
    /\ status \subseteq {"ACTIVE", "SNDERR", "RCVERR"}
    /\ req \in {0} \cup Request
    /\ result \in {"none", "ok", "err"} /\ answer \in {0} \cup Request
    /\ cpc # "idle" => RETCNT >= 1 /\ req \in Request

ServerType ==
    /\ spc \in {"enq", "hdr", "hdr_more", "data", "data_more", "handle",
                "tx_enq", "tx_hdr", "tx_data"}
    /\ sreq \in {0} \cup Request
    /\ executed \in [Request -> Nat]
    /\ spc \in {"handle", "tx_enq", "tx_hdr", "tx_data"} => sreq \in Request

NoiseType == faults \in 0 .. MaxFaults /\ effects \subseteq {"doubt", "owed", "spoiled", "broken"}

LineTypes == c2s \in Seq(Item) /\ s2c \in Seq(Item)

\* Together these are TypeInv.
LEMMA Parts == TypeInv <=> ClientType /\ ServerType /\ NoiseType /\ LineTypes
  BY DEF TypeInv, TypeOK, ClientType, ServerType, NoiseType, LineTypes, SniosPlace

\* NDOS and SNIOS keep the types.
LEMMA ClientSteps ==
    ASSUME ClientType, LineTypes, Ndos \/ Snios
    PROVE  ClientType' /\ LineTypes'
<1> USE DEF ClientType, LineTypes
<1>0. /\ Byte("ENQ") \in Item /\ Byte("ACK") \in Item /\ Byte("NAK") \in Item
      /\ \A k \in {"HDR", "DATA"}, m \in Request : Frame(k, m) \in Item
  BY Items
<1>1. CASE SNDMSG
  BY <1>0, <1>1, LineType, LinkAssumption DEF SNDMSG, Sends, SniosPlace, LongWait
<1>2. ASSUME Retry, cpc # "idle", s2c' \in Seq(Item), answer' = answer PROVE ClientType' /\ LineTypes'
  <2>1. RETCNT' \in 0 .. MAXRETRY /\ (AnotherTry => RETCNT' >= 1)
    BY <1>2, LinkAssumption DEF Retry, AnotherTry
  <2>2. req' = req /\ req \in Request /\ status' \subseteq {"ACTIVE", "SNDERR", "RCVERR"} /\ result' \in {"none", "ok", "err"}
    BY <1>2 DEF Retry, Fail
  <2>3. c2s' \in Seq(Item) /\ (cpc' = "idle" \/ (cpc' = "enq_ack" /\ AnotherTry))
    BY <1>0, <1>2, LineType DEF Retry, Sends, Fail
  <2> QED
    BY <1>2, <2>1, <2>2, <2>3 DEF SniosPlace, LongWait
<1>3. CASE ENQRSP \/ HeaderAck
  <2>1. cpc # "idle" /\ s2c' \in Seq(Item) /\ answer' = answer
    BY <1>3, LineType DEF ENQRSP, HeaderAck, Acked, Takes
  <2>2. CASE Head(s2c).kind = "ACK"
    <3>1. /\ cpc' \in ShortWait /\ UNCHANGED <<RETCNT, status, req, result>>
          /\ \E k \in {"HDR", "DATA"} : c2s' = c2s \o <<Frame(k, req)>>
      BY <1>3, <2>2 DEF ENQRSP, HeaderAck, Acked, Sends, ShortWait
    <3> QED
      BY <1>0, <2>1, <3>1, LineType DEF SniosPlace
  <2> QED
    BY <1>2, <1>3, <2>1, <2>2 DEF ENQRSP, HeaderAck, Acked
<1>4. CASE DataAck
  <2>1. cpc # "idle" /\ s2c' \in Seq(Item) /\ answer' = answer
    BY <1>4, LineType DEF DataAck, Takes
  <2>2. CASE Head(s2c).kind = "ACK"
    <3>1. RETCNT' = MAXRETRY /\ MAXRETRY \in 1 .. MAXRETRY /\ MAXRETRY \in 0 .. MAXRETRY
      BY <1>4, <2>2, LinkAssumption DEF DataAck
    <3>2. cpc' \in {"idle", "rcv_enq"} /\ result' \in {"ok", "none"} /\ UNCHANGED <<c2s, status, req>>
      BY <1>4, <2>2 DEF DataAck
    <3> QED
      BY <2>1, <3>1, <3>2 DEF SniosPlace, LongWait
  <2> QED
    BY <1>2, <1>4, <2>1, <2>2 DEF DataAck
<1>5. CASE EnqTimeout \/ RcvTimeout
  BY <1>5 DEF EnqTimeout, RcvTimeout, Fail, SniosPlace
<1>6. CASE AckTimeout
  BY <1>2, <1>6 DEF AckTimeout, ShortWait
<1>7. CASE RCVFST
  BY <1>0, <1>7, LineType DEF RCVFST, Takes, Sends, SniosPlace, ForeverWait
<1>8. ASSUME NEW item, NEW part, NEW wait \in ForeverWait, BadPart(item, part, wait), cpc # "idle",
             s2c' \in Seq(Item), answer' = answer, req' = req
      PROVE  ClientType' /\ LineTypes'
  <2>1. CASE Recall
    <3>1. RETCNT' \in 0 .. MAXRETRY /\ (AnotherTry => RETCNT' >= 1)
      BY <1>8, <2>1, LinkAssumption DEF Recall, AnotherTry
    <3>2. /\ status' \subseteq {"ACTIVE", "SNDERR", "RCVERR"} /\ result' \in {"none", "ok", "err"}
          /\ cpc' = "idle" \/ (cpc' = "rcv_enq" /\ AnotherTry)
      BY <2>1 DEF Recall
    <3>3. c2s' \in Seq(Item)
      BY <1>0, <1>8, LineType DEF BadPart, Sends
    <3> QED
      BY <1>8, <3>1, <3>2, <3>3 DEF SniosPlace, LongWait
  <2>2. CASE cpc' = wait /\ UNCHANGED <<c2s, RETCNT, status, result>>
    BY <1>8, <2>2 DEF SniosPlace
  <2> QED
    BY <1>8, <2>1, <2>2 DEF BadPart
<1>9. CASE RcvHeader
  <2>1. cpc # "idle" /\ s2c' \in Seq(Item) /\ answer' = answer /\ req' = req
    BY <1>9, LineType DEF RcvHeader, Takes
  <2>2. CASE BadPart(Head(s2c), "HDR", "rcv_hdr_more")
    BY <1>8, <2>1, <2>2 DEF ForeverWait
  <2>3. CASE Sends(<<Byte("ACK")>>) /\ cpc' = "rcv_data" /\ UNCHANGED <<RETCNT, status, result>>
    BY <1>0, <2>1, <2>3, LineType DEF Sends, SniosPlace, ForeverWait
  <2> QED
    BY <1>9, <2>2, <2>3 DEF RcvHeader
<1>10. CASE RcvData
  <2>1. cpc # "idle" /\ s2c' \in Seq(Item) /\ req' = req /\ s2c # <<>>
    BY <1>10, LineType DEF RcvData, Takes
  <2>2. CASE BadPart(Head(s2c), "DATA", "rcv_data_more") /\ answer' = answer
    BY <1>8, <2>1, <2>2 DEF ForeverWait
  <2>3. CASE /\ Head(s2c).kind = "DATA" /\ Sends(<<Byte("ACK")>>) /\ cpc' = "idle" /\ UNCHANGED <<RETCNT, status>>
             /\ result' = "ok" /\ answer' = Head(s2c).msg
    <3>1. Head(s2c).msg \in Request
      BY <2>1, <2>3, LineType, HeadMsg
    <3> QED
      BY <1>0, <2>1, <2>3, <3>1, LineType DEF Sends, SniosPlace
  <2> QED
    BY <1>10, <2>2, <2>3 DEF RcvData
<1>11. CASE NTWKIN
  <2>1. s2c' \in Seq(Item)
    BY <1>11 DEF NTWKIN
  <2> QED
    BY <1>11, <2>1 DEF NTWKIN
<1>12. CASE NTWKST
  BY <1>12 DEF NTWKST, line
<1> QED
  BY <1>1, <1>3, <1>4, <1>5, <1>6, <1>7, <1>9, <1>10, <1>11, <1>12 DEF Ndos, Snios

\* server.py keeps the types.
LEMMA ServerSteps ==
    ASSUME ServerType, LineTypes, Server
    PROVE  ServerType' /\ LineTypes'
<1> USE DEF ServerType, LineTypes
<1>0. /\ Byte("ENQ") \in Item /\ Byte("ACK") \in Item /\ Byte("NAK") \in Item
      /\ \A k \in {"HDR", "DATA"}, m \in Request : Frame(k, m) \in Item
  BY Items
<1>1. CASE RecvEnq
  BY <1>0, <1>1, LineType DEF RecvEnq, Reads, Answers
<1>2. ASSUME NEW item, NEW part, NEW wait \in {"hdr_more", "data_more"}, BadFrame(item, part, wait),
             c2s' \in Seq(Item), sreq' = sreq, executed' = executed
      PROVE  ServerType' /\ LineTypes'
  BY <1>0, <1>2, LineType DEF BadFrame, Answers
<1>3. CASE RecvHeader
  <2>1. c2s' \in Seq(Item) /\ sreq' = sreq /\ executed' = executed
    BY <1>3, LineType DEF RecvHeader, Reads
  <2>2. CASE BadFrame(Head(c2s), "HDR", "hdr_more")
    BY <1>2, <2>1, <2>2
  <2>3. CASE Answers(<<Byte("ACK")>>) /\ spc' = "data"
    BY <1>0, <2>1, <2>3, LineType DEF Answers
  <2> QED
    BY <1>3, <2>2, <2>3 DEF RecvHeader
<1>4. CASE RecvData
  <2>1. c2s' \in Seq(Item) /\ executed' = executed /\ c2s # <<>>
    BY <1>4, LineType DEF RecvData, Reads
  <2>2. CASE BadFrame(Head(c2s), "DATA", "data_more") /\ sreq' = sreq
    BY <1>2, <2>1, <2>2
  <2>3. CASE Head(c2s).kind = "DATA" /\ Answers(<<Byte("ACK")>>) /\ spc' = "handle" /\ sreq' = Head(c2s).msg
    <3>1. Head(c2s).msg \in Request
      BY <2>1, <2>3, LineType, HeadMsg
    <3> QED
      BY <1>0, <2>1, <2>3, <3>1, LineType DEF Answers
  <2> QED
    BY <1>4, <2>2, <2>3 DEF RecvData
<1>5. CASE RecvOneMore
  BY <1>0, <1>5, LineType DEF RecvOneMore, Reads, Answers
<1>6. CASE HandleRequest
  <2>1. executed' \in [Request -> Nat]
    BY <1>6 DEF HandleRequest
  <2> QED
    BY <1>0, <1>6, <2>1, LineType DEF HandleRequest, Answers
<1>7. CASE SendFrame
  BY <1>0, <1>7, LineType DEF SendFrame, Reads, Answers
<1>8. CASE ServerTimeout
  BY <1>8 DEF ServerTimeout, line
<1> QED
  BY <1>1, <1>3, <1>4, <1>5, <1>6, <1>7, <1>8 DEF Server

\* Every step keeps the types.
LEMMA TypeStep == TypeInv /\ [Next]_vars => TypeInv'
<1> SUFFICES ASSUME ClientType, ServerType, NoiseType, LineTypes, [Next]_vars PROVE TypeInv'
  BY Parts
<1>0. ASSUME ClientType', ServerType', NoiseType', LineTypes' PROVE TypeInv'
  BY <1>0 DEF TypeInv, TypeOK, ClientType, ServerType, NoiseType, LineTypes, SniosPlace
<1>1. ASSUME NEW on, NEW kind, Happens(on, kind) PROVE NoiseType'
  <2>1. Effect(on, kind) \in {"doubt", "owed", "spoiled", "broken"}
    BY DEF Effect
  <2> QED
    <3>1. faults' \in 0 .. MaxFaults
      BY <1>1, LinkAssumption DEF Happens, NoiseType
    <3>2. effects' \subseteq {"doubt", "owed", "spoiled", "broken"}
      BY <1>1, <2>1 DEF Happens, NoiseType
    <3> QED
      BY <3>1, <3>2 DEF NoiseType
<1>2. CASE Ndos \/ Snios
  <2>1. UNCHANGED server /\ (UNCHANGED noise \/ Happens("s2c", "late"))
    BY <1>2 DEF Ndos, Snios, SNDMSG, NTWKIN, NTWKST, ENQRSP, HeaderAck, Acked, DataAck, EnqTimeout,
       AckTimeout, RCVFST, RcvTimeout, RcvHeader, RcvData
  <2>2. ServerType' /\ NoiseType'
    BY <1>1, <2>1 DEF ServerType, NoiseType, server, noise
  <2> QED
    BY <1>0, <1>2, <2>2, ClientSteps
<1>3. CASE Server
  <2>1. UNCHANGED client /\ UNCHANGED noise
    BY <1>3 DEF Server, RecvEnq, RecvHeader, RecvData, RecvOneMore, HandleRequest, SendFrame,
       ServerTimeout
  <2>2. ClientType' /\ NoiseType'
    BY <2>1 DEF ClientType, NoiseType, client, noise
  <2> QED
    BY <1>0, <1>3, <2>2, ServerSteps
<1>4. CASE Fault
  <2>1. UNCHANGED client /\ UNCHANGED server /\ NoiseType'
    BY <1>1, <1>4 DEF Fault
  <2>2. LineTypes'
    BY <1>4, DamagedType DEF Fault, LineTypes
  <2>3. ClientType' /\ ServerType'
    BY <2>1 DEF ClientType, ServerType, client, server
  <2> QED
    BY <1>0, <2>1, <2>2, <2>3
<1>5. CASE UNCHANGED vars
  BY <1>0, <1>5 DEF vars, line, client, server, noise, ClientType, ServerType, NoiseType, LineTypes
<1> QED
  BY <1>2, <1>3, <1>4, <1>5 DEF Next

\* The types hold at the start.
LEMMA TypeInit == Init => TypeInv
  BY LinkAssumption DEF Init, TypeInv, TypeOK

-----------------------------------------------------------------------------
(***************************************************************************)
(* What a fault does to a line.                                            *)
(***************************************************************************)

\* A line that carries nothing cannot be damaged.
LEMMA DamagedNone == ASSUME NEW kind, NEW q \in Damaged(<<>>, kind) PROVE FALSE
  BY DEF Damaged

\* A single control byte is lost, or becomes junk.
LEMMA DamagedByte ==
    ASSUME NEW kind, NEW k \in Control, NEW q \in Damaged(<<Byte(k)>>, kind)
    PROVE  \/ kind = "lose" /\ q = <<>>
           \/ kind = "garble" /\ q = <<Byte("junk")>>
<1>1. DOMAIN <<Byte(k)>> = {1} /\ <<Byte(k)>>[1] = Byte(k) /\ Byte(k).kind = k
  BY DEF Byte
<1>2. CASE kind = "lose"
  <2>1. q = RemoveAt(<<Byte(k)>>, 1)
    BY <1>1, <1>2 DEF Damaged
  <2>2. RemoveAt(<<Byte(k)>>, 1) = <<>>
    BY DEF RemoveAt
  <2> QED
    BY <2>1, <2>2, <1>2
<1>3. CASE kind = "garble"
  BY <1>1, <1>3 DEF Damaged
<1>4. CASE kind \in {"bad", "short"}
  BY <1>1, <1>4 DEF Damaged, Control
<1> QED
  BY <1>2, <1>3, <1>4 DEF Damaged

\* Of two control bytes one is lost, or becomes junk.
LEMMA DamagedBytes ==
    ASSUME NEW kind, NEW k \in Control, NEW l \in Control, NEW q \in Damaged(<<Byte(k), Byte(l)>>, kind)
    PROVE  \/ kind = "lose" /\ q \in {<<Byte(k)>>, <<Byte(l)>>}
           \/ kind = "garble" /\ q \in {<<Byte("junk"), Byte(l)>>, <<Byte(k), Byte("junk")>>}
<1> DEFINE s == <<Byte(k), Byte(l)>>
<1>1. DOMAIN s = {1, 2} /\ s[1] = Byte(k) /\ s[2] = Byte(l) /\ Byte(k).kind = k /\ Byte(l).kind = l
  BY DEF Byte
<1>2. CASE kind = "lose"
  <2>1. PICK i \in {1, 2} : q = RemoveAt(s, i)
    BY <1>1, <1>2 DEF Damaged
  <2>2. /\ RemoveAt(s, 1) = SubSeq(s, 1, 0) \o SubSeq(s, 2, 2)
        /\ RemoveAt(s, 2) = SubSeq(s, 1, 1) \o SubSeq(s, 3, 2)
    BY DEF RemoveAt
  <2>3. SubSeq(s, 1, 0) = <<>> /\ SubSeq(s, 3, 2) = <<>>
    OBVIOUS
  <2>4. SubSeq(s, 1, 1) = <<Byte(k)>> /\ SubSeq(s, 2, 2) = <<Byte(l)>>
    BY Single
  <2>5. <<>> \o <<Byte(l)>> = <<Byte(l)>> /\ <<Byte(k)>> \o <<>> = <<Byte(k)>>
    OBVIOUS
  <2> QED
    BY <2>1, <2>2, <2>3, <2>4, <2>5, <1>2
<1>3. CASE kind = "garble"
  <2>1. PICK i \in {1, 2} : q = [s EXCEPT ![i] = Byte("junk")]
    BY <1>1, <1>3 DEF Damaged
  <2>2. [s EXCEPT ![1] = Byte("junk")] = <<Byte("junk"), Byte(l)>> /\ [s EXCEPT ![2] = Byte("junk")] = <<Byte(k), Byte("junk")>>
    OBVIOUS
  <2> QED
    BY <2>1, <2>2, <1>3
<1>4. CASE kind \in {"bad", "short"}
  BY <1>1, <1>4 DEF Damaged, Control
<1> QED
  BY <1>2, <1>3, <1>4 DEF Damaged

\* A part of a frame is spoiled, or loses a byte.
LEMMA DamagedPart ==
    ASSUME NEW kind, NEW k \in {"HDR", "DATA"}, NEW m, NEW g \in Quality, NEW q \in Damaged(<<[kind |-> k, msg |-> m, q |-> g]>>, kind)
    PROVE  kind \in {"bad", "short"} /\ q = <<[kind |-> k, msg |-> m, q |-> kind]>>
<1> DEFINE i == [kind |-> k, msg |-> m, q |-> g]
<1>1. DOMAIN <<i>> = {1} /\ <<i>>[1] = i /\ i.kind = k
  OBVIOUS
<1>2. CASE kind \in {"bad", "short"}
  <2>1. q = [<<i>> EXCEPT ![1].q = kind]
    BY <1>1, <1>2 DEF Damaged
  <2> QED
    BY <2>1, <1>2
<1>3. CASE kind \in {"lose", "garble"}
  BY <1>1, <1>3 DEF Damaged, Control
<1> QED
  BY <1>2, <1>3 DEF Damaged

-----------------------------------------------------------------------------
(***************************************************************************)
(* What each place of SNIOS leaves open on a line that may lose and spoil  *)
(* anything, but neither garbles nor delays an ACK of the server.          *)
(***************************************************************************)

\* A line with one control byte of a kind in K.
One(K) == {<<Byte(k)>> : k \in K}

\* A line with a part of the request at hand, in any state.
Part(k) == {<<[kind |-> k, msg |-> req, q |-> q]>> : q \in Quality}

\* The request at hand has not been executed, or need not be counted.
Fresh == req \in NoReply \/ executed[req] = 0

\* It has been executed once.
Done == req \notin NoReply /\ executed[req] = 1

\* The server may still have a request to execute that need not be counted.
Behind == spc = "handle" => sreq \in NoReply

\* No request was executed twice, and none that SNIOS has not yet sent.
Counts ==
    \A m \in Request \ NoReply : executed[m] <= 1 /\ (m > req => executed[m] = 0)

Replying == {"tx_hdr", "tx_data"}

\* What RCVMSG may have left behind when it gave up or ended.
Left == {x \in {"ACK", "NAK", "junk"} : x = "ACK" => spc = "tx_data"}

\* Where SNIOS is, each with what the line carries and where the server is.
Idle ==
    /\ s2c = <<>> /\ Behind
    /\ c2s = <<>> \/ (spc \in Replying /\ c2s \in One(Left))

EnqAck ==
    \/ /\ Done /\ s2c = <<>>
       /\ \/ spc = "tx_enq" /\ c2s \in {<<>>} \cup One({"ENQ", "junk"})
          \/ spc = "enq" /\ c2s = <<>>
    \/ /\ Fresh /\ Behind /\ s2c = <<>>
       /\ \/ c2s \in {<<>>} \cup One({"ENQ", "junk"})
          \/ spc \in Replying /\ c2s \in One(Left)
          \/ spc \in Replying /\ \E x \in Left, y \in {"ENQ", "junk"} : c2s = <<Byte(x), Byte(y)>>
    \/ Fresh /\ c2s = <<>> /\ spc = "hdr" /\ s2c = <<Byte("ACK")>>
    \/ Fresh /\ c2s = <<>> /\ spc = "enq" /\ s2c = <<Byte("NAK")>>

HdrAck ==
    /\ Fresh
    /\ \/ spc = "hdr" /\ c2s \in Part("HDR") /\ s2c = <<>>
       \/ spc = "hdr_more" /\ c2s = <<>> /\ s2c = <<>>
       \/ spc = "data" /\ c2s = <<>> /\ s2c \in {<<>>} \cup One({"ACK"})
       \/ spc = "enq" /\ c2s = <<>> /\ s2c \in {<<>>} \cup One({"NAK"})

WaitAck ==
    \/ /\ Fresh
       /\ \/ spc = "data" /\ c2s \in Part("DATA") /\ s2c = <<>>
          \/ spc = "data_more" /\ c2s = <<>> /\ s2c = <<>>
          \/ spc = "enq" /\ c2s = <<>> /\ s2c \in {<<>>} \cup One({"NAK"})
          \/ spc = "handle" /\ sreq = req /\ c2s = <<>> /\ s2c \in {<<>>} \cup One({"ACK"})
    \/ req \in NoReply /\ spc = "enq" /\ c2s = <<>> /\ s2c \in One({"ACK"})
    \/ /\ Done /\ spc = "tx_enq" /\ c2s = <<>>
       /\ s2c \in {<<>>, <<Byte("ACK"), Byte("ENQ")>>} \cup One({"ACK", "ENQ"})

\* The answer is on its way, or lost.
RcvEnq ==
    \/ req \notin NoReply /\ Fresh /\ spc = "handle" /\ sreq = req /\ c2s = <<>> /\ s2c = <<>>
    \/ /\ Done
       /\ \/ spc = "tx_enq" /\ c2s = <<>> /\ s2c \in {<<>>} \cup One({"ENQ"})
          \/ spc \in Replying /\ s2c = <<>> /\ c2s \in {<<>>} \cup One({"NAK", "junk"})
          \/ spc = "enq" /\ c2s = <<>> /\ s2c = <<>>

RcvPart(part, before, after) ==
    /\ Done
    /\ \/ spc = before /\ s2c = <<>> /\ c2s \in {<<>>} \cup One({"ACK", "junk"})
       \/ spc = after /\ c2s = <<>> /\ \E i \in Item : i.kind = part /\ s2c = <<i>>
       \/ spc = "enq" /\ c2s = <<>> /\ s2c = <<>>

RcvMore(after) == Done /\ spc \in {after, "enq"} /\ c2s = <<>> /\ s2c = <<>>

Table ==
    /\ cpc = "idle" => Idle
    /\ cpc = "enq_ack" => EnqAck
    /\ cpc = "hdr_ack" => HdrAck
    /\ cpc = "data_ack" => WaitAck
    /\ cpc = "rcv_enq" => RcvEnq
    /\ cpc = "rcv_hdr" => RcvPart("HDR", "tx_enq", "tx_hdr")
    /\ cpc = "rcv_hdr_more" => RcvMore("tx_hdr")
    /\ cpc = "rcv_data" => RcvPart("DATA", "tx_hdr", "tx_data")
    /\ cpc = "rcv_data_more" => RcvMore("tx_data")

Inv == "doubt" \notin effects => Counts /\ Table

\* While nothing is executed, what is known of the executions stays.
LEMMA SameRequest ==
    ASSUME Counts, executed' = executed, req' = req
    PROVE  Counts' /\ (Fresh' <=> Fresh) /\ (Done' <=> Done)
  BY DEF Counts, Fresh, Done

\* The steps of SNIOS leave the server alone.
LEMMA SameServer ==
    ASSUME spc' = spc, sreq' = sreq
    PROVE  (Behind' <=> Behind) /\ Left' = Left
  BY DEF Behind, Left

\* SNDRET sends ENQ again or gives up.
LEMMA Retried ==
    ASSUME Retry, c2s = <<>>
    PROVE  /\ req' = req
           /\ \/ cpc' = "enq_ack" /\ c2s' = <<Byte("ENQ")>>
              \/ cpc' = "idle" /\ c2s' = <<>>
  BY DEF Retry, Sends, Fail

\* SNDMSG finds the request fresh: it has a number no request had before.
LEMMA SndmsgKeeps ==
    ASSUME TypeOK, Counts, Table, SNDMSG
    PROVE  Counts' /\ Table'
<1>0. /\ req \in Nat /\ req + 1 \in Request /\ req' = req + 1 /\ cpc' = "enq_ack" /\ s2c' = s2c
      /\ executed' = executed /\ spc' = spc /\ sreq' = sreq /\ c2s' = c2s \o <<Byte("ENQ")>> /\ cpc = "idle"
  BY Requests DEF TypeOK, SNDMSG, server, Sends
<1>1. Counts'
  BY <1>0, Requests DEF Counts
<1>2. Fresh'
  BY <1>0, Requests DEF Counts, Fresh
<1>3. Idle
  BY <1>0 DEF Table
<1>4. EnqAck'
  <2>1. CASE c2s = <<>>
    BY <1>0, <1>2, <1>3, <2>1, SameServer DEF EnqAck, Idle, One
  <2>2. CASE c2s # <<>>
    <3>1. PICK x \in Left : c2s = <<Byte(x)>>
      BY <2>2, <1>3 DEF Idle, One
    <3>2. c2s' = <<Byte(x), Byte("ENQ")>>
      BY <1>0, <3>1, Lines
    <3>3. s2c' = <<>> /\ spc' \in Replying /\ x \in Left' /\ Behind'
      BY <1>0, <1>3, <2>2, SameServer DEF Idle
    <3> QED
      BY <3>2, <3>3, <1>2 DEF EnqAck
  <2> QED
    BY <2>1, <2>2
<1> QED
  BY <1>0, <1>1, <1>4 DEF Table

\* After the ACK for ENQ the server expects the header.
LEMMA EnqrspKeeps ==
    ASSUME TypeOK, Counts, Table, ENQRSP
    PROVE  Counts' /\ Table'
<1>0. cpc = "enq_ack" /\ s2c # <<>> /\ s2c' = Tail(s2c) /\ spc' = spc /\ sreq' = sreq /\ executed' = executed /\ req' = req
  BY DEF ENQRSP, Acked, Takes, server, Retry, Fail
<1>1. Counts' /\ (Fresh' <=> Fresh)
  BY <1>0, SameRequest
<1>2. /\ Fresh /\ c2s = <<>>
      /\ \/ spc = "hdr" /\ s2c = <<Byte("ACK")>>
         \/ spc = "enq" /\ s2c = <<Byte("NAK")>>
  BY <1>0 DEF Table, EnqAck
<1>3. s2c' = <<>>
  BY <1>0, <1>2
<1>4. CASE spc = "hdr" /\ s2c = <<Byte("ACK")>>
  <2>1. cpc' = "hdr_ack" /\ c2s' = <<Frame("HDR", req)>>
    BY <1>2, <1>4, ByteIs, Lines DEF ENQRSP, Acked, Sends
  <2>2. c2s' \in Part("HDR")'
    BY <2>1, <1>0 DEF Part, Frame, Quality
  <2> QED
    BY <2>1, <2>2, <1>0, <1>1, <1>2, <1>3, <1>4 DEF Table, HdrAck
<1>5. CASE spc = "enq" /\ s2c = <<Byte("NAK")>>
  <2>1. Retry
    BY <1>5, ByteIs DEF ENQRSP, Acked
  <2> QED
    BY <2>1, <1>0, <1>1, <1>2, <1>3, <1>5, Retried DEF Table, EnqAck, Idle, One, Behind
<1> QED
  BY <1>2, <1>4, <1>5

\* After the ACK for the header it expects the data.
LEMMA HeaderAckKeeps ==
    ASSUME TypeOK, Counts, Table, HeaderAck
    PROVE  Counts' /\ Table'
<1>0. cpc = "hdr_ack" /\ s2c # <<>> /\ s2c' = Tail(s2c) /\ spc' = spc /\ sreq' = sreq /\ executed' = executed /\ req' = req
  BY DEF HeaderAck, Acked, Takes, server, Retry, Fail
<1>1. Counts' /\ (Fresh' <=> Fresh)
  BY <1>0, SameRequest
<1>2. /\ Fresh /\ c2s = <<>>
      /\ \/ spc = "data" /\ s2c = <<Byte("ACK")>>
         \/ spc = "enq" /\ s2c = <<Byte("NAK")>>
  BY <1>0 DEF Table, HdrAck, One
<1>3. s2c' = <<>>
  BY <1>0, <1>2
<1>4. CASE spc = "data" /\ s2c = <<Byte("ACK")>>
  <2>1. cpc' = "data_ack" /\ c2s' = <<Frame("DATA", req)>>
    BY <1>2, <1>4, ByteIs, Lines DEF HeaderAck, Acked, Sends
  <2>2. c2s' \in Part("DATA")'
    BY <2>1, <1>0 DEF Part, Frame, Quality
  <2> QED
    BY <2>1, <2>2, <1>0, <1>1, <1>2, <1>3, <1>4 DEF Table, WaitAck
<1>5. CASE spc = "enq" /\ s2c = <<Byte("NAK")>>
  <2>1. Retry
    BY <1>5, ByteIs DEF HeaderAck, Acked
  <2> QED
    BY <2>1, <1>0, <1>1, <1>2, <1>3, <1>5, Retried DEF Table, EnqAck, Idle, One, Behind
<1> QED
  BY <1>2, <1>4, <1>5

\* After the last ACK the server has the request, or has executed it.
LEMMA DataAckKeeps ==
    ASSUME TypeOK, Counts, Table, DataAck
    PROVE  Counts' /\ Table'
<1>0. cpc = "data_ack" /\ s2c # <<>> /\ s2c' = Tail(s2c) /\ spc' = spc /\ sreq' = sreq /\ executed' = executed /\ req' = req
  BY DEF DataAck, Takes, server, Retry, Fail
<1>1. Counts' /\ (Fresh' <=> Fresh) /\ (Done' <=> Done)
  BY <1>0, SameRequest
<1>2. /\ c2s = <<>>
      /\ \/ Fresh /\ spc = "enq" /\ s2c = <<Byte("NAK")>>
         \/ Fresh /\ spc = "handle" /\ sreq = req /\ s2c = <<Byte("ACK")>>
         \/ req \in NoReply /\ spc = "enq" /\ s2c = <<Byte("ACK")>>
         \/ Done /\ spc = "tx_enq" /\ s2c \in {<<Byte("ACK"), Byte("ENQ")>>, <<Byte("ACK")>>, <<Byte("ENQ")>>}
  BY <1>0 DEF Table, WaitAck, One
<1>3. CASE Head(s2c).kind = "ACK"
  <2>1. c2s' = <<>> /\ cpc' = IF req \in NoReply THEN "idle" ELSE "rcv_enq"
    BY <1>2, <1>3 DEF DataAck
  <2>2. CASE Fresh /\ spc = "handle" /\ sreq = req /\ s2c = <<Byte("ACK")>>
    BY <1>0, <1>1, <2>1, <2>2 DEF Table, Idle, RcvEnq, Behind
  <2>3. CASE req \in NoReply /\ spc = "enq" /\ s2c = <<Byte("ACK")>>
    BY <1>0, <1>1, <2>1, <2>3 DEF Table, Idle, Behind
  <2>4. CASE Done /\ spc = "tx_enq" /\ s2c \in {<<Byte("ACK"), Byte("ENQ")>>, <<Byte("ACK")>>}
    <3>1. (s2c' = <<>> \/ s2c' = <<Byte("ENQ")>>) /\ cpc' = "rcv_enq"
      <4>1. CASE s2c = <<Byte("ACK")>>
        BY <1>0, <2>1, <2>4, <4>1, Lines DEF Done
      <4>2. CASE s2c = <<Byte("ACK"), Byte("ENQ")>>
        BY <1>0, <2>1, <2>4, <4>2, Lines DEF Done
      <4> QED
        BY <2>4, <4>1, <4>2
    <3> QED
      BY <1>0, <1>1, <2>1, <2>4, <3>1 DEF Table, RcvEnq, One
  <2> QED
    BY <1>2, <1>3, <2>2, <2>3, <2>4, ByteIs, Lines
<1>4. CASE Head(s2c).kind # "ACK"
  <2>1. Retry
    BY <1>4 DEF DataAck
  <2>2. \/ Fresh /\ spc = "enq" /\ s2c = <<Byte("NAK")>>
        \/ Done /\ spc = "tx_enq" /\ s2c = <<Byte("ENQ")>>
    BY <1>2, <1>4, ByteIs, Lines
  <2>3. s2c' = <<>>
    BY <1>0, <2>2, Lines
  <2>4. /\ \/ cpc' = "enq_ack" /\ c2s' = <<Byte("ENQ")>>
           \/ cpc' = "idle" /\ c2s' = <<>>
    BY <1>2, <2>1, Retried
  <2> QED
    BY <1>0, <1>1, <2>2, <2>3, <2>4 DEF Table, EnqAck, Idle, One, Behind
<1> QED
  BY <1>3, <1>4

\* No answer to ENQ: both are idle.
LEMMA EnqTimeoutKeeps ==
    ASSUME TypeOK, Counts, Table, EnqTimeout
    PROVE  Counts' /\ Table'
<1>0. /\ cpc' = "idle" /\ c2s = <<>> /\ s2c = <<>> /\ c2s' = c2s /\ s2c' = s2c /\ spc = "enq" /\ spc' = spc
      /\ executed' = executed /\ req' = req
  BY DEF EnqTimeout, Quiet, Fail, server
<1> QED
  BY <1>0, SameRequest DEF Table, Idle, Behind

\* No message for RCVMSG: both are idle.
LEMMA RcvTimeoutKeeps ==
    ASSUME TypeOK, Counts, Table, RcvTimeout
    PROVE  Counts' /\ Table'
<1>0. /\ cpc' = "idle" /\ c2s = <<>> /\ s2c = <<>> /\ c2s' = c2s /\ s2c' = s2c /\ spc = "enq" /\ spc' = spc
      /\ executed' = executed /\ req' = req
  BY DEF RcvTimeout, Quiet, Fail, server
<1> QED
  BY <1>0, SameRequest DEF Table, Idle, Behind

\* A timeout in GETACK that is not early means that the request did not get
\* through, or that nobody will hear of it again: the server then waits for ACK
\* after its ENQ, and the ENQ that SNDMSG sends ends that.
LEMMA AckTimeoutKeeps ==
    ASSUME TypeOK, Counts, Table, AckTimeout, "doubt" \notin effects'
    PROVE  Counts' /\ Table'
<1>0. /\ cpc \in ShortWait /\ s2c = <<>> /\ s2c' = s2c /\ spc' = spc /\ sreq' = sreq /\ executed' = executed
      /\ Retry /\ req' = req
  BY DEF AckTimeout, server, Retry, Fail
<1>1. Counts' /\ (Fresh' <=> Fresh) /\ (Done' <=> Done)
  BY <1>0, SameRequest
<1>2. c2s = <<>> /\ spc # "handle"
  BY DEF AckTimeout, ServerWillAnswer, Happens, Effect
<1>3. \/ cpc' = "enq_ack" /\ c2s' = <<Byte("ENQ")>>
      \/ cpc' = "idle" /\ c2s' = <<>>
  BY <1>0, <1>2, Retried
<1>4. Fresh \/ (Done /\ spc = "tx_enq")
  BY <1>0, <1>2 DEF Table, HdrAck, WaitAck, ShortWait, Fresh
<1> QED
  BY <1>0, <1>1, <1>2, <1>3, <1>4 DEF Table, EnqAck, Idle, One, Behind

\* An ENQ to RCVMSG is the server's, for the answer.
LEMMA RcvfstKeeps ==
    ASSUME TypeOK, Counts, Table, RCVFST
    PROVE  Counts' /\ Table'
<1>0. cpc = "rcv_enq" /\ s2c # <<>> /\ s2c' = Tail(s2c) /\ spc' = spc /\ sreq' = sreq /\ executed' = executed /\ req' = req
  BY DEF RCVFST, Takes, server
<1>1. Counts' /\ (Done' <=> Done)
  BY <1>0, SameRequest
<1>2. Done /\ spc = "tx_enq" /\ c2s = <<>> /\ s2c = <<Byte("ENQ")>>
  BY <1>0 DEF Table, RcvEnq, One
<1>3. s2c' = <<>> /\ c2s' = <<Byte("ACK")>> /\ cpc' = "rcv_hdr"
  BY <1>0, <1>2, ByteIs, Lines DEF RCVFST, Sends
<1> QED
  BY <1>0, <1>1, <1>2, <1>3 DEF Table, RcvPart, One

\* What RCVMSG does with a part that does not arrive good.
LEMMA BadParts ==
    ASSUME NEW item, NEW part, NEW wait, c2s = <<>>, BadPart(item, part, wait)
    PROVE  \/ c2s' = <<Byte("NAK")>> /\ cpc' \in {"idle", "rcv_enq"}
           \/ c2s' = <<>> /\ cpc' \in {"idle", "rcv_enq", wait}
  BY DEF BadPart, Recall, Sends

\* The answer's header is taken, or RCVMSG starts over.
LEMMA RcvHeaderKeeps ==
    ASSUME TypeOK, Counts, Table, RcvHeader
    PROVE  Counts' /\ Table'
<1>0. cpc = "rcv_hdr" /\ s2c # <<>> /\ s2c' = Tail(s2c) /\ spc' = spc /\ sreq' = sreq /\ executed' = executed /\ req' = req
  BY DEF RcvHeader, Takes, server
<1>1. Counts' /\ (Done' <=> Done)
  BY <1>0, SameRequest
<1>2. Done /\ spc = "tx_hdr" /\ c2s = <<>> /\ \E i \in Item : s2c = <<i>>
  BY <1>0 DEF Table, RcvPart, One
<1>3. s2c' = <<>>
  BY <1>0, <1>2, Lines
<1>4. \/ c2s' = <<Byte("ACK")>> /\ cpc' = "rcv_data"
      \/ c2s' = <<Byte("NAK")>> /\ cpc' \in {"idle", "rcv_enq"}
      \/ c2s' = <<>> /\ cpc' \in {"idle", "rcv_enq", "rcv_hdr_more"}
  BY <1>2, BadParts DEF RcvHeader, Sends
<1> QED
  BY <1>0, <1>1, <1>2, <1>3, <1>4 DEF Table, RcvPart, RcvEnq, RcvMore, Idle, One, Behind, Left,
     Replying

\* The same for the answer's data.
LEMMA RcvDataKeeps ==
    ASSUME TypeOK, Counts, Table, RcvData
    PROVE  Counts' /\ Table'
<1>0. cpc = "rcv_data" /\ s2c # <<>> /\ s2c' = Tail(s2c) /\ spc' = spc /\ sreq' = sreq /\ executed' = executed /\ req' = req
  BY DEF RcvData, Takes, server
<1>1. Counts' /\ (Done' <=> Done)
  BY <1>0, SameRequest
<1>2. Done /\ spc = "tx_data" /\ c2s = <<>> /\ \E i \in Item : s2c = <<i>>
  BY <1>0 DEF Table, RcvPart, One
<1>3. s2c' = <<>>
  BY <1>0, <1>2, Lines
<1>4. \/ c2s' = <<Byte("ACK")>> /\ cpc' = "idle"
      \/ c2s' = <<Byte("NAK")>> /\ cpc' \in {"idle", "rcv_enq"}
      \/ c2s' = <<>> /\ cpc' \in {"idle", "rcv_enq", "rcv_data_more"}
  BY <1>2, BadParts DEF RcvData, Sends
<1> QED
  BY <1>0, <1>1, <1>2, <1>3, <1>4 DEF Table, RcvEnq, RcvMore, Idle, One, Behind, Left, Replying

\* NTWKIN finds nothing to drain.
LEMMA NtwkinKeeps ==
    ASSUME TypeOK, Counts, Table, NTWKIN
    PROVE  Counts' /\ Table'
<1>0. /\ cpc = "idle" /\ cpc' = cpc /\ c2s' = c2s /\ spc' = spc /\ sreq' = sreq /\ executed' = executed /\ req' = req
      /\ \E n \in 0 .. Len(s2c) : s2c' = SubSeq(s2c, n + 1, Len(s2c))
  BY DEF NTWKIN, server
<1>1. Idle /\ s2c = <<>>
  BY <1>0 DEF Table, Idle
<1>2. s2c' = <<>>
  BY <1>0, <1>1
<1> QED
  BY <1>0, <1>1, <1>2, SameRequest, SameServer DEF Table, Idle

\* NTWKST touches nothing of this.
LEMMA NtwkstKeeps ==
    ASSUME TypeOK, Counts, Table, NTWKST
    PROVE  Counts' /\ Table'
<1>0. /\ cpc = "idle" /\ cpc' = cpc /\ c2s' = c2s /\ s2c' = s2c /\ spc' = spc /\ sreq' = sreq
      /\ executed' = executed /\ req' = req
  BY DEF NTWKST, server, line
<1> QED
  BY <1>0, SameRequest, SameServer DEF Table, Idle

\* The server takes an ENQ.
LEMMA RecvEnqKeeps ==
    ASSUME TypeOK, Counts, Table, RecvEnq
    PROVE  Counts' /\ Table'
<1>0. /\ spc = "enq" /\ c2s # <<>> /\ c2s' = Tail(c2s) /\ cpc' = cpc /\ executed' = executed /\ req' = req
  BY DEF RecvEnq, Reads, client
<1>1. Counts' /\ (Fresh' <=> Fresh)
  BY <1>0, SameRequest
<1>2. cpc = "enq_ack" /\ Fresh /\ s2c = <<>> /\ c2s \in One({"ENQ", "junk"})
  BY <1>0, Places DEF Table, Idle, EnqAck, HdrAck, WaitAck, RcvEnq, RcvPart, RcvMore, Replying
<1>3. c2s' = <<>>
  BY <1>0, <1>2, Lines DEF One
<1>4. \/ s2c' = <<Byte("ACK")>> /\ spc' = "hdr"
      \/ s2c' = <<>> /\ spc' = "enq"
  BY <1>2, <1>0, Lines DEF RecvEnq, Answers
<1> QED
  BY <1>0, <1>1, <1>2, <1>3, <1>4 DEF Table, EnqAck, Behind

\* What recv_frame does with a part that does not arrive good.
LEMMA BadFrames ==
    ASSUME NEW item, NEW part, NEW wait, s2c = <<>>, BadFrame(item, part, wait)
    PROVE  \/ s2c' = <<Byte("NAK")>> /\ spc' = "enq" /\ item.kind = part
           \/ s2c' = <<>> /\ spc' = wait /\ item.kind = part
           \/ s2c' = <<>> /\ spc' = "enq"
  BY DEF BadFrame, Answers

\* The server takes a header.
LEMMA RecvHeaderKeeps ==
    ASSUME TypeOK, Counts, Table, RecvHeader
    PROVE  Counts' /\ Table'
<1>0. /\ spc = "hdr" /\ c2s # <<>> /\ c2s' = Tail(c2s) /\ cpc' = cpc /\ executed' = executed /\ req' = req
  BY DEF RecvHeader, Reads, client
<1>1. Counts' /\ (Fresh' <=> Fresh)
  BY <1>0, SameRequest
<1>2. /\ Fresh /\ s2c = <<>>
      /\ \/ cpc = "enq_ack" /\ c2s \in One({"ENQ", "junk"})
         \/ cpc = "hdr_ack" /\ c2s \in Part("HDR")
  BY <1>0, Places DEF Table, Idle, EnqAck, HdrAck, WaitAck, RcvEnq, RcvPart, RcvMore, Replying
<1>3. c2s' = <<>>
  BY <1>0, <1>2, Lines DEF One, Part
<1>4. \/ s2c' = <<Byte("ACK")>> /\ spc' = "data" /\ Head(c2s).kind = "HDR"
      \/ s2c' = <<Byte("NAK")>> /\ spc' = "enq" /\ Head(c2s).kind = "HDR"
      \/ s2c' = <<>> /\ spc' = "hdr_more" /\ Head(c2s).kind = "HDR"
      \/ s2c' = <<>> /\ spc' = "enq"
  <2>1. CASE BadFrame(Head(c2s), "HDR", "hdr_more")
    BY <1>2, <2>1, BadFrames
  <2> QED
    BY <1>2, <2>1, Lines DEF RecvHeader, Answers
<1>5. CASE cpc = "enq_ack"
  <2>1. Head(c2s).kind # "HDR"
    BY <1>2, <1>5, ByteIs, Lines DEF One
  <2> QED
    BY <1>0, <1>1, <1>2, <1>3, <1>4, <1>5, <2>1 DEF Table, EnqAck, Behind
<1>6. CASE cpc = "hdr_ack"
  BY <1>0, <1>1, <1>2, <1>3, <1>4, <1>6 DEF Table, HdrAck, One
<1> QED
  BY <1>2, <1>5, <1>6

\* The server takes the data: the request at hand, never one before it.
LEMMA RecvDataKeeps ==
    ASSUME TypeOK, Counts, Table, RecvData
    PROVE  Counts' /\ Table'
<1>0. /\ spc = "data" /\ c2s # <<>> /\ c2s' = Tail(c2s) /\ cpc' = cpc /\ executed' = executed /\ req' = req
  BY DEF RecvData, Reads, client
<1>1. Counts' /\ (Fresh' <=> Fresh)
  BY <1>0, SameRequest
<1>2. /\ Fresh /\ s2c = <<>>
      /\ \/ cpc = "enq_ack" /\ c2s \in One({"ENQ", "junk"})
         \/ cpc = "data_ack" /\ c2s \in Part("DATA")
  BY <1>0, Places DEF Table, Idle, EnqAck, HdrAck, WaitAck, RcvEnq, RcvPart, RcvMore, Replying
<1>3. c2s' = <<>>
  BY <1>0, <1>2, Lines DEF One, Part
<1>4. \/ s2c' = <<Byte("ACK")>> /\ spc' = "handle" /\ Head(c2s).kind = "DATA" /\ sreq' = Head(c2s).msg
      \/ s2c' = <<Byte("NAK")>> /\ spc' = "enq" /\ Head(c2s).kind = "DATA"
      \/ s2c' = <<>> /\ spc' = "data_more" /\ Head(c2s).kind = "DATA"
      \/ s2c' = <<>> /\ spc' = "enq"
  <2>1. CASE BadFrame(Head(c2s), "DATA", "data_more")
    BY <1>2, <2>1, BadFrames
  <2> QED
    BY <1>2, <2>1, Lines DEF RecvData, Answers
<1>5. CASE cpc = "enq_ack"
  <2>1. Head(c2s).kind # "DATA"
    BY <1>2, <1>5, ByteIs, Lines DEF One
  <2> QED
    BY <1>0, <1>1, <1>2, <1>3, <1>4, <1>5, <2>1 DEF Table, EnqAck, Behind
<1>6. CASE cpc = "data_ack"
  <2>1. Head(c2s).msg = req
    BY <1>2, <1>6, Lines DEF Part
  <2> QED
    BY <1>0, <1>1, <1>2, <1>3, <1>4, <1>6, <2>1 DEF Table, WaitAck, One
<1> QED
  BY <1>2, <1>5, <1>6

\* The byte that was missing ends the frame.
LEMMA RecvOneMoreKeeps ==
    ASSUME TypeOK, Counts, Table, RecvOneMore
    PROVE  Counts' /\ Table'
<1>0. /\ spc \in {"hdr_more", "data_more"} /\ c2s # <<>> /\ c2s' = Tail(c2s) /\ spc' = "enq"
      /\ cpc' = cpc /\ executed' = executed /\ req' = req
  BY DEF RecvOneMore, Reads, client
<1>1. Counts' /\ (Fresh' <=> Fresh)
  BY <1>0, SameRequest
<1>2. cpc = "enq_ack" /\ Fresh /\ s2c = <<>> /\ c2s \in One({"ENQ", "junk"})
  BY <1>0, Places DEF Table, Idle, EnqAck, HdrAck, WaitAck, RcvEnq, RcvPart, RcvMore, Replying
<1>3. c2s' = <<>>
  BY <1>0, <1>2, Lines DEF One
<1>4. s2c' \in {<<>>, <<Byte("NAK")>>}
  BY <1>2, <1>0, Lines DEF RecvOneMore, Answers
<1> QED
  BY <1>0, <1>1, <1>2, <1>3, <1>4 DEF Table, EnqAck, Behind

\* The request that is executed is the one at hand, and fresh.
LEMMA HandleKeeps ==
    ASSUME TypeInv, Counts, Table, HandleRequest
    PROVE  Counts' /\ Table'
<1>0. /\ spc = "handle" /\ executed' = [executed EXCEPT ![sreq] = @ + 1] /\ executed \in [Request -> Nat]
      /\ c2s' = c2s /\ cpc' = cpc /\ req' = req /\ sreq \in Request /\ (cpc # "idle" => req \in Request)
      /\ TypeOK
  BY DEF HandleRequest, client, TypeInv, TypeOK
<1>1. CASE sreq \in NoReply
  <2>1. /\ spc' = "enq" /\ s2c' = s2c /\ \A m \in Request \ NoReply : executed'[m] = executed[m]
        /\ \/ cpc = "idle" /\ s2c = <<>> /\ c2s = <<>>
           \/ cpc = "enq_ack" /\ Fresh /\ s2c = <<>> /\ c2s \in {<<>>} \cup One({"ENQ", "junk"})
           \/ cpc = "data_ack" /\ Fresh /\ req \in NoReply /\ c2s = <<>> /\ s2c \in {<<>>} \cup One({"ACK"})
    BY <1>0, <1>1, Places DEF HandleRequest, Table, Idle, EnqAck, HdrAck, WaitAck, RcvEnq, RcvPart,
       RcvMore, Replying
  <2>2. Counts'
    BY <1>0, <2>1 DEF Counts
  <2>3. cpc # "idle" => Fresh'
    BY <1>0, <2>1 DEF Fresh
  <2> QED
    BY <1>0, <2>1, <2>2, <2>3 DEF Table, Idle, EnqAck, WaitAck, Behind, One
<1>2. CASE sreq \notin NoReply
  <2>1. /\ spc' = "tx_enq" /\ s2c' = s2c \o <<Byte("ENQ")>> /\ sreq = req /\ req \notin NoReply /\ executed[req] = 0
        /\ c2s = <<>>
        /\ \/ cpc = "data_ack" /\ s2c \in {<<>>} \cup One({"ACK"})
           \/ cpc = "rcv_enq" /\ s2c = <<>>
    BY <1>0, <1>2, Places DEF HandleRequest, Answers, Table, Idle, EnqAck, HdrAck, WaitAck, RcvEnq,
       RcvPart, RcvMore, Replying, Behind, Fresh
  <2>2. Counts' /\ Done'
    BY <1>0, <2>1, Requests DEF Counts, Done
  <2>3. \/ cpc = "data_ack" /\ s2c' \in {<<Byte("ENQ")>>, <<Byte("ACK"), Byte("ENQ")>>}
        \/ cpc = "rcv_enq" /\ s2c' = <<Byte("ENQ")>>
    <3>1. CASE s2c = <<>>
      BY <2>1, <3>1, Lines
    <3>2. CASE s2c = <<Byte("ACK")>>
      BY <2>1, <3>2, Lines
    <3> QED
      BY <2>1, <3>1, <3>2 DEF One
  <2> QED
    BY <1>0, <2>1, <2>2, <2>3 DEF Table, WaitAck, RcvEnq, One
<1> QED
  BY <1>1, <1>2

\* send_frame goes on or ends.
LEMMA SendFrameKeeps ==
    ASSUME TypeInv, Counts, Table, SendFrame
    PROVE  Counts' /\ Table'
<1>0. /\ spc \in {"tx_enq", "tx_hdr", "tx_data"} /\ c2s # <<>> /\ c2s' = Tail(c2s)
      /\ cpc' = cpc /\ executed' = executed /\ req' = req /\ sreq' = sreq /\ sreq \in Request /\ TypeOK
  BY DEF SendFrame, Reads, client, TypeInv
<1>1. Counts' /\ (Fresh' <=> Fresh) /\ (Done' <=> Done)
  BY <1>0, SameRequest
<1>2. /\ s2c = <<>>
      /\ \/ cpc = "idle" /\ spc \in Replying /\ c2s \in One(Left)
         \/ cpc = "enq_ack" /\ (Done \/ Fresh) /\ c2s \in One({"ENQ", "junk"})
         \/ cpc = "enq_ack" /\ Fresh /\ spc \in Replying /\ c2s \in One(Left)
         \/ cpc = "enq_ack" /\ Fresh /\ spc \in Replying /\ \E x \in Left, y \in {"ENQ", "junk"} : c2s = <<Byte(x), Byte(y)>>
         \/ cpc = "rcv_enq" /\ Done /\ c2s \in One({"NAK", "junk"})
         \/ cpc = "rcv_hdr" /\ Done /\ spc = "tx_enq" /\ c2s \in One({"ACK", "junk"})
         \/ cpc = "rcv_data" /\ Done /\ spc = "tx_hdr" /\ c2s \in One({"ACK", "junk"})
  BY <1>0, Places DEF Table, Idle, EnqAck, HdrAck, WaitAck, RcvEnq, RcvPart, RcvMore
<1>3. \/ s2c' = <<>> /\ spc' = "enq"
      \/ Head(c2s).kind = "ACK" /\ spc = "tx_enq" /\ spc' = "tx_hdr" /\ s2c' = <<Frame("HDR", sreq)>>
      \/ Head(c2s).kind = "ACK" /\ spc = "tx_hdr" /\ spc' = "tx_data" /\ s2c' = <<Frame("DATA", sreq)>>
  BY <1>0, <1>2, Lines DEF SendFrame, Answers
<1>4. CASE \E x \in Left : c2s = <<Byte(x)>> /\ spc \in Replying /\ (cpc = "idle" \/ (cpc = "enq_ack" /\ Fresh))
  <2>1. PICK x \in Left : c2s = <<Byte(x)>> /\ spc \in Replying /\ (cpc = "idle" \/ (cpc = "enq_ack" /\ Fresh))
    BY <1>4
  <2>2. s2c' = <<>> /\ spc' = "enq" /\ c2s' = <<>>
    BY <1>0, <1>3, <2>1, ByteIs, Lines DEF Left, Replying
  <2> QED
    BY <1>0, <1>1, <2>1, <2>2 DEF Table, Idle, EnqAck, Behind
<1>5. CASE cpc = "enq_ack" /\ Fresh /\ spc \in Replying /\ \E x \in Left, y \in {"ENQ", "junk"} : c2s = <<Byte(x), Byte(y)>>
  <2>1. PICK x \in Left, y \in {"ENQ", "junk"} : c2s = <<Byte(x), Byte(y)>>
    BY <1>5
  <2>2. s2c' = <<>> /\ spc' = "enq" /\ c2s' = <<Byte(y)>>
    BY <1>0, <1>3, <1>5, <2>1, ByteIs, Lines DEF Left, Replying
  <2> QED
    BY <1>0, <1>1, <1>5, <2>1, <2>2 DEF Table, EnqAck, Behind, One
<1>6. CASE cpc = "enq_ack" /\ (Done \/ Fresh) /\ c2s \in One({"ENQ", "junk"})
  <2>1. s2c' = <<>> /\ spc' = "enq" /\ c2s' = <<>>
    BY <1>0, <1>3, <1>6, ByteIs, Lines, SMTT(30) DEF One
  <2> QED
    BY <1>0, <1>1, <1>6, <2>1 DEF Table, EnqAck, Behind
<1>7. CASE cpc = "rcv_enq" /\ Done /\ c2s \in One({"NAK", "junk"})
  <2>1. s2c' = <<>> /\ spc' = "enq" /\ c2s' = <<>>
    BY <1>0, <1>3, <1>7, ByteIs, Lines, SMTT(30) DEF One
  <2> QED
    BY <1>0, <1>1, <1>7, <2>1 DEF Table, RcvEnq
<1>8. CASE cpc \in {"rcv_hdr", "rcv_data"} /\ Done /\ c2s \in One({"ACK", "junk"}) /\ spc = IF cpc = "rcv_hdr" THEN "tx_enq" ELSE "tx_hdr"
  <2>1. c2s' = <<>>
    BY <1>0, <1>8, Lines DEF One
  <2>2. CASE s2c' = <<>> /\ spc' = "enq"
    BY <1>0, <1>1, <1>8, <2>1, <2>2 DEF Table, RcvPart
  <2>3. CASE s2c' # <<>>
    <3>1. sreq \in Request => Frame("HDR", sreq) \in Item /\ Frame("DATA", sreq) \in Item
      BY DEF Item, Frame, Quality
    <3> QED
      BY <1>0, <1>1, <1>3, <1>8, <2>1, <2>3, <3>1 DEF Table, RcvPart, Frame
  <2> QED
    BY <1>3, <2>2, <2>3, Lines
<1> QED
  BY <1>2, <1>4, <1>5, <1>6, <1>7, <1>8 DEF One

\* The server gives up waiting.
LEMMA ServerTimeoutKeeps ==
    ASSUME TypeOK, Counts, Table, ServerTimeout
    PROVE  Counts' /\ Table'
<1>0. /\ spc \notin {"enq", "handle"} /\ c2s = <<>> /\ s2c = <<>> /\ c2s' = c2s /\ s2c' = s2c /\ spc' = "enq"
      /\ cpc \notin ShortWait /\ cpc' = cpc /\ executed' = executed /\ req' = req
  BY DEF ServerTimeout, client, line, Table, Idle
<1>1. Counts' /\ (Fresh' <=> Fresh) /\ (Done' <=> Done)
  BY <1>0, SameRequest
<1>2. \/ cpc = "idle"
      \/ cpc = "enq_ack" /\ (Done \/ Fresh)
      \/ cpc \in {"rcv_enq"} \cup ForeverWait /\ Done
  BY <1>0, Places DEF Table, EnqAck, RcvEnq, RcvPart, RcvMore, ShortWait, ForeverWait
<1> QED
  BY <1>0, <1>1, <1>2 DEF Table, Idle, EnqAck, RcvEnq, RcvPart, RcvMore, Behind, ForeverWait

\* Any damage to what SNIOS sends is within the table.
LEMMA ClientLineDamaged ==
    ASSUME TypeOK, Counts, Table, NEW kind, c2s' \in Damaged(c2s, kind),
           s2c' = s2c, cpc' = cpc, spc' = spc, sreq' = sreq, req' = req, executed' = executed
    PROVE  Table'
<1>1. (Fresh' <=> Fresh) /\ (Done' <=> Done) /\ (Behind' <=> Behind) /\ Left' = Left
  BY SameRequest, SameServer
<1>2. c2s # <<>>
  BY DamagedNone
<1>3. ASSUME NEW k \in Control, c2s = <<Byte(k)>> PROVE c2s' = <<>> \/ c2s' = <<Byte("junk")>>
  BY <1>3, DamagedByte
<1>4. ASSUME NEW K \in SUBSET Control, c2s \in One(K) PROVE c2s' = <<>> \/ c2s' = <<Byte("junk")>>
  BY <1>3, <1>4 DEF One
<1>5. Left \subseteq Control /\ "junk" \in Left /\ {"ENQ", "junk"} \subseteq Control /\ {"ACK", "NAK", "junk"} \subseteq Control
  BY DEF Left, Control
<1>6. CASE cpc = "idle"
  <2>1. Idle /\ c2s \in One(Left)
    BY <1>2, <1>6 DEF Table, Idle
  <2> QED
    BY <1>1, <1>4, <1>5, <1>6, <2>1, <1>2 DEF Table, Idle, One
<1>7. CASE cpc = "enq_ack"
  <2>1. \/ Done /\ s2c = <<>> /\ spc = "tx_enq" /\ c2s \in One({"ENQ", "junk"})
        \/ Fresh /\ Behind /\ s2c = <<>> /\ c2s \in One({"ENQ", "junk"})
        \/ Fresh /\ Behind /\ s2c = <<>> /\ spc \in Replying /\ c2s \in One(Left)
        \/ /\ Fresh /\ Behind /\ s2c = <<>> /\ spc \in Replying
           /\ \E x \in Left, y \in {"ENQ", "junk"} : c2s = <<Byte(x), Byte(y)>>
    BY <1>2, <1>7 DEF Table, EnqAck
  <2>2. CASE c2s \in One({"ENQ", "junk"}) \/ c2s \in One(Left)
    <3>1. c2s' = <<>> \/ c2s' = <<Byte("junk")>>
      BY <1>4, <1>5, <2>2
    <3>2. /\ s2c = <<>>
          /\ (Done /\ spc = "tx_enq") \/ (Fresh /\ Behind)
      BY <2>1
    <3> QED
      BY <1>1, <1>7, <3>1, <3>2 DEF Table, EnqAck, One
  <2>3. CASE /\ Fresh /\ Behind /\ s2c = <<>> /\ spc \in Replying
             /\ \E x \in Left, y \in {"ENQ", "junk"} : c2s = <<Byte(x), Byte(y)>>
    <3>1. PICK x \in Left, y \in {"ENQ", "junk"} : c2s = <<Byte(x), Byte(y)>>
      BY <2>3
    <3>2. c2s' \in {<<Byte(x)>>, <<Byte(y)>>, <<Byte("junk"), Byte(y)>>, <<Byte(x), Byte("junk")>>}
      BY <1>5, <3>1, DamagedBytes
    <3> QED
      BY <1>1, <1>5, <1>7, <2>3, <3>2 DEF Table, EnqAck, One
  <2> QED
    BY <2>1, <2>2, <2>3
<1>8. CASE cpc \in ShortWait
  <2>1. PICK k \in {"HDR", "DATA"}, g \in Quality :
          /\ c2s = <<[kind |-> k, msg |-> req, q |-> g]>> /\ Fresh /\ s2c = <<>>
          /\ \/ cpc = "hdr_ack" /\ spc = "hdr" /\ k = "HDR"
             \/ cpc = "data_ack" /\ spc = "data" /\ k = "DATA"
    <3>1. CASE cpc = "hdr_ack"
      BY <1>2, <3>1 DEF Table, HdrAck, Part
    <3>2. CASE cpc = "data_ack"
      BY <1>2, <3>2 DEF Table, WaitAck, Part
    <3> QED
      BY <1>8, <3>1, <3>2 DEF ShortWait
  <2>2. kind \in Quality /\ c2s' = <<[kind |-> k, msg |-> req, q |-> kind]>>
    <3>1. c2s' \in Damaged(<<[kind |-> k, msg |-> req, q |-> g]>>, kind)
      BY <2>1
    <3>2. kind \in {"bad", "short"} /\ c2s' = <<[kind |-> k, msg |-> req, q |-> kind]>>
      BY <3>1, DamagedPart, Zenon
    <3> QED
      BY <3>2 DEF Quality
  <2>3. c2s' \in Part(k)'
    BY <2>2 DEF Part
  <2> QED
    BY <1>1, <2>1, <2>3 DEF Table, HdrAck, WaitAck
<1>9. CASE cpc \in {"rcv_enq", "rcv_hdr", "rcv_data"}
  <2>1. /\ s2c = <<>> /\ Done
        /\ \/ cpc = "rcv_enq" /\ spc \in Replying /\ c2s \in One({"NAK", "junk"})
           \/ cpc = "rcv_hdr" /\ spc = "tx_enq" /\ c2s \in One({"ACK", "junk"})
           \/ cpc = "rcv_data" /\ spc = "tx_hdr" /\ c2s \in One({"ACK", "junk"})
    BY <1>2, <1>9 DEF Table, RcvEnq, RcvPart
  <2>2. c2s' = <<>> \/ c2s' = <<Byte("junk")>>
    BY <1>4, <1>5, <2>1
  <2> QED
    BY <1>1, <2>1, <2>2 DEF Table, RcvEnq, RcvPart, One
<1> QED
  BY <1>2, <1>6, <1>7, <1>8, <1>9, Places DEF Table, RcvMore, ShortWait

\* So is damage to what the server sends, if no ACK becomes junk.
LEMMA ServerLineDamaged ==
    ASSUME TypeOK, Counts, Table, NEW kind, kind # "garble", s2c' \in Damaged(s2c, kind),
           c2s' = c2s, cpc' = cpc, spc' = spc, sreq' = sreq, req' = req, executed' = executed
    PROVE  Table'
<1>1. (Fresh' <=> Fresh) /\ (Done' <=> Done) /\ (Behind' <=> Behind)
  BY SameRequest, SameServer
<1>2. s2c # <<>>
  BY DamagedNone
<1>3. ASSUME NEW k \in Control, s2c = <<Byte(k)>> PROVE s2c' = <<>>
  BY <1>3, DamagedByte
<1>4. CASE cpc = "enq_ack"
  <2>1. /\ Fresh /\ c2s = <<>> /\ spc \in {"hdr", "enq"}
        /\ s2c = <<Byte("ACK")>> \/ s2c = <<Byte("NAK")>>
    BY <1>2, <1>4 DEF Table, EnqAck
  <2> QED
    BY <1>1, <1>3, <1>4, <2>1 DEF Table, EnqAck, Behind, Control
<1>5. CASE cpc = "hdr_ack"
  <2>1. /\ Fresh /\ c2s = <<>> /\ spc \in {"data", "enq"}
        /\ s2c = <<Byte("ACK")>> \/ s2c = <<Byte("NAK")>>
    BY <1>2, <1>5 DEF Table, HdrAck, One
  <2> QED
    BY <1>1, <1>3, <1>5, <2>1 DEF Table, HdrAck, Control
<1>6. CASE cpc = "data_ack"
  <2>1. /\ c2s = <<>>
        /\ \/ Fresh /\ spc = "enq" /\ s2c = <<Byte("NAK")>>
           \/ Fresh /\ spc = "handle" /\ sreq = req /\ s2c = <<Byte("ACK")>>
           \/ req \in NoReply /\ spc = "enq" /\ s2c = <<Byte("ACK")>>
           \/ Done /\ spc = "tx_enq" /\ s2c \in {<<Byte("ACK"), Byte("ENQ")>>, <<Byte("ACK")>>, <<Byte("ENQ")>>}
    BY <1>2, <1>6 DEF Table, WaitAck, One
  <2>2. CASE Done /\ spc = "tx_enq" /\ s2c = <<Byte("ACK"), Byte("ENQ")>>
    <3>1. s2c' = <<Byte("ACK")>> \/ s2c' = <<Byte("ENQ")>>
      BY <2>2, DamagedBytes DEF Control
    <3> QED
      BY <1>1, <1>6, <2>1, <2>2, <3>1 DEF Table, WaitAck, One
  <2>3. CASE s2c \in {<<Byte("ACK")>>, <<Byte("ENQ")>>, <<Byte("NAK")>>}
    <3>1. s2c' = <<>>
      BY <1>3, <2>3 DEF Control
    <3>2. req \in NoReply => Fresh
      BY DEF Fresh
    <3> QED
      BY <1>1, <1>6, <2>1, <2>3, <3>1, <3>2 DEF Table, WaitAck
  <2> QED
    BY <2>1, <2>2, <2>3
<1>7. CASE cpc = "rcv_enq"
  <2>1. Done /\ spc = "tx_enq" /\ c2s = <<>> /\ s2c = <<Byte("ENQ")>>
    BY <1>2, <1>7 DEF Table, RcvEnq, One
  <2> QED
    BY <1>1, <1>3, <1>7, <2>1 DEF Table, RcvEnq, Control
<1>8. CASE cpc \in {"rcv_hdr", "rcv_data"}
  <2>1. PICK i \in Item :
          /\ s2c = <<i>> /\ Done /\ c2s = <<>>
          /\ \/ cpc = "rcv_hdr" /\ spc = "tx_hdr" /\ i.kind = "HDR"
             \/ cpc = "rcv_data" /\ spc = "tx_data" /\ i.kind = "DATA"
    BY <1>2, <1>8 DEF Table, RcvPart
  <2>2. i = [kind |-> i.kind, msg |-> i.msg, q |-> i.q] /\ i.msg \in Request /\ i.q \in Quality /\ i.kind \in {"HDR", "DATA"}
    BY <2>1 DEF Item, Control
  <2>3. kind \in Quality /\ s2c' = <<[kind |-> i.kind, msg |-> i.msg, q |-> kind]>>
    <3>1. s2c' \in Damaged(<<[kind |-> i.kind, msg |-> i.msg, q |-> i.q]>>, kind)
      BY <2>1, <2>2
    <3>2. kind \in {"bad", "short"} /\ s2c' = <<[kind |-> i.kind, msg |-> i.msg, q |-> kind]>>
      BY <2>2, <3>1, DamagedPart, ZenonT(30)
    <3> QED
      BY <3>2 DEF Quality
  <2>4. [kind |-> i.kind, msg |-> i.msg, q |-> kind] \in Item
    BY <2>2, <2>3 DEF Item
  <2> QED
    BY <1>1, <2>1, <2>3, <2>4 DEF Table, RcvPart
<1> QED
  BY <1>2, <1>4, <1>5, <1>6, <1>7, <1>8, Places DEF Table, Idle, RcvMore

\* A fault other than a garbled ACK keeps the table.
LEMMA FaultKeeps ==
    ASSUME TypeOK, Counts, Table, Fault, "doubt" \notin effects'
    PROVE  Counts' /\ Table'
<1>1. PICK kind \in FaultKind :
          \/ c2s' \in Damaged(c2s, kind) /\ s2c' = s2c /\ Happens("c2s", kind)
          \/ s2c' \in Damaged(s2c, kind) /\ c2s' = c2s /\ Happens("s2c", kind)
  BY DEF Fault
<1>2. /\ cpc' = cpc /\ spc' = spc /\ sreq' = sreq /\ req' = req /\ executed' = executed
  BY DEF Fault, client, server
<1>3. Counts'
  BY <1>2, SameRequest
<1>4. Happens("s2c", kind) => kind # "garble"
  BY DEF Happens, Effect
<1> QED
  BY <1>1, <1>2, <1>3, <1>4, ClientLineDamaged, ServerLineDamaged

\* The effects of faults are never forgotten.
LEMMA EffectsGrow == [Next]_vars => effects \subseteq effects'
<1> SUFFICES ASSUME [Next]_vars PROVE effects \subseteq effects'
  OBVIOUS
<1>1. CASE Ndos
  BY <1>1 DEF Ndos, SNDMSG, NTWKIN, NTWKST, noise
<1>2. CASE Snios
  BY <1>2 DEF Snios, ENQRSP, HeaderAck, Acked, DataAck, EnqTimeout, AckTimeout, Happens, RCVFST,
              RcvTimeout, RcvHeader, RcvData, noise
<1>3. CASE Server
  BY <1>3 DEF Server, RecvEnq, RecvHeader, RecvData, RecvOneMore, HandleRequest, SendFrame,
              ServerTimeout, noise
<1>4. CASE Fault
  BY <1>4 DEF Fault, Happens
<1>5. CASE UNCHANGED vars
  BY <1>5 DEF vars, noise
<1> QED
  BY <1>1, <1>2, <1>3, <1>4, <1>5 DEF Next

\* The table is inductive: one step per action.
LEMMA TableStep == TypeInv /\ Inv /\ [Next]_vars => Inv'
<1> SUFFICES ASSUME TypeInv, Inv, [Next]_vars, "doubt" \notin effects' PROVE Counts' /\ Table'
  BY DEF Inv
<1>0. TypeOK /\ Counts /\ Table
  BY EffectsGrow DEF Inv, TypeInv
<1>1. CASE Ndos
  BY <1>0, <1>1, SndmsgKeeps, NtwkinKeeps, NtwkstKeeps DEF Ndos
<1>2. CASE Snios
  BY <1>0, <1>2, EnqrspKeeps, HeaderAckKeeps, DataAckKeeps, EnqTimeoutKeeps, AckTimeoutKeeps,
     RcvfstKeeps, RcvTimeoutKeeps, RcvHeaderKeeps, RcvDataKeeps DEF Snios
<1>3. CASE Server
  BY <1>0, <1>3, RecvEnqKeeps, RecvHeaderKeeps, RecvDataKeeps, RecvOneMoreKeeps, HandleKeeps,
     SendFrameKeeps, ServerTimeoutKeeps DEF Server
<1>4. CASE Fault
  BY <1>0, <1>4, FaultKeeps
<1>5. CASE UNCHANGED vars
  BY <1>0, <1>5 DEF vars, line, client, server, noise, Counts, Table, Idle, EnqAck, HdrAck, WaitAck,
     RcvEnq, RcvPart, RcvMore, Part, Fresh, Done, Behind, Left
<1> QED
  BY <1>1, <1>2, <1>3, <1>4, <1>5 DEF Next

\* It holds at the start.
LEMMA TableInit == Init => Inv
<1> SUFFICES ASSUME Init PROVE Counts /\ Table
  BY DEF Inv
<1>1. Counts
  BY DEF Init, Counts
<1> QED
  BY <1>1 DEF Init, Table, Idle, Behind

\* Whatever SNIOS sends again and whatever the line does to it, server.py executes
\* no request twice, as long as no ACK of the server is garbled or late.
THEOREM OnceOnly == Spec => []AtMostOnce
<1>1. Init => TypeInv /\ Inv
  BY TypeInit, TableInit
<1>2. TypeInv /\ Inv /\ [Next]_vars => (TypeInv /\ Inv)'
  BY TypeStep, TableStep
<1>3. Inv => AtMostOnce
  BY DEF Inv, Counts, AtMostOnce
<1> QED
  BY <1>1, <1>2, <1>3, PTL DEF Spec

-----------------------------------------------------------------------------
(***************************************************************************)
(* What each place of SNIOS leaves open when nothing but requests is spoiled:*)
(* no wait ends in a timeout, and each attempt that is spent answers a fault.*)
(***************************************************************************)

\* The attempts that are left and the faults so far make MAXRETRY and n more.
Tries(n) == RETCNT + faults >= MAXRETRY + n

\* The server waits for ENQ, or is about to.
Rest == spc = "enq" \/ (spc = "handle" /\ sreq \in NoReply)

\* What the line carries each way.
Only(l, m) == c2s = l /\ s2c = m

\* Where SNIOS is, each with what the line carries and where the server is.
CleanIdle ==
    \/ Rest /\ Only(<<>>, <<>>)
    \/ spc = "tx_data" /\ Only(<<Byte("ACK")>>, <<>>)

CleanEnqAck ==
    /\ Tries(0)
    /\ \/ Rest /\ Only(<<Byte("ENQ")>>, <<>>)
       \/ spc = "tx_data" /\ Only(<<Byte("ACK"), Byte("ENQ")>>, <<>>)
       \/ spc = "hdr" /\ Only(<<>>, <<Byte("ACK")>>)

CleanPart(part, before) ==
    \/ Tries(0) /\ spc = before /\ Only(<<Frame(part, req)>>, <<>>)
    \/ Tries(1) /\ spc = before /\ Only(<<[Frame(part, req) EXCEPT !.q = "bad"]>>, <<>>)
    \/ Tries(1) /\ spc = "enq" /\ Only(<<>>, <<Byte("NAK")>>)

CleanHdrAck ==
    \/ CleanPart("HDR", "hdr")
    \/ Tries(0) /\ spc = "data" /\ Only(<<>>, <<Byte("ACK")>>)

CleanDataAck ==
    \/ CleanPart("DATA", "data")
    \/ Tries(0) /\ spc = "handle" /\ sreq = req /\ Only(<<>>, <<Byte("ACK")>>)
    \/ Tries(0) /\ spc = "enq" /\ req \in NoReply /\ Only(<<>>, <<Byte("ACK")>>)
    \/ Tries(0) /\ spc = "tx_enq" /\ req \notin NoReply /\ Only(<<>>, <<Byte("ACK"), Byte("ENQ")>>)

CleanRcvEnq ==
    \/ spc = "handle" /\ sreq = req /\ req \notin NoReply /\ Only(<<>>, <<>>)
    \/ spc = "tx_enq" /\ Only(<<>>, <<Byte("ENQ")>>)

CleanRcv(part, before, after) ==
    \/ spc = before /\ Only(<<Byte("ACK")>>, <<>>)
    \/ spc = after /\ Only(<<>>, <<Frame(part, sreq)>>)

CleanTable ==
    /\ cpc = "idle" => CleanIdle
    /\ cpc = "enq_ack" => CleanEnqAck
    /\ cpc = "hdr_ack" => CleanHdrAck
    /\ cpc = "data_ack" => CleanDataAck
    /\ cpc = "rcv_enq" => CleanRcvEnq
    /\ cpc = "rcv_hdr" => CleanRcv("HDR", "tx_enq", "tx_hdr")
    /\ cpc = "rcv_data" => CleanRcv("DATA", "tx_hdr", "tx_data")
    /\ cpc \notin {"rcv_hdr_more", "rcv_data_more"}

\* An error is the work of MAXRETRY faults.
CleanErr == result = "err" => faults >= MAXRETRY

Clean == effects \subseteq {"spoiled"} => CleanTable /\ CleanErr

\* A NAK that was owed to a spoiled part is the only cause of another attempt.
LEMMA CleanRetry ==
    ASSUME TypeInv, CleanErr, Retry, Tries(1), cpc # "idle", faults' = faults, c2s = <<>>, s2c' = <<>>, spc = "enq", spc' = spc
    PROVE  CleanTable' /\ CleanErr'
<1>1. RETCNT \in Nat /\ RETCNT' = RETCNT - 1 /\ RETCNT >= 1 /\ faults \in Nat /\ MAXRETRY \in Nat
  BY LinkAssumption DEF TypeInv, TypeOK, Retry
<1>2. CASE RETCNT' # 0
  <2>1. cpc' = "enq_ack" /\ c2s' = <<Byte("ENQ")>> /\ result' = result
    BY <1>2, Lines DEF Retry, AnotherTry, Sends
  <2>2. Tries(0)'
    BY <1>1 DEF Tries
  <2> QED
    BY <2>1, <2>2 DEF CleanTable, CleanEnqAck, CleanErr, Rest, Only
<1>3. CASE RETCNT' = 0
  <2>1. cpc' = "idle" /\ c2s' = <<>>
    BY <1>3 DEF Retry, AnotherTry, Fail
  <2>2. faults >= MAXRETRY
    BY <1>1, <1>3 DEF Tries
  <2> QED
    BY <2>1, <2>2 DEF CleanTable, CleanIdle, CleanErr, Rest, Only
<1> QED
  BY <1>2, <1>3

\* SNDMSG starts with MAXRETRY attempts.
LEMMA CleanSndmsg ==
    ASSUME TypeInv, CleanTable, SNDMSG
    PROVE  CleanTable' /\ CleanErr'
<1>1. /\ cpc' = "enq_ack" /\ c2s' = c2s \o <<Byte("ENQ")>> /\ s2c' = s2c /\ spc' = spc /\ sreq' = sreq
      /\ result' = "none" /\ RETCNT' = MAXRETRY /\ faults' = faults /\ CleanIdle
  BY DEF SNDMSG, Sends, server, noise, CleanTable
<1>2. Tries(0)'
  BY <1>1, LinkAssumption DEF Tries, TypeInv, TypeOK
<1>3. CASE Rest /\ Only(<<>>, <<>>)
  BY <1>1, <1>2, <1>3, Lines DEF CleanTable, CleanEnqAck, CleanErr, Rest, Only
<1>4. CASE spc = "tx_data" /\ Only(<<Byte("ACK")>>, <<>>)
  BY <1>1, <1>2, <1>4, Lines DEF CleanTable, CleanEnqAck, CleanErr, Only
<1> QED
  BY <1>1, <1>3, <1>4 DEF CleanIdle

\* An ACK moves SNDMSG on, and a NAK costs an attempt that a fault pays for.
LEMMA CleanSend ==
    ASSUME TypeInv, CleanTable, CleanErr, ENQRSP \/ HeaderAck \/ DataAck
    PROVE  CleanTable' /\ CleanErr'
<1>0. s2c # <<>> /\ s2c' = Tail(s2c) /\ spc' = spc /\ sreq' = sreq /\ req' = req /\ faults' = faults
  BY DEF ENQRSP, HeaderAck, DataAck, Acked, Takes, server, noise, Retry, Fail
<1>1. CASE ENQRSP
  <2>1. Tries(0) /\ spc = "hdr" /\ Only(<<>>, <<Byte("ACK")>>)
    BY <1>0, <1>1 DEF ENQRSP, CleanTable, CleanEnqAck, Only
  <2>2. cpc' = "hdr_ack" /\ c2s' = <<Frame("HDR", req)>> /\ s2c' = <<>> /\ RETCNT' = RETCNT /\ result' = result
    BY <1>0, <1>1, <2>1, ByteIs, Lines DEF ENQRSP, Acked, Sends, Only
  <2> QED
    BY <1>0, <2>1, <2>2 DEF CleanTable, CleanHdrAck, CleanPart, Tries, Only, CleanErr, Frame
<1>2. CASE HeaderAck
  <2>1. CASE Tries(0) /\ spc = "data" /\ Only(<<>>, <<Byte("ACK")>>)
    <3>1. cpc' = "data_ack" /\ c2s' = <<Frame("DATA", req)>> /\ s2c' = <<>> /\ RETCNT' = RETCNT /\ result' = result
      BY <1>0, <1>2, <2>1, ByteIs, Lines DEF HeaderAck, Acked, Sends, Only
    <3> QED
      BY <1>0, <2>1, <3>1 DEF CleanTable, CleanDataAck, CleanPart, Tries, Only, CleanErr, Frame
  <2>2. CASE Tries(1) /\ spc = "enq" /\ Only(<<>>, <<Byte("NAK")>>)
    <3>1. Retry /\ s2c' = <<>> /\ c2s = <<>> /\ cpc # "idle"
      BY <1>0, <1>2, <2>2, ByteIs, Lines DEF HeaderAck, Acked, Only
    <3> QED
      BY <1>0, <2>2, <3>1, CleanRetry
  <2> QED
    BY <1>0, <1>2, <2>1, <2>2 DEF HeaderAck, CleanTable, CleanHdrAck, CleanPart, Only
<1>3. CASE DataAck
  <2>1. CASE Tries(1) /\ spc = "enq" /\ Only(<<>>, <<Byte("NAK")>>)
    <3>1. Retry /\ s2c' = <<>> /\ c2s = <<>> /\ cpc # "idle"
      BY <1>0, <1>3, <2>1, ByteIs, Lines DEF DataAck, Only
    <3> QED
      BY <1>0, <2>1, <3>1, CleanRetry
  <2>2. CASE c2s = <<>> /\ s2c \in {<<Byte("ACK")>>, <<Byte("ACK"), Byte("ENQ")>>}
    <3>1. /\ cpc' = (IF req \in NoReply THEN "idle" ELSE "rcv_enq") /\ result' # "err" /\ c2s' = <<>>
          /\ s2c' = IF s2c = <<Byte("ACK")>> THEN <<>> ELSE <<Byte("ENQ")>>
      <4>1. Head(s2c) = Byte("ACK") /\ s2c' = IF s2c = <<Byte("ACK")>> THEN <<>> ELSE <<Byte("ENQ")>>
        <5>1. CASE s2c = <<Byte("ACK")>>
          BY <1>0, <5>1, Lines
        <5>2. CASE s2c = <<Byte("ACK"), Byte("ENQ")>>
          BY <1>0, <5>2, Lines
        <5> QED
          BY <2>2, <5>1, <5>2
      <4> QED
        BY <1>3, <2>2, <4>1, ByteIs DEF DataAck
    <3>2. \/ spc = "handle" /\ sreq = req /\ s2c = <<Byte("ACK")>>
          \/ spc = "enq" /\ req \in NoReply /\ s2c = <<Byte("ACK")>>
          \/ spc = "tx_enq" /\ req \notin NoReply /\ s2c = <<Byte("ACK"), Byte("ENQ")>>
      BY <1>0, <1>3, <2>2, ByteIs, Lines DEF DataAck, CleanTable, CleanDataAck, CleanPart, Only
    <3> QED
      BY <1>0, <3>1, <3>2, Lines DEF CleanTable, CleanIdle, CleanRcvEnq, Rest, Only, CleanErr
  <2> QED
    BY <1>0, <1>3, <2>1, <2>2 DEF DataAck, CleanTable, CleanDataAck, CleanPart, Only
<1> QED
  BY <1>1, <1>2, <1>3

\* No timeout comes: somebody always has something to do before.
LEMMA CleanPrompt ==
    ASSUME TypeOK, CleanTable, "doubt" \notin effects', EnqTimeout \/ RcvTimeout \/ AckTimeout \/ ServerTimeout PROVE FALSE
<1>1. CASE EnqTimeout
  BY <1>1 DEF EnqTimeout, Quiet, CleanTable, CleanEnqAck, Only
<1>2. CASE RcvTimeout
  BY <1>2 DEF RcvTimeout, Quiet, CleanTable, CleanRcvEnq, Only
<1>3. CASE AckTimeout
  <2>1. cpc \in ShortWait /\ s2c = <<>> /\ c2s = <<>> /\ spc # "handle"
    BY <1>3 DEF AckTimeout, Happens, Effect, ServerWillAnswer
  <2> QED
    BY <2>1 DEF ShortWait, CleanTable, CleanHdrAck, CleanDataAck, CleanPart, Only
<1>4. CASE ServerTimeout
  <2>1. cpc \notin ShortWait /\ s2c = <<>> /\ c2s = <<>> /\ spc \notin {"enq", "handle"}
    BY <1>4 DEF ServerTimeout, CleanTable, CleanIdle, Only
  <2> QED
    BY <2>1, Places DEF ShortWait, CleanTable, CleanIdle, CleanEnqAck, CleanRcvEnq, CleanRcv, Rest,
       Only
<1> QED
  BY <1>1, <1>2, <1>3, <1>4

\* RCVMSG takes what the server sends.
LEMMA CleanReceive ==
    ASSUME CleanTable, CleanErr, RCVFST \/ RcvHeader \/ RcvData
    PROVE  CleanTable' /\ CleanErr'
<1>0. s2c # <<>> /\ s2c' = Tail(s2c) /\ spc' = spc /\ sreq' = sreq /\ req' = req /\ faults' = faults
  BY DEF RCVFST, RcvHeader, RcvData, Takes, server, noise
<1>1. CASE RCVFST
  <2>1. spc = "tx_enq" /\ Only(<<>>, <<Byte("ENQ")>>)
    BY <1>0, <1>1 DEF RCVFST, CleanTable, CleanRcvEnq, Only
  <2>2. cpc' = "rcv_hdr" /\ c2s' = <<Byte("ACK")>> /\ s2c' = <<>> /\ result' = result
    BY <1>0, <1>1, <2>1, ByteIs, Lines DEF RCVFST, Sends, Only
  <2> QED
    BY <1>0, <2>1, <2>2 DEF CleanTable, CleanRcv, CleanErr, Only
<1>2. ASSUME NEW k, NEW w, NEW m PROVE ~BadPart(Frame(k, m), k, w) /\ Frame(k, m).kind = k
  BY DEF BadPart, Frame
<1>3. CASE RcvHeader
  <2>1. spc = "tx_hdr" /\ Only(<<>>, <<Frame("HDR", sreq)>>)
    BY <1>0, <1>3 DEF RcvHeader, CleanTable, CleanRcv, Only
  <2>2. Head(s2c) = Frame("HDR", sreq) /\ s2c' = <<>> /\ c2s = <<>>
    BY <1>0, <2>1, Lines DEF Only
  <2>3. cpc' = "rcv_data" /\ c2s' = <<Byte("ACK")>> /\ result' = result
    BY <1>2, <1>3, <2>2, Lines DEF RcvHeader, Sends
  <2> QED
    BY <1>0, <2>1, <2>2, <2>3 DEF CleanTable, CleanRcv, CleanErr, Only
<1>4. CASE RcvData
  <2>1. spc = "tx_data" /\ Only(<<>>, <<Frame("DATA", sreq)>>)
    BY <1>0, <1>4 DEF RcvData, CleanTable, CleanRcv, Only
  <2>2. Head(s2c) = Frame("DATA", sreq) /\ s2c' = <<>> /\ c2s = <<>>
    BY <1>0, <2>1, Lines DEF Only
  <2>3. cpc' = "idle" /\ c2s' = <<Byte("ACK")>> /\ result' = "ok"
    BY <1>2, <1>4, <2>2, Lines DEF RcvData, Sends
  <2> QED
    BY <1>0, <2>1, <2>2, <2>3 DEF CleanTable, CleanIdle, CleanErr, Only
<1> QED
  BY <1>1, <1>3, <1>4

\* NTWKIN finds nothing to drain, NTWKST touches nothing of this.
LEMMA CleanNdos ==
    ASSUME CleanTable, CleanErr, NTWKIN \/ NTWKST
    PROVE  CleanTable' /\ CleanErr'
<1>1. cpc = "idle" /\ cpc' = cpc /\ c2s' = c2s /\ spc' = spc /\ sreq' = sreq /\ faults' = faults /\ result' = result
  BY DEF NTWKIN, NTWKST, server, noise, line
<1>2. s2c = <<>> /\ CleanIdle
  BY <1>1 DEF CleanTable, CleanIdle, Only
<1>3. s2c' = <<>>
  BY <1>2 DEF NTWKIN, NTWKST, line
<1> QED
  BY <1>1, <1>2, <1>3 DEF CleanTable, CleanIdle, CleanErr, Rest, Only

\* recv_frame takes what SNDMSG sends, and answers a spoiled part with NAK.
LEMMA CleanRecv ==
    ASSUME TypeOK, CleanTable, CleanErr, RecvEnq \/ RecvHeader \/ RecvData \/ RecvOneMore
    PROVE  CleanTable' /\ CleanErr'
<1>0. /\ c2s # <<>> /\ c2s' = Tail(c2s) /\ cpc' = cpc /\ req' = req /\ RETCNT' = RETCNT /\ result' = result
      /\ executed' = executed /\ faults' = faults
  BY DEF RecvEnq, RecvHeader, RecvData, RecvOneMore, Reads, client, noise
<1>1. CleanErr'
  BY <1>0 DEF CleanErr
<1>2. CASE RecvEnq
  <2>1. cpc = "enq_ack" /\ Tries(0) /\ Only(<<Byte("ENQ")>>, <<>>)
    BY <1>0, <1>2, Places DEF RecvEnq, CleanTable, CleanIdle, CleanEnqAck, CleanHdrAck,
       CleanDataAck, CleanPart, CleanRcvEnq, CleanRcv, Only
  <2>2. spc' = "hdr" /\ c2s' = <<>> /\ s2c' = <<Byte("ACK")>>
    BY <1>0, <1>2, <2>1, ByteIs, Lines DEF RecvEnq, Answers, Only
  <2> QED
    BY <1>0, <1>1, <2>1, <2>2 DEF CleanTable, CleanEnqAck, Tries, Only
<1>4. CASE RecvHeader
  <2>1. cpc = "hdr_ack" /\ CleanPart("HDR", "hdr")
    BY <1>0, <1>4, Places DEF RecvHeader, CleanTable, CleanIdle, CleanEnqAck, CleanHdrAck,
       CleanDataAck, CleanPart, CleanRcvEnq, CleanRcv, Only, Rest
  <2>2. CASE Tries(0) /\ Only(<<Frame("HDR", req)>>, <<>>)
    <3>1. spc' = "data" /\ c2s' = <<>> /\ s2c' = <<Byte("ACK")>>
      <4>1. Head(c2s) = Frame("HDR", req) /\ c2s' = <<>> /\ s2c = <<>>
        BY <1>0, <2>2, Lines DEF Only
      <4> QED
        <5>1. \/ Head(c2s).q = "good" /\ Answers(<<Byte("ACK")>>) /\ spc' = "data"
              \/ BadFrame(Head(c2s), "HDR", "hdr_more")
          BY <1>4 DEF RecvHeader
        <5>2. ~BadFrame(Head(c2s), "HDR", "hdr_more") /\ Head(c2s).msg = req
          BY <4>1 DEF BadFrame, Frame
        <5> QED
          BY <4>1, <5>1, <5>2, Lines DEF Answers
    <3> QED
      BY <1>0, <1>1, <2>1, <2>2, <3>1 DEF CleanTable, CleanHdrAck, Tries, Only
  <2>3. CASE Tries(1) /\ Only(<<[Frame("HDR", req) EXCEPT !.q = "bad"]>>, <<>>)
    <3>1. spc' = "enq" /\ c2s' = <<>> /\ s2c' = <<Byte("NAK")>>
      <4>1. Head(c2s) = [Frame("HDR", req) EXCEPT !.q = "bad"] /\ c2s' = <<>> /\ s2c = <<>>
        BY <1>0, <2>3, Lines DEF Only
      <4> QED
        <5>1. \/ Head(c2s).q = "good"
              \/ BadFrame(Head(c2s), "HDR", "hdr_more")
          BY <1>4 DEF RecvHeader
        <5>2. Head(c2s).q = "bad" /\ (BadFrame(Head(c2s), "HDR", "hdr_more") => Answers(<<Byte("NAK")>>) /\ spc' = "enq")
          BY <4>1 DEF BadFrame, Frame
        <5> QED
          BY <4>1, <5>1, <5>2, Lines DEF Answers
    <3> QED
      BY <1>0, <1>1, <2>1, <2>3, <3>1 DEF CleanTable, CleanHdrAck, CleanPart, Tries, Only
  <2> QED
    BY <1>0, <1>4, <2>1, <2>2, <2>3 DEF RecvHeader, CleanPart, Only
<1>5. CASE RecvData
  <2>1. cpc = "data_ack" /\ CleanPart("DATA", "data")
    BY <1>0, <1>5, Places DEF RecvData, CleanTable, CleanIdle, CleanEnqAck, CleanHdrAck,
       CleanDataAck, CleanPart, CleanRcvEnq, CleanRcv, Only, Rest
  <2>2. CASE Tries(0) /\ Only(<<Frame("DATA", req)>>, <<>>)
    <3>1. spc' = "handle" /\ sreq' = req /\ c2s' = <<>> /\ s2c' = <<Byte("ACK")>>
      <4>1. Head(c2s) = Frame("DATA", req) /\ c2s' = <<>> /\ s2c = <<>>
        BY <1>0, <2>2, Lines DEF Only
      <4> QED
        <5>1. \/ Head(c2s).q = "good" /\ Answers(<<Byte("ACK")>>) /\ spc' = "handle" /\ sreq' = Head(c2s).msg
              \/ BadFrame(Head(c2s), "DATA", "data_more")
          BY <1>5 DEF RecvData
        <5>2. ~BadFrame(Head(c2s), "DATA", "data_more") /\ Head(c2s).msg = req
          BY <4>1 DEF BadFrame, Frame
        <5> QED
          BY <4>1, <5>1, <5>2, Lines DEF Answers
    <3> QED
      BY <1>0, <1>1, <2>1, <2>2, <3>1 DEF CleanTable, CleanDataAck, Tries, Only
  <2>3. CASE Tries(1) /\ Only(<<[Frame("DATA", req) EXCEPT !.q = "bad"]>>, <<>>)
    <3>1. spc' = "enq" /\ c2s' = <<>> /\ s2c' = <<Byte("NAK")>>
      <4>1. Head(c2s) = [Frame("DATA", req) EXCEPT !.q = "bad"] /\ c2s' = <<>> /\ s2c = <<>>
        BY <1>0, <2>3, Lines DEF Only
      <4> QED
        <5>1. \/ Head(c2s).q = "good"
              \/ BadFrame(Head(c2s), "DATA", "data_more")
          BY <1>5 DEF RecvData
        <5>2. Head(c2s).q = "bad" /\ (BadFrame(Head(c2s), "DATA", "data_more") => Answers(<<Byte("NAK")>>) /\ spc' = "enq")
          BY <4>1 DEF BadFrame, Frame
        <5> QED
          BY <4>1, <5>1, <5>2, Lines DEF Answers
    <3> QED
      BY <1>0, <1>1, <2>1, <2>3, <3>1 DEF CleanTable, CleanDataAck, CleanPart, Tries, Only
  <2> QED
    BY <1>0, <1>5, <2>1, <2>2, <2>3 DEF RecvData, CleanPart, Only
<1>6. CASE RecvOneMore
  BY <1>0, <1>6, Places DEF RecvOneMore, CleanTable, CleanIdle, CleanEnqAck, CleanHdrAck,
     CleanDataAck, CleanPart, CleanRcvEnq, CleanRcv, Only, Rest
<1> QED
  BY <1>2, <1>4, <1>5, <1>6

\* The server executes and answers.
LEMMA CleanAnswer ==
    ASSUME TypeOK, CleanTable, CleanErr, HandleRequest \/ SendFrame
    PROVE  CleanTable' /\ CleanErr'
<1>0. /\ cpc' = cpc /\ req' = req /\ RETCNT' = RETCNT /\ result' = result /\ sreq' = sreq /\ faults' = faults
  BY DEF HandleRequest, SendFrame, Reads, client, noise
<1>1. CleanErr'
  BY <1>0 DEF CleanErr
<1>2. CASE HandleRequest
  <2>1. c2s' = c2s /\ spc = "handle"
    BY <1>2 DEF HandleRequest
  <2>2. CASE sreq \in NoReply
    <3>1. spc' = "enq" /\ s2c' = s2c
      BY <1>2, <2>2 DEF HandleRequest
    <3>2. \/ cpc = "idle" /\ Only(<<>>, <<>>)
          \/ cpc = "enq_ack" /\ Tries(0) /\ Only(<<Byte("ENQ")>>, <<>>)
          \/ cpc = "data_ack" /\ Tries(0) /\ req \in NoReply /\ Only(<<>>, <<Byte("ACK")>>)
      BY <2>1, <2>2, Places DEF CleanTable, CleanIdle, CleanEnqAck, CleanHdrAck, CleanDataAck,
         CleanPart, CleanRcvEnq, CleanRcv
    <3> QED
      BY <1>0, <1>1, <2>1, <3>1, <3>2 DEF CleanTable, CleanIdle, CleanEnqAck, CleanDataAck, Rest,
         Only, Tries
  <2>3. CASE sreq \notin NoReply
    <3>1. spc' = "tx_enq" /\ s2c' = s2c \o <<Byte("ENQ")>>
      BY <1>2, <2>3 DEF HandleRequest, Answers
    <3>2. \/ cpc = "data_ack" /\ Tries(0) /\ req \notin NoReply /\ Only(<<>>, <<Byte("ACK")>>)
          \/ cpc = "rcv_enq" /\ Only(<<>>, <<>>)
      BY <2>1, <2>3, Places DEF CleanTable, CleanIdle, CleanEnqAck, CleanHdrAck, CleanDataAck,
         CleanPart, CleanRcvEnq, CleanRcv, Rest
    <3>3. CASE cpc = "data_ack" /\ Tries(0) /\ req \notin NoReply /\ Only(<<>>, <<Byte("ACK")>>)
      BY <1>0, <1>1, <2>1, <3>1, <3>3, Lines DEF CleanTable, CleanDataAck, Only, Tries
    <3>4. CASE cpc = "rcv_enq" /\ Only(<<>>, <<>>)
      BY <1>0, <1>1, <2>1, <3>1, <3>4, Lines DEF CleanTable, CleanRcvEnq, Only
    <3> QED
      BY <3>2, <3>3, <3>4
  <2> QED
    BY <2>2, <2>3
<1>3. CASE SendFrame
  <2>0. c2s # <<>> /\ c2s' = Tail(c2s) /\ spc \in {"tx_enq", "tx_hdr", "tx_data"}
    BY <1>3 DEF SendFrame, Reads
  <2>1. \/ cpc = "idle" /\ spc = "tx_data" /\ Only(<<Byte("ACK")>>, <<>>)
        \/ cpc = "enq_ack" /\ Tries(0) /\ spc = "tx_data" /\ Only(<<Byte("ACK"), Byte("ENQ")>>, <<>>)
        \/ cpc = "rcv_hdr" /\ spc = "tx_enq" /\ Only(<<Byte("ACK")>>, <<>>)
        \/ cpc = "rcv_data" /\ spc = "tx_hdr" /\ Only(<<Byte("ACK")>>, <<>>)
    BY <2>0, Places DEF CleanTable, CleanIdle, CleanEnqAck, CleanHdrAck, CleanDataAck, CleanPart,
       CleanRcvEnq, CleanRcv, Rest, Only
  <2>2. Head(c2s).kind = "ACK" /\ s2c = <<>>
    BY <2>1, ByteIs, Lines DEF Only
  <2>3. CASE spc = "tx_data"
    <3>1. spc' = "enq" /\ s2c' = <<>> /\ c2s' = IF cpc = "idle" THEN <<>> ELSE <<Byte("ENQ")>>
      <4>1. c2s' = IF cpc = "idle" THEN <<>> ELSE <<Byte("ENQ")>>
        <5>1. CASE cpc = "idle" /\ c2s = <<Byte("ACK")>>
          BY <2>0, <5>1, Lines
        <5>2. CASE cpc = "enq_ack" /\ c2s = <<Byte("ACK"), Byte("ENQ")>>
          BY <2>0, <5>2, Lines
        <5> QED
          BY <2>1, <2>3, <5>1, <5>2 DEF Only
      <4> QED
        BY <1>3, <2>2, <2>3, <4>1 DEF SendFrame
    <3> QED
      BY <1>0, <1>1, <2>1, <2>3, <3>1 DEF CleanTable, CleanIdle, CleanEnqAck, Rest, Only, Tries
  <2>4. CASE spc # "tx_data"
    <3>1. /\ c2s' = <<>>
          /\ \/ spc = "tx_enq" /\ spc' = "tx_hdr" /\ s2c' = <<Frame("HDR", sreq)>>
             \/ spc = "tx_hdr" /\ spc' = "tx_data" /\ s2c' = <<Frame("DATA", sreq)>>
      BY <1>3, <2>0, <2>1, <2>2, <2>4, Lines DEF SendFrame, Answers, Only
    <3> QED
      BY <1>0, <1>1, <2>1, <2>4, <3>1 DEF CleanTable, CleanRcv, Only, Frame
  <2> QED
    BY <2>3, <2>4
<1> QED
  BY <1>2, <1>3

\* A fault spoils a part of the request, and pays for one attempt.
LEMMA CleanFault ==
    ASSUME TypeInv, CleanTable, CleanErr, Fault, effects' \subseteq {"spoiled"}
    PROVE  CleanTable' /\ CleanErr'
<1>0. PICK kind \in FaultKind :
          \/ c2s' \in Damaged(c2s, kind) /\ s2c' = s2c /\ Happens("c2s", kind)
          \/ s2c' \in Damaged(s2c, kind) /\ c2s' = c2s /\ Happens("s2c", kind)
  BY DEF Fault
<1>1. /\ kind = "bad" /\ c2s' \in Damaged(c2s, kind) /\ s2c' = s2c /\ faults' = faults + 1 /\ faults \in Nat
      /\ RETCNT \in Nat /\ MAXRETRY \in Nat
  <2>1. Effect("c2s", kind) = "spoiled" => kind = "bad"
    BY DEF Effect
  <2>2. Effect("s2c", kind) # "spoiled"
    BY DEF Effect
  <2> QED
    <3>1. faults \in Nat /\ RETCNT \in Nat /\ MAXRETRY \in Nat
      BY LinkAssumption DEF TypeInv, TypeOK
    <3>2. ASSUME NEW on, Happens(on, kind) PROVE Effect(on, kind) = "spoiled" /\ faults' = faults + 1
      BY <3>2 DEF Happens
    <3> QED
      BY <1>0, <2>1, <2>2, <3>1, <3>2
<1>2. cpc' = cpc /\ req' = req /\ RETCNT' = RETCNT /\ result' = result /\ sreq' = sreq /\ spc' = spc
  BY DEF Fault, client, server
<1>3. CleanErr'
  BY <1>1, <1>2 DEF CleanErr
<1>4. Tries(0) => Tries(1)'
  BY <1>1, <1>2 DEF Tries
<1>5. ASSUME NEW l \in {<<>>, <<Byte("ACK")>>, <<Byte("ENQ")>>, <<Byte("ACK"), Byte("ENQ")>>}, c2s = l PROVE FALSE
  <2>1. c2s = <<>> \/ c2s = <<Byte("ACK")>> \/ c2s = <<Byte("ENQ")>> \/ c2s = <<Byte("ACK"), Byte("ENQ")>>
    BY <1>5
  <2>2. "ACK" \in Control /\ "ENQ" \in Control /\ kind \notin {"lose", "garble"}
    BY <1>1 DEF Control
  <2> QED
    BY <1>1, <2>1, <2>2, DamagedNone, DamagedByte, DamagedBytes
<1>6. PICK k \in {"HDR", "DATA"} :
        /\ \/ cpc = "hdr_ack" /\ k = "HDR" /\ spc = "hdr"
           \/ cpc = "data_ack" /\ k = "DATA" /\ spc = "data"
        /\ s2c = <<>>
        /\ \/ Tries(0) /\ c2s = <<Frame(k, req)>>
           \/ Tries(1) /\ c2s = <<[Frame(k, req) EXCEPT !.q = "bad"]>>
  <2>1. CASE cpc = "hdr_ack"
    BY <1>5, <2>1 DEF CleanTable, CleanHdrAck, CleanPart, Only
  <2>2. CASE cpc = "data_ack"
    BY <1>5, <2>2 DEF CleanTable, CleanDataAck, CleanPart, Only
  <2> QED
    BY <1>5, <2>1, <2>2, Places DEF TypeInv, CleanTable, CleanIdle, CleanEnqAck, CleanRcvEnq,
       CleanRcv, Only
<1>7. Tries(0)
  BY <1>1, <1>6 DEF Tries
<1>8. c2s' = <<[Frame(k, req) EXCEPT !.q = "bad"]>>
  <2>1. PICK g \in {"good", "bad"} : c2s = <<[kind |-> k, msg |-> req, q |-> g]>>
    BY <1>6 DEF Frame
  <2>2. c2s' \in Damaged(<<[kind |-> k, msg |-> req, q |-> g]>>, kind) /\ g \in Quality
    BY <1>1, <2>1 DEF Quality
  <2>3. c2s' = <<[kind |-> k, msg |-> req, q |-> kind]>>
    BY <2>2, DamagedPart, Zenon
  <2> QED
    BY <1>1, <2>3 DEF Frame
<1>9. Tries(1)' /\ s2c' = <<>> /\ Frame(k, req)' = Frame(k, req)
  BY <1>1, <1>2, <1>4, <1>6, <1>7 DEF Frame
<1> QED
  BY <1>2, <1>3, <1>6, <1>8, <1>9 DEF CleanTable, CleanHdrAck, CleanDataAck, CleanPart, Only, Frame

\* The table of the clean line is inductive: one step per action.
LEMMA CleanStep == TypeInv /\ Clean /\ [Next]_vars => Clean'
<1> SUFFICES ASSUME TypeInv, Clean, [Next]_vars, effects' \subseteq {"spoiled"} PROVE CleanTable' /\ CleanErr'
  BY DEF Clean
<1>0. TypeOK /\ CleanTable /\ CleanErr /\ "doubt" \notin effects'
  BY EffectsGrow DEF Clean, TypeInv
<1>1. CASE Ndos
  BY <1>0, <1>1, CleanSndmsg, CleanNdos DEF Ndos
<1>2. CASE Snios
  BY <1>0, <1>2, CleanSend, CleanPrompt, CleanReceive DEF Snios
<1>3. CASE Server
  BY <1>0, <1>3, CleanRecv, CleanAnswer, CleanPrompt DEF Server
<1>4. CASE Fault
  BY <1>0, <1>4, CleanFault
<1>5. CASE UNCHANGED vars
  BY <1>0, <1>5 DEF vars, line, client, server, noise, CleanTable, CleanErr, CleanIdle, CleanEnqAck,
     CleanHdrAck, CleanDataAck, CleanPart, CleanRcvEnq, CleanRcv, Rest, Only, Tries
<1> QED
  BY <1>1, <1>2, <1>3, <1>4, <1>5 DEF Next

\* SNDMSG and RCVMSG make at most MAXRETRY attempts, and fewer than MAXRETRY requests
\* with a wrong checksum are repaired: NDOS sees no error.
THEOREM RetriesSuffice == Spec => []RetriesEnough
<1>1. Init => TypeInv /\ Clean
  <2>1. Init => CleanTable /\ CleanErr
    BY DEF Init, CleanTable, CleanErr, CleanIdle, Rest, Only
  <2> QED
    BY <2>1, TypeInit DEF Clean
<1>2. TypeInv /\ Clean /\ [Next]_vars => (TypeInv /\ Clean)'
  BY TypeStep, CleanStep
<1>3. TypeInv /\ Clean => RetriesEnough
  <2>1. TypeInv => faults \in Nat /\ MAXRETRY \in Nat /\ TypeOK
    BY LinkAssumption DEF TypeInv, TypeOK
  <2> QED
    BY <2>1 DEF Clean, CleanErr, RetriesEnough, RetryRecovers
<1> QED
  BY <1>1, <1>2, <1>3, PTL DEF Spec

-----------------------------------------------------------------------------
(* Records of a file *)

\* A record holds bytes.
LEMMA RecSizes == RecSize \in Nat /\ RecSize > 0
BY RecSizeAssumption

\* The offset of the next record.
LEMMA Offsets ==
  ASSUME NEW rec \in Nat
  PROVE  rec * RecSize \in Nat /\ (rec + 1) * RecSize = rec * RecSize + RecSize
BY RecSizes

\* What a write at a record leaves.
LEMMA WriteAtIs ==
  ASSUME NEW c \in Seq(Nat), NEW rec \in Nat, NEW s \in Sectors
  PROVE  LET w == WriteAt(c, rec, s)
             off == rec * RecSize
         IN  /\ w \in Seq(Nat)
             /\ Len(w) = IF Len(c) >= off + RecSize THEN Len(c) ELSE off + RecSize
             /\ \A i \in 1 .. Len(w) :
                   w[i] = IF i > off /\ i <= off + RecSize THEN s[i - off]
                          ELSE IF i <= Len(c) THEN c[i] ELSE 0
<1> DEFINE off == rec * RecSize
           n == IF Len(c) >= off + RecSize THEN Len(c) ELSE off + RecSize
           w == WriteAt(c, rec, s)
           x(i) == IF i > off /\ i <= off + RecSize THEN s[i - off]
                   ELSE IF i <= Len(c) THEN c[i] ELSE 0
<1>1. off \in Nat /\ Len(c) \in Nat /\ off + RecSize \in Nat BY RecSizes
<1>2. s \in Seq(Nat) /\ Len(s) = RecSize BY ServerAssumption
<1> HIDE DEF off
<1>3. Max({Len(c), off + RecSize}) = n BY <1>1, MaxOfTwo
<1>4. n \in Nat BY <1>1
<1>5. w = [i \in 1 .. n |-> x(i)]
   <2>1. w = [i \in 1 .. n |-> IF i \in off + 1 .. off + RecSize THEN s[i - off]
                               ELSE IF i <= Len(c) THEN c[i] ELSE 0]
      BY <1>3 DEF WriteAt, off
   <2>2. ASSUME NEW i \in 1 .. n PROVE i \in off + 1 .. off + RecSize <=> i > off /\ i <= off + RecSize
      BY <1>1, <1>4, RecSizes
   <2> HIDE DEF n, w
   <2> QED BY <2>1, <2>2
<1>6. ASSUME NEW i \in 1 .. n PROVE x(i) \in Nat
   <2>1. CASE i > off /\ i <= off + RecSize
      <3>1. i - off \in 1 .. RecSize BY <2>1, <1>1, <1>4, RecSizes
      <3> QED BY <3>1, <2>1, <1>2
   <2>2. CASE ~(i > off /\ i <= off + RecSize)
      <3>1. i <= Len(c) => i \in 1 .. Len(c) BY <1>1, <1>4
      <3> QED BY <3>1, <2>2
   <2> QED BY <2>1, <2>2
<1>7. w \in Seq(Nat) /\ Len(w) = n /\ \A i \in 1 .. n : w[i] = x(i)
   <2> HIDE DEF x, n, w
   <2> QED BY <1>4, <1>5, <1>6
<1> QED BY <1>7 DEF off

\* What filling up with zeros leaves.
LEMMA ZeroFillIs ==
  ASSUME NEW c \in Seq(Nat), NEW rec \in Nat
  PROVE  LET z == ZeroFill(c, rec)
             off == rec * RecSize
         IN  /\ z \in Seq(Nat)
             /\ Len(z) = IF Len(c) >= off THEN Len(c) ELSE off
             /\ \A i \in 1 .. Len(z) : z[i] = IF i <= Len(c) THEN c[i] ELSE 0
<1> DEFINE off == rec * RecSize
           z == ZeroFill(c, rec)
           g == [i \in 1 .. off - Len(c) |-> 0]
<1>1. off \in Nat /\ Len(c) \in Nat BY RecSizes
<1>2. z = IF off > Len(c) THEN c \o g ELSE c BY DEF ZeroFill
<1> HIDE DEF off, z
<1>3. CASE off > Len(c)
   <2>1. g \in Seq(Nat) /\ Len(g) = off - Len(c) /\ \A i \in 1 .. off - Len(c) : g[i] = 0
      <3>1. off - Len(c) \in Nat BY <1>1, <1>3
      <3> QED BY <3>1
   <2> HIDE DEF g
   <2>2. z \in Seq(Nat) /\ Len(z) = off BY <1>1, <1>2, <1>3, <2>1
   <2>3. ASSUME NEW i \in 1 .. off PROVE z[i] = IF i <= Len(c) THEN c[i] ELSE 0
      <3>1. i - Len(c) \in 1 .. off - Len(c) \/ i <= Len(c) BY <1>1
      <3> QED BY <1>1, <1>2, <1>3, <2>1, <3>1
   <2> QED BY <2>2, <2>3, <1>1, <1>3 DEF off, z
<1>4. CASE ~(off > Len(c))
   BY <1>1, <1>2, <1>4 DEF off, z
<1> QED BY <1>3, <1>4

\* A write after filling up leaves the same file.
LEMMA ZeroFillSame ==
  ASSUME NEW c \in Seq(Nat), NEW rec \in Nat, NEW s \in Sectors
  PROVE  WriteAt(ZeroFill(c, rec), rec, s) = WriteAt(c, rec, s)
<1> DEFINE off == rec * RecSize
           z == ZeroFill(c, rec)
           v == WriteAt(z, rec, s)
           w == WriteAt(c, rec, s)
<1>1. off \in Nat /\ Len(c) \in Nat BY RecSizes
<1>2. /\ z \in Seq(Nat)
      /\ Len(z) = IF Len(c) >= off THEN Len(c) ELSE off
      /\ \A i \in 1 .. Len(z) : z[i] = IF i <= Len(c) THEN c[i] ELSE 0
   BY ZeroFillIs
<1> HIDE DEF z
<1>3. /\ v \in Seq(Nat)
      /\ Len(v) = IF Len(z) >= off + RecSize THEN Len(z) ELSE off + RecSize
      /\ \A i \in 1 .. Len(v) : v[i] = IF i > off /\ i <= off + RecSize THEN s[i - off]
                                      ELSE IF i <= Len(z) THEN z[i] ELSE 0
   BY <1>2, WriteAtIs
<1>4. /\ w \in Seq(Nat)
      /\ Len(w) = IF Len(c) >= off + RecSize THEN Len(c) ELSE off + RecSize
      /\ \A i \in 1 .. Len(w) : w[i] = IF i > off /\ i <= off + RecSize THEN s[i - off]
                                      ELSE IF i <= Len(c) THEN c[i] ELSE 0
   BY WriteAtIs
<1> HIDE DEF v, w, off
<1>5. Len(v) = Len(w) BY <1>1, <1>2, <1>3, <1>4, RecSizes
<1>6. ASSUME NEW i \in 1 .. Len(v) PROVE v[i] = w[i]
   <2>1. i \in 1 .. Len(w) /\ i \in Nat /\ i >= 1 /\ Len(z) \in Nat BY <1>2, <1>3, <1>5
   <2>2. Len(z) >= Len(c) BY <1>1, <1>2
   <2>3. (IF i <= Len(z) THEN z[i] ELSE 0) = (IF i <= Len(c) THEN c[i] ELSE 0)
      BY <2>1, <2>2, <1>1, <1>2
   <2> QED BY <2>1, <2>3, <1>3, <1>4
<1>7. v = w BY <1>3, <1>4, <1>5, <1>6, SeqEqual
<1> QED BY <1>7 DEF v, w, z
\* A record that the file holds as a whole ends before the end of the file.
LEMMA WholeRecord ==
  ASSUME NEW c \in Seq(Nat), NEW q \in 0 .. Records(c) - 1,
         q # Records(c) - 1 \/ Len(c) % RecSize = 0
  PROVE  (q + 1) * RecSize <= Len(c)
<1>1. Len(c) \in Nat /\ RecSize \in Nat \ {0} BY RecSizes
<1>2. PICK a \in Nat, k \in 0 .. RecSize - 1 : Len(c) = a * RecSize + k
   BY <1>1, Divided
<1>3. Len(c) % RecSize = k BY <1>1, <1>2, DivMod
<1>4. q + 1 <= a
   <2>1. CASE k = 0
      <3>1. RecSize - 1 \in 0 .. RecSize - 1 BY <1>1
      <3>2. (a * RecSize + (RecSize - 1)) \div RecSize = a BY <1>1, <3>1, DivMod
      <3>3. Len(c) + RecSize - 1 = a * RecSize + (RecSize - 1) BY <1>1, <1>2, <2>1
      <3>4. Records(c) = a BY <3>2, <3>3 DEF Records
      <3> QED BY <3>4
   <2>2. CASE k > 0
      <3>1. k - 1 \in 0 .. RecSize - 1 /\ a + 1 \in Nat BY <1>1, <2>2
      <3> DEFINE m == a + 1
                 l == k - 1
      <3>2. (m * RecSize + l) \div RecSize = m
         <4> HIDE DEF m, l
         <4> QED BY <1>1, <3>1, DivMod DEF m, l
      <3>3. Len(c) + RecSize - 1 = m * RecSize + l BY <1>1, <1>2, Offsets
      <3>4. Records(c) = m BY <3>2, <3>3 DEF Records
      <3> QED BY <3>4, <1>3, <2>2
   <2> QED BY <2>1, <2>2
<1>5. q + 1 \in Nat /\ q + 1 >= 0 OBVIOUS
<1> DEFINE r == q + 1
<1>6. r * RecSize <= a * RecSize
   <2> HIDE DEF r
   <2> QED BY <1>1, <1>4, <1>5, Mult DEF r
<1> QED BY <1>1, <1>2, <1>6

\* A write at one record leaves the other whole records as they are read.
LEMMA ReadElsewhere ==
  ASSUME NEW c \in Seq(Nat), NEW rec \in Nat, NEW s \in Sectors, NEW q \in Nat, q # rec,
         (q + 1) * RecSize <= Len(c)
  PROVE  ReadAt(WriteAt(c, rec, s), q) = ReadAt(c, q)
<1> DEFINE off == rec * RecSize
           w == WriteAt(c, rec, s)
           lo == q * RecSize
           hi == (q + 1) * RecSize
<1>1. off \in Nat /\ lo \in Nat /\ hi = lo + RecSize /\ hi <= Len(c) /\ Len(c) \in Nat
   BY RecSizes, Offsets
<1>2. /\ w \in Seq(Nat)
      /\ Len(w) = IF Len(c) >= off + RecSize THEN Len(c) ELSE off + RecSize
      /\ \A i \in 1 .. Len(w) : w[i] = IF i > off /\ i <= off + RecSize THEN s[i - off]
                                      ELSE IF i <= Len(c) THEN c[i] ELSE 0
   BY WriteAtIs
<1>3. hi <= off \/ off + RecSize <= lo
   <2>1. CASE q < rec
      <3> DEFINE r == q + 1
      <3>1. r * RecSize <= rec * RecSize
         <4>1. r \in Nat /\ r <= rec BY <2>1
         <4> HIDE DEF r
         <4> QED BY <4>1, RecSizes, Mult
      <3> QED BY <3>1
   <2>2. CASE rec < q
      <3> DEFINE r == rec + 1
      <3>1. r * RecSize <= q * RecSize
         <4>1. r \in Nat /\ r <= q BY <2>2
         <4> HIDE DEF r
         <4> QED BY <4>1, RecSizes, Mult
      <3> QED BY <3>1, Offsets
   <2> QED BY <2>1, <2>2
<1> HIDE DEF off, w, lo, hi
<1>4. Len(w) \in Nat /\ Len(w) >= Len(c) BY <1>1, <1>2, RecSizes
<1>5. Min({Len(c), hi}) = hi /\ Min({Len(w), hi}) = hi
   BY <1>1, <1>4, RecSizes, MinOfTwo
<1>6. SubSeq(w, lo + 1, hi) = SubSeq(c, lo + 1, hi)
   <2>1. ASSUME NEW i \in lo + 1 .. hi PROVE w[i] = c[i]
      <3>1. i \in 1 .. Len(w) /\ i <= Len(c) /\ i > lo /\ i <= hi BY <1>1, <1>4, RecSizes
      <3>2. ~(i > off /\ i <= off + RecSize) BY <3>1, <1>1, <1>3, RecSizes
      <3> QED BY <3>1, <3>2, <1>2
   <2> QED BY <2>1, <1>1, <1>2, <1>4, RecSizes
<1>7. ReadAt(c, q) = ReadAt(w, q) BY <1>5, <1>6 DEF ReadAt, lo, hi
<1> QED BY <1>7 DEF w

-----------------------------------------------------------------------------
(* Names *)

\* The characters of names.
Chars == STRING \cup {"A", "B"}

\* Characters without their attribute bit.
LEMMA PlainChar == ASSUME NEW c \in Chars PROVE Plain(c) \in Chars
BY DEF Plain, Chars

\* Characters in upper case.
LEMMA UpperChar == ASSUME NEW c \in Chars PROVE Upper(c) \in Chars
BY DEF Upper, Chars

\* A host name is not the empty sequence, which stands for no entry.
LEMMA Named == ASSUME NEW h \in Seq(Chars) \X Seq(Chars) PROVE h # <<>>
<1>1. DOMAIN h = 1 .. 2 OBVIOUS
<1>2. DOMAIN <<>> = 1 .. 0 OBVIOUS
<1>3. 1 \in 1 .. 2 /\ 1 \notin 1 .. 0 OBVIOUS
<1> QED BY <1>1, <1>2, <1>3, Zenon

\* rstrip.
LEMMA StripIs ==
  ASSUME NEW a \in Seq(Chars)
  PROVE  /\ RStrip(a) \in Seq(Chars) /\ Len(RStrip(a)) <= Len(a)
         /\ \A i \in 1 .. Len(RStrip(a)) : RStrip(a)[i] = a[i]
         /\ \A i \in Len(RStrip(a)) + 1 .. Len(a) : a[i] = Blank
<1> DEFINE S == {0} \cup {i \in DOMAIN a : a[i] # Blank}
           k == Max(S)
<1>1. Len(a) \in Nat /\ S \in SUBSET (0 .. Len(a)) /\ S # {} OBVIOUS
<1>2. k \in S /\ \A i \in S : i <= k
   <2> HIDE DEF S
   <2> QED BY <1>1, MaxExists
<1>3. k \in 0 .. Len(a) BY <1>1, <1>2
<1>4. \A i \in k + 1 .. Len(a) : a[i] = Blank BY <1>2, <1>3
<1>5. RStrip(a) = SubSeq(a, 1, k) BY DEF RStrip
<1> HIDE DEF k
<1>6. /\ SubSeq(a, 1, k) \in Seq(Chars) /\ Len(SubSeq(a, 1, k)) = k
      /\ \A i \in 1 .. k : SubSeq(a, 1, k)[i] = a[i]
   BY <1>1, <1>3
<1> QED BY <1>3, <1>4, <1>5, <1>6

\* The characters of a field, each converted.
LEMMA MapIs ==
  ASSUME NEW s \in Seq(Chars)
  PROVE  /\ Map(Plain, s) \in Seq(Chars) /\ Len(Map(Plain, s)) = Len(s)
         /\ \A i \in 1 .. Len(s) : Map(Plain, s)[i] = Plain(s[i])
         /\ Map(Upper, s) \in Seq(Chars) /\ Len(Map(Upper, s)) = Len(s)
<1>1. Len(s) \in Nat /\ DOMAIN s = 1 .. Len(s) OBVIOUS
<1>2. ASSUME NEW i \in 1 .. Len(s) PROVE Plain(s[i]) \in Chars /\ Upper(s[i]) \in Chars
   BY PlainChar, UpperChar
<1>3. Map(Plain, s) = [i \in 1 .. Len(s) |-> Plain(s[i])] BY <1>1 DEF Map
<1>4. Map(Upper, s) = [i \in 1 .. Len(s) |-> Upper(s[i])] BY <1>1 DEF Map
<1> QED BY <1>1, <1>2, <1>3, <1>4


\* A field's pattern, stripped, is compared character by character too.
LEMMA FieldMatches ==
  ASSUME NEW n \in Nat, NEW a \in Seq(Chars), Len(a) = n, NEW s \in Seq(Chars), Len(s) <= n,
         \A i \in 1 .. n : a[i] \in {"?", Pad(s, n)[i]}
  PROVE  MatchPattern(RStrip(a), s)
<1> DEFINE p == RStrip(a)
           m == Max({Len(p), Len(s)})
<1>1. /\ p \in Seq(Chars) /\ Len(p) <= Len(a)
      /\ \A i \in 1 .. Len(p) : p[i] = a[i]
      /\ \A i \in Len(p) + 1 .. Len(a) : a[i] = Blank
   BY StripIs
<1> HIDE DEF p
<1>2. Len(p) \in Nat /\ Len(s) \in Nat BY <1>1
<1>3. m = IF Len(p) >= Len(s) THEN Len(p) ELSE Len(s) BY <1>2, MaxOfTwo
<1>4. m \in Nat /\ m <= n BY <1>1, <1>2, <1>3
<1> HIDE DEF m
<1>5. ASSUME NEW i \in 1 .. m PROVE Pad(p, m)[i] \in {"?", Pad(s, m)[i]}
   <2>1. i \in 1 .. n /\ i \in Nat BY <1>4
   <2>2. Pad(p, m)[i] = IF i <= Len(p) THEN p[i] ELSE Blank BY DEF Pad
   <2>3. Pad(s, m)[i] = IF i <= Len(s) THEN s[i] ELSE Blank BY DEF Pad
   <2>4. Pad(s, n)[i] = IF i <= Len(s) THEN s[i] ELSE Blank BY <2>1 DEF Pad
   <2>5. Pad(p, m)[i] = a[i]
      <3>1. CASE i <= Len(p) BY <3>1, <2>1, <2>2, <1>1, <1>2
      <3>2. CASE ~(i <= Len(p))
         <4>1. i \in Len(p) + 1 .. Len(a) BY <3>2, <2>1, <1>2
         <4> QED BY <4>1, <3>2, <2>2, <1>1
      <3> QED BY <3>1, <3>2
   <2>6. a[i] \in {"?", Pad(s, n)[i]} BY <2>1
   <2> HIDE DEF Pad
   <2> QED BY <2>3, <2>4, <2>5, <2>6
<1> QED BY <1>5 DEF MatchPattern, m, p

\* The lengths of the fields.
LEMMA NameLens == NameLen \in Nat /\ ExtLen \in Nat
BY ServerAssumption

\* Sequences of characters.
LEMMA SeqChars ==
  ASSUME NEW s \in Seq(STRING)
  PROVE  s \in Seq(Chars)
<1>1. DOMAIN s = 1 .. Len(s) /\ Len(s) \in Nat /\ \A i \in 1 .. Len(s) : s[i] \in STRING
   OBVIOUS
<1> QED BY <1>1 DEF Chars

\* Names and patterns of an FCB.
LEMMA FcbNamesAre ==
  ASSUME NEW n \in FcbNames \cup Patterns
  PROVE  n \in Seq(Chars) /\ Len(n) = NameLen + ExtLen
<1>1. n \in Seq(STRING) /\ Len(n) = NameLen + ExtLen BY ServerAssumption
<1> QED BY <1>1, SeqChars

\* The two fields of a name.
LEMMA Fields ==
  ASSUME NEW n \in Seq(Chars), Len(n) = NameLen + ExtLen
  PROVE  LET p == Map(Plain, n)
             a == SubSeq(p, 1, NameLen)
             b == SubSeq(p, NameLen + 1, NameLen + ExtLen)
         IN  /\ a \in Seq(Chars) /\ Len(a) = NameLen
             /\ b \in Seq(Chars) /\ Len(b) = ExtLen
             /\ \A i \in 1 .. NameLen : a[i] = Plain(n[i])
             /\ \A i \in 1 .. ExtLen : b[i] = Plain(n[NameLen + i])
             /\ Split(n) = <<RStrip(a), RStrip(b)>>
<1> DEFINE p == Map(Plain, n)
           a == SubSeq(p, 1, NameLen)
           b == SubSeq(p, NameLen + 1, NameLen + ExtLen)
<1>1. /\ p \in Seq(Chars) /\ Len(p) = NameLen + ExtLen
      /\ \A i \in 1 .. NameLen + ExtLen : p[i] = Plain(n[i])
   BY MapIs
<1>2. Split(n) = <<RStrip(a), RStrip(b)>> BY DEF Split
<1> HIDE DEF p
<1>3. a \in Seq(Chars) /\ Len(a) = NameLen /\ \A i \in 1 .. NameLen : a[i] = p[i]
   BY <1>1, NameLens
<1>4. b \in Seq(Chars) /\ Len(b) = ExtLen /\ \A i \in 1 .. ExtLen : b[i] = p[NameLen + i]
   BY <1>1, NameLens
<1> HIDE DEF a, b
<1>5. ASSUME NEW i \in 1 .. NameLen PROVE a[i] = Plain(n[i])
   <2>1. i \in 1 .. NameLen + ExtLen BY NameLens
   <2> QED BY <2>1, <1>1, <1>3
<1>6. ASSUME NEW i \in 1 .. ExtLen PROVE b[i] = Plain(n[NameLen + i])
   <2>1. NameLen + i \in 1 .. NameLen + ExtLen BY NameLens
   <2> QED BY <2>1, <1>1, <1>4
<1> QED BY <1>2, <1>3, <1>4, <1>5, <1>6 DEF a, b, p

\* What a program names is a host name.
LEMMA Paths ==
  ASSUME NEW n \in FcbNames
  PROVE  PathOf(n) \in Seq(Chars) \X Seq(Chars)
<1> DEFINE p == Map(Plain, n)
           a == SubSeq(p, 1, NameLen)
           b == SubSeq(p, NameLen + 1, NameLen + ExtLen)
<1>1. a \in Seq(Chars) /\ b \in Seq(Chars) /\ Split(n) = <<RStrip(a), RStrip(b)>>
   BY Fields, FcbNamesAre
<1> HIDE DEF a, b
<1> QED BY <1>1, StripIs DEF PathOf

\* The fields of a host name in a directory entry.
LEMMA EntryIs ==
  ASSUME NEW h \in Seq(Chars) \X Seq(Chars)
  PROVE  LET f == EntryFields(h)[1]
             g == EntryFields(h)[2]
         IN  /\ f \in Seq(Chars) /\ Len(f) <= NameLen
             /\ g \in Seq(Chars) /\ Len(g) <= ExtLen
             /\ \A i \in 1 .. NameLen : EntryName(h)[i] = Pad(f, NameLen)[i]
             /\ \A i \in 1 .. ExtLen : EntryName(h)[NameLen + i] = Pad(g, ExtLen)[i]
<1> DEFINE u == Map(Upper, h[1])
           v == Map(Upper, h[2])
           j == Min({NameLen, Len(h[1])})
           k == Min({ExtLen, Len(h[2])})
           f == SubSeq(u, 1, j)
           g == SubSeq(v, 1, k)
<1>1. /\ u \in Seq(Chars) /\ Len(u) = Len(h[1])
      /\ v \in Seq(Chars) /\ Len(v) = Len(h[2])
   BY MapIs
<1>2. Len(h[1]) \in Nat /\ Len(h[2]) \in Nat BY <1>1
<1>3. j \in Nat /\ j <= NameLen /\ j <= Len(h[1]) /\ k \in Nat /\ k <= ExtLen /\ k <= Len(h[2])
   <2>1. j \in Nat /\ j <= NameLen /\ j <= Len(h[1]) BY <1>2, NameLens, MinOfTwo
   <2>2. k \in Nat /\ k <= ExtLen /\ k <= Len(h[2]) BY <1>2, NameLens, MinOfTwo
   <2> HIDE DEF j, k
   <2> QED BY <2>1, <2>2
<1>4. EntryFields(h)[1] = f /\ EntryFields(h)[2] = g BY DEF EntryFields
<1> HIDE DEF u, v, j, k
<1>5. f \in Seq(Chars) /\ Len(f) = j /\ g \in Seq(Chars) /\ Len(g) = k
   BY <1>1, <1>2, <1>3
<1> HIDE DEF f, g
<1>6. EntryName(h) = Pad(f, NameLen) \o Pad(g, ExtLen) BY <1>4 DEF EntryName
<1> DEFINE P == Pad(f, NameLen)
           Q == Pad(g, ExtLen)
           X == {Blank} \cup Chars
<1>7. P \in Seq(X) /\ Len(P) = NameLen /\ Q \in Seq(X) /\ Len(Q) = ExtLen
   <2>1. ASSUME NEW i \in 1 .. NameLen PROVE (IF i <= Len(f) THEN f[i] ELSE Blank) \in X
      <3>1. i <= Len(f) => i \in 1 .. Len(f) BY <1>3, <1>5, NameLens
      <3> QED BY <3>1, <1>5
   <2>2. ASSUME NEW i \in 1 .. ExtLen PROVE (IF i <= Len(g) THEN g[i] ELSE Blank) \in X
      <3>1. i <= Len(g) => i \in 1 .. Len(g) BY <1>3, <1>5, NameLens
      <3> QED BY <3>1, <1>5
   <2> HIDE DEF X
   <2>3. P = [i \in 1 .. NameLen |-> IF i <= Len(f) THEN f[i] ELSE Blank] BY DEF Pad
   <2>4. Q = [i \in 1 .. ExtLen |-> IF i <= Len(g) THEN g[i] ELSE Blank] BY DEF Pad
   <2> HIDE DEF P, Q
   <2> QED BY <2>1, <2>2, <2>3, <2>4, NameLens
<1> HIDE DEF P, Q, X
<1>8. /\ \A i \in 1 .. NameLen : (P \o Q)[i] = P[i]
      /\ \A i \in 1 .. ExtLen : (P \o Q)[NameLen + i] = Q[i]
   BY <1>7, NameLens
<1> QED BY <1>3, <1>4, <1>5, <1>6, <1>8 DEF P, Q

\* Every file that CP/M would match passes match_pattern on both fields.
LEMMA CpmMatches ==
  ASSUME NEW pat \in Patterns, NEW h \in Seq(Chars) \X Seq(Chars), CpmMatch(pat, h)
  PROVE  /\ MatchPattern(Split(pat)[1], EntryFields(h)[1])
         /\ MatchPattern(Split(pat)[2], EntryFields(h)[2])
<1> DEFINE p == Map(Plain, pat)
           a == SubSeq(p, 1, NameLen)
           b == SubSeq(p, NameLen + 1, NameLen + ExtLen)
           f == EntryFields(h)[1]
           g == EntryFields(h)[2]
<1>1. /\ a \in Seq(Chars) /\ Len(a) = NameLen
      /\ b \in Seq(Chars) /\ Len(b) = ExtLen
      /\ \A i \in 1 .. NameLen : a[i] = Plain(pat[i])
      /\ \A i \in 1 .. ExtLen : b[i] = Plain(pat[NameLen + i])
      /\ Split(pat) = <<RStrip(a), RStrip(b)>>
   BY Fields, FcbNamesAre
<1>2. /\ f \in Seq(Chars) /\ Len(f) <= NameLen
      /\ g \in Seq(Chars) /\ Len(g) <= ExtLen
      /\ \A i \in 1 .. NameLen : EntryName(h)[i] = Pad(f, NameLen)[i]
      /\ \A i \in 1 .. ExtLen : EntryName(h)[NameLen + i] = Pad(g, ExtLen)[i]
   BY EntryIs
<1> HIDE DEF a, b, f, g
<1>3. ASSUME NEW i \in 1 .. NameLen PROVE a[i] \in {"?", Pad(f, NameLen)[i]}
   <2>1. i \in 1 .. NameLen + ExtLen BY NameLens
   <2> QED BY <2>1, <1>1, <1>2 DEF CpmMatch
<1>4. ASSUME NEW i \in 1 .. ExtLen PROVE b[i] \in {"?", Pad(g, ExtLen)[i]}
   <2>1. NameLen + i \in 1 .. NameLen + ExtLen BY NameLens
   <2> QED BY <2>1, <1>1, <1>2 DEF CpmMatch
<1>5. MatchPattern(RStrip(a), f) BY <1>1, <1>2, <1>3, NameLens, FieldMatches
<1>6. MatchPattern(RStrip(b), g) BY <1>1, <1>2, <1>4, NameLens, FieldMatches
<1> QED BY <1>1, <1>5, <1>6 DEF f, g

-----------------------------------------------------------------------------
(* The inductive invariant *)

HostName == Seq(Chars) \X Seq(Chars)
Dirs == {DriveDir[d] : d \in DOMAIN DriveDir}

\* A directory, and all of them.
DirIs(g) ==
    /\ IsFiniteSet(DOMAIN g)
    /\ \A h \in DOMAIN g : h \in HostName /\ g[h] \in Seq(Nat)
FsIs(f) == Dirs \subseteq DOMAIN f /\ \A d \in DOMAIN f : DirIs(f[d])

FcbIs ==
    /\ fcb \in [dr : FcbDrives, name : FcbNames, ex : 0 .. ByteMax, cr : 0 .. RecPerExt - 1]
    /\ pos \in Nat

AnswerIs == reply \in {0, 1, 6, 255} /\ serving \in {"up", "failed", "stopped", "off"}

\* A search state s and its history sc: a list without repetitions, its entries
\* before the index listed, and all that must be listed in it.
Searching(s, sc) ==
    /\ s \in [dir : Dirs, matches : Seq(HostName), index : Nat]
    /\ sc \in [stable : SUBSET (Dirs \X HostName), listed : Seq(Dirs \X HostName)]
    /\ IsInjective(s.matches)
    /\ s.index \in 1 .. Len(s.matches) + 1
    /\ sc.listed = [i \in 1 .. s.index - 1 |-> <<s.dir, s.matches[i]>>]
    /\ sc.stable \subseteq {s.dir} \X Range(s.matches)

SearchIs ==
    /\ (search = <<>> /\ scan = NoScan) \/ Searching(search, scan)
    /\ missed = {}

CpnetInv == FsIs(fs) /\ FcbIs /\ AnswerIs /\ SearchIs

\* The directory of a drive that is mapped.
LEMMA DirOf ==
  ASSUME NEW d, Mapped(d), FsIs(fs)
  PROVE  Dir(d) \in Dirs /\ Dir(d) \in DOMAIN fs /\ DirIs(fs[Dir(d)])
BY DEF Mapped, Dir, Dirs, FsIs

\* The contents a handler works on.
LEMMA Contents ==
  ASSUME NEW d, NEW n, FsIs(fs)
  PROVE  Content(d, n) \in Seq(Nat)
<1>1. CASE Exists(d, n)
   BY <1>1, DirOf DEF Exists, Content, DirIs
<1>2. CASE ~Exists(d, n)
   BY <1>2 DEF Content
<1> QED BY <1>1, <1>2

\* Replacing one directory.
LEMMA FsChanges ==
  ASSUME NEW f, FsIs(f), NEW dir \in DOMAIN f, NEW g, DirIs(g)
  PROVE  FsIs([f EXCEPT ![dir] = g])
<1> HIDE DEF DirIs
<1> QED BY DEF FsIs

\* A file written keeps the directories what they are.
LEMMA SetKeeps ==
  ASSUME FsIs(fs), NEW d, Mapped(d), NEW n \in FcbNames, NEW c \in Seq(Nat), Set(d, n, c)
  PROVE  FsIs(fs')
<1> DEFINE old == fs[Dir(d)]
           g == [h \in DOMAIN old \cup {PathOf(n)} |-> IF h = PathOf(n) THEN c ELSE old[h]]
<1>1. Dir(d) \in DOMAIN fs /\ DirIs(old) BY DirOf
<1>2. PathOf(n) \in HostName BY Paths DEF HostName
<1>3. fs' = [fs EXCEPT ![Dir(d)] = g] BY DEF Set
<1>4. DirIs(g)
   <2> HIDE DEF old
   <2>1. DOMAIN g = DOMAIN old \cup {PathOf(n)} OBVIOUS
   <2>2. IsFiniteSet(DOMAIN g) BY <2>1, <1>1, FS_AddElement DEF DirIs
   <2> QED BY <2>1, <2>2, <1>1, <1>2 DEF DirIs
<1> HIDE DEF g
<1> QED BY <1>1, <1>3, <1>4, FsChanges

\* So does deleting one, or renaming it.
LEMMA DeleteKeeps ==
  ASSUME FsIs(fs), NEW d, NEW n, Exists(d, n)
  PROVE  FsIs([fs EXCEPT ![Dir(d)] = Restrict(@, DOMAIN @ \ {PathOf(n)})])
<1> DEFINE old == fs[Dir(d)]
           g == Restrict(old, DOMAIN old \ {PathOf(n)})
<1>1. Dir(d) \in DOMAIN fs /\ DirIs(old) BY DirOf DEF Exists
<1>3. DirIs(g)
   <2> HIDE DEF old
   <2>1. DOMAIN g = DOMAIN old \ {PathOf(n)} /\ \A h \in DOMAIN g : g[h] = old[h] BY DEF Restrict
   <2>2. IsFiniteSet(DOMAIN g) BY <2>1, <1>1, FS_RemoveElement DEF DirIs
   <2> QED BY <2>1, <2>2, <1>1 DEF DirIs
<1>4. FsIs([fs EXCEPT ![Dir(d)] = g])
   <2> HIDE DEF g
   <2> QED BY <1>1, <1>3, FsChanges
<1> QED BY <1>4

LEMMA RenameKeeps ==
  ASSUME FsIs(fs), NEW d, NEW n, NEW m \in FcbNames, Exists(d, n)
  PROVE  FsIs([fs EXCEPT ![Dir(d)] =
                  [h \in (DOMAIN @ \ {PathOf(n)}) \cup {PathOf(m)} |->
                      IF h = PathOf(m) THEN @[PathOf(n)] ELSE @[h]]])
<1> DEFINE old == fs[Dir(d)]
           g == [h \in (DOMAIN old \ {PathOf(n)}) \cup {PathOf(m)} |->
                    IF h = PathOf(m) THEN old[PathOf(n)] ELSE old[h]]
<1>1. Dir(d) \in DOMAIN fs /\ DirIs(old) /\ PathOf(n) \in DOMAIN old BY DirOf DEF Exists
<1>2. PathOf(m) \in HostName BY Paths DEF HostName
<1>4. DirIs(g)
   <2> HIDE DEF old
   <2>1. DOMAIN g = (DOMAIN old \ {PathOf(n)}) \cup {PathOf(m)} OBVIOUS
   <2>2. IsFiniteSet(DOMAIN g) BY <2>1, <1>1, FS_RemoveElement, FS_AddElement DEF DirIs
   <2> QED BY <2>1, <2>2, <1>1, <1>2 DEF DirIs
<1>5. FsIs([fs EXCEPT ![Dir(d)] = g])
   <2> HIDE DEF g
   <2> QED BY <1>1, <1>4, FsChanges
<1> QED BY <1>5

-----------------------------------------------------------------------------
(* The FCB *)

LEMMA Sizes ==
  /\ RecPerExt \in Nat \ {0} /\ ExtMod \in Nat \ {0} /\ ByteMax \in Nat /\ ExtMod <= ByteMax + 1
  /\ MaxRec \in Nat
BY ServerAssumption

\* The record the FCB names.
LEMMA Positions ==
  ASSUME FcbIs
  PROVE  Position \in Nat
BY Sizes DEF FcbIs, Position

\* A sequential access moves the FCB on to the next record.
LEMMA Advances ==
  ASSUME FcbIs, AnswerIs, Advance
  PROVE  FcbIs' /\ AnswerIs' /\ (PositionKept => PositionKept')
<1>1. CASE fcb.cr + 1 < RecPerExt
   <2>1. fcb' = [fcb EXCEPT !.cr = @ + 1] /\ pos' = pos + 1 /\ reply' = 0 /\ serving' = serving
      BY <1>1 DEF Advance, Says
   <2>2. fcb.cr + 1 \in 0 .. RecPerExt - 1 BY <1>1, Sizes DEF FcbIs
   <2>3. FcbIs' /\ fcb'.ex = fcb.ex /\ fcb'.cr = fcb.cr + 1 BY <2>1, <2>2 DEF FcbIs
   <2>4. Position' = Position + 1 BY <2>3, Sizes DEF FcbIs, Position
   <2> QED BY <2>1, <2>3, <2>4 DEF AnswerIs, PositionKept
<1>2. CASE ~(fcb.cr + 1 < RecPerExt) /\ fcb.ex < ByteMax
   <2>1. fcb' = [fcb EXCEPT !.ex = @ + 1, !.cr = 0] /\ pos' = pos + 1 /\ reply' = 0 /\ serving' = serving
      BY <1>2 DEF Advance, Says
   <2>2. fcb.ex + 1 \in 0 .. ByteMax /\ 0 \in 0 .. RecPerExt - 1 /\ fcb.cr + 1 = RecPerExt
      BY <1>2, Sizes DEF FcbIs
   <2>3. FcbIs' /\ fcb'.ex = fcb.ex + 1 /\ fcb'.cr = 0
      <3> DEFINE x == fcb.ex + 1
                 k == 0
      <3>1. fcb' = [fcb EXCEPT !.ex = x, !.cr = k] /\ x \in 0 .. ByteMax /\ k \in 0 .. RecPerExt - 1
         BY <2>1, <2>2
      <3>2. pos' \in Nat BY <2>1 DEF FcbIs
      <3> HIDE DEF x, k
      <3>3. FcbIs' /\ fcb'.ex = x /\ fcb'.cr = k BY <3>1, <3>2 DEF FcbIs
      <3> QED BY <3>3 DEF x, k
   <2>4. fcb.ex \in Nat /\ fcb.cr \in Nat BY DEF FcbIs
   <2>5. (fcb.ex + 1) * RecPerExt = fcb.ex * RecPerExt + RecPerExt BY <2>4, Sizes
   <2>6. Position' = Position + 1 BY <2>2, <2>3, <2>4, <2>5, Sizes DEF Position
   <2> QED BY <2>1, <2>3, <2>6 DEF AnswerIs, PositionKept
<1>3. CASE ~(fcb.cr + 1 < RecPerExt) /\ ~(fcb.ex < ByteMax)
   <2>1. UNCHANGED <<fcb, pos, reply>> /\ serving' = "failed" BY <1>3 DEF Advance, program
   <2> QED BY <2>1 DEF FcbIs, AnswerIs, PositionKept, Position
<1> QED BY <1>1, <1>2, <1>3

\* A random access places it at its record, as long as EX can name the extent.
LEMMA RecordPlaces ==
  ASSUME FcbIs, NEW rec \in 0 .. MaxRec - 1, Place(rec)
  PROVE  FcbIs' /\ (MaxRec <= RecPerExt * ExtMod => PositionKept')
<1> DEFINE e == rec \div RecPerExt
           k == rec % RecPerExt
           x == e % ExtMod
<1>1. rec \in Nat /\ rec < MaxRec BY Sizes
<1>2. e \in Nat /\ k \in 0 .. RecPerExt - 1 /\ rec = RecPerExt * e + k BY <1>1, Sizes
<1>3. fcb' = [fcb EXCEPT !.ex = x, !.cr = k] /\ pos' = rec BY DEF Place
<1> HIDE DEF e, k
<1>4. x \in 0 .. ByteMax BY <1>2, Sizes
<1>5. MaxRec <= RecPerExt * ExtMod => x = e
   <2> SUFFICES ASSUME MaxRec <= RecPerExt * ExtMod PROVE x = e OBVIOUS
   <2>1. e < ExtMod
      <3> SUFFICES ASSUME e >= ExtMod PROVE FALSE BY <1>2, Sizes
      <3>1. RecPerExt * ExtMod <= RecPerExt * e BY <1>2, Sizes
      <3>2. RecPerExt * e \in Nat /\ RecPerExt * ExtMod \in Nat BY <1>2, Sizes
      <3> QED BY <3>1, <3>2, <1>1, <1>2, Sizes
   <2> QED BY <2>1, <1>2, Sizes
<1> HIDE DEF x
<1>6. FcbIs' /\ fcb'.ex = x /\ fcb'.cr = k BY <1>1, <1>2, <1>3, <1>4 DEF FcbIs
<1>7. x = e => Position' = rec BY <1>2, <1>6, Sizes DEF Position
<1> QED BY <1>3, <1>5, <1>6, <1>7 DEF PositionKept

-----------------------------------------------------------------------------
(* Searching *)

\* A listing of a directory holds every name once.
LEMMA ListingIs ==
  ASSUME NEW S, IsFiniteSet(S), NEW q \in Listings(S)
  PROVE  q \in Seq(S) /\ IsInjective(q) /\ Range(q) = S
<1> DEFINE n == Cardinality(S)
           I == 1 .. n
<1>1. n \in Nat BY FS_CardinalityType
<1>2. IsFiniteSet(I) /\ Cardinality(I) = n
   <2> HIDE DEF n
   <2>1. IsFiniteSet(1 .. n) /\ Cardinality(1 .. n) = IF 1 > n THEN 0 ELSE n - 1 + 1
      BY <1>1, FS_Interval
   <2> QED BY <1>1, <2>1
<1>3. q \in [I -> S] /\ IsInjective(q) BY DEF Listings
<1> HIDE DEF n, I
<1>4. q \in Injection(I, S) BY <1>3 DEF Injection, IsInjective
<1>5. q \in Surjection(I, S) BY <1>2, <1>4, FS_Injection DEF n
<1>6. Range(q) = S BY <1>3, <1>5 DEF Surjection, Range
<1>7. q \in Seq(S) BY <1>1, <1>3 DEF I
<1> QED BY <1>3, <1>6, <1>7

\* An answer of _search_result keeps the invariant of the search; the last one
\* is given when the whole list has been.
LEMMA ResultKeeps ==
  ASSUME NEW s, NEW sc, Searching(s, sc), missed = {}, Result(s, sc)
  PROVE  SearchIs' /\ reply' \in {0, 255}
<1>1. /\ s \in [dir : Dirs, matches : Seq(HostName), index : Nat]
      /\ sc \in [stable : SUBSET (Dirs \X HostName), listed : Seq(Dirs \X HostName)]
      /\ IsInjective(s.matches)
      /\ s.index \in 1 .. Len(s.matches) + 1
      /\ sc.listed = [i \in 1 .. s.index - 1 |-> <<s.dir, s.matches[i]>>]
      /\ sc.stable \subseteq {s.dir} \X Range(s.matches)
   BY DEF Searching
<1> DEFINE m == s.matches
           k == s.index
           dir == s.dir
<1>2. m \in Seq(HostName) /\ Len(m) \in Nat /\ k \in Nat /\ k >= 1 /\ k <= Len(m) + 1 /\ dir \in Dirs
   BY <1>1
<1>3. CASE k > Len(m)
   <2>1. Entry(s) = <<>> BY <1>3 DEF Entry
   <2>2. search' = <<>> /\ reply' = 255 /\ missed' = sc.stable \ Range(sc.listed) /\ scan' = NoScan
      BY <2>1 DEF Result, Says
   <2>3. k = Len(m) + 1 BY <1>2, <1>3
   <2>4. sc.listed = [i \in 1 .. Len(m) |-> <<dir, m[i]>>] BY <1>1, <1>2, <2>3
   <2>5. ASSUME NEW e \in sc.stable PROVE e \in Range(sc.listed)
      <3>1. PICK h \in Range(m) : e = <<dir, h>> BY <1>1
      <3>2. PICK i \in 1 .. Len(m) : h = m[i] BY <1>2 DEF Range
      <3>3. sc.listed[i] = e /\ i \in DOMAIN sc.listed BY <2>4, <3>1, <3>2
      <3> QED BY <3>3 DEF Range
   <2>6. missed' = {} BY <2>2, <2>5
   <2> QED BY <2>2, <2>6 DEF SearchIs
<1>4. CASE ~(k > Len(m))
   <2> DEFINE h == m[k]
   <2>1. k \in 1 .. Len(m) /\ h \in HostName BY <1>2, <1>4
   <2>2. Entry(s) = h /\ h # <<>> BY <1>4, <2>1, Named DEF Entry, HostName
   <2> DEFINE i2 == k + 1
              l2 == Append(sc.listed, <<dir, h>>)
   <2>3. /\ search' = [s EXCEPT !.index = i2] /\ reply' = 0
         /\ scan' = [sc EXCEPT !.listed = l2] /\ missed' = missed
      BY <2>2 DEF Result, Says
   <2>4. i2 \in Nat /\ i2 \in 1 .. Len(m) + 1 BY <2>1, <1>2
   <2>5. l2 = [i \in 1 .. i2 - 1 |-> <<dir, m[i]>>]
      <3> DEFINE l == sc.listed
      <3>1. l = [i \in 1 .. k - 1 |-> <<dir, m[i]>>] BY <1>1
      <3>2. l \in Seq(Dirs \X HostName) BY <1>1
      <3> HIDE DEF l
      <3>3. Len(l) = k - 1 BY <3>1, <3>2, <1>2
      <3>4. Append(l, <<dir, h>>) = [i \in 1 .. k |-> IF i = k THEN <<dir, h>> ELSE l[i]]
         BY <3>2, <3>3, <1>2
      <3>5. ASSUME NEW i \in 1 .. k PROVE (IF i = k THEN <<dir, h>> ELSE l[i]) = <<dir, m[i]>>
         <4>1. i # k => i \in 1 .. k - 1 BY <1>2
         <4> QED BY <4>1, <3>1
      <3>6. Append(l, <<dir, h>>) = [i \in 1 .. k |-> <<dir, m[i]>>] BY <3>4, <3>5
      <3>7. i2 - 1 = k BY <1>2
      <3> QED BY <3>6, <3>7 DEF l
   <2>6. l2 \in Seq(Dirs \X HostName)
      <3> DEFINE l == sc.listed
                 e == <<dir, h>>
      <3>1. l \in Seq(Dirs \X HostName) /\ e \in Dirs \X HostName BY <1>1, <1>2, <2>1
      <3> HIDE DEF l, e
      <3>2. Append(l, e) \in Seq(Dirs \X HostName) BY <3>1
      <3> QED BY <3>2 DEF l, e
   <2> HIDE DEF i2, l2, h
   <2>7. /\ search' \in [dir : Dirs, matches : Seq(HostName), index : Nat]
         /\ search'.dir = dir /\ search'.matches = m /\ search'.index = i2
      BY <1>1, <2>3, <2>4
   <2>8. /\ scan' \in [stable : SUBSET (Dirs \X HostName), listed : Seq(Dirs \X HostName)]
         /\ scan'.stable = sc.stable /\ scan'.listed = l2
      BY <1>1, <2>3, <2>6
   <2>9. Searching(search', scan')
      <3>1. scan'.stable \subseteq {search'.dir} \X Range(search'.matches) BY <1>1, <2>7, <2>8
      <3>2. scan'.listed = [i \in 1 .. search'.index - 1 |-> <<search'.dir, search'.matches[i]>>]
         BY <2>5, <2>7, <2>8
      <3>3. IsInjective(search'.matches) /\ search'.index \in 1 .. Len(search'.matches) + 1
         BY <1>1, <2>4, <2>7
      <3> QED BY <2>7, <2>8, <3>1, <3>2, <3>3 DEF Searching
   <2> QED BY <2>3, <2>9 DEF SearchIs
<1> QED BY <1>3, <1>4

\* The list that search first makes has all that CP/M would match.
LEMMA FirstList ==
  ASSUME FsIs(fs), NEW d, Mapped(d), NEW pat \in Patterns, NEW q \in Listings(Matching(Dir(d), pat))
  PROVE  Searching([dir |-> Dir(d), matches |-> q, index |-> 1],
                   [stable |-> {Dir(d)} \X {h \in DOMAIN fs[Dir(d)] : CpmMatch(pat, h)},
                    listed |-> <<>>])
<1> DEFINE dir == Dir(d)
           M == Matching(dir, pat)
           C == {h \in DOMAIN fs[dir] : CpmMatch(pat, h)}
           st == {dir} \X C
           s == [dir |-> dir, matches |-> q, index |-> 1]
           sc == [stable |-> st, listed |-> <<>>]
<1>1. dir \in Dirs /\ DirIs(fs[dir]) BY DirOf
<1>2. \A h \in DOMAIN fs[dir] : h \in HostName BY <1>1 DEF DirIs
<1>3. M \subseteq DOMAIN fs[dir] BY DEF Matching
<1>4. IsFiniteSet(M) BY <1>1, <1>3, FS_Subset DEF DirIs
<1>5. C \subseteq M
   <2>1. ASSUME NEW h \in C PROVE h \in M
      <3>1. h \in DOMAIN fs[dir] /\ CpmMatch(pat, h) /\ h \in HostName BY <1>2
      <3>2. MatchPattern(Split(pat)[1], EntryFields(h)[1]) /\ MatchPattern(Split(pat)[2], EntryFields(h)[2])
         BY <3>1, CpmMatches DEF HostName
      <3> QED BY <3>1, <3>2 DEF Matching
   <2> QED BY <2>1
<1>6. M \subseteq HostName BY <1>2, <1>3
<1> HIDE DEF dir, M
<1>7. q \in Seq(M) /\ IsInjective(q) /\ Range(q) = M BY <1>4, ListingIs DEF M, dir
<1>8. q \in Seq(HostName) /\ Len(q) \in Nat
   <2>1. Len(q) \in Nat /\ DOMAIN q = 1 .. Len(q) /\ \A i \in 1 .. Len(q) : q[i] \in M BY <1>7
   <2>2. q = [i \in 1 .. Len(q) |-> q[i]] BY <1>7
   <2> QED BY <2>1, <2>2, <1>6, <1>7
<1>9. st \subseteq {dir} \X M /\ st \subseteq Dirs \X HostName BY <1>1, <1>5, <1>6
<1> HIDE DEF st
<1>10. s \in [dir : Dirs, matches : Seq(HostName), index : Nat]
   BY <1>1, <1>8
<1>11. sc \in [stable : SUBSET (Dirs \X HostName), listed : Seq(Dirs \X HostName)]
   BY <1>9
<1>12. 1 \in 1 .. Len(q) + 1 BY <1>8
<1>13. <<>> = [i \in 1 .. 1 - 1 |-> <<dir, q[i]>>] OBVIOUS
<1>14. s.dir = dir /\ s.matches = q /\ s.index = 1 /\ sc.stable = st /\ sc.listed = <<>> OBVIOUS
<1> HIDE DEF s, sc
<1>15. Searching(s, sc) BY <1>7, <1>9, <1>10, <1>11, <1>12, <1>13, <1>14 DEF Searching
<1> QED BY <1>15 DEF s, sc, st, dir

\* A file that goes need not be listed any more.
LEMMA WatchKeeps ==
  ASSUME SearchIs, Watch, UNCHANGED <<search, missed>>
  PROVE  SearchIs'
<1> DEFINE st == {h \in scan.stable : h[2] \in DOMAIN fs'[h[1]]}
<1>1. scan' = [scan EXCEPT !.stable = st] BY DEF Watch
<1>2. st \subseteq scan.stable OBVIOUS
<1> HIDE DEF st
<1>3. CASE search = <<>> /\ scan = NoScan
   <2>1. st = {} BY <1>2, <1>3 DEF NoScan
   <2>2. scan' = NoScan BY <1>1, <1>3, <2>1 DEF NoScan
   <2> QED BY <1>3, <2>2 DEF SearchIs
<1>4. CASE Searching(search, scan)
   <2>1. scan \in [stable : SUBSET (Dirs \X HostName), listed : Seq(Dirs \X HostName)]
      BY <1>4 DEF Searching
   <2>2. st \in SUBSET (Dirs \X HostName) BY <1>2, <2>1
   <2>3. /\ scan' \in [stable : SUBSET (Dirs \X HostName), listed : Seq(Dirs \X HostName)]
         /\ scan'.stable = st /\ scan'.listed = scan.listed
      BY <1>1, <2>1, <2>2
   <2>4. Searching(search', scan') BY <1>2, <1>4, <2>3 DEF Searching
   <2> QED BY <2>4 DEF SearchIs
<1> QED BY <1>3, <1>4 DEF SearchIs

-----------------------------------------------------------------------------
(* The handlers *)

\* A server starts with nothing open and no search.
LEMMA Starts ==
  ASSUME CpnetInit
  PROVE  CpnetInv /\ PositionKept
<1>1. /\ fs \in HostFiles /\ search = <<>> /\ scan = NoScan /\ missed = {} /\ pos = 0
      /\ fcb = [dr |-> CHOOSE d \in FcbDrives : TRUE, name |-> CHOOSE n \in FcbNames : TRUE,
                ex |-> 0, cr |-> 0]
      /\ reply = 0 /\ serving = "up"
   BY DEF CpnetInit, CpnetStart
<1>2. FsIs(fs)
   <2>1. \A d \in DOMAIN DriveDir : DriveDir[d] \in DOMAIN fs BY <1>1, HostAssumption
   <2>2. ASSUME NEW d \in DOMAIN fs PROVE DirIs(fs[d])
      <3>1. IsFiniteSet(DOMAIN fs[d]) BY <1>1, HostAssumption
      <3>2. ASSUME NEW h \in DOMAIN fs[d] PROVE h \in HostName /\ fs[d][h] \in Seq(Nat)
         <4>1. h \in Seq(STRING) \X Seq(STRING) /\ fs[d][h] \in Seq(Nat) BY <1>1, HostAssumption
         <4> QED BY <4>1, SeqChars DEF HostName
      <3> QED BY <3>1, <3>2 DEF DirIs
   <2> QED BY <2>1, <2>2 DEF FsIs, Dirs
<1>3. FcbIs
   <2> DEFINE dr == CHOOSE d \in FcbDrives : TRUE
              nm == CHOOSE n \in FcbNames : TRUE
   <2>1. dr \in FcbDrives /\ nm \in FcbNames BY ServerAssumption
   <2>2. fcb = [dr |-> dr, name |-> nm, ex |-> 0, cr |-> 0] BY <1>1
   <2> HIDE DEF dr, nm
   <2>3. 0 \in 0 .. ByteMax /\ 0 \in 0 .. RecPerExt - 1 BY Sizes
   <2> QED BY <1>1, <2>1, <2>2, <2>3 DEF FcbIs
<1>4. fcb.ex = 0 /\ fcb.cr = 0 BY <1>1
<1>5. PositionKept BY <1>1, <1>4, Sizes DEF PositionKept, Position
<1>6. AnswerIs /\ SearchIs BY <1>1 DEF AnswerIs, SearchIs
<1> QED BY <1>2, <1>3, <1>5, <1>6 DEF CpnetInv

\* The FCB of an answer to open or make.
LEMMA NewFcbKeeps ==
  ASSUME NEW d \in FcbDrives, NEW n \in FcbNames, NewFcb(d, n), pos' = 0
  PROVE  FcbIs' /\ PositionKept'
<1>1. fcb' = [dr |-> d, name |-> n, ex |-> 0, cr |-> 0] BY DEF NewFcb
<1>2. 0 \in 0 .. ByteMax /\ 0 \in 0 .. RecPerExt - 1 BY Sizes
<1>3. FcbIs' /\ fcb'.ex = 0 /\ fcb'.cr = 0 BY <1>1, <1>2 DEF FcbIs
<1> QED BY <1>3, Sizes DEF PositionKept, Position

\* What an action that leaves the program or the search alone keeps.
LEMMA ProgramKept ==
  ASSUME UNCHANGED program, FcbIs
  PROVE  FcbIs' /\ (PositionKept => PositionKept')
BY DEF program, FcbIs, PositionKept, Position

LEMMA FoundKept ==
  ASSUME UNCHANGED found, SearchIs
  PROVE  SearchIs'
<1>1. search' = search /\ scan' = scan /\ missed' = missed BY DEF found
<1>2. CASE search = <<>> /\ scan = NoScan BY <1>1, <1>2 DEF SearchIs, NoScan
<1>3. CASE Searching(search, scan)
   <2>1. Searching(search', scan') BY <1>1, <1>3
   <2> QED BY <1>1, <2>1 DEF SearchIs
<1> QED BY <1>2, <1>3 DEF SearchIs

\* A write of a record is a file set to what WriteAt leaves.
LEMMA WriteKeeps ==
  ASSUME FsIs(fs), FcbIs, Mapped(fcb.dr), NEW c \in Seq(Nat), NEW rec \in Nat, NEW s \in Sectors,
         Set(fcb.dr, fcb.name, WriteAt(c, rec, s))
  PROVE  FsIs(fs')
<1> DEFINE w == WriteAt(c, rec, s)
<1>1. w \in Seq(Nat) BY WriteAtIs
<1>2. fcb.name \in FcbNames BY DEF FcbIs
<1> HIDE DEF w
<1> QED BY <1>1, <1>2, SetKeeps DEF w

\* The invariant is inductive; with records that EX can name, so is the position.
LEMMA HandlersKeep ==
  ASSUME CpnetInv, handlers
  PROVE  CpnetInv' /\ (MaxRec <= RecPerExt * ExtMod /\ PositionKept => PositionKept')
<1> DEFINE Kept == CpnetInv' /\ (MaxRec <= RecPerExt * ExtMod /\ PositionKept => PositionKept')
<1> USE DEF CpnetInv
<1>1. ASSUME NEW d \in FcbDrives, NEW n \in FcbNames, Open(d, n) PROVE Kept
   <2>1. UNCHANGED <<fs, serving>> /\ SearchIs' BY <1>1, FoundKept DEF Open
   <2>2. FcbIs' /\ (PositionKept => PositionKept') /\ reply' \in {0, 255}
      <3>1. CASE Exists(d, n) BY <3>1, <1>1, NewFcbKeeps DEF Open, Says
      <3>2. CASE ~Exists(d, n) BY <3>2, <1>1, ProgramKept DEF Open, Says
      <3> QED BY <3>1, <3>2
   <2> QED BY <2>1, <2>2 DEF AnswerIs
<1>2. ASSUME NEW d \in FcbDrives, NEW n \in FcbNames, MakeFile(d, n) PROVE Kept
   <2>1. serving' = serving /\ SearchIs' BY <1>2, FoundKept DEF MakeFile
   <2>2. FcbIs' /\ (PositionKept => PositionKept') /\ reply' \in {0, 255} /\ FsIs(fs')
      <3>1. CASE Mapped(d) BY <3>1, <1>2, NewFcbKeeps, SetKeeps, Contents DEF MakeFile, Says
      <3>2. CASE ~Mapped(d) BY <3>2, <1>2, ProgramKept DEF MakeFile, Says
      <3> QED BY <3>1, <3>2
   <2> QED BY <2>1, <2>2 DEF AnswerIs
<1>3. ASSUME NEW d \in FcbDrives, NEW n \in FcbNames, Delete(d, n) PROVE Kept
   <2>1. serving' = serving /\ UNCHANGED <<search, missed>> /\ Watch /\ UNCHANGED program
      BY <1>3 DEF Delete
   <2>2. SearchIs' BY <2>1, WatchKeeps
   <2>3. FcbIs' /\ (PositionKept => PositionKept') BY <2>1, ProgramKept
   <2>4. FsIs(fs') /\ reply' \in {0, 255}
      <3>1. CASE Exists(d, n)
         <4>1. /\ fs' = [fs EXCEPT ![Dir(d)] = Restrict(@, DOMAIN @ \ {PathOf(n)})]
               /\ reply' = 0
            BY <3>1, <1>3 DEF Delete, Says
         <4> QED BY <4>1, <3>1, DeleteKeeps
      <3>2. CASE ~Exists(d, n) BY <3>2, <1>3 DEF Delete, Says
      <3> QED BY <3>1, <3>2
   <2> QED BY <2>1, <2>2, <2>3, <2>4 DEF AnswerIs
<1>4. ASSUME NEW d \in FcbDrives, NEW n \in FcbNames, NEW m \in FcbNames, Rename(d, n, m) PROVE Kept
   <2>1. serving' = serving /\ UNCHANGED <<search, missed>> /\ Watch /\ UNCHANGED program
      BY <1>4 DEF Rename
   <2>2. SearchIs' BY <2>1, WatchKeeps
   <2>3. FcbIs' /\ (PositionKept => PositionKept') BY <2>1, ProgramKept
   <2>4. FsIs(fs') /\ reply' \in {0, 255}
      <3>1. CASE Exists(d, n)
         <4>1. /\ fs' = [fs EXCEPT ![Dir(d)] =
                            [h \in (DOMAIN @ \ {PathOf(n)}) \cup {PathOf(m)} |->
                               IF h = PathOf(m) THEN @[PathOf(n)] ELSE @[h]]]
               /\ reply' = 0
            BY <3>1, <1>4 DEF Rename, Says
         <4> QED BY <4>1, <3>1, RenameKeeps
      <3>2. CASE ~Exists(d, n) BY <3>2, <1>4 DEF Rename, Says
      <3> QED BY <3>1, <3>2
   <2> QED BY <2>1, <2>2, <2>3, <2>4 DEF AnswerIs
<1>5. ASSUME ReadSeq PROVE Kept
   <2>1. fs' = fs /\ SearchIs' BY <1>5, FoundKept DEF ReadSeq
   <2>2. FcbIs' /\ (PositionKept => PositionKept') /\ AnswerIs'
      <3>1. CASE Advance BY <3>1, Advances
      <3>2. CASE ~Advance
         <4>1. reply' \in {1, 255} /\ UNCHANGED program /\ serving' = serving
            BY <3>2, <1>5 DEF ReadSeq, Says
         <4> QED BY <4>1, ProgramKept DEF AnswerIs
      <3> QED BY <3>1, <3>2
   <2> QED BY <2>1, <2>2
<1>6. ASSUME NEW s \in Sectors, WriteSeq(s) PROVE Kept
   <2>1. SearchIs' BY <1>6, FoundKept DEF WriteSeq
   <2>2. CASE Mapped(fcb.dr)
      <3>1. Set(fcb.dr, fcb.name, WriteAt(Content(fcb.dr, fcb.name), Position, s)) /\ Advance
         BY <1>6, <2>2 DEF WriteSeq
      <3>2. FsIs(fs') BY <2>2, <3>1, Positions, Contents, WriteKeeps
      <3> QED BY <2>1, <3>1, <3>2, Advances
   <2>3. CASE ~Mapped(fcb.dr)
      <3>1. reply' = 255 /\ fs' = fs /\ UNCHANGED program /\ serving' = serving
         BY <1>6, <2>3 DEF WriteSeq, Says
      <3> QED BY <2>1, <3>1, ProgramKept DEF AnswerIs
   <2> QED BY <2>2, <2>3
<1>7. ASSUME NEW rec \in 0 .. MaxRec - 1, ReadRand(rec) PROVE Kept
   <2>1. fs' = fs /\ serving' = serving /\ SearchIs' BY <1>7, FoundKept DEF ReadRand
   <2>2. CASE Place(rec) /\ reply' = 0 BY <2>1, <2>2, RecordPlaces DEF AnswerIs
   <2>3. CASE ~(Place(rec) /\ reply' = 0)
      <3>1. reply' \in {6, 255} /\ UNCHANGED program BY <1>7, <2>3 DEF ReadRand, Says
      <3> QED BY <2>1, <3>1, ProgramKept DEF AnswerIs
   <2> QED BY <2>2, <2>3
<1>8. ASSUME NEW rec \in 0 .. MaxRec - 1, NEW s \in Sectors, NEW c \in Seq(Nat),
             Random(rec, WriteAt(c, rec, s))
      PROVE  Kept
   <2>1. serving' = serving /\ SearchIs' BY <1>8, FoundKept DEF Random
   <2>2. CASE Mapped(fcb.dr)
      <3>1. Set(fcb.dr, fcb.name, WriteAt(c, rec, s)) /\ reply' = 0 /\ Place(rec)
         BY <1>8, <2>2 DEF Random, Says
      <3>2. rec \in Nat BY Sizes
      <3>3. FsIs(fs') BY <2>2, <3>1, <3>2, WriteKeeps
      <3> QED BY <2>1, <3>1, <3>3, RecordPlaces DEF AnswerIs
   <2>3. CASE ~Mapped(fcb.dr)
      <3>1. reply' = 255 /\ fs' = fs /\ UNCHANGED program BY <1>8, <2>3 DEF Random, Says
      <3> QED BY <2>1, <3>1, ProgramKept DEF AnswerIs
   <2> QED BY <2>2, <2>3
<1>9. ASSUME NEW rec \in 0 .. MaxRec - 1, NEW s \in Sectors, WriteRand(rec, s) PROVE Kept
   BY <1>8, <1>9, Contents DEF WriteRand
<1>10. ASSUME NEW rec \in 0 .. MaxRec - 1, NEW s \in Sectors, WriteRandZF(rec, s) PROVE Kept
   <2> DEFINE c == Content(fcb.dr, fcb.name)
   <2>1. rec \in Nat /\ c \in Seq(Nat) BY Contents, Sizes
   <2>2. Random(rec, WriteAt(ZeroFill(c, rec), rec, s)) BY <1>10 DEF WriteRandZF
   <2> HIDE DEF c
   <2>3. ZeroFill(c, rec) \in Seq(Nat) BY <2>1, ZeroFillIs
   <2> QED BY <1>8, <2>2, <2>3
<1>11. ASSUME NEW d \in FcbDrives, NEW pat \in Patterns, SearchFirst(d, pat) PROVE Kept
   <2>1. fs' = fs /\ serving' = serving /\ UNCHANGED program BY <1>11 DEF SearchFirst
   <2>2. SearchIs' /\ reply' \in {0, 255}
      <3>1. CASE Mapped(d)
         <4>1. PICK q \in Listings(Matching(Dir(d), pat)) :
                  Result([dir |-> Dir(d), matches |-> q, index |-> 1],
                         [stable |-> {Dir(d)} \X {h \in DOMAIN fs[Dir(d)] : CpmMatch(pat, h)},
                          listed |-> <<>>])
            BY <1>11, <3>1 DEF SearchFirst
         <4> DEFINE s == [dir |-> Dir(d), matches |-> q, index |-> 1]
                    sc == [stable |-> {Dir(d)} \X {h \in DOMAIN fs[Dir(d)] : CpmMatch(pat, h)},
                           listed |-> <<>>]
         <4>2. Searching(s, sc) BY <3>1, FirstList
         <4>3. Result(s, sc) BY <4>1
         <4>4. missed = {} BY DEF SearchIs
         <4> HIDE DEF s, sc
         <4> QED BY <4>2, <4>3, <4>4, ResultKeeps
      <3>2. CASE ~Mapped(d) BY <1>11, <3>2, FoundKept DEF SearchFirst, Says
      <3> QED BY <3>1, <3>2
   <2> QED BY <2>1, <2>2, ProgramKept DEF AnswerIs
<1>12. ASSUME SearchNext PROVE Kept
   <2>1. fs' = fs /\ serving' = serving /\ UNCHANGED program BY <1>12 DEF SearchNext
   <2>2. SearchIs' /\ reply' \in {0, 255}
      <3>1. CASE search = <<>> BY <1>12, <3>1, FoundKept DEF SearchNext, Says
      <3>2. CASE search # <<>>
         <4>1. Result(search, scan) BY <1>12, <3>2 DEF SearchNext
         <4>2. Searching(search, scan) /\ missed = {} BY <3>2 DEF SearchIs
         <4> QED BY <4>1, <4>2, ResultKeeps
      <3> QED BY <3>1, <3>2
   <2> QED BY <2>1, <2>2, ProgramKept DEF AnswerIs
<1>13. ASSUME NEW ch, ConsoleInput(ch) PROVE Kept
   <2>1. fs' = fs /\ UNCHANGED program /\ UNCHANGED found BY <1>13 DEF ConsoleInput
   <2>2. AnswerIs' BY <1>13 DEF ConsoleInput, AnswerIs, Says
   <2> QED BY <2>1, <2>2, ProgramKept, FoundKept
<1>14. ASSUME NEW code \in {0, 255}, OnlyAnswers(code) PROVE Kept
   <2>1. fs' = fs /\ UNCHANGED program /\ UNCHANGED found BY <1>14 DEF OnlyAnswers
   <2>2. AnswerIs' BY <1>14 DEF OnlyAnswers, AnswerIs, Says
   <2> QED BY <2>1, <2>2, ProgramKept, FoundKept
<1>15. ASSUME NEW d, NEW n, FileSize(d, n) PROVE Kept
   <2>1. fs' = fs /\ UNCHANGED program /\ UNCHANGED found BY <1>15 DEF FileSize
   <2>2. AnswerIs' BY <1>15 DEF FileSize, AnswerIs, Says
   <2> QED BY <2>1, <2>2, ProgramKept, FoundKept
<1> HIDE DEF Kept
<1>16. ASSUME Close \/ SetRecord \/ Vectors \/ ConsoleOutput \/ ConsoleStatus \/ NetworkInit
              \/ Unhandled \/ OnlyAnswers(0)
       PROVE  Kept
   BY <1>14, <1>16 DEF Close, SetRecord, Vectors, ConsoleOutput, ConsoleStatus, NetworkInit, Unhandled
<1>17. ASSUME \E d \in FcbDrives, n \in FcbNames :
                 \/ Open(d, n) \/ MakeFile(d, n) \/ Delete(d, n) \/ FileSize(d, n)
                 \/ \E m \in FcbNames : Rename(d, n, m)
       PROVE  Kept
   BY <1>1, <1>2, <1>3, <1>4, <1>15, <1>17
<1>18. ASSUME \E rec \in 0 .. MaxRec - 1 :
                 \/ ReadRand(rec)
                 \/ \E data \in Sectors : WriteRand(rec, data) \/ WriteRandZF(rec, data)
       PROVE  Kept
   BY <1>7, <1>9, <1>10, <1>18
<1>19. ASSUME \/ \E d \in FcbDrives, pat \in Patterns : SearchFirst(d, pat)
              \/ \E data \in Sectors : WriteSeq(data)
              \/ \E ch \in {"y", "quit"} : ConsoleInput(ch)
       PROVE  Kept
   BY <1>6, <1>11, <1>13, <1>19
<1>20. Kept
   BY <1>5, <1>12, <1>16, <1>17, <1>18, <1>19 DEF handlers
<1> QED BY <1>20 DEF Kept

\* Every request served keeps the invariant.
LEMMA StepKeeps ==
  ASSUME CpnetInv, [CpnetNext]_cpnetVars
  PROVE  CpnetInv' /\ (MaxRec <= RecPerExt * ExtMod /\ PositionKept => PositionKept')
<1>1. CASE CpnetNext BY <1>1, HandlersKeep DEF CpnetNext
<1>2. CASE UNCHANGED cpnetVars
   <2>1. UNCHANGED found /\ UNCHANGED program /\ fs' = fs /\ UNCHANGED <<reply, serving>>
      BY <1>2 DEF cpnetVars, found, program
   <2>2. FsIs(fs') /\ AnswerIs' BY <2>1 DEF CpnetInv, AnswerIs
   <2> QED BY <2>1, <2>2, FoundKept, ProgramKept DEF CpnetInv
<1> QED BY <1>1, <1>2

LEMMA AlwaysInv == CpnetSpec => []CpnetInv
<1>1. CpnetInit => CpnetInv BY Starts
<1>2. CpnetInv /\ [CpnetNext]_cpnetVars => CpnetInv' BY StepKeeps
<1> QED BY <1>1, <1>2, PTL DEF CpnetSpec

\* The FCB names the record the program is at, whatever it read and wrote
\* (handle_read_seq to handle_write_rand), as long as the records of random
\* accesses are in the extents that EX tells apart: rec_pos & 0x1F forgets the
\* others.
THEOREM PositionIsKept ==
  ASSUME MaxRec <= RecPerExt * ExtMod
  PROVE  CpnetSpec => []PositionKept
<1>1. CpnetInit => CpnetInv /\ PositionKept BY Starts
<1>2. CpnetInv /\ PositionKept /\ [CpnetNext]_cpnetVars => (CpnetInv /\ PositionKept)' BY StepKeeps
<1> QED BY <1>1, <1>2, PTL DEF CpnetSpec

\* A search gives no file twice and leaves none out that CP/M would match and
\* that was there all the time (handle_search_first, handle_search_next).
THEOREM ScanIsComplete == CpnetSpec => []ScanComplete
<1>1. CpnetInv => ScanComplete
   <2> SUFFICES ASSUME CpnetInv PROVE IsInjective(scan.listed) BY DEF ScanComplete, CpnetInv, SearchIs
   <2>1. CASE scan = NoScan BY <2>1 DEF NoScan, IsInjective
   <2>2. CASE Searching(search, scan)
      <3> DEFINE m == search.matches
                 k == search.index
      <3>1. /\ m \in Seq(HostName) /\ IsInjective(m) /\ k \in 1 .. Len(m) + 1
            /\ scan.listed = [i \in 1 .. k - 1 |-> <<search.dir, m[i]>>]
         BY <2>2 DEF Searching
      <3> HIDE DEF m, k
      <3>2. ASSUME NEW i \in 1 .. k - 1, NEW j \in 1 .. k - 1, scan.listed[i] = scan.listed[j]
            PROVE  i = j
         <4>1. i \in DOMAIN m /\ j \in DOMAIN m BY <3>1
         <4>2. m[i] = m[j] BY <3>1, <3>2
         <4> QED BY <4>1, <4>2, <3>1 DEF IsInjective
      <3>3. DOMAIN scan.listed = 1 .. k - 1 BY <3>1
      <3> QED BY <3>2, <3>3 DEF IsInjective
   <2> QED BY <2>1, <2>2 DEF CpnetInv, SearchIs
<1> QED BY <1>1, AlwaysInv, PTL

\* What a write of a record leaves of the others.
LEMMA OthersKept ==
  ASSUME FsIs(fs), NEW rec \in Nat, NEW s \in Sectors, Mapped(fcb.dr),
         Set(fcb.dr, fcb.name, WriteAt(Content(fcb.dr, fcb.name), rec, s))
  PROVE  KeptBut(rec)
<1> DEFINE dir == Dir(fcb.dr)
           path == PathOf(fcb.name)
           w == WriteAt(Content(fcb.dr, fcb.name), rec, s)
<1> SUFFICES ASSUME NEW d \in DOMAIN fs, NEW h \in DOMAIN fs[d], NEW q \in 0 .. Records(fs[d][h]) - 1,
                    ~(q = Records(fs[d][h]) - 1 /\ Len(fs[d][h]) % RecSize # 0),
                    ~(d = dir /\ h = path /\ q = rec)
             PROVE  ReadAt(fs'[d][h], q) = ReadAt(fs[d][h], q)
   BY DEF KeptBut
<1>1. dir \in DOMAIN fs BY DirOf
<1>2. fs' = [fs EXCEPT ![dir] = [i \in DOMAIN fs[dir] \cup {path} |-> IF i = path THEN w ELSE fs[dir][i]]]
   BY DEF Set
<1> HIDE DEF w, dir, path
<1>3. CASE d = dir /\ h = path
   <2>1. fs'[d][h] = w BY <1>1, <1>2, <1>3
   <2>2. Content(fcb.dr, fcb.name) = fs[d][h] BY <1>3 DEF Content, Exists, dir, path
   <2> DEFINE c == fs[d][h]
   <2>3. c \in Seq(Nat) BY <2>2, Contents
   <2>4. q # rec /\ (q # Records(c) - 1 \/ Len(c) % RecSize = 0) BY <1>3
   <2>5. w = WriteAt(c, rec, s) BY <2>2 DEF w
   <2>6. q \in 0 .. Records(c) - 1 OBVIOUS
   <2> HIDE DEF c
   <2>7. (q + 1) * RecSize <= Len(c) BY <2>3, <2>4, <2>6, WholeRecord
   <2>8. q \in Nat OBVIOUS
   <2>9. ReadAt(w, q) = ReadAt(c, q) BY <2>3, <2>4, <2>5, <2>7, <2>8, ReadElsewhere
   <2> QED BY <2>1, <2>9 DEF c
<1>4. CASE ~(d = dir /\ h = path)
   <2>1. fs'[d][h] = fs[d][h] BY <1>1, <1>2, <1>4
   <2> QED BY <2>1
<1> QED BY <1>3, <1>4

\* The three functions that write change one record only, and function 40 leaves
\* the file that function 34 leaves (handle_write_seq, handle_write_rand,
\* handle_write_rand_zf).
THEOREM WritesAreConfined == CpnetSpec => WritesConfined
<1> DEFINE Act == fs' # fs => \A s \in Sectors :
                    /\ WriteSeq(s) => KeptBut(Position)
                    /\ \A r \in 0 .. MaxRec - 1 : WriteRand(r, s) \/ WriteRandZF(r, s) => KeptBut(r)
<1>1. CpnetInv => CpnetTypeOK /\ ZeroFillAgrees
   <2> SUFFICES ASSUME CpnetInv PROVE CpnetTypeOK /\ ZeroFillAgrees OBVIOUS
   <2>1. \A d \in DOMAIN fs : \A h \in DOMAIN fs[d] : fs[d][h] \in Seq(Nat)
      BY DEF CpnetInv, FsIs, DirIs
   <2>2. ZeroFillAgrees
      <3> SUFFICES ASSUME NEW d \in DOMAIN fs, NEW h \in DOMAIN fs[d],
                          NEW r \in 0 .. MaxRec - 1, NEW s \in Sectors
                   PROVE  WriteAt(ZeroFill(fs[d][h], r), r, s) = WriteAt(fs[d][h], r, s)
         BY DEF ZeroFillAgrees
      <3>1. r \in Nat BY Sizes
      <3> QED BY <2>1, <3>1, ZeroFillSame
   <2>3. fcb.ex \in 0 .. ByteMax /\ fcb.cr \in 0 .. RecPerExt - 1 BY DEF CpnetInv, FcbIs
   <2>4. search # <<>> => search.index \in 1 .. Len(search.matches) + 1
      BY DEF CpnetInv, SearchIs, Searching
   <2> QED BY <2>1, <2>2, <2>3, <2>4 DEF CpnetTypeOK, CpnetInv, AnswerIs
<1>2. CpnetInv /\ [CpnetNext]_cpnetVars => [Act]_cpnetVars
   <2> SUFFICES ASSUME CpnetInv, fs' # fs, NEW s \in Sectors
                PROVE  /\ WriteSeq(s) => KeptBut(Position)
                       /\ \A r \in 0 .. MaxRec - 1 : WriteRand(r, s) \/ WriteRandZF(r, s) => KeptBut(r)
      OBVIOUS
   <2>1. FsIs(fs) /\ FcbIs BY DEF CpnetInv
   <2>2. ASSUME WriteSeq(s) PROVE KeptBut(Position)
      <3>1. Mapped(fcb.dr) BY <2>2 DEF WriteSeq
      <3>2. Set(fcb.dr, fcb.name, WriteAt(Content(fcb.dr, fcb.name), Position, s))
         BY <2>2, <3>1 DEF WriteSeq
      <3> QED BY <2>1, <3>1, <3>2, Positions, OthersKept
   <2>3. ASSUME NEW r \in 0 .. MaxRec - 1, WriteRand(r, s) \/ WriteRandZF(r, s) PROVE KeptBut(r)
      <3> DEFINE c == Content(fcb.dr, fcb.name)
      <3>1. r \in Nat BY Sizes
      <3>2. c \in Seq(Nat) BY <2>1, Contents
      <3>3. Random(r, WriteAt(c, r, s))
         <4>1. CASE WriteRand(r, s) BY <4>1 DEF WriteRand
         <4>2. CASE WriteRandZF(r, s)
            <5>1. WriteAt(ZeroFill(c, r), r, s) = WriteAt(c, r, s)
               <6> HIDE DEF c
               <6> QED BY <3>1, <3>2, ZeroFillSame
            <5>2. Random(r, WriteAt(ZeroFill(c, r), r, s)) BY <4>2 DEF WriteRandZF
            <5> QED BY <5>1, <5>2
         <4> QED BY <2>3, <4>1, <4>2
      <3>4. Mapped(fcb.dr) BY <3>3 DEF Random
      <3>5. Set(fcb.dr, fcb.name, WriteAt(c, r, s)) BY <3>3, <3>4 DEF Random
      <3> QED BY <2>1, <3>1, <3>4, <3>5, OthersKept
   <2> QED BY <2>2, <2>3
<1>3. CpnetSpec => [](CpnetTypeOK /\ ZeroFillAgrees) BY <1>1, AlwaysInv, PTL
<1>4. CpnetSpec => [][Act]_cpnetVars BY <1>2, AlwaysInv, PTL DEF CpnetSpec
<1>5. CpnetSpec => OtherRecordsKept BY <1>4 DEF OtherRecordsKept
<1> QED BY <1>3, <1>5 DEF WritesConfined
=============================================================================
