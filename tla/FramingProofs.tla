--------------------------- MODULE FramingProofs ---------------------------
(***************************************************************************)
(* Packets on a byte stream: proofs for any length of the ciphertext and   *)
(* any number of messages and spoilt events.  StreamInv holds of each      *)
(* direction by itself: the packets lie one behind the other, and as long  *)
(* as no event was spoilt the reader is at the start of a packet.          *)
(* LoginInv follows the login, as long as no event was spoilt, and says    *)
(* what may be on the two streams at each point of it.                     *)
(***************************************************************************)
EXTENDS Framing, SequenceTheorems, TLAPS

Packets == [type : Types, start : Nat, end : Nat, behind : BOOLEAN]

TypeInv ==
  /\ sent \in [Dirs -> Seq(Packets)]
  /\ read \in [Dirs -> Nat]
  /\ handled \in [Dirs -> SUBSET Nat]
  /\ spoilt \in [Dirs -> Nat]
  /\ spc \in {"HELLO", "AUTH", "queued", "registered", "refused", "owed",
           "ESTABLISHED", "CLOSING"}

End(s) == IF s = << >> THEN 0 ELSE s[Len(s)].end

(* The packets of a stream lie one behind the other. *)
Laid(s) ==
  \A i \in 1..Len(s) :
    /\ s[i].start + FIXED_LEN <= s[i].end
    /\ s[i].start = IF i = 1 THEN 0 ELSE s[i - 1].end
    /\ \A j \in 1..Len(s) : i < j => s[i].end <= s[j].start

(* As long as no event was spoilt, the next event begins with a packet, or *)
(* nothing is under way.                                                   *)
Boundary(d) ==
  spoilt[d] = 0 =>
    read[d] = Total(d) \/ \E i \in 1..Len(sent[d]) : sent[d][i].start = read[d]

(* A packet that was sent when nothing was under way is the next one to be *)
(* read until it is handled.                                               *)
Met(d) ==
  \A i \in 1..Len(sent[d]) : ~sent[d][i].behind =>
    /\ sent[d][i].start <= read[d]
    /\ spoilt[d] = 0 => read[d] = sent[d][i].start \/ i \in handled[d]

StreamInv ==
  \A d \in Dirs : Laid(sent[d]) /\ read[d] <= Total(d) /\ Boundary(d) /\ Met(d)

up == sent["up"]
down == sent["down"]
AuthSent == Len(up) >= 2 /\ up[2].type = "AUTH_REQ"
Answered == \E i \in 1..Len(down) : down[i].type = "AUTH_RESP"

(* What the client has sent, ... *)
UpInv ==
  /\ cpc = "hello" <=> up = << >>
  /\ cpc \in {"await_ack", "auth"} => Len(up) = 1
  /\ \A i \in 1..Len(up) :
       /\ up[i].type \notin {"HELLO_ACK", "AUTH_RESP"}
       /\ up[i].type = "HELLO" <=> i = 1
       /\ up[i].type = "AUTH_REQ" => i = 2
       /\ up[i].type \in {"HELLO", "AUTH_REQ"} => ~up[i].behind
       /\ up[i].type \in {"KEY_REQ", "CHAT_SEND"} => Answered

(* ... what the server has, ... *)
DownInv ==
  /\ down = << >> <=> spc = "HELLO"
  /\ \A i \in 1..Len(down) :
       /\ down[i].type \notin {"HELLO", "AUTH_REQ"}
       /\ down[i].type = "HELLO_ACK" <=> i = 1
       /\ down[i].type = "HELLO_ACK" => ~down[i].behind
       /\ down[i].type = "AUTH_RESP" =>
            ~down[i].behind \/ (i > 1 /\ down[i - 1].type = "CHAT_DELIVER")
       /\ spc \in {"registered", "owed"} => i = 1 \/ down[i].type = "CHAT_DELIVER"
  /\ spc \in {"AUTH", "queued", "refused"} /\ ~Answered => Len(down) = 1

(* ... and how far the other side is then. *)
StepInv ==
  /\ spc = "HELLO" => read["up"] = 0
  /\ spc # "HELLO" => up # << >> /\ up[1].end <= read["up"]
  /\ spc \notin {"HELLO", "AUTH"} \/ Answered => AuthSent
  /\ spc \in {"queued", "registered", "refused", "owed"} => ~Answered
  /\ cpc = "auth" => /\ spc = "AUTH" /\ ~Answered
                     /\ read["up"] = End(up) /\ read["down"] = End(down)
  /\ AuthSent => spc # "HELLO" /\ down[1].end <= read["down"]
  /\ AuthSent /\ read["up"] < up[2].end => spc = "AUTH" /\ ~Answered
  /\ cpc \in {"chat", "await_key", "leaving"} => Answered

Unspoilt == spoilt["up"] = 0 /\ spoilt["down"] = 0
LoginInv == Unspoilt => UpInv /\ DownInv /\ StepInv

FramingInv == TypeInv /\ StreamInv /\ LoginInv

-----------------------------------------------------------------------------
(* Packets that lie one behind the other. *)
LEMMA SeqFacts ==
  ASSUME NEW s \in Seq(Packets)
  PROVE  /\ Len(s) \in Nat
         /\ s = << >> <=> Len(s) = 0
         /\ DOMAIN s = 1..Len(s)
         /\ \A i \in 1..Len(s) : /\ s[i] \in Packets /\ i \in Nat
                                 /\ s[i].type \in Types /\ s[i].behind \in BOOLEAN
                                 /\ s[i].start \in Nat /\ s[i].end \in Nat
<1>1. Len(s) \in Nat /\ DOMAIN s = 1..Len(s) /\ (s = << >> <=> Len(s) = 0)
  BY EmptySeq, LenProperties
<1>2. \A i \in 1..Len(s) : s[i] \in Packets
  BY ElementOfSeq
<1> QED
  BY <1>1, <1>2 DEF Packets

LEMMA LaidFacts ==
  ASSUME NEW s \in Seq(Packets), Laid(s)
  PROVE  /\ End(s) \in Nat
         /\ \A i \in 1..Len(s) : s[i].start < s[i].end /\ s[i].end <= End(s)
         /\ \A i, j \in 1..Len(s) : s[i].start = s[j].start => i = j
         /\ \A i, j \in 1..Len(s) : s[j].start < s[i].end => s[j].end <= s[i].end
         /\ \A i \in 1..Len(s) :
              s[i].end = End(s) \/ \E j \in 1..Len(s) : s[j].start = s[i].end
<1>0. /\ Len(s) \in Nat /\ s = << >> <=> Len(s) = 0
      /\ \A i \in 1..Len(s) : i \in Nat /\ s[i].start \in Nat /\ s[i].end \in Nat
  BY SeqFacts
<1>1. \A i \in 1..Len(s) : s[i].start < s[i].end
  BY <1>0 DEF Laid, FIXED_LEN
<1>2. \A i, j \in 1..Len(s) : i < j => s[i].end <= s[j].start
  BY DEF Laid
<1>3. End(s) \in Nat
  <2>1. s # << >> => Len(s) \in 1..Len(s)
    BY <1>0
  <2> QED
    BY <1>0, <2>1 DEF End
<1>4. ASSUME NEW i \in 1..Len(s) PROVE s[i].end <= End(s)
  <2>1. s # << >> /\ Len(s) \in 1..Len(s)
    BY <1>0
  <2>2. End(s) = s[Len(s)].end
    BY <2>1 DEF End
  <2>3. i = Len(s) \/ i < Len(s)
    BY <1>0
  <2>4. CASE i = Len(s)
    BY <1>0, <2>1, <2>2, <2>4
  <2>5. CASE i < Len(s)
    BY <1>0, <1>1, <1>2, <2>1, <2>2, <2>5
  <2> QED
    BY <2>3, <2>4, <2>5
<1>5. ASSUME NEW i \in 1..Len(s), NEW j \in 1..Len(s)
      PROVE  /\ s[i].start = s[j].start => i = j
             /\ s[j].start < s[i].end => s[j].end <= s[i].end
  <2>1. i = j \/ i < j \/ j < i
    BY <1>0
  <2>2. CASE i < j
    BY <1>0, <1>1, <1>2, <2>2
  <2>3. CASE j < i
    BY <1>0, <1>1, <1>2, <2>3
  <2> QED
    BY <1>0, <2>1, <2>2, <2>3
<1>6. ASSUME NEW i \in 1..Len(s)
      PROVE  s[i].end = End(s) \/ \E j \in 1..Len(s) : s[j].start = s[i].end
  <2>1. CASE i = Len(s)
    BY <1>0, <2>1 DEF End
  <2>2. CASE i # Len(s)
    <3>1. i + 1 \in 1..Len(s) /\ i + 1 # 1 /\ (i + 1) - 1 = i
      BY <1>0, <2>2
    <3>2. s[i + 1].start = s[i].end
      BY <3>1 DEF Laid
    <3> QED
      BY <3>1, <3>2
  <2> QED
    BY <2>1, <2>2
<1> QED
  BY <1>1, <1>3, <1>4, <1>5, <1>6

LEMMA AppendFacts ==
  ASSUME NEW s \in Seq(Packets), NEW p \in Packets
  PROVE  /\ Append(s, p) \in Seq(Packets)
         /\ Append(s, p) # << >>
         /\ Len(Append(s, p)) = Len(s) + 1
         /\ \A i \in 1..Len(Append(s, p)) : i \in 1..Len(s) \/ i = Len(s) + 1
         /\ \A i \in 1..Len(s) : i \in 1..Len(Append(s, p)) /\ Append(s, p)[i] = s[i]
         /\ Len(s) + 1 \in 1..Len(Append(s, p))
         /\ Append(s, p)[Len(s) + 1] = p
         /\ End(Append(s, p)) = p.end
<1>1. /\ Append(s, p) \in Seq(Packets) /\ Len(s) \in Nat
      /\ Len(Append(s, p)) = Len(s) + 1
      /\ \A i \in 1..Len(s) : Append(s, p)[i] = s[i]
      /\ Append(s, p)[Len(s) + 1] = p
      /\ Append(s, p) # << >>
  BY AppendProperties, LenProperties, EmptySeq
<1>2. End(Append(s, p)) = p.end
  BY <1>1 DEF End
<1> QED
  BY <1>1, <1>2

LEMMA LaidAppend ==
  ASSUME NEW s \in Seq(Packets), Laid(s), NEW p \in Packets,
         p.start = End(s), p.start + FIXED_LEN <= p.end
  PROVE  Laid(Append(s, p))
<1> DEFINE t == Append(s, p)
<1>0. Len(s) \in Nat /\ (s = << >> <=> Len(s) = 0)
  BY SeqFacts
<1>1. /\ \A i \in 1..Len(t) : i \in 1..Len(s) \/ i = Len(s) + 1
      /\ \A i \in 1..Len(s) : t[i] = s[i]
      /\ t[Len(s) + 1] = p /\ Len(t) = Len(s) + 1
  BY AppendFacts
<1>2. \A i \in 1..Len(s) : s[i].end <= End(s)
  BY LaidFacts
<1> HIDE DEF t
<1>3. ASSUME NEW i \in 1..Len(t)
      PROVE  /\ t[i].start + FIXED_LEN <= t[i].end
             /\ t[i].start = IF i = 1 THEN 0 ELSE t[i - 1].end
             /\ \A j \in 1..Len(t) : i < j => t[i].end <= t[j].start
  <2>1. CASE i \in 1..Len(s)
    <3>1. t[i] = s[i] /\ (i # 1 => i - 1 \in 1..Len(s) /\ t[i - 1] = s[i - 1])
      BY <1>0, <1>1, <2>1
    <3>2. /\ t[i].start + FIXED_LEN <= t[i].end
          /\ t[i].start = IF i = 1 THEN 0 ELSE t[i - 1].end
      BY <2>1, <3>1 DEF Laid
    <3>3. ASSUME NEW j \in 1..Len(t), i < j PROVE t[i].end <= t[j].start
      <4>1. CASE j \in 1..Len(s)
        BY <1>1, <2>1, <3>1, <3>3, <4>1 DEF Laid
      <4>2. CASE j = Len(s) + 1
        BY <1>1, <1>2, <2>1, <3>1, <4>2
      <4> QED
        BY <1>1, <4>1, <4>2
    <3> QED
      BY <3>2, <3>3
  <2>2. CASE i = Len(s) + 1
    <3>1. t[i] = p /\ \A j \in 1..Len(t) : ~(i < j)
      BY <1>0, <1>1, <2>2
    <3>2. p.start = IF i = 1 THEN 0 ELSE t[i - 1].end
      <4>1. CASE s = << >>
        BY <1>0, <2>2, <4>1 DEF End
      <4>2. CASE s # << >>
        <5>1. i # 1 /\ i - 1 = Len(s) /\ Len(s) \in 1..Len(s)
          BY <1>0, <2>2, <4>2
        <5>2. p.start = s[Len(s)].end /\ t[Len(s)] = s[Len(s)]
          BY <1>1, <4>2, <5>1 DEF End
        <5> QED
          BY <5>1, <5>2
      <4> QED
        BY <4>1, <4>2
    <3> QED
      BY <3>1, <3>2
  <2> QED
    BY <1>1, <2>1, <2>2
<1> QED
  BY <1>3 DEF t, Laid

-----------------------------------------------------------------------------
(* The streams. *)
LEMMA BodyLens ==
  /\ \A t \in Types : BodyLen[t] \in Nat
  /\ {"HELLO", "HELLO_ACK", "AUTH_REQ", "AUTH_RESP", "KEY_REQ", "KEY_RESP", "ERROR", "NOT_FOUND",
      "BYE", "CHAT_SEND", "CHAT_DELIVER"} = Types
BY FramingAssumption DEF BodyLen, Types

NewPacket(d, t) ==
  [type |-> t, start |-> Total(d), end |-> Total(d) + FIXED_LEN + BodyLen[t],
   behind |-> read[d] < Total(d)]

LEMMA StreamFacts ==
  ASSUME TypeInv, StreamInv, NEW d \in Dirs
  PROVE  /\ sent[d] \in Seq(Packets) /\ Laid(sent[d])
         /\ Total(d) = End(sent[d]) /\ Total(d) \in Nat
         /\ read[d] \in Nat /\ read[d] <= Total(d)
         /\ spoilt[d] \in Nat /\ handled[d] \in SUBSET Nat
<1>1. /\ sent[d] \in Seq(Packets) /\ Laid(sent[d])
      /\ read[d] \in Nat /\ read[d] <= Total(d)
      /\ spoilt[d] \in Nat /\ handled[d] \in SUBSET Nat
  BY DEF TypeInv, StreamInv
<1>2. Total(d) = End(sent[d])
  BY DEF Total, End
<1> QED
  BY <1>1, <1>2, LaidFacts

LEMMA NewPacketFacts ==
  ASSUME TypeInv, StreamInv, NEW d \in Dirs, NEW t \in Types
  PROVE  /\ NewPacket(d, t) \in Packets
         /\ NewPacket(d, t).type = t
         /\ NewPacket(d, t).start = Total(d)
         /\ NewPacket(d, t).start + FIXED_LEN <= NewPacket(d, t).end
         /\ NewPacket(d, t).behind \/ read[d] = Total(d)
         /\ read[d] = Total(d) => ~NewPacket(d, t).behind
<1>1. /\ Total(d) \in Nat /\ BodyLen[t] \in Nat /\ FIXED_LEN = 12
      /\ read[d] \in Nat /\ read[d] <= Total(d)
  BY StreamFacts, BodyLens DEF FIXED_LEN
<1>2. read[d] < Total(d) <=> read[d] # Total(d)
  BY <1>1
<1>3. /\ NewPacket(d, t).behind \/ read[d] = Total(d)
      /\ read[d] = Total(d) => ~NewPacket(d, t).behind
  <2>1. NewPacket(d, t).behind = (read[d] < Total(d))
    BY DEF NewPacket
  <2> QED
    BY <1>2, <2>1, Zenon
<1>4. /\ NewPacket(d, t) \in Packets
      /\ NewPacket(d, t).start + FIXED_LEN <= NewPacket(d, t).end
  BY <1>1 DEF NewPacket, Packets
<1> QED
  BY <1>3, <1>4 DEF NewPacket

(* A direction in a step: nothing happens to it, a packet is sent, or an   *)
(* event is delivered, which ends after a packet unless it is spoilt.      *)
Still(d) == read'[d] = read[d] /\ handled'[d] = handled[d] /\ spoilt'[d] = spoilt[d]
Sends(d, t) == sent'[d] = Append(sent[d], NewPacket(d, t)) /\ Still(d)
Handles(d, i) ==
  /\ sent[d][i].start = read[d]
  /\ sent[d][i].end <= read'[d]
  /\ handled'[d] = handled[d] \cup {i}
  /\ Takes(d, sent[d][i].type)
Gets(d) ==
  /\ sent'[d] = sent[d]
  /\ read'[d] \in Nat /\ read[d] < read'[d] /\ read'[d] <= Total(d)
  /\ handled'[d] \in SUBSET Nat
  /\ \/ spoilt'[d] = spoilt[d] + 1
     \/ /\ spoilt'[d] = spoilt[d]
        /\ read'[d] \in Ends(d)
        /\ spoilt[d] = 0 => \E i \in 1..Len(sent[d]) : Handles(d, i)

LEMMA SendIs ==
  ASSUME TypeInv, NEW d \in Dirs, NEW t, Send(d, t)
  PROVE  /\ sent' = [sent EXCEPT ![d] = Append(sent[d], NewPacket(d, t))]
         /\ sent'[d] = Append(sent[d], NewPacket(d, t))
         /\ \A e \in Dirs \ {d} : sent'[e] = sent[e]
<1>1. sent' = [sent EXCEPT ![d] = Append(sent[d], NewPacket(d, t))]
  BY DEF Send, NewPacket
<1>2. DOMAIN sent = Dirs
  BY DEF TypeInv
<1> QED
  BY <1>1, <1>2

(* What is sent, by whom, and when. *)
ClientSends ==
  \/ SendHello /\ Send("up", "HELLO")
  \/ SendAuthReq /\ Send("up", "AUTH_REQ")
  \/ SendKeyReq /\ Send("up", "KEY_REQ")
  \/ SendChat /\ Send("up", "CHAT_SEND")
  \/ Leave /\ Send("up", "BYE")
ServerSends ==
  \/ SendAuthResp /\ Send("down", "AUTH_RESP")
  \/ Deliver /\ Send("down", "CHAT_DELIVER")
  \/ Stop /\ Send("down", "BYE")

LEMMA MainSteps ==
  ASSUME Main
  PROVE  /\ UNCHANGED <<read, handled, spoilt>>
         /\ ClientSends \/ ServerSends \/ sent' = sent
BY DEF Main, SendHello, SendAuthReq, SendKeyReq, SendChat, KeyTimeout, Leave, Register,
  SendAuthResp, Deliver, Stop, Works, wire, ClientSends, ServerSends

(* A handler sends at most one packet, to the other side. *)
LEMMA TakesSends ==
  ASSUME TypeInv, NEW d \in Dirs, NEW t, Takes(d, t)
  PROVE  /\ sent' = sent \/ \E e \in Dirs \ {d}, k \in Types : Send(e, k)
         /\ sent'[d] = sent[d]
<1>1. CASE d = "up"
  <2>1. sent' = sent \/ \E k \in Types : Send("down", k)
    BY <1>1, BodyLens DEF Takes, ServerTakes, ProcessHello, ProcessAuthReq
  <2> QED
    BY <1>1, <2>1, SendIs DEF Dirs, TypeInv
<1>2. CASE d = "down"
  <2>1. sent' = sent \/ \E k \in Types : Send("up", k)
    BY <1>2, BodyLens DEF Takes, ClientTakes
  <2> QED
    BY <1>2, <2>1, SendIs DEF Dirs, TypeInv
<1> QED
  BY <1>1, <1>2 DEF Dirs

LEMMA CutFacts ==
  ASSUME TypeInv, StreamInv, NEW d \in Dirs, NEW to \in CutPoints(d)
  PROVE  to \in Nat /\ read[d] < to /\ to <= Total(d)
<1>1. DOMAIN sent[d] = 1..Len(sent[d])
      /\ \A i \in 1..Len(sent[d]) : sent[d][i].start \in Nat /\ sent[d][i].end \in Nat
  BY StreamFacts, SeqFacts
<1>2. \A i \in DOMAIN sent[d] : \A k \in {FIXED_LEN - 1, FIXED_LEN} : sent[d][i].start + k \in Nat
  BY <1>1 DEF FIXED_LEN
<1> QED
  BY <1>1, <1>2 DEF CutPoints, Ends

(* An event that ends after a packet, on a stream of which none was        *)
(* spoilt, holds the packet that begins it whole, and that one is handled. *)
LEMMA CleanEvent ==
  ASSUME TypeInv, StreamInv, NEW d \in Dirs, NEW to \in CutPoints(d), to \in Ends(d),
         OnStreamRecv(d, to), read' = [read EXCEPT ![d] = to], spoilt[d] = 0
  PROVE  \E i \in 1..Len(sent[d]) : Handles(d, i)
<1>0. read'[d] = to
  BY DEF TypeInv
<1>1. /\ sent[d] \in Seq(Packets) /\ Laid(sent[d]) /\ DOMAIN sent[d] = 1..Len(sent[d])
      /\ read[d] \in Nat /\ to \in Nat /\ read[d] < to /\ to <= Total(d)
      /\ \A i \in 1..Len(sent[d]) : sent[d][i].start \in Nat /\ sent[d][i].end \in Nat
  BY StreamFacts, SeqFacts, CutFacts
<1>2. PICK i \in 1..Len(sent[d]) : sent[d][i].start = read[d]
  <2>1. Boundary(d) /\ Total(d) \in Nat
    BY StreamFacts DEF StreamInv
  <2> QED
    BY <1>1, <2>1 DEF Boundary
<1>3. sent[d][i].end <= to
  <2>1. PICK j \in 1..Len(sent[d]) : to = sent[d][j].end
    BY <1>1 DEF Ends
  <2> QED
    BY <1>1, <1>2, <2>1, LaidFacts
<1>4. ~TooShort(to - read[d])
  <2>1. sent[d][i].start + FIXED_LEN <= sent[d][i].end
    BY <1>1 DEF Laid
  <2> QED
    BY <1>1, <1>2, <1>3, <2>1 DEF TooShort, FIXED_LEN
<1>5. PICK j \in 1..Len(sent[d]) :
        /\ sent[d][j].start = read[d]
        /\ handled' = [handled EXCEPT ![d] = IF sent[d][j].end <= to THEN @ \cup {j} ELSE @]
        /\ Takes(d, sent[d][j].type)
  BY <1>1, <1>2, <1>4 DEF OnStreamRecv
<1>6. j = i
  BY <1>1, <1>2, <1>5, LaidFacts
<1>7. handled'[d] = handled[d] \cup {i}
  BY <1>3, <1>5, <1>6 DEF TypeInv
<1> QED
  BY <1>0, <1>2, <1>3, <1>5, <1>6, <1>7 DEF Handles

LEMMA ReceiveEffect ==
  ASSUME TypeInv, StreamInv, NEW d \in Dirs, NEW to \in CutPoints(d), Receive(d, to)
  PROVE  /\ Gets(d)
         /\ sent' = sent \/ \E e \in Dirs \ {d}, k \in Types : Send(e, k)
         /\ \A e \in Dirs \ {d} : Still(e)
         /\ read' \in [Dirs -> Nat] /\ handled' \in [Dirs -> SUBSET Nat] /\ spoilt' \in [Dirs -> Nat]
<1>1. /\ to \in Nat /\ read[d] < to /\ to <= Total(d) /\ DOMAIN sent[d] = 1..Len(sent[d])
      /\ spoilt[d] \in Nat
  BY CutFacts, StreamFacts, SeqFacts
<1>2. read' = [read EXCEPT ![d] = to] /\ read'[d] = to
  BY DEF Receive, TypeInv
<1>3. \/ \E i \in 1..Len(sent[d]) :
           handled' = [handled EXCEPT ![d] = IF sent[d][i].end <= to THEN @ \cup {i} ELSE @]
      \/ handled' = handled
  BY <1>1 DEF Receive, OnStreamRecv
<1>4. handled' \in [Dirs -> SUBSET Nat] /\ \A e \in Dirs \ {d} : handled'[e] = handled[e]
  <2>1. PICK H \in SUBSET Nat : handled' = [handled EXCEPT ![d] = H]
    <3>1. handled[d] \in SUBSET Nat /\ handled = [handled EXCEPT ![d] = handled[d]]
      BY DEF TypeInv
    <3>2. \A i \in 1..Len(sent[d]) :
            (IF sent[d][i].end <= to THEN handled[d] \cup {i} ELSE handled[d]) \in SUBSET Nat
      BY <3>1, StreamFacts, SeqFacts
    <3> QED
      BY <1>3, <3>1, <3>2
  <2> QED
    BY <2>1 DEF TypeInv
<1>5. /\ sent'[d] = sent[d]
      /\ sent' = sent \/ \E e \in Dirs \ {d}, k \in Types : Send(e, k)
  <2>1. sent' = sent \/ \E t : Takes(d, t)
    BY DEF Receive, OnStreamRecv
  <2> QED
    BY <2>1, TakesSends
<1>6. \/ spoilt' = [spoilt EXCEPT ![d] = spoilt[d] + 1]
      \/ spoilt' = spoilt /\ to \in Ends(d) /\ OnStreamRecv(d, to)
  BY DEF Receive, Spoil, TypeInv
<1>7. spoilt' \in [Dirs -> Nat] /\ \A e \in Dirs \ {d} : spoilt'[e] = spoilt[e]
  <2>1. spoilt \in [Dirs -> Nat] /\ spoilt[d] + 1 \in Nat
    BY <1>1 DEF TypeInv
  <2> QED
    BY <1>6, <2>1
<1>8. read' \in [Dirs -> Nat] /\ \A e \in Dirs \ {d} : read'[e] = read[e]
  BY <1>1, <1>2 DEF TypeInv
<1>9. \/ spoilt'[d] = spoilt[d] + 1
      \/ /\ spoilt'[d] = spoilt[d]
         /\ read'[d] \in Ends(d)
         /\ spoilt[d] = 0 => \E i \in 1..Len(sent[d]) : Handles(d, i)
  <2>1. CASE spoilt' = [spoilt EXCEPT ![d] = spoilt[d] + 1]
    BY <2>1 DEF TypeInv
  <2>2. CASE spoilt' = spoilt /\ to \in Ends(d) /\ OnStreamRecv(d, to)
    BY <1>2, <2>2, CleanEvent
  <2> QED
    BY <1>6, <2>1, <2>2
<1>10. Gets(d)
  BY <1>1, <1>2, <1>4, <1>5, <1>9 DEF Gets
<1> QED
  BY <1>4, <1>5, <1>7, <1>8, <1>10 DEF Still

(* What any step does to the streams. *)
LEMMA StepEffect ==
  ASSUME TypeInv, StreamInv, [Next]_vars
  PROVE  /\ read' \in [Dirs -> Nat] /\ handled' \in [Dirs -> SUBSET Nat] /\ spoilt' \in [Dirs -> Nat]
         /\ sent' \in [Dirs -> Seq(Packets)]
         /\ \A d \in Dirs :
              \/ sent'[d] = sent[d] /\ Still(d)
              \/ \E t \in Types : Sends(d, t)
              \/ Gets(d)
<1>0. ASSUME NEW e \in Dirs, NEW k \in Types, Send(e, k)
      PROVE  sent' \in [Dirs -> Seq(Packets)]
  <2>1. Append(sent[e], NewPacket(e, k)) \in Seq(Packets)
    BY NewPacketFacts, AppendFacts, StreamFacts
  <2> QED
    BY <1>0, <2>1, SendIs DEF TypeInv
<1>1. CASE Main
  <2>1. UNCHANGED <<read, handled, spoilt>> /\ (ClientSends \/ ServerSends \/ sent' = sent)
    BY <1>1, MainSteps
  <2>2. sent' = sent \/ \E e \in Dirs, k \in Types : Send(e, k)
    BY <2>1, BodyLens DEF ClientSends, ServerSends, Dirs
  <2>3. \A d \in Dirs : Still(d)
    BY <2>1 DEF Still
  <2>4. \A d \in Dirs : sent'[d] = sent[d] \/ \E t \in Types : Sends(d, t)
    BY <2>2, <2>3, SendIs DEF Sends
  <2> QED
    BY <1>0, <2>1, <2>2, <2>3, <2>4 DEF TypeInv
<1>2. ASSUME NEW d \in Dirs, NEW to \in CutPoints(d), Receive(d, to)
      PROVE  /\ read' \in [Dirs -> Nat] /\ handled' \in [Dirs -> SUBSET Nat]
             /\ spoilt' \in [Dirs -> Nat] /\ sent' \in [Dirs -> Seq(Packets)]
             /\ \A c \in Dirs :
                  \/ sent'[c] = sent[c] /\ Still(c)
                  \/ \E t \in Types : Sends(c, t)
                  \/ Gets(c)
  <2>1. /\ Gets(d)
        /\ sent' = sent \/ \E e \in Dirs \ {d}, k \in Types : Send(e, k)
        /\ \A e \in Dirs \ {d} : Still(e)
        /\ read' \in [Dirs -> Nat] /\ handled' \in [Dirs -> SUBSET Nat] /\ spoilt' \in [Dirs -> Nat]
    BY <1>2, ReceiveEffect
  <2>2. \A e \in Dirs \ {d} : sent'[e] = sent[e] \/ \E t \in Types : Sends(e, t)
    BY <2>1, SendIs DEF Sends
  <2> QED
    BY <1>0, <2>1, <2>2 DEF TypeInv
<1>3. CASE UNCHANGED vars
  BY <1>3 DEF vars, wire, TypeInv, Still
<1> QED
  BY <1>1, <1>2, <1>3 DEF Next

(* Each direction keeps its invariant. *)
LEMMA StreamKept ==
  ASSUME TypeInv, StreamInv, [Next]_vars
  PROVE  StreamInv'
<1> SUFFICES ASSUME NEW d \in Dirs
             PROVE  /\ Laid(sent'[d])
                    /\ read'[d] <= End(sent'[d])
                    /\ spoilt'[d] = 0 =>
                         \/ read'[d] = End(sent'[d])
                         \/ \E i \in 1..Len(sent'[d]) : sent'[d][i].start = read'[d]
                    /\ \A i \in 1..Len(sent'[d]) : ~sent'[d][i].behind =>
                         /\ sent'[d][i].start <= read'[d]
                         /\ spoilt'[d] = 0 => read'[d] = sent'[d][i].start \/ i \in handled'[d]
  BY DEF StreamInv, Boundary, Met, Total, End
<1>0. /\ sent[d] \in Seq(Packets) /\ Laid(sent[d]) /\ Total(d) = End(sent[d]) /\ Total(d) \in Nat
      /\ read[d] \in Nat /\ read[d] <= Total(d) /\ spoilt[d] \in Nat
      /\ Boundary(d) /\ Met(d)
      /\ DOMAIN sent[d] = 1..Len(sent[d])
      /\ \A i \in 1..Len(sent[d]) : sent[d][i].start \in Nat /\ sent[d][i].end \in Nat
  BY StreamFacts, SeqFacts DEF StreamInv
<1>1. CASE sent'[d] = sent[d] /\ Still(d)
  BY <1>0, <1>1 DEF Still, Boundary, Met
<1>2. ASSUME NEW t \in Types, Sends(d, t)
      PROVE  /\ Laid(sent'[d])
             /\ read'[d] <= End(sent'[d])
             /\ spoilt'[d] = 0 =>
                  \/ read'[d] = End(sent'[d])
                  \/ \E i \in 1..Len(sent'[d]) : sent'[d][i].start = read'[d]
             /\ \A i \in 1..Len(sent'[d]) : ~sent'[d][i].behind =>
                  /\ sent'[d][i].start <= read'[d]
                  /\ spoilt'[d] = 0 => read'[d] = sent'[d][i].start \/ i \in handled'[d]
  <2> DEFINE p == NewPacket(d, t)
  <2>1. /\ p \in Packets /\ p.start = Total(d) /\ p.start + FIXED_LEN <= p.end
        /\ p.behind \/ read[d] = Total(d)
    BY NewPacketFacts
  <2>1a. p.end \in Nat
    BY <2>1 DEF Packets
  <2> HIDE DEF p
  <2>2. sent'[d] = Append(sent[d], p) /\ Still(d)
    BY <1>2 DEF Sends, p
  <2>3. /\ \A i \in 1..Len(sent'[d]) : i \in 1..Len(sent[d]) \/ i = Len(sent[d]) + 1
        /\ \A i \in 1..Len(sent[d]) : i \in 1..Len(sent'[d]) /\ sent'[d][i] = sent[d][i]
        /\ Len(sent[d]) + 1 \in 1..Len(sent'[d]) /\ sent'[d][Len(sent[d]) + 1] = p
        /\ End(sent'[d]) = p.end
    BY <1>0, <2>1, <2>2, AppendFacts
  <2>4. Laid(sent'[d])
    BY <1>0, <2>1, <2>2, LaidAppend
  <2>5. read'[d] <= End(sent'[d])
    BY <1>0, <2>1, <2>1a, <2>2, <2>3 DEF Still, FIXED_LEN
  <2>6. spoilt'[d] = 0 => \E i \in 1..Len(sent'[d]) : sent'[d][i].start = read'[d]
    BY <1>0, <2>1, <2>2, <2>3 DEF Still, Boundary
  <2>7. ASSUME NEW i \in 1..Len(sent'[d]), ~sent'[d][i].behind
        PROVE  /\ sent'[d][i].start <= read'[d]
               /\ spoilt'[d] = 0 => read'[d] = sent'[d][i].start \/ i \in handled'[d]
    <3>1. CASE i \in 1..Len(sent[d])
      BY <1>0, <2>2, <2>3, <2>7, <3>1 DEF Still, Met
    <3>2. CASE i = Len(sent[d]) + 1
      <4>1. sent'[d][i] = p /\ read[d] = Total(d)
        BY <1>0, <2>1, <2>3, <2>7, <3>2
      <4> QED
        BY <1>0, <2>1, <2>2, <4>1 DEF Still
    <3> QED
      BY <2>3, <3>1, <3>2
  <2> QED
    BY <2>4, <2>5, <2>6, <2>7
<1>3. CASE Gets(d)
  <2>1. /\ sent'[d] = sent[d] /\ read'[d] \in Nat /\ read[d] < read'[d] /\ read'[d] <= End(sent'[d])
        /\ spoilt'[d] = 0 => /\ spoilt[d] = 0 /\ read'[d] \in Ends(d)
                             /\ \E i \in 1..Len(sent[d]) : Handles(d, i)
    BY <1>0, <1>3 DEF Gets
  <2>2. spoilt'[d] = 0 => \/ read'[d] = End(sent'[d])
                          \/ \E i \in 1..Len(sent'[d]) : sent'[d][i].start = read'[d]
    <3> SUFFICES ASSUME spoilt'[d] = 0
                 PROVE  \/ read'[d] = End(sent[d])
                        \/ \E i \in 1..Len(sent[d]) : sent[d][i].start = read'[d]
      BY <2>1
    <3>1. PICK j \in 1..Len(sent[d]) : read'[d] = sent[d][j].end
      BY <1>0, <2>1 DEF Ends
    <3>2. \/ sent[d][j].end = End(sent[d])
          \/ \E i \in 1..Len(sent[d]) : sent[d][i].start = sent[d][j].end
      BY <1>0, LaidFacts
    <3> QED
      BY <3>1, <3>2
  <2>3. ASSUME NEW i \in 1..Len(sent[d]), ~sent[d][i].behind
        PROVE  /\ sent[d][i].start <= read'[d]
               /\ spoilt'[d] = 0 => i \in handled'[d]
    <3>1. sent[d][i].start <= read[d]
      BY <1>0, <2>3 DEF Met
    <3>2. ASSUME spoilt'[d] = 0 PROVE i \in handled'[d]
      <4>1. PICK j \in 1..Len(sent[d]) : Handles(d, j)
        BY <2>1, <3>2
      <4>2. read[d] = sent[d][i].start \/ i \in handled[d]
        BY <1>0, <2>1, <2>3, <3>2 DEF Met
      <4>3. read[d] = sent[d][i].start => i = j
        BY <1>0, <4>1, LaidFacts DEF Handles
      <4> QED
        BY <4>1, <4>2, <4>3 DEF Handles
    <3> QED
      BY <1>0, <2>1, <3>1, <3>2
  <2> QED
    BY <1>0, <2>1, <2>2, <2>3
<1> QED
  BY <1>1, <1>2, <1>3, StepEffect

-----------------------------------------------------------------------------
(* The login.  The steps by which stream they add to. *)
LEMMA LoginFacts ==
  ASSUME TypeInv, StreamInv
  PROVE  /\ up \in Seq(Packets) /\ Laid(up) /\ Len(up) \in Nat /\ (up = << >> <=> Len(up) = 0)
         /\ down \in Seq(Packets) /\ Laid(down) /\ Len(down) \in Nat /\ (down = << >> <=> Len(down) = 0)
         /\ read["up"] \in Nat /\ read["up"] <= End(up) /\ End(up) \in Nat
         /\ read["down"] \in Nat /\ read["down"] <= End(down) /\ End(down) \in Nat
         /\ Total("up") = End(up) /\ Total("down") = End(down)
         /\ Len(up) = 1 => End(up) = up[1].end
         /\ Len(down) = 1 => End(down) = down[1].end
         /\ \A i \in 1..Len(up) : up[i].start \in Nat /\ up[i].end \in Nat
         /\ \A i \in 1..Len(down) : down[i].start \in Nat /\ down[i].end \in Nat
<1>1. "up" \in Dirs /\ "down" \in Dirs
  BY DEF Dirs
<1>2. /\ up \in Seq(Packets) /\ Laid(up) /\ down \in Seq(Packets) /\ Laid(down)
      /\ read["up"] \in Nat /\ read["up"] <= End(up) /\ Total("up") = End(up)
      /\ read["down"] \in Nat /\ read["down"] <= End(down) /\ Total("down") = End(down)
  BY <1>1, StreamFacts DEF up, down
<1>3. /\ Len(up) \in Nat /\ (up = << >> <=> Len(up) = 0)
      /\ Len(down) \in Nat /\ (down = << >> <=> Len(down) = 0)
      /\ \A i \in 1..Len(up) : up[i].start \in Nat /\ up[i].end \in Nat
      /\ \A i \in 1..Len(down) : down[i].start \in Nat /\ down[i].end \in Nat
  BY <1>2, SeqFacts
<1>4. End(up) \in Nat /\ End(down) \in Nat
  BY <1>2, LaidFacts
<1> QED
  BY <1>2, <1>3, <1>4 DEF End

(* The client sends a packet. *)
LEMMA UpSends ==
  ASSUME TypeInv, StreamInv, UpInv, DownInv, StepInv, NEW t \in Types,
         Sends("up", t), down' = down, spc' = spc, read["down"] <= read'["down"],
         read'["down"] \in Nat,
         t \notin {"HELLO_ACK", "AUTH_RESP"},
         t = "HELLO" <=> up = << >>,
         t = "AUTH_REQ" => cpc = "auth",
         t \in {"KEY_REQ", "CHAT_SEND"} => Answered,
         cpc' \notin {"hello", "auth"}, cpc' = "await_ack" => t = "HELLO",
         cpc' \in {"chat", "await_key", "leaving"} => Answered
  PROVE  UpInv' /\ DownInv' /\ StepInv'
<1> DEFINE p == NewPacket("up", t)
<1>0. /\ up \in Seq(Packets) /\ Len(up) \in Nat /\ (up = << >> <=> Len(up) = 0)
      /\ read["up"] \in Nat /\ read["up"] <= End(up) /\ Total("up") = End(up)
      /\ Len(down) = 1 => End(down) = down[1].end
      /\ read["down"] \in Nat /\ Len(down) \in Nat
      /\ (down = << >> <=> Len(down) = 0)
      /\ \A i \in 1..Len(down) : down[i].end \in Nat
  BY LoginFacts
<1>1. p \in Packets /\ p.type = t /\ (read["up"] = End(up) => ~p.behind)
  BY <1>0, NewPacketFacts DEF Dirs
<1>2. up' = Append(up, p) /\ read'["up"] = read["up"]
  BY DEF Sends, Still, up
<1> HIDE DEF p
<1>3. /\ up' # << >> /\ Len(up') = Len(up) + 1
      /\ \A i \in 1..Len(up') : i \in 1..Len(up) \/ i = Len(up) + 1
      /\ \A i \in 1..Len(up) : up'[i] = up[i]
      /\ up'[Len(up) + 1] = p
  BY <1>0, <1>1, <1>2, AppendFacts
<1>4. Answered' <=> Answered
  BY DEF Answered
<1>5. t \in {"HELLO", "AUTH_REQ"} => ~p.behind
  <2>1. up = << >> => End(up) = 0
    BY DEF End
  <2>2. t \in {"HELLO", "AUTH_REQ"} => read["up"] = End(up)
    BY <1>0, <2>1 DEF StepInv
  <2> QED
    BY <1>1, <2>2
<1>6. UpInv'
  <2>1. ASSUME NEW i \in 1..Len(up')
        PROVE  /\ up'[i].type \notin {"HELLO_ACK", "AUTH_RESP"}
               /\ up'[i].type = "HELLO" <=> i = 1
               /\ up'[i].type = "AUTH_REQ" => i = 2
               /\ up'[i].type \in {"HELLO", "AUTH_REQ"} => ~up'[i].behind
               /\ up'[i].type \in {"KEY_REQ", "CHAT_SEND"} => Answered
    <3>1. CASE i \in 1..Len(up)
      BY <1>3, <3>1 DEF UpInv
    <3>2. CASE i = Len(up) + 1
      BY <1>0, <1>1, <1>3, <1>5, <3>2 DEF UpInv
    <3> QED
      BY <1>3, <3>1, <3>2
  <2>2. cpc' = "await_ack" => Len(up') = 1
    BY <1>0, <1>3
  <2> QED
    BY <1>3, <1>4, <2>1, <2>2 DEF UpInv
<1>7. DownInv'
  BY <1>4 DEF DownInv
<1>8. up # << >> => up'[1] = up[1]
  BY <1>0, <1>3
<1>9. AuthSent => AuthSent' /\ up'[2] = up[2]
  BY <1>0, <1>3 DEF AuthSent
<1>10. AuthSent' /\ ~AuthSent => cpc = "auth"
  BY <1>0, <1>1, <1>3 DEF AuthSent
<1>11. AuthSent' => down[1].end <= read'["down"] /\ spc # "HELLO"
  <2>1. CASE AuthSent
    <3>1. 1 \in 1..Len(down)
      BY <1>0, <2>1 DEF StepInv, DownInv
    <3> QED
      BY <1>0, <2>1, <3>1 DEF StepInv
  <2>2. CASE cpc = "auth"
    <3>1. Len(down) = 1
      BY <2>2 DEF StepInv, DownInv
    <3> QED
      BY <1>0, <2>2, <3>1 DEF StepInv
  <2> QED
    BY <1>10, <2>1, <2>2
<1>12. AuthSent' /\ read'["up"] < up'[2].end => spc = "AUTH" /\ ~Answered
  BY <1>2, <1>9, <1>10 DEF StepInv
<1> QED
  BY <1>2, <1>3, <1>4, <1>6, <1>7, <1>8, <1>9, <1>11, <1>12 DEF StepInv

(* The server sends a packet. *)
LEMMA DownSends ==
  ASSUME TypeInv, StreamInv, UpInv, DownInv, StepInv, NEW t \in Types,
         Sends("down", t), up' = up, cpc' = cpc, read["up"] <= read'["up"], read'["up"] \in Nat,
         t \notin {"HELLO", "AUTH_REQ"},
         t = "HELLO_ACK" <=> spc = "HELLO",
         spc = "HELLO" => up # << >> /\ up[1].end <= read'["up"] /\ spc' = "AUTH",
         spc = "AUTH" => Answered,
         t = "AUTH_RESP" => spc \in {"refused", "registered", "owed"},
         spc' \notin {"HELLO", "queued", "refused", "owed"},
         spc' = "registered" => spc = "registered" /\ t = "CHAT_DELIVER",
         spc' = "AUTH" => t \in {"HELLO_ACK", "AUTH_RESP"} \/ Answered,
         spc' # "AUTH" => spc # "AUTH" \/ Answered
  PROVE  UpInv' /\ DownInv' /\ StepInv'
<1> DEFINE p == NewPacket("down", t)
<1>0. /\ up \in Seq(Packets) /\ Len(up) \in Nat /\ (up = << >> <=> Len(up) = 0)
      /\ down \in Seq(Packets) /\ Len(down) \in Nat /\ (down = << >> <=> Len(down) = 0)
      /\ read["up"] \in Nat /\ read["up"] <= End(up)
      /\ read["down"] \in Nat /\ read["down"] <= End(down) /\ Total("down") = End(down)
      /\ Len(down) = 1 => End(down) = down[1].end
      /\ \A i \in 1..Len(up) : up[i].end \in Nat
      /\ \A i \in 1..Len(down) : down[i].end \in Nat
  BY LoginFacts
<1>1. p \in Packets /\ p.type = t /\ (read["down"] = End(down) => ~p.behind)
  BY <1>0, NewPacketFacts DEF Dirs
<1>2. down' = Append(down, p) /\ read'["down"] = read["down"]
  BY DEF Sends, Still, down
<1> HIDE DEF p
<1>3. /\ down' # << >> /\ Len(down') = Len(down) + 1
      /\ \A i \in 1..Len(down') : i \in 1..Len(down) \/ i = Len(down) + 1
      /\ \A i \in 1..Len(down) : i \in 1..Len(down') /\ down'[i] = down[i]
      /\ down'[Len(down) + 1] = p /\ Len(down) + 1 \in 1..Len(down')
  BY <1>0, <1>1, <1>2, AppendFacts
<1>4. Answered' <=> (Answered \/ t = "AUTH_RESP")
  BY <1>1, <1>3 DEF Answered
<1>5. AuthSent' <=> AuthSent
  BY DEF AuthSent
<1>6. UpInv'
  BY <1>4 DEF UpInv
<1>7. t = "HELLO_ACK" => ~p.behind
  <2>1. down = << >> => End(down) = 0
    BY DEF End
  <2> QED
    BY <1>0, <1>1, <2>1 DEF DownInv
<1>8. t = "AUTH_RESP" => ~p.behind \/ (Len(down) > 1 /\ down[Len(down)].type = "CHAT_DELIVER")
  <2> SUFFICES ASSUME t = "AUTH_RESP", ~(Len(down) > 1 /\ down[Len(down)].type = "CHAT_DELIVER")
               PROVE  ~p.behind
    OBVIOUS
  <2>1. AuthSent /\ ~Answered /\ down # << >>
    BY DEF StepInv, DownInv
  <2>2. Len(down) = 1
    <3>1. CASE spc = "refused"
      BY <2>1, <3>1 DEF DownInv
    <3>2. CASE spc \in {"registered", "owed"}
      <4>1. Len(down) \in 1..Len(down)
        BY <1>0, <2>1
      <4>2. Len(down) = 1 \/ down[Len(down)].type = "CHAT_DELIVER"
        BY <3>2, <4>1 DEF DownInv
      <4>3. Len(down) = 1 \/ Len(down) > 1
        <5>1. \A n \in Nat : n # 0 => n = 1 \/ n > 1
          OBVIOUS
        <5>2. Len(down) \in Nat /\ Len(down) # 0
          BY <1>0, <2>1
        <5> QED
          BY <5>1, <5>2
      <4> QED
        BY <4>2, <4>3
    <3> QED
      BY <3>1, <3>2
  <2>3. read["down"] = End(down)
    BY <1>0, <2>1, <2>2 DEF StepInv
  <2> QED
    BY <1>1, <2>3
<1>9. DownInv'
  <2>1. ASSUME NEW i \in 1..Len(down')
        PROVE  /\ down'[i].type \notin {"HELLO", "AUTH_REQ"}
               /\ down'[i].type = "HELLO_ACK" <=> i = 1
               /\ down'[i].type = "HELLO_ACK" => ~down'[i].behind
               /\ down'[i].type = "AUTH_RESP" =>
                    ~down'[i].behind \/ (i > 1 /\ down'[i - 1].type = "CHAT_DELIVER")
               /\ spc' \in {"registered", "owed"} => i = 1 \/ down'[i].type = "CHAT_DELIVER"
    <3>1. CASE i \in 1..Len(down)
      <4>1. i > 1 => i - 1 \in 1..Len(down)
        BY <1>0, <3>1
      <4> QED
        BY <1>3, <3>1, <4>1 DEF DownInv
    <3>2. CASE i = Len(down) + 1
      <4>1. Len(down) > 1 => /\ i > 1 /\ i - 1 = Len(down) /\ Len(down) \in 1..Len(down)
        BY <1>0, <3>2
      <4>2. i = 1 <=> down = << >>
        BY <1>0, <3>2
      <4>3. down'[i] = p
        BY <1>3, <3>2
      <4>4. p.type = "HELLO_ACK" <=> i = 1
        BY <1>1, <4>2 DEF DownInv
      <4>5. p.type = "AUTH_RESP" => ~p.behind \/ (i > 1 /\ down'[i - 1].type = "CHAT_DELIVER")
        BY <1>1, <1>3, <1>8, <4>1
      <4> QED
        BY <1>1, <1>7, <4>3, <4>4, <4>5
    <3> QED
      BY <1>3, <3>1, <3>2
  <2>2. spc' \in {"AUTH", "queued", "refused"} /\ ~Answered' => Len(down') = 1
    BY <1>0, <1>3, <1>4 DEF DownInv
  <2> QED
    BY <1>3, <2>1, <2>2 DEF DownInv
<1>10. ~(cpc = "auth") /\ (AuthSent => spc # "HELLO")
  BY DEF StepInv
<1>11. spc # "HELLO" => up # << >> /\ up[1].end <= read'["up"] /\ down'[1] = down[1]
  <2>1. spc # "HELLO" => /\ up # << >> /\ up[1].end <= read["up"]
                         /\ 1 \in 1..Len(up) /\ 1 \in 1..Len(down)
    BY <1>0 DEF StepInv, DownInv
  <2> QED
    BY <1>0, <1>3, <2>1
<1>12. AuthSent /\ read'["up"] < up[2].end => FALSE
  <2>1. AuthSent => 2 \in 1..Len(up)
    BY <1>0 DEF AuthSent
  <2> QED
    BY <1>0, <2>1 DEF StepInv
<1>13. spc' # "AUTH" \/ Answered' => AuthSent
  BY <1>4 DEF StepInv
<1>14. spc' \in {"queued", "registered", "refused", "owed"} => ~Answered'
  BY <1>4 DEF StepInv
<1> QED
  BY <1>2, <1>4, <1>5, <1>6, <1>9, <1>10, <1>11, <1>12, <1>13, <1>14 DEF StepInv

(* The client receives and does not send, or gives up a wait. *)
LEMMA ClientQuiet ==
  ASSUME TypeInv, StreamInv, UpInv, DownInv, StepInv, up' = up, down' = down, spc' = spc,
         read'["up"] = read["up"], read'["down"] \in Nat, read["down"] <= read'["down"],
         read'["down"] <= End(down),
         \/ cpc' = cpc
         \/ /\ cpc # "hello" /\ cpc' \notin {"hello", "await_ack", "auth"}
            /\ cpc' \in {"chat", "await_key", "leaving"} => Answered
         \/ /\ cpc = "await_ack" /\ cpc' = "auth"
            /\ down # << >> /\ down[1].end <= read'["down"]
  PROVE  UpInv' /\ DownInv' /\ StepInv'
<1>0. /\ Len(up) \in Nat /\ (up = << >> <=> Len(up) = 0) /\ Len(down) \in Nat
      /\ (down = << >> <=> Len(down) = 0)
      /\ read["up"] \in Nat /\ read["up"] <= End(up) /\ End(up) \in Nat
      /\ read["down"] \in Nat /\ End(down) \in Nat
      /\ Len(up) = 1 => End(up) = up[1].end
      /\ Len(down) = 1 => End(down) = down[1].end
      /\ \A i \in 1..Len(up) : up[i].end \in Nat
      /\ \A i \in 1..Len(down) : down[i].end \in Nat
  BY LoginFacts
<1>1. (Answered' <=> Answered) /\ (AuthSent' <=> AuthSent)
  BY DEF Answered, AuthSent
<1>2. cpc = "hello" <=> cpc' = "hello"
  OBVIOUS
<1>3. cpc' \in {"await_ack", "auth"} => Len(up) = 1
  BY DEF UpInv
<1>4. UpInv'
  BY <1>1, <1>2, <1>3 DEF UpInv
<1>5. DownInv'
  BY <1>1 DEF DownInv
<1>6. AuthSent => down[1].end <= read'["down"]
  <2>1. AuthSent => 1 \in 1..Len(down)
    BY <1>0 DEF StepInv, DownInv
  <2> QED
    BY <1>0, <2>1 DEF StepInv
<1>7. cpc' = "auth" => spc = "AUTH" /\ ~Answered /\ read["up"] = End(up) /\ read'["down"] = End(down)
  <2>1. CASE cpc = "auth"
    BY <1>0, <2>1 DEF StepInv
  <2>2. CASE cpc = "await_ack" /\ cpc' = "auth" /\ down # << >> /\ down[1].end <= read'["down"]
    <3>0. Len(up) = 1
      BY <2>2 DEF UpInv
    <3>1. Len(up) = 1 /\ ~AuthSent
      BY <3>0 DEF AuthSent
    <3>2. spc = "AUTH" /\ ~Answered
      BY <2>2, <3>1 DEF StepInv, DownInv
    <3>3. Len(down) = 1
      BY <3>2 DEF DownInv
    <3>4. read'["down"] = End(down)
      BY <1>0, <2>2, <3>3
    <3>5. up[1].end <= read["up"]
      BY <3>2 DEF StepInv
    <3>6. read["up"] = End(up)
      BY <1>0, <3>1, <3>5
    <3> QED
      BY <3>2, <3>4, <3>6
  <2> QED
    BY <2>1, <2>2
<1>8. cpc' \in {"chat", "await_key", "leaving"} => Answered
  BY DEF StepInv
<1> QED
  BY <1>1, <1>4, <1>5, <1>6, <1>7, <1>8 DEF StepInv

(* The server receives and does not send, or settles a login. *)
LEMMA ServerQuiet ==
  ASSUME TypeInv, StreamInv, UpInv, DownInv, StepInv, up' = up, down' = down, cpc' = cpc,
         read'["down"] = read["down"], read'["up"] \in Nat, read["up"] <= read'["up"],
         read'["up"] <= End(up),
         \/ spc' = spc /\ (spc = "HELLO" => read'["up"] = read["up"])
         \/ spc = "queued" /\ spc' \in {"registered", "refused"}
         \/ spc = "AUTH" /\ spc' = "queued" /\ AuthSent /\ ~Answered /\ up[2].end <= read'["up"]
         \/ spc = "registered" /\ spc' = "owed"
         \/ spc = "ESTABLISHED" /\ spc' = "CLOSING"
  PROVE  UpInv' /\ DownInv' /\ StepInv'
<1>0. /\ Len(up) \in Nat /\ Len(down) \in Nat /\ (up = << >> <=> Len(up) = 0)
      /\ read["up"] \in Nat /\ read["up"] <= End(up) /\ End(up) \in Nat
      /\ \A i \in 1..Len(up) : up[i].end \in Nat
  BY LoginFacts
<1>1. (Answered' <=> Answered) /\ (AuthSent' <=> AuthSent)
  BY DEF Answered, AuthSent
<1>2. UpInv'
  BY <1>1 DEF UpInv
<1>3. spc = "HELLO" <=> spc' = "HELLO"
  OBVIOUS
<1>4. DownInv'
  <2>1. ASSUME NEW i \in 1..Len(down), spc' \in {"registered", "owed"}
        PROVE  i = 1 \/ down[i].type = "CHAT_DELIVER"
    <3>1. CASE spc \in {"registered", "owed"}
      BY <3>1 DEF DownInv
    <3>2. CASE spc = "queued"
      <4>1. Len(down) = 1
        BY <3>2 DEF DownInv, StepInv
      <4> QED
        BY <4>1
    <3> QED
      BY <2>1, <3>1, <3>2
  <2>2. spc' \in {"AUTH", "queued", "refused"} /\ ~Answered' => Len(down') = 1
    BY <1>1 DEF DownInv
  <2> QED
    BY <1>3, <2>1, <2>2 DEF DownInv
<1>5. spc' # "HELLO" => up # << >> /\ up[1].end <= read'["up"]
  <2>1. spc # "HELLO" => up # << >> /\ up[1].end <= read["up"] /\ 1 \in 1..Len(up)
    BY <1>0 DEF StepInv
  <2> QED
    BY <1>0, <1>3, <2>1
<1>6. spc' = "HELLO" => read'["up"] = 0
  BY <1>3 DEF StepInv
<1>7. spc' \notin {"HELLO", "AUTH"} \/ Answered => AuthSent
  BY DEF StepInv
<1>8. spc' \in {"queued", "registered", "refused", "owed"} => ~Answered
  BY DEF StepInv
<1>9. cpc = "auth" => spc' = "AUTH" /\ read'["up"] = End(up)
  <2> SUFFICES ASSUME cpc = "auth" PROVE spc' = "AUTH" /\ read'["up"] = End(up)
    OBVIOUS
  <2>1. Len(up) = 1 /\ spc = "AUTH" /\ read["up"] = End(up)
    BY DEF UpInv, StepInv
  <2>2. ~AuthSent
    BY <2>1 DEF AuthSent
  <2> QED
    BY <1>0, <2>1, <2>2
<1>10. AuthSent /\ read'["up"] < up[2].end => spc' = "AUTH" /\ ~Answered
  <2> SUFFICES ASSUME AuthSent, read'["up"] < up[2].end PROVE spc' = "AUTH" /\ ~Answered
    OBVIOUS
  <2>1. up[2].end \in Nat
    BY <1>0 DEF AuthSent
  <2>2. read["up"] < up[2].end /\ ~(up[2].end <= read'["up"])
    BY <1>0, <2>1
  <2>3. spc = "AUTH" /\ ~Answered
    BY <2>2 DEF StepInv
  <2> QED
    BY <2>2, <2>3
<1> QED
  BY <1>1, <1>2, <1>3, <1>4, <1>5, <1>6, <1>7, <1>8, <1>9, <1>10 DEF StepInv

-----------------------------------------------------------------------------
(* The server handles a packet. *)
LEMMA UpEvent ==
  ASSUME TypeInv, StreamInv, UpInv, DownInv, StepInv, Gets("up"), Still("down"),
         NEW i \in 1..Len(up), Handles("up", i)
  PROVE  UpInv' /\ DownInv' /\ StepInv'
<1> DEFINE t == up[i].type
<1>0. /\ up \in Seq(Packets) /\ Laid(up) /\ Len(up) \in Nat /\ (up = << >> <=> Len(up) = 0)
      /\ read["up"] \in Nat /\ Total("up") = End(up)
      /\ \A j \in 1..Len(up) : up[j].start \in Nat /\ up[j].end \in Nat
  BY LoginFacts
<1>1. /\ up' = up /\ read'["up"] \in Nat /\ read["up"] <= read'["up"] /\ read'["up"] <= End(up)
      /\ read'["down"] = read["down"]
  <2>1. up' = up /\ read'["up"] \in Nat /\ read["up"] < read'["up"] /\ read'["up"] <= End(up)
    BY <1>0 DEF Gets, up
  <2> QED
    BY <1>0, <2>1 DEF Still
<1>2. up[i].start = read["up"] /\ up[i].end <= read'["up"] /\ ServerTakes(t)
  BY DEF Handles, Takes, up
<1>3. up[i].start < up[i].end /\ up[i].start \in Nat /\ up[i].end \in Nat
  BY <1>0, LaidFacts
<1>4. spc = "HELLO" <=> i = 1
  <2>1. 1 \in 1..Len(up) /\ up # << >>
    BY <1>0
  <2>2. up[1].start = 0
    BY <1>0, <2>1 DEF Laid
  <2>3. ASSUME spc = "HELLO" PROVE i = 1
    <3>1. up[i].start = up[1].start
      BY <1>2, <2>2, <2>3 DEF StepInv
    <3> QED
      BY <1>0, <2>1, <3>1, LaidFacts
  <2>4. ASSUME i = 1, spc # "HELLO" PROVE FALSE
    <3>1. up[1].end <= read["up"]
      BY <2>4 DEF StepInv
    <3> QED
      BY <1>0, <1>2, <1>3, <2>4, <3>1
  <2> QED
    BY <2>3, <2>4
<1>5. t = "HELLO" <=> spc = "HELLO"
  BY <1>4 DEF UpInv
<1>6. t = "AUTH_REQ" => AuthSent /\ i = 2 /\ spc = "AUTH" /\ ~Answered
  <2> SUFFICES ASSUME t = "AUTH_REQ" PROVE AuthSent /\ i = 2 /\ spc = "AUTH" /\ ~Answered
    OBVIOUS
  <2>1. i = 2
    BY DEF UpInv
  <2>2. AuthSent
    BY <1>0, <2>1 DEF AuthSent
  <2>3. read["up"] < up[2].end
    BY <1>2, <1>3, <2>1
  <2> QED
    BY <2>1, <2>2, <2>3 DEF StepInv
<1>7. t \in {"KEY_REQ", "CHAT_SEND"} => Answered /\ AuthSent /\ spc \in {"AUTH", "ESTABLISHED", "CLOSING"}
  <2> SUFFICES ASSUME t \in {"KEY_REQ", "CHAT_SEND"}
               PROVE  Answered /\ AuthSent /\ spc \in {"AUTH", "ESTABLISHED", "CLOSING"}
    OBVIOUS
  <2>1. Answered
    BY DEF UpInv
  <2>2. AuthSent
    BY <2>1 DEF StepInv
  <2> QED
    BY <2>1, <2>2 DEF StepInv, TypeInv
<1> HIDE DEF t
<1>8. ASSUME NEW k \in Types, Send("down", k) PROVE Sends("down", k)
  BY <1>8, SendIs DEF Sends, Dirs
<1>9. CASE t = "HELLO" /\ ProcessHello
  <2>1. spc = "HELLO" /\ spc' = "AUTH" /\ cpc' = cpc /\ Sends("down", "HELLO_ACK")
    BY <1>8, <1>9, BodyLens DEF ProcessHello
  <2>2. up # << >> /\ up[1].end <= read'["up"]
    BY <1>0, <1>2, <1>4, <2>1
  <2> QED
    BY <1>1, <2>1, <2>2, DownSends, BodyLens
<1>10. CASE t = "AUTH_REQ" /\ ProcessAuthReq
  <2>1. spc' = "queued" /\ cpc' = cpc /\ down' = down
    BY <1>6, <1>10 DEF ProcessAuthReq, down
  <2> QED
    BY <1>1, <1>2, <1>6, <1>10, <2>1, ServerQuiet
<1>11. ASSUME NEW k \in {"KEY_RESP", "NOT_FOUND", "ERROR"}, Send("down", k), UNCHANGED ends,
              t \in {"KEY_REQ", "CHAT_SEND"}
       PROVE  UpInv' /\ DownInv' /\ StepInv'
  <2>1. k \in Types /\ k \notin {"HELLO_ACK", "AUTH_RESP"}
    BY BodyLens
  <2>2. Sends("down", k) /\ spc' = spc /\ cpc' = cpc
    BY <1>8, <1>11, <2>1 DEF ends
  <2>3. Answered /\ spc \in {"AUTH", "ESTABLISHED", "CLOSING"}
    BY <1>7, <1>11
  <2> QED
    BY <1>1, <2>1, <2>2, <2>3, DownSends
<1>12. CASE sent' = sent /\ UNCHANGED ends /\ t # "HELLO"
  <2>1. down' = down /\ cpc' = cpc /\ spc' = spc /\ spc # "HELLO"
    BY <1>5, <1>12 DEF down, ends
  <2> QED
    BY <1>1, <2>1, ServerQuiet
<1>13. CASE t = "BYE" /\ spc' \in (CASE spc = "registered" -> {"registered", "owed"}
                                     [] spc = "ESTABLISHED" -> {"CLOSING"}
                                     [] OTHER -> {spc})
            /\ UNCHANGED <<sent, cpc, sem, left>>
  <2>1. /\ down' = down /\ cpc' = cpc /\ spc # "HELLO"
        /\ \/ spc' = spc
           \/ spc = "registered" /\ spc' = "owed"
           \/ spc = "ESTABLISHED" /\ spc' = "CLOSING"
    BY <1>5, <1>13 DEF down
  <2> QED
    BY <1>1, <2>1, ServerQuiet
<1>14. Unexpected(t) => t \in {"KEY_REQ", "CHAT_SEND"}
  BY <1>5, <1>6 DEF Unexpected
<1> QED
  BY <1>2, <1>9, <1>10, <1>11, <1>12, <1>13, <1>14 DEF ServerTakes

(* The client handles a packet. *)
LEMMA DownEvent ==
  ASSUME TypeInv, StreamInv, UpInv, DownInv, StepInv, Gets("down"), Still("up"),
         NEW i \in 1..Len(down), Handles("down", i)
  PROVE  UpInv' /\ DownInv' /\ StepInv'
<1> DEFINE t == down[i].type
<1>0. /\ Len(up) \in Nat /\ (up = << >> <=> Len(up) = 0) /\ Len(down) \in Nat
      /\ (down = << >> <=> Len(down) = 0)
      /\ read["down"] \in Nat /\ Total("down") = End(down)
  BY LoginFacts
<1>1. /\ down' = down /\ read'["down"] \in Nat /\ read["down"] <= read'["down"]
      /\ read'["down"] <= End(down) /\ read'["up"] = read["up"]
  <2>1. /\ down' = down /\ read'["down"] \in Nat /\ read["down"] < read'["down"]
        /\ read'["down"] <= End(down)
    BY <1>0 DEF Gets, down
  <2> QED
    BY <1>0, <2>1 DEF Still
<1>2. down[i].end <= read'["down"] /\ ClientTakes(t)
  BY DEF Handles, Takes, down, Dirs
<1>3. t = "HELLO_ACK" <=> i = 1
  BY DEF DownInv
<1>4. t = "AUTH_RESP" => Answered
  BY DEF Answered
<1>5. down # << >> /\ spc # "HELLO" /\ up # << >>
  BY <1>0 DEF DownInv, StepInv
<1>6. cpc \in {"hello", "await_ack", "auth"} => i = 1
  <2> SUFFICES ASSUME cpc \in {"hello", "await_ack", "auth"} PROVE i = 1
    OBVIOUS
  <2>1. Len(up) = 1
    BY <1>5 DEF UpInv
  <2>2. ~AuthSent
    BY <2>1 DEF AuthSent
  <2>3. spc = "AUTH" /\ ~Answered
    BY <1>5, <2>2 DEF StepInv
  <2>4. Len(down) = 1
    BY <2>3 DEF DownInv
  <2> QED
    BY <2>4
<1> HIDE DEF t
<1>7. CASE sent' = sent /\ spc' = spc /\ cpc' = cpc
  BY <1>1, <1>7, ClientQuiet DEF up
<1>8. CASE t = "HELLO_ACK" /\ cpc = "await_ack" /\ cpc' = "auth" /\ sent' = sent /\ spc' = spc
  <2>1. up' = up
    BY <1>8 DEF up
  <2>2. down[1].end <= read'["down"]
    BY <1>2, <1>3, <1>8
  <2> QED
    BY <1>1, <1>5, <1>8, <2>1, <2>2, ClientQuiet
<1>9. CASE t = "AUTH_RESP" /\ cpc = "await_auth" /\ cpc' \in {"chat", "leaving"} /\ sent' = sent /\ spc' = spc
  BY <1>1, <1>4, <1>9, ClientQuiet DEF up
<1>10. CASE /\ t = "BYE" /\ Send("up", "BYE") /\ spc' = spc
            /\ cpc' = IF cpc \in {"chat", "await_key"} THEN "leaving" ELSE cpc
  <2>1. Sends("up", "BYE")
    BY <1>10, SendIs DEF Sends, Dirs
  <2>2. cpc \notin {"hello", "await_ack", "auth"}
    BY <1>3, <1>6, <1>10
  <2>3. /\ cpc' \notin {"hello", "auth", "await_ack"}
        /\ cpc' \in {"chat", "await_key", "leaving"} => Answered
    BY <1>10, <2>2 DEF StepInv
  <2> QED
    BY <1>1, <1>5, <1>10, <2>1, <2>3, UpSends, BodyLens
<1> QED
  BY <1>2, <1>7, <1>8, <1>9, <1>10 DEF ClientTakes, ends

(* main of either program takes a step. *)
LEMMA MainEvent ==
  ASSUME TypeInv, StreamInv, UpInv, DownInv, StepInv, Main
  PROVE  UpInv' /\ DownInv' /\ StepInv'
<1>0. /\ read["up"] \in Nat /\ read["up"] <= End(up) /\ Total("up") = End(up)
      /\ read["down"] \in Nat /\ read["down"] <= End(down) /\ Total("down") = End(down)
  BY LoginFacts
<1>1. /\ \A d \in Dirs : Still(d)
      /\ read'["up"] = read["up"] /\ read'["down"] = read["down"]
      /\ read["up"] <= read'["up"] /\ read["down"] <= read'["down"]
      /\ read'["up"] <= End(up) /\ read'["down"] <= End(down)
      /\ read'["up"] \in Nat /\ read'["down"] \in Nat
  <2>1. \A d \in Dirs : read'[d] = read[d] /\ handled'[d] = handled[d] /\ spoilt'[d] = spoilt[d]
    BY MainSteps
  <2>2. read'["up"] = read["up"] /\ read'["down"] = read["down"]
    BY <2>1 DEF Dirs
  <2>3. \A m \in Nat : m <= m
    OBVIOUS
  <2> QED
    BY <1>0, <2>1, <2>2, <2>3 DEF Still
<1>2. ASSUME NEW t \in Types, Send("up", t) PROVE Sends("up", t) /\ down' = down
  BY <1>1, <1>2, SendIs DEF Sends, Dirs, down
<1>3. ASSUME NEW t \in Types, Send("down", t) PROVE Sends("down", t) /\ up' = up
  BY <1>1, <1>3, SendIs DEF Sends, Dirs, up
<1>4. CASE SendHello
  <2>1. Sends("up", "HELLO") /\ down' = down /\ spc' = spc /\ cpc = "hello" /\ cpc' = "await_ack"
    BY <1>2, <1>4, BodyLens DEF SendHello
  <2>2. up = << >>
    BY <2>1 DEF UpInv
  <2> QED
    BY <1>1, <2>1, <2>2, UpSends, BodyLens
<1>5. CASE SendAuthReq
  <2>1. Sends("up", "AUTH_REQ") /\ down' = down /\ spc' = spc /\ cpc = "auth" /\ cpc' = "await_auth"
    BY <1>2, <1>5, BodyLens DEF SendAuthReq
  <2>2. up # << >>
    BY <2>1 DEF UpInv
  <2> QED
    BY <1>1, <2>1, <2>2, UpSends, BodyLens
<1>6. CASE SendKeyReq
  <2>1. Sends("up", "KEY_REQ") /\ down' = down /\ spc' = spc /\ cpc = "chat" /\ cpc' = "await_key"
    BY <1>2, <1>6, BodyLens DEF SendKeyReq
  <2>2. up # << >> /\ Answered
    BY <2>1 DEF UpInv, StepInv
  <2> QED
    BY <1>1, <2>1, <2>2, UpSends, BodyLens
<1>7. CASE SendChat
  <2>1. cpc = "await_key" /\ cpc' = "chat" /\ spc' = spc
    BY <1>7 DEF SendChat
  <2>2. up # << >> /\ Answered
    BY <2>1 DEF UpInv, StepInv
  <2>3. CASE sent' = sent
    <3>1. up' = up /\ down' = down
      BY <2>3 DEF up, down
    <3> QED
      BY <1>1, <2>1, <2>2, <3>1, ClientQuiet
  <2>4. CASE Send("up", "CHAT_SEND")
    <3>1. Sends("up", "CHAT_SEND") /\ down' = down
      BY <1>2, <2>4, BodyLens
    <3> QED
      BY <1>1, <2>1, <2>2, <3>1, UpSends, BodyLens
  <2> QED
    BY <1>7, <2>3, <2>4 DEF SendChat
<1>8. CASE KeyTimeout
  <2>1. cpc = "await_key" /\ cpc' = "chat" /\ spc' = spc /\ up' = up /\ down' = down
    BY <1>8 DEF KeyTimeout, up, down
  <2>2. Answered
    BY <2>1 DEF StepInv
  <2> QED
    BY <1>1, <2>1, <2>2, ClientQuiet
<1>9. CASE Leave
  <2>1. Sends("up", "BYE") /\ down' = down /\ spc' = spc /\ cpc # "hello" /\ cpc' = "gone"
    BY <1>2, <1>9, BodyLens DEF Leave
  <2>2. up # << >>
    BY <2>1 DEF UpInv
  <2> QED
    BY <1>1, <2>1, <2>2, UpSends, BodyLens
<1>10. CASE Register
  <2>1. spc = "queued" /\ spc' \in {"registered", "refused"} /\ cpc' = cpc /\ up' = up /\ down' = down
    BY <1>10 DEF Register, up, down
  <2> QED
    BY <1>1, <2>1, ServerQuiet
<1>11. CASE SendAuthResp
  <2>1. /\ Sends("down", "AUTH_RESP") /\ up' = up /\ cpc' = cpc
        /\ spc \in {"registered", "refused", "owed"}
        /\ spc' \in {"AUTH", "ESTABLISHED", "CLOSING"}
    BY <1>3, <1>11, BodyLens DEF SendAuthResp, Working
  <2> QED
    BY <1>1, <2>1, DownSends, BodyLens
<1>12. CASE Deliver
  <2>1. /\ Sends("down", "CHAT_DELIVER") /\ up' = up /\ cpc' = cpc
        /\ spc \in {"registered", "ESTABLISHED"} /\ spc' = spc
    BY <1>3, <1>12, BodyLens DEF Deliver, Listed
  <2> QED
    BY <1>1, <2>1, DownSends, BodyLens
<1>13. CASE Stop /\ Listed
  <2>1. /\ Sends("down", "BYE") /\ up' = up /\ cpc' = cpc
        /\ spc = "ESTABLISHED" /\ spc' = "ESTABLISHED"
    BY <1>3, <1>13, BodyLens DEF Stop, Listed, Working, ends
  <2> QED
    BY <1>1, <2>1, DownSends, BodyLens
<1>14. CASE Stop /\ ~Listed
  <2>1. up' = up /\ down' = down /\ cpc' = cpc /\ spc' = spc
    BY <1>14 DEF Stop, ends, up, down
  <2> QED
    BY <1>1, <2>1, ServerQuiet
<1> QED
  BY <1>4, <1>5, <1>6, <1>7, <1>8, <1>9, <1>10, <1>11, <1>12, <1>13, <1>14 DEF Main, Works

-----------------------------------------------------------------------------
(* The invariant and what follows from it. *)
LEMMA SpcKept ==
  ASSUME TypeInv, [Next]_vars
  PROVE  spc' \in {"HELLO", "AUTH", "queued", "registered", "refused", "owed",
           "ESTABLISHED", "CLOSING"}
<1> DEFINE S == {"HELLO", "AUTH", "queued", "registered", "refused", "owed",
           "ESTABLISHED", "CLOSING"}
<1>0. spc \in S
  BY DEF TypeInv
<1>1. CASE Main
  <2>1. CASE SendAuthResp
    BY <1>0, <2>1 DEF SendAuthResp, Working
  <2>2. CASE ~SendAuthResp
    BY <1>0, <1>1, <2>2 DEF Main, SendHello, SendAuthReq, SendKeyReq, SendChat, KeyTimeout,
      Leave, Register, Deliver, Stop, Works, ends
  <2> QED
    BY <2>1, <2>2
<1>2. ASSUME NEW d \in Dirs, NEW t, Takes(d, t) PROVE spc' \in S
  <2>1. CASE d = "up"
    BY <1>0, <1>2, <2>1 DEF Takes, ServerTakes, ProcessHello, ProcessAuthReq, ends
  <2>2. CASE d # "up"
    BY <1>0, <1>2, <2>2 DEF Takes, ClientTakes, ends
  <2> QED
    BY <2>1, <2>2
<1>3. ASSUME NEW d \in Dirs, NEW to \in CutPoints(d), Receive(d, to) PROVE spc' \in S
  <2>1. UNCHANGED ends \/ \E t : Takes(d, t)
    BY <1>3 DEF Receive, OnStreamRecv
  <2> QED
    BY <1>0, <1>2, <2>1 DEF ends
<1>4. CASE UNCHANGED vars
  BY <1>0, <1>4 DEF vars, wire, ends
<1> QED
  BY <1>1, <1>3, <1>4 DEF Next

(* The login keeps its invariant. *)
LEMMA LoginKept ==
  ASSUME FramingInv, [Next]_vars
  PROVE  LoginInv'
<1> SUFFICES ASSUME Unspoilt' PROVE UpInv' /\ DownInv' /\ StepInv'
  BY DEF LoginInv
<1>0. TypeInv /\ StreamInv /\ "up" \in Dirs /\ "down" \in Dirs
  BY DEF FramingInv, Dirs
<1>1. Unspoilt
  <2>1. ASSUME NEW d \in Dirs, spoilt'[d] = 0 PROVE spoilt[d] = 0
    <3>1. spoilt[d] \in Nat
      BY <1>0, StreamFacts
    <3>2. spoilt'[d] = spoilt[d] \/ spoilt'[d] = spoilt[d] + 1
      BY <1>0, StepEffect DEF Still, Sends, Gets
    <3> QED
      BY <2>1, <3>1, <3>2
  <2> QED
    BY <1>0, <2>1 DEF Unspoilt
<1>2. UpInv /\ DownInv /\ StepInv
  BY <1>1 DEF FramingInv, LoginInv
<1>3. CASE Main
  BY <1>0, <1>2, <1>3, MainEvent
<1>4. ASSUME NEW d \in Dirs, NEW to \in CutPoints(d), Receive(d, to)
      PROVE  UpInv' /\ DownInv' /\ StepInv'
  <2>1. Gets(d) /\ \A e \in Dirs \ {d} : Still(e)
    BY <1>0, <1>4, ReceiveEffect
  <2>2. spoilt'[d] = 0 /\ spoilt[d] = 0
    BY <1>1 DEF Unspoilt, Dirs
  <2>3. PICK i \in 1..Len(sent[d]) : Handles(d, i)
    BY <2>1, <2>2 DEF Gets
  <2>4. CASE d = "up"
    <3>1. i \in 1..Len(up) /\ Handles("up", i) /\ Gets("up") /\ Still("down")
      BY <2>1, <2>3, <2>4 DEF up, Dirs
    <3> QED
      BY <1>0, <1>2, <3>1, UpEvent
  <2>5. CASE d = "down"
    <3>1. i \in 1..Len(down) /\ Handles("down", i) /\ Gets("down") /\ Still("up")
      BY <2>1, <2>3, <2>5 DEF down, Dirs
    <3> QED
      BY <1>0, <1>2, <3>1, DownEvent
  <2> QED
    BY <2>4, <2>5 DEF Dirs
<1>5. CASE UNCHANGED vars
  BY <1>2, <1>5 DEF vars, wire, ends, UpInv, DownInv, StepInv, up, down, AuthSent, Answered
<1> QED
  BY <1>3, <1>4, <1>5 DEF Next

LEMMA InitFramingInv ==
  ASSUME Init
  PROVE  FramingInv
<1>1. TypeInv
  <2>1. << >> \in Seq(Packets)
    OBVIOUS
  <2> QED
    BY <2>1 DEF Init, TypeInv
<1>2. \A d \in Dirs : sent[d] = << >> /\ read[d] = 0 /\ Len(sent[d]) = 0 /\ 1..Len(sent[d]) = {}
  BY DEF Init
<1>3. StreamInv
  BY <1>2 DEF StreamInv, Laid, Total, Boundary, Met
<1>4. /\ up = << >> /\ down = << >> /\ read["up"] = 0 /\ spc = "HELLO" /\ cpc = "hello"
      /\ 1..Len(up) = {} /\ 1..Len(down) = {}
  BY <1>2 DEF Init, up, down, Dirs
<1>5. ~Answered /\ ~AuthSent
  BY <1>4 DEF Answered, AuthSent
<1>6. UpInv /\ DownInv /\ StepInv
  BY <1>4, <1>5 DEF UpInv, DownInv, StepInv
<1> QED
  BY <1>1, <1>3, <1>6 DEF FramingInv, LoginInv

(* Whatever packets wait together and however QUIC cuts the stream, the    *)
(* packets lie one behind the other, on_stream_recv begins at a packet as  *)
(* long as no event was spoilt, and until then the two streams hold what   *)
(* the two programs may have sent at their point of the login.             *)
THEOREM FramingCorrect == Spec => []FramingInv
<1>1. ASSUME FramingInv, [Next]_vars PROVE FramingInv'
  <2>1. TypeInv /\ StreamInv
    BY <1>1 DEF FramingInv
  <2>2. TypeInv'
    BY <1>1, <2>1, StepEffect, SpcKept DEF TypeInv
  <2>3. StreamInv'
    BY <1>1, <2>1, StreamKept
  <2>4. LoginInv'
    BY <1>1, LoginKept
  <2> QED
    BY <2>2, <2>3, <2>4 DEF FramingInv
<1> QED
  BY <1>1, InitFramingInv, PTL DEF Spec

LEMMA LostIsBehind ==
  ASSUME TypeInv, StreamInv, NEW d \in Dirs, NEW i \in 1..Len(sent[d]), Lost(d, i), spoilt[d] = 0
  PROVE  sent[d][i].behind
<1>1. /\ sent[d] \in Seq(Packets) /\ Laid(sent[d]) /\ Met(d) /\ read[d] \in Nat
  BY StreamFacts DEF StreamInv
<1>2. sent[d][i].start < sent[d][i].end /\ sent[d][i].start \in Nat /\ sent[d][i].end \in Nat
  BY <1>1, LaidFacts, SeqFacts
<1>3. sent[d][i].end <= read[d] /\ i \notin handled[d]
  BY DEF Lost
<1>4. read[d] # sent[d][i].start
  BY <1>1, <1>2, <1>3
<1> QED
  BY <1>1, <1>3, <1>4 DEF Met

(* stream_cb loses a packet only if it was sent while an earlier one was   *)
(* still under way, or if an event was cut inside a packet or not stored.  *)
THEOREM LossHasCause == Spec => []LossNeedsBacklog
<1>1. FramingInv => LossNeedsBacklog
  <2> SUFFICES ASSUME FramingInv, NEW d \in Dirs, NEW i \in DOMAIN sent[d], Lost(d, i), ~(spoilt[d] > 0)
               PROVE  sent[d][i].behind
    BY DEF LossNeedsBacklog
  <2>1. TypeInv /\ StreamInv
    BY DEF FramingInv
  <2>2. spoilt[d] \in Nat /\ DOMAIN sent[d] = 1..Len(sent[d])
    BY <2>1, StreamFacts, SeqFacts
  <2>3. spoilt[d] = 0
    BY <2>2
  <2> QED
    BY <2>1, <2>2, <2>3, LostIsBehind
<1> QED
  BY <1>1, FramingCorrect, PTL

(* As long as no event is spoilt, HELLO, HELLO_ACK and AUTH_REQ are never  *)
(* lost, because client.c waits for the answers, and AUTH_RESP only behind *)
(* a message sent between sqmp_registry_add and send_auth_resp.            *)
THEOREM LoginPacketsSafe == Spec => []LoginPacketsArrive
<1>1. FramingInv => LoginPacketsArrive
  <2> SUFFICES ASSUME FramingInv, NEW d \in Dirs, NEW i \in DOMAIN sent[d], Lost(d, i),
                      spoilt["up"] + spoilt["down"] = 0
               PROVE  /\ sent[d][i].type \notin {"HELLO", "HELLO_ACK", "AUTH_REQ"}
                      /\ sent[d][i].type = "AUTH_RESP" => sent[d][i - 1].type = "CHAT_DELIVER"
    BY DEF LoginPacketsArrive
  <2>1. TypeInv /\ StreamInv /\ i \in 1..Len(sent[d])
    BY StreamFacts, SeqFacts DEF FramingInv
  <2>2. spoilt["up"] = 0 /\ spoilt["down"] = 0
    <3>1. spoilt["up"] \in Nat /\ spoilt["down"] \in Nat
      BY <2>1 DEF TypeInv, Dirs
    <3> QED
      BY <3>1
  <2>3. UpInv /\ DownInv /\ StepInv
    BY <2>2 DEF FramingInv, LoginInv, Unspoilt
  <2>4. sent[d][i].behind
    BY <2>1, <2>2, LostIsBehind DEF Dirs
  <2>5. CASE d = "up"
    <3>1. i \in 1..Len(up) /\ up[i].behind
      BY <2>1, <2>4, <2>5 DEF up
    <3>2. up[i].type \notin {"HELLO", "AUTH_REQ", "HELLO_ACK", "AUTH_RESP"}
      BY <2>3, <3>1 DEF UpInv
    <3> QED
      BY <2>5, <3>2 DEF up
  <2>6. CASE d = "down"
    <3>1. i \in 1..Len(down) /\ down[i].behind
      BY <2>1, <2>4, <2>6 DEF down
    <3>2. /\ down[i].type \notin {"HELLO", "HELLO_ACK", "AUTH_REQ"}
          /\ down[i].type = "AUTH_RESP" => down[i - 1].type = "CHAT_DELIVER"
      BY <2>3, <3>1 DEF DownInv
    <3> QED
      BY <2>6, <3>2 DEF down
  <2> QED
    BY <2>5, <2>6 DEF Dirs
<1> QED
  BY <1>1, FramingCorrect, PTL
=============================================================================
