---------------------------- MODULE ClientProofs ----------------------------
(***************************************************************************)
(* The client and its server: proofs for any number of recipients and      *)
(* lines.  ClientInv is inductive.  SessionInv relates where main is, the  *)
(* client's session state and the server's; SentInv, AnsweredInv and       *)
(* PendingInv say what may be on the stream then; FetchInv follows one     *)
(* key fetch from KEY_REQ to the message that is encrypted.                *)
(***************************************************************************)
EXTENDS Client, SequenceTheorems, TLAPS

UpTypes == {"HELLO", "AUTH_REQ", "KEY_REQ", "CHAT_SEND", "BYE"}
DownTypes == {"HELLO_ACK", "AUTH_OK", "AUTH_INVALID", "KEY_RESP", "USER_NOT_FOUND",
              "COULD_NOT_SEND", "UNEXPECTED_MSG", "CHAT_DELIVER", "BYE"}
UpPackets == PacketsOf(UpTypes)
DownPackets == PacketsOf(DownTypes)

(* The server has answered the login with success. *)
Welcomed == {"ESTABLISHED", "stopping", "CLOSING"}
Owing == {"registered", "owed"}
(* main before it may send AUTH_REQ. *)
Early == {"connect", "stream", "hello"}
Greeting == {"ready", "readyBlocked", "testLogin", "login", "sendAuth"}

ConnInv ==
  /\ stream = "open" => conn = "up"
  /\ stream # "open" => to_server = << >> /\ to_client = << >>
  /\ cpc = "kill" => conn \in {"up", "ending"}
  /\ conn = "handshake" => mpc = "connect"
  /\ mpc = "exited" => conn \in {"closed", "failed"}

SessionInv ==
  /\ mpc \in Early => peer = "HELLO" /\ to_server = << >>
  /\ mpc \in Greeting =>
       /\ peer \in {"HELLO", "AUTH"}
       /\ Len(to_server) \in {0, 1}
       /\ peer = "AUTH" => to_server = << >>
  /\ state # "HELLO" => peer # "HELLO"
  /\ login_ready > 0 => state # "HELLO"
  /\ mpc = "testLogin" => g_interrupted \/ state # "HELLO"
  /\ mpc \in {"login", "sendAuth"} => state # "HELLO"
  /\ auth_ok => state = "ESTABLISHED"
  /\ state = "ESTABLISHED" => peer \in Welcomed
  /\ mpc \in Chatting => auth_ok

(* HELLO and AUTH_REQ are only ever the next packet. *)
SentInv ==
  \A i \in 1..Len(to_server) :
    /\ to_server[i].type = "HELLO" => i = 1 /\ peer = "HELLO"
    /\ to_server[i].type = "AUTH_REQ" => i = 1 /\ peer = "AUTH"
    /\ to_server[i].type \in {"KEY_REQ", "CHAT_SEND"} => peer \in Welcomed

AnsweredInv ==
  /\ peer = "HELLO" => to_client = << >>
  /\ \A i \in 1..Len(to_client) :
       /\ to_client[i].type = "AUTH_OK" => peer \in Welcomed
       /\ to_client[i].type = "CHAT_DELIVER" => peer \in Welcomed \cup Owing
       /\ to_client[i].type = "BYE" => peer \in {"stopping", "CLOSING"}

(* An answer that the client's session state does not know of yet is still *)
(* under way.                                                              *)
PendingInv ==
  stream = "open" =>
    /\ peer # "HELLO" /\ state = "HELLO" =>
         to_client # << >> /\ Head(to_client).type = "HELLO_ACK"
    /\ peer \in Welcomed /\ state # "ESTABLISHED" =>
         \E i \in 1..Len(to_client) : to_client[i].type = "AUTH_OK"

None(s, T) == \A i \in 1..Len(s) : s[i] \notin T
Single(s, T) == \A i, j \in 1..Len(s) : s[i] \in T /\ s[j] \in T => i = j

KeyReqs == PacketsOf({"KEY_REQ"})
ReqsNotFor(u) == {p \in KeyReqs : p.user # u}
Answers == PacketsOf({"KEY_RESP", "USER_NOT_FOUND"})
KeysNotOf(u) == {p \in PacketsOf({"KEY_RESP"}) : p.key # u}
WrongChats == {p \in PacketsOf({"CHAT_SEND"}) : p.key # p.user}

(* As long as every answer was waited for there is at most one KEY_REQ, or *)
(* its answer, or its post, and it is about the current recipient.         *)
FetchOK ==
  /\ None(to_server, WrongChats)
  /\ Single(to_server, KeyReqs)
  /\ Single(to_client, Answers)
  /\ key_fetch_sem \in {0, 1}
  /\ ~None(to_server, KeyReqs) => None(to_client, Answers) /\ key_fetch_sem = 0
  /\ ~None(to_client, Answers) => key_fetch_sem = 0
  /\ mpc # "key" => /\ None(to_server, KeyReqs) /\ None(to_client, Answers)
                    /\ key_fetch_sem = 0
  /\ mpc = "key" => /\ None(to_server, ReqsNotFor(recipient))
                    /\ None(to_client, KeysNotOf(recipient))
                    /\ key_fetch_sem = 1 => key_fetch_result \in {ZERO, recipient}
  /\ mpc \in {"check", "encrypt"} => key_fetch_result \in {ZERO, recipient}

FetchInv == ~late => FetchOK

ClientInv ==
  /\ TypeOK
  /\ ConnInv
  /\ SessionInv
  /\ SentInv
  /\ AnsweredInv
  /\ PendingInv
  /\ FetchInv

-----------------------------------------------------------------------------
(* Queues. *)
LEMMA SeqAppend ==
  ASSUME NEW S, NEW s \in Seq(S), NEW e \in S
  PROVE  /\ Append(s, e) \in Seq(S)
         /\ Append(s, e) # << >>
         /\ Len(s) \in Nat
         /\ Len(Append(s, e)) = Len(s) + 1
         /\ \A i \in 1..Len(s) : Append(s, e)[i] = s[i]
         /\ Append(s, e)[Len(s) + 1] = e
         /\ s # << >> => Head(Append(s, e)) = Head(s)
         /\ s = << >> => Head(Append(s, e)) = e /\ Len(s) = 0
BY AppendProperties, EmptySeq, HeadTailProperties

LEMMA SeqTail ==
  ASSUME NEW S, NEW s \in Seq(S), s # << >>
  PROVE  /\ Tail(s) \in Seq(S)
         /\ Len(s) \in Nat \ {0}
         /\ Len(Tail(s)) = Len(s) - 1
         /\ \A i \in 1..Len(Tail(s)) : i + 1 \in 2..Len(s) /\ Tail(s)[i] = s[i + 1]
         /\ \A i \in 2..Len(s) : i - 1 \in 1..Len(Tail(s)) /\ Tail(s)[i - 1] = s[i]
         /\ Head(s) = s[1]
         /\ 1 \in 1..Len(s)
         /\ Head(s) \in S
<1>1. /\ Tail(s) \in Seq(S) /\ Len(s) \in Nat \ {0} /\ Len(Tail(s)) = Len(s) - 1
      /\ \A i \in 1..(Len(s) - 1) : Tail(s)[i] = s[i + 1]
      /\ Head(s) = s[1] /\ Head(s) \in S
  BY HeadTailProperties, EmptySeq, LenProperties
<1>2. /\ 1 \in 1..Len(s)
      /\ \A i \in 1..Len(Tail(s)) : i + 1 \in 2..Len(s) /\ i \in 1..(Len(s) - 1)
      /\ \A i \in 2..Len(s) : i - 1 \in 1..(Len(s) - 1) /\ (i - 1) + 1 = i
  BY <1>1
<1>3. \A i \in 1..Len(Tail(s)) : Tail(s)[i] = s[i + 1]
  BY <1>1, <1>2
<1>4. \A i \in 2..Len(s) : i - 1 \in 1..Len(Tail(s)) /\ Tail(s)[i - 1] = s[i]
  BY <1>1, <1>2
<1> QED
  BY <1>1, <1>2, <1>3, <1>4

LEMMA SeqEmpty ==
  ASSUME NEW S
  PROVE  /\ << >> \in Seq(S) /\ Len(<< >>) = 0
         /\ \A s \in Seq(S) : Len(s) = 0 => s = << >>
BY EmptySeq, LenProperties

LEMMA NoneKept ==
  ASSUME NEW S, NEW s \in Seq(S), NEW T, None(s, T)
  PROVE  /\ \A e \in S : e \notin T => None(Append(s, e), T)
         /\ s # << >> => None(Tail(s), T)
<1>1. ASSUME NEW e \in S, e \notin T, NEW i \in 1..Len(Append(s, e))
      PROVE  Append(s, e)[i] \notin T
  <2>1. i \in 1..Len(s) \/ i = Len(s) + 1
    BY SeqAppend
  <2> QED
    BY <1>1, <2>1, SeqAppend DEF None
<1>2. ASSUME s # << >>, NEW i \in 1..Len(Tail(s)) PROVE Tail(s)[i] \notin T
  <2>1. i + 1 \in 1..Len(s) /\ Tail(s)[i] = s[i + 1]
    BY <1>2, SeqTail
  <2> QED
    BY <2>1 DEF None
<1> QED
  BY <1>1, <1>2 DEF None

LEMMA SingleKept ==
  ASSUME NEW S, NEW s \in Seq(S), NEW T, Single(s, T)
  PROVE  /\ \A e \in S : e \notin T \/ None(s, T) => Single(Append(s, e), T)
         /\ s # << >> => Single(Tail(s), T)
         /\ s # << >> /\ Head(s) \in T => None(Tail(s), T)
<1>1. ASSUME NEW e \in S, e \notin T \/ None(s, T),
             NEW i \in 1..Len(Append(s, e)), NEW j \in 1..Len(Append(s, e)),
             Append(s, e)[i] \in T, Append(s, e)[j] \in T
      PROVE  i = j
  <2>1. (i \in 1..Len(s) \/ i = Len(s) + 1) /\ (j \in 1..Len(s) \/ j = Len(s) + 1)
    BY SeqAppend
  <2> QED
    BY <1>1, <2>1, SeqAppend DEF Single, None
<1>2. ASSUME s # << >>, NEW i \in 1..Len(Tail(s)), Tail(s)[i] \in T
      PROVE  /\ Head(s) \notin T
             /\ \A j \in 1..Len(Tail(s)) : Tail(s)[j] \in T => i = j
  <2>1. /\ \A j \in 1..Len(Tail(s)) : j + 1 \in 1..Len(s) /\ Tail(s)[j] = s[j + 1] /\ j \in Nat
        /\ i + 1 # 1 /\ 1 \in 1..Len(s) /\ Head(s) = s[1]
    BY <1>2, SeqTail
  <2> QED
    BY <1>2, <2>1 DEF Single
<1> QED
  BY <1>1, <1>2 DEF Single, None

LEMMA NoneOfEmpty ==
  ASSUME NEW T
  PROVE  None(<< >>, T) /\ Single(<< >>, T)
<1>1. Len(<< >>) = 0
  BY SeqEmpty
<1> QED
  BY <1>1 DEF None, Single

-----------------------------------------------------------------------------
(* The steps by what they do to the queues: none leaves both alone, Quiet; *)
(* main sends; the stream ends; the client takes a packet; the server      *)
(* takes, answers or both.                                                 *)
MainMoves ==
  \/ Connect \/ WaitReady \/ TestLogin \/ WaitAuth \/ TestAuth \/ Prompt
  \/ InterruptReadline \/ TakeKey \/ KeyTimeout \/ CheckKey \/ TestAlive
  \/ Disconnect \/ AwaitClosed \/ UserStep
Quiet ==
  \/ MainMoves \/ Signal \/ KillMain \/ Connected \/ HandshakeFails
  \/ OnDisconnected \/ Crash \/ UNCHANGED vars
MainSends == SendHello \/ SendAuthReq \/ SendKeyReq \/ EncryptAndSend \/ SendBye
PeerSteps == PeerAnswers \/ PeerDeliver \/ PeerStops

LEMMA StepKinds ==
  ASSUME [Next]_vars
  PROVE  Quiet \/ OpenStream \/ MainSends \/ StreamClosed \/ PacketStep \/ PeerSteps
BY DEF Next, MainStep, Quiet, MainMoves, MainSends, PeerSteps, Ended

LEMMA PacketTypes ==
  /\ \A t \in UpTypes : Simple(t) \in UpPackets /\ Simple(t).type = t
  /\ \A t \in DownTypes : Simple(t) \in DownPackets /\ Simple(t).type = t
  /\ \A t, u, k : Pkt(t, u, k).type = t /\ Pkt(t, u, k).user = u /\ Pkt(t, u, k).key = k
  /\ \A t \in UpTypes, u, k \in Users \cup {ZERO} : Pkt(t, u, k) \in UpPackets
  /\ \A t \in DownTypes, u, k \in Users \cup {ZERO} : Pkt(t, u, k) \in DownPackets
BY DEF Simple, Pkt, UpPackets, DownPackets, PacketsOf

LEMMA QueueTypes ==
  ASSUME TypeOK
  PROVE  /\ to_server \in Seq(UpPackets) /\ to_client \in Seq(DownPackets)
         /\ Len(to_server) \in Nat /\ Len(to_client) \in Nat
         /\ \A i \in 1..Len(to_server) : to_server[i] \in UpPackets
         /\ \A i \in 1..Len(to_client) : to_client[i] \in DownPackets
<1>1. to_server \in Seq(UpPackets) /\ to_client \in Seq(DownPackets)
  BY DEF TypeOK, UpPackets, DownPackets, UpTypes, DownTypes
<1> QED
  BY <1>1, ElementOfSeq, LenProperties

(* What a quiet step leaves alone. *)
LEMMA QuietFrame ==
  ASSUME TypeOK, Quiet
  PROVE  /\ UNCHANGED <<to_server, to_client, peer, state, auth_ok, stream, key_fetch_result>>
         /\ late => late'
<1> USE DEF channel, link, sess, sems, flags, input
<1>1. CASE MainMoves
  BY <1>1 DEF MainMoves, Connect, WaitReady, TestLogin, WaitAuth, TestAuth, Prompt,
    InterruptReadline, TakeKey, KeyTimeout, CheckKey, TestAlive, Disconnect, AwaitClosed,
    UserStep, ReadCredentials, LoginFails, ReadQuit, ReadUnusable, ReadMessage
<1>2. CASE Signal \/ KillMain \/ Connected \/ HandshakeFails \/ OnDisconnected \/ Crash
           \/ UNCHANGED vars
  BY <1>2 DEF Signal, KillMain, Connected, HandshakeFails, OnDisconnected, Crash, vars,
    Interrupted, TypeOK
<1> QED
  BY <1>1, <1>2 DEF Quiet

(* main appends a packet if the stream is open. *)
LEMMA SendsFrame ==
  ASSUME TypeOK, MainSends
  PROVE  /\ UNCHANGED <<flags, sess, sems, input, link, to_client, peer, crashed, late>>
         /\ \/ to_server' = to_server
            \/ \E p \in UpPackets :
                 /\ stream = "open" /\ to_server' = Append(to_server, p)
                 /\ \/ SendHello /\ p = Simple("HELLO")
                    \/ SendAuthReq /\ p = Simple("AUTH_REQ")
                    \/ SendKeyReq /\ p = Pkt("KEY_REQ", recipient, ZERO)
                    \/ /\ EncryptAndSend /\ key_fetch_result # ZERO
                       /\ p = Pkt("CHAT_SEND", recipient, key_fetch_result)
                    \/ SendBye /\ p = Simple("BYE")
<1>1. /\ Simple("HELLO") \in UpPackets /\ Simple("AUTH_REQ") \in UpPackets
      /\ Simple("BYE") \in UpPackets
      /\ Pkt("KEY_REQ", recipient, ZERO) \in UpPackets
      /\ Pkt("CHAT_SEND", recipient, key_fetch_result) \in UpPackets
  BY PacketTypes DEF TypeOK, UpTypes
<1>2. CASE SendHello
  BY <1>1, <1>2 DEF SendHello, Send
<1>3. CASE SendAuthReq
  BY <1>1, <1>3 DEF SendAuthReq, Send
<1>4. CASE SendKeyReq
  BY <1>1, <1>4 DEF SendKeyReq, Send
<1>5. CASE EncryptAndSend
  BY <1>1, <1>5 DEF EncryptAndSend, Send
<1>6. CASE SendBye
  BY <1>1, <1>6 DEF SendBye, Send
<1> QED
  BY <1>2, <1>3, <1>4, <1>5, <1>6 DEF MainSends

(* A handler takes one packet; only that of BYE answers. *)
LEMMA PacketFrame ==
  ASSUME TypeOK, PacketStep
  PROVE  /\ ~crashed /\ cpc = "idle" /\ stream = "open" /\ to_client # << >>
         /\ to_client' = Tail(to_client)
         /\ UNCHANGED <<mpc, g_conn_alive, input, conn, stream, peer, crashed, late>>
         /\ \/ to_server' = to_server
            \/ to_server' = Append(to_server, Simple("BYE"))
BY DEF PacketStep, ProcessHelloAck, ProcessAuthResp, ProcessKeyResp, ProcessError,
  ProcessChatDeliver, ProcessBye, Receives, Callback, Send, link, flags, channel

(* The server takes at most one packet and sends at most one. *)
LEMMA PeerFrame ==
  ASSUME TypeOK, PeerSteps
  PROVE  /\ UNCHANGED <<mpc, flags, sess, sems, input, link, crashed>>
         /\ stream = "open"
         /\ late => late'
         /\ \/ to_server' = to_server
            \/ to_server # << >> /\ to_server' = Tail(to_server)
         /\ \/ to_client' = to_client
            \/ \E p \in DownPackets : to_client' = Append(to_client, p)
<1>1. \A t \in DownTypes : Simple(t) \in DownPackets
  BY PacketTypes
<1>2. CASE PeerKeyReq
  <2>1. Head(to_server) \in UpPackets
    BY <1>2, QueueTypes, SeqTail DEF PeerKeyReq, Takes
  <2>2. Head(to_server).user \in Users \cup {ZERO}
    BY <2>1 DEF UpPackets, PacketsOf
  <2>3. Pkt("KEY_RESP", Head(to_server).user, Head(to_server).user) \in DownPackets
    BY <2>2, PacketTypes DEF DownTypes
  <2> QED
    BY <1>1, <1>2, <2>3 DEF PeerKeyReq, Takes, Answer, DownTypes
<1>3. CASE PeerHello \/ PeerAuthReq \/ PeerLogin
  BY <1>1, <1>3 DEF PeerHello, PeerAuthReq, PeerLogin, Takes, Answer, DownTypes
<1>4. CASE PeerChatSend \/ PeerBye \/ PeerRejects
  BY <1>1, <1>4 DEF PeerChatSend, PeerBye, PeerRejects, Takes, Answer, DownTypes
<1>5. CASE PeerDeliver \/ PeerStops
  BY <1>1, <1>5 DEF PeerDeliver, PeerStops, Answer, DownTypes
<1> QED
  BY <1>2, <1>3, <1>4, <1>5 DEF PeerSteps, PeerAnswers

-----------------------------------------------------------------------------
(* Types. *)
LEMMA QueuesKept ==
  ASSUME TypeOK, [Next]_vars
  PROVE  to_server' \in Seq(UpPackets) /\ to_client' \in Seq(DownPackets)
<1>0. to_server \in Seq(UpPackets) /\ to_client \in Seq(DownPackets)
  BY QueueTypes
<1>1. CASE Quiet
  BY <1>0, <1>1, QuietFrame
<1>2. CASE OpenStream
  BY <1>0, <1>2 DEF OpenStream, channel
<1>3. CASE MainSends
  BY <1>0, <1>3, SendsFrame, SeqAppend
<1>4. CASE StreamClosed
  BY <1>4, SeqEmpty DEF StreamClosed
<1>5. CASE PacketStep
  <2>1. Append(to_server, Simple("BYE")) \in Seq(UpPackets)
    BY <1>0, PacketTypes, SeqAppend DEF UpTypes
  <2>2. to_client' \in Seq(DownPackets)
    BY <1>0, <1>5, PacketFrame, SeqTail
  <2> QED
    BY <1>0, <1>5, <2>1, <2>2, PacketFrame
<1>6. CASE PeerSteps
  <2>1. to_server' \in Seq(UpPackets)
    BY <1>0, <1>6, PeerFrame, SeqTail
  <2>2. to_client' \in Seq(DownPackets)
    BY <1>0, <1>6, PeerFrame, SeqAppend
  <2> QED
    BY <2>1, <2>2
<1> QED
  BY <1>1, <1>2, <1>3, <1>4, <1>5, <1>6, StepKinds

Booleans ==
  /\ g_interrupted \in BOOLEAN /\ g_conn_alive \in BOOLEAN /\ auth_ok \in BOOLEAN
  /\ crashed \in BOOLEAN /\ late \in BOOLEAN
Scalars ==
  /\ mpc \in MainPc
  /\ state \in {"HELLO", "AUTH", "ESTABLISHED"}
  /\ login_ready \in Nat /\ auth_done \in Nat /\ key_fetch_sem \in Nat
  /\ key_fetch_result \in Users \cup {ZERO}
  /\ recipient \in Users \cup {ZERO}
  /\ lines \in 0..MaxLines
  /\ conn \in {"handshake", "failed", "up", "ending", "closed"}
  /\ stream \in {"none", "open", "freed"}
  /\ cpc \in {"idle", "kill"}
  /\ peer \in {"HELLO", "AUTH", "queued", "unserved", "registered", "owed",
              "ESTABLISHED", "stopping", "CLOSING"}

LEMMA BooleansKept ==
  ASSUME TypeOK, [Next]_vars
  PROVE  Booleans'
<1>0. Booleans
  BY DEF TypeOK, Booleans
<1> USE DEF channel, link, sess, sems, flags, input, Booleans
<1>1. CASE MainMoves
  BY <1>0, <1>1, Zenon DEF MainMoves, Connect, WaitReady, TestLogin, WaitAuth, TestAuth, Prompt,
    InterruptReadline, TakeKey, KeyTimeout, CheckKey, TestAlive, Disconnect, AwaitClosed,
    UserStep, ReadCredentials, LoginFails, ReadQuit, ReadUnusable, ReadMessage
<1>2. CASE Signal \/ KillMain
  BY <1>0, <1>2, Zenon DEF Signal, KillMain, Interrupted
<1>3. CASE Connected \/ HandshakeFails \/ OnDisconnected \/ Crash \/ StreamClosed \/ OpenStream
           \/ UNCHANGED vars
  BY <1>0, <1>3, Zenon DEF Connected, HandshakeFails, OnDisconnected, Crash, vars, StreamClosed,
    OpenStream
<1>4. CASE MainSends
  BY <1>0, <1>4, SendsFrame
<1>5. CASE PacketStep
  BY <1>0, <1>5, Zenon DEF PacketStep, ProcessHelloAck, ProcessAuthResp, ProcessKeyResp,
    ProcessError, ProcessChatDeliver, ProcessBye
<1>6. CASE PeerSteps
  <2>1. late' \in BOOLEAN
    BY <1>0, <1>6, Zenon DEF PeerSteps, PeerAnswers, PeerHello, PeerAuthReq, PeerLogin,
      PeerKeyReq, PeerChatSend, PeerBye, PeerRejects, PeerDeliver, PeerStops
  <2> QED
    BY <1>0, <1>6, <2>1, PeerFrame
<1> QED
  BY <1>1, <1>2, <1>3, <1>4, <1>5, <1>6, StepKinds DEF Quiet

LEMMA TypesKept ==
  ASSUME TypeOK, [Next]_vars
  PROVE  TypeOK'
<1> SUFFICES Scalars'
  BY QueuesKept, BooleansKept DEF TypeOK, Scalars, Booleans, UpPackets, DownPackets, UpTypes, DownTypes
<1>0. Scalars /\ MaxLines \in Nat
  BY ClientAssumption DEF TypeOK, Scalars
<1>0a. to_client # << >> => Head(to_client).key \in Users \cup {ZERO}
  <2>1. to_client # << >> => Head(to_client) \in DownPackets
    BY QueueTypes, SeqTail
  <2> QED
    BY <2>1 DEF DownPackets, PacketsOf
<1> USE DEF channel, link, sess, sems, flags, input, At, Goto, MainPc, Chatting, Leaving
<1>1. CASE MainMoves
  <2>1. CASE Connect \/ WaitReady \/ TestLogin \/ WaitAuth \/ TestAuth
    BY <1>0, <2>1 DEF Scalars, Connect, WaitReady, TestLogin, WaitAuth, TestAuth
  <2>2. CASE Prompt \/ InterruptReadline \/ TakeKey \/ KeyTimeout \/ CheckKey
    BY <1>0, <2>2 DEF Scalars, Prompt, InterruptReadline, TakeKey, KeyTimeout, CheckKey
  <2>3. CASE TestAlive \/ Disconnect \/ AwaitClosed
    BY <1>0, <2>3 DEF Scalars, TestAlive, Disconnect, AwaitClosed
  <2>4. CASE UserStep
    BY <1>0, <2>4 DEF Scalars, UserStep, ReadCredentials, LoginFails, ReadQuit, ReadUnusable,
      ReadMessage
  <2> QED
    BY <1>1, <2>1, <2>2, <2>3, <2>4 DEF MainMoves
<1>2. CASE Signal \/ KillMain
  <2>1. AfterSignal \in MainPc
    BY <1>0 DEF AfterSignal, Scalars
  <2> QED
    BY <1>0, <1>2, <2>1 DEF Scalars, Signal, KillMain, Interrupted
<1>3. CASE Connected \/ HandshakeFails \/ OnDisconnected \/ Crash \/ StreamClosed \/ OpenStream
           \/ UNCHANGED vars
  <2> QED
    BY <1>0, <1>3 DEF Scalars, Connected, HandshakeFails, OnDisconnected, Crash, vars,
      StreamClosed, OpenStream
<1>4. CASE MainSends
  <2> QED
    BY <1>0, <1>4 DEF Scalars, MainSends, SendHello, SendAuthReq, SendKeyReq, EncryptAndSend,
      SendBye
<1>5. CASE PacketStep
  <2>1. CASE ProcessHelloAck \/ ProcessAuthResp
    BY <1>0, <2>1 DEF Scalars, ProcessHelloAck, ProcessAuthResp, Receives
  <2>2. CASE ProcessKeyResp \/ ProcessError
    BY <1>0, <1>0a, <2>2 DEF Scalars, ProcessKeyResp, ProcessError, Receives
  <2>3. CASE ProcessChatDeliver \/ ProcessBye
    BY <1>0, <2>3 DEF Scalars, ProcessChatDeliver, ProcessBye, Receives
  <2> QED
    BY <1>5, <2>1, <2>2, <2>3 DEF PacketStep
<1>6. CASE PeerSteps
  <2>1. peer' \in {"HELLO", "AUTH", "queued", "unserved", "registered", "owed",
                  "ESTABLISHED", "stopping", "CLOSING"}
    BY <1>0, <1>6 DEF Scalars, PeerSteps, PeerAnswers, PeerHello, PeerAuthReq, PeerLogin,
      PeerKeyReq, PeerChatSend, PeerBye, PeerRejects, PeerDeliver, PeerStops
  <2> QED
    BY <1>0, <1>6, <2>1, PeerFrame DEF Scalars
<1> QED
  BY <1>1, <1>2, <1>3, <1>4, <1>5, <1>6, StepKinds DEF Quiet

-----------------------------------------------------------------------------
(* How the server's session moves: never back to HELLO, and not back once  *)
(* the login is answered with success.                                     *)
LEMMA PeerForward ==
  ASSUME TypeOK, PeerSteps
  PROVE  /\ peer # "HELLO" => peer' # "HELLO"
         /\ peer \in {"stopping", "CLOSING"} => peer' \in {"stopping", "CLOSING"}
         /\ peer \in Welcomed => peer' \in Welcomed
         /\ peer \in Welcomed \cup Owing => peer' \in Welcomed \cup Owing
         /\ peer' # peer => \/ PeerHello /\ peer = "HELLO" /\ peer' = "AUTH"
                            \/ PeerAuthReq /\ peer = "AUTH" /\ peer' = "queued"
                            \/ peer \in {"queued"} \cup Owing
                            \/ peer \in Welcomed
BY DEF PeerSteps, PeerAnswers, PeerHello, PeerAuthReq, PeerLogin, PeerKeyReq, PeerChatSend,
  PeerBye, PeerRejects, PeerDeliver, PeerStops, LoggedIn, Welcomed, Owing, TypeOK

(* The packet at the head of a queue. *)
LEMMA HeadOfQueues ==
  ASSUME TypeOK
  PROVE  /\ to_server # << >> => /\ Head(to_server) = to_server[1] /\ 1 \in 1..Len(to_server)
                                 /\ Head(to_server).type \in UpTypes
         /\ to_client # << >> => /\ Head(to_client) = to_client[1] /\ 1 \in 1..Len(to_client)
                                 /\ Head(to_client).type \in DownTypes
<1>1. to_server # << >> => /\ Head(to_server) = to_server[1] /\ 1 \in 1..Len(to_server)
                           /\ Head(to_server) \in UpPackets
  BY QueueTypes, SeqTail
<1>2. to_client # << >> => /\ Head(to_client) = to_client[1] /\ 1 \in 1..Len(to_client)
                           /\ Head(to_client) \in DownPackets
  BY QueueTypes, SeqTail
<1> QED
  BY <1>1, <1>2 DEF UpPackets, DownPackets, PacketsOf

(* The server has a handler for every packet that it meets, unless it has  *)
(* said goodbye.                                                           *)
LEMMA Expected ==
  ASSUME ClientInv
  PROVE  /\ ServerExpects
         /\ PeerRejects => peer = "CLOSING"
<1>1. ASSUME to_server # << >> PROVE Accepts(Head(to_server).type) \/ peer = "CLOSING"
  <2>1. Head(to_server) = to_server[1] /\ 1 \in 1..Len(to_server) /\ Head(to_server).type \in UpTypes
    BY <1>1, HeadOfQueues DEF ClientInv
  <2>2. /\ Head(to_server).type = "HELLO" => peer = "HELLO"
        /\ Head(to_server).type = "AUTH_REQ" => peer = "AUTH"
        /\ Head(to_server).type \in {"KEY_REQ", "CHAT_SEND"} => peer \in Welcomed
    BY <2>1 DEF ClientInv, SentInv
  <2> QED
    BY <2>1, <2>2 DEF Accepts, LoggedIn, UpTypes, Welcomed
<1> QED
  BY <1>1 DEF ServerExpects, PeerRejects, Takes

(* The connection. *)
LEMMA ConnKept ==
  ASSUME ClientInv, [Next]_vars
  PROVE  ConnInv'
<1>0. TypeOK /\ ConnInv
  BY DEF ClientInv
<1> USE <1>0 DEF channel, link, sess, sems, flags, input, At, Goto, Callback
<1>1. CASE MainMoves
  <2>1. UNCHANGED <<to_server, to_client, stream, conn, cpc>>
    BY <1>1 DEF MainMoves, Connect, WaitReady, TestLogin, WaitAuth, TestAuth, Prompt,
      InterruptReadline, TakeKey, KeyTimeout, CheckKey, TestAlive, Disconnect, AwaitClosed,
      UserStep, ReadCredentials, LoginFails, ReadQuit, ReadUnusable, ReadMessage
  <2>2. /\ mpc' = "connect" => mpc = "connect"
        /\ mpc = "connect" => conn # "handshake"
        /\ mpc' = "exited" => conn \in {"closed", "failed"}
    BY <1>1 DEF MainMoves, Connect, WaitReady, TestLogin, WaitAuth, TestAuth, Prompt,
      InterruptReadline, TakeKey, KeyTimeout, CheckKey, TestAlive, Disconnect, AwaitClosed,
      UserStep, ReadCredentials, LoginFails, ReadQuit, ReadUnusable, ReadMessage
  <2> QED
    BY <2>1, <2>2 DEF ConnInv
<1>2. CASE Signal \/ KillMain
  <2>1. /\ mpc = "connect" => mpc' = "connect"
        /\ mpc' = "exited" => mpc = "exited"
    BY <1>2 DEF Signal, KillMain, Interrupted, AfterSignal
  <2> QED
    BY <1>2, <2>1 DEF Signal, KillMain, ConnInv, TypeOK
<1>3. CASE Connected \/ HandshakeFails \/ OnDisconnected \/ Crash \/ StreamClosed \/ OpenStream
           \/ UNCHANGED vars
  BY <1>3 DEF Connected, HandshakeFails, OnDisconnected, Crash, StreamClosed, OpenStream, vars,
    ConnInv
<1>4. CASE MainSends
  <2>1. mpc # "connect" /\ mpc' \notin {"connect", "exited"}
    BY <1>4 DEF MainSends, SendHello, SendAuthReq, SendKeyReq, EncryptAndSend, SendBye
  <2> QED
    BY <1>4, <2>1, SendsFrame DEF ConnInv
<1>5. CASE PacketStep
  BY <1>5, PacketFrame DEF ConnInv
<1>6. CASE PeerSteps
  BY <1>6, PeerFrame DEF ConnInv
<1> QED
  BY <1>1, <1>2, <1>3, <1>4, <1>5, <1>6, StepKinds DEF Quiet

(* What is on its way to the server. *)
LEMMA SentKept ==
  ASSUME ClientInv, [Next]_vars
  PROVE  SentInv'
<1>0. TypeOK /\ SentInv /\ SessionInv
  BY DEF ClientInv
<1>0a. to_server \in Seq(UpPackets) /\ Len(to_server) \in Nat
  BY <1>0, QueueTypes
<1>1. ASSUME NEW p \in UpPackets, to_server' = Append(to_server, p), peer' = peer,
             p.type = "HELLO" => to_server = << >> /\ peer = "HELLO",
             p.type = "AUTH_REQ" => to_server = << >> /\ peer = "AUTH",
             p.type \in {"KEY_REQ", "CHAT_SEND"} => peer \in Welcomed
      PROVE  SentInv'
  <2> SUFFICES ASSUME NEW i \in 1..Len(to_server')
               PROVE  /\ to_server'[i].type = "HELLO" => i = 1 /\ peer' = "HELLO"
                      /\ to_server'[i].type = "AUTH_REQ" => i = 1 /\ peer' = "AUTH"
                      /\ to_server'[i].type \in {"KEY_REQ", "CHAT_SEND"} => peer' \in Welcomed
    BY DEF SentInv, Welcomed
  <2>1. i \in 1..Len(to_server) \/ i = Len(to_server) + 1
    BY <1>0a, <1>1, SeqAppend
  <2>2. CASE i \in 1..Len(to_server)
    BY <1>0, <1>0a, <1>1, <2>2, SeqAppend DEF SentInv
  <2>3. CASE i = Len(to_server) + 1
    <3>1. to_server'[i] = p /\ (to_server = << >> => Len(to_server) = 0)
      BY <1>0a, <1>1, <2>3, SeqAppend
    <3> QED
      BY <1>1, <2>3, <3>1
  <2> QED
    BY <2>1, <2>2, <2>3
<1>2. CASE Quiet \/ OpenStream
  <2>1. to_server' = to_server /\ peer' = peer
    BY <1>0, <1>2, QuietFrame DEF OpenStream, channel
  <2> QED
    BY <1>0, <2>1 DEF SentInv
<1>3. CASE MainSends
  <2>1. CASE to_server' = to_server
    BY <1>0, <1>3, <2>1, SendsFrame DEF SentInv
  <2>2. CASE to_server' # to_server
    <3>1. PICK p \in UpPackets :
                 /\ to_server' = Append(to_server, p)
                 /\ \/ SendHello /\ p = Simple("HELLO")
                    \/ SendAuthReq /\ p = Simple("AUTH_REQ")
                    \/ SendKeyReq /\ p = Pkt("KEY_REQ", recipient, ZERO)
                    \/ EncryptAndSend /\ p = Pkt("CHAT_SEND", recipient, key_fetch_result)
                    \/ SendBye /\ p = Simple("BYE")
      BY <1>0, <1>3, <2>2, SendsFrame
    <3>2. peer' = peer
      BY <1>0, <1>3, SendsFrame
    <3>3. CASE SendHello /\ p = Simple("HELLO")
      <4>1. p.type = "HELLO" /\ to_server = << >> /\ peer = "HELLO"
        BY <1>0, <3>3, PacketTypes DEF SendHello, At, SessionInv, Early, UpTypes
      <4> QED
        BY <1>1, <3>1, <3>2, <4>1
    <3>4. CASE SendAuthReq /\ p = Simple("AUTH_REQ")
      <4>1. p.type = "AUTH_REQ" /\ peer = "AUTH" /\ to_server = << >>
        BY <1>0, <3>4, PacketTypes DEF SendAuthReq, At, SessionInv, Greeting, UpTypes
      <4> QED
        BY <1>1, <3>1, <3>2, <4>1
    <3>5. CASE SendKeyReq \/ EncryptAndSend
      <4>1. p.type \in {"KEY_REQ", "CHAT_SEND", "HELLO", "AUTH_REQ", "BYE"} /\ peer \in Welcomed
        BY <1>0, <3>5, <3>1, PacketTypes DEF SendKeyReq, EncryptAndSend, At, SessionInv, Chatting,
          UpTypes
      <4>2. mpc \notin {"hello", "sendAuth"}
        BY <3>5 DEF SendKeyReq, EncryptAndSend, At
      <4>3. p.type \notin {"HELLO", "AUTH_REQ"}
        BY <3>1, <4>2, PacketTypes DEF SendHello, SendAuthReq, At, UpTypes
      <4> QED
        BY <1>1, <3>1, <3>2, <4>1, <4>3
    <3>6. CASE SendBye /\ p = Simple("BYE")
      <4>1. p.type = "BYE"
        BY <3>6, PacketTypes DEF UpTypes
      <4> QED
        BY <1>1, <3>1, <3>2, <4>1
    <3> QED
      BY <3>1, <3>3, <3>4, <3>5, <3>6
  <2> QED
    BY <2>1, <2>2
<1>4. CASE StreamClosed
  BY <1>4, SeqEmpty DEF StreamClosed, SentInv
<1>5. CASE PacketStep
  <2>1. Simple("BYE") \in UpPackets /\ Simple("BYE").type = "BYE"
    BY PacketTypes DEF UpTypes
  <2> QED
    BY <1>0, <1>1, <1>5, <2>1, PacketFrame DEF SentInv
<1>6. CASE PeerSteps
  <2>1. CASE to_server # << >> /\ to_server' = Tail(to_server)
    <3> SUFFICES ASSUME NEW i \in 1..Len(to_server')
                 PROVE  /\ to_server'[i].type \notin {"HELLO", "AUTH_REQ"}
                        /\ to_server'[i].type \in {"KEY_REQ", "CHAT_SEND"} => peer' \in Welcomed
      BY DEF SentInv, Welcomed
    <3>1. /\ i + 1 \in 1..Len(to_server) /\ i + 1 # 1
          /\ to_server'[i] = to_server[i + 1]
      BY <1>0a, <2>1, SeqTail
    <3> QED
      BY <1>0, <1>6, <3>1, PeerForward DEF SentInv, Owing
  <2>2. CASE to_server' = to_server
    <3>1. to_server = << >> \/ to_server' # Tail(to_server)
      BY <1>0a, <2>2, SeqTail
    <3>2. ~PeerHello /\ ~PeerAuthReq
      BY <3>1 DEF PeerHello, PeerAuthReq, Takes
    <3>3. peer' = peer \/ peer \notin {"HELLO", "AUTH"}
      BY <1>0, <1>6, <3>2, PeerForward DEF Welcomed, Owing
    <3> QED
      BY <1>0, <1>6, <2>2, <3>3, PeerForward DEF SentInv, Welcomed
  <2> QED
    BY <1>0, <1>6, <2>1, <2>2, PeerFrame
<1> QED
  BY <1>2, <1>3, <1>4, <1>5, <1>6, StepKinds

(* What the server says, and how far its session is then. *)
Says(p) ==
  /\ to_client' = Append(to_client, p)
  /\ peer' # "HELLO"
  /\ peer = "HELLO" => p.type = "HELLO_ACK"
  /\ p.type = "AUTH_OK" => peer' \in Welcomed
  /\ p.type = "CHAT_DELIVER" => peer' \in Welcomed \cup Owing
  /\ p.type = "BYE" => peer' \in {"stopping", "CLOSING"}
  /\ peer' \in Welcomed => peer \in Welcomed \/ p.type = "AUTH_OK"

LEMMA PeerSays ==
  ASSUME ClientInv, PeerSteps
  PROVE  \/ /\ to_client' = to_client
            /\ peer' = "HELLO" <=> peer = "HELLO"
            /\ peer' \in Welcomed <=> peer \in Welcomed
         \/ \E p \in DownPackets : Says(p)
<1>0. TypeOK
  BY DEF ClientInv
<1>1. \A t \in DownTypes : Simple(t) \in DownPackets /\ Simple(t).type = t
  BY PacketTypes
<1> USE DEF Says, Answer, DownTypes, Welcomed, Owing
<1>2. CASE PeerHello
  BY <1>1, <1>2 DEF PeerHello
<1>3. CASE PeerAuthReq \/ PeerBye
  BY <1>0, <1>3 DEF PeerAuthReq, PeerBye, LoggedIn, TypeOK
<1>4. CASE PeerLogin
  BY <1>1, <1>4 DEF PeerLogin
<1>5. CASE PeerKeyReq
  <2>1. Head(to_server) \in UpPackets
    BY <1>0, <1>5, QueueTypes, SeqTail DEF PeerKeyReq, Takes
  <2>2. Head(to_server).user \in Users \cup {ZERO}
    BY <2>1 DEF UpPackets, PacketsOf
  <2> DEFINE k == Pkt("KEY_RESP", Head(to_server).user, Head(to_server).user)
  <2>3. k \in DownPackets /\ k.type = "KEY_RESP"
    BY <2>2, PacketTypes
  <2>4. to_client' = Append(to_client, k) \/ to_client' = Append(to_client, Simple("USER_NOT_FOUND"))
    BY <1>5 DEF PeerKeyReq
  <2>5. peer' = peer /\ peer \in {"ESTABLISHED", "stopping"}
    BY <1>5 DEF PeerKeyReq, LoggedIn
  <2> HIDE DEF k
  <2> QED
    BY <1>1, <2>3, <2>4, <2>5
<1>6. CASE PeerChatSend
  BY <1>1, <1>6 DEF PeerChatSend, LoggedIn
<1>7. CASE PeerRejects
  <2>1. peer = "CLOSING"
    BY <1>7, Expected
  <2> QED
    BY <1>1, <1>7, <2>1 DEF PeerRejects
<1>8. CASE PeerDeliver \/ PeerStops
  BY <1>1, <1>8 DEF PeerDeliver, PeerStops, LoggedIn
<1> QED
  BY <1>2, <1>3, <1>4, <1>5, <1>6, <1>7, <1>8 DEF PeerSteps, PeerAnswers

(* What is on its way to the client. *)
LEMMA AnsweredKept ==
  ASSUME ClientInv, [Next]_vars
  PROVE  AnsweredInv'
<1>0. TypeOK /\ AnsweredInv /\ ConnInv
  BY DEF ClientInv
<1>0a. to_client \in Seq(DownPackets) /\ Len(to_client) \in Nat
  BY <1>0, QueueTypes
<1>1. CASE Quiet \/ OpenStream \/ MainSends
  <2>1. to_client' = to_client /\ peer' = peer
    BY <1>0, <1>1, QuietFrame, SendsFrame DEF OpenStream, channel
  <2> QED
    BY <1>0, <2>1 DEF AnsweredInv
<1>2. CASE StreamClosed
  BY <1>2, SeqEmpty DEF StreamClosed, AnsweredInv
<1>3. CASE PacketStep
  <2>1. to_client # << >> /\ to_client' = Tail(to_client) /\ peer' = peer
    BY <1>0, <1>3, PacketFrame
  <2>2. \A i \in 1..Len(to_client') : i + 1 \in 1..Len(to_client) /\ to_client'[i] = to_client[i + 1]
    BY <1>0a, <2>1, SeqTail
  <2> QED
    BY <1>0, <2>1, <2>2 DEF AnsweredInv
<1>4. CASE PeerSteps
  <2>1. CASE to_client' = to_client /\ (peer' = "HELLO" <=> peer = "HELLO")
    BY <1>0, <1>4, <2>1, PeerForward DEF AnsweredInv
  <2>2. ASSUME NEW p \in DownPackets, Says(p) PROVE AnsweredInv'
    <3>1. /\ \A i \in 1..Len(to_client') : i \in 1..Len(to_client) \/ i = Len(to_client) + 1
          /\ \A i \in 1..Len(to_client) : to_client'[i] = to_client[i]
          /\ to_client'[Len(to_client) + 1] = p
      BY <1>0a, <2>2, SeqAppend DEF Says
    <3> QED
      BY <1>0, <1>4, <2>2, <3>1, PeerForward DEF AnsweredInv, Says
  <2> QED
    BY <1>4, <2>1, <2>2, PeerSays
<1> QED
  BY <1>1, <1>2, <1>3, <1>4, StepKinds

(* What the client does not know of yet is still to come. *)
LEMMA PendingKept ==
  ASSUME ClientInv, [Next]_vars
  PROVE  PendingInv'
<1>0. TypeOK /\ AnsweredInv /\ PendingInv /\ ConnInv /\ SessionInv
  BY DEF ClientInv
<1>0a. to_client \in Seq(DownPackets) /\ Len(to_client) \in Nat
  BY <1>0, QueueTypes
<1>1. CASE Quiet \/ MainSends
  <2>1. UNCHANGED <<to_client, peer, stream, state>>
    BY <1>0, <1>1, QuietFrame, SendsFrame DEF link, sess
  <2> QED
    BY <1>0, <2>1 DEF PendingInv
<1>2. CASE OpenStream
  <2>1. peer' = "HELLO"
    BY <1>0, <1>2 DEF OpenStream, At, SessionInv, Early, channel
  <2> QED
    BY <2>1 DEF PendingInv, Welcomed
<1>3. CASE StreamClosed
  BY <1>3 DEF StreamClosed, PendingInv
<1>4. CASE PacketStep
  <2>1. stream = "open" /\ to_client # << >> /\ to_client' = Tail(to_client) /\ peer' = peer
    BY <1>0, <1>4, PacketFrame
  <2>2. peer # "HELLO" /\ (state = "HELLO" => Head(to_client).type = "HELLO_ACK")
    BY <1>0, <2>1 DEF AnsweredInv, PendingInv
  <2>3. /\ state' # "HELLO"
        /\ state = "ESTABLISHED" => state' = "ESTABLISHED"
        /\ Head(to_client).type = "AUTH_OK" => state' = "ESTABLISHED"
    BY <1>0, <1>4, <2>2 DEF PacketStep, ProcessHelloAck, ProcessAuthResp, ProcessKeyResp,
      ProcessError, ProcessChatDeliver, ProcessBye, Receives, sess, TypeOK
  <2>4. ASSUME peer' \in Welcomed, state' # "ESTABLISHED"
        PROVE  \E i \in 1..Len(to_client') : to_client'[i].type = "AUTH_OK"
    <3>1. PICK i \in 1..Len(to_client) : to_client[i].type = "AUTH_OK"
      BY <1>0, <2>1, <2>3, <2>4 DEF PendingInv
    <3>2. i # 1
      BY <1>0, <2>1, <2>3, <2>4, <3>1, HeadOfQueues
    <3>3. i \in 2..Len(to_client)
      BY <1>0a, <3>2
    <3>4. i - 1 \in 1..Len(to_client') /\ to_client'[i - 1] = to_client[i]
      BY <1>0a, <2>1, <3>3, SeqTail
    <3> QED
      BY <3>1, <3>4
  <2> QED
    BY <2>3, <2>4 DEF PendingInv
<1>5. CASE PeerSteps
  <2>0. UNCHANGED <<stream, state>>
    BY <1>0, <1>5, PeerFrame DEF link, sess
  <2>1. CASE /\ to_client' = to_client
             /\ peer' = "HELLO" <=> peer = "HELLO"
             /\ peer' \in Welcomed <=> peer \in Welcomed
    BY <1>0, <2>0, <2>1 DEF PendingInv
  <2>2. ASSUME NEW p \in DownPackets, Says(p), stream = "open" PROVE PendingInv'
    <3>1. /\ Len(to_client) + 1 \in 1..Len(to_client')
          /\ \A i \in 1..Len(to_client) : i \in 1..Len(to_client') /\ to_client'[i] = to_client[i]
          /\ to_client'[Len(to_client) + 1] = p
      BY <1>0a, <2>2, SeqAppend DEF Says
    <3>2. /\ to_client' # << >>
          /\ to_client # << >> => Head(to_client') = Head(to_client)
          /\ to_client = << >> => Head(to_client') = p
      BY <1>0a, <2>2, SeqAppend DEF Says
    <3>3. state' = "HELLO" => to_client' # << >> /\ Head(to_client').type = "HELLO_ACK"
      BY <1>0, <2>0, <2>2, <3>2 DEF Says, AnsweredInv, PendingInv
    <3>4. peer' \in Welcomed /\ state' # "ESTABLISHED" =>
            \E i \in 1..Len(to_client') : to_client'[i].type = "AUTH_OK"
      BY <1>0, <2>0, <2>2, <3>1 DEF Says, PendingInv
    <3> QED
      BY <3>3, <3>4 DEF PendingInv
  <2> QED
    BY <1>0, <1>5, <2>1, <2>2, PeerSays, PeerFrame
<1> QED
  BY <1>1, <1>2, <1>3, <1>4, <1>5, StepKinds

(* Where main is, the client's session state and the server's. *)
LEMMA SessionKept ==
  ASSUME ClientInv, [Next]_vars
  PROVE  SessionInv'
<1>0. TypeOK /\ ConnInv /\ SessionInv /\ SentInv /\ AnsweredInv /\ PendingInv
  BY DEF ClientInv
<1>0a. to_server \in Seq(UpPackets) /\ Len(to_server) \in Nat
  BY <1>0, QueueTypes
<1> USE DEF Early, Greeting, Welcomed, Chatting
<1>1. CASE MainMoves
  <2>0. UNCHANGED <<to_server, to_client, peer, state, auth_ok>>
    BY <1>0, <1>1, QuietFrame DEF Quiet
  <2> USE <1>0, <2>0 DEF At, Goto, sems, flags, SessionInv, TypeOK
  <2>1. CASE Connect \/ TestLogin \/ TestAuth
    BY <2>1 DEF Connect, TestLogin, TestAuth
  <2>2. CASE WaitReady
    BY <2>2 DEF WaitReady
  <2>3. CASE WaitAuth
    BY <2>3 DEF WaitAuth
  <2>4. CASE Prompt \/ InterruptReadline \/ TakeKey \/ KeyTimeout \/ CheckKey
    BY <2>4 DEF Prompt, InterruptReadline, TakeKey, KeyTimeout, CheckKey
  <2>5. CASE TestAlive \/ Disconnect \/ AwaitClosed
    BY <2>5 DEF TestAlive, Disconnect, AwaitClosed
  <2>6. CASE UserStep
    BY <2>6 DEF UserStep, ReadCredentials, LoginFails, ReadQuit, ReadUnusable, ReadMessage
  <2> QED
    BY <1>1, <2>1, <2>2, <2>3, <2>4, <2>5, <2>6 DEF MainMoves
<1>2. CASE Signal \/ KillMain
  <2>1. UNCHANGED <<to_server, to_client, peer, state, auth_ok, login_ready>>
    BY <1>2 DEF Signal, KillMain, channel, sess, sems
  <2>2. /\ mpc' # mpc => \/ mpc = "readyBlocked" /\ mpc' = "testLogin"
                         \/ mpc = "login" /\ mpc' = "auth"
                         \/ mpc = "authBlocked" /\ mpc' = "testAuth"
                         \/ mpc = "key" /\ mpc' = "prompt"
        /\ g_interrupted'
    BY <1>2 DEF Signal, KillMain, Interrupted, AfterSignal
  <2> QED
    BY <1>0, <2>1, <2>2 DEF SessionInv
<1>3. CASE Connected \/ HandshakeFails \/ OnDisconnected \/ Crash \/ UNCHANGED vars
  <2>1. UNCHANGED <<mpc, to_server, to_client, peer, state, auth_ok, login_ready>>
    BY <1>3 DEF Connected, HandshakeFails, OnDisconnected, Crash, vars, channel, sess, sems
  <2>2. g_interrupted => g_interrupted'
    BY <1>3 DEF Connected, HandshakeFails, OnDisconnected, Crash, vars, flags
  <2> QED
    BY <1>0, <2>1, <2>2 DEF SessionInv
<1>4. CASE OpenStream
  BY <1>0, <1>4 DEF OpenStream, At, Goto, channel, flags, sess, sems, SessionInv
<1>5. CASE StreamClosed
  BY <1>0, <1>5, SeqEmpty DEF StreamClosed, channel, flags, sess, sems, SessionInv
<1>6. CASE MainSends
  <2>1. UNCHANGED <<peer, state, auth_ok, login_ready, g_interrupted>>
    BY <1>0, <1>6, SendsFrame DEF flags, sess, sems
  <2>2. CASE SendHello
    <3>1. mpc = "hello" /\ mpc' = "ready" /\ peer = "HELLO" /\ to_server = << >>
      BY <1>0, <2>2 DEF SendHello, At, Goto, SessionInv
    <3>2. Len(to_server') \in {0, 1}
      <4>1. Simple("HELLO") \in UpPackets
        BY PacketTypes DEF UpTypes
      <4>2. Len(Append(to_server, Simple("HELLO"))) = 1 /\ Len(to_server) = 0
        BY <1>0a, <3>1, <4>1, SeqAppend
      <4> QED
        BY <2>2, <4>2 DEF SendHello, Send
    <3> QED
      BY <1>0, <2>1, <3>1, <3>2 DEF SessionInv
  <2>3. CASE SendAuthReq \/ SendKeyReq \/ EncryptAndSend \/ SendBye
    <3>1. /\ mpc' \notin Early \cup Greeting
          /\ mpc' \in Chatting => mpc \in Chatting
      BY <2>3 DEF SendAuthReq, SendKeyReq, EncryptAndSend, SendBye, At, Goto
    <3> QED
      BY <1>0, <2>1, <3>1 DEF SessionInv
  <2> QED
    BY <1>6, <2>2, <2>3 DEF MainSends
<1>7. CASE PacketStep
  <2>1. /\ to_client # << >> /\ UNCHANGED <<mpc, peer>>
        /\ Head(to_client) = to_client[1] /\ 1 \in 1..Len(to_client)
    BY <1>0, <1>7, PacketFrame, HeadOfQueues
  <2>2. /\ peer # "HELLO"
        /\ Head(to_client).type = "BYE" => peer \in {"stopping", "CLOSING"}
        /\ Head(to_client).type = "AUTH_OK" => peer \in Welcomed
    BY <1>0, <2>1 DEF AnsweredInv
  <2>3. mpc \in Early \cup Greeting => to_server' = to_server
    BY <1>0, <1>7, <2>2 DEF PacketStep, ProcessHelloAck, ProcessAuthResp, ProcessKeyResp,
      ProcessError, ProcessChatDeliver, ProcessBye, Receives, SessionInv
  <2>4. g_interrupted => g_interrupted'
    BY <1>7 DEF PacketStep, ProcessHelloAck, ProcessAuthResp, ProcessKeyResp,
      ProcessError, ProcessChatDeliver, ProcessBye, flags
  <2>5. /\ state # "HELLO" => state' # "HELLO"
        /\ login_ready' > 0 => state' # "HELLO"
        /\ auth_ok' => state' = "ESTABLISHED"
        /\ state' = "ESTABLISHED" => peer \in Welcomed
        /\ auth_ok => auth_ok'
    <3>1. CASE ProcessHelloAck
      BY <1>0, <3>1 DEF ProcessHelloAck, SessionInv, TypeOK
    <3>2. CASE ProcessAuthResp
      <4>1. CASE state = "AUTH"
        <5>1. ~auth_ok /\ state' \in {"AUTH", "ESTABLISHED"}
          BY <1>0, <3>2, <4>1 DEF ProcessAuthResp, SessionInv
        <5>2. auth_ok' => Head(to_client).type = "AUTH_OK" /\ state' = "ESTABLISHED"
          BY <3>2, <4>1 DEF ProcessAuthResp
        <5>3. state' = "ESTABLISHED" => auth_ok'
          BY <3>2, <4>1 DEF ProcessAuthResp
        <5> QED
          BY <2>2, <4>1, <5>1, <5>2, <5>3
      <4>2. CASE state # "AUTH"
        BY <1>0, <3>2, <4>2 DEF ProcessAuthResp, SessionInv
      <4> QED
        BY <4>1, <4>2
    <3>3. CASE ProcessKeyResp \/ ProcessError \/ ProcessChatDeliver \/ ProcessBye
      BY <1>0, <3>3 DEF ProcessKeyResp, ProcessError, ProcessChatDeliver, ProcessBye, SessionInv,
        sess, sems
    <3> QED
      BY <1>7, <3>1, <3>2, <3>3 DEF PacketStep
  <2> QED
    BY <1>0, <2>1, <2>2, <2>3, <2>4, <2>5 DEF SessionInv
<1>8. CASE PeerSteps
  <2>1. UNCHANGED <<mpc, state, auth_ok, login_ready, g_interrupted>>
    BY <1>0, <1>8, PeerFrame DEF flags, sess, sems
  <2>2. mpc \in Early => peer' = "HELLO" /\ to_server' = << >>
    <3>1. mpc \in Early => peer = "HELLO" /\ to_server = << >>
      BY <1>0 DEF SessionInv
    <3>2. to_server = << >> => ~PeerHello
      BY DEF PeerHello, Takes
    <3> QED
      BY <1>0, <1>8, <3>1, <3>2, PeerForward, PeerFrame DEF Owing
  <2>3. ASSUME mpc \in Greeting
        PROVE  /\ peer' \in {"HELLO", "AUTH"} /\ Len(to_server') \in {0, 1}
               /\ peer' = "AUTH" => to_server' = << >>
    <3>1. /\ peer \in {"HELLO", "AUTH"} /\ Len(to_server) \in {0, 1}
          /\ peer = "AUTH" => to_server = << >>
      BY <1>0, <2>3 DEF SessionInv
    <3>2. CASE to_server = << >>
      <4>1. ~PeerHello /\ ~PeerAuthReq
        BY <3>2 DEF PeerHello, PeerAuthReq, Takes
      <4>2. peer' = peer /\ to_server' = to_server
        BY <1>0, <1>8, <3>1, <3>2, <4>1, PeerForward, PeerFrame DEF Owing
      <4> QED
        BY <3>1, <4>2
    <3>3. CASE to_server # << >>
      <4>0. Len(to_server) # 0
        BY <1>0a, <3>3, SeqEmpty
      <4>1. peer = "HELLO" /\ Len(to_server) = 1
        BY <1>0a, <3>1, <3>3, <4>0
      <4>2. peer' = peer \/ (peer' = "AUTH" /\ PeerHello)
        BY <1>0, <1>8, <4>1, PeerForward DEF Owing
      <4>3. Len(Tail(to_server)) = 0 /\ Tail(to_server) \in Seq(UpPackets)
        BY <1>0a, <3>3, <4>1, SeqTail
      <4>4. Tail(to_server) = << >>
        BY <4>3, SeqEmpty
      <4>5. /\ to_server' = to_server \/ to_server' = Tail(to_server)
            /\ PeerHello => to_server' = Tail(to_server)
        BY <1>0, <1>8, PeerFrame DEF PeerHello, Takes
      <4>6. Len(to_server') \in {0, 1}
        <5>1. to_server' = to_server \/ to_server' = << >>
          BY <4>4, <4>5
        <5> QED
          BY <4>1, <5>1, SeqEmpty
      <4> QED
        BY <4>1, <4>2, <4>4, <4>5, <4>6
    <3> QED
      BY <3>2, <3>3
  <2> QED
    BY <1>0, <1>8, <2>1, <2>2, <2>3, PeerForward DEF SessionInv
<1> QED
  BY <1>1, <1>2, <1>3, <1>4, <1>5, <1>6, <1>7, <1>8, StepKinds DEF Quiet

-----------------------------------------------------------------------------
(* The key fetch. *)
LEMMA PacketKinds ==
  /\ \A p \in UpPackets : p \in KeyReqs <=> p.type = "KEY_REQ"
  /\ \A p \in UpPackets : p \in WrongChats <=> (p.type = "CHAT_SEND" /\ p.key # p.user)
  /\ \A p \in DownPackets : p \in Answers <=> p.type \in {"KEY_RESP", "USER_NOT_FOUND"}
  /\ \A u : \A p \in DownPackets :
       p \in KeysNotOf(u) <=> (p.type = "KEY_RESP" /\ p.key # u)
  /\ \A u : \A p \in UpPackets :
       p \in ReqsNotFor(u) <=> (p.type = "KEY_REQ" /\ p.user # u)
BY DEF UpPackets, DownPackets, PacketsOf, KeyReqs, WrongChats, Answers, KeysNotOf, ReqsNotFor,
  UpTypes, DownTypes

LEMMA PartKinds ==
  ASSUME NEW u
  PROVE  ReqsNotFor(u) \in SUBSET KeyReqs /\ KeysNotOf(u) \in SUBSET Answers
BY DEF ReqsNotFor, KeysNotOf, KeyReqs, Answers, PacketsOf

(* t holds no packet of T that s does not hold. *)
Keeps(t, s, T) ==
  /\ \A X \in SUBSET T : None(s, X) => None(t, X)
  /\ Single(s, T) => Single(t, T)

LEMMA QueueKeeps ==
  ASSUME NEW S, NEW s \in Seq(S), NEW T
  PROVE  /\ Keeps(s, s, T)
         /\ Keeps(<< >>, s, T)
         /\ s # << >> => Keeps(Tail(s), s, T)
         /\ \A e \in S : e \notin T => Keeps(Append(s, e), s, T)
<1>1. Keeps(s, s, T) /\ Keeps(<< >>, s, T)
  BY NoneOfEmpty DEF Keeps
<1>2. ASSUME s # << >> PROVE Keeps(Tail(s), s, T)
  BY <1>2, NoneKept, SingleKept DEF Keeps
<1>3. ASSUME NEW e \in S, e \notin T PROVE Keeps(Append(s, e), s, T)
  BY <1>3, NoneKept, SingleKept DEF Keeps
<1> QED
  BY <1>1, <1>2, <1>3

(* A step that is not one of the fetch. *)
LEMMA FetchFrame ==
  ASSUME FetchOK,
         Keeps(to_server', to_server, KeyReqs), Keeps(to_client', to_client, Answers),
         None(to_server', WrongChats),
         UNCHANGED <<key_fetch_sem, key_fetch_result, recipient>>,
         \/ mpc' = mpc
         \/ mpc # "key" /\ mpc' \notin {"key", "check", "encrypt"}
         \/ mpc = "check" /\ mpc' = "encrypt"
  PROVE  FetchOK'
<1>1. /\ None(to_server, KeyReqs) => None(to_server', KeyReqs)
      /\ None(to_client, Answers) => None(to_client', Answers)
      /\ Single(to_server', KeyReqs) /\ Single(to_client', Answers)
  BY DEF Keeps, FetchOK
<1>2. /\ None(to_server, ReqsNotFor(recipient)) => None(to_server', ReqsNotFor(recipient))
      /\ None(to_client, KeysNotOf(recipient)) => None(to_client', KeysNotOf(recipient))
  BY PartKinds DEF Keeps
<1>3. mpc' = "key" => mpc = "key"
  OBVIOUS
<1>4. /\ mpc' # "key" => /\ None(to_server', KeyReqs) /\ None(to_client', Answers)
                         /\ key_fetch_sem' = 0
      /\ mpc' = "key" => /\ None(to_server', ReqsNotFor(recipient))
                         /\ None(to_client', KeysNotOf(recipient))
                         /\ key_fetch_sem' = 1 => key_fetch_result' \in {ZERO, recipient}
      /\ mpc' \in {"check", "encrypt"} => key_fetch_result' \in {ZERO, recipient}
  BY <1>1, <1>2, <1>3 DEF FetchOK
<1>5. /\ key_fetch_sem' \in {0, 1}
      /\ ~None(to_server', KeyReqs) => None(to_client', Answers) /\ key_fetch_sem' = 0
      /\ ~None(to_client', Answers) => key_fetch_sem' = 0
  BY <1>1 DEF FetchOK
<1>6. ReqsNotFor(recipient)' = ReqsNotFor(recipient) /\ KeysNotOf(recipient)' = KeysNotOf(recipient)
  BY DEF ReqsNotFor, KeysNotOf
<1> QED
  BY <1>1, <1>4, <1>5, <1>6 DEF FetchOK

(* The steps of a fetch. *)
LEMMA SendKeyReqFetch ==
  ASSUME TypeOK, FetchOK, SendKeyReq
  PROVE  FetchOK'
<1> DEFINE p == Pkt("KEY_REQ", recipient, ZERO)
<1>1. /\ mpc = "fetch" /\ mpc' = "key"
      /\ UNCHANGED <<to_client, key_fetch_sem, key_fetch_result, recipient>>
      /\ to_server' = to_server \/ to_server' = Append(to_server, p)
  BY DEF SendKeyReq, At, Goto, Send, sems, sess, input
<1>2. p \in UpPackets /\ p.type = "KEY_REQ" /\ p.user = recipient
  <2>1. recipient \in Users \cup {ZERO} /\ ZERO \in Users \cup {ZERO} /\ "KEY_REQ" \in UpTypes
    BY DEF TypeOK, UpTypes
  <2> QED
    BY <2>1, PacketTypes
<1> HIDE DEF p
<1>3. None(to_server, KeyReqs) /\ None(to_client, Answers) /\ key_fetch_sem = 0
  BY <1>1 DEF FetchOK
<1>4. None(to_server, ReqsNotFor(recipient)) /\ None(to_client, KeysNotOf(recipient))
  BY <1>3, PartKinds DEF None
<1>5. p \notin WrongChats /\ p \notin ReqsNotFor(recipient)
  BY <1>2, PacketKinds
<1>6. /\ Single(Append(to_server, p), KeyReqs)
      /\ None(Append(to_server, p), WrongChats)
      /\ None(Append(to_server, p), ReqsNotFor(recipient))
  BY <1>2, <1>3, <1>4, <1>5, QueueTypes, NoneKept, SingleKept DEF FetchOK
<1>7. /\ Single(to_server', KeyReqs)
      /\ None(to_server', WrongChats)
      /\ None(to_server', ReqsNotFor(recipient))
  BY <1>1, <1>4, <1>6 DEF FetchOK
<1>8. ReqsNotFor(recipient)' = ReqsNotFor(recipient) /\ KeysNotOf(recipient)' = KeysNotOf(recipient)
  BY <1>1 DEF ReqsNotFor, KeysNotOf
<1> QED
  BY <1>1, <1>3, <1>4, <1>7, <1>8 DEF FetchOK

LEMMA PeerKeyReqFetch ==
  ASSUME TypeOK, FetchOK, PeerKeyReq
  PROVE  FetchOK'
<1> DEFINE h == Head(to_server)
<1>1. /\ to_server # << >> /\ to_server' = Tail(to_server) /\ h.type = "KEY_REQ"
      /\ UNCHANGED <<mpc, key_fetch_sem, key_fetch_result, recipient>>
      /\ \/ to_client' = Append(to_client, Pkt("KEY_RESP", h.user, h.user))
         \/ to_client' = Append(to_client, Simple("USER_NOT_FOUND"))
  BY DEF PeerKeyReq, Takes, Answer, sems, sess, input
<1>2. h \in UpPackets /\ h = to_server[1] /\ 1 \in 1..Len(to_server)
  BY <1>1, QueueTypes, SeqTail
<1>3. h \in KeyReqs /\ ~None(to_server, KeyReqs)
  BY <1>1, <1>2, PacketKinds DEF None
<1>4. /\ None(to_client, Answers) /\ key_fetch_sem = 0 /\ mpc = "key"
      /\ None(to_server, ReqsNotFor(recipient))
  BY <1>3 DEF FetchOK
<1>5. h.user = recipient
  BY <1>1, <1>2, <1>4, PacketKinds DEF None
<1>6. PICK a \in DownPackets : /\ to_client' = Append(to_client, a)
                               /\ a \notin KeysNotOf(recipient)
  <2>1. /\ Pkt("KEY_RESP", recipient, recipient) \in DownPackets
        /\ Pkt("KEY_RESP", recipient, recipient).key = recipient
        /\ Simple("USER_NOT_FOUND") \in DownPackets
        /\ Simple("USER_NOT_FOUND").type = "USER_NOT_FOUND"
    BY PacketTypes DEF TypeOK, DownTypes
  <2> QED
    BY <1>1, <1>5, <2>1, PacketKinds
<1>7. /\ Single(Append(to_client, a), Answers)
      /\ None(Append(to_client, a), KeysNotOf(recipient))
  BY <1>4, <1>6, PartKinds, QueueTypes, NoneKept, SingleKept DEF FetchOK, None
<1>8. /\ None(Tail(to_server), KeyReqs) /\ Single(Tail(to_server), KeyReqs)
      /\ None(Tail(to_server), WrongChats) /\ None(Tail(to_server), ReqsNotFor(recipient))
  BY <1>1, <1>3, <1>4, QueueTypes, NoneKept, SingleKept DEF FetchOK
<1>9. ReqsNotFor(recipient)' = ReqsNotFor(recipient) /\ KeysNotOf(recipient)' = KeysNotOf(recipient)
  BY <1>1 DEF ReqsNotFor, KeysNotOf
<1> QED
  BY <1>1, <1>4, <1>6, <1>7, <1>8, <1>9 DEF FetchOK

(* The answer posts key_fetch_sem: ProcessKeyResp, or ProcessError. *)
LEMMA AnswerFetch ==
  ASSUME TypeOK, FetchOK, to_client # << >>, to_client' = Tail(to_client),
         Head(to_client).type \in {"KEY_RESP", "USER_NOT_FOUND"},
         Head(to_client).type = "KEY_RESP" => key_fetch_result' = Head(to_client).key,
         Head(to_client).type # "KEY_RESP" => key_fetch_result' = ZERO,
         key_fetch_sem' = key_fetch_sem + 1,
         UNCHANGED <<mpc, recipient, to_server>>
  PROVE  FetchOK'
<1>1. Head(to_client) \in DownPackets /\ Head(to_client) = to_client[1] /\ 1 \in 1..Len(to_client)
  BY QueueTypes, SeqTail
<1>2. Head(to_client) \in Answers /\ ~None(to_client, Answers)
  BY <1>1, PacketKinds DEF None
<1>3. key_fetch_sem = 0 /\ mpc = "key" /\ None(to_server, KeyReqs)
  BY <1>2 DEF FetchOK
<1>4. None(to_server, ReqsNotFor(recipient)) /\ None(to_client, KeysNotOf(recipient))
  BY <1>3 DEF FetchOK
<1>5. key_fetch_result' \in {ZERO, recipient}
  BY <1>1, <1>4, PacketKinds DEF None
<1>6. /\ None(Tail(to_client), Answers) /\ Single(Tail(to_client), Answers)
      /\ None(Tail(to_client), KeysNotOf(recipient))
  BY <1>2, <1>4, QueueTypes, NoneKept, SingleKept DEF FetchOK
<1>7. ReqsNotFor(recipient)' = ReqsNotFor(recipient) /\ KeysNotOf(recipient)' = KeysNotOf(recipient)
  BY DEF ReqsNotFor, KeysNotOf
<1>8. key_fetch_sem' = 1
  BY <1>3
<1> QED
  BY <1>3, <1>4, <1>5, <1>6, <1>7, <1>8 DEF FetchOK

LEMMA TakeKeyFetch ==
  ASSUME TypeOK, FetchOK, TakeKey
  PROVE  FetchOK'
<1>1. /\ mpc = "key" /\ mpc' = "check" /\ key_fetch_sem > 0 /\ key_fetch_sem' = key_fetch_sem - 1
      /\ UNCHANGED <<to_client, to_server, key_fetch_result, recipient>>
  BY DEF TakeKey, At, Goto, sess, input, channel
<1>2. key_fetch_sem = 1
  BY <1>1 DEF FetchOK
<1>3. /\ key_fetch_sem' = 0 /\ None(to_server, KeyReqs) /\ None(to_client, Answers)
      /\ key_fetch_result \in {ZERO, recipient}
  BY <1>1, <1>2 DEF FetchOK
<1> QED
  BY <1>1, <1>3 DEF FetchOK

LEMMA FetchKept ==
  ASSUME ClientInv, [Next]_vars
  PROVE  FetchInv'
<1> SUFFICES ASSUME ~late' PROVE FetchOK'
  BY DEF FetchInv
<1>0. TypeOK /\ to_server \in Seq(UpPackets) /\ to_client \in Seq(DownPackets)
  BY QueueTypes DEF ClientInv
<1>0a. ASSUME late => late' PROVE FetchOK
  BY <1>0a DEF ClientInv, FetchInv
<1>0b. Keeps(to_server, to_server, KeyReqs) /\ Keeps(to_client, to_client, Answers)
  BY <1>0, QueueKeeps
<1>1. CASE Quiet
  <2>0. FetchOK /\ UNCHANGED <<to_server, to_client, key_fetch_result>>
    BY <1>0, <1>0a, <1>1, QuietFrame
  <2>1. CASE TakeKey
    BY <1>0, <2>0, <2>1, TakeKeyFetch
  <2>2. CASE \E u \in Users : ReadMessage(u)
    <3>1. mpc = "readline" /\ mpc' = "fetch" /\ key_fetch_sem' = key_fetch_sem
      BY <2>2 DEF ReadMessage, At, Goto, sems
    <3> QED
      BY <2>0, <3>1 DEF FetchOK
  <2>3. CASE ~TakeKey /\ ~(\E u \in Users : ReadMessage(u))
    <3>1. UNCHANGED <<key_fetch_sem, recipient>>
      BY <1>1, <2>3 DEF Quiet, MainMoves, Connect, WaitReady, TestLogin, WaitAuth, TestAuth, Prompt,
        InterruptReadline, KeyTimeout, CheckKey, TestAlive, Disconnect, AwaitClosed, UserStep,
        ReadCredentials, LoginFails, ReadQuit, ReadUnusable, Signal, KillMain, Connected,
        HandshakeFails, OnDisconnected, Crash, vars, sems, input
    <3>2. \/ mpc' = mpc
          \/ mpc # "key" /\ mpc' \notin {"key", "check", "encrypt"}
          \/ mpc = "check" /\ mpc' = "encrypt"
      <4>1. CASE Signal \/ KillMain
        <5>1. mpc' # mpc => mpc' \in {"testLogin", "auth", "testAuth", "prompt"}
                            /\ (mpc' = "prompt" <=> mpc = "key")
          BY <4>1 DEF Signal, KillMain, Interrupted, AfterSignal
        <5>2. ~(mpc = "key" /\ mpc' = "prompt")
          BY <4>1 DEF Signal, KillMain, Interrupted
        <5> QED
          BY <5>1, <5>2
      <4>2. ~KeyTimeout
        BY DEF KeyTimeout
      <4>3. CASE Quiet /\ ~Signal /\ ~KillMain
        BY <2>3, <4>2, <4>3 DEF Quiet, MainMoves, Connect, WaitReady, TestLogin, WaitAuth, TestAuth,
          Prompt, InterruptReadline, CheckKey, TestAlive, Disconnect, AwaitClosed, UserStep,
          ReadCredentials, LoginFails, ReadQuit, ReadUnusable, Connected, HandshakeFails,
          OnDisconnected, Crash, vars, At, Goto
      <4> QED
        BY <1>1, <4>1, <4>3
    <3> QED
      BY <1>0b, <2>0, <3>1, <3>2, FetchFrame DEF FetchOK
  <2> QED
    BY <2>1, <2>2, <2>3
<1>2. CASE OpenStream
  <2>1. /\ UNCHANGED <<to_server, to_client, key_fetch_sem, key_fetch_result, recipient, late>>
        /\ mpc # "key" /\ mpc' \notin {"key", "check", "encrypt"}
    BY <1>2 DEF OpenStream, At, Goto, sems, sess, input, channel
  <2> QED
    BY <1>0a, <1>0b, <2>1, FetchFrame DEF FetchOK
<1>3. CASE MainSends
  <2>0. FetchOK /\ UNCHANGED <<to_client, key_fetch_sem, key_fetch_result, recipient>>
    BY <1>0, <1>0a, <1>3, SendsFrame DEF sems, sess, input
  <2>1. CASE SendKeyReq
    BY <1>0, <2>0, <2>1, SendKeyReqFetch
  <2>2. CASE ~SendKeyReq
    <3>1. mpc # "key" /\ mpc' \notin {"key", "check", "encrypt"}
      BY <1>3, <2>2 DEF MainSends, SendHello, SendAuthReq, EncryptAndSend, SendBye, At, Goto
    <3>2. CASE to_server' = to_server
      BY <1>0b, <2>0, <3>1, <3>2, FetchFrame DEF FetchOK
    <3>3. CASE to_server' # to_server
      <4>1. PICK p \in UpPackets :
                   /\ to_server' = Append(to_server, p)
                   /\ \/ p = Simple("HELLO") \/ p = Simple("AUTH_REQ") \/ p = Simple("BYE")
                      \/ /\ EncryptAndSend /\ key_fetch_result # ZERO
                         /\ p = Pkt("CHAT_SEND", recipient, key_fetch_result)
        BY <1>0, <1>3, <2>2, <3>3, SendsFrame
      <4>2. EncryptAndSend => key_fetch_result \in {ZERO, recipient}
        BY <2>0 DEF EncryptAndSend, At, FetchOK
      <4>3. \/ p.type \in {"HELLO", "AUTH_REQ", "BYE"}
            \/ p.type = "CHAT_SEND" /\ p.key = p.user
        BY <4>1, <4>2, PacketTypes DEF UpTypes
      <4>4. p \notin KeyReqs /\ p \notin WrongChats
        BY <4>3, PacketKinds
      <4>5. None(to_server', WrongChats) /\ Keeps(to_server', to_server, KeyReqs)
        BY <1>0, <2>0, <4>1, <4>4, NoneKept, QueueKeeps DEF FetchOK
      <4> QED
        BY <1>0b, <2>0, <3>1, <4>5, FetchFrame
    <3> QED
      BY <3>2, <3>3
  <2> QED
    BY <2>1, <2>2
<1>4. CASE StreamClosed
  <2>1. /\ UNCHANGED <<mpc, key_fetch_sem, key_fetch_result, recipient, late>>
        /\ to_server' = << >> /\ to_client' = << >>
    BY <1>4 DEF StreamClosed, sems, sess, input
  <2>2. /\ Keeps(to_server', to_server, KeyReqs) /\ Keeps(to_client', to_client, Answers)
        /\ None(to_server', WrongChats)
    BY <1>0, <2>1, QueueKeeps, NoneOfEmpty
  <2> QED
    BY <1>0a, <2>1, <2>2, FetchFrame
<1>5. CASE PacketStep
  <2>0. /\ FetchOK /\ to_client # << >> /\ to_client' = Tail(to_client)
        /\ UNCHANGED <<mpc, recipient>>
    BY <1>0, <1>0a, <1>5, PacketFrame DEF input
  <2>1. CASE ProcessKeyResp
    <3>1. /\ Head(to_client).type = "KEY_RESP" /\ key_fetch_result' = Head(to_client).key
          /\ key_fetch_sem' = key_fetch_sem + 1 /\ to_server' = to_server
      BY <2>1 DEF ProcessKeyResp, Receives
    <3> QED
      BY <1>0, <2>0, <3>1, AnswerFetch
  <2>2. CASE ProcessError /\ Head(to_client).type = "USER_NOT_FOUND"
    <3>1. /\ key_fetch_result' = ZERO
          /\ key_fetch_sem' = key_fetch_sem + 1 /\ to_server' = to_server
      BY <2>2 DEF ProcessError
    <3> QED
      BY <1>0, <2>0, <2>2, <3>1, AnswerFetch
  <2>3. CASE ~ProcessKeyResp /\ ~(ProcessError /\ Head(to_client).type = "USER_NOT_FOUND")
    <3>1. UNCHANGED <<key_fetch_sem, key_fetch_result>>
      BY <1>5, <2>3 DEF PacketStep, ProcessHelloAck, ProcessAuthResp, ProcessError,
        ProcessChatDeliver, ProcessBye, sems, sess
    <3>2. Simple("BYE") \in UpPackets /\ Simple("BYE") \notin KeyReqs \cup WrongChats
      BY PacketTypes, PacketKinds DEF UpTypes
    <3>2a. /\ Keeps(Append(to_server, Simple("BYE")), to_server, KeyReqs)
           /\ None(Append(to_server, Simple("BYE")), WrongChats)
      BY <1>0, <2>0, <3>2, NoneKept, QueueKeeps DEF FetchOK
    <3>2b. to_server' \in {to_server, Append(to_server, Simple("BYE"))}
      BY <1>0, <1>5, PacketFrame
    <3>3. Keeps(to_server', to_server, KeyReqs) /\ None(to_server', WrongChats)
      BY <1>0b, <2>0, <3>2a, <3>2b DEF FetchOK
    <3>4. Keeps(to_client', to_client, Answers)
      BY <1>0, <2>0, QueueKeeps
    <3> QED
      BY <2>0, <3>1, <3>3, <3>4, FetchFrame
  <2> QED
    BY <2>1, <2>2, <2>3
<1>6. CASE PeerSteps
  <2>0. FetchOK /\ UNCHANGED <<mpc, key_fetch_sem, key_fetch_result, recipient>>
    BY <1>0, <1>0a, <1>6, PeerFrame DEF sems, sess, input
  <2>1. CASE PeerKeyReq
    BY <1>0, <2>0, <2>1, PeerKeyReqFetch
  <2>2. CASE ~PeerKeyReq
    <3>1. Keeps(to_server', to_server, KeyReqs) /\ None(to_server', WrongChats)
      <4>1. to_server # << >> => /\ Keeps(Tail(to_server), to_server, KeyReqs)
                                 /\ None(Tail(to_server), WrongChats)
        BY <1>0, <2>0, NoneKept, QueueKeeps DEF FetchOK
      <4>2. to_server' = to_server \/ (to_server # << >> /\ to_server' = Tail(to_server))
        BY <1>0, <1>6, PeerFrame
      <4> QED
        BY <1>0b, <2>0, <4>1, <4>2 DEF FetchOK
    <3>2. \/ to_client' = to_client
          \/ \E t \in DownTypes \ {"KEY_RESP", "USER_NOT_FOUND"} :
               to_client' = Append(to_client, Simple(t))
      BY <1>6, <2>2 DEF PeerSteps, PeerAnswers, PeerHello, PeerAuthReq, PeerLogin, PeerChatSend,
        PeerBye, PeerRejects, PeerDeliver, PeerStops, Answer, DownTypes
    <3>3. \A t \in DownTypes \ {"KEY_RESP", "USER_NOT_FOUND"} :
            Simple(t) \in DownPackets /\ Simple(t) \notin Answers
      BY PacketTypes, PacketKinds
    <3>4. Keeps(to_client', to_client, Answers)
      BY <1>0, <1>0b, <3>2, <3>3, QueueKeeps
    <3> QED
      BY <2>0, <3>1, <3>4, FetchFrame
  <2> QED
    BY <2>1, <2>2
<1> QED
  BY <1>1, <1>2, <1>3, <1>4, <1>5, <1>6, StepKinds

-----------------------------------------------------------------------------
LEMMA InitClientInv ==
  ASSUME Init
  PROVE  ClientInv
<1>0. MaxLines \in 0..MaxLines
  BY ClientAssumption
<1>1. TypeOK
  BY <1>0, SeqEmpty DEF Init, TypeOK, MainPc
<1>2. ConnInv /\ SessionInv
  BY SeqEmpty DEF Init, ConnInv, SessionInv, Early, Greeting, Chatting
<1>3. SentInv /\ AnsweredInv /\ PendingInv
  BY SeqEmpty DEF Init, SentInv, AnsweredInv, PendingInv
<1>4. FetchInv
  BY NoneOfEmpty DEF Init, FetchInv, FetchOK
<1> QED
  BY <1>1, <1>2, <1>3, <1>4 DEF ClientInv

(* The inductive invariant of the client and its server. *)
THEOREM ClientCorrect == Spec => []ClientInv
<1>1. Init => ClientInv
  BY InitClientInv
<1>2. ClientInv /\ [Next]_vars => ClientInv'
  <2> SUFFICES ASSUME ClientInv, [Next]_vars PROVE ClientInv'
    OBVIOUS
  <2>1. TypeOK'
    BY TypesKept DEF ClientInv
  <2> QED
    BY <2>1, ConnKept, SessionKept, SentKept, AnsweredKept, PendingKept, FetchKept DEF ClientInv
<1> QED
  BY <1>1, <1>2, PTL DEF Spec

(* Every variable of client.c, and every packet on the stream, keeps its   *)
(* type: in particular no semaphore is taken below zero.                   *)
THEOREM ClientTypes == Spec => []TypeOK
<1>1. ClientInv => TypeOK
  BY DEF ClientInv
<1> QED
  BY <1>1, ClientCorrect, PTL

(* Whatever order of posts and signals wakes main, it never sends a packet *)
(* that the server's handler answers with UNEXPECTED_MSG, unless a BYE     *)
(* ended the session first.                                                *)
THEOREM PacketsAreExpected == Spec => []ServerExpects
<1>1. ClientInv => ServerExpects
  BY Expected
<1> QED
  BY <1>1, ClientCorrect, PTL

(* send_chat encrypts with the key of the recipient that the user named,   *)
(* as long as every answer that posts key_fetch_sem was waited for.        *)
THEOREM KeysMatch == Spec => []KeyMatchesUnlessLate
<1>1. ClientInv => KeyMatchesUnlessLate
  <2> SUFFICES ASSUME ClientInv, ~late, NEW i \in 1..Len(to_server),
                      to_server[i].type = "CHAT_SEND"
               PROVE  to_server[i].key = to_server[i].user
    BY DEF KeyMatchesUnlessLate
  <2>1. to_server[i] \in UpPackets
    BY QueueTypes DEF ClientInv
  <2>2. to_server[i] \notin WrongChats
    BY DEF ClientInv, FetchInv, FetchOK, None
  <2> QED
    BY <2>1, <2>2, PacketKinds
<1> QED
  BY <1>1, ClientCorrect, PTL

(* A message that the server delivers is dropped only if it overtakes the  *)
(* answer to the login.                                                    *)
THEOREM DropsAreEarly == Spec => []DroppedOnlyBeforeAuthResp
<1>1. ClientInv => DroppedOnlyBeforeAuthResp
  <2> SUFFICES ASSUME ClientInv, to_client # << >>, Head(to_client).type = "CHAT_DELIVER",
                      state # "ESTABLISHED", peer \notin {"registered", "owed"}
               PROVE  \E i \in 2..Len(to_client) : to_client[i].type = "AUTH_OK"
    BY DEF DroppedOnlyBeforeAuthResp
  <2>1. Head(to_client) = to_client[1] /\ 1 \in 1..Len(to_client) /\ Len(to_client) \in Nat
    BY HeadOfQueues, QueueTypes DEF ClientInv
  <2>2. peer \in Welcomed /\ stream = "open"
    BY <2>1 DEF ClientInv, AnsweredInv, ConnInv, Welcomed, Owing
  <2>3. PICK i \in 1..Len(to_client) : to_client[i].type = "AUTH_OK"
    BY <2>2 DEF ClientInv, PendingInv
  <2>4. i # 1
    BY <2>1, <2>3
  <2>5. i \in 2..Len(to_client)
    BY <2>1, <2>4
  <2> QED
    BY <2>3, <2>5
<1> QED
  BY <1>1, ClientCorrect, PTL

(* When main returns and its session goes out of scope, no callback of     *)
(* msquic_wrapper.c runs and none can come.                                *)
THEOREM ExitIsQuiet == Spec => []ExitAfterCallbacks
<1>1. ClientInv => ExitAfterCallbacks
  BY DEF ClientInv, ConnInv, TypeOK, ExitAfterCallbacks
<1> QED
  BY <1>1, ClientCorrect, PTL
=============================================================================
