------------------------------ MODULE Framing ------------------------------
(***************************************************************************)
(* Packets on a byte stream.  sqmp_stream_send puts a packet's bytes on    *)
(* the QUIC stream; stream_cb hands every RECEIVE event to on_stream_recv, *)
(* which takes its first bytes for one packet, whatever part of the stream *)
(* the event holds.  QUIC may cut the stream anywhere: packets that wait   *)
(* together may come in one event, a packet may come in several.           *)
(*                                                                         *)
(* The two ends are one client (client.c, main with its waits) and the     *)
(* server (its handlers and its login loop), reduced to which packet they  *)
(* send when; modules Client and Server take packets whole and have the    *)
(* rest.  Sizes are those of the packed structs of sqmp.h.                 *)
(***************************************************************************)
EXTENDS Integers, Sequences

CONSTANTS
  CipherLen,    \* bytes of ciphertext in a chat message
  MaxMessages,  \* bound on the messages the client sends
  MaxDelivers,  \* bound on the messages others send to the client
  MaxSpoilt     \* bound on the events cut inside a packet or not stored

ASSUME FramingAssumption ==
  /\ CipherLen \in Nat /\ CipherLen > 16
  /\ MaxMessages \in Nat
  /\ MaxDelivers \in Nat
  /\ MaxSpoilt \in Nat

VARIABLES
  sent,     \* per direction: the packets put on the stream, with their bytes
  read,     \* per direction: how many bytes RECEIVE events have delivered
  handled,  \* per direction: indices of the packets handled whole
  spoilt,   \* per direction: how many events were cut so, or not stored
  cpc,      \* where the client's main is
  sem,      \* the value of key_fetch_sem
  spc,      \* the state of the server's session, and main's work on it
  left,     \* messages the client and the others may still send
  stopped   \* the server's main has left its loop

ends == <<cpc, sem, spc, left>>
wire == <<read, handled, spoilt>>
vars == <<sent, wire, ends, stopped>>

Dirs == {"up", "down"}  \* to the server, to the client
FIXED_LEN == 12         \* SQMP_PKT_FIXED_LEN

(* NOT_FOUND is ERROR with the code that wakes main's key fetch. *)
BodyLen ==
  [HELLO |-> 16, HELLO_ACK |-> 7, AUTH_REQ |-> 67 + 32, AUTH_RESP |-> 8,
   KEY_REQ |-> 33, KEY_RESP |-> 35 + 32, ERROR |-> 130,
   NOT_FOUND |-> 130, BYE |-> 0,
   CHAT_SEND |-> 307 + CipherLen, CHAT_DELIVER |-> 307 + CipherLen]
Types == DOMAIN BodyLen

Init ==
  /\ sent = [d \in Dirs |-> << >>]
  /\ read = [d \in Dirs |-> 0]
  /\ handled = [d \in Dirs |-> {}]
  /\ spoilt = [d \in Dirs |-> 0]
  /\ cpc = "hello"
  /\ sem = 0
  /\ spc = "HELLO"
  /\ left = [client |-> MaxMessages, others |-> MaxDelivers]
  /\ stopped = FALSE

-----------------------------------------------------------------------------
Total(d) == IF sent[d] = << >> THEN 0 ELSE sent[d][Len(sent[d])].end

(* sqmp_stream_send: the bytes go to the end of the stream.  behind says   *)
(* that the other side has not yet received what was sent before.          *)
Send(d, t) ==
  sent' = [sent EXCEPT ![d] = Append(@,
    [type |-> t, start |-> Total(d), end |-> Total(d) + FIXED_LEN + BodyLen[t],
     behind |-> read[d] < Total(d)])]

-----------------------------------------------------------------------------
(* Mistakes that the code might have made.                                 *)

(* A packet must be longer than its header. *)
TooShortByOne(k) == k <= FIXED_LEN

(* main does not wait for HELLO_ACK. *)
SendHelloAtOnce ==
  /\ cpc = "hello"
  /\ Send("up", "HELLO")
  /\ cpc' = "auth"
  /\ UNCHANGED <<sem, spc, left>>

(* The server registers a user and sends no answer. *)
SendAuthRespForgotten ==
  /\ spc = "registered"
  /\ spc' = "ESTABLISHED"
  /\ UNCHANGED <<sent, cpc, sem, left>>

-----------------------------------------------------------------------------
(* The client's main.                                                      *)

SendHello ==
  /\ cpc = "hello"
  /\ Send("up", "HELLO")
  /\ cpc' = "await_ack"
  /\ UNCHANGED <<sem, spc, left>>

SendAuthReq ==
  /\ cpc = "auth"
  /\ Send("up", "AUTH_REQ")
  /\ cpc' = "await_auth"
  /\ UNCHANGED <<sem, spc, left>>

SendKeyReq ==
  /\ cpc = "chat"
  /\ left.client > 0
  /\ Send("up", "KEY_REQ")
  /\ cpc' = "await_key"
  /\ left' = [left EXCEPT !.client = @ - 1]
  /\ UNCHANGED <<sem, spc>>

(* The key has come, or the notice that there is none. *)
SendChat ==
  /\ cpc = "await_key"
  /\ sem > 0
  /\ sem' = sem - 1
  /\ cpc' = "chat"
  /\ Send("up", "CHAT_SEND") \/ UNCHANGED sent
  /\ UNCHANGED <<spc, left>>

KeyTimeout ==
  /\ cpc = "await_key"
  /\ sem = 0
  /\ cpc' = "chat"
  /\ UNCHANGED <<sent, sem, spc, left>>

(* The user quits or a signal ends the wait. *)
Leave ==
  /\ cpc \in {"await_ack", "await_auth", "chat", "leaving"}
  /\ Send("up", "BYE")
  /\ cpc' = "gone"
  /\ UNCHANGED <<sem, spc, left>>

(* Its handlers.  A packet out of turn changes nothing here. *)
ClientTakes(t) ==
  \/ /\ t = "HELLO_ACK"
     /\ cpc' = IF cpc = "await_ack" THEN "auth" ELSE cpc
     /\ UNCHANGED <<sent, sem, spc, left>>
  \/ /\ t = "AUTH_RESP"
     /\ cpc' \in IF cpc = "await_auth" THEN {"chat", "leaving"} ELSE {cpc}
     /\ UNCHANGED <<sent, sem, spc, left>>
  \/ /\ t \in {"KEY_RESP", "NOT_FOUND"}
     /\ sem' = sem + 1
     /\ UNCHANGED <<sent, cpc, spc, left>>
  \/ /\ t = "BYE"
     /\ Send("up", "BYE")
     /\ cpc' = IF cpc \in {"chat", "await_key"} THEN "leaving" ELSE cpc
     /\ UNCHANGED <<sem, spc, left>>
  \/ /\ t \notin {"HELLO_ACK", "AUTH_RESP", "KEY_RESP", "NOT_FOUND", "BYE"}
     /\ UNCHANGED <<sent, ends>>

-----------------------------------------------------------------------------
(* The server's handlers and its main.                                     *)

(* spc is session->state with main's work on the login: "queued" and       *)
(* "refused" are AUTH; "registered" is between sqmp_registry_add and the   *)
(* answer, where the state is AUTH and then CONN_ESTABLISHED; "owed" is    *)
(* CLOSING with the answer still to be sent.                               *)
Listed == spc \in {"registered", "ESTABLISHED"}

ProcessHello ==
  /\ spc = "HELLO"
  /\ spc' = "AUTH"
  /\ Send("down", "HELLO_ACK")
  /\ UNCHANGED <<cpc, sem, left>>

(* A request that is repeated before the answer (bytes of a packet cut in  *)
(* two may look like one) is queued again; AuthQueue has what follows.     *)
ProcessAuthReq ==
  /\ spc \in {"AUTH", "queued", "refused", "registered"}
  /\ spc' = IF spc = "AUTH" THEN "queued" ELSE spc
  /\ UNCHANGED <<sent, cpc, sem, left>>

(* The states in which a handler answers "unexpected". *)
Unexpected(t) ==
  \/ t = "HELLO" /\ spc # "HELLO"
  \/ t = "AUTH_REQ" /\ spc \notin {"AUTH", "queued", "refused"}
  \/ t \in {"KEY_REQ", "CHAT_SEND"} /\ spc # "ESTABLISHED"

ServerTakes(t) ==
  \/ t = "HELLO" /\ ProcessHello
  \/ t = "AUTH_REQ" /\ ProcessAuthReq
  \/ /\ t = "KEY_REQ" /\ Listed
     /\ Send("down", "KEY_RESP") \/ Send("down", "NOT_FOUND")
     /\ UNCHANGED ends
  \/ /\ t = "CHAT_SEND" /\ Listed
     /\ UNCHANGED sent \/ Send("down", "NOT_FOUND")
     /\ UNCHANGED ends
  \/ /\ t = "BYE"
     /\ spc' \in CASE spc = "registered" -> {"registered", "owed"}
                   [] spc = "ESTABLISHED" -> {"CLOSING"}
                   [] OTHER -> {spc}
     /\ UNCHANGED <<sent, cpc, sem, left>>
  \/ /\ Unexpected(t)
     /\ Send("down", "ERROR")
     /\ UNCHANGED ends
  \/ /\ t \notin {"HELLO", "AUTH_REQ", "KEY_REQ", "CHAT_SEND", "BYE"}
     /\ UNCHANGED <<sent, ends>>

(* main registers the user before it answers, or refuses; a main that has  *)
(* left its loop takes no further login from the queue.                    *)
Register ==
  /\ spc = "queued"
  /\ ~stopped
  /\ spc' \in {"registered", "refused"}
  /\ UNCHANGED <<sent, cpc, sem, left>>

Working == spc \in {"registered", "refused", "owed"}

SendAuthResp ==
  /\ Working
  /\ spc' = CASE spc = "refused" -> "AUTH"
              [] spc = "registered" -> "ESTABLISHED"
              [] spc = "owed" -> "CLOSING"
  /\ Send("down", "AUTH_RESP")
  /\ UNCHANGED <<cpc, sem, left>>

(* Another user's message is forwarded. *)
Deliver ==
  /\ Listed
  /\ left.others > 0
  /\ Send("down", "CHAT_DELIVER")
  /\ left' = [left EXCEPT !.others = @ - 1]
  /\ UNCHANGED <<cpc, sem, spc>>

(* A signal ends main's loop, between two logins: whoever is registered is *)
(* told, and a login that is still queued is never answered.               *)
Stop ==
  /\ ~stopped
  /\ ~Working
  /\ stopped' = TRUE
  /\ IF Listed THEN Send("down", "BYE") ELSE UNCHANGED sent
  /\ UNCHANGED ends

-----------------------------------------------------------------------------
(* A RECEIVE event holds the bytes from read[d] to to.                     *)

TooShort(k) == k < FIXED_LEN

(* Where QUIC may end an event: after a packet, in its header, or right    *)
(* after its header.                                                       *)
Ends(d) == {sent[d][i].end : i \in DOMAIN sent[d]}
CutPoints(d) ==
  {n \in Ends(d) \cup {sent[d][i].start + k : i \in DOMAIN sent[d],
                                             k \in {FIXED_LEN - 1, FIXED_LEN}} :
     read[d] < n /\ n <= Total(d)}

Takes(d, t) == IF d = "up" THEN ServerTakes(t) ELSE ClientTakes(t)

Spoil(d, bad) ==
  /\ bad => spoilt["up"] + spoilt["down"] < MaxSpoilt
  /\ spoilt' = [spoilt EXCEPT ![d] = IF bad THEN @ + 1 ELSE @]

(* on_stream_recv takes the event for one packet: the one that begins at   *)
(* its first byte, complete or with whatever lies behind the buffer for    *)
(* the rest, or bytes from the middle of one, which may look like any.     *)
OnStreamRecv(d, to) ==
  \/ /\ TooShort(to - read[d])
     /\ UNCHANGED <<sent, handled, ends>>
  \/ /\ ~TooShort(to - read[d])
     /\ \E i \in DOMAIN sent[d] :
          /\ sent[d][i].start = read[d]
          /\ handled' = [handled EXCEPT ![d] =
                           IF sent[d][i].end <= to THEN @ \cup {i} ELSE @]
          /\ Takes(d, sent[d][i].type)
  \/ /\ ~TooShort(to - read[d])
     /\ \A i \in DOMAIN sent[d] : sent[d][i].start # read[d]
     /\ \E t \in Types : Takes(d, t)
     /\ UNCHANGED handled

Receive(d, to) ==
  /\ read' = [read EXCEPT ![d] = to]
  /\ \/ Spoil(d, to \notin Ends(d)) /\ OnStreamRecv(d, to)
     \/ Spoil(d, TRUE) /\ UNCHANGED <<sent, handled, ends>>  \* malloc fails
  /\ UNCHANGED stopped

-----------------------------------------------------------------------------
Works ==
  \/ SendHello \/ SendAuthReq \/ SendKeyReq \/ SendChat \/ KeyTimeout \/ Leave
  \/ Register \/ SendAuthResp \/ Deliver

Main == ((Works /\ UNCHANGED stopped) \/ Stop) /\ UNCHANGED wire

Next ==
  \/ Main
  \/ \E d \in Dirs : \E to \in CutPoints(d) : Receive(d, to)

Spec == Init /\ [][Next]_vars

(* For TLC: spoilt events and other users' messages, each without the other. *)
OneTrouble == spoilt["up"] + spoilt["down"] = 0 \/ left.others = MaxDelivers

(* The threads of both programs run, and bytes that were sent arrive;      *)
(* main serves the queue as long as nothing stops it.                      *)
FairSpec ==
  /\ Spec
  /\ WF_vars((SendHello \/ SendAuthReq) /\ UNCHANGED <<wire, stopped>>)
  /\ WF_vars((Register \/ SendAuthResp) /\ UNCHANGED <<wire, stopped>>)
  /\ \A d \in Dirs : WF_vars(\E to \in CutPoints(d) : Receive(d, to))

-----------------------------------------------------------------------------
(* Properties.                                                             *)

Lost(d, i) == sent[d][i].end <= read[d] /\ i \notin handled[d]

(* stream_cb loses a packet only if it was sent while an earlier one was   *)
(* still under way, or if an event was cut inside a packet or not stored.  *)
LossNeedsBacklog ==
  \A d \in Dirs : \A i \in DOMAIN sent[d] :
    Lost(d, i) => sent[d][i].behind \/ spoilt[d] > 0

(* client.c waits for the answers to HELLO and AUTH_REQ before it goes on, *)
(* so neither these two nor HELLO_ACK are ever lost to an event that holds *)
(* two packets, and the answer to the login only behind the message that   *)
(* another user sent between sqmp_registry_add and send_auth_resp.         *)
LoginPacketsArrive ==
  \A d \in Dirs : \A i \in DOMAIN sent[d] :
    Lost(d, i) /\ spoilt["up"] + spoilt["down"] = 0 =>
      /\ sent[d][i].type \notin {"HELLO", "HELLO_ACK", "AUTH_REQ"}
      /\ sent[d][i].type = "AUTH_RESP" => sent[d][i - 1].type = "CHAT_DELIVER"

(* A client that has sent AUTH_REQ leaves its wait, unless the server was  *)
(* stopped (server.c:279 leaves the login in the queue, and no BYE goes to *)
(* a user who is not registered), an event was cut or not stored, or       *)
(* AUTH_RESP was lost behind another packet.                               *)
LoginEnds ==
  cpc = "await_auth" ~>
    \/ cpc # "await_auth"
    \/ stopped
    \/ spoilt["up"] + spoilt["down"] > 0
    \/ \E i \in DOMAIN sent["down"] :
         sent["down"][i].type = "AUTH_RESP" /\ Lost("down", i)
=============================================================================
