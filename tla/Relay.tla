------------------------------- MODULE Relay -------------------------------
(***************************************************************************)
(* Chat messages from end to end: send_chat and encrypt_chat of the        *)
(* sender, the server's handlers of KEY_REQ and CHAT_SEND with its         *)
(* registry, and sqmp_process_chat_deliver and decrypt_chat of the         *)
(* recipient.                                                              *)
(*                                                                         *)
(* A login is one run of client.c whose user main registers; it names its *)
(* connection, its stream and its X25519 key pair.  A user may log in      *)
(* again, with a new key pair, after the registry has let the old login    *)
(* go.  Handlers are single steps here and packets come whole and in       *)
(* order, but several may come in one event, of which the handlers see the *)
(* first: what happens inside them is in Server, Client and Framing.       *)
(*                                                                         *)
(* The server's entry outlives the stream it points to: stream_cb frees    *)
(* the stream, on_disconnected removes the entry later, or never.          *)
(*                                                                         *)
(* Cryptography is symbolic: a key pair is named by one value, X25519 of   *)
(* two pairs gives the same secret from either side, and a ciphertext      *)
(* opens with the secret it was made with and no other.                    *)
(***************************************************************************)
EXTENDS Registry, Sequences

CONSTANTS
  Logins,      \* the logins that may happen
  Users,
  UserOf,      \* the user of each login
  MaxMessages  \* bound on the messages typed, over all logins

ASSUME RelayAssumption ==
  /\ UserOf \in [Logins -> Users]
  /\ NULL \notin Logins \cup Users
  /\ NULL \notin 1..MaxMessages
  /\ MaxMessages \in Nat

VARIABLES
  registry,  \* g_registry
  phase,     \* how far each login is
  up,        \* packets on their way to the server, per login
  down,      \* packets on their way to the client, per login
  typing,    \* the message that send_chat of each login works on, or NULL
  sem,       \* key_fetch_sem of each login
  result,    \* key_fetch_result of each login; NULL is all zeros
  younger,   \* logins whose stream may lie where the freed one of an entry lay
  late,      \* history: a post of key_fetch_sem may not be the awaited answer
  log,       \* history: the messages typed, and what became of them
  shown      \* history: what each login's terminal showed

net == <<up, down>>
fetch == <<typing, sem, result, late>>
vars == <<registry, phase, younger, net, fetch, log, shown>>

Ids == 1..MaxMessages
Live == {"registered", "answered", "chat"}  \* phases with an open stream

Init ==
  /\ registry = EmptyRegistry
  /\ phase = [l \in Logins |-> "new"]
  /\ up = [l \in Logins |-> << >>]
  /\ down = [l \in Logins |-> << >>]
  /\ typing = [l \in Logins |-> NULL]
  /\ sem = [l \in Logins |-> 0]
  /\ result = [l \in Logins |-> NULL]
  /\ younger = [l \in Logins |-> {}]
  /\ late = [l \in Logins |-> FALSE]
  /\ log = << >>
  /\ shown = [l \in Logins |-> {}]

-----------------------------------------------------------------------------
(* EVP_PKEY_derive and SHA256: both sides get the same AES key. *)
Secret(priv, pub) == {priv, pub}

(* encrypt_chat: a fresh key pair, named after the message, goes along as  *)
(* its public half; encrypted_key and ciphertext of CHAT_SEND.             *)
Encrypt(peer, id) ==
  [ephemeral |-> id, key |-> Secret(id, peer), text |-> id]

(* decrypt_chat: NULL stands for the result -1, the tag does not match. *)
Decrypt(own, c) == IF Secret(own, c.ephemeral) = c.key THEN c.text ELSE NULL

(* Packets.  about is the message that a packet belongs to, 0 if none. *)
AuthResp == [type |-> "AUTH_RESP", about |-> 0]
KeyReq(user) == [type |-> "KEY_REQ", about |-> 0, user |-> user]
KeyResp(key) == [type |-> "KEY_RESP", about |-> 0, key |-> key]
ChatSend(user, c) == [type |-> "CHAT_SEND", about |-> c.text, user |-> user, cipher |-> c]
ChatDeliver(sender, c) ==
  [type |-> "CHAT_DELIVER", about |-> c.text, sender |-> sender, cipher |-> c]
UserNotFound(id) == [type |-> "USER_NOT_FOUND", about |-> id]
CouldNotSend(id) == [type |-> "COULD_NOT_SEND", about |-> id]

(* sqmp_stream_send, from either side. *)
ToServer(l, p) == up' = [up EXCEPT ![l] = Append(@, p)]
ToClient(l, p) == down' = [down EXCEPT ![l] = Append(@, p)]
Fate(id, what) == log' = [log EXCEPT ![id].fate = what]

-----------------------------------------------------------------------------
(* Mistakes that the code might have made.                                 *)

(* The server names the user the message is for as its sender. *)
DeliverToNamed(l, p) == ChatDeliver(p.user, p.cipher)

(* The server answers KEY_REQ with the key of the one who asks. *)
PubkeyOfAsker(l, user) == GetPubkey(registry, UserOf[l])

(* The server drops CHAT_SEND for users that are not there. *)
RefuseSilently(l, p) == UNCHANGED down

(* It sends the error for a message that it has sent on. *)
NotSentThoughSent(l, to, p) ==
  down' = [down EXCEPT ![to] = Append(@, ChatDeliver(UserOf[l], p.cipher)),
                       ![l] = Append(@, CouldNotSend(p.about))]

-----------------------------------------------------------------------------
(* Logging in and out.                                                     *)

(* main's register_user enters the user, then send_auth_resp answers. *)
RegisterUser(l) ==
  /\ phase[l] = "new"
  /\ CanAdd(registry, UserOf[l])
  /\ registry' = Add(registry, UserOf[l], l, l)
  /\ phase' = [phase EXCEPT ![l] = "registered"]
  /\ UNCHANGED <<younger, net, fetch, log, shown>>

SendAuthResp(l) ==
  /\ phase[l] = "registered"
  /\ phase' = [phase EXCEPT ![l] = "answered"]
  /\ ToClient(l, AuthResp)
  /\ UNCHANGED <<registry, younger, up, fetch, log, shown>>

(* stream_cb of either side: the stream ends, is freed, and what is under  *)
(* way on it is lost, with the client's program and what it has fetched.   *)
(* A login that ends before main has made its session ESTABLISHED is       *)
(* "early".                                                                *)
InFlight(l) ==
  {up[l][i].about : i \in DOMAIN up[l]} \cup {down[l][i].about : i \in DOMAIN down[l]}

StreamEnds(l) ==
  /\ phase[l] \in Live
  /\ phase' = [phase EXCEPT ![l] = IF @ = "registered" THEN "early" ELSE "ended"]
  /\ younger' = [younger EXCEPT ![l] = {m \in Logins : phase[m] = "new"}]
  /\ up' = [up EXCEPT ![l] = << >>]
  /\ down' = [down EXCEPT ![l] = << >>]
  /\ typing' = [typing EXCEPT ![l] = NULL]
  /\ log' = [i \in DOMAIN log |->
       IF i \in InFlight(l) \/ i = typing[l] THEN [log[i] EXCEPT !.fate = "cut"]
       ELSE log[i]]
  /\ sem' = [sem EXCEPT ![l] = 0]
  /\ result' = [result EXCEPT ![l] = NULL]
  /\ late' = [late EXCEPT ![l] = FALSE]
  /\ UNCHANGED <<registry, shown>>

(* on_disconnected of the server removes the entry of an ESTABLISHED       *)
(* session; an early one may leave it behind for good.                     *)
OnDisconnected(l) ==
  /\ \/ /\ phase[l] \in {"ended", "early"}
        /\ registry' = Remove(registry, UserOf[l])
        /\ younger' = [younger EXCEPT ![l] = {}]
     \/ phase[l] = "early" /\ UNCHANGED <<registry, younger>>
  /\ phase' = [phase EXCEPT ![l] = "gone"]
  /\ UNCHANGED <<net, fetch, log, shown>>

-----------------------------------------------------------------------------
(* send_chat.                                                              *)

SendKeyReq(l, user) ==
  /\ phase[l] = "chat"
  /\ typing[l] = NULL
  /\ Len(log) < MaxMessages
  /\ log' = Append(log, [from |-> l, to |-> user, key |-> NULL, late |-> FALSE,
                         astray |-> FALSE, fate |-> "typed"])
  /\ typing' = [typing EXCEPT ![l] = Len(log) + 1]
  /\ ToServer(l, KeyReq(user))
  /\ UNCHANGED <<registry, phase, younger, down, sem, result, late, shown>>

KeyArrived(l) == sem[l] > 0

(* sem_timedwait returns: no key, a key to encrypt with, or a failure of   *)
(* an allocation, of encrypt_chat or of the send.                          *)
SendChat(l) ==
  /\ typing[l] # NULL
  /\ KeyArrived(l)
  /\ sem' = [sem EXCEPT ![l] = @ - 1]
  /\ LET id == typing[l]
     IN  \/ Fate(id, "not sent") /\ UNCHANGED up
         \/ /\ result[l] # NULL
            /\ log' = [log EXCEPT ![id] = [@ EXCEPT !.key = result[l], !.late = late[l],
                                                    !.fate = "sent"]]
            /\ ToServer(l, ChatSend(log[id].to, Encrypt(result[l], id)))
  /\ typing' = [typing EXCEPT ![l] = NULL]
  /\ UNCHANGED <<registry, phase, younger, down, result, late, shown>>

(* Five seconds pass. *)
KeyTimeout(l) ==
  /\ typing[l] # NULL
  /\ ~KeyArrived(l)
  /\ Fate(typing[l], "not sent")
  /\ typing' = [typing EXCEPT ![l] = NULL]
  /\ late' = [late EXCEPT ![l] = TRUE]
  /\ UNCHANGED <<registry, phase, younger, net, sem, result, shown>>

-----------------------------------------------------------------------------
(* The server's handlers.  An allocation may fail instead of an answer.    *)

TakeUp(l) == up' = [up EXCEPT ![l] = Tail(@)]
PubkeyFor(l, user) == GetPubkey(registry, user)
Deliver(l, p) == ChatDeliver(UserOf[l], p.cipher)
Refuse(l, p) == ToClient(l, UserNotFound(p.about))
NotSent(l, to, p) == ToClient(l, CouldNotSend(p.about))

ProcessKeyReq(l) ==
  /\ up[l] # << >>
  /\ Head(up[l]).type = "KEY_REQ"
  /\ LET key == PubkeyFor(l, Head(up[l]).user)
     IN  \/ key = NULL /\ ToClient(l, UserNotFound(0))
         \/ key # NULL /\ ToClient(l, KeyResp(key))
         \/ UNCHANGED down
  /\ TakeUp(l)
  /\ UNCHANGED <<registry, phase, younger, fetch, log, shown>>

(* sqmp_stream_send to the stream that the registry names.  If it has been *)
(* freed, its memory may by now be that of a younger login's stream.       *)
Forward(l, to, p) ==
  /\ phase[to] \in Live
  /\ ToClient(to, Deliver(l, p))
  /\ Fate(p.about, "forwarded")

ForwardAstray(l, to, p) ==
  /\ phase[to] \notin Live
  /\ \E m \in younger[to] : phase[m] \in Live /\ ToClient(m, Deliver(l, p))
  /\ log' = [log EXCEPT ![p.about] = [@ EXCEPT !.fate = "forwarded", !.astray = TRUE]]

ProcessChatSend(l) ==
  /\ up[l] # << >>
  /\ Head(up[l]).type = "CHAT_SEND"
  /\ LET p == Head(up[l])
         to == Find(registry, p.user)
     IN  \/ to = NULL /\ Refuse(l, p) /\ UNCHANGED log
         \/ to # NULL /\ (Forward(l, to, p) \/ ForwardAstray(l, to, p))
         \/ to # NULL /\ NotSent(l, to, p) /\ UNCHANGED log
         \/ UNCHANGED down /\ Fate(p.about, "dropped")
  /\ TakeUp(l)
  /\ UNCHANGED <<registry, phase, younger, fetch, shown>>

-----------------------------------------------------------------------------
(* The client's handlers.                                                  *)

TakeDown(l) == down' = [down EXCEPT ![l] = Tail(@)]

ProcessAuthResp(l) ==
  /\ down[l] # << >>
  /\ Head(down[l]).type = "AUTH_RESP"
  /\ phase' = [phase EXCEPT ![l] = "chat"]
  /\ TakeDown(l)
  /\ UNCHANGED <<registry, younger, up, fetch, log, shown>>

ProcessKeyResp(l) ==
  /\ down[l] # << >>
  /\ Head(down[l]).type = "KEY_RESP"
  /\ result' = [result EXCEPT ![l] = Head(down[l]).key]
  /\ sem' = [sem EXCEPT ![l] = @ + 1]
  /\ TakeDown(l)
  /\ UNCHANGED <<registry, phase, younger, up, typing, late, log, shown>>

(* USER_NOT_FOUND wakes send_chat whatever packet it answers. *)
ProcessError(l) ==
  /\ down[l] # << >>
  /\ LET p == Head(down[l])
     IN  /\ \/ /\ p.type = "USER_NOT_FOUND"
               /\ result' = [result EXCEPT ![l] = NULL]
               /\ sem' = [sem EXCEPT ![l] = @ + 1]
               /\ late' = [late EXCEPT ![l] = @ \/ p.about # 0]
            \/ p.type = "COULD_NOT_SEND" /\ UNCHANGED <<result, sem, late>>
         /\ IF p.about = 0 THEN UNCHANGED log ELSE Fate(p.about, "refused")
  /\ TakeDown(l)
  /\ UNCHANGED <<registry, phase, younger, up, typing, shown>>

(* Before AUTH_RESP, or without memory, the text is not shown. *)
ProcessChatDeliver(l) ==
  /\ down[l] # << >>
  /\ Head(down[l]).type = "CHAT_DELIVER"
  /\ LET p == Head(down[l])
         text == Decrypt(l, p.cipher)
     IN  \/ Fate(p.about, "dropped") /\ UNCHANGED shown
         \/ /\ phase[l] = "chat"
            /\ shown' = [shown EXCEPT ![l] =
                 @ \cup {[sender |-> p.sender, text |-> text, id |-> p.about]}]
            /\ Fate(p.about, IF text = NULL THEN "unreadable" ELSE "read")
  /\ TakeDown(l)
  /\ UNCHANGED <<registry, phase, younger, up, fetch>>

-----------------------------------------------------------------------------
(* on_stream_recv takes the first packet of an event only: one that comes  *)
(* in the event of the packet before it is lost, whatever it is.           *)
DropSecond(q) == [i \in 1..(Len(q) - 1) |-> IF i = 1 THEN q[1] ELSE q[i + 1]]
LoseSecond(q) == IF q[2].about = 0 THEN UNCHANGED log ELSE Fate(q[2].about, "lost")

LostAtServer(l) ==
  /\ Len(up[l]) > 1
  /\ up' = [up EXCEPT ![l] = DropSecond(@)]
  /\ LoseSecond(up[l])
  /\ UNCHANGED <<registry, phase, younger, down, fetch, shown>>

LostAtClient(l) ==
  /\ Len(down[l]) > 1
  /\ down' = [down EXCEPT ![l] = DropSecond(@)]
  /\ LoseSecond(down[l])
  /\ UNCHANGED <<registry, phase, younger, up, fetch, shown>>

-----------------------------------------------------------------------------
ServerHandles(l) == ProcessKeyReq(l) \/ ProcessChatSend(l)
ClientHandles(l) ==
  ProcessAuthResp(l) \/ ProcessKeyResp(l) \/ ProcessError(l) \/ ProcessChatDeliver(l)

Next ==
  \E l \in Logins :
    \/ RegisterUser(l) \/ SendAuthResp(l) \/ StreamEnds(l) \/ OnDisconnected(l)
    \/ \E u \in Users : SendKeyReq(l, u)
    \/ SendChat(l) \/ KeyTimeout(l)
    \/ ServerHandles(l) \/ ClientHandles(l)
    \/ LostAtServer(l) \/ LostAtClient(l)

Spec == Init /\ [][Next]_vars

(* The first packet of every event is handled; send_chat wakes up. *)
FairSpec ==
  /\ Spec
  /\ \A l \in Logins :
       /\ WF_vars(ServerHandles(l))
       /\ WF_vars(ClientHandles(l))
       /\ WF_vars(SendChat(l) \/ KeyTimeout(l))

-----------------------------------------------------------------------------
(* Properties.                                                             *)

(* What a terminal shows carries the name of the user who typed it; and it *)
(* was typed for the user who sees it, unless the server sent it on over   *)
(* an entry whose stream had been freed.  The server takes the one from    *)
(* the sender's session and the other from its registry.                   *)
SenderIsTrue ==
  \A l \in Logins : \A s \in shown[l] :
    /\ s.sender = UserOf[log[s.id].from]
    /\ UserOf[l] = log[s.id].to \/ log[s.id].astray

(* A message that cannot be decrypted was encrypted for an earlier login   *)
(* of its addressee, which has ended, or its sender has before taken up a  *)
(* post of key_fetch_sem that was not the answer to its KEY_REQ, or it     *)
(* went to a freed stream.                                                 *)
UnreadableIsStale ==
  \A l \in Logins : \A s \in shown[l] :
    s.text = NULL =>
      \/ log[s.id].late \/ log[s.id].astray
      \/ UserOf[log[s.id].key] = UserOf[l] /\ phase[log[s.id].key] = "gone"

(* A message that its sender's client reported as failed (send_chat gave   *)
(* up, or an ERROR packet came for it) is on no terminal and on its way to *)
(* none: typing it again shows it at most once.                            *)
FailedIsUnseen ==
  \A l \in Logins :
    /\ \A s \in shown[l] : log[s.id].fate \notin {"not sent", "refused"}
    /\ \A i \in DOMAIN down[l] : down[l][i].type = "CHAT_DELIVER" =>
         log[down[l][i].about].fate \notin {"not sent", "refused"}

(* Every message that is typed is shown, or refused, or given up by its    *)
(* sender, or lost: with a connection, a failing allocation, a freed       *)
(* stream, or because it, or the ERROR for it, came in the event of        *)
(* another packet.                                                         *)
EveryMessageSettles ==
  \A i \in Ids :
    (i \in DOMAIN log) ~> (i \in DOMAIN log /\ log[i].fate \notin {"typed", "sent", "forwarded"})
=============================================================================
