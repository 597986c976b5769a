------------------------------- MODULE Client -------------------------------
(***************************************************************************)
(* The chat client: src/client/client.c, the client side of the handlers   *)
(* of src/shared/sqmp.c, and the callbacks and blocking calls of           *)
(* src/shared/msquic_wrapper.c that they use.                              *)
(*                                                                         *)
(* Threads.  main connects, logs in, reads lines and disconnects; one      *)
(* MsQuic thread runs the callbacks of the connection one at a time.  They *)
(* meet in three semaphores, g_interrupted, key_fetch_result and the       *)
(* stream, which the MsQuic thread frees.  A signal, from the terminal or  *)
(* by pthread_kill, interrupts what main is blocked in at that moment and  *)
(* nothing else.                                                           *)
(*                                                                         *)
(* The server is what its handlers promise to one client (module Server    *)
(* has the details): it answers the packets of a stream in order and may   *)
(* deliver a message or say BYE on its own.  The key of user u is u.       *)
(***************************************************************************)
EXTENDS Integers, Sequences

CONSTANTS
  Users,     \* the recipients the user writes to
  MaxLines,  \* bound: the messages the user types
  ZERO       \* the key of 32 zero bytes: "no key"

ASSUME ClientAssumption == MaxLines \in Nat /\ ZERO \notin Users

VARIABLES
  mpc,               \* where main is
  g_interrupted,
  g_conn_alive,
  state,             \* session.state
  auth_ok,           \* session.auth_ok
  login_ready,       \* the values of the three semaphores
  auth_done,
  key_fetch_sem,
  key_fetch_result,
  recipient,         \* whom main writes to
  lines,             \* the messages the user may still type
  conn,              \* the connection as MsQuic's events tell it
  stream,            \* the stream and its sqmp_stream_t
  cpc,               \* is a callback about to call pthread_kill?
  to_server,         \* packets on their way
  to_client,
  peer,              \* the server's session for this client
  crashed,           \* the process is dead
  late               \* history: an answer may come that no call waits for

sems == <<login_ready, auth_done, key_fetch_sem>>
input == <<recipient, lines>>
link == <<conn, stream, cpc>>
channel == <<to_server, to_client, peer>>
flags == <<g_interrupted, g_conn_alive>>
sess == <<state, auth_ok, key_fetch_result>>
vars == <<mpc, flags, sess, sems, input, link, channel, crashed, late>>

Chatting == {"prompt", "readline", "fetch", "key", "check", "encrypt"}
Leaving == {"leave", "bye", "disconnect", "closing", "exited"}
MainPc == {"connect", "stream", "hello", "ready", "readyBlocked", "testLogin",
           "login", "sendAuth", "auth", "authBlocked", "testAuth"}
          \cup Chatting \cup Leaving

Pkt(type, user, key) == [type |-> type, user |-> user, key |-> key]
Simple(type) == Pkt(type, ZERO, ZERO)

Init ==
  /\ mpc = "connect"
  /\ g_interrupted = FALSE
  /\ g_conn_alive = TRUE
  /\ state = "HELLO"
  /\ auth_ok = FALSE
  /\ login_ready = 0
  /\ auth_done = 0
  /\ key_fetch_sem = 0
  /\ key_fetch_result = ZERO
  /\ recipient = ZERO
  /\ lines = MaxLines
  /\ conn = "handshake"
  /\ stream = "none"
  /\ cpc = "idle"
  /\ to_server = << >>
  /\ to_client = << >>
  /\ peer = "HELLO"
  /\ crashed = FALSE
  /\ late = FALSE

At(pc) == ~crashed /\ mpc = pc
Goto(pc) == mpc' = pc

(* sqmp_stream_send: on a stream that has ended it fails. *)
Send(p) == to_server' = IF stream = "open" THEN Append(to_server, p) ELSE to_server

-----------------------------------------------------------------------------
(* Mistakes that the code might have made: a property is worth checking    *)
(* only if one of them breaks it.                                          *)

(* main does not look at auth_ok. *)
TestAuthUnchecked ==
  /\ At("testAuth")
  /\ Goto(IF ~g_interrupted THEN "prompt" ELSE "leave")
  /\ UNCHANGED <<flags, sess, sems, input, link, channel, crashed, late>>

(* send_chat does not wait for the answer to its KEY_REQ. *)
TakeKeySkipped ==
  /\ At("key")
  /\ Goto("check")
  /\ UNCHANGED <<flags, sess, sems, input, link, channel, crashed, late>>

(* sqmp_quic_disconnect does not wait for the end of the connection. *)
AwaitClosedSkipped ==
  /\ At("closing")
  /\ Goto("exited")
  /\ UNCHANGED <<flags, sess, sems, input, link, channel, crashed, late>>

(* The loop does not look at g_interrupted. *)
PromptUnchecked ==
  /\ At("prompt")
  /\ Goto("readline")
  /\ UNCHANGED <<flags, sess, sems, input, link, channel, crashed, late>>

(* main does not wait for auth_done. *)
WaitAuthSkipped ==
  /\ At("auth")
  /\ auth_done' = auth_done - 1
  /\ Goto("testAuth")
  /\ UNCHANGED <<flags, sess, login_ready, key_fetch_sem, input, link, channel,
                 crashed, late>>

(* sqmp_process_auth_resp sets auth_ok and forgets the state. *)
ProcessAuthRespKeepsState ==
  /\ ~crashed /\ cpc = "idle" /\ stream = "open" /\ to_client # << >>
  /\ Head(to_client).type \in {"AUTH_OK", "AUTH_INVALID"}
  /\ to_client' = Tail(to_client)
  /\ auth_ok' = (Head(to_client).type = "AUTH_OK")
  /\ auth_done' = auth_done + 1
  /\ UNCHANGED <<mpc, flags, state, key_fetch_result, login_ready, key_fetch_sem,
                 input, link, to_server, peer, crashed, late>>

(* sqmp_process_auth_resp wakes main only if the login succeeded. *)
ProcessAuthRespSilent ==
  /\ ~crashed /\ cpc = "idle" /\ stream = "open" /\ to_client # << >>
  /\ Head(to_client).type \in {"AUTH_OK", "AUTH_INVALID"}
  /\ to_client' = Tail(to_client)
  /\ auth_ok' = (Head(to_client).type = "AUTH_OK")
  /\ state' = IF auth_ok' THEN "ESTABLISHED" ELSE state
  /\ auth_done' = IF auth_ok' THEN auth_done + 1 ELSE auth_done
  /\ UNCHANGED <<mpc, flags, key_fetch_result, login_ready, key_fetch_sem, input,
                 link, to_server, peer, crashed, late>>

-----------------------------------------------------------------------------
(* main.                                                                   *)

(* sqmp_quic_connect waits for connect_sem, whatever signals arrive; if    *)
(* the handshake failed, for closed_sem too, and main ends.                *)
Connect ==
  /\ At("connect")
  /\ \/ conn \in {"up", "ending", "closed"} /\ Goto("stream")
     \/ conn = "failed" /\ Goto("exited")
  /\ UNCHANGED <<flags, sess, sems, input, link, channel, crashed, late>>

(* sqmp_stream_open can fail, and fails when the connection has ended. *)
OpenStream ==
  /\ At("stream")
  /\ \/ conn = "up" /\ stream' = "open" /\ Goto("hello")
     \/ Goto("disconnect") /\ UNCHANGED stream
  /\ UNCHANGED <<flags, sess, sems, input, conn, cpc, channel, crashed, late>>

SendHello ==
  /\ At("hello")
  /\ Send(Simple("HELLO"))
  /\ Goto("ready")
  /\ UNCHANGED <<flags, sess, sems, input, link, to_client, peer, crashed, late>>

(* sem_wait(&session.login_ready): main goes on at once, blocks, or goes   *)
(* on when the semaphore is posted (a signal ends the wait: Interrupted).  *)
WaitReady ==
  /\ ~crashed
  /\ \/ /\ mpc \in {"ready", "readyBlocked"}
        /\ login_ready > 0
        /\ login_ready' = login_ready - 1
        /\ Goto("testLogin")
     \/ /\ mpc = "ready"
        /\ login_ready = 0
        /\ Goto("readyBlocked")
        /\ UNCHANGED login_ready
  /\ UNCHANGED <<flags, sess, auth_done, key_fetch_sem, input, link, channel,
                 crashed, late>>

TestLogin ==
  /\ At("testLogin")
  /\ Goto(IF g_interrupted THEN "auth" ELSE "login")
  /\ UNCHANGED <<flags, sess, sems, input, link, channel, crashed, late>>

(* sqmp_login: the user types a name and a password ... *)
ReadCredentials ==
  /\ At("login")
  /\ Goto("sendAuth")
  /\ UNCHANGED <<flags, sess, sems, input, link, channel, crashed, late>>

(* ... or nothing it can use; main ignores that sqmp_login returns -1. *)
LoginFails ==
  /\ At("login")
  /\ Goto("auth")
  /\ UNCHANGED <<flags, sess, sems, input, link, channel, crashed, late>>

SendAuthReq ==
  /\ At("sendAuth")
  /\ Send(Simple("AUTH_REQ"))
  /\ Goto("auth")
  /\ UNCHANGED <<flags, sess, sems, input, link, to_client, peer, crashed, late>>

(* sem_wait(&session.auth_done). *)
WaitAuth ==
  /\ ~crashed
  /\ \/ /\ mpc \in {"auth", "authBlocked"}
        /\ auth_done > 0
        /\ auth_done' = auth_done - 1
        /\ Goto("testAuth")
     \/ /\ mpc = "auth"
        /\ auth_done = 0
        /\ Goto("authBlocked")
        /\ UNCHANGED auth_done
  /\ UNCHANGED <<flags, sess, login_ready, key_fetch_sem, input, link, channel,
                 crashed, late>>

TestAuth ==
  /\ At("testAuth")
  /\ Goto(IF ~g_interrupted /\ auth_ok THEN "prompt" ELSE "leave")
  /\ UNCHANGED <<flags, sess, sems, input, link, channel, crashed, late>>

(* The condition of the loop. *)
Prompt ==
  /\ At("prompt")
  /\ Goto(IF g_interrupted THEN "leave" ELSE "readline")
  /\ UNCHANGED <<flags, sess, sems, input, link, channel, crashed, late>>

(* rl_interrupt_hook makes readline return an empty line. *)
InterruptReadline ==
  /\ At("readline")
  /\ g_interrupted
  /\ Goto("prompt")
  /\ UNCHANGED <<flags, sess, sems, input, link, channel, crashed, late>>

(* "quit", "exit" or the end of the input. *)
ReadQuit ==
  /\ At("readline")
  /\ Goto("leave")
  /\ UNCHANGED <<flags, sess, sems, input, link, channel, crashed, late>>

(* An empty line, a line without a message, or too long a name. *)
ReadUnusable ==
  /\ At("readline")
  /\ Goto("prompt")
  /\ UNCHANGED <<flags, sess, sems, input, link, channel, crashed, late>>

ReadMessage(u) ==
  /\ At("readline")
  /\ lines > 0
  /\ lines' = lines - 1
  /\ recipient' = u
  /\ Goto("fetch")
  /\ UNCHANGED <<flags, sess, sems, link, channel, crashed, late>>

(* send_chat *)
SendKeyReq ==
  /\ At("fetch")
  /\ Send(Pkt("KEY_REQ", recipient, ZERO))
  /\ Goto("key")
  /\ UNCHANGED <<flags, sess, sems, input, link, to_client, peer, crashed, late>>

TakeKey ==
  /\ At("key")
  /\ key_fetch_sem > 0
  /\ key_fetch_sem' = key_fetch_sem - 1
  /\ Goto("check")
  /\ UNCHANGED <<flags, sess, login_ready, auth_done, input, link, channel,
                 crashed, late>>

(* Five seconds without a post. *)
KeyTimeout ==
  /\ At("key")
  /\ key_fetch_sem = 0
  /\ late' = TRUE
  /\ Goto("prompt")
  /\ UNCHANGED <<flags, sess, sems, input, link, channel, crashed>>

CheckKey ==
  /\ At("check")
  /\ Goto(IF key_fetch_result = ZERO THEN "prompt" ELSE "encrypt")
  /\ UNCHANGED <<flags, sess, sems, input, link, channel, crashed, late>>

(* encrypt_chat reads the key again (it fails on the zero key, and may on  *)
(* any), and the packet is sent.                                           *)
EncryptAndSend ==
  /\ At("encrypt")
  /\ \/ /\ key_fetch_result # ZERO
        /\ Send(Pkt("CHAT_SEND", recipient, key_fetch_result))
     \/ UNCHANGED to_server
  /\ Goto("prompt")
  /\ UNCHANGED <<flags, sess, sems, input, link, to_client, peer, crashed, late>>

(* The end of main. *)
TestAlive ==
  /\ At("leave")
  /\ Goto(IF g_conn_alive THEN "bye" ELSE "disconnect")
  /\ UNCHANGED <<flags, sess, sems, input, link, channel, crashed, late>>

SendBye ==
  /\ At("bye")
  /\ Send(Simple("BYE"))
  /\ Goto("disconnect")
  /\ UNCHANGED <<flags, sess, sems, input, link, to_client, peer, crashed, late>>

(* sqmp_quic_disconnect asks for the shutdown and waits for closed_sem;    *)
(* with no connection left sqmp_quic_destroy returns at once.              *)
Disconnect ==
  /\ At("disconnect")
  /\ Goto("closing")
  /\ UNCHANGED <<flags, sess, sems, input, link, channel, crashed, late>>

AwaitClosed ==
  /\ At("closing")
  /\ conn = "closed"
  /\ Goto("exited")
  /\ UNCHANGED <<flags, sess, sems, input, link, channel, crashed, late>>

-----------------------------------------------------------------------------
(* Signals.  sig_handler sets g_interrupted; the blocking call that main   *)
(* is in fails with EINTR, and so does the fgets of sqmp_login.  The calls *)
(* of msquic_wrapper.c that wait for a connection retry.                   *)
AfterSignal ==
  CASE mpc = "readyBlocked" -> "testLogin"
    [] mpc = "login"        -> "auth"
    [] mpc = "authBlocked"  -> "testAuth"
    [] mpc = "key" /\ key_fetch_sem = 0 -> "prompt"
    [] OTHER -> mpc

Interrupted ==
  /\ mpc' = AfterSignal
  /\ late' = (late \/ (mpc = "key" /\ mpc' = "prompt"))

(* Ctrl+C or kill: repeated signals that change nothing are left out. *)
Signal ==
  /\ ~crashed /\ mpc # "exited"
  /\ ~g_interrupted \/ AfterSignal # mpc
  /\ g_interrupted' = TRUE
  /\ Interrupted
  /\ UNCHANGED <<g_conn_alive, sess, sems, input, link, channel, crashed>>

(* The pthread_kill that ends on_disconnected and sqmp_process_bye; after  *)
(* on_disconnected conn_cb posts closed_sem.                               *)
KillMain ==
  /\ ~crashed
  /\ cpc = "kill"
  /\ g_interrupted' = TRUE
  /\ Interrupted
  /\ cpc' = "idle"
  /\ conn' = IF conn = "ending" THEN "closed" ELSE conn
  /\ UNCHANGED <<g_conn_alive, sess, sems, input, stream, channel, crashed>>

-----------------------------------------------------------------------------
(* conn_cb and stream_cb.                                                  *)
Callback == ~crashed /\ cpc = "idle"

Connected ==
  /\ Callback
  /\ conn = "handshake"
  /\ conn' = "up"
  /\ UNCHANGED <<mpc, flags, sess, sems, input, stream, cpc, channel, crashed, late>>

HandshakeFails ==
  /\ Callback
  /\ conn = "handshake"
  /\ conn' = "failed"
  /\ UNCHANGED <<mpc, flags, sess, sems, input, stream, cpc, channel, crashed, late>>

(* The server, the network or Disconnect ends the connection: stream_cb    *)
(* frees the stream ...                                                    *)
StreamClosed ==
  /\ Callback
  /\ stream = "open"
  /\ stream' = "freed"
  /\ to_server' = << >>
  /\ to_client' = << >>
  /\ UNCHANGED <<mpc, flags, sess, sems, input, conn, cpc, peer, crashed, late>>

(* ... and conn_cb calls on_disconnected. *)
OnDisconnected ==
  /\ Callback
  /\ conn = "up" /\ stream # "open"
  /\ conn' = "ending"
  /\ g_conn_alive' = FALSE
  /\ g_interrupted' = TRUE
  /\ cpc' = "kill"
  /\ UNCHANGED <<mpc, sess, sems, input, stream, channel, crashed, late>>

-----------------------------------------------------------------------------
(* Packets: on_stream_recv calls the handler of the packet's type.         *)
Receives(types) ==
  /\ Callback
  /\ stream = "open"
  /\ to_client # << >>
  /\ Head(to_client).type \in types
  /\ to_client' = Tail(to_client)

ProcessHelloAck ==
  /\ Receives({"HELLO_ACK"})
  /\ \/ /\ state = "HELLO"
        /\ state' = "AUTH"
        /\ login_ready' = login_ready + 1
     \/ /\ state # "HELLO"
        /\ UNCHANGED <<state, login_ready>>
  /\ UNCHANGED <<mpc, flags, auth_ok, key_fetch_result, auth_done, key_fetch_sem,
                 input, link, to_server, peer, crashed, late>>

(* The semaphore is posted in every case. *)
ProcessAuthResp ==
  /\ Receives({"AUTH_OK", "AUTH_INVALID"})
  /\ \/ /\ state = "AUTH"
        /\ auth_ok' = (Head(to_client).type = "AUTH_OK")
        /\ state' = IF auth_ok' THEN "ESTABLISHED" ELSE state
     \/ /\ state # "AUTH"
        /\ UNCHANGED <<state, auth_ok>>
  /\ auth_done' = auth_done + 1
  /\ UNCHANGED <<mpc, flags, key_fetch_result, login_ready, key_fetch_sem, input,
                 link, to_server, peer, crashed, late>>

ProcessKeyResp ==
  /\ Receives({"KEY_RESP"})
  /\ key_fetch_result' = Head(to_client).key
  /\ key_fetch_sem' = key_fetch_sem + 1
  /\ UNCHANGED <<mpc, flags, state, auth_ok, login_ready, auth_done, input, link,
                 to_server, peer, crashed, late>>

(* Only USER_NOT_FOUND wakes send_chat. *)
ProcessError ==
  /\ Receives({"USER_NOT_FOUND", "COULD_NOT_SEND", "UNEXPECTED_MSG"})
  /\ \/ /\ Head(to_client).type = "USER_NOT_FOUND"
        /\ key_fetch_result' = ZERO
        /\ key_fetch_sem' = key_fetch_sem + 1
     \/ /\ Head(to_client).type # "USER_NOT_FOUND"
        /\ UNCHANGED <<key_fetch_result, key_fetch_sem>>
  /\ UNCHANGED <<mpc, flags, state, auth_ok, login_ready, auth_done, input, link,
                 to_server, peer, crashed, late>>

(* Printed if the session is established, else dropped. *)
ProcessChatDeliver ==
  /\ Receives({"CHAT_DELIVER"})
  /\ UNCHANGED <<mpc, flags, sess, sems, input, link, to_server, peer, crashed,
                 late>>

ProcessBye ==
  /\ Receives({"BYE"})
  /\ Send(Simple("BYE"))
  /\ g_interrupted' = TRUE
  /\ cpc' = "kill"
  /\ UNCHANGED <<mpc, g_conn_alive, sess, sems, input, conn, stream, peer,
                 crashed, late>>

-----------------------------------------------------------------------------
(* The server's side of the stream.                                        *)
Takes(types) ==
  /\ stream = "open"
  /\ to_server # << >>
  /\ Head(to_server).type \in types
  /\ to_server' = Tail(to_server)

Answer(p) == to_client' = Append(to_client, p)

(* peer is the session's state with main's work on the login.  "registered" *)
(* is between sqmp_registry_add and the answer, where the state is AUTH    *)
(* and then CONN_ESTABLISHED; "owed" is CLOSING with the answer still to   *)
(* come; "unserved" is queued at a main that has left its loop; "stopping" *)
(* is established at a server that has said BYE.                           *)
LoggedIn == peer \in {"ESTABLISHED", "stopping"}

PeerHello ==
  /\ Takes({"HELLO"})
  /\ peer = "HELLO"
  /\ Answer(Simple("HELLO_ACK"))
  /\ peer' = "AUTH"
  /\ UNCHANGED <<mpc, flags, sess, sems, input, link, crashed, late>>

PeerAuthReq ==
  /\ Takes({"AUTH_REQ"})
  /\ peer = "AUTH"
  /\ peer' = "queued"
  /\ UNCHANGED <<mpc, flags, sess, sems, input, link, to_client, crashed, late>>

(* The server's main thread refuses the login, or registers the user and   *)
(* only later says so.                                                     *)
PeerLogin ==
  /\ stream = "open"
  /\ \/ peer = "queued" /\ peer' = "AUTH" /\ Answer(Simple("AUTH_INVALID"))
     \/ peer = "queued" /\ peer' = "registered" /\ UNCHANGED to_client
     \/ peer = "registered" /\ peer' = "ESTABLISHED" /\ Answer(Simple("AUTH_OK"))
     \/ peer = "owed" /\ peer' = "CLOSING" /\ Answer(Simple("AUTH_OK"))
  /\ UNCHANGED <<mpc, flags, sess, sems, input, link, to_server, crashed, late>>

PeerKeyReq ==
  /\ Takes({"KEY_REQ"})
  /\ LoggedIn
  /\ \/ Answer(Pkt("KEY_RESP", Head(to_server).user, Head(to_server).user))
     \/ Answer(Simple("USER_NOT_FOUND"))
  /\ UNCHANGED <<mpc, flags, sess, sems, input, link, peer, crashed, late>>

PeerChatSend ==
  /\ Takes({"CHAT_SEND"})
  /\ LoggedIn
  /\ \/ UNCHANGED <<to_client, late>>
     \/ Answer(Simple("COULD_NOT_SEND")) /\ UNCHANGED late
     \/ Answer(Simple("USER_NOT_FOUND")) /\ late' = TRUE
  /\ UNCHANGED <<mpc, flags, sess, sems, input, link, peer, crashed>>

(* Only an established session is closed, and a user who is registered and *)
(* not yet answered may be established already.                            *)
PeerBye ==
  /\ Takes({"BYE"})
  /\ peer' \in IF LoggedIn THEN {"CLOSING"}
               ELSE IF peer = "registered" THEN {"registered", "owed"} ELSE {peer}
  /\ UNCHANGED <<mpc, flags, sess, sems, input, link, to_client, crashed, late>>

Accepts(type) ==
  \/ type = "HELLO" /\ peer = "HELLO"
  \/ type = "AUTH_REQ" /\ peer = "AUTH"
  \/ type \in {"KEY_REQ", "CHAT_SEND"} /\ LoggedIn
  \/ type = "BYE"

PeerRejects ==
  /\ Takes({"HELLO", "AUTH_REQ", "KEY_REQ", "CHAT_SEND"})
  /\ ~Accepts(Head(to_server).type)
  /\ Answer(Simple("UNEXPECTED_MSG"))
  /\ UNCHANGED <<mpc, flags, sess, sems, input, link, peer, crashed, late>>

(* Another user's message (one at a time is on its way). *)
PeerDeliver ==
  /\ stream = "open"
  /\ peer = "registered" \/ LoggedIn
  /\ \A i \in 1..Len(to_client) : to_client[i].type # "CHAT_DELIVER"
  /\ Answer(Simple("CHAT_DELIVER"))
  /\ UNCHANGED <<mpc, flags, sess, sems, input, link, to_server, peer, crashed, late>>

(* The server's main leaves its loop.  Users who are logged in are told; a *)
(* login in the queue stays there, unanswered, on a connection that nobody *)
(* shuts down.  (A stop before AUTH_REQ shows to this client only then.)   *)
PeerStops ==
  /\ stream = "open"
  /\ \/ peer = "ESTABLISHED" /\ peer' = "stopping" /\ Answer(Simple("BYE"))
     \/ peer = "queued" /\ peer' = "unserved" /\ UNCHANGED to_client
  /\ UNCHANGED <<mpc, flags, sess, sems, input, link, to_server, crashed, late>>

-----------------------------------------------------------------------------
(* main's next step uses the sqmp_stream_t that stream_cb freed. *)
UsesFreedStream ==
  stream = "freed" /\ mpc \in {"hello", "sendAuth", "fetch", "encrypt", "bye"}

Crash ==
  /\ ~crashed
  /\ UsesFreedStream
  /\ crashed' = TRUE
  /\ UNCHANGED <<mpc, flags, sess, sems, input, link, channel, late>>

Ended == (crashed \/ mpc = "exited") /\ UNCHANGED vars

MainStep ==
  \/ Connect \/ OpenStream \/ SendHello \/ WaitReady \/ TestLogin \/ SendAuthReq
  \/ WaitAuth \/ TestAuth \/ Prompt \/ InterruptReadline \/ SendKeyReq \/ TakeKey
  \/ KeyTimeout \/ CheckKey \/ EncryptAndSend \/ TestAlive \/ SendBye
  \/ Disconnect \/ AwaitClosed

UserStep ==
  \/ ReadCredentials \/ LoginFails \/ ReadQuit \/ ReadUnusable
  \/ \E u \in Users : ReadMessage(u)

PacketStep ==
  \/ ProcessHelloAck \/ ProcessAuthResp \/ ProcessKeyResp \/ ProcessError
  \/ ProcessChatDeliver \/ ProcessBye

PeerAnswers ==
  \/ PeerHello \/ PeerAuthReq \/ PeerLogin \/ PeerKeyReq \/ PeerChatSend
  \/ PeerBye \/ PeerRejects

Next ==
  \/ MainStep \/ UserStep \/ Signal \/ KillMain \/ Connected \/ HandshakeFails
  \/ StreamClosed \/ OnDisconnected \/ PacketStep \/ PeerAnswers \/ PeerDeliver
  \/ PeerStops \/ Crash \/ Ended

Spec == Init /\ [][Next]_vars

(* The scheduler runs main and the MsQuic thread, which handles the packets *)
(* that arrive; the server's handlers answer, and its main serves the queue *)
(* unless it was stopped; a handshake ends; a connection whose             *)
(* stream has ended, or that main has asked to shut down, ends (whatever   *)
(* packets come in between: strong fairness).  The user need do nothing.   *)
FairSpec ==
  /\ Spec
  /\ WF_vars(MainStep)
  /\ WF_vars(KillMain)
  /\ WF_vars(PacketStep)
  /\ WF_vars(PeerAnswers)
  /\ WF_vars(Connected \/ HandshakeFails)
  /\ WF_vars((stream = "freed" \/ mpc = "closing") /\ OnDisconnected)
  /\ SF_vars(mpc = "closing" /\ StreamClosed)

-----------------------------------------------------------------------------
(* Properties.                                                             *)

PacketsOf(types) == [type : types, user : Users \cup {ZERO}, key : Users \cup {ZERO}]

(* Every variable holds a value of its C type. *)
TypeOK ==
  /\ mpc \in MainPc
  /\ g_interrupted \in BOOLEAN /\ g_conn_alive \in BOOLEAN
  /\ state \in {"HELLO", "AUTH", "ESTABLISHED"}
  /\ auth_ok \in BOOLEAN
  /\ login_ready \in Nat /\ auth_done \in Nat /\ key_fetch_sem \in Nat
  /\ key_fetch_result \in Users \cup {ZERO}
  /\ recipient \in Users \cup {ZERO}
  /\ lines \in 0..MaxLines
  /\ conn \in {"handshake", "failed", "up", "ending", "closed"}
  /\ stream \in {"none", "open", "freed"}
  /\ cpc \in {"idle", "kill"}
  /\ to_server \in
       Seq(PacketsOf({"HELLO", "AUTH_REQ", "KEY_REQ", "CHAT_SEND", "BYE"}))
  /\ to_client \in
       Seq(PacketsOf({"HELLO_ACK", "AUTH_OK", "AUTH_INVALID", "KEY_RESP",
                      "USER_NOT_FOUND", "COULD_NOT_SEND", "UNEXPECTED_MSG",
                      "CHAT_DELIVER", "BYE"}))
  /\ peer \in {"HELLO", "AUTH", "queued", "unserved", "registered", "owed",
              "ESTABLISHED", "stopping", "CLOSING"}
  /\ crashed \in BOOLEAN /\ late \in BOOLEAN

(* The client and the server agree how far the session is: main, woken by  *)
(* semaphores and signals in any order, never sends a packet that the      *)
(* server's handler answers with UNEXPECTED_MSG, unless a BYE ended the    *)
(* session before it.                                                      *)
ServerExpects ==
  to_server # << >> => Accepts(Head(to_server).type) \/ peer = "CLOSING"

(* A message is encrypted with its recipient's key as long as every answer *)
(* that posts key_fetch_sem was waited for: no fetch timed out or was      *)
(* interrupted, and no CHAT_SEND was answered with USER_NOT_FOUND.         *)
KeyMatchesUnlessLate ==
  \A i \in 1..Len(to_server) :
    to_server[i].type = "CHAT_SEND" => to_server[i].key = to_server[i].user \/ late

(* A message that the server delivers is dropped, by the state check of    *)
(* sqmp_process_chat_deliver, only if it overtakes the login's answer: the *)
(* server has registered the user, and its AUTH_RESP is still to come.     *)
DroppedOnlyBeforeAuthResp ==
  (to_client # << >> /\ Head(to_client).type = "CHAT_DELIVER"
                     /\ state # "ESTABLISHED") =>
    \/ peer \in {"registered", "owed"}
    \/ \E i \in 2..Len(to_client) : to_client[i].type = "AUTH_OK"

(* When main returns, which frees the session on its stack and destroys    *)
(* its semaphores, no callback runs and none can come.                     *)
ExitAfterCallbacks ==
  mpc = "exited" => conn \in {"closed", "failed"} /\ cpc = "idle" /\ stream # "open"

(* Once logged in the client leaves when it is interrupted: by Ctrl+C, by  *)
(* the server's BYE or by the end of the connection.                       *)
InterruptLeavesChat ==
  (mpc \in Chatting /\ g_interrupted) ~> (mpc = "exited" \/ crashed)

(* Once main sends AUTH_REQ it comes to the prompt or leaves, unless the   *)
(* connection is lost, the server's main is stopped with the login in its  *)
(* queue (server.c:279: the client then waits at client.c:643 for ever),   *)
(* or another user's message is sent before the answer, which may be lost  *)
(* behind it (Framing!LoginPacketsArrive).                                 *)
EarlyMessage ==
  /\ peer \in {"registered", "owed"}
  /\ \E i \in 1..Len(to_client) : to_client[i].type = "CHAT_DELIVER"
LoginSettles ==
  mpc = "sendAuth" ~>
    (mpc \in Chatting \cup Leaving \/ stream = "freed" \/ peer = "unserved" \/ EarlyMessage)

-----------------------------------------------------------------------------
(* What the repository says and the code does not do.                      *)

(* README.md:156, the secret is derived from "the recipient's registered   *)
(* public key".                                                            *)
KeyIsRecipients ==
  \A i \in 1..Len(to_server) :
    to_server[i].type = "CHAT_SEND" => to_server[i].key = to_server[i].user

(* client.c:110, on_disconnected "Wakes the main thread so it can exit     *)
(* cleanly".                                                               *)
DisconnectEndsClient == ~g_conn_alive ~> (mpc = "exited" \/ crashed)
=============================================================================
