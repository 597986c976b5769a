------------------------------- MODULE Server -------------------------------
(***************************************************************************)
(* The chat server: src/server/server.c, the server side of the message    *)
(* handlers of src/shared/sqmp.c and the callbacks by which                *)
(* src/shared/msquic_wrapper.c calls them.                                 *)
(*                                                                         *)
(* Threads.  MsQuic runs the callbacks of one connection one after the     *)
(* other, those of different connections in parallel; main runs the login  *)
(* loop and the shutdown.  A step is what a thread does between two        *)
(* accesses to state that another thread uses at the same time.            *)
(*                                                                         *)
(* A client opens one connection and one stream on it, so the connection,  *)
(* its sqmp_session_t, its sqmp_stream_t and its client's public key are   *)
(* named by one c \in Conns.  Freed memory keeps its contents and is not   *)
(* given out again; a thread that uses it goes on with the old contents or *)
(* crashes the server (action Crash).                                      *)
(***************************************************************************)
EXTENDS Registry, Sequences

CONSTANTS
  Conns,     \* the connections that clients may open
  Users,     \* usernames
  Hashes,    \* password hashes
  UsersFile  \* users.txt: the password hash of every user it lists

ASSUME ServerAssumption ==
  /\ NULL \notin Conns \cup Users \cup Hashes
  /\ UsersFile \in UNION {[U -> Hashes] : U \in SUBSET Users}

VARIABLES
  phase,        \* the life of each connection, as MsQuic's events tell it
  mem,          \* is the sqmp_session_t allocated?
  state,        \* session->state
  auth,         \* session->auth_username and auth_password_hash
  auth_stream,  \* session->auth_stream
  auth_queued,  \* session->auth_queued
  conn_closed,  \* session->conn_closed
  username,     \* session->username
  login,        \* what the client knows of its login
  chat,         \* the recipient's stream that sqmp_process_chat_send found
  closing,      \* connections on which ConnectionShutdown was called
  registry,     \* g_registry
  queue,        \* the authentication queue (see Fifo and AuthQueue)
  mpc,          \* where main is
  pending,      \* the session main works on
  ok,           \* main's verdict on its login
  g_stop,       \* a signal was caught
  crashed,      \* the process is dead
  out           \* the packets sent by the latest step

session == <<mem, state, auth, auth_stream, auth_queued, conn_closed, username>>
main == <<mpc, pending, ok>>
vars == <<phase, session, login, chat, closing, registry, queue, main, g_stop,
          crashed, out>>

(* enum sqmp_session_state_e *)
CLOSED == 0
HELLO == 1
AUTH == 2
ESTABLISHED == 3
CLOSING == 4

Phases == {"idle", "handshake", "connected", "open", "streamClosed",
           "discMark", "discState", "discFree", "closed"}

MainPc == {"test", "wait", "blocked", "unflag", "check", "verify", "register",
           "establish", "load", "reply", "bye", "shutdown", "destroy", "exited"}

(* Where main uses the session it took from the queue. *)
Working == {"unflag", "check", "verify", "register", "establish", "load", "reply"}

Packet(to, type) == [to |-> to, type |-> type, key |-> NULL]
KeyPacket(to, key) == [to |-> to, type |-> "KEY_RESP", key |-> key]

PacketTypes == {"HELLO_ACK", "AUTH_OK", "AUTH_INVALID", "KEY_RESP",
                "CHAT_DELIVER", "BYE", "USER_NOT_FOUND", "COULD_NOT_SEND",
                "VERSION_MISMATCH", "UNEXPECTED_MSG"}
Packets == [to : Conns, type : PacketTypes, key : Conns \cup {NULL}]

Credentials == [user : Users, hash : Hashes]
NoCredentials == [user |-> NULL, hash |-> NULL]

Init ==
  /\ phase = [c \in Conns |-> "idle"]
  /\ mem = [c \in Conns |-> "none"]
  /\ state = [c \in Conns |-> CLOSED]
  /\ auth = [c \in Conns |-> NoCredentials]
  /\ auth_stream = [c \in Conns |-> NULL]
  /\ auth_queued = [c \in Conns |-> FALSE]
  /\ conn_closed = [c \in Conns |-> FALSE]
  /\ username = [c \in Conns |-> NULL]
  /\ login = [c \in Conns |-> "none"]
  /\ chat = [c \in Conns |-> NULL]
  /\ closing = {}
  /\ registry = EmptyRegistry
  /\ queue = << >>
  /\ mpc = "test"
  /\ pending = NULL
  /\ ok = FALSE
  /\ g_stop = FALSE
  /\ crashed = FALSE
  /\ out = {}

-----------------------------------------------------------------------------
(* Mistakes that the code might have made: a property is worth checking    *)
(* only if one of them breaks it.                                          *)

(* on_disconnected does not ask whether the session is queued. *)
OnDisconnectedIgnoresQueue(c) ==
  /\ phase[c] \in {"connected", "streamClosed"}
  /\ phase' = [phase EXCEPT ![c] = "discState"]
  /\ out' = {}
  /\ UNCHANGED <<session, login, chat, closing, registry, queue, main, g_stop,
                 crashed>>

(* on_disconnected does not return after it marked the session. *)
MarkClosedFallsThrough(c) ==
  /\ phase[c] = "discMark"
  /\ phase' = [phase EXCEPT ![c] = "discState"]
  /\ conn_closed' = [conn_closed EXCEPT ![c] = TRUE]
  /\ out' = {}
  /\ UNCHANGED <<mem, state, auth, auth_stream, auth_queued, username, login,
                 chat, closing, registry, queue, main, g_stop, crashed>>

(* on_disconnected removes the name the client asked for, logged in or not. *)
RemoveUserUnchecked(c) ==
  /\ phase[c] = "discState"
  /\ phase' = [phase EXCEPT ![c] = "discFree"]
  /\ registry' = Remove(registry, auth[c].user)
  /\ out' = {}
  /\ UNCHANGED <<session, login, chat, closing, queue, main, g_stop, crashed>>

(* sqmp_process_auth_req swaps its two copies. *)
ProcessAuthReqSwapped(c, u, h) ==
  /\ phase[c] = "open" /\ chat[c] = NULL
  /\ state[c] = AUTH
  /\ auth' = [auth EXCEPT ![c] = [user |-> h, hash |-> u]]
  /\ auth_stream' = [auth_stream EXCEPT ![c] = c]
  /\ auth_queued' = [auth_queued EXCEPT ![c] = TRUE]
  /\ queue' = Append(queue, c)
  /\ login' = [login EXCEPT ![c] = "asked"]
  /\ out' = {}
  /\ UNCHANGED <<phase, mem, state, conn_closed, username, chat, closing,
                 registry, main, g_stop, crashed>>

(* sqmp_process_bye acts in every state. *)
ProcessByeUnchecked(c) ==
  /\ phase[c] = "open" /\ chat[c] = NULL
  /\ registry' = Remove(registry, username[c])
  /\ state' = [state EXCEPT ![c] = CLOSING]
  /\ out' = {}
  /\ UNCHANGED <<phase, mem, auth, auth_stream, auth_queued, conn_closed,
                 username, login, chat, closing, queue, main, g_stop, crashed>>

(* sqmp_process_bye leaves the entry in the registry. *)
ProcessByeKeepsEntry(c) ==
  /\ phase[c] = "open" /\ chat[c] = NULL
  /\ state[c] = ESTABLISHED
  /\ state' = [state EXCEPT ![c] = CLOSING]
  /\ out' = {}
  /\ UNCHANGED <<phase, mem, auth, auth_stream, auth_queued, conn_closed,
                 username, login, chat, closing, registry, queue, main, g_stop,
                 crashed>>

(* main goes on to the next login after wrong credentials. *)
VerifyCredentialsContinues ==
  /\ mpc = "verify"
  /\ ok' \in {/\ auth[pending].user \in DOMAIN UsersFile
             /\ UsersFile[auth[pending].user] = auth[pending].hash, FALSE}
  /\ mpc' = IF ok' THEN "register" ELSE "test"
  /\ out' = {}
  /\ UNCHANGED <<phase, session, login, chat, closing, registry, queue, pending,
                 g_stop, crashed>>

(* main does not reset ok when sqmp_registry_add fails. *)
RegisterUserKeepsOk ==
  /\ mpc = "register"
  /\ \/ /\ CanAdd(registry, auth[pending].user)
        /\ registry' = Add(registry, auth[pending].user, auth_stream[pending],
                           pending)
        /\ mpc' = "establish"
     \/ /\ ~CanAdd(registry, auth[pending].user)
        /\ mpc' = "load"
        /\ UNCHANGED registry
  /\ out' = {}
  /\ UNCHANGED <<phase, session, login, chat, closing, queue, pending, ok,
                 g_stop, crashed>>

(* The loop condition leaves out the stop flag. *)
TestStopIgnored ==
  /\ mpc = "test"
  /\ mpc' = "wait"
  /\ out' = {}
  /\ UNCHANGED <<phase, session, login, chat, closing, registry, queue, pending,
                 ok, g_stop, crashed>>

(* The shutdown says BYE and closes nothing. *)
ShutdownConnectionsForgotten ==
  /\ mpc = "shutdown"
  /\ mpc' = "destroy"
  /\ out' = {}
  /\ UNCHANGED <<phase, session, login, chat, closing, registry, queue, pending,
                 ok, g_stop, crashed>>

-----------------------------------------------------------------------------
(* Connection events: listener_cb, conn_cb and stream_cb with the          *)
(* callbacks of server.c.  MsQuic reports the end of a connection's stream *)
(* before the end of the connection, and either at any time.               *)

In(c, ps) == ~crashed /\ phase[c] \in ps
To(c, p) == phase' = [phase EXCEPT ![c] = p]

(* The listener stays open until sqmp_quic_destroy. *)
NewConnection(c) ==
  /\ In(c, {"idle"})
  /\ mpc \notin {"destroy", "exited"}
  /\ To(c, "handshake")
  /\ out' = {}
  /\ UNCHANGED <<session, login, chat, closing, registry, queue, main, g_stop,
                 crashed>>

(* SHUTDOWN_COMPLETE without CONNECTED: there is no session to clean up. *)
HandshakeFails(c) ==
  /\ In(c, {"handshake"})
  /\ To(c, "closed")
  /\ out' = {}
  /\ UNCHANGED <<session, login, chat, closing, registry, queue, main, g_stop,
                 crashed>>

OnConnected(c) ==
  /\ In(c, {"handshake"})
  /\ To(c, "connected")
  /\ mem' = [mem EXCEPT ![c] = "live"]
  /\ state' = [state EXCEPT ![c] = HELLO]
  /\ out' = {}
  /\ UNCHANGED <<auth, auth_stream, auth_queued, conn_closed, username, login,
                 chat, closing, registry, queue, main, g_stop, crashed>>

OnStreamOpen(c) ==
  /\ In(c, {"connected"})
  /\ To(c, "open")
  /\ out' = {}
  /\ UNCHANGED <<session, login, chat, closing, registry, queue, main, g_stop,
                 crashed>>

(* on_stream_closed, then stream_cb frees the stream. *)
OnStreamClosed(c) ==
  /\ In(c, {"open"})
  /\ chat[c] = NULL
  /\ To(c, "streamClosed")
  /\ auth_stream' = [auth_stream EXCEPT ![c] = NULL]
  /\ out' = {}
  /\ UNCHANGED <<mem, state, auth, auth_queued, conn_closed, username, login,
                 chat, closing, registry, queue, main, g_stop, crashed>>

(* on_disconnected reads auth_queued ... *)
OnDisconnected(c) ==
  /\ In(c, {"connected", "streamClosed"})
  /\ To(c, IF auth_queued[c] THEN "discMark" ELSE "discState")
  /\ out' = {}
  /\ UNCHANGED <<session, login, chat, closing, registry, queue, main, g_stop,
                 crashed>>

(* ... and either leaves the session to main ... *)
MarkClosed(c) ==
  /\ In(c, {"discMark"})
  /\ To(c, "closed")
  /\ conn_closed' = [conn_closed EXCEPT ![c] = TRUE]
  /\ out' = {}
  /\ UNCHANGED <<mem, state, auth, auth_stream, auth_queued, username, login,
                 chat, closing, registry, queue, main, g_stop, crashed>>

(* ... or takes the user out of the registry ... *)
RemoveUser(c) ==
  /\ In(c, {"discState"})
  /\ To(c, "discFree")
  /\ registry' = IF state[c] = ESTABLISHED THEN Remove(registry, username[c])
                                           ELSE registry
  /\ out' = {}
  /\ UNCHANGED <<session, login, chat, closing, queue, main, g_stop, crashed>>

(* ... and frees the session. *)
FreeSession(c) ==
  /\ In(c, {"discFree"})
  /\ To(c, "closed")
  /\ mem' = [mem EXCEPT ![c] = "freed"]
  /\ out' = {}
  /\ UNCHANGED <<state, auth, auth_stream, auth_queued, conn_closed, username,
                 login, chat, closing, registry, queue, main, g_stop, crashed>>

-----------------------------------------------------------------------------
(* Packets: on_stream_recv calls the handler of the packet's type.         *)

Receiving(c) == In(c, {"open"}) /\ chat[c] = NULL

ProcessHello(c, has_v1) ==
  /\ Receiving(c)
  /\ \/ /\ state[c] # HELLO
        /\ out' = {Packet(c, "UNEXPECTED_MSG")}
        /\ UNCHANGED state
     \/ /\ state[c] = HELLO
        /\ ~has_v1
        /\ out' = {Packet(c, "VERSION_MISMATCH"), Packet(c, "BYE")}
        /\ UNCHANGED state
     \/ /\ state[c] = HELLO
        /\ has_v1
        /\ out' = {Packet(c, "HELLO_ACK")}
        /\ state' = [state EXCEPT ![c] = AUTH]
  /\ UNCHANGED <<phase, mem, auth, auth_stream, auth_queued, conn_closed,
                 username, login, chat, closing, registry, queue, main, g_stop,
                 crashed>>

(* The handler tests the state alone: see WaitsForAnswer for what it takes *)
(* for a session not to be queued twice.                                   *)
ProcessAuthReq(c, u, h) ==
  /\ Receiving(c)
  /\ \/ /\ state[c] # AUTH
        /\ out' = {Packet(c, "UNEXPECTED_MSG")}
        /\ UNCHANGED <<auth, auth_stream, auth_queued, login, queue>>
     \/ /\ state[c] = AUTH
        /\ auth' = [auth EXCEPT ![c] = [user |-> u, hash |-> h]]
        /\ auth_stream' = [auth_stream EXCEPT ![c] = c]
        /\ auth_queued' = [auth_queued EXCEPT ![c] = TRUE]
        /\ queue' = Append(queue, c)
        /\ login' = [login EXCEPT ![c] = "asked"]
        /\ out' = {}
  /\ UNCHANGED <<phase, mem, state, conn_closed, username, chat, closing,
                 registry, main, g_stop, crashed>>

KeyAnswer(c, u) ==
  IF state[c] # ESTABLISHED THEN Packet(c, "UNEXPECTED_MSG")
  ELSE IF GetPubkey(registry, u) = NULL THEN Packet(c, "USER_NOT_FOUND")
  ELSE KeyPacket(c, GetPubkey(registry, u))

ProcessKeyReq(c, u) ==
  /\ Receiving(c)
  /\ out' = {KeyAnswer(c, u)}
  /\ UNCHANGED <<phase, session, login, chat, closing, registry, queue, main,
                 g_stop, crashed>>

(* sqmp_process_chat_send up to the lookup of the recipient's stream. *)
ProcessChatSend(c, u) ==
  /\ Receiving(c)
  /\ \/ /\ state[c] # ESTABLISHED
        /\ out' = {Packet(c, "UNEXPECTED_MSG")}
        /\ UNCHANGED chat
     \/ /\ state[c] = ESTABLISHED
        /\ Find(registry, u) = NULL
        /\ out' = {Packet(c, "USER_NOT_FOUND")}
        /\ UNCHANGED chat
     \/ /\ state[c] = ESTABLISHED
        /\ Find(registry, u) # NULL
        /\ chat' = [chat EXCEPT ![c] = Find(registry, u)]
        /\ out' = {}
  /\ UNCHANGED <<phase, session, login, closing, registry, queue, main, g_stop,
                 crashed>>

(* The rest of it: the registry is unlocked, the stream is used.  MsQuic   *)
(* may refuse the packet.                                                  *)
ForwardChat(c) ==
  /\ ~crashed
  /\ chat[c] # NULL
  /\ chat' = [chat EXCEPT ![c] = NULL]
  /\ out' \in {{Packet(chat[c], "CHAT_DELIVER")}, {Packet(c, "COULD_NOT_SEND")}}
  /\ UNCHANGED <<phase, session, login, closing, registry, queue, main, g_stop,
                 crashed>>

ProcessBye(c) ==
  /\ Receiving(c)
  /\ \/ /\ state[c] = ESTABLISHED
        /\ registry' = Remove(registry, username[c])
        /\ state' = [state EXCEPT ![c] = CLOSING]
     \/ /\ state[c] # ESTABLISHED
        /\ UNCHANGED <<registry, state>>
  /\ out' = {}
  /\ UNCHANGED <<phase, mem, auth, auth_stream, auth_queued, conn_closed,
                 username, login, chat, closing, queue, main, g_stop, crashed>>

(* A short packet, an unknown type, or ERROR, which the server ignores. *)
IgnorePacket(c) ==
  /\ Receiving(c)
  /\ out' = {}
  /\ UNCHANGED <<phase, session, login, chat, closing, registry, queue, main,
                 g_stop, crashed>>

-----------------------------------------------------------------------------
(* main                                                                    *)

At(ps) == ~crashed /\ mpc \in ps

(* The left operand of the loop condition. *)
TestStop ==
  /\ At({"test"})
  /\ mpc' = IF g_stop THEN "bye" ELSE "wait"
  /\ out' = {}
  /\ UNCHANGED <<phase, session, login, chat, closing, registry, queue, pending,
                 ok, g_stop, crashed>>

(* sqmp_auth_queue_dequeue blocks while the queue is empty. *)
Block ==
  /\ At({"wait"})
  /\ queue = << >>
  /\ mpc' = "blocked"
  /\ out' = {}
  /\ UNCHANGED <<phase, session, login, chat, closing, registry, queue, pending,
                 ok, g_stop, crashed>>

Dequeue ==
  /\ At({"wait", "blocked"})
  /\ queue # << >>
  /\ pending' = Head(queue)
  /\ queue' = Tail(queue)
  /\ mpc' = "unflag"
  /\ out' = {}
  /\ UNCHANGED <<phase, session, login, chat, closing, registry, ok, g_stop,
                 crashed>>

ClearQueued ==
  /\ At({"unflag"})
  /\ auth_queued' = [auth_queued EXCEPT ![pending] = FALSE]
  /\ mpc' = "check"
  /\ out' = {}
  /\ UNCHANGED <<phase, mem, state, auth, auth_stream, conn_closed, username,
                 login, chat, closing, registry, queue, pending, ok, g_stop,
                 crashed>>

(* The client is gone: main frees the session on_disconnected left to it. *)
CheckClosed ==
  /\ At({"check"})
  /\ \/ /\ conn_closed[pending]
        /\ mem' = [mem EXCEPT ![pending] = "freed"]
        /\ mpc' = "test"
        /\ pending' = NULL
     \/ /\ ~conn_closed[pending]
        /\ mpc' = "verify"
        /\ UNCHANGED <<mem, pending>>
  /\ out' = {}
  /\ UNCHANGED <<phase, state, auth, auth_stream, auth_queued, conn_closed,
                 username, login, chat, closing, registry, queue, ok, g_stop,
                 crashed>>

(* What verify_credentials finds in users.txt when it can open the file. *)
Listed(cred) == cred.user \in DOMAIN UsersFile /\ UsersFile[cred.user] = cred.hash

VerifyCredentials ==
  /\ At({"verify"})
  /\ ok' \in {Listed(auth[pending]), FALSE}
  /\ mpc' = IF ok' THEN "register" ELSE "load"
  /\ out' = {}
  /\ UNCHANGED <<phase, session, login, chat, closing, registry, queue, pending,
                 g_stop, crashed>>

RegisterUser ==
  /\ At({"register"})
  /\ \/ /\ CanAdd(registry, auth[pending].user)
        /\ registry' = Add(registry, auth[pending].user, auth_stream[pending],
                           pending)
        /\ mpc' = "establish"
        /\ UNCHANGED ok
     \/ /\ ~CanAdd(registry, auth[pending].user)
        /\ ok' = FALSE
        /\ mpc' = "load"
        /\ UNCHANGED registry
  /\ out' = {}
  /\ UNCHANGED <<phase, session, login, chat, closing, queue, pending, g_stop,
                 crashed>>

Establish ==
  /\ At({"establish"})
  /\ username' = [username EXCEPT ![pending] = auth[pending].user]
  /\ state' = [state EXCEPT ![pending] = ESTABLISHED]
  /\ mpc' = "load"
  /\ out' = {}
  /\ UNCHANGED <<phase, mem, auth, auth_stream, auth_queued, conn_closed, login,
                 chat, closing, registry, queue, pending, ok, g_stop, crashed>>

LoadStream ==
  /\ At({"load"})
  /\ \/ /\ auth_stream[pending] # NULL
        /\ mpc' = "reply"
        /\ UNCHANGED <<pending, ok>>
     \/ /\ auth_stream[pending] = NULL
        /\ mpc' = "test"
        /\ pending' = NULL
        /\ ok' = FALSE
  /\ out' = {}
  /\ UNCHANGED <<phase, session, login, chat, closing, registry, queue, g_stop,
                 crashed>>

SendAuthResp ==
  /\ At({"reply"})
  /\ out' = {Packet(pending, IF ok THEN "AUTH_OK" ELSE "AUTH_INVALID")}
  /\ login' = [login EXCEPT ![pending] = IF ok THEN "ok" ELSE "invalid"]
  /\ mpc' = "test"
  /\ pending' = NULL
  /\ ok' = FALSE
  /\ UNCHANGED <<phase, session, chat, closing, registry, queue, g_stop, crashed>>

SendByeAll ==
  /\ At({"bye"})
  /\ out' = {Packet(c, "BYE") : c \in Reachable(registry)}
  /\ mpc' = "shutdown"
  /\ UNCHANGED <<phase, session, login, chat, closing, registry, queue, pending,
                 ok, g_stop, crashed>>

ShutdownConnections ==
  /\ At({"shutdown"})
  /\ closing' = closing \cup Reachable(registry)
  /\ mpc' = "destroy"
  /\ out' = {}
  /\ UNCHANGED <<phase, session, login, chat, registry, queue, pending, ok,
                 g_stop, crashed>>

(* sqmp_quic_destroy: RegistrationClose returns when no connection is left. *)
Destroy ==
  /\ At({"destroy"})
  /\ \A c \in Conns : phase[c] \in {"idle", "closed"}
  /\ mpc' = "exited"
  /\ out' = {}
  /\ UNCHANGED <<phase, session, login, chat, closing, registry, queue, pending,
                 ok, g_stop, crashed>>

-----------------------------------------------------------------------------
(* The environment.                                                        *)

(* SIGINT or SIGTERM: the handler sets the flag, and a sem_wait that is    *)
(* blocked returns EINTR, which makes sqmp_auth_queue_dequeue return NULL  *)
(* and the loop end.                                                       *)
Signal ==
  /\ ~crashed
  /\ mpc # "exited"
  /\ ~g_stop \/ mpc = "blocked"
  /\ g_stop' = TRUE
  /\ mpc' = IF mpc = "blocked" THEN "bye" ELSE mpc
  /\ out' = {}
  /\ UNCHANGED <<phase, session, login, chat, closing, registry, queue, pending,
                 ok, crashed>>

StreamAlive(c) == phase[c] = "open"

(* Some thread's next step uses memory that was freed. *)
MainUsesFreedSession == mpc \in Working /\ mem[pending] = "freed"
MainUsesFreedStream ==
  \/ mpc = "reply" /\ ~StreamAlive(pending)
  \/ mpc \in {"bye", "shutdown"} /\ \E c \in Reachable(registry) : ~StreamAlive(c)
ChatUsesFreedStream(c) == chat[c] # NULL /\ ~StreamAlive(chat[c])

Crash ==
  /\ ~crashed
  /\ \/ MainUsesFreedSession
     \/ MainUsesFreedStream
     \/ \E c \in Conns : ChatUsesFreedStream(c)
  /\ crashed' = TRUE
  /\ out' = {}
  /\ UNCHANGED <<phase, session, login, chat, closing, registry, queue, main,
                 g_stop>>

-----------------------------------------------------------------------------
ConnectionEvent(c) ==
  \/ NewConnection(c) \/ HandshakeFails(c) \/ OnConnected(c) \/ OnStreamOpen(c)
  \/ OnStreamClosed(c) \/ OnDisconnected(c) \/ MarkClosed(c) \/ RemoveUser(c)
  \/ FreeSession(c)

(* What this module assumes of the clients, and the server does not check: *)
(* client.c sends AUTH_REQ and waits for the answer.  AuthQueue shows what *)
(* becomes of the queue when a client does not.                            *)
WaitsForAnswer(c) == login[c] # "asked"

PacketEvent(c) ==
  \/ \E b \in BOOLEAN : ProcessHello(c, b)
  \/ \E u \in Users, h \in Hashes : WaitsForAnswer(c) /\ ProcessAuthReq(c, u, h)
  \/ \E u \in Users : ProcessKeyReq(c, u) \/ ProcessChatSend(c, u)
  \/ ForwardChat(c) \/ ProcessBye(c) \/ IgnorePacket(c)

MainStep ==
  \/ TestStop \/ Block \/ Dequeue \/ ClearQueued \/ CheckClosed
  \/ VerifyCredentials \/ RegisterUser \/ Establish \/ LoadStream \/ SendAuthResp
  \/ SendByeAll \/ ShutdownConnections \/ Destroy

(* The process has ended. *)
Ended == (crashed \/ mpc = "exited") /\ UNCHANGED vars

Next ==
  \/ \E c \in Conns : ConnectionEvent(c) \/ PacketEvent(c)
  \/ MainStep
  \/ Signal
  \/ Crash
  \/ Ended

Spec == Init /\ [][Next]_vars

(* The scheduler runs main and finishes the callbacks that have begun;     *)
(* MsQuic ends the stream of a connection that it was asked to shut down,  *)
(* between two callbacks (the request waits in the connection's queue like *)
(* the packets do: strong fairness), and a connection whose stream has     *)
(* ended (client.c ends a stream only with its connection).  Nothing       *)
(* obliges a client to send, to stay or to leave.                          *)
MainFairness == WF_vars(MainStep)

CallbackFairness(c) ==
  /\ WF_vars((MarkClosed(c) \/ RemoveUser(c) \/ FreeSession(c)))
  /\ WF_vars(ForwardChat(c))
  /\ SF_vars(c \in closing /\ OnStreamClosed(c))
  /\ WF_vars(phase[c] = "streamClosed" /\ OnDisconnected(c))

FairSpec == Spec /\ MainFairness /\ \A c \in Conns : CallbackFairness(c)

-----------------------------------------------------------------------------
(* Properties.                                                             *)

(* Every variable holds a value of its C type. *)
TypeOK ==
  /\ phase \in [Conns -> Phases]
  /\ mem \in [Conns -> {"none", "live", "freed"}]
  /\ state \in [Conns -> CLOSED .. CLOSING]
  /\ auth \in [Conns -> Credentials \cup {NoCredentials}]
  /\ auth_stream \in [Conns -> Conns \cup {NULL}]
  /\ auth_queued \in [Conns -> BOOLEAN]
  /\ conn_closed \in [Conns -> BOOLEAN]
  /\ username \in [Conns -> Users \cup {NULL}]
  /\ login \in [Conns -> {"none", "asked", "ok", "invalid"}]
  /\ chat \in [Conns -> Conns \cup {NULL}]
  /\ closing \in SUBSET Conns
  /\ registry \in [Slots -> Entries(Users, Conns, Conns)]
  /\ queue \in Seq(Conns)
  /\ mpc \in MainPc
  /\ pending \in Conns \cup {NULL}
  /\ ok \in BOOLEAN
  /\ g_stop \in BOOLEAN
  /\ crashed \in BOOLEAN
  /\ out \in SUBSET Packets

(* No user is in the registry twice: sqmp_registry_add refuses a second    *)
(* login while the first lasts, whatever entries were freed in between.    *)
RegistryUnique == UniqueNames(registry)

(* An entry of the registry was made for a connection that proved to be    *)
(* the user's: its name, its key and its stream are that connection's, so  *)
(* a key or a message for a user never goes to somebody else.              *)
OwnsEntry(c, e) ==
  /\ e.in_use
  /\ e.public_key = c
  /\ e.stream \in {c, NULL}
  /\ e.username = auth[c].user
  /\ Listed(auth[c])

EntryHasOwner ==
  \A i \in Slots : registry[i].in_use =>
    LET c == registry[i].public_key
    IN  /\ OwnsEntry(c, registry[i])
        /\ \/ state[c] = ESTABLISHED
           \/ mpc = "establish" /\ pending = c

(* A logged-in session keeps its entry until it says BYE or its connection *)
(* ends: no other session's BYE, disconnect or login takes it away.        *)
EstablishedOwnsEntry ==
  \A c \in Conns :
    /\ state[c] = ESTABLISHED
    /\ phase[c] \in {"connected", "open", "streamClosed", "discMark", "discState"}
    => \E i \in Slots : OwnsEntry(c, registry[i])

(* The sessions in the queue are distinct, allocated, flagged auth_queued  *)
(* and still in state AUTH, and no other session is flagged except the one *)
(* main has just taken.                                                    *)
QueueHoldsSessions ==
  /\ \A i \in 1..Len(queue) :
       /\ auth_queued[queue[i]]
       /\ mem[queue[i]] = "live"
       /\ state[queue[i]] = AUTH
  /\ \A i, j \in 1..Len(queue) : queue[i] = queue[j] => i = j
  /\ \A c \in Conns : auth_queued[c] =>
       \/ \E i \in 1..Len(queue) : queue[i] = c
       \/ mpc = "unflag" /\ pending = c

(* Main and on_disconnected never both free a session, and on_disconnected *)
(* never runs on a session that main has freed.                            *)
FreedOnce ==
  /\ \A c \in Conns :
       phase[c] \in {"connected", "open", "streamClosed", "discMark", "discState",
                     "discFree"} => mem[c] = "live"
  /\ mpc = "check" /\ conn_closed[pending] => mem[pending] = "live"

(* What the invariants above rest on.  A session goes through the phases   *)
(* of its connection; conn_closed and auth_queued split its end between    *)
(* on_disconnected and main; a session that is logged in has the name it   *)
(* asked for.                                                              *)
SessionInv ==
  \A c \in Conns :
    /\ phase[c] \in {"idle", "handshake"} =>
         state[c] = CLOSED /\ ~auth_queued[c] /\ login[c] # "asked"
    /\ auth_stream[c] \in {c, NULL}
    /\ conn_closed[c] => phase[c] = "closed"
    /\ auth_queued[c] => phase[c] \notin {"discState", "discFree"} /\ mem[c] = "live"
    /\ state[c] = ESTABLISHED =>
         username[c] = auth[c].user /\ username[c] # NULL /\ Listed(auth[c])

(* Main owns the login it works on: its client waits for the answer, so    *)
(* nobody changes its credentials or its state, and nobody queues it again. *)
MainInv ==
  /\ mpc \in Working => pending \in Conns /\ login[pending] = "asked"
  /\ mpc \notin Working => pending = NULL
  /\ \A i \in 1..Len(queue) : queue[i] # pending /\ login[queue[i]] = "asked"
  /\ mpc \in {"unflag", "check", "verify", "register", "establish"} =>
       state[pending] = AUTH /\ auth[pending] \in Credentials
  /\ mpc = "unflag" => auth_queued[pending]
  /\ mpc \in {"register", "establish"} => Listed(auth[pending])
  /\ mpc = "establish" => \E i \in Slots : OwnsEntry(pending, registry[i])
  /\ \A i \in 1..Len(queue) : auth[queue[i]] \in Credentials

(* The server's side of that bargain: it answers a login only when the     *)
(* session has left the queue and main is done with it, so that a client   *)
(* which asks again after its answer never queues its session twice.       *)
AnsweredLeftQueue ==
  \A c \in Conns : WaitsForAnswer(c) =>
    c # pending /\ \A i \in 1..Len(queue) : queue[i] # c

ServerInv ==
  /\ TypeOK
  /\ RegistryUnique
  /\ EntryHasOwner
  /\ EstablishedOwnsEntry
  /\ QueueHoldsSessions
  /\ FreedOnce
  /\ SessionInv
  /\ MainInv

(* README.md:138, "The session goes through these states in order".  Main  *)
(* sets CONN_ESTABLISHED without looking at the state the callbacks left.  *)
StatesInOrder ==
  [][\A c \in Conns : state'[c] \in {state[c], state[c] + 1}]_state

(* A client is told that its login succeeded only if users.txt lists its   *)
(* credentials and its session is past AUTH.                               *)
AuthOkIsEarned ==
  [][\A p \in out' : p.type = "AUTH_OK" =>
       Listed(auth[p.to]) /\ state[p.to] \in {ESTABLISHED, CLOSING}]_vars

(* A client that stays and asks to log in is answered, unless the server   *)
(* stops or crashes.                                                       *)
LoginAnswered ==
  \A c \in Conns :
    login[c] = "asked" ~>
      (login[c] \in {"ok", "invalid"} \/ phase[c] # "open" \/ g_stop \/ crashed)

(* A server that was stopped exits as soon as the connections it does not  *)
(* know of, those that have not logged in, are gone; the others it closes. *)
Alive(c) == phase[c] \notin {"idle", "closed"}
StopCompletes ==
  mpc = "destroy" ~>
    (mpc = "exited" \/ crashed \/ \E c \in Conns : Alive(c) /\ state[c] # ESTABLISHED)

(* server.c:275, "Ctrl+C to stop": a signal that comes while main works on *)
(* a login, or tests the flag, ends the loop before another sem_wait.      *)
(* (One that comes between the test of g_stop and sem_wait does not.)      *)
StopNoticed ==
  g_stop /\ mpc \in Working \cup {"test"} ~>
    (mpc \in {"bye", "shutdown", "destroy", "exited"} \/ crashed)

-----------------------------------------------------------------------------
(* What the repository says and the code does not do.                      *)

(* README.md:146, "The server maintains a registry of logged-in users":    *)
(* when main has no login to work on, no entry belongs to a connection     *)
(* that has ended.                                                         *)
RegistryHoldsConnected ==
  mpc = "blocked" =>
    \A i \in Slots : registry[i].in_use => phase[registry[i].public_key] # "closed"

(* README.md:95, "Trying to send a message to a user who is not connected  *)
(* will result in an error": the stream a message is about to be sent on   *)
(* is open, because a user whose stream is gone is not found.              *)
FoundStreamIsOpen == \A c \in Conns : ~ChatUsesFreedStream(c)
=============================================================================
