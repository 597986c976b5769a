------------------------------ MODULE Wrapper ------------------------------
(***************************************************************************)
(* What msquic_wrapper.c holds: the context, the MsQuic library, its       *)
(* registration, configuration and listener, and for every connection and  *)
(* stream a struct and a MsQuic handle.  Either main opens them one after  *)
(* the other and each call may fail; callbacks of MsQuic's threads use     *)
(* them, and open and release those of connections and streams.            *)
(*                                                                         *)
(* MsQuic is taken at its documentation: a connection reports CONNECTED or *)
(* SHUTDOWN_INITIATED_BY_TRANSPORT; its streams end before it does; after  *)
(* SHUTDOWN_COMPLETE or a close of the handle nothing is reported any      *)
(* more; a connection whose NEW_CONNECTION is refused MsQuic closes        *)
(* itself; a stream that fails to start, without SHUTDOWN_ON_FAIL, reports *)
(* no end; RegistrationClose waits for the handles below it.               *)
(***************************************************************************)
EXTENDS Integers

CONSTANTS Conns  \* connections; the client has one

ASSUME WrapperAssumption == Conns # {}

VARIABLES
  role,         \* which of the two programs runs
  mpc,          \* where its main is, named after what it does next
  held,         \* what is allocated or open
  link,         \* the connections as MsQuic's events tell them
  started,      \* connections with a stream that will report its end
  opened,       \* connections whose stream's address the program was given
  asked,        \* ConnectionShutdown has been called by the client
  connected,    \* conn->connected of the client
  connect_sem,  \* the client's semaphores
  closed_sem,
  misused       \* what was used or released without being held, and by whom

sems == <<connect_sem, closed_sem>>
events == <<link, started, opened>>
vars == <<role, mpc, held, events, asked, connected, sems, misused>>

Ctx == <<"ctx">>            \* sqmp_quic_ctx_t
Lib == <<"lib">>            \* ctx->msquic
Reg == <<"reg">>            \* ctx->reg
Config == <<"config">>      \* ctx->config
Listener == <<"listener">>  \* ctx->listener
Conn(c) == <<"conn", c>>    \* sqmp_conn_t and its handle
Handle(c) == <<"handle", c>>
Stream(c) == <<"stream", c>>  \* sqmp_stream_t and its handle
StreamHandle(c) == <<"streamHandle", c>>
SendBuf(c) == <<"sendbuf", c>>  \* send_buf_t; one at a time
Base == {Ctx, Lib}

own == CHOOSE c \in Conns : TRUE  \* the client's connection

Init ==
  /\ role \in {"server", "client"}
  /\ mpc = "ctx"
  /\ held = {}
  /\ link = [c \in Conns |-> "none"]
  /\ started = {}
  /\ opened = {}
  /\ asked = FALSE
  /\ connected = FALSE
  /\ connect_sem = 0
  /\ closed_sem = 0
  /\ misused = {}

-----------------------------------------------------------------------------
(* A step uses what it needs, releases drops and obtains gets. *)
DoBy(who, needs, gets, drops) ==
  /\ held' = (held \ drops) \cup gets
  /\ misused' = misused \cup {<<who, r>> : r \in (needs \cup drops) \ held}
Do(needs, gets, drops) == DoBy("any", needs, gets, drops)

At(pc) == mpc = pc
Goto(pc) == mpc' = pc
Quiet == UNCHANGED <<role, events, asked, connected, sems>>

(* A call that gets r and goes on, or fails, undoes undo and goes to fail. *)
Open(pc, needs, r, next, undo, fail) ==
  /\ At(pc)
  /\ \/ Do(needs, {r}, {}) /\ Goto(next)
     \/ Do(needs, {}, undo) /\ Goto(fail)
  /\ Quiet

-----------------------------------------------------------------------------
(* Mistakes that the code might have made.                                 *)

(* A failing RegistrationOpen leaves the library open. *)
RegistrationOpenLeaves ==
  Open("reg", {Lib}, Reg, "config", {Ctx}, "exited")

(* sqmp_quic_disconnect does not wait for closed_sem. *)
AwaitClosedSkipped ==
  /\ At("closing")
  /\ Do({}, {}, {Handle(own), Conn(own)})
  /\ Goto("destroy")
  /\ Quiet

(* conn_cb closes no connection of the server. *)
EndedKeepsHandle(c) == {Conn(c)}

(* sqmp_quic_disconnect does not ask for the shutdown. *)
DisconnectUnasked ==
  /\ At("disconnect")
  /\ Do({Conn(own), Handle(own)} \cup Base, {}, {})
  /\ Goto("closing")
  /\ Quiet

-----------------------------------------------------------------------------
(* sqmp_quic_init. *)

AllocContext == Open("ctx", {}, Ctx, "lib", {}, "exited")
MsQuicOpen == Open("lib", {Ctx}, Lib, "reg", {Ctx}, "exited")
RegistrationOpen == Open("reg", {Lib}, Reg, "config", {Lib, Ctx}, "exited")

(* Both sqmp_quic_listen and sqmp_quic_connect begin like this.  What they *)
(* leave open the caller's sqmp_quic_destroy closes.                       *)
ConfigurationOpen == Open("config", {Lib, Reg}, Config, "credential", {}, "destroy")

LoadCredential ==
  /\ At("credential")
  /\ Do({Lib, Config}, {}, {})
  /\ Goto("open") \/ Goto("destroy")
  /\ Quiet

(* sqmp_quic_listen *)
ListenConfigures == role = "server" /\ (ConfigurationOpen \/ LoadCredential)

ListenerOpen ==
  role = "server" /\ Open("open", {Lib, Reg}, Listener, "start", {}, "destroy")

ListenerStart ==
  /\ At("start")
  /\ Do({Lib, Listener}, {}, {})
  /\ Goto("serving") \/ Goto("destroy")
  /\ Quiet

(* main of server.c serves, until it calls sqmp_quic_destroy. *)
Stop ==
  /\ At("serving")
  /\ Goto("destroy")
  /\ UNCHANGED <<held, misused>>
  /\ Quiet

-----------------------------------------------------------------------------
(* sqmp_quic_connect *)

ConnectConfigures == role = "client" /\ (ConfigurationOpen \/ LoadCredential)

AllocConn == role = "client" /\ Open("open", {Ctx}, Conn(own), "handle", {}, "destroy")

ConnectionOpen ==
  Open("handle", {Lib, Reg}, Handle(own), "connect", {Conn(own)}, "destroy")

ConnectionStart ==
  /\ At("connect")
  /\ \/ /\ Do({Lib, Config, Handle(own)}, {}, {})
        /\ Goto("await")
        /\ link' = [link EXCEPT ![own] = "handshake"]
     \/ /\ Do({Lib, Config}, {}, {Handle(own), Conn(own)})
        /\ Goto("destroy")
        /\ UNCHANGED link
  /\ UNCHANGED <<role, started, opened, asked, connected, sems>>

AwaitConnect ==
  /\ At("await")
  /\ connect_sem > 0
  /\ connect_sem' = connect_sem - 1
  /\ Goto(IF connected THEN "stream" ELSE "failed")
  /\ Do({Conn(own)}, {}, {})
  /\ UNCHANGED <<role, events, asked, connected, closed_sem>>

(* After the failed handshake, or in sqmp_quic_disconnect. *)
CloseConnection(pc) ==
  /\ At(pc)
  /\ closed_sem > 0
  /\ closed_sem' = closed_sem - 1
  /\ Do(Base, {}, {Handle(own), Conn(own)})
  /\ Goto("destroy")
  /\ UNCHANGED <<role, events, asked, connected, connect_sem>>

AwaitFailed == CloseConnection("failed")

-----------------------------------------------------------------------------
(* sqmp_stream_open, the client's session and sqmp_quic_disconnect. *)

AllocStream == Open("stream", {}, Stream(own), "streamHandle", {}, "disconnect")

StreamOpen ==
  Open("streamHandle", {Conn(own), Handle(own)} \cup Base, StreamHandle(own),
       "streamStart", {Stream(own)}, "disconnect")

(* It fails at once, or later with START_COMPLETE, which stream_cb ignores. *)
StreamStart ==
  /\ At("streamStart")
  /\ \/ /\ Do({StreamHandle(own)} \cup Base, {}, {})
        /\ \/ link[own] = "connected" /\ started' = started \cup {own}
           \/ UNCHANGED started
        /\ opened' = opened \cup {own}
        /\ Goto("running")
     \/ /\ Do({Conn(own)} \cup Base, {}, {StreamHandle(own), Stream(own)})
        /\ Goto("disconnect")
        /\ UNCHANGED <<started, opened>>
  /\ UNCHANGED <<role, link, asked, connected, sems>>

Leave ==
  /\ At("running")
  /\ Goto("disconnect")
  /\ UNCHANGED <<held, misused>>
  /\ Quiet

Disconnect ==
  /\ At("disconnect")
  /\ Do({Conn(own), Handle(own)} \cup Base, {}, {})
  /\ asked' = TRUE
  /\ Goto("closing")
  /\ UNCHANGED <<role, events, connected, sems>>

AwaitClosed == CloseConnection("closing")

-----------------------------------------------------------------------------
(* sqmp_quic_destroy: what is open is closed, in this order. *)

Close(pc, r, next) ==
  /\ At(pc)
  /\ Do(Base, {}, {r} \cap held)
  /\ Goto(next)
  /\ Quiet

ListenerClose == Close("destroy", Listener, "configClose")
ConfigurationClose == Close("configClose", Config, "regClose")

RegistrationClose ==
  /\ At("regClose")
  /\ \A c \in Conns : Handle(c) \notin held /\ StreamHandle(c) \notin held
  /\ Do({}, {}, {Reg, Lib, Ctx})
  /\ Goto("exited")
  /\ Quiet

-----------------------------------------------------------------------------
(* Callbacks.                                                              *)

(* listener_cb.  Without memory it refuses the connection; when            *)
(* ConnectionSetConfiguration fails it closes the handle and refuses too,  *)
(* and MsQuic closes the handle once more.                                 *)
NewConnection(c) ==
  /\ role = "server"
  /\ At("serving")
  /\ link[c] = "none"
  /\ \/ /\ Do({Config} \cup Base, {Conn(c), Handle(c)}, {})
        /\ link' = [link EXCEPT ![c] = "handshake"]
     \/ /\ Do({Ctx}, {}, {}) \/ DoBy("refuse", {Config, Handle(c)} \cup Base, {}, {})
        /\ link' = [link EXCEPT ![c] = "shut"]
  /\ UNCHANGED <<role, mpc, started, opened, asked, connected, sems>>

Ends(c) == link[c] = "ending" \/ asked
Callback(c) == {Conn(c)} \cup Base  \* conn->ctx->cfg and conn->ctx->msquic

(* conn_cb *)
Connected(c) ==
  /\ link[c] = "handshake"
  /\ link' = [link EXCEPT ![c] = "connected"]
  /\ IF role = "client" THEN connected' = TRUE /\ connect_sem' = connect_sem + 1
     ELSE UNCHANGED <<connected, connect_sem>>
  /\ Do(Callback(c), {}, {})
  /\ UNCHANGED <<role, mpc, started, opened, asked, closed_sem>>

PostsUnless(c) == role = "client" /\ ~connected

(* By the transport or the peer, or on the server by ConnectionShutdown. *)
ShutdownInitiated(c) ==
  /\ link[c] \in {"handshake", "connected"}
  /\ link' = [link EXCEPT ![c] = "ending"]
  /\ connect_sem' = IF PostsUnless(c) THEN connect_sem + 1 ELSE connect_sem
  /\ Do(Callback(c), {}, {})
  /\ UNCHANGED <<role, mpc, started, opened, asked, connected, closed_sem>>

Ended(c) == {Handle(c), Conn(c)}

ConnShutdownComplete(c) ==
  /\ link[c] = "ending" \/ (link[c] = "connected" /\ asked)
  /\ c \notin started
  /\ link' = [link EXCEPT ![c] = "shut"]
  /\ \/ /\ role = "server"
        /\ Do(Callback(c), {}, Ended(c))
        /\ UNCHANGED closed_sem
     \/ /\ role = "client"
        /\ Do(Callback(c), {}, {})
        /\ closed_sem' = closed_sem + 1
  /\ UNCHANGED <<role, mpc, started, opened, asked, connected, connect_sem>>

(* One stream of a connection at a time.                                   *)
(* Without memory for the stream, ConnectionClose is called with the       *)
(* stream's handle, which is not a connection's: the handle stays open.    *)
PeerStreamStarted(c) ==
  /\ role = "server"
  /\ link[c] = "connected"
  /\ StreamHandle(c) \notin held
  /\ \/ /\ Do(Callback(c), {Stream(c), StreamHandle(c)}, {})
        /\ started' = started \cup {c}
        /\ opened' = opened \cup {c}
     \/ /\ Do(Callback(c), {StreamHandle(c)}, {})
        /\ UNCHANGED <<started, opened>>
  /\ UNCHANGED <<role, mpc, link, asked, connected, sems>>

(* stream_cb *)
StreamShutdownComplete(c) ==
  /\ c \in started
  /\ SendBuf(c) \notin held
  /\ Do({Stream(c)} \cup Callback(c), {}, {StreamHandle(c), Stream(c)})
  /\ started' = started \ {c}
  /\ UNCHANGED <<role, mpc, link, opened, asked, connected, sems>>

(* sqmp_stream_send, from main or from a callback of any stream, which     *)
(* still have the stream's address after stream_cb has freed it.  malloc   *)
(* or MsQuic may fail; MsQuic does when the stream ends or did not start.  *)
MaySend == started # {} \/ mpc \in {"serving", "running"}

StreamSend(c) ==
  /\ c \in opened
  /\ MaySend
  /\ LET needs == IF Stream(c) \in held THEN {Stream(c), StreamHandle(c)} \cup Callback(c)
                  ELSE {Stream(c)}
     IN  \/ DoBy("send", needs, {}, {})
         \/ /\ c \in started /\ ~Ends(c)
            /\ SendBuf(c) \notin held
            /\ DoBy("send", needs, {SendBuf(c)}, {})
  /\ UNCHANGED mpc
  /\ Quiet

SendComplete(c) ==
  /\ SendBuf(c) \in held
  /\ Do({Stream(c)} \cup Callback(c), {}, {SendBuf(c)})
  /\ UNCHANGED mpc
  /\ Quiet

-----------------------------------------------------------------------------
MainStep ==
  \/ AllocContext \/ MsQuicOpen \/ RegistrationOpen
  \/ ListenConfigures \/ ListenerOpen \/ ListenerStart
  \/ ConnectConfigures \/ AllocConn \/ ConnectionOpen \/ ConnectionStart \/ AwaitConnect \/ AwaitFailed
  \/ AllocStream \/ StreamOpen \/ StreamStart \/ Disconnect \/ AwaitClosed
  \/ ListenerClose \/ ConfigurationClose \/ RegistrationClose

Event(c) ==
  \/ NewConnection(c) \/ Connected(c) \/ ShutdownInitiated(c) \/ ConnShutdownComplete(c)
  \/ PeerStreamStarted(c) \/ StreamShutdownComplete(c) \/ StreamSend(c) \/ SendComplete(c)

Next == MainStep \/ Stop \/ Leave \/ \E c \in Conns : Event(c)

Spec == Init /\ [][Next]_vars

(* main runs; MsQuic ends handshakes and what was asked or began to end. *)
FairSpec ==
  /\ Spec
  /\ WF_vars(MainStep)
  /\ \A c \in Conns :
       /\ WF_vars(link[c] = "handshake" /\ (Connected(c) \/ ShutdownInitiated(c)))
       /\ WF_vars(SendComplete(c))
       /\ WF_vars(Ends(c) /\ StreamShutdownComplete(c))
       /\ WF_vars(Ends(c) /\ ConnShutdownComplete(c))

-----------------------------------------------------------------------------
(* Properties.                                                             *)

(* Whatever call fails and whenever a connection ends, callbacks and main  *)
(* use and release nothing that is not, or no longer, held, but for two    *)
(* cases: sqmp_stream_send by whoever keeps the address of a stream that   *)
(* stream_cb has freed; and the handle of a connection that listener_cb    *)
(* closes and refuses.  Contexts outlive their connections, connections    *)
(* their streams, and nothing is released twice.                           *)
OnlyHeldIsUsed ==
  \A m \in misused : \E c \in Conns :
    \/ m = <<"send", Stream(c)>> /\ c \in opened
    \/ m = <<"refuse", Handle(c)>> /\ role = "server"

(* A program that has exited, after success or after any failure of        *)
(* sqmp_quic_init, sqmp_quic_listen, sqmp_quic_connect or sqmp_stream_open, *)
(* has released everything it opened.                                      *)
NothingLeaks == mpc = "exited" => held = {}

(* A stream handle that no SHUTDOWN_COMPLETE will close: conn_cb had no    *)
(* memory for its stream, or it never started.                             *)
Orphan(c) ==
  /\ StreamHandle(c) \in held
  /\ IF role = "server" THEN Stream(c) \notin held ELSE c \notin started

(* client.c: sqmp_quic_connect, "blocks until it's established or fails",  *)
(* returns; and after a failed handshake, and after sqmp_quic_disconnect   *)
(* however the connection has ended or ends, the program exits, unless     *)
(* sqmp_quic_destroy waits for a stream whose start failed late.           *)
ClientCallsReturn ==
  /\ mpc = "await" ~> mpc \in {"stream", "failed"}
  /\ mpc \in {"failed", "disconnect"} ~>
       (mpc = "exited" \/ (mpc = "regClose" /\ Orphan(own)))

(* sqmp_quic_destroy returns once all connections have ended, unless a     *)
(* stream's handle stays open for want of memory or a late failure.        *)
DestroyReturns ==
  (mpc = "regClose" /\ \A c \in Conns : link[c] \in {"none", "shut"}) ~>
    (mpc = "exited" \/ \E c \in Conns : Orphan(c))
=============================================================================
