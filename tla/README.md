# Squimpchat in TLA+

Squimpchat is a chat server and a terminal client in C. They talk over QUIC
(MsQuic); messages are encrypted from client to client. This directory holds TLA+
models of the parts of the program whose correctness depends on the order in
which threads, callbacks, signals and packets meet, TLC runs that check them on
small instances, and proofs (TLAPS) that hold for instances of any size. Paths
below are relative to the repository's root.

## 1. The system

| Part | Code | State | Operations |
|---|---|---|---|
| Authentication queue | `src/shared/sqmp.c` 9-69 | intrusive list (`g_auth_queue_head`, `_tail`, `session->next`), a mutex, a semaphore | enqueue (any callback thread), dequeue (main) |
| User registry | `src/shared/sqmp.c` 72-254 | array of 64 entries: name, stream, public key | add, remove, find, get_pubkey, send_bye_all, shutdown_connections |
| Server sessions and handlers | `src/server/server.c`, `src/shared/sqmp.c` | one `sqmp_session_t` per connection: state, credentials, `auth_stream`, `auth_queued`, `conn_closed` | connect, stream open and close, disconnect, one handler per packet type |
| Server main loop | `src/server/server.c` 238-323 | `pending`, `ok`, `g_stop` | take a login, verify, register, answer; on a signal say BYE, close, wait, exit |
| Credential check | `src/server/server.c` 31-66 | `users.txt` | look up name and password hash |
| QUIC wrapper | `src/shared/msquic_wrapper.c` | `sqmp_conn_t`, `sqmp_stream_t`, `connect_sem`, `closed_sem` | listener, connection and stream callbacks; connect, disconnect, open, send, destroy |
| Client | `src/client/client.c`, `src/shared/sqmp.c` | session on main's stack, three semaphores, `g_interrupted`, `g_conn_alive`, `key_fetch_result` | connect, hello, log in, read lines, fetch a key, send, leave; callbacks; signal handler |
| Encryption | `src/client/client.c` 255-420 | none | encrypt and decrypt one message |
| User management | `data/sqmp_add_user.c` | `users.txt` | append a user |
| Debug output | `include/debug.h` | none | print |

How they interact. MsQuic's threads call the wrapper's callbacks, which call
`server.c` or `client.c`; the callbacks of one connection run one after the
other, those of different connections in parallel. On the server a callback
hands a session to main through the authentication queue; main changes the
session and the registry while callbacks of the same and of other connections
use them. On the client, callbacks wake main through semaphores and, when the
connection ends or the server says BYE, by `pthread_kill`.

What is hard about it:

- the server's main thread and `on_disconnected` divide the clean-up of a session
  between them by two atomic flags that are read and written in separate steps;
- the registry is locked, the streams it points to are not;
- the name in a session, the state of the session and the registry entry are set
  in three steps;
- both main threads rely on signals to interrupt a wait, and test a flag before it;
- the client's key fetch times out, and the late answer still arrives;
- the server relays messages to a user whose own login answer is still to come;
- QUIC carries a stream of bytes, and the code takes every RECEIVE event for one
  packet;
- a key that was fetched may belong to a login that is over when the message arrives;
- `users.txt` is scanned and appended to without a lock, and the result of the write
  is not looked at;
- the wrapper's structs and MsQuic's handles are opened in a row of calls that may each
  fail, and closed partly by main and partly by callbacks.

What makes each part correct: the queue is first-in first-out and wakes main
exactly once per login; the registry holds each user at most once and only what
that user's connection proved; a session is freed once; the state only goes
forward; success is reported only when earned; every login is answered; a
stopped server exits; the client sends only what the server expects, encrypts
with its recipient's key, leaves when it is interrupted, and does not return
while a callback can still use its stack; a message carries its true sender's name and is
reported as failed only if nobody sees it; only passwords that were added
open an account; packets arrive as they were sent; the wrapper uses only what it holds and
releases all of it.

## 2. Modules

| Module | What it is |
|---|---|
| `Fifo` | abstract specification: what the authentication queue promises |
| `AuthQueue` | the queue with its list, mutex and semaphore, step by step |
| `AuthQueueProofs` | its inductive invariant, and that it implements `Fifo` |
| `Registry` | the functions of the registry as operators on the whole array |
| `RegistryProofs` | lemmas on these operators |
| `Server` | sessions, callbacks, packet handlers, main loop, shutdown; uses `Registry`, and the queue as the sequence `Fifo` says it is |
| `MCServer` | constants, symmetry and view for `Server` |
| `ServerProofs` | its inductive invariant and the theorems that follow; what a client has to do for the queue to work as `Fifo` says |
| `UserStore` | `users.txt`: overlapping runs of `sqmp_add_user`, `verify_credentials`, what the login prompt makes of a name |
| `UserStoreProofs` | its inductive invariants and the theorems that follow |
| `Framing` | packets as bytes on a QUIC stream, and RECEIVE events that cut the stream anywhere |
| `FramingProofs` | which packets can be lost, for any lengths and cuts |
| `Relay`, `MCRelay` | chat messages from sender through the server to the recipient, with symbolic encryption; composes the `Registry` with both ends |
| `RelayProofs` | its inductive invariants; who is shown as sender, which messages cannot be read, what a reported failure means |
| `Wrapper` | what `msquic_wrapper.c` opens and closes, for either program |
| `WrapperProofs` | what is held at each point, the only two ways in which something else is used, and that nothing is left |
| `Client` | the client's main, signals, callbacks and handlers, with the server as its handlers behave towards one client |
| `ClientProofs` | its inductive invariant and the theorems that follow |

### AuthQueue

One action per step that another thread can see: `BeginEnqueue` (the assignment
`session->next = NULL`, which is outside the lock), `LockEnqueue`, `LinkSession`,
`UnlockEnqueue`, `PostEnqueue`; `WaitDequeue` or `InterruptDequeue`,
`LockDequeue`, `TakeHead`, `UnlockDequeue`; `AnswerLogin` is the body of the
server's loop. What happens while the mutex is held is one step, because nobody
else touches the list then; that the mutex is held is checked (`MutexInv`).
`order` is a history variable: the sessions linked and not yet taken.

`client.c` sends AUTH_REQ once and waits for the answer. `sqmp_process_auth_req` does not
ask for that: it enqueues a session in state AUTH as often as AUTH_REQ comes, and so does
`BeginEnqueue`, up to `MaxRepeats` times before the answer. A session that is enqueued
again while it is still in the list cuts the list or closes it to a cycle; the list is then shorter than
the semaphore's count, dequeue returns NULL without a signal, and the server's loop
ends. The properties about the list, the count, the contract of dequeue, `Fifo` and progress
therefore carry the exception `~AskedOnce` (some client has repeated its request), which
is the only one; types and mutual exclusion hold without it.

### Registry

Each C function holds `g_registry_mutex` from its first to its last access, so
each is one operator. A loop that returns at the first hit is the minimum of the
set of hits (`Min` of FiniteSetsExt). `sqmp_registry_add` looks for a free slot
and for the name in one pass: `CanAdd` is when it returns 0, `Add` what it does.

### Server

A connection is named `c`, and so are its session, its only stream and its
client's key (the README: "Each client connection opens a single bidirectional
stream for all traffic"). `phase[c]` is how far MsQuic's events have taken the
connection; `disc...` are the points inside `on_disconnected`, which is cut at
every access to what main uses too: read `auth_queued` (`OnDisconnected`), store
`conn_closed` (`MarkClosed`), read `state` and remove (`RemoveUser`), free
(`FreeSession`). main is cut in the same way: `TestStop`, `Block` or `Dequeue`,
`ClearQueued`, `CheckClosed`, `VerifyCredentials`, `RegisterUser`, `Establish`,
`LoadStream`, `SendAuthResp`, and after the loop `SendByeAll`,
`ShutdownConnections`, `Destroy`. A handler is one action, except
`sqmp_process_chat_send`, which uses the recipient's stream after the registry
is unlocked (`ProcessChatSend`, `ForwardChat`).

Freed memory: the code can use a session or a stream that was freed. The
thread then either goes on with the old contents or the process dies (`Crash`);
the reuse of freed memory for another object is not modelled here (`Relay` has it). `out` is the set of
packets the latest step sent.

`login` is what the client knows. The handlers are those of the code; that a client
does not ask twice at a time, as `client.c` (640-644) does not, is a condition on the clients
(`WaitsForAnswer`, in `PacketEvent`), without which the queue is no longer a sequence (see
`AuthQueue`). Apart from that, clients send any packet at any time.

### Client

main is a program counter, `mpc`, with one action per blocking call, test of a
shared variable or send. `Signal` is Ctrl+C or kill, `KillMain` the
`pthread_kill` of a callback: it sets `g_interrupted` and cuts short only
the call main is blocked in at that moment (`AfterSignal`). For that reason
`sem_wait` has two points, before and in it. Between `StreamClosed`, in which
`stream_cb` frees the stream, and `OnDisconnected`, in which `g_conn_alive` is
cleared, main can still use the stream (`Crash`).

The server's side (`Peer...` actions) answers each packet in order as the
handlers do, may deliver other users' messages once it has registered the user,
and may stop: a user who is logged in is then told BYE, a login in the queue stays
there unanswered (`peer = "unserved"`), on a connection that nobody shuts down. A BYE
that comes between registration and answer may find the session established already; the
answer is then still sent (`"owed"`). The key of user `u` is `u`; a CHAT_SEND carries the key it was
encrypted with. `late` is a history variable: an answer may come, or has come,
that nobody waits for.

### UserStore

A line of `users.txt` is the text before its first `:` and the hash behind it; a name may
itself hold a `:` (`colon`), have exactly the 32 characters that the client's `fgets`
leaves room for (`Full`) or more (`Over`). A run of the utility is two steps, the
scan (`Refuse`, `Accept`) and the append (`Write`), or it gives up between them. `fprintf` and
`fclose` are not checked, so a line may be cut in the name, in the hash or
before the newline; the next line is then glued to it (`AppendBytes`). The
history variables `raced`, `torn` and `fused` remember which names an overlap, a cut
or a glued line touched. `Verify` is `verify_credentials`, `LogIn` what becomes of
a name and a password typed at the client's prompts.

### Framing

`sent` is what was put on each direction's stream, with byte offsets; `read` how
far events have come. `Receive` is one RECEIVE event: `stream_cb` copies it (or has no
memory), `on_stream_recv` drops it if it is shorter than a header and otherwise takes its first
bytes for one packet. If the event begins inside a packet the bytes may look like any
packet. `Stop` is the end of the server's loop, with or without a login in the queue. The two ends are reduced to the order in which they send and
wait. Sizes are those of `include/sqmp.h`.

### Relay

A login is one run of the client; it names its connection and its key pair. A user
may log in again with a new key once the registry has let the old login go. Handlers are
single steps, packets are whole, and each stream is in order; but a packet that comes in the
event of the one before it is lost (`LostAtServer`, `LostAtClient`), as `Framing` shows
from the bytes. The end of a stream (`StreamEnds`, `stream_cb` frees it) and the removal of the
entry (`OnDisconnected`) are two steps, and after an early end the entry may stay for good, as
`server_ghost` shows: between them, or after, the server finds a stream that has been freed.
A message sent there gets lost, or fails, or lands on the stream of a login that was made since and
that may have got the same memory (`ForwardAstray`, `younger`). `log` is a history
of every message typed and of its fate. X25519, SHA-256 and AES-GCM are symbolic: two key
pairs give one secret from either side, and a ciphertext opens with its secret and no other.

### Wrapper

`held` is the set of structs and handles that are allocated or open. Each step names
what it uses, obtains and releases (`Do`); using or releasing what is not held goes on
record in `misused`, with who did it. `sqmp_stream_send` may be called by main and by the
callbacks of any stream for every stream whose address they were given (`opened`), freed or not.
Each call that can fail has its failing branch with exactly the clean-up the
code does there. `role` says which of the programs runs. The contract taken from
MsQuic: a connection reports CONNECTED or that the transport ended it; the
streams of a connection end before it does; SHUTDOWN_COMPLETE is the last event
of a handle, and a stream that was never started, or whose start fails later
(START_COMPLETE), has none; a connection that `listener_cb` refuses MsQuic closes itself; `RegistrationClose`
waits for the connections and streams below it.

## 3. Runs

Twelve runs. A property whose run is marked *refuted* states what a comment
or the documentation says; TLC shows that the code can behave otherwise.

| Run | Instance | Checks |
|---|---|---|
| `auth_queue` | 3 sessions, 1 repeated request | mutual exclusion, and up to the repeat: shape of the list, semaphore = length of the list, NULL only if interrupted, implements `Fifo`, every request is taken |
| `server` | 3 connections, 2 users, 2 slots | types, the queue holds the right sessions, nothing freed twice, unique names, entries belong to whoever earned them, a login lasts, states in order |
| `server_liveness` | 2 connections, 1 user, 2 hashes | AUTH_OK only when earned, logins are answered, a signal outside the wait ends the loop, a stopped server exits |
| `server_ghost` | 2 connections, 2 users | *refuted*: `RegistryHoldsConnected` |
| `server_stream` | 2 connections, 2 users | *refuted*: `FoundStreamIsOpen` |
| `client` | 2 recipients, 2 messages | order of packets, right key unless late, nothing dropped after the login, no callback after exit, interrupts end the chat, logins settle |
| `client_key` | same | *refuted*: `KeyIsRecipients` |
| `client_hang` | same | *refuted*: `DisconnectEndsClient` |
| `user_store` | 3 runs of the utility, 4 texts, 2 passwords | only added passwords open an account, added users can log in, one line per user, verdicts last; each with the exact exceptions |
| `framing` | 1 message out, 2 in, 1 spoilt event | packets are lost only behind a backlog or a cut event, those of the login only behind an early message, logins end |
| `relay` | 3 logins of 2 users, 2 messages | true sender and addressee, unreadable only if stale, failures reported only for messages nobody sees, every message settles |
| `wrapper` | 3 connections, both programs | only what is held is used (with two exceptions), nothing leaks, the client's connect and disconnect return, destroy returns |

Why these bounds. Three sessions give the list a first, a middle and a last
element; one request too many, at any moment, is enough to break the list in each of its ways. Three connections for two users and two slots make two of them compete for a
name while the third logs in or out, fill the registry, and free a slot in front of
a taken name; `server` stops at the first signal (`NotStopped`) and uses the
view `StateView`, which leaves out the packets sent last, because none of its properties reads
them. The shutdown and right and wrong passwords are in `server_liveness`. The
client needs two messages to two recipients: one to give up on and one to go
wrong. Three runs of the utility are two that overlap and one before, between or after
them, on a file that is empty or holds a user; the texts are a usual, a full, an over-long
and a reserved one, each with and without a `:`. In `framing` two incoming messages and the answers
to the client's own make a backlog of three; an event may be cut in a header, right
behind one, or at the end of a packet. A spoilt event and messages from others are tried one
without the other (`OneTrouble`), because either alone already loses packets. In
`relay` the second user logs in twice, so that a key fetched before is stale after, and two
messages are enough for a late answer to be taken for the next; a third exceeds
what TLC can do in minutes. In `wrapper` three connections are in different stages
at once when the server stops. Symmetry is used only in runs without liveness
properties.

What the refuted properties show:

- `server_ghost`: `on_disconnected` read `auth_queued`, main then cleared it and
  found `conn_closed` not yet set (or registered the user after
  `on_disconnected` had looked at the state). The registry keeps an entry of a
  connection that is gone, and that user cannot log in again.
- `server_stream`: the stream of a recipient whose stream has just closed is
  still in the registry and is used after it was freed.
- `client_key`: the answer to an abandoned key fetch is taken for the answer to
  the next one.
- `client_hang`: an interrupt before the wait for `auth_done` leaves main in it.

What the exceptions in the other properties say of the code:

- `NullOnlyIfInterrupted`, `ListShape`, `SemCountsSessions`, `ImplementsFifo`,
  `EveryRequestTaken`: a client that repeats AUTH_REQ before its answer breaks all of
  them, and with them the comment at `src/shared/sqmp.c` 32 ("NULL if interrupted"). `client.c` does not.
- `LoginSettles`, `LoginEnds`, `LoginAnswered`: a server that stops (`src/server/server.c` 279) with a
  login in the queue neither answers it nor shuts its connection down; the client waits
  for AUTH_RESP for ever.
- `LoginPacketsArrive`: a message that another user sends between
  `sqmp_registry_add` and `send_auth_resp` may share an event with AUTH_RESP, which
  is then lost; the client has no timeout there.
- `LossNeedsBacklog`: outside the login nothing prevents that packets wait together, and
  all but the first of an event are lost.
- `UnreadableIsStale`: a message in flight while its addressee logs in anew
  cannot be read; neither side is told. `UnreadableIsStale`, `SenderIsTrue`: a message that the
  server sends to a freed stream may reach the terminal of another login, which cannot read it.
- `EveryMessageSettles`: a message that comes in the event of another packet is lost, and
  nobody is told; so is the error for one.
- `OnlyHeldIsUsed`: whoever has the address of a stream may use it after `stream_cb` has
  freed it, in `sqmp_stream_send` and nowhere else (`Client` and `Server` have this as `Crash`);
  and when `ConnectionSetConfiguration` fails `listener_cb` closes the handle of a connection that it
  also refuses.
- `ClientCallsReturn`: a stream whose start fails only in START_COMPLETE, which `stream_cb` ignores,
  is never closed, and `sqmp_quic_destroy` waits for it.
- `AddedCanLogIn`: a name of 32 characters or more, or with a `:`, is accepted by the utility
  and can never log in. (So is a password of more than 255 characters, which the client's buffer
  cuts; `Passwords` leaves those out.) `OneLinePerUser`: two overlapping runs can add a name twice.
- `DestroyReturns`: without memory for a stream `conn_cb` calls `ConnectionClose` with
  the stream's handle; that handle is never closed and `RegistrationClose` waits for it.
- `StopNoticed`: a signal between the test of `g_stop` and `sem_wait` is lost; the next
  login or signal ends the loop.
- The server answers a client's BYE with nothing; `sqmp_process_bye` of the client
  answers the server's with a BYE.

## 4. Fairness

- `AuthQueue`: a thread that can take a step takes one; a thread that keeps asking
  for the mutex gets it (strong fairness: the mutex is free again and again).
  No fairness for the arrival of AUTH_REQ or of signals.
- `Server`: main runs; callbacks that have begun finish. A connection for which
  `ConnectionShutdown` was called ends its stream eventually, whatever packets
  come in between (strong fairness), and then itself. Clients owe nothing.
- `Client`: main and the MsQuic thread run, the server's handlers answer and its main serves
  the queue unless it has stopped (a stop is always possible), a handshake ends
  one way or the other (MsQuic's handshake timeout), a connection that is being shut
  down ends. The user owes nothing; the network may end the connection at any
  time and need not.
- `Framing`: both mains take the steps of the login, the server's unless it has stopped, and bytes that were sent arrive
  (QUIC is reliable); where an event ends is free.
- `Relay`: the first packet of an event is handled (any packet behind it may be lost), and `send_chat` returns from
  `sem_timedwait`. Nobody needs to log in, log out or type.
- `Wrapper`: main runs unless it waits; handshakes end; sends complete; a connection
  that was asked to end, or has begun to, ends with its streams. Nobody needs to
  connect, stop the server or leave.

## 5. Proofs

For every finite set of sessions (`AuthQueueProofs`):

- `QueueCorrect`: `Spec => []SafeInv`: types and mutual exclusion always hold, and `QueueInv`
  until some client repeats its request. Neither the shape of the list
  nor the count is inductive alone. `OnePlace` adds that a session is either on its
  way in, or in the list, or with main, and that its client is then waiting: this is
  what keeps `session->next = NULL`, written outside the lock, from cutting
  the list. `HandsOver` ties the session main holds to where main is. `QueueTypes`,
  `CriticalSectionsExclude`, `ListIsTheQueue` and `SemaphoreCounts` are its parts.
- `DequeueContract`: main finds the list empty only if it was interrupted or after a client has
  repeated AUTH_REQ, for any number of repeats: there is no other way to break the comment at
  `sqmp.c` 32. The token main took from the semaphore is counted by `SemCountsSessions`, so the
  list has an element for it (lemma `TokenFindsSession`).
- `QueueImplementsFifo`: up to the first repeated request every step is a step of `Fifo` or
  leaves `order` and `got` unchanged.

`RegistryProofs`: what `Add` and `Remove` change and keep, and `LookupsAgree`.

For all sets of connections, users and hashes, every `users.txt` and every size of
the registry (`ServerProofs`): `ServerCorrect`, `Spec => []ServerInv`, from which
`ServerTypes`, `OneLoginPerUser`, `EntriesAreEarned`, `LoginLasts`,
`QueuedSessionsWait` and `NoDoubleFree` follow, and the action property
`StatesGoForward`. `ServerInv` is the conjunction of the properties with

- `SessionInv`: what a session looks like in each phase of its connection; in
  particular, `conn_closed` is set only once the connection is over, a session that is
  queued is not being freed by `on_disconnected`, and a logged-in session has the
  name it asked for and proved. Without it `RemoveUser` could remove
  another user's entry.
- `MainInv`: the login main works on is not in the queue, its client waits for the
  answer, it is in state AUTH until `Establish`, and between `RegisterUser` and
  `Establish` its entry is in the registry. Without it `EntryHasOwner` would break
  at `RegisterUser` and `StatesInOrder` at `Establish`.

Each conjunct has a lemma with one step per action that can disturb it and a
frame lemma for the others.

`SuccessIsEarned`, `Spec => AuthOkIsEarned`, needs `VerdictInv` besides: while main is
between `Establish` and the answer, `ok` says that the credentials of its session are
listed and that the session is established, or already closing after a BYE. A session's credentials can change only when its client asks
again, and by `MainInv` that client waits.

`AnswersLeaveTheQueue`: a client that is not waiting for an answer has its session neither
in the queue nor with main. The handler alone does not ensure that no session is enqueued
twice: it would enqueue a session again in state AUTH. The theorem says that a client which waits
for AUTH_RESP, as `client.c` does, never asks while its session is still queued, in whatever order
callbacks and main run. Together with `QueueImplementsFifo` this is why `Server` may treat the
queue as a sequence (lemma `WaitingClientsUseFifo`), for such clients only.

For all texts, passwords and numbers of overlapping runs of the utility
(`UserStoreProofs`): `StoreCorrect`, and from it `StoreTypes` and `AcceptedWasAdded`,
`Spec => []OnlyAddedLogIn`. What the server accepts depends only on the first line with a
name, and a line may change after it was written, when another is glued to it. The
invariant therefore speaks of every line (`EarnedLines`: a line with a
proper hash was added under that name, or the name is fused), and needs
`HasOpenLine` (a file that ends without a newline has a last line).
`NamesAreUnique` and `AdditionsCount` need more, because the scan and the append are
two steps: `StoreInv` adds what a run that is about to append still knows from its scan
(`Scanned`: a plain name has no line, unless `raced` or `fused` has it on record), and which
additions verify (`AddedVerify`). `AcceptedStaysAccepted` is the action property
`VerdictsLast`: an append changes no line but an open last one.

For any recipients and any number of lines (`ClientProofs`): `ClientCorrect`,
`Spec => []ClientInv`, with `ClientTypes`, `PacketsAreExpected`, `KeysMatch`,
`DropsAreEarly` and `ExitIsQuiet`. main is woken by semaphores that several callbacks
post, so none of the properties is inductive by itself. `SessionInv` relates the point
main is at, the client's session state and the server's; `SentInv` and `AnsweredInv`
say which packets can be on the two streams then, `PendingInv` which answers are still owed;
`FetchInv` follows a key fetch: while nothing is late, the posts of `key_fetch_sem`, the answer
under way and the one the server owes are together at most one, and it is about the
recipient main waits for. `ConnInv` ties the connection to its events, which is what makes the exit quiet.

For any logins, users, messages and registry size (`RelayProofs`): `RelayCorrect`,
`SendersAreTrue`, `UnreadableAreStale`, `FatesCorrect`, `FailedAreUnseen`. `RelayInv` ties every packet in
flight, on either stream, and every key that was fetched to the entry of `log` it is about: its sender, its
addressee, the login whose key it was made with. A forwarded message is in the stream of the login the
registry named at that moment, which may be another login of the user than the key's, or has gone
astray to a stream in freed memory; `UnreadableIsStale` is what remains of that. `FateInv` counts
packets: a message has at most one under way, of the type its fate says, and none once its fate is settled.
It is what makes a reported failure (`FailedIsUnseen`) trustworthy: the handler answers with
COULD_NOT_SEND or sends the message on, never both, and nothing of a message is left when `send_chat` gives it up.

For any number of connections and both programs (`WrapperProofs`): `HeldCorrect`,
`NoUseAfterRelease`, `EverythingIsReleased`. `HeldInv` says for each context, handle and struct at which
points of main and in which stages of its connection it is held, after every
combination of failed calls, and what `misused` may hold. That sends on freed streams are possible
is part of the model; `NoUseAfterRelease` is that they, and the refused connection, are all there is. `NothingLeaks` alone is not inductive: it is the case of `HeldInv`
in which main has exited.

For any length of the ciphertext and any number of messages and cuts (`FramingProofs`):
`FramingCorrect`, `LossHasCause`, `LoginPacketsSafe`. `StreamInv` is about each direction by
itself: packets lie one behind the other, and as long as no event was spoilt the next event begins with a
packet (`Boundary`) and a packet that was sent when nothing was under way is either
handled or the next to be read (`Met`). That gives `LossNeedsBacklog`. `LoginInv` follows the login: what the
client can have sent at each point of main (`UpInv`), what the server can have sent in
each state (`DownInv`), and how far the other side has read then (`StepInv`). HELLO, HELLO_ACK and AUTH_REQ are
each sent when everything before them has been read; AUTH_RESP is too, unless a
CHAT_DELIVER was sent while the server was between `sqmp_registry_add` and `send_auth_resp`.

The assumptions are those the modules name: `SessionsAssumption`,
`MaxRepeatsAssumption`, `RegistryMaxAssumption`, `ServerAssumption`, `StoreAssumption`, `ClientAssumption`, `RelayAssumption`,
`WrapperAssumption` and `FramingAssumption`; they say that the set of
sessions is finite, that the null pointer is not one of the values, that the marks for
a missing name and a field of the wrong length are no text and no password, and that every
login has a user, that there is a connection, that a ciphertext is longer than its tag, and that the bounds are numbers.

Only model-checked: the liveness properties (`EveryRequestTaken`, `LoginAnswered`,
`StopNoticed`, `StopCompletes`, `InterruptLeavesChat`, `LoginSettles`, `LoginEnds`,
`EveryMessageSettles`, `ClientCallsReturn`, `DestroyReturns`), which rest on fairness and are
out of the prover's reach, and the four properties that TLC refutes. Every
other property of the runs is a theorem.

## 6. Not modelled

- MsQuic and TLS (external; their contract is in `Wrapper`), debug output, command lines,
  ports and file names, session ids.
- The bytes inside a packet: `Framing` has the sizes, the other modules the meaning. The
  `flags` of the header and CHAT_ACK are declared in `include/sqmp.h` and never used.
- Cryptography beyond which secret a message is made with; OpenSSL's calls fail or
  succeed.
- Lines of `users.txt` longer than the 256 bytes that `fgets` reads at once.
- Code that no program calls: `sqmp_stream_close`, `sqmp_stream_send_done`,
  `on_stream_peer_send_done`, the weak default handlers of `sqmp.c`.
- Failing allocations in `Server` and `Client`, except where they look like another failure
  that is modelled; `Wrapper`, `Framing` and `Relay` have them.
- More than one stream of a connection at a time; reuse of freed memory, except that in `Relay` a
  freed stream may have become a younger login's.
- Packets lost in `Server` and `Client`, whose streams deliver every packet: `Framing` and `Relay` have
  the losses, and the liveness properties of `Client` name what depends on them.

## 7. Plan

Done: all components but the ones above are modelled and checked; every module has an
inductive invariant that is proved, and every safety property of the passing runs is a theorem.
Left:

1. The safety half of liveness: in which states main can be blocked and what is then under way
   (for instance that a blocked server main with a non-empty queue can always go on).
2. That `Relay`'s handlers do to the registry what `Server`'s do, as a refinement of a common
   abstract registry of logins.
3. `Server` with clients that repeat AUTH_REQ, for which the queue would have to be the list of
   `AuthQueue`.
4. That the packet order of `Framing`'s two ends is the one of `Client`.
