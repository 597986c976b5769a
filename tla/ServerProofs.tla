---------------------------- MODULE ServerProofs ----------------------------
(***************************************************************************)
(* The invariants of the server hold for any number of connections, users  *)
(* and registry entries.  ServerInv is inductive; each of its parts has a  *)
(* lemma with one step for every action that can disturb it.               *)
(***************************************************************************)
EXTENDS Server, RegistryProofs, SequenceTheorems

(* The entries of the registry. *)
LEMMA EntryFields ==
  ASSUME NEW e \in Entries(Users, Conns, Conns)
  PROVE  /\ e.in_use \in BOOLEAN
         /\ e.in_use => /\ e.username \in Users
                        /\ e.stream \in Conns \cup {NULL}
                        /\ e.public_key \in Conns
         /\ ~e.in_use => e = FreeEntry
<1>1. CASE e = FreeEntry
  BY <1>1 DEF FreeEntry
<1>2. CASE e # FreeEntry
  <2>1. PICK u \in Users, s \in Conns \cup {NULL}, k \in Conns : e = Entry(u, s, k)
    BY <1>2 DEF Entries
  <2> QED
    BY <2>1 DEF Entry
<1> QED
  BY <1>1, <1>2

LEMMA EntryFieldsOf ==
  ASSUME NEW u, NEW s, NEW k
  PROVE  /\ Entry(u, s, k).in_use = TRUE
         /\ Entry(u, s, k).username = u
         /\ Entry(u, s, k).stream = s
         /\ Entry(u, s, k).public_key = k
         /\ FreeEntry.in_use = FALSE
BY DEF Entry, FreeEntry

(* The operations on the registry stay within its type. *)
LEMMA RegistryTypes ==
  ASSUME TypeOK
  PROVE  /\ \A u \in Users, s \in Conns \cup {NULL}, k \in Conns :
              CanAdd(registry, u) =>
                Add(registry, u, s, k) \in [Slots -> Entries(Users, Conns, Conns)]
         /\ \A u : Remove(registry, u) \in [Slots -> Entries(Users, Conns, Conns)]
         /\ \A u : Find(registry, u) \in Conns \cup {NULL}
         /\ \A u : GetPubkey(registry, u) \in Conns \cup {NULL}
         /\ Reachable(registry) \subseteq Conns
<1>0. registry \in [Slots -> Entries(Users, Conns, Conns)]
  BY DEF TypeOK
<1>1. ASSUME NEW u \in Users, NEW s \in Conns \cup {NULL}, NEW k \in Conns,
             CanAdd(registry, u)
      PROVE  Add(registry, u, s, k) \in [Slots -> Entries(Users, Conns, Conns)]
  <2>1. Entry(u, s, k) \in Entries(Users, Conns, Conns)
    BY DEF Entries
  <2> QED
    BY <1>0, <1>1, <2>1, AddFillsFreeEntry
<1>2. ASSUME NEW u
      PROVE  Remove(registry, u) \in [Slots -> Entries(Users, Conns, Conns)]
  <2>1. FreeEntry \in Entries(Users, Conns, Conns)
    BY DEF Entries
  <2>2. CASE Matches(registry, u) = {}
    BY <1>0, <2>2 DEF Remove
  <2>3. CASE Matches(registry, u) # {}
    BY <1>0, <2>1, <2>3, RemoveClearsEntry
  <2> QED
    BY <2>2, <2>3
<1>3. ASSUME NEW u
      PROVE  /\ Find(registry, u) \in Conns \cup {NULL}
             /\ GetPubkey(registry, u) \in Conns \cup {NULL}
  <2>1. CASE Matches(registry, u) = {}
    BY <2>1 DEF Find, GetPubkey
  <2>2. CASE Matches(registry, u) # {}
    <3>1. Min(Matches(registry, u)) \in Matches(registry, u)
      BY <2>2, MinIsHit DEF Matches
    <3>2. /\ registry[Min(Matches(registry, u))] \in Entries(Users, Conns, Conns)
          /\ registry[Min(Matches(registry, u))].in_use
      BY <1>0, <3>1 DEF Matches
    <3> QED
      BY <2>2, <3>2, EntryFields DEF Find, GetPubkey
  <2> QED
    BY <2>1, <2>2
<1>4. Reachable(registry) \subseteq Conns
  BY <1>0, EntryFields DEF Reachable
<1> QED
  BY <1>1, <1>2, <1>3, <1>4

LEMMA PacketTypesOK ==
  ASSUME NEW c \in Conns
  PROVE  /\ \A t \in PacketTypes : Packet(c, t) \in Packets
         /\ \A k \in Conns : KeyPacket(c, k) \in Packets
BY DEF Packet, KeyPacket, Packets, PacketTypes

-----------------------------------------------------------------------------
LEMMA InitTypeOK == Init => TypeOK
<1> SUFFICES ASSUME Init PROVE TypeOK
  OBVIOUS
<1>1. registry \in [Slots -> Entries(Users, Conns, Conns)]
  BY DEF Init, EmptyRegistry, Entries
<1>2. queue \in Seq(Conns)
  BY EmptySeq DEF Init
<1>3. ok \in BOOLEAN /\ g_stop \in BOOLEAN /\ crashed \in BOOLEAN
  BY DEF Init
<1>4. auth_queued \in [Conns -> BOOLEAN] /\ conn_closed \in [Conns -> BOOLEAN]
  BY DEF Init
<1>5. state \in [Conns -> CLOSED .. CLOSING]
  BY DEF Init, CLOSED, CLOSING
<1> QED
  BY <1>1, <1>2, <1>3, <1>4, <1>5 DEF Init, TypeOK, Phases, MainPc

LEMMA ConnectionEventTypeOK ==
  ASSUME TypeOK, NEW c \in Conns, ConnectionEvent(c)
  PROVE  TypeOK'
<1>1. CASE NewConnection(c) \/ HandshakeFails(c) \/ OnStreamOpen(c) \/ OnDisconnected(c)
  BY <1>1 DEF TypeOK, NewConnection, HandshakeFails, OnStreamOpen, OnDisconnected,
              To, Phases, session, main
<1>2. CASE OnConnected(c)
  BY <1>2 DEF TypeOK, OnConnected, To, Phases, main, HELLO, CLOSED, CLOSING
<1>3. CASE OnStreamClosed(c)
  BY <1>3 DEF TypeOK, OnStreamClosed, To, Phases, main
<1>4. CASE MarkClosed(c)
  BY <1>4 DEF TypeOK, MarkClosed, To, Phases, main
<1>5. CASE RemoveUser(c)
  BY <1>5, RegistryTypes DEF TypeOK, RemoveUser, To, Phases, main, session
<1>6. CASE FreeSession(c)
  BY <1>6 DEF TypeOK, FreeSession, To, Phases, main
<1> QED
  BY <1>1, <1>2, <1>3, <1>4, <1>5, <1>6 DEF ConnectionEvent

LEMMA PacketEventTypeOK ==
  ASSUME TypeOK, NEW c \in Conns, PacketEvent(c)
  PROVE  TypeOK'
<1>1. ASSUME NEW b \in BOOLEAN, ProcessHello(c, b) PROVE TypeOK'
  <2>1. out' \in SUBSET Packets
    BY <1>1, PacketTypesOK DEF ProcessHello, PacketTypes
  <2>2. state' \in [Conns -> CLOSED .. CLOSING]
    BY <1>1 DEF TypeOK, ProcessHello, AUTH, CLOSED, CLOSING
  <2> QED
    BY <1>1, <2>1, <2>2 DEF TypeOK, ProcessHello, main
<1>2. ASSUME NEW u \in Users, NEW h \in Hashes, ProcessAuthReq(c, u, h) PROVE TypeOK'
  <2>1. CASE state[c] # AUTH
    BY <1>2, <2>1, PacketTypesOK DEF TypeOK, ProcessAuthReq, PacketTypes, main
  <2>2. CASE state[c] = AUTH
    <3>0. /\ auth' = [auth EXCEPT ![c] = [user |-> u, hash |-> h]]
          /\ auth_stream' = [auth_stream EXCEPT ![c] = c]
          /\ auth_queued' = [auth_queued EXCEPT ![c] = TRUE]
          /\ queue' = Append(queue, c)
          /\ login' = [login EXCEPT ![c] = "asked"]
          /\ out' = {}
          /\ UNCHANGED <<phase, mem, state, conn_closed, username, chat, closing,
                         registry, mpc, pending, ok, g_stop, crashed>>
      BY <1>2, <2>2 DEF ProcessAuthReq, main
    <3>1. auth' \in [Conns -> Credentials \cup {NoCredentials}]
      <4>1. [user |-> u, hash |-> h] \in Credentials
        BY DEF Credentials
      <4>2. auth \in [Conns -> Credentials \cup {NoCredentials}]
        BY DEF TypeOK
      <4> QED
        BY <3>0, <4>1, <4>2
    <3>2. queue' \in Seq(Conns)
      <4>1. queue \in Seq(Conns)
        BY DEF TypeOK
      <4> QED
        BY <3>0, <4>1, AppendProperties
    <3> QED
      BY <3>0, <3>1, <3>2 DEF TypeOK
  <2> QED
    BY <2>1, <2>2
<1>3. ASSUME NEW u \in Users, ProcessKeyReq(c, u) PROVE TypeOK'
  <2>1. KeyAnswer(c, u) \in Packets
    BY PacketTypesOK, RegistryTypes DEF KeyAnswer, PacketTypes
  <2> QED
    BY <1>3, <2>1 DEF TypeOK, ProcessKeyReq, session, main
<1>4. ASSUME NEW u \in Users, ProcessChatSend(c, u) PROVE TypeOK'
  <2>1. out' \in SUBSET Packets
    BY <1>4, PacketTypesOK DEF ProcessChatSend, PacketTypes
  <2>2. chat' \in [Conns -> Conns \cup {NULL}]
    <3>1. chat \in [Conns -> Conns \cup {NULL}]
      BY DEF TypeOK
    <3>2. Find(registry, u) \in Conns \cup {NULL}
      BY RegistryTypes
    <3>3. chat' \in {chat, [chat EXCEPT ![c] = Find(registry, u)]}
      BY <1>4 DEF ProcessChatSend
    <3> QED
      BY <3>1, <3>2, <3>3
  <2> QED
    BY <1>4, <2>1, <2>2 DEF TypeOK, ProcessChatSend, session, main
<1>5. CASE ForwardChat(c)
  <2>1. out' \in SUBSET Packets
    BY <1>5, PacketTypesOK DEF TypeOK, ForwardChat, PacketTypes
  <2> QED
    BY <1>5, <2>1 DEF TypeOK, ForwardChat, session, main
<1>6. CASE ProcessBye(c)
  <2>1. state' \in [Conns -> CLOSED .. CLOSING]
    <3>1. state' \in {state, [state EXCEPT ![c] = CLOSING]}
      BY <1>6 DEF ProcessBye
    <3>2. state \in [Conns -> CLOSED .. CLOSING] /\ CLOSING \in CLOSED .. CLOSING
      BY DEF TypeOK, CLOSED, CLOSING
    <3>3. [state EXCEPT ![c] = CLOSING] \in [Conns -> CLOSED .. CLOSING]
      BY <3>2
    <3> QED
      BY <3>1, <3>2, <3>3
  <2>2. registry' \in [Slots -> Entries(Users, Conns, Conns)]
    <3>1. registry' \in {registry, Remove(registry, username[c])}
      BY <1>6 DEF ProcessBye
    <3> QED
      BY <3>1, RegistryTypes DEF TypeOK
  <2> QED
    BY <1>6, <2>1, <2>2 DEF TypeOK, ProcessBye, main
<1>7. CASE IgnorePacket(c)
  BY <1>7 DEF TypeOK, IgnorePacket, session, main
<1> QED
  BY <1>1, <1>2, <1>3, <1>4, <1>5, <1>6, <1>7 DEF PacketEvent

LEMMA MainStepTypeOK ==
  ASSUME TypeOK, MainInv, MainStep
  PROVE  TypeOK'
<1>0. mpc \in Working => pending \in Conns
  BY DEF MainInv
<1>1. CASE TestStop \/ Block \/ Destroy
  BY <1>1 DEF TypeOK, TestStop, Block, Destroy, MainPc, session
<1>2. CASE Dequeue
  <2>1. Head(queue) \in Conns /\ Tail(queue) \in Seq(Conns)
    BY <1>2, HeadTailProperties DEF TypeOK, Dequeue
  <2> QED
    BY <1>2, <2>1 DEF TypeOK, Dequeue, MainPc, session
<1>3. CASE ClearQueued
  BY <1>3 DEF TypeOK, ClearQueued, MainPc
<1>4. CASE CheckClosed
  BY <1>4 DEF TypeOK, CheckClosed, MainPc
<1>5. CASE VerifyCredentials
  <2>1. ok' \in BOOLEAN
    BY <1>5 DEF VerifyCredentials, Listed
  <2> QED
    BY <1>5, <2>1 DEF TypeOK, VerifyCredentials, MainPc, session
<1>6. CASE RegisterUser
  <2>1. /\ pending \in Conns
        /\ auth[pending].user \in Users
        /\ auth_stream[pending] \in Conns \cup {NULL}
    BY <1>0, <1>6 DEF TypeOK, MainInv, RegisterUser, At, Working, Credentials
  <2>2. registry' \in [Slots -> Entries(Users, Conns, Conns)]
    <3>1. CASE CanAdd(registry, auth[pending].user)
      <4>1. registry' = Add(registry, auth[pending].user, auth_stream[pending], pending)
        BY <1>6, <3>1 DEF RegisterUser
      <4> QED
        BY <2>1, <3>1, <4>1, RegistryTypes
    <3>2. CASE ~CanAdd(registry, auth[pending].user)
      BY <1>6, <3>2 DEF TypeOK, RegisterUser
    <3> QED
      BY <3>1, <3>2
  <2> QED
    BY <1>6, <2>2 DEF TypeOK, RegisterUser, MainPc, session
<1>7. CASE Establish
  <2>1. pending \in Conns /\ auth[pending].user \in Users
    BY <1>0, <1>7 DEF TypeOK, MainInv, Establish, At, Working, Credentials
  <2>2. state' \in [Conns -> CLOSED .. CLOSING]
    BY <1>7, <2>1 DEF TypeOK, Establish, ESTABLISHED, CLOSED, CLOSING
  <2> QED
    BY <1>7, <2>1, <2>2 DEF TypeOK, Establish, MainPc
<1>8. CASE LoadStream
  BY <1>8 DEF TypeOK, LoadStream, MainPc, session
<1>9. CASE SendAuthResp
  <2>1. pending \in Conns
    BY <1>0, <1>9 DEF SendAuthResp, At, Working
  <2>2. out' \in SUBSET Packets
    BY <1>9, <2>1, PacketTypesOK DEF SendAuthResp, PacketTypes
  <2> QED
    BY <1>9, <2>1, <2>2 DEF TypeOK, SendAuthResp, MainPc, session
<1>10. CASE SendByeAll
  <2>1. out' \in SUBSET Packets
    BY <1>10, PacketTypesOK, RegistryTypes DEF SendByeAll, PacketTypes
  <2> QED
    BY <1>10, <2>1 DEF TypeOK, SendByeAll, MainPc, session
<1>11. CASE ShutdownConnections
  BY <1>11, RegistryTypes DEF TypeOK, ShutdownConnections, MainPc, session
<1> QED
  BY <1>1, <1>2, <1>3, <1>4, <1>5, <1>6, <1>7, <1>8, <1>9, <1>10, <1>11 DEF MainStep

LEMMA NextTypeOK ==
  ASSUME TypeOK, MainInv, [Next]_vars
  PROVE  TypeOK'
<1>1. CASE Signal
  BY <1>1 DEF TypeOK, Signal, MainPc, session
<1>2. CASE Crash
  BY <1>2 DEF TypeOK, Crash, session, main
<1>3. CASE Ended \/ UNCHANGED vars
  BY <1>3 DEF TypeOK, Ended, vars, session, main
<1> QED
  BY <1>1, <1>2, <1>3, ConnectionEventTypeOK, PacketEventTypeOK, MainStepTypeOK DEF Next

-----------------------------------------------------------------------------
(* The registry: only RegisterUser, RemoveUser and ProcessBye change it. *)
LEMMA RegistryFrame ==
  ASSUME [Next]_vars
  PROVE  \/ UNCHANGED registry
         \/ RegisterUser
         \/ \E c \in Conns : RemoveUser(c) \/ ProcessBye(c)
<1>1. CASE \E c \in Conns : ConnectionEvent(c)
  BY <1>1 DEF ConnectionEvent, NewConnection, HandshakeFails, OnConnected, OnStreamOpen,
              OnStreamClosed, OnDisconnected, MarkClosed, FreeSession
<1>2. CASE \E c \in Conns : PacketEvent(c)
  BY <1>2 DEF PacketEvent, ProcessHello, ProcessAuthReq, ProcessKeyReq, ProcessChatSend,
              ForwardChat, IgnorePacket
<1>3. CASE MainStep
  BY <1>3 DEF MainStep, TestStop, Block, Dequeue, ClearQueued, CheckClosed,
              VerifyCredentials, Establish, LoadStream, SendAuthResp, SendByeAll,
              ShutdownConnections, Destroy
<1>4. CASE Signal \/ Crash \/ Ended \/ UNCHANGED vars
  BY <1>4 DEF Signal, Crash, Ended, vars
<1> QED
  BY <1>1, <1>2, <1>3, <1>4 DEF Next

LEMMA NextRegistryUnique ==
  ASSUME TypeOK, RegistryUnique, [Next]_vars
  PROVE  RegistryUnique'
<1>0. registry \in [Slots -> Entries(Users, Conns, Conns)] /\ UniqueNames(registry)
  BY DEF TypeOK, RegistryUnique
<1>1. CASE UNCHANGED registry
  BY <1>0, <1>1 DEF RegistryUnique, UniqueNames
<1>2. CASE RegisterUser
  <2>1. CASE CanAdd(registry, auth[pending].user)
    <3>1. registry' = Add(registry, auth[pending].user, auth_stream[pending], pending)
      BY <1>2, <2>1 DEF RegisterUser
    <3>2. UniqueNames(Add(registry, auth[pending].user, auth_stream[pending], pending))
      BY <1>0, <2>1, AddKeepsUnique
    <3> QED
      BY <3>1, <3>2 DEF RegistryUnique, UniqueNames
  <2>2. CASE ~CanAdd(registry, auth[pending].user)
    BY <1>0, <1>2, <2>2 DEF RegisterUser, RegistryUnique, UniqueNames
  <2> QED
    BY <2>1, <2>2
<1>3. ASSUME NEW c \in Conns, RemoveUser(c) \/ ProcessBye(c) PROVE RegistryUnique'
  <2>1. registry' \in {registry, Remove(registry, username[c])}
    BY <1>3 DEF RemoveUser, ProcessBye
  <2>2. UniqueNames(Remove(registry, username[c]))
    BY <1>0, RemoveKeepsUnique
  <2> QED
    BY <1>0, <2>1, <2>2 DEF RegistryUnique, UniqueNames
<1> QED
  BY <1>1, <1>2, <1>3, RegistryFrame

(* A session that logs out takes its own entry: the entry of every other   *)
(* owner stays.                                                            *)
LEMMA OthersKeepEntry ==
  ASSUME TypeOK, RegistryUnique, EstablishedOwnsEntry, SessionInv,
         NEW c \in Conns, NEW d \in Conns, c # d,
         state[d] = ESTABLISHED, phase[d] \in {"open", "discState"},
         NEW i \in Slots, OwnsEntry(c, registry[i])
  PROVE  Remove(registry, username[d])[i] = registry[i]
<1>1. PICK j \in Slots : OwnsEntry(d, registry[j])
  BY DEF EstablishedOwnsEntry
<1>2. registry[j].username = username[d] /\ registry[j].public_key = d /\ registry[j].in_use
  BY <1>1 DEF OwnsEntry, SessionInv
<1>3. registry[i].public_key = c
  BY DEF OwnsEntry
<1>4. ~(registry[i].in_use /\ registry[i].username = username[d])
  BY <1>2, <1>3 DEF RegistryUnique, UniqueNames
<1>5. registry \in [Slots -> Entries(Users, Conns, Conns)] /\ UniqueNames(registry)
  BY DEF TypeOK, RegistryUnique
<1> QED
  BY <1>4, <1>5, RemoveEffect

(* An entry that is left after a removal was there before, with a different name. *)
LEMMA RemoveLeaves ==
  ASSUME TypeOK, RegistryUnique, NEW u, NEW i \in Slots, Remove(registry, u)[i].in_use
  PROVE  /\ Remove(registry, u)[i] = registry[i]
         /\ registry[i].username # u
<1>1. registry \in [Slots -> Entries(Users, Conns, Conns)] /\ UniqueNames(registry)
  BY DEF TypeOK, RegistryUnique
<1>2. FreeEntry.in_use = FALSE
  BY DEF FreeEntry
<1>3. Remove(registry, u)[i] =
        IF registry[i].in_use /\ registry[i].username = u THEN FreeEntry ELSE registry[i]
  BY <1>1, RemoveEffect
<1> QED
  BY <1>2, <1>3

(* The entry that RegisterUser makes. *)
LEMMA RegisteredEntry ==
  ASSUME TypeOK, MainInv, RegisterUser, CanAdd(registry, auth[pending].user)
  PROVE  \E k \in Slots :
           /\ ~registry[k].in_use
           /\ registry' = [registry EXCEPT ![k] =
                Entry(auth[pending].user, auth_stream[pending], pending)]
<1>1. registry' = Add(registry, auth[pending].user, auth_stream[pending], pending)
  BY DEF RegisterUser
<1>2. PICK k \in Free(registry) :
        Add(registry, auth[pending].user, auth_stream[pending], pending) =
          [registry EXCEPT ![k] = Entry(auth[pending].user, auth_stream[pending], pending)]
  BY AddFillsFreeEntry
<1>3. k \in Slots /\ ~registry[k].in_use
  BY DEF Free
<1> QED
  BY <1>1, <1>2, <1>3

-----------------------------------------------------------------------------
(* Entries have owners.                                                    *)
LEMMA OwnerFrame ==
  ASSUME [Next]_vars
  PROVE  \/ /\ UNCHANGED <<registry, auth, state>>
            /\ mpc = "establish" => UNCHANGED <<mpc, pending>>
         \/ RegisterUser \/ Establish
         \/ \E c \in Conns :
              \/ OnConnected(c) \/ RemoveUser(c) \/ ProcessBye(c)
              \/ \E b \in BOOLEAN : ProcessHello(c, b)
              \/ \E u \in Users, h \in Hashes : WaitsForAnswer(c) /\ ProcessAuthReq(c, u, h)
<1>1. CASE \E c \in Conns : ConnectionEvent(c)
  BY <1>1 DEF ConnectionEvent, NewConnection, HandshakeFails, OnStreamOpen,
              OnStreamClosed, OnDisconnected, MarkClosed, FreeSession, main, session
<1>2. CASE \E c \in Conns : PacketEvent(c)
  BY <1>2 DEF PacketEvent, ProcessKeyReq, ProcessChatSend, ForwardChat, IgnorePacket,
              main, session
<1>3. CASE MainStep
  BY <1>3 DEF MainStep, TestStop, Block, Dequeue, ClearQueued, CheckClosed,
              VerifyCredentials, LoadStream, SendAuthResp, SendByeAll,
              ShutdownConnections, Destroy, At, session
<1>4. CASE Signal \/ Crash \/ Ended \/ UNCHANGED vars
  BY <1>4 DEF Signal, Crash, Ended, vars, main, session
<1> QED
  BY <1>1, <1>2, <1>3, <1>4 DEF Next

LEMMA NextEntryHasOwner ==
  ASSUME ServerInv, [Next]_vars
  PROVE  EntryHasOwner'
<1>0. /\ TypeOK /\ RegistryUnique /\ EntryHasOwner /\ SessionInv /\ MainInv
      /\ registry \in [Slots -> Entries(Users, Conns, Conns)]
      /\ state \in [Conns -> CLOSED .. CLOSING]
      /\ auth \in [Conns -> Credentials \cup {NoCredentials}]
  BY DEF ServerInv, TypeOK
<1> USE <1>0 DEF EntryHasOwner, OwnsEntry
<1> DEFINE Owner(i) == registry[i].public_key
<1>a. ASSUME NEW i \in Slots, registry[i].in_use
      PROVE  /\ Owner(i) \in Conns
             /\ \/ state[Owner(i)] = ESTABLISHED
                \/ mpc = "establish" /\ pending = Owner(i) /\ state[Owner(i)] = AUTH
                   /\ login[Owner(i)] = "asked"
  BY <1>a, EntryFields DEF MainInv, Working
<1>1. CASE /\ UNCHANGED <<registry, auth, state>>
           /\ mpc = "establish" => UNCHANGED <<mpc, pending>>
  BY <1>1 DEF Listed
<1>2. CASE RegisterUser
  <2>1. /\ mpc = "register" /\ pending \in Conns /\ Listed(auth[pending])
        /\ auth_stream[pending] \in {pending, NULL}
        /\ UNCHANGED <<auth, state, pending>>
    BY <1>2 DEF RegisterUser, At, MainInv, Working, SessionInv, session
  <2>2. CASE CanAdd(registry, auth[pending].user)
    <3>1. PICK k \in Slots :
            /\ ~registry[k].in_use
            /\ registry' = [registry EXCEPT ![k] =
                 Entry(auth[pending].user, auth_stream[pending], pending)]
      BY <1>2, <2>2, RegisteredEntry
    <3>2. mpc' = "establish"
      BY <1>2, <2>2 DEF RegisterUser
    <3>3. ASSUME NEW i \in Slots, i # k, registry'[i].in_use
          PROVE  /\ OwnsEntry(registry[i].public_key, registry[i])'
                 /\ state'[registry'[i].public_key] = ESTABLISHED
      BY <2>1, <3>1, <3>3 DEF Listed
    <3>4. registry'[k] = Entry(auth[pending].user, auth_stream[pending], pending)
      BY <3>1
    <3>5. OwnsEntry(pending, registry[k])'
      BY <2>1, <3>4 DEF Entry, Listed
    <3>6. registry'[k].public_key = pending
      BY <3>4 DEF Entry
    <3> QED
      BY <2>1, <3>2, <3>3, <3>5, <3>6
  <2>3. CASE ~CanAdd(registry, auth[pending].user)
    <3>1. UNCHANGED registry
      BY <1>2, <2>3 DEF RegisterUser
    <3> QED
      BY <2>1, <3>1 DEF Listed
  <2> QED
    BY <2>2, <2>3
<1>3. CASE Establish
  <2>1. /\ mpc = "establish" /\ pending \in Conns
        /\ UNCHANGED <<registry, auth>>
        /\ state' = [state EXCEPT ![pending] = ESTABLISHED]
    BY <1>3 DEF Establish, At, MainInv, Working
  <2> QED
    BY <1>a, <2>1 DEF Listed
<1>4. ASSUME NEW d \in Conns, OnConnected(d) \/ \E b \in BOOLEAN : ProcessHello(d, b)
      PROVE  EntryHasOwner'
  <2>1. state[d] \in {CLOSED, HELLO} \/ state' = state
    BY <1>4 DEF OnConnected, ProcessHello, SessionInv, In
  <2>2. \A c \in Conns : c # d => state'[c] = state[c]
    BY <1>4 DEF OnConnected, ProcessHello
  <2>3. UNCHANGED <<registry, auth, mpc, pending>>
    BY <1>4 DEF OnConnected, ProcessHello, main
  <2>4. \A i \in Slots : registry[i].in_use => state'[Owner(i)] = state[Owner(i)]
    BY <1>a, <2>1, <2>2 DEF CLOSED, HELLO, AUTH, ESTABLISHED
  <2> QED
    BY <2>3, <2>4 DEF Listed
<1>5. ASSUME NEW d \in Conns, NEW u \in Users, NEW h \in Hashes, WaitsForAnswer(d),
             ProcessAuthReq(d, u, h)
      PROVE  EntryHasOwner'
  <2>1. UNCHANGED <<registry, state, mpc, pending>>
    BY <1>5 DEF ProcessAuthReq, main
  <2>2. \A c \in Conns : c # d => auth'[c] = auth[c]
    BY <1>5 DEF ProcessAuthReq
  <2>3. auth' = auth \/ (state[d] = AUTH /\ login[d] # "asked")
    BY <1>5 DEF ProcessAuthReq, WaitsForAnswer
  <2>4. \A i \in Slots : registry[i].in_use => auth'[Owner(i)] = auth[Owner(i)]
    BY <1>a, <2>2, <2>3 DEF AUTH, ESTABLISHED
  <2> QED
    BY <2>1, <2>4 DEF Listed
<1>6. ASSUME NEW d \in Conns, RemoveUser(d) PROVE EntryHasOwner'
  <2>1. UNCHANGED <<auth, state, mpc, pending>>
    BY <1>6 DEF RemoveUser, main, session
  <2>2. registry' = registry \/ registry' = Remove(registry, username[d])
    BY <1>6 DEF RemoveUser
  <2>3. \A i \in Slots : registry'[i].in_use => registry'[i] = registry[i]
    BY <2>2, RemoveLeaves
  <2> QED
    BY <2>1, <2>3 DEF Listed
<1>7. ASSUME NEW d \in Conns, ProcessBye(d) PROVE EntryHasOwner'
  <2>1. UNCHANGED <<auth, mpc, pending>>
    BY <1>7 DEF ProcessBye, main
  <2>2. CASE state[d] # ESTABLISHED
    <3>1. UNCHANGED <<registry, state>>
      BY <1>7, <2>2 DEF ProcessBye
    <3> QED
      BY <2>1, <3>1 DEF Listed
  <2>3. CASE state[d] = ESTABLISHED
    <3>1. /\ registry' = Remove(registry, username[d])
          /\ state' = [state EXCEPT ![d] = CLOSING]
      BY <1>7, <2>3 DEF ProcessBye
    <3>2. ASSUME NEW i \in Slots, registry'[i].in_use
          PROVE  registry'[i] = registry[i] /\ Owner(i) # d
      <4>1. registry'[i] = registry[i] /\ registry[i].username # username[d]
        BY <3>1, <3>2, RemoveLeaves
      <4>2. username[d] = auth[d].user
        BY <2>3 DEF SessionInv
      <4> QED
        BY <3>2, <4>1, <4>2
    <3>3. \A i \in Slots : registry'[i].in_use => state'[Owner(i)] = state[Owner(i)]
      BY <1>a, <3>1, <3>2
    <3> QED
      BY <2>1, <3>2, <3>3 DEF Listed
  <2> QED
    BY <2>2, <2>3
<1> QED
  BY <1>1, <1>2, <1>3, <1>4, <1>5, <1>6, <1>7, OwnerFrame

-----------------------------------------------------------------------------
(* Logged-in sessions keep their entries.                                  *)
Attached == {"connected", "open", "streamClosed", "discMark", "discState"}

LEMMA EstablishedFrame ==
  ASSUME TypeOK, [Next]_vars
  PROVE  \/ /\ UNCHANGED <<registry, auth, state>>
            /\ \A c \in Conns : phase'[c] \in Attached => phase[c] \in Attached
         \/ RegisterUser \/ Establish
         \/ \E c \in Conns :
              \/ OnConnected(c) \/ RemoveUser(c) \/ ProcessBye(c)
              \/ \E b \in BOOLEAN : ProcessHello(c, b)
              \/ \E u \in Users, h \in Hashes : ProcessAuthReq(c, u, h)
<1>0. phase \in [Conns -> Phases]
  BY DEF TypeOK
<1>1. CASE \E c \in Conns : ConnectionEvent(c)
  BY <1>0, <1>1 DEF ConnectionEvent, NewConnection, HandshakeFails, OnStreamOpen,
              OnStreamClosed, OnDisconnected, MarkClosed, FreeSession, session, In, To,
              Attached
<1>2. CASE \E c \in Conns : PacketEvent(c)
  BY <1>2 DEF PacketEvent, ProcessKeyReq, ProcessChatSend, ForwardChat, IgnorePacket,
              session
<1>3. CASE MainStep
  BY <1>3 DEF MainStep, TestStop, Block, Dequeue, ClearQueued, CheckClosed,
              VerifyCredentials, LoadStream, SendAuthResp, SendByeAll,
              ShutdownConnections, Destroy, session
<1>4. CASE Signal \/ Crash \/ Ended \/ UNCHANGED vars
  BY <1>4 DEF Signal, Crash, Ended, vars, session
<1> QED
  BY <1>1, <1>2, <1>3, <1>4 DEF Next

LEMMA NextEstablishedOwnsEntry ==
  ASSUME ServerInv, [Next]_vars
  PROVE  EstablishedOwnsEntry'
<1>0. /\ TypeOK /\ RegistryUnique /\ EstablishedOwnsEntry /\ SessionInv /\ MainInv
      /\ phase \in [Conns -> Phases]
      /\ registry \in [Slots -> Entries(Users, Conns, Conns)]
      /\ state \in [Conns -> CLOSED .. CLOSING]
      /\ auth \in [Conns -> Credentials \cup {NoCredentials}]
  BY DEF ServerInv, TypeOK
<1> SUFFICES ASSUME NEW c \in Conns, state'[c] = ESTABLISHED, phase'[c] \in Attached
             PROVE  \E i \in Slots : OwnsEntry(c, registry[i])'
  BY DEF EstablishedOwnsEntry, Attached
<1>a. state[c] = ESTABLISHED /\ phase[c] \in Attached =>
        \E i \in Slots : OwnsEntry(c, registry[i])
  BY <1>0 DEF EstablishedOwnsEntry, Attached
<1>b. ASSUME UNCHANGED registry, auth'[c] = auth[c],
             \E i \in Slots : OwnsEntry(c, registry[i])
      PROVE  \E i \in Slots : OwnsEntry(c, registry[i])'
  BY <1>b DEF OwnsEntry, Listed
<1>1. CASE /\ UNCHANGED <<registry, auth, state>>
           /\ \A d \in Conns : phase'[d] \in Attached => phase[d] \in Attached
  BY <1>1, <1>a, <1>b
<1>2. CASE RegisterUser
  <2>1. UNCHANGED <<phase, auth, state>>
    BY <1>2 DEF RegisterUser, session
  <2>2. PICK i \in Slots : OwnsEntry(c, registry[i])
    BY <1>a, <2>1
  <2>3. CASE CanAdd(registry, auth[pending].user)
    <3>1. PICK k \in Slots :
            /\ ~registry[k].in_use
            /\ registry' = [registry EXCEPT ![k] =
                 Entry(auth[pending].user, auth_stream[pending], pending)]
      BY <1>0, <1>2, <2>3, RegisteredEntry
    <3>2. registry'[i] = registry[i]
      BY <1>0, <2>2, <3>1 DEF OwnsEntry
    <3> QED
      BY <2>1, <2>2, <3>2 DEF OwnsEntry, Listed
  <2>4. CASE ~CanAdd(registry, auth[pending].user)
    BY <1>2, <1>b, <2>1, <2>2, <2>4 DEF RegisterUser
  <2> QED
    BY <2>3, <2>4
<1>3. CASE Establish
  <2>1. /\ mpc = "establish" /\ pending \in Conns
        /\ UNCHANGED <<phase, registry, auth>>
        /\ state' = [state EXCEPT ![pending] = ESTABLISHED]
        /\ \E i \in Slots : OwnsEntry(pending, registry[i])
    BY <1>0, <1>3 DEF Establish, At, MainInv, Working
  <2>2. c = pending \/ state[c] = ESTABLISHED
    BY <1>0, <2>1
  <2> QED
    BY <1>a, <1>b, <2>1, <2>2
<1>4. ASSUME NEW d \in Conns, OnConnected(d) PROVE \E i \in Slots : OwnsEntry(c, registry[i])'
  <2>1. /\ UNCHANGED <<registry, auth>>
        /\ state' = [state EXCEPT ![d] = HELLO]
        /\ phase' = [phase EXCEPT ![d] = "connected"]
    BY <1>4 DEF OnConnected, To
  <2>2. state[c] = ESTABLISHED /\ phase[c] = phase'[c]
    BY <1>0, <2>1 DEF HELLO, ESTABLISHED
  <2> QED
    BY <1>a, <1>b, <2>1, <2>2
<1>5. ASSUME NEW d \in Conns, NEW b \in BOOLEAN, ProcessHello(d, b)
      PROVE  \E i \in Slots : OwnsEntry(c, registry[i])'
  <2>1. UNCHANGED <<phase, registry, auth>>
    BY <1>5 DEF ProcessHello
  <2>2. state' = state \/ state' = [state EXCEPT ![d] = AUTH]
    BY <1>5 DEF ProcessHello
  <2>3. state[c] = ESTABLISHED
    BY <1>0, <2>2 DEF AUTH, ESTABLISHED
  <2> QED
    BY <1>a, <1>b, <2>1, <2>3
<1>6. ASSUME NEW d \in Conns, NEW u \in Users, NEW h \in Hashes, ProcessAuthReq(d, u, h)
      PROVE  \E i \in Slots : OwnsEntry(c, registry[i])'
  <2>1. UNCHANGED <<phase, registry, state>>
    BY <1>6 DEF ProcessAuthReq
  <2>2. state[c] = ESTABLISHED
    BY <2>1
  <2>3. auth'[c] = auth[c]
    BY <1>0, <1>6, <2>2 DEF ProcessAuthReq, AUTH, ESTABLISHED
  <2> QED
    BY <1>a, <1>b, <2>1, <2>2, <2>3
<1>7. ASSUME NEW d \in Conns, RemoveUser(d) PROVE \E i \in Slots : OwnsEntry(c, registry[i])'
  <2>1. /\ phase[d] = "discState" /\ phase' = [phase EXCEPT ![d] = "discFree"]
        /\ UNCHANGED <<auth, state>>
    BY <1>7 DEF RemoveUser, In, To, session
  <2>2. c # d /\ phase[c] \in Attached /\ state[c] = ESTABLISHED
    BY <1>0, <2>1 DEF Attached
  <2>3. PICK i \in Slots : OwnsEntry(c, registry[i])
    BY <1>a, <2>2
  <2>4. CASE state[d] = ESTABLISHED
    <3>1. registry' = Remove(registry, username[d])
      BY <1>7, <2>4 DEF RemoveUser
    <3>2. registry'[i] = registry[i]
      BY <1>0, <2>1, <2>2, <2>3, <2>4, <3>1, OthersKeepEntry
    <3> QED
      BY <2>1, <2>3, <3>2 DEF OwnsEntry, Listed
  <2>5. CASE state[d] # ESTABLISHED
    BY <1>7, <1>b, <2>1, <2>3, <2>5 DEF RemoveUser
  <2> QED
    BY <2>4, <2>5
<1>8. ASSUME NEW d \in Conns, ProcessBye(d) PROVE \E i \in Slots : OwnsEntry(c, registry[i])'
  <2>1. phase[d] = "open" /\ UNCHANGED <<phase, auth>>
    BY <1>8 DEF ProcessBye, Receiving, In
  <2>2. CASE state[d] = ESTABLISHED
    <3>1. /\ registry' = Remove(registry, username[d])
          /\ state' = [state EXCEPT ![d] = CLOSING]
      BY <1>8, <2>2 DEF ProcessBye
    <3>2. c # d /\ state[c] = ESTABLISHED
      BY <1>0, <3>1 DEF CLOSING, ESTABLISHED
    <3>3. PICK i \in Slots : OwnsEntry(c, registry[i])
      BY <1>a, <2>1, <3>2
    <3>4. registry'[i] = registry[i]
      BY <1>0, <2>1, <2>2, <3>1, <3>2, <3>3, OthersKeepEntry
    <3> QED
      BY <2>1, <3>3, <3>4 DEF OwnsEntry, Listed
  <2>3. CASE state[d] # ESTABLISHED
    <3>1. UNCHANGED <<registry, state>>
      BY <1>8, <2>3 DEF ProcessBye
    <3> QED
      BY <1>a, <1>b, <2>1, <3>1
  <2> QED
    BY <2>2, <2>3
<1> QED
  BY <1>0, <1>1, <1>2, <1>3, <1>4, <1>5, <1>6, <1>7, <1>8, EstablishedFrame

-----------------------------------------------------------------------------
(* Sessions are freed once.                                                *)
Owned == Attached \cup {"discFree"}

LEMMA FreedFrame ==
  ASSUME TypeOK, [Next]_vars
  PROVE  \/ /\ UNCHANGED <<mem, conn_closed>>
            /\ \A c \in Conns : phase'[c] \in Owned => phase[c] \in Owned
            /\ mpc' = "check" => UNCHANGED <<mpc, pending>>
         \/ ClearQueued \/ CheckClosed
         \/ \E c \in Conns : OnConnected(c) \/ MarkClosed(c) \/ FreeSession(c)
<1>0. phase \in [Conns -> Phases]
  BY DEF TypeOK
<1>1. CASE \E c \in Conns : ConnectionEvent(c)
  BY <1>0, <1>1 DEF ConnectionEvent, NewConnection, HandshakeFails, OnStreamOpen,
              OnStreamClosed, OnDisconnected, RemoveUser, main, session, In, To,
              Owned, Attached
<1>2. CASE \E c \in Conns : PacketEvent(c)
  BY <1>2 DEF PacketEvent, ProcessHello, ProcessAuthReq, ProcessKeyReq, ProcessChatSend,
              ForwardChat, ProcessBye, IgnorePacket, main, session
<1>3. CASE MainStep
  BY <1>3 DEF MainStep, TestStop, Block, Dequeue, VerifyCredentials, RegisterUser,
              Establish, LoadStream, SendAuthResp, SendByeAll, ShutdownConnections,
              Destroy, session
<1>4. CASE Signal \/ Crash \/ Ended \/ UNCHANGED vars
  BY <1>4 DEF Signal, Crash, Ended, vars, main, session
<1> QED
  BY <1>1, <1>2, <1>3, <1>4 DEF Next

LEMMA NextFreedOnce ==
  ASSUME ServerInv, [Next]_vars
  PROVE  FreedOnce'
<1>0. /\ TypeOK /\ FreedOnce /\ SessionInv /\ MainInv
      /\ phase \in [Conns -> Phases]
      /\ mem \in [Conns -> {"none", "live", "freed"}]
      /\ conn_closed \in [Conns -> BOOLEAN]
  BY DEF ServerInv, TypeOK
<1>a. /\ \A c \in Conns : phase[c] \in Owned => mem[c] = "live"
      /\ mpc = "check" /\ conn_closed[pending] => mem[pending] = "live"
      /\ mpc \in Working => pending \in Conns
  BY <1>0 DEF FreedOnce, Owned, Attached, MainInv
<1> SUFFICES /\ \A c \in Conns : phase'[c] \in Owned => mem'[c] = "live"
             /\ mpc' = "check" /\ conn_closed'[pending'] => mem'[pending'] = "live"
  BY DEF FreedOnce, Owned, Attached
<1>1. CASE /\ UNCHANGED <<mem, conn_closed>>
           /\ \A c \in Conns : phase'[c] \in Owned => phase[c] \in Owned
           /\ mpc' = "check" => UNCHANGED <<mpc, pending>>
  BY <1>1, <1>a
<1>2. CASE ClearQueued
  BY <1>2, <1>a, <1>0 DEF ClearQueued, At, MainInv, SessionInv, Working
<1>3. CASE CheckClosed
  <2>1. mpc = "check" /\ pending \in Conns /\ mpc' # "check" /\ UNCHANGED phase
    BY <1>3, <1>a DEF CheckClosed, At, Working
  <2>2. CASE conn_closed[pending]
    <3>1. mem' = [mem EXCEPT ![pending] = "freed"]
      BY <1>3, <2>2 DEF CheckClosed
    <3>2. phase[pending] \notin Owned
      BY <1>0, <2>1, <2>2 DEF SessionInv, Owned, Attached
    <3> QED
      BY <1>0, <1>a, <2>1, <3>1, <3>2
  <2>3. CASE ~conn_closed[pending]
    BY <1>3, <1>a, <2>1, <2>3 DEF CheckClosed
  <2> QED
    BY <2>2, <2>3
<1>4. ASSUME NEW d \in Conns, OnConnected(d)
      PROVE  /\ \A c \in Conns : phase'[c] \in Owned => mem'[c] = "live"
             /\ mpc' = "check" /\ conn_closed'[pending'] => mem'[pending'] = "live"
  BY <1>4, <1>a, <1>0 DEF OnConnected, To, main, Working
<1>5. ASSUME NEW d \in Conns, MarkClosed(d)
      PROVE  /\ \A c \in Conns : phase'[c] \in Owned => mem'[c] = "live"
             /\ mpc' = "check" /\ conn_closed'[pending'] => mem'[pending'] = "live"
  <2>1. /\ phase[d] = "discMark" /\ phase' = [phase EXCEPT ![d] = "closed"]
        /\ conn_closed' = [conn_closed EXCEPT ![d] = TRUE]
        /\ UNCHANGED <<mem, mpc, pending>>
    BY <1>5 DEF MarkClosed, In, To, main
  <2>2. mem[d] = "live"
    BY <1>a, <2>1 DEF Owned, Attached
  <2> QED
    BY <1>0, <1>a, <2>1, <2>2 DEF Owned, Attached, Working
<1>6. ASSUME NEW d \in Conns, FreeSession(d)
      PROVE  /\ \A c \in Conns : phase'[c] \in Owned => mem'[c] = "live"
             /\ mpc' = "check" /\ conn_closed'[pending'] => mem'[pending'] = "live"
  <2>1. /\ phase[d] = "discFree" /\ phase' = [phase EXCEPT ![d] = "closed"]
        /\ mem' = [mem EXCEPT ![d] = "freed"]
        /\ UNCHANGED <<conn_closed, mpc, pending>>
    BY <1>6 DEF FreeSession, In, To, main
  <2>2. ~conn_closed[d]
    BY <1>0, <2>1 DEF SessionInv
  <2> QED
    BY <1>0, <1>a, <2>1, <2>2 DEF Owned, Attached, Working
<1> QED
  BY <1>0, <1>1, <1>2, <1>3, <1>4, <1>5, <1>6, FreedFrame

-----------------------------------------------------------------------------
(* The life of a session.                                                  *)
LEMMA ConnectionEventSessionInv ==
  ASSUME ServerInv, NEW d \in Conns, ConnectionEvent(d)
  PROVE  SessionInv'
<1>0. SessionInv /\ TypeOK
  BY DEF ServerInv
<1> USE <1>0 DEF TypeOK, SessionInv, In, To, Listed
<1>1. CASE NewConnection(d) \/ HandshakeFails(d) \/ OnStreamOpen(d) \/ RemoveUser(d)
  BY <1>1 DEF NewConnection, HandshakeFails, OnStreamOpen, RemoveUser, session
<1>2. CASE OnConnected(d)
  BY <1>2 DEF OnConnected, HELLO, ESTABLISHED
<1>3. CASE OnStreamClosed(d)
  BY <1>3 DEF OnStreamClosed
<1>4. CASE OnDisconnected(d)
  BY <1>4 DEF OnDisconnected, session
<1>5. CASE MarkClosed(d)
  BY <1>5 DEF MarkClosed
<1>6. CASE FreeSession(d)
  BY <1>6 DEF FreeSession
<1> QED
  BY <1>1, <1>2, <1>3, <1>4, <1>5, <1>6 DEF ConnectionEvent

LEMMA PacketEventSessionInv ==
  ASSUME ServerInv, NEW d \in Conns, PacketEvent(d)
  PROVE  SessionInv'
<1>0. SessionInv /\ TypeOK /\ FreedOnce
  BY DEF ServerInv
<1> USE <1>0 DEF SessionInv, Listed
<1>1. ASSUME NEW b \in BOOLEAN, ProcessHello(d, b) PROVE SessionInv'
  BY <1>1 DEF ProcessHello, Receiving, In, TypeOK, AUTH, HELLO, ESTABLISHED
<1>2. ASSUME NEW u \in Users, NEW h \in Hashes, ProcessAuthReq(d, u, h) PROVE SessionInv'
  <2>1. CASE state[d] # AUTH
    BY <1>2, <2>1 DEF ProcessAuthReq
  <2>2. CASE state[d] = AUTH
    <3>1. /\ phase[d] = "open" /\ mem[d] = "live" /\ state[d] # ESTABLISHED
          /\ auth' = [auth EXCEPT ![d] = [user |-> u, hash |-> h]]
          /\ auth_stream' = [auth_stream EXCEPT ![d] = d]
          /\ auth_queued' = [auth_queued EXCEPT ![d] = TRUE]
          /\ login' = [login EXCEPT ![d] = "asked"]
          /\ UNCHANGED <<phase, mem, state, conn_closed, username>>
      BY <1>2, <2>2 DEF ProcessAuthReq, Receiving, In, FreedOnce, AUTH, ESTABLISHED
    <3> QED
      BY <3>1 DEF TypeOK
  <2> QED
    BY <2>1, <2>2
<1>3. CASE ProcessBye(d)
  <2>1. /\ phase[d] = "open"
        /\ state' \in {state, [state EXCEPT ![d] = CLOSING]}
        /\ UNCHANGED <<phase, mem, auth, auth_stream, auth_queued, conn_closed,
                       username, login>>
    BY <1>3 DEF ProcessBye, Receiving, In
  <2> QED
    BY <2>1 DEF TypeOK, CLOSING, ESTABLISHED
<1>4. ASSUME NEW u \in Users, ProcessKeyReq(d, u) \/ ProcessChatSend(d, u)
      PROVE  SessionInv'
  BY <1>4 DEF ProcessKeyReq, ProcessChatSend, session
<1>5. CASE ForwardChat(d) \/ IgnorePacket(d)
  BY <1>5 DEF ForwardChat, IgnorePacket, session
<1> QED
  BY <1>1, <1>2, <1>3, <1>4, <1>5 DEF PacketEvent

LEMMA MainStepSessionInv ==
  ASSUME ServerInv, MainStep
  PROVE  SessionInv'
<1>0. /\ SessionInv /\ TypeOK /\ MainInv /\ QueueHoldsSessions
      /\ mpc \in Working => pending \in Conns
  BY DEF ServerInv, MainInv
<1> USE <1>0 DEF SessionInv, Listed
<1>1. CASE \/ TestStop \/ Block \/ Dequeue \/ VerifyCredentials \/ RegisterUser
           \/ LoadStream \/ SendByeAll \/ ShutdownConnections \/ Destroy
  BY <1>1 DEF TestStop, Block, Dequeue, VerifyCredentials, RegisterUser, LoadStream,
              SendByeAll, ShutdownConnections, Destroy, session
<1>2. CASE ClearQueued
  BY <1>2 DEF ClearQueued, At, Working, TypeOK
<1>3. CASE CheckClosed
  <2>1. mpc = "check" /\ pending \in Conns
    BY <1>3 DEF CheckClosed, At, Working
  <2>2. ~auth_queued[pending]
    BY <2>1 DEF QueueHoldsSessions, MainInv
  <2>3. /\ UNCHANGED <<phase, state, auth, auth_stream, auth_queued, conn_closed,
                       username, login>>
        /\ mem' \in {mem, [mem EXCEPT ![pending] = "freed"]}
    BY <1>3 DEF CheckClosed
  <2> QED
    BY <2>1, <2>2, <2>3 DEF TypeOK
<1>4. CASE Establish
  <2>1. /\ mpc = "establish" /\ pending \in Conns
        /\ auth[pending] \in Credentials /\ Listed(auth[pending])
        /\ state[pending] = AUTH
    BY <1>4 DEF Establish, At, Working, MainInv
  <2>2. auth[pending].user \in Users /\ auth[pending].user # NULL
    BY <2>1, ServerAssumption DEF Credentials
  <2>3. phase[pending] \notin {"idle", "handshake"}
    BY <2>1 DEF AUTH, CLOSED
  <2>4. /\ username' = [username EXCEPT ![pending] = auth[pending].user]
        /\ state' = [state EXCEPT ![pending] = ESTABLISHED]
        /\ UNCHANGED <<phase, mem, auth, auth_stream, auth_queued, conn_closed, login>>
    BY <1>4 DEF Establish
  <2> QED
    BY <2>1, <2>2, <2>3, <2>4 DEF TypeOK
<1>5. CASE SendAuthResp
  BY <1>5 DEF SendAuthResp, At, Working, TypeOK, session
<1> QED
  BY <1>1, <1>2, <1>3, <1>4, <1>5 DEF MainStep

LEMMA NextSessionInv ==
  ASSUME ServerInv, [Next]_vars
  PROVE  SessionInv'
<1>1. CASE Signal \/ Crash \/ Ended \/ UNCHANGED vars
  BY <1>1 DEF Signal, Crash, Ended, vars, session, ServerInv, SessionInv, Listed
<1> QED
  BY <1>1, ConnectionEventSessionInv, PacketEventSessionInv, MainStepSessionInv DEF Next

-----------------------------------------------------------------------------
(* The queue holds sessions that wait.                                     *)
LEMMA QueueFrame ==
  ASSUME [Next]_vars
  PROVE  \/ /\ UNCHANGED <<queue, auth_queued, mem, state>>
            /\ mpc = "unflag" => UNCHANGED <<mpc, pending>>
         \/ Dequeue \/ ClearQueued \/ CheckClosed \/ Establish
         \/ \E c \in Conns :
              \/ OnConnected(c) \/ FreeSession(c) \/ ProcessBye(c)
              \/ \E b \in BOOLEAN : ProcessHello(c, b)
              \/ \E u \in Users, h \in Hashes : WaitsForAnswer(c) /\ ProcessAuthReq(c, u, h)
<1>1. CASE \E c \in Conns : ConnectionEvent(c)
  BY <1>1 DEF ConnectionEvent, NewConnection, HandshakeFails, OnStreamOpen,
              OnStreamClosed, OnDisconnected, MarkClosed, RemoveUser, main, session
<1>2. CASE \E c \in Conns : PacketEvent(c)
  BY <1>2 DEF PacketEvent, ProcessKeyReq, ProcessChatSend, ForwardChat, IgnorePacket,
              main, session
<1>3. CASE MainStep
  BY <1>3 DEF MainStep, TestStop, Block, VerifyCredentials, RegisterUser, LoadStream,
              SendAuthResp, SendByeAll, ShutdownConnections, Destroy, At, session
<1>4. CASE Signal \/ Crash \/ Ended \/ UNCHANGED vars
  BY <1>4 DEF Signal, Crash, Ended, vars, main, session
<1> QED
  BY <1>1, <1>2, <1>3, <1>4 DEF Next

LEMMA NextQueueHoldsSessions ==
  ASSUME ServerInv, [Next]_vars
  PROVE  QueueHoldsSessions'
<1>0. /\ TypeOK /\ QueueHoldsSessions /\ FreedOnce /\ SessionInv /\ MainInv
      /\ queue \in Seq(Conns) /\ Len(queue) \in Nat
      /\ \A i \in 1..Len(queue) : queue[i] \in Conns
      /\ mem \in [Conns -> {"none", "live", "freed"}]
      /\ state \in [Conns -> CLOSED .. CLOSING]
      /\ auth_queued \in [Conns -> BOOLEAN]
      /\ mpc \in Working => pending \in Conns
  BY DEF ServerInv, TypeOK, MainInv
<1>1. CASE /\ UNCHANGED <<queue, auth_queued, mem, state>>
           /\ mpc = "unflag" => UNCHANGED <<mpc, pending>>
  BY <1>0, <1>1 DEF QueueHoldsSessions
<1>2. CASE Dequeue
  <2>1. /\ queue # << >> /\ pending' = Head(queue) /\ queue' = Tail(queue)
        /\ mpc # "unflag" /\ mpc' = "unflag" /\ UNCHANGED <<auth_queued, mem, state>>
    BY <1>2 DEF Dequeue, At, session
  <2>2. /\ Len(queue') = Len(queue) - 1 /\ Len(queue) >= 1
        /\ \A i \in 1..Len(queue') : queue'[i] = queue[i + 1]
        /\ pending' = queue[1]
    BY <1>0, <2>1, HeadTailProperties, EmptySeq
  <2>3. ASSUME NEW c \in Conns, auth_queued'[c], c # pending'
        PROVE  \E i \in 1..Len(queue') : queue'[i] = c
    <3>1. PICK j \in 1..Len(queue) : queue[j] = c
      BY <1>0, <2>1, <2>3 DEF QueueHoldsSessions
    <3>2. j - 1 \in 1..Len(queue') /\ queue'[j - 1] = c
      BY <1>0, <2>2, <2>3, <3>1
    <3> QED
      BY <3>2
  <2>4. \A i \in 1..Len(queue') : i + 1 \in 1..Len(queue)
    BY <1>0, <2>2
  <2> QED
    BY <1>0, <2>1, <2>2, <2>3, <2>4 DEF QueueHoldsSessions
<1>3. CASE ClearQueued
  <2>1. /\ mpc = "unflag" /\ pending \in Conns
        /\ auth_queued' = [auth_queued EXCEPT ![pending] = FALSE]
        /\ UNCHANGED <<queue, mem, state>>
    BY <1>0, <1>3 DEF ClearQueued, At, Working
  <2> QED
    BY <1>0, <2>1 DEF QueueHoldsSessions, MainInv
<1>4. CASE CheckClosed
  <2>1. /\ mpc = "check" /\ pending \in Conns
        /\ mem' \in {mem, [mem EXCEPT ![pending] = "freed"]}
        /\ UNCHANGED <<queue, auth_queued, state>>
    BY <1>0, <1>4 DEF CheckClosed, At, Working
  <2> QED
    BY <1>0, <2>1 DEF QueueHoldsSessions, MainInv
<1>5. CASE Establish
  <2>1. /\ mpc = "establish" /\ pending \in Conns
        /\ state' = [state EXCEPT ![pending] = ESTABLISHED]
        /\ UNCHANGED <<queue, auth_queued, mem>>
    BY <1>0, <1>5 DEF Establish, At, Working
  <2> QED
    BY <1>0, <2>1 DEF QueueHoldsSessions, MainInv
<1>6. ASSUME NEW d \in Conns, UNCHANGED <<queue, auth_queued, mpc, pending>>,
             \A i \in 1..Len(queue) : queue[i] # d,
             \A c \in Conns : c # d => mem'[c] = mem[c] /\ state'[c] = state[c]
      PROVE  QueueHoldsSessions'
  BY <1>0, <1>6 DEF QueueHoldsSessions
<1>7. ASSUME NEW d \in Conns, OnConnected(d) \/ FreeSession(d) PROVE QueueHoldsSessions'
  <2>1. ~auth_queued[d]
    BY <1>0, <1>7 DEF OnConnected, FreeSession, In, SessionInv
  <2>2. \A i \in 1..Len(queue) : queue[i] # d
    BY <1>0, <2>1 DEF QueueHoldsSessions
  <2>3. /\ UNCHANGED <<queue, auth_queued, mpc, pending>>
        /\ \A c \in Conns : c # d => mem'[c] = mem[c] /\ state'[c] = state[c]
    BY <1>0, <1>7 DEF OnConnected, FreeSession, main
  <2> QED
    BY <1>6, <2>2, <2>3
<1>8. ASSUME NEW d \in Conns, ProcessBye(d) \/ \E b \in BOOLEAN : ProcessHello(d, b)
      PROVE  QueueHoldsSessions'
  <2>1. /\ UNCHANGED <<queue, auth_queued, mem, mpc, pending>>
        /\ UNCHANGED state \/ state[d] # AUTH
        /\ \A c \in Conns : c # d => state'[c] = state[c]
    BY <1>0, <1>8 DEF ProcessBye, ProcessHello, main, AUTH, HELLO, ESTABLISHED
  <2>2. CASE UNCHANGED state
    BY <1>0, <2>1, <2>2 DEF QueueHoldsSessions
  <2>3. CASE state[d] # AUTH
    <3>1. \A i \in 1..Len(queue) : queue[i] # d
      BY <1>0, <2>3 DEF QueueHoldsSessions
    <3> QED
      BY <1>6, <2>1, <3>1
  <2> QED
    BY <2>1, <2>2, <2>3
<1>9. ASSUME NEW d \in Conns, NEW u \in Users, NEW h \in Hashes, WaitsForAnswer(d),
             ProcessAuthReq(d, u, h)
      PROVE  QueueHoldsSessions'
  <2>1. CASE state[d] # AUTH
    <3>1. UNCHANGED <<queue, auth_queued, mem, state, mpc, pending>>
      BY <1>9, <2>1 DEF ProcessAuthReq, main
    <3> QED
      BY <1>0, <3>1 DEF QueueHoldsSessions
  <2>2. CASE state[d] = AUTH
    <3>1. /\ queue' = Append(queue, d) /\ mem[d] = "live"
          /\ auth_queued' = [auth_queued EXCEPT ![d] = TRUE]
          /\ UNCHANGED <<mem, state, mpc, pending>>
          /\ login[d] # "asked"
      BY <1>0, <1>9, <2>2
      DEF ProcessAuthReq, WaitsForAnswer, Receiving, In, FreedOnce, main
    <3>2. /\ Len(queue') = Len(queue) + 1 /\ queue'[Len(queue) + 1] = d
          /\ \A i \in 1..Len(queue) : queue'[i] = queue[i]
      BY <1>0, <3>1, AppendProperties
    <3>3. \A i \in 1..Len(queue) : queue[i] # d
      BY <1>0, <3>1 DEF MainInv
    <3>4. \A i \in 1..Len(queue') : i \in 1..Len(queue) \/ i = Len(queue) + 1
      BY <1>0, <3>2
    <3>5. 1..Len(queue) \subseteq 1..Len(queue') /\ Len(queue) + 1 \in 1..Len(queue')
      BY <1>0, <3>2
    <3>6. \A i \in 1..Len(queue') :
            auth_queued'[queue'[i]] /\ mem'[queue'[i]] = "live" /\ state'[queue'[i]] = AUTH
      BY <1>0, <2>2, <3>1, <3>2, <3>4 DEF QueueHoldsSessions
    <3>7. \A i, j \in 1..Len(queue') : queue'[i] = queue'[j] => i = j
      BY <1>0, <3>2, <3>3, <3>4 DEF QueueHoldsSessions
    <3>8. ASSUME NEW c \in Conns, auth_queued'[c]
          PROVE  \/ \E i \in 1..Len(queue') : queue'[i] = c
                 \/ mpc' = "unflag" /\ pending' = c
      BY <1>0, <3>1, <3>2, <3>5, <3>8 DEF QueueHoldsSessions
    <3> QED
      BY <3>6, <3>7, <3>8 DEF QueueHoldsSessions
  <2> QED
    BY <2>1, <2>2
<1> QED
  BY <1>1, <1>2, <1>3, <1>4, <1>5, <1>7, <1>8, <1>9, QueueFrame

-----------------------------------------------------------------------------
(* Main owns the login it works on.                                        *)
LEMMA ConnectionEventMainInv ==
  ASSUME ServerInv, NEW d \in Conns, ConnectionEvent(d)
  PROVE  MainInv'
<1>0. /\ TypeOK /\ RegistryUnique /\ EstablishedOwnsEntry /\ SessionInv /\ MainInv
      /\ QueueHoldsSessions
      /\ state \in [Conns -> CLOSED .. CLOSING]
      /\ mpc \in Working => pending \in Conns
  BY DEF ServerInv, TypeOK, MainInv
<1>1. CASE \/ NewConnection(d) \/ HandshakeFails(d) \/ OnStreamOpen(d)
           \/ OnStreamClosed(d) \/ OnDisconnected(d) \/ MarkClosed(d) \/ FreeSession(d)
  <2>1. UNCHANGED <<mpc, pending, login, queue, state, auth, auth_queued, registry>>
    BY <1>1 DEF NewConnection, HandshakeFails, OnStreamOpen, OnStreamClosed,
                OnDisconnected, MarkClosed, FreeSession, main, session
  <2> QED
    BY <1>0, <2>1 DEF MainInv, OwnsEntry, Listed
<1>2. CASE OnConnected(d)
  <2>1. /\ UNCHANGED <<mpc, pending, login, queue, auth, auth_queued, registry>>
        /\ state' = [state EXCEPT ![d] = HELLO] /\ state[d] = CLOSED
    BY <1>0, <1>2 DEF OnConnected, In, SessionInv, main
  <2> QED
    BY <1>0, <2>1 DEF MainInv, OwnsEntry, Listed, CLOSED, AUTH, Working
<1>3. CASE RemoveUser(d)
  <2>1. /\ UNCHANGED <<mpc, pending, login, queue, state, auth, auth_queued>>
        /\ phase[d] = "discState"
    BY <1>3 DEF RemoveUser, In, main, session
  <2>2. CASE state[d] # ESTABLISHED
    BY <1>0, <1>3, <2>1, <2>2 DEF RemoveUser, MainInv, OwnsEntry, Listed
  <2>3. CASE state[d] = ESTABLISHED
    <3>1. registry' = Remove(registry, username[d])
      BY <1>3, <2>3 DEF RemoveUser
    <3>2. ASSUME mpc = "establish" PROVE (\E i \in Slots : OwnsEntry(pending, registry[i]))'
      <4>1. PICK i \in Slots : OwnsEntry(pending, registry[i])
        BY <1>0, <3>2 DEF MainInv
      <4>2. pending \in Conns /\ pending # d
        BY <1>0, <2>3, <3>2 DEF MainInv, Working, AUTH, ESTABLISHED
      <4>3. registry'[i] = registry[i]
        BY <1>0, <2>1, <2>3, <3>1, <4>1, <4>2, OthersKeepEntry
      <4> QED
        BY <2>1, <4>1, <4>3 DEF OwnsEntry, Listed
    <3> QED
      BY <1>0, <2>1, <3>2 DEF MainInv, Listed
  <2> QED
    BY <2>2, <2>3
<1> QED
  BY <1>1, <1>2, <1>3 DEF ConnectionEvent

LEMMA PacketEventMainInv ==
  ASSUME ServerInv, NEW d \in Conns, PacketEvent(d)
  PROVE  MainInv'
<1>0. /\ TypeOK /\ RegistryUnique /\ EstablishedOwnsEntry /\ SessionInv /\ MainInv
      /\ state \in [Conns -> CLOSED .. CLOSING]
      /\ auth \in [Conns -> Credentials \cup {NoCredentials}]
      /\ auth_queued \in [Conns -> BOOLEAN]
      /\ login \in [Conns -> {"none", "asked", "ok", "invalid"}]
      /\ queue \in Seq(Conns) /\ Len(queue) \in Nat
      /\ \A i \in 1..Len(queue) : queue[i] \in Conns
      /\ mpc \in Working => pending \in Conns
  BY DEF ServerInv, TypeOK, MainInv
<1>1. ASSUME NEW b \in BOOLEAN, ProcessHello(d, b) PROVE MainInv'
  <2>1. /\ UNCHANGED <<mpc, pending, login, queue, auth, auth_queued, registry>>
        /\ UNCHANGED state \/ (state[d] = HELLO /\ state' = [state EXCEPT ![d] = AUTH])
    BY <1>1 DEF ProcessHello, main
  <2> QED
    BY <1>0, <2>1 DEF MainInv, OwnsEntry, Listed, HELLO, AUTH, Working
<1>2. ASSUME NEW u \in Users, NEW h \in Hashes, WaitsForAnswer(d), ProcessAuthReq(d, u, h)
      PROVE  MainInv'
  <2>1. CASE state[d] # AUTH
    <3>1. UNCHANGED <<mpc, pending, login, queue, state, auth, auth_queued, registry>>
      BY <1>2, <2>1 DEF ProcessAuthReq, main
    <3> QED
      BY <1>0, <3>1 DEF MainInv, OwnsEntry, Listed
  <2>2. CASE state[d] = AUTH
    <3>1. /\ login[d] # "asked"
          /\ auth' = [auth EXCEPT ![d] = [user |-> u, hash |-> h]]
          /\ auth_queued' = [auth_queued EXCEPT ![d] = TRUE]
          /\ queue' = Append(queue, d)
          /\ login' = [login EXCEPT ![d] = "asked"]
          /\ UNCHANGED <<mpc, pending, state, registry>>
      BY <1>2, <2>2 DEF ProcessAuthReq, WaitsForAnswer, main
    <3>2. /\ Len(queue') = Len(queue) + 1 /\ queue'[Len(queue) + 1] = d
          /\ \A i \in 1..Len(queue) : queue'[i] = queue[i]
      BY <1>0, <3>1, AppendProperties
    <3>3. \A i \in 1..Len(queue') : i \in 1..Len(queue) \/ i = Len(queue) + 1
      BY <1>0, <3>2
    <3>4. d # pending
      BY <1>0, <3>1, ServerAssumption DEF MainInv
    <3>5. [user |-> u, hash |-> h] \in Credentials
      BY DEF Credentials
    <3>6. \A i \in 1..Len(queue') :
            /\ queue'[i] # pending' /\ login'[queue'[i]] = "asked"
            /\ auth'[queue'[i]] \in Credentials
      BY <1>0, <3>1, <3>2, <3>3, <3>4, <3>5 DEF MainInv
    <3>7. mpc \in Working =>
            /\ login'[pending] = login[pending] /\ auth'[pending] = auth[pending]
            /\ auth_queued'[pending] = auth_queued[pending]
      BY <1>0, <3>1, <3>4
    <3> QED
      BY <1>0, <3>1, <3>6, <3>7 DEF MainInv, OwnsEntry, Listed, Working
  <2> QED
    BY <2>1, <2>2
<1>3. CASE ProcessBye(d)
  <2>1. /\ UNCHANGED <<mpc, pending, login, queue, auth, auth_queued>>
        /\ phase[d] = "open"
    BY <1>3 DEF ProcessBye, Receiving, In, main
  <2>2. CASE state[d] # ESTABLISHED
    BY <1>0, <1>3, <2>1, <2>2 DEF ProcessBye, MainInv, OwnsEntry, Listed
  <2>3. CASE state[d] = ESTABLISHED
    <3>1. /\ registry' = Remove(registry, username[d])
          /\ state' = [state EXCEPT ![d] = CLOSING]
      BY <1>3, <2>3 DEF ProcessBye
    <3>2. mpc \in {"unflag", "check", "verify", "register", "establish"} => pending # d
      BY <1>0, <2>3 DEF MainInv, AUTH, ESTABLISHED
    <3>3. ASSUME mpc = "establish" PROVE (\E i \in Slots : OwnsEntry(pending, registry[i]))'
      <4>1. PICK i \in Slots : OwnsEntry(pending, registry[i])
        BY <1>0, <3>3 DEF MainInv
      <4>2. pending \in Conns /\ pending # d
        BY <1>0, <3>2, <3>3 DEF Working
      <4>3. registry'[i] = registry[i]
        BY <1>0, <2>1, <2>3, <3>1, <4>1, <4>2, OthersKeepEntry
      <4> QED
        BY <2>1, <4>1, <4>3 DEF OwnsEntry, Listed
    <3> QED
      BY <1>0, <2>1, <3>1, <3>2, <3>3 DEF MainInv, Listed, Working
  <2> QED
    BY <2>2, <2>3
<1>4. ASSUME NEW u \in Users, ProcessKeyReq(d, u) \/ ProcessChatSend(d, u)
      PROVE  MainInv'
  BY <1>0, <1>4 DEF ProcessKeyReq, ProcessChatSend, session, main, MainInv, OwnsEntry, Listed
<1>5. CASE ForwardChat(d) \/ IgnorePacket(d)
  BY <1>0, <1>5 DEF ForwardChat, IgnorePacket, session, main, MainInv, OwnsEntry, Listed
<1> QED
  BY <1>1, <1>2, <1>3, <1>4, <1>5 DEF PacketEvent

LEMMA MainStepMainInv ==
  ASSUME ServerInv, MainStep
  PROVE  MainInv'
<1>0. /\ TypeOK /\ QueueHoldsSessions /\ SessionInv /\ MainInv
      /\ auth \in [Conns -> Credentials \cup {NoCredentials}]
      /\ login \in [Conns -> {"none", "asked", "ok", "invalid"}]
      /\ state \in [Conns -> CLOSED .. CLOSING]
      /\ auth_queued \in [Conns -> BOOLEAN]
      /\ registry \in [Slots -> Entries(Users, Conns, Conns)]
      /\ queue \in Seq(Conns) /\ Len(queue) \in Nat
      /\ \A i \in 1..Len(queue) : queue[i] \in Conns
      /\ mpc \in Working => pending \in Conns
      /\ NULL \notin Conns
  BY ServerAssumption DEF ServerInv, TypeOK, MainInv
<1>1. CASE TestStop \/ Block \/ SendByeAll \/ ShutdownConnections \/ Destroy
  <2>1. /\ UNCHANGED <<pending, login, queue, state, auth, auth_queued, registry>>
        /\ mpc \notin Working /\ mpc' \notin Working
    BY <1>1 DEF TestStop, Block, SendByeAll, ShutdownConnections, Destroy, session, At, Working
  <2> QED
    BY <1>0, <2>1 DEF MainInv, Working
<1>2. CASE Dequeue
  <2>1. /\ queue # << >> /\ pending' = Head(queue) /\ queue' = Tail(queue)
        /\ mpc' = "unflag"
        /\ UNCHANGED <<auth_queued, state, login, auth, registry>>
    BY <1>2 DEF Dequeue, At, session
  <2>2. /\ Len(queue') = Len(queue) - 1 /\ Len(queue) >= 1
        /\ \A i \in 1..Len(queue') : queue'[i] = queue[i + 1]
        /\ pending' = queue[1]
    BY <1>0, <2>1, HeadTailProperties, EmptySeq
  <2>3. 1 \in 1..Len(queue) /\ \A i \in 1..Len(queue') : i + 1 \in 1..Len(queue) /\ i + 1 # 1
    BY <1>0, <2>2
  <2>4. \A i \in 1..Len(queue') :
          /\ queue'[i] # pending' /\ login'[queue'[i]] = "asked"
          /\ auth'[queue'[i]] \in Credentials
    BY <1>0, <2>1, <2>2, <2>3 DEF MainInv, QueueHoldsSessions
  <2>5. /\ pending' \in Conns /\ login'[pending'] = "asked" /\ state'[pending'] = AUTH
        /\ auth'[pending'] \in Credentials /\ auth_queued'[pending']
    BY <1>0, <2>1, <2>2, <2>3 DEF MainInv, QueueHoldsSessions
  <2> QED
    BY <2>1, <2>4, <2>5 DEF MainInv, Working
<1>3. CASE ClearQueued
  <2>1. /\ mpc = "unflag" /\ mpc' = "check" /\ pending \in Conns
        /\ UNCHANGED <<pending, login, queue, state, auth, registry>>
    BY <1>0, <1>3 DEF ClearQueued, At, Working
  <2> QED
    BY <1>0, <2>1 DEF MainInv, Working
<1>4. CASE CheckClosed
  <2>1. /\ mpc = "check" /\ UNCHANGED <<login, queue, state, auth, auth_queued, registry>>
        /\ \/ mpc' = "test" /\ pending' = NULL
           \/ mpc' = "verify" /\ UNCHANGED pending
    BY <1>4 DEF CheckClosed, At
  <2> QED
    BY <1>0, <2>1 DEF MainInv, Working
<1>5. CASE VerifyCredentials
  <2>1. /\ mpc = "verify"
        /\ UNCHANGED <<pending, login, queue, state, auth, auth_queued, registry>>
        /\ \/ mpc' = "load"
           \/ mpc' = "register" /\ Listed(auth[pending])
    BY <1>5 DEF VerifyCredentials, At, session
  <2> QED
    BY <1>0, <2>1 DEF MainInv, Working, Listed
<1>6. CASE RegisterUser
  <2>1. /\ mpc = "register" /\ pending \in Conns /\ Listed(auth[pending])
        /\ auth_stream[pending] \in {pending, NULL}
        /\ UNCHANGED <<pending, login, queue, state, auth, auth_queued>>
    BY <1>0, <1>6 DEF RegisterUser, At, MainInv, Working, SessionInv, session
  <2>2. CASE CanAdd(registry, auth[pending].user)
    <3>1. PICK k \in Slots :
            /\ ~registry[k].in_use
            /\ registry' = [registry EXCEPT ![k] =
                 Entry(auth[pending].user, auth_stream[pending], pending)]
      BY <1>0, <1>6, <2>2, RegisteredEntry
    <3>2. registry'[k] = Entry(auth[pending].user, auth_stream[pending], pending)
      BY <1>0, <3>1
    <3>3. OwnsEntry(pending, registry[k])'
      BY <2>1, <3>2 DEF OwnsEntry, Entry, Listed
    <3>4. mpc' = "establish"
      BY <1>6, <2>2 DEF RegisterUser
    <3> QED
      BY <1>0, <2>1, <3>3, <3>4 DEF MainInv, Working, Listed
  <2>3. CASE ~CanAdd(registry, auth[pending].user)
    BY <1>0, <1>6, <2>1, <2>3 DEF RegisterUser, MainInv, Working, Listed
  <2> QED
    BY <2>2, <2>3
<1>7. CASE Establish
  <2>1. /\ mpc = "establish" /\ mpc' = "load"
        /\ UNCHANGED <<pending, login, queue, auth, auth_queued, registry>>
    BY <1>7 DEF Establish, At
  <2> QED
    BY <1>0, <2>1 DEF MainInv, Working
<1>8. CASE LoadStream
  <2>1. /\ mpc = "load" /\ UNCHANGED <<login, queue, state, auth, auth_queued, registry>>
        /\ \/ mpc' = "test" /\ pending' = NULL
           \/ mpc' = "reply" /\ UNCHANGED pending
    BY <1>8 DEF LoadStream, At, session
  <2> QED
    BY <1>0, <2>1 DEF MainInv, Working
<1>9. CASE SendAuthResp
  <2>1. /\ mpc = "reply" /\ mpc' = "test" /\ pending' = NULL
        /\ \A c \in Conns : c # pending => login'[c] = login[c]
        /\ UNCHANGED <<queue, state, auth, auth_queued, registry>>
    BY <1>0, <1>9 DEF SendAuthResp, At, session
  <2> QED
    BY <1>0, <2>1 DEF MainInv, Working
<1> QED
  BY <1>1, <1>2, <1>3, <1>4, <1>5, <1>6, <1>7, <1>8, <1>9 DEF MainStep

LEMMA NextMainInv ==
  ASSUME ServerInv, [Next]_vars
  PROVE  MainInv'
<1>0. MainInv
  BY DEF ServerInv
<1>1. CASE Signal
  <2>1. /\ UNCHANGED <<pending, login, queue, state, auth, auth_queued, registry>>
        /\ mpc' = mpc \/ (mpc = "blocked" /\ mpc' = "bye")
    BY <1>1 DEF Signal, session
  <2> QED
    BY <1>0, <2>1 DEF MainInv, Working, OwnsEntry, Listed
<1>2. CASE Crash \/ Ended \/ UNCHANGED vars
  BY <1>0, <1>2 DEF Crash, Ended, vars, session, main, MainInv, OwnsEntry, Listed
<1> QED
  BY <1>1, <1>2, ConnectionEventMainInv, PacketEventMainInv, MainStepMainInv DEF Next

-----------------------------------------------------------------------------
LEMMA InitServerInv == Init => ServerInv
<1> SUFFICES ASSUME Init PROVE ServerInv
  OBVIOUS
<1>1. TypeOK
  BY InitTypeOK
<1>2. \A i \in Slots : registry[i].in_use = FALSE
  BY DEF Init, EmptyRegistry, FreeEntry
<1>3. RegistryUnique /\ EntryHasOwner
  BY <1>2 DEF RegistryUnique, UniqueNames, EntryHasOwner
<1>4. EstablishedOwnsEntry /\ SessionInv
  BY DEF Init, EstablishedOwnsEntry, SessionInv, CLOSED, ESTABLISHED
<1>5. QueueHoldsSessions
  BY DEF Init, QueueHoldsSessions
<1>6. FreedOnce /\ MainInv
  BY DEF Init, FreedOnce, MainInv, Working
<1> QED
  BY <1>1, <1>3, <1>4, <1>5, <1>6 DEF ServerInv

LEMMA NextServerInv == ServerInv /\ [Next]_vars => ServerInv'
<1> SUFFICES ASSUME ServerInv, [Next]_vars PROVE ServerInv'
  OBVIOUS
<1>1. TypeOK' /\ RegistryUnique'
  BY NextTypeOK, NextRegistryUnique DEF ServerInv
<1>2. EntryHasOwner' /\ EstablishedOwnsEntry'
  BY NextEntryHasOwner, NextEstablishedOwnsEntry
<1>3. QueueHoldsSessions' /\ FreedOnce'
  BY NextQueueHoldsSessions, NextFreedOnce
<1>4. SessionInv' /\ MainInv'
  BY NextSessionInv, NextMainInv
<1> QED
  BY <1>1, <1>2, <1>3, <1>4 DEF ServerInv

(* The callbacks of any number of connections and main, interleaved in any *)
(* way and stopped by crashes and signals, keep the inductive invariant.   *)
THEOREM ServerCorrect == Spec => []ServerInv
<1> QED
  BY InitServerInv, NextServerInv, PTL DEF Spec

(* The server's variables keep the types of the C code's. *)
THEOREM ServerTypes == Spec => []TypeOK
<1>1. ServerInv => TypeOK
  BY DEF ServerInv
<1> QED
  BY <1>1, ServerCorrect, PTL

(* A user is logged in at most once at a time. *)
THEOREM OneLoginPerUser == Spec => []RegistryUnique
<1>1. ServerInv => RegistryUnique
  BY DEF ServerInv
<1> QED
  BY <1>1, ServerCorrect, PTL

(* Every entry of the registry was earned with credentials of users.txt by *)
(* the connection whose key and stream it holds.                           *)
THEOREM EntriesAreEarned == Spec => []EntryHasOwner
<1>1. ServerInv => EntryHasOwner
  BY DEF ServerInv
<1> QED
  BY <1>1, ServerCorrect, PTL

(* Nobody's BYE, disconnect or login takes away somebody else's entry. *)
THEOREM LoginLasts == Spec => []EstablishedOwnsEntry
<1>1. ServerInv => EstablishedOwnsEntry
  BY DEF ServerInv
<1> QED
  BY <1>1, ServerCorrect, PTL

(* The sessions in the queue are distinct, allocated and wait for main. *)
THEOREM QueuedSessionsWait == Spec => []QueueHoldsSessions
<1>1. ServerInv => QueueHoldsSessions
  BY DEF ServerInv
<1> QED
  BY <1>1, ServerCorrect, PTL

(* Main and on_disconnected never both free a session. *)
THEOREM NoDoubleFree == Spec => []FreedOnce
<1>1. ServerInv => FreedOnce
  BY DEF ServerInv
<1> QED
  BY <1>1, ServerCorrect, PTL

(* A session's state never goes back and never skips a state, although     *)
(* main sets CONN_ESTABLISHED without looking at the state.                *)
LEMMA NextStatesInOrder ==
  ASSUME ServerInv, [Next]_vars
  PROVE  \A c \in Conns : state'[c] \in {state[c], state[c] + 1}
<1>0. SessionInv /\ MainInv /\ state \in [Conns -> CLOSED .. CLOSING]
  BY DEF ServerInv, TypeOK
<1>1. CASE UNCHANGED state
  BY <1>1
<1>2. CASE RegisterUser
  BY <1>2 DEF RegisterUser, session
<1>3. CASE Establish
  <2>1. /\ pending \in Conns /\ state[pending] = AUTH
        /\ state' = [state EXCEPT ![pending] = ESTABLISHED]
    BY <1>0, <1>3 DEF Establish, At, MainInv, Working
  <2> QED
    BY <1>0, <2>1 DEF AUTH, ESTABLISHED
<1>4. ASSUME NEW d \in Conns, OnConnected(d)
      PROVE  \A c \in Conns : state'[c] \in {state[c], state[c] + 1}
  BY <1>0, <1>4 DEF OnConnected, In, SessionInv, CLOSED, HELLO
<1>5. ASSUME NEW d \in Conns, NEW b \in BOOLEAN, ProcessHello(d, b)
      PROVE  \A c \in Conns : state'[c] \in {state[c], state[c] + 1}
  BY <1>0, <1>5 DEF ProcessHello, HELLO, AUTH
<1>6. ASSUME NEW d \in Conns, ProcessBye(d)
      PROVE  \A c \in Conns : state'[c] \in {state[c], state[c] + 1}
  <2>1. UNCHANGED state \/
        (state[d] = ESTABLISHED /\ state' = [state EXCEPT ![d] = CLOSING])
    BY <1>6 DEF ProcessBye
  <2> QED
    BY <1>0, <2>1 DEF CLOSING, ESTABLISHED
<1>7. ASSUME NEW d \in Conns, NEW u \in Users, NEW h \in Hashes,
             ProcessAuthReq(d, u, h)
      PROVE  UNCHANGED state
  BY <1>7 DEF ProcessAuthReq
<1>8. ASSUME NEW d \in Conns, RemoveUser(d)
      PROVE  UNCHANGED state
  BY <1>8 DEF RemoveUser, session
<1> QED
  BY <1>1, <1>2, <1>3, <1>4, <1>5, <1>6, <1>7, <1>8, OwnerFrame

THEOREM StatesGoForward == Spec => StatesInOrder
<1>1. ServerInv /\ [Next]_vars =>
        [\A c \in Conns : state'[c] \in {state[c], state[c] + 1}]_state
  BY NextStatesInOrder
<1> QED
  BY <1>1, ServerCorrect, PTL DEF Spec, StatesInOrder

-----------------------------------------------------------------------------
(* The verdict that main carries from VerifyCredentials to SendAuthResp: a *)
(* positive one is still true of the session when the answer is sent, as   *)
(* callbacks may by then have taken it to CLOSING but no further, and have *)
(* not touched its credentials.                                            *)
VerdictInv ==
  mpc \in {"load", "reply"} /\ ok =>
    Listed(auth[pending]) /\ state[pending] \in {ESTABLISHED, CLOSING}

(* Only these actions change what VerdictInv speaks of. *)
LEMMA VerdictFrame ==
  ASSUME [Next]_vars
  PROVE  \/ /\ UNCHANGED <<auth, state, pending, ok>>
            /\ mpc' \in {"load", "reply"} => mpc' = mpc
         \/ CheckClosed \/ Dequeue \/ VerifyCredentials \/ RegisterUser \/ Establish
         \/ LoadStream \/ SendAuthResp
         \/ \E c \in Conns :
              \/ OnConnected(c) \/ ProcessBye(c)
              \/ \E b \in BOOLEAN : ProcessHello(c, b)
              \/ \E u \in Users, h \in Hashes : WaitsForAnswer(c) /\ ProcessAuthReq(c, u, h)
<1>1. CASE \E c \in Conns : ConnectionEvent(c)
  BY <1>1 DEF ConnectionEvent, NewConnection, HandshakeFails, OnStreamOpen,
              OnStreamClosed, OnDisconnected, MarkClosed, RemoveUser, FreeSession,
              main, session
<1>2. CASE \E c \in Conns : PacketEvent(c)
  BY <1>2 DEF PacketEvent, ProcessKeyReq, ProcessChatSend, ForwardChat, IgnorePacket,
              main, session
<1>3. CASE MainStep
  BY <1>3 DEF MainStep, TestStop, Block, ClearQueued, SendByeAll,
              ShutdownConnections, Destroy, session
<1>4. CASE Signal \/ Crash \/ Ended \/ UNCHANGED vars
  BY <1>4 DEF Signal, Crash, Ended, vars, main, session
<1> QED
  BY <1>1, <1>2, <1>3, <1>4 DEF Next

LEMMA NextVerdictInv ==
  ASSUME ServerInv, VerdictInv, [Next]_vars
  PROVE  VerdictInv'
<1>0. /\ SessionInv /\ MainInv
      /\ state \in [Conns -> CLOSED .. CLOSING]
      /\ auth \in [Conns -> Credentials \cup {NoCredentials}]
      /\ mpc \in Working => pending \in Conns
  BY DEF ServerInv, TypeOK, MainInv
<1> USE <1>0 DEF VerdictInv
<1>1. CASE /\ UNCHANGED <<auth, state, pending, ok>>
           /\ mpc' \in {"load", "reply"} => mpc' = mpc
  BY <1>1 DEF Listed
<1>2. CASE Dequeue \/ CheckClosed
  BY <1>2 DEF Dequeue, CheckClosed
<1>3. CASE VerifyCredentials
  BY <1>3 DEF VerifyCredentials
<1>4. CASE RegisterUser
  BY <1>4 DEF RegisterUser
<1>5. CASE Establish
  <2>1. /\ mpc = "establish" /\ Listed(auth[pending]) /\ pending \in Conns
        /\ UNCHANGED <<auth, pending>>
        /\ state' = [state EXCEPT ![pending] = ESTABLISHED]
    BY <1>5 DEF Establish, At, MainInv, Working
  <2> QED
    BY <2>1 DEF Listed
<1>6. CASE LoadStream
  BY <1>6 DEF LoadStream, At, session, Listed
<1>7. CASE SendAuthResp
  BY <1>7 DEF SendAuthResp
<1>8. ASSUME NEW c \in Conns, OnConnected(c) PROVE VerdictInv'
  <2>1. /\ UNCHANGED <<auth, mpc, pending, ok>>
        /\ state' = [state EXCEPT ![c] = HELLO] /\ state[c] = CLOSED
    BY <1>8 DEF OnConnected, In, SessionInv, main
  <2> QED
    BY <2>1 DEF Listed, CLOSED, ESTABLISHED, CLOSING, Working
<1>9. ASSUME NEW c \in Conns, ProcessBye(c) PROVE VerdictInv'
  <2>1. /\ UNCHANGED <<auth, mpc, pending, ok>>
        /\ \/ UNCHANGED state
           \/ state' = [state EXCEPT ![c] = CLOSING]
    BY <1>9 DEF ProcessBye, main
  <2> QED
    BY <2>1 DEF Listed, Working
<1>10. ASSUME NEW c \in Conns, NEW b \in BOOLEAN, ProcessHello(c, b) PROVE VerdictInv'
  <2>1. /\ UNCHANGED <<auth, mpc, pending, ok>>
        /\ \/ UNCHANGED state
           \/ state[c] = HELLO /\ state' = [state EXCEPT ![c] = AUTH]
    BY <1>10 DEF ProcessHello, main
  <2> QED
    BY <2>1 DEF Listed, Working, HELLO, ESTABLISHED, CLOSING
<1>11. ASSUME NEW c \in Conns, NEW u \in Users, NEW h \in Hashes, WaitsForAnswer(c),
              ProcessAuthReq(c, u, h)
       PROVE  VerdictInv'
  <2>1. /\ UNCHANGED <<state, mpc, pending, ok>>
        /\ login[c] # "asked"
        /\ \/ UNCHANGED auth
           \/ auth' = [auth EXCEPT ![c] = [user |-> u, hash |-> h]]
    BY <1>11 DEF ProcessAuthReq, WaitsForAnswer, main
  <2>2. mpc \in {"load", "reply"} => auth'[pending] = auth[pending]
    BY <2>1 DEF MainInv, Working
  <2> QED
    BY <2>1, <2>2 DEF Listed
<1> QED
  BY <1>1, <1>2, <1>3, <1>4, <1>5, <1>6, <1>7, <1>8, <1>9, <1>10, <1>11, VerdictFrame

(* AUTH_OK leaves the server in SendAuthResp only. *)
LEMMA OnlyMainSaysOk ==
  ASSUME Next, NEW p \in out', p.type = "AUTH_OK"
  PROVE  (SendAuthResp /\ ok /\ p.to = pending) \/ UNCHANGED vars
<1>1. CASE \E c \in Conns : ConnectionEvent(c)
  BY <1>1 DEF ConnectionEvent, NewConnection, HandshakeFails, OnConnected, OnStreamOpen,
              OnStreamClosed, OnDisconnected, MarkClosed, RemoveUser, FreeSession
<1>2. ASSUME NEW c \in Conns, PacketEvent(c) PROVE FALSE
  BY <1>2 DEF PacketEvent, ProcessHello, ProcessAuthReq, ProcessKeyReq, ProcessChatSend,
              ForwardChat, ProcessBye, IgnorePacket, KeyAnswer, KeyPacket, Packet
<1>3. CASE SendAuthResp
  BY <1>3 DEF SendAuthResp, Packet
<1>4. CASE MainStep /\ ~SendAuthResp
  <2>1. SendByeAll \/ out' = {}
    BY <1>4 DEF MainStep, TestStop, Block, Dequeue, ClearQueued, CheckClosed,
                VerifyCredentials, RegisterUser, Establish, LoadStream, ShutdownConnections,
                Destroy
  <2> QED
    BY <2>1 DEF SendByeAll, Packet
<1>5. CASE Signal \/ Crash \/ Ended
  BY <1>5 DEF Signal, Crash, Ended
<1> QED
  BY <1>1, <1>2, <1>3, <1>4, <1>5 DEF Next

(* A client is told that its login succeeded only if users.txt lists the   *)
(* credentials of its session and the session has been established: what   *)
(* main found out before it took the registry's lock still holds when it   *)
(* sends the answer.                                                       *)
THEOREM SuccessIsEarned == Spec => AuthOkIsEarned
<1> DEFINE Earned == \A p \in out' : p.type = "AUTH_OK" =>
                       Listed(auth[p.to]) /\ state[p.to] \in {ESTABLISHED, CLOSING}
<1>1. Init => VerdictInv
  BY DEF Init, VerdictInv
<1>2. ServerInv /\ VerdictInv /\ [Next]_vars => VerdictInv'
  BY NextVerdictInv
<1>3. ServerInv /\ VerdictInv /\ [Next]_vars => [Earned]_vars
  <2>1. SUFFICES ASSUME VerdictInv, Next, ~UNCHANGED vars, NEW p \in out', p.type = "AUTH_OK"
                 PROVE  Listed(auth[p.to]) /\ state[p.to] \in {ESTABLISHED, CLOSING}
    OBVIOUS
  <2>2. mpc = "reply" /\ ok /\ p.to = pending
    BY <2>1, OnlyMainSaysOk DEF SendAuthResp, At
  <2> QED
    BY <2>1, <2>2 DEF VerdictInv
<1> QED
  BY <1>1, <1>2, <1>3, ServerCorrect, PTL DEF Spec, AuthOkIsEarned

-----------------------------------------------------------------------------
(* The server as the user of the authentication queue: its queue and the   *)
(* session main works on, seen as the variables of Fifo.                   *)
Queue == INSTANCE Fifo WITH Sessions <- Conns, q <- queue, last <- pending

LEMMA StepUsesFifo ==
  ASSUME ServerInv, [Next]_vars
  PROVE  [Queue!Next]_<<queue, pending>>
<1>0. TypeOK /\ MainInv /\ NULL \notin Conns
  BY ServerAssumption DEF ServerInv
<1>1. ASSUME NEW c \in Conns, NEW u \in Users, NEW h \in Hashes, WaitsForAnswer(c),
             ProcessAuthReq(c, u, h)
      PROVE  [Queue!Next]_<<queue, pending>>
  <2>1. /\ login[c] # "asked" /\ pending' = pending
        /\ queue' = queue \/ queue' = Append(queue, c)
    BY <1>1 DEF ProcessAuthReq, WaitsForAnswer, main
  <2>2. \A i \in 1..Len(queue) : queue[i] # c
    BY <1>0, <2>1 DEF MainInv
  <2>3. queue' = queue \/ Queue!Enqueue(c)
    BY <2>1, <2>2 DEF Queue!Enqueue
  <2> QED
    BY <2>1, <2>3 DEF Queue!Next
<1>2. CASE \E c \in Conns : ConnectionEvent(c)
  BY <1>2 DEF ConnectionEvent, NewConnection, HandshakeFails, OnConnected, OnStreamOpen,
              OnStreamClosed, OnDisconnected, MarkClosed, RemoveUser, FreeSession, main
<1>3. ASSUME NEW c \in Conns, PacketEvent(c)
      PROVE  [Queue!Next]_<<queue, pending>>
  BY <1>1, <1>3 DEF PacketEvent, ProcessHello, ProcessKeyReq, ProcessChatSend, ForwardChat,
                    ProcessBye, IgnorePacket, main
<1>4. CASE Dequeue
  <2>1. Queue!Dequeue
    BY <1>4 DEF Dequeue, Queue!Dequeue
  <2> QED
    BY <2>1 DEF Queue!Next
<1>5. CASE CheckClosed \/ LoadStream \/ SendAuthResp
  <2>1. pending # NULL /\ queue' = queue /\ pending' \in {pending, NULL}
    BY <1>0, <1>5 DEF MainInv, CheckClosed, LoadStream, SendAuthResp, At, Working
  <2>2. pending' = pending \/ Queue!Release
    BY <2>1 DEF Queue!Release
  <2> QED
    BY <2>1, <2>2 DEF Queue!Next
<1>6. CASE TestStop \/ Block \/ ClearQueued \/ VerifyCredentials \/ RegisterUser \/ Establish
           \/ SendByeAll \/ ShutdownConnections \/ Destroy
  BY <1>6 DEF TestStop, Block, ClearQueued, VerifyCredentials, RegisterUser, Establish,
              SendByeAll, ShutdownConnections, Destroy
<1>7. CASE Signal \/ Crash \/ Ended \/ UNCHANGED vars
  BY <1>7 DEF Signal, Crash, Ended, vars, main
<1> QED
  BY <1>2, <1>3, <1>4, <1>5, <1>6, <1>7 DEF Next, MainStep

(* For clients that wait for their answer (WaitsForAnswer, a condition on  *)
(* the clients and not on the handler), the server asks of the             *)
(* authentication queue only what AuthQueue shows it to do, and main works *)
(* on the oldest session until it is done with it.                         *)
LEMMA WaitingClientsUseFifo == Spec => Queue!Spec
<1>1. Init => Queue!Init
  BY DEF Init, Queue!Init
<1>2. ServerInv /\ [Next]_vars => [Queue!Next]_<<queue, pending>>
  BY StepUsesFifo
<1> QED
  BY <1>1, <1>2, ServerCorrect, PTL DEF Spec, Queue!Spec

(* A client that has its answer finds its session out of the queue and out *)
(* of main's hands: whatever the callbacks and main interleave, AUTH_RESP  *)
(* is sent after the dequeue, so waiting for it is all a client has to do  *)
(* to keep the list of sqmp.c in order.                                    *)
THEOREM AnswersLeaveTheQueue == Spec => []AnsweredLeftQueue
<1>1. ServerInv => AnsweredLeftQueue
  <2> SUFFICES ASSUME ServerInv, NEW c \in Conns, WaitsForAnswer(c)
               PROVE  c # pending /\ \A i \in 1..Len(queue) : queue[i] # c
    BY DEF AnsweredLeftQueue
  <2>1. MainInv /\ TypeOK /\ NULL \notin Conns
    BY ServerAssumption DEF ServerInv
  <2>2. c # pending
    BY <2>1 DEF MainInv, WaitsForAnswer
  <2>3. \A i \in 1..Len(queue) : queue[i] # c
    BY <2>1 DEF MainInv, WaitsForAnswer
  <2> QED
    BY <2>2, <2>3
<1> QED
  BY <1>1, ServerCorrect, PTL
=============================================================================
