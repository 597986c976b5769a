--------------------------- MODULE WrapperProofs ---------------------------
(***************************************************************************)
(* What is used without being held, and that nothing stays held: proofs    *)
(* for any number of connections.  HeldInv is inductive.  It says of every *)
(* context, connection and stream, in both programs, where main and the    *)
(* events must be for it to be held.                                       *)
(***************************************************************************)
EXTENDS Wrapper, TLAPS

(* Where main is, and which connections may still report events. *)
Begin == {"ctx", "lib", "reg", "config", "credential", "open"}
Linked == {"await", "failed", "stream", "streamHandle", "streamStart", "running",
           "disconnect", "closing"}
ClientOnly == {"handle", "connect"} \cup Linked
ServerOnly == {"start", "serving"}
Finish == {"destroy", "configClose", "regClose", "exited"}
Alive == {"handshake", "connected", "ending"}

TypeInv ==
  /\ role \in {"server", "client"}
  /\ mpc \in Begin \cup ClientOnly \cup ServerOnly \cup Finish
  /\ link \in [Conns -> {"none", "shut"} \cup Alive]
  /\ started \subseteq Conns
  /\ opened \subseteq Conns
  /\ connect_sem \in Nat
  /\ closed_sem \in Nat
  /\ role = "server" => mpc \notin ClientOnly /\ asked = FALSE
  /\ role = "client" => mpc \notin ServerOnly

(* There is nothing else to hold. *)
Things == {Ctx, Lib, Reg, Config, Listener} \cup
          UNION {{Conn(c), Handle(c), Stream(c), StreamHandle(c), SendBuf(c)} : c \in Conns}

(* The context, and what main opens and sqmp_quic_destroy closes. *)
BaseInv ==
  /\ Ctx \in held <=> mpc \notin {"ctx", "exited"}
  /\ Lib \in held <=> mpc \notin {"ctx", "lib", "exited"}
  /\ Reg \in held <=> mpc \notin {"ctx", "lib", "reg", "exited"}
  /\ Config \in held => mpc \notin {"ctx", "lib", "reg", "config", "regClose", "exited"}
  /\ mpc \in {"credential", "open"} \cup ClientOnly \cup ServerOnly => Config \in held
  /\ Listener \in held => mpc \in {"start", "serving", "destroy"}
  /\ mpc \in {"start", "serving"} => Listener \in held

(* A connection of the server. *)
ServerConn(c) ==
  /\ Conn(c) \in held <=> link[c] \in Alive
  /\ Handle(c) \in held <=> link[c] \in Alive
  /\ Stream(c) \in held <=> c \in started
  /\ c \in started => StreamHandle(c) \in held /\ link[c] \in {"connected", "ending"}
  /\ SendBuf(c) \in held => c \in started
  /\ link[c] \in Alive \/ StreamHandle(c) \in held =>
       mpc \in {"serving", "destroy", "configClose", "regClose"}

(* The client's connection.  A stream that did not start stays. *)
Streaming == {"running", "disconnect", "closing"}
ClientConn ==
  /\ Conn(own) \in held <=> mpc \in ClientOnly
  /\ Handle(own) \in held <=> mpc \in ClientOnly \ {"handle"}
  /\ own \in started \/ mpc \in {"streamHandle", "streamStart"} => Stream(own) \in held
  /\ own \in started \/ mpc = "streamStart" => StreamHandle(own) \in held
  /\ Stream(own) \in held => StreamHandle(own) \in held \/ mpc = "streamHandle"
  /\ StreamHandle(own) \in held =>
       /\ Stream(own) \in held
       /\ mpc \in {"streamStart", "destroy", "configClose", "regClose"} \cup Streaming
  /\ own \in opened => mpc \in Streaming \cup Finish
  /\ own \in started => mpc \in Streaming /\ link[own] \in {"connected", "ending"}
  /\ SendBuf(own) \in held => own \in started
  /\ link[own] \in Alive => mpc \in Linked
  /\ mpc \in Begin \cup {"handle", "connect"} => link[own] = "none"
  /\ closed_sem > 0 => link[own] = "shut"

NotThere(c) ==
  /\ link[c] = "none" /\ c \notin started /\ c \notin opened
  /\ Conn(c) \notin held /\ Handle(c) \notin held
  /\ Stream(c) \notin held /\ StreamHandle(c) \notin held /\ SendBuf(c) \notin held

HeldInv ==
  /\ TypeInv
  /\ held \subseteq Things
  /\ BaseInv
  /\ role = "server" => \A c \in Conns : ServerConn(c)
  /\ role = "client" => ClientConn /\ \A c \in Conns \ {own} : NotThere(c)
  /\ OnlyHeldIsUsed

-----------------------------------------------------------------------------
LEMMA OwnConn == own \in Conns
BY WrapperAssumption DEF own

(* Things are what they are called after. *)
LEMMA BaseNames ==
  /\ Ctx # Lib /\ Ctx # Reg /\ Ctx # Config /\ Ctx # Listener
  /\ Lib # Reg /\ Lib # Config /\ Lib # Listener
  /\ Reg # Config /\ Reg # Listener /\ Config # Listener
BY DEF Ctx, Lib, Reg, Config, Listener

Fixed == {Ctx, Lib, Reg, Config, Listener}

LEMMA ConnNames ==
  ASSUME NEW c, NEW d
  PROVE  /\ Conn(c) \notin Fixed /\ Handle(c) \notin Fixed /\ Stream(c) \notin Fixed
         /\ StreamHandle(c) \notin Fixed /\ SendBuf(c) \notin Fixed
         /\ Conn(c) # Handle(d) /\ Conn(c) # Stream(d) /\ Conn(c) # StreamHandle(d)
         /\ Conn(c) # SendBuf(d) /\ Handle(c) # Stream(d) /\ Handle(c) # StreamHandle(d)
         /\ Handle(c) # SendBuf(d) /\ Stream(c) # StreamHandle(d) /\ Stream(c) # SendBuf(d)
         /\ StreamHandle(c) # SendBuf(d)
         /\ Conn(c) = Conn(d) => c = d
         /\ Handle(c) = Handle(d) => c = d
         /\ Stream(c) = Stream(d) => c = d
         /\ StreamHandle(c) = StreamHandle(d) => c = d
         /\ SendBuf(c) = SendBuf(d) => c = d
BY DEF Fixed, Ctx, Lib, Reg, Config, Listener, Conn, Handle, Stream, StreamHandle, SendBuf

(* A step that uses what is held. *)
LEMMA DoIsClean ==
  ASSUME NEW who, NEW needs, NEW gets, NEW drops, DoBy(who, needs, gets, drops),
         needs \cup drops \subseteq held
  PROVE  held' = (held \ drops) \cup gets /\ misused' = misused
<1>1. {<<who, r>> : r \in (needs \cup drops) \ held} = {}
  OBVIOUS
<1> QED
  BY <1>1 DEF DoBy

LEMMA StaysClean ==
  ASSUME OnlyHeldIsUsed, misused' = misused, opened \subseteq opened', role' = role
  PROVE  OnlyHeldIsUsed'
BY DEF OnlyHeldIsUsed

LEMMA InThings ==
  /\ {Ctx, Lib, Reg, Config, Listener} \subseteq Things
  /\ \A c \in Conns : {Conn(c), Handle(c), Stream(c), StreamHandle(c), SendBuf(c)} \subseteq Things
BY DEF Things

-----------------------------------------------------------------------------
(* Steps of main that leave connections and streams alone. *)
LEMMA FixedStep ==
  ASSUME HeldInv, Quiet, TypeInv', BaseInv', held' \subseteq Things, misused' = misused,
         \A r : r \notin Fixed => (r \in held' <=> r \in held),
         role = "server" =>
           \/ mpc' = mpc
           \/ mpc \in Begin \cup {"start"}
           \/ mpc' \in {"serving", "destroy", "configClose", "regClose"},
         role = "client" =>
           \/ mpc \in Begin /\ mpc' \in Begin \cup Finish
           \/ mpc \in Finish /\ mpc' \in Finish \ {"exited"}
  PROVE  HeldInv'
<1>1. /\ role' = role /\ link' = link /\ started' = started /\ closed_sem' = closed_sem
      /\ opened' = opened
  BY DEF Quiet, events, sems
<1>2. \A c : /\ Conn(c) \in held' <=> Conn(c) \in held
             /\ Handle(c) \in held' <=> Handle(c) \in held
             /\ Stream(c) \in held' <=> Stream(c) \in held
             /\ StreamHandle(c) \in held' <=> StreamHandle(c) \in held
             /\ SendBuf(c) \in held' <=> SendBuf(c) \in held
  BY ConnNames
<1>3. role = "server" => \A c \in Conns : ServerConn(c)'
  <2> SUFFICES ASSUME role = "server", NEW c \in Conns PROVE ServerConn(c)'
    OBVIOUS
  <2>1. ServerConn(c)
    BY DEF HeldInv
  <2>2. link[c] \in Alive \/ StreamHandle(c) \in held =>
          mpc' \in {"serving", "destroy", "configClose", "regClose"}
    BY <2>1 DEF ServerConn, Begin
  <2> QED
    BY <1>1, <1>2, <2>1, <2>2 DEF ServerConn
<1>4. role = "client" => (ClientConn' /\ \A c \in Conns \ {own} : NotThere(c)')
  <2> SUFFICES ASSUME role = "client"
               PROVE  ClientConn' /\ \A c \in Conns \ {own} : NotThere(c)'
    OBVIOUS
  <2>1. ClientConn /\ \A c \in Conns \ {own} : NotThere(c)
    BY DEF HeldInv
  <2>2. \A c \in Conns \ {own} : NotThere(c)'
    BY <1>1, <1>2, <2>1 DEF NotThere
  <2>3. ClientConn'
    BY <1>1, <1>2, <2>1 DEF ClientConn, Begin, Finish, ClientOnly, Linked, Streaming
  <2> QED
    BY <2>2, <2>3
<1>5. OnlyHeldIsUsed'
  BY <1>1, StaysClean DEF HeldInv
<1> QED
  BY <1>1, <1>3, <1>4, <1>5 DEF HeldInv

(* sqmp_quic_init, sqmp_quic_listen and the first half of                  *)
(* sqmp_quic_connect: r is opened, or undo is closed again.                *)
LEMMA OpenFixed ==
  ASSUME HeldInv, NEW pc, NEW needs, NEW r, NEW next, NEW undo, NEW fail,
         Open(pc, needs, r, next, undo, fail),
         r \in Fixed, undo \subseteq Fixed, mpc = pc => needs \cup undo \subseteq held
  PROVE  /\ mpc = pc /\ held' \subseteq Things /\ misused' = misused /\ Quiet
         /\ \A x : x \notin Fixed => (x \in held' <=> x \in held)
         /\ \/ mpc' = next /\ held' = held \cup {r}
            \/ mpc' = fail /\ held' = held \ undo
<1>1. mpc = pc /\ Quiet /\ OnlyHeldIsUsed /\ held \subseteq Things
  BY DEF Open, At, HeldInv
<1>2. CASE Do(needs, {r}, {}) /\ Goto(next)
  <2>1. {r} \subseteq Things
    BY InThings DEF Fixed
  <2>2. held' = held \cup {r} /\ misused' = misused
    BY <1>1, <1>2, DoIsClean DEF Do
  <2> QED
    BY <1>1, <1>2, <2>1, <2>2 DEF Goto
<1>3. CASE Do(needs, {}, undo) /\ Goto(fail)
  <2>1. held' = held \ undo /\ misused' = misused
    BY <1>1, <1>3, DoIsClean DEF Do
  <2> QED
    BY <1>1, <1>3, <2>1 DEF Goto
<1> QED
  BY <1>2, <1>3 DEF Open

LEMMA OpeningSteps ==
  ASSUME HeldInv,
         AllocContext \/ MsQuicOpen \/ RegistrationOpen \/ ConfigurationOpen \/ ListenerOpen
  PROVE  HeldInv'
<1>0. TypeInv /\ BaseInv
  BY DEF HeldInv
<1>1. CASE AllocContext
  <2>0. Open("ctx", {}, Ctx, "lib", {}, "exited")
    BY <1>1 DEF AllocContext
  <2>1. Ctx \in Fixed /\ {} \subseteq Fixed /\ (mpc = "ctx" => {} \cup {} \subseteq held)
    BY <1>0 DEF Fixed, BaseInv
  <2>2. /\ mpc = "ctx" /\ held' \subseteq Things /\ misused' = misused /\ Quiet
        /\ \A x : x \notin Fixed => (x \in held' <=> x \in held)
        /\ \/ mpc' = "lib" /\ held' = held \cup {Ctx}
           \/ mpc' = "exited" /\ held' = held \ {}
    BY <2>0, <2>1, OpenFixed
  <2>3. TypeInv'
    BY <1>0, <2>0, <2>2 DEF TypeInv, Quiet, events, sems, Begin, Finish, ClientOnly, ServerOnly, Linked
  <2>4. BaseInv'
    BY <1>0, <2>2, BaseNames DEF BaseInv, ClientOnly, ServerOnly, Linked
  <2> QED
    BY <2>0, <2>2, <2>3, <2>4, FixedStep DEF Begin, Finish, TypeInv
<1>2. CASE MsQuicOpen
  <2>0. Open("lib", {Ctx}, Lib, "reg", {Ctx}, "exited")
    BY <1>2 DEF MsQuicOpen
  <2>1. Lib \in Fixed /\ {Ctx} \subseteq Fixed /\ (mpc = "lib" => {Ctx} \cup {Ctx} \subseteq held)
    BY <1>0 DEF Fixed, BaseInv
  <2>2. /\ mpc = "lib" /\ held' \subseteq Things /\ misused' = misused /\ Quiet
        /\ \A x : x \notin Fixed => (x \in held' <=> x \in held)
        /\ \/ mpc' = "reg" /\ held' = held \cup {Lib}
           \/ mpc' = "exited" /\ held' = held \ {Ctx}
    BY <2>0, <2>1, OpenFixed
  <2>3. TypeInv'
    BY <1>0, <2>0, <2>2 DEF TypeInv, Quiet, events, sems, Begin, Finish, ClientOnly, ServerOnly, Linked
  <2>4. BaseInv'
    BY <1>0, <2>2, BaseNames DEF BaseInv, ClientOnly, ServerOnly, Linked
  <2> QED
    BY <2>0, <2>2, <2>3, <2>4, FixedStep DEF Begin, Finish, TypeInv
<1>3. CASE RegistrationOpen
  <2>0. Open("reg", {Lib}, Reg, "config", {Lib, Ctx}, "exited")
    BY <1>3 DEF RegistrationOpen
  <2>1. Reg \in Fixed /\ {Lib, Ctx} \subseteq Fixed /\ (mpc = "reg" => {Lib} \cup {Lib, Ctx} \subseteq held)
    BY <1>0 DEF Fixed, BaseInv
  <2>2. /\ mpc = "reg" /\ held' \subseteq Things /\ misused' = misused /\ Quiet
        /\ \A x : x \notin Fixed => (x \in held' <=> x \in held)
        /\ \/ mpc' = "config" /\ held' = held \cup {Reg}
           \/ mpc' = "exited" /\ held' = held \ {Lib, Ctx}
    BY <2>0, <2>1, OpenFixed
  <2>3. TypeInv'
    BY <1>0, <2>0, <2>2 DEF TypeInv, Quiet, events, sems, Begin, Finish, ClientOnly, ServerOnly, Linked
  <2>4. BaseInv'
    BY <1>0, <2>2, BaseNames DEF BaseInv, ClientOnly, ServerOnly, Linked
  <2> QED
    BY <2>0, <2>2, <2>3, <2>4, FixedStep DEF Begin, Finish, TypeInv
<1>4. CASE ConfigurationOpen
  <2>0. Open("config", {Lib, Reg}, Config, "credential", {}, "destroy")
    BY <1>4 DEF ConfigurationOpen
  <2>1. Config \in Fixed /\ {} \subseteq Fixed /\ (mpc = "config" => {Lib, Reg} \cup {} \subseteq held)
    BY <1>0 DEF Fixed, BaseInv
  <2>2. /\ mpc = "config" /\ held' \subseteq Things /\ misused' = misused /\ Quiet
        /\ \A x : x \notin Fixed => (x \in held' <=> x \in held)
        /\ \/ mpc' = "credential" /\ held' = held \cup {Config}
           \/ mpc' = "destroy" /\ held' = held \ {}
    BY <2>0, <2>1, OpenFixed
  <2>3. TypeInv'
    BY <1>0, <2>0, <2>2 DEF TypeInv, Quiet, events, sems, Begin, Finish, ClientOnly, ServerOnly, Linked
  <2>4. BaseInv'
    BY <1>0, <2>2, BaseNames DEF BaseInv, ClientOnly, ServerOnly, Linked
  <2> QED
    BY <2>0, <2>2, <2>3, <2>4, FixedStep DEF Begin, Finish, TypeInv
<1>5. CASE ListenerOpen
  <2>0. Open("open", {Lib, Reg}, Listener, "start", {}, "destroy") /\ role = "server"
    BY <1>5 DEF ListenerOpen
  <2>1. Listener \in Fixed /\ {} \subseteq Fixed /\ (mpc = "open" => {Lib, Reg} \cup {} \subseteq held)
    BY <1>0 DEF Fixed, BaseInv
  <2>2. /\ mpc = "open" /\ held' \subseteq Things /\ misused' = misused /\ Quiet
        /\ \A x : x \notin Fixed => (x \in held' <=> x \in held)
        /\ \/ mpc' = "start" /\ held' = held \cup {Listener}
           \/ mpc' = "destroy" /\ held' = held \ {}
    BY <2>0, <2>1, OpenFixed
  <2>3. TypeInv'
    BY <1>0, <2>0, <2>2 DEF TypeInv, Quiet, events, sems, Begin, Finish, ClientOnly, ServerOnly, Linked
  <2>4. BaseInv'
    BY <1>0, <2>2, BaseNames DEF BaseInv, ClientOnly, ServerOnly, Linked
  <2> QED
    BY <2>0, <2>2, <2>3, <2>4, FixedStep DEF Begin, Finish, TypeInv
<1> QED
  BY <1>1, <1>2, <1>3, <1>4, <1>5

LEMMA ServingSteps ==
  ASSUME HeldInv, LoadCredential \/ ListenerStart \/ Stop
  PROVE  HeldInv'
<1>0. TypeInv /\ BaseInv /\ held \subseteq Things /\ OnlyHeldIsUsed
  BY DEF HeldInv
<1>1. /\ held' = held /\ misused' = misused /\ Quiet
      /\ \/ mpc = "credential" /\ mpc' \in {"open", "destroy"}
         \/ mpc = "start" /\ mpc' \in {"serving", "destroy"}
         \/ mpc = "serving" /\ mpc' = "destroy"
  <2>1. CASE LoadCredential
    <3>1. mpc = "credential" /\ Lib \in held /\ Config \in held
      BY <1>0, <2>1 DEF LoadCredential, At, BaseInv
    <3>2. Do({Lib, Config}, {}, {}) /\ {Lib, Config} \cup {} \subseteq held
      BY <2>1, <3>1 DEF LoadCredential
    <3>3. held' = (held \ {}) \cup {} /\ misused' = misused
      BY <3>2, DoIsClean DEF Do
    <3> QED
      BY <2>1, <3>1, <3>3 DEF LoadCredential, Goto
  <2>2. CASE ListenerStart
    <3>1. mpc = "start" /\ Lib \in held /\ Listener \in held
      BY <1>0, <2>2 DEF ListenerStart, At, BaseInv
    <3>2. Do({Lib, Listener}, {}, {}) /\ {Lib, Listener} \cup {} \subseteq held
      BY <2>2, <3>1 DEF ListenerStart
    <3>3. held' = (held \ {}) \cup {} /\ misused' = misused
      BY <3>2, DoIsClean DEF Do
    <3> QED
      BY <2>2, <3>1, <3>3 DEF ListenerStart, Goto
  <2>3. CASE Stop
    BY <1>0, <2>3 DEF Stop, At, Goto
  <2> QED
    BY <2>1, <2>2, <2>3
<1>2. TypeInv'
  BY <1>0, <1>1 DEF TypeInv, Quiet, events, sems, Begin, Finish, ClientOnly, ServerOnly, Linked
<1>3. BaseInv'
  BY <1>0, <1>1 DEF BaseInv, ClientOnly, ServerOnly, Linked
<1>4. role = "client" => mpc = "credential"
  BY <1>0, <1>1 DEF TypeInv, ServerOnly
<1> QED
  BY <1>0, <1>1, <1>2, <1>3, <1>4, FixedStep DEF Begin, Finish

LEMMA ClosingSteps ==
  ASSUME HeldInv, ListenerClose \/ ConfigurationClose
  PROVE  HeldInv'
<1>0. TypeInv /\ BaseInv /\ held \subseteq Things /\ OnlyHeldIsUsed
  BY DEF HeldInv
<1>1. PICK r \in {Listener, Config} :
        /\ held' = held \ {r} /\ misused' = misused /\ Quiet
        /\ \/ mpc = "destroy" /\ mpc' = "configClose" /\ r = Listener
           \/ mpc = "configClose" /\ mpc' = "regClose" /\ r = Config
  <2>1. mpc \in {"destroy", "configClose"} => Base \subseteq held
    BY <1>0 DEF BaseInv, Base
  <2>2. \A r : Do(Base, {}, {r} \cap held) /\ Base \subseteq held => held' = held \ {r} /\ misused' = misused
    BY DoIsClean DEF Do
  <2> QED
    BY <2>1, <2>2 DEF ListenerClose, ConfigurationClose, Close, At, Goto
<1>2. TypeInv'
  BY <1>0, <1>1 DEF TypeInv, Quiet, events, sems, Begin, Finish, ClientOnly, ServerOnly, Linked
<1>3. BaseInv'
  BY <1>0, <1>1, BaseNames DEF BaseInv, ClientOnly, ServerOnly, Linked
<1>4. \A x : x \notin Fixed => (x \in held' <=> x \in held)
  BY <1>1 DEF Fixed
<1> QED
  BY <1>0, <1>1, <1>2, <1>3, <1>4, FixedStep DEF Begin, Finish

(* RegistrationClose comes back when no handle is open: nothing is left. *)
LEMMA LastStep ==
  ASSUME HeldInv, RegistrationClose
  PROVE  HeldInv'
<1>0. TypeInv /\ BaseInv /\ held \subseteq Things /\ OnlyHeldIsUsed
  BY DEF HeldInv
<1>1. /\ mpc = "regClose" /\ mpc' = "exited" /\ Quiet
      /\ \A c \in Conns : Handle(c) \notin held /\ StreamHandle(c) \notin held
      /\ held' = held \ {Reg, Lib, Ctx} /\ misused' = misused
  <2>1. mpc = "regClose" /\ Do({}, {}, {Reg, Lib, Ctx})
    BY DEF RegistrationClose, At
  <2>2. {} \cup {Reg, Lib, Ctx} \subseteq held
    BY <1>0, <2>1 DEF BaseInv
  <2> QED
    BY <2>1, <2>2, DoIsClean DEF RegistrationClose, Goto, Do
<1>2. ASSUME NEW c \in Conns
      PROVE  Conn(c) \notin held /\ Stream(c) \notin held /\ SendBuf(c) \notin held
  <2>1. CASE role = "server"
    BY <1>1, <2>1 DEF HeldInv, ServerConn
  <2>2. CASE role = "client"
    BY <1>1, <2>2 DEF HeldInv, ClientConn, NotThere, ClientOnly, Linked
  <2> QED
    BY <1>0, <2>1, <2>2 DEF TypeInv
<1>3. held' = {}
  <2>1. Config \notin held /\ Listener \notin held
    BY <1>0, <1>1 DEF BaseInv
  <2> QED
    BY <1>0, <1>1, <1>2, <2>1 DEF Things
<1>4. TypeInv'
  BY <1>0, <1>1 DEF TypeInv, Quiet, events, sems, Begin, Finish, ClientOnly, ServerOnly, Linked
<1>5. BaseInv'
  BY <1>1, <1>3 DEF BaseInv, ClientOnly, ServerOnly, Linked
<1>6. /\ role' = role /\ link' = link /\ started' = started /\ closed_sem' = closed_sem
      /\ opened' = opened
  BY <1>1 DEF Quiet, events, sems
<1>7. ASSUME role = "server", NEW c \in Conns PROVE ServerConn(c)'
  <2>1. ServerConn(c)
    BY <1>7 DEF HeldInv
  <2>2. link[c] \notin Alive /\ c \notin started
    BY <1>1, <1>2, <2>1 DEF ServerConn
  <2> QED
    BY <1>3, <1>6, <2>2 DEF ServerConn
<1>8. ASSUME role = "client" PROVE ClientConn' /\ \A c \in Conns \ {own} : NotThere(c)'
  <2>1. ClientConn /\ \A c \in Conns \ {own} : NotThere(c)
    BY <1>8 DEF HeldInv
  <2>2. ClientConn'
    BY <1>1, <1>3, <1>6, <2>1 DEF ClientConn, ClientOnly, Linked, Begin, Finish, Streaming
  <2>3. \A c \in Conns \ {own} : NotThere(c)'
    BY <1>3, <1>6, <2>1 DEF NotThere
  <2> QED
    BY <2>2, <2>3
<1>9. OnlyHeldIsUsed'
  BY <1>0, <1>1, <1>6, StaysClean
<1> QED
  BY <1>1, <1>3, <1>4, <1>5, <1>6, <1>7, <1>8, <1>9 DEF HeldInv

-----------------------------------------------------------------------------
(* Steps that open and close what belongs to one connection. *)
ThingsOf(c) == {Conn(c), Handle(c), Stream(c), StreamHandle(c), SendBuf(c)}

SameThings(d) ==
  /\ Conn(d) \in held' <=> Conn(d) \in held
  /\ Handle(d) \in held' <=> Handle(d) \in held
  /\ Stream(d) \in held' <=> Stream(d) \in held
  /\ StreamHandle(d) \in held' <=> StreamHandle(d) \in held
  /\ SendBuf(d) \in held' <=> SendBuf(d) \in held

LEMMA DoForOne ==
  ASSUME NEW c \in Conns, NEW gets \in SUBSET ThingsOf(c),
         NEW drops \in SUBSET ThingsOf(c), HeldInv, held' = (held \ drops) \cup gets
  PROVE  /\ held' \subseteq Things
         /\ \A r : r \in held' <=> (r \in held /\ r \notin drops) \/ r \in gets
         /\ \A r \in Fixed : r \in held' <=> r \in held
         /\ \A d \in Conns \ {c} : SameThings(d)
<1>1. /\ held' \subseteq Things
      /\ \A r : r \in held' <=> (r \in held /\ r \notin drops) \/ r \in gets
  BY InThings DEF HeldInv, ThingsOf
<1>2. \A r \in Fixed : r \notin ThingsOf(c)
  BY ConnNames DEF ThingsOf
<1>3. ASSUME NEW d \in Conns \ {c}
      PROVE  /\ Conn(d) \notin ThingsOf(c) /\ Handle(d) \notin ThingsOf(c)
             /\ Stream(d) \notin ThingsOf(c) /\ StreamHandle(d) \notin ThingsOf(c)
             /\ SendBuf(d) \notin ThingsOf(c)
  BY ConnNames DEF ThingsOf
<1>4. \A d \in Conns \ {c} : SameThings(d)
  BY <1>1, <1>3 DEF SameThings
<1> QED
  BY <1>1, <1>2, <1>4

(* The client's main, between the opening of its connection and its end.   *)
LEMMA OwnStep ==
  ASSUME HeldInv, role = "client", role' = role, TypeInv', ClientConn',
         held' \subseteq Things, misused' = misused,
         \A r \in Fixed : r \in held' <=> r \in held,
         mpc \in {"open"} \cup ClientOnly, mpc' \in ClientOnly \cup {"destroy"},
         \A c \in Conns \ {own} : /\ SameThings(c) /\ link'[c] = link[c]
                                  /\ c \in started' <=> c \in started,
         opened' = opened \/ opened' = opened \cup {own}
  PROVE  HeldInv'
<1>1. BaseInv'
  <2>1. /\ Ctx \in held' <=> Ctx \in held
        /\ Lib \in held' <=> Lib \in held
        /\ Reg \in held' <=> Reg \in held
    BY DEF Fixed
  <2>2. /\ Config \in held' <=> Config \in held
        /\ Listener \in held' <=> Listener \in held
    BY DEF Fixed
  <2>3. BaseInv
    BY DEF HeldInv
  <2> QED
    BY <2>1, <2>2, <2>3 DEF BaseInv, ClientOnly, Linked, ServerOnly
<1>2. \A c \in Conns \ {own} : NotThere(c)'
  BY DEF HeldInv, NotThere, SameThings
<1>3. OnlyHeldIsUsed'
  BY StaysClean DEF HeldInv
<1> QED
  BY <1>1, <1>2, <1>3 DEF HeldInv

(* One step of the client's main that uses needs, opens gets and closes    *)
(* drops; the connections of others are left alone.                        *)
LEMMA OwnDo ==
  ASSUME HeldInv, role = "client", mpc \in {"open"} \cup ClientOnly,
         mpc' \in ClientOnly \cup {"destroy"},
         NEW needs, NEW gets \in SUBSET ThingsOf(own), NEW drops \in SUBSET ThingsOf(own),
         Do(needs, gets, drops), needs \cup drops \subseteq held,
         role' = role, connect_sem' \in Nat, closed_sem' \in Nat,
         link' \in [Conns -> {"none", "shut"} \cup Alive],
         \A c \in Conns \ {own} : link'[c] = link[c],
         started' = started \/ started' = started \cup {own} \/ started' = started \ {own},
         opened' = opened \/ opened' = opened \cup {own},
         (\A r : r \in held' <=> (r \in held /\ r \notin drops) \/ r \in gets) => ClientConn'
  PROVE  HeldInv'
<1>1. own \in Conns
  BY OwnConn
<1>0. held' = (held \ drops) \cup gets /\ misused' = misused
  BY DoIsClean DEF Do
<1>2. /\ held' \subseteq Things
      /\ \A r : r \in held' <=> (r \in held /\ r \notin drops) \/ r \in gets
      /\ \A r \in Fixed : r \in held' <=> r \in held
      /\ \A d \in Conns \ {own} : SameThings(d)
  BY <1>0, <1>1, DoForOne
<1>3. TypeInv'
  BY <1>1 DEF HeldInv, TypeInv, ClientOnly, Linked, ServerOnly, Finish
<1> QED
  BY <1>0, <1>2, <1>3, OwnStep

LEMMA OwnSteps ==
  ASSUME HeldInv,
         \/ AllocConn \/ ConnectionOpen \/ ConnectionStart \/ AwaitConnect
         \/ AllocStream \/ StreamOpen \/ StreamStart \/ Leave \/ Disconnect
  PROVE  HeldInv'
<1>0. /\ TypeInv /\ BaseInv /\ own \in Conns /\ OnlyHeldIsUsed
      /\ mpc \in ClientOnly => role = "client"
      /\ role = "client" => ClientConn
  BY OwnConn DEF HeldInv, TypeInv
<1>a. /\ Conn(own) # Handle(own) /\ Conn(own) # Stream(own) /\ Conn(own) # StreamHandle(own)
      /\ Conn(own) # SendBuf(own) /\ Handle(own) # Stream(own)
      /\ Handle(own) # StreamHandle(own) /\ Handle(own) # SendBuf(own)
      /\ Stream(own) # StreamHandle(own) /\ Stream(own) # SendBuf(own)
      /\ StreamHandle(own) # SendBuf(own)
  BY ConnNames
<1> USE DEF At, Goto, Open
<1>1. CASE AllocConn
  <2>1. mpc = "open" /\ role = "client" /\ ClientConn
    BY <1>0, <1>1 DEF AllocConn, ClientOnly, Linked
  <2>2. /\ role' = role /\ connect_sem' \in Nat /\ closed_sem' = closed_sem /\ closed_sem' \in Nat
        /\ link' \in [Conns -> {"none", "shut"} \cup Alive]
        /\ \A c \in Conns \ {own} : link'[c] = link[c]
        /\ started' = started \/ started' = started \cup {own}
        /\ opened' = opened \/ opened' = opened \cup {own}
    BY <1>0, <1>1 DEF AllocConn, Quiet, events, sems, TypeInv, Alive
  <2>3. CASE Do({Ctx}, {Conn(own)}, {}) /\ mpc' = "handle"
              /\ started' = started /\ link' = link /\ opened' = opened
    <3>1. {Ctx} \cup {} \subseteq held
      BY <1>0, <2>1 DEF BaseInv, ClientConn, ClientOnly, Linked, Base
    <3>2. {Conn(own)} \in SUBSET ThingsOf(own) /\ {} \in SUBSET ThingsOf(own)
      BY DEF ThingsOf
    <3>3. (\A r : r \in held' <=> (r \in held /\ r \notin {}) \/ r \in {Conn(own)}) => ClientConn'
      BY <1>0, <1>a, <2>1, <2>2, <2>3 DEF ClientConn, ClientOnly, Linked, Begin, TypeInv, Alive, Finish, Streaming
    <3>4. mpc \in {"open"} \cup ClientOnly /\ mpc' \in ClientOnly \cup {"destroy"}
      BY <2>1, <2>3 DEF ClientOnly, Linked
    <3> QED
      BY <2>1, <2>2, <2>3, <3>1, <3>2, <3>3, <3>4, OwnDo
  <2>4. CASE Do({Ctx}, {}, {}) /\ mpc' = "destroy"
              /\ started' = started /\ link' = link /\ opened' = opened
    <3>1. {Ctx} \cup {} \subseteq held
      BY <1>0, <2>1 DEF BaseInv, ClientConn, ClientOnly, Linked, Base
    <3>2. {} \in SUBSET ThingsOf(own) /\ {} \in SUBSET ThingsOf(own)
      BY DEF ThingsOf
    <3>3. (\A r : r \in held' <=> (r \in held /\ r \notin {}) \/ r \in {}) => ClientConn'
      BY <1>0, <1>a, <2>1, <2>2, <2>4 DEF ClientConn, ClientOnly, Linked, Begin, TypeInv, Alive, Finish, Streaming
    <3>4. mpc \in {"open"} \cup ClientOnly /\ mpc' \in ClientOnly \cup {"destroy"}
      BY <2>1, <2>4 DEF ClientOnly, Linked
    <3> QED
      BY <2>1, <2>2, <2>4, <3>1, <3>2, <3>3, <3>4, OwnDo
  <2> QED
    BY <1>0, <1>1, <2>2, <2>3, <2>4 DEF AllocConn, Quiet, events
<1>2. CASE ConnectionOpen
  <2>1. mpc = "handle" /\ role = "client" /\ ClientConn
    BY <1>0, <1>2 DEF ConnectionOpen, ClientOnly, Linked
  <2>2. /\ role' = role /\ connect_sem' \in Nat /\ closed_sem' = closed_sem /\ closed_sem' \in Nat
        /\ link' \in [Conns -> {"none", "shut"} \cup Alive]
        /\ \A c \in Conns \ {own} : link'[c] = link[c]
        /\ started' = started \/ started' = started \cup {own}
        /\ opened' = opened \/ opened' = opened \cup {own}
    BY <1>0, <1>2 DEF ConnectionOpen, Quiet, events, sems, TypeInv, Alive
  <2>3. CASE Do({Lib, Reg}, {Handle(own)}, {}) /\ mpc' = "connect"
              /\ started' = started /\ link' = link /\ opened' = opened
    <3>1. {Lib, Reg} \cup {} \subseteq held
      BY <1>0, <2>1 DEF BaseInv, ClientConn, ClientOnly, Linked, Base
    <3>2. {Handle(own)} \in SUBSET ThingsOf(own) /\ {} \in SUBSET ThingsOf(own)
      BY DEF ThingsOf
    <3>3. (\A r : r \in held' <=> (r \in held /\ r \notin {}) \/ r \in {Handle(own)}) => ClientConn'
      BY <1>0, <1>a, <2>1, <2>2, <2>3 DEF ClientConn, ClientOnly, Linked, Begin, TypeInv, Alive, Finish, Streaming
    <3>4. mpc \in {"open"} \cup ClientOnly /\ mpc' \in ClientOnly \cup {"destroy"}
      BY <2>1, <2>3 DEF ClientOnly, Linked
    <3> QED
      BY <2>1, <2>2, <2>3, <3>1, <3>2, <3>3, <3>4, OwnDo
  <2>4. CASE Do({Lib, Reg}, {}, {Conn(own)}) /\ mpc' = "destroy"
              /\ started' = started /\ link' = link /\ opened' = opened
    <3>1. {Lib, Reg} \cup {Conn(own)} \subseteq held
      BY <1>0, <2>1 DEF BaseInv, ClientConn, ClientOnly, Linked, Base
    <3>2. {} \in SUBSET ThingsOf(own) /\ {Conn(own)} \in SUBSET ThingsOf(own)
      BY DEF ThingsOf
    <3>3. (\A r : r \in held' <=> (r \in held /\ r \notin {Conn(own)}) \/ r \in {}) => ClientConn'
      BY <1>0, <1>a, <2>1, <2>2, <2>4 DEF ClientConn, ClientOnly, Linked, Begin, TypeInv, Alive, Finish, Streaming
    <3>4. mpc \in {"open"} \cup ClientOnly /\ mpc' \in ClientOnly \cup {"destroy"}
      BY <2>1, <2>4 DEF ClientOnly, Linked
    <3> QED
      BY <2>1, <2>2, <2>4, <3>1, <3>2, <3>3, <3>4, OwnDo
  <2> QED
    BY <1>0, <1>2, <2>2, <2>3, <2>4 DEF ConnectionOpen, Quiet, events
<1>3. CASE ConnectionStart
  <2>1. mpc = "connect" /\ role = "client" /\ ClientConn
    BY <1>0, <1>3 DEF ConnectionStart, ClientOnly, Linked
  <2>2. /\ role' = role /\ connect_sem' \in Nat /\ closed_sem' = closed_sem /\ closed_sem' \in Nat
        /\ link' \in [Conns -> {"none", "shut"} \cup Alive]
        /\ \A c \in Conns \ {own} : link'[c] = link[c]
        /\ started' = started \/ started' = started \cup {own}
        /\ opened' = opened \/ opened' = opened \cup {own}
    BY <1>0, <1>3 DEF ConnectionStart, Quiet, events, sems, TypeInv, Alive
  <2>3. CASE Do({Lib, Config, Handle(own)}, {}, {}) /\ mpc' = "await"
              /\ link' = [link EXCEPT ![own] = "handshake"] /\ started' = started
              /\ opened' = opened
    <3>1. {Lib, Config, Handle(own)} \cup {} \subseteq held
      BY <1>0, <2>1 DEF BaseInv, ClientConn, ClientOnly, Linked, Base
    <3>2. {} \in SUBSET ThingsOf(own) /\ {} \in SUBSET ThingsOf(own)
      BY DEF ThingsOf
    <3>3. (\A r : r \in held' <=> (r \in held /\ r \notin {}) \/ r \in {}) => ClientConn'
      BY <1>0, <1>a, <2>1, <2>2, <2>3 DEF ClientConn, ClientOnly, Linked, Begin, TypeInv, Alive, Finish, Streaming
    <3>4. mpc \in {"open"} \cup ClientOnly /\ mpc' \in ClientOnly \cup {"destroy"}
      BY <2>1, <2>3 DEF ClientOnly, Linked
    <3> QED
      BY <2>1, <2>2, <2>3, <3>1, <3>2, <3>3, <3>4, OwnDo
  <2>4. CASE Do({Lib, Config}, {}, {Handle(own), Conn(own)}) /\ mpc' = "destroy"
              /\ link' = link /\ started' = started /\ opened' = opened
    <3>1. {Lib, Config} \cup {Handle(own), Conn(own)} \subseteq held
      BY <1>0, <2>1 DEF BaseInv, ClientConn, ClientOnly, Linked, Base
    <3>2. {} \in SUBSET ThingsOf(own) /\ {Handle(own), Conn(own)} \in SUBSET ThingsOf(own)
      BY DEF ThingsOf
    <3>3. (\A r : r \in held' <=> (r \in held /\ r \notin {Handle(own), Conn(own)}) \/ r \in {}) => ClientConn'
      BY <1>0, <1>a, <2>1, <2>2, <2>4 DEF ClientConn, ClientOnly, Linked, Begin, TypeInv, Alive, Finish, Streaming
    <3>4. mpc \in {"open"} \cup ClientOnly /\ mpc' \in ClientOnly \cup {"destroy"}
      BY <2>1, <2>4 DEF ClientOnly, Linked
    <3> QED
      BY <2>1, <2>2, <2>4, <3>1, <3>2, <3>3, <3>4, OwnDo
  <2> QED
    BY <1>0, <1>3, <2>2, <2>3, <2>4 DEF ConnectionStart, Quiet, events
<1>4. CASE AwaitConnect
  <2>1. mpc = "await" /\ role = "client" /\ ClientConn
    BY <1>0, <1>4 DEF AwaitConnect, ClientOnly, Linked
  <2>2. /\ role' = role /\ connect_sem' \in Nat /\ closed_sem' = closed_sem /\ closed_sem' \in Nat
        /\ link' \in [Conns -> {"none", "shut"} \cup Alive]
        /\ \A c \in Conns \ {own} : link'[c] = link[c]
        /\ started' = started \/ started' = started \cup {own}
        /\ opened' = opened \/ opened' = opened \cup {own}
    BY <1>0, <1>4 DEF AwaitConnect, Quiet, events, sems, TypeInv, Alive
  <2>3. CASE Do({Conn(own)}, {}, {}) /\ mpc' \in {"stream", "failed"}
              /\ started' = started /\ link' = link /\ opened' = opened
    <3>1. {Conn(own)} \cup {} \subseteq held
      BY <1>0, <2>1 DEF BaseInv, ClientConn, ClientOnly, Linked, Base
    <3>2. {} \in SUBSET ThingsOf(own) /\ {} \in SUBSET ThingsOf(own)
      BY DEF ThingsOf
    <3>3. (\A r : r \in held' <=> (r \in held /\ r \notin {}) \/ r \in {}) => ClientConn'
      BY <1>0, <1>a, <2>1, <2>2, <2>3 DEF ClientConn, ClientOnly, Linked, Begin, TypeInv, Alive, Finish, Streaming
    <3>4. mpc \in {"open"} \cup ClientOnly /\ mpc' \in ClientOnly \cup {"destroy"}
      BY <2>1, <2>3 DEF ClientOnly, Linked
    <3> QED
      BY <2>1, <2>2, <2>3, <3>1, <3>2, <3>3, <3>4, OwnDo
  <2> QED
    BY <1>0, <1>4, <2>2, <2>3 DEF AwaitConnect, Quiet, events
<1>5. CASE AllocStream
  <2>1. mpc = "stream" /\ role = "client" /\ ClientConn
    BY <1>0, <1>5 DEF AllocStream, ClientOnly, Linked
  <2>2. /\ role' = role /\ connect_sem' \in Nat /\ closed_sem' = closed_sem /\ closed_sem' \in Nat
        /\ link' \in [Conns -> {"none", "shut"} \cup Alive]
        /\ \A c \in Conns \ {own} : link'[c] = link[c]
        /\ started' = started \/ started' = started \cup {own}
        /\ opened' = opened \/ opened' = opened \cup {own}
    BY <1>0, <1>5 DEF AllocStream, Quiet, events, sems, TypeInv, Alive
  <2>3. CASE Do({}, {Stream(own)}, {}) /\ mpc' = "streamHandle"
              /\ started' = started /\ link' = link /\ opened' = opened
    <3>1. {} \cup {} \subseteq held
      BY <1>0, <2>1 DEF BaseInv, ClientConn, ClientOnly, Linked, Base
    <3>2. {Stream(own)} \in SUBSET ThingsOf(own) /\ {} \in SUBSET ThingsOf(own)
      BY DEF ThingsOf
    <3>3. (\A r : r \in held' <=> (r \in held /\ r \notin {}) \/ r \in {Stream(own)}) => ClientConn'
      BY <1>0, <1>a, <2>1, <2>2, <2>3 DEF ClientConn, ClientOnly, Linked, Begin, TypeInv, Alive, Finish, Streaming
    <3>4. mpc \in {"open"} \cup ClientOnly /\ mpc' \in ClientOnly \cup {"destroy"}
      BY <2>1, <2>3 DEF ClientOnly, Linked
    <3> QED
      BY <2>1, <2>2, <2>3, <3>1, <3>2, <3>3, <3>4, OwnDo
  <2>4. CASE Do({}, {}, {}) /\ mpc' = "disconnect"
              /\ started' = started /\ link' = link /\ opened' = opened
    <3>1. {} \cup {} \subseteq held
      BY <1>0, <2>1 DEF BaseInv, ClientConn, ClientOnly, Linked, Base
    <3>2. {} \in SUBSET ThingsOf(own) /\ {} \in SUBSET ThingsOf(own)
      BY DEF ThingsOf
    <3>3. (\A r : r \in held' <=> (r \in held /\ r \notin {}) \/ r \in {}) => ClientConn'
      BY <1>0, <1>a, <2>1, <2>2, <2>4 DEF ClientConn, ClientOnly, Linked, Begin, TypeInv, Alive, Finish, Streaming
    <3>4. mpc \in {"open"} \cup ClientOnly /\ mpc' \in ClientOnly \cup {"destroy"}
      BY <2>1, <2>4 DEF ClientOnly, Linked
    <3> QED
      BY <2>1, <2>2, <2>4, <3>1, <3>2, <3>3, <3>4, OwnDo
  <2> QED
    BY <1>0, <1>5, <2>2, <2>3, <2>4 DEF AllocStream, Quiet, events
<1>6. CASE StreamOpen
  <2>1. mpc = "streamHandle" /\ role = "client" /\ ClientConn
    BY <1>0, <1>6 DEF StreamOpen, ClientOnly, Linked
  <2>2. /\ role' = role /\ connect_sem' \in Nat /\ closed_sem' = closed_sem /\ closed_sem' \in Nat
        /\ link' \in [Conns -> {"none", "shut"} \cup Alive]
        /\ \A c \in Conns \ {own} : link'[c] = link[c]
        /\ started' = started \/ started' = started \cup {own}
        /\ opened' = opened \/ opened' = opened \cup {own}
    BY <1>0, <1>6 DEF StreamOpen, Quiet, events, sems, TypeInv, Alive
  <2>3. CASE Do({Conn(own), Handle(own)} \cup Base, {StreamHandle(own)}, {}) /\ mpc' = "streamStart"
              /\ started' = started /\ link' = link /\ opened' = opened
    <3>1. {Conn(own), Handle(own)} \cup Base \cup {} \subseteq held
      BY <1>0, <2>1 DEF BaseInv, ClientConn, ClientOnly, Linked, Base
    <3>2. {StreamHandle(own)} \in SUBSET ThingsOf(own) /\ {} \in SUBSET ThingsOf(own)
      BY DEF ThingsOf
    <3>3. (\A r : r \in held' <=> (r \in held /\ r \notin {}) \/ r \in {StreamHandle(own)}) => ClientConn'
      BY <1>0, <1>a, <2>1, <2>2, <2>3 DEF ClientConn, ClientOnly, Linked, Begin, TypeInv, Alive, Finish, Streaming
    <3>4. mpc \in {"open"} \cup ClientOnly /\ mpc' \in ClientOnly \cup {"destroy"}
      BY <2>1, <2>3 DEF ClientOnly, Linked
    <3> QED
      BY <2>1, <2>2, <2>3, <3>1, <3>2, <3>3, <3>4, OwnDo
  <2>4. CASE Do({Conn(own), Handle(own)} \cup Base, {}, {Stream(own)}) /\ mpc' = "disconnect"
              /\ started' = started /\ link' = link /\ opened' = opened
    <3>1. {Conn(own), Handle(own)} \cup Base \cup {Stream(own)} \subseteq held
      BY <1>0, <2>1 DEF BaseInv, ClientConn, ClientOnly, Linked, Base
    <3>2. {} \in SUBSET ThingsOf(own) /\ {Stream(own)} \in SUBSET ThingsOf(own)
      BY DEF ThingsOf
    <3>3. (\A r : r \in held' <=> (r \in held /\ r \notin {Stream(own)}) \/ r \in {}) => ClientConn'
      BY <1>0, <1>a, <2>1, <2>2, <2>4 DEF ClientConn, ClientOnly, Linked, Begin, TypeInv, Alive, Finish, Streaming
    <3>4. mpc \in {"open"} \cup ClientOnly /\ mpc' \in ClientOnly \cup {"destroy"}
      BY <2>1, <2>4 DEF ClientOnly, Linked
    <3> QED
      BY <2>1, <2>2, <2>4, <3>1, <3>2, <3>3, <3>4, OwnDo
  <2> QED
    BY <1>0, <1>6, <2>2, <2>3, <2>4 DEF StreamOpen, Quiet, events
<1>7. CASE StreamStart
  <2>1. mpc = "streamStart" /\ role = "client" /\ ClientConn
    BY <1>0, <1>7 DEF StreamStart, ClientOnly, Linked
  <2>2. /\ role' = role /\ connect_sem' \in Nat /\ closed_sem' = closed_sem /\ closed_sem' \in Nat
        /\ link' \in [Conns -> {"none", "shut"} \cup Alive]
        /\ \A c \in Conns \ {own} : link'[c] = link[c]
        /\ started' = started \/ started' = started \cup {own}
        /\ opened' = opened \/ opened' = opened \cup {own}
    BY <1>0, <1>7 DEF StreamStart, Quiet, events, sems, TypeInv, Alive
  <2>3. CASE Do({StreamHandle(own)} \cup Base, {}, {}) /\ mpc' = "running"
              /\ \/ link[own] = "connected" /\ started' = started \cup {own}
                 \/ started' = started
              /\ link' = link /\ opened' = opened \cup {own}
    <3>1. {StreamHandle(own)} \cup Base \cup {} \subseteq held
      BY <1>0, <2>1 DEF BaseInv, ClientConn, ClientOnly, Linked, Base
    <3>2. {} \in SUBSET ThingsOf(own) /\ {} \in SUBSET ThingsOf(own)
      BY DEF ThingsOf
    <3>3. (\A r : r \in held' <=> (r \in held /\ r \notin {}) \/ r \in {}) => ClientConn'
      BY <1>0, <1>a, <2>1, <2>2, <2>3 DEF ClientConn, ClientOnly, Linked, Begin, TypeInv, Alive, Finish, Streaming
    <3>4. mpc \in {"open"} \cup ClientOnly /\ mpc' \in ClientOnly \cup {"destroy"}
      BY <2>1, <2>3 DEF ClientOnly, Linked
    <3> QED
      BY <2>1, <2>2, <2>3, <3>1, <3>2, <3>3, <3>4, OwnDo
  <2>4. CASE Do({Conn(own)} \cup Base, {}, {StreamHandle(own), Stream(own)}) /\ mpc' = "disconnect"
              /\ started' = started /\ link' = link /\ opened' = opened
    <3>1. {Conn(own)} \cup Base \cup {StreamHandle(own), Stream(own)} \subseteq held
      BY <1>0, <2>1 DEF BaseInv, ClientConn, ClientOnly, Linked, Base
    <3>2. {} \in SUBSET ThingsOf(own) /\ {StreamHandle(own), Stream(own)} \in SUBSET ThingsOf(own)
      BY DEF ThingsOf
    <3>3. (\A r : r \in held' <=> (r \in held /\ r \notin {StreamHandle(own), Stream(own)}) \/ r \in {}) => ClientConn'
      BY <1>0, <1>a, <2>1, <2>2, <2>4 DEF ClientConn, ClientOnly, Linked, Begin, TypeInv, Alive, Finish, Streaming
    <3>4. mpc \in {"open"} \cup ClientOnly /\ mpc' \in ClientOnly \cup {"destroy"}
      BY <2>1, <2>4 DEF ClientOnly, Linked
    <3> QED
      BY <2>1, <2>2, <2>4, <3>1, <3>2, <3>3, <3>4, OwnDo
  <2> QED
    BY <1>0, <1>7, <2>2, <2>3, <2>4 DEF StreamStart, Quiet, events
<1>8. CASE Leave
  <2>1. mpc = "running" /\ mpc' = "disconnect" /\ role = "client" /\ ClientConn
    BY <1>0, <1>8 DEF Leave, ClientOnly, Linked
  <2>2. /\ held' = held /\ misused' = misused /\ role' = role /\ link' = link /\ started' = started /\ opened' = opened
        /\ connect_sem' = connect_sem /\ closed_sem' = closed_sem /\ asked' = asked
    BY <1>8 DEF Leave, Quiet, events, sems
  <2>3. TypeInv'
    BY <1>0, <2>1, <2>2 DEF TypeInv, ClientOnly, Linked, ServerOnly
  <2>4. ClientConn'
    BY <2>1, <2>2 DEF ClientConn, ClientOnly, Linked, Begin, Finish, Streaming
  <2>5. held' \subseteq Things /\ misused' = misused /\ \A c \in Conns \ {own} : SameThings(c)
    BY <2>2 DEF HeldInv, SameThings
  <2>6. mpc \in {"open"} \cup ClientOnly /\ mpc' \in ClientOnly \cup {"destroy"}
    BY <2>1 DEF ClientOnly, Linked
  <2> QED
    BY <2>1, <2>2, <2>3, <2>4, <2>5, <2>6, OwnStep
<1>9. CASE Disconnect
  <2>1. mpc = "disconnect" /\ role = "client" /\ ClientConn
    BY <1>0, <1>9 DEF Disconnect, ClientOnly, Linked
  <2>2. /\ role' = role /\ connect_sem' \in Nat /\ closed_sem' = closed_sem /\ closed_sem' \in Nat
        /\ link' \in [Conns -> {"none", "shut"} \cup Alive]
        /\ \A c \in Conns \ {own} : link'[c] = link[c]
        /\ started' = started \/ started' = started \cup {own}
        /\ opened' = opened \/ opened' = opened \cup {own}
    BY <1>0, <1>9 DEF Disconnect, Quiet, events, sems, TypeInv, Alive
  <2>3. CASE Do({Conn(own), Handle(own)} \cup Base, {}, {}) /\ mpc' = "closing"
              /\ started' = started /\ link' = link /\ opened' = opened
    <3>1. {Conn(own), Handle(own)} \cup Base \cup {} \subseteq held
      BY <1>0, <2>1 DEF BaseInv, ClientConn, ClientOnly, Linked, Base
    <3>2. {} \in SUBSET ThingsOf(own) /\ {} \in SUBSET ThingsOf(own)
      BY DEF ThingsOf
    <3>3. (\A r : r \in held' <=> (r \in held /\ r \notin {}) \/ r \in {}) => ClientConn'
      BY <1>0, <1>a, <2>1, <2>2, <2>3 DEF ClientConn, ClientOnly, Linked, Begin, TypeInv, Alive, Finish, Streaming
    <3>4. mpc \in {"open"} \cup ClientOnly /\ mpc' \in ClientOnly \cup {"destroy"}
      BY <2>1, <2>3 DEF ClientOnly, Linked
    <3> QED
      BY <2>1, <2>2, <2>3, <3>1, <3>2, <3>3, <3>4, OwnDo
  <2> QED
    BY <1>0, <1>9, <2>2, <2>3 DEF Disconnect, Quiet, events
<1> QED
  BY <1>1, <1>2, <1>3, <1>4, <1>5, <1>6, <1>7, <1>8, <1>9

(* closed_sem has been posted: the connection has reported its end, and    *)
(* its streams had reported theirs before.                                 *)
LEMMA OwnClose ==
  ASSUME HeldInv, AwaitFailed \/ AwaitClosed
  PROVE  HeldInv'
<1>0. TypeInv /\ BaseInv /\ own \in Conns
  BY OwnConn DEF HeldInv
<1>1. /\ mpc \in {"failed", "closing"} /\ mpc' = "destroy"
      /\ closed_sem > 0 /\ closed_sem' = closed_sem - 1 /\ connect_sem' = connect_sem
      /\ Do(Base, {}, {Handle(own), Conn(own)})
      /\ role' = role /\ link' = link /\ started' = started /\ opened' = opened
  BY DEF AwaitFailed, AwaitClosed, CloseConnection, At, Goto, events
<1>2. role = "client" /\ ClientConn
  BY <1>0, <1>1 DEF HeldInv, TypeInv, ClientOnly, Linked
<1>3. link[own] = "shut" /\ own \notin started
  BY <1>1, <1>2 DEF ClientConn
<1>4. Base \cup {Handle(own), Conn(own)} \subseteq held
  BY <1>0, <1>1, <1>2 DEF BaseInv, Base, ClientConn, ClientOnly, Linked
<1>5. /\ {} \in SUBSET ThingsOf(own)
      /\ {Handle(own), Conn(own)} \in SUBSET ThingsOf(own)
  BY DEF ThingsOf
<1>6. (\A r : r \in held' <=> (r \in held /\ r \notin {Handle(own), Conn(own)}) \/ r \in {})
        => ClientConn'
  <2>1. /\ Conn(own) # Stream(own) /\ Conn(own) # StreamHandle(own) /\ Conn(own) # SendBuf(own)
        /\ Handle(own) # Stream(own) /\ Handle(own) # StreamHandle(own)
        /\ Handle(own) # SendBuf(own)
    BY ConnNames
  <2> QED
    BY <1>0, <1>1, <1>2, <1>3, <2>1 DEF ClientConn, ClientOnly, Linked, Begin, TypeInv, Alive, Finish, Streaming
<1>7. /\ mpc \in {"open"} \cup ClientOnly /\ mpc' \in ClientOnly \cup {"destroy"}
      /\ connect_sem' \in Nat /\ closed_sem' \in Nat
      /\ link' \in [Conns -> {"none", "shut"} \cup Alive]
      /\ \A c \in Conns \ {own} : link'[c] = link[c]
  BY <1>0, <1>1 DEF ClientOnly, Linked, TypeInv
<1> QED
  BY <1>1, <1>2, <1>4, <1>5, <1>6, <1>7, OwnDo

-----------------------------------------------------------------------------
(* Events.  What a connection that may report one has. *)
LEMMA AliveHas ==
  ASSUME HeldInv, NEW c \in Conns, link[c] \in Alive
  PROVE  /\ Callback(c) \subseteq held
         /\ Handle(c) \in held
         /\ role = "client" => c = own /\ mpc \in Linked
<1>1. ASSUME role = "server"
      PROVE  Conn(c) \in held /\ Handle(c) \in held /\ mpc \in {"serving", "destroy", "configClose", "regClose"}
  BY <1>1 DEF HeldInv, ServerConn
<1>2. ASSUME role = "client"
      PROVE  Conn(c) \in held /\ Handle(c) \in held /\ c = own /\ mpc \in Linked
  <2>1. c = own
    BY <1>2 DEF HeldInv, NotThere, Alive
  <2> QED
    BY <1>2, <2>1 DEF HeldInv, ClientConn, ClientOnly, Linked
<1>3. Ctx \in held /\ Lib \in held
  BY <1>1, <1>2 DEF HeldInv, BaseInv, TypeInv, Linked
<1> QED
  BY <1>1, <1>2, <1>3 DEF Callback, Base, HeldInv, TypeInv

LEMMA StreamHas ==
  ASSUME HeldInv, NEW c \in Conns, c \in started
  PROVE  /\ link[c] \in {"connected", "ending"}
         /\ Stream(c) \in held /\ StreamHandle(c) \in held
         /\ role = "client" => mpc \in Streaming /\ c = own
<1>1. CASE role = "server"
  BY <1>1 DEF HeldInv, ServerConn
<1>2. CASE role = "client"
  <2>1. c = own
    BY <1>2 DEF HeldInv, NotThere
  <2> QED
    BY <1>2, <2>1 DEF HeldInv, ClientConn
<1> QED
  BY <1>1, <1>2 DEF HeldInv, TypeInv

(* An event of c changes what is held of c and nothing else. *)
LEMMA EventChange ==
  ASSUME HeldInv, NEW c \in Conns, mpc' = mpc, role' = role, asked' = asked,
         NEW gets \in SUBSET ThingsOf(c), NEW drops \in SUBSET ThingsOf(c),
         held' = (held \ drops) \cup gets, OnlyHeldIsUsed',
         connect_sem' \in Nat, closed_sem' \in Nat,
         link' \in [Conns -> {"none", "shut"} \cup Alive],
         \A d \in Conns \ {c} : link'[d] = link[d],
         started' = started \/ started' = started \cup {c} \/ started' = started \ {c},
         opened' = opened \/ opened' = opened \cup {c},
         role = "client" => c = own,
         (\A r : r \in held' <=> (r \in held /\ r \notin drops) \/ r \in gets) =>
           (role = "server" => ServerConn(c)') /\ (role = "client" => ClientConn')
  PROVE  HeldInv'
<1>1. /\ held' \subseteq Things
      /\ \A r : r \in held' <=> (r \in held /\ r \notin drops) \/ r \in gets
      /\ \A r \in Fixed : r \in held' <=> r \in held
      /\ \A d \in Conns \ {c} : SameThings(d)
  BY DoForOne
<1>2. TypeInv'
  BY DEF HeldInv, TypeInv
<1>3. BaseInv'
  BY <1>1 DEF HeldInv, BaseInv, Fixed
<1>4. ASSUME role = "server", NEW d \in Conns \ {c} PROVE ServerConn(d)'
  <2>1. ServerConn(d) /\ SameThings(d) /\ link'[d] = link[d] /\ (d \in started' <=> d \in started)
    BY <1>1, <1>4 DEF HeldInv
  <2> QED
    BY <2>1 DEF ServerConn, SameThings
<1>5. ASSUME role = "client", NEW d \in Conns \ {c} PROVE NotThere(d)'
  <2>1. NotThere(d) /\ SameThings(d) /\ link'[d] = link[d] /\ (d \in started' <=> d \in started)
    BY <1>1, <1>5 DEF HeldInv
  <2> QED
    BY <2>1 DEF NotThere, SameThings
<1> QED
  BY <1>1, <1>2, <1>3, <1>4, <1>5 DEF HeldInv

LEMMA EventStep ==
  ASSUME HeldInv, NEW c \in Conns, mpc' = mpc, role' = role, asked' = asked,
         NEW who, NEW needs, NEW gets \in SUBSET ThingsOf(c), NEW drops \in SUBSET ThingsOf(c),
         DoBy(who, needs, gets, drops), needs \cup drops \subseteq held,
         connect_sem' \in Nat, closed_sem' \in Nat,
         link' \in [Conns -> {"none", "shut"} \cup Alive],
         \A d \in Conns \ {c} : link'[d] = link[d],
         started' = started \/ started' = started \cup {c} \/ started' = started \ {c},
         opened' = opened \/ opened' = opened \cup {c},
         role = "client" => c = own,
         (\A r : r \in held' <=> (r \in held /\ r \notin drops) \/ r \in gets) =>
           (role = "server" => ServerConn(c)') /\ (role = "client" => ClientConn')
  PROVE  HeldInv'
<1>1. held' = (held \ drops) \cup gets /\ misused' = misused
  BY DoIsClean
<1>2. OnlyHeldIsUsed'
  BY <1>1, StaysClean DEF HeldInv
<1> QED
  BY <1>1, <1>2, EventChange

LEMMA EventSteps ==
  ASSUME HeldInv, NEW c \in Conns, Event(c)
  PROVE  HeldInv'
<1>0. /\ TypeInv /\ BaseInv /\ link[c] \in {"none", "shut"} \cup Alive
      /\ role = "server" => ServerConn(c)
      /\ role = "client" => ClientConn
  BY DEF HeldInv, TypeInv
<1>a. /\ Conn(c) # Handle(c) /\ Conn(c) # Stream(c) /\ Conn(c) # StreamHandle(c)
      /\ Conn(c) # SendBuf(c) /\ Handle(c) # Stream(c) /\ Handle(c) # StreamHandle(c)
      /\ Handle(c) # SendBuf(c) /\ Stream(c) # StreamHandle(c) /\ Stream(c) # SendBuf(c)
      /\ StreamHandle(c) # SendBuf(c)
  BY ConnNames
<1>1. CASE NewConnection(c)
  <2>1. role = "server" /\ mpc = "serving" /\ link[c] = "none"
    BY <1>0, <1>1 DEF NewConnection, At
  <2>2. {Config} \cup Base \subseteq held /\ (role = "client" => c = own)
    BY <1>0, <2>1 DEF BaseInv, Base, ServerOnly
  <2>3. /\ mpc' = mpc /\ role' = role /\ asked' = asked
        /\ connect_sem' \in Nat /\ closed_sem' \in Nat
        /\ link' \in [Conns -> {"none", "shut"} \cup Alive]
        /\ \A d \in Conns \ {c} : link'[d] = link[d]
    BY <1>0, <1>1 DEF NewConnection, Quiet, events, sems, TypeInv, Alive, At
  <2>4. CASE /\ Do({Config} \cup Base, {Conn(c), Handle(c)}, {})
              /\ link' = [link EXCEPT ![c] = "handshake"] /\ started' = started /\ closed_sem' = closed_sem
              /\ opened' = opened
    <3>1. {Config} \cup Base \cup {} \subseteq held
      BY <2>1, <2>2
    <3>2. {Conn(c), Handle(c)} \in SUBSET ThingsOf(c) /\ {} \in SUBSET ThingsOf(c)
      BY DEF ThingsOf
    <3>3. (\A r : r \in held' <=> (r \in held /\ r \notin {}) \/ r \in {Conn(c), Handle(c)}) =>
            (role = "server" => ServerConn(c)')
      BY <1>0, <1>a, <2>1, <2>2, <2>3, <2>4 DEF ServerConn, TypeInv, Alive
    <3>4. (\A r : r \in held' <=> (r \in held /\ r \notin {}) \/ r \in {Conn(c), Handle(c)}) =>
            (role = "client" => ClientConn')
      BY <1>0, <1>a, <2>1, <2>2, <2>3, <2>4
      DEF ClientConn, TypeInv, Alive, ClientOnly, Linked, Begin, Finish, Streaming
    <3> QED
      BY <2>2, <2>3, <2>4, <3>1, <3>2, <3>3, <3>4, EventStep DEF Do
  <2>5. CASE /\ Do({Ctx}, {}, {}) \/ DoBy("refuse", {Config, Handle(c)} \cup Base, {}, {})
             /\ link' = [link EXCEPT ![c] = "shut"] /\ started' = started
             /\ opened' = opened /\ closed_sem' = closed_sem
    <3>1. held' = (held \ {}) \cup {}
      BY <2>5 DEF Do, DoBy
    <3>2. {} \in SUBSET ThingsOf(c)
      OBVIOUS
    <3>3. misused' \subseteq misused \cup {<<"refuse", Handle(c)>>}
      <4>1. CASE Do({Ctx}, {}, {})
        <5>1. {Ctx} \cup {} \subseteq held
          BY <2>2 DEF Base
        <5> QED
          BY <4>1, <5>1, DoIsClean DEF Do
      <4>2. CASE DoBy("refuse", {Config, Handle(c)} \cup Base, {}, {})
        <5>1. (({Config, Handle(c)} \cup Base) \cup {}) \ held \subseteq {Handle(c)}
          BY <2>2
        <5> QED
          BY <4>2, <5>1 DEF DoBy
      <4> QED
        BY <2>5, <4>1, <4>2
    <3>4. OnlyHeldIsUsed'
      <4>1. OnlyHeldIsUsed
        BY DEF HeldInv
      <4> QED
        BY <2>1, <2>3, <2>5, <3>3, <4>1 DEF OnlyHeldIsUsed
    <3>5. (\A r : r \in held' <=> (r \in held /\ r \notin {}) \/ r \in {}) =>
            (role = "server" => ServerConn(c)')
      BY <1>0, <1>a, <2>1, <2>2, <2>3, <2>5 DEF ServerConn, TypeInv, Alive
    <3> QED
      BY <2>1, <2>2, <2>3, <2>5, <3>1, <3>2, <3>4, <3>5, EventChange
  <2> QED
    BY <1>0, <1>1, <2>4, <2>5 DEF NewConnection, Quiet, events, sems
<1>2. CASE Connected(c)
  <2>1. link[c] = "handshake"
    BY <1>0, <1>2 DEF Connected, At
  <2>2. /\ link[c] \in Alive /\ Callback(c) \subseteq held /\ Handle(c) \in held /\ Conn(c) \in held
        /\ role = "client" => c = own /\ mpc \in Linked
    <3>1. link[c] \in Alive
      BY <2>1 DEF Alive
    <3> QED
      BY <3>1, AliveHas DEF Callback
  <2>3. /\ mpc' = mpc /\ role' = role /\ asked' = asked
        /\ connect_sem' \in Nat /\ closed_sem' \in Nat
        /\ link' \in [Conns -> {"none", "shut"} \cup Alive]
        /\ \A d \in Conns \ {c} : link'[d] = link[d]
    BY <1>0, <1>2 DEF Connected, Quiet, events, sems, TypeInv, Alive, At
  <2>4. CASE /\ Do(Callback(c), {}, {})
              /\ link' = [link EXCEPT ![c] = "connected"] /\ started' = started /\ closed_sem' = closed_sem
              /\ opened' = opened
    <3>1. Callback(c) \cup {} \subseteq held
      BY <2>1, <2>2
    <3>2. {} \in SUBSET ThingsOf(c) /\ {} \in SUBSET ThingsOf(c)
      BY DEF ThingsOf
    <3>3. (\A r : r \in held' <=> (r \in held /\ r \notin {}) \/ r \in {}) =>
            (role = "server" => ServerConn(c)')
      BY <1>0, <1>a, <2>1, <2>2, <2>3, <2>4 DEF ServerConn, TypeInv, Alive
    <3>4. (\A r : r \in held' <=> (r \in held /\ r \notin {}) \/ r \in {}) =>
            (role = "client" => ClientConn')
      BY <1>0, <1>a, <2>1, <2>2, <2>3, <2>4
      DEF ClientConn, TypeInv, Alive, ClientOnly, Linked, Begin, Finish, Streaming
    <3> QED
      BY <2>2, <2>3, <2>4, <3>1, <3>2, <3>3, <3>4, EventStep DEF Do
  <2> QED
    BY <1>0, <1>2, <2>4 DEF Connected, Quiet, events, sems
<1>3. CASE ShutdownInitiated(c)
  <2>1. link[c] \in {"handshake", "connected"}
    BY <1>0, <1>3 DEF ShutdownInitiated, At
  <2>2. /\ link[c] \in Alive /\ Callback(c) \subseteq held /\ Handle(c) \in held /\ Conn(c) \in held
        /\ role = "client" => c = own /\ mpc \in Linked
    <3>1. link[c] \in Alive
      BY <2>1 DEF Alive
    <3> QED
      BY <3>1, AliveHas DEF Callback
  <2>3. /\ mpc' = mpc /\ role' = role /\ asked' = asked
        /\ connect_sem' \in Nat /\ closed_sem' \in Nat
        /\ link' \in [Conns -> {"none", "shut"} \cup Alive]
        /\ \A d \in Conns \ {c} : link'[d] = link[d]
    BY <1>0, <1>3 DEF ShutdownInitiated, Quiet, events, sems, TypeInv, Alive, At
  <2>4. CASE /\ Do(Callback(c), {}, {})
              /\ link' = [link EXCEPT ![c] = "ending"] /\ started' = started /\ closed_sem' = closed_sem
              /\ opened' = opened
    <3>1. Callback(c) \cup {} \subseteq held
      BY <2>1, <2>2
    <3>2. {} \in SUBSET ThingsOf(c) /\ {} \in SUBSET ThingsOf(c)
      BY DEF ThingsOf
    <3>3. (\A r : r \in held' <=> (r \in held /\ r \notin {}) \/ r \in {}) =>
            (role = "server" => ServerConn(c)')
      BY <1>0, <1>a, <2>1, <2>2, <2>3, <2>4 DEF ServerConn, TypeInv, Alive
    <3>4. (\A r : r \in held' <=> (r \in held /\ r \notin {}) \/ r \in {}) =>
            (role = "client" => ClientConn')
      BY <1>0, <1>a, <2>1, <2>2, <2>3, <2>4
      DEF ClientConn, TypeInv, Alive, ClientOnly, Linked, Begin, Finish, Streaming
    <3> QED
      BY <2>2, <2>3, <2>4, <3>1, <3>2, <3>3, <3>4, EventStep DEF Do
  <2> QED
    BY <1>0, <1>3, <2>4 DEF ShutdownInitiated, Quiet, events, sems
<1>4. CASE ConnShutdownComplete(c)
  <2>1. link[c] \in {"connected", "ending"} /\ c \notin started
    BY <1>0, <1>4 DEF ConnShutdownComplete, At
  <2>2. /\ link[c] \in Alive /\ Callback(c) \subseteq held /\ Handle(c) \in held /\ Conn(c) \in held
        /\ role = "client" => c = own /\ mpc \in Linked
    <3>1. link[c] \in Alive
      BY <2>1 DEF Alive
    <3> QED
      BY <3>1, AliveHas DEF Callback
  <2>3. /\ mpc' = mpc /\ role' = role /\ asked' = asked
        /\ connect_sem' \in Nat /\ closed_sem' \in Nat
        /\ link' \in [Conns -> {"none", "shut"} \cup Alive]
        /\ \A d \in Conns \ {c} : link'[d] = link[d]
    BY <1>0, <1>4 DEF ConnShutdownComplete, Quiet, events, sems, TypeInv, Alive, At
  <2>4. CASE /\ Do(Callback(c), {}, Ended(c))
              /\ link' = [link EXCEPT ![c] = "shut"] /\ started' = started /\ role = "server" /\ closed_sem' = closed_sem
              /\ opened' = opened
    <3>1. Callback(c) \cup Ended(c) \subseteq held
      BY <2>1, <2>2 DEF Ended
    <3>2. {} \in SUBSET ThingsOf(c) /\ Ended(c) \in SUBSET ThingsOf(c)
      BY DEF ThingsOf, Ended
    <3>3. (\A r : r \in held' <=> (r \in held /\ r \notin Ended(c)) \/ r \in {}) =>
            (role = "server" => ServerConn(c)')
      BY <1>0, <1>a, <2>1, <2>2, <2>3, <2>4 DEF ServerConn, TypeInv, Alive, Ended
    <3>4. (\A r : r \in held' <=> (r \in held /\ r \notin Ended(c)) \/ r \in {}) =>
            (role = "client" => ClientConn')
      BY <1>0, <1>a, <2>1, <2>2, <2>3, <2>4
      DEF ClientConn, TypeInv, Alive, ClientOnly, Linked, Begin, Finish, Streaming, Ended
    <3> QED
      BY <2>2, <2>3, <2>4, <3>1, <3>2, <3>3, <3>4, EventStep DEF Do
  <2>5. CASE /\ Do(Callback(c), {}, {})
              /\ link' = [link EXCEPT ![c] = "shut"] /\ started' = started /\ role = "client"
              /\ opened' = opened
    <3>1. Callback(c) \cup {} \subseteq held
      BY <2>1, <2>2
    <3>2. {} \in SUBSET ThingsOf(c) /\ {} \in SUBSET ThingsOf(c)
      BY DEF ThingsOf
    <3>3. (\A r : r \in held' <=> (r \in held /\ r \notin {}) \/ r \in {}) =>
            (role = "server" => ServerConn(c)')
      BY <1>0, <1>a, <2>1, <2>2, <2>3, <2>5 DEF ServerConn, TypeInv, Alive
    <3>4. (\A r : r \in held' <=> (r \in held /\ r \notin {}) \/ r \in {}) =>
            (role = "client" => ClientConn')
      BY <1>0, <1>a, <2>1, <2>2, <2>3, <2>5
      DEF ClientConn, TypeInv, Alive, ClientOnly, Linked, Begin, Finish, Streaming
    <3> QED
      BY <2>2, <2>3, <2>5, <3>1, <3>2, <3>3, <3>4, EventStep DEF Do
  <2> QED
    BY <1>0, <1>4, <2>4, <2>5 DEF ConnShutdownComplete, Quiet, events, sems
<1>5. CASE PeerStreamStarted(c)
  <2>1. role = "server" /\ link[c] = "connected" /\ StreamHandle(c) \notin held
    BY <1>0, <1>5 DEF PeerStreamStarted, At
  <2>2. /\ link[c] \in Alive /\ Callback(c) \subseteq held /\ Handle(c) \in held /\ Conn(c) \in held
        /\ role = "client" => c = own /\ mpc \in Linked
    <3>1. link[c] \in Alive
      BY <2>1 DEF Alive
    <3> QED
      BY <3>1, AliveHas DEF Callback
  <2>3. /\ mpc' = mpc /\ role' = role /\ asked' = asked
        /\ connect_sem' \in Nat /\ closed_sem' \in Nat
        /\ link' \in [Conns -> {"none", "shut"} \cup Alive]
        /\ \A d \in Conns \ {c} : link'[d] = link[d]
    BY <1>0, <1>5 DEF PeerStreamStarted, Quiet, events, sems, TypeInv, Alive, At
  <2>4. CASE /\ Do(Callback(c), {Stream(c), StreamHandle(c)}, {})
              /\ link' = link /\ started' = started \cup {c} /\ closed_sem' = closed_sem
              /\ opened' = opened \cup {c}
    <3>1. Callback(c) \cup {} \subseteq held
      BY <2>1, <2>2
    <3>2. {Stream(c), StreamHandle(c)} \in SUBSET ThingsOf(c) /\ {} \in SUBSET ThingsOf(c)
      BY DEF ThingsOf
    <3>3. (\A r : r \in held' <=> (r \in held /\ r \notin {}) \/ r \in {Stream(c), StreamHandle(c)}) =>
            (role = "server" => ServerConn(c)')
      BY <1>0, <1>a, <2>1, <2>2, <2>3, <2>4 DEF ServerConn, TypeInv, Alive
    <3>4. (\A r : r \in held' <=> (r \in held /\ r \notin {}) \/ r \in {Stream(c), StreamHandle(c)}) =>
            (role = "client" => ClientConn')
      BY <1>0, <1>a, <2>1, <2>2, <2>3, <2>4
      DEF ClientConn, TypeInv, Alive, ClientOnly, Linked, Begin, Finish, Streaming
    <3> QED
      BY <2>2, <2>3, <2>4, <3>1, <3>2, <3>3, <3>4, EventStep DEF Do
  <2>5. CASE /\ Do(Callback(c), {StreamHandle(c)}, {})
              /\ link' = link /\ started' = started /\ closed_sem' = closed_sem
              /\ opened' = opened
    <3>1. Callback(c) \cup {} \subseteq held
      BY <2>1, <2>2
    <3>2. {StreamHandle(c)} \in SUBSET ThingsOf(c) /\ {} \in SUBSET ThingsOf(c)
      BY DEF ThingsOf
    <3>3. (\A r : r \in held' <=> (r \in held /\ r \notin {}) \/ r \in {StreamHandle(c)}) =>
            (role = "server" => ServerConn(c)')
      BY <1>0, <1>a, <2>1, <2>2, <2>3, <2>5 DEF ServerConn, TypeInv, Alive
    <3>4. (\A r : r \in held' <=> (r \in held /\ r \notin {}) \/ r \in {StreamHandle(c)}) =>
            (role = "client" => ClientConn')
      BY <1>0, <1>a, <2>1, <2>2, <2>3, <2>5
      DEF ClientConn, TypeInv, Alive, ClientOnly, Linked, Begin, Finish, Streaming
    <3> QED
      BY <2>2, <2>3, <2>5, <3>1, <3>2, <3>3, <3>4, EventStep DEF Do
  <2> QED
    BY <1>0, <1>5, <2>4, <2>5 DEF PeerStreamStarted, Quiet, events, sems
<1>6. CASE StreamShutdownComplete(c)
  <2>1. c \in started /\ SendBuf(c) \notin held
    BY <1>0, <1>6 DEF StreamShutdownComplete, At
  <2>b. /\ link[c] \in {"connected", "ending"} /\ Stream(c) \in held /\ StreamHandle(c) \in held
        /\ c \in started
    BY <2>1, StreamHas
  <2>2. /\ link[c] \in Alive /\ Callback(c) \subseteq held /\ Handle(c) \in held /\ Conn(c) \in held
        /\ role = "client" => c = own /\ mpc \in Linked
    <3>1. link[c] \in Alive
      BY <2>b DEF Alive
    <3> QED
      BY <3>1, AliveHas DEF Callback
  <2>3. /\ mpc' = mpc /\ role' = role /\ asked' = asked
        /\ connect_sem' \in Nat /\ closed_sem' \in Nat
        /\ link' \in [Conns -> {"none", "shut"} \cup Alive]
        /\ \A d \in Conns \ {c} : link'[d] = link[d]
    BY <1>0, <1>6 DEF StreamShutdownComplete, Quiet, events, sems, TypeInv, Alive, At
  <2>4. CASE /\ Do({Stream(c)} \cup Callback(c), {}, {StreamHandle(c), Stream(c)})
              /\ link' = link /\ started' = started \ {c} /\ closed_sem' = closed_sem
              /\ opened' = opened
    <3>1. {Stream(c)} \cup Callback(c) \cup {StreamHandle(c), Stream(c)} \subseteq held
      BY <2>b, <2>1, <2>2
    <3>2. {} \in SUBSET ThingsOf(c) /\ {StreamHandle(c), Stream(c)} \in SUBSET ThingsOf(c)
      BY DEF ThingsOf
    <3>3. (\A r : r \in held' <=> (r \in held /\ r \notin {StreamHandle(c), Stream(c)}) \/ r \in {}) =>
            (role = "server" => ServerConn(c)')
      BY <1>0, <1>a, <2>b, <2>1, <2>2, <2>3, <2>4 DEF ServerConn, TypeInv, Alive
    <3>4. (\A r : r \in held' <=> (r \in held /\ r \notin {StreamHandle(c), Stream(c)}) \/ r \in {}) =>
            (role = "client" => ClientConn')
      BY <1>0, <1>a, <2>b, <2>1, <2>2, <2>3, <2>4
      DEF ClientConn, TypeInv, Alive, ClientOnly, Linked, Begin, Finish, Streaming
    <3> QED
      BY <2>2, <2>3, <2>4, <3>1, <3>2, <3>3, <3>4, EventStep DEF Do
  <2> QED
    BY <1>0, <1>6, <2>4 DEF StreamShutdownComplete, Quiet, events, sems
<1>7. CASE StreamSend(c)
  <2> DEFINE needs == IF Stream(c) \in held THEN {Stream(c), StreamHandle(c)} \cup Callback(c)
                      ELSE {Stream(c)}
  <2>1. c \in opened /\ MaySend
    BY <1>7 DEF StreamSend
  <2>2. role = "client" => c = own /\ mpc \in Streaming
    <3> SUFFICES ASSUME role = "client" PROVE c = own /\ mpc \in Streaming
      OBVIOUS
    <3>1. c = own
      BY <2>1 DEF HeldInv, NotThere
    <3>2. started # {} => own \in started
      BY <1>0 DEF HeldInv, NotThere, TypeInv
    <3>3. own \in started => mpc \in Streaming
      BY <1>0 DEF ClientConn
    <3>4. mpc # "serving"
      BY <1>0 DEF TypeInv, ServerOnly
    <3> QED
      BY <2>1, <3>1, <3>2, <3>3, <3>4 DEF MaySend, Streaming
  <2>3. Stream(c) \in held => {Stream(c), StreamHandle(c)} \cup Callback(c) \subseteq held
    <3> SUFFICES ASSUME Stream(c) \in held PROVE {Stream(c), StreamHandle(c)} \cup Callback(c) \subseteq held
      OBVIOUS
    <3>1. CASE role = "server"
      <4>1. c \in started
        BY <1>0, <3>1 DEF ServerConn
      <4>2. link[c] \in Alive /\ StreamHandle(c) \in held
        BY <4>1, StreamHas DEF Alive
      <4> QED
        BY <4>2, AliveHas
    <3>2. CASE role = "client"
      <4>1. c = own /\ mpc \in Streaming /\ ClientConn
        BY <1>0, <2>2, <3>2
      <4>2. StreamHandle(c) \in held /\ Conn(c) \in held
        BY <4>1 DEF ClientConn, Streaming, ClientOnly, Linked
      <4>3. Base \subseteq held
        BY <1>0, <4>1 DEF BaseInv, Base, Streaming
      <4> QED
        BY <4>2, <4>3 DEF Callback
    <3> QED
      BY <1>0, <3>1, <3>2 DEF TypeInv
  <2>4. /\ mpc' = mpc /\ role' = role /\ asked' = asked /\ link' = link /\ started' = started
        /\ opened' = opened /\ connect_sem' = connect_sem /\ closed_sem' = closed_sem
    BY <1>7 DEF StreamSend, Quiet, events, sems
  <2>5. PICK gets \in {{}, {SendBuf(c)}} :
          DoBy("send", needs, gets, {}) /\ (gets # {} => c \in started)
    BY <1>7 DEF StreamSend
  <2> HIDE DEF needs
  <2>6. held' = (held \ {}) \cup gets
    BY <2>5 DEF DoBy
  <2>7. OnlyHeldIsUsed'
    <3>1. (needs \cup {}) \ held \subseteq {Stream(c)}
      BY <2>3 DEF needs
    <3>2. misused' \subseteq misused \cup {<<"send", Stream(c)>>}
      BY <2>5, <3>1 DEF DoBy
    <3>3. OnlyHeldIsUsed
      BY DEF HeldInv
    <3> QED
      BY <2>1, <2>4, <3>2, <3>3 DEF OnlyHeldIsUsed
  <2>8. {} \in SUBSET ThingsOf(c) /\ gets \in SUBSET ThingsOf(c)
    BY <2>5 DEF ThingsOf
  <2>9. /\ connect_sem' \in Nat /\ closed_sem' \in Nat
        /\ link' \in [Conns -> {"none", "shut"} \cup Alive]
        /\ \A d \in Conns \ {c} : link'[d] = link[d]
    BY <1>0, <2>4 DEF TypeInv
  <2>10. (\A r : r \in held' <=> (r \in held /\ r \notin {}) \/ r \in gets) =>
           (role = "server" => ServerConn(c)')
    BY <1>0, <1>a, <2>4, <2>5 DEF ServerConn
  <2>11. (\A r : r \in held' <=> (r \in held /\ r \notin {}) \/ r \in gets) =>
           (role = "client" => ClientConn')
    BY <1>0, <1>a, <2>2, <2>4, <2>5 DEF ClientConn
  <2> QED
    BY <2>2, <2>4, <2>6, <2>7, <2>8, <2>9, <2>10, <2>11, EventChange
<1>8. CASE SendComplete(c)
  <2>1. SendBuf(c) \in held
    BY <1>0, <1>8 DEF SendComplete, At
  <2>a. c \in started
    <3>1. role = "client" => c = own
      BY <2>1 DEF HeldInv, NotThere
    <3> QED
      BY <1>0, <2>1, <3>1 DEF ServerConn, ClientConn, TypeInv
  <2>b. /\ link[c] \in {"connected", "ending"} /\ Stream(c) \in held /\ StreamHandle(c) \in held
        /\ c \in started
    BY <2>a, StreamHas
  <2>2. /\ link[c] \in Alive /\ Callback(c) \subseteq held /\ Handle(c) \in held /\ Conn(c) \in held
        /\ role = "client" => c = own /\ mpc \in Linked
    <3>1. link[c] \in Alive
      BY <2>b DEF Alive
    <3> QED
      BY <3>1, AliveHas DEF Callback
  <2>3. /\ mpc' = mpc /\ role' = role /\ asked' = asked
        /\ connect_sem' \in Nat /\ closed_sem' \in Nat
        /\ link' \in [Conns -> {"none", "shut"} \cup Alive]
        /\ \A d \in Conns \ {c} : link'[d] = link[d]
    BY <1>0, <1>8 DEF SendComplete, Quiet, events, sems, TypeInv, Alive, At
  <2>4. CASE /\ Do({Stream(c)} \cup Callback(c), {}, {SendBuf(c)})
              /\ link' = link /\ started' = started /\ closed_sem' = closed_sem
              /\ opened' = opened
    <3>1. {Stream(c)} \cup Callback(c) \cup {SendBuf(c)} \subseteq held
      BY <2>b, <2>1, <2>2
    <3>2. {} \in SUBSET ThingsOf(c) /\ {SendBuf(c)} \in SUBSET ThingsOf(c)
      BY DEF ThingsOf
    <3>3. (\A r : r \in held' <=> (r \in held /\ r \notin {SendBuf(c)}) \/ r \in {}) =>
            (role = "server" => ServerConn(c)')
      BY <1>0, <1>a, <2>b, <2>1, <2>2, <2>3, <2>4 DEF ServerConn, TypeInv, Alive
    <3>4. (\A r : r \in held' <=> (r \in held /\ r \notin {SendBuf(c)}) \/ r \in {}) =>
            (role = "client" => ClientConn')
      BY <1>0, <1>a, <2>b, <2>1, <2>2, <2>3, <2>4
      DEF ClientConn, TypeInv, Alive, ClientOnly, Linked, Begin, Finish, Streaming
    <3> QED
      BY <2>2, <2>3, <2>4, <3>1, <3>2, <3>3, <3>4, EventStep DEF Do
  <2> QED
    BY <1>0, <1>8, <2>4 DEF SendComplete, Quiet, events, sems
<1> QED
  BY <1>1, <1>2, <1>3, <1>4, <1>5, <1>6, <1>7, <1>8 DEF Event

-----------------------------------------------------------------------------
LEMMA InitHeldInv ==
  ASSUME Init
  PROVE  HeldInv
<1>1. TypeInv
  BY DEF Init, TypeInv, Begin, ClientOnly, ServerOnly, Linked
<1>2. BaseInv
  BY DEF Init, BaseInv, ClientOnly, ServerOnly, Linked
<1>3. \A c \in Conns : ServerConn(c) /\ NotThere(c)
  BY DEF Init, ServerConn, NotThere, Alive
<1>4. ClientConn
  BY OwnConn DEF Init, ClientConn, ClientOnly, Linked, Begin, Alive, Streaming
<1> QED
  BY <1>1, <1>2, <1>3, <1>4 DEF HeldInv, Init, OnlyHeldIsUsed

LEMMA NextHeldInv ==
  ASSUME HeldInv, [Next]_vars
  PROVE  HeldInv'
<1>1. CASE Next
  <2>1. \/ AllocContext \/ MsQuicOpen \/ RegistrationOpen \/ ConfigurationOpen \/ ListenerOpen
        \/ LoadCredential \/ ListenerStart \/ Stop
        \/ ListenerClose \/ ConfigurationClose \/ RegistrationClose
        \/ AllocConn \/ ConnectionOpen \/ ConnectionStart \/ AwaitConnect
        \/ AllocStream \/ StreamOpen \/ StreamStart \/ Leave \/ Disconnect
        \/ AwaitFailed \/ AwaitClosed
        \/ \E c \in Conns : Event(c)
    BY <1>1 DEF Next, MainStep, ListenConfigures, ConnectConfigures
  <2> QED
    BY <2>1, OpeningSteps, ServingSteps, ClosingSteps, LastStep, OwnSteps, OwnClose, EventSteps
<1>2. CASE UNCHANGED vars
  BY <1>2 DEF vars, events, sems, HeldInv, TypeInv, BaseInv, ServerConn, ClientConn, NotThere,
         OnlyHeldIsUsed
<1> QED
  BY <1>1, <1>2

(* What msquic_wrapper.c holds at every point of main and at every event   *)
(* (HeldInv, above), whichever of its calls failed on the way there.       *)
THEOREM HeldCorrect == Spec => []HeldInv
<1>1. Init => HeldInv
  BY InitHeldInv
<1>2. HeldInv /\ [Next]_vars => HeldInv'
  BY NextHeldInv
<1> QED
  BY <1>1, <1>2, PTL DEF Spec

(* Callbacks and main use and release no context, connection, stream or    *)
(* buffer that is not, or no longer, there, but for sqmp_stream_send over  *)
(* the address of a freed stream and a refused connection's handle.        *)
THEOREM NoUseAfterRelease == Spec => []OnlyHeldIsUsed
<1>1. HeldInv => OnlyHeldIsUsed
  BY DEF HeldInv, OnlyHeldIsUsed
<1> QED
  BY <1>1, HeldCorrect, PTL

(* Whichever call of sqmp_quic_init, sqmp_quic_listen, sqmp_quic_connect   *)
(* or sqmp_stream_open fails, a program that exits has released all.       *)
THEOREM EverythingIsReleased == Spec => []NothingLeaks
<1>1. HeldInv => NothingLeaks
  <2> SUFFICES ASSUME HeldInv, mpc = "exited" PROVE held = {}
    BY DEF NothingLeaks
  <2>1. Ctx \notin held /\ Lib \notin held /\ Reg \notin held /\ Config \notin held /\ Listener \notin held
    BY DEF HeldInv, BaseInv
  <2>2. ASSUME NEW c \in Conns PROVE \A r \in ThingsOf(c) : r \notin held
    <3>1. CASE role = "server"
      <4>1. ServerConn(c)
        BY <3>1 DEF HeldInv
      <4> QED
        BY <4>1 DEF ServerConn, ThingsOf
    <3>2. CASE role = "client"
      <4>1. c = own => ClientConn
        BY <3>2 DEF HeldInv
      <4>2. c # own => NotThere(c)
        BY <3>2 DEF HeldInv
      <4> QED
        BY <4>1, <4>2 DEF ClientConn, NotThere, ThingsOf, ClientOnly, Linked, Streaming
    <3> QED
      BY <3>1, <3>2 DEF HeldInv, TypeInv
  <2> QED
    BY <2>1, <2>2 DEF HeldInv, Things, ThingsOf
<1> QED
  BY <1>1, HeldCorrect, PTL
=============================================================================
