---------------------------- MODULE RelayProofs ----------------------------
(***************************************************************************)
(* What a terminal shows: proofs for any number of logins, users, messages *)
(* and registry entries.  RelayInv is inductive.  It ties every packet in  *)
(* flight and every line shown to the message of the log it is about; most *)
(* of it only says something of messages that have been sent, and Grows    *)
(* says that no step changes what is said of those.  FateInv, inductive    *)
(* with it, counts the packets about each message: Moves says which        *)
(* messages a step touches and that all others keep theirs.                *)
(***************************************************************************)
EXTENDS Relay, RegistryProofs, SequenceTheorems

Entered == Live \cup {"ended", "early"}  \* the registry has its entry
Phases == Entered \cup {"new", "gone"}
Fates == {"typed", "not sent", "sent", "refused", "forwarded", "dropped", "cut",
          "lost", "unreadable", "read"}
Messages == [from : Logins, to : Users, key : Logins \cup {NULL}, late : BOOLEAN,
             astray : BOOLEAN, fate : Fates]

TypeInv ==
  /\ registry \in [Slots -> Entries(Users, Logins, Logins)]
  /\ phase \in [Logins -> Phases]
  /\ younger \in [Logins -> SUBSET Logins]
  /\ typing \in [Logins -> Ids \cup {NULL}]
  /\ sem \in [Logins -> Nat]
  /\ result \in [Logins -> Logins \cup {NULL}]
  /\ late \in [Logins -> BOOLEAN]
  /\ log \in Seq(Messages)
  /\ Len(log) <= MaxMessages

(* The registry holds all logins from register_user to on_disconnected,    *)
(* with their own name; what else is in it is left from logins gone.       *)
EntryOf(m) == Entry(UserOf[m], m, m)
RegistryInv ==
  /\ UniqueNames(registry)
  /\ \A i \in Slots : registry[i].in_use =>
       \E m \in Logins : phase[m] # "new" /\ registry[i] = EntryOf(m)
  /\ \A m \in Logins : phase[m] \in Entered => \E i \in Slots : registry[i] = EntryOf(m)

(* A message that is being typed is its login's and has no key yet. *)
TypingInv ==
  \A l \in Logins : typing[l] # NULL =>
    /\ phase[l] = "chat"
    /\ typing[l] \in 1..Len(log)
    /\ log[typing[l]].from = l
    /\ log[typing[l]].key = NULL

(* Nothing is under way to or from a login that is not live. *)
QuietInv ==
  \A l \in Logins : phase[l] \notin Live => up[l] = << >> /\ down[l] = << >>

(* Keys are those of logins that were registered; the key of a message     *)
(* that was not fetched late is its addressee's.                           *)
KeysInv ==
  /\ \A l \in Logins : result[l] # NULL => phase[result[l]] # "new"
  /\ \A i \in 1..Len(log) : log[i].key # NULL =>
       /\ phase[log[i].key] # "new"
       /\ log[i].late \/ UserOf[log[i].key] = log[i].to

(* The messages that were encrypted, those of a login, and those that may  *)
(* be on their way to, or shown by, a login.                               *)
Encrypted == {i \in 1..Len(log) : log[i].key # NULL}
SentBy(l) == {i \in Encrypted : log[i].from = l}
Fitting(l) ==
  {i \in Encrypted :
     /\ UserOf[l] = log[i].to \/ log[i].astray
     /\ \/ log[i].late \/ log[i].astray
        \/ log[i].key = l
        \/ UserOf[log[i].key] = UserOf[l] /\ phase[log[i].key] = "gone"}
Cipher(i) == Encrypt(log[i].key, i)

KeyReqs == {KeyReq(u) : u \in Users}
Answers == {KeyResp(k) : k \in Logins} \cup {UserNotFound(0)}

(* The packets that may be under way from and to a login, and the lines    *)
(* that its terminal may have shown.                                       *)
UpSet(l) == KeyReqs \cup {ChatSend(log[i].to, Cipher(i)) : i \in SentBy(l)}
DownSet(l) ==
  {AuthResp, UserNotFound(0)} \cup
  {KeyResp(k) : k \in {m \in Logins : phase[m] # "new"}} \cup
  {UserNotFound(i) : i \in 1..Len(log)} \cup
  {CouldNotSend(i) : i \in 1..Len(log)} \cup
  {ChatDeliver(UserOf[log[i].from], Cipher(i)) : i \in Fitting(l)}
ShownSet(l) ==
  {[sender |-> UserOf[log[i].from], text |-> Decrypt(l, Cipher(i)), id |-> i] :
     i \in Fitting(l)}

UpInv ==
  /\ up = [l \in Logins |-> up[l]]
  /\ \A l \in Logins : up[l] \in Seq(UpSet(l))
DownInv ==
  /\ down = [l \in Logins |-> down[l]]
  /\ \A l \in Logins : down[l] \in Seq(DownSet(l))
ShownInv ==
  /\ shown = [l \in Logins |-> shown[l]]
  /\ \A l \in Logins : shown[l] \subseteq ShownSet(l)

(* As long as no fetch was given up and no message refused, there is at    *)
(* most one KEY_REQ, or its answer, or its post, and it is about the       *)
(* message that is being typed.                                            *)
None(s, T) == \A i \in 1..Len(s) : s[i] \notin T
Single(s, T) == \A i, j \in 1..Len(s) : s[i] \in T /\ s[j] \in T => i = j

(* The answers that are not about the user u. *)
Others(u) == {KeyResp(k) : k \in {m \in Logins : UserOf[m] # u}}

FetchOK(l) ==
  /\ Single(up[l], KeyReqs)
  /\ Single(down[l], Answers)
  /\ sem[l] \in {0, 1}
  /\ ~None(up[l], KeyReqs) => None(down[l], Answers) /\ sem[l] = 0
  /\ ~None(down[l], Answers) => sem[l] = 0
  /\ typing[l] = NULL => None(up[l], KeyReqs) /\ None(down[l], Answers) /\ sem[l] = 0
  /\ typing[l] # NULL =>
       /\ None(up[l], KeyReqs \ {KeyReq(log[typing[l]].to)})
       /\ None(down[l], Others(log[typing[l]].to))
       /\ sem[l] = 1 /\ result[l] # NULL => UserOf[result[l]] = log[typing[l]].to

FetchInv == \A l \in Logins : ~late[l] => FetchOK(l)

(* At most one packet is about a message, and none is when its fate is     *)
(* settled or it is still being typed; CHAT_DELIVER is only about messages *)
(* that were sent on, and terminals show messages that were read.          *)
Flying == {"sent", "forwarded"}
NoneAbout(q, i) == \A k \in 1..Len(q) : q[k].about # i
OneAbout(q, i) == \A j, k \in 1..Len(q) : q[j].about = i /\ q[k].about = i => j = k
Grounded(u, d, i) == \A l \in Logins : NoneAbout(u[l], i) /\ NoneAbout(d[l], i)
OnlyIn(q, r, l, i) ==
  /\ OneAbout(q[l], i)
  /\ \A m \in Logins : NoneAbout(r[m], i) /\ (m # l => NoneAbout(q[m], i))
Alone(u, d, i) == \E l \in Logins : OnlyIn(u, d, l, i) \/ OnlyIn(d, u, l, i)

FlyingInv ==
  \A i \in 1..Len(log) :
    /\ Alone(up, down, i)
    /\ log[i].fate \notin Flying => Grounded(up, down, i)
DeliverInv ==
  \A l \in Logins : \A k \in 1..Len(down[l]) :
    down[l][k].type = "CHAT_DELIVER" => log[down[l][k].about].fate = "forwarded"
SeenInv ==
  \A l \in Logins : \A s \in shown[l] : log[s.id].fate \in {"read", "unreadable"}
TypedInv ==
  \A l \in Logins : typing[l] # NULL => log[typing[l]].fate = "typed"
FateInv == FlyingInv /\ DeliverInv /\ SeenInv /\ TypedInv

RelayInv ==
  /\ TypeInv
  /\ RegistryInv
  /\ TypingInv
  /\ QuietInv
  /\ KeysInv
  /\ UpInv
  /\ DownInv
  /\ ShownInv
  /\ FetchInv

-----------------------------------------------------------------------------
(* Sequences. *)
LEMMA SeqAppend ==
  ASSUME NEW S, NEW s \in Seq(S), NEW e \in S
  PROVE  /\ Append(s, e) \in Seq(S)
         /\ Len(s) \in Nat
         /\ Len(Append(s, e)) = Len(s) + 1
         /\ \A i \in 1..Len(s) : Append(s, e)[i] = s[i]
         /\ Append(s, e)[Len(s) + 1] = e
BY AppendProperties

LEMMA SeqTail ==
  ASSUME NEW S, NEW s \in Seq(S), s # << >>
  PROVE  /\ Tail(s) \in Seq(S)
         /\ Len(s) \in Nat \ {0}
         /\ Len(Tail(s)) = Len(s) - 1
         /\ \A i \in 1..(Len(s) - 1) : Tail(s)[i] = s[i + 1]
         /\ Head(s) = s[1]
         /\ Head(s) \in S
BY HeadTailProperties, EmptySeq, LenProperties

LEMMA LenIs ==
  ASSUME NEW S, NEW s \in Seq(S), NEW n \in Nat, DOMAIN s = 1..n
  PROVE  Len(s) = n
<1>1. Len(s) \in Nat /\ 1..Len(s) = 1..n
  BY LenProperties
<1>2. \A k, m \in Nat : k < m => m \in 1..m /\ m \notin 1..k
  OBVIOUS
<1>3. \A k, m \in Nat : k < m \/ m < k \/ k = m
  OBVIOUS
<1> QED
  BY <1>1, <1>2, <1>3, Zenon

LEMMA SeqDrop ==
  ASSUME NEW S, NEW s \in Seq(S), Len(s) > 1
  PROVE  /\ DropSecond(s) \in Seq(S)
         /\ Len(s) \in Nat
         /\ Len(DropSecond(s)) = Len(s) - 1
         /\ \A i \in 1..(Len(s) - 1) : DropSecond(s)[i] = IF i = 1 THEN s[1] ELSE s[i + 1]
         /\ s[2] \in S
<1>1. Len(s) \in Nat /\ \A i \in 1..Len(s) : s[i] \in S
  BY LenProperties, ElementOfSeq
<1>2. Len(s) - 1 \in Nat /\ 1 \in 1..Len(s) /\ 2 \in 1..Len(s)
  BY <1>1
<1>3. \A i \in 1..(Len(s) - 1) : (IF i = 1 THEN s[1] ELSE s[i + 1]) \in S
  BY <1>1, <1>2
<1>4. DropSecond(s) \in [1..(Len(s) - 1) -> S]
  BY <1>3 DEF DropSecond
<1>5. DropSecond(s) \in Seq(S)
  BY <1>2, <1>4, SeqDef
<1>6. Len(DropSecond(s)) = Len(s) - 1
  BY <1>2, <1>4, <1>5, LenIs
<1>7. \A i \in 1..(Len(s) - 1) : DropSecond(s)[i] = IF i = 1 THEN s[1] ELSE s[i + 1]
  BY DEF DropSecond
<1> QED
  BY <1>1, <1>2, <1>5, <1>6, <1>7

LEMMA SeqEmpty ==
  ASSUME NEW S
  PROVE  << >> \in Seq(S) /\ Len(<< >>) = 0
BY EmptySeq

-----------------------------------------------------------------------------
(* The log. *)
LEMMA LogTypes ==
  ASSUME TypeInv, NEW i \in 1..Len(log)
  PROVE  /\ i \in Ids
         /\ log[i] \in Messages
         /\ log[i].from \in Logins /\ log[i].to \in Users
         /\ log[i].key \in Logins \cup {NULL} /\ log[i].late \in BOOLEAN
         /\ log[i].astray \in BOOLEAN
<1>1. log[i] \in Messages
  BY ElementOfSeq DEF TypeInv
<1>2. Len(log) \in Nat /\ Len(log) <= MaxMessages
  BY LenProperties DEF TypeInv
<1>3. i \in Ids
  BY <1>2, RelayAssumption DEF Ids
<1> QED
  BY <1>1, <1>3 DEF Messages

(* A message's fate is of no consequence to what the other actions do, nor *)
(* is that it is sent on over a stream that is freed.                      *)
Strays(id) ==
  log' = [log EXCEPT ![id] = [@ EXCEPT !.fate = "forwarded", !.astray = TRUE]]
Settles(id) == Strays(id) \/ \E what \in Fates : Fate(id, what)

LEMMA FateKeeps ==
  ASSUME TypeInv, NEW id \in 1..Len(log), Settles(id)
  PROVE  /\ log' \in Seq(Messages)
         /\ Len(log') = Len(log)
         /\ \A i \in 1..Len(log) : /\ log'[i].from = log[i].from
                                   /\ log'[i].to = log[i].to
                                   /\ log'[i].key = log[i].key
                                   /\ log'[i].late = log[i].late
                                   /\ log[i].astray => log'[i].astray
                                   /\ i # id => log'[i] = log[i]
<1>1. log \in Seq(Messages)
  BY DEF TypeInv
<1>2. log[id] \in Messages
  BY LogTypes
<1>3. PICK m \in Messages : /\ log' = [log EXCEPT ![id] = m]
                            /\ m.from = log[id].from /\ m.to = log[id].to
                            /\ m.key = log[id].key /\ m.late = log[id].late
                            /\ log[id].astray => m.astray
  <2>1. CASE Strays(id)
    <3> DEFINE m == [log[id] EXCEPT !.fate = "forwarded", !.astray = TRUE]
    <3>1. /\ m \in Messages
          /\ m.from = log[id].from /\ m.to = log[id].to
          /\ m.key = log[id].key /\ m.late = log[id].late /\ m.astray
      BY <1>2 DEF Messages, Fates
    <3>2. log' = [log EXCEPT ![id] = m]
      BY <2>1 DEF Strays
    <3> QED
      BY <3>1, <3>2
  <2>2. ASSUME NEW what \in Fates, Fate(id, what)
        PROVE  \E m \in Messages : /\ log' = [log EXCEPT ![id] = m]
                                   /\ m.from = log[id].from /\ m.to = log[id].to
                                   /\ m.key = log[id].key /\ m.late = log[id].late
                                   /\ log[id].astray => m.astray
    <3> DEFINE m == [log[id] EXCEPT !.fate = what]
    <3>1. /\ m \in Messages
          /\ m.from = log[id].from /\ m.to = log[id].to
          /\ m.key = log[id].key /\ m.late = log[id].late /\ m.astray = log[id].astray
      BY <1>2 DEF Messages
    <3>2. log' = [log EXCEPT ![id] = m]
      BY <2>2 DEF Fate
    <3> QED
      BY <3>1, <3>2
  <2> QED
    BY <2>1, <2>2 DEF Settles
<1>4. /\ log' \in Seq(Messages)
      /\ Len(log') = Len(log)
      /\ \A i \in 1..Len(log) : log'[i] = IF i = id THEN m ELSE log[i]
  BY <1>1, <1>3, ExceptSeq
<1> QED
  BY <1>3, <1>4

-----------------------------------------------------------------------------
(* None and Single, under the operations on queues of packets. *)
LEMMA NoneKept ==
  ASSUME NEW S, NEW s \in Seq(S), NEW e \in S, NEW T, None(s, T)
  PROVE  /\ e \notin T => None(Append(s, e), T)
         /\ s # << >> => None(Tail(s), T)
<1>1. ASSUME e \notin T PROVE None(Append(s, e), T)
  <2> SUFFICES ASSUME NEW i \in 1..Len(Append(s, e)) PROVE Append(s, e)[i] \notin T
    BY DEF None
  <2>1. i \in 1..Len(s) \/ i = Len(s) + 1
    BY SeqAppend
  <2> QED
    BY <1>1, <2>1, SeqAppend DEF None
<1>2. ASSUME s # << >> PROVE None(Tail(s), T)
  <2> SUFFICES ASSUME NEW i \in 1..Len(Tail(s)) PROVE Tail(s)[i] \notin T
    BY DEF None
  <2>1. Len(s) \in Nat \ {0} /\ Len(Tail(s)) = Len(s) - 1
    BY <1>2, SeqTail
  <2>2. i \in 1..(Len(s) - 1) /\ i + 1 \in 1..Len(s)
    BY <2>1
  <2>3. Tail(s)[i] = s[i + 1]
    BY <1>2, <2>2, SeqTail
  <2> QED
    BY <2>2, <2>3 DEF None
<1> QED
  BY <1>1, <1>2

LEMMA SingleKept ==
  ASSUME NEW S, NEW s \in Seq(S), NEW e \in S, NEW T, Single(s, T)
  PROVE  /\ e \notin T \/ None(s, T) => Single(Append(s, e), T)
         /\ s # << >> => Single(Tail(s), T)
         /\ s # << >> /\ Head(s) \in T => None(Tail(s), T)
<1>1. ASSUME e \notin T \/ None(s, T) PROVE Single(Append(s, e), T)
  <2> SUFFICES ASSUME NEW i \in 1..Len(Append(s, e)), NEW j \in 1..Len(Append(s, e)),
                      Append(s, e)[i] \in T, Append(s, e)[j] \in T
               PROVE  i = j
    BY DEF Single
  <2>1. (i \in 1..Len(s) \/ i = Len(s) + 1) /\ (j \in 1..Len(s) \/ j = Len(s) + 1)
    BY SeqAppend
  <2>2. CASE e \notin T
    BY <2>1, <2>2, SeqAppend DEF Single
  <2>3. CASE None(s, T)
    BY <2>1, <2>3, SeqAppend DEF None
  <2> QED
    BY <1>1, <2>2, <2>3
<1>2. ASSUME s # << >>
      PROVE  /\ Len(s) \in Nat \ {0}
             /\ \A i \in 1..Len(Tail(s)) : i + 1 \in 1..Len(s) /\ Tail(s)[i] = s[i + 1]
             /\ Head(s) = s[1] /\ 1 \in 1..Len(s)
             /\ \A i \in 1..Len(Tail(s)) : i + 1 # 1 /\ i \in Int
  <2>1. Len(s) \in Nat \ {0} /\ Len(Tail(s)) = Len(s) - 1 /\ Head(s) = s[1]
    BY <1>2, SeqTail
  <2>2. \A i \in 1..Len(Tail(s)) :
          i \in 1..(Len(s) - 1) /\ i + 1 \in 1..Len(s) /\ i + 1 # 1 /\ i \in Int
    BY <2>1
  <2> QED
    BY <1>2, <2>1, <2>2, SeqTail
<1>3. ASSUME s # << >> PROVE Single(Tail(s), T)
  <2> SUFFICES ASSUME NEW i \in 1..Len(Tail(s)), NEW j \in 1..Len(Tail(s)),
                      Tail(s)[i] \in T, Tail(s)[j] \in T
               PROVE  i = j
    BY DEF Single
  <2>1. i + 1 = j + 1
    BY <1>2, <1>3 DEF Single
  <2> QED
    BY <1>2, <1>3, <2>1
<1>4. ASSUME s # << >>, Head(s) \in T PROVE None(Tail(s), T)
  BY <1>2, <1>4 DEF None, Single
<1> QED
  BY <1>1, <1>3, <1>4

LEMMA NoneIsSingle ==
  ASSUME NEW s, NEW T, None(s, T)
  PROVE  Single(s, T)
BY DEF None, Single

LEMMA NoneOfEmpty ==
  ASSUME NEW T
  PROVE  None(<< >>, T)
<1>1. Len(<< >>) = 0
  BY SeqEmpty
<1> QED
  BY <1>1 DEF None

-----------------------------------------------------------------------------
(* What the heads of the queues are. *)
LEMMA HeadUp ==
  ASSUME UpInv, NEW l \in Logins, up[l] # << >>
  PROVE  /\ Head(up[l]).type = "KEY_REQ" => \E u \in Users : Head(up[l]) = KeyReq(u)
         /\ Head(up[l]).type = "CHAT_SEND" =>
              \E i \in SentBy(l) : Head(up[l]) = ChatSend(log[i].to, Cipher(i))
         /\ Tail(up[l]) \in Seq(UpSet(l))
<1>1. Head(up[l]) \in UpSet(l) /\ Tail(up[l]) \in Seq(UpSet(l))
  BY SeqTail DEF UpInv
<1> QED
  BY <1>1 DEF UpSet, KeyReqs, KeyReq, ChatSend

LEMMA HeadDown ==
  ASSUME DownInv, NEW l \in Logins, down[l] # << >>
  PROVE  /\ Head(down[l]).type = "AUTH_RESP" => Head(down[l]) = AuthResp
         /\ Head(down[l]).type = "KEY_RESP" =>
              \E k \in Logins : phase[k] # "new" /\ Head(down[l]) = KeyResp(k)
         /\ Head(down[l]).type = "USER_NOT_FOUND" =>
              \E i \in {0} \cup 1..Len(log) : Head(down[l]) = UserNotFound(i)
         /\ Head(down[l]).type = "COULD_NOT_SEND" =>
              \E i \in 1..Len(log) : Head(down[l]) = CouldNotSend(i)
         /\ Head(down[l]).type = "CHAT_DELIVER" =>
              \E i \in Fitting(l) : Head(down[l]) = ChatDeliver(UserOf[log[i].from], Cipher(i))
         /\ Tail(down[l]) \in Seq(DownSet(l))
<1>1. Head(down[l]) \in DownSet(l) /\ Tail(down[l]) \in Seq(DownSet(l))
  BY SeqTail DEF DownInv
<1> QED
  BY <1>1 DEF DownSet, AuthResp, KeyResp, UserNotFound, CouldNotSend, ChatDeliver

(* The second packet of a queue is about a message, or about none. *)
LEMMA SecondAbout ==
  ASSUME UpInv, DownInv, NEW l \in Logins
  PROVE  /\ Len(up[l]) > 1 => up[l][2].about \in {0} \cup 1..Len(log)
         /\ Len(down[l]) > 1 => down[l][2].about \in {0} \cup 1..Len(log)
<1>1. ASSUME Len(up[l]) > 1 PROVE up[l][2].about \in {0} \cup 1..Len(log)
  <2>1. up[l][2] \in UpSet(l)
    BY <1>1, SeqDrop DEF UpInv
  <2> QED
    BY <2>1 DEF UpSet, KeyReqs, KeyReq, ChatSend, Cipher, Encrypt, SentBy, Encrypted
<1>2. ASSUME Len(down[l]) > 1 PROVE down[l][2].about \in {0} \cup 1..Len(log)
  <2>1. down[l][2] \in DownSet(l)
    BY <1>2, SeqDrop DEF DownInv
  <2> QED
    BY <2>1 DEF DownSet, AuthResp, KeyResp, UserNotFound, CouldNotSend, ChatDeliver,
                Cipher, Encrypt, Fitting, Encrypted
<1> QED
  BY <1>1, <1>2

LEMMA Sent ==
  ASSUME NEW l, NEW i \in SentBy(l)
  PROVE  i \in 1..Len(log) /\ log[i].key # NULL /\ log[i].from = l
BY DEF SentBy, Encrypted

LEMMA Fitted ==
  ASSUME NEW l, NEW i \in Fitting(l)
  PROVE  i \in 1..Len(log) /\ log[i].key # NULL
BY DEF Fitting, Encrypted

LEMMA PacketsAbout ==
  ASSUME NEW i, NEW u
  PROVE  /\ UserNotFound(i).about = i
         /\ CouldNotSend(i).about = i
         /\ ChatSend(u, Cipher(i)).about = i
         /\ ChatSend(u, Cipher(i)).user = u
         /\ ChatSend(u, Cipher(i)).cipher = Cipher(i)
         /\ ChatDeliver(u, Cipher(i)).about = i
         /\ ChatDeliver(u, Cipher(i)).sender = u
         /\ ChatDeliver(u, Cipher(i)).cipher = Cipher(i)
         /\ KeyReq(u).user = u
         /\ KeyResp(u).key = u
BY DEF UserNotFound, CouldNotSend, ChatSend, ChatDeliver, KeyReq, KeyResp, Cipher, Encrypt

(* Which packets are questions and answers of a fetch. *)
LEMMA PacketKinds ==
  ASSUME NEW i, NEW u
  PROVE  /\ AuthResp \notin Answers
         /\ CouldNotSend(i) \notin Answers
         /\ ChatDeliver(u, Cipher(i)) \notin Answers
         /\ i # 0 => UserNotFound(i) \notin Answers
         /\ ChatSend(u, Cipher(i)) \notin KeyReqs
BY DEF Answers, KeyReqs, AuthResp, KeyReq, KeyResp, UserNotFound, CouldNotSend,
       ChatSend, ChatDeliver

-----------------------------------------------------------------------------
(* No step changes what is known of a message that is encrypted, nor who   *)
(* typed a message for whom; logins are registered once and gone for good. *)
SameMessage(i) ==
  /\ log'[i].from = log[i].from
  /\ log'[i].to = log[i].to
  /\ log[i].key # NULL => log'[i].key = log[i].key /\ log'[i].late = log[i].late
  /\ log[i].astray => log'[i].astray

Grows ==
  /\ log' \in Seq(Messages)
  /\ Len(log) <= Len(log')
  /\ Len(log') <= MaxMessages
  /\ \A i \in 1..Len(log) : i \in 1..Len(log') /\ SameMessage(i)
  /\ phase' \in [Logins -> Phases]
  /\ \A l \in Logins : /\ phase[l] # "new" => phase'[l] # "new"
                       /\ phase[l] = "gone" => phase'[l] = "gone"

LEMMA SameLogGrows ==
  ASSUME TypeInv, log' = log
  PROVE  /\ log' \in Seq(Messages)
         /\ Len(log) <= Len(log')
         /\ Len(log') <= MaxMessages
         /\ \A i \in 1..Len(log) : i \in 1..Len(log') /\ SameMessage(i)
<1>1. Len(log) \in Nat
  BY LenProperties DEF TypeInv
<1> QED
  BY <1>1 DEF TypeInv, SameMessage

LEMMA FateGrows ==
  ASSUME TypeInv, NEW id \in 1..Len(log), Settles(id)
  PROVE  /\ log' \in Seq(Messages)
         /\ Len(log) <= Len(log')
         /\ Len(log') <= MaxMessages
         /\ \A i \in 1..Len(log) : i \in 1..Len(log') /\ SameMessage(i)
<1>1. Len(log) \in Nat /\ Len(log) <= MaxMessages
  BY LenProperties DEF TypeInv
<1> QED
  BY <1>1, FateKeeps DEF SameMessage

LEMMA SamePhaseGrows ==
  ASSUME TypeInv, phase' = phase
  PROVE  /\ phase' \in [Logins -> Phases]
         /\ \A l \in Logins : /\ phase[l] # "new" => phase'[l] # "new"
                              /\ phase[l] = "gone" => phase'[l] = "gone"
BY DEF TypeInv

LEMMA LiveIs ==
  ASSUME TypeInv, NEW l \in Logins
  PROVE  /\ phase[l] \in Phases
         /\ phase[l] \in Entered <=> phase[l] # "new" /\ phase[l] # "gone"
         /\ phase[l] \in Live => phase[l] \in Entered
BY DEF TypeInv, Live, Entered, Phases

(* A packet is only to be had from the queue of a live login. *)
LEMMA QueuesAreLive ==
  ASSUME QuietInv, NEW l \in Logins, up[l] # << >> \/ down[l] # << >>
  PROVE  phase[l] \in Live
BY DEF QuietInv

LEMMA StreamEndsGrows ==
  ASSUME TypeInv, NEW l \in Logins, StreamEnds(l)
  PROVE  Grows
<1>1. log \in Seq(Messages) /\ Len(log) \in Nat /\ DOMAIN log = 1..Len(log) /\ Len(log) <= MaxMessages
  BY LenProperties DEF TypeInv
<1>2. \A i \in 1..Len(log) :
        /\ log'[i] = [log[i] EXCEPT !.fate = "cut"] \/ log'[i] = log[i]
        /\ log'[i] \in Messages
  <2> TAKE i \in 1..Len(log)
  <2>1. log'[i] = [log[i] EXCEPT !.fate = "cut"] \/ log'[i] = log[i]
    BY <1>1 DEF StreamEnds
  <2>2. log[i] \in Messages
    BY LogTypes
  <2>3. [log[i] EXCEPT !.fate = "cut"] \in Messages
    BY <2>2 DEF Messages, Fates
  <2> QED
    BY <2>1, <2>2, <2>3
<1>3. log' \in [1..Len(log) -> Messages]
  <2>1. DOMAIN log' = 1..Len(log) /\ log' = [i \in 1..Len(log) |-> log'[i]]
    BY <1>1 DEF StreamEnds
  <2> QED
    BY <1>2, <2>1
<1>4. log' \in Seq(Messages)
  BY <1>1, <1>3, SeqDef
<1>5. Len(log') = Len(log)
  BY <1>1, <1>3, <1>4, LenIs
<1>6. \A i \in 1..Len(log) : SameMessage(i)
  <2> TAKE i \in 1..Len(log)
  <2>1. log[i] \in Messages
    BY LogTypes
  <2>2. /\ [log[i] EXCEPT !.fate = "cut"].from = log[i].from
        /\ [log[i] EXCEPT !.fate = "cut"].to = log[i].to
        /\ [log[i] EXCEPT !.fate = "cut"].key = log[i].key
        /\ [log[i] EXCEPT !.fate = "cut"].late = log[i].late
        /\ [log[i] EXCEPT !.fate = "cut"].astray = log[i].astray
    BY <2>1 DEF Messages
  <2> QED
    BY <1>2, <2>2 DEF SameMessage
<1>7. /\ phase' \in [Logins -> Phases]
      /\ \A m \in Logins : /\ phase[m] # "new" => phase'[m] # "new"
                           /\ phase[m] = "gone" => phase'[m] = "gone"
  BY DEF TypeInv, StreamEnds, Phases, Entered, Live
<1> QED
  BY <1>1, <1>4, <1>5, <1>6, <1>7 DEF Grows

LEMMA SendKeyReqGrows ==
  ASSUME TypeInv, NEW l \in Logins, NEW u \in Users, SendKeyReq(l, u)
  PROVE  /\ Grows
         /\ Len(log) \in Nat /\ Len(log') = Len(log) + 1
         /\ Len(log') \in Ids
         /\ log'[Len(log')].from = l /\ log'[Len(log')].to = u
         /\ log'[Len(log')].key = NULL
         /\ \A i \in 1..Len(log) : log'[i] = log[i]
<1> DEFINE m == [from |-> l, to |-> u, key |-> NULL, late |-> FALSE, astray |-> FALSE,
                fate |-> "typed"]
<1>1. m \in Messages /\ m.from = l /\ m.to = u /\ m.key = NULL
  BY DEF Messages, Fates
<1>2. log' = Append(log, m) /\ Len(log) < MaxMessages /\ log \in Seq(Messages)
  BY DEF SendKeyReq, TypeInv
<1> HIDE DEF m
<1>3. /\ log' \in Seq(Messages) /\ Len(log) \in Nat /\ Len(log') = Len(log) + 1
      /\ \A i \in 1..Len(log) : log'[i] = log[i]
      /\ log'[Len(log) + 1] = m
  BY <1>1, <1>2, SeqAppend
<1>4. phase' = phase
  BY DEF SendKeyReq
<1>5. Len(log') \in Ids /\ Len(log') <= MaxMessages
  BY <1>2, <1>3, RelayAssumption DEF Ids
<1> QED
  BY <1>1, <1>3, <1>4, <1>5, SamePhaseGrows DEF Grows, SameMessage

LEMMA SendChatGrows ==
  ASSUME TypeInv, TypingInv, NEW l \in Logins, SendChat(l)
  PROVE  /\ Grows
         /\ Len(log') = Len(log)
         /\ \A i \in 1..Len(log) : i # typing[l] =>
              log'[i].key = log[i].key /\ log'[i].late = log[i].late
         /\ \/ /\ up' = up
               /\ log'[typing[l]].key = NULL
            \/ /\ up' = [up EXCEPT ![l] =
                     Append(@, ChatSend(log[typing[l]].to, Encrypt(result[l], typing[l])))]
               /\ result[l] # NULL
               /\ log'[typing[l]].key = result[l]
               /\ log'[typing[l]].late = late[l]
<1> DEFINE id == typing[l]
<1>1. id \in 1..Len(log) /\ log[id].key = NULL
  BY DEF TypingInv, SendChat
<1>2. phase' = phase
  BY DEF SendChat
<1>3. log \in Seq(Messages) /\ log[id] \in Messages /\ Len(log) \in Nat /\ Len(log) <= MaxMessages
  BY <1>1, LogTypes, LenProperties DEF TypeInv
<1>4. CASE Fate(id, "not sent") /\ UNCHANGED up
  <2>1. Settles(id)
    BY <1>4 DEF Fates, Settles
  <2> QED
    BY <1>1, <1>2, <2>1, <1>4, FateGrows, FateKeeps, SamePhaseGrows DEF Grows
<1>5. CASE /\ result[l] # NULL
           /\ log' = [log EXCEPT ![id] = [@ EXCEPT !.key = result[l], !.late = late[l],
                                                   !.fate = "sent"]]
           /\ ToServer(l, ChatSend(log[id].to, Encrypt(result[l], id)))
  <2> DEFINE m == [log[id] EXCEPT !.key = result[l], !.late = late[l], !.fate = "sent"]
  <2>1. result[l] \in Logins /\ late[l] \in BOOLEAN
    BY <1>5 DEF TypeInv
  <2>2. /\ m \in Messages
        /\ m.from = log[id].from /\ m.to = log[id].to
        /\ m.key = result[l] /\ m.late = late[l] /\ m.astray = log[id].astray
    BY <1>3, <2>1 DEF Messages, Fates
  <2>3. log' = [log EXCEPT ![id] = m]
    BY <1>5
  <2> HIDE DEF m
  <2>4. /\ log' \in Seq(Messages) /\ Len(log') = Len(log)
        /\ \A i \in 1..Len(log) : log'[i] = IF i = id THEN m ELSE log[i]
    BY <1>1, <1>3, <2>2, <2>3, ExceptSeq
  <2>5. up' = [up EXCEPT ![l] = Append(@, ChatSend(log[id].to, Encrypt(result[l], id)))]
    BY <1>5 DEF ToServer
  <2>6. \A i \in 1..Len(log) : SameMessage(i)
    BY <1>1, <2>2, <2>4 DEF SameMessage
  <2>7. /\ log'[id].key = result[l] /\ log'[id].late = late[l]
    BY <1>1, <2>2, <2>4
  <2>8. Grows
    BY <1>2, <1>3, <2>4, <2>6, SamePhaseGrows DEF Grows
  <2> QED
    BY <1>1, <1>5, <2>4, <2>5, <2>7, <2>8
<1> QED
  BY <1>4, <1>5 DEF SendChat

(* Next, one action of one login at a time. *)
Step(l) ==
  \/ RegisterUser(l) \/ SendAuthResp(l) \/ StreamEnds(l) \/ OnDisconnected(l)
  \/ LostAtServer(l) \/ LostAtClient(l)
  \/ \E u \in Users : SendKeyReq(l, u)
  \/ SendChat(l) \/ KeyTimeout(l)
  \/ ProcessKeyReq(l) \/ ProcessChatSend(l)
  \/ ProcessAuthResp(l) \/ ProcessKeyResp(l) \/ ProcessError(l) \/ ProcessChatDeliver(l)

LEMMA NextIsStep ==
  ASSUME Next
  PROVE  \E l \in Logins : Step(l)
BY DEF Next, Step, ServerHandles, ClientHandles

(* All but three actions change no more of the log than a message's fate. *)
LEMMA StepLog ==
  ASSUME RelayInv, NEW l \in Logins, Step(l)
  PROVE  \/ StreamEnds(l)
         \/ \E u \in Users : SendKeyReq(l, u)
         \/ SendChat(l)
         \/ log' = log
         \/ \E i \in 1..Len(log) : Settles(i)
<1> USE DEF RelayInv
<1>0. \A i : \/ Fate(i, "not sent") \/ Fate(i, "forwarded") \/ Fate(i, "dropped")
            \/ Fate(i, "refused") \/ Fate(i, "unreadable") \/ Fate(i, "read")
            \/ Fate(i, "lost") \/ Strays(i) => Settles(i)
  BY DEF Fates, Settles
<1>1. CASE KeyTimeout(l)
  <2>1. typing[l] \in 1..Len(log) /\ Fate(typing[l], "not sent")
    BY <1>1 DEF KeyTimeout, TypingInv
  <2> QED
    BY <1>0, <2>1
<1>2. CASE ProcessChatSend(l)
  <2>1. PICK i \in SentBy(l) : Head(up[l]) = ChatSend(log[i].to, Cipher(i))
    BY <1>2, HeadUp DEF ProcessChatSend
  <2>2. i \in 1..Len(log) /\ Head(up[l]).about = i
    BY <2>1, Sent, PacketsAbout
  <2>3. log' = log \/ Fate(i, "forwarded") \/ Fate(i, "dropped") \/ Strays(i)
    BY <1>2, <2>2 DEF ProcessChatSend, Forward, ForwardAstray, Strays
  <2> QED
    BY <1>0, <2>2, <2>3
<1>3. CASE ProcessError(l)
  <2>1. PICK i \in {0} \cup 1..Len(log) : Head(down[l]).about = i
    <3>1. down[l] # << >> /\ Head(down[l]).type \in {"USER_NOT_FOUND", "COULD_NOT_SEND"}
      BY <1>3 DEF ProcessError
    <3>2. \E i \in {0} \cup 1..Len(log) :
            Head(down[l]) = UserNotFound(i) \/ Head(down[l]) = CouldNotSend(i)
      BY <3>1, HeadDown
    <3> QED
      BY <3>2 DEF UserNotFound, CouldNotSend
  <2>2. log' = log \/ (i # 0 /\ Fate(i, "refused"))
    BY <1>3, <2>1 DEF ProcessError
  <2> QED
    BY <1>0, <2>1, <2>2
<1>4. CASE ProcessChatDeliver(l)
  <2>1. PICK i \in Fitting(l) : Head(down[l]) = ChatDeliver(UserOf[log[i].from], Cipher(i))
    BY <1>4, HeadDown DEF ProcessChatDeliver
  <2>2. i \in 1..Len(log) /\ Head(down[l]).about = i
    BY <2>1, Fitted, PacketsAbout
  <2>3. Fate(i, "dropped") \/ Fate(i, "unreadable") \/ Fate(i, "read")
    BY <1>4, <2>2 DEF ProcessChatDeliver
  <2> QED
    BY <1>0, <2>2, <2>3
<1>5. CASE LostAtServer(l) \/ LostAtClient(l)
  <2>1. PICK i \in {0} \cup 1..Len(log) : log' = log \/ (i # 0 /\ Fate(i, "lost"))
    BY <1>5, SecondAbout DEF LostAtServer, LostAtClient, LoseSecond
  <2> QED
    BY <1>0, <2>1
<1> QED
  BY <1>1, <1>2, <1>3, <1>4, <1>5
  DEF Step, RegisterUser, SendAuthResp, OnDisconnected, ProcessKeyReq, ProcessAuthResp, ProcessKeyResp

LEMMA StepGrows ==
  ASSUME RelayInv, NEW l \in Logins, Step(l)
  PROVE  Grows
<1> USE DEF RelayInv
<1>1. CASE StreamEnds(l)
  BY <1>1, StreamEndsGrows
<1>2. CASE \E u \in Users : SendKeyReq(l, u)
  BY <1>2, SendKeyReqGrows
<1>3. CASE SendChat(l)
  BY <1>3, SendChatGrows
<1>4. CASE ~StreamEnds(l) /\ (log' = log \/ \E i \in 1..Len(log) : Settles(i))
  <2>1. /\ log' \in Seq(Messages)
        /\ Len(log) <= Len(log')
        /\ Len(log') <= MaxMessages
        /\ \A i \in 1..Len(log) : i \in 1..Len(log') /\ SameMessage(i)
    BY <1>4, SameLogGrows, FateGrows
  <2>2. \/ phase' = phase
        \/ phase[l] = "new" /\ phase' = [phase EXCEPT ![l] = "registered"]
        \/ phase[l] = "registered" /\ phase' = [phase EXCEPT ![l] = "answered"]
        \/ phase[l] \in Live /\ phase' = [phase EXCEPT ![l] = "chat"]
        \/ phase[l] \in {"ended", "early"} /\ phase' = [phase EXCEPT ![l] = "gone"]
    BY <1>4, QueuesAreLive
    DEF Step, OnDisconnected, LostAtServer, LostAtClient, RegisterUser, SendAuthResp, SendKeyReq, SendChat, KeyTimeout, ProcessKeyReq,
        ProcessChatSend, ProcessAuthResp, ProcessKeyResp, ProcessError, ProcessChatDeliver
  <2> QED
    BY <2>1, <2>2, SamePhaseGrows DEF Grows, TypeInv, Live, Entered, Phases
<1> QED
  BY <1>1, <1>2, <1>3, <1>4, StepLog

(* So the packets and lines that are admissible remain so. *)
LEMMA EncryptedGrows ==
  ASSUME TypeInv, Grows, NEW i \in Encrypted
  PROVE  /\ i \in Encrypted'
         /\ i \in 1..Len(log) /\ i \in 1..Len(log')
         /\ log'[i].from = log[i].from /\ log'[i].to = log[i].to
         /\ log'[i].key = log[i].key /\ log'[i].late = log[i].late
         /\ log[i].astray => log'[i].astray
         /\ log[i].key \in Logins
BY LogTypes DEF Encrypted, Grows, SameMessage

LEMMA SetsGrow ==
  ASSUME TypeInv, Grows, NEW l \in Logins
  PROVE  /\ UpSet(l) \subseteq UpSet(l)'
         /\ DownSet(l) \subseteq DownSet(l)'
         /\ ShownSet(l) \subseteq ShownSet(l)'
         /\ Fitting(l) \subseteq Fitting(l)'
<1>1. \A i \in SentBy(l) : i \in SentBy(l)' /\ log'[i].to = log[i].to /\ log'[i].key = log[i].key
  BY EncryptedGrows DEF SentBy
<1>2. \A i \in Fitting(l) : i \in Fitting(l)' /\ log'[i].from = log[i].from /\ log'[i].key = log[i].key
  <2> TAKE i \in Fitting(l)
  <2>1. i \in Encrypted
    BY DEF Fitting
  <2> QED
    BY <2>1, EncryptedGrows DEF Fitting, Grows
<1>3. UpSet(l) \subseteq UpSet(l)'
  BY <1>1 DEF UpSet, Cipher
<1>4. DownSet(l) \subseteq DownSet(l)'
  <2>1. \A i \in 1..Len(log) : i \in 1..Len(log')
    BY DEF Grows
  <2>2. \A m \in Logins : phase[m] # "new" => phase'[m] # "new"
    BY DEF Grows
  <2>3. \A i \in Fitting(l) : /\ i \in Fitting(l)'
                              /\ ChatDeliver(UserOf[log[i].from], Cipher(i)) =
                                   ChatDeliver(UserOf[log'[i].from], Cipher(i)')
    BY <1>2 DEF Cipher
  <2> QED
    BY <2>1, <2>2, <2>3 DEF DownSet
<1>5. ShownSet(l) \subseteq ShownSet(l)'
  BY <1>2 DEF ShownSet, Cipher
<1> QED
  BY <1>2, <1>3, <1>4, <1>5

-----------------------------------------------------------------------------
(* The registry: a look-up finds a login of the user, which may have ended. *)
LEMMA FindsLogin ==
  ASSUME RegistryInv, NEW u
  PROVE  /\ Find(registry, u) # NULL =>
              \E m \in Logins : /\ phase[m] # "new" /\ UserOf[m] = u
                                /\ Find(registry, u) = m
         /\ GetPubkey(registry, u) # NULL =>
              \E m \in Logins : /\ phase[m] # "new" /\ UserOf[m] = u
                                /\ GetPubkey(registry, u) = m
<1> SUFFICES ASSUME Matches(registry, u) # {}
             PROVE  \E m \in Logins : /\ phase[m] # "new" /\ UserOf[m] = u
                                      /\ Find(registry, u) = m /\ GetPubkey(registry, u) = m
  BY DEF Find, GetPubkey
<1> DEFINE k == Min(Matches(registry, u))
<1>1. k \in Matches(registry, u)
  <2>1. Matches(registry, u) \in SUBSET Slots
    BY DEF Matches
  <2> QED
    BY <2>1, MinIsHit
<1>2. k \in Slots /\ registry[k].in_use /\ registry[k].username = u
  BY <1>1 DEF Matches
<1>3. PICK m \in Logins : phase[m] # "new" /\ registry[k] = EntryOf(m)
  BY <1>2 DEF RegistryInv
<1>4. registry[k].stream = m /\ registry[k].public_key = m /\ registry[k].username = UserOf[m]
  BY <1>3 DEF EntryOf, Entry
<1> QED
  BY <1>2, <1>3, <1>4 DEF Find, GetPubkey

LEMMA OneEntered ==
  ASSUME RegistryInv, NEW m \in Logins, NEW n \in Logins,
         phase[m] \in Entered, phase[n] \in Entered, UserOf[m] = UserOf[n]
  PROVE  m = n
<1>1. PICK i \in Slots : registry[i] = EntryOf(m)
  BY DEF RegistryInv
<1>2. PICK j \in Slots : registry[j] = EntryOf(n)
  BY DEF RegistryInv
<1>3. i = j
  BY <1>1, <1>2 DEF RegistryInv, UniqueNames, EntryOf, Entry
<1> QED
  BY <1>1, <1>2, <1>3 DEF EntryOf, Entry

LEMMA SameRegistryInv ==
  ASSUME RegistryInv, registry' = registry,
         \A m \in Logins : phase'[m] \in Entered => phase[m] \in Entered,
         \A m \in Logins : phase[m] # "new" => phase'[m] # "new"
  PROVE  RegistryInv'
BY DEF RegistryInv

LEMMA StepRegistryInv ==
  ASSUME RelayInv, NEW l \in Logins, Step(l)
  PROVE  RegistryInv'
<1> USE DEF RelayInv
<1>0. phase \in [Logins -> Phases] /\ DOMAIN phase = Logins
  BY DEF TypeInv
<1>1. CASE RegisterUser(l)
  <2>1. /\ phase[l] = "new" /\ CanAdd(registry, UserOf[l])
        /\ registry' = Add(registry, UserOf[l], l, l)
        /\ phase' = [phase EXCEPT ![l] = "registered"]
    BY <1>1 DEF RegisterUser
  <2>2. PICK k \in Free(registry) : registry' = [registry EXCEPT ![k] = EntryOf(l)]
    BY <2>1, AddFillsFreeEntry DEF EntryOf
  <2>3. UniqueNames(registry')
    BY <2>1, AddKeepsUnique DEF RegistryInv, TypeInv
  <2>4. k \in Slots /\ ~registry[k].in_use
    BY <2>2 DEF Free
  <2>5. \A i \in Slots : registry'[i] = IF i = k THEN EntryOf(l) ELSE registry[i]
    BY <2>2, <2>4 DEF TypeInv
  <2>6. phase'[l] \in Entered /\ phase[l] = "new" /\ \A m \in Logins : m # l => phase'[m] = phase[m]
    BY <1>0, <2>1 DEF Live, Entered
  <2>7. \A i \in Slots : registry'[i].in_use =>
          \E m \in Logins : phase'[m] # "new" /\ registry'[i] = EntryOf(m)
    <3> TAKE i \in Slots
    <3>1. CASE i = k
      BY <3>1, <2>5, <2>6 DEF Entered, Live
    <3>2. CASE i # k
      BY <3>2, <2>5, <2>6 DEF RegistryInv
    <3> QED
      BY <3>1, <3>2
  <2>8. \A m \in Logins : phase'[m] \in Entered => \E i \in Slots : registry'[i] = EntryOf(m)
    <3> SUFFICES ASSUME NEW m \in Logins, phase'[m] \in Entered
                 PROVE  \E i \in Slots : registry'[i] = EntryOf(m)
      OBVIOUS
    <3>1. CASE m = l
      BY <3>1, <2>4, <2>5
    <3>2. CASE m # l
      <4>1. PICK i \in Slots : registry[i] = EntryOf(m)
        BY <3>2, <2>6 DEF RegistryInv
      <4>2. registry[i].in_use
        BY <4>1 DEF EntryOf, Entry
      <4> QED
        BY <2>4, <2>5, <4>1, <4>2
    <3> QED
      BY <3>1, <3>2
  <2> QED
    BY <2>3, <2>7, <2>8 DEF RegistryInv, EntryOf
<1>2. CASE OnDisconnected(l) /\ registry' = Remove(registry, UserOf[l])
  <2>1. phase[l] \in {"ended", "early"} /\ phase' = [phase EXCEPT ![l] = "gone"]
    BY <1>2 DEF OnDisconnected
  <2>2. UniqueNames(registry')
    BY <1>2, RemoveKeepsUnique DEF RegistryInv, TypeInv
  <2>3. \A i \in Slots : registry'[i] =
          IF registry[i].in_use /\ registry[i].username = UserOf[l] THEN FreeEntry ELSE registry[i]
    <3>1. registry \in [Slots -> Entries(Users, Logins, Logins)] /\ UniqueNames(registry)
      BY DEF RegistryInv, TypeInv
    <3> QED
      BY <1>2, <3>1, RemoveEffect
  <2>4. /\ phase[l] \in Entered /\ phase'[l] \notin Entered
        /\ \A m \in Logins : m # l => phase'[m] = phase[m]
        /\ \A m \in Logins : phase[m] # "new" => phase'[m] # "new"
    BY <1>0, <2>1 DEF Live, Entered
  <2>5. \A i \in Slots : registry'[i].in_use =>
          \E m \in Logins : phase'[m] # "new" /\ registry'[i] = EntryOf(m)
    <3> SUFFICES ASSUME NEW i \in Slots, registry'[i].in_use
                 PROVE  \E m \in Logins : phase'[m] # "new" /\ registry'[i] = EntryOf(m)
      OBVIOUS
    <3>1. registry'[i] = registry[i] /\ registry[i].in_use
      BY <2>3 DEF FreeEntry
    <3>2. PICK m \in Logins : phase[m] # "new" /\ registry[i] = EntryOf(m)
      BY <3>1 DEF RegistryInv
    <3> QED
      BY <2>4, <3>1, <3>2
  <2>6. \A m \in Logins : phase'[m] \in Entered => \E i \in Slots : registry'[i] = EntryOf(m)
    <3> SUFFICES ASSUME NEW m \in Logins, phase'[m] \in Entered
                 PROVE  \E i \in Slots : registry'[i] = EntryOf(m)
      OBVIOUS
    <3>1. m # l /\ phase[m] \in Entered
      BY <2>4
    <3>2. UserOf[m] # UserOf[l]
      BY <2>4, <3>1, OneEntered
    <3>3. PICK i \in Slots : registry[i] = EntryOf(m)
      BY <3>1 DEF RegistryInv
    <3>4. registry[i].username = UserOf[m]
      BY <3>3 DEF EntryOf, Entry
    <3> QED
      BY <2>3, <3>2, <3>3, <3>4
  <2> QED
    BY <2>2, <2>5, <2>6 DEF RegistryInv, EntryOf
<1>7. CASE OnDisconnected(l) /\ registry' = registry
  <2>1. phase' = [phase EXCEPT ![l] = "gone"]
    BY <1>7 DEF OnDisconnected
  <2> QED
    BY <1>0, <1>7, <2>1, SameRegistryInv DEF Live, Entered
<1>8. CASE StreamEnds(l)
  <2>1. /\ registry' = registry /\ phase[l] \in Live
        /\ phase' = [phase EXCEPT ![l] = IF @ = "registered" THEN "early" ELSE "ended"]
    BY <1>8 DEF StreamEnds
  <2> QED
    BY <1>0, <2>1, SameRegistryInv DEF Live, Entered
<1>3. CASE SendAuthResp(l)
  <2>1. registry' = registry /\ phase' = [phase EXCEPT ![l] = "answered"] /\ phase[l] \in Live
    BY <1>3 DEF SendAuthResp, Live
  <2> QED
    BY <1>0, <2>1, SameRegistryInv DEF Live, Entered
<1>4. CASE ProcessAuthResp(l)
  <2>1. registry' = registry /\ phase' = [phase EXCEPT ![l] = "chat"] /\ phase[l] \in Live
    BY <1>4, QueuesAreLive DEF ProcessAuthResp
  <2> QED
    BY <1>0, <2>1, SameRegistryInv DEF Live, Entered
<1>5. CASE registry' = registry /\ phase' = phase
  BY <1>5, SameRegistryInv
<1>6. \/ RegisterUser(l) \/ SendAuthResp(l) \/ ProcessAuthResp(l) \/ StreamEnds(l)
      \/ OnDisconnected(l) /\ registry' = Remove(registry, UserOf[l])
      \/ OnDisconnected(l) /\ registry' = registry
      \/ registry' = registry /\ phase' = phase
  BY DEF Step, SendKeyReq, SendChat, KeyTimeout, ProcessKeyReq, ProcessChatSend, OnDisconnected,
         ProcessKeyResp, ProcessError, ProcessChatDeliver, LostAtServer, LostAtClient
<1> QED
  BY <1>1, <1>2, <1>3, <1>4, <1>5, <1>6, <1>7, <1>8

-----------------------------------------------------------------------------
(* Types. *)
LEMMA RegistryTypes ==
  ASSUME TypeInv, NEW l \in Logins, RegisterUser(l) \/ OnDisconnected(l)
  PROVE  registry' \in [Slots -> Entries(Users, Logins, Logins)]
<1>1. UserOf[l] \in Users
  BY RelayAssumption
<1>2. EntryOf(l) \in Entries(Users, Logins, Logins) /\ FreeEntry \in Entries(Users, Logins, Logins)
  BY <1>1 DEF Entries, EntryOf
<1>3. CASE RegisterUser(l)
  <2>1. \E k \in Free(registry) : registry' = [registry EXCEPT ![k] = EntryOf(l)]
    BY <1>3, AddFillsFreeEntry DEF RegisterUser, EntryOf
  <2> QED
    BY <1>2, <2>1 DEF TypeInv
<1>4. CASE OnDisconnected(l)
  <2>1. registry' = registry \/
          \E k \in Matches(registry, UserOf[l]) : registry' = [registry EXCEPT ![k] = FreeEntry]
    <3>1. registry' = registry \/ registry' = Remove(registry, UserOf[l])
      BY <1>4 DEF OnDisconnected
    <3>2. CASE Matches(registry, UserOf[l]) = {}
      BY <3>1, <3>2 DEF Remove
    <3>3. CASE Matches(registry, UserOf[l]) # {}
      BY <3>1, <3>3, RemoveClearsEntry
    <3> QED
      BY <3>2, <3>3
  <2> QED
    BY <1>2, <2>1 DEF TypeInv
<1> QED
  BY <1>3, <1>4

LEMMA StepTypeInv ==
  ASSUME RelayInv, NEW l \in Logins, Step(l)
  PROVE  TypeInv'
<1> USE DEF RelayInv
<1>1. /\ phase' \in [Logins -> Phases]
      /\ log' \in Seq(Messages)
      /\ Len(log') <= MaxMessages
  BY StepGrows DEF Grows
<1>2. registry' \in [Slots -> Entries(Users, Logins, Logins)]
  <2>1. RegisterUser(l) \/ OnDisconnected(l) \/ registry' = registry
    BY DEF Step, StreamEnds, LostAtServer, LostAtClient, SendAuthResp, SendKeyReq, SendChat, KeyTimeout, ProcessKeyReq,
           ProcessChatSend, ProcessAuthResp, ProcessKeyResp, ProcessError, ProcessChatDeliver
  <2> QED
    BY <2>1, RegistryTypes DEF TypeInv
<1>3. typing' \in [Logins -> Ids \cup {NULL}]
  <2>1. \/ typing' = typing
        \/ typing' = [typing EXCEPT ![l] = NULL]
        \/ \E u \in Users : SendKeyReq(l, u) /\ typing' = [typing EXCEPT ![l] = Len(log) + 1]
    BY DEF Step, RegisterUser, SendAuthResp, StreamEnds, OnDisconnected, LostAtServer, LostAtClient, SendKeyReq, SendChat, KeyTimeout,
           ProcessKeyReq, ProcessChatSend, ProcessAuthResp, ProcessKeyResp, ProcessError,
           ProcessChatDeliver, fetch
  <2>2. \A u \in Users : SendKeyReq(l, u) => Len(log) + 1 \in Ids
    BY SendKeyReqGrows
  <2> QED
    BY <2>1, <2>2 DEF TypeInv
<1>4. result' \in [Logins -> Logins \cup {NULL}]
  <2>1. CASE ProcessKeyResp(l)
    <3>1. PICK k \in Logins : Head(down[l]) = KeyResp(k)
      BY <2>1, HeadDown DEF ProcessKeyResp
    <3>2. result' = [result EXCEPT ![l] = k]
      BY <2>1, <3>1, PacketsAbout DEF ProcessKeyResp
    <3> QED
      BY <3>2 DEF TypeInv
  <2>2. CASE result' = result \/ result' = [result EXCEPT ![l] = NULL]
    BY <2>2 DEF TypeInv
  <2> QED
    BY <2>1, <2>2 DEF Step, RegisterUser, SendAuthResp, StreamEnds, OnDisconnected, LostAtServer, LostAtClient, SendKeyReq, SendChat, KeyTimeout,
           ProcessKeyReq, ProcessChatSend, ProcessAuthResp, ProcessError, ProcessChatDeliver, fetch
<1>5. sem' \in [Logins -> Nat]
  <2>1. \/ sem' = sem
        \/ sem' = [sem EXCEPT ![l] = @ + 1]
        \/ sem[l] > 0 /\ sem' = [sem EXCEPT ![l] = @ - 1]
        \/ sem' = [sem EXCEPT ![l] = 0]
    BY DEF Step, RegisterUser, SendAuthResp, StreamEnds, OnDisconnected, LostAtServer, LostAtClient, SendKeyReq, SendChat, KeyTimeout,
           ProcessKeyReq, ProcessChatSend, ProcessAuthResp, ProcessKeyResp, ProcessError,
           ProcessChatDeliver, fetch, KeyArrived
  <2>2. sem \in [Logins -> Nat] /\ sem[l] \in Nat
    BY DEF TypeInv
  <2>3. 0 \in Nat /\ \A n \in Nat : n + 1 \in Nat /\ (n > 0 => n - 1 \in Nat)
    OBVIOUS
  <2> QED
    BY <2>1, <2>2, <2>3
<1>6. late' \in [Logins -> BOOLEAN]
  <2>1. \/ late' = late
        \/ late' = [late EXCEPT ![l] = TRUE]
        \/ late' = [late EXCEPT ![l] = FALSE]
        \/ late' = [late EXCEPT ![l] = @ \/ Head(down[l]).about # 0]
    BY DEF Step, RegisterUser, SendAuthResp, StreamEnds, OnDisconnected, LostAtServer, LostAtClient, SendKeyReq, SendChat, KeyTimeout,
           ProcessKeyReq, ProcessChatSend, ProcessAuthResp, ProcessKeyResp, ProcessError,
           ProcessChatDeliver, fetch
  <2> QED
    BY <2>1 DEF TypeInv
<1>7. younger' \in [Logins -> SUBSET Logins]
  <2>1. \/ younger' = younger
        \/ \E Y \in SUBSET Logins : younger' = [younger EXCEPT ![l] = Y]
    BY DEF Step, RegisterUser, SendAuthResp, StreamEnds, OnDisconnected, LostAtServer, LostAtClient, SendKeyReq, SendChat, KeyTimeout,
           ProcessKeyReq, ProcessChatSend, ProcessAuthResp, ProcessKeyResp, ProcessError,
           ProcessChatDeliver
  <2> QED
    BY <2>1 DEF TypeInv
<1> QED
  BY <1>1, <1>2, <1>3, <1>4, <1>5, <1>6, <1>7 DEF TypeInv

-----------------------------------------------------------------------------
(* The message being typed. *)
LEMMA SameTyping ==
  ASSUME TypingInv, Grows, TypeInv, NEW m \in Logins, typing[m] # NULL,
         typing'[m] = typing[m], phase'[m] = "chat",
         log'[typing[m]].key = log[typing[m]].key
  PROVE  /\ phase'[m] = "chat"
         /\ typing'[m] \in 1..Len(log')
         /\ log'[typing'[m]].from = m
         /\ log'[typing'[m]].key = NULL
<1>1. typing[m] \in 1..Len(log) /\ log[typing[m]].from = m /\ log[typing[m]].key = NULL
  BY DEF TypingInv
<1> QED
  BY <1>1 DEF Grows, SameMessage

(* Only send_chat gives a message its key. *)
LEMMA KeysKept ==
  ASSUME RelayInv, NEW l \in Logins, Step(l), NEW i \in 1..Len(log)
  PROVE  \/ SendChat(l) /\ i = typing[l]
         \/ log'[i].key = log[i].key /\ log'[i].late = log[i].late
<1> USE DEF RelayInv
<1>1. CASE log' = log
  BY <1>1
<1>2. CASE \E id \in 1..Len(log) : Settles(id)
  BY <1>2, FateKeeps
<1>3. CASE StreamEnds(l)
  <2>1. log[i] \in Messages
    BY LogTypes
  <2>2. /\ [log[i] EXCEPT !.fate = "cut"].key = log[i].key
        /\ [log[i] EXCEPT !.fate = "cut"].late = log[i].late
    BY <2>1 DEF Messages
  <2>3. DOMAIN log = 1..Len(log)
    BY LenProperties DEF TypeInv
  <2>4. log'[i] = [log[i] EXCEPT !.fate = "cut"] \/ log'[i] = log[i]
    BY <1>3, <2>3 DEF StreamEnds
  <2> QED
    BY <2>2, <2>4
<1>4. CASE \E u \in Users : SendKeyReq(l, u)
  BY <1>4, SendKeyReqGrows
<1>5. CASE SendChat(l)
  BY <1>5, SendChatGrows
<1> QED
  BY <1>1, <1>2, <1>3, <1>4, <1>5, StepLog

LEMMA StepTypingInv ==
  ASSUME RelayInv, NEW l \in Logins, Step(l)
  PROVE  TypingInv'
<1> USE DEF RelayInv
<1> SUFFICES ASSUME NEW m \in Logins, typing'[m] # NULL
             PROVE  /\ phase'[m] = "chat"
                    /\ typing'[m] \in 1..Len(log')
                    /\ log'[typing'[m]].from = m
                    /\ log'[typing'[m]].key = NULL
  BY DEF TypingInv
<1>0. Grows /\ DOMAIN typing = Logins /\ DOMAIN phase = Logins
  BY StepGrows DEF TypeInv
<1>1. CASE m = l /\ \E u \in Users : SendKeyReq(l, u)
  <2>1. PICK u \in Users : SendKeyReq(l, u)
    BY <1>1
  <2>2. typing'[l] = Len(log) + 1 /\ phase'[l] = "chat"
    BY <1>0, <2>1 DEF SendKeyReq
  <2>3. /\ Len(log) \in Nat /\ Len(log') = Len(log) + 1
        /\ log'[Len(log')].from = l /\ log'[Len(log')].key = NULL
    BY <2>1, SendKeyReqGrows
  <2>4. Len(log') \in 1..Len(log')
    BY <2>3
  <2> QED
    BY <1>1, <2>2, <2>3, <2>4
<1>2. CASE ~(m = l /\ \E u \in Users : SendKeyReq(l, u))
  <2>1. typing'[m] = typing[m] /\ ~(m = l /\ StreamEnds(l)) /\ ~(m = l /\ SendChat(l))
    BY <1>0, <1>2 DEF Step, RegisterUser, SendAuthResp, StreamEnds, OnDisconnected, LostAtServer, LostAtClient, SendKeyReq, SendChat, KeyTimeout,
           ProcessKeyReq, ProcessChatSend, ProcessAuthResp, ProcessKeyResp, ProcessError,
           ProcessChatDeliver, fetch
  <2>2. phase[m] = "chat" /\ typing[m] \in 1..Len(log) /\ log[typing[m]].from = m
    BY <2>1 DEF TypingInv
  <2>3. phase'[m] = "chat"
    BY <1>0, <2>1, <2>2 DEF Step, RegisterUser, SendAuthResp, StreamEnds, OnDisconnected, LostAtServer, LostAtClient, SendKeyReq, SendChat,
           KeyTimeout, ProcessKeyReq, ProcessChatSend, ProcessAuthResp, ProcessKeyResp,
           ProcessError, ProcessChatDeliver
  <2>4. ~(SendChat(l) /\ typing[m] = typing[l])
    BY <2>1, <2>2 DEF SendChat, TypingInv
  <2>5. log'[typing[m]].key = log[typing[m]].key
    BY <2>2, <2>4, KeysKept
  <2> QED
    BY <1>0, <2>1, <2>3, <2>5, SameTyping
<1> QED
  BY <1>1, <1>2

-----------------------------------------------------------------------------
(* Logins that are not live, and keys. *)
LEMMA StepQuietInv ==
  ASSUME RelayInv, NEW l \in Logins, Step(l)
  PROVE  QuietInv'
<1> USE DEF RelayInv
<1> SUFFICES ASSUME NEW m \in Logins, phase'[m] \notin Live
             PROVE  up'[m] = << >> /\ down'[m] = << >>
  BY DEF QuietInv
<1>0. DOMAIN up = Logins /\ DOMAIN down = Logins /\ DOMAIN phase = Logins
  BY DEF UpInv, DownInv, TypeInv
<1>1. CASE StreamEnds(l) /\ m = l
  BY <1>0, <1>1 DEF StreamEnds
<1>2. CASE ~(StreamEnds(l) /\ m = l)
  <2>1. phase[m] \notin Live
    BY <1>0, <1>2 DEF Step, RegisterUser, SendAuthResp, StreamEnds, OnDisconnected, LostAtServer, LostAtClient, SendKeyReq, SendChat,
           KeyTimeout, ProcessKeyReq, ProcessChatSend, ProcessAuthResp, ProcessKeyResp,
           ProcessError, ProcessChatDeliver, Live
  <2>2. up[m] = << >> /\ down[m] = << >>
    BY <2>1 DEF QuietInv
  <2>3. m = l => RegisterUser(l) \/ OnDisconnected(l)
    <3>1. "registered" \in Live /\ "chat" \in Live
      BY DEF Live
    <3>2. typing[m] = NULL
      BY <2>1, <3>1 DEF TypingInv
    <3>3. phase[m] # "registered" /\ phase[m] # "chat"
      BY <2>1, <3>1
    <3>4. ~(Len(up[m]) > 1) /\ ~(Len(down[m]) > 1)
      BY <2>2, SeqEmpty
    <3>5. m = l => ~LostAtServer(l) /\ ~LostAtClient(l)
      BY <3>4 DEF LostAtServer, LostAtClient
    <3> QED
      BY <1>2, <2>2, <3>2, <3>3, <3>5 DEF Step, SendAuthResp, SendKeyReq, SendChat,
           KeyTimeout, ProcessKeyReq, ProcessChatSend, ProcessAuthResp, ProcessKeyResp,
           ProcessError, ProcessChatDeliver
  <2>4. CASE RegisterUser(l) \/ OnDisconnected(l)
    BY <2>2, <2>4 DEF RegisterUser, OnDisconnected, net
  <2>5. CASE m # l /\ ProcessChatSend(l)
    <3>1. up'[m] = up[m]
      BY <1>0, <2>5 DEF ProcessChatSend, TakeUp
    <3>2. PICK n, q : (ToClient(n, q) /\ (n = l \/ phase[n] \in Live)) \/ down' = down
      BY <2>5 DEF ProcessChatSend, Forward, ForwardAstray, NotSent, Refuse
    <3>3. down'[m] = down[m]
      BY <1>0, <2>1, <2>5, <3>2 DEF ToClient
    <3> QED
      BY <2>2, <3>1, <3>3
  <2>6. CASE m # l /\ ~ProcessChatSend(l) /\ ~RegisterUser(l) /\ ~OnDisconnected(l)
    BY <1>0, <2>2, <2>6 DEF Step, SendAuthResp, StreamEnds, OnDisconnected, LostAtServer, LostAtClient, SendKeyReq, SendChat, KeyTimeout,
       ProcessKeyReq, ProcessAuthResp, ProcessKeyResp, ProcessError, ProcessChatDeliver,
       ToClient, ToServer, TakeUp, TakeDown, net
  <2> QED
    BY <2>3, <2>4, <2>5, <2>6
<1> QED
  BY <1>1, <1>2

LEMMA StepKeysInv ==
  ASSUME RelayInv, NEW l \in Logins, Step(l)
  PROVE  KeysInv'
<1> USE DEF RelayInv
<1>0. Grows
  BY StepGrows
<1>1. ASSUME NEW m \in Logins, result'[m] # NULL PROVE phase'[result'[m]] # "new"
  <2>0. DOMAIN result = Logins
    BY DEF TypeInv
  <2>1. CASE m = l /\ ProcessKeyResp(l)
    <3>1. PICK k \in Logins : phase[k] # "new" /\ Head(down[l]) = KeyResp(k)
      BY <2>1, HeadDown DEF ProcessKeyResp
    <3>2. result'[l] = k
      BY <2>0, <2>1, <3>1, PacketsAbout DEF ProcessKeyResp
    <3> QED
      BY <1>0, <2>1, <3>1, <3>2 DEF Grows
  <2>2. CASE ~(m = l /\ ProcessKeyResp(l))
    <3>1. result'[m] = result[m]
      BY <1>1, <2>0, <2>2 DEF Step, RegisterUser, SendAuthResp, StreamEnds, OnDisconnected, LostAtServer, LostAtClient, SendKeyReq, SendChat,
           KeyTimeout, ProcessKeyReq, ProcessChatSend, ProcessAuthResp, ProcessKeyResp,
           ProcessError, ProcessChatDeliver, fetch
    <3>2. result[m] \in Logins /\ phase[result[m]] # "new"
      BY <1>1, <3>1 DEF TypeInv, KeysInv
    <3> QED
      BY <1>0, <3>1, <3>2 DEF Grows
  <2> QED
    BY <2>1, <2>2
<1>2. ASSUME NEW i \in 1..Len(log'), log'[i].key # NULL
      PROVE  phase'[log'[i].key] # "new" /\ (log'[i].late \/ UserOf[log'[i].key] = log'[i].to)
  <2>0. Len(log) \in Nat
    BY LenProperties DEF TypeInv
  <2>1. i \in 1..Len(log)
    <3>1. CASE \E u \in Users : SendKeyReq(l, u)
      <4>1. Len(log') = Len(log) + 1 /\ log'[Len(log')].key = NULL
        BY <3>1, SendKeyReqGrows
      <4>2. i # Len(log) + 1
        BY <1>2, <4>1
      <4> QED
        BY <2>0, <4>1, <4>2
    <3>2. CASE StreamEnds(l)
      <4>1. DOMAIN log' = 1..Len(log') /\ DOMAIN log = 1..Len(log)
        BY <1>0, LenProperties DEF Grows, TypeInv
      <4>2. DOMAIN log' = DOMAIN log
        BY <3>2 DEF StreamEnds
      <4> QED
        BY <4>1, <4>2
    <3>3. CASE SendChat(l) \/ log' = log \/ \E j \in 1..Len(log) : Settles(j)
      <4>1. Len(log') = Len(log)
        BY <3>3, SendChatGrows, FateKeeps
      <4> QED
        BY <4>1
    <3> QED
      BY <3>1, <3>2, <3>3, StepLog
  <2>2. log'[i].to = log[i].to
    BY <1>0, <2>1 DEF Grows, SameMessage
  <2>3. CASE SendChat(l) /\ i = typing[l]
    <3>1. /\ result[l] # NULL
          /\ log'[i].key = result[l]
          /\ log'[i].late = late[l]
      BY <1>2, <2>3, SendChatGrows
    <3>2. result[l] \in Logins /\ phase[result[l]] # "new"
      BY <3>1 DEF TypeInv, KeysInv
    <3>3. phase'[result[l]] # "new"
      BY <1>0, <3>2 DEF Grows
    <3>4. typing[l] # NULL /\ phase[l] = "chat" /\ sem[l] > 0
      BY <2>3 DEF SendChat, KeyArrived, TypingInv
    <3>5. late[l] \/ UserOf[result[l]] = log[i].to
      <4>1. CASE late[l]
        BY <4>1
      <4>2. CASE ~late[l]
        <5>1. FetchOK(l)
          BY <3>4, <4>2 DEF FetchInv
        <5>2. sem[l] = 1
          BY <3>4, <5>1 DEF FetchOK
        <5> QED
          BY <2>3, <3>1, <3>4, <5>1, <5>2 DEF FetchOK
      <4> QED
        BY <4>1, <4>2
    <3> QED
      BY <2>2, <3>1, <3>3, <3>5
  <2>4. CASE ~(SendChat(l) /\ i = typing[l])
    <3>1. log'[i].key = log[i].key /\ log'[i].late = log[i].late
      BY <2>1, <2>4, KeysKept
    <3>2. log[i].key \in Logins /\ phase[log[i].key] # "new" /\ (log[i].late \/ UserOf[log[i].key] = log[i].to)
      BY <1>2, <2>1, <3>1, LogTypes DEF KeysInv
    <3>3. phase'[log[i].key] # "new"
      BY <1>0, <3>2 DEF Grows
    <3> QED
      BY <2>2, <3>1, <3>2, <3>3
  <2> QED
    BY <2>3, <2>4
<1> QED
  BY <1>1, <1>2 DEF KeysInv

-----------------------------------------------------------------------------
(* Packets under way to the server. *)
LEMMA UpBecomes ==
  ASSUME TypeInv, Grows, UpInv, NEW l \in Logins, NEW s \in Seq(UpSet(l)'),
         up' = [up EXCEPT ![l] = s]
  PROVE  UpInv'
<1>1. \A m \in Logins : up[m] \in Seq(UpSet(m)')
  BY SetsGrow, SeqMonotonic DEF UpInv
<1>2. DOMAIN up = Logins
  BY DEF UpInv
<1>3. \A m \in Logins : up'[m] \in Seq(UpSet(m)')
  BY <1>1, <1>2
<1>4. up' = [m \in Logins |-> up'[m]]
  BY <1>2
<1> QED
  BY <1>3, <1>4 DEF UpInv

LEMMA UpSame ==
  ASSUME TypeInv, Grows, UpInv, up' = up
  PROVE  UpInv'
<1>1. \A m \in Logins : up[m] \in Seq(UpSet(m)')
  BY SetsGrow, SeqMonotonic DEF UpInv
<1> QED
  BY <1>1 DEF UpInv

LEMMA StepUpInv ==
  ASSUME RelayInv, NEW l \in Logins, Step(l)
  PROVE  UpInv'
<1> USE DEF RelayInv
<1>0. Grows
  BY StepGrows
<1>1. up[l] \in Seq(UpSet(l)')
  BY <1>0, SetsGrow, SeqMonotonic DEF UpInv
<1>2. CASE up' = up
  BY <1>0, <1>2, UpSame
<1>3. CASE StreamEnds(l)
  <2>1. << >> \in Seq(UpSet(l)')
    BY SeqEmpty
  <2>2. up' = [up EXCEPT ![l] = << >>]
    BY <1>3 DEF StreamEnds
  <2> QED
    BY <1>0, <2>1, <2>2, UpBecomes
<1>4. CASE \E u \in Users : SendKeyReq(l, u)
  <2>1. PICK u \in Users : SendKeyReq(l, u)
    BY <1>4
  <2>2. KeyReq(u) \in UpSet(l)'
    BY DEF UpSet, KeyReqs
  <2>3. Append(up[l], KeyReq(u)) \in Seq(UpSet(l)')
    BY <1>1, <2>2, SeqAppend
  <2>4. up' = [up EXCEPT ![l] = Append(up[l], KeyReq(u))]
    BY <2>1 DEF SendKeyReq, ToServer
  <2> QED
    BY <1>0, <2>3, <2>4, UpBecomes
<1>5. CASE SendChat(l) /\ up' # up
  <2> DEFINE id == typing[l]
             p == ChatSend(log[id].to, Encrypt(result[l], id))
  <2>1. /\ up' = [up EXCEPT ![l] = Append(up[l], p)]
        /\ result[l] # NULL /\ log'[id].key = result[l]
    BY <1>5, SendChatGrows
  <2>2. id \in 1..Len(log) /\ log[id].from = l
    BY <1>5 DEF SendChat, TypingInv
  <2>3. id \in 1..Len(log') /\ log'[id].from = l /\ log'[id].to = log[id].to
    BY <1>0, <2>2 DEF Grows, SameMessage
  <2>4. id \in SentBy(l)'
    BY <2>1, <2>3 DEF SentBy, Encrypted
  <2>5. p = ChatSend(log'[id].to, Encrypt(log'[id].key, id))
    BY <2>1, <2>3
  <2> HIDE DEF p, id
  <2>6. p \in UpSet(l)'
    BY <2>4, <2>5 DEF UpSet, Cipher
  <2>7. Append(up[l], p) \in Seq(UpSet(l)')
    BY <1>1, <2>6, SeqAppend
  <2> QED
    BY <1>0, <2>1, <2>7, UpBecomes
<1>6. CASE up[l] # << >> /\ TakeUp(l)
  <2>1. Tail(up[l]) \in Seq(UpSet(l)')
    BY <1>1, <1>6, SeqTail
  <2>2. up' = [up EXCEPT ![l] = Tail(up[l])]
    BY <1>6 DEF TakeUp
  <2> QED
    BY <1>0, <2>1, <2>2, UpBecomes
<1>7. CASE LostAtServer(l)
  <2>1. DropSecond(up[l]) \in Seq(UpSet(l)')
    BY <1>1, <1>7, SeqDrop DEF LostAtServer
  <2>2. up' = [up EXCEPT ![l] = DropSecond(up[l])]
    BY <1>7 DEF LostAtServer
  <2> QED
    BY <1>0, <2>1, <2>2, UpBecomes
<1> QED
  BY <1>2, <1>3, <1>4, <1>5, <1>6, <1>7 DEF Step, RegisterUser, SendAuthResp, KeyTimeout,
     ProcessKeyReq, OnDisconnected, LostAtClient, ProcessChatSend, ProcessAuthResp, ProcessKeyResp, ProcessError, ProcessChatDeliver, net

-----------------------------------------------------------------------------
(* Packets under way to the clients. *)
LEMMA DownBecomes ==
  ASSUME TypeInv, Grows, DownInv, NEW l \in Logins, NEW s \in Seq(DownSet(l)'),
         down' = [down EXCEPT ![l] = s]
  PROVE  DownInv'
<1>1. \A m \in Logins : down[m] \in Seq(DownSet(m)')
  BY SetsGrow, SeqMonotonic DEF DownInv
<1>2. DOMAIN down = Logins
  BY DEF DownInv
<1>3. \A m \in Logins : down'[m] \in Seq(DownSet(m)')
  BY <1>1, <1>2
<1>4. down' = [m \in Logins |-> down'[m]]
  BY <1>2
<1> QED
  BY <1>3, <1>4 DEF DownInv

LEMMA DownSame ==
  ASSUME TypeInv, Grows, DownInv, down' = down
  PROVE  DownInv'
<1>1. \A m \in Logins : down[m] \in Seq(DownSet(m)')
  BY SetsGrow, SeqMonotonic DEF DownInv
<1> QED
  BY <1>1 DEF DownInv

LEMMA DownGets ==
  ASSUME TypeInv, Grows, DownInv, NEW l \in Logins, NEW p \in DownSet(l)', ToClient(l, p)
  PROVE  DownInv'
<1>1. down[l] \in Seq(DownSet(l)')
  BY SetsGrow, SeqMonotonic DEF DownInv
<1>2. Append(down[l], p) \in Seq(DownSet(l)')
  BY <1>1, SeqAppend
<1>3. down' = [down EXCEPT ![l] = Append(down[l], p)]
  BY DEF ToClient
<1> QED
  BY <1>2, <1>3, DownBecomes

(* A message that is forwarded was encrypted for the login that gets it,   *)
(* or for an earlier one of the same user, or late.                        *)
LEMMA ForwardFits ==
  ASSUME RelayInv, NEW l \in Logins, NEW i \in SentBy(l), NEW m \in Logins,
         phase[m] \in Live, UserOf[m] = log[i].to
  PROVE  i \in Fitting(m)
<1> USE DEF RelayInv
<1> DEFINE k == log[i].key
<1>1. i \in Encrypted /\ i \in 1..Len(log) /\ k # NULL
  BY DEF SentBy, Encrypted
<1>2. k \in Logins /\ phase[k] # "new" /\ (log[i].late \/ UserOf[k] = UserOf[m])
  BY <1>1, LogTypes DEF KeysInv
<1>3. phase[m] \in Entered /\ (phase[k] \in Entered \/ phase[k] = "gone")
  BY <1>2, LiveIs
<1>4. log[i].late \/ k = m \/ (UserOf[k] = UserOf[m] /\ phase[k] = "gone")
  BY <1>2, <1>3, OneEntered
<1> QED
  BY <1>1, <1>4 DEF Fitting

LEMMA StepDownInv ==
  ASSUME RelayInv, NEW l \in Logins, Step(l)
  PROVE  DownInv'
<1> USE DEF RelayInv
<1>0. Grows
  BY StepGrows
<1>1. CASE down' = down
  BY <1>0, <1>1, DownSame
<1>2. CASE SendAuthResp(l)
  <2>1. AuthResp \in DownSet(l)' /\ ToClient(l, AuthResp)
    BY <1>2 DEF DownSet, SendAuthResp
  <2> QED
    BY <1>0, <2>1, DownGets
<1>3. CASE StreamEnds(l)
  <2>1. << >> \in Seq(DownSet(l)')
    BY SeqEmpty
  <2>2. down' = [down EXCEPT ![l] = << >>]
    BY <1>3 DEF StreamEnds
  <2> QED
    BY <1>0, <2>1, <2>2, DownBecomes
<1>4. CASE ProcessKeyReq(l)
  <2>1. CASE ToClient(l, UserNotFound(0))
    <3>1. UserNotFound(0) \in DownSet(l)'
      BY DEF DownSet
    <3> QED
      BY <1>0, <2>1, <3>1, DownGets
  <2>2. CASE \E m \in Logins : phase[m] # "new" /\ ToClient(l, KeyResp(m))
    <3>1. PICK m \in Logins : phase[m] # "new" /\ ToClient(l, KeyResp(m))
      BY <2>2
    <3>2. phase'[m] # "new"
      BY <1>0, <3>1 DEF Grows
    <3>3. KeyResp(m) \in DownSet(l)'
      BY <3>2 DEF DownSet
    <3> QED
      BY <1>0, <3>1, <3>3, DownGets
  <2>3. \/ ToClient(l, UserNotFound(0))
        \/ \E m \in Logins : phase[m] # "new" /\ ToClient(l, KeyResp(m))
        \/ down' = down
    BY <1>4, FindsLogin DEF ProcessKeyReq, PubkeyFor
  <2> QED
    BY <1>1, <2>1, <2>2, <2>3
<1>5. CASE ProcessChatSend(l)
  <2>1. PICK i \in SentBy(l) : Head(up[l]) = ChatSend(log[i].to, Cipher(i))
    BY <1>5, HeadUp DEF ProcessChatSend
  <2>2. /\ i \in 1..Len(log) /\ Head(up[l]).about = i /\ log[i].from = l
        /\ Head(up[l]).user = log[i].to /\ Head(up[l]).cipher = Cipher(i)
    BY <2>1, Sent, PacketsAbout
  <2>3. i \in 1..Len(log')
    BY <1>0, <2>2 DEF Grows
  <2>4. \/ ToClient(l, UserNotFound(i))
        \/ ToClient(l, CouldNotSend(i))
        \/ \E m \in Logins : /\ phase[m] \in Live /\ UserOf[m] = log[i].to
                             /\ ToClient(m, ChatDeliver(UserOf[l], Cipher(i)))
        \/ \E m \in Logins : Strays(i) /\ ToClient(m, ChatDeliver(UserOf[l], Cipher(i)))
        \/ down' = down
    <3> DEFINE to == Find(registry, log[i].to)
    <3>1. to # NULL => to \in Logins /\ UserOf[to] = log[i].to
      BY FindsLogin
    <3>2. to # NULL => younger[to] \subseteq Logins
      BY <3>1 DEF TypeInv
    <3> HIDE DEF to
    <3>3. \/ ToClient(l, UserNotFound(i))
          \/ ToClient(l, CouldNotSend(i))
          \/ to # NULL /\ phase[to] \in Live /\ ToClient(to, ChatDeliver(UserOf[l], Cipher(i)))
          \/ to # NULL /\ Strays(i) /\ \E m \in younger[to] : ToClient(m, ChatDeliver(UserOf[l], Cipher(i)))
          \/ down' = down
      BY <1>5, <2>2 DEF ProcessChatSend, Refuse, NotSent, Deliver, Forward, ForwardAstray, Strays, to
    <3> QED
      BY <3>1, <3>2, <3>3
  <2>5. CASE ToClient(l, UserNotFound(i))
    <3>1. UserNotFound(i) \in DownSet(l)'
      BY <2>3 DEF DownSet
    <3> QED
      BY <1>0, <2>5, <3>1, DownGets
  <2>6. CASE ToClient(l, CouldNotSend(i))
    <3>1. CouldNotSend(i) \in DownSet(l)'
      BY <2>3 DEF DownSet
    <3> QED
      BY <1>0, <2>6, <3>1, DownGets
  <2>7. CASE \E m \in Logins : /\ phase[m] \in Live /\ UserOf[m] = log[i].to
                               /\ ToClient(m, ChatDeliver(UserOf[l], Cipher(i)))
    <3>1. PICK m \in Logins : /\ phase[m] \in Live /\ UserOf[m] = log[i].to
                              /\ ToClient(m, ChatDeliver(UserOf[l], Cipher(i)))
      BY <2>7
    <3>2. i \in Fitting(m)
      BY <2>1, <3>1, ForwardFits
    <3>3. ChatDeliver(UserOf[log[i].from], Cipher(i)) \in DownSet(m)
      BY <3>2 DEF DownSet
    <3>4. ChatDeliver(UserOf[l], Cipher(i)) \in DownSet(m)'
      BY <1>0, <2>2, <3>3, SetsGrow
    <3> QED
      BY <1>0, <3>1, <3>4, DownGets
  <2>8. ASSUME NEW m \in Logins, Strays(i), ToClient(m, ChatDeliver(UserOf[l], Cipher(i)))
        PROVE  DownInv'
    <3>1. i \in Encrypted' /\ log'[i].from = l /\ Cipher(i)' = Cipher(i)
      <4>1. i \in Encrypted
        BY <2>1 DEF SentBy
      <4> QED
        BY <1>0, <2>2, <4>1, EncryptedGrows DEF Cipher
    <3>2. log'[i].astray
      <4>1. log[i] \in Messages /\ DOMAIN log = 1..Len(log)
        BY <2>2, LogTypes, LenProperties DEF TypeInv
      <4>2. log'[i] = [log[i] EXCEPT !.fate = "forwarded", !.astray = TRUE]
        BY <2>2, <2>8, <4>1 DEF Strays
      <4> QED
        BY <4>1, <4>2 DEF Messages
    <3>3. i \in Fitting(m)'
      BY <3>1, <3>2 DEF Fitting
    <3>4. ChatDeliver(UserOf[log'[i].from], Cipher(i)') \in DownSet(m)'
      BY <3>3 DEF DownSet
    <3> QED
      BY <1>0, <2>8, <3>1, <3>4, DownGets
  <2> QED
    BY <1>1, <2>4, <2>5, <2>6, <2>7, <2>8
<1>6. CASE down[l] # << >> /\ TakeDown(l)
  <2>1. down[l] \in Seq(DownSet(l)')
    BY <1>0, SetsGrow, SeqMonotonic DEF DownInv
  <2>2. Tail(down[l]) \in Seq(DownSet(l)')
    BY <1>6, <2>1, SeqTail
  <2>3. down' = [down EXCEPT ![l] = Tail(down[l])]
    BY <1>6 DEF TakeDown
  <2> QED
    BY <1>0, <2>2, <2>3, DownBecomes
<1>7. CASE LostAtClient(l)
  <2>1. down[l] \in Seq(DownSet(l)')
    BY <1>0, SetsGrow, SeqMonotonic DEF DownInv
  <2>2. DropSecond(down[l]) \in Seq(DownSet(l)')
    BY <1>7, <2>1, SeqDrop DEF LostAtClient
  <2>3. down' = [down EXCEPT ![l] = DropSecond(down[l])]
    BY <1>7 DEF LostAtClient
  <2> QED
    BY <1>0, <2>2, <2>3, DownBecomes
<1> QED
  BY <1>1, <1>2, <1>3, <1>4, <1>5, <1>6, <1>7 DEF Step, RegisterUser, SendKeyReq, SendChat,
     KeyTimeout, OnDisconnected, LostAtServer, ProcessAuthResp, ProcessKeyResp, ProcessError, ProcessChatDeliver, net

-----------------------------------------------------------------------------
(* What the terminals show. *)
LEMMA StepShownInv ==
  ASSUME RelayInv, NEW l \in Logins, Step(l)
  PROVE  ShownInv'
<1> USE DEF RelayInv
<1>0. Grows /\ DOMAIN shown = Logins
  BY StepGrows DEF ShownInv
<1>1. \A m \in Logins : shown[m] \subseteq ShownSet(m) /\ ShownSet(m) \subseteq ShownSet(m)'
  BY <1>0, SetsGrow DEF ShownInv
<1>2. CASE shown' = shown
  <2>1. \A m \in Logins : shown'[m] \subseteq ShownSet(m)'
    BY <1>1, <1>2
  <2> QED
    BY <1>2, <2>1 DEF ShownInv
<1>3. CASE ProcessChatDeliver(l) /\ shown' # shown
  <2>1. PICK i \in Fitting(l) : Head(down[l]) = ChatDeliver(UserOf[log[i].from], Cipher(i))
    BY <1>3, HeadDown DEF ProcessChatDeliver
  <2>2. /\ Head(down[l]).about = i /\ Head(down[l]).cipher = Cipher(i)
        /\ Head(down[l]).sender = UserOf[log[i].from]
    BY <2>1, PacketsAbout
  <2> DEFINE s == [sender |-> UserOf[log[i].from], text |-> Decrypt(l, Cipher(i)), id |-> i]
  <2>3. shown' = [shown EXCEPT ![l] = shown[l] \cup {s}]
    BY <1>3, <2>2 DEF ProcessChatDeliver
  <2>4. s \in ShownSet(l)
    BY <2>1 DEF ShownSet
  <2> HIDE DEF s
  <2>5. \A m \in Logins : shown'[m] \subseteq ShownSet(m)'
    BY <1>0, <1>1, <2>3, <2>4
  <2>6. shown' = [m \in Logins |-> shown'[m]]
    BY <1>0, <2>3
  <2> QED
    BY <2>5, <2>6 DEF ShownInv
<1> QED
  BY <1>2, <1>3 DEF Step, RegisterUser, SendAuthResp, StreamEnds, OnDisconnected, LostAtServer, LostAtClient, SendKeyReq, SendChat, KeyTimeout,
     ProcessKeyReq, ProcessChatSend, ProcessAuthResp, ProcessKeyResp, ProcessError

-----------------------------------------------------------------------------
(* Fetching keys.  t has no more packets of T than s. *)
Keeps(t, s, T) ==
  /\ \A X \in SUBSET T : None(s, X) => None(t, X)
  /\ Single(s, T) => Single(t, T)

LEMMA AppendKeeps ==
  ASSUME NEW S, NEW s \in Seq(S), NEW e \in S, NEW T, e \notin T
  PROVE  Keeps(Append(s, e), s, T)
<1>1. \A X \in SUBSET T : None(s, X) => None(Append(s, e), X)
  BY NoneKept
<1>2. Single(s, T) => Single(Append(s, e), T)
  BY SingleKept
<1> QED
  BY <1>1, <1>2 DEF Keeps

LEMMA TailKeeps ==
  ASSUME NEW S, NEW s \in Seq(S), s # << >>, NEW T
  PROVE  Keeps(Tail(s), s, T)
<1>1. Head(s) \in S
  BY SeqTail
<1>2. \A X \in SUBSET T : None(s, X) => None(Tail(s), X)
  BY <1>1, NoneKept
<1>3. Single(s, T) => Single(Tail(s), T)
  BY <1>1, SingleKept
<1> QED
  BY <1>2, <1>3 DEF Keeps

LEMMA DropKeeps ==
  ASSUME NEW S, NEW s \in Seq(S), Len(s) > 1, NEW T
  PROVE  Keeps(DropSecond(s), s, T)
<1> DEFINE t == DropSecond(s)
           f == [i \in 1..Len(t) |-> IF i = 1 THEN 1 ELSE i + 1]
<1>1. Len(s) \in Nat /\ Len(t) = Len(s) - 1
  BY SeqDrop
<1>2. /\ \A i \in 1..Len(t) : f[i] \in 1..Len(s)
      /\ \A i, j \in 1..Len(t) : f[i] = f[j] => i = j
  BY <1>1
<1>3. \A i \in 1..Len(t) : t[i] = s[f[i]]
  BY <1>1, SeqDrop
<1> HIDE DEF t, f
<1> QED
  BY <1>2, <1>3 DEF Keeps, None, Single, t

LEMMA SameKeeps ==
  ASSUME NEW s, NEW T
  PROVE  Keeps(s, s, T)
BY DEF Keeps

LEMMA OthersAreAnswers ==
  ASSUME NEW u
  PROVE  Others(u) \in SUBSET Answers
BY DEF Others, Answers

(* What does not touch the fetch of a login. *)
LEMMA FetchFrame ==
  ASSUME RelayInv, Grows, NEW m \in Logins, FetchOK(m),
         Keeps(up'[m], up[m], KeyReqs), Keeps(down'[m], down[m], Answers),
         typing'[m] = typing[m], sem'[m] = sem[m], result'[m] = result[m]
  PROVE  FetchOK(m)'
<1>1. typing[m] # NULL => log'[typing[m]].to = log[typing[m]].to
  BY DEF RelayInv, TypingInv, Grows, SameMessage
<1>2. /\ None(up[m], KeyReqs) => None(up'[m], KeyReqs)
      /\ None(down[m], Answers) => None(down'[m], Answers)
      /\ Single(up'[m], KeyReqs) /\ Single(down'[m], Answers)
  BY DEF Keeps, FetchOK
<1>3. \A u : None(up[m], KeyReqs \ {KeyReq(u)}) => None(up'[m], KeyReqs \ {KeyReq(u)})
  BY DEF Keeps
<1>4. \A u : None(down[m], Others(u)) => None(down'[m], Others(u))
  BY OthersAreAnswers DEF Keeps
<1>5. typing'[m] # NULL =>
       /\ None(up'[m], KeyReqs \ {KeyReq(log'[typing'[m]].to)})
       /\ None(down'[m], Others(log'[typing'[m]].to))
       /\ sem'[m] = 1 /\ result'[m] # NULL => UserOf[result'[m]] = log'[typing'[m]].to
  <2> SUFFICES ASSUME typing[m] # NULL
               PROVE  /\ None(up'[m], KeyReqs \ {KeyReq(log[typing[m]].to)})
                      /\ None(down'[m], Others(log[typing[m]].to))
                      /\ sem[m] = 1 /\ result[m] # NULL => UserOf[result[m]] = log[typing[m]].to
    BY <1>1
  <2>1. /\ None(up[m], KeyReqs \ {KeyReq(log[typing[m]].to)})
        /\ None(down[m], Others(log[typing[m]].to))
        /\ sem[m] = 1 /\ result[m] # NULL => UserOf[result[m]] = log[typing[m]].to
    BY DEF FetchOK
  <2> QED
    BY <1>3, <1>4, <2>1
<1> QED
  BY <1>2, <1>5 DEF FetchOK

(* Which packets any step adds to or takes from the queues of a login,     *)
(* besides questions and answers.                                          *)
LEMMA OtherLoginsFetch ==
  ASSUME RelayInv, NEW l \in Logins, Step(l), NEW m \in Logins, m # l
  PROVE  /\ Keeps(up'[m], up[m], KeyReqs)
         /\ Keeps(down'[m], down[m], Answers)
         /\ typing'[m] = typing[m] /\ sem'[m] = sem[m] /\ result'[m] = result[m]
         /\ late'[m] = late[m]
<1> USE DEF RelayInv
<1>0. /\ DOMAIN up = Logins /\ DOMAIN down = Logins /\ DOMAIN typing = Logins
      /\ DOMAIN sem = Logins /\ DOMAIN result = Logins /\ DOMAIN late = Logins
  BY DEF UpInv, DownInv, TypeInv
<1>1. typing'[m] = typing[m] /\ sem'[m] = sem[m] /\ result'[m] = result[m] /\ late'[m] = late[m]
  BY <1>0 DEF Step, RegisterUser, SendAuthResp, StreamEnds, OnDisconnected, LostAtServer, LostAtClient, SendKeyReq, SendChat, KeyTimeout,
     ProcessKeyReq, ProcessChatSend, ProcessAuthResp, ProcessKeyResp, ProcessError,
     ProcessChatDeliver, fetch
<1>2. up'[m] = up[m]
  BY <1>0 DEF Step, RegisterUser, SendAuthResp, StreamEnds, OnDisconnected, LostAtServer, LostAtClient, SendKeyReq, SendChat, KeyTimeout,
     ProcessKeyReq, ProcessChatSend, ProcessAuthResp, ProcessKeyResp, ProcessError,
     ProcessChatDeliver, net, ToServer, TakeUp
<1>3. CASE ProcessChatSend(l)
  <2>1. PICK i \in SentBy(l) : Head(up[l]) = ChatSend(log[i].to, Cipher(i))
    BY <1>3, HeadUp DEF ProcessChatSend
  <2>2. Head(up[l]).about = i /\ Head(up[l]).user = log[i].to /\ Head(up[l]).cipher = Cipher(i)
    BY <2>1, PacketsAbout
  <2>3. down'[m] = down[m] \/ down'[m] = Append(down[m], ChatDeliver(UserOf[l], Cipher(i)))
    BY <1>0, <1>3, <2>2
    DEF ProcessChatSend, Refuse, NotSent, Deliver, Forward, ForwardAstray, ToClient
  <2> DEFINE p == ChatDeliver(UserOf[l], Cipher(i))
  <2>4. p \notin Answers
    BY PacketKinds
  <2>5. down[m] \in Seq(DownSet(m) \cup {p}) /\ p \in DownSet(m) \cup {p}
    BY SeqMonotonic DEF DownInv
  <2> HIDE DEF p
  <2>6. Keeps(Append(down[m], p), down[m], Answers)
    BY <2>4, <2>5, AppendKeeps
  <2> QED
    BY <1>1, <1>2, <2>3, <2>6, SameKeeps DEF p
<1>4. CASE ~ProcessChatSend(l)
  <2>1. down'[m] = down[m]
    BY <1>0, <1>4 DEF Step, RegisterUser, SendAuthResp, StreamEnds, OnDisconnected, LostAtServer, LostAtClient, SendKeyReq, SendChat, KeyTimeout,
       ProcessKeyReq, ProcessAuthResp, ProcessKeyResp, ProcessError,
       ProcessChatDeliver, net, ToClient, TakeDown
  <2> QED
    BY <1>1, <1>2, <2>1, SameKeeps
<1> QED
  BY <1>3, <1>4

(* The steps of a fetch. *)
LEMMA SendKeyReqFetch ==
  ASSUME RelayInv, NEW l \in Logins, NEW u \in Users, SendKeyReq(l, u), FetchOK(l)
  PROVE  FetchOK(l)'
<1> USE DEF RelayInv
<1>1. /\ typing[l] = NULL /\ up'[l] = Append(up[l], KeyReq(u)) /\ typing'[l] = Len(log')
      /\ down'[l] = down[l] /\ sem'[l] = sem[l]
  BY SendKeyReqGrows DEF SendKeyReq, ToServer, UpInv, TypeInv
<1>2. None(up[l], KeyReqs) /\ None(down[l], Answers) /\ sem[l] = 0
  BY <1>1 DEF FetchOK
<1>3. typing'[l] # NULL /\ log'[typing'[l]].to = u
  BY <1>1, SendKeyReqGrows, RelayAssumption DEF Ids
<1>4. up[l] \in Seq(UpSet(l)) /\ KeyReq(u) \in UpSet(l)
  BY DEF UpInv, UpSet, KeyReqs
<1>5. Single(up[l], KeyReqs) /\ None(up[l], KeyReqs \ {KeyReq(u)})
  BY <1>2, NoneIsSingle DEF None
<1>6. Single(up'[l], KeyReqs) /\ None(up'[l], KeyReqs \ {KeyReq(u)})
  <2>1. Single(Append(up[l], KeyReq(u)), KeyReqs)
    BY <1>2, <1>4, <1>5, SingleKept
  <2>2. None(Append(up[l], KeyReq(u)), KeyReqs \ {KeyReq(u)})
    BY <1>4, <1>5, NoneKept
  <2> QED
    BY <1>1, <2>1, <2>2
<1>7. Single(down'[l], Answers) /\ None(down'[l], Answers) /\ None(down'[l], Others(u))
  BY <1>1, <1>2, NoneIsSingle, OthersAreAnswers DEF None
<1> QED
  BY <1>1, <1>2, <1>3, <1>6, <1>7 DEF FetchOK

LEMMA SendChatFetch ==
  ASSUME RelayInv, NEW l \in Logins, SendChat(l), FetchOK(l)
  PROVE  FetchOK(l)'
<1> USE DEF RelayInv
<1>1. /\ typing'[l] = NULL /\ down'[l] = down[l] /\ sem'[l] = sem[l] - 1 /\ sem[l] > 0
  BY DEF SendChat, TypeInv, KeyArrived
<1>2. sem[l] = 1 /\ sem'[l] = 0 /\ None(up[l], KeyReqs) /\ None(down[l], Answers)
  BY <1>1 DEF FetchOK
<1> DEFINE p == ChatSend(log[typing[l]].to, Encrypt(result[l], typing[l]))
<1>3. up'[l] = up[l] \/ up'[l] = Append(up[l], p)
  BY SendChatGrows DEF UpInv
<1>4. p \notin KeyReqs
  BY DEF KeyReqs, KeyReq, ChatSend
<1>5. up[l] \in Seq(UpSet(l) \cup {p}) /\ p \in UpSet(l) \cup {p}
  BY SeqMonotonic DEF UpInv
<1> HIDE DEF p
<1>6. None(up'[l], KeyReqs)
  BY <1>2, <1>3, <1>4, <1>5, NoneKept
<1> QED
  BY <1>1, <1>2, <1>6, NoneIsSingle DEF FetchOK

LEMMA ProcessKeyReqFetch ==
  ASSUME RelayInv, NEW l \in Logins, ProcessKeyReq(l), FetchOK(l)
  PROVE  FetchOK(l)'
<1> USE DEF RelayInv
<1>1. PICK u \in Users : Head(up[l]) = KeyReq(u)
  BY HeadUp DEF ProcessKeyReq
<1>2. /\ up[l] # << >> /\ up'[l] = Tail(up[l])
      /\ typing' = typing /\ sem' = sem /\ result' = result /\ log' = log
  BY DEF ProcessKeyReq, TakeUp, UpInv, fetch
<1>3. /\ up[l] \in Seq(UpSet(l)) /\ Head(up[l]) \in UpSet(l)
      /\ 1 \in 1..Len(up[l]) /\ up[l][1] = KeyReq(u)
  <2>1. up[l] \in Seq(UpSet(l))
    BY DEF UpInv
  <2>2. Head(up[l]) \in UpSet(l) /\ Len(up[l]) \in Nat \ {0} /\ Head(up[l]) = up[l][1]
    BY <1>2, <2>1, SeqTail
  <2> QED
    BY <1>1, <2>1, <2>2
<1>4. KeyReq(u) \in KeyReqs /\ ~None(up[l], KeyReqs)
  BY <1>3 DEF None, KeyReqs
<1>5. None(down[l], Answers) /\ sem[l] = 0 /\ typing[l] # NULL
  BY <1>4 DEF FetchOK
<1>6. u = log[typing[l]].to
  <2>1. KeyReq(u) = KeyReq(log[typing[l]].to)
    BY <1>3, <1>4, <1>5 DEF FetchOK, None
  <2> QED
    BY <2>1 DEF KeyReq
<1>7. None(up'[l], KeyReqs)
  BY <1>2, <1>3, <1>1, <1>4, SingleKept DEF FetchOK
<1>8. Single(down'[l], Answers) /\ None(down'[l], Others(u))
  <2>1. Single(down[l], Answers) /\ None(down[l], Others(u))
    BY <1>5, NoneIsSingle, OthersAreAnswers DEF None
  <2>2. PICK p : (p \in Answers \ Others(u) /\ ToClient(l, p)) \/ down' = down
    <3>1. UserNotFound(0) \in Answers \ Others(u)
      BY DEF Answers, Others, UserNotFound, KeyResp
    <3>2. \A m \in Logins : UserOf[m] = u => KeyResp(m) \in Answers \ Others(u)
      BY DEF Answers, Others, KeyResp
    <3>3. Head(up[l]).user = u
      BY <1>1, PacketsAbout
    <3>4. \/ ToClient(l, UserNotFound(0))
          \/ \E m \in Logins : UserOf[m] = u /\ ToClient(l, KeyResp(m))
          \/ down' = down
      BY <3>3, FindsLogin DEF ProcessKeyReq, PubkeyFor
    <3> QED
      BY <3>1, <3>2, <3>4
  <2>3. CASE down' = down
    BY <2>1, <2>3
  <2>4. CASE p \in Answers \ Others(u) /\ ToClient(l, p)
    <3>1. down'[l] = Append(down[l], p)
      BY <2>4 DEF ToClient, DownInv
    <3>2. down[l] \in Seq(DownSet(l) \cup {p}) /\ p \in DownSet(l) \cup {p}
      BY SeqMonotonic DEF DownInv
    <3>3. Single(Append(down[l], p), Answers)
      BY <1>5, <2>1, <3>2, SingleKept
    <3>4. None(Append(down[l], p), Others(u))
      BY <2>1, <2>4, <3>2, NoneKept
    <3> QED
      BY <3>1, <3>3, <3>4
  <2> QED
    BY <2>2, <2>3, <2>4
<1>9. None(up'[l], KeyReqs \ {KeyReq(u)}) /\ Single(up'[l], KeyReqs)
  BY <1>7, NoneIsSingle DEF None
<1> QED
  BY <1>2, <1>5, <1>6, <1>7, <1>8, <1>9 DEF FetchOK

(* KEY_RESP, or USER_NOT_FOUND about a KEY_REQ. *)
LEMMA AnswerFetch ==
  ASSUME RelayInv, NEW l \in Logins, FetchOK(l), down[l] # << >>, Head(down[l]) \in Answers,
         TakeDown(l), sem' = [sem EXCEPT ![l] = @ + 1],
         up' = up, typing' = typing, Grows,
         \/ result' = [result EXCEPT ![l] = NULL]
         \/ \E k \in Logins : Head(down[l]) = KeyResp(k) /\ result' = [result EXCEPT ![l] = k]
  PROVE  FetchOK(l)'
<1> USE DEF RelayInv
<1>1. down[l] \in Seq(DownSet(l)) /\ down'[l] = Tail(down[l])
  BY DEF DownInv, TakeDown
<1>2. /\ Head(down[l]) \in DownSet(l) /\ Len(down[l]) \in Nat \ {0}
      /\ Head(down[l]) = down[l][1]
  BY <1>1, SeqTail
<1>3. 1 \in 1..Len(down[l])
  BY <1>2
<1>4. ~None(down[l], Answers)
  BY <1>2, <1>3 DEF None
<1>5. sem[l] = 0 /\ None(up[l], KeyReqs) /\ typing[l] # NULL
  BY <1>4 DEF FetchOK
<1>6. sem'[l] = 1
  BY <1>5 DEF TypeInv
<1>7. None(down'[l], Answers)
  BY <1>1, <1>2, SingleKept DEF FetchOK
<1> DEFINE u == log[typing[l]].to
<1>8. log'[typing'[l]].to = u
  BY <1>5 DEF TypingInv, Grows, SameMessage
<1>9. result'[l] # NULL => UserOf[result'[l]] = u
  <2> SUFFICES ASSUME NEW k \in Logins, Head(down[l]) = KeyResp(k), result'[l] = k
               PROVE  UserOf[k] = u
    BY DEF TypeInv
  <2>1. KeyResp(k) \notin Others(u)
    BY <1>2, <1>3, <1>5 DEF FetchOK, None
  <2> QED
    BY <2>1 DEF Others
<1>10. None(down'[l], Others(u)) /\ None(up'[l], KeyReqs \ {KeyReq(u)})
  BY <1>5, <1>7, OthersAreAnswers DEF None
<1> HIDE DEF u
<1> QED
  BY <1>5, <1>6, <1>7, <1>8, <1>9, <1>10, NoneIsSingle DEF FetchOK

LEMMA StepFetchInv ==
  ASSUME RelayInv, NEW l \in Logins, Step(l)
  PROVE  FetchInv'
<1> USE DEF RelayInv
<1> SUFFICES ASSUME NEW m \in Logins, ~late'[m]
             PROVE  FetchOK(m)'
  BY DEF FetchInv
<1>0. Grows
  BY StepGrows
<1>1. CASE m # l
  <2>1. FetchOK(m)
    BY <1>0, <1>1, OtherLoginsFetch DEF FetchInv
  <2> QED
    BY <1>0, <1>1, <2>1, OtherLoginsFetch, FetchFrame
<1>2. CASE m = l
  <2>0. /\ DOMAIN up = Logins /\ DOMAIN down = Logins /\ DOMAIN late = Logins
        /\ up[l] \in Seq(UpSet(l)) /\ down[l] \in Seq(DownSet(l)) /\ late[l] \in BOOLEAN
    BY DEF UpInv, DownInv, TypeInv
  <2>1. ~late[l] \/ StreamEnds(l)
    BY <1>2, <2>0 DEF Step, RegisterUser, SendAuthResp, StreamEnds, OnDisconnected, LostAtServer, LostAtClient, SendKeyReq, SendChat, KeyTimeout,
       ProcessKeyReq, ProcessChatSend, ProcessAuthResp, ProcessKeyResp, ProcessError,
       ProcessChatDeliver, fetch
  <2>2. CASE StreamEnds(l)
    <3>1. up'[l] = << >> /\ down'[l] = << >> /\ typing'[l] = NULL /\ sem'[l] = 0
      BY <2>0, <2>2 DEF StreamEnds, TypeInv
    <3> QED
      BY <1>2, <3>1, NoneOfEmpty, NoneIsSingle DEF FetchOK
  <2> SUFFICES ASSUME ~StreamEnds(l)
               PROVE  FetchOK(m)'
    BY <2>2
  <2>5. FetchOK(l)
    BY <2>1 DEF FetchInv
  <2>3. CASE RegisterUser(l) \/ OnDisconnected(l)
    <3>1. up' = up /\ down' = down /\ typing' = typing /\ sem' = sem /\ result' = result
      BY <2>3 DEF RegisterUser, OnDisconnected, net, fetch
    <3> QED
      BY <1>0, <1>2, <2>5, <3>1, SameKeeps, FetchFrame
  <2>4. CASE SendAuthResp(l)
    <3>1. /\ up' = up /\ typing' = typing /\ sem' = sem /\ result' = result
          /\ down'[l] = Append(down[l], AuthResp)
      BY <2>0, <2>4 DEF SendAuthResp, fetch, ToClient
    <3>2. AuthResp \in DownSet(l)
      BY DEF DownSet
    <3>3. Keeps(down'[l], down[l], Answers)
      BY <2>0, <3>1, <3>2, AppendKeeps, PacketKinds
    <3> QED
      BY <1>0, <1>2, <2>5, <3>1, <3>3, SameKeeps, FetchFrame
  <2>6. CASE \E u \in Users : SendKeyReq(l, u)
    BY <1>2, <2>5, <2>6, SendKeyReqFetch
  <2>7. CASE SendChat(l)
    BY <1>2, <2>5, <2>7, SendChatFetch
  <2>8. CASE KeyTimeout(l)
    BY <1>2, <2>0, <2>8 DEF KeyTimeout
  <2>9. CASE ProcessKeyReq(l)
    BY <1>2, <2>5, <2>9, ProcessKeyReqFetch
  <2>10. CASE ProcessChatSend(l)
    <3>1. PICK i \in SentBy(l) : Head(up[l]) = ChatSend(log[i].to, Cipher(i))
      BY <2>10, HeadUp DEF ProcessChatSend
    <3>2. Head(up[l]).about = i /\ Head(up[l]).cipher = Cipher(i) /\ i # 0
      BY <3>1, PacketsAbout, Sent
    <3>3. PICK p : (down'[l] = Append(down[l], p) /\ p \notin Answers) \/ down'[l] = down[l]
      <4>1. \/ down'[l] = Append(down[l], UserNotFound(i))
            \/ down'[l] = Append(down[l], CouldNotSend(i))
            \/ down'[l] = Append(down[l], ChatDeliver(UserOf[l], Cipher(i)))
            \/ down'[l] = down[l]
        BY <2>0, <2>10, <3>2
        DEF ProcessChatSend, Refuse, NotSent, Deliver, Forward, ForwardAstray, ToClient
      <4> QED
        BY <3>2, <4>1, PacketKinds
    <3>4. down[l] \in Seq(DownSet(l) \cup {p}) /\ p \in DownSet(l) \cup {p}
      BY <2>0, SeqMonotonic
    <3>5. Keeps(down'[l], down[l], Answers)
      BY <3>3, <3>4, AppendKeeps, SameKeeps
    <3>6. /\ up[l] # << >> /\ up'[l] = Tail(up[l])
          /\ typing' = typing /\ sem' = sem /\ result' = result
      BY <2>0, <2>10 DEF ProcessChatSend, TakeUp, fetch
    <3>7. Keeps(up'[l], up[l], KeyReqs)
      BY <2>0, <3>6, TailKeeps
    <3> QED
      BY <1>0, <1>2, <2>5, <3>5, <3>6, <3>7, FetchFrame
  <2>11. CASE /\ down[l] # << >> /\ TakeDown(l)
              /\ up' = up /\ typing' = typing /\ sem' = sem /\ result' = result
    <3>1. down'[l] = Tail(down[l])
      BY <2>0, <2>11 DEF TakeDown
    <3>2. Keeps(down'[l], down[l], Answers)
      BY <2>0, <2>11, <3>1, TailKeeps
    <3> QED
      BY <1>0, <1>2, <2>5, <2>11, <3>2, SameKeeps, FetchFrame
  <2>12. CASE ProcessKeyResp(l)
    <3>1. PICK k \in Logins : Head(down[l]) = KeyResp(k)
      BY <2>12, HeadDown DEF ProcessKeyResp
    <3>2. Head(down[l]) \in Answers /\ Head(down[l]).key = k
      BY <3>1, PacketsAbout DEF Answers
    <3> QED
      BY <1>0, <1>2, <2>5, <2>12, <3>1, <3>2, AnswerFetch DEF ProcessKeyResp
  <2>13. CASE ProcessError(l) /\ Head(down[l]).type = "USER_NOT_FOUND"
    <3>1. PICK i \in {0} \cup 1..Len(log) : Head(down[l]) = UserNotFound(i)
      BY <2>13, HeadDown DEF ProcessError
    <3>2. late' = [late EXCEPT ![l] = @ \/ i # 0]
      BY <2>13, <3>1, PacketsAbout DEF ProcessError
    <3>3. i = 0
      BY <1>2, <2>0, <3>2
    <3>4. Head(down[l]) \in Answers
      BY <3>1, <3>3 DEF Answers
    <3> QED
      BY <1>0, <1>2, <2>5, <2>13, <3>4, AnswerFetch DEF ProcessError
  <2>14. CASE LostAtServer(l)
    <3>1. /\ up'[l] = DropSecond(up[l]) /\ Len(up[l]) > 1
          /\ down' = down /\ typing' = typing /\ sem' = sem /\ result' = result
      BY <2>0, <2>14 DEF LostAtServer, fetch
    <3>2. Keeps(up'[l], up[l], KeyReqs)
      BY <2>0, <3>1, DropKeeps
    <3> QED
      BY <1>0, <1>2, <2>5, <3>1, <3>2, SameKeeps, FetchFrame
  <2>15. CASE LostAtClient(l)
    <3>1. /\ down'[l] = DropSecond(down[l]) /\ Len(down[l]) > 1
          /\ up' = up /\ typing' = typing /\ sem' = sem /\ result' = result
      BY <2>0, <2>15 DEF LostAtClient, fetch
    <3>2. Keeps(down'[l], down[l], Answers)
      BY <2>0, <3>1, DropKeeps
    <3> QED
      BY <1>0, <1>2, <2>5, <3>1, <3>2, SameKeeps, FetchFrame
  <2> QED
    BY <2>3, <2>4, <2>6, <2>7, <2>8, <2>9, <2>10, <2>11, <2>12, <2>13, <2>14, <2>15
    DEF Step, ProcessAuthResp, ProcessError, ProcessChatDeliver, fetch
<1> QED
  BY <1>1, <1>2

-----------------------------------------------------------------------------
(* The invariant as a whole. *)
LEMMA InitRelayInv ==
  ASSUME Init
  PROVE  RelayInv
<1>1. TypeInv
  <2>1. << >> \in Seq(Messages) /\ Len(<< >>) = 0
    BY SeqEmpty
  <2>2. EmptyRegistry \in [Slots -> Entries(Users, Logins, Logins)]
    BY DEF EmptyRegistry, Entries
  <2> QED
    BY <2>1, <2>2, RelayAssumption DEF TypeInv, Init, Phases
<1>2. RegistryInv
  <2>1. \A i \in Slots : registry[i] = FreeEntry
    BY DEF Init, EmptyRegistry
  <2>2. FreeEntry.in_use = FALSE
    BY DEF FreeEntry
  <2>3. \A m \in Logins : phase[m] \notin Entered
    BY DEF Init, Live, Entered
  <2> QED
    BY <2>1, <2>2, <2>3 DEF RegistryInv, UniqueNames
<1>3. TypingInv /\ QuietInv
  BY DEF Init, TypingInv, QuietInv
<1>4. KeysInv
  <2>1. Len(log) = 0
    BY SeqEmpty DEF Init
  <2> QED
    BY <2>1 DEF Init, KeysInv
<1>5. UpInv /\ DownInv /\ ShownInv
  <2>1. \A l \in Logins : << >> \in Seq(UpSet(l)) /\ << >> \in Seq(DownSet(l))
    BY SeqEmpty
  <2> QED
    BY <2>1 DEF Init, UpInv, DownInv, ShownInv
<1>6. FetchInv
  BY NoneOfEmpty, NoneIsSingle DEF Init, FetchInv, FetchOK
<1> QED
  BY <1>1, <1>2, <1>3, <1>4, <1>5, <1>6 DEF RelayInv

LEMMA StepRelayInv ==
  ASSUME RelayInv, [Next]_vars
  PROVE  RelayInv'
<1>1. CASE Next
  <2>1. PICK l \in Logins : Step(l)
    BY <1>1, NextIsStep
  <2>2. TypeInv' /\ RegistryInv' /\ TypingInv' /\ QuietInv' /\ KeysInv'
    BY <2>1, StepTypeInv, StepRegistryInv, StepTypingInv, StepQuietInv, StepKeysInv
  <2>3. UpInv' /\ DownInv' /\ ShownInv' /\ FetchInv'
    BY <2>1, StepUpInv, StepDownInv, StepShownInv, StepFetchInv
  <2> QED
    BY <2>2, <2>3 DEF RelayInv
<1>2. CASE UNCHANGED vars
  <2>1. /\ registry' = registry /\ phase' = phase /\ up' = up /\ down' = down
        /\ typing' = typing /\ sem' = sem /\ result' = result /\ late' = late
        /\ log' = log /\ shown' = shown /\ younger' = younger
    BY <1>2 DEF vars, net, fetch
  <2>2. TypeInv' /\ RegistryInv' /\ TypingInv' /\ QuietInv' /\ KeysInv'
    BY <2>1 DEF RelayInv, TypeInv, RegistryInv, TypingInv, QuietInv, KeysInv
  <2>3. Grows
    BY <2>1, SameLogGrows, SamePhaseGrows DEF Grows, RelayInv
  <2>4. UpInv' /\ DownInv'
    BY <2>1, <2>3, UpSame, DownSame DEF RelayInv
  <2>5. ShownInv'
    BY <2>1, <2>3, SetsGrow DEF RelayInv, ShownInv
  <2>6. FetchInv'
    BY <2>1 DEF RelayInv, FetchInv, FetchOK
  <2> QED
    BY <2>2, <2>4, <2>5, <2>6 DEF RelayInv
<1> QED
  BY <1>1, <1>2

(* In every reachable state the packets under way, the keys fetched and    *)
(* the lines shown fit the messages that were typed (RelayInv, above).     *)
THEOREM RelayCorrect == Spec => []RelayInv
<1>1. Init => RelayInv
  BY InitRelayInv
<1>2. RelayInv /\ [Next]_vars => RelayInv'
  BY StepRelayInv
<1> QED
  BY <1>1, <1>2, PTL DEF Spec

(* A ciphertext opens for the one it was made for and nobody else. *)
LEMMA DecryptOpens ==
  ASSUME NEW l, NEW i
  PROVE  Decrypt(l, Cipher(i)) = IF log[i].key = l THEN i ELSE NULL
<1>1. {l, i} = {i, log[i].key} <=> log[i].key = l
  OBVIOUS
<1> QED
  BY <1>1 DEF Decrypt, Cipher, Encrypt, Secret

LEMMA LinesAreMessages ==
  ASSUME RelayInv, NEW l \in Logins, NEW s \in shown[l]
  PROVE  /\ s.id \in Fitting(l) /\ s.id \in Ids /\ s.id # NULL
         /\ s.sender = UserOf[log[s.id].from]
         /\ s.text = IF log[s.id].key = l THEN s.id ELSE NULL
<1>1. PICK i \in Fitting(l) :
        s = [sender |-> UserOf[log[i].from], text |-> Decrypt(l, Cipher(i)), id |-> i]
  BY DEF RelayInv, ShownInv, ShownSet
<1>2. i \in Ids /\ i # NULL
  BY Fitted, LogTypes, RelayAssumption DEF RelayInv, Ids
<1> QED
  BY <1>1, <1>2, DecryptOpens

(* The name that sqmp_process_chat_deliver shows is that of the user who   *)
(* typed the message, and only those it was typed for see it, whatever     *)
(* logins, log-outs and logins anew have happened in between, unless the   *)
(* server has sent it on over an entry whose stream was freed.             *)
THEOREM SendersAreTrue == Spec => []SenderIsTrue
<1>1. RelayInv => SenderIsTrue
  <2> SUFFICES ASSUME RelayInv, NEW l \in Logins, NEW s \in shown[l]
               PROVE  /\ s.sender = UserOf[log[s.id].from]
                      /\ UserOf[l] = log[s.id].to \/ log[s.id].astray
    BY DEF SenderIsTrue
  <2> QED
    BY LinesAreMessages DEF Fitting
<1> QED
  BY <1>1, RelayCorrect, PTL

(* Where decrypt_chat fails, the key was that of a login of the same user  *)
(* that is gone, or send_chat may have taken up a post of key_fetch_sem    *)
(* that was not the answer to its KEY_REQ, or the message went to a freed  *)
(* stream.                                                                 *)
THEOREM UnreadableAreStale == Spec => []UnreadableIsStale
<1>1. RelayInv => UnreadableIsStale
  <2> SUFFICES ASSUME RelayInv, NEW l \in Logins, NEW s \in shown[l], s.text = NULL
               PROVE  \/ log[s.id].late \/ log[s.id].astray
                      \/ UserOf[log[s.id].key] = UserOf[l] /\ phase[log[s.id].key] = "gone"
    BY DEF UnreadableIsStale
  <2> QED
    BY LinesAreMessages DEF Fitting
<1> QED
  BY <1>1, RelayCorrect, PTL

-----------------------------------------------------------------------------
(* What becomes of messages.  First the queues of packets: taking a packet *)
(* out of one, and putting one into it.                                    *)
KeepsAbout(t, s, i) ==
  /\ NoneAbout(s, i) => NoneAbout(t, i)
  /\ OneAbout(s, i) => OneAbout(t, i)

LEMMA AboutTail ==
  ASSUME NEW S, NEW s \in Seq(S), s # << >>, NEW i
  PROVE  /\ KeepsAbout(Tail(s), s, i)
         /\ OneAbout(s, i) /\ Head(s).about = i => NoneAbout(Tail(s), i)
         /\ 1 \in 1..Len(s) /\ s[1] = Head(s)
<1>1. /\ Len(s) \in Nat \ {0} /\ Len(Tail(s)) = Len(s) - 1 /\ Head(s) = s[1]
      /\ \A k \in 1..(Len(s) - 1) : Tail(s)[k] = s[k + 1]
  BY SeqTail
<1>2. /\ 1 \in 1..Len(s)
      /\ \A k \in 1..Len(Tail(s)) : k + 1 \in 1..Len(s) /\ k + 1 # 1 /\ k \in Int
      /\ \A k \in 1..Len(Tail(s)) : Tail(s)[k] = s[k + 1]
      /\ \A j, k \in 1..Len(Tail(s)) : j + 1 = k + 1 => j = k
  BY <1>1
<1>3. NoneAbout(s, i) => NoneAbout(Tail(s), i)
  BY <1>2 DEF NoneAbout
<1>4. OneAbout(s, i) => OneAbout(Tail(s), i)
  BY <1>2 DEF OneAbout
<1>5. OneAbout(s, i) /\ Head(s).about = i => NoneAbout(Tail(s), i)
  BY <1>1, <1>2 DEF OneAbout, NoneAbout
<1> QED
  BY <1>1, <1>2, <1>3, <1>4, <1>5 DEF KeepsAbout

LEMMA AboutDrop ==
  ASSUME NEW S, NEW s \in Seq(S), Len(s) > 1, NEW i
  PROVE  /\ KeepsAbout(DropSecond(s), s, i)
         /\ OneAbout(s, i) /\ s[2].about = i => NoneAbout(DropSecond(s), i)
         /\ 2 \in 1..Len(s)
<1> DEFINE t == DropSecond(s)
           f == [k \in 1..Len(t) |-> IF k = 1 THEN 1 ELSE k + 1]
<1>1. Len(s) \in Nat /\ Len(t) = Len(s) - 1
  BY SeqDrop
<1>2. /\ \A k \in 1..Len(t) : f[k] \in 1..Len(s) /\ f[k] # 2
      /\ \A j, k \in 1..Len(t) : f[j] = f[k] => j = k
      /\ 2 \in 1..Len(s)
  BY <1>1
<1>3. \A k \in 1..Len(t) : t[k] = s[f[k]]
  BY <1>1, SeqDrop
<1> HIDE DEF t, f
<1>4. NoneAbout(s, i) => NoneAbout(t, i)
  BY <1>2, <1>3 DEF NoneAbout
<1>5. OneAbout(s, i) => OneAbout(t, i)
  BY <1>2, <1>3 DEF OneAbout
<1>6. OneAbout(s, i) /\ s[2].about = i => NoneAbout(t, i)
  BY <1>2, <1>3 DEF OneAbout, NoneAbout
<1> QED
  BY <1>2, <1>4, <1>5, <1>6 DEF KeepsAbout, t

LEMMA AboutAppend ==
  ASSUME NEW S, NEW s \in Seq(S), NEW e, NEW i
  PROVE  /\ e.about # i => KeepsAbout(Append(s, e), s, i)
         /\ NoneAbout(s, i) => OneAbout(Append(s, e), i)
<1>1. s \in Seq(S \cup {e}) /\ e \in S \cup {e}
  BY SeqMonotonic
<1>2. /\ Len(s) \in Nat /\ Len(Append(s, e)) = Len(s) + 1
      /\ \A k \in 1..Len(s) : Append(s, e)[k] = s[k]
      /\ Append(s, e)[Len(s) + 1] = e
  BY <1>1, SeqAppend
<1>3. \A k \in 1..Len(Append(s, e)) : k \in 1..Len(s) \/ k = Len(s) + 1
  BY <1>2
<1>4. e.about # i /\ NoneAbout(s, i) => NoneAbout(Append(s, e), i)
  BY <1>2, <1>3 DEF NoneAbout
<1>5. e.about # i /\ OneAbout(s, i) => OneAbout(Append(s, e), i)
  BY <1>2, <1>3 DEF OneAbout
<1>6. NoneAbout(s, i) => OneAbout(Append(s, e), i)
  BY <1>2, <1>3 DEF OneAbout, NoneAbout
<1> QED
  BY <1>4, <1>5, <1>6 DEF KeepsAbout

LEMMA AboutEmpty ==
  ASSUME NEW i
  PROVE  NoneAbout(<< >>, i) /\ OneAbout(<< >>, i)
<1>1. Len(<< >>) = 0
  BY SeqEmpty
<1> QED
  BY <1>1 DEF NoneAbout, OneAbout

LEMMA AboutSame ==
  ASSUME NEW s, NEW i
  PROVE  KeepsAbout(s, s, i)
BY DEF KeepsAbout

(* And all queues together. *)
LEMMA AloneKept ==
  ASSUME NEW u, NEW d, NEW u1, NEW d1, NEW i,
         \A l \in Logins : KeepsAbout(u1[l], u[l], i) /\ KeepsAbout(d1[l], d[l], i)
  PROVE  /\ Alone(u, d, i) => Alone(u1, d1, i)
         /\ Grounded(u, d, i) => Grounded(u1, d1, i)
BY DEF Alone, OnlyIn, Grounded, KeepsAbout

LEMMA AloneSwap ==
  ASSUME NEW u, NEW d, NEW i
  PROVE  /\ Alone(u, d, i) <=> Alone(d, u, i)
         /\ Grounded(u, d, i) <=> Grounded(d, u, i)
BY DEF Alone, Grounded

LEMMA Taken ==
  ASSUME NEW q, NEW r, NEW q1, NEW i, Alone(q, r, i), NEW l \in Logins,
         NEW k \in 1..Len(q[l]), q[l][k].about = i,
         OneAbout(q[l], i) => NoneAbout(q1[l], i),
         \A m \in Logins : m # l => q1[m] = q[m]
  PROVE  Grounded(q1, r, i)
<1>1. OnlyIn(q, r, l, i)
  BY DEF Alone, OnlyIn, NoneAbout
<1> QED
  BY <1>1 DEF OnlyIn, Grounded

LEMMA Put ==
  ASSUME NEW q, NEW r, NEW q1, NEW i, Grounded(q, r, i), NEW l \in Logins,
         OneAbout(q1[l], i), \A m \in Logins : m # l => q1[m] = q[m]
  PROVE  Alone(q1, r, i)
BY DEF Grounded, Alone, OnlyIn

LEMMA GroundedAlone ==
  ASSUME NEW u, NEW d, NEW i, NEW l \in Logins, Grounded(u, d, i)
  PROVE  Alone(u, d, i)
BY DEF Grounded, Alone, OnlyIn, NoneAbout, OneAbout

(* A step settles or passes on the messages I, and leaves the others alone. *)
Moves(I) ==
  /\ Len(log') = Len(log)
  /\ \A j \in (1..Len(log)) \ I :
       /\ log'[j].fate = log[j].fate
       /\ \A l \in Logins : KeepsAbout(up'[l], up[l], j) /\ KeepsAbout(down'[l], down[l], j)
  /\ \A j \in I : /\ Alone(up', down', j)
                  /\ log'[j].fate \notin Flying => Grounded(up', down', j)
  /\ \A l \in Logins : \A k \in 1..Len(down'[l]) : down'[l][k].type = "CHAT_DELIVER" =>
       \/ \E n \in 1..Len(down[l]) : down[l][n] = down'[l][k] /\ down[l][n].about \notin I
       \/ log'[down'[l][k].about].fate = "forwarded"
  /\ \A l \in Logins : \A s \in shown'[l] :
       (s \in shown[l] /\ s.id \notin I) \/ log'[s.id].fate \in {"read", "unreadable"}
  /\ \A l \in Logins : typing'[l] # NULL => typing'[l] = typing[l] /\ typing[l] \notin I

LEMMA DeliversAbout ==
  ASSUME DownInv, NEW l \in Logins, NEW k \in 1..Len(down[l]),
         down[l][k].type = "CHAT_DELIVER"
  PROVE  down[l][k].about \in 1..Len(log)
<1>1. down[l][k] \in DownSet(l)
  BY ElementOfSeq DEF DownInv
<1> QED
  BY <1>1 DEF DownSet, AuthResp, KeyResp, UserNotFound, CouldNotSend, ChatDeliver,
              Cipher, Encrypt, Fitting, Encrypted

LEMMA LinesAbout ==
  ASSUME RelayInv, NEW l \in Logins, NEW s \in shown[l]
  PROVE  s.id \in 1..Len(log)
BY LinesAreMessages, Fitted

LEMMA MovesFate ==
  ASSUME RelayInv, FateInv, NEW I \in SUBSET (1..Len(log)), Moves(I)
  PROVE  FateInv'
<1>1. FlyingInv'
  <2> SUFFICES ASSUME NEW j \in 1..Len(log)
               PROVE  /\ Alone(up', down', j)
                      /\ log'[j].fate \notin Flying => Grounded(up', down', j)
    BY DEF FlyingInv, Moves
  <2>1. CASE j \in I
    BY <2>1 DEF Moves
  <2>2. CASE j \notin I
    <3>1. /\ log'[j].fate = log[j].fate
          /\ \A l \in Logins : KeepsAbout(up'[l], up[l], j) /\ KeepsAbout(down'[l], down[l], j)
      BY <2>2 DEF Moves
    <3>2. Alone(up, down, j) /\ (log[j].fate \notin Flying => Grounded(up, down, j))
      BY DEF FateInv, FlyingInv
    <3>3. /\ Alone(up, down, j) => Alone(up', down', j)
          /\ Grounded(up, down, j) => Grounded(up', down', j)
      BY <3>1, AloneKept
    <3> QED
      BY <3>1, <3>2, <3>3
  <2> QED
    BY <2>1, <2>2
<1>2. DeliverInv'
  <2> SUFFICES ASSUME NEW l \in Logins, NEW k \in 1..Len(down'[l]),
                      down'[l][k].type = "CHAT_DELIVER"
               PROVE  log'[down'[l][k].about].fate = "forwarded"
    BY DEF DeliverInv
  <2>1. CASE \E n \in 1..Len(down[l]) : down[l][n] = down'[l][k] /\ down[l][n].about \notin I
    <3>1. PICK n \in 1..Len(down[l]) : down[l][n] = down'[l][k] /\ down[l][n].about \notin I
      BY <2>1
    <3>2. down[l][n].about \in 1..Len(log)
      BY <3>1, DeliversAbout DEF RelayInv
    <3>3. log[down[l][n].about].fate = "forwarded"
      BY <3>1 DEF FateInv, DeliverInv
    <3> QED
      BY <3>1, <3>2, <3>3 DEF Moves
  <2> QED
    BY <2>1 DEF Moves
<1>3. SeenInv'
  <2> SUFFICES ASSUME NEW l \in Logins, NEW s \in shown'[l]
               PROVE  log'[s.id].fate \in {"read", "unreadable"}
    BY DEF SeenInv
  <2>1. CASE s \in shown[l] /\ s.id \notin I
    <3>1. s.id \in 1..Len(log) /\ log[s.id].fate \in {"read", "unreadable"}
      BY <2>1, LinesAbout DEF FateInv, SeenInv
    <3> QED
      BY <2>1, <3>1 DEF Moves
  <2> QED
    BY <2>1 DEF Moves
<1>4. TypedInv'
  <2> SUFFICES ASSUME NEW l \in Logins, typing'[l] # NULL
               PROVE  log'[typing'[l]].fate = "typed"
    BY DEF TypedInv
  <2>1. typing'[l] = typing[l] /\ typing[l] \notin I
    BY DEF Moves
  <2>2. typing[l] \in 1..Len(log) /\ log[typing[l]].fate = "typed"
    BY <2>1 DEF FateInv, TypedInv, RelayInv, TypingInv
  <2> QED
    BY <2>1, <2>2 DEF Moves
<1> QED
  BY <1>1, <1>2, <1>3, <1>4 DEF FateInv

(* What a fate becomes. *)
LEMMA FateIs ==
  ASSUME TypeInv, NEW i \in 1..Len(log), NEW what, Fate(i, what) \/ (Strays(i) /\ what = "forwarded")
  PROVE  log'[i].fate = what
<1>1. log[i] \in Messages /\ DOMAIN log = 1..Len(log)
  BY LogTypes, LenProperties DEF TypeInv
<1>2. \/ log'[i] = [log[i] EXCEPT !.fate = what]
      \/ what = "forwarded" /\ log'[i] = [log[i] EXCEPT !.fate = "forwarded", !.astray = TRUE]
  BY <1>1 DEF Fate, Strays
<1> QED
  BY <1>1, <1>2 DEF Messages

(* A message with a packet under way is on no terminal and not typed. *)
LEMMA InQueue ==
  ASSUME RelayInv, FateInv, NEW i \in 1..Len(log), NEW l \in Logins,
         \/ \E k \in 1..Len(up[l]) : up[l][k].about = i
         \/ \E k \in 1..Len(down[l]) : down[l][k].about = i
  PROVE  /\ log[i].fate \in Flying
         /\ \A m \in Logins : \A s \in shown[m] : s.id # i
         /\ \A m \in Logins : typing[m] # i
         /\ Alone(up, down, i)
<1>1. ~Grounded(up, down, i)
  BY DEF Grounded, NoneAbout
<1>2. log[i].fate \in Flying /\ Alone(up, down, i)
  BY <1>1 DEF FateInv, FlyingInv
<1>3. \A m \in Logins : \A s \in shown[m] : s.id # i
  BY <1>2 DEF FateInv, SeenInv, Flying
<1>4. i # NULL
  BY LogTypes, RelayAssumption DEF RelayInv, Ids
<1>5. \A m \in Logins : typing[m] # i
  BY <1>2, <1>4 DEF FateInv, TypedInv, Flying
<1> QED
  BY <1>2, <1>3, <1>5

(* t has no packets but those of s. *)
Thin(t, s) ==
  /\ \A j \in 1..Len(log) : KeepsAbout(t, s, j)
  /\ \A k \in 1..Len(t) : \E n \in 1..Len(s) : s[n] = t[k]
Added(t, s, i) == \E p : t = Append(s, p) /\ p.about = i

LEMMA ThinSteps ==
  ASSUME NEW S, NEW s \in Seq(S)
  PROVE  /\ Thin(s, s)
         /\ s # << >> => Thin(Tail(s), s)
         /\ Len(s) > 1 => Thin(DropSecond(s), s)
         /\ Thin(<< >>, s)
<1>1. Thin(s, s)
  BY AboutSame DEF Thin
<1>2. ASSUME s # << >> PROVE Thin(Tail(s), s)
  <2>1. \A k \in 1..Len(Tail(s)) : k + 1 \in 1..Len(s) /\ s[k + 1] = Tail(s)[k]
    <3>1. /\ Len(s) \in Nat \ {0} /\ Len(Tail(s)) = Len(s) - 1
          /\ \A k \in 1..(Len(s) - 1) : Tail(s)[k] = s[k + 1]
      BY <1>2, SeqTail
    <3> QED
      BY <3>1
  <2>2. \A k \in 1..Len(Tail(s)) : \E n \in 1..Len(s) : s[n] = Tail(s)[k]
    BY <2>1
  <2> QED
    BY <1>2, <2>2, AboutTail DEF Thin
<1>3. ASSUME Len(s) > 1 PROVE Thin(DropSecond(s), s)
  <2> DEFINE f(k) == IF k = 1 THEN 1 ELSE k + 1
  <2>1. \A k \in 1..Len(DropSecond(s)) : f(k) \in 1..Len(s) /\ s[f(k)] = DropSecond(s)[k]
    <3>1. /\ Len(s) \in Nat /\ Len(DropSecond(s)) = Len(s) - 1
          /\ \A k \in 1..(Len(s) - 1) : DropSecond(s)[k] = IF k = 1 THEN s[1] ELSE s[k + 1]
      BY <1>3, SeqDrop
    <3> QED
      BY <1>3, <3>1
  <2> HIDE DEF f
  <2>2. \A k \in 1..Len(DropSecond(s)) : \E n \in 1..Len(s) : s[n] = DropSecond(s)[k]
    BY <2>1
  <2> QED
    BY <1>3, <2>2, AboutDrop DEF Thin
<1>4. Thin(<< >>, s)
  <2>1. Len(<< >>) = 0
    BY SeqEmpty
  <2>2. \A k \in 1..Len(<< >>) : \E n \in 1..Len(s) : s[n] = << >>[k]
    BY <2>1
  <2>3. \A j \in 1..Len(log) : KeepsAbout(<< >>, s, j)
    BY AboutEmpty DEF KeepsAbout
  <2> QED
    BY <2>2, <2>3 DEF Thin
<1> QED
  BY <1>1, <1>2, <1>3, <1>4

LEMMA AddedKeeps ==
  ASSUME NEW S, NEW s \in Seq(S), NEW t, NEW i, Added(t, s, i)
  PROVE  /\ \A j : j # i => KeepsAbout(t, s, j)
         /\ NoneAbout(s, i) => OneAbout(t, i)
         /\ \A k \in 1..Len(t) : t[k].about = i \/ \E n \in 1..Len(s) : s[n] = t[k]
<1>1. PICK p : t = Append(s, p) /\ p.about = i
  BY DEF Added
<1>2. s \in Seq(S \cup {p}) /\ p \in S \cup {p}
  BY SeqMonotonic
<1>3. /\ Len(s) \in Nat /\ Len(t) = Len(s) + 1
      /\ \A k \in 1..Len(s) : t[k] = s[k]
      /\ t[Len(s) + 1] = p
  BY <1>1, <1>2, SeqAppend
<1>4. \A k \in 1..Len(t) : k \in 1..Len(s) \/ k = Len(s) + 1
  BY <1>3
<1>5. \A k \in 1..Len(t) : t[k].about = i \/ \E n \in 1..Len(s) : s[n] = t[k]
  BY <1>1, <1>3, <1>4
<1> QED
  BY <1>1, <1>5, AboutAppend

(* A step about no message. *)
LEMMA NoMoves ==
  ASSUME RelayInv, log' = log, shown' = shown,
         \A l \in Logins : typing'[l] # NULL => typing'[l] = typing[l],
         \A l \in Logins : Thin(up'[l], up[l]),
         \A l \in Logins : Thin(down'[l], down[l]) \/
           (Added(down'[l], down[l], 0) /\ \A k \in 1..Len(down'[l]) :
              down'[l][k].about = 0 => down'[l][k].type # "CHAT_DELIVER")
  PROVE  Moves({})
<1>0. \A l \in Logins : down[l] \in Seq(DownSet(l))
  BY DEF RelayInv, DownInv
<1>1. \A l \in Logins : \A j \in 1..Len(log) : KeepsAbout(down'[l], down[l], j)
  <2> TAKE l \in Logins
  <2> TAKE j \in 1..Len(log)
  <2>1. CASE Thin(down'[l], down[l])
    BY <2>1 DEF Thin
  <2>2. CASE Added(down'[l], down[l], 0)
    <3>1. j # 0
      BY LenProperties DEF RelayInv, TypeInv
    <3> QED
      BY <1>0, <2>2, <3>1, AddedKeeps
  <2> QED
    BY <2>1, <2>2
<1>2. \A l \in Logins : \A k \in 1..Len(down'[l]) : down'[l][k].type = "CHAT_DELIVER" =>
        \E n \in 1..Len(down[l]) : down[l][n] = down'[l][k]
  <2> SUFFICES ASSUME NEW l \in Logins, NEW k \in 1..Len(down'[l]),
                      down'[l][k].type = "CHAT_DELIVER"
               PROVE  \E n \in 1..Len(down[l]) : down[l][n] = down'[l][k]
    OBVIOUS
  <2>1. CASE Thin(down'[l], down[l])
    BY <2>1 DEF Thin
  <2>2. CASE /\ Added(down'[l], down[l], 0)
             /\ \A n \in 1..Len(down'[l]) :
                  down'[l][n].about = 0 => down'[l][n].type # "CHAT_DELIVER"
    <3>1. down'[l][k].about # 0
      BY <2>2
    <3> QED
      BY <1>0, <2>2, <3>1, AddedKeeps
  <2> QED
    BY <2>1, <2>2
<1>3. \A l \in Logins : \A j \in 1..Len(log) : KeepsAbout(up'[l], up[l], j)
  BY DEF Thin
<1> QED
  BY <1>1, <1>2, <1>3 DEF Moves

(* A step about a message with a packet under way. *)
LEMMA OneMoves ==
  ASSUME RelayInv, FateInv, NEW i \in 1..Len(log), NEW o \in Logins,
         \/ \E k \in 1..Len(up[o]) : up[o][k].about = i
         \/ \E k \in 1..Len(down[o]) : down[o][k].about = i,
         log' = log \/ Settles(i),
         \A l \in Logins : \A s \in shown'[l] :
           s \in shown[l] \/ (s.id = i /\ log'[i].fate \in {"read", "unreadable"}),
         typing' = typing,
         \A l \in Logins : Thin(up'[l], up[l]),
         \A l \in Logins : Thin(down'[l], down[l]) \/ Added(down'[l], down[l], i),
         \A l \in Logins : \A k \in 1..Len(down'[l]) :
           down'[l][k].about = i /\ down'[l][k].type = "CHAT_DELIVER" =>
             log'[i].fate = "forwarded",
         Alone(up', down', i),
         log'[i].fate \notin Flying => Grounded(up', down', i)
  PROVE  Moves({i})
<1>0. \A l \in Logins : down[l] \in Seq(DownSet(l))
  BY DEF RelayInv, DownInv
<1>1. Len(log') = Len(log) /\ \A j \in (1..Len(log)) \ {i} : log'[j].fate = log[j].fate
  BY FateKeeps DEF RelayInv
<1>2. \A l \in Logins : \A j \in (1..Len(log)) \ {i} : KeepsAbout(down'[l], down[l], j)
  <2> TAKE l \in Logins
  <2> TAKE j \in (1..Len(log)) \ {i}
  <2>1. CASE Thin(down'[l], down[l])
    BY <2>1 DEF Thin
  <2>2. CASE Added(down'[l], down[l], i)
    BY <1>0, <2>2, AddedKeeps
  <2> QED
    BY <2>1, <2>2
<1>3. \A l \in Logins : \A j \in (1..Len(log)) \ {i} : KeepsAbout(up'[l], up[l], j)
  BY DEF Thin
<1>4. \A l \in Logins : \A k \in 1..Len(down'[l]) : down'[l][k].type = "CHAT_DELIVER" =>
        \/ \E n \in 1..Len(down[l]) : down[l][n] = down'[l][k] /\ down[l][n].about \notin {i}
        \/ log'[down'[l][k].about].fate = "forwarded"
  <2> SUFFICES ASSUME NEW l \in Logins, NEW k \in 1..Len(down'[l]),
                      down'[l][k].type = "CHAT_DELIVER", down'[l][k].about # i
               PROVE  \E n \in 1..Len(down[l]) : down[l][n] = down'[l][k]
    OBVIOUS
  <2>1. CASE Thin(down'[l], down[l])
    BY <2>1 DEF Thin
  <2>2. CASE Added(down'[l], down[l], i)
    <3>0. down[l] \in Seq(DownSet(l))
      BY <1>0
    <3>1. down'[l][k].about = i \/ \E h \in 1..Len(down[l]) : down[l][h] = down'[l][k]
      BY ONLY <3>0, <2>2, AddedKeeps, k \in 1..Len(down'[l])
    <3> QED
      BY <3>1
  <2> QED
    BY <2>1, <2>2
<1>5. /\ \A m \in Logins : \A s \in shown[m] : s.id # i
      /\ \A m \in Logins : typing[m] # i
  BY InQueue
<1>6. \A l \in Logins : \A s \in shown'[l] :
        (s \in shown[l] /\ s.id \notin {i}) \/ log'[s.id].fate \in {"read", "unreadable"}
  BY <1>5
<1>7. \A l \in Logins : typing'[l] # NULL => typing'[l] = typing[l] /\ typing[l] \notin {i}
  BY <1>5
<1> QED
  BY <1>1, <1>2, <1>3, <1>4, <1>6, <1>7 DEF Moves

-----------------------------------------------------------------------------
(* The actions.  Those about no message, first. *)
LEMMA QuietMoves ==
  ASSUME RelayInv, NEW l \in Logins,
         \/ RegisterUser(l) \/ SendAuthResp(l) \/ OnDisconnected(l)
         \/ ProcessKeyReq(l) \/ ProcessAuthResp(l) \/ ProcessKeyResp(l)
         \/ ProcessError(l) /\ Head(down[l]).about = 0
         \/ LostAtServer(l) /\ up[l][2].about = 0
         \/ LostAtClient(l) /\ down[l][2].about = 0
  PROVE  Moves({})
<1> USE DEF RelayInv
<1>0. /\ DOMAIN up = Logins /\ DOMAIN down = Logins
      /\ \A m \in Logins : up[m] \in Seq(UpSet(m)) /\ down[m] \in Seq(DownSet(m))
      /\ \A m \in Logins : Thin(up[m], up[m]) /\ Thin(down[m], down[m])
  <2>1. \A m \in Logins : up[m] \in Seq(UpSet(m)) /\ down[m] \in Seq(DownSet(m))
    BY DEF UpInv, DownInv
  <2> QED
    BY <2>1, ThinSteps DEF UpInv, DownInv
<1>1. log' = log /\ shown' = shown /\ typing' = typing
  BY DEF RegisterUser, SendAuthResp, OnDisconnected, ProcessKeyReq, ProcessAuthResp,
         ProcessKeyResp, ProcessError, LostAtServer, LostAtClient, LoseSecond, fetch
<1>2. \A m \in Logins : Thin(up'[m], up[m])
  <2>1. \/ up' = up
        \/ up[l] # << >> /\ up' = [up EXCEPT ![l] = Tail(@)]
        \/ Len(up[l]) > 1 /\ up' = [up EXCEPT ![l] = DropSecond(@)]
    BY DEF RegisterUser, SendAuthResp, OnDisconnected, ProcessKeyReq, ProcessAuthResp,
           ProcessKeyResp, ProcessError, LostAtServer, LostAtClient, net, TakeUp
  <2>2. /\ up[l] # << >> => Thin(Tail(up[l]), up[l])
        /\ Len(up[l]) > 1 => Thin(DropSecond(up[l]), up[l])
    BY <1>0, ThinSteps
  <2> QED
    BY <1>0, <2>1, <2>2
<1>3. ASSUME NEW p, ToClient(l, p), p.about = 0, p.type # "CHAT_DELIVER"
      PROVE  \A m \in Logins : Thin(down'[m], down[m]) \/
               (Added(down'[m], down[m], 0) /\ \A k \in 1..Len(down'[m]) :
                  down'[m][k].about = 0 => down'[m][k].type # "CHAT_DELIVER")
  <2>1. down'[l] = Append(down[l], p) /\ \A m \in Logins : m # l => down'[m] = down[m]
    BY <1>0, <1>3 DEF ToClient
  <2>2. Added(down'[l], down[l], 0)
    BY <1>3, <2>1 DEF Added
  <2>3. \A k \in 1..Len(down'[l]) : down'[l][k] = p \/ \E n \in 1..Len(down[l]) : down[l][n] = down'[l][k]
    <3>1. down[l] \in Seq(DownSet(l) \cup {p}) /\ p \in DownSet(l) \cup {p}
      BY <1>0, SeqMonotonic
    <3>2. /\ Len(down[l]) \in Nat /\ Len(down'[l]) = Len(down[l]) + 1
          /\ \A k \in 1..Len(down[l]) : down'[l][k] = down[l][k]
          /\ down'[l][Len(down[l]) + 1] = p
      BY <2>1, <3>1, SeqAppend
    <3>3. \A k \in 1..Len(down'[l]) : k \in 1..Len(down[l]) \/ k = Len(down[l]) + 1
      BY <3>2
    <3> QED
      BY <3>2, <3>3
  <2>4. \A n \in 1..Len(down[l]) : down[l][n].about = 0 => down[l][n].type # "CHAT_DELIVER"
    <3>1. 0 \notin 1..Len(log)
      BY LenProperties DEF TypeInv
    <3> QED
      BY <3>1, DeliversAbout
  <2>5. \A k \in 1..Len(down'[l]) : down'[l][k].about = 0 => down'[l][k].type # "CHAT_DELIVER"
    BY <1>3, <2>3, <2>4
  <2> QED
    BY <1>0, <2>1, <2>2, <2>5
<1>4. \A m \in Logins : Thin(down'[m], down[m]) \/
        (Added(down'[m], down[m], 0) /\ \A k \in 1..Len(down'[m]) :
           down'[m][k].about = 0 => down'[m][k].type # "CHAT_DELIVER")
  <2>1. \/ down' = down
        \/ \E p : ToClient(l, p) /\ p.about = 0 /\ p.type # "CHAT_DELIVER"
        \/ down[l] # << >> /\ down' = [down EXCEPT ![l] = Tail(@)]
        \/ Len(down[l]) > 1 /\ down' = [down EXCEPT ![l] = DropSecond(@)]
    <3>1. \A k : /\ AuthResp.about = 0 /\ AuthResp.type # "CHAT_DELIVER"
                 /\ KeyResp(k).about = 0 /\ KeyResp(k).type # "CHAT_DELIVER"
                 /\ UserNotFound(0).about = 0 /\ UserNotFound(0).type # "CHAT_DELIVER"
      BY DEF AuthResp, KeyResp, UserNotFound
    <3> QED
      BY <3>1 DEF RegisterUser, SendAuthResp, OnDisconnected, ProcessKeyReq, ProcessAuthResp,
         ProcessKeyResp, ProcessError, LostAtServer, LostAtClient, net, TakeDown
  <2>2. /\ down[l] # << >> => Thin(Tail(down[l]), down[l])
        /\ Len(down[l]) > 1 => Thin(DropSecond(down[l]), down[l])
    BY <1>0, ThinSteps
  <2>3. CASE down' = down
    BY <1>0, <2>3
  <2>4. CASE down[l] # << >> /\ down' = [down EXCEPT ![l] = Tail(@)]
    BY <1>0, <2>2, <2>4
  <2>5. CASE Len(down[l]) > 1 /\ down' = [down EXCEPT ![l] = DropSecond(@)]
    BY <1>0, <2>2, <2>5
  <2> QED
    BY <1>3, <2>1, <2>3, <2>4, <2>5
<1> QED
  BY <1>1, <1>2, <1>4, NoMoves

(* A packet about i is taken from a client's queue, and that is the end. *)
LEMMA DownTaken ==
  ASSUME RelayInv, FateInv, NEW l \in Logins, NEW i \in 1..Len(log),
         NEW k \in 1..Len(down[l]), down[l][k].about = i,
         NEW t, Thin(t, down[l]), OneAbout(down[l], i) => NoneAbout(t, i),
         down' = [down EXCEPT ![l] = t], up' = up, typing' = typing,
         NEW what \in Fates \ Flying, Fate(i, what),
         \A m \in Logins : \A s \in shown'[m] :
           s \in shown[m] \/ (s.id = i /\ log'[i].fate \in {"read", "unreadable"})
  PROVE  Moves({i})
<1> USE DEF RelayInv
<1>0. /\ DOMAIN down = Logins
      /\ \A m \in Logins : up[m] \in Seq(UpSet(m)) /\ down[m] \in Seq(DownSet(m))
  BY DEF UpInv, DownInv
<1>1. down'[l] = t /\ \A m \in Logins : m # l => down'[m] = down[m]
  BY <1>0
<1>2. \A m \in Logins : Thin(up'[m], up[m]) /\ Thin(down'[m], down[m])
  BY <1>0, <1>1, ThinSteps
<1>3. Alone(down, up, i)
  BY InQueue, AloneSwap
<1>4. Grounded(down', up', i)
  BY <1>1, <1>3, Taken
<1>5. Grounded(up', down', i) /\ Alone(up', down', i)
  BY <1>4, AloneSwap, GroundedAlone
<1>6. Settles(i)
  BY DEF Settles
<1>7. \A m \in Logins : \A n \in 1..Len(down'[m]) : down'[m][n].about # i
  BY <1>5 DEF Grounded, NoneAbout
<1> QED
  BY <1>2, <1>5, <1>6, <1>7, OneMoves

LEMMA ProcessErrorMoves ==
  ASSUME RelayInv, FateInv, NEW l \in Logins, ProcessError(l), Head(down[l]).about # 0
  PROVE  \E i \in 1..Len(log) : Moves({i})
<1> USE DEF RelayInv
<1>1. down[l] # << >> /\ down[l] \in Seq(DownSet(l))
  BY DEF ProcessError, DownInv
<1>2. Head(down[l]).about \in 1..Len(log)
  <2>1. Head(down[l]) \in DownSet(l)
    BY <1>1, SeqTail
  <2> QED
    BY <2>1 DEF DownSet, AuthResp, KeyResp, UserNotFound, CouldNotSend, ChatDeliver,
                Cipher, Encrypt, Fitting, Encrypted
<1> DEFINE i == Head(down[l]).about
<1>3. /\ Fate(i, "refused") /\ typing' = typing /\ up' = up /\ shown' = shown
      /\ down' = [down EXCEPT ![l] = Tail(down[l])]
  BY DEF ProcessError, TakeDown
<1>4. "refused" \in Fates \ Flying
  BY DEF Fates, Flying
<1>5. /\ Thin(Tail(down[l]), down[l]) /\ 1 \in 1..Len(down[l]) /\ down[l][1].about = i
      /\ OneAbout(down[l], i) => NoneAbout(Tail(down[l]), i)
  BY <1>1, ThinSteps, AboutTail
<1> HIDE DEF i
<1>6. i \in 1..Len(log)
  BY <1>2 DEF i
<1> QED
  BY <1>3, <1>4, <1>5, <1>6, DownTaken

LEMMA LostAtClientMoves ==
  ASSUME RelayInv, FateInv, NEW l \in Logins, LostAtClient(l), down[l][2].about # 0
  PROVE  \E i \in 1..Len(log) : Moves({i})
<1> USE DEF RelayInv
<1>1. Len(down[l]) > 1 /\ down[l] \in Seq(DownSet(l))
  BY DEF LostAtClient, DownInv
<1> DEFINE i == down[l][2].about
<1>2. i \in 1..Len(log)
  BY <1>1, SecondAbout
<1>3. /\ Fate(i, "lost") /\ typing' = typing /\ up' = up /\ shown' = shown
      /\ down' = [down EXCEPT ![l] = DropSecond(down[l])]
  BY DEF LostAtClient, LoseSecond, fetch
<1>4. "lost" \in Fates \ Flying
  BY DEF Fates, Flying
<1>5. /\ Thin(DropSecond(down[l]), down[l]) /\ 2 \in 1..Len(down[l])
      /\ OneAbout(down[l], i) => NoneAbout(DropSecond(down[l]), i)
  BY <1>1, ThinSteps, AboutDrop
<1>6. down[l][2].about = i
  OBVIOUS
<1> HIDE DEF i
<1> QED
  BY <1>2, <1>3, <1>4, <1>5, <1>6, DownTaken

LEMMA ProcessChatDeliverMoves ==
  ASSUME RelayInv, FateInv, NEW l \in Logins, ProcessChatDeliver(l)
  PROVE  \E i \in 1..Len(log) : Moves({i})
<1> USE DEF RelayInv
<1>1. /\ down[l] # << >> /\ down[l] \in Seq(DownSet(l))
      /\ Head(down[l]).type = "CHAT_DELIVER" /\ DOMAIN shown = Logins
  BY DEF ProcessChatDeliver, DownInv, ShownInv
<1> DEFINE i == Head(down[l]).about
<1>2. /\ Thin(Tail(down[l]), down[l]) /\ 1 \in 1..Len(down[l]) /\ down[l][1] = Head(down[l])
      /\ OneAbout(down[l], i) => NoneAbout(Tail(down[l]), i)
  BY <1>1, ThinSteps, AboutTail
<1>3. i \in 1..Len(log)
  BY <1>1, <1>2, DeliversAbout
<1>4. /\ typing' = typing /\ up' = up
      /\ down' = [down EXCEPT ![l] = Tail(down[l])]
  BY DEF ProcessChatDeliver, TakeDown, fetch
<1>5. PICK what \in {"dropped", "read", "unreadable"} :
        /\ Fate(i, what)
        /\ \A m \in Logins : \A s \in shown'[m] :
             s \in shown[m] \/ (s.id = i /\ what \in {"read", "unreadable"})
  BY <1>1 DEF ProcessChatDeliver
<1>6. what \in Fates \ Flying /\ log'[i].fate = what
  BY <1>3, <1>5, FateIs DEF Fates, Flying
<1>7. down[l][1].about = i
  BY <1>2
<1> HIDE DEF i
<1> QED
  BY <1>2, <1>3, <1>4, <1>5, <1>6, <1>7, DownTaken

LEMMA OnlyAppended ==
  ASSUME NEW S, NEW s \in Seq(S), NEW e
  PROVE  \A k \in 1..Len(Append(s, e)) :
           Append(s, e)[k] = e \/ \E n \in 1..Len(s) : s[n] = Append(s, e)[k]
<1>1. s \in Seq(S \cup {e}) /\ e \in S \cup {e}
  BY SeqMonotonic
<1>2. /\ Len(s) \in Nat /\ Len(Append(s, e)) = Len(s) + 1
      /\ \A k \in 1..Len(s) : Append(s, e)[k] = s[k]
      /\ Append(s, e)[Len(s) + 1] = e
  BY <1>1, SeqAppend
<1>3. \A k \in 1..Len(Append(s, e)) : k \in 1..Len(s) \/ k = Len(s) + 1
  BY <1>2
<1> QED
  BY <1>2, <1>3

(* A packet about i is taken from the queue to the server. *)
LEMMA UpTaken ==
  ASSUME RelayInv, FateInv, NEW l \in Logins, NEW i \in 1..Len(log),
         NEW k \in 1..Len(up[l]), up[l][k].about = i,
         NEW t, Thin(t, up[l]), OneAbout(up[l], i) => NoneAbout(t, i),
         up' = [up EXCEPT ![l] = t]
  PROVE  /\ Grounded(up', down, i)
         /\ \A m \in Logins : Thin(up'[m], up[m]) /\ Thin(down[m], down[m])
<1> USE DEF RelayInv
<1>0. /\ DOMAIN up = Logins
      /\ \A m \in Logins : up[m] \in Seq(UpSet(m)) /\ down[m] \in Seq(DownSet(m))
  BY DEF UpInv, DownInv
<1>1. up'[l] = t /\ \A m \in Logins : m # l => up'[m] = up[m]
  BY <1>0
<1>2. \A m \in Logins : Thin(up'[m], up[m]) /\ Thin(down[m], down[m])
  BY <1>0, <1>1, ThinSteps
<1>3. Alone(up, down, i)
  BY InQueue
<1>4. Grounded(up', down, i)
  BY <1>1, <1>3, Taken
<1> QED
  BY <1>2, <1>4

(* That is the end of it, *)
LEMMA UpEnds ==
  ASSUME RelayInv, FateInv, NEW l \in Logins, NEW i \in 1..Len(log),
         NEW k \in 1..Len(up[l]), up[l][k].about = i,
         NEW t, Thin(t, up[l]), OneAbout(up[l], i) => NoneAbout(t, i),
         up' = [up EXCEPT ![l] = t],
         down' = down, typing' = typing, shown' = shown,
         NEW what \in Fates \ Flying, Fate(i, what)
  PROVE  Moves({i})
<1>1. /\ Grounded(up', down', i)
      /\ \A m \in Logins : Thin(up'[m], up[m]) /\ Thin(down'[m], down[m])
  BY UpTaken
<1>2. Alone(up', down', i)
  BY <1>1, GroundedAlone
<1>3. Settles(i)
  BY DEF Settles
<1>4. \A m \in Logins : \A n \in 1..Len(down'[m]) : down'[m][n].about # i
  BY <1>1 DEF Grounded, NoneAbout
<1> QED
  BY <1>1, <1>2, <1>3, <1>4, OneMoves

(* or another one about i goes to a client. *)
LEMMA UpPasses ==
  ASSUME RelayInv, FateInv, NEW l \in Logins, NEW i \in 1..Len(log),
         NEW k \in 1..Len(up[l]), up[l][k].about = i,
         NEW t, Thin(t, up[l]), OneAbout(up[l], i) => NoneAbout(t, i),
         up' = [up EXCEPT ![l] = t],
         NEW m \in Logins, NEW p, p.about = i, ToClient(m, p),
         typing' = typing, shown' = shown,
         log' = log \/ Settles(i), log'[i].fate \in Flying,
         p.type = "CHAT_DELIVER" => log'[i].fate = "forwarded"
  PROVE  Moves({i})
<1> USE DEF RelayInv
<1>0. /\ DOMAIN down = Logins
      /\ \A n \in Logins : down[n] \in Seq(DownSet(n))
  BY DEF DownInv
<1>1. /\ Grounded(up', down, i)
      /\ \A n \in Logins : Thin(up'[n], up[n]) /\ Thin(down[n], down[n])
  BY UpTaken
<1>2. down'[m] = Append(down[m], p) /\ \A n \in Logins : n # m => down'[n] = down[n]
  BY <1>0 DEF ToClient
<1>3. Added(down'[m], down[m], i)
  BY <1>2 DEF Added
<1>4. \A n \in Logins : Thin(down'[n], down[n]) \/ Added(down'[n], down[n], i)
  BY <1>1, <1>2, <1>3
<1>5. OneAbout(down'[m], i)
  <2>1. NoneAbout(down[m], i)
    BY <1>1 DEF Grounded
  <2> QED
    BY <1>0, <1>2, <2>1, AboutAppend
<1>6. Alone(up', down', i)
  <2>1. Grounded(down, up', i)
    BY <1>1, AloneSwap
  <2>2. Alone(down', up', i)
    BY <1>2, <1>5, <2>1, Put
  <2> QED
    BY <2>2, AloneSwap
<1>7. \A n \in Logins : \A h \in 1..Len(down'[n]) :
        down'[n][h].about = i /\ down'[n][h].type = "CHAT_DELIVER" => log'[i].fate = "forwarded"
  <2>1. \A n \in Logins : \A h \in 1..Len(down[n]) : down[n][h].about # i
    BY <1>1 DEF Grounded, NoneAbout
  <2>2. \A h \in 1..Len(down'[m]) : down'[m][h] = p \/
          \E g \in 1..Len(down[m]) : down[m][g] = down'[m][h]
    BY <1>0, <1>2, OnlyAppended
  <2> SUFFICES ASSUME NEW n \in Logins, NEW h \in 1..Len(down'[n]),
                      down'[n][h].about = i, down'[n][h].type = "CHAT_DELIVER"
               PROVE  log'[i].fate = "forwarded"
    OBVIOUS
  <2>3. n = m
    BY <1>2, <2>1
  <2>4. down'[m][h] = p
    BY <2>1, <2>2, <2>3
  <2> QED
    BY <2>3, <2>4
<1> QED
  BY <1>1, <1>4, <1>6, <1>7, OneMoves

LEMMA LostAtServerMoves ==
  ASSUME RelayInv, FateInv, NEW l \in Logins, LostAtServer(l), up[l][2].about # 0
  PROVE  \E i \in 1..Len(log) : Moves({i})
<1> USE DEF RelayInv
<1>1. Len(up[l]) > 1 /\ up[l] \in Seq(UpSet(l))
  BY DEF LostAtServer, UpInv
<1> DEFINE i == up[l][2].about
<1>2. i \in 1..Len(log)
  BY <1>1, SecondAbout
<1>3. /\ Fate(i, "lost") /\ typing' = typing /\ down' = down /\ shown' = shown
      /\ up' = [up EXCEPT ![l] = DropSecond(up[l])]
  BY DEF LostAtServer, LoseSecond, fetch
<1>4. "lost" \in Fates \ Flying
  BY DEF Fates, Flying
<1>5. /\ Thin(DropSecond(up[l]), up[l]) /\ 2 \in 1..Len(up[l])
      /\ OneAbout(up[l], i) => NoneAbout(DropSecond(up[l]), i)
  BY <1>1, ThinSteps, AboutDrop
<1>6. up[l][2].about = i
  OBVIOUS
<1> HIDE DEF i
<1> QED
  BY <1>2, <1>3, <1>4, <1>5, <1>6, UpEnds

LEMMA ProcessChatSendMoves ==
  ASSUME RelayInv, FateInv, NEW l \in Logins, ProcessChatSend(l)
  PROVE  \E i \in 1..Len(log) : Moves({i})
<1> USE DEF RelayInv
<1>1. up[l] # << >> /\ up[l] \in Seq(UpSet(l)) /\ Head(up[l]).type = "CHAT_SEND"
  BY DEF ProcessChatSend, UpInv
<1>2. PICK i \in SentBy(l) : Head(up[l]) = ChatSend(log[i].to, Cipher(i))
  BY <1>1, HeadUp
<1> DEFINE p == Head(up[l])
<1>3. i \in 1..Len(log) /\ p.about = i /\ p.cipher = Cipher(i) /\ p.user = log[i].to
  BY <1>2, Sent, PacketsAbout
<1>4. /\ Thin(Tail(up[l]), up[l]) /\ 1 \in 1..Len(up[l]) /\ up[l][1].about = i
      /\ OneAbout(up[l], i) => NoneAbout(Tail(up[l]), i)
  BY <1>1, <1>3, ThinSteps, AboutTail
<1>5. /\ typing' = typing /\ shown' = shown
      /\ up' = [up EXCEPT ![l] = Tail(up[l])]
  BY DEF ProcessChatSend, TakeUp, fetch
<1>6. log[i].fate \in Flying
  BY <1>3, <1>4, InQueue
<1>7. \/ \E q \in {UserNotFound(i), CouldNotSend(i)} : ToClient(l, q) /\ log' = log
      \/ \E m \in Logins : /\ ToClient(m, ChatDeliver(UserOf[l], Cipher(i)))
                           /\ Fate(i, "forwarded") \/ Strays(i)
      \/ down' = down /\ Fate(i, "dropped")
  <2> DEFINE to == Find(registry, p.user)
  <2>1. to # NULL => to \in Logins
    BY <1>3, FindsLogin, LogTypes
  <2> HIDE DEF to
  <2>2. younger \in [Logins -> SUBSET Logins]
    BY DEF TypeInv
  <2>3. CASE to = NULL /\ Refuse(l, p) /\ UNCHANGED log
    BY <1>3, <2>3 DEF Refuse
  <2>4. CASE to # NULL /\ Forward(l, to, p)
    BY <1>3, <2>1, <2>4 DEF Forward, Deliver
  <2>5. CASE to # NULL /\ ForwardAstray(l, to, p)
    BY <1>3, <2>1, <2>2, <2>5 DEF ForwardAstray, Deliver, Strays
  <2>6. CASE to # NULL /\ NotSent(l, to, p) /\ UNCHANGED log
    BY <1>3, <2>6 DEF NotSent
  <2>7. CASE UNCHANGED down /\ Fate(p.about, "dropped")
    BY <1>3, <2>7
  <2> QED
    BY <2>3, <2>4, <2>5, <2>6, <2>7 DEF ProcessChatSend, to
<1> HIDE DEF p
<1>8. CASE \E q \in {UserNotFound(i), CouldNotSend(i)} : ToClient(l, q) /\ log' = log
  <2>1. PICK q \in {UserNotFound(i), CouldNotSend(i)} : ToClient(l, q) /\ log' = log
    BY <1>8
  <2>2. q.about = i /\ q.type # "CHAT_DELIVER"
    BY DEF UserNotFound, CouldNotSend
  <2> QED
    BY <1>3, <1>4, <1>5, <1>6, <2>1, <2>2, UpPasses
<1>9. CASE \E m \in Logins : /\ ToClient(m, ChatDeliver(UserOf[l], Cipher(i)))
                             /\ Fate(i, "forwarded") \/ Strays(i)
  <2>1. PICK m \in Logins : /\ ToClient(m, ChatDeliver(UserOf[l], Cipher(i)))
                            /\ Fate(i, "forwarded") \/ Strays(i)
    BY <1>9
  <2>2. ChatDeliver(UserOf[l], Cipher(i)).about = i
    BY PacketsAbout
  <2>3. log'[i].fate = "forwarded" /\ "forwarded" \in Flying
    BY <1>3, <2>1, FateIs DEF Flying
  <2>4. Settles(i)
    BY <2>1 DEF Settles, Fates
  <2> QED
    BY <1>3, <1>4, <1>5, <2>1, <2>2, <2>3, <2>4, UpPasses
<1>10. CASE down' = down /\ Fate(i, "dropped")
  <2>1. "dropped" \in Fates \ Flying
    BY DEF Fates, Flying
  <2> QED
    BY <1>3, <1>4, <1>5, <1>10, <2>1, UpEnds
<1> QED
  BY <1>7, <1>8, <1>9, <1>10

(* send_chat is done with the message it works on. *)
LEMMA TypedMoves ==
  ASSUME RelayInv, FateInv, NEW l \in Logins, typing[l] # NULL,
         typing' = [typing EXCEPT ![l] = NULL], down' = down, shown' = shown,
         Len(log') = Len(log),
         \A j \in 1..Len(log) : j # typing[l] => log'[j] = log[j],
         \/ up' = up /\ log'[typing[l]].fate = "not sent"
         \/ /\ \E p : ToServer(l, p) /\ p.about = typing[l]
            /\ log'[typing[l]].fate = "sent"
  PROVE  \E i \in 1..Len(log) : Moves({i})
<1> USE DEF RelayInv
<1> DEFINE i == typing[l]
<1>0. /\ DOMAIN up = Logins /\ DOMAIN typing = Logins
      /\ \A m \in Logins : up[m] \in Seq(UpSet(m)) /\ down[m] \in Seq(DownSet(m))
  BY DEF UpInv, DownInv, TypeInv
<1>1. /\ i \in 1..Len(log) /\ i # NULL
      /\ log[i].fate = "typed" /\ log[i].from = l
  BY DEF TypingInv, FateInv, TypedInv
<1>2. Grounded(up, down, i) /\ Alone(up, down, i)
  BY <1>1 DEF FateInv, FlyingInv, Flying
<1>3. \A m \in Logins : m # l => typing[m] # i
  BY <1>1 DEF TypingInv
<1>4. \A m \in Logins : typing'[m] # NULL => typing'[m] = typing[m] /\ typing[m] \notin {i}
  BY <1>0, <1>3
<1>5. \A m \in Logins : \A s \in shown'[m] : s \in shown[m] /\ s.id \notin {i}
  BY <1>1 DEF FateInv, SeenInv
<1>6. \A m \in Logins : \A k \in 1..Len(down'[m]) :
        down[m][k] = down'[m][k] /\ down[m][k].about \notin {i}
  BY <1>2 DEF Grounded, NoneAbout
<1>7. \A m \in Logins : \A j \in 1..Len(log) : KeepsAbout(down'[m], down[m], j)
  BY AboutSame
<1>8. /\ \A m \in Logins : \A j \in (1..Len(log)) \ {i} : KeepsAbout(up'[m], up[m], j)
      /\ Alone(up', down', i)
      /\ log'[i].fate \notin Flying => Grounded(up', down', i)
  <2>1. CASE up' = up
    BY <1>2, <2>1, AboutSame
  <2>2. CASE (\E p : ToServer(l, p) /\ p.about = i) /\ log'[i].fate = "sent"
    <3>1. PICK p : ToServer(l, p) /\ p.about = i
      BY <2>2
    <3>2. up'[l] = Append(up[l], p) /\ \A m \in Logins : m # l => up'[m] = up[m]
      BY <1>0, <3>1 DEF ToServer
    <3>3. \A j \in (1..Len(log)) \ {i} : KeepsAbout(up'[l], up[l], j)
      <4> TAKE j \in (1..Len(log)) \ {i}
      <4>1. p.about # j
        BY <3>1
      <4>2. KeepsAbout(Append(up[l], p), up[l], j)
        BY ONLY <1>0, <4>1, l \in Logins, AboutAppend
      <4> QED
        BY <3>2, <4>2
    <3>4. OneAbout(up'[l], i)
      <4>1. NoneAbout(up[l], i)
        BY <1>2 DEF Grounded
      <4> QED
        BY <1>0, <3>2, <4>1, AboutAppend
    <3>5. Alone(up', down', i)
      BY <1>2, <3>2, <3>4, Put
    <3>6. \A m \in Logins : \A j \in (1..Len(log)) \ {i} : KeepsAbout(up'[m], up[m], j)
      BY <3>2, <3>3, AboutSame
    <3> QED
      BY <2>2, <3>5, <3>6 DEF Flying
  <2> QED
    BY <2>1, <2>2
<1>9. \A j \in (1..Len(log)) \ {i} : log'[j].fate = log[j].fate
  OBVIOUS
<1> HIDE DEF i
<1>10. Moves({i})
  <2>1. Len(log') = Len(log)
    OBVIOUS
  <2>2. \A m \in Logins : \A k \in 1..Len(down'[m]) : down'[m][k].type = "CHAT_DELIVER" =>
          \E n \in 1..Len(down[m]) : down[m][n] = down'[m][k] /\ down[m][n].about \notin {i}
    BY <1>6
  <2> QED
    BY <2>1, <2>2, <1>4, <1>5, <1>7, <1>8, <1>9 DEF Moves
<1> QED
  BY <1>1, <1>10

LEMMA SendChatMoves ==
  ASSUME RelayInv, FateInv, NEW l \in Logins, SendChat(l) \/ KeyTimeout(l)
  PROVE  \E i \in 1..Len(log) : Moves({i})
<1> USE DEF RelayInv
<1> DEFINE i == typing[l]
<1>1. /\ typing[l] # NULL /\ typing' = [typing EXCEPT ![l] = NULL] /\ down' = down
      /\ shown' = shown
  BY DEF SendChat, KeyTimeout, net
<1>2. i \in 1..Len(log) /\ log[i] \in Messages /\ log \in Seq(Messages)
  BY <1>1, LogTypes DEF TypingInv, TypeInv
<1>3. CASE Fate(i, "not sent") /\ up' = up
  <2>1. Settles(i)
    BY <1>3 DEF Settles, Fates
  <2>2. Len(log') = Len(log) /\ \A j \in 1..Len(log) : j # i => log'[j] = log[j]
    BY <1>2, <2>1, FateKeeps
  <2>3. log'[i].fate = "not sent"
    BY <1>2, <1>3, FateIs
  <2> QED
    BY <1>1, <1>3, <2>2, <2>3, TypedMoves
<1>4. CASE /\ result[l] # NULL
           /\ log' = [log EXCEPT ![i] = [@ EXCEPT !.key = result[l], !.late = late[l],
                                                  !.fate = "sent"]]
           /\ ToServer(l, ChatSend(log[i].to, Encrypt(result[l], i)))
  <2> DEFINE m == [log[i] EXCEPT !.key = result[l], !.late = late[l], !.fate = "sent"]
             p == ChatSend(log[i].to, Encrypt(result[l], i))
  <2>1. result[l] \in Logins /\ late[l] \in BOOLEAN
    BY <1>4 DEF TypeInv
  <2>2. m \in Messages /\ m.fate = "sent"
    BY <1>2, <2>1 DEF Messages, Fates
  <2>3. log' = [log EXCEPT ![i] = m]
    BY <1>4
  <2>4. p.about = i
    BY DEF ChatSend, Encrypt
  <2>5. ToServer(l, p)
    BY <1>4
  <2> HIDE DEF m, p
  <2>6. /\ Len(log') = Len(log)
        /\ \A j \in 1..Len(log) : log'[j] = IF j = i THEN m ELSE log[j]
    BY <1>2, <2>2, <2>3, ExceptSeq
  <2>7. log'[i].fate = "sent" /\ \A j \in 1..Len(log) : j # i => log'[j] = log[j]
    BY <1>2, <2>2, <2>6
  <2> QED
    BY <1>1, <2>4, <2>5, <2>6, <2>7, TypedMoves
<1> QED
  BY <1>3, <1>4 DEF SendChat, KeyTimeout, net

(* A stream ends with everything that is under way on it. *)
LEMMA StreamEndsMoves ==
  ASSUME RelayInv, FateInv, NEW l \in Logins, StreamEnds(l)
  PROVE  \E I \in SUBSET (1..Len(log)) : Moves(I)
<1> USE DEF RelayInv
<1> DEFINE I == {j \in 1..Len(log) : j \in InFlight(l) \/ j = typing[l]}
<1>0. /\ DOMAIN up = Logins /\ DOMAIN down = Logins /\ DOMAIN typing = Logins
      /\ \A m \in Logins : up[m] \in Seq(UpSet(m)) /\ down[m] \in Seq(DownSet(m))
      /\ DOMAIN log = 1..Len(log)
  BY LenProperties DEF UpInv, DownInv, TypeInv
<1>1. /\ up'[l] = << >> /\ down'[l] = << >> /\ typing'[l] = NULL /\ shown' = shown
      /\ \A m \in Logins : m # l => up'[m] = up[m] /\ down'[m] = down[m] /\ typing'[m] = typing[m]
  BY <1>0 DEF StreamEnds
<1>2. /\ Len(log') = Len(log)
      /\ \A j \in I : log'[j].fate = "cut"
      /\ \A j \in (1..Len(log)) \ I : log'[j] = log[j]
  <2>1. DOMAIN log' = 1..Len(log) /\ \A j \in 1..Len(log) :
          log'[j] = IF j \in I THEN [log[j] EXCEPT !.fate = "cut"] ELSE log[j]
    BY <1>0 DEF StreamEnds
  <2>2. \A j \in 1..Len(log) : log[j] \in Messages /\ [log[j] EXCEPT !.fate = "cut"].fate = "cut"
    BY LogTypes DEF Messages
  <2>3. Len(log') = Len(log)
    <3>1. log' \in Seq(Messages)
      BY StreamEndsGrows DEF Grows
    <3>2. DOMAIN log' = 1..Len(log') /\ Len(log') \in Nat /\ Len(log) \in Nat
      BY <3>1, LenProperties DEF TypeInv
    <3> QED
      BY <2>1, <3>2
  <2> QED
    BY <2>1, <2>2, <2>3
<1>3. \A j \in InFlight(l) : \/ \E k \in 1..Len(up[l]) : up[l][k].about = j
                             \/ \E k \in 1..Len(down[l]) : down[l][k].about = j
  <2>1. DOMAIN up[l] = 1..Len(up[l]) /\ DOMAIN down[l] = 1..Len(down[l])
    BY <1>0, LenProperties
  <2> QED
    BY <2>1 DEF InFlight
(* Each of the messages I is nowhere but on the stream that ends. *)
<1>4. \A j \in I : /\ \A m \in Logins : m # l => NoneAbout(up[m], j) /\ NoneAbout(down[m], j)
                   /\ \A m \in Logins : \A s \in shown[m] : s.id # j
                   /\ \A m \in Logins : m # l => typing[m] # j
  <2> TAKE j \in I
  <2>1. CASE j \in InFlight(l)
    <3>1. /\ Alone(up, down, j)
          /\ \A m \in Logins : \A s \in shown[m] : s.id # j
          /\ \A m \in Logins : typing[m] # j
      BY <1>3, <2>1, InQueue
    <3>2. OnlyIn(up, down, l, j) \/ OnlyIn(down, up, l, j)
      <4>1. ~NoneAbout(up[l], j) \/ ~NoneAbout(down[l], j)
        BY <1>3, <2>1 DEF NoneAbout
      <4> QED
        BY <3>1, <4>1 DEF Alone, OnlyIn
    <3>3. \A m \in Logins : m # l => NoneAbout(up[m], j) /\ NoneAbout(down[m], j)
      BY <3>2 DEF OnlyIn
    <3> QED
      BY <3>1, <3>3
  <2>2. CASE j = typing[l]
    <3>1. j # NULL
      BY LogTypes, RelayAssumption DEF Ids
    <3>2. log[j].fate = "typed" /\ log[j].from = l
      BY <2>2, <3>1 DEF TypingInv, FateInv, TypedInv
    <3>3. Grounded(up, down, j)
      BY <3>2 DEF FateInv, FlyingInv, Flying
    <3>4. \A m \in Logins : \A s \in shown[m] : s.id # j
      BY <3>2 DEF FateInv, SeenInv
    <3>5. \A m \in Logins : m # l => typing[m] # j
      BY <3>1, <3>2 DEF TypingInv
    <3> QED
      BY <3>3, <3>4, <3>5 DEF Grounded
  <2> QED
    BY <2>1, <2>2
<1>5. \A j \in I : Grounded(up', down', j) /\ Alone(up', down', j)
  <2> TAKE j \in I
  <2>1. NoneAbout(up'[l], j) /\ NoneAbout(down'[l], j)
    BY <1>1, AboutEmpty
  <2>2. \A m \in Logins : m # l => NoneAbout(up'[m], j) /\ NoneAbout(down'[m], j)
    BY <1>1, <1>4
  <2>3. Grounded(up', down', j)
    BY <2>1, <2>2 DEF Grounded
  <2> QED
    BY <2>3, GroundedAlone
<1>6. \A m \in Logins : Thin(up'[m], up[m]) /\ Thin(down'[m], down[m])
  BY <1>0, <1>1, ThinSteps
<1>7. \A m \in Logins : \A k \in 1..Len(down'[m]) :
        \E n \in 1..Len(down[m]) : down[m][n] = down'[m][k] /\ down[m][n].about \notin I
  <2> SUFFICES ASSUME NEW m \in Logins, NEW k \in 1..Len(down'[m])
               PROVE  \E n \in 1..Len(down[m]) : down[m][n] = down'[m][k] /\ down[m][n].about \notin I
    OBVIOUS
  <2>1. m # l /\ down'[m] = down[m]
    <3>1. Len(<< >>) = 0
      BY SeqEmpty
    <3> QED
      BY <1>1, <3>1
  <2>2. down[m][k].about \notin I
    BY <1>4, <2>1 DEF NoneAbout
  <2> QED
    BY <2>1, <2>2
<1> HIDE DEF I
<1>8. \A m \in Logins : typing'[m] # NULL => typing'[m] = typing[m] /\ typing[m] \notin I
  BY <1>1, <1>4
<1>9. \A m \in Logins : \A s \in shown'[m] : s \in shown[m] /\ s.id \notin I
  BY <1>1, <1>4
<1>10. \A m \in Logins : \A j \in 1..Len(log) :
         KeepsAbout(up'[m], up[m], j) /\ KeepsAbout(down'[m], down[m], j)
  BY <1>6 DEF Thin
<1>11. Moves(I)
  BY <1>2, <1>5, <1>7, <1>8, <1>9, <1>10 DEF Moves
<1>12. I \in SUBSET (1..Len(log))
  BY DEF I
<1> QED
  BY <1>11, <1>12

(* A new message: nothing is about it yet. *)
LEMMA SendKeyReqFate ==
  ASSUME RelayInv, FateInv, NEW l \in Logins, NEW u \in Users, SendKeyReq(l, u)
  PROVE  FateInv'
<1> USE DEF RelayInv
<1> DEFINE n == Len(log) + 1
<1>0. /\ DOMAIN up = Logins /\ DOMAIN typing = Logins
      /\ \A m \in Logins : up[m] \in Seq(UpSet(m)) /\ down[m] \in Seq(DownSet(m))
  BY DEF UpInv, DownInv, TypeInv
<1>1. /\ Len(log) \in Nat /\ Len(log') = n
      /\ \A j \in 1..Len(log) : log'[j] = log[j]
  BY SendKeyReqGrows
<1>2. log'[n].fate = "typed"
  <2> DEFINE e == [from |-> l, to |-> u, key |-> NULL, late |-> FALSE, astray |-> FALSE,
                   fate |-> "typed"]
  <2>1. e \in Messages /\ e.fate = "typed"
    BY DEF Messages, Fates
  <2>2. log' = Append(log, e) /\ log \in Seq(Messages)
    BY DEF SendKeyReq, TypeInv
  <2> HIDE DEF e
  <2>3. log'[Len(log) + 1] = e
    BY <2>1, <2>2, SeqAppend
  <2> QED
    BY <2>1, <2>3
<1>3. /\ typing'[l] = n /\ \A m \in Logins : m # l => typing'[m] = typing[m]
      /\ down' = down /\ shown' = shown
      /\ up'[l] = Append(up[l], KeyReq(u)) /\ \A m \in Logins : m # l => up'[m] = up[m]
  BY <1>0 DEF SendKeyReq, ToServer
<1>4. \A m \in Logins : \A j \in 1..n :
        KeepsAbout(up'[m], up[m], j) /\ KeepsAbout(down'[m], down[m], j)
  <2>1. KeyReq(u).about = 0 /\ \A j \in 1..n : j # 0
    BY <1>1 DEF KeyReq
  <2>2. \A j \in 1..n : KeyReq(u).about # j
    BY <2>1
  <2>3. \A j \in 1..n : KeepsAbout(Append(up[l], KeyReq(u)), up[l], j)
    BY <1>0, <2>2, AboutAppend
  <2> QED
    BY <1>3, <2>3, AboutSame
<1>5. Grounded(up, down, n)
  <2>1. \A m \in Logins : \A k \in 1..Len(up[m]) : up[m][k].about \in {0} \cup 1..Len(log)
    <3> SUFFICES ASSUME NEW m \in Logins, NEW k \in 1..Len(up[m])
                 PROVE  up[m][k].about \in {0} \cup 1..Len(log)
      OBVIOUS
    <3>1. up[m][k] \in UpSet(m)
      BY <1>0, ElementOfSeq
    <3> QED
      BY <3>1 DEF UpSet, KeyReqs, KeyReq, ChatSend, Cipher, Encrypt, SentBy, Encrypted
  <2>2. \A m \in Logins : \A k \in 1..Len(down[m]) : down[m][k].about \in {0} \cup 1..Len(log)
    <3> SUFFICES ASSUME NEW m \in Logins, NEW k \in 1..Len(down[m])
                 PROVE  down[m][k].about \in {0} \cup 1..Len(log)
      OBVIOUS
    <3>1. down[m][k] \in DownSet(m)
      BY <1>0, ElementOfSeq
    <3> QED
      BY <3>1 DEF DownSet, AuthResp, KeyResp, UserNotFound, CouldNotSend, ChatDeliver,
                  Cipher, Encrypt, Fitting, Encrypted
  <2>3. n \notin {0} \cup 1..Len(log)
    BY <1>1
  <2> QED
    BY <2>1, <2>2, <2>3 DEF Grounded, NoneAbout
<1> HIDE DEF n
<1>6. \A j \in 1..n : j \in 1..Len(log) \/ j = n
  BY <1>1 DEF n
<1>7. FlyingInv'
  <2> SUFFICES ASSUME NEW j \in 1..n
               PROVE  /\ Alone(up', down', j)
                      /\ log'[j].fate \notin Flying => Grounded(up', down', j)
    BY <1>1 DEF FlyingInv
  <2>1. /\ Alone(up, down, j) => Alone(up', down', j)
        /\ Grounded(up, down, j) => Grounded(up', down', j)
    BY <1>4, AloneKept
  <2>2. CASE j \in 1..Len(log)
    BY <1>1, <2>1, <2>2 DEF FateInv, FlyingInv
  <2>3. CASE j = n
    BY <1>5, <2>1, <2>3, GroundedAlone
  <2> QED
    BY <1>6, <2>2, <2>3
<1>8. DeliverInv'
  <2> SUFFICES ASSUME NEW m \in Logins, NEW k \in 1..Len(down[m]),
                      down[m][k].type = "CHAT_DELIVER"
               PROVE  log'[down[m][k].about].fate = "forwarded"
    BY <1>3 DEF DeliverInv
  <2>1. down[m][k].about \in 1..Len(log)
    BY DeliversAbout
  <2>2. log[down[m][k].about].fate = "forwarded"
    BY DEF DeliverInv, FateInv
  <2> QED
    BY <1>1, <2>1, <2>2
<1>9. SeenInv'
  BY <1>1, <1>3, LinesAbout DEF SeenInv, FateInv
<1>10. TypedInv'
  <2> SUFFICES ASSUME NEW m \in Logins, typing'[m] # NULL
               PROVE  log'[typing'[m]].fate = "typed"
    BY DEF TypedInv
  <2>1. CASE m = l
    BY <1>2, <1>3, <2>1
  <2>2. CASE m # l
    BY <1>1, <1>3, <2>2 DEF TypingInv, FateInv, TypedInv
  <2> QED
    BY <2>1, <2>2
<1> QED
  BY <1>7, <1>8, <1>9, <1>10 DEF FateInv

LEMMA InitFateInv ==
  ASSUME Init
  PROVE  FateInv
<1>1. Len(<< >>) = 0
  BY SeqEmpty
<1> QED
  BY <1>1 DEF Init, FateInv, FlyingInv, DeliverInv, SeenInv, TypedInv

LEMMA StepFateInv ==
  ASSUME RelayInv, FateInv, [Next]_vars
  PROVE  FateInv'
<1>1. CASE Next
  <2>1. PICK l \in Logins : Step(l)
    BY <1>1, NextIsStep
  <2>2. CASE \E u \in Users : SendKeyReq(l, u)
    BY <2>2, SendKeyReqFate
  <2>3. CASE \/ RegisterUser(l) \/ SendAuthResp(l) \/ OnDisconnected(l)
             \/ ProcessKeyReq(l) \/ ProcessAuthResp(l) \/ ProcessKeyResp(l)
             \/ ProcessError(l) /\ Head(down[l]).about = 0
             \/ LostAtServer(l) /\ up[l][2].about = 0
             \/ LostAtClient(l) /\ down[l][2].about = 0
    BY <2>3, QuietMoves, MovesFate
  <2>4. CASE StreamEnds(l)
    BY <2>4, StreamEndsMoves, MovesFate
  <2>5. CASE SendChat(l) \/ KeyTimeout(l)
    BY <2>5, SendChatMoves, MovesFate
  <2>6. CASE ProcessChatSend(l)
    BY <2>6, ProcessChatSendMoves, MovesFate
  <2>7. CASE ProcessChatDeliver(l)
    BY <2>7, ProcessChatDeliverMoves, MovesFate
  <2>8. CASE ProcessError(l) /\ Head(down[l]).about # 0
    BY <2>8, ProcessErrorMoves, MovesFate
  <2>9. CASE LostAtServer(l) /\ up[l][2].about # 0
    BY <2>9, LostAtServerMoves, MovesFate
  <2>10. CASE LostAtClient(l) /\ down[l][2].about # 0
    BY <2>10, LostAtClientMoves, MovesFate
  <2> QED
    BY <2>1, <2>2, <2>3, <2>4, <2>5, <2>6, <2>7, <2>8, <2>9, <2>10 DEF Step
<1>2. CASE UNCHANGED vars
  BY <1>2 DEF vars, net, fetch, FateInv, FlyingInv, DeliverInv, SeenInv, TypedInv
<1> QED
  BY <1>1, <1>2

(* In every reachable state a message has at most one packet under way,    *)
(* and none once its fate is settled, over reuse of freed streams, packets *)
(* lost in the event of another and streams that end.                      *)
THEOREM FatesCorrect == Spec => []FateInv
<1>1. Init => FateInv
  BY InitFateInv
<1>2. RelayInv /\ FateInv /\ [Next]_vars => FateInv'
  BY StepFateInv
<1> QED
  BY <1>1, <1>2, RelayCorrect, PTL DEF Spec

(* A message that send_chat gave up, or that an ERROR packet came back     *)
(* for, is on no terminal and in no CHAT_DELIVER under way: the server's   *)
(* handler sends the one or the other, and a client reports a failure only *)
(* when nothing of the message is left.                                    *)
THEOREM FailedAreUnseen == Spec => []FailedIsUnseen
<1>1. RelayInv /\ FateInv => FailedIsUnseen
  <2> SUFFICES ASSUME RelayInv, FateInv, NEW l \in Logins
               PROVE  /\ \A s \in shown[l] : log[s.id].fate \notin {"not sent", "refused"}
                      /\ \A i \in DOMAIN down[l] : down[l][i].type = "CHAT_DELIVER" =>
                           log[down[l][i].about].fate \notin {"not sent", "refused"}
    BY DEF FailedIsUnseen
  <2>1. \A s \in shown[l] : log[s.id].fate \notin {"not sent", "refused"}
    BY DEF FateInv, SeenInv
  <2>2. DOMAIN down[l] = 1..Len(down[l])
    BY LenProperties DEF RelayInv, DownInv
  <2>3. \A i \in DOMAIN down[l] : down[l][i].type = "CHAT_DELIVER" =>
          log[down[l][i].about].fate \notin {"not sent", "refused"}
    BY <2>2 DEF FateInv, DeliverInv
  <2> QED
    BY <2>1, <2>3
<1> QED
  BY <1>1, RelayCorrect, FatesCorrect, PTL
=============================================================================
