-------------------------- MODULE UserStoreProofs --------------------------
(***************************************************************************)
(* Proofs about UserStore, for any texts, passwords and runs of the        *)
(* utility.  The inductive invariant adds to the types that a file with    *)
(* an open line is not empty, and that every line with a well-formed hash  *)
(* stands for a reported addition or for a name made of two.  StoreInv     *)
(* adds the promises, and what a run that is about to append knows from    *)
(* its scan.                                                               *)
(***************************************************************************)
EXTENDS UserStore, SequenceTheorems, TLAPS

HasOpenLine == open => file # << >>

EarnedLines ==
  \A i \in DOMAIN file : \A t \in Texts : \A p \in Passwords :
    file[i] = [key |-> t, hash |-> Hash(p)] =>
      [name |-> Plain(t), pass |-> p] \in added \/ t \in fused

IInv == TypeOK /\ HasOpenLine /\ EarnedLines

-----------------------------------------------------------------------------
(* A field of the wrong length is nobody's hash, and no text is NONAME. *)
LEMMA BadHash == \A p \in Passwords : Hash(p) # BAD
  BY StoreAssumption DEF Hash, BAD

LEMMA NoName == NONAME \notin Texts
  BY StoreAssumption DEF NONAME

(* What a run writes is a line. *)
LEMMA NewLineType ==
  ASSUME NEW n \in Names, NEW p \in Passwords
  PROVE  NewLine(n, p) \in Line /\ \A l \in CutLines(n, p) : l \in Line
  BY DEF NewLine, CutLines, Line, Names, Hashes

(* A line with a well-formed hash carries the name and password of the run *)
(* that writes it.                                                         *)
LEMMA LineIsOfRun ==
  ASSUME NEW n \in Names, NEW p \in Passwords,
         NEW l \in {NewLine(n, p)} \cup CutLines(n, p),
         NEW t \in Texts, NEW q \in Passwords,
         l = [key |-> t, hash |-> Hash(q)]
  PROVE  n = Plain(t) /\ p = q
<1>1. l = NewLine(n, p)
  BY BadHash DEF CutLines
<1>2. ~n.colon
  BY <1>1, BadHash DEF NewLine
<1>3. n.text = t /\ Hash(p) = Hash(q)
  BY <1>1, <1>2 DEF NewLine
<1>4. n = Plain(t)
  BY <1>2, <1>3 DEF Names, Plain
<1> QED
  BY <1>3, <1>4 DEF Hash

(* Appending keeps a file a sequence of lines, and every line but the last *)
(* what it was.                                                            *)
LEMMA AppendKeepsLines ==
  ASSUME NEW f \in Seq(Line), NEW glue \in BOOLEAN, NEW line \in Line,
         glue => f # << >>, NEW g \in AppendBytes(f, glue, line)
  PROVE  /\ g \in Seq(Line)
         /\ g # << >>
         /\ Len(g) = IF glue THEN Len(f) ELSE Len(f) + 1
         /\ \A i \in 1..(Len(g) - 1) : g[i] = f[i]
<1>1. CASE ~glue
  <2>1. g = Append(f, line)
    BY <1>1 DEF AppendBytes
  <2> QED
    BY <1>1, <2>1
<1>2. CASE glue
  <2>1. Len(f) \in Nat \ {0} /\ f[Len(f)] \in Line
    BY <1>2
  <2>2. PICK l \in Line : g = [f EXCEPT ![Len(f)] = l]
    <3>1. CASE g = [f EXCEPT ![Len(f)] = [key |-> LastLine(f).key, hash |-> BAD]]
      <4>1. [key |-> LastLine(f).key, hash |-> BAD] \in Line
        BY <2>1 DEF Line, LastLine
      <4> QED
        BY <3>1, <4>1
    <3>2. CASE \E t \in Texts : g = [f EXCEPT ![Len(f)] = [key |-> t, hash |-> line.hash]]
      <4>1. \A t \in Texts : [key |-> t, hash |-> line.hash] \in Line
        BY DEF Line
      <4> QED
        BY <3>2, <4>1
    <3> QED
      BY <1>2, <3>1, <3>2 DEF AppendBytes
  <2>3. g \in Seq(Line) /\ Len(g) = Len(f)
    BY <2>1, <2>2
  <2>4. \A i \in 1..(Len(g) - 1) : g[i] = f[i]
    <3> TAKE i \in 1..(Len(g) - 1)
    <3>1. i \in DOMAIN f /\ i # Len(f)
      BY <2>1, <2>3
    <3> QED
      BY <2>2, <3>1
  <2>5. g # << >>
    BY <2>1, <2>3
  <2> QED
    BY <1>2, <2>3, <2>4, <2>5
<1> QED
  BY <1>1, <1>2

-----------------------------------------------------------------------------
(* Every step of the utility that writes.  Step names what Next allows.    *)
LEMMA NextIsStep ==
  ASSUME Next, TypeOK
  PROVE  \/ UNCHANGED <<file, open, args, added, raced, torn, fused>> /\
            pc' \in [Adders -> {"scan", "append", "added", "failed"}]
         \/ \E a \in Adders, cut \in BOOLEAN :
              \E line \in {NewLine(args[a].name, args[a].pass)}
                          \cup CutLines(args[a].name, args[a].pass) :
                Write(a, line, cut)
<1> PICK a \in Adders : AddUser(a)
  BY DEF Next
<1>1. CASE Refuse(a) \/ Accept(a) \/ GiveUp(a)
  BY <1>1 DEF Refuse, Accept, GiveUp, TypeOK
<1>2. CASE Write(a, NewLine(args[a].name, args[a].pass), FALSE)
  BY <1>2
<1>3. CASE \E line \in CutLines(args[a].name, args[a].pass) : Write(a, line, TRUE)
  BY <1>3
<1> QED
  BY <1>1, <1>2, <1>3 DEF AddUser

LEMMA InitInvariant == Init => IInv
<1> SUFFICES ASSUME Init PROVE IInv
  OBVIOUS
<1>1. CASE added = {}
  <2>1. file = << >>
    BY <1>1 DEF Init
  <2>2. EarnedLines
    BY <2>1 DEF EarnedLines
  <2>3. TypeOK
    <3>1. file \in Seq(Line)
      BY <2>1
    <3> QED
      BY <1>1, <3>1 DEF Init, TypeOK
  <2> QED
    BY <2>2, <2>3 DEF Init, IInv, HasOpenLine
<1>2. CASE added # {}
  <2>1. PICK u \in [name : {Plain(t) : t \in Texts \ Reserved}, pass : Passwords] :
          added = {u}
    BY <1>2 DEF Init
  <2>2. u.name \in Names /\ ~u.name.colon /\ u \in Users
    <3>1. PICK t \in Texts : u.name = Plain(t)
      OBVIOUS
    <3>2. u = [name |-> u.name, pass |-> u.pass] /\ u.pass \in Passwords
      OBVIOUS
    <3>3. Plain(t) \in Names /\ ~Plain(t).colon
      BY DEF Plain, Names
    <3> QED
      BY <3>1, <3>2, <3>3 DEF Users
  <2>3. (CHOOSE v \in added : TRUE) = u
    BY <2>1
  <2>4. file = <<NewLine(u.name, u.pass)>>
    BY <1>2, <2>3 DEF Init
  <2>5. NewLine(u.name, u.pass) \in Line
    BY <2>2, NewLineType
  <2>6. TypeOK /\ HasOpenLine
    <3>1. file \in Seq(Line)
      BY <2>4, <2>5
    <3>2. added \subseteq Users
      BY <2>1, <2>2
    <3>3. TypeOK
      BY <3>1, <3>2 DEF Init, TypeOK
    <3> QED
      BY <3>3 DEF Init, HasOpenLine
  <2>7. EarnedLines
    <3> SUFFICES ASSUME NEW t \in Texts, NEW p \in Passwords,
                        NewLine(u.name, u.pass) = [key |-> t, hash |-> Hash(p)]
                 PROVE  [name |-> Plain(t), pass |-> p] \in added
      BY <2>4 DEF EarnedLines
    <3>1. u.name = Plain(t) /\ u.pass = p
      BY <2>2, LineIsOfRun
    <3> QED
      BY <2>1, <3>1
  <2> QED
    BY <2>6, <2>7 DEF IInv
<1> QED
  BY <1>1, <1>2

LEMMA WriteKeeps ==
  ASSUME IInv, NEW a \in Adders, NEW cut \in BOOLEAN,
         NEW line \in {NewLine(args[a].name, args[a].pass)}
                      \cup CutLines(args[a].name, args[a].pass),
         Write(a, line, cut)
  PROVE  IInv'
<1>1. args[a] \in Users /\ args[a].name \in Names /\ args[a].pass \in Passwords
  BY DEF IInv, TypeOK, Users
<1>2. line \in Line
  BY <1>1, NewLineType
<1>3. file' \in AppendBytes(file, open, line) /\ file \in Seq(Line) /\ open \in BOOLEAN
  BY DEF Write, IInv, TypeOK
<1>4. open => file # << >>
  BY DEF IInv, HasOpenLine
<1>5. /\ file' \in Seq(Line) /\ file' # << >>
      /\ Len(file') = IF open THEN Len(file) ELSE Len(file) + 1
      /\ \A i \in 1..(Len(file') - 1) : file'[i] = file[i]
  BY <1>2, <1>3, <1>4, AppendKeepsLines
<1>6. HasOpenLine'
  BY <1>5 DEF HasOpenLine
<1>7. added' = added \cup {args[a]} /\ fused \subseteq fused' /\ open' = cut
  BY DEF Write
<1>8. fused' = fused \cup (IF open THEN {LastLine(file').key} \ {LastLine(file).key} ELSE {})
  BY DEF Write
<1>9. TypeOK'
  <2>1. open => LastLine(file') \in Line /\ LastLine(file) \in Line
    BY <1>3, <1>4, <1>5 DEF LastLine
  <2>2. fused' \subseteq Texts
    <3>1. CASE ~open
      BY <1>8, <3>1 DEF IInv, TypeOK
    <3>2. CASE open /\ LastLine(file').key = LastLine(file).key
      BY <1>8, <3>2 DEF IInv, TypeOK
    <3>3. CASE open /\ LastLine(file').key # LastLine(file).key
      <4>1. PICK t \in Texts : file' = [file EXCEPT ![Len(file)] = [key |-> t, hash |-> line.hash]]
        <5>1. file' # [file EXCEPT ![Len(file)] = [key |-> LastLine(file).key, hash |-> BAD]]
          BY <1>3, <1>4, <3>3, <2>1 DEF LastLine, Line
        <5> QED
          BY <1>3, <3>3, <5>1 DEF AppendBytes
      <4>2. LastLine(file').key = t
        BY <1>3, <1>4, <3>3, <4>1, <1>5 DEF LastLine
      <4> QED
        BY <1>8, <4>2 DEF IInv, TypeOK
    <3> QED
      BY <3>1, <3>2, <3>3
  <2>3. raced' \subseteq Texts
    <3>1. \A b \in Rivals(a) : args[b].name.text \in Texts
      BY DEF Rivals, IInv, TypeOK, Users, Names
    <3> QED
      BY <3>1 DEF Write, IInv, TypeOK
  <2>4. torn' \subseteq Texts \cup {NONAME}
    <3>1. args[a].name.text \in Texts /\ (open => LastLine(file).key \in Texts \cup {NONAME})
      BY <1>1, <2>1 DEF Names, Line
    <3> QED
      BY <3>1 DEF Write, IInv, TypeOK
  <2>5. pc' \in [Adders -> {"scan", "append", "added", "failed"}] /\ args' = args
    BY DEF Write, IInv, TypeOK
  <2>6. added' \subseteq Users /\ open' \in BOOLEAN
    BY <1>1, <1>7 DEF IInv, TypeOK
  <2> QED
    BY <1>5, <2>2, <2>3, <2>4, <2>5, <2>6 DEF IInv, TypeOK
<1>10. EarnedLines'
  <2> SUFFICES ASSUME NEW i \in DOMAIN file', NEW t \in Texts, NEW p \in Passwords,
                      file'[i] = [key |-> t, hash |-> Hash(p)]
               PROVE  [name |-> Plain(t), pass |-> p] \in added' \/ t \in fused'
    BY DEF EarnedLines
  <2>1. CASE i # Len(file')
    <3>1. i \in 1..(Len(file') - 1) /\ i \in DOMAIN file
      BY <1>3, <1>4, <1>5, <2>1
    <3>2. file[i] = [key |-> t, hash |-> Hash(p)]
      BY <1>5, <3>1
    <3> QED
      BY <3>1, <3>2, <1>7 DEF IInv, EarnedLines
  <2>2. CASE i = Len(file') /\ ~open
    <3>1. file' = Append(file, line)
      BY <1>3, <2>2 DEF AppendBytes
    <3>2. line = [key |-> t, hash |-> Hash(p)]
      BY <1>2, <1>3, <2>2, <3>1
    <3>3. args[a].name = Plain(t) /\ args[a].pass = p
      BY <1>1, <3>2, LineIsOfRun
    <3>4. args[a] = [name |-> Plain(t), pass |-> p]
      BY <1>1, <3>3 DEF Users
    <3> QED
      BY <3>4, <1>7
  <2>3. CASE i = Len(file') /\ open
    <3>1. Len(file') = Len(file) /\ Len(file) \in DOMAIN file
      BY <1>3, <1>4, <1>5, <2>3
    <3>2. file' # [file EXCEPT ![Len(file)] = [key |-> LastLine(file).key, hash |-> BAD]]
      <4>2. SUFFICES ASSUME file' = [file EXCEPT ![Len(file)] = [key |-> LastLine(file).key, hash |-> BAD]] PROVE FALSE
        OBVIOUS
      <4>4. file'[i].hash = BAD
        BY <4>2, <2>3, <3>1, <1>3
      <4>5. file'[i].hash = Hash(p)
        OBVIOUS
      <4> QED
        BY <4>4, <4>5, BadHash
    <3>3. /\ LastLine(file).key = NONAME
          /\ \E s \in Texts : file' = [file EXCEPT ![Len(file)] = [key |-> s, hash |-> line.hash]]
      BY <1>3, <2>3, <3>2 DEF AppendBytes
    <3>4. LastLine(file') = file'[i]
      BY <2>3 DEF LastLine
    <3>5. LastLine(file').key = t /\ t # NONAME
      BY <3>4, NoName
    <3> QED
      BY <1>8, <2>3, <3>3, <3>5
  <2> QED
    BY <2>1, <2>2, <2>3
<1> QED
  BY <1>6, <1>9, <1>10 DEF IInv

LEMMA NextInvariant == IInv /\ [Next]_vars => IInv'
<1> SUFFICES ASSUME IInv, [Next]_vars PROVE IInv'
  OBVIOUS
<1>1. CASE UNCHANGED <<file, open, args, added, raced, torn, fused>> /\
            pc' \in [Adders -> {"scan", "append", "added", "failed"}]
  BY <1>1 DEF IInv, TypeOK, HasOpenLine, EarnedLines
<1>2. CASE \E a \in Adders, cut \in BOOLEAN :
             \E line \in {NewLine(args[a].name, args[a].pass)}
                         \cup CutLines(args[a].name, args[a].pass) :
               Write(a, line, cut)
  BY <1>2, WriteKeeps
<1>3. CASE UNCHANGED vars
  BY <1>3 DEF vars, IInv, TypeOK, HasOpenLine, EarnedLines
<1>4. TypeOK
  BY DEF IInv
<1> QED
  BY <1>1, <1>2, <1>3, <1>4, NextIsStep

-----------------------------------------------------------------------------
(* users.txt, the runs of sqmp_add_user and the history keep their types,  *)
(* no file has an open line and no line, and every line is earned.         *)
THEOREM StoreCorrect == Spec => []IInv
<1>1. Init => IInv
  BY InitInvariant
<1>2. IInv /\ [Next]_vars => IInv'
  BY NextInvariant
<1> QED
  BY <1>1, <1>2, PTL DEF Spec

(* Type correctness of UserStore. *)
THEOREM StoreTypes == Spec => []TypeOK
<1>1. IInv => TypeOK
  BY DEF IInv
<1> QED
  BY <1>1, StoreCorrect, PTL

(* verify_credentials accepts only what sqmp_add_user was given for that   *)
(* name, or a name that two additions fused.                               *)
THEOREM AcceptedWasAdded == Spec => []OnlyAddedLogIn
<1>1. IInv => OnlyAddedLogIn
  <2> SUFFICES ASSUME IInv, NEW u \in Users, Verify(file, u.name, Hash(u.pass))
               PROVE  u \in added \/ u.name.text \in fused
    BY DEF OnlyAddedLogIn
  <2>1. ~u.name.colon /\ u.name \in Names /\ u.pass \in Passwords /\ u.name.text \in Texts
    BY DEF Verify, Users, Names
  <2>2. u = [name |-> Plain(u.name.text), pass |-> u.pass]
    BY <2>1 DEF Users, Names, Plain
  <2>3. PICK i \in DOMAIN file : file[i] = [key |-> u.name.text, hash |-> Hash(u.pass)]
    BY DEF Verify
  <2> QED
    BY <2>1, <2>2, <2>3 DEF IInv, EarnedLines
<1> QED
  BY <1>1, StoreCorrect, PTL

-----------------------------------------------------------------------------
(* The promises of the utility.  They need what a run that is about to     *)
(* append knows from its scan: no line has its name, unless another run    *)
(* wrote one since, or names fused.                                        *)
Scanned ==
  \A a \in Adders : \A i \in DOMAIN file :
    /\ pc[a] = "append" /\ ~args[a].name.colon
    /\ file[i].key = args[a].name.text
    => args[a].name.text \in raced \cup fused

AddedVerify ==
  \A u \in added :
    \/ u.name.colon
    \/ u.name.text \in raced \cup torn \cup fused
    \/ Verify(file, u.name, Hash(u.pass))

StoreInv == IInv /\ Scanned /\ OneLinePerUser /\ AddedVerify

(* What a write does to the lines: all but the last stay, and the last is  *)
(* a new one, or keeps its name, or has a name that fused.                 *)
LEMMA WriteShape ==
  ASSUME IInv, NEW a \in Adders, NEW cut \in BOOLEAN,
         NEW line \in {NewLine(args[a].name, args[a].pass)}
                      \cup CutLines(args[a].name, args[a].pass),
         Write(a, line, cut)
  PROVE  /\ \A i \in DOMAIN file' : i \in DOMAIN file \/ (i = Len(file') /\ ~open)
         /\ \A i \in DOMAIN file : i \in DOMAIN file'
         /\ \A i \in DOMAIN file : i # Len(file) \/ ~open => file'[i] = file[i]
         /\ ~open => file' = Append(file, line) /\ file'[Len(file')] = line
                     /\ Len(file') \notin DOMAIN file
         /\ open => /\ Len(file') = Len(file)
                    /\ \/ file'[Len(file)].key = file[Len(file)].key
                       \/ file'[Len(file)].key \in fused'
         /\ line.key \in {args[a].name.text, NONAME}
<1>1. args[a] \in Users /\ args[a].name \in Names /\ args[a].pass \in Passwords
  BY DEF IInv, TypeOK, Users
<1>2. line \in Line /\ line.key \in {args[a].name.text, NONAME}
  <2>1. line \in Line
    BY <1>1, NewLineType
  <2>2. NewLine(args[a].name, args[a].pass).key = args[a].name.text
    BY DEF NewLine
  <2>3. line.key \in {args[a].name.text, NONAME}
    BY <2>2 DEF CutLines
  <2> QED
    BY <2>1, <2>3
<1>3. file' \in AppendBytes(file, open, line) /\ file \in Seq(Line) /\ open \in BOOLEAN
  BY DEF Write, IInv, TypeOK
<1>4. open => file # << >>
  BY DEF IInv, HasOpenLine
<1>5. /\ file' \in Seq(Line) /\ file' # << >>
      /\ Len(file') = IF open THEN Len(file) ELSE Len(file) + 1
      /\ \A i \in 1..(Len(file') - 1) : file'[i] = file[i]
  BY <1>2, <1>3, <1>4, AppendKeepsLines
<1>6. /\ DOMAIN file = 1..Len(file) /\ DOMAIN file' = 1..Len(file')
      /\ Len(file) \in Nat /\ Len(file') \in Nat
  BY <1>3, <1>5
<1>7. CASE ~open
  <2>1. file' = Append(file, line) /\ Len(file') = Len(file) + 1
    BY <1>3, <1>5, <1>7 DEF AppendBytes
  <2>2. file'[Len(file')] = line
    BY <1>2, <1>3, <2>1
  <2>3. /\ \A i \in DOMAIN file' : i \in DOMAIN file \/ i = Len(file')
        /\ \A i \in DOMAIN file : i \in DOMAIN file' /\ i \in 1..(Len(file') - 1)
        /\ Len(file') \notin DOMAIN file
    BY <1>6, <2>1
  <2>4. \A i \in DOMAIN file : file'[i] = file[i]
    BY <1>5, <2>3
  <2> QED
    BY <1>2, <1>7, <2>1, <2>2, <2>3, <2>4
<1>8. CASE open
  <2>1. fused' = fused \cup ({file'[Len(file')].key} \ {file[Len(file)].key})
    BY <1>8 DEF Write, LastLine
  <2>2. Len(file') = Len(file)
    BY <1>5, <1>8
  <2> QED
    BY <1>2, <1>5, <1>6, <1>8, <2>1, <2>2
<1> QED
  BY <1>3, <1>7, <1>8

(* What the server accepts it still accepts after a write, unless the      *)
(* write lengthens that line.                                              *)
LEMMA VerifyKept ==
  ASSUME IInv, NEW a \in Adders, NEW cut \in BOOLEAN,
         NEW line \in {NewLine(args[a].name, args[a].pass)}
                      \cup CutLines(args[a].name, args[a].pass),
         Write(a, line, cut),
         NEW n, NEW h, Verify(file, n, h),
         ~(open /\ LastLine(file).key = n.text)
  PROVE  Verify(file', n, h)
<1>1. PICK i \in DOMAIN file : /\ file[i] = [key |-> n.text, hash |-> h]
                               /\ \A j \in 1..(i - 1) : file[j].key # n.text
  BY DEF Verify
<1>2. DOMAIN file = 1..Len(file) /\ Len(file) \in Nat
  BY DEF IInv, TypeOK
<1>3. ~(open /\ i = Len(file))
  BY <1>1 DEF LastLine
<1>4. i \in DOMAIN file' /\ file'[i] = file[i]
  BY <1>3, WriteShape
<1>5. \A j \in 1..(i - 1) : j \in DOMAIN file /\ j # Len(file)
  BY <1>2
<1>6. \A j \in 1..(i - 1) : file'[j] = file[j]
  BY <1>5, WriteShape
<1> QED
  BY <1>1, <1>4, <1>6 DEF Verify

LEMMA InitStoreInv == Init => StoreInv
<1> SUFFICES ASSUME Init PROVE StoreInv
  OBVIOUS
<1>0. IInv
  BY InitInvariant
<1>1. Scanned
  BY DEF Init, Scanned
<1>2. CASE added = {}
  <2>1. file = << >>
    BY <1>2 DEF Init
  <2> QED
    BY <1>0, <1>1, <1>2, <2>1 DEF StoreInv, OneLinePerUser, AddedVerify
<1>3. CASE added # {}
  <2>1. PICK u : added = {u} /\ ~u.name.colon
    BY <1>3 DEF Init, Plain
  <2>2. file = <<NewLine(u.name, u.pass)>>
    <3>1. (CHOOSE v \in added : TRUE) = u
      BY <2>1
    <3> QED
      BY <1>3, <3>1 DEF Init
  <2>3. DOMAIN file = {1} /\ file[1] = [key |-> u.name.text, hash |-> Hash(u.pass)]
    BY <2>1, <2>2 DEF NewLine
  <2>4. Verify(file, u.name, Hash(u.pass))
    BY <2>1, <2>3 DEF Verify
  <2>5. OneLinePerUser
    BY <2>3 DEF OneLinePerUser
  <2> QED
    BY <1>0, <1>1, <2>1, <2>4, <2>5 DEF StoreInv, AddedVerify
<1> QED
  BY <1>2, <1>3

(* A run scans, or gives up. *)
LEMMA ScanKeeps ==
  ASSUME StoreInv, NEW a \in Adders, Refuse(a) \/ Accept(a) \/ GiveUp(a)
  PROVE  Scanned' /\ OneLinePerUser' /\ AddedVerify'
<1>1. UNCHANGED <<file, open, args, added, raced, torn, fused>>
  BY DEF Refuse, Accept, GiveUp
<1>2. OneLinePerUser' /\ AddedVerify'
  BY <1>1 DEF StoreInv, OneLinePerUser, AddedVerify, Verify
<1>3. \A b \in Adders : pc'[b] = "append" =>
        pc[b] = "append" \/ ~Exists(file, args[b].name)
  BY DEF StoreInv, IInv, TypeOK, Refuse, Accept, GiveUp
<1>4. Scanned'
  BY <1>1, <1>3 DEF StoreInv, Scanned, Exists
<1> QED
  BY <1>2, <1>4

LEMMA WriteScanned ==
  ASSUME StoreInv, NEW a \in Adders, NEW cut \in BOOLEAN,
         NEW line \in {NewLine(args[a].name, args[a].pass)}
                      \cup CutLines(args[a].name, args[a].pass),
         Write(a, line, cut)
  PROVE  Scanned'
<1>0. IInv /\ Scanned
  BY DEF StoreInv
<1>1. /\ pc' = [pc EXCEPT ![a] = "added"] /\ args' = args /\ fused \subseteq fused'
      /\ raced' = raced \cup {args[b].name.text : b \in Rivals(a)}
  BY DEF Write
<1> SUFFICES ASSUME NEW b \in Adders, NEW i \in DOMAIN file', pc'[b] = "append",
                    ~args[b].name.colon, file'[i].key = args[b].name.text
             PROVE  args[b].name.text \in raced' \cup fused'
  BY <1>1 DEF Scanned
<1>2. b # a /\ pc[b] = "append"
  BY <1>0, <1>1 DEF IInv, TypeOK
<1>3. args[b].name.text \in Texts
  BY <1>0 DEF IInv, TypeOK, Users, Names
<1>4. CASE i \in DOMAIN file /\ file'[i].key = file[i].key
  BY <1>0, <1>1, <1>2, <1>4 DEF Scanned
<1>5. CASE i \in DOMAIN file /\ file'[i].key # file[i].key
  BY <1>0, <1>5, WriteShape
<1>6. CASE i \notin DOMAIN file
  <2>1. file'[i].key \in {args[a].name.text, NONAME}
    BY <1>0, <1>6, WriteShape
  <2>2. args[b].name.text = args[a].name.text
    BY <1>3, <2>1, NoName
  <2>3. b \in Rivals(a)
    BY <1>2, <2>2 DEF Rivals
  <2> QED
    BY <1>1, <2>3
<1> QED
  BY <1>4, <1>5, <1>6

LEMMA WriteOneLine ==
  ASSUME StoreInv, NEW a \in Adders, NEW cut \in BOOLEAN,
         NEW line \in {NewLine(args[a].name, args[a].pass)}
                      \cup CutLines(args[a].name, args[a].pass),
         Write(a, line, cut)
  PROVE  OneLinePerUser'
<1>0. IInv /\ Scanned /\ OneLinePerUser
  BY DEF StoreInv
<1>1. /\ added' = added \cup {args[a]} /\ fused \subseteq fused' /\ raced \subseteq raced'
      /\ pc[a] = "append"
  BY DEF Write
<1> DEFINE Fine(t) == \/ t \in raced' \cup fused'
                      \/ \E u \in added' : u.name = [text |-> t, colon |-> TRUE]
<1>2. ASSUME NEW i \in DOMAIN file', NEW j \in DOMAIN file', file'[i].key = file'[j].key, i # j,
             file'[i].key # NONAME
      PROVE  Fine(file'[i].key)
  <2>1. CASE /\ i \in DOMAIN file /\ file'[i].key = file[i].key
             /\ j \in DOMAIN file /\ file'[j].key = file[j].key
    BY <1>0, <1>1, <1>2, <2>1 DEF OneLinePerUser
  <2>2. CASE \/ i \in DOMAIN file /\ file'[i].key # file[i].key
             \/ j \in DOMAIN file /\ file'[j].key # file[j].key
    <3>1. file'[i].key \in fused'
      BY <1>0, <1>2, <2>2, WriteShape
    <3> QED
      BY <3>1
  <2>3. ASSUME NEW k \in DOMAIN file, NEW m \in DOMAIN file', m \notin DOMAIN file,
               file'[k].key = file'[m].key, file'[m].key # NONAME
        PROVE  Fine(file'[m].key)
    <3>1. ~open /\ file'[k] = file[k] /\ file'[m] = line
      BY <1>0, <2>3, WriteShape
    <3>2. file[k].key = args[a].name.text /\ file'[m].key = args[a].name.text
      BY <1>0, <2>3, <3>1, WriteShape
    <3>3. CASE args[a].name.colon
      <4>1. args[a].name = [text |-> args[a].name.text, colon |-> TRUE]
        BY <1>0, <3>3 DEF IInv, TypeOK, Users, Names
      <4> QED
        BY <1>1, <3>2, <4>1
    <3>4. CASE ~args[a].name.colon
      BY <1>0, <1>1, <3>2, <3>4 DEF Scanned
    <3> QED
      BY <3>3, <3>4
  <2>4. i \in DOMAIN file \/ j \in DOMAIN file
    BY <1>0, <1>2, WriteShape
  <2> HIDE DEF Fine
  <2>5. CASE i \in DOMAIN file /\ j \notin DOMAIN file
    BY <1>2, <2>3, <2>5
  <2>6. CASE j \in DOMAIN file /\ i \notin DOMAIN file
    BY <1>2, <2>3, <2>6
  <2> QED
    BY <2>1, <2>2, <2>4, <2>5, <2>6
<1> QED
  BY <1>2 DEF OneLinePerUser

LEMMA WriteVerify ==
  ASSUME StoreInv, NEW a \in Adders, NEW cut \in BOOLEAN,
         NEW line \in {NewLine(args[a].name, args[a].pass)}
                      \cup CutLines(args[a].name, args[a].pass),
         cut \/ line = NewLine(args[a].name, args[a].pass),
         Write(a, line, cut)
  PROVE  AddedVerify'
<1>0. IInv /\ Scanned /\ AddedVerify
  BY DEF StoreInv
<1>1. /\ added' = added \cup {args[a]} /\ fused \subseteq fused' /\ raced \subseteq raced'
      /\ torn \subseteq torn' /\ pc[a] = "append"
      /\ open => LastLine(file).key \in torn'
      /\ cut \/ open => args[a].name.text \in torn'
  BY DEF Write
<1> SUFFICES ASSUME NEW u \in added', ~u.name.colon,
                    u.name.text \notin raced' \cup torn' \cup fused'
             PROVE  Verify(file', u.name, Hash(u.pass))
  BY DEF AddedVerify
<1>2. CASE u \in added
  <2>1. Verify(file, u.name, Hash(u.pass))
    BY <1>0, <1>1, <1>2 DEF AddedVerify
  <2>2. ~(open /\ LastLine(file).key = u.name.text)
    BY <1>1
  <2> QED
    BY <1>0, <2>1, <2>2, VerifyKept
<1>3. CASE u = args[a]
  <2>1. ~cut /\ ~open /\ line = NewLine(u.name, u.pass)
    BY <1>1, <1>3
  <2>2. line = [key |-> u.name.text, hash |-> Hash(u.pass)]
    BY <2>1 DEF NewLine
  <2>3. file'[Len(file')] = line /\ file' = Append(file, line) /\ Len(file') \notin DOMAIN file
    BY <1>0, <2>1, WriteShape
  <2>4. /\ file \in Seq(Line) /\ DOMAIN file = 1..Len(file) /\ Len(file) \in Nat
        /\ line \in Line
    BY <1>0, NewLineType DEF IInv, TypeOK, Users
  <2>5. Len(file') = Len(file) + 1 /\ Len(file') \in DOMAIN file'
    BY <2>3, <2>4
  <2>6. \A j \in 1..(Len(file') - 1) : j \in DOMAIN file
    BY <2>4, <2>5
  <2>7. \A j \in DOMAIN file : file[j].key # u.name.text
    BY <1>0, <1>1, <1>3 DEF Scanned
  <2>8. \A j \in 1..(Len(file') - 1) : file'[j].key # u.name.text
    BY <1>0, <2>1, <2>6, <2>7, WriteShape
  <2> QED
    BY <2>2, <2>3, <2>5, <2>8 DEF Verify
<1> QED
  BY <1>1, <1>2, <1>3

(* The promises are kept by every step of every run. *)
THEOREM StoreKeepsPromises == Spec => []StoreInv
<1>1. Init => StoreInv
  BY InitStoreInv
<1>2. StoreInv /\ [Next]_vars => StoreInv'
  <2> SUFFICES ASSUME StoreInv, [Next]_vars PROVE StoreInv'
    OBVIOUS
  <2>0. IInv'
    BY NextInvariant DEF StoreInv
  <2>1. CASE UNCHANGED vars
    BY <2>0, <2>1 DEF vars, StoreInv, Scanned, OneLinePerUser, AddedVerify, Verify
  <2>2. ASSUME NEW a \in Adders, AddUser(a) PROVE StoreInv'
    <3>1. CASE Refuse(a) \/ Accept(a) \/ GiveUp(a)
      BY <2>0, <3>1, ScanKeeps DEF StoreInv
    <3>2. CASE Write(a, NewLine(args[a].name, args[a].pass), FALSE)
      BY <2>0, <3>2, WriteScanned, WriteOneLine, WriteVerify DEF StoreInv
    <3>3. ASSUME NEW line \in CutLines(args[a].name, args[a].pass), Write(a, line, TRUE)
          PROVE  StoreInv'
      BY <2>0, <3>3, WriteScanned, WriteOneLine, WriteVerify DEF StoreInv
    <3> QED
      BY <2>2, <3>1, <3>2, <3>3 DEF AddUser
  <2> QED
    BY <2>1, <2>2 DEF Next
<1> QED
  BY <1>1, <1>2, PTL DEF Spec

(* "Checks for duplicates, then appends": a name has two lines only where  *)
(* two runs of sqmp_add_user overlapped, a username holds a ':', or names  *)
(* fused.                                                                  *)
THEOREM NamesAreUnique == Spec => []OneLinePerUser
<1>1. StoreInv => OneLinePerUser
  BY DEF StoreInv
<1> QED
  BY <1>1, StoreKeepsPromises, PTL

(* Whoever was reported as added can log in, but for the cases that        *)
(* AddedCanLogIn names.                                                    *)
THEOREM AdditionsCount == Spec => []AddedCanLogIn
<1>1. StoreInv => AddedCanLogIn
  BY DEF StoreInv, AddedVerify, AddedCanLogIn, LogIn
<1> QED
  BY <1>1, StoreKeepsPromises, PTL

(* What verify_credentials accepts it accepts from then on, unless the     *)
(* line was left open and the next write lengthens it.                     *)
THEOREM AcceptedStaysAccepted == Spec => VerdictsLast
<1> DEFINE Lasts ==
      \A u \in Users :
        Verify(file, u.name, Hash(u.pass)) /\ ~(open /\ LastLine(file).key = u.name.text)
        => Verify(file', u.name, Hash(u.pass))
<1>1. IInv /\ [Next]_vars => [Lasts]_vars
  <2> SUFFICES ASSUME IInv, Next PROVE Lasts
    OBVIOUS
  <2>1. CASE UNCHANGED <<file, open, args, added, raced, torn, fused>>
    BY <2>1 DEF Verify
  <2>2. CASE \E a \in Adders, cut \in BOOLEAN :
               \E line \in {NewLine(args[a].name, args[a].pass)}
                           \cup CutLines(args[a].name, args[a].pass) :
                 Write(a, line, cut)
    BY <2>2, VerifyKept
  <2> QED
    BY <2>1, <2>2, NextIsStep DEF IInv
<1> QED
  BY <1>1, StoreCorrect, PTL DEF Spec, VerdictsLast
=============================================================================
