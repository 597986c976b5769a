----------------------------- MODULE UserStore -----------------------------
(***************************************************************************)
(* users.txt: the utility that appends to it (data/sqmp_add_user.c), the   *)
(* server's verify_credentials that reads it, and what client.c sends for  *)
(* a name and a password that are typed at its prompts.                    *)
(*                                                                         *)
(* A line is the text before its first ':' and the hash after it.  A       *)
(* username is a text, or a text followed by ':' and more; a text has at   *)
(* most 31 characters, exactly 32 (Full) or more (Over), and always so few *)
(* that a line fits the 256 bytes that fgets reads at once.  The utility   *)
(* scans the file and appends to it in two steps, and does not look at     *)
(* whether fprintf and fclose succeed, so a full disk or a kill may cut    *)
(* its line short anywhere.                                                *)
(***************************************************************************)
EXTENDS Integers, Sequences, TLC

CONSTANTS
  Texts,      \* the texts that usernames are made of
  Full, Over, \* those of 32 characters, and the longer ones
  Reserved,   \* exit, quit, r, reply
  Passwords,  \* of at most 255 characters, which client.c has room for
  EMPTY,      \* the empty password
  Adders      \* runs of sqmp-add-user

ASSUME StoreAssumption ==
  /\ Full \cup Over \cup Reserved \subseteq Texts
  /\ Full \cap Over = {}
  /\ EMPTY \in Passwords
  /\ "none" \notin Passwords
  /\ "no name" \notin Texts

VARIABLES
  file,   \* the lines of users.txt
  open,   \* the last line has no newline yet
  pc,     \* where each run of the utility is
  args,   \* its username and password
  added,  \* the users whose addition was reported, with their passwords
  raced,  \* texts that two overlapping runs added
  torn,   \* texts whose line was cut short or glued to the next one
  fused   \* texts made of a name that was cut short and the next one

vars == <<file, open, pc, args, added, raced, torn, fused>>

Names == [text : Texts, colon : BOOLEAN]
Plain(t) == [text |-> t, colon |-> FALSE]
Users == [name : Names, pass : Passwords]

(* 64 hex digits that stand for a password, or a field of another length. *)
Hash(p) == [sha256 |-> p]
BAD == [sha256 |-> "none"]
Hashes == {Hash(p) : p \in Passwords}

(* A line that is cut in the name has no ':' and so no name. *)
NONAME == "no name"
Line == [key : Texts \cup {NONAME}, hash : Hashes \cup {BAD}]

-----------------------------------------------------------------------------
(* Mistakes that the code might have made.                                 *)

(* The duplicate check stops at the first line. *)
ExistsInFirst(f, n) == f # << >> /\ ~n.colon /\ f[1].key = n.text

(* verify_credentials goes on after a line with the name. *)
VerifyAnyLine(f, n, h) ==
  /\ ~n.colon
  /\ \E i \in DOMAIN f : f[i].key = n.text
  /\ LET i == CHOOSE i \in DOMAIN f :
               f[i].key = n.text /\ \A j \in DOMAIN f : f[j].key = n.text => j <= i
     IN  f[i].hash = h

(* The length of the hash is not checked: bytes that are not there compare *)
(* equal to anything.                                                      *)
VerifyAnyLength(f, n, h) ==
  /\ ~n.colon
  /\ \E i \in DOMAIN f :
       /\ f[i].key = n.text
       /\ f[i].hash \in {h, BAD}
       /\ \A j \in 1..(i - 1) : f[j].key # n.text

(* There is no duplicate check. *)
ExistsNever(f, n) == FALSE

-----------------------------------------------------------------------------
(* What the programs compute.                                              *)

(* "username:hash": a ':' in the username ends the name and spoils the     *)
(* length of the hash.                                                     *)
NewLine(n, p) ==
  [key |-> n.text, hash |-> IF n.colon THEN BAD ELSE Hash(p)]

(* The line as the disk may keep it: cut in the name, cut in the hash, or  *)
(* cut before the newline.                                                 *)
CutLines(n, p) ==
  {[key |-> NONAME, hash |-> BAD], [key |-> n.text, hash |-> BAD], NewLine(n, p)}

(* fopen "a" and the bytes of one line: what the file may then be.  Bytes  *)
(* that follow a line without a newline lengthen its hash; if it was cut   *)
(* in the name they complete it to another name.                           *)
LastLine(f) == f[Len(f)]
AppendBytes(f, glue, line) ==
  IF ~glue THEN {Append(f, line)}
  ELSE {[f EXCEPT ![Len(f)] = [key |-> LastLine(f).key, hash |-> BAD]]} \cup
       {[f EXCEPT ![Len(f)] = [key |-> t, hash |-> line.hash]] :
          t \in IF LastLine(f).key = NONAME /\ line.key # NONAME
               THEN Texts \ {line.key} ELSE {}}

(* The scan of sqmp_add_user: a name with a ':' equals no line's name. *)
Exists(f, n) == ~n.colon /\ \E i \in DOMAIN f : f[i].key = n.text

Forbidden(n) == ~n.colon /\ n.text \in Reserved

(* verify_credentials: the first line with the name decides. *)
Verify(f, n, h) ==
  /\ ~n.colon
  /\ \E i \in DOMAIN f :
       /\ f[i] = [key |-> n.text, hash |-> h]
       /\ \A j \in 1..(i - 1) : f[j].key # n.text

(* sqmp_login: fgets takes 32 characters for the name, and what is left of *)
(* the line, be it only the newline, is the password.                      *)
LogIn(f, n, p) ==
  /\ n.text \notin Over
  /\ Verify(f, n, Hash(IF n.text \in Full THEN EMPTY ELSE p))

-----------------------------------------------------------------------------
(* users.txt is empty, or holds a user. *)
Init ==
  /\ added \in {{}} \cup {{u} : u \in [name : {Plain(t) : t \in Texts \ Reserved},
                                      pass : Passwords]}
  /\ file = IF added = {} THEN << >>
            ELSE LET u == CHOOSE u \in added : TRUE IN <<NewLine(u.name, u.pass)>>
  /\ open = FALSE
  /\ pc = [a \in Adders |-> "scan"]
  /\ args \in [Adders -> Users]
  /\ raced = {}
  /\ torn = {}
  /\ fused = {}

(* main up to the end of its scan of the file: it refuses ... *)
Refuse(a) ==
  /\ pc[a] = "scan"
  /\ Forbidden(args[a].name) \/ Exists(file, args[a].name)
  /\ pc' = [pc EXCEPT ![a] = "failed"]
  /\ UNCHANGED <<file, open, args, added, raced, torn, fused>>

(* ... or goes on. *)
Accept(a) ==
  /\ pc[a] = "scan"
  /\ ~Forbidden(args[a].name)
  /\ ~Exists(file, args[a].name)
  /\ pc' = [pc EXCEPT ![a] = "append"]
  /\ UNCHANGED <<file, open, args, added, raced, torn, fused>>

(* The file cannot be opened, or the process is killed before it writes. *)
GiveUp(a) ==
  /\ pc[a] = "append"
  /\ pc' = [pc EXCEPT ![a] = "failed"]
  /\ UNCHANGED <<file, open, args, added, raced, torn, fused>>

(* fclose writes the line, or what the disk takes of it. *)
Rivals(a) == {b \in Adders \ {a} :
                pc[b] = "append" /\ args[b].name.text = args[a].name.text}

Write(a, line, cut) ==
  /\ pc[a] = "append"
  /\ pc' = [pc EXCEPT ![a] = "added"]
  /\ file' \in AppendBytes(file, open, line)
  /\ open' = cut
  /\ added' = added \cup {args[a]}
  /\ raced' = raced \cup {args[b].name.text : b \in Rivals(a)}
  /\ torn' = torn \cup (IF cut \/ open THEN {args[a].name.text} ELSE {})
                  \cup (IF open THEN {LastLine(file).key} ELSE {})
  /\ fused' = fused \cup
       (IF open THEN {LastLine(file').key} \ {LastLine(file).key} ELSE {})
  /\ UNCHANGED args

AddUser(a) ==
  LET n == args[a].name
      p == args[a].pass
  IN  \/ Refuse(a) \/ Accept(a) \/ GiveUp(a)
      \/ Write(a, NewLine(n, p), FALSE)
      \/ \E line \in CutLines(n, p) : Write(a, line, TRUE)

Next == \E a \in Adders : AddUser(a)

(* Runs of the utility are interchangeable. *)
Symmetry == Permutations(Adders)

Spec == Init /\ [][Next]_vars

-----------------------------------------------------------------------------
(* Properties.                                                             *)

(* users.txt holds names and hashes. *)
TypeOK ==
  /\ file \in Seq(Line)
  /\ open \in BOOLEAN
  /\ pc \in [Adders -> {"scan", "append", "added", "failed"}]
  /\ args \in [Adders -> Users]
  /\ added \subseteq Users
  /\ raced \subseteq Texts
  /\ torn \subseteq Texts \cup {NONAME}
  /\ fused \subseteq Texts

(* Whatever runs of the utility overlap and wherever lines are cut short,  *)
(* the server accepts no password that the utility was not given for that  *)
(* very name, unless a name that was cut short and the next one make it.   *)
OnlyAddedLogIn ==
  \A u \in Users :
    Verify(file, u.name, Hash(u.pass)) => u \in added \/ u.name.text \in fused

(* A user whose addition was reported can log in, if the name fits the     *)
(* client's buffer and has no ':', nobody added the same text at the same  *)
(* time, and neither this line nor the one before it was cut short.  (The  *)
(* utility also takes passwords of more than 255 characters, which fgets   *)
(* at client.c:159 cuts; they are outside Passwords and cannot log in.)    *)
AddedCanLogIn ==
  \A u \in added :
    \/ u.name.colon \/ u.name.text \in Full \cup Over
    \/ u.name.text \in raced \cup torn \cup fused
    \/ LogIn(file, u.name, u.pass)

(* "Checks for duplicates, then appends" (sqmp_add_user.c:11): two lines   *)
(* carry the same name only if two runs overlapped, one of them has a      *)
(* username with a ':', or names fused.                                    *)
OneLinePerUser ==
  \A i, j \in DOMAIN file :
    file[i].key = file[j].key /\ i # j /\ file[i].key # NONAME =>
      \/ file[i].key \in raced \cup fused
      \/ \E u \in added : u.name = [text |-> file[i].key, colon |-> TRUE]

(* A password that the server accepts stays accepted whatever is appended, *)
(* unless the line before it was left without its newline: the server may  *)
(* read the file anew at every login.                                      *)
VerdictsLast ==
  [][\A u \in Users :
       Verify(file, u.name, Hash(u.pass)) /\ ~(open /\ LastLine(file).key = u.name.text)
       => Verify(file', u.name, Hash(u.pass))]_vars
=============================================================================
