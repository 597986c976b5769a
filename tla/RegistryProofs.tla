--------------------------- MODULE RegistryProofs ---------------------------
(* What the loops over g_registry compute, for a registry of any size. *)
EXTENDS Registry, WellFoundedInduction, TLAPS

(* A loop that stops at the first hit stops at a hit, if there is one. *)
LEMMA MinIsHit ==
  ASSUME NEW S \in SUBSET Slots, S # {}
  PROVE  Min(S) \in S /\ \A j \in S : Min(S) <= j
<1>1. S \subseteq Nat
  BY RegistryMaxAssumption DEF Slots
<1> DEFINE Less == {ss \in Nat \X Nat : ss[1] < ss[2]}
<1>a. IsWellFoundedOn(Less, Nat)
  BY NatLessThanWellFounded DEF OpToRel
<1>b. \A m, n \in Nat : m < n => <<m, n>> \in Less
  <2> TAKE m \in Nat, n \in Nat
  <2>1. <<m, n>> \in Nat \X Nat /\ <<m, n>>[1] = m /\ <<m, n>>[2] = n
    OBVIOUS
  <2> QED
    BY <2>1
<1> HIDE DEF Less
<1>2. PICK x \in S : \A y \in S : ~(<<y, x>> \in Less)
  BY <1>1, <1>a, WFMin
<1>3. ASSUME NEW y \in S PROVE x <= y
  <2>1. x \in Nat /\ y \in Nat
    BY <1>1
  <2>2. ~(y < x)
    BY <1>2, <1>b, <2>1
  <2> QED
    BY <2>1, <2>2
<1> QED
  BY <1>3 DEF Min

(* sqmp_registry_add fills one entry, which was free. *)
LEMMA AddFillsFreeEntry ==
  ASSUME NEW reg, NEW uname, NEW stream, NEW pubkey, CanAdd(reg, uname)
  PROVE  \E k \in Free(reg) :
           Add(reg, uname, stream, pubkey) =
             [reg EXCEPT ![k] = Entry(uname, stream, pubkey)]
<1>1. Free(reg) \in SUBSET Slots /\ Free(reg) # {}
  BY DEF Free, CanAdd
<1>2. Min(Free(reg)) \in Free(reg)
  BY <1>1, MinIsHit
<1> QED
  BY <1>2 DEF Add

(* sqmp_registry_remove clears the entry of the user, if there is one. *)
LEMMA RemoveClearsEntry ==
  ASSUME NEW reg, NEW uname, Matches(reg, uname) # {}
  PROVE  \E k \in Matches(reg, uname) :
           Remove(reg, uname) = [reg EXCEPT ![k] = FreeEntry]
<1>1. Matches(reg, uname) \in SUBSET Slots
  BY DEF Matches
<1>2. Min(Matches(reg, uname)) \in Matches(reg, uname)
  BY <1>1, MinIsHit
<1> QED
  BY <1>2 DEF Remove

(* Neither makes a user appear twice. *)
LEMMA AddKeepsUnique ==
  ASSUME NEW T, NEW reg \in [Slots -> T], NEW uname, NEW stream, NEW pubkey,
         UniqueNames(reg), CanAdd(reg, uname)
  PROVE  UniqueNames(Add(reg, uname, stream, pubkey))
<1>1. PICK k \in Free(reg) : Add(reg, uname, stream, pubkey) =
                                [reg EXCEPT ![k] = Entry(uname, stream, pubkey)]
  BY AddFillsFreeEntry
<1>2. \A i \in Slots : reg[i].in_use => reg[i].username # uname
  BY DEF CanAdd, Matches
<1> QED
  BY <1>1, <1>2 DEF UniqueNames, Entry, Free

LEMMA RemoveKeepsUnique ==
  ASSUME NEW T, NEW reg \in [Slots -> T], NEW uname, UniqueNames(reg)
  PROVE  UniqueNames(Remove(reg, uname))
<1>1. CASE Matches(reg, uname) = {}
  BY <1>1 DEF Remove
<1>2. CASE Matches(reg, uname) # {}
  <2>1. PICK k \in Matches(reg, uname) : Remove(reg, uname) = [reg EXCEPT ![k] = FreeEntry]
    BY <1>2, RemoveClearsEntry
  <2>2. FreeEntry.in_use = FALSE
    BY DEF FreeEntry
  <2> QED
    BY <2>1, <2>2 DEF UniqueNames, Matches
<1> QED
  BY <1>1, <1>2

(* After a removal the user is gone, and everybody else is where he was. *)
LEMMA RemoveEffect ==
  ASSUME NEW T, NEW reg \in [Slots -> T], NEW uname, UniqueNames(reg),
         NEW i \in Slots
  PROVE  Remove(reg, uname)[i] =
           IF reg[i].in_use /\ reg[i].username = uname THEN FreeEntry ELSE reg[i]
<1>1. CASE Matches(reg, uname) = {}
  BY <1>1 DEF Remove, Matches
<1>2. CASE Matches(reg, uname) # {}
  <2>1. PICK k \in Matches(reg, uname) : Remove(reg, uname) = [reg EXCEPT ![k] = FreeEntry]
    BY <1>2, RemoveClearsEntry
  <2>2. k \in Slots /\ reg[k].in_use /\ reg[k].username = uname
    BY DEF Matches
  <2>3. (reg[i].in_use /\ reg[i].username = uname) <=> i = k
    BY <2>2 DEF UniqueNames
  <2> QED
    BY <2>1, <2>2, <2>3
<1> QED
  BY <1>1, <1>2

(* sqmp_registry_find and sqmp_registry_get_pubkey read the one entry of   *)
(* the user, so the stream and the key they return belong together.        *)
THEOREM LookupsAgree ==
  ASSUME NEW T, NEW reg \in [Slots -> T], UniqueNames(reg),
         NEW i \in Slots, reg[i].in_use
  PROVE  /\ Find(reg, reg[i].username) = reg[i].stream
         /\ GetPubkey(reg, reg[i].username) = reg[i].public_key
<1> DEFINE M == Matches(reg, reg[i].username)
<1>1. M = {i}
  BY DEF Matches, UniqueNames
<1>2. M \in SUBSET Slots /\ M # {}
  BY <1>1
<1>3. Min(M) = i
  BY <1>1, <1>2, MinIsHit
<1> QED
  BY <1>1, <1>3 DEF Find, GetPubkey
=============================================================================
