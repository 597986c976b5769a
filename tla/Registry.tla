------------------------------ MODULE Registry ------------------------------
(***************************************************************************)
(* The connected-user registry of src/shared/sqmp.c: a fixed array of      *)
(* SQMP_REGISTRY_MAX entries.  Every function of the C code holds          *)
(* g_registry_mutex from its first to its last access, so each is one      *)
(* operator on the whole array.  A loop over the array that stops at the   *)
(* first hit is the smallest index of the set of hits.                     *)
(***************************************************************************)
EXTENDS Integers, FiniteSetsExt

CONSTANTS
  RegistryMax,  \* SQMP_REGISTRY_MAX
  NULL          \* the null pointer, and the bytes memset leaves behind

ASSUME RegistryMaxAssumption == RegistryMax \in Nat

Slots == 0 .. RegistryMax - 1

(* An entry after memset, and an entry in use. *)
FreeEntry ==
  [in_use |-> FALSE, username |-> NULL, stream |-> NULL, public_key |-> NULL]

Entry(uname, stream, pubkey) ==
  [in_use |-> TRUE, username |-> uname, stream |-> stream,
   public_key |-> pubkey]

Entries(names, streams, keys) ==
  {FreeEntry} \cup {Entry(u, s, k) : u \in names, s \in streams \cup {NULL}, k \in keys}

EmptyRegistry == [i \in Slots |-> FreeEntry]

Free(reg) == {i \in Slots : ~reg[i].in_use}

Matches(reg, uname) ==
  {i \in Slots : reg[i].in_use /\ reg[i].username = uname}

-----------------------------------------------------------------------------
(* A mistake the code might have made: sqmp_registry_add stops looking for *)
(* the name at the first free entry.                                       *)
CanAddStopsEarly(reg, uname) ==
  /\ Free(reg) # {}
  /\ \A i \in Matches(reg, uname) : i > Min(Free(reg))

(* sqmp_registry_add returns 0 exactly if CanAdd, and then fills the first *)
(* free entry; otherwise it returns -1 and changes nothing.                *)
CanAdd(reg, uname) == Matches(reg, uname) = {} /\ Free(reg) # {}

Add(reg, uname, stream, pubkey) ==
  [reg EXCEPT ![Min(Free(reg))] = Entry(uname, stream, pubkey)]

Remove(reg, uname) ==
  IF Matches(reg, uname) = {} THEN reg
  ELSE [reg EXCEPT ![Min(Matches(reg, uname))] = FreeEntry]

Find(reg, uname) ==
  IF Matches(reg, uname) = {} THEN NULL
  ELSE reg[Min(Matches(reg, uname))].stream

(* NULL stands for the result -1, "not found". *)
GetPubkey(reg, uname) ==
  IF Matches(reg, uname) = {} THEN NULL
  ELSE reg[Min(Matches(reg, uname))].public_key

(* The streams that sqmp_registry_send_bye_all sends on and whose          *)
(* connections sqmp_registry_shutdown_connections shuts down.              *)
Reachable(reg) == {reg[i].stream : i \in {j \in Slots : reg[j].in_use}} \ {NULL}

(* Every user is in the registry at most once. *)
UniqueNames(reg) ==
  \A i, j \in Slots :
    /\ reg[i].in_use /\ reg[j].in_use
    /\ reg[i].username = reg[j].username
    => i = j
=============================================================================
