-------------------------------- MODULE Fifo --------------------------------
(***************************************************************************)
(* What the authentication queue of sqmp.c promises: a first-in first-out  *)
(* queue of sessions.  A session is appended at most once until it is      *)
(* taken, and a session that is taken is the oldest one.                   *)
(***************************************************************************)
EXTENDS Naturals, Sequences

CONSTANTS Sessions,  \* the sessions that may ask to be authenticated
          NULL       \* no session

VARIABLES q,         \* the sessions waiting, oldest first
          last       \* the session handed out by the latest Dequeue

Init ==
  /\ q = << >>
  /\ last = NULL

Enqueue(s) ==
  /\ \A i \in 1..Len(q) : q[i] # s
  /\ q' = Append(q, s)
  /\ UNCHANGED last

Dequeue ==
  /\ q # << >>
  /\ last' = Head(q)
  /\ q' = Tail(q)

(* The caller is done with the session it was handed. *)
Release ==
  /\ last # NULL
  /\ last' = NULL
  /\ UNCHANGED q

Next == (\E s \in Sessions : Enqueue(s)) \/ Dequeue \/ Release

Spec == Init /\ [][Next]_<<q, last>>
=============================================================================
