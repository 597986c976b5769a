------------------------------ MODULE MCServer ------------------------------
(* Instances of Server for TLC. *)
EXTENDS Server, TLC

CONSTANT h1

(* Both users are listed, with the password whose hash is h1. *)
MCUsersFile == [u \in Users |-> h1]

(* Connections are interchangeable, and so are the users. *)
Symmetry == Permutations(Conns) \cup Permutations(Users)

(* The packets sent last decide nothing, and a run that checks nothing     *)
(* about them need not tell states apart by them.                          *)
StateView ==
  <<phase, session, login, chat, closing, registry, queue, main, g_stop, crashed>>

(* For three connections: the life of the server before it is stopped. *)
NotStopped == ~g_stop
=============================================================================
