------------------------------ MODULE AuthQueue ------------------------------
(***************************************************************************)
(* The authentication queue of src/shared/sqmp.c: an intrusive linked list *)
(* (g_auth_queue_head, g_auth_queue_tail and the next field of every       *)
(* session) guarded by g_auth_queue_mutex and counted by g_auth_queue_sem. *)
(*                                                                         *)
(* Threads.  MsQuic runs the callbacks of one connection one at a time, so *)
(* a session has one producer: wpc[s] is where that thread is inside       *)
(* auth_queue_enqueue(s).  The server's main thread is the only consumer:  *)
(* mpc is where it is inside sqmp_auth_queue_dequeue.  What a thread does  *)
(* between pthread_mutex_lock and pthread_mutex_unlock is one step; the    *)
(* assignment session->next = NULL of enqueue is outside the lock and is a *)
(* step of its own.                                                        *)
(*                                                                         *)
(* sqmp_process_auth_req enqueues a session in state AUTH as often as      *)
(* AUTH_REQ comes.  client.c sends one and waits for the answer, but       *)
(* nothing in the server holds a client to that: repeats counts the        *)
(* requests that came too early, and the properties say which promises of  *)
(* the queue rest on there being none.                                     *)
(***************************************************************************)
EXTENDS Integers, Sequences, FiniteSets

CONSTANTS
  Sessions,  \* the sessions, one per connection
  NULL,      \* the null pointer
  MaxRepeats \* the bound on requests that come before the answer

Main == "main"  \* the main thread, as a holder of the mutex

ASSUME SessionsAssumption ==
  /\ IsFiniteSet(Sessions)
  /\ NULL \notin Sessions
  /\ Main \notin Sessions \cup {NULL}

ASSUME MaxRepeatsAssumption == MaxRepeats \in Nat

VARIABLES
  head,         \* g_auth_queue_head
  tail,         \* g_auth_queue_tail
  next,         \* the next field of every session
  sem,          \* the value of g_auth_queue_sem
  mutex,        \* the thread that holds g_auth_queue_mutex, or NULL
  wpc,          \* where the callback thread of each session is
  mpc,          \* where the main thread is
  got,          \* the session the main thread works on (local s, then pending)
  asked,        \* sessions whose AUTH_REQ has not been answered
  repeats,      \* history: requests that came before the previous answer
  interrupted,  \* sem_wait was interrupted by a signal
  order         \* history: the sessions linked and not yet taken, in order

ptrs == <<head, tail, next>>
vars == <<head, tail, next, sem, mutex, wpc, mpc, got, asked, repeats,
          interrupted, order>>

Ptr == Sessions \cup {NULL}
WorkerPc == {"idle", "lock", "link", "unlock", "post"}
MainPc == {"wait", "lock", "take", "unlock", "work", "null"}

Init ==
  /\ head = NULL
  /\ tail = NULL
  /\ next = [s \in Sessions |-> NULL]
  /\ sem = 0
  /\ mutex = NULL
  /\ wpc = [s \in Sessions |-> "idle"]
  /\ mpc = "wait"
  /\ got = NULL
  /\ asked = {}
  /\ repeats = 0
  /\ interrupted = FALSE
  /\ order = << >>

-----------------------------------------------------------------------------
(* Mistakes that the code might have made: a property is worth checking    *)
(* only if one of them breaks it.                                          *)

(* The lock is not taken. *)
LockEnqueueSkipped(s) ==
  /\ wpc[s] = "lock"
  /\ mutex' = s
  /\ wpc' = [wpc EXCEPT ![s] = "link"]
  /\ UNCHANGED <<ptrs, sem, mpc, got, asked, repeats, interrupted, order>>

(* The session is pushed in front of the others. *)
LinkSessionInFront(s) ==
  /\ wpc[s] = "link"
  /\ head' = s
  /\ next' = [next EXCEPT ![s] = head]
  /\ tail' = IF tail = NULL THEN s ELSE tail
  /\ order' = <<s>> \o order
  /\ wpc' = [wpc EXCEPT ![s] = "unlock"]
  /\ UNCHANGED <<sem, mutex, mpc, got, asked, repeats, interrupted>>

(* The wakeup is forgotten. *)
PostEnqueueForgotten(s) ==
  /\ wpc[s] = "post"
  /\ wpc' = [wpc EXCEPT ![s] = "idle"]
  /\ UNCHANGED <<ptrs, sem, mutex, mpc, got, asked, repeats, interrupted, order>>

(* The main thread does not wait for the count. *)
WaitDequeueSkipped ==
  /\ mpc = "wait"
  /\ sem' = sem - 1
  /\ mpc' = "lock"
  /\ UNCHANGED <<ptrs, mutex, wpc, got, asked, repeats, interrupted, order>>

(* Taking the last session leaves the tail pointing at it. *)
TakeHeadKeepsTail ==
  /\ mpc = "take"
  /\ got' = head
  /\ \/ /\ head = NULL
        /\ UNCHANGED <<ptrs, order>>
     \/ /\ head # NULL
        /\ head' = next[head]
        /\ next' = [next EXCEPT ![head] = NULL]
        /\ order' = Tail(order)
        /\ UNCHANGED tail
  /\ mpc' = "unlock"
  /\ UNCHANGED <<sem, mutex, wpc, asked, repeats, interrupted>>

-----------------------------------------------------------------------------
(* auth_queue_enqueue, run by the callback thread of session s.            *)

(* An AUTH_REQ arrives and sqmp_process_auth_req enqueues the session: the *)
(* state is AUTH until the login is answered, and that is all it tests.    *)
(* next is cleared before the lock is taken, also when the session is      *)
(* already in the list.                                                    *)
BeginEnqueue(s) ==
  /\ wpc[s] = "idle"
  /\ \/ s \notin asked /\ UNCHANGED repeats
     \/ s \in asked /\ repeats < MaxRepeats /\ repeats' = repeats + 1
  /\ asked' = asked \cup {s}
  /\ next' = [next EXCEPT ![s] = NULL]
  /\ wpc' = [wpc EXCEPT ![s] = "lock"]
  /\ UNCHANGED <<head, tail, sem, mutex, mpc, got, interrupted, order>>

LockEnqueue(s) ==
  /\ wpc[s] = "lock"
  /\ mutex = NULL
  /\ mutex' = s
  /\ wpc' = [wpc EXCEPT ![s] = "link"]
  /\ UNCHANGED <<ptrs, sem, mpc, got, asked, repeats, interrupted, order>>

LinkSession(s) ==
  /\ wpc[s] = "link"
  /\ \/ /\ tail = NULL
        /\ head' = s
        /\ UNCHANGED next
     \/ /\ tail # NULL
        /\ next' = [next EXCEPT ![tail] = s]
        /\ UNCHANGED head
  /\ tail' = s
  /\ order' = Append(order, s)
  /\ wpc' = [wpc EXCEPT ![s] = "unlock"]
  /\ UNCHANGED <<sem, mutex, mpc, got, asked, repeats, interrupted>>

UnlockEnqueue(s) ==
  /\ wpc[s] = "unlock"
  /\ mutex' = NULL
  /\ wpc' = [wpc EXCEPT ![s] = "post"]
  /\ UNCHANGED <<ptrs, sem, mpc, got, asked, repeats, interrupted, order>>

PostEnqueue(s) ==
  /\ wpc[s] = "post"
  /\ sem' = sem + 1
  /\ wpc' = [wpc EXCEPT ![s] = "idle"]
  /\ UNCHANGED <<ptrs, mutex, mpc, got, asked, repeats, interrupted, order>>

Worker(s) ==
  BeginEnqueue(s) \/ LockEnqueue(s) \/ LinkSession(s) \/ UnlockEnqueue(s)
    \/ PostEnqueue(s)

-----------------------------------------------------------------------------
(* sqmp_auth_queue_dequeue, run by the main thread.                        *)

WaitDequeue ==
  /\ mpc = "wait"
  /\ sem > 0
  /\ sem' = sem - 1
  /\ mpc' = "lock"
  /\ UNCHANGED <<ptrs, mutex, wpc, got, asked, repeats, interrupted, order>>

(* A signal interrupts sem_wait, and the function returns NULL.            *)
InterruptDequeue ==
  /\ mpc = "wait"
  /\ sem = 0
  /\ interrupted' = TRUE
  /\ mpc' = "null"
  /\ UNCHANGED <<ptrs, sem, mutex, wpc, got, asked, repeats, order>>

LockDequeue ==
  /\ mpc = "lock"
  /\ mutex = NULL
  /\ mutex' = Main
  /\ mpc' = "take"
  /\ UNCHANGED <<ptrs, sem, wpc, got, asked, repeats, interrupted, order>>

TakeHead ==
  /\ mpc = "take"
  /\ got' = head
  /\ \/ /\ head = NULL
        /\ UNCHANGED <<ptrs, order>>
     \/ /\ head # NULL
        /\ head' = next[head]
        /\ tail' = IF next[head] = NULL THEN NULL ELSE tail
        /\ next' = [next EXCEPT ![head] = NULL]
        /\ order' = IF order = << >> THEN order ELSE Tail(order)
  /\ mpc' = "unlock"
  /\ UNCHANGED <<sem, mutex, wpc, asked, repeats, interrupted>>

UnlockDequeue ==
  /\ mpc = "unlock"
  /\ mutex' = NULL
  /\ mpc' = IF got = NULL THEN "null" ELSE "work"
  /\ UNCHANGED <<ptrs, sem, wpc, got, asked, repeats, interrupted, order>>

(* The body of the main loop: the login is answered.  The loop then calls  *)
(* sqmp_auth_queue_dequeue again; with NULL it ends.                       *)
AnswerLogin ==
  /\ mpc = "work"
  /\ asked' = asked \ {got}
  /\ got' = NULL
  /\ mpc' = "wait"
  /\ UNCHANGED <<ptrs, sem, mutex, wpc, repeats, interrupted, order>>

Consumer ==
  WaitDequeue \/ InterruptDequeue \/ LockDequeue \/ TakeHead \/ UnlockDequeue
    \/ AnswerLogin

(* After NULL the main thread is out of the loop; the workers go on. *)
LoopEnded == mpc = "null" /\ UNCHANGED vars

Next == (\E s \in Sessions : Worker(s)) \/ Consumer \/ LoopEnded

Spec == Init /\ [][Next]_vars

-----------------------------------------------------------------------------
(* Fairness.  A thread that can take a step eventually takes one, and a    *)
(* thread that asks for g_auth_queue_mutex again and again while it is     *)
(* free eventually gets it.  Nothing makes a client send AUTH_REQ and      *)
(* nothing makes a signal arrive.                                          *)

WorkerFairness(s) ==
  /\ WF_vars(LinkSession(s) \/ UnlockEnqueue(s) \/ PostEnqueue(s))
  /\ SF_vars(LockEnqueue(s))

ConsumerFairness ==
  /\ WF_vars(WaitDequeue \/ TakeHead \/ UnlockDequeue \/ AnswerLogin)
  /\ SF_vars(LockDequeue)

FairSpec ==
  /\ Spec
  /\ \A s \in Sessions : WorkerFairness(s)
  /\ ConsumerFairness

-----------------------------------------------------------------------------
(* Properties.                                                             *)

(* Every variable of the queue holds a value of its C type; the history is *)
(* a sequence of sessions.                                                 *)
TypeOK ==
  /\ head \in Ptr
  /\ tail \in Ptr
  /\ next \in [Sessions -> Ptr]
  /\ sem \in Nat
  /\ mutex \in Ptr \cup {Main}
  /\ wpc \in [Sessions -> WorkerPc]
  /\ mpc \in MainPc
  /\ got \in Ptr
  /\ asked \in SUBSET Sessions
  /\ repeats \in Nat
  /\ interrupted \in BOOLEAN
  /\ order \in Seq(Sessions)

(* A thread between pthread_mutex_lock and pthread_mutex_unlock holds the  *)
(* mutex, and nobody else does.                                            *)
MutexInv ==
  /\ \A s \in Sessions : wpc[s] \in {"link", "unlock"} <=> mutex = s
  /\ mpc \in {"take", "unlock"} <=> mutex = Main

(* No client sent AUTH_REQ again before it had the answer to the first. *)
AskedOnce == repeats = 0

(* The linked list is the queue: head and tail are its two ends and the    *)
(* next fields lead from one to the other through every session that was   *)
(* linked and not yet taken, in the order of linking.  A request that is   *)
(* repeated breaks it: next = NULL cuts the list behind its session, and   *)
(* linking the tail once more closes a cycle.                              *)
Links ==
  /\ head = IF order = << >> THEN NULL ELSE order[1]
  /\ tail = IF order = << >> THEN NULL ELSE order[Len(order)]
  /\ \A i \in 1..Len(order) :
       next[order[i]] = IF i = Len(order) THEN NULL ELSE order[i + 1]
ListShape == AskedOnce => Links

(* g_auth_queue_sem counts the sessions in the list, up to the session     *)
(* that is linked and not yet posted and the token that the main thread    *)
(* took and has not yet exchanged for a session.  With a repeated request  *)
(* it may count sessions that can no longer be reached.                    *)
Unposted == {s \in Sessions : wpc[s] \in {"unlock", "post"}}
Token == IF mpc \in {"lock", "take"} THEN 1 ELSE 0
Counts == sem + Cardinality(Unposted) + Token = Len(order)
SemCountsSessions == AskedOnce => Counts

(* sqmp.c:32, "out: next session to authenticate, or NULL if interrupted": *)
(* the main thread is woken by the semaphore to find an empty list, which  *)
(* ends the server's main loop, only after some client has sent AUTH_REQ   *)
(* again before its answer.  The comment does not name this exception.     *)
NullOnlyIfInterrupted == mpc = "null" => interrupted \/ ~AskedOnce

(* The strengthening that makes the properties above inductive.  A session *)
(* waits in one place: on its way in, in the list, or with the main        *)
(* thread; and its client is then waiting for the answer.                  *)
Linked(s) == \E i \in 1..Len(order) : order[i] = s
Entering(s) == wpc[s] \in {"lock", "link"}

OnePlace ==
  /\ \A i, j \in 1..Len(order) : order[i] = order[j] => i = j
  /\ \A s \in Sessions : Entering(s) =>
       s \in asked /\ ~Linked(s) /\ s # got /\ next[s] = NULL
  /\ \A i \in 1..Len(order) : order[i] \in asked /\ order[i] # got
  /\ got # NULL => got \in asked

HandsOver == mpc \in {"unlock", "work"} <=> got # NULL
NullIsSignal == mpc = "null" => interrupted

QueueInv ==
  /\ TypeOK
  /\ MutexInv
  /\ Links
  /\ Counts
  /\ OnePlace
  /\ HandsOver
  /\ NullIsSignal

(* The invariant that is proved: types and mutual exclusion hold whatever  *)
(* the clients send, the rest as long as each of them asks once.           *)
SafeInv ==
  /\ TypeOK
  /\ MutexInv
  /\ AskedOnce => QueueInv

(* The list implements a first-in first-out queue in which no session      *)
(* waits twice, up to the step in which a client first repeats AUTH_REQ.   *)
Abstract == INSTANCE Fifo WITH q <- order, last <- got
ImplementsFifo ==
  Abstract!Init /\ [][Abstract!Next \/ ~AskedOnce']_<<order, got>>

(* Every session whose callback entered auth_queue_enqueue is handed to    *)
(* the main thread, unless a signal ended the main loop first or a         *)
(* repeated request has cut the list.                                      *)
EveryRequestTaken ==
  \A s \in Sessions : wpc[s] = "lock" ~> (got = s \/ mpc = "null" \/ ~AskedOnce)

=============================================================================
