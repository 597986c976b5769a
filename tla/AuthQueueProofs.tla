--------------------------- MODULE AuthQueueProofs ---------------------------
(***************************************************************************)
(* The authentication queue is correct for any number of sessions.         *)
(***************************************************************************)
EXTENDS AuthQueue, FiniteSetTheorems, SequenceTheorems, TLAPS

(* The sessions counted by Counts are finitely many, and one of *)
(* them entering or leaving changes their number by one.                   *)
LEMMA UnpostedFinite ==
  /\ IsFiniteSet(Unposted)
  /\ Cardinality(Unposted) \in Nat
<1>1. Unposted \in SUBSET Sessions
  BY DEF Unposted
<1>2. IsFiniteSet(Unposted)
  BY <1>1, SessionsAssumption, FS_Subset
<1> QED
  BY <1>2, FS_CardinalityType

LEMMA UnpostedAdd ==
  ASSUME TypeOK, NEW s \in Sessions, wpc[s] = "link",
         wpc' = [wpc EXCEPT ![s] = "unlock"]
  PROVE  Cardinality(Unposted') = Cardinality(Unposted) + 1
<1>1. Unposted' = Unposted \cup {s} /\ s \notin Unposted
  BY DEF Unposted, TypeOK
<1> QED
  BY <1>1, UnpostedFinite, FS_AddElement

LEMMA UnpostedRemove ==
  ASSUME TypeOK, NEW s \in Sessions, wpc[s] = "post",
         wpc' = [wpc EXCEPT ![s] = "idle"]
  PROVE  Cardinality(Unposted') = Cardinality(Unposted) - 1
<1>1. Unposted' = Unposted \ {s} /\ s \in Unposted
  BY DEF Unposted, TypeOK
<1> QED
  BY <1>1, UnpostedFinite, FS_RemoveElement

LEMMA UnpostedSame ==
  ASSUME TypeOK, NEW s \in Sessions,
         \/ wpc[s] = "idle" /\ wpc' = [wpc EXCEPT ![s] = "lock"]
         \/ wpc[s] = "lock" /\ wpc' = [wpc EXCEPT ![s] = "link"]
         \/ wpc[s] = "unlock" /\ wpc' = [wpc EXCEPT ![s] = "post"]
  PROVE  Unposted' = Unposted
BY DEF Unposted, TypeOK

(* A list with a session waiting for it has a head; the head is its oldest *)
(* session and the list without it is the rest.                            *)
LEMMA OrderFacts ==
  ASSUME TypeOK
  PROVE  /\ Len(order) \in Nat
         /\ \A i \in 1..Len(order) : order[i] \in Sessions
         /\ order = << >> <=> Len(order) = 0
BY LenProperties, ElementOfSeq, EmptySeq DEF TypeOK

-----------------------------------------------------------------------------
LEMMA InitEstablishesQueueInv == Init => QueueInv
<1> SUFFICES ASSUME Init PROVE QueueInv
  OBVIOUS
<1>1. Unposted = {}
  BY DEF Init, Unposted
<1>2. Cardinality(Unposted) = 0
  BY <1>1, FS_EmptySet
<1>3. TypeOK
  <2>1. order \in Seq(Sessions) /\ interrupted \in BOOLEAN
    BY EmptySeq DEF Init
  <2> QED
    BY <2>1, SessionsAssumption DEF Init, TypeOK, Ptr, WorkerPc, MainPc
<1>4. MutexInv
  BY SessionsAssumption DEF Init, MutexInv
<1>5. Links /\ OnePlace /\ HandsOver /\ NullIsSignal
  BY DEF Init, Links, OnePlace, HandsOver, NullIsSignal, Linked, Entering
<1>6. Counts
  BY <1>2 DEF Init, Counts, Token
<1> QED
  BY <1>3, <1>4, <1>5, <1>6 DEF QueueInv

(* The callback thread of one session, with a request that is not repeated. *)
LEMMA WorkerPreservesQueueInv ==
  ASSUME QueueInv, NEW s \in Sessions, Worker(s), UNCHANGED repeats
  PROVE  QueueInv'
<1> USE SessionsAssumption
<1>0. TypeOK /\ MutexInv /\ Links /\ Counts /\ OnePlace
      /\ HandsOver /\ NullIsSignal
  BY DEF QueueInv
<1>a. /\ Len(order) \in Nat
      /\ \A i \in 1..Len(order) : order[i] \in Sessions
      /\ order = << >> <=> Len(order) = 0
  BY <1>0, OrderFacts
<1>1. CASE BeginEnqueue(s)
  <2>0. s \notin asked
    BY <1>0, <1>1 DEF BeginEnqueue, TypeOK
  <2>1. Unposted' = Unposted
    BY <1>0, <1>1, UnpostedSame DEF BeginEnqueue
  <2>2. TypeOK'
    BY <1>0, <1>1 DEF BeginEnqueue, TypeOK, Ptr, WorkerPc
  <2>3. MutexInv'
    BY <1>0, <1>1 DEF BeginEnqueue, TypeOK, MutexInv
  <2>4. \A i \in 1..Len(order) : order[i] # s
    BY <1>0, <2>0 DEF OnePlace
  <2>5. Links'
    BY <1>0, <1>1, <1>a, <2>4 DEF BeginEnqueue, TypeOK, Links
  <2>6. Counts'
    BY <1>0, <1>1, <2>1 DEF BeginEnqueue, Counts, Token
  <2>7. OnePlace'
    BY <1>0, <1>1, <1>a, <2>0, <2>4 DEF BeginEnqueue, TypeOK, OnePlace, Linked, Entering, Ptr
  <2> QED
    BY <1>0, <1>1, <2>2, <2>3, <2>5, <2>6, <2>7
    DEF BeginEnqueue, QueueInv, HandsOver, NullIsSignal
<1>2. CASE LockEnqueue(s)
  <2>1. Unposted' = Unposted
    BY <1>0, <1>2, UnpostedSame DEF LockEnqueue
  <2>2. TypeOK'
    BY <1>0, <1>2 DEF LockEnqueue, TypeOK, Ptr, WorkerPc, ptrs
  <2>3. MutexInv'
    BY <1>0, <1>2 DEF LockEnqueue, TypeOK, MutexInv
  <2>4. Links' /\ Counts'
    BY <1>0, <1>2, <2>1 DEF LockEnqueue, Links, Counts, Token, ptrs
  <2>5. OnePlace'
    BY <1>0, <1>2 DEF LockEnqueue, TypeOK, OnePlace, Linked, Entering, ptrs
  <2> QED
    BY <1>0, <1>2, <2>2, <2>3, <2>4, <2>5
    DEF LockEnqueue, QueueInv, HandsOver, NullIsSignal
<1>3. CASE LinkSession(s)
  <2>1. Cardinality(Unposted') = Cardinality(Unposted) + 1
    BY <1>0, <1>3, UnpostedAdd DEF LinkSession
  <2>2. /\ order' \in Seq(Sessions)
        /\ Len(order') = Len(order) + 1
        /\ \A i \in 1..Len(order) : order'[i] = order[i]
        /\ order'[Len(order) + 1] = s
    BY <1>0, <1>3, <1>a DEF LinkSession, TypeOK
  <2>3. TypeOK'
    <3>1. CASE tail = NULL
      BY <1>0, <1>3, <2>2, <3>1 DEF LinkSession, TypeOK, Ptr, WorkerPc
    <3>2. CASE tail # NULL
      BY <1>0, <1>3, <2>2, <3>2 DEF LinkSession, TypeOK, Ptr, WorkerPc
    <3> QED
      BY <3>1, <3>2
  <2>4. MutexInv'
    BY <1>0, <1>3 DEF LinkSession, TypeOK, MutexInv
  <2>5. /\ \A i \in 1..Len(order) : order[i] # s
        /\ s \in asked /\ s # got /\ next[s] = NULL
    BY <1>0, <1>3 DEF LinkSession, OnePlace, Linked, Entering
  <2>6. Links'
    <3>1. CASE tail = NULL
      <4>1. Len(order) = 0
        BY <1>0, <1>a, <3>1 DEF Links
      <4> QED
        BY <1>0, <1>3, <2>2, <2>5, <3>1, <4>1 DEF LinkSession, Links
    <3>2. CASE tail # NULL
      <4>1. /\ Len(order) > 0
            /\ tail = order[Len(order)]
            /\ head = order[1]
            /\ tail \in Sessions /\ tail # s
        BY <1>0, <1>a, <2>5, <3>2 DEF Links
      <4>2. /\ next' = [next EXCEPT ![tail] = s]
            /\ head' = head /\ tail' = s
        BY <1>3, <3>2 DEF LinkSession
      <4>3. next'[s] = NULL /\ next'[tail] = s
        BY <1>0, <2>5, <4>1, <4>2 DEF TypeOK
      <4>4. \A i \in 1..Len(order) : i # Len(order) => next'[order[i]] = order[i + 1]
        BY <1>0, <1>a, <4>1, <4>2 DEF TypeOK, Links, OnePlace
      <4>5. \A i \in 1..Len(order') :
              next'[order'[i]] = IF i = Len(order') THEN NULL ELSE order'[i + 1]
        BY <1>a, <2>2, <4>1, <4>3, <4>4
      <4> QED
        BY <1>a, <2>2, <4>1, <4>2, <4>5 DEF Links
    <3> QED
      BY <3>1, <3>2
  <2>7. Counts'
    BY <1>0, <1>3, <1>a, <2>1, <2>2, UnpostedFinite
    DEF LinkSession, Counts, Token, TypeOK
  <2>8. \A t \in Sessions : Entering(t)' => Entering(t) /\ t # s
    BY <1>0, <1>3 DEF LinkSession, TypeOK, Entering
  <2>9. \A t \in Sessions : Entering(t)' => next'[t] = NULL
    <3> SUFFICES ASSUME NEW t \in Sessions, Entering(t)' PROVE next'[t] = NULL
      OBVIOUS
    <3>1. next[t] = NULL /\ ~Linked(t) /\ t # s
      BY <1>0, <2>8 DEF OnePlace
    <3>2. tail # NULL => tail # t
      BY <1>0, <1>a, <3>1 DEF Links, Linked
    <3> QED
      BY <1>0, <1>3, <3>1, <3>2 DEF LinkSession, TypeOK
  <2>10. OnePlace'
    BY <1>0, <1>3, <1>a, <2>2, <2>5, <2>8, <2>9 DEF LinkSession, OnePlace, Linked
  <2> QED
    BY <1>0, <1>3, <2>3, <2>4, <2>6, <2>7, <2>10
    DEF LinkSession, QueueInv, HandsOver, NullIsSignal
<1>4. CASE UnlockEnqueue(s)
  <2>1. Unposted' = Unposted
    BY <1>0, <1>4, UnpostedSame DEF UnlockEnqueue
  <2>2. TypeOK'
    BY <1>0, <1>4 DEF UnlockEnqueue, TypeOK, Ptr, WorkerPc, ptrs
  <2>3. MutexInv'
    BY <1>0, <1>4 DEF UnlockEnqueue, TypeOK, MutexInv
  <2>4. Links' /\ Counts'
    BY <1>0, <1>4, <2>1 DEF UnlockEnqueue, Links, Counts, Token, ptrs
  <2>5. OnePlace'
    BY <1>0, <1>4 DEF UnlockEnqueue, TypeOK, OnePlace, Linked, Entering, ptrs
  <2> QED
    BY <1>0, <1>4, <2>2, <2>3, <2>4, <2>5
    DEF UnlockEnqueue, QueueInv, HandsOver, NullIsSignal
<1>5. CASE PostEnqueue(s)
  <2>1. Cardinality(Unposted') = Cardinality(Unposted) - 1
    BY <1>0, <1>5, UnpostedRemove DEF PostEnqueue
  <2>2. TypeOK'
    BY <1>0, <1>5 DEF PostEnqueue, TypeOK, Ptr, WorkerPc, ptrs
  <2>3. MutexInv'
    BY <1>0, <1>5 DEF PostEnqueue, TypeOK, MutexInv
  <2>4. Links'
    BY <1>0, <1>5 DEF PostEnqueue, Links, ptrs
  <2>5. Counts'
    BY <1>0, <1>5, <1>a, <2>1, UnpostedFinite
    DEF PostEnqueue, Counts, Token, TypeOK
  <2>6. OnePlace'
    BY <1>0, <1>5 DEF PostEnqueue, TypeOK, OnePlace, Linked, Entering, ptrs
  <2> QED
    BY <1>0, <1>5, <2>2, <2>3, <2>4, <2>5, <2>6
    DEF PostEnqueue, QueueInv, HandsOver, NullIsSignal
<1> QED
  BY <1>1, <1>2, <1>3, <1>4, <1>5 DEF Worker

(* The main thread.  A token of the semaphore stands for a session in the  *)
(* list, so the thread that holds one finds the list not empty.            *)
LEMMA TokenFindsSession ==
  ASSUME QueueInv, mpc = "take"
  PROVE  /\ order # << >>
         /\ Len(order) \in Nat \ {0}
         /\ head = order[1]
         /\ head \in Sessions
<1>0. TypeOK /\ Links /\ Counts
  BY DEF QueueInv
<1>1. Len(order) \in Nat /\ Len(order) # 0
  BY <1>0, UnpostedFinite, OrderFacts DEF Counts, Token, TypeOK
<1> QED
  BY <1>0, <1>1, OrderFacts DEF Links

LEMMA TakeHeadPreservesQueueInv ==
  ASSUME QueueInv, TakeHead
  PROVE  QueueInv'
<1> USE SessionsAssumption
<1>0. TypeOK /\ MutexInv /\ Links /\ Counts /\ OnePlace
      /\ HandsOver /\ NullIsSignal
  BY DEF QueueInv
<1>1. /\ order # << >>
      /\ Len(order) \in Nat \ {0}
      /\ head = order[1]
      /\ head \in Sessions
      /\ \A i \in 1..Len(order) : order[i] \in Sessions
  BY <1>0, TokenFindsSession, OrderFacts DEF TakeHead
<1>2. /\ got' = head
      /\ head' = next[head]
      /\ tail' = IF next[head] = NULL THEN NULL ELSE tail
      /\ next' = [next EXCEPT ![head] = NULL]
      /\ order' = Tail(order)
  BY <1>1 DEF TakeHead
<1>3. /\ order' \in Seq(Sessions)
      /\ Len(order') = Len(order) - 1
      /\ \A i \in 1..Len(order') : order'[i] = order[i + 1]
      /\ order' = << >> <=> Len(order') = 0
  <2>1. Tail(order) \in Seq(Sessions) /\ Len(Tail(order)) = Len(order) - 1
        /\ \A i \in 1..Len(Tail(order)) : Tail(order)[i] = order[i + 1]
    BY <1>0, <1>1, HeadTailProperties DEF TypeOK
  <2> QED
    BY <1>2, <2>1, EmptySeq
<1>4. TypeOK'
  BY <1>0, <1>1, <1>2, <1>3 DEF TakeHead, TypeOK, Ptr, MainPc
<1>5. MutexInv'
  BY <1>0 DEF TakeHead, TypeOK, MutexInv
<1>a. 1 \in 1..Len(order) /\ \A i \in 1..Len(order') : i + 1 \in 1..Len(order)
  BY <1>1, <1>3
<1>b. \A n \in Nat \ {0} : n # 1 => 2 \in 1..n
  OBVIOUS
<1>6. next[head] = IF Len(order) = 1 THEN NULL ELSE order[2]
  <2>1. next[order[1]] = IF 1 = Len(order) THEN NULL ELSE order[1 + 1]
    BY <1>0, <1>a DEF Links
  <2> QED
    BY <1>1, <2>1
<1>7. \A i \in 1..Len(order') : order'[i] # head
  BY <1>0, <1>1, <1>3 DEF OnePlace
<1>8. \A i \in 1..Len(order') :
        next'[order'[i]] = IF i = Len(order') THEN NULL ELSE order'[i + 1]
  <2> SUFFICES ASSUME NEW i \in 1..Len(order')
               PROVE  next'[order'[i]] = IF i = Len(order') THEN NULL ELSE order'[i + 1]
    OBVIOUS
  <2>1. i + 1 \in 1..Len(order) /\ order'[i] = order[i + 1]
    BY <1>1, <1>3
  <2>2. next'[order'[i]] = next[order[i + 1]]
    BY <1>0, <1>1, <1>2, <1>7, <2>1 DEF TypeOK
  <2>3. next[order[i + 1]] = IF i + 1 = Len(order) THEN NULL ELSE order[i + 2]
    BY <1>0, <1>1, <2>1 DEF Links
  <2> QED
    BY <1>1, <1>3, <2>1, <2>2, <2>3
<1>9. Links'
  <2>1. CASE Len(order) = 1
    BY <1>2, <1>3, <1>6, <1>8, <2>1 DEF Links
  <2>2. CASE Len(order) # 1
    <3>a. 2 \in 1..Len(order)
      BY <1>1, <1>b, <2>2, Zenon
    <3>1. order[2] \in Sessions /\ order[2] # NULL
      BY <1>1, <3>a
    <3>2. tail' = order[Len(order)] /\ head' = order[2]
      BY <1>0, <1>1, <1>2, <1>6, <2>2, <3>1 DEF Links
    <3> QED
      BY <1>1, <1>3, <1>8, <2>2, <3>2 DEF Links
  <2> QED
    BY <2>1, <2>2
<1>10. Counts'
  <2>1. Unposted' = Unposted
    BY DEF TakeHead, Unposted
  <2> QED
    BY <1>0, <1>1, <1>3, <2>1, UnpostedFinite DEF TakeHead, Counts, Token, TypeOK
<1>11. OnePlace'
  <2>1. \A i, j \in 1..Len(order') : order'[i] = order'[j] => i = j
    BY <1>0, <1>1, <1>3 DEF OnePlace
  <2>2. \A i \in 1..Len(order') : order'[i] \in asked' /\ order'[i] # got'
    <3>1. \A i \in 1..Len(order') : order'[i] \in asked
      BY <1>0, <1>3, <1>a DEF OnePlace
    <3> QED
      BY <1>2, <1>7, <3>1 DEF TakeHead
  <2>3. head \in asked
    BY <1>0, <1>1, <1>a DEF OnePlace
  <2>4. ASSUME NEW t \in Sessions, Entering(t)'
        PROVE  t \in asked' /\ ~Linked(t)' /\ t # got' /\ next'[t] = NULL
    <3>1. t \in asked /\ ~Linked(t) /\ next[t] = NULL
      BY <1>0, <2>4 DEF TakeHead, OnePlace, Entering
    <3>2. t # head
      BY <1>1, <3>1 DEF Linked
    <3>3. ~Linked(t)'
      BY <1>3, <1>a, <3>1 DEF Linked
    <3>4. next'[t] = NULL
      BY <1>0, <1>1, <1>2, <3>1, <3>2 DEF TypeOK
    <3> QED
      BY <1>2, <3>1, <3>2, <3>3, <3>4 DEF TakeHead
  <2> QED
    BY <1>2, <2>1, <2>2, <2>3, <2>4 DEF OnePlace, TakeHead
<1>12. HandsOver' /\ NullIsSignal'
  BY <1>1, <1>2 DEF TakeHead, HandsOver, NullIsSignal
<1> QED
  BY <1>4, <1>5, <1>9, <1>10, <1>11, <1>12 DEF QueueInv

LEMMA ConsumerPreservesQueueInv ==
  ASSUME QueueInv, Consumer
  PROVE  QueueInv'
<1> USE SessionsAssumption
<1>0. TypeOK /\ MutexInv /\ Links /\ Counts /\ OnePlace
      /\ HandsOver /\ NullIsSignal
  BY DEF QueueInv
<1>a. Cardinality(Unposted) \in Nat /\ Len(order) \in Nat
  BY <1>0, UnpostedFinite, OrderFacts
<1>1. CASE WaitDequeue
  <2>1. Unposted' = Unposted
    BY <1>1 DEF WaitDequeue, Unposted
  <2>2. TypeOK' /\ MutexInv'
    BY <1>0, <1>1 DEF WaitDequeue, TypeOK, MutexInv, Ptr, MainPc, ptrs
  <2>3. Counts'
    BY <1>0, <1>1, <1>a, <2>1 DEF WaitDequeue, Counts, Token, TypeOK
  <2>4. Links' /\ OnePlace' /\ HandsOver' /\ NullIsSignal'
    BY <1>0, <1>1 DEF WaitDequeue, Links, OnePlace, HandsOver, Linked, Entering,
                      NullIsSignal, ptrs
  <2> QED
    BY <2>2, <2>3, <2>4 DEF QueueInv
<1>2. CASE InterruptDequeue
  <2>1. Unposted' = Unposted
    BY <1>2 DEF InterruptDequeue, Unposted
  <2>2. TypeOK'
    BY <1>0, <1>2 DEF InterruptDequeue, TypeOK, Ptr, MainPc, ptrs
  <2>3. MutexInv' /\ Counts'
    BY <1>0, <1>2, <2>1 DEF InterruptDequeue, MutexInv, Counts, Token, ptrs
  <2>4. Links' /\ OnePlace' /\ HandsOver' /\ NullIsSignal'
    BY <1>0, <1>2 DEF InterruptDequeue, Links, OnePlace, HandsOver, Linked, Entering,
                      NullIsSignal, ptrs
  <2> QED
    BY <2>2, <2>3, <2>4 DEF QueueInv
<1>3. CASE LockDequeue
  <2>1. Unposted' = Unposted
    BY <1>3 DEF LockDequeue, Unposted
  <2>2. TypeOK' /\ MutexInv'
    BY <1>0, <1>3 DEF LockDequeue, TypeOK, MutexInv, Ptr, MainPc, ptrs
  <2>3. Counts'
    BY <1>0, <1>3, <2>1 DEF LockDequeue, Counts, Token, ptrs
  <2>4. Links' /\ OnePlace' /\ HandsOver' /\ NullIsSignal'
    BY <1>0, <1>3 DEF LockDequeue, Links, OnePlace, HandsOver, Linked, Entering,
                      NullIsSignal, ptrs
  <2> QED
    BY <2>2, <2>3, <2>4 DEF QueueInv
<1>4. CASE TakeHead
  BY <1>4, TakeHeadPreservesQueueInv
<1>5. CASE UnlockDequeue
  <2>1. Unposted' = Unposted
    BY <1>5 DEF UnlockDequeue, Unposted
  <2>2. got # NULL /\ mpc' = "work"
    BY <1>0, <1>5 DEF UnlockDequeue, HandsOver
  <2>3. TypeOK' /\ MutexInv'
    BY <1>0, <1>5, <2>2 DEF UnlockDequeue, TypeOK, MutexInv, Ptr, MainPc, ptrs
  <2>4. Counts'
    BY <1>0, <1>5, <2>1, <2>2 DEF UnlockDequeue, Counts, Token, ptrs
  <2>5. Links' /\ OnePlace' /\ HandsOver' /\ NullIsSignal'
    BY <1>0, <1>5, <2>2 DEF UnlockDequeue, Links, OnePlace, HandsOver, Linked,
                            Entering, NullIsSignal, ptrs
  <2> QED
    BY <2>3, <2>4, <2>5 DEF QueueInv
<1>6. CASE AnswerLogin
  <2>1. Unposted' = Unposted
    BY <1>6 DEF AnswerLogin, Unposted
  <2>2. TypeOK' /\ MutexInv'
    BY <1>0, <1>6 DEF AnswerLogin, TypeOK, MutexInv, Ptr, MainPc, ptrs
  <2>3. Counts'
    BY <1>0, <1>6, <2>1 DEF AnswerLogin, Counts, Token, ptrs
  <2>4. Links' /\ HandsOver' /\ NullIsSignal'
    BY <1>0, <1>6 DEF AnswerLogin, Links, HandsOver, NullIsSignal, ptrs
  <2>5. \A i \in 1..Len(order) : order[i] \in Sessions
    BY <1>0, OrderFacts
  <2>6. OnePlace'
    BY <1>0, <1>6, <2>5 DEF AnswerLogin, OnePlace, Linked, Entering, ptrs
  <2> QED
    BY <2>2, <2>3, <2>4, <2>6 DEF QueueInv
<1> QED
  BY <1>1, <1>2, <1>3, <1>4, <1>5, <1>6 DEF Consumer

LEMMA StutterPreservesQueueInv ==
  ASSUME QueueInv, UNCHANGED vars
  PROVE  QueueInv'
BY DEF vars, QueueInv, TypeOK, MutexInv, Links, Counts, Unposted, Token,
       OnePlace, Linked, Entering, HandsOver, NullIsSignal, Ptr

-----------------------------------------------------------------------------
(* Types and mutual exclusion do not depend on what the clients send: they *)
(* hold of a list that a repeated request has cut or closed to a cycle.    *)
LEMMA StepKeepsTypes ==
  ASSUME TypeOK, MutexInv, [Next]_vars
  PROVE  TypeOK' /\ MutexInv'
<1> USE SessionsAssumption
<1>1. ASSUME NEW s \in Sessions, Worker(s)
      PROVE  TypeOK' /\ MutexInv'
  <2>1. CASE BeginEnqueue(s)
    BY <2>1 DEF BeginEnqueue, TypeOK, MutexInv, Ptr, WorkerPc
  <2>2. CASE LockEnqueue(s)
    BY <2>2 DEF LockEnqueue, TypeOK, MutexInv, Ptr, WorkerPc, ptrs
  <2>3. CASE LinkSession(s)
    <3>1. order' \in Seq(Sessions)
      BY <2>3 DEF LinkSession, TypeOK
    <3>2. head' \in Ptr /\ next' \in [Sessions -> Ptr]
      BY <2>3 DEF LinkSession, TypeOK, Ptr
    <3> QED
      BY <2>3, <3>1, <3>2 DEF LinkSession, TypeOK, MutexInv, Ptr, WorkerPc
  <2>4. CASE UnlockEnqueue(s)
    BY <2>4 DEF UnlockEnqueue, TypeOK, MutexInv, Ptr, WorkerPc, ptrs
  <2>5. CASE PostEnqueue(s)
    BY <2>5 DEF PostEnqueue, TypeOK, MutexInv, Ptr, WorkerPc, ptrs
  <2> QED
    BY <1>1, <2>1, <2>2, <2>3, <2>4, <2>5 DEF Worker
<1>2. CASE WaitDequeue
  BY <1>2 DEF WaitDequeue, TypeOK, MutexInv, MainPc, ptrs
<1>3. CASE InterruptDequeue
  BY <1>3 DEF InterruptDequeue, TypeOK, MutexInv, MainPc, ptrs
<1>4. CASE LockDequeue
  BY <1>4 DEF LockDequeue, TypeOK, MutexInv, MainPc, Ptr, ptrs
<1>5. CASE TakeHead
  <2>1. CASE head = NULL
    BY <1>5, <2>1 DEF TakeHead, TypeOK, MutexInv, MainPc, ptrs
  <2>2. CASE head # NULL
    <3>1. order' \in Seq(Sessions)
      BY <1>5, <2>2, HeadTailProperties DEF TakeHead, TypeOK
    <3>2. head \in Sessions /\ next[head] \in Ptr
      BY <2>2 DEF TypeOK, Ptr
    <3>3. /\ head' \in Ptr
          /\ tail' \in Ptr
          /\ next' \in [Sessions -> Ptr]
      BY <1>5, <2>2, <3>2 DEF TakeHead, TypeOK, Ptr
    <3> QED
      BY <1>5, <3>1, <3>3 DEF TakeHead, TypeOK, MutexInv, MainPc
  <2> QED
    BY <2>1, <2>2
<1>6. CASE UnlockDequeue
  BY <1>6 DEF UnlockDequeue, TypeOK, MutexInv, MainPc, Ptr, ptrs
<1>7. CASE AnswerLogin
  BY <1>7 DEF AnswerLogin, TypeOK, MutexInv, MainPc, Ptr, ptrs
<1>8. CASE LoopEnded \/ UNCHANGED vars
  BY <1>8 DEF LoopEnded, vars, TypeOK, MutexInv
<1> QED
  BY <1>1, <1>2, <1>3, <1>4, <1>5, <1>6, <1>7, <1>8 DEF Next, Consumer

(* Requests are counted, never forgotten. *)
LEMMA RepeatsCounted ==
  ASSUME TypeOK, [Next]_vars, AskedOnce'
  PROVE  AskedOnce /\ UNCHANGED repeats
<1>1. CASE \E s \in Sessions : BeginEnqueue(s)
  BY <1>1 DEF BeginEnqueue, AskedOnce, TypeOK
<1>2. CASE ~(\E s \in Sessions : BeginEnqueue(s))
  BY <1>2 DEF Next, Worker, LockEnqueue, LinkSession, UnlockEnqueue, PostEnqueue, Consumer,
              WaitDequeue, InterruptDequeue, LockDequeue, TakeHead, UnlockDequeue,
              AnswerLogin, LoopEnded, vars, AskedOnce
<1> QED
  BY <1>1, <1>2

(* As long as no client has repeated its AUTH_REQ, the list of sqmp.c is   *)
(* well formed, the semaphore counts its sessions and the main thread is   *)
(* handed NULL by a signal alone, however many callbacks call              *)
(* auth_queue_enqueue at the same time; types and mutual exclusion hold in *)
(* any case.                                                               *)
THEOREM QueueCorrect ==
  Spec => []SafeInv
<1>1. Init => SafeInv
  BY InitEstablishesQueueInv DEF SafeInv, QueueInv
<1>2. SafeInv /\ [Next]_vars => SafeInv'
  <2> SUFFICES ASSUME SafeInv, [Next]_vars PROVE SafeInv'
    OBVIOUS
  <2>1. TypeOK' /\ MutexInv'
    BY StepKeepsTypes DEF SafeInv
  <2>2. ASSUME AskedOnce' PROVE QueueInv'
    <3>1. QueueInv /\ UNCHANGED repeats
      BY <2>2, RepeatsCounted DEF SafeInv
    <3>2. CASE \E s \in Sessions : Worker(s)
      BY <3>1, <3>2, WorkerPreservesQueueInv
    <3>3. CASE Consumer
      BY <3>1, <3>3, ConsumerPreservesQueueInv
    <3>4. CASE LoopEnded \/ UNCHANGED vars
      BY <3>1, <3>4, StutterPreservesQueueInv DEF LoopEnded
    <3> QED
      BY <3>2, <3>3, <3>4 DEF Next
  <2> QED
    BY <2>1, <2>2 DEF SafeInv
<1> QED
  BY <1>1, <1>2, PTL DEF Spec

(* The globals and the next fields of sqmp.c keep their types, also after  *)
(* a repeated request. *)
THEOREM QueueTypes ==
  Spec => []TypeOK
<1>1. SafeInv => TypeOK
  BY DEF SafeInv
<1> QED
  BY <1>1, QueueCorrect, PTL

(* Two threads are never between pthread_mutex_lock and unlock together.   *)
THEOREM CriticalSectionsExclude ==
  Spec => []MutexInv
<1>1. SafeInv => MutexInv
  BY DEF SafeInv
<1> QED
  BY <1>1, QueueCorrect, PTL

(* No session that auth_queue_enqueue linked is lost, repeated or moved,   *)
(* unless some client has repeated its AUTH_REQ.                           *)
THEOREM ListIsTheQueue ==
  Spec => []ListShape
<1>1. SafeInv => ListShape
  BY DEF SafeInv, QueueInv, ListShape
<1> QED
  BY <1>1, QueueCorrect, PTL

(* g_auth_queue_sem wakes main once for every session in the list, unless  *)
(* some client has repeated its AUTH_REQ.                                  *)
THEOREM SemaphoreCounts ==
  Spec => []SemCountsSessions
<1>1. SafeInv => SemCountsSessions
  BY DEF SafeInv, QueueInv, SemCountsSessions
<1> QED
  BY <1>1, QueueCorrect, PTL

(* sqmp_auth_queue_dequeue returns NULL only if interrupted (sqmp.c:32) or *)
(* if a client has sent AUTH_REQ again before its answer: the exception    *)
(* that the comment lacks is the only one.                                 *)
THEOREM DequeueContract ==
  Spec => []NullOnlyIfInterrupted
<1>1. SafeInv => NullOnlyIfInterrupted
  BY DEF SafeInv, QueueInv, NullIsSignal, NullOnlyIfInterrupted
<1> QED
  BY <1>1, QueueCorrect, PTL

-----------------------------------------------------------------------------
(* The linked list with its mutex and its semaphore implements the queue   *)
(* of module Fifo: linking a session is Enqueue, taking the head is        *)
(* Dequeue, and every other step changes nothing that Fifo sees.           *)
LEMMA StepRefinesFifo ==
  ASSUME QueueInv, [Next]_vars
  PROVE  [Abstract!Next]_<<order, got>>
<1>0. TypeOK /\ Links /\ OnePlace /\ HandsOver
  BY DEF QueueInv
<1>1. ASSUME NEW s \in Sessions, Worker(s)
      PROVE  [Abstract!Next]_<<order, got>>
  <2>1. CASE LinkSession(s)
    <3>1. \A i \in 1..Len(order) : order[i] # s
      BY <1>0, <2>1 DEF LinkSession, OnePlace, Linked, Entering
    <3>2. Abstract!Enqueue(s)
      BY <2>1, <3>1 DEF LinkSession, Abstract!Enqueue
    <3> QED
      BY <3>2 DEF Abstract!Next
  <2>2. CASE ~LinkSession(s)
    BY <1>1, <2>2 DEF Worker, BeginEnqueue, LockEnqueue, UnlockEnqueue, PostEnqueue
  <2> QED
    BY <2>1, <2>2
<1>2. CASE TakeHead
  <2>1. /\ order # << >>
        /\ head = order[1]
        /\ head \in Sessions
    BY <1>2, TokenFindsSession DEF TakeHead
  <2>2. Head(order) = order[1]
    BY <1>0, <2>1 DEF TypeOK
  <2>3. Abstract!Dequeue
    BY <1>2, <2>1, <2>2, SessionsAssumption DEF TakeHead, Abstract!Dequeue
  <2> QED
    BY <2>3 DEF Abstract!Next
<1>3. CASE AnswerLogin
  <2>1. Abstract!Release
    BY <1>0, <1>3 DEF AnswerLogin, HandsOver, Abstract!Release
  <2> QED
    BY <2>1 DEF Abstract!Next
<1>4. CASE WaitDequeue \/ InterruptDequeue \/ LockDequeue \/ UnlockDequeue
  BY <1>4 DEF WaitDequeue, InterruptDequeue, LockDequeue, UnlockDequeue
<1>5. CASE LoopEnded \/ UNCHANGED vars
  BY <1>5 DEF LoopEnded, vars
<1> QED
  BY <1>1, <1>2, <1>3, <1>4, <1>5 DEF Next, Consumer

THEOREM QueueImplementsFifo ==
  Spec => ImplementsFifo
<1>1. Init => Abstract!Init
  BY DEF Init, Abstract!Init
<1>2. SafeInv /\ [Next]_vars => [Abstract!Next \/ ~AskedOnce']_<<order, got>>
  <2> SUFFICES ASSUME SafeInv, [Next]_vars, AskedOnce'
               PROVE  [Abstract!Next]_<<order, got>>
    OBVIOUS
  <2>1. QueueInv
    BY RepeatsCounted DEF SafeInv
  <2> QED
    BY <2>1, StepRefinesFifo
<1> QED
  BY <1>1, <1>2, QueueCorrect, PTL DEF Spec, ImplementsFifo
=============================================================================
