------------------------ MODULE SemaphoreServerProofs ------------------------
(***************************************************************************)
(* Theorems about SemaphoreServer (semaphores.c) for any finite sets of    *)
(* producers and consumers and any numbers of slots and requests.  At the  *)
(* centre is SlotsAccounted: every step that moves a thread into or out of *)
(* one of its sets changes a semaphore or a request counter to match.  A   *)
(* thread at "put" or "get" is itself counted, so the slot it is about to  *)
(* use is free, or holds a request.                                        *)
(***************************************************************************)
EXTENDS SemaphoreServer, Lemmas, FiniteSetTheorems

USE SemaphoreServerAssumption

----------------------------------------------------------------------------
(* Counting the threads at some places *)

In(place, places) == IF place \in places THEN 1 ELSE 0

(* A thread that moves is counted where it arrives, not where it was. *)
LEMMA MoveCount ==
  ASSUME NEW S, IsFiniteSet(S), NEW T, S \subseteq T, NEW f, DOMAIN f = T,
         NEW t \in S, NEW to, NEW X,
         NEW g, g = [f EXCEPT ![t] = to]
  PROVE  LET A == {u \in S : f[u] \in X}
             B == {u \in S : g[u] \in X}
         IN  /\ Cardinality(A) \in Nat /\ Cardinality(B) \in Nat
             /\ Cardinality(B) = Cardinality(A) + In(to, X) - In(f[t], X)
<1> DEFINE A == {u \in S : f[u] \in X}
           B == {u \in S : g[u] \in X}
<1>1. IsFiniteSet(A) /\ IsFiniteSet(B)
  BY FS_Subset
<1>2. Cardinality(A) \in Nat /\ Cardinality(B) \in Nat
  BY <1>1, FS_CardinalityType
<1>3. f[t] \in X <=> to \in X  =>  Cardinality(B) = Cardinality(A)
  <2>1. f[t] \in X <=> to \in X  =>  A = B
    OBVIOUS
  <2> QED
    BY <2>1
<1>4. f[t] \notin X /\ to \in X => Cardinality(B) = Cardinality(A) + 1
  <2> SUFFICES ASSUME f[t] \notin X, to \in X PROVE Cardinality(B) = Cardinality(A) + 1
    OBVIOUS
  <2>1. B = A \cup {t} /\ t \notin A
    OBVIOUS
  <2> QED
    BY <1>1, <2>1, FS_AddElement
<1>5. f[t] \in X /\ to \notin X => Cardinality(A) = Cardinality(B) + 1
  <2> SUFFICES ASSUME f[t] \in X, to \notin X PROVE Cardinality(A) = Cardinality(B) + 1
    OBVIOUS
  <2>1. A = B \cup {t} /\ t \notin B
    OBVIOUS
  <2> QED
    BY <1>1, <2>1, FS_AddElement
<1> HIDE DEF A, B
<1>6. Cardinality(B) = Cardinality(A) + In(to, X) - In(f[t], X)
  BY <1>2, <1>3, <1>4, <1>5 DEF In
<1> QED
  BY <1>2, <1>6 DEF A, B

(* The sets of SlotsAccounted. *)
FullP  == {"unlock", "post_full"}
FullC  == {"relock", "get"}
EmptyP == {"wait_mutex", "decide", "put", "exit_unlock", "exit_post"}
EmptyC == {"unlock", "post_empty"}
Left   == {"done"}

nFullP  == Cardinality(At(Producers, FullP))
nFullC  == Cardinality(At(Consumers, FullC))
nEmptyP == Cardinality(At(Producers, EmptyP))
nEmptyC == Cardinality(At(Consumers, EmptyC))
nLeft   == Cardinality(At(Consumers, Left))

CountsType == /\ nFullP \in Nat /\ nFullC \in Nat /\ nEmptyP \in Nat
              /\ nEmptyC \in Nat /\ nLeft \in Nat

LEMMA CountsAreNat == CountsType
  BY FS_Subset, FS_CardinalityType
     DEF CountsType, At, nFullP, nFullC, nEmptyP, nEmptyC, nLeft

(* SlotsAccounted in these terms. *)
Accounts == /\ full_slots + nFullP + nFullC = count + nLeft
            /\ empty_slots + nEmptyP + nEmptyC = QUEUE_SIZE - count

LEMMA Accounted == SlotsAccounted <=> Accounts
  BY DEF Accounts, SlotsAccounted, FullP, FullC, EmptyP, EmptyC, Left,
         nFullP, nFullC, nEmptyP, nEmptyC, nLeft

(* Who stands at a place is counted. *)
LEMMA Counted ==
  ASSUME NEW S, IsFiniteSet(S), NEW X, NEW t \in S, pc[t] \in X
  PROVE  Cardinality(At(S, X)) > 0
<1>1. IsFiniteSet(At(S, X)) /\ At(S, X) # {}
  BY FS_Subset DEF At
<1> QED
  BY <1>1, FS_EmptySet, FS_CardinalityType

LEMMA ProducerCounts ==
  ASSUME pc \in [Threads -> ProducerPlaces \cup ConsumerPlaces],
         NEW p \in Producers, NEW from, NEW to, Goto(p, from, to)
  PROVE  /\ nFullP'  = nFullP + In(to, FullP) - In(from, FullP)
         /\ nEmptyP' = nEmptyP + In(to, EmptyP) - In(from, EmptyP)
         /\ UNCHANGED <<nFullC, nEmptyC, nLeft>>
<1>1. /\ Producers \subseteq Threads /\ DOMAIN pc = Threads /\ IsFiniteSet(Producers)
      /\ pc' = [pc EXCEPT ![p] = to] /\ pc[p] = from
  BY DEF Threads, Goto
<1>2. nFullP' = nFullP + In(to, FullP) - In(from, FullP)
  BY <1>1, MoveCount DEF nFullP, At
<1>3. nEmptyP' = nEmptyP + In(to, EmptyP) - In(from, EmptyP)
  BY <1>1, MoveCount DEF nEmptyP, At
<1>4. \A c \in Consumers : pc'[c] = pc[c]
  BY <1>1 DEF Threads
<1> QED
  BY <1>2, <1>3, <1>4 DEF nFullC, nEmptyC, nLeft, At

LEMMA ConsumerCounts ==
  ASSUME pc \in [Threads -> ProducerPlaces \cup ConsumerPlaces],
         NEW c \in Consumers, NEW from, NEW to, Goto(c, from, to)
  PROVE  /\ nFullC'  = nFullC + In(to, FullC) - In(from, FullC)
         /\ nEmptyC' = nEmptyC + In(to, EmptyC) - In(from, EmptyC)
         /\ nLeft'   = nLeft + In(to, Left) - In(from, Left)
         /\ UNCHANGED <<nFullP, nEmptyP>>
<1>1. /\ Consumers \subseteq Threads /\ DOMAIN pc = Threads /\ IsFiniteSet(Consumers)
      /\ pc' = [pc EXCEPT ![c] = to] /\ pc[c] = from
  BY DEF Threads, Goto
<1>2. nFullC' = nFullC + In(to, FullC) - In(from, FullC)
  BY <1>1, MoveCount DEF nFullC, At
<1>3. nEmptyC' = nEmptyC + In(to, EmptyC) - In(from, EmptyC)
  BY <1>1, MoveCount DEF nEmptyC, At
<1>4. nLeft' = nLeft + In(to, Left) - In(from, Left)
  BY <1>1, MoveCount DEF nLeft, At
<1>5. \A p \in Producers : pc'[p] = pc[p]
  BY <1>1 DEF Threads
<1> QED
  BY <1>2, <1>3, <1>4, <1>5 DEF nFullP, nEmptyP, At

----------------------------------------------------------------------------
(* The inductive invariant *)

(* At most one thread is inside mutex, and none if its value is 1. *)
MutualExclusion ==
  /\ \A t, u \in Threads : pc[t] \in InCritical /\ pc[u] \in InCritical => t = u
  /\ mutex = 1 => \A t \in Threads : pc[t] \notin InCritical

(* A producer puts only while there are requests to issue, a consumer      *)
(* leaves only when all are consumed, and by then all were issued.         *)
PhasesJustified ==
  /\ \A p \in Producers : pc[p] = "put" => next_request_id <= NUM_REQUESTS
  /\ \A c \in Consumers : pc[c] \in {"exit_unlock", "exit_post", "done"}
                            => requests_consumed >= NUM_REQUESTS
  /\ requests_consumed >= NUM_REQUESTS => next_request_id = NUM_REQUESTS + 1

(* The waiting requests are in the slots of their numbers; those before    *)
(* them were served, and what is served after the last may be anything.    *)
RingConsistent ==
  /\ input_index = Slot(next_request_id - 1, QUEUE_SIZE)
  /\ output_index = Slot(requests_consumed, QUEUE_SIZE)
  /\ Holds(buffer, QUEUE_SIZE, requests_consumed, next_request_id - 1)
  /\ Len(served) = requests_consumed
  /\ \A i \in 1 .. requests_consumed : i <= NUM_REQUESTS => served[i] = i

IInv ==
  /\ TypeOK
  /\ MutualExclusion
  /\ PhasesJustified
  /\ RingConsistent
  /\ SlotsAccounted

(* What a thread may rely on at put() and get() follows. *)
LEMMA IInvTrusted ==
  ASSUME IInv
  PROVE  SlotsTrusted /\ OverrunBounded
<1> USE DEF IInv
<1>1. CountsType
  BY CountsAreNat
<1>2. /\ full_slots + nFullP + nFullC = count + nLeft
      /\ empty_slots + nEmptyP + nEmptyC = QUEUE_SIZE - count
  BY Accounted DEF Accounts
<1>3. full_slots \in Nat /\ empty_slots \in Nat /\ count \in Int
  BY DEF TypeOK, count
<1>4. ASSUME NEW p \in Producers, pc[p] = "put" PROVE count < QUEUE_SIZE
  <2>1. nEmptyP > 0
    BY <1>4, Counted DEF nEmptyP, EmptyP
  <2> QED
    BY <1>1, <1>2, <1>3, <2>1 DEF CountsType
<1>5. ASSUME NEW c \in Consumers, pc[c] = "get", requests_consumed < NUM_REQUESTS
      PROVE  count > 0
  <2>1. nFullC > 0
    BY <1>5, Counted DEF nFullC, FullC
  <2>2. At(Consumers, Left) = {}
    BY <1>5 DEF PhasesJustified, TypeOK, At, Left
  <2>3. nLeft = 0
    BY <2>2, FS_EmptySet DEF nLeft
  <2> QED
    BY <1>1, <1>2, <1>3, <2>1, <2>3 DEF CountsType
<1>6. requests_consumed < next_request_id + nLeft
  BY <1>1, <1>2, <1>3 DEF CountsType, count, TypeOK
<1> QED
  BY <1>4, <1>5, <1>6 DEF SlotsTrusted, OverrunBounded, nLeft, Left

LEMMA InitIInv == Init => IInv
<1> SUFFICES ASSUME Init PROVE IInv
  OBVIOUS
<1> USE DEF Init
<1>1. TypeOK
  BY DEF TypeOK, Slots, Threads, ProducerPlaces, ConsumerPlaces
<1>2. MutualExclusion
  BY DEF MutualExclusion, InCritical, Threads
<1>3. PhasesJustified
  BY DEF PhasesJustified, Threads
<1>4. RingConsistent
  <2>1. Slot(0, QUEUE_SIZE) = 0
    BY SlotZero
  <2>2. Holds(buffer, QUEUE_SIZE, 0, 0)
    BY DEF Holds
  <2> QED
    BY <2>1, <2>2 DEF RingConsistent
<1>5. SlotsAccounted
  <2>1. /\ At(Producers, FullP) = {} /\ At(Consumers, FullC) = {}
        /\ At(Producers, EmptyP) = {} /\ At(Consumers, EmptyC) = {} /\ At(Consumers, Left) = {}
    BY DEF At, FullP, FullC, EmptyP, EmptyC, Left, Threads
  <2>2. nFullP = 0 /\ nFullC = 0 /\ nEmptyP = 0 /\ nEmptyC = 0 /\ nLeft = 0
    BY <2>1, FS_EmptySet DEF nFullP, nFullC, nEmptyP, nEmptyC, nLeft
  <2> QED
    BY <2>2, Accounted DEF Accounts, count
<1> QED
  BY <1>1, <1>2, <1>3, <1>4, <1>5 DEF IInv

(* A step of one thread that changes at most the semaphores keeps the      *)
(* invariant if it keeps the accounts and enters and leaves the critical   *)
(* section with mutex.                                                     *)
LEMMA ControlStep ==
  ASSUME IInv, NEW t \in Threads, NEW from, NEW to,
         Goto(t, from, to), UNCHANGED <<shared, main>>,
         t \in Producers => to \in ProducerPlaces,
         t \in Consumers => to \in ConsumerPlaces,
         empty_slots' \in Nat, full_slots' \in Nat,
         \/ mutex' = mutex /\ (to \in InCritical => from \in InCritical)
         \/ mutex = 1 /\ mutex' = 0
         \/ mutex' = mutex + 1 /\ from \in InCritical /\ to \notin InCritical,
         t \in Producers /\ to = "put" => next_request_id <= NUM_REQUESTS,
         t \in Consumers /\ to \in {"exit_unlock", "exit_post", "done"}
           => requests_consumed >= NUM_REQUESTS,
         SlotsAccounted'
  PROVE  IInv'
<1> USE DEF IInv, Goto, shared, ring
<1>1. mutex' \in {0, 1}
  BY DEF MutualExclusion, TypeOK
<1>2. TypeOK'
  BY <1>1 DEF TypeOK, Threads
<1>3. MutualExclusion'
  BY DEF MutualExclusion, TypeOK
<1>4. PhasesJustified'
  BY DEF PhasesJustified, TypeOK, Threads
<1>5. RingConsistent'
  BY DEF RingConsistent
<1> QED
  BY <1>2, <1>3, <1>4, <1>5

(* Such a step keeps the accounts if it moves a token between a semaphore  *)
(* and a thread.                                                           *)
LEMMA ProducerAccounts ==
  ASSUME IInv, NEW p \in Producers, NEW from, NEW to,
         Goto(p, from, to), UNCHANGED <<shared, main>>,
         empty_slots' \in Nat, full_slots' \in Nat,
         full_slots' + In(to, FullP) = full_slots + In(from, FullP),
         empty_slots' + In(to, EmptyP) = empty_slots + In(from, EmptyP)
  PROVE  SlotsAccounted'
<1>1. CountsType /\ CountsType'
  BY CountsAreNat, PTL
<1>2. /\ full_slots + nFullP + nFullC = count + nLeft
      /\ empty_slots + nEmptyP + nEmptyC = QUEUE_SIZE - count
  BY Accounted DEF IInv, Accounts
<1>3. /\ nFullP' = nFullP + In(to, FullP) - In(from, FullP)
      /\ nEmptyP' = nEmptyP + In(to, EmptyP) - In(from, EmptyP)
      /\ UNCHANGED <<nFullC, nEmptyC, nLeft>>
  BY ProducerCounts DEF IInv, TypeOK
<1>4. full_slots \in Nat /\ empty_slots \in Nat /\ count \in Int /\ count' = count
  BY DEF IInv, TypeOK, count, shared
<1>5. In(to, FullP) \in Int /\ In(from, FullP) \in Int /\ In(to, EmptyP) \in Int /\ In(from, EmptyP) \in Int
  BY DEF In
<1>6. full_slots' + nFullP' = full_slots + nFullP
  BY <1>1, <1>3, <1>4, <1>5 DEF CountsType
<1>7. empty_slots' + nEmptyP' = empty_slots + nEmptyP
  BY <1>1, <1>3, <1>4, <1>5 DEF CountsType
<1>8. Accounts'
  BY <1>1, <1>2, <1>3, <1>4, <1>6, <1>7 DEF Accounts, CountsType
<1> QED
  BY <1>8, Accounted, PTL

LEMMA ConsumerAccounts ==
  ASSUME IInv, NEW c \in Consumers, NEW from, NEW to,
         Goto(c, from, to), UNCHANGED <<shared, main>>,
         empty_slots' \in Nat, full_slots' \in Nat,
         full_slots' + In(to, FullC) + In(from, Left)
           = full_slots + In(from, FullC) + In(to, Left),
         empty_slots' + In(to, EmptyC) = empty_slots + In(from, EmptyC)
  PROVE  SlotsAccounted'
<1>1. CountsType /\ CountsType'
  BY CountsAreNat, PTL
<1>2. /\ full_slots + nFullP + nFullC = count + nLeft
      /\ empty_slots + nEmptyP + nEmptyC = QUEUE_SIZE - count
  BY Accounted DEF IInv, Accounts
<1>3. /\ nFullC' = nFullC + In(to, FullC) - In(from, FullC)
      /\ nEmptyC' = nEmptyC + In(to, EmptyC) - In(from, EmptyC)
      /\ nLeft' = nLeft + In(to, Left) - In(from, Left)
      /\ UNCHANGED <<nFullP, nEmptyP>>
  BY ConsumerCounts DEF IInv, TypeOK
<1>4. full_slots \in Nat /\ empty_slots \in Nat /\ count \in Int /\ count' = count
  BY DEF IInv, TypeOK, count, shared
<1>5. /\ In(to, FullC) \in Int /\ In(from, FullC) \in Int
      /\ In(to, EmptyC) \in Int /\ In(from, EmptyC) \in Int
      /\ In(to, Left) \in Int /\ In(from, Left) \in Int
  BY DEF In
<1>6. full_slots' + nFullC' - nLeft' = full_slots + nFullC - nLeft
  <2>1. /\ nFullC \in Int /\ nFullC' \in Int /\ nLeft \in Int /\ nLeft' \in Int
        /\ full_slots \in Int /\ full_slots' \in Int
    BY <1>1, <1>4 DEF CountsType
  <2>2. /\ nFullC' = nFullC + In(to, FullC) - In(from, FullC)
        /\ nLeft' = nLeft + In(to, Left) - In(from, Left)
    BY <1>3
  <2> DEFINE a == In(to, FullC)
             b == In(from, FullC)
             x == In(to, Left)
             y == In(from, Left)
             f == full_slots
             g == full_slots'
             n == nFullC
             m == nFullC'
             k == nLeft
             l == nLeft'
  <2>3. /\ a \in Int /\ b \in Int /\ x \in Int /\ y \in Int /\ f \in Int
        /\ g \in Int /\ n \in Int /\ m \in Int /\ k \in Int /\ l \in Int
    BY <1>5, <2>1
  <2>4. g + a + y = f + b + x /\ m = n + a - b /\ l = k + x - y
    BY <2>2
  <2> HIDE DEF a, b, x, y, f, g, n, m, k, l
  <2>5. g + m - l = f + n - k
    BY <2>3, <2>4
  <2> QED
    BY <2>5 DEF f, g, n, m, k, l
<1>7. empty_slots' + nEmptyC' = empty_slots + nEmptyC
  <2>1. nEmptyC \in Int /\ nEmptyC' \in Int /\ empty_slots \in Int
    BY <1>1, <1>4 DEF CountsType
  <2>2. nEmptyC' = nEmptyC + In(to, EmptyC) - In(from, EmptyC)
    BY <1>3
  <2> HIDE DEF In
  <2> QED
    BY <1>5, <2>1, <2>2
<1>8. Accounts'
  BY <1>1, <1>2, <1>3, <1>4, <1>6, <1>7 DEF Accounts, CountsType
<1> QED
  BY <1>8, Accounted, PTL

(* Every step of a producer but put() is one of these. *)
LEMMA ProducerStep ==
  ASSUME IInv, NEW p \in Producers, Producer(p), ~ Produce(p)
  PROVE  IInv'
<1> USE DEF IInv, In, FullP, EmptyP, ProducerPlaces, InCritical, TypeOK,
            sem_wait, sem_post, shared, ring, semaphores
<1> p \in Threads /\ p \notin Consumers
  BY DEF Threads
<1>1. CASE ProducerWaits(p)
  <2>1. SlotsAccounted'
    BY <1>1, ProducerAccounts DEF ProducerWaits, WaitEmpty
  <2> QED
    BY <1>1, <2>1, ControlStep DEF ProducerWaits, WaitEmpty
<1>2. CASE LockMutex(p, "wait_mutex", "decide")
  <2>1. SlotsAccounted'
    BY <1>2, ProducerAccounts DEF LockMutex
  <2> QED
    BY <1>2, <2>1, ControlStep DEF LockMutex
<1>3. CASE ProducerFindsWork(p)
  <2>1. SlotsAccounted'
    BY <1>3, ProducerAccounts DEF ProducerFindsWork, ProducerFinds
  <2> QED
    BY <1>3, <2>1, ControlStep DEF ProducerFindsWork, ProducerFinds
<1>4. CASE ProducerFindsNone(p)
  <2>1. SlotsAccounted'
    BY <1>4, ProducerAccounts DEF ProducerFindsNone, ProducerFinds
  <2> QED
    BY <1>4, <2>1, ControlStep DEF ProducerFindsNone, ProducerFinds
<1>5. CASE UnlockMutex(p, "exit_unlock", "exit_post")
  <2>1. SlotsAccounted'
    BY <1>5, ProducerAccounts DEF UnlockMutex
  <2> QED
    BY <1>5, <2>1, ControlStep DEF UnlockMutex
<1>6. CASE ProducerLeaves(p)
  <2>1. SlotsAccounted'
    BY <1>6, ProducerAccounts DEF ProducerLeaves, PostEmpty
  <2> QED
    BY <1>6, <2>1, ControlStep DEF ProducerLeaves, PostEmpty
<1>7. CASE UnlockMutex(p, "unlock", "post_full")
  <2>1. SlotsAccounted'
    BY <1>7, ProducerAccounts DEF UnlockMutex
  <2> QED
    BY <1>7, <2>1, ControlStep DEF UnlockMutex
<1>8. CASE PostFull(p, "post_full", "wait_empty")
  <2>1. SlotsAccounted'
    BY <1>8, ProducerAccounts DEF PostFull
  <2> QED
    BY <1>8, <2>1, ControlStep DEF PostFull
<1> QED
  BY <1>1, <1>2, <1>3, <1>4, <1>5, <1>6, <1>7, <1>8 DEF Producer

(* Every step of a consumer but get() is one of these. *)
LEMMA ConsumerStep ==
  ASSUME IInv, NEW c \in Consumers, Consumer(c), ~ Consume(c)
  PROVE  IInv'
<1> USE DEF IInv, In, FullC, EmptyC, Left, ConsumerPlaces, InCritical, TypeOK,
            sem_wait, sem_post, shared, ring, semaphores
<1> c \in Threads /\ c \notin Producers
  BY DEF Threads
<1>1. CASE LockMutex(c, "wait_mutex", "decide")
  <2>1. SlotsAccounted'
    BY <1>1, ConsumerAccounts DEF LockMutex
  <2> QED
    BY <1>1, <2>1, ControlStep DEF LockMutex
<1>2. CASE ConsumerFindsWork(c)
  <2>1. SlotsAccounted'
    BY <1>2, ConsumerAccounts DEF ConsumerFindsWork, ConsumerFinds
  <2> QED
    BY <1>2, <2>1, ControlStep DEF ConsumerFindsWork, ConsumerFinds
<1>3. CASE ConsumerFindsNone(c)
  <2>1. SlotsAccounted'
    BY <1>3, ConsumerAccounts DEF ConsumerFindsNone, ConsumerFinds
  <2> QED
    BY <1>3, <2>1, ControlStep DEF ConsumerFindsNone, ConsumerFinds
<1>4. CASE UnlockMutex(c, "exit_unlock", "exit_post")
  <2>1. requests_consumed >= NUM_REQUESTS
    BY <1>4 DEF UnlockMutex, Goto, PhasesJustified
  <2>2. SlotsAccounted'
    BY <1>4, <2>1, ConsumerAccounts DEF UnlockMutex
  <2> QED
    BY <1>4, <2>1, <2>2, ControlStep DEF UnlockMutex
<1>5. CASE ConsumerLeaves(c)
  <2>1. requests_consumed >= NUM_REQUESTS
    BY <1>5 DEF ConsumerLeaves, PostFull, Goto, PhasesJustified
  <2>2. SlotsAccounted'
    BY <1>5, <2>1, ConsumerAccounts DEF ConsumerLeaves, PostFull
  <2> QED
    BY <1>5, <2>1, <2>2, ControlStep DEF ConsumerLeaves, PostFull
<1>6. CASE UnlockMutex(c, "decide_unlock", "wait_full")
  <2>1. SlotsAccounted'
    BY <1>6, ConsumerAccounts DEF UnlockMutex
  <2> QED
    BY <1>6, <2>1, ControlStep DEF UnlockMutex
<1>7. CASE WaitFull(c, "wait_full", "relock")
  <2>1. SlotsAccounted'
    BY <1>7, ConsumerAccounts DEF WaitFull
  <2> QED
    BY <1>7, <2>1, ControlStep DEF WaitFull
<1>8. CASE LockMutex(c, "relock", "get")
  <2>1. SlotsAccounted'
    BY <1>8, ConsumerAccounts DEF LockMutex
  <2> QED
    BY <1>8, <2>1, ControlStep DEF LockMutex
<1>9. CASE UnlockMutex(c, "unlock", "post_empty")
  <2>1. SlotsAccounted'
    BY <1>9, ConsumerAccounts DEF UnlockMutex
  <2> QED
    BY <1>9, <2>1, ControlStep DEF UnlockMutex
<1>10. CASE PostEmpty(c, "post_empty", "wait_mutex")
  <2>1. SlotsAccounted'
    BY <1>10, ConsumerAccounts DEF PostEmpty
  <2> QED
    BY <1>10, <2>1, ControlStep DEF PostEmpty
<1> QED
  BY <1>1, <1>2, <1>3, <1>4, <1>5, <1>6, <1>7, <1>8, <1>9, <1>10 DEF Consumer

(* put(): the producer itself is counted in empty_slots' account, so the   *)
(* slot is free and the waiting requests stay where they are.              *)
LEMMA ProduceStep ==
  ASSUME IInv, NEW p \in Producers, Produce(p)
  PROVE  IInv'
<1> USE DEF IInv, Produce, put, Goto
<1>1. /\ pc[p] = "put" /\ p \in Threads /\ p \notin Consumers
      /\ pc' = [pc EXCEPT ![p] = "unlock"]
      /\ UNCHANGED <<output_index, requests_consumed, served, semaphores, main>>
  BY DEF Threads
<1>2. next_request_id \in 1 .. NUM_REQUESTS /\ next_request_id' = next_request_id + 1
  BY <1>1 DEF PhasesJustified, TypeOK
<1>3. count < QUEUE_SIZE
  BY <1>1, IInvTrusted DEF SlotsTrusted
<1>4. TypeOK'
  <2>1. input_index' \in Slots
    BY SlotRange DEF Slots, Slot, TypeOK
  <2> QED
    BY <1>1, <1>2, <2>1 DEF TypeOK, ProducerPlaces, Threads, semaphores
<1>5. MutualExclusion'
  BY <1>1 DEF MutualExclusion, InCritical, TypeOK, semaphores
<1>6. PhasesJustified'
  <2>1. \A q \in Producers : pc'[q] # "put"
    BY <1>1 DEF MutualExclusion, InCritical, TypeOK, Threads
  <2>2. \A c \in Consumers : pc'[c] = pc[c]
    BY <1>1 DEF TypeOK, Threads
  <2> QED
    BY <1>1, <1>2, <2>1, <2>2 DEF PhasesJustified, TypeOK
<1>7. RingConsistent'
  <2> DEFINE n == next_request_id - 1
  <2>1. /\ n \in Nat /\ requests_consumed \in Nat /\ n - requests_consumed < QUEUE_SIZE
        /\ next_request_id = n + 1 /\ next_request_id' - 1 = n + 1
        /\ buffer \in [0 .. QUEUE_SIZE - 1 -> Nat]
    BY <1>2, <1>3 DEF TypeOK, count, Slots
  <2>2. /\ input_index = Slot(n, QUEUE_SIZE)
        /\ Holds(buffer, QUEUE_SIZE, requests_consumed, n)
        /\ buffer' = [buffer EXCEPT ![input_index] = next_request_id]
        /\ input_index' = (input_index + 1) % QUEUE_SIZE
    BY DEF RingConsistent
  <2> HIDE DEF n
  <2>3. Slot(n, QUEUE_SIZE) = input_index /\ input_index' = Slot(n + 1, QUEUE_SIZE)
    BY <2>1, <2>2, SlotSucc
  <2> HIDE DEF IInv, Produce, put, Goto
  <2>4. Holds([buffer EXCEPT ![Slot(n, QUEUE_SIZE)] = n + 1], QUEUE_SIZE, requests_consumed, n + 1)
    BY <2>1, <2>2, HoldsPut, Zenon
  <2>5. buffer' = [buffer EXCEPT ![Slot(n, QUEUE_SIZE)] = n + 1]
    BY <2>1, <2>2, <2>3
  <2> QED
    BY <1>1, <2>1, <2>3, <2>4, <2>5 DEF RingConsistent, IInv
<1>8. SlotsAccounted'
  <2>1. CountsType /\ CountsType'
    BY CountsAreNat, PTL
  <2>2. /\ full_slots + nFullP + nFullC = count + nLeft
        /\ empty_slots + nEmptyP + nEmptyC = QUEUE_SIZE - count
    BY Accounted DEF Accounts
  <2>3. /\ nFullP' = nFullP + In("unlock", FullP) - In("put", FullP)
        /\ nEmptyP' = nEmptyP + In("unlock", EmptyP) - In("put", EmptyP)
        /\ UNCHANGED <<nFullC, nEmptyC, nLeft>>
    BY <1>1, ProducerCounts DEF TypeOK
  <2>4. nFullP' = nFullP + 1 /\ nEmptyP' = nEmptyP - 1
    BY <2>1, <2>3 DEF In, FullP, EmptyP, CountsType
  <2>5. count' = count + 1 /\ count \in Int
    BY <1>1, <1>2 DEF count, TypeOK
  <2>6. full_slots \in Nat /\ empty_slots \in Nat /\ UNCHANGED <<full_slots, empty_slots>>
    BY <1>1 DEF TypeOK, semaphores
  <2> HIDE DEF IInv, Produce, put, Goto
  <2>7. Accounts'
    BY <2>1, <2>2, <2>3, <2>4, <2>5, <2>6 DEF Accounts, CountsType
  <2> QED
    BY <2>7, Accounted, PTL
<1> QED
  BY <1>4, <1>5, <1>6, <1>7, <1>8

(* get(): before the last request the consumer itself is counted in        *)
(* full_slots' account, so its slot holds the oldest waiting request;      *)
(* after the last the ring is empty and get() reads what is there.         *)
LEMMA ConsumeStep ==
  ASSUME IInv, NEW c \in Consumers, Consume(c)
  PROVE  IInv'
<1> USE DEF IInv, Consume, get, Goto
<1>1. /\ pc[c] = "get" /\ c \in Threads /\ c \notin Producers
      /\ pc' = [pc EXCEPT ![c] = "unlock"]
      /\ UNCHANGED <<buffer, input_index, next_request_id, semaphores, main>>
  BY DEF Threads
<1>2. requests_consumed \in Nat /\ requests_consumed' = requests_consumed + 1
  BY DEF TypeOK
<1>3. requests_consumed < NUM_REQUESTS => requests_consumed < next_request_id - 1
  BY <1>1, IInvTrusted DEF SlotsTrusted, count, TypeOK
<1>4. buffer[output_index] \in 0 .. NUM_REQUESTS
  BY DEF TypeOK
<1>5. TypeOK'
  <2>1. output_index' \in Slots
    BY SlotRange DEF Slots, Slot, TypeOK
  <2>2. served' \in Seq(0 .. NUM_REQUESTS)
    BY <1>4 DEF TypeOK
  <2> QED
    BY <1>1, <1>2, <2>1, <2>2 DEF TypeOK, ConsumerPlaces, Threads, semaphores
<1>6. MutualExclusion'
  BY <1>1 DEF MutualExclusion, InCritical, TypeOK, semaphores
<1>7. PhasesJustified'
  BY <1>1, <1>2, <1>3 DEF PhasesJustified, TypeOK, Threads
<1>8. RingConsistent'
  <2>1. output_index' = Slot(requests_consumed', QUEUE_SIZE)
    BY <1>2, SlotSucc DEF RingConsistent, TypeOK, Slot
  <2>2. Holds(buffer, QUEUE_SIZE, requests_consumed + 1, next_request_id - 1)
    BY <1>2 DEF Holds, RingConsistent, TypeOK
  <2>3. requests_consumed < NUM_REQUESTS => buffer[output_index] = requests_consumed + 1
    BY <1>2, <1>3 DEF Holds, RingConsistent, TypeOK
  <2>4. Len(served') = requests_consumed + 1
    BY <1>2, <1>4 DEF RingConsistent, TypeOK
  <2> HIDE DEF IInv, Consume, get, Goto
  <2>5. ASSUME NEW i \in 1 .. requests_consumed + 1, i <= NUM_REQUESTS
        PROVE  served'[i] = i
    <3>1. CASE i <= requests_consumed
      BY <1>2, <1>4, <2>5, <3>1 DEF IInv, Consume, get, RingConsistent, TypeOK
    <3>2. CASE i = requests_consumed + 1
      BY <1>2, <1>4, <2>3, <2>5, <3>2 DEF IInv, Consume, get, RingConsistent, TypeOK
    <3> QED
      BY <1>2, <3>1, <3>2
  <2> QED
    BY <1>1, <1>2, <2>1, <2>2, <2>4, <2>5 DEF RingConsistent, IInv
<1>9. SlotsAccounted'
  <2>1. CountsType /\ CountsType'
    BY CountsAreNat, PTL
  <2>2. /\ full_slots + nFullP + nFullC = count + nLeft
        /\ empty_slots + nEmptyP + nEmptyC = QUEUE_SIZE - count
    BY Accounted DEF Accounts
  <2>3. /\ nFullC' = nFullC + In("unlock", FullC) - In("get", FullC)
        /\ nEmptyC' = nEmptyC + In("unlock", EmptyC) - In("get", EmptyC)
        /\ nLeft' = nLeft + In("unlock", Left) - In("get", Left)
        /\ UNCHANGED <<nFullP, nEmptyP>>
    BY <1>1, ConsumerCounts DEF TypeOK
  <2>4. nFullC' = nFullC - 1 /\ nEmptyC' = nEmptyC + 1 /\ nLeft' = nLeft
    BY <2>1, <2>3 DEF In, FullC, EmptyC, Left, CountsType
  <2>5. count' = count - 1 /\ count \in Int
    BY <1>1, <1>2 DEF count, TypeOK
  <2>6. full_slots \in Nat /\ empty_slots \in Nat /\ UNCHANGED <<full_slots, empty_slots>>
    BY <1>1 DEF TypeOK, semaphores
  <2> HIDE DEF IInv, Consume, get, Goto
  <2>7. Accounts'
    BY <2>1, <2>2, <2>3, <2>4, <2>5, <2>6 DEF Accounts, CountsType
  <2> QED
    BY <2>7, Accounted, PTL
<1> QED
  BY <1>5, <1>6, <1>7, <1>8, <1>9

(* main() and a stuttering step change nothing the invariant speaks of. *)
LEMMA OtherStep ==
  ASSUME IInv, Complete \/ UNCHANGED vars
  PROVE  IInv'
<1>1. UNCHANGED <<shared, semaphores, pc>> /\ main' \in {main, "completed"}
  BY DEF Complete, vars
<1> QED
  BY <1>1 DEF IInv, TypeOK, MutualExclusion, PhasesJustified, RingConsistent,
              SlotsAccounted, At, count, shared, ring, semaphores

LEMMA NextIInv == IInv /\ [Next]_vars => IInv'
<1> SUFFICES ASSUME IInv, [Next]_vars PROVE IInv'
  OBVIOUS
<1>1. ASSUME NEW p \in Producers, Producer(p) PROVE IInv'
  BY <1>1, ProduceStep, ProducerStep
<1>2. ASSUME NEW c \in Consumers, Consumer(c) PROVE IInv'
  BY <1>2, ConsumeStep, ConsumerStep
<1>3. CASE Complete \/ Terminated \/ UNCHANGED vars
  BY <1>3, OtherStep DEF Terminated
<1> QED
  BY <1>1, <1>2, <1>3 DEF Next

(* The strengthened invariant holds in every reachable state. *)
THEOREM Invariance == Spec => []IInv
<1> QED
  BY InitIInv, NextIInv, PTL DEF Spec

----------------------------------------------------------------------------
(* What the runs check *)

(* Type correctness; in particular mutex stays binary. *)
THEOREM TypeCorrect == Spec => []TypeOK
<1>1. IInv => TypeOK
  BY DEF IInv
<1> QED
  BY Invariance, <1>1, PTL

(* The two counting semaphores account for every slot of the ring. *)
THEOREM SlotsAreAccounted == Spec => []SlotsAccounted
<1>1. IInv => SlotsAccounted
  BY DEF IInv
<1> QED
  BY Invariance, <1>1, PTL

(* No put() overwrites a waiting request, no get() before the last request *)
(* reads a slot without one.                                               *)
THEOREM SlotsAreTrusted == Spec => []SlotsTrusted
<1>1. IInv => SlotsTrusted
  BY IInvTrusted
<1> QED
  BY Invariance, <1>1, PTL

(* What is consumed after the last request is bounded by the consumers     *)
(* that have left.                                                         *)
THEOREM OverrunIsBounded == Spec => []OverrunBounded
<1>1. IInv => OverrunBounded
  BY IInvTrusted
<1> QED
  BY Invariance, <1>1, PTL
----------------------------------------------------------------------------
(* The server implements the abstract queue *)

(* Until the last request the ring is the queue of those that follow what  *)
(* was consumed; from then on it is empty.                                 *)
Mapped ==
  /\ requests_consumed < NUM_REQUESTS =>
       /\ count \in Nat
       /\ requests_consumed + count = next_request_id - 1
       /\ pending = Following(requests_consumed, count)
       /\ servedOnce = Following(0, requests_consumed)
  /\ requests_consumed >= NUM_REQUESTS =>
       /\ pending = << >>
       /\ servedOnce = Following(0, NUM_REQUESTS)

LEMMA MappedIs == IInv => Mapped
<1> SUFFICES ASSUME IInv PROVE Mapped
  OBVIOUS
<1> USE DEF IInv
<1>1. /\ requests_consumed \in Nat /\ count \in Int
      /\ requests_consumed + count = next_request_id - 1
      /\ served \in Seq(0 .. NUM_REQUESTS) /\ Len(served) = requests_consumed
      /\ \A i \in 1 .. requests_consumed : i <= NUM_REQUESTS => served[i] = i
  BY DEF TypeOK, RingConsistent, count
<1>2. CASE requests_consumed < NUM_REQUESTS
  <2>1. count >= 0
    <3>1. At(Consumers, Left) = {}
      BY <1>2 DEF PhasesJustified, TypeOK, At, Left
    <3>2. nLeft = 0
      BY <3>1, FS_EmptySet DEF nLeft
    <3>3. CountsType /\ Accounts /\ full_slots \in Nat
      BY CountsAreNat, Accounted DEF TypeOK
    <3> HIDE DEF IInv
    <3> QED
      BY <1>1, <3>2, <3>3 DEF Accounts, CountsType
  <2>2. /\ buffer \in [0 .. QUEUE_SIZE - 1 -> Nat] /\ count \in Nat
        /\ output_index = Slot(requests_consumed, QUEUE_SIZE)
        /\ Holds(buffer, QUEUE_SIZE, requests_consumed, requests_consumed + count)
    <3>1. buffer \in [0 .. QUEUE_SIZE - 1 -> Nat]
      BY DEF TypeOK, Slots
    <3>2. /\ output_index = Slot(requests_consumed, QUEUE_SIZE)
          /\ Holds(buffer, QUEUE_SIZE, requests_consumed, next_request_id - 1)
      BY DEF RingConsistent
    <3> HIDE DEF IInv
    <3> QED
      BY <1>1, <2>1, <3>1, <3>2
  <2>3. Window(buffer, QUEUE_SIZE, Slot(requests_consumed, QUEUE_SIZE), count)
          = Following(requests_consumed, count)
    BY <1>1, <2>2, HoldsRead, Zenon
  <2>4. pending = Following(requests_consumed, count)
    BY <2>2, <2>3 DEF pending, Window
  <2> HIDE DEF IInv
  <2>5. servedOnce = SubSeq(served, 1, requests_consumed)
    BY <1>1, <1>2 DEF servedOnce
  <2>6. servedOnce = Following(0, requests_consumed)
    BY <1>1, <1>2, <2>5 DEF Following
  <2> QED
    BY <1>1, <1>2, <2>2, <2>4, <2>6 DEF Mapped
<1>3. CASE requests_consumed >= NUM_REQUESTS
  <2>1. next_request_id - 1 = NUM_REQUESTS
    BY <1>3 DEF PhasesJustified
  <2> HIDE DEF IInv
  <2>2. count <= 0
    BY <1>1, <1>3, <2>1
  <2>3. 1 .. count = {}
    BY <1>1, <2>2
  <2>4. pending = << >>
    BY <2>3 DEF pending
  <2>5. servedOnce = SubSeq(served, 1, NUM_REQUESTS)
    BY <1>1, <1>3 DEF servedOnce
  <2>6. servedOnce = Following(0, NUM_REQUESTS)
    BY <1>1, <1>3, <2>5 DEF Following
  <2> QED
    BY <1>1, <1>3, <2>4, <2>6 DEF Mapped
<1> QED
  BY <1>1, <1>2, <1>3

LEMMA InitImplements == Init => Queue!Init
  BY DEF Init, Queue!Init, pending, count, servedOnce

(* put() accepts the next request. *)
LEMMA ProduceAccepts ==
  ASSUME IInv, IInv', NEW p \in Producers, Produce(p)
  PROVE  Queue!Accept
<1>1. /\ count < QUEUE_SIZE /\ next_request_id \in 1 .. NUM_REQUESTS
      /\ next_request_id' = next_request_id + 1
      /\ UNCHANGED <<requests_consumed, served>> /\ requests_consumed \in Nat
  BY IInvTrusted DEF IInv, PhasesJustified, SlotsTrusted, TypeOK, Produce, Goto, put
<1>2. requests_consumed < NUM_REQUESTS
  BY <1>1 DEF IInv, PhasesJustified
<1>3. count \in Int /\ count' = count + 1 /\ UNCHANGED servedOnce
  BY <1>1 DEF count, servedOnce
<1>4. Mapped /\ Mapped'
  BY MappedIs, PTL
<1>5. /\ count \in Nat /\ requests_consumed + count + 1 = next_request_id
      /\ pending = Following(requests_consumed, count)
      /\ pending' = Following(requests_consumed, count + 1)
  BY <1>1, <1>2, <1>3, <1>4 DEF Mapped
<1>6. /\ Len(pending) = count
      /\ pending' = Append(pending, next_request_id)
  BY <1>1, <1>5, FollowingSeq, FollowingAppend
<1> QED
  BY <1>1, <1>3, <1>6 DEF Queue!Accept

(* get() serves the oldest request, up to the last one. *)
LEMMA ConsumeServes ==
  ASSUME IInv, IInv', NEW c \in Consumers, Consume(c)
  PROVE  Queue!Serve \/ UNCHANGED Queue!vars
<1>1. /\ requests_consumed' = requests_consumed + 1 /\ requests_consumed \in Nat
      /\ UNCHANGED next_request_id /\ next_request_id \in Nat
  BY DEF IInv, TypeOK, Consume
<1>2. Mapped /\ Mapped'
  BY MappedIs, PTL
<1>3. CASE requests_consumed >= NUM_REQUESTS
  BY <1>1, <1>2, <1>3 DEF Mapped, Queue!vars
<1>4. CASE requests_consumed < NUM_REQUESTS
  <2>1. count > 0 /\ count' = count - 1
    BY <1>1, <1>4, IInvTrusted DEF SlotsTrusted, Consume, Goto, count
  <2>2. /\ count \in Nat
        /\ pending = Following(requests_consumed, count)
        /\ servedOnce = Following(0, requests_consumed)
    BY <1>2, <1>4 DEF Mapped
  <2>3. /\ pending # << >> /\ Head(pending) = requests_consumed + 1
        /\ Tail(pending) = Following(requests_consumed + 1, count - 1)
    BY <1>1, <2>1, <2>2, FollowingTake
  <2>4. Append(servedOnce, Head(pending)) = Following(0, requests_consumed + 1)
    BY <1>1, <2>2, <2>3, ServedAppend
  <2>5. CASE requests_consumed + 1 < NUM_REQUESTS
    BY <1>1, <1>2, <2>1, <2>3, <2>4, <2>5 DEF Mapped, Queue!Serve
  <2>6. CASE requests_consumed + 1 = NUM_REQUESTS
    <3>1. count = 1
      BY <1>1, <1>2, <1>4, <2>1, <2>2, <2>6 DEF Mapped, IInv, TypeOK
    <3>2. Tail(pending) = << >>
      BY <2>3, <3>1 DEF Following
    <3>3. pending' = << >> /\ servedOnce' = Following(0, requests_consumed + 1)
      BY <1>1, <1>2, <2>6 DEF Mapped
    <3> QED
      BY <1>1, <2>3, <2>4, <3>2, <3>3 DEF Queue!Serve
  <2> QED
    BY <1>1, <1>4, <2>5, <2>6
<1> QED
  BY <1>1, <1>3, <1>4

LEMMA NextImplements == IInv /\ IInv' /\ [Next]_vars => [Queue!Next]_(Queue!vars)
<1> SUFFICES ASSUME IInv, IInv', Next \/ UNCHANGED vars
             PROVE  Queue!Next \/ UNCHANGED Queue!vars
  OBVIOUS
<1>1. CASE \E p \in Producers : Produce(p)
  BY <1>1, ProduceAccepts DEF Queue!Next
<1>2. CASE \E c \in Consumers : Consume(c)
  BY <1>2, ConsumeServes DEF Queue!Next
<1>3. CASE /\ ~ \E p \in Producers : Produce(p)
           /\ ~ \E c \in Consumers : Consume(c)
  <2>1. UNCHANGED shared
    BY <1>3 DEF Next, Producer, Consumer, LockMutex, UnlockMutex, WaitEmpty, PostEmpty,
       WaitFull, PostFull, ProducerWaits, ProducerFindsWork, ProducerFindsNone,
       ProducerFinds, ProducerLeaves, ConsumerFindsWork, ConsumerFindsNone,
       ConsumerFinds, ConsumerLeaves, Complete, Terminated, vars
  <2> QED
    BY <2>1 DEF shared, ring, Queue!vars, pending, servedOnce, count
<1> QED
  BY <1>1, <1>2, <1>3

(* Up to the last request the server implements the safety of the abstract *)
(* queue, and no consumption after it undoes that.                         *)
THEOREM Implementation == Spec => Queue!Spec
  BY InitImplements, NextImplements, Invariance, PTL DEF Spec, Queue!Spec
=============================================================================
