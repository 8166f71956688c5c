-------------------------- MODULE LockServerProofs --------------------------
(***************************************************************************)
(* Theorems about LockServer (locks.c) for any numbers of producers,       *)
(* consumers, slots and requests.  They rest on one inductive invariant:   *)
(* the mutex is held by exactly the thread inside, so that a decision made *)
(* under it still holds when it is acted upon; and the indices, the count  *)
(* and the contents of the ring are those that the two request counters    *)
(* determine.                                                              *)
(***************************************************************************)
EXTENDS LockServer, Lemmas

(* A thread is between lock and unlock exactly if it holds the mutex. *)
MutualExclusion == \A t \in Threads : pc[t] \in InCritical <=> lock = t

(* Requests requests_consumed + 1 to next_request_id - 1 are in the ring,  *)
(* each in the slot of its number, and those before them were served.      *)
RingConsistent ==
  /\ count = next_request_id - 1 - requests_consumed
  /\ input_index = Slot(next_request_id - 1, QUEUE_SIZE)
  /\ output_index = Slot(requests_consumed, QUEUE_SIZE)
  /\ Holds(buffer, QUEUE_SIZE, requests_consumed, next_request_id - 1)
  /\ served = Following(0, requests_consumed)

IInv ==
  /\ TypeOK
  /\ MutualExclusion
  /\ RingConsistent
  /\ DecisionsHold
  /\ NoEarlyExit

USE LockServerAssumption

----------------------------------------------------------------------------
(* The inductive invariant *)

LEMMA InitIInv == Init => IInv
<1> SUFFICES ASSUME Init PROVE IInv
  OBVIOUS
<1> USE DEF Init
<1>1. TypeOK
  BY DEF TypeOK, Slots, Threads, ProducerPlaces, ConsumerPlaces
<1>2. MutualExclusion
  BY DEF MutualExclusion, InCritical
<1>3. RingConsistent
  <2>1. Slot(0, QUEUE_SIZE) = 0
    BY SlotZero
  <2>2. Holds(buffer, QUEUE_SIZE, 0, 0)
    BY DEF Holds
  <2>3. Following(0, 0) = << >>
    BY DEF Following
  <2> QED
    BY <2>1, <2>2, <2>3 DEF RingConsistent
<1>4. DecisionsHold /\ NoEarlyExit
  BY DEF DecisionsHold, NoEarlyExit, Threads
<1> QED
  BY <1>1, <1>2, <1>3, <1>4 DEF IInv

(* Steps of the mutex alone, from one place of a loop to another. *)
LEMMA LockStep ==
  ASSUME IInv, NEW t \in Threads, Lock(t)
  PROVE  IInv'
<1> USE DEF IInv, Lock, Goto, shared, ring
<1>1. TypeOK'
  BY DEF TypeOK, ProducerPlaces, ConsumerPlaces, Threads
<1>2. MutualExclusion'
  BY DEF MutualExclusion, TypeOK, InCritical
<1>3. RingConsistent'
  BY DEF RingConsistent
<1>4. DecisionsHold' /\ NoEarlyExit'
  BY DEF DecisionsHold, NoEarlyExit, TypeOK, Threads
<1> QED
  BY <1>1, <1>2, <1>3, <1>4

LEMMA ReleaseStep ==
  ASSUME IInv, NEW t \in Threads, NEW from \in InCritical, NEW to \in {"lock", "done"},
         Release(t, from, to),
         to = "done" /\ t \in Producers => next_request_id > NUM_REQUESTS,
         to = "done" /\ t \in Consumers => requests_consumed >= NUM_REQUESTS
  PROVE  IInv'
<1> USE DEF IInv, Release, Goto, shared, ring
<1>1. TypeOK'
  BY DEF TypeOK, ProducerPlaces, ConsumerPlaces, Threads
<1>2. MutualExclusion'
  BY DEF MutualExclusion, TypeOK, InCritical
<1>3. RingConsistent'
  BY DEF RingConsistent
<1>4. DecisionsHold'
  BY DEF DecisionsHold, TypeOK, Threads
<1>5. NoEarlyExit'
  <2>1. Len(served) = requests_consumed
    BY FollowingSeq DEF RingConsistent, TypeOK
  <2> QED
    BY <2>1 DEF NoEarlyExit, TypeOK, Threads, InCritical
<1> QED
  BY <1>1, <1>2, <1>3, <1>4, <1>5

(* A decision to act puts the thread that holds the mutex at the action. *)
LEMMA DecisionStep ==
  ASSUME IInv, NEW t \in Threads,
         \/ t \in Producers /\ ProducerFindsSpace(t)
         \/ t \in Consumers /\ ConsumerFindsRequest(t)
  PROVE  IInv'
<1> USE DEF IInv, ProducerFindsSpace, ConsumerFindsRequest, Goto, shared, ring
<1>1. TypeOK'
  BY DEF TypeOK, ProducerPlaces, ConsumerPlaces, Threads
<1>2. MutualExclusion'
  BY DEF MutualExclusion, TypeOK, InCritical
<1>3. RingConsistent'
  BY DEF RingConsistent
<1>4. DecisionsHold'
  BY DEF DecisionsHold, TypeOK, Threads
<1>5. NoEarlyExit'
  BY DEF NoEarlyExit, TypeOK, Threads
<1> QED
  BY <1>1, <1>2, <1>3, <1>4, <1>5

(* put() fills the slot that the next request determines.  The mutex keeps *)
(* every other thread from "put" and "get", so no other decision is upset. *)
LEMMA ProduceStep ==
  ASSUME IInv, NEW p \in Producers, Produce(p)
  PROVE  IInv'
<1> USE DEF IInv, Produce, Goto, put, shared, ring
<1>1. next_request_id <= NUM_REQUESTS /\ count < QUEUE_SIZE
  BY DEF DecisionsHold
<1>2. TypeOK'
  <2>1. input_index' \in Slots
    BY ModRange DEF TypeOK, Slots
  <2> QED
    BY <1>1, <2>1 DEF TypeOK, ProducerPlaces, ConsumerPlaces, Threads
<1>3. MutualExclusion'
  BY DEF MutualExclusion, TypeOK, InCritical, Threads
<1>4. RingConsistent'
  <2> DEFINE n == next_request_id - 1
  <2>1. n \in Nat /\ n' = n + 1 /\ next_request_id = n + 1 /\ n - requests_consumed < QUEUE_SIZE
    BY <1>1 DEF TypeOK, RingConsistent
  <2>2. input_index = Slot(n, QUEUE_SIZE) /\ Holds(buffer, QUEUE_SIZE, requests_consumed, n)
    BY DEF RingConsistent
  <2>3. buffer \in [0 .. QUEUE_SIZE - 1 -> Nat] /\ requests_consumed \in Nat
    BY DEF TypeOK, Slots
  <2>4. buffer' = [buffer EXCEPT ![Slot(n, QUEUE_SIZE)] = n + 1]
    BY <2>1, <2>2
  <2> HIDE DEF n
  <2> HIDE DEF IInv, Produce
  <2>5. Holds([buffer EXCEPT ![Slot(n, QUEUE_SIZE)] = n + 1], QUEUE_SIZE, requests_consumed, n + 1)
    BY <2>1, <2>2, <2>3, HoldsPut, Zenon
  <2>6. (Slot(n, QUEUE_SIZE) + 1) % QUEUE_SIZE = Slot(n + 1, QUEUE_SIZE)
    BY <2>1, SlotSucc
  <2> QED
    BY <2>1, <2>2, <2>4, <2>5, <2>6 DEF IInv, Produce, RingConsistent, TypeOK, n
<1>5. DecisionsHold' /\ NoEarlyExit'
  BY DEF DecisionsHold, NoEarlyExit, MutualExclusion, InCritical, TypeOK, Threads
<1> QED
  BY <1>2, <1>3, <1>4, <1>5

(* get() reads the slot that the requests consumed so far determine, and   *)
(* finds the oldest request there.                                         *)
LEMMA ConsumeStep ==
  ASSUME IInv, NEW c \in Consumers, Consume(c)
  PROVE  IInv'
<1> USE DEF IInv, Consume, Goto, get, shared, ring
<1>1. requests_consumed < NUM_REQUESTS /\ count > 0
  BY DEF DecisionsHold
<1>2. RingConsistent'
  <2> DEFINE k == requests_consumed
  <2>1. k \in Nat /\ k' = k + 1 /\ k < next_request_id - 1
    BY <1>1 DEF TypeOK, RingConsistent
  <2>2. /\ output_index = Slot(k, QUEUE_SIZE)
        /\ Holds(buffer, QUEUE_SIZE, k, next_request_id - 1)
        /\ served = Following(0, k)
    BY DEF RingConsistent
  <2>3. buffer[output_index] = k + 1 /\ Holds(buffer, QUEUE_SIZE, k + 1, next_request_id - 1)
    BY <2>1, <2>2 DEF Holds, TypeOK
  <2> HIDE DEF k
  <2>4. (Slot(k, QUEUE_SIZE) + 1) % QUEUE_SIZE = Slot(k + 1, QUEUE_SIZE)
    BY <2>1, SlotSucc
  <2>5. Append(Following(0, k), k + 1) = Following(0, k + 1)
    BY <2>1, ServedAppend
  <2>6. served' = Following(0, k + 1) /\ output_index' = Slot(k + 1, QUEUE_SIZE)
    BY <2>2, <2>3, <2>4, <2>5
  <2>7. UNCHANGED <<buffer, input_index, next_request_id>>
    OBVIOUS
  <2>8. count' = next_request_id - 1 - (k + 1)
    BY <2>1, <2>7 DEF RingConsistent, TypeOK, k
  <2>9. requests_consumed' = k + 1
    BY <2>1 DEF k
  <2> HIDE DEF IInv, Consume
  <2> QED
    BY <2>3, <2>6, <2>7, <2>8, <2>9 DEF RingConsistent, IInv
<1>3. TypeOK'
  <2>1. output_index' \in Slots
    BY ModRange DEF TypeOK, Slots
  <2>2. served' \in Seq(0 .. NUM_REQUESTS)
    BY DEF TypeOK, Slots
  <2> QED
    BY <1>1, <2>1, <2>2 DEF TypeOK, ProducerPlaces, ConsumerPlaces, Threads
<1>4. MutualExclusion'
  BY DEF MutualExclusion, TypeOK, InCritical, Threads
<1>5. DecisionsHold'
  BY DEF DecisionsHold, MutualExclusion, InCritical, TypeOK, Threads
<1>6. NoEarlyExit'
  <2>1. Len(served) = requests_consumed
    BY FollowingSeq DEF RingConsistent, TypeOK
  <2> QED
    BY <1>1, <2>1 DEF NoEarlyExit, TypeOK, Threads
<1> QED
  BY <1>2, <1>3, <1>4, <1>5, <1>6

(* The return of the joins, and a step in which nothing happens. *)
LEMMA OtherStep ==
  ASSUME IInv, Complete \/ UNCHANGED vars
  PROVE  IInv'
<1> USE DEF IInv, Complete, vars, shared, ring
<1>1. TypeOK'
  BY DEF TypeOK
<1>2. MutualExclusion'
  BY DEF MutualExclusion
<1>3. RingConsistent'
  BY DEF RingConsistent
<1>4. DecisionsHold' /\ NoEarlyExit'
  BY DEF DecisionsHold, NoEarlyExit
<1> QED
  BY <1>1, <1>2, <1>3, <1>4

LEMMA NextIInv == IInv /\ [Next]_vars => IInv'
<1> SUFFICES ASSUME IInv, [Next]_vars PROVE IInv'
  OBVIOUS
<1>1. ASSUME NEW p \in Producers, Producer(p) PROVE IInv'
  <2> p \in Threads /\ p \notin Consumers
    BY DEF Threads
  <2>1. CASE Lock(p)
    BY <2>1, LockStep
  <2>2. CASE ProducerExit(p)
    BY <2>2, ReleaseStep DEF ProducerExit, InCritical
  <2>3. CASE ProducerFindsSpace(p)
    BY <2>3, DecisionStep
  <2>4. CASE ProducerFindsFull(p)
    BY <2>4, ReleaseStep DEF ProducerFindsFull, InCritical
  <2>5. CASE Produce(p)
    BY <2>5, ProduceStep
  <2>6. CASE Unlock(p)
    BY <2>6, ReleaseStep DEF Unlock, InCritical
  <2> QED
    BY <1>1, <2>1, <2>2, <2>3, <2>4, <2>5, <2>6 DEF Producer
<1>2. ASSUME NEW c \in Consumers, Consumer(c) PROVE IInv'
  <2> c \in Threads /\ c \notin Producers
    BY DEF Threads
  <2>1. CASE Lock(c)
    BY <2>1, LockStep
  <2>2. CASE ConsumerExit(c)
    BY <2>2, ReleaseStep DEF ConsumerExit, InCritical
  <2>3. CASE ConsumerFindsRequest(c)
    BY <2>3, DecisionStep
  <2>4. CASE ConsumerFindsEmpty(c)
    BY <2>4, ReleaseStep DEF ConsumerFindsEmpty, InCritical
  <2>5. CASE Consume(c)
    BY <2>5, ConsumeStep
  <2>6. CASE Unlock(c)
    BY <2>6, ReleaseStep DEF Unlock, InCritical
  <2> QED
    BY <1>2, <2>1, <2>2, <2>3, <2>4, <2>5, <2>6 DEF Consumer
<1>3. CASE Complete \/ UNCHANGED vars
  BY <1>3, OtherStep
<1> QED
  BY <1>1, <1>2, <1>3 DEF Next, Terminated

THEOREM Invariance == Spec => []IInv
  BY InitIInv, NextIInv, PTL DEF Spec

----------------------------------------------------------------------------
(* Its consequences *)

(* The variables of locks.c keep their types, whatever its constants. *)
THEOREM TypeCorrect == Spec => []TypeOK
<1>1. IInv => TypeOK
  BY DEF IInv
<1> QED
  BY <1>1, Invariance, PTL

(* What a thread decided on under the mutex still holds when it acts. *)
THEOREM DecisionsAreSafe == Spec => []DecisionsHold
<1>1. IInv => DecisionsHold
  BY DEF IInv
<1> QED
  BY <1>1, Invariance, PTL

(* No thread leaves its loop, and main() does not report completion,       *)
(* before all requests are produced, or processed.                         *)
THEOREM ExitsAreSafe == Spec => []NoEarlyExit
<1>1. IInv => NoEarlyExit
  BY DEF IInv
<1> QED
  BY <1>1, Invariance, PTL

(* The ring, read from its output index on, is the requests that follow    *)
(* those consumed.                                                         *)
Pending == /\ requests_consumed \in Nat /\ count \in Nat
           /\ pending = Following(requests_consumed, count)

LEMMA PendingIs == IInv => Pending
<1> SUFFICES ASSUME IInv PROVE Pending
  OBVIOUS
<1>1. /\ buffer \in [0 .. QUEUE_SIZE - 1 -> Nat]
      /\ requests_consumed \in Nat /\ count \in Nat
      /\ requests_consumed + count = next_request_id - 1
      /\ output_index = Slot(requests_consumed, QUEUE_SIZE)
      /\ Holds(buffer, QUEUE_SIZE, requests_consumed, requests_consumed + count)
  BY DEF IInv, TypeOK, RingConsistent, Slots
<1>2. Window(buffer, QUEUE_SIZE, Slot(requests_consumed, QUEUE_SIZE), count)
        = Following(requests_consumed, count)
  BY <1>1, HoldsRead, Zenon
<1>3. pending = Window(buffer, QUEUE_SIZE, output_index, count)
  BY DEF pending, Window
<1> QED
  BY <1>1, <1>2, <1>3 DEF Pending

(* No request is lost, repeated or reordered: those processed and those in *)
(* the ring are 1, 2, ... up to the last one produced.                     *)
THEOREM NoRequestLost == Spec => []NothingLostOrRepeated
<1>1. ASSUME IInv PROVE NothingLostOrRepeated
  <2>1. served = Following(0, requests_consumed)
    BY <1>1 DEF IInv, RingConsistent
  <2>2. served \o pending = Following(0, requests_consumed + count)
    BY <1>1, <2>1, PendingIs, FollowingConcat DEF Pending
  <2>3. requests_consumed + count = next_request_id - 1 /\ next_request_id \in Nat
    BY <1>1 DEF IInv, TypeOK, RingConsistent
  <2> QED
    BY <2>2, <2>3 DEF NothingLostOrRepeated, Following
<1> QED
  BY <1>1, Invariance, PTL

----------------------------------------------------------------------------
(* The server implements the abstract queue *)

LEMMA InitImplements == Init => Queue!Init
  BY DEF Init, Queue!Init, pending

(* put() accepts the next request. *)
LEMMA ProduceAccepts ==
  ASSUME IInv, IInv', NEW p \in Producers, Produce(p)
  PROVE  Queue!Accept
<1>1. /\ count < QUEUE_SIZE /\ next_request_id <= NUM_REQUESTS
      /\ count' = count + 1 /\ next_request_id' = next_request_id + 1
      /\ UNCHANGED <<requests_consumed, served>>
      /\ next_request_id \in Nat /\ next_request_id = requests_consumed + count + 1
  BY DEF IInv, DecisionsHold, RingConsistent, TypeOK, Produce, Goto, put
<1>2. Pending /\ Pending'
  BY PendingIs, PTL
<1>3. /\ requests_consumed \in Nat /\ count \in Nat
      /\ pending = Following(requests_consumed, count)
      /\ pending' = Following(requests_consumed, count + 1)
  BY <1>1, <1>2 DEF Pending
<1>4. /\ Len(pending) = count
      /\ pending' = Append(pending, next_request_id)
  BY <1>1, <1>3, FollowingSeq, FollowingAppend
<1> QED
  BY <1>1, <1>4 DEF Queue!Accept

(* get() serves the oldest request. *)
LEMMA ConsumeServes ==
  ASSUME IInv, IInv', NEW c \in Consumers, Consume(c)
  PROVE  Queue!Serve
<1>1. /\ count > 0 /\ count' = count - 1 /\ requests_consumed' = requests_consumed + 1
      /\ UNCHANGED next_request_id
  BY DEF IInv, DecisionsHold, Consume, Goto, get
<1>2. Pending /\ Pending'
  BY PendingIs, PTL
<1>3. /\ requests_consumed \in Nat /\ count \in Nat
      /\ pending = Following(requests_consumed, count)
      /\ pending' = Following(requests_consumed + 1, count - 1)
      /\ served = Following(0, requests_consumed)
      /\ served' = Following(0, requests_consumed + 1)
  BY <1>1, <1>2 DEF Pending, IInv, RingConsistent
<1>4. pending # << >> /\ Head(pending) = requests_consumed + 1 /\ pending' = Tail(pending)
  BY <1>1, <1>3, FollowingTake
<1>5. served' = Append(served, Head(pending))
  BY <1>3, <1>4, ServedAppend
<1> QED
  BY <1>1, <1>4, <1>5 DEF Queue!Serve

(* Every other step leaves the queue alone. *)
LEMMA OthersStutter ==
  ASSUME UNCHANGED shared
  PROVE  UNCHANGED Queue!vars
  BY DEF shared, ring, Queue!vars, pending

LEMMA NextImplements == IInv /\ IInv' /\ [Next]_vars => [Queue!Next]_(Queue!vars)
<1> SUFFICES ASSUME IInv, IInv', Next \/ UNCHANGED vars
             PROVE  Queue!Next \/ UNCHANGED Queue!vars
  OBVIOUS
<1>1. CASE \E p \in Producers : Produce(p)
  BY <1>1, ProduceAccepts DEF Queue!Next
<1>2. CASE \E c \in Consumers : Consume(c)
  BY <1>2, ConsumeServes DEF Queue!Next
<1>3. CASE /\ ~ \E p \in Producers : Produce(p)
           /\ ~ \E c \in Consumers : Consume(c)
  <2>1. UNCHANGED shared
    BY <1>3 DEF Next, Producer, Consumer, Lock, Unlock, Release, ProducerExit,
       ProducerFindsSpace, ProducerFindsFull, ConsumerExit, ConsumerFindsRequest,
       ConsumerFindsEmpty, Complete, Terminated, vars
  <2> QED
    BY <2>1, OthersStutter
<1> QED
  BY <1>1, <1>2, <1>3

(* The server implements the safety of the abstract queue. *)
THEOREM Implementation == Spec => Queue!Spec
  BY InitImplements, NextImplements, Invariance, PTL DEF Spec, Queue!Spec

----------------------------------------------------------------------------
(* The earlier programs, "locks copy.c" and "convar copy.c"                *)
(*                                                                         *)
(* The same argument shows PairServer correct for any numbers of slots and *)
(* requests.  What follows is about an instance of that module; variables  *)
(* that the two modules both have stand for those of PairServer.  In its   *)
(* invariant the two loop counters take the place of the shared ones, and  *)
(* there is one part more: a thread that is not at the end of its loop has *)
(* a round left, for nothing but its own counter tells it when to stop.    *)

VARIABLES program, produced, consumed
Pair == INSTANCE PairServer


(* A thread is between lock and unlock exactly if it holds the mutex. *)
PairMutualExclusion == \A t \in Pair!Threads : pc[t] \in Pair!InCritical <=> lock = t

(* The producer never gets and the consumer never puts. *)
PairOwnPlaces == pc["producer"] # "get" /\ pc["consumer"] # "put"

(* The ring holds the requests put and not got, each in its slot.          *)
PairRingConsistent ==
  /\ count = produced - consumed
  /\ input_index = Slot(produced, QUEUE_SIZE)
  /\ output_index = Slot(consumed, QUEUE_SIZE)
  /\ Holds(buffer, QUEUE_SIZE, consumed, produced)
  /\ served = Following(0, consumed)

(* What a thread saw when it decided to act still holds when it acts.      *)
PairDecisionsHold ==
  /\ pc["producer"] = "put" => count < QUEUE_SIZE
  /\ pc["consumer"] = "get" => count > 0

PairBeforeAction == {"lock", "decide", "put", "get", "blocked"}

PairRoundsLeft ==
  /\ pc["producer"] \in PairBeforeAction => produced < NUM_REQUESTS
  /\ pc["consumer"] \in PairBeforeAction => consumed < NUM_REQUESTS

PairIInv ==
  /\ Pair!TypeOK
  /\ PairMutualExclusion
  /\ PairOwnPlaces
  /\ PairRingConsistent
  /\ PairDecisionsHold
  /\ PairRoundsLeft

USE DEF Pair!Threads

----------------------------------------------------------------------------
(* The inductive invariant *)

LEMMA PairInitIInv == Pair!Init => PairIInv
<1> SUFFICES ASSUME Pair!Init PROVE PairIInv
  OBVIOUS
<1> USE DEF Pair!Init
<1>1. Pair!TypeOK
  BY DEF Pair!TypeOK, Pair!Slots, Pair!Places
<1>2. PairMutualExclusion /\ PairOwnPlaces
  BY DEF PairMutualExclusion, Pair!InCritical, PairOwnPlaces
<1>3. PairRingConsistent
  <2>1. Slot(0, QUEUE_SIZE) = 0
    BY SlotZero
  <2>2. Holds(buffer, QUEUE_SIZE, 0, 0)
    BY DEF Holds
  <2>3. Following(0, 0) = << >>
    BY DEF Following
  <2> QED
    BY <2>1, <2>2, <2>3 DEF PairRingConsistent
<1>4. PairDecisionsHold
  BY DEF PairDecisionsHold
<1>5. PairRoundsLeft
  BY DEF PairRoundsLeft, PairBeforeAction
<1> QED
  BY <1>1, <1>2, <1>3, <1>4, <1>5 DEF PairIInv

(* A step of the mutex or of a program counter that leaves the ring alone. *)
LEMMA PairLockStep ==
  ASSUME PairIInv, NEW t \in Pair!Threads, Pair!Lock(t)
  PROVE  PairIInv'
<1> USE DEF PairIInv, Pair!Lock, Pair!Goto, Pair!shared
<1>1. Pair!TypeOK'
  BY DEF Pair!TypeOK, Pair!Places
<1>2. PairMutualExclusion' /\ PairOwnPlaces'
  BY DEF PairMutualExclusion, Pair!TypeOK, Pair!InCritical, PairOwnPlaces
<1>3. PairRingConsistent'
  BY DEF PairRingConsistent
<1>4. PairDecisionsHold' /\ PairRoundsLeft'
  BY DEF PairDecisionsHold, PairRoundsLeft, PairBeforeAction, Pair!TypeOK
<1> QED
  BY <1>1, <1>2, <1>3, <1>4

LEMMA PairReleaseStep ==
  ASSUME PairIInv, NEW t \in Pair!Threads,
         NEW from \in Pair!InCritical, NEW to \in {"lock", "blocked", "done"},
         Pair!Release(t, from, to),
         to # "done" =>
           IF t = "producer" THEN produced < NUM_REQUESTS ELSE consumed < NUM_REQUESTS
  PROVE  PairIInv'
<1> USE DEF PairIInv, Pair!Release, Pair!Goto, Pair!shared
<1>1. Pair!TypeOK'
  BY DEF Pair!TypeOK, Pair!Places
<1>2. PairMutualExclusion' /\ PairOwnPlaces'
  BY DEF PairMutualExclusion, Pair!TypeOK, Pair!InCritical, PairOwnPlaces
<1>3. PairRingConsistent'
  BY DEF PairRingConsistent
<1>4. PairDecisionsHold'
  BY DEF PairDecisionsHold, Pair!TypeOK
<1>5. PairRoundsLeft'
  BY DEF PairRoundsLeft, PairBeforeAction, Pair!TypeOK
<1> QED
  BY <1>1, <1>2, <1>3, <1>4, <1>5

LEMMA PairUnlockStep ==
  ASSUME PairIInv, NEW t \in Pair!Threads,
         Pair!Unlock(t, IF t = "producer" THEN produced ELSE consumed)
  PROVE  PairIInv'
<1> DEFINE rounds == IF t = "producer" THEN produced ELSE consumed
           to == IF rounds < NUM_REQUESTS THEN "lock" ELSE "done"
<1>1. Pair!Release(t, "unlock", to)
  BY DEF Pair!Unlock
<1>2. to \in {"lock", "blocked", "done"} /\ "unlock" \in Pair!InCritical
  BY DEF Pair!InCritical
<1>3. to # "done" =>
        IF t = "producer" THEN produced < NUM_REQUESTS ELSE consumed < NUM_REQUESTS
  OBVIOUS
<1> HIDE DEF to, rounds
<1> QED
  BY <1>1, <1>2, <1>3, PairReleaseStep

LEMMA PairDecisionStep ==
  ASSUME PairIInv, NEW t \in Pair!Threads,
         \/ t = "producer" /\ count < QUEUE_SIZE /\ Pair!Proceed(t, "decide", "put")
         \/ t = "consumer" /\ count > 0 /\ Pair!Proceed(t, "decide", "get")
  PROVE  PairIInv'
<1> USE DEF PairIInv, Pair!Proceed, Pair!Goto, Pair!shared
<1>1. Pair!TypeOK'
  BY DEF Pair!TypeOK, Pair!Places
<1>2. PairMutualExclusion' /\ PairOwnPlaces'
  BY DEF PairMutualExclusion, Pair!TypeOK, Pair!InCritical, PairOwnPlaces
<1>3. PairRingConsistent'
  BY DEF PairRingConsistent
<1>4. PairDecisionsHold'
  BY DEF PairDecisionsHold, Pair!TypeOK
<1>5. PairRoundsLeft'
  BY DEF PairRoundsLeft, PairBeforeAction, Pair!TypeOK
<1> QED
  BY <1>1, <1>2, <1>3, <1>4, <1>5

(* A wakeup, with or without a signal, makes a blocked thread test again.  *)
LEMMA PairSignalStep ==
  ASSUME PairIInv, NEW t \in Pair!Threads, NEW w \in Pair!Threads, t # w, Pair!Signal(t, w)
  PROVE  PairIInv'
<1> USE DEF PairIInv, Pair!Signal, Pair!shared
<1>1. Pair!TypeOK'
  BY DEF Pair!TypeOK, Pair!Places
<1>2. PairMutualExclusion' /\ PairOwnPlaces'
  BY DEF PairMutualExclusion, Pair!TypeOK, Pair!InCritical, PairOwnPlaces
<1>3. PairRingConsistent'
  BY DEF PairRingConsistent
<1>4. PairDecisionsHold'
  BY DEF PairDecisionsHold, Pair!TypeOK
<1>5. PairRoundsLeft'
  BY DEF PairRoundsLeft, PairBeforeAction, Pair!TypeOK
<1> QED
  BY <1>1, <1>2, <1>3, <1>4, <1>5

LEMMA PairSpuriousStep ==
  ASSUME PairIInv, NEW t \in Pair!Threads, Pair!SpuriousWakeup(t)
  PROVE  PairIInv'
<1> USE DEF PairIInv, Pair!SpuriousWakeup, Pair!Proceed, Pair!Goto, Pair!shared
<1>1. Pair!TypeOK'
  BY DEF Pair!TypeOK, Pair!Places
<1>2. PairMutualExclusion' /\ PairOwnPlaces'
  BY DEF PairMutualExclusion, Pair!TypeOK, Pair!InCritical, PairOwnPlaces
<1>3. PairRingConsistent'
  BY DEF PairRingConsistent
<1>4. PairDecisionsHold' /\ PairRoundsLeft'
  BY DEF PairDecisionsHold, PairRoundsLeft, PairBeforeAction, Pair!TypeOK
<1> QED
  BY <1>1, <1>2, <1>3, <1>4

(* put() fills the slot that the producer's counter determines.  The mutex *)
(* keeps the consumer from "get", so its decision is not upset.            *)
LEMMA PairProduceStep ==
  ASSUME PairIInv, Pair!Produce
  PROVE  PairIInv'
<1> USE DEF PairIInv, Pair!Produce, Pair!Goto, Pair!put, Pair!AfterAction, Pair!shared
<1>1. produced < NUM_REQUESTS /\ count < QUEUE_SIZE
  BY DEF PairDecisionsHold, PairRoundsLeft, PairBeforeAction
<1>2. Pair!TypeOK'
  <2>1. input_index' \in Pair!Slots
    BY ModRange DEF Pair!TypeOK, Pair!Slots
  <2> QED
    BY <1>1, <2>1 DEF Pair!TypeOK, Pair!Places
<1>3. PairMutualExclusion' /\ PairOwnPlaces'
  BY DEF PairMutualExclusion, Pair!TypeOK, Pair!InCritical, PairOwnPlaces
<1>4. PairRingConsistent'
  <2>1. produced \in Nat /\ consumed \in Nat /\ produced - consumed < QUEUE_SIZE
    BY <1>1 DEF Pair!TypeOK, PairRingConsistent
  <2>2. /\ input_index = Slot(produced, QUEUE_SIZE)
        /\ Holds(buffer, QUEUE_SIZE, consumed, produced)
    BY DEF PairRingConsistent
  <2>3. buffer \in [0 .. QUEUE_SIZE - 1 -> Nat]
    BY DEF Pair!TypeOK, Pair!Slots
  <2>4. buffer' = [buffer EXCEPT ![Slot(produced, QUEUE_SIZE)] = produced + 1]
    BY <2>2
  <2>5. UNCHANGED <<output_index, consumed, served>> /\ count' = count + 1
    OBVIOUS
  <2>6. input_index' = (input_index + 1) % QUEUE_SIZE /\ produced' = produced + 1
    OBVIOUS
  <2> HIDE DEF PairIInv, Pair!Produce
  <2>7. Holds([buffer EXCEPT ![Slot(produced, QUEUE_SIZE)] = produced + 1],
              QUEUE_SIZE, consumed, produced + 1)
    BY <2>1, <2>2, <2>3, HoldsPut, Zenon
  <2>8. (Slot(produced, QUEUE_SIZE) + 1) % QUEUE_SIZE = Slot(produced + 1, QUEUE_SIZE)
    BY <2>1, SlotSucc
  <2> QED
    BY <2>1, <2>2, <2>4, <2>5, <2>6, <2>7, <2>8 DEF PairIInv, PairRingConsistent
<1>5. PairDecisionsHold'
  BY DEF PairDecisionsHold, PairMutualExclusion, Pair!InCritical, Pair!TypeOK
<1>6. PairRoundsLeft'
  BY DEF PairRoundsLeft, PairBeforeAction, Pair!TypeOK
<1> QED
  BY <1>2, <1>3, <1>4, <1>5, <1>6

(* get() finds the oldest request in the slot that the consumer's counter  *)
(* determines.                                                             *)
LEMMA PairConsumeStep ==
  ASSUME PairIInv, Pair!Consume
  PROVE  PairIInv'
<1> USE DEF PairIInv, Pair!Consume, Pair!Goto, Pair!get, Pair!AfterAction, Pair!shared
<1>1. consumed < NUM_REQUESTS /\ count > 0
  BY DEF PairDecisionsHold, PairRoundsLeft, PairBeforeAction
<1>2. PairRingConsistent'
  <2>1. consumed \in Nat /\ produced \in Nat /\ consumed < produced
    BY <1>1 DEF Pair!TypeOK, PairRingConsistent
  <2>2. /\ output_index = Slot(consumed, QUEUE_SIZE)
        /\ Holds(buffer, QUEUE_SIZE, consumed, produced)
        /\ served = Following(0, consumed)
    BY DEF PairRingConsistent
  <2>3. /\ buffer[output_index] = consumed + 1
        /\ Holds(buffer, QUEUE_SIZE, consumed + 1, produced)
    BY <2>1, <2>2 DEF Holds, Pair!TypeOK
  <2>4. (Slot(consumed, QUEUE_SIZE) + 1) % QUEUE_SIZE = Slot(consumed + 1, QUEUE_SIZE)
    BY <2>1, SlotSucc
  <2>5. Append(Following(0, consumed), consumed + 1) = Following(0, consumed + 1)
    BY <2>1, ServedAppend
  <2>6. /\ served' = Following(0, consumed + 1)
        /\ output_index' = Slot(consumed + 1, QUEUE_SIZE)
    BY <2>2, <2>3, <2>4, <2>5
  <2>7. UNCHANGED <<buffer, input_index, produced>> /\ consumed' = consumed + 1
    OBVIOUS
  <2>8. count' = produced - (consumed + 1)
    BY <2>1 DEF PairRingConsistent, Pair!TypeOK
  <2> HIDE DEF PairIInv, Pair!Consume
  <2> QED
    BY <2>3, <2>6, <2>7, <2>8 DEF PairRingConsistent, PairIInv
<1>3. Pair!TypeOK'
  <2>1. output_index' \in Pair!Slots
    BY ModRange DEF Pair!TypeOK, Pair!Slots
  <2>2. served' \in Seq(0 .. NUM_REQUESTS)
    BY DEF Pair!TypeOK, Pair!Slots
  <2> QED
    BY <1>1, <2>1, <2>2 DEF Pair!TypeOK, Pair!Places
<1>4. PairMutualExclusion' /\ PairOwnPlaces'
  BY DEF PairMutualExclusion, Pair!TypeOK, Pair!InCritical, PairOwnPlaces
<1>5. PairDecisionsHold'
  BY DEF PairDecisionsHold, PairMutualExclusion, Pair!InCritical, Pair!TypeOK
<1>6. PairRoundsLeft'
  BY DEF PairRoundsLeft, PairBeforeAction, Pair!TypeOK
<1> QED
  BY <1>2, <1>3, <1>4, <1>5, <1>6

LEMMA PairOtherStep ==
  ASSUME PairIInv, Pair!Complete \/ UNCHANGED Pair!vars
  PROVE  PairIInv'
<1> USE DEF PairIInv, Pair!Complete, Pair!vars, Pair!shared
<1>1. Pair!TypeOK'
  BY DEF Pair!TypeOK
<1>2. PairMutualExclusion' /\ PairOwnPlaces' /\ PairDecisionsHold' /\ PairRoundsLeft'
  BY DEF PairMutualExclusion, PairOwnPlaces, PairDecisionsHold, PairRoundsLeft
<1>3. PairRingConsistent'
  BY DEF PairRingConsistent
<1> QED
  BY <1>1, <1>2, <1>3

(* The releases of a thread that found the ring full or empty. *)
LEMMA PairBackOffStep ==
  ASSUME PairIInv, NEW t \in Pair!Threads, NEW to \in {"lock", "blocked"},
         Pair!Release(t, "decide", to)
  PROVE  PairIInv'
<1>1. IF t = "producer" THEN produced < NUM_REQUESTS ELSE consumed < NUM_REQUESTS
  BY DEF PairIInv, PairRoundsLeft, PairBeforeAction, Pair!Release, Pair!Goto
<1>2. "decide" \in Pair!InCritical /\ to \in {"lock", "blocked", "done"}
  BY DEF Pair!InCritical
<1> QED
  BY <1>1, <1>2, PairReleaseStep

LEMMA PairProducerStep ==
  ASSUME PairIInv, Pair!Producer
  PROVE  PairIInv'
<1> DEFINE t == "producer"
<1>1. CASE Pair!Lock(t)
  BY <1>1, PairLockStep
<1>2. CASE count < QUEUE_SIZE /\ Pair!Proceed(t, "decide", "put")
  BY <1>2, PairDecisionStep
<1>3. CASE count # QUEUE_SIZE /\ Pair!Proceed(t, "decide", "put")
  <2>1. count < QUEUE_SIZE
    BY <1>3 DEF PairIInv, Pair!TypeOK
  <2> QED
    BY <1>3, <2>1, PairDecisionStep
<1>4. CASE Pair!Release(t, "decide", "lock") \/ Pair!Release(t, "decide", "blocked")
  BY <1>4, PairBackOffStep
<1>5. CASE Pair!Produce
  BY <1>5, PairProduceStep
<1>6. CASE Pair!Signal(t, "consumer")
  BY <1>6, PairSignalStep
<1>7. CASE Pair!Unlock(t, produced)
  <2>1. Pair!Unlock(t, IF t = "producer" THEN produced ELSE consumed)
    BY <1>7
  <2> QED
    BY <2>1, PairUnlockStep
<1> QED
  BY <1>1, <1>2, <1>3, <1>4, <1>5, <1>6, <1>7
     DEF Pair!Producer, Pair!locks_producer, Pair!convar_producer

LEMMA PairConsumerStep ==
  ASSUME PairIInv, Pair!Consumer
  PROVE  PairIInv'
<1> DEFINE t == "consumer"
<1>1. CASE Pair!Lock(t)
  BY <1>1, PairLockStep
<1>2. CASE count > 0 /\ Pair!Proceed(t, "decide", "get")
  BY <1>2, PairDecisionStep
<1>3. CASE count # 0 /\ Pair!Proceed(t, "decide", "get")
  <2>1. count > 0
    BY <1>3 DEF PairIInv, Pair!TypeOK
  <2> QED
    BY <1>3, <2>1, PairDecisionStep
<1>4. CASE Pair!Release(t, "decide", "lock") \/ Pair!Release(t, "decide", "blocked")
  BY <1>4, PairBackOffStep
<1>5. CASE Pair!Consume
  BY <1>5, PairConsumeStep
<1>6. CASE Pair!Signal(t, "producer")
  BY <1>6, PairSignalStep
<1>7. CASE Pair!Unlock(t, consumed)
  <2>1. Pair!Unlock(t, IF t = "producer" THEN produced ELSE consumed)
    BY <1>7
  <2> QED
    BY <2>1, PairUnlockStep
<1> QED
  BY <1>1, <1>2, <1>3, <1>4, <1>5, <1>6, <1>7
     DEF Pair!Consumer, Pair!locks_consumer, Pair!convar_consumer

LEMMA PairNextIInv == PairIInv /\ [Pair!Next]_(Pair!vars) => PairIInv'
<1> SUFFICES ASSUME PairIInv, [Pair!Next]_(Pair!vars) PROVE PairIInv'
  OBVIOUS
<1>1. CASE Pair!Producer
  BY <1>1, PairProducerStep
<1>2. CASE Pair!Consumer
  BY <1>2, PairConsumerStep
<1>3. CASE \E t \in Pair!Threads : Pair!SpuriousWakeup(t)
  BY <1>3, PairSpuriousStep
<1>4. CASE Pair!Complete \/ UNCHANGED Pair!vars
  BY <1>4, PairOtherStep
<1> QED
  BY <1>1, <1>2, <1>3, <1>4 DEF Pair!Next, Pair!Terminated

THEOREM PairInvariance == Pair!Spec => []PairIInv
  BY PairInitIInv, PairNextIInv, PTL DEF Pair!Spec

----------------------------------------------------------------------------
(* Its consequences *)

(* The variables of both programs keep their types, whatever the sizes:    *)
(* the indices stay inside the ring and no thread runs past its loop.      *)
THEOREM PairTypeCorrect == Pair!Spec => []Pair!TypeOK
<1>1. PairIInv => Pair!TypeOK
  BY DEF PairIInv
<1> QED
  BY <1>1, PairInvariance, PTL

(* The ring, read from its output index on, is the requests that follow    *)
(* those consumed.                                                         *)
PairPending == /\ consumed \in Nat /\ count \in Nat /\ consumed + count = produced
           /\ Pair!pending = Following(consumed, count)

LEMMA PairPendingIs == PairIInv => PairPending
<1> SUFFICES ASSUME PairIInv PROVE PairPending
  OBVIOUS
<1>1. /\ buffer \in [0 .. QUEUE_SIZE - 1 -> Nat]
      /\ consumed \in Nat /\ count \in Nat /\ consumed + count = produced
      /\ output_index = Slot(consumed, QUEUE_SIZE)
      /\ Holds(buffer, QUEUE_SIZE, consumed, consumed + count)
  BY DEF PairIInv, Pair!TypeOK, PairRingConsistent, Pair!Slots
<1>2. Window(buffer, QUEUE_SIZE, Slot(consumed, QUEUE_SIZE), count)
        = Following(consumed, count)
  BY <1>1, HoldsRead, Zenon
<1>3. Pair!pending = Window(buffer, QUEUE_SIZE, output_index, count)
  BY DEF Pair!pending, Window
<1> QED
  BY <1>1, <1>2, <1>3 DEF PairPending

----------------------------------------------------------------------------
(* Both programs implement the abstract queue *)

LEMMA PairInitImplements == Pair!Init => Pair!Queue!Init
  BY DEF Pair!Init, Pair!Queue!Init, Pair!pending

LEMMA PairProduceAccepts ==
  ASSUME PairIInv, PairIInv', Pair!Produce
  PROVE  Pair!Queue!Accept
<1>1. /\ count < QUEUE_SIZE /\ produced < NUM_REQUESTS
      /\ count' = count + 1 /\ produced' = produced + 1
      /\ UNCHANGED <<consumed, served>>
  BY DEF PairIInv, PairDecisionsHold, PairRoundsLeft, PairBeforeAction, Pair!Produce,
         Pair!Goto, Pair!put
<1>2. PairPending /\ PairPending'
  BY PairPendingIs, PTL
<1>3. /\ consumed \in Nat /\ count \in Nat /\ produced = consumed + count
      /\ Pair!pending = Following(consumed, count)
      /\ Pair!pending' = Following(consumed, count + 1)
  BY <1>1, <1>2 DEF PairPending
<1>4. Len(Pair!pending) = count /\ Pair!pending' = Append(Pair!pending, produced + 1)
  BY <1>3, FollowingSeq, FollowingAppend
<1> QED
  BY <1>1, <1>4 DEF Pair!Queue!Accept

LEMMA PairConsumeServes ==
  ASSUME PairIInv, PairIInv', Pair!Consume
  PROVE  Pair!Queue!Serve
<1>1. count > 0 /\ count' = count - 1 /\ consumed' = consumed + 1 /\ UNCHANGED produced
  BY DEF PairIInv, PairDecisionsHold, Pair!Consume, Pair!Goto, Pair!get
<1>2. PairPending /\ PairPending'
  BY PairPendingIs, PTL
<1>3. /\ consumed \in Nat /\ count \in Nat
      /\ Pair!pending = Following(consumed, count)
      /\ Pair!pending' = Following(consumed + 1, count - 1)
      /\ served = Following(0, consumed)
      /\ served' = Following(0, consumed + 1)
  BY <1>1, <1>2 DEF PairPending, PairIInv, PairRingConsistent
<1>4. /\ Pair!pending # << >> /\ Head(Pair!pending) = consumed + 1
      /\ Pair!pending' = Tail(Pair!pending)
  BY <1>1, <1>3, FollowingTake
<1>5. served' = Append(served, Head(Pair!pending))
  BY <1>3, <1>4, ServedAppend
<1> QED
  BY <1>1, <1>4, <1>5 DEF Pair!Queue!Serve

LEMMA PairNextImplements ==
  PairIInv /\ PairIInv' /\ [Pair!Next]_(Pair!vars) => [Pair!Queue!Next]_(Pair!Queue!vars)
<1> SUFFICES ASSUME PairIInv, PairIInv', Pair!Next \/ UNCHANGED Pair!vars
             PROVE  Pair!Queue!Next \/ UNCHANGED Pair!Queue!vars
  OBVIOUS
<1>1. CASE Pair!Produce
  BY <1>1, PairProduceAccepts DEF Pair!Queue!Next
<1>2. CASE Pair!Consume
  BY <1>2, PairConsumeServes DEF Pair!Queue!Next
<1>3. CASE ~Pair!Produce /\ ~Pair!Consume
  <2>1. UNCHANGED Pair!shared
    BY <1>3 DEF Pair!Next, Pair!Producer, Pair!Consumer, Pair!locks_producer,
       Pair!locks_consumer, Pair!convar_producer, Pair!convar_consumer, Pair!Lock, Pair!Unlock,
       Pair!Release, Pair!Proceed, Pair!Signal, Pair!SpuriousWakeup, Pair!Complete,
       Pair!Terminated, Pair!vars
  <2> QED
    BY <2>1 DEF Pair!shared, Pair!Queue!vars, Pair!pending
<1> QED
  BY <1>1, <1>2, <1>3

(* Both programs implement the safety of the abstract queue for every size *)
(* of the ring and every number of requests.                               *)
THEOREM PairImplementation == Pair!Spec => Pair!Queue!Spec
  BY PairInitImplements, PairNextImplements, PairInvariance, PTL DEF Pair!Spec, Pair!Queue!Spec
=============================================================================
