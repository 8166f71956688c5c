------------------------- MODULE CondvarServerProofs -------------------------
(***************************************************************************)
(* Theorems about CondvarServer (convar.c) for any numbers of producers,   *)
(* consumers, slots, requests and spurious wakeups.  The inductive         *)
(* invariant is that of the mutex and the ring, with the reason why no     *)
(* wakeup is lost: a thread blocks only when its condition is false, and   *)
(* who makes it true stands at "signal" until one blocked thread is awake. *)
(***************************************************************************)
EXTENDS CondvarServer, Lemmas

(* A thread is between lock and unlock exactly if it holds the mutex; a    *)
(* thread that is blocked, or woken and not yet back, does not.            *)
MutualExclusion == \A t \in Threads : pc[t] \in InCritical <=> buffer_mutex = t

(* Requests requests_consumed + 1 to next_request_id - 1 are in the ring,  *)
(* each in the slot of its number, and those before them were served.      *)
RingConsistent ==
  /\ count = next_request_id - 1 - requests_consumed
  /\ input_index = Slot(next_request_id - 1, QUEUE_SIZE)
  /\ output_index = Slot(requests_consumed, QUEUE_SIZE)
  /\ Holds(buffer, QUEUE_SIZE, requests_consumed, next_request_id - 1)
  /\ served = Following(0, requests_consumed)

(* A thread returns only when there is no work of its kind left. *)
ExitsJustified ==
  /\ \A p \in Producers : pc[p] = "done" => next_request_id > NUM_REQUESTS
  /\ \A c \in Consumers : pc[c] = "done" => requests_consumed >= NUM_REQUESTS

IInv ==
  /\ TypeOK
  /\ MutualExclusion
  /\ RingConsistent
  /\ DecisionsHold
  /\ ExitsJustified
  /\ NoLostWakeup

USE CondvarServerAssumption

----------------------------------------------------------------------------
(* The inductive invariant *)

LEMMA InitIInv == Init => IInv
<1> SUFFICES ASSUME Init PROVE IInv
  OBVIOUS
<1> USE DEF Init
<1>1. TypeOK
  BY DEF TypeOK, Slots, Threads, ProducerPlaces, ConsumerPlaces, CommonPlaces
<1>2. MutualExclusion
  BY DEF MutualExclusion, InCritical
<1>3. RingConsistent
  <2>1. Slot(0, QUEUE_SIZE) = 0
    BY SlotZero
  <2>2. Holds(buffer, QUEUE_SIZE, 0, 0)
    BY DEF Holds
  <2>3. Following(0, 0) = << >>
    BY DEF Following
  <2> QED
    BY <2>1, <2>2, <2>3 DEF RingConsistent
<1>4. DecisionsHold /\ ExitsJustified
  BY DEF DecisionsHold, ExitsJustified, Threads
<1>5. NoLostWakeup
  BY DEF NoLostWakeup, Threads
<1> QED
  BY <1>1, <1>2, <1>3, <1>4, <1>5 DEF IInv

(* The mutex is taken, on the way in or at the end of a wait. *)
LEMMA LockStep ==
  ASSUME IInv, NEW t \in Threads, Lock(t) \/ Reacquire(t)
  PROVE  IInv'
<1> USE DEF IInv, Lock, Reacquire, Goto, shared, ring
<1>1. TypeOK'
  BY DEF TypeOK, ProducerPlaces, ConsumerPlaces, CommonPlaces, Threads
<1>2. MutualExclusion'
  BY DEF MutualExclusion, TypeOK, InCritical
<1>3. RingConsistent'
  BY DEF RingConsistent
<1>4. DecisionsHold' /\ ExitsJustified'
  BY DEF DecisionsHold, ExitsJustified, TypeOK, Threads
<1>5. NoLostWakeup'
  BY DEF NoLostWakeup, TypeOK, Threads
<1> QED
  BY <1>1, <1>2, <1>3, <1>4, <1>5

(* The mutex is released: at the end of a pass, to return or to wait.  The *)
(* condition waited for is false then, so no signal was missed.            *)
LEMMA ReleaseStep ==
  ASSUME IInv, NEW t \in Threads, NEW from \in {"decide", "unlock"},
         NEW to \in {"lock", "blocked", "done"}, Release(t, from, to),
         to = "done" /\ t \in Producers => next_request_id > NUM_REQUESTS,
         to = "done" /\ t \in Consumers => requests_consumed >= NUM_REQUESTS,
         to = "blocked" /\ t \in Producers => count = QUEUE_SIZE,
         to = "blocked" /\ t \in Consumers => count = 0
  PROVE  IInv'
<1> USE DEF IInv, Release, Goto, shared, ring
<1>1. TypeOK'
  BY DEF TypeOK, ProducerPlaces, ConsumerPlaces, CommonPlaces, Threads
<1>2. MutualExclusion'
  BY DEF MutualExclusion, TypeOK, InCritical
<1>3. RingConsistent'
  BY DEF RingConsistent
<1>4. DecisionsHold'
  BY DEF DecisionsHold, TypeOK, Threads
<1>5. ExitsJustified'
  BY DEF ExitsJustified, TypeOK, Threads
<1>6. NoLostWakeup'
  <2>1. to = "done" /\ t \in Consumers => count = 0
    BY DEF RingConsistent, TypeOK
  <2> QED
    BY <2>1 DEF NoLostWakeup, TypeOK, Threads
<1> QED
  BY <1>1, <1>2, <1>3, <1>4, <1>5, <1>6

(* A decision to act puts the thread that holds the mutex at the action. *)
LEMMA DecisionStep ==
  ASSUME IInv, NEW t \in Threads,
         \/ t \in Producers /\ ProducerProceed(t)
         \/ t \in Consumers /\ ConsumerProceed(t)
  PROVE  IInv'
<1> USE DEF IInv, ProducerProceed, ConsumerProceed, Goto, shared, ring
<1>1. TypeOK'
  BY DEF TypeOK, ProducerPlaces, ConsumerPlaces, CommonPlaces, Threads
<1>2. MutualExclusion'
  BY DEF MutualExclusion, TypeOK, InCritical
<1>3. RingConsistent'
  BY DEF RingConsistent
<1>4. DecisionsHold'
  BY DEF DecisionsHold, TypeOK, Threads
<1>5. ExitsJustified'
  BY DEF ExitsJustified, TypeOK, Threads
<1>6. NoLostWakeup'
  BY DEF NoLostWakeup, TypeOK, Threads
<1> QED
  BY <1>1, <1>2, <1>3, <1>4, <1>5, <1>6

(* A signal wakes a blocked thread of the other side, and if it finds none *)
(* then all of them are awake: none has returned while there is work.      *)
LEMMA SignalStep ==
  ASSUME IInv, NEW t \in Threads,
         \/ t \in Producers /\ Signal(t, Consumers)
         \/ t \in Consumers /\ Signal(t, Producers)
  PROVE  IInv'
<1> USE DEF IInv, Signal, Blocked, shared, ring
<1>1. TypeOK'
  BY DEF TypeOK, ProducerPlaces, ConsumerPlaces, CommonPlaces, Threads
<1>2. MutualExclusion'
  BY DEF MutualExclusion, TypeOK, InCritical, Threads
<1>3. RingConsistent'
  BY DEF RingConsistent
<1>4. DecisionsHold'
  BY DEF DecisionsHold, TypeOK, Threads
<1>5. ExitsJustified'
  BY DEF ExitsJustified, TypeOK, Threads
<1>6. NoLostWakeup'
  <2>1. CASE t \in Producers
    <3>1. count > 0 => \E c \in Consumers : pc'[c] \notin {"blocked", "done"}
      <4>1. Signal(t, Consumers) /\ t \notin Consumers
        BY <2>1 DEF Threads
      <4>2. CASE Blocked(Consumers) # {}
        <5>1. \E c \in Consumers : pc'[c] = "woken"
          BY <4>1, <4>2 DEF TypeOK, Threads
        <5> QED
          BY <5>1
      <4>3. CASE Blocked(Consumers) = {}
        <5>1. \A c \in Consumers : pc'[c] = pc[c] /\ pc[c] # "blocked"
          BY <4>1, <4>3 DEF TypeOK, Threads
        <5>2. count > 0 => \A c \in Consumers : pc[c] # "done"
          BY DEF ExitsJustified, RingConsistent, TypeOK
        <5> QED
          BY <5>1, <5>2
      <4> QED
        BY <4>2, <4>3
    <3>2. pc'[t] \notin {"blocked", "done"}
      BY <2>1 DEF TypeOK, Threads
    <3> QED
      BY <2>1, <3>1, <3>2 DEF NoLostWakeup
  <2>2. CASE t \in Consumers
    <3>1. next_request_id <= NUM_REQUESTS =>
            \E p \in Producers : pc'[p] \notin {"blocked", "done"}
      BY <2>2 DEF ExitsJustified, TypeOK, Threads
    <3>2. pc'[t] \notin {"blocked", "done"}
      BY <2>2 DEF TypeOK, Threads
    <3> QED
      BY <2>2, <3>1, <3>2 DEF NoLostWakeup
  <2> QED
    BY <2>1, <2>2 DEF Threads
<1> QED
  BY <1>1, <1>2, <1>3, <1>4, <1>5, <1>6

(* A wakeup that nobody signalled only makes one more thread look again. *)
LEMMA SpuriousStep ==
  ASSUME IInv, NEW t \in Threads, SpuriousWakeup(t)
  PROVE  IInv'
<1> USE DEF IInv, SpuriousWakeup, Goto, shared, ring
<1>1. TypeOK'
  BY DEF TypeOK, ProducerPlaces, ConsumerPlaces, CommonPlaces, Threads
<1>2. MutualExclusion'
  BY DEF MutualExclusion, TypeOK, InCritical
<1>3. RingConsistent'
  BY DEF RingConsistent
<1>4. DecisionsHold' /\ ExitsJustified'
  BY DEF DecisionsHold, ExitsJustified, TypeOK, Threads
<1>5. NoLostWakeup'
  BY DEF NoLostWakeup, TypeOK, Threads
<1> QED
  BY <1>1, <1>2, <1>3, <1>4, <1>5

(* put() fills the slot that the next request determines.  The mutex keeps *)
(* every other thread from "put" and "get", so no other decision is upset. *)
LEMMA ProduceStep ==
  ASSUME IInv, NEW p \in Producers, Produce(p)
  PROVE  IInv'
<1> USE DEF IInv, Produce, Goto, put, shared, ring
<1>1. next_request_id <= NUM_REQUESTS /\ count < QUEUE_SIZE
  BY DEF DecisionsHold
<1>2. TypeOK'
  <2>1. input_index' \in Slots
    BY ModRange DEF TypeOK, Slots
  <2> QED
    BY <1>1, <2>1 DEF TypeOK, ProducerPlaces, ConsumerPlaces, CommonPlaces, Threads
<1>3. MutualExclusion'
  BY DEF MutualExclusion, TypeOK, InCritical, Threads
<1>4. RingConsistent'
  <2> DEFINE n == next_request_id - 1
  <2>1. n \in Nat /\ n' = n + 1 /\ next_request_id = n + 1 /\ n - requests_consumed < QUEUE_SIZE
    BY <1>1 DEF TypeOK, RingConsistent
  <2>2. input_index = Slot(n, QUEUE_SIZE) /\ Holds(buffer, QUEUE_SIZE, requests_consumed, n)
    BY DEF RingConsistent
  <2>3. buffer \in [0 .. QUEUE_SIZE - 1 -> Nat] /\ requests_consumed \in Nat
    BY DEF TypeOK, Slots
  <2>4. buffer' = [buffer EXCEPT ![Slot(n, QUEUE_SIZE)] = n + 1]
    BY <2>1, <2>2
  <2> HIDE DEF n
  <2> HIDE DEF IInv, Produce
  <2>5. Holds([buffer EXCEPT ![Slot(n, QUEUE_SIZE)] = n + 1], QUEUE_SIZE, requests_consumed, n + 1)
    BY <2>1, <2>2, <2>3, HoldsPut, Zenon
  <2>6. (Slot(n, QUEUE_SIZE) + 1) % QUEUE_SIZE = Slot(n + 1, QUEUE_SIZE)
    BY <2>1, SlotSucc
  <2> QED
    BY <2>1, <2>2, <2>4, <2>5, <2>6 DEF IInv, Produce, RingConsistent, TypeOK, n
<1>5. DecisionsHold' /\ ExitsJustified'
  BY DEF DecisionsHold, ExitsJustified, MutualExclusion, InCritical, TypeOK, Threads
<1>6. NoLostWakeup'
  BY DEF NoLostWakeup, TypeOK, Threads
<1> QED
  BY <1>2, <1>3, <1>4, <1>5, <1>6

(* get() reads the slot that the requests consumed so far determine, and   *)
(* finds the oldest request there.                                         *)
LEMMA ConsumeStep ==
  ASSUME IInv, NEW c \in Consumers, Consume(c)
  PROVE  IInv'
<1> USE DEF IInv, Consume, Goto, get, shared, ring
<1>1. requests_consumed < NUM_REQUESTS /\ count > 0
  BY DEF DecisionsHold
<1>2. RingConsistent'
  <2> DEFINE k == requests_consumed
  <2>1. k \in Nat /\ k' = k + 1 /\ k < next_request_id - 1
    BY <1>1 DEF TypeOK, RingConsistent
  <2>2. /\ output_index = Slot(k, QUEUE_SIZE)
        /\ Holds(buffer, QUEUE_SIZE, k, next_request_id - 1)
        /\ served = Following(0, k)
    BY DEF RingConsistent
  <2>3. buffer[output_index] = k + 1 /\ Holds(buffer, QUEUE_SIZE, k + 1, next_request_id - 1)
    BY <2>1, <2>2 DEF Holds, TypeOK
  <2> HIDE DEF k
  <2>4. (Slot(k, QUEUE_SIZE) + 1) % QUEUE_SIZE = Slot(k + 1, QUEUE_SIZE)
    BY <2>1, SlotSucc
  <2>5. Append(Following(0, k), k + 1) = Following(0, k + 1)
    BY <2>1, ServedAppend
  <2>6. served' = Following(0, k + 1) /\ output_index' = Slot(k + 1, QUEUE_SIZE)
    BY <2>2, <2>3, <2>4, <2>5
  <2>7. UNCHANGED <<buffer, input_index, next_request_id>>
    OBVIOUS
  <2>8. count' = next_request_id - 1 - (k + 1)
    BY <2>1, <2>7 DEF RingConsistent, TypeOK, k
  <2>9. requests_consumed' = k + 1
    BY <2>1 DEF k
  <2> HIDE DEF IInv, Consume
  <2> QED
    BY <2>3, <2>6, <2>7, <2>8, <2>9 DEF RingConsistent, IInv
<1>3. TypeOK'
  <2>1. output_index' \in Slots
    BY ModRange DEF TypeOK, Slots
  <2>2. served' \in Seq(0 .. NUM_REQUESTS)
    BY DEF TypeOK, Slots
  <2> QED
    BY <1>1, <2>1, <2>2 DEF TypeOK, ProducerPlaces, ConsumerPlaces, CommonPlaces, Threads
<1>4. MutualExclusion'
  BY DEF MutualExclusion, TypeOK, InCritical, Threads
<1>5. DecisionsHold'
  BY DEF DecisionsHold, MutualExclusion, InCritical, TypeOK, Threads
<1>6. ExitsJustified'
  BY DEF ExitsJustified, TypeOK, Threads
<1>7. NoLostWakeup'
  BY DEF NoLostWakeup, TypeOK, Threads
<1> QED
  BY <1>2, <1>3, <1>4, <1>5, <1>6, <1>7

(* The return of the joins, and a step in which nothing happens. *)
LEMMA OtherStep ==
  ASSUME IInv, Complete \/ UNCHANGED vars
  PROVE  IInv'
<1> USE DEF IInv, Complete, vars, shared, ring
<1>1. TypeOK'
  BY DEF TypeOK
<1>2. MutualExclusion' /\ RingConsistent'
  BY DEF MutualExclusion, RingConsistent
<1>3. DecisionsHold' /\ ExitsJustified' /\ NoLostWakeup'
  BY DEF DecisionsHold, ExitsJustified, NoLostWakeup
<1> QED
  BY <1>1, <1>2, <1>3

LEMMA NextIInv == IInv /\ [Next]_vars => IInv'
<1> SUFFICES ASSUME IInv, [Next]_vars PROVE IInv'
  OBVIOUS
<1>1. ASSUME NEW p \in Producers, Producer(p) PROVE IInv'
  <2> p \in Threads /\ p \notin Consumers
    BY DEF Threads
  <2>1. CASE Lock(p) \/ Reacquire(p)
    BY <2>1, LockStep
  <2>2. CASE ProducerExit(p)
    BY <2>2, ReleaseStep DEF ProducerExit
  <2>3. CASE ProducerWait(p)
    BY <2>3, ReleaseStep DEF ProducerWait, Wait
  <2>4. CASE ProducerProceed(p)
    BY <2>4, DecisionStep
  <2>5. CASE Produce(p)
    BY <2>5, ProduceStep
  <2>6. CASE Signal(p, Consumers)
    BY <2>6, SignalStep
  <2>7. CASE Unlock(p)
    BY <2>7, ReleaseStep DEF Unlock
  <2> QED
    BY <1>1, <2>1, <2>2, <2>3, <2>4, <2>5, <2>6, <2>7 DEF Producer
<1>2. ASSUME NEW c \in Consumers, Consumer(c) PROVE IInv'
  <2> c \in Threads /\ c \notin Producers
    BY DEF Threads
  <2>1. CASE Lock(c) \/ Reacquire(c)
    BY <2>1, LockStep
  <2>2. CASE ConsumerExit(c)
    BY <2>2, ReleaseStep DEF ConsumerExit
  <2>3. CASE ConsumerWait(c)
    BY <2>3, ReleaseStep DEF ConsumerWait, Wait
  <2>4. CASE ConsumerProceed(c)
    BY <2>4, DecisionStep
  <2>5. CASE Consume(c)
    BY <2>5, ConsumeStep
  <2>6. CASE Signal(c, Producers)
    BY <2>6, SignalStep
  <2>7. CASE Unlock(c)
    BY <2>7, ReleaseStep DEF Unlock
  <2> QED
    BY <1>2, <2>1, <2>2, <2>3, <2>4, <2>5, <2>6, <2>7 DEF Consumer
<1>3. CASE \E t \in Threads : SpuriousWakeup(t)
  BY <1>3, SpuriousStep
<1>4. CASE Complete \/ UNCHANGED vars
  BY <1>4, OtherStep
<1> QED
  BY <1>1, <1>2, <1>3, <1>4 DEF Next

THEOREM Invariance == Spec => []IInv
  BY InitIInv, NextIInv, PTL DEF Spec

----------------------------------------------------------------------------
(* Its consequences *)

(* The variables of convar.c keep their types, whatever its constants. *)
THEOREM TypeCorrect == Spec => []TypeOK
<1>1. IInv => TypeOK
  BY DEF IInv
<1> QED
  BY <1>1, Invariance, PTL

(* A thread that leaves its wait loop acts on a condition that holds,      *)
(* whoever ran between its wakeup and its return from the wait.            *)
THEOREM DecisionsAreSafe == Spec => []DecisionsHold
<1>1. IInv => DecisionsHold
  BY DEF IInv
<1> QED
  BY <1>1, Invariance, PTL

(* One signal per put() or get() loses no wakeup, with any number of       *)
(* threads on each side: as long as a request waits some thread will see   *)
(* to it, and as long as there is room some thread will use it.            *)
THEOREM NoWakeupIsLost == Spec => []NoLostWakeup
<1>1. IInv => NoLostWakeup
  BY DEF IInv
<1> QED
  BY <1>1, Invariance, PTL

(* The ring, read from its output index on, is the requests that follow    *)
(* those consumed.                                                         *)
Pending == /\ requests_consumed \in Nat /\ count \in Nat
           /\ pending = Following(requests_consumed, count)

LEMMA PendingIs == IInv => Pending
<1> SUFFICES ASSUME IInv PROVE Pending
  OBVIOUS
<1>1. /\ buffer \in [0 .. QUEUE_SIZE - 1 -> Nat]
      /\ requests_consumed \in Nat /\ count \in Nat
      /\ requests_consumed + count = next_request_id - 1
      /\ output_index = Slot(requests_consumed, QUEUE_SIZE)
      /\ Holds(buffer, QUEUE_SIZE, requests_consumed, requests_consumed + count)
  BY DEF IInv, TypeOK, RingConsistent, Slots
<1>2. Window(buffer, QUEUE_SIZE, Slot(requests_consumed, QUEUE_SIZE), count)
        = Following(requests_consumed, count)
  BY <1>1, HoldsRead, Zenon
<1>3. pending = Window(buffer, QUEUE_SIZE, output_index, count)
  BY DEF pending, Window
<1> QED
  BY <1>1, <1>2, <1>3 DEF Pending

(* No request is lost, repeated or reordered: those processed and those in *)
(* the ring are 1, 2, ... up to the last one produced.                     *)
THEOREM NoRequestLost == Spec => []NothingLostOrRepeated
<1>1. ASSUME IInv PROVE NothingLostOrRepeated
  <2>1. served = Following(0, requests_consumed)
    BY <1>1 DEF IInv, RingConsistent
  <2>2. served \o pending = Following(0, requests_consumed + count)
    BY <1>1, <2>1, PendingIs, FollowingConcat DEF Pending
  <2>3. requests_consumed + count = next_request_id - 1 /\ next_request_id \in Nat
    BY <1>1 DEF IInv, TypeOK, RingConsistent
  <2> QED
    BY <2>2, <2>3 DEF NothingLostOrRepeated, Following
<1> QED
  BY <1>1, Invariance, PTL

----------------------------------------------------------------------------
(* The server implements the abstract queue *)

LEMMA InitImplements == Init => Queue!Init
  BY DEF Init, Queue!Init, pending

(* put() accepts the next request. *)
LEMMA ProduceAccepts ==
  ASSUME IInv, IInv', NEW p \in Producers, Produce(p)
  PROVE  Queue!Accept
<1>1. /\ count < QUEUE_SIZE /\ next_request_id <= NUM_REQUESTS
      /\ count' = count + 1 /\ next_request_id' = next_request_id + 1
      /\ UNCHANGED <<requests_consumed, served>>
      /\ next_request_id \in Nat /\ next_request_id = requests_consumed + count + 1
  BY DEF IInv, DecisionsHold, RingConsistent, TypeOK, Produce, Goto, put
<1>2. Pending /\ Pending'
  BY PendingIs, PTL
<1>3. /\ requests_consumed \in Nat /\ count \in Nat
      /\ pending = Following(requests_consumed, count)
      /\ pending' = Following(requests_consumed, count + 1)
  BY <1>1, <1>2 DEF Pending
<1>4. /\ Len(pending) = count
      /\ pending' = Append(pending, next_request_id)
  BY <1>1, <1>3, FollowingSeq, FollowingAppend
<1> QED
  BY <1>1, <1>4 DEF Queue!Accept

(* get() serves the oldest request. *)
LEMMA ConsumeServes ==
  ASSUME IInv, IInv', NEW c \in Consumers, Consume(c)
  PROVE  Queue!Serve
<1>1. /\ count > 0 /\ count' = count - 1 /\ requests_consumed' = requests_consumed + 1
      /\ UNCHANGED next_request_id
  BY DEF IInv, DecisionsHold, Consume, Goto, get
<1>2. Pending /\ Pending'
  BY PendingIs, PTL
<1>3. /\ requests_consumed \in Nat /\ count \in Nat
      /\ pending = Following(requests_consumed, count)
      /\ pending' = Following(requests_consumed + 1, count - 1)
      /\ served = Following(0, requests_consumed)
      /\ served' = Following(0, requests_consumed + 1)
  BY <1>1, <1>2 DEF Pending, IInv, RingConsistent
<1>4. pending # << >> /\ Head(pending) = requests_consumed + 1 /\ pending' = Tail(pending)
  BY <1>1, <1>3, FollowingTake
<1>5. served' = Append(served, Head(pending))
  BY <1>3, <1>4, ServedAppend
<1> QED
  BY <1>1, <1>4, <1>5 DEF Queue!Serve

(* Every other step leaves the queue alone. *)
LEMMA OthersStutter ==
  ASSUME UNCHANGED shared
  PROVE  UNCHANGED Queue!vars
  BY DEF shared, ring, Queue!vars, pending

LEMMA NextImplements == IInv /\ IInv' /\ [Next]_vars => [Queue!Next]_(Queue!vars)
<1> SUFFICES ASSUME IInv, IInv', Next \/ UNCHANGED vars
             PROVE  Queue!Next \/ UNCHANGED Queue!vars
  OBVIOUS
<1>1. CASE \E p \in Producers : Produce(p)
  BY <1>1, ProduceAccepts DEF Queue!Next
<1>2. CASE \E c \in Consumers : Consume(c)
  BY <1>2, ConsumeServes DEF Queue!Next
<1>3. CASE /\ ~ \E p \in Producers : Produce(p)
           /\ ~ \E c \in Consumers : Consume(c)
  <2>1. UNCHANGED shared
    BY <1>3 DEF Next, Producer, Consumer, Lock, Reacquire, Wait, Signal, SpuriousWakeup,
       Unlock, Release, ProducerExit, ProducerWait, ProducerProceed, ConsumerExit,
       ConsumerWait, ConsumerProceed, Complete, vars
  <2> QED
    BY <2>1, OthersStutter
<1> QED
  BY <1>1, <1>2, <1>3

(* The server implements the safety of the abstract queue. *)
THEOREM Implementation == Spec => Queue!Spec
  BY InitImplements, NextImplements, Invariance, PTL DEF Spec, Queue!Spec
=============================================================================
