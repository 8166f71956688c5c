----------------------------- MODULE LockServer -----------------------------
(***************************************************************************)
(* "Multi Threaded Web Server/locks.c": producers and consumers share a    *)
(* ring buffer under one pthread mutex and busy-wait, by unlocking and     *)
(* locking again, when the ring is full or empty.                          *)
(*                                                                         *)
(* A critical section is three steps: take the mutex, read the shared      *)
(* state and choose a branch, act and later release.  So a step of another *)
(* thread fits between a decision and the action taken on it, and it is    *)
(* the mutex, not the model, that keeps it out.                            *)
(***************************************************************************)
EXTENDS Integers, Sequences

CONSTANTS Producers,     \* the producer threads
          Consumers,     \* the consumer threads
          QUEUE_SIZE,    \* slots of the ring
          NUM_REQUESTS,  \* requests to produce
          Nobody         \* the holder of a free mutex

Threads == Producers \cup Consumers

ASSUME LockServerAssumption ==
  /\ QUEUE_SIZE \in Nat \ {0}
  /\ NUM_REQUESTS \in Nat
  /\ Producers \cap Consumers = {}
  /\ Nobody \notin Threads

VARIABLES
  buffer, count, input_index, output_index,
  next_request_id, requests_consumed,
  lock,     \* the thread that holds the mutex, or Nobody
  pc,       \* where each thread is
  served,   \* the "Processed request" lines of get(), in order
  main      \* main(): "joining" the threads, then "completed"

ring   == <<buffer, count, input_index, output_index>>
shared == <<ring, next_request_id, requests_consumed, served>>
vars   == <<shared, lock, pc, main>>

Slots == 0 .. QUEUE_SIZE - 1

Init ==
  /\ buffer = [i \in Slots |-> 0]
  /\ count = 0
  /\ input_index = 0
  /\ output_index = 0
  /\ next_request_id = 1
  /\ requests_consumed = 0
  /\ lock = Nobody
  /\ pc = [t \in Threads |-> "lock"]
  /\ served = << >>
  /\ main = "joining"

----------------------------------------------------------------------------
(* put() and get() on the ring. *)

(* Faulty: the input index runs past the end of the ring. *)
put_NoWrap(id) ==
  /\ buffer' = [buffer EXCEPT ![input_index] = id]
  /\ input_index' = input_index + 1
  /\ count' = count + 1
  /\ UNCHANGED output_index

put(id) ==
  /\ buffer' = [buffer EXCEPT ![input_index] = id]
  /\ input_index' = (input_index + 1) % QUEUE_SIZE
  /\ count' = count + 1
  /\ UNCHANGED output_index

(* Faulty: the newest request is taken instead of the oldest. *)
get_Newest ==
  /\ served' = Append(served, buffer[(input_index + QUEUE_SIZE - 1) % QUEUE_SIZE])
  /\ output_index' = (output_index + 1) % QUEUE_SIZE
  /\ count' = count - 1
  /\ UNCHANGED <<buffer, input_index>>

get ==
  /\ served' = Append(served, buffer[output_index])
  /\ output_index' = (output_index + 1) % QUEUE_SIZE
  /\ count' = count - 1
  /\ UNCHANGED <<buffer, input_index>>

(* Moves of a thread's program counter, and of the mutex with it. *)

Goto(t, from, to) ==
  /\ pc[t] = from
  /\ pc' = [pc EXCEPT ![t] = to]

Release(t, from, to) ==
  /\ Goto(t, from, to)
  /\ lock' = Nobody
  /\ UNCHANGED <<shared, main>>

----------------------------------------------------------------------------
(* Faulty: a thread enters whoever holds the mutex. *)
Lock_NoExclusion(t) ==
  /\ lock' = t
  /\ Goto(t, "lock", "decide")
  /\ UNCHANGED <<shared, main>>

(* pthread_mutex_lock at the top of both loops.  A thread that sleeps, has *)
(* not been scheduled yet or waits for the mutex is at "lock".             *)
Lock(t) ==
  /\ lock = Nobody
  /\ lock' = t
  /\ Goto(t, "lock", "decide")
  /\ UNCHANGED <<shared, main>>

Unlock(t) == Release(t, "unlock", "lock")

(* producer() *)

ProducerExit(p) ==
  /\ next_request_id > NUM_REQUESTS
  /\ Release(p, "decide", "done")

(* Faulty: the test for room is off by one. *)
ProducerFindsSpace_OffByOne(p) ==
  /\ next_request_id <= NUM_REQUESTS
  /\ count <= QUEUE_SIZE
  /\ Goto(p, "decide", "put")
  /\ UNCHANGED <<shared, lock, main>>

ProducerFindsSpace(p) ==
  /\ next_request_id <= NUM_REQUESTS
  /\ count < QUEUE_SIZE
  /\ Goto(p, "decide", "put")
  /\ UNCHANGED <<shared, lock, main>>

ProducerFindsFull(p) ==
  /\ next_request_id <= NUM_REQUESTS
  /\ count >= QUEUE_SIZE
  /\ Release(p, "decide", "lock")

Produce(p) ==
  /\ Goto(p, "put", "unlock")
  /\ put(next_request_id)
  /\ next_request_id' = next_request_id + 1
  /\ UNCHANGED <<requests_consumed, served, lock, main>>

Producer(p) ==
  \/ Lock(p)
  \/ ProducerExit(p)
  \/ ProducerFindsSpace(p)
  \/ ProducerFindsFull(p)
  \/ Produce(p)
  \/ Unlock(p)

(* consumer() *)

(* Faulty: consumers leave as soon as the last request was produced. *)
ConsumerExit_WhenProduced(c) ==
  /\ next_request_id > NUM_REQUESTS
  /\ Release(c, "decide", "done")

ConsumerExit(c) ==
  /\ requests_consumed >= NUM_REQUESTS
  /\ Release(c, "decide", "done")

ConsumerFindsRequest(c) ==
  /\ requests_consumed < NUM_REQUESTS
  /\ count > 0
  /\ Goto(c, "decide", "get")
  /\ UNCHANGED <<shared, lock, main>>

(* Faulty: the mutex is not released on an empty ring. *)
ConsumerFindsEmpty_KeepsLock(c) ==
  /\ requests_consumed < NUM_REQUESTS
  /\ count <= 0
  /\ Goto(c, "decide", "lock")
  /\ UNCHANGED <<shared, lock, main>>

ConsumerFindsEmpty(c) ==
  /\ requests_consumed < NUM_REQUESTS
  /\ count <= 0
  /\ Release(c, "decide", "lock")

Consume(c) ==
  /\ Goto(c, "get", "unlock")
  /\ get
  /\ requests_consumed' = requests_consumed + 1
  /\ UNCHANGED <<next_request_id, lock, main>>

Consumer(c) ==
  \/ Lock(c)
  \/ ConsumerExit(c)
  \/ ConsumerFindsRequest(c)
  \/ ConsumerFindsEmpty(c)
  \/ Consume(c)
  \/ Unlock(c)

(* main(): the joins return once every thread has returned. *)
Complete ==
  /\ main = "joining"
  /\ \A t \in Threads : pc[t] = "done"
  /\ main' = "completed"
  /\ UNCHANGED <<shared, lock, pc>>

Terminated == main = "completed" /\ UNCHANGED vars

Next ==
  \/ \E p \in Producers : Producer(p)
  \/ \E c \in Consumers : Consumer(c)
  \/ Complete
  \/ Terminated

Spec == Init /\ [][Next]_vars

----------------------------------------------------------------------------
(* Fairness.  Every thread that can take a step other than entering the    *)
(* mutex eventually takes it.  A POSIX mutex does not queue its waiters,   *)
(* so weak fairness of the threads says nothing for a thread that finds    *)
(* the mutex free only now and then; that the scheduler lets such a thread *)
(* in at last is the separate assumption MutexFairness.                    *)

ThreadFairness ==
  /\ \A p \in Producers : WF_vars(Producer(p))
  /\ \A c \in Consumers : WF_vars(Consumer(c))
  /\ WF_vars(Complete)

MutexFairness == \A t \in Threads : SF_vars(Lock(t))

WeakFairSpec == Spec /\ ThreadFairness

FairSpec == WeakFairSpec /\ MutexFairness

----------------------------------------------------------------------------
(* Properties *)

ProducerPlaces == {"lock", "decide", "put", "unlock", "done"}
ConsumerPlaces == {"lock", "decide", "get", "unlock", "done"}
InCritical     == {"decide", "put", "get", "unlock"}

(* The variables of locks.c keep their types: both indices are slots of    *)
(* the ring, the counters are natural and a thread is at one of its places. *)
TypeOK ==
  /\ buffer \in [Slots -> 0 .. NUM_REQUESTS]
  /\ count \in 0 .. QUEUE_SIZE
  /\ input_index \in Slots
  /\ output_index \in Slots
  /\ next_request_id \in 1 .. NUM_REQUESTS + 1
  /\ requests_consumed \in 0 .. NUM_REQUESTS
  /\ lock \in Threads \cup {Nobody}
  /\ pc \in [Threads -> ProducerPlaces \cup ConsumerPlaces]
  /\ \A p \in Producers : pc[p] \in ProducerPlaces
  /\ \A c \in Consumers : pc[c] \in ConsumerPlaces
  /\ served \in Seq(0 .. NUM_REQUESTS)
  /\ main \in {"joining", "completed"}

(* The requests in the ring, oldest first. *)
pending == [i \in 1 .. count |-> buffer[(output_index + i - 1) % QUEUE_SIZE]]

(* What the consumers have processed, followed by what the ring still      *)
(* holds, is the requests produced so far, each once and in order: put()   *)
(* overwrites no waiting request and get() reads no stale slot.            *)
NothingLostOrRepeated ==
  served \o pending = [i \in 1 .. next_request_id - 1 |-> i]

(* What a thread saw when it decided to put() or get() still holds when it *)
(* does: no other thread fills the last slot, takes the last request or    *)
(* issues the last identifier in between.                                  *)
DecisionsHold ==
  /\ \A p \in Producers :
        pc[p] = "put" => count < QUEUE_SIZE /\ next_request_id <= NUM_REQUESTS
  /\ \A c \in Consumers :
        pc[c] = "get" => count > 0 /\ requests_consumed < NUM_REQUESTS

(* No thread of locks.c leaves its loop while there is work of its kind,   *)
(* and main() reports completion only when every request was processed.    *)
NoEarlyExit ==
  /\ (\E p \in Producers : pc[p] = "done") => next_request_id = NUM_REQUESTS + 1
  /\ (\E c \in Consumers : pc[c] = "done") => Len(served) = NUM_REQUESTS
  /\ main = "completed" => \A t \in Threads : pc[t] = "done"

(* The server implements the abstract queue: a put() accepts a request, a  *)
(* get() serves the oldest one, every other step changes nothing, and all  *)
(* requests are served in the end.                                         *)
Queue == INSTANCE RequestQueue WITH
           Capacity <- QUEUE_SIZE, NumRequests <- NUM_REQUESTS,
           queue <- pending, accepted <- next_request_id - 1

ImplementsQueue == Queue!FairSpec

(* All threads return and main() prints "SIMULATION COMPLETED".            *)
Termination == <>(main = "completed")

(* The comment in producer() on a full buffer, "unlock and yield to let    *)
(* consumers work": once the ring is full, a consumer gets to empty a slot. *)
FullBufferDrains == (count = QUEUE_SIZE) ~> (count < QUEUE_SIZE)
=============================================================================
