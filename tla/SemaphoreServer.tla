--------------------------- MODULE SemaphoreServer ---------------------------
(***************************************************************************)
(* "Multi Threaded Web Server/semaphores.c": the ring buffer guarded by    *)
(* three semaphores.  mutex excludes, empty_slots and full_slots count the *)
(* slots a producer may fill and the slots a consumer may empty; there is  *)
(* no variable count.                                                      *)
(*                                                                         *)
(* A thread passes several semaphores in a row, and every sem_wait and     *)
(* sem_post is a step of its own: other threads run between them.  In      *)
(* particular a consumer tests requests_consumed, lets mutex go, and       *)
(* consumes later under a second sem_wait(&mutex) with no second test.     *)
(***************************************************************************)
EXTENDS Integers, Sequences, FiniteSets

CONSTANTS Producers,     \* the producer threads
          Consumers,     \* the consumer threads
          QUEUE_SIZE,    \* slots of the ring
          NUM_REQUESTS   \* requests to produce

Threads == Producers \cup Consumers

ASSUME SemaphoreServerAssumption ==
  /\ QUEUE_SIZE \in Nat \ {0}
  /\ NUM_REQUESTS \in Nat
  /\ IsFiniteSet(Producers) /\ IsFiniteSet(Consumers)
  /\ Producers \cap Consumers = {}

VARIABLES
  buffer, input_index, output_index,
  next_request_id, requests_consumed,
  mutex, empty_slots, full_slots,      \* the values of the semaphores
  pc,       \* where each thread is
  served,   \* the "Processed request" lines of get(), in order
  main      \* main(): "joining" the threads, then "completed"

ring       == <<buffer, input_index, output_index>>
shared     == <<ring, next_request_id, requests_consumed, served>>
semaphores == <<mutex, empty_slots, full_slots>>
vars       == <<shared, semaphores, pc, main>>

Slots == 0 .. QUEUE_SIZE - 1

Init ==
  /\ buffer = [i \in Slots |-> 0]
  /\ input_index = 0
  /\ output_index = 0
  /\ next_request_id = 1
  /\ requests_consumed = 0
  /\ mutex = 1
  /\ empty_slots = QUEUE_SIZE
  /\ full_slots = 0
  /\ pc = [t \in Threads |-> IF t \in Producers THEN "wait_empty" ELSE "wait_mutex"]
  /\ served = << >>
  /\ main = "joining"

----------------------------------------------------------------------------
(* The ring.  put() and get() trust the semaphores: neither looks whether  *)
(* the slot is free or holds a waiting request.                            *)

put(id) ==
  /\ buffer' = [buffer EXCEPT ![input_index] = id]
  /\ input_index' = (input_index + 1) % QUEUE_SIZE
  /\ UNCHANGED output_index

(* Faulty: the slot is not given up, so that the next get() reads it again. *)
get_NoAdvance ==
  /\ served' = Append(served, buffer[output_index])
  /\ UNCHANGED ring

get ==
  /\ served' = Append(served, buffer[output_index])
  /\ output_index' = (output_index + 1) % QUEUE_SIZE
  /\ UNCHANGED <<buffer, input_index>>

(* A thread's step from one place to the next, with a semaphore or without. *)

Goto(t, from, to) ==
  /\ pc[t] = from
  /\ pc' = [pc EXCEPT ![t] = to]

sem_wait(s) == s > 0 /\ s' = s - 1
sem_post(s) == s' = s + 1

LockMutex(t, from, to) ==
  /\ Goto(t, from, to)
  /\ sem_wait(mutex)
  /\ UNCHANGED <<shared, empty_slots, full_slots, main>>

UnlockMutex(t, from, to) ==
  /\ Goto(t, from, to)
  /\ sem_post(mutex)
  /\ UNCHANGED <<shared, empty_slots, full_slots, main>>

WaitEmpty(t, from, to) ==
  /\ Goto(t, from, to)
  /\ sem_wait(empty_slots)
  /\ UNCHANGED <<shared, mutex, full_slots, main>>

PostEmpty(t, from, to) ==
  /\ Goto(t, from, to)
  /\ sem_post(empty_slots)
  /\ UNCHANGED <<shared, mutex, full_slots, main>>

WaitFull(t, from, to) ==
  /\ Goto(t, from, to)
  /\ sem_wait(full_slots)
  /\ UNCHANGED <<shared, mutex, empty_slots, main>>

PostFull(t, from, to) ==
  /\ Goto(t, from, to)
  /\ sem_post(full_slots)
  /\ UNCHANGED <<shared, mutex, empty_slots, main>>

----------------------------------------------------------------------------
(* producer() *)

ProducerFinds(p, to) ==
  /\ Goto(p, "decide", to)
  /\ UNCHANGED <<shared, semaphores, main>>

ProducerFindsWork(p) == next_request_id <= NUM_REQUESTS /\ ProducerFinds(p, "put")
ProducerFindsNone(p) == next_request_id > NUM_REQUESTS /\ ProducerFinds(p, "exit_unlock")

Produce(p) ==
  /\ Goto(p, "put", "unlock")
  /\ put(next_request_id)
  /\ next_request_id' = next_request_id + 1
  /\ UNCHANGED <<requests_consumed, served, semaphores, main>>

(* Faulty: the producer that leaves keeps the empty slot it waited for. *)
ProducerLeaves_KeepsSlot(p) ==
  /\ Goto(p, "exit_post", "done")
  /\ UNCHANGED <<shared, semaphores, main>>

(* Faulty: the post goes to another semaphore than empty_slots. *)
ProducerLeaves_PostsMutex(p) == UnlockMutex(p, "exit_post", "done")
ProducerLeaves_PostsFull(p)  == PostFull(p, "exit_post", "done")

ProducerLeaves(p) == PostEmpty(p, "exit_post", "done")

(* Faulty: the producer fills a slot without waiting for one. *)
ProducerWaits_NoWait(p) ==
  /\ Goto(p, "wait_empty", "wait_mutex")
  /\ UNCHANGED <<shared, semaphores, main>>

ProducerWaits(p) == WaitEmpty(p, "wait_empty", "wait_mutex")

Producer(p) ==
  \/ ProducerWaits(p)
  \/ LockMutex(p, "wait_mutex", "decide")
  \/ ProducerFindsWork(p)
  \/ ProducerFindsNone(p)
  \/ UnlockMutex(p, "exit_unlock", "exit_post")
  \/ ProducerLeaves(p)
  \/ Produce(p)
  \/ UnlockMutex(p, "unlock", "post_full")
  \/ PostFull(p, "post_full", "wait_empty")

(* consumer() *)

ConsumerFinds(c, to) ==
  /\ Goto(c, "decide", to)
  /\ UNCHANGED <<shared, semaphores, main>>

ConsumerFindsWork(c) == requests_consumed < NUM_REQUESTS /\ ConsumerFinds(c, "decide_unlock")
ConsumerFindsNone(c) == requests_consumed >= NUM_REQUESTS /\ ConsumerFinds(c, "exit_unlock")

Consume(c) ==
  /\ Goto(c, "get", "unlock")
  /\ get
  /\ requests_consumed' = requests_consumed + 1
  /\ UNCHANGED <<next_request_id, semaphores, main>>

(* Faulty: the consumer that leaves wakes nobody. *)
ConsumerLeaves_Silently(c) ==
  /\ Goto(c, "exit_post", "done")
  /\ UNCHANGED <<shared, semaphores, main>>

ConsumerLeaves(c) == PostFull(c, "exit_post", "done")

Consumer(c) ==
  \/ LockMutex(c, "wait_mutex", "decide")
  \/ ConsumerFindsWork(c)
  \/ ConsumerFindsNone(c)
  \/ UnlockMutex(c, "exit_unlock", "exit_post")
  \/ ConsumerLeaves(c)
  \/ UnlockMutex(c, "decide_unlock", "wait_full")
  \/ WaitFull(c, "wait_full", "relock")
  \/ LockMutex(c, "relock", "get")
  \/ Consume(c)
  \/ UnlockMutex(c, "unlock", "post_empty")
  \/ PostEmpty(c, "post_empty", "wait_mutex")

(* main(): the joins return once every thread has returned. *)
Complete ==
  /\ main = "joining"
  /\ \A t \in Threads : pc[t] = "done"
  /\ main' = "completed"
  /\ UNCHANGED <<shared, semaphores, pc>>

Terminated == main = "completed" /\ UNCHANGED vars

Next ==
  \/ \E p \in Producers : Producer(p)
  \/ \E c \in Consumers : Consumer(c)
  \/ Complete
  \/ Terminated

Spec == Init /\ [][Next]_vars

(* Every thread that can take a step eventually takes one.  Weak fairness  *)
(* is enough for the semaphores too: no thread of semaphores.c busy-waits, *)
(* so a semaphore is passed on finitely often while a thread waits for it. *)
FairSpec ==
  /\ Spec
  /\ \A p \in Producers : WF_vars(Producer(p))
  /\ \A c \in Consumers : WF_vars(Consumer(c))
  /\ WF_vars(Complete)

----------------------------------------------------------------------------
(* Properties *)

ProducerPlaces == {"wait_empty", "wait_mutex", "decide", "exit_unlock", "exit_post",
                   "put", "unlock", "post_full", "done"}
ConsumerPlaces == {"wait_mutex", "decide", "exit_unlock", "exit_post", "decide_unlock",
                   "wait_full", "relock", "get", "unlock", "post_empty", "done"}
InCritical     == {"decide", "exit_unlock", "put", "decide_unlock", "get", "unlock"}

At(S, places) == {t \in S : pc[t] \in places}

(* The variables of semaphores.c keep their types; mutex is a binary       *)
(* semaphore, no path posts it twice.                                      *)
TypeOK ==
  /\ buffer \in [Slots -> 0 .. NUM_REQUESTS]
  /\ input_index \in Slots
  /\ output_index \in Slots
  /\ next_request_id \in 1 .. NUM_REQUESTS + 1
  /\ requests_consumed \in Nat
  /\ mutex \in {0, 1}
  /\ empty_slots \in Nat
  /\ full_slots \in Nat
  /\ pc \in [Threads -> ProducerPlaces \cup ConsumerPlaces]
  /\ \A p \in Producers : pc[p] \in ProducerPlaces
  /\ \A c \in Consumers : pc[c] \in ConsumerPlaces
  /\ served \in Seq(0 .. NUM_REQUESTS)
  /\ main \in {"joining", "completed"}

(* How many requests are in the ring; negative once a slot was consumed    *)
(* that held none.                                                         *)
count == next_request_id - 1 - requests_consumed

(* Between them the two semaphores and the threads on their way account    *)
(* for every slot: a request in the ring is one that full_slots counts,    *)
(* that its producer is about to post, or that a consumer is about to      *)
(* take, but for the one post of each consumer that has left; every other  *)
(* slot is in empty_slots, held by a producer or about to be posted.       *)
SlotsAccounted ==
  /\ full_slots + Cardinality(At(Producers, {"unlock", "post_full"}))
                + Cardinality(At(Consumers, {"relock", "get"}))
       = count + Cardinality(At(Consumers, {"done"}))
  /\ empty_slots + Cardinality(At(Producers, {"wait_mutex", "decide", "put",
                                              "exit_unlock", "exit_post"}))
                 + Cardinality(At(Consumers, {"unlock", "post_empty"}))
       = QUEUE_SIZE - count

(* A put() never overwrites a request that still waits, and a get() before *)
(* the last request finds a request in its slot.                           *)
SlotsTrusted ==
  /\ \A p \in Producers : pc[p] = "put" => count < QUEUE_SIZE
  /\ \A c \in Consumers : pc[c] = "get" /\ requests_consumed < NUM_REQUESTS => count > 0

(* A consumer that waits when the last request is consumed is woken to     *)
(* consume an old slot again.  Each such overrun is paid for by the post   *)
(* of a consumer that has left: there are fewer of them than consumers.    *)
OverrunBounded ==
  requests_consumed < next_request_id + Cardinality(At(Consumers, {"done"}))

(* The requests in the ring, oldest first, and what was served up to the   *)
(* last request.                                                           *)
pending    == [i \in 1 .. count |-> buffer[(output_index + i - 1) % QUEUE_SIZE]]
servedOnce == SubSeq(served, 1, IF Len(served) < NUM_REQUESTS THEN Len(served) ELSE NUM_REQUESTS)

(* Up to the last request the server implements the abstract queue, and    *)
(* what happens after it changes nothing of what was served before.        *)
Queue == INSTANCE RequestQueue WITH
           Capacity <- QUEUE_SIZE, NumRequests <- NUM_REQUESTS,
           queue <- pending, accepted <- next_request_id - 1, served <- servedOnce

ImplementsQueue == Queue!FairSpec

(* Every thread returns: each consumer that leaves posts full_slots, so no *)
(* other one waits on it for ever.                                         *)
Termination == <>(main = "completed")

(* The comment in consumer() on that post: it lets a waiting consumer      *)
(* "re-check the exit condition and terminate as well", so that nothing is *)
(* consumed after the last request.                                        *)
NothingAfterTheLast ==
  \A c \in Consumers : pc[c] = "get" => requests_consumed < NUM_REQUESTS
=============================================================================
