----------------------------- MODULE PairServer -----------------------------
(***************************************************************************)
(* The earlier web servers, "locks copy.c" and "convar copy.c": one        *)
(* producer and one consumer, each counting its own NUM_REQUESTS rounds,   *)
(* over a ring under a mutex.  A full or empty ring is met by unlocking    *)
(* and locking again in the first, and by a condition variable in the      *)
(* second.  The variable `program` says which of the two is running; the   *)
(* two share the module because their put(), get() and main() are the same.*)
(***************************************************************************)
EXTENDS Integers, Sequences

CONSTANTS QUEUE_SIZE, NUM_REQUESTS

ASSUME PairServerAssumption ==
  /\ QUEUE_SIZE \in Nat \ {0}
  /\ NUM_REQUESTS \in Nat

Threads == {"producer", "consumer"}
Slots == 0 .. QUEUE_SIZE - 1

VARIABLES
  program,      \* "locks" or "convar"
  buffer, count, input_index, output_index,
  produced,     \* the rounds the producer's for loop has completed put() in
  consumed,     \* and the consumer's get()
  lock,         \* the thread that holds the mutex, or "nobody"
  pc,           \* where each thread is
  served,       \* the "Processed request" lines of get(), in order
  main          \* main(): "joining" the threads, then "completed"

shared == <<buffer, count, input_index, output_index, produced, consumed, served>>
vars   == <<program, shared, lock, pc, main>>

Init ==
  /\ program \in {"locks", "convar"}
  /\ buffer = [s \in Slots |-> 0]
  /\ count = 0 /\ input_index = 0 /\ output_index = 0
  /\ produced = 0 /\ consumed = 0
  /\ lock = "nobody"
  /\ pc = [t \in Threads |-> IF NUM_REQUESTS = 0 THEN "done" ELSE "lock"]
  /\ served = << >>
  /\ main = "joining"

Goto(t, from, to) ==
  /\ pc[t] = from
  /\ pc' = [pc EXCEPT ![t] = to]

(* A thread that sleeps between two rounds, or comes back from a condition *)
(* wait to test its condition again, is at "lock" too.                     *)
Lock(t) ==
  /\ lock = "nobody"
  /\ lock' = t
  /\ Goto(t, "lock", "decide")
  /\ UNCHANGED <<program, shared, main>>

Release(t, from, to) ==
  /\ Goto(t, from, to)
  /\ lock' = "nobody"
  /\ UNCHANGED <<program, shared, main>>

Proceed(t, from, to) ==
  /\ Goto(t, from, to)
  /\ UNCHANGED <<program, shared, lock, main>>

AfterAction == IF program = "convar" THEN "signal" ELSE "unlock"

(* Faulty: the input index runs past the end of the ring. *)
put_NoWrap(id) ==
  /\ buffer' = [buffer EXCEPT ![input_index] = id]
  /\ input_index' = input_index + 1
  /\ count' = count + 1

put(id) ==
  /\ buffer' = [buffer EXCEPT ![input_index] = id]
  /\ input_index' = (input_index + 1) % QUEUE_SIZE
  /\ count' = count + 1

get ==
  /\ served' = Append(served, buffer[output_index])
  /\ output_index' = (output_index + 1) % QUEUE_SIZE
  /\ count' = count - 1

Produce ==
  /\ Goto("producer", "put", AfterAction)
  /\ put(produced + 1)
  /\ produced' = produced + 1
  /\ UNCHANGED <<program, output_index, consumed, served, lock, main>>

Consume ==
  /\ Goto("consumer", "get", AfterAction)
  /\ get
  /\ consumed' = consumed + 1
  /\ UNCHANGED <<program, buffer, input_index, produced, lock, main>>

(* The end of a round: on to the next one, or out of the for loop. *)
Unlock(t, rounds) ==
  Release(t, "unlock", IF rounds < NUM_REQUESTS THEN "lock" ELSE "done")

(* pthread_cond_signal: each condition has one thread that can wait on it, *)
(* and a signal sent while it does not wait is lost.                       *)
Signal(t, waiter) ==
  /\ pc[t] = "signal"
  /\ pc' = [pc EXCEPT ![t] = "unlock",
                      ![waiter] = IF @ = "blocked" THEN "lock" ELSE @]
  /\ UNCHANGED <<program, shared, lock, main>>

(* pthread_cond_wait may return without a signal. *)
SpuriousWakeup(t) == Proceed(t, "blocked", "lock")

----------------------------------------------------------------------------
(* producer() and consumer() of "locks copy.c" *)

locks_producer ==
  /\ program = "locks"
  /\ \/ Lock("producer")
     \/ count < QUEUE_SIZE /\ Proceed("producer", "decide", "put")
     \/ count >= QUEUE_SIZE /\ Release("producer", "decide", "lock")
     \/ Produce
     \/ Unlock("producer", produced)

locks_consumer ==
  /\ program = "locks"
  /\ \/ Lock("consumer")
     \/ count > 0 /\ Proceed("consumer", "decide", "get")
     \/ count <= 0 /\ Release("consumer", "decide", "lock")
     \/ Consume
     \/ Unlock("consumer", consumed)

(* and those of "convar copy.c" *)

convar_producer ==
  /\ program = "convar"
  /\ \/ Lock("producer")
     \/ count = QUEUE_SIZE /\ Release("producer", "decide", "blocked")
     \/ count # QUEUE_SIZE /\ Proceed("producer", "decide", "put")
     \/ Produce
     \/ Signal("producer", "consumer")
     \/ Unlock("producer", produced)

(* Faulty: the consumer leaves a waiting producer unsignalled. *)
convar_consumer_NoSignal ==
  /\ program = "convar"
  /\ \/ Lock("consumer")
     \/ count = 0 /\ Release("consumer", "decide", "blocked")
     \/ count # 0 /\ Proceed("consumer", "decide", "get")
     \/ Consume
     \/ Proceed("consumer", "signal", "unlock")
     \/ Unlock("consumer", consumed)

convar_consumer ==
  /\ program = "convar"
  /\ \/ Lock("consumer")
     \/ count = 0 /\ Release("consumer", "decide", "blocked")
     \/ count # 0 /\ Proceed("consumer", "decide", "get")
     \/ Consume
     \/ Signal("consumer", "producer")
     \/ Unlock("consumer", consumed)

Producer == locks_producer \/ convar_producer
Consumer == locks_consumer \/ convar_consumer

Complete ==
  /\ main = "joining"
  /\ \A t \in Threads : pc[t] = "done"
  /\ main' = "completed"
  /\ UNCHANGED <<program, shared, lock, pc>>

Terminated == main = "completed" /\ UNCHANGED vars

Next ==
  \/ Producer
  \/ Consumer
  \/ \E t \in Threads : SpuriousWakeup(t)
  \/ Complete
  \/ Terminated

Spec == Init /\ [][Next]_vars

(* Strong fairness of Lock: the mutex is free only now and then while the  *)
(* other thread busy-waits, or wakes up without a signal, over and over.   *)
FairSpec ==
  /\ Spec
  /\ WF_vars(Producer) /\ WF_vars(Consumer) /\ WF_vars(Complete)
  /\ \A t \in Threads : SF_vars(Lock(t))

----------------------------------------------------------------------------
(* Properties *)

Places     == {"lock", "decide", "put", "get", "signal", "blocked", "unlock", "done"}
InCritical == {"decide", "put", "get", "signal", "unlock"}

(* The variables of the two programs keep their types: both indices are    *)
(* slots of the ring and neither thread goes past its last round.          *)
TypeOK ==
  /\ program \in {"locks", "convar"}
  /\ buffer \in [Slots -> 0 .. NUM_REQUESTS]
  /\ count \in 0 .. QUEUE_SIZE
  /\ input_index \in Slots /\ output_index \in Slots
  /\ produced \in 0 .. NUM_REQUESTS /\ consumed \in 0 .. NUM_REQUESTS
  /\ lock \in Threads \cup {"nobody"}
  /\ pc \in [Threads -> Places]
  /\ served \in Seq(0 .. NUM_REQUESTS)
  /\ main \in {"joining", "completed"}

(* The requests in the ring, oldest first. *)
pending == [j \in 1 .. count |-> buffer[(output_index + j - 1) % QUEUE_SIZE]]

(* Both programs implement the abstract queue although neither thread      *)
(* knows of the other's loop counter: every put() accepts the next         *)
(* request, every get() serves the oldest one, and neither thread is left  *)
(* waiting for rounds that the other has already done.                     *)
Queue == INSTANCE RequestQueue WITH
           Capacity <- QUEUE_SIZE, NumRequests <- NUM_REQUESTS,
           queue <- pending, accepted <- produced

ImplementsQueue == Queue!FairSpec
=============================================================================
