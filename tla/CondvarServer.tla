---------------------------- MODULE CondvarServer ----------------------------
(***************************************************************************)
(* "Multi Threaded Web Server/convar.c": the ring buffer as a monitor.     *)
(* One mutex guards all shared state; a producer that finds the ring full  *)
(* waits on the condition buffer_not_full, a consumer that finds it empty  *)
(* on buffer_not_empty, and each put() or get() signals the other side.    *)
(*                                                                         *)
(* pthread_cond_wait releases the mutex and blocks in one step; a thread   *)
(* that was woken must take the mutex again, against threads that arrive   *)
(* meanwhile, before it looks at the state.  POSIX allows a wait to end    *)
(* with no signal: MAX_SPURIOUS bounds how often that happens in a run.    *)
(***************************************************************************)
EXTENDS Integers, Sequences

CONSTANTS Producers,     \* the producer threads
          Consumers,     \* the consumer threads
          QUEUE_SIZE,    \* slots of the ring
          NUM_REQUESTS,  \* requests to produce
          MAX_SPURIOUS,  \* bound on wakeups without a signal
          Nobody         \* the holder of a free mutex

Threads == Producers \cup Consumers

ASSUME CondvarServerAssumption ==
  /\ QUEUE_SIZE \in Nat \ {0}
  /\ NUM_REQUESTS \in Nat
  /\ MAX_SPURIOUS \in Nat
  /\ Producers \cap Consumers = {}
  /\ Producers # {} /\ Consumers # {}
  /\ Nobody \notin Threads

VARIABLES
  buffer, count, input_index, output_index,
  next_request_id, requests_consumed,
  buffer_mutex,  \* the thread that holds the mutex, or Nobody
  pc,            \* where each thread is
  spurious,      \* wakeups without a signal that may still happen
  served,        \* the "Processed request" lines of get(), in order
  main           \* main(): "joining" the threads, then "completed"

ring   == <<buffer, count, input_index, output_index>>
shared == <<ring, next_request_id, requests_consumed, served>>
vars   == <<shared, buffer_mutex, pc, spurious, main>>

Slots == 0 .. QUEUE_SIZE - 1

Init ==
  /\ buffer = [i \in Slots |-> 0]
  /\ count = 0
  /\ input_index = 0
  /\ output_index = 0
  /\ next_request_id = 1
  /\ requests_consumed = 0
  /\ buffer_mutex = Nobody
  /\ pc = [t \in Threads |-> "lock"]
  /\ spurious = MAX_SPURIOUS
  /\ served = << >>
  /\ main = "joining"

----------------------------------------------------------------------------
(* put() and get() on the ring. *)

(* Faulty: the input index runs past the end of the ring. *)
put_NoWrap(id) ==
  /\ buffer' = [buffer EXCEPT ![input_index] = id]
  /\ input_index' = input_index + 1
  /\ count' = count + 1
  /\ UNCHANGED output_index

put(id) ==
  /\ buffer' = [buffer EXCEPT ![input_index] = id]
  /\ input_index' = (input_index + 1) % QUEUE_SIZE
  /\ count' = count + 1
  /\ UNCHANGED output_index

(* Faulty: the output index is advanced before the slot is read. *)
get_AfterAdvance ==
  /\ output_index' = (output_index + 1) % QUEUE_SIZE
  /\ served' = Append(served, buffer[output_index'])
  /\ count' = count - 1
  /\ UNCHANGED <<buffer, input_index>>

get ==
  /\ served' = Append(served, buffer[output_index])
  /\ output_index' = (output_index + 1) % QUEUE_SIZE
  /\ count' = count - 1
  /\ UNCHANGED <<buffer, input_index>>

----------------------------------------------------------------------------
(* The pthread calls. *)

Goto(t, from, to) ==
  /\ pc[t] = from
  /\ pc' = [pc EXCEPT ![t] = to]

(* pthread_mutex_lock: a thread that sleeps, has not been scheduled yet or *)
(* waits for the mutex is at "lock".                                       *)
Lock(t) ==
  /\ buffer_mutex = Nobody
  /\ buffer_mutex' = t
  /\ Goto(t, "lock", "decide")
  /\ UNCHANGED <<shared, spurious, main>>

Release(t, from, to) ==
  /\ Goto(t, from, to)
  /\ buffer_mutex' = Nobody
  /\ UNCHANGED <<shared, spurious, main>>

Unlock(t) == Release(t, "unlock", "lock")

Wait(t) == Release(t, "decide", "blocked")

(* Faulty: the condition is not tested again after the wait, as with an    *)
(* if in the place of the while.                                           *)
Reacquire_NoRetest(t) ==
  /\ buffer_mutex = Nobody
  /\ buffer_mutex' = t
  /\ Goto(t, "woken", IF t \in Producers THEN "put" ELSE "get")
  /\ UNCHANGED <<shared, spurious, main>>

(* The return of pthread_cond_wait, with the mutex.  What follows it, the  *)
(* exit test and the loop condition, is what follows "lock".               *)
Reacquire(t) ==
  /\ buffer_mutex = Nobody
  /\ buffer_mutex' = t
  /\ Goto(t, "woken", "decide")
  /\ UNCHANGED <<shared, spurious, main>>

Blocked(S) == {t \in S : pc[t] = "blocked"}

(* Faulty: the signal goes to the threads of the signaller's own kind. *)
Signal_OwnSide(t, waiters) ==
  LET side == IF t \in Producers THEN Producers ELSE Consumers
  IN  /\ pc[t] = "signal"
      /\ \/ \E w \in Blocked(side) :
              pc' = [pc EXCEPT ![t] = "unlock", ![w] = "woken"]
         \/ Blocked(side) = {} /\ pc' = [pc EXCEPT ![t] = "unlock"]
      /\ UNCHANGED <<shared, buffer_mutex, spurious, main>>

(* pthread_cond_signal on the condition that `waiters` wait on: one of     *)
(* those blocked is woken, and a signal that finds none is lost.           *)
Signal(t, waiters) ==
  /\ pc[t] = "signal"
  /\ \/ \E w \in Blocked(waiters) :
          pc' = [pc EXCEPT ![t] = "unlock", ![w] = "woken"]
     \/ Blocked(waiters) = {} /\ pc' = [pc EXCEPT ![t] = "unlock"]
  /\ UNCHANGED <<shared, buffer_mutex, spurious, main>>

SpuriousWakeup(t) ==
  /\ spurious > 0
  /\ spurious' = spurious - 1
  /\ Goto(t, "blocked", "woken")
  /\ UNCHANGED <<shared, buffer_mutex, main>>

----------------------------------------------------------------------------
(* producer() *)

ProducerExit(p) ==
  /\ next_request_id > NUM_REQUESTS
  /\ Release(p, "decide", "done")

ProducerWait(p) ==
  /\ next_request_id <= NUM_REQUESTS
  /\ count = QUEUE_SIZE
  /\ Wait(p)

ProducerProceed(p) ==
  /\ next_request_id <= NUM_REQUESTS
  /\ count # QUEUE_SIZE
  /\ Goto(p, "decide", "put")
  /\ UNCHANGED <<shared, buffer_mutex, spurious, main>>

Produce(p) ==
  /\ Goto(p, "put", "signal")
  /\ put(next_request_id)
  /\ next_request_id' = next_request_id + 1
  /\ UNCHANGED <<requests_consumed, served, buffer_mutex, spurious, main>>

Producer(p) ==
  \/ Lock(p)
  \/ ProducerExit(p)
  \/ ProducerWait(p)
  \/ Reacquire(p)
  \/ ProducerProceed(p)
  \/ Produce(p)
  \/ Signal(p, Consumers)
  \/ Unlock(p)

(* consumer() *)

ConsumerExit(c) ==
  /\ requests_consumed >= NUM_REQUESTS
  /\ Release(c, "decide", "done")

(* Faulty: a consumer goes to wait on a ring that is not empty. *)
ConsumerWait_Unconditional(c) ==
  /\ requests_consumed < NUM_REQUESTS
  /\ Wait(c)

ConsumerWait(c) ==
  /\ requests_consumed < NUM_REQUESTS
  /\ count = 0
  /\ Wait(c)

ConsumerProceed(c) ==
  /\ requests_consumed < NUM_REQUESTS
  /\ count # 0
  /\ Goto(c, "decide", "get")
  /\ UNCHANGED <<shared, buffer_mutex, spurious, main>>

Consume(c) ==
  /\ Goto(c, "get", "signal")
  /\ get
  /\ requests_consumed' = requests_consumed + 1
  /\ UNCHANGED <<next_request_id, buffer_mutex, spurious, main>>

Consumer(c) ==
  \/ Lock(c)
  \/ ConsumerExit(c)
  \/ ConsumerWait(c)
  \/ Reacquire(c)
  \/ ConsumerProceed(c)
  \/ Consume(c)
  \/ Signal(c, Producers)
  \/ Unlock(c)

(* main(): the joins return once every thread has returned. *)
Complete ==
  /\ main = "joining"
  /\ \A t \in Threads : pc[t] = "done"
  /\ main' = "completed"
  /\ UNCHANGED <<shared, buffer_mutex, pc, spurious>>

Next ==
  \/ \E p \in Producers : Producer(p)
  \/ \E c \in Consumers : Consumer(c)
  \/ \E t \in Threads : SpuriousWakeup(t)
  \/ Complete

Spec == Init /\ [][Next]_vars

(* Every thread that can take a step eventually takes one; a wakeup        *)
(* without a signal is never owed.  Weak fairness is enough for the mutex: *)
(* every time it is taken something is produced, consumed or waited for,   *)
(* so it cannot be passed round for ever while a thread stands at "lock".  *)
FairSpec ==
  /\ Spec
  /\ \A p \in Producers : WF_vars(Producer(p))
  /\ \A c \in Consumers : WF_vars(Consumer(c))
  /\ WF_vars(Complete)

----------------------------------------------------------------------------
(* Properties *)

CommonPlaces   == {"lock", "decide", "blocked", "woken", "signal", "unlock", "done"}
ProducerPlaces == CommonPlaces \cup {"put"}
ConsumerPlaces == CommonPlaces \cup {"get"}
InCritical     == {"decide", "put", "get", "signal", "unlock"}

(* The variables of convar.c keep their types: both indices are slots of   *)
(* the ring, the counters are natural and a thread is at one of its places. *)
TypeOK ==
  /\ buffer \in [Slots -> 0 .. NUM_REQUESTS]
  /\ count \in 0 .. QUEUE_SIZE
  /\ input_index \in Slots
  /\ output_index \in Slots
  /\ next_request_id \in 1 .. NUM_REQUESTS + 1
  /\ requests_consumed \in 0 .. NUM_REQUESTS
  /\ buffer_mutex \in Threads \cup {Nobody}
  /\ pc \in [Threads -> ProducerPlaces \cup ConsumerPlaces]
  /\ \A p \in Producers : pc[p] \in ProducerPlaces
  /\ \A c \in Consumers : pc[c] \in ConsumerPlaces
  /\ spurious \in 0 .. MAX_SPURIOUS
  /\ served \in Seq(0 .. NUM_REQUESTS)
  /\ main \in {"joining", "completed"}

(* The requests in the ring, oldest first. *)
pending == [i \in 1 .. count |-> buffer[(output_index + i - 1) % QUEUE_SIZE]]

(* What the consumers have processed, followed by what the ring still      *)
(* holds, is the requests produced so far, each once and in order.         *)
NothingLostOrRepeated ==
  served \o pending = [i \in 1 .. next_request_id - 1 |-> i]

(* A thread that leaves the wait loop acts on a condition that holds: a    *)
(* wakeup that another thread has overtaken, or that nobody signalled,     *)
(* leads neither to a put() into a full ring nor to a get() from an empty  *)
(* one, nor to a request beyond the last.                                  *)
DecisionsHold ==
  /\ \A p \in Producers :
        pc[p] = "put" => count < QUEUE_SIZE /\ next_request_id <= NUM_REQUESTS
  /\ \A c \in Consumers :
        pc[c] = "get" => count > 0 /\ requests_consumed < NUM_REQUESTS

(* One signal per put() and get() is enough to keep the server going.  If  *)
(* a request waits, some consumer is awake to take it or a producer is     *)
(* about to signal; if there is room and there are requests left to        *)
(* produce, some producer is awake or a consumer is about to signal.       *)
NoLostWakeup ==
  /\ count > 0 =>
       \/ \E c \in Consumers : pc[c] \notin {"blocked", "done"}
       \/ \E p \in Producers : pc[p] = "signal"
  /\ count < QUEUE_SIZE /\ next_request_id <= NUM_REQUESTS =>
       \/ \E p \in Producers : pc[p] \notin {"blocked", "done"}
       \/ \E c \in Consumers : pc[c] = "signal"

(* The server implements the abstract queue: a put() accepts a request, a  *)
(* get() serves the oldest one, every other step changes nothing, and all  *)
(* requests are served in the end.                                         *)
Queue == INSTANCE RequestQueue WITH
           Capacity <- QUEUE_SIZE, NumRequests <- NUM_REQUESTS,
           queue <- pending, accepted <- next_request_id - 1

ImplementsQueue == Queue!FairSpec

(* What shutdown does guarantee: both producers return, and the consumer   *)
(* that processed the last request does.                                   *)
ProducersAndAConsumerReturn ==
  <>(/\ \A p \in Producers : pc[p] = "done"
     /\ \E c \in Consumers : pc[c] = "done")

(* What main() waits for ("Wait for threads to finish"): every thread      *)
(* returns and "SIMULATION COMPLETED" is printed.                          *)
EveryThreadReturns == <>(main = "completed")
=============================================================================
