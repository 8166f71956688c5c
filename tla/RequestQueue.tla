---------------------------- MODULE RequestQueue ----------------------------
(***************************************************************************)
(* What every web-server variant of "Multi Threaded Web Server" promises:  *)
(* requests 1, 2, ..., NumRequests are accepted one after the other into   *)
(* a first-in first-out queue of at most Capacity requests, and each is    *)
(* served once, in the order of acceptance.  No threads, no locks, no      *)
(* ring: the variants are shown to implement this module.                  *)
(***************************************************************************)
EXTENDS Integers, Sequences

CONSTANTS Capacity,     \* QUEUE_SIZE of the variant
          NumRequests   \* NUM_REQUESTS of the variant

VARIABLES queue,     \* the accepted requests not yet served, oldest first
          accepted,  \* how many requests have been accepted
          served     \* the requests served so far, in order

vars == <<queue, accepted, served>>

Init ==
  /\ queue = << >>
  /\ accepted = 0
  /\ served = << >>

(* A producer hands in the next request; there must be room for it. *)
Accept ==
  /\ accepted < NumRequests
  /\ Len(queue) < Capacity
  /\ queue' = Append(queue, accepted + 1)
  /\ accepted' = accepted + 1
  /\ UNCHANGED served

(* A consumer processes the oldest waiting request. *)
Serve ==
  /\ queue # << >>
  /\ served' = Append(served, Head(queue))
  /\ queue' = Tail(queue)
  /\ UNCHANGED accepted

Next == Accept \/ Serve

(* The safety half of the promise. *)
Spec == Init /\ [][Next]_vars

(* With the liveness half: the server does not stop with work left. *)
FairSpec == Spec /\ WF_vars(Next)
=============================================================================
