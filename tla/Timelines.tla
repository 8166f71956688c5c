----------------------------- MODULE Timelines -----------------------------
(***************************************************************************)
(* The "Running task" lines that run() prints, in order, as a sequence of  *)
(* records [task, slice], and the times that can be read off them: when    *)
(* each slice begins and ends, and when a task first and last runs.        *)
(***************************************************************************)
EXTENDS Integers, Sequences, FiniteSetsExt

(* The sums of the first 0, 1, 2, ... elements of a sequence of numbers. *)
PartialSums(s) ==
  LET sum[n \in 0 .. Len(s)] == IF n = 0 THEN 0 ELSE sum[n - 1] + s[n]
  IN  sum

SumOf(s) == PartialSums(s)[Len(s)]

----------------------------------------------------------------------------

(* The CPU time used up after 0, 1, 2, ... slices. *)
Clock(timeline) == PartialSums([i \in 1 .. Len(timeline) |-> timeline[i].slice])

Begins(timeline, i) == Clock(timeline)[i - 1]
Ends(timeline, i)   == Clock(timeline)[i]

SlicesOf(timeline, t) == {i \in DOMAIN timeline : timeline[i].task = t}

Received(timeline, t) ==
  SumOf([i \in 1 .. Len(timeline) |->
           IF timeline[i].task = t THEN timeline[i].slice ELSE 0])

(* Counted from the start, when all tasks arrive. *)
Response(timeline, t)   == Begins(timeline, Min(SlicesOf(timeline, t)))
Turnaround(timeline, t) == Ends(timeline, Max(SlicesOf(timeline, t)))
=============================================================================
