----------------------------- MODULE CpuTimeline -----------------------------
(***************************************************************************)
(* What every scheduler of "Scheduler Programming Assignment" promises,    *)
(* whatever its policy: the one CPU is given to one task at a time, each   *)
(* task gets exactly its burst, and once it has it never runs again.  The  *)
(* timeline is the program's "Running task" lines; the times a task waits  *)
(* are defined from it alone, so that the sums a scheduler keeps while it  *)
(* runs can be compared with them.                                         *)
(***************************************************************************)
EXTENDS Timelines

CONSTANT Bursts   \* the CPU bursts a task may ask for

VARIABLES demand,    \* the burst of each task, in the order of submission
          timeline   \* the slices given so far: [task, slice]

vars == <<demand, timeline>>

Tasks == DOMAIN demand

Left(t) == demand[t] - Received(timeline, t)

\* A task is finished when it ran and has its burst; a burst of 0 takes a run too.
Finished(t) == SlicesOf(timeline, t) # {} /\ Left(t) = 0

----------------------------------------------------------------------------

Init == demand = << >> /\ timeline = << >>

(* All tasks arrive before the first one runs. *)
Submit ==
  /\ timeline = << >>
  /\ \E b \in Bursts : demand' = Append(demand, b)
  /\ UNCHANGED timeline

(* A slice ends at the end of the burst at the latest. *)
Run(t) ==
  /\ ~ Finished(t)
  /\ \E s \in 0 .. Left(t) :
       /\ s = 0 => Left(t) = 0
       /\ timeline' = Append(timeline, [task |-> t, slice |-> s])
  /\ UNCHANGED demand

RunSome == \E t \in Tasks : Run(t)

Next == Submit \/ RunSome

Spec == Init /\ [][Next]_vars

(* The CPU does not idle while a task is unfinished. *)
FairSpec == Spec /\ WF_vars(RunSome)
=============================================================================
