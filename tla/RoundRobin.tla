----------------------------- MODULE RoundRobin -----------------------------
(***************************************************************************)
(* schedule_rr.c with driver.c, list.c and CPU.c: the list is gone round   *)
(* with a pointer that outlives the deletion of the node it pointed at,    *)
(* and each visit gives a task QUANTUM or what is left of its burst.       *)
(*                                                                         *)
(* add() inserts into two lists.  The second one, original_tasks_head, is  *)
(* only summed up, so the lines of the file stand for it.                  *)
(***************************************************************************)
EXTENDS TaskList, Timelines

CONSTANT QUANTUM   \* the longest slice

ASSUME RoundRobinAssumption == QUANTUM \in Nat \ {0}

VARIABLES
  phase,         \* "adding" in main(), "scheduling" in schedule(), "reported"
  burst,         \* task->burst: what is left of the burst of each task
  has_been_run,  \* task->has_been_run
  temp,          \* the task of the node temp points at, or NULL
  current_time, total_wait_time, total_turnaround_time, total_response_time,
  task_count, total_burst_time,
  log            \* the "Running task" lines of run(), as [task, slice]

sums == <<task_count, total_burst_time>>
vars == <<file, task_list, phase, burst, has_been_run, temp, current_time, total_wait_time,
          total_turnaround_time, total_response_time, sums, log>>

Init ==
  /\ file = << >> /\ task_list = << >>
  /\ phase = "adding"
  /\ burst = << >> /\ has_been_run = << >>
  /\ temp = NULL
  /\ current_time = 0 /\ total_wait_time = 0
  /\ total_turnaround_time = 0 /\ total_response_time = 0
  /\ task_count = 0 /\ total_burst_time = 0
  /\ log = << >>

Timeline == INSTANCE CpuTimeline WITH
              demand <- [t \in Tasks |-> file[t].burst], timeline <- log

----------------------------------------------------------------------------

add ==
  /\ phase = "adding"
  /\ \E line \in Lines : ReadLine(line) /\ burst' = Append(burst, line.burst)
  /\ has_been_run' = Append(has_been_run, FALSE)
  /\ UNCHANGED <<phase, temp, current_time, total_wait_time, total_turnaround_time,
                 total_response_time, sums, log>>

(* The end of the file: schedule() reverses and counts the list and sums   *)
(* up the original bursts.                                                 *)
Start ==
  /\ phase = "adding"
  /\ phase' = "scheduling"
  /\ task_list' = Reverse(task_list)
  /\ task_count' = Len(task_list)
  /\ total_burst_time' = SumOf([t \in Tasks |-> file[t].burst])
  /\ temp' = head(task_list')
  /\ UNCHANGED <<file, burst, has_been_run, current_time, total_wait_time,
                 total_turnaround_time, total_response_time, log>>

(* The task of this round: past the end of the list temp starts again.     *)
task == IF temp = NULL THEN head(task_list) ELSE temp

slice_Full == QUANTUM   \* faulty: a full quantum, however little is left

slice == IF burst[task] > QUANTUM THEN QUANTUM ELSE burst[task]

Advance_FromHead ==   \* faulty: a deletion sends temp back to the head
  IF burst'[task] <= 0
    THEN /\ total_turnaround_time' = total_turnaround_time + current_time'
         /\ task_list' = delete(task_list, task, file)
         /\ temp' = NULL
    ELSE /\ temp' = next(task_list, task)
         /\ UNCHANGED <<total_turnaround_time, task_list>>

Advance_Keeps ==      \* faulty: a task that finishes stays in the list
  IF burst'[task] <= 0
    THEN /\ total_turnaround_time' = total_turnaround_time + current_time'
         /\ temp' = next(task_list, task)
         /\ UNCHANGED task_list
    ELSE /\ temp' = next(task_list, task)
         /\ UNCHANGED <<total_turnaround_time, task_list>>

Advance ==
  IF burst'[task] <= 0
    THEN /\ total_turnaround_time' = total_turnaround_time + current_time'
         /\ temp' = next(task_list, task)
         /\ task_list' = delete(task_list, task, file)
    ELSE /\ temp' = next(task_list, task)
         /\ UNCHANGED <<total_turnaround_time, task_list>>

FirstRun_NotMarked == \* faulty: every run counts as the first
  /\ total_response_time' = total_response_time + current_time
  /\ UNCHANGED has_been_run

FirstRun ==
  IF has_been_run[task]
    THEN UNCHANGED <<has_been_run, total_response_time>>
    ELSE /\ total_response_time' = total_response_time + current_time
         /\ has_been_run' = [has_been_run EXCEPT ![task] = TRUE]

RunSlice ==
  /\ phase = "scheduling"
  /\ task_list # << >>
  /\ FirstRun
  /\ log' = Append(log, [task |-> task, slice |-> slice])
  /\ burst' = [burst EXCEPT ![task] = @ - slice]
  /\ current_time' = current_time + slice
  /\ Advance
  /\ UNCHANGED <<file, phase, total_wait_time, sums>>

(* The waiting time is computed, and the averages are printed unless there *)
(* is no task.                                                             *)
Report ==
  /\ phase = "scheduling"
  /\ task_list = << >>
  /\ total_wait_time' = total_turnaround_time - total_burst_time
  /\ phase' = "reported"
  /\ UNCHANGED <<file, task_list, burst, has_been_run, temp, current_time,
                 total_turnaround_time, total_response_time, sums, log>>

Terminated == phase = "reported" /\ UNCHANGED vars

Next == add \/ Start \/ RunSlice \/ Report \/ Terminated

Spec     == Init /\ [][Next]_vars
FairSpec == Spec /\ WF_vars(Next)

----------------------------------------------------------------------------
(* Properties *)

(* The variables keep their types: no burst becomes negative, and temp is  *)
(* never left pointing at a task that is no longer in the list.            *)
TypeOK ==
  /\ file \in Seq(Lines)
  /\ task_list \in Seq(Tasks)
  /\ phase \in {"adding", "scheduling", "reported"}
  /\ burst \in [Tasks -> Nat]
  /\ has_been_run \in [Tasks -> BOOLEAN]
  /\ temp \in {NULL} \cup ToSet(task_list)
  /\ current_time \in Nat
  /\ total_wait_time \in Nat
  /\ total_turnaround_time \in Nat
  /\ total_response_time \in Nat
  /\ task_count \in 0 .. Len(file)
  /\ total_burst_time \in Nat
  /\ log \in Seq([task : Tasks, slice : 0 .. QUANTUM])

(* However the bursts are cut into slices, each task gets exactly its      *)
(* burst and never runs again after that.                                  *)
ImplementsTimeline == Timeline!FairSpec

(* The averages are those of the timeline, although waiting is computed    *)
(* from two other sums and the response from a flag.                       *)
ReportCorrect ==
  phase = "reported" =>
    /\ task_count = Len(file)
    /\ total_response_time = SumOf([t \in Tasks |-> Response(log, t)])
    /\ total_turnaround_time = SumOf([t \in Tasks |-> Turnaround(log, t)])
    /\ total_wait_time = SumOf([t \in Tasks |-> Turnaround(log, t) - file[t].burst])

(* The tasks take turns in the order of the file: of two that still need   *)
(* the CPU the earlier one is never behind, and never more than one        *)
(* quantum ahead, whichever tasks finished and left the list in between.   *)
TurnsAreFair ==
  phase = "scheduling" =>
    \A t, u \in ToSet(task_list) :
      t < u => Received(log, t) - Received(log, u) \in {0, QUANTUM}
=============================================================================
