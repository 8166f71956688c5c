----------------------------- MODULE PriorityRR -----------------------------
(***************************************************************************)
(* schedule_priority_rr.c with driver.c, list.c and CPU.c.  The outer loop *)
(* finds the highest priority that is left; the inner one passes over the  *)
(* list again and again, giving each task of that priority a slice, until  *)
(* a pass meets none.  A pass goes on over the list while finished tasks   *)
(* are taken out of it.                                                    *)
(*                                                                         *)
(* The list is never reversed: tasks are in it from the last line of the   *)
(* file to the first.  original_tasks_head, which is reversed, is the      *)
(* lines of the file in order.                                             *)
(***************************************************************************)
EXTENDS TaskList, Timelines

CONSTANT QUANTUM   \* the longest slice

ASSUME PriorityRRAssumption == QUANTUM \in Nat \ {0}

VARIABLES
  at,     \* "adding" in main(); in schedule() "outer", "pass", then "reported"
  burst,  \* task->burst: what is left of the burst of each task
  temp,   \* the task of the node temp points at, or NULL
  highest_priority, tasks_at_priority_level,
  current_time, total_wait_time, total_turnaround_time, total_response_time,
  task_count, total_burst_time,
  log     \* the "Running task" lines of run(), as [task, slice]

sums == <<task_count, total_burst_time>>
cpu  == <<burst, current_time, total_turnaround_time, total_response_time, log>>
vars == <<file, task_list, at, temp, highest_priority, tasks_at_priority_level,
          total_wait_time, sums, cpu>>

Init ==
  /\ file = << >> /\ task_list = << >>
  /\ at = "adding"
  /\ burst = << >>
  /\ temp = NULL
  /\ highest_priority = -1 /\ tasks_at_priority_level = 0
  /\ current_time = 0 /\ total_wait_time = 0
  /\ total_turnaround_time = 0 /\ total_response_time = 0
  /\ task_count = 0 /\ total_burst_time = 0
  /\ log = << >>

Timeline == INSTANCE CpuTimeline WITH
              demand <- [t \in Tasks |-> file[t].burst], timeline <- log

----------------------------------------------------------------------------

add ==
  /\ at = "adding"
  /\ \E line \in Lines : ReadLine(line) /\ burst' = Append(burst, line.burst)
  /\ UNCHANGED <<at, temp, highest_priority, tasks_at_priority_level, total_wait_time, sums,
                 current_time, total_turnaround_time, total_response_time, log>>

(* The end of the file: schedule() counts the tasks and sums up the        *)
(* original bursts.                                                        *)
Start ==
  /\ at = "adding"
  /\ at' = "outer"
  /\ task_count' = Len(file)
  /\ total_burst_time' = SumOf([t \in Tasks |-> file[t].burst])
  /\ UNCHANGED <<file, task_list, temp, highest_priority, tasks_at_priority_level,
                 total_wait_time, cpu>>

Remaining == {file[t].priority : t \in ToSet(task_list)}

highest_OfHead      == file[task_list[1]].priority         \* faulty: the head's
highest_FromMinimum == Max({1} \cup Remaining)    \* faulty: from MIN_PRIORITY on

highest == Max({-1} \cup Remaining)

(* The outer loop: the highest priority of at least -1, and the first pass. *)
FindHighest ==
  /\ at = "outer"
  /\ task_list # << >>
  /\ highest_priority' = highest
  /\ tasks_at_priority_level' = 0
  /\ temp' = head(task_list)
  /\ at' = "pass"
  /\ UNCHANGED <<file, task_list, total_wait_time, sums, cpu>>

(* The burst in the first original task of the same name. *)
original_burst_Shared == burst[temp]   \* faulty: both lists hold the same task

original_burst ==
  LET same == {t \in Tasks : file[t].name = file[temp].name}
  IN  file[Min(same)].burst

slice_Full == QUANTUM   \* faulty: a full quantum, however little is left

slice == IF burst[temp] > QUANTUM THEN QUANTUM ELSE burst[temp]

FirstRun ==
  IF burst[temp] = original_burst
    THEN total_response_time' = total_response_time + current_time
    ELSE UNCHANGED total_response_time

Advance_FromHead ==   \* faulty: a deletion sends temp back to the head
  IF burst'[temp] <= 0
    THEN /\ total_turnaround_time' = total_turnaround_time + current_time'
         /\ task_list' = delete(task_list, temp, file)
         /\ temp' = head(task_list')
    ELSE /\ temp' = next(task_list, temp)
         /\ UNCHANGED <<total_turnaround_time, task_list>>

Advance_BelowZero ==  \* faulty: only a negative burst is finished
  IF burst'[temp] < 0
    THEN /\ total_turnaround_time' = total_turnaround_time + current_time'
         /\ task_list' = delete(task_list, temp, file)
         /\ temp' = next(task_list, temp)
    ELSE /\ temp' = next(task_list, temp)
         /\ UNCHANGED <<total_turnaround_time, task_list>>

Advance ==
  IF burst'[temp] <= 0
    THEN /\ total_turnaround_time' = total_turnaround_time + current_time'
         /\ temp' = next(task_list, temp)
         /\ task_list' = delete(task_list, temp, file)
    ELSE /\ temp' = next(task_list, temp)
         /\ UNCHANGED <<total_turnaround_time, task_list>>

(* The pass meets a task of the highest priority. *)
RunSlice ==
  /\ at = "pass"
  /\ temp # NULL /\ file[temp].priority = highest_priority
  /\ tasks_at_priority_level' = tasks_at_priority_level + 1
  /\ FirstRun
  /\ log' = Append(log, [task |-> temp, slice |-> slice])
  /\ burst' = [burst EXCEPT ![temp] = @ - slice]
  /\ current_time' = current_time + slice
  /\ Advance
  /\ UNCHANGED <<file, at, highest_priority, total_wait_time, sums>>

(* It meets another task. *)
Skip ==
  /\ at = "pass"
  /\ temp # NULL /\ file[temp].priority # highest_priority
  /\ temp' = next(task_list, temp)
  /\ UNCHANGED <<file, task_list, at, highest_priority, tasks_at_priority_level,
                 total_wait_time, sums, cpu>>

(* It comes to the end of the list: another pass, or back to the outer     *)
(* loop if it met none.                                                    *)
PassAgain ==
  /\ at = "pass"
  /\ temp = NULL
  /\ tasks_at_priority_level > 0
  /\ tasks_at_priority_level' = 0
  /\ temp' = head(task_list)
  /\ UNCHANGED <<file, task_list, at, highest_priority, total_wait_time, sums, cpu>>

LeavePass ==
  /\ at = "pass"
  /\ temp = NULL
  /\ tasks_at_priority_level = 0
  /\ at' = "outer"
  /\ UNCHANGED <<file, task_list, temp, highest_priority, tasks_at_priority_level,
                 total_wait_time, sums, cpu>>

(* The waiting time is computed and the averages are printed. *)
Report ==
  /\ at = "outer"
  /\ task_list = << >>
  /\ total_wait_time' = total_turnaround_time - total_burst_time
  /\ at' = "reported"
  /\ UNCHANGED <<file, task_list, temp, highest_priority, tasks_at_priority_level, sums, cpu>>

Terminated == at = "reported" /\ UNCHANGED vars

Next == \/ add \/ Start \/ FindHighest \/ RunSlice \/ Skip
        \/ PassAgain \/ LeavePass \/ Report \/ Terminated

Spec     == Init /\ [][Next]_vars
FairSpec == Spec /\ WF_vars(Next)

----------------------------------------------------------------------------
(* Properties *)

(* The variables keep their types; temp never points at a task that has    *)
(* left the list, nor does the count of a pass exceed the tasks.           *)
TypeOK ==
  /\ file \in Seq(Lines)
  /\ task_list \in Seq(Tasks)
  /\ at \in {"adding", "outer", "pass", "reported"}
  /\ burst \in [Tasks -> Nat]
  /\ temp \in {NULL} \cup ToSet(task_list)
  /\ highest_priority \in {-1} \cup Priorities
  /\ tasks_at_priority_level \in 0 .. Len(file)
  /\ current_time \in Nat
  /\ total_wait_time \in Nat
  /\ total_turnaround_time \in Nat
  /\ total_response_time \in Nat
  /\ task_count \in 0 .. Len(file)
  /\ total_burst_time \in Nat
  /\ log \in Seq([task : Tasks, slice : 0 .. QUANTUM])

(* However the bursts are cut into slices, each task gets exactly its      *)
(* burst and never runs again after that; and none is left out.            *)
ImplementsTimeline == Timeline!FairSpec

(* The averages are those of the timeline, although waiting is computed    *)
(* from two other sums and a first run is told by the burst still being    *)
(* the original one.                                                       *)
ReportCorrect ==
  at = "reported" =>
    /\ task_count = Len(file)
    /\ total_response_time = SumOf([t \in Tasks |-> Response(log, t)])
    /\ total_turnaround_time = SumOf([t \in Tasks |-> Turnaround(log, t)])
    /\ total_wait_time = SumOf([t \in Tasks |-> Turnaround(log, t) - file[t].burst])

(* A task does not run before every task of a higher priority is finished, *)
(* that is, has run and has the whole of its burst.                        *)
StrictPriority ==
  \A t, u \in Tasks :
    file[t].priority > file[u].priority /\ SlicesOf(log, u) # {} => Timeline!Finished(t)

(* Tasks of equal priority take turns, the one read last first: it is      *)
(* never behind and never more than a quantum ahead.                       *)
TurnsAreFair ==
  \A t, u \in ToSet(task_list) :
    t < u /\ file[t].priority = file[u].priority
      => Received(log, u) - Received(log, t) \in {0, QUANTUM}

(* The loops come to an end, with every priority found in turn.            *)
Termination == <>(at = "reported")
=============================================================================
