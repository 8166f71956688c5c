--------------------------- MODULE BatchScheduler ---------------------------
(***************************************************************************)
(* The schedulers that run each task to the end of its burst:              *)
(* schedule_fcfs.c, schedule_sjf.c and schedule_priority.c, each linked    *)
(* with driver.c, list.c and CPU.c to a program of its own.  They differ   *)
(* in how the next task is found; policy says which program it is.         *)
(***************************************************************************)
EXTENDS TaskList, Timelines

VARIABLES
  policy,     \* the program: "fcfs", "sjf" or "priority"
  phase,      \* "adding" in main(), "scheduling" in schedule(), "reported"
  temp,       \* fcfs: the position of the node temp points at
  current_time, total_wait_time, total_turnaround_time, total_response_time,
  task_count,
  log         \* the "Running task" lines of run(), as [task, slice]

totals == <<current_time, total_wait_time, total_turnaround_time, total_response_time>>
vars   == <<file, task_list, policy, phase, temp, totals, task_count, log>>

Init ==
  /\ file = << >> /\ task_list = << >>
  /\ policy \in {"fcfs", "sjf", "priority"}
  /\ phase = "adding"
  /\ temp = 1
  /\ current_time = 0 /\ total_wait_time = 0
  /\ total_turnaround_time = 0 /\ total_response_time = 0
  /\ task_count = 0
  /\ log = << >>

----------------------------------------------------------------------------

add ==
  /\ phase = "adding"
  /\ \E line \in Lines : ReadLine(line)
  /\ UNCHANGED <<policy, phase, temp, totals, task_count, log>>

(* The end of the file: schedule() first reverses the list, for fcfs, or   *)
(* counts it.                                                              *)
StartFcfs ==
  /\ policy = "fcfs"
  /\ task_list' = Reverse(task_list)
  /\ UNCHANGED task_count

StartCounting ==
  /\ policy # "fcfs"
  /\ task_count' = Len(task_list)
  /\ UNCHANGED task_list

Start ==
  /\ phase = "adding"
  /\ phase' = "scheduling"
  /\ StartFcfs \/ StartCounting
  /\ UNCHANGED <<file, policy, temp, totals, log>>

(* One round of the loop, for the task t it found. *)
RunTask_WaitsForItself(t) ==   \* faulty: the clock advances before the sums
  /\ log' = Append(log, [task |-> t, slice |-> file[t].burst])
  /\ current_time' = current_time + file[t].burst
  /\ total_response_time' = total_response_time + current_time'
  /\ total_wait_time' = total_wait_time + current_time'
  /\ total_turnaround_time' = total_turnaround_time + current_time'
  /\ UNCHANGED <<file, policy, phase>>

RunTask(t) ==
  /\ log' = Append(log, [task |-> t, slice |-> file[t].burst])
  /\ total_response_time' = total_response_time + current_time
  /\ total_wait_time' = total_wait_time + current_time
  /\ current_time' = current_time + file[t].burst
  /\ total_turnaround_time' = total_turnaround_time + current_time'
  /\ UNCHANGED <<file, policy, phase>>

FcfsRuns ==
  /\ phase = "scheduling" /\ policy = "fcfs"
  /\ temp <= Len(task_list)
  /\ RunTask(task_list[temp])
  /\ temp' = temp + 1
  /\ task_count' = task_count + 1
  /\ UNCHANGED task_list

Better(t, u) ==
  \/ policy = "sjf" /\ file[t].burst < file[u].burst
  \/ policy = "priority" /\ file[t].priority > file[u].priority

(* Faulty: of equals the last one is taken, as a <= would. *)
pickNextTask_LastOfEquals ==
  task_list[CHOOSE i \in DOMAIN task_list :
              /\ \A j \in DOMAIN task_list : ~ Better(task_list[j], task_list[i])
              /\ \A j \in i + 1 .. Len(task_list) : Better(task_list[i], task_list[j])]

(* Faulty: the search compares with the head instead of the best so far. *)
pickNextTask_BetterThanHead ==
  LET better == SelectSeq(task_list, LAMBDA t : Better(t, task_list[1]))
  IN  IF better = << >> THEN task_list[1] ELSE Last(better)

(* The first of the best in the list. *)
pickNextTask ==
  task_list[CHOOSE i \in DOMAIN task_list :
              /\ \A j \in DOMAIN task_list : ~ Better(task_list[j], task_list[i])
              /\ \A j \in 1 .. i - 1 : Better(task_list[i], task_list[j])]

(* Faulty: the task is counted once more when it runs, as in fcfs. *)
PickedRuns_CountsAgain ==
  /\ phase = "scheduling" /\ policy # "fcfs"
  /\ task_list # << >>
  /\ RunTask(pickNextTask)
  /\ task_list' = delete(task_list, pickNextTask, file)
  /\ task_count' = task_count + 1
  /\ UNCHANGED temp

(* Faulty: the task that ran stays in the list. *)
PickedRuns_NoDelete ==
  /\ phase = "scheduling" /\ policy # "fcfs"
  /\ task_list # << >>
  /\ RunTask(pickNextTask)
  /\ UNCHANGED <<task_list, temp, task_count>>

PickedRuns ==
  /\ phase = "scheduling" /\ policy # "fcfs"
  /\ task_list # << >>
  /\ RunTask(pickNextTask)
  /\ task_list' = delete(task_list, pickNextTask, file)
  /\ UNCHANGED <<temp, task_count>>

(* The averages are printed: the sums divided by task_count. *)
Report ==
  /\ phase = "scheduling"
  /\ IF policy = "fcfs" THEN temp > Len(task_list) ELSE task_list = << >>
  /\ phase' = "reported"
  /\ UNCHANGED <<file, task_list, policy, temp, totals, task_count, log>>

Terminated == phase = "reported" /\ UNCHANGED vars

Next == add \/ Start \/ FcfsRuns \/ PickedRuns \/ Report \/ Terminated

Spec     == Init /\ [][Next]_vars
FairSpec == Spec /\ WF_vars(Next)

----------------------------------------------------------------------------
(* Properties *)

(* The variables keep their types; temp does not leave the list by more    *)
(* than the NULL behind its end.                                           *)
TypeOK ==
  /\ file \in Seq(Lines)
  /\ task_list \in Seq(Tasks)
  /\ policy \in {"fcfs", "sjf", "priority"}
  /\ phase \in {"adding", "scheduling", "reported"}
  /\ temp \in 1 .. Len(task_list) + 1
  /\ current_time \in Nat
  /\ total_wait_time \in Nat
  /\ total_turnaround_time \in Nat
  /\ total_response_time \in Nat
  /\ task_count \in 0 .. Len(file)
  /\ log \in Seq([task : Tasks, slice : Bursts])

(* Each program is a CPU that runs every task once, for its burst.         *)
Timeline == INSTANCE CpuTimeline WITH
              demand <- [t \in Tasks |-> file[t].burst], timeline <- log

ImplementsTimeline == Timeline!FairSpec

(* The averages are those of the timeline: the sums are the tasks'         *)
(* response, turnaround and waiting times and are divided by their number. *)
ReportCorrect ==
  phase = "reported" =>
    /\ task_count = Len(file)
    /\ total_response_time = SumOf([t \in Tasks |-> Response(log, t)])
    /\ total_turnaround_time = SumOf([t \in Tasks |-> Turnaround(log, t)])
    /\ total_wait_time = SumOf([t \in Tasks |-> Turnaround(log, t) - file[t].burst])

(* Whether the policy runs t before u: fcfs by lines; the others by burst  *)
(* or priority, and of equals the one read last, which is the order in     *)
(* which insert() leaves them in the list.                                 *)
Before(t, u) ==
  IF policy = "fcfs" THEN t < u
  ELSE Better(t, u) \/ (~ Better(u, t) /\ t > u)

(* Tasks run in the order of the policy: what runs now goes before all     *)
(* that has not run, however the list was changed in between.              *)
ServesInOrder ==
  \A i \in DOMAIN log, t \in Tasks :
    (\A j \in 1 .. i : log[j].task # t) => Before(log[i].task, t)

(* Shortest-job-first is what it is for: no other order of the same tasks  *)
(* makes them wait less in total.                                          *)
TotalWait(order) ==
  LET before == PartialSums([i \in 1 .. Len(order) |-> file[order[i]].burst])
  IN  SumOf([i \in 1 .. Len(order) |-> before[i - 1]])

WaitsAreMinimal ==
  phase = "reported" /\ policy = "sjf" =>
    \A order \in SetToSeqs(Tasks) : total_wait_time <= TotalWait(order)

(* list.c on delete(): "delete the selected task from the list".           *)
DeletesTheSelected ==
  [][policy # "fcfs" /\ log' # log =>
       ToSet(task_list') = ToSet(task_list) \ {Last(log').task}]_vars
=============================================================================
