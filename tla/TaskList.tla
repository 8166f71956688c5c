------------------------------ MODULE TaskList ------------------------------
(***************************************************************************)
(* What the schedulers of "Scheduler Programming Assignment" share: the    *)
(* tasks that driver.c reads, one per line of its input file, and the      *)
(* linked list of list.c that holds them.  A task is known by the number   *)
(* of its line.  Names only matter because delete() compares them.         *)
(***************************************************************************)
EXTENDS LinkedList

CONSTANTS Names,          \* the names a line may give
          Priorities,     \* the priorities
          Bursts,         \* the CPU bursts
          MAX_TASKS,      \* bound: lines of the input file
          DistinctNames   \* whether the file gives every task its own name

ASSUME TaskListAssumption ==
  /\ Priorities \subseteq Int
  /\ Bursts \subseteq Nat
  /\ MAX_TASKS \in Nat
  /\ DistinctNames \in BOOLEAN

VARIABLES file,       \* the lines read so far
          task_list   \* task_list_head: the list of tasks

Lines == [name : Names, priority : Priorities, burst : Bursts]
Tasks == DOMAIN file

----------------------------------------------------------------------------
(* The loop of main(), with what add() of every scheduler does.  The file  *)
(* is well formed: each line has its three fields.                         *)
ReadLine(line) ==
  /\ Len(file) < MAX_TASKS
  /\ DistinctNames => \A t \in Tasks : file[t].name # line.name
  /\ file' = Append(file, line)
  /\ task_list' = insert(task_list, Len(file) + 1)
=============================================================================
