-------------------------- MODULE RoundRobinProofs --------------------------
(***************************************************************************)
(* Theorems about RoundRobin (schedule_rr.c) for files of any length whose *)
(* names differ, any bursts and any quantum.  The list is sorted by the    *)
(* lines of the file while it is gone round, so next leads to the next     *)
(* task that is left, and a task is in the list exactly until it has its   *)
(* burst.  From that follow the types, the sums, the turns and that each   *)
(* task gets the CPU time it asked for.                                    *)
(***************************************************************************)
EXTENDS RoundRobin, Lemmas

Types ==
  /\ file \in Seq(Lines)
  /\ task_list \in Seq(Tasks)
  /\ phase \in {"adding", "scheduling", "reported"}
  /\ burst \in [Tasks -> Nat]
  /\ has_been_run \in [Tasks -> BOOLEAN]
  /\ temp \in {NULL} \cup ToSet(task_list)
  /\ log \in Seq([task : Tasks, slice : 0 .. QUANTUM])
  /\ phase = "adding" => log = << >> /\ temp = NULL

NamesDiffer == \A t, u \in Tasks : file[t].name = file[u].name => t = u

(* The list is the lines read so far backwards, then sorted. *)
ListOrder ==
  /\ phase = "adding" => CountsDown(task_list, Len(file))
  /\ phase # "adding" => Rising(task_list)

(* A task has left the list exactly if it ran and nothing of its burst is  *)
(* left.                                                                   *)
Progress ==
  \A t \in Tasks :
    /\ burst[t] = file[t].burst - Received(log, t)
    /\ has_been_run[t] <=> Ran(log, t)
    /\ t \in ToSet(task_list) <=> ~ (Ran(log, t) /\ burst[t] = 0)

Done == Tasks \ ToSet(task_list)

(* At any time the sums are those of the tasks that have run, or are done. *)
SumsAreOfTimeline ==
  /\ current_time = Now(log)
  /\ total_response_time = TotalResponse(Len(file), log)
  /\ total_turnaround_time = TotalTurnaround(Len(file), log, Done)
  /\ \A t \in Done : file[t].burst <= Turnaround(log, t)

Counted ==
  /\ phase = "adding" => task_count = 0 /\ total_burst_time = 0
  /\ phase # "adding" => /\ task_count = Len(file)
                         /\ total_burst_time = SumOf([t \in Tasks |-> file[t].burst])
  /\ phase # "reported" => total_wait_time = 0
  /\ phase = "reported" => /\ task_list = << >>
                           /\ total_wait_time = total_turnaround_time - total_burst_time

(* The tasks before the one whose turn it is are a quantum ahead.          *)
Turns ==
  phase = "scheduling" /\ task_list # << >> =>
    \A t \in ToSet(task_list) :
      Received(log, t) = Received(log, task) + IF t < task THEN QUANTUM ELSE 0

RInv ==
  /\ Types
  /\ NamesDiffer
  /\ ListOrder
  /\ Progress
  /\ SumsAreOfTimeline
  /\ Counted
  /\ Turns

USE TaskListAssumption, RoundRobinAssumption

----------------------------------------------------------------------------

(* The tasks and their bursts, and the log as a timeline. *)
LEMMA LinesOfTasks ==
  ASSUME Types
  PROVE  /\ Tasks = 1 .. Len(file) /\ Len(file) \in Nat
         /\ Tasks \subseteq Nat \ {0} /\ Tasks \subseteq Int
         /\ ToSet(task_list) \subseteq Tasks
         /\ \A t \in Tasks : file[t].burst \in Nat /\ file[t].burst \in Bursts
         /\ log \in Logs(Tasks)
<1>1. Tasks = 1 .. Len(file) /\ Len(file) \in Nat
  BY LenProperties DEF Types, Tasks
<1>2. ToSet(task_list) \subseteq Tasks
  BY MembersAre DEF Types
<1>3. ASSUME NEW t \in Tasks PROVE file[t].burst \in Nat /\ file[t].burst \in Bursts
  <2>1. file[t] \in Lines
    BY <1>1, ElementOfSeq DEF Types
  <2> QED
    BY <2>1 DEF Lines
<1>4. log \in Logs(Tasks)
  <2>1. 0 .. QUANTUM \subseteq Nat
    OBVIOUS
  <2> QED
    BY <2>1, SlicesInNat DEF Types
<1> QED
  BY <1>1, <1>2, <1>3, <1>4

LEMMA InitRun == Init => RInv
<1> SUFFICES ASSUME Init PROVE RInv
  OBVIOUS
<1>1. /\ Tasks = {} /\ Len(file) = 0 /\ Done = {} /\ log = << >>
      /\ file \in Seq(Lines) /\ task_list = << >> /\ phase = "adding"
  BY EmptySeq DEF Init, Tasks, Done
<1>2. Types
  BY <1>1, EmptySeq DEF Init, Types
<1>3. NamesDiffer /\ Progress /\ Turns /\ Counted
  BY <1>1 DEF Init, NamesDiffer, Progress, Turns, Counted
<1>4. ListOrder
  BY <1>1, EmptySeq DEF ListOrder, CountsDown
<1>5. SumsAreOfTimeline
  BY <1>1, TotalsOfNothing, EmptyTimeline DEF Init, SumsAreOfTimeline
<1> QED
  BY <1>2, <1>3, <1>4, <1>5 DEF RInv

----------------------------------------------------------------------------
(* add() *)

LEMMA AddRun ==
  ASSUME RInv, DistinctNames, add
  PROVE  RInv'
<1> USE DEF RInv
<1> DEFINE n == Len(file)
<1>1. PICK line \in Lines : ReadLine(line) /\ burst' = Append(burst, line.burst)
  BY DEF add
<1>2. /\ n \in Nat /\ Tasks = 1 .. n /\ Tasks' = 1 .. n + 1
      /\ file' \in Seq(Lines) /\ Len(file') = n + 1
      /\ file'[n + 1] = line /\ \A t \in Tasks : file'[t] = file[t]
  BY <1>1, AppendProperties, LenProperties DEF ReadLine, Types, Tasks
<1>3. /\ phase = "adding" /\ phase' = "adding" /\ temp' = NULL
      /\ log = << >> /\ log' = << >>
      /\ CountsDown(task_list, n)
  BY DEF add, Types, ListOrder
<1>4. CountsDown(task_list', n + 1)
  BY <1>1, <1>2, <1>3, InsertCountsDown DEF ReadLine
<1>5. ToSet(task_list) = Tasks /\ ToSet(task_list') = Tasks'
  BY <1>2, <1>3, <1>4, CountedDown
<1>6. line.burst \in Nat
  BY DEF Lines
<1>7. /\ burst' \in [Tasks' -> Nat]
      /\ burst'[n + 1] = line.burst /\ \A t \in Tasks : burst'[t] = burst[t]
  <2> DEFINE b == line.burst
             before == burst
             after == burst'
  <2>1. n \in Nat /\ before \in Fields(n, Nat) /\ after = Append(before, b) /\ b \in Nat
    BY <1>1, <1>2, <1>6 DEF Types, Fields
  <2> HIDE DEF b, n, before, after
  <2>2. after \in Fields(n + 1, Nat) /\ OneMoreIn(n, before, b, after)
    BY <2>1, OneMoreField
  <2> QED
    BY <1>2, <2>2 DEF b, Fields, OneMoreIn, before, after
<1>8. /\ has_been_run' \in [Tasks' -> BOOLEAN]
      /\ ~ has_been_run'[n + 1] /\ \A t \in Tasks : has_been_run'[t] = has_been_run[t]
  <2> DEFINE B == BOOLEAN
             no == FALSE
             before == has_been_run
             after == has_been_run'
  <2>1. n \in Nat /\ before \in Fields(n, B) /\ after = Append(before, no) /\ no \in B
    BY <1>2 DEF Types, add, Fields
  <2> HIDE DEF B, no, n, before, after
  <2>2. after \in Fields(n + 1, B) /\ OneMoreIn(n, before, no, after)
    BY <2>1, OneMoreField
  <2> QED
    BY <1>2, <2>2 DEF B, no, Fields, OneMoreIn, before, after
<1>9. Types'
  <2>1. task_list' \in Seq(Tasks')
    BY <1>2, <1>4 DEF CountsDown
  <2> QED
    BY <1>2, <1>3, <1>7, <1>8, <2>1, EmptySeq DEF Types
<1>10. NamesDiffer'
  BY <1>1, <1>2 DEF NamesDiffer, ReadLine
<1>11. ListOrder'
  BY <1>2, <1>3, <1>4 DEF ListOrder
<1>12. Progress'
  <2>1. \A t : ~ Ran(log, t) /\ ~ Ran(log', t) /\ Received(log, t) = 0 /\ Received(log', t) = 0
    BY <1>3, EmptyTimeline
  <2>2. ASSUME NEW t \in Tasks'
        PROVE  burst'[t] = file'[t].burst - Received(log', t) /\ ~ has_been_run'[t]
    <3>1. CASE t = n + 1
      BY <1>2, <1>6, <1>7, <1>8, <2>1, <3>1
    <3>2. CASE t \in Tasks
      BY <1>2, <1>7, <1>8, <2>1, <3>2 DEF Progress
    <3> QED
      BY <1>2, <3>1, <3>2
  <2> QED
    BY <1>5, <2>1, <2>2 DEF Progress
<1>13. SumsAreOfTimeline'
  <2>1. Done = {} /\ Done' = {}
    BY <1>5 DEF Done
  <2>2. /\ Now(log) = 0 /\ TotalResponse(n, log) = 0 /\ TotalTurnaround(n, log, Done) = 0
    BY <1>2, <1>3, <2>1, EmptyTimeline, TotalsOfNothing
  <2>3. /\ Now(log') = 0 /\ TotalResponse(n + 1, log') = 0
        /\ TotalTurnaround(n + 1, log', Done') = 0
    <3>1. n + 1 \in Nat
      BY <1>2
    <3> QED
      BY <1>3, <2>1, <3>1, EmptyTimeline, TotalsOfNothing
  <2> QED
    BY <1>2, <2>1, <2>2, <2>3 DEF SumsAreOfTimeline, add
<1>14. Counted' /\ Turns'
  BY <1>3 DEF Counted, Turns, add, sums
<1> QED
  BY <1>9, <1>10, <1>11, <1>12, <1>13, <1>14

----------------------------------------------------------------------------
(* The start of schedule() *)

LEMMA StartRun ==
  ASSUME RInv, Start
  PROVE  RInv'
<1> USE DEF RInv
<1> DEFINE n == Len(file)
<1>1. /\ phase = "adding" /\ phase' = "scheduling" /\ log = << >> /\ log' = log
      /\ UNCHANGED <<file, burst, has_been_run, current_time, total_wait_time,
                     total_turnaround_time, total_response_time>>
      /\ task_list' = Reverse(task_list) /\ temp' = head(task_list')
      /\ task_count' = Len(task_list)
      /\ total_burst_time' = SumOf([t \in Tasks |-> file[t].burst])
      /\ Tasks' = Tasks
  BY DEF Start, Types, Tasks
<1>2. Tasks = 1 .. n /\ n \in Nat /\ CountsDown(task_list, n)
  BY <1>1, LinesOfTasks DEF ListOrder
<1>3. /\ task_list' \in Seq(Tasks) /\ Rising(task_list')
      /\ ToSet(task_list') = Tasks /\ ToSet(task_list) = Tasks
      /\ Len(task_list) = n
  BY <1>1, <1>2, ReverseCountsUp, CountedDown DEF CountsDown
<1>4. Types'
  <2>1. temp' \in {NULL} \cup ToSet(task_list')
    BY <1>1, <1>3, HeadIs
  <2> QED
    BY <1>1, <1>3, <2>1 DEF Types
<1>5. NamesDiffer' /\ ListOrder'
  BY <1>1, <1>3 DEF NamesDiffer, ListOrder
<1>6. Progress'
  BY <1>1, <1>3 DEF Progress
<1>7. SumsAreOfTimeline'
  BY <1>1, <1>3 DEF SumsAreOfTimeline, Done
<1>8. Counted'
  BY <1>1, <1>3 DEF Counted
<1>9. Turns'
  <2> SUFFICES ASSUME task_list' # << >>, NEW t \in ToSet(task_list')
               PROVE  Received(log', t) =
                        Received(log', task') + IF t < task' THEN QUANTUM ELSE 0
    BY DEF Turns
  <2>1. task' = head(task_list')
    BY <1>1 DEF task
  <2>2. head(task_list') <= t /\ head(task_list') \in Tasks /\ t \in Tasks
    BY <1>3, LinesOfTasks, HeadOfSorted
  <2>3. ~ (t < task')
    BY <1>2, <2>1, <2>2
  <2>4. \A u : Received(log', u) = 0
    BY <1>1, EmptyTimeline
  <2> QED
    BY <2>3, <2>4
<1> QED
  BY <1>4, <1>5, <1>6, <1>7, <1>8, <1>9

----------------------------------------------------------------------------
(* One round of the loop *)

(* The task of the round is in the list, whatever was deleted before.      *)
LEMMA TaskIs ==
  ASSUME RInv, phase = "scheduling", task_list # << >>
  PROVE  /\ task \in ToSet(task_list) /\ task \in Tasks
         /\ temp = NULL => \A t \in ToSet(task_list) : task <= t
<1>1. task_list \in Seq(Tasks) /\ Tasks \subseteq Nat \ {0} /\ Rising(task_list)
  BY LinesOfTasks DEF RInv, Types, ListOrder
<1>2. /\ head(task_list) \in ToSet(task_list)
      /\ \A t \in ToSet(task_list) : head(task_list) <= t
  BY <1>1, HeadOfSorted
<1>3. task \in ToSet(task_list)
  BY <1>2 DEF task, RInv, Types
<1> QED
  BY <1>2, <1>3, LinesOfTasks DEF task, RInv

(* The slice, and what it does to the burst and to the log.                *)
LEMMA SliceIs ==
  ASSUME RInv, RunSlice
  PROVE  /\ slice \in 0 .. QUANTUM /\ slice <= burst[task]
         /\ slice = 0 => burst[task] = 0
         /\ burst[task] - slice # 0 => slice = QUANTUM
         /\ burst' \in [Tasks -> Nat]
         /\ \A t \in Tasks : burst'[t] = IF t = task THEN burst[t] - slice ELSE burst[t]
         /\ log' \in Seq([task : Tasks, slice : 0 .. QUANTUM])
         /\ log' \in Logs(Tasks) /\ OneMore(log, task, slice, log')
<1>1. task \in Tasks /\ burst \in [Tasks -> Nat] /\ log \in Logs(Tasks)
  BY TaskIs, LinesOfTasks DEF RunSlice, RInv, Types
<1>2. burst[task] \in Nat
  BY <1>1
<1>3. /\ slice \in 0 .. QUANTUM /\ slice <= burst[task]
      /\ slice = 0 => burst[task] = 0
      /\ burst[task] - slice # 0 => slice = QUANTUM
  BY <1>2 DEF slice
<1> DEFINE t == task
           x == slice
<1>4. /\ burst' = [burst EXCEPT ![t] = @ - x]
      /\ log' = Append(log, [task |-> t, slice |-> x])
  BY DEF RunSlice
<1>5. t \in Tasks /\ burst[t] \in Nat /\ x \in 0 .. QUANTUM /\ x <= burst[t] /\ x \in Nat
  BY <1>1, <1>2, <1>3
<1> HIDE DEF t, x
<1>6. /\ burst' \in [Tasks -> Nat]
      /\ \A u \in Tasks : burst'[u] = IF u = t THEN burst[u] - x ELSE burst[u]
  BY <1>1, <1>4, <1>5
<1>7. log' \in Seq([task : Tasks, slice : 0 .. QUANTUM])
  <2> DEFINE R == [task : Tasks, slice : 0 .. QUANTUM]
             entry == [task |-> t, slice |-> x]
  <2>1. entry \in R /\ log \in Seq(R)
    BY <1>5 DEF RInv, Types
  <2>2. log' = Append(log, entry)
    BY <1>4
  <2> HIDE DEF R, entry
  <2>3. log' \in Seq(R)
    BY <2>1, <2>2, AppendProperties
  <2> QED
    BY <2>3 DEF R
<1>8. log' \in Logs(Tasks) /\ OneMore(log, t, x, log')
  BY <1>1, <1>4, <1>5, TimelineGrows
<1> QED
  BY <1>3, <1>6, <1>7, <1>8 DEF t, x

(* What the round does to the list: the task leaves it if its burst is     *)
(* used up, and temp goes on to the next task that is left.                *)
LEMMA ListStep ==
  ASSUME RInv, RunSlice
  PROVE  /\ task_list' \in Seq(Tasks) /\ Rising(task_list')
         /\ ToSet(task_list') = IF burst'[task] = 0 THEN ToSet(task_list) \ {task}
                                                    ELSE ToSet(task_list)
         /\ temp' \in {NULL} \cup ToSet(task_list')
         /\ temp' = NULL => \A t \in ToSet(task_list) : t <= task
         /\ temp' # NULL => /\ temp' \in ToSet(task_list) /\ task < temp'
                            /\ \A t \in ToSet(task_list) : t < temp' <=> t <= task
<1> DEFINE t == task
<1>1. /\ task_list \in Seq(Tasks) /\ Rising(task_list) /\ t \in ToSet(task_list)
      /\ Tasks \subseteq Nat \ {0} /\ Tasks \subseteq Int
      /\ t \in Tasks
  BY TaskIs, LinesOfTasks DEF RunSlice, RInv, Types, ListOrder
<1>2. burst'[t] \in Nat
  BY <1>1, SliceIs
<1>3. /\ temp' = next(task_list, t)
      /\ burst'[t] = 0 => task_list' = delete(task_list, t, file)
      /\ burst'[t] # 0 => task_list' = task_list
  BY <1>2 DEF RunSlice, Advance
<1> HIDE DEF t
<1>4. PICK p \in 1 .. Len(task_list) : task_list[p] = t
  BY <1>1, MembersAre
<1>5. /\ temp' # NULL => temp' \in ToSet(task_list) /\ temp' # t
      /\ temp' = NULL => \A u \in ToSet(task_list) : u <= t
      /\ temp' # NULL => t < temp' /\ \A u \in ToSet(task_list) : u < temp' <=> u <= t
  BY <1>1, <1>3, NextInSorted
<1>6. CASE burst'[t] # 0
  BY <1>1, <1>3, <1>5, <1>6 DEF t
<1>7. CASE burst'[t] = 0
  <2>1. \A i, j \in 1 .. Len(task_list) :
          file[task_list[i]].name = file[task_list[j]].name => i = j
    <3>1. \A i, j \in 1 .. Len(task_list) : task_list[i] = task_list[j] => i = j
      <4>1. task_list \in Seq(Int)
        BY <1>1, SeqMonotonic
      <4> QED
        BY <1>1, <4>1, SortedDiffer
    <3>2. \A i \in 1 .. Len(task_list) : task_list[i] \in Tasks
      BY <1>1, MembersAre
    <3> QED
      BY <3>1, <3>2 DEF RInv, NamesDiffer
  <2>2. task_list' = RemoveAt(task_list, p)
    BY <1>1, <1>3, <1>4, <1>7, <2>1, VisitIs
  <2>3. /\ task_list' \in Seq(Tasks) /\ Rising(task_list')
        /\ ToSet(task_list') = ToSet(task_list) \ {t}
    BY <1>1, <1>4, <2>2, RemoveAtSorted
  <2> QED
    BY <1>5, <1>7, <2>3 DEF t
<1> QED
  BY <1>6, <1>7

LEMMA SliceRun ==
  ASSUME RInv, RunSlice
  PROVE  RInv'
<1> USE DEF RInv
<1> DEFINE n == Len(file)
           t == task
           x == slice
<1>1. /\ t \in ToSet(task_list) /\ t \in Tasks
      /\ temp = NULL => \A u \in ToSet(task_list) : t <= u
  BY TaskIs DEF RunSlice
<1>2. /\ Tasks = 1 .. n /\ n \in Nat /\ Tasks \subseteq Nat \ {0}
      /\ ToSet(task_list) \subseteq Tasks
      /\ \A u \in Tasks : file[u].burst \in Nat
      /\ log \in Logs(Tasks)
  BY LinesOfTasks
<1>3. /\ x \in 0 .. QUANTUM /\ x <= burst[t]
      /\ burst[t] - x # 0 => x = QUANTUM
      /\ burst' \in [Tasks -> Nat]
      /\ \A u \in Tasks : burst'[u] = IF u = t THEN burst[u] - x ELSE burst[u]
      /\ log' \in Seq([task : Tasks, slice : 0 .. QUANTUM])
      /\ log' \in Logs(Tasks) /\ OneMore(log, t, x, log')
  BY SliceIs
<1>4. /\ task_list' \in Seq(Tasks) /\ Rising(task_list')
      /\ ToSet(task_list') = IF burst'[t] = 0 THEN ToSet(task_list) \ {t} ELSE ToSet(task_list)
      /\ temp' \in {NULL} \cup ToSet(task_list')
      /\ temp' = NULL => \A u \in ToSet(task_list) : u <= t
      /\ temp' # NULL => /\ temp' \in ToSet(task_list) /\ t < temp'
                         /\ \A u \in ToSet(task_list) : u < temp' <=> u <= t
  BY ListStep
<1>5. /\ phase = "scheduling" /\ phase' = phase /\ file' = file /\ Tasks' = Tasks
      /\ task_list # << >>
      /\ UNCHANGED <<task_count, total_burst_time, total_wait_time>>
      /\ current_time' = current_time + x
      /\ has_been_run[t] => UNCHANGED <<has_been_run, total_response_time>>
      /\ ~ has_been_run[t] => /\ has_been_run' = [has_been_run EXCEPT ![t] = TRUE]
                              /\ total_response_time' = total_response_time + current_time
  BY DEF RunSlice, FirstRun, sums, Tasks
<1>6. /\ burst'[t] = 0 => total_turnaround_time' = total_turnaround_time + current_time'
      /\ burst'[t] # 0 => total_turnaround_time' = total_turnaround_time
  <2>1. burst'[t] \in Nat
    BY <1>1, <1>3
  <2> QED
    BY <2>1 DEF RunSlice, Advance
<1>7. /\ \A u \in Tasks : burst[u] = file[u].burst - Received(log, u)
      /\ \A u \in Tasks : has_been_run[u] <=> Ran(log, u)
      /\ \A u \in Tasks : u \in ToSet(task_list) <=> ~ (Ran(log, u) /\ burst[u] = 0)
  BY DEF Progress
<1>8. \A u \in ToSet(task_list) :
        Received(log, u) = Received(log, t) + IF u < t THEN QUANTUM ELSE 0
  BY <1>5 DEF Turns
<1> HIDE DEF t, x, n
<1>9. /\ \A u : Ran(log', u) <=> (Ran(log, u) \/ u = t)
      /\ \A u : Received(log', u) = IF u = t THEN Received(log, u) + x ELSE Received(log, u)
      /\ Now(log') = Now(log) + x
      /\ \A u : Ran(log, u) /\ u # t => Turnaround(log', u) = Turnaround(log, u)
      /\ Turnaround(log', t) = Now(log')
  BY <1>3 DEF OneMore
<1>10. \A u \in Tasks : Received(log, u) \in Nat /\ Received(log', u) \in Nat
                        /\ Received(log', u) <= Now(log')
  BY <1>2, <1>3, TimesOfTimeline
<1>11. has_been_run' \in [Tasks -> BOOLEAN]
       /\ \A u \in Tasks : has_been_run'[u] <=> (has_been_run[u] \/ u = t)
  <2>1. has_been_run \in [Tasks -> BOOLEAN]
    BY DEF Types
  <2>2. CASE has_been_run[t]
    BY <1>5, <2>1, <2>2
  <2>3. CASE ~ has_been_run[t]
    BY <1>1, <1>5, <2>1, <2>3
  <2> QED
    BY <2>2, <2>3
<1>12. Types'
  BY <1>3, <1>4, <1>5, <1>11 DEF Types
<1>13. NamesDiffer' /\ ListOrder'
  BY <1>4, <1>5 DEF NamesDiffer, ListOrder
<1>14. Progress'
  <2> SUFFICES ASSUME NEW u \in Tasks
               PROVE  /\ burst'[u] = file[u].burst - Received(log', u)
                      /\ has_been_run'[u] <=> Ran(log', u)
                      /\ u \in ToSet(task_list') <=> ~ (Ran(log', u) /\ burst'[u] = 0)
    BY <1>5 DEF Progress
  <2>1. has_been_run'[u] <=> Ran(log', u)
    BY <1>7, <1>9, <1>11
  <2>2. CASE u = t
    <3>1. burst'[u] = file[u].burst - Received(log', u)
      BY <1>2, <1>3, <1>7, <1>9, <1>10, <2>2
    <3>2. u \in ToSet(task_list') <=> ~ (burst'[u] = 0)
      BY <1>1, <1>4, <2>2
    <3> QED
      BY <1>9, <2>1, <2>2, <3>1, <3>2
  <2>3. CASE u # t
    <3>1. burst'[u] = burst[u] /\ Received(log', u) = Received(log, u)
      BY <1>3, <1>9, <2>3
    <3>2. u \in ToSet(task_list') <=> u \in ToSet(task_list)
      BY <1>4, <2>3
    <3>3. Ran(log', u) <=> Ran(log, u)
      BY <1>9, <2>3
    <3> QED
      BY <1>7, <2>1, <3>1, <3>2, <3>3
  <2> QED
    BY <2>2, <2>3
<1>15. SumsAreOfTimeline'
  <2>1. /\ current_time = Now(log)
        /\ total_response_time = TotalResponse(n, log)
        /\ total_turnaround_time = TotalTurnaround(n, log, Done)
        /\ \A u \in Done : file[u].burst <= Turnaround(log, u)
    BY DEF SumsAreOfTimeline, n
  <2>2. /\ t \notin Done /\ \A u \in Done : Ran(log, u)
        /\ Done' = IF burst'[t] = 0 THEN Done \cup {t} ELSE Done
    BY <1>1, <1>4, <1>5, <1>7 DEF Done
  <2>3. TotalResponse(n, log') = TotalResponse(n, log) + (IF Ran(log, t) THEN 0 ELSE Now(log))
    BY <1>1, <1>2, <1>3, TotalResponseGrows
  <2>4. /\ TotalTurnaround(n, log', Done) = TotalTurnaround(n, log, Done)
        /\ TotalTurnaround(n, log', Done \cup {t}) = TotalTurnaround(n, log, Done) + Now(log')
    <3> DEFINE D == Done
               before == log
               after == log'
    <3>1. t \notin D /\ (\A u \in D : Ran(before, u)) /\ n \in Nat /\ t \in 1 .. n
      BY <1>1, <1>2, <2>2
    <3>2. before \in Logs(Tasks) /\ after \in Logs(Tasks) /\ OneMore(before, t, x, after)
      BY <1>2, <1>3
    <3> HIDE DEF D, n, before, after
    <3>3. /\ TotalTurnaround(n, after, D) = TotalTurnaround(n, before, D)
          /\ TotalTurnaround(n, after, D \cup {t}) = TotalTurnaround(n, before, D) + Now(after)
      BY <3>1, <3>2, TotalTurnaroundGrows
    <3> QED
      BY <3>3 DEF D, before, after
  <2>5. TotalResponse(n, log) \in Nat
    BY <1>2, <2>2, TotalsAreNat
  <2>6. current_time' = Now(log')
    BY <1>5, <1>9, <2>1
  <2>7. total_response_time' = TotalResponse(n, log')
    <3>1. CASE has_been_run[t]
      BY <1>1, <1>5, <1>7, <2>1, <2>3, <2>5, <3>1
    <3>2. CASE ~ has_been_run[t]
      BY <1>1, <1>5, <1>7, <2>1, <2>3, <3>2
    <3> QED
      BY <3>1, <3>2
  <2>8. total_turnaround_time' = TotalTurnaround(n, log', Done')
    BY <1>6, <2>1, <2>2, <2>4, <2>6
  <2>9. ASSUME NEW u \in Done' PROVE file[u].burst <= Turnaround(log', u)
    <3>1. CASE u = t
      <4>1. burst'[t] = 0
        BY <2>2, <2>9, <3>1
      <4>2. file[t].burst = Received(log', t)
        BY <1>1, <1>2, <1>5, <1>10, <1>14, <4>1 DEF Progress
      <4> QED
        BY <1>1, <1>9, <1>10, <3>1, <4>2
    <3>2. CASE u # t
      <4>1. u \in Done /\ Ran(log, u)
        BY <2>2, <2>9, <3>2
      <4> QED
        BY <1>9, <2>1, <3>2, <4>1
    <3> QED
      BY <3>1, <3>2
  <2>10. Len(file') = n
    BY <1>5 DEF n
  <2> QED
    BY <1>5, <2>6, <2>7, <2>8, <2>9, <2>10 DEF SumsAreOfTimeline
<1>16. Counted'
  BY <1>5 DEF Counted
<1>17. Turns'
  <2> SUFFICES ASSUME task_list' # << >>, NEW u \in ToSet(task_list')
               PROVE  Received(log', u) =
                        Received(log', task') + IF u < task' THEN QUANTUM ELSE 0
    BY DEF Turns
  <2>1. u \in ToSet(task_list) /\ u \in Tasks
    BY <1>2, <1>4
  <2>2. ASSUME NEW v \in ToSet(task_list'), v <= t
        PROVE  Received(log', v) = Received(log, t) + QUANTUM
    <3>1. v \in ToSet(task_list) /\ v \in Tasks
      BY <1>2, <1>4
    <3>2. CASE v = t
      <4>1. burst[t] - x # 0
        BY <1>1, <1>3, <1>4, <2>2, <3>2
      <4>2. x = QUANTUM
        BY <1>3, <4>1
      <4> QED
        BY <1>9, <3>2, <4>2
    <3>3. CASE v # t
      <4>1. v < t
        BY <1>1, <1>2, <2>2, <3>1, <3>3
      <4> QED
        BY <1>8, <1>9, <3>1, <3>3, <4>1
    <3> QED
      BY <3>2, <3>3
  <2>3. CASE temp' # NULL
    <3>1. task' = temp' /\ temp' \in ToSet(task_list) /\ t < temp' /\ temp' \in Tasks
      BY <1>2, <1>4, <2>3 DEF task
    <3>2. u < temp' <=> u <= t
      BY <1>4, <2>1, <2>3
    <3>3. ~ (temp' < t) /\ temp' # t
      BY <1>1, <1>2, <3>1
    <3>4. Received(log', temp') = Received(log, t)
      BY <1>1, <1>8, <1>9, <1>10, <3>1, <3>3
    <3>5. CASE u <= t
      BY <2>2, <3>1, <3>2, <3>4, <3>5
    <3>6. CASE ~ (u <= t)
      <4>1. ~ (u < t) /\ u # t
        BY <1>1, <1>2, <2>1, <3>6
      <4>2. Received(log', u) = Received(log, t)
        BY <1>1, <1>8, <1>9, <1>10, <2>1, <4>1
      <4> QED
        BY <1>1, <1>10, <3>1, <3>2, <3>4, <3>6, <4>2
    <3> QED
      BY <3>5, <3>6
  <2>4. CASE temp' = NULL
    <3>1. task' = head(task_list')
      BY <2>4 DEF task
    <3>2. task' \in ToSet(task_list') /\ task' <= u
      BY <1>2, <1>4, <3>1, HeadOfSorted
    <3>3. task' <= t /\ u <= t /\ task' \in Tasks
      BY <1>2, <1>4, <2>1, <2>4, <3>2
    <3>4. ~ (u < task')
      BY <1>2, <2>1, <3>2, <3>3
    <3>5. Received(log', u) \in Nat
      BY <1>10, <2>1
    <3> QED
      BY <2>2, <3>2, <3>3, <3>4, <3>5
  <2> QED
    BY <2>3, <2>4
<1> QED
  BY <1>12, <1>13, <1>14, <1>15, <1>16, <1>17

----------------------------------------------------------------------------

LEMMA ReportRun ==
  ASSUME RInv, Report
  PROVE  RInv'
<1>1. Types' /\ NamesDiffer' /\ ListOrder' /\ Progress' /\ Turns'
  BY DEF Report, RInv, Types, NamesDiffer, ListOrder, Progress, Turns, Tasks, Lines
<1>2. SumsAreOfTimeline'
  BY DEF Report, RInv, SumsAreOfTimeline, Done, Tasks
<1>3. Counted'
  BY DEF Report, RInv, Counted, Tasks, sums
<1> QED
  BY <1>1, <1>2, <1>3 DEF RInv

LEMMA NextRun == DistinctNames /\ RInv /\ [Next]_vars => RInv'
<1> SUFFICES ASSUME DistinctNames, RInv, [Next]_vars PROVE RInv'
  OBVIOUS
<1>1. CASE UNCHANGED vars
  <2>1. Types' /\ NamesDiffer' /\ ListOrder' /\ Progress'
    BY <1>1 DEF vars, RInv, Types, NamesDiffer, ListOrder, Progress, Tasks, Lines
  <2>2. SumsAreOfTimeline' /\ Counted'
    BY <1>1 DEF vars, sums, RInv, SumsAreOfTimeline, Counted, Done, Tasks
  <2>3. Turns'
    BY <1>1 DEF vars, RInv, Turns, task
  <2> QED
    BY <2>1, <2>2, <2>3 DEF RInv
<1>2. CASE Terminated
  BY <1>1, <1>2 DEF Terminated
<1> QED
  BY <1>1, <1>2, AddRun, StartRun, SliceRun, ReportRun DEF Next

(* What the invariant says when the averages are printed: all tasks are    *)
(* done, and their totals are what the sums have become.                   *)
LEMMA EndOfRun ==
  ASSUME RInv, phase = "reported"
  PROVE  /\ task_count = Len(file)
         /\ total_response_time = SumOf([t \in Tasks |-> Response(log, t)])
         /\ total_turnaround_time = SumOf([t \in Tasks |-> Turnaround(log, t)])
         /\ total_wait_time = SumOf([t \in Tasks |-> Turnaround(log, t) - file[t].burst])
         /\ total_wait_time \in Nat
<1> DEFINE n == Len(file)
           bursts == [t \in 1 .. n |-> file[t].burst]
<1>1. /\ Tasks = 1 .. n /\ n \in Nat /\ log \in Logs(Tasks)
      /\ \A t \in Tasks : file[t].burst \in Nat
  BY LinesOfTasks DEF RInv
<1>2. /\ task_list = << >> /\ task_count = n
      /\ total_burst_time = SumOf(bursts)
      /\ total_wait_time = total_turnaround_time - total_burst_time
  BY <1>1 DEF RInv, Counted
<1>3. ToSet(task_list) = {}
  BY <1>2 DEF ToSet
<1>4. Done = 1 .. n /\ \A t \in 1 .. n : Ran(log, t)
  BY <1>1, <1>3 DEF RInv, Progress, Done
<1>5. /\ total_response_time = TotalResponse(n, log)
      /\ total_turnaround_time = TotalTurnaround(n, log, 1 .. n)
      /\ \A t \in 1 .. n : file[t].burst <= Turnaround(log, t)
  BY <1>4 DEF RInv, SumsAreOfTimeline
<1>6. bursts \in [1 .. n -> Nat] /\ \A t \in 1 .. n : bursts[t] <= Turnaround(log, t)
  BY <1>1, <1>5
<1>7. [t \in 1 .. n |-> Turnaround(log, t) - bursts[t]] =
        [t \in Tasks |-> Turnaround(log, t) - file[t].burst]
  BY <1>1
<1> HIDE DEF n, bursts
<1>8. /\ TotalResponse(n, log) = SumOf([t \in 1 .. n |-> Response(log, t)])
      /\ TotalTurnaround(n, log, 1 .. n) = SumOf([t \in 1 .. n |-> Turnaround(log, t)])
      /\ SumOf([t \in 1 .. n |-> Turnaround(log, t) - bursts[t]]) =
           TotalTurnaround(n, log, 1 .. n) - SumOf(bursts)
      /\ TotalTurnaround(n, log, 1 .. n) - SumOf(bursts) \in Nat
  <2> DEFINE T == Tasks
  <2>1. /\ log \in Logs(T) /\ n \in Nat /\ bursts \in [1 .. n -> Nat]
        /\ \A t \in 1 .. n : Ran(log, t) /\ bursts[t] <= Turnaround(log, t)
    BY <1>1, <1>4, <1>6
  <2> HIDE DEF T
  <2>2. AllTotals(n, log, bursts)
    BY <2>1, TotalsInTheEnd
  <2> QED
    BY <2>2 DEF AllTotals
<1> QED
  BY <1>1, <1>2, <1>5, <1>7, <1>8 DEF n

(* The variables keep their types: no burst becomes negative, nor does the *)
(* waiting time, which is a difference of two sums, and temp is not left   *)
(* pointing at a task that was deleted.                                    *)
THEOREM TypeCorrect == DistinctNames => (Spec => []TypeOK)
<1> SUFFICES ASSUME DistinctNames PROVE Spec => []TypeOK
  OBVIOUS
<1>1. RInv /\ [Next]_vars => RInv'
  BY NextRun
<1>2. ASSUME RInv PROVE TypeOK
  <2>1. /\ Tasks = 1 .. Len(file) /\ Len(file) \in Nat /\ log \in Logs(Tasks)
        /\ \A t \in Tasks : file[t].burst \in Nat
    BY <1>2, LinesOfTasks DEF RInv
  <2>2. current_time \in Nat
    BY <1>2, <2>1, TimesOfTimeline DEF RInv, SumsAreOfTimeline
  <2>3. total_response_time \in Nat /\ total_turnaround_time \in Nat
    <3>1. \A t \in Done : Ran(log, t)
      BY <1>2 DEF RInv, Progress, Done
    <3> QED
      BY <1>2, <2>1, <3>1, TotalsAreNat DEF RInv, SumsAreOfTimeline
  <2>4. task_count \in 0 .. Len(file)
    BY <1>2, <2>1 DEF RInv, Counted
  <2>5. total_burst_time \in Nat
    <3>1. [t \in Tasks |-> file[t].burst] \in [1 .. Len(file) -> Nat]
      BY <2>1
    <3>2. SumOf([t \in Tasks |-> file[t].burst]) \in Nat
      BY <2>1, <3>1, SumIsNat
    <3> QED
      BY <1>2, <3>2 DEF RInv, Counted
  <2>6. total_wait_time \in Nat
    BY <1>2, EndOfRun DEF RInv, Counted
  <2> QED
    BY <1>2, <2>2, <2>3, <2>4, <2>5, <2>6 DEF RInv, Types, TypeOK
<1>3. RInv => TypeOK
  BY <1>2
<1> QED
  BY InitRun, <1>1, <1>3, PTL DEF Spec

(* The averages that are printed are those of the timeline, although the   *)
(* response times are told by a flag and the waiting time is computed from *)
(* two other sums.                                                         *)
THEOREM ReportIsCorrect == DistinctNames => (Spec => []ReportCorrect)
<1> SUFFICES ASSUME DistinctNames PROVE Spec => []ReportCorrect
  OBVIOUS
<1>1. RInv /\ [Next]_vars => RInv'
  BY NextRun
<1>2. RInv => ReportCorrect
  BY EndOfRun DEF ReportCorrect
<1> QED
  BY InitRun, <1>1, <1>2, PTL DEF Spec

(* The tasks take turns in the order of the file, however the finished     *)
(* ones leave the list under the pointer that goes round it.               *)
THEOREM TurnsStayFair == DistinctNames => (Spec => []TurnsAreFair)
<1> SUFFICES ASSUME DistinctNames PROVE Spec => []TurnsAreFair
  OBVIOUS
<1>1. RInv /\ [Next]_vars => RInv'
  BY NextRun
<1>2. ASSUME RInv PROVE TurnsAreFair
  <2> SUFFICES ASSUME phase = "scheduling",
                      NEW t \in ToSet(task_list), NEW u \in ToSet(task_list), t < u
               PROVE  Received(log, t) - Received(log, u) \in {0, QUANTUM}
    BY DEF TurnsAreFair
  <2>1. task_list # << >>
    BY DEF ToSet
  <2>2. /\ Tasks = 1 .. Len(file) /\ Len(file) \in Nat
        /\ t \in Tasks /\ u \in Tasks /\ task \in Tasks
    BY <1>2, <2>1, LinesOfTasks, TaskIs DEF RInv
  <2>3. /\ Received(log, t) = Received(log, task) + IF t < task THEN QUANTUM ELSE 0
        /\ Received(log, u) = Received(log, task) + IF u < task THEN QUANTUM ELSE 0
    BY <1>2, <2>1 DEF RInv, Turns
  <2>4. Received(log, task) \in Nat
    BY <1>2, LinesOfTasks, TimesOfTimeline DEF RInv
  <2>5. u < task => t < task
    BY <2>2
  <2> QED
    BY <2>3, <2>4, <2>5
<1>3. RInv => TurnsAreFair
  BY <1>2
<1> QED
  BY InitRun, <1>1, <1>3, PTL DEF Spec

----------------------------------------------------------------------------
(* The program as a CPU timeline *)

(* A round is a slice of the abstract CPU: its task is not finished, and   *)
(* the slice ends at the end of the burst at the latest.                   *)
LEMMA SliceIsRun ==
  ASSUME RInv, RunSlice
  PROVE  Timeline!Next
<1> DEFINE t == task
           x == slice
           demand == [u \in Tasks |-> file[u].burst]
<1>1. /\ t \in ToSet(task_list) /\ t \in Tasks
      /\ x \in 0 .. QUANTUM /\ x <= burst[t] /\ (x = 0 => burst[t] = 0)
      /\ burst[t] \in Nat
      /\ burst[t] = file[t].burst - Received(log, t)
      /\ t \in ToSet(task_list) <=> ~ (Ran(log, t) /\ burst[t] = 0)
  BY TaskIs, SliceIs DEF RunSlice, RInv, Types, Progress
<1>2. Timeline!Left(t) = burst[t]
  <2>1. Timeline!Left(t) = demand[t] - Received(log, t)
    BY DEF Timeline!Left, Timeline!Received, Timeline!SumOf, Timeline!PartialSums,
           Received, SumOf, PartialSums
  <2>2. demand[t] = file[t].burst
    BY <1>1
  <2> QED
    BY <1>1, <2>1, <2>2
<1>3. ~ Timeline!Finished(t)
  BY <1>1, <1>2 DEF Timeline!Finished, Timeline!SlicesOf, Ran, SlicesOf
<1>4. UNCHANGED demand /\ log' = Append(log, [task |-> t, slice |-> x])
  BY DEF RunSlice, Tasks
<1>5. x \in 0 .. Timeline!Left(t) /\ (x = 0 => Timeline!Left(t) = 0)
  BY <1>1, <1>2
<1>6. t \in DOMAIN demand
  BY <1>1
<1> HIDE DEF x, t
<1>7. Timeline!Run(t)
  BY <1>3, <1>4, <1>5 DEF Timeline!Run
<1> QED
  BY <1>6, <1>7 DEF Timeline!Next, Timeline!RunSome, Timeline!Tasks

(* However the bursts are cut into slices, each task gets its burst and    *)
(* never runs again: the program takes no step that the abstract CPU does  *)
(* not take.                                                               *)
THEOREM IsTimeline == DistinctNames => (Spec => Timeline!Spec)
<1> SUFFICES ASSUME DistinctNames PROVE Spec => Timeline!Spec
  OBVIOUS
<1>1. Init => Timeline!Init
  BY DEF Init, Timeline!Init, Tasks
<1>2. RInv /\ [Next]_vars => RInv'
  BY NextRun
<1>3. ASSUME RInv, [Next]_vars PROVE [Timeline!Next]_(Timeline!vars)
  <2>1. CASE add
    <3>1. PICK line \in Lines : ReadLine(line)
      BY <2>1 DEF add
    <3>2. log = << >> /\ log' = log
      BY <1>3, <2>1 DEF RInv, Types, add
    <3>3. [t \in Tasks |-> file[t].burst]' = Append([t \in Tasks |-> file[t].burst], line.burst)
      BY <1>3, <3>1, DemandGrows DEF ReadLine, Tasks, RInv, Types
    <3>4. line.burst \in Bursts
      BY DEF Lines
    <3> QED
      BY <3>2, <3>3, <3>4 DEF Timeline!Next, Timeline!Submit
  <2>2. CASE RunSlice
    BY <1>3, <2>2, SliceIsRun
  <2>3. CASE Start \/ Report \/ Terminated \/ UNCHANGED vars
    BY <2>3 DEF Start, Report, Terminated, vars, Timeline!vars, Tasks
  <2> QED
    BY <1>3, <2>1, <2>2, <2>3 DEF Next
<1>4. RInv /\ [Next]_vars => [Timeline!Next]_(Timeline!vars)
  BY <1>3
<1> QED
  BY <1>1, InitRun, <1>2, <1>4, PTL DEF Spec, Timeline!Spec
=============================================================================
