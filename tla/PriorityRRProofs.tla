-------------------------- MODULE PriorityRRProofs --------------------------
(***************************************************************************)
(* Theorems about PriorityRR (schedule_priority_rr.c) for files of any     *)
(* length and any bursts, priorities and quantum.                          *)
(*                                                                         *)
(* Whether or not names differ (PInv), no task has run while one of a      *)
(* higher priority is in the list.  It rests on what the outer loop found, *)
(* the highest priority left, which stays a bound while the passes only    *)
(* take tasks out of the list, and on temp being a task of that list       *)
(* although tasks are deleted under it.  If a name comes twice that is not *)
(* strict priority, since delete() may unlink a task that is not finished. *)
(*                                                                         *)
(* If names differ (QInv), the list runs backwards through the lines with  *)
(* gaps, so that temp tells which tasks this pass has met: from that       *)
(* follow the turns within a priority, and strict priority, the types, the *)
(* sums and the timeline from each task being in the list until it has its *)
(* burst.                                                                  *)
(***************************************************************************)
EXTENDS PriorityRR, Lemmas

(* What TypeOK says of the list and of the CPU. *)
Types ==
  /\ file \in Seq(Lines)
  /\ task_list \in Seq(Tasks)
  /\ at \in {"adding", "outer", "pass", "reported"}
  /\ burst \in [Tasks -> Nat]
  /\ temp \in {NULL} \cup ToSet(task_list)
  /\ log \in Seq([task : Tasks, slice : 0 .. QUANTUM])
  /\ at = "adding" => log = << >> /\ temp = NULL

(* No task left is above the level of the passes. *)
LevelIsHighest ==
  at = "pass" => \A t \in ToSet(task_list) : file[t].priority <= highest_priority

(* No task has run that is below one of the list. *)
ListPriority ==
  \A t \in ToSet(task_list), u \in Tasks :
    file[t].priority > file[u].priority => SlicesOf(log, u) = {}

PInv ==
  /\ Types
  /\ LevelIsHighest
  /\ ListPriority

(* What else holds if no two tasks have the same name.                     *)

NamesDiffer == \A t, u \in Tasks : file[t].name = file[u].name => t = u

(* The list, which is never reversed, has the last line of the file first. *)
ListOrder ==
  /\ Falling(task_list)
  /\ at = "adding" => CountsDown(task_list, Len(file))

(* A task has left the list exactly if it ran and nothing of its burst is  *)
(* left; one that ran and is in the list got more than nothing.            *)
Progress ==
  \A t \in Tasks :
    /\ burst[t] = file[t].burst - Received(log, t)
    /\ t \in ToSet(task_list) <=> ~ (Ran(log, t) /\ burst[t] = 0)
    /\ t \in ToSet(task_list) /\ Ran(log, t) => Received(log, t) # 0

Done == Tasks \ ToSet(task_list)

(* At any time the sums are those of the tasks that have run, or are done. *)
SumsAreOfTimeline ==
  /\ current_time = Now(log)
  /\ total_response_time = TotalResponse(Len(file), log)
  /\ total_turnaround_time = TotalTurnaround(Len(file), log, Done)
  /\ \A t \in Done : file[t].burst <= Turnaround(log, t)

Counted ==
  /\ at = "adding" => task_count = 0 /\ total_burst_time = 0
  /\ at # "adding" => /\ task_count = Len(file)
                      /\ total_burst_time = SumOf([t \in Tasks |-> file[t].burst])
  /\ at # "reported" => total_wait_time = 0
  /\ at = "reported" => /\ task_list = << >>
                        /\ total_wait_time = total_turnaround_time - total_burst_time

(* A pass meets the tasks from the last line of the file to the first, so  *)
(* it has met at most those after the one it is at.                        *)
PassCounts ==
  /\ highest_priority \in {-1} \cup Priorities
  /\ tasks_at_priority_level \in 0 .. Len(file)
  /\ temp # NULL => tasks_at_priority_level <= Len(file) - temp

(* Only tasks of the level of the passes have run and are not finished,    *)
(* and a pass that has met none of that level has none behind it.          *)
OnlyTheLevel ==
  /\ at # "pass" => \A t \in ToSet(task_list) : ~ Ran(log, t)
  /\ at = "pass" =>
       \A t \in ToSet(task_list) :
         IF file[t].priority = highest_priority
           THEN tasks_at_priority_level = 0 => temp # NULL /\ t <= temp
           ELSE ~ Ran(log, t)

(* The tasks of the level that the pass has met are a quantum ahead.       *)
Met(t) == temp # NULL /\ temp < t

Turns ==
  at = "pass" =>
    \A t, u \in ToSet(task_list) :
      file[t].priority = highest_priority /\ file[u].priority = highest_priority =>
        /\ (Met(t) <=> Met(u)) => Received(log, t) = Received(log, u)
        /\ Met(u) /\ ~ Met(t) => Received(log, u) = Received(log, t) + QUANTUM

QInv ==
  /\ PInv
  /\ NamesDiffer
  /\ ListOrder
  /\ Progress
  /\ SumsAreOfTimeline
  /\ Counted
  /\ PassCounts
  /\ OnlyTheLevel
  /\ Turns

USE TaskListAssumption, PriorityRRAssumption

LEMMA InitPriority == Init => PInv
<1> SUFFICES ASSUME Init PROVE PInv
  OBVIOUS
<1>1. Types
  BY EmptySeq DEF Init, Types, Tasks
<1>2. LevelIsHighest
  BY DEF Init, LevelIsHighest
<1>3. ListPriority
  BY DEF Init, ListPriority, Tasks
<1> QED
  BY <1>1, <1>2, <1>3 DEF PInv

(* The tasks in the list and their lines. *)
LEMMA LinesOfTasks ==
  ASSUME Types
  PROVE  /\ Tasks = 1 .. Len(file) /\ Len(file) \in Nat
         /\ Tasks \subseteq Nat \ {0} /\ Tasks \subseteq Int
         /\ ToSet(task_list) \subseteq Tasks
         /\ \A t \in Tasks : file[t].priority \in Priorities /\ file[t].priority \in Int
         /\ \A t \in Tasks : file[t].burst \in Bursts /\ file[t].burst \in Nat
         /\ log \in Logs(Tasks)
<1>1. Tasks = 1 .. Len(file) /\ Len(file) \in Nat
  BY LenProperties DEF Types, Tasks
<1>2. ToSet(task_list) \subseteq Tasks
  BY MembersAre DEF Types
<1>3. ASSUME NEW t \in Tasks
      PROVE  /\ file[t].priority \in Priorities /\ file[t].priority \in Int
             /\ file[t].burst \in Bursts /\ file[t].burst \in Nat
  <2>1. file[t] \in Lines
    BY <1>1, ElementOfSeq DEF Types
  <2> QED
    BY <2>1 DEF Lines
<1>4. log \in Logs(Tasks)
  <2>1. 0 .. QUANTUM \subseteq Nat
    OBVIOUS
  <2> QED
    BY <2>1, SlicesInNat DEF Types
<1> QED
  BY <1>1, <1>2, <1>3, <1>4

LEMMA AddPriority ==
  ASSUME PInv, add
  PROVE  PInv'
<1> USE DEF PInv
<1>1. PICK line \in Lines : ReadLine(line) /\ burst' = Append(burst, line.burst)
  BY DEF add
<1>2. /\ Len(file) \in Nat /\ Tasks = 1 .. Len(file) /\ Tasks' = 1 .. Len(file) + 1
      /\ file' \in Seq(Lines)
  BY <1>1, AppendProperties, LenProperties DEF ReadLine, Types, Tasks
<1>3. /\ at = "adding" /\ at' = "adding" /\ temp' = NULL
      /\ log' = << >>
  BY DEF add, Types
<1>4. task_list' \in Seq(Tasks')
  <2>1. task_list \in Seq(Tasks')
    BY <1>2, SeqMonotonic DEF Types
  <2>2. Len(file) + 1 \in Tasks'
    BY <1>2
  <2> QED
    BY <1>1, <2>1, <2>2, InsertIs DEF ReadLine
<1>5. burst' \in [Tasks' -> Nat]
  <2>1. line.burst \in Nat
    BY DEF Lines
  <2>2. burst \in Seq(Nat) /\ Len(burst) = Len(file)
    <3>1. burst \in [1 .. Len(file) -> Nat]
      BY <1>2 DEF Types
    <3> QED
      BY <1>2, <3>1, LenProperties, SeqDef
  <2>3. burst' \in Seq(Nat) /\ Len(burst') = Len(file) + 1
    BY <1>1, <2>1, <2>2, AppendProperties
  <2> QED
    BY <1>2, <2>3, LenProperties
<1>6. Types'
  BY <1>2, <1>3, <1>4, <1>5, EmptySeq DEF Types
<1>7. LevelIsHighest'
  BY <1>3 DEF LevelIsHighest
<1>8. ListPriority'
  BY <1>3 DEF ListPriority, SlicesOf
<1> QED
  BY <1>6, <1>7, <1>8

(* A step that leaves the list and the log alone, and finds no new level.  *)
LEMMA QuietStep ==
  ASSUME PInv, UNCHANGED <<file, task_list, burst, log>>,
         at' \in {"outer", "pass", "reported"},
         temp' \in {NULL} \cup ToSet(task_list),
         LevelIsHighest'
  PROVE  PInv'
<1>1. Tasks' = Tasks
  BY DEF Tasks
<1>2. Types'
  BY <1>1 DEF PInv, Types
<1>3. ListPriority'
  BY <1>1 DEF PInv, ListPriority, SlicesOf
<1> QED
  BY <1>2, <1>3 DEF PInv

(* The search finds a priority that no task of the list exceeds.           *)
LEMMA HighestIs ==
  ASSUME Types, task_list # << >>
  PROVE  /\ highest \in Int /\ highest \in {-1} \cup Priorities
         /\ \A t \in ToSet(task_list) : file[t].priority <= highest
<1> DEFINE n == Len(task_list)
           f == [i \in 1 .. n |-> file[task_list[i]].priority]
           S == {-1} \cup Remaining
<1>1. n \in Nat \ {0} /\ DOMAIN task_list = 1 .. n
  BY EmptySeq, LenProperties DEF Types
<1>2. \A i \in 1 .. n : f[i] \in Int
  <2>1. \A i \in 1 .. n : task_list[i] \in Tasks
    BY ElementOfSeq DEF Types
  <2> QED
    BY <2>1, LinesOfTasks
<1>3. Remaining = {f[i] : i \in 1 .. n}
  BY <1>1 DEF Remaining, ToSet
<1> HIDE DEF f, n
<1>4. PICK i \in 1 .. n : \A j \in 1 .. n : f[j] <= f[i]
  BY <1>1, <1>2, GreatestExists
<1>5. \A x \in S : x \in Int
  BY <1>2, <1>3
<1>6. \E x \in S : \A y \in S : x >= y
  <2>1. CASE f[i] >= -1
    <3>1. f[i] \in S /\ \A y \in S : f[i] >= y
      BY <1>2, <1>3, <1>4, <2>1
    <3> QED
      BY <3>1
  <2>2. CASE ~ (f[i] >= -1)
    <3>1. -1 \in S /\ \A y \in S : -1 >= y
      BY <1>2, <1>3, <1>4, <2>2
    <3> QED
      BY <3>1
  <2> QED
    BY <2>1, <2>2
<1>7. highest \in S /\ \A y \in S : highest >= y
  <2> HIDE DEF S
  <2>1. Max(S) \in S /\ \A y \in S : Max(S) >= y
    BY <1>6 DEF Max
  <2> QED
    BY <2>1 DEF highest, S
<1>8. ASSUME NEW t \in ToSet(task_list) PROVE file[t].priority <= highest
  <2>1. file[t].priority \in S
    BY DEF Remaining
  <2> QED
    BY <1>5, <1>7, <2>1
<1>9. Remaining \subseteq Priorities
  BY LinesOfTasks DEF Remaining
<1> QED
  BY <1>5, <1>7, <1>8, <1>9

LEMMA FindPriority ==
  ASSUME PInv, FindHighest
  PROVE  PInv'
<1>1. head(task_list) \in {NULL} \cup ToSet(task_list)
  BY HeadIs DEF PInv, Types
<1>2. LevelIsHighest'
  BY HighestIs DEF LevelIsHighest, FindHighest, PInv
<1> QED
  BY <1>1, <1>2, QuietStep DEF FindHighest, cpu

LEMMA SlicePriority ==
  ASSUME PInv, RunSlice
  PROVE  PInv'
<1> USE DEF PInv
<1>1. /\ temp \in ToSet(task_list) /\ temp \in Tasks
      /\ task_list \in Seq(Tasks)
  BY LinesOfTasks DEF Types, RunSlice
<1>2. /\ UNCHANGED <<file, at, highest_priority>> /\ Tasks' = Tasks
      /\ at = "pass" /\ file[temp].priority = highest_priority
  BY DEF RunSlice, Tasks
<1>3. slice \in 0 .. QUANTUM /\ burst[temp] - slice \in Nat
  <2>1. burst[temp] \in Nat
    BY <1>1 DEF Types
  <2> QED
    BY <2>1 DEF slice
<1>4. burst' \in [Tasks -> Nat]
  BY <1>1, <1>3 DEF RunSlice, Types
<1>5. /\ Len(log) \in Nat
      /\ log' \in Seq([task : Tasks, slice : 0 .. QUANTUM])
      /\ DOMAIN log = 1 .. Len(log) /\ DOMAIN log' = 1 .. Len(log) + 1
      /\ log'[Len(log) + 1].task = temp
      /\ \A i \in 1 .. Len(log) : log'[i] = log[i]
  <2> DEFINE R == [task : Tasks, slice : 0 .. QUANTUM]
             entry == [task |-> temp, slice |-> slice]
  <2>1. entry \in R /\ entry.task = temp
    BY <1>1, <1>3
  <2>2. log \in Seq(R) /\ log' = Append(log, entry)
    BY DEF Types, RunSlice
  <2> HIDE DEF R, entry
  <2>3. /\ log' \in Seq(R) /\ Len(log') = Len(log) + 1
        /\ log'[Len(log) + 1] = entry
        /\ \A i \in 1 .. Len(log) : log'[i] = log[i]
    BY <2>1, <2>2, AppendProperties
  <2>4. DOMAIN log = 1 .. Len(log) /\ DOMAIN log' = 1 .. Len(log') /\ Len(log) \in Nat
    BY <2>2, <2>3, LenProperties
  <2> QED
    BY <2>1, <2>3, <2>4 DEF R
<1>6. /\ task_list' \in Seq(Tasks)
      /\ ToSet(task_list') \subseteq ToSet(task_list)
      /\ temp' \in {NULL} \cup ToSet(task_list')
  <2>1. CASE burst'[temp] <= 0
    <3>1. temp' = next(task_list, temp) /\ task_list' = delete(task_list, temp, file)
      BY <2>1 DEF RunSlice, Advance
    <3> QED
      BY <1>1, <3>1, DeleteKeepsNext
  <2>2. CASE ~ (burst'[temp] <= 0)
    <3>1. temp' = next(task_list, temp) /\ task_list' = task_list
      BY <2>2 DEF RunSlice, Advance
    <3> QED
      BY <1>1, <3>1, NextIsInList
  <2> QED
    BY <2>1, <2>2
<1>7. Types'
  BY <1>2, <1>4, <1>5, <1>6 DEF Types
<1>8. LevelIsHighest'
  BY <1>2, <1>6 DEF LevelIsHighest
<1>9. ListPriority'
  <2>1. SUFFICES ASSUME NEW t \in ToSet(task_list'), NEW u \in Tasks,
                        file[t].priority > file[u].priority,
                        NEW i \in 1 .. Len(log) + 1, log'[i].task = u
                 PROVE  FALSE
    BY <1>2, <1>5 DEF ListPriority, SlicesOf
  <2>2. t \in ToSet(task_list) /\ t \in Tasks
    BY <1>6, LinesOfTasks
  <2>3. CASE i \in 1 .. Len(log)
    <3>1. log[i].task # u
      BY <1>5, <2>1, <2>2, <2>3 DEF ListPriority, SlicesOf
    <3> QED
      BY <1>5, <2>1, <2>3, <3>1
  <2>4. CASE i = Len(log) + 1
    <3>1. file[t].priority <= file[temp].priority
      BY <1>2, <2>2 DEF LevelIsHighest
    <3>2. file[t].priority \in Int /\ file[temp].priority \in Int
      BY <1>1, <2>2, LinesOfTasks
    <3> QED
      BY <1>5, <2>1, <2>4, <3>1, <3>2
  <2> QED
    BY <1>5, <2>3, <2>4
<1> QED
  BY <1>7, <1>8, <1>9

LEMMA SkipPriority ==
  ASSUME PInv, Skip
  PROVE  PInv'
<1>1. temp \in ToSet(task_list)
  BY DEF PInv, Types, Skip
<1>2. next(task_list, temp) \in {NULL} \cup ToSet(task_list)
  BY <1>1, NextIsInList DEF PInv, Types
<1>3. LevelIsHighest'
  BY DEF PInv, LevelIsHighest, Skip
<1> QED
  BY <1>2, <1>3, QuietStep DEF Skip, cpu

LEMMA NextPriority == PInv /\ [Next]_vars => PInv'
<1> SUFFICES ASSUME PInv, [Next]_vars PROVE PInv'
  OBVIOUS
<1>1. CASE Start
  <2>1. temp' = temp /\ temp \in {NULL} \cup ToSet(task_list)
    BY <1>1 DEF Start, PInv, Types
  <2>2. LevelIsHighest'
    BY <1>1 DEF Start, LevelIsHighest
  <2> QED
    BY <1>1, <2>1, <2>2, QuietStep DEF Start, cpu
<1>2. CASE PassAgain
  <2>1. head(task_list) \in {NULL} \cup ToSet(task_list)
    BY HeadIs DEF PInv, Types
  <2>2. LevelIsHighest'
    BY <1>2 DEF PassAgain, LevelIsHighest, PInv
  <2> QED
    BY <1>2, <2>1, <2>2, QuietStep DEF PassAgain, cpu
<1>3. CASE LeavePass
  <2>1. LevelIsHighest'
    BY <1>3 DEF LeavePass, LevelIsHighest
  <2> QED
    BY <1>3, <2>1, QuietStep DEF LeavePass, cpu
<1>4. CASE Report
  <2>1. temp' = temp /\ temp \in {NULL} \cup ToSet(task_list)
    BY <1>4 DEF Report, PInv, Types
  <2>2. LevelIsHighest'
    BY <1>4 DEF Report, LevelIsHighest
  <2> QED
    BY <1>4, <2>1, <2>2, QuietStep DEF Report, cpu
<1>5. CASE UNCHANGED vars
  <2>1. Types' /\ LevelIsHighest'
    BY <1>5 DEF PInv, Types, LevelIsHighest, vars, cpu, Tasks, Lines
  <2>2. ListPriority'
    BY <1>5 DEF PInv, ListPriority, SlicesOf, vars, cpu, Tasks
  <2> QED
    BY <2>1, <2>2 DEF PInv
<1>6. CASE Terminated
  BY <1>5, <1>6 DEF Terminated
<1> QED
  BY <1>1, <1>2, <1>3, <1>4, <1>5, <1>6,
     AddPriority, FindPriority, SlicePriority, SkipPriority DEF Next

----------------------------------------------------------------------------
(* Files whose names differ: the invariant *)

LEMMA InitRun == Init => QInv
<1> SUFFICES ASSUME Init PROVE QInv
  OBVIOUS
<1>1. /\ Tasks = {} /\ Len(file) = 0 /\ Done = {} /\ log = << >>
      /\ task_list = << >> /\ ToSet(task_list) = {} /\ at = "adding" /\ temp = NULL
  BY EmptySeq DEF Init, Tasks, Done, ToSet
<1>2. NamesDiffer /\ Progress /\ Counted /\ OnlyTheLevel /\ Turns
  BY <1>1 DEF Init, NamesDiffer, Progress, Counted, OnlyTheLevel, Turns
<1>3. PassCounts
  BY <1>1 DEF Init, PassCounts
<1>4. ListOrder
  BY <1>1, EmptySeq DEF ListOrder, CountsDown, Falling
<1>5. SumsAreOfTimeline
  BY <1>1, TotalsOfNothing, EmptyTimeline DEF Init, SumsAreOfTimeline
<1> QED
  BY InitPriority, <1>2, <1>3, <1>4, <1>5 DEF QInv

LEMMA AddRun ==
  ASSUME QInv, DistinctNames, add
  PROVE  QInv'
<1> DEFINE n == Len(file)
<1>1. PICK line \in Lines : ReadLine(line) /\ burst' = Append(burst, line.burst)
  BY DEF add
<1>2. /\ n \in Nat /\ Tasks = 1 .. n /\ Tasks' = 1 .. n + 1
      /\ file' \in Seq(Lines) /\ Len(file') = n + 1
      /\ file'[n + 1] = line /\ \A t \in Tasks : file'[t] = file[t]
  BY <1>1, AppendProperties, LenProperties DEF ReadLine, QInv, PInv, Types, Tasks
<1>3. /\ at = "adding" /\ at' = "adding" /\ temp' = NULL
      /\ log = << >> /\ log' = << >>
      /\ CountsDown(task_list, n)
  BY DEF add, QInv, PInv, Types, ListOrder
<1>4. CountsDown(task_list', n + 1)
  BY <1>1, <1>2, <1>3, InsertCountsDown DEF ReadLine
<1>5. /\ ToSet(task_list) = Tasks /\ ToSet(task_list') = Tasks'
      /\ Falling(task_list')
  BY <1>2, <1>3, <1>4, CountedDown
<1>6. line.burst \in Nat
  BY DEF Lines
<1>7. burst'[n + 1] = line.burst /\ \A t \in Tasks : burst'[t] = burst[t]
  <2> DEFINE b == line.burst
             before == burst
             after == burst'
  <2>1. n \in Nat /\ before \in Fields(n, Nat) /\ after = Append(before, b) /\ b \in Nat
    BY <1>1, <1>2, <1>6 DEF QInv, PInv, Types, Fields
  <2> HIDE DEF b, n, before, after
  <2>2. OneMoreIn(n, before, b, after)
    BY <2>1, OneMoreField
  <2> QED
    BY <1>2, <2>2 DEF b, OneMoreIn, before, after
<1>8. NamesDiffer'
  BY <1>1, <1>2 DEF NamesDiffer, ReadLine, QInv
<1>9. ListOrder'
  BY <1>2, <1>3, <1>4, <1>5 DEF ListOrder
<1>10. \A t : ~ Ran(log, t) /\ ~ Ran(log', t) /\ Received(log, t) = 0 /\ Received(log', t) = 0
  BY <1>3, EmptyTimeline
<1>11. Progress'
  <2>1. ASSUME NEW t \in Tasks' PROVE burst'[t] = file'[t].burst - Received(log', t)
    <3>1. CASE t = n + 1
      BY <1>2, <1>6, <1>7, <1>10, <3>1
    <3>2. CASE t \in Tasks
      BY <1>2, <1>7, <1>10, <3>2 DEF Progress, QInv
    <3> QED
      BY <1>2, <3>1, <3>2
  <2> QED
    BY <1>5, <1>10, <2>1 DEF Progress
<1>12. SumsAreOfTimeline'
  <2>1. Done = {} /\ Done' = {}
    BY <1>5 DEF Done
  <2>2. /\ Now(log) = 0 /\ TotalResponse(n, log) = 0 /\ TotalTurnaround(n, log, Done) = 0
    BY <1>2, <1>3, <2>1, EmptyTimeline, TotalsOfNothing
  <2>3. /\ Now(log') = 0 /\ TotalResponse(n + 1, log') = 0
        /\ TotalTurnaround(n + 1, log', Done') = 0
    <3>1. n + 1 \in Nat
      BY <1>2
    <3> QED
      BY <1>3, <2>1, <3>1, EmptyTimeline, TotalsOfNothing
  <2> QED
    BY <1>2, <2>1, <2>2, <2>3 DEF SumsAreOfTimeline, QInv, add
<1>13. PassCounts'
  BY <1>2, <1>3 DEF PassCounts, QInv, add
<1>14. Counted' /\ OnlyTheLevel' /\ Turns'
  BY <1>3, <1>10 DEF Counted, OnlyTheLevel, Turns, QInv, add, sums
<1> QED
  BY <1>8, <1>9, <1>11, <1>12, <1>13, <1>14, AddPriority DEF QInv

(* What the loops do between two slices: the list, the bursts and the sums *)
(* stay.                                                                   *)
LEMMA BetweenSlices ==
  ASSUME QInv, UNCHANGED <<file, task_list, cpu>>, at' # "adding"
  PROVE  /\ NamesDiffer' /\ ListOrder' /\ Progress' /\ SumsAreOfTimeline'
         /\ Tasks' = Tasks
<1>1. /\ UNCHANGED <<file, task_list, burst, current_time, total_turnaround_time,
                     total_response_time, log>>
      /\ Tasks' = Tasks
  BY DEF cpu, Tasks
<1>2. NamesDiffer' /\ ListOrder'
  BY <1>1 DEF QInv, NamesDiffer, ListOrder
<1>3. Progress'
  BY <1>1 DEF QInv, Progress
<1>4. SumsAreOfTimeline'
  BY <1>1 DEF QInv, SumsAreOfTimeline, Done
<1> QED
  BY <1>1, <1>2, <1>3, <1>4

LEMMA StartRun ==
  ASSUME QInv, Start, PInv'
  PROVE  QInv'
<1>1. /\ UNCHANGED <<file, task_list, cpu>> /\ at = "adding" /\ at' = "outer" /\ log' = log
      /\ task_list' = task_list
  BY DEF Start, cpu
<1>2. NamesDiffer' /\ ListOrder' /\ Progress' /\ SumsAreOfTimeline' /\ Tasks' = Tasks
  BY <1>1, BetweenSlices
<1>3. log = << >> /\ log' = << >>
  BY <1>1 DEF QInv, PInv, Types
<1>4. Counted'
  BY <1>1, <1>2 DEF QInv, Counted, Start
<1>5. PassCounts'
  BY <1>1 DEF QInv, PassCounts, Start
<1>6. OnlyTheLevel' /\ Turns'
  BY <1>1, <1>3, EmptyTimeline DEF OnlyTheLevel, Turns
<1> QED
  BY <1>2, <1>4, <1>5, <1>6 DEF QInv

(* Where a pass begins: no task is after the head of the list.             *)
LEMMA HeadOfPass ==
  ASSUME QInv, task_list # << >>
  PROVE  /\ head(task_list) \in Tasks /\ head(task_list) # NULL
         /\ \A t \in ToSet(task_list) : t <= head(task_list)
<1>1. task_list \in Seq(Tasks) /\ Falling(task_list)
  BY DEF QInv, PInv, Types, ListOrder
<1> QED
  BY <1>1, LinesOfTasks, HeadOfSorted DEF QInv, PInv

(* Where it goes on: what it met is what is not before the task it was at. *)
LEMMA NextOfPass ==
  ASSUME QInv, temp # NULL
  PROVE  /\ temp \in ToSet(task_list) /\ temp \in Tasks
         /\ next(task_list, temp) = NULL => \A t \in ToSet(task_list) : temp <= t
         /\ next(task_list, temp) # NULL =>
              /\ next(task_list, temp) \in ToSet(task_list)
              /\ next(task_list, temp) \in Tasks
              /\ next(task_list, temp) < temp
              /\ \A t \in ToSet(task_list) : next(task_list, temp) < t <=> temp <= t
<1>1. /\ task_list \in Seq(Tasks) /\ Falling(task_list) /\ temp \in ToSet(task_list)
      /\ Tasks \subseteq Nat \ {0} /\ ToSet(task_list) \subseteq Tasks
  BY LinesOfTasks DEF QInv, PInv, Types, ListOrder
<1> DEFINE u == next(task_list, temp)
<1>2. u = next(task_list, temp)
  OBVIOUS
<1> HIDE DEF u
<1>3. /\ u # NULL => u \in ToSet(task_list) /\ u # temp
      /\ u = NULL => \A t \in ToSet(task_list) : temp <= t
      /\ u # NULL => u < temp /\ \A t \in ToSet(task_list) : u < t <=> temp <= t
  BY <1>1, <1>2, NextInSorted
<1> QED
  BY <1>1, <1>3 DEF u

LEMMA FindRun ==
  ASSUME QInv, FindHighest, PInv'
  PROVE  QInv'
<1>1. /\ UNCHANGED <<file, task_list, cpu>> /\ at = "outer" /\ at' = "pass"
      /\ task_list # << >> /\ task_list' = task_list /\ file' = file /\ log' = log
      /\ temp' = head(task_list) /\ tasks_at_priority_level' = 0
  BY DEF FindHighest, cpu
<1>2. NamesDiffer' /\ ListOrder' /\ Progress' /\ SumsAreOfTimeline' /\ Tasks' = Tasks
  BY <1>1, BetweenSlices
<1>3. /\ temp' \in Tasks /\ temp' # NULL
      /\ \A t \in ToSet(task_list) : t <= temp'
      /\ Tasks = 1 .. Len(file) /\ Len(file) \in Nat
      /\ ToSet(task_list) \subseteq Tasks
      /\ Types
  BY <1>1, HeadOfPass, LinesOfTasks DEF QInv, PInv
<1>4. \A t \in ToSet(task_list) : ~ Ran(log, t) /\ Received(log, t) = 0
  BY <1>1, LinesOfTasks, TimesOfTimeline DEF QInv, PInv, OnlyTheLevel
<1>5. Counted'
  BY <1>1, <1>2 DEF QInv, Counted, FindHighest, sums
<1>6. PassCounts'
  BY <1>1, <1>3, HighestIs DEF PassCounts, FindHighest
<1>7. OnlyTheLevel'
  BY <1>1, <1>3, <1>4 DEF OnlyTheLevel
<1>8. Turns'
  <2>1. \A t \in ToSet(task_list') : ~ Met(t)'
    BY <1>1, <1>3 DEF Met
  <2> QED
    BY <1>1, <1>4, <2>1 DEF Turns
<1> QED
  BY <1>2, <1>5, <1>6, <1>7, <1>8 DEF QInv

LEMMA SkipRun ==
  ASSUME QInv, Skip, PInv'
  PROVE  QInv'
<1>1. /\ UNCHANGED <<file, task_list, cpu>> /\ at = "pass" /\ at' = "pass"
      /\ task_list' = task_list /\ file' = file /\ log' = log
      /\ temp # NULL /\ temp' = next(task_list, temp)
      /\ file[temp].priority # highest_priority
      /\ UNCHANGED <<highest_priority, tasks_at_priority_level>>
  BY DEF Skip, cpu
<1>2. NamesDiffer' /\ ListOrder' /\ Progress' /\ SumsAreOfTimeline' /\ Tasks' = Tasks
  BY <1>1, BetweenSlices
<1>3. /\ temp \in ToSet(task_list) /\ temp \in Tasks
      /\ temp' = NULL => \A t \in ToSet(task_list) : temp <= t
      /\ temp' # NULL => /\ temp' \in Tasks /\ temp' < temp
                         /\ \A t \in ToSet(task_list) : temp' < t <=> temp <= t
  BY <1>1, NextOfPass
<1>4. /\ Tasks = 1 .. Len(file) /\ Len(file) \in Nat
      /\ ToSet(task_list) \subseteq Tasks
  BY LinesOfTasks DEF QInv, PInv
<1>5. Counted'
  BY <1>1, <1>2 DEF QInv, Counted, Skip, sums
<1>6. PassCounts'
  <2>1. /\ highest_priority \in {-1} \cup Priorities
        /\ tasks_at_priority_level \in 0 .. Len(file)
        /\ tasks_at_priority_level <= Len(file) - temp
    BY <1>1 DEF QInv, PassCounts
  <2>2. temp' # NULL => tasks_at_priority_level <= Len(file) - temp'
    BY <1>3, <1>4, <2>1
  <2> QED
    BY <1>1, <2>1, <2>2 DEF PassCounts
<1>7. ASSUME NEW t \in ToSet(task_list), file[t].priority = highest_priority
      PROVE  /\ t # temp
             /\ temp' # NULL => (Met(t)' <=> Met(t))
             /\ temp' = NULL => Met(t) /\ ~ Met(t)'
  <2>1. t # temp /\ t \in Tasks
    BY <1>1, <1>4, <1>7
  <2>2. temp < t <=> temp <= t
    BY <1>3, <1>4, <2>1
  <2> QED
    BY <1>1, <1>3, <1>7, <2>1, <2>2 DEF Met
<1>8. OnlyTheLevel'
  <2>1. ASSUME NEW t \in ToSet(task_list), file[t].priority = highest_priority,
               tasks_at_priority_level = 0
        PROVE  temp' # NULL /\ t <= temp'
    <3>1. t <= temp
      BY <1>1, <2>1 DEF QInv, OnlyTheLevel
    <3>2. t # temp /\ t \in Tasks /\ ~ (temp <= t)
      BY <1>3, <1>4, <1>7, <2>1, <3>1
    <3> QED
      BY <1>3, <1>4, <2>1, <3>2
  <2> QED
    BY <1>1, <2>1 DEF QInv, OnlyTheLevel
<1>9. Turns'
  <2> SUFFICES ASSUME NEW t \in ToSet(task_list), NEW u \in ToSet(task_list),
                      file[t].priority = highest_priority,
                      file[u].priority = highest_priority
               PROVE  /\ (Met(t)' <=> Met(u)') => Received(log, t) = Received(log, u)
                      /\ Met(u)' /\ ~ Met(t)' => Received(log, u) = Received(log, t) + QUANTUM
    BY <1>1 DEF Turns
  <2>1. /\ (Met(t) <=> Met(u)) => Received(log, t) = Received(log, u)
        /\ Met(u) /\ ~ Met(t) => Received(log, u) = Received(log, t) + QUANTUM
    BY <1>1 DEF QInv, Turns
  <2>2. /\ temp' # NULL => (Met(t)' <=> Met(t)) /\ (Met(u)' <=> Met(u))
        /\ temp' = NULL => Met(t) /\ ~ Met(t)' /\ Met(u) /\ ~ Met(u)'
    BY <1>7
  <2> QED
    BY <2>1, <2>2
<1> QED
  BY <1>2, <1>5, <1>6, <1>8, <1>9 DEF QInv

LEMMA PassAgainRun ==
  ASSUME QInv, PassAgain, PInv'
  PROVE  QInv'
<1>1. /\ UNCHANGED <<file, task_list, cpu>> /\ at = "pass" /\ at' = "pass"
      /\ task_list' = task_list /\ file' = file /\ log' = log
      /\ temp = NULL /\ temp' = head(task_list)
      /\ highest_priority' = highest_priority
      /\ tasks_at_priority_level' = 0
  BY DEF PassAgain, cpu
<1>2. NamesDiffer' /\ ListOrder' /\ Progress' /\ SumsAreOfTimeline' /\ Tasks' = Tasks
  BY <1>1, BetweenSlices
<1>3. /\ Tasks = 1 .. Len(file) /\ Len(file) \in Nat
      /\ ToSet(task_list) \subseteq Tasks
  BY LinesOfTasks DEF QInv, PInv
<1>4. /\ temp' = NULL => task_list = << >> /\ ToSet(task_list) = {}
      /\ temp' # NULL => temp' \in Tasks
      /\ \A t \in ToSet(task_list) : temp' # NULL /\ t <= temp'
  <2>1. CASE task_list = << >>
    BY <1>1, <2>1 DEF head, ToSet
  <2>2. CASE task_list # << >>
    BY <1>1, <2>2, HeadOfPass
  <2> QED
    BY <2>1, <2>2
<1>5. Counted'
  BY <1>1, <1>2 DEF QInv, Counted, PassAgain, sums
<1>6. PassCounts'
  BY <1>1, <1>3, <1>4 DEF QInv, PassCounts
<1>7. OnlyTheLevel'
  BY <1>1, <1>4 DEF QInv, OnlyTheLevel
<1>8. Turns'
  <2>1. \A t \in ToSet(task_list) : ~ Met(t) /\ ~ Met(t)'
    BY <1>1, <1>3, <1>4 DEF Met
  <2> QED
    BY <1>1, <2>1 DEF QInv, Turns
<1> QED
  BY <1>2, <1>5, <1>6, <1>7, <1>8 DEF QInv

LEMMA LeavePassRun ==
  ASSUME QInv, LeavePass, PInv'
  PROVE  QInv'
<1>1. /\ UNCHANGED <<file, task_list, cpu>> /\ at = "pass" /\ at' = "outer"
      /\ task_list' = task_list /\ file' = file /\ log' = log
      /\ temp = NULL /\ temp' = temp /\ tasks_at_priority_level = 0
      /\ UNCHANGED <<highest_priority, tasks_at_priority_level>>
  BY DEF LeavePass, cpu
<1>2. NamesDiffer' /\ ListOrder' /\ Progress' /\ SumsAreOfTimeline' /\ Tasks' = Tasks
  BY <1>1, BetweenSlices
<1>3. Counted'
  BY <1>1, <1>2 DEF QInv, Counted, LeavePass, sums
<1>4. PassCounts'
  BY <1>1 DEF QInv, PassCounts
<1>5. OnlyTheLevel'
  BY <1>1 DEF QInv, OnlyTheLevel
<1>6. Turns'
  BY <1>1 DEF Turns
<1> QED
  BY <1>2, <1>3, <1>4, <1>5, <1>6 DEF QInv

LEMMA ReportRun ==
  ASSUME QInv, Report, PInv'
  PROVE  QInv'
<1>1. /\ UNCHANGED <<file, task_list, cpu>> /\ at = "outer" /\ at' = "reported"
      /\ task_list' = task_list /\ task_list = << >> /\ log' = log
      /\ UNCHANGED <<temp, highest_priority, tasks_at_priority_level, file>>
  BY DEF Report, cpu
<1>2. NamesDiffer' /\ ListOrder' /\ Progress' /\ SumsAreOfTimeline' /\ Tasks' = Tasks
  BY <1>1, BetweenSlices
<1>3. Counted'
  BY <1>1, <1>2 DEF QInv, Counted, Report, sums, cpu
<1>4. PassCounts' /\ Turns'
  BY <1>1 DEF QInv, PassCounts, Turns
<1>5. OnlyTheLevel'
  BY <1>1 DEF QInv, OnlyTheLevel
<1> QED
  BY <1>2, <1>3, <1>4, <1>5 DEF QInv

----------------------------------------------------------------------------
(* A slice *)

(* The slice, and what it does to the burst and to the log.                *)
LEMMA SliceIs ==
  ASSUME QInv, RunSlice
  PROVE  /\ temp \in ToSet(task_list) /\ temp \in Tasks
         /\ slice \in 0 .. QUANTUM /\ slice <= burst[temp]
         /\ slice = 0 => burst[temp] = 0
         /\ burst[temp] - slice # 0 => slice = QUANTUM
         /\ burst' \in [Tasks -> Nat]
         /\ \A t \in Tasks : burst'[t] = IF t = temp THEN burst[t] - slice ELSE burst[t]
         /\ log' \in Logs(Tasks) /\ OneMore(log, temp, slice, log')
<1>1. /\ temp \in ToSet(task_list) /\ temp \in Tasks
      /\ burst \in [Tasks -> Nat] /\ log \in Logs(Tasks)
  BY NextOfPass, LinesOfTasks DEF RunSlice, QInv, PInv, Types
<1>2. burst[temp] \in Nat
  BY <1>1
<1>3. /\ slice \in 0 .. QUANTUM /\ slice <= burst[temp]
      /\ slice = 0 => burst[temp] = 0
      /\ burst[temp] - slice # 0 => slice = QUANTUM
  BY <1>2 DEF slice
<1> DEFINE t == temp
           x == slice
<1>4. /\ burst' = [burst EXCEPT ![t] = @ - x]
      /\ log' = Append(log, [task |-> t, slice |-> x])
  BY DEF RunSlice
<1>5. t \in Tasks /\ burst[t] \in Nat /\ x \in 0 .. QUANTUM /\ x <= burst[t] /\ x \in Nat
  BY <1>1, <1>2, <1>3
<1> HIDE DEF t, x
<1>6. /\ burst' \in [Tasks -> Nat]
      /\ \A u \in Tasks : burst'[u] = IF u = t THEN burst[u] - x ELSE burst[u]
  BY <1>1, <1>4, <1>5
<1>7. log' \in Logs(Tasks) /\ OneMore(log, t, x, log')
  BY <1>1, <1>4, <1>5, TimelineGrows
<1> QED
  BY <1>1, <1>3, <1>6, <1>7 DEF t, x

(* The comparison of the two bursts tells whether the task runs for the    *)
(* first time.                                                             *)
LEMMA FirstRunIs ==
  ASSUME QInv, RunSlice
  PROVE  total_response_time' =
           IF Ran(log, temp) THEN total_response_time ELSE total_response_time + current_time
<1>1. temp \in ToSet(task_list) /\ temp \in Tasks
  BY SliceIs
<1>2. {t \in Tasks : file[t].name = file[temp].name} = {temp}
  BY <1>1 DEF QInv, NamesDiffer
<1>3. original_burst = file[temp].burst
  <2>1. temp \in Nat /\ Min({temp}) = temp
    BY <1>1, LinesOfTasks DEF Min, QInv, PInv
  <2> QED
    BY <1>2, <2>1 DEF original_burst
<1>4. /\ burst[temp] = file[temp].burst - Received(log, temp)
      /\ Ran(log, temp) => Received(log, temp) # 0
      /\ ~ Ran(log, temp) => Received(log, temp) = 0
      /\ Received(log, temp) \in Nat /\ file[temp].burst \in Nat
  BY <1>1, LinesOfTasks, TimesOfTimeline DEF QInv, PInv, Progress
<1>5. burst[temp] = original_burst <=> ~ Ran(log, temp)
  BY <1>3, <1>4
<1> QED
  BY <1>5 DEF RunSlice, FirstRun

(* What the slice does to the list: the task leaves it if its burst is     *)
(* used up, whatever other nodes were deleted, and temp goes on.           *)
LEMMA ListStep ==
  ASSUME QInv, RunSlice
  PROVE  /\ task_list' \in Seq(Tasks) /\ Falling(task_list')
         /\ ToSet(task_list') = IF burst'[temp] = 0 THEN ToSet(task_list) \ {temp}
                                                    ELSE ToSet(task_list)
         /\ temp' = next(task_list, temp)
         /\ total_turnaround_time' = IF burst'[temp] = 0
                                       THEN total_turnaround_time + current_time'
                                       ELSE total_turnaround_time
<1> DEFINE t == temp
<1>1. /\ task_list \in Seq(Tasks) /\ Falling(task_list) /\ t \in ToSet(task_list)
      /\ Tasks \subseteq Nat \ {0} /\ Tasks \subseteq Int
      /\ t \in Tasks
  BY SliceIs, LinesOfTasks DEF QInv, PInv, Types, ListOrder
<1>2. burst'[t] \in Nat
  BY <1>1, SliceIs
<1>3. /\ temp' = next(task_list, t)
      /\ burst'[t] = 0 => /\ task_list' = delete(task_list, t, file)
                          /\ total_turnaround_time' = total_turnaround_time + current_time'
      /\ burst'[t] # 0 => /\ task_list' = task_list
                          /\ total_turnaround_time' = total_turnaround_time
  BY <1>2 DEF RunSlice, Advance
<1> HIDE DEF t
<1>4. PICK p \in 1 .. Len(task_list) : task_list[p] = t
  BY <1>1, MembersAre
<1>5. CASE burst'[t] # 0
  BY <1>1, <1>3, <1>5 DEF t
<1>6. CASE burst'[t] = 0
  <2>1. \A i, j \in 1 .. Len(task_list) :
          file[task_list[i]].name = file[task_list[j]].name => i = j
    <3>1. \A i, j \in 1 .. Len(task_list) : task_list[i] = task_list[j] => i = j
      <4>1. task_list \in Seq(Int)
        BY <1>1, SeqMonotonic
      <4> QED
        BY <1>1, <4>1, SortedDiffer
    <3>2. \A i \in 1 .. Len(task_list) : task_list[i] \in Tasks
      BY <1>1, MembersAre
    <3> QED
      BY <3>1, <3>2 DEF QInv, NamesDiffer
  <2>2. task_list' = RemoveAt(task_list, p)
    BY <1>1, <1>3, <1>4, <1>6, <2>1, VisitIs
  <2>3. /\ task_list' \in Seq(Tasks) /\ Falling(task_list')
        /\ ToSet(task_list') = ToSet(task_list) \ {t}
    BY <1>1, <1>4, <2>2, RemoveAtSorted
  <2> QED
    BY <1>3, <1>6, <2>3 DEF t
<1> QED
  BY <1>5, <1>6

LEMMA SliceRun ==
  ASSUME QInv, RunSlice, PInv'
  PROVE  QInv'
<1> DEFINE n == Len(file)
           t == temp
           x == slice
<1>1. /\ t \in ToSet(task_list) /\ t \in Tasks
      /\ x \in 0 .. QUANTUM /\ x <= burst[t]
      /\ x = 0 => burst[t] = 0
      /\ burst[t] - x # 0 => x = QUANTUM
      /\ burst' \in [Tasks -> Nat]
      /\ \A u \in Tasks : burst'[u] = IF u = t THEN burst[u] - x ELSE burst[u]
      /\ log' \in Logs(Tasks) /\ OneMore(log, t, x, log')
  BY SliceIs
<1>2. /\ Tasks = 1 .. n /\ n \in Nat /\ Tasks \subseteq Nat \ {0}
      /\ ToSet(task_list) \subseteq Tasks
      /\ \A u \in Tasks : file[u].burst \in Nat
      /\ log \in Logs(Tasks)
  BY LinesOfTasks DEF QInv, PInv
<1>3. /\ task_list' \in Seq(Tasks) /\ Falling(task_list')
      /\ ToSet(task_list') = IF burst'[t] = 0 THEN ToSet(task_list) \ {t} ELSE ToSet(task_list)
      /\ total_turnaround_time' = IF burst'[t] = 0
                                    THEN total_turnaround_time + current_time'
                                    ELSE total_turnaround_time
  BY ListStep
<1>4. /\ t # NULL /\ temp' = NULL => \A u \in ToSet(task_list) : t <= u
      /\ temp' # NULL => /\ temp' \in Tasks /\ temp' < t
                         /\ \A u \in ToSet(task_list) : temp' < u <=> t <= u
  BY ListStep, NextOfPass DEF RunSlice
<1>5. /\ at = "pass" /\ at' = "pass" /\ file' = file /\ Tasks' = Tasks /\ t # NULL
      /\ UNCHANGED <<task_count, total_burst_time, total_wait_time, highest_priority>>
      /\ current_time' = current_time + x
      /\ file[t].priority = highest_priority
      /\ tasks_at_priority_level' = tasks_at_priority_level + 1
  BY DEF RunSlice, sums, Tasks
<1>6. total_response_time' =
        IF Ran(log, t) THEN total_response_time ELSE total_response_time + current_time
  BY FirstRunIs
<1>7. /\ \A u \in Tasks : burst[u] = file[u].burst - Received(log, u)
      /\ \A u \in Tasks : u \in ToSet(task_list) <=> ~ (Ran(log, u) /\ burst[u] = 0)
      /\ \A u \in ToSet(task_list) : Ran(log, u) => Received(log, u) # 0
  BY <1>2 DEF QInv, Progress
<1>8. \A u \in Tasks : Met(u) <=> t < u
  BY <1>5 DEF Met
<1>9. \A u \in Tasks : Met(u)' <=> (temp' # NULL /\ temp' < u)
  BY DEF Met
<1> HIDE DEF t, x, n
<1>10. /\ \A u : Ran(log', u) <=> (Ran(log, u) \/ u = t)
       /\ \A u : Received(log', u) = IF u = t THEN Received(log, u) + x ELSE Received(log, u)
       /\ Now(log') = Now(log) + x
       /\ \A u : Ran(log, u) /\ u # t => Turnaround(log', u) = Turnaround(log, u)
       /\ Turnaround(log', t) = Now(log')
  BY <1>1 DEF OneMore
<1>11. \A u \in Tasks : Received(log, u) \in Nat /\ Received(log', u) \in Nat
                         /\ Received(log', u) <= Now(log')
  BY <1>1, <1>2, TimesOfTimeline
<1>12. NamesDiffer' /\ ListOrder'
  BY <1>3, <1>5 DEF QInv, NamesDiffer, ListOrder
<1>13. Progress'
  <2> SUFFICES ASSUME NEW u \in Tasks
               PROVE  /\ burst'[u] = file[u].burst - Received(log', u)
                      /\ u \in ToSet(task_list') <=> ~ (Ran(log', u) /\ burst'[u] = 0)
                      /\ u \in ToSet(task_list') /\ Ran(log', u) => Received(log', u) # 0
    BY <1>5 DEF Progress
  <2>1. CASE u = t
    <3>1. burst'[t] = burst[t] - x /\ burst[t] = file[t].burst - Received(log, t)
      BY <1>1, <1>7
    <3>2. burst'[u] = file[u].burst - Received(log', u)
      <4>1. /\ x \in Int /\ file[t].burst \in Int /\ Received(log, t) \in Int
            /\ Received(log', t) = Received(log, t) + x
        BY <1>1, <1>2, <1>10, <1>11
      <4> QED
        BY <2>1, <3>1, <4>1
    <3>3. u \in ToSet(task_list') <=> ~ (burst'[u] = 0)
      BY <1>1, <1>3, <2>1
    <3>4. u \in ToSet(task_list') => Received(log', u) # 0
      <4>1. burst'[t] # 0 => x = QUANTUM
        BY <1>1, <3>1
      <4> QED
        BY <1>1, <1>10, <1>11, <2>1, <3>3, <4>1
    <3> QED
      BY <1>10, <2>1, <3>2, <3>3, <3>4
  <2>2. CASE u # t
    <3>1. burst'[u] = burst[u] /\ Received(log', u) = Received(log, u)
      BY <1>1, <1>10, <2>2
    <3>2. u \in ToSet(task_list') <=> u \in ToSet(task_list)
      BY <1>3, <2>2
    <3>3. Ran(log', u) <=> Ran(log, u)
      BY <1>10, <2>2
    <3> QED
      BY <1>7, <3>1, <3>2, <3>3
  <2> QED
    BY <2>1, <2>2
<1>14. SumsAreOfTimeline'
  <2>1. /\ current_time = Now(log)
        /\ total_response_time = TotalResponse(n, log)
        /\ total_turnaround_time = TotalTurnaround(n, log, Done)
        /\ \A u \in Done : file[u].burst <= Turnaround(log, u)
    BY DEF QInv, SumsAreOfTimeline, n
  <2>2. /\ t \notin Done /\ \A u \in Done : Ran(log, u)
        /\ Done' = IF burst'[t] = 0 THEN Done \cup {t} ELSE Done
    BY <1>1, <1>3, <1>5, <1>7 DEF Done
  <2>3. TotalResponse(n, log') = TotalResponse(n, log) + (IF Ran(log, t) THEN 0 ELSE Now(log))
    BY <1>1, <1>2, TotalResponseGrows
  <2>4. /\ TotalTurnaround(n, log', Done) = TotalTurnaround(n, log, Done)
        /\ TotalTurnaround(n, log', Done \cup {t}) = TotalTurnaround(n, log, Done) + Now(log')
    <3> DEFINE D == Done
               before == log
               after == log'
    <3>1. t \notin D /\ (\A u \in D : Ran(before, u)) /\ n \in Nat /\ t \in 1 .. n
      BY <1>1, <1>2, <2>2
    <3>2. before \in Logs(Tasks) /\ after \in Logs(Tasks) /\ OneMore(before, t, x, after)
      BY <1>1, <1>2
    <3> HIDE DEF D, before, after
    <3>3. /\ TotalTurnaround(n, after, D) = TotalTurnaround(n, before, D)
          /\ TotalTurnaround(n, after, D \cup {t}) = TotalTurnaround(n, before, D) + Now(after)
      BY <3>1, <3>2, TotalTurnaroundGrows
    <3> QED
      BY <3>3 DEF D, before, after
  <2>5. TotalResponse(n, log) \in Nat
    BY <1>2, <2>2, TotalsAreNat
  <2>6. current_time' = Now(log')
    BY <1>5, <1>10, <2>1
  <2>7. total_response_time' = TotalResponse(n, log')
    BY <1>6, <2>1, <2>3, <2>5
  <2>8. total_turnaround_time' = TotalTurnaround(n, log', Done')
    BY <1>3, <2>1, <2>2, <2>4, <2>6
  <2>9. ASSUME NEW u \in Done' PROVE file[u].burst <= Turnaround(log', u)
    <3>1. CASE u = t
      <4>1. burst'[t] = 0
        BY <2>2, <2>9, <3>1
      <4>2. file[t].burst = Received(log', t)
        BY <1>1, <1>2, <1>5, <1>11, <1>13, <4>1 DEF Progress
      <4> QED
        BY <1>1, <1>10, <1>11, <3>1, <4>2
    <3>2. CASE u # t
      <4>1. u \in Done /\ Ran(log, u)
        BY <2>2, <2>9, <3>2
      <4> QED
        BY <1>10, <2>1, <3>2, <4>1
    <3> QED
      BY <3>1, <3>2
  <2>10. Len(file') = n
    BY <1>5 DEF n
  <2> QED
    BY <1>5, <2>6, <2>7, <2>8, <2>9, <2>10 DEF SumsAreOfTimeline
<1>15. Counted'
  BY <1>5 DEF QInv, Counted
<1>16. PassCounts'
  <2>1. /\ highest_priority \in {-1} \cup Priorities
        /\ tasks_at_priority_level \in 0 .. n
        /\ tasks_at_priority_level <= n - t
    BY <1>5 DEF QInv, PassCounts, n, t
  <2>2. Len(file') = n
    BY <1>5 DEF n
  <2>3. tasks_at_priority_level + 1 \in 0 .. n
    BY <1>1, <1>2, <2>1
  <2>4. temp' # NULL => tasks_at_priority_level + 1 <= n - temp'
    BY <1>1, <1>2, <1>4, <2>1
  <2> QED
    BY <1>5, <2>1, <2>2, <2>3, <2>4 DEF PassCounts
<1>17. OnlyTheLevel'
  <2>1. tasks_at_priority_level' # 0
    <3>1. tasks_at_priority_level \in 0 .. n
      BY DEF QInv, PassCounts, n
    <3> QED
      BY <1>5, <3>1
  <2>2. ASSUME NEW u \in ToSet(task_list'), file[u].priority # highest_priority
        PROVE  ~ Ran(log', u)
    <3>1. u # t /\ u \in ToSet(task_list)
      BY <1>3, <1>5, <2>2
    <3> QED
      BY <1>5, <1>10, <2>2, <3>1 DEF QInv, OnlyTheLevel
  <2> QED
    BY <1>5, <2>1, <2>2 DEF OnlyTheLevel
<1>18. Turns'
  <2> DEFINE level == {u \in ToSet(task_list') : file[u].priority = highest_priority}
  <2>1. ASSUME NEW u \in level
        PROVE  /\ u \in Tasks /\ t <= u => Received(log', u) = Received(log, t) + QUANTUM
               /\ ~ (t <= u) => Received(log', u) = Received(log, t)
               /\ temp' # NULL => (Met(u)' <=> t <= u)
               /\ temp' = NULL => t <= u /\ ~ Met(u)'
    <3>1. u \in ToSet(task_list) /\ u \in Tasks /\ file[u].priority = highest_priority
      BY <1>2, <1>3, <2>1
    <3>2. /\ (Met(t) <=> Met(u)) => Received(log, t) = Received(log, u)
          /\ Met(u) /\ ~ Met(t) => Received(log, u) = Received(log, t) + QUANTUM
      BY <1>1, <1>5, <3>1 DEF QInv, Turns
    <3>3. ~ Met(t) /\ (Met(u) <=> t < u)
      BY <1>1, <1>2, <1>8, <3>1
    <3>4. /\ temp' # NULL => (Met(u)' <=> t <= u)
          /\ temp' = NULL => t <= u /\ ~ Met(u)'
      BY <1>4, <1>5, <1>9, <3>1
    <3>5. CASE u = t
      <4>1. burst[t] - x # 0
        BY <1>1, <1>3, <2>1, <3>5
      <4>2. x = QUANTUM
        BY <1>1, <4>1
      <4>3. Received(log', u) = Received(log, t) + QUANTUM
        BY <1>10, <3>5, <4>2
      <4>4. t <= u
        BY <1>1, <1>2, <3>5
      <4> QED
        BY <3>4, <4>3, <4>4
    <3>6. CASE u # t
      <4>1. Received(log', u) = Received(log, u)
        BY <1>10, <3>6
      <4>2. t <= u <=> t < u
        BY <1>1, <1>2, <3>1, <3>6
      <4> QED
        BY <3>2, <3>3, <3>4, <4>1, <4>2
    <3> QED
      BY <3>5, <3>6
  <2>2. ASSUME NEW u \in level, NEW v \in level
        PROVE  /\ (Met(u)' <=> Met(v)') => Received(log', u) = Received(log', v)
               /\ Met(v)' /\ ~ Met(u)' => Received(log', v) = Received(log', u) + QUANTUM
    <3>1. u \in Tasks /\ v \in Tasks
      BY <1>2, <1>3, <2>2
    <3>2. /\ t <= u => Received(log', u) = Received(log, t) + QUANTUM
          /\ ~ (t <= u) => Received(log', u) = Received(log, t)
          /\ temp' # NULL => (Met(u)' <=> t <= u)
          /\ temp' = NULL => t <= u /\ ~ Met(u)'
      BY <2>1, <2>2, <3>1
    <3>3. /\ t <= v => Received(log', v) = Received(log, t) + QUANTUM
          /\ ~ (t <= v) => Received(log', v) = Received(log, t)
          /\ temp' # NULL => (Met(v)' <=> t <= v)
          /\ temp' = NULL => t <= v /\ ~ Met(v)'
      BY <2>1, <2>2, <3>1
    <3> QED
      BY <3>2, <3>3
  <2> QED
    BY <1>5, <2>2 DEF Turns
<1> QED
  BY <1>12, <1>13, <1>14, <1>15, <1>16, <1>17, <1>18 DEF QInv

----------------------------------------------------------------------------

LEMMA NextPasses == DistinctNames /\ QInv /\ [Next]_vars => QInv'
<1> SUFFICES ASSUME DistinctNames, QInv, [Next]_vars PROVE QInv'
  OBVIOUS
<1>1. PInv'
  BY NextPriority DEF QInv
<1>2. CASE UNCHANGED vars
  <2>1. /\ UNCHANGED <<file, task_list, at, temp, highest_priority, tasks_at_priority_level,
                       total_wait_time, task_count, total_burst_time, burst, current_time,
                       total_turnaround_time, total_response_time, log>>
        /\ Tasks' = Tasks
    BY <1>2 DEF vars, sums, cpu, Tasks
  <2>2. NamesDiffer' /\ ListOrder' /\ Progress' /\ SumsAreOfTimeline' /\ Counted'
    BY <2>1 DEF QInv, NamesDiffer, ListOrder, Progress, SumsAreOfTimeline, Counted, Done
  <2>3. PassCounts' /\ OnlyTheLevel' /\ Turns'
    BY <2>1 DEF QInv, PassCounts, OnlyTheLevel, Turns, Met
  <2> QED
    BY <1>1, <2>2, <2>3 DEF QInv
<1>3. CASE Terminated
  BY <1>2, <1>3 DEF Terminated
<1> QED
  BY <1>1, <1>2, <1>3, AddRun, StartRun, FindRun, SliceRun, SkipRun, PassAgainRun,
     LeavePassRun, ReportRun DEF Next

(* What the invariant says when the averages are printed: all tasks are    *)
(* done, and their totals are what the sums have become.                   *)
LEMMA EndOfRun ==
  ASSUME QInv, at = "reported"
  PROVE  /\ task_count = Len(file)
         /\ total_response_time = SumOf([t \in Tasks |-> Response(log, t)])
         /\ total_turnaround_time = SumOf([t \in Tasks |-> Turnaround(log, t)])
         /\ total_wait_time = SumOf([t \in Tasks |-> Turnaround(log, t) - file[t].burst])
         /\ total_wait_time \in Nat
<1> DEFINE n == Len(file)
           bursts == [t \in 1 .. n |-> file[t].burst]
<1>1. /\ Tasks = 1 .. n /\ n \in Nat /\ log \in Logs(Tasks)
      /\ \A t \in Tasks : file[t].burst \in Nat
  BY LinesOfTasks DEF QInv, PInv
<1>2. /\ task_list = << >> /\ task_count = n
      /\ total_burst_time = SumOf(bursts)
      /\ total_wait_time = total_turnaround_time - total_burst_time
  BY <1>1 DEF QInv, PInv, Counted
<1>3. ToSet(task_list) = {}
  BY <1>2 DEF ToSet
<1>4. Done = 1 .. n /\ \A t \in 1 .. n : Ran(log, t)
  BY <1>1, <1>3 DEF QInv, PInv, Progress, Done
<1>5. /\ total_response_time = TotalResponse(n, log)
      /\ total_turnaround_time = TotalTurnaround(n, log, 1 .. n)
      /\ \A t \in 1 .. n : file[t].burst <= Turnaround(log, t)
  BY <1>4 DEF QInv, PInv, SumsAreOfTimeline
<1>6. bursts \in [1 .. n -> Nat] /\ \A t \in 1 .. n : bursts[t] <= Turnaround(log, t)
  BY <1>1, <1>5
<1>7. [t \in 1 .. n |-> Turnaround(log, t) - bursts[t]] =
        [t \in Tasks |-> Turnaround(log, t) - file[t].burst]
  BY <1>1
<1> HIDE DEF n, bursts
<1>8. /\ TotalResponse(n, log) = SumOf([t \in 1 .. n |-> Response(log, t)])
      /\ TotalTurnaround(n, log, 1 .. n) = SumOf([t \in 1 .. n |-> Turnaround(log, t)])
      /\ SumOf([t \in 1 .. n |-> Turnaround(log, t) - bursts[t]]) =
           TotalTurnaround(n, log, 1 .. n) - SumOf(bursts)
      /\ TotalTurnaround(n, log, 1 .. n) - SumOf(bursts) \in Nat
  <2> DEFINE T == Tasks
  <2>1. /\ log \in Logs(T) /\ n \in Nat /\ bursts \in [1 .. n -> Nat]
        /\ \A t \in 1 .. n : Ran(log, t) /\ bursts[t] <= Turnaround(log, t)
    BY <1>1, <1>4, <1>6
  <2> HIDE DEF T
  <2>2. AllTotals(n, log, bursts)
    BY <2>1, TotalsInTheEnd
  <2> QED
    BY <2>2 DEF AllTotals
<1> QED
  BY <1>1, <1>2, <1>5, <1>7, <1>8 DEF n

(* The variables keep their types: no burst becomes negative, nor does the *)
(* waiting time, which is a difference of two sums; temp is not left       *)
(* pointing at a task that was deleted, and no pass counts a task twice.   *)
THEOREM TypeCorrect == DistinctNames => (Spec => []TypeOK)
<1> SUFFICES ASSUME DistinctNames PROVE Spec => []TypeOK
  OBVIOUS
<1>1. QInv /\ [Next]_vars => QInv'
  BY NextPasses
<1>2. ASSUME QInv PROVE TypeOK
  <2>1. /\ Tasks = 1 .. Len(file) /\ Len(file) \in Nat /\ log \in Logs(Tasks)
        /\ \A t \in Tasks : file[t].burst \in Nat
    BY <1>2, LinesOfTasks DEF QInv, PInv
  <2>2. current_time \in Nat
    BY <1>2, <2>1, TimesOfTimeline DEF QInv, PInv, SumsAreOfTimeline
  <2>3. total_response_time \in Nat /\ total_turnaround_time \in Nat
    <3>1. \A t \in Done : Ran(log, t)
      BY <1>2 DEF QInv, PInv, Progress, Done
    <3> QED
      BY <1>2, <2>1, <3>1, TotalsAreNat DEF QInv, PInv, SumsAreOfTimeline
  <2>4. task_count \in 0 .. Len(file)
    BY <1>2, <2>1 DEF QInv, PInv, Counted
  <2>5. total_burst_time \in Nat
    <3>1. [t \in Tasks |-> file[t].burst] \in [1 .. Len(file) -> Nat]
      BY <2>1
    <3>2. SumOf([t \in Tasks |-> file[t].burst]) \in Nat
      BY <2>1, <3>1, SumIsNat
    <3> QED
      BY <1>2, <3>2 DEF QInv, PInv, Counted
  <2>6. total_wait_time \in Nat
    BY <1>2, EndOfRun DEF QInv, PInv, Counted
  <2> QED
    BY <1>2, <2>2, <2>3, <2>4, <2>5, <2>6 DEF QInv, PInv, PassCounts, Types, TypeOK
<1>3. QInv => TypeOK
  BY <1>2
<1> QED
  BY InitRun, <1>1, <1>3, PTL DEF Spec

(* The averages that are printed are those of the timeline, although a     *)
(* first run is told by the burst still being the original one of the name *)
(* and the waiting time is computed from two other sums.                   *)
THEOREM ReportIsCorrect == DistinctNames => (Spec => []ReportCorrect)
<1> SUFFICES ASSUME DistinctNames PROVE Spec => []ReportCorrect
  OBVIOUS
<1>1. QInv /\ [Next]_vars => QInv'
  BY NextPasses
<1>2. QInv => ReportCorrect
  BY EndOfRun DEF ReportCorrect
<1> QED
  BY InitRun, <1>1, <1>2, PTL DEF Spec

(* What the abstract CPU calls finished: the task has run, and the burst   *)
(* that is counted down is at 0.                                           *)
LEMMA FinishedIs ==
  ASSUME QInv, NEW t \in Tasks
  PROVE  /\ Timeline!Left(t) = burst[t]
         /\ Timeline!Finished(t) <=> Ran(log, t) /\ burst[t] = 0
<1>1. Timeline!Left(t) = file[t].burst - Received(log, t)
  <2> DEFINE demand == [u \in Tasks |-> file[u].burst]
  <2>1. Timeline!Left(t) = demand[t] - Received(log, t)
    BY DEF Timeline!Left, Timeline!Received, Timeline!SumOf, Timeline!PartialSums,
       Received, SumOf, PartialSums
  <2> QED
    BY <2>1
<1>2. Timeline!Left(t) = burst[t]
  BY <1>1 DEF QInv, Progress
<1> QED
  BY <1>2 DEF Timeline!Finished, Timeline!SlicesOf, Ran, SlicesOf

(* A task does not run before every task of a higher priority has run and  *)
(* has the whole of its burst, however the passes and the deletions of     *)
(* schedule() intertwine: delete() takes out the task that is finished and *)
(* no other if names differ.                                               *)
THEOREM PriorityIsStrict == DistinctNames => (Spec => []StrictPriority)
<1> SUFFICES ASSUME DistinctNames PROVE Spec => []StrictPriority
  OBVIOUS
<1>1. QInv /\ [Next]_vars => QInv'
  BY NextPasses
<1>2. ASSUME QInv PROVE StrictPriority
  <2> SUFFICES ASSUME NEW t \in Tasks, NEW u \in Tasks,
                      file[t].priority > file[u].priority, SlicesOf(log, u) # {}
               PROVE  Timeline!Finished(t)
    BY DEF StrictPriority
  <2>1. t \notin ToSet(task_list)
    BY <1>2 DEF QInv, PInv, ListPriority
  <2>2. Ran(log, t) /\ burst[t] = 0
    BY <1>2, <2>1 DEF QInv, Progress
  <2> QED
    BY <1>2, <2>2, FinishedIs
<1>3. QInv => StrictPriority
  BY <1>2
<1> QED
  BY InitRun, <1>1, <1>3, PTL DEF Spec

(* Tasks of equal priority take turns, the one read last first, although   *)
(* the passes skip tasks and delete others under the pointer.              *)
THEOREM TurnsStayFair == DistinctNames => (Spec => []TurnsAreFair)
<1> SUFFICES ASSUME DistinctNames PROVE Spec => []TurnsAreFair
  OBVIOUS
<1>1. QInv /\ [Next]_vars => QInv'
  BY NextPasses
<1>2. ASSUME QInv PROVE TurnsAreFair
  <2> SUFFICES ASSUME NEW t \in ToSet(task_list), NEW u \in ToSet(task_list), t < u,
                      file[t].priority = file[u].priority
               PROVE  Received(log, u) - Received(log, t) \in {0, QUANTUM}
    BY DEF TurnsAreFair
  <2>1. /\ Tasks \subseteq Int /\ t \in Tasks /\ u \in Tasks /\ log \in Logs(Tasks)
        /\ temp # NULL => temp \in Tasks
    BY <1>2, LinesOfTasks DEF QInv, PInv, Types
  <2>2. /\ Received(log, t) \in Nat /\ Received(log, u) \in Nat
        /\ ~ Ran(log, t) => Received(log, t) = 0
        /\ ~ Ran(log, u) => Received(log, u) = 0
    BY <2>1, TimesOfTimeline
  <2>3. CASE at = "pass" /\ file[t].priority = highest_priority
    <3>1. /\ (Met(t) <=> Met(u)) => Received(log, t) = Received(log, u)
          /\ Met(u) /\ ~ Met(t) => Received(log, u) = Received(log, t) + QUANTUM
      BY <1>2, <2>3 DEF QInv, Turns
    <3>2. ASSUME Met(t) PROVE Met(u)
      <4>1. temp # NULL /\ temp < t /\ temp \in Int /\ t \in Int /\ u \in Int
        BY <2>1, <3>2 DEF Met
      <4>2. temp < u
        BY <4>1
      <4> QED
        BY <4>1, <4>2 DEF Met
    <3> QED
      BY <2>2, <3>1, <3>2
  <2>4. CASE ~ (at = "pass" /\ file[t].priority = highest_priority)
    <3>1. ~ Ran(log, t) /\ ~ Ran(log, u)
      BY <1>2, <2>4 DEF QInv, OnlyTheLevel
    <3> QED
      BY <2>2, <3>1
  <2> QED
    BY <2>3, <2>4
<1>3. QInv => TurnsAreFair
  BY <1>2
<1> QED
  BY InitRun, <1>1, <1>3, PTL DEF Spec

----------------------------------------------------------------------------
(* The program as a CPU timeline *)

(* A slice of a pass is one of the abstract CPU: its task is not finished, *)
(* and it ends at the end of the burst at the latest.                      *)
LEMMA SliceIsRun ==
  ASSUME QInv, RunSlice
  PROVE  Timeline!Next
<1> DEFINE t == temp
           x == slice
           demand == [u \in Tasks |-> file[u].burst]
<1>1. /\ t \in ToSet(task_list) /\ t \in Tasks
      /\ x \in 0 .. QUANTUM /\ x <= burst[t] /\ (x = 0 => burst[t] = 0)
      /\ burst[t] \in Nat
      /\ burst[t] = file[t].burst - Received(log, t)
      /\ t \in ToSet(task_list) <=> ~ (Ran(log, t) /\ burst[t] = 0)
  BY SliceIs, NextOfPass DEF QInv, PInv, Types, Progress
<1>2. Timeline!Left(t) = burst[t]
  BY <1>1, FinishedIs
<1>3. ~ Timeline!Finished(t)
  BY <1>1, FinishedIs
<1>4. UNCHANGED demand /\ log' = Append(log, [task |-> t, slice |-> x])
  BY DEF RunSlice, Tasks
<1>5. x \in 0 .. Timeline!Left(t) /\ (x = 0 => Timeline!Left(t) = 0)
  BY <1>1, <1>2
<1>6. t \in DOMAIN demand
  BY <1>1
<1> HIDE DEF x, t
<1>7. Timeline!Run(t)
  BY <1>3, <1>4, <1>5 DEF Timeline!Run
<1> QED
  BY <1>6, <1>7 DEF Timeline!Next, Timeline!RunSome, Timeline!Tasks

(* However the bursts are cut into slices, each task gets its burst and    *)
(* never runs again: the program takes no step that the abstract CPU does  *)
(* not take.                                                               *)
THEOREM IsTimeline == DistinctNames => (Spec => Timeline!Spec)
<1> SUFFICES ASSUME DistinctNames PROVE Spec => Timeline!Spec
  OBVIOUS
<1>1. Init => Timeline!Init
  BY DEF Init, Timeline!Init, Tasks
<1>2. QInv /\ [Next]_vars => QInv'
  BY NextPasses
<1>3. ASSUME QInv, [Next]_vars PROVE [Timeline!Next]_(Timeline!vars)
  <2>1. CASE add
    <3>1. PICK line \in Lines : ReadLine(line)
      BY <2>1 DEF add
    <3>2. log = << >> /\ log' = log
      BY <1>3, <2>1 DEF QInv, PInv, Types, add
    <3>3. [t \in Tasks |-> file[t].burst]' = Append([t \in Tasks |-> file[t].burst], line.burst)
      BY <1>3, <3>1, DemandGrows DEF ReadLine, Tasks, QInv, PInv, Types
    <3>4. line.burst \in Bursts
      BY DEF Lines
    <3> QED
      BY <3>2, <3>3, <3>4 DEF Timeline!Next, Timeline!Submit
  <2>2. CASE RunSlice
    BY <1>3, <2>2, SliceIsRun
  <2>3. CASE \/ Start \/ FindHighest \/ Skip \/ PassAgain \/ LeavePass \/ Report
               \/ Terminated \/ UNCHANGED vars
    BY <2>3 DEF Start, FindHighest, Skip, PassAgain, LeavePass, Report, Terminated, vars, cpu,
                Timeline!vars, Tasks
  <2> QED
    BY <1>3, <2>1, <2>2, <2>3 DEF Next
<1>4. QInv /\ [Next]_vars => [Timeline!Next]_(Timeline!vars)
  BY <1>3
<1> QED
  BY <1>1, InitRun, <1>2, <1>4, PTL DEF Spec, Timeline!Spec
=============================================================================
