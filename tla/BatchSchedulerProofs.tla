------------------------ MODULE BatchSchedulerProofs ------------------------
(***************************************************************************)
(* Theorems about BatchScheduler (schedule_fcfs.c, schedule_sjf.c and      *)
(* schedule_priority.c) for files of any length and any bursts and         *)
(* priorities.  The invariant grows from one to the next:                  *)
(*   TInv  types, with the lengths of the list and of the file compared;   *)
(*   OInv  the order of service: insert() leaves the list with the last    *)
(*         line first, delete() keeps that, and what is not in the list    *)
(*         any more has run;                                               *)
(*   SInv  each task runs once, and the sums kept so far are those of the  *)
(*         tasks that have run;                                            *)
(*   WInv  each runs to its end and waits for those before it, so the      *)
(*         total waiting time depends on the order of the log alone, and   *)
(*         shortest-first is the order that makes it least.                *)
(* All but the first need the names to differ.                             *)
(***************************************************************************)
EXTENDS BatchScheduler, Lemmas, FiniteSetTheorems

(* The lengths of the list and of the file, phase by phase. *)
Lengths ==
  /\ Len(task_list) <= Len(file)
  /\ phase = "adding" => /\ Len(task_list) = Len(file)
                         /\ task_count = 0
                         /\ log = << >>
  /\ policy # "fcfs" \/ phase = "adding" => temp = 1
  /\ policy = "fcfs" /\ phase # "adding" =>
       /\ Len(task_list) = Len(file)
       /\ task_count = temp - 1

TInv == TypeOK /\ Lengths

USE TaskListAssumption

----------------------------------------------------------------------------
(* The search of pickNextTask *)

(* In a list that is not empty it finds a node of which no other node is   *)
(* better, and none before it as good.                                     *)
LEMMA PickIs ==
  ASSUME TypeOK, policy # "fcfs", task_list # << >>
  PROVE  \E i \in DOMAIN task_list :
           /\ pickNextTask = task_list[i]
           /\ \A j \in DOMAIN task_list : ~ Better(task_list[j], task_list[i])
           /\ \A j \in 1 .. i - 1 : Better(task_list[i], task_list[j])
<1> DEFINE n == Len(task_list)
           f == [i \in 1 .. n |-> IF policy = "sjf" THEN - file[task_list[i]].burst
                                                    ELSE file[task_list[i]].priority]
           Best == {i \in 1 .. n : \A j \in 1 .. n : f[j] <= f[i]}
<1>1. n \in Nat \ {0} /\ DOMAIN task_list = 1 .. n
  BY EmptySeq, LenProperties DEF TypeOK
<1>2. \A i \in 1 .. n : /\ file[task_list[i]].burst \in Nat
                        /\ file[task_list[i]].priority \in Int
  <2>1. \A i \in 1 .. n : task_list[i] \in Tasks
    BY ElementOfSeq DEF TypeOK
  <2>2. \A t \in Tasks : file[t] \in Lines
    BY ElementOfSeq, LenProperties DEF TypeOK, Tasks
  <2> QED
    BY <2>1, <2>2 DEF Lines
<1>3. \A i \in 1 .. n : f[i] \in Int
  BY <1>2
<1>4. \A i, j \in 1 .. n : Better(task_list[i], task_list[j]) <=> f[j] < f[i]
  <2> SUFFICES ASSUME NEW i \in 1 .. n, NEW j \in 1 .. n
               PROVE  Better(task_list[i], task_list[j]) <=> f[j] < f[i]
    OBVIOUS
  <2> DEFINE t == task_list[i]
             u == task_list[j]
  <2>1. /\ file[t].burst \in Nat /\ file[u].burst \in Nat
        /\ file[t].priority \in Int /\ file[u].priority \in Int
    BY <1>2
  <2>2. CASE policy = "sjf"
    <3>1. f[i] = - file[t].burst /\ f[j] = - file[u].burst
      BY <2>2
    <3>2. Better(t, u) <=> file[t].burst < file[u].burst
      BY <2>2 DEF Better
    <3> HIDE DEF f, t, u
    <3>3. Better(t, u) <=> f[j] < f[i]
      BY <2>1, <3>1, <3>2
    <3> QED
      BY <3>3 DEF t, u
  <2>3. CASE policy = "priority"
    <3>1. f[i] = file[t].priority /\ f[j] = file[u].priority
      BY <2>3
    <3>2. Better(t, u) <=> file[t].priority > file[u].priority
      BY <2>3 DEF Better
    <3> HIDE DEF f, t, u
    <3>3. Better(t, u) <=> f[j] < f[i]
      BY <2>1, <3>1, <3>2
    <3> QED
      BY <3>3 DEF t, u
  <2> QED
    BY <2>2, <2>3 DEF TypeOK
<1> HIDE DEF f, n
<1>5. Best # {} /\ Best \subseteq Nat
  <2>1. \E i \in 1 .. n : \A j \in 1 .. n : f[j] <= f[i]
    BY <1>1, <1>3, GreatestExists
  <2> QED
    BY <2>1
<1>6. PICK i \in Best : \A j \in Best : i <= j
  <2> HIDE DEF Best
  <2> QED
    BY <1>5, SmallestExists
<1>7. \A j \in 1 .. n : ~ (f[i] < f[j])
  BY <1>3, <1>6
<1>8. ASSUME NEW j \in 1 .. i - 1 PROVE f[j] < f[i]
  <2>1. j \in 1 .. n /\ j \notin Best
    BY <1>1, <1>6
  <2>2. PICK k \in 1 .. n : ~ (f[k] <= f[j])
    BY <2>1
  <2>3. f[k] <= f[i]
    BY <1>6
  <2> QED
    BY <1>3, <1>6, <2>1, <2>2, <2>3
<1>9. /\ i \in DOMAIN task_list
      /\ \A j \in DOMAIN task_list : ~ Better(task_list[j], task_list[i])
      /\ \A j \in 1 .. i - 1 : Better(task_list[i], task_list[j])
  <2>1. \A j \in 1 .. i - 1 : j \in 1 .. n
    BY <1>1, <1>6
  <2> QED
    BY <1>1, <1>4, <1>6, <1>7, <1>8, <2>1
<1> QED
  BY <1>9 DEF pickNextTask

(* A round of PickedRuns takes one node out of the list, whose task has    *)
(* the name of the task that runs.                                         *)
LEMMA PickedIs ==
  ASSUME TypeOK, policy # "fcfs", task_list # << >>
  PROVE  /\ pickNextTask \in Tasks
         /\ \E p \in 1 .. Len(task_list) :
              /\ file[task_list[p]].name = file[pickNextTask].name
              /\ delete(task_list, pickNextTask, file) = RemoveAt(task_list, p)
<1>1. PICK i \in DOMAIN task_list : pickNextTask = task_list[i]
  BY PickIs
<1>2. task_list \in Seq(Tasks) /\ i \in 1 .. Len(task_list)
  BY LenProperties DEF TypeOK
<1>3. task_list[i] \in Tasks
  BY <1>2, ElementOfSeq
<1>4. \E j \in 1 .. Len(task_list) : file[task_list[j]].name = file[pickNextTask].name
  BY <1>1, <1>2
<1>5. \E p \in 1 .. Len(task_list) :
        /\ file[task_list[p]].name = file[pickNextTask].name
        /\ delete(task_list, pickNextTask, file) = RemoveAt(task_list, p)
  <2> DEFINE t == pickNextTask
  <2>1. \E j \in 1 .. Len(task_list) : file[task_list[j]].name = file[t].name
    BY <1>4
  <2> HIDE DEF t
  <2>2. \E p \in 1 .. Len(task_list) :
          /\ file[task_list[p]].name = file[t].name
          /\ delete(task_list, t, file) = RemoveAt(task_list, p)
    BY <1>2, <2>1, DeleteIs
  <2> QED
    BY <2>2 DEF t
<1> QED
  BY <1>1, <1>3, <1>5

----------------------------------------------------------------------------
(* Types and lengths *)

LEMMA InitTypes == Init => TInv
<1> SUFFICES ASSUME Init PROVE TInv
  OBVIOUS
<1>1. TypeOK
  BY EmptySeq DEF Init, TypeOK
<1>2. Lengths
  BY DEF Init, Lengths
<1> QED
  BY <1>1, <1>2 DEF TInv

LEMMA AddTypes ==
  ASSUME TInv, add
  PROVE  TInv'
<1> USE DEF TInv, TypeOK
<1>1. PICK line \in Lines : ReadLine(line)
  BY DEF add
<1>2. /\ file' \in Seq(Lines)
      /\ Len(file') = Len(file) + 1
      /\ Tasks' = 1 .. Len(file) + 1
      /\ Tasks = 1 .. Len(file)
  BY <1>1, AppendProperties, LenProperties DEF ReadLine, Tasks
<1>3. task_list' \in Seq(Tasks') /\ Len(task_list') = Len(task_list) + 1
  <2>1. task_list \in Seq(Tasks')
    BY <1>2, SeqMonotonic
  <2>2. Len(file) + 1 \in Tasks'
    BY <1>2, LenProperties
  <2> QED
    BY <1>1, <2>1, <2>2, InsertIs DEF ReadLine
<1>4. UNCHANGED <<policy, phase, temp, totals, task_count, log>> /\ phase = "adding"
  BY DEF add
<1>5. log' \in Seq([task : Tasks', slice : Bursts])
  BY <1>4, EmptySeq DEF Lengths
<1>6. TypeOK'
  BY <1>2, <1>3, <1>4, <1>5, LenProperties DEF Lengths, totals
<1>7. Lengths'
  BY <1>2, <1>3, <1>4, LenProperties DEF Lengths
<1> QED
  BY <1>6, <1>7

LEMMA StartTypes ==
  ASSUME TInv, Start
  PROVE  TInv'
<1> USE DEF TInv, TypeOK, Start
<1>1. Tasks' = Tasks
  BY DEF Tasks
<1>2. CASE StartFcfs
  <2>1. task_list' \in Seq(Tasks) /\ Len(task_list') = Len(task_list)
    BY <1>2, ReverseIs DEF StartFcfs
  <2>2. TypeOK'
    BY <1>1, <1>2, <2>1 DEF StartFcfs, totals
  <2>3. Lengths'
    BY <1>2, <2>1 DEF StartFcfs, Lengths
  <2> QED
    BY <2>2, <2>3
<1>3. CASE StartCounting
  <2>1. TypeOK'
    BY <1>1, <1>3, LenProperties DEF StartCounting, Lengths, totals
  <2>2. Lengths'
    BY <1>3 DEF StartCounting, Lengths
  <2> QED
    BY <2>1, <2>2
<1> QED
  BY <1>2, <1>3

(* What run() and the sums do with the types. *)
LEMMA RunTaskTypes ==
  ASSUME TInv, NEW t \in Tasks, RunTask(t)
  PROVE  /\ UNCHANGED <<file, policy, phase>> /\ Tasks' = Tasks
         /\ log' \in Seq([task : Tasks, slice : Bursts])
         /\ current_time' \in Nat /\ total_wait_time' \in Nat
         /\ total_turnaround_time' \in Nat /\ total_response_time' \in Nat
<1>1. file[t] \in Lines
  BY ElementOfSeq, LenProperties DEF Tasks, TInv, TypeOK
<1>2. file[t].burst \in Bursts /\ file[t].burst \in Nat
  BY <1>1 DEF Lines
<1>3. log' \in Seq([task : Tasks, slice : Bursts])
  <2> DEFINE R == [task : Tasks, slice : Bursts]
             e == [task |-> t, slice |-> file[t].burst]
  <2>1. log \in Seq(R) /\ e \in R /\ log' = Append(log, e)
    BY <1>2 DEF TInv, TypeOK, RunTask
  <2> HIDE DEF R, e
  <2>2. log' \in Seq(R)
    BY <2>1, AppendProperties
  <2> QED
    BY <2>2 DEF R
<1>4. /\ current_time' \in Nat /\ total_wait_time' \in Nat
      /\ total_turnaround_time' \in Nat /\ total_response_time' \in Nat
  <2>1. /\ current_time \in Nat /\ total_wait_time \in Nat
        /\ total_turnaround_time \in Nat /\ total_response_time \in Nat
    BY DEF TInv, TypeOK
  <2>2. /\ current_time' = current_time + file[t].burst
        /\ total_wait_time' = total_wait_time + current_time
        /\ total_turnaround_time' = total_turnaround_time + current_time'
        /\ total_response_time' = total_response_time + current_time
    BY DEF RunTask
  <2> QED
    BY <1>2, <2>1, <2>2
<1>5. UNCHANGED <<file, policy, phase>> /\ Tasks' = Tasks
  BY DEF Tasks, RunTask
<1> QED
  BY <1>3, <1>4, <1>5

LEMMA FcfsTypes ==
  ASSUME TInv, FcfsRuns
  PROVE  TInv'
<1> USE DEF TInv, FcfsRuns
<1>1. task_list \in Seq(Tasks) /\ temp \in 1 .. Len(task_list) /\ Len(task_list) \in Nat
  BY LenProperties DEF TypeOK
<1>2. task_list[temp] \in Tasks
  BY <1>1, ElementOfSeq
<1>3. /\ UNCHANGED <<file, policy, phase>> /\ Tasks' = Tasks
      /\ log' \in Seq([task : Tasks, slice : Bursts])
      /\ current_time' \in Nat /\ total_wait_time' \in Nat
      /\ total_turnaround_time' \in Nat /\ total_response_time' \in Nat
  BY <1>2, RunTaskTypes
<1>4. TypeOK'
  BY <1>1, <1>3, LenProperties DEF TypeOK, Lengths
<1>5. Lengths'
  BY <1>1, <1>3, LenProperties DEF TypeOK, Lengths
<1> QED
  BY <1>4, <1>5

LEMMA PickedTypes ==
  ASSUME TInv, PickedRuns
  PROVE  TInv'
<1> USE DEF TInv, PickedRuns
<1>1. pickNextTask \in Tasks
  BY PickedIs
<1>2. PICK p \in 1 .. Len(task_list) : task_list' = RemoveAt(task_list, p)
  BY PickedIs
<1>3. task_list' \in Seq(Tasks) /\ Len(task_list') = Len(task_list) - 1
  BY <1>2, RemoveAtIs DEF TypeOK
<1>4. /\ UNCHANGED <<file, policy, phase>> /\ Tasks' = Tasks
      /\ log' \in Seq([task : Tasks, slice : Bursts])
      /\ current_time' \in Nat /\ total_wait_time' \in Nat
      /\ total_turnaround_time' \in Nat /\ total_response_time' \in Nat
  <2> DEFINE t == pickNextTask
  <2>1. t \in Tasks /\ RunTask(t)
    BY <1>1
  <2> HIDE DEF t
  <2> QED
    BY <2>1, RunTaskTypes
<1>5. Len(task_list) \in Nat /\ Len(task_list') \in Nat
  BY <1>3, LenProperties DEF TypeOK
<1>6. TypeOK'
  BY <1>3, <1>4, <1>5 DEF TypeOK, Lengths
<1>7. Lengths'
  BY <1>3, <1>4, <1>5, LenProperties DEF TypeOK, Lengths
<1> QED
  BY <1>6, <1>7

LEMMA ReportTypes ==
  ASSUME TInv, Report
  PROVE  TInv'
  BY DEF TInv, TypeOK, Lengths, Report, Tasks, Lines, totals

LEMMA NextTypes == TInv /\ [Next]_vars => TInv'
<1> SUFFICES ASSUME TInv, [Next]_vars PROVE TInv'
  OBVIOUS
<1>1. CASE UNCHANGED vars
  BY <1>1 DEF vars, TInv, TypeOK, Lengths, Tasks, Lines, totals
<1>2. CASE Terminated
  BY <1>2, <1>1 DEF Terminated
<1> QED
  BY <1>1, <1>2, AddTypes, StartTypes, FcfsTypes, PickedTypes, ReportTypes DEF Next

(* The variables of the three programs keep their types: the position of   *)
(* fcfs stays in the list and no program counts more tasks than lines.     *)
THEOREM TypeCorrect == Spec => []TypeOK
<1>1. TInv => TypeOK
  BY DEF TInv
<1> QED
  BY InitTypes, NextTypes, <1>1, PTL DEF Spec

----------------------------------------------------------------------------
(* The order of service, when the file gives every task its own name       *)

NamesDiffer == \A t, u \in Tasks : file[t].name = file[u].name => t = u

(* From the head on the list holds the lines backwards, with gaps once     *)
(* tasks are taken out; fcfs has reversed it before the first task runs.   *)
ListOrder ==
  /\ phase = "adding" =>
       \A i \in 1 .. Len(task_list) : task_list[i] = Len(file) - i + 1
  /\ policy # "fcfs" \/ phase = "adding" =>
       \A i, j \in 1 .. Len(task_list) : i < j => task_list[j] < task_list[i]
  /\ policy = "fcfs" /\ phase # "adding" =>
       /\ \A i \in 1 .. Len(task_list) : task_list[i] = i
       /\ Len(log) = temp - 1
       /\ \A i \in 1 .. Len(log) : log[i].task = i

(* A task that left the list has run. *)
NoneIsLost ==
  policy # "fcfs" =>
    \A t \in Tasks : \/ \E i \in 1 .. Len(task_list) : task_list[i] = t
                     \/ \E i \in 1 .. Len(log) : log[i].task = t

OInv ==
  /\ TInv
  /\ NamesDiffer
  /\ ListOrder
  /\ NoneIsLost
  /\ ServesInOrder

LEMMA InitOrder == Init => OInv
<1> SUFFICES ASSUME Init PROVE OInv
  OBVIOUS
<1>1. NamesDiffer /\ ListOrder /\ NoneIsLost /\ ServesInOrder
  BY DEF Init, NamesDiffer, ListOrder, NoneIsLost, ServesInOrder, Tasks
<1> QED
  BY <1>1, InitTypes DEF OInv

LEMMA AddOrder ==
  ASSUME OInv, DistinctNames, add
  PROVE  OInv'
<1> USE DEF OInv, TInv
<1>1. PICK line \in Lines : ReadLine(line)
  BY DEF add
<1> DEFINE n == Len(file)
<1>2. /\ n \in Nat /\ Len(file') = n + 1
      /\ Tasks' = 1 .. n + 1 /\ Tasks = 1 .. n
      /\ file'[n + 1] = line
      /\ \A t \in Tasks : file'[t] = file[t]
  BY <1>1, AppendProperties, LenProperties DEF ReadLine, TypeOK, Tasks
<1>3. phase = "adding" /\ phase' = "adding" /\ log' = << >> /\ log = << >>
  BY DEF add, Lengths
<1>4. CountsDown(task_list', n + 1)
  <2>1. CountsDown(task_list, n)
    BY <1>2, <1>3 DEF CountsDown, Lengths, ListOrder, TypeOK
  <2>2. task_list' = insert(task_list, n + 1)
    BY <1>1 DEF ReadLine
  <2> HIDE DEF n
  <2>3. CountsDown(insert(task_list, n + 1), n + 1)
    BY <1>2, <2>1, InsertCountsDown
  <2> QED
    BY <2>2, <2>3
<1>5. /\ Len(task_list') = n + 1
      /\ \A i \in 1 .. n + 1 : task_list'[i] = (n + 1) - i + 1
  BY <1>4 DEF CountsDown
<1>6. NamesDiffer'
  BY <1>1, <1>2 DEF NamesDiffer, ReadLine
<1>7. ListOrder'
  BY <1>2, <1>3, <1>4, <1>5 DEF ListOrder
<1>8. NoneIsLost'
  <2>1. ASSUME NEW t \in Tasks' PROVE \E i \in 1 .. n + 1 : task_list'[i] = t
    <3>1. (n + 2) - t \in 1 .. n + 1
      BY <1>2
    <3>2. task_list'[(n + 2) - t] = t
      BY <1>2, <1>5, <3>1
    <3> QED
      BY <3>1, <3>2
  <2> QED
    BY <1>5, <2>1 DEF NoneIsLost
<1>9. ServesInOrder'
  BY <1>3 DEF ServesInOrder
<1> QED
  BY <1>6, <1>7, <1>8, <1>9, AddTypes

LEMMA StartOrder ==
  ASSUME OInv, Start
  PROVE  OInv'
<1> USE DEF OInv, TInv
<1>1. /\ UNCHANGED <<file, policy, temp, log>> /\ phase = "adding" /\ phase' = "scheduling"
      /\ log = << >> /\ temp = 1
      /\ Len(task_list) = Len(file) /\ Len(file) \in Nat
  BY LenProperties DEF Start, Lengths, TypeOK
<1>2. NamesDiffer'
  BY <1>1 DEF NamesDiffer, Tasks
<1>3. ServesInOrder'
  BY <1>1 DEF ServesInOrder
<1>4. CASE StartFcfs
  <2>1. /\ Len(task_list') = Len(file)
        /\ \A i \in 1 .. Len(file) : task_list'[i] = task_list[Len(file) - i + 1]
    BY <1>1, <1>4, ReverseIs DEF StartFcfs, TypeOK
  <2>2. ASSUME NEW i \in 1 .. Len(file) PROVE task_list'[i] = i
    <3>1. Len(file) - i + 1 \in 1 .. Len(file)
      BY <1>1
    <3> QED
      BY <1>1, <2>1, <3>1 DEF ListOrder
  <2>3. ListOrder'
    BY <1>1, <1>4, <2>1, <2>2 DEF ListOrder, StartFcfs
  <2>4. NoneIsLost'
    BY <1>1, <1>4 DEF NoneIsLost, StartFcfs
  <2> QED
    BY <1>2, <1>3, <2>3, <2>4, StartTypes
<1>5. CASE StartCounting
  <2>1. ListOrder'
    BY <1>1, <1>5 DEF ListOrder, StartCounting
  <2>2. NoneIsLost'
    BY <1>1, <1>5 DEF NoneIsLost, StartCounting, Tasks
  <2> QED
    BY <1>2, <1>3, <2>1, <2>2, StartTypes
<1> QED
  BY <1>4, <1>5 DEF Start

(* The "Running task" line of a round is the last of the log.              *)
LEMMA RunTaskLogs ==
  ASSUME TypeOK, NEW t, RunTask(t), t \in Tasks
  PROVE  /\ Len(log) \in Nat
         /\ Len(log') = Len(log) + 1
         /\ log'[Len(log) + 1].task = t
         /\ \A i \in 1 .. Len(log) : log'[i] = log[i]
         /\ Last(log') = log'[Len(log) + 1]
         /\ log' # log
         /\ DOMAIN log = 1 .. Len(log) /\ DOMAIN log' = 1 .. Len(log) + 1
<1> DEFINE R == [task : Tasks, slice : Bursts]
           entry == [task |-> t, slice |-> file[t].burst]
<1>1. entry \in R
  <2>1. file[t] \in Lines
    BY ElementOfSeq, LenProperties DEF TypeOK, Tasks
  <2> QED
    BY <2>1 DEF Lines
<1>2. log \in Seq(R) /\ log' = Append(log, entry)
  BY DEF TypeOK, RunTask
<1>3. entry.task = t
  OBVIOUS
<1> HIDE DEF entry, R
<1>4. /\ Len(log) \in Nat /\ Len(log') = Len(log) + 1
      /\ log'[Len(log) + 1] = entry
      /\ \A i \in 1 .. Len(log) : log'[i] = log[i]
      /\ log' \in Seq(R)
  BY <1>1, <1>2, AppendProperties, LenProperties
<1>5. Last(log') = log'[Len(log) + 1]
  BY <1>4 DEF Last
<1>6. DOMAIN log = 1 .. Len(log) /\ DOMAIN log' = 1 .. Len(log) + 1
  BY <1>2, <1>4, LenProperties
<1>7. log' # log
  BY <1>4
<1> QED
  BY <1>3, <1>4, <1>5, <1>6, <1>7

(* A run keeps the order if its task goes before all that has not run.     *)
LEMMA ServesNext ==
  ASSUME TypeOK, ServesInOrder, NEW t, t \in Tasks, RunTask(t),
         \A u \in Tasks : (\A j \in 1 .. Len(log) : log[j].task # u) /\ u # t => Before(t, u)
  PROVE  ServesInOrder'
<1>1. /\ Len(log) \in Nat /\ Len(log') = Len(log) + 1
      /\ log'[Len(log) + 1].task = t
      /\ \A i \in 1 .. Len(log) : log'[i] = log[i]
      /\ DOMAIN log = 1 .. Len(log) /\ DOMAIN log' = 1 .. Len(log) + 1
  BY RunTaskLogs
<1>2. file' = file /\ policy' = policy /\ Tasks' = Tasks
  BY DEF RunTask, Tasks
<1>3. ASSUME NEW x, NEW u PROVE Before(x, u)' <=> Before(x, u)
  BY <1>2 DEF Before, Better
<1>4. SUFFICES ASSUME NEW i \in 1 .. Len(log) + 1, NEW u \in Tasks,
                      \A j \in 1 .. i : log'[j].task # u
               PROVE  Before(log'[i].task, u)
  BY <1>1, <1>2 DEF ServesInOrder, Before, Better
<1>5. CASE i \in 1 .. Len(log)
  <2>1. \A j \in 1 .. i : j \in 1 .. Len(log)
    BY <1>1, <1>5
  <2>2. \A j \in 1 .. i : log[j].task # u
    BY <1>1, <1>4, <2>1
  <2> QED
    BY <1>1, <1>5, <2>2 DEF ServesInOrder
<1>6. CASE i = Len(log) + 1
  <2>1. u # t
    BY <1>1, <1>4, <1>6
  <2>2. \A j \in 1 .. Len(log) : log[j].task # u
    BY <1>1, <1>4, <1>6
  <2> QED
    BY <1>1, <1>6, <2>1, <2>2
<1> QED
  BY <1>1, <1>5, <1>6

LEMMA FcfsOrder ==
  ASSUME OInv, FcfsRuns
  PROVE  OInv'
<1> USE DEF OInv, TInv, FcfsRuns
<1> DEFINE t == task_list[temp]
<1>1. temp \in 1 .. Len(file) /\ Len(file) \in Nat /\ Tasks = 1 .. Len(file)
  BY LenProperties DEF TypeOK, Lengths, Tasks
<1>2. t = temp /\ t \in Tasks /\ RunTask(t)
  BY <1>1 DEF ListOrder, Lengths
<1> HIDE DEF t
<1>3. /\ Len(log) \in Nat /\ Len(log') = Len(log) + 1
      /\ log'[Len(log) + 1].task = t
      /\ \A i \in 1 .. Len(log) : log'[i] = log[i]
  BY <1>2, RunTaskLogs
<1>4. UNCHANGED <<file, task_list, policy, phase>> /\ temp' = temp + 1
  BY <1>2 DEF RunTask
<1>5. ListOrder'
  BY <1>1, <1>2, <1>3, <1>4 DEF ListOrder
<1>6. NamesDiffer' /\ NoneIsLost'
  BY <1>4 DEF NamesDiffer, NoneIsLost, Tasks
<1>7. ServesInOrder'
  <2>1. ASSUME NEW u \in Tasks, \A j \in 1 .. Len(log) : log[j].task # u, u # t
        PROVE  Before(t, u)
    <3>1. Len(log) = temp - 1 /\ \A i \in 1 .. Len(log) : log[i].task = i
      BY DEF ListOrder
    <3>2. u \notin 1 .. temp - 1
      BY <2>1, <3>1
    <3>3. t < u
      BY <1>1, <1>2, <2>1, <3>2
    <3> QED
      BY <3>3 DEF Before
  <2> QED
    BY <1>2, <2>1, ServesNext
<1> QED
  BY <1>5, <1>6, <1>7, FcfsTypes

(* With different names delete() takes out the very node that was found.   *)
LEMMA PickedTakesOut ==
  ASSUME OInv, policy # "fcfs", task_list # << >>
  PROVE  \E p \in 1 .. Len(task_list) :
           /\ pickNextTask = task_list[p] /\ task_list[p] \in Tasks
           /\ \A j \in 1 .. Len(task_list) : ~ Better(task_list[j], task_list[p])
           /\ \A j \in 1 .. p - 1 : Better(task_list[p], task_list[j])
           /\ delete(task_list, pickNextTask, file) = RemoveAt(task_list, p)
<1> USE DEF OInv, TInv
<1> DEFINE n == Len(task_list)
<1>1. n \in Nat /\ DOMAIN task_list = 1 .. n /\ \A i \in 1 .. n : task_list[i] \in Tasks
  BY LenProperties, ElementOfSeq DEF TypeOK
<1>2. PICK i \in 1 .. n :
        /\ pickNextTask = task_list[i]
        /\ \A j \in 1 .. n : ~ Better(task_list[j], task_list[i])
        /\ \A j \in 1 .. i - 1 : Better(task_list[i], task_list[j])
  BY <1>1, PickIs
<1>3. PICK p \in 1 .. n :
        /\ file[task_list[p]].name = file[pickNextTask].name
        /\ delete(task_list, pickNextTask, file) = RemoveAt(task_list, p)
  BY PickedIs
<1>4. task_list[p] = task_list[i]
  BY <1>1, <1>2, <1>3 DEF NamesDiffer
<1>5. p = i
  <2>1. \A t \in Tasks : t \in Int
    BY LenProperties DEF TypeOK, Tasks
  <2>2. \A j, k \in 1 .. n : j < k => task_list[k] < task_list[j]
    BY DEF ListOrder
  <2>3. ~ (p < i) /\ ~ (i < p)
    BY <1>1, <1>4, <2>1, <2>2
  <2> QED
    BY <1>1, <2>3
<1> QED
  BY <1>1, <1>2, <1>3, <1>5

LEMMA PickedOrder ==
  ASSUME OInv, PickedRuns
  PROVE  OInv'
<1> USE DEF OInv, TInv, PickedRuns
<1> DEFINE n == Len(task_list)
           t == pickNextTask
<1>1. PICK p \in 1 .. n :
        /\ t = task_list[p] /\ task_list[p] \in Tasks
        /\ \A j \in 1 .. n : ~ Better(task_list[j], task_list[p])
        /\ \A j \in 1 .. p - 1 : Better(task_list[p], task_list[j])
        /\ task_list' = RemoveAt(task_list, p)
  BY PickedTakesOut
<1>2. RunTask(t) /\ t \in Tasks
  BY <1>1
<1> HIDE DEF t
<1>3. /\ Len(log) \in Nat /\ Len(log') = Len(log) + 1
      /\ log'[Len(log) + 1].task = t
      /\ \A i \in 1 .. Len(log) : log'[i] = log[i]
  BY <1>2, RunTaskLogs
<1>4. UNCHANGED <<file, policy, phase>> /\ Tasks' = Tasks
  BY <1>2 DEF RunTask, Tasks
<1>5. /\ n \in Nat /\ Len(task_list') = n - 1
      /\ \A i \in 1 .. n - 1 :
           task_list'[i] = IF i < p THEN task_list[i] ELSE task_list[i + 1]
      /\ \A i \in 1 .. n : task_list[i] \in Tasks
  BY <1>1, RemoveAtIs, LenProperties, ElementOfSeq DEF TypeOK
<1>6. /\ \A i \in 1 .. n : task_list[i] \in Int
      /\ \A i, j \in 1 .. n : i < j => task_list[j] < task_list[i]
  BY <1>5, LenProperties DEF TypeOK, Tasks, ListOrder
<1>7. ListOrder'
  <2>1. ASSUME NEW i \in 1 .. n - 1, NEW j \in 1 .. n - 1, i < j
        PROVE  task_list'[j] < task_list'[i]
    <3> DEFINE a == IF i < p THEN i ELSE i + 1
               b == IF j < p THEN j ELSE j + 1
    <3>1. a \in 1 .. n /\ b \in 1 .. n /\ a < b
      BY <1>5, <2>1
    <3>2. task_list'[i] = task_list[a] /\ task_list'[j] = task_list[b]
      BY <1>5
    <3> QED
      BY <1>6, <3>1, <3>2
  <2> QED
    BY <1>4, <1>5, <2>1 DEF ListOrder
<1>8. NoneIsLost'
  <2>1. SUFFICES ASSUME NEW u \in Tasks
                 PROVE  \/ \E i \in 1 .. n - 1 : task_list'[i] = u
                        \/ \E i \in 1 .. Len(log) + 1 : log'[i].task = u
    BY <1>3, <1>4, <1>5 DEF NoneIsLost
  <2>2. CASE \E i \in 1 .. Len(log) : log[i].task = u
    BY <1>3, <2>2
  <2>3. CASE u = t
    BY <1>3, <2>3
  <2>4. ASSUME NEW i \in 1 .. n, task_list[i] = u, u # t
        PROVE  \E j \in 1 .. n - 1 : task_list'[j] = u
    <3>1. CASE i < p
      BY <1>5, <2>4, <3>1
    <3>2. CASE p < i
      <4>1. i - 1 \in 1 .. n - 1 /\ ~ (i - 1 < p) /\ (i - 1) + 1 = i
        BY <1>5, <3>2
      <4>2. task_list'[i - 1] = task_list[i]
        BY <1>5, <4>1
      <4> QED
        BY <2>4, <4>1, <4>2
    <3> QED
      BY <1>1, <1>5, <2>4, <3>1, <3>2
  <2> QED
    BY <2>2, <2>3, <2>4 DEF NoneIsLost
<1>9. ServesInOrder'
  <2>1. ASSUME NEW u \in Tasks, \A j \in 1 .. Len(log) : log[j].task # u, u # t
        PROVE  Before(t, u)
    <3>1. PICK i \in 1 .. n : task_list[i] = u
      BY <2>1 DEF NoneIsLost
    <3>2. ~ Better(u, t)
      BY <1>1, <3>1
    <3>3. CASE i < p
      <4>1. Better(t, u)
        BY <1>1, <1>5, <3>1, <3>3
      <4> QED
        BY <4>1 DEF Before
    <3>4. CASE p < i
      <4>1. u < t
        BY <1>1, <1>6, <3>1, <3>4
      <4>2. t \in Int /\ u \in Int
        BY <1>1, <1>6, <3>1
      <4> QED
        BY <3>2, <4>1, <4>2 DEF Before
    <3> QED
      BY <1>1, <1>5, <2>1, <3>1, <3>3, <3>4
  <2> QED
    BY <1>2, <2>1, ServesNext
<1>10. NamesDiffer'
  BY <1>4 DEF NamesDiffer
<1> QED
  BY <1>7, <1>8, <1>9, <1>10, PickedTypes

LEMMA ReportOrder ==
  ASSUME OInv, Report
  PROVE  OInv'
<1>1. NamesDiffer' /\ ListOrder' /\ NoneIsLost'
  BY DEF OInv, NamesDiffer, ListOrder, NoneIsLost, Report, Tasks
<1>2. ServesInOrder'
  BY DEF OInv, ServesInOrder, Before, Better, Report, Tasks
<1> QED
  BY <1>1, <1>2, ReportTypes DEF OInv

LEMMA NextOrder == DistinctNames /\ OInv /\ [Next]_vars => OInv'
<1> SUFFICES ASSUME DistinctNames, OInv, [Next]_vars PROVE OInv'
  OBVIOUS
<1>1. CASE UNCHANGED vars
  <2>1. NamesDiffer' /\ ListOrder' /\ NoneIsLost'
    BY <1>1 DEF OInv, NamesDiffer, ListOrder, NoneIsLost, vars, Tasks
  <2>2. ServesInOrder'
    BY <1>1 DEF OInv, ServesInOrder, Before, Better, vars, Tasks
  <2> QED
    BY <2>1, <2>2, NextTypes DEF OInv
<1>2. CASE Terminated
  BY <1>1, <1>2 DEF Terminated
<1> QED
  BY <1>1, <1>2, AddOrder, StartOrder, FcfsOrder, PickedOrder, ReportOrder DEF Next

(* Each program serves in the order of its policy whatever the file: fcfs  *)
(* by lines, the others the best of what is left, the last line first.     *)
THEOREM ServiceInOrder == DistinctNames => (Spec => []ServesInOrder)
<1> SUFFICES ASSUME DistinctNames PROVE Spec => []ServesInOrder
  OBVIOUS
<1>1. OInv /\ [Next]_vars => OInv'
  BY NextOrder
<1>2. OInv => ServesInOrder
  BY DEF OInv
<1> QED
  BY InitOrder, <1>1, <1>2, PTL DEF Spec

(* And delete() takes out the task that ran and nothing else: what its     *)
(* comment says is true of a file whose names differ.                      *)
THEOREM DeleteIsExact == DistinctNames => (Spec => DeletesTheSelected)
<1> SUFFICES ASSUME DistinctNames PROVE Spec => DeletesTheSelected
  OBVIOUS
<1> DEFINE Exact == policy # "fcfs" /\ log' # log =>
                      ToSet(task_list') = ToSet(task_list) \ {Last(log').task}
<1>1. OInv /\ [Next]_vars => OInv'
  BY NextOrder
<1>2. ASSUME OInv, [Next]_vars PROVE [Exact]_vars
  <2>1. CASE PickedRuns
    <3> DEFINE n == Len(task_list)
               t == pickNextTask
    <3>1. PICK p \in 1 .. n : t = task_list[p] /\ t \in Tasks
                              /\ task_list' = RemoveAt(task_list, p)
      BY <1>2, <2>1, PickedTakesOut DEF PickedRuns
    <3>2. RunTask(t)
      BY <2>1 DEF PickedRuns
    <3> HIDE DEF t
    <3>3. Last(log').task = t
      BY <1>2, <3>1, <3>2, RunTaskLogs DEF OInv, TInv
    <3>4. /\ n \in Nat /\ Len(task_list') = n - 1
          /\ DOMAIN task_list = 1 .. n /\ DOMAIN task_list' = 1 .. n - 1
          /\ \A i \in 1 .. n - 1 :
               task_list'[i] = IF i < p THEN task_list[i] ELSE task_list[i + 1]
          /\ \A i \in 1 .. n : task_list[i] \in Tasks
      <4>1. task_list \in Seq(Tasks)
        BY <1>2 DEF OInv, TInv, TypeOK
      <4>2. n \in Nat /\ DOMAIN task_list = 1 .. n /\ \A i \in 1 .. n : task_list[i] \in Tasks
        BY <4>1, LenProperties, ElementOfSeq
      <4>3. /\ task_list' \in Seq(Tasks) /\ Len(task_list') = n - 1
            /\ \A i \in 1 .. n - 1 :
                 task_list'[i] = IF i < p THEN task_list[i] ELSE task_list[i + 1]
        BY <3>1, <4>1, RemoveAtIs
      <4> QED
        BY <4>2, <4>3, LenProperties
    <3>5. \A i \in 1 .. n : i # p => task_list[i] # t
      <4>1. \A i \in 1 .. n : task_list[i] \in Int
        BY <1>2, <3>4, LenProperties DEF OInv, TInv, TypeOK, Tasks
      <4>2. \A i, j \in 1 .. n : i < j => task_list[j] < task_list[i]
        BY <1>2, <2>1 DEF OInv, ListOrder, PickedRuns
      <4> QED
        BY <3>1, <3>4, <4>1, <4>2
    <3>6. ASSUME NEW i \in 1 .. n, i # p
          PROVE  \E j \in 1 .. n - 1 : task_list'[j] = task_list[i]
      <4>1. CASE i < p
        BY <3>4, <3>6, <4>1
      <4>2. CASE p < i
        <5>1. i - 1 \in 1 .. n - 1 /\ ~ (i - 1 < p) /\ (i - 1) + 1 = i
          BY <3>4, <4>2
        <5> QED
          BY <3>4, <5>1
      <4> QED
        BY <3>1, <3>4, <3>6, <4>1, <4>2
    <3>7. ASSUME NEW j \in 1 .. n - 1
          PROVE  \E i \in 1 .. n : i # p /\ task_list'[j] = task_list[i]
      <4> DEFINE i == IF j < p THEN j ELSE j + 1
      <4>1. i \in 1 .. n /\ i # p /\ task_list'[j] = task_list[i]
        BY <3>1, <3>4
      <4> QED
        BY <4>1
    <3>8. ToSet(task_list') = ToSet(task_list) \ {t}
      <4>1. ToSet(task_list) = {task_list[i] : i \in 1 .. n}
        BY <3>4 DEF ToSet
      <4>2. ToSet(task_list') = {task_list'[j] : j \in 1 .. n - 1}
        BY <3>4 DEF ToSet
      <4>3. ASSUME NEW u \in ToSet(task_list') PROVE u \in ToSet(task_list) \ {t}
        BY <3>5, <3>7, <4>1, <4>2
      <4>4. ASSUME NEW u \in ToSet(task_list) \ {t} PROVE u \in ToSet(task_list')
        BY <3>1, <3>6, <4>1, <4>2
      <4> QED
        BY <4>3, <4>4
    <3> QED
      BY <3>3, <3>8
  <2>2. CASE FcfsRuns
    BY <2>2 DEF FcfsRuns
  <2>3. CASE add \/ Start \/ Report \/ Terminated \/ UNCHANGED vars
    BY <2>3 DEF add, Start, Report, Terminated, vars
  <2> QED
    BY <1>2, <2>1, <2>2, <2>3 DEF Next
<1>3. OInv /\ [Next]_vars => [Exact]_vars
  BY <1>2
<1> QED
  BY InitOrder, <1>1, <1>3, PTL DEF Spec, DeletesTheSelected

----------------------------------------------------------------------------
(* The sums and the timeline, when the file gives every task its own name  *)

RanTasks == {t \in Tasks : Ran(log, t)}

(* The list, or for fcfs its part from temp on, are the tasks to come.     *)
RunsOnce ==
  /\ policy # "fcfs" => \A i \in 1 .. Len(task_list) : ~ Ran(log, task_list[i])
  /\ policy # "fcfs" /\ phase # "adding" => task_count = Len(file)
  /\ phase = "reported" =>
       IF policy = "fcfs" THEN temp = Len(file) + 1 ELSE task_list = << >>

(* At any time the sums are those of the tasks that have run.              *)
SumsAreOfTimeline ==
  /\ current_time = Now(log)
  /\ total_response_time = TotalResponse(Len(file), log)
  /\ total_wait_time = total_response_time
  /\ total_turnaround_time = TotalTurnaround(Len(file), log, RanTasks)
  /\ \A t \in RanTasks : Turnaround(log, t) = Response(log, t) + file[t].burst

SInv ==
  /\ OInv
  /\ RunsOnce
  /\ SumsAreOfTimeline

LEMMA LogIsTimeline ==
  ASSUME TypeOK
  PROVE  /\ log \in Logs(Tasks)
         /\ Tasks = 1 .. Len(file) /\ Len(file) \in Nat
         /\ \A t \in Tasks : file[t].burst \in Nat /\ file[t].burst \in Bursts
<1>1. Tasks = 1 .. Len(file) /\ Len(file) \in Nat
  BY LenProperties DEF TypeOK, Tasks
<1>2. ASSUME NEW t \in Tasks PROVE file[t].burst \in Nat /\ file[t].burst \in Bursts
  <2>1. file[t] \in Lines
    BY <1>1, ElementOfSeq DEF TypeOK
  <2> QED
    BY <2>1 DEF Lines
<1>3. log \in Logs(Tasks)
  <2>1. [task : Tasks, slice : Bursts] \subseteq [task : Tasks, slice : Nat]
    OBVIOUS
  <2> QED
    BY <2>1, SeqMonotonic DEF TypeOK, Logs
<1> QED
  BY <1>1, <1>2, <1>3

(* As long as nothing has run the sums are 0, whatever the file.           *)
LEMMA NothingRan ==
  ASSUME log = << >>, file \in Seq(Lines)
  PROVE  /\ RanTasks = {} /\ Now(log) = 0
         /\ TotalResponse(Len(file), log) = 0
         /\ TotalTurnaround(Len(file), log, RanTasks) = 0
         /\ \A t : ~ Ran(log, t)
<1>1. RanTasks = {} /\ Now(log) = 0 /\ \A t : ~ Ran(log, t)
  BY EmptyTimeline DEF RanTasks
<1>2. Len(file) \in Nat
  BY LenProperties
<1> QED
  BY <1>1, <1>2, TotalsOfNothing

LEMMA InitSums == Init => SInv
<1> SUFFICES ASSUME Init PROVE SInv
  OBVIOUS
<1>1. log = << >> /\ file \in Seq(Lines) /\ Len(task_list) = 0
  BY EmptySeq DEF Init
<1>2. SumsAreOfTimeline
  BY <1>1, NothingRan DEF Init, SumsAreOfTimeline
<1>3. RunsOnce
  BY <1>1 DEF Init, RunsOnce
<1> QED
  BY <1>2, <1>3, InitOrder DEF SInv

LEMMA AddSums ==
  ASSUME SInv, DistinctNames, add
  PROVE  SInv'
<1>1. OInv /\ OInv'
  BY AddOrder DEF SInv
<1>2. /\ log = << >> /\ log' = << >> /\ phase' = "adding"
      /\ file \in Seq(Lines) /\ file' \in Seq(Lines)
      /\ UNCHANGED totals
  BY <1>1 DEF add, OInv, TInv, Lengths, TypeOK
<1>3. /\ RanTasks = {} /\ Now(log) = 0
      /\ TotalResponse(Len(file), log) = 0
      /\ TotalTurnaround(Len(file), log, RanTasks) = 0
  BY <1>2, NothingRan
<1>4. /\ RanTasks' = {} /\ Now(log') = 0
      /\ TotalResponse(Len(file'), log') = 0
      /\ TotalTurnaround(Len(file'), log', RanTasks') = 0
  <2>1. RanTasks' = {} /\ Now(log') = 0
    BY <1>2, EmptyTimeline DEF RanTasks
  <2>2. Len(file') \in Nat
    BY <1>2, LenProperties
  <2> QED
    BY <1>2, <2>1, <2>2, TotalsOfNothing
<1>5. SumsAreOfTimeline'
  BY <1>2, <1>3, <1>4 DEF SInv, SumsAreOfTimeline, totals
<1>6. RunsOnce'
  BY <1>2, EmptyTimeline DEF RunsOnce
<1> QED
  BY <1>1, <1>5, <1>6 DEF SInv

LEMMA StartSums ==
  ASSUME SInv, Start
  PROVE  SInv'
<1>1. OInv /\ OInv'
  BY StartOrder DEF SInv
<1>2. /\ log = << >> /\ UNCHANGED <<file, policy, log, totals>>
      /\ phase' = "scheduling" /\ Len(task_list) = Len(file)
  BY <1>1 DEF Start, OInv, TInv, Lengths
<1>3. SumsAreOfTimeline'
  BY <1>2 DEF SInv, SumsAreOfTimeline, RanTasks, Tasks, totals
<1>4. RunsOnce'
  BY <1>2, EmptyTimeline DEF RunsOnce, Start, StartCounting, StartFcfs
<1> QED
  BY <1>1, <1>3, <1>4 DEF SInv

(* One round, for a task that has not run.                                 *)
LEMMA RunTaskSums ==
  ASSUME SInv, NEW t \in Tasks, ~ Ran(log, t), RunTask(t)
  PROVE  /\ SumsAreOfTimeline'
         /\ \A u : Ran(log', u) <=> (Ran(log, u) \/ u = t)
<1> DEFINE n == Len(file)
           x == file[t].burst
<1>1. /\ log \in Logs(Tasks) /\ Tasks = 1 .. n /\ n \in Nat /\ x \in Nat
  BY LogIsTimeline DEF SInv, OInv, TInv
<1>2. /\ log' = Append(log, [task |-> t, slice |-> x])
      /\ file' = file /\ Tasks' = Tasks
      /\ total_response_time' = total_response_time + current_time
      /\ total_wait_time' = total_wait_time + current_time
      /\ current_time' = current_time + x
      /\ total_turnaround_time' = total_turnaround_time + current_time'
  BY DEF RunTask, Tasks
<1>3. /\ current_time = Now(log)
      /\ total_response_time = TotalResponse(n, log)
      /\ total_wait_time = total_response_time
      /\ total_turnaround_time = TotalTurnaround(n, log, RanTasks)
      /\ \A u \in RanTasks : Turnaround(log, u) = Response(log, u) + file[u].burst
  BY DEF SInv, SumsAreOfTimeline
<1> HIDE DEF n, x
<1>4. log' \in Logs(Tasks) /\ OneMore(log, t, x, log')
  BY <1>1, <1>2, TimelineGrows
<1>5. /\ \A u : Ran(log', u) <=> (Ran(log, u) \/ u = t)
      /\ Now(log') = Now(log) + x
      /\ \A u : Ran(log, u) => Response(log', u) = Response(log, u)
      /\ Response(log', t) = Now(log)
      /\ \A u : Ran(log, u) /\ u # t => Turnaround(log', u) = Turnaround(log, u)
      /\ Turnaround(log', t) = Now(log')
  BY <1>4 DEF OneMore
<1>6. RanTasks' = RanTasks \cup {t} /\ t \notin RanTasks
  BY <1>2, <1>5 DEF RanTasks
<1>7. TotalResponse(n, log') = TotalResponse(n, log) + Now(log)
  BY <1>1, <1>4, TotalResponseGrows
<1>8. TotalTurnaround(n, log', RanTasks \cup {t}) =
        TotalTurnaround(n, log, RanTasks) + Now(log')
  <2>1. \A u \in RanTasks : Ran(log, u)
    BY DEF RanTasks
  <2> QED
    BY <1>1, <1>4, <1>6, <2>1, TotalTurnaroundGrows
<1>9. ASSUME NEW u \in RanTasks'
      PROVE  Turnaround(log', u) = Response(log', u) + file[u].burst
  <2>1. CASE u = t
    BY <1>5, <2>1 DEF x
  <2>2. CASE u # t
    BY <1>3, <1>5, <1>6, <2>2 DEF RanTasks
  <2> QED
    BY <2>1, <2>2
<1>10. n' = n
  BY <1>2 DEF n
<1>11. /\ current_time' = Now(log')
       /\ total_response_time' = TotalResponse(n, log')
       /\ total_wait_time' = total_response_time'
       /\ total_turnaround_time' = TotalTurnaround(n, log', RanTasks')
  BY <1>2, <1>3, <1>5, <1>6, <1>7, <1>8
<1> QED
  BY <1>2, <1>5, <1>9, <1>11 DEF SumsAreOfTimeline, n

(* fcfs: the task at temp has not run. *)
LEMMA FcfsRunsNew ==
  ASSUME SInv, FcfsRuns
  PROVE  task_list[temp] = temp /\ temp \in Tasks /\ ~ Ran(log, temp)
<1> USE DEF SInv, OInv, TInv, FcfsRuns
<1>1. temp \in 1 .. Len(file) /\ Len(file) \in Nat /\ Tasks = 1 .. Len(file)
  BY LenProperties DEF TypeOK, Lengths, Tasks
<1>2. task_list[temp] = temp /\ Len(log) = temp - 1 /\ \A i \in 1 .. Len(log) : log[i].task = i
  BY <1>1 DEF ListOrder, Lengths
<1>3. DOMAIN log = 1 .. Len(log)
  BY LenProperties DEF TypeOK
<1> QED
  BY <1>1, <1>2, <1>3 DEF Ran, SlicesOf

LEMMA FcfsSums ==
  ASSUME SInv, FcfsRuns
  PROVE  SInv'
<1>1. task_list[temp] = temp /\ temp \in Tasks /\ ~ Ran(log, temp)
  BY FcfsRunsNew
<1>2. RunTask(temp) /\ policy' = "fcfs" /\ phase' = "scheduling"
  BY <1>1 DEF FcfsRuns, RunTask
<1>3. SumsAreOfTimeline'
  BY <1>1, <1>2, RunTaskSums
<1>4. RunsOnce'
  BY <1>2 DEF RunsOnce
<1> QED
  BY <1>3, <1>4, FcfsOrder DEF SInv

LEMMA PickedSums ==
  ASSUME SInv, PickedRuns
  PROVE  SInv'
<1> DEFINE n == Len(task_list)
           t == pickNextTask
<1>1. PICK p \in 1 .. n : t = task_list[p] /\ t \in Tasks
                          /\ task_list' = RemoveAt(task_list, p)
  BY PickedTakesOut DEF PickedRuns, SInv
<1>2. RunTask(t) /\ ~ Ran(log, t)
  BY <1>1 DEF PickedRuns, SInv, RunsOnce
<1> HIDE DEF t
<1>3. SumsAreOfTimeline' /\ \A u : Ran(log', u) <=> (Ran(log, u) \/ u = t)
  BY <1>1, <1>2, RunTaskSums
<1>4. /\ n \in Nat /\ Len(task_list') = n - 1
      /\ \A i \in 1 .. n - 1 :
           task_list'[i] = IF i < p THEN task_list[i] ELSE task_list[i + 1]
      /\ \A i \in 1 .. n : task_list[i] \in Int
      /\ \A i, j \in 1 .. n : i < j => task_list[j] < task_list[i]
  <2>1. \A i \in 1 .. n : task_list[i] \in Tasks
    BY ElementOfSeq DEF SInv, OInv, TInv, TypeOK
  <2>2. /\ n \in Nat /\ Len(task_list') = n - 1
        /\ \A i \in 1 .. n - 1 :
             task_list'[i] = IF i < p THEN task_list[i] ELSE task_list[i + 1]
    BY <1>1, RemoveAtIs, LenProperties DEF SInv, OInv, TInv, TypeOK
  <2>3. \A u \in Tasks : u \in Int
    BY LenProperties DEF SInv, OInv, TInv, TypeOK, Tasks
  <2>4. \A i, j \in 1 .. n : i < j => task_list[j] < task_list[i]
    BY DEF PickedRuns, SInv, OInv, ListOrder
  <2> QED
    BY <2>1, <2>2, <2>3, <2>4
<1>5. ASSUME NEW i \in 1 .. n - 1 PROVE ~ Ran(log', task_list'[i])
  <2> DEFINE j == IF i < p THEN i ELSE i + 1
  <2>1. j \in 1 .. n /\ j # p /\ task_list'[i] = task_list[j]
    BY <1>1, <1>4
  <2>2. task_list[j] # task_list[p]
    <3>1. j < p \/ p < j
      BY <1>1, <2>1
    <3> HIDE DEF j
    <3> QED
      BY <1>1, <1>4, <2>1, <3>1
  <2>3. ~ Ran(log, task_list[j])
    BY <2>1 DEF SInv, RunsOnce, PickedRuns
  <2> QED
    BY <1>1, <1>3, <2>1, <2>2, <2>3
<1>6. RunsOnce'
  BY <1>2, <1>4, <1>5 DEF RunsOnce, SInv, PickedRuns, RunTask
<1> QED
  BY <1>3, <1>6, PickedOrder DEF SInv

LEMMA ReportSums ==
  ASSUME SInv, Report
  PROVE  SInv'
<1>1. OInv /\ OInv' /\ UNCHANGED <<file, task_list, policy, temp, totals, task_count, log>>
  BY ReportOrder DEF SInv, Report
<1>2. SumsAreOfTimeline'
  BY <1>1 DEF SInv, SumsAreOfTimeline, RanTasks, Tasks, totals
<1>3. RunsOnce'
  <2>1. policy = "fcfs" => temp = Len(file) + 1
    BY <1>1, LenProperties DEF Report, OInv, TInv, TypeOK, Lengths
  <2> QED
    BY <1>1, <2>1 DEF Report, SInv, RunsOnce
<1> QED
  BY <1>1, <1>2, <1>3 DEF SInv

LEMMA NextSums == DistinctNames /\ SInv /\ [Next]_vars => SInv'
<1> SUFFICES ASSUME DistinctNames, SInv, [Next]_vars PROVE SInv'
  OBVIOUS
<1>1. CASE UNCHANGED vars
  <2>1. RunsOnce' /\ SumsAreOfTimeline'
    BY <1>1 DEF SInv, RunsOnce, SumsAreOfTimeline, RanTasks, Tasks, vars, totals
  <2> QED
    BY <2>1, NextOrder DEF SInv
<1>2. CASE Terminated
  BY <1>1, <1>2 DEF Terminated
<1> QED
  BY <1>1, <1>2, AddSums, StartSums, FcfsSums, PickedSums, ReportSums DEF Next

(* When the averages are printed every task has run.                       *)
LEMMA AllRan ==
  ASSUME SInv, phase = "reported"
  PROVE  \A t \in Tasks : Ran(log, t)
<1> USE DEF SInv, OInv, TInv
<1>1. DOMAIN log = 1 .. Len(log) /\ Tasks = 1 .. Len(file) /\ Len(file) \in Nat
  BY LenProperties DEF TypeOK, Tasks
<1>2. CASE policy = "fcfs"
  <2>1. Len(log) = Len(file) /\ \A i \in 1 .. Len(log) : log[i].task = i
    BY <1>1, <1>2 DEF RunsOnce, ListOrder
  <2> QED
    BY <1>1, <2>1 DEF Ran, SlicesOf
<1>3. CASE policy # "fcfs"
  <2>1. Len(task_list) = 0
    BY <1>3 DEF RunsOnce
  <2> QED
    BY <1>1, <1>3, <2>1 DEF NoneIsLost, Ran, SlicesOf
<1> QED
  BY <1>2, <1>3

(* The averages that the programs print are those of their timelines, for  *)
(* any file whose names differ: the three sums are the response, waiting   *)
(* and turnaround times of all tasks, and the count is their number.       *)
THEOREM ReportIsCorrect == DistinctNames => (Spec => []ReportCorrect)
<1> SUFFICES ASSUME DistinctNames PROVE Spec => []ReportCorrect
  OBVIOUS
<1>1. SInv /\ [Next]_vars => SInv'
  BY NextSums
<1>2. ASSUME SInv PROVE ReportCorrect
  <2> SUFFICES ASSUME phase = "reported"
               PROVE  /\ task_count = Len(file)
                      /\ total_response_time = SumOf([t \in Tasks |-> Response(log, t)])
                      /\ total_turnaround_time = SumOf([t \in Tasks |-> Turnaround(log, t)])
                      /\ total_wait_time =
                           SumOf([t \in Tasks |-> Turnaround(log, t) - file[t].burst])
    BY DEF ReportCorrect
  <2> DEFINE n == Len(file)
             bursts == [t \in 1 .. n |-> file[t].burst]
  <2>1. /\ log \in Logs(Tasks) /\ Tasks = 1 .. n /\ n \in Nat
        /\ \A t \in Tasks : file[t].burst \in Nat
    BY <1>2, LogIsTimeline DEF SInv, OInv, TInv
  <2>2. \A t \in Tasks : Ran(log, t)
    BY <1>2, AllRan
  <2>3. RanTasks = 1 .. n
    BY <2>1, <2>2 DEF RanTasks
  <2>4. \A t \in 1 .. n : Turnaround(log, t) = Response(log, t) + file[t].burst
    BY <1>2, <2>3 DEF SInv, SumsAreOfTimeline
  <2>5. \A t \in 1 .. n : Response(log, t) \in Nat /\ Turnaround(log, t) \in Nat
    BY <2>1, <2>2, TimesOfTimeline
  <2>6. bursts \in [1 .. n -> Nat] /\ \A t \in 1 .. n : bursts[t] <= Turnaround(log, t)
    BY <2>1, <2>4, <2>5
  <2>7. task_count = n
    BY <1>2, <2>1 DEF SInv, OInv, TInv, RunsOnce, Lengths
  <2>8. [t \in Tasks |-> Turnaround(log, t) - file[t].burst] = [t \in 1 .. n |-> Response(log, t)]
    BY <2>1, <2>4, <2>5
  <2>9. /\ total_response_time = TotalResponse(n, log)
        /\ total_wait_time = total_response_time
        /\ total_turnaround_time = TotalTurnaround(n, log, 1 .. n)
    BY <1>2, <2>3 DEF SInv, SumsAreOfTimeline
  <2> HIDE DEF n, bursts
  <2>10. /\ TotalResponse(n, log) = SumOf([t \in 1 .. n |-> Response(log, t)])
         /\ TotalTurnaround(n, log, 1 .. n) = SumOf([t \in 1 .. n |-> Turnaround(log, t)])
    <3>1. AllTotals(n, log, bursts)
      BY <2>1, <2>2, <2>6, TotalsInTheEnd
    <3> QED
      BY <3>1 DEF AllTotals
  <2> QED
    BY <2>1, <2>7, <2>8, <2>9, <2>10 DEF n
<1>3. SInv => ReportCorrect
  BY <1>2
<1> QED
  BY InitSums, <1>1, <1>3, PTL DEF Spec

----------------------------------------------------------------------------
(* The programs as CPU timelines *)

LEMMA RunTaskIsRun ==
  ASSUME TypeOK, NEW t \in Tasks, ~ Ran(log, t), RunTask(t)
  PROVE  Timeline!Next
<1> DEFINE x == file[t].burst
           demand == [u \in Tasks |-> file[u].burst]
<1>1. log \in Logs(Tasks) /\ x \in Nat
  BY LogIsTimeline
<1>2. Received(log, t) = 0
  BY <1>1, TimesOfTimeline
<1>3. Timeline!Left(t) = x
  <2>1. Timeline!Left(t) = demand[t] - Received(log, t)
    BY DEF Timeline!Left, Timeline!Received, Timeline!SumOf, Timeline!PartialSums,
           Received, SumOf, PartialSums
  <2>2. demand[t] = x
    OBVIOUS
  <2> QED
    BY <1>1, <1>2, <2>1, <2>2
<1>4. ~ Timeline!Finished(t)
  BY DEF Timeline!Finished, Timeline!SlicesOf, Ran, SlicesOf
<1>5. UNCHANGED demand /\ log' = Append(log, [task |-> t, slice |-> x])
  BY DEF RunTask, Tasks
<1>6. x \in 0 .. Timeline!Left(t) /\ (x = 0 => Timeline!Left(t) = 0)
  BY <1>1, <1>3
<1>7. t \in DOMAIN demand
  OBVIOUS
<1> HIDE DEF x
<1>8. Timeline!Run(t)
  BY <1>4, <1>5, <1>6 DEF Timeline!Run
<1> QED
  BY <1>7, <1>8 DEF Timeline!Next, Timeline!RunSome, Timeline!Tasks

(* Whatever the policy each program gives the CPU to one task at a time,   *)
(* to each for its burst and to none twice: it never takes a step that the *)
(* abstract CPU does not take.                                             *)
THEOREM IsTimeline == DistinctNames => (Spec => Timeline!Spec)
<1> SUFFICES ASSUME DistinctNames PROVE Spec => Timeline!Spec
  OBVIOUS
<1>1. Init => Timeline!Init
  BY DEF Init, Timeline!Init, Tasks
<1>2. SInv /\ [Next]_vars => SInv'
  BY NextSums
<1>3. ASSUME SInv, [Next]_vars PROVE [Timeline!Next]_(Timeline!vars)
  <2>1. TypeOK
    BY <1>3 DEF SInv, OInv, TInv
  <2>2. CASE add
    <3>1. PICK line \in Lines : ReadLine(line)
      BY <2>2 DEF add
    <3>2. log = << >> /\ log' = log
      BY <1>3, <2>2 DEF SInv, OInv, TInv, Lengths, add
    <3>3. [t \in Tasks |-> file[t].burst]' = Append([t \in Tasks |-> file[t].burst], line.burst)
      BY <2>1, <3>1, DemandGrows DEF ReadLine, Tasks, TypeOK
    <3>4. line.burst \in Bursts
      BY DEF Lines
    <3> QED
      BY <3>2, <3>3, <3>4 DEF Timeline!Next, Timeline!Submit
  <2>3. CASE FcfsRuns
    <3>1. task_list[temp] = temp /\ temp \in Tasks /\ ~ Ran(log, temp)
      BY <1>3, <2>3, FcfsRunsNew
    <3>2. RunTask(temp)
      BY <2>3, <3>1 DEF FcfsRuns
    <3> QED
      BY <2>1, <3>1, <3>2, RunTaskIsRun
  <2>4. CASE PickedRuns
    <3>1. PICK p \in 1 .. Len(task_list) : pickNextTask = task_list[p] /\ pickNextTask \in Tasks
      BY <1>3, <2>4, PickedTakesOut DEF PickedRuns, SInv
    <3> DEFINE t == pickNextTask
    <3>2. t \in Tasks /\ RunTask(t) /\ ~ Ran(log, t)
      BY <1>3, <2>4, <3>1 DEF PickedRuns, SInv, RunsOnce
    <3> HIDE DEF t
    <3> QED
      BY <2>1, <3>2, RunTaskIsRun
  <2>5. CASE Start \/ Report \/ Terminated \/ UNCHANGED vars
    BY <2>5 DEF Start, Report, Terminated, vars, Timeline!vars, Tasks
  <2> QED
    BY <1>3, <2>2, <2>3, <2>4, <2>5 DEF Next
<1>4. SInv /\ [Next]_vars => [Timeline!Next]_(Timeline!vars)
  BY <1>3
<1> QED
  BY <1>1, InitSums, <1>2, <1>4, PTL DEF Spec, Timeline!Spec
----------------------------------------------------------------------------
(* Shortest job first: the order of the log against every other order      *)

(* Each task runs once and to its end, and waits for those before it.      *)
WholeRuns ==
  /\ \A i \in 1 .. Len(log) : log[i].slice = file[log[i].task].burst
  /\ \A i, j \in 1 .. Len(log) : i # j => log[i].task # log[j].task
  /\ policy # "fcfs" /\ phase # "adding" => Len(log) + Len(task_list) = Len(file)
  /\ total_wait_time = TotalBegins(log)

WInv == SInv /\ WholeRuns

LEMMA InitWhole == Init => WInv
<1> SUFFICES ASSUME Init PROVE WInv
  OBVIOUS
<1>1. log = << >> /\ Len(log) = 0 /\ TotalBegins(log) = 0
  BY EmptySeq, NothingBegins DEF Init
<1>2. WholeRuns
  BY <1>1 DEF Init, WholeRuns
<1> QED
  BY <1>2, InitSums DEF WInv

(* As long as nothing has run: add() and the start of schedule().          *)
LEMMA BeforeWhole ==
  ASSUME WInv, DistinctNames, add \/ Start
  PROVE  WInv'
<1>1. SInv' /\ OInv /\ OInv'
  BY AddSums, StartSums DEF WInv, SInv
<1>2. /\ log' = << >> /\ log = << >> /\ total_wait_time' = total_wait_time
      /\ total_wait_time = TotalBegins(log)
  BY <1>1 DEF add, Start, totals, OInv, TInv, Lengths, WInv, WholeRuns
<1>3. Len(log') = 0
  BY <1>2, EmptySeq
<1>4. policy' # "fcfs" /\ phase' # "adding" => Len(log') + Len(task_list') = Len(file')
  <2>1. CASE add
    BY <2>1 DEF add
  <2>2. CASE Start
    <3>1. Len(task_list) = Len(file) /\ Len(file) \in Nat
      BY <1>1, <2>2, LenProperties DEF Start, OInv, TInv, Lengths, TypeOK
    <3>2. /\ policy' = policy /\ file' = file
          /\ policy # "fcfs" => task_list' = task_list
      BY <2>2 DEF Start, StartFcfs, StartCounting
    <3>3. CASE policy # "fcfs"
      <4>1. Len(task_list') = Len(file) /\ Len(file') = Len(file)
        BY <3>1, <3>2, <3>3
      <4> QED
        BY <1>3, <3>1, <4>1
    <3> QED
      BY <3>2, <3>3
  <2> QED
    BY <2>1, <2>2
<1> QED
  BY <1>1, <1>2, <1>3, <1>4 DEF WInv, WholeRuns

(* One round, for a task that has not run.                                 *)
LEMMA RunTaskWhole ==
  ASSUME WInv, NEW t \in Tasks, ~ Ran(log, t), RunTask(t)
  PROVE  /\ \A i \in 1 .. Len(log') : log'[i].slice = file'[log'[i].task].burst
         /\ \A i, j \in 1 .. Len(log') : i # j => log'[i].task # log'[j].task
         /\ Len(log) \in Nat /\ Len(log') = Len(log) + 1
         /\ total_wait_time' = TotalBegins(log')
<1> DEFINE n == Len(log)
           x == file[t].burst
<1>1. log \in Logs(Tasks) /\ x \in Nat /\ DOMAIN log = 1 .. n
  BY LogIsTimeline, SlicesAreNumbers DEF WInv, SInv, OInv, TInv
<1>2. /\ log' = Append(log, [task |-> t, slice |-> x])
      /\ file' = file
      /\ total_wait_time' = total_wait_time + current_time
      /\ total_wait_time = TotalBegins(log) /\ current_time = Now(log)
      /\ x = file[t].burst
  BY DEF RunTask, WInv, WholeRuns, SInv, SumsAreOfTimeline
<1>3. /\ \A i \in 1 .. n : log[i].slice = file[log[i].task].burst
      /\ \A i, j \in 1 .. n : i # j => log[i].task # log[j].task
      /\ \A i \in 1 .. n : log[i].task # t
  BY <1>1 DEF WInv, WholeRuns, Ran, SlicesOf
<1>4. n \in Nat /\ OneMoreRun(log, t, x, log')
  <2> DEFINE before == log
             after == log'
  <2>1. before \in Logs(Tasks) /\ after = Append(before, [task |-> t, slice |-> x])
    BY <1>1, <1>2
  <2> HIDE DEF x, n, before, after
  <2>2. Len(before) \in Nat /\ OneMoreRun(before, t, x, after)
    BY <1>1, <2>1, TotalBeginsGrows
  <2> QED
    BY <2>2 DEF n, before, after
<1> HIDE DEF x, n
<1>5. /\ Len(log') = n + 1 /\ total_wait_time' = TotalBegins(log')
      /\ log'[n + 1].task = t /\ log'[n + 1].slice = x
      /\ \A i \in 1 .. n : log'[i] = log[i]
  BY <1>2, <1>4 DEF OneMoreRun, n
<1>6. \A i \in 1 .. n + 1 : i \in 1 .. n \/ i = n + 1
  BY <1>4
<1> DEFINE after == log'
<1>7. /\ \A i \in 1 .. n + 1 : after[i].slice = file[after[i].task].burst
      /\ \A i, j \in 1 .. n + 1 : i # j => after[i].task # after[j].task
  <2>1. /\ after[n + 1].task = t /\ after[n + 1].slice = x
        /\ \A i \in 1 .. n : after[i] = log[i]
    BY <1>5
  <2> HIDE DEF after
  <2> QED
    BY <1>2, <1>3, <1>6, <2>1
<1> QED
  BY <1>2, <1>4, <1>5, <1>7 DEF n

LEMMA RunsWhole ==
  ASSUME WInv, FcfsRuns \/ PickedRuns
  PROVE  WInv'
<1>1. CASE FcfsRuns
  <2>1. SInv'
    BY <1>1, FcfsSums DEF WInv
  <2>2. task_list[temp] = temp /\ temp \in Tasks /\ ~ Ran(log, temp)
    BY <1>1, FcfsRunsNew DEF WInv
  <2>3. RunTask(temp) /\ policy' = "fcfs"
    BY <1>1, <2>2 DEF FcfsRuns, RunTask
  <2> QED
    BY <2>1, <2>2, <2>3, RunTaskWhole DEF WInv, WholeRuns
<1>2. CASE PickedRuns
  <2> DEFINE n == Len(task_list)
             t == pickNextTask
  <2>1. SInv'
    BY <1>2, PickedSums DEF WInv
  <2>2. PICK p \in 1 .. n : t = task_list[p] /\ t \in Tasks
                            /\ task_list' = RemoveAt(task_list, p)
    BY <1>2, PickedTakesOut DEF PickedRuns, WInv, SInv
  <2>3. RunTask(t) /\ ~ Ran(log, t) /\ phase = "scheduling" /\ policy # "fcfs"
    BY <1>2, <2>2 DEF PickedRuns, WInv, SInv, RunsOnce
  <2>4. n \in Nat /\ Len(task_list') = n - 1
    BY <2>2, RemoveAtIs, LenProperties DEF WInv, SInv, OInv, TInv, TypeOK
  <2>5. file' = file
    BY <2>3 DEF RunTask
  <2>6. Len(log) + n = Len(file)
    BY <2>3 DEF WInv, WholeRuns
  <2> HIDE DEF t, n
  <2>7. /\ \A i \in 1 .. Len(log') : log'[i].slice = file'[log'[i].task].burst
        /\ \A i, j \in 1 .. Len(log') : i # j => log'[i].task # log'[j].task
        /\ Len(log) \in Nat /\ Len(log') = Len(log) + 1
        /\ total_wait_time' = TotalBegins(log')
    BY <2>2, <2>3, RunTaskWhole
  <2>8. Len(log') + Len(task_list') = Len(file')
    BY <2>4, <2>5, <2>6, <2>7
  <2> QED
    BY <2>1, <2>7, <2>8 DEF WInv, WholeRuns
<1> QED
  BY <1>1, <1>2

LEMMA NextWhole == DistinctNames /\ WInv /\ [Next]_vars => WInv'
<1> SUFFICES ASSUME DistinctNames, WInv, [Next]_vars PROVE WInv'
  OBVIOUS
<1>1. SInv'
  BY NextSums DEF WInv
<1>2. CASE Report \/ Terminated \/ UNCHANGED vars
  <2>1. /\ UNCHANGED <<file, task_list, policy, total_wait_time, log>>
        /\ phase' # "adding" => phase # "adding"
    BY <1>2 DEF Report, Terminated, vars, totals
  <2> QED
    BY <1>1, <2>1 DEF WInv, WholeRuns
<1> QED
  BY <1>2, BeforeWhole, RunsWhole DEF Next

(* The order in which shortest-job-first ran all tasks, and another one.   *)
LEMMA LogIsShortestFirst ==
  ASSUME WInv, phase = "reported", policy = "sjf", NEW order \in SetToSeqs(Tasks)
  PROVE  total_wait_time <= TotalWait(order)
<1> DEFINE n == Len(file)
           b == [t \in 1 .. n |-> file[t].burst]
           s == [i \in 1 .. n |-> log[i].task]
<1>1. /\ log \in Logs(Tasks) /\ Tasks = 1 .. n /\ n \in Nat
      /\ \A t \in Tasks : file[t].burst \in Nat
      /\ ServesInOrder
      /\ task_list = << >>
  BY LogIsTimeline DEF WInv, SInv, OInv, TInv, RunsOnce
<1>2. Len(log) = n
  BY <1>1, EmptySeq DEF WInv, WholeRuns
<1>3. /\ \A i \in 1 .. n : log[i].slice = file[log[i].task].burst
      /\ \A i, j \in 1 .. n : i # j => log[i].task # log[j].task
      /\ total_wait_time = TotalBegins(log)
  BY <1>2 DEF WInv, WholeRuns
<1>4. /\ DOMAIN log = 1 .. n
      /\ \A i \in 1 .. n : log[i] \in [task : Tasks, slice : Nat]
  BY <1>1, <1>2, ElementOfSeq, LenProperties DEF Logs
<1>5. b \in [1 .. n -> Int]
  BY <1>1
<1>6. s \in Orders(n)
  <2>1. \A i \in 1 .. n : s[i] \in 1 .. n
    BY <1>1, <1>4
  <2> QED
    BY <1>3, <2>1 DEF Orders
<1>7. order \in Orders(n) /\ Len(order) = n
  <2>1. Cardinality(1 .. n) = n
    BY <1>1, FS_Interval
  <2>2. order \in Orders(n)
    BY <1>1, <2>1 DEF SetToSeqs, Orders
  <2>3. order \in Seq(1 .. n) /\ DOMAIN order = 1 .. n
    BY <1>1, <2>2, SeqDef DEF Orders
  <2> QED
    BY <1>1, <2>2, <2>3, LenProperties
<1>8. ASSUME NEW k \in 1 .. n, NEW t \in 1 .. n
      PROVE  IF t \in First(s, k) THEN b[t] <= b[s[k]] ELSE b[s[k]] <= b[t]
  <2> DEFINE x == s[k]
  <2>1. x \in 1 .. n /\ x = log[k].task /\ b[x] = file[x].burst /\ b[t] = file[t].burst
    BY <1>1, <1>4
  <2>2. file[x].burst \in Nat /\ file[t].burst \in Nat
    BY <1>1, <2>1
  <2>3. CASE t \in First(s, k)
    <3>1. PICK i \in 1 .. k : t = s[i]
      BY <2>3 DEF First
    <3>2. i \in 1 .. n /\ t = log[i].task
      BY <1>1, <3>1
    <3>3. CASE i = k
      BY <1>1, <2>1, <2>2, <3>1, <3>3
    <3>4. CASE i # k
      <4>1. \A j \in 1 .. i : j \in 1 .. n /\ j # k
        BY <1>1, <3>1, <3>2, <3>4
      <4>2. \A j \in 1 .. i : log[j].task # x
        BY <1>3, <2>1, <4>1
      <4>3. Before(t, x)
        BY <1>1, <1>4, <2>1, <3>2, <4>2 DEF ServesInOrder
      <4> QED
        BY <2>1, <2>2, <2>3, <4>3 DEF Before, Better
    <3> QED
      BY <3>3, <3>4
  <2>4. CASE t \notin First(s, k)
    <3>1. \A j \in 1 .. k : j \in 1 .. n /\ log[j].task # t
      BY <1>1, <2>4 DEF First
    <3>2. Before(x, t)
      BY <1>1, <1>4, <2>1, <3>1 DEF ServesInOrder
    <3> QED
      BY <2>1, <2>2, <2>4, <3>2 DEF Before, Better
  <2> QED
    BY <2>3, <2>4
<1>9. total_wait_time = SumOf(Waits(n, b, s))
  <2>1. [i \in 1 .. n |-> log[i].slice] = Along(n, b, s)
    <3>1. \A i \in 1 .. n : s[i] \in 1 .. n /\ log[i].slice = b[s[i]]
      BY <1>1, <1>3, <1>4
    <3> HIDE DEF s, b, n
    <3> QED
      BY <3>1 DEF Along
  <2>2. Clock(log) = PartialSums(Along(n, b, s))
    BY <1>2, <2>1 DEF Clock
  <2> HIDE DEF s, b, n
  <2>3. [i \in 1 .. n |-> Begins(log, i)] = Waits(n, b, s)
    BY <2>2 DEF Waits, Begins
  <2> QED
    BY <1>2, <1>3, <2>3 DEF TotalBegins
<1>10. TotalWait(order) = SumOf(Waits(n, b, order))
  <2>1. [i \in 1 .. n |-> file[order[i]].burst] = Along(n, b, order)
    <3>1. \A i \in 1 .. n : order[i] \in 1 .. n
      BY <1>7 DEF Orders
    <3> QED
      BY <3>1 DEF Along
  <2> HIDE DEF s, b, n
  <2> QED
    BY <1>7, <2>1 DEF TotalWait, Waits
<1> HIDE DEF s, b, n
<1>11. SumOf(Waits(n, b, s)) <= SumOf(Waits(n, b, order))
  BY <1>1, <1>5, <1>6, <1>7, <1>8, ShortestFirst
<1> QED
  BY <1>9, <1>10, <1>11

(* Shortest-job-first is what it is for, on every file whose names differ: *)
(* run to their ends in any other order its tasks would wait no less.      *)
THEOREM WaitsAreLeast == DistinctNames => (Spec => []WaitsAreMinimal)
<1> SUFFICES ASSUME DistinctNames PROVE Spec => []WaitsAreMinimal
  OBVIOUS
<1>1. WInv /\ [Next]_vars => WInv'
  BY NextWhole
<1>2. WInv => WaitsAreMinimal
  BY LogIsShortestFirst DEF WaitsAreMinimal
<1> QED
  BY InitWhole, <1>1, <1>2, PTL DEF Spec
=============================================================================
