# A verification project for csc139

`src/` holds the homework programs of an operating-systems course (CSC 139): small C programs about
threads, scheduling, processes and pipes. This directory holds TLA+ models of them, what TLC checks about
the models on small instances, and what TLAPS proves about them for every instance.

- [Inventory](#inventory): the parts of the system
- [Modules](#modules): what models what
- [Web servers](#web-servers), [schedulers](#schedulers), [processes](#processes): state, actions, properties,
  runs, bounds, fairness
- [Proofs](#proofs): what is proved and how
- [Findings](#findings)
- [Not modelled](#not-modelled) and [what could come next](#what-could-come-next)

To check: `tlc -config X.cfg M` for a run of the table below, `tlapm M.tla` for a proof module.

## Inventory

### Multi Threaded Web Server

Three programs of one shape: two producer threads hand requests 1 to `NUM_REQUESTS` (10) to two consumer
threads through a ring buffer of `QUEUE_SIZE` (5) slots; `main()` creates and joins them. Shared state in
all: `buffer`, `input_index`, `output_index`, `next_request_id`, `requests_consumed`.

| program | synchronisation | operations | what is hard |
|---|---|---|---|
| `locks.c` | one mutex and `count`; threads that cannot proceed unlock and try again | `producer`, `consumer`, `put`, `get`, `main` | the decision to put or get must hold when it is acted upon; nobody may leave early; whether a retrying thread lets the others in |
| `convar.c` | one mutex, `count`, two condition variables | the same, with waits and signals | lost, overtaken and spurious wakeups; who is woken at shutdown |
| `semaphores.c` | three semaphores, no `count` | the same, with several semaphore operations in a row | nothing checks the ring, so the semaphores must account for it; the exit test is made before the wait; leaving threads must post |
| `locks copy.c`, `convar copy.c` | earlier versions, one producer and one consumer | each thread counts its own requests | termination without knowing of the other side |

What makes them correct: requests are processed once each and in order; no slot is overwritten or read
stale; all threads return.

### Scheduler Programming Assignment

Five programs. `driver.c` reads lines "name, priority, burst" and calls `add()` for each, then `schedule()`.
Each of `schedule_fcfs.c`, `schedule_sjf.c`, `schedule_priority.c`, `schedule_rr.c` and
`schedule_priority_rr.c` implements both, on the linked list of `list.c`; `run()` in `CPU.c` prints
"Running task". At the end average turnaround, response and waiting times are printed.
The programs are sequential. What is hard: a list that is built back to front and that changes under the
pointer that goes over it; `delete()` by name; nested loops that end only if every pass finds what it looks
for; averages that are computed from sums taken in passing.
What makes them correct: each task gets exactly its burst; the order is that of the policy; turns are fair;
the averages are those of what was run; `schedule()` returns.

### Processes, Context Switch Practice

Short programs around `fork`, `wait`, `exec` and pipes: `pipes_io.c` (writer and reader children),
`hello_and_goodbye.c` (a child prints first, a pipe makes the parent wait), `fork.c`, `wait_example.c`,
`waitpid_example.c`, `close_stdout.c`, `open_file_and_fork.c` (what parent and child share),
`exec_variants.c`, `cpu.c`, and `os_measurements.c` (time of a system call, and of a context switch by a
ping-pong over two pipes). Hard: end of file depends on every holder of a descriptor; output that waits in
a stdio buffer is copied by `fork` and comes out late, twice or never; a parent that fails, or does not wait,
leaves children behind.
What makes them correct: every process ends; a parent that waits sees its children's output first; each line
comes out as often as stdio's rules say; a reader gets the whole message, in order; the ping-pong strictly
takes turns.

`File Systems` holds four small text files, `Scheduling Practice` an empty header, and next to the sources
lie compiled programs: nothing to model.

## Modules

| module | models | uses |
|---|---|---|
| `RequestQueue` | the abstract specification of every web server: a first-in first-out queue of bounded length | |
| `LockServer` | `locks.c` | `RequestQueue` |
| `CondvarServer` | `convar.c` | `RequestQueue` |
| `SemaphoreServer` | `semaphores.c` | `RequestQueue` |
| `PairServer` | `locks copy.c`, `convar copy.c` | `RequestQueue` |
| `LockServerProofs` (also on `PairServer`), `CondvarServerProofs`, `SemaphoreServerProofs` | theorems on the servers | the server, `Lemmas` |
| `Timelines` | the "Running task" lines as a sequence of slices, and the times read off it: when a slice begins and ends, what a task received, its response and turnaround time | |
| `CpuTimeline` | the abstract specification of every scheduler: one CPU, each task gets its burst | `Timelines` |
| `LinkedList` | `list.c`, `list.h`: `insert`, `delete`, `next`, `head` | |
| `TaskList` | `task.h` and the loop of `driver.c` | `LinkedList` |
| `BatchScheduler` | `schedule_fcfs.c`, `schedule_sjf.c`, `schedule_priority.c` | `TaskList`, `Timelines`, `CpuTimeline` |
| `RoundRobin` | `schedule_rr.c` | `TaskList`, `Timelines`, `CpuTimeline` |
| `PriorityRR`, `MCPriorityRR` | `schedule_priority_rr.c`; its instance for TLC | `TaskList`, `Timelines`, `CpuTimeline` |
| `BatchSchedulerProofs`, `RoundRobinProofs`, `PriorityRRProofs` | theorems on these schedulers | the scheduler, `Lemmas` |
| `Lemmas` | lemmas on the operators that models are built from: remainders and ring slots, lists, sums, timelines | `LinkedList`, `Timelines` |
| `ProcessPrograms` | the programs of `Processes` and the ping-pong of `os_measurements.c`, as lists of calls | |
| `UnixProcesses`, `MCUnixProcesses` | what the calls do: stdio, descriptors, pipes, processes; its instance for TLC | `ProcessPrograms` |
| `UnixProcessesProofs` | theorems on the processes | `UnixProcesses` |

Some modules define faulty variants of an operator (`get_NoAdvance` next to `get`, with a comment
"Faulty: ..."). They are not used by the specification. Put in the place of the operator, each makes TLC
report a property of the module as violated: they show that the property notices such a bug.

## Web servers

**State.** The C globals by their names; `lock`, `buffer_mutex` is the thread that holds the mutex or
`Nobody`; `mutex`, `empty_slots`, `full_slots` are the semaphores' values; `pc[t]` is where thread `t`
stands. `served` is the sequence of numbers in the "Processed request" lines of `get()`, `main` whether the
joins have returned. `buffer` starts as zeros, as C globals do.

**Actions.** One step is one synchronisation operation or the code between two of them, so other threads
run wherever they can. In `locks.c` and `convar.c` the decision and the `put()`/`get()` that follows
are separate steps although both are under the mutex: that nobody comes between them is checked, not
assumed. `sleep()` is a thread that takes no step for a while. `pthread_cond_wait` releases the mutex and
blocks in one step, must take the mutex again, and may end without a signal `MAX_SPURIOUS` times.
`sem_wait` and `sem_post` are steps of their own.

`PairServer` is both earlier versions, chosen by `program`: `put()`, `get()` and `main()` are the same, the
loops differ in how they wait. Their threads share no request counter; `produced` and `consumed` stand for
the loop variables, and a thread leaves its `for` loop on its own counter alone. Each condition variable of
`convar copy.c` has one thread that can wait on it, so a signal goes to that thread or is lost.

**Properties.**

- `TypeOK`: among others, the indices stay in the ring, and in `semaphores.c` `mutex` stays binary.
- `NothingLostOrRepeated`: what was served, followed by what the ring holds, is 1, 2, ... up to the last
  request issued.
- `DecisionsHold`: a thread at `put` finds room and a request to issue, a thread at `get` a request.
- `NoEarlyExit`: no thread returns while there is work of its kind.
- `NoLostWakeup`: with one signal per `put()` and `get()`, if there is work for a side, one of its threads is
  awake or about to be woken.
- `SlotsAccounted`, `SlotsTrusted`: the two counting semaphores and the threads between two operations
  account for every slot; so no slot is overwritten or read too early, although nobody looks.
- `OverrunBounded`: how much may be consumed after the last request (see [findings](#findings)).
- `ImplementsQueue`: the server implements `Queue!FairSpec`, the abstract queue with liveness. In the mapping
  the queue is the live part of the ring; in `SemaphoreServer` `served` is cut off after the last request.
  In `PairServer` its liveness is the point: nobody is left waiting for rounds the other side has done.
- `Termination`, `ProducersAndAConsumerReturn`: the threads return.

**Bounds.** All runs use the program's own constants: two producers, two consumers (one of each in
`PairServer`), 5 slots, 10 requests.
The ring fills, empties and is gone round twice. `MAX_SPURIOUS` is 2, which is enough to wake both threads
of a side for nothing.

**Fairness.** In each server every thread that can go on eventually does (weak fairness), as any thread
scheduler provides. For `convar.c` and `semaphores.c` that is enough. In `locks.c` a thread that cannot
proceed takes and releases the mutex over and over, so the mutex is free again and again but never for
long: `FairSpec` also assumes that a thread that waits for the mutex gets it in the end (strong fairness of
`Lock`). The run `lock_server_weak` shows that without it the server can starve. In practice the `sleep()`
calls and time slices provide it; POSIX does not promise it. `PairServer` assumes the same: one of its programs
tries again in the same way, and in the other a thread may wake up without a signal any number of times, as
POSIX allows; there is no `MAX_SPURIOUS` there.

| run | states | shows |
|---|---|---|
| `lock_server` | 734 | all of `LockServer`'s properties, `ImplementsQueue` and `Termination` |
| `lock_server_weak` | violation | `FullBufferDrains` fails when threads are only weakly fair |
| `condvar_server` | 22,068 | all of `CondvarServer`'s; both producers and one consumer return |
| `condvar_server_exit` | violation | `EveryThreadReturns` fails: a consumer stays blocked |
| `semaphore_server` | 24,902 | all of `SemaphoreServer`'s; every thread returns |
| `pair_server` | 754 | `TypeOK` and `ImplementsQueue` for both earlier programs |
| `semaphore_server_last` | violation | `NothingAfterTheLast` fails: a stale slot is consumed |

`CondvarServer.cfg` and `CondvarServerExit.cfg` switch the deadlock check off, because `convar.c` really can stop with a blocked
consumer (second finding). The others leave it on.

## Schedulers

**State.** A task is the number of its line; `file` is the lines as read, a list is the sequence of its tasks
from the head on. `burst` is what is left of the bursts where the code counts them down. `temp` is the node
pointer: a task, or `NULL` (in `BatchScheduler` a position). `log` is the "Running task" lines. The
averages are kept as the sums and the count they are divided by. Well-formed lines are assumed: all three
fields, bursts of at least 0.

**Actions.** `add` is one line of the file with what the driver and `add()` do for it. `Start` is the
part of `schedule()` before its loop, each round of a loop is an action (`FcfsRuns`, `PickedRuns`,
`RunSlice`, and in `PriorityRR` also `FindHighest`, `Skip`, `PassAgain` and `LeavePass`), `Report` the end.
`BatchScheduler` chooses at the start which of the three programs it is, because they share everything but how
the next task is found. The second list of the round-robin programs is a copy of the tasks that nobody
changes: the file stands for it. `schedule_rr.c` uses two fields, `initial_burst` and `has_been_run`,
that `task.h` does not declare; the model has the second (the first is written and never read).

**Properties.**

- `ImplementsTimeline`: the log is a behaviour of `CpuTimeline`: however bursts are cut into slices, every task
  gets exactly its burst, never runs after that, and none is left out.
- `ReportCorrect`: the sums that are averaged are those of the tasks' response, turnaround and waiting times,
  which `Timelines` defines from the log alone.
- `ServesInOrder` (fcfs, sjf, priority): what runs goes before all that has not run; of equals, sjf and
  priority take the one read last.
- `WaitsAreMinimal` (sjf): no other order of the tasks has a smaller total waiting time.
- `TurnsAreFair` (rr, and within a priority in priority_rr): of two unfinished tasks the one whose turn
  comes first is 0 or 1 quantum ahead, whatever left the list in between.
- `StrictPriority` (priority_rr): no task has run before every one of a higher priority got its whole burst.
- `Termination` (priority_rr): the nested loops end. For the others it follows from the liveness in
  `ImplementsTimeline`.

**Bounds.** `MAX_TASKS` bounds the lines: 3, and 4 for `RoundRobin`. Three tasks are enough for a list with a first, an interior
and a last node and for equal and different keys in every order; a fourth lets a
task leave between two that stay while a third has yet to run. `QUANTUM` is 2 (10 in the code), and the bursts are 0, shorter than a
quantum, equal to it, and longer than two. Priorities in `PriorityRR` go down to -1, where its search
starts. The empty file is included. Names are distinct except in `batch_scheduler_names`.

**Fairness.** The programs are sequential: weak fairness of the next step says that they run and that the
file ends.

| run | states | shows |
|---|---|---|
| `batch_scheduler` | 86,355 | fcfs, sjf and priority for every file of up to three lines |
| `batch_scheduler_names` | violation | `DeletesTheSelected` fails with equal names |
| `round_robin` | 166,355 | rr for every file of up to four lines |
| `priority_rr` | 214,275 | priority_rr for every file of up to three lines |

## Processes

**Shape.** `ProcessPrograms` gives each program as the sequence of its calls in source order, a branch that runs in
a child nested in the `fork`, and what an error branch does in an `onError` behind the call it tests. A new
program is a new list. `UnixProcesses` is the machine: one action per library or system call, for the process
whose next call it is, so that processes interleave between any two calls. The calls are external
code; their actions are modelled from how these programs use them.

**State.** `program` is which of nine programs runs and `tty` whether its standard output is a terminal; both
are chosen at the start. Per process: `status`, `code` (the calls still to make), `ends` (open
descriptors), `buffer` (what each stdio stream holds in that process's memory). `contents` is what has reached each
file and each pipe, every line with the process that printed it.

**Actions.** On a terminal a line is written at once, on a file when the stream is flushed or closed or the process
exits; standard error is never buffered. `Fork` copies code, descriptors and buffers. `Exec` replaces code and
buffers, or fails. `Write` to a pipe blocks while there is no room and kills the writer when nobody
can read. `Read` blocks while the pipe is empty and someone can write, and is at end of file when nobody can.
`Wait` reaps a zombie child or fails at once without children. `Exit` flushes, closes, and becomes a zombie
if there is a parent to wait for it. `Failure` is the failure of `pipe()`, `fork()` or `fopen()`, which
every program answers by a message and `exit(1)`; it may happen at each of these calls.

**Left out.** The values of `x` in `fork.c` and the wording of lines; a line that names its process or its file is
one symbol. A `printf` of several lines counts as one, and so do two `printf` calls with nothing in between
(`wait_example.c:39-40`, `os_measurements.c:110-111` and `129-130`). The six variants of `exec_variants.c` differ in
arguments only. `measure_context_switch()` is without clock and CPU affinity.

**Properties.**

- `TypeOK`: among others, whichever branches a process takes and whatever fails, it only gets to calls whose arguments
  make sense: what it closes, reads, writes or flushes it has open. The programs mostly ignore the results of these
  calls, so one on a descriptor that was closed by mistake would go unnoticed; that none is made is also why the actions
  do not say how one fails, but for the `printf` that `close_stdout.c` makes on purpose.
- `OutputCounts`: at the end each line of the source is in the output exactly once, except where buffers say
  otherwise: on a file a line printed before `fork()` and not flushed comes twice, one before a successful
  `exec()` not at all; what `close_stdout.c` prints after closing its descriptor never comes, and its error
  test notices only on a terminal. `wait()` fails in the child of `wait_example.c`.
- `ChildrenFirst`: "finished" follows every line of the child; the child's line is first in `dummy.txt`,
  although the parent may write first (into its buffer); in `hello_and_goodbye.c` hello is before goodbye on a
  terminal; no parent that waits leaves a child behind.
- `PipesInStep`: the reader of `pipes_io.c` prints the message in order and ends with the whole of it, also
  when it takes several reads; in the ping-pong at most one byte is under way.
- `Termination`: every process of every program ends, whichever of the calls fails.

**Bounds.** At most three processes, as in the sources. `pipes_io.c` sends 82 bytes and its reader takes up to
127; here it sends three lines and a read takes two, so that the loop goes round. The signal of
`hello_and_goodbye.c` is 2 bytes, of which one is read, as in the code (12 and 1). The ping-pong goes 4
rounds (100,000 in the code): its state repeats after each round. A pipe holds 3; none of the programs fills it.

**Fairness.** Weak fairness of each process: the kernel runs every process that is not blocked. A blocked call
is disabled and gets nothing from it, so that the run would show a deadlock.

| run | states | shows |
|---|---|---|
| `unix_processes` | 692 | all properties for the nine programs, on a terminal and on a file, with every failure |

What the model shows beside the properties: with output in a file, `hello_and_goodbye.c` can print goodbye before
hello, because the signal overtakes the child's buffer; its comment on the order is true of a terminal.
The comment at line 31 there speaks of "a single byte" while `sizeof(signal)` bytes are written; the parent reads one
of them, and the rest is dropped with the pipe.

## Proofs

The servers are proved for any sets of threads (`PairServer`: its two), `QUEUE_SIZE` > 0, any `NUM_REQUESTS` and
`MAX_SPURIOUS`. The assumptions are the named `ASSUME` of each module: producers and consumers are disjoint sets,
nonempty in `CondvarServer` (an empty side has nobody to wake) and finite in `SemaphoreServer` (they are counted). The
schedulers are proved for files of any length, any integer priorities, any bursts of at least 0 and any `QUANTUM` > 0.
The processes are proved for any `MESSAGE` and `SIGNAL` that fit into a pipe, and any `BUFFER`, `ITERATIONS` and
`PIPE_SIZE` > 0, on a terminal and on a file, with every failure that the model has.
Where names have to differ, the theorem has the hypothesis `DistinctNames`, the constant with which `driver.c` reads
only such files. With `DistinctNames = FALSE` in the same runs TLC finds each of these statements violated but
`WaitsAreMinimal`, since `delete()` may take out another task than the one meant (fourth finding); and
`WaitsAreMinimal` compares there with orders of tasks of which some were never run.

| module | theorems |
|---|---|
| `LockServerProofs` | `TypeCorrect`, `DecisionsAreSafe`, `ExitsAreSafe`, `NoRequestLost`, `Implementation`; `PairTypeCorrect`, `PairImplementation` |
| `CondvarServerProofs` | `TypeCorrect`, `DecisionsAreSafe`, `NoWakeupIsLost`, `NoRequestLost`, `Implementation` |
| `SemaphoreServerProofs` | `TypeCorrect`, `SlotsAreAccounted`, `SlotsAreTrusted`, `OverrunIsBounded`, `Implementation` |
| `BatchSchedulerProofs` | `TypeCorrect`, `ServiceInOrder`, `DeleteIsExact`, `ReportIsCorrect`, `IsTimeline`, `WaitsAreLeast` |
| `RoundRobinProofs` | `TypeCorrect`, `ReportIsCorrect`, `TurnsStayFair`, `IsTimeline` |
| `PriorityRRProofs` | `PriorityIsStrict`, `TypeCorrect`, `ReportIsCorrect`, `TurnsStayFair`, `IsTimeline` |
| `UnixProcessesProofs` | `TypeCorrect`, `PipesInStepAlways`, `ChildrenFirstAlways` |

Each server's module has an inductive invariant `IInv`, proved by `InitIInv` and `NextIInv`, one lemma per group of
actions, and theorem `Invariance`.

- *LockServer, CondvarServer.* The properties alone are not inductive: that a decision still holds needs that only the
  holder of the mutex is inside (`MutualExclusion`), and what `get()` reads needs where every waiting request lies
  (`RingConsistent`: request n + 1 in slot n % QUEUE_SIZE, `served` = 1 .. `requests_consumed`). For `NoLostWakeup`,
  `ExitsJustified` says that a side has returned only when its work is done; a signal that finds nobody blocked leaves
  the signaller's own next `decide` to a thread that is awake.
- *SemaphoreServer.* `SlotsAccounted` is the heart. `MoveCount` says how a step of one thread changes the number of
  threads at a set of places, `ProducerAccounts` and `ConsumerAccounts` that a step that moves a token between a
  thread and a semaphore keeps the accounts. A thread at `put` or `get` is itself counted, hence `SlotsTrusted`. The
  ring is the queue only up to the last request (`Mapped`), since consumers may overrun it.
- *PairServer* (its instance `Pair` in `LockServerProofs`, whose lemmas on the ring it shares). The invariant of `LockServer` with the two loop counters, and `RoundsLeft`: a thread before its
  `put()` or `get()` has a round left. Nothing else bounds what the ring holds, because neither loop looks at the
  other.
- *Implementation* is `Spec => Queue!Spec`: initial states map to initial states, `put()` to `Accept`, `get()` to
  `Serve` (after the last request in `semaphores.c`: to a stutter), every other step to a stutter.
- *BatchScheduler.* The invariant grows in four steps. `TInv` adds `Lengths` to the types, how the list and the count
  follow the file from phase to phase. `PickIs` says that the search finds the first of the best. `OInv` is the order
  of service: the list runs backwards through the lines with gaps (`ListOrder`), and what is not in it has run
  (`NoneIsLost`). `SInv` says that a task still to come has not run (`RunsOnce`) and that the sums kept so far are
  those of the tasks that have run (`SumsAreOfTimeline`), which at the end are all. `WInv` says that the total wait is
  the sum of the times at which the slices of the log begin, each slice being a whole burst (`WholeRuns`).
- *Shortest job first is optimal* (`WaitsAreLeast`). `ServesInOrder` makes every task among the first k of the log no
  longer than the k-th, and every other one no shorter. With the k-th burst as a threshold, the sum of the first k
  bursts of the log is at most that of any k bursts (`SmallestFirst`); so each slice begins no later than in any other
  order, and the sums compare term by term (`ShortestFirst`).
- *RoundRobin.* The list rises through the lines, so that `next` is the next task left. `Progress` ties a task's place
  in the list to what the log gave it: it is there until it ran and has its burst. `Turns` compares every task with
  the one whose turn it is: those before it are a quantum ahead, the others level. A task that leaves has had at most
  what all others had, hence the pointer that goes on from the deleted node keeps the turns.
- *PriorityRR*, whether or not names differ (`PInv`): no task has run while one of a higher priority is in the list
  (`ListPriority`). `LevelIsHighest`: no task of the list is above the level of the
  passes, which `FindHighest` establishes (`HighestIs`) and deletions keep. That `temp` is a task of the list although
  nodes are deleted under it is `DeleteKeepsNext`: the node taken out is the visited one or one before it, even if
  names repeat. With equal names this is less than `StrictPriority`, because an unfinished task can leave the list
  (fourth finding).
- *PriorityRR*, if names differ (`QInv`). A pass goes down through the lines, so `temp` tells which tasks it has met
  (`Met`). `OnlyTheLevel`: no task off the level has run and is unfinished, and a pass that counted none of its level
  has none behind it, so the inner loop is left only when the level is served. `PassCounts` bounds the count. `Turns`
  is as in round robin, for the tasks of the level. Since a task leaves the list only with its whole burst
  (`FinishedIs`), `ListPriority` gives `StrictPriority`. A first run is told by the burst: that this is right needs that
  a slice of a task with a burst is never empty (in `Progress`).
- *IsTimeline* is `Spec => Timeline!Spec` for the three modules: `add` maps to `Submit`, a slice to `Run`, every other
  step to a stutter.

**Processes.** What a process will do is data in this model, a list of calls, so that the proofs first say what lists
there are (`ProgramsAre`: every branch, child and new program in them is of calls that have a type). `Types`, the part of
`TypeOK` that is about each variable by itself, is then inductive as it stands. That calls are made on open
descriptors is not: it needs all the calls still to come. `Fits(calls, E)` says that there is a list of sets, the
descriptors open at least before each call, that begins within `E`, has what each call needs (`Suits`) and goes from one
to the next as the call opens and closes (`After`); a child must fit what its parent has at the `fork`. Each program
fits a process that has only standard output (`ProgramsFit`), and whatever a process does, what is left fits what it
has (`DescriptorsFit`), since branches and new programs only print. Everything else rests on `HasLeft(p, calls)`: what `p` has yet to make is the end of
the list `calls`, so that `Left(p)`, a number, tells where `p` is; failing or being killed leaves 0. Parents never
branch (`InOrder`), so this holds of each of them (`ParentHas`).

- *pipes_io.c* (`PipesIO`). `Forked` and `EndsHeld` say from the number of calls left who exists and who
  holds which end. The reader is not at the end of its list but in a loop: `ReaderAt(n)` says that it is to print up to the
  n-th line next, `LoopFrom`, or is behind the loop. `Flow(n)`: what is printed and held back, what the reader has read
  and not printed, what is in the pipe and what is not yet sent are the message. End of file is met only when all is
  sent and read, because the writer has its end until then.
- *os_measurements.c* (`Measurement`). `InTurn` has the four states of a round by how many calls of their loops the two
  have made: equal or one apart, with at most one byte in one pipe. `ParentHolds` and `ChildHolds` say that each keeps
  the ends it needs, so nobody meets end of file or is killed. The number of reads left follows from the parity of the
  calls left (`ReadsSpaced`).
- *ChildrenFirst*, for every program. `AfterWait` is how many calls the parent has left behind its `wait()`; the
  lists themselves show that it prints what belongs behind the child only after that, or for `dummy.txt` into a buffer
  that it flushes only after that (`WaitsAre`). `Waited`: with no more calls than that left the child is gone, unless
  a call has failed. It needs that the parent is not killed before it waits (`NoSigpipe`) and that nobody but the parent
  forks (`ChildrenPlain`). `LinesOrdered` then says of each stream that the child holds no late line, that the parent
  holds one only in a place from which it cannot overtake the child (`MayHold`), and that one that is out has no child
  left to be overtaken by.
- *hello_and_goodbye.c* does not wait: `Greeting` has the argument of the pipe. Until the child has said hello it
  holds the write end of an empty pipe, so that the parent stays at its `read()`; and on a terminal nothing is ever
  held back (`NothingHeld`).

**Sums and searches.** A sum is a recursive function on the numbers from 0 on (`PartialSums`). Induction theorems that
take a predicate cannot be used; `Lemmas` has induction for a set instead (`UpTo`: a set that holds 0, and with i < n
also i + 1, holds 0 to n), proved from well-foundedness as is that a nonempty set of numbers has a smallest element.
On it rest the lemmas on sums (one more element, one element changed, term by term sums and comparisons), and on those
what one more slice does to each time (`OneMore`) and to the totals. `insert`, `delete`, `next`, `head` and `Reverse`
have a lemma each for what they make of a list.

Only model-checked:

- Liveness: `Queue!FairSpec` and `Timeline!FairSpec` beyond their `Spec`, `Termination`,
  `ProducersAndAConsumerReturn`. It needs `ENABLED`, which is out of the prover's reach. That no task is left out, in
  particular, is liveness.
- `OutputCounts`. That each line comes out exactly once, twice or never depends on the list of calls of every
  program, line by line; the parameters do not enter it but by the rounds of the ping-pong, which print nothing. The
  run goes through every execution of each program.

## Findings

1. `locks.c:63` says that a producer that finds the buffer full yields; it does not, and nothing but the
   scheduler lets a consumer in (`lock_server_weak`).
2. `convar.c` can hang at shutdown: the last `get()` signals the producers only, and another consumer that
   waits for a request is never woken (`condvar_server_exit`).
3. `semaphores.c` can process a stale slot after the last request: the consumer woken by the exit post
   consumes before it tests again (`semaphore_server_last`). `OverrunBounded` and `ImplementsQueue` say how
   far that goes and what it leaves intact.
4. `list.c` deletes by name: with equal names in the file, a task runs twice and another never
   (`batch_scheduler_names`). The round-robin programs are affected too: with `B,1,1`, `A,2,10`, `A,2,25` and a quantum
   of 10 `schedule_priority_rr.c` unlinks the second `A` with 15 units left, and `B` runs before it is finished.

## Not modelled

- `printf` output but for the lines a property is about; floating-point averages (0/0 for an empty file
  in all schedulers but rr).
- Failure of `malloc`, `pthread_create`, `fopen`: the programs exit or do not check. Lines that lack a field.
- Memory that is never freed; overflow of `int` sums.
- `measure_syscall()` and the clock and CPU affinity of `os_measurements.c`: measured times are not a matter of
  states, and the loop of system calls changes none.
- `cpu.c`: one process that prints and sleeps for ever.
- `File Systems/file1.txt` and `Scheduling Practice/list.h`: data and an empty header.
- Files with a task of a priority below -1: one is enough for `schedule()` of `schedule_priority_rr.c` not to return
  (`MIN_PRIORITY` in `schedulers.h` is 1; the run goes down to -1).
- The exit of `exec_variants.c` with a usage message when it is called without an argument.
- `EINTR`, and a `write()` to a pipe that is split: no program installs a handler or writes more than `PIPE_BUF`.

## What could come next

Everything that has states of its own is modelled, and every safety property of the servers and the schedulers, and of
the processes all but `OutputCounts`, is proved. That one could be proved with an account of each line: how often it is
in a buffer, in the output, or still to be printed.
