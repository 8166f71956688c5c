---------------------------- MODULE UnixProcesses ----------------------------
(***************************************************************************)
(* The programs of ProcessPrograms running on Unix: a parent and its       *)
(* children, the descriptors each has open, the stdio buffers each holds   *)
(* in its own memory, pipes and output files.  Which program runs, and     *)
(* whether its standard output is a terminal, is chosen at the start.      *)
(***************************************************************************)
EXTENDS ProcessPrograms, FiniteSets

CONSTANT PIPE_SIZE   \* what a pipe holds before a write() has to wait

ASSUME UnixProcessesAssumption ==
  /\ {BUFFER, ITERATIONS, PIPE_SIZE} \subseteq Nat \ {0}
  /\ {MESSAGE, SIGNAL} \subseteq Seq(STRING)
  /\ Len(MESSAGE) <= PIPE_SIZE /\ Len(SIGNAL) <= PIPE_SIZE

Streams == {"stdout", "dummy.txt"}
Files   == Streams \cup {"stderr"}
Pipes   == {"pipe1", "pipe2"}

VARIABLES
  program,   \* the program that runs
  tty,       \* is its standard output a terminal?
  status,    \* of each process: "none", "running", "zombie" or "gone"
  code,      \* the calls each process has yet to make
  ends,      \* the descriptors each process has open, as <<"r" or "w", file>>
  buffer,    \* what each process holds back in the stdio buffer of a stream
  contents   \* the lines of each file, the bytes in each pipe

vars == <<program, tty, status, code, ends, buffer, contents>>

NothingBuffered == [f \in Streams |-> << >>]

Init ==
  /\ program \in DOMAIN Programs
  /\ tty \in BOOLEAN
  /\ status = [p \in Processes |-> IF p = "parent" THEN "running" ELSE "none"]
  /\ code = [p \in Processes |-> IF p = "parent" THEN Programs[program] ELSE << >>]
  /\ ends = [p \in Processes |-> IF p = "parent" THEN {<<"w", "stdout">>} ELSE {}]
  /\ buffer = [p \in Processes |-> NothingBuffered]
  /\ contents = [f \in Files \cup Pipes |-> << >>]

----------------------------------------------------------------------------
(* Helpers *)

Calls(p, name) ==
  /\ status[p] = "running"
  /\ code[p] # << >>
  /\ Head(code[p]).call = name

(* What p does after its call returned: an onError branch is taken or not. *)
Continuation(p, error) ==
  LET rest == Tail(code[p])
      tested == rest # << >> /\ Head(rest).call = "onError"
  IN  CASE tested /\ error  -> Head(rest).code \o Tail(rest)
        [] tested /\ ~error -> Tail(rest)
        [] OTHER            -> rest

Return(p) == code' = [code EXCEPT ![p] = Continuation(p, FALSE)]
ReturnError(p) == code' = [code EXCEPT ![p] = Continuation(p, TRUE)]

HasOpen(p, f) == <<"w", f>> \in ends[p]
Readers(f) == {p \in Processes : <<"r", f>> \in ends[p]}
Writers(f) == {p \in Processes : <<"w", f>> \in ends[p]}

(* The contents once p has flushed its streams S; what cannot be written,  *)
(* because the descriptor is closed, is lost.                              *)
Flushed(p, S) ==
  [f \in DOMAIN contents |->
     IF f \in S /\ HasOpen(p, f) THEN contents[f] \o buffer[p][f] ELSE contents[f]]

(* p is no more: its memory and descriptors go at once, the process when   *)
(* its parent has waited for it or has itself ended.                       *)
Die(p) ==
  /\ code' = [code EXCEPT ![p] = << >>]
  /\ ends' = [ends EXCEPT ![p] = {}]
  /\ buffer' = [buffer EXCEPT ![p] = NothingBuffered]
  /\ status' = [q \in Processes |->
                  CASE p = "parent" /\ (q = p \/ status[q] = "zombie") -> "gone"
                    [] q = p /\ p # "parent" ->
                         IF status["parent"] = "gone" THEN "gone" ELSE "zombie"
                    [] OTHER -> status[q]]

----------------------------------------------------------------------------
(* The C library: a terminal is written at each line, any other file when  *)
(* the stream is flushed or closed or the process exits.                   *)

Buffered(f) == f # "stderr" /\ ~(f = "stdout" /\ tty)

Fprintf(p) ==
  /\ Calls(p, "fprintf")
  /\ LET f == Head(code[p]).file
         line == <<p, Head(code[p]).line>>
     IN  \/ /\ Buffered(f)
            /\ buffer' = [buffer EXCEPT ![p][f] = Append(@, line)]
            /\ Return(p)
            /\ UNCHANGED contents
         \/ /\ ~Buffered(f)
            /\ f = "stderr" \/ HasOpen(p, f)
            /\ contents' = [contents EXCEPT ![f] = Append(@, line)]
            /\ Return(p)
            /\ UNCHANGED buffer
         \/ /\ ~Buffered(f)
            /\ f # "stderr" /\ ~HasOpen(p, f)
            /\ ReturnError(p)
            /\ UNCHANGED <<contents, buffer>>
  /\ UNCHANGED <<program, tty, status, ends>>

Fflush(p) ==
  /\ Calls(p, "fflush")
  /\ contents' = Flushed(p, {Head(code[p]).file})
  /\ buffer' = [buffer EXCEPT ![p][Head(code[p]).file] = << >>]
  /\ Return(p)
  /\ UNCHANGED <<program, tty, status, ends>>

Fclose(p) ==
  /\ Calls(p, "fclose")
  /\ contents' = Flushed(p, {Head(code[p]).file})
  /\ buffer' = [buffer EXCEPT ![p][Head(code[p]).file] = << >>]
  /\ ends' = [ends EXCEPT ![p] = @ \ {<<"w", Head(code[p]).file>>}]
  /\ Return(p)
  /\ UNCHANGED <<program, tty, status>>

Exit(p) ==
  /\ status[p] = "running" /\ code[p] = << >>
  /\ contents' = Flushed(p, Streams)
  /\ Die(p)
  /\ UNCHANGED <<program, tty>>

----------------------------------------------------------------------------
(* The system calls *)

Open(p) ==
  /\ \/ Calls(p, "pipe") /\ ends' = [ends EXCEPT ![p] =
           @ \cup {<<"r", Head(code[p]).file>>, <<"w", Head(code[p]).file>>}]
     \/ Calls(p, "fopen") /\ ends' = [ends EXCEPT ![p] = @ \cup {<<"w", Head(code[p]).file>>}]
  /\ Return(p)
  /\ UNCHANGED <<program, tty, status, buffer, contents>>

Close(p) ==
  /\ Calls(p, "close")
  /\ ends' = [ends EXCEPT ![p] = @ \ {Head(code[p]).end}]
  /\ Return(p)
  /\ UNCHANGED <<program, tty, status, buffer, contents>>

(* The child gets a copy of the descriptors and of the memory, with what   *)
(* the stdio buffers hold.                                                 *)
Fork(p) ==
  /\ Calls(p, "fork")
  /\ LET child == Head(code[p]).child
     IN  /\ status' = [status EXCEPT ![child] = "running"]
         /\ code' = [code EXCEPT ![p] = Continuation(p, FALSE), ![child] = Head(code[p]).code]
         /\ ends' = [ends EXCEPT ![child] = ends[p]]
         /\ buffer' = [buffer EXCEPT ![child] = buffer[p]]
  /\ UNCHANGED <<program, tty, contents>>

(* pipe(), fork() or fopen() fails: a message and exit(1). *)
Failure(p) ==
  /\ \E name \in {"pipe", "fork", "fopen"} : Calls(p, name)
  /\ contents' = [contents EXCEPT !["stderr"] = Append(@, <<p, "failed">>)]
  /\ code' = [code EXCEPT ![p] = << >>]
  /\ UNCHANGED <<program, tty, status, ends, buffer>>

(* A zombie child is reaped; without children wait() fails at once.        *)
Wait(p) ==
  /\ Calls(p, "wait")
  /\ LET children == IF p = "parent" THEN Head(code[p]).children \ {p} ELSE {}
     IN  \/ \E q \in children :
              /\ status[q] = "zombie"
              /\ status' = [status EXCEPT ![q] = "gone"]
              /\ Return(p)
         \/ /\ \A q \in children : status[q] \notin {"running", "zombie"}
            /\ ReturnError(p)
            /\ UNCHANGED status
  /\ UNCHANGED <<program, tty, ends, buffer, contents>>

(* The new program finds the descriptors but not the memory of the old.    *)
Exec(p) ==
  /\ Calls(p, "exec")
  /\ \/ /\ code' = [code EXCEPT ![p] = Head(@).code]
        /\ buffer' = [buffer EXCEPT ![p] = NothingBuffered]
     \/ ReturnError(p) /\ UNCHANGED buffer
  /\ UNCHANGED <<program, tty, status, ends, contents>>

(* write() to a pipe: whole, when there is room; nobody to read kills.     *)
Write(p) ==
  /\ Calls(p, "write")
  /\ LET f == Head(code[p]).file
         bytes == Head(code[p]).bytes
     IN  \/ /\ Readers(f) # {}
            /\ Len(contents[f]) + Len(bytes) <= PIPE_SIZE
            /\ contents' = [contents EXCEPT ![f] = @ \o bytes]
            /\ Return(p)
            /\ UNCHANGED <<status, ends, buffer>>
         \/ /\ Readers(f) = {}
            /\ Die(p)
            /\ UNCHANGED contents
  /\ UNCHANGED <<program, tty>>

(* read() of up to `size` bytes.  The loop of pipes_io.c prints what it    *)
(* got, a line at a time since nobody else prints, and reads again.        *)
Read(p) ==
  /\ Calls(p, "read") \/ Calls(p, "whileRead")
  /\ LET c == Head(code[p])
         n == IF Len(contents[c.file]) < c.size THEN Len(contents[c.file]) ELSE c.size
         got == SubSeq(contents[c.file], 1, n)
     IN  \/ /\ n > 0
            /\ contents' = [contents EXCEPT ![c.file] = SubSeq(@, n + 1, Len(@))]
            /\ IF c.call = "read"
               THEN Return(p)
               ELSE code' = [code EXCEPT ![p] = [i \in 1 .. n |-> printf(got[i])] \o @]
         \/ /\ n = 0 /\ Writers(c.file) = {}   \* end of file
            /\ Return(p)
            /\ UNCHANGED contents
  /\ UNCHANGED <<program, tty, status, ends, buffer>>

Step(p) ==
  \/ Fprintf(p) \/ Fflush(p) \/ Fclose(p) \/ Exit(p)
  \/ Open(p) \/ Close(p) \/ Fork(p) \/ Failure(p) \/ Wait(p) \/ Exec(p)
  \/ Write(p) \/ Read(p)

Ended == \A p \in Processes : status[p] \in {"none", "gone"}

Terminated == Ended /\ UNCHANGED vars

Next == (\E p \in Processes : Step(p)) \/ Terminated

Spec == Init /\ [][Next]_vars

(* The kernel runs every process that is not blocked. *)
FairSpec == Spec /\ \A p \in Processes : WF_vars(Step(p))

----------------------------------------------------------------------------
(* Properties *)

Ends == {"r", "w"} \X (Streams \cup Pipes)

(* What the programs print and send. *)
Texts ==
  Range(MESSAGE) \cup Range(SIGNAL) \cup
  { "before_fork", "initial", "changed", "finished", "executing", "trying", "wait_failed",
    "exiting", "waiting", "should_appear", "now_closing", "should_not_appear",
    "printf_failed", "created_child", "opened", "inherited", "line", "wrote", "final_check",
    "hello", "goodbye", "listing", "exec_failed", "measuring", "p", "failed" }

SimpleCalls ==
  [call : {"fprintf"}, file : Files, line : Texts]
  \cup [call : {"fflush", "fopen", "fclose"}, file : Streams]
  \cup [call : {"pipe"}, file : Pipes]
  \cup [call : {"write"}, file : Pipes, bytes : Seq(Texts)]
  \cup [call : {"read", "whileRead"}, file : Pipes, size : Nat \ {0}]
  \cup [call : {"close"}, end : Ends]
  \cup [call : {"wait"}, children : SUBSET Processes]

(* Calls that come with the calls of a branch or of a new program ...      *)
PlainCalls == SimpleCalls \cup [call : {"exec", "onError"}, code : Seq(SimpleCalls)]

(* ... or of a child, which itself does not fork. *)
AllCalls ==
  PlainCalls \cup [call : {"fork"}, child : {"child", "reader"}, code : Seq(PlainCalls)]

Lines == Seq(Processes \X Texts)

(* The descriptors that a call is made on.  printf() is not among the      *)
(* calls: close_stdout.c makes it on purpose on one that it has closed.    *)
Needs(c) ==
  CASE c.call = "close"                                   -> {c.end}
    [] c.call \in {"read", "whileRead"}                   -> {<<"r", c.file>>}
    [] c.call \in {"write", "fflush", "fclose"}           -> {<<"w", c.file>>}
    [] c.call = "fprintf" /\ c.file = "dummy.txt"         -> {<<"w", c.file>>}
    [] OTHER                                              -> {}

(* What a process holds has its type, and whichever branches it takes and  *)
(* whatever fails, it comes to no call whose arguments make no sense: what *)
(* it closes, reads, writes or flushes it has open.                        *)
TypeOK ==
  /\ program \in DOMAIN Programs
  /\ tty \in BOOLEAN
  /\ status \in [Processes -> {"none", "running", "zombie", "gone"}]
  /\ code \in [Processes -> Seq(AllCalls)]
  /\ ends \in [Processes -> SUBSET Ends]
  /\ buffer \in [Processes -> [Streams -> Lines]]
  /\ contents \in [Files \cup Pipes -> Lines \cup Seq(Texts)]
  /\ \A f \in Files : contents[f] \in Lines
  /\ \A f \in Pipes : contents[f] \in Seq(Texts)
  /\ \A p \in Processes : code[p] # << >> => Needs(Head(code[p])) \subseteq ends[p]

CallFailed == \E i \in DOMAIN contents["stderr"] : contents["stderr"][i][2] = "failed"

(* Every program ends, whatever its processes do in which order and        *)
(* whichever call fails: no wait(), read() or write() blocks for ever.     *)
Termination == <>[]Ended

Count(f, line) == Cardinality({i \in DOMAIN contents[f] : contents[f][i] = line})

StdoutLines(p, calls) ==
  {<<p, c.line>> : c \in {d \in Range(calls) : d.call = "fprintf" /\ d.file = "stdout"}}

(* The lines that the source of the program prints. *)
SourceLines ==
  StdoutLines("parent", Programs[program])
  \cup UNION {StdoutLines(c.child, c.code) :
                c \in {d \in Range(Programs[program]) : d.call = "fork"}}

Replaced == Count("stdout", <<"child", "listing">>) > 0

Copies(line) ==
  CASE line = <<"child", "should_not_appear">> -> 0
    [] ~tty /\ line = <<"parent", "before_fork">> -> 2
    [] ~tty /\ program = "exec_variants" /\ line[1] = "child" /\ Replaced -> 0
    [] OTHER -> 1

(* Each line of a program is output exactly once, with three exceptions:   *)
(* what close_stdout.c prints after it closed its descriptor never         *)
(* appears; and unless standard output is a terminal, a line left in the   *)
(* buffer at fork() appears twice, and at exec() not at all.  printf()     *)
(* reports the closed descriptor only on a terminal.                       *)
OutputCounts ==
  Ended /\ ~CallFailed =>
    /\ \A line \in SourceLines : Count("stdout", line) = Copies(line)
    /\ Count("stderr", <<"child", "printf_failed">>)
         = IF program = "close_stdout" /\ tty THEN 1 ELSE 0
    /\ Count("stderr", <<"child", "wait_failed">>)
         = IF program = "wait_example" THEN 1 ELSE 0

Before(f, P(_), Q(_)) ==
  \A i, j \in DOMAIN contents[f] : P(contents[f][i]) /\ Q(contents[f][j]) => i < j

(* What follows the wait in the source follows the child in the output:    *)
(* "finished" comes after every line of the child, and the child's line is *)
(* the first in dummy.txt although the parent may write its own first.     *)
(* hello_and_goodbye.c, which does not wait, has its order only on a       *)
(* terminal; every other parent leaves no child behind.                    *)
ChildrenFirst ==
  /\ Before("stdout", LAMBDA a : a[1] = "child", LAMBDA b : b = <<"parent", "finished">>)
  /\ Before("dummy.txt", LAMBDA a : a[1] = "child", LAMBDA b : b[1] = "parent")
  /\ program = "hello_and_goodbye" /\ tty =>
       Before("stdout", LAMBDA a : a[2] = "hello", LAMBDA b : b[2] = "goodbye")
  /\ status["parent"] = "gone" /\ ~CallFailed /\ program # "hello_and_goodbye" => Ended

ReadsLeft(p) == Cardinality({i \in DOMAIN code[p] : code[p][i].call = "read"})

(* The reader of pipes_io.c prints the message in order and ends only with *)
(* the whole of it.  The two processes of os_measurements.c take turns: one*)
(* byte at most is under way, the child is never more than the read it was *)
(* signalled for ahead, and each read() is answered by a write().          *)
PipesInStep ==
  /\ program = "pipes_io" =>
       LET message == [i \in DOMAIN MESSAGE |-> <<"reader", MESSAGE[i]>>]
       IN  /\ IsPrefix(contents["stdout"] \o buffer["reader"]["stdout"], message)
           /\ status["reader"] \in {"zombie", "gone"} => contents["stdout"] = message
  /\ program = "os_measurements" /\ status["child"] # "none" =>
       /\ Len(contents["pipe1"]) + Len(contents["pipe2"]) <= 1
       /\ ReadsLeft("parent") - ReadsLeft("child") \in {0, 1}
=============================================================================
