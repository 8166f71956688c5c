------------------------ MODULE UnixProcessesProofs ------------------------
(***************************************************************************)
(* Theorems about UnixProcesses for every message, signal, buffer, pipe    *)
(* and number of rounds. That calls are made on open descriptors follows   *)
(* from a list, for each program, of the descriptors that are open at      *)
(* least before each of its calls (Fits). For the rest, the calls that a   *)
(* process has yet to make are the end of the list it started with         *)
(* (HasLeft), unless an onError branch or the loop of the reader came      *)
(* first; so what it can do next is known from how many are left. The      *)
(* invariants of pipes_io.c, of hello_and_goodbye.c and of                 *)
(* measure_context_switch() say for each place in one process where the    *)
(* other can be, who holds which end of a pipe and what is in it; for the  *)
(* other programs it is enough to know how many calls their parent has     *)
(* left when it has waited, and what it may have printed or hold by then.  *)
(***************************************************************************)
EXTENDS UnixProcesses, SequenceTheorems, FiniteSetTheorems, FunctionTheorems, TLAPS

(* What has its type, and that nobody who does not run holds anything. *)
Types ==
  /\ program \in DOMAIN Programs
  /\ tty \in BOOLEAN
  /\ status \in [Processes -> {"none", "running", "zombie", "gone"}]
  /\ code \in [Processes -> Seq(AllCalls)]
  /\ ends \in [Processes -> SUBSET Ends]
  /\ buffer \in [Processes -> [Streams -> Lines]]
  /\ contents \in [Files \cup Pipes -> Lines \cup Seq(Texts)]
  /\ \A f \in Files : contents[f] \in Lines
  /\ \A f \in Pipes : contents[f] \in Seq(Texts)
  /\ \A p \in Processes : status[p] # "running" =>
       code[p] = << >> /\ ends[p] = {} /\ buffer[p] = NothingBuffered

----------------------------------------------------------------------------
(* The programs are made of calls *)

LEMMA Parameters ==
  /\ BUFFER \in Nat \ {0} /\ ITERATIONS \in Nat \ {0} /\ PIPE_SIZE \in Nat \ {0}
  /\ MESSAGE \in Seq(Texts) /\ SIGNAL \in Seq(Texts)
  /\ Len(MESSAGE) <= PIPE_SIZE /\ Len(SIGNAL) <= PIPE_SIZE
<1>1. MESSAGE \in Seq(STRING) /\ SIGNAL \in Seq(STRING)
  BY UnixProcessesAssumption
<1>2. MESSAGE \in Seq(Range(MESSAGE)) /\ SIGNAL \in Seq(Range(SIGNAL))
  BY <1>1, SeqOfRange, Zenon
<1>3. MESSAGE \in Seq(Texts) /\ SIGNAL \in Seq(Texts)
  <2>1. Range(MESSAGE) \subseteq Texts /\ Range(SIGNAL) \subseteq Texts
    BY DEF Texts
  <2> QED
    BY <1>2, <2>1, SeqMonotonic
<1> QED
  BY <1>3, UnixProcessesAssumption

LEMMA TextsAre ==
  /\ "before_fork" \in Texts /\ "initial" \in Texts /\ "changed" \in Texts
  /\ "finished" \in Texts /\ "executing" \in Texts /\ "trying" \in Texts
  /\ "wait_failed" \in Texts /\ "exiting" \in Texts /\ "waiting" \in Texts
  /\ "should_appear" \in Texts /\ "now_closing" \in Texts
  /\ "should_not_appear" \in Texts /\ "printf_failed" \in Texts
  /\ "created_child" \in Texts /\ "opened" \in Texts /\ "inherited" \in Texts
  /\ "line" \in Texts /\ "wrote" \in Texts /\ "final_check" \in Texts
  /\ "hello" \in Texts /\ "goodbye" \in Texts /\ "listing" \in Texts
  /\ "exec_failed" \in Texts /\ "measuring" \in Texts /\ "p" \in Texts
  /\ "failed" \in Texts
BY DEF Texts

LEMMA SimpleCallsAre ==
  /\ \A line \in Texts : printf(line) \in SimpleCalls
  /\ \A f \in Files, line \in Texts : fprintf(f, line) \in SimpleCalls
  /\ \A f \in Streams : fflush(f) \in SimpleCalls /\ fopen(f) \in SimpleCalls
                         /\ fclose(f) \in SimpleCalls
  /\ \A f \in Pipes : pipe(f) \in SimpleCalls
  /\ \A f \in Streams \cup Pipes : close_r(f) \in SimpleCalls /\ close_w(f) \in SimpleCalls
  /\ \A f \in Pipes, bytes \in Seq(Texts) : write(f, bytes) \in SimpleCalls
  /\ \A f \in Pipes, size \in Nat \ {0} :
        read(f, size) \in SimpleCalls /\ whileRead(f, size) \in SimpleCalls
  /\ \A children \in SUBSET Processes : waitpid(children) \in SimpleCalls
  /\ wait \in SimpleCalls
BY DEF SimpleCalls, Ends, Files, Streams, Pipes, Processes, printf, fprintf, fflush, fopen,
   fclose, pipe, close_r, close_w, write, read, whileRead, waitpid, wait

LEMMA PlainCallsAre ==
  /\ SimpleCalls \subseteq PlainCalls /\ PlainCalls \subseteq AllCalls
  /\ Seq(SimpleCalls) \subseteq Seq(PlainCalls) /\ Seq(PlainCalls) \subseteq Seq(AllCalls)
<1>1. SimpleCalls \subseteq PlainCalls /\ PlainCalls \subseteq AllCalls
  BY DEF PlainCalls, AllCalls
<1> QED
  BY <1>1, SeqMonotonic

(* A list of calls is a sequence of calls. *)
LEMMA RoundsAre ==
  ASSUME NEW S, NEW body \in Seq(S), Len(body) # 0
  PROVE  /\ Rounds(body) \in Seq(S)
         /\ Len(Rounds(body)) = ITERATIONS * Len(body)
<1>1. ITERATIONS * Len(body) \in Nat
  BY Parameters
<1>2. \A i \in 1 .. ITERATIONS * Len(body) : ((i - 1) % Len(body)) + 1 \in 1 .. Len(body)
  BY <1>1
<1> QED
  BY <1>1, <1>2 DEF Rounds

(* printf() and the other simple calls may stand at every level. *)
LEMMA PrintfIs ==
  \A line \in Texts : /\ printf(line) \in SimpleCalls
                       /\ printf(line) \in PlainCalls /\ printf(line) \in AllCalls
BY SimpleCallsAre, PlainCallsAre

LEMMA SimpleEverywhere ==
  \A c \in SimpleCalls : c \in PlainCalls /\ c \in AllCalls
BY PlainCallsAre

LEMMA NestedCallsAre ==
  /\ \A child \in {"child", "reader"}, s \in Seq(PlainCalls) : fork(child, s) \in AllCalls
  /\ \A child \in {"child", "reader"}, s \in Seq(SimpleCalls) : fork(child, s) \in AllCalls
  /\ \A s \in Seq(SimpleCalls) : execl(s) \in PlainCalls /\ onError(s) \in PlainCalls
<1>1. \A child \in {"child", "reader"}, s \in Seq(PlainCalls) : fork(child, s) \in AllCalls
  BY DEF AllCalls, fork
<1>2. \A s \in Seq(SimpleCalls) : execl(s) \in PlainCalls /\ onError(s) \in PlainCalls
  BY DEF PlainCalls, execl, onError
<1> QED
  BY <1>1, <1>2, PlainCallsAre

LEMMA FilesAre ==
  /\ "stdout" \in Streams /\ "dummy.txt" \in Streams /\ Streams \subseteq Files
  /\ "stdout" \in Files /\ "dummy.txt" \in Files /\ "stderr" \in Files
  /\ "pipe1" \in Pipes /\ "pipe2" \in Pipes
BY DEF Streams, Files, Pipes

(* The children of these programs make simple calls. *)
LEMMA fork_cIs == fork_c \in Seq(AllCalls)
<1> DEFINE child == << printf("initial"), printf("changed") >>
<1>1. child \in Seq(SimpleCalls)
  BY PrintfIs, TextsAre
<1> HIDE DEF child
<1>2. fork("child", child) \in AllCalls /\ wait \in AllCalls
  BY <1>1, NestedCallsAre, SimpleCallsAre, SimpleEverywhere
<1>3. \A line \in {"before_fork", "changed", "finished"} : printf(line) \in AllCalls
  BY PrintfIs, TextsAre
<1>4. << printf("before_fork"), fork("child", child), printf("changed"), wait,
         printf("finished") >> \in Seq(AllCalls)
  BY <1>2, <1>3
<1> QED
  BY <1>4 DEF fork_c, child

LEMMA waitpid_example_cIs == waitpid_example_c \in Seq(AllCalls)
<1> DEFINE child == << printf("executing"), printf("exiting") >>
<1>1. child \in Seq(SimpleCalls)
  BY PrintfIs, TextsAre
<1> HIDE DEF child
<1>2. fork("child", child) \in AllCalls /\ waitpid({"child"}) \in AllCalls
  BY <1>1, NestedCallsAre, SimpleCallsAre, SimpleEverywhere DEF Processes
<1>3. \A line \in {"before_fork", "waiting", "finished"} : printf(line) \in AllCalls
  BY PrintfIs, TextsAre
<1>4. << printf("before_fork"), fork("child", child), printf("waiting"), waitpid({"child"}),
         printf("finished") >> \in Seq(AllCalls)
  BY <1>2, <1>3
<1> QED
  BY <1>4 DEF waitpid_example_c, child

LEMMA open_file_and_fork_cIs == open_file_and_fork_c \in Seq(AllCalls)
<1> DEFINE child == << printf("inherited"), fprintf("dummy.txt", "line"),
                       printf("wrote"), fclose("dummy.txt") >>
<1>1. fprintf("dummy.txt", "line") \in SimpleCalls /\ fclose("dummy.txt") \in SimpleCalls
  BY FilesAre, TextsAre, SimpleCallsAre
<1>2. child \in Seq(SimpleCalls)
  BY <1>1, PrintfIs, TextsAre
<1> HIDE DEF child
<1>3. fork("child", child) \in AllCalls
  BY <1>2, NestedCallsAre
<1>4. /\ fprintf("dummy.txt", "line") \in AllCalls /\ fclose("dummy.txt") \in AllCalls
      /\ fopen("dummy.txt") \in AllCalls /\ fflush("stdout") \in AllCalls /\ wait \in AllCalls
  BY <1>1, FilesAre, SimpleCallsAre, SimpleEverywhere
<1>5. \A line \in {"opened", "wrote", "finished", "final_check"} : printf(line) \in AllCalls
  BY PrintfIs, TextsAre
<1>6. << fopen("dummy.txt"), printf("opened"), fflush("stdout"), fork("child", child),
         fprintf("dummy.txt", "line"), printf("wrote"), wait, printf("finished"),
         fclose("dummy.txt"), printf("final_check") >> \in Seq(AllCalls)
  BY <1>3, <1>4, <1>5
<1> QED
  BY <1>6 DEF open_file_and_fork_c, child

LEMMA hello_and_goodbye_cIs == hello_and_goodbye_c \in Seq(AllCalls)
<1> DEFINE child == << close_r("pipe1"), printf("hello"),
                       write("pipe1", SIGNAL), close_w("pipe1") >>
<1>1. /\ close_r("pipe1") \in SimpleCalls /\ close_w("pipe1") \in SimpleCalls
      /\ write("pipe1", SIGNAL) \in SimpleCalls
  BY FilesAre, Parameters, SimpleCallsAre
<1>2. child \in Seq(SimpleCalls)
  BY <1>1, PrintfIs, TextsAre
<1> HIDE DEF child
<1>3. fork("child", child) \in AllCalls
  BY <1>2, NestedCallsAre
<1>4. /\ close_r("pipe1") \in AllCalls /\ close_w("pipe1") \in AllCalls
      /\ pipe("pipe1") \in AllCalls /\ read("pipe1", 1) \in AllCalls
  BY <1>1, FilesAre, SimpleCallsAre, SimpleEverywhere
<1>5. printf("goodbye") \in AllCalls
  BY PrintfIs, TextsAre
<1>6. << pipe("pipe1"), fork("child", child), close_w("pipe1"), read("pipe1", 1),
         printf("goodbye"), close_r("pipe1") >> \in Seq(AllCalls)
  BY <1>3, <1>4, <1>5
<1> QED
  BY <1>6 DEF hello_and_goodbye_c, child

LEMMA pipes_io_cIs == pipes_io_c \in Seq(AllCalls)
<1> DEFINE writer == << close_r("pipe1"), write("pipe1", MESSAGE), close_w("pipe1") >>
           reader == << close_w("pipe1"), whileRead("pipe1", BUFFER), close_r("pipe1") >>
<1>1. /\ close_r("pipe1") \in SimpleCalls /\ close_w("pipe1") \in SimpleCalls
      /\ write("pipe1", MESSAGE) \in SimpleCalls /\ whileRead("pipe1", BUFFER) \in SimpleCalls
  BY FilesAre, Parameters, SimpleCallsAre
<1>2. writer \in Seq(SimpleCalls) /\ reader \in Seq(SimpleCalls)
  BY <1>1
<1> HIDE DEF writer, reader
<1>3. fork("child", writer) \in AllCalls /\ fork("reader", reader) \in AllCalls
  BY <1>2, NestedCallsAre
<1>4. /\ close_r("pipe1") \in AllCalls /\ close_w("pipe1") \in AllCalls
      /\ pipe("pipe1") \in AllCalls
      /\ waitpid({"child"}) \in AllCalls /\ waitpid({"reader"}) \in AllCalls
  BY <1>1, FilesAre, SimpleCallsAre, SimpleEverywhere DEF Processes
<1>5. << pipe("pipe1"), fork("child", writer), fork("reader", reader), close_r("pipe1"),
         close_w("pipe1"), waitpid({"child"}), waitpid({"reader"}) >> \in Seq(AllCalls)
  BY <1>3, <1>4
<1> QED
  BY <1>5 DEF pipes_io_c, writer, reader

(* The children of these have branches, which are simple calls. *)
LEMMA wait_example_cIs == wait_example_c \in Seq(AllCalls)
<1> DEFINE branch == << fprintf("stderr", "wait_failed") >>
           child == << printf("executing"), printf("trying"), wait, onError(branch),
                       printf("exiting") >>
<1>1. fprintf("stderr", "wait_failed") \in SimpleCalls
  BY FilesAre, TextsAre, SimpleCallsAre
<1>2. branch \in Seq(SimpleCalls)
  BY <1>1
<1> HIDE DEF branch
<1>3. onError(branch) \in PlainCalls /\ wait \in PlainCalls
  BY <1>2, NestedCallsAre, SimpleCallsAre, SimpleEverywhere
<1>4. child \in Seq(PlainCalls)
  BY <1>3, PrintfIs, TextsAre
<1> HIDE DEF child
<1>5. fork("child", child) \in AllCalls /\ wait \in AllCalls
  BY <1>4, NestedCallsAre, SimpleCallsAre, SimpleEverywhere
<1>6. << printf("before_fork"), fork("child", child), printf("waiting"), wait,
         printf("finished") >> \in Seq(AllCalls)
  BY <1>5, PrintfIs, TextsAre
<1> QED
  BY <1>6 DEF wait_example_c, child, branch

LEMMA close_stdout_cIs == close_stdout_c \in Seq(AllCalls)
<1> DEFINE branch == << fprintf("stderr", "printf_failed") >>
           child == << printf("should_appear"), printf("now_closing"), fflush("stdout"),
                       close_w("stdout"), printf("should_not_appear"), onError(branch) >>
<1>1. fprintf("stderr", "printf_failed") \in SimpleCalls
  BY FilesAre, TextsAre, SimpleCallsAre
<1>2. branch \in Seq(SimpleCalls)
  BY <1>1
<1> HIDE DEF branch
<1>3. onError(branch) \in PlainCalls
  BY <1>2, NestedCallsAre
<1>4. fflush("stdout") \in PlainCalls /\ close_w("stdout") \in PlainCalls
  BY FilesAre, SimpleCallsAre, SimpleEverywhere
<1>5. child \in Seq(PlainCalls)
  BY <1>3, <1>4, PrintfIs, TextsAre
<1> HIDE DEF child
<1>6. fork("child", child) \in AllCalls /\ wait \in AllCalls
  BY <1>5, NestedCallsAre, SimpleCallsAre, SimpleEverywhere
<1>7. << fork("child", child), printf("created_child"), wait, printf("finished") >>
        \in Seq(AllCalls)
  BY <1>6, PrintfIs, TextsAre
<1> QED
  BY <1>7 DEF close_stdout_c, child, branch

LEMMA exec_variants_cIs == exec_variants_c \in Seq(AllCalls)
<1> DEFINE branch == << fprintf("stderr", "exec_failed") >>
           listing == << printf("listing") >>
           child == << printf("executing"), execl(listing), onError(branch) >>
<1>1. fprintf("stderr", "exec_failed") \in SimpleCalls /\ printf("listing") \in SimpleCalls
  BY FilesAre, TextsAre, SimpleCallsAre
<1>2. branch \in Seq(SimpleCalls) /\ listing \in Seq(SimpleCalls)
  BY <1>1
<1> HIDE DEF branch, listing
<1>3. onError(branch) \in PlainCalls /\ execl(listing) \in PlainCalls
  BY <1>2, NestedCallsAre
<1>4. child \in Seq(PlainCalls)
  BY <1>3, PrintfIs, TextsAre
<1> HIDE DEF child
<1>5. fork("child", child) \in AllCalls /\ wait \in AllCalls
  BY <1>4, NestedCallsAre, SimpleCallsAre, SimpleEverywhere
<1>6. << fork("child", child), wait, printf("finished") >> \in Seq(AllCalls)
  BY <1>5, PrintfIs, TextsAre
<1> QED
  BY <1>6 DEF exec_variants_c, child, branch, listing

LEMMA MeasurementIs == measure_context_switch \in Seq(AllCalls)
<1> DEFINE answer == << read("pipe1", 1), write("pipe2", <<"p">>) >>
           signal == << write("pipe1", <<"p">>), read("pipe2", 1) >>
           start  == << close_w("pipe1"), close_r("pipe2") >>
           child  == start \o Rounds(answer)
           before == << pipe("pipe1"), pipe("pipe2"), fork("child", child),
                        close_r("pipe1"), close_w("pipe2"), printf("measuring") >>
           after  == << wait, printf("finished") >>
<1>1. <<"p">> \in Seq(Texts)
  BY TextsAre
<1>2. /\ read("pipe1", 1) \in SimpleCalls /\ read("pipe2", 1) \in SimpleCalls
      /\ write("pipe1", <<"p">>) \in SimpleCalls /\ write("pipe2", <<"p">>) \in SimpleCalls
      /\ \A f \in Pipes : close_w(f) \in SimpleCalls /\ close_r(f) \in SimpleCalls
  <2>1. \A bytes \in Seq(Texts) : write("pipe1", bytes) \in SimpleCalls
                                 /\ write("pipe2", bytes) \in SimpleCalls
    BY FilesAre, SimpleCallsAre
  <2>2. read("pipe1", 1) \in SimpleCalls /\ read("pipe2", 1) \in SimpleCalls
    BY FilesAre, SimpleCallsAre
  <2>3. \A f \in Pipes : close_w(f) \in SimpleCalls /\ close_r(f) \in SimpleCalls
    BY SimpleCallsAre
  <2> QED
    BY <1>1, <2>1, <2>2, <2>3
<1>3. answer \in Seq(SimpleCalls) /\ start \in Seq(SimpleCalls) /\ Len(answer) # 0
  BY <1>2, FilesAre
<1>4. signal \in Seq(AllCalls) /\ Len(signal) # 0
  BY <1>2, SimpleEverywhere
<1>5. after \in Seq(AllCalls)
  BY SimpleCallsAre, SimpleEverywhere, PrintfIs, TextsAre
<1> HIDE DEF answer, signal, start, after
<1>6. Rounds(answer) \in Seq(SimpleCalls) /\ Rounds(signal) \in Seq(AllCalls)
  BY <1>3, <1>4, RoundsAre
<1>7. child \in Seq(SimpleCalls)
  BY <1>3, <1>6, ConcatProperties
<1> HIDE DEF child
<1>8. /\ fork("child", child) \in AllCalls /\ printf("measuring") \in AllCalls
      /\ pipe("pipe1") \in AllCalls /\ pipe("pipe2") \in AllCalls
      /\ close_r("pipe1") \in AllCalls /\ close_w("pipe2") \in AllCalls
  BY <1>2, <1>7, NestedCallsAre, SimpleCallsAre, SimpleEverywhere, FilesAre, PrintfIs, TextsAre
<1>9. before \in Seq(AllCalls)
  BY <1>8
<1> HIDE DEF before
<1>10. before \o Rounds(signal) \o after \in Seq(AllCalls)
  BY <1>5, <1>6, <1>9, ConcatProperties
<1>11. measure_context_switch = before \o Rounds(signal) \o after
  BY DEF measure_context_switch, before, signal, after, start, answer, child
<1> QED
  BY <1>10, <1>11

LEMMA ProgramsAre == \A name \in DOMAIN Programs : Programs[name] \in Seq(AllCalls)
BY fork_cIs, wait_example_cIs, waitpid_example_cIs, close_stdout_cIs, open_file_and_fork_cIs,
   hello_and_goodbye_cIs, pipes_io_cIs, exec_variants_cIs, MeasurementIs DEF Programs

----------------------------------------------------------------------------
(* Types *)

(* What each call is applied to. *)
LEMMA CallsAre ==
  ASSUME NEW c \in AllCalls
  PROVE  /\ c.call = "fprintf" => c.file \in Files /\ c.line \in Texts
         /\ c.call \in {"fflush", "fopen", "fclose"} => c.file \in Streams
         /\ c.call = "pipe" => c.file \in Pipes
         /\ c.call = "write" => c.file \in Pipes /\ c.bytes \in Seq(Texts)
         /\ c.call \in {"read", "whileRead"} => c.file \in Pipes /\ c.size \in Nat \ {0}
         /\ c.call = "close" => c.end \in Ends
         /\ c.call = "wait" => c.children \in SUBSET Processes
         /\ c.call = "fork" => c.child \in {"child", "reader"} /\ c.code \in Seq(AllCalls)
         /\ c.call \in {"exec", "onError"} => c.code \in Seq(AllCalls)
<1>1. \/ c \in SimpleCalls
      \/ c \in [call : {"exec", "onError"}, code : Seq(SimpleCalls)]
      \/ c \in [call : {"fork"}, child : {"child", "reader"}, code : Seq(PlainCalls)]
  BY DEF AllCalls, PlainCalls
<1>2. CASE c \in SimpleCalls
  BY <1>2 DEF SimpleCalls
<1>3. CASE c \notin SimpleCalls
  <2>1. Seq(SimpleCalls) \subseteq Seq(AllCalls) /\ Seq(PlainCalls) \subseteq Seq(AllCalls)
    BY PlainCallsAre
  <2> QED
    BY <1>1, <1>3, <2>1
<1> QED
  BY <1>2, <1>3

LEMMA ContinuationIs ==
  ASSUME Types, NEW p \in Processes, code[p] # << >>, NEW error \in BOOLEAN
  PROVE  Continuation(p, error) \in Seq(AllCalls)
<1> DEFINE rest == Tail(code[p])
<1>1. rest \in Seq(AllCalls)
  BY DEF Types
<1>2. ASSUME rest # << >>, Head(rest).call = "onError"
      PROVE  Head(rest).code \o Tail(rest) \in Seq(AllCalls) /\ Tail(rest) \in Seq(AllCalls)
  <2> HIDE DEF rest
  <2>1. Head(rest) \in AllCalls /\ Tail(rest) \in Seq(AllCalls)
    BY <1>1, <1>2, HeadTailProperties
  <2>2. Head(rest).code \in Seq(AllCalls)
    BY <1>2, <2>1, CallsAre
  <2> QED
    BY <2>1, <2>2, ConcatProperties
<1> QED
  BY <1>1, <1>2 DEF Continuation

LEMMA ReturnTypes ==
  ASSUME Types, NEW p \in Processes, code[p] # << >>, Return(p) \/ ReturnError(p)
  PROVE  /\ code' \in [Processes -> Seq(AllCalls)]
         /\ \A q \in Processes \ {p} : code'[q] = code[q]
<1>1. Continuation(p, TRUE) \in Seq(AllCalls) /\ Continuation(p, FALSE) \in Seq(AllCalls)
  BY ContinuationIs
<1>2. code \in [Processes -> Seq(AllCalls)]
  BY DEF Types
<1> QED
  BY <1>1, <1>2 DEF Return, ReturnError

LEMMA FlushedIs ==
  ASSUME Types, NEW p \in Processes, NEW S \in SUBSET Streams
  PROVE  /\ DOMAIN Flushed(p, S) = Files \cup Pipes
         /\ Flushed(p, S) \in [Files \cup Pipes -> Lines \cup Seq(Texts)]
         /\ \A f \in Files : Flushed(p, S)[f] \in Lines
         /\ \A f \in (Files \cup Pipes) \ S : Flushed(p, S)[f] = contents[f]
         /\ \A f \in S : Flushed(p, S)[f] =
                IF HasOpen(p, f) THEN contents[f] \o buffer[p][f] ELSE contents[f]
<1>1. DOMAIN contents = Files \cup Pipes /\ Streams \subseteq Files
  BY DEF Types, Files
<1>2. \A f \in S : contents[f] \o buffer[p][f] \in Lines
  <2>1. \A f \in Streams : contents[f] \in Lines /\ buffer[p][f] \in Lines
    BY <1>1 DEF Types
  <2> QED
    BY <2>1, ConcatProperties DEF Lines
<1> HIDE DEF Lines
<1>3. \A f \in Files \cup Pipes : Flushed(p, S)[f] \in Lines \cup Seq(Texts)
  BY <1>1, <1>2 DEF Flushed, Types
<1>4. \A f \in Files : Flushed(p, S)[f] \in Lines
  BY <1>1, <1>2 DEF Flushed, Types
<1> QED
  BY <1>1, <1>3, <1>4 DEF Flushed

Statuses == {"none", "running", "zombie", "gone"}

LEMMA DieTypes ==
  ASSUME Types, NEW p \in Processes, status[p] = "running", Die(p),
         contents' \in [Files \cup Pipes -> Lines \cup Seq(Texts)],
         \A f \in Files : contents'[f] \in Lines,
         \A f \in Pipes : contents'[f] \in Seq(Texts),
         UNCHANGED <<program, tty>>
  PROVE  Types'
<1>1. << >> \in Seq(AllCalls) /\ NothingBuffered \in [Streams -> Lines]
  BY DEF NothingBuffered, Lines
<1>2. /\ code' \in [Processes -> Seq(AllCalls)]
      /\ buffer' \in [Processes -> [Streams -> Lines]]
      /\ ends' \in [Processes -> SUBSET Ends]
  BY <1>1 DEF Die, Types
<1>3. status' \in [Processes -> Statuses]
  BY DEF Die, Types, Statuses
<1>4. \A q \in Processes : status'[q] # "running" =>
         code'[q] = << >> /\ ends'[q] = {} /\ buffer'[q] = NothingBuffered
  BY DEF Die, Types
<1> QED
  BY <1>2, <1>3, <1>4 DEF Types, Statuses

(* A call that leaves the statuses alone. *)
LEMMA CallTypes ==
  ASSUME Types, NEW p \in Processes, status[p] = "running",
         code' \in [Processes -> Seq(AllCalls)],
         \A q \in Processes \ {p} : code'[q] = code[q] /\ ends'[q] = ends[q]
                                                    /\ buffer'[q] = buffer[q],
         ends' \in [Processes -> SUBSET Ends],
         buffer' \in [Processes -> [Streams -> Lines]],
         contents' \in [Files \cup Pipes -> Lines \cup Seq(Texts)],
         \A f \in Files : contents'[f] \in Lines,
         \A f \in Pipes : contents'[f] \in Seq(Texts),
         UNCHANGED <<program, tty, status>>
  PROVE  Types'
BY DEF Types

LEMMA FprintfTypes ==
  ASSUME Types, NEW p \in Processes, Fprintf(p)
  PROVE  Types'
<1> DEFINE f == Head(code[p]).file
           line == <<p, Head(code[p]).line>>
<1>1. status[p] = "running" /\ code[p] # << >> /\ Head(code[p]).call = "fprintf"
  BY DEF Fprintf, Calls
<1>2. Head(code[p]) \in AllCalls
  BY <1>1 DEF Types
<1>3. f \in Files /\ line \in Processes \X Texts
  BY <1>1, <1>2, CallsAre
<1>4. /\ Return(p) \/ ReturnError(p)
      /\ UNCHANGED <<program, tty, status, ends>>
      /\ \/ Buffered(f) /\ buffer' = [buffer EXCEPT ![p][f] = Append(@, line)] /\ UNCHANGED contents
         \/ contents' = [contents EXCEPT ![f] = Append(@, line)] /\ UNCHANGED buffer
         \/ UNCHANGED <<contents, buffer>>
  BY DEF Fprintf
<1> HIDE DEF f, line
<1>5. /\ code' \in [Processes -> Seq(AllCalls)]
      /\ \A q \in Processes \ {p} : code'[q] = code[q]
  BY <1>1, <1>4, ReturnTypes
<1>6. /\ \A g \in Files \cap Streams : Append(buffer[p][g], line) \in Lines
      /\ \A g \in Files : Append(contents[g], line) \in Lines
  BY <1>3, AppendProperties DEF Types, Lines
<1>7. /\ buffer' \in [Processes -> [Streams -> Lines]]
      /\ \A q \in Processes \ {p} : buffer'[q] = buffer[q]
  <2>1. buffer \in [Processes -> [Streams -> Lines]]
    BY DEF Types
  <2>2. CASE Buffered(f) /\ buffer' = [buffer EXCEPT ![p][f] = Append(@, line)]
    <3>1. f \in Streams /\ f \in Files \cap Streams
      BY <1>3, <2>2 DEF Buffered, Files
    <3>2. Append(buffer[p][f], line) \in Lines
      BY <1>6, <3>1
    <3> QED
      BY <2>1, <2>2, <3>1, <3>2
  <2>3. CASE UNCHANGED buffer
    BY <2>1, <2>3
  <2> QED
    BY <1>4, <2>2, <2>3
<1>8. /\ contents' \in [Files \cup Pipes -> Lines \cup Seq(Texts)]
      /\ \A g \in Files : contents'[g] \in Lines
      /\ \A g \in Pipes : contents'[g] \in Seq(Texts)
  <2>1. /\ contents \in [Files \cup Pipes -> Lines \cup Seq(Texts)]
        /\ \A g \in Files : contents[g] \in Lines
        /\ \A g \in Pipes : contents[g] \in Seq(Texts)
    BY DEF Types
  <2>2. CASE contents' = [contents EXCEPT ![f] = Append(@, line)]
    <3>1. Append(contents[f], line) \in Lines /\ f \notin Pipes
      BY <1>3, <1>6 DEF Files, Streams, Pipes
    <3> QED
      BY <1>3, <2>1, <2>2, <3>1
  <2>3. CASE UNCHANGED contents
    BY <2>1, <2>3
  <2> QED
    BY <1>4, <2>2, <2>3
<1>9. ends' \in [Processes -> SUBSET Ends] /\ ends' = ends
  BY <1>4 DEF Types
<1> QED
  BY <1>1, <1>4, <1>5, <1>7, <1>8, <1>9, CallTypes

LEMMA FlushTypes ==
  ASSUME Types, NEW p \in Processes, Fflush(p) \/ Fclose(p)
  PROVE  Types'
<1> DEFINE f == Head(code[p]).file
<1>1. /\ status[p] = "running" /\ code[p] # << >> /\ Return(p)
      /\ Head(code[p]).call \in {"fflush", "fclose"}
      /\ contents' = Flushed(p, {f})
      /\ buffer' = [buffer EXCEPT ![p][f] = << >>]
      /\ ends' = ends \/ ends' = [ends EXCEPT ![p] = @ \ {<<"w", f>>}]
      /\ UNCHANGED <<program, tty, status>>
  BY DEF Fflush, Fclose, Calls
<1>2. Head(code[p]) \in AllCalls
  BY <1>1 DEF Types
<1>3. f \in Streams
  BY <1>1, <1>2, CallsAre
<1> HIDE DEF f
<1>4. /\ code' \in [Processes -> Seq(AllCalls)]
      /\ \A q \in Processes \ {p} : code'[q] = code[q]
  BY <1>1, ReturnTypes
<1>5. /\ buffer' \in [Processes -> [Streams -> Lines]]
      /\ \A q \in Processes \ {p} : buffer'[q] = buffer[q]
  <2>1. << >> \in Lines
    BY DEF Lines
  <2> QED
    BY <1>1, <1>3, <2>1 DEF Types
<1>6. ends' \in [Processes -> SUBSET Ends] /\ \A q \in Processes \ {p} : ends'[q] = ends[q]
  BY <1>1 DEF Types
<1>7. /\ contents' \in [Files \cup Pipes -> Lines \cup Seq(Texts)]
      /\ \A g \in Files : contents'[g] \in Lines
      /\ \A g \in Pipes : contents'[g] = contents[g]
  <2>1. {f} \in SUBSET Streams /\ \A g \in Pipes : g \notin {f}
    BY <1>3 DEF Pipes, Streams
  <2> QED
    BY <1>1, <2>1, FlushedIs
<1>8. \A g \in Pipes : contents'[g] \in Seq(Texts)
  BY <1>7 DEF Types
<1> QED
  BY <1>1, <1>4, <1>5, <1>6, <1>7, <1>8, CallTypes

LEMMA ExitTypes ==
  ASSUME Types, NEW p \in Processes, Exit(p)
  PROVE  Types'
<1>1. status[p] = "running" /\ Die(p) /\ contents' = Flushed(p, Streams)
      /\ UNCHANGED <<program, tty>>
  BY DEF Exit
<1>2. /\ contents' \in [Files \cup Pipes -> Lines \cup Seq(Texts)]
      /\ \A g \in Files : contents'[g] \in Lines
      /\ \A g \in Pipes : contents'[g] = contents[g]
  <2>1. \A g \in Pipes : g \notin Streams
    BY DEF Pipes, Streams
  <2> QED
    BY <1>1, <2>1, FlushedIs
<1>3. \A g \in Pipes : contents'[g] \in Seq(Texts)
  BY <1>2 DEF Types
<1> QED
  BY <1>1, <1>2, <1>3, DieTypes

LEMMA DescriptorTypes ==
  ASSUME Types, NEW p \in Processes, Open(p) \/ Close(p)
  PROVE  Types'
<1> DEFINE c == Head(code[p])
<1>1. /\ status[p] = "running" /\ code[p] # << >> /\ Return(p)
      /\ UNCHANGED <<program, tty, status, buffer, contents>>
      /\ \/ /\ c.call \in {"pipe", "fopen"}
            /\ \/ ends' = [ends EXCEPT ![p] = @ \cup {<<"r", c.file>>, <<"w", c.file>>}]
               \/ ends' = [ends EXCEPT ![p] = @ \cup {<<"w", c.file>>}]
         \/ c.call = "close" /\ ends' = [ends EXCEPT ![p] = @ \ {c.end}]
  BY DEF Open, Close, Calls
<1>2. c \in AllCalls
  BY <1>1 DEF Types
<1> HIDE DEF c
<1>3. c.call \in {"pipe", "fopen"} => <<"r", c.file>> \in Ends /\ <<"w", c.file>> \in Ends
  BY <1>2, CallsAre DEF Ends
<1>4. /\ code' \in [Processes -> Seq(AllCalls)]
      /\ \A q \in Processes \ {p} : code'[q] = code[q]
  BY <1>1, ReturnTypes
<1>5. ends' \in [Processes -> SUBSET Ends] /\ \A q \in Processes \ {p} : ends'[q] = ends[q]
  <2>1. ends \in [Processes -> SUBSET Ends]
    BY DEF Types
  <2>2. CASE c.call \in {"pipe", "fopen"}
               /\ ends' = [ends EXCEPT ![p] = @ \cup {<<"r", c.file>>, <<"w", c.file>>}]
    <3>1. ends[p] \cup {<<"r", c.file>>, <<"w", c.file>>} \in SUBSET Ends
      BY <1>3, <2>1, <2>2
    <3> QED
      BY <2>1, <2>2, <3>1
  <2>3. CASE c.call \in {"pipe", "fopen"} /\ ends' = [ends EXCEPT ![p] = @ \cup {<<"w", c.file>>}]
    <3>1. ends[p] \cup {<<"w", c.file>>} \in SUBSET Ends
      BY <1>3, <2>1, <2>3
    <3> QED
      BY <2>1, <2>3, <3>1
  <2>4. CASE ends' = [ends EXCEPT ![p] = @ \ {c.end}]
    BY <2>1, <2>4
  <2> QED
    BY <1>1, <2>2, <2>3, <2>4
<1>6. /\ buffer' \in [Processes -> [Streams -> Lines]]
      /\ contents' \in [Files \cup Pipes -> Lines \cup Seq(Texts)]
      /\ \A f \in Files : contents'[f] \in Lines
      /\ \A f \in Pipes : contents'[f] \in Seq(Texts)
  BY <1>1 DEF Types
<1> QED
  BY <1>1, <1>4, <1>5, <1>6, CallTypes

LEMMA ForkTypes ==
  ASSUME Types, NEW p \in Processes, Fork(p)
  PROVE  Types'
<1> DEFINE child == Head(code[p]).child
           calls == Head(code[p]).code
           rest == Continuation(p, FALSE)
<1>1. /\ status[p] = "running" /\ code[p] # << >> /\ Head(code[p]).call = "fork"
      /\ status' = [status EXCEPT ![child] = "running"]
      /\ code' = [code EXCEPT ![p] = rest, ![child] = calls]
      /\ ends' = [ends EXCEPT ![child] = ends[p]]
      /\ buffer' = [buffer EXCEPT ![child] = buffer[p]]
      /\ UNCHANGED <<program, tty, contents>>
  BY DEF Fork, Calls
<1>2. Head(code[p]) \in AllCalls
  BY <1>1 DEF Types
<1>3. child \in Processes /\ calls \in Seq(AllCalls)
  BY <1>1, <1>2, CallsAre DEF Processes
<1>4. rest \in Seq(AllCalls)
  BY <1>1, ContinuationIs
<1> HIDE DEF child, calls, rest
<1>5. /\ code' \in [Processes -> Seq(AllCalls)]
      /\ \A q \in Processes \ {p, child} : code'[q] = code[q]
  BY <1>1, <1>3, <1>4 DEF Types
<1>6. /\ status' \in [Processes -> Statuses] /\ ends' \in [Processes -> SUBSET Ends]
      /\ status'[child] = "running" /\ status'[p] = "running"
      /\ \A q \in Processes \ {child} : status'[q] = status[q] /\ ends'[q] = ends[q]
  BY <1>1, <1>3 DEF Types, Statuses
<1>7. /\ buffer' \in [Processes -> [Streams -> Lines]]
      /\ \A q \in Processes \ {child} : buffer'[q] = buffer[q]
  BY <1>1, <1>3 DEF Types
<1>8. \A q \in Processes : status'[q] # "running" =>
         code'[q] = << >> /\ ends'[q] = {} /\ buffer'[q] = NothingBuffered
  BY <1>1, <1>5, <1>6, <1>7 DEF Types
<1> QED
  BY <1>1, <1>5, <1>6, <1>7, <1>8 DEF Types, Statuses

LEMMA FailureTypes ==
  ASSUME Types, NEW p \in Processes, Failure(p)
  PROVE  Types'
<1>1. /\ status[p] = "running"
      /\ contents' = [contents EXCEPT !["stderr"] = Append(@, <<p, "failed">>)]
      /\ code' = [code EXCEPT ![p] = << >>]
      /\ UNCHANGED <<program, tty, status, ends, buffer>>
  BY DEF Failure, Calls
<1>2. /\ code' \in [Processes -> Seq(AllCalls)]
      /\ \A q \in Processes \ {p} : code'[q] = code[q]
  <2>1. << >> \in Seq(AllCalls)
    OBVIOUS
  <2> QED
    BY <1>1, <2>1 DEF Types
<1>3. Append(contents["stderr"], <<p, "failed">>) \in Lines
  <2>1. <<p, "failed">> \in Processes \X Texts /\ contents["stderr"] \in Seq(Processes \X Texts)
    BY TextsAre, FilesAre DEF Types, Lines
  <2> QED
    BY <2>1, AppendProperties DEF Lines
<1>4. /\ contents' \in [Files \cup Pipes -> Lines \cup Seq(Texts)]
      /\ \A f \in Files : contents'[f] \in Lines
      /\ \A f \in Pipes : contents'[f] \in Seq(Texts)
  <2>1. "stderr" \in Files /\ "stderr" \notin Pipes
    BY DEF Files, Pipes
  <2> QED
    BY <1>1, <1>3, <2>1 DEF Types
<1>5. ends' \in [Processes -> SUBSET Ends] /\ buffer' \in [Processes -> [Streams -> Lines]]
  BY <1>1 DEF Types
<1> QED
  BY <1>1, <1>2, <1>4, <1>5, CallTypes

LEMMA WaitTypes ==
  ASSUME Types, NEW p \in Processes, Wait(p)
  PROVE  Types'
<1>1. /\ status[p] = "running" /\ code[p] # << >> /\ Head(code[p]).call = "wait"
      /\ Return(p) \/ ReturnError(p)
      /\ UNCHANGED <<program, tty, ends, buffer, contents>>
  BY DEF Wait, Calls
<1>2. Head(code[p]) \in AllCalls
  BY <1>1 DEF Types
<1>3. Head(code[p]).children \in SUBSET Processes
  BY <1>1, <1>2, CallsAre
<1>4. \/ UNCHANGED status
      \/ \E q \in Processes : status[q] = "zombie" /\ status' = [status EXCEPT ![q] = "gone"]
  BY <1>3 DEF Wait
<1>5. /\ code' \in [Processes -> Seq(AllCalls)]
      /\ \A q \in Processes \ {p} : code'[q] = code[q]
  BY <1>1, ReturnTypes
<1>6. /\ status' \in [Processes -> Statuses]
      /\ \A q \in Processes : status'[q] = "running" <=> status[q] = "running"
  BY <1>4 DEF Types, Statuses
<1>7. \A q \in Processes : status'[q] # "running" =>
         code'[q] = << >> /\ ends'[q] = {} /\ buffer'[q] = NothingBuffered
  BY <1>1, <1>5, <1>6 DEF Types
<1> QED
  BY <1>1, <1>5, <1>6, <1>7 DEF Types, Statuses

LEMMA ExecTypes ==
  ASSUME Types, NEW p \in Processes, Exec(p)
  PROVE  Types'
<1>1. /\ status[p] = "running" /\ code[p] # << >> /\ Head(code[p]).call = "exec"
      /\ \/ /\ code' = [code EXCEPT ![p] = Head(code[p]).code]
            /\ buffer' = [buffer EXCEPT ![p] = NothingBuffered]
         \/ ReturnError(p) /\ UNCHANGED buffer
      /\ UNCHANGED <<program, tty, status, ends, contents>>
  BY DEF Exec, Calls, Types
<1>2. Head(code[p]) \in AllCalls
  BY <1>1 DEF Types
<1>3. Head(code[p]).code \in Seq(AllCalls)
  BY <1>1, <1>2, CallsAre
<1>4. /\ code' \in [Processes -> Seq(AllCalls)]
      /\ \A q \in Processes \ {p} : code'[q] = code[q]
  <2>1. CASE code' = [code EXCEPT ![p] = Head(code[p]).code]
    BY <1>3, <2>1 DEF Types
  <2>2. CASE ReturnError(p)
    BY <1>1, <2>2, ReturnTypes
  <2> QED
    BY <1>1, <2>1, <2>2
<1>5. /\ buffer' \in [Processes -> [Streams -> Lines]]
      /\ \A q \in Processes \ {p} : buffer'[q] = buffer[q]
  <2>1. NothingBuffered \in [Streams -> Lines]
    BY DEF NothingBuffered, Lines
  <2> QED
    BY <1>1, <2>1 DEF Types
<1>6. /\ ends' \in [Processes -> SUBSET Ends]
      /\ contents' \in [Files \cup Pipes -> Lines \cup Seq(Texts)]
      /\ \A f \in Files : contents'[f] \in Lines
      /\ \A f \in Pipes : contents'[f] \in Seq(Texts)
  BY <1>1 DEF Types
<1> QED
  BY <1>1, <1>4, <1>5, <1>6, CallTypes

(* Writing to a pipe or reading from it. *)
LEMMA PipeIs ==
  ASSUME Types, NEW f \in Pipes, NEW bytes \in Seq(Texts),
         contents' = [contents EXCEPT ![f] = bytes]
  PROVE  /\ contents' \in [Files \cup Pipes -> Lines \cup Seq(Texts)]
         /\ \A g \in Files : contents'[g] \in Lines
         /\ \A g \in Pipes : contents'[g] \in Seq(Texts)
<1>1. f \notin Files
  BY DEF Files, Streams, Pipes
<1> QED
  BY <1>1 DEF Types

LEMMA WriteTypes ==
  ASSUME Types, NEW p \in Processes, Write(p)
  PROVE  Types'
<1> DEFINE f == Head(code[p]).file
           bytes == Head(code[p]).bytes
<1>1. status[p] = "running" /\ code[p] # << >> /\ Head(code[p]).call = "write"
  BY DEF Write, Calls
<1>2. Head(code[p]) \in AllCalls
  BY <1>1 DEF Types
<1>3. f \in Pipes /\ bytes \in Seq(Texts)
  BY <1>1, <1>2, CallsAre
<1>4. /\ UNCHANGED <<program, tty>>
      /\ \/ Die(p) /\ UNCHANGED contents
         \/ /\ contents' = [contents EXCEPT ![f] = contents[f] \o bytes]
            /\ Return(p)
            /\ UNCHANGED <<status, ends, buffer>>
  BY <1>3 DEF Write, Types
<1> HIDE DEF f, bytes
<1>5. CASE Die(p) /\ UNCHANGED contents
  <2>1. /\ contents' \in [Files \cup Pipes -> Lines \cup Seq(Texts)]
        /\ \A g \in Files : contents'[g] \in Lines
        /\ \A g \in Pipes : contents'[g] \in Seq(Texts)
    BY <1>5 DEF Types
  <2> QED
    BY <1>1, <1>4, <1>5, <2>1, DieTypes
<1>6. CASE Return(p) /\ contents' = [contents EXCEPT ![f] = contents[f] \o bytes]
           /\ UNCHANGED <<status, ends, buffer>>
  <2>1. contents[f] \o bytes \in Seq(Texts)
    BY <1>3, ConcatProperties DEF Types
  <2>2. /\ contents' \in [Files \cup Pipes -> Lines \cup Seq(Texts)]
        /\ \A g \in Files : contents'[g] \in Lines
        /\ \A g \in Pipes : contents'[g] \in Seq(Texts)
    BY <1>3, <1>6, <2>1, PipeIs
  <2>3. /\ code' \in [Processes -> Seq(AllCalls)]
        /\ \A q \in Processes \ {p} : code'[q] = code[q]
    BY <1>1, <1>6, ReturnTypes
  <2>4. ends' \in [Processes -> SUBSET Ends] /\ buffer' \in [Processes -> [Streams -> Lines]]
    BY <1>6 DEF Types
  <2> QED
    BY <1>1, <1>4, <1>6, <2>2, <2>3, <2>4, CallTypes
<1> QED
  BY <1>4, <1>5, <1>6

LEMMA ReadTypes ==
  ASSUME Types, NEW p \in Processes, Read(p)
  PROVE  Types'
<1> DEFINE c == Head(code[p])
           held == contents[c.file]
           n == IF Len(held) < c.size THEN Len(held) ELSE c.size
           got == SubSeq(held, 1, n)
           lines == [i \in 1 .. n |-> printf(got[i])]
<1>1. status[p] = "running" /\ code[p] # << >> /\ c.call \in {"read", "whileRead"}
  BY DEF Read, Calls
<1>2. c \in AllCalls
  BY <1>1 DEF Types
<1>3. c.file \in Pipes /\ c.size \in Nat \ {0}
  BY <1>1, <1>2, CallsAre
<1>4. held \in Seq(Texts) /\ n \in 0 .. Len(held)
  BY <1>3 DEF Types
<1>5. /\ UNCHANGED <<program, tty, status, ends, buffer>>
      /\ \/ /\ contents' = [contents EXCEPT ![c.file] = SubSeq(held, n + 1, Len(held))]
            /\ Return(p) \/ code' = [code EXCEPT ![p] = lines \o code[p]]
         \/ Return(p) /\ UNCHANGED contents
  BY <1>3 DEF Read, Types
<1> HIDE DEF c
<1>6. lines \in Seq(AllCalls)
  <2>1. \A i \in 1 .. n : held[i] \in Texts
    BY <1>4
  <2>2. \A i \in 1 .. n : got[i] \in Texts
    BY <1>4, <2>1
  <2>3. \A i \in 1 .. n : printf(got[i]) \in AllCalls
    BY <2>2, PrintfIs
  <2> HIDE DEF got
  <2> QED
    BY <1>4, <2>3
<1>7. SubSeq(held, n + 1, Len(held)) \in Seq(Texts)
  BY <1>4
<1> HIDE DEF held, n, got, lines
<1>8. /\ code' \in [Processes -> Seq(AllCalls)]
      /\ \A q \in Processes \ {p} : code'[q] = code[q]
  <2>1. CASE Return(p)
    BY <1>1, <2>1, ReturnTypes
  <2>2. CASE code' = [code EXCEPT ![p] = lines \o code[p]]
    <3>1. code \in [Processes -> Seq(AllCalls)]
      BY DEF Types
    <3>2. lines \o code[p] \in Seq(AllCalls)
      BY <1>6, <3>1, ConcatProperties
    <3> QED
      BY <2>2, <3>1, <3>2
  <2> QED
    BY <1>5, <2>1, <2>2
<1>9. /\ contents' \in [Files \cup Pipes -> Lines \cup Seq(Texts)]
      /\ \A g \in Files : contents'[g] \in Lines
      /\ \A g \in Pipes : contents'[g] \in Seq(Texts)
  <2>1. CASE contents' = [contents EXCEPT ![c.file] = SubSeq(held, n + 1, Len(held))]
    BY <1>3, <1>7, <2>1, PipeIs
  <2>2. CASE UNCHANGED contents
    BY <2>2 DEF Types
  <2> QED
    BY <1>5, <2>1, <2>2
<1>10. ends' \in [Processes -> SUBSET Ends] /\ buffer' \in [Processes -> [Streams -> Lines]]
  BY <1>5 DEF Types
<1> QED
  BY <1>1, <1>5, <1>8, <1>9, <1>10, CallTypes

LEMMA InitTypes == Init => Types
<1> SUFFICES ASSUME Init PROVE Types
  OBVIOUS
<1>1. code \in [Processes -> Seq(AllCalls)]
  <2>1. Programs[program] \in Seq(AllCalls) /\ << >> \in Seq(AllCalls)
    BY ProgramsAre DEF Init
  <2> QED
    BY <2>1 DEF Init
<1>2. NothingBuffered \in [Streams -> Lines] /\ << >> \in Lines /\ << >> \in Seq(Texts)
  BY DEF NothingBuffered, Lines
<1>3. ends \in [Processes -> SUBSET Ends]
  <2>1. <<"w", "stdout">> \in Ends
    BY DEF Ends, Streams
  <2> QED
    BY <2>1 DEF Init
<1>4. \A p \in Processes : status[p] # "running" =>
         code[p] = << >> /\ ends[p] = {} /\ buffer[p] = NothingBuffered
  BY DEF Init
<1> HIDE DEF Init
<1>5. /\ program \in DOMAIN Programs /\ tty \in BOOLEAN
      /\ status \in [Processes -> {"none", "running", "zombie", "gone"}]
      /\ buffer \in [Processes -> [Streams -> Lines]]
      /\ contents \in [Files \cup Pipes -> Lines \cup Seq(Texts)]
      /\ \A f \in Files : contents[f] \in Lines
      /\ \A f \in Pipes : contents[f] \in Seq(Texts)
  BY <1>2 DEF Init
<1> QED
  BY <1>1, <1>3, <1>4, <1>5 DEF Types

LEMMA NextTypes == Types /\ [Next]_vars => Types'
<1> SUFFICES ASSUME Types, [Next]_vars PROVE Types'
  OBVIOUS
<1>1. ASSUME NEW p \in Processes, Step(p) PROVE Types'
  BY <1>1, FprintfTypes, FlushTypes, ExitTypes, DescriptorTypes, ForkTypes, FailureTypes,
     WaitTypes, ExecTypes, WriteTypes, ReadTypes DEF Step
<1>2. CASE UNCHANGED vars
  BY <1>2 DEF vars, Types
<1> QED
  BY <1>1, <1>2 DEF Next, Terminated

----------------------------------------------------------------------------
(* Open descriptors *)

(* What a call does to the descriptors of the process that makes it. *)
Opens(c) ==
  CASE c.call = "pipe"  -> {<<"r", c.file>>, <<"w", c.file>>}
    [] c.call = "fopen" -> {<<"w", c.file>>}
    [] OTHER            -> {}

Closes(c) ==
  CASE c.call = "close"  -> {c.end}
    [] c.call = "fclose" -> {<<"w", c.file>>}
    [] OTHER             -> {}

After(E, c) == (E \cup Opens(c)) \ Closes(c)

(* Calls that need no descriptor: branches and new programs have no other. *)
PrintsOnly(calls) ==
  \A i \in 1 .. Len(calls) : calls[i].call = "fprintf" /\ calls[i].file # "dummy.txt"

(* A call that can be made with the descriptors E. *)
Suits(c, E) ==
  /\ Needs(c) \subseteq E
  /\ c.call \in {"exec", "onError"} => PrintsOnly(c.code)

(* Sets of descriptors that are open at least, before each call of a list  *)
(* and behind the last.                                                    *)
Held(calls) == [1 .. Len(calls) + 1 -> SUBSET Ends]

Walk(calls, H) ==
  \A i \in 1 .. Len(calls) : Suits(calls[i], H[i]) /\ H[i + 1] \subseteq After(H[i], calls[i])

(* A list that can be gone through with the descriptors E, without and     *)
(* with the children forked on the way.                                    *)
ChildFits(calls, E) ==
  \E H \in Held(calls) : H[1] \subseteq E /\ Walk(calls, H)

Fits(calls, E) ==
  \E H \in Held(calls) :
    /\ H[1] \subseteq E /\ Walk(calls, H)
    /\ \A i \in 1 .. Len(calls) : calls[i].call = "fork" => ChildFits(calls[i].code, H[i])

LEMMA MoreFits ==
  ASSUME NEW calls, NEW D, NEW E, D \subseteq E, ChildFits(calls, D)
  PROVE  ChildFits(calls, E)
BY DEF ChildFits

LEMMA NothingFits == ASSUME NEW E PROVE Fits(<< >>, E)
<1> DEFINE H == [i \in 1 .. 1 |-> {}]
<1>1. Len(<< >>) = 0
  OBVIOUS
<1>2. H \in Held(<< >>) /\ H[1] = {}
  BY <1>1 DEF Held
<1> HIDE DEF H
<1>3. Walk(<< >>, H) /\ \A i \in 1 .. Len(<< >>) : FALSE
  BY <1>1 DEF Walk
<1> QED
  BY <1>2, <1>3 DEF Fits

(* The first call, and what can be gone through behind it. *)
LEMMA HeadFits ==
  ASSUME NEW calls \in Seq(AllCalls), calls # << >>, NEW E, Fits(calls, E)
  PROVE  /\ Suits(Head(calls), E)
         /\ Head(calls).call = "fork" => ChildFits(Head(calls).code, E)
         /\ Fits(Tail(calls), After(E, Head(calls)))
<1>1. PICK H \in Held(calls) :
         /\ H[1] \subseteq E /\ Walk(calls, H)
         /\ \A i \in 1 .. Len(calls) : calls[i].call = "fork" => ChildFits(calls[i].code, H[i])
  BY DEF Fits
<1> DEFINE n == Len(calls)
           c == calls[1]
           rest == Tail(calls)
           G == [i \in 1 .. n |-> H[i + 1]]
<1>2. /\ n \in Nat \ {0} /\ Head(calls) = c
      /\ rest \in Seq(AllCalls) /\ Len(rest) = n - 1
      /\ \A i \in 1 .. n - 1 : rest[i] = calls[i + 1]
  BY EmptySeq, HeadTailProperties
<1>3. Suits(c, H[1]) /\ H[2] \subseteq After(H[1], c)
  BY <1>1, <1>2 DEF Walk
<1>4. G \in Held(rest) /\ G[1] = H[2]
  BY <1>1, <1>2 DEF Held
<1>5. ASSUME NEW i \in 1 .. n - 1
      PROVE  /\ Suits(rest[i], G[i]) /\ G[i + 1] \subseteq After(G[i], rest[i])
             /\ rest[i].call = "fork" => ChildFits(rest[i].code, G[i])
  <2>1. i + 1 \in 1 .. n /\ G[i] = H[i + 1] /\ G[i + 1] = H[(i + 1) + 1]
    BY <1>2
  <2> QED
    BY <1>1, <1>2, <2>1 DEF Walk
<1>6. G[1] \subseteq After(E, c)
  BY <1>1, <1>3, <1>4 DEF After
<1> HIDE DEF G, rest, c
<1>7. Fits(rest, After(E, c))
  BY <1>2, <1>4, <1>5, <1>6 DEF Fits, Walk
<1>8. Suits(c, E)
  BY <1>1, <1>3 DEF Suits
<1>9. c.call = "fork" => ChildFits(c.code, E)
  BY <1>1, <1>2, MoreFits DEF c
<1> QED
  BY <1>2, <1>7, <1>8, <1>9 DEF rest

(* Lines to print can be put before a list. *)
LEMMA PrintsFit ==
  ASSUME NEW prints \in Seq(AllCalls), PrintsOnly(prints),
         NEW calls \in Seq(AllCalls), NEW E, Fits(calls, E)
  PROVE  Fits(prints \o calls, E)
<1>1. PICK H \in Held(calls) :
         /\ H[1] \subseteq E /\ Walk(calls, H)
         /\ \A i \in 1 .. Len(calls) : calls[i].call = "fork" => ChildFits(calls[i].code, H[i])
  BY DEF Fits
<1> DEFINE m == Len(prints)
           n == Len(calls)
           all == prints \o calls
           G == [i \in 1 .. m + n + 1 |-> IF i <= m THEN H[1] ELSE H[i - m]]
<1>2. /\ m \in Nat /\ n \in Nat /\ Len(all) = m + n
      /\ \A i \in 1 .. m : all[i] = prints[i]
      /\ \A i \in m + 1 .. m + n : all[i] = calls[i - m]
  BY ConcatProperties
<1>3. G \in Held(all) /\ G[1] = H[1]
  BY <1>1, <1>2 DEF Held
<1>4. ASSUME NEW i \in 1 .. m
      PROVE  /\ Suits(all[i], G[i]) /\ G[i + 1] \subseteq After(G[i], all[i])
             /\ all[i].call # "fork"
  <2>1. all[i].call = "fprintf" /\ all[i].file # "dummy.txt"
    BY <1>2 DEF PrintsOnly
  <2>2. G[i] = H[1] /\ G[i + 1] = H[1]
    BY <1>2
  <2> HIDE DEF G, all
  <2>3. Needs(all[i]) = {} /\ Opens(all[i]) = {} /\ Closes(all[i]) = {}
    BY <2>1 DEF Needs, Opens, Closes
  <2> QED
    BY <2>1, <2>2, <2>3 DEF Suits, After
<1>5. ASSUME NEW i \in m + 1 .. m + n
      PROVE  /\ Suits(all[i], G[i]) /\ G[i + 1] \subseteq After(G[i], all[i])
             /\ all[i].call = "fork" => ChildFits(all[i].code, G[i])
  <2>1. i - m \in 1 .. n /\ G[i] = H[i - m] /\ G[i + 1] = H[(i - m) + 1]
    BY <1>2
  <2> QED
    BY <1>1, <1>2, <2>1 DEF Walk
<1> HIDE DEF G, all, m, n
<1>6. \A i \in 1 .. m + n : i \in 1 .. m \/ i \in m + 1 .. m + n
  BY <1>2
<1> QED
  BY <1>1, <1>2, <1>3, <1>4, <1>5, <1>6 DEF Fits, Walk, all

(* Children do not fork. *)
LEMMA ChildrenFit ==
  ASSUME NEW calls \in Seq(PlainCalls), NEW E, ChildFits(calls, E)
  PROVE  Fits(calls, E)
<1>1. \A c \in PlainCalls : c.call # "fork"
  BY DEF PlainCalls, SimpleCalls
<1>2. \A i \in 1 .. Len(calls) : calls[i].call # "fork"
  BY <1>1, ElementOfSeq
<1> QED
  BY <1>2 DEF ChildFits, Fits

(* What each process has yet to do it can do with the descriptors it has. *)
DescriptorsFit == \A p \in Processes : Fits(code[p], ends[p])

LEMMA ContinuationFits ==
  ASSUME Types, NEW p \in Processes, code[p] # << >>, NEW E, Fits(code[p], E),
         NEW error \in BOOLEAN
  PROVE  Fits(Continuation(p, error), After(E, Head(code[p])))
<1> DEFINE rest == Tail(code[p])
           D == After(E, Head(code[p]))
<1>1. code[p] \in Seq(AllCalls) /\ rest \in Seq(AllCalls)
  BY DEF Types
<1>2. Fits(rest, D)
  BY <1>1, HeadFits
<1>3. ASSUME rest # << >>, Head(rest).call = "onError"
      PROVE  Fits(Head(rest).code \o Tail(rest), D) /\ Fits(Tail(rest), D)
  <2> HIDE DEF rest, D
  <2>1. Suits(Head(rest), D) /\ Fits(Tail(rest), After(D, Head(rest)))
    BY <1>1, <1>2, <1>3, HeadFits
  <2>2. After(D, Head(rest)) = D
    BY <1>3 DEF After, Opens, Closes
  <2>3. Head(rest) \in AllCalls /\ Tail(rest) \in Seq(AllCalls)
    BY <1>1, <1>3, HeadTailProperties
  <2>4. Head(rest).code \in Seq(AllCalls) /\ PrintsOnly(Head(rest).code)
    BY <1>3, <2>1, <2>3, CallsAre DEF Suits
  <2> QED
    BY <2>1, <2>2, <2>3, <2>4, PrintsFit
<1>4. Continuation(p, error) \in {rest, Head(rest).code \o Tail(rest), Tail(rest)}
  BY DEF Continuation
<1>5. \/ Continuation(p, error) = rest
      \/ rest # << >> /\ Head(rest).call = "onError"
  BY DEF Continuation
<1>6. Fits(Continuation(p, error), D)
  <2> HIDE DEF rest, D
  <2> QED
    BY <1>2, <1>3, <1>4, <1>5
<1> QED
  BY <1>6

LEMMA ReturnFits ==
  ASSUME Types, DescriptorsFit, NEW p \in Processes, code[p] # << >>,
         Return(p) \/ ReturnError(p),
         ends'[p] = After(ends[p], Head(code[p])),
         \A q \in Processes \ {p} : ends'[q] = ends[q]
  PROVE  DescriptorsFit'
<1>1. \E error \in BOOLEAN : code' = [code EXCEPT ![p] = Continuation(p, error)]
  BY DEF Return, ReturnError
<1>2. PICK error \in BOOLEAN : code' = [code EXCEPT ![p] = Continuation(p, error)]
  BY <1>1
<1>3. /\ code'[p] = Continuation(p, error)
      /\ \A q \in Processes \ {p} : code'[q] = code[q]
  BY <1>2 DEF Types
<1>4. Fits(code'[p], ends'[p])
  BY <1>3, ContinuationFits DEF DescriptorsFit
<1>5. \A q \in Processes \ {p} : Fits(code'[q], ends'[q])
  BY <1>3 DEF DescriptorsFit
<1> QED
  BY <1>4, <1>5 DEF DescriptorsFit

(* A process that has nothing left to do. *)
LEMMA EndFits ==
  ASSUME Types, DescriptorsFit, NEW p \in Processes, code' = [code EXCEPT ![p] = << >>],
         \A q \in Processes \ {p} : ends'[q] = ends[q]
  PROVE  DescriptorsFit'
<1>1. code'[p] = << >> /\ \A q \in Processes \ {p} : code'[q] = code[q]
  BY DEF Types
<1>2. Fits(code'[p], ends'[p])
  BY <1>1, NothingFits
<1>3. \A q \in Processes \ {p} : Fits(code'[q], ends'[q])
  BY <1>1 DEF DescriptorsFit
<1> QED
  BY <1>2, <1>3 DEF DescriptorsFit

LEMMA QuietFits ==
  ASSUME Types, DescriptorsFit, NEW p \in Processes,
         Fprintf(p) \/ Fflush(p) \/ Wait(p)
  PROVE  DescriptorsFit'
<1>1. /\ code[p] # << >> /\ (Return(p) \/ ReturnError(p))
      /\ Head(code[p]).call \in {"fprintf", "fflush", "wait"}
      /\ UNCHANGED ends
  BY DEF Fprintf, Fflush, Wait, Calls
<1>2. After(ends[p], Head(code[p])) = ends[p]
  BY <1>1 DEF After, Opens, Closes
<1>3. ends'[p] = After(ends[p], Head(code[p])) /\ \A q \in Processes \ {p} : ends'[q] = ends[q]
  BY <1>1, <1>2
<1> QED
  BY <1>1, <1>3, ReturnFits

LEMMA DescriptorCallsFit ==
  ASSUME Types, DescriptorsFit, NEW p \in Processes, Fclose(p) \/ Open(p) \/ Close(p)
  PROVE  DescriptorsFit'
<1> DEFINE c == Head(code[p])
<1>1. /\ code[p] # << >> /\ Return(p)
      /\ ends \in [Processes -> SUBSET Ends]
  BY DEF Fclose, Open, Close, Calls, Types
<1>2. ends' = [ends EXCEPT ![p] = After(ends[p], c)]
  <2>1. CASE Fclose(p)
    <3>1. c.call = "fclose" /\ ends' = [ends EXCEPT ![p] = ends[p] \ {<<"w", c.file>>}]
      BY <2>1 DEF Fclose, Calls
    <3>2. After(ends[p], c) = ends[p] \ {<<"w", c.file>>}
      BY <3>1 DEF After, Opens, Closes
    <3> QED
      BY <3>1, <3>2
  <2>2. CASE Open(p)
    <3>1. \/ /\ c.call = "pipe"
             /\ ends' = [ends EXCEPT ![p] = ends[p] \cup {<<"r", c.file>>, <<"w", c.file>>}]
          \/ c.call = "fopen" /\ ends' = [ends EXCEPT ![p] = ends[p] \cup {<<"w", c.file>>}]
      BY <2>2 DEF Open, Calls
    <3>2. /\ c.call = "pipe" => After(ends[p], c) = ends[p] \cup {<<"r", c.file>>, <<"w", c.file>>}
          /\ c.call = "fopen" => After(ends[p], c) = ends[p] \cup {<<"w", c.file>>}
      BY DEF After, Opens, Closes
    <3> QED
      BY <3>1, <3>2
  <2>3. CASE Close(p)
    <3>1. c.call = "close" /\ ends' = [ends EXCEPT ![p] = ends[p] \ {c.end}]
      BY <2>3 DEF Close, Calls
    <3>2. After(ends[p], c) = ends[p] \ {c.end}
      BY <3>1 DEF After, Opens, Closes
    <3> QED
      BY <3>1, <3>2
  <2> QED
    BY <2>1, <2>2, <2>3
<1>3. ends'[p] = After(ends[p], c) /\ \A q \in Processes \ {p} : ends'[q] = ends[q]
  BY <1>1, <1>2
<1> QED
  BY <1>1, <1>3, ReturnFits

LEMMA ForkFits ==
  ASSUME Types, DescriptorsFit, NEW p \in Processes, Fork(p)
  PROVE  DescriptorsFit'
<1> DEFINE child == Head(code[p]).child
           calls == Head(code[p]).code
           rest == Continuation(p, FALSE)
<1>1. /\ code[p] # << >> /\ Head(code[p]).call = "fork"
      /\ code' = [code EXCEPT ![p] = rest, ![child] = calls]
      /\ ends' = [ends EXCEPT ![child] = ends[p]]
  BY DEF Fork, Calls
<1>2. Head(code[p]) \in AllCalls /\ code[p] \in Seq(AllCalls)
  BY <1>1 DEF Types
<1>3. child \in Processes /\ calls \in Seq(PlainCalls)
  <2>1. Head(code[p]) \in [call : {"fork"}, child : {"child", "reader"}, code : Seq(PlainCalls)]
    BY <1>1, <1>2 DEF AllCalls, PlainCalls, SimpleCalls
  <2> QED
    BY <2>1 DEF Processes
<1>4. Fits(rest, ends[p])
  <2>1. After(ends[p], Head(code[p])) = ends[p]
    BY <1>1 DEF After, Opens, Closes
  <2> QED
    BY <1>1, <2>1, ContinuationFits DEF DescriptorsFit
<1>5. Fits(calls, ends[p])
  <2>1. ChildFits(calls, ends[p])
    BY <1>1, <1>2, HeadFits DEF DescriptorsFit
  <2> QED
    BY <1>3, <2>1, ChildrenFit
<1> HIDE DEF child, calls, rest
<1>6. ASSUME NEW q \in Processes PROVE Fits(code'[q], ends'[q])
  <2>1. CASE q = child
    <3>1. code'[q] = calls /\ ends'[q] = ends[p]
      BY <1>1, <1>3, <2>1 DEF Types
    <3> QED
      BY <1>5, <3>1
  <2>2. CASE q # child /\ q = p
    <3>1. code'[q] = rest /\ ends'[q] = ends[p]
      BY <1>1, <1>3, <2>2 DEF Types
    <3> QED
      BY <1>4, <3>1
  <2>3. CASE q # child /\ q # p
    <3>1. code'[q] = code[q] /\ ends'[q] = ends[q]
      BY <1>1, <1>3, <2>3 DEF Types
    <3> QED
      BY <3>1 DEF DescriptorsFit
  <2> QED
    BY <2>1, <2>2, <2>3
<1> QED
  BY <1>6 DEF DescriptorsFit

LEMMA ExecFits ==
  ASSUME Types, DescriptorsFit, NEW p \in Processes, Exec(p)
  PROVE  DescriptorsFit'
<1>1. code[p] # << >> /\ Head(code[p]).call = "exec" /\ UNCHANGED ends
  BY DEF Exec, Calls
<1>2. Head(code[p]) \in AllCalls /\ code[p] \in Seq(AllCalls)
  BY <1>1 DEF Types
<1>3. CASE ReturnError(p)
  <2>1. After(ends[p], Head(code[p])) = ends[p]
    BY <1>1 DEF After, Opens, Closes
  <2> QED
    BY <1>1, <1>3, <2>1, ReturnFits
<1>4. CASE code' = [code EXCEPT ![p] = Head(@).code]
  <2> DEFINE new == Head(code[p]).code
  <2>1. new \in Seq(AllCalls) /\ PrintsOnly(new)
    BY <1>1, <1>2, CallsAre, HeadFits DEF DescriptorsFit, Suits
  <2>2. code'[p] = new /\ \A q \in Processes \ {p} : code'[q] = code[q]
    BY <1>4 DEF Types
  <2> HIDE DEF new
  <2>3. << >> \in Seq(AllCalls) /\ new \o << >> = new
    BY <2>1, ConcatEmptySeq
  <2>4. Fits(<< >>, ends[p])
    BY NothingFits
  <2>5. Fits(new \o << >>, ends[p])
    BY <2>1, <2>3, <2>4, PrintsFit
  <2>6. Fits(new, ends[p])
    BY <2>3, <2>5
  <2> QED
    BY <1>1, <2>2, <2>6 DEF DescriptorsFit
<1> QED
  BY <1>3, <1>4 DEF Exec

LEMMA PipeCallsFit ==
  ASSUME Types, DescriptorsFit, NEW p \in Processes, Write(p) \/ Read(p)
  PROVE  DescriptorsFit'
<1> DEFINE c == Head(code[p])
           n == IF Len(contents[c.file]) < c.size THEN Len(contents[c.file]) ELSE c.size
           got == SubSeq(contents[c.file], 1, n)
           lines == [i \in 1 .. n |-> printf(got[i])]
<1>1. code[p] # << >> /\ c.call \in {"write", "read", "whileRead"}
  BY DEF Write, Read, Calls
<1>2. /\ c \in AllCalls /\ code[p] \in Seq(AllCalls)
      /\ code \in [Processes -> Seq(AllCalls)]
  BY <1>1 DEF Types
<1>3. \/ Die(p)
      \/ Return(p) /\ UNCHANGED ends
      \/ Read(p) /\ code' = [code EXCEPT ![p] = lines \o code[p]] /\ UNCHANGED ends
  BY <1>2 DEF Write, Read
<1>4. CASE Die(p)
  <2>1. /\ code' = [code EXCEPT ![p] = << >>]
        /\ \A q \in Processes \ {p} : ends'[q] = ends[q]
    BY <1>4 DEF Die, Types
  <2> QED
    BY <2>1, EndFits
<1>5. CASE Return(p) /\ UNCHANGED ends
  <2>1. After(ends[p], c) = ends[p]
    BY <1>1 DEF After, Opens, Closes
  <2> QED
    BY <1>1, <1>5, <2>1, ReturnFits
<1>6. CASE Read(p) /\ code' = [code EXCEPT ![p] = lines \o code[p]] /\ UNCHANGED ends
  <2>1. c.call \in {"read", "whileRead"}
    BY <1>6 DEF Read, Calls
  <2>2. c.file \in Pipes /\ c.size \in Nat \ {0}
    BY <1>2, <2>1, CallsAre
  <2>3. contents[c.file] \in Seq(Texts) /\ n \in 0 .. Len(contents[c.file])
    BY <2>2 DEF Types
  <2>4. \A i \in 1 .. n : got[i] \in Texts
    BY <2>3
  <2>5. \A i \in 1 .. n : printf(got[i]) \in AllCalls
    BY <2>4, PrintfIs
  <2>6. Len(lines) = n /\ \A i \in 1 .. n : lines[i] = printf(got[i])
    BY <2>3
  <2>7. lines \in Seq(AllCalls)
    <3> HIDE DEF got, n
    <3> QED
      BY <2>3, <2>5
  <2> HIDE DEF lines, got, n
  <2>8. PrintsOnly(lines)
    BY <2>6 DEF PrintsOnly, printf
  <2>9. Fits(lines \o code[p], ends[p])
    BY <1>2, <2>7, <2>8, PrintsFit DEF DescriptorsFit
  <2>10. code'[p] = lines \o code[p] /\ \A q \in Processes \ {p} : code'[q] = code[q]
    BY <1>2, <1>6
  <2> QED
    BY <1>6, <2>9, <2>10 DEF DescriptorsFit
<1> QED
  BY <1>3, <1>4, <1>5, <1>6

LEMMA NextFits == Types /\ DescriptorsFit /\ [Next]_vars => DescriptorsFit'
<1> SUFFICES ASSUME Types, DescriptorsFit, [Next]_vars PROVE DescriptorsFit'
  OBVIOUS
<1>1. ASSUME NEW p \in Processes, Exit(p) \/ Failure(p) PROVE DescriptorsFit'
  <2>1. /\ code' = [code EXCEPT ![p] = << >>]
        /\ \A q \in Processes \ {p} : ends'[q] = ends[q]
    BY <1>1 DEF Exit, Failure, Die, Types
  <2> QED
    BY <2>1, EndFits
<1>2. ASSUME NEW p \in Processes, Step(p) PROVE DescriptorsFit'
  BY <1>1, <1>2, QuietFits, DescriptorCallsFit, ForkFits, ExecFits, PipeCallsFit DEF Step
<1>3. CASE UNCHANGED vars
  BY <1>3 DEF vars, DescriptorsFit
<1> QED
  BY <1>2, <1>3 DEF Next, Terminated

----------------------------------------------------------------------------
(* Every program can be gone through *)

(* Calls that can be made with the descriptors D and leave E open. *)
Leads(D, E) ==
  {c \in AllCalls : /\ Suits(c, D) /\ E \subseteq After(D, c)
                    /\ c.call = "fork" => ChildFits(c.code, D)}

(* Branches and new programs that print a line. *)
LEMMA BranchesAre ==
  \A line \in Texts : /\ onError(<< fprintf("stderr", line) >>) \in PlainCalls
                      /\ execl(<< printf(line) >>) \in PlainCalls
<1> SUFFICES ASSUME NEW line \in Texts
             PROVE  /\ onError(<< fprintf("stderr", line) >>) \in PlainCalls
                    /\ execl(<< printf(line) >>) \in PlainCalls
  OBVIOUS
<1> DEFINE branch == << fprintf("stderr", line) >>
           new == << printf(line) >>
<1>1. fprintf("stderr", line) \in SimpleCalls /\ printf(line) \in SimpleCalls
  BY FilesAre, SimpleCallsAre, PrintfIs
<1>2. branch \in Seq(SimpleCalls) /\ new \in Seq(SimpleCalls)
  BY <1>1
<1> HIDE DEF branch, new
<1>3. onError(branch) \in PlainCalls /\ execl(new) \in PlainCalls
  BY <1>2, NestedCallsAre
<1> QED
  BY <1>3 DEF branch, new

LEMMA SteadyCalls ==
  ASSUME NEW D
  PROVE  /\ \A line \in Texts : printf(line) \in Leads(D, D)
         /\ wait \in Leads(D, D)
         /\ \A S \in SUBSET Processes : waitpid(S) \in Leads(D, D)
         /\ \A child \in {"child", "reader"}, calls \in Seq(PlainCalls) :
              ChildFits(calls, D) => fork(child, calls) \in Leads(D, D)
         /\ \A line \in Texts : onError(<< fprintf("stderr", line) >>) \in Leads(D, D)
         /\ \A line \in Texts : execl(<< printf(line) >>) \in Leads(D, D)
<1>1. \A line \in Texts : printf(line) \in Leads(D, D)
  BY PrintfIs DEF Leads, Suits, After, Needs, Opens, Closes, printf
<1>2. /\ wait \in Leads(D, D)
      /\ \A S \in SUBSET Processes : waitpid(S) \in Leads(D, D)
  <2>1. \A S \in SUBSET Processes : waitpid(S) \in AllCalls
    BY SimpleCallsAre, SimpleEverywhere
  <2>2. \A S \in SUBSET Processes : waitpid(S) \in Leads(D, D)
    BY <2>1 DEF Leads, Suits, After, Needs, Opens, Closes, waitpid
  <2> QED
    BY <2>2 DEF wait
<1>3. ASSUME NEW child \in {"child", "reader"}, NEW calls \in Seq(PlainCalls), ChildFits(calls, D)
      PROVE  fork(child, calls) \in Leads(D, D)
  <2>1. fork(child, calls) \in AllCalls
    BY NestedCallsAre
  <2> QED
    BY <1>3, <2>1 DEF Leads, Suits, After, Needs, Opens, Closes, fork
<1>4. ASSUME NEW line \in Texts
      PROVE  onError(<< fprintf("stderr", line) >>) \in Leads(D, D)
  <2> DEFINE branch == << fprintf("stderr", line) >>
  <2>1. PrintsOnly(branch)
    BY DEF PrintsOnly, fprintf
  <2>2. onError(branch) \in AllCalls
    BY BranchesAre, PlainCallsAre
  <2> HIDE DEF branch
  <2>3. onError(branch) \in Leads(D, D)
    BY <2>1, <2>2 DEF Leads, Suits, After, Needs, Opens, Closes, onError
  <2> QED
    BY <2>3 DEF branch
<1>5. ASSUME NEW line \in Texts
      PROVE  execl(<< printf(line) >>) \in Leads(D, D)
  <2> DEFINE new == << printf(line) >>
  <2>1. PrintsOnly(new)
    BY DEF PrintsOnly, printf
  <2>2. execl(new) \in AllCalls
    BY BranchesAre, PlainCallsAre
  <2> HIDE DEF new
  <2>3. execl(new) \in Leads(D, D)
    BY <2>1, <2>2 DEF Leads, Suits, After, Needs, Opens, Closes, execl
  <2> QED
    BY <2>3 DEF new
<1> QED
  BY <1>1, <1>2, <1>3, <1>4, <1>5

LEMMA SteadyOnEnds ==
  ASSUME NEW D, NEW f
  PROVE  /\ f \in Pipes /\ <<"r", f>> \in D => \A n \in Nat \ {0} :
              read(f, n) \in Leads(D, D) /\ whileRead(f, n) \in Leads(D, D)
         /\ f \in Pipes /\ <<"w", f>> \in D => \A bytes \in Seq(Texts) :
              write(f, bytes) \in Leads(D, D)
         /\ f \in Streams /\ <<"w", f>> \in D => fflush(f) \in Leads(D, D)
         /\ f = "dummy.txt" /\ <<"w", f>> \in D => \A line \in Texts :
              fprintf(f, line) \in Leads(D, D)
<1>1. ASSUME f \in Pipes, <<"r", f>> \in D, NEW n \in Nat \ {0}
      PROVE  read(f, n) \in Leads(D, D) /\ whileRead(f, n) \in Leads(D, D)
  <2>1. read(f, n) \in AllCalls /\ whileRead(f, n) \in AllCalls
    BY <1>1, SimpleCallsAre, SimpleEverywhere
  <2> QED
    BY <1>1, <2>1 DEF Leads, Suits, After, Needs, Opens, Closes, read, whileRead
<1>2. ASSUME f \in Pipes, <<"w", f>> \in D, NEW bytes \in Seq(Texts)
      PROVE  write(f, bytes) \in Leads(D, D)
  <2>1. write(f, bytes) \in AllCalls
    BY <1>2, SimpleCallsAre, SimpleEverywhere
  <2> QED
    BY <1>2, <2>1 DEF Leads, Suits, After, Needs, Opens, Closes, write
<1>3. ASSUME f \in Streams, <<"w", f>> \in D
      PROVE  fflush(f) \in Leads(D, D)
  <2>1. fflush(f) \in AllCalls
    BY <1>3, SimpleCallsAre, SimpleEverywhere
  <2> QED
    BY <1>3, <2>1 DEF Leads, Suits, After, Needs, Opens, Closes, fflush
<1>4. ASSUME f = "dummy.txt", <<"w", f>> \in D, NEW line \in Texts
      PROVE  fprintf(f, line) \in Leads(D, D)
  <2>1. fprintf(f, line) \in AllCalls
    BY <1>4, FilesAre, SimpleCallsAre, SimpleEverywhere
  <2> QED
    BY <1>4, <2>1 DEF Leads, Suits, After, Needs, Opens, Closes, fprintf
<1> QED
  BY <1>1, <1>2, <1>3, <1>4

(* Calls that open or close. *)
LEMMA OpeningCalls ==
  ASSUME NEW D, NEW E, NEW f
  PROVE  /\ f \in Pipes /\ E \subseteq D \cup {<<"r", f>>, <<"w", f>>} => pipe(f) \in Leads(D, E)
         /\ f \in Streams /\ E \subseteq D \cup {<<"w", f>>} => fopen(f) \in Leads(D, E)
<1>1. f \in Pipes => pipe(f) \in AllCalls
  BY SimpleCallsAre, SimpleEverywhere
<1>2. f \in Streams => fopen(f) \in AllCalls
  BY SimpleCallsAre, SimpleEverywhere
<1> QED
  BY <1>1, <1>2 DEF Leads, Suits, After, Needs, Opens, Closes, pipe, fopen

LEMMA ClosingCalls ==
  ASSUME NEW D, NEW E, NEW f, E \subseteq D
  PROVE  /\ f \in Pipes /\ <<"r", f>> \in D /\ <<"r", f>> \notin E => close_r(f) \in Leads(D, E)
         /\ f \in Streams \cup Pipes /\ <<"w", f>> \in D /\ <<"w", f>> \notin E =>
              close_w(f) \in Leads(D, E)
         /\ f \in Streams /\ <<"w", f>> \in D /\ <<"w", f>> \notin E => fclose(f) \in Leads(D, E)
<1>1. f \in Streams \cup Pipes => close_r(f) \in AllCalls /\ close_w(f) \in AllCalls
  BY SimpleCallsAre, SimpleEverywhere
<1>2. f \in Streams => fclose(f) \in AllCalls
  BY SimpleCallsAre, SimpleEverywhere
<1>3. f \in Pipes /\ <<"r", f>> \in D /\ <<"r", f>> \notin E => close_r(f) \in Leads(D, E)
  BY <1>1 DEF Leads, Suits, After, Needs, Opens, Closes, close_r
<1>4. f \in Streams \cup Pipes /\ <<"w", f>> \in D /\ <<"w", f>> \notin E =>
        close_w(f) \in Leads(D, E)
  BY <1>1 DEF Leads, Suits, After, Needs, Opens, Closes, close_w
<1>5. f \in Streams /\ <<"w", f>> \in D /\ <<"w", f>> \notin E => fclose(f) \in Leads(D, E)
  BY <1>2 DEF Leads, Suits, After, Needs, Opens, Closes, fclose
<1> QED
  BY <1>3, <1>4, <1>5

(* A list each call of which leads on to the next. *)
LEMMA WalkFits ==
  ASSUME NEW calls \in Seq(AllCalls), NEW H \in Held(calls), NEW E, H[1] \subseteq E,
         \A i \in 1 .. Len(calls) : calls[i] \in Leads(H[i], H[i + 1])
  PROVE  Fits(calls, E) /\ ChildFits(calls, E)
<1>1. /\ Walk(calls, H)
      /\ \A i \in 1 .. Len(calls) : calls[i].call = "fork" => ChildFits(calls[i].code, H[i])
  BY DEF Walk, Leads
<1> QED
  BY <1>1 DEF Fits, ChildFits

(* A list that goes on with calls that leave D open. *)
LEMMA JoinFits ==
  ASSUME NEW first \in Seq(AllCalls), NEW H \in Held(first), NEW E, H[1] \subseteq E,
         \A i \in 1 .. Len(first) : first[i] \in Leads(H[i], H[i + 1]),
         NEW D, D = H[Len(first) + 1], NEW last \in Seq(Leads(D, D))
  PROVE  Fits(first \o last, E) /\ ChildFits(first \o last, E)
<1> DEFINE m == Len(first)
           n == Len(last)
           all == first \o last
           G == [i \in 1 .. m + n + 1 |-> IF i <= m + 1 THEN H[i] ELSE D]
<1>1. last \in Seq(AllCalls)
  <2>1. Leads(D, D) \subseteq AllCalls
    BY DEF Leads
  <2> QED
    BY <2>1, SeqMonotonic
<1>2. /\ m \in Nat /\ n \in Nat /\ all \in Seq(AllCalls) /\ Len(all) = m + n
      /\ \A i \in 1 .. m : all[i] = first[i]
      /\ \A i \in m + 1 .. m + n : all[i] = last[i - m]
  BY <1>1, ConcatProperties
<1>3. \A i \in m + 1 .. m + n : all[i] \in Leads(D, D)
  <2>1. \A j \in 1 .. n : last[j] \in Leads(D, D)
    OBVIOUS
  <2>2. \A i \in m + 1 .. m + n : i - m \in 1 .. n
    BY <1>2
  <2> QED
    BY <1>2, <2>1, <2>2
<1>4. G \in Held(all) /\ G[1] = H[1]
  BY <1>2 DEF Held
<1>5. /\ \A i \in 1 .. m + 1 : G[i] = H[i]
      /\ \A i \in m + 1 .. m + n + 1 : G[i] = D
  BY <1>2
<1> HIDE DEF G, all, m, n
<1>6. \A i \in 1 .. m : all[i] \in Leads(G[i], G[i + 1])
  BY <1>2, <1>5 DEF m
<1>7. \A i \in m + 1 .. m + n : all[i] \in Leads(G[i], G[i + 1])
  BY <1>2, <1>3, <1>5
<1>8. \A i \in 1 .. Len(all) : all[i] \in Leads(G[i], G[i + 1])
  BY <1>2, <1>6, <1>7
<1>9. Fits(all, E) /\ ChildFits(all, E)
  BY <1>2, <1>4, <1>8, WalkFits
<1> QED
  BY <1>9 DEF all

LEMMA SteadyFits ==
  ASSUME NEW D \in SUBSET Ends, NEW calls \in Seq(Leads(D, D)), NEW E, D \subseteq E
  PROVE  Fits(calls, E) /\ ChildFits(calls, E)
<1> DEFINE H == [i \in 1 .. 1 |-> D]
<1>1. << >> \in Seq(AllCalls) /\ Len(<< >>) = 0
  OBVIOUS
<1>2. H \in Held(<< >>) /\ H[1] = D /\ H[Len(<< >>) + 1] = D
  BY <1>1 DEF Held
<1> HIDE DEF H
<1>3. \A i \in 1 .. Len(<< >>) : << >>[i] \in Leads(H[i], H[i + 1])
  BY <1>1
<1>4. << >> \o calls = calls
  BY ConcatEmptySeq
<1>5. Fits(<< >> \o calls, E) /\ ChildFits(<< >> \o calls, E)
  BY <1>1, <1>2, <1>3, JoinFits
<1> QED
  BY <1>4, <1>5

(* Programs that only print and wait. *)
LEMMA fork_cFits == Fits(fork_c, {<<"w", "stdout">>})
<1> DEFINE child == << printf("initial"), printf("changed") >>
<1>1. child \in Seq(Leads({}, {})) /\ child \in Seq(PlainCalls)
  BY SteadyCalls, PrintfIs, TextsAre
<1> HIDE DEF child
<1>2. fork("child", child) \in Leads({}, {})
  BY <1>1, SteadyFits, SteadyCalls
<1>3. << printf("before_fork"), fork("child", child), printf("changed"), wait,
         printf("finished") >> \in Seq(Leads({}, {}))
  BY <1>2, SteadyCalls, TextsAre
<1>4. fork_c \in Seq(Leads({}, {}))
  BY <1>3 DEF fork_c, child
<1> QED
  BY <1>4, SteadyFits

LEMMA wait_example_cFits == Fits(wait_example_c, {<<"w", "stdout">>})
<1> DEFINE branch == onError(<< fprintf("stderr", "wait_failed") >>)
           child == << printf("executing"), printf("trying"), wait, branch, printf("exiting") >>
<1>1. branch \in Leads({}, {})
  BY SteadyCalls, TextsAre
<1>2. branch \in PlainCalls /\ wait \in PlainCalls
  BY BranchesAre, TextsAre, SimpleCallsAre, SimpleEverywhere
<1> HIDE DEF branch
<1>3. child \in Seq(Leads({}, {})) /\ child \in Seq(PlainCalls)
  BY <1>1, <1>2, SteadyCalls, PrintfIs, TextsAre
<1> HIDE DEF child
<1>4. fork("child", child) \in Leads({}, {})
  BY <1>3, SteadyFits, SteadyCalls
<1>5. << printf("before_fork"), fork("child", child), printf("waiting"), wait,
         printf("finished") >> \in Seq(Leads({}, {}))
  BY <1>4, SteadyCalls, TextsAre
<1>6. wait_example_c \in Seq(Leads({}, {}))
  BY <1>5 DEF wait_example_c, child, branch
<1> QED
  BY <1>6, SteadyFits

LEMMA waitpid_example_cFits == Fits(waitpid_example_c, {<<"w", "stdout">>})
<1> DEFINE child == << printf("executing"), printf("exiting") >>
<1>1. child \in Seq(Leads({}, {})) /\ child \in Seq(PlainCalls)
  BY SteadyCalls, PrintfIs, TextsAre
<1> HIDE DEF child
<1>2. fork("child", child) \in Leads({}, {})
  BY <1>1, SteadyFits, SteadyCalls
<1>3. waitpid({"child"}) \in Leads({}, {})
  BY SteadyCalls DEF Processes
<1>4. << printf("before_fork"), fork("child", child), printf("waiting"), waitpid({"child"}),
         printf("finished") >> \in Seq(Leads({}, {}))
  BY <1>2, <1>3, SteadyCalls, TextsAre
<1>5. waitpid_example_c \in Seq(Leads({}, {}))
  BY <1>4 DEF waitpid_example_c, child
<1> QED
  BY <1>5, SteadyFits

LEMMA exec_variants_cFits == Fits(exec_variants_c, {<<"w", "stdout">>})
<1> DEFINE branch == onError(<< fprintf("stderr", "exec_failed") >>)
           listing == execl(<< printf("listing") >>)
           child == << printf("executing"), listing, branch >>
<1>1. branch \in Leads({}, {}) /\ listing \in Leads({}, {})
  BY SteadyCalls, TextsAre
<1>2. branch \in PlainCalls /\ listing \in PlainCalls
  BY BranchesAre, TextsAre
<1> HIDE DEF branch, listing
<1>3. child \in Seq(Leads({}, {})) /\ child \in Seq(PlainCalls)
  BY <1>1, <1>2, SteadyCalls, PrintfIs, TextsAre
<1> HIDE DEF child
<1>4. fork("child", child) \in Leads({}, {})
  BY <1>3, SteadyFits, SteadyCalls
<1>5. << fork("child", child), wait, printf("finished") >> \in Seq(Leads({}, {}))
  BY <1>4, SteadyCalls, TextsAre
<1>6. exec_variants_c \in Seq(Leads({}, {}))
  BY <1>5 DEF exec_variants_c, child, branch, listing
<1> QED
  BY <1>6, SteadyFits

(* The child flushes its standard output before it closes it. *)
LEMMA close_stdout_cFits == Fits(close_stdout_c, {<<"w", "stdout">>})
<1> DEFINE out == {<<"w", "stdout">>}
           branch == onError(<< fprintf("stderr", "printf_failed") >>)
           child == << printf("should_appear"), printf("now_closing"), fflush("stdout"),
                       close_w("stdout"), printf("should_not_appear"), branch >>
           H == << out, out, out, out, {}, {}, {} >>
<1>1. branch \in Leads({}, {}) /\ branch \in PlainCalls
  BY SteadyCalls, BranchesAre, TextsAre
<1>2. fflush("stdout") \in Leads(out, out) /\ fflush("stdout") \in PlainCalls
  BY SteadyOnEnds, FilesAre, SimpleCallsAre, SimpleEverywhere
<1>3. close_w("stdout") \in Leads(out, {}) /\ close_w("stdout") \in PlainCalls
  BY ClosingCalls, FilesAre, SimpleCallsAre, SimpleEverywhere
<1>4. out \in SUBSET Ends
  BY DEF Ends, Streams
<1> HIDE DEF out, branch
<1>5. child \in Seq(PlainCalls) /\ Len(child) = 6 /\ H \in Held(child) /\ H[1] = out
  BY <1>1, <1>2, <1>3, <1>4, PrintfIs, TextsAre DEF Held
<1>6. \A i \in 1 .. 6 : child[i] \in Leads(H[i], H[i + 1])
  <2>1. printf("should_appear") \in Leads(out, out) /\ printf("now_closing") \in Leads(out, out)
    BY SteadyCalls, TextsAre
  <2>2. printf("should_not_appear") \in Leads({}, {})
    BY SteadyCalls, TextsAre
  <2> QED
    BY <1>1, <1>2, <1>3, <2>1, <2>2
<1> HIDE DEF child, H
<1>7. fork("child", child) \in Leads(out, out)
  <2>1. ChildFits(child, out)
    BY <1>5, <1>6, WalkFits, PlainCallsAre
  <2> QED
    BY <1>5, <2>1, SteadyCalls
<1>8. << fork("child", child), printf("created_child"), wait, printf("finished") >>
        \in Seq(Leads(out, out))
  BY <1>7, SteadyCalls, TextsAre
<1>9. close_stdout_c \in Seq(Leads(out, out))
  BY <1>8 DEF close_stdout_c, child, branch
<1> QED
  BY <1>4, <1>9, SteadyFits DEF out

(* Parent and child have dummy.txt open until each closes it. *)
LEMMA open_file_and_fork_cFits == Fits(open_file_and_fork_c, {<<"w", "stdout">>})
<1> DEFINE out == {<<"w", "stdout">>}
           both == {<<"w", "stdout">>, <<"w", "dummy.txt">>}
           line == fprintf("dummy.txt", "line")
           child == << printf("inherited"), line, printf("wrote"), fclose("dummy.txt") >>
           C == << both, both, both, both, out >>
           forked == fork("child", child)
           calls == << fopen("dummy.txt"), printf("opened"), fflush("stdout"), forked, line,
                       printf("wrote"), wait, printf("finished"), fclose("dummy.txt"),
                       printf("final_check") >>
           H == << out, both, both, both, both, both, both, both, both, out, out >>
<1>1. line \in Leads(both, both) /\ line \in PlainCalls
  BY SteadyOnEnds, TextsAre, FilesAre, SimpleCallsAre, SimpleEverywhere
<1>2. fflush("stdout") \in Leads(both, both)
  BY SteadyOnEnds, FilesAre
<1>3. fopen("dummy.txt") \in Leads(out, both)
  BY OpeningCalls, FilesAre
<1>4. fclose("dummy.txt") \in Leads(both, out) /\ fclose("dummy.txt") \in PlainCalls
  BY ClosingCalls, FilesAre, SimpleCallsAre, SimpleEverywhere
<1>5. out \in SUBSET Ends /\ both \in SUBSET Ends
  BY DEF Ends, Streams
<1> HIDE DEF both, line
<1>6. /\ wait \in Leads(both, both) /\ printf("final_check") \in Leads(out, out)
      /\ \A text \in {"inherited", "wrote", "opened", "finished"} :
            printf(text) \in Leads(both, both)
  BY SteadyCalls, TextsAre
<1> HIDE DEF out
<1>7. child \in Seq(PlainCalls) /\ Len(child) = 4 /\ C \in Held(child) /\ C[1] = both
  BY <1>1, <1>4, <1>5, PrintfIs, TextsAre DEF Held
<1>8. \A i \in 1 .. 4 : child[i] \in Leads(C[i], C[i + 1])
  BY <1>1, <1>4, <1>6
<1> HIDE DEF child, C
<1>9. forked \in Leads(both, both)
  <2>1. ChildFits(child, both)
    BY <1>7, <1>8, WalkFits, PlainCallsAre
  <2> QED
    BY <1>7, <2>1, SteadyCalls
<1>10. calls = open_file_and_fork_c
  BY DEF open_file_and_fork_c, child, line
<1> HIDE DEF forked
<1>11. Len(calls) = 10 /\ H \in Held(calls) /\ H[1] = out
  BY <1>5 DEF Held
<1>12. \A i \in 1 .. 10 : calls[i] \in Leads(H[i], H[i + 1])
  BY <1>1, <1>2, <1>3, <1>4, <1>6, <1>9
<1> HIDE DEF calls, H
<1>13. Fits(calls, out)
  BY <1>10, <1>11, <1>12, open_file_and_fork_cIs, WalkFits
<1> QED
  BY <1>10, <1>13 DEF out

(* Each process closes the end of the pipe it does not use, then its own. *)
LEMMA hello_and_goodbye_cFits == Fits(hello_and_goodbye_c, {<<"w", "stdout">>})
<1> DEFINE r == {<<"r", "pipe1">>}
           w == {<<"w", "pipe1">>}
           both == {<<"r", "pipe1">>, <<"w", "pipe1">>}
           send == write("pipe1", SIGNAL)
           child == << close_r("pipe1"), printf("hello"), send, close_w("pipe1") >>
           C == << both, w, w, w, {} >>
           forked == fork("child", child)
           calls == << pipe("pipe1"), forked, close_w("pipe1"), read("pipe1", 1),
                       printf("goodbye"), close_r("pipe1") >>
           H == << {}, both, both, r, r, r, {} >>
<1>1. send \in Leads(w, w) /\ send \in PlainCalls
  BY SteadyOnEnds, FilesAre, Parameters, SimpleCallsAre, SimpleEverywhere
<1>2. /\ close_r("pipe1") \in Leads(both, w) /\ close_w("pipe1") \in Leads(both, r)
      /\ close_r("pipe1") \in Leads(r, {}) /\ close_w("pipe1") \in Leads(w, {})
  BY ClosingCalls, FilesAre
<1>3. close_r("pipe1") \in PlainCalls /\ close_w("pipe1") \in PlainCalls
  BY FilesAre, SimpleCallsAre, SimpleEverywhere
<1>4. pipe("pipe1") \in Leads({}, both) /\ read("pipe1", 1) \in Leads(r, r)
  <2>1. pipe("pipe1") \in Leads({}, both)
    BY OpeningCalls, FilesAre
  <2>2. \A n \in Nat \ {0} : read("pipe1", n) \in Leads(r, r)
    BY SteadyOnEnds, FilesAre
  <2> QED
    BY <2>1, <2>2
<1>5. r \in SUBSET Ends /\ w \in SUBSET Ends /\ both \in SUBSET Ends
  BY DEF Ends, Pipes
<1> HIDE DEF r, w, both, send
<1>6. printf("hello") \in Leads(w, w) /\ printf("goodbye") \in Leads(r, r)
  BY SteadyCalls, TextsAre
<1>7. child \in Seq(PlainCalls) /\ Len(child) = 4 /\ C \in Held(child) /\ C[1] = both
  BY <1>1, <1>3, <1>5, PrintfIs, TextsAre DEF Held
<1>8. \A i \in 1 .. 4 : child[i] \in Leads(C[i], C[i + 1])
  BY <1>1, <1>2, <1>6
<1> HIDE DEF child, C
<1>9. forked \in Leads(both, both)
  <2>1. ChildFits(child, both)
    BY <1>7, <1>8, WalkFits, PlainCallsAre
  <2> QED
    BY <1>7, <2>1, SteadyCalls
<1>10. calls = hello_and_goodbye_c
  BY DEF hello_and_goodbye_c, child, send
<1> HIDE DEF forked
<1>11. Len(calls) = 6 /\ H \in Held(calls) /\ H[1] = {}
  BY <1>5 DEF Held
<1>12. \A i \in 1 .. 6 : calls[i] \in Leads(H[i], H[i + 1])
  BY <1>2, <1>4, <1>6, <1>9
<1> HIDE DEF calls, H
<1> QED
  BY <1>10, <1>11, <1>12, hello_and_goodbye_cIs, WalkFits

LEMMA pipes_io_cFits == Fits(pipes_io_c, {<<"w", "stdout">>})
<1> DEFINE r == {<<"r", "pipe1">>}
           w == {<<"w", "pipe1">>}
           both == {<<"r", "pipe1">>, <<"w", "pipe1">>}
           send == write("pipe1", MESSAGE)
           receive == whileRead("pipe1", BUFFER)
           writer == << close_r("pipe1"), send, close_w("pipe1") >>
           W == << both, w, w, {} >>
           reader == << close_w("pipe1"), receive, close_r("pipe1") >>
           R == << both, r, r, {} >>
           forked == fork("child", writer)
           forked2 == fork("reader", reader)
           calls == << pipe("pipe1"), forked, forked2, close_r("pipe1"), close_w("pipe1"),
                       waitpid({"child"}), waitpid({"reader"}) >>
           H == << {}, both, both, both, w, {}, {}, {} >>
<1>1. /\ send \in Leads(w, w) /\ send \in PlainCalls
      /\ receive \in Leads(r, r) /\ receive \in PlainCalls
  BY SteadyOnEnds, FilesAre, Parameters, SimpleCallsAre, SimpleEverywhere
<1>2. /\ close_r("pipe1") \in Leads(both, w) /\ close_w("pipe1") \in Leads(both, r)
      /\ close_r("pipe1") \in Leads(r, {}) /\ close_w("pipe1") \in Leads(w, {})
  BY ClosingCalls, FilesAre
<1>3. close_r("pipe1") \in PlainCalls /\ close_w("pipe1") \in PlainCalls
  BY FilesAre, SimpleCallsAre, SimpleEverywhere
<1>4. pipe("pipe1") \in Leads({}, both)
  BY OpeningCalls, FilesAre
<1>5. r \in SUBSET Ends /\ w \in SUBSET Ends /\ both \in SUBSET Ends
  BY DEF Ends, Pipes
<1>6. waitpid({"child"}) \in Leads({}, {}) /\ waitpid({"reader"}) \in Leads({}, {})
  BY SteadyCalls DEF Processes
<1> HIDE DEF r, w, both, send, receive
<1>7. writer \in Seq(PlainCalls) /\ Len(writer) = 3 /\ W \in Held(writer) /\ W[1] = both
  BY <1>1, <1>3, <1>5 DEF Held
<1>8. \A i \in 1 .. 3 : writer[i] \in Leads(W[i], W[i + 1])
  BY <1>1, <1>2
<1>9. reader \in Seq(PlainCalls) /\ Len(reader) = 3 /\ R \in Held(reader) /\ R[1] = both
  BY <1>1, <1>3, <1>5 DEF Held
<1>10. \A i \in 1 .. 3 : reader[i] \in Leads(R[i], R[i + 1])
  BY <1>1, <1>2
<1> HIDE DEF writer, reader, W, R
<1>11. forked \in Leads(both, both) /\ forked2 \in Leads(both, both)
  <2>1. ChildFits(writer, both)
    BY <1>7, <1>8, WalkFits, PlainCallsAre
  <2>2. ChildFits(reader, both)
    BY <1>9, <1>10, WalkFits, PlainCallsAre
  <2> QED
    BY <1>7, <1>9, <2>1, <2>2, SteadyCalls
<1>12. calls = pipes_io_c
  BY DEF pipes_io_c, writer, reader, send, receive
<1> HIDE DEF forked, forked2
<1>13. Len(calls) = 7 /\ H \in Held(calls) /\ H[1] = {}
  BY <1>5 DEF Held
<1>14. \A i \in 1 .. 7 : calls[i] \in Leads(H[i], H[i + 1])
  BY <1>2, <1>4, <1>6, <1>11
<1> HIDE DEF calls, H
<1> QED
  BY <1>12, <1>13, <1>14, pipes_io_cIs, WalkFits

(* Each process closes the ends that only the other uses, once, and keeps  *)
(* its own through all the rounds.                                         *)
LEMMA MeasurementFits == Fits(measure_context_switch, {<<"w", "stdout">>})
<1> DEFINE r1 == <<"r", "pipe1">>
           w1 == <<"w", "pipe1">>
           r2 == <<"r", "pipe2">>
           w2 == <<"w", "pipe2">>
           childs == {r1, w2}
           parents == {w1, r2}
           first == {r1, w1}
           all == {r1, w1, r2, w2}
           withoutW1 == {r1, r2, w2}
           withoutR1 == {w1, r2, w2}
           receive == read("pipe1", 1)
           reply == write("pipe2", <<"p">>)
           send == write("pipe1", <<"p">>)
           await == read("pipe2", 1)
           answer == << receive, reply >>
           signal == << send, await >>
           start == << close_w("pipe1"), close_r("pipe2") >>
           C == << all, withoutW1, childs >>
           child == start \o Rounds(answer)
           forked == fork("child", child)
           before == << pipe("pipe1"), pipe("pipe2"), forked, close_r("pipe1"),
                        close_w("pipe2"), printf("measuring") >>
           H == << {}, first, all, all, withoutR1, parents, parents >>
           after == << wait, printf("finished") >>
<1>1. /\ receive \in Leads(childs, childs) /\ await \in Leads(parents, parents)
      /\ receive \in PlainCalls /\ await \in PlainCalls
  <2>1. \A n \in Nat \ {0} : /\ read("pipe1", n) \in Leads(childs, childs)
                             /\ read("pipe2", n) \in Leads(parents, parents)
    BY SteadyOnEnds, FilesAre
  <2>2. read("pipe1", 1) \in SimpleCalls /\ read("pipe2", 1) \in SimpleCalls
    BY FilesAre, SimpleCallsAre
  <2> QED
    BY <2>1, <2>2, SimpleEverywhere
<1>2. /\ reply \in Leads(childs, childs) /\ send \in Leads(parents, parents)
      /\ reply \in PlainCalls /\ send \in PlainCalls
  <2>1. <<"p">> \in Seq(Texts)
    BY TextsAre
  <2>2. \A bytes \in Seq(Texts) : /\ write("pipe2", bytes) \in Leads(childs, childs)
                                  /\ write("pipe1", bytes) \in Leads(parents, parents)
                                  /\ write("pipe2", bytes) \in PlainCalls
                                  /\ write("pipe1", bytes) \in PlainCalls
    BY SteadyOnEnds, FilesAre, SimpleCallsAre, SimpleEverywhere
  <2> QED
    BY <2>1, <2>2
<1>3. /\ close_w("pipe1") \in Leads(all, withoutW1)
      /\ close_r("pipe2") \in Leads(withoutW1, childs)
      /\ close_r("pipe1") \in Leads(all, withoutR1)
      /\ close_w("pipe2") \in Leads(withoutR1, parents)
  BY ClosingCalls, FilesAre
<1>4. close_w("pipe1") \in PlainCalls /\ close_r("pipe2") \in PlainCalls
  BY FilesAre, SimpleCallsAre, SimpleEverywhere
<1>5. pipe("pipe1") \in Leads({}, first) /\ pipe("pipe2") \in Leads(first, all)
  BY OpeningCalls, FilesAre
<1>6. /\ all \in SUBSET Ends /\ childs \in SUBSET Ends /\ parents \in SUBSET Ends
      /\ first \in SUBSET Ends /\ withoutW1 \in SUBSET Ends
      /\ withoutR1 \in SUBSET Ends
  BY DEF Ends, Pipes
<1>7. measure_context_switch = before \o Rounds(signal) \o after
  BY DEF measure_context_switch
<1> HIDE DEF first, all, withoutW1, withoutR1, childs, parents, receive, reply, send, await
<1>8. /\ answer \in Seq(Leads(childs, childs)) /\ answer \in Seq(PlainCalls)
      /\ Len(answer) # 0
      /\ signal \in Seq(Leads(parents, parents)) /\ Len(signal) # 0
  BY <1>1, <1>2
<1> HIDE DEF answer, signal
<1>9. /\ Rounds(answer) \in Seq(Leads(childs, childs)) /\ Rounds(answer) \in Seq(PlainCalls)
      /\ Rounds(signal) \in Seq(Leads(parents, parents))
  BY <1>8, RoundsAre
<1>10. ChildFits(child, all) /\ child \in Seq(PlainCalls)
  <2>1. /\ start \in Seq(PlainCalls) /\ Len(start) = 2
        /\ C \in Held(start) /\ C[1] = all /\ C[3] = childs
    BY <1>4, <1>6 DEF Held
  <2>2. \A i \in 1 .. 2 : start[i] \in Leads(C[i], C[i + 1])
    BY <1>3
  <2> HIDE DEF start, C
  <2>3. child \in Seq(PlainCalls)
    BY <1>9, <2>1, ConcatProperties
  <2>4. start \in Seq(AllCalls) /\ C[Len(start) + 1] = childs
    BY <2>1, PlainCallsAre
  <2>5. \A i \in 1 .. Len(start) : start[i] \in Leads(C[i], C[i + 1])
    BY <2>1, <2>2
  <2>6. C[1] \subseteq all
    BY <2>1
  <2> QED
    BY <1>9, <2>1, <2>3, <2>4, <2>5, <2>6, JoinFits
<1> HIDE DEF child
<1>11. forked \in Leads(all, all)
  BY <1>10, SteadyCalls
<1>12. printf("measuring") \in Leads(parents, parents) /\ after \in Seq(Leads(parents, parents))
  BY SteadyCalls, TextsAre
<1> HIDE DEF forked, after
<1>13. /\ Len(before) = 6 /\ H \in Held(before) /\ H[1] = {} /\ H[7] = parents
  BY <1>6 DEF Held
<1>14. \A i \in 1 .. 6 : before[i] \in Leads(H[i], H[i + 1])
  <2>1. before[1] \in Leads(H[1], H[2]) /\ before[2] \in Leads(H[2], H[3])
    BY <1>5
  <2>2. before[3] \in Leads(H[3], H[4])
    BY <1>11
  <2>3. before[4] \in Leads(H[4], H[5]) /\ before[5] \in Leads(H[5], H[6])
    BY <1>3
  <2>4. before[6] \in Leads(H[6], H[7])
    BY <1>12
  <2> HIDE DEF before, H
  <2> QED
    BY <2>1, <2>2, <2>3, <2>4
<1>15. before \in Seq(AllCalls)
  <2>1. \A i \in 1 .. 6 : before[i] \in AllCalls
    BY <1>14 DEF Leads
  <2> QED
    BY <1>13, <2>1
<1> HIDE DEF before, H
<1>16. /\ Rounds(signal) \o after \in Seq(Leads(parents, parents))
       /\ \A i \in 1 .. Len(before) : before[i] \in Leads(H[i], H[i + 1])
       /\ H[1] \subseteq {<<"w", "stdout">>} /\ H[Len(before) + 1] = parents
  BY <1>9, <1>12, <1>13, <1>14, ConcatProperties
<1>17. Fits(before \o (Rounds(signal) \o after), {<<"w", "stdout">>})
  BY <1>13, <1>15, <1>16, JoinFits
<1>18. before \o Rounds(signal) \o after = before \o (Rounds(signal) \o after)
  <2>1. Leads(parents, parents) \subseteq AllCalls
    BY DEF Leads
  <2>2. Rounds(signal) \in Seq(AllCalls) /\ after \in Seq(AllCalls)
    BY <1>9, <1>12, <2>1, SeqMonotonic
  <2> QED
    BY <1>15, <2>2, ConcatAssociative
<1> QED
  BY <1>7, <1>17, <1>18

LEMMA ProgramsFit == \A name \in DOMAIN Programs : Fits(Programs[name], {<<"w", "stdout">>})
BY fork_cFits, wait_example_cFits, waitpid_example_cFits, close_stdout_cFits,
   open_file_and_fork_cFits, hello_and_goodbye_cFits, pipes_io_cFits, exec_variants_cFits,
   MeasurementFits DEF Programs

LEMMA InitFits == Init => DescriptorsFit
<1> SUFFICES ASSUME Init, NEW p \in Processes PROVE Fits(code[p], ends[p])
  BY DEF DescriptorsFit
<1>1. CASE p = "parent"
  <2>1. code[p] = Programs[program] /\ ends[p] = {<<"w", "stdout">>}
        /\ program \in DOMAIN Programs
    BY <1>1 DEF Init
  <2> QED
    BY <2>1, ProgramsFit
<1>2. CASE p # "parent"
  <2>1. code[p] = << >>
    BY <1>2 DEF Init
  <2> QED
    BY <2>1, NothingFits
<1> QED
  BY <1>1, <1>2

(* Whatever its processes do in which order and whichever calls fail, no   *)
(* program comes to a call with arguments of the wrong kind, or to a call  *)
(* on a descriptor that it has closed or never opened: for every message,  *)
(* signal, buffer, pipe and number of rounds.                              *)
THEOREM TypeCorrect == Spec => []TypeOK
<1>1. Types /\ DescriptorsFit => TypeOK
  <2> SUFFICES ASSUME Types, DescriptorsFit PROVE TypeOK
    OBVIOUS
  <2>1. ASSUME NEW p \in Processes, code[p] # << >>
        PROVE  Needs(Head(code[p])) \subseteq ends[p]
    <3>1. code[p] \in Seq(AllCalls) /\ Fits(code[p], ends[p])
      BY DEF Types, DescriptorsFit
    <3> QED
      BY <2>1, <3>1, HeadFits DEF Suits
  <2> QED
    BY <2>1 DEF Types, TypeOK
<1> QED
  BY <1>1, InitTypes, NextTypes, InitFits, NextFits, PTL DEF Spec

----------------------------------------------------------------------------
(* Where the processes of a program are *)

Left(p) == Len(code[p])

(* The last n of a list of calls: what is left when the others were made.  *)
Rest(calls, n) == [i \in 1 .. n |-> calls[Len(calls) - n + i]]

HasLeft(p, calls) == Left(p) \in 0 .. Len(calls) /\ code[p] = Rest(calls, Left(p))

(* The first call of two lists, and what follows it. *)
LEMMA ConcatTail ==
  ASSUME NEW S, NEW s \in Seq(S), NEW t \in Seq(S), s # << >>
  PROVE  /\ s \o t \in Seq(S) /\ s \o t # << >>
         /\ Head(s \o t) = s[1] /\ Tail(s \o t) = Tail(s) \o t
<1>1. s \o t \in Seq(S) /\ Len(s \o t) = Len(s) + Len(t) /\ Len(s) > 0
  BY EmptySeq
<1>2. Head(s \o t) = s[1] /\ s \o t # << >>
  BY <1>1
<1>3. Tail(s) \in Seq(S) /\ Len(Tail(s)) = Len(s) - 1
  BY <1>1
<1>4. Tail(s \o t) \in Seq(S) /\ Len(Tail(s \o t)) = Len(s) + Len(t) - 1
  BY <1>1
<1>5. Tail(s) \o t \in Seq(S) /\ Len(Tail(s) \o t) = Len(s) + Len(t) - 1
  BY <1>1, <1>3
<1>6. ASSUME NEW i \in 1 .. Len(s) + Len(t) - 1
      PROVE  Tail(s \o t)[i] = (Tail(s) \o t)[i]
  BY <1>1, <1>3, <1>4, <1>5
<1>7. Tail(s \o t) = Tail(s) \o t
  BY <1>4, <1>5, <1>6, SeqEqual
<1> QED
  BY <1>1, <1>2, <1>7

LEMMA AppendConcat ==
  ASSUME NEW S, NEW s \in Seq(S), NEW t \in Seq(S), NEW e \in S
  PROVE  s \o Append(t, e) = Append(s \o t, e)
<1>1. /\ s \o Append(t, e) \in Seq(S) /\ Append(s \o t, e) \in Seq(S)
      /\ Len(s \o Append(t, e)) = Len(s) + Len(t) + 1
      /\ Len(Append(s \o t, e)) = Len(s) + Len(t) + 1
  OBVIOUS
<1>2. ASSUME NEW i \in 1 .. Len(s) + Len(t) + 1
      PROVE  (s \o Append(t, e))[i] = Append(s \o t, e)[i]
  OBVIOUS
<1> QED
  BY <1>1, <1>2, SeqEqual

LEMMA RestIs ==
  ASSUME NEW calls \in Seq(AllCalls), NEW n \in 0 .. Len(calls)
  PROVE  /\ Rest(calls, n) \in Seq(AllCalls) /\ Len(Rest(calls, n)) = n
         /\ n = 0 => Rest(calls, n) = << >>
         /\ n > 0 => /\ Rest(calls, n) # << >>
                     /\ Head(Rest(calls, n)) = calls[Len(calls) - n + 1]
                     /\ Tail(Rest(calls, n)) = Rest(calls, n - 1)
<1>1. Rest(calls, n) \in Seq(AllCalls) /\ Len(Rest(calls, n)) = n
  BY DEF Rest
<1>2. n = 0 => Rest(calls, n) = << >>
  BY DEF Rest
<1>3. ASSUME n > 0
      PROVE  /\ Rest(calls, n) # << >>
             /\ Head(Rest(calls, n)) = calls[Len(calls) - n + 1]
             /\ Tail(Rest(calls, n)) = Rest(calls, n - 1)
  <2>1. Rest(calls, n) # << >> /\ Head(Rest(calls, n)) = calls[Len(calls) - n + 1]
    BY <1>1, <1>3 DEF Rest
  <2>2. /\ Tail(Rest(calls, n)) \in Seq(AllCalls) /\ Len(Tail(Rest(calls, n))) = n - 1
        /\ \A i \in 1 .. n - 1 : Tail(Rest(calls, n))[i] = Rest(calls, n)[i + 1]
    BY <1>1, <2>1, HeadTailProperties
  <2>3. \A i \in 1 .. n - 1 : Rest(calls, n)[i + 1] = Rest(calls, n - 1)[i]
    BY DEF Rest
  <2>4. Rest(calls, n - 1) \in Seq(AllCalls) /\ Len(Rest(calls, n - 1)) = n - 1
    BY <1>3 DEF Rest
  <2>5. Tail(Rest(calls, n)) = Rest(calls, n - 1)
    BY <2>2, <2>3, <2>4, SeqEqual
  <2> QED
    BY <2>1, <2>5
<1> QED
  BY <1>1, <1>2, <1>3

NoBranches(calls) == \A i \in 1 .. Len(calls) : calls[i].call # "onError"

LEMMA WholeIs == \A calls \in Seq(AllCalls) : Rest(calls, Len(calls)) = calls
<1> TAKE calls \in Seq(AllCalls)
<1>1. Rest(calls, Len(calls)) \in Seq(AllCalls) /\ Len(Rest(calls, Len(calls))) = Len(calls)
  BY RestIs
<1>2. \A i \in 1 .. Len(calls) : Rest(calls, Len(calls))[i] = calls[i]
  BY DEF Rest
<1> QED
  BY <1>1, <1>2, SeqEqual

LEMMA NoneLeft ==
  ASSUME NEW p \in Processes, NEW calls \in Seq(AllCalls), HasLeft(p, calls)
  PROVE  Left(p) = 0 <=> code[p] = << >>
<1> DEFINE n == Left(p)
<1>1. n \in 0 .. Len(calls) /\ code[p] = Rest(calls, n)
  BY DEF HasLeft
<1> HIDE DEF n
<1>2. CASE n = 0
  BY <1>1, <1>2, RestIs DEF n
<1>3. CASE n > 0
  <2>1. Rest(calls, n) # << >>
    BY <1>1, <1>3, RestIs
  <2> QED
    BY <1>1, <1>3, <2>1 DEF n
<1> QED
  BY <1>1, <1>2, <1>3

(* The next call, and what is left when it has been made. *)
LEMMA NextCall ==
  ASSUME NEW p \in Processes, NEW calls \in Seq(AllCalls), NoBranches(calls),
         HasLeft(p, calls), code[p] # << >>
  PROVE  /\ Left(p) \in 1 .. Len(calls)
         /\ Head(code[p]) = calls[Len(calls) - Left(p) + 1]
         /\ \A error \in BOOLEAN : Continuation(p, error) = Rest(calls, Left(p) - 1)
<1> DEFINE n == Left(p)
<1>1. n \in 0 .. Len(calls) /\ code[p] = Rest(calls, n)
  BY DEF HasLeft
<1> HIDE DEF n
<1>2. n \in 1 .. Len(calls)
  BY <1>1, RestIs
<1>3. Head(code[p]) = calls[Len(calls) - n + 1] /\ Tail(code[p]) = Rest(calls, n - 1)
  BY <1>1, <1>2, RestIs
<1>4. Rest(calls, n - 1) # << >> => Head(Rest(calls, n - 1)).call # "onError"
  <2>1. CASE n = 1
    BY <2>1, RestIs
  <2>2. CASE n > 1
    <3>1. n - 1 \in 0 .. Len(calls)
      BY <1>2
    <3>2. Head(Rest(calls, n - 1)) = calls[Len(calls) - (n - 1) + 1]
      BY <1>2, <2>2, <3>1, RestIs
    <3>3. Len(calls) - (n - 1) + 1 \in 1 .. Len(calls)
      BY <1>2, <2>2
    <3> QED
      BY <3>2, <3>3 DEF NoBranches
  <2> QED
    BY <1>2, <2>1, <2>2
<1>5. \A error \in BOOLEAN : Continuation(p, error) = Rest(calls, n - 1)
  BY <1>3, <1>4 DEF Continuation
<1> QED
  BY <1>2, <1>3, <1>5 DEF n

(* What a process does depends on its next call. *)
LEMMA StepTakes ==
  ASSUME Types, NEW p \in Processes, Step(p)
  PROVE  /\ status[p] = "running"
         /\ code[p] = << >> => Exit(p)
         /\ code[p] # << >> =>
              /\ Head(code[p]).call = "close" => Close(p)
              /\ Head(code[p]).call = "wait" => Wait(p)
              /\ Head(code[p]).call = "write" => Write(p)
              /\ Head(code[p]).call \in {"read", "whileRead"} => Read(p)
              /\ Head(code[p]).call = "fprintf" => Fprintf(p)
              /\ Head(code[p]).call = "pipe" => Open(p) \/ Failure(p)
              /\ Head(code[p]).call = "fork" => Fork(p) \/ Failure(p)
  BY DEF Step, Fprintf, Fflush, Fclose, Exit, Open, Close, Fork, Failure, Wait, Exec, Write, Read,
         Calls

(* What one step leaves of the other processes. *)
Same(q) == code'[q] = code[q] /\ ends'[q] = ends[q] /\ buffer'[q] = buffer[q]
SameBut(p) == \A q \in Processes \ {p} : Same(q)

(* A process goes from one call to the next: on a return to the rest. *)
Goes(p, calls) == HasLeft(p, calls) /\ Left(p) > 0 /\ code'[p] = Rest(calls, Left(p) - 1)

LEMMA GoesIs ==
  ASSUME NEW p \in Processes, NEW calls \in Seq(AllCalls), Goes(p, calls)
  PROVE  HasLeft(p, calls)' /\ Left(p)' = Left(p) - 1 /\ Left(p) \in 1 .. Len(calls)
<1> DEFINE n == Left(p)
<1>1. n \in 1 .. Len(calls) /\ code'[p] = Rest(calls, n - 1)
  BY DEF Goes, HasLeft
<1> HIDE DEF n
<1>2. Len(code'[p]) = n - 1
  BY <1>1, RestIs
<1> QED
  BY <1>1, <1>2 DEF n, HasLeft, Left

LEMMA ReturnGoes ==
  ASSUME Types, NEW p \in Processes, NEW calls \in Seq(AllCalls), NoBranches(calls),
         HasLeft(p, calls), code[p] # << >>, Return(p) \/ ReturnError(p)
  PROVE  Goes(p, calls) /\ \A q \in Processes \ {p} : code'[q] = code[q]
<1>1. \A error \in BOOLEAN : Continuation(p, error) = Rest(calls, Left(p) - 1)
  BY NextCall
<1>2. code'[p] = Rest(calls, Left(p) - 1) /\ \A q \in Processes \ {p} : code'[q] = code[q]
  BY <1>1 DEF Return, ReturnError, Types
<1>3. Left(p) > 0
  BY NextCall
<1> QED
  BY <1>2, <1>3 DEF Goes

LEMMA CloseGoes ==
  ASSUME Types, NEW p \in Processes, NEW calls \in Seq(AllCalls), NoBranches(calls),
         HasLeft(p, calls), Close(p)
  PROVE  /\ Goes(p, calls) /\ SameBut(p) /\ buffer'[p] = buffer[p]
         /\ ends'[p] = ends[p] \ {Head(code[p]).end}
         /\ UNCHANGED <<program, tty, status, contents>>
<1>1. code[p] # << >> /\ Return(p)
  BY DEF Close, Calls
<1>2. Goes(p, calls) /\ \A q \in Processes \ {p} : code'[q] = code[q]
  BY <1>1, ReturnGoes
<1> QED
  BY <1>2 DEF Close, SameBut, Same, Types

(* Nobody comes to be by a wait() or stops to be. *)
SameForked == \A q \in Processes : status'[q] = "none" <=> status[q] = "none"

LEMMA WaitGoes ==
  ASSUME Types, NEW p \in Processes, NEW calls \in Seq(AllCalls), NoBranches(calls),
         HasLeft(p, calls), Wait(p)
  PROVE  /\ Goes(p, calls) /\ SameBut(p) /\ buffer'[p] = buffer[p] /\ ends'[p] = ends[p]
         /\ UNCHANGED <<program, tty, contents>>
         /\ SameForked
         /\ \A q \in Processes : status'[q] = "running" <=> status[q] = "running"
<1>1. /\ code[p] # << >> /\ Head(code[p]).call = "wait"
      /\ Return(p) \/ ReturnError(p)
      /\ UNCHANGED <<program, tty, ends, buffer, contents>>
  BY DEF Wait, Calls
<1>2. Goes(p, calls) /\ \A q \in Processes \ {p} : code'[q] = code[q]
  BY <1>1, ReturnGoes
<1>3. Head(code[p]) \in AllCalls
  BY <1>1 DEF Types
<1>4. Head(code[p]).children \in SUBSET Processes
  BY <1>1, <1>3, CallsAre
<1>5. \/ UNCHANGED status
      \/ \E q \in Processes : status[q] = "zombie" /\ status' = [status EXCEPT ![q] = "gone"]
  BY <1>4 DEF Wait
<1>6. SameForked /\ \A q \in Processes : status'[q] = "running" <=> status[q] = "running"
  BY <1>5 DEF Types, SameForked
<1> QED
  BY <1>1, <1>2, <1>6 DEF SameBut, Same

LEMMA OpenGoes ==
  ASSUME Types, NEW p \in Processes, NEW calls \in Seq(AllCalls), NoBranches(calls),
         HasLeft(p, calls), Open(p), Head(code[p]).call = "pipe"
  PROVE  /\ Goes(p, calls) /\ SameBut(p) /\ buffer'[p] = buffer[p]
         /\ ends'[p] = ends[p] \cup {<<"r", Head(code[p]).file>>, <<"w", Head(code[p]).file>>}
         /\ UNCHANGED <<program, tty, status, contents>>
<1>1. code[p] # << >> /\ Return(p)
  BY DEF Open, Calls
<1>2. Goes(p, calls) /\ \A q \in Processes \ {p} : code'[q] = code[q]
  BY <1>1, ReturnGoes
<1>3. ends' = [ends EXCEPT ![p] = @ \cup {<<"r", Head(code[p]).file>>, <<"w", Head(code[p]).file>>}]
  BY DEF Open, Calls
<1> QED
  BY <1>2, <1>3 DEF Open, SameBut, Same, Types

(* After a failure nothing is left to do but to exit. *)
LEMMA FailureGoes ==
  ASSUME Types, NEW p \in Processes, NEW calls \in Seq(AllCalls),
         HasLeft(p, calls), Failure(p)
  PROVE  /\ HasLeft(p, calls)' /\ Left(p)' = 0 /\ code'[p] = << >> /\ SameBut(p)
         /\ buffer'[p] = buffer[p] /\ ends'[p] = ends[p]
         /\ UNCHANGED <<program, tty, status>>
         /\ \A f \in (Files \cup Pipes) \ {"stderr"} : contents'[f] = contents[f]
<1>1. code' = [code EXCEPT ![p] = << >>]
  BY DEF Failure
<1>2. code'[p] = << >> /\ \A q \in Processes \ {p} : code'[q] = code[q]
  BY <1>1 DEF Types
<1>3. Rest(calls, 0) = << >> /\ Len(calls) \in Nat
  BY RestIs
<1>4. HasLeft(p, calls)' /\ Left(p)' = 0
  BY <1>2, <1>3 DEF HasLeft, Left
<1> QED
  BY <1>2, <1>4 DEF Failure, SameBut, Same, Types

LEMMA DieGoes ==
  ASSUME Types, NEW p \in Processes, status[p] = "running", NEW calls \in Seq(AllCalls),
         HasLeft(p, calls), Die(p)
  PROVE  /\ HasLeft(p, calls)' /\ Left(p)' = 0 /\ code'[p] = << >> /\ SameBut(p)
         /\ buffer'[p] = NothingBuffered /\ ends'[p] = {}
         /\ SameForked /\ status'[p] # "running"
         /\ \A q \in Processes \ {p} : status'[q] = "running" <=> status[q] = "running"
<1>1. code' = [code EXCEPT ![p] = << >>]
  BY DEF Die
<1>2. code'[p] = << >> /\ \A q \in Processes \ {p} : code'[q] = code[q]
  BY <1>1 DEF Types
<1>3. Rest(calls, 0) = << >> /\ Len(calls) \in Nat
  BY RestIs
<1>4. HasLeft(p, calls)' /\ Left(p)' = 0
  BY <1>2, <1>3 DEF HasLeft, Left
<1>5. /\ buffer'[p] = NothingBuffered /\ ends'[p] = {}
      /\ \A q \in Processes \ {p} : buffer'[q] = buffer[q] /\ ends'[q] = ends[q]
  BY DEF Die, Types
<1>6. /\ SameForked /\ status'[p] # "running"
      /\ \A q \in Processes \ {p} : status'[q] = "running" <=> status[q] = "running"
  BY DEF Die, SameForked, Types
<1> QED
  BY <1>2, <1>4, <1>5, <1>6 DEF SameBut, Same

LEMMA ForkGoes ==
  ASSUME Types, NEW p \in Processes, NEW calls \in Seq(AllCalls), NoBranches(calls),
         HasLeft(p, calls), Fork(p), NEW child \in Processes \ {p}, Head(code[p]).child = child
  PROVE  /\ Goes(p, calls)
         /\ code'[child] = Head(code[p]).code /\ status'[child] = "running"
         /\ ends'[child] = ends[p] /\ buffer'[child] = buffer[p]
         /\ ends'[p] = ends[p] /\ buffer'[p] = buffer[p]
         /\ \A q \in Processes \ {p, child} : Same(q)
         /\ \A q \in Processes \ {child} : status'[q] = status[q]
         /\ UNCHANGED <<program, tty, contents>>
<1> DEFINE rest == Continuation(p, FALSE)
<1>1. /\ code[p] # << >>
      /\ code' = [code EXCEPT ![p] = rest, ![child] = Head(code[p]).code]
  BY DEF Fork, Calls
<1>2. rest = Rest(calls, Left(p) - 1)
  BY <1>1, NextCall
<1>3. Left(p) > 0
  BY <1>1, NextCall
<1> HIDE DEF rest
<1>4. /\ code'[p] = rest /\ code'[child] = Head(code[p]).code
      /\ \A q \in Processes \ {p, child} : code'[q] = code[q]
  BY <1>1 DEF Types
<1> QED
  BY <1>2, <1>3, <1>4 DEF Fork, Goes, Same, Types

LEMMA ExitGoes ==
  ASSUME Types, NEW p \in Processes, NEW calls \in Seq(AllCalls),
         HasLeft(p, calls), Exit(p)
  PROVE  /\ HasLeft(p, calls)' /\ Left(p)' = 0 /\ code'[p] = << >> /\ SameBut(p)
         /\ buffer'[p] = NothingBuffered /\ ends'[p] = {}
         /\ SameForked /\ status'[p] # "running"
         /\ \A q \in Processes \ {p} : status'[q] = "running" <=> status[q] = "running"
         /\ UNCHANGED <<program, tty>>
         /\ contents'["stdout"] = IF HasOpen(p, "stdout")
                                  THEN contents["stdout"] \o buffer[p]["stdout"]
                                  ELSE contents["stdout"]
         /\ \A f \in Pipes : contents'[f] = contents[f]
<1>1. status[p] = "running" /\ Die(p) /\ contents' = Flushed(p, Streams)
      /\ UNCHANGED <<program, tty>>
  BY DEF Exit
<1>2. /\ contents'["stdout"] = IF HasOpen(p, "stdout")
                               THEN contents["stdout"] \o buffer[p]["stdout"]
                               ELSE contents["stdout"]
      /\ \A f \in Pipes : contents'[f] = contents[f]
  BY <1>1 DEF Flushed, Types, Files, Streams, Pipes
<1> QED
  BY <1>1, <1>2, DieGoes

----------------------------------------------------------------------------
(* pipes_io.c *)

writer == << close_r("pipe1"), write("pipe1", MESSAGE), close_w("pipe1") >>
reader == << close_w("pipe1"), whileRead("pipe1", BUFFER), close_r("pipe1") >>

(* The reader when it has n more lines to print that it has read, after the k-th. *)
LinesFrom(k, n) == [i \in 1 .. n |-> printf(MESSAGE[k + i])]
LoopFrom(k, n)  == LinesFrom(k, n) \o << whileRead("pipe1", BUFFER), close_r("pipe1") >>

(* A process is forked when its parent comes to it, and not before. *)
Forked ==
  /\ Left("parent") >= 6 => status["child"] = "none"
  /\ Left("parent") = 5 => status["child"] # "none"
  /\ Left("parent") >= 5 => status["reader"] = "none"
  /\ status["reader"] # "none" => status["child"] # "none"
  /\ status["child"] = "none" => contents["pipe1"] = << >>

(* The parent keeps both ends until it has forked both children, and the   *)
(* writer its write end until it has written.                              *)
EndsHeld ==
  /\ Left("parent") \in 4 .. 6 =>
       <<"r", "pipe1">> \in ends["parent"] /\ <<"w", "pipe1">> \in ends["parent"]
  /\ Left("child") > 0 => <<"w", "pipe1">> \in ends["child"]
  /\ \A p \in Processes : status[p] = "running" => <<"w", "stdout">> \in ends[p]

(* Only the reader prints; on a terminal its lines are output at once. *)
ReaderPrints ==
  /\ buffer["parent"]["stdout"] = << >> /\ buffer["child"]["stdout"] = << >>
  /\ tty => buffer["reader"]["stdout"] = << >>
  /\ status["reader"] = "none" => contents["stdout"] = << >>

Sent    == status["child"] # "none" /\ Left("child") <= 1
printed == contents["stdout"] \o buffer["reader"]["stdout"]

(* The reader is before its loop, in it with n lines that it has read and  *)
(* not printed, or behind it with the whole message printed.               *)
ReaderAt(n) ==
  \/ n = 0 /\ status["reader"] = "none"
  \/ n = 0 /\ code["reader"] = reader /\ <<"r", "pipe1">> \in ends["reader"]
  \/ code["reader"] = LoopFrom(Len(printed), n) /\ <<"r", "pipe1">> \in ends["reader"]
  \/ n = 0 /\ code["reader"] \in {<< close_r("pipe1") >>, << >>} /\ Len(printed) = Len(MESSAGE)

(* What is printed, what is read and not printed, and what is in the pipe  *)
(* are the message, one after the other.                                   *)
Flow(n) ==
  /\ Len(printed) + n + Len(contents["pipe1"]) = IF Sent THEN Len(MESSAGE) ELSE 0
  /\ \A i \in 1 .. Len(printed) : printed[i] = <<"reader", MESSAGE[i]>>
  /\ \A i \in 1 .. Len(contents["pipe1"]) : contents["pipe1"][i] = MESSAGE[Len(printed) + n + i]

MessageFlows ==
  status["reader"] # "none" \/ Left("parent") >= 5 =>
    \E n \in 0 .. Len(MESSAGE) : ReaderAt(n) /\ Flow(n)

PipesIO ==
  program = "pipes_io" =>
    /\ HasLeft("parent", pipes_io_c) /\ HasLeft("child", writer)
    /\ Forked /\ EndsHeld /\ ReaderPrints /\ MessageFlows

LEMMA WriterIs ==
  /\ writer \in Seq(AllCalls) /\ Len(writer) = 3 /\ NoBranches(writer)
  /\ writer[1] = close_r("pipe1") /\ writer[2] = write("pipe1", MESSAGE)
  /\ writer[3] = close_w("pipe1")
<1>1. /\ close_r("pipe1") \in AllCalls /\ close_w("pipe1") \in AllCalls
      /\ write("pipe1", MESSAGE) \in AllCalls
  BY FilesAre, Parameters, SimpleCallsAre, SimpleEverywhere
<1>2. writer \in Seq(AllCalls)
  BY <1>1 DEF writer
<1>3. /\ Len(writer) = 3 /\ writer[1] = close_r("pipe1")
      /\ writer[2] = write("pipe1", MESSAGE) /\ writer[3] = close_w("pipe1")
  BY DEF writer
<1>4. NoBranches(writer)
  BY <1>3 DEF NoBranches, close_r, write, close_w
<1> QED
  BY <1>2, <1>3, <1>4

LEMMA ParentIs ==
  /\ pipes_io_c \in Seq(AllCalls) /\ Len(pipes_io_c) = 7 /\ NoBranches(pipes_io_c)
  /\ pipes_io_c[1] = pipe("pipe1") /\ pipes_io_c[2] = fork("child", writer)
  /\ pipes_io_c[3] = fork("reader", reader) /\ pipes_io_c[4] = close_r("pipe1")
  /\ pipes_io_c[5] = close_w("pipe1") /\ pipes_io_c[6] = waitpid({"child"})
  /\ pipes_io_c[7] = waitpid({"reader"})
<1>1. /\ Len(pipes_io_c) = 7
      /\ pipes_io_c[1] = pipe("pipe1") /\ pipes_io_c[2] = fork("child", writer)
      /\ pipes_io_c[3] = fork("reader", reader) /\ pipes_io_c[4] = close_r("pipe1")
      /\ pipes_io_c[5] = close_w("pipe1") /\ pipes_io_c[6] = waitpid({"child"})
      /\ pipes_io_c[7] = waitpid({"reader"})
  BY DEF pipes_io_c, writer, reader
<1>2. NoBranches(pipes_io_c)
  BY <1>1 DEF NoBranches, pipe, fork, close_r, close_w, waitpid
<1> QED
  BY <1>1, <1>2, pipes_io_cIs

LEMMA LinesFromAre ==
  ASSUME NEW k \in Nat, NEW n \in Nat, k + n <= Len(MESSAGE)
  PROVE  /\ LinesFrom(k, n) \in Seq(AllCalls) /\ Len(LinesFrom(k, n)) = n
         /\ \A i \in 1 .. n : LinesFrom(k, n)[i] = printf(MESSAGE[k + i])
<1>1. MESSAGE \in Seq(Texts)
  BY Parameters
<1>2. \A i \in 1 .. n : MESSAGE[k + i] \in Texts
  BY <1>1
<1>3. \A i \in 1 .. n : printf(MESSAGE[k + i]) \in AllCalls
  BY <1>2, PrintfIs
<1> QED
  BY <1>3 DEF LinesFrom

LEMMA LoopIs ==
  ASSUME NEW k \in Nat, NEW n \in Nat, k + n <= Len(MESSAGE)
  PROVE  /\ LoopFrom(k, n) \in Seq(AllCalls) /\ LoopFrom(k, n) # << >>
         /\ n > 0 => /\ Head(LoopFrom(k, n)) = printf(MESSAGE[k + 1])
                     /\ Tail(LoopFrom(k, n)) = LoopFrom(k + 1, n - 1)
         /\ n = 0 => LoopFrom(k, n) = << whileRead("pipe1", BUFFER), close_r("pipe1") >>
         /\ Head(LoopFrom(k, n)).call # "onError"
<1> DEFINE end == << whileRead("pipe1", BUFFER), close_r("pipe1") >>
           these == LinesFrom(k, n)
           those == LinesFrom(k + 1, n - 1)
<1>1. end \in Seq(AllCalls) /\ Len(end) = 2 /\ Head(end).call # "onError" /\ end # << >>
  <2>1. whileRead("pipe1", BUFFER) \in AllCalls /\ close_r("pipe1") \in AllCalls
    BY FilesAre, Parameters, SimpleCallsAre, SimpleEverywhere
  <2> QED
    BY <2>1 DEF whileRead
<1>2. LoopFrom(k, n) = these \o end /\ LoopFrom(k + 1, n - 1) = those \o end
  BY DEF LoopFrom
<1>3. /\ these \in Seq(AllCalls) /\ Len(these) = n
      /\ \A i \in 1 .. n : these[i] = printf(MESSAGE[k + i])
  BY LinesFromAre
<1>4. n > 0 => /\ those \in Seq(AllCalls) /\ Len(those) = n - 1
               /\ \A i \in 1 .. n - 1 : those[i] = these[i + 1]
  <2>1. SUFFICES ASSUME n > 0
                 PROVE  /\ those \in Seq(AllCalls) /\ Len(those) = n - 1
                        /\ \A i \in 1 .. n - 1 : those[i] = these[i + 1]
    OBVIOUS
  <2>2. n - 1 \in Nat /\ k + 1 \in Nat /\ (k + 1) + (n - 1) <= Len(MESSAGE)
    BY <2>1, Parameters
  <2>3. /\ those \in Seq(AllCalls) /\ Len(those) = n - 1
        /\ \A i \in 1 .. n - 1 : those[i] = printf(MESSAGE[k + 1 + i])
    BY <2>2, LinesFromAre
  <2> HIDE DEF these, those
  <2>4. ASSUME NEW i \in 1 .. n - 1 PROVE those[i] = these[i + 1]
    <3>1. i + 1 \in 1 .. n /\ k + (i + 1) = k + 1 + i
      OBVIOUS
    <3>2. these[i + 1] = printf(MESSAGE[k + (i + 1)])
      BY <1>3, <3>1
    <3> QED
      BY <2>3, <3>1, <3>2
  <2> QED
    BY <2>3, <2>4
<1>5. printf(MESSAGE[k + 1]).call # "onError"
  BY DEF printf
<1>6. end \in Seq(AllCalls) /\ end # << >> /\ these \in Seq(AllCalls)
  BY <1>1, <1>3
<1>7. n = 0 => these = << >>
  BY <1>3
<1>8. n > 0 => these # << >> /\ these[1] = printf(MESSAGE[k + 1]) /\ Tail(these) = those
  <2> SUFFICES ASSUME n > 0
               PROVE  these # << >> /\ these[1] = printf(MESSAGE[k + 1]) /\ Tail(these) = those
    OBVIOUS
  <2>1. these # << >> /\ these[1] = printf(MESSAGE[k + 1])
    BY <1>3
  <2> HIDE DEF these, those
  <2>2. Tail(these) \in Seq(AllCalls) /\ Len(Tail(these)) = n - 1
    BY <1>3
  <2>3. \A i \in 1 .. n - 1 : Tail(these)[i] = those[i]
    BY <1>3, <1>4
  <2>4. Tail(these) = those
    BY <1>4, <2>2, <2>3, SeqEqual
  <2> QED
    BY <2>1, <2>4
<1> HIDE DEF end, these, those
<1>9. CASE n = 0
  <2>1. << >> \o end = end
    BY <1>6, ConcatEmptySeq
  <2>2. these \o end = end
    BY <1>7, <1>9, <2>1
  <2>3. LoopFrom(k, n) = end
    BY <1>2, <2>2
  <2>4. LoopFrom(k, n) \in Seq(AllCalls) /\ LoopFrom(k, n) # << >>
    BY <1>6, <2>3
  <2>5. Head(LoopFrom(k, n)).call # "onError"
    BY <1>1, <2>3
  <2> QED
    BY <1>9, <2>3, <2>4, <2>5 DEF end
<1>10. CASE n > 0
  <2>1. /\ these \o end \in Seq(AllCalls) /\ these \o end # << >>
        /\ Head(these \o end) = these[1] /\ Tail(these \o end) = Tail(these) \o end
    BY <1>6, <1>8, <1>10, ConcatTail
  <2>2. LoopFrom(k, n) \in Seq(AllCalls) /\ LoopFrom(k, n) # << >>
    BY <1>2, <2>1
  <2>3. Head(LoopFrom(k, n)) = printf(MESSAGE[k + 1])
    BY <1>2, <1>8, <1>10, <2>1
  <2>4. Tail(LoopFrom(k, n)) = LoopFrom(k + 1, n - 1)
    BY <1>2, <1>8, <1>10, <2>1
  <2>5. Head(LoopFrom(k, n)).call # "onError"
    BY <1>5, <2>3
  <2> QED
    BY <1>10, <2>2, <2>3, <2>4, <2>5
<1> QED
  BY <1>9, <1>10

(* What PipesIO says, without its condition. *)
InPipesIO ==
  /\ program = "pipes_io" /\ Types
  /\ HasLeft("parent", pipes_io_c) /\ HasLeft("child", writer)
  /\ Forked /\ EndsHeld /\ ReaderPrints /\ MessageFlows

LEMMA PrintedIs ==
  ASSUME Types
  PROVE  /\ contents["stdout"] \in Lines /\ buffer["reader"]["stdout"] \in Lines
         /\ printed \in Lines /\ Len(printed) \in Nat
         /\ contents["pipe1"] \in Seq(Texts) /\ Len(contents["pipe1"]) \in Nat
         /\ Len(MESSAGE) \in Nat
<1>1. contents["stdout"] \in Lines /\ buffer["reader"]["stdout"] \in Lines
  BY FilesAre DEF Types, Processes
<1>2. printed \in Lines
  BY <1>1, ConcatProperties DEF printed, Lines
<1>3. contents["pipe1"] \in Seq(Texts) /\ MESSAGE \in Seq(Texts)
  BY FilesAre, Parameters DEF Types
<1>4. Len(printed) \in Nat /\ Len(contents["pipe1"]) \in Nat /\ Len(MESSAGE) \in Nat
  BY <1>2, <1>3, LenProperties DEF Lines
<1> QED
  BY <1>1, <1>2, <1>3, <1>4

LEMMA FlowIs ==
  ASSUME Types, NEW n \in 0 .. Len(MESSAGE), Flow(n)
  PROVE  /\ Len(printed) + n + Len(contents["pipe1"]) <= Len(MESSAGE)
         /\ ~Sent => Len(printed) = 0 /\ n = 0 /\ Len(contents["pipe1"]) = 0
         /\ Sent => Len(printed) + n + Len(contents["pipe1"]) = Len(MESSAGE)
         /\ Len(printed) \in Nat /\ Len(printed) + n <= Len(MESSAGE)
<1> DEFINE a == Len(printed)
           b == Len(contents["pipe1"])
           all == Len(MESSAGE)
<1>1. a \in Nat /\ b \in Nat /\ all \in Nat
  BY PrintedIs
<1>2. a + n + b = IF Sent THEN all ELSE 0
  BY DEF Flow
<1> HIDE DEF a, b, all
<1>3. /\ a + n + b <= all
      /\ ~Sent => a = 0 /\ n = 0 /\ b = 0
      /\ Sent => a + n + b = all
      /\ a \in Nat /\ a + n <= all
  BY <1>1, <1>2
<1> QED
  BY <1>3 DEF a, b, all

(* Steps that the message takes no part in. *)
LEMMA FlowsOn ==
  ASSUME MessageFlows, printed' = printed, Sent' <=> Sent,
         contents'["pipe1"] = contents["pipe1"],
         code'["reader"] = code["reader"], ends'["reader"] = ends["reader"],
         status'["reader"] = "none" <=> status["reader"] = "none",
         Left("parent")' >= 5 => Left("parent") >= 5
  PROVE  MessageFlows'
BY DEF MessageFlows, ReaderAt, Flow

(* A step of the parent that is no fork(). *)
LEMMA ParentGoesOn ==
  ASSUME InPipesIO, UNCHANGED <<program, tty>>, SameBut("parent"), SameForked,
         \A q \in {"child", "reader"} : status'[q] = "running" <=> status[q] = "running",
         HasLeft("parent", pipes_io_c)', Left("parent")' <= Left("parent"), Left("parent")' # 5,
         Left("parent")' \in 4 .. 6 =>
            <<"r", "pipe1">> \in ends'["parent"] /\ <<"w", "pipe1">> \in ends'["parent"],
         buffer'["parent"]["stdout"] = << >>,
         status'["parent"] = "running" => <<"w", "stdout">> \in ends'["parent"],
         contents'["stdout"] = contents["stdout"], contents'["pipe1"] = contents["pipe1"]
  PROVE  PipesIO'
<1>1. HasLeft("child", writer)'
  BY DEF InPipesIO, HasLeft, Left, SameBut, Same, Processes
<1>2. Left("parent") \in Nat /\ Left("parent")' \in Nat
  BY ParentIs DEF InPipesIO, HasLeft
<1>3. Forked'
  BY <1>2 DEF InPipesIO, Forked, SameForked, Processes
<1>4. EndsHeld'
  BY DEF InPipesIO, EndsHeld, SameBut, Same, Processes, Left
<1>5. ReaderPrints'
  BY DEF InPipesIO, ReaderPrints, SameBut, Same, SameForked, Processes
<1>6. MessageFlows'
  <2>1. printed' = printed
    BY DEF SameBut, Same, Processes, printed
  <2>2. Sent' <=> Sent
    BY DEF SameBut, Same, SameForked, Processes, Sent, Left
  <2>3. /\ code'["reader"] = code["reader"] /\ ends'["reader"] = ends["reader"]
        /\ status'["reader"] = "none" <=> status["reader"] = "none"
    BY DEF SameBut, Same, SameForked, Processes
  <2> QED
    BY <1>2, <2>1, <2>2, <2>3, FlowsOn DEF InPipesIO
<1> QED
  BY <1>1, <1>3, <1>4, <1>5, <1>6 DEF PipesIO

LEMMA ParentForks ==
  ASSUME InPipesIO, Fork("parent"), Left("parent") \in {5, 6}
  PROVE  PipesIO'
<1> DEFINE child == IF Left("parent") = 6 THEN "child" ELSE "reader"
           calls == IF Left("parent") = 6 THEN writer ELSE reader
<1>1. HasLeft("parent", pipes_io_c) /\ Types /\ code["parent"] # << >>
  BY DEF InPipesIO, Fork, Calls
<1>2. Head(code["parent"]) = fork(child, calls)
  <2>1. Head(code["parent"]) = pipes_io_c[7 - Left("parent") + 1]
    BY <1>1, ParentIs, NextCall DEF Processes
  <2> QED
    BY <2>1, ParentIs
<1>3. /\ Head(code["parent"]).child = child /\ Head(code["parent"]).code = calls
      /\ "parent" \in Processes /\ child \in Processes \ {"parent"}
  BY <1>2 DEF fork, Processes
<1> HIDE DEF child, calls
<1>4. /\ Goes("parent", pipes_io_c)
      /\ code'[child] = calls /\ status'[child] = "running"
      /\ ends'[child] = ends["parent"] /\ buffer'[child] = buffer["parent"]
      /\ ends'["parent"] = ends["parent"] /\ buffer'["parent"] = buffer["parent"]
      /\ \A q \in Processes \ {"parent", child} : Same(q)
      /\ \A q \in Processes \ {child} : status'[q] = status[q]
      /\ UNCHANGED <<program, tty, contents>>
  BY <1>1, <1>3, ParentIs, ForkGoes
<1>5. HasLeft("parent", pipes_io_c)' /\ Left("parent")' = Left("parent") - 1
  BY <1>3, <1>4, ParentIs, GoesIs
<1>6. status["parent"] = "running"
  BY DEF Fork, Calls
<1>7. CASE Left("parent") = 6
  <2>1. child = "child" /\ calls = writer
    BY <1>7 DEF child, calls
  <2>2. status["child"] = "none" /\ status["reader"] = "none" /\ contents["pipe1"] = << >>
    BY <1>7 DEF InPipesIO, Forked
  <2>3. HasLeft("child", writer)' /\ Left("child")' = 3
    BY <1>4, <2>1, WriterIs, WholeIs DEF Processes, HasLeft, Left
  <2>4. Forked' /\ EndsHeld'
    BY <1>4, <1>5, <1>6, <1>7, <2>1, <2>2, <2>3 DEF InPipesIO, Forked, EndsHeld, Processes, Same
  <2>5. ReaderPrints'
    BY <1>4, <2>1, <2>2 DEF InPipesIO, ReaderPrints, Processes, Same
  <2>6. printed' = printed /\ ~Sent /\ ~Sent'
    <3>1. ~Sent
      BY <2>2 DEF Sent
    <3>2. ~Sent'
      BY <2>3 DEF Sent
    <3> QED
      BY <1>4, <2>1, <3>1, <3>2 DEF printed, Same, Processes
  <2>7. /\ code'["reader"] = code["reader"] /\ ends'["reader"] = ends["reader"]
        /\ status'["reader"] = "none" <=> status["reader"] = "none"
    BY <1>4, <2>1 DEF Same, Processes
  <2>8. MessageFlows'
    BY <1>4, <1>5, <1>7, <2>6, <2>7, FlowsOn DEF InPipesIO
  <2> QED
    BY <1>5, <2>3, <2>4, <2>5, <2>8 DEF PipesIO
<1>8. CASE Left("parent") = 5
  <2>1. child = "reader" /\ calls = reader
    BY <1>8 DEF child, calls
  <2>2. /\ status["child"] # "none" /\ status["reader"] = "none"
        /\ code["reader"] = << >> /\ buffer["reader"]["stdout"] = << >>
    BY <1>8, FilesAre DEF InPipesIO, Forked, Types, Processes, NothingBuffered
  <2>3. HasLeft("child", writer)'
    BY <1>4, <2>1 DEF InPipesIO, HasLeft, Left, Same, Processes
  <2>4. Forked' /\ EndsHeld'
    BY <1>4, <1>5, <1>6, <1>8, <2>1, <2>2
       DEF InPipesIO, Forked, EndsHeld, Processes, Same, Left
  <2>5. ReaderPrints'
    BY <1>4, <2>1, <2>2 DEF InPipesIO, ReaderPrints, Processes, Same
  <2>6. printed' = printed /\ (Sent' <=> Sent)
    BY <1>4, <2>1, <2>2 DEF InPipesIO, ReaderPrints, printed, Sent, Same, Processes, Left
  <2>7. PICK n \in 0 .. Len(MESSAGE) : ReaderAt(n) /\ Flow(n)
    BY <1>8 DEF InPipesIO, MessageFlows
  <2>8. n = 0
    <3>1. Len(printed) \in Nat /\ Len(printed) + n <= Len(MESSAGE)
      BY <1>1, <2>7, FlowIs
    <3>2. LoopFrom(Len(printed), n) # << >>
      BY <3>1, LoopIs
    <3> QED
      BY <2>2, <2>7, <3>2 DEF ReaderAt
  <2>9. ReaderAt(0)'
    BY <1>4, <1>8, <2>1 DEF InPipesIO, EndsHeld, ReaderAt
  <2>10. Flow(0)'
    BY <1>4, <2>6, <2>7, <2>8 DEF Flow
  <2>11. MessageFlows'
    BY <2>9, <2>10, Parameters DEF MessageFlows
  <2> QED
    BY <1>5, <2>3, <2>4, <2>5, <2>11 DEF PipesIO
<1> QED
  BY <1>7, <1>8

LEMMA ParentSteps ==
  ASSUME InPipesIO, Step("parent")
  PROVE  PipesIO'
<1> DEFINE n == Left("parent")
           call == Head(code["parent"])
<1>1. /\ Types /\ HasLeft("parent", pipes_io_c) /\ n \in 0 .. 7 /\ "parent" \in Processes
      /\ buffer["parent"]["stdout"] = << >>
  BY ParentIs DEF InPipesIO, HasLeft, Processes, ReaderPrints
<1>2. status["parent"] = "running" /\ <<"w", "stdout">> \in ends["parent"]
  <2>1. status["parent"] = "running"
    BY <1>1, StepTakes
  <2> QED
    BY <1>1, <2>1 DEF InPipesIO, EndsHeld
<1>3. n = 0 <=> code["parent"] = << >>
  BY <1>1, ParentIs, NoneLeft
<1>4. n > 0 => call = pipes_io_c[7 - n + 1]
  <2>1. code["parent"] # << >> => Head(code["parent"]) = pipes_io_c[7 - Left("parent") + 1]
    BY <1>1, ParentIs, NextCall
  <2> QED
    BY <1>1, <1>3, <2>1
<1>5. CASE n = 0
  <2>1. Exit("parent")
    BY <1>1, <1>3, <1>5, StepTakes
  <2>2. /\ HasLeft("parent", pipes_io_c)' /\ Left("parent")' = 0 /\ SameBut("parent")
        /\ buffer'["parent"] = NothingBuffered
        /\ SameForked /\ status'["parent"] # "running"
        /\ \A q \in Processes \ {"parent"} : status'[q] = "running" <=> status[q] = "running"
        /\ UNCHANGED <<program, tty>>
        /\ contents'["stdout"] = contents["stdout"] \o buffer["parent"]["stdout"]
        /\ \A f \in Pipes : contents'[f] = contents[f]
    BY <1>1, <1>2, <2>1, ParentIs, ExitGoes DEF HasOpen
  <2>3. contents'["stdout"] = contents["stdout"]
    BY <1>1, <2>2, PrintedIs, ConcatEmptySeq DEF Lines
  <2>4. buffer'["parent"]["stdout"] = << >>
    BY <2>2, FilesAre DEF NothingBuffered
  <2> QED
    BY <1>5, <2>2, <2>3, <2>4, FilesAre, ParentGoesOn DEF Processes
<1>6. CASE Failure("parent")
  <2>1. /\ HasLeft("parent", pipes_io_c)' /\ Left("parent")' = 0 /\ SameBut("parent")
        /\ buffer'["parent"] = buffer["parent"] /\ ends'["parent"] = ends["parent"]
        /\ UNCHANGED <<program, tty, status>>
        /\ \A f \in (Files \cup Pipes) \ {"stderr"} : contents'[f] = contents[f]
    BY <1>1, <1>6, ParentIs, FailureGoes
  <2>2. contents'["stdout"] = contents["stdout"] /\ contents'["pipe1"] = contents["pipe1"]
    BY <2>1, FilesAre
  <2>3. SameForked
    BY <2>1 DEF SameForked
  <2> QED
    BY <1>1, <1>2, <2>1, <2>2, <2>3, ParentGoesOn DEF Processes
<1>7. CASE n = 7 /\ ~Failure("parent")
  <2>1. call = pipe("pipe1")
    BY <1>4, <1>7, ParentIs
  <2>2. call.call = "pipe" /\ call.file = "pipe1"
    BY <2>1 DEF pipe
  <2>3. Open("parent")
    BY <1>1, <1>3, <1>7, <2>2, StepTakes
  <2>4. /\ Goes("parent", pipes_io_c) /\ SameBut("parent") /\ buffer'["parent"] = buffer["parent"]
        /\ ends'["parent"] = ends["parent"] \cup {<<"r", "pipe1">>, <<"w", "pipe1">>}
        /\ UNCHANGED <<program, tty, status, contents>>
    BY <1>1, <2>2, <2>3, ParentIs, OpenGoes
  <2>5. HasLeft("parent", pipes_io_c)' /\ Left("parent")' = 6
    BY <1>1, <1>7, <2>4, ParentIs, GoesIs
  <2>6. SameForked
    BY <2>4 DEF SameForked
  <2> QED
    BY <1>1, <1>2, <1>7, <2>4, <2>5, <2>6, ParentGoesOn DEF Processes
<1>8. CASE n \in {5, 6} /\ ~Failure("parent")
  <2>1. call.call = "fork"
    BY <1>4, <1>8, ParentIs DEF fork
  <2>2. Fork("parent")
    BY <1>1, <1>3, <1>8, <2>1, StepTakes
  <2> QED
    BY <1>8, <2>2, ParentForks
<1>9. CASE n \in {3, 4} /\ ~Failure("parent")
  <2>1. call.call = "close" /\ (n = 4 => call.end = <<"r", "pipe1">>)
    BY <1>4, <1>9, ParentIs DEF close_r, close_w
  <2>2. Close("parent")
    BY <1>1, <1>3, <1>9, <2>1, StepTakes
  <2>3. /\ Goes("parent", pipes_io_c) /\ SameBut("parent") /\ buffer'["parent"] = buffer["parent"]
        /\ ends'["parent"] = ends["parent"] \ {call.end}
        /\ UNCHANGED <<program, tty, status, contents>>
    BY <1>1, <2>2, ParentIs, CloseGoes
  <2>4. HasLeft("parent", pipes_io_c)' /\ Left("parent")' = n - 1
    BY <1>1, <2>3, ParentIs, GoesIs
  <2>5. SameForked
    BY <2>3 DEF SameForked
  <2>6. call.end # <<"w", "stdout">>
    BY <1>4, <1>9, ParentIs DEF close_r, close_w
  <2> QED
    BY <1>1, <1>2, <1>9, <2>3, <2>4, <2>5, <2>6, ParentGoesOn DEF Processes
<1>10. CASE n \in {1, 2} /\ ~Failure("parent")
  <2>1. call.call = "wait"
    BY <1>4, <1>10, ParentIs DEF waitpid
  <2>2. Wait("parent")
    BY <1>1, <1>3, <1>10, <2>1, StepTakes
  <2>3. /\ Goes("parent", pipes_io_c) /\ SameBut("parent") /\ buffer'["parent"] = buffer["parent"]
        /\ ends'["parent"] = ends["parent"] /\ UNCHANGED <<program, tty, contents>>
        /\ SameForked
        /\ \A q \in Processes : status'[q] = "running" <=> status[q] = "running"
    BY <1>1, <2>2, ParentIs, WaitGoes
  <2>4. HasLeft("parent", pipes_io_c)' /\ Left("parent")' = n - 1
    BY <1>1, <2>3, ParentIs, GoesIs
  <2> QED
    BY <1>1, <1>2, <1>10, <2>3, <2>4, ParentGoesOn DEF Processes
<1> QED
  BY <1>1, <1>5, <1>6, <1>7, <1>8, <1>9, <1>10

(* A step of the writer or of the reader, apart from what it does to the message. *)
LEMMA ChildGoesOn ==
  ASSUME InPipesIO, NEW p \in {"child", "reader"}, status[p] = "running",
         UNCHANGED <<program, tty>>, SameBut(p), SameForked,
         \A q \in Processes \ {p} : status'[q] = "running" <=> status[q] = "running",
         HasLeft("child", writer)',
         Left("child")' > 0 => <<"w", "pipe1">> \in ends'["child"],
         status'[p] = "running" => <<"w", "stdout">> \in ends'[p],
         p = "child" => buffer'[p]["stdout"] = << >> /\ contents'["stdout"] = contents["stdout"],
         p = "reader" /\ tty => buffer'[p]["stdout"] = << >>,
         MessageFlows'
  PROVE  PipesIO'
<1>1. HasLeft("parent", pipes_io_c)' /\ Left("parent")' = Left("parent")
  BY DEF InPipesIO, HasLeft, Left, SameBut, Same, Processes
<1>2. status["child"] # "none"
  BY DEF InPipesIO, Forked
<1>3. Forked'
  BY <1>1, <1>2 DEF InPipesIO, Forked, SameForked, Processes
<1>4. EndsHeld'
  BY <1>1 DEF InPipesIO, EndsHeld, SameBut, Same, Processes
<1>5. ReaderPrints'
  BY DEF InPipesIO, ReaderPrints, SameBut, Same, SameForked, Processes
<1> QED
  BY <1>1, <1>3, <1>4, <1>5 DEF PipesIO

LEMMA WriterWrites ==
  ASSUME InPipesIO, Write("child"), Left("child") = 2
  PROVE  PipesIO'
<1>1. /\ Types /\ HasLeft("child", writer) /\ "child" \in Processes
      /\ buffer["child"]["stdout"] = << >> /\ "child" \in {"child", "reader"}
      /\ MESSAGE \in Seq(Texts)
  BY Parameters DEF InPipesIO, Processes, ReaderPrints
<1>2. status["child"] = "running" /\ code["child"] # << >> /\ <<"w", "stdout">> \in ends["child"]
  <2>1. status["child"] = "running" /\ code["child"] # << >>
    BY DEF Write, Calls
  <2> QED
    BY <1>1, <2>1 DEF InPipesIO, EndsHeld
<1>3. Head(code["child"]).file = "pipe1" /\ Head(code["child"]).bytes = MESSAGE
  <2>1. Head(code["child"]) = writer[3 - 2 + 1]
    BY <1>1, <1>2, WriterIs, NextCall
  <2> QED
    BY <2>1, WriterIs DEF write
<1>4. UNCHANGED <<program, tty>> /\ contents'["stdout"] = contents["stdout"]
  BY <1>1, <1>3, FilesAre DEF Write, Types, Files, Pipes, Streams
<1>5. ~Sent
  BY DEF Sent
<1>6. CASE /\ Readers("pipe1") # {}
           /\ contents' = [contents EXCEPT !["pipe1"] = contents["pipe1"] \o MESSAGE]
           /\ Return("child")
           /\ UNCHANGED <<status, ends, buffer>>
  <2>1. Goes("child", writer) /\ \A q \in Processes \ {"child"} : code'[q] = code[q]
    BY <1>1, <1>2, <1>6, WriterIs, ReturnGoes
  <2>2. HasLeft("child", writer)' /\ Left("child")' = 1
    BY <1>1, <2>1, WriterIs, GoesIs
  <2>3. SameBut("child") /\ SameForked
    BY <1>6, <2>1 DEF SameBut, Same, SameForked
  <2>4. printed' = printed
    BY <1>4, <1>6 DEF printed
  <2>5. Sent'
    BY <1>2, <1>6, <2>2 DEF Sent
  <2>6. contents'["pipe1"] = contents["pipe1"] \o MESSAGE
    BY <1>1, <1>6, FilesAre DEF Types
  <2>7. MessageFlows'
    <3>1. SUFFICES ASSUME status["reader"] # "none" \/ Left("parent") >= 5
                   PROVE  \E n \in 0 .. Len(MESSAGE) : ReaderAt(n)' /\ Flow(n)'
      BY <1>6, <2>1 DEF MessageFlows, Left, Processes
    <3>2. PICK n \in 0 .. Len(MESSAGE) : ReaderAt(n) /\ Flow(n)
      BY <3>1 DEF InPipesIO, MessageFlows
    <3>3. Len(printed) = 0 /\ n = 0 /\ contents["pipe1"] = << >>
      <4>1. Len(printed) = 0 /\ n = 0 /\ Len(contents["pipe1"]) = 0
        BY <1>1, <1>5, <3>2, FlowIs
      <4> QED
        BY <1>1, <4>1, PrintedIs, EmptySeq
    <3>4. ReaderAt(n)'
      BY <1>6, <2>1, <2>4, <3>2 DEF ReaderAt, Processes
    <3>5. contents'["pipe1"] = MESSAGE
      <4>1. << >> \o MESSAGE = MESSAGE
        BY <1>1, ConcatEmptySeq
      <4> QED
        BY <2>6, <3>3, <4>1
    <3>6. Flow(n)'
      BY <1>1, <2>4, <2>5, <3>3, <3>5 DEF Flow
    <3> QED
      BY <3>4, <3>6
  <2> QED
    BY <1>1, <1>2, <1>4, <1>6, <2>2, <2>3, <2>7, ChildGoesOn DEF InPipesIO, EndsHeld
<1>7. CASE Readers("pipe1") = {} /\ Die("child") /\ UNCHANGED contents
  <2>1. /\ HasLeft("child", writer)' /\ Left("child")' = 0 /\ SameBut("child")
        /\ buffer'["child"] = NothingBuffered
        /\ SameForked /\ status'["child"] # "running"
        /\ \A q \in Processes \ {"child"} : status'[q] = "running" <=> status[q] = "running"
    BY <1>1, <1>2, <1>7, WriterIs, DieGoes
  <2>2. /\ printed' = printed /\ code'["reader"] = code["reader"]
        /\ (status'["reader"] = "none" <=> status["reader"] = "none")
        /\ Left("parent")' = Left("parent")
    BY <1>7, <2>1 DEF printed, SameBut, Same, SameForked, Processes, Left
  <2>5. Sent'
    BY <1>1, <1>2, <2>1 DEF Sent, SameForked
  <2>3. MessageFlows'
    <3>1. SUFFICES ASSUME status["reader"] # "none" \/ Left("parent") >= 5
                   PROVE  \E n \in 0 .. Len(MESSAGE) : ReaderAt(n)' /\ Flow(n)'
      BY <2>2 DEF MessageFlows
    <3>2. PICK n \in 0 .. Len(MESSAGE) : ReaderAt(n) /\ Flow(n)
      BY <3>1 DEF InPipesIO, MessageFlows
    <3>3. <<"r", "pipe1">> \notin ends["parent"] /\ <<"r", "pipe1">> \notin ends["reader"]
      BY <1>7 DEF Readers, Processes
    <3>4. Left("parent") \in Nat /\ Left("parent") < 4
      <4>1. Left("parent") \in Nat /\ ~(Left("parent") >= 6)
        BY <1>2, ParentIs DEF InPipesIO, Forked, HasLeft
      <4> QED
        BY <3>3, <4>1 DEF InPipesIO, EndsHeld
    <3>5. Len(printed) = 0 /\ n = 0 /\ Len(contents["pipe1"]) = 0
      BY <1>1, <1>5, <3>2, FlowIs
    <3>6. /\ code["reader"] \in {<< close_r("pipe1") >>, << >>}
          /\ Len(printed) = Len(MESSAGE)
      BY <3>1, <3>2, <3>3, <3>4 DEF ReaderAt
    <3>7. ReaderAt(n)'
      BY <2>2, <3>5, <3>6 DEF ReaderAt
    <3>8. Flow(n)'
      BY <1>7, <2>2, <2>5, <3>5, <3>6 DEF Flow
    <3> QED
      BY <3>7, <3>8
  <2>4. buffer'["child"]["stdout"] = << >>
    BY <2>1, FilesAre DEF NothingBuffered
  <2> QED
    BY <1>1, <1>2, <1>4, <2>1, <2>3, <2>4, ChildGoesOn
<1> QED
  BY <1>1, <1>3, <1>6, <1>7, FilesAre DEF Write, Types

LEMMA WriterSteps ==
  ASSUME InPipesIO, Step("child")
  PROVE  PipesIO'
<1> DEFINE n == Left("child")
           call == Head(code["child"])
<1>1. /\ Types /\ HasLeft("child", writer) /\ n \in 0 .. 3 /\ "child" \in Processes
      /\ buffer["child"]["stdout"] = << >> /\ "child" \in {"child", "reader"}
  BY WriterIs DEF InPipesIO, HasLeft, Processes, ReaderPrints
<1>2. status["child"] = "running" /\ <<"w", "stdout">> \in ends["child"]
  <2>1. status["child"] = "running"
    BY <1>1, StepTakes
  <2> QED
    BY <1>1, <2>1 DEF InPipesIO, EndsHeld
<1>3. n = 0 <=> code["child"] = << >>
  BY <1>1, WriterIs, NoneLeft
<1>4. n > 0 => call = writer[3 - n + 1]
  <2>1. code["child"] # << >> => Head(code["child"]) = writer[3 - Left("child") + 1]
    BY <1>1, WriterIs, NextCall
  <2> QED
    BY <1>1, <1>3, <2>1
<1>5. ASSUME SameBut("child"), SameForked, contents'["stdout"] = contents["stdout"],
             contents'["pipe1"] = contents["pipe1"], Left("child")' <= 1 <=> n <= 1
      PROVE  MessageFlows'
  <2>1. printed' = printed
    BY <1>5 DEF printed, SameBut, Same, Processes
  <2>2. Sent' <=> Sent
    BY <1>1, <1>5 DEF Sent, SameForked
  <2>3. /\ code'["reader"] = code["reader"] /\ ends'["reader"] = ends["reader"]
        /\ (status'["reader"] = "none" <=> status["reader"] = "none")
        /\ Left("parent")' = Left("parent")
    BY <1>5 DEF SameBut, Same, SameForked, Processes, Left
  <2> QED
    BY <1>5, <2>1, <2>2, <2>3, FlowsOn DEF InPipesIO
<1>6. CASE n = 0
  <2>1. Exit("child")
    BY <1>1, <1>3, <1>6, StepTakes
  <2>2. /\ HasLeft("child", writer)' /\ Left("child")' = 0 /\ SameBut("child")
        /\ buffer'["child"] = NothingBuffered
        /\ SameForked /\ status'["child"] # "running"
        /\ \A q \in Processes \ {"child"} : status'[q] = "running" <=> status[q] = "running"
        /\ UNCHANGED <<program, tty>>
        /\ contents'["stdout"] = contents["stdout"] \o buffer["child"]["stdout"]
        /\ \A f \in Pipes : contents'[f] = contents[f]
    BY <1>1, <1>2, <2>1, WriterIs, ExitGoes DEF HasOpen
  <2>3. contents'["stdout"] = contents["stdout"] /\ contents'["pipe1"] = contents["pipe1"]
    BY <1>1, <2>2, PrintedIs, ConcatEmptySeq, FilesAre DEF Lines
  <2>4. buffer'["child"]["stdout"] = << >>
    BY <2>2, FilesAre DEF NothingBuffered
  <2>5. MessageFlows'
    BY <1>5, <1>6, <2>2, <2>3
  <2> QED
    BY <1>1, <1>2, <2>2, <2>3, <2>4, <2>5, ChildGoesOn
<1>7. CASE n = 2
  <2>1. call.call = "write"
    BY <1>4, <1>7, WriterIs DEF write
  <2>2. Write("child")
    BY <1>1, <1>3, <1>7, <2>1, StepTakes
  <2> QED
    BY <1>7, <2>2, WriterWrites
<1>8. CASE n \in {1, 3}
  <2>1. /\ call.call = "close" /\ call.end # <<"w", "stdout">>
        /\ n = 3 => call.end # <<"w", "pipe1">>
    BY <1>4, <1>8, WriterIs DEF close_r, close_w
  <2>2. Close("child")
    BY <1>1, <1>3, <1>8, <2>1, StepTakes
  <2>3. /\ Goes("child", writer) /\ SameBut("child") /\ buffer'["child"] = buffer["child"]
        /\ ends'["child"] = ends["child"] \ {call.end}
        /\ UNCHANGED <<program, tty, status, contents>>
    BY <1>1, <2>2, WriterIs, CloseGoes
  <2>4. HasLeft("child", writer)' /\ Left("child")' = n - 1
    BY <1>1, <2>3, WriterIs, GoesIs
  <2>5. SameForked
    BY <2>3 DEF SameForked
  <2>6. MessageFlows'
    BY <1>5, <1>8, <2>3, <2>4, <2>5
  <2>7. <<"w", "pipe1">> \in ends["child"]
    BY <1>8 DEF InPipesIO, EndsHeld
  <2> QED
    BY <1>1, <1>2, <1>8, <2>1, <2>3, <2>4, <2>5, <2>6, <2>7, ChildGoesOn
<1> QED
  BY <1>1, <1>6, <1>7, <1>8

(* On a return without a branch. *)
LEMMA ReturnIs ==
  ASSUME Types, NEW p \in Processes, Return(p),
         Tail(code[p]) = << >> \/ Head(Tail(code[p])).call # "onError"
  PROVE  code'[p] = Tail(code[p]) /\ \A q \in Processes \ {p} : code'[q] = code[q]
BY DEF Return, Continuation, Types

(* The message as the reader goes on: it has printed, or it has closed an end or ended. *)
LEMMA ReaderFlows ==
  ASSUME InPipesIO, NEW n \in 0 .. Len(MESSAGE), Flow(n), NEW m \in 0 .. Len(MESSAGE), ReaderAt(m)',
         SameBut("reader"), SameForked, contents'["pipe1"] = contents["pipe1"],
         Len(printed') + m = Len(printed) + n,
         \A i \in 1 .. Len(printed') : printed'[i] = <<"reader", MESSAGE[i]>>
  PROVE  MessageFlows'
<1>1. Sent' <=> Sent
  BY DEF Sent, SameForked, SameBut, Same, Processes, Left
<1>2. Len(printed) + n + Len(contents["pipe1"]) = IF Sent THEN Len(MESSAGE) ELSE 0
  BY DEF Flow
<1>3. \A i \in 1 .. Len(contents["pipe1"]) : contents["pipe1"][i] = MESSAGE[Len(printed) + n + i]
  BY DEF Flow
<1>4. Flow(m)'
  BY <1>1, <1>2, <1>3 DEF Flow
<1> QED
  BY <1>4 DEF MessageFlows

LEMMA ReaderCloses ==
  ASSUME InPipesIO, Close("reader"), NEW n \in 0 .. Len(MESSAGE), ReaderAt(n), Flow(n),
         \/ code["reader"] = reader /\ n = 0 /\ <<"r", "pipe1">> \in ends["reader"]
         \/ code["reader"] = << close_r("pipe1") >> /\ n = 0 /\ Len(printed) = Len(MESSAGE)
  PROVE  PipesIO'
<1>1. /\ Types /\ "reader" \in Processes /\ "reader" \in {"child", "reader"}
      /\ status["reader"] = "running"
  BY DEF InPipesIO, Processes, Close, Calls
<1>2. Len(printed) \in Nat /\ Len(printed) <= Len(MESSAGE) /\ 0 \in 0 .. Len(MESSAGE)
  <2>1. Len(printed) \in Nat /\ Len(printed) + n <= Len(MESSAGE)
    BY <1>1, FlowIs
  <2>2. Len(MESSAGE) \in Nat /\ n \in Nat
    BY <1>1, PrintedIs
  <2> QED
    BY <2>1, <2>2
<1>3. LoopFrom(Len(printed), 0) = << whileRead("pipe1", BUFFER), close_r("pipe1") >>
  BY <1>2, LoopIs
<1>4. \/ Tail(code["reader"]) = LoopFrom(Len(printed), 0) /\ <<"r", "pipe1">> \in ends["reader"]
         /\ Head(Tail(code["reader"])).call # "onError" /\ Head(code["reader"]) = close_w("pipe1")
      \/ Tail(code["reader"]) = << >> /\ Len(printed) = Len(MESSAGE)
         /\ Head(code["reader"]) = close_r("pipe1")
  <2>1. CASE code["reader"] = reader
    <3>1. /\ Tail(reader) = << whileRead("pipe1", BUFFER), close_r("pipe1") >>
          /\ Head(Tail(reader)).call # "onError" /\ Head(reader) = close_w("pipe1")
      BY DEF reader, whileRead
    <3>2. reader # << close_r("pipe1") >>
      BY DEF reader
    <3> QED
      BY <1>3, <2>1, <3>1, <3>2
  <2>2. CASE code["reader"] = << close_r("pipe1") >>
    <3>1. /\ Tail(<< close_r("pipe1") >>) = << >>
          /\ Head(<< close_r("pipe1") >>) = close_r("pipe1")
      OBVIOUS
    <3>2. reader # << close_r("pipe1") >>
      BY DEF reader
    <3> QED
      BY <2>2, <3>1, <3>2
  <2> QED
    BY <2>1, <2>2
<1>5. Return("reader") /\ UNCHANGED <<program, tty, status, buffer, contents>>
      /\ ends' = [ends EXCEPT !["reader"] = ends["reader"] \ {Head(code["reader"]).end}]
  BY DEF Close
<1>6. /\ code'["reader"] = Tail(code["reader"])
      /\ \A q \in Processes \ {"reader"} : code'[q] = code[q]
  BY <1>1, <1>4, <1>5, ReturnIs
<1>7. SameBut("reader") /\ SameForked
      /\ ends'["reader"] = ends["reader"] \ {Head(code["reader"]).end}
  BY <1>1, <1>5, <1>6 DEF SameBut, Same, SameForked, Types
<1>8. printed' = printed
  BY <1>5 DEF printed
<1>9. ReaderAt(0)'
  BY <1>4, <1>6, <1>7, <1>8 DEF ReaderAt, close_w
<1>10. \A i \in 1 .. Len(printed) : printed[i] = <<"reader", MESSAGE[i]>>
  BY DEF Flow
<1>11. MessageFlows'
  BY <1>2, <1>5, <1>7, <1>8, <1>9, <1>10, ReaderFlows
<1>12. HasLeft("child", writer)' /\ Left("child")' = Left("child") /\ ends'["child"] = ends["child"]
  BY <1>7 DEF InPipesIO, HasLeft, Left, SameBut, Same, Processes
<1>13. Head(code["reader"]).end # <<"w", "stdout">>
  BY <1>4 DEF close_r, close_w
<1> QED
  BY <1>1, <1>5, <1>7, <1>11, <1>12, <1>13, ChildGoesOn DEF InPipesIO, EndsHeld, ReaderPrints

LEMMA ReaderPrintsLine ==
  ASSUME InPipesIO, Fprintf("reader"), NEW n \in 1 .. Len(MESSAGE), Flow(n),
         code["reader"] = LoopFrom(Len(printed), n), <<"r", "pipe1">> \in ends["reader"]
  PROVE  PipesIO'
<1> DEFINE k == Len(printed)
           line == <<"reader", MESSAGE[k + 1]>>
<1>1. /\ Types /\ "reader" \in Processes /\ "reader" \in {"child", "reader"}
      /\ status["reader"] = "running" /\ <<"w", "stdout">> \in ends["reader"]
  BY DEF InPipesIO, Processes, Fprintf, Calls, EndsHeld
<1>2. k \in Nat /\ k + n <= Len(MESSAGE) /\ Len(MESSAGE) \in Nat
  <2>1. n \in 0 .. Len(MESSAGE)
    BY <1>1, PrintedIs
  <2> QED
    BY <1>1, <2>1, FlowIs, PrintedIs
<1>3. /\ Head(code["reader"]) = printf(MESSAGE[k + 1])
      /\ Tail(code["reader"]) = LoopFrom(k + 1, n - 1)
  BY <1>2, LoopIs
<1>4. Head(Tail(code["reader"])).call # "onError"
  <2>1. k + 1 \in Nat /\ n - 1 \in Nat /\ (k + 1) + (n - 1) <= Len(MESSAGE)
    BY <1>2
  <2> QED
    BY <1>3, <2>1, LoopIs
<1>5. Head(code["reader"]).file = "stdout" /\ <<"reader", Head(code["reader"]).line>> = line
  BY <1>3 DEF printf
<1>6. /\ Return("reader") /\ UNCHANGED <<program, tty, status, ends>>
      /\ \/ /\ ~tty /\ buffer' = [buffer EXCEPT !["reader"]["stdout"] =
                                     Append(buffer["reader"]["stdout"], line)]
            /\ UNCHANGED contents
         \/ /\ tty /\ contents' = [contents EXCEPT !["stdout"] = Append(contents["stdout"], line)]
            /\ UNCHANGED buffer
  BY <1>1, <1>5, FilesAre DEF Fprintf, Buffered, HasOpen, Types
<1>7. /\ code'["reader"] = LoopFrom(k + 1, n - 1)
      /\ \A q \in Processes \ {"reader"} : code'[q] = code[q]
  BY <1>1, <1>3, <1>4, <1>6, ReturnIs
<1>8. /\ SameBut("reader") /\ SameForked /\ contents'["pipe1"] = contents["pipe1"]
      /\ tty => buffer'["reader"]["stdout"] = << >>
  BY <1>1, <1>6, <1>7, FilesAre
     DEF SameBut, Same, SameForked, Types, InPipesIO, ReaderPrints, Files, Pipes, Streams
<1>9. printed' = Append(printed, line)
  <2>1. /\ contents["stdout"] \in Lines /\ buffer["reader"]["stdout"] \in Lines
        /\ printed \in Lines
    BY <1>1, PrintedIs
  <2>2. line \in Processes \X Texts
    <3>1. MESSAGE[k + 1] \in Texts
      BY <1>2, Parameters
    <3> QED
      BY <1>1, <3>1
  <2> HIDE DEF line
  <2>3. CASE ~tty
    <3>1. /\ contents'["stdout"] = contents["stdout"]
          /\ buffer'["reader"]["stdout"] = Append(buffer["reader"]["stdout"], line)
      BY <1>1, <1>6, <2>3, FilesAre DEF Types
    <3>2. \A s, t \in Lines, e \in Processes \X Texts : s \o Append(t, e) = Append(s \o t, e)
      BY AppendConcat DEF Lines
    <3>3. contents["stdout"] \o Append(buffer["reader"]["stdout"], line)
             = Append(contents["stdout"] \o buffer["reader"]["stdout"], line)
      BY <2>1, <2>2, <3>2
    <3> QED
      BY <3>1, <3>3 DEF printed
  <2>4. CASE tty
    <3>1. /\ contents'["stdout"] = Append(contents["stdout"], line)
          /\ buffer'["reader"]["stdout"] = << >> /\ buffer["reader"]["stdout"] = << >>
      BY <1>1, <1>6, <1>8, <2>4, FilesAre DEF Types, InPipesIO, ReaderPrints
    <3>2. Append(contents["stdout"], line) \in Lines
      BY <2>1, <2>2, AppendProperties DEF Lines
    <3>3. printed' = Append(contents["stdout"], line) /\ printed = contents["stdout"]
      BY <2>1, <3>1, <3>2, ConcatEmptySeq DEF printed, Lines
    <3> QED
      BY <3>3
  <2> QED
    BY <2>3, <2>4
<1>10. /\ Len(printed') = k + 1
       /\ \A i \in 1 .. Len(printed') : printed'[i] = <<"reader", MESSAGE[i]>>
  <2>1. printed \in Seq(Processes \X Texts) /\ line \in Processes \X Texts
    <3>1. MESSAGE[k + 1] \in Texts
      BY <1>2, Parameters
    <3> QED
      BY <1>1, <3>1, PrintedIs DEF Lines
  <2>2. \A i \in 1 .. k : printed[i] = <<"reader", MESSAGE[i]>>
    BY DEF Flow
  <2>3. Len(Append(printed, line)) = k + 1 /\ Append(printed, line)[k + 1] = line
        /\ \A i \in 1 .. k : Append(printed, line)[i] = printed[i]
    BY <2>1, AppendProperties
  <2> QED
    BY <1>2, <1>9, <2>2, <2>3
<1>11. ReaderAt(n - 1)'
  BY <1>1, <1>6, <1>7, <1>10 DEF ReaderAt
<1>12. MessageFlows'
  <2>1. n \in 0 .. Len(MESSAGE) /\ n - 1 \in 0 .. Len(MESSAGE)
    BY <1>2
  <2>2. Len(printed') + (n - 1) = Len(printed) + n
    BY <1>2, <1>10
  <2> QED
    BY <1>8, <1>10, <1>11, <2>1, <2>2, ReaderFlows
<1>13. HasLeft("child", writer)' /\ Left("child")' = Left("child") /\ ends'["child"] = ends["child"]
  BY <1>8 DEF InPipesIO, HasLeft, Left, SameBut, Same, Processes
<1> QED
  BY <1>1, <1>6, <1>8, <1>12, <1>13, ChildGoesOn DEF InPipesIO, EndsHeld

(* The reader in its loop, with nothing to print. *)
ReaderWaits ==
  /\ InPipesIO /\ Flow(0) /\ status["reader"] = "running"
  /\ code["reader"] = LoopFrom(Len(printed), 0) /\ <<"r", "pipe1">> \in ends["reader"]

LEMMA ReaderWaitsIs ==
  ASSUME ReaderWaits
  PROVE  /\ Types /\ "reader" \in Processes /\ <<"w", "stdout">> \in ends["reader"]
         /\ Len(printed) \in Nat /\ Len(contents["pipe1"]) \in Nat /\ Len(MESSAGE) \in Nat
         /\ Len(printed) + Len(contents["pipe1"]) <= Len(MESSAGE)
         /\ contents["pipe1"] \in Seq(Texts)
         /\ code["reader"] = << whileRead("pipe1", BUFFER), close_r("pipe1") >>
         /\ Head(code["reader"]) = whileRead("pipe1", BUFFER)
         /\ Tail(code["reader"]) = << close_r("pipe1") >>
<1>1. Types /\ "reader" \in Processes /\ <<"w", "stdout">> \in ends["reader"]
  BY DEF ReaderWaits, InPipesIO, Processes, EndsHeld
<1>2. /\ Len(printed) \in Nat /\ Len(contents["pipe1"]) \in Nat /\ Len(MESSAGE) \in Nat
      /\ contents["pipe1"] \in Seq(Texts)
  BY <1>1, PrintedIs
<1>3. Len(printed) + 0 + Len(contents["pipe1"]) <= Len(MESSAGE)
  <2>1. 0 \in 0 .. Len(MESSAGE) /\ Flow(0)
    BY <1>2 DEF ReaderWaits
  <2> QED
    BY <1>1, <2>1, FlowIs
<1>4. Len(printed) + Len(contents["pipe1"]) <= Len(MESSAGE) /\ Len(printed) + 0 <= Len(MESSAGE)
  BY <1>2, <1>3
<1>5. code["reader"] = << whileRead("pipe1", BUFFER), close_r("pipe1") >>
  BY <1>2, <1>4, LoopIs DEF ReaderWaits
<1>6. /\ Head(<< whileRead("pipe1", BUFFER), close_r("pipe1") >>) = whileRead("pipe1", BUFFER)
      /\ Tail(<< whileRead("pipe1", BUFFER), close_r("pipe1") >>) = << close_r("pipe1") >>
  OBVIOUS
<1> QED
  BY <1>1, <1>2, <1>4, <1>5, <1>6

LEMMA ReaderReadsOn ==
  ASSUME ReaderWaits, UNCHANGED <<program, tty, status, ends, buffer>>,
         \A q \in Processes \ {"reader"} : code'[q] = code[q],
         contents'["stdout"] = contents["stdout"], MessageFlows'
  PROVE  PipesIO'
<1>1. SameBut("reader") /\ SameForked
  BY DEF SameBut, Same, SameForked
<1>2. HasLeft("child", writer)' /\ Left("child")' = Left("child") /\ ends'["child"] = ends["child"]
  BY <1>1 DEF ReaderWaits, InPipesIO, HasLeft, Left, SameBut, Same, Processes
<1>3. Left("child")' > 0 => <<"w", "pipe1">> \in ends'["child"]
  BY <1>2 DEF ReaderWaits, InPipesIO, EndsHeld
<1>4. tty => buffer'["reader"]["stdout"] = << >>
  BY DEF ReaderWaits, InPipesIO, ReaderPrints
<1>5. InPipesIO /\ status["reader"] = "running" /\ "reader" \in {"child", "reader"}
  BY DEF ReaderWaits
<1> QED
  BY <1>1, <1>2, <1>3, <1>4, <1>5, ReaderWaitsIs, ChildGoesOn

(* A read() of m lines. *)
Gets(m) ==
  /\ contents' = [contents EXCEPT !["pipe1"] =
                    SubSeq(contents["pipe1"], m + 1, Len(contents["pipe1"]))]
  /\ code' = [code EXCEPT !["reader"] =
                [i \in 1 .. m |-> printf(SubSeq(contents["pipe1"], 1, m)[i])] \o code["reader"]]
  /\ UNCHANGED <<program, tty, status, ends, buffer>>

LEMMA ReaderGets ==
  ASSUME ReaderWaits, NEW m \in 1 .. Len(contents["pipe1"]), Gets(m)
  PROVE  PipesIO'
<1> DEFINE k == Len(printed)
           all == contents["pipe1"]
<1>1. k \in Nat /\ Len(all) \in Nat /\ k + Len(all) <= Len(MESSAGE) /\ Len(MESSAGE) \in Nat
      /\ all \in Seq(Texts) /\ m \in 1 .. Len(all)
  BY ReaderWaitsIs
<1>2. /\ \A q \in Processes \ {"reader"} : code'[q] = code[q]
      /\ code'["reader"] = [i \in 1 .. m |-> printf(SubSeq(all, 1, m)[i])] \o code["reader"]
      /\ contents'["stdout"] = contents["stdout"]
      /\ contents'["pipe1"] = SubSeq(all, m + 1, Len(all))
  BY ReaderWaitsIs, FilesAre DEF Gets, Types, Files, Streams, Pipes
<1>3. \A i \in 1 .. Len(all) : all[i] = MESSAGE[k + 0 + i]
  BY DEF ReaderWaits, Flow
<1>4. printed' = printed
  BY <1>2 DEF Gets, printed
<1> HIDE DEF k, all
<1>5. Sent' <=> Sent
  BY <1>2 DEF Gets, Sent, Left, Processes
<1>6. /\ Len(SubSeq(all, m + 1, Len(all))) = Len(all) - m
      /\ \A i \in 1 .. Len(all) - m : SubSeq(all, m + 1, Len(all))[i] = all[m + i]
      /\ \A i \in 1 .. m : SubSeq(all, 1, m)[i] = all[i]
  BY <1>1
<1>7. code'["reader"] = LoopFrom(k, m)
  <2>1. \A i \in 1 .. m : SubSeq(all, 1, m)[i] = MESSAGE[k + i]
    BY <1>1, <1>3, <1>6
  <2>2. [i \in 1 .. m |-> printf(SubSeq(all, 1, m)[i])] = LinesFrom(k, m)
    BY <2>1 DEF LinesFrom
  <2>3. code["reader"] = << whileRead("pipe1", BUFFER), close_r("pipe1") >>
    BY ReaderWaitsIs
  <2> QED
    BY <1>2, <2>2, <2>3 DEF LoopFrom
<1>8. ReaderAt(m)'
  BY <1>4, <1>7 DEF Gets, ReaderAt, ReaderWaits, k
<1>9. Flow(m)'
  <2>1. k + 0 + Len(all) = IF Sent THEN Len(MESSAGE) ELSE 0
    BY DEF ReaderWaits, Flow, k, all
  <2>2. k + m + (Len(all) - m) = IF Sent' THEN Len(MESSAGE) ELSE 0
    BY <1>1, <1>5, <2>1
  <2>3. \A i \in 1 .. Len(all) - m : SubSeq(all, m + 1, Len(all))[i] = MESSAGE[k + m + i]
    BY <1>1, <1>3, <1>6
  <2>4. \A i \in 1 .. k : printed[i] = <<"reader", MESSAGE[i]>>
    BY DEF ReaderWaits, Flow, k
  <2> QED
    BY <1>2, <1>4, <1>6, <2>2, <2>3, <2>4 DEF Flow, k
<1>10. m \in 0 .. Len(MESSAGE)
  BY <1>1
<1>11. MessageFlows'
  BY <1>8, <1>9, <1>10 DEF MessageFlows
<1> QED
  BY <1>2, <1>11, ReaderReadsOn DEF Gets

LEMMA ReaderMeetsEnd ==
  ASSUME ReaderWaits, Len(contents["pipe1"]) = 0, Writers("pipe1") = {}, Return("reader"),
         UNCHANGED <<program, tty, status, ends, buffer, contents>>
  PROVE  PipesIO'
<1>1. Sent
  <2>1. status["child"] # "none"
    BY DEF ReaderWaits, InPipesIO, Forked
  <2>2. <<"w", "pipe1">> \notin ends["child"]
    BY DEF Writers, Processes
  <2>3. Left("child") = 0
    BY <2>2, WriterIs DEF ReaderWaits, InPipesIO, EndsHeld, HasLeft
  <2> QED
    BY <2>1, <2>3 DEF Sent
<1>2. Len(printed) = Len(MESSAGE) /\ 0 \in 0 .. Len(MESSAGE)
  <2>1. Len(printed) + 0 + Len(contents["pipe1"]) = IF Sent THEN Len(MESSAGE) ELSE 0
    BY DEF ReaderWaits, Flow
  <2> QED
    BY <1>1, <2>1, ReaderWaitsIs
<1>3. /\ code'["reader"] = << close_r("pipe1") >>
      /\ \A q \in Processes \ {"reader"} : code'[q] = code[q]
  <2>1. Head(<< close_r("pipe1") >>).call # "onError"
    BY DEF close_r
  <2> QED
    BY <2>1, ReaderWaitsIs, ReturnIs
<1>4. printed' = printed /\ (Sent' <=> Sent)
  BY <1>3 DEF printed, Sent, Left, Processes
<1>5. ReaderAt(0)'
  BY <1>2, <1>3, <1>4 DEF ReaderAt
<1>6. Flow(0)'
  BY <1>4 DEF ReaderWaits, Flow
<1>7. MessageFlows'
  BY <1>2, <1>5, <1>6 DEF MessageFlows
<1> QED
  BY <1>3, <1>7, ReaderReadsOn

LEMMA ReaderReads ==
  ASSUME ReaderWaits, Read("reader")
  PROVE  PipesIO'
<1> DEFINE all == contents["pipe1"]
           m == IF Len(all) < BUFFER THEN Len(all) ELSE BUFFER
<1>1. Len(all) \in Nat /\ BUFFER \in Nat \ {0} /\ Types /\ "reader" \in Processes
  BY ReaderWaitsIs, Parameters
<1>2. /\ Head(code["reader"]).call = "whileRead" /\ Head(code["reader"]).file = "pipe1"
      /\ Head(code["reader"]).size = BUFFER
  BY ReaderWaitsIs DEF whileRead
<1>3. PICK x \in 0 .. Len(all) : x = m /\ (x = 0 => Len(all) = 0)
  BY <1>1
<1>4. \/ x > 0 /\ Gets(x)
      \/ /\ x = 0 /\ Writers("pipe1") = {} /\ Return("reader")
         /\ UNCHANGED <<program, tty, status, ends, buffer, contents>>
  BY <1>1, <1>2, <1>3, FilesAre DEF Read, Types, Gets
<1>5. CASE x = 0
  BY <1>3, <1>4, <1>5, ReaderMeetsEnd
<1>6. CASE x > 0
  BY <1>1, <1>3, <1>4, <1>6, ReaderGets
<1> QED
  BY <1>1, <1>3, <1>5, <1>6

LEMMA ReaderSteps ==
  ASSUME InPipesIO, Step("reader")
  PROVE  PipesIO'
<1>1. /\ Types /\ "reader" \in Processes /\ "reader" \in {"child", "reader"}
      /\ status["reader"] = "running"
  <2>1. Types /\ "reader" \in Processes
    BY DEF InPipesIO, Processes
  <2> QED
    BY <2>1, StepTakes
<1>2. PICK n \in 0 .. Len(MESSAGE) : ReaderAt(n) /\ Flow(n)
  BY <1>1 DEF InPipesIO, MessageFlows
<1>3. Len(printed) \in Nat /\ Len(printed) + n <= Len(MESSAGE) /\ Len(MESSAGE) \in Nat /\ n \in Nat
  <2>1. Len(MESSAGE) \in Nat /\ n \in Nat
    BY <1>1, PrintedIs
  <2> QED
    BY <1>1, <1>2, <2>1, FlowIs
<1>4. CASE n = 0 /\ code["reader"] = reader /\ <<"r", "pipe1">> \in ends["reader"]
  <2>1. reader # << >> /\ Head(reader).call = "close"
    BY DEF reader, close_w
  <2>2. Close("reader")
    BY <1>1, <1>4, <2>1, StepTakes
  <2> QED
    BY <1>2, <1>4, <2>2, ReaderCloses
<1>5. CASE code["reader"] = LoopFrom(Len(printed), n) /\ <<"r", "pipe1">> \in ends["reader"]
  <2>1. code["reader"] # << >>
    BY <1>3, <1>5, LoopIs
  <2>2. CASE n = 0
    <3>1. ReaderWaits
      BY <1>1, <1>2, <1>5, <2>2 DEF ReaderWaits
    <3>2. Head(code["reader"]).call = "whileRead"
      BY <3>1, ReaderWaitsIs DEF whileRead
    <3>3. Read("reader")
      BY <1>1, <2>1, <3>2, StepTakes
    <3> QED
      BY <3>1, <3>3, ReaderReads
  <2>3. CASE n > 0
    <3>1. Head(code["reader"]) = printf(MESSAGE[Len(printed) + 1])
      BY <1>3, <1>5, <2>3, LoopIs
    <3>2. Head(code["reader"]).call = "fprintf"
      BY <3>1 DEF printf
    <3>3. Fprintf("reader")
      BY <1>1, <2>1, <3>2, StepTakes
    <3>4. n \in 1 .. Len(MESSAGE)
      BY <1>3, <2>3
    <3> QED
      BY <1>2, <1>5, <3>3, <3>4, ReaderPrintsLine
  <2> QED
    BY <1>3, <2>2, <2>3
<1>6. CASE n = 0 /\ code["reader"] = << close_r("pipe1") >> /\ Len(printed) = Len(MESSAGE)
  <2>1. << close_r("pipe1") >> # << >> /\ Head(<< close_r("pipe1") >>).call = "close"
    BY DEF close_r
  <2>2. Close("reader")
    BY <1>1, <1>6, <2>1, StepTakes
  <2> QED
    BY <1>2, <1>6, <2>2, ReaderCloses
<1>7. CASE n = 0 /\ code["reader"] = << >> /\ Len(printed) = Len(MESSAGE)
  <2>1. Exit("reader")
    BY <1>1, <1>7, StepTakes
  <2>2. <<"w", "stdout">> \in ends["reader"]
    BY <1>1 DEF InPipesIO, EndsHeld
  <2>3. HasLeft("reader", << >>)
    BY <1>7 DEF HasLeft, Left, Rest
  <2>4. << >> \in Seq(AllCalls)
    OBVIOUS
  <2>5. /\ code'["reader"] = << >> /\ SameBut("reader")
        /\ buffer'["reader"] = NothingBuffered
        /\ SameForked /\ status'["reader"] # "running"
        /\ \A q \in Processes \ {"reader"} : status'[q] = "running" <=> status[q] = "running"
        /\ UNCHANGED <<program, tty>>
        /\ contents'["stdout"] = contents["stdout"] \o buffer["reader"]["stdout"]
        /\ \A f \in Pipes : contents'[f] = contents[f]
    BY <1>1, <2>1, <2>2, <2>3, <2>4, ExitGoes DEF HasOpen
  <2>6. buffer'["reader"]["stdout"] = << >>
    BY <2>5, FilesAre DEF NothingBuffered
  <2>7. printed' = printed
    <3>1. printed \o << >> = printed
      BY <1>1, PrintedIs, ConcatEmptySeq DEF Lines
    <3> QED
      BY <2>5, <2>6, <3>1 DEF printed
  <2>8. ReaderAt(0)'
    BY <1>7, <2>5, <2>7 DEF ReaderAt
  <2>9. \A i \in 1 .. Len(printed) : printed[i] = <<"reader", MESSAGE[i]>>
    BY <1>2 DEF Flow
  <2>10. contents'["pipe1"] = contents["pipe1"] /\ 0 \in 0 .. Len(MESSAGE)
    BY <1>3, <2>5, FilesAre
  <2>11. MessageFlows'
    BY <1>2, <1>7, <2>5, <2>7, <2>8, <2>9, <2>10, ReaderFlows
  <2>12. /\ HasLeft("child", writer)' /\ Left("child")' = Left("child")
         /\ ends'["child"] = ends["child"]
    BY <2>5 DEF InPipesIO, HasLeft, Left, SameBut, Same, Processes
  <2>13. Left("child")' > 0 => <<"w", "pipe1">> \in ends'["child"]
    BY <2>12 DEF InPipesIO, EndsHeld
  <2> QED
    BY <1>1, <2>5, <2>6, <2>11, <2>12, <2>13, ChildGoesOn
<1> QED
  BY <1>1, <1>2, <1>4, <1>5, <1>6, <1>7 DEF ReaderAt

LEMMA PipesIOStays == Types /\ PipesIO /\ [Next]_vars => PipesIO'
<1> SUFFICES ASSUME Types, PipesIO, [Next]_vars PROVE PipesIO'
  OBVIOUS
<1>1. ASSUME NEW p \in Processes, Step(p) PROVE PipesIO'
  <2>1. program' = program
    BY <1>1 DEF Step, Fprintf, Fflush, Fclose, Exit, Open, Close, Fork, Failure, Wait, Exec,
                Write, Read
  <2>2. CASE program = "pipes_io"
    <3>1. InPipesIO
      BY <2>2 DEF PipesIO, InPipesIO
    <3> QED
      BY <1>1, <3>1, ParentSteps, WriterSteps, ReaderSteps DEF Processes
  <2>3. CASE program # "pipes_io"
    BY <2>1, <2>3 DEF PipesIO
  <2> QED
    BY <2>2, <2>3
<1>2. CASE UNCHANGED vars
  <2>1. UNCHANGED <<program, tty, status, code, ends, buffer, contents>>
    BY <1>2 DEF vars
  <2> QED
    BY <2>1 DEF PipesIO, HasLeft, Left, Forked, EndsHeld, ReaderPrints, MessageFlows, ReaderAt,
                Flow, printed, Sent
<1> QED
  BY <1>1, <1>2 DEF Next, Terminated

LEMMA PipesIOStarts == Init => PipesIO
<1> SUFFICES ASSUME Init, program = "pipes_io" PROVE PipesIO
  BY DEF PipesIO
<1>1. Types
  BY InitTypes
<1>2. /\ code["parent"] = pipes_io_c /\ code["child"] = << >>
      /\ status["parent"] = "running" /\ status["child"] = "none" /\ status["reader"] = "none"
      /\ \A p \in Processes : status[p] = "running" => ends[p] = {<<"w", "stdout">>}
      /\ \A p \in Processes : buffer[p]["stdout"] = << >>
      /\ contents["stdout"] = << >> /\ contents["pipe1"] = << >>
  BY FilesAre DEF Init, Processes, Programs, NothingBuffered
<1>3. HasLeft("parent", pipes_io_c) /\ Left("parent") = 7
  <2>1. Rest(pipes_io_c, 7) = pipes_io_c /\ Len(pipes_io_c) = 7
    BY ParentIs, WholeIs
  <2> QED
    BY <1>2, <2>1 DEF HasLeft, Left
<1>4. HasLeft("child", writer) /\ Left("child") = 0
  BY <1>2, WriterIs DEF HasLeft, Left, Rest
<1>5. Forked /\ EndsHeld /\ ReaderPrints
  BY <1>2, <1>3, <1>4 DEF Forked, EndsHeld, ReaderPrints, Processes
<1>6. printed = << >> /\ ~Sent
  <2>1. buffer["reader"]["stdout"] = << >>
    BY <1>2 DEF Processes
  <2> QED
    BY <1>2, <2>1 DEF printed, Sent
<1>7. ReaderAt(0) /\ Flow(0)
  BY <1>2, <1>6 DEF ReaderAt, Flow
<1>8. 0 \in 0 .. Len(MESSAGE)
  BY <1>1, PrintedIs
<1> QED
  BY <1>3, <1>4, <1>5, <1>7, <1>8 DEF PipesIO, MessageFlows

----------------------------------------------------------------------------
(* measure_context_switch() *)

LEMMA RoundsOfTwo ==
  ASSUME NEW S, NEW a \in S, NEW b \in S
  PROVE  /\ Rounds(<<a, b>>) \in Seq(S) /\ Len(Rounds(<<a, b>>)) = 2 * ITERATIONS
         /\ \A j \in 0 .. 2 * ITERATIONS - 1 :
               Rounds(<<a, b>>)[j + 1] = IF j % 2 = 0 THEN a ELSE b
<1> DEFINE body == <<a, b>>
<1>1. /\ body \in Seq(S) /\ Len(body) = 2 /\ body[1] = a /\ body[2] = b
      /\ ITERATIONS \in Nat
  BY Parameters
<1> HIDE DEF body
<1>2. Rounds(body) \in Seq(S) /\ Len(Rounds(body)) = 2 * ITERATIONS
  <2>1. Len(body) # 0 /\ body \in Seq(S)
    BY <1>1
  <2>2. Rounds(body) \in Seq(S) /\ Len(Rounds(body)) = ITERATIONS * Len(body)
    BY <2>1, RoundsAre
  <2> QED
    BY <1>1, <2>2
<1>3. ASSUME NEW j \in 0 .. 2 * ITERATIONS - 1
      PROVE  Rounds(body)[j + 1] = IF j % 2 = 0 THEN a ELSE b
  <2>1. j + 1 \in 1 .. ITERATIONS * Len(body) /\ (j + 1) - 1 = j
    BY <1>1
  <2>2. Rounds(body)[j + 1] = body[(j % 2) + 1]
    BY <1>1, <2>1 DEF Rounds
  <2>3. j % 2 \in {0, 1}
    BY <1>1
  <2> QED
    BY <1>1, <2>2, <2>3
<1> QED
  BY <1>2, <1>3 DEF body

answerer == << close_w("pipe1"), close_r("pipe2") >>
            \o Rounds(<< read("pipe1", 1), write("pipe2", <<"p">>) >>)

LEMMA PipeCalls ==
  ASSUME NEW f \in Pipes
  PROVE  /\ write(f, <<"p">>) \in SimpleCalls /\ read(f, 1) \in SimpleCalls
         /\ close_w(f) \in SimpleCalls /\ close_r(f) \in SimpleCalls /\ pipe(f) \in SimpleCalls
<1>1. <<"p">> \in Seq(Texts)
  BY TextsAre
<1>2. \A bytes \in Seq(Texts) : write(f, bytes) \in SimpleCalls
  BY SimpleCallsAre
<1>3. write(f, <<"p">>) \in SimpleCalls
  BY <1>1, <1>2
<1>4. /\ read(f, 1) \in SimpleCalls /\ close_w(f) \in SimpleCalls /\ close_r(f) \in SimpleCalls
      /\ pipe(f) \in SimpleCalls
  BY SimpleCallsAre
<1> QED
  BY <1>3, <1>4

LEMMA AnswererIs ==
  /\ answerer \in Seq(SimpleCalls) /\ answerer \in Seq(AllCalls)
  /\ Len(answerer) = 2 * ITERATIONS + 2 /\ NoBranches(answerer)
  /\ answerer[1] = close_w("pipe1") /\ answerer[2] = close_r("pipe2")
  /\ \A j \in 0 .. 2 * ITERATIONS - 1 :
        answerer[j + 3] = IF j % 2 = 0 THEN read("pipe1", 1) ELSE write("pipe2", <<"p">>)
<1> DEFINE start == << close_w("pipe1"), close_r("pipe2") >>
           rounds == Rounds(<< read("pipe1", 1), write("pipe2", <<"p">>) >>)
<1>1. start \in Seq(SimpleCalls) /\ Len(start) = 2
  BY PipeCalls, FilesAre
<1>2. /\ rounds \in Seq(SimpleCalls) /\ Len(rounds) = 2 * ITERATIONS
      /\ \A j \in 0 .. 2 * ITERATIONS - 1 :
            rounds[j + 1] = IF j % 2 = 0 THEN read("pipe1", 1) ELSE write("pipe2", <<"p">>)
  <2>1. read("pipe1", 1) \in SimpleCalls /\ write("pipe2", <<"p">>) \in SimpleCalls
    BY PipeCalls, FilesAre
  <2> QED
    BY <2>1, RoundsOfTwo
<1>3. answerer = start \o rounds /\ start[1] = close_w("pipe1") /\ start[2] = close_r("pipe2")
  BY DEF answerer
<1>4. ITERATIONS \in Nat
  BY Parameters
<1> HIDE DEF start, rounds
<1>5. /\ answerer \in Seq(SimpleCalls) /\ Len(answerer) = 2 * ITERATIONS + 2
      /\ \A i \in 1 .. 2 * ITERATIONS + 2 :
            answerer[i] = IF i <= 2 THEN start[i] ELSE rounds[i - 2]
  <2>1. /\ start \o rounds \in Seq(SimpleCalls) /\ Len(start \o rounds) = Len(start) + Len(rounds)
        /\ \A i \in 1 .. Len(start) + Len(rounds) :
              (start \o rounds)[i] = IF i <= Len(start) THEN start[i] ELSE rounds[i - Len(start)]
    BY <1>1, <1>2, ConcatProperties
  <2>2. Len(start) = 2 /\ Len(rounds) = 2 * ITERATIONS /\ 2 + 2 * ITERATIONS = 2 * ITERATIONS + 2
    BY <1>1, <1>2, <1>4
  <2> HIDE DEF answerer
  <2> QED
    BY <1>3, <2>1, <2>2
<1>6. answerer[1] = close_w("pipe1") /\ answerer[2] = close_r("pipe2")
  <2>1. 1 \in 1 .. 2 * ITERATIONS + 2 /\ 2 \in 1 .. 2 * ITERATIONS + 2
    BY <1>4
  <2>2. answerer[1] = start[1] /\ answerer[2] = start[2]
    BY <1>5, <2>1
  <2> QED
    BY <1>3, <2>2
<1>7. ASSUME NEW j \in 0 .. 2 * ITERATIONS - 1
      PROVE  answerer[j + 3] = IF j % 2 = 0 THEN read("pipe1", 1) ELSE write("pipe2", <<"p">>)
  <2>1. j + 3 \in 1 .. 2 * ITERATIONS + 2 /\ ~(j + 3 <= 2) /\ (j + 3) - 2 = j + 1
    BY <1>4
  <2>2. answerer[j + 3] = rounds[j + 1]
    BY <1>5, <2>1
  <2> QED
    BY <1>2, <2>2
<1>8. NoBranches(answerer)
  <2> SUFFICES ASSUME NEW i \in 1 .. 2 * ITERATIONS + 2
               PROVE  answerer[i].call # "onError"
    BY <1>5 DEF NoBranches
  <2>1. CASE i \in {1, 2}
    BY <1>6, <2>1 DEF close_w, close_r
  <2>2. CASE i \notin {1, 2}
    <3>1. i - 3 \in 0 .. 2 * ITERATIONS - 1 /\ (i - 3) + 3 = i
      BY <1>4, <2>2
    <3>2. answerer[i] \in {read("pipe1", 1), write("pipe2", <<"p">>)}
      BY <1>7, <3>1
    <3> QED
      BY <3>2 DEF read, write
  <2> QED
    BY <2>1, <2>2
<1>9. answerer \in Seq(AllCalls)
  BY <1>5, PlainCallsAre
<1> QED
  BY <1>5, <1>6, <1>7, <1>8, <1>9

LEMMA MeasureIs ==
  /\ measure_context_switch \in Seq(AllCalls)
  /\ Len(measure_context_switch) = 2 * ITERATIONS + 8
  /\ NoBranches(measure_context_switch)
  /\ measure_context_switch[1] = pipe("pipe1") /\ measure_context_switch[2] = pipe("pipe2")
  /\ measure_context_switch[3] = fork("child", answerer)
  /\ measure_context_switch[4] = close_r("pipe1") /\ measure_context_switch[5] = close_w("pipe2")
  /\ measure_context_switch[6] = printf("measuring")
  /\ \A j \in 0 .. 2 * ITERATIONS - 1 :
        measure_context_switch[j + 7]
          = IF j % 2 = 0 THEN write("pipe1", <<"p">>) ELSE read("pipe2", 1)
  /\ measure_context_switch[2 * ITERATIONS + 7] = wait
  /\ measure_context_switch[2 * ITERATIONS + 8] = printf("finished")
<1> DEFINE before == << pipe("pipe1"), pipe("pipe2"), fork("child", answerer),
                        close_r("pipe1"), close_w("pipe2"), printf("measuring") >>
           rounds == Rounds(<< write("pipe1", <<"p">>), read("pipe2", 1) >>)
           after == << wait, printf("finished") >>
           all == measure_context_switch
<1>1. all = (before \o rounds) \o after
  BY DEF measure_context_switch, answerer
<1>2. ITERATIONS \in Nat
  BY Parameters
<1>3. /\ before \in Seq(AllCalls) /\ Len(before) = 6
      /\ before[1] = pipe("pipe1") /\ before[2] = pipe("pipe2")
      /\ before[3] = fork("child", answerer) /\ before[4] = close_r("pipe1")
      /\ before[5] = close_w("pipe2") /\ before[6] = printf("measuring")
  <2>1. /\ pipe("pipe1") \in AllCalls /\ pipe("pipe2") \in AllCalls
        /\ close_r("pipe1") \in AllCalls /\ close_w("pipe2") \in AllCalls
    BY PipeCalls, FilesAre, SimpleEverywhere
  <2>2. printf("measuring") \in AllCalls
    BY PrintfIs, TextsAre
  <2>3. fork("child", answerer) \in AllCalls
    BY AnswererIs, NestedCallsAre
  <2> QED
    BY <2>1, <2>2, <2>3
<1>4. /\ rounds \in Seq(AllCalls) /\ Len(rounds) = 2 * ITERATIONS
      /\ \A j \in 0 .. 2 * ITERATIONS - 1 :
            rounds[j + 1] = IF j % 2 = 0 THEN write("pipe1", <<"p">>) ELSE read("pipe2", 1)
  <2>1. read("pipe2", 1) \in AllCalls /\ write("pipe1", <<"p">>) \in AllCalls
    BY PipeCalls, FilesAre, SimpleEverywhere
  <2> QED
    BY <2>1, RoundsOfTwo
<1>5. /\ after \in Seq(AllCalls) /\ Len(after) = 2
      /\ after[1] = wait /\ after[2] = printf("finished")
  <2>1. wait \in AllCalls /\ printf("finished") \in AllCalls
    BY PrintfIs, TextsAre, SimpleCallsAre, SimpleEverywhere
  <2> QED
    BY <2>1
<1> HIDE DEF before, rounds, after, all
<1>6. /\ before \o rounds \in Seq(AllCalls) /\ Len(before \o rounds) = 2 * ITERATIONS + 6
      /\ \A i \in 1 .. 6 : (before \o rounds)[i] = before[i]
      /\ \A i \in 1 .. 2 * ITERATIONS : (before \o rounds)[i + 6] = rounds[i]
  <2>1. /\ before \o rounds \in Seq(AllCalls)
        /\ Len(before \o rounds) = Len(before) + Len(rounds)
        /\ \A i \in 1 .. Len(before) + Len(rounds) :
              (before \o rounds)[i] = IF i <= Len(before) THEN before[i]
                                      ELSE rounds[i - Len(before)]
    BY <1>3, <1>4, ConcatProperties
  <2>2. /\ before \o rounds \in Seq(AllCalls)
        /\ Len(before \o rounds) = 6 + 2 * ITERATIONS
        /\ \A i \in 1 .. 6 + 2 * ITERATIONS :
              (before \o rounds)[i] = IF i <= 6 THEN before[i] ELSE rounds[i - 6]
    BY <1>3, <1>4, <2>1
  <2>3. \A i \in 1 .. 6 : (before \o rounds)[i] = before[i]
    BY <1>2, <2>2
  <2>4. ASSUME NEW i \in 1 .. 2 * ITERATIONS
        PROVE  (before \o rounds)[i + 6] = rounds[i]
    <3>1. i + 6 \in 1 .. 6 + 2 * ITERATIONS /\ ~(i + 6 <= 6) /\ (i + 6) - 6 = i
      BY <1>2
    <3> QED
      BY <2>2, <3>1
  <2>5. 6 + 2 * ITERATIONS = 2 * ITERATIONS + 6
    BY <1>2
  <2> DEFINE both == before \o rounds
  <2>6. both \in Seq(AllCalls) /\ Len(both) = 2 * ITERATIONS + 6
    BY <2>2, <2>5
  <2>7. \A i \in 1 .. 2 * ITERATIONS : both[i + 6] = rounds[i]
    BY <2>4
  <2> QED
    BY <2>3, <2>6, <2>7, Zenon
<1> DEFINE start == before \o rounds
<1>7. /\ start \in Seq(AllCalls) /\ Len(start) = 2 * ITERATIONS + 6
      /\ \A i \in 1 .. 6 : start[i] = before[i]
      /\ \A i \in 1 .. 2 * ITERATIONS : start[i + 6] = rounds[i]
      /\ all = start \o after
  BY <1>1, <1>6
<1> HIDE DEF start
<1>8. /\ all \in Seq(AllCalls) /\ Len(all) = 2 * ITERATIONS + 8
      /\ \A i \in 1 .. 2 * ITERATIONS + 6 : all[i] = start[i]
      /\ \A i \in 1 .. 2 : all[i + (2 * ITERATIONS + 6)] = after[i]
  <2> DEFINE n == 2 * ITERATIONS + 6
  <2>1. /\ start \o after \in Seq(AllCalls) /\ Len(start \o after) = Len(start) + Len(after)
        /\ \A i \in 1 .. Len(start) + Len(after) :
              (start \o after)[i] = IF i <= Len(start) THEN start[i]
                                    ELSE after[i - Len(start)]
    BY <1>5, <1>7, ConcatProperties
  <2>2. n \in Nat /\ n = Len(start) /\ n + 2 = 2 * ITERATIONS + 8
    BY <1>2, <1>7
  <2> HIDE DEF n
  <2>3. /\ all \in Seq(AllCalls) /\ Len(all) = n + 2
        /\ \A i \in 1 .. n + 2 : all[i] = IF i <= n THEN start[i] ELSE after[i - n]
    BY <1>5, <1>7, <2>1, <2>2
  <2>4. \A i \in 1 .. n : all[i] = start[i]
    BY <2>2, <2>3
  <2>5. ASSUME NEW i \in 1 .. 2 PROVE all[i + n] = after[i]
    <3>1. i + n \in 1 .. n + 2 /\ ~(i + n <= n) /\ (i + n) - n = i
      BY <2>2
    <3> QED
      BY <2>3, <3>1
  <2> QED
    BY <2>2, <2>3, <2>4, <2>5 DEF n
<1>9. \A i \in 1 .. 6 : all[i] = before[i]
  <2>1. \A i \in 1 .. 6 : i \in 1 .. 2 * ITERATIONS + 6
    BY <1>2
  <2> QED
    BY <1>7, <1>8, <2>1
<1>10. all[2 * ITERATIONS + 7] = wait /\ all[2 * ITERATIONS + 8] = printf("finished")
  <2>1. all[1 + (2 * ITERATIONS + 6)] = after[1] /\ all[2 + (2 * ITERATIONS + 6)] = after[2]
    BY <1>8
  <2>2. /\ 1 + (2 * ITERATIONS + 6) = 2 * ITERATIONS + 7
        /\ 2 + (2 * ITERATIONS + 6) = 2 * ITERATIONS + 8
    BY <1>2
  <2> QED
    BY <1>5, <2>1, <2>2
<1>11. ASSUME NEW j \in 0 .. 2 * ITERATIONS - 1
       PROVE  all[j + 7] = IF j % 2 = 0 THEN write("pipe1", <<"p">>) ELSE read("pipe2", 1)
  <2>1. /\ j + 1 \in 1 .. 2 * ITERATIONS /\ (j + 1) + 6 = j + 7
        /\ j + 7 \in 1 .. 2 * ITERATIONS + 6
    BY <1>2
  <2>2. all[j + 7] = rounds[j + 1]
    BY <1>7, <1>8, <2>1
  <2> QED
    BY <1>4, <2>2
<1>12. NoBranches(all)
  <2> SUFFICES ASSUME NEW i \in 1 .. 2 * ITERATIONS + 8 PROVE all[i].call # "onError"
    BY <1>8 DEF NoBranches
  <2>1. CASE i \in 1 .. 6
    <3>1. i \in {1, 2, 3, 4, 5, 6}
      BY <2>1
    <3> QED
      BY <1>3, <1>9, <3>1 DEF pipe, fork, close_r, close_w, printf
  <2>2. CASE i \in 7 .. 2 * ITERATIONS + 6
    <3>1. i - 7 \in 0 .. 2 * ITERATIONS - 1 /\ (i - 7) + 7 = i
      BY <1>2, <2>2
    <3>2. all[i] \in {write("pipe1", <<"p">>), read("pipe2", 1)}
      BY <1>11, <3>1
    <3> QED
      BY <3>2 DEF write, read
  <2>3. CASE i \in {2 * ITERATIONS + 7, 2 * ITERATIONS + 8}
    BY <1>10, <2>3 DEF wait, waitpid, printf
  <2> QED
    BY <1>2, <2>1, <2>2, <2>3
<1>13. /\ all[1] = pipe("pipe1") /\ all[2] = pipe("pipe2")
       /\ all[3] = fork("child", answerer) /\ all[4] = close_r("pipe1")
       /\ all[5] = close_w("pipe2") /\ all[6] = printf("measuring")
  BY <1>3, <1>9
<1> QED
  BY <1>8, <1>10, <1>11, <1>12, <1>13 DEF all

(* How many of the 2 * ITERATIONS calls of its loop each process has made. *)
ParentCalls ==
  IF Left("parent") >= 2 * ITERATIONS + 2 THEN 0
  ELSE IF Left("parent") <= 2 THEN 2 * ITERATIONS
  ELSE 2 * ITERATIONS + 2 - Left("parent")

ChildCalls ==
  IF Left("child") >= 2 * ITERATIONS THEN 0 ELSE 2 * ITERATIONS - Left("child")

(* Who has its turn: the parent to write, the child to read, the child to  *)
(* write or the parent to read.                                            *)
InTurn(parent, child, bytes1, bytes2) ==
  \/ parent % 2 = 0 /\ child = parent     /\ bytes1 = 0 /\ bytes2 = 0
  \/ parent % 2 = 1 /\ child = parent - 1 /\ bytes1 = 1 /\ bytes2 = 0
  \/ parent % 2 = 1 /\ child = parent     /\ bytes1 = 0 /\ bytes2 = 0
  \/ parent % 2 = 1 /\ child = parent + 1 /\ bytes1 = 0 /\ bytes2 = 1

(* The child is there from the fork on. *)
ChildThere ==
  /\ status["child"] = "none" => Left("parent") = 0 \/ Left("parent") >= 2 * ITERATIONS + 6
  /\ status["child"] # "none" => Left("parent") <= 2 * ITERATIONS + 5

(* The parent keeps its end of each pipe until it has only to exit, and    *)
(* the other ends until it has forked the child.                           *)
ParentHolds ==
  /\ Left("parent") \in 1 .. 2 * ITERATIONS + 7 => <<"w", "pipe1">> \in ends["parent"]
  /\ Left("parent") \in 1 .. 2 * ITERATIONS + 6 => <<"r", "pipe2">> \in ends["parent"]
  /\ Left("parent") \in 2 * ITERATIONS + 6 .. 2 * ITERATIONS + 7
       => <<"r", "pipe1">> \in ends["parent"]
  /\ Left("parent") = 2 * ITERATIONS + 6 => <<"w", "pipe2">> \in ends["parent"]

ChildHolds ==
  Left("child") > 0 => <<"r", "pipe1">> \in ends["child"] /\ <<"w", "pipe2">> \in ends["child"]

Turns ==
  IF status["child"] = "none"
  THEN contents["pipe1"] = << >> /\ contents["pipe2"] = << >>
  ELSE InTurn(ParentCalls, ChildCalls, Len(contents["pipe1"]), Len(contents["pipe2"]))

Measurement ==
  program = "os_measurements" =>
    /\ HasLeft("parent", measure_context_switch) /\ HasLeft("child", answerer)
    /\ status["reader"] = "none"
    /\ ChildThere /\ ParentHolds /\ ChildHolds /\ Turns

InMeasurement ==
  /\ Types /\ program = "os_measurements"
  /\ HasLeft("parent", measure_context_switch) /\ HasLeft("child", answerer)
  /\ status["reader"] = "none"
  /\ ChildThere /\ ParentHolds /\ ChildHolds /\ Turns

(* The rest of the process leaves the pipes as they are. *)
PipesSame == \A f \in Pipes : contents'[f] = contents[f]
Apart(p)  == \A q \in Processes \ {p} : code'[q] = code[q] /\ ends'[q] = ends[q]

LEMMA FprintfGoes ==
  ASSUME Types, NEW p \in Processes, NEW calls \in Seq(AllCalls), NoBranches(calls),
         HasLeft(p, calls), Fprintf(p), Head(code[p]).file \notin Pipes
  PROVE  /\ Goes(p, calls) /\ Apart(p) /\ ends'[p] = ends[p]
         /\ UNCHANGED <<program, tty, status>> /\ PipesSame
<1>1. code[p] # << >> /\ (Return(p) \/ ReturnError(p)) /\ UNCHANGED <<program, tty, status, ends>>
  BY DEF Fprintf, Calls
<1>2. Goes(p, calls) /\ \A q \in Processes \ {p} : code'[q] = code[q]
  BY <1>1, ReturnGoes
<1>3. PipesSame
  <2> DEFINE f == Head(code[p]).file
             line == <<p, Head(code[p]).line>>
  <2>1. \/ contents' = [contents EXCEPT ![f] = Append(@, line)]
        \/ UNCHANGED contents
    BY DEF Fprintf
  <2>2. f \notin Pipes
    OBVIOUS
  <2> HIDE DEF f, line
  <2> QED
    BY <2>1, <2>2 DEF PipesSame, Types
<1> QED
  BY <1>1, <1>2, <1>3 DEF Apart

LEMMA WriteGoes ==
  ASSUME Types, NEW p \in Processes, NEW calls \in Seq(AllCalls), NoBranches(calls),
         HasLeft(p, calls), Write(p), NEW f \in Pipes, Head(code[p]) = write(f, <<"p">>),
         Readers(f) # {}
  PROVE  /\ Goes(p, calls) /\ Apart(p) /\ ends'[p] = ends[p]
         /\ UNCHANGED <<program, tty, status>>
         /\ Len(contents'[f]) = Len(contents[f]) + 1
         /\ \A g \in Pipes \ {f} : contents'[g] = contents[g]
<1>1. /\ code[p] # << >> /\ Return(p) /\ UNCHANGED <<program, tty, status, ends>>
      /\ contents' = [contents EXCEPT ![f] = @ \o <<"p">>]
  <2>1. /\ Head(code[p]).file = f /\ Head(code[p]).bytes = <<"p">>
        /\ Head(code[p]).call = "write"
    BY DEF write
  <2> QED
    BY <2>1 DEF Write, Calls
<1>2. Goes(p, calls) /\ \A q \in Processes \ {p} : code'[q] = code[q]
  BY <1>1, ReturnGoes
<1>3. /\ contents'[f] = contents[f] \o <<"p">>
      /\ \A g \in Pipes \ {f} : contents'[g] = contents[g]
  BY <1>1 DEF Types
<1>4. contents[f] \in Seq(Texts) /\ <<"p">> \in Seq(Texts) /\ Len(<<"p">>) = 1
  BY TextsAre DEF Types
<1>5. Len(contents[f] \o <<"p">>) = Len(contents[f]) + 1
  BY <1>4
<1> QED
  BY <1>1, <1>2, <1>3, <1>5 DEF Apart

LEMMA ReadGoes ==
  ASSUME Types, NEW p \in Processes, NEW calls \in Seq(AllCalls), NoBranches(calls),
         HasLeft(p, calls), Read(p), NEW f \in Pipes, Head(code[p]) = read(f, 1),
         Len(contents[f]) = 1 \/ Writers(f) # {}, Len(contents[f]) <= 1
  PROVE  /\ Goes(p, calls) /\ Apart(p) /\ ends'[p] = ends[p]
         /\ UNCHANGED <<program, tty, status>>
         /\ Len(contents[f]) = 1 /\ Len(contents'[f]) = 0
         /\ \A g \in Pipes \ {f} : contents'[g] = contents[g]
<1> DEFINE c == Head(code[p])
           n == IF Len(contents[c.file]) < c.size THEN Len(contents[c.file]) ELSE c.size
<1>1. c.file = f /\ c.size = 1 /\ c.call = "read"
  BY DEF read
<1>2. contents[f] \in Seq(Texts) /\ Len(contents[f]) \in Nat
  BY DEF Types
<1>3. n = Len(contents[f])
  BY <1>1, <1>2
<1>4. /\ code[p] # << >> /\ UNCHANGED <<program, tty, status, ends>>
      /\ \/ /\ n > 0
            /\ contents' = [contents EXCEPT ![f] = SubSeq(@, n + 1, Len(@))]
            /\ Return(p)
         \/ n = 0 /\ Writers(f) = {}
  BY <1>1 DEF Read, Calls
<1> HIDE DEF c, n
<1>5. n = 1
  <2>1. n > 0 \/ (n = 0 /\ Writers(f) = {})
    BY <1>4
  <2>2. n \in Nat /\ n <= 1
    BY <1>2, <1>3
  <2>3. n = 1 \/ Writers(f) # {}
    BY <1>3
  <2> QED
    BY <2>1, <2>2, <2>3
<1>6. Goes(p, calls) /\ \A q \in Processes \ {p} : code'[q] = code[q]
  BY <1>4, <1>5, ReturnGoes
<1>7. /\ contents'[f] = SubSeq(contents[f], 2, 1)
      /\ \A g \in Pipes \ {f} : contents'[g] = contents[g]
  <2>1. contents' = [contents EXCEPT ![f] = SubSeq(@, n + 1, Len(@))]
    BY <1>4, <1>5
  <2>2. /\ contents'[f] = SubSeq(contents[f], n + 1, Len(contents[f]))
        /\ \A g \in Pipes \ {f} : contents'[g] = contents[g]
    BY <2>1 DEF Types
  <2>3. n + 1 = 2 /\ Len(contents[f]) = 1
    BY <1>3, <1>5
  <2> QED
    BY <2>2, <2>3
<1>8. Len(contents'[f]) = 0
  BY <1>2, <1>7
<1> QED
  BY <1>3, <1>4, <1>5, <1>6, <1>7, <1>8 DEF Apart

LEMMA PipesAre == Pipes = {"pipe1", "pipe2"} /\ "pipe1" # "pipe2"
BY DEF Pipes

(* Where the parent and the child are, and what is in the pipes. *)
LEMMA MeasurementNumbers ==
  ASSUME InMeasurement
  PROVE  /\ ITERATIONS \in Nat \ {0}
         /\ Left("parent") \in 0 .. 2 * ITERATIONS + 8
         /\ Left("child") \in 0 .. 2 * ITERATIONS + 2
         /\ Len(contents["pipe1"]) \in Nat /\ Len(contents["pipe2"]) \in Nat
<1>1. contents["pipe1"] \in Seq(Texts) /\ contents["pipe2"] \in Seq(Texts)
  BY FilesAre DEF InMeasurement, Types
<1>2. /\ Left("parent") \in 0 .. Len(measure_context_switch)
      /\ Left("child") \in 0 .. Len(answerer)
  BY DEF InMeasurement, HasLeft
<1> QED
  BY <1>1, <1>2, Parameters, MeasureIs, AnswererIs

LEMMA MeasurementCalls ==
  ASSUME InMeasurement
  PROVE  /\ code["parent"] # << >> =>
              /\ Left("parent") > 0
              /\ Head(code["parent"])
                   = measure_context_switch[2 * ITERATIONS + 9 - Left("parent")]
         /\ code["parent"] = << >> => Left("parent") = 0
         /\ code["child"] # << >> =>
              /\ Left("child") > 0 /\ status["child"] = "running"
              /\ Head(code["child"]) = answerer[2 * ITERATIONS + 3 - Left("child")]
         /\ code["child"] = << >> => Left("child") = 0
<1> DEFINE n == Left("parent")
           m == Left("child")
<1>1. /\ "parent" \in Processes /\ "child" \in Processes /\ Types
      /\ HasLeft("parent", measure_context_switch) /\ HasLeft("child", answerer)
      /\ measure_context_switch \in Seq(AllCalls) /\ NoBranches(measure_context_switch)
      /\ answerer \in Seq(AllCalls) /\ NoBranches(answerer)
  BY MeasureIs, AnswererIs DEF InMeasurement, Processes
<1>2. n \in Nat /\ m \in Nat /\ ITERATIONS \in Nat
  BY MeasurementNumbers
<1>3. ASSUME code["parent"] # << >>
      PROVE  n > 0 /\ Head(code["parent"]) = measure_context_switch[2 * ITERATIONS + 9 - n]
  <2>1. /\ n \in 1 .. Len(measure_context_switch)
        /\ Head(code["parent"]) = measure_context_switch[Len(measure_context_switch) - n + 1]
    BY <1>1, <1>3, NextCall
  <2>2. Len(measure_context_switch) - n + 1 = 2 * ITERATIONS + 9 - n
    BY <1>2, MeasureIs
  <2> QED
    BY <2>1, <2>2
<1>4. ASSUME code["child"] # << >>
      PROVE  m > 0 /\ Head(code["child"]) = answerer[2 * ITERATIONS + 3 - m]
  <2>1. m \in 1 .. Len(answerer) /\ Head(code["child"]) = answerer[Len(answerer) - m + 1]
    BY <1>1, <1>4, NextCall
  <2>2. Len(answerer) - m + 1 = 2 * ITERATIONS + 3 - m
    BY <1>2, AnswererIs
  <2> QED
    BY <2>1, <2>2
<1>5. code["child"] # << >> => status["child"] = "running"
  BY <1>1 DEF Types
<1>6. code["parent"] = << >> => n = 0
  BY <1>1, NoneLeft
<1>7. code["child"] = << >> => m = 0
  BY <1>1, NoneLeft
<1> QED
  BY <1>3, <1>4, <1>5, <1>6, <1>7

(* What remains to be shown of a step of the parent, and of the child. *)
LEMMA ParentMoves ==
  ASSUME InMeasurement, UNCHANGED program, HasLeft("parent", measure_context_switch)',
         Apart("parent"), SameForked, ParentHolds', ChildThere',
         status["child"] # "none" => Turns',
         status["child"] = "none" => PipesSame
  PROVE  Measurement'
<1>1. /\ code'["child"] = code["child"] /\ ends'["child"] = ends["child"]
      /\ status'["reader"] = "none" /\ (status'["child"] = "none" <=> status["child"] = "none")
  BY DEF InMeasurement, Apart, SameForked, Processes
<1>2. HasLeft("child", answerer)' /\ ChildHolds' /\ status'["reader"] = "none"
  BY <1>1 DEF InMeasurement, HasLeft, Left, ChildHolds
<1>3. Turns'
  BY <1>1, FilesAre DEF InMeasurement, Turns, PipesSame
<1> QED
  BY <1>2, <1>3 DEF Measurement

LEMMA ParentFree ==
  ASSUME InMeasurement, UNCHANGED program, HasLeft("parent", measure_context_switch)',
         Apart("parent"), SameForked, PipesSame, ParentHolds', ChildThere',
         status["child"] # "none" => ParentCalls' = ParentCalls
  PROVE  Measurement'
<1>1. ASSUME status["child"] # "none" PROVE Turns'
  <2>1. code'["child"] = code["child"] /\ status'["child"] # "none"
    BY <1>1 DEF Apart, SameForked, Processes
  <2>2. ChildCalls' = ChildCalls
    BY <2>1 DEF ChildCalls, Left
  <2>3. /\ contents'["pipe1"] = contents["pipe1"] /\ contents'["pipe2"] = contents["pipe2"]
        /\ ParentCalls' = ParentCalls
    BY <1>1, FilesAre DEF PipesSame
  <2>4. InTurn(ParentCalls, ChildCalls, Len(contents["pipe1"]), Len(contents["pipe2"]))
    BY <1>1 DEF InMeasurement, Turns
  <2>5. InTurn(ParentCalls', ChildCalls', Len(contents'["pipe1"]), Len(contents'["pipe2"]))
    BY <2>2, <2>3, <2>4
  <2> QED
    BY <2>1, <2>5 DEF Turns
<1> QED
  BY <1>1, ParentMoves

LEMMA ChildMoves ==
  ASSUME InMeasurement, UNCHANGED program, HasLeft("child", answerer)',
         Apart("child"), SameForked, ChildHolds', status["child"] # "none", Turns'
  PROVE  Measurement'
<1>1. /\ code'["parent"] = code["parent"] /\ ends'["parent"] = ends["parent"]
      /\ status'["reader"] = "none" /\ status'["child"] # "none"
  BY DEF InMeasurement, Apart, SameForked, Processes
<1>2. Left("parent")' = Left("parent") /\ HasLeft("parent", measure_context_switch)'
  BY <1>1 DEF InMeasurement, HasLeft, Left
<1>3. ChildThere' /\ ParentHolds'
  BY <1>1, <1>2 DEF InMeasurement, ChildThere, ParentHolds
<1> QED
  BY <1>1, <1>2, <1>3 DEF Measurement

LEMMA ChildFree ==
  ASSUME InMeasurement, UNCHANGED program, HasLeft("child", answerer)',
         Apart("child"), SameForked, PipesSame, ChildHolds', status["child"] # "none",
         ChildCalls' = ChildCalls
  PROVE  Measurement'
<1>1. code'["parent"] = code["parent"] /\ status'["child"] # "none"
  BY DEF Apart, SameForked, Processes
<1>2. ParentCalls' = ParentCalls
  BY <1>1 DEF ParentCalls, Left
<1>3. contents'["pipe1"] = contents["pipe1"] /\ contents'["pipe2"] = contents["pipe2"]
  BY FilesAre DEF PipesSame
<1>4. InTurn(ParentCalls, ChildCalls, Len(contents["pipe1"]), Len(contents["pipe2"]))
  BY DEF InMeasurement, Turns
<1>5. InTurn(ParentCalls', ChildCalls', Len(contents'["pipe1"]), Len(contents'["pipe2"]))
  BY <1>2, <1>3, <1>4
<1>6. Turns'
  BY <1>1, <1>5 DEF Turns
<1> QED
  BY <1>6, ChildMoves

LEMMA ParentGoes ==
  ASSUME InMeasurement, UNCHANGED program, Goes("parent", measure_context_switch),
         Apart("parent"), SameForked, PipesSame,
         Left("parent") \in {1, 2} \cup (2 * ITERATIONS + 3 .. 2 * ITERATIONS + 8),
         Left("parent") # 2 * ITERATIONS + 6,
         <<"w", "pipe1">> \in ends'["parent"],
         Left("parent") < 2 * ITERATIONS + 8 => <<"r", "pipe2">> \in ends'["parent"],
         Left("parent") > 2 * ITERATIONS + 6 => <<"r", "pipe1">> \in ends'["parent"],
         Left("parent") = 2 * ITERATIONS + 7 => <<"w", "pipe2">> \in ends'["parent"]
  PROVE  Measurement'
<1>1. /\ HasLeft("parent", measure_context_switch)' /\ Left("parent")' = Left("parent") - 1
      /\ Left("parent") \in Nat /\ ITERATIONS \in Nat \ {0}
  <2>1. "parent" \in Processes /\ measure_context_switch \in Seq(AllCalls)
    BY MeasureIs DEF Processes
  <2> QED
    BY <2>1, GoesIs, MeasurementNumbers
<1> DEFINE n == Left("parent")
           held == ends'["parent"]
<1>2. /\ Left("parent") = n /\ Left("parent")' = n - 1 /\ n \in Nat
      /\ n \in {1, 2} \cup (2 * ITERATIONS + 3 .. 2 * ITERATIONS + 8) /\ n # 2 * ITERATIONS + 6
      /\ <<"w", "pipe1">> \in held
      /\ n < 2 * ITERATIONS + 8 => <<"r", "pipe2">> \in held
      /\ n > 2 * ITERATIONS + 6 => <<"r", "pipe1">> \in held
      /\ n = 2 * ITERATIONS + 7 => <<"w", "pipe2">> \in held
      /\ held = ends'["parent"]
  BY <1>1
<1> HIDE DEF n, held
<1>3. ParentHolds'
  BY <1>1, <1>2 DEF ParentHolds
<1>4. ParentCalls' = ParentCalls
  BY <1>1, <1>2 DEF ParentCalls
<1>5. ChildThere'
  <2>1. status'["child"] = "none" <=> status["child"] = "none"
    BY DEF SameForked, Processes
  <2>2. /\ status["child"] = "none" => n = 0 \/ n >= 2 * ITERATIONS + 6
        /\ status["child"] # "none" => n <= 2 * ITERATIONS + 5
    BY <1>2 DEF InMeasurement, ChildThere
  <2>3. /\ status["child"] = "none" => n - 1 = 0 \/ n - 1 >= 2 * ITERATIONS + 6
        /\ status["child"] # "none" => n - 1 <= 2 * ITERATIONS + 5
    BY <1>1, <1>2, <2>2
  <2> QED
    BY <1>2, <2>1, <2>3 DEF ChildThere
<1> QED
  BY <1>1, <1>3, <1>4, <1>5, ParentFree

LEMMA ParentFails ==
  ASSUME InMeasurement, Failure("parent"), Left("parent") >= 2 * ITERATIONS + 6
  PROVE  Measurement'
<1>1. /\ "parent" \in Processes /\ Types /\ HasLeft("parent", measure_context_switch)
      /\ measure_context_switch \in Seq(AllCalls)
  BY MeasureIs DEF InMeasurement, Processes
<1>2. /\ HasLeft("parent", measure_context_switch)' /\ Left("parent")' = 0
      /\ SameBut("parent") /\ UNCHANGED <<program, tty, status>>
      /\ \A f \in (Files \cup Pipes) \ {"stderr"} : contents'[f] = contents[f]
  BY <1>1, FailureGoes
<1>3. Apart("parent") /\ SameForked /\ PipesSame
  <2>1. \A f \in Pipes : f \in (Files \cup Pipes) \ {"stderr"}
    BY DEF Pipes
  <2> QED
    BY <1>2, <2>1 DEF SameBut, Same, Apart, SameForked, PipesSame
<1>4. ITERATIONS \in Nat \ {0} /\ Left("parent") \in Nat
  BY MeasurementNumbers
<1>5. status["child"] = "none" /\ status'["child"] = "none"
  BY <1>2, <1>4 DEF InMeasurement, ChildThere
<1>6. ParentHolds' /\ ChildThere'
  BY <1>2, <1>4, <1>5 DEF ParentHolds, ChildThere
<1> QED
  BY <1>2, <1>3, <1>5, <1>6, ParentFree

LEMMA ParentPrints ==
  ASSUME InMeasurement, Step("parent"), Left("parent") \in {1, 2 * ITERATIONS + 3},
         code["parent"] # << >>, NEW line, Head(code["parent"]) = printf(line)
  PROVE  Measurement'
<1> DEFINE calls == measure_context_switch
           n == Left("parent")
<1>1. /\ "parent" \in Processes /\ Types /\ HasLeft("parent", calls) /\ ParentHolds
      /\ calls \in Seq(AllCalls) /\ NoBranches(calls) /\ ITERATIONS \in Nat \ {0} /\ n \in Nat
  BY MeasureIs, MeasurementNumbers DEF InMeasurement, Processes
<1>2. Head(code["parent"]).call = "fprintf" /\ Head(code["parent"]).file \notin Pipes
  BY DEF printf, Pipes
<1>3. Fprintf("parent")
  BY <1>1, <1>2, StepTakes
<1>4. /\ Goes("parent", calls) /\ Apart("parent") /\ ends'["parent"] = ends["parent"]
      /\ UNCHANGED <<program, tty, status>> /\ PipesSame
  BY <1>1, <1>2, <1>3, FprintfGoes
<1>5. SameForked
  BY <1>4 DEF SameForked
<1>6. /\ n < 2 * ITERATIONS + 6 /\ n # 2 * ITERATIONS + 6 /\ n # 2 * ITERATIONS + 7
      /\ n \in {1, 2} \cup (2 * ITERATIONS + 3 .. 2 * ITERATIONS + 8)
  BY <1>1
<1>7. <<"w", "pipe1">> \in ends["parent"] /\ <<"r", "pipe2">> \in ends["parent"]
  BY <1>1 DEF ParentHolds
<1> QED
  BY <1>1, <1>4, <1>5, <1>6, <1>7, ParentGoes

(* The parent before its fork() and between the fork() and its loop. *)
LEMMA ParentFirst ==
  ASSUME InMeasurement, Step("parent"),
         Left("parent") \in 2 * ITERATIONS + 3 .. 2 * ITERATIONS + 8,
         Left("parent") # 2 * ITERATIONS + 6
  PROVE  Measurement'
<1> DEFINE calls == measure_context_switch
           n == Left("parent")
<1>1. /\ "parent" \in Processes /\ Types /\ HasLeft("parent", calls) /\ ParentHolds
      /\ calls \in Seq(AllCalls) /\ NoBranches(calls) /\ ITERATIONS \in Nat \ {0} /\ n \in Nat
  BY MeasureIs, MeasurementNumbers DEF InMeasurement, Processes
<1>2. code["parent"] # << >>
  BY <1>1, MeasurementCalls
<1>3. Head(code["parent"]) = calls[2 * ITERATIONS + 9 - n]
  BY <1>2, MeasurementCalls
<1>4. CASE n \in {2 * ITERATIONS + 8, 2 * ITERATIONS + 7}
  <2>1. PICK f \in Pipes : /\ Head(code["parent"]) = pipe(f)
                           /\ n = 2 * ITERATIONS + 8 => f = "pipe1"
                           /\ n = 2 * ITERATIONS + 7 => f = "pipe2"
    <3>1. CASE n = 2 * ITERATIONS + 8
      <4>1. 2 * ITERATIONS + 9 - n = 1 /\ n # 2 * ITERATIONS + 7
        BY <1>1, <3>1
      <4> QED
        BY <1>3, <3>1, <4>1, MeasureIs, FilesAre
    <3>2. CASE n = 2 * ITERATIONS + 7
      <4>1. 2 * ITERATIONS + 9 - n = 2 /\ n # 2 * ITERATIONS + 8
        BY <1>1, <3>2
      <4> QED
        BY <1>3, <3>2, <4>1, MeasureIs, FilesAre
    <3> QED
      BY <1>4, <3>1, <3>2
  <2>2. Head(code["parent"]).call = "pipe" /\ Head(code["parent"]).file = f
    BY <2>1 DEF pipe
  <2>3. Open("parent") \/ Failure("parent")
    BY <1>1, <1>2, <2>2, StepTakes
  <2>4. CASE Open("parent")
    <3>1. /\ Goes("parent", calls) /\ SameBut("parent")
          /\ ends'["parent"] = ends["parent"] \cup {<<"r", f>>, <<"w", f>>}
          /\ UNCHANGED <<program, tty, status, contents>>
      BY <1>1, <2>2, <2>4, OpenGoes
    <3>2. Apart("parent") /\ SameForked /\ PipesSame
      BY <3>1 DEF SameBut, Same, Apart, SameForked, PipesSame
    <3>3. n = 2 * ITERATIONS + 7 =>
            <<"w", "pipe1">> \in ends["parent"] /\ <<"r", "pipe1">> \in ends["parent"]
      BY <1>1 DEF ParentHolds
    <3>4. /\ <<"w", "pipe1">> \in ends'["parent"]
          /\ n < 2 * ITERATIONS + 8 => <<"r", "pipe2">> \in ends'["parent"]
          /\ n > 2 * ITERATIONS + 6 => <<"r", "pipe1">> \in ends'["parent"]
          /\ n = 2 * ITERATIONS + 7 => <<"w", "pipe2">> \in ends'["parent"]
      <4>1. CASE n = 2 * ITERATIONS + 8
        BY <1>1, <2>1, <3>1, <4>1
      <4>2. CASE n = 2 * ITERATIONS + 7
        BY <1>1, <2>1, <3>1, <3>3, <4>2
      <4> QED
        BY <1>4, <4>1, <4>2
    <3> QED
      BY <1>1, <3>1, <3>2, <3>4, ParentGoes
  <2>5. CASE Failure("parent")
    BY <1>1, <1>4, <2>5, ParentFails
  <2> QED
    BY <2>3, <2>4, <2>5
<1>5. CASE n \in {2 * ITERATIONS + 5, 2 * ITERATIONS + 4}
  <2>1. /\ n = 2 * ITERATIONS + 5 => Head(code["parent"]) = close_r("pipe1")
        /\ n = 2 * ITERATIONS + 4 => Head(code["parent"]) = close_w("pipe2")
    <3>1. CASE n = 2 * ITERATIONS + 5
      <4>1. 2 * ITERATIONS + 9 - n = 4 /\ n # 2 * ITERATIONS + 4
        BY <1>1, <3>1
      <4> QED
        BY <1>3, <3>1, <4>1, MeasureIs
    <3>2. CASE n = 2 * ITERATIONS + 4
      <4>1. 2 * ITERATIONS + 9 - n = 5 /\ n # 2 * ITERATIONS + 5
        BY <1>1, <3>2
      <4> QED
        BY <1>3, <3>2, <4>1, MeasureIs
    <3> QED
      BY <1>5, <3>1, <3>2
  <2>2. /\ Head(code["parent"]).call = "close"
        /\ Head(code["parent"]).end \in {<<"r", "pipe1">>, <<"w", "pipe2">>}
    BY <1>5, <2>1 DEF close_r, close_w
  <2>3. Close("parent")
    BY <1>1, <1>2, <2>2, StepTakes
  <2>4. /\ Goes("parent", calls) /\ SameBut("parent")
        /\ ends'["parent"] = ends["parent"] \ {Head(code["parent"]).end}
        /\ UNCHANGED <<program, tty, status, contents>>
    BY <1>1, <2>3, CloseGoes
  <2>5. Apart("parent") /\ SameForked /\ PipesSame
    BY <2>4 DEF SameBut, Same, Apart, SameForked, PipesSame
  <2>6. <<"w", "pipe1">> \in ends["parent"] /\ <<"r", "pipe2">> \in ends["parent"]
    BY <1>1, <1>5 DEF ParentHolds
  <2>7. <<"w", "pipe1">> \in ends'["parent"] /\ <<"r", "pipe2">> \in ends'["parent"]
    BY <2>2, <2>4, <2>6
  <2>8. n < 2 * ITERATIONS + 6 /\ n \in 2 * ITERATIONS + 3 .. 2 * ITERATIONS + 8
    BY <1>1, <1>5
  <2> QED
    BY <1>1, <2>4, <2>5, <2>7, <2>8, ParentGoes
<1>6. CASE n = 2 * ITERATIONS + 3
  <2>1. Head(code["parent"]) = printf("measuring")
    <3>1. 2 * ITERATIONS + 9 - n = 6
      BY <1>1, <1>6
    <3> QED
      BY <1>3, <3>1, MeasureIs
  <2> QED
    BY <1>1, <1>2, <1>6, <2>1, ParentPrints
<1> QED
  BY <1>1, <1>4, <1>5, <1>6

(* The parent behind its loop. *)
LEMMA ParentLast ==
  ASSUME InMeasurement, Step("parent"), Left("parent") \in {0, 1, 2}
  PROVE  Measurement'
<1> DEFINE calls == measure_context_switch
           n == Left("parent")
<1>1. /\ "parent" \in Processes /\ Types /\ HasLeft("parent", calls) /\ ParentHolds
      /\ calls \in Seq(AllCalls) /\ NoBranches(calls) /\ ITERATIONS \in Nat \ {0} /\ n \in Nat
  BY MeasureIs, MeasurementNumbers DEF InMeasurement, Processes
<1>2. CASE n = 0
  <2>1. code["parent"] = << >>
    BY <1>2, MeasurementCalls
  <2>2. Exit("parent")
    BY <1>1, <2>1, StepTakes
  <2>3. /\ HasLeft("parent", calls)' /\ Left("parent")' = 0 /\ SameBut("parent") /\ SameForked
        /\ UNCHANGED program /\ \A f \in Pipes : contents'[f] = contents[f]
    BY <1>1, <2>2, ExitGoes
  <2>4. Apart("parent") /\ PipesSame
    BY <2>3 DEF SameBut, Same, Apart, PipesSame
  <2>5. ParentHolds'
    BY <1>1, <2>3 DEF ParentHolds
  <2>6. ChildThere'
    BY <1>1, <2>3 DEF ChildThere
  <2>7. ParentCalls' = ParentCalls
    BY <1>1, <1>2, <2>3 DEF ParentCalls
  <2> QED
    BY <2>3, <2>4, <2>5, <2>6, <2>7, ParentFree
<1>3. CASE n = 1
  <2>1. code["parent"] # << >>
    BY <1>1, <1>3, MeasurementCalls
  <2>2. Head(code["parent"]) = printf("finished")
    <3>1. 2 * ITERATIONS + 9 - n = 2 * ITERATIONS + 8
      BY <1>1, <1>3
    <3> QED
      BY <2>1, <3>1, MeasureIs, MeasurementCalls
  <2> QED
    BY <1>1, <1>3, <2>1, <2>2, ParentPrints
<1>4. CASE n = 2
  <2>1. code["parent"] # << >>
    BY <1>1, <1>4, MeasurementCalls
  <2>2. Head(code["parent"]) = wait
    <3>1. 2 * ITERATIONS + 9 - n = 2 * ITERATIONS + 7
      BY <1>1, <1>4
    <3> QED
      BY <2>1, <3>1, MeasureIs, MeasurementCalls
  <2>3. Wait("parent")
    <3>1. Head(code["parent"]).call = "wait"
      BY <2>2 DEF wait, waitpid
    <3> QED
      BY <1>1, <2>1, <3>1, StepTakes
  <2>4. /\ Goes("parent", calls) /\ SameBut("parent") /\ ends'["parent"] = ends["parent"]
        /\ UNCHANGED <<program, tty, contents>> /\ SameForked
    BY <1>1, <2>3, WaitGoes
  <2>5. Apart("parent") /\ PipesSame
    BY <2>4 DEF SameBut, Same, Apart, PipesSame
  <2>6. <<"w", "pipe1">> \in ends["parent"] /\ <<"r", "pipe2">> \in ends["parent"]
    BY <1>1, <1>4 DEF ParentHolds
  <2>7. n < 2 * ITERATIONS + 6 /\ n # 2 * ITERATIONS + 6 /\ n # 2 * ITERATIONS + 7
    BY <1>1, <1>4
  <2> QED
    BY <1>1, <1>4, <2>4, <2>5, <2>6, <2>7, ParentGoes
<1> QED
  BY <1>2, <1>3, <1>4

(* The fork(): no process has called anything of its loop. *)
LEMMA ParentForksChild ==
  ASSUME InMeasurement, Step("parent"), Left("parent") = 2 * ITERATIONS + 6
  PROVE  Measurement'
<1> DEFINE calls == measure_context_switch
           n == Left("parent")
<1>1. /\ "parent" \in Processes /\ "child" \in Processes \ {"parent"} /\ Types
      /\ HasLeft("parent", calls) /\ ParentHolds /\ ChildThere /\ Turns
      /\ status["reader"] = "none"
      /\ calls \in Seq(AllCalls) /\ NoBranches(calls) /\ ITERATIONS \in Nat \ {0} /\ n \in Nat
  BY MeasureIs, MeasurementNumbers DEF InMeasurement, Processes
<1>2. code["parent"] # << >> /\ Head(code["parent"]) = fork("child", answerer)
  <2>1. code["parent"] # << >>
    BY <1>1, MeasurementCalls
  <2>2. 2 * ITERATIONS + 9 - n = 3
    BY <1>1
  <2> QED
    BY <2>1, <2>2, MeasureIs, MeasurementCalls
<1>3. /\ Head(code["parent"]).call = "fork" /\ Head(code["parent"]).child = "child"
      /\ Head(code["parent"]).code = answerer
  BY <1>2 DEF fork
<1>4. Fork("parent") \/ Failure("parent")
  BY <1>1, <1>2, <1>3, StepTakes
<1>5. CASE Failure("parent")
  BY <1>1, <1>5, ParentFails
<1>6. CASE Fork("parent")
  <2>1. /\ Goes("parent", calls)
        /\ code'["child"] = answerer /\ status'["child"] = "running"
        /\ ends'["child"] = ends["parent"] /\ ends'["parent"] = ends["parent"]
        /\ \A q \in Processes \ {"child"} : status'[q] = status[q]
        /\ UNCHANGED <<program, tty, contents>>
    BY <1>1, <1>3, <1>6, ForkGoes
  <2>2. HasLeft("parent", calls)' /\ Left("parent")' = 2 * ITERATIONS + 5
    <3>1. HasLeft("parent", calls)' /\ Left("parent")' = Left("parent") - 1
      BY <1>1, <2>1, GoesIs
    <3> QED
      BY <1>1, <3>1
  <2>3. HasLeft("child", answerer)' /\ Left("child")' = 2 * ITERATIONS + 2
    <3>1. Rest(answerer, Len(answerer)) = answerer /\ Len(answerer) = 2 * ITERATIONS + 2
      BY AnswererIs, WholeIs
    <3> QED
      BY <1>1, <2>1, <3>1 DEF HasLeft, Left
  <2>4. status'["reader"] = "none"
    BY <1>1, <2>1 DEF Processes
  <2>5. /\ <<"w", "pipe1">> \in ends["parent"] /\ <<"r", "pipe2">> \in ends["parent"]
        /\ <<"r", "pipe1">> \in ends["parent"] /\ <<"w", "pipe2">> \in ends["parent"]
    BY <1>1 DEF ParentHolds
  <2>6. ParentHolds' /\ ChildHolds'
    BY <1>1, <2>1, <2>2, <2>3, <2>5 DEF ParentHolds, ChildHolds
  <2>7. ChildThere'
    BY <1>1, <2>1, <2>2 DEF ChildThere
  <2>8. contents["pipe1"] = << >> /\ contents["pipe2"] = << >>
    <3>1. status["child"] = "none"
      BY <1>1 DEF ChildThere
    <3> QED
      BY <1>1, <3>1 DEF Turns
  <2>9. /\ ParentCalls' = 0 /\ ChildCalls' = 0
        /\ Len(contents'["pipe1"]) = 0 /\ Len(contents'["pipe2"]) = 0
    BY <1>1, <2>1, <2>2, <2>3, <2>8 DEF ParentCalls, ChildCalls
  <2>10. InTurn(ParentCalls', ChildCalls', Len(contents'["pipe1"]), Len(contents'["pipe2"]))
    BY <2>9 DEF InTurn
  <2>11. Turns'
    BY <2>1, <2>10 DEF Turns
  <2> QED
    BY <2>2, <2>3, <2>4, <2>6, <2>7, <2>11 DEF Measurement
<1> QED
  BY <1>4, <1>5, <1>6

(* The parent's turn in its loop. *)
LEMMA ParentLoops ==
  ASSUME InMeasurement, Step("parent"), Left("parent") \in 3 .. 2 * ITERATIONS + 2
  PROVE  Measurement'
<1> DEFINE calls == measure_context_switch
           n == Left("parent")
           j == 2 * ITERATIONS + 2 - n
           c == ChildCalls
           bytes1 == Len(contents["pipe1"])
           bytes2 == Len(contents["pipe2"])
<1>1. /\ "parent" \in Processes /\ "child" \in Processes \ {"parent"} /\ Types
      /\ HasLeft("parent", calls) /\ ParentHolds /\ ChildThere /\ ChildHolds /\ Turns
      /\ calls \in Seq(AllCalls) /\ NoBranches(calls) /\ ITERATIONS \in Nat \ {0} /\ n \in Nat
      /\ bytes1 \in Nat /\ bytes2 \in Nat /\ Left("child") \in Nat
  BY MeasureIs, MeasurementNumbers DEF InMeasurement, Processes
<1>2. /\ j \in 0 .. 2 * ITERATIONS - 1 /\ 2 * ITERATIONS + 9 - n = j + 7
      /\ n = 2 * ITERATIONS + 2 - j
  <2>1. n \in 3 .. 2 * ITERATIONS + 2 /\ ITERATIONS \in Nat
    BY <1>1
  <2> HIDE DEF n
  <2> QED
    BY <2>1
<1>3. code["parent"] # << >> /\ Head(code["parent"]) = calls[j + 7]
  <2>1. n # 0
    BY <1>1
  <2>2. code["parent"] # << >>
    BY <2>1, MeasurementCalls
  <2>3. Head(code["parent"]) = calls[2 * ITERATIONS + 9 - n]
    BY <2>2, MeasurementCalls
  <2> HIDE DEF n, j
  <2> QED
    BY <1>2, <2>2, <2>3
<1>4. Head(code["parent"]) = IF j % 2 = 0 THEN write("pipe1", <<"p">>) ELSE read("pipe2", 1)
  BY <1>2, <1>3, MeasureIs
<1>5. status["child"] # "none" /\ ParentCalls = j
  <2>1. n \in 3 .. 2 * ITERATIONS + 2 /\ Left("parent") = n
    OBVIOUS
  <2> HIDE DEF n
  <2>2. status["child"] # "none"
    BY <1>1, <2>1 DEF ChildThere
  <2>3. ParentCalls = j
    BY <1>1, <2>1 DEF ParentCalls
  <2> QED
    BY <2>2, <2>3
<1>6. InTurn(j, c, bytes1, bytes2)
  BY <1>1, <1>5 DEF Turns
<1>7. c \in 0 .. 2 * ITERATIONS /\ (c < 2 * ITERATIONS => Left("child") > 0)
  BY <1>1 DEF ChildCalls
<1>8. ASSUME Goes("parent", calls), Apart("parent"), ends'["parent"] = ends["parent"],
             UNCHANGED <<program, tty, status>>,
             InTurn(j + 1, c, Len(contents'["pipe1"]), Len(contents'["pipe2"]))
      PROVE  Measurement'
  <2>1. /\ HasLeft("parent", calls)' /\ Left("parent")' = n - 1
        /\ Left("parent") = n /\ n \in 3 .. 2 * ITERATIONS + 2
    BY <1>1, <1>8, GoesIs
  <2> HIDE DEF n
  <2>2. ParentCalls' = j + 1
    BY <1>1, <1>2, <2>1 DEF ParentCalls
  <2>3. ChildCalls' = c
    BY <1>1, <1>8 DEF ChildCalls, Left, Apart
  <2> HIDE DEF c, j
  <2>4. InTurn(ParentCalls', ChildCalls', Len(contents'["pipe1"]), Len(contents'["pipe2"]))
    BY <1>8, <2>2, <2>3
  <2>5. Turns' /\ SameForked
    BY <1>5, <1>8, <2>4 DEF Turns, SameForked
  <2>6. <<"w", "pipe1">> \in ends["parent"] /\ <<"r", "pipe2">> \in ends["parent"]
    BY <1>1, <2>1 DEF ParentHolds
  <2>7. ParentHolds'
    BY <1>1, <1>8, <2>1, <2>6 DEF ParentHolds
  <2>8. ChildThere'
    BY <1>1, <1>5, <1>8, <2>1 DEF ChildThere
  <2> QED
    BY <1>5, <1>8, <2>1, <2>5, <2>7, <2>8, ParentMoves
<1> HIDE DEF c, j, n, bytes1, bytes2
<1>9. CASE j % 2 = 0
  <2>1. Head(code["parent"]) = write("pipe1", <<"p">>)
    BY <1>4, <1>9
  <2>2. Write("parent")
    <3>1. Head(code["parent"]).call = "write"
      BY <2>1 DEF write
    <3> QED
      BY <1>1, <1>3, <3>1, StepTakes
  <2>3. c = j /\ bytes1 = 0 /\ bytes2 = 0
    BY <1>2, <1>6, <1>9 DEF InTurn
  <2>4. Readers("pipe1") # {}
    <3>1. <<"r", "pipe1">> \in ends["child"]
      BY <1>1, <1>2, <1>7, <2>3 DEF ChildHolds
    <3> QED
      BY <1>1, <3>1 DEF Readers
  <2>5. /\ Goes("parent", calls) /\ Apart("parent") /\ ends'["parent"] = ends["parent"]
        /\ UNCHANGED <<program, tty, status>>
        /\ Len(contents'["pipe1"]) = Len(contents["pipe1"]) + 1
        /\ \A g \in Pipes \ {"pipe1"} : contents'[g] = contents[g]
    BY <1>1, <2>1, <2>2, <2>4, FilesAre, WriteGoes
  <2>6. Len(contents'["pipe1"]) = 1 /\ Len(contents'["pipe2"]) = 0
    BY <2>3, <2>5, PipesAre DEF bytes1, bytes2
  <2>7. InTurn(j + 1, c, Len(contents'["pipe1"]), Len(contents'["pipe2"]))
    BY <1>2, <1>9, <2>3, <2>6 DEF InTurn
  <2> QED
    BY <1>8, <2>5, <2>7
<1>10. CASE j % 2 # 0
  <2>1. Head(code["parent"]) = read("pipe2", 1)
    BY <1>4, <1>10
  <2>2. Read("parent")
    <3>1. Head(code["parent"]).call = "read"
      BY <2>1 DEF read
    <3> QED
      BY <1>1, <1>3, <3>1, StepTakes
  <2>3. bytes2 <= 1 /\ bytes1 <= 1 /\ (bytes2 = 1 => c = j + 1 /\ bytes1 = 0)
    BY <1>2, <1>6, <1>10 DEF InTurn
  <2>4. bytes2 = 1 \/ Writers("pipe2") # {}
    <3>1. SUFFICES ASSUME bytes2 # 1 PROVE Writers("pipe2") # {}
      OBVIOUS
    <3>2. c < 2 * ITERATIONS
      BY <1>1, <1>2, <1>6, <1>7, <1>10, <3>1 DEF InTurn
    <3>3. <<"w", "pipe2">> \in ends["child"]
      BY <1>1, <1>7, <3>2 DEF ChildHolds
    <3> QED
      BY <1>1, <3>3 DEF Writers
  <2>5. /\ Goes("parent", calls) /\ Apart("parent") /\ ends'["parent"] = ends["parent"]
        /\ UNCHANGED <<program, tty, status>>
        /\ Len(contents["pipe2"]) = 1 /\ Len(contents'["pipe2"]) = 0
        /\ \A g \in Pipes \ {"pipe2"} : contents'[g] = contents[g]
    <3>1. Len(contents["pipe2"]) = 1 \/ Writers("pipe2") # {}
      BY <2>4 DEF bytes2
    <3>2. Len(contents["pipe2"]) <= 1
      BY <2>3 DEF bytes2
    <3> QED
      BY <1>1, <2>1, <2>2, <3>1, <3>2, FilesAre, ReadGoes
  <2>6. c = j + 1 /\ Len(contents'["pipe1"]) = 0 /\ Len(contents'["pipe2"]) = 0
    BY <2>3, <2>5, PipesAre DEF bytes1, bytes2
  <2>7. (j + 1) % 2 = 0
    BY <1>2, <1>10
  <2>8. InTurn(j + 1, c, Len(contents'["pipe1"]), Len(contents'["pipe2"]))
    BY <2>6, <2>7 DEF InTurn
  <2> QED
    BY <1>8, <2>5, <2>8
<1> QED
  BY <1>9, <1>10

LEMMA ParentMeasures ==
  ASSUME InMeasurement, Step("parent")
  PROVE  Measurement'
<1>1. Left("parent") \in 0 .. 2 * ITERATIONS + 8 /\ ITERATIONS \in Nat \ {0}
  BY MeasurementNumbers
<1>2. \/ Left("parent") \in {0, 1, 2}
      \/ Left("parent") \in 3 .. 2 * ITERATIONS + 2
      \/ Left("parent") = 2 * ITERATIONS + 6
      \/ /\ Left("parent") \in 2 * ITERATIONS + 3 .. 2 * ITERATIONS + 8
         /\ Left("parent") # 2 * ITERATIONS + 6
  BY <1>1
<1> QED
  BY <1>2, ParentFirst, ParentForksChild, ParentLoops, ParentLast

(* The child before and behind its loop. *)
LEMMA ChildGoes ==
  ASSUME InMeasurement, Step("child"),
         Left("child") \in {0} \cup (2 * ITERATIONS + 1 .. 2 * ITERATIONS + 2)
  PROVE  Measurement'
<1> DEFINE m == Left("child")
<1>1. /\ "child" \in Processes /\ Types /\ HasLeft("child", answerer) /\ ChildHolds
      /\ answerer \in Seq(AllCalls) /\ NoBranches(answerer)
      /\ ITERATIONS \in Nat \ {0} /\ m \in Nat
  BY AnswererIs, MeasurementNumbers DEF InMeasurement, Processes
<1>2. status["child"] # "none"
  BY <1>1, StepTakes
<1>3. CASE m = 0
  <2>1. code["child"] = << >>
    BY <1>3, MeasurementCalls
  <2>2. Exit("child")
    BY <1>1, <2>1, StepTakes
  <2>3. /\ HasLeft("child", answerer)' /\ Left("child")' = 0 /\ SameBut("child") /\ SameForked
        /\ UNCHANGED program /\ \A f \in Pipes : contents'[f] = contents[f]
    BY <1>1, <2>2, ExitGoes
  <2>4. Apart("child") /\ PipesSame
    BY <2>3 DEF SameBut, Same, Apart, PipesSame
  <2>5. ChildHolds' /\ ChildCalls' = ChildCalls
    BY <1>3, <2>3 DEF ChildHolds, ChildCalls
  <2> QED
    BY <1>2, <2>3, <2>4, <2>5, ChildFree
<1>4. CASE m \in 2 * ITERATIONS + 1 .. 2 * ITERATIONS + 2
  <2>1. code["child"] # << >> /\ Head(code["child"]) = answerer[2 * ITERATIONS + 3 - m] /\ m > 0
    BY <1>1, <1>4, MeasurementCalls
  <2>2. Head(code["child"]) \in {close_w("pipe1"), close_r("pipe2")}
    <3>1. 2 * ITERATIONS + 3 - m \in {1, 2}
      BY <1>1, <1>4
    <3> QED
      BY <2>1, <3>1, AnswererIs
  <2>3. /\ Head(code["child"]).call = "close"
        /\ Head(code["child"]).end \in {<<"w", "pipe1">>, <<"r", "pipe2">>}
    BY <2>2 DEF close_w, close_r
  <2>4. Close("child")
    BY <1>1, <2>1, <2>3, StepTakes
  <2>5. /\ Goes("child", answerer) /\ SameBut("child")
        /\ ends'["child"] = ends["child"] \ {Head(code["child"]).end}
        /\ UNCHANGED <<program, tty, status, contents>>
    BY <1>1, <2>4, CloseGoes
  <2>6. HasLeft("child", answerer)' /\ Left("child")' = m - 1
    BY <1>1, <2>5, GoesIs
  <2>7. Apart("child") /\ SameForked /\ PipesSame
    BY <2>5 DEF SameBut, Same, Apart, SameForked, PipesSame
  <2>8. <<"r", "pipe1">> \in ends["child"] /\ <<"w", "pipe2">> \in ends["child"]
    BY <1>1, <2>1 DEF ChildHolds
  <2>9. <<"r", "pipe1">> \in ends'["child"] /\ <<"w", "pipe2">> \in ends'["child"]
    BY <2>3, <2>5, <2>8
  <2>10. ChildHolds' /\ ChildCalls' = ChildCalls
    BY <1>1, <1>4, <2>6, <2>9 DEF ChildHolds, ChildCalls
  <2> QED
    BY <1>2, <2>5, <2>6, <2>7, <2>10, ChildFree
<1> QED
  BY <1>3, <1>4

(* The child's turn in its loop. *)
LEMMA ChildLoops ==
  ASSUME InMeasurement, Step("child"), Left("child") \in 1 .. 2 * ITERATIONS
  PROVE  Measurement'
<1> DEFINE m == Left("child")
           c == 2 * ITERATIONS - m
           j == ParentCalls
           bytes1 == Len(contents["pipe1"])
           bytes2 == Len(contents["pipe2"])
<1>1. /\ "child" \in Processes /\ "parent" \in Processes \ {"child"} /\ Types
      /\ HasLeft("child", answerer) /\ ParentHolds /\ ChildThere /\ ChildHolds /\ Turns
      /\ answerer \in Seq(AllCalls) /\ NoBranches(answerer)
      /\ ITERATIONS \in Nat \ {0} /\ m \in Nat
      /\ bytes1 \in Nat /\ bytes2 \in Nat /\ Left("parent") \in Nat
  BY AnswererIs, MeasurementNumbers DEF InMeasurement, Processes
<1>2. c \in 0 .. 2 * ITERATIONS - 1 /\ 2 * ITERATIONS + 3 - m = c + 3
  BY <1>1
<1>3. code["child"] # << >> /\ Head(code["child"]) = answerer[c + 3]
  <2>1. m # 0
    BY <1>1
  <2>2. code["child"] # << >>
    BY <2>1, MeasurementCalls
  <2>3. Head(code["child"]) = answerer[2 * ITERATIONS + 3 - m]
    BY <2>2, MeasurementCalls
  <2> HIDE DEF m, c
  <2> QED
    BY <1>2, <2>2, <2>3
<1>4. Head(code["child"]) = IF c % 2 = 0 THEN read("pipe1", 1) ELSE write("pipe2", <<"p">>)
  BY <1>2, <1>3, AnswererIs
<1>5. status["child"] # "none" /\ ChildCalls = c
  <2>1. status["child"] # "none"
    BY <1>1, StepTakes
  <2>2. m \in 1 .. 2 * ITERATIONS /\ Left("child") = m
    OBVIOUS
  <2> HIDE DEF m
  <2>3. ChildCalls = c
    BY <1>1, <2>2 DEF ChildCalls
  <2> QED
    BY <2>1, <2>3
<1>6. InTurn(j, c, bytes1, bytes2)
  BY <1>1, <1>5 DEF Turns
<1>7. /\ j \in 0 .. 2 * ITERATIONS
      /\ j < 2 * ITERATIONS =>
           <<"w", "pipe1">> \in ends["parent"] /\ <<"r", "pipe2">> \in ends["parent"]
  <2>1. Left("parent") <= 2 * ITERATIONS + 5
    BY <1>1, <1>5 DEF ChildThere
  <2>2. j \in 0 .. 2 * ITERATIONS /\ (j < 2 * ITERATIONS => Left("parent") > 2)
    BY <1>1 DEF ParentCalls
  <2> HIDE DEF j
  <2> QED
    BY <1>1, <2>1, <2>2 DEF ParentHolds
<1>8. ASSUME Goes("child", answerer), Apart("child"), ends'["child"] = ends["child"],
             UNCHANGED <<program, tty, status>>,
             InTurn(j, c + 1, Len(contents'["pipe1"]), Len(contents'["pipe2"]))
      PROVE  Measurement'
  <2>1. /\ HasLeft("child", answerer)' /\ Left("child")' = m - 1
        /\ Left("child") = m /\ m \in 1 .. 2 * ITERATIONS
    BY <1>1, <1>8, GoesIs
  <2> HIDE DEF m
  <2>2. ChildCalls' = c + 1
    BY <1>1, <2>1 DEF ChildCalls
  <2>3. ParentCalls' = j
    BY <1>1, <1>8 DEF ParentCalls, Left, Apart
  <2> HIDE DEF c, j
  <2>4. InTurn(ParentCalls', ChildCalls', Len(contents'["pipe1"]), Len(contents'["pipe2"]))
    BY <1>8, <2>2, <2>3
  <2>5. Turns' /\ SameForked
    BY <1>5, <1>8, <2>4 DEF Turns, SameForked
  <2>6. <<"r", "pipe1">> \in ends["child"] /\ <<"w", "pipe2">> \in ends["child"]
    BY <1>1, <2>1 DEF ChildHolds
  <2>7. ChildHolds'
    BY <1>8, <2>6 DEF ChildHolds
  <2> QED
    BY <1>5, <1>8, <2>1, <2>5, <2>7, ChildMoves
<1> HIDE DEF c, j, m, bytes1, bytes2
<1>9. CASE c % 2 = 0
  <2>1. Head(code["child"]) = read("pipe1", 1)
    BY <1>4, <1>9
  <2>2. Read("child")
    <3>1. Head(code["child"]).call = "read"
      BY <2>1 DEF read
    <3> QED
      BY <1>1, <1>3, <3>1, StepTakes
  <2>3. /\ bytes1 <= 1 /\ bytes2 <= 1
        /\ bytes1 = 1 => j % 2 = 1 /\ j = c + 1 /\ bytes2 = 0
        /\ bytes1 # 1 => j <= c
    BY <1>2, <1>6, <1>7, <1>9 DEF InTurn
  <2>4. bytes1 = 1 \/ Writers("pipe1") # {}
    <3>1. SUFFICES ASSUME bytes1 # 1 PROVE Writers("pipe1") # {}
      OBVIOUS
    <3>2. j < 2 * ITERATIONS
      BY <1>1, <1>2, <1>7, <2>3, <3>1
    <3>3. <<"w", "pipe1">> \in ends["parent"]
      BY <1>7, <3>2
    <3> QED
      BY <1>1, <3>3 DEF Writers
  <2>5. /\ Goes("child", answerer) /\ Apart("child") /\ ends'["child"] = ends["child"]
        /\ UNCHANGED <<program, tty, status>>
        /\ Len(contents["pipe1"]) = 1 /\ Len(contents'["pipe1"]) = 0
        /\ \A g \in Pipes \ {"pipe1"} : contents'[g] = contents[g]
    <3>1. Len(contents["pipe1"]) = 1 \/ Writers("pipe1") # {}
      BY <2>4 DEF bytes1
    <3>2. Len(contents["pipe1"]) <= 1
      BY <2>3 DEF bytes1
    <3> QED
      BY <1>1, <2>1, <2>2, <3>1, <3>2, FilesAre, ReadGoes
  <2>6. /\ j % 2 = 1 /\ j = c + 1
        /\ Len(contents'["pipe1"]) = 0 /\ Len(contents'["pipe2"]) = 0
    BY <2>3, <2>5, PipesAre DEF bytes1, bytes2
  <2>7. InTurn(j, c + 1, Len(contents'["pipe1"]), Len(contents'["pipe2"]))
    BY <2>6 DEF InTurn
  <2> QED
    BY <1>8, <2>5, <2>7
<1>10. CASE c % 2 # 0
  <2>1. Head(code["child"]) = write("pipe2", <<"p">>)
    BY <1>4, <1>10
  <2>2. Write("child")
    <3>1. Head(code["child"]).call = "write"
      BY <2>1 DEF write
    <3> QED
      BY <1>1, <1>3, <3>1, StepTakes
  <2>3. j = c /\ j % 2 = 1 /\ bytes1 = 0 /\ bytes2 = 0
    BY <1>2, <1>6, <1>7, <1>10 DEF InTurn
  <2>4. Readers("pipe2") # {}
    <3>1. <<"r", "pipe2">> \in ends["parent"]
      BY <1>1, <1>2, <1>7, <2>3
    <3> QED
      BY <1>1, <3>1 DEF Readers
  <2>5. /\ Goes("child", answerer) /\ Apart("child") /\ ends'["child"] = ends["child"]
        /\ UNCHANGED <<program, tty, status>>
        /\ Len(contents'["pipe2"]) = Len(contents["pipe2"]) + 1
        /\ \A g \in Pipes \ {"pipe2"} : contents'[g] = contents[g]
    BY <1>1, <2>1, <2>2, <2>4, FilesAre, WriteGoes
  <2>6. Len(contents'["pipe1"]) = 0 /\ Len(contents'["pipe2"]) = 1
    BY <2>3, <2>5, PipesAre DEF bytes1, bytes2
  <2>7. InTurn(j, c + 1, Len(contents'["pipe1"]), Len(contents'["pipe2"]))
    BY <2>3, <2>6 DEF InTurn
  <2> QED
    BY <1>8, <2>5, <2>7
<1> QED
  BY <1>9, <1>10

LEMMA ChildMeasures ==
  ASSUME InMeasurement, Step("child")
  PROVE  Measurement'
<1>1. Left("child") \in 0 .. 2 * ITERATIONS + 2 /\ ITERATIONS \in Nat \ {0}
  BY MeasurementNumbers
<1>2. \/ Left("child") \in {0} \cup (2 * ITERATIONS + 1 .. 2 * ITERATIONS + 2)
      \/ Left("child") \in 1 .. 2 * ITERATIONS
  BY <1>1
<1> QED
  BY <1>2, ChildGoes, ChildLoops

LEMMA MeasurementStays == Types /\ Measurement /\ [Next]_vars => Measurement'
<1> SUFFICES ASSUME Types, Measurement, [Next]_vars PROVE Measurement'
  OBVIOUS
<1>1. ASSUME NEW p \in Processes, Step(p) PROVE Measurement'
  <2>1. program' = program
    BY <1>1 DEF Step, Fprintf, Fflush, Fclose, Exit, Open, Close, Fork, Failure, Wait, Exec,
                Write, Read
  <2>2. CASE program = "os_measurements"
    <3>1. InMeasurement
      BY <2>2 DEF Measurement, InMeasurement
    <3>2. p # "reader"
      <4>1. status[p] = "running"
        BY <1>1, StepTakes
      <4> QED
        BY <3>1, <4>1 DEF InMeasurement
    <3> QED
      BY <1>1, <3>1, <3>2, ParentMeasures, ChildMeasures DEF Processes
  <2>3. CASE program # "os_measurements"
    BY <2>1, <2>3 DEF Measurement
  <2> QED
    BY <2>2, <2>3
<1>2. CASE UNCHANGED vars
  <2>1. UNCHANGED <<program, tty, status, code, ends, buffer, contents>>
    BY <1>2 DEF vars
  <2> QED
    BY <2>1 DEF Measurement, HasLeft, Left, ChildThere, ParentHolds, ChildHolds, Turns,
                ParentCalls, ChildCalls
<1> QED
  BY <1>1, <1>2 DEF Next, Terminated

LEMMA MeasurementStarts == Init => Measurement
<1> SUFFICES ASSUME Init, program = "os_measurements" PROVE Measurement
  BY DEF Measurement
<1>1. /\ code["parent"] = measure_context_switch /\ code["child"] = << >>
      /\ status["child"] = "none" /\ status["reader"] = "none"
      /\ contents["pipe1"] = << >> /\ contents["pipe2"] = << >>
  BY FilesAre DEF Init, Processes, Programs
<1>2. ITERATIONS \in Nat \ {0}
  BY Parameters
<1>3. HasLeft("parent", measure_context_switch) /\ Left("parent") = 2 * ITERATIONS + 8
  <2>1. /\ Rest(measure_context_switch, Len(measure_context_switch)) = measure_context_switch
        /\ Len(measure_context_switch) = 2 * ITERATIONS + 8
    BY MeasureIs, WholeIs
  <2> QED
    BY <1>1, <1>2, <2>1 DEF HasLeft, Left
<1>4. HasLeft("child", answerer) /\ Left("child") = 0
  <2>1. Rest(answerer, 0) = << >> /\ Len(answerer) \in Nat
    BY AnswererIs, RestIs
  <2> QED
    BY <1>1, <2>1 DEF HasLeft, Left
<1>5. ChildThere /\ ParentHolds /\ ChildHolds /\ Turns
  BY <1>1, <1>2, <1>3, <1>4 DEF ChildThere, ParentHolds, ChildHolds, Turns
<1> QED
  BY <1>1, <1>3, <1>4, <1>5 DEF Measurement

(* Every second call from some place on is a read(). *)
LEMMA ReadsSpaced ==
  ASSUME NEW p \in Processes, code[p] \in Seq(AllCalls), NEW a \in Nat, NEW b \in Nat, a <= b,
         NEW d \in Int,
         \A i \in 1 .. Left(p) : code[p][i].call = "read" <=> \E t \in a + 1 .. b : i = 2 * t + d,
         \A t \in a + 1 .. b : 2 * t + d \in 1 .. Left(p)
  PROVE  ReadsLeft(p) = b - a
<1> DEFINE reads == {i \in DOMAIN code[p] : code[p][i].call = "read"}
           place == [t \in a + 1 .. b |-> 2 * t + d]
<1>1. DOMAIN code[p] = 1 .. Left(p)
  BY DEF Left
<1>2. \A i : i \in reads <=> \E t \in a + 1 .. b : i = 2 * t + d
  BY <1>1
<1>3. place \in [a + 1 .. b -> reads]
  BY <1>2
<1>4. \A s, t \in a + 1 .. b : place[s] = place[t] => s = t
  OBVIOUS
<1>5. \A i \in reads : \E t \in a + 1 .. b : place[t] = i
  BY <1>2
<1>6. ExistsBijection(a + 1 .. b, reads)
  <2>1. place \in Surjection(a + 1 .. b, reads)
    BY <1>3, <1>5 DEF Surjection
  <2> HIDE DEF place, reads
  <2>2. place \in Bijection(a + 1 .. b, reads)
    BY <1>3, <1>4, <2>1, Fun_IsBij
  <2> QED
    BY <2>2 DEF ExistsBijection
<1> HIDE DEF reads
<1>7. IsFiniteSet(a + 1 .. b) /\ Cardinality(a + 1 .. b) = b - a
  <2>1. a + 1 \in Int /\ b \in Int
    OBVIOUS
  <2>2. /\ IsFiniteSet(a + 1 .. b)
        /\ Cardinality(a + 1 .. b) = IF a + 1 > b THEN 0 ELSE b - (a + 1) + 1
    BY <2>1, FS_Interval
  <2> QED
    BY <2>2
<1>8. Cardinality(reads) = b - a
  BY <1>6, <1>7, FS_Bijection
<1> QED
  BY <1>8 DEF ReadsLeft, reads

LEMMA Halves == \A x \in Nat : \E t \in Nat : x = 2 * t + (x % 2)
<1> TAKE x \in Nat
<1>1. x \div 2 \in Nat /\ x = 2 * (x \div 2) + (x % 2)
  OBVIOUS
<1> QED
  BY <1>1

LEMMA ParentReads ==
  ASSUME InMeasurement, NEW a \in Nat, 2 * a <= ParentCalls, ParentCalls <= 2 * a + 1
  PROVE  ReadsLeft("parent") = ITERATIONS - a
<1> DEFINE calls == measure_context_switch
           n == Left("parent")
           N == ITERATIONS
           d == n - 2 * N - 2
<1>1. /\ code["parent"] = Rest(calls, n) /\ n \in 0 .. 2 * N + 8 /\ N \in Nat \ {0}
      /\ Len(calls) = 2 * N + 8 /\ n = Left("parent")
  BY MeasurementNumbers, MeasureIs DEF InMeasurement, HasLeft
<1>2. code["parent"] \in Seq(AllCalls) /\ "parent" \in Processes
  BY DEF InMeasurement, Types, Processes
<1>3. a <= N /\ \A t \in a + 1 .. N : 2 * t + d \in 1 .. n
  <2> HIDE DEF n
  <2> QED
    BY <1>1 DEF ParentCalls
<1>4. \A k \in 1 .. 2 * N + 8 : calls[k].call = "read" <=> \E t \in 1 .. N : k = 2 * t + 6
  <2> SUFFICES ASSUME NEW k \in 1 .. 2 * N + 8
               PROVE  calls[k].call = "read" <=> \E t \in 1 .. N : k = 2 * t + 6
    OBVIOUS
  <2>1. CASE k \in 1 .. 6
    <3>1. k \in {1, 2, 3, 4, 5, 6}
      BY <2>1
    <3>2. calls[k].call # "read"
      BY <3>1, MeasureIs DEF pipe, fork, close_r, close_w, printf
    <3> QED
      BY <2>1, <3>2
  <2>2. CASE k \in {2 * N + 7, 2 * N + 8}
    <3>1. calls[k].call # "read"
      BY <2>2, MeasureIs DEF wait, waitpid, printf
    <3> QED
      BY <1>1, <2>2, <3>1
  <2>3. CASE k \in 7 .. 2 * N + 6
    <3>1. k - 7 \in 0 .. 2 * N - 1 /\ (k - 7) + 7 = k
      BY <1>1, <2>3
    <3>2. calls[k] = IF (k - 7) % 2 = 0 THEN write("pipe1", <<"p">>) ELSE read("pipe2", 1)
      BY <3>1, MeasureIs
    <3>3. calls[k].call = "read" <=> (k - 7) % 2 # 0
      BY <3>2 DEF write, read
    <3>4. (k - 7) % 2 # 0 <=> \E t \in 1 .. N : k = 2 * t + 6
      <4>1. ASSUME (k - 7) % 2 # 0 PROVE \E t \in 1 .. N : k = 2 * t + 6
        <5>1. PICK t \in Int : k - 7 = 2 * t + 1
          <6>1. k - 7 \in Nat /\ (k - 7) % 2 = 1
            BY <3>1, <4>1
          <6>2. PICK t \in Nat : k - 7 = 2 * t + ((k - 7) % 2)
            BY <6>1, Halves
          <6> QED
            BY <6>1, <6>2
        <5>2. t + 1 \in 1 .. N /\ k = 2 * (t + 1) + 6
          BY <1>1, <2>3, <5>1
        <5> QED
          BY <5>2
      <4>2. ASSUME NEW t \in 1 .. N, k = 2 * t + 6 PROVE (k - 7) % 2 # 0
        <5>1. k - 7 = 2 * (t - 1) + 1
          BY <4>2
        <5> QED
          BY <1>1, <5>1
      <4> QED
        BY <4>1, <4>2
    <3> QED
      BY <3>3, <3>4
  <2> QED
    BY <1>1, <2>1, <2>2, <2>3
<1>5. ASSUME NEW i \in 1 .. n
      PROVE  code["parent"][i].call = "read" <=> \E t \in a + 1 .. N : i = 2 * t + d
  <2> DEFINE k == 2 * N + 8 - n + i
  <2>1. code["parent"][i] = calls[k] /\ k \in 1 .. 2 * N + 8
    BY <1>1 DEF Rest
  <2>2. code["parent"][i].call = "read" <=> \E t \in 1 .. N : k = 2 * t + 6
    BY <1>4, <2>1
  <2>3. \A t \in 1 .. N : k = 2 * t + 6 <=> i = 2 * t + d
    BY <1>1
  <2>4. \A t \in 1 .. N : i = 2 * t + d => t > a
    <3> HIDE DEF n
    <3> QED
      BY <1>1 DEF ParentCalls
  <2> HIDE DEF k, d, n
  <2> QED
    BY <1>1, <2>2, <2>3, <2>4
<1>6. d \in Int /\ N \in Nat
  BY <1>1
<1> HIDE DEF d
<1> QED
  BY <1>1, <1>2, <1>3, <1>5, <1>6, ReadsSpaced

LEMMA ChildReads ==
  ASSUME InMeasurement, NEW a \in Nat, ChildCalls <= 2 * a, 2 * a <= ChildCalls + 1
  PROVE  ReadsLeft("child") = ITERATIONS - a
<1> DEFINE m == Left("child")
           N == ITERATIONS
           d == m - 2 * N - 1
<1>1. /\ code["child"] = Rest(answerer, m) /\ m \in 0 .. 2 * N + 2 /\ N \in Nat \ {0}
      /\ Len(answerer) = 2 * N + 2 /\ m = Left("child")
  BY MeasurementNumbers, AnswererIs DEF InMeasurement, HasLeft
<1>2. code["child"] \in Seq(AllCalls) /\ "child" \in Processes
  BY DEF InMeasurement, Types, Processes
<1>3. a <= N /\ \A t \in a + 1 .. N : 2 * t + d \in 1 .. m
  <2> HIDE DEF m
  <2> QED
    BY <1>1 DEF ChildCalls
<1>4. \A k \in 1 .. 2 * N + 2 : answerer[k].call = "read" <=> \E t \in 1 .. N : k = 2 * t + 1
  <2> SUFFICES ASSUME NEW k \in 1 .. 2 * N + 2
               PROVE  answerer[k].call = "read" <=> \E t \in 1 .. N : k = 2 * t + 1
    OBVIOUS
  <2>1. CASE k \in {1, 2}
    <3>1. answerer[k].call # "read"
      BY <2>1, AnswererIs DEF close_r, close_w
    <3> QED
      BY <2>1, <3>1
  <2>2. CASE k \in 3 .. 2 * N + 2
    <3>1. k - 3 \in 0 .. 2 * N - 1 /\ (k - 3) + 3 = k
      BY <1>1, <2>2
    <3>2. answerer[k] = IF (k - 3) % 2 = 0 THEN read("pipe1", 1) ELSE write("pipe2", <<"p">>)
      BY <3>1, AnswererIs
    <3>3. answerer[k].call = "read" <=> (k - 3) % 2 = 0
      BY <3>2 DEF write, read
    <3>4. (k - 3) % 2 = 0 <=> \E t \in 1 .. N : k = 2 * t + 1
      <4>1. ASSUME (k - 3) % 2 = 0 PROVE \E t \in 1 .. N : k = 2 * t + 1
        <5>1. PICK t \in Nat : k - 3 = 2 * t + ((k - 3) % 2)
          <6>1. k - 3 \in Nat
            BY <3>1
          <6> QED
            BY <6>1, Halves
        <5>2. t + 1 \in 1 .. N /\ k = 2 * (t + 1) + 1
          BY <1>1, <2>2, <4>1, <5>1
        <5> QED
          BY <5>2
      <4>2. ASSUME NEW t \in 1 .. N, k = 2 * t + 1 PROVE (k - 3) % 2 = 0
        <5>1. k - 3 = 2 * (t - 1)
          BY <4>2
        <5> QED
          BY <1>1, <5>1
      <4> QED
        BY <4>1, <4>2
    <3> QED
      BY <3>3, <3>4
  <2> QED
    BY <1>1, <2>1, <2>2
<1>5. ASSUME NEW i \in 1 .. m
      PROVE  code["child"][i].call = "read" <=> \E t \in a + 1 .. N : i = 2 * t + d
  <2> DEFINE k == 2 * N + 2 - m + i
  <2>1. code["child"][i] = answerer[k] /\ k \in 1 .. 2 * N + 2
    BY <1>1 DEF Rest
  <2>2. code["child"][i].call = "read" <=> \E t \in 1 .. N : k = 2 * t + 1
    BY <1>4, <2>1
  <2>3. \A t \in 1 .. N : k = 2 * t + 1 <=> i = 2 * t + d
    BY <1>1
  <2>4. \A t \in 1 .. N : i = 2 * t + d => t > a
    <3> HIDE DEF m
    <3> QED
      BY <1>1 DEF ChildCalls
  <2> HIDE DEF k, d, m
  <2> QED
    BY <1>1, <2>2, <2>3, <2>4
<1>6. d \in Int /\ N \in Nat
  BY <1>1
<1> HIDE DEF d
<1> QED
  BY <1>1, <1>2, <1>3, <1>5, <1>6, ReadsSpaced

(* Each read() is answered by a write(). *)
LEMMA MeasurementInStep ==
  ASSUME InMeasurement, status["child"] # "none"
  PROVE  /\ Len(contents["pipe1"]) + Len(contents["pipe2"]) <= 1
         /\ ReadsLeft("parent") - ReadsLeft("child") \in {0, 1}
<1> DEFINE j == ParentCalls
           c == ChildCalls
           bytes1 == Len(contents["pipe1"])
           bytes2 == Len(contents["pipe2"])
<1>1. InTurn(j, c, bytes1, bytes2)
  BY DEF InMeasurement, Turns
<1>2. j \in Nat /\ c \in Nat /\ ITERATIONS \in Nat
  <2> DEFINE n == Left("parent")
             m == Left("child")
  <2>1. n \in Nat /\ m \in Nat /\ ITERATIONS \in Nat
    BY MeasurementNumbers
  <2>2. j \in Nat
    <3> HIDE DEF m
    <3> QED
      BY <2>1 DEF ParentCalls
  <2>3. c \in Nat
    <3> HIDE DEF n
    <3> QED
      BY <2>1 DEF ChildCalls
  <2> QED
    BY <2>1, <2>2, <2>3
<1> HIDE DEF j, c, bytes1, bytes2
<1>3. bytes1 + bytes2 <= 1
  BY <1>1 DEF InTurn
<1>4. PICK k \in Nat : j = 2 * k + (j % 2)
  BY <1>2, Halves
<1>5. ReadsLeft("parent") = ITERATIONS - k
  <2>1. 2 * k <= j /\ j <= 2 * k + 1
    BY <1>2, <1>4
  <2> QED
    BY <2>1, ParentReads DEF j
<1>6. PICK b \in {k, k + 1} : c <= 2 * b /\ 2 * b <= c + 1
  <2>1. CASE c <= 2 * k
    <3>1. 2 * k <= c + 1
      BY <1>1, <1>2, <1>4, <2>1 DEF InTurn
    <3> QED
      BY <2>1, <3>1
  <2>2. CASE c > 2 * k
    <3>1. c <= 2 * (k + 1) /\ 2 * (k + 1) <= c + 1
      BY <1>1, <1>2, <1>4, <2>2 DEF InTurn
    <3> QED
      BY <3>1
  <2> QED
    BY <1>2, <1>4, <2>1, <2>2
<1>7. ReadsLeft("child") = ITERATIONS - b
  <2>1. b \in Nat
    BY <1>6
  <2> QED
    BY <1>6, <2>1, ChildReads DEF c
<1>8. ReadsLeft("parent") - ReadsLeft("child") \in {0, 1}
  BY <1>2, <1>5, <1>6, <1>7
<1> QED
  BY <1>3, <1>8 DEF bytes1, bytes2

(* What the reader has printed is the beginning of the message. *)
LEMMA MessageInOrder ==
  ASSUME Types, PipesIO, program = "pipes_io"
  PROVE  LET message == [i \in DOMAIN MESSAGE |-> <<"reader", MESSAGE[i]>>]
         IN  /\ IsPrefix(printed, message)
             /\ status["reader"] \in {"zombie", "gone"} => contents["stdout"] = message
<1> DEFINE message == [i \in DOMAIN MESSAGE |-> <<"reader", MESSAGE[i]>>]
<1>1. /\ message \in Lines /\ Len(message) = Len(MESSAGE)
      /\ \A i \in 1 .. Len(MESSAGE) : message[i] = <<"reader", MESSAGE[i]>>
  <2>1. MESSAGE \in Seq(Texts)
    BY Parameters
  <2>2. DOMAIN MESSAGE = 1 .. Len(MESSAGE) /\ \A i \in 1 .. Len(MESSAGE) : MESSAGE[i] \in Texts
    BY <2>1
  <2>3. \A i \in 1 .. Len(MESSAGE) : <<"reader", MESSAGE[i]>> \in Processes \X Texts
    BY <2>2 DEF Processes
  <2>4. Len(MESSAGE) \in Nat
    BY <2>1
  <2> QED
    BY <2>2, <2>3, <2>4 DEF Lines
<1> HIDE DEF message
<1>2. printed \in Lines /\ Len(printed) \in Nat /\ Len(MESSAGE) \in Nat
  BY PrintedIs
<1>3. ASSUME Len(printed) <= Len(MESSAGE),
             \A i \in 1 .. Len(printed) : printed[i] = <<"reader", MESSAGE[i]>>
      PROVE  /\ IsPrefix(printed, message)
             /\ Len(printed) = Len(MESSAGE) => printed = message
  <2>1. \A i \in 1 .. Len(printed) : printed[i] = message[i]
    BY <1>1, <1>2, <1>3
  <2>2. SubSeq(printed, 1, Len(printed)) = SubSeq(message, 1, Len(printed))
    <3> DEFINE n == Len(printed)
    <3>1. n \in 0 .. Len(printed) /\ n \in 0 .. Len(message)
      BY <1>1, <1>2, <1>3
    <3>2. /\ SubSeq(printed, 1, n) \in Lines /\ Len(SubSeq(printed, 1, n)) = n
          /\ \A i \in 1 .. n : SubSeq(printed, 1, n)[i] = printed[i]
      BY <1>2, <3>1 DEF Lines
    <3>3. /\ SubSeq(message, 1, n) \in Lines /\ Len(SubSeq(message, 1, n)) = n
          /\ \A i \in 1 .. n : SubSeq(message, 1, n)[i] = message[i]
      BY <1>1, <3>1 DEF Lines
    <3> QED
      BY <2>1, <3>2, <3>3, SeqEqual DEF Lines
  <2>3. Len(printed) = Len(MESSAGE) => printed = message
    BY <1>1, <1>2, <2>1, SeqEqual DEF Lines
  <2> QED
    BY <1>1, <1>3, <2>2, <2>3 DEF IsPrefix
<1>4. CASE status["reader"] = "none"
  <2>1. contents["stdout"] = << >> /\ buffer["reader"]["stdout"] = << >>
    BY <1>4, FilesAre DEF PipesIO, ReaderPrints, Types, Processes, NothingBuffered
  <2>2. printed = << >> /\ Len(printed) = 0
    BY <2>1 DEF printed
  <2> QED
    BY <1>2, <1>3, <1>4, <2>2 DEF message
<1>5. CASE status["reader"] # "none"
  <2>1. PICK n \in 0 .. Len(MESSAGE) : ReaderAt(n) /\ Flow(n)
    BY <1>5 DEF PipesIO, MessageFlows
  <2>2. Len(printed) <= Len(MESSAGE)
    <3>1. Len(printed) + n <= Len(MESSAGE)
      BY <2>1, FlowIs
    <3> QED
      BY <1>2, <3>1
  <2>3. \A i \in 1 .. Len(printed) : printed[i] = <<"reader", MESSAGE[i]>>
    BY <2>1 DEF Flow
  <2>4. ASSUME status["reader"] \in {"zombie", "gone"} PROVE contents["stdout"] = message
    <3>1. code["reader"] = << >> /\ buffer["reader"]["stdout"] = << >>
      BY <2>4, FilesAre DEF Types, Processes, NothingBuffered
    <3>2. printed = contents["stdout"]
      BY <3>1, PrintedIs, ConcatEmptySeq DEF printed, Lines
    <3>3. reader # << >>
      BY DEF reader
    <3>4. LoopFrom(Len(printed), n) # << >>
      <4>1. Len(printed) + n <= Len(MESSAGE)
        BY <2>1, FlowIs
      <4> QED
        BY <1>2, <4>1, LoopIs
    <3>5. Len(printed) = Len(MESSAGE)
      BY <1>5, <2>1, <3>1, <3>3, <3>4 DEF ReaderAt
    <3> QED
      BY <1>3, <2>2, <2>3, <3>2, <3>5
  <2> QED
    BY <1>3, <2>2, <2>3, <2>4 DEF message
<1> QED
  BY <1>4, <1>5


----------------------------------------------------------------------------
(* What every parent is made of *)

Children == {"child", "reader"}

(* How many calls a parent has left when it has waited for its child; in   *)
(* hello_and_goodbye.c it never does.                                      *)
AfterWait(name, q) ==
  CASE name = "hello_and_goodbye"  -> -1
    [] name = "pipes_io"           -> IF q = "child" THEN 1 ELSE 0
    [] name = "open_file_and_fork" -> 3
    [] OTHER                       -> 1

(* The calls that may fail, and the output that belongs behind the child's. *)
MayFail == {"fork", "pipe", "fopen"}
PrintsLate(c) == \/ c.call = "fprintf" /\ c.file = "dummy.txt"
                 \/ c.call = "fprintf" /\ c.file = "stdout" /\ c.line = "finished"

(* A call c of a parent that leaves it with n more calls.                  *)
InOrder(name, c, n) ==
  /\ c.call \notin {"onError", "exec", "whileRead"}
  /\ c.call = "fprintf" => c.file \in Streams
  /\ c.call = "write" => name \in {"hello_and_goodbye", "os_measurements"}
  /\ c.call = "fork" /\ c.child = "reader" => name = "pipes_io"
  /\ \A q \in Children :
       /\ c.call = "fork" => n > AfterWait(name, q)
       /\ n = AfterWait(name, q) =>
            /\ c.call = "wait"
            /\ q = "child" \/ name = "pipes_io" => q \in c.children
            /\ name = "pipes_io" => c.children = {q}
       /\ PrintsLate(c) /\ c.file = "stdout" => n < AfterWait(name, q)
       /\ PrintsLate(c) /\ c.file = "dummy.txt" => AfterWait(name, q) \in 0 .. n - 1
       /\ c.call \in {"fflush", "fclose"} /\ c.file = "dummy.txt" => n < AfterWait(name, q)

WaitsInOrder(name) ==
  LET calls == Programs[name]
  IN  /\ \A q \in Children : AfterWait(name, q) < Len(calls)
      /\ \A i \in 1 .. Len(calls) : InOrder(name, calls[i], Len(calls) - i)
      /\ \A i, j \in 1 .. Len(calls) :
           PrintsLate(calls[i]) /\ calls[j].call \in MayFail => j < i


LEMMA fork_cWaits == WaitsInOrder("fork")
<1> DEFINE child == << printf("initial"), printf("changed") >>
<1>1. /\ Programs["fork"] = fork_c /\ Len(fork_c) = 5
      /\ fork_c[1] = printf("before_fork") /\ fork_c[2] = fork("child", child)
      /\ fork_c[3] = printf("changed") /\ fork_c[4] = wait
      /\ fork_c[5] = printf("finished")
  BY DEF Programs, fork_c
<1> HIDE DEF child
<1>2. \A q : AfterWait("fork", q) = 1
  BY DEF AfterWait
<1>3. \A i \in 1 .. 5 : InOrder("fork", fork_c[i], 5 - i)
  BY <1>1, <1>2 DEF InOrder, PrintsLate, Streams, Children, Processes, printf, fork, wait,
     waitpid
<1>4. \A i, j \in 1 .. 5 :
         PrintsLate(fork_c[i]) /\ fork_c[j].call \in MayFail => j < i
  BY <1>1 DEF PrintsLate, MayFail, printf, fork, wait, waitpid
<1> QED
  BY <1>1, <1>2, <1>3, <1>4 DEF WaitsInOrder, Children

LEMMA wait_example_cWaits == WaitsInOrder("wait_example")
<1> DEFINE branch == << fprintf("stderr", "wait_failed") >>
           child == << printf("executing"), printf("trying"), wait, onError(branch),
                       printf("exiting") >>
<1>1. /\ Programs["wait_example"] = wait_example_c /\ Len(wait_example_c) = 5
      /\ wait_example_c[1] = printf("before_fork") /\ wait_example_c[2] = fork("child", child)
      /\ wait_example_c[3] = printf("waiting") /\ wait_example_c[4] = wait
      /\ wait_example_c[5] = printf("finished")
  BY DEF Programs, wait_example_c
<1> HIDE DEF branch, child
<1>2. \A q : AfterWait("wait_example", q) = 1
  BY DEF AfterWait
<1>3. \A i \in 1 .. 5 : InOrder("wait_example", wait_example_c[i], 5 - i)
  BY <1>1, <1>2 DEF InOrder, PrintsLate, Streams, Children, Processes, printf, fork, wait,
     waitpid
<1>4. \A i, j \in 1 .. 5 :
         PrintsLate(wait_example_c[i]) /\ wait_example_c[j].call \in MayFail => j < i
  BY <1>1 DEF PrintsLate, MayFail, printf, fork, wait, waitpid
<1> QED
  BY <1>1, <1>2, <1>3, <1>4 DEF WaitsInOrder, Children

LEMMA waitpid_example_cWaits == WaitsInOrder("waitpid_example")
<1> DEFINE child == << printf("executing"), printf("exiting") >>
<1>1. /\ Programs["waitpid_example"] = waitpid_example_c /\ Len(waitpid_example_c) = 5
      /\ waitpid_example_c[1] = printf("before_fork") /\ waitpid_example_c[2] = fork("child", child)
      /\ waitpid_example_c[3] = printf("waiting") /\ waitpid_example_c[4] = waitpid({"child"})
      /\ waitpid_example_c[5] = printf("finished")
  BY DEF Programs, waitpid_example_c
<1> HIDE DEF child
<1>2. \A q : AfterWait("waitpid_example", q) = 1
  BY DEF AfterWait
<1>3. \A i \in 1 .. 5 : InOrder("waitpid_example", waitpid_example_c[i], 5 - i)
  BY <1>1, <1>2 DEF InOrder, PrintsLate, Streams, Children, Processes, printf, fork, waitpid
<1>4. \A i, j \in 1 .. 5 :
         PrintsLate(waitpid_example_c[i]) /\ waitpid_example_c[j].call \in MayFail => j < i
  BY <1>1 DEF PrintsLate, MayFail, printf, fork, waitpid
<1> QED
  BY <1>1, <1>2, <1>3, <1>4 DEF WaitsInOrder, Children

LEMMA close_stdout_cWaits == WaitsInOrder("close_stdout")
<1> DEFINE branch == << fprintf("stderr", "printf_failed") >>
           child == << printf("should_appear"), printf("now_closing"), fflush("stdout"),
                       close_w("stdout"), printf("should_not_appear"), onError(branch) >>
<1>1. /\ Programs["close_stdout"] = close_stdout_c /\ Len(close_stdout_c) = 4
      /\ close_stdout_c[1] = fork("child", child) /\ close_stdout_c[2] = printf("created_child")
      /\ close_stdout_c[3] = wait /\ close_stdout_c[4] = printf("finished")
  BY DEF Programs, close_stdout_c
<1> HIDE DEF branch, child
<1>2. \A q : AfterWait("close_stdout", q) = 1
  BY DEF AfterWait
<1>3. \A i \in 1 .. 4 : InOrder("close_stdout", close_stdout_c[i], 4 - i)
  BY <1>1, <1>2 DEF InOrder, PrintsLate, Streams, Children, Processes, fork, printf, wait,
     waitpid
<1>4. \A i, j \in 1 .. 4 :
         PrintsLate(close_stdout_c[i]) /\ close_stdout_c[j].call \in MayFail => j < i
  BY <1>1 DEF PrintsLate, MayFail, fork, printf, wait, waitpid
<1> QED
  BY <1>1, <1>2, <1>3, <1>4 DEF WaitsInOrder, Children

LEMMA open_file_and_fork_cWaits == WaitsInOrder("open_file_and_fork")
<1> DEFINE child == << printf("inherited"), fprintf("dummy.txt", "line"), printf("wrote"),
                       fclose("dummy.txt") >>
<1>1. /\ Programs["open_file_and_fork"] = open_file_and_fork_c /\ Len(open_file_and_fork_c) = 10
      /\ open_file_and_fork_c[1] = fopen("dummy.txt")
      /\ open_file_and_fork_c[2] = printf("opened")
      /\ open_file_and_fork_c[3] = fflush("stdout")
      /\ open_file_and_fork_c[4] = fork("child", child)
      /\ open_file_and_fork_c[5] = fprintf("dummy.txt", "line")
      /\ open_file_and_fork_c[6] = printf("wrote")
      /\ open_file_and_fork_c[7] = wait
      /\ open_file_and_fork_c[8] = printf("finished")
      /\ open_file_and_fork_c[9] = fclose("dummy.txt")
      /\ open_file_and_fork_c[10] = printf("final_check")
  BY DEF Programs, open_file_and_fork_c
<1> HIDE DEF child
<1>2. \A q : AfterWait("open_file_and_fork", q) = 3
  BY DEF AfterWait
<1>3. \A i \in 1 .. 10 : InOrder("open_file_and_fork", open_file_and_fork_c[i], 10 - i)
  BY <1>1, <1>2 DEF InOrder, PrintsLate, Streams, Children, Processes, fopen, printf, fflush,
     fork, fprintf, wait, fclose, waitpid
<1>4. \A i, j \in 1 .. 10 :
         PrintsLate(open_file_and_fork_c[i]) /\ open_file_and_fork_c[j].call \in MayFail => j < i
  BY <1>1 DEF PrintsLate, MayFail, fopen, printf, fflush, fork, fprintf, wait, fclose, waitpid
<1> QED
  BY <1>1, <1>2, <1>3, <1>4 DEF WaitsInOrder, Children

LEMMA hello_and_goodbye_cWaits == WaitsInOrder("hello_and_goodbye")
<1> DEFINE child == << close_r("pipe1"), printf("hello"), write("pipe1", SIGNAL),
                       close_w("pipe1") >>
<1>1. /\ Programs["hello_and_goodbye"] = hello_and_goodbye_c /\ Len(hello_and_goodbye_c) = 6
      /\ hello_and_goodbye_c[1] = pipe("pipe1") /\ hello_and_goodbye_c[2] = fork("child", child)
      /\ hello_and_goodbye_c[3] = close_w("pipe1") /\ hello_and_goodbye_c[4] = read("pipe1", 1)
      /\ hello_and_goodbye_c[5] = printf("goodbye") /\ hello_and_goodbye_c[6] = close_r("pipe1")
  BY DEF Programs, hello_and_goodbye_c
<1> HIDE DEF child
<1>2. \A q : AfterWait("hello_and_goodbye", q) = -1
  BY DEF AfterWait
<1>3. \A i \in 1 .. 6 : InOrder("hello_and_goodbye", hello_and_goodbye_c[i], 6 - i)
  BY <1>1, <1>2 DEF InOrder, PrintsLate, Streams, Children, Processes, pipe, fork, close_w,
     read, printf, close_r
<1>4. \A i, j \in 1 .. 6 :
         PrintsLate(hello_and_goodbye_c[i]) /\ hello_and_goodbye_c[j].call \in MayFail => j < i
  BY <1>1 DEF PrintsLate, MayFail, pipe, fork, close_w, read, printf, close_r
<1> QED
  BY <1>1, <1>2, <1>3, <1>4 DEF WaitsInOrder, Children

LEMMA exec_variants_cWaits == WaitsInOrder("exec_variants")
<1> DEFINE branch == << fprintf("stderr", "exec_failed") >>
           child == << printf("executing"), execl(<< printf("listing") >>), onError(branch) >>
<1>1. /\ Programs["exec_variants"] = exec_variants_c /\ Len(exec_variants_c) = 3
      /\ exec_variants_c[1] = fork("child", child) /\ exec_variants_c[2] = wait
      /\ exec_variants_c[3] = printf("finished")
  BY DEF Programs, exec_variants_c
<1> HIDE DEF branch, child
<1>2. \A q : AfterWait("exec_variants", q) = 1
  BY DEF AfterWait
<1>3. \A i \in 1 .. 3 : InOrder("exec_variants", exec_variants_c[i], 3 - i)
  BY <1>1, <1>2 DEF InOrder, PrintsLate, Streams, Children, Processes, fork, wait, printf,
     waitpid
<1>4. \A i, j \in 1 .. 3 :
         PrintsLate(exec_variants_c[i]) /\ exec_variants_c[j].call \in MayFail => j < i
  BY <1>1 DEF PrintsLate, MayFail, fork, wait, printf, waitpid
<1> QED
  BY <1>1, <1>2, <1>3, <1>4 DEF WaitsInOrder, Children

LEMMA pipes_io_cWaits == WaitsInOrder("pipes_io")
<1> DEFINE calls == pipes_io_c
<1>1. /\ Programs["pipes_io"] = calls /\ Len(calls) = 7
      /\ calls[1] = pipe("pipe1") /\ calls[2] = fork("child", writer)
      /\ calls[3] = fork("reader", reader) /\ calls[4] = close_r("pipe1")
      /\ calls[5] = close_w("pipe1") /\ calls[6] = waitpid({"child"})
      /\ calls[7] = waitpid({"reader"})
  BY ParentIs DEF Programs
<1> HIDE DEF calls
<1>2. AfterWait("pipes_io", "child") = 1 /\ AfterWait("pipes_io", "reader") = 0
  BY DEF AfterWait
<1>3. \A i \in 1 .. 7 : InOrder("pipes_io", calls[i], 7 - i)
  BY <1>1, <1>2 DEF InOrder, PrintsLate, Children, pipe, fork, close_r, close_w, waitpid
<1>4. \A i, j \in 1 .. 7 : PrintsLate(calls[i]) /\ calls[j].call \in MayFail => j < i
  BY <1>1 DEF PrintsLate, MayFail, pipe, fork, close_r, close_w, waitpid
<1> QED
  BY <1>1, <1>2, <1>3, <1>4 DEF WaitsInOrder, Children

LEMMA MeasurementWaits == WaitsInOrder("os_measurements")
<1> DEFINE calls == measure_context_switch
           N == 2 * ITERATIONS
<1>1. /\ Programs["os_measurements"] = calls /\ Len(calls) = N + 8 /\ N \in Nat
      /\ calls[1] = pipe("pipe1") /\ calls[2] = pipe("pipe2")
      /\ calls[3] = fork("child", answerer)
      /\ calls[4] = close_r("pipe1") /\ calls[5] = close_w("pipe2")
      /\ calls[6] = printf("measuring")
      /\ calls[N + 7] = wait /\ calls[N + 8] = printf("finished")
  BY MeasureIs, Parameters DEF Programs
<1>2. ASSUME NEW i \in 7 .. N + 6
      PROVE  calls[i] \in {write("pipe1", <<"p">>), read("pipe2", 1)}
  <2>1. i - 7 \in 0 .. N - 1 /\ (i - 7) + 7 = i
    BY <1>1
  <2> QED
    BY <2>1, MeasureIs
<1> HIDE DEF calls, N
<1>3. \A q : AfterWait("os_measurements", q) = 1
  BY DEF AfterWait
<1>4. ASSUME NEW i \in 1 .. N + 8
      PROVE  InOrder("os_measurements", calls[i], N + 8 - i)
  <2>1. CASE i \in 1 .. 6
    BY <1>1, <1>3, <2>1
       DEF InOrder, PrintsLate, Streams, Children, pipe, fork, close_r, close_w, printf
  <2>2. CASE i \in 7 .. N + 6
    BY <1>1, <1>2, <1>3, <2>2 DEF InOrder, PrintsLate, write, read
  <2>3. CASE i \in {N + 7, N + 8}
    BY <1>1, <1>3, <2>3
       DEF InOrder, PrintsLate, Streams, Children, Processes, wait, waitpid, printf
  <2> QED
    BY <1>1, <2>1, <2>2, <2>3
<1>5. ASSUME NEW i \in 1 .. N + 8, NEW j \in 1 .. N + 8,
             PrintsLate(calls[i]), calls[j].call \in MayFail
      PROVE  j < i
  <2>1. i > 6
    BY <1>1, <1>5 DEF PrintsLate, pipe, fork, close_r, close_w, printf
  <2>2. j < 4
    BY <1>1, <1>2, <1>5
       DEF MayFail, pipe, fork, close_r, close_w, printf, write, read, wait, waitpid
  <2> QED
    BY <1>1, <2>1, <2>2
<1>6. \A q \in Children : AfterWait("os_measurements", q) < Len(calls)
  BY <1>1, <1>3
<1>7. \A i \in 1 .. Len(calls) : InOrder("os_measurements", calls[i], Len(calls) - i)
  BY <1>1, <1>4
<1>8. \A i, j \in 1 .. Len(calls) :
         PrintsLate(calls[i]) /\ calls[j].call \in MayFail => j < i
  BY <1>1, <1>5
<1> QED
  BY <1>1, <1>6, <1>7, <1>8, Zenon DEF WaitsInOrder

LEMMA WaitsAre == \A name \in DOMAIN Programs : WaitsInOrder(name)
BY fork_cWaits, wait_example_cWaits, waitpid_example_cWaits, close_stdout_cWaits,
   open_file_and_fork_cWaits, hello_and_goodbye_cWaits, pipes_io_cWaits, exec_variants_cWaits,
   MeasurementWaits DEF Programs

----------------------------------------------------------------------------
(* The wait() of every parent *)

ParentHas == HasLeft("parent", Programs[program])

(* Only the parent forks, and only pipes_io.c a second child. *)
ChildrenPlain ==
  /\ \A p \in Children : code[p] \in Seq(PlainCalls)
  /\ program # "pipes_io" => status["reader"] = "none"

Done(q) == status[q] \in {"none", "gone"}

(* Behind its wait() a parent has no child any more, unless a call failed. *)
Waited ==
  \A q \in Children :
    Left("parent") <= AfterWait(program, q) => Done(q) \/ (Left("parent") = 0 /\ CallFailed)

LEMMA ProcessesAre ==
  /\ "parent" \in Processes /\ "child" \in Processes /\ "reader" \in Processes
  /\ Children = Processes \ {"parent"} /\ "child" \in Children /\ "reader" \in Children
BY DEF Processes, Children

LEMMA ParentIsInOrder ==
  ASSUME Types, ParentHas
  PROVE  /\ Programs[program] \in Seq(AllCalls) /\ NoBranches(Programs[program])
         /\ Left("parent") \in Nat /\ (Left("parent") = 0 <=> code["parent"] = << >>)
         /\ code["parent"] # << >> =>
              /\ Left("parent") > 0 /\ Head(code["parent"]) \in AllCalls
              /\ InOrder(program, Head(code["parent"]), Left("parent") - 1)
         /\ \A q \in Children : AfterWait(program, q) \in {-1, 0, 1, 3}
<1> DEFINE calls == Programs[program]
<1>1. program \in DOMAIN Programs /\ "parent" \in Processes
  BY ProcessesAre DEF Types
<1>2. calls \in Seq(AllCalls) /\ WaitsInOrder(program)
  BY <1>1, ProgramsAre, WaitsAre
<1>3. \A i \in 1 .. Len(calls) : InOrder(program, calls[i], Len(calls) - i)
  BY <1>2 DEF WaitsInOrder
<1>4. NoBranches(calls)
  BY <1>3 DEF InOrder, NoBranches
<1>5. HasLeft("parent", calls)
  BY DEF ParentHas
<1> HIDE DEF calls
<1>6. Left("parent") \in Nat /\ (Left("parent") = 0 <=> code["parent"] = << >>)
  BY <1>1, <1>2, <1>5, NoneLeft DEF HasLeft
<1>7. ASSUME code["parent"] # << >>
      PROVE  /\ Left("parent") > 0 /\ Head(code["parent"]) \in AllCalls
             /\ InOrder(program, Head(code["parent"]), Left("parent") - 1)
  <2> DEFINE n == Left("parent")
  <2>1. n \in 1 .. Len(calls) /\ Head(code["parent"]) = calls[Len(calls) - n + 1]
    BY <1>1, <1>2, <1>4, <1>5, <1>7, NextCall
  <2> HIDE DEF n
  <2>2. Len(calls) - n + 1 \in 1 .. Len(calls) /\ Len(calls) - (Len(calls) - n + 1) = n - 1
    BY <1>2, <2>1
  <2>3. InOrder(program, calls[Len(calls) - n + 1], n - 1)
    BY <1>3, <2>2
  <2>4. Head(code["parent"]) \in AllCalls
    BY <1>2, <2>1, <2>2
  <2> QED
    BY <2>1, <2>3, <2>4 DEF n
<1>8. \A q \in Children : AfterWait(program, q) \in {-1, 0, 1, 3}
  BY DEF AfterWait, Children
<1> QED
  BY <1>2, <1>4, <1>6, <1>7, <1>8 DEF calls

(* A parent forks, waits, makes another call that returns, or ends.        *)
LEMMA ParentTakes ==
  ASSUME Types, ParentHas, Step("parent")
  PROVE  \/ Exit("parent") /\ code["parent"] = << >>
         \/ Failure("parent") /\ code["parent"] # << >>
         \/ /\ Write("parent") /\ Die("parent") /\ code["parent"] # << >>
            /\ Readers(Head(code["parent"]).file) = {}
         \/ /\ code["parent"] # << >> /\ Goes("parent", Programs[program])
            /\ \/ Fork("parent")
               \/ Wait("parent")
               \/ /\ UNCHANGED status
                  /\ Head(code["parent"]).call \notin {"wait", "fork"}
                  /\ \/ Fprintf("parent") \/ Fflush("parent") \/ Fclose("parent")
                     \/ Open("parent") \/ Close("parent")
                     \/ Write("parent") \/ Read("parent")
<1> DEFINE c == Head(code["parent"])
           Plain == c.call \notin {"onError", "exec", "whileRead"}
<1>1. Exit("parent") => code["parent"] = << >>
  BY DEF Exit
<1>2. Failure("parent") => code["parent"] # << >>
  BY DEF Failure, Calls
<1>3. code["parent"] # << >> => Plain
  BY ParentIsInOrder DEF InOrder
<1>4. ASSUME code["parent"] # << >>, Return("parent") \/ ReturnError("parent")
      PROVE  Goes("parent", Programs[program])
  BY <1>4, ParentIsInOrder, ProcessesAre, ReturnGoes DEF ParentHas
<1> HIDE DEF Plain
<1>5. CASE Fork("parent")
  <2>1. code["parent"] # << >> /\ c.call = "fork"
    BY <1>5 DEF Fork, Calls
  <2>2. code'["parent"] = Continuation("parent", FALSE)
    <3>1. c.child \in {"child", "reader"}
      BY <2>1, ParentIsInOrder, CallsAre
    <3> QED
      BY <1>5, <3>1, ProcessesAre DEF Fork, Types
  <2>3. Goes("parent", Programs[program])
    <3>1. /\ HasLeft("parent", Programs[program]) /\ Programs[program] \in Seq(AllCalls)
          /\ NoBranches(Programs[program]) /\ "parent" \in Processes
      BY ParentIsInOrder, ProcessesAre DEF ParentHas
    <3>2. /\ Left("parent") \in 1 .. Len(Programs[program])
          /\ Continuation("parent", FALSE) = Rest(Programs[program], Left("parent") - 1)
      BY <2>1, <3>1, NextCall
    <3>3. Left("parent") > 0
      BY <2>1, ParentIsInOrder
    <3> QED
      BY <2>2, <3>1, <3>2, <3>3 DEF Goes
  <2> QED
    BY <1>5, <2>1, <2>3
<1>6. CASE Wait("parent")
  <2>1. code["parent"] # << >> /\ (Return("parent") \/ ReturnError("parent"))
    BY <1>6 DEF Wait, Calls
  <2> QED
    BY <1>4, <1>6, <2>1
<1>7. CASE Fprintf("parent") \/ Fflush("parent") \/ Fclose("parent") \/ Open("parent")
           \/ Close("parent")
  <2>1. /\ code["parent"] # << >> /\ (Return("parent") \/ ReturnError("parent"))
        /\ UNCHANGED status /\ c.call \notin {"wait", "fork"}
    BY <1>7 DEF Fprintf, Fflush, Fclose, Open, Close, Calls
  <2> QED
    BY <1>4, <1>7, <2>1
<1>8. CASE Write("parent")
  <2>1. /\ code["parent"] # << >> /\ c.call = "write"
        /\ \/ Die("parent") /\ Readers(c.file) = {}
           \/ Return("parent") /\ UNCHANGED status
    BY <1>8 DEF Write, Calls
  <2> QED
    BY <1>4, <1>8, <2>1
<1>9. CASE Read("parent")
  <2>1. /\ code["parent"] # << >> /\ c.call \in {"read", "whileRead"} /\ UNCHANGED status
        /\ \/ Return("parent")
           \/ c.call = "whileRead"
    BY <1>9 DEF Read, Calls
  <2>2. c.call = "read"
    BY <1>3, <2>1 DEF Plain
  <2> QED
    BY <1>4, <1>9, <2>1, <2>2
<1>10. ~Exec("parent")
  BY <1>3 DEF Exec, Calls, Plain
<1> QED
  BY <1>1, <1>2, <1>5, <1>6, <1>7, <1>8, <1>9, <1>10 DEF Step

----------------------------------------------------------------------------
(* What a step puts out, and what it leaves of the other processes *)

(* To a stream a process adds a line, or what its buffer holds, or nothing. *)
Silent(p, f) == contents'[f] = contents[f] /\ buffer'[p][f] \in {buffer[p][f], << >>}
Prints(p, f) ==
  LET line == <<p, Head(code[p]).line>>
  IN  /\ Fprintf(p) /\ Head(code[p]).file = f
      /\ \/ /\ contents'[f] = Append(contents[f], line) /\ buffer'[p][f] = buffer[p][f]
            /\ f = "stdout"
         \/ contents'[f] = contents[f] /\ buffer'[p][f] = Append(buffer[p][f], line)
Flushes(p, f) ==
  /\ Exit(p) \/ Fflush(p) \/ Fclose(p)
  /\ ~Exit(p) => Head(code[p]).file = f
  /\ contents'[f] = contents[f] \o buffer[p][f] /\ buffer'[p][f] = << >>

LEMMA HeadIs ==
  ASSUME Types, NEW p \in Processes, code[p] # << >>
  PROVE  Head(code[p]) \in AllCalls /\ Tail(code[p]) \in Seq(AllCalls)
BY DEF Types

LEMMA FprintfPuts ==
  ASSUME Types, NEW p \in Processes, Fprintf(p), NEW f \in Streams
  PROVE  Silent(p, f) \/ Prints(p, f)
<1> DEFINE g == Head(code[p]).file
           line == <<p, Head(code[p]).line>>
<1>1. /\ \/ Buffered(g) /\ buffer' = [buffer EXCEPT ![p][g] = Append(@, line)]
            /\ UNCHANGED contents
         \/ /\ ~Buffered(g) /\ contents' = [contents EXCEPT ![g] = Append(@, line)]
            /\ UNCHANGED buffer
         \/ UNCHANGED <<contents, buffer>>
      /\ g \in Files
  <2>1. code[p] # << >> /\ Head(code[p]).call = "fprintf"
    BY DEF Fprintf, Calls
  <2>2. g \in Files
    BY <2>1, HeadIs, CallsAre
  <2> QED
    BY <2>2 DEF Fprintf
<1> HIDE DEF g, line
<1>2. CASE UNCHANGED <<contents, buffer>>
  BY <1>2 DEF Silent
<1>3. CASE g # f
  BY <1>1, <1>3 DEF Silent, Types, Files
<1>4. CASE g = f /\ Buffered(g) /\ buffer' = [buffer EXCEPT ![p][g] = Append(@, line)]
           /\ UNCHANGED contents
  BY <1>4 DEF Prints, Types, g, line
<1>5. CASE g = f /\ ~Buffered(g) /\ contents' = [contents EXCEPT ![g] = Append(@, line)]
           /\ UNCHANGED buffer
  <2>1. f = "stdout"
    BY <1>5 DEF Buffered, Streams
  <2>2. f \in DOMAIN contents
    BY DEF Types, Files
  <2> QED
    BY <1>5, <2>1, <2>2 DEF Prints, g, line
<1> QED
  BY <1>1, <1>2, <1>3, <1>4, <1>5

LEMMA FlushPuts ==
  ASSUME Types, NEW p \in Processes, Fflush(p) \/ Fclose(p), NEW f \in Streams
  PROVE  Silent(p, f) \/ Flushes(p, f)
<1> DEFINE g == Head(code[p]).file
<1>1. /\ contents' = Flushed(p, {g}) /\ g \in Streams
      /\ buffer' = [buffer EXCEPT ![p][g] = << >>]
  <2>1. code[p] # << >> /\ Head(code[p]).call \in {"fflush", "fclose"}
    BY DEF Fflush, Fclose, Calls
  <2> QED
    BY <2>1, HeadIs, CallsAre DEF Fflush, Fclose
<1> HIDE DEF g
<1>2. CASE f # g
  <2>1. contents'[f] = contents[f]
    BY <1>1, <1>2 DEF Flushed, Types, Files
  <2>2. buffer'[p][f] = buffer[p][f]
    BY <1>1, <1>2 DEF Types
  <2> QED
    BY <2>1, <2>2 DEF Silent
<1>3. CASE f = g
  <2>1. contents'[f] \in {contents[f], contents[f] \o buffer[p][f]}
    BY <1>1, <1>3 DEF Flushed, Types, Files
  <2>2. buffer'[p][f] = << >>
    BY <1>1, <1>3 DEF Types
  <2> QED
    BY <1>3, <2>1, <2>2 DEF Silent, Flushes, g
<1> QED
  BY <1>2, <1>3

LEMMA ExitPuts ==
  ASSUME Types, NEW p \in Processes, Exit(p), NEW f \in Streams
  PROVE  Silent(p, f) \/ Flushes(p, f)
<1>1. contents' = Flushed(p, Streams) /\ buffer' = [buffer EXCEPT ![p] = NothingBuffered]
  BY DEF Exit, Die
<1>2. contents'[f] \in {contents[f], contents[f] \o buffer[p][f]}
  BY <1>1 DEF Flushed, Types, Files
<1>3. buffer'[p][f] = << >>
  BY <1>1 DEF Types, NothingBuffered
<1>4. CASE contents'[f] = contents[f]
  BY <1>3, <1>4 DEF Silent
<1>5. CASE contents'[f] = contents[f] \o buffer[p][f]
  BY <1>3, <1>5 DEF Flushes
<1> QED
  BY <1>2, <1>4, <1>5

LEMMA PipeChanges ==
  ASSUME Types, NEW g \in Pipes, NEW bytes, contents' = [contents EXCEPT ![g] = bytes],
         NEW f \in Files
  PROVE  contents'[f] = contents[f]
<1>1. f # g
  BY DEF Files, Streams, Pipes
<1> QED
  BY <1>1 DEF Types

(* The pipes and standard error are no streams. *)
LEMMA OtherPuts ==
  ASSUME Types, NEW p \in Processes, NEW f \in Streams,
         \/ Open(p) \/ Close(p) \/ Fork(p) \/ Failure(p) \/ Wait(p) \/ Exec(p)
         \/ Write(p) \/ Read(p)
  PROVE  Silent(p, f)
<1>1. f \notin Pipes /\ f # "stderr" /\ NothingBuffered[f] = << >>
  BY DEF Streams, Pipes, NothingBuffered
<1>2. CASE Open(p) \/ Close(p) \/ Wait(p)
  BY <1>2 DEF Open, Close, Wait, Silent
<1>3. CASE Fork(p)
  <2>1. code[p] # << >> /\ Head(code[p]).call = "fork"
    BY <1>3 DEF Fork, Calls
  <2>2. Head(code[p]).child \in {"child", "reader"}
    BY <2>1, HeadIs, CallsAre
  <2>3. /\ UNCHANGED contents
        /\ buffer' = [buffer EXCEPT ![Head(code[p]).child] = buffer[p]]
    BY <1>3 DEF Fork
  <2>4. buffer'[p] = buffer[p]
    BY <2>2, <2>3 DEF Types
  <2> QED
    BY <2>3, <2>4 DEF Silent
<1>4. CASE Failure(p)
  BY <1>1, <1>4 DEF Failure, Silent, Types
<1>5. CASE Exec(p)
  BY <1>1, <1>5 DEF Exec, Silent, Types
<1>6. CASE Write(p) \/ Read(p)
  <2> DEFINE g == Head(code[p]).file
  <2>1. g \in Pipes
    <3>1. code[p] # << >> /\ Head(code[p]).call \in {"write", "read", "whileRead"}
      BY <1>6 DEF Write, Read, Calls
    <3> QED
      BY <3>1, HeadIs, CallsAre
  <2> HIDE DEF g
  <2>2. CASE Write(p)
    <3>1. /\ \/ UNCHANGED contents
             \/ contents' = [contents EXCEPT ![g] = contents[g] \o Head(code[p]).bytes]
          /\ UNCHANGED buffer \/ Die(p)
      BY <2>2 DEF Write, g
    <3>2. contents'[f] = contents[f]
      BY <2>1, <3>1, PipeChanges DEF Files
    <3>3. buffer'[p][f] \in {buffer[p][f], << >>}
      BY <1>1, <3>1 DEF Types, Die
    <3> QED
      BY <3>2, <3>3 DEF Silent
  <2>3. CASE Read(p)
    <3>1. /\ \/ UNCHANGED contents
             \/ \E new : contents' = [contents EXCEPT ![g] = new]
          /\ UNCHANGED buffer
      BY <2>3 DEF Read, g
    <3>2. contents'[f] = contents[f]
      BY <2>1, <3>1, PipeChanges DEF Files
    <3> QED
      BY <3>1, <3>2 DEF Silent
  <2> QED
    BY <1>6, <2>2, <2>3
<1> QED
  BY <1>2, <1>3, <1>4, <1>5, <1>6

LEMMA StepPuts ==
  ASSUME Types, NEW p \in Processes, Step(p), NEW f \in Streams
  PROVE  Silent(p, f) \/ Prints(p, f) \/ Flushes(p, f)
BY FprintfPuts, FlushPuts, ExitPuts, OtherPuts DEF Step

(* What has been written to standard error stays there. *)
LEMMA FailedStays ==
  ASSUME Types, NEW p \in Processes, Step(p)
  PROVE  (CallFailed => CallFailed') /\ (Failure(p) => CallFailed')
<1> DEFINE old == contents["stderr"]
<1>1. old \in Lines /\ "stderr" \in DOMAIN contents /\ "stderr" \notin Streams \cup Pipes
  BY DEF Types, Files, Streams, Pipes
<1>2. \/ contents'["stderr"] = old /\ ~Failure(p)
      \/ \E line \in Processes \X Texts :
            contents'["stderr"] = Append(old, line) /\ (Failure(p) => line[2] = "failed")
  <2> HIDE DEF old
  <2>1. CASE Failure(p)
    <3>1. contents'["stderr"] = Append(old, <<p, "failed">>)
      BY <1>1, <2>1 DEF Failure, old
    <3>2. <<p, "failed">> \in Processes \X Texts /\ <<p, "failed">>[2] = "failed"
      BY TextsAre
    <3> QED
      BY <3>1, <3>2
  <2>2. CASE ~Failure(p) /\ Fprintf(p)
    <3> DEFINE g == Head(code[p]).file
               line == <<p, Head(code[p]).line>>
    <3>1. code[p] # << >> /\ Head(code[p]).call = "fprintf"
      BY <2>2 DEF Fprintf, Calls
    <3>2. line \in Processes \X Texts
      BY <3>1, HeadIs, CallsAre
    <3>3. \/ UNCHANGED contents
          \/ contents' = [contents EXCEPT ![g] = Append(@, line)]
      BY <2>2 DEF Fprintf
    <3> HIDE DEF g, line
    <3>4. contents'["stderr"] \in {old, Append(old, line)}
      BY <1>1, <3>3 DEF old
    <3> QED
      BY <2>2, <3>2, <3>4
  <2>3. CASE ~Failure(p) /\ (Fflush(p) \/ Fclose(p) \/ Exit(p))
    <3>1. \E S \in SUBSET Streams : contents' = Flushed(p, S)
      <4>1. CASE Exit(p)
        BY <4>1 DEF Exit
      <4>2. CASE Fflush(p) \/ Fclose(p)
        <5>1. code[p] # << >> /\ Head(code[p]).call \in {"fflush", "fclose"}
          BY <4>2 DEF Fflush, Fclose, Calls
        <5>2. Head(code[p]).file \in Streams
          BY <5>1, HeadIs, CallsAre
        <5> QED
          BY <4>2, <5>2 DEF Fflush, Fclose
      <4> QED
        BY <2>3, <4>1, <4>2
    <3> QED
      BY <1>1, <2>3, <3>1 DEF Flushed, old
  <2>4. CASE ~Failure(p) /\ (Open(p) \/ Close(p) \/ Fork(p) \/ Wait(p) \/ Exec(p))
    BY <2>4 DEF Open, Close, Fork, Wait, Exec, old
  <2>5. CASE ~Failure(p) /\ (Write(p) \/ Read(p))
    <3> DEFINE g == Head(code[p]).file
    <3>1. code[p] # << >> /\ Head(code[p]).call \in {"write", "read", "whileRead"}
      BY <2>5 DEF Write, Read, Calls
    <3>2. g \in Pipes
      BY <3>1, HeadIs, CallsAre
    <3>3. UNCHANGED contents \/ \E new : contents' = [contents EXCEPT ![g] = new]
      BY <2>5 DEF Write, Read
    <3> HIDE DEF g
    <3>4. contents'["stderr"] = old
      BY <3>2, <3>3, PipeChanges, FilesAre DEF old
    <3> QED
      BY <2>5, <3>4
  <2> QED
    BY <2>1, <2>2, <2>3, <2>4, <2>5 DEF Step
<1> HIDE DEF old
<1>3. CASE contents'["stderr"] = old /\ ~Failure(p)
  BY <1>3 DEF CallFailed, old
<1>4. ASSUME NEW line \in Processes \X Texts, contents'["stderr"] = Append(old, line),
             Failure(p) => line[2] = "failed"
      PROVE  (CallFailed => CallFailed') /\ (Failure(p) => CallFailed')
  <2> DEFINE new == contents'["stderr"]
  <2>1. /\ DOMAIN old = 1 .. Len(old) /\ DOMAIN new = 1 .. Len(old) + 1 /\ Len(old) \in Nat
        /\ new[Len(old) + 1] = line /\ \A i \in 1 .. Len(old) : new[i] = old[i]
    BY <1>1, <1>4 DEF Lines
  <2> HIDE DEF new
  <2>2. CallFailed => CallFailed'
    BY <2>1 DEF CallFailed, old, new
  <2>3. Failure(p) => CallFailed'
    BY <1>4, <2>1 DEF CallFailed, new
  <2> QED
    BY <2>2, <2>3
<1> QED
  BY <1>2, <1>3, <1>4

LEMMA StepLeaves ==
  ASSUME Types, NEW p \in Processes, Step(p)
  PROVE  status[p] = "running" /\ UNCHANGED <<program, tty>>
BY DEF Step, Fprintf, Fflush, Fclose, Exit, Open, Close, Fork, Failure, Wait, Exec, Write, Read,
       Calls

LEMMA PlainContinues ==
  ASSUME NEW p \in Processes, code[p] \in Seq(PlainCalls), code[p] # << >>, NEW error \in BOOLEAN
  PROVE  /\ Continuation(p, error) \in Seq(PlainCalls)
         /\ Head(code[p]).call # "fork"
         /\ Head(code[p]).call = "exec" => Head(code[p]).code \in Seq(PlainCalls)
<1>1. Head(code[p]) \in PlainCalls /\ Tail(code[p]) \in Seq(PlainCalls)
  OBVIOUS
<1>2. ASSUME NEW c \in PlainCalls
      PROVE  /\ c.call # "fork"
             /\ c.call \in {"exec", "onError"} => c.code \in Seq(PlainCalls)
  <2>1. CASE c \in SimpleCalls
    BY <2>1 DEF SimpleCalls
  <2>2. CASE c \in [call : {"exec", "onError"}, code : Seq(SimpleCalls)]
    BY <2>2, PlainCallsAre
  <2> QED
    BY <1>2, <2>1, <2>2 DEF PlainCalls
<1> DEFINE rest == Tail(code[p])
<1>3. ASSUME rest # << >>, Head(rest).call = "onError"
      PROVE  Head(rest).code \o Tail(rest) \in Seq(PlainCalls) /\ Tail(rest) \in Seq(PlainCalls)
  <2>1. rest \in Seq(PlainCalls)
    BY <1>1
  <2> HIDE DEF rest
  <2>2. Head(rest) \in PlainCalls /\ Tail(rest) \in Seq(PlainCalls)
    BY <1>3, <2>1
  <2>3. Head(rest).code \in Seq(PlainCalls)
    BY <1>2, <1>3, <2>2
  <2> QED
    BY <2>2, <2>3, ConcatProperties
<1>4. Continuation(p, error) \in Seq(PlainCalls)
  BY <1>1, <1>3 DEF Continuation
<1> QED
  BY <1>1, <1>2, <1>4

(* A child changes nothing of the other processes. *)
LEMMA ChildTakes ==
  ASSUME Types, ChildrenPlain, NEW p \in Children, Step(p)
  PROVE  /\ SameBut(p) /\ code'[p] \in Seq(PlainCalls)
         /\ \A q \in Processes \ {p} : status'[q] = status[q]
<1>1. p \in Processes /\ p # "parent" /\ code[p] \in Seq(PlainCalls)
  BY ProcessesAre DEF ChildrenPlain
<1>2. << >> \in Seq(PlainCalls)
  OBVIOUS
<1>3. ASSUME code[p] # << >>, Return(p) \/ ReturnError(p)
      PROVE  code'[p] \in Seq(PlainCalls) /\ \A q \in Processes \ {p} : code'[q] = code[q]
  <2>1. Continuation(p, TRUE) \in Seq(PlainCalls) /\ Continuation(p, FALSE) \in Seq(PlainCalls)
    BY <1>1, <1>3, PlainContinues
  <2> QED
    BY <1>1, <1>3, <2>1 DEF Return, ReturnError, Types
<1>4. CASE Die(p)
  <2>1. code'[p] = << >> /\ SameBut(p)
    BY <1>1, <1>4 DEF Die, SameBut, Same, Types
  <2>2. \A q \in Processes \ {p} : status'[q] = status[q]
    BY <1>1, <1>4 DEF Die, Types
  <2> QED
    BY <1>2, <2>1, <2>2
<1>5. CASE Fprintf(p) \/ Fflush(p) \/ Fclose(p)
  <2>1. /\ code[p] # << >> /\ (Return(p) \/ ReturnError(p)) /\ UNCHANGED status
        /\ \A q \in Processes \ {p} : buffer'[q] = buffer[q] /\ ends'[q] = ends[q]
    BY <1>1, <1>5 DEF Fprintf, Fflush, Fclose, Calls, Types
  <2> QED
    BY <1>3, <2>1 DEF SameBut, Same
<1>6. CASE Open(p) \/ Close(p)
  <2>1. /\ code[p] # << >> /\ Return(p) /\ UNCHANGED <<status, buffer>>
        /\ \A q \in Processes \ {p} : ends'[q] = ends[q]
    BY <1>1, <1>6 DEF Open, Close, Calls, Types
  <2> QED
    BY <1>3, <2>1 DEF SameBut, Same
<1>7. CASE Failure(p)
  <2>1. code' = [code EXCEPT ![p] = << >>] /\ UNCHANGED <<status, ends, buffer>>
    BY <1>7 DEF Failure
  <2> QED
    BY <1>1, <1>2, <2>1 DEF SameBut, Same, Types
<1>8. CASE Wait(p)
  <2>1. code[p] # << >> /\ (Return(p) \/ ReturnError(p)) /\ UNCHANGED <<status, ends, buffer>>
    BY <1>1, <1>8 DEF Wait, Calls
  <2> QED
    BY <1>3, <2>1 DEF SameBut, Same
<1>9. CASE Exec(p)
  <2>1. code[p] # << >> /\ Head(code[p]).call = "exec" /\ UNCHANGED <<status, ends>>
    BY <1>9 DEF Exec, Calls
  <2>2. CASE ReturnError(p) /\ UNCHANGED buffer
    BY <1>3, <2>1, <2>2 DEF SameBut, Same
  <2>3. CASE /\ code' = [code EXCEPT ![p] = Head(@).code]
             /\ buffer' = [buffer EXCEPT ![p] = NothingBuffered]
    <3>1. Head(code[p]).code \in Seq(PlainCalls)
      BY <1>1, <2>1, PlainContinues
    <3> QED
      BY <1>1, <2>1, <2>3, <3>1 DEF SameBut, Same, Types
  <2> QED
    BY <1>9, <2>2, <2>3 DEF Exec
<1>10. CASE Write(p) /\ ~Die(p)
  <2>1. code[p] # << >> /\ Return(p) /\ UNCHANGED <<status, ends, buffer>>
    BY <1>10 DEF Write, Calls
  <2> QED
    BY <1>3, <2>1 DEF SameBut, Same
<1>11. CASE Read(p)
  <2>1. code[p] # << >> /\ UNCHANGED <<status, ends, buffer>>
    BY <1>11 DEF Read, Calls
  <2>2. CASE Return(p)
    BY <1>3, <2>1, <2>2 DEF SameBut, Same
  <2>3. CASE ~Return(p)
    <3> DEFINE c == Head(code[p])
               n == IF Len(contents[c.file]) < c.size THEN Len(contents[c.file]) ELSE c.size
               got == SubSeq(contents[c.file], 1, n)
               lines == [i \in 1 .. n |-> printf(got[i])]
    <3>1. c.file \in Pipes /\ c.size \in Nat
      <4>1. c.call \in {"read", "whileRead"}
        BY <1>11 DEF Read, Calls
      <4> QED
        BY <1>1, <2>1, <4>1, HeadIs, CallsAre
    <3>2. contents[c.file] \in Seq(Texts) /\ n \in 0 .. Len(contents[c.file])
      BY <3>1 DEF Types
    <3>3. code' = [code EXCEPT ![p] = lines \o code[p]]
      BY <1>11, <2>3 DEF Read
    <3>4. lines \in Seq(PlainCalls)
      <4> HIDE DEF c
      <4>1. \A i \in 1 .. n : got[i] \in Texts
        BY <3>2
      <4>2. \A i \in 1 .. n : printf(got[i]) \in PlainCalls
        BY <4>1, PrintfIs
      <4> HIDE DEF got
      <4> QED
        BY <3>2, <4>2
    <3> HIDE DEF lines
    <3>5. lines \o code[p] \in Seq(PlainCalls)
      BY <1>1, <3>4, ConcatProperties
    <3> QED
      BY <1>1, <2>1, <3>3, <3>5 DEF SameBut, Same, Types
  <2> QED
    BY <2>2, <2>3
<1>12. ~Fork(p)
  BY <1>1, PlainContinues DEF Fork, Calls
<1> QED
  BY <1>4, <1>5, <1>6, <1>7, <1>8, <1>9, <1>10, <1>11, <1>12 DEF Step, Exit

(* The parent of os_measurements.c is never killed in a write(): the child *)
(* has its read end as long as it has a call to make, and is no further in *)
(* its loop than the parent when that writes.                              *)
LEMMA NoSigpipe ==
  ASSUME Types, Measurement, program = "os_measurements",
         code["parent"] # << >>, Head(code["parent"]).call = "write"
  PROVE  Readers(Head(code["parent"]).file) # {}
<1> DEFINE calls == measure_context_switch
           N == 2 * ITERATIONS
           n == Left("parent")
           i == N + 9 - n
<1>1. /\ InMeasurement /\ N \in Nat /\ n \in 1 .. N + 8
      /\ Head(code["parent"]) = calls[i]
  <2>1. InMeasurement
    BY DEF Measurement, InMeasurement
  <2>2. n > 0 /\ Head(code["parent"]) = calls[2 * ITERATIONS + 9 - n]
    BY <2>1, MeasurementCalls
  <2>3. ITERATIONS \in Nat /\ n \in 0 .. 2 * ITERATIONS + 8
    BY <2>1, MeasurementNumbers
  <2> HIDE DEF n, calls
  <2> QED
    BY <2>1, <2>2, <2>3
<1>2. /\ calls[1] = pipe("pipe1") /\ calls[2] = pipe("pipe2")
      /\ calls[3] = fork("child", answerer)
      /\ calls[4] = close_r("pipe1") /\ calls[5] = close_w("pipe2")
      /\ calls[6] = printf("measuring")
      /\ calls[N + 7] = wait /\ calls[N + 8] = printf("finished")
      /\ \A j \in 0 .. N - 1 :
           calls[j + 7] = IF j % 2 = 0 THEN write("pipe1", <<"p">>) ELSE read("pipe2", 1)
  BY MeasureIs
<1> HIDE DEF calls
<1>3. i \notin {1, 2, 3, 4, 5, 6, N + 7, N + 8}
  <2>1. /\ calls[1].call # "write" /\ calls[2].call # "write" /\ calls[3].call # "write"
        /\ calls[4].call # "write" /\ calls[5].call # "write" /\ calls[6].call # "write"
        /\ calls[N + 7].call # "write" /\ calls[N + 8].call # "write"
    BY <1>2 DEF pipe, fork, close_r, close_w, printf, fprintf, wait, waitpid
  <2>2. calls[i].call = "write"
    BY <1>1
  <2> HIDE DEF N, i
  <2> QED
    BY <2>1, <2>2
<1> DEFINE j == N + 2 - n
<1>4. j \in 0 .. N - 1 /\ i = j + 7 /\ n = N + 2 - j
  <2>1. i = N + 9 - n /\ j = N + 2 - n
    OBVIOUS
  <2>2. i # 1 /\ i # 2 /\ i # 3 /\ i # 4 /\ i # 5 /\ i # 6 /\ i # N + 7 /\ i # N + 8
    BY <1>3
  <2>3. N \in Nat /\ n \in 1 .. N + 8
    BY <1>1
  <2> HIDE DEF N, n, i, j
  <2> QED
    BY <2>1, <2>2, <2>3
<1>5. calls[i] = IF j % 2 = 0 THEN write("pipe1", <<"p">>) ELSE read("pipe2", 1)
  <2> HIDE DEF N, n, i, j
  <2> QED
    BY <1>2, <1>4
<1>6. j % 2 = 0 /\ Head(code["parent"]).file = "pipe1"
  <2> HIDE DEF N, n, i, j
  <2> QED
    BY <1>1, <1>5 DEF write, read
<1>7. status["child"] # "none" /\ ParentCalls = j
  <2>1. n = Left("parent") /\ n \in 3 .. N + 2
    <3>1. n = Left("parent")
      OBVIOUS
    <3> HIDE DEF N, n, j
    <3> QED
      BY <1>1, <1>4, <3>1
  <2>2. ITERATIONS \in Nat
    BY Parameters
  <2> HIDE DEF n
  <2>3. status["child"] # "none"
    BY <1>1, <2>1, <2>2 DEF InMeasurement, ChildThere
  <2>4. ParentCalls = j
    BY <2>1, <2>2 DEF ParentCalls
  <2> QED
    BY <2>3, <2>4
<1>8. ChildCalls = j
  <2>1. InTurn(ParentCalls, ChildCalls, Len(contents["pipe1"]), Len(contents["pipe2"]))
    BY <1>1, <1>7 DEF InMeasurement, Turns
  <2> HIDE DEF j
  <2> QED
    BY <1>6, <1>7, <2>1 DEF InTurn
<1>9. Left("child") > 0
  <2>1. Left("child") \in Nat
    BY <1>1, MeasurementNumbers
  <2> HIDE DEF j
  <2> QED
    BY <1>1, <1>4, <1>8, <2>1 DEF ChildCalls
<1>10. <<"r", "pipe1">> \in ends["child"]
  BY <1>1, <1>9 DEF InMeasurement, ChildHolds
<1> QED
  BY <1>6, <1>10, ProcessesAre DEF Readers

(* A process that is reaped stays so, and nobody becomes a zombie for the  *)
(* step of a parent.                                                       *)
LEMMA DoneStays ==
  ASSUME Types, Step("parent"), ~Fork("parent"), NEW q \in Children, Done(q)
  PROVE  Done(q)'
<1>1. q \in Processes /\ q # "parent"
  BY ProcessesAre
<1>2. CASE UNCHANGED status
  BY <1>2 DEF Done
<1>3. CASE Die("parent")
  BY <1>1, <1>3 DEF Die, Done, Types
<1>4. CASE Wait("parent")
  <2>1. \/ UNCHANGED status
        \/ \E r : status[r] = "zombie" /\ status' = [status EXCEPT ![r] = "gone"]
    BY <1>4 DEF Wait
  <2> QED
    BY <1>1, <2>1 DEF Done, Types
<1> QED
  BY <1>2, <1>3, <1>4
     DEF Step, Fprintf, Fflush, Fclose, Exit, Open, Close, Failure, Exec, Write, Read

(* The wait() for a child reaps it, or there is none. *)
LEMMA WaitReaps ==
  ASSUME Types, ChildrenPlain, Wait("parent"), NEW q \in Children,
         q = "child" \/ program = "pipes_io" => q \in Head(code["parent"]).children,
         program = "pipes_io" => Head(code["parent"]).children = {q}
  PROVE  Done(q)'
<1> DEFINE children == Head(code["parent"]).children \ {"parent"}
<1>1. q \in Processes /\ q # "parent" /\ children \subseteq Children
  <2>1. code["parent"] # << >> /\ Head(code["parent"]).call = "wait"
    BY DEF Wait, Calls
  <2> QED
    BY <2>1, ProcessesAre, HeadIs, CallsAre
<1>2. \/ \E r \in children :
           status[r] = "zombie" /\ status' = [status EXCEPT ![r] = "gone"]
      \/ /\ \A r \in children : status[r] \notin {"running", "zombie"}
         /\ UNCHANGED status
  BY DEF Wait
<1>3. CASE q \in children
  <2>1. CASE program = "pipes_io"
    BY <1>1, <1>2, <1>3, <2>1 DEF Done, Types
  <2>2. CASE program # "pipes_io"
    <3>1. status["reader"] = "none" /\ children \subseteq {"child", "reader"}
      BY <1>1, <2>2 DEF ChildrenPlain, Children
    <3> HIDE DEF children
    <3> QED
      BY <1>1, <1>2, <1>3, <3>1 DEF Done, Types
  <2> QED
    BY <2>1, <2>2
<1>4. CASE q \notin children
  <2>1. q = "reader" /\ program # "pipes_io"
    BY <1>1, <1>4 DEF Children
  <2>2. status["reader"] = "none"
    BY <2>1 DEF ChildrenPlain
  <2> HIDE DEF children
  <2> QED
    BY <1>1, <1>2, <2>1, <2>2 DEF Done, Types
<1> QED
  BY <1>3, <1>4

(* A parent that goes on to its calls behind the wait() has no child. *)
LEMMA ParentWaits ==
  ASSUME Types, ParentHas, ChildrenPlain, Waited, Step("parent"),
         code["parent"] # << >>, Goes("parent", Programs[program]),
         \/ Fork("parent")
         \/ Wait("parent")
         \/ UNCHANGED status /\ Head(code["parent"]).call \notin {"wait", "fork"},
         NEW q \in Children, Left("parent")' <= AfterWait(program, q)
  PROVE  Done(q)'
<1> DEFINE n == Left("parent") - 1
           c == Head(code["parent"])
           a == AfterWait(program, q)
<1>1. Left("parent")' = n /\ n \in Nat /\ a \in Int /\ InOrder(program, c, n)
  BY ParentIsInOrder, ProcessesAre, GoesIs DEF ParentHas
<1>2. n <= a
  BY <1>1
<1> HIDE DEF n, a
<1>3. ~Fork("parent")
  <2>1. Fork("parent") => c.call = "fork"
    BY DEF Fork, Calls
  <2>2. c.call = "fork" => n > a
    BY <1>1 DEF InOrder, a
  <2> HIDE DEF c
  <2> QED
    BY <1>1, <1>2, <2>1, <2>2
<1>4. CASE n = a
  <2>1. /\ c.call = "wait" /\ (q = "child" \/ program = "pipes_io" => q \in c.children)
        /\ program = "pipes_io" => c.children = {q}
    BY <1>1, <1>4 DEF InOrder, a
  <2>2. Wait("parent")
    BY <1>3, <2>1
  <2> QED
    BY <2>1, <2>2, WaitReaps
<1>5. CASE n < a
  <2>1. Left("parent") <= a /\ Left("parent") # 0
    BY <1>1, <1>5, ParentIsInOrder DEF n
  <2>2. Done(q)
    BY <2>1 DEF Waited, a
  <2> QED
    BY <1>3, <2>2, DoneStays
<1> QED
  BY <1>1, <1>2, <1>4, <1>5

LEMMA WaitedStays ==
  ASSUME Types, Measurement, ParentHas, ChildrenPlain, Waited, NEW p \in Processes, Step(p)
  PROVE  Waited'
<1>1. UNCHANGED program /\ (CallFailed => CallFailed')
  BY StepLeaves, FailedStays
<1> SUFFICES ASSUME NEW q \in Children, Left("parent")' <= AfterWait(program, q)
             PROVE  Done(q)' \/ (Left("parent")' = 0 /\ CallFailed')
  BY <1>1 DEF Waited
<1>2. q \in Processes /\ q # "parent"
  BY ProcessesAre
<1>3. CASE p # "parent"
  <2>1. p \in Children /\ status[p] = "running"
    BY <1>3, StepLeaves, ProcessesAre
  <2>2. Left("parent")' = Left("parent") /\ \A r \in Processes \ {p} : status'[r] = status[r]
    BY <1>3, <2>1, ChildTakes, ProcessesAre DEF SameBut, Same, Left
  <2>3. Done(q) \/ (Left("parent") = 0 /\ CallFailed)
    BY <2>2 DEF Waited
  <2>4. Done(q) => Done(q)'
    BY <1>2, <2>1, <2>2 DEF Done
  <2> QED
    BY <1>1, <2>2, <2>3, <2>4
<1>4. CASE p = "parent"
  <2>1. CASE Exit("parent") /\ code["parent"] = << >>
    <3>1. Left("parent") = 0 /\ Left("parent")' = 0
      BY <2>1, ParentIsInOrder, ProcessesAre, ExitGoes DEF ParentHas
    <3>2. Done(q) \/ CallFailed
      BY <3>1 DEF Waited
    <3>3. ~Fork("parent")
      BY <2>1 DEF Fork, Calls
    <3> QED
      BY <1>1, <1>4, <3>1, <3>2, <3>3, DoneStays
  <2>2. CASE Failure("parent")
    <3>1. Left("parent")' = 0
      BY <2>2, ParentIsInOrder, ProcessesAre, FailureGoes DEF ParentHas
    <3> QED
      BY <2>2, <3>1, FailedStays, ProcessesAre, <1>4
  <2>3. CASE /\ Write("parent") /\ Die("parent") /\ code["parent"] # << >>
             /\ Readers(Head(code["parent"]).file) = {}
    <3>1. Head(code["parent"]).call = "write"
      BY <2>3 DEF Write, Calls
    <3>2. program \in {"hello_and_goodbye", "os_measurements"}
      BY <2>3, <3>1, ParentIsInOrder DEF InOrder
    <3>3. program = "hello_and_goodbye"
      BY <2>3, <3>1, <3>2, NoSigpipe
    <3>4. Left("parent")' = 0
      BY <2>3, <1>4, ParentIsInOrder, ProcessesAre, StepLeaves, DieGoes DEF ParentHas
    <3> QED
      BY <3>3, <3>4 DEF AfterWait
  <2>4. CASE /\ code["parent"] # << >> /\ Goes("parent", Programs[program])
             /\ \/ Fork("parent")
                \/ Wait("parent")
                \/ UNCHANGED status /\ Head(code["parent"]).call \notin {"wait", "fork"}
    BY <1>4, <2>4, ParentWaits
  <2> QED
    BY <1>4, <2>1, <2>2, <2>3, <2>4, ParentTakes
<1> QED
  BY <1>3, <1>4

----------------------------------------------------------------------------
(* The order of the lines *)

(* The lines of a parent that belong behind all of its child's. *)
IsLate(f, line) == line[1] = "parent" /\ (f = "dummy.txt" \/ line[2] = "finished")

NoLate(f, lines)  == \A i \in 1 .. Len(lines) : ~IsLate(f, lines[i])
FromParent(lines) == \A i \in 1 .. Len(lines) : lines[i][1] = "parent"
Sorted(f, lines)  ==
  \A i, j \in 1 .. Len(lines) : lines[i][1] = "child" /\ IsLate(f, lines[j]) => i < j

NoMoreForks == \A i \in 1 .. Left("parent") : code["parent"][i].call \notin MayFail
AllDone     == \A q \in Children : Done(q)

(* The parent may hold back such a line while its child runs, but not for  *)
(* standard output, and not any more behind the wait().                    *)
MayHold(f) ==
  /\ NoMoreForks
  /\ \A q \in Children :
       /\ AfterWait(program, q) >= 0
       /\ f = "stdout" \/ Left("parent") <= AfterWait(program, q) => Done(q)

Ordered(f) ==
  /\ FromParent(buffer["parent"][f])
  /\ \A q \in Children : NoLate(f, buffer[q][f])
  /\ ~NoLate(f, buffer["parent"][f]) => MayHold(f)
  /\ ~NoLate(f, contents[f]) => NoMoreForks /\ AllDone
  /\ Sorted(f, contents[f])

LinesOrdered == \A f \in Streams : Ordered(f)

LEMMA LinesAre ==
  ASSUME NEW f, NEW s \in Lines, NEW t \in Lines
  PROVE  /\ NoLate(f, s \o t) <=> NoLate(f, s) /\ NoLate(f, t)
         /\ FromParent(s) /\ FromParent(t) => FromParent(s \o t)
         /\ Sorted(f, s) /\ FromParent(t) => Sorted(f, s \o t)
         /\ NoLate(f, s) => Sorted(f, s)
<1>1. /\ Len(s \o t) = Len(s) + Len(t) /\ Len(s) \in Nat /\ Len(t) \in Nat
      /\ \A i \in 1 .. Len(s) : (s \o t)[i] = s[i]
      /\ \A i \in 1 .. Len(t) : (s \o t)[Len(s) + i] = t[i]
      /\ \A i \in 1 .. Len(s) + Len(t) :
           i \in 1 .. Len(s) \/ (i > Len(s) /\ \E k \in 1 .. Len(t) : i = Len(s) + k)
  <2>1. /\ Len(s \o t) = Len(s) + Len(t) /\ Len(s) \in Nat /\ Len(t) \in Nat
        /\ \A i \in 1 .. Len(s) : (s \o t)[i] = s[i]
        /\ \A i \in 1 .. Len(t) : (s \o t)[Len(s) + i] = t[i]
    BY DEF Lines
  <2>2. ASSUME NEW i \in 1 .. Len(s) + Len(t), i \notin 1 .. Len(s)
        PROVE  i > Len(s) /\ \E k \in 1 .. Len(t) : i = Len(s) + k
    <3>1. i - Len(s) \in 1 .. Len(t) /\ i = Len(s) + (i - Len(s)) /\ i > Len(s)
      BY <2>1, <2>2
    <3> QED
      BY <3>1
  <2> QED
    BY <2>1, <2>2
<1> DEFINE st == s \o t
           m == Len(s)
           n == Len(t)
<1>2. /\ Len(st) = m + n /\ m \in Nat /\ n \in Nat
      /\ \A i \in 1 .. m : st[i] = s[i] /\ i \in 1 .. m + n
      /\ \A i \in 1 .. n : st[m + i] = t[i] /\ m + i \in 1 .. m + n
      /\ \A i \in 1 .. m + n : i \in 1 .. m \/ (i > m /\ \E k \in 1 .. n : i = m + k)
  BY <1>1
<1> HIDE DEF st, m, n
<1>3. NoLate(f, st) <=> NoLate(f, s) /\ NoLate(f, t)
  <2>1. NoLate(f, st) <=> \A i \in 1 .. m + n : ~IsLate(f, st[i])
    BY <1>2 DEF NoLate
  <2>2. NoLate(f, s) <=> \A i \in 1 .. m : ~IsLate(f, s[i])
    BY DEF NoLate, m
  <2>3. NoLate(f, t) <=> \A i \in 1 .. n : ~IsLate(f, t[i])
    BY DEF NoLate, n
  <2> QED
    BY <1>2, <2>1, <2>2, <2>3
<1>4. FromParent(s) /\ FromParent(t) => FromParent(st)
  <2>1. FromParent(s) <=> \A i \in 1 .. m : s[i][1] = "parent"
    BY DEF FromParent, m
  <2>2. FromParent(t) <=> \A i \in 1 .. n : t[i][1] = "parent"
    BY DEF FromParent, n
  <2>3. FromParent(st) <=> \A i \in 1 .. m + n : st[i][1] = "parent"
    BY <1>2 DEF FromParent
  <2> QED
    BY <1>2, <2>1, <2>2, <2>3
<1>5. Sorted(f, s) /\ FromParent(t) => Sorted(f, st)
  <2> SUFFICES ASSUME Sorted(f, s), FromParent(t),
                      NEW i \in 1 .. m + n, NEW j \in 1 .. m + n,
                      st[i][1] = "child", IsLate(f, st[j])
               PROVE  i < j
    BY <1>2 DEF Sorted
  <2>1. i \in 1 .. m
    <3>1. \A k \in 1 .. n : t[k][1] = "parent"
      BY DEF FromParent, n
    <3>2. \A k \in 1 .. n : i # m + k
      BY <1>2, <3>1
    <3> QED
      BY <1>2, <3>2
  <2>2. CASE j \in 1 .. m
    BY <1>2, <2>1, <2>2 DEF Sorted, m
  <2>3. CASE j > m
    BY <1>2, <2>1, <2>3
  <2> QED
    BY <1>2, <2>2, <2>3
<1>6. NoLate(f, s) => Sorted(f, s)
  BY DEF NoLate, Sorted
<1> QED
  BY <1>3, <1>4, <1>5, <1>6 DEF st

LEMMA LineIs ==
  ASSUME NEW f, NEW line \in Processes \X Texts
  PROVE  /\ <<line>> \in Lines /\ (NoLate(f, <<line>>) <=> ~IsLate(f, line))
         /\ FromParent(<<line>>) <=> line[1] = "parent"
         /\ \A s \in Lines : Append(s, line) = s \o <<line>>
BY DEF Lines, NoLate, FromParent

LEMMA NoLines ==
  ASSUME NEW f
  PROVE  /\ << >> \in Lines /\ NoLate(f, << >>) /\ FromParent(<< >>) /\ Sorted(f, << >>)
         /\ \A s \in Lines : s \o << >> = s
BY DEF Lines, NoLate, FromParent, Sorted

LEMMA StreamTypes ==
  ASSUME Types, NEW f \in Streams
  PROVE  /\ contents[f] \in Lines
         /\ \A p \in Processes : buffer[p][f] \in Lines
BY DEF Types, Files

(* What a process prints next. *)
LEMMA NextLine ==
  ASSUME Types, NEW p \in Processes, Fprintf(p)
  PROVE  <<p, Head(code[p]).line>> \in Processes \X Texts
<1>1. code[p] # << >> /\ Head(code[p]).call = "fprintf"
  BY DEF Fprintf, Calls
<1> QED
  BY <1>1, HeadIs, CallsAre

(* While a child runs no late line is out, and its own are none. *)
LEMMA ChildOrdered ==
  ASSUME Types, ChildrenPlain, NEW p \in Children, Step(p), NEW f \in Streams, Ordered(f)
  PROVE  Ordered(f)'
<1>1. /\ p \in Processes /\ p # "parent" /\ "parent" \in Processes /\ status[p] = "running"
      /\ UNCHANGED program
  BY ProcessesAre, StepLeaves
<1>2. /\ SameBut(p) /\ \A q \in Processes \ {p} : status'[q] = status[q]
  BY ChildTakes
<1>3. ~Done(p) /\ NoLate(f, contents[f]) /\ NoLate(f, buffer[p][f])
  BY <1>1 DEF Ordered, Done, AllDone
<1>4. /\ contents[f] \in Lines /\ buffer[p][f] \in Lines
  BY <1>1, StreamTypes
<1>5. /\ NoLate(f, contents'[f]) /\ contents'[f] \in Lines
      /\ NoLate(f, buffer'[p][f])
  <2>1. CASE Silent(p, f)
    BY <1>3, <1>4, <2>1, NoLines DEF Silent
  <2>2. CASE Prints(p, f)
    <3> DEFINE line == <<p, Head(code[p]).line>>
    <3>1. /\ line \in Processes \X Texts /\ line[1] = p
          /\ \/ contents'[f] = Append(contents[f], line) /\ buffer'[p][f] = buffer[p][f]
             \/ contents'[f] = contents[f] /\ buffer'[p][f] = Append(buffer[p][f], line)
      BY <1>1, <2>2, NextLine DEF Prints
    <3> HIDE DEF line
    <3>2. <<line>> \in Lines /\ NoLate(f, <<line>>)
      BY <1>1, <3>1, LineIs DEF IsLate
    <3>3. /\ NoLate(f, Append(contents[f], line)) /\ NoLate(f, Append(buffer[p][f], line))
          /\ Append(contents[f], line) \in Lines
      <4>1. /\ Append(contents[f], line) = contents[f] \o <<line>>
            /\ Append(buffer[p][f], line) = buffer[p][f] \o <<line>>
        BY <1>4, <3>1, LineIs
      <4>2. contents[f] \o <<line>> \in Lines
        BY <1>4, <3>2, ConcatProperties DEF Lines
      <4> QED
        BY <1>3, <1>4, <3>2, <4>1, <4>2, LinesAre
    <3> QED
      BY <1>3, <1>4, <3>1, <3>3
  <2>3. CASE Flushes(p, f)
    <3>1. contents'[f] = contents[f] \o buffer[p][f] /\ buffer'[p][f] = << >>
      BY <2>3 DEF Flushes
    <3>2. contents[f] \o buffer[p][f] \in Lines
      BY <1>4, ConcatProperties DEF Lines
    <3> QED
      BY <1>3, <1>4, <3>1, <3>2, LinesAre, NoLines
  <2> QED
    BY <1>1, <2>1, <2>2, <2>3, StepPuts
<1>6. /\ buffer'["parent"] = buffer["parent"] /\ code'["parent"] = code["parent"]
      /\ \A q \in Children \ {p} : buffer'[q] = buffer[q]
  BY <1>1, <1>2, ProcessesAre DEF SameBut, Same
<1>7. \A q \in Children : NoLate(f, buffer'[q][f])
  BY <1>5, <1>6 DEF Ordered
<1>8. MayHold(f) => MayHold(f)'
  <2>1. NoMoreForks' <=> NoMoreForks
    BY <1>6 DEF NoMoreForks, Left
  <2>2. \A q \in Children \ {p} : Done(q)' <=> Done(q)
    BY <1>2, ProcessesAre DEF Done
  <2>3. Left("parent")' = Left("parent")
    BY <1>6 DEF Left
  <2> QED
    BY <1>1, <1>3, <2>1, <2>2, <2>3 DEF MayHold
<1>9. Sorted(f, contents'[f])
  BY <1>5, LinesAre
<1> QED
  BY <1>5, <1>6, <1>7, <1>8, <1>9 DEF Ordered

(* What a parent puts out and holds back. *)
LEMMA ParentPuts ==
  ASSUME Types, NEW f \in Streams, Ordered(f),
         NEW t \in Lines, contents'[f] = contents[f] \o t, FromParent(t),
         ~NoLate(f, t) => NoMoreForks' /\ AllDone',
         NoMoreForks /\ AllDone => NoMoreForks' /\ AllDone',
         FromParent(buffer'["parent"][f]),
         ~NoLate(f, buffer'["parent"][f]) => MayHold(f)',
         \A q \in Children : NoLate(f, buffer'[q][f])
  PROVE  Ordered(f)'
<1>1. contents[f] \in Lines
  BY StreamTypes
<1>2. /\ NoLate(f, contents'[f]) <=> NoLate(f, contents[f]) /\ NoLate(f, t)
      /\ Sorted(f, contents[f]) => Sorted(f, contents'[f])
  BY <1>1, LinesAre
<1>3. Sorted(f, contents'[f])
  BY <1>2 DEF Ordered
<1>4. ~NoLate(f, contents'[f]) => NoMoreForks' /\ AllDone'
  BY <1>2 DEF Ordered
<1> QED
  BY <1>3, <1>4 DEF Ordered

LEMMA NoMoreForksStays ==
  ASSUME Types, ParentHas, code["parent"] # << >>, Goes("parent", Programs[program]),
         NoMoreForks \/ PrintsLate(Head(code["parent"]))
  PROVE  NoMoreForks'
<1> DEFINE calls == Programs[program]
           n == Left("parent")
<1>1. /\ calls \in Seq(AllCalls) /\ NoBranches(calls) /\ n \in 1 .. Len(calls)
      /\ code["parent"] = Rest(calls, n) /\ code'["parent"] = Rest(calls, n - 1)
      /\ Left("parent")' = n - 1
  BY ParentIsInOrder, ProcessesAre, GoesIs DEF ParentHas, HasLeft, Goes
<1>2. WaitsInOrder(program)
  BY WaitsAre DEF Types
<1>3. \A i, j \in 1 .. Len(calls) :
         PrintsLate(calls[i]) /\ calls[j].call \in MayFail => j < i
  BY <1>2 DEF WaitsInOrder
<1> HIDE DEF calls, n
<1>4. Head(code["parent"]) = calls[Len(calls) - n + 1] /\ Len(code["parent"]) = n
  BY <1>1, RestIs
<1>5. \A k \in 1 .. n - 1 :
         /\ code'["parent"][k] = calls[Len(calls) - n + 1 + k]
         /\ code["parent"][k + 1] = calls[Len(calls) - n + 1 + k]
  <2>1. Len(calls) \in Nat
    BY <1>1
  <2> QED
    BY <1>1, <2>1 DEF Rest
<1> SUFFICES ASSUME NEW k \in 1 .. n - 1, code'["parent"][k].call \in MayFail
             PROVE  FALSE
  BY <1>1 DEF NoMoreForks
<1>6. CASE NoMoreForks
  <2>1. k + 1 \in 1 .. Left("parent")
    BY <1>1 DEF n
  <2> QED
    BY <1>5, <1>6, <2>1 DEF NoMoreForks
<1>7. CASE PrintsLate(Head(code["parent"]))
  <2>1. Len(calls) - n + 1 \in 1 .. Len(calls) /\ Len(calls) - n + 1 + k \in 1 .. Len(calls)
    BY <1>1
  <2>2. Len(calls) - n + 1 + k < Len(calls) - n + 1
    BY <1>3, <1>4, <1>5, <1>7, <2>1
  <2> QED
    BY <1>1, <2>2
<1> QED
  BY <1>6, <1>7

(* A call of the parent that returns, and that is no fork(). *)
LEMMA GoesOrdered ==
  ASSUME Types, ParentHas, ChildrenPlain, Waited, Step("parent"),
         code["parent"] # << >>, Goes("parent", Programs[program]), ~Fork("parent"),
         SameBut("parent"),
         Wait("parent")
           \/ (UNCHANGED status /\ Head(code["parent"]).call \notin {"wait", "fork"}),
         NEW f \in Streams, Ordered(f)
  PROVE  Ordered(f)'
<1> DEFINE c == Head(code["parent"])
           n == Left("parent") - 1
           held == buffer["parent"][f]
<1>1. /\ "parent" \in Processes /\ UNCHANGED program /\ n \in Nat /\ Left("parent")' = n
      /\ InOrder(program, c, n) /\ \A q \in Children : AfterWait(program, q) \in Int
  BY ParentIsInOrder, ProcessesAre, GoesIs, StepLeaves DEF ParentHas
<1>2. \A q \in Children : n <= AfterWait(program, q) => Done(q)'
  BY <1>1, ParentWaits
<1>3. (NoMoreForks => NoMoreForks') /\ (PrintsLate(c) => NoMoreForks')
  BY NoMoreForksStays
<1>4. \A q \in Children : Done(q) => Done(q)'
  BY DoneStays
<1> HIDE DEF n, c
<1>5. MayHold(f) => MayHold(f)'
  BY <1>1, <1>2, <1>3, <1>4 DEF MayHold
<1>6. \A q \in Children : NoLate(f, buffer'[q][f])
  BY ProcessesAre DEF Ordered, SameBut, Same
<1>7. held \in Lines /\ contents[f] \in Lines
  BY <1>1, StreamTypes
<1>8. FromParent(held) /\ (~NoLate(f, held) => MayHold(f))
  BY DEF Ordered
<1>9. NoMoreForks /\ AllDone => NoMoreForks' /\ AllDone'
  BY <1>3, <1>4 DEF AllDone
<1> HIDE DEF held
<1>10. CASE Silent("parent", f)
  <2>1. contents'[f] = contents[f] \o << >> /\ buffer'["parent"][f] \in {held, << >>}
    BY <1>7, <1>10, NoLines DEF Silent, held
  <2>2. /\ FromParent(buffer'["parent"][f])
        /\ ~NoLate(f, buffer'["parent"][f]) => MayHold(f)'
    BY <1>5, <1>8, <2>1, NoLines
  <2> QED
    BY <1>6, <1>9, <2>1, <2>2, NoLines, ParentPuts
<1>11. CASE Prints("parent", f)
  <2> DEFINE line == <<"parent", c.line>>
  <2>1. /\ c.call = "fprintf" /\ c.file = f /\ line \in Processes \X Texts
        /\ \/ /\ contents'[f] = Append(contents[f], line)
              /\ buffer'["parent"][f] = held /\ f = "stdout"
           \/ contents'[f] = contents[f] /\ buffer'["parent"][f] = Append(held, line)
    BY <1>1, <1>11, NextLine DEF Prints, Fprintf, Calls, c, held
  <2>2. line[1] = "parent" /\ line[2] = c.line
    OBVIOUS
  <2> HIDE DEF line
  <2>3. /\ <<line>> \in Lines /\ FromParent(<<line>>)
        /\ NoLate(f, <<line>>) <=> ~IsLate(f, line)
        /\ Append(contents[f], line) = contents[f] \o <<line>>
        /\ Append(held, line) = held \o <<line>>
    BY <1>7, <2>1, <2>2, LineIs
  <2>4. IsLate(f, line) => PrintsLate(c)
    BY <2>1, <2>2 DEF IsLate, PrintsLate, Streams
  <2>5. CASE /\ contents'[f] = Append(contents[f], line)
             /\ buffer'["parent"][f] = held /\ f = "stdout"
    <3>1. IsLate(f, line) => \A q \in Children : n < AfterWait(program, q)
      BY <1>1, <2>1, <2>4, <2>5 DEF InOrder
    <3>2. IsLate(f, line) => NoMoreForks' /\ AllDone'
      BY <1>1, <1>2, <1>3, <2>4, <3>1 DEF AllDone
    <3>3. contents'[f] = contents[f] \o <<line>>
      BY <2>3, <2>5
    <3> QED
      BY <1>5, <1>6, <1>8, <1>9, <2>3, <2>5, <3>2, <3>3, ParentPuts
  <2>6. CASE contents'[f] = contents[f] /\ buffer'["parent"][f] = Append(held, line)
    <3>1. ASSUME IsLate(f, line), NEW q \in Children
          PROVE  /\ AfterWait(program, q) >= 0
                 /\ f = "stdout" \/ n <= AfterWait(program, q) => Done(q)'
      <4>1. CASE f = "stdout"
        <5>1. n < AfterWait(program, q)
          BY <1>1, <2>1, <2>4, <3>1, <4>1 DEF InOrder
        <5> QED
          BY <1>1, <1>2, <5>1
      <4>2. CASE f = "dummy.txt"
        <5>1. AfterWait(program, q) \in 0 .. n - 1
          BY <1>1, <2>1, <2>4, <3>1, <4>2 DEF InOrder
        <5> QED
          BY <1>1, <4>2, <5>1
      <4> QED
        BY <4>1, <4>2 DEF Streams
    <3>2. IsLate(f, line) => MayHold(f)'
      BY <1>1, <1>3, <2>4, <3>1 DEF MayHold
    <3>3. /\ FromParent(held \o <<line>>)
          /\ NoLate(f, held \o <<line>>) <=> NoLate(f, held) /\ NoLate(f, <<line>>)
      BY <1>7, <1>8, <2>3, LinesAre
    <3>4. contents'[f] = contents[f] \o << >>
      BY <1>7, <2>6, NoLines
    <3>5. ~NoLate(f, buffer'["parent"][f]) => MayHold(f)'
      BY <1>5, <1>8, <2>3, <2>6, <3>2, <3>3
    <3>6. FromParent(buffer'["parent"][f])
      BY <2>3, <2>6, <3>3
    <3> QED
      BY <1>6, <1>9, <3>4, <3>5, <3>6, NoLines, ParentPuts
  <2> QED
    BY <2>1, <2>5, <2>6
<1>12. CASE Flushes("parent", f)
  <2>1. /\ c.call \in {"fflush", "fclose"} /\ c.file = f
        /\ contents'[f] = contents[f] \o held /\ buffer'["parent"][f] = << >>
    BY <1>12 DEF Flushes, Exit, Fflush, Fclose, Calls, c, held
  <2>2. ASSUME ~NoLate(f, held)
        PROVE  NoMoreForks' /\ AllDone'
    <3>1. MayHold(f)'
      BY <1>5, <1>8, <2>2
    <3>2. CASE f = "stdout"
      BY <3>1, <3>2 DEF MayHold, AllDone
    <3>3. CASE f = "dummy.txt"
      <4>1. \A q \in Children : n < AfterWait(program, q)
        BY <1>1, <2>1, <3>3 DEF InOrder
      <4>2. AllDone'
        BY <1>1, <1>2, <4>1 DEF AllDone
      <4> QED
        BY <3>1, <4>2 DEF MayHold
    <3> QED
      BY <3>2, <3>3 DEF Streams
  <2>3. FromParent(buffer'["parent"][f]) /\ NoLate(f, buffer'["parent"][f])
    BY <2>1, NoLines
  <2> QED
    BY <1>6, <1>7, <1>8, <1>9, <2>1, <2>2, <2>3, ParentPuts
<1> QED
  BY <1>1, <1>10, <1>11, <1>12, StepPuts

(* Before a call that may fail no late line has been printed. *)
LEMMA ForkOrdered ==
  ASSUME Types, ParentHas, Step("parent"), Fork("parent") \/ Failure("parent"),
         NEW f \in Streams, Ordered(f)
  PROVE  Ordered(f)'
<1> DEFINE c == Head(code["parent"])
<1>1. code["parent"] # << >> /\ c.call \in MayFail /\ "parent" \in Processes
  BY ProcessesAre DEF Fork, Failure, Calls, MayFail
<1>2. ~NoMoreForks
  <2>1. Left("parent") > 0 /\ Left("parent") \in Nat
    BY <1>1, ParentIsInOrder
  <2>2. code["parent"][1].call \in MayFail
    BY <1>1 DEF Types
  <2> QED
    BY <2>1, <2>2 DEF NoMoreForks
<1>3. NoLate(f, contents[f]) /\ NoLate(f, buffer["parent"][f]) /\ FromParent(buffer["parent"][f])
  BY <1>2 DEF Ordered, MayHold
<1>4. Silent("parent", f)
  BY <1>1, OtherPuts
<1>5. /\ contents'[f] = contents[f]
      /\ FromParent(buffer'["parent"][f]) /\ NoLate(f, buffer'["parent"][f])
  BY <1>3, <1>4, NoLines DEF Silent
<1>6. \A q \in Children : buffer'[q][f] \in {buffer[q][f], buffer["parent"][f]}
  <2>1. CASE Failure("parent")
    BY <2>1 DEF Failure
  <2>2. CASE Fork("parent")
    <3>1. buffer' = [buffer EXCEPT ![c.child] = buffer["parent"]]
      BY <2>2 DEF Fork
    <3> HIDE DEF c
    <3> QED
      BY <3>1, ProcessesAre DEF Types
  <2> QED
    BY <2>1, <2>2
<1>7. \A q \in Children : NoLate(f, buffer'[q][f])
  BY <1>3, <1>6 DEF Ordered
<1>8. Sorted(f, contents'[f])
  BY <1>5 DEF Ordered
<1>9. NoLate(f, contents'[f])
  BY <1>3, <1>5
<1> QED
  BY <1>5, <1>7, <1>8, <1>9 DEF Ordered

(* The parent exits, or is killed. *)
LEMMA EndOrdered ==
  ASSUME Types, ParentHas, Step("parent"),
         \/ Exit("parent") /\ code["parent"] = << >>
         \/ Write("parent") /\ Die("parent") /\ code["parent"] # << >>,
         NEW f \in Streams, Ordered(f)
  PROVE  Ordered(f)'
<1> DEFINE held == buffer["parent"][f]
<1>1. /\ "parent" \in Processes /\ status["parent"] = "running" /\ Die("parent")
      /\ ~Fork("parent") /\ UNCHANGED program
  BY ProcessesAre, StepLeaves DEF Exit, Write, Fork, Calls
<1>2. /\ SameBut("parent") /\ Left("parent")' = 0
      /\ buffer'["parent"] = NothingBuffered
  BY <1>1, ParentIsInOrder, DieGoes DEF ParentHas
<1>3. NoMoreForks' /\ \A q \in Children : Done(q) => Done(q)'
  BY <1>1, <1>2, DoneStays DEF NoMoreForks
<1>4. \A q \in Children : NoLate(f, buffer'[q][f])
  BY <1>2, ProcessesAre DEF Ordered, SameBut, Same
<1>5. FromParent(buffer'["parent"][f]) /\ NoLate(f, buffer'["parent"][f])
  BY <1>2, NoLines DEF NothingBuffered
<1>6. NoMoreForks /\ AllDone => NoMoreForks' /\ AllDone'
  BY <1>3 DEF AllDone
<1>7. held \in Lines /\ contents[f] \in Lines
  BY <1>1, StreamTypes
<1>8. CASE contents'[f] = contents[f]
  <2>1. contents'[f] = contents[f] \o << >>
    BY <1>7, <1>8, NoLines
  <2> QED
    BY <1>4, <1>5, <1>6, <2>1, NoLines, ParentPuts
<1>9. CASE Exit("parent") /\ code["parent"] = << >> /\ contents'[f] = contents[f] \o held
  <2>1. Left("parent") = 0
    BY <1>9, ParentIsInOrder
  <2>2. ~NoLate(f, held) => \A q \in Children : Done(q)
    <3>1. \A q \in Children : AfterWait(program, q) \in Int
      BY ParentIsInOrder
    <3> QED
      BY <2>1, <3>1 DEF Ordered, MayHold
  <2>3. ~NoLate(f, held) => NoMoreForks' /\ AllDone'
    BY <1>3, <2>2 DEF AllDone
  <2>4. FromParent(held)
    BY DEF Ordered
  <2> QED
    BY <1>4, <1>5, <1>6, <1>7, <1>9, <2>3, <2>4, ParentPuts
<1>10. \/ contents'[f] = contents[f]
       \/ Exit("parent") /\ code["parent"] = << >> /\ contents'[f] = contents[f] \o held
  <2>1. CASE Exit("parent")
    <3>1. code["parent"] = << >>
      BY <2>1 DEF Exit
    <3> QED
      BY <1>1, <2>1, <3>1, ExitPuts DEF Silent, Flushes
  <2>2. CASE Write("parent")
    BY <1>1, <2>2, OtherPuts DEF Silent
  <2> QED
    BY <2>1, <2>2
<1> QED
  BY <1>8, <1>9, <1>10

(* A fork() aside, the parent changes nothing of its children. *)
LEMMA ParentAlone ==
  ASSUME Types, Step("parent"), ~Fork("parent")
  PROVE  SameBut("parent") /\ \A q \in Children : status'[q] = "none" <=> status[q] = "none"
<1>1. \A q \in Children : q \in Processes /\ q # "parent"
  BY ProcessesAre
<1>2. ASSUME Return("parent") \/ ReturnError("parent")
      PROVE  \A q \in Processes \ {"parent"} : code'[q] = code[q]
  BY <1>2 DEF Return, ReturnError, Types
<1>3. CASE Die("parent")
  <2>1. SameBut("parent")
    BY <1>3 DEF Die, SameBut, Same, Types
  <2>2. \A q \in Children : status'[q] = "none" <=> status[q] = "none"
    BY <1>1, <1>3 DEF Die, Types
  <2> QED
    BY <2>1, <2>2
<1>4. CASE Fprintf("parent") \/ Fflush("parent") \/ Fclose("parent") \/ Open("parent")
           \/ Close("parent")
  <2>1. /\ Return("parent") \/ ReturnError("parent")
        /\ UNCHANGED status
        /\ \A q \in Processes \ {"parent"} : buffer'[q] = buffer[q] /\ ends'[q] = ends[q]
    BY <1>4 DEF Fprintf, Fflush, Fclose, Open, Close, Types
  <2> QED
    BY <1>2, <2>1 DEF SameBut, Same
<1>5. CASE Wait("parent")
  <2>1. /\ Return("parent") \/ ReturnError("parent")
        /\ UNCHANGED <<ends, buffer>>
        /\ \/ UNCHANGED status
           \/ \E r : status[r] = "zombie" /\ status' = [status EXCEPT ![r] = "gone"]
    BY <1>5 DEF Wait
  <2>2. \A q \in Children : status'[q] = "none" <=> status[q] = "none"
    BY <1>1, <2>1 DEF Types
  <2> QED
    BY <1>2, <2>1, <2>2 DEF SameBut, Same
<1>6. CASE Failure("parent")
  BY <1>6 DEF Failure, SameBut, Same, Types
<1>7. CASE Exec("parent")
  <2>1. /\ ReturnError("parent") \/ \E new : code' = [code EXCEPT !["parent"] = new]
        /\ UNCHANGED <<ends, status>>
        /\ UNCHANGED buffer \/ buffer' = [buffer EXCEPT !["parent"] = NothingBuffered]
    BY <1>7 DEF Exec
  <2> QED
    BY <1>2, <2>1 DEF SameBut, Same, Types
<1>8. CASE Read("parent") \/ (Write("parent") /\ ~Die("parent"))
  <2>1. /\ Return("parent") \/ \E new : code' = [code EXCEPT !["parent"] = new]
        /\ UNCHANGED <<ends, status, buffer>>
    BY <1>8 DEF Read, Write
  <2> QED
    BY <1>2, <2>1 DEF SameBut, Same, Types
<1> QED
  BY <1>3, <1>4, <1>5, <1>6, <1>7, <1>8 DEF Step, Exit

LEMMA ParentHasStays ==
  ASSUME Types, ParentHas, ChildrenPlain, NEW p \in Processes, Step(p)
  PROVE  ParentHas'
<1>1. UNCHANGED program
  BY StepLeaves
<1>2. CASE p # "parent"
  <2>1. code'["parent"] = code["parent"]
    BY <1>2, ChildTakes, ProcessesAre DEF SameBut, Same
  <2> QED
    BY <1>1, <2>1 DEF ParentHas, HasLeft, Left
<1>3. CASE p = "parent"
  <2>1. HasLeft("parent", Programs[program])'
    <3>1. PICK calls : calls = Programs[program]
      OBVIOUS
    <3>2. /\ calls \in Seq(AllCalls) /\ HasLeft("parent", calls) /\ "parent" \in Processes
          /\ status["parent"] = "running" /\ calls = Programs[program]'
      <4>1. Programs[program] \in Seq(AllCalls) /\ HasLeft("parent", Programs[program])
        BY ParentIsInOrder DEF ParentHas
      <4>2. "parent" \in Processes /\ status["parent"] = "running"
        BY <1>3, ProcessesAre, StepLeaves
      <4> QED
        BY <1>1, <3>1, <4>1, <4>2 DEF HasLeft
    <3>3. \/ Exit("parent")
          \/ Failure("parent")
          \/ Write("parent") /\ Die("parent")
          \/ Goes("parent", calls)
      BY <1>3, <3>1, ParentTakes DEF Goes, HasLeft
    <3>4. CASE Exit("parent")
      BY <3>2, <3>4, ExitGoes DEF HasLeft
    <3>5. CASE Failure("parent")
      BY <3>2, <3>5, FailureGoes DEF HasLeft
    <3>6. CASE Write("parent") /\ Die("parent")
      BY <3>2, <3>6, DieGoes DEF HasLeft
    <3>7. CASE Goes("parent", calls)
      BY <3>2, <3>7, GoesIs DEF HasLeft
    <3> QED
      BY <3>3, <3>4, <3>5, <3>6, <3>7
  <2> QED
    BY <2>1 DEF ParentHas
<1> QED
  BY <1>2, <1>3

LEMMA ChildrenPlainStays ==
  ASSUME Types, ParentHas, ChildrenPlain, NEW p \in Processes, Step(p)
  PROVE  ChildrenPlain'
<1>1. UNCHANGED program
  BY StepLeaves
<1>2. CASE p # "parent"
  <2>1. p \in Children /\ status[p] = "running"
    BY <1>2, StepLeaves, ProcessesAre
  <2>2. /\ SameBut(p) /\ code'[p] \in Seq(PlainCalls)
        /\ \A q \in Processes \ {p} : status'[q] = status[q]
    BY <2>1, ChildTakes
  <2> QED
    BY <1>1, <2>1, <2>2, ProcessesAre DEF ChildrenPlain, SameBut, Same
<1>3. CASE p = "parent" /\ ~Fork("parent")
  BY <1>1, <1>3, ParentAlone, ProcessesAre DEF ChildrenPlain, SameBut, Same
<1>4. CASE Fork("parent")
  <2> DEFINE c == Head(code["parent"])
  <2>1. code["parent"] # << >> /\ c.call = "fork"
    BY <1>4 DEF Fork, Calls
  <2>2. /\ c \in AllCalls /\ c.child \in Children
        /\ c.child = "reader" => program = "pipes_io"
    BY <2>1, ParentIsInOrder, CallsAre DEF InOrder, Children
  <2>3. c.code \in Seq(PlainCalls)
    <3> HIDE DEF c
    <3>1. c \notin PlainCalls
      BY <2>1 DEF PlainCalls, SimpleCalls
    <3> QED
      BY <2>2, <3>1 DEF AllCalls
  <2>4. /\ code' = [code EXCEPT !["parent"] = Continuation("parent", FALSE), ![c.child] = c.code]
        /\ status' = [status EXCEPT ![c.child] = "running"]
    BY <1>4 DEF Fork
  <2> HIDE DEF c
  <2>5. /\ \A q \in Children : code'[q] \in {code[q], c.code}
        /\ \A q \in Children : status'[q] # status[q] => q = c.child
    BY <2>2, <2>4, ProcessesAre DEF Types
  <2> QED
    BY <1>1, <2>2, <2>3, <2>5, ProcessesAre DEF ChildrenPlain
<1> QED
  BY <1>2, <1>3, <1>4

LEMMA LinesOrderedStay ==
  ASSUME Types, Measurement, ParentHas, ChildrenPlain, Waited, LinesOrdered,
         NEW p \in Processes, Step(p)
  PROVE  LinesOrdered'
<1> SUFFICES ASSUME NEW f \in Streams PROVE Ordered(f)'
  BY DEF LinesOrdered
<1>1. Ordered(f)
  BY DEF LinesOrdered
<1>2. CASE p # "parent"
  BY <1>1, <1>2, ChildOrdered, ProcessesAre
<1>3. CASE p = "parent"
  <2>1. CASE Fork("parent") \/ Failure("parent")
    BY <1>1, <1>3, <2>1, ForkOrdered
  <2>2. CASE \/ Exit("parent") /\ code["parent"] = << >>
             \/ Write("parent") /\ Die("parent") /\ code["parent"] # << >>
    BY <1>1, <1>3, <2>2, EndOrdered
  <2>3. CASE /\ ~Fork("parent") /\ code["parent"] # << >> /\ Goes("parent", Programs[program])
             /\ \/ Wait("parent")
                \/ UNCHANGED status /\ Head(code["parent"]).call \notin {"wait", "fork"}
    BY <1>1, <1>3, <2>3, ParentAlone, GoesOrdered
  <2> QED
    BY <1>3, <2>1, <2>2, <2>3, ParentTakes
<1> QED
  BY <1>2, <1>3

LEMMA ParentsStart == Init => ParentHas /\ ChildrenPlain /\ Waited /\ LinesOrdered
<1> SUFFICES ASSUME Init PROVE ParentHas /\ ChildrenPlain /\ Waited /\ LinesOrdered
  OBVIOUS
<1>1. /\ code["parent"] = Programs[program] /\ program \in DOMAIN Programs
      /\ \A q \in Children : status[q] = "none" /\ code[q] = << >>
      /\ \A f \in Streams : contents[f] = << >> /\ \A p \in Processes : buffer[p][f] = << >>
  BY ProcessesAre DEF Init, Children, Files, NothingBuffered
<1>2. ParentHas
  <2>1. Programs[program] \in Seq(AllCalls)
    BY <1>1, ProgramsAre
  <2>2. Rest(Programs[program], Len(Programs[program])) = Programs[program]
    BY <2>1, WholeIs
  <2> QED
    BY <1>1, <2>1, <2>2 DEF ParentHas, HasLeft, Left
<1>3. ChildrenPlain
  <2>1. << >> \in Seq(PlainCalls)
    OBVIOUS
  <2> QED
    BY <1>1, <2>1, ProcessesAre DEF ChildrenPlain
<1>4. Waited
  BY <1>1 DEF Waited, Done
<1>5. LinesOrdered
  BY <1>1, NoLines, ProcessesAre DEF LinesOrdered, Ordered
<1> QED
  BY <1>2, <1>3, <1>4, <1>5

----------------------------------------------------------------------------
(* hello_and_goodbye.c on a terminal *)

greeter == << close_r("pipe1"), printf("hello"), write("pipe1", SIGNAL), close_w("pipe1") >>

Said(line)  == \E i \in 1 .. Len(contents["stdout"]) : contents["stdout"][i][2] = line
HelloFirst  ==
  \A i, j \in 1 .. Len(contents["stdout"]) :
    contents["stdout"][i][2] = "hello" /\ contents["stdout"][j][2] = "goodbye" => i < j
NothingHeld == \A p \in Processes : buffer[p]["stdout"] = << >>

(* Until the child has said hello it holds the write end of an empty pipe, *)
(* so that the parent does not get past its read().                        *)
Signalled ==
  /\ Left("parent") >= 5 => status["child"] = "none"
  /\ Left("parent") = 5 => <<"w", "pipe1">> \in ends["parent"]
  /\ Left("child") >= 3 => Left("parent") \in 3 .. 4 /\ <<"w", "pipe1">> \in ends["child"]
  /\ Left("child") >= 3 \/ Left("parent") >= 5 => contents["pipe1"] = << >>

InTurnSaid == NothingHeld /\ HelloFirst /\ (Said("goodbye") => Left("parent") <= 1)

Greeting ==
  program = "hello_and_goodbye" =>
    /\ HasLeft("parent", hello_and_goodbye_c) /\ HasLeft("child", greeter)
    /\ Signalled /\ (tty => InTurnSaid)

LEMMA GreeterIs ==
  /\ greeter \in Seq(AllCalls) /\ Len(greeter) = 4 /\ NoBranches(greeter)
  /\ greeter[1] = close_r("pipe1") /\ greeter[2] = printf("hello")
  /\ greeter[3] = write("pipe1", SIGNAL) /\ greeter[4] = close_w("pipe1")
<1>1. /\ close_r("pipe1") \in AllCalls /\ close_w("pipe1") \in AllCalls
      /\ write("pipe1", SIGNAL) \in AllCalls
  BY FilesAre, Parameters, SimpleCallsAre, SimpleEverywhere
<1>2. printf("hello") \in AllCalls
  BY PrintfIs, TextsAre
<1>3. greeter \in Seq(AllCalls)
  BY <1>1, <1>2 DEF greeter
<1>4. /\ Len(greeter) = 4 /\ greeter[1] = close_r("pipe1") /\ greeter[2] = printf("hello")
      /\ greeter[3] = write("pipe1", SIGNAL) /\ greeter[4] = close_w("pipe1")
  BY DEF greeter
<1>5. NoBranches(greeter)
  BY <1>4 DEF NoBranches, close_r, printf, fprintf, write, close_w
<1> QED
  BY <1>3, <1>4, <1>5

LEMMA HelloIs ==
  /\ hello_and_goodbye_c \in Seq(AllCalls) /\ Len(hello_and_goodbye_c) = 6
  /\ NoBranches(hello_and_goodbye_c)
  /\ hello_and_goodbye_c[1] = pipe("pipe1") /\ hello_and_goodbye_c[2] = fork("child", greeter)
  /\ hello_and_goodbye_c[3] = close_w("pipe1") /\ hello_and_goodbye_c[4] = read("pipe1", 1)
  /\ hello_and_goodbye_c[5] = printf("goodbye") /\ hello_and_goodbye_c[6] = close_r("pipe1")
  /\ Programs["hello_and_goodbye"] = hello_and_goodbye_c
<1>1. /\ Len(hello_and_goodbye_c) = 6
      /\ hello_and_goodbye_c[1] = pipe("pipe1") /\ hello_and_goodbye_c[2] = fork("child", greeter)
      /\ hello_and_goodbye_c[3] = close_w("pipe1") /\ hello_and_goodbye_c[4] = read("pipe1", 1)
      /\ hello_and_goodbye_c[5] = printf("goodbye") /\ hello_and_goodbye_c[6] = close_r("pipe1")
  BY DEF hello_and_goodbye_c, greeter
<1>2. Programs["hello_and_goodbye"] = hello_and_goodbye_c
  BY DEF Programs
<1>3. NoBranches(hello_and_goodbye_c)
  BY <1>1 DEF NoBranches, pipe, fork, close_w, read, printf, fprintf, close_r
<1> QED
  BY <1>1, <1>2, <1>3, hello_and_goodbye_cIs

(* On a terminal a step prints a line at once or nothing.                  *)
LEMMA TerminalPuts ==
  ASSUME Types, tty, NEW p \in Processes, Step(p), buffer[p]["stdout"] = << >>
  PROVE  /\ buffer'[p]["stdout"] = << >>
         /\ \/ contents'["stdout"] = contents["stdout"]
            \/ /\ Fprintf(p) /\ code[p] # << >> /\ Head(code[p]).call = "fprintf"
               /\ contents'["stdout"]
                    = Append(contents["stdout"], <<p, Head(code[p]).line>>)
<1>1. "stdout" \in Streams
  BY DEF Streams
<1>2. CASE Silent(p, "stdout")
  BY <1>2 DEF Silent
<1>3. CASE Prints(p, "stdout")
  <2>1. Fprintf(p) /\ Head(code[p]).file = "stdout"
    BY <1>3 DEF Prints
  <2>2. UNCHANGED buffer
    BY <2>1 DEF Fprintf, Buffered
  <2>3. code[p] # << >> /\ Head(code[p]).call = "fprintf"
    BY <2>1 DEF Fprintf, Calls
  <2>4. Append(<< >>, <<p, Head(code[p]).line>>) # << >>
    OBVIOUS
  <2> QED
    BY <1>3, <2>1, <2>2, <2>3, <2>4 DEF Prints
<1>4. CASE Flushes(p, "stdout")
  <2>1. contents["stdout"] \o << >> = contents["stdout"]
    BY ConcatEmptySeq DEF Types, Files, Streams, Lines
  <2> QED
    BY <1>4, <2>1 DEF Flushes
<1> QED
  BY <1>1, <1>2, <1>3, <1>4, StepPuts

(* A line more. *)
LEMMA SaysMore ==
  ASSUME Types, NEW p \in Processes, NEW line \in Texts,
         contents'["stdout"] = Append(contents["stdout"], <<p, line>>)
  PROVE  /\ Said("goodbye")' => Said("goodbye") \/ line = "goodbye"
         /\ HelloFirst /\ (line = "hello" => ~Said("goodbye")) => HelloFirst'
<1> DEFINE s == contents["stdout"]
           t == contents'["stdout"]
           n == Len(s)
<1>1. n \in Nat /\ Len(t) = n + 1 /\ t[n + 1] = <<p, line>> /\ \A i \in 1 .. n : t[i] = s[i]
  BY DEF Types, Files, Streams, Lines
<1>2. t[n + 1][2] = line
  BY <1>1
<1>3. /\ Said("goodbye") <=> \E i \in 1 .. n : s[i][2] = "goodbye"
      /\ Said("goodbye")' <=> \E i \in 1 .. n + 1 : t[i][2] = "goodbye"
  BY <1>1 DEF Said
<1>4. /\ HelloFirst <=> \A i, j \in 1 .. n : s[i][2] = "hello" /\ s[j][2] = "goodbye" => i < j
      /\ HelloFirst'
           <=> \A i, j \in 1 .. n + 1 : t[i][2] = "hello" /\ t[j][2] = "goodbye" => i < j
  BY <1>1 DEF HelloFirst
<1> HIDE DEF s, t, n
<1>5. Said("goodbye")' => Said("goodbye") \/ line = "goodbye"
  BY <1>1, <1>2, <1>3
<1>6. ASSUME HelloFirst, line = "hello" => ~Said("goodbye"),
             NEW i \in 1 .. n + 1, NEW j \in 1 .. n + 1,
             t[i][2] = "hello", t[j][2] = "goodbye"
      PROVE  i < j
  <2>1. CASE i \in 1 .. n /\ j \in 1 .. n
    BY <1>1, <1>4, <1>6, <2>1
  <2>2. CASE i \in 1 .. n /\ j = n + 1
    BY <1>1, <2>2
  <2>3. CASE i = n + 1 /\ j \in 1 .. n
    BY <1>1, <1>2, <1>3, <1>6, <2>3
  <2>4. CASE i = n + 1 /\ j = n + 1
    <3>1. "hello" # "goodbye"
      OBVIOUS
    <3> QED
      BY <1>6, <2>4, <3>1
  <2> QED
    BY <1>1, <2>1, <2>2, <2>3, <2>4
<1> QED
  BY <1>4, <1>5, <1>6

LEMMA GreeterCalls ==
  ASSUME Types, HasLeft("child", greeter), Step("child")
  PROVE  /\ HasLeft("child", greeter)'
         /\ Left("child")' >= 3 =>
              /\ Left("child") >= 3 /\ contents'["pipe1"] = contents["pipe1"]
              /\ <<"w", "pipe1">> \in ends["child"] => <<"w", "pipe1">> \in ends'["child"]
         /\ code["child"] # << >> /\ Head(code["child"]).call = "fprintf" =>
              Head(code["child"]).line = "hello" /\ Left("child") = 3
<1> DEFINE n == Left("child")
           c == Head(code["child"])
<1>1. "child" \in Processes /\ n \in 0 .. 4 /\ (n = 0 <=> code["child"] = << >>)
  BY ProcessesAre, GreeterIs, NoneLeft DEF HasLeft
<1>2. n > 0 => c = greeter[5 - n]
  <2>1. code["child"] # << >> => c = greeter[4 - Left("child") + 1]
    BY <1>1, GreeterIs, NextCall
  <2> QED
    BY <1>1, <2>1
<1>3. code["child"] # << >> /\ c.call = "fprintf" => c.line = "hello" /\ n = 3
  <2>1. n = 3 => c.line = "hello"
    BY <1>2, GreeterIs DEF printf, fprintf
  <2>2. n \in {1, 4} => c.call = "close"
    BY <1>2, GreeterIs DEF close_r, close_w
  <2>3. n = 2 => c.call = "write"
    BY <1>2, GreeterIs DEF write
  <2> QED
    BY <1>1, <2>1, <2>2, <2>3
<1> SUFFICES /\ HasLeft("child", greeter)'
             /\ Left("child")' >= 3 =>
                  /\ n >= 3 /\ contents'["pipe1"] = contents["pipe1"]
                  /\ <<"w", "pipe1">> \in ends["child"] => <<"w", "pipe1">> \in ends'["child"]
  BY <1>3
<1>4. CASE n = 0
  <2>1. Exit("child")
    BY <1>1, <1>4, StepTakes
  <2> QED
    BY <1>1, <2>1, GreeterIs, ExitGoes
<1>5. CASE n \in {1, 4}
  <2>1. c.call = "close" /\ (n = 4 => c.end = <<"r", "pipe1">>)
    BY <1>2, <1>5, GreeterIs DEF close_r, close_w
  <2>2. Close("child")
    BY <1>1, <1>5, <2>1, StepTakes
  <2>3. /\ Goes("child", greeter) /\ UNCHANGED contents
        /\ ends'["child"] = ends["child"] \ {c.end}
    BY <1>1, <2>2, GreeterIs, CloseGoes
  <2>4. HasLeft("child", greeter)' /\ Left("child")' = n - 1
    BY <1>1, <2>3, GreeterIs, GoesIs
  <2> QED
    BY <1>5, <2>1, <2>3, <2>4
<1>6. CASE n = 3
  <2>1. c.call = "fprintf"
    BY <1>2, <1>6, GreeterIs DEF printf, fprintf
  <2>2. Fprintf("child")
    BY <1>1, <1>6, <2>1, StepTakes
  <2>3. Return("child") \/ ReturnError("child")
    BY <2>2 DEF Fprintf
  <2>4. Goes("child", greeter)
    BY <1>1, <1>6, <2>3, GreeterIs, ReturnGoes
  <2>5. HasLeft("child", greeter)' /\ Left("child")' = n - 1
    BY <1>1, <2>4, GreeterIs, GoesIs
  <2> QED
    BY <1>6, <2>5
<1>7. CASE n = 2
  <2>1. c.call = "write"
    BY <1>2, <1>7, GreeterIs DEF write
  <2>2. Write("child")
    BY <1>1, <1>7, <2>1, StepTakes
  <2>3. CASE Return("child")
    <3>1. Goes("child", greeter)
      BY <1>1, <1>7, <2>3, GreeterIs, ReturnGoes
    <3>2. HasLeft("child", greeter)' /\ Left("child")' = n - 1
      BY <1>1, <3>1, GreeterIs, GoesIs
    <3> QED
      BY <1>7, <3>2
  <2>4. CASE Die("child")
    <3>1. status["child"] = "running"
      BY StepLeaves, ProcessesAre
    <3>2. HasLeft("child", greeter)' /\ Left("child")' = 0
      BY <1>1, <2>4, <3>1, GreeterIs, DieGoes
    <3> QED
      BY <3>2
  <2> QED
    BY <2>2, <2>3, <2>4 DEF Write
<1> QED
  BY <1>1, <1>4, <1>5, <1>6, <1>7

LEMMA GreeterSteps ==
  ASSUME Types, ChildrenPlain, Greeting, program = "hello_and_goodbye", Step("child")
  PROVE  Greeting'
<1>1. /\ HasLeft("parent", hello_and_goodbye_c) /\ HasLeft("child", greeter)
      /\ Signalled /\ (tty => InTurnSaid) /\ "child" \in Children /\ "child" \in Processes
      /\ "parent" \in Processes \ {"child"} /\ Left("parent") \in Nat
  BY ProcessesAre, HelloIs DEF Greeting, HasLeft
<1>2. /\ status["child"] = "running" /\ UNCHANGED <<program, tty>>
      /\ SameBut("child") /\ \A q \in Processes \ {"child"} : status'[q] = status[q]
  BY <1>1, StepLeaves, ChildTakes
<1>3. /\ HasLeft("parent", hello_and_goodbye_c)' /\ Left("parent")' = Left("parent")
  BY <1>1, <1>2 DEF SameBut, Same, HasLeft, Left
<1>4. Left("parent") < 5
  BY <1>1, <1>2 DEF Signalled
<1>5. HasLeft("child", greeter)' /\ Signalled'
  BY <1>1, <1>3, <1>4, GreeterCalls DEF Signalled
<1>6. ASSUME tty PROVE InTurnSaid'
  <2>1. InTurnSaid /\ buffer["child"]["stdout"] = << >>
    BY <1>1, <1>6 DEF InTurnSaid, NothingHeld
  <2>2. /\ buffer'["child"]["stdout"] = << >>
        /\ \/ contents'["stdout"] = contents["stdout"]
           \/ /\ code["child"] # << >> /\ Head(code["child"]).call = "fprintf"
              /\ contents'["stdout"]
                   = Append(contents["stdout"], <<"child", Head(code["child"]).line>>)
    BY <1>1, <1>6, <2>1, TerminalPuts
  <2>3. NothingHeld'
    BY <1>2, <2>1, <2>2 DEF InTurnSaid, NothingHeld, SameBut, Same
  <2>4. CASE contents'["stdout"] = contents["stdout"]
    BY <1>3, <2>1, <2>3, <2>4 DEF InTurnSaid, HelloFirst, Said
  <2>5. CASE /\ code["child"] # << >> /\ Head(code["child"]).call = "fprintf"
             /\ contents'["stdout"]
                  = Append(contents["stdout"], <<"child", Head(code["child"]).line>>)
    <3>1. Head(code["child"]).line = "hello" /\ Left("child") = 3
      BY <1>1, <2>5, GreeterCalls
    <3>2. ~Said("goodbye")
      BY <1>1, <2>1, <3>1 DEF Signalled, InTurnSaid
    <3>3. /\ "hello" \in Texts /\ "hello" # "goodbye"
          /\ contents'["stdout"] = Append(contents["stdout"], <<"child", "hello">>)
      BY <2>5, <3>1, TextsAre
    <3>4. ~Said("goodbye")' /\ HelloFirst'
      BY <1>1, <2>1, <3>2, <3>3, SaysMore DEF InTurnSaid
    <3> QED
      BY <2>3, <3>4 DEF InTurnSaid
  <2> QED
    BY <2>2, <2>4, <2>5
<1> QED
  BY <1>2, <1>3, <1>5, <1>6 DEF Greeting

LEMMA HelloAt ==
  ASSUME Types, HasLeft("parent", hello_and_goodbye_c)
  PROVE  /\ Left("parent") \in 0 .. 6 /\ "parent" \in Processes
         /\ Left("parent") = 0 <=> code["parent"] = << >>
         /\ Left("parent") > 0 =>
              Head(code["parent"]) = hello_and_goodbye_c[7 - Left("parent")]
<1> DEFINE n == Left("parent")
<1>1. "parent" \in Processes /\ n \in 0 .. 6 /\ (n = 0 <=> code["parent"] = << >>)
  BY ProcessesAre, HelloIs, NoneLeft DEF HasLeft
<1>2. code["parent"] # << >> => Head(code["parent"]) = hello_and_goodbye_c[6 - n + 1]
  BY <1>1, HelloIs, NextCall
<1> HIDE DEF n
<1>3. n > 0 => Head(code["parent"]) = hello_and_goodbye_c[7 - n]
  BY <1>1, <1>2
<1> QED
  BY <1>1, <1>3 DEF n

LEMMA HelloCalls ==
  ASSUME Types, HasLeft("parent", hello_and_goodbye_c)
  PROVE  LET n == Left("parent")
             c == Head(code["parent"])
         IN  /\ n = 6 => c.call = "pipe" /\ c.file = "pipe1"
             /\ n = 5 => c.call = "fork" /\ c.child = "child" /\ c.code = greeter
             /\ n = 4 => c.call = "close"
             /\ n = 3 => c.call = "read" /\ c.file = "pipe1"
             /\ n = 2 => c.call = "fprintf" /\ c.line = "goodbye"
             /\ n = 1 => c.call = "close"
<1> DEFINE n == Left("parent")
           c == Head(code["parent"])
<1>1. n > 0 => c = hello_and_goodbye_c[7 - n]
  BY HelloAt
<1> HIDE DEF n, c
<1>2. n = 6 => c.call = "pipe" /\ c.file = "pipe1"
  BY <1>1, HelloIs DEF pipe
<1>3. n = 5 => c.call = "fork" /\ c.child = "child" /\ c.code = greeter
  BY <1>1, HelloIs DEF fork
<1>4. n = 4 => c.call = "close"
  BY <1>1, HelloIs DEF close_w
<1>5. n = 3 => c.call = "read" /\ c.file = "pipe1"
  BY <1>1, HelloIs DEF read
<1>6. n = 2 => c.call = "fprintf" /\ c.line = "goodbye"
  BY <1>1, HelloIs DEF printf, fprintf
<1>7. n = 1 => c.call = "close"
  BY <1>1, HelloIs DEF close_r
<1> QED
  BY <1>2, <1>3, <1>4, <1>5, <1>6, <1>7 DEF n, c

(* The parent waits in its read() until something is sent or nobody can.   *)
LEMMA ReadBlocks ==
  ASSUME Types, Read("parent"), Head(code["parent"]).file = "pipe1",
         contents["pipe1"] = << >>
  PROVE  <<"w", "pipe1">> \notin ends["child"]
<1> DEFINE c == Head(code["parent"])
           n == IF Len(contents[c.file]) < c.size THEN Len(contents[c.file]) ELSE c.size
<1>1. c.size \in Nat \ {0} /\ "parent" \in Processes
  <2>1. code["parent"] # << >> /\ c.call \in {"read", "whileRead"}
    BY DEF Read, Calls
  <2> QED
    BY <2>1, HeadIs, CallsAre, ProcessesAre
<1>2. n = 0
  <2>1. Len(contents[c.file]) = 0
    OBVIOUS
  <2> HIDE DEF c
  <2> QED
    BY <1>1, <2>1
<1>3. n > 0 \/ Writers(c.file) = {}
  BY DEF Read
<1> QED
  <2>1. Writers("pipe1") = {}
    <3> HIDE DEF n
    <3> QED
      BY <1>2, <1>3
  <2> QED
    BY <2>1, ProcessesAre DEF Writers

LEMMA HelloGoes ==
  ASSUME Types, ParentHas, program = "hello_and_goodbye", Step("parent")
  PROVE  LET n == Left("parent")
         IN  \/ n = 6 /\ Open("parent")
             \/ n = 5 /\ Fork("parent")
             \/ n \in {5, 6} /\ Failure("parent")
             \/ n = 4 /\ Close("parent")
             \/ n = 3 /\ Read("parent")
             \/ n = 2 /\ Fprintf("parent")
             \/ n = 1 /\ Close("parent")
             \/ n = 0 /\ Exit("parent")
<1> DEFINE n == Left("parent")
           call == Head(code["parent"]).call
<1>1. /\ HasLeft("parent", hello_and_goodbye_c) /\ n \in 0 .. 6 /\ "parent" \in Processes
      /\ n = 0 <=> code["parent"] = << >>
  BY HelloIs, HelloAt DEF ParentHas
<1>2. /\ n = 6 => call = "pipe"
      /\ n = 5 => call = "fork"
      /\ n = 4 => call = "close"
      /\ n = 3 => call = "read"
      /\ n = 2 => call = "fprintf"
      /\ n = 1 => call = "close"
  BY <1>1, HelloCalls
<1>3. /\ Exit("parent") => code["parent"] = << >>
      /\ Fprintf("parent") => code["parent"] # << >> /\ call = "fprintf"
      /\ Fflush("parent") => code["parent"] # << >> /\ call = "fflush"
      /\ Fclose("parent") => code["parent"] # << >> /\ call = "fclose"
      /\ Open("parent") => code["parent"] # << >> /\ call \in {"pipe", "fopen"}
      /\ Close("parent") => code["parent"] # << >> /\ call = "close"
      /\ Fork("parent") => code["parent"] # << >> /\ call = "fork"
      /\ Failure("parent") => code["parent"] # << >> /\ call \in {"pipe", "fopen", "fork"}
      /\ Wait("parent") => code["parent"] # << >> /\ call = "wait"
      /\ Exec("parent") => code["parent"] # << >> /\ call = "exec"
      /\ Write("parent") => code["parent"] # << >> /\ call = "write"
      /\ Read("parent") => code["parent"] # << >> /\ call \in {"read", "whileRead"}
  BY DEF Exit, Fprintf, Fflush, Fclose, Open, Close, Fork, Failure, Wait, Exec, Write, Read, Calls
<1> HIDE DEF n, call
<1>4. \/ n = 6 /\ Open("parent")
      \/ n = 5 /\ Fork("parent")
      \/ n \in {5, 6} /\ Failure("parent")
      \/ n = 4 /\ Close("parent")
      \/ n = 3 /\ Read("parent")
      \/ n = 2 /\ Fprintf("parent")
      \/ n = 1 /\ Close("parent")
      \/ n = 0 /\ Exit("parent")
  BY <1>1, <1>2, <1>3 DEF Step
<1> QED
  BY <1>4 DEF n

LEMMA HelloForks ==
  ASSUME Types, ParentHas, Greeting, program = "hello_and_goodbye", Fork("parent"),
         Left("parent") = 5
  PROVE  Greeting'
<1>1. /\ HasLeft("parent", hello_and_goodbye_c) /\ "parent" \in Processes
      /\ "child" \in Processes \ {"parent"} /\ Signalled /\ (tty => InTurnSaid)
  BY ProcessesAre DEF Greeting
<1>2. Head(code["parent"]).child = "child" /\ Head(code["parent"]).code = greeter
  BY <1>1, HelloCalls
<1>3. /\ Goes("parent", hello_and_goodbye_c)
      /\ code'["child"] = greeter
      /\ ends'["child"] = ends["parent"] /\ buffer'["child"] = buffer["parent"]
      /\ buffer'["parent"] = buffer["parent"]
      /\ \A q \in Processes \ {"parent", "child"} : Same(q)
      /\ UNCHANGED <<program, tty, contents>>
  BY <1>1, <1>2, HelloIs, ForkGoes
<1>4. HasLeft("parent", hello_and_goodbye_c)' /\ Left("parent")' = 4
  BY <1>1, <1>3, HelloIs, GoesIs
<1>5. HasLeft("child", greeter)' /\ Left("child")' = 4
  <2>1. Rest(greeter, 4) = greeter /\ Len(greeter) = 4
    BY GreeterIs, WholeIs
  <2> QED
    BY <1>3, <2>1 DEF HasLeft, Left
<1>6. Signalled'
  BY <1>1, <1>3, <1>4, <1>5 DEF Signalled
<1>7. ASSUME tty PROVE InTurnSaid'
  <2>1. InTurnSaid
    BY <1>1, <1>7
  <2>2. ~Said("goodbye")
    BY <2>1 DEF InTurnSaid
  <2>3. ~Said("goodbye")' /\ HelloFirst'
    BY <1>3, <2>1, <2>2 DEF InTurnSaid, Said, HelloFirst
  <2>4. NothingHeld'
    BY <1>1, <1>3, <2>1 DEF InTurnSaid, NothingHeld, Same
  <2> QED
    BY <2>3, <2>4 DEF InTurnSaid
<1> QED
  BY <1>3, <1>4, <1>5, <1>6, <1>7 DEF Greeting

(* Its other steps, but for what they print. *)
LEMMA HelloGoesOn ==
  ASSUME Types, ParentHas, Greeting, program = "hello_and_goodbye", Step("parent"),
         ~Fork("parent")
  PROVE  /\ HasLeft("parent", hello_and_goodbye_c)' /\ HasLeft("child", greeter)'
         /\ Signalled'
         /\ Left("parent")' <= Left("parent")
         /\ Fprintf("parent") => Left("parent")' = 1
<1> DEFINE n == Left("parent")
<1>1. /\ HasLeft("parent", hello_and_goodbye_c) /\ HasLeft("child", greeter)
      /\ "parent" \in Processes /\ n \in 0 .. 6 /\ Left("child") \in Nat
      /\ "child" \in Processes \ {"parent"} /\ "child" \in Children
      /\ Signalled /\ hello_and_goodbye_c \in Seq(AllCalls) /\ NoBranches(hello_and_goodbye_c)
      /\ status["parent"] = "running"
  BY ProcessesAre, HelloIs, HelloAt, GreeterIs, StepLeaves DEF Greeting, HasLeft
<1>2. /\ HasLeft("child", greeter)' /\ Left("child")' = Left("child")
      /\ ends'["child"] = ends["child"]
      /\ status'["child"] = "none" <=> status["child"] = "none"
  BY <1>1, ParentAlone DEF SameBut, Same, HasLeft, Left
<1> SUFFICES /\ HasLeft("parent", hello_and_goodbye_c)' /\ Signalled'
             /\ Left("parent")' <= n /\ (Fprintf("parent") => Left("parent")' = 1)
  BY <1>2
<1>3. CASE n = 6 /\ Open("parent")
  <2>1. Head(code["parent"]).call = "pipe" /\ Head(code["parent"]).file = "pipe1"
    BY <1>1, <1>3, HelloCalls
  <2>2. /\ Goes("parent", hello_and_goodbye_c) /\ UNCHANGED contents
        /\ <<"w", "pipe1">> \in ends'["parent"]
    BY <1>1, <1>3, <2>1, OpenGoes
  <2>3. HasLeft("parent", hello_and_goodbye_c)' /\ Left("parent")' = 5
    BY <1>1, <1>3, <2>2, GoesIs
  <2>4. ~Fprintf("parent")
    BY <2>1 DEF Fprintf, Calls
  <2> QED
    BY <1>1, <1>2, <1>3, <2>2, <2>3, <2>4 DEF Signalled
<1>4. CASE n \in {5, 6} /\ Failure("parent")
  <2>1. HasLeft("parent", hello_and_goodbye_c)' /\ Left("parent")' = 0
    BY <1>1, <1>4, FailureGoes
  <2>2. ~Fprintf("parent")
    BY <1>1, <1>4, HelloCalls DEF Fprintf, Calls
  <2>3. ~(Left("child") >= 3)
    BY <1>1, <1>4 DEF Signalled
  <2> QED
    BY <1>1, <1>2, <2>1, <2>2, <2>3 DEF Signalled
<1>5. CASE n \in {1, 4} /\ Close("parent")
  <2>1. Goes("parent", hello_and_goodbye_c) /\ UNCHANGED contents
    BY <1>1, <1>5, CloseGoes
  <2>2. HasLeft("parent", hello_and_goodbye_c)' /\ Left("parent")' = n - 1
    BY <1>1, <2>1, GoesIs
  <2>3. ~Fprintf("parent")
    BY <1>1, <1>5, HelloCalls DEF Fprintf, Calls
  <2>4. Left("child") >= 3 => n = 4
    BY <1>1, <1>5 DEF Signalled
  <2> QED
    BY <1>1, <1>2, <1>5, <2>1, <2>2, <2>3, <2>4 DEF Signalled
<1>6. CASE n = 3 /\ Read("parent")
  <2>1. Head(code["parent"]).call = "read" /\ Head(code["parent"]).file = "pipe1"
    BY <1>1, <1>6, HelloCalls
  <2>2. code["parent"] # << >> /\ Return("parent")
    BY <1>6, <2>1 DEF Read, Calls
  <2>3. Goes("parent", hello_and_goodbye_c)
    BY <1>1, <2>2, ReturnGoes
  <2>4. HasLeft("parent", hello_and_goodbye_c)' /\ Left("parent")' = 2
    BY <1>1, <1>6, <2>3, GoesIs
  <2>5. ~Fprintf("parent")
    BY <2>1 DEF Fprintf, Calls
  <2>6. ~(Left("child") >= 3)
    BY <1>1, <1>6, <2>1, ReadBlocks DEF Signalled
  <2> QED
    BY <1>1, <1>2, <1>6, <2>4, <2>5, <2>6 DEF Signalled
<1>7. CASE n = 2 /\ Fprintf("parent")
  <2>1. code["parent"] # << >> /\ (Return("parent") \/ ReturnError("parent"))
    BY <1>7 DEF Fprintf, Calls
  <2>2. Goes("parent", hello_and_goodbye_c)
    BY <1>1, <2>1, ReturnGoes
  <2>3. HasLeft("parent", hello_and_goodbye_c)' /\ Left("parent")' = 1
    BY <1>1, <1>7, <2>2, GoesIs
  <2>4. ~(Left("child") >= 3)
    BY <1>1, <1>7 DEF Signalled
  <2> QED
    BY <1>1, <1>2, <1>7, <2>3, <2>4 DEF Signalled
<1>8. CASE n = 0 /\ Exit("parent")
  <2>1. HasLeft("parent", hello_and_goodbye_c)' /\ Left("parent")' = 0
    BY <1>1, <1>8, ExitGoes
  <2>2. ~Fprintf("parent")
    BY <1>1, <1>8, HelloAt DEF Fprintf, Calls
  <2>3. ~(Left("child") >= 3)
    BY <1>1, <1>8 DEF Signalled
  <2> QED
    BY <1>1, <1>2, <1>8, <2>1, <2>2, <2>3 DEF Signalled
<1> QED
  BY <1>3, <1>4, <1>5, <1>6, <1>7, <1>8, HelloGoes

LEMMA HelloSteps ==
  ASSUME Types, ParentHas, Greeting, program = "hello_and_goodbye", Step("parent")
  PROVE  Greeting'
<1>1. /\ UNCHANGED <<program, tty>> /\ "parent" \in Processes
      /\ HasLeft("parent", hello_and_goodbye_c)
  BY StepLeaves, ProcessesAre DEF Greeting
<1>2. CASE Fork("parent")
  <2>1. Left("parent") = 5
    <3>1. code["parent"] # << >> /\ Head(code["parent"]).call = "fork"
      BY <1>2 DEF Fork, Calls
    <3>2. Left("parent") \in 1 .. 6
      BY <1>1, <3>1, HelloAt
    <3> QED
      BY <1>1, <3>1, <3>2, HelloCalls
  <2> QED
    BY <1>2, <2>1, HelloForks
<1>3. CASE ~Fork("parent")
  <2> DEFINE c == Head(code["parent"])
  <2>1. /\ HasLeft("parent", hello_and_goodbye_c)' /\ HasLeft("child", greeter)'
        /\ Signalled' /\ Left("parent")' <= Left("parent")
        /\ Fprintf("parent") => Left("parent")' = 1
    BY <1>3, HelloGoesOn
  <2>2. /\ SameBut("parent") /\ Left("parent") \in 0 .. 6 /\ Left("parent")' \in 0 .. 6
    <3>1. SameBut("parent")
      BY <1>3, ParentAlone
    <3>2. Left("parent") \in 0 .. 6 /\ Left("parent")' \in 0 .. 6
      BY <1>1, <2>1, HelloIs DEF HasLeft
    <3> QED
      BY <3>1, <3>2
  <2>3. ASSUME tty PROVE InTurnSaid'
    <3>1. InTurnSaid /\ buffer["parent"]["stdout"] = << >>
      BY <1>1, <2>3 DEF Greeting, InTurnSaid, NothingHeld
    <3>2. /\ buffer'["parent"]["stdout"] = << >>
          /\ \/ contents'["stdout"] = contents["stdout"]
             \/ /\ Fprintf("parent")
                /\ contents'["stdout"] = Append(contents["stdout"], <<"parent", c.line>>)
      BY <1>1, <2>3, <3>1, TerminalPuts
    <3>3. NothingHeld'
      BY <2>2, <3>1, <3>2 DEF InTurnSaid, NothingHeld, SameBut, Same
    <3>4. CASE contents'["stdout"] = contents["stdout"]
      <4>1. (Said("goodbye")' <=> Said("goodbye")) /\ HelloFirst'
        BY <3>1, <3>4 DEF InTurnSaid, Said, HelloFirst
      <4> QED
        BY <2>1, <2>2, <3>1, <3>3, <4>1 DEF InTurnSaid
    <3>5. CASE /\ Fprintf("parent")
               /\ contents'["stdout"] = Append(contents["stdout"], <<"parent", c.line>>)
      <4>1. c.line = "goodbye"
        <5>1. code["parent"] # << >> /\ c.call = "fprintf"
          BY <3>5 DEF Fprintf, Calls
        <5>2. Left("parent") \in 1 .. 6
          BY <1>1, <5>1, HelloAt
        <5> QED
          BY <1>1, <5>1, <5>2, HelloCalls
      <4>2. /\ "goodbye" \in Texts /\ "goodbye" # "hello"
            /\ contents'["stdout"] = Append(contents["stdout"], <<"parent", "goodbye">>)
        BY <3>5, <4>1, TextsAre
      <4>3. HelloFirst'
        BY <1>1, <3>1, <4>2, SaysMore DEF InTurnSaid
      <4> QED
        BY <2>1, <3>3, <3>5, <4>3 DEF InTurnSaid
    <3> QED
      BY <3>2, <3>4, <3>5
  <2> QED
    BY <1>1, <2>1, <2>3 DEF Greeting
<1> QED
  BY <1>2, <1>3

LEMMA GreetingStays ==
  ASSUME Types, ParentHas, ChildrenPlain, Greeting, NEW p \in Processes, Step(p)
  PROVE  Greeting'
<1>1. status[p] = "running" /\ UNCHANGED program
  BY StepLeaves
<1>2. CASE program = "hello_and_goodbye"
  <2>1. p # "reader"
    BY <1>1, <1>2 DEF ChildrenPlain
  <2> QED
    BY <1>2, <2>1, GreeterSteps, HelloSteps DEF Processes
<1>3. CASE program # "hello_and_goodbye"
  BY <1>1, <1>3 DEF Greeting
<1> QED
  BY <1>2, <1>3

LEMMA GreetingStarts == Init => Greeting
<1> SUFFICES ASSUME Init, program = "hello_and_goodbye"
             PROVE  /\ HasLeft("parent", hello_and_goodbye_c) /\ HasLeft("child", greeter)
                    /\ Signalled /\ (tty => InTurnSaid)
  BY DEF Greeting
<1>1. HasLeft("parent", hello_and_goodbye_c) /\ Left("parent") = 6
  <2>1. code["parent"] = hello_and_goodbye_c
    BY HelloIs, ProcessesAre DEF Init
  <2>2. Rest(hello_and_goodbye_c, 6) = hello_and_goodbye_c /\ Len(hello_and_goodbye_c) = 6
    BY HelloIs, WholeIs
  <2> QED
    BY <2>1, <2>2 DEF HasLeft, Left
<1>2. HasLeft("child", greeter) /\ Left("child") = 0
  <2>1. code["child"] = << >> /\ Rest(greeter, 0) = << >> /\ Len(<< >>) = 0
    BY ProcessesAre, GreeterIs, RestIs DEF Init
  <2> QED
    BY <2>1, GreeterIs DEF HasLeft, Left
<1>3. contents["pipe1"] = << >> /\ contents["stdout"] = << >> /\ status["child"] = "none"
  BY FilesAre, ProcessesAre DEF Init
<1>4. \A p \in Processes : buffer[p]["stdout"] = << >>
  BY FilesAre DEF Init, NothingBuffered
<1>5. Signalled
  BY <1>1, <1>2, <1>3 DEF Signalled
<1>6. InTurnSaid
  BY <1>3, <1>4 DEF InTurnSaid, NothingHeld, HelloFirst, Said
<1> QED
  BY <1>1, <1>2, <1>5, <1>6
----------------------------------------------------------------------------
(* The theorems *)

IInv ==
  /\ Types /\ PipesIO /\ Measurement
  /\ ParentHas /\ ChildrenPlain /\ Waited /\ LinesOrdered /\ Greeting

LEMMA OrderStutters ==
  ASSUME ParentHas, ChildrenPlain, Waited, LinesOrdered, Greeting, UNCHANGED vars
  PROVE  ParentHas' /\ ChildrenPlain' /\ Waited' /\ LinesOrdered' /\ Greeting'
<1>1. ParentHas' /\ ChildrenPlain'
  BY DEF vars, ParentHas, HasLeft, Left, ChildrenPlain
<1>2. Waited'
  BY DEF vars, Waited, Left, Done, CallFailed
<1>3. LinesOrdered'
  BY DEF vars, LinesOrdered, Ordered, MayHold, NoMoreForks, AllDone, Left, Done
<1>4. Greeting'
  BY DEF vars, Greeting, HasLeft, Left, Signalled, InTurnSaid, NothingHeld, HelloFirst, Said
<1> QED
  BY <1>1, <1>2, <1>3, <1>4

(* In pipes_io.c what is printed, what the reader has read, what is in the *)
(* pipe and what is not sent yet are always the message, in order, and in  *)
(* measure_context_switch() the two processes take their turns in the four *)
(* states of InTurn and keep the ends of the pipes that these need.  Every *)
(* parent is in its own list of calls, has waited for its children when it *)
(* is behind its wait(), and has put or holds nothing of what comes behind *)
(* it before that.                                                         *)
THEOREM Invariance == Spec => []IInv
<1>1. Init => IInv
  BY InitTypes, PipesIOStarts, MeasurementStarts, ParentsStart, GreetingStarts DEF IInv
<1>2. IInv /\ [Next]_vars => IInv'
  <2> SUFFICES ASSUME IInv, [Next]_vars PROVE IInv'
    OBVIOUS
  <2>1. Types' /\ PipesIO' /\ Measurement'
    BY NextTypes, PipesIOStays, MeasurementStays DEF IInv
  <2>2. CASE UNCHANGED vars
    BY <2>1, <2>2, OrderStutters DEF IInv
  <2>3. ASSUME NEW p \in Processes, Step(p) PROVE IInv'
    <3>1. ParentHas' /\ ChildrenPlain'
      BY <2>3, ParentHasStays, ChildrenPlainStays DEF IInv
    <3>2. Waited'
      BY <2>3, WaitedStays DEF IInv
    <3>3. LinesOrdered'
      BY <2>3, LinesOrderedStay DEF IInv
    <3>4. Greeting'
      BY <2>3, GreetingStays DEF IInv
    <3> QED
      BY <2>1, <3>1, <3>2, <3>3, <3>4 DEF IInv
  <2> QED
    BY <2>2, <2>3 DEF Next, Terminated
<1> QED
  BY <1>1, <1>2, PTL DEF Spec

(* The reader of pipes_io.c prints the message in order and ends with the  *)
(* whole of it only; the parent and the child of os_measurements.c never   *)
(* get out of step, by however many rounds: one byte at most is under way  *)
(* and each read() is answered by a write().                               *)
THEOREM PipesInStepAlways == Spec => []PipesInStep
<1>1. IInv => PipesInStep
  <2> SUFFICES ASSUME IInv PROVE PipesInStep
    OBVIOUS
  <2>1. ASSUME program = "pipes_io"
        PROVE  LET message == [i \in DOMAIN MESSAGE |-> <<"reader", MESSAGE[i]>>]
               IN  /\ IsPrefix(contents["stdout"] \o buffer["reader"]["stdout"], message)
                   /\ status["reader"] \in {"zombie", "gone"} => contents["stdout"] = message
    BY <2>1, MessageInOrder DEF IInv, printed
  <2>2. ASSUME program = "os_measurements", status["child"] # "none"
        PROVE  /\ Len(contents["pipe1"]) + Len(contents["pipe2"]) <= 1
               /\ ReadsLeft("parent") - ReadsLeft("child") \in {0, 1}
    <3>1. InMeasurement
      BY <2>2 DEF IInv, Measurement, InMeasurement
    <3> QED
      BY <2>2, <3>1, MeasurementInStep
  <2> QED
    BY <2>1, <2>2 DEF PipesInStep
<1> QED
  BY <1>1, Invariance, PTL

(* Whatever the programs are cut off at or fail in: what a parent prints   *)
(* behind its wait() follows all that its child printed, in the file that  *)
(* both write too, "goodbye" follows "hello" on a terminal, and a parent   *)
(* that waits leaves no child behind.                                      *)
THEOREM ChildrenFirstAlways == Spec => []ChildrenFirst
<1>1. IInv => ChildrenFirst
  <2> SUFFICES ASSUME IInv PROVE ChildrenFirst
    OBVIOUS
  <2>1. \A f \in Streams : DOMAIN contents[f] = 1 .. Len(contents[f])
    BY DEF IInv, Types, Files, Lines
  <2>2. \A f \in Streams : Sorted(f, contents[f])
    BY DEF IInv, LinesOrdered, Ordered
  <2>3. "stdout" \in Streams /\ "dummy.txt" \in Streams
    BY DEF Streams
  <2>4. Before("stdout", LAMBDA a : a[1] = "child", LAMBDA b : b = <<"parent", "finished">>)
    BY <2>1, <2>2, <2>3 DEF Before, Sorted, IsLate
  <2>5. Before("dummy.txt", LAMBDA a : a[1] = "child", LAMBDA b : b[1] = "parent")
    BY <2>1, <2>2, <2>3 DEF Before, Sorted, IsLate
  <2>6. ASSUME program = "hello_and_goodbye", tty
        PROVE  Before("stdout", LAMBDA a : a[2] = "hello", LAMBDA b : b[2] = "goodbye")
    BY <2>1, <2>3, <2>6 DEF IInv, Greeting, InTurnSaid, HelloFirst, Before
  <2>7. ASSUME status["parent"] = "gone", ~CallFailed, program # "hello_and_goodbye"
        PROVE  Ended
    <3>1. Left("parent") = 0
      BY <2>7, ProcessesAre DEF IInv, Types, Left
    <3>2. \A q \in Children : 0 <= AfterWait(program, q)
      BY <2>7 DEF AfterWait
    <3>3. \A q \in Children : Done(q)
      BY <2>7, <3>1, <3>2 DEF IInv, Waited
    <3> QED
      BY <2>7, <3>3, ProcessesAre DEF Ended, Done
  <2> QED
    BY <2>4, <2>5, <2>6, <2>7 DEF ChildrenFirst
<1> QED
  BY <1>1, Invariance, PTL
=============================================================================
