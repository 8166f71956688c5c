--------------------------- MODULE ProcessPrograms ---------------------------
(***************************************************************************)
(* The programs of "Processes" and measure_context_switch() of             *)
(* "os_measurements.c" as lists of the library and system calls they make, *)
(* in the order of the source.  The calls themselves are the actions of    *)
(* UnixProcesses.  A call that fails where the program tests for it goes   *)
(* on with an `onError` branch; pipe(), fork() and fopen() need none,      *)
(* since every program answers their failure alike, by exit(1).  Messages  *)
(* on standard error are kept only where they depend on such a test.       *)
(***************************************************************************)
EXTENDS Integers, Sequences, SequencesExt

CONSTANTS MESSAGE,     \* the lines that the writer of pipes_io.c sends at once
          BUFFER,      \* how many of them one read() of its reader can take
          SIGNAL,      \* the bytes of "green light"
          ITERATIONS   \* the round trips of os_measurements.c

(* A call and what it is applied to. *)
printf(line)      == [call |-> "fprintf", file |-> "stdout", line |-> line]
fprintf(f, line)  == [call |-> "fprintf", file |-> f, line |-> line]
fflush(f)         == [call |-> "fflush", file |-> f]
fopen(f)          == [call |-> "fopen", file |-> f]
fclose(f)         == [call |-> "fclose", file |-> f]
pipe(f)           == [call |-> "pipe", file |-> f]
write(f, bytes)   == [call |-> "write", file |-> f, bytes |-> bytes]
read(f, size)     == [call |-> "read", file |-> f, size |-> size]
close_r(f)        == [call |-> "close", end |-> <<"r", f>>]
close_w(f)        == [call |-> "close", end |-> <<"w", f>>]
fork(child, code) == [call |-> "fork", child |-> child, code |-> code]
waitpid(children) == [call |-> "wait", children |-> children]
execl(code)       == [call |-> "exec", code |-> code]
onError(code)     == [call |-> "onError", code |-> code]
whileRead(f, size) == [call |-> "whileRead", file |-> f, size |-> size]

Processes == {"parent", "child", "reader"}
wait == waitpid(Processes)

(* fork.c *)
fork_c ==
  << printf("before_fork"),
     fork("child", << printf("initial"), printf("changed") >>),
     printf("changed"), wait, printf("finished") >>

(* wait_example.c: the child's wait() fails, for it has no children. *)
wait_example_c ==
  << printf("before_fork"),
     fork("child", << printf("executing"), printf("trying"), wait,
                      onError(<< fprintf("stderr", "wait_failed") >>),
                      printf("exiting") >>),
     printf("waiting"), wait, printf("finished") >>

waitpid_example_c ==
  << printf("before_fork"),
     fork("child", << printf("executing"), printf("exiting") >>),
     printf("waiting"), waitpid({"child"}), printf("finished") >>

(* Faulty: the lines are not flushed before the descriptor is closed. *)
close_stdout_c_NoFlush ==
  << fork("child", << printf("should_appear"), printf("now_closing"),
                      close_w("stdout"), printf("should_not_appear"),
                      onError(<< fprintf("stderr", "printf_failed") >>) >>),
     printf("created_child"), wait, printf("finished") >>

close_stdout_c ==
  << fork("child", << printf("should_appear"), printf("now_closing"), fflush("stdout"),
                      close_w("stdout"), printf("should_not_appear"),
                      onError(<< fprintf("stderr", "printf_failed") >>) >>),
     printf("created_child"), wait, printf("finished") >>

(* Faulty: the parent closes its stream before it waits. *)
open_file_and_fork_c_NoWait ==
  << fopen("dummy.txt"), printf("opened"), fflush("stdout"),
     fork("child", << printf("inherited"), fprintf("dummy.txt", "line"),
                      printf("wrote"), fclose("dummy.txt") >>),
     fprintf("dummy.txt", "line"), printf("wrote"), fclose("dummy.txt"),
     wait, printf("finished"), printf("final_check") >>

open_file_and_fork_c ==
  << fopen("dummy.txt"), printf("opened"), fflush("stdout"),
     fork("child", << printf("inherited"), fprintf("dummy.txt", "line"),
                      printf("wrote"), fclose("dummy.txt") >>),
     fprintf("dummy.txt", "line"), printf("wrote"),
     wait, printf("finished"), fclose("dummy.txt"), printf("final_check") >>

(* hello_and_goodbye.c: no wait(), and the result of read() is ignored. *)
hello_and_goodbye_c ==
  << pipe("pipe1"),
     fork("child", << close_r("pipe1"), printf("hello"),
                      write("pipe1", SIGNAL), close_w("pipe1") >>),
     close_w("pipe1"), read("pipe1", 1), printf("goodbye"), close_r("pipe1") >>

(* Faulty: the parent keeps its copy of the write end. *)
pipes_io_c_ParentKeepsEnd ==
  << pipe("pipe1"),
     fork("child", << close_r("pipe1"), write("pipe1", MESSAGE), close_w("pipe1") >>),
     fork("reader", << close_w("pipe1"), whileRead("pipe1", BUFFER), close_r("pipe1") >>),
     close_r("pipe1"), waitpid({"child"}), waitpid({"reader"}) >>

(* pipes_io.c; the "child" is its writer. *)
pipes_io_c ==
  << pipe("pipe1"),
     fork("child", << close_r("pipe1"), write("pipe1", MESSAGE), close_w("pipe1") >>),
     fork("reader", << close_w("pipe1"), whileRead("pipe1", BUFFER), close_r("pipe1") >>),
     close_r("pipe1"), close_w("pipe1"), waitpid({"child"}), waitpid({"reader"}) >>

(* exec_variants.c: an unknown variant goes the way of an exec that fails. *)
exec_variants_c ==
  << fork("child", << printf("executing"), execl(<< printf("listing") >>),
                      onError(<< fprintf("stderr", "exec_failed") >>) >>),
     wait, printf("finished") >>

(* The calls of a loop that goes ITERATIONS times through its body. *)
Rounds(body) == [i \in 1 .. ITERATIONS * Len(body) |-> body[((i - 1) % Len(body)) + 1]]

(* Faulty: the child answers before it has been signalled. *)
measure_context_switch_AnswersFirst ==
  << pipe("pipe1"), pipe("pipe2"),
     fork("child", << close_w("pipe1"), close_r("pipe2") >>
                   \o Rounds(<< write("pipe2", <<"p">>), read("pipe1", 1) >>)),
     close_r("pipe1"), close_w("pipe2"), printf("measuring") >>
  \o Rounds(<< write("pipe1", <<"p">>), read("pipe2", 1) >>)
  \o << wait, printf("finished") >>

(* Faulty: the child closes the ends that the parent is to close. *)
measure_context_switch_ClosesAsParent ==
  << pipe("pipe1"), pipe("pipe2"),
     fork("child", << close_r("pipe1"), close_w("pipe2") >>
                   \o Rounds(<< read("pipe1", 1), write("pipe2", <<"p">>) >>)),
     close_r("pipe1"), close_w("pipe2"), printf("measuring") >>
  \o Rounds(<< write("pipe1", <<"p">>), read("pipe2", 1) >>)
  \o << wait, printf("finished") >>

(* measure_context_switch(); its clock and its CPU affinity are left out. *)
measure_context_switch ==
  << pipe("pipe1"), pipe("pipe2"),
     fork("child", << close_w("pipe1"), close_r("pipe2") >>
                   \o Rounds(<< read("pipe1", 1), write("pipe2", <<"p">>) >>)),
     close_r("pipe1"), close_w("pipe2"), printf("measuring") >>
  \o Rounds(<< write("pipe1", <<"p">>), read("pipe2", 1) >>)
  \o << wait, printf("finished") >>

(* Each program's main(). *)
Programs ==
  [ fork |-> fork_c, wait_example |-> wait_example_c, waitpid_example |-> waitpid_example_c,
    close_stdout |-> close_stdout_c, open_file_and_fork |-> open_file_and_fork_c,
    hello_and_goodbye |-> hello_and_goodbye_c, pipes_io |-> pipes_io_c,
    exec_variants |-> exec_variants_c, os_measurements |-> measure_context_switch ]
=============================================================================
