-------------------------- MODULE MCUnixProcesses --------------------------
(* The message and the signal of UnixProcesses.cfg. *)
EXTENDS UnixProcesses

ThreeLines == << "Hello", "This data", "Have a nice day" >>
TwoBytes   == << "g", "r" >>
=============================================================================
