----------------------------- MODULE LinkedList -----------------------------
(***************************************************************************)
(* list.c and list.h of "Scheduler Programming Assignment": a linked list  *)
(* is the sequence of what its nodes hold, from the head on.  What they    *)
(* hold are tasks, known by the numbers of their lines in the input file.  *)
(***************************************************************************)
EXTENDS Integers, Sequences, SequencesExt

NULL == 0

insert(list, t) == <<t>> \o list

(* delete() takes out the first task of the same name. *)
delete(list, t, lines) ==
  RemoveFirstMatch(list, LAMBDA u : lines[u].name = lines[t].name)

(* node->next, for the node that holds t. *)
next(list, t) ==
  LET i == CHOOSE i \in DOMAIN list : list[i] = t
  IN  IF i < Len(list) THEN list[i + 1] ELSE NULL

head(list) == IF list = << >> THEN NULL ELSE list[1]
=============================================================================
