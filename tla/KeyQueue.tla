------------------------------ MODULE KeyQueue ------------------------------
(***************************************************************************)
(* What the keyboard driver promises the shell: a queue of at most         *)
(* Capacity characters, each read once and in the order they were typed.   *)
(* (Which keys become characters is said in module Keyboard.)              *)
(***************************************************************************)
EXTENDS Naturals, Sequences

CONSTANTS Char, Capacity, none

VARIABLES
  queue,  \* typed and not yet taken
  last    \* the character a reader holds, none while there is no such reader

vars == <<queue, last>>

Init == queue = <<>> /\ last = none

Type(c) == Len(queue) < Capacity /\ queue' = Append(queue, c) /\ last' = last

Take == queue # <<>> /\ last' = Head(queue) /\ queue' = Tail(queue)

Release == last' = none /\ queue' = queue

Next == (\E c \in Char : Type(c)) \/ Take \/ Release

Spec == Init /\ [][Next]_vars
=============================================================================
