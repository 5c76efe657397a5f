----------------------------- MODULE MCPersist -----------------------------
(***************************************************************************)
(* A small disk for TLC: two sectors of aliases and one of the filesystem. *)
(* A sector stands for the sum of its bytes; no mixture of images has the  *)
(* sum of another image.                                                   *)
(***************************************************************************)
EXTENDS PersistRefinement

MCSectorCount == [c \in Category |-> IF c = "aliases" THEN 2 ELSE 1]
MCImage == [c \in Category |->
              IF c = "aliases" THEN {<<0, 0>>, <<1, 10>>, <<1, 0>>} ELSE {<<5>>}]
\* A mixture of the first two is an image too: it matters where a stale header
\* can be written, after a timeout.  Where the save list changes, the user makes
\* one image of the aliases, beside the empty one of every boot.
MCChosen(f, c) ==
  CASE f \in {{"timeout"}, {"crash", "error"}} -> MCImage[c]
    [] f \cap {"error", "lost"} # {} -> MCImage[c] \ {<<1, 0>>, <<0, 0>>}
    [] OTHER -> MCImage[c] \ {<<1, 0>>}
MCBlank == [c \in Category |-> IF c = "aliases" THEN <<0, 0>> ELSE <<0>>]
MCDefaultFs == <<5>>
MCChecksum(d) == IF Len(d) = 1 THEN d[1] ELSE d[1] + d[2]

\* Timeouts alone, and power failures with timeouts, with errors that last, and
\* with writes that are lost without a word.
MCFaultModel == {{"timeout"},
                 {"crash", "timeout", "absent"},
                 {"crash", "error", "absent"},
                 {"crash", "error"},
                 {"crash", "lost"}}

\* The save list stands still where the faults alone fill the state space.
MCToggled(f) == IF f = {"crash", "error", "absent"} THEN Category ELSE {}

\* For the run that refutes a comment: one transfer may time out.
MCTimeout == {{"timeout"}}
=============================================================================
