------------------------------- MODULE MCAta -------------------------------
(***************************************************************************)
(* Three sectors, calls of one or two, and three drives for TLC.           *)
(***************************************************************************)
EXTENDS Ata

\* Prompt drives that may be slow and fail, a strict one that may fail, and a
\* strict one that may be slow.
MCSetting == {[strict |-> FALSE, faults |-> {"timeout", "error"}],
              [strict |-> FALSE, faults |-> {"timeout"}],
              [strict |-> TRUE, faults |-> {"error"}],
              [strict |-> TRUE, faults |-> {"timeout"}]}

\* A strict drive that works.
MCStrict == {[strict |-> TRUE, faults |-> {}]}
=============================================================================
