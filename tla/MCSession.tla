----------------------------- MODULE MCSession -----------------------------
(***************************************************************************)
(* Lines of two characters on screens of a few cells, two windows with two *)
(* places on each axis.                                                    *)
(***************************************************************************)
EXTENDS Session

MCUserInk == {"BLUE on BLACK"}
MCLetters == {"1", "2"}
MCCommandNames == <<<<"1", "2">>, <<"2", "1", "1">>>>
MCPrompt == <<">">>
MCStart == [w \in 0 .. 1 |-> [x |-> 4, y |-> 4]]
=============================================================================
