---------------------------- MODULE MCShellRun ----------------------------
(***************************************************************************)
(* Three aliases.  A value is a command, another alias, or a bare          *)
(* "repeat 2"; a user may also give one a value the guard, the table or    *)
(* the trap stumbles on: a command that loads the table, an alias named    *)
(* like a built-in command or like the first word of the answer to the     *)
(* trap.                                                                   *)
(*                                                                         *)
(* "repeat 2" and the name of the alias itself is no value here: what it   *)
(* stands for calls itself without end (RepeatsItself).  The chains that   *)
(* stop nowhere else stop at the guard, so that every line is finite.      *)
(***************************************************************************)
EXTENDS ShellRun

MCAliasName == {"a", "b", "c"}
MCValue == {<<"b">>, <<"c">>, <<"echo">>, <<"repeat", "2">>}

Definitions ==
  {<<"alias", "a", "alu", "1", "0", "/">>, <<"alias", "c", "load">>,
   <<"alias", "echo", "b">>, <<"alias", "actually", "alu", "1", "0", "/">>}
MCTyped ==
  {<<>>, <<"a">>, <<"b", "echo">>, <<"b", "b", "a">>, <<"echo", "a">>,
   <<"repeat", "2", "a">>, <<"repeat", "2", "repeat", "2", "b">>,
   <<"repeat", "3", "a">>, <<"repeat", "2", "alias", "a", "echo">>,
   <<"alu", "0", "a", "/">>, <<"alu", "1", "2", "/">>, <<"alias">>, <<"load">>,
   <<"ddf">>, <<"ddf", "lock">>, Sentence("0"), Sentence("1"),
   <<"repeat", "2">> \o Sentence("1")} \cup Definitions
=============================================================================
