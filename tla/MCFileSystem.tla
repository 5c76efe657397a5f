---------------------------- MODULE MCFileSystem ----------------------------
(***************************************************************************)
(* Small filesystems for TLC.  mkdir takes the name "..", which cd reads   *)
(* as the parent, so that a directory nobody can enter is always possible. *)
(***************************************************************************)
EXTENDS FsRefinement

CONSTANT none

MCName == {"home", "tmp", ".."}
MCFewNames == {"home", "tmp"}
MCSlashName == {}

Relative(components) == [absolute |-> FALSE, components |-> components]
Absolute(components) == [absolute |-> TRUE, components |-> components]

\* cd, cd .., cd home, cd /tmp//home
MCPath == {Relative(<<>>), Relative(<<"..">>), Relative(<<"home">>),
           Absolute(<<"tmp", "", "home">>)}
=============================================================================
