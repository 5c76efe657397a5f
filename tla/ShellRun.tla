------------------------------ MODULE ShellRun ------------------------------
(***************************************************************************)
(* shell/shell.c, run(): how a line becomes commands.  A line is looked up *)
(* among the built-in commands, then in the alias table; an alias and the  *)
(* repeat command call run() again.  A step is one call of run() up to the *)
(* next call it makes, or one return, so that the stack of calls and the   *)
(* counter run_depth can be told apart.                                    *)
(*                                                                         *)
(* A line is the sequence of its words.  The lengths of words and lines    *)
(* are left out, and so is the save that ends the alias command (module    *)
(* Persist).                                                               *)
(***************************************************************************)
EXTENDS Integers, Sequences, FiniteSets

CONSTANTS
  ALIAS_MAX,   \* entries of the alias table, 16 in the code
  MaxDepth,    \* of run_depth before it is taken for a loop, 8 in the code
  CountMax,    \* the largest count of repeat, 100 in the code
  AliasName,   \* names a user gives to aliases
  Value,       \* what they stand for
  Typed,       \* other lines a user types
  LowMax,      \* bound: no line is typed once run_depth is below -LowMax
  none         \* no line

\* "echo" stands for every command that leaves the variables below alone.
Builtin == {"echo", "alu", "repeat", "alias", "load"}
Number == {"0", "1", "2", "3"}
Word == Builtin \cup Number \cup AliasName
        \cup {"ddf", "lock", "/", "actually", "divided", "by", "is",
              "undefined", "indeterminate"}
Line == Seq(Word)

ASSUME SizeAssumption == /\ ALIAS_MAX \in Nat /\ MaxDepth \in Nat
                         /\ CountMax \in Nat /\ LowMax \in Nat
ASSUME NameAssumption == IsFiniteSet(AliasName) /\ "actually" \notin AliasName
ASSUME ValueAssumption == Value \subseteq Line \ {<<>>}
ASSUME TypedAssumption == Typed \subseteq Line
ASSUME NoneAssumption == none \notin Line

\* Two messages that answer a line no command runs for.
Unlocked == <<"D/D/F", "mode", "unlocked">>
LoopError == <<"alias", "loop", "detected">>

VARIABLES
  alias_table,         \* name -> value
  run_depth,
  input,               \* the argument of the call of run() about to start
  stack,               \* the calls of run() and cmd_repeat() that wait
  ddf_waiting_secret,
  ddf_last_numerator,
  ddf_unlocked,
  expected,            \* history: what the typed line should still run
  as_written,          \* history: has it run that and nothing else so far?
  simple,              \* history: is it one no table of aliases can upset?
  settled              \* history: does its meaning depend on no limit?

ddf_vars == <<ddf_waiting_secret, ddf_last_numerator, ddf_unlocked>>
history_vars == <<expected, as_written, simple, settled>>
vars == <<alias_table, run_depth, input, stack, ddf_vars, history_vars>>

\* run() waits for the expansion of an alias; cmd_repeat() has left more
\* calls to make with line.
Frame == [kind : {"alias"}] \cup
         [kind : {"repeat"}, line : Line, left : 0 .. CountMax]

TypeOK ==
  /\ DOMAIN alias_table \subseteq Word
  /\ Cardinality(DOMAIN alias_table) <= ALIAS_MAX
  /\ \A name \in DOMAIN alias_table : alias_table[name] \in Line \ {<<>>}
  /\ run_depth \in Int /\ run_depth <= MaxDepth + 1
  /\ input \in Line \cup {none}
  /\ stack \in Seq(Frame)
  /\ ddf_waiting_secret \in BOOLEAN
  /\ ddf_last_numerator \in Number
  /\ ddf_unlocked \in BOOLEAN
  /\ expected \in Seq(Line \cup {Unlocked, LoopError})
  /\ as_written \in BOOLEAN
  /\ simple \in BOOLEAN
  /\ settled \in BOOLEAN

Init ==
  /\ alias_table = <<>>
  /\ run_depth = 0
  /\ input = none /\ stack = <<>>
  /\ ddf_waiting_secret = FALSE /\ ddf_last_numerator = "0"
  /\ ddf_unlocked = FALSE
  /\ expected = <<>> /\ as_written = TRUE
  /\ simple = TRUE /\ settled = TRUE

-----------------------------------------------------------------------------
(* Lines. *)

\* str_to_int(): what is not a number counts as 0.
IntOf(word) ==
  CASE word = "1" -> 1 [] word = "2" -> 2 [] word = "3" -> 3 [] OTHER -> 0

\* repeat n cmd, with a command to repeat and a count in range.
Repeats(line) == /\ Head(line) = "repeat"
                 /\ Len(line) >= 3
                 /\ IntOf(line[2]) \in 1 .. CountMax
Repeated(line) == SubSeq(line, 3, Len(line))

\* What int_to_str() makes of the number str_to_int() reads from a word.
Numeral(word) == IF word \in Number THEN word ELSE "0"

DividesByZero(line) ==
  /\ Head(line) = "alu" /\ Len(line) >= 4
  /\ Numeral(line[3]) = "0" /\ line[4] = "/"

\* The sentence that answers a division of n by zero.
Sentence(n) ==
  <<"actually", n, "divided", "by", "0", "is",
    IF n = "0" THEN "indeterminate" ELSE "undefined">>

IsAlias(table, word) == word \in DOMAIN table \ (Builtin \cup {"ddf"})

Times(n, commands) ==
  [i \in 1 .. n * Len(commands) |-> commands[((i - 1) % Len(commands)) + 1]]

\* What a line means, by its words and the table alone: the commands it runs, in
\* order, when n more aliases may be expanded.
Answer(table, runs, n, line) ==
  CASE line = <<>> -> <<>>
    [] line # <<>> /\ Repeats(line) ->
         Times(IntOf(line[2]), runs[<<n, Repeated(line)>>])
    [] line # <<>> /\ ~Repeats(line) /\ IsAlias(table, Head(line)) ->
         IF n = 0 THEN <<LoopError>>
         ELSE runs[<<n - 1, table[Head(line)] \o Tail(line)>>]
    [] OTHER -> <<line>>

Runs(table) ==
  LET runs[call \in Nat \X Line] == Answer(table, runs, call[1], call[2]) IN runs

Meaning(line) == Runs(alias_table)[<<MaxDepth + 1, line>>]

\* No command changes the table while the line goes on.
Lasting(commands) ==
  \/ Len(commands) = 1
  \/ \A i \in DOMAIN commands :
       commands[i] = LoopError \/ Head(commands[i]) \notin {"alias", "load"}

\* No loop either.
Undisturbed(commands) ==
  /\ \A i \in DOMAIN commands : commands[i] # LoopError
  /\ Lasting(commands)

\* As many expansions as a call of the line can ever have left: a loop puts
\* run_depth back by MaxDepth + 1.
Furthest(line) == (MaxDepth + 1) * (1 + Len(Meaning(line))) - run_depth

\* The line changes no alias it still needs, its meaning is the same however many
\* expansions the guard leaves it, and none of them answers the trap.
Settled(line) ==
  /\ Runs(alias_table)[<<Furthest(line), line>>] = Meaning(line)
  /\ Lasting(Meaning(line))
  /\ ~IsAlias(alias_table, "actually")

-----------------------------------------------------------------------------
(* Typing a line. *)

Idle == input = none /\ stack = <<>>

TypeLine(line) ==
  /\ Idle /\ run_depth >= -LowMax
  /\ input' = line
  /\ expected' = IF ddf_waiting_secret /\ line = Sentence(ddf_last_numerator)
                 THEN <<Unlocked>> ELSE Meaning(line)
  /\ as_written' = TRUE
  /\ simple' = (Undisturbed(expected') /\ ~IsAlias(alias_table, "actually"))
  /\ settled' = Settled(line)
  /\ UNCHANGED <<alias_table, run_depth, stack, ddf_vars>>

\* What a load may put in the table (module Persist says what it does): a table
\* saved earlier, or none.
SavedTable ==
  {table \in UNION {[names -> Value] : names \in SUBSET AliasName} :
     Cardinality(DOMAIN table) <= ALIAS_MAX}

Reboot ==
  /\ Idle
  /\ alias_table' \in SavedTable
  /\ run_depth' = 0
  /\ ddf_waiting_secret' = FALSE /\ ddf_last_numerator' = "0"
  /\ ddf_unlocked' = FALSE
  /\ UNCHANGED <<input, stack, history_vars>>

-----------------------------------------------------------------------------
(* run(). *)

\* History: something visible has been run.
Ran(what) ==
  /\ as_written' = (as_written /\ expected # <<>> /\ Head(expected) = what)
  /\ expected' = IF expected = <<>> THEN <<>> ELSE Tail(expected)
  /\ UNCHANGED <<simple, settled>>

Return == input' = none /\ stack' = stack

\* A line of blanks returns before it looks at the trap.
RunBlank ==
  /\ input = <<>>
  /\ Return
  /\ UNCHANGED <<alias_table, run_depth, ddf_vars, history_vars>>

\* ddf_try_secret() disarms the trap; this line answers it.
Answers == ddf_waiting_secret /\ input = Sentence(ddf_last_numerator)

RunSecret ==
  /\ input \notin {none, <<>>} /\ Answers
  /\ ddf_unlocked' = TRUE
  /\ ddf_waiting_secret' = FALSE
  /\ Ran(Unlocked) /\ Return
  /\ UNCHANGED <<alias_table, run_depth, ddf_last_numerator>>

\* Every other line is looked up, and the trap is disarmed.
LookedUp == input \notin {none, <<>>} /\ ~Answers
Disarm == /\ ddf_waiting_secret' = FALSE
          /\ UNCHANGED <<ddf_last_numerator, ddf_unlocked>>

\* A command without an effect here, an unknown one, or repeat with bad
\* arguments.
RunPlain ==
  /\ LookedUp
  /\ \/ Head(input) = "echo"
     \/ Head(input) = "alu" /\ ~DividesByZero(input)
     \/ Head(input) = "repeat" /\ ~Repeats(input)
     \/ Head(input) = "alias" /\ Len(input) < 3
     \/ Head(input) = "ddf" /\ ~(ddf_unlocked /\ input = <<"ddf", "lock">>)
     \/ Head(input) \notin Builtin \cup {"ddf"} \cup DOMAIN alias_table
  /\ Disarm /\ Ran(input) /\ Return
  /\ UNCHANGED <<alias_table, run_depth>>

RunAlu ==
  /\ LookedUp /\ DividesByZero(input)
  /\ ddf_waiting_secret' = TRUE
  /\ ddf_last_numerator' = Numeral(input[2])
  /\ Ran(input) /\ Return
  /\ UNCHANGED <<alias_table, run_depth, ddf_unlocked>>

RunDdfLock ==
  /\ LookedUp /\ ddf_unlocked /\ input = <<"ddf", "lock">>
  /\ ddf_unlocked' = FALSE /\ ddf_waiting_secret' = FALSE
  /\ Ran(input) /\ Return
  /\ UNCHANGED <<alias_table, run_depth, ddf_last_numerator>>

\* Mutant: the table is full one entry late.
HasRoomLate(name) ==
  name \in DOMAIN alias_table \/ Cardinality(DOMAIN alias_table) <= ALIAS_MAX

HasRoom(name) ==
  name \in DOMAIN alias_table \/ Cardinality(DOMAIN alias_table) < ALIAS_MAX

RunAlias ==
  /\ LookedUp /\ Head(input) = "alias" /\ Len(input) >= 3
  /\ LET name == input[2]
         value == SubSeq(input, 3, Len(input))
     IN alias_table' = IF HasRoom(name)
                       THEN [n \in DOMAIN alias_table \cup {name} |->
                               IF n = name THEN value ELSE alias_table[n]]
                       ELSE alias_table
  /\ Disarm /\ Ran(input) /\ Return
  /\ UNCHANGED run_depth

\* A load that fails leaves the table as it is.
RunLoad ==
  /\ LookedUp /\ Head(input) = "load"
  /\ alias_table' \in SavedTable \cup {alias_table}
  /\ Disarm /\ Ran(input) /\ Return
  /\ UNCHANGED run_depth

\* cmd_repeat() makes its first call.
RunRepeat ==
  /\ LookedUp /\ Repeats(input)
  /\ stack' = Append(stack, [kind |-> "repeat", line |-> Repeated(input),
                             left |-> IntOf(input[2]) - 1])
  /\ input' = Repeated(input)
  /\ Disarm
  /\ UNCHANGED <<alias_table, run_depth, history_vars>>

\* The alias is expanded, with the arguments after it.
Expand ==
  /\ LookedUp /\ IsAlias(alias_table, Head(input)) /\ run_depth <= MaxDepth
  /\ stack' = Append(stack, [kind |-> "alias"])
  /\ run_depth' = run_depth + 1
  /\ input' = alias_table[Head(input)] \o Tail(input)
  /\ Disarm
  /\ UNCHANGED <<alias_table, history_vars>>

\* The guard forgets how deep it is, and the calls that return from here
\* count down from 0.
LoopDetected ==
  /\ LookedUp /\ IsAlias(alias_table, Head(input)) /\ run_depth > MaxDepth
  /\ run_depth' = 0
  /\ Disarm /\ Ran(LoopError) /\ Return
  /\ UNCHANGED alias_table

-----------------------------------------------------------------------------
(* Returning into the calls on the stack. *)

Returning(kind) == input = none /\ stack # <<>> /\ stack[Len(stack)].kind = kind
Pop == SubSeq(stack, 1, Len(stack) - 1)

\* Mutant: the counter stays up.
FromAliasUncounted ==
  /\ Returning("alias")
  /\ stack' = Pop
  /\ UNCHANGED <<alias_table, run_depth, input, ddf_vars, history_vars>>

FromAlias ==
  /\ Returning("alias")
  /\ stack' = Pop
  /\ run_depth' = run_depth - 1
  /\ UNCHANGED <<alias_table, input, ddf_vars, history_vars>>

\* Mutant: one call too few.
FromRepeatEarly ==
  /\ Returning("repeat")
  /\ stack' = Pop
  /\ UNCHANGED <<alias_table, run_depth, input, ddf_vars, history_vars>>

\* Mutant: the calls are not counted.
FromRepeatForever ==
  /\ Returning("repeat")
  /\ input' = stack[Len(stack)].line /\ stack' = stack
  /\ UNCHANGED <<alias_table, run_depth, ddf_vars, history_vars>>

FromRepeat ==
  /\ Returning("repeat")
  /\ LET top == stack[Len(stack)]
     IN IF top.left = 0
        THEN stack' = Pop /\ input' = none
        ELSE /\ stack' = Append(Pop, [top EXCEPT !.left = @ - 1])
             /\ input' = top.line
  /\ UNCHANGED <<alias_table, run_depth, ddf_vars, history_vars>>

Step ==
  \/ RunBlank \/ RunSecret \/ RunPlain \/ RunAlu \/ RunDdfLock \/ RunAlias
  \/ RunLoad \/ RunRepeat \/ Expand \/ LoopDetected
  \/ FromAlias \/ FromRepeat

Next ==
  \/ \E line \in Typed : TypeLine(line)
  \/ \E name \in AliasName, v \in Value : TypeLine(<<"alias", name>> \o v)
  \/ Reboot
  \/ Step

Spec == Init /\ [][Next]_vars

\* The shell is the only thread: a line that runs goes on running.
FairSpec == Spec /\ WF_vars(Step)

-----------------------------------------------------------------------------
(* Properties. *)

Faithful == as_written /\ (Idle => expected = <<>>)

\* A line that changes no alias it still needs, and whose chains of aliases end
\* within the guard's limit or are loops, runs exactly the commands it means, in
\* order: repeat as often as it says, aliases with their arguments, built-in
\* commands before aliases of the same name, one error for each loop; whatever
\* earlier lines, and the loops of this one, have done to run_depth and the trap.
\* Nothing is said of a longer chain, which is an error at first and goes on to
\* its end after a loop (GuardBoundsRecursion), nor while "actually" is an alias,
\* whose expansion the trap may take for the answer to it.
LineRunsAsWritten == settled => Faithful

\* A line whose meaning has no loop, and changes no alias it still needs, runs as
\* it is written however deep run_depth has sunk, unless "actually" is an alias.
SimpleLinesRunAsWritten == simple => Faithful

Expansions == Cardinality({i \in 1 .. Len(stack) : stack[i].kind = "alias"})

\* The guard never takes a chain of aliases for a loop too early: run_depth
\* never exceeds the number of expansions that wait, and is back at or below 0
\* at the prompt.
GuardNeverEarly == run_depth <= Expansions

\* The aliases that a name leads to, by any number of expansions.
Named(table, name) ==
  {word \in {table[name][i] : i \in DOMAIN table[name]} : IsAlias(table, word)}
After(table, name) ==
  {word \in DOMAIN table : \A s \in SUBSET DOMAIN table :
     /\ Named(table, name) \subseteq s
     /\ \A other \in s : Named(table, other) \subseteq s
     => word \in s}

\* An alias comes back to itself and repeats something on the way: the error
\* message of each loop clears run_depth for the next repetition, so that it may
\* expand itself without end.
RepeatsItself(table) ==
  \E name \in DOMAIN table : \E other \in After(table, name) :
     /\ name \in After(table, name)
     /\ \E i \in DOMAIN table[other] : table[other][i] = "repeat"

\* Every line ends, a loop of aliases too, whatever run_depth has become; but for
\* a line that changes the table of aliases for ever, and for a table with an
\* alias that repeats itself, like a for "repeat 2 a".
EveryLineEnds ==
  \/ []<>Idle
  \/ []<><<Step>>_alias_table
  \/ <>[]RepeatsItself(alias_table)

-----------------------------------------------------------------------------
(* A statement of a comment that the code does not keep. *)

\* shell.c: run_depth is the "recursion guard for alias loops".  After one
\* loop has been detected the next one is expanded twice as deep.
GuardBoundsRecursion == Expansions <= MaxDepth + 1
=============================================================================
