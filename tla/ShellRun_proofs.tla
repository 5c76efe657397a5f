--------------------------- MODULE ShellRun_proofs ---------------------------
(***************************************************************************)
(* run() for every depth, table, set of lines and count of repeat: its     *)
(* loop guard never cuts a chain of aliases too short, and a line without  *)
(* loops runs what it means.                                               *)
(*                                                                         *)
(* GuardNeverEarly counts frames of the stack; it is inductive once the    *)
(* stack is known to be a sequence of frames, which needs the types of the *)
(* lines that are put on it.  What a line means is a recursion over lines; *)
(* RunsUnfolds shows that it has a value, by the first call for which it   *)
(* had none.  The invariant of simple lines then follows the calls that    *)
(* wait from the first up, each with the repetitions it still owes.        *)
(***************************************************************************)
EXTENDS ShellRun, FiniteSetTheorems, SequenceTheorems, WellFoundedInduction, TLAPS

\* The places of the calls that wait for an alias.
AliasCalls(s) == {i \in 1 .. Len(s) : s[i].kind = "alias"}

\* What the control of run() is: the part of TypeOK without its histories.
ControlOK ==
  /\ \A name \in DOMAIN alias_table : alias_table[name] \in Line
  /\ input \in Line \cup {none}
  /\ stack \in Seq(Frame)
  /\ run_depth \in Int

GuardInv == ControlOK /\ GuardNeverEarly

-----------------------------------------------------------------------------
(* The stack. *)

\* The calls that wait are finitely many.
LEMMA CallsFinite ==
  ASSUME NEW s \in Seq(Frame)
  PROVE  IsFiniteSet(AliasCalls(s)) /\ Cardinality(AliasCalls(s)) \in Nat
<1>1. IsFiniteSet(1 .. Len(s))
  BY FS_Interval
<1>2. AliasCalls(s) \subseteq 1 .. Len(s)
  BY DEF AliasCalls
<1>3. IsFiniteSet(AliasCalls(s))
  BY <1>1, <1>2, FS_Subset
<1> QED BY <1>3, FS_CardinalityType

\* A call that waits for an alias adds one, another call none.
LEMMA CallsPush ==
  ASSUME NEW s \in Seq(Frame), NEW f \in Frame
  PROVE  Cardinality(AliasCalls(Append(s, f)))
           = Cardinality(AliasCalls(s)) + (IF f.kind = "alias" THEN 1 ELSE 0)
<1> DEFINE last == Len(s) + 1
<1>1. /\ Len(s) \in Nat
      /\ Len(Append(s, f)) = last
      /\ \A i \in 1 .. Len(s) : Append(s, f)[i] = s[i]
      /\ Append(s, f)[last] = f
  OBVIOUS
<1>2. last \notin AliasCalls(s)
  BY <1>1 DEF AliasCalls
<1>3. CASE f.kind = "alias"
  <2>1. AliasCalls(Append(s, f)) = AliasCalls(s) \cup {last}
    BY <1>1, <1>3 DEF AliasCalls
  <2> QED BY <2>1, <1>2, <1>3, CallsFinite, FS_AddElement
<1>4. CASE f.kind # "alias"
  <2>1. AliasCalls(Append(s, f)) = AliasCalls(s)
    BY <1>1, <1>4 DEF AliasCalls
  <2> QED BY <2>1, <1>4, CallsFinite
<1> QED BY <1>3, <1>4

\* A call that returns takes away what it has added.
LEMMA CallsPop ==
  ASSUME NEW s \in Seq(Frame), s # <<>>
  PROVE  /\ SubSeq(s, 1, Len(s) - 1) \in Seq(Frame)
         /\ s[Len(s)] \in Frame
         /\ Cardinality(AliasCalls(s))
              = Cardinality(AliasCalls(SubSeq(s, 1, Len(s) - 1)))
                  + (IF s[Len(s)].kind = "alias" THEN 1 ELSE 0)
<1> DEFINE pop == SubSeq(s, 1, Len(s) - 1)
<1>1. Len(s) \in Nat \ {0} /\ s[Len(s)] \in Frame
  BY EmptySeq, ElementOfSeq
<1>2. \A i \in 1 .. Len(s) - 1 : s[i] \in Frame
  BY <1>1, ElementOfSeq
<1>3. pop \in Seq(Frame) /\ Len(pop) = Len(s) - 1
  <2>1. 1 \in Int /\ Len(s) - 1 \in Int /\ Len(s) - 1 >= 0
    BY <1>1
  <2>2. /\ pop \in Seq(Frame)
        /\ Len(pop) = IF 1 <= Len(s) - 1 THEN Len(s) - 1 - 1 + 1 ELSE 0
    <3> DEFINE m == 1
               n == Len(s) - 1
    <3>1. m \in Int /\ n \in Int /\ \A i \in m .. n : s[i] \in Frame
      BY <1>2, <2>1
    <3> HIDE DEF m, n
    <3>2. /\ SubSeq(s, m, n) \in Seq(Frame)
          /\ Len(SubSeq(s, m, n)) = IF m <= n THEN n - m + 1 ELSE 0
      BY <3>1, SubSeqProperties
    <3> QED BY <3>2, Zenon DEF m, n, pop
  <2>3. ASSUME NEW k \in Nat \ {0}
        PROVE  (IF 1 <= k - 1 THEN k - 1 - 1 + 1 ELSE 0) = k - 1
    OBVIOUS
  <2> QED BY <1>1, <2>2, <2>3, Zenon
<1>4. s = Append(pop, s[Len(s)])
  <2>1. Append(pop, s[Len(s)]) \in Seq(Frame)
        /\ Len(Append(pop, s[Len(s)])) = Len(s)
    BY <1>1, <1>3
  <2>2. \A i \in 1 .. Len(s) : Append(pop, s[Len(s)])[i] = s[i]
    BY <1>1, <1>2, <1>3
  <2> QED BY <2>1, <2>2, SeqEqual
<1>5. Cardinality(AliasCalls(Append(pop, s[Len(s)])))
        = Cardinality(AliasCalls(pop))
            + (IF s[Len(s)].kind = "alias" THEN 1 ELSE 0)
  BY <1>1, <1>3, CallsPush
<1> QED BY <1>1, <1>3, <1>4, <1>5

\* What becomes of a line stays a line.
LEMMA LineParts ==
  ASSUME NEW line \in Line, line # <<>>
  PROVE  Tail(line) \in Line /\ SubSeq(line, 3, Len(line)) \in Line
<1>1. Tail(line) \in Line
  BY HeadTailProperties DEF Line
<1>2. Len(line) \in Nat /\ \A i \in 3 .. Len(line) : line[i] \in Word
  BY LenProperties, ElementOfSeq DEF Line
<1>3. SubSeq(line, 3, Len(line)) \in Seq(Word)
  BY <1>2, SubSeqProperties
<1> QED BY <1>1, <1>3 DEF Line

\* What a repetition leaves of a line.
LEMMA RepeatedLength ==
  ASSUME NEW line \in Line, Len(line) >= 3
  PROVE  /\ Repeated(line) \in Line /\ Len(Repeated(line)) = Len(line) - 2
         /\ Repeated(line) # <<>>
<1>1. Len(line) \in Nat /\ \A i \in 3 .. Len(line) : line[i] \in Word
  BY LenProperties, ElementOfSeq DEF Line
<1> DEFINE m == 3
           n == Len(line)
<1>2. m \in Int /\ n \in Int /\ m <= n /\ \A i \in m .. n : line[i] \in Word
  BY <1>1
<1> HIDE DEF m, n
<1>3. /\ SubSeq(line, m, n) \in Seq(Word)
      /\ Len(SubSeq(line, m, n)) = IF m <= n THEN n - m + 1 ELSE 0
  BY <1>2, SubSeqProperties
<1>4. Repeated(line) \in Seq(Word) /\ Len(Repeated(line)) = n - m + 1
  BY <1>2, <1>3 DEF Repeated, m, n
<1>5. n - m + 1 = Len(line) - 2 /\ n - m + 1 # 0
  BY <1>1 DEF m, n
<1>6. Repeated(line) # <<>>
  BY <1>4, <1>5, EmptySeq
<1> QED BY <1>4, <1>5, <1>6 DEF Line

-----------------------------------------------------------------------------
(* The invariant. *)

\* What a load brings is a table of lines.
LEMMA SavedLines ==
  \A table \in SavedTable : \A name \in DOMAIN table : table[name] \in Line
BY ValueAssumption DEF SavedTable

\* At power-on.
LEMMA GuardInit == Init => GuardInv
<1> SUFFICES ASSUME Init PROVE GuardInv
  OBVIOUS
<1>1. ControlOK
  BY DEF Init, ControlOK
<1>2. AliasCalls(stack) = {}
  BY DEF Init, AliasCalls
<1>3. run_depth <= Expansions
  BY <1>2, FS_EmptySet DEF Init, Expansions, AliasCalls
<1> QED BY <1>1, <1>3 DEF GuardInv, GuardNeverEarly

\* One step.
LEMMA GuardNext == GuardInv /\ [Next]_vars => GuardInv'
<1> SUFFICES ASSUME GuardInv, [Next]_vars PROVE GuardInv'
  OBVIOUS
<1> DEFINE calls == Cardinality(AliasCalls(stack))
<1>0. /\ ControlOK /\ run_depth <= calls /\ calls \in Nat
      /\ stack \in Seq(Frame) /\ run_depth \in Int
  BY CallsFinite DEF GuardInv, GuardNeverEarly, Expansions, AliasCalls, ControlOK
<1>1. ASSUME ControlOK', run_depth' <= Cardinality(AliasCalls(stack'))
      PROVE  GuardInv'
  BY <1>1 DEF GuardInv, GuardNeverEarly, Expansions, AliasCalls
<1>2. ASSUME NEW line \in Line, TypeLine(line) PROVE GuardInv'
  <2>1. ControlOK'
    BY <1>0, <1>2 DEF TypeLine, ControlOK
  <2> QED BY <2>1, <1>0, <1>1, <1>2 DEF TypeLine
<1>3. ASSUME NEW line \in Typed, TypeLine(line) PROVE GuardInv'
  BY <1>2, <1>3, TypedAssumption
<1>4. ASSUME NEW name \in AliasName, NEW v \in Value,
             TypeLine(<<"alias", name>> \o v)
      PROVE  GuardInv'
  <2>1. <<"alias", name>> \in Line /\ v \in Line
    BY ValueAssumption DEF Line, Word, Builtin
  <2>2. <<"alias", name>> \o v \in Line
    BY <2>1, ConcatProperties DEF Line
  <2> QED BY <2>2, <1>2, <1>4
<1>5. CASE Reboot
  <2>1. ControlOK'
    BY <1>0, <1>5, SavedLines DEF Reboot, ControlOK
  <2> QED BY <2>1, <1>0, <1>1, <1>5 DEF Reboot
<1>6. CASE RunBlank
  <2>1. ControlOK'
    BY <1>0, <1>6 DEF RunBlank, Return, ControlOK
  <2> QED BY <2>1, <1>0, <1>1, <1>6 DEF RunBlank, Return
<1>7. CASE RunSecret
  <2>1. ControlOK'
    BY <1>0, <1>7 DEF RunSecret, Return, ControlOK
  <2> QED BY <2>1, <1>0, <1>1, <1>7 DEF RunSecret, Return
<1>8. CASE RunPlain
  <2>1. ControlOK'
    BY <1>0, <1>8 DEF RunPlain, Return, ControlOK
  <2> QED BY <2>1, <1>0, <1>1, <1>8 DEF RunPlain, Return
<1>9. CASE RunAlu
  <2>1. ControlOK'
    BY <1>0, <1>9 DEF RunAlu, Return, ControlOK
  <2> QED BY <2>1, <1>0, <1>1, <1>9 DEF RunAlu, Return
<1>10. CASE RunDdfLock
  <2>1. ControlOK'
    BY <1>0, <1>10 DEF RunDdfLock, Return, ControlOK
  <2> QED BY <2>1, <1>0, <1>1, <1>10 DEF RunDdfLock, Return
<1>11. CASE RunAlias
  <2>1. input \in Line /\ input # <<>>
    BY <1>0, <1>11 DEF RunAlias, LookedUp, ControlOK
  <2>2. SubSeq(input, 3, Len(input)) \in Line
    BY <2>1, LineParts
  <2>3. \A name \in DOMAIN alias_table' : alias_table'[name] \in Line
    BY <1>0, <1>11, <2>2 DEF RunAlias, ControlOK
  <2>4. ControlOK'
    BY <1>0, <1>11, <2>3 DEF RunAlias, Return, ControlOK
  <2> QED BY <2>4, <1>0, <1>1, <1>11 DEF RunAlias, Return
<1>12. CASE RunRepeat
  <2> DEFINE f == [kind |-> "repeat", line |-> Repeated(input),
                   left |-> IntOf(input[2]) - 1]
  <2>1. input \in Line /\ input # <<>>
    BY <1>0, <1>12 DEF RunRepeat, LookedUp, ControlOK
  <2>2. Repeated(input) \in Line
    BY <2>1, LineParts DEF Repeated
  <2>3. IntOf(input[2]) - 1 \in 0 .. CountMax
    BY <1>12, SizeAssumption DEF RunRepeat, Repeats
  <2>4. f \in Frame
    BY <2>2, <2>3 DEF Frame
  <2>5. stack' = Append(stack, f)
    BY <1>12 DEF RunRepeat
  <2>6. ControlOK'
    BY <1>0, <1>12, <2>2, <2>4, <2>5 DEF RunRepeat, ControlOK
  <2>7. Cardinality(AliasCalls(stack')) = calls
    BY <1>0, <2>4, <2>5, CallsPush
  <2> QED BY <2>6, <2>7, <1>0, <1>1, <1>12 DEF RunRepeat
<1>13. CASE Expand
  <2> DEFINE f == [kind |-> "alias"]
  <2>1. input \in Line /\ input # <<>>
    BY <1>0, <1>13 DEF Expand, LookedUp, ControlOK
  <2>2. alias_table[Head(input)] \in Line
    BY <1>0, <1>13 DEF Expand, IsAlias, ControlOK
  <2>3. input' \in Line
    BY <2>1, <2>2, <1>13, LineParts, ConcatProperties DEF Expand, Line
  <2>4. f \in Frame
    BY DEF Frame
  <2>5. stack' = Append(stack, f)
    BY <1>13 DEF Expand
  <2>6. stack' \in Seq(Frame)
    BY <1>0, <2>4, <2>5
  <2>9. run_depth' \in Int /\ alias_table' = alias_table
    BY <1>0, <1>13 DEF Expand
  <2>8. ControlOK'
    BY <1>0, <2>3, <2>6, <2>9 DEF ControlOK
  <2>7. Cardinality(AliasCalls(stack')) = calls + 1
    BY <1>0, <2>4, <2>5, CallsPush
  <2> QED BY <2>8, <2>7, <1>0, <1>1, <1>13 DEF Expand
<1>14. CASE LoopDetected
  <2>1. ControlOK'
    BY <1>0, <1>14 DEF LoopDetected, Return, ControlOK
  <2> QED BY <2>1, <1>0, <1>1, <1>14 DEF LoopDetected, Return
<1>15. CASE FromAlias
  <2>1. stack # <<>> /\ stack[Len(stack)].kind = "alias" /\ stack' = Pop
    BY <1>15 DEF FromAlias, Returning
  <2>2. stack' \in Seq(Frame) /\ calls = Cardinality(AliasCalls(stack')) + 1
    <3>1. Pop \in Seq(Frame) /\ calls = Cardinality(AliasCalls(Pop)) + 1
      BY <1>0, <2>1, CallsPop, Zenon DEF Pop
    <3> QED BY <3>1, <2>1
  <2>3. ControlOK'
    BY <1>0, <1>15, <2>2 DEF FromAlias, ControlOK
  <2>4. Cardinality(AliasCalls(stack')) \in Nat
    BY <2>2, CallsFinite
  <2> QED BY <2>2, <2>3, <2>4, <1>0, <1>1, <1>15 DEF FromAlias
<1>16. CASE FromRepeat
  <2> DEFINE top == stack[Len(stack)]
             again == [top EXCEPT !.left = @ - 1]
  <2>1. stack # <<>> /\ top.kind = "repeat"
    BY <1>16 DEF FromRepeat, Returning
  <2>2. Pop \in Seq(Frame) /\ top \in Frame /\ calls = Cardinality(AliasCalls(Pop))
    <3>1. /\ Pop \in Seq(Frame) /\ top \in Frame
          /\ calls = Cardinality(AliasCalls(Pop))
                       + (IF top.kind = "alias" THEN 1 ELSE 0)
      BY <1>0, <2>1, CallsPop, Zenon DEF Pop
    <3>2. Cardinality(AliasCalls(Pop)) \in Nat
      BY <3>1, CallsFinite
    <3> QED BY <3>1, <3>2, <2>1
  <2>3. CASE top.left = 0
    <3>1. stack' = Pop /\ input' = none
      BY <1>16, <2>3 DEF FromRepeat
    <3>2. ControlOK'
      BY <1>0, <1>16, <2>2, <3>1 DEF FromRepeat, ControlOK
    <3> QED BY <2>2, <3>1, <3>2, <1>0, <1>1, <1>16 DEF FromRepeat
  <2>4. CASE top.left # 0
    <3>1. stack' = Append(Pop, again) /\ input' = top.line
      BY <1>16, <2>4 DEF FromRepeat
    <3>2. again \in Frame /\ again.kind = "repeat" /\ top.line \in Line
      BY <2>1, <2>2, <2>4, SizeAssumption DEF Frame
    <3>3. ControlOK'
      BY <1>0, <1>16, <2>2, <3>1, <3>2 DEF FromRepeat, ControlOK
    <3>4. Cardinality(AliasCalls(Append(Pop, again)))
            = Cardinality(AliasCalls(Pop))
                + (IF again.kind = "alias" THEN 1 ELSE 0)
      BY <2>2, <3>2, CallsPush, Zenon
    <3>5. Cardinality(AliasCalls(stack')) = calls
      BY <1>0, <2>2, <3>1, <3>2, <3>4
    <3> QED BY <3>3, <3>5, <1>0, <1>1, <1>16 DEF FromRepeat
  <2> QED BY <2>3, <2>4
<1>17. CASE RunLoad
  <2>1. ControlOK'
    BY <1>0, <1>17, SavedLines DEF RunLoad, Return, ControlOK
  <2> QED BY <2>1, <1>0, <1>1, <1>17 DEF RunLoad, Return
<1>18. CASE UNCHANGED vars
  <2>1. ControlOK'
    BY <1>0, <1>18 DEF vars, ControlOK
  <2> QED BY <2>1, <1>0, <1>1, <1>18 DEF vars
<1> QED
  BY <1>3, <1>4, <1>5, <1>6, <1>7, <1>8, <1>9, <1>10, <1>11, <1>12, <1>13,
     <1>14, <1>15, <1>16, <1>17, <1>18 DEF Next, Step

\* run_depth never exceeds the number of alias expansions that wait (shell.c,
\* lines 86 to 102): an error about a loop is never printed for a line whose
\* aliases are nested less deep than the guard allows, whatever loops came
\* before it and however often repeat has called run().
THEOREM NeverEarly == Spec => []GuardNeverEarly
<1>1. GuardInv => GuardNeverEarly
  BY DEF GuardInv
<1> QED BY <1>1, GuardInit, GuardNext, PTL DEF Spec
-----------------------------------------------------------------------------
(* What a line means: the recursion of Runs has a value for every line.  A *)
(* repetition goes on with a shorter line, an alias with one expansion     *)
(* less, so there is a first call for which anything would go wrong.       *)

Calls == Nat \X Line

\* A table of aliases that stand for something.
TableOK(table) == \A name \in DOMAIN table : table[name] \in Line \ {<<>>}

\* The call of Runs that a call makes.
Needs(table, call) ==
  IF call[2] = <<>> THEN {}
  ELSE IF Repeats(call[2]) THEN {<<call[1], Repeated(call[2])>>}
  ELSE IF IsAlias(table, Head(call[2])) /\ call[1] # 0
  THEN {<<call[1] - 1, table[Head(call[2])] \o Tail(call[2])>>}
  ELSE {}

\* A function that is right wherever it is defined.
Attempt(table, f) ==
  /\ DOMAIN f \subseteq Calls
  /\ \A call \in DOMAIN f : /\ Needs(table, call) \subseteq DOMAIN f
                            /\ f[call] = Answer(table, f, call[1], call[2])

Before(c, d) == c[1] < d[1] \/ (c[1] = d[1] /\ Len(c[2]) < Len(d[2]))

\* A non-empty set of natural numbers has a least element.
LEMMA LeastElement ==
  ASSUME NEW T, T \subseteq Nat, T # {}
  PROVE  \E m \in T : \A j \in T : m <= j
<1>1. PICK m \in T : \A j \in T : ~(<<j, m>> \in OpToRel(<, Nat))
  BY NatLessThanWellFounded, WFMin
<1>2. \A j \in T : ~(j < m)
  BY <1>1 DEF OpToRel
<1> QED BY <1>2

\* A set of calls has a first one.
LEMMA FirstCall ==
  ASSUME NEW S, S \subseteq Calls, S # {}
  PROVE  \E c \in S : \A d \in S : ~Before(d, c)
<1> DEFINE N == {c[1] : c \in S}
<1>1. \A c \in S : c[1] \in Nat /\ c[2] \in Line /\ Len(c[2]) \in Nat
  BY LenProperties DEF Calls, Line
<1>2. PICK n \in N : \A m \in N : n <= m
  <2>1. N \subseteq Nat /\ N # {}
    BY <1>1
  <2> HIDE DEF N
  <2> QED BY <2>1, LeastElement
<1> DEFINE L == {Len(c[2]) : c \in {d \in S : d[1] = n}}
<1>3. PICK l \in L : \A m \in L : l <= m
  <2>1. L \subseteq Nat /\ L # {}
    BY <1>1, <1>2
  <2> HIDE DEF L
  <2> QED BY <2>1, LeastElement
<1>4. PICK c \in S : c[1] = n /\ Len(c[2]) = l
  BY <1>3
<1>5. ASSUME NEW d \in S, Before(d, c) PROVE FALSE
  <2>1. n <= d[1] /\ d[1] \in Nat /\ n \in Nat
    BY <1>1, <1>2, <1>4
  <2>2. d[1] = n /\ Len(d[2]) < l
    BY <1>4, <1>5, <2>1 DEF Before
  <2>3. l <= Len(d[2])
    BY <1>3, <2>2
  <2> QED BY <1>1, <1>4, <2>2, <2>3
<1> QED BY <1>5

\* A call comes after the one it makes.
LEMMA NeedsBefore ==
  ASSUME NEW table, TableOK(table), NEW c \in Calls, NEW d \in Needs(table, c)
  PROVE  d \in Calls /\ Before(d, c)
<1>1. c[1] \in Nat /\ c[2] \in Line /\ c[2] # <<>>
  BY DEF Calls, Needs
<1>2. CASE Repeats(c[2])
  <2>1. d = <<c[1], Repeated(c[2])>>
    BY <1>1, <1>2 DEF Needs
  <2>2. Repeated(c[2]) \in Line
    BY <1>1, LineParts DEF Repeated
  <2>3. Len(Repeated(c[2])) < Len(c[2])
    <3>1. Len(c[2]) \in Nat /\ Len(c[2]) >= 3
      BY <1>1, <1>2, LenProperties DEF Repeats, Line
    <3>2. Len(SubSeq(c[2], 3, Len(c[2]))) = Len(c[2]) - 2
      BY <1>1, <3>1, RepeatedLength DEF Repeated
    <3> QED BY <3>1, <3>2 DEF Repeated
  <2>4. d[1] = c[1] /\ d[2] = Repeated(c[2])
    BY <2>1
  <2>5. Before(d, c)
    BY <2>3, <2>4 DEF Before
  <2> QED BY <1>1, <2>1, <2>2, <2>5 DEF Calls
<1>3. CASE ~Repeats(c[2])
  <2>1. /\ IsAlias(table, Head(c[2])) /\ c[1] # 0
        /\ d = <<c[1] - 1, table[Head(c[2])] \o Tail(c[2])>>
    BY <1>1, <1>3 DEF Needs
  <2>2. table[Head(c[2])] \in Line /\ Tail(c[2]) \in Line
    BY <1>1, <2>1, LineParts DEF IsAlias, TableOK
  <2>3. table[Head(c[2])] \o Tail(c[2]) \in Line
    BY <2>2, ConcatProperties DEF Line
  <2>4. d[1] = c[1] - 1 /\ d[2] = table[Head(c[2])] \o Tail(c[2])
    BY <2>1
  <2>5. c[1] - 1 \in Nat /\ c[1] - 1 < c[1]
    BY <1>1, <2>1
  <2>6. Before(d, c)
    BY <2>4, <2>5 DEF Before
  <2> QED BY <2>1, <2>3, <2>5, <2>6 DEF Calls
<1> QED BY <1>2, <1>3

\* The value depends on that of the call it makes, and on no other.
LEMMA SameAnswer ==
  ASSUME NEW table, NEW f, NEW g, NEW c,
         \A d \in Needs(table, c) : f[d] = g[d]
  PROVE  Answer(table, f, c[1], c[2]) = Answer(table, g, c[1], c[2])
<1>1. CASE c[2] = <<>>
  BY <1>1 DEF Answer
<1>2. CASE c[2] # <<>> /\ Repeats(c[2])
  <2>1. f[<<c[1], Repeated(c[2])>>] = g[<<c[1], Repeated(c[2])>>]
    BY <1>2 DEF Needs
  <2> QED BY <1>2, <2>1 DEF Answer
<1>3. CASE c[2] # <<>> /\ ~Repeats(c[2]) /\ IsAlias(table, Head(c[2]))
  <2>1. CASE c[1] = 0
    BY <1>3, <2>1 DEF Answer
  <2>2. CASE c[1] # 0
    <3> DEFINE d == <<c[1] - 1, table[Head(c[2])] \o Tail(c[2])>>
    <3>1. d \in Needs(table, c)
      BY <1>3, <2>2 DEF Needs
    <3>2. f[d] = g[d]
      BY <3>1
    <3> QED BY <1>3, <2>2, <3>2 DEF Answer
  <2> QED BY <2>1, <2>2
<1>4. CASE c[2] # <<>> /\ ~Repeats(c[2]) /\ ~IsAlias(table, Head(c[2]))
  BY <1>4 DEF Answer
<1> QED BY <1>1, <1>2, <1>3, <1>4

\* Two attempts agree where both are defined.
LEMMA AttemptsAgree ==
  ASSUME NEW table, TableOK(table), NEW f, NEW g, Attempt(table, f), Attempt(table, g)
  PROVE  \A c \in DOMAIN f \cap DOMAIN g : f[c] = g[c]
<1> DEFINE Bad == {c \in DOMAIN f \cap DOMAIN g : f[c] # g[c]}
<1>1. SUFFICES ASSUME Bad # {} PROVE FALSE
  OBVIOUS
<1>2. PICK c \in Bad : \A d \in Bad : ~Before(d, c)
  <2>1. Bad \subseteq Calls
    BY DEF Attempt
  <2> HIDE DEF Bad
  <2> QED BY <1>1, <2>1, FirstCall
<1>3. c \in DOMAIN f /\ c \in DOMAIN g /\ f[c] # g[c] /\ c \in Calls
  BY DEF Attempt
<1>4. ASSUME NEW d \in Needs(table, c) PROVE f[d] = g[d]
  <2>1. d \in DOMAIN f \cap DOMAIN g
    BY <1>3 DEF Attempt
  <2>2. Before(d, c)
    BY <1>3, NeedsBefore
  <2> QED BY <1>2, <2>1, <2>2
<1>5. Answer(table, f, c[1], c[2]) = Answer(table, g, c[1], c[2])
  BY <1>4, SameAnswer
<1> QED BY <1>3, <1>5 DEF Attempt

\* A call makes one call at most.
LEMMA NeedsOne ==
  ASSUME NEW table, NEW c, NEW d \in Needs(table, c), NEW e \in Needs(table, c)
  PROVE  d = e
<1>1. CASE Repeats(c[2])
  BY <1>1 DEF Needs
<1>2. CASE ~Repeats(c[2])
  BY <1>2 DEF Needs
<1> QED BY <1>1, <1>2

\* There is an attempt for every call.
LEMMA EveryCallAttempted ==
  ASSUME NEW table, TableOK(table)
  PROVE  \A c \in Calls : \E f : Attempt(table, f) /\ c \in DOMAIN f
<1> DEFINE Bad == {c \in Calls : ~\E f : Attempt(table, f) /\ c \in DOMAIN f}
<1>1. SUFFICES ASSUME Bad # {} PROVE FALSE
  OBVIOUS
<1>2. PICK c \in Bad : \A d \in Bad : ~Before(d, c)
  <2>1. Bad \subseteq Calls
    OBVIOUS
  <2> HIDE DEF Bad
  <2> QED BY <1>1, <2>1, FirstCall
<1>3. PICK g : Attempt(table, g) /\ Needs(table, c) \subseteq DOMAIN g
  <2>1. CASE Needs(table, c) = {}
    <3> DEFINE g == [x \in {} |-> {}]
    <3>1. Attempt(table, g)
      BY DEF Attempt
    <3> QED BY <2>1, <3>1
  <2>2. CASE Needs(table, c) # {}
    <3>1. PICK d \in Needs(table, c) : TRUE
      BY <2>2
    <3>2. d \in Calls /\ d \notin Bad
      BY <1>2, <3>1, NeedsBefore
    <3>3. PICK g : Attempt(table, g) /\ d \in DOMAIN g
      BY <3>2
    <3>4. Needs(table, c) \subseteq DOMAIN g
      BY <3>1, <3>3, NeedsOne
    <3> QED BY <3>3, <3>4
  <2> QED BY <2>1, <2>2
<1> DEFINE f == [x \in DOMAIN g \cup {c} |-> IF x = c THEN Answer(table, g, c[1], c[2]) ELSE g[x]]
<1>4. c \in Calls /\ c \notin DOMAIN g /\ DOMAIN f = DOMAIN g \cup {c}
  BY <1>2, <1>3
<1>5. ASSUME NEW x \in DOMAIN f PROVE Needs(table, x) \subseteq DOMAIN g
  BY <1>3, <1>4 DEF Attempt
<1>6. \A x \in DOMAIN g : f[x] = g[x]
  BY <1>4
<1>7. ASSUME NEW x \in DOMAIN f PROVE f[x] = Answer(table, f, x[1], x[2])
  <2>1. Answer(table, f, x[1], x[2]) = Answer(table, g, x[1], x[2])
    <3>1. \A d \in Needs(table, x) : f[d] = g[d]
      BY <1>5, <1>6
    <3> HIDE DEF f
    <3> QED BY <3>1, SameAnswer
  <2>2. f[x] = Answer(table, g, x[1], x[2])
    BY <1>3, <1>4 DEF Attempt
  <2> QED BY <2>1, <2>2
<1>8. Attempt(table, f)
  <2>1. DOMAIN f \subseteq Calls
    BY <1>3, <1>4 DEF Attempt
  <2>2. \A x \in DOMAIN f : Needs(table, x) \subseteq DOMAIN f
    BY <1>4, <1>5
  <2> HIDE DEF f
  <2> QED BY <1>7, <2>1, <2>2 DEF Attempt
<1> HIDE DEF f
<1> QED BY <1>2, <1>4, <1>8

\* The meaning of lines is what its recursive definition says.
LEMMA RunsUnfolds ==
  ASSUME NEW table, TableOK(table)
  PROVE  \A c \in Calls : Runs(table)[c] = Answer(table, Runs(table), c[1], c[2])
<1> DEFINE ValueAt(c) == CHOOSE v : \E f : Attempt(table, f) /\ c \in DOMAIN f /\ v = f[c]
           F == [c \in Calls |-> ValueAt(c)]
<1>1. ASSUME NEW f, Attempt(table, f), NEW c \in DOMAIN f PROVE F[c] = f[c]
  <2>1. PICK g : Attempt(table, g) /\ c \in DOMAIN g /\ ValueAt(c) = g[c]
    <3>1. \E v : \E g : Attempt(table, g) /\ c \in DOMAIN g /\ v = g[c]
      BY <1>1
    <3> QED BY <3>1
  <2>2. g[c] = f[c]
    BY <1>1, <2>1, AttemptsAgree
  <2>3. c \in Calls
    BY <1>1 DEF Attempt
  <2> QED BY <2>1, <2>2, <2>3
<1>2. ASSUME NEW c \in Calls PROVE F[c] = Answer(table, F, c[1], c[2])
  <2>1. PICK f : Attempt(table, f) /\ c \in DOMAIN f
    BY EveryCallAttempted
  <2>2. \A d \in Needs(table, c) : F[d] = f[d]
    BY <1>1, <2>1 DEF Attempt
  <2>3. Answer(table, F, c[1], c[2]) = Answer(table, f, c[1], c[2])
    <3> HIDE DEF F
    <3> QED BY <2>2, SameAnswer
  <2>4. F[c] = f[c] /\ f[c] = Answer(table, f, c[1], c[2])
    <3> HIDE DEF F
    <3> QED BY <1>1, <2>1 DEF Attempt
  <2> QED BY <2>3, <2>4
<1> DEFINE Right(f) == f = [c \in Calls |-> Answer(table, f, c[1], c[2])]
<1>3. Right(F)
  <2>1. [c \in Calls |-> Answer(table, F, c[1], c[2])] = [c \in Calls |-> F[c]]
    BY <1>2
  <2> QED BY <2>1
<1>4. Right(CHOOSE f : Right(f))
  <2> HIDE DEF F
  <2>1. \E f : Right(f)
    BY <1>3
  <2> HIDE DEF Right
  <2> QED BY <2>1
<1>5. Runs(table) = CHOOSE f : Right(f)
  BY DEF Runs, Answer, Calls
<1> QED BY <1>4, <1>5

-----------------------------------------------------------------------------
(* Repetitions. *)

\* What a line may run.
Said == Line \cup {Unlocked, LoopError}

\* A remainder is a place of the sequence that is repeated.
LEMMA RemainderPlace ==
  ASSUME NEW k \in Nat \ {0}, NEW n \in Nat
  PROVE  /\ n % k \in 0 .. k - 1
         /\ n < k => n % k = n
         /\ (n + k) % k = n % k
<1>1. n % k \in 0 .. k - 1
  OBVIOUS
<1>2. n < k => n % k = n
  OBVIOUS
<1>3. (n + k) % k = n % k
  <2> DEFINE q == n \div k
             r == n % k
             p == (n + k) \div k
             s == (n + k) % k
             e == p - q - 1
  <2>1. /\ q \in Int /\ r \in 0 .. k - 1 /\ n = k * q + r
        /\ p \in Int /\ s \in 0 .. k - 1 /\ n + k = k * p + s
    OBVIOUS
  <2> HIDE DEF q, r, p, s
  <2>2. e \in Int /\ k * e = k * p - k * q - k
    BY <2>1
  <2>3. k * e = r - s
    BY <2>1, <2>2
  <2> HIDE DEF e
  <2>4. k * e < k /\ k * e > -k /\ k \in Int
    BY <2>1, <2>3
  <2>5. ~(e >= 1)
    <3>1. SUFFICES ASSUME e - 1 \in Nat PROVE FALSE
      BY <2>2
    <3>2. k * (e - 1) >= 0 /\ k * (e - 1) = k * e - k
      BY <2>2, <3>1
    <3> QED BY <2>2, <2>4, <3>2
  <2>6. ~(e <= -1)
    <3>1. SUFFICES ASSUME -1 - e \in Nat PROVE FALSE
      BY <2>2
    <3>2. k * (-1 - e) >= 0 /\ k * (-1 - e) = -k - k * e
      BY <2>2, <3>1
    <3> QED BY <2>2, <2>4, <3>2
  <2>7. e = 0
    BY <2>2, <2>5, <2>6
  <2> QED BY <2>1, <2>3, <2>7 DEF r, s
<1> QED BY <1>1, <1>2, <1>3

\* A repetition runs what is repeated, n times as long.
LEMMA TimesType ==
  ASSUME NEW S, NEW s \in Seq(S), NEW n \in Nat
  PROVE  /\ Times(n, s) \in Seq(S)
         /\ Len(Times(n, s)) = n * Len(s)
         /\ \A i \in 1 .. n * Len(s) : /\ ((i - 1) % Len(s)) + 1 \in 1 .. Len(s)
                                       /\ Times(n, s)[i] = s[((i - 1) % Len(s)) + 1]
<1> DEFINE k == Len(s)
           l == n * k
<1>1. k \in Nat /\ l \in Nat
  <2>1. k \in Nat
    BY LenProperties
  <2> HIDE DEF k
  <2> QED BY <2>1
<1>2. ASSUME NEW i \in 1 .. l PROVE ((i - 1) % k) + 1 \in 1 .. k
  <2>1. k # 0
    <3> HIDE DEF k
    <3> QED BY <1>1, <1>2
  <2>2. i - 1 \in Nat
    BY <1>1
  <2> HIDE DEF k, l
  <2>3. (i - 1) % k \in 0 .. k - 1
    BY <1>1, <2>1, <2>2, RemainderPlace
  <2> QED BY <1>1, <2>3
<1>3. ASSUME NEW i \in 1 .. l PROVE s[((i - 1) % k) + 1] \in S
  BY <1>2, <1>3, ElementOfSeq
<1>4. Times(n, s) = [i \in 1 .. l |-> s[((i - 1) % k) + 1]]
  BY DEF Times
<1> HIDE DEF k, l
<1>5. Times(n, s) \in [1 .. l -> S]
  BY <1>3, <1>4
<1>6. Times(n, s) \in Seq(S) /\ Len(Times(n, s)) = l
  BY <1>1, <1>5
<1> QED BY <1>2, <1>4, <1>6 DEF k, l

\* Nothing is repeated.
LEMMA TimesZero ==
  ASSUME NEW S, NEW s \in Seq(S)
  PROVE  Times(0, s) = <<>>
<1>1. Times(0, s) \in Seq(S) /\ Len(Times(0, s)) = 0 * Len(s)
  BY TimesType
<1>2. Len(s) \in Nat
  BY LenProperties
<1> QED BY <1>1, <1>2, EmptySeq

\* A repetition runs what is repeated once, and the rest.
LEMMA TimesNext ==
  ASSUME NEW S, NEW s \in Seq(S), NEW n \in Nat
  PROVE  Times(n + 1, s) = s \o Times(n, s)
<1> DEFINE k == Len(s)
           l == n * k
           t == Times(n, s)
           u == Times(n + 1, s)
<1>1. k \in Nat /\ l \in Nat /\ (n + 1) * k = k + l
  <2>1. k \in Nat
    BY LenProperties
  <2> HIDE DEF k
  <2> QED BY <2>1
<1>2. /\ t \in Seq(S) /\ Len(t) = l
      /\ \A i \in 1 .. l : t[i] = s[((i - 1) % k) + 1]
  BY TimesType
<1>3. /\ u \in Seq(S) /\ Len(u) = k + l
      /\ \A i \in 1 .. k + l : u[i] = s[((i - 1) % k) + 1]
  <2>1. n + 1 \in Nat
    OBVIOUS
  <2>2. /\ u \in Seq(S) /\ Len(u) = (n + 1) * k
        /\ \A i \in 1 .. (n + 1) * k : u[i] = s[((i - 1) % k) + 1]
    BY <2>1, TimesType
  <2> HIDE DEF u, k
  <2> QED BY <1>1, <2>2
<1> HIDE DEF t, u, l
<1>4. /\ s \o t \in Seq(S) /\ Len(s \o t) = k + l
      /\ \A i \in 1 .. k + l : (s \o t)[i] = IF i <= k THEN s[i] ELSE t[i - k]
  BY <1>2, ConcatProperties
<1> HIDE DEF k
<1>5. ASSUME NEW i \in 1 .. k + l PROVE u[i] = (s \o t)[i]
  <2>1. CASE i <= k
    <3>1. i - 1 \in Nat /\ i - 1 < k /\ k # 0
      BY <1>1, <2>1
    <3>2. (i - 1) % k = i - 1
      BY <1>1, <3>1, RemainderPlace
    <3> QED BY <1>3, <1>4, <2>1, <3>1, <3>2
  <2>2. CASE ~(i <= k)
    <3>1. i - k - 1 \in Nat /\ i - k \in 1 .. l /\ (i - k - 1) + k = i - 1
      BY <1>1, <2>2
    <3>2. k # 0
      BY <1>1, <1>5, <2>2 DEF l
    <3>3. ((i - k - 1) + k) % k = (i - k - 1) % k
      BY <1>1, <3>1, <3>2, RemainderPlace
    <3>4. t[i - k] = s[((i - k - 1) % k) + 1]
      BY <1>2, <3>1
    <3>5. u[i] = s[((i - 1) % k) + 1] /\ (s \o t)[i] = t[i - k]
      BY <1>3, <1>4, <2>2
    <3>6. (i - 1) % k = (i - k - 1) % k
      BY <3>1, <3>3
    <3> QED BY <3>4, <3>5, <3>6
  <2> QED BY <2>1, <2>2
<1> QED BY <1>3, <1>4, <1>5, SeqEqual DEF t, u

-----------------------------------------------------------------------------
(* What a call of Runs returns. *)

\* A line runs one and the same command all over, and one that is not blank
\* runs something.
Sound(commands, line) ==
  /\ commands \in Seq(Said)
  /\ \A i, j \in 1 .. Len(commands) : commands[i] = commands[j]
  /\ line # <<>> => commands # <<>>

\* A repetition of a sound answer is sound.
LEMMA TimesSound ==
  ASSUME NEW s, NEW line, Sound(s, line), NEW n \in Nat
  PROVE  /\ Times(n, s) \in Seq(Said)
         /\ \A i, j \in 1 .. Len(Times(n, s)) : Times(n, s)[i] = Times(n, s)[j]
         /\ line # <<>> /\ n # 0 => Times(n, s) # <<>>
<1>1. /\ Times(n, s) \in Seq(Said)
      /\ Len(Times(n, s)) = n * Len(s)
      /\ \A i \in 1 .. n * Len(s) : /\ ((i - 1) % Len(s)) + 1 \in 1 .. Len(s)
                                    /\ Times(n, s)[i] = s[((i - 1) % Len(s)) + 1]
  BY TimesType DEF Sound
<1>2. \A i, j \in 1 .. Len(s) : s[i] = s[j]
  BY DEF Sound
<1>3. ASSUME NEW i \in 1 .. Len(Times(n, s)), NEW j \in 1 .. Len(Times(n, s))
      PROVE  Times(n, s)[i] = Times(n, s)[j]
  <2>1. /\ ((i - 1) % Len(s)) + 1 \in 1 .. Len(s)
        /\ Times(n, s)[i] = s[((i - 1) % Len(s)) + 1]
    BY <1>1, <1>3, Zenon
  <2>2. /\ ((j - 1) % Len(s)) + 1 \in 1 .. Len(s)
        /\ Times(n, s)[j] = s[((j - 1) % Len(s)) + 1]
    BY <1>1, <1>3, Zenon
  <2> QED BY <1>2, <2>1, <2>2, Zenon
<1>4. ASSUME line # <<>>, n # 0 PROVE Times(n, s) # <<>>
  <2>1. PICK m \in Nat : n = m + 1
    <3>1. n - 1 \in Nat /\ n = (n - 1) + 1
      BY <1>4
    <3> QED BY <3>1
  <2>2. Times(n, s) = s \o Times(m, s) /\ Times(m, s) \in Seq(Said)
    BY <2>1, TimesNext, TimesType DEF Sound
  <2>3. s # <<>> /\ s \in Seq(Said)
    BY <1>4 DEF Sound
  <2> QED BY <2>2, <2>3, ConcatEqualIffEmpty
<1> QED BY <1>1, <1>3, <1>4

\* Every answer is sound.
LEMMA RunsSound ==
  ASSUME NEW table, TableOK(table)
  PROVE  \A c \in Calls : Sound(Runs(table)[c], c[2])
<1> DEFINE runs == Runs(table)
           Bad == {c \in Calls : ~Sound(runs[c], c[2])}
<1>1. SUFFICES ASSUME Bad # {} PROVE FALSE
  OBVIOUS
<1>2. PICK c \in Bad : \A d \in Bad : ~Before(d, c)
  <2>1. Bad \subseteq Calls
    OBVIOUS
  <2> HIDE DEF Bad
  <2> QED BY <1>1, <2>1, FirstCall
<1>3. c \in Calls /\ ~Sound(runs[c], c[2]) /\ c[1] \in Nat /\ c[2] \in Line
  BY DEF Calls
<1>4. ASSUME NEW d \in Needs(table, c) PROVE d \in Calls /\ Sound(runs[d], d[2])
  BY <1>2, <1>3, NeedsBefore
<1>5. runs[c] = Answer(table, runs, c[1], c[2])
  BY <1>3, RunsUnfolds
<1> HIDE DEF runs, Bad
<1>6. ASSUME NEW x \in Said PROVE Sound(<<x>>, c[2])
  BY <1>6 DEF Sound
<1>7. CASE c[2] = <<>>
  <2>1. runs[c] = <<>>
    BY <1>5, <1>7 DEF Answer
  <2> QED BY <1>3, <1>7, <2>1 DEF Sound
<1>8. CASE c[2] # <<>> /\ Repeats(c[2])
  <2> DEFINE d == <<c[1], Repeated(c[2])>>
             n == IntOf(c[2][2])
  <2>1. d \in Needs(table, c) /\ runs[c] = Times(n, runs[d])
    BY <1>5, <1>8 DEF Needs, Answer
  <2>2. Sound(runs[d], Repeated(c[2]))
    BY <1>4, <2>1
  <2>3. Repeated(c[2]) # <<>>
    <3>1. Len(c[2]) >= 3
      BY <1>8 DEF Repeats
    <3> QED BY <1>3, <3>1, RepeatedLength
  <2>4. n \in Nat /\ n # 0
    BY <1>8, SizeAssumption DEF Repeats
  <2> HIDE DEF d, n
  <2>5. /\ Times(n, runs[d]) \in Seq(Said)
        /\ \A i, j \in 1 .. Len(Times(n, runs[d])) :
             Times(n, runs[d])[i] = Times(n, runs[d])[j]
        /\ Repeated(c[2]) # <<>> /\ n # 0 => Times(n, runs[d]) # <<>>
    BY <2>2, <2>4, TimesSound
  <2>6. Sound(runs[c], c[2])
    BY <2>1, <2>3, <2>4, <2>5, Zenon DEF Sound
  <2> QED BY <1>3, <2>6
<1>9. CASE c[2] # <<>> /\ ~Repeats(c[2]) /\ IsAlias(table, Head(c[2]))
  <2>1. CASE c[1] = 0
    <3>1. runs[c] = <<LoopError>> /\ LoopError \in Said
      BY <1>5, <1>9, <2>1 DEF Answer, Said
    <3> QED BY <1>3, <1>6, <3>1
  <2>2. CASE c[1] # 0
    <3> DEFINE d == <<c[1] - 1, table[Head(c[2])] \o Tail(c[2])>>
    <3>1. d \in Needs(table, c) /\ runs[c] = runs[d]
      BY <1>5, <1>9, <2>2 DEF Needs, Answer
    <3>2. table[Head(c[2])] \in Line /\ table[Head(c[2])] # <<>> /\ Tail(c[2]) \in Line
      BY <1>3, <1>9, LineParts DEF TableOK, IsAlias
    <3>3. d[2] # <<>>
      BY <3>2, ConcatEqualIffEmpty DEF Line
    <3> HIDE DEF d
    <3> QED BY <1>3, <1>4, <3>1, <3>3 DEF Sound
  <2> QED BY <2>1, <2>2
<1>10. CASE c[2] # <<>> /\ ~Repeats(c[2]) /\ ~IsAlias(table, Head(c[2]))
  <2>1. runs[c] = <<c[2]>> /\ c[2] \in Said
    BY <1>3, <1>5, <1>10 DEF Answer, Said
  <2> QED BY <1>3, <1>6, <2>1
<1> QED BY <1>7, <1>8, <1>9, <1>10

\* A line whose first word is neither repeat nor an alias runs itself.
LEMMA PlainRunsItself ==
  ASSUME NEW table, TableOK(table), NEW n \in Nat, NEW line \in Line, line # <<>>,
         ~Repeats(line), ~IsAlias(table, Head(line))
  PROVE  Runs(table)[<<n, line>>] = <<line>>
<1>1. <<n, line>> \in Calls
  BY DEF Calls
<1>2. Runs(table)[<<n, line>>] = Answer(table, Runs(table), n, line)
  BY <1>1, RunsUnfolds
<1> QED BY <1>2 DEF Answer

\* A line to repeat runs what is left of it, as often as it says.
LEMMA RepeatRuns ==
  ASSUME NEW table, TableOK(table), NEW n \in Nat, NEW line \in Line, line # <<>>,
         Repeats(line)
  PROVE  /\ Runs(table)[<<n, line>>]
              = Times(IntOf(line[2]), Runs(table)[<<n, Repeated(line)>>])
         /\ Repeated(line) \in Line /\ Repeated(line) # <<>>
<1>1. <<n, line>> \in Calls
  BY DEF Calls
<1>2. Runs(table)[<<n, line>>] = Answer(table, Runs(table), n, line)
  BY <1>1, RunsUnfolds
<1>3. Len(line) >= 3
  BY DEF Repeats
<1>4. Repeated(line) \in Line /\ Repeated(line) # <<>>
  BY <1>3, RepeatedLength
<1> QED BY <1>2, <1>4 DEF Answer

\* An alias runs what it stands for, or is one expansion too many.
LEMMA AliasRuns ==
  ASSUME NEW table, TableOK(table), NEW n \in Nat, NEW line \in Line, line # <<>>,
         ~Repeats(line), IsAlias(table, Head(line))
  PROVE  /\ table[Head(line)] \o Tail(line) \in Line
         /\ Runs(table)[<<n, line>>]
              = IF n = 0 THEN <<LoopError>>
                ELSE Runs(table)[<<n - 1, table[Head(line)] \o Tail(line)>>]
<1>1. <<n, line>> \in Calls
  BY DEF Calls
<1>2. Runs(table)[<<n, line>>] = Answer(table, Runs(table), n, line)
  BY <1>1, RunsUnfolds
<1>3. table[Head(line)] \in Line /\ Tail(line) \in Line
  BY LineParts DEF TableOK, IsAlias
<1>4. table[Head(line)] \o Tail(line) \in Line
  BY <1>3, ConcatProperties DEF Line
<1> QED BY <1>2, <1>4 DEF Answer

\* The answer to a line is a sequence of what lines run.
LEMMA RunsType ==
  ASSUME NEW table, TableOK(table), NEW n \in Nat, NEW line \in Line
  PROVE  Runs(table)[<<n, line>>] \in Seq(Said)
<1>1. <<n, line>> \in Calls
  BY DEF Calls
<1> QED BY <1>1, RunsSound DEF Sound

-----------------------------------------------------------------------------
(* What the calls that wait will still run.  From the first call up: depth *)
(* counts the aliases expanded, and rest is what is left to run when the   *)
(* calls above have returned.                                              *)

Depths == 0 .. MaxDepth + 1

Deeper(frame, d) == IF frame.kind = "alias" THEN d + 1 ELSE d

Owed(table, frame, d) ==
  IF frame.kind = "repeat"
  THEN Times(frame.left, Runs(table)[<<MaxDepth + 1 - d, frame.line>>])
  ELSE <<>>

Climb(table, s, depth, rest) ==
  /\ depth \in [0 .. Len(s) -> Depths] /\ rest \in [0 .. Len(s) -> Seq(Said)]
  /\ depth[0] = 0 /\ rest[0] = <<>>
  /\ \A k \in 1 .. Len(s) :
       /\ depth[k] = Deeper(s[k], depth[k - 1])
       /\ rest[k] = Owed(table, s[k], depth[k]) \o rest[k - 1]
       /\ s[k].kind = "repeat" => s[k].line # <<>>

Waits(table, s, d, r) ==
  \E depth, rest :
    Climb(table, s, depth, rest) /\ depth[Len(s)] = d /\ rest[Len(s)] = r

\* What a call that waits owes is a sequence of what lines run.
LEMMA OwedType ==
  ASSUME NEW table, TableOK(table), NEW f \in Frame, NEW d \in Depths
  PROVE  Owed(table, f, d) \in Seq(Said)
<1>1. CASE f.kind = "repeat"
  <2>1. f.line \in Line /\ f.left \in Nat
    BY <1>1, SizeAssumption DEF Frame
  <2>2. MaxDepth + 1 - d \in Nat
    BY SizeAssumption DEF Depths
  <2>3. Runs(table)[<<MaxDepth + 1 - d, f.line>>] \in Seq(Said)
    BY <2>1, <2>2, RunsType
  <2> QED BY <1>1, <2>1, <2>3, TimesType DEF Owed
<1>2. CASE f.kind # "repeat"
  BY <1>2, EmptySeq DEF Owed
<1> QED BY <1>1, <1>2

\* What waits is well typed.
LEMMA WaitsType ==
  ASSUME NEW table, NEW s \in Seq(Frame), NEW d, NEW r, Waits(table, s, d, r)
  PROVE  d \in Depths /\ r \in Seq(Said)
<1>1. Len(s) \in 0 .. Len(s)
  BY LenProperties
<1> QED BY <1>1 DEF Waits, Climb

\* No call waits.
LEMMA WaitsEmpty ==
  ASSUME NEW table, NEW d, NEW r
  PROVE  Waits(table, <<>>, d, r) <=> d = 0 /\ r = <<>>
<1>1. Len(<<>>) = 0 /\ 0 \in 0 .. 0
  OBVIOUS
<1>2. ASSUME d = 0, r = <<>> PROVE Waits(table, <<>>, d, r)
  <2> DEFINE depth == [k \in 0 .. 0 |-> 0]
             rest == [k \in 0 .. 0 |-> <<>>]
  <2>1. 0 \in Depths /\ <<>> \in Seq(Said)
    BY SizeAssumption, EmptySeq DEF Depths
  <2>2. Climb(table, <<>>, depth, rest)
    BY <1>1, <2>1 DEF Climb
  <2>3. depth[0] = 0 /\ rest[0] = <<>>
    OBVIOUS
  <2> QED BY <1>1, <1>2, <2>2, <2>3 DEF Waits
<1> QED BY <1>1, <1>2 DEF Waits, Climb

\* One more call waits.
LEMMA WaitsPush ==
  ASSUME NEW table, TableOK(table), NEW s \in Seq(Frame), NEW f \in Frame,
         NEW d, NEW r, Waits(table, s, d, r), Deeper(f, d) \in Depths,
         f.kind = "repeat" => f.line # <<>>
  PROVE  Waits(table, Append(s, f), Deeper(f, d), Owed(table, f, Deeper(f, d)) \o r)
<1> DEFINE t == Append(s, f)
           n == Len(s)
           e == Deeper(f, d)
           q == Owed(table, f, e) \o r
<1>1. /\ n \in Nat /\ t \in Seq(Frame) /\ Len(t) = n + 1
      /\ \A i \in 1 .. n : t[i] = s[i]
      /\ t[n + 1] = f
  BY LenProperties, AppendProperties
<1>2. PICK depth, rest : Climb(table, s, depth, rest) /\ depth[n] = d /\ rest[n] = r
  BY DEF Waits
<1>3. q \in Seq(Said)
  <2>1. r \in Seq(Said)
    BY WaitsType
  <2>2. Owed(table, f, e) \in Seq(Said)
    BY OwedType
  <2> QED BY <2>1, <2>2, ConcatProperties
<1> DEFINE depth2 == [k \in 0 .. n + 1 |-> IF k = n + 1 THEN e ELSE depth[k]]
           rest2 == [k \in 0 .. n + 1 |-> IF k = n + 1 THEN q ELSE rest[k]]
<1>4. /\ depth2[n + 1] = e /\ rest2[n + 1] = q
      /\ \A k \in 0 .. n : depth2[k] = depth[k] /\ rest2[k] = rest[k]
  BY <1>1
<1>5. /\ depth2 \in [0 .. n + 1 -> Depths] /\ rest2 \in [0 .. n + 1 -> Seq(Said)]
  <2>1. e \in Depths
    OBVIOUS
  <2> HIDE DEF e, q
  <2> QED BY <1>1, <1>2, <1>3, <2>1 DEF Climb
<1> HIDE DEF t, depth2, rest2
<1>6. ASSUME NEW k \in 1 .. n + 1
      PROVE  /\ depth2[k] = Deeper(t[k], depth2[k - 1])
             /\ rest2[k] = Owed(table, t[k], depth2[k]) \o rest2[k - 1]
             /\ t[k].kind = "repeat" => t[k].line # <<>>
  <2>1. CASE k = n + 1
    <3>1. depth2[k - 1] = d /\ rest2[k - 1] = r
      BY <1>1, <1>2, <1>4, <2>1
    <3>2. t[k] = f /\ depth2[k] = e /\ rest2[k] = q
      BY <1>1, <1>4, <2>1
    <3> QED BY <3>1, <3>2
  <2>2. CASE k # n + 1
    <3>1. k \in 1 .. n /\ k - 1 \in 0 .. n /\ k \in 0 .. n
      BY <1>1, <2>2
    <3>2. /\ depth[k] = Deeper(s[k], depth[k - 1])
          /\ rest[k] = Owed(table, s[k], depth[k]) \o rest[k - 1]
          /\ s[k].kind = "repeat" => s[k].line # <<>>
      BY <1>2, <3>1 DEF Climb
    <3> QED BY <1>1, <1>4, <3>1, <3>2
  <2> QED BY <2>1, <2>2
<1>7. depth2[0] = 0 /\ rest2[0] = <<>>
  <2>1. 0 \in 0 .. n /\ depth[0] = 0 /\ rest[0] = <<>>
    BY <1>1, <1>2 DEF Climb
  <2> QED BY <1>4, <2>1
<1>8. Climb(table, t, depth2, rest2)
  BY <1>1, <1>5, <1>6, <1>7 DEF Climb
<1> QED BY <1>1, <1>4, <1>8 DEF Waits, t

\* The last call that waits goes.
LEMMA WaitsPop ==
  ASSUME NEW table, NEW s \in Seq(Frame), s # <<>>, NEW d, NEW r, Waits(table, s, d, r)
  PROVE  \E e, q : /\ Waits(table, SubSeq(s, 1, Len(s) - 1), e, q)
                   /\ d = Deeper(s[Len(s)], e)
                   /\ r = Owed(table, s[Len(s)], d) \o q
                   /\ s[Len(s)].kind = "repeat" => s[Len(s)].line # <<>>
<1> DEFINE n == Len(s) - 1
           t == SubSeq(s, 1, n)
<1>1. /\ n \in Nat /\ Len(s) = n + 1 /\ Len(t) = n /\ \A i \in 1 .. n : t[i] = s[i]
  <2>1. Len(s) \in Nat \ {0}
    BY EmptySeq
  <2>2. \A i \in 1 .. n : s[i] \in Frame
    BY <2>1, ElementOfSeq
  <2>3. 1 \in Int /\ n \in Int
    BY <2>1
  <2> HIDE DEF n
  <2>4. /\ Len(t) = IF 1 <= n THEN n - 1 + 1 ELSE 0
        /\ \A i \in 1 .. n - 1 + 1 : t[i] = s[1 + i - 1]
    BY <2>2, <2>3, SubSeqProperties
  <2>5. n \in Nat /\ Len(s) = n + 1
    BY <2>1 DEF n
  <2> HIDE DEF t
  <2> QED BY <2>4, <2>5
<1>2. PICK depth, rest : Climb(table, s, depth, rest) /\ depth[Len(s)] = d /\ rest[Len(s)] = r
  BY DEF Waits
<1> HIDE DEF n, t
<1> DEFINE depth2 == [k \in 0 .. n |-> depth[k]]
           rest2 == [k \in 0 .. n |-> rest[k]]
<1>3. /\ depth2 \in [0 .. n -> Depths] /\ rest2 \in [0 .. n -> Seq(Said)]
      /\ \A k \in 0 .. n : depth2[k] = depth[k] /\ rest2[k] = rest[k]
  BY <1>1, <1>2 DEF Climb
<1> HIDE DEF depth2, rest2
<1>4. ASSUME NEW k \in 1 .. n
      PROVE  /\ depth2[k] = Deeper(t[k], depth2[k - 1])
             /\ rest2[k] = Owed(table, t[k], depth2[k]) \o rest2[k - 1]
             /\ t[k].kind = "repeat" => t[k].line # <<>>
  <2>1. k \in 1 .. Len(s) /\ k - 1 \in 0 .. n /\ k \in 0 .. n
    BY <1>1
  <2>2. /\ depth[k] = Deeper(s[k], depth[k - 1])
        /\ rest[k] = Owed(table, s[k], depth[k]) \o rest[k - 1]
        /\ s[k].kind = "repeat" => s[k].line # <<>>
    BY <1>2, <2>1 DEF Climb
  <2> QED BY <1>1, <1>3, <2>1, <2>2
<1>5. depth2[0] = 0 /\ rest2[0] = <<>>
  BY <1>1, <1>2, <1>3 DEF Climb
<1>6. Climb(table, t, depth2, rest2)
  BY <1>1, <1>3, <1>4, <1>5 DEF Climb
<1>7. Waits(table, t, depth[n], rest[n])
  <2>1. depth2[n] = depth[n] /\ rest2[n] = rest[n]
    BY <1>1, <1>3
  <2> QED BY <1>1, <1>6, <2>1 DEF Waits
<1>8. /\ d = Deeper(s[Len(s)], depth[n])
      /\ r = Owed(table, s[Len(s)], d) \o rest[n]
      /\ s[Len(s)].kind = "repeat" => s[Len(s)].line # <<>>
  <2>1. Len(s) \in 1 .. Len(s) /\ Len(s) - 1 = n
    BY <1>1
  <2> QED BY <1>2, <2>1 DEF Climb
<1> QED BY <1>7, <1>8 DEF t, n

\* Only nothing and nothing make nothing.
LEMMA BothEmpty ==
  ASSUME NEW S, NEW s \in Seq(S), NEW t \in Seq(S), s \o t = <<>>
  PROVE  s = <<>> /\ t = <<>>
<1>1. Len(s \o t) = Len(s) + Len(t) /\ Len(s) \in Nat /\ Len(t) \in Nat
  BY ConcatProperties, LenProperties
<1>2. Len(s \o t) = 0
  BY EmptySeq
<1>3. Len(s) = 0 /\ Len(t) = 0
  BY <1>1, <1>2
<1> QED BY <1>3, EmptySeq

\* A call that owes nothing owes nothing under any other table.
LEMMA OwesNothing ==
  ASSUME NEW table, TableOK(table), NEW other, TableOK(other),
         NEW f \in Frame, NEW d \in Depths, f.kind = "repeat" => f.line # <<>>,
         Owed(table, f, d) = <<>>
  PROVE  Owed(other, f, d) = <<>>
<1>1. CASE f.kind = "repeat"
  <2> DEFINE n == MaxDepth + 1 - d
  <2>1. f.line \in Line /\ f.left \in Nat /\ f.line # <<>>
    BY <1>1, SizeAssumption DEF Frame
  <2>2. n \in Nat
    BY SizeAssumption DEF Depths
  <2>3. <<n, f.line>> \in Calls
    BY <2>1, <2>2 DEF Calls
  <2> HIDE DEF n
  <2>4. Sound(Runs(table)[<<n, f.line>>], f.line) /\ Sound(Runs(other)[<<n, f.line>>], f.line)
    BY <2>3, RunsSound
  <2>5. Times(f.left, Runs(table)[<<n, f.line>>]) = <<>>
    BY <1>1 DEF Owed, n
  <2>6. f.left = 0
    BY <2>1, <2>4, <2>5, TimesSound
  <2>7. Times(0, Runs(other)[<<n, f.line>>]) = <<>>
    BY <2>4, TimesZero DEF Sound
  <2> QED BY <1>1, <2>6, <2>7 DEF Owed, n
<1>2. CASE f.kind # "repeat"
  BY <1>2 DEF Owed
<1> QED BY <1>1, <1>2

\* Calls that have nothing left to run wait for nothing, whatever becomes of
\* the table.
LEMMA WaitsNothing ==
  ASSUME NEW table, TableOK(table), NEW other, TableOK(other),
         NEW s \in Seq(Frame), NEW d, Waits(table, s, d, <<>>)
  PROVE  Waits(other, s, d, <<>>)
<1> DEFINE n == Len(s)
<1>1. PICK depth, rest : Climb(table, s, depth, rest) /\ depth[n] = d /\ rest[n] = <<>>
  BY DEF Waits
<1>2. n \in Nat /\ \A k \in 1 .. n : s[k] \in Frame
  BY LenProperties, ElementOfSeq
<1>3. ASSUME NEW k \in 1 .. n
      PROVE  /\ Owed(table, s[k], depth[k]) \in Seq(Said) /\ rest[k - 1] \in Seq(Said)
             /\ depth[k] \in Depths /\ s[k] \in Frame
             /\ depth[k] = Deeper(s[k], depth[k - 1])
             /\ rest[k] = Owed(table, s[k], depth[k]) \o rest[k - 1]
             /\ s[k].kind = "repeat" => s[k].line # <<>>
  <2>1. k \in 0 .. n /\ k - 1 \in 0 .. n
    BY <1>2
  <2>2. depth[k] \in Depths /\ rest[k - 1] \in Seq(Said) /\ s[k] \in Frame
    BY <1>1, <1>2, <2>1 DEF Climb
  <2>3. Owed(table, s[k], depth[k]) \in Seq(Said)
    BY <2>2, OwedType
  <2> QED BY <1>1, <2>2, <2>3 DEF Climb
<1> HIDE DEF n
<1> DEFINE T == {j \in 0 .. n : rest[n - j] # <<>>}
<1>4. T = {}
  <2>1. SUFFICES ASSUME T # {} PROVE FALSE
    OBVIOUS
  <2>2. PICK m \in T : \A j \in T : m <= j
    <3>1. T \subseteq Nat
      BY <1>2
    <3> HIDE DEF T
    <3> QED BY <2>1, <3>1, LeastElement
  <2>3. m \in 1 .. n /\ rest[n - m] # <<>>
    <3>1. m \in 0 .. n /\ rest[n - m] # <<>>
      OBVIOUS
    <3>2. m # 0
      <4>1. n - 0 = n
        BY <1>2
      <4> QED BY <1>1, <3>1, <4>1
    <3> QED BY <1>2, <3>1, <3>2
  <2>4. rest[n - (m - 1)] = <<>>
    <3>1. m - 1 \in 0 .. n /\ ~(m <= m - 1)
      BY <1>2, <2>3
    <3>2. m - 1 \notin T
      BY <2>2, <3>1
    <3> QED BY <3>1, <3>2
  <2> HIDE DEF T
  <2>5. n - m + 1 \in 1 .. n /\ n - (m - 1) = n - m + 1 /\ (n - m + 1) - 1 = n - m
    BY <1>2, <2>3
  <2> DEFINE k == n - m + 1
  <2>6. /\ Owed(table, s[k], depth[k]) \in Seq(Said) /\ rest[k - 1] \in Seq(Said)
        /\ rest[k] = Owed(table, s[k], depth[k]) \o rest[k - 1]
    BY <1>3, <2>5
  <2>7. rest[k] = <<>> /\ rest[k - 1] # <<>>
    BY <2>3, <2>4, <2>5
  <2> HIDE DEF k
  <2> QED BY ONLY <2>6, <2>7, BothEmpty
<1>5. ASSUME NEW k \in 0 .. n PROVE rest[k] = <<>>
  <2>1. n - k \in 0 .. n /\ n - (n - k) = k
    BY <1>2
  <2>2. n - k \notin T
    BY <1>4
  <2> QED BY <2>1, <2>2
<1> HIDE DEF T
<1>6. ASSUME NEW k \in 1 .. n
      PROVE  rest[k] = Owed(other, s[k], depth[k]) \o rest[k - 1]
  <2>1. k \in 0 .. n /\ k - 1 \in 0 .. n
    BY <1>2
  <2>2. rest[k] = <<>> /\ rest[k - 1] = <<>>
    BY <1>5, <2>1
  <2>3. Owed(table, s[k], depth[k]) = <<>>
    <3> DEFINE o == Owed(table, s[k], depth[k])
    <3>1. o \in Seq(Said) /\ rest[k - 1] \in Seq(Said) /\ o \o rest[k - 1] = <<>>
      BY <1>3, <2>2
    <3> HIDE DEF o
    <3>2. o = <<>>
      BY ONLY <3>1, BothEmpty
    <3> QED BY <3>2 DEF o
  <2>4. Owed(other, s[k], depth[k]) = <<>>
    BY <1>3, <2>3, OwesNothing
  <2>5. <<>> \o <<>> = <<>>
    BY EmptySeq, ConcatEmptySeq
  <2> QED BY <2>2, <2>4, <2>5
<1>7. Climb(other, s, depth, rest)
  BY <1>1, <1>3, <1>6 DEF Climb, n
<1> QED BY <1>1, <1>7 DEF Waits, n

-----------------------------------------------------------------------------
(* The invariant of simple lines.  What the typed line should still run is *)
(* what the call about to start runs with the expansions that are left,    *)
(* and then what the calls that wait still owe.  Between two steps only    *)
(* the trap could come in between, and nothing the line runs answers it.   *)

\* One command, over and over, that no table can upset.
Quiet(commands) ==
  /\ Undisturbed(commands)
  /\ \A i, j \in 1 .. Len(commands) : commands[i] = commands[j]

Now(d) ==
  IF input = none THEN <<>> ELSE Runs(alias_table)[<<MaxDepth + 1 - d, input>>]

\* The line answers the trap.
Opening == stack = <<>> /\ input # none /\ Answers /\ expected = <<Unlocked>>

OnCourse ==
  /\ input # none => ~Answers
  /\ \E d, r : /\ Waits(alias_table, stack, d, r)
               /\ run_depth <= d
               /\ expected = Now(d) \o r

\* A trap that was laid on the way waits among divisions by zero.
TrapOfLine ==
  ddf_waiting_secret /\ stack # <<>> =>
    \A i \in 1 .. Len(expected) : DividesByZero(expected[i])

Held ==
  /\ as_written = TRUE /\ Quiet(expected)
  /\ Opening \/ OnCourse
  /\ expected # <<>> => ~IsAlias(alias_table, "actually")
  /\ TrapOfLine

SimpleInv == TableOK(alias_table) /\ (simple => Held)

\* Of a quiet line whatever follows its first command is quiet.
LEMMA QuietRest ==
  ASSUME NEW x \in Said, NEW r \in Seq(Said), Quiet(<<x>> \o r)
  PROVE  /\ Quiet(r) /\ x # LoopError
         /\ \A i \in 1 .. Len(r) : r[i] = x
         /\ Head(x) \in {"alias", "load"} => r = <<>>
         /\ Head(<<x>> \o r) = x /\ Tail(<<x>> \o r) = r /\ <<x>> \o r # <<>>
<1> DEFINE s == <<x>> \o r
<1>1. /\ s \in Seq(Said) /\ Len(s) = Len(r) + 1 /\ Len(r) \in Nat /\ s[1] = x
      /\ \A i \in 1 .. Len(r) : s[i + 1] = r[i]
  <2>1. <<x>> \in Seq(Said) /\ Len(<<x>>) = 1 /\ <<x>>[1] = x /\ Len(r) \in Nat
    BY LenProperties
  <2>2. /\ s \in Seq(Said) /\ Len(s) = 1 + Len(r)
        /\ \A i \in 1 .. 1 + Len(r) : s[i] = IF i <= 1 THEN <<x>>[i] ELSE r[i - 1]
    BY <2>1, ConcatProperties
  <2> HIDE DEF s
  <2> QED BY <2>1, <2>2
<1>2. DOMAIN s = 1 .. Len(s) /\ DOMAIN r = 1 .. Len(r)
  BY <1>1, LenProperties
<1>3. s # <<>> /\ Head(s) = x
  <2> HIDE DEF s
  <2> QED BY <1>1, EmptySeq
<1>4. Tail(s) = r
  <2> HIDE DEF s
  <2>1. Tail(s) \in Seq(Said) /\ Len(Tail(s)) = Len(r)
        /\ \A i \in 1 .. Len(r) : Tail(s)[i] = s[i + 1]
    BY <1>1, <1>3, HeadTailProperties
  <2> QED BY <1>1, <2>1, SeqEqual
<1>5. /\ \A i \in 1 .. Len(s) : s[i] # LoopError
      /\ \A i, j \in 1 .. Len(s) : s[i] = s[j]
      /\ Len(s) = 1 \/ \A i \in 1 .. Len(s) : Head(s[i]) \notin {"alias", "load"}
  BY <1>2 DEF Quiet, Undisturbed, Lasting
<1> HIDE DEF s
<1>6. ASSUME NEW i \in 1 .. Len(r)
      PROVE  r[i] = s[i + 1] /\ i + 1 \in 1 .. Len(s) /\ 1 \in 1 .. Len(s) /\ Len(s) # 1
  BY <1>1
<1>7. \A i \in 1 .. Len(r) : r[i] = x
  BY <1>1, <1>5, <1>6
<1>8. x # LoopError
  BY <1>1, <1>5
<1>9. Head(x) \in {"alias", "load"} => r = <<>>
  <2>1. SUFFICES ASSUME Head(x) \in {"alias", "load"} PROVE Len(r) = 0
    BY EmptySeq
  <2>2. Len(s) = 1
    BY <1>1, <1>5, <2>1
  <2> QED BY <1>1, <2>2
<1>10. Quiet(r)
  <2>1. \A i \in 1 .. Len(r) : r[i] # LoopError
    BY <1>7, <1>8
  <2>2. Len(r) = 1 \/ \A i \in 1 .. Len(r) : Head(r[i]) \notin {"alias", "load"}
    BY <1>5, <1>6
  <2> QED BY <1>2, <1>7, <2>1, <2>2 DEF Quiet, Undisturbed, Lasting
<1> QED BY <1>3, <1>4, <1>7, <1>8, <1>9, <1>10 DEF s

\* A line that runs itself is the first thing the typed line should run, and
\* what follows is what the calls that wait owe.
LEMMA RunsFirst ==
  ASSUME GuardInv, SimpleInv, simple, LookedUp, ~Repeats(input),
         ~IsAlias(alias_table, Head(input)), Ran(input)
  PROVE  \E d \in Depths, r \in Seq(Said) :
           /\ Waits(alias_table, stack, d, r) /\ run_depth <= d
           /\ expected' = r /\ as_written' = TRUE
           /\ Quiet(r)
           /\ \A i \in 1 .. Len(r) : r[i] = input
           /\ Head(input) \in {"alias", "load"} => r = <<>>
           /\ ~IsAlias(alias_table, "actually")
<1>1. /\ Held /\ OnCourse /\ input # none /\ input # <<>> /\ input \in Line
      /\ TableOK(alias_table) /\ stack \in Seq(Frame)
  BY DEF SimpleInv, Held, Opening, LookedUp, GuardInv, ControlOK
<1>2. PICK d, r : /\ Waits(alias_table, stack, d, r) /\ run_depth <= d
                  /\ expected = Now(d) \o r
  BY <1>1 DEF OnCourse
<1>3. d \in Depths /\ r \in Seq(Said) /\ MaxDepth + 1 - d \in Nat
  <2>1. d \in Depths /\ r \in Seq(Said)
    BY <1>1, <1>2, WaitsType
  <2> QED BY <2>1, SizeAssumption DEF Depths
<1>4. Now(d) = <<input>>
  BY <1>1, <1>3, PlainRunsItself DEF Now
<1>5. Quiet(<<input>> \o r) /\ input \in Said /\ expected = <<input>> \o r
  BY <1>1, <1>2, <1>4 DEF Held, Said
<1>6. /\ Quiet(r) /\ \A i \in 1 .. Len(r) : r[i] = input
      /\ Head(input) \in {"alias", "load"} => r = <<>>
      /\ Head(expected) = input /\ Tail(expected) = r /\ expected # <<>>
  BY <1>3, <1>5, QuietRest
<1>7. as_written' = TRUE /\ expected' = r /\ ~IsAlias(alias_table, "actually")
  BY <1>1, <1>6 DEF Ran, Held
<1> QED BY <1>2, <1>3, <1>6, <1>7

\* Once a command has run, the calls that wait go on.
LEMMA CourseGoesOn ==
  ASSUME TableOK(alias_table'), NEW d, NEW r \in Seq(Said),
         Waits(alias_table', stack', d, r), (run_depth <= d)', input' = none,
         expected' = r, as_written' = TRUE, Quiet(r),
         r # <<>> => ~IsAlias(alias_table', "actually"),
         ddf_waiting_secret' /\ stack' # <<>> => \A i \in 1 .. Len(r) : DividesByZero(r[i])
  PROVE  SimpleInv'
<1>1. Now(d)' = <<>>
  BY DEF Now
<1>2. (expected = Now(d) \o r)'
  BY <1>1, ConcatEmptySeq
<1>3. OnCourse'
  BY <1>2 DEF OnCourse
<1>4. TrapOfLine'
  BY DEF TrapOfLine
<1> QED BY <1>3, <1>4 DEF SimpleInv, Held

\* The parts of the invariant that every action needs.
LEMMA CourseParts ==
  ASSUME GuardInv, SimpleInv
  PROVE  /\ TableOK(alias_table) /\ stack \in Seq(Frame)
         /\ input \in Line \cup {none} /\ run_depth \in Int
         /\ stack = <<>> => run_depth <= 0
<1>1. run_depth <= Cardinality(AliasCalls(stack))
  BY DEF GuardInv, GuardNeverEarly, Expansions, AliasCalls
<1>2. ASSUME stack = <<>> PROVE run_depth <= 0
  <2>1. AliasCalls(stack) = {}
    BY <1>2 DEF AliasCalls
  <2> QED BY <1>1, <2>1, FS_EmptySet
<1> QED BY <1>2 DEF GuardInv, ControlOK, SimpleInv

\* The typed line.
LEMMA SimpleTyped ==
  ASSUME GuardInv, SimpleInv, NEW line \in Line, TypeLine(line)
  PROVE  SimpleInv'
<1>1. /\ TableOK(alias_table) /\ stack = <<>> /\ run_depth <= 0 /\ alias_table' = alias_table
      /\ input' = line /\ line # none /\ stack' = stack /\ run_depth' = run_depth
      /\ ddf_waiting_secret' = ddf_waiting_secret
      /\ ddf_last_numerator' = ddf_last_numerator /\ as_written' = TRUE
  BY CourseParts, NoneAssumption DEF TypeLine, Idle, ddf_vars
<1>2. SUFFICES ASSUME simple' PROVE Held'
  BY <1>1 DEF SimpleInv
<1>3. /\ Undisturbed(expected') /\ ~IsAlias(alias_table', "actually")
  BY <1>1, <1>2 DEF TypeLine
<1>4. TrapOfLine'
  BY <1>1 DEF TrapOfLine
<1>5. CASE ddf_waiting_secret /\ line = Sentence(ddf_last_numerator)
  <2>1. expected' = <<Unlocked>>
    BY <1>5 DEF TypeLine
  <2>2. Opening'
    BY <1>1, <1>5, <2>1 DEF Opening, Answers
  <2>3. Quiet(expected')
    BY <1>3, <2>1 DEF Quiet
  <2> QED BY <1>1, <1>3, <1>4, <2>2, <2>3 DEF Held
<1>6. CASE ~(ddf_waiting_secret /\ line = Sentence(ddf_last_numerator))
  <2> DEFINE runs == Runs(alias_table)[<<MaxDepth + 1, line>>]
  <2>1. expected' = runs
    BY <1>6 DEF TypeLine, Meaning
  <2>2. MaxDepth + 1 \in Nat /\ <<MaxDepth + 1, line>> \in Calls /\ MaxDepth + 1 - 0 = MaxDepth + 1
    BY SizeAssumption DEF Calls
  <2>3. Sound(runs, line)
    <3>1. Sound(runs, <<MaxDepth + 1, line>>[2])
      BY <1>1, <2>2, RunsSound
    <3> QED BY <3>1
  <2>4. Quiet(expected')
    BY <1>3, <2>1, <2>3 DEF Quiet, Sound
  <2>5. (expected = Now(0) \o <<>>)'
    <3>1. Now(0)' = runs
      BY <1>1, <2>2 DEF Now
    <3> HIDE DEF runs
    <3>2. runs \o <<>> = runs
      BY <2>3, ConcatEmptySeq DEF Sound
    <3> QED BY <2>1, <3>1, <3>2
  <2>6. Waits(alias_table', stack', 0, <<>>)
    BY <1>1, WaitsEmpty
  <2>7. OnCourse'
    <3>1. (input # none => ~Answers)'
      BY <1>1, <1>6 DEF Answers
    <3>2. (run_depth <= 0)'
      BY <1>1
    <3> QED BY <2>5, <2>6, <3>1, <3>2 DEF OnCourse
  <2> QED BY <1>1, <1>3, <1>4, <2>4, <2>7 DEF Held
<1> QED BY <1>5, <1>6

\* Power-on, at the prompt.
LEMMA SimpleReboot ==
  ASSUME GuardInv, SimpleInv, Reboot
  PROVE  SimpleInv'
<1>1. /\ input = none /\ stack = <<>> /\ input' = none /\ stack' = <<>> /\ run_depth' = 0
      /\ expected' = expected /\ as_written' = as_written /\ simple' = simple
      /\ ddf_waiting_secret' = FALSE
  BY DEF Reboot, Idle, history_vars
<1>2. TableOK(alias_table')
  BY ValueAssumption DEF Reboot, SavedTable, TableOK
<1>3. SUFFICES ASSUME simple PROVE SimpleInv'
  BY <1>1, <1>2 DEF SimpleInv
<1>4. Held /\ OnCourse
  BY <1>1, <1>3 DEF SimpleInv, Held, Opening
<1>5. PICK d, r : Waits(alias_table, <<>>, d, r) /\ expected = <<>> \o r
  BY <1>1, <1>4 DEF OnCourse, Now
<1>6. r = <<>> /\ expected = <<>>
  BY <1>5, WaitsEmpty, EmptySeq, ConcatEmptySeq
<1>7. Waits(alias_table', stack', 0, <<>>)
  BY <1>1, WaitsEmpty
<1>8. <<>> \in Seq(Said) /\ Quiet(<<>>)
  BY <1>4, <1>6, EmptySeq DEF Held
<1>9. as_written' = TRUE /\ (run_depth <= 0)' /\ expected' = <<>>
  BY <1>1, <1>4, <1>6 DEF Held
<1> QED BY <1>1, <1>2, <1>7, <1>8, <1>9, CourseGoesOn

\* A line of blanks.
LEMMA SimpleBlank ==
  ASSUME GuardInv, SimpleInv, RunBlank
  PROVE  SimpleInv'
<1>1. /\ input = <<>> /\ input # none /\ input' = none /\ stack' = stack /\ run_depth' = run_depth
      /\ expected' = expected /\ as_written' = as_written /\ simple' = simple
      /\ alias_table' = alias_table /\ ddf_waiting_secret' = ddf_waiting_secret
  BY NoneAssumption, EmptySeq DEF RunBlank, Return, history_vars, ddf_vars, Line
<1>2. SUFFICES ASSUME simple PROVE SimpleInv'
  BY <1>1 DEF SimpleInv
<1>3. Held /\ TableOK(alias_table) /\ stack \in Seq(Frame)
  BY <1>2, CourseParts DEF SimpleInv
<1>4. OnCourse
  <2>1. input # Sentence(ddf_last_numerator)
    <3>1. Len(input) = 0 /\ Len(Sentence(ddf_last_numerator)) = 7
      BY <1>1 DEF Sentence
    <3> QED BY <3>1
  <2> QED BY <1>3, <2>1 DEF Held, Opening, Answers
<1>5. PICK d, r : /\ Waits(alias_table, stack, d, r) /\ run_depth <= d
                  /\ expected = Now(d) \o r
  BY <1>4 DEF OnCourse
<1>6. d \in Depths /\ r \in Seq(Said)
  BY <1>3, <1>5, WaitsType
<1>7. Now(d) = <<>>
  <2>1. MaxDepth + 1 - d \in Nat /\ <<>> \in Line
    BY <1>6, SizeAssumption, EmptySeq DEF Depths, Line
  <2>2. <<MaxDepth + 1 - d, <<>>>> \in Calls
    BY <2>1 DEF Calls
  <2>3. Runs(alias_table)[<<MaxDepth + 1 - d, <<>>>>]
          = Answer(alias_table, Runs(alias_table), MaxDepth + 1 - d, <<>>)
    BY <1>3, <2>2, RunsUnfolds
  <2> QED BY <1>1, <2>3 DEF Now, Answer
<1>8. expected = r
  BY <1>5, <1>6, <1>7, ConcatEmptySeq
<1>9. /\ as_written' = TRUE /\ expected' = r /\ (run_depth <= d)' /\ Quiet(r)
      /\ r # <<>> => ~IsAlias(alias_table', "actually")
      /\ ddf_waiting_secret' /\ stack' # <<>> => \A i \in 1 .. Len(r) : DividesByZero(r[i])
  BY <1>1, <1>3, <1>5, <1>8 DEF Held, TrapOfLine
<1>10. TableOK(alias_table') /\ Waits(alias_table', stack', d, r)
  BY <1>1, <1>3, <1>5
<1> QED BY <1>1, <1>6, <1>9, <1>10, CourseGoesOn

\* The answer to the trap.
LEMMA SimpleSecret ==
  ASSUME GuardInv, SimpleInv, RunSecret
  PROVE  SimpleInv'
<1>1. /\ input # none /\ Answers /\ input' = none /\ stack' = stack /\ run_depth' = run_depth
      /\ alias_table' = alias_table /\ ddf_waiting_secret' = FALSE
      /\ Ran(Unlocked) /\ simple' = simple
  BY DEF RunSecret, Return, Ran
<1>2. SUFFICES ASSUME simple PROVE SimpleInv'
  BY <1>1 DEF SimpleInv
<1>3. Held /\ Opening
  BY <1>1, <1>2 DEF SimpleInv, Held, OnCourse
<1>4. stack = <<>> /\ run_depth <= 0 /\ expected = <<Unlocked>> /\ TableOK(alias_table)
  BY <1>3, CourseParts DEF Opening
<1>5. Head(expected) = Unlocked /\ Tail(expected) = <<>> /\ expected # <<>>
  BY <1>4
<1>6. as_written' = TRUE /\ expected' = <<>> /\ (run_depth <= 0)'
  BY <1>1, <1>3, <1>4, <1>5 DEF Ran, Held
<1>7. Quiet(<<>>) /\ <<>> \in Seq(Said)
  BY EmptySeq DEF Quiet, Undisturbed, Lasting
<1>8. TableOK(alias_table') /\ Waits(alias_table', stack', 0, <<>>)
  BY <1>1, <1>4, WaitsEmpty
<1> QED BY <1>1, <1>6, <1>7, <1>8, CourseGoesOn

\* A command that is looked up and runs as it stands, and leaves the table
\* alone unless nothing is to follow.
LEMMA SimpleCommand ==
  ASSUME GuardInv, SimpleInv, LookedUp, ~Repeats(input),
         ~IsAlias(alias_table, Head(input)), Ran(input), Return,
         run_depth' = run_depth, TableOK(alias_table'),
         alias_table' = alias_table \/ Head(input) \in {"alias", "load"},
         ddf_waiting_secret' => DividesByZero(input)
  PROVE  SimpleInv'
<1>1. input' = none /\ stack' = stack /\ simple' = simple
  BY DEF Return, Ran
<1>2. SUFFICES ASSUME simple PROVE SimpleInv'
  BY <1>1 DEF SimpleInv
<1>3. PICK d \in Depths, r \in Seq(Said) :
           /\ Waits(alias_table, stack, d, r) /\ run_depth <= d
           /\ expected' = r /\ as_written' = TRUE
           /\ Quiet(r)
           /\ \A i \in 1 .. Len(r) : r[i] = input
           /\ Head(input) \in {"alias", "load"} => r = <<>>
           /\ ~IsAlias(alias_table, "actually")
  BY <1>2, RunsFirst
<1>4. Waits(alias_table', stack', d, r)
  <2>1. CASE alias_table' = alias_table
    BY <1>1, <1>3, <2>1
  <2>2. CASE Head(input) \in {"alias", "load"}
    <3>1. r = <<>> /\ TableOK(alias_table) /\ stack \in Seq(Frame)
      BY <1>3, <2>2, CourseParts
    <3>2. Waits(alias_table', stack, d, <<>>)
      BY <1>3, <3>1, WaitsNothing
    <3> QED BY <1>1, <3>1, <3>2
  <2> QED BY <2>1, <2>2
<1>5. r # <<>> => ~IsAlias(alias_table', "actually")
  BY <1>3
<1>6. (run_depth <= d)'
  BY <1>3
<1>7. ddf_waiting_secret' /\ stack' # <<>> => \A i \in 1 .. Len(r) : DividesByZero(r[i])
  BY <1>3
<1> QED BY <1>1, <1>3, <1>4, <1>5, <1>6, <1>7, CourseGoesOn

\* A command without an effect.
LEMMA SimplePlain ==
  ASSUME GuardInv, SimpleInv, RunPlain
  PROVE  SimpleInv'
<1>1. /\ LookedUp /\ Ran(input) /\ Return /\ run_depth' = run_depth
      /\ alias_table' = alias_table /\ ddf_waiting_secret' = FALSE
  BY DEF RunPlain, Disarm
<1>2. ~Repeats(input) /\ ~IsAlias(alias_table, Head(input))
  BY DEF RunPlain, Repeats, IsAlias, Builtin
<1> QED BY <1>1, <1>2, CourseParts, SimpleCommand

\* A division by zero lays the trap, and all that follows is the same division.
LEMMA SimpleAlu ==
  ASSUME GuardInv, SimpleInv, RunAlu
  PROVE  SimpleInv'
<1>1. /\ LookedUp /\ Ran(input) /\ Return /\ run_depth' = run_depth
      /\ alias_table' = alias_table /\ DividesByZero(input)
  BY DEF RunAlu
<1>2. ~Repeats(input) /\ ~IsAlias(alias_table, Head(input))
  BY <1>1 DEF DividesByZero, Repeats, IsAlias, Builtin
<1> QED BY <1>1, <1>2, CourseParts, SimpleCommand

\* The hidden mode is left.
LEMMA SimpleDdfLock ==
  ASSUME GuardInv, SimpleInv, RunDdfLock
  PROVE  SimpleInv'
<1>1. /\ LookedUp /\ Ran(input) /\ Return /\ run_depth' = run_depth
      /\ alias_table' = alias_table /\ ddf_waiting_secret' = FALSE
      /\ Head(input) = "ddf"
  BY DEF RunDdfLock
<1>2. ~Repeats(input) /\ ~IsAlias(alias_table, Head(input))
  BY <1>1 DEF Repeats, IsAlias
<1> QED BY <1>1, <1>2, CourseParts, SimpleCommand

\* The value of an alias is not empty.
LEMMA SimpleAlias ==
  ASSUME GuardInv, SimpleInv, RunAlias
  PROVE  SimpleInv'
<1>1. /\ LookedUp /\ Ran(input) /\ Return /\ run_depth' = run_depth
      /\ ddf_waiting_secret' = FALSE /\ Head(input) = "alias" /\ Len(input) >= 3
  BY DEF RunAlias, Disarm
<1>2. ~Repeats(input) /\ ~IsAlias(alias_table, Head(input))
  BY <1>1 DEF Repeats, IsAlias, Builtin
<1>3. TableOK(alias_table')
  <2>1. input \in Line
    BY <1>1, CourseParts DEF LookedUp
  <2>2. SubSeq(input, 3, Len(input)) \in Line \ {<<>>}
    BY <1>1, <2>1, RepeatedLength DEF Repeated
  <2>3. TableOK(alias_table)
    BY CourseParts
  <2> QED BY <2>2, <2>3 DEF RunAlias, TableOK
<1> QED BY <1>1, <1>2, <1>3, SimpleCommand

\* A load brings a table of aliases that stand for something.
LEMMA SimpleLoad ==
  ASSUME GuardInv, SimpleInv, RunLoad
  PROVE  SimpleInv'
<1>1. /\ LookedUp /\ Ran(input) /\ Return /\ run_depth' = run_depth
      /\ ddf_waiting_secret' = FALSE /\ Head(input) = "load"
  BY DEF RunLoad, Disarm
<1>2. ~Repeats(input) /\ ~IsAlias(alias_table, Head(input))
  BY <1>1 DEF Repeats, IsAlias, Builtin
<1>3. TableOK(alias_table')
  <2>1. \A table \in SavedTable : TableOK(table)
    BY ValueAssumption DEF SavedTable, TableOK
  <2> QED BY <2>1, CourseParts DEF RunLoad
<1> QED BY <1>1, <1>2, <1>3, SimpleCommand

\* A call goes on the stack: what it will start and what it owes make up what
\* the line that made it would have run.
LEMMA CourseGoesDeeper ==
  ASSUME GuardInv, SimpleInv, simple, LookedUp, NEW f \in Frame, NEW line \in Line,
         stack' = Append(stack, f), input' = line, Disarm,
         alias_table' = alias_table, UNCHANGED history_vars,
         run_depth' = Deeper(f, run_depth),
         f.kind = "repeat" => f.line # <<>>,
         \A d \in Depths :
           Now(d) # <<LoopError>> =>
             /\ Deeper(f, d) \in Depths
             /\ Now(d) = Runs(alias_table)[<<MaxDepth + 1 - Deeper(f, d), line>>]
                           \o Owed(alias_table, f, Deeper(f, d))
  PROVE  SimpleInv'
<1>1. /\ Held /\ OnCourse /\ TableOK(alias_table) /\ stack \in Seq(Frame)
      /\ run_depth \in Int
  BY CourseParts DEF SimpleInv, Held, Opening, LookedUp
<1>2. PICK d, r : /\ Waits(alias_table, stack, d, r) /\ run_depth <= d
                  /\ expected = Now(d) \o r
  BY <1>1 DEF OnCourse
<1>3. d \in Depths /\ r \in Seq(Said)
  BY <1>1, <1>2, WaitsType
<1>4. Now(d) # <<LoopError>>
  <2>1. SUFFICES ASSUME Now(d) = <<LoopError>> PROVE FALSE
    OBVIOUS
  <2>2. Quiet(<<LoopError>> \o r) /\ LoopError \in Said
    BY <1>1, <1>2, <2>1 DEF Held, Said
  <2> QED BY <1>3, <2>2, QuietRest
<1> DEFINE e == Deeper(f, d)
           o == Owed(alias_table, f, e)
           runs == Runs(alias_table)[<<MaxDepth + 1 - e, line>>]
<1>5. e \in Depths /\ Now(d) = runs \o o
  BY <1>3, <1>4
<1>6. runs \in Seq(Said) /\ o \in Seq(Said)
  <2>1. MaxDepth + 1 - e \in Nat
    BY <1>5, SizeAssumption DEF Depths
  <2>2. runs \in Seq(Said)
    BY <1>1, <2>1, RunsType
  <2> QED BY <1>1, <1>5, <2>2, OwedType
<1>7. Waits(alias_table', stack', e, o \o r)
  <2>1. Waits(alias_table, Append(stack, f), e, o \o r)
    BY <1>1, <1>2, <1>5, WaitsPush
  <2> QED BY <2>1
<1>8. (run_depth <= e)'
  <2>1. d \in Int
    BY <1>3, SizeAssumption DEF Depths
  <2> QED BY <1>1, <1>2, <2>1 DEF Deeper
<1>9. Now(e)' = runs
  <2>1. line # none
    BY NoneAssumption
  <2> QED BY <2>1 DEF Now
<1>10. expected' = Now(e)' \o (o \o r)
  <2>1. expected' = expected
    BY DEF history_vars
  <2> HIDE DEF runs, o
  <2>2. (runs \o o) \o r = runs \o (o \o r)
    BY ONLY <1>3, <1>6, ConcatAssociative
  <2> QED BY <1>2, <1>5, <1>9, <2>1, <2>2
<1>11. ddf_waiting_secret' = FALSE
  BY DEF Disarm
<1> HIDE DEF e, o, runs
<1>12. OnCourse'
  <2>1. \E x, y : /\ Waits(alias_table', stack', x, y) /\ run_depth' <= x
                  /\ expected' = Now(x)' \o y
    BY <1>7, <1>8, <1>10
  <2> QED BY <1>11, <2>1 DEF OnCourse, Answers
<1>13. TrapOfLine'
  BY <1>11 DEF TrapOfLine
<1> QED BY <1>1, <1>12, <1>13 DEF SimpleInv, Held, history_vars

\* repeat makes its first call and owes the others.
LEMMA SimpleRepeat ==
  ASSUME GuardInv, SimpleInv, RunRepeat
  PROVE  SimpleInv'
<1> DEFINE line == Repeated(input)
           m == IntOf(input[2]) - 1
           f == [kind |-> "repeat", line |-> line, left |-> m]
<1>1. /\ LookedUp /\ Repeats(input) /\ stack' = Append(stack, f) /\ input' = line
      /\ Disarm /\ alias_table' = alias_table /\ run_depth' = run_depth
      /\ UNCHANGED history_vars /\ simple' = simple
  BY DEF RunRepeat, history_vars
<1>2. SUFFICES ASSUME simple PROVE SimpleInv'
  BY <1>1 DEF SimpleInv
<1>3. TableOK(alias_table) /\ input \in Line /\ input # <<>> /\ input # none
  BY <1>1, CourseParts DEF LookedUp
<1>4. m \in Nat /\ m \in 0 .. CountMax /\ IntOf(input[2]) = m + 1
  BY <1>1, SizeAssumption DEF Repeats
<1>5. line \in Line /\ line # <<>>
  <2>1. Len(input) >= 3
    BY <1>1 DEF Repeats
  <2> QED BY <1>3, <2>1, RepeatedLength
<1> HIDE DEF m
<1>6. /\ f \in Frame /\ f.kind = "repeat" /\ f.line = line /\ f.left = m
  BY <1>4, <1>5 DEF Frame
<1> HIDE DEF line, f
<1>7. ASSUME NEW d \in Depths
      PROVE  Now(d) = Runs(alias_table)[<<MaxDepth + 1 - d, line>>] \o Owed(alias_table, f, d)
  <2> DEFINE runs == Runs(alias_table)[<<MaxDepth + 1 - d, line>>]
  <2>1. MaxDepth + 1 - d \in Nat
    BY SizeAssumption DEF Depths
  <2>2. runs \in Seq(Said)
    BY <1>3, <1>5, <2>1, RunsType
  <2>3. Now(d) = Times(m + 1, runs)
    BY <1>1, <1>3, <1>4, <2>1, RepeatRuns DEF Now, line
  <2>4. Owed(alias_table, f, d) = Times(m, runs)
    BY <1>6 DEF Owed
  <2> HIDE DEF runs
  <2>5. Times(m + 1, runs) = runs \o Times(m, runs)
    BY <1>4, <2>2, TimesNext
  <2> QED BY <2>3, <2>4, <2>5 DEF runs
<1>8. \A x : Deeper(f, x) = x
  BY <1>6 DEF Deeper
<1>9. run_depth' = Deeper(f, run_depth)
  BY <1>1, <1>8
<1>10. \A d \in Depths :
         Now(d) # <<LoopError>> =>
           /\ Deeper(f, d) \in Depths
           /\ Now(d) = Runs(alias_table)[<<MaxDepth + 1 - Deeper(f, d), line>>]
                         \o Owed(alias_table, f, Deeper(f, d))
  BY <1>7, <1>8
<1>11. f.kind = "repeat" => f.line # <<>>
  BY <1>5, <1>6
<1> QED BY <1>1, <1>2, <1>5, <1>6, <1>9, <1>10, <1>11, CourseGoesDeeper

\* An alias goes one expansion deeper.
LEMMA SimpleExpand ==
  ASSUME GuardInv, SimpleInv, Expand
  PROVE  SimpleInv'
<1> DEFINE line == alias_table[Head(input)] \o Tail(input)
           f == [kind |-> "alias"]
<1>1. /\ LookedUp /\ IsAlias(alias_table, Head(input)) /\ stack' = Append(stack, f)
      /\ input' = line
      /\ Disarm /\ alias_table' = alias_table /\ run_depth' = run_depth + 1
      /\ UNCHANGED history_vars /\ simple' = simple
  BY DEF Expand, history_vars
<1>2. SUFFICES ASSUME simple PROVE SimpleInv'
  BY <1>1 DEF SimpleInv
<1>3. TableOK(alias_table) /\ input \in Line /\ input # <<>> /\ input # none
  BY <1>1, CourseParts DEF LookedUp
<1>4. ~Repeats(input)
  BY <1>1 DEF Repeats, IsAlias, Builtin
<1>5. line \in Line
  BY <1>1, <1>3, <1>4, AliasRuns, SizeAssumption
<1>6. f \in Frame /\ f.kind = "alias" /\ f.kind # "repeat"
  BY DEF Frame
<1> HIDE DEF line, f
<1>7. ASSUME NEW d \in Depths, Now(d) # <<LoopError>>
      PROVE  /\ d + 1 \in Depths
             /\ Now(d) = Runs(alias_table)[<<MaxDepth + 1 - (d + 1), line>>]
                           \o Owed(alias_table, f, d + 1)
  <2> DEFINE n == MaxDepth + 1 - d
  <2>1. n \in Nat
    BY SizeAssumption DEF Depths
  <2>2. Now(d) = IF n = 0 THEN <<LoopError>> ELSE Runs(alias_table)[<<n - 1, line>>]
    <3> HIDE DEF n
    <3>1. Runs(alias_table)[<<n, input>>]
            = IF n = 0 THEN <<LoopError>> ELSE Runs(alias_table)[<<n - 1, line>>]
      BY <1>1, <1>3, <1>4, <2>1, AliasRuns DEF line
    <3> QED BY <1>3, <3>1 DEF Now, n
  <2>3. n # 0
    BY <1>7, <2>2
  <2>4. d + 1 \in Depths /\ n - 1 \in Nat /\ MaxDepth + 1 - (d + 1) = n - 1
    BY <2>1, <2>3, SizeAssumption DEF Depths
  <2>5. Runs(alias_table)[<<n - 1, line>>] \in Seq(Said)
    BY <1>3, <1>5, <2>4, RunsType
  <2>6. Owed(alias_table, f, d + 1) = <<>>
    BY <1>6 DEF Owed
  <2> HIDE DEF n
  <2>7. Runs(alias_table)[<<n - 1, line>>] \o <<>> = Runs(alias_table)[<<n - 1, line>>]
    BY <2>5, ConcatEmptySeq
  <2> QED BY <2>2, <2>3, <2>4, <2>6, <2>7
<1>8. \A x : Deeper(f, x) = x + 1
  BY <1>6 DEF Deeper
<1>9. run_depth' = Deeper(f, run_depth)
  BY <1>1, <1>8
<1>10. \A d \in Depths :
         Now(d) # <<LoopError>> =>
           /\ Deeper(f, d) \in Depths
           /\ Now(d) = Runs(alias_table)[<<MaxDepth + 1 - Deeper(f, d), line>>]
                         \o Owed(alias_table, f, Deeper(f, d))
  BY <1>7, <1>8
<1> QED BY <1>1, <1>2, <1>5, <1>6, <1>9, <1>10, CourseGoesDeeper

\* The loop is never detected: the counter is at most the depth, and the line
\* has no loop.
LEMMA SimpleLoop ==
  ASSUME GuardInv, SimpleInv, LoopDetected
  PROVE  SimpleInv'
<1>1. /\ LookedUp /\ IsAlias(alias_table, Head(input)) /\ run_depth > MaxDepth
      /\ alias_table' = alias_table /\ simple' = simple
  BY DEF LoopDetected, Ran
<1>2. SUFFICES ASSUME simple PROVE FALSE
  BY <1>1 DEF SimpleInv
<1>3. /\ TableOK(alias_table) /\ input \in Line /\ input # <<>> /\ input # none
      /\ stack \in Seq(Frame) /\ run_depth \in Int
  BY <1>1, CourseParts DEF LookedUp
<1>4. Held /\ OnCourse
  BY <1>1, <1>2 DEF SimpleInv, Held, Opening, LookedUp
<1>5. PICK d, r : /\ Waits(alias_table, stack, d, r) /\ run_depth <= d
                  /\ expected = Now(d) \o r
  BY <1>4 DEF OnCourse
<1>6. d \in Depths /\ r \in Seq(Said)
  BY <1>3, <1>5, WaitsType
<1>7. MaxDepth + 1 - d = 0
  BY <1>1, <1>3, <1>5, <1>6, SizeAssumption DEF Depths
<1>8. ~Repeats(input)
  BY <1>1 DEF Repeats, IsAlias, Builtin
<1>9. Runs(alias_table)[<<0, input>>] = <<LoopError>>
  <2>1. 0 \in Nat
    OBVIOUS
  <2> QED BY <1>1, <1>3, <1>8, <2>1, AliasRuns
<1>10. Quiet(<<LoopError>> \o r) /\ LoopError \in Said
  BY <1>3, <1>4, <1>5, <1>7, <1>9 DEF Now, Held, Said
<1> QED BY <1>6, <1>10, QuietRest

\* An expansion returns.
LEMMA SimpleFromAlias ==
  ASSUME GuardInv, SimpleInv, FromAlias
  PROVE  SimpleInv'
<1>1. /\ input = none /\ stack # <<>> /\ stack[Len(stack)].kind = "alias"
      /\ stack' = SubSeq(stack, 1, Len(stack) - 1)
      /\ run_depth' = run_depth - 1 /\ alias_table' = alias_table /\ input' = none
      /\ expected' = expected /\ as_written' = as_written /\ simple' = simple
      /\ ddf_waiting_secret' = ddf_waiting_secret
  BY DEF FromAlias, Returning, Pop, history_vars, ddf_vars
<1>2. SUFFICES ASSUME simple PROVE SimpleInv'
  BY <1>1 DEF SimpleInv
<1>3. Held /\ OnCourse /\ TableOK(alias_table) /\ stack \in Seq(Frame) /\ run_depth \in Int
  BY <1>1, <1>2, CourseParts DEF SimpleInv, Held, Opening
<1>4. PICK d, r : /\ Waits(alias_table, stack, d, r) /\ run_depth <= d
                  /\ expected = Now(d) \o r
  BY <1>3 DEF OnCourse
<1> DEFINE pop == SubSeq(stack, 1, Len(stack) - 1)
           f == stack[Len(stack)]
<1>5. PICK e, q : /\ Waits(alias_table, pop, e, q)
                  /\ d = Deeper(f, e) /\ r = Owed(alias_table, f, d) \o q
  <2>1. stack \in Seq(Frame) /\ stack # <<>> /\ Waits(alias_table, stack, d, r)
    BY <1>1, <1>3, <1>4
  <2>2. \E e, q : /\ Waits(alias_table, SubSeq(stack, 1, Len(stack) - 1), e, q)
                  /\ d = Deeper(stack[Len(stack)], e)
                  /\ r = Owed(alias_table, stack[Len(stack)], d) \o q
                  /\ stack[Len(stack)].kind = "repeat" => stack[Len(stack)].line # <<>>
    BY ONLY <2>1, WaitsPop
  <2> QED BY <2>2
<1>6. pop \in Seq(Frame)
  BY <1>1, <1>3, CallsPop
<1>7. e \in Depths /\ q \in Seq(Said)
  <2> HIDE DEF pop
  <2> QED BY <1>5, <1>6, WaitsType
<1> HIDE DEF pop
<1>8. d = e + 1 /\ r = q /\ expected = q
  <2>1. d = e + 1 /\ Owed(alias_table, f, d) = <<>>
    BY <1>1, <1>5 DEF Deeper, Owed
  <2>2. r = q
    BY <1>5, <1>7, <2>1, ConcatEmptySeq
  <2> QED BY <1>1, <1>4, <1>7, <2>1, <2>2, ConcatEmptySeq DEF Now
<1>9. Waits(alias_table', stack', e, q) /\ (run_depth <= e)'
  <2>1. e \in Int
    BY <1>7, SizeAssumption DEF Depths
  <2> QED BY <1>1, <1>3, <1>4, <1>5, <1>8, <2>1 DEF pop
<1>10. /\ as_written' = TRUE /\ expected' = q /\ Quiet(q)
       /\ q # <<>> => ~IsAlias(alias_table', "actually")
       /\ ddf_waiting_secret' /\ stack' # <<>> => \A i \in 1 .. Len(q) : DividesByZero(q[i])
  BY <1>1, <1>3, <1>8 DEF Held, TrapOfLine
<1> QED BY <1>1, <1>3, <1>7, <1>9, <1>10, CourseGoesOn

\* A call of repeat returns: it makes the next one, or it is done.
LEMMA SimpleFromRepeat ==
  ASSUME GuardInv, SimpleInv, FromRepeat
  PROVE  SimpleInv'
<1> DEFINE pop == SubSeq(stack, 1, Len(stack) - 1)
           f == stack[Len(stack)]
           again == [f EXCEPT !.left = @ - 1]
<1>1. /\ input = none /\ stack # <<>> /\ f.kind = "repeat"
      /\ run_depth' = run_depth /\ alias_table' = alias_table
      /\ expected' = expected /\ as_written' = as_written /\ simple' = simple
      /\ ddf_waiting_secret' = ddf_waiting_secret
      /\ ddf_last_numerator' = ddf_last_numerator
  BY DEF FromRepeat, Returning, history_vars, ddf_vars
<1>2. SUFFICES ASSUME simple PROVE SimpleInv'
  BY <1>1 DEF SimpleInv
<1>3. Held /\ OnCourse /\ TableOK(alias_table) /\ stack \in Seq(Frame) /\ run_depth \in Int
  BY <1>1, <1>2, CourseParts DEF SimpleInv, Held, Opening
<1>4. PICK d, r : /\ Waits(alias_table, stack, d, r) /\ run_depth <= d
                  /\ expected = Now(d) \o r
  BY <1>3 DEF OnCourse
<1>5. PICK e, q : /\ Waits(alias_table, pop, e, q)
                  /\ d = Deeper(f, e) /\ r = Owed(alias_table, f, d) \o q
                  /\ f.line # <<>>
  <2>1. stack \in Seq(Frame) /\ stack # <<>> /\ Waits(alias_table, stack, d, r)
    BY <1>1, <1>3, <1>4
  <2>2. \E e, q : /\ Waits(alias_table, SubSeq(stack, 1, Len(stack) - 1), e, q)
                  /\ d = Deeper(stack[Len(stack)], e)
                  /\ r = Owed(alias_table, stack[Len(stack)], d) \o q
                  /\ stack[Len(stack)].kind = "repeat" => stack[Len(stack)].line # <<>>
    BY ONLY <2>1, WaitsPop
  <2> QED BY <1>1, <2>2
<1>6. pop \in Seq(Frame) /\ f \in Frame
  BY <1>1, <1>3, CallsPop
<1>7. e \in Depths /\ q \in Seq(Said) /\ r \in Seq(Said)
  <2>1. r \in Seq(Said)
    BY <1>3, <1>4, WaitsType
  <2> HIDE DEF pop, f
  <2> QED BY <1>5, <1>6, <2>1, WaitsType
<1>8. f.line \in Line /\ f.left \in 0 .. CountMax /\ f = [kind |-> "repeat", line |-> f.line, left |-> f.left]
  <2> HIDE DEF f
  <2> QED BY <1>1, <1>6 DEF Frame
<1> DEFINE runs == Runs(alias_table)[<<MaxDepth + 1 - d, f.line>>]
<1>9. /\ d = e /\ expected = r /\ r = Times(f.left, runs) \o q
  <2>1. d = e
    BY <1>1, <1>5 DEF Deeper
  <2>2. expected = r
    BY <1>1, <1>4, <1>7, ConcatEmptySeq DEF Now
  <2> QED BY <1>1, <1>5, <2>1, <2>2 DEF Owed
<1>10. MaxDepth + 1 - d \in Nat /\ runs \in Seq(Said) /\ Sound(runs, f.line)
  <2>1. MaxDepth + 1 - d \in Nat
    BY <1>7, <1>9, SizeAssumption DEF Depths
  <2> DEFINE n == MaxDepth + 1 - d
  <2>2. <<n, f.line>> \in Calls
    BY <1>8, <2>1 DEF Calls
  <2> HIDE DEF f, n
  <2>3. Sound(Runs(alias_table)[<<n, f.line>>], <<n, f.line>>[2])
    BY <1>3, <2>2, RunsSound
  <2> QED BY <2>1, <2>3 DEF Sound, n
<1> HIDE DEF runs
<1>11. /\ Quiet(r) /\ as_written' = TRUE
       /\ r # <<>> => ~IsAlias(alias_table', "actually")
       /\ ddf_waiting_secret => \A i \in 1 .. Len(r) : DividesByZero(r[i])
  BY <1>1, <1>3, <1>9 DEF Held, TrapOfLine
<1>12. CASE f.left = 0
  <2>1. stack' = pop /\ input' = none
    BY <1>12 DEF FromRepeat, Pop
  <2>2. r = q
    <3>1. Times(0, runs) = <<>>
      BY <1>10, TimesZero
    <3> QED BY <1>7, <1>9, <1>12, <3>1, ConcatEmptySeq
  <2>3. Waits(alias_table', stack', d, r) /\ (run_depth <= d)'
    BY <1>1, <1>4, <1>5, <1>9, <2>1, <2>2
  <2>4. expected' = r /\ TableOK(alias_table')
    BY <1>1, <1>3, <1>9
  <2>5. ddf_waiting_secret' /\ stack' # <<>> => \A i \in 1 .. Len(r) : DividesByZero(r[i])
    BY <1>1, <1>11
  <2> QED BY <1>7, <1>11, <2>1, <2>3, <2>4, <2>5, CourseGoesOn
<1>13. CASE f.left # 0
  <2>1. stack' = Append(pop, again) /\ input' = f.line /\ f.line # none
    BY <1>8, <1>13, NoneAssumption DEF FromRepeat, Pop
  <2>2. PICK m \in Nat : f.left = m + 1 /\ m \in 0 .. CountMax
    <3>1. f.left - 1 \in Nat /\ f.left = (f.left - 1) + 1 /\ f.left - 1 \in 0 .. CountMax
      BY <1>8, <1>13, SizeAssumption
    <3> QED BY <3>1
  <2>3. /\ again \in Frame /\ again.kind = "repeat" /\ again.line = f.line /\ again.left = m
    <3>1. again = [kind |-> "repeat", line |-> f.line, left |-> m]
      BY <1>8, <2>2
    <3> QED BY <1>8, <2>2, <3>1 DEF Frame
  <2> HIDE DEF again
  <2>4. Times(f.left, runs) = runs \o Times(m, runs) /\ Times(m, runs) \in Seq(Said)
    BY <1>10, <2>2, TimesNext, TimesType
  <2>5. r = runs \o (Times(m, runs) \o q)
    <3> DEFINE t == Times(m, runs)
    <3>1. t \in Seq(Said) /\ runs \in Seq(Said) /\ q \in Seq(Said)
      BY <1>7, <1>10, <2>4
    <3>2. r = (runs \o t) \o q
      BY <1>9, <2>4
    <3> HIDE DEF t
    <3>3. (runs \o t) \o q = runs \o (t \o q)
      BY ONLY <3>1, ConcatAssociative
    <3> QED BY <3>2, <3>3 DEF t
  <2>6. Waits(alias_table', stack', d, Times(m, runs) \o q)
    <3>1. Deeper(again, e) = d /\ Owed(alias_table, again, d) = Times(m, runs)
      BY <1>9, <2>3 DEF Deeper, Owed, runs
    <3>2. Waits(alias_table, Append(pop, again), Deeper(again, e),
                Owed(alias_table, again, Deeper(again, e)) \o q)
      <4> HIDE DEF pop
      <4>1. Deeper(again, e) \in Depths /\ (again.kind = "repeat" => again.line # <<>>)
        BY <1>5, <1>7, <1>9, <2>3, <3>1
      <4> QED BY <1>3, <1>5, <1>6, <2>3, <4>1, WaitsPush
    <3> QED BY <1>1, <2>1, <3>1, <3>2
  <2>7. Now(d)' = runs
    BY <1>1, <2>1 DEF Now, runs
  <2>8. expected' = Now(d)' \o (Times(m, runs) \o q)
    BY <1>1, <1>9, <2>5, <2>7
  <2>9. ~Answers'
    <3>1. SUFFICES ASSUME ddf_waiting_secret, f.line = Sentence(ddf_last_numerator) PROVE FALSE
      BY <1>1, <2>1 DEF Answers
    <3>2. Head(f.line) = "actually" /\ f.line[1] = "actually"
      BY <3>1 DEF Sentence
    <3>3. r # <<>> /\ r[1] = runs[1] /\ Len(r) \in Nat \ {0}
      <4>1. runs # <<>>
        BY <1>10, <1>5 DEF Sound
      <4>2. Len(runs) \in Nat \ {0}
        BY <4>1, <1>10, EmptySeq
      <4>3. Times(m, runs) \o q \in Seq(Said)
        BY <2>4, <1>7, ConcatProperties
      <4>4. Len(Times(m, runs) \o q) \in Nat
        BY <4>3, LenProperties
      <4> DEFINE rest == Times(m, runs) \o q
      <4>5. /\ Len(runs \o rest) = Len(runs) + Len(rest)
            /\ (runs \o rest)[1] = runs[1]
        <5> HIDE DEF rest
        <5>1. /\ Len(runs \o rest) = Len(runs) + Len(rest)
              /\ \A i \in 1 .. Len(runs) + Len(rest) :
                   (runs \o rest)[i] = IF i <= Len(runs) THEN runs[i] ELSE rest[i - Len(runs)]
          BY ONLY <1>10, <4>3, ConcatProperties DEF rest
        <5>2. Len(rest) \in Nat
          BY <4>4 DEF rest
        <5> QED BY <4>2, <5>1, <5>2
      <4>6. Len(r) = Len(runs) + Len(rest) /\ r[1] = runs[1]
        BY <2>5, <4>5
      <4> HIDE DEF rest
      <4>7. Len(r) \in Nat \ {0}
        BY <4>2, <4>4, <4>6 DEF rest
      <4> QED BY <4>6, <4>7, <1>7, EmptySeq
    <3>4. ~IsAlias(alias_table, "actually")
      BY <1>1, <1>11, <3>3
    <3>5. runs = <<f.line>>
      <4>1. ~Repeats(f.line) /\ ~IsAlias(alias_table, Head(f.line))
        BY <3>2, <3>4 DEF Repeats
      <4> HIDE DEF f
      <4> QED BY <1>3, <1>5, <1>8, <1>10, <4>1, PlainRunsItself DEF runs
    <3>6. DividesByZero(f.line)
      <4>1. 1 \in 1 .. Len(r)
        BY <3>3
      <4>2. DividesByZero(r[1])
        BY <1>11, <3>1, <4>1
      <4> QED BY <3>3, <3>5, <4>2
    <3> QED BY <3>2, <3>6 DEF DividesByZero
  <2>10. OnCourse'
    <3>1. \E x, y : /\ Waits(alias_table', stack', x, y) /\ run_depth' <= x
                    /\ expected' = Now(x)' \o y
      BY <1>1, <1>4, <2>6, <2>8
    <3> QED BY <2>9, <3>1 DEF OnCourse
  <2>11. TrapOfLine'
    BY <1>1, <1>9, <1>11 DEF TrapOfLine
  <2> QED BY <1>1, <1>3, <1>9, <1>11, <2>10, <2>11 DEF SimpleInv, Held
<1> QED BY <1>12, <1>13

\* At power-on.
LEMMA SimpleInit == Init => SimpleInv
<1> SUFFICES ASSUME Init PROVE SimpleInv
  OBVIOUS
<1>1. /\ TableOK(alias_table) /\ stack = <<>> /\ input = none /\ run_depth <= 0
      /\ expected = <<>> /\ as_written = TRUE
  BY DEF Init, TableOK
<1>2. Now(0) = <<>> /\ Waits(alias_table, stack, 0, <<>>)
  BY <1>1, WaitsEmpty DEF Now
<1>3. expected = Now(0) \o <<>>
  BY <1>1, <1>2
<1>4. OnCourse
  BY <1>1, <1>2, <1>3 DEF OnCourse
<1>5. Quiet(expected) /\ TrapOfLine
  BY <1>1 DEF Quiet, Undisturbed, Lasting, TrapOfLine
<1> QED BY <1>1, <1>4, <1>5 DEF SimpleInv, Held

\* One step.
LEMMA SimpleNext == GuardInv /\ SimpleInv /\ [Next]_vars => SimpleInv'
<1> SUFFICES ASSUME GuardInv, SimpleInv, [Next]_vars PROVE SimpleInv'
  OBVIOUS
<1>1. ASSUME NEW line \in Typed, TypeLine(line) PROVE SimpleInv'
  BY <1>1, SimpleTyped, TypedAssumption
<1>2. ASSUME NEW name \in AliasName, NEW v \in Value,
             TypeLine(<<"alias", name>> \o v)
      PROVE  SimpleInv'
  <2>1. <<"alias", name>> \in Line /\ v \in Line
    BY ValueAssumption DEF Line, Word, Builtin
  <2>2. <<"alias", name>> \o v \in Line
    BY <2>1, ConcatProperties DEF Line
  <2> QED BY <2>2, <1>2, SimpleTyped
<1>3. CASE Reboot
  BY <1>3, SimpleReboot
<1>4. CASE RunBlank
  BY <1>4, SimpleBlank
<1>5. CASE RunSecret
  BY <1>5, SimpleSecret
<1>6. CASE RunPlain
  BY <1>6, SimplePlain
<1>7. CASE RunAlu
  BY <1>7, SimpleAlu
<1>8. CASE RunDdfLock
  BY <1>8, SimpleDdfLock
<1>9. CASE RunAlias
  BY <1>9, SimpleAlias
<1>10. CASE RunLoad
  BY <1>10, SimpleLoad
<1>11. CASE RunRepeat
  BY <1>11, SimpleRepeat
<1>12. CASE Expand
  BY <1>12, SimpleExpand
<1>13. CASE LoopDetected
  BY <1>13, SimpleLoop
<1>14. CASE FromAlias
  BY <1>14, SimpleFromAlias
<1>15. CASE FromRepeat
  BY <1>15, SimpleFromRepeat
<1>16. CASE UNCHANGED vars
  <2>1. \A d : Now(d)' = Now(d)
    BY <1>16 DEF vars, Now
  <2>2. Answers' = Answers
    BY <1>16 DEF vars, ddf_vars, Answers
  <2>3. OnCourse' = OnCourse /\ Opening' = Opening
    BY <1>16, <2>1, <2>2 DEF vars, history_vars, OnCourse, Opening
  <2>4. TrapOfLine' = TrapOfLine
    BY <1>16 DEF vars, ddf_vars, history_vars, TrapOfLine
  <2> QED BY <1>16, <2>3, <2>4 DEF vars, history_vars, SimpleInv, Held
<1> QED
  BY <1>1, <1>2, <1>3, <1>4, <1>5, <1>6, <1>7, <1>8, <1>9, <1>10, <1>11, <1>12,
     <1>13, <1>14, <1>15, <1>16 DEF Next, Step

\* A line whose meaning has no loop, and changes no alias it still needs, runs
\* the commands it means, in order and nothing else, however earlier loops have
\* left run_depth and whatever trap is set on the way, unless "actually", the
\* first word of the answer to the trap, is an alias (shell.c, run(), and
\* commands.c, cmd_repeat()).
THEOREM SimpleLines == Spec => []SimpleLinesRunAsWritten
<1>1. GuardInv /\ SimpleInv => SimpleLinesRunAsWritten
  <2> SUFFICES ASSUME GuardInv, SimpleInv, simple PROVE Faithful
    BY DEF SimpleLinesRunAsWritten
  <2>1. Held
    BY DEF SimpleInv
  <2>2. ASSUME Idle PROVE expected = <<>>
    <3>1. input = none /\ stack = <<>> /\ OnCourse
      BY <2>1, <2>2 DEF Idle, Held, Opening
    <3>2. PICK d, r : Waits(alias_table, <<>>, d, r) /\ expected = <<>> \o r
      BY <3>1 DEF OnCourse, Now
    <3>3. r = <<>>
      BY <3>2, WaitsEmpty
    <3> QED BY <3>2, <3>3
  <2> QED BY <2>1, <2>2 DEF Held, Faithful
<1> QED BY <1>1, GuardInit, GuardNext, SimpleInit, SimpleNext, PTL DEF Spec

-----------------------------------------------------------------------------
(* Types.  GuardNext says what the control keeps; what is left is the size *)
(* of the table and the histories.                                         *)

TableFits ==
  /\ DOMAIN alias_table \subseteq Word
  /\ Cardinality(DOMAIN alias_table) <= ALIAS_MAX
  /\ TableOK(alias_table)

RestOK ==
  /\ run_depth <= MaxDepth + 1
  /\ ddf_waiting_secret \in BOOLEAN
  /\ ddf_last_numerator \in Number
  /\ ddf_unlocked \in BOOLEAN
  /\ expected \in Seq(Said)
  /\ as_written \in BOOLEAN
  /\ simple \in BOOLEAN
  /\ settled \in BOOLEAN

\* Five things are finitely many.
LEMMA FiveFinite ==
  ASSUME NEW a, NEW b, NEW c, NEW d, NEW e
  PROVE  IsFiniteSet({a, b, c, d, e})
<1>1. IsFiniteSet({a})
  BY FS_Singleton
<1>2. IsFiniteSet({a} \cup {b})
  BY <1>1, FS_AddElement
<1>3. IsFiniteSet(({a} \cup {b}) \cup {c})
  BY <1>2, FS_AddElement
<1>4. IsFiniteSet((({a} \cup {b}) \cup {c}) \cup {d})
  BY <1>3, FS_AddElement
<1>5. IsFiniteSet(((({a} \cup {b}) \cup {c}) \cup {d}) \cup {e})
  BY <1>4, FS_AddElement
<1>6. {a, b, c, d, e} = ((({a} \cup {b}) \cup {c}) \cup {d}) \cup {e}
  OBVIOUS
<1> QED BY <1>5, <1>6

\* There are finitely many words.
LEMMA WordsFinite == IsFiniteSet(Word)
<1> DEFINE some == {"ddf", "lock", "/", "actually", "divided"}
           more == {"by", "is", "undefined", "indeterminate", "indeterminate"}
<1>1. IsFiniteSet(Builtin) /\ IsFiniteSet(some) /\ IsFiniteSet(more)
  BY FiveFinite DEF Builtin
<1>2. IsFiniteSet(Number)
  <2>1. IsFiniteSet({"0", "1", "2", "3", "3"})
    BY FiveFinite
  <2>2. Number = {"0", "1", "2", "3", "3"}
    BY DEF Number
  <2> QED BY <2>1, <2>2
<1>3. IsFiniteSet(AliasName)
  BY NameAssumption
<1>4. IsFiniteSet(((Builtin \cup Number) \cup AliasName) \cup (some \cup more))
  <2> HIDE DEF some, more
  <2>1. IsFiniteSet(some \cup more)
    BY <1>1, FS_Union
  <2>2. IsFiniteSet(Builtin \cup Number)
    BY <1>1, <1>2, FS_Union
  <2>3. IsFiniteSet((Builtin \cup Number) \cup AliasName)
    BY <1>3, <2>2, FS_Union
  <2> QED BY <2>1, <2>3, FS_Union
<1>5. Word = ((Builtin \cup Number) \cup AliasName) \cup (some \cup more)
  <2>1. some \cup more = {"ddf", "lock", "/", "actually", "divided", "by", "is",
                          "undefined", "indeterminate"}
    OBVIOUS
  <2> HIDE DEF some, more
  <2> QED BY <2>1 DEF Word
<1> QED BY <1>4, <1>5

\* A table a load brings fits.
LEMMA SavedFits ==
  \A table \in SavedTable :
    /\ DOMAIN table \subseteq Word /\ Cardinality(DOMAIN table) <= ALIAS_MAX
    /\ TableOK(table)
BY ValueAssumption DEF SavedTable, TableOK, Word

\* Another entry.
LEMMA AliasFits ==
  ASSUME GuardInv, TableFits, RunAlias
  PROVE  TableFits'
<1>1. input \in Line /\ Len(input) >= 3
  BY DEF RunAlias, LookedUp, GuardInv, ControlOK
<1>2. input[2] \in Word /\ SubSeq(input, 3, Len(input)) \in Line \ {<<>>}
  <2>1. 2 \in 1 .. Len(input)
    BY <1>1, LenProperties DEF Line
  <2> QED BY <1>1, <2>1, ElementOfSeq, RepeatedLength DEF Repeated, Line
<1> DEFINE name == input[2]
           value == SubSeq(input, 3, Len(input))
<1>3. CASE ~HasRoom(name)
  BY <1>3 DEF RunAlias, TableFits
<1>4. CASE HasRoom(name)
  <2>1. alias_table' = [n \in DOMAIN alias_table \cup {name} |->
                          IF n = name THEN value ELSE alias_table[n]]
    BY <1>4 DEF RunAlias
  <2> HIDE DEF name, value
  <2>2. TableOK(alias_table') /\ DOMAIN alias_table' = DOMAIN alias_table \cup {name}
        /\ DOMAIN alias_table' \subseteq Word
    <3>1. name \in Word /\ value \in Line \ {<<>>}
      BY <1>2 DEF name, value
    <3> QED BY <2>1, <3>1 DEF TableFits, TableOK
  <2>3. IsFiniteSet(DOMAIN alias_table)
    BY WordsFinite, FS_Subset DEF TableFits
  <2>4. Cardinality(DOMAIN alias_table) \in Nat
    BY <2>3, FS_CardinalityType
  <2>5. Cardinality(DOMAIN alias_table \cup {name}) <= ALIAS_MAX
    <3>1. CASE name \in DOMAIN alias_table
      <4>1. DOMAIN alias_table \cup {name} = DOMAIN alias_table
        BY <3>1
      <4> QED BY <4>1 DEF TableFits
    <3>2. CASE name \notin DOMAIN alias_table
      <4>1. Cardinality(DOMAIN alias_table \cup {name}) = Cardinality(DOMAIN alias_table) + 1
        BY <2>3, <3>2, FS_AddElement
      <4>2. Cardinality(DOMAIN alias_table) < ALIAS_MAX
        BY <1>4, <3>2 DEF HasRoom
      <4> QED BY <2>4, <4>1, <4>2, SizeAssumption
    <3> QED BY <3>1, <3>2
  <2> QED BY <2>2, <2>5 DEF TableFits
<1> QED BY <1>3, <1>4

\* One step keeps the table in its bounds.
LEMMA FitsNext == GuardInv /\ TableFits /\ [Next]_vars => TableFits'
<1> SUFFICES ASSUME GuardInv, TableFits, [Next]_vars PROVE TableFits'
  OBVIOUS
<1>1. CASE alias_table' = alias_table
  BY <1>1 DEF TableFits
<1>2. CASE alias_table' \in SavedTable
  BY <1>2, SavedFits DEF TableFits
<1>3. CASE RunAlias
  BY <1>3, AliasFits
<1>4. alias_table' = alias_table \/ alias_table' \in SavedTable \/ RunAlias
  BY DEF Next, Step, TypeLine, Reboot, RunBlank, RunSecret, RunPlain, RunAlu, RunDdfLock,
         RunLoad, RunRepeat, Expand, LoopDetected, FromAlias, FromRepeat, vars
<1> QED BY <1>1, <1>2, <1>3, <1>4

\* What runs is taken off what is expected.
LEMMA RanType ==
  ASSUME RestOK, NEW what, Ran(what)
  PROVE  /\ expected' \in Seq(Said) /\ as_written' \in BOOLEAN
         /\ simple' \in BOOLEAN /\ settled' \in BOOLEAN
<1>1. expected' \in Seq(Said)
  <2>1. CASE expected = <<>>
    BY <2>1, EmptySeq DEF Ran
  <2>2. CASE expected # <<>>
    BY <2>2, HeadTailProperties DEF Ran, RestOK
  <2> QED BY <2>1, <2>2
<1>2. as_written' \in BOOLEAN /\ simple' \in BOOLEAN /\ settled' \in BOOLEAN
  BY Zenon DEF Ran, RestOK
<1> QED BY <1>1, <1>2

\* What a typed line should run is a sequence of what lines run.
LEMMA TypedType ==
  ASSUME TableFits, RestOK, NEW line \in Line, TypeLine(line)
  PROVE  RestOK'
<1>1. expected' \in Seq(Said)
  <2>1. <<Unlocked>> \in Seq(Said)
    BY DEF Said
  <2>2. MaxDepth + 1 \in Nat
    BY SizeAssumption
  <2>3. Meaning(line) \in Seq(Said)
    BY <2>2, RunsType DEF Meaning, TableFits
  <2> QED BY <2>1, <2>3 DEF TypeLine
<1>2. /\ run_depth' = run_depth /\ ddf_waiting_secret' = ddf_waiting_secret
      /\ ddf_last_numerator' = ddf_last_numerator /\ ddf_unlocked' = ddf_unlocked
      /\ as_written' = TRUE
  BY DEF TypeLine, ddf_vars
<1>3. simple' \in BOOLEAN /\ settled' \in BOOLEAN
  BY Zenon DEF TypeLine, Settled
<1> QED BY <1>1, <1>2, <1>3 DEF RestOK

\* One step keeps the other types.
LEMMA RestNext == GuardInv /\ TableFits /\ RestOK /\ [Next]_vars => RestOK'
<1> SUFFICES ASSUME GuardInv, TableFits, RestOK, [Next]_vars PROVE RestOK'
  OBVIOUS
<1>0. run_depth \in Int /\ run_depth <= MaxDepth + 1 /\ MaxDepth \in Nat
  BY SizeAssumption DEF GuardInv, ControlOK, RestOK
<1>1. ASSUME NEW line \in Typed, TypeLine(line) PROVE RestOK'
  BY <1>1, TypedType, TypedAssumption
<1>2. ASSUME NEW name \in AliasName, NEW v \in Value,
             TypeLine(<<"alias", name>> \o v)
      PROVE  RestOK'
  <2>1. <<"alias", name>> \in Line /\ v \in Line
    BY ValueAssumption DEF Line, Word, Builtin
  <2>2. <<"alias", name>> \o v \in Line
    BY <2>1, ConcatProperties DEF Line
  <2> QED BY <2>2, <1>2, TypedType
<1>3. CASE Reboot
  <2>1. run_depth' <= MaxDepth + 1
    BY <1>0, <1>3 DEF Reboot
  <2>2. /\ ddf_waiting_secret' \in BOOLEAN /\ ddf_last_numerator' \in Number
        /\ ddf_unlocked' \in BOOLEAN /\ UNCHANGED history_vars
    BY <1>3 DEF Reboot, Number
  <2> QED BY <2>1, <2>2 DEF RestOK, history_vars
<1>4. CASE RunBlank
  BY <1>4 DEF RunBlank, RestOK, history_vars, ddf_vars
<1>5. CASE RunSecret
  BY <1>5, RanType DEF RunSecret, RestOK
<1>6. CASE RunPlain
  <2>1. Disarm /\ Ran(input) /\ run_depth' = run_depth
    BY <1>6 DEF RunPlain
  <2> QED BY <2>1, RanType DEF Disarm, RestOK
<1>7. CASE RunAlu
  <2>1. Numeral(input[2]) \in Number
    BY DEF Numeral, Number
  <2> QED BY <1>7, <2>1, RanType DEF RunAlu, RestOK
<1>8. CASE RunDdfLock
  BY <1>8, RanType DEF RunDdfLock, RestOK
<1>9. CASE RunAlias
  <2>1. Disarm /\ Ran(input) /\ run_depth' = run_depth
    BY <1>9 DEF RunAlias
  <2> QED BY <2>1, RanType DEF Disarm, RestOK
<1>10. CASE RunLoad
  <2>1. Disarm /\ Ran(input) /\ run_depth' = run_depth
    BY <1>10 DEF RunLoad
  <2> QED BY <2>1, RanType DEF Disarm, RestOK
<1>11. CASE RunRepeat
  BY <1>11 DEF RunRepeat, Disarm, RestOK, history_vars
<1>12. CASE Expand
  <2>1. run_depth' = run_depth + 1 /\ run_depth <= MaxDepth /\ Disarm /\ UNCHANGED history_vars
    BY <1>12 DEF Expand
  <2>2. run_depth' <= MaxDepth + 1
    BY <1>0, <2>1
  <2> QED BY <2>1, <2>2 DEF Disarm, RestOK, history_vars
<1>13. CASE LoopDetected
  <2>1. run_depth' = 0 /\ Disarm /\ Ran(LoopError)
    BY <1>13 DEF LoopDetected
  <2>2. run_depth' <= MaxDepth + 1
    BY <1>0, <2>1
  <2> QED BY <2>1, <2>2, RanType DEF Disarm, RestOK
<1>14. CASE FromAlias
  <2>1. run_depth' <= MaxDepth + 1
    BY <1>0, <1>14 DEF FromAlias
  <2> QED BY <1>14, <2>1 DEF FromAlias, RestOK, history_vars, ddf_vars
<1>15. CASE FromRepeat
  BY <1>15 DEF FromRepeat, RestOK, history_vars, ddf_vars
<1>16. CASE UNCHANGED vars
  BY <1>16 DEF vars, RestOK, history_vars, ddf_vars
<1> QED
  BY <1>1, <1>2, <1>3, <1>4, <1>5, <1>6, <1>7, <1>8, <1>9, <1>10, <1>11, <1>12,
     <1>13, <1>14, <1>15, <1>16 DEF Next, Step

\* The table of aliases never has more entries than it has room for, whichever
\* of alias and load fills it; no alias stands for nothing; the counter of
\* run() is never above the bound of its guard; and every line that run() is
\* given is made of words (shell.c, lines 71 to 104, commands.c, cmd_alias()).
THEOREM ShellRunTypeCorrect == Spec => []TypeOK
<1>1. Init => TableFits /\ RestOK
  <2> SUFFICES ASSUME Init PROVE TableFits /\ RestOK
    OBVIOUS
  <2>1. DOMAIN alias_table = {} /\ Cardinality({}) = 0
    BY FS_EmptySet DEF Init
  <2>2. TableFits
    BY <2>1, SizeAssumption DEF TableFits, TableOK
  <2>3. RestOK
    <3>1. run_depth <= MaxDepth + 1
      BY SizeAssumption DEF Init
    <3>2. "0" \in Number /\ <<>> \in Seq(Said)
      BY EmptySeq DEF Number
    <3> QED BY <3>1, <3>2 DEF Init, RestOK
  <2> QED BY <2>2, <2>3
<1>2. GuardInv /\ TableFits /\ RestOK => TypeOK
  BY DEF GuardInv, ControlOK, TableFits, TableOK, RestOK, TypeOK, Said
<1> QED BY <1>1, <1>2, GuardInit, GuardNext, FitsNext, RestNext, PTL DEF Spec
=============================================================================
