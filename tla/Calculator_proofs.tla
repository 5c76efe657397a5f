------------------------- MODULE Calculator_proofs -------------------------
(***************************************************************************)
(* The calculators for every width of the int: what scp prints lies        *)
(* between its two numbers, what alu prints is read back when it fits, no  *)
(* other input than two panics, a determinant is the unbounded one wrapped *)
(* once, and the table of matrices keeps its names apart and its size.     *)
(***************************************************************************)
EXTENDS Calculator, WellFoundedInduction, TLAPS

\* A line of alu is refused or computes with the operands it reads.
LEMMA AluComputes ==
  ASSUME NEW x, NEW y, NEW op, Alu(x, op, y)
  PROVE  \/ Refused
         \/ \E token : \E o \in Operators :
              /\ token = Tokens(x, op, y) /\ token[3] = o
              /\ Evaluate(Operand(token[1]), o, Operand(token[2]))
              /\ Idle
BY DEF Alu

\* A number already below the modulus.
LEMMA SmallMod ==
  ASSUME NEW n \in Nat, NEW k \in Nat, n < k
  PROVE  n % k = n
OBVIOUS

\* A number one modulus above, or below.
LEMMA ShiftedMod ==
  ASSUME NEW n \in Nat, NEW k \in Nat, n < k
  PROVE  (n + k) % k = n /\ (n - k) % k = n
OBVIOUS

\* A remainder.
LEMMA ModBounds ==
  ASSUME NEW n \in Int, NEW k \in Nat, k > 0
  PROVE  n % k \in 0 .. k - 1
OBVIOUS

\* An int is left alone by the wrapping.
LEMMA WrapOfWord == ASSUME NEW n \in Word PROVE Wrap(n) = n
<1>1. n + Half \in Nat /\ 2 * Half \in Nat /\ n + Half < 2 * Half
  BY WidthAssumption DEF Word, MinInt, MaxInt
<1>2. (n + Half) % (2 * Half) = n + Half
  BY <1>1, SmallMod
<1> QED BY <1>2, WidthAssumption DEF Wrap, Word, MinInt, MaxInt

\* The range as an unsigned is the number of ints between the two, or zero when
\* that is all of them.
LEMMA RangeCounts ==
  ASSUME NEW lo \in Word, NEW hi \in Word, lo <= hi,
         Unsigned(RangeOf(lo, hi)) # 0
  PROVE  Unsigned(RangeOf(lo, hi)) = hi - lo + 1
<1> DEFINE d == hi - lo + 1
           k == 2 * Half
<1>1. d \in Nat /\ k \in Nat /\ 1 <= d /\ d <= k /\ Half \in Nat /\ Half > 0
  BY WidthAssumption DEF Word, MinInt, MaxInt
<1>2. RangeOf(lo, hi) = ((d + Half) % k) - Half
  BY DEF RangeOf, Wrap
<1>3. CASE d + Half < k
  <2>1. (d + Half) % k = d + Half
    BY <1>1, <1>3, SmallMod
  <2>2. RangeOf(lo, hi) = d
    BY <1>1, <1>2, <2>1
  <2>3. d < k
    BY <1>1, <1>3
  <2>4. d % k = d
    BY <1>1, <2>3, SmallMod
  <2> QED BY <2>2, <2>4 DEF Unsigned
<1>4. CASE k <= d + Half
  <2>1. d - Half \in Nat /\ d - Half < k /\ d + Half = (d - Half) + k
    BY <1>1, <1>4
  <2>2. (d + Half) % k = d - Half
    BY <1>1, <2>1, ShiftedMod
  <2>3. RangeOf(lo, hi) = d - k
    BY <1>1, <1>2, <2>2
  <2>4. CASE d = k
    <3>1. RangeOf(lo, hi) = 0
      BY <1>1, <2>3, <2>4
    <3>2. 0 % k = 0
      BY <1>1, SmallMod
    <3> QED BY <3>1, <3>2 DEF Unsigned
  <2>5. CASE d < k
    <3>1. (d - k) % k = d
      BY <1>1, <2>5, ShiftedMod
    <3> QED BY <2>3, <3>1 DEF Unsigned
  <2> QED BY <1>1, <2>4, <2>5
<1> QED BY <1>1, <1>3, <1>4

\* Whatever the seed, the result is one of the ints asked for.
LEMMA ResultInRange ==
  ASSUME NEW lo \in Word, NEW hi \in Word, lo <= hi, NEW s \in Nat,
         Unsigned(RangeOf(lo, hi)) # 0
  PROVE  lo <= Result(lo, hi, s) /\ Result(lo, hi, s) <= hi
<1> DEFINE d == hi - lo + 1
           r == (s \div 2) % d
<1>1. lo \in Int /\ hi \in Int /\ d \in Nat /\ d > 0
  BY WidthAssumption DEF Word, MinInt, MaxInt
<1>2. Drawn(s, RangeOf(lo, hi)) = r
  BY RangeCounts DEF Drawn
<1>3. s \div 2 \in Int
  OBVIOUS
<1>4. r \in 0 .. d - 1
  <2> HIDE DEF d
  <2> QED BY <1>1, <1>3, ModBounds
<1>5. lo <= lo + r /\ lo + r <= hi /\ lo + r \in Int
  <2> HIDE DEF r
  <2> QED BY <1>1, <1>4
<1>6. lo + r \in Word
  <2> HIDE DEF r
  <2> QED BY <1>1, <1>5, WidthAssumption DEF Word, MinInt, MaxInt
<1>7. Result(lo, hi, s) = lo + r
  <2> HIDE DEF r
  <2> QED BY <1>2, <1>6, WrapOfWord DEF Result
<1> QED BY <1>5, <1>7

\* The seed is a word, and the property.
ScpInv == seed \in 0 .. 2 * Half - 1 /\ ScpInRange

\* The generator yields a word.
LEMMA NextSeedType == ASSUME NEW s \in Nat PROVE NextSeed(s) \in 0 .. 2 * Half - 1
<1>1. s * Multiplier + Increment \in Int
  BY CalculatorAssumption
<1>2. 2 * Half \in Nat /\ 2 * Half > 0
  BY WidthAssumption
<1> QED BY <1>1, <1>2, ModBounds DEF NextSeed

\* scp keeps it: the numbers are put in order before the range is computed.
LEMMA ScpKeeps ==
  ASSUME ScpInv, NEW a \in Operands, NEW b \in Operands, Scp(a, b)
  PROVE  ScpInv'
<1> DEFINE lo == IF a > b THEN b ELSE a
           hi == IF a > b THEN a ELSE b
<1>1. a \in Word /\ b \in Word
  BY CalculatorAssumption
<1>2. lo \in Word /\ hi \in Word /\ lo <= hi
  BY <1>1, WidthAssumption DEF Word, MinInt, MaxInt
<1>3. seed' \in 0 .. 2 * Half - 1
  <2>1. PICK s \in IF seed = 0 THEN {(t + 1) % (2 * Half) : t \in Boots} ELSE {seed} :
          seed' = NextSeed(s)
    BY DEF Scp
  <2>2. \A t \in Boots : (t + 1) % (2 * Half) \in 0 .. 2 * Half - 1
    <3> TAKE t \in Boots
    <3>1. t + 1 \in Int /\ 2 * Half \in Nat /\ 2 * Half > 0
      BY CalculatorAssumption, WidthAssumption
    <3> QED BY <3>1, ModBounds
  <2>3. s \in 0 .. 2 * Half - 1
    BY <2>1, <2>2 DEF ScpInv
  <2>4. s \in Nat
    BY <2>3, WidthAssumption
  <2> QED BY <2>1, <2>4, NextSeedType
<1>4. seed' \in Nat
  BY <1>3, WidthAssumption
<1>5. CASE Unsigned(RangeOf(lo, hi)) = 0
  <2>1. panicked'
    BY <1>5 DEF Scp
  <2> QED BY <1>3, <2>1 DEF ScpInv, ScpInRange
<1>6. CASE Unsigned(RangeOf(lo, hi)) # 0
  <2>1. out' = [cmd |-> "scp", lo |-> lo, hi |-> hi, value |-> Result(lo, hi, seed')]
    BY <1>6 DEF Scp
  <2>2. lo <= Result(lo, hi, seed') /\ Result(lo, hi, seed') <= hi
    <3> HIDE DEF lo, hi
    <3> QED BY <1>2, <1>4, <1>6, ResultInRange
  <2>3. out'.lo = lo /\ out'.hi = hi /\ out'.value = Result(lo, hi, seed')
    BY <2>1
  <2> QED BY <1>3, <2>2, <2>3 DEF ScpInv, ScpInRange
<1> QED BY <1>5, <1>6

\* No other command prints a number of scp's.
LEMMA OthersKeep ==
  ASSUME ScpInv, UNCHANGED seed,
         (out' = out /\ panicked' = panicked) \/ out'.cmd # "scp"
  PROVE  ScpInv'
BY DEF ScpInv, ScpInRange

\* One step, by its command.
LEMMA NextKeepsScp == ScpInv /\ [Next]_vars => ScpInv'
<1> SUFFICES ASSUME ScpInv, [Next]_vars PROVE ScpInv'
  OBVIOUS
<1>1. CASE NextLine
  BY <1>1, OthersKeep DEF NextLine, Nothing
<1>2. CASE \E a, b \in Operands : Scp(a, b)
  BY <1>2, ScpKeeps
<1>3. CASE \E x, y \in Texts : \E op \in Operators : Alu(x, op, y)
  <2>1. PICK x \in Texts, y \in Texts, op \in Operators : Alu(x, op, y)
    BY <1>3
  <2>2. UNCHANGED seed
    BY <2>1 DEF Alu, Evaluate, Refused
  <2>3. out'.cmd \in {"refused", "alu"}
    BY <2>1 DEF Alu, Evaluate, Refused
  <2> QED BY <2>2, <2>3, OthersKeep
<1>4. CASE \E name \in Names : MatrixOfVar(name)
  BY <1>4, OthersKeep DEF MatrixOfVar
<1>5. CASE \E name \in Names : \E m \in Storable : MatrixStore(name, m)
  BY <1>5, OthersKeep DEF MatrixStore
<1>6. CASE \E m \in Typed : MatrixInline(m)
  BY <1>6, OthersKeep DEF MatrixInline
<1>7. CASE Refused
  BY <1>7, OthersKeep DEF Refused
<1>8. CASE Halted \/ UNCHANGED vars
  BY <1>8, OthersKeep DEF Halted, vars
<1> QED
  BY <1>1, <1>2, <1>3, <1>4, <1>5, <1>6, <1>7, <1>8 DEF Next

\* For every width of the int and every generator, scp prints a number between
\* its two.
THEOREM ScpStaysInRange == Spec => []ScpInRange
<1>1. Init => ScpInv
  BY WidthAssumption DEF Init, ScpInv, ScpInRange, Nothing
<1>2. ScpInv => ScpInRange
  BY DEF ScpInv
<1> QED BY <1>1, <1>2, NextKeepsScp, PTL DEF Spec

-----------------------------------------------------------------------------
(* Panics. *)

\* The range is zero for all ints only.
LEMMA EmptyRangeIsEverything ==
  ASSUME NEW lo \in Word, NEW hi \in Word, lo <= hi,
         Unsigned(RangeOf(lo, hi)) = 0
  PROVE  lo = MinInt /\ hi = MaxInt
<1> DEFINE d == hi - lo + 1
           k == 2 * Half
<1>1. d \in Nat /\ k \in Nat /\ 1 <= d /\ d <= k /\ Half \in Nat /\ Half > 0
  BY WidthAssumption DEF Word, MinInt, MaxInt
<1>2. RangeOf(lo, hi) = ((d + Half) % k) - Half
  BY DEF RangeOf, Wrap
<1>3. CASE d < k
  <2>1. CASE d + Half < k
    <3>1. (d + Half) % k = d + Half
      BY <1>1, <2>1, SmallMod
    <3>2. RangeOf(lo, hi) = d /\ d % k = d
      BY <1>1, <1>2, <1>3, <3>1, SmallMod
    <3> QED BY <1>1, <3>2 DEF Unsigned
  <2>2. CASE k <= d + Half
    <3>1. d - Half \in Nat /\ d - Half < k /\ d + Half = (d - Half) + k
      BY <1>1, <1>3, <2>2
    <3>2. (d + Half) % k = d - Half
      BY <1>1, <3>1, ShiftedMod
    <3>3. RangeOf(lo, hi) = d - k
      BY <1>1, <1>2, <3>2
    <3>4. (d - k) % k = d
      BY <1>1, <1>3, ShiftedMod
    <3> QED BY <1>1, <3>3, <3>4 DEF Unsigned
  <2> QED BY <1>1, <2>1, <2>2
<1>4. CASE d = k
  BY <1>1, <1>4 DEF Word, MinInt, MaxInt
<1> QED BY <1>1, <1>3, <1>4

\* One step: a command starts only on a machine that has not panicked.
LEMMA NextPanicsAtTheEdge ==
  PanicsOnlyAtTheEdge /\ [Next]_vars => PanicsOnlyAtTheEdge'
<1> SUFFICES ASSUME PanicsOnlyAtTheEdge, [Next]_vars PROVE PanicsOnlyAtTheEdge'
  OBVIOUS
<1>1. CASE NextLine
  BY <1>1 DEF NextLine, PanicsOnlyAtTheEdge
<1>2. ASSUME NEW a \in Operands, NEW b \in Operands, Scp(a, b)
      PROVE  PanicsOnlyAtTheEdge'
  <2> DEFINE lo == IF a > b THEN b ELSE a
             hi == IF a > b THEN a ELSE b
  <2>1. lo \in Word /\ hi \in Word /\ lo <= hi
    BY CalculatorAssumption, WidthAssumption DEF Word, MinInt, MaxInt
  <2>2. CASE Unsigned(RangeOf(lo, hi)) = 0
    <3>1. lo = MinInt /\ hi = MaxInt
      <4> HIDE DEF lo, hi
      <4> QED BY <2>1, <2>2, EmptyRangeIsEverything
    <3>2. out' = [cmd |-> "scp", lo |-> lo, hi |-> hi]
      BY <1>2, <2>2 DEF Scp
    <3> QED BY <3>1, <3>2 DEF PanicsOnlyAtTheEdge
  <2>3. CASE Unsigned(RangeOf(lo, hi)) # 0
    <3>1. ~panicked'
      BY <1>2, <2>3 DEF Scp, Idle
    <3> QED BY <3>1 DEF PanicsOnlyAtTheEdge
  <2> QED BY <2>2, <2>3
<1>3. ASSUME NEW a, NEW b, NEW op \in Operators, Evaluate(a, op, b), Idle
      PROVE  PanicsOnlyAtTheEdge'
  <2>1. CASE op = "/" /\ b # 0 /\ Traps(a, b)
    <3>1. out' = [cmd |-> "alu", a |-> a, op |-> op, b |-> b]
      BY <1>3, <2>1 DEF Evaluate, NotANumber
    <3>2. a = MinInt /\ b = -1
      BY <2>1 DEF Traps
    <3> QED BY <2>1, <3>1, <3>2 DEF PanicsOnlyAtTheEdge
  <2>2. CASE ~(op = "/" /\ b # 0 /\ Traps(a, b))
    <3>1. ~panicked'
      BY <1>3, <2>2 DEF Evaluate, NotANumber, Idle
    <3> QED BY <3>1 DEF PanicsOnlyAtTheEdge
  <2> QED BY <2>1, <2>2
<1>4. CASE \E name \in Names : MatrixOfVar(name)
  BY <1>4 DEF MatrixOfVar, Idle, PanicsOnlyAtTheEdge
<1>5. CASE \E name \in Names : \E m \in Storable : MatrixStore(name, m)
  BY <1>5 DEF MatrixStore, Idle, PanicsOnlyAtTheEdge
<1>6. CASE \E m \in Typed : MatrixInline(m)
  BY <1>6 DEF MatrixInline, Idle, PanicsOnlyAtTheEdge
<1>7. CASE Refused
  BY <1>7 DEF Refused, Idle, PanicsOnlyAtTheEdge
<1>9. ASSUME NEW x \in Texts, NEW y \in Texts, NEW op \in Operators, Alu(x, op, y)
      PROVE  PanicsOnlyAtTheEdge'
  BY <1>3, <1>7, <1>9, AluComputes
<1>8. CASE Halted \/ UNCHANGED vars
  BY <1>8 DEF Halted, vars, PanicsOnlyAtTheEdge
<1> QED
  BY <1>1, <1>2, <1>4, <1>5, <1>6, <1>7, <1>8, <1>9 DEF Next

\* For every width of the int, the calculators panic on two inputs only.
THEOREM PanicsStayAtTheEdge == Spec => []PanicsOnlyAtTheEdge
<1>1. Init => PanicsOnlyAtTheEdge
  BY DEF Init, PanicsOnlyAtTheEdge
<1> QED BY <1>1, NextPanicsAtTheEdge, PTL DEF Spec

-----------------------------------------------------------------------------
(* The matrix variables. *)

\* matrix_vars is a list of variables with distinct names.
VarsInv ==
  /\ matrix_vars \in Seq([name : Names, mat : Typed \cup Storable])
  /\ NamesAreDistinct

\* Overwriting and adding keep it: the search finds a name that is there.
LEMMA StoreKeepsNames ==
  ASSUME VarsInv, NEW name \in Names, NEW m \in Storable, MatrixStore(name, m)
  PROVE  VarsInv'
<1> DEFINE V == [name : Names, mat : Typed \cup Storable]
<1>1. matrix_vars \in Seq(V)
  BY DEF VarsInv
<1>2. CASE ~HasRoom(name)
  BY <1>2 DEF MatrixStore, VarsInv, NamesAreDistinct
<1>3. CASE HasRoom(name) /\ Bound(name) # {}
  <2> DEFINE i == FindVar(name)
  <2>1. PICK j \in DOMAIN matrix_vars : matrix_vars[j].name = name
    BY <1>3 DEF Bound
  <2>2. Bound(name) = {j}
    BY <2>1 DEF Bound, VarsInv, NamesAreDistinct
  <2>3. j <= j
    BY <1>1, <2>1
  <2>4. i = j
    BY <2>2, <2>3 DEF FindVar
  <2>5. matrix_vars' = [matrix_vars EXCEPT ![j].mat = m]
    BY <1>3, <2>4 DEF MatrixStore, Stored
  <2> DEFINE v == [name |-> name, mat |-> m]
  <2>6. matrix_vars[j] \in V
    <3> HIDE DEF V
    <3> QED BY <1>1, <2>1
  <2>7. [matrix_vars[j] EXCEPT !.mat = m] = v
    BY <2>1, <2>6
  <2>8. matrix_vars' = [matrix_vars EXCEPT ![j] = v]
    BY <2>5, <2>7
  <2>9. v \in V /\ v.name = name
    OBVIOUS
  <2>10. /\ matrix_vars' \in Seq(V)
         /\ DOMAIN matrix_vars' = DOMAIN matrix_vars
    <3> HIDE DEF v, V
    <3> QED BY <1>1, <2>1, <2>8, <2>9
  <2>11. \A n \in DOMAIN matrix_vars : matrix_vars'[n].name = matrix_vars[n].name
    <3> HIDE DEF v, V
    <3> QED BY <1>1, <2>1, <2>8, <2>9
  <2> QED BY <2>10, <2>11 DEF VarsInv, NamesAreDistinct
<1>4. CASE HasRoom(name) /\ Bound(name) = {}
  <2> DEFINE v == [name |-> name, mat |-> m]
  <2>1. matrix_vars' = Append(matrix_vars, v)
    BY <1>4 DEF MatrixStore, Stored
  <2>2. v \in V
    OBVIOUS
  <2>3. \A n \in DOMAIN matrix_vars : matrix_vars[n].name # name
    BY <1>4 DEF Bound
  <2>4. v.name = name
    OBVIOUS
  <2>5. NamesAreDistinct'
    <3> HIDE DEF v
    <3> QED BY <1>1, <2>1, <2>2, <2>3, <2>4 DEF VarsInv, NamesAreDistinct
  <2>6. matrix_vars' \in Seq(V)
    <3> HIDE DEF v, V
    <3> QED BY <1>1, <2>1, <2>2
  <2> QED BY <2>5, <2>6 DEF VarsInv
<1> QED BY <1>2, <1>3, <1>4

\* One step: only a store changes a variable.
LEMMA NextKeepsNames == VarsInv /\ [Next]_vars => VarsInv'
<1> SUFFICES ASSUME VarsInv, [Next]_vars PROVE VarsInv'
  OBVIOUS
<1>1. CASE UNCHANGED matrix_vars
  BY <1>1 DEF VarsInv, NamesAreDistinct
<1>2. CASE \E name \in Names : \E m \in Storable : MatrixStore(name, m)
  BY <1>2, StoreKeepsNames
<1> QED
  BY <1>1, <1>2 DEF Next, NextLine, Scp, Alu, Evaluate, MatrixOfVar, MatrixInline, Refused,
                    Halted, vars

\* For any names and any size of the table, no name is bound twice.
THEOREM NamesStayDistinct == Spec => []NamesAreDistinct
<1>1. Init => VarsInv
  BY DEF Init, VarsInv, NamesAreDistinct
<1>2. VarsInv => NamesAreDistinct
  BY DEF VarsInv
<1> QED BY <1>1, <1>2, NextKeepsNames, PTL DEF Spec

-----------------------------------------------------------------------------
(* Types. *)

\* The seed is a word, the table is well formed and never over its size.
TypeInv == TypeOK /\ ScpInv /\ VarsInv

\* What a store leaves in the table fits: overwriting keeps its length, adding
\* is guarded.
LEMMA StoreKeepsRoom ==
  ASSUME TypeInv, NEW name \in Names, NEW m \in Storable, MatrixStore(name, m)
  PROVE  Len(matrix_vars') <= VarMax
<1> DEFINE V == [name : Names, mat : Typed \cup Storable]
<1>1. matrix_vars \in Seq(V) /\ Len(matrix_vars) <= VarMax /\ VarMax \in Nat
  BY CalculatorAssumption DEF TypeInv, TypeOK
<1>2. CASE ~HasRoom(name)
  BY <1>1, <1>2 DEF MatrixStore
<1>3. CASE HasRoom(name) /\ Bound(name) # {}
  <2>1. matrix_vars' = [matrix_vars EXCEPT ![FindVar(name)].mat = m]
    BY <1>3 DEF MatrixStore, Stored
  <2> HIDE DEF V
  <2>2. DOMAIN matrix_vars' = 1 .. Len(matrix_vars)
    BY <1>1, <2>1
  <2>3. matrix_vars' \in Seq(V)
    <3>1. VarsInv'
      BY StoreKeepsNames DEF TypeInv
    <3> QED BY <3>1 DEF VarsInv, V
  <2>4. Len(matrix_vars') = Len(matrix_vars)
    BY <1>1, <2>2, <2>3
  <2> QED BY <1>1, <2>4
<1>4. CASE HasRoom(name) /\ Bound(name) = {}
  <2> DEFINE v == [name |-> name, mat |-> m]
  <2>1. matrix_vars' = Append(matrix_vars, v)
    BY <1>4 DEF MatrixStore, Stored
  <2>2. v \in V
    OBVIOUS
  <2>3. Len(matrix_vars) < VarMax
    BY <1>4 DEF HasRoom
  <2> HIDE DEF V, v
  <2> QED BY <1>1, <2>1, <2>2, <2>3
<1> QED BY <1>2, <1>3, <1>4

\* What a command prints is one of five kinds of answer.
LEMMA NextPrints ==
  ASSUME TypeOK, Next
  PROVE  out'.cmd \in {"none", "scp", "alu", "det", "stored", "refused"}
<1>1. CASE NextLine
  BY <1>1 DEF NextLine, Nothing
<1>2. ASSUME NEW a \in Operands, NEW b \in Operands, Scp(a, b) PROVE out'.cmd = "scp"
  BY <1>2 DEF Scp
<1>3. ASSUME NEW x \in Texts, NEW y \in Texts, NEW op \in Operators, Alu(x, op, y)
      PROVE  out'.cmd \in {"refused", "alu"}
  BY <1>3 DEF Alu, Evaluate, Refused
<1>4. CASE \E name \in Names : MatrixOfVar(name)
  BY <1>4 DEF MatrixOfVar
<1>5. CASE \E name \in Names : \E m \in Storable : MatrixStore(name, m)
  BY <1>5 DEF MatrixStore
<1>6. CASE \E m \in Typed : MatrixInline(m)
  BY <1>6 DEF MatrixInline
<1>7. CASE Refused
  BY <1>7 DEF Refused
<1>8. CASE Halted
  BY <1>8 DEF Halted, vars, TypeOK
<1> QED
  BY <1>1, <1>2, <1>3, <1>4, <1>5, <1>6, <1>7, <1>8 DEF Next

\* The machine runs or it has panicked.
LEMMA NextPanicked == panicked \in BOOLEAN /\ Next => panicked' \in BOOLEAN
<1> SUFFICES ASSUME panicked \in BOOLEAN, Next PROVE panicked' \in BOOLEAN
  OBVIOUS
<1>1. CASE \E x, y \in Operands : Scp(x, y)
  BY <1>1, Zenon DEF Scp
<1>2. CASE \E x, y \in Texts : \E op \in Operators : Alu(x, op, y)
  <2>1. PICK x \in Texts, y \in Texts, op \in Operators : Alu(x, op, y)
    BY <1>2
  <2>2. CASE Refused
    BY <2>2, Zenon DEF Refused
  <2>3. ASSUME NEW a, NEW b, NEW o, Evaluate(a, o, b) PROVE panicked' \in BOOLEAN
    BY <2>3, Zenon DEF Evaluate
  <2> QED BY <2>1, <2>2, <2>3, AluComputes, Zenon
<1>3. CASE \E name \in Names : MatrixOfVar(name)
  BY <1>3, Zenon DEF MatrixOfVar
<1>4. CASE \E name \in Names : \E m \in Storable : MatrixStore(name, m)
  BY <1>4, Zenon DEF MatrixStore
<1>5. CASE \E m \in Typed : MatrixInline(m)
  BY <1>5, Zenon DEF MatrixInline
<1>6. CASE NextLine \/ Refused \/ Halted
  BY <1>6, Zenon DEF NextLine, Refused, Halted, vars
<1> QED
  BY <1>1, <1>2, <1>3, <1>4, <1>5, <1>6, Zenon DEF Next

\* One step: the other inductive invariants give the parts.
LEMMA NextKeepsTypes == TypeInv /\ [Next]_vars => TypeInv'
<1> SUFFICES ASSUME TypeInv, [Next]_vars PROVE TypeInv'
  OBVIOUS
<1>1. ScpInv'
  BY NextKeepsScp DEF TypeInv
<1>2. VarsInv'
  BY NextKeepsNames DEF TypeInv
<1>3. Len(matrix_vars') <= VarMax
  <2>1. CASE UNCHANGED matrix_vars
    BY <2>1 DEF TypeInv, TypeOK
  <2>2. CASE \E name \in Names : \E m \in Storable : MatrixStore(name, m)
    BY <2>2, StoreKeepsRoom
  <2> QED
    BY <2>1, <2>2 DEF Next, NextLine, Scp, Alu, Evaluate, MatrixOfVar, MatrixInline, Refused,
                      Halted, vars
<1>4. CASE Next
  <2>1. out'.cmd \in {"none", "scp", "alu", "det", "stored", "refused"}
    BY <1>4, NextPrints DEF TypeInv
  <2>2. panicked' \in BOOLEAN
    BY <1>4, NextPanicked, Zenon DEF TypeInv, TypeOK
  <2> QED BY <1>1, <1>2, <1>3, <2>1, <2>2, Zenon DEF TypeInv, TypeOK, ScpInv, VarsInv
<1>5. CASE UNCHANGED vars
  BY <1>5, <1>1, <1>2, Zenon DEF vars, TypeInv, TypeOK
<1> QED BY <1>4, <1>5

\* For every width, table and set of matrices, the state keeps its type: in
\* particular the table of variables is never written beyond its end.
THEOREM CalculatorTypeCorrect == Spec => []TypeOK
<1>1. Init => TypeInv
  <2> SUFFICES ASSUME Init PROVE TypeInv
    OBVIOUS
  <2>1. ScpInv
    BY WidthAssumption DEF Init, ScpInv, ScpInRange, Nothing
  <2>2. VarsInv
    BY DEF Init, VarsInv, NamesAreDistinct
  <2>3. Len(matrix_vars) <= VarMax
    BY CalculatorAssumption DEF Init
  <2>4. out.cmd = "none" /\ panicked = FALSE
    BY DEF Init, Nothing
  <2> QED BY <2>1, <2>2, <2>3, <2>4, Zenon DEF TypeInv, TypeOK, ScpInv, VarsInv
<1>2. TypeInv => TypeOK
  BY DEF TypeInv
<1> QED BY <1>1, <1>2, NextKeepsTypes, PTL DEF Spec

-----------------------------------------------------------------------------
(* Wrapping. *)

\* The remainder of a number does not depend on how it is written.
LEMMA RemainderIsUnique ==
  ASSUME NEW k \in Nat, NEW p \in Int, NEW q \in Int,
         NEW r \in 0 .. k - 1, NEW s \in 0 .. k - 1, k * p + r = k * q + s
  PROVE  r = s
<1>1. k \in Int /\ r \in Int /\ s \in Int
  OBVIOUS
<1>2. k * (p - q) = s - r
  BY <1>1
<1>3. CASE p - q >= 1
  <2>1. k * (p - q) >= k
    <3>1. k * (p - q - 1) >= 0
      <4> DEFINE e == p - q - 1
      <4>1. e \in Nat
        BY <1>3
      <4> HIDE DEF e
      <4>2. k * e >= 0
        BY <4>1
      <4> QED BY <4>2 DEF e
    <3> QED BY <3>1
  <2>2. s - r < k
    BY <1>1
  <2> DEFINE d == k * (p - q)
  <2>3. d \in Int
    BY <1>1
  <2> HIDE DEF d
  <2> QED BY <1>1, <1>2, <2>1, <2>2, <2>3 DEF d
<1>4. CASE q - p >= 1
  <2>1. k * (q - p) >= k
    <3>1. k * (q - p - 1) >= 0
      <4> DEFINE e == q - p - 1
      <4>1. e \in Nat
        BY <1>4
      <4> HIDE DEF e
      <4>2. k * e >= 0
        BY <4>1
      <4> QED BY <4>2 DEF e
    <3> QED BY <3>1
  <2>2. k * (q - p) = r - s
    BY <1>1
  <2>3. r - s < k
    BY <1>1
  <2> DEFINE d == k * (q - p)
  <2>4. d \in Int
    BY <1>1
  <2> HIDE DEF d
  <2> QED BY <1>1, <2>1, <2>2, <2>3, <2>4 DEF d
<1>5. CASE p = q
  BY <1>1, <1>5
<1> QED BY <1>3, <1>4, <1>5

\* The quotient and the remainder.
LEMMA DivisionOf ==
  ASSUME NEW n \in Int, NEW k \in Nat, k > 0
  PROVE  /\ n \div k \in Int /\ n % k \in 0 .. k - 1
         /\ n = k * (n \div k) + (n % k)
OBVIOUS

\* A multiple of the modulus does not change the remainder.
LEMMA MultiplesVanish ==
  ASSUME NEW n \in Int, NEW z \in Int, NEW k \in Nat, k > 0
  PROVE  (n + k * z) % k = n % k
<1> DEFINE y == n + k * z
           p == y \div k
           q == n \div k
           r == y % k
           s == n % k
<1>1. y \in Int
  OBVIOUS
<1>2. /\ p \in Int /\ r \in 0 .. k - 1 /\ y = k * p + r
      /\ q \in Int /\ s \in 0 .. k - 1 /\ n = k * q + s
  <2> HIDE DEF y
  <2> QED BY <1>1, DivisionOf
<1>3. k * p + r = k * (q + z) + s
  <2>1. k * (q + z) = k * q + k * z
    BY <1>2
  <2> HIDE DEF p, q, r, s
  <2> QED BY <1>2, <2>1
<1> HIDE DEF p, q, r, s
<1>4. q + z \in Int
  BY <1>2
<1>5. r = s
  BY <1>2, <1>3, <1>4, RemainderIsUnique
<1> QED BY <1>5 DEF r, s

\* Numbers that differ by a multiple of 2^32 are the same int.
LEMMA WrapForgets ==
  ASSUME NEW n \in Int, NEW z \in Int
  PROVE  Wrap(n + 2 * Half * z) = Wrap(n)
<1> DEFINE k == 2 * Half
<1>1. k \in Nat /\ k > 0 /\ Half \in Int
  BY WidthAssumption
<1>2. n + Half \in Int
  BY <1>1
<1>3. ((n + Half) + k * z) % k = (n + Half) % k
  <2> HIDE DEF k
  <2> QED BY <1>1, <1>2, MultiplesVanish
<1>4. (n + k * z) + Half = (n + Half) + k * z
  BY <1>1
<1>5. ((n + k * z) + Half) % k = (n + Half) % k
  BY <1>3, <1>4
<1> QED BY <1>5 DEF Wrap

\* An int and the number it stands for differ by such a multiple.
LEMMA WrapDiffers ==
  ASSUME NEW n \in Int
  PROVE  Wrap(n) \in Word /\ \E z \in Int : Wrap(n) = n + 2 * Half * z
<1> DEFINE k == 2 * Half
           m == n + Half
           q == m \div k
           r == m % k
<1>1. k \in Nat /\ k > 0 /\ Half \in Int /\ m \in Int
  BY WidthAssumption
<1>2. q \in Int /\ r \in 0 .. k - 1 /\ m = k * q + r
  <2> HIDE DEF m, k
  <2> QED BY <1>1, DivisionOf
<1>3. Wrap(n) = r - Half
  BY DEF Wrap
<1>4. -q \in Int /\ k * (-q) = -(k * q)
  <2> HIDE DEF q
  <2> QED BY <1>1, <1>2
<1>5. Wrap(n) = n + k * (-q)
  <2> HIDE DEF q, r, k
  <2> QED BY <1>1, <1>2, <1>3, <1>4
<1>6. Wrap(n) \in Word
  <2> HIDE DEF r
  <2> QED BY <1>1, <1>2, <1>3 DEF Word, MinInt, MaxInt
<1> QED BY <1>4, <1>5, <1>6

\* The value of a longer number can be computed from the wrapped shorter one.
LEMMA WrapStep ==
  ASSUME NEW base \in Int, NEW n \in Int, NEW d \in Int
  PROVE  Wrap(base * Wrap(n) + d) = Wrap(base * n + d)
<1>1. PICK z \in Int : Wrap(n) = n + 2 * Half * z
  BY WrapDiffers
<1> DEFINE k == 2 * Half
<1>2. k \in Int
  BY WidthAssumption
<1>3. base * z \in Int /\ base * n + d \in Int
  BY <1>1
<1>4. base * Wrap(n) + d = (base * n + d) + k * (base * z)
  <2> HIDE DEF k
  <2>1. base * (n + k * z) = base * n + base * (k * z)
    <3> DEFINE e == k * z
    <3>1. e \in Int
      BY <1>1, <1>2
    <3> HIDE DEF e
    <3>2. base * (n + e) = base * n + base * e
      BY <3>1
    <3> QED BY <3>2 DEF e
  <2>2. base * (k * z) = k * (base * z)
    BY <1>1, <1>2
  <2> DEFINE u == base * n
             v == k * (base * z)
  <2>3. u \in Int /\ v \in Int
    BY <1>2, <1>3
  <2>4. base * Wrap(n) = u + v
    BY <1>1, <2>1, <2>2 DEF k
  <2> HIDE DEF u, v
  <2>5. base * Wrap(n) + d = (u + d) + v
    BY <2>3, <2>4
  <2> QED BY <2>5 DEF u, v
<1>5. Wrap((base * n + d) + k * (base * z)) = Wrap(base * n + d)
  BY <1>3, WrapForgets
<1> QED BY <1>4, <1>5

\* An unsigned is the same int.
LEMMA WrapUnsigned ==
  ASSUME NEW n \in Int
  PROVE  Unsigned(n) \in Nat /\ Wrap(Unsigned(n)) = Wrap(n)
<1> DEFINE k == 2 * Half
           q == n \div k
           r == n % k
<1>1. k \in Nat /\ k > 0
  BY WidthAssumption
<1>2. q \in Int /\ r \in 0 .. k - 1 /\ n = k * q + r
  <2> HIDE DEF k
  <2> QED BY <1>1, DivisionOf
<1>3. r \in Nat /\ r \in Int
  <2> HIDE DEF r, k
  <2> QED BY <1>1, <1>2
<1>4. n = r + k * q
  <2> DEFINE e == k * q
  <2>1. e \in Int
    <3> HIDE DEF q
    <3> QED BY <1>1, <1>2
  <2> HIDE DEF r, e
  <2> QED BY <1>2, <1>3, <2>1 DEF e
<1>5. Wrap(r + k * q) = Wrap(r)
  <2> HIDE DEF q, r
  <2> QED BY <1>2, <1>3, WrapForgets
<1>6. Wrap(n) = Wrap(r)
  BY <1>4, <1>5
<1> QED BY <1>3, <1>6 DEF Unsigned

-----------------------------------------------------------------------------
(* Numerals. *)

\* A non-empty set of natural numbers has a least element.
LEMMA LeastNumber ==
  ASSUME NEW T, T \subseteq Nat, T # {}
  PROVE  \E m \in T : \A j \in T : m <= j
<1>1. PICK x \in T : \A y \in T : ~(<<y, x>> \in OpToRel(<, Nat))
  BY NatLessThanWellFounded, WFMin
<1>2. \A y \in T : ~(y < x)
  BY <1>1 DEF OpToRel
<1> QED BY <1>2

\* What is left of a number after its last digit is smaller.
LEMMA ShorterNumber ==
  ASSUME NEW base \in Nat, base >= 2, NEW k \in Nat, k > 0
  PROVE  k \div base \in 0 .. k - 1
<1> DEFINE q == k \div base
           r == k % base
<1>1. q \in Int /\ r \in 0 .. base - 1 /\ k = base * q + r
  BY DivisionOf
<1> HIDE DEF q, r
<1>2. q >= 0
  <2>1. SUFFICES ASSUME -q >= 1 PROVE FALSE
    BY <1>1
  <2>2. base * (-q - 1) >= 0
    <3> DEFINE e == -q - 1
    <3>1. e \in Nat
      BY <1>1, <2>1
    <3> HIDE DEF e
    <3>2. base * e >= 0
      BY <3>1
    <3> QED BY <3>2 DEF e
  <2>3. base * (-q - 1) = -(base * q) - base
    BY <1>1
  <2> DEFINE m == base * q
  <2>4. m \in Int
    BY <1>1
  <2> HIDE DEF m
  <2> QED BY <1>1, <2>2, <2>3, <2>4 DEF m
<1>3. base * q >= 2 * q
  <2>1. (base - 2) * q >= 0
    <3> DEFINE e == base - 2
    <3>1. e \in Nat /\ q \in Nat
      BY <1>1, <1>2
    <3> HIDE DEF e
    <3>2. e * q >= 0
      BY <3>1
    <3> QED BY <3>2 DEF e
  <2>2. (base - 2) * q = base * q - 2 * q
    BY <1>1
  <2> DEFINE m == base * q
  <2>3. m \in Int
    BY <1>1
  <2> HIDE DEF m
  <2> QED BY <1>1, <2>1, <2>2, <2>3 DEF m
<1>4. q <= k - 1
  <2> DEFINE m == base * q
  <2>1. m \in Int /\ m >= 2 * q /\ k = m + r
    BY <1>1, <1>3
  <2> HIDE DEF m
  <2> QED BY <1>1, <1>2, <2>1
<1>5. q \in 0 .. k - 1
  BY <1>1, <1>2, <1>4
<1> QED BY <1>5 DEF q

\* The numerals of Digits(), one for each number up to n.
LEMMA DigitsRuns ==
  ASSUME NEW base \in Nat, base >= 2, NEW n \in Nat
  PROVE  \E g : /\ g[0] = <<>> /\ Digits(base, n) = g[n]
                /\ \A k \in 1 .. n : g[k] = Append(g[k \div base], k % base)
<1> DEFINE Runs(m, g) ==
             g = [k \in 0 .. m |->
                    IF k = 0 THEN <<>> ELSE Append(g[k \div base], k % base)]
           Without == {m \in 0 .. n : ~ \E g : Runs(m, g)}
<1>1. Without = {}
  <2>1. SUFFICES ASSUME Without # {} PROVE FALSE
    OBVIOUS
  <2>2. PICK m \in Without : \A j \in Without : m <= j
    <3>1. Without \subseteq Nat
      OBVIOUS
    <3> HIDE DEF Without
    <3> QED BY <2>1, <3>1, LeastNumber
  <2>3. m # 0
    <3>1. Runs(0, [k \in 0 .. 0 |-> <<>>])
      OBVIOUS
    <3> QED BY <3>1
  <2>4. m \in 0 .. n /\ m - 1 \in 0 .. n /\ m - 1 \notin Without
    <3>1. m \in 0 .. n
      OBVIOUS
    <3>2. m - 1 \in 0 .. n /\ ~(m <= m - 1)
      BY <2>3, <3>1
    <3> HIDE DEF Without
    <3> QED BY <2>2, <3>1, <3>2
  <2>5. PICK g : Runs(m - 1, g)
    BY <2>4
  <2> DEFINE h == [k \in 0 .. m |->
                     IF k = m THEN Append(g[m \div base], m % base) ELSE g[k]]
  <2>6. Runs(m, h)
    <3>1. ASSUME NEW k \in 0 .. m
          PROVE  h[k] = IF k = 0 THEN <<>> ELSE Append(h[k \div base], k % base)
      <4>1. CASE k = 0
        <5>1. h[k] = g[k]
          BY <2>3, <4>1
        <5>2. k \in 0 .. m - 1
          BY <2>3, <2>4, <4>1
        <5> QED BY <2>5, <4>1, <5>1, <5>2
      <4>2. CASE k # 0
        <5> DEFINE q == k \div base
        <5>0. k \in Nat /\ k > 0
          BY <4>2
        <5>1. q \in 0 .. k - 1
          BY <5>0, ShorterNumber
        <5>2. q \in 0 .. m /\ q # m
          <6> HIDE DEF q
          <6> QED BY <5>1
        <5>3. h[q] = g[q]
          <6> HIDE DEF q
          <6> QED BY <5>2
        <5>4. CASE k = m
          BY <4>2, <5>3, <5>4
        <5>5. CASE k # m
          <6>1. k \in 0 .. m - 1
            BY <2>4, <5>5
          <6>2. g[k] = Append(g[q], k % base)
            BY <2>5, <4>2, <6>1
          <6>3. h[k] = g[k]
            BY <5>5
          <6> QED BY <4>2, <5>3, <6>2, <6>3
        <5> QED BY <5>4, <5>5
      <4> QED BY <4>1, <4>2
    <3>2. h = [k \in 0 .. m |-> h[k]]
      OBVIOUS
    <3> HIDE DEF h
    <3>3. [k \in 0 .. m |-> h[k]] =
            [k \in 0 .. m |-> IF k = 0 THEN <<>> ELSE Append(h[k \div base], k % base)]
      BY <3>1
    <3> QED BY <3>2, <3>3
  <2> QED BY <2>2, <2>6
<1> DEFINE digits == CHOOSE g : Runs(n, g)
<1>2. Runs(n, digits)
  <2>1. n \in 0 .. n
    OBVIOUS
  <2>2. \E g : Runs(n, g)
    BY <1>1, <2>1
  <2> QED BY <2>2
<1>3. Digits(base, n) = digits[n]
  BY DEF Digits
<1> HIDE DEF digits
<1>4. digits[0] = <<>>
  BY <1>2
<1>5. \A k \in 1 .. n : digits[k] = Append(digits[k \div base], k % base)
  <2> TAKE k \in 1 .. n
  <2>1. k \in 0 .. n /\ k # 0
    OBVIOUS
  <2> QED BY <1>2, <2>1
<1> QED BY <1>3, <1>4, <1>5

\* The values of ValueOf(), one for each digit read.
LEMMA ValueRuns ==
  ASSUME NEW base \in Nat, NEW ds \in Seq(Int)
  PROVE  \E g : /\ g[0] = 0 /\ ValueOf(base, ds) = g[Len(ds)]
                /\ \A k \in 1 .. Len(ds) : g[k] = Wrap(base * g[k - 1] + ds[k])
<1> DEFINE L == Len(ds)
           Runs(m, g) ==
             g = [k \in 0 .. m |-> IF k = 0 THEN 0 ELSE Wrap(base * g[k - 1] + ds[k])]
           Without == {m \in 0 .. L : ~ \E g : Runs(m, g)}
<1>1. Without = {}
  <2>1. SUFFICES ASSUME Without # {} PROVE FALSE
    OBVIOUS
  <2>2. PICK m \in Without : \A j \in Without : m <= j
    <3>1. Without \subseteq Nat
      OBVIOUS
    <3> HIDE DEF Without
    <3> QED BY <2>1, <3>1, LeastNumber
  <2>3. m # 0
    <3>1. Runs(0, [k \in 0 .. 0 |-> 0])
      OBVIOUS
    <3> QED BY <3>1
  <2>4. m \in 0 .. L /\ m - 1 \in 0 .. L /\ m - 1 \notin Without
    <3>1. m \in 0 .. L
      OBVIOUS
    <3>2. m - 1 \in 0 .. L /\ ~(m <= m - 1)
      BY <2>3, <3>1
    <3> HIDE DEF Without
    <3> QED BY <2>2, <3>1, <3>2
  <2>5. PICK g : Runs(m - 1, g)
    BY <2>4
  <2> DEFINE h == [k \in 0 .. m |->
                     IF k = m THEN Wrap(base * g[m - 1] + ds[m]) ELSE g[k]]
  <2>6. Runs(m, h)
    <3>1. ASSUME NEW k \in 0 .. m
          PROVE  h[k] = IF k = 0 THEN 0 ELSE Wrap(base * h[k - 1] + ds[k])
      <4>1. CASE k = m
        <5>1. k # 0 /\ k - 1 \in 0 .. m /\ k - 1 # m
          BY <2>3, <2>4, <4>1
        <5>2. h[k] = Wrap(base * g[m - 1] + ds[m]) /\ h[k - 1] = g[k - 1]
          BY <4>1, <5>1
        <5> QED BY <4>1, <5>1, <5>2
      <4>2. CASE k # m
        <5>1. k \in 0 .. m - 1 /\ k - 1 # m
          BY <2>4, <4>2
        <5>2. g[k] = IF k = 0 THEN 0 ELSE Wrap(base * g[k - 1] + ds[k])
          BY <2>5, <5>1
        <5>3. h[k] = g[k]
          BY <4>2
        <5>4. k # 0 => h[k - 1] = g[k - 1]
          BY <5>1
        <5> QED BY <5>2, <5>3, <5>4
      <4> QED BY <4>1, <4>2
    <3>2. h = [k \in 0 .. m |-> h[k]]
      OBVIOUS
    <3> HIDE DEF h
    <3>3. [k \in 0 .. m |-> h[k]] =
            [k \in 0 .. m |-> IF k = 0 THEN 0 ELSE Wrap(base * h[k - 1] + ds[k])]
      BY <3>1
    <3> QED BY <3>2, <3>3
  <2> QED BY <2>2, <2>6
<1> DEFINE value == CHOOSE g : Runs(L, g)
<1>2. Runs(L, value)
  <2>1. L \in 0 .. L
    OBVIOUS
  <2>2. \E g : Runs(L, g)
    BY <1>1, <2>1
  <2> QED BY <2>2
<1>3. ValueOf(base, ds) = value[L]
  BY DEF ValueOf
<1> HIDE DEF value
<1>4. value[0] = 0
  BY <1>2
<1>5. \A k \in 1 .. L : value[k] = Wrap(base * value[k - 1] + ds[k])
  <2> TAKE k \in 1 .. L
  <2>1. k \in 0 .. L /\ k # 0
    OBVIOUS
  <2> QED BY <1>2, <2>1
<1> QED BY <1>3, <1>4, <1>5

\* One more digit.
LEMMA ValueOfAppend ==
  ASSUME NEW base \in Nat, NEW ds \in Seq(Int), NEW d \in Int
  PROVE  ValueOf(base, Append(ds, d)) = Wrap(base * ValueOf(base, ds) + d)
<1> DEFINE L == Len(ds)
           es == Append(ds, d)
<1>1. /\ es \in Seq(Int) /\ Len(es) = L + 1 /\ L \in Nat /\ es[L + 1] = d
      /\ \A k \in 1 .. L : es[k] = ds[k]
  OBVIOUS
<1> HIDE DEF es
<1>2. PICK g : /\ g[0] = 0 /\ ValueOf(base, ds) = g[L]
               /\ \A k \in 1 .. L : g[k] = Wrap(base * g[k - 1] + ds[k])
  BY ValueRuns
<1>3. PICK h : /\ h[0] = 0 /\ ValueOf(base, es) = h[Len(es)]
               /\ \A k \in 1 .. Len(es) : h[k] = Wrap(base * h[k - 1] + es[k])
  BY <1>1, ValueRuns
<1>4. h[L] = g[L]
  <2> DEFINE Apart == {k \in 0 .. L : h[k] # g[k]}
  <2>1. SUFFICES ASSUME Apart # {} PROVE FALSE
    BY <1>1
  <2>2. PICK m \in Apart : \A j \in Apart : m <= j
    <3>1. Apart \subseteq Nat
      OBVIOUS
    <3> HIDE DEF Apart
    <3> QED BY <2>1, <3>1, LeastNumber
  <2>3. m \in 0 .. L /\ h[m] # g[m] /\ m # 0
    BY <1>2, <1>3
  <2>4. m - 1 \in 0 .. L /\ m \in 1 .. L /\ m \in 1 .. L + 1 /\ ~(m <= m - 1)
    BY <1>1, <2>3
  <2>5. h[m - 1] = g[m - 1]
    BY <2>2, <2>4
  <2>6. h[m] = Wrap(base * h[m - 1] + es[m]) /\ g[m] = Wrap(base * g[m - 1] + ds[m])
    BY <1>1, <1>2, <1>3, <2>4
  <2> QED BY <1>1, <2>3, <2>4, <2>5, <2>6
<1>5. L + 1 \in 1 .. L + 1 /\ (L + 1) - 1 = L
  BY <1>1
<1>6. h[L + 1] = Wrap(base * h[L] + es[L + 1])
  BY <1>1, <1>3, <1>5
<1> QED BY <1>1, <1>2, <1>3, <1>4, <1>6 DEF es

\* No digit is zero.
LEMMA ValueOfNone == ASSUME NEW base \in Nat PROVE ValueOf(base, <<>>) = 0
<1>1. <<>> \in Seq(Int) /\ Len(<<>>) = 0
  OBVIOUS
<1> QED BY <1>1, ValueRuns

\* Zero is an int.
LEMMA WrapOfZero == Wrap(0) = 0 /\ 0 \in Word
<1>1. 0 \in Word
  BY WidthAssumption DEF Word, MinInt, MaxInt
<1> QED BY <1>1, WrapOfWord

\* Reading any of the numerals gives the number, wrapped, in any base.
LEMMA NumeralsReadBack ==
  ASSUME NEW base \in Nat, base >= 2, NEW n \in Nat, NEW g, g[0] = <<>>,
         \A k \in 1 .. n : g[k] = Append(g[k \div base], k % base)
  PROVE  \A k \in 0 .. n : /\ g[k] \in Seq(0 .. base - 1)
                           /\ ValueOf(base, g[k]) = Wrap(k)
<1> DEFINE Reads(k) == g[k] \in Seq(0 .. base - 1) /\ ValueOf(base, g[k]) = Wrap(k)
           Wrong == {k \in 0 .. n : ~Reads(k)}
<1>2. Wrong = {}
  <2>1. SUFFICES ASSUME Wrong # {} PROVE FALSE
    OBVIOUS
  <2>2. PICK m \in Wrong : \A j \in Wrong : m <= j
    <3>1. Wrong \subseteq Nat
      OBVIOUS
    <3> HIDE DEF Wrong
    <3> QED BY <2>1, <3>1, LeastNumber
  <2>3. m \in 0 .. n /\ ~Reads(m)
    OBVIOUS
  <2>4. m # 0
    <3>1. <<>> \in Seq(0 .. base - 1)
      OBVIOUS
    <3>2. ValueOf(base, <<>>) = 0
      BY ValueOfNone
    <3>3. Reads(0)
      BY <3>1, <3>2, WrapOfZero
    <3> QED BY <2>3, <3>3
  <2> DEFINE q == m \div base
             d == m % base
  <2>5. m \in Nat /\ m > 0 /\ m \in 1 .. n
    BY <2>3, <2>4
  <2>6. q \in 0 .. m - 1
    BY <2>5, ShorterNumber
  <2>7. q \in Int /\ d \in 0 .. base - 1 /\ m = base * q + d
    BY <2>5, DivisionOf
  <2>8. g[m] = Append(g[q], d)
    BY <2>5
  <2> HIDE DEF q, d
  <2>9. Reads(q)
    <3>1. q \in 0 .. n /\ ~(m <= q)
      BY <2>3, <2>6, <2>7
    <3>2. q \notin Wrong
      <4> HIDE DEF Wrong
      <4> QED BY <2>2, <3>1
    <3> QED BY <3>1, <3>2
  <2>10. d \in Int
    BY <2>7
  <2>11. g[m] \in Seq(0 .. base - 1)
    BY <2>7, <2>8, <2>9
  <2>12. ValueOf(base, g[m]) = Wrap(base * Wrap(q) + d)
    <3>1. g[q] \in Seq(Int)
      BY <2>9
    <3> QED BY <2>8, <2>9, <2>10, <3>1, ValueOfAppend
  <2>13. Wrap(base * Wrap(q) + d) = Wrap(m)
    BY <2>7, <2>10, WrapStep
  <2> QED BY <2>3, <2>11, <2>12, <2>13
<1>3. \A k \in 0 .. n : Reads(k)
  BY <1>2
<1> QED BY <1>3

\* What a numeral begins with is the numeral of a smaller number.
LEMMA NumeralsBeginSmaller ==
  ASSUME NEW base \in Nat, base >= 2, NEW n \in Nat, NEW g, g[0] = <<>>,
         \A k \in 1 .. n : g[k] = Append(g[k \div base], k % base)
  PROVE  \A k \in 0 .. n : \A j \in 0 .. Len(g[k]) - 1 :
           \E m \in 0 .. k - 1 : SubSeq(g[k], 1, j) = g[m]
<1> DEFINE Begins(k) == \A j \in 0 .. Len(g[k]) - 1 :
                          \E m \in 0 .. k - 1 : SubSeq(g[k], 1, j) = g[m]
           Wrong == {k \in 0 .. n : ~Begins(k)}
<1>1. Wrong = {}
  <2>1. SUFFICES ASSUME Wrong # {} PROVE FALSE
    OBVIOUS
  <2>2. PICK k \in Wrong : \A j \in Wrong : k <= j
    <3>1. Wrong \subseteq Nat
      OBVIOUS
    <3> HIDE DEF Wrong
    <3> QED BY <2>1, <3>1, LeastNumber
  <2>3. k \in 0 .. n /\ ~Begins(k)
    OBVIOUS
  <2>4. k # 0
    <3>1. Len(g[0]) - 1 = -1
      OBVIOUS
    <3> QED BY <2>3, <3>1
  <2>5. k \in 1 .. n /\ k \in Nat /\ k > 0
    BY <2>3, <2>4
  <2> DEFINE q == k \div base
             d == k % base
  <2>6. q \in 0 .. k - 1
    BY <2>5, ShorterNumber
  <2>7. g[k] = Append(g[q], d)
    BY <2>5
  <2> HIDE DEF q, d
  <2>8. Begins(q)
    <3>1. q \in 0 .. n /\ ~(k <= q)
      BY <2>5, <2>6
    <3>2. q \notin Wrong
      <4> HIDE DEF Wrong
      <4> QED BY <2>2, <3>1
    <3> QED BY <3>1, <3>2
  <2>9. g[q] \in Seq(0 .. base - 1) /\ d \in 0 .. base - 1
    <3>1. q \in 0 .. n
      BY <2>5, <2>6
    <3>2. d \in 0 .. base - 1
      BY <2>5, DivisionOf DEF d
    <3> QED BY <3>1, <3>2, NumeralsReadBack
  <2> DEFINE short == g[q]
  <2>10. short \in Seq(Int) /\ d \in Int /\ g[k] = Append(short, d)
    BY <2>7, <2>9
  <2>11. ASSUME NEW j \in 0 .. Len(g[k]) - 1
         PROVE  \E m \in 0 .. k - 1 : SubSeq(g[k], 1, j) = g[m]
    <3>1. j \in 0 .. Len(short) /\ Len(short) \in Nat
      <4> HIDE DEF short
      <4> QED BY <2>10, <2>11
    <3>2. SubSeq(g[k], 1, j) = SubSeq(short, 1, j)
      <4> HIDE DEF short
      <4>1. SubSeq(g[k], 1, j) = [i \in 1 .. j |-> g[k][i]]
        BY <2>10, <3>1
      <4>2. SubSeq(short, 1, j) = [i \in 1 .. j |-> short[i]]
        BY <2>10, <3>1
      <4>3. ASSUME NEW i \in 1 .. j PROVE g[k][i] = short[i]
        BY <2>10, <3>1
      <4> QED BY <4>1, <4>2, <4>3
    <3>3. CASE j = Len(short)
      <4>1. SubSeq(short, 1, j) = short
        <5> HIDE DEF short
        <5> QED BY <2>10, <3>3
      <4> QED BY <2>6, <3>2, <4>1
    <3>4. CASE j # Len(short)
      <4>1. j \in 0 .. Len(g[q]) - 1
        BY <3>1, <3>4
      <4>2. PICK m \in 0 .. q - 1 : SubSeq(g[q], 1, j) = g[m]
        BY <2>8, <4>1
      <4>3. m \in 0 .. k - 1
        BY <2>5, <2>6, <4>2
      <4> QED BY <3>2, <4>2, <4>3
    <3> QED BY <3>3, <3>4
  <2> QED BY <2>3, <2>11
<1> QED BY <1>1

\* The digits of a number are its numeral.
LEMMA DigitsReadBack ==
  ASSUME NEW base \in Nat, base >= 2, NEW n \in Nat
  PROVE  /\ Digits(base, n) \in Seq(0 .. base - 1)
         /\ ValueOf(base, Digits(base, n)) = Wrap(n)
<1>1. PICK g : /\ g[0] = <<>> /\ Digits(base, n) = g[n]
               /\ \A k \in 1 .. n : g[k] = Append(g[k \div base], k % base)
  BY DigitsRuns
<1>2. n \in 0 .. n
  OBVIOUS
<1>3. \A k \in 0 .. n : /\ g[k] \in Seq(0 .. base - 1)
                        /\ ValueOf(base, g[k]) = Wrap(k)
  BY <1>1, NumeralsReadBack
<1> QED BY <1>1, <1>2, <1>3

\* A single zero.
LEMMA ZeroReadsBack == ASSUME NEW base \in Nat PROVE ValueOf(base, <<0>>) = 0
<1> DEFINE e == <<>>
<1>1. <<0>> = Append(e, 0) /\ e \in Seq(Int) /\ 0 \in Int
  OBVIOUS
<1>2. ValueOf(base, e) = 0
  BY ValueOfNone
<1> HIDE DEF e
<1>3. ValueOf(base, Append(e, 0)) = Wrap(base * ValueOf(base, e) + 0)
  BY <1>1, ValueOfAppend
<1>4. base * 0 + 0 = 0
  OBVIOUS
<1> QED BY <1>1, <1>2, <1>3, <1>4, WrapOfZero

\* Every decimal printed is the number again, but for the smallest, of which no
\* digit is printed.
LEMMA DecimalDigits ==
  ASSUME NEW v \in Word
  PROVE  /\ v # MinInt => StrToInt(IntToStr(v)) = v
         /\ v = MinInt => IntToStr(v).digits = <<>>
<1> DEFINE m == IF v < 0 THEN Wrap(-v) ELSE v
           ds == IF v = 0 THEN <<0>> ELSE IF m > 0 THEN Digits(10, m) ELSE <<>>
<1>1. v \in Int /\ Half \in Int /\ Half > 0 /\ -Half <= v /\ v <= Half - 1
  BY WidthAssumption DEF Word, MinInt, MaxInt
<1>2. IntToStr(v).neg = (v < 0) /\ IntToStr(v).digits = ds
  BY DEF IntToStr
<1>3. StrToInt(IntToStr(v)) = IF v < 0 THEN Wrap(-ValueOf(10, ds)) ELSE ValueOf(10, ds)
  BY <1>2 DEF StrToInt
<1>4. CASE v = 0
  <2>1. ds = <<0>> /\ ~(v < 0)
    BY <1>4
  <2>2. ValueOf(10, <<0>>) = 0
    BY ZeroReadsBack
  <2>3. v # MinInt
    BY <1>1, <1>4 DEF MinInt
  <2> QED BY <1>3, <1>4, <2>1, <2>2, <2>3
<1>5. CASE v > 0
  <2>1. ds = Digits(10, v) /\ ~(v < 0) /\ v \in Nat
    BY <1>1, <1>5
  <2>2. ValueOf(10, Digits(10, v)) = Wrap(v)
    BY <2>1, DigitsReadBack
  <2>3. v # MinInt
    BY <1>1, <1>5 DEF MinInt
  <2> QED BY <1>3, <2>1, <2>2, <2>3, WrapOfWord
<1>6. CASE v < 0 /\ v # MinInt
  <2>1. -v \in Word /\ -v \in Nat /\ -v > 0
    BY <1>1, <1>6 DEF Word, MinInt, MaxInt
  <2>2. Wrap(-v) = -v
    BY <2>1, WrapOfWord
  <2>3. ds = Digits(10, -v)
    BY <1>1, <1>6, <2>1, <2>2
  <2>4. ValueOf(10, Digits(10, -v)) = -v
    BY <2>1, <2>2, DigitsReadBack
  <2>5. -(-v) = v
    BY <1>1
  <2>6. Wrap(-(-v)) = v
    BY <2>5, WrapOfWord
  <2> QED BY <1>3, <1>6, <2>3, <2>4, <2>6
<1>7. CASE v = MinInt
  <2>1. Wrap(-v) = v
    <3>1. -v = v + 2 * Half * 1
      BY <1>1, <1>7 DEF MinInt
    <3>2. Wrap(v + 2 * Half * 1) = Wrap(v)
      BY <1>1, WrapForgets
    <3> QED BY <3>1, <3>2, WrapOfWord
  <2>2. v < 0 /\ v # 0 /\ ~(v > 0)
    BY <1>1, <1>7 DEF MinInt
  <2>3. ds = <<>>
    BY <2>1, <2>2
  <2> QED BY <1>2, <1>7, <2>3
<1> QED BY <1>1, <1>4, <1>5, <1>6, <1>7

\* One or two characters stand before the digits, or none, or three.
LEMMA AheadCases ==
  ASSUME NEW s
  PROVE  /\ s.radix = 2 /\ ~s.neg => Ahead(s) = 2
         /\ s.radix = 2 /\ s.neg => Ahead(s) = 3
         /\ s.radix = 10 /\ ~s.neg => Ahead(s) = 0
         /\ s.radix = 10 /\ s.neg => Ahead(s) = 1
<1>1. CASE s.neg
  <2>1. (IF s.neg THEN 1 ELSE 0) = 1
    BY <1>1, Zenon
  <2> QED BY <1>1, <2>1 DEF Ahead
<1>2. CASE ~s.neg
  <2>1. (IF s.neg THEN 1 ELSE 0) = 0
    BY <1>2, Zenon
  <2> QED BY <1>2, <2>1 DEF Ahead
<1> QED BY <1>1, <1>2

\* A token has room for a decimal.
LEMMA DecimalFits == ASSUME NEW v \in Word PROVE Fits(IntToStr(v))
<1> DEFINE w == IF v < 0 THEN Wrap(-v) ELSE v
           ds == IF v = 0 THEN <<0>> ELSE IF w > 0 THEN Digits(10, w) ELSE <<>>
<1>1. v \in Int /\ Half \in Nat /\ Half > 0 /\ -Half <= v /\ v <= Half - 1 /\ TokenMax \in Nat /\ TokenMax > 3
  BY WidthAssumption, TokenAssumption DEF Word, MinInt, MaxInt
<1>2. IntToStr(v).radix = 10 /\ IntToStr(v).neg = (v < 0) /\ IntToStr(v).digits = ds
  BY DEF IntToStr
<1>3. Len(ds) \in Nat /\ Len(ds) < TokenMax
  <2>1. CASE v = 0
    <3>1. Len(<<0>>) = 1
      OBVIOUS
    <3>2. ds = <<0>>
      BY <2>1
    <3> HIDE DEF ds
    <3>3. Len(ds) = 1
      BY <3>1, <3>2, Zenon
    <3> QED BY <1>1, <3>3
  <2>2. CASE v # 0 /\ v # MinInt
    <3>1. w \in 1 .. Half
      <4>1. CASE v < 0
        <5>1. -v \in Word /\ -v \in 1 .. Half
          BY <1>1, <2>2, <4>1 DEF Word, MinInt, MaxInt
        <5> QED BY <4>1, <5>1, WrapOfWord
      <4> QED BY <1>1, <2>2, <4>1
    <3> HIDE DEF w
    <3>2. ds = Digits(10, w) /\ w \in Nat /\ w \in 0 .. Half
      BY <1>1, <2>2, <3>1
    <3>3. Len(Digits(10, w)) < TokenMax
      BY <3>2, TokenAssumption
    <3>4. Digits(10, w) \in Seq(0 .. 9)
      <4>1. 10 \in Nat /\ 10 >= 2 /\ 10 - 1 = 9
        OBVIOUS
      <4> QED BY <3>2, <4>1, DigitsReadBack
    <3>5. Len(Digits(10, w)) \in Nat
      BY <3>4
    <3> QED BY <3>2, <3>3, <3>5
  <2>3. CASE v = MinInt
    <3>1. ds = <<>> /\ Len(<<>>) = 0
      BY <1>2, <2>3, DecimalDigits
    <3> QED BY <1>1, <3>1
  <2> QED BY <2>1, <2>2, <2>3
<1> HIDE DEF ds
<1>4. Ahead(IntToStr(v)) \in 0 .. 1
  BY <1>2, AheadCases
<1>5. Ahead(IntToStr(v)) + Len(IntToStr(v).digits) <= TokenMax
  BY <1>1, <1>2, <1>3, <1>4
<1> QED BY <1>5 DEF Fits

\* So it is read as it was printed; of the smallest int the sign alone, as 0.
LEMMA DecimalReadsBack ==
  ASSUME NEW v \in Word
  PROVE  /\ Readable(Cut(IntToStr(v)))
         /\ Operand(Cut(IntToStr(v))) = IF v = MinInt THEN 0 ELSE v
<1>1. Cut(IntToStr(v)) = IntToStr(v)
  BY DecimalFits DEF Cut
<1>2. IntToStr(v).radix = 10
  BY DEF IntToStr
<1>3. Readable(IntToStr(v)) /\ Operand(IntToStr(v)) = StrToInt(IntToStr(v))
  BY <1>2 DEF Readable, Operand
<1>4. CASE v # MinInt
  BY <1>1, <1>3, <1>4, DecimalDigits
<1>5. CASE v = MinInt
  <2>1. IntToStr(v).digits = <<>>
    BY <1>5, DecimalDigits
  <2>2. ValueOf(10, <<>>) = 0 /\ Wrap(-0) = 0
    BY ValueOfNone, WrapOfZero
  <2>3. StrToInt(IntToStr(v)) = 0
    BY <2>1, <2>2 DEF StrToInt
  <2> QED BY <1>1, <1>3, <1>5, <2>3
<1> QED BY <1>4, <1>5

\* Binary digits without a sign are read.
LEMMA BinaryRead ==
  ASSUME NEW s, s.radix = 2, ~s.neg, s.digits \in Seq(0 .. 1), s.digits # <<>>,
         ValueOf(2, s.digits) \in Nat
  PROVE  Readable(s) /\ Operand(s) = ValueOf(2, s.digits)
<1>1. ~ \E i \in DOMAIN s.digits : s.digits[i] > 1
  OBVIOUS
<1>2. BinToInt(s) = ValueOf(2, s.digits)
  BY <1>1 DEF BinToInt
<1> QED BY <1>2 DEF Readable, Operand

\* A binary printed is read unless it is negative, and is the number if it fits
\* in a token.
LEMMA BinaryReadsBack ==
  ASSUME NEW v \in Word
  PROVE  LET binary == Cut(IntToBin(v)) IN
         /\ Readable(binary) <=> v >= 0
         /\ v >= 0 => IF Fits(IntToBin(v)) THEN Operand(binary) = v
                      ELSE Operand(binary) < v
<1> DEFINE printed == IntToBin(v)
           binary == Cut(printed)
           Back == /\ Readable(binary) <=> v >= 0
                   /\ v >= 0 => IF Fits(printed) THEN Operand(binary) = v
                                ELSE Operand(binary) < v
<1> SUFFICES Back
  OBVIOUS
<1>1. /\ v \in Int /\ Half \in Nat /\ -Half <= v /\ v <= Half - 1
      /\ TokenMax \in Nat /\ TokenMax > 3
  BY WidthAssumption, TokenAssumption DEF Word, MinInt, MaxInt
<1>2. /\ printed.radix = 2 /\ printed.neg = (v < 0)
      /\ binary.radix = 2 /\ binary.neg = (v < 0)
      /\ binary.digits = IF Fits(printed) THEN printed.digits
                         ELSE SubSeq(printed.digits, 1, TokenMax - Ahead(printed))
  BY DEF IntToBin, Cut
<1> HIDE DEF binary, Back
<1>0. ASSUME v >= 0 PROVE ~printed.neg /\ ~binary.neg
  <2>1. (v < 0) = FALSE
    BY <1>0, <1>1
  <2> HIDE DEF printed
  <2> QED BY <1>2, <2>1, Zenon
<1>3. CASE v < 0
  <2>1. BinToInt(binary) = -1
    BY <1>2, <1>3 DEF BinToInt
  <2> QED BY <1>1, <1>2, <1>3, <2>1 DEF Readable, Back
<1>4. CASE v = 0
  <2>1. printed.digits = <<0>>
    BY <1>4 DEF IntToBin
  <2>2. Ahead(printed) = 2 /\ ~binary.neg
    BY <1>0, <1>2, <1>4, AheadCases
  <2> HIDE DEF printed
  <2>3. Fits(printed)
    BY <1>1, <2>1, <2>2 DEF Fits
  <2>4. binary.digits = <<0>> /\ <<0>> \in Seq(0 .. 1) /\ <<0>> # <<>>
    BY <1>2, <2>1, <2>3
  <2>5. ValueOf(2, <<0>>) = 0
    BY ZeroReadsBack
  <2>6. ValueOf(2, binary.digits) = 0 /\ 0 \in Nat
    BY <2>4, <2>5
  <2>7. binary.digits \in Seq(0 .. 1) /\ binary.digits # <<>>
    BY <2>4, Zenon
  <2>8. Readable(binary) /\ Operand(binary) = ValueOf(2, binary.digits)
    BY <1>2, <2>2, <2>6, <2>7, BinaryRead
  <2> QED BY <1>4, <2>3, <2>6, <2>8 DEF Back
<1>5. CASE v > 0
  <2>1. Unsigned(v) = v /\ v \in Nat
    BY <1>1, <1>5, SmallMod DEF Unsigned
  <2>2. printed.digits = Digits(2, v)
    BY <1>1, <1>5, <2>1 DEF IntToBin
  <2>3. PICK g : /\ g[0] = <<>> /\ Digits(2, v) = g[v]
                 /\ \A k \in 1 .. v : g[k] = Append(g[k \div 2], k % 2)
    <3>1. 2 \in Nat /\ 2 >= 2
      OBVIOUS
    <3> QED BY <2>1, <3>1, DigitsRuns
  <2>4. \A k \in 0 .. v : g[k] \in Seq(0 .. 1) /\ ValueOf(2, g[k]) = Wrap(k)
    <3>1. 2 \in Nat /\ 2 >= 2 /\ 2 - 1 = 1
      OBVIOUS
    <3> QED BY <2>1, <2>3, <3>1, NumeralsReadBack
  <2>5. \A k \in 0 .. v : Wrap(k) = k
    <3> TAKE k \in 0 .. v
    <3>1. k \in Word
      BY <1>1, <2>1 DEF Word, MinInt, MaxInt
    <3> QED BY <3>1, WrapOfWord
  <2>6. v \in 0 .. v
    BY <2>1
  <2>7. g[v] # <<>>
    <3>1. ValueOf(2, <<>>) = 0
      BY ValueOfNone
    <3> QED BY <1>5, <2>4, <2>5, <2>6, <3>1
  <2>8. Ahead(printed) = 2 /\ ~binary.neg
    BY <1>0, <1>1, <1>2, <1>5, AheadCases
  <2> HIDE DEF printed
  <2>9. CASE Fits(printed)
    <3>1. binary.digits = g[v] /\ ValueOf(2, g[v]) = v
      BY <1>2, <2>2, <2>3, <2>4, <2>5, <2>6, <2>9
    <3>2. Readable(binary) /\ Operand(binary) = v
      BY <1>2, <2>1, <2>4, <2>6, <2>7, <2>8, <3>1, BinaryRead
    <3> QED BY <1>1, <1>5, <2>9, <3>2 DEF Back
  <2>10. CASE ~Fits(printed)
    <3> DEFINE j == TokenMax - 2
    <3>1. j \in 0 .. Len(g[v]) - 1 /\ j > 0
      <4>1. Len(g[v]) \in Nat
        BY <2>4, <2>6
      <4>2. printed.digits = g[v]
        BY <2>2, <2>3
      <4>3. ~(Ahead(printed) + Len(printed.digits) <= TokenMax)
        BY <2>10 DEF Fits
      <4>4. ~(2 + Len(g[v]) <= TokenMax)
        BY <2>8, <4>2, <4>3
      <4> QED BY <1>1, <4>1, <4>4
    <3>2. binary.digits = SubSeq(g[v], 1, j)
      BY <1>2, <2>2, <2>3, <2>8, <2>10
    <3> HIDE DEF j
    <3>3. PICK m \in 0 .. v - 1 : SubSeq(g[v], 1, j) = g[m]
      <4>1. 2 \in Nat /\ 2 >= 2
        OBVIOUS
      <4>2. \A k \in 0 .. v : \A i \in 0 .. Len(g[k]) - 1 :
              \E m \in 0 .. k - 1 : SubSeq(g[k], 1, i) = g[m]
        BY <2>1, <2>3, <4>1, NumeralsBeginSmaller
      <4> QED BY <2>6, <3>1, <4>2
    <3>4. g[m] # <<>>
      <4>1. Len(SubSeq(g[v], 1, j)) = j
        BY <2>4, <2>6, <3>1
      <4>2. Len(<<>>) = 0
        OBVIOUS
      <4> QED BY <3>1, <3>3, <4>1, <4>2
    <3>5. m \in 0 .. v /\ m \in Nat /\ m < v
      BY <2>1, <3>3
    <3>6. g[m] \in Seq(0 .. 1) /\ ValueOf(2, g[m]) = m
      BY <2>4, <2>5, <3>5
    <3>7. Readable(binary) /\ Operand(binary) = m
      BY <1>2, <2>8, <3>2, <3>3, <3>4, <3>5, <3>6, BinaryRead
    <3> QED BY <1>1, <1>5, <2>10, <3>5, <3>7 DEF Back
  <2> QED BY <2>9, <2>10
<1> QED BY <1>1, <1>3, <1>4, <1>5

\* A quotient that does not trap is an int.
LEMMA QuotientType ==
  ASSUME NEW a \in Word, NEW b \in Word, ~Traps(a, b)
  PROVE  Quotient(a, b) \in Word
<1> DEFINE x == IF a < 0 THEN -a ELSE a
           y == IF b < 0 THEN -b ELSE b
           q == x \div y
<1>1. /\ a \in Int /\ b \in Int /\ Half \in Int /\ Half > 0 /\ b # 0
      /\ -Half <= a /\ a <= Half - 1 /\ -Half <= b /\ b <= Half - 1
      /\ ~(a = -Half /\ b = -1)
  BY WidthAssumption DEF Traps, Word, MinInt, MaxInt
<1>2. x \in Nat /\ y \in Nat /\ y > 0 /\ x <= Half
  BY <1>1
<1>3. q \in Nat /\ q <= x
  <2>1. CASE x = 0
    <3>1. 0 \div y = 0
      <4> HIDE DEF y
      <4> QED BY <1>2
    <3> QED BY <2>1, <3>1
  <2>2. CASE x > 0 /\ y >= 2
    <3>1. q \in 0 .. x - 1
      <4> HIDE DEF x, y
      <4> QED BY <1>2, <2>2, ShorterNumber
    <3> HIDE DEF q, x, y
    <3> QED BY <1>2, <3>1
  <2>3. CASE y = 1
    <3>1. x \div 1 = x
      <4> HIDE DEF x
      <4> QED BY <1>2
    <3> HIDE DEF x, y
    <3> QED BY <1>2, <2>3, <3>1
  <2> HIDE DEF q, x, y
  <2> QED BY <1>2, <2>1, <2>2, <2>3
<1>4. Quotient(a, b) = IF (a < 0) = (b < 0) THEN q ELSE -q
  BY DEF Quotient
<1>5. CASE (a < 0) # (b < 0)
  <2>1. -Half <= -q /\ -q <= Half - 1 /\ -q \in Int
    <3> HIDE DEF q, x, y
    <3> QED BY <1>1, <1>2, <1>3
  <2>2. Quotient(a, b) = -q
    BY <1>4, <1>5
  <2> HIDE DEF q
  <2> QED BY <1>1, <2>1, <2>2 DEF Word, MinInt, MaxInt
<1>6. CASE (a < 0) = (b < 0)
  <2>1. q <= Half - 1
    <3>1. CASE x <= Half - 1
      <4> HIDE DEF q, x, y
      <4> QED BY <1>1, <1>2, <1>3, <3>1
    <3>2. CASE x = Half
      <4>1. y >= 2
        BY <1>1, <1>2, <1>6, <3>2
      <4>2. q \in 0 .. x - 1
        <5> HIDE DEF x, y
        <5> QED BY <1>1, <1>2, <3>2, <4>1, ShorterNumber
      <4> HIDE DEF q, x, y
      <4> QED BY <1>1, <3>2, <4>2
    <3> HIDE DEF q, x, y
    <3> QED BY <1>1, <1>2, <3>1, <3>2
  <2>2. Quotient(a, b) = q
    BY <1>4, <1>6
  <2> HIDE DEF q, x, y
  <2> QED BY <1>1, <1>3, <2>1, <2>2 DEF Word, MinInt, MaxInt
<1> QED BY <1>5, <1>6

\* The digits of a number are read as an int.
LEMMA ValueType ==
  ASSUME NEW base \in Nat, NEW ds \in Seq(Int)
  PROVE  ValueOf(base, ds) \in Word
<1> DEFINE L == Len(ds)
<1>1. PICK g : /\ g[0] = 0 /\ ValueOf(base, ds) = g[L]
               /\ \A k \in 1 .. L : g[k] = Wrap(base * g[k - 1] + ds[k])
  BY ValueRuns
<1>2. L \in Nat /\ \A k \in 1 .. L : ds[k] \in Int
  OBVIOUS
<1> HIDE DEF L
<1> DEFINE Wrong == {k \in 0 .. L : g[k] \notin Word}
<1>3. SUFFICES ASSUME Wrong # {} PROVE FALSE
  BY <1>1, <1>2
<1>4. PICK k \in Wrong : \A j \in Wrong : k <= j
  <2>1. Wrong \subseteq Nat
    OBVIOUS
  <2> HIDE DEF Wrong
  <2> QED BY <1>3, <2>1, LeastNumber
<1>5. k \in 1 .. L /\ k - 1 \in 0 .. L /\ ~(k <= k - 1)
  BY <1>1, <1>2, WrapOfZero
<1>6. g[k - 1] \in Int
  <2>1. g[k - 1] \in Word
    BY <1>4, <1>5
  <2> QED BY <2>1, WidthAssumption DEF Word, MinInt, MaxInt
<1>7. base * g[k - 1] + ds[k] \in Int
  BY <1>2, <1>5, <1>6
<1>8. g[k] \in Word
  BY <1>1, <1>5, <1>7, WrapDiffers
<1> QED BY <1>8

\* So is a token of digits.
LEMMA OperandType ==
  ASSUME NEW s, s.digits \in Seq(Int)
  PROVE  Operand(s) \in Word
<1>1. ValueOf(2, s.digits) \in Word /\ ValueOf(10, s.digits) \in Word
  BY ValueType
<1>2. -1 \in Word
  BY WidthAssumption DEF Word, MinInt, MaxInt
<1>3. BinToInt(s) \in Word
  BY <1>1, <1>2 DEF BinToInt
<1>4. StrToInt(s) \in Word
  <2>1. -ValueOf(10, s.digits) \in Int
    BY <1>1, WidthAssumption DEF Word, MinInt, MaxInt
  <2> QED BY <1>1, <2>1, WrapDiffers DEF StrToInt
<1> QED BY <1>3, <1>4 DEF Operand

\* The tokens of a line are of digits.
LEMMA TokensType ==
  ASSUME NEW x \in Texts, NEW y \in Texts, NEW op \in Operators
  PROVE  /\ Tokens(x, op, y)[1].digits \in Seq(Int)
         /\ Tokens(x, op, y)[2].digits \in Seq(Int)
<1> DEFINE Token == [radix : {2, 10}, neg : BOOLEAN, digits : Seq(Int)]
<1>1. x \in Token /\ y \in Token
  <2>1. Texts \subseteq Text
    BY CalculatorAssumption
  <2>2. Text \subseteq [radix : {2, 10}, neg : BOOLEAN, digits : Seq(0 .. 9)]
    BY Zenon DEF Text
  <2>3. Seq(0 .. 9) \subseteq Seq(Int)
    OBVIOUS
  <2> QED BY <2>1, <2>2, <2>3
<1>2. ASSUME NEW ds \in Seq(Int), NEW k \in Int, k >= 0, k <= Len(ds)
      PROVE  SubSeq(ds, 1, k) \in Seq(Int) /\ SubSeq(ds, k + 1, Len(ds)) \in Seq(Int)
  BY <1>2
<1>3. ASSUME NEW s \in Token
      PROVE  /\ Cut(s).digits \in Seq(Int)
             /\ ~Fits(s) => Rest(s) \in Token
  <2>1. Ahead(s) \in 0 .. 3 /\ TokenMax \in Nat /\ TokenMax > 3
    BY TokenAssumption DEF Ahead
  <2>2. CASE Fits(s)
    BY <1>3, <2>2 DEF Cut
  <2>3. CASE ~Fits(s)
    <3> DEFINE k == TokenMax - Ahead(s)
    <3>0. s.digits \in Seq(Int)
      BY <1>3
    <3>1. k \in Int /\ k >= 0 /\ k <= Len(s.digits)
      BY <3>0, <2>1, <2>3 DEF Fits
    <3>2. Cut(s).digits = SubSeq(s.digits, 1, k)
      BY <1>3, <2>3 DEF Cut
    <3>3. Rest(s) = [radix |-> 10, neg |-> FALSE,
                     digits |-> SubSeq(s.digits, k + 1, Len(s.digits))]
      BY DEF Rest
    <3> HIDE DEF k
    <3>4. /\ SubSeq(s.digits, 1, k) \in Seq(Int)
          /\ SubSeq(s.digits, k + 1, Len(s.digits)) \in Seq(Int)
      BY <1>2, <3>0, <3>1
    <3> QED BY <3>2, <3>3, <3>4
  <2> QED BY <2>2, <2>3
<1>4. CASE Fits(x) /\ Fits(y)
  BY <1>1, <1>4 DEF Tokens
<1>5. CASE Fits(x) /\ ~Fits(y)
  <2>1. Tokens(x, op, y)[1] = x /\ Tokens(x, op, y)[2] = Cut(y)
    BY <1>5 DEF Tokens
  <2> QED BY <1>1, <1>3, <2>1
<1>6. CASE ~Fits(x)
  <2>1. Tokens(x, op, y)[1] = Cut(x) /\ Tokens(x, op, y)[2] = Cut(Rest(x))
    BY <1>6 DEF Tokens
  <2> QED BY <1>1, <1>3, <1>6, <2>1
<1> QED BY <1>4, <1>5, <1>6

\* What alu prints, whatever it computes.
LEMMA AluReadsBack ==
  ASSUME NEW a \in Word, NEW b \in Word, NEW op \in Operators, Evaluate(a, op, b)
  PROVE  PrintedReadsBack'
<1>1. a \in Int /\ b \in Int
  BY WidthAssumption DEF Word, MinInt, MaxInt
<1>2. CASE NotANumber(op, b)
  <2>1. out'.cmd = "refused"
    BY <1>2 DEF Evaluate
  <2> QED BY <2>1 DEF PrintedReadsBack
<1>3. CASE ~NotANumber(op, b) /\ op = "/" /\ Traps(a, b)
  <2>1. panicked'
    BY <1>3 DEF Evaluate
  <2> QED BY <2>1 DEF PrintedReadsBack
<1>4. CASE ~NotANumber(op, b) /\ ~(op = "/" /\ Traps(a, b))
  <2> DEFINE value == Computed(a, op, b)
  <2>1. out' = [cmd |-> "alu", a |-> a, op |-> op, b |-> b, value |-> value,
                shown |-> IntToStr(value), bin |-> IntToBin(value)]
    BY <1>4 DEF Evaluate
  <2>2. value \in Word
    <3>1. CASE op = "+"
      <4>1. a + b \in Int /\ value = Wrap(a + b)
        BY <1>1, <3>1 DEF Computed
      <4> QED BY <4>1, WrapDiffers
    <3>2. CASE op = "-"
      <4>1. a - b \in Int /\ value = Wrap(a - b)
        BY <1>1, <3>2 DEF Computed
      <4> QED BY <4>1, WrapDiffers
    <3>3. CASE op = "*"
      <4>1. a * b \in Int /\ value = Wrap(a * b)
        BY <1>1, <3>3 DEF Computed
      <4> QED BY <4>1, WrapDiffers
    <3>4. CASE op = "/"
      <4>1. value = Quotient(a, b) /\ ~Traps(a, b)
        BY <1>4, <3>4 DEF Computed
      <4> QED BY <1>1, <4>1, QuotientType
    <3> QED BY <3>1, <3>2, <3>3, <3>4 DEF Operators
  <2> HIDE DEF value
  <2>3. out'.value = value /\ out'.shown = IntToStr(value) /\ out'.bin = IntToBin(value)
    BY <2>1
  <2>4. out'.shown = IntToStr(value) /\ out'.bin = IntToBin(value) /\ out'.value = value
    BY <2>3
  <2> QED BY <2>2, <2>4, DecimalReadsBack, BinaryReadsBack DEF PrintedReadsBack
<1> QED BY <1>2, <1>3, <1>4

\* One step: only alu prints such numbers.
LEMMA NextReadsBack == PrintedReadsBack /\ [Next]_vars => PrintedReadsBack'
<1> SUFFICES ASSUME PrintedReadsBack, [Next]_vars PROVE PrintedReadsBack'
  OBVIOUS
<1>1. ASSUME out'.cmd # "alu" PROVE PrintedReadsBack'
  BY <1>1 DEF PrintedReadsBack
<1>2. CASE NextLine
  BY <1>1, <1>2 DEF NextLine, Nothing
<1>3. CASE \E a, b \in Operands : Scp(a, b)
  <2>1. PICK a \in Operands, b \in Operands : Scp(a, b)
    BY <1>3
  <2>2. out'.cmd = "scp"
    BY <2>1 DEF Scp
  <2> QED BY <1>1, <2>2
<1>4. CASE \E x, y \in Texts : \E op \in Operators : Alu(x, op, y)
  <2>1. PICK x \in Texts, y \in Texts, op \in Operators : Alu(x, op, y)
    BY <1>4
  <2>2. CASE Refused
    BY <1>1, <2>2 DEF Refused
  <2>3. ASSUME NEW token, NEW o \in Operators, token = Tokens(x, op, y),
               Evaluate(Operand(token[1]), o, Operand(token[2]))
        PROVE  PrintedReadsBack'
    <3>1. Operand(token[1]) \in Word /\ Operand(token[2]) \in Word
      BY <2>3, TokensType, OperandType
    <3> QED BY <2>3, <3>1, AluReadsBack
  <2> QED BY <2>1, <2>2, <2>3, AluComputes
<1>5. CASE \E name \in Names : MatrixOfVar(name)
  BY <1>1, <1>5 DEF MatrixOfVar
<1>6. CASE \E name \in Names : \E m \in Storable : MatrixStore(name, m)
  BY <1>1, <1>6 DEF MatrixStore
<1>7. CASE \E m \in Typed : MatrixInline(m)
  BY <1>1, <1>7 DEF MatrixInline
<1>8. CASE Refused
  BY <1>1, <1>8 DEF Refused
<1>9. CASE Halted \/ UNCHANGED vars
  BY <1>9 DEF Halted, vars, PrintedReadsBack
<1> QED
  BY <1>2, <1>3, <1>4, <1>5, <1>6, <1>7, <1>8, <1>9 DEF Next

\* For every width of the int and every length of a token, the decimal number
\* alu prints is the same when it is typed as an operand (0 for the smallest
\* int); the binary one is refused if it is negative, and otherwise the same if
\* it fits in a token and smaller if it does not (commands.c, int_to_str() and
\* int_to_bin() against cmd_alu()'s tokens and parse_operand()).
THEOREM PrintedCanBeTyped == Spec => []PrintedReadsBack
<1>1. Init => PrintedReadsBack
  BY DEF Init, Nothing, PrintedReadsBack
<1> QED BY <1>1, NextReadsBack, PTL DEF Spec

-----------------------------------------------------------------------------
(* Determinants: the same expansion, with and without wrapping.             *)

\* What a column adds to the unbounded sum.
Signed(m, j, minor) == (IF j % 2 = 1 THEN m[1][j] ELSE -m[1][j]) * minor

\* The partial sums of the loop over the columns.
LEMMA AlongFirstRowRuns ==
  ASSUME NEW n \in Nat, NEW m, NEW minors
  PROVE  \E g : /\ g[0] = 0 /\ AlongFirstRow(m, n, minors) = g[n]
                /\ \A k \in 1 .. n : g[k] = Wrap(g[k - 1] + Term(m, k, minors[k]))
<1> DEFINE Runs(l, g) ==
             g = [k \in 0 .. l |-> IF k = 0 THEN 0 ELSE Wrap(g[k - 1] + Term(m, k, minors[k]))]
           Without == {l \in 0 .. n : ~ \E g : Runs(l, g)}
<1>1. Without = {}
  <2>1. SUFFICES ASSUME Without # {} PROVE FALSE
    OBVIOUS
  <2>2. PICK l \in Without : \A j \in Without : l <= j
    <3>1. Without \subseteq Nat
      OBVIOUS
    <3> HIDE DEF Without
    <3> QED BY <2>1, <3>1, LeastNumber
  <2>3. l # 0
    <3>1. Runs(0, [k \in 0 .. 0 |-> 0])
      OBVIOUS
    <3> QED BY <3>1
  <2>4. l \in 0 .. n /\ l - 1 \in 0 .. n /\ l - 1 \notin Without
    <3>1. l \in 0 .. n
      OBVIOUS
    <3>2. l - 1 \in 0 .. n /\ ~(l <= l - 1)
      BY <2>3, <3>1
    <3> HIDE DEF Without
    <3> QED BY <2>2, <3>1, <3>2
  <2>5. PICK g : Runs(l - 1, g)
    BY <2>4
  <2> DEFINE h == [k \in 0 .. l |-> IF k = l THEN Wrap(g[l - 1] + Term(m, l, minors[l])) ELSE g[k]]
  <2>6. Runs(l, h)
    <3>1. ASSUME NEW k \in 0 .. l
          PROVE  h[k] = IF k = 0 THEN 0 ELSE Wrap(h[k - 1] + Term(m, k, minors[k]))
      <4>1. CASE k = l
        <5>1. k # 0 /\ k - 1 \in 0 .. l /\ k - 1 # l
          BY <2>3, <2>4, <4>1
        <5>2. h[k] = Wrap(g[l - 1] + Term(m, l, minors[l])) /\ h[k - 1] = g[k - 1]
          BY <4>1, <5>1
        <5> QED BY <4>1, <5>1, <5>2
      <4>2. CASE k # l
        <5>1. k \in 0 .. l - 1 /\ k - 1 # l
          BY <2>4, <4>2
        <5>2. g[k] = IF k = 0 THEN 0 ELSE Wrap(g[k - 1] + Term(m, k, minors[k]))
          BY <2>5, <5>1
        <5>3. h[k] = g[k]
          BY <4>2
        <5>4. k # 0 => h[k - 1] = g[k - 1]
          BY <5>1
        <5> QED BY <5>2, <5>3, <5>4
      <4> QED BY <4>1, <4>2
    <3>2. h = [k \in 0 .. l |-> h[k]]
      OBVIOUS
    <3> HIDE DEF h
    <3>3. [k \in 0 .. l |-> h[k]] =
            [k \in 0 .. l |-> IF k = 0 THEN 0 ELSE Wrap(h[k - 1] + Term(m, k, minors[k]))]
      BY <3>1
    <3> QED BY <3>2, <3>3
  <2> QED BY <2>2, <2>6
<1> DEFINE sum == CHOOSE g : Runs(n, g)
<1>2. Runs(n, sum)
  <2>1. n \in 0 .. n
    OBVIOUS
  <2>2. \E g : Runs(n, g)
    BY <1>1, <2>1
  <2> QED BY <2>2
<1>3. AlongFirstRow(m, n, minors) = sum[n]
  BY DEF AlongFirstRow
<1> HIDE DEF sum
<1>4. sum[0] = 0
  BY <1>2
<1>5. \A k \in 1 .. n : sum[k] = Wrap(sum[k - 1] + Term(m, k, minors[k]))
  <2> TAKE k \in 1 .. n
  <2>1. k \in 0 .. n /\ k # 0
    OBVIOUS
  <2> QED BY <1>2, <2>1
<1> QED BY <1>3, <1>4, <1>5

\* The partial sums in unbounded integers.
LEMMA SignedSumRuns ==
  ASSUME NEW n \in Nat, NEW m, NEW minors
  PROVE  \E g : /\ g[0] = 0 /\ SignedSum(m, n, minors) = g[n]
                /\ \A k \in 1 .. n : g[k] = g[k - 1] + Signed(m, k, minors[k])
<1> DEFINE Runs(l, g) ==
             g = [k \in 0 .. l |-> IF k = 0 THEN 0 ELSE g[k - 1] + Signed(m, k, minors[k])]
           Without == {l \in 0 .. n : ~ \E g : Runs(l, g)}
<1>1. Without = {}
  <2>1. SUFFICES ASSUME Without # {} PROVE FALSE
    OBVIOUS
  <2>2. PICK l \in Without : \A j \in Without : l <= j
    <3>1. Without \subseteq Nat
      OBVIOUS
    <3> HIDE DEF Without
    <3> QED BY <2>1, <3>1, LeastNumber
  <2>3. l # 0
    <3>1. Runs(0, [k \in 0 .. 0 |-> 0])
      OBVIOUS
    <3> QED BY <3>1
  <2>4. l \in 0 .. n /\ l - 1 \in 0 .. n /\ l - 1 \notin Without
    <3>1. l \in 0 .. n
      OBVIOUS
    <3>2. l - 1 \in 0 .. n /\ ~(l <= l - 1)
      BY <2>3, <3>1
    <3> HIDE DEF Without
    <3> QED BY <2>2, <3>1, <3>2
  <2>5. PICK g : Runs(l - 1, g)
    BY <2>4
  <2> DEFINE h == [k \in 0 .. l |-> IF k = l THEN g[l - 1] + Signed(m, l, minors[l]) ELSE g[k]]
  <2>6. Runs(l, h)
    <3>1. ASSUME NEW k \in 0 .. l
          PROVE  h[k] = IF k = 0 THEN 0 ELSE h[k - 1] + Signed(m, k, minors[k])
      <4>1. CASE k = l
        <5>1. k # 0 /\ k - 1 \in 0 .. l /\ k - 1 # l
          BY <2>3, <2>4, <4>1
        <5>2. h[k] = g[l - 1] + Signed(m, l, minors[l]) /\ h[k - 1] = g[k - 1]
          BY <4>1, <5>1
        <5> QED BY <4>1, <5>1, <5>2
      <4>2. CASE k # l
        <5>1. k \in 0 .. l - 1 /\ k - 1 # l
          BY <2>4, <4>2
        <5>2. g[k] = IF k = 0 THEN 0 ELSE g[k - 1] + Signed(m, k, minors[k])
          BY <2>5, <5>1
        <5>3. h[k] = g[k]
          BY <4>2
        <5>4. k # 0 => h[k - 1] = g[k - 1]
          BY <5>1
        <5> QED BY <5>2, <5>3, <5>4
      <4> QED BY <4>1, <4>2
    <3>2. h = [k \in 0 .. l |-> h[k]]
      OBVIOUS
    <3> HIDE DEF h
    <3>3. [k \in 0 .. l |-> h[k]] =
            [k \in 0 .. l |-> IF k = 0 THEN 0 ELSE h[k - 1] + Signed(m, k, minors[k])]
      BY <3>1
    <3> QED BY <3>2, <3>3
  <2> QED BY <2>2, <2>6
<1> DEFINE sum == CHOOSE g : Runs(n, g)
<1>2. Runs(n, sum)
  <2>1. n \in 0 .. n
    OBVIOUS
  <2>2. \E g : Runs(n, g)
    BY <1>1, <2>1
  <2> QED BY <2>2
<1>3. SignedSum(m, n, minors) = sum[n]
  BY DEF SignedSum, Signed
<1> HIDE DEF sum
<1>4. sum[0] = 0
  BY <1>2
<1>5. \A k \in 1 .. n : sum[k] = sum[k - 1] + Signed(m, k, minors[k])
  <2> TAKE k \in 1 .. n
  <2>1. k \in 0 .. n /\ k # 0
    OBVIOUS
  <2> QED BY <1>2, <2>1
<1> QED BY <1>3, <1>4, <1>5

\* One size of MatrixDet, given the size below it.
DetStep(n, smaller) ==
  [m \in Matrix(n) |->
     CASE n = 1 -> m[1][1]
       [] n = 2 -> Wrap(m[1][1] * m[2][2] - m[1][2] * m[2][1])
       [] OTHER -> AlongFirstRow(m, n, [j \in 1 .. n |-> smaller[Minor(m, n, j)]])]

Square(n) == [1 .. n -> [1 .. n -> Int]]

\* One size of Expansion, given the size below it.
ExpansionStep(n, smaller) ==
  [m \in Square(n) |->
     IF n = 1 THEN m[1][1]
     ELSE SignedSum(m, n, [j \in 1 .. n |-> smaller[Minor(m, n, j)]])]

\* The smallest size needs no smaller one.
LEMMA SmallestDet == \A f, g : DetStep(1, f) = DetStep(1, g)
<1> TAKE f, g
<1>1. ASSUME NEW f2 PROVE DetStep(1, f2) = [m \in Matrix(1) |-> m[1][1]]
  BY DEF DetStep
<1> QED BY <1>1

\* Nor does that of the expansion.
LEMMA SmallestExpansion == \A f, g : ExpansionStep(1, f) = ExpansionStep(1, g)
BY DEF ExpansionStep

\* MatrixDet is what its recursion says, for every size.
LEMMA DetRuns == MatrixDet = [n \in 1 .. MaxDim |-> DetStep(n, MatrixDet[n - 1])]
<1> DEFINE Runs(l, g) == g = [n \in 1 .. l |-> DetStep(n, g[n - 1])]
           Without == {l \in 0 .. MaxDim : ~ \E g : Runs(l, g)}
<1>0. MaxDim \in Nat
  BY CalculatorAssumption
<1>1. Without = {}
  <2>1. SUFFICES ASSUME Without # {} PROVE FALSE
    OBVIOUS
  <2>2. PICK l \in Without : \A j \in Without : l <= j
    <3>1. Without \subseteq Nat
      BY <1>0
    <3> HIDE DEF Without
    <3> QED BY <2>1, <3>1, LeastNumber
  <2>3. l # 0
    <3> DEFINE none == [n \in 1 .. 0 |-> 0]
    <3>1. \A n \in 1 .. 0 : FALSE
      OBVIOUS
    <3>2. Runs(0, none)
      BY <3>1
    <3> QED BY <3>2
  <2>4. l \in 0 .. MaxDim /\ l - 1 \in 0 .. MaxDim /\ l - 1 \notin Without
    <3>1. l \in 0 .. MaxDim
      OBVIOUS
    <3>2. l - 1 \in 0 .. MaxDim /\ ~(l <= l - 1)
      BY <1>0, <2>3, <3>1
    <3> HIDE DEF Without
    <3> QED BY <2>2, <3>1, <3>2
  <2>5. PICK g : Runs(l - 1, g)
    BY <2>4
  <2> DEFINE h == [n \in 1 .. l |-> IF n = l THEN DetStep(l, g[l - 1]) ELSE g[n]]
  <2>6. Runs(l, h)
    <3>1. ASSUME NEW n \in 1 .. l PROVE h[n] = DetStep(n, h[n - 1])
      <4>0. n \in Nat /\ n > 0 /\ l \in Nat
        BY <1>0, <2>4
      <4>1. h[n] = DetStep(n, g[n - 1])
        <5>1. CASE n = l
          BY <5>1
        <5>2. CASE n # l
          <6>1. n \in 1 .. l - 1
            BY <4>0, <5>2
          <6>2. h[n] = g[n]
            BY <5>2
          <6> QED BY <2>5, <6>1, <6>2
        <5> QED BY <5>1, <5>2
      <4>2. CASE n = 1
        <5> HIDE DEF h
        <5> QED BY <4>1, <4>2, SmallestDet
      <4>3. CASE n # 1
        <5>1. n - 1 \in 1 .. l /\ n - 1 # l
          BY <4>0, <4>3
        <5>2. h[n - 1] = g[n - 1]
          BY <5>1
        <5> HIDE DEF h
        <5> QED BY <4>1, <5>2
      <4> QED BY <4>2, <4>3
    <3>2. h = [n \in 1 .. l |-> h[n]]
      OBVIOUS
    <3> HIDE DEF h
    <3>3. [n \in 1 .. l |-> h[n]] = [n \in 1 .. l |-> DetStep(n, h[n - 1])]
      BY <3>1
    <3> QED BY <3>2, <3>3
  <2> QED BY <2>2, <2>6
<1>2. \E g : Runs(MaxDim, g)
  <2>1. MaxDim \in 0 .. MaxDim
    BY <1>0
  <2> QED BY <1>1, <2>1
<1>3. MatrixDet = CHOOSE g : Runs(MaxDim, g)
  BY DEF MatrixDet, DetStep
<1> QED BY <1>2, <1>3

\* Expansion is what its recursion says, for every size.
LEMMA ExpansionRuns == Expansion = [n \in 1 .. MaxDim |-> ExpansionStep(n, Expansion[n - 1])]
<1> DEFINE Runs(l, g) == g = [n \in 1 .. l |-> ExpansionStep(n, g[n - 1])]
           Without == {l \in 0 .. MaxDim : ~ \E g : Runs(l, g)}
<1>0. MaxDim \in Nat
  BY CalculatorAssumption
<1>1. Without = {}
  <2>1. SUFFICES ASSUME Without # {} PROVE FALSE
    OBVIOUS
  <2>2. PICK l \in Without : \A j \in Without : l <= j
    <3>1. Without \subseteq Nat
      BY <1>0
    <3> HIDE DEF Without
    <3> QED BY <2>1, <3>1, LeastNumber
  <2>3. l # 0
    <3> DEFINE none == [n \in 1 .. 0 |-> 0]
    <3>1. \A n \in 1 .. 0 : FALSE
      OBVIOUS
    <3>2. Runs(0, none)
      BY <3>1
    <3> QED BY <3>2
  <2>4. l \in 0 .. MaxDim /\ l - 1 \in 0 .. MaxDim /\ l - 1 \notin Without
    <3>1. l \in 0 .. MaxDim
      OBVIOUS
    <3>2. l - 1 \in 0 .. MaxDim /\ ~(l <= l - 1)
      BY <1>0, <2>3, <3>1
    <3> HIDE DEF Without
    <3> QED BY <2>2, <3>1, <3>2
  <2>5. PICK g : Runs(l - 1, g)
    BY <2>4
  <2> DEFINE h == [n \in 1 .. l |-> IF n = l THEN ExpansionStep(l, g[l - 1]) ELSE g[n]]
  <2>6. Runs(l, h)
    <3>1. ASSUME NEW n \in 1 .. l PROVE h[n] = ExpansionStep(n, h[n - 1])
      <4>0. n \in Nat /\ n > 0 /\ l \in Nat
        BY <1>0, <2>4
      <4>1. h[n] = ExpansionStep(n, g[n - 1])
        <5>1. CASE n = l
          BY <5>1
        <5>2. CASE n # l
          <6>1. n \in 1 .. l - 1
            BY <4>0, <5>2
          <6>2. h[n] = g[n]
            BY <5>2
          <6> QED BY <2>5, <6>1, <6>2
        <5> QED BY <5>1, <5>2
      <4>2. CASE n = 1
        <5> HIDE DEF h
        <5> QED BY <4>1, <4>2, SmallestExpansion
      <4>3. CASE n # 1
        <5>1. n - 1 \in 1 .. l /\ n - 1 # l
          BY <4>0, <4>3
        <5>2. h[n - 1] = g[n - 1]
          BY <5>1
        <5> HIDE DEF h
        <5> QED BY <4>1, <5>2
      <4> QED BY <4>2, <4>3
    <3>2. h = [n \in 1 .. l |-> h[n]]
      OBVIOUS
    <3> HIDE DEF h
    <3>3. [n \in 1 .. l |-> h[n]] = [n \in 1 .. l |-> ExpansionStep(n, h[n - 1])]
      BY <3>1
    <3> QED BY <3>2, <3>3
  <2> QED BY <2>2, <2>6
<1>2. \E g : Runs(MaxDim, g)
  <2>1. MaxDim \in 0 .. MaxDim
    BY <1>0
  <2> QED BY <1>1, <2>1
<1>3. Expansion = CHOOSE g : Runs(MaxDim, g)
  BY DEF Expansion, ExpansionStep, Square
<1> QED BY <1>2, <1>3

\* A column adds the same to both sums, but for the wrapping.
LEMMA TermWraps ==
  ASSUME NEW m, NEW j \in Nat, m[1][j] \in Int, NEW e \in Int
  PROVE  Signed(m, j, e) \in Int /\ Term(m, j, Wrap(e)) = Wrap(Signed(m, j, e))
<1> DEFINE x == m[1][j]
           s == IF j % 2 = 1 THEN 1 ELSE -1
           b == s * x
<1>1. x \in Int /\ s \in Int /\ b \in Int
  OBVIOUS
<1>2. b = IF j % 2 = 1 THEN m[1][j] ELSE -m[1][j]
  OBVIOUS
<1>3. Signed(m, j, e) = b * e
  BY <1>2 DEF Signed
<1>4. Term(m, j, Wrap(e)) = Wrap(b * Wrap(e))
  BY DEF Term
<1> HIDE DEF b
<1>5. Wrap(b * Wrap(e) + 0) = Wrap(b * e + 0)
  BY <1>1, WrapStep
<1>6. Wrap(e) \in Int
  BY WrapDiffers DEF Word
<1>7. b * Wrap(e) \in Int /\ b * e \in Int
  BY <1>1, <1>6
<1>8. b * Wrap(e) + 0 = b * Wrap(e) /\ b * e + 0 = b * e
  BY <1>7
<1> QED BY <1>3, <1>4, <1>5, <1>7, <1>8

\* Wrapping every partial sum is wrapping the whole.
LEMMA RowWraps ==
  ASSUME NEW n \in Nat, NEW m, NEW minors, NEW exact,
         \A j \in 1 .. n : m[1][j] \in Int /\ exact[j] \in Int /\ minors[j] = Wrap(exact[j])
  PROVE  SignedSum(m, n, exact) \in Int
         /\ AlongFirstRow(m, n, minors) = Wrap(SignedSum(m, n, exact))
<1>1. PICK f : /\ f[0] = 0 /\ AlongFirstRow(m, n, minors) = f[n]
               /\ \A k \in 1 .. n : f[k] = Wrap(f[k - 1] + Term(m, k, minors[k]))
  BY AlongFirstRowRuns
<1>2. PICK g : /\ g[0] = 0 /\ SignedSum(m, n, exact) = g[n]
               /\ \A k \in 1 .. n : g[k] = g[k - 1] + Signed(m, k, exact[k])
  BY SignedSumRuns
<1> DEFINE Wrong == {k \in 0 .. n : ~(g[k] \in Int /\ f[k] = Wrap(g[k]))}
<1>3. Wrong = {}
  <2>1. SUFFICES ASSUME Wrong # {} PROVE FALSE
    OBVIOUS
  <2>2. PICK k \in Wrong : \A i \in Wrong : k <= i
    <3>1. Wrong \subseteq Nat
      OBVIOUS
    <3> HIDE DEF Wrong
    <3> QED BY <2>1, <3>1, LeastNumber
  <2>3. k # 0
    BY <1>1, <1>2, WrapOfZero
  <2>4. k \in 1 .. n /\ k - 1 \in 0 .. n /\ k - 1 \notin Wrong
    <3>1. k \in 0 .. n
      OBVIOUS
    <3>2. k \in 1 .. n /\ k - 1 \in 0 .. n /\ ~(k <= k - 1)
      BY <2>3, <3>1
    <3> HIDE DEF Wrong
    <3> QED BY <2>2, <3>2
  <2>5. g[k - 1] \in Int /\ f[k - 1] = Wrap(g[k - 1])
    BY <2>4
  <2> DEFINE a == g[k - 1]
             d == Signed(m, k, exact[k])
  <2>6. d \in Int /\ Term(m, k, minors[k]) = Wrap(d)
    BY <2>4, TermWraps
  <2>7. f[k] = Wrap(Wrap(a) + Wrap(d)) /\ g[k] = a + d
    BY <1>1, <1>2, <2>4, <2>5, <2>6
  <2>8. a \in Int
    BY <2>5
  <2> HIDE DEF a, d
  <2>9. Wrap(Wrap(a) + Wrap(d)) = Wrap(a + d)
    <3>1. Wrap(a) \in Int /\ Wrap(d) \in Int
      BY <2>6, <2>8, WrapDiffers DEF Word
    <3>2. Wrap(1 * Wrap(a) + Wrap(d)) = Wrap(1 * a + Wrap(d))
      BY <2>8, <3>1, WrapStep
    <3>3. Wrap(1 * Wrap(d) + a) = Wrap(1 * d + a)
      BY <2>6, <2>8, WrapStep
    <3>4. /\ 1 * Wrap(a) + Wrap(d) = Wrap(a) + Wrap(d)
          /\ 1 * a + Wrap(d) = 1 * Wrap(d) + a
          /\ 1 * d + a = a + d
      BY <2>6, <2>8, <3>1
    <3> QED BY <3>2, <3>3, <3>4
  <2>10. g[k] \in Int /\ f[k] = Wrap(g[k])
    BY <2>6, <2>7, <2>8, <2>9
  <2> QED BY <2>2, <2>10
<1>4. n \in 0 .. n
  OBVIOUS
<1>5. g[n] \in Int /\ f[n] = Wrap(g[n])
  BY <1>3, <1>4
<1> QED BY <1>1, <1>2, <1>5

\* A minor is a smaller matrix.
LEMMA MinorType ==
  ASSUME NEW n \in Nat, n >= 2, NEW j \in 1 .. n, NEW m \in Matrix(n)
  PROVE  Minor(m, n, j) \in Matrix(n - 1)
<1> DEFINE col(c) == IF c < j THEN c ELSE c + 1
<1>1. ASSUME NEW r \in 1 .. n - 1, NEW c \in 1 .. n - 1 PROVE m[r + 1][col(c)] \in Word
  <2>1. r + 1 \in 1 .. n /\ col(c) \in 1 .. n
    OBVIOUS
  <2> HIDE DEF col
  <2> QED BY <2>1 DEF Matrix
<1>2. Minor(m, n, j) = [r \in 1 .. n - 1 |-> [c \in 1 .. n - 1 |-> m[r + 1][col(c)]]]
  BY DEF Minor
<1> HIDE DEF col
<1> QED BY <1>1, <1>2 DEF Matrix

\* The entries of a matrix are ints.
LEMMA MatrixFacts ==
  ASSUME NEW n \in Nat, NEW m \in Matrix(n)
  PROVE  m \in Square(n) /\ \A i, j \in 1 .. n : m[i][j] \in Word /\ m[i][j] \in Int
<1>1. Word \subseteq Int
  BY DEF Word
<1>2. \A i, j \in 1 .. n : m[i][j] \in Word /\ m[i][j] \in Int
  BY <1>1 DEF Matrix
<1>3. [1 .. n -> Word] \subseteq [1 .. n -> Int]
  BY <1>1
<1> QED BY <1>2, <1>3 DEF Matrix, Square

\* What the code computes of one size of matrix is the expansion, wrapped.
DetWraps(n) ==
  \A m \in Matrix(n) :
    Expansion[n][m] \in Int /\ MatrixDet[n][m] = Wrap(Expansion[n][m])

\* The values of both for each size.
LEMMA DetValues ==
  ASSUME NEW n \in 1 .. MaxDim, NEW m \in Matrix(n)
  PROVE  /\ n = 1 => MatrixDet[n][m] = m[1][1] /\ Expansion[n][m] = m[1][1]
         /\ n = 2 => MatrixDet[n][m] = Wrap(m[1][1] * m[2][2] - m[1][2] * m[2][1])
         /\ n > 2 => MatrixDet[n][m] =
                       AlongFirstRow(m, n, [j \in 1 .. n |-> MatrixDet[n - 1][Minor(m, n, j)]])
         /\ n >= 2 => Expansion[n][m] =
                        SignedSum(m, n, [j \in 1 .. n |-> Expansion[n - 1][Minor(m, n, j)]])
<1>1. MatrixDet[n] = DetStep(n, MatrixDet[n - 1])
  BY DetRuns
<1>2. Expansion[n] = ExpansionStep(n, Expansion[n - 1])
  BY ExpansionRuns
<1>3. m \in Square(n)
  BY MatrixFacts
<1>4. MatrixDet[n][m] = DetStep(n, MatrixDet[n - 1])[m]
  BY <1>1
<1>5. Expansion[n][m] = ExpansionStep(n, Expansion[n - 1])[m]
  BY <1>2
<1> HIDE DEF Matrix
<1> DEFINE minors == [j \in 1 .. n |-> MatrixDet[n - 1][Minor(m, n, j)]]
           exact == [j \in 1 .. n |-> Expansion[n - 1][Minor(m, n, j)]]
<1>6. DetStep(n, MatrixDet[n - 1])[m] =
        CASE n = 1 -> m[1][1]
          [] n = 2 -> Wrap(m[1][1] * m[2][2] - m[1][2] * m[2][1])
          [] OTHER -> AlongFirstRow(m, n, minors)
  BY DEF DetStep
<1>7. ExpansionStep(n, Expansion[n - 1])[m] =
        IF n = 1 THEN m[1][1] ELSE SignedSum(m, n, exact)
  BY <1>3 DEF ExpansionStep
<1> HIDE DEF minors, exact
<1>8. n \in Nat
  BY CalculatorAssumption
<1>9. /\ n = 1 => MatrixDet[n][m] = m[1][1] /\ Expansion[n][m] = m[1][1]
      /\ n = 2 => MatrixDet[n][m] = Wrap(m[1][1] * m[2][2] - m[1][2] * m[2][1])
      /\ n > 2 => MatrixDet[n][m] = AlongFirstRow(m, n, minors)
      /\ n >= 2 => Expansion[n][m] = SignedSum(m, n, exact)
  BY ONLY <1>4, <1>5, <1>6, <1>7, <1>8
<1> QED BY <1>9 DEF minors, exact

\* One number, and the case of two rows.
LEMMA SmallDetsWrap == \A n \in 1 .. MaxDim : n <= 2 => DetWraps(n)
<1> SUFFICES ASSUME NEW n \in 1 .. MaxDim, n <= 2, NEW m \in Matrix(n)
             PROVE  Expansion[n][m] \in Int /\ MatrixDet[n][m] = Wrap(Expansion[n][m])
  BY DEF DetWraps
<1>0. MaxDim \in Nat
  BY CalculatorAssumption
<1>1. \A i, j \in 1 .. n : m[i][j] \in Word /\ m[i][j] \in Int
  BY <1>0, MatrixFacts
<1>2. CASE n = 1
  <2>1. Expansion[n][m] = m[1][1] /\ MatrixDet[n][m] = m[1][1]
    BY ONLY <1>2, n \in 1 .. MaxDim, m \in Matrix(n), DetValues
  <2>2. m[1][1] \in Word /\ m[1][1] \in Int
    BY <1>1, <1>2
  <2> QED BY <2>1, <2>2, WrapOfWord
<1>3. CASE n = 2
  <2> DEFINE minors == [j \in 1 .. n |-> Expansion[n - 1][Minor(m, n, j)]]
  <2>1. ASSUME NEW j \in 1 .. 2 PROVE minors[j] = m[2][IF 1 < j THEN 1 ELSE 2]
    <3>1. Minor(m, 2, j) \in Matrix(1)
      BY <1>0, <1>3, MinorType
    <3>2. Expansion[1][Minor(m, 2, j)] = Minor(m, 2, j)[1][1]
      <4>1. 1 \in 1 .. MaxDim
        BY <1>0, <1>3
      <4> QED BY ONLY <3>1, <4>1, DetValues
    <3>3. Minor(m, 2, j)[1][1] = m[2][IF 1 < j THEN 1 ELSE 2]
      BY DEF Minor
    <3>4. minors[j] = Expansion[1][Minor(m, 2, j)]
      BY <1>3
    <3> QED BY <3>2, <3>3, <3>4
  <2>2. minors[1] = m[2][2] /\ minors[2] = m[2][1]
    BY <2>1
  <2>3. /\ Expansion[n][m] = SignedSum(m, 2, minors)
        /\ MatrixDet[n][m] = Wrap(m[1][1] * m[2][2] - m[1][2] * m[2][1])
    <3>1. /\ Expansion[n][m] = SignedSum(m, n, minors)
          /\ MatrixDet[n][m] = Wrap(m[1][1] * m[2][2] - m[1][2] * m[2][1])
      <4>1. n >= 2
        BY <1>3
      <4> QED BY ONLY <1>3, <4>1, n \in 1 .. MaxDim, m \in Matrix(n), DetValues
    <3> HIDE DEF minors
    <3> QED BY <1>3, <3>1
  <2> HIDE DEF minors
  <2>4. PICK g : /\ g[0] = 0 /\ SignedSum(m, 2, minors) = g[2]
                 /\ \A k \in 1 .. 2 : g[k] = g[k - 1] + Signed(m, k, minors[k])
    BY SignedSumRuns
  <2>5. g[1] = g[0] + Signed(m, 1, minors[1]) /\ g[2] = g[1] + Signed(m, 2, minors[2])
    BY <2>4
  <2>6. Signed(m, 1, minors[1]) = m[1][1] * m[2][2] /\ Signed(m, 2, minors[2]) = (-m[1][2]) * m[2][1]
    BY <2>2 DEF Signed
  <2>7. m[1][1] \in Int /\ m[1][2] \in Int /\ m[2][1] \in Int /\ m[2][2] \in Int
    BY <1>1, <1>3
  <2> DEFINE a == m[1][1] * m[2][2]
             b == m[1][2] * m[2][1]
  <2>8. a \in Int /\ b \in Int /\ (-m[1][2]) * m[2][1] = -b
    BY <2>7
  <2>9. g[2] = (0 + a) + (-b)
    BY <2>4, <2>5, <2>6, <2>8
  <2> HIDE DEF a, b
  <2>10. g[2] = a - b /\ a - b \in Int
    BY <2>8, <2>9
  <2>11. Expansion[n][m] = a - b /\ MatrixDet[n][m] = Wrap(a - b)
    BY <2>3, <2>4, <2>10 DEF a, b
  <2> QED BY <2>10, <2>11
<1> QED BY <1>0, <1>2, <1>3

\* For every size, by the least one of which it would be wrong.
LEMMA EveryDetWraps == \A n \in 1 .. MaxDim : DetWraps(n)
<1> DEFINE Wrong == {n \in 1 .. MaxDim : ~DetWraps(n)}
<1>0. MaxDim \in Nat
  BY CalculatorAssumption
<1>1. Wrong = {}
  <2>1. SUFFICES ASSUME Wrong # {} PROVE FALSE
    OBVIOUS
  <2>2. PICK n \in Wrong : \A i \in Wrong : n <= i
    <3>1. Wrong \subseteq Nat
      BY <1>0
    <3> HIDE DEF Wrong
    <3> QED BY <2>1, <3>1, LeastNumber
  <2>3. n \in 1 .. MaxDim /\ ~DetWraps(n)
    OBVIOUS
  <2>4. n \in Nat /\ n > 2
    BY <1>0, <2>3, SmallDetsWrap
  <2>5. n - 1 \in 1 .. MaxDim /\ ~(n <= n - 1)
    BY <1>0, <2>3, <2>4
  <2>6. DetWraps(n - 1)
    <3>1. n - 1 \notin Wrong
      <4> HIDE DEF Wrong
      <4> QED BY <2>2, <2>5
    <3> QED BY <2>5, <3>1
  <2>7. ASSUME NEW m \in Matrix(n)
        PROVE  Expansion[n][m] \in Int /\ MatrixDet[n][m] = Wrap(Expansion[n][m])
    <3> DEFINE minors == [j \in 1 .. n |-> MatrixDet[n - 1][Minor(m, n, j)]]
               exact == [j \in 1 .. n |-> Expansion[n - 1][Minor(m, n, j)]]
    <3>1. MatrixDet[n][m] = AlongFirstRow(m, n, minors) /\ Expansion[n][m] = SignedSum(m, n, exact)
      <4>1. n >= 2
        BY <2>4
      <4> QED BY ONLY <2>3, <2>4, <4>1, m \in Matrix(n), DetValues
    <3>2. ASSUME NEW j \in 1 .. n
          PROVE  m[1][j] \in Int /\ exact[j] \in Int /\ minors[j] = Wrap(exact[j])
      <4>1. Minor(m, n, j) \in Matrix(n - 1)
        BY <2>4, MinorType
      <4>2. exact[j] \in Int /\ minors[j] = Wrap(exact[j])
        BY <2>6, <4>1 DEF DetWraps
      <4>3. 1 \in 1 .. n
        BY <2>4
      <4> QED BY <2>4, <4>2, <4>3, MatrixFacts
    <3> HIDE DEF minors, exact
    <3> QED BY <2>4, <3>1, <3>2, RowWraps
  <2> QED BY <2>3, <2>7 DEF DetWraps
<1> QED BY <1>1

\* The determinant of any matrix.
LEMMA DetOfMatrix ==
  ASSUME NEW m \in Typed \cup Storable
  PROVE  Det(m) = Wrap(Expansion[Len(m)][m])
<1>1. PICK n \in 1 .. MaxDim : m \in Matrix(n)
  BY CalculatorAssumption
<1>2. n \in Nat
  BY CalculatorAssumption
<1>3. Len(m) = n
  BY <1>1, <1>2 DEF Matrix
<1> QED BY <1>1, <1>3, EveryDetWraps DEF Det, DetWraps

\* What the search finds is an entry of the table.
LEMMA BoundMatrix ==
  ASSUME VarsInv, NEW name \in Names, Bound(name) # {}
  PROVE  matrix_vars[FindVar(name)].mat \in Typed \cup Storable
<1>1. Bound(name) \subseteq Nat
  BY DEF VarsInv, Bound
<1>2. \E i \in Bound(name) : \A j \in Bound(name) : i <= j
  BY <1>1, LeastNumber
<1>3. FindVar(name) \in Bound(name)
  BY <1>2 DEF FindVar
<1>4. FindVar(name) \in DOMAIN matrix_vars
  BY <1>3 DEF Bound
<1> DEFINE V == [name : Names, mat : Typed \cup Storable]
           i == FindVar(name)
<1>5. matrix_vars \in Seq(V) /\ i \in DOMAIN matrix_vars
  BY <1>4 DEF VarsInv
<1>6. \A v \in V : v.mat \in Typed \cup Storable
  OBVIOUS
<1> HIDE DEF V, i
<1>7. matrix_vars[i] \in V
  BY <1>5
<1>8. matrix_vars[i].mat \in Typed \cup Storable
  BY <1>6, <1>7
<1> QED BY <1>8 DEF i

\* One step: only the determinant commands print one.
LEMMA NextExpands ==
  ASSUME VarsInv, DetIsExpansion, [Next]_vars
  PROVE  DetIsExpansion'
<1>1. ASSUME out'.cmd # "det" PROVE DetIsExpansion'
  BY <1>1 DEF DetIsExpansion
<1>2. ASSUME NEW m \in Typed \cup Storable, out'.mat = m, out'.value = Det(m)
      PROVE  DetIsExpansion'
  <2>1. out'.value = Wrap(Expansion[Len(out'.mat)][out'.mat])
    BY <1>2, DetOfMatrix
  <2> QED BY <2>1 DEF DetIsExpansion
<1>3. CASE NextLine
  BY <1>1, <1>3 DEF NextLine, Nothing
<1>4. CASE \E a, b \in Operands : Scp(a, b)
  <2>1. PICK a \in Operands, b \in Operands : Scp(a, b)
    BY <1>4
  <2>2. out'.cmd = "scp"
    BY <2>1 DEF Scp
  <2> QED BY <1>1, <2>2
<1>5. CASE \E x, y \in Texts : \E op \in Operators : Alu(x, op, y)
  <2>1. PICK x \in Texts, y \in Texts, op \in Operators : Alu(x, op, y)
    BY <1>5
  <2>2. out'.cmd \in {"refused", "alu"}
    BY <2>1 DEF Alu, Evaluate, Refused
  <2> QED BY <1>1, <2>2
<1>6. CASE \E name \in Names : MatrixOfVar(name)
  <2>1. PICK name \in Names : MatrixOfVar(name)
    BY <1>6
  <2> DEFINE m == matrix_vars[FindVar(name)].mat
  <2>2. m \in Typed \cup Storable
    BY <2>1, BoundMatrix DEF MatrixOfVar
  <2>3. out' = [cmd |-> "det", name |-> name, mat |-> m, value |-> Det(m)]
    BY <2>1 DEF MatrixOfVar
  <2> HIDE DEF m
  <2>4. out'.mat = m /\ out'.value = Det(m)
    BY <2>3
  <2> QED BY <1>2, <2>2, <2>4
<1>7. CASE \E name \in Names : \E m \in Storable : MatrixStore(name, m)
  BY <1>1, <1>7 DEF MatrixStore
<1>8. CASE \E m \in Typed : MatrixInline(m)
  <2>1. PICK m \in Typed : MatrixInline(m)
    BY <1>8
  <2>2. out'.mat = m /\ out'.value = Det(m)
    BY <2>1 DEF MatrixInline
  <2> QED BY <1>2, <2>2
<1>9. CASE Refused
  BY <1>1, <1>9 DEF Refused
<1>10. CASE Halted \/ UNCHANGED vars
  <2>1. out' = out
    BY <1>10 DEF Halted, vars
  <2> QED BY <2>1 DEF DetIsExpansion
<1> QED
  BY <1>3, <1>4, <1>5, <1>6, <1>7, <1>8, <1>9, <1>10 DEF Next

\* For every width of the int and every size of matrix, what matrix_det() returns
\* is the expansion along the first row in unbounded integers, wrapped once,
\* although each of its products and sums may overflow.
THEOREM DetsAreExpansions == Spec => []DetIsExpansion
<1>1. Init => VarsInv /\ DetIsExpansion
  BY DEF Init, Nothing, VarsInv, NamesAreDistinct, DetIsExpansion
<1>2. VarsInv /\ DetIsExpansion /\ [Next]_vars => (VarsInv /\ DetIsExpansion)'
  BY NextKeepsNames, NextExpands
<1> QED BY <1>1, <1>2, PTL DEF Spec
=============================================================================
