---------------------------- MODULE Calculator ----------------------------
(***************************************************************************)
(* The calculators of shell/commands.c: scp, alu, matrix.  A command runs  *)
(* to its end before the next one; what it prints last is kept until then. *)
(* The arguments of scp are numbers its parser has read, those of alu are  *)
(* texts, which are cut into tokens and parsed here; a matrix is one the   *)
(* parser has read, or refused.                                            *)
(***************************************************************************)
EXTENDS Words, FiniteSets, FiniteSetsExt, SequencesExt

CONSTANTS
  Operands,        \* numbers typed for scp
  Texts,           \* operands typed for alu
  TokenMax,        \* characters of a token of alu, 19
  Names,           \* names of matrix variables
  VarMax,          \* MATRIX_VAR_MAX
  MaxDim,          \* MATRIX_MAX_DIM
  Typed,           \* matrices typed for an operation
  Storable,        \* matrices typed for store
  Boots,           \* what timer_ticks() may be at the first scp
  Multiplier, Increment    \* of the generator

Matrix(n) == [1 .. n -> [1 .. n -> Word]]
Matrices == UNION {Matrix(n) : n \in 1 .. MaxDim}

ASSUME CalculatorAssumption ==
  /\ Operands \subseteq Word /\ Texts \subseteq Text
  /\ VarMax \in Nat /\ MaxDim \in Nat \ {0}
  /\ \A m \in Typed \cup Storable : \E n \in 1 .. MaxDim : m \in Matrix(n)
  /\ Boots \subseteq Nat /\ Multiplier \in Nat /\ Increment \in Nat

\* A token has room for every int in decimal, and for one digit after "0b-".
ASSUME TokenAssumption ==
  /\ TokenMax \in Nat /\ TokenMax > 3
  /\ \A n \in 0 .. Half : Len(Digits(10, n)) < TokenMax

VARIABLES
  seed,            \* of rand_range(); 0 before its first use
  matrix_vars,     \* matrix_vars[], matrix_var_count of them
  out,             \* what the last command computed, or none
  panicked         \* an exception nobody handles: isr_handler() halts

vars == <<seed, matrix_vars, out, panicked>>

Nothing == [cmd |-> "none"]

TypeOK ==
  /\ seed \in 0 .. 2 * Half - 1
  /\ matrix_vars \in Seq([name : Names, mat : Typed \cup Storable])
  /\ Len(matrix_vars) <= VarMax
  /\ panicked \in BOOLEAN
  /\ out.cmd \in {"none", "scp", "alu", "det", "stored", "refused"}

Init ==
  /\ seed = 0
  /\ matrix_vars = <<>>
  /\ out = Nothing
  /\ panicked = FALSE

Idle == out = Nothing /\ ~panicked

\* The next line is typed.
NextLine ==
  /\ out # Nothing /\ ~panicked
  /\ out' = Nothing
  /\ UNCHANGED <<seed, matrix_vars, panicked>>

-----------------------------------------------------------------------------
(* scp *)

\* The generator: 2^32 numbers.
NextSeed(s) == (s * Multiplier + Increment) % (2 * Half)

\* The arguments of rand_range() and of the division in it.
RangeOf(lo, hi) == Wrap(hi - lo + 1)

\* Mutant: the remainder is that of a signed division.
DrawnSigned(s, range) ==
  LET n == Wrap(s)
  IN IF n < 0 THEN -((-n) % Unsigned(range)) ELSE n % Unsigned(range)

\* seed >> 1, modulo the range as an unsigned.
Drawn(s, range) == (s \div 2) % Unsigned(range)

Result(lo, hi, s) == Wrap(lo + Drawn(s, RangeOf(lo, hi)))

Scp(a, b) ==
  LET lo == IF a > b THEN b ELSE a
      hi == IF a > b THEN a ELSE b
  IN /\ Idle
     /\ \E s \in IF seed = 0 THEN {(t + 1) % (2 * Half) : t \in Boots} ELSE {seed} :
          seed' = NextSeed(s)
     /\ IF Unsigned(RangeOf(lo, hi)) = 0
        THEN /\ panicked' = TRUE
             /\ out' = [cmd |-> "scp", lo |-> lo, hi |-> hi]
        ELSE /\ out' = [cmd |-> "scp", lo |-> lo, hi |-> hi,
                        value |-> Result(lo, hi, seed')]
             /\ UNCHANGED panicked
     /\ UNCHANGED matrix_vars

-----------------------------------------------------------------------------
(* alu *)

Operators == {"+", "-", "*", "/"}

\* What stands before the digits: "0b", a sign.
Ahead(s) == (IF s.radix = 2 THEN 2 ELSE 0) + (IF s.neg THEN 1 ELSE 0)
Fits(s) == Ahead(s) + Len(s.digits) <= TokenMax

\* The first TokenMax characters, and those after them.
Cut(s) == IF Fits(s) THEN s
          ELSE [s EXCEPT !.digits = SubSeq(@, 1, TokenMax - Ahead(s))]
Rest(s) == [radix |-> 10, neg |-> FALSE,
            digits |-> SubSeq(s.digits, TokenMax - Ahead(s) + 1, Len(s.digits))]

\* cmd_alu() cuts a line into three tokens and takes the first character of the
\* third for the operator.  The rest of an operand that is too long is the next
\* token, and what follows comes one token late.
Tokens(x, op, y) ==
  CASE Fits(x) /\ Fits(y) -> <<x, y, op>>
    [] Fits(x) /\ ~Fits(y) -> <<x, Cut(y), "digit">>
    [] ~Fits(x) -> <<Cut(x), Cut(Rest(x)),
                     IF Fits(Rest(x)) /\ y.radix = 10 /\ y.neg THEN "-" ELSE "digit">>

Computed(a, op, b) ==
  CASE op = "+" -> Wrap(a + b)
    [] op = "-" -> Wrap(a - b)
    [] op = "*" -> Wrap(a * b)
    [] op = "/" -> Quotient(a, b)

\* Mutant: no test for a zero divisor.
NotANumberNever(op, b) == FALSE

NotANumber(op, b) == op = "/" /\ b = 0

\* A division by zero is refused (and arms the trapdoor of ShellRun); the one
\* that overflows is not.
Evaluate(a, op, b) ==
  /\ IF NotANumber(op, b)
     THEN out' = [cmd |-> "refused"] /\ UNCHANGED panicked
     ELSE IF op = "/" /\ Traps(a, b)
     THEN out' = [cmd |-> "alu", a |-> a, op |-> op, b |-> b] /\ panicked' = TRUE
     ELSE LET value == Computed(a, op, b) IN
          /\ out' = [cmd |-> "alu", a |-> a, op |-> op, b |-> b, value |-> value,
                     shown |-> IntToStr(value), bin |-> IntToBin(value)]
          /\ UNCHANGED panicked
  /\ UNCHANGED <<seed, matrix_vars>>

\* An operand or a matrix that cannot be read, an operator there is not, a
\* variable that is not there.
Refused ==
  /\ Idle
  /\ out' = [cmd |-> "refused"]
  /\ UNCHANGED <<seed, matrix_vars, panicked>>

Alu(x, op, y) ==
  /\ Idle
  /\ LET token == Tokens(x, op, y)
     IN IF Readable(token[1]) /\ Readable(token[2]) /\ token[3] \in Operators
        THEN Evaluate(Operand(token[1]), token[3], Operand(token[2]))
        ELSE Refused

-----------------------------------------------------------------------------
(* matrix *)

\* The rows below the first, without column j.
Minor(m, n, j) ==
  [r \in 1 .. n - 1 |-> [c \in 1 .. n - 1 |-> m[r + 1][IF c < j THEN c ELSE c + 1]]]

\* Mutant: every term is added.
TermUnsigned(m, j, minor) == Wrap(m[1][j] * minor)

\* sign * m[0][j] * det(minor), columns counted from 1 here.
Term(m, j, minor) == Wrap((IF j % 2 = 1 THEN 1 ELSE -1) * m[1][j] * minor)

\* Mutant: the loop stops before the last column.
AlongFirstRowTooShort(m, n, minors) ==
  LET det[j \in 0 .. n - 1] ==
        IF j = 0 THEN 0 ELSE Wrap(det[j - 1] + Term(m, j, minors[j]))
  IN det[n - 1]

\* The loop over the columns, given the determinants of the minors.
AlongFirstRow(m, n, minors) ==
  LET det[j \in 0 .. n] ==
        IF j = 0 THEN 0 ELSE Wrap(det[j - 1] + Term(m, j, minors[j]))
  IN det[n]

\* matrix_det(): two cases, then the expansion along the first row.
MatrixDet[n \in 1 .. MaxDim] ==
  [m \in Matrix(n) |->
     CASE n = 1 -> m[1][1]
       [] n = 2 -> Wrap(m[1][1] * m[2][2] - m[1][2] * m[2][1])
       [] OTHER -> AlongFirstRow(m, n, [j \in 1 .. n |-> MatrixDet[n - 1][Minor(m, n, j)]])]

Det(m) == MatrixDet[Len(m)][m]

Bound(name) == {i \in DOMAIN matrix_vars : matrix_vars[i].name = name}

\* matrix_find_var(): the first of that name.
FindVar(name) == CHOOSE i \in Bound(name) : \A j \in Bound(name) : i <= j

\* Mutant: a new variable each time.
StoredAgain(name, m) == Append(matrix_vars, [name |-> name, mat |-> m])

\* The variable is overwritten, or added at the end.
Stored(name, m) ==
  IF Bound(name) # {} THEN [matrix_vars EXCEPT ![FindVar(name)].mat = m]
  ELSE Append(matrix_vars, [name |-> name, mat |-> m])

\* Mutant: the table is checked for one entry too many.
HasRoomOffByOne(name) == Bound(name) # {} \/ Len(matrix_vars) <= VarMax

HasRoom(name) == Bound(name) # {} \/ Len(matrix_vars) < VarMax

\* matrix store <name> <matrix>; the matrix is read before the name is looked up.
MatrixStore(name, m) ==
  /\ Idle
  /\ IF HasRoom(name)
     THEN /\ matrix_vars' = Stored(name, m)
          /\ out' = [cmd |-> "stored", name |-> name, mat |-> m]
     ELSE out' = [cmd |-> "refused"] /\ UNCHANGED matrix_vars
  /\ UNCHANGED <<seed, panicked>>

\* matrix matrix:<name> det
MatrixOfVar(name) ==
  /\ Idle /\ Bound(name) # {}
  /\ LET m == matrix_vars[FindVar(name)].mat
     IN out' = [cmd |-> "det", name |-> name, mat |-> m, value |-> Det(m)]
  /\ UNCHANGED <<seed, matrix_vars, panicked>>

\* matrix <matrix> det
MatrixInline(m) ==
  /\ Idle
  /\ out' = [cmd |-> "det", name |-> "inline", mat |-> m, value |-> Det(m)]
  /\ UNCHANGED <<seed, matrix_vars, panicked>>

-----------------------------------------------------------------------------

\* The halted machine, cli; hlt for ever.
Halted == panicked /\ UNCHANGED vars

Next ==
  \/ NextLine
  \/ \E a, b \in Operands : Scp(a, b)
  \/ \E x, y \in Texts : \E op \in Operators : Alu(x, op, y)
  \/ \E name \in Names : MatrixOfVar(name) \/ \E m \in Storable : MatrixStore(name, m)
  \/ \E m \in Typed : MatrixInline(m)
  \/ Refused
  \/ Halted

Spec == Init /\ [][Next]_vars

-----------------------------------------------------------------------------
(* Properties. *)

\* What scp prints lies between the two numbers, in whichever order they were
\* typed, also when their distance does not fit an int.
ScpInRange ==
  out.cmd = "scp" /\ ~panicked => out.lo <= out.value /\ out.value <= out.hi

\* The calculators bring the machine down at two inputs only: scp over every
\* int there is, and the smallest int divided by -1.
PanicsOnlyAtTheEdge ==
  panicked => \/ out.cmd = "scp" /\ out.lo = MinInt /\ out.hi = MaxInt
              \/ out.cmd = "alu" /\ out.op = "/" /\ out.a = MinInt /\ out.b = -1

\* The decimal result that alu prints can be typed as an operand again and is the
\* same number, except the smallest, of which the sign is printed and read as 0.
\* The binary one is refused when it is negative.  Otherwise it is the same
\* number if it is no longer than a token, and if it is longer a smaller one.
PrintedReadsBack ==
  out.cmd = "alu" /\ ~panicked
  => LET decimal == Cut(out.shown)
         binary == Cut(out.bin)
     IN /\ Readable(decimal)
        /\ Operand(decimal) = IF out.value = MinInt THEN 0 ELSE out.value
        /\ Readable(binary) <=> out.value >= 0
        /\ out.value >= 0 => IF Fits(out.bin) THEN Operand(binary) = out.value
                             ELSE Operand(binary) < out.value

\* The expansion along the first row in unbounded integers, down to one number.
SignedSum(m, n, minors) ==
  LET sum[j \in 0 .. n] ==
        IF j = 0 THEN 0
        ELSE sum[j - 1] + (IF j % 2 = 1 THEN m[1][j] ELSE -m[1][j]) * minors[j]
  IN sum[n]

Expansion[n \in 1 .. MaxDim] ==
  [m \in [1 .. n -> [1 .. n -> Int]] |->
     IF n = 1 THEN m[1][1]
     ELSE SignedSum(m, n, [j \in 1 .. n |-> Expansion[n - 1][Minor(m, n, j)]])]

\* That each product and each partial sum wraps, at every level, and that two
\* rows are a case of their own, changes nothing but that the result wraps.
DetIsExpansion ==
  out.cmd = "det" => out.value = Wrap(Expansion[Len(out.mat)][out.mat])

\* The sum over all permutations, in unbounded integers.
Leibniz(m) ==
  LET n == Len(m)
      Permutation == {p \in [1 .. n -> 1 .. n] : \A i, j \in 1 .. n : p[i] = p[j] => i = j}
      inversions(p) == {q \in (1 .. n) \X (1 .. n) : q[1] < q[2] /\ p[q[1]] > p[q[2]]}
      product(p) == FoldLeft(LAMBDA v, i : v * m[i][p[i]], 1, [i \in 1 .. n |-> i])
      term(p) == (IF Cardinality(inversions(p)) % 2 = 0 THEN 1 ELSE -1) * product(p)
  IN MapThenSumSet(term, Permutation)

\* The determinant, although every product and sum of the expansion may wrap,
\* is the mathematical one, wrapped once.
DetIsLeibniz == out.cmd = "det" => out.value = Wrap(Leibniz(out.mat))

\* No name is bound twice, so a variable is the matrix stored under its name
\* last, and it takes effect at once.
NamesAreDistinct ==
  \A i, j \in DOMAIN matrix_vars : matrix_vars[i].name = matrix_vars[j].name => i = j
=============================================================================
