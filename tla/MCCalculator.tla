--------------------------- MODULE MCCalculator ---------------------------
(***************************************************************************)
(* An int of five bits with its edges and a few numbers between; tokens of *)
(* five characters, so that 0b1000 is cut as a number of 18 digits is; a   *)
(* hundred matrices of up to four rows, whose determinants overflow.       *)
(***************************************************************************)
EXTENDS Calculator, TLC

MCOperands == {MinInt, MinInt + 1, -2, -1, 0, 1, 3, 9, MaxInt}

\* What alu prints, and: a decimal and a binary one that run over into the next
\* token, once and twice, no digits after 0b, a digit that is none of binary.
MCTexts ==
  {IntToStr(n) : n \in MCOperands} \cup {IntToBin(n) : n \in MCOperands}
  \cup {[radix |-> 10, neg |-> neg, digits |-> <<1, 2, 3, 4, 0, 3>>] : neg \in BOOLEAN}
  \cup {[radix |-> 2, neg |-> FALSE, digits |-> digits] :
          digits \in {<<>>, <<1, 2>>, <<0, 1, 1, 0, 1, 0, 1, 1, 1>>}}

MCTyped ==
  {<<<<MinInt>>>>, <<<<7>>>>}
  \cup [1 .. 2 -> [1 .. 2 -> {-3, 7}]]
  \cup [1 .. 3 -> {<<-1, 3, 2>>, <<5, -4, 3>>, <<0, MaxInt, MinInt>>}]
  \cup {[r \in 1 .. 4 |-> [c \in 1 .. 4 |-> IF c = p[r] THEN 3 ELSE p[c] - 2]] :
          p \in {q \in [1 .. 4 -> 1 .. 4] : {q[i] : i \in 1 .. 4} = 1 .. 4}}

MCStorable == {<<<<5>>>>, <<<<1, 2>>, <<3, 4>>>>}

\* The names are alike.
MCSymmetry == Permutations(Names)
=============================================================================
