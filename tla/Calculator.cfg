SPECIFICATION Spec
CONSTANTS
  Half = 16
  Operands <- MCOperands
  Texts <- MCTexts
  TokenMax = 5
  Names = {A, B, C}
  VarMax = 2
  MaxDim = 4
  Typed <- MCTyped
  Storable <- MCStorable
  Boots = {0, 7, 31}
  Multiplier = 13
  Increment = 15
SYMMETRY MCSymmetry
INVARIANTS TypeOK ScpInRange PanicsOnlyAtTheEdge PrintedReadsBack DetIsExpansion DetIsLeibniz NamesAreDistinct
