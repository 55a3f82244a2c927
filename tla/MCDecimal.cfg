SPECIFICATION TextSpec
CONSTANTS
  P = 4
  MaxDec = 25
  Operands <- MCOperands
  Factors <- MCFactors
  Base = 2
  Precision = 2
  Texts <- MCTexts
CHECK_DEADLOCK FALSE
INVARIANTS
  MulIsBankersRounded
  QuoErrorBounded
  CeilIsLeast
  DocumentedFormIsRead
  PrintedIsReadBack
