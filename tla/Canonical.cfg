CONSTANTS
  MaxLexemes = 5
  Inputs <- MCInputs
  Literals <- MCLiterals
SPECIFICATION Spec
INVARIANTS AcceptsJSON CanonicalFormOfTheValue
PROPERTY CanonicalIsFixed
CHECK_DEADLOCK FALSE
