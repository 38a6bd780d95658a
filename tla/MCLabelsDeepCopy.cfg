CONSTANTS
  Nil = Nil
  Values = {"a", "b"}
  Cells = {"c1", "c2"}
  Origins <- MCOrigins
  MaxWrites = 3
SPECIFICATION Spec
INVARIANTS OriginalUntouched NilnessPreserved
\* The copy is made once and the holders write a bounded number of times:
\* the program then ends.
CHECK_DEADLOCK FALSE
