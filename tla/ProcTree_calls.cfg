\* A child and any tree of two more processes.
SPECIFICATION Spec
CONSTANTS
  c = c  g = g  h = h
  Process = {c, g, h}
  Child = c
CHECK_DEADLOCK FALSE
INVARIANTS
  TypeOK
  GroupIsDead
  AnswerIsFinal
PROPERTY CallReturns
