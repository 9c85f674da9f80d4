\* Every kind of answer, a kill at every step, answers written by hand.
SPECIFICATION Spec
CONSTANTS
  c1 = c1  c2 = c2  c3 = c3  a1 = a1  a2 = a2
  Class = {c1, c2}
  Arch = {a1, a2}
  LastChunk = 1
  Parallel = 2
  MaxRuns = 3
  Answers = {"classes", "classless", "none"}
  KillAt = {"clear", "load", "write", "plan", "run", "sidecar", "merge", "import", "cleanup", "remove"}
  Manual = TRUE
  NoFile = NoFile  Torn = Torn  Classless = Classless  NoAnswer = NoAnswer
  Slice <- MCSlice
INVARIANTS
  TypeOK
  OneArch
  NewestAcceptedOnce
