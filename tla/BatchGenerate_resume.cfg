\* Kills once sessions have begun; answers that name classes, or none.
SPECIFICATION FairSpec
CONSTANTS
  c1 = c1  c2 = c2  c3 = c3  a1 = a1  a2 = a2
  Class = {c1, c2, c3}
  Arch = {a1, a2}
  LastChunk = 1
  Parallel = 2
  MaxRuns = 3
  Answers = {"classes", "none"}
  KillAt = {"run", "merge", "import", "cleanup"}
  Manual = FALSE
  NoFile = NoFile  Torn = Torn  Classless = Classless  NoAnswer = NoAnswer
  Slice <- MCSlice
INVARIANTS
  DiskBacksMerged
  NoEarlierGeneration
PROPERTIES
  KeepsLedger
  RunReturns
