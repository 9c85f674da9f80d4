\* Kills while the chunk files are written.
SPECIFICATION Spec
CONSTANTS
  c1 = c1  c2 = c2  c3 = c3  a1 = a1  a2 = a2
  Class = {c1, c2}
  Arch = {a1, a2}
  LastChunk = 1
  Parallel = 1
  MaxRuns = 2
  Answers = {"classes"}
  KillAt = {"write"}
  Manual = FALSE
  NoFile = NoFile  Torn = Torn  Classless = Classless  NoAnswer = NoAnswer
  Slice <- MCSlice
PROPERTY
  WholeArchBeforeRemoval
