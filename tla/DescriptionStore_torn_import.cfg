\* One class, whole entries, a crash at any step.
SPECIFICATION Spec
CONSTANTS
  c1 = c1  c2 = c2  m1 = m1  m2 = m2  r1 = r1  r2 = r2  r3 = r3
  Class = {c1}
  Rev = {r1, r3}
  Sig = {m1, m2}
  Gone = Gone
  NoHash = NoHash
  LlmModel = {"qwen"}
  ProgressEvery = 1
  WholeEntriesOnly = TRUE
  Projection <- MCProjection
  MethodsOf <- MCMethodsOf
  Snippet <- MCSnippet
INVARIANT
  ServedImportIsDurable
