\* Every configuration; three classes in two chunks, two permits.
SPECIFICATION Spec
CONSTANTS
  a1 = a1  a2 = a2  p = p  A = A  P = P  k = k  l = l
  nA = nA  nShaded = nShaded  nB = nB  own = own  twin = twin  other = other  named = named
  Class = {a1, a2, p}
  Fqn = {A, P}
  FqnOf <- MCFqnOf
  Packaged = {a1, a2}
  Chunk = {k, l}
  ChunkOf <- MCChunkOf
  Node = {nA, nShaded, nB}
  Exact <- MCExact
  Matches <- MCMatches
  Bears <- MCBears
  Relocated = {nShaded}
  Parallel = 2  FetchParallel = 2  Permits = 2
  Project = {own, twin, other, named}
  OwnRoot = {own, twin}
  Rooted = {own, twin, other}
  OwnName = {named}
  Settings <- Setting
  NoNode = NoNode  Forgotten = Forgotten
CHECK_DEADLOCK FALSE
INVARIANTS
  TypeOK
  GroundedInOwnCode
  NoClassSinksItsChunk
PROPERTIES
  ProjectIsOwn
  EveryChunkEnds
