\* References resolve to types that are not controllers.
SPECIFICATION Spec
CONSTANTS
  c1 = c1  c2 = c2  i1 = i1  i2 = i2
  Controller = {c1, c2}
  Interface = {i1, i2}
  Sig = {"getDeal"}
  Target = {i1, i2}
SYMMETRY TypeSymmetry
CHECK_DEADLOCK FALSE
INVARIANTS
  ImplementorsRepresented
  NoPhantomEndpoint
  OwnMappingServed
