----------------------- MODULE MCEndpointReattribution -----------------------
(* Every class graph over two controllers and two other types. *)
EXTENDS EndpointReattribution, TLC

CONSTANTS c1, c2, i1, i2

TypeSymmetry == Permutations(Controller) \cup Permutations(Interface)
=============================================================================
