----------------------------- MODULE MCIndexFile -----------------------------
(* One scan at a time and two clients. *)
EXTENDS IndexFile, TLC

CONSTANTS reader, describer

ClientSymmetry == Permutations(Client)
=============================================================================
