---------------------------- MODULE MCCbmcGrounding ----------------------------
(* Two modules' classes of one full name in one chunk, a class without a        *)
(* package, whose name every node ends with, in another; a relocated copy and a *)
(* namesake of another package among the nodes.                                 *)
EXTENDS CbmcGrounding

CONSTANTS a1, a2, p, A, P, k, l, nA, nShaded, nB, own, twin, other, named

MCFqnOf == [c \in Class |-> IF c = p THEN P ELSE A]
MCChunkOf == [c \in Class |-> IF c = p THEN l ELSE k]
MCExact == [c \in Class |-> IF c = p THEN {} ELSE {nA}]
MCMatches == [c \in Class |-> IF c = p THEN Node ELSE {nA, nShaded}]
MCBears == [c \in Class |-> Node]
=============================================================================
