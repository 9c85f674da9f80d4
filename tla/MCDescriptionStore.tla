------------------------- MODULE MCDescriptionStore -------------------------
(* Small instances of DescriptionStore: two or three contents of a source   *)
(* file, one of them with a method the others lack, and a file small enough *)
(* to be hashed whole (the snippet is the file on disk).                    *)
EXTENDS DescriptionStore

CONSTANTS c1, c2, m1, m2, r1, r2, r3

\* r1 and r2 differ in a body only, r3 also in its methods.
MCProjection == [r \in Rev |-> IF r = r3 THEN "p2" ELSE "p1"]
MCMethodsOf == [r \in Rev |-> IF r = r3 THEN Sig ELSE {m1}]
MCSnippet == [p \in Rev \X Source |-> p[2]]
=============================================================================
