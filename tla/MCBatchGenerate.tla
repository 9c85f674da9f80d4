--------------------------- MODULE MCBatchGenerate ---------------------------
(* Two exports of arch.json, cut into two chunks at different places. *)
EXTENDS BatchGenerate

CONSTANTS c1, c2, c3, a1, a2

MCSlice == [a \in Arch |->
  IF a = a1 THEN [k \in Chunk |-> IF k = 0 THEN {c1, c2} \cap Class ELSE {c3} \cap Class]
            ELSE [k \in Chunk |-> IF k = 0 THEN {c1} ELSE {c2} \cap Class]]

=============================================================================
