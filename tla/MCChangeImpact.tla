---------------------------- MODULE MCChangeImpact ----------------------------
(* Two packages; three classes and a library type of one simple name, one of   *)
(* the classes a member of another: any two references one class makes, and    *)
(* any graph of imported signature types.                                      *)
EXTENDS ChangeImpact

CONSTANTS aFoo, bFoo, nFoo, xFoo, aBar, bCtl, Foo, Bar, Ctl, a, b, x

MCNameOf == [c \in Type |-> CASE c = aBar -> Bar [] c = bCtl -> Ctl [] OTHER -> Foo]
MCPackageOf == [c \in Type |-> CASE c \in {aFoo, nFoo, aBar} -> a [] c = xFoo -> x [] OTHER -> b]
MCOwner == [e \in Endpoint |-> e]

\* The references of aBar and bCtl, without those that only repeat another's case.
Written ==
  {r \in Reference : /\ r.from \in {aBar, bCtl} /\ Compiles({r})
                     /\ r.form = "array" => r.role \in {"field", "signature"}
                     /\ r.role = "body" => r.form = "plain" /\ r.imported}
Signature(p) == [from |-> p[1], to |-> p[2], role |-> "signature", imported |-> TRUE, form |-> "plain"]
Linkable == {p \in (Class \ {nFoo}) \X (Class \ {nFoo}) : NameOf[p[1]] # NameOf[p[2]]}
MCSources ==
  {S \in {{r, q} : r, q \in Written} : Compiles(S) /\ \A r, q \in S : r.from = q.from}
  \cup {S \in {{Signature(p) : p \in G} : G \in SUBSET Linkable} : Compiles(S)}
=============================================================================
