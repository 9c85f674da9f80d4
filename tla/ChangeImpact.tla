----------------------------- MODULE ChangeImpact -----------------------------
(***************************************************************************)
(* From the types written in Java files to the classes and endpoints that  *)
(* change_impact of analysis/impact.py lists for a changed class: the two  *)
(* resolution passes and the class edges of scanner/java_indexer.py, in    *)
(* the order of scanner/pipeline.py, then the walk over the edges.         *)
(*                                                                         *)
(* A reference is one place where a file names a type: as superclass,      *)
(* interface, type of an injected or plain field, in a signature, or only  *)
(* in a method body; `call' is a plain field and a call on it.  Its form is *)
(* Foo, Foo[], Foo<..>, ..<Foo> (a type argument) or Outer.Foo.  The name   *)
(* is imported, or it is bare: a class of the same package, a member of an  *)
(* enclosing class, or one of a wildcard import.                            *)
(***************************************************************************)
EXTENDS Integers, FiniteSets

CONSTANTS
  Class, Name, Package,
  Library,           \* types that are not indexed
  Nested,            \* types declared in the body of another
  NameOf, PackageOf, \* [Type -> Name], [Type -> Package]
  Sources,           \* sets of references a repository can consist of
  Endpoint, Owner,   \* endpoint rows that are not superseded, [Endpoint -> Class]
  MaxTransitiveDepth,
  NoClass

Type == Class \cup Library
Role == {"superclass", "interface", "injected", "field", "call", "signature", "body"}
Form == {"plain", "array", "generic", "argument", "qualified"}
Reference == [from : Class, to : Type, role : Role, imported : BOOLEAN, form : Form]

Named(n) == {c \in Class : NameOf[c] = n}
Neighbour(c, n) == {d \in Named(n) \ Nested : PackageOf[d] = PackageOf[c]}

\* What a Java compiler accepts: in one file an unqualified name means one
\* type, a member or an import goes before the package, the package before a
\* wildcard.  A qualified name is free of all this.
Compiles(S) ==
  /\ \A r \in S :
       IF r.form = "qualified" THEN r.to \in Nested /\ ~r.imported /\ r.from # r.to
       ELSE /\ NameOf[r.from] # NameOf[r.to]
            /\ r.imported \/ r.to \in Nested \/ Neighbour(r.from, NameOf[r.to]) \subseteq {r.to}
  /\ \A r, q \in S : /\ r.from = q.from /\ NameOf[r.to] = NameOf[q.to]
                      /\ "qualified" \notin {r.form, q.form}
                      => r.to = q.to /\ r.imported = q.imported

ASSUME ImpactAssumption ==
  /\ Nested \subseteq Type /\ Class \cap Library = {}
  /\ NameOf \in [Type -> Name] /\ PackageOf \in [Type -> Package]
  /\ \A c, d \in Class \ Nested : NameOf[c] = NameOf[d] /\ PackageOf[c] = PackageOf[d] => c = d
  /\ NoClass \notin Type \cup Name /\ Class \cap Name = {}
  /\ Sources \subseteq SUBSET Reference /\ \A S \in Sources : Compiles(S)
  /\ Owner \in [Endpoint -> Class]
  /\ MaxTransitiveDepth \in Nat \ {0}

VARIABLES
  source,    \* the references
  stored,    \* [source -> Text]: the type column of the row made of each, if it makes one
  called,    \* [source -> Text]: receiver_type_fqn of the call rows
  edges,     \* class_dependency: <<from, to, kind>>
  symbol, targets,
  via,       \* [Class -> set of reasons]: non-empty for direct dependents
  depthOf, frontier, depth, \* the walk; depth 0 is unvisited
  impacted,  \* [Endpoint -> confidence, or "none"]
  pc

vars == <<source, stored, called, edges, symbol, targets, via, depthOf, frontier, depth,
          impacted, pc>>

-----------------------------------------------------------------------------
(* Type texts: the base by its full name or as a simple name, and the form.  *)

Text == [base : Type \cup {NoClass}, name : Name, form : Form]
Bare(n, form) == [base |-> NoClass, name |-> n, form |-> form]

\* The import of a name in the file of a class, whichever reference it is for.
Import(c, n) == {q.to : q \in {x \in source : x.from = c /\ x.imported /\ NameOf[x.to] = n}}

\* The import of its simple name replaces the base of a type, qualifier and
\* brackets included, but not the arguments; interfaces stay as written.
ResolveByImport(r) ==
  LET n == NameOf[r.to]
  IN  IF r.role = "interface" \/ r.form = "argument" \/ Import(r.from, n) = {}
      THEN Bare(n, r.form)
      ELSE [base |-> CHOOSE t \in Import(r.from, n) : TRUE, name |-> n,
            form |-> IF r.form = "generic" THEN "generic" ELSE "plain"]

\* A bare identifier that names a class of the declaring class's package.
SamePackageText(r, text) ==
  LET there == Neighbour(r.from, text.name)
  IN  IF text.base = NoClass /\ text.form = "plain" /\ there # {}
      THEN [text EXCEPT !.base = CHOOSE c \in there : TRUE] ELSE text

\* The text is the full name of an indexed class.
Exact(text) == text.base \in Class /\ text.form = "plain"

\* Mutant: an unresolved reference links nothing.
CandidatesExactOnly(text) == IF Exact(text) THEN {text.base} ELSE {}

\* The classes a reference links: the one it names in full, or every one that
\* bears its simple name, arguments included.
Candidates(text) == IF Exact(text) THEN {text.base} ELSE Named(text.name)

\* A stored type references a target: as a whole if it has a dot, else by
\* simple name.  com.a.Foo<Bar> and Outer.Foo are no target's full name, and
\* List<Foo> is a List.
TypeMatches(text) ==
  IF text.base # NoClass \/ text.form = "qualified" THEN Exact(text) /\ text.base \in targets
  ELSE text.form # "argument" /\ text.name \in {NameOf[t] : t \in targets}

-----------------------------------------------------------------------------
(* The passes of a scan.                                                    *)

\* Mutant: the pass skips signatures.
ResolveSamePackageFieldsOnly ==
  /\ pc = "parsed"
  /\ stored' = [r \in source |-> IF r.role \in {"injected", "field", "call"}
                                 THEN SamePackageText(r, stored[r]) ELSE stored[r]]
  /\ pc' = "resolved"
  /\ UNCHANGED <<source, called, edges, symbol, targets, via, depthOf, frontier, depth, impacted>>

\* Fields, parameters and return types; not superclasses, interfaces, calls.
ResolveSamePackageTypes ==
  /\ pc = "parsed"
  /\ stored' = [r \in source |-> IF r.role \in {"injected", "field", "call", "signature"}
                                 THEN SamePackageText(r, stored[r]) ELSE stored[r]]
  /\ pc' = "resolved"
  /\ UNCHANGED <<source, called, edges, symbol, targets, via, depthOf, frontier, depth, impacted>>

EdgeKind(role) ==
  CASE role \in {"superclass", "interface"} -> "inheritance"
    [] role = "injected" -> "field_injection"
    [] role = "signature" -> "method_param"

\* Plain fields and method bodies make no edge.
IndexClassDependencies ==
  /\ pc = "resolved"
  /\ edges' = UNION {{<<r.from, t, EdgeKind(r.role)>> : t \in Candidates(stored[r]) \ {r.from}} :
                     r \in {q \in source : q.role \notin {"field", "call", "body"}}}
  /\ pc' = "linked"
  /\ UNCHANGED <<source, stored, called, symbol, targets, via, depthOf, frontier, depth, impacted>>

-----------------------------------------------------------------------------
(* The question.                                                            *)

\* A full name is one class, a simple name all that bear it.
ResolveTargets ==
  /\ pc = "linked"
  /\ \E s \in Class \cup Name :
       /\ symbol' = s
       /\ targets' = IF s \in Class THEN {s} ELSE Named(s)
       /\ pc' = IF targets' = {} THEN "not_found" ELSE "asked"
  /\ UNCHANGED <<source, stored, called, edges, via, depthOf, frontier, depth, impacted>>

Via(c) ==
  {e[3] : e \in {f \in edges : f[1] = c /\ f[2] \in targets}} \cup
  (IF \E r \in source : r.from = c /\ r.role = "call" /\ TypeMatches(called[r])
   THEN {"call"} ELSE {}) \cup
  (IF \E r \in source : /\ r.from = c /\ r.role \in {"injected", "field", "call"}
                        /\ TypeMatches(stored[r])
   THEN {"field"} ELSE {})

\* Direct dependents: by edge, by call, by field.
CollectDirect ==
  /\ pc = "asked"
  /\ via' = [c \in Class |-> IF c \in targets THEN {} ELSE Via(c)]
  /\ depthOf' = [c \in Class |-> IF via'[c] = {} THEN 0 ELSE 1]
  /\ frontier' = {c \in Class : via'[c] # {}}
  /\ depth' = 1
  /\ pc' = "walk"
  /\ UNCHANGED <<source, stored, called, edges, symbol, targets, impacted>>

Dependents(S) == {e[1] : e \in {f \in edges : f[2] \in S}}

\* Mutant: the bound is one too far.
MayWidenOnce == frontier # {} /\ depth <= MaxTransitiveDepth

MayWiden == frontier # {} /\ depth < MaxTransitiveDepth

\* Mutant: a class met again gets the later depth.
NextFrontierAgain == Dependents(frontier) \ targets

NextFrontier == {c \in Dependents(frontier) : c \notin targets /\ depthOf[c] = 0}

\* One turn of the loop: the unvisited dependents of the frontier.
Widen ==
  /\ pc = "walk" /\ MayWiden
  /\ depth' = depth + 1
  /\ frontier' = NextFrontier
  /\ depthOf' = [c \in Class |-> IF c \in NextFrontier THEN depth + 1 ELSE depthOf[c]]
  /\ UNCHANGED <<source, stored, called, edges, symbol, targets, via, impacted, pc>>

\* Endpoints of the changed class or of a direct dependent weigh more.
Confidence(c) ==
  CASE c \in targets -> "medium" [] depthOf[c] = 1 -> "medium"
    [] c \notin targets /\ depthOf[c] = 0 -> "none" [] OTHER -> "low"

Report ==
  /\ pc = "walk" /\ ~MayWiden
  /\ impacted' = [e \in Endpoint |-> Confidence(Owner[e])]
  /\ pc' = "done"
  /\ UNCHANGED <<source, stored, called, edges, symbol, targets, via, depthOf, frontier, depth>>

-----------------------------------------------------------------------------
Init ==
  /\ source \in Sources
  /\ stored = [r \in source |-> ResolveByImport(r)]
  /\ called = [r \in source |-> ResolveByImport(r)]
  /\ edges = {} /\ symbol = NoClass /\ targets = {}
  /\ via = [c \in Class |-> {}] /\ depthOf = [c \in Class |-> 0]
  /\ frontier = {} /\ depth = 0
  /\ impacted = [e \in Endpoint |-> "none"]
  /\ pc = "parsed"

Next ==
  \/ ResolveSamePackageTypes \/ IndexClassDependencies
  \/ ResolveTargets \/ CollectDirect \/ Widen \/ Report

Spec == Init /\ [][Next]_vars

-----------------------------------------------------------------------------
(* Properties.                                                              *)

\* The variables keep their types.
TypeOK ==
  /\ source \subseteq Reference
  /\ stored \in [source -> Text] /\ called \in [source -> Text]
  /\ edges \subseteq Class \X Class \X {"inheritance", "field_injection", "method_param"}
  /\ symbol \in Class \cup Name \cup {NoClass} /\ targets \subseteq Class
  /\ via \in [Class -> SUBSET {"inheritance", "field_injection", "method_param", "call", "field"}]
  /\ depthOf \in [Class -> 0 .. MaxTransitiveDepth]
  /\ frontier \subseteq Class /\ depth \in 0 .. MaxTransitiveDepth
  /\ impacted \in [Endpoint -> {"none", "low", "medium"}]
  /\ pc \in {"parsed", "resolved", "linked", "asked", "walk", "done", "not_found"}

Asked == pc \in {"walk", "done"}

\* A reference the index takes for another class: the file imports another
\* class of that simple name, or a member bears the name of a package's class.
Misread(r) ==
  \/ /\ r.form = "qualified" /\ r.role # "interface"
     /\ \E q \in source : /\ q.from = r.from /\ q.imported /\ NameOf[q.to] = NameOf[r.to]
                          /\ q.to \in Class \ {r.to}
  \/ /\ r.form = "plain" /\ r.to \in Nested /\ ~r.imported
     /\ r.role \in {"injected", "field", "signature"}
     /\ Neighbour(r.from, NameOf[r.to]) # {}

\* No declaration that names the changed class goes unnoticed, but for those
\* that are misread, and for plain fields, which make no edge and match as a
\* whole: of an imported class with arguments, of a qualified one, or with the
\* class as an argument.
NoDependentMissed ==
  Asked => \A r \in source :
    /\ r.to \in targets /\ r.from \notin targets /\ r.role # "body" /\ ~Misread(r)
    /\ r.role \in {"field", "call"} =>
         r.form \in {"plain", "array"} \/ (r.form = "generic" /\ ~r.imported)
    => via[r.from] # {}

\* The index knows which class is meant: an indexed class, imported and
\* without arguments, or of the same package where the second pass looks.
Told(r) ==
  /\ r.to \in Class /\ r.role # "interface"
  /\ \/ r.imported /\ r.form \in {"plain", "array"}
     \/ /\ ~r.imported /\ r.form = "plain" /\ r.to \notin Nested
        /\ PackageOf[r.from] = PackageOf[r.to] /\ r.role \in {"injected", "field", "signature"}

\* A class is reported for a namesake of the target only if a declaration of it
\* was not told: an interface, a superclass, a receiver or an array by bare
\* name, a qualified name, a type with arguments or an argument, a member, a
\* wildcard import, or the import of a type that is not indexed.
NamesakesAreTold ==
  Asked => \A c \in Class : via[c] # {} =>
    \E r \in source : /\ r.from = c /\ r.role # "body"
                      /\ \/ r.to \in targets
                         \/ ~Told(r) /\ NameOf[r.to] \in {NameOf[t] : t \in targets}

\* The depths are those of a shortest chain of dependents, cycles or not, and
\* every class within the bound has one: direct dependents are at 1, any other
\* class is one above the lowest class it depends on.  The endpoints of all these
\* classes, and of the changed ones, are listed.
HopsAreShortest ==
  pc = "done" => \A c \in Class :
    LET below == {e[2] : e \in {f \in edges : f[1] = c}}
    IN  /\ c \in targets => depthOf[c] = 0
        /\ c \notin targets => (depthOf[c] = 1 <=> via[c] # {})
        /\ depthOf[c] > 1 => /\ \E b \in below : depthOf[b] = depthOf[c] - 1
                             /\ \A b \in below : depthOf[b] = 0 \/ depthOf[b] >= depthOf[c] - 1
        /\ c \notin targets /\ depthOf[c] = 0 =>
             \A b \in below : depthOf[b] \in {0, MaxTransitiveDepth}
        /\ \A e \in Endpoint : Owner[e] = c =>
             (impacted[e] # "none" <=> c \in targets \/ depthOf[c] > 0)
=============================================================================
