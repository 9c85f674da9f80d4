-------------------------- MODULE ChangeImpact_proofs --------------------------
(* For any repository that compiles, any target and any depth: which dependents *)
(* of the changed class are found, where a namesake is reported in its place,   *)
(* and that the hops of the walk are those of a shortest chain.                 *)
EXTENDS ChangeImpact, TLAPS

-----------------------------------------------------------------------------
(* What the index holds of a reference after the two passes                 *)

SamePackageRole == {"injected", "field", "call", "signature"}

StoredText(r) ==
  IF r.role \in SamePackageRole THEN SamePackageText(r, ResolveByImport(r)) ELSE ResolveByImport(r)

Full(c) == [base |-> c, name |-> NameOf[c], form |-> "plain"]

LEMMA ReferenceType ==
  ASSUME NEW r \in Reference
  PROVE  /\ r.from \in Class /\ r.to \in Type /\ r.role \in Role
         /\ r.imported \in BOOLEAN /\ r.form \in Form
         /\ NameOf[r.to] \in Name
BY ImpactAssumption DEF Reference

LEMMA SourceType ==
  ASSUME source \in Sources, NEW r \in source
  PROVE  r \in Reference /\ Compiles(source)
BY ImpactAssumption

\* An unqualified name has the import of its own class or none; a qualified one
\* may have that of another.
LEMMA ImportForm ==
  ASSUME source \in Sources, NEW r \in source, NEW t \in Import(r.from, NameOf[r.to])
  PROVE  /\ t \in Type /\ NameOf[t] = NameOf[r.to]
         /\ \E q \in source : /\ q.from = r.from /\ q.imported /\ q.to = t
                              /\ NameOf[q.to] = NameOf[r.to]
         /\ r.form # "qualified" => t = r.to /\ r.imported
<1>1. PICK q \in source : q.from = r.from /\ q.imported /\ q.to = t /\ NameOf[q.to] = NameOf[r.to]
  BY DEF Import
<1>2. r \in Reference /\ q \in Reference /\ Compiles(source)
  BY SourceType
<1>3. t \in Type
  BY <1>1, <1>2, ReferenceType
<1>4. q.form # "qualified"
  BY <1>1, <1>2 DEF Compiles
<1>5. r.form # "qualified" => q.to = r.to /\ q.imported = r.imported
  BY <1>1, <1>2, <1>4 DEF Compiles
<1> QED BY <1>1, <1>3, <1>5

\* The first pass leaves the text, or gives it the base of the import.
LEMMA FirstText ==
  ASSUME source \in Sources, NEW r \in source
  PROVE  \/ /\ ResolveByImport(r) = Bare(NameOf[r.to], r.form)
            /\ r.role = "interface" \/ r.form = "argument" \/ ~r.imported
         \/ /\ r.role # "interface"
            /\ \E t \in Import(r.from, NameOf[r.to]) :
                 ResolveByImport(r) = [base |-> t, name |-> NameOf[r.to],
                                       form |-> IF r.form = "generic" THEN "generic" ELSE "plain"]
<1>1. r.imported => r.to \in Import(r.from, NameOf[r.to])
  BY DEF Import
<1>2. CASE r.role = "interface" \/ r.form = "argument" \/ Import(r.from, NameOf[r.to]) = {}
  BY <1>1, <1>2 DEF ResolveByImport
<1>3. CASE ~(r.role = "interface" \/ r.form = "argument" \/ Import(r.from, NameOf[r.to]) = {})
  <2> DEFINE t == CHOOSE i \in Import(r.from, NameOf[r.to]) : TRUE
  <2>1. t \in Import(r.from, NameOf[r.to])
    BY <1>3
  <2>2. ResolveByImport(r) = [base |-> t, name |-> NameOf[r.to],
                              form |-> IF r.form = "generic" THEN "generic" ELSE "plain"]
    BY <1>3 DEF ResolveByImport
  <2> QED BY <1>3, <2>1, <2>2
<1> QED BY <1>2, <1>3

\* The second pass leaves the text, or gives a bare identifier a neighbour.
LEMMA SecondText ==
  ASSUME source \in Sources, NEW r \in source
  PROVE  \/ StoredText(r) = ResolveByImport(r)
         \/ /\ r.role \in SamePackageRole /\ r.form = "plain" /\ ~r.imported
            /\ ResolveByImport(r) = Bare(NameOf[r.to], "plain")
            /\ \E d \in Neighbour(r.from, NameOf[r.to]) :
                 StoredText(r) = [base |-> d, name |-> NameOf[r.to], form |-> "plain"]
<1> SUFFICES ASSUME StoredText(r) # ResolveByImport(r)
             PROVE  /\ r.role \in SamePackageRole /\ r.form = "plain" /\ ~r.imported
                    /\ ResolveByImport(r) = Bare(NameOf[r.to], "plain")
                    /\ \E d \in Neighbour(r.from, NameOf[r.to]) :
                         StoredText(r) = [base |-> d, name |-> NameOf[r.to], form |-> "plain"]
  OBVIOUS
<1> DEFINE text == ResolveByImport(r)
           there == Neighbour(r.from, text.name)
           d == CHOOSE c \in there : TRUE
<1>1. /\ r.role \in SamePackageRole /\ text.base = NoClass /\ text.form = "plain" /\ there # {}
      /\ StoredText(r) = [text EXCEPT !.base = d]
  BY DEF StoredText, SamePackageText
<1>2. r \in Reference
  BY SourceType
<1>3. \A t \in Import(r.from, NameOf[r.to]) : t # NoClass
  BY ImportForm, ImpactAssumption
<1>4. /\ text = Bare(NameOf[r.to], r.form)
      /\ r.role = "interface" \/ r.form = "argument" \/ ~r.imported
  BY <1>1, <1>3, FirstText
<1>5. r.form = "plain" /\ text.name = NameOf[r.to] /\ r.role # "interface"
  BY <1>1, <1>4 DEF Bare, SamePackageRole
<1>6. d \in Neighbour(r.from, NameOf[r.to])
  BY <1>1, <1>5
<1>7. StoredText(r) = [base |-> d, name |-> NameOf[r.to], form |-> "plain"]
  BY <1>1, <1>4, <1>5 DEF Bare
<1> QED BY <1>1, <1>4, <1>5, <1>6, <1>7

\* Whatever the passes make of a text, its simple name is the one written.
LEMMA TextNames ==
  ASSUME source \in Sources, NEW r \in source,
         NEW text, text = ResolveByImport(r) \/ text = StoredText(r)
  PROVE  /\ text \in Text /\ text.name = NameOf[r.to]
         /\ text.base # NoClass => NameOf[text.base] = NameOf[r.to]
<1> DEFINE Named3(x) == /\ x \in Text /\ x.name = NameOf[r.to]
                        /\ x.base # NoClass => NameOf[x.base] = NameOf[r.to]
<1>1. r \in Reference /\ NameOf[r.to] \in Name /\ r.form \in Form
  BY SourceType, ReferenceType
<1>2. Named3(Bare(NameOf[r.to], r.form))
  BY <1>1 DEF Bare, Text
<1>3. ASSUME NEW t \in Type, NameOf[t] = NameOf[r.to], NEW f \in {"generic", "plain"}
      PROVE  Named3([base |-> t, name |-> NameOf[r.to], form |-> f])
  BY <1>1, <1>3 DEF Text, Form
<1>4. Named3(ResolveByImport(r))
  <2>1. CASE ResolveByImport(r) = Bare(NameOf[r.to], r.form)
    BY <1>2, <2>1
  <2>2. CASE ResolveByImport(r) # Bare(NameOf[r.to], r.form)
    <3> DEFINE f == IF r.form = "generic" THEN "generic" ELSE "plain"
    <3>1. PICK t \in Import(r.from, NameOf[r.to]) :
            ResolveByImport(r) = [base |-> t, name |-> NameOf[r.to], form |-> f]
      BY <2>2, FirstText
    <3>2. t \in Type /\ NameOf[t] = NameOf[r.to] /\ f \in {"generic", "plain"}
      BY ImportForm
    <3> HIDE DEF f, Named3
    <3>3. Named3([base |-> t, name |-> NameOf[r.to], form |-> f])
      BY <1>3, <3>2
    <3> QED BY <3>1, <3>3
  <2> QED BY <2>1, <2>2
<1>5. \A d \in Neighbour(r.from, NameOf[r.to]) : d \in Type /\ NameOf[d] = NameOf[r.to]
  BY DEF Neighbour, Named, Type
<1>6. Named3(StoredText(r))
  BY <1>3, <1>4, <1>5, SecondText
<1> QED BY <1>4, <1>6

\* A reference that is told is stored under the full name of its class, and a
\* call on it too.
LEMMA ToldText ==
  ASSUME source \in Sources, NEW r \in source, Told(r)
  PROVE  /\ StoredText(r) = Full(r.to)
         /\ r.role = "call" => ResolveByImport(r) = Full(r.to)
<1>1. r \in Reference /\ Compiles(source) /\ r.to \in Class /\ r.role # "interface"
  BY SourceType DEF Told
<1>2. CASE r.imported /\ r.form \in {"plain", "array"}
  <2>1. ResolveByImport(r) = Full(r.to)
    BY <1>1, <1>2, FirstText, ImportForm DEF Full
  <2>2. StoredText(r) = ResolveByImport(r)
    BY <1>2, SecondText
  <2> QED BY <2>1, <2>2
<1>3. CASE /\ ~r.imported /\ r.form = "plain" /\ r.to \notin Nested
           /\ PackageOf[r.from] = PackageOf[r.to] /\ r.role \in {"injected", "field", "signature"}
  <2>1. r.to \in Neighbour(r.from, NameOf[r.to])
    BY <1>1, <1>3 DEF Neighbour, Named
  <2>2. Neighbour(r.from, NameOf[r.to]) \subseteq {r.to}
    BY <1>1, <1>3 DEF Compiles
  <2>3. ResolveByImport(r) = Bare(NameOf[r.to], "plain")
    BY <1>3, FirstText, ImportForm
  <2>4. (CHOOSE c \in Neighbour(r.from, NameOf[r.to]) : TRUE) = r.to
    BY <2>1, <2>2
  <2> DEFINE text == Bare(NameOf[r.to], "plain")
  <2>5. text.base = NoClass /\ text.form = "plain" /\ text.name = NameOf[r.to]
    BY DEF Bare
  <2>6. SamePackageText(r, text) = [text EXCEPT !.base = r.to]
    BY <2>1, <2>4, <2>5 DEF SamePackageText
  <2>7. StoredText(r) = [text EXCEPT !.base = r.to]
    BY <1>3, <2>3, <2>6 DEF StoredText, SamePackageRole
  <2> QED BY <1>3, <2>7 DEF Bare, Full
<1> QED BY <1>2, <1>3 DEF Told

\* Unless it is misread, the class meant is among those a reference links.
LEMMA CandidateHit ==
  ASSUME source \in Sources, NEW r \in source, r.to \in Class, ~Misread(r),
         r.role \notin {"field", "call", "body"}
  PROVE  r.to \in Candidates(StoredText(r))
<1>1. r \in Reference /\ Compiles(source) /\ NameOf[r.to] \in Name
  BY SourceType, ReferenceType
<1>2. StoredText(r).name = NameOf[r.to]
  BY TextNames
<1>3. ASSUME Exact(StoredText(r)) PROVE StoredText(r).base = r.to
  <2>1. CASE StoredText(r) = ResolveByImport(r)
    <3>1. PICK t \in Import(r.from, NameOf[r.to]) : /\ ResolveByImport(r).base = t
                                                 /\ r.role # "interface"
      BY <1>3, <2>1, FirstText, ImpactAssumption DEF Exact, Bare, Type
    <3>2. CASE r.form # "qualified"
      BY <2>1, <3>1, <3>2, ImportForm
    <3>3. CASE r.form = "qualified"
      <4>1. t \in Class
        BY <1>3, <2>1, <3>1 DEF Exact
      <4> QED BY <2>1, <3>1, <3>3, <4>1, ImportForm DEF Misread
    <3> QED BY <3>2, <3>3
  <2>2. CASE StoredText(r) # ResolveByImport(r)
    <3>1. PICK d \in Neighbour(r.from, NameOf[r.to]) :
            /\ StoredText(r).base = d
            /\ r.role \in SamePackageRole /\ r.form = "plain" /\ ~r.imported
      BY <2>2, SecondText
    <3>2. r.to \notin Nested
      BY <3>1 DEF Misread, SamePackageRole
    <3>3. Neighbour(r.from, NameOf[r.to]) \subseteq {r.to}
      BY <1>1, <3>1, <3>2 DEF Compiles
    <3> QED BY <3>1, <3>3
  <2> QED BY <2>1, <2>2
<1>4. r.to \in Named(StoredText(r).name)
  BY <1>2 DEF Named
<1> QED BY <1>3, <1>4 DEF Candidates

\* A plain field of a changed class matches, and so does a call on it, if the
\* text has no arguments or no package.
LEMMA MatchHit ==
  ASSUME source \in Sources, NEW r \in source, r.to \in targets, r.to \in Class, ~Misread(r),
         r.role \in {"field", "call"},
         r.form \in {"plain", "array"} \/ (r.form = "generic" /\ ~r.imported)
  PROVE  IF r.role = "field" THEN TypeMatches(StoredText(r)) ELSE TypeMatches(ResolveByImport(r))
<1>1. r \in Reference /\ Compiles(source) /\ NameOf[r.to] \in Name
  BY SourceType, ReferenceType
<1>2. TypeMatches(ResolveByImport(r))
  <2>1. CASE ResolveByImport(r) = Bare(NameOf[r.to], r.form)
    BY <2>1 DEF TypeMatches, Bare
  <2>2. CASE ResolveByImport(r) # Bare(NameOf[r.to], r.form)
    <3>1. PICK t \in Import(r.from, NameOf[r.to]) :
            ResolveByImport(r) = [base |-> t, name |-> NameOf[r.to],
                                  form |-> IF r.form = "generic" THEN "generic" ELSE "plain"]
      BY <2>2, FirstText
    <3>2. t = r.to /\ r.imported
      BY ImportForm
    <3>3. ResolveByImport(r) = [base |-> r.to, name |-> NameOf[r.to], form |-> "plain"]
      BY <3>1, <3>2
    <3> QED BY <3>3 DEF TypeMatches, Exact
  <2> QED BY <2>1, <2>2
<1>3. ASSUME r.role = "field", StoredText(r) # ResolveByImport(r) PROVE TypeMatches(StoredText(r))
  <2>1. PICK d \in Neighbour(r.from, NameOf[r.to]) :
          /\ StoredText(r) = [base |-> d, name |-> NameOf[r.to], form |-> "plain"]
          /\ r.form = "plain" /\ ~r.imported
    BY <1>3, SecondText
  <2>2. r.to \notin Nested
    BY <1>3, <2>1 DEF Misread
  <2>3. d = r.to
    BY <1>1, <2>1, <2>2 DEF Compiles
  <2> QED BY <2>1, <2>3 DEF TypeMatches, Exact
<1> QED BY <1>2, <1>3

-----------------------------------------------------------------------------
(* The inductive invariant.  Each part says what a step has left for the later *)
(* ones; the walk's part is the loop invariant of a breadth-first search: the  *)
(* frontier is what was reached last, and whatever is not reached yet depends  *)
(* on nothing below the frontier.                                              *)

Linked == pc \in {"linked", "asked", "walk", "done", "not_found"}
Walking == pc \in {"walk", "done"}

TextsFollow ==
  /\ source \in Sources
  /\ called = [r \in source |-> ResolveByImport(r)]
  /\ pc = "parsed" => stored = [r \in source |-> ResolveByImport(r)]
  /\ pc # "parsed" => stored = [r \in source |-> StoredText(r)]

EdgesFollow ==
  Linked =>
    edges = UNION {{<<r.from, t, EdgeKind(r.role)>> : t \in Candidates(stored[r]) \ {r.from}} :
                   r \in {q \in source : q.role \notin {"field", "call", "body"}}}

ViaFollows == Walking => via = [c \in Class |-> IF c \in targets THEN {} ELSE Via(c)]

Below(c) == {e[2] : e \in {f \in edges : f[1] = c}}

WalkInv ==
  Walking =>
    /\ depth >= 1
    /\ frontier = {c \in Class : depthOf[c] = depth}
    /\ \A c \in Class :
         /\ depthOf[c] <= depth
         /\ c \in targets => depthOf[c] = 0
         /\ c \notin targets => (depthOf[c] = 1 <=> via[c] # {})
         /\ depthOf[c] > 1 => /\ \E b \in Below(c) : depthOf[b] = depthOf[c] - 1
                              /\ \A b \in Below(c) : depthOf[b] = 0 \/ depthOf[b] >= depthOf[c] - 1
         /\ c \notin targets /\ depthOf[c] = 0 => \A b \in Below(c) : depthOf[b] \in {0, depth}

ReportFollows ==
  pc = "done" => /\ ~MayWiden
                 /\ impacted = [e \in Endpoint |-> Confidence(Owner[e])]

ImpactInv ==
  /\ TypeOK /\ TextsFollow /\ EdgesFollow /\ ViaFollows /\ WalkInv /\ ReportFollows

\* The texts depend on the references only.
LEMMA TextsStay ==
  ASSUME UNCHANGED source
  PROVE  TextsFollow <=>
           /\ source' \in Sources
           /\ called = [r \in source' |-> ResolveByImport(r)']
           /\ pc = "parsed" => stored = [r \in source' |-> ResolveByImport(r)']
           /\ pc # "parsed" => stored = [r \in source' |-> StoredText(r)']
BY DEF TextsFollow, StoredText, SamePackageText, ResolveByImport, Import

LEMMA ImpactInit == Init => ImpactInv
<1> SUFFICES ASSUME Init PROVE ImpactInv
  OBVIOUS
<1>1. source \in Sources /\ source \subseteq Reference
  BY ImpactAssumption DEF Init
<1>2. stored \in [source -> Text] /\ called \in [source -> Text]
  BY <1>1, TextNames DEF Init
<1>3. TypeOK
  BY <1>1, <1>2, ImpactAssumption DEF Init, TypeOK
<1> QED BY <1>1, <1>3 DEF Init, ImpactInv, TextsFollow, EdgesFollow, ViaFollows, WalkInv,
   ReportFollows, Linked, Walking

LEMMA ResolveStep ==
  ASSUME ImpactInv, ResolveSamePackageTypes
  PROVE  ImpactInv'
<1> USE DEF ImpactInv
<1>1. stored' = [r \in source |-> StoredText(r)]
  BY DEF ResolveSamePackageTypes, TextsFollow, StoredText, SamePackageRole
<1>2. stored' \in [source -> Text]
  BY <1>1, TextNames DEF TextsFollow
<1>3. TypeOK'
  BY <1>2 DEF ResolveSamePackageTypes, TypeOK
<1>4. TextsFollow'
  <2>1. ASSUME NEW r
        PROVE  ResolveByImport(r)' = ResolveByImport(r) /\ StoredText(r)' = StoredText(r)
    BY DEF ResolveSamePackageTypes, StoredText, SamePackageText, ResolveByImport, Import
  <2>2. pc' = "resolved" /\ source' = source /\ called' = called
    BY DEF ResolveSamePackageTypes
  <2> QED BY <1>1, <2>1, <2>2 DEF TextsFollow
<1> QED BY <1>3, <1>4 DEF ResolveSamePackageTypes, EdgesFollow, ViaFollows, WalkInv,
   ReportFollows, Linked, Walking

LEMMA LinkStep ==
  ASSUME ImpactInv, IndexClassDependencies
  PROVE  ImpactInv'
<1> USE DEF ImpactInv
<1>1. EdgesFollow' /\ TextsFollow'
  <2>1. EdgesFollow'
    BY DEF IndexClassDependencies, EdgesFollow, Linked
  <2>2. TextsFollow'
    BY TextsStay DEF IndexClassDependencies, TextsFollow
  <2> QED BY <2>1, <2>2
<1>2. edges' \subseteq Class \X Class \X {"inheritance", "field_injection", "method_param"}
  <2> SUFFICES ASSUME NEW r \in source, r.role \notin {"field", "call", "body"},
                      NEW t \in Candidates(stored[r])
               PROVE  <<r.from, t, EdgeKind(r.role)>>
                        \in Class \X Class \X {"inheritance", "field_injection", "method_param"}
    BY DEF IndexClassDependencies
  <2>1. r \in Reference /\ stored[r] \in Text
    BY DEF TypeOK
  <2>2. r.from \in Class /\ r.role \in Role
    BY <2>1, ReferenceType
  <2>3. EdgeKind(r.role) \in {"inheritance", "field_injection", "method_param"}
    BY <2>2 DEF EdgeKind, Role
  <2>4. t \in Class
    BY <2>1 DEF Candidates, Exact, Named, Text
  <2> QED BY <2>2, <2>3, <2>4
<1>3. TypeOK'
  BY <1>2 DEF IndexClassDependencies, TypeOK
<1> QED BY <1>1, <1>3 DEF IndexClassDependencies, ViaFollows, WalkInv, ReportFollows, Walking

LEMMA AskStep ==
  ASSUME ImpactInv, ResolveTargets
  PROVE  ImpactInv'
<1> USE DEF ImpactInv
<1>1. TypeOK'
  BY DEF ResolveTargets, TypeOK, Named
<1>2. pc' \in {"asked", "not_found"} /\ pc = "linked"
  BY DEF ResolveTargets
<1>3. TextsFollow'
  BY <1>2, TextsStay DEF ResolveTargets, TextsFollow
<1> QED BY <1>1, <1>2, <1>3 DEF ResolveTargets, EdgesFollow, ViaFollows, WalkInv,
   ReportFollows, Linked, Walking

Reason == {"inheritance", "field_injection", "method_param", "call", "field"}

LEMMA ViaType ==
  ASSUME TypeOK, NEW c \in Class
  PROVE  Via(c) \in SUBSET Reason
<1>1. \A e \in edges : e[3] \in {"inheritance", "field_injection", "method_param"}
  BY DEF TypeOK
<1> QED BY <1>1 DEF Via, Reason

LEMMA CollectStep ==
  ASSUME ImpactInv, CollectDirect
  PROVE  ImpactInv'
<1> USE DEF ImpactInv
<1>1. /\ pc = "asked" /\ pc' = "walk" /\ depth' = 1
      /\ via' = [c \in Class |-> IF c \in targets THEN {} ELSE Via(c)]
      /\ depthOf' = [c \in Class |-> IF via'[c] = {} THEN 0 ELSE 1]
      /\ frontier' = {c \in Class : via'[c] # {}}
      /\ UNCHANGED <<source, stored, called, edges, symbol, targets, impacted>>
  BY DEF CollectDirect
<1>2. TypeOK'
  <2>1. via' \in [Class -> SUBSET Reason]
    BY <1>1, ViaType
  <2>2. depthOf' \in [Class -> 0 .. MaxTransitiveDepth] /\ depth' \in 0 .. MaxTransitiveDepth
    BY <1>1, ImpactAssumption
  <2> QED BY <1>1, <2>1, <2>2 DEF TypeOK, Reason
<1>3. TextsFollow' /\ EdgesFollow' /\ ReportFollows'
  BY <1>1, TextsStay DEF TextsFollow, EdgesFollow, ReportFollows, Linked
<1>4. ViaFollows'
  BY <1>1 DEF ViaFollows, Via, TypeMatches, Exact
<1>5. \A c \in Class : depthOf'[c] = IF via'[c] = {} THEN 0 ELSE 1
  BY <1>1
<1>6. \A c \in targets : c \in Class => via'[c] = {}
  BY <1>1
<1>7. ASSUME NEW c \in Class, NEW b \in Below(c)'
      PROVE  depthOf'[b] \in {0, 1}
  <2>1. b \in Class
    BY <1>1 DEF Below, TypeOK
  <2> QED BY <1>5, <2>1
<1>8. WalkInv'
  <2>1. frontier' = {c \in Class : depthOf'[c] = depth'}
    BY <1>1, <1>5
  <2>2. \A c \in Class : depthOf'[c] \in {0, 1} /\ ~(depthOf'[c] > 1) /\ depthOf'[c] <= 1
    BY <1>5
  <2>3. \A c \in Class : /\ c \in targets => depthOf'[c] = 0
                         /\ depthOf'[c] = 1 <=> via'[c] # {}
    BY <1>5, <1>6
  <2>4. \A c \in Class : \A b \in Below(c)' : depthOf'[b] \in {0, 1}
    BY <1>7
  <2>7. ASSUME NEW c \in Class
        PROVE  /\ depthOf'[c] <= depth'
               /\ c \in targets' => depthOf'[c] = 0
               /\ c \notin targets' => (depthOf'[c] = 1 <=> via'[c] # {})
               /\ ~(depthOf'[c] > 1)
               /\ \A b \in Below(c)' : depthOf'[b] \in {0, depth'}
    <3>1. depthOf'[c] <= depth' /\ ~(depthOf'[c] > 1)
      BY <1>1, <2>2
    <3>2. targets' = targets
      BY <1>1
    <3>3. \A b \in Below(c)' : depthOf'[b] \in {0, depth'}
      BY <1>1, <2>4
    <3> QED BY <2>3, <3>1, <3>2, <3>3
  <2>8. depth' >= 1
    BY <1>1
  <2> QED BY <2>1, <2>7, <2>8 DEF WalkInv
<1> QED BY <1>2, <1>3, <1>4, <1>8

LEMMA WidenStep ==
  ASSUME ImpactInv, Widen
  PROVE  ImpactInv'
<1> USE DEF ImpactInv
<1> DEFINE next == NextFrontier
<1>1. /\ pc = "walk" /\ pc' = "walk" /\ depth < MaxTransitiveDepth /\ depth' = depth + 1
      /\ frontier' = next
      /\ depthOf' = [c \in Class |-> IF c \in next THEN depth + 1 ELSE depthOf[c]]
      /\ UNCHANGED <<source, stored, called, edges, symbol, targets, via, impacted>>
  BY DEF Widen, MayWiden
<1>2. /\ depth \in Nat /\ depth >= 1 /\ MaxTransitiveDepth \in Nat
      /\ \A c \in Class : depthOf[c] \in Nat
      /\ edges \subseteq Class \X Class \X {"inheritance", "field_injection", "method_param"}
  BY <1>1, ImpactAssumption DEF WalkInv, Walking, TypeOK
<1>3. \A c \in Class : c \in next <=> /\ c \notin targets /\ depthOf[c] = 0
                                     /\ \E b \in Below(c) : b \in frontier
  <2> SUFFICES ASSUME NEW c \in Class
               PROVE  (\E e \in edges : e[2] \in frontier /\ e[1] = c)
                        <=> \E b \in Below(c) : b \in frontier
    BY DEF NextFrontier, Dependents
  <2> QED BY DEF Below
<1>4. next \subseteq Class
  BY <1>2 DEF NextFrontier, Dependents
<1>5. TypeOK'
  <2>1. depthOf' \in [Class -> 0 .. MaxTransitiveDepth] /\ depth' \in 0 .. MaxTransitiveDepth
    BY <1>1, <1>2 DEF TypeOK
  <2> QED BY <1>1, <1>4, <2>1 DEF TypeOK
<1>6. TextsFollow' /\ EdgesFollow' /\ ReportFollows'
  BY <1>1, TextsStay DEF TextsFollow, EdgesFollow, ReportFollows, Linked
<1>7. ViaFollows'
  BY <1>1 DEF ViaFollows, Via, TypeMatches, Exact, Walking
<1>8. /\ \A c \in Class : depthOf'[c] = IF c \in next THEN depth + 1 ELSE depthOf[c]
      /\ \A c \in Class : Below(c)' = Below(c) /\ Below(c) \subseteq Class
  BY <1>1, <1>2 DEF Below
<1>9. /\ frontier = {c \in Class : depthOf[c] = depth}
      /\ \A c \in Class :
           /\ depthOf[c] <= depth
           /\ c \in targets => depthOf[c] = 0
           /\ c \notin targets => (depthOf[c] = 1 <=> via[c] # {})
           /\ depthOf[c] > 1 => /\ \E b \in Below(c) : depthOf[b] = depthOf[c] - 1
                                /\ \A b \in Below(c) : depthOf[b] = 0 \/ depthOf[b] >= depthOf[c] - 1
           /\ c \notin targets /\ depthOf[c] = 0 => \A b \in Below(c) : depthOf[b] \in {0, depth}
  BY <1>1 DEF WalkInv, Walking
<1>10. frontier' = {c \in Class : depthOf'[c] = depth'}
  BY <1>1, <1>2, <1>4, <1>8, <1>9
<1>11. ASSUME NEW c \in Class
       PROVE  /\ depthOf'[c] <= depth + 1
              /\ c \in targets => depthOf'[c] = 0
              /\ c \notin targets => (depthOf'[c] = 1 <=> via[c] # {})
  BY <1>2, <1>3, <1>8, <1>9
<1>12. ASSUME NEW c \in Class, depthOf'[c] > 1
       PROVE  /\ \E b \in Below(c) : depthOf'[b] = depthOf'[c] - 1
              /\ \A b \in Below(c) : depthOf'[b] = 0 \/ depthOf'[b] >= depthOf'[c] - 1
  <2>1. CASE c \in next
    <3>1. PICK b \in Below(c) : b \in frontier
      BY <1>3, <2>1
    <3>2. b \in Class /\ depthOf[b] = depth /\ b \notin next
      BY <1>2, <1>3, <1>8, <1>9, <3>1
    <3>3. depthOf'[b] = depthOf'[c] - 1
      BY <1>2, <1>8, <2>1, <3>2
    <3>4. \A a \in Below(c) : depthOf[a] \in {0, depth}
      BY <1>3, <1>9, <2>1
    <3>5. \A a \in Below(c) : depthOf'[a] = 0 \/ depthOf'[a] >= depthOf'[c] - 1
      BY <1>2, <1>8, <2>1, <3>4
    <3> QED BY <3>1, <3>3, <3>5
  <2>2. CASE c \notin next
    <3>1. depthOf'[c] = depthOf[c] /\ depthOf[c] > 1 /\ depthOf[c] <= depth
      BY <1>8, <1>9, <1>12, <2>2
    <3>2. PICK b \in Below(c) : depthOf[b] = depthOf[c] - 1
      BY <1>9, <3>1
    <3>3. b \in Class /\ b \notin next
      BY <1>2, <1>3, <1>8, <3>1, <3>2
    <3>4. depthOf'[b] = depthOf'[c] - 1
      BY <1>8, <3>1, <3>2, <3>3
    <3>5. \A a \in Below(c) : depthOf'[a] = 0 \/ depthOf'[a] >= depthOf'[c] - 1
      BY <1>2, <1>8, <1>9, <3>1
    <3> QED BY <3>2, <3>4, <3>5
  <2> QED BY <2>1, <2>2
<1>13. ASSUME NEW c \in Class, c \notin targets, depthOf'[c] = 0, NEW b \in Below(c)
       PROVE  depthOf'[b] \in {0, depth + 1}
  <2>1. c \notin next /\ depthOf[c] = 0
    BY <1>2, <1>8, <1>13
  <2>2. b \in Class /\ b \notin frontier /\ depthOf[b] \in {0, depth}
    BY <1>3, <1>8, <1>9, <1>13, <2>1
  <2>3. depthOf[b] = 0
    BY <1>9, <2>2
  <2> QED BY <1>8, <2>2, <2>3
<1>14. WalkInv'
  BY <1>1, <1>2, <1>8, <1>10, <1>11, <1>12, <1>13 DEF WalkInv, Walking
<1> QED BY <1>5, <1>6, <1>7, <1>14

LEMMA ReportStep ==
  ASSUME ImpactInv, Report
  PROVE  ImpactInv'
<1> USE DEF ImpactInv
<1>1. /\ pc = "walk" /\ pc' = "done" /\ ~MayWiden
      /\ impacted' = [e \in Endpoint |-> Confidence(Owner[e])]
      /\ UNCHANGED <<source, stored, called, edges, symbol, targets, via, depthOf, frontier, depth>>
  BY DEF Report
<1>2. \A c \in Class : Confidence(c) \in {"none", "low", "medium"}
  BY DEF Confidence
<1>3. TypeOK'
  BY <1>1, <1>2, ImpactAssumption DEF TypeOK
<1>4. TextsFollow' /\ EdgesFollow'
  BY <1>1, TextsStay DEF TextsFollow, EdgesFollow, Linked
<1>5. ViaFollows'
  BY <1>1 DEF ViaFollows, Via, TypeMatches, Exact, Walking
<1>6. WalkInv'
  BY <1>1 DEF WalkInv, Walking, Below
<1>7. ReportFollows'
  BY <1>1 DEF ReportFollows, MayWiden, Confidence
<1> QED BY <1>3, <1>4, <1>5, <1>6, <1>7

LEMMA ImpactInvariant == Spec => []ImpactInv
<1>1. ImpactInv /\ UNCHANGED vars => ImpactInv'
  <2> SUFFICES ASSUME ImpactInv, UNCHANGED vars PROVE ImpactInv'
    OBVIOUS
  <2>1. TextsFollow'
    BY TextsStay DEF vars, ImpactInv, TextsFollow
  <2> QED BY <2>1 DEF vars, ImpactInv, TypeOK, EdgesFollow, ViaFollows, Via, TypeMatches, Exact,
        WalkInv, ReportFollows, MayWiden, Confidence, Linked, Walking, Below
<1>2. ImpactInv /\ [Next]_vars => ImpactInv'
  BY <1>1, ResolveStep, LinkStep, AskStep, CollectStep, WidenStep, ReportStep DEF Next
<1> QED BY ImpactInit, <1>2, PTL DEF Spec
-----------------------------------------------------------------------------

\* A text that matches bears a target's simple name; a full name is a target's.
LEMMA MatchName ==
  ASSUME source \in Sources, targets \subseteq Class, NEW r \in source,
         NEW text, text = ResolveByImport(r) \/ text = StoredText(r), TypeMatches(text)
  PROVE  /\ NameOf[r.to] \in {NameOf[t] : t \in targets}
         /\ text = Full(r.to) /\ r.to \in Class => r.to \in targets
<1>1. /\ text.name = NameOf[r.to] /\ NoClass \notin Type
      /\ text.base # NoClass => NameOf[text.base] = NameOf[r.to]
  BY TextNames, ImpactAssumption
<1>2. CASE text.base # NoClass \/ text.form = "qualified"
  <2>1. Exact(text) /\ text.base \in targets
    BY <1>2 DEF TypeMatches
  <2>2. text.base # NoClass
    BY <1>1, <2>1 DEF Exact, Type
  <2> QED BY <1>1, <2>1, <2>2 DEF Full
<1>3. CASE ~(text.base # NoClass \/ text.form = "qualified")
  BY <1>1, <1>3 DEF TypeMatches, Full, Type
<1> QED BY <1>2, <1>3

\* What a walking scan knows of each of its references.
LEMMA ReferenceFacts ==
  ASSUME ImpactInv, Walking, NEW r \in source
  PROVE  /\ source \in Sources /\ r \in Reference /\ targets \subseteq Class
         /\ stored[r] = StoredText(r) /\ called[r] = ResolveByImport(r)
<1>1. source \in Sources /\ stored = [q \in source |-> StoredText(q)]
      /\ called = [q \in source |-> ResolveByImport(q)] /\ targets \subseteq Class
  BY DEF ImpactInv, TextsFollow, Walking, TypeOK
<1> QED BY <1>1, SourceType

\* java_indexer.py and impact.py: every class with a declaration that names a
\* changed one is a direct dependent, but for the forms NoDependentMissed lists.
LEMMA NobodyMissed == ImpactInv => NoDependentMissed
<1> SUFFICES ASSUME ImpactInv, Asked, NEW r \in source,
                    r.to \in targets, r.from \notin targets, r.role # "body", ~Misread(r),
                    r.role \in {"field", "call"} =>
                      r.form \in {"plain", "array"} \/ (r.form = "generic" /\ ~r.imported)
             PROVE  via[r.from] # {}
  BY DEF NoDependentMissed
<1>1. Walking
  BY DEF Asked, Walking
<1>2. /\ source \in Sources /\ r \in Reference /\ r.to \in Class
      /\ stored[r] = StoredText(r) /\ called[r] = ResolveByImport(r)
  BY <1>1, ReferenceFacts
<1>3. r.from \in Class /\ via[r.from] = Via(r.from)
  BY <1>1, <1>2, ReferenceType DEF ImpactInv, ViaFollows
<1>4. CASE r.role \in {"field", "call"}
  <2>1. IF r.role = "field" THEN TypeMatches(stored[r]) ELSE TypeMatches(called[r])
    BY <1>2, <1>4, MatchHit
  <2>2. "field" \in Via(r.from) \/ "call" \in Via(r.from)
    BY <1>4, <2>1 DEF Via
  <2> QED BY <1>3, <2>2
<1>5. CASE r.role \notin {"field", "call", "body"}
  <2>1. r.to # r.from /\ r.to \in Candidates(stored[r])
    BY <1>2, <1>5, CandidateHit
  <2>2. <<r.from, r.to, EdgeKind(r.role)>> \in edges
    BY <1>1, <1>5, <2>1 DEF ImpactInv, EdgesFollow, Linked, Walking
  <2>3. EdgeKind(r.role) \in Via(r.from)
    BY <2>2 DEF Via
  <2> QED BY <1>3, <2>3
<1> QED BY <1>4, <1>5

\* A reported class names a target, or only by a name the index cannot tell.
LEMMA NamesakesTold == ImpactInv => NamesakesAreTold
<1> DEFINE Named2(r) == \/ r.to \in targets
                        \/ ~Told(r) /\ NameOf[r.to] \in {NameOf[t] : t \in targets}
<1> SUFFICES ASSUME ImpactInv, Asked, NEW c \in Class, via[c] # {}
             PROVE  \E r \in source : r.from = c /\ r.role # "body" /\ Named2(r)
  BY DEF NamesakesAreTold
<1>1. Walking
  BY DEF Asked, Walking
<1>2. PICK why : why \in Via(c)
  BY <1>1 DEF ImpactInv, ViaFollows
<1>3. CASE \E e \in edges : e[1] = c /\ e[2] \in targets
  <2>1. PICK e \in edges : e[1] = c /\ e[2] \in targets
    BY <1>3
  <2>2. PICK r \in source : r.from = c /\ r.role # "body" /\ e[2] \in Candidates(stored[r])
    BY <1>1, <2>1 DEF ImpactInv, EdgesFollow, Linked, Walking
  <2>3. source \in Sources /\ stored[r] = StoredText(r)
    BY <1>1, ReferenceFacts
  <2>4. CASE Told(r)
    <3>1. stored[r] = Full(r.to) /\ r.to \in Class
      BY <2>3, <2>4, ToldText DEF Told
    <3>2. Candidates(stored[r]) = {r.to}
      BY <3>1 DEF Candidates, Exact, Full
    <3> QED BY <2>1, <2>2, <3>2
  <2>5. CASE ~Told(r)
    <3>1. /\ stored[r].name = NameOf[r.to]
          /\ stored[r].base # NoClass => NameOf[stored[r].base] = NameOf[r.to]
      BY <2>3, TextNames
    <3>2. NameOf[e[2]] = NameOf[r.to]
      BY <2>2, <3>1, ImpactAssumption DEF Candidates, Exact, Named, Type
    <3> QED BY <2>1, <2>2, <2>5, <3>2
  <2> QED BY <2>4, <2>5
<1>4. CASE \E r \in source : r.from = c /\ r.role = "call" /\ TypeMatches(called[r])
  <2>1. PICK r \in source : r.from = c /\ r.role = "call" /\ TypeMatches(called[r])
    BY <1>4
  <2>2. /\ source \in Sources /\ targets \subseteq Class /\ called[r] = ResolveByImport(r)
    BY <1>1, ReferenceFacts
  <2>3. /\ NameOf[r.to] \in {NameOf[t] : t \in targets}
        /\ called[r] = Full(r.to) /\ r.to \in Class => r.to \in targets
    BY <2>1, <2>2, MatchName
  <2>4. Told(r) => called[r] = Full(r.to) /\ r.to \in Class
    BY <2>1, <2>2, ToldText DEF Told
  <2> QED BY <2>1, <2>3, <2>4
<1>5. CASE \E r \in source : /\ r.from = c /\ r.role \in {"injected", "field", "call"}
                             /\ TypeMatches(stored[r])
  <2>1. PICK r \in source : /\ r.from = c /\ r.role \in {"injected", "field", "call"}
                            /\ TypeMatches(stored[r])
    BY <1>5
  <2>2. /\ source \in Sources /\ targets \subseteq Class /\ stored[r] = StoredText(r)
    BY <1>1, ReferenceFacts
  <2>3. /\ NameOf[r.to] \in {NameOf[t] : t \in targets}
        /\ stored[r] = Full(r.to) /\ r.to \in Class => r.to \in targets
    BY <2>1, <2>2, MatchName
  <2>4. Told(r) => stored[r] = Full(r.to) /\ r.to \in Class
    BY <2>2, ToldText DEF Told
  <2> QED BY <2>1, <2>3, <2>4
<1> QED
  <2>1. \/ \E e \in edges : e[1] = c /\ e[2] \in targets
        \/ \E r \in source : r.from = c /\ r.role = "call" /\ TypeMatches(called[r])
        \/ \E r \in source : /\ r.from = c /\ r.role \in {"injected", "field", "call"}
                             /\ TypeMatches(stored[r])
    BY <1>2 DEF Via
  <2> QED BY <1>3, <1>4, <1>5, <2>1

\* When the loop ends, the invariant of the search is what it has found.
LEMMA SearchIsDone == ImpactInv => HopsAreShortest
<1> SUFFICES ASSUME ImpactInv, pc = "done" PROVE HopsAreShortest
  BY DEF HopsAreShortest
<1>1. /\ \A c \in Class : depthOf[c] \in Nat
      /\ depth \in Nat /\ MaxTransitiveDepth \in Nat /\ depth <= MaxTransitiveDepth
      /\ \A c \in Class : Below(c) \subseteq Class
  BY ImpactAssumption DEF ImpactInv, TypeOK, Below
<1>2. frontier = {} \/ depth = MaxTransitiveDepth
  BY <1>1 DEF ImpactInv, ReportFollows, MayWiden
<1>3. /\ frontier = {c \in Class : depthOf[c] = depth}
      /\ \A c \in Class :
           /\ c \in targets => depthOf[c] = 0
           /\ c \notin targets => (depthOf[c] = 1 <=> via[c] # {})
           /\ depthOf[c] > 1 => /\ \E b \in Below(c) : depthOf[b] = depthOf[c] - 1
                                /\ \A b \in Below(c) : depthOf[b] = 0 \/ depthOf[b] >= depthOf[c] - 1
           /\ c \notin targets /\ depthOf[c] = 0 => \A b \in Below(c) : depthOf[b] \in {0, depth}
  BY DEF ImpactInv, WalkInv, Walking
<1>4. ASSUME NEW c \in Class, c \notin targets, depthOf[c] = 0, NEW b \in Below(c)
      PROVE  depthOf[b] \in {0, MaxTransitiveDepth}
  <2>1. b \in Class /\ depthOf[b] \in {0, depth}
    BY <1>1, <1>3, <1>4
  <2> QED BY <1>2, <1>3, <2>1
<1>5. ASSUME NEW c \in Class, NEW e \in Endpoint, Owner[e] = c
      PROVE  impacted[e] # "none" <=> c \in targets \/ depthOf[c] > 0
  <2>1. impacted[e] = Confidence(c) /\ depthOf[c] \in Nat
    BY <1>1, <1>5 DEF ImpactInv, ReportFollows
  <2> QED BY <1>3, <2>1 DEF Confidence
<1> QED BY <1>3, <1>4, <1>5 DEF HopsAreShortest, Below

-----------------------------------------------------------------------------

\* The variables keep their types: no class is ever put beyond the bound.
THEOREM TypeCorrect == Spec => []TypeOK
BY ImpactInvariant, PTL DEF ImpactInv

\* change_impact over the edges of java_indexer.py: no declaration that names the
\* changed class goes unnoticed, in any repository that compiles, but for a misread
\* name and the plain fields whose type is qualified or has arguments.
THEOREM EveryDependentIsFound == Spec => []NoDependentMissed
BY ImpactInvariant, NobodyMissed, PTL

\* A class with no reference to the changed one is reported only for a namesake
\* the stored text did not tell from it.
THEOREM OnlyTheBlurredAreConfused == Spec => []NamesakesAreTold
BY ImpactInvariant, NamesakesTold, PTL

\* The loop of change_impact is a breadth-first search: in any graph, with
\* cycles, for any bound.
THEOREM WalkFindsShortestChains == Spec => []HopsAreShortest
BY ImpactInvariant, SearchIsDone, PTL
=============================================================================
