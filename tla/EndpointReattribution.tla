------------------------ MODULE EndpointReattribution ------------------------
(***************************************************************************)
(* reattribute_interface_endpoints of scanner/java_indexer.py.  An         *)
(* endpoint row exists for every method that carries a mapping annotation. *)
(* The pass gives each controller that overrides an annotated interface    *)
(* method a row of its own, and hides ("supersedes") the interface's row   *)
(* once every controller it finds behind that interface is represented.    *)
(*                                                                         *)
(* The class graph is chosen in Init and never changes.  It is kept twice: *)
(* as Java means it, and as the rows of class_interface resolve, by name,  *)
(* to indexed classes.  A signature stands for a method's name and simple  *)
(* parameter types; the rows of all HTTP verbs of a method are one.        *)
(***************************************************************************)
EXTENDS Integers, FiniteSets

CONSTANTS
  Controller,  \* classes annotated @RestController or @Controller
  Interface,   \* every other type
  Sig,         \* method signatures
  Target       \* types a reference can resolve to

Type == Controller \cup Interface

ASSUME TypesAssumption ==
  /\ IsFiniteSet(Type)
  /\ Controller \cap Interface = {}
  /\ Target \subseteq Type

VARIABLES
  supertypes, \* [Controller -> SUBSET Interface]: all it is a subtype of in Java
  parents,    \* [Type -> SUBSET Target]: what its class_interface rows resolve to
  has,        \* [Type -> SUBSET Sig]: the methods it declares
  mapped,     \* those of them with a mapping annotation
  row,        \* [Type -> [Sig -> ...]]: the endpoint rows, by their handler
  covered,    \* [Type -> [Sig -> SUBSET Controller]]: controllers that represent it
  todo,       \* methods of controllers the loop has still to visit
  pending,    \* covered methods the last loop has still to decide on
  pc

graph == <<supertypes, parents, has, mapped>>
vars == <<graph, row, covered, todo, pending, pc>>

RowState == {"none", "visible", "superseded"}
Method == Type \X Sig

-----------------------------------------------------------------------------
(* Walking up the resolved links; references that name no indexed class, or  *)
(* more than one, and superclasses are not followed.                         *)

\* Types reached over n + 1 links.
Reached(t) ==
  LET up[n \in 0 .. Cardinality(Type)] ==
        IF n = 0 THEN parents[t] ELSE UNION {parents[u] : u \in up[n - 1]}
  IN  up

Ancestors(t) == {u \in Target : \E n \in 0 .. Cardinality(Type) : u \in Reached(t)[n]}

\* Ancestors whose mapped method a breadth-first walk can find first.
NearestMapped(t, s) ==
  LET at(n) == {u \in Reached(t)[n] : s \in mapped[u]}
  IN  {u \in Ancestors(t) : \E n \in 0 .. Cardinality(Type) :
         u \in at(n) /\ \A k \in 0 .. n - 1 : at(k) = {}}

Implementors(t) == {c \in Controller : t \in Ancestors(c)}

-----------------------------------------------------------------------------
\* No ancestor method is mapped: the method stays as it was indexed.
VisitUnrelated(c, s) ==
  /\ pc = "visit" /\ <<c, s>> \in todo
  /\ NearestMapped(c, s) = {}
  /\ todo' = todo \ {<<c, s>>}
  /\ UNCHANGED <<graph, row, covered, pending, pc>>

\* Mutant: a controller with its own mapping does not count as covering.
VisitOwnMappingUncounted(c, s) ==
  /\ pc = "visit" /\ <<c, s>> \in todo
  /\ s \in mapped[c]
  /\ todo' = todo \ {<<c, s>>}
  /\ UNCHANGED <<graph, row, covered, pending, pc>>

\* An override with a mapping of its own was indexed from it; it represents
\* the ancestor's method.
VisitOwnMapping(c, s) ==
  /\ pc = "visit" /\ <<c, s>> \in todo
  /\ s \in mapped[c]
  /\ \E src \in NearestMapped(c, s) :
       covered' = [covered EXCEPT ![src][s] = @ \cup {c}]
  /\ todo' = todo \ {<<c, s>>}
  /\ UNCHANGED <<graph, row, pending, pc>>

\* A plain override gets a row of its own.
Reattribute(c, s) ==
  /\ pc = "visit" /\ <<c, s>> \in todo
  /\ s \notin mapped[c]
  /\ \E src \in NearestMapped(c, s) :
       covered' = [covered EXCEPT ![src][s] = @ \cup {c}]
  /\ row' = [row EXCEPT ![c][s] = "visible"]
  /\ todo' = todo \ {<<c, s>>}
  /\ UNCHANGED <<graph, pending, pc>>

\* Mutant: the last loop goes over every method, also those nobody covers.
AllVisitedAnyMethod ==
  /\ pc = "visit" /\ todo = {}
  /\ pc' = "supersede"
  /\ pending' = Method
  /\ UNCHANGED <<graph, row, covered, todo>>

\* The methods some controller covers are decided on.
AllVisited ==
  /\ pc = "visit" /\ todo = {}
  /\ pc' = "supersede"
  /\ pending' = {m \in Method : covered[m[1]][m[2]] # {}}
  /\ UNCHANGED <<graph, row, covered, todo>>

\* Mutant: one controller is enough.
FullyCoveredByOne(t, s) == Implementors(t) \cap covered[t][s] # {}

\* Every controller the walk finds behind the method's owner represents it.
FullyCovered(t, s) == Implementors(t) \subseteq covered[t][s]

Decide(t, s) ==
  /\ pc = "supersede" /\ <<t, s>> \in pending
  /\ pending' = pending \ {<<t, s>>}
  /\ row' = IF FullyCovered(t, s) THEN [row EXCEPT ![t][s] = "superseded"] ELSE row
  /\ UNCHANGED <<graph, covered, todo, pc>>

Commit ==
  /\ pc = "supersede" /\ pending = {}
  /\ pc' = "done"
  /\ UNCHANGED <<graph, row, covered, todo, pending>>

\* Any classes; the rows are those of the parse.
Init ==
  /\ supertypes \in [Controller -> SUBSET Interface]
  /\ parents \in [Type -> SUBSET Target]
  /\ has \in [Type -> SUBSET Sig]
  /\ mapped \in [Type -> SUBSET Sig]
  /\ \A t \in Type : mapped[t] \subseteq has[t]
  /\ row = [t \in Type |-> [s \in Sig |-> IF s \in mapped[t] THEN "visible" ELSE "none"]]
  /\ covered = [t \in Type |-> [s \in Sig |-> {}]]
  /\ todo = {m \in Controller \X Sig : m[2] \in has[m[1]]}
  /\ pending = {}
  /\ pc = "visit"

Next ==
  \/ \E c \in Controller, s \in Sig :
       VisitUnrelated(c, s) \/ VisitOwnMapping(c, s) \/ Reattribute(c, s)
  \/ AllVisited
  \/ \E t \in Type, s \in Sig : Decide(t, s)
  \/ Commit

Spec == Init /\ [][Next]_vars

-----------------------------------------------------------------------------
(* Properties *)

TypeOK ==
  /\ supertypes \in [Controller -> SUBSET Interface]
  /\ parents \in [Type -> SUBSET Target]
  /\ has \in [Type -> SUBSET Sig] /\ mapped \in [Type -> SUBSET Sig]
  /\ row \in [Type -> [Sig -> RowState]]
  /\ covered \in [Type -> [Sig -> SUBSET Controller]]
  /\ todo \subseteq Controller \X Sig
  /\ pending \subseteq Method
  /\ pc \in {"visit", "supersede", "done"}

\* A controller the walk finds behind a mapped interface method is served by a
\* row of its own or by the interface's, however many siblings, hops and
\* diamonds lie between them: hiding the shared row never strands a sibling.
ImplementorsRepresented ==
  \A i \in Interface, s \in Sig :
    row[i][s] = "superseded" => \A c \in Implementors(i) : row[c][s] = "visible"

\* The same of every controller that is a subtype of the interface in Java.
EveryControllerRepresented ==
  \A i \in Interface, s \in Sig : row[i][s] = "superseded" =>
    \A c \in Controller : i \in supertypes[c] => row[c][s] = "visible"

\* A method all of whose controllers override it, and find it first, does not
\* linger as a phantom endpoint next to theirs.
NoPhantomEndpoint ==
  pc = "done" =>
    \A i \in Interface : \A s \in mapped[i] :
      (/\ Implementors(i) # {}
       /\ \A c \in Implementors(i) : s \in has[c] /\ NearestMapped(c, s) = {i})
        => row[i][s] = "superseded"

\* A controller's own annotated handler is served.
OwnMappingServed ==
  \A c \in Controller : \A s \in mapped[c] : row[c][s] = "visible"

=============================================================================
