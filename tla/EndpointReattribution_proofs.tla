--------------------- MODULE EndpointReattribution_proofs ---------------------
(* For any number of classes, links and signatures: hiding a shared          *)
(* interface row strands no controller, as long as no reference resolves to  *)
(* a controller.                                                             *)
EXTENDS EndpointReattribution, TLAPS

\* The ancestors of a type are types its references resolve to.
LEMMA AncestorsAreTargets ==
  /\ \A t : Ancestors(t) \subseteq Target
  /\ \A t, s : NearestMapped(t, s) \subseteq Ancestors(t)
  BY DEF Ancestors, NearestMapped

-----------------------------------------------------------------------------
\* The program's variables keep their types.
THEOREM TypeCorrect == Spec => []TypeOK
<1>1. Init => TypeOK
  BY DEF Init, TypeOK, RowState, Type
<1>2. TypeOK /\ [Next]_vars => TypeOK'
  <2> SUFFICES ASSUME TypeOK, [Next]_vars PROVE TypeOK'
    OBVIOUS
  <2> USE DEF TypeOK
  <2>1. ASSUME NEW c \in Controller, NEW s \in Sig, VisitUnrelated(c, s)
        PROVE TypeOK'
    BY <2>1 DEF VisitUnrelated, graph
  <2>2. ASSUME NEW c \in Controller, NEW s \in Sig, VisitOwnMapping(c, s)
        PROVE TypeOK'
    <3>1. NearestMapped(c, s) \subseteq Type
      BY AncestorsAreTargets, TypesAssumption
    <3> QED
      BY <2>2, <3>1 DEF VisitOwnMapping, graph
  <2>3. ASSUME NEW c \in Controller, NEW s \in Sig, Reattribute(c, s)
        PROVE TypeOK'
    <3>1. NearestMapped(c, s) \subseteq Type
      BY AncestorsAreTargets, TypesAssumption
    <3>2. covered' \in [Type -> [Sig -> SUBSET Controller]]
      BY <2>3, <3>1 DEF Reattribute
    <3>3. row' \in [Type -> [Sig -> RowState]]
      BY <2>3 DEF Reattribute, RowState, Type
    <3> QED
      BY <2>3, <3>2, <3>3 DEF Reattribute, graph
  <2>4. CASE AllVisited
    BY <2>4 DEF AllVisited, graph, Method
  <2>5. ASSUME NEW t \in Type, NEW s \in Sig, Decide(t, s)
        PROVE TypeOK'
    BY <2>5 DEF Decide, graph, RowState
  <2>6. CASE Commit
    BY <2>6 DEF Commit, graph
  <2>7. CASE UNCHANGED vars
    BY <2>7 DEF vars, graph
  <2> QED
    BY <2>1, <2>2, <2>3, <2>4, <2>5, <2>6, <2>7 DEF Next
<1> QED
  BY <1>1, <1>2, PTL DEF Spec

-----------------------------------------------------------------------------
(* Only interface rows are covered, decided on and hidden, and whoever       *)
(* covers one has a visible row of its own.                                  *)

CoveredByRow ==
  \A t \in Type, s \in Sig : \A c \in covered[t][s] :
    t \in Interface /\ row[c][s] = "visible"

PendingAreInterfaces == \A m \in pending : m[1] \in Interface

HiddenIsCovered ==
  \A t \in Type, s \in Sig : row[t][s] = "superseded" =>
    t \in Interface /\ Implementors(t) \subseteq covered[t][s]

RepresentedInv ==
  TypeOK /\ CoveredByRow /\ PendingAreInterfaces /\ HiddenIsCovered /\ OwnMappingServed

\* The graph is constant, so what the walk finds is.
LEMMA WalkIsConstant ==
  ASSUME UNCHANGED graph
  PROVE  /\ \A t : Implementors(t)' = Implementors(t)
         /\ mapped' = mapped
  BY DEF graph, Implementors, Ancestors, Reached

LEMMA RepresentedInit == Init => RepresentedInv
<1> SUFFICES ASSUME Init PROVE RepresentedInv
  OBVIOUS
<1>1. TypeOK
  BY DEF Init, TypeOK, RowState, Type
<1>2. CoveredByRow /\ PendingAreInterfaces /\ HiddenIsCovered
  BY DEF Init, CoveredByRow, PendingAreInterfaces, HiddenIsCovered, Type
<1>3. OwnMappingServed
  BY DEF Init, OwnMappingServed, Type
<1> QED
  BY <1>1, <1>2, <1>3 DEF RepresentedInv

\* A visit adds one controller with a visible row to what covers an interface.
LEMMA RepresentedVisit ==
  ASSUME Target \subseteq Interface,
         RepresentedInv, TypeOK', UNCHANGED <<graph, pending>>,
         NEW c \in Controller, NEW s \in Sig, NEW src \in NearestMapped(c, s),
         covered' = [covered EXCEPT ![src][s] = @ \cup {c}],
         \/ row' = row /\ s \in mapped[c]
         \/ row' = [row EXCEPT ![c][s] = "visible"]
  PROVE  RepresentedInv'
<1>1. /\ src \in Interface /\ src \in Type /\ c \in Type
      /\ c \notin Interface
  BY AncestorsAreTargets, TypesAssumption DEF Type
<1>2. /\ row'[c][s] = "visible"
      /\ \A t \in Type, z \in Sig : row'[t][z] = row[t][z] \/ (t = c /\ z = s)
  BY <1>1 DEF RepresentedInv, TypeOK, OwnMappingServed
<1>3. \A t \in Type, z \in Sig :
        covered'[t][z] = IF t = src /\ z = s THEN covered[t][z] \cup {c}
                                             ELSE covered[t][z]
  BY <1>1 DEF RepresentedInv, TypeOK
<1>4. CoveredByRow'
  <2> SUFFICES ASSUME NEW t \in Type, NEW z \in Sig, NEW d \in covered'[t][z]
               PROVE  t \in Interface /\ row'[d][z] = "visible"
    BY DEF CoveredByRow
  <2>1. CASE d \in covered[t][z]
    <3>1. t \in Interface /\ row[d][z] = "visible" /\ d \in Type
      BY <2>1 DEF RepresentedInv, CoveredByRow, TypeOK, Type
    <3> QED
      BY <3>1, <1>2
  <2>2. CASE d \notin covered[t][z]
    BY <2>2, <1>1, <1>2, <1>3
  <2> QED
    BY <2>1, <2>2
<1>5. HiddenIsCovered'
  BY <1>1, <1>2, <1>3, WalkIsConstant DEF RepresentedInv, HiddenIsCovered
<1>6. PendingAreInterfaces'
  BY DEF RepresentedInv, PendingAreInterfaces
<1>7. OwnMappingServed'
  <2>1. \A d \in Controller : \A z \in mapped[d] : d \in Type /\ z \in Sig
    BY DEF RepresentedInv, TypeOK, Type
  <2>2. mapped' = mapped
    BY WalkIsConstant
  <2> QED
    BY <1>2, <2>1, <2>2 DEF RepresentedInv, OwnMappingServed
<1> QED
  BY <1>4, <1>5, <1>6, <1>7 DEF RepresentedInv

LEMMA RepresentedStep ==
  ASSUME Target \subseteq Interface, RepresentedInv, TypeOK', [Next]_vars
  PROVE  RepresentedInv'
<1> USE DEF RepresentedInv
<1>1. ASSUME UNCHANGED <<graph, row, covered>>, PendingAreInterfaces'
      PROVE  RepresentedInv'
  BY <1>1, WalkIsConstant DEF CoveredByRow, HiddenIsCovered, OwnMappingServed
<1>2. ASSUME NEW c \in Controller, NEW s \in Sig, VisitUnrelated(c, s)
      PROVE  RepresentedInv'
  BY <1>2, <1>1 DEF VisitUnrelated, PendingAreInterfaces
<1>3. ASSUME NEW c \in Controller, NEW s \in Sig, VisitOwnMapping(c, s)
      PROVE  RepresentedInv'
  BY <1>3, RepresentedVisit DEF VisitOwnMapping
<1>4. ASSUME NEW c \in Controller, NEW s \in Sig, Reattribute(c, s)
      PROVE  RepresentedInv'
  BY <1>4, RepresentedVisit DEF Reattribute
<1>5. CASE AllVisited
  <2>1. PendingAreInterfaces'
    BY <1>5 DEF AllVisited, PendingAreInterfaces, CoveredByRow, Method
  <2> QED
    BY <1>5, <1>1, <2>1 DEF AllVisited
<1>6. ASSUME NEW t \in Type, NEW s \in Sig, Decide(t, s)
      PROVE  RepresentedInv'
  <2>1. t \in Interface /\ t \notin Controller
    BY <1>6, TypesAssumption DEF Decide, PendingAreInterfaces
  <2>2. \A u \in Type, z \in Sig :
          row'[u][z] = row[u][z] \/ (u = t /\ z = s /\ FullyCovered(t, s))
    BY <1>6 DEF Decide, TypeOK
  <2>3. PendingAreInterfaces'
    BY <1>6 DEF Decide, PendingAreInterfaces
  <2>4. CoveredByRow'
    BY <1>6, <2>1, <2>2 DEF Decide, CoveredByRow, TypeOK, Type
  <2>5. HiddenIsCovered'
    BY <1>6, <2>1, <2>2, WalkIsConstant DEF Decide, HiddenIsCovered, FullyCovered
  <2>6. OwnMappingServed'
    BY <1>6, <2>1, <2>2, WalkIsConstant DEF Decide, OwnMappingServed, TypeOK, Type
  <2> QED
    BY <2>3, <2>4, <2>5, <2>6
<1>7. CASE Commit
  BY <1>7, <1>1 DEF Commit, PendingAreInterfaces
<1>8. CASE UNCHANGED vars
  BY <1>8, <1>1 DEF vars, PendingAreInterfaces
<1> QED
  BY <1>2, <1>3, <1>4, <1>5, <1>6, <1>7, <1>8 DEF Next

LEMMA RepresentedInvariant ==
  ASSUME Target \subseteq Interface
  PROVE  Spec => []RepresentedInv
<1>1. RepresentedInv /\ TypeOK' /\ [Next]_vars => RepresentedInv'
  BY RepresentedStep
<1> QED
  BY <1>1, RepresentedInit, TypeCorrect, PTL DEF Spec

-----------------------------------------------------------------------------
\* Any controller the walk finds behind a hidden interface row has a visible
\* row of its own, in every class graph in which references resolve to types
\* that are not controllers.
THEOREM HidingStrandsNobody ==
  ASSUME Target \subseteq Interface
  PROVE  Spec => []ImplementorsRepresented
<1>1. RepresentedInv => ImplementorsRepresented
  BY DEF RepresentedInv, ImplementorsRepresented, HiddenIsCovered, CoveredByRow, Type
<1> QED
  BY <1>1, RepresentedInvariant, PTL

\* The walk finds every subtype link there is in Java: each reference on the way
\* names one indexed class, and no link leads over a superclass.
LinksFound == \A c \in Controller : supertypes[c] \subseteq Ancestors(c)

LEMMA LinksStayFound ==
  ASSUME LinksFound, [Next]_vars
  PROVE  LinksFound'
<1>1. UNCHANGED graph
  BY DEF Next, VisitUnrelated, VisitOwnMapping, Reattribute, AllVisited, Decide, Commit, vars
<1>2. supertypes' = supertypes /\ \A t : Ancestors(t)' = Ancestors(t)
  BY <1>1 DEF graph, Ancestors, Reached
<1> QED
  BY <1>2 DEF LinksFound

\* The comment at java_indexer.py:699-705, that the row stays while a controller is
\* not represented: true of every controller in Java's sense, if every link is found.
THEOREM FoundLinksStrandNobody ==
  ASSUME Target \subseteq Interface
  PROVE  Spec /\ LinksFound => []EveryControllerRepresented
<1>1. TypeOK /\ LinksFound /\ ImplementorsRepresented => EveryControllerRepresented
  <2> SUFFICES ASSUME TypeOK, LinksFound, ImplementorsRepresented, NEW i \in Interface, NEW s \in Sig,
                      row[i][s] = "superseded", NEW c \in Controller, i \in supertypes[c]
               PROVE  row[c][s] = "visible"
    BY DEF EveryControllerRepresented
  <2>1. c \in Implementors(i)
    BY DEF LinksFound, Implementors
  <2> QED
    BY <2>1 DEF ImplementorsRepresented
<1>2. LinksFound /\ [Next]_vars => LinksFound'
  BY LinksStayFound
<1>3. Spec => []ImplementorsRepresented
  BY HidingStrandsNobody
<1> QED
  BY TypeCorrect, <1>1, <1>2, <1>3, PTL DEF Spec

\* Under the same assumption a controller's own annotated handlers are served.
THEOREM OwnMappingIsServed ==
  ASSUME Target \subseteq Interface
  PROVE  Spec => []OwnMappingServed
<1>1. RepresentedInv => OwnMappingServed
  BY DEF RepresentedInv
<1> QED
  BY <1>1, RepresentedInvariant, PTL

-----------------------------------------------------------------------------
(* Completeness: what every controller overrides is decided on and hidden.   *)

\* Every controller behind the method overrides it and finds it first.
Overridden(i, s) ==
  /\ s \in mapped[i] /\ Implementors(i) # {}
  /\ \A c \in Implementors(i) : s \in has[c] /\ NearestMapped(c, s) = {i}

\* An overriding controller is still to be visited or covers the method; then
\* the method is still to be decided on, or hidden.
PhantomInv ==
  \A i \in Interface, s \in Sig : Overridden(i, s) =>
    /\ pc = "visit" => \A c \in Implementors(i) : <<c, s>> \in todo \/ c \in covered[i][s]
    /\ pc = "supersede" => /\ FullyCovered(i, s)
                           /\ <<i, s>> \in pending \/ row[i][s] = "superseded"
    /\ pc = "done" => row[i][s] = "superseded"

LEMMA OverriddenIsConstant ==
  ASSUME UNCHANGED graph
  PROVE  \A i, s : /\ Overridden(i, s)' = Overridden(i, s)
                   /\ Implementors(i)' = Implementors(i)
  BY DEF graph, Overridden, NearestMapped, Implementors, Ancestors, Reached

LEMMA PhantomStep ==
  ASSUME TypeOK, PhantomInv, [Next]_vars
  PROVE  PhantomInv'
<1> SUFFICES ASSUME NEW i \in Interface, NEW s \in Sig, Overridden(i, s)'
             PROVE  /\ pc' = "visit" => \A c \in Implementors(i)' : <<c, s>> \in todo' \/ c \in covered'[i][s]
                    /\ pc' = "supersede" => /\ FullyCovered(i, s)'
                                            /\ <<i, s>> \in pending' \/ row'[i][s] = "superseded"
                    /\ pc' = "done" => row'[i][s] = "superseded"
  BY DEF PhantomInv
<1>1. UNCHANGED graph
  BY DEF Next, VisitUnrelated, VisitOwnMapping, Reattribute, AllVisited, Decide, Commit, vars
<1>2. Overridden(i, s) /\ Implementors(i)' = Implementors(i)
  BY <1>1, OverriddenIsConstant
<1>3. /\ pc = "visit" => \A c \in Implementors(i) : <<c, s>> \in todo \/ c \in covered[i][s]
      /\ pc = "supersede" => /\ FullyCovered(i, s)
                             /\ <<i, s>> \in pending \/ row[i][s] = "superseded"
      /\ pc = "done" => row[i][s] = "superseded"
  BY <1>2 DEF PhantomInv
<1>4. i \in Type /\ i \notin Controller
  BY TypesAssumption DEF Type
<1>5. ASSUME NEW d \in Controller, NEW z \in Sig,
             VisitUnrelated(d, z) \/ VisitOwnMapping(d, z) \/ Reattribute(d, z)
      PROVE  pc' = "visit" /\ \A c \in Implementors(i)' : <<c, s>> \in todo' \/ c \in covered'[i][s]
  <2>1. pc = "visit" /\ pc' = "visit" /\ todo' = todo \ {<<d, z>>}
    BY <1>5 DEF VisitUnrelated, VisitOwnMapping, Reattribute
  <2>2. covered[i][s] \subseteq covered'[i][s]
    <3>1. CASE covered' = covered
      BY <3>1
    <3>2. CASE \E src \in NearestMapped(d, z) : covered' = [covered EXCEPT ![src][z] = @ \cup {d}]
      BY <3>2, <1>4 DEF TypeOK
    <3> QED
      BY <1>5, <3>1, <3>2 DEF VisitUnrelated, VisitOwnMapping, Reattribute
  <2>3. ASSUME d \in Implementors(i), z = s PROVE d \in covered'[i][s]
    <3>1. NearestMapped(d, z) = {i}
      BY <1>2, <2>3 DEF Overridden
    <3>2. covered' = [covered EXCEPT ![i][s] = @ \cup {d}]
      BY <1>5, <2>3, <3>1 DEF VisitUnrelated, VisitOwnMapping, Reattribute
    <3> QED
      BY <1>4, <3>2 DEF TypeOK
  <2> QED
    BY <1>2, <1>3, <2>1, <2>2, <2>3
<1>6. CASE AllVisited
  <2>1. /\ pc = "visit" /\ todo = {} /\ pc' = "supersede" /\ UNCHANGED covered
        /\ pending' = {m \in Method : covered[m[1]][m[2]] # {}}
    BY <1>6 DEF AllVisited
  <2>2. Implementors(i) \subseteq covered[i][s] /\ covered[i][s] # {}
    BY <1>2, <1>3, <2>1 DEF Overridden
  <2>3. <<i, s>> \in pending'
    BY <1>4, <2>1, <2>2 DEF Method
  <2> QED
    BY <1>2, <2>1, <2>2, <2>3 DEF FullyCovered
<1>7. ASSUME NEW t \in Type, NEW z \in Sig, Decide(t, z)
      PROVE  /\ pc' = "supersede" /\ FullyCovered(i, s)'
             /\ <<i, s>> \in pending' \/ row'[i][s] = "superseded"
  <2>1. /\ pc = "supersede" /\ pc' = "supersede" /\ UNCHANGED covered
        /\ pending' = pending \ {<<t, z>>}
        /\ row' = IF FullyCovered(t, z) THEN [row EXCEPT ![t][z] = "superseded"] ELSE row
    BY <1>7 DEF Decide
  <2>2. FullyCovered(i, s) /\ FullyCovered(i, s)'
    BY <1>2, <1>3, <2>1 DEF FullyCovered
  <2>3. CASE t = i /\ z = s
    BY <1>4, <2>1, <2>2, <2>3 DEF TypeOK
  <2>4. CASE ~(t = i /\ z = s)
    <3>1. row'[i][s] = row[i][s]
      BY <1>4, <2>1, <2>4 DEF TypeOK
    <3> QED
      BY <1>3, <2>1, <2>2, <2>4, <3>1
  <2> QED
    BY <2>1, <2>2, <2>3, <2>4
<1>8. CASE Commit
  BY <1>3, <1>8 DEF Commit
<1>9. CASE UNCHANGED vars
  BY <1>2, <1>3, <1>9 DEF vars, FullyCovered
<1> QED
  BY <1>5, <1>6, <1>7, <1>8, <1>9 DEF Next

\* reattribute_interface_endpoints: a shared row whose every controller
\* overrides it does not linger, in any class graph, and whatever the order in
\* which controllers are visited.
THEOREM NoPhantomLingers == Spec => []NoPhantomEndpoint
<1>1. Init => PhantomInv
  <2> SUFFICES ASSUME Init, NEW i \in Interface, NEW s \in Sig, Overridden(i, s), NEW c \in Implementors(i)
               PROVE  <<c, s>> \in todo
    BY DEF Init, PhantomInv
  <2>1. c \in Controller /\ s \in has[c]
    BY DEF Overridden, Implementors
  <2> QED
    BY <2>1 DEF Init
<1>2. TypeOK /\ PhantomInv /\ [Next]_vars => PhantomInv'
  BY PhantomStep
<1>3. TypeOK /\ PhantomInv => NoPhantomEndpoint
  <2> SUFFICES ASSUME TypeOK, PhantomInv, pc = "done", NEW i \in Interface, NEW s \in mapped[i],
                      Implementors(i) # {},
                      \A c \in Implementors(i) : s \in has[c] /\ NearestMapped(c, s) = {i}
               PROVE  row[i][s] = "superseded"
    BY DEF NoPhantomEndpoint
  <2>1. s \in Sig
    BY DEF TypeOK, Type
  <2> QED
    BY <2>1 DEF PhantomInv, Overridden
<1> QED
  BY <1>1, <1>2, <1>3, TypeCorrect, PTL DEF Spec

=============================================================================
