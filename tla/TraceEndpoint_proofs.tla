-------------------------- MODULE TraceEndpoint_proofs --------------------------
EXTENDS TraceEndpoint, FiniteSetTheorems, SequenceTheorems,
  WellFoundedInduction, TLAPS

\* A set of numbers holds its least one.
LEMMA LessIsWellFounded ==
  \E R : IsWellFoundedOn(R, Nat) /\ \A x, y \in Nat : y < x => <<y, x>> \in R
<1>1. IsWellFoundedOn(OpToRel(<, Nat), Nat)
  BY NatLessThanWellFounded
<1>2. \A x, y \in Nat : y < x => <<y, x>> \in OpToRel(<, Nat)
  BY DEF OpToRel
<1> QED
  BY <1>1, <1>2, Zenon

LEMMA LeastIsIn ==
  ASSUME NEW I \in SUBSET Nat, I # {}
  PROVE  Min(I) \in I
<1>1. PICK R : IsWellFoundedOn(R, Nat) /\ \A x, y \in Nat : y < x => <<y, x>> \in R
  BY LessIsWellFounded
<1>2. PICK x \in I : \A y \in I : <<y, x>> \notin R
  BY <1>1, WFMin
<1>3. \A y \in I : ~(y < x)
  BY <1>1, <1>2, Zenon
<1>4. \A y \in I : x <= y
  BY <1>3
<1> QED
  BY <1>4 DEF Min

\* What SelectInSeq finds with each of the tests of the module.
LEMMA FirstService ==
  ASSUME NEW X, NEW s \in Seq(X)
  PROVE  IF SelectInSeq(s, IsService) = 0
         THEN \A k \in DOMAIN s : ~IsService(s[k])
         ELSE SelectInSeq(s, IsService) \in DOMAIN s /\ IsService(s[SelectInSeq(s, IsService)])
<1> DEFINE I == {i \in 1 .. Len(s) : IsService(s[i])}
<1>1. I \in SUBSET Nat
  OBVIOUS
<1> HIDE DEF I
<1>2. I # {} => Min(I) \in I
  BY <1>1, LeastIsIn
<1>3. SelectInSeq(s, IsService) = IF I # {} THEN Min(I) ELSE 0
  BY DEF SelectInSeq, I
<1> QED
  BY <1>2, <1>3 DEF I

LEMMA FirstHelper ==
  ASSUME NEW X, NEW s \in Seq(X)
  PROVE  IF SelectInSeq(s, Delegates) = 0
         THEN \A k \in DOMAIN s : ~Delegates(s[k])
         ELSE SelectInSeq(s, Delegates) \in DOMAIN s /\ Delegates(s[SelectInSeq(s, Delegates)])
<1> DEFINE I == {i \in 1 .. Len(s) : Delegates(s[i])}
<1>1. I \in SUBSET Nat
  OBVIOUS
<1> HIDE DEF I
<1>2. I # {} => Min(I) \in I
  BY <1>1, LeastIsIn
<1>3. SelectInSeq(s, Delegates) = IF I # {} THEN Min(I) ELSE 0
  BY DEF SelectInSeq, I
<1> QED
  BY <1>2, <1>3 DEF I

LEMMA FirstPersisting ==
  ASSUME NEW X, NEW s \in Seq(X)
  PROVE  IF SelectInSeq(s, Persists) = 0
         THEN \A k \in DOMAIN s : ~Persists(s[k])
         ELSE SelectInSeq(s, Persists) \in DOMAIN s /\ Persists(s[SelectInSeq(s, Persists)])
<1> DEFINE I == {i \in 1 .. Len(s) : Persists(s[i])}
<1>1. I \in SUBSET Nat
  OBVIOUS
<1> HIDE DEF I
<1>2. I # {} => Min(I) \in I
  BY <1>1, LeastIsIn
<1>3. SelectInSeq(s, Persists) = IF I # {} THEN Min(I) ELSE 0
  BY DEF SelectInSeq, I
<1> QED
  BY <1>2, <1>3 DEF I

\* The weakest of some levels is one of them, and "high" only if all are.
LEMMA WeakestLevel ==
  ASSUME NEW S \in SUBSET Level, S # {}
  PROVE  MinConfidence(S) \in S /\ (MinConfidence(S) = "high" => S = {"high"})
<1>1. \E l \in S : \A k \in S : Rank(l) <= Rank(k)
  <2>1. CASE "low" \in S
    BY <2>1 DEF Level, Rank
  <2>2. CASE "low" \notin S /\ "medium" \in S
    BY <2>2 DEF Level, Rank
  <2>3. CASE "low" \notin S /\ "medium" \notin S
    BY <2>3 DEF Level, Rank
  <2> QED
    BY <2>1, <2>2, <2>3
<1> DEFINE l == MinConfidence(S)
<1>2. l \in S /\ \A k \in S : Rank(l) <= Rank(k)
  BY <1>1 DEF MinConfidence
<1>3. ASSUME l = "high", NEW k \in S PROVE k = "high"
  BY <1>2, <1>3 DEF Level, Rank
<1> QED
  BY <1>2, <1>3

-----------------------------------------------------------------------------
(* The inductive invariant.                                                 *)

Start == Step("controller_method", Controller, "high", "mapping")
Traced == {"service", "helper", "inject", "body", "fields", "conclude", "done"}

IndexOK ==
  /\ handler \in Seq(Ref \cup Helper)
  /\ helper \in [Helper -> Seq(Ref \cup Helper)]
  /\ body \in [Class -> Seq(Ref) \cup {NoMethod}]
  /\ injected \in [Class -> Seq(Ref)]
  /\ impls \in [Interface -> SUBSET Class]

\* The handler and its helpers call no service.
Uncalled == ServiceCalls = {} /\ \A i \in DOMAIN handler : ~Delegates(handler[i])

Unserved == service = NoClass /\ callee = NoMethod /\ ambiguous = FALSE

StepsOK(s) ==
  s \in Seq([kind : {"controller_method", "controller_helper", "service_call",
                     "likely_service", "persistence", "repository_call",
                     "likely_repository"},
             of : Class \cup Helper \cup Ref, conf : Level,
             by : {"mapping", "call", "injection"}])

\* The three ways to a service: a call, a helper's call, a field.
Called(s) ==
  /\ Len(s) = 2 /\ s[2].kind = "service_call" /\ s[2].by = "call"
  /\ <<service, ambiguous>> \in FindImpl(s[2].of)
  /\ s[2].conf = "high" => ~ServiceIsGuessed
Delegated(s) ==
  /\ Len(s) = 3 /\ s[2].kind = "controller_helper" /\ s[2].by = "call"
  /\ s[3].kind = "service_call" /\ s[3].by = "call"
  /\ <<service, ambiguous>> \in FindImpl(s[3].of)
  /\ ~ServiceIsGuessed
Guessed(s) ==
  /\ Len(s) = 2 /\ s[2].kind = "likely_service" /\ s[2].by = "injection" /\ s[2].conf = "medium"
  /\ <<service, ambiguous>> \in FindImpl(s[2].of)
  /\ Uncalled
ToService(s) ==
  StepsOK(s) /\ s[1] = Start /\ service \in Class /\ (Called(s) \/ Delegated(s) \/ Guessed(s))

\* The followed method calls something that persists.
Reaches ==
  /\ callee # NoMethod
  /\ \E ref \in CallsOn(MethodInClass(service, callee)) : Persists(ref)

\* The last step into persistence: a call, or a field when no call is known.
CalledLast(p) ==
  /\ p.kind \in {"persistence", "repository_call"} /\ p.by = "call"
  /\ p.conf = "high" => ~ambiguous
FieldLast(p) ==
  /\ p.kind \in {"persistence", "likely_repository"} /\ p.by = "injection" /\ p.conf = "medium"
  /\ ~Reaches

Ended ==
  \/ steps = <<Start>> /\ Unserved /\ Uncalled
  \/ ToService(steps) /\ ~Reaches
  \/ \E s, p : /\ steps = Append(s, p) /\ ToService(s)
               /\ CalledLast(p) \/ FieldLast(p)

PathInv ==
  /\ pc \in {"endpoint", "not_found"} => steps = <<>> /\ Unserved
  /\ pc \in {"service", "helper", "inject"} => steps = <<Start>> /\ Unserved
  /\ pc = "helper" => ServiceCalls = {}
  /\ pc = "inject" => Uncalled
  /\ pc = "body" => ToService(steps)
  /\ pc = "fields" => ToService(steps) /\ ~Reaches
  /\ pc \in {"conclude", "done"} => Ended

\* What has been left aside is told.
ToldInv ==
  /\ pc \in {"body", "fields", "conclude", "done"} /\ ServiceIsGuessed
       => "not_followed" \in warnings
  /\ pc \in {"fields", "conclude", "done"} /\ ambiguous => "ambiguous" \in warnings

DoneInv ==
  pc = "done" =>
    /\ Len(steps) = 1 => "unresolved" \in warnings
    /\ service # NoClass /\ Last(steps).kind \in {"service_call", "likely_service"}
         => "incomplete" \in warnings
    /\ overall = IF Len(steps) = 1 THEN "low"
                 ELSE MinConfidence({steps[i].conf : i \in DOMAIN steps})

TraceInv ==
  IndexOK /\ TypeOK /\ SupersededIsHidden /\ PathInv /\ ToldInv /\ DoneInv

-----------------------------------------------------------------------------
(* Steps.                                                                   *)

\* What the index alone decides does not change.
LEMMA IndexIsFixed ==
  ASSUME UNCHANGED index
  PROVE  /\ IndexOK => IndexOK'
         /\ UNCHANGED <<ServiceCalls, ServiceIsGuessed, Uncalled>>
         /\ \A c : FindImpl(c)' = FindImpl(c)
         /\ \A c : Delegates(c)' = Delegates(c)
         /\ \A c, n : MethodInClass(c, n)' = MethodInClass(c, n)
<1> USE DEF index
<1>1. IndexOK => IndexOK'
  BY DEF IndexOK
<1>2. UNCHANGED <<ServiceCalls, ServiceIsGuessed>>
  BY DEF ServiceCalls, ServiceIsGuessed
<1>3. \A c : FindImpl(c)' = FindImpl(c)
  BY DEF FindImpl
<1>4. \A c : Delegates(c)' = Delegates(c)
  BY DEF Delegates
<1>5. \A c, n : MethodInClass(c, n)' = MethodInClass(c, n)
  BY DEF MethodInClass
<1>6. UNCHANGED Uncalled
  BY <1>2, <1>4 DEF Uncalled
<1> QED
  BY <1>1, <1>2, <1>3, <1>4, <1>5, <1>6

\* Nor do the ways to a service, once one is followed.
LEMMA ServiceIsFixed ==
  ASSUME UNCHANGED <<index, service, callee, ambiguous>>
  PROVE  /\ UNCHANGED Reaches
         /\ \A s : ToService(s)' = ToService(s)
         /\ \A p : CalledLast(p)' = CalledLast(p)
         /\ \A p : FieldLast(p)' = FieldLast(p)
<1>1. UNCHANGED Reaches
  BY IndexIsFixed DEF Reaches
<1>2. \A s : ToService(s)' = ToService(s)
  BY IndexIsFixed DEF ToService, StepsOK, Called, Delegated, Guessed
<1>3. \A p : CalledLast(p)' = CalledLast(p)
  BY DEF CalledLast
<1>4. \A p : FieldLast(p)' = FieldLast(p)
  BY <1>1 DEF FieldLast
<1> QED
  BY <1>1, <1>2, <1>3, <1>4

\* An implementation of a class is a class, and told to be arbitrary if it is.
LEMMA ImplIsClass ==
  ASSUME IndexOK, NEW c \in Class, NEW r \in FindImpl(c)
  PROVE  /\ r = <<r[1], r[2]>> /\ r[1] \in Class /\ r[2] \in BOOLEAN
         /\ c \in Interface /\ Cardinality(impls[c]) > 1 /\ r[1] \notin Canonical => r[2] = TRUE
<1> USE IndexAssumption
<1>1. CASE c \notin Interface \/ impls[c] = {}
  <2>1. r = <<c, FALSE>>
    BY <1>1 DEF FindImpl
  <2>2. Cardinality({}) = 0
    BY FS_EmptySet
  <2>3. ASSUME c \in Interface PROVE ~(Cardinality(impls[c]) > 1)
    <3>1. impls[c] = {}
      BY <1>1, <2>3
    <3>2. Cardinality(impls[c]) = 0
      BY <2>2, <3>1, Zenon
    <3> QED
      BY <3>2
  <2> QED
    BY <2>1, <2>3
<1>2. CASE c \in Interface /\ impls[c] # {} /\ impls[c] \cap Canonical # {}
  <2>1. PICK i \in impls[c] \cap Canonical : r = <<i, FALSE>>
    BY <1>2 DEF FindImpl
  <2> QED
    BY <1>2, <2>1 DEF IndexOK
<1>3. CASE c \in Interface /\ impls[c] # {} /\ impls[c] \cap Canonical = {}
  <2>1. PICK i \in impls[c] : r = <<i, Cardinality(impls[c]) > 1>>
    BY <1>3 DEF FindImpl
  <2>2. i \in Class
    BY <1>3, <2>1 DEF IndexOK
  <2>3. CASE Cardinality(impls[c]) > 1
    <3>1. r = <<i, TRUE>>
      BY <2>1, <2>3
    <3> QED
      BY <2>2, <3>1
  <2>4. CASE ~(Cardinality(impls[c]) > 1)
    <3>1. (Cardinality(impls[c]) > 1) = FALSE
      BY <2>4
    <3>2. r = <<i, FALSE>>
      BY <2>1, <3>1, Zenon
    <3> QED
      BY <2>2, <2>4, <3>2
  <2> QED
    BY <2>3, <2>4
<1> QED
  BY <1>1, <1>2, <1>3

\* The calls of a method are a sequence.
LEMMA MethodIsSeq ==
  ASSUME IndexOK, NEW c \in Class, NEW n \in Ref \cup Helper, MethodInClass(c, n) # NoMethod
  PROVE  MethodInClass(c, n) \in Seq(Ref \cup Helper)
<1>1. CASE n \in Helper
  BY <1>1 DEF MethodInClass, IndexOK
<1>2. CASE n \notin Helper
  <2>1. MethodInClass(c, n) \in Seq(Ref)
    BY <1>2 DEF MethodInClass, IndexOK
  <2> QED
    BY <2>1
<1> QED
  BY <1>1, <1>2

\* A step to a service or repository class is well formed, and so is the trace
\* that it is appended to.
LEMMA AppendIsOK ==
  ASSUME NEW s, StepsOK(s),
         NEW p \in [kind : {"controller_method", "controller_helper", "service_call",
                            "likely_service", "persistence", "repository_call",
                            "likely_repository"},
                    of : Class \cup Helper \cup Ref, conf : Level,
                    by : {"mapping", "call", "injection"}]
  PROVE  /\ StepsOK(Append(s, p)) /\ Len(Append(s, p)) = Len(s) + 1
         /\ Append(s, p)[Len(s) + 1] = p
         /\ \A i \in 1 .. Len(s) : Append(s, p)[i] = s[i]
  BY DEF StepsOK

LEMMA InitTraceInv == Init => TraceInv
<1> SUFFICES ASSUME Init PROVE TraceInv
  OBVIOUS
<1> USE DEF Init
<1>1. IndexOK
  BY IndexAssumption DEF IndexOK
<1>2. TypeOK
  <2>1. StepsOK(steps)
    BY DEF StepsOK
  <2>2. Len(steps) <= 4
    OBVIOUS
  <2>3. /\ service \in Class \cup {NoClass} /\ callee \in Ref \cup Helper \cup {NoMethod}
        /\ ambiguous \in BOOLEAN /\ notFollowed \subseteq Class /\ overall \in Level
    BY DEF Level
  <2> QED
    BY <2>1, <2>2, <2>3 DEF TypeOK, StepsOK
<1>3. SupersededIsHidden /\ PathInv /\ ToldInv /\ DoneInv
  BY DEF SupersededIsHidden, PathInv, Unserved, ToldInv, DoneInv
<1> QED
  BY <1>1, <1>2, <1>3 DEF TraceInv

LEMMA StutterTraceInv == TraceInv /\ UNCHANGED vars => TraceInv'
<1> SUFFICES ASSUME TraceInv, UNCHANGED vars PROVE TraceInv'
  OBVIOUS
<1> USE DEF vars, answer, TraceInv
<1>1. IndexOK'
  BY IndexIsFixed
<1>2. TypeOK'
  BY DEF TypeOK
<1>3. SupersededIsHidden'
  BY DEF SupersededIsHidden, index
<1>4. PathInv'
  BY IndexIsFixed, ServiceIsFixed DEF PathInv, Ended, Unserved
<1>5. ToldInv'
  BY IndexIsFixed DEF ToldInv
<1>6. DoneInv'
  BY DEF DoneInv
<1> QED
  BY <1>1, <1>2, <1>3, <1>4, <1>5, <1>6

LEMMA ResolveEndpointTraceInv == TraceInv /\ ResolveEndpoint => TraceInv'
<1> SUFFICES ASSUME TraceInv, ResolveEndpoint PROVE TraceInv'
  OBVIOUS
<1> USE DEF ResolveEndpoint, TraceInv
<1>1. IndexOK'
  BY IndexIsFixed
<1>2. steps' = <<>> \/ steps' = <<Start>>
  BY DEF PathInv, Start
<1>3. TypeOK'
  <2>1. StepsOK(<<>>) /\ StepsOK(<<Start>>)
    BY IndexAssumption DEF StepsOK, Start, Step, Level
  <2>2. StepsOK(steps') /\ Len(steps') <= 4
    <3>1. CASE steps' = <<>>
      BY <2>1, <3>1
    <3>2. CASE steps' = <<Start>>
      BY <2>1, <3>2
    <3> QED
      BY <1>2, <3>1, <3>2
  <2>3. pc' \in {"not_found", "service"}
    OBVIOUS
  <2> QED
    BY <2>2, <2>3 DEF TypeOK, StepsOK
<1>4. SupersededIsHidden'
  BY DEF SupersededIsHidden, index
<1>5. PathInv'
  BY <1>2 DEF PathInv, Unserved, Start
<1> QED
  BY <1>1, <1>3, <1>4, <1>5 DEF ToldInv, DoneInv

LEMMA FollowServiceCallTraceInv == TraceInv /\ FollowServiceCall => TraceInv'
<1> SUFFICES ASSUME TraceInv, FollowServiceCall PROVE TraceInv'
  OBVIOUS
<1> DEFINE first == SelectInSeq(handler, IsService)
<1> DEFINE target == Target(handler[first])
<1> DEFINE conf == IF Others(first) = {} THEN "high" ELSE "medium"
<1> DEFINE step == Step("service_call", target, conf, "call")
<1>1. /\ pc = "service" /\ pc' = "body" /\ UNCHANGED <<index, overall>>
      /\ callee' = handler[first]
      /\ notFollowed' = Others(first)
      /\ steps' = Append(steps, step)
      /\ warnings' = IF Others(first) = {} THEN warnings ELSE warnings \cup {"not_followed"}
  BY DEF FollowServiceCall
<1>2. PICK r \in FindImpl(target) : service' = r[1] /\ ambiguous' = r[2]
  BY DEF FollowServiceCall
<1>3. handler \in Seq(Ref \cup Helper) /\ IndexOK
  BY DEF TraceInv, IndexOK
<1>4. first \in DOMAIN handler /\ target \in ServiceLike
  <2>1. \E i \in DOMAIN handler : IsService(handler[i])
    BY DEF FollowServiceCall, ServiceCalls
  <2> QED
    BY <1>3, <2>1, FirstService DEF IsService
<1>5. target \in Class
  BY <1>4, IndexAssumption
<1>6. ServiceIsGuessed => Others(first) # {}
  BY DEF ServiceIsGuessed, Others, ServiceCalls
<1>7. handler[first] \in Ref \cup Helper /\ Others(first) \subseteq Class
  <2>1. handler[first] \in Ref \cup Helper
    BY <1>3, <1>4
  <2>2. \A i \in ServiceCalls : Target(handler[i]) \in Class
    BY IndexAssumption DEF ServiceCalls, IsService
  <2> QED
    BY <2>1, <2>2 DEF Others
<1>8. steps = <<Start>> /\ StepsOK(steps) /\ SupersededIsHidden
      /\ warnings \subseteq {"not_followed", "ambiguous", "incomplete", "unresolved"}
      /\ overall \in Level
  BY <1>1 DEF TraceInv, PathInv, TypeOK, StepsOK
<1>9. r = <<r[1], r[2]>> /\ r[1] \in Class /\ r[2] \in BOOLEAN
  BY <1>2, <1>3, <1>5, ImplIsClass
<1>0. UNCHANGED target
  BY <1>1 DEF index
<1> HIDE DEF first, target
<1>10. StepsOK(steps') /\ steps'[1] = Start /\ Len(steps') = 2 /\ steps'[2] = step
  <2>1. step \in [kind : {"controller_method", "controller_helper", "service_call",
                            "likely_service", "persistence", "repository_call",
                            "likely_repository"},
                  of : Class \cup Helper \cup Ref, conf : Level,
                  by : {"mapping", "call", "injection"}]
    BY <1>5 DEF Step, Level
  <2> HIDE DEF step
  <2>2. Len(steps) = 1 /\ steps[1] = Start
    BY <1>8
  <2> QED
    BY <1>1, <1>8, <2>1, <2>2, AppendIsOK
<1>11. /\ step.kind = "service_call" /\ step.by = "call" /\ step.of = target
       /\ step.conf = "high" => ~ServiceIsGuessed
  BY <1>6 DEF Step
<1> HIDE DEF step
<1>12. IndexOK' /\ UNCHANGED ServiceIsGuessed
  BY <1>1, <1>3, IndexIsFixed
<1>13. ToService(steps)'
  <2>1. <<service', ambiguous'>> \in FindImpl(target)'
    BY <1>0, <1>1, <1>2, <1>9, IndexIsFixed
  <2>2. Called(steps)'
    BY <1>0, <1>10, <1>11, <1>12, <2>1 DEF Called
  <2>3. service' \in Class
    BY <1>2, <1>9
  <2> QED
    BY <1>10, <2>2, <2>3 DEF ToService, StepsOK
<1>14. TypeOK'
  BY <1>1, <1>2, <1>7, <1>8, <1>9, <1>10 DEF TypeOK, StepsOK
<1>15. SupersededIsHidden'
  BY <1>1, <1>8 DEF SupersededIsHidden, index
<1>16. PathInv'
  BY <1>1, <1>13 DEF PathInv
<1>17. ToldInv' /\ DoneInv'
  BY <1>1, <1>6, <1>12 DEF ToldInv, DoneInv
<1> QED
  BY <1>12, <1>14, <1>15, <1>16, <1>17 DEF TraceInv

LEMMA NoServiceCallTraceInv == TraceInv /\ NoServiceCall => TraceInv'
<1> SUFFICES ASSUME TraceInv, NoServiceCall PROVE TraceInv'
  OBVIOUS
<1>1. /\ pc = "service" /\ pc' = "helper" /\ ServiceCalls = {}
      /\ UNCHANGED <<index, steps, service, callee, ambiguous, notFollowed, warnings, overall>>
  BY DEF NoServiceCall, answer
<1>2. IndexOK' /\ ServiceCalls' = {}
  BY <1>1, IndexIsFixed DEF TraceInv
<1>3. TypeOK' /\ SupersededIsHidden'
  BY <1>1 DEF TraceInv, TypeOK, SupersededIsHidden, index
<1>4. PathInv'
  BY <1>1, <1>2 DEF TraceInv, PathInv, Unserved
<1> QED
  BY <1>1, <1>2, <1>3, <1>4 DEF TraceInv, ToldInv, DoneInv

LEMMA NoHelperTraceInv == TraceInv /\ NoHelper => TraceInv'
<1> SUFFICES ASSUME TraceInv, NoHelper PROVE TraceInv'
  OBVIOUS
<1>1. /\ pc = "helper" /\ pc' = "inject" /\ SelectInSeq(handler, Delegates) = 0
      /\ UNCHANGED <<index, steps, service, callee, ambiguous, notFollowed, warnings, overall>>
  BY DEF NoHelper, answer
<1>2. Uncalled
  <2>1. handler \in Seq(Ref \cup Helper) /\ ServiceCalls = {}
    BY <1>1 DEF TraceInv, IndexOK, PathInv
  <2> QED
    BY <1>1, <2>1, FirstHelper DEF Uncalled
<1>3. IndexOK' /\ Uncalled'
  BY <1>1, <1>2, IndexIsFixed DEF TraceInv
<1>4. TypeOK' /\ SupersededIsHidden'
  BY <1>1 DEF TraceInv, TypeOK, SupersededIsHidden, index
<1>5. PathInv'
  BY <1>1, <1>3 DEF TraceInv, PathInv, Unserved
<1> QED
  BY <1>1, <1>3, <1>4, <1>5 DEF TraceInv, ToldInv, DoneInv

\* The helper, and the call in it, that FollowHelper follows.
LEMMA FollowedHelper ==
  ASSUME TraceInv, FollowHelper
  PROVE  \E via \in Helper, call \in Ref \cup Helper :
           /\ IsService(call) /\ callee' = call
           /\ \E r \in FindImpl(Target(call)) : service' = r[1] /\ ambiguous' = r[2]
           /\ steps' = steps \o <<Step("controller_helper", via, "high", "call"),
                                  Step("service_call", Target(call), "high", "call")>>
<1> DEFINE at == SelectInSeq(handler, Delegates)
<1> DEFINE via == handler[at]
<1> DEFINE call == helper[via][SelectInSeq(helper[via], IsService)]
<1>1. at # 0 /\ handler \in Seq(Ref \cup Helper) /\ IndexOK
  BY DEF FollowHelper, TraceInv, IndexOK
<1>2. via \in Helper /\ \E i \in DOMAIN helper[via] : IsService(helper[via][i])
  <2>1. Delegates(via)
    BY <1>1, FirstHelper
  <2> QED
    BY <2>1 DEF Delegates
<1>3. helper[via] \in Seq(Ref \cup Helper)
  BY <1>1, <1>2 DEF IndexOK
<1>4. call \in Ref \cup Helper /\ IsService(call)
  <2>1. /\ SelectInSeq(helper[via], IsService) \in DOMAIN helper[via]
        /\ IsService(helper[via][SelectInSeq(helper[via], IsService)])
    BY <1>2, <1>3, FirstService
  <2> QED
    BY <1>3, <2>1
<1>5. /\ callee' = call
      /\ \E r \in FindImpl(Target(call)) : service' = r[1] /\ ambiguous' = r[2]
      /\ steps' = steps \o <<Step("controller_helper", via, "high", "call"),
                             Step("service_call", Target(call), "high", "call")>>
  BY DEF FollowHelper
<1> HIDE DEF at, via, call
<1> QED
  BY <1>2, <1>4, <1>5

LEMMA FollowHelperTraceInv == TraceInv /\ FollowHelper => TraceInv'
<1> SUFFICES ASSUME TraceInv, FollowHelper PROVE TraceInv'
  OBVIOUS
<1>1. PICK via \in Helper, call \in Ref \cup Helper :
           /\ IsService(call) /\ callee' = call
           /\ \E r \in FindImpl(Target(call)) : service' = r[1] /\ ambiguous' = r[2]
           /\ steps' = steps \o <<Step("controller_helper", via, "high", "call"),
                                  Step("service_call", Target(call), "high", "call")>>
  BY FollowedHelper
<1> DEFINE target == Target(call)
<1>2. PICK r \in FindImpl(target) : service' = r[1] /\ ambiguous' = r[2]
  BY <1>1
<1>3. /\ pc = "helper" /\ pc' = "body" /\ UNCHANGED <<index, notFollowed, warnings, overall>>
      /\ IndexOK /\ ServiceCalls = {}
  BY DEF FollowHelper, TraceInv, PathInv
<1>4. target \in Class
  BY <1>1, IndexAssumption DEF IsService
<1>5. steps = <<Start>> /\ SupersededIsHidden /\ overall \in Level /\ notFollowed \subseteq Class
      /\ warnings \subseteq {"not_followed", "ambiguous", "incomplete", "unresolved"}
  BY <1>3 DEF TraceInv, PathInv, TypeOK
<1>6. r = <<r[1], r[2]>> /\ r[1] \in Class /\ r[2] \in BOOLEAN
  BY <1>2, <1>3, <1>4, ImplIsClass
<1> DEFINE step2 == Step("controller_helper", via, "high", "call")
<1> DEFINE step3 == Step("service_call", target, "high", "call")
<1>7. StepsOK(<<Start>>) /\ StepsOK(<<step2, step3>>)
  BY <1>4, IndexAssumption DEF StepsOK, Start, Step, Level
<1>8. /\ step2.kind = "controller_helper" /\ step2.by = "call"
      /\ step3.kind = "service_call" /\ step3.by = "call" /\ step3.of = target
  BY DEF Step
<1> HIDE DEF step2, step3
<1>9. steps' = <<Start>> \o <<step2, step3>>
  BY <1>1, <1>5 DEF step2, step3
<1>10. IndexOK' /\ UNCHANGED ServiceIsGuessed /\ ~ServiceIsGuessed
  <2>1. ~ServiceIsGuessed
    BY <1>3 DEF ServiceIsGuessed, ServiceCalls
  <2> QED
    BY <1>3, <2>1, IndexIsFixed
<1>11. StepsOK(steps') /\ Len(steps') = 3 /\ steps'[1] = Start /\ steps'[2] = step2 /\ steps'[3] = step3
  <2> DEFINE whole == <<Start>> \o <<step2, step3>>
  <2>1. Len(<<Start>>) = 1 /\ Len(<<step2, step3>>) = 2
    OBVIOUS
  <2>2. StepsOK(whole) /\ Len(whole) = 3 /\ whole[1] = Start /\ whole[2] = step2 /\ whole[3] = step3
    BY <1>7, <2>1, ConcatProperties DEF StepsOK
  <2> QED
    BY <1>9, <2>2
<1>12. ToService(steps)'
  <2>1. <<service', ambiguous'>> \in FindImpl(target)'
    BY <1>2, <1>3, <1>6, IndexIsFixed
  <2>2. Delegated(steps)'
    BY <1>8, <1>10, <1>11, <2>1 DEF Delegated
  <2>3. service' \in Class
    BY <1>2, <1>6
  <2> QED
    BY <1>11, <2>2, <2>3 DEF ToService, StepsOK
<1>13. TypeOK'
  BY <1>1, <1>2, <1>3, <1>5, <1>6, <1>11 DEF TypeOK, StepsOK
<1>14. SupersededIsHidden'
  BY <1>3, <1>5 DEF SupersededIsHidden, index
<1>15. PathInv'
  BY <1>3, <1>12 DEF PathInv
<1>16. ToldInv' /\ DoneInv'
  BY <1>3, <1>10 DEF ToldInv, DoneInv
<1> QED
  BY <1>10, <1>13, <1>14, <1>15, <1>16 DEF TraceInv

LEMMA FollowInjectedTraceInv == TraceInv /\ FollowInjected => TraceInv'
<1> SUFFICES ASSUME TraceInv, FollowInjected PROVE TraceInv'
  OBVIOUS
<1> DEFINE i == SelectInSeq(injected[Controller], IsService)
<1> DEFINE target == ResolveTypeToClass(injected[Controller][i])
<1> DEFINE step == Step("likely_service", target, "medium", "injection")
<1>1. pc = "inject" /\ UNCHANGED index /\ IndexOK /\ Uncalled /\ IndexOK' /\ Uncalled' /\ ~ServiceIsGuessed'
  <2>1. pc = "inject" /\ UNCHANGED index /\ IndexOK /\ Uncalled
    BY DEF FollowInjected, TraceInv, PathInv
  <2>2. ~ServiceIsGuessed
    BY <2>1 DEF ServiceIsGuessed, Uncalled, ServiceCalls
  <2> QED
    BY <2>1, <2>2, IndexIsFixed
<1>2. /\ steps = <<Start>> /\ Unserved /\ SupersededIsHidden /\ overall \in Level
      /\ notFollowed \subseteq Class
      /\ warnings \subseteq {"not_followed", "ambiguous", "incomplete", "unresolved"}
      /\ StepsOK(steps)
  BY <1>1 DEF TraceInv, PathInv, TypeOK, StepsOK
<1>3. CASE i = 0
  <2>1. pc' = "conclude" /\ UNCHANGED <<steps, service, callee, ambiguous, notFollowed, warnings, overall>>
    BY <1>3 DEF FollowInjected, answer
  <2>2. Ended'
    BY <1>1, <1>2, <2>1 DEF Ended, Unserved
  <2>3. TypeOK' /\ SupersededIsHidden'
    BY <1>1, <1>2, <2>1 DEF TraceInv, TypeOK, SupersededIsHidden, index
  <2>4. PathInv'
    BY <2>1, <2>2 DEF PathInv
  <2>5. ToldInv' /\ DoneInv'
    BY <1>1, <1>2, <2>1 DEF ToldInv, DoneInv, Unserved
  <2> QED
    BY <1>1, <2>3, <2>4, <2>5 DEF TraceInv
<1>4. CASE i # 0
  <2>1. /\ pc' = "body" /\ steps' = Append(steps, step)
        /\ UNCHANGED <<callee, notFollowed, warnings, overall>>
    BY <1>4 DEF FollowInjected
  <2>2. PICK r \in FindImpl(target) : service' = r[1] /\ ambiguous' = r[2]
    BY <1>4 DEF FollowInjected
  <2>3. injected[Controller] \in Seq(Ref)
    BY <1>1, IndexAssumption DEF IndexOK
  <2>4. target \in ServiceLike
    <3>1. i \in DOMAIN injected[Controller] /\ IsService(injected[Controller][i])
      BY <1>4, <2>3, FirstService
    <3>2. injected[Controller][i] \notin Helper
      BY <2>3, <3>1, IndexAssumption
    <3> QED
      BY <3>1, <3>2 DEF IsService, Target
  <2>5. target \in Class
    BY <2>4, IndexAssumption
  <2>6. r = <<r[1], r[2]>> /\ r[1] \in Class /\ r[2] \in BOOLEAN
    BY <1>1, <2>2, <2>5, ImplIsClass
  <2>7. UNCHANGED target
    BY <1>1 DEF index
  <2> HIDE DEF i, target
  <2>8. step \in [kind : {"controller_method", "controller_helper", "service_call",
                          "likely_service", "persistence", "repository_call",
                          "likely_repository"},
                  of : Class \cup Helper \cup Ref, conf : Level,
                  by : {"mapping", "call", "injection"}]
    BY <2>5 DEF Step, Level
  <2>9. /\ step.kind = "likely_service" /\ step.by = "injection"
        /\ step.conf = "medium" /\ step.of = target
    BY DEF Step
  <2> HIDE DEF step
  <2>10. Len(steps) = 1 /\ steps[1] = Start
    BY <1>2
  <2>11. StepsOK(steps') /\ Len(steps') = 2 /\ steps'[1] = Start /\ steps'[2] = step
    BY <1>2, <2>1, <2>8, <2>10, AppendIsOK
  <2>12. ToService(steps)'
    <3>1. <<service', ambiguous'>> \in FindImpl(target)'
      BY <1>1, <2>2, <2>6, <2>7, IndexIsFixed
    <3>2. Guessed(steps)'
      BY <1>1, <2>7, <2>9, <2>11, <3>1 DEF Guessed
    <3>3. service' \in Class
      BY <2>2, <2>6
    <3> QED
      BY <2>11, <3>2, <3>3 DEF ToService, StepsOK
  <2>13. TypeOK'
    BY <1>2, <2>1, <2>2, <2>6, <2>11 DEF TypeOK, StepsOK, Unserved
  <2>14. SupersededIsHidden'
    BY <1>1, <1>2, <2>1 DEF SupersededIsHidden, index
  <2>15. PathInv'
    BY <2>1, <2>12 DEF PathInv
  <2>16. ToldInv' /\ DoneInv'
    BY <1>1, <2>1 DEF ToldInv, DoneInv
  <2> QED
    BY <1>1, <2>13, <2>14, <2>15, <2>16 DEF TraceInv
<1> QED
  BY <1>3, <1>4

\* A trace to a service has a start, a service step and perhaps a helper.
LEMMA ServiceLength ==
  ASSUME NEW s, ToService(s)
  PROVE  Len(s) \in 2 .. 3 /\ StepsOK(s)
  BY DEF ToService, Called, Delegated, Guessed

LEMMA PersistenceStep ==
  ASSUME NEW ref \in Ref \cup Helper, Persists(ref), NEW conf \in Level
  PROVE  /\ StepFor(ref, "repository_call", "", conf, "call") \in
              [kind : {"persistence", "repository_call"}, of : Class \cup Helper \cup Ref,
               conf : {conf}, by : {"call"}]
         /\ StepFor(ref, "", "likely_repository", conf, "injection") \in
              [kind : {"persistence", "likely_repository"}, of : Class \cup Helper \cup Ref,
               conf : {conf}, by : {"injection"}]
<1>1. CASE ref \in PersistenceRef
  BY <1>1 DEF StepFor, Step
<1>2. CASE ref \notin PersistenceRef
  <2>1. Target(ref) \in Class
    BY <1>2, IndexAssumption DEF Persists, IsRepository
  <2> QED
    BY <1>2, <2>1 DEF StepFor, Step
<1> QED
  BY <1>1, <1>2

LEMMA FindRepositoryCallTraceInv == TraceInv /\ FindRepositoryCall => TraceInv'
<1> SUFFICES ASSUME TraceInv, FindRepositoryCall PROVE TraceInv'
  OBVIOUS
<1> DEFINE calls == IF callee = NoMethod THEN NoMethod ELSE MethodInClass(service, callee)
<1> DEFINE i == IF calls = NoMethod THEN 0 ELSE SelectInSeq(calls, Persists)
<1> DEFINE conf == IF ambiguous THEN "medium" ELSE "high"
<1> DEFINE step == StepFor(calls[i], "repository_call", "", conf, "call")
<1>1. /\ pc = "body" /\ UNCHANGED <<index, service, callee, ambiguous, notFollowed, overall>>
      /\ warnings' = IF ambiguous THEN warnings \cup {"ambiguous"} ELSE warnings
      /\ IF i = 0 THEN pc' = "fields" /\ UNCHANGED steps
                  ELSE pc' = "conclude" /\ steps' = Append(steps, step)
  BY DEF FindRepositoryCall
<1>2. /\ IndexOK /\ TypeOK /\ SupersededIsHidden /\ ToService(steps)
      /\ ServiceIsGuessed => "not_followed" \in warnings
  BY <1>1 DEF TraceInv, PathInv, ToldInv
<1>3. IndexOK' /\ SupersededIsHidden' /\ UNCHANGED ServiceIsGuessed
  BY <1>1, <1>2, IndexIsFixed DEF SupersededIsHidden, index
<1>4. \A s : ToService(s) => ToService(s)'
  BY <1>1, ServiceIsFixed
<1>5. calls = NoMethod \/ calls \in Seq(Ref \cup Helper)
  BY <1>2, MethodIsSeq DEF ToService, TypeOK
<1>6. ToldInv' /\ DoneInv'
  BY <1>1, <1>2, <1>3 DEF ToldInv, DoneInv
<1>7. Len(steps) \in 2 .. 3 /\ StepsOK(steps)
  BY <1>2, ServiceLength
<1>8. CASE i = 0
  <2>1. ~Reaches
    <3>1. CASE calls = NoMethod
      BY <3>1 DEF Reaches, CallsOn
    <3>2. CASE calls # NoMethod
      BY <1>5, <1>8, <3>2, FirstPersisting DEF Reaches, CallsOn
    <3> QED
      BY <3>1, <3>2
  <2>2. ToService(steps)' /\ ~Reaches'
    BY <1>1, <1>2, <1>8, <2>1, ServiceIsFixed
  <2>3. PathInv'
    BY <1>1, <1>8, <2>2 DEF PathInv
  <2>4. TypeOK'
    BY <1>1, <1>2, <1>8 DEF TypeOK
  <2> QED
    BY <1>3, <1>6, <2>3, <2>4 DEF TraceInv
<1>9. CASE i # 0
  <2>1. calls[i] \in Ref \cup Helper /\ Persists(calls[i])
    <3>1. calls \in Seq(Ref \cup Helper) /\ i = SelectInSeq(calls, Persists)
      BY <1>5, <1>9
    <3> HIDE DEF calls, i
    <3>2. i \in DOMAIN calls /\ Persists(calls[i])
      BY <1>9, <3>1, FirstPersisting
    <3> QED
      BY <3>1, <3>2
  <2>2. conf \in Level /\ (conf = "high" => ~ambiguous)
    BY DEF Level
  <2> HIDE DEF calls, i, conf
  <2>3. step \in [kind : {"persistence", "repository_call"}, of : Class \cup Helper \cup Ref,
                  conf : {conf}, by : {"call"}]
    BY <2>1, <2>2, PersistenceStep
  <2> HIDE DEF step
  <2>4. CalledLast(step)
    BY <2>2, <2>3 DEF CalledLast
  <2>5. StepsOK(steps') /\ Len(steps') <= 4
    <3>1. step \in [kind : {"controller_method", "controller_helper", "service_call",
                            "likely_service", "persistence", "repository_call",
                            "likely_repository"},
                    of : Class \cup Helper \cup Ref, conf : Level,
                    by : {"mapping", "call", "injection"}]
      BY <2>2, <2>3
    <3>2. StepsOK(Append(steps, step)) /\ Len(Append(steps, step)) = Len(steps) + 1
      BY <1>7, <3>1, AppendIsOK
    <3>3. steps' = Append(steps, step)
      BY <1>1, <1>9
    <3>4. Len(steps) + 1 <= 4
      <4>1. \A n \in 2 .. 3 : n + 1 <= 4
        OBVIOUS
      <4> QED
        BY <1>7, <4>1, Zenon
    <3> QED
      BY <3>2, <3>3, <3>4
  <2>6. TypeOK'
    BY <1>1, <1>2, <1>9, <2>5 DEF TypeOK, StepsOK
  <2>7. Ended'
    <3>1. \E s, p : steps' = Append(s, p) /\ ToService(s)' /\ CalledLast(p)'
      BY <1>1, <1>2, <1>4, <1>9, <2>4, ServiceIsFixed
    <3> QED
      BY <3>1 DEF Ended
  <2>8. PathInv'
    BY <1>1, <1>9, <2>7 DEF PathInv
  <2> QED
    BY <1>3, <1>6, <2>6, <2>8 DEF TraceInv
<1> QED
  BY <1>8, <1>9

LEMMA FindInjectedRepositoryTraceInv == TraceInv /\ FindInjectedRepository => TraceInv'
<1> SUFFICES ASSUME TraceInv, FindInjectedRepository PROVE TraceInv'
  OBVIOUS
<1> DEFINE i == SelectInSeq(injected[service], Persists)
<1> DEFINE step == StepFor(injected[service][i], "", "likely_repository", "medium", "injection")
<1>1. /\ pc = "fields" /\ pc' = "conclude"
      /\ UNCHANGED <<index, service, callee, ambiguous, notFollowed, warnings, overall>>
      /\ steps' = IF i = 0 THEN steps ELSE Append(steps, step)
  BY DEF FindInjectedRepository
<1>2. IndexOK /\ TypeOK /\ SupersededIsHidden /\ ToService(steps) /\ ~Reaches /\ ToldInv
  BY <1>1 DEF TraceInv, PathInv
<1>3. IndexOK' /\ SupersededIsHidden' /\ UNCHANGED ServiceIsGuessed
  BY <1>1, <1>2, IndexIsFixed DEF SupersededIsHidden, index
<1>4. ToldInv' /\ DoneInv'
  BY <1>1, <1>2, <1>3 DEF ToldInv, DoneInv
<1>5. Len(steps) \in 2 .. 3 /\ StepsOK(steps)
  BY <1>2, ServiceLength
<1>6. CASE i = 0
  <2>1. Ended'
    BY <1>1, <1>2, <1>6, ServiceIsFixed DEF Ended
  <2>2. TypeOK' /\ PathInv'
    BY <1>1, <1>2, <1>6, <2>1 DEF TypeOK, PathInv
  <2> QED
    BY <1>3, <1>4, <2>2 DEF TraceInv
<1>7. CASE i # 0
  <2>1. injected[service] \in Seq(Ref)
    BY <1>2 DEF ToService, IndexOK
  <2>2. injected[service][i] \in Ref \cup Helper /\ Persists(injected[service][i])
    <3>1. i \in DOMAIN injected[service] /\ Persists(injected[service][i])
      BY <1>7, <2>1, FirstPersisting
    <3> HIDE DEF i
    <3> QED
      BY <2>1, <3>1
  <2> HIDE DEF i
  <2>3. step \in [kind : {"persistence", "likely_repository"}, of : Class \cup Helper \cup Ref,
                  conf : {"medium"}, by : {"injection"}]
    BY <2>2, PersistenceStep DEF Level
  <2> HIDE DEF step
  <2>4. FieldLast(step)
    BY <1>2, <2>3 DEF FieldLast
  <2>5. StepsOK(steps') /\ Len(steps') <= 4
    <3>1. step \in [kind : {"controller_method", "controller_helper", "service_call",
                            "likely_service", "persistence", "repository_call",
                            "likely_repository"},
                    of : Class \cup Helper \cup Ref, conf : Level,
                    by : {"mapping", "call", "injection"}]
      BY <2>3 DEF Level
    <3>2. StepsOK(Append(steps, step)) /\ Len(Append(steps, step)) = Len(steps) + 1
      BY <1>5, <3>1, AppendIsOK
    <3>3. steps' = Append(steps, step)
      BY <1>1, <1>7
    <3>4. Len(steps) + 1 <= 4
      <4>1. \A n \in 2 .. 3 : n + 1 <= 4
        OBVIOUS
      <4> QED
        BY <1>5, <4>1, Zenon
    <3> QED
      BY <3>2, <3>3, <3>4
  <2>6. TypeOK'
    BY <1>1, <1>2, <1>7, <2>5 DEF TypeOK, StepsOK
  <2>7. Ended'
    <3>1. \E s, p : steps' = Append(s, p) /\ ToService(s)' /\ FieldLast(p)'
      BY <1>1, <1>2, <1>7, <2>4, ServiceIsFixed
    <3> QED
      BY <3>1 DEF Ended
  <2>8. PathInv'
    BY <1>1, <2>7 DEF PathInv
  <2> QED
    BY <1>3, <1>4, <2>6, <2>8 DEF TraceInv
<1> QED
  BY <1>6, <1>7

\* A trace ends after one to four steps.
LEMMA EndedLength ==
  ASSUME TypeOK, Ended
  PROVE  Len(steps) \in 1 .. 4 /\ StepsOK(steps)
<1>1. StepsOK(steps) /\ Len(steps) \in Nat /\ Len(steps) <= 4
  BY DEF TypeOK, StepsOK
<1>2. Len(steps) # 0
  <2>1. CASE steps = <<Start>>
    BY <2>1
  <2>2. CASE ToService(steps)
    BY <2>2, ServiceLength
  <2>3. ASSUME NEW s, NEW p, steps = Append(s, p), ToService(s) PROVE Len(steps) # 0
    <3>1. Len(s) \in 2 .. 3 /\ StepsOK(s)
      BY <2>3, ServiceLength
    <3> QED
      BY <2>3, <3>1 DEF StepsOK
  <2> QED
    BY <2>1, <2>2, <2>3 DEF Ended
<1>3. \A n \in Nat : n <= 4 /\ n # 0 => n \in 1 .. 4
  OBVIOUS
<1> QED
  BY <1>1, <1>2, <1>3, Zenon

LEMMA LevelOfStep ==
  ASSUME TypeOK, NEW i \in DOMAIN steps
  PROVE  steps[i].conf \in Level
<1>1. i \in 1 .. Len(steps)
  BY DEF TypeOK
<1>2. steps[i] \in [kind : {"controller_method", "controller_helper", "service_call",
                            "likely_service", "persistence", "repository_call",
                            "likely_repository"},
                    of : Class \cup Helper \cup Ref, conf : Level,
                    by : {"mapping", "call", "injection"}]
  BY <1>1, ElementOfSeq DEF TypeOK
<1> QED
  BY <1>2

LEMMA ConcludeTraceInv == TraceInv /\ Conclude => TraceInv'
<1> SUFFICES ASSUME TraceInv, Conclude PROVE TraceInv'
  OBVIOUS
<1> DEFINE levels == {steps[i].conf : i \in DOMAIN steps}
<1>1. /\ pc = "conclude" /\ pc' = "done"
      /\ UNCHANGED <<index, steps, service, callee, ambiguous, notFollowed>>
      /\ overall' = IF Len(steps) = 1 THEN "low" ELSE MinConfidence(levels)
      /\ warnings' = warnings \cup
           (IF service # NoClass /\ Last(steps).kind \in {"service_call", "likely_service"}
            THEN {"incomplete"} ELSE {}) \cup
           (IF Len(steps) = 1 THEN {"unresolved"} ELSE {})
  BY DEF Conclude
<1>2. IndexOK /\ TypeOK /\ SupersededIsHidden /\ Ended /\ ToldInv
  BY <1>1 DEF TraceInv, PathInv
<1>3. IndexOK' /\ SupersededIsHidden' /\ UNCHANGED ServiceIsGuessed
  BY <1>1, <1>2, IndexIsFixed DEF SupersededIsHidden, index
<1>4. ToldInv'
  BY <1>1, <1>2, <1>3 DEF ToldInv
<1>5. DoneInv'
  BY <1>1 DEF DoneInv
<1>6. PathInv'
  <2>1. Ended'
    BY <1>1, <1>2, IndexIsFixed, ServiceIsFixed DEF Ended, Unserved
  <2> QED
    BY <1>1, <2>1 DEF PathInv
<1>7. TypeOK'
  <2>1. overall' \in Level
    <3>0. Len(steps) \in 1 .. 4 /\ StepsOK(steps)
      BY <1>2, EndedLength
    <3>1. levels \in SUBSET Level
      <4>1. \A i \in DOMAIN steps : steps[i].conf \in Level
        BY <1>2, LevelOfStep
      <4> QED
        BY <4>1
    <3>2. CASE Len(steps) = 1
      BY <1>1, <3>2 DEF Level
    <3>3. CASE Len(steps) # 1
      <4>1. levels # {}
        <5>1. 1 \in DOMAIN steps
          BY <3>0 DEF StepsOK
        <5> QED
          BY <5>1
      <4> QED
        BY <1>1, <3>1, <3>3, <4>1, WeakestLevel
    <3> QED
      BY <3>2, <3>3
  <2>2. warnings' \subseteq {"not_followed", "ambiguous", "incomplete", "unresolved"}
    BY <1>1, <1>2 DEF TypeOK
  <2> QED
    BY <1>1, <1>2, <2>1, <2>2 DEF TypeOK
<1> QED
  BY <1>3, <1>4, <1>5, <1>6, <1>7 DEF TraceInv

LEMMA NextTraceInv == TraceInv /\ [Next]_vars => TraceInv'
  BY StutterTraceInv, ResolveEndpointTraceInv, FollowServiceCallTraceInv, NoServiceCallTraceInv,
     FollowHelperTraceInv, NoHelperTraceInv, FollowInjectedTraceInv, FindRepositoryCallTraceInv,
     FindInjectedRepositoryTraceInv, ConcludeTraceInv DEF Next

\* What the path followed so far, what was told and the conclusion have to do
\* with one another, in every state.
LEMMA TraceInvariant == Spec => []TraceInv
  BY InitTraceInv, NextTraceInv, PTL DEF Spec

-----------------------------------------------------------------------------
(* What the invariant says of an answer.                                    *)

\* A finished trace with a service has guessed its implementation only if the
\* answer tells so.
LEMMA GuessIsTold ==
  ASSUME IndexOK, NEW s, ToService(s),
         NEW i \in DOMAIN s, s[i].kind \in {"service_call", "likely_service"},
         s[i].of \in Interface, Cardinality(impls[s[i].of]) > 1, service \notin Canonical
  PROVE  ambiguous = TRUE
<1>1. <<service, ambiguous>> \in FindImpl(s[i].of)
  <2>1. Len(s) \in 2 .. 3 /\ StepsOK(s) /\ s[1].kind = "controller_method"
    BY ServiceLength DEF ToService, Start, Step
  <2>2. i \in 1 .. Len(s) /\ i # 1
    BY <2>1 DEF StepsOK
  <2>3. CASE Called(s)
    BY <2>2, <2>3 DEF Called
  <2>4. CASE Delegated(s)
    BY <2>2, <2>4 DEF Delegated
  <2>5. CASE Guessed(s)
    BY <2>2, <2>5 DEF Guessed
  <2> QED
    BY <2>3, <2>4, <2>5 DEF ToService
<1>2. s[i].of \in Class
  BY IndexAssumption
<1> QED
  BY <1>1, <1>2, ImplIsClass

\* The service's kind of step is the last one of a trace to it.
LEMMA ServiceIsLast ==
  ASSUME NEW s, ToService(s)
  PROVE  /\ s[Len(s)].kind \in {"service_call", "likely_service"} /\ s[1] = Start
         /\ \A i \in 2 .. Len(s) : s[i].conf = "high" => s[i].by = "call"
         /\ (\A i \in 2 .. Len(s) : s[i].conf = "high") => ~ServiceIsGuessed
         /\ ~Uncalled => \E i \in 1 .. Len(s) : s[i].kind = "service_call"
<1>1. CASE Called(s)
  <2>1. \A i \in 2 .. 2 : i = 2
    OBVIOUS
  <2> QED
    BY <1>1, <2>1 DEF Called, ToService
<1>2. CASE Delegated(s)
  <2>1. \A i \in 2 .. 3 : i = 2 \/ i = 3
    OBVIOUS
  <2> QED
    BY <1>2, <2>1 DEF Delegated, ToService
<1>3. CASE Guessed(s)
  <2>1. \A i \in 2 .. 2 : i = 2
    OBVIOUS
  <2> QED
    BY <1>3, <2>1 DEF Guessed, ToService
<1> QED
  BY <1>1, <1>2, <1>3 DEF ToService

\* What is known of a trace with a last step into persistence.
LEMMA AppendedStep ==
  ASSUME NEW s, NEW p, steps = Append(s, p), ToService(s)
  PROVE  /\ Len(s) \in 2 .. 3 /\ Len(steps) = Len(s) + 1 /\ DOMAIN steps = 1 .. Len(s) + 1
         /\ \A i \in 1 .. Len(s) : steps[i] = s[i]
         /\ steps[Len(s) + 1] = p /\ Last(steps) = p /\ DOMAIN s = 1 .. Len(s)
<1>1. Len(s) \in 2 .. 3 /\ StepsOK(s)
  BY ServiceLength
<1> QED
  BY <1>1 DEF StepsOK, Last

\* An implementation guessed among several is reported as ambiguous.
LEMMA GuessedImplIsAmbiguous ==
  ASSUME IndexOK, NEW s, NEW p, steps = Append(s, p), ToService(s),
         CalledLast(p) \/ FieldLast(p), ImplIsGuessed
  PROVE  ambiguous = TRUE
<1>1. PICK i \in DOMAIN steps : /\ steps[i].kind \in {"service_call", "likely_service"}
                                /\ steps[i].of \in Interface
                                /\ Cardinality(impls[steps[i].of]) > 1
  BY DEF ImplIsGuessed
<1>2. i # Len(s) + 1
  BY <1>1, AppendedStep DEF CalledLast, FieldLast
<1>3. i \in DOMAIN s /\ steps[i] = s[i]
  BY <1>1, <1>2, AppendedStep
<1> QED
  BY <1>1, <1>3, GuessIsTold DEF ImplIsGuessed

\* A finished trace that is neither at its start nor at a service.
LEMMA PersistentEnd ==
  ASSUME Ended, AtPersistence
  PROVE  \E s, p : steps = Append(s, p) /\ ToService(s) /\ (CalledLast(p) \/ FieldLast(p))
<1>1. CASE steps = <<Start>>
  BY <1>1 DEF AtPersistence, Last, Start, Step
<1>2. CASE ToService(steps)
  BY <1>2, ServiceIsLast DEF AtPersistence, Last
<1> QED
  BY <1>1, <1>2 DEF Ended

-----------------------------------------------------------------------------

\* The variables keep their types, for any index.
THEOREM TypeCorrect == Spec => []TypeOK
  BY TraceInvariant, PTL DEF TraceInv

\* trace_endpoint: "high" down to persistence means recorded calls only, from a handler
\* whose own calls reach one service, into a named or only implementation.
THEOREM HighMeansForced == Spec => []HighIsForced
<1>1. TraceInv => HighIsForced
  <2> SUFFICES ASSUME TraceInv, pc = "done", overall = "high", AtPersistence
               PROVE  /\ ~ServiceIsGuessed /\ ~ImplIsGuessed
                      /\ \A i \in 2 .. Len(steps) : steps[i].by = "call"
    BY DEF HighIsForced
  <2>1. IndexOK /\ TypeOK /\ Ended
    BY DEF TraceInv, PathInv
  <2>2. PICK s, p : steps = Append(s, p) /\ ToService(s) /\ (CalledLast(p) \/ FieldLast(p))
    BY <2>1, PersistentEnd
  <2>3. /\ Len(s) \in 2 .. 3 /\ Len(steps) = Len(s) + 1 /\ DOMAIN steps = 1 .. Len(s) + 1
        /\ \A i \in 1 .. Len(s) : steps[i] = s[i]
        /\ steps[Len(s) + 1] = p
    BY <2>2, AppendedStep
  <2>4. \A i \in DOMAIN steps : steps[i].conf = "high"
    <3> DEFINE levels == {steps[i].conf : i \in DOMAIN steps}
    <3>1. Len(steps) # 1
      BY <2>3
    <3>2. MinConfidence(levels) = "high"
      BY <3>1 DEF TraceInv, DoneInv
    <3>3. levels \in SUBSET Level
      <4>1. ASSUME NEW i \in DOMAIN steps PROVE steps[i].conf \in Level
        BY <2>1, <4>1, LevelOfStep
      <4> QED
        BY <4>1
    <3>4. levels # {}
      <4>1. 1 \in DOMAIN steps
        BY <2>3
      <4> QED
        BY <4>1
    <3>5. levels = {"high"}
      BY <3>2, <3>3, <3>4, WeakestLevel
    <3> QED
      BY <3>5
  <2>5. \A i \in 2 .. Len(s) : s[i].conf = "high" /\ s[i].by = "call"
    BY <2>2, <2>3, <2>4, ServiceIsLast
  <2>6. ~ServiceIsGuessed
    BY <2>2, <2>5, ServiceIsLast
  <2>7. p.conf = "high"
    BY <2>3, <2>4
  <2>8. CalledLast(p) /\ ~ambiguous
    BY <2>2, <2>7 DEF CalledLast, FieldLast
  <2>9. ~ImplIsGuessed
    BY <2>1, <2>2, <2>8, GuessedImplIsAmbiguous
  <2>10. ASSUME NEW i \in 2 .. Len(steps) PROVE steps[i].by = "call"
    <3>1. CASE i = Len(s) + 1
      BY <2>3, <2>8, <3>1 DEF CalledLast
    <3>2. CASE i # Len(s) + 1
      BY <2>3, <2>5, <3>2
    <3> QED
      BY <3>1, <3>2
  <2> QED
    BY <2>6, <2>9, <2>10
<1> QED
  BY TraceInvariant, <1>1, PTL

\* trace_endpoint: without a warning the path reaches persistence, the handler's own
\* calls reach one service, and no implementation was picked where none is named.
THEOREM SilenceMeansComplete == Spec => []SilenceIsComplete
<1>1. TraceInv => SilenceIsComplete
  <2> SUFFICES ASSUME TraceInv, pc = "done", warnings = {}
               PROVE  AtPersistence /\ ~ServiceIsGuessed /\ ~ImplIsGuessed
    BY DEF SilenceIsComplete
  <2>1. IndexOK /\ Ended /\ ~ServiceIsGuessed /\ ~ambiguous
    BY DEF TraceInv, PathInv, ToldInv
  <2>2. steps # <<Start>>
    BY DEF TraceInv, DoneInv
  <2>3. ~ToService(steps)
    <3>1. ASSUME ToService(steps) PROVE FALSE
      <4>1. service # NoClass
        BY <3>1, IndexAssumption DEF ToService
      <4>2. Last(steps).kind \in {"service_call", "likely_service"}
        BY <3>1, ServiceIsLast DEF Last
      <4> QED
        BY <4>1, <4>2 DEF TraceInv, DoneInv
    <3> QED
      BY <3>1
  <2>4. PICK s, p : steps = Append(s, p) /\ ToService(s) /\ (CalledLast(p) \/ FieldLast(p))
    BY <2>1, <2>2, <2>3 DEF Ended
  <2>5. AtPersistence
    BY <2>4, AppendedStep DEF AtPersistence, CalledLast, FieldLast
  <2>6. ~ImplIsGuessed
    BY <2>1, <2>4, GuessedImplIsAmbiguous
  <2> QED
    BY <2>1, <2>5, <2>6
<1> QED
  BY TraceInvariant, <1>1, PTL

\* trace_endpoint: what the index records is followed before anything is guessed.
THEOREM CallsComeFirst == Spec => []RecordedCallsAreFollowed
<1> DEFINE Recorded == \/ Calls(handler, ServiceLike)
                       \/ \E h \in Helper : h \in ToSet(handler) /\ Calls(helper[h], ServiceLike)
<1>1. Recorded => ~Uncalled
  <2>1. Calls(handler, ServiceLike) => ServiceCalls # {}
    BY DEF Calls, ServiceCalls, IsService
  <2>2. ASSUME NEW h \in Helper, h \in ToSet(handler), Calls(helper[h], ServiceLike)
        PROVE  \E i \in DOMAIN handler : Delegates(handler[i])
    BY <2>2 DEF Calls, ToSet, Delegates, IsService
  <2> QED
    BY <2>1, <2>2 DEF Uncalled
<1>2. TraceInv => RecordedCallsAreFollowed
  <2> SUFFICES ASSUME TraceInv, pc = "done"
               PROVE  /\ Recorded => \E i \in DOMAIN steps : steps[i].kind = "service_call"
                      /\ service # NoClass /\ Reaches =>
                           /\ Last(steps).kind \in {"persistence", "repository_call"}
                           /\ Last(steps).by = "call"
    BY DEF RecordedCallsAreFollowed, Reaches
  <2>1. Ended
    BY DEF TraceInv, PathInv
  <2>2. CASE steps = <<Start>> /\ Unserved /\ Uncalled
    BY <1>1, <2>2 DEF Unserved
  <2>3. CASE ToService(steps) /\ ~Reaches
    <3>1. DOMAIN steps = 1 .. Len(steps)
      BY DEF TraceInv, TypeOK
    <3> QED
      BY <1>1, <2>3, <3>1, ServiceIsLast
  <2>4. ASSUME NEW s, NEW p, steps = Append(s, p), ToService(s), CalledLast(p) \/ FieldLast(p)
        PROVE  /\ Recorded => \E i \in DOMAIN steps : steps[i].kind = "service_call"
               /\ service # NoClass /\ Reaches =>
                    /\ Last(steps).kind \in {"persistence", "repository_call"}
                    /\ Last(steps).by = "call"
    <3>1. /\ DOMAIN steps = 1 .. Len(s) + 1 /\ Len(s) \in 2 .. 3 /\ Last(steps) = p
          /\ \A i \in 1 .. Len(s) : steps[i] = s[i]
      BY <2>4, AppendedStep
    <3>2. Recorded => \E i \in 1 .. Len(s) : s[i].kind = "service_call"
      BY <1>1, <2>4, ServiceIsLast
    <3>3. \A i \in 1 .. Len(s) : i \in DOMAIN steps
      BY <3>1
    <3>4. Recorded => \E i \in DOMAIN steps : steps[i].kind = "service_call"
      BY <3>1, <3>2, <3>3
    <3> QED
      BY <2>4, <3>1, <3>4 DEF CalledLast, FieldLast
  <2> QED
    BY <2>1, <2>2, <2>3, <2>4 DEF Ended
<1> QED
  BY TraceInvariant, <1>2, PTL

-----------------------------------------------------------------------------
(* What has been told is so.                                                *)

ServiceStep == {"service_call", "likely_service"}
NoServiceField == \A i \in DOMAIN injected[Controller] : ~IsService(injected[Controller][i])
NoPersistentField == \A i \in DOMAIN injected[service] : ~Persists(injected[service][i])

DeservedInv ==
  /\ "not_followed" \in warnings => ServiceIsGuessed
  /\ "ambiguous" \in warnings => ambiguous = TRUE /\ pc \in {"fields", "conclude", "done"}
  /\ "incomplete" \in warnings =>
       pc = "done" /\ service # NoClass /\ Last(steps).kind \in ServiceStep
  /\ "unresolved" \in warnings => pc = "done" /\ Len(steps) = 1
  /\ pc \in {"conclude", "done"} =>
       /\ service = NoClass => NoServiceField
       /\ service # NoClass /\ Last(steps).kind \in ServiceStep => NoPersistentField

\* The step into persistence is the last one, and of a kind of its own.
LEMMA LastIsPersistence ==
  ASSUME TypeOK, NEW ref, NEW conf
  PROVE  /\ Last(Append(steps, StepFor(ref, "repository_call", "", conf, "call"))).kind \notin ServiceStep
         /\ Last(Append(steps, StepFor(ref, "", "likely_repository", conf, "injection"))).kind \notin ServiceStep
<1>1. \A p : Last(Append(steps, p)) = p
  BY DEF TypeOK, Last
<1>2. /\ StepFor(ref, "repository_call", "", conf, "call").kind \in {"persistence", "repository_call"}
      /\ StepFor(ref, "", "likely_repository", conf, "injection").kind \in {"persistence", "likely_repository"}
  BY DEF StepFor, Step
<1> QED
  BY <1>1, <1>2 DEF ServiceStep

\* The steps to a service tell only of other services, and look at every field
\* before they give up.
LEMMA DeservedToService ==
  ASSUME TraceInv, DeservedInv,
         ResolveEndpoint \/ FollowServiceCall \/ NoServiceCall \/ FollowHelper \/ NoHelper \/ FollowInjected
  PROVE  DeservedInv'
<1> USE DEF DeservedInv
<1>1. CASE ResolveEndpoint \/ NoServiceCall \/ NoHelper \/ FollowHelper
  <2>1. /\ pc \in {"endpoint", "service", "helper"} /\ UNCHANGED <<index, warnings>>
        /\ pc' \in {"not_found", "service", "helper", "inject", "body"}
    BY <1>1 DEF ResolveEndpoint, NoServiceCall, NoHelper, FollowHelper, answer
  <2> QED
    BY <2>1, IndexIsFixed
<1>2. CASE FollowServiceCall
  <2> DEFINE first == SelectInSeq(handler, IsService)
  <2>1. /\ pc = "service" /\ pc' = "body" /\ UNCHANGED index /\ ServiceCalls # {}
        /\ warnings' = IF Others(first) = {} THEN warnings ELSE warnings \cup {"not_followed"}
    BY <1>2 DEF FollowServiceCall
  <2>2. first \in DOMAIN handler /\ IsService(handler[first])
    <3>1. handler \in Seq(Ref \cup Helper) /\ \E i \in DOMAIN handler : IsService(handler[i])
      BY <2>1 DEF ServiceCalls, TraceInv, IndexOK
    <3> QED
      BY <3>1, FirstService
  <2> HIDE DEF first
  <2>3. Others(first) # {} => ServiceIsGuessed
    BY <2>2 DEF Others, ServiceCalls, ServiceIsGuessed
  <2>4. UNCHANGED ServiceIsGuessed
    BY <2>1, IndexIsFixed
  <2> QED
    BY <2>1, <2>3, <2>4
<1>3. CASE FollowInjected
  <2> DEFINE i == SelectInSeq(injected[Controller], IsService)
  <2>1. /\ pc = "inject" /\ pc' \in {"body", "conclude"} /\ UNCHANGED <<index, warnings>>
        /\ pc' = "conclude" => i = 0 /\ UNCHANGED service
    BY <1>3 DEF FollowInjected, answer
  <2>2. service = NoClass
    BY <2>1 DEF TraceInv, PathInv, Unserved
  <2>3. pc' = "conclude" => NoServiceField'
    <3>1. injected[Controller] \in Seq(Ref)
      BY IndexAssumption DEF TraceInv, IndexOK
    <3>2. i = 0 => NoServiceField
      BY <3>1, FirstService DEF NoServiceField
    <3>3. UNCHANGED NoServiceField
      BY <2>1 DEF index, NoServiceField, IsService, Target, ResolveTypeToClass
    <3> QED
      BY <2>1, <3>2, <3>3
  <2> QED
    BY <2>1, <2>2, <2>3, IndexIsFixed
<1> QED
  BY <1>1, <1>2, <1>3

\* So do the steps to persistence.
LEMMA DeservedToPersistence ==
  ASSUME TraceInv, DeservedInv, FindRepositoryCall \/ FindInjectedRepository
  PROVE  DeservedInv'
<1> USE DEF DeservedInv
<1>1. CASE FindRepositoryCall
  <2> DEFINE calls == IF callee = NoMethod THEN NoMethod ELSE MethodInClass(service, callee)
  <2> DEFINE i == IF calls = NoMethod THEN 0 ELSE SelectInSeq(calls, Persists)
  <2> DEFINE conf == IF ambiguous THEN "medium" ELSE "high"
  <2>1. /\ pc = "body" /\ UNCHANGED <<index, service, ambiguous>>
        /\ warnings' = IF ambiguous THEN warnings \cup {"ambiguous"} ELSE warnings
        /\ \/ pc' = "fields"
           \/ /\ pc' = "conclude"
              /\ steps' = Append(steps, StepFor(calls[i], "repository_call", "", conf, "call"))
    BY <1>1 DEF FindRepositoryCall
  <2>2. service # NoClass /\ ambiguous \in BOOLEAN /\ TypeOK
    BY <2>1, IndexAssumption DEF TraceInv, PathInv, ToService, TypeOK
  <2> HIDE DEF calls, i, conf
  <2>3. pc' = "conclude" => Last(steps').kind \notin ServiceStep
    BY <2>1, <2>2, LastIsPersistence
  <2> QED
    BY <2>1, <2>2, <2>3, IndexIsFixed
<1>2. CASE FindInjectedRepository
  <2> DEFINE i == SelectInSeq(injected[service], Persists)
  <2>1. /\ pc = "fields" /\ pc' = "conclude" /\ UNCHANGED <<index, service, ambiguous, warnings>>
        /\ \/ i = 0
           \/ steps' = Append(steps, StepFor(injected[service][i], "", "likely_repository", "medium", "injection"))
    BY <1>2 DEF FindInjectedRepository
  <2>2. service \in Class /\ service # NoClass /\ TypeOK /\ IndexOK
    BY <2>1, IndexAssumption DEF TraceInv, PathInv, ToService
  <2>3. i = 0 => NoPersistentField'
    <3>1. i = 0 => NoPersistentField
      <4>1. injected[service] \in Seq(Ref)
        BY <2>2 DEF IndexOK
      <4>2. injected[service] \in Seq(Ref \cup Helper)
        BY <4>1
      <4> QED
        BY <4>1, <4>2, FirstPersisting DEF NoPersistentField
    <3>2. UNCHANGED NoPersistentField
      BY <2>1 DEF index, NoPersistentField, Persists, IsRepository, Target, ResolveTypeToClass
    <3> QED
      BY <3>1, <3>2
  <2> HIDE DEF i
  <2>4. i # 0 => Last(steps').kind \notin ServiceStep
    BY <2>1, <2>2, LastIsPersistence
  <2> QED
    BY <2>1, <2>2, <2>3, <2>4, IndexIsFixed
<1> QED
  BY <1>1, <1>2

\* In every state, what has been told is so.
LEMMA DeservedInvariant == Spec => [](TraceInv /\ DeservedInv)
<1>1. Init => DeservedInv
  BY DEF Init, DeservedInv
<1>2. TraceInv /\ DeservedInv /\ [Next]_vars => DeservedInv'
  <2> SUFFICES ASSUME TraceInv, DeservedInv, [Next]_vars PROVE DeservedInv'
    OBVIOUS
  <2>1. CASE Conclude
    <3>1. /\ pc = "conclude" /\ pc' = "done"
          /\ UNCHANGED <<index, steps, service, callee, ambiguous>>
          /\ warnings' = warnings \cup
               (IF service # NoClass /\ Last(steps).kind \in {"service_call", "likely_service"}
                THEN {"incomplete"} ELSE {}) \cup
               (IF Len(steps) = 1 THEN {"unresolved"} ELSE {})
      BY <2>1 DEF Conclude
    <3>2. UNCHANGED <<ServiceIsGuessed, NoServiceField, NoPersistentField>>
      BY <3>1 DEF index, ServiceIsGuessed, NoServiceField, NoPersistentField,
         Persists, IsRepository, IsService, Target, ResolveTypeToClass
    <3> QED
      BY <3>1, <3>2 DEF DeservedInv, ServiceStep
  <2>2. CASE UNCHANGED vars
    <3>1. UNCHANGED <<index, pc, answer>> /\ UNCHANGED <<service, steps, warnings, ambiguous>>
      BY <2>2 DEF vars, answer
    <3>2. UNCHANGED <<ServiceIsGuessed, NoServiceField, NoPersistentField>>
      BY <3>1 DEF index, ServiceIsGuessed, NoServiceField, NoPersistentField,
         Persists, IsRepository, IsService, Target, ResolveTypeToClass
    <3> QED
      BY <3>1, <3>2 DEF DeservedInv
  <2> QED
    BY <2>1, <2>2, DeservedToService, DeservedToPersistence DEF Next
<1> QED
  BY <1>1, <1>2, InitTraceInv, NextTraceInv, PTL DEF Spec

\* A pick that is told to be arbitrary is one of several, none of them named.
LEMMA ToldPickIsGuessed ==
  ASSUME IndexOK, NEW s, ToService(s), ambiguous = TRUE
  PROVE  /\ service \notin Canonical
         /\ \E i \in 2 .. Len(s) : /\ s[i].kind \in ServiceStep /\ s[i].of \in Interface
                                  /\ Cardinality(impls[s[i].of]) > 1
<1>1. PICK i \in 2 .. Len(s) : s[i].kind \in ServiceStep /\ <<service, ambiguous>> \in FindImpl(s[i].of)
  BY ServiceLength DEF ToService, Called, Delegated, Guessed, ServiceStep
<1> DEFINE c == s[i].of
<1>2. c \in Interface /\ impls[c] # {} /\ impls[c] \cap Canonical = {}
  BY <1>1 DEF FindImpl
<1>3. PICK j \in impls[c] : <<service, ambiguous>> = <<j, Cardinality(impls[c]) > 1>>
  BY <1>1, <1>2 DEF FindImpl
<1>4. Cardinality(impls[c]) > 1 /\ service = j
  BY <1>3
<1> QED
  BY <1>1, <1>2, <1>4

\* trace_endpoint: a warning is never raised for nothing.
THEOREM WarningsAreTrue == Spec => []WarningsAreDeserved
<1>1. TraceInv /\ DeservedInv => WarningsAreDeserved
  <2> SUFFICES ASSUME TraceInv, DeservedInv, pc = "done"
               PROVE  /\ "ambiguous" \in warnings => ImplIsGuessed
                      /\ "incomplete" \in warnings =>
                           service # NoClass /\ NoPersistentField /\ ~Reaches
                      /\ "unresolved" \in warnings => Uncalled /\ NoServiceField
    <3>1. Uncalled => /\ ~Calls(handler, ServiceLike)
                      /\ \A h \in Helper \cap ToSet(handler) : ~Calls(helper[h], ServiceLike)
      BY DEF Uncalled, ServiceCalls, Delegates, Calls, IsService, ToSet
    <3>2. NoServiceField => ~Calls(injected[Controller], ServiceLike)
      BY DEF NoServiceField, Calls, IsService
    <3> QED
      BY <3>1, <3>2 DEF WarningsAreDeserved, DeservedInv, NoPersistentField, Reaches
  <2>1. IndexOK /\ TypeOK /\ Ended
    BY DEF TraceInv, PathInv
  <2>2. CASE steps = <<Start>> /\ Unserved /\ Uncalled
    BY <2>2 DEF Unserved, DeservedInv
  <2>3. CASE ToService(steps) /\ ~Reaches
    <3>1. Len(steps) # 1 /\ DOMAIN steps = 1 .. Len(steps)
      <4>1. Len(steps) \in 2 .. 3 /\ StepsOK(steps)
        BY <2>3, ServiceLength
      <4> QED
        BY <4>1 DEF StepsOK
    <3>2. ambiguous = TRUE => ImplIsGuessed
      <4>1. service # NoClass
        BY <2>3, IndexAssumption DEF ToService
      <4> QED
        BY <2>1, <2>3, <3>1, <4>1, ToldPickIsGuessed DEF ImplIsGuessed, ServiceStep
    <3> QED
      BY <2>3, <3>1, <3>2 DEF DeservedInv
  <2>4. ASSUME NEW s, NEW p, steps = Append(s, p), ToService(s), CalledLast(p) \/ FieldLast(p)
        PROVE  /\ "ambiguous" \in warnings => ImplIsGuessed
               /\ "incomplete" \notin warnings /\ "unresolved" \notin warnings
    <3>1. /\ DOMAIN steps = 1 .. Len(s) + 1 /\ Len(s) \in 2 .. 3 /\ Len(steps) = Len(s) + 1
          /\ Last(steps) = p /\ \A i \in 1 .. Len(s) : steps[i] = s[i]
      BY <2>4, AppendedStep
    <3>2. "incomplete" \notin warnings /\ "unresolved" \notin warnings
      BY <2>4, <3>1 DEF DeservedInv, CalledLast, FieldLast, ServiceStep
    <3>3. ambiguous = TRUE => ImplIsGuessed
      <4>1. service # NoClass
        BY <2>4, IndexAssumption DEF ToService
      <4>2. \A i \in 2 .. Len(s) : i \in DOMAIN steps /\ steps[i] = s[i]
        BY <3>1
      <4> QED
        BY <2>1, <2>4, <4>1, <4>2, ToldPickIsGuessed DEF ImplIsGuessed, ServiceStep
    <3> QED
      BY <3>2, <3>3 DEF DeservedInv
  <2> QED
    BY <2>1, <2>2, <2>3, <2>4 DEF Ended
<1> QED
  BY DeservedInvariant, <1>1, PTL
-----------------------------------------------------------------------------
(* Every step leads on from the one before.                                 *)

\* What the method the trace stands at calls, or the fields of its class.
Here(i) ==
  IF i = 2 THEN handler
  ELSE IF steps[i - 1].kind = "controller_helper" THEN helper[steps[i - 1].of]
  ELSE IF callee = NoMethod THEN NoMethod ELSE MethodInClass(service, callee)
FieldsOf(i) == injected[IF steps[i].kind = "likely_service" THEN Controller ELSE service]
LinksAt(i) == IF steps[i].by = "call" THEN CallsOn(Here(i)) ELSE ToSet(FieldsOf(i))
Linked(i) == \E call \in LinksAt(i) : steps[i].of = call \/ steps[i].of = Target(call)

LinkInv ==
  pc \in {"body", "fields", "conclude", "done"} => \A i \in 2 .. Len(steps) : Linked(i)

\* A step that is not the last one keeps its link.
LEMMA LinkStays ==
  ASSUME UNCHANGED <<index, service, callee>>, NEW i \in 2 .. Len(steps), Len(steps) \in Nat,
         \A j \in 1 .. Len(steps) : steps'[j] = steps[j]
  PROVE  Linked(i)' = Linked(i)
<1>1. steps'[i] = steps[i] /\ (i # 2 => steps'[i - 1] = steps[i - 1])
  OBVIOUS
<1>2. Here(i)' = Here(i)
  BY <1>1 DEF Here, MethodInClass, index
<1>3. FieldsOf(i)' = FieldsOf(i)
  BY <1>1 DEF FieldsOf, index
<1>4. LinksAt(i)' = LinksAt(i)
  BY <1>1, <1>2, <1>3 DEF LinksAt
<1> QED
  BY <1>1, <1>4 DEF Linked

LEMMA LastAppended ==
  ASSUME NEW X, NEW s \in Seq(X), NEW p, NEW n \in Nat, n = Len(s) + 1, Len(s) \in 2 .. 3
  PROVE  /\ Len(Append(s, p)) = n /\ Append(s, p)[n] = p /\ Append(s, p)[n - 1] = s[Len(s)]
         /\ \A j \in 1 .. Len(s) : Append(s, p)[j] = s[j]
<1>1. s \in Seq(X \cup {p}) /\ Len(s) \in Nat
  OBVIOUS
<1>2. Len(Append(s, p)) = Len(s) + 1 /\ Append(s, p)[Len(s) + 1] = p
  BY <1>1
<1>3. \A j \in 1 .. Len(s) : Append(s, p)[j] = s[j]
  BY <1>1
<1>4. n - 1 = Len(s) /\ n - 1 \in 1 .. Len(s)
  BY <1>1
<1> QED
  BY <1>2, <1>3, <1>4

LEMMA CallIsThere ==
  ASSUME NEW X, NEW calls \in Seq(X), NEW i \in DOMAIN calls
  PROVE  calls[i] \in ToSet(calls) /\ (calls # NoMethod => calls[i] \in CallsOn(calls))
  BY DEF ToSet, CallsOn

LEMMA LinkedServiceCall == ASSUME TraceInv, FollowServiceCall PROVE LinkInv'
<1> DEFINE first == SelectInSeq(handler, IsService)
<1> DEFINE conf == IF Others(first) = {} THEN "high" ELSE "medium"
<1>1. /\ steps = <<Start>> /\ UNCHANGED handler
      /\ steps' = Append(steps, Step("service_call", Target(handler[first]), conf, "call"))
      /\ \A call : Target(call)' = Target(call)
  BY DEF FollowServiceCall, TraceInv, PathInv, index, Target, ResolveTypeToClass
<1>2. first \in DOMAIN handler /\ handler \in Seq(Ref \cup Helper)
  <2>1. handler \in Seq(Ref \cup Helper) /\ \E i \in DOMAIN handler : IsService(handler[i])
    BY DEF FollowServiceCall, ServiceCalls, TraceInv, IndexOK
  <2> QED
    BY <2>1, FirstService
<1> HIDE DEF first, conf
<1>3. Len(steps') = 2 /\ steps'[2] = Step("service_call", Target(handler[first]), conf, "call")
  BY <1>1
<1>4. handler[first] \in CallsOn(handler)
  <2>1. handler # NoMethod
    BY <1>2, IndexAssumption
  <2> QED
    BY <1>2, <2>1, CallIsThere
<1>5. LinksAt(2)' = CallsOn(handler)
  BY <1>1, <1>3 DEF LinksAt, Here, Step, CallsOn
<1>6. Linked(2)'
  BY <1>1, <1>3, <1>4, <1>5 DEF Linked, Step
<1>7. \A i \in 2 .. Len(steps') : i = 2
  BY <1>3
<1> QED
  BY <1>6, <1>7 DEF LinkInv

LEMMA LinkedHelper == ASSUME TraceInv, FollowHelper PROVE LinkInv'
<1> DEFINE at == SelectInSeq(handler, Delegates)
<1> DEFINE via == handler[at]
<1> DEFINE on == SelectInSeq(helper[via], IsService)
<1> DEFINE hops == <<Step("controller_helper", via, "high", "call"),
                     Step("service_call", Target(helper[via][on]), "high", "call")>>
<1>1. /\ steps = <<Start>> /\ UNCHANGED <<handler, helper>>
      /\ steps' = steps \o hops /\ at # 0
      /\ \A call : Target(call)' = Target(call)
  BY DEF FollowHelper, TraceInv, PathInv, index, Target, ResolveTypeToClass
<1>2. handler \in Seq(Ref \cup Helper) /\ IndexOK
  BY DEF TraceInv, IndexOK
<1>3. at \in DOMAIN handler /\ Delegates(via)
  BY <1>1, <1>2, FirstHelper
<1>4. via \in Helper /\ helper[via] \in Seq(Ref \cup Helper)
  BY <1>2, <1>3 DEF Delegates, IndexOK
<1>5. on \in DOMAIN helper[via]
  <2>1. \E i \in DOMAIN helper[via] : IsService(helper[via][i])
    BY <1>3 DEF Delegates
  <2> QED
    BY <1>4, <2>1, FirstService
<1>6. via \in CallsOn(handler) /\ helper[via][on] \in CallsOn(helper[via])
  <2>1. handler # NoMethod /\ helper[via] # NoMethod
    BY <1>2, <1>4, IndexAssumption
  <2> HIDE DEF on
  <2>2. via \in CallsOn(handler)
    BY <1>2, <1>3, <2>1, CallIsThere
  <2> HIDE DEF via
  <2> QED
    BY <1>4, <1>5, <2>1, <2>2, CallIsThere
<1> HIDE DEF at, via, on
<1>7. /\ Len(steps') = 3
      /\ steps'[2] = Step("controller_helper", via, "high", "call")
      /\ steps'[3] = Step("service_call", Target(helper[via][on]), "high", "call")
  BY <1>1
<1>8. LinksAt(2)' = CallsOn(handler) /\ LinksAt(3)' = CallsOn(helper[via])
  <2>1. Here(2)' = handler
    BY <1>1 DEF Here
  <2>2. Here(3)' = helper[via]
    BY <1>1, <1>7 DEF Here, Step
  <2> QED
    BY <1>7, <2>1, <2>2 DEF LinksAt, Step, CallsOn
<1>9. Linked(2)' /\ Linked(3)'
  BY <1>1, <1>6, <1>7, <1>8 DEF Linked, Step
<1>10. \A i \in 2 .. Len(steps') : i = 2 \/ i = 3
  BY <1>7
<1> QED
  BY <1>9, <1>10 DEF LinkInv

LEMMA LinkedField == ASSUME TraceInv, FollowInjected PROVE LinkInv'
<1> DEFINE i == SelectInSeq(injected[Controller], IsService)
<1> DEFINE ref == injected[Controller][i]
<1>1. /\ steps = <<Start>> /\ UNCHANGED injected
      /\ \A call : Target(call)' = Target(call)
      /\ IF i = 0 THEN UNCHANGED steps
         ELSE steps' = Append(steps, Step("likely_service", ResolveTypeToClass(ref), "medium", "injection"))
  BY DEF FollowInjected, answer, TraceInv, PathInv, index, Target, ResolveTypeToClass
<1>2. injected[Controller] \in Seq(Ref)
  BY IndexAssumption DEF TraceInv, IndexOK
<1>3. i # 0 => i \in DOMAIN injected[Controller]
  BY <1>2, FirstService
<1> HIDE DEF i
<1>4. CASE i = 0
  <2>1. Len(steps') = 1
    <3>1. steps' = <<Start>>
      BY <1>1, <1>4
    <3> QED
      BY <3>1
  <2>2. \A j \in 2 .. Len(steps') : FALSE
    BY <2>1
  <2> QED
    BY <2>2 DEF LinkInv
<1>5. CASE i # 0
  <2>1. ref \in ToSet(injected[Controller]) /\ ref \in Ref
    BY <1>2, <1>3, <1>5, CallIsThere
  <2>2. Target(ref) = ResolveTypeToClass(ref)
    BY <2>1, IndexAssumption DEF Target
  <2> HIDE DEF ref
  <2>3. /\ Len(steps') = 2
        /\ steps'[2] = Step("likely_service", ResolveTypeToClass(ref), "medium", "injection")
    <3>1. PICK p : p = Step("likely_service", ResolveTypeToClass(ref), "medium", "injection")
      OBVIOUS
    <3>2. steps = <<Start>> /\ steps' = Append(steps, p)
      BY <1>1, <1>5, <3>1
    <3>3. Len(steps') = 2 /\ steps'[2] = p
      BY <3>2
    <3> QED
      BY <3>1, <3>3
  <2>4. LinksAt(2)' = ToSet(injected[Controller])
    BY <1>1, <2>3 DEF LinksAt, FieldsOf, Step, ToSet
  <2>5. Linked(2)'
    BY <1>1, <2>1, <2>2, <2>3, <2>4 DEF Linked, Step
  <2>6. \A j \in 2 .. Len(steps') : j = 2
    BY <2>3
  <2> QED
    BY <2>5, <2>6 DEF LinkInv
<1> QED
  BY <1>4, <1>5

\* A last step keeps the links of the others.
LEMMA LinkedLast ==
  ASSUME TypeOK, ToService(steps), \A i \in 2 .. Len(steps) : Linked(i),
         UNCHANGED <<index, service, callee>>, NEW p, steps' = Append(steps, p),
         NEW n \in Nat, n = Len(steps) + 1, Linked(n)'
  PROVE  LinkInv'
<1>1. Len(steps) \in 2 .. 3 /\ Len(steps') = Len(steps) + 1
      /\ \A j \in 1 .. Len(steps) : steps'[j] = steps[j]
  BY ServiceLength DEF TypeOK
<1>2. \A i \in 2 .. Len(steps) : Linked(i)'
  BY <1>1, LinkStays
<1>3. \A i \in 2 .. Len(steps') : i \in 2 .. Len(steps) \/ i = n
  BY <1>1
<1>4. \A i \in 2 .. Len(steps') : Linked(i)'
  BY <1>2, <1>3
<1> QED
  BY <1>4 DEF LinkInv

LEMMA LinkedRepositoryCall == ASSUME TraceInv, LinkInv, FindRepositoryCall PROVE LinkInv'
<1> DEFINE calls == IF callee = NoMethod THEN NoMethod ELSE MethodInClass(service, callee)
<1> DEFINE i == IF calls = NoMethod THEN 0 ELSE SelectInSeq(calls, Persists)
<1> DEFINE conf == IF ambiguous THEN "medium" ELSE "high"
<1> DEFINE step == StepFor(calls[i], "repository_call", "", conf, "call")
<1>1. /\ pc = "body" /\ UNCHANGED <<index, service, callee>>
      /\ IF i = 0 THEN UNCHANGED steps ELSE steps' = Append(steps, step)
  BY DEF FindRepositoryCall
<1>2. /\ IndexOK /\ TypeOK /\ ToService(steps) /\ Len(steps) \in 2 .. 3
      /\ \A j \in 2 .. Len(steps) : Linked(j)
  BY <1>1, ServiceLength DEF TraceInv, PathInv, LinkInv
<1>n. PICK n \in Nat : n = Len(steps) + 1 /\ n # 2
  BY <1>2
<1>a. ASSUME NEW p, steps' = Append(steps, p)
      PROVE  steps'[n] = p /\ steps'[n - 1] = steps[Len(steps)]
  <2>1. PICK X : steps \in Seq(X)
    BY <1>2 DEF TypeOK
  <2> QED
    BY <1>2, <1>n, <1>a, <2>1, LastAppended
<1>3. CASE i = 0
  <2>1. \A j \in 2 .. Len(steps) : Linked(j)'
    BY <1>1, <1>2, <1>3, LinkStays
  <2> QED
    BY <1>1, <1>3, <2>1 DEF LinkInv
<1>4. CASE i # 0
  <2>1. calls # NoMethod /\ calls \in Seq(Ref \cup Helper)
    BY <1>2, <1>4, MethodIsSeq DEF ToService, TypeOK
  <2>2. i \in DOMAIN calls
    <3>1. i = SelectInSeq(calls, Persists)
      BY <2>1
    <3> HIDE DEF calls, i
    <3> QED
      BY <1>4, <2>1, <3>1, FirstPersisting
  <2>3. Here(n)' = calls
    <3>1. steps'[n - 1] = steps[Len(steps)]
      BY <1>1, <1>4, <1>a
    <3>2. steps[Len(steps)].kind # "controller_helper"
      BY <1>2, ServiceIsLast
    <3> QED
      BY <1>1, <1>n, <3>1, <3>2 DEF Here, MethodInClass, index
  <2> HIDE DEF calls, i, conf
  <2>4. calls[i] \in CallsOn(calls)
    BY <2>1, <2>2, CallIsThere
  <2>5. step.by = "call" /\ (step.of = calls[i] \/ step.of = Target(calls[i]))
    BY DEF StepFor, Step
  <2>6. steps'[n] = step
    BY <1>1, <1>4, <1>a
  <2> HIDE DEF step
  <2>7. LinksAt(n)' = CallsOn(calls)
    BY <2>3, <2>5, <2>6 DEF LinksAt, CallsOn
  <2>8. \A call : Target(call)' = Target(call)
    BY <1>1 DEF index, Target, ResolveTypeToClass
  <2>9. Linked(n)'
    BY <2>4, <2>5, <2>6, <2>7, <2>8 DEF Linked
  <2> QED
    BY <1>1, <1>2, <1>4, <1>n, <2>9, LinkedLast
<1> QED
  BY <1>3, <1>4

LEMMA LinkedRepositoryField == ASSUME TraceInv, LinkInv, FindInjectedRepository PROVE LinkInv'
<1> DEFINE i == SelectInSeq(injected[service], Persists)
<1> DEFINE ref == injected[service][i]
<1> DEFINE step == StepFor(ref, "", "likely_repository", "medium", "injection")
<1>1. /\ pc = "fields" /\ UNCHANGED <<index, service, callee>>
      /\ steps' = IF i = 0 THEN steps ELSE Append(steps, step)
  BY DEF FindInjectedRepository
<1>2. /\ IndexOK /\ TypeOK /\ ToService(steps) /\ Len(steps) \in 2 .. 3
      /\ \A j \in 2 .. Len(steps) : Linked(j)
  BY <1>1, ServiceLength DEF TraceInv, PathInv, LinkInv
<1>n. PICK n \in Nat : n = Len(steps) + 1 /\ n # 2
  BY <1>2
<1>a. ASSUME NEW p, steps' = Append(steps, p)
      PROVE  steps'[n] = p /\ steps'[n - 1] = steps[Len(steps)]
  <2>1. PICK X : steps \in Seq(X)
    BY <1>2 DEF TypeOK
  <2> QED
    BY <1>2, <1>n, <1>a, <2>1, LastAppended
<1>3. injected[service] \in Seq(Ref)
  BY <1>2 DEF IndexOK, ToService
<1>4. i # 0 => i \in DOMAIN injected[service]
  <2>1. injected[service] \in Seq(Ref \cup Helper)
    BY <1>3
  <2> QED
    BY <2>1, FirstPersisting
<1> HIDE DEF i
<1>5. CASE i = 0
  <2>1. \A j \in 2 .. Len(steps) : Linked(j)'
    BY <1>1, <1>2, <1>5, LinkStays
  <2> QED
    BY <1>1, <1>5, <2>1 DEF LinkInv
<1>6. CASE i # 0
  <2>1. ref \in ToSet(injected[service])
    BY <1>3, <1>4, <1>6, CallIsThere
  <2> HIDE DEF ref
  <2>2. /\ step.by = "injection" /\ step.kind # "likely_service"
        /\ step.of = ref \/ step.of = Target(ref)
    BY DEF StepFor, Step
  <2>3. steps'[n] = step
    BY <1>1, <1>6, <1>a
  <2> HIDE DEF step
  <2>4. LinksAt(n)' = ToSet(injected[service])
    BY <1>1, <2>2, <2>3 DEF LinksAt, FieldsOf, index, ToSet
  <2>5. \A call : Target(call)' = Target(call)
    BY <1>1 DEF index, Target, ResolveTypeToClass
  <2>6. Linked(n)'
    BY <2>1, <2>2, <2>3, <2>4, <2>5 DEF Linked
  <2> QED
    BY <1>1, <1>2, <1>6, <1>n, <2>6, LinkedLast
<1> QED
  BY <1>5, <1>6

\* trace_endpoint: no step is made up; each is called or injected where the
\* trace stands.
THEOREM StepsLeadOn == Spec => []EveryStepIsLinked
<1>1. Init => LinkInv
  BY DEF Init, LinkInv
<1>2. TraceInv /\ LinkInv /\ [Next]_vars => LinkInv'
  <2> SUFFICES ASSUME TraceInv, LinkInv, [Next]_vars PROVE LinkInv'
    OBVIOUS
  <2>1. CASE ResolveEndpoint \/ NoServiceCall \/ NoHelper
    BY <2>1 DEF ResolveEndpoint, NoServiceCall, NoHelper, LinkInv
  <2>2. CASE Conclude \/ UNCHANGED vars
    <3>1. UNCHANGED <<index, service, callee, steps>> /\ Len(steps) \in Nat
          /\ (pc' \in {"body", "fields", "conclude", "done"} => pc \in {"body", "fields", "conclude", "done"})
      BY <2>2 DEF Conclude, vars, answer, TraceInv, TypeOK
    <3>2. \A i \in 2 .. Len(steps) : Linked(i)' = Linked(i)
      BY <3>1, LinkStays
    <3> QED
      BY <3>1, <3>2 DEF LinkInv
  <2> QED
    BY <2>1, <2>2, LinkedServiceCall, LinkedHelper, LinkedField, LinkedRepositoryCall,
       LinkedRepositoryField DEF Next
<1>3. LinkInv => EveryStepIsLinked
  BY DEF LinkInv, Linked, LinksAt, Here, FieldsOf, EveryStepIsLinked
<1> QED
  BY <1>1, <1>2, <1>3, InitTraceInv, NextTraceInv, PTL DEF Spec

=============================================================================
