----------------------------- MODULE TraceEndpoint -----------------------------
(***************************************************************************)
(* trace_endpoint of analysis/trace.py: from an endpoint's handler to a    *)
(* service and on to a repository, by recorded calls where there are any,  *)
(* by injected fields and names where there are not.  It answers with a    *)
(* confidence for each step and for the whole.                             *)
(*                                                                         *)
(* The index is chosen in Init and never changes.  A reference is a stored *)
(* type text; Fqn gives the class it is the full name of, Simple those that *)
(* bear its simple name.  A call is a reference (the type of the receiving *)
(* field) or a helper (a call of the controller on itself).  A method's    *)
(* body is the sequence of its calls by line.                              *)
(***************************************************************************)
EXTENDS Integers, Sequences, FiniteSets, SequencesExt

CONSTANTS
  Class,          \* indexed classes
  Controller,     \* the one the endpoint is attributed to
  Interface,      \* classes of kind "interface"
  ServiceLike,    \* by role or by the suffix of the name
  RepositoryLike,
  Helper,         \* the controller's other methods
  Ref,            \* type texts
  PersistenceRef, \* those whose simple name is JdbcTemplate, EntityManager, ...
  Fqn,            \* [Ref -> Class \cup {NoClass}]
  Simple,         \* [Ref -> SUBSET Class]
  HandlerBodies,  \* sequences of calls,
  HelperBodies,   \* functions from helpers to such sequences,
  ServiceBodies,  \* from classes to sequences of references, or NoMethod,
  Injections,     \* from classes to sequences of references,
  Links,          \* from interfaces to implementors: what an index can hold
  Canonical,      \* classes named <interface>Impl
  NoClass, NoMethod

ASSUME IndexAssumption ==
  /\ Controller \in Class /\ Interface \subseteq Class
  /\ NoClass \notin Class /\ Ref \cap Helper = {}
  /\ ServiceLike \cup RepositoryLike \cup Canonical \subseteq Class
  /\ PersistenceRef \subseteq Ref
  /\ Fqn \in [Ref -> Class \cup {NoClass}] /\ Simple \in [Ref -> SUBSET Class]
  /\ NoMethod \notin Ref \cup Helper \cup Seq(Ref) \cup Seq(Ref \cup Helper)
  /\ Links \subseteq [Interface -> SUBSET Class]
  /\ HandlerBodies \subseteq Seq(Ref \cup Helper)
  /\ HelperBodies \subseteq [Helper -> Seq(Ref \cup Helper)]
  /\ ServiceBodies \subseteq [Class -> Seq(Ref) \cup {NoMethod}]
  /\ Injections \subseteq [Class -> Seq(Ref)]

VARIABLES
  handler,   \* calls of the handler
  helper,    \* [Helper -> calls of that method]
  body,      \* [Class -> calls of the method a field call reaches, or NoMethod]
  injected,  \* [Class -> types of its injected fields]
  impls,     \* [Interface -> classes with a class_interface row of that name]
  asked,     \* the row asked for: by id or by search, superseded or not
  pc, steps, service, callee, ambiguous, notFollowed, warnings, overall

index == <<handler, helper, body, injected, impls, asked>>
answer == <<steps, service, callee, ambiguous, notFollowed, warnings, overall>>
vars == <<index, pc, answer>>

Level == {"low", "medium", "high"}
Rank(level) == CASE level = "low" -> 1 [] level = "medium" -> 2 [] level = "high" -> 3

\* Overall confidence is the weakest link.
MinConfidence(S) == CHOOSE l \in S : \A k \in S : Rank(l) <= Rank(k)

Step(kind, of, conf, by) == [kind |-> kind, of |-> of, conf |-> conf, by |-> by]

-----------------------------------------------------------------------------
(* Resolution.                                                              *)

\* The class a type text names: exactly, or else whichever row LIMIT 1 gives.
ResolveTypeToClass(ref) ==
  IF Fqn[ref] # NoClass THEN Fqn[ref]
  ELSE IF Simple[ref] = {} THEN NoClass ELSE CHOOSE c \in Simple[ref] : TRUE

\* The class a call lands in; a self-call carries the controller's own name.
Target(call) == IF call \in Helper THEN Controller ELSE ResolveTypeToClass(call)

IsService(call) == Target(call) \in ServiceLike
IsRepository(call) == Target(call) \in RepositoryLike

\* Mutant: the first of several implementations is as good as a named one.
FindImplUnambiguous(c) ==
  IF c \notin Interface \/ impls[c] = {} THEN {<<c, FALSE>>}
  ELSE {<<i, FALSE>> : i \in impls[c]}

\* An interface stands for its <Name>Impl, or for any implementation; whether
\* that pick is arbitrary is told.
FindImpl(c) ==
  IF c \notin Interface \/ impls[c] = {} THEN {<<c, FALSE>>}
  ELSE IF impls[c] \cap Canonical # {}
       THEN {<<i, FALSE>> : i \in impls[c] \cap Canonical}
       ELSE {<<i, Cardinality(impls[c]) > 1>> : i \in impls[c]}

\* The calls of the method a call names in class c, or NoMethod.
MethodInClass(c, name) ==
  IF name \in Helper THEN (IF c = Controller THEN helper[name] ELSE NoMethod)
                     ELSE body[c]

-----------------------------------------------------------------------------
(* The endpoint.                                                            *)

\* A search skips superseded rows; an id finds them, but the view hides them.
ResolveEndpoint ==
  /\ pc = "endpoint"
  /\ IF asked.superseded
     THEN pc' = "not_found" /\ UNCHANGED steps
     ELSE pc' = "service" /\ steps' = <<Step("controller_method", Controller, "high", "mapping")>>
  /\ UNCHANGED <<index, service, callee, ambiguous, notFollowed, warnings, overall>>

-----------------------------------------------------------------------------
(* The service.                                                             *)

ServiceCalls == {i \in DOMAIN handler : IsService(handler[i])}

\* Mutant: a second call of the same service counts as another one.
OthersByCall(first) == {Target(handler[i]) : i \in ServiceCalls \ {first}}

\* Other service classes the handler calls itself.
Others(first) ==
  {Target(handler[i]) : i \in ServiceCalls} \ {Target(handler[first])}

\* The first service-like call by line is followed; it is a guess as soon as
\* the handler calls another service.
FollowServiceCall ==
  /\ pc = "service" /\ ServiceCalls # {}
  /\ LET first == SelectInSeq(handler, IsService)
         target == Target(handler[first])
     IN  /\ \E r \in FindImpl(target) : service' = r[1] /\ ambiguous' = r[2]
         /\ callee' = handler[first]
         /\ notFollowed' = Others(first)
         /\ steps' = Append(steps, Step("service_call", target,
                       IF Others(first) = {} THEN "high" ELSE "medium", "call"))
         /\ warnings' = IF Others(first) = {} THEN warnings ELSE warnings \cup {"not_followed"}
  /\ pc' = "body"
  /\ UNCHANGED <<index, overall>>

NoServiceCall ==
  /\ pc = "service" /\ ServiceCalls = {}
  /\ pc' = "helper"
  /\ UNCHANGED <<index, answer>>

Delegates(call) == call \in Helper /\ \E i \in DOMAIN helper[call] : IsService(helper[call][i])

\* Mutant: the loop goes on with the next helper after a service was found.
FollowHelperNoBreak ==
  /\ pc = "helper" /\ SelectInSeq(handler, Delegates) # 0
  /\ LET both == SelectSeq(handler, Delegates)
         call(via) == helper[via][SelectInSeq(helper[via], IsService)]
         hops(via) == <<Step("controller_helper", via, "high", "call"),
                        Step("service_call", Target(call(via)), "high", "call")>>
     IN  /\ \E r \in FindImpl(Target(call(Last(both)))) : service' = r[1] /\ ambiguous' = r[2]
         /\ callee' = call(Last(both))
         /\ steps' = steps \o FlattenSeq([i \in DOMAIN both |-> hops(both[i])])
  /\ pc' = "body"
  /\ UNCHANGED <<index, notFollowed, warnings, overall>>

\* A same-class helper the handler calls makes the service call: its first one
\* is followed, whatever else that helper or the next one calls.
FollowHelper ==
  /\ pc = "helper" /\ SelectInSeq(handler, Delegates) # 0
  /\ LET via == handler[SelectInSeq(handler, Delegates)]
         call == helper[via][SelectInSeq(helper[via], IsService)]
     IN  /\ \E r \in FindImpl(Target(call)) : service' = r[1] /\ ambiguous' = r[2]
         /\ callee' = call
         /\ steps' = steps \o <<Step("controller_helper", via, "high", "call"),
                                Step("service_call", Target(call), "high", "call")>>
  /\ pc' = "body"
  /\ UNCHANGED <<index, notFollowed, warnings, overall>>

\* Mutant: only the first helper the handler calls is looked into.
NoHelperAtOnce ==
  /\ pc = "helper"
  /\ LET i == SelectInSeq(handler, LAMBDA c : c \in Helper) IN IF i = 0 THEN TRUE ELSE ~Delegates(handler[i])
  /\ pc' = "inject"
  /\ UNCHANGED <<index, answer>>

NoHelper ==
  /\ pc = "helper" /\ SelectInSeq(handler, Delegates) = 0
  /\ pc' = "inject"
  /\ UNCHANGED <<index, answer>>

\* No call leads to a service: an injected field of such a type does.  No
\* method of it is known.
FollowInjected ==
  /\ pc = "inject"
  /\ LET i == SelectInSeq(injected[Controller], IsService)
         target == ResolveTypeToClass(injected[Controller][i])
     IN  IF i = 0 THEN pc' = "conclude" /\ UNCHANGED answer
         ELSE /\ \E r \in FindImpl(target) : service' = r[1] /\ ambiguous' = r[2]
              /\ steps' = Append(steps, Step("likely_service", target, "medium", "injection"))
              /\ pc' = "body"
              /\ UNCHANGED <<callee, notFollowed, warnings, overall>>
  /\ UNCHANGED index

-----------------------------------------------------------------------------
(* The repository.                                                          *)

Persists(ref) == ref \in PersistenceRef \/ IsRepository(ref)

StepFor(ref, call, injection, conf, by) ==
  IF ref \in PersistenceRef THEN Step("persistence", ref, conf, by)
  ELSE Step(IF by = "call" THEN call ELSE injection, Target(ref), conf, by)

\* Mutant: a call in an arbitrarily picked implementation is a call.
FindRepositoryCallConfident ==
  /\ pc = "body"
  /\ LET calls == IF callee = NoMethod THEN NoMethod ELSE MethodInClass(service, callee)
         i == IF calls = NoMethod THEN 0 ELSE SelectInSeq(calls, Persists)
     IN  IF i = 0 THEN pc' = "fields" /\ UNCHANGED steps
         ELSE /\ steps' = Append(steps, StepFor(calls[i], "repository_call", "",
                            "high", "call"))
              /\ pc' = "conclude"
  /\ warnings' = IF ambiguous THEN warnings \cup {"ambiguous"} ELSE warnings
  /\ UNCHANGED <<index, service, callee, ambiguous, notFollowed, overall>>

\* The first call of the followed method that reaches persistence.  A method
\* of an arbitrary implementation gives no high confidence.
FindRepositoryCall ==
  /\ pc = "body"
  /\ LET calls == IF callee = NoMethod THEN NoMethod ELSE MethodInClass(service, callee)
         i == IF calls = NoMethod THEN 0 ELSE SelectInSeq(calls, Persists)
     IN  IF i = 0 THEN pc' = "fields" /\ UNCHANGED steps
         ELSE /\ steps' = Append(steps, StepFor(calls[i], "repository_call", "",
                            IF ambiguous THEN "medium" ELSE "high", "call"))
              /\ pc' = "conclude"
  /\ warnings' = IF ambiguous THEN warnings \cup {"ambiguous"} ELSE warnings
  /\ UNCHANGED <<index, service, callee, ambiguous, notFollowed, overall>>

\* Otherwise what is injected into the service.
FindInjectedRepository ==
  /\ pc = "fields"
  /\ LET i == SelectInSeq(injected[service], Persists)
     IN  steps' = IF i = 0 THEN steps
                  ELSE Append(steps, StepFor(injected[service][i], "", "likely_repository",
                                             "medium", "injection"))
  /\ pc' = "conclude"
  /\ UNCHANGED <<index, service, callee, ambiguous, notFollowed, warnings, overall>>

\* Mutant: only a service that was called is missed.
ConcludeSilently ==
  /\ pc = "conclude"
  /\ overall' = IF Len(steps) = 1 THEN "low"
                ELSE MinConfidence({steps[i].conf : i \in DOMAIN steps})
  /\ warnings' = warnings \cup
       (IF service # NoClass /\ Last(steps).kind = "service_call"
        THEN {"incomplete"} ELSE {}) \cup
       (IF Len(steps) = 1 THEN {"unresolved"} ELSE {})
  /\ pc' = "done"
  /\ UNCHANGED <<index, steps, service, callee, ambiguous, notFollowed>>

\* Mutant: nothing downstream is the empty minimum.
ConcludeUnknown ==
  /\ pc = "conclude"
  /\ overall' = IF Len(steps) = 1 THEN "unknown"
                ELSE MinConfidence({steps[i].conf : i \in DOMAIN steps})
  /\ warnings' = warnings \cup
       (IF service # NoClass /\ Last(steps).kind \in {"service_call", "likely_service"}
        THEN {"incomplete"} ELSE {}) \cup
       (IF Len(steps) = 1 THEN {"unresolved"} ELSE {})
  /\ pc' = "done"
  /\ UNCHANGED <<index, steps, service, callee, ambiguous, notFollowed>>

\* The warnings about what is missing, and the overall confidence.
Conclude ==
  /\ pc = "conclude"
  /\ overall' = IF Len(steps) = 1 THEN "low"
                ELSE MinConfidence({steps[i].conf : i \in DOMAIN steps})
  /\ warnings' = warnings \cup
       (IF service # NoClass /\ Last(steps).kind \in {"service_call", "likely_service"}
        THEN {"incomplete"} ELSE {}) \cup
       (IF Len(steps) = 1 THEN {"unresolved"} ELSE {})
  /\ pc' = "done"
  /\ UNCHANGED <<index, steps, service, callee, ambiguous, notFollowed>>

-----------------------------------------------------------------------------
Init ==
  /\ handler \in HandlerBodies
  /\ helper \in HelperBodies
  /\ body \in ServiceBodies
  /\ injected \in Injections
  /\ impls \in Links
  /\ asked \in [by : {"id", "search"}, superseded : BOOLEAN]
  /\ pc = "endpoint" /\ steps = <<>>
  /\ service = NoClass /\ callee = NoMethod /\ ambiguous = FALSE
  /\ notFollowed = {} /\ warnings = {} /\ overall = "low"

Next ==
  \/ ResolveEndpoint
  \/ FollowServiceCall \/ NoServiceCall
  \/ FollowHelper \/ NoHelper
  \/ FollowInjected
  \/ FindRepositoryCall \/ FindInjectedRepository
  \/ Conclude

Spec == Init /\ [][Next]_vars

-----------------------------------------------------------------------------
(* Properties.                                                              *)

\* The variables keep their types.
TypeOK ==
  /\ pc \in {"endpoint", "service", "helper", "inject", "body", "fields",
             "conclude", "done", "not_found"}
  /\ steps \in Seq([kind : {"controller_method", "controller_helper", "service_call",
                            "likely_service", "persistence", "repository_call",
                            "likely_repository"},
                    of : Class \cup Helper \cup Ref, conf : Level,
                    by : {"mapping", "call", "injection"}])
  /\ Len(steps) <= 4
  /\ service \in Class \cup {NoClass} /\ callee \in Ref \cup Helper \cup {NoMethod}
  /\ ambiguous \in BOOLEAN /\ notFollowed \subseteq Class
  /\ warnings \subseteq {"not_followed", "ambiguous", "incomplete", "unresolved"}
  /\ overall \in Level

Calls(calls, S) == \E i \in DOMAIN calls : Target(calls[i]) \in S
CallsOn(calls) == IF calls = NoMethod THEN {} ELSE {calls[i] : i \in DOMAIN calls}

AtPersistence == Last(steps).kind \in {"persistence", "repository_call", "likely_repository"}

\* The followed class is one of several implementations, none of them named.
ImplIsGuessed ==
  /\ service # NoClass /\ service \notin Canonical
  /\ \E i \in DOMAIN steps : /\ steps[i].kind \in {"service_call", "likely_service"}
                             /\ steps[i].of \in Interface
                             /\ Cardinality(impls[steps[i].of]) > 1

\* The handler itself calls two services.  A second service in a helper, or
\* among the injected fields, is not meant: the code tells of neither.
ServiceIsGuessed ==
  \E i, j \in DOMAIN handler : /\ IsService(handler[i]) /\ IsService(handler[j])
                              /\ Target(handler[i]) # Target(handler[j])

\* A trace down to persistence is "high" only when the handler's own calls and
\* the implementations leave no choice: the handler calls no second service, the
\* followed implementation is the only one or the named one, and every step is a
\* recorded call.  Of a second service in a helper it says nothing.
HighIsForced ==
  pc = "done" /\ overall = "high" /\ AtPersistence =>
    /\ ~ServiceIsGuessed /\ ~ImplIsGuessed
    /\ \A i \in 2 .. Len(steps) : steps[i].by = "call"

\* A trace without a warning goes all the way to persistence; the handler itself
\* calls no second service; and the followed implementation is the only one or
\* the one named after the interface.  Silence does not tell of a second service
\* in a helper or among the injected fields, nor of the implementations beside a
\* named one: those are left aside without a word.
SilenceIsComplete ==
  pc = "done" /\ warnings = {} => AtPersistence /\ ~ServiceIsGuessed /\ ~ImplIsGuessed

\* Whatever calls the index records, the trace follows: if the handler, or a
\* helper it calls, calls a service, no service is guessed from a field; and if
\* the followed method reaches persistence, neither is a repository.
RecordedCallsAreFollowed ==
  pc = "done" =>
    /\ (\/ Calls(handler, ServiceLike)
        \/ \E h \in Helper : h \in ToSet(handler) /\ Calls(helper[h], ServiceLike))
       => \E i \in DOMAIN steps : steps[i].kind = "service_call"
    /\ service # NoClass /\ callee # NoMethod
         /\ (\E ref \in CallsOn(MethodInClass(service, callee)) : Persists(ref))
       => Last(steps).kind \in {"persistence", "repository_call"} /\ Last(steps).by = "call"

\* Every step leads on from the one before: what it names is called or injected
\* there, in the class the trace stands at.
EveryStepIsLinked ==
  pc = "done" =>
    \A i \in 2 .. Len(steps) :
      LET here == IF i = 2 THEN handler
                  ELSE IF steps[i - 1].kind = "controller_helper" THEN helper[steps[i - 1].of]
                  ELSE IF callee = NoMethod THEN NoMethod
                  ELSE MethodInClass(service, callee)
          owner == IF steps[i].kind = "likely_service" THEN Controller ELSE service
          linked == IF steps[i].by = "call" THEN CallsOn(here) ELSE ToSet(injected[owner])
      IN  \/ steps[i].of \in linked
          \/ \E call \in linked : Target(call) = steps[i].of

\* A superseded endpoint is never traced, however it was asked for.
SupersededIsHidden == asked.superseded => pc \in {"endpoint", "not_found"}

\* No warning is raised for nothing: what is told as left aside, as arbitrary or
\* as missing is so in the index, not only on the path taken.
WarningsAreDeserved ==
  pc = "done" =>
    /\ "not_followed" \in warnings => ServiceIsGuessed
    /\ "ambiguous" \in warnings => ImplIsGuessed
    /\ "incomplete" \in warnings =>
         /\ service # NoClass /\ \A i \in DOMAIN injected[service] : ~Persists(injected[service][i])
         /\ callee # NoMethod => \A ref \in CallsOn(MethodInClass(service, callee)) : ~Persists(ref)
    /\ "unresolved" \in warnings =>
         /\ ~Calls(handler, ServiceLike) /\ ~Calls(injected[Controller], ServiceLike)
         /\ \A h \in Helper \cap ToSet(handler) : ~Calls(helper[h], ServiceLike)
=============================================================================
