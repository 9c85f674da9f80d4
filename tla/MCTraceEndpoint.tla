---------------------------- MODULE MCTraceEndpoint ----------------------------
(* A controller with two helpers, an interface with up to three                *)
(* implementations, one of them named after it, and a repository.              *)
EXTENDS TraceEndpoint

CONSTANTS ctl, api, impl1, impl2, svc, rep, rApi, rSvc, rRep, rEm, rLib, rName, h1, h2

MCFqn == [r \in Ref |-> CASE r = rApi -> api [] r = rSvc -> svc [] r = rRep -> rep
                          [] OTHER -> NoClass]
\* rName is the bare name of the interface, which impl2 bears in another package.
MCSimple == [r \in Ref |-> CASE r = rApi -> {api, impl2} [] r = rName -> {api, impl2}
                             [] r = rSvc -> {svc} [] r = rRep -> {rep} [] OTHER -> {}]

MCHandlerBodies ==
  {<<>>} \cup [1 .. 1 -> {rApi, rLib, h1}] \cup [1 .. 2 -> {rApi, rSvc, h1, h2}] \cup {<<rName>>, <<rName, rSvc>>}
    \cup {<<rApi, rApi, rSvc>>, <<rLib, h1, rSvc>>, <<h1, rLib, h2>>}
MCHelperBodies == [Helper -> {<<>>, <<rLib, rApi>>, <<rSvc, rApi>>}]
Reach(b1, b2, b3) ==
  [c \in Class |-> CASE c = impl1 -> b1 [] c = impl2 -> b2 [] c = svc -> b3
                     [] OTHER -> NoMethod]
MCServiceBodies ==
  {Reach(b1, b2, b3) : b1 \in {NoMethod, <<rLib, rRep>>},
                       b2 \in {<<>>, <<rRep, rEm>>}, b3 \in {NoMethod, <<rSvc, rEm>>}}
MCInjections ==
  {[c \in Class |-> CASE c = ctl -> f1 [] c = impl1 -> f2 [] c = api -> <<>>
                      [] OTHER -> f3] :
    f1 \in {<<>>, <<rLib, rApi>>}, f2 \in {<<>>, <<rLib, rEm>>}, f3 \in {<<>>, <<rRep>>}}
\* svc may implement the interface too.
MCLinks == [Interface -> SUBSET {impl1, impl2, svc}]
=============================================================================
