\* Every index MCTraceEndpoint describes.
SPECIFICATION Spec
CONSTANTS
  ctl = ctl  api = api  impl1 = impl1  impl2 = impl2  svc = svc  rep = rep
  rApi = rApi  rSvc = rSvc  rRep = rRep  rEm = rEm  rLib = rLib  rName = rName
  h1 = h1  h2 = h2
  NoClass = NoClass  NoMethod = NoMethod
  Class = {ctl, api, impl1, impl2, svc, rep}
  Controller = ctl
  Interface = {api}
  ServiceLike = {api, impl1, svc}
  RepositoryLike = {rep}
  Helper = {h1, h2}
  Ref = {rApi, rSvc, rRep, rEm, rLib, rName}
  PersistenceRef = {rEm}
  Canonical = {impl1}
  Fqn <- MCFqn
  Simple <- MCSimple
  HandlerBodies <- MCHandlerBodies
  HelperBodies <- MCHelperBodies
  ServiceBodies <- MCServiceBodies
  Injections <- MCInjections
  Links <- MCLinks
CHECK_DEADLOCK FALSE
INVARIANTS
  TypeOK
  HighIsForced
  SilenceIsComplete
  RecordedCallsAreFollowed
  EveryStepIsLinked
  WarningsAreDeserved
