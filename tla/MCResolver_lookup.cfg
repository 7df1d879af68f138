\* A literal and two names: servers that fail, are late or disagree, aliases in a loop.
SPECIFICATION FairSpec
CONSTANTS
  app = app
  org = org
  ns = ns
  a1 = a1
  a2 = a2
  a3 = a3
  Names = {app, org, ns}
  Addrs = {a1, a2, a3}
  Hosts = {app, org}
  Literals = {a1}
  Zones <- ZonesMC
  Configured = {a1, a3}
  AAnswers <- AMixed
  NSAnswers <- NSMixed
  Silent = {}
  Steady = {}
  Budget = 3
  Slow = 1
  MaxDepth = 2
  NoHost = NoHost
INVARIANTS
  TypeOK
  SourcesExact
  EveryServerAsked
PROPERTY Terminates
