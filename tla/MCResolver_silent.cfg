\* One of two servers is silent, with the timeouts of the code in seconds: no name is resolved.
SPECIFICATION Spec
CONSTANTS
  app = app
  org = org
  ns = ns
  a1 = a1
  a2 = a2
  a3 = a3
  Names = {app, org, ns}
  Addrs = {a1, a2, a3}
  Hosts = {app}
  Literals = {}
  Zones <- ZonesMC
  Configured = {a1, a2}
  AAnswers <- APlain
  NSAnswers <- NSPlain
  Silent = {a1}
  Steady = {a2, a3}
  Budget = 5
  Slow = 2
  MaxDepth = 8
  NoHost = NoHost
INVARIANT OtherServersSuffice
