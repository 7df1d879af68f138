\* Controllers, jobs that refer to them and DNS servers, through restarts.
SPECIFICATION Spec
CONSTANTS
  d1 = d1
  d2 = d2
  Clients = {c1, c2}
  Runners = {r1}
  Jobs = {j1}
  Keys = {k1}
  Blank = Blank
  Mask = Mask
  Sites = {Blank}
  Default = Default
  Addresses = {d1, d2}
  Seeds <- SeedsMC
  FKModes = {TRUE, FALSE}
  NoRow = NoRow
  NoID = NoID
  NoReq = NoReq
  NoRun = NoRun
  Untouched = Untouched
  MaxID = 2
  MaxServers = 2
SYMMETRY ClientSymmetry
INVARIANTS
  TypeOK
  KeyIsLastGiven
  RunKeepsController
  RestartKeepsServers
PROPERTY DeletedStaysDeleted
