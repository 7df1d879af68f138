\* A client while sites are renamed, bases upgraded, lists edited, and answers lost or not what they should be.
SPECIFICATION FairSpec
CONSTANTS
  s1 = s1
  s2 = s2
  s3 = s3
  main = main
  Callers = {c1}
  SiteIDs = {s1, s2, s3}
  Labels = {main, s1, s2, s3}
  Edits = {e1}
  SiteTables <- Tables
  PageLimit = 2
  NoSite = NoSite
  NoLabel = NoLabel
  Failed = Failed
INVARIANT TypeOK
PROPERTIES
  ImplementsListAccess
  CallsReturn
