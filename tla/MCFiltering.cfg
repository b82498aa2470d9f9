CONSTANTS
  site = site
  www = www
  malware = malware
  adult = adult
  Domain = {site, www}
  Walk <- MCWalk
  Category = {malware, adult}
  Protective = {malware}
  Malware = malware
  Blank = Blank
  Absent = Absent
  Seed <- MCSeed
  Bypass = {www}
  NoList = NoList
  Policies <- MCPolicies
  MaxEdit = 3
  MaxSwap = 2
  MaxReload = 1
  MaxFault = 1
  MaxRestart = 1
  MaxAsk = 1
  MaxEvent = 3
SPECIFICATION FairSpec
CHECK_DEADLOCK FALSE
INVARIANTS HashMatchesTable VerdictIsCurrent
PROPERTIES SeedsSurvive ListSettles
