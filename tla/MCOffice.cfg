SPECIFICATION Spec
CONSTANTS
  d1 = d1
  u1 = u1
  r1 = r1
  r2 = r2
  r3 = r3
  p1 = p1
  p2 = p2
  a1 = a1
  c1 = c1
  c2 = c2
  Doc <- MCDoc
  User <- MCUser
  Job <- MCJob
  SessionCall <- MCCall
  Attempts = 3
  Person <- MCPerson
  Paper <- MCPaper
  Role <- MCRole
  Rule <- MCRule
  Staff <- MCStaff
  ArticleCall <- MCArticleCall
  url1 = url1
  url2 = url2
  Url <- MCUrl
  CacheCall <- MCArticleCall
  DashboardTtl = 1
  CarrierTtl = 2
  MaxChanges = 2
  Lookup <- MCUser
  MaxRetries = 3
\* Every upload may be over and its job settled.
CHECK_DEADLOCK FALSE
INVARIANTS
  UploadIsWhole
  OpenNeedsEntry
PROPERTIES
  Promised
  ChangesArePermitted
  FreshAgain
  KeepsTrying
