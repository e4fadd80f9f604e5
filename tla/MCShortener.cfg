SPECIFICATION Spec
CONSTANTS
  i1 = i1
  s1 = s1
  s2 = s2
  s3 = s3
  g1 = g1
  g2 = g2
  c1 = c1
  c2 = c2
  Ip <- MCIp
  Shorten <- MCShorten
  Resolve <- MCResolve
  From <- MCFrom
  Code <- MCCode
  Quota = 1
  Window = 2
  Lifetime = 2
SYMMETRY Symmetry
INVARIANTS
  QuotaKept
  CounterWillExpire
  ClicksAddUp
