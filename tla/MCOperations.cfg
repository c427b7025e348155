SPECIFICATION MCSpec
CONSTANTS
  p1 = p1
  p2 = p2
  p3 = p3
  u1 = u1
  u2 = u2
  c1 = c1
  c2 = c2
  Proxies = {p1, p2, p3}
  Urls = {u1, u2}
  Accounts = {c1, c2}
  a1 = a1
  a2 = a2
  a3 = a3
  Admins = {a1, a2, a3}
  Histories <- MCHistories
  MaxServed = 2
  j1 = j1
  j2 = j2
  q1 = q1
  Items = {1, 2, 3, 4, 5, 6, 7}
  Days = {1, 2}
  Jobs = {j1, j2}
  Reports = {q1}
  Keep <- MCKeep
  Batch = 1
  Plans <- MCPlans
  MaxDay = 3
SYMMETRY Symmetry
INVARIANTS
    
    ProxiesKept
    UsageKept
    
CHECK_DEADLOCK FALSE
