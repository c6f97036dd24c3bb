CONSTANTS
  f = f
  u1 = u1
  u2 = u2
  m1 = m1
  k1 = k1
  k2 = k2
  a1 = a1
  a2 = a2
  r1 = r1
  r2 = r2
  NoUser = NoUser
  Part = {"patents"}
  User = {f, u1, u2}
  Founder = f
  Mount = {m1}
  Offered = {"SOURCE_MANAGER", "VIEWER"}
  Risk = {k1, k2}
  Attempt = {a1, a2}
  Handle = {1, 2}
  Call = {r1, r2}
  p1 = p1
  p2 = p2
  Patent = {p1, p2}
  q1 = q1
  q2 = q2
  Query = {q1, q2}
  CompareCap = 1
  CarryLimit = 1
  libA = libA
  libB = libB
  Package = {libA, libB}
  x1 = x1
  x2 = x2
  Path = {x1, x2}
  Tracked = {x1}
  GitMount = {m1}
  Request = {r1, r2}
  MaxCommits = 2
  MaxRequests = 2
  MaxStops = 1
SPECIFICATION Spec
CHECK_DEADLOCK FALSE
PROPERTIES
  ClosedIsLookedAtAgain
