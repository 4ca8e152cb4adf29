SPECIFICATION MCSpec
CONSTANTS
  a1 = a1
  a2 = a2
  a3 = a3
  a4 = a4
  x = x
  y = y
  None = None
  Attempt = {a1, a2, a3, a4}
  Body = {x, y}
  r1 = r1
  r2 = r2
  Reader = {r1, r2}
  MaxRow = 2
  c1 = c1
  c2 = c2
  q1 = q1
  q2 = q2
  q3 = q3
  k1 = k1
  k2 = k2
  Case = {c1, c2}
  Request = {q1, q2, q3}
  Caller = {k1, k2}
  Supplier = Supplier
  l1 = l1
  l2 = l2
  Lookup = {l1, l2}
  Threshold = 3
  MaxAttempts = 2
  Reset = 2
  LastInstant = 4
  h1 = h1
  h2 = h2
  Handler = {h1, h2}
  Value = {"ACTIVE", "SUSPENDED"}
  MaxEntry = 3
  LastMoment = 2
INVARIANTS
  OneOutcome LateIsReplayed OnlyChangeAccuses HashedIsRead RelistedOnRequest
  OutageIsKnown RegistryPrevails
CHECK_DEADLOCK FALSE
