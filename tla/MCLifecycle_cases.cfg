SPECIFICATION FairSpec
CONSTANTS
  f1 = f1
  s1 = s1
  s2 = s2
  Dispute = {1, 2}
  FraudCase = {f1}
  Claim = {1, 2}
  Sweeper = {s1}
  Outstanding = 3
  Advance = 3
  Amount = {2}
  DueDay = 1
  LastDay = 2
  Threshold = {0, 1}
INVARIANTS MoneyAgrees NeverClaimedTwice ClaimsAccount
PROPERTIES ResolutionRestores SweepAssertsNothing PastDueIsNoticed
CHECK_DEADLOCK FALSE
