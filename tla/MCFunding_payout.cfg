SPECIFICATION FairSpec
CONSTANTS
  w1 = w1
  w2 = w2
  i1 = i1
  i2 = i2
  Worker = {w1, w2}
  Instance = {i1}
  Round = {1, 2}
  ListingFee = 1
  Commission = 2
  Net = 5
  OtpValidity = 1
  MaxResends = 1
  EscalationWindow = 2
  MaxRetries = 2
  Otp = {1, 2}
  MaxAttempts = 3
  MaxClock = 2
INVARIANTS FundedTogether BooksFollowPayout AttemptsAreEvidence
PROPERTIES PaidOnce NeverStallsSilently ClaimsAreSettled
CHECK_DEADLOCK FALSE
