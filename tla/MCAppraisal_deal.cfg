SPECIFICATION MCSpec
CONSTANTS
  b1 = b1
  b2 = b2
  Bank = {b1, b2}
  Appetite <- MCAppetite
  Listed <- MCListed
  Tier <- MCTier
  FirstTiers <- MCFirstTiers
  ListingFee = {0, 2}
  Terms <- MCTerms
  Deduction <- MCDeduction
  MaxRound = 2
  MaxChange = 2
  Profile <- MCProfile
  Option <- MCOption
  Version <- MCVersion
  MinTenor = {3, 7, 10}
  Estimate = {0, 100}
  MaxChanges = 2
SYMMETRY Symmetry
INVARIANTS
  AgreedIsCharged SplitIsCovered
  PassedIsUnblocked OutageIsNotAdverse BlockedIsCritical
CHECK_DEADLOCK FALSE
