SPECIFICATION Spec
CONSTANTS
  b1 = b1
  b2 = b2
  w1 = w1
  w2 = w2
  Bank = {b1, b2}
  Worker = {w1, w2}
  NoOffer = NoOffer
  Conditional = {b2}
  ListingFee = 1
  OfferWindow = 1
  SelectionWindow = 1
  Validity = {2}
  MaxRound = 2
  Offer <- TwoBanks
  MaxClock = 2
SYMMETRY Handlers
INVARIANTS LockEvidence WinnerWasApproved OpenIsListed
PROPERTIES AcceptanceIsAtomic
