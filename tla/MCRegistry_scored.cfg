SPECIFICATION Spec
CONSTANTS
  h1 = h1
  h2 = h2
  Handler = {h1, h2}
  Value = {"ACTIVE", "SUSPENDED"}
  MaxEntry = 3
  LastMoment = 2
INVARIANTS GovernmentIsActedOn
CHECK_DEADLOCK FALSE
