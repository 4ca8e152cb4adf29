SPECIFICATION Spec
CONSTANTS
  w1 = w1
  w2 = w2
  s1 = s1
  b1 = b1
  b2 = b2
  c1 = c1
  c2 = c2
  c3 = c3
  d1 = d1
  d2 = d2
  NoDocument = NoDocument
  Worker = {w1, w2}
  Supplier = {s1}
  Bank = {b1, b2}
  Mandatory = {c1, c2}
  Optional = {c3}
  Document = {d1, d2}
SYMMETRY Symmetric
INVARIANTS ContractedIsSigned TermsAreResolved DocumentsAccounted
CHECK_DEADLOCK FALSE
