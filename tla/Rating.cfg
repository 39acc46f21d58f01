CONSTANTS
  Stars = 5
  Least = 1
  Quarter = 1
  Gap = 1
  Slots = {s1, s2}
SYMMETRY Symmetric
SPECIFICATION Spec
INVARIANT TypeOK
INVARIANT LitUnderFinger
INVARIANT RatedOnce
PROPERTY SentIsLit
