CONSTANTS
  Phones = {p1}
  NoPhone = NoPhone
  Cars = {c1}
  Slots = {s1, s2}
  MaxStack = 5
SPECIFICATION FairSpec
PROPERTY LoaderEnds
