CONSTANTS
  Phones = {p1, p2}
  NoPhone = NoPhone
  Cars = {c1}
  Slots = {s1, s2}
  MaxStack = 5
SPECIFICATION Spec
SYMMETRY Symmetric
INVARIANT TypeOK
INVARIANT SignedInIsMember
 
 
INVARIANT LoaderHasCall
 
