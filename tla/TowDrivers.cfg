CONSTANTS
  Drivers = {d1, d2}
  NoDriver = NoDriver
  Cars = {c1}
  NoCar = NoCar
  Bought = {}
  Slots = {s1, s2}
SPECIFICATION Spec
SYMMETRY Symmetric
INVARIANT TypeOK
INVARIANT SheetIsSafe
INVARIANT RequestIsAsChosen
