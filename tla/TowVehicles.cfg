CONSTANTS
  Drivers = {d1}
  NoDriver = NoDriver
  Cars = {c1, c2}
  NoCar = NoCar
  Bought = {c1, c2}
  Slots = {s1, s2}
SPECIFICATION Spec
SYMMETRY Symmetric
INVARIANT RequestIsAsChosen
INVARIANT DeletedAsMeant
INVARIANT CrashesEmptied
