CONSTANTS
  Users = {u1, u2}
  NoUser = NoUser
  Texts = {t1, t2}
  NoText = NoText
  Slots = {s1, s2}
SYMMETRY Symmetric
CONSTRAINT Claimed
SPECIFICATION Spec
INVARIANT TypeOK
INVARIANT SpeaksChosen
INVARIANT SavedTextsKept
INVARIANT SignedOutIsQuiet
INVARIANT ComplaintHasPicture
 
