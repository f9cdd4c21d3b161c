SPECIFICATION Spec
CONSTANTS
  c1 = c1  c2 = c2  c3 = c3  c4 = c4
  NoCall = NoCall
  Calls = {c1, c2, c3, c4}
  Methods = {"login", "refresh", "logout", "unlockUser", "deactivate", "adminReset", "reset", "verify"}
SYMMETRY CallSymmetry
INVARIANTS
  TypeOK
  RevokedUnlessRewound
