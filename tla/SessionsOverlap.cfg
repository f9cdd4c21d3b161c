SPECIFICATION Spec
CONSTANTS
  c1 = c1  c2 = c2  c3 = c3
  NoCall = NoCall
  Calls = {c1, c2, c3}
  Methods = {"login", "logout", "reset"}
SYMMETRY CallSymmetry
INVARIANTS
  RevokedStaysRevoked
