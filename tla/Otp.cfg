SPECIFICATION OtpSpec
CONSTANTS
  NoCall = NoCall
  Calls = {c1, c2, c3, c4}
  Threshold = 2
  Window = 1
  LockSeconds = 2
  AdminSeconds = {3}
  MaxResends = 1
  Max = 1
  MaxWindows = 2
SYMMETRY CallSymmetry
INVARIANTS
  TypeOK
  OtpTypeOK
  GuessesBounded
  CodesPerWindow
  VerifiedForPurpose
PROPERTIES
  LockEarned
  CallsKeepLocks
  NothingUsedLater
