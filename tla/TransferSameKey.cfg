SPECIFICATION Spec
CONSTANTS
  r1 = r1  r2 = r2  r3 = r3  r4 = r4
  k1 = k1  k2 = k2  k3 = k3  k4 = k4
  A = A  B = B
  NoJob = NoJob  NoWallet = NoWallet
  Requests = {r1, r2, r3}
  Keys = {k1, k2, k3}
  Wallets = {A, B}
  Body <- Reused
  Opening <- Funds
  Rate <- AtPar
  Attempts = 2
  MaxStalls = 1
  MaxOptimistic = 0
  Concurrency = 2
  Faults = {"api", "db", "mail", "worker", "commit"}
SYMMETRY Twins
CONSTRAINT FewReruns
INVARIANTS
  TypeOK
  AtMostOnce
  CompletedMeansMoved
  NoticeTruthful
PROPERTIES
  MovesUnderClaim
  ImplementsPromise
