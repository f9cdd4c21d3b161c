SPECIFICATION FairSpec
CONSTANTS
  r1 = r1  r2 = r2  r3 = r3  r4 = r4
  k1 = k1  k2 = k2  k3 = k3  k4 = k4
  A = A  B = B
  NoJob = NoJob  NoWallet = NoWallet
  Requests = {r1}
  Keys = {k1}
  Wallets = {A, B}
  Body <- Identified
  Opening <- Funds
  Rate <- AtPar
  Attempts = 1
  MaxStalls = 1
  MaxOptimistic = 0
  Concurrency = 1
  Faults = {}
PROPERTIES
  KeysSettle
