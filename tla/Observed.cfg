SPECIFICATION ObservedSpec
CONSTANTS
  r1 = r1  r2 = r2  r3 = r3  r4 = r4
  k1 = k1  k2 = k2  k3 = k3  k4 = k4
  A = A  B = B
  NoJob = NoJob  NoWallet = NoWallet
  Requests = {r1, r2}
  Keys = {k1}
  Wallets = {A, B}
  Body <- Repeated
  Opening <- Funds
  Rate <- AtPar
  Attempts = 1
  MaxStalls = 0
  MaxOptimistic = 0
  Concurrency = 2
  Faults = {"mail", "commit"}
  NoCaller = NoCaller  Nothing = Nothing
  Streams = {s1}
  Callers = {a1}
  Currencies = {usd}
  Looks = 0
  MaxStrays = 1
CHECK_DEADLOCK FALSE
INVARIANTS
  ToldIsPosted
  AnswersHavePosted
PROPERTIES
  StreamsEnd
  FailuresAreHeard
