SPECIFICATION ObserversSpec
CONSTANTS
  NoCaller = NoCaller  Nothing = Nothing
  Keys = {k1}
  Streams = {s1}
  Callers = {a1, a2}
  Currencies = {usd}
  Tries = 1
  MaxStrays = 1
CHECK_DEADLOCK FALSE
INVARIANTS
  ObserversTypeOK
  ToldTheTruth
  TornOneWay
  LockProtects
  ComputedAnswersKnow
PROPERTIES
  CallsEnd
