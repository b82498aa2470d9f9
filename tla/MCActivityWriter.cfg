CONSTANTS
  e1 = e1  e2 = e2  e3 = e3  e4 = e4
  x = x  y = y  kid1 = kid1  kid2 = kid2
  Event = {e1, e2, e3, e4}
  Name <- MCName
  Src <- MCSrc
  BufSize = 2
  MaxKill = 1
SPECIFICATION FairSpec
CHECK_DEADLOCK FALSE
INVARIANTS HeldOnce EveryChildLogged ShutdownFlushes
PROPERTIES ImplementsLog EventsSettle
