CONSTANTS
  Child = {c1}
  Local = local
  Cap = 1
  MaxSend = 1
  MaxFault = 2
  MaxRestart = 1
SPECIFICATION PathSpec
INVARIANTS KeptAlive NoLateUnregister
PROPERTIES ReadersEnd Reconnects
