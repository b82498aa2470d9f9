CONSTANTS
  Child = {c1}
  Local = local
  Cap = 1
  MaxSend = 1
  MaxFault = 0
  MaxRestart = 0
SPECIFICATION PathSpec
INVARIANT RepliesGoHome
