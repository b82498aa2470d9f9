CONSTANTS
  Command = {c1, c2}
  Handled = {c1}
  NoCommand = NoCommand
  ExecLimit = 1
  MaxCrash = 2
  MaxDbFault = 1
SPECIFICATION FairSpec
INVARIANTS AtMostOnce DoneIsTrue
PROPERTIES Lifecycle Completes PendingLeaves
