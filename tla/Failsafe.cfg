CONSTANTS
  MaxTime = 5
  BootstrapTTL = 2
  Grace = 1
  Lifetimes = {0, 1, 2}
  MaxRestart = 1
  MaxDbFault = 1
SPECIFICATION FairSpec
INVARIANTS NoFalseLockdown
PROPERTIES Locks Recovers
