CONSTANTS
  Nodes = {n1}
  Devices = {d1, d2}
  Ports = {1, 2}
  MaxConn = 1
SPECIFICATION FairSpec
INVARIANTS CloudWarned RepliesDelivered
PROPERTIES FallbackSettles
