CONSTANTS
  s = s
  a = a
  Keys = {s, a}
  MaxIP = 2
  Bundles <- Come
  Threads = {t1, t2}
  AddKeys = {a}
  RemoveKeys = {a}
  MaxCommand = 1
  MaxSwap = 2
  MaxFault = 1
SPECIFICATION FairTunnelSpec
INVARIANT TunnelTypeOK
PROPERTIES UnaffectedStay Settles
