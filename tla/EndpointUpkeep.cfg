CONSTANTS
  Lan = {l1, l2}
  Wan = {w1, w2}
  None = None
  MaxFault = 2
  MaxMove = 2
  MaxReboot = 1
  MaxProcess = 1
SPECIFICATION UpkeepSpec
INVARIANTS LeaseCovered StoppedIsUnmapped
PROPERTIES EndpointSettles
