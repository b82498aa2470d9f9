CONSTANTS
  Devices = {d1}
  Modes = {"absent", "paused"}
  Profiles = {"full_tunnel"}
  Uplinks = {eth0, wlan0}
  FirstUplink = eth0
  Threads = {Ticker, t1}
  Ticker = Ticker
  MaxChange = 1
  MaxFault = 1
SPECIFICATION FairSpec
INVARIANTS SafeswitchFirst Enforced
PROPERTIES ChainSettles
