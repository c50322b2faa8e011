SPECIFICATION ReadersSpec
CONSTANTS
  States <- MCStates
  NoData = NoData
  Persistent = TRUE
  Advertises = TRUE
  MaxBrews = 2
  MaxReloads = 0
INVARIANT
  CountsRealBrews
