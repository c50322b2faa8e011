SPECIFICATION MCFairSpec
CONSTANTS
  States <- MCStatesThree
  NoData = NoData
  Persistent = TRUE
  Advertises = TRUE
  MaxBrews = 2
  MaxReloads = 1
INVARIANTS
  FlowTypeOK
  RealUnlessOvertaken
PROPERTIES
  KeepsLedger
  ShowsTheMachine
  ReadersFollow
