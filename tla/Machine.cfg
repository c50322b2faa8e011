SPECIFICATION MachineSpec
CONSTANTS
  None = None
  Nil = Nil
  Statuses <- MCStatuses
  Codes <- MCCodes
  Counts <- MCCounts
  Levels <- MCLevels
  WifiCodes <- MCWifiCodes
  Airs <- MCAirs
  Calls <- MCCalls
  MaxEntries = 3
  Settle = 2
  MaxLag = 1
  Payloads <- MCPayloads
  Rests = {0, 1}
  Temperatures = {"medium", "high"}
  BrewTypes = {"espresso", "lungo", "hot_water"}
  Recipes <- MCRecipes
  Typed <- MCTyped
  Random <- MCRandom
  Blank = Blank
INVARIANTS
  PollTellsTheTruth
  NothingGarbled
  ScanIsTheList
  JoinsAsAsked
  FastPathsMissNothing
  WritesSayWhatWasAsked
