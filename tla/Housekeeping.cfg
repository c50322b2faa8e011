SPECIFICATION HouseSpec
CONSTANTS
  NoFile = NoFile
  Reloads = TRUE
  Crashes = TRUE
  MaxGens = 3
  MaxChanges = 2
  Interval = 12
  Cooldown = 2
  Off = Off
INVARIANTS
  HouseTypeOK
  CountersSurviveUnhurried
  NothingInvented
  PollsGoOn
  AvailableMeansRead
  OneLinePerOutage
  AskedIsServed
  OneKeyPerEntry
CHECK_DEADLOCK FALSE
