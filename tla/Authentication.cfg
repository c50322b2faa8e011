SPECIFICATION AuthSpec
CONSTANTS
  Addresses = {"A"}
  PairQuietAfter = 4
  PairRetryEvery = 20
  MaxFailures = 45
  OnboardAttempts = 2
  OnboardPollAttempts = 10
  OnboardRetryDelay = 2
  ScanInterval = 60
  MaxFaults = 2
INVARIANTS
  AuthTypeOK
  OneRequestPerConnection
  PlainLinkIsFinal
  ForeignMachineLeftAlone
  PairedIsProof
  FitsTheScanInterval
PROPERTIES
  BackoffKeepsTime
  NeverGivesUp
  NeverLatchedOut
