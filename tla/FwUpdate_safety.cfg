SPECIFICATION Spec
CONSTANTS
  NoFile = NoFile
  Garbage = Garbage
  Images <- MCImages
  Prefix <- MCPrefix
  HwNames <- MCHwNames
  Factory <- MCFactory
  Deliverable <- SafetyKinds
  DowngradePrevention = TRUE
  NChunks = 3
  InfoChunk = 2
  MaxCuts = 2
  MaxFaults = 2
  MaxUploads = 2
INVARIANTS
  TypeOK
  RunningCopyIntact
  BootloaderSurvives
  VerifiedContent
  CopyJustified
  HandoverClean
  HardwareKept
PROPERTIES
  KeepsPromise
  FwInfoNeverDecreases
  InvalidatedForReplacement
