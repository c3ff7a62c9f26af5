SPECIFICATION Spec
CONSTANTS
  NoFile = NoFile
  Garbage = Garbage
  Images <- MCImages
  Prefix <- MCPrefix
  HwNames <- MCHwNames
  Factory <- MCFactory
  Deliverable <- OldKinds
  DowngradePrevention = TRUE
  NChunks = 3
  InfoChunk = 2
  MaxCuts = 0
  MaxFaults = 0
  MaxUploads = 1
PROPERTIES
  NoImageDowngrade
