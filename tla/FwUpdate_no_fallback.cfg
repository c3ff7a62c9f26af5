SPECIFICATION Spec
CONSTANTS
  NoFile = NoFile
  Garbage = Garbage
  Images <- MCImages
  Prefix <- MCPrefix
  HwNames <- MCHwNames
  Factory <- MCFactory
  Deliverable <- BootKinds
  DowngradePrevention = TRUE
  NChunks = 3
  InfoChunk = 2
  MaxCuts = 1
  MaxFaults = 0
  MaxUploads = 2
PROPERTIES
  InvalidateHasFallback
