SPECIFICATION Spec
CONSTANTS
  Candidates <- MCCandidates
  FaSize = 280
INVARIANTS
  TypeOK
  AcceptedMeansSigned
  NoHashDisagrees
  OrdinaryAccepted
PROPERTIES
  Decides
CHECK_DEADLOCK FALSE
