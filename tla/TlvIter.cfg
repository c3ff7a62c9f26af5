SPECIFICATION Spec
CONSTANTS
  Types = {"hw_rev", "sha256"}
  Areas <- MCAreas
INVARIANTS
  FindsInOrder
  FindsAll
PROPERTIES
  WalkEnds
CHECK_DEADLOCK FALSE
