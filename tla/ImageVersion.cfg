SPECIFICATION Spec
CONSTANTS
  Versions <- MCVersions
  UseBuildNumber = TRUE
INVARIANTS
  NeverOlder
  Consistent
