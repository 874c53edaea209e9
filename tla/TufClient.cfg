SPECIFICATION Spec
CONSTANTS
  MaxReleases = 4
  MaxRoots = 3
  Rotated = {"timestamp", "snapshot"}
  Anchor = 1
  MaxCrashes = 1
  Faults = {"lag", "lost"}
  None = None
CHECK_DEADLOCK FALSE
PROPERTIES NoRollback KeptIsRelease
