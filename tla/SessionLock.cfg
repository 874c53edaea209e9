SPECIFICATION Spec
CONSTANTS
  LockSurfaces = {s1, s2}
  Displays = {d1}
  Parts = 1
  Chunks = 1
  SeatEvents = {"lock", "sleep", "pause"}
  MaxLocks = 1
  MaxFrames = 1
  MaxEvents = 1
  None = None
INVARIANTS UnlockEarned NothingKept OneCheck
PROPERTIES SleepBehindLock
