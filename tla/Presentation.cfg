SPECIFICATION Spec
CONSTANTS
  Buffers = {b1, b2, b3, b4}
  NoBuffer = zero
  Extents = {small, large, empty}
  Valid = {small, large}
  MaxSerial = 2
  MaxSequence = 3
  None = None
INVARIANTS HeldInOrder QueuedIsCurrent
PROPERTIES FramesHandedBack DisplayedMovesOn
