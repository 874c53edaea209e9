SPECIFICATION Spec
CONSTANTS
  RunParts = {"gpu", "gpu without files", "gpu destroys", "composed", "damage", "displays",
           "dragged", "trials", "guesses", "idle", "fields", "held keys",
           "engine stops", "emoji", "sources", "source lists", "candidates", "offers",
           "pastes", "texts", "text changes", "frames", "sizes", "mixed"}
  None = None
CHECK_DEADLOCK FALSE
INVARIANTS BuffersSynchronized DisplaysArranged  FieldsServed ClientsAgree
PROPERTIES ScreensHold
