SPECIFICATION Spec
CONSTANTS
  RunParts = {"drags", "drops", "menus", "dialogs", "workspaces", "panel", "lock screen",
           "fingers", "taps", "pans", "pinches", "flings", "manual"}
  None = None
CHECK_DEADLOCK FALSE
INVARIANTS InputGoesWhereShown DragsAgree GesturesEnd
PROPERTIES KeyboardKept
