SPECIFICATION LiveSpec
CONSTANTS
  RunParts = {"gpu goes on", "display shows", "trials", "chosen", "paste ends", "lock",
           "calls", "registers", "staged", "checks end", "catches up", "requests end",
           "images end"}
  None = None
CHECK_DEADLOCK FALSE
PROPERTIES  ServicesAnswer
