SPECIFICATION Spec
CONSTANTS
  Width = 2
  Base = 6
  MAX_MSG = 10
  k_max_args = 5
  MaxCmds = 2
  Sent = {0, 1, 2}
  MaxBody = 6
  Commands <- MCCommands
  Bodies <- MCBodies
  KEYS <- NameOfKEYS
  SET <- NameOfSET
  Stored <- MCStored
  Replies <- MCReplies
INVARIANTS
  RepliesFit
CHECK_DEADLOCK FALSE
