\* One stream of three events at most.
SPECIFICATION Spec
CONSTANTS
  Blocks = {0}
  Usages <- MCUsages
  MaxEvents = 3
INVARIANTS TerminalIsForwarded
CHECK_DEADLOCK FALSE
