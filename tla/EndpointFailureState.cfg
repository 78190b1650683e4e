\* Two attempts, a trip needs both: resets, reconfigurations and one
\* delete-and-recreate fall between any two sections of their settlements.
\* One account with an attempt and a call of the desktop, one fault and one
\* restart; two accounts in two groups, one of them an OAuth account.
SPECIFICATION MCSpec
CONSTANTS
  Attempts = {a1, a2}
  Categories = {c1}
  Durations = {1, 2}
  Threshold = 2
  Window = 2
  MaxTime = 2
  MaxInstances = 2
  MaxRevision = 2
  MaxEpoch = 1
  MaxRoute = 1
  AccountAttempts = {b1}
  DesktopCalls = {d1}
  AccountThreshold = 2
  AccountTime = 1
  Accounts = {1, 2}
  OAuth = {1}
  LastTier = 2
  MaxCalls = 2
  MaxFaults = 1
  MaxRestarts = 1
SYMMETRY AttemptSymmetry
INVARIANTS
  ZeroResidue
  SettlesOnOwnConfig
  
  AdministrationStands
  ChoiceIsKept
PROPERTIES
  CooldownOnlyExtends
  NewerFailuresSurviveSuccess
  NewerFailureStands
CHECK_DEADLOCK FALSE
