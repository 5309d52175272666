\* One process, whose user may press any key of the README's table.
\* The simulator exits: no deadlock check.
SPECIFICATION PowerFairSpec
CONSTANTS
  first = first
  afterWake = afterWake
  afterReboot = afterReboot
  Scripts = {first, afterWake, afterReboot}
  Events <- MCEvents
  Tokens = {tk}
  Unset = Unset
  MaxProcesses = 1
  MaxKeys = 1
CHECK_DEADLOCK FALSE
PROPERTIES MappedKeyWakes
