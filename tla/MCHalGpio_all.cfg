\* One button, or the touch panel, or the Home key, or chains of wakes and
\* reboots. The simulator exits: no deadlock check.
SPECIFICATION HalSpec
CONSTANTS
  Buttons = {power}
  Uses <- MCUses
  Positions <- MCPositions
  MaxAge = 8
  DISPLAY_WIDTH = 24
  DISPLAY_HEIGHT = 10
  SIMULATOR_BEZEL_INSET = 2
  Word = 32
  first = first
  afterWake = afterWake
  afterReboot = afterReboot
  Scripts = {first, afterWake, afterReboot}
  Events <- MCEvents
  Tokens = {tk}
  Unset = Unset
  MaxProcesses = 4
  MaxKeys = 2
CHECK_DEADLOCK FALSE
INVARIANTS HeldNotLonger AnswersMatchContacts PlayedOnce HandOverIsTrue
PROPERTIES EdgesLatched InputWakes
