\* Two pictures of two rows, one screenshot. Pictures run out: no deadlock
\* check.
SPECIFICATION FairSpec
CONSTANTS
  NumRows = 2
  MaxPictures = 2
  MaxShots = 1
CHECK_DEADLOCK FALSE
INVARIANTS NoLostPicture ScreenshotCurrent PagesAreClean
PROPERTIES AllShown
