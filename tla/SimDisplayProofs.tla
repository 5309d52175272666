-------------------------- MODULE SimDisplayProofs --------------------------
(***************************************************************************)
(* Proofs about the present flag of SimDisplay, for panels of any height   *)
(* and any number of pictures.                                             *)
(***************************************************************************)
EXTENDS SimDisplay, WellFoundedInduction, TLAPS

USE SimDisplayAssumption

(* What the render task has painted so far, and what the main thread can   *)
(* rely on while the flag is down: nothing was finished since it lowered   *)
(* the flag, so the rows it has copied are those of the last picture.      *)
FlagInv ==
  /\ painting \in 0 .. NumRows + 1
  /\ copying \in 0 .. NumRows + 1
  /\ pixelBuf \in [Rows -> Int] /\ texture \in [Rows -> Int]
  /\ painting = 0 => done = picture /\ \A r \in Rows : pixelBuf[r] = done
  /\ \A r \in Rows : r < painting => pixelBuf[r] = picture
  /\ picture \in Int
  /\ ~pendingPresent /\ painting = 0 =>
       \A r \in Rows : copying = 0 \/ r < copying => texture[r] = done

LEMMA FlagStep == FlagInv /\ [Next]_vars => FlagInv'
<1> SUFFICES ASSUME FlagInv, [Next]_vars PROVE FlagInv'
  OBVIOUS
<1> USE DEF FlagInv, Rows
<1>1. CASE RefreshDisplay \/ DisplayGray
  <2>1. StartPainting
    BY <1>1 DEF RefreshDisplay, DisplayGray
  <2>2. QED BY <2>1 DEF StartPainting, mainVars
<1>2. CASE PaintRow
  BY <1>2 DEF PaintRow, mainVars
<1>3. CASE PaintDone
  BY <1>3 DEF PaintDone, mainVars
<1>4. CASE PresentStart
  BY <1>4 DEF PresentStart
<1>5. CASE CopyRow
  BY <1>5 DEF CopyRow, renderVars
<1>6. CASE PresentEnd
  BY <1>6 DEF PresentEnd, renderVars
<1>7. CASE \/ Tick \/ Cleanup \/ UNCHANGED vars
           \/ DeepSleep \/ Quit \/ PresentNothing
           \/ LendFrameBufferStorage \/ ReturnFrameBufferStorage
           \/ \E p \in Planes : CopyPlane(p)
           \/ \E p \in Planes : \E first, last \in Rows :
                WriteStrip(p, first, last)
  <2>1. UNCHANGED <<pixelBuf, pendingPresent, painting, picture, done,
                    texture, copying>>
    BY <1>7 DEF Tick, Cleanup, CopyPlane, WriteStrip, renderVars, mainVars,
                DeepSleep, Quit, PresentNothing,
                LendFrameBufferStorage, ReturnFrameBufferStorage, vars
  <2>2. QED BY <2>1
<1>8. QED
  BY <1>1, <1>2, <1>3, <1>4, <1>5, <1>6, <1>7 DEF Next, RenderTask

(* What both threads leave when they rest (renderBwPixels,                 *)
(* presentIfNeeded).                                                       *)
LEMMA RestCorrect == Spec => []RestShowsLast
<1>1. Init => FlagInv
  BY DEF Init, FlagInv, Blank, Rows
<1>2. FlagInv /\ [Next]_vars => FlagInv'
  BY FlagStep
<1>3. FlagInv => RestShowsLast
  BY DEF FlagInv, RestShowsLast
<1>4. QED BY <1>1, <1>2, <1>3, PTL DEF Spec

-----------------------------------------------------------------------------

(* Each plane holds rows of the current page or none, and scratch data is  *)
(* in the frame buffer only while it is lent.                              *)
PlaneInv ==
  /\ page \in Nat
  /\ plane \in [Planes -> [Rows -> Nat]]
  /\ NoStalePlane
  /\ frame \in {"page", "scratch"}
  /\ frame = "scratch" => frameBufferLent

(* A gray preview is tinted by planes that were written for its own page   *)
(* (snapshotBwBase, clearGrayscalePlanes, writeGrayscalePlaneStrip), and   *)
(* nobody reads what a borrower left in the frame buffer                   *)
(* (lendFrameBufferStorage, returnFrameBufferStorage).                     *)
THEOREM PlanesAreCurrent == Spec => []PagesAreClean
<1>1. Init => PlaneInv
  BY DEF Init, PlaneInv, NoStalePlane, Blank
<1>2. PlaneInv /\ [Next]_vars => PlaneInv'
  <2> SUFFICES ASSUME PlaneInv, [Next]_vars PROVE PlaneInv'
    OBVIOUS
  <2> USE DEF PlaneInv, NoStalePlane, Blank
  <2>1. CASE RefreshDisplay
    BY <2>1 DEF RefreshDisplay, Snapshot, frameVars
  <2>2. CASE Cleanup
    BY <2>2 DEF Cleanup, Snapshot, frameVars
  <2>3. ASSUME NEW p \in Planes, CopyPlane(p) PROVE PlaneInv'
    BY <2>3 DEF CopyPlane, frameVars
  <2>4. ASSUME NEW p \in Planes, NEW first \in Rows, NEW last \in Rows,
               WriteStrip(p, first, last)
        PROVE PlaneInv'
    BY <2>4 DEF WriteStrip, frameVars
  <2>7. CASE LendFrameBufferStorage \/ ReturnFrameBufferStorage
    BY <2>7 DEF LendFrameBufferStorage, ReturnFrameBufferStorage, grayVars
  <2>5. CASE \/ DisplayGray \/ PaintRow \/ PaintDone \/ Tick \/ PresentStart
             \/ CopyRow \/ PresentEnd \/ DeepSleep \/ Quit
             \/ PresentNothing \/ UNCHANGED vars
    <3>1. UNCHANGED <<page, plane, frameBufferLent, frame>>
      BY <2>5 DEF DisplayGray, PaintRow, PaintDone, Tick, PresentStart,
                  CopyRow, PresentEnd, DeepSleep, Quit, PresentNothing,
                  grayVars, frameVars, vars
    <3>2. QED BY <3>1
  <2>6. QED
    BY <2>1, <2>2, <2>3, <2>4, <2>5, <2>7 DEF Next, RenderTask
<1>3. PlaneInv => PagesAreClean
  BY DEF PlaneInv, PagesAreClean, GetFrameBuffer, NULL
<1>4. QED BY <1>1, <1>2, <1>3, PTL DEF Spec

-----------------------------------------------------------------------------

(* A set of numbers that is not empty has a least one.                     *)
LEMMA Least ==
  ASSUME NEW S, S \subseteq Nat, S # {}
  PROVE  \E x \in S : \A y \in S : x <= y
<1> DEFINE Less == OpToRel(<, Nat)
<1>1. \E x \in S : \A y \in S : ~ (<<y, x>> \in Less)
  <2> HIDE DEF Less
  <2>1. IsWellFoundedOn(Less, Nat)
    BY NatLessThanWellFounded DEF Less
  <2>2. QED BY <2>1, WFMin
<1>2. \A x, y \in Nat : <<y, x>> \in Less <=> y < x
  BY DEF OpToRel
<1>3. PICK x \in S : \A y \in S : ~ (<<y, x>> \in Less)
  BY <1>1
<1>4. \A y \in S : ~ (y < x)
  BY <1>2, <1>3
<1>5. \A y \in S : x <= y
  BY <1>4
<1>6. QED BY <1>5

(* The oldest row of the texture is a picture, and no row is older.        *)
LEMMA OldestFacts ==
  ASSUME TypeOK
  PROVE  \E r \in Rows : Oldest = texture[r]
<1>1. PICK p \in {texture[r] : r \in Rows} :
        \A q \in {texture[r] : r \in Rows} : p <= q
  <2>1. {texture[r] : r \in Rows} \subseteq Nat
    BY DEF TypeOK
  <2>2. {texture[r] : r \in Rows} # {}
    <3>1. 1 \in Rows
      BY SimDisplayAssumption DEF Rows
    <3>2. texture[1] \in {texture[r] : r \in Rows}
      BY <3>1
    <3>3. QED BY <3>2
  <2>3. QED BY <2>1, <2>2, Least
<1>2. \E n \in 0 .. picture : /\ \E r \in Rows : texture[r] = n
                            /\ \A r \in Rows : n <= texture[r]
  BY <1>1 DEF TypeOK
<1>3. QED BY <1>2 DEF Oldest

(* What the calls about gray planes leave in them.                         *)
LEMMA GrayTypes ==
  ASSUME TypeOK, [Next]_vars
  PROVE  /\ page' \in Nat /\ base' \in 0 .. page'
         /\ plane' \in [Planes -> [Rows -> 0 .. page']]
<1>1. page \in Nat /\ base \in 0 .. page
      /\ plane \in [Planes -> [Rows -> 0 .. page]]
  BY DEF TypeOK
<1>2. \A n \in Nat : Blank \in [Rows -> 0 .. n]
  BY DEF Blank
<1>3. CASE Snapshot
  <2>1. page' = page + 1 /\ base' = page' /\ plane' = [p \in Planes |-> Blank]
    BY <1>3 DEF Snapshot
  <2>2. page' \in Nat /\ base' \in 0 .. page'
    BY <1>1, <2>1
  <2>3. Blank \in [Rows -> 0 .. page']
    BY <1>2, <2>2
  <2>4. QED BY <2>1, <2>2, <2>3
<1>4. CASE Cleanup /\ ~Snapshot
  <2>1. page' = page + 1 /\ base' = 0 /\ plane' = [p \in Planes |-> Blank]
    BY <1>4 DEF Cleanup
  <2>2. page' \in Nat /\ base' \in 0 .. page'
    BY <1>1, <2>1
  <2>3. Blank \in [Rows -> 0 .. page']
    BY <1>2, <2>2
  <2>4. QED BY <2>1, <2>2, <2>3
<1>5. ASSUME NEW p \in Planes, CopyPlane(p)
      PROVE  /\ page' \in Nat /\ base' \in 0 .. page'
             /\ plane' \in [Planes -> [Rows -> 0 .. page']]
  <2>1. /\ Blank \in [Rows -> 0 .. page]
        /\ [r \in Rows |-> page] \in [Rows -> 0 .. page]
    BY <1>1, <1>2
  <2>2. QED BY <1>1, <1>5, <2>1 DEF CopyPlane
<1>6. ASSUME NEW p \in Planes, NEW first \in Rows, NEW last \in Rows,
             WriteStrip(p, first, last)
      PROVE  /\ page' \in Nat /\ base' \in 0 .. page'
             /\ plane' \in [Planes -> [Rows -> 0 .. page']]
  <2>1. [r \in Rows |-> IF r \in first .. last THEN page ELSE plane[p][r]]
          \in [Rows -> 0 .. page]
    BY <1>1
  <2>2. QED BY <1>1, <1>6, <2>1 DEF WriteStrip
<1>7. CASE UNCHANGED grayVars
  BY <1>1, <1>7 DEF grayVars
<1>8. QED
  BY <1>3, <1>4, <1>5, <1>6, <1>7
     DEF Next, RenderTask, vars, grayVars, DeepSleep, Quit, PresentNothing,
         RefreshDisplay, DisplayGray, PaintRow,
         PaintDone, LendFrameBufferStorage, ReturnFrameBufferStorage, Tick,
         PresentStart, CopyRow, PresentEnd, Cleanup

(* Every row of the pixel buffer is as new as the last finished picture,   *)
(* so the rows copied since a present began are as new as its floor, and   *)
(* while the flag is down the window is as new as that picture.            *)
ShotInv ==
  /\ TypeOK
  /\ painting = 0 => done = picture
  /\ \A r \in Rows : r < painting => pixelBuf[r] = picture
  /\ \A r \in Rows : pixelBuf[r] >= done
  /\ \A r \in Rows : r < copying => texture[r] >= floor
  /\ ~pendingPresent => \A r \in Rows :
                          copying = 0 \/ r < copying => texture[r] >= done
  /\ main = "asleep" => copying = 0
  /\ SleepShowsLast
  /\ ScreenshotCurrent

LEMMA ReturnedTypes ==
  ASSUME main \in {"loop", "sleeping", "asleep", "leaving", "ended"}
  PROVE  Returned \in {"loop", "sleeping", "asleep", "leaving", "ended"}
<1>1. CASE main = "sleeping"
  <2>1. Returned = "asleep"
    BY <1>1, Zenon DEF Returned
  <2> QED BY <2>1
<1>2. CASE main = "leaving"
  <2>1. Returned = "ended"
    BY <1>2, Zenon DEF Returned
  <2> QED BY <2>1
<1>3. CASE main \notin {"sleeping", "leaving"}
  <2>1. Returned = main
    BY <1>3, Zenon DEF Returned
  <2> QED BY <2>1
<1> QED BY <1>1, <1>2, <1>3

LEMMA ShotStep == ShotInv /\ [Next]_vars => ShotInv'
<1> SUFFICES ASSUME ShotInv, [Next]_vars PROVE ShotInv'
  OBVIOUS
<1>0. /\ page' \in Nat /\ base' \in 0 .. page'
      /\ plane' \in [Planes -> [Rows -> 0 .. page']]
  BY GrayTypes DEF ShotInv
<1> USE DEF ShotInv, TypeOK, ScreenshotCurrent, SleepShowsLast, Rows
<1>1. CASE RefreshDisplay \/ DisplayGray
  <2>1. /\ painting = 0 /\ painting' = 1 /\ picture' = picture + 1
        /\ picture' \in 0 .. MaxPictures
        /\ UNCHANGED <<pixelBuf, pendingPresent, done, due, mainVars,
                        frameVars>>
    BY <1>1 DEF RefreshDisplay, DisplayGray, StartPainting
  <2>2. QED BY <1>0, <2>1 DEF mainVars, frameVars
<1>2. CASE PaintRow
  BY <1>2 DEF PaintRow, mainVars, grayVars, frameVars
<1>3. CASE PaintDone
  BY <1>3 DEF PaintDone, mainVars, grayVars, frameVars
<1>4. CASE PresentStart
  <2>1. screenshotDue' \in BOOLEAN
    <3>1. screenshotDue' = HasDueScreenshot
      BY <1>4 DEF PresentStart
    <3>2. HasDueScreenshot \in BOOLEAN
      BY DEF HasDueScreenshot
    <3>3. QED BY <3>1, <3>2
  <2>2. /\ copying' = 1 /\ floor' = done /\ pendingPresent' = FALSE
        /\ UNCHANGED <<pixelBuf, painting, picture, done, texture, due,
                        handled, shot, frameBufferLent, frame, main>>
        /\ main # "asleep"
    BY <1>4 DEF PresentStart, Presents, frameVars
  <2>3. /\ copying' \in 0 .. NumRows + 1 /\ floor' \in 0 .. done'
        /\ pendingPresent' \in BOOLEAN
        /\ \A r \in Rows : r < copying' => texture'[r] >= floor'
    <3>1. copying' \in 0 .. NumRows + 1
      BY <2>2
    <3>2. floor' \in 0 .. done'
      BY <2>2
    <3>3. \A r \in Rows : r < copying' => texture'[r] >= floor'
      BY <2>2
    <3>4. QED BY <2>2, <3>1, <3>2, <3>3
  <2>4. TypeOK'
    <3>1. /\ pixelBuf' \in [Rows -> 0 .. picture']
          /\ texture' \in [Rows -> 0 .. picture']
          /\ painting' \in 0 .. NumRows + 1
          /\ picture' \in 0 .. MaxPictures /\ done' \in 0 .. picture'
          /\ due' \in 0 .. MaxShots /\ handled' \in 0 .. due'
      BY <2>2
    <3>2. /\ frameBufferLent' \in BOOLEAN /\ frame' \in {"page", "scratch"}
          /\ main' \in {"loop", "sleeping", "asleep", "leaving", "ended"}
      BY <2>2
    <3>3. QED BY <1>0, <2>1, <2>3, <3>1, <3>2
  <2>5. ~pendingPresent' => \A r \in Rows :
          copying' = 0 \/ r < copying' => texture'[r] >= done'
    BY <2>2
  <2>6. QED BY <2>2, <2>3, <2>4, <2>5
<1>5. CASE CopyRow
  BY <1>5 DEF CopyRow, renderVars, grayVars, frameVars
<1>6. CASE PresentEnd
  <2>1. Oldest >= floor
    <3>1. \A r \in Rows : texture[r] >= floor
      BY <1>6 DEF PresentEnd
    <3>2. QED BY <3>1, OldestFacts
  <2>2. shot'.oldest >= shot'.floor
    BY <1>6, <2>1 DEF PresentEnd
  <2>3. /\ main' = Returned /\ copying' = 0 /\ copying = NumRows + 1
        /\ UNCHANGED <<renderVars, texture, screenshotDue, due, floor,
                        frameVars>>
        /\ handled' \in {handled, due}
    BY <1>6 DEF PresentEnd
  <2>4. main' \in {"loop", "sleeping", "asleep", "leaving", "ended"}
    BY <2>3, ReturnedTypes
  <2>5. \A r \in Rows : texture[r] >= floor
    BY <2>3
  <2>6. UNCHANGED <<pixelBuf, pendingPresent, painting, picture, done,
                    frameBufferLent, frame>>
    BY <2>3 DEF renderVars, frameVars
  <2>7. TypeOK'
    <3>1. /\ pixelBuf' \in [Rows -> 0 .. picture']
          /\ texture' \in [Rows -> 0 .. picture']
          /\ painting' \in 0 .. NumRows + 1
          /\ copying' \in 0 .. NumRows + 1
      BY <2>3, <2>6
    <3>2. /\ picture' \in 0 .. MaxPictures /\ done' \in 0 .. picture'
          /\ due' \in 0 .. MaxShots /\ handled' \in 0 .. due'
          /\ floor' \in 0 .. done'
      BY <2>3, <2>6
    <3>3. /\ pendingPresent' \in BOOLEAN /\ screenshotDue' \in BOOLEAN
          /\ frameBufferLent' \in BOOLEAN /\ frame' \in {"page", "scratch"}
      BY <2>3, <2>6
    <3>4. QED BY <1>0, <2>4, <3>1, <3>2, <3>3
  <2>8. /\ painting' = 0 => done' = picture'
        /\ \A r \in Rows : r < painting' => pixelBuf'[r] = picture'
        /\ \A r \in Rows : pixelBuf'[r] >= done'
    BY <2>6
  <2>9. \A r \in Rows : texture'[r] >= floor'
    BY <2>3, <2>5
  <2>10. ~pendingPresent' => \A r \in Rows :
           copying' = 0 \/ r < copying' => texture'[r] >= done'
    BY <2>3, <2>6
  <2>11. QED BY <2>2, <2>3, <2>7, <2>8, <2>9, <2>10
<1>7. CASE Tick
  BY <1>7 DEF Tick, renderVars, mainVars, grayVars, frameVars
<1>8. CASE \/ Cleanup
           \/ LendFrameBufferStorage \/ ReturnFrameBufferStorage
           \/ \E p \in Planes : CopyPlane(p)
           \/ \E p \in Planes : \E first, last \in Rows :
                WriteStrip(p, first, last)
  <2>1. UNCHANGED <<renderVars, due, mainVars>>
    BY <1>8 DEF Cleanup, CopyPlane, WriteStrip, LendFrameBufferStorage,
                ReturnFrameBufferStorage
  <2>2. frameBufferLent' \in BOOLEAN /\ frame' \in {"page", "scratch"}
    BY <1>8 DEF Cleanup, CopyPlane, WriteStrip, LendFrameBufferStorage,
                ReturnFrameBufferStorage, frameVars
  <2>3. QED BY <1>0, <2>1, <2>2 DEF renderVars, mainVars
<1>9. CASE UNCHANGED vars
  BY <1>9 DEF vars
<1>10. CASE DeepSleep \/ Quit
  BY <1>0, <1>10 DEF DeepSleep, Quit, renderVars, frameVars
<1>11. CASE PresentNothing
  <2>1. /\ main' = Returned /\ floor' = done /\ copying = 0
        /\ UNCHANGED <<renderVars, texture, copying, screenshotDue, due,
                        handled, shot, frameVars>>
        /\ ~pendingPresent
    BY <1>11 DEF PresentNothing, Needed
  <2>2. main' \in {"loop", "sleeping", "asleep", "leaving", "ended"}
    BY <2>1, ReturnedTypes
  <2>3. \A r \in Rows : texture[r] >= done
    BY <2>1
  <2>4. QED
    BY <1>0, <2>1, <2>2, <2>3 DEF renderVars, frameVars
<1>12. QED
  BY <1>1, <1>2, <1>3, <1>4, <1>5, <1>6, <1>7, <1>8, <1>9, <1>10, <1>11
     DEF Next, RenderTask

LEMMA ShotCorrect == Spec => []ShotInv
<1>1. Init => ShotInv
  <2> SUFFICES ASSUME Init PROVE ShotInv
    OBVIOUS
  <2>1. Blank \in [Rows -> 0 .. 0]
    BY DEF Blank
  <2>2. plane \in [Planes -> [Rows -> 0 .. page]]
    BY <2>1 DEF Init
  <2>3. /\ pixelBuf \in [Rows -> 0 .. picture]
        /\ texture \in [Rows -> 0 .. picture]
    BY <2>1 DEF Init
  <2>4. TypeOK
    <3>1. /\ main \in {"loop", "sleeping", "asleep", "leaving", "ended"}
          /\ pendingPresent \in BOOLEAN /\ screenshotDue \in BOOLEAN
          /\ frameBufferLent \in BOOLEAN /\ frame \in {"page", "scratch"}
      BY DEF Init
    <3>2. /\ painting \in 0 .. NumRows + 1 /\ copying \in 0 .. NumRows + 1
          /\ picture \in 0 .. MaxPictures /\ done \in 0 .. picture
          /\ due \in 0 .. MaxShots /\ handled \in 0 .. due
          /\ floor \in 0 .. done /\ base \in 0 .. page /\ page \in Nat
      BY DEF Init
    <3>3. QED BY <2>2, <2>3, <3>1, <3>2 DEF TypeOK
  <2>5. QED
    BY <2>4 DEF Init, ShotInv, ScreenshotCurrent, SleepShowsLast, Blank, Rows
<1>2. ShotInv /\ [Next]_vars => ShotInv'
  BY ShotStep
<1>3. QED BY <1>1, <1>2, PTL DEF Spec

(* A screenshot shows nothing older than the last picture that was         *)
(* finished when its present began, although the render task goes on       *)
(* painting meanwhile (presentIfNeeded, captureDueScreenshots); and every  *)
(* variable keeps its type.                                                *)
THEOREM ScreenshotsAreCurrent == Spec => []ScreenshotCurrent /\ []TypeOK
<1>1. ShotInv => ScreenshotCurrent /\ TypeOK
  BY DEF ShotInv
<1>2. QED BY <1>1, ShotCorrect, PTL

(* A picture is never lost between the render task and the window, and no  *)
(* torn picture stays there, however the two threads interleave            *)
(* (renderBwPixels, presentIfNeeded); what was finished when the firmware  *)
(* called deepSleep() is in the window while it sleeps.                    *)
THEOREM NoPictureLost == Spec => []NoLostPicture
<1>1. RestShowsLast /\ ShotInv => NoLostPicture
  BY DEF ShotInv, NoLostPicture
<1>2. QED BY <1>1, RestCorrect, ShotCorrect, PTL
=============================================================================
