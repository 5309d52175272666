----------------------------- MODULE SimDisplay -----------------------------
(***************************************************************************)
(* The display (HalDisplay.cpp): the render task turns a page into pixels, *)
(* the main thread shows them and takes scheduled screenshots.             *)
(*                                                                         *)
(* The two share the pixel buffer, which nothing locks, and one atomic     *)
(* flag. A picture is its number; a buffer remembers for every row which   *)
(* picture it comes from, so a torn buffer is one with several numbers.    *)
(*                                                                         *)
(* The main thread stops presenting when the firmware goes to sleep        *)
(* (display.deepSleep, then HalGPIO::startDeepSleep, whose loop polls for  *)
(* keys only) and when the window is closed. A wake replaces the process.  *)
(***************************************************************************)
EXTENDS Integers

CONSTANTS
  NumRows,     (* rows of the panel                                         *)
  MaxPictures, (* bound: pictures the render task paints                    *)
  MaxShots     (* how many screenshots are scheduled                        *)

ASSUME SimDisplayAssumption ==
  /\ NumRows \in Nat \ {0} /\ MaxPictures \in Nat /\ MaxShots \in Nat

Rows == 1 .. NumRows
Planes == {"lsb", "msb"}

VARIABLES
  main,           (* main(): its loop, on the way to sleep, in the loop of  *)
                  (* startDeepSleep, in its last frame, or over             *)
  pixelBuf,       (* [Rows -> picture], written by the render task          *)
  pendingPresent, (* the flag                                               *)
  painting,       (* the row the render task paints next, 0 when idle       *)
  picture,        (* the picture it paints or painted last                  *)
  done,           (* history: the last picture that was finished            *)
  texture,        (* [Rows -> picture], what the main thread shows          *)
  copying,        (* the row it copies next, 0 when idle                    *)
  screenshotDue,  (* presentIfNeeded's local                                *)
  due,            (* how many screenshots are due                           *)
  handled,        (* how many were taken                                    *)
  floor,          (* history: done when presentIfNeeded was called for the  *)
                  (* present, for sleep or for the last frame               *)
  shot,           (* history: the last screenshot was of this oldest row,   *)
                  (* and should be no older than that picture               *)
  base,           (* the page under the preview: 0 when not bwBaseValid     *)
  page,           (* history: pages snapshot or cleaned up so far           *)
  plane,          (* [Planes -> [Rows -> page it was written for, or 0]]    *)
  frameBufferLent,(* somebody uses the frame buffer as working memory       *)
  frame           (* what it holds: the firmware's page or scratch data     *)

renderVars == <<pixelBuf, pendingPresent, painting, picture, done>>
mainVars == <<main, texture, copying, screenshotDue, handled, floor, shot>>
grayVars == <<base, page, plane>>
frameVars == <<frameBufferLent, frame>>
vars == <<main, pixelBuf, pendingPresent, painting, picture, done, texture,
          copying, screenshotDue, due, handled, floor, shot, base, page, plane,
          frameBufferLent, frame>>

Blank == [r \in Rows |-> 0]

Init ==
  /\ main = "loop"
  /\ pixelBuf = Blank /\ pendingPresent = FALSE
  /\ painting = 0 /\ picture = 0 /\ done = 0
  /\ texture = Blank /\ copying = 0 /\ screenshotDue = FALSE
  /\ due = 0 /\ handled = 0 /\ floor = 0
  /\ shot = [oldest |-> 0, floor |-> 0]
  /\ base = 0 /\ page = 0
  /\ plane = [p \in Planes |-> Blank]
  /\ frameBufferLent = FALSE /\ frame = "page"

-----------------------------------------------------------------------------
(* The render task.                                                        *)

(* Seeded fault: the planes of the last page are kept.                     *)
SnapshotKeepsPlanes ==
  /\ page' = page + 1
  /\ base' = page'
  /\ UNCHANGED plane

(* snapshotBwBase: a new page clears both planes.                          *)
Snapshot ==
  /\ page' = page + 1
  /\ base' = page'
  /\ plane' = [p \in Planes |-> Blank]

StartPainting ==
  /\ painting = 0
  /\ picture < MaxPictures
  /\ painting' = 1
  /\ picture' = picture + 1
  /\ UNCHANGED <<pixelBuf, pendingPresent, done, due, mainVars>>

(* getFrameBuffer: none while it is lent. The firmware must not draw or    *)
(* display then, or the null pointer ends the program.                     *)
NULL == "null"
GetFrameBuffer == IF frameBufferLent THEN NULL ELSE frame

(* displayBuffer, displayBufferAsync, displayWindow, displayGrayscaleBase  *)
(* are refreshDisplay.                                                     *)
RefreshDisplay ==
  /\ GetFrameBuffer # NULL
  /\ StartPainting
  /\ Snapshot
  /\ UNCHANGED frameVars

(* displayGrayBuffer, displayFactoryGrayBuffer: without a page under the   *)
(* preview the frame buffer is read.                                       *)
DisplayGray ==
  /\ base # 0 \/ GetFrameBuffer # NULL
  /\ StartPainting
  /\ UNCHANGED <<grayVars, frameVars>>

(* renderBwPixels and composeGrayscalePreview paint row by row ...         *)
PaintRow ==
  /\ painting \in Rows
  /\ pixelBuf' = [pixelBuf EXCEPT ![painting] = picture]
  /\ painting' = painting + 1
  /\ UNCHANGED <<pendingPresent, picture, done, due, mainVars, grayVars,
                 frameVars>>

(* ... and raise the flag at the end.                                      *)
PaintDone ==
  /\ painting = NumRows + 1
  /\ pendingPresent' = TRUE
  /\ painting' = 0
  /\ done' = picture
  /\ UNCHANGED <<pixelBuf, picture, due, mainVars, grayVars, frameVars>>

(* copyPlane: a whole plane, or nothing at all.                            *)
CopyPlane(p) ==
  /\ painting = 0
  /\ \/ plane' = [plane EXCEPT ![p] = [r \in Rows |-> page]]
     \/ plane' = [plane EXCEPT ![p] = Blank]
  /\ UNCHANGED <<renderVars, due, mainVars, base, page, frameVars>>

(* writeGrayscalePlaneStrip: rows first .. last of a plane, the rest stays.*)
WriteStrip(p, first, last) ==
  /\ painting = 0
  /\ plane' = [plane EXCEPT ![p] =
       [r \in Rows |-> IF r \in first .. last THEN page ELSE @[r]]]
  /\ UNCHANGED <<renderVars, due, mainVars, base, page, frameVars>>

(* cleanupGrayscaleBuffers, with the new page or with none                 *)
Cleanup ==
  /\ painting = 0
  /\ \/ Snapshot
     \/ /\ base' = 0
        /\ page' = page + 1
        /\ plane' = [p \in Planes |-> Blank]
  /\ page < MaxPictures
  /\ UNCHANGED <<renderVars, due, mainVars, frameVars>>

(* lendFrameBufferStorage: the borrower writes what it likes. A second one *)
(* gets nothing. External: the firmware borrows and returns the buffer     *)
(* from the task that draws, so never while a picture is being painted;    *)
(* nothing in HalDisplay enforces that.                                    *)
LendFrameBufferStorage ==
  /\ painting = 0
  /\ ~frameBufferLent
  /\ frameBufferLent' = TRUE
  /\ frame' = "scratch"
  /\ UNCHANGED <<renderVars, due, mainVars, grayVars>>

(* returnFrameBufferStorage: the buffer comes back white.                  *)
ReturnFrameBufferStorage ==
  /\ painting = 0
  /\ frameBufferLent
  /\ frameBufferLent' = FALSE
  /\ frame' = "page"
  /\ UNCHANGED <<renderVars, due, mainVars, grayVars>>

-----------------------------------------------------------------------------
(* The main thread, presentIfNeeded once per frame and in deepSleep().     *)

(* Time passes; the next screenshot is due.                                *)
Tick ==
  /\ due < MaxShots
  /\ due' = due + 1
  /\ UNCHANGED <<renderVars, mainVars, grayVars, frameVars>>

(* Seeded fault: a due screenshot does not ask for a present.              *)
NeededPendingOnly == pendingPresent

(* hasDueScreenshot                                                        *)
HasDueScreenshot == handled < due
Needed == pendingPresent \/ HasDueScreenshot

(* The firmware goes to sleep. External: it calls display.deepSleep()      *)
(* before startDeepSleep(), on the main thread.                            *)
DeepSleep ==
  /\ main = "loop" /\ copying = 0
  /\ main' = "sleeping"
  /\ UNCHANGED <<renderVars, texture, copying, screenshotDue, due, handled,
                 floor, shot, grayVars, frameVars>>

(* SDL_QUIT, in a frame or in the loop of startDeepSleep, which returns.   *)
Quit ==
  /\ main \in {"loop", "asleep"} /\ copying = 0
  /\ main' = "leaving"
  /\ UNCHANGED <<renderVars, texture, copying, screenshotDue, due, handled,
                 floor, shot, grayVars, frameVars>>

(* Where main() is once presentIfNeeded has returned.                      *)
Returned ==
  CASE main = "sleeping" -> "asleep"
    [] main = "leaving"  -> "ended"
    [] OTHER             -> main

Presents == main \in {"loop", "sleeping", "leaving"}

(* Nothing to do. In the loop the next frame asks again.                   *)
PresentNothing ==
  /\ main \in {"sleeping", "leaving"} /\ copying = 0
  /\ ~Needed
  /\ main' = Returned
  /\ floor' = done
  /\ UNCHANGED <<renderVars, texture, copying, screenshotDue, due, handled,
                 shot, grayVars, frameVars>>

Oldest == CHOOSE p \in 0 .. picture :
            /\ \E r \in Rows : texture[r] = p
            /\ \A r \in Rows : p <= texture[r]

(* Seeded fault: the screenshot is taken before the copy.                  *)
PresentStartShoots ==
  /\ Presents /\ copying = 0
  /\ Needed
  /\ screenshotDue' = HasDueScreenshot
  /\ pendingPresent' = FALSE
  /\ copying' = 1
  /\ floor' = done
  /\ shot' = IF HasDueScreenshot THEN [oldest |-> Oldest, floor |-> done]
                                 ELSE shot
  /\ UNCHANGED <<main, pixelBuf, painting, picture, done, texture, due,
                 handled, grayVars, frameVars>>

(* The flag is lowered before the pixels are copied.                       *)
PresentStart ==
  /\ Presents /\ copying = 0
  /\ Needed
  /\ screenshotDue' = HasDueScreenshot
  /\ pendingPresent' = FALSE
  /\ copying' = 1
  /\ floor' = done
  /\ UNCHANGED <<main, pixelBuf, painting, picture, done, texture, due,
                 handled, shot, grayVars, frameVars>>

(* SDL_UpdateTexture                                                       *)
CopyRow ==
  /\ copying \in Rows
  /\ texture' = [texture EXCEPT ![copying] = pixelBuf[copying]]
  /\ copying' = copying + 1
  /\ UNCHANGED <<main, renderVars, due, screenshotDue, handled, floor, shot,
                 grayVars, frameVars>>

(* Seeded fault: the flag is lowered here.                                 *)
PresentEndLowers ==
  /\ copying = NumRows + 1
  /\ copying' = 0
  /\ main' = Returned
  /\ pendingPresent' = FALSE
  /\ UNCHANGED <<pixelBuf, painting, picture, done, texture, screenshotDue,
                 due, handled, floor, shot, grayVars, frameVars>>

(* captureDueScreenshots takes all that are due by now.                    *)
PresentEnd ==
  /\ copying = NumRows + 1
  /\ copying' = 0
  /\ main' = Returned
  /\ IF screenshotDue
     THEN /\ handled' = due
          /\ shot' = [oldest |-> Oldest, floor |-> floor]
     ELSE UNCHANGED <<handled, shot>>
  /\ UNCHANGED <<renderVars, texture, screenshotDue, due, floor, grayVars,
                 frameVars>>

-----------------------------------------------------------------------------

Present == PresentStart \/ PresentNothing \/ CopyRow \/ PresentEnd
Paint == PaintRow \/ PaintDone

(* The firmware's tasks, while the main thread does whatever it does.      *)
RenderTask ==
  \/ RefreshDisplay \/ DisplayGray \/ PaintRow \/ PaintDone \/ Cleanup
  \/ LendFrameBufferStorage \/ ReturnFrameBufferStorage
  \/ \E p \in Planes :
       \/ CopyPlane(p)
       \/ \E first, last \in Rows : WriteStrip(p, first, last)

(* _exit() at the end of main() ends every thread.                         *)
Next ==
  /\ main # "ended"
  /\ \/ RenderTask \/ Tick \/ DeepSleep \/ Quit
     \/ PresentStart \/ PresentNothing \/ CopyRow \/ PresentEnd

Spec == Init /\ [][Next]_vars

(* Both threads are scheduled by the host. The main thread calls           *)
(* presentIfNeeded in every frame, once more on its way to sleep and in    *)
(* its last frame, and not at all while it is asleep: no step of Present   *)
(* is enabled there. The render task finishes what it began.               *)
FairSpec ==
  Spec /\ WF_vars(Present) /\ WF_vars(main # "ended" /\ Paint)

-----------------------------------------------------------------------------
(* Properties.                                                             *)

(* Every variable keeps its type.                                          *)
TypeOK ==
  /\ main \in {"loop", "sleeping", "asleep", "leaving", "ended"}
  /\ pixelBuf \in [Rows -> 0 .. picture]
  /\ texture \in [Rows -> 0 .. picture]
  /\ pendingPresent \in BOOLEAN /\ screenshotDue \in BOOLEAN
  /\ painting \in 0 .. NumRows + 1 /\ copying \in 0 .. NumRows + 1
  /\ picture \in 0 .. MaxPictures /\ done \in 0 .. picture
  /\ due \in 0 .. MaxShots /\ handled \in 0 .. due
  /\ floor \in 0 .. done
  /\ base \in 0 .. page /\ page \in Nat
  /\ plane \in [Planes -> [Rows -> 0 .. page]]
  /\ frameBufferLent \in BOOLEAN /\ frame \in {"page", "scratch"}

(* When both threads rest and no present is pending, the window shows the  *)
(* last picture, whole: a picture finished during a copy is not lost and a *)
(* torn copy does not stay.                                                *)
RestShowsLast == painting = 0 /\ copying = 0 /\ ~pendingPresent =>
  \A r \in Rows : texture[r] = done

(* A picture that was finished when the firmware called deepSleep() is in  *)
(* the window before the main thread stops presenting.                     *)
SleepShowsLast == main = "asleep" => \A r \in Rows : texture[r] >= floor

NoLostPicture == RestShowsLast /\ SleepShowsLast

(* No row of a screenshot is older than the picture that was finished when *)
(* the present began.                                                      *)
ScreenshotCurrent == shot.oldest >= shot.floor

(* The planes that tint a page were written for it, strip by strip or      *)
(* whole, never for a page before it.                                      *)
NoStalePlane ==
  \A p \in Planes, r \in Rows : plane[p][r] \in {0, page}

(* What somebody left in the frame buffer is never taken for a page, nor   *)
(* planes of another page for its grays.                                   *)
PagesAreClean == NoStalePlane /\ GetFrameBuffer # "scratch"

(* Nobody presents any more: the firmware sleeps or the program is over.   *)
Stopped == main \in {"asleep", "ended"}

(* A finished picture is shown, or one that was finished after it, unless  *)
(* the main thread stops presenting first.                                 *)
PictureShown ==
  \A n \in 1 .. MaxPictures :
    done = n ~> Stopped \/ \A r \in Rows : texture[r] >= n

(* A due screenshot is taken, even if nothing is painted any more, unless  *)
(* the main thread stops presenting first.                                 *)
ScreenshotTaken ==
  \A n \in 1 .. MaxShots : due = n ~> Stopped \/ handled >= n

(* What is due to be seen is seen.                                         *)
AllShown == PictureShown /\ ScreenshotTaken
=============================================================================
