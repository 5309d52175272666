------------------------------ MODULE Geometry ------------------------------
(***************************************************************************)
(* Where things are on the panel. The window shows the panel turned by the *)
(* orientation of the renderer and without the rim that a bezel covers     *)
(* (HalDisplay.cpp); a click in the window and a scripted touch are turned *)
(* the other way (HalDisplay.cpp, HalGPIO.cpp); drawing copies bytes of an *)
(* image into bytes of the frame buffer. Definitions without state.        *)
(***************************************************************************)
EXTENDS Integers, FiniteSets

CONSTANTS
  DISPLAY_WIDTH, DISPLAY_HEIGHT, (* of the panel, in pixels                 *)
  SIMULATOR_BEZEL_INSET,         (* the rim                                 *)
  Word                           (* uint16_t counts modulo Word             *)

(* The two static_asserts; all panels have even sides, and rows of bytes.  *)
ASSUME GeometryAssumption ==
  /\ DISPLAY_WIDTH \in Nat /\ DISPLAY_HEIGHT \in Nat
  /\ SIMULATOR_BEZEL_INSET \in Nat /\ Word \in Nat \ {0}
  /\ DISPLAY_WIDTH - 2 * SIMULATOR_BEZEL_INSET > 0
  /\ DISPLAY_HEIGHT - 2 * SIMULATOR_BEZEL_INSET > 0
  /\ DISPLAY_WIDTH % 2 = 0 /\ DISPLAY_HEIGHT % 2 = 0

Orientations == {"Portrait", "PortraitInverted", "LandscapeClockwise",
                 "LandscapeCounterClockwise"}

Clamp(v, low, high) == IF v < low THEN low ELSE IF v > high THEN high ELSE v

-----------------------------------------------------------------------------
(* The window.                                                             *)

VisibleWidth == DISPLAY_WIDTH - 2 * SIMULATOR_BEZEL_INSET
VisibleHeight == DISPLAY_HEIGHT - 2 * SIMULATOR_BEZEL_INSET

IsPortrait(o) == o \in {"Portrait", "PortraitInverted"}

(* getLogicalWindowSize                                                    *)
WindowWidth(o) == IF IsPortrait(o) THEN VisibleHeight ELSE VisibleWidth
WindowHeight(o) == IF IsPortrait(o) THEN VisibleWidth ELSE VisibleHeight

(* The quotient of C.                                                      *)
Half(a) == IF a >= 0 THEN a \div 2 ELSE -((-a) \div 2)

(* Where presentIfNeeded puts the panel before SDL turns it.               *)
DstX(o) == IF IsPortrait(o) THEN Half(VisibleHeight - VisibleWidth) ELSE 0
DstY(o) == IF IsPortrait(o) THEN Half(VisibleWidth - VisibleHeight) ELSE 0

(* The pixel (sx, sy) of the visible panel is the pixel (wx, wy) of the    *)
(* window. SDL_RenderCopyEx turns around the centre of the destination,    *)
(* clockwise. Everything is counted in half pixels: a pixel's middle is    *)
(* half a pixel from its corner.                                           *)
Shows(o, sx, sy, wx, wy) ==
  LET cx == 2 * DstX(o) + VisibleWidth
      cy == 2 * DstY(o) + VisibleHeight
      dx == 2 * (DstX(o) + sx) + 1 - cx
      dy == 2 * (DstY(o) + sy) + 1 - cy
      x == 2 * wx + 1 - cx
      y == 2 * wy + 1 - cy
  IN  CASE o = "Portrait"           -> x = -dy /\ y = dx     (*  90 degrees *)
        [] o = "PortraitInverted"   -> x = dy /\ y = -dx     (* -90 degrees *)
        [] o = "LandscapeClockwise" -> x = -dx /\ y = -dy    (* 180 degrees *)
        [] OTHER                    -> x = dx /\ y = dy

-----------------------------------------------------------------------------
(* Touches.                                                                *)

(* The panel pixel at which a logical pixel is: the same switch stands in  *)
(* both files.                                                             *)
PanelX(o, x, y) ==
  CASE o = "Portrait" -> y
    [] o = "PortraitInverted" -> DISPLAY_WIDTH - 1 - y
    [] o = "LandscapeClockwise" -> DISPLAY_WIDTH - 1 - x
    [] OTHER -> x

PanelY(o, x, y) ==
  CASE o = "Portrait" -> DISPLAY_HEIGHT - 1 - x
    [] o = "PortraitInverted" -> x
    [] o = "LandscapeClockwise" -> DISPLAY_HEIGHT - 1 - y
    [] OTHER -> y

(* simulatorWindowPointToPanelNormalized, before it is normalised          *)
TouchX(o, wx, wy) ==
  Clamp(PanelX(o, wx + SIMULATOR_BEZEL_INSET, wy + SIMULATOR_BEZEL_INSET),
        0, DISPLAY_WIDTH - 1)
TouchY(o, wx, wy) ==
  Clamp(PanelY(o, wx + SIMULATOR_BEZEL_INSET, wy + SIMULATOR_BEZEL_INSET),
        0, DISPLAY_HEIGHT - 1)

(* External: the size of the page the renderer draws (GfxRenderer)         *)
ScreenWidth(o) == IF IsPortrait(o) THEN DISPLAY_HEIGHT ELSE DISPLAY_WIDTH
ScreenHeight(o) == IF IsPortrait(o) THEN DISPLAY_WIDTH ELSE DISPLAY_HEIGHT

(* parseTouchSpec: a coordinate of a script as a fraction; 0 and 1 are     *)
(* taken for fractions, everything else for pixels of a screen of extent   *)
(* pixels.                                                                 *)
NormalizedTouch(v, extent) ==
  IF v \in {0, 1} THEN [num |-> v, den |-> 1]
  ELSE LET den == IF extent > 1 THEN extent - 1 ELSE 1
       IN  [num |-> Clamp(v, 0, den), den |-> den]

(* logicalToPanelNormalized: the logical pixels that a fraction may reach; *)
(* where the product is a whole number, its float may lie just below it.   *)
LogicalPixels(fraction, extent) ==
  LET product == fraction.num * (extent - 1)
      pixel == product \div fraction.den
  IN  {pixel} \cup (IF /\ product % fraction.den = 0
                       /\ 0 < fraction.num /\ fraction.num < fraction.den
                    THEN {pixel - 1} ELSE {})

(* The panel pixels that a scripted touch reaches when the script was read *)
(* in orientation then and the touch happens in orientation now.           *)
ScriptedTouch(then, now, v, w) ==
  {<<PanelX(now, x, y), PanelY(now, x, y)>> :
     x \in LogicalPixels(NormalizedTouch(v, ScreenWidth(then)),
                         ScreenWidth(now)),
     y \in LogicalPixels(NormalizedTouch(w, ScreenHeight(then)),
                         ScreenHeight(now))}

-----------------------------------------------------------------------------
(* Drawing. A byte is the set of its bits that are set: white pixels.      *)

WidthBytes == DISPLAY_WIDTH \div 8
BufferSize == WidthBytes * DISPLAY_HEIGHT

(* getBit                                                                  *)
Pixel(fb, x, y) == (7 - (x % 8)) \in fb[(y * DISPLAY_WIDTH + x) \div 8]

ClearScreen(color) == [i \in 0 .. BufferSize - 1 |-> color]

(* The loops of drawImage: both end at the first row, or byte, outside.    *)
Drawn(x, y, w, h) ==
  {r \in 0 .. h - 1 : \A k \in 0 .. r : (y + k) % Word < DISPLAY_HEIGHT}
    \X {c \in 0 .. (w \div 8) - 1 : (x \div 8) + c < WidthBytes}

DestOf(x, y, at) ==
  ((((y + at[1]) % Word) * WidthBytes + (x \div 8)) % Word) + at[2]
SrcOf(w, at) == ((at[1] * (w \div 8)) % Word) + at[2]

DrawnAt(x, y, w, h, i) == {at \in Drawn(x, y, w, h) : DestOf(x, y, at) = i}

(* The last byte that is written at i stays.                               *)
DrawImage(fb, image, x, y, w, h) ==
  [i \in DOMAIN fb |->
     LET at == DrawnAt(x, y, w, h, i)
         last == CHOOSE a \in at : \A b \in at : b[1] <= a[1]
     IN  IF at = {} THEN fb[i] ELSE image[SrcOf(w, last)]]

DrawImageTransparent(fb, image, x, y, w, h) ==
  [i \in DOMAIN fb |->
     {bit \in fb[i] :
        \A at \in DrawnAt(x, y, w, h, i) : bit \in image[SrcOf(w, at)]}]

(* renderBwPixels and composeGrayscalePreview: a level of gray.            *)
BwLevel(white, inverted) == IF white # inverted THEN 255 ELSE 0

GrayLevel(baseWhite, lsb, msb, inverted) ==
  LET level == IF baseWhite THEN 255
               ELSE IF msb THEN IF lsb THEN 96 ELSE 200
               ELSE IF lsb THEN 96 ELSE 0
  IN  IF inverted THEN 255 - level ELSE level
=============================================================================
