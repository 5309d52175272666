------------------------------- MODULE MCHals -------------------------------
(***************************************************************************)
(* What the definitions of SmallHals and Geometry promise, for a small     *)
(* panel and the dates from 1967 to 2134. TLC evaluates the assumptions    *)
(* of this module before it starts a run of a module that extends it.      *)
(***************************************************************************)
EXTENDS SmallHals, Geometry

(* The firmware hears the same of a board at compile time and at run time, *)
(* and a sensor that the simulator has is one that the firmware knows of.  *)
ASSUME CapabilitiesAgree ==
  /\ FREEINK_MCU_C3 \cup FREEINK_MCU_S3 = Boards
  /\ FREEINK_MCU_C3 \cap FREEINK_MCU_S3 = {}
  /\ \A build \in Boards :
       LET active == SelectDevice(build)
       IN  /\ HasTouch(active) = (build \in FREEINK_CAP_TOUCH)
           /\ HasPwmFrontlight(active) = (build \in FREEINK_CAP_FRONTLIGHT)
           /\ HasHomeKey(active) => HasTouch(active)
           /\ HasTouch(active) # IsXteinkDevice(active)
           /\ ClockAvailable(build) => build \in FREEINK_CAP_RTC
           /\ TiltAvailable(build) => build \in FREEINK_CAP_IMU
           /\ FREEINK_CAP_WARMLIGHT = FREEINK_CAP_FRONTLIGHT
           /\ FREEINK_CAP_RTC = FREEINK_BATTERY_I2C_GAUGE

(* The boards whose firmware is told of a clock or of a motion sensor that *)
(* the simulator does not have.                                            *)
ASSUME MissingSensors ==
  /\ {b \in FREEINK_CAP_RTC : ~ClockAvailable(b)} = {"X4Classic"}
  /\ {b \in FREEINK_CAP_IMU : ~TiltAvailable(b)} = {"Sticky", "X4Classic"}

(* Every panel is one that Geometry assumes.                               *)
ASSUME PanelsAreEven ==
  \A build \in Boards :
    /\ DisplayWidth(build) % 8 = 0 /\ DisplayHeight(build) % 2 = 0
    /\ DisplayHeight(build) > 4
    /\ (DisplayWidth(build) \div 8) * DisplayHeight(build) < 65536

-----------------------------------------------------------------------------
(* The clock.                                                              *)

(* Reference: the calendar, from one day to the next.                      *)
IsLeap(year) == year % 4 = 0 /\ (year % 100 # 0 \/ year % 400 = 0)
DaysIn(year, month) ==
  IF month = 2 THEN IF IsLeap(year) THEN 29 ELSE 28
  ELSE IF month \in {4, 6, 9, 11} THEN 30 ELSE 31
NextDay(date) ==
  IF date.day < DaysIn(date.year, date.month)
  THEN [date EXCEPT !.day = @ + 1]
  ELSE IF date.month < 12
  THEN [date EXCEPT !.day = 1, !.month = @ + 1]
  ELSE [year |-> date.year + 1, month |-> 1, day |-> 1]

ASSUME DaysFollow ==
  /\ Gmtime(0) = [year |-> 1970, month |-> 1, day |-> 1]
  /\ \A day \in -800 .. 60000 : Gmtime(day + 1) = NextDay(Gmtime(day))

(* The 12-hour clock tells every minute of the day from every other.       *)
ASSUME TwelveHoursRead ==
  LET shown == [m \in 0 .. 1439 |-> FormatTime(TRUE, m, 48, TRUE, 9)]
  IN  /\ Cardinality({shown[m] : m \in 0 .. 1439}) = 1440
      /\ \A m \in 0 .. 1439 :
           LET hour == (shown[m][1] % 12) + (IF shown[m][3] = "PM" THEN 12
                                             ELSE 0)
           IN  hour * 60 + shown[m][2] = m

Length(fields, date) ==
  LET sum[k \in 0 .. Len(fields)] ==
        IF k = 0 THEN 0 ELSE sum[k - 1] + FieldLength(fields[k], date)
  IN  sum[Len(fields)]

(* Every date fits the 13 bytes that formatDate asks for, with its end.    *)
ASSUME DatesFit ==
  \A format \in DateFormats, day \in 0 .. 365, separator \in {".", "-", "x"} :
    LET shown == FormatDate(TRUE, day * 1440, 48, format, separator, 13)
    IN  Length(shown[1], shown[2]) < 13

(* A board without a clock says so, whatever it is asked for.              *)
ASSUME NoClockNoTime ==
  \A now \in {0, 719, 1440} :
    /\ GetDateTime(FALSE, now) = None
    /\ FormatTime(FALSE, now, 48, FALSE, 6) = None
    /\ FormatDate(FALSE, now, 48, "DAY_MONTH_LONG", "/", 13) = None

-----------------------------------------------------------------------------
(* The light.                                                              *)

LightStep(light, active, v, on) ==
  {LightBegin(light, active, v, v, on), SetBrightness(light, v),
   SetWarmth(light, v), SetOn(light, active, on)}

(* No two calls light a board that has no light, or drive one above its    *)
(* full power.                                                             *)
ASSUME LightIsReal ==
  \A build \in Boards, v, w \in {0, 100, 101, 255}, on, still \in BOOLEAN :
    \A light \in LightStep(DarkLight, build, v, on) :
      \A next \in LightStep(light, build, w, still) :
        /\ next.brightness \in 0 .. 100 /\ next.warmth \in 0 .. 100
        /\ next.lit => build \in FREEINK_CAP_FRONTLIGHT

-----------------------------------------------------------------------------
(* Touches and drawing.                                                    *)

(* A scripted pixel is touched, or a neighbour of it, when the script was  *)
(* read in the orientation of the touch. The pixels 0 and 1 are not: 1 is  *)
(* read as a fraction, the far edge of the screen.                         *)
ASSUME ScriptsHit ==
  \A o \in Orientations :
    LET xs == 0 .. ScreenWidth(o) - 1
        ys == 0 .. ScreenHeight(o) - 1
    IN  \A x \in xs \ {1}, y \in ys \ {1} :
          /\ <<PanelX(o, x, y), PanelY(o, x, y)>> \in ScriptedTouch(o, o, x, y)
          /\ \A p \in ScriptedTouch(o, o, x, y) :
               /\ p[1] - PanelX(o, x, y) \in -1 .. 1
               /\ p[2] - PanelY(o, x, y) \in -1 .. 1

ASSUME PixelOneMisses ==
  \A o \in Orientations :
    ScriptedTouch(o, o, 1, 1) =
      {<<PanelX(o, ScreenWidth(o) - 1, ScreenHeight(o) - 1),
         PanelY(o, ScreenWidth(o) - 1, ScreenHeight(o) - 1)>>}

(* A script is read once, in the first frame; the pixels of a page in      *)
(* another orientation are missed.                                         *)
ASSUME TurnedScreenMisses ==
  \E x \in 2 .. DISPLAY_HEIGHT - 1 :
    \A p \in ScriptedTouch("Portrait", "LandscapeCounterClockwise", x, 2) :
      p[1] - PanelX("LandscapeCounterClockwise", x, 2) \notin -1 .. 1

(* Images over a frame of a few bytes; the bits tell the bytes apart.      *)
SomeImage(size) == [i \in 0 .. size - 1 |-> {i % 8, (i * 3) % 8, 7}]
SomeFrame == [i \in 0 .. BufferSize - 1 |-> {i % 8, 0}]

(* Reference: the pixel of an image, whose rows are whole bytes.           *)
ImagePixel(image, w, x, y) ==
  (7 - (x % 8)) \in image[y * (w \div 8) + x \div 8]

(* An image whose width is a multiple of 8 and whose bytes a uint16_t can  *)
(* count lands pixel by pixel at y and at the next multiple of 8 to the    *)
(* left of x, is cut off at the right and at the bottom, and nothing else  *)
(* changes.                                                                *)
ASSUME ImagesLand ==
  \A x \in {0, 3, 8, 16, 24}, y \in {0, 1, DISPLAY_HEIGHT - 1, Word - 1},
     w \in {0, 8, 16, 32}, h \in {0, 2, DISPLAY_HEIGHT} :
    (w \div 8) * h <= Word =>
      LET image == SomeImage((w \div 8) * h)
          drawn == DrawImage(SomeFrame, image, x, y, w, h)
          mixed == DrawImageTransparent(SomeFrame, image, x, y, w, h)
          left == x - (x % 8)
      IN  \A px \in 0 .. DISPLAY_WIDTH - 1, py \in 0 .. DISPLAY_HEIGHT - 1 :
            IF px - left \in 0 .. w - 1 /\ py - y \in 0 .. h - 1
            THEN LET white == ImagePixel(image, w, px - left, py - y)
                 IN  /\ Pixel(drawn, px, py) = white
                     /\ Pixel(mixed, px, py)
                          = (white /\ Pixel(SomeFrame, px, py))
            ELSE /\ Pixel(drawn, px, py) = Pixel(SomeFrame, px, py)
                 /\ Pixel(mixed, px, py) = Pixel(SomeFrame, px, py)

(* An inverted preview is the negative of the preview, and without planes  *)
(* it is the page.                                                         *)
ASSUME PolarityAgrees ==
  \A white, lsb, msb \in BOOLEAN :
    /\ GrayLevel(white, lsb, msb, TRUE)
         = 255 - GrayLevel(white, lsb, msb, FALSE)
    /\ \A inverted \in BOOLEAN :
         GrayLevel(white, FALSE, FALSE, inverted) = BwLevel(white, inverted)
=============================================================================
