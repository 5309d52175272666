------------------------------ MODULE HalProofs ------------------------------
(***************************************************************************)
(* Proofs about the clock and the ports of SmallHals, about the window and *)
(* the touches of Geometry, and about HalGPIO: the buttons, the panel and  *)
(* the Home key of SimInput, sleeping and relaunching of SimPower.         *)
(***************************************************************************)
EXTENDS SimInput, SmallHals, Geometry, SimPower, TLAPS

LEMMA OffsetRange ==
  ASSUME NEW biased \in 0 .. 255
  PROVE  OffsetMinutes(biased) \in -720 .. 840
BY DEF OffsetMinutes

(* The remainder of C, made positive, is the remainder.                    *)
LEMMA RemTwice ==
  ASSUME NEW a \in Int, -1440 <= a, a <= 2880
  PROVE  Rem(Rem(a, 1440) + 1440, 1440) = a % 1440
<1>1. CASE a >= 0
  <2>1. Rem(a, 1440) = a % 1440 /\ a % 1440 \in 0 .. 1439
    BY <1>1 DEF Rem
  <2>2. Rem((a % 1440) + 1440, 1440) = ((a % 1440) + 1440) % 1440
    BY <2>1 DEF Rem
  <2>3. QED BY <2>1, <2>2
<1>2. CASE a < 0
  <2>1. CASE a = -1440
    BY <2>1 DEF Rem
  <2>2. CASE a # -1440
    <3>1. a \in Int /\ -1440 < a /\ a < 0
      BY <1>2, <2>2
    <3>2. (-a) % 1440 = -a
      BY <3>1
    <3>3. Rem(a, 1440) = a
      BY <1>2, <3>1, <3>2 DEF Rem
    <3>4. Rem(a + 1440, 1440) = a + 1440
      BY <3>1 DEF Rem
    <3>5. a % 1440 = a + 1440
      BY <3>1
    <3>6. QED BY <3>3, <3>4, <3>5
  <2>3. QED BY <2>1, <2>2
<1>3. QED BY <1>1, <1>2

(* The hour and the minute of gmtime are the minute of the day.            *)
LEMMA MinuteOfDay ==
  ASSUME NEW now \in Int
  PROVE  ((now \div 60) % 24) * 60 + (now % 60) = now % 1440
<1> DEFINE h == now \div 60
           d == h \div 24
<1>1. now = 60 * h + (now % 60) /\ now % 60 \in 0 .. 59 /\ h \in Int
  OBVIOUS
<1>2. h = 24 * d + (h % 24) /\ h % 24 \in 0 .. 23 /\ d \in Int
  BY <1>1
<1> DEFINE r == (h % 24) * 60 + (now % 60)
<1>3. now = 1440 * d + r /\ r \in 0 .. 1439
  BY <1>1, <1>2
<1>4. now % 1440 = r
  BY <1>2, <1>3
<1>5. QED BY <1>4

(* formatTime wraps a minute of the day, formatDate moves the instant:     *)
(* what they show together is one instant, also across midnight, for every *)
(* offset a setting can hold.                                              *)
THEOREM TimeAndDateAgree ==
  ASSUME NEW now \in Int, NEW biased \in 0 .. 255
  PROVE  /\ ShownMinutes(now, biased) \in 0 .. 1439
         /\ ShownDay(now, biased) * 1440 + ShownMinutes(now, biased)
              = now + OffsetMinutes(biased)
<1> DEFINE o == OffsetMinutes(biased)
           m == now % 1440
<1>1. o \in Int /\ -720 <= o /\ o <= 840
  <2> HIDE DEF o
  <2>1. o \in -720 .. 840
    BY OffsetRange DEF o
  <2>2. QED BY <2>1
<1>2. m \in Int /\ 0 <= m /\ m <= 1439
  OBVIOUS
<1>3. ShownMinutes(now, biased) = (m + o) % 1440
  <2>1. ShownMinutes(now, biased) = Rem(Rem(m + o, 1440) + 1440, 1440)
    BY MinuteOfDay DEF ShownMinutes
  <2> HIDE DEF m, o
  <2>2. m + o \in Int /\ -1440 <= m + o /\ m + o <= 2880
    BY <1>1, <1>2
  <2>3. Rem(Rem(m + o, 1440) + 1440, 1440) = (m + o) % 1440
    BY <2>2, RemTwice
  <2>4. QED BY <2>1, <2>3
<1> HIDE DEF o
<1>4. (m + o) % 1440 = (now + o) % 1440
  <2> DEFINE d == now \div 1440
             e == (m + o) \div 1440
             r == (m + o) % 1440
  <2>1. now = 1440 * d + m /\ d \in Int
    OBVIOUS
  <2>2. m + o = 1440 * e + r /\ e \in Int /\ r \in 0 .. 1439
    BY <1>1, <1>2
  <2>3. now + o = 1440 * (d + e) + r
    BY <1>1, <1>2, <2>1, <2>2
  <2>4. (now + o) % 1440 = r
    BY <1>1, <2>1, <2>2, <2>3
  <2>5. QED BY <2>4
<1>5. /\ now + o = 1440 * ((now + o) \div 1440) + ((now + o) % 1440)
      /\ (now + o) % 1440 \in 0 .. 1439
  BY <1>1
<1>6. ShownDay(now, biased) = (now + o) \div 1440
  BY DEF ShownDay, o
<1>7. QED BY <1>1, <1>3, <1>4, <1>5, <1>6 DEF o

-----------------------------------------------------------------------------

(* Whatever CROSSPOINT_SIM_HTTP_PORT holds, the web server (80) and the    *)
(* WebSocket server (81) of the firmware get two ports that an             *)
(* unprivileged process may open.                                          *)
THEOREM PortsApart ==
  ASSUME NEW configured \in Int
  PROVE  /\ \A port \in {80, 81} :
              /\ 1024 <= MapFirmwarePort(configured, port)
              /\ MapFirmwarePort(configured, port) <= 65535
         /\ MapFirmwarePort(configured, 80) # MapFirmwarePort(configured, 81)
<1> DEFINE p == HttpPort(configured)
<1>1. p \in Int /\ 1024 <= p /\ p <= 65534
  BY DEF HttpPort, DEFAULT_HTTP_PORT, MIN_UNPRIVILEGED_PORT, MAX_HTTP_PORT
<1>2. /\ MapFirmwarePort(configured, 80) = p
      /\ MapFirmwarePort(configured, 81) = p + 1
  BY DEF MapFirmwarePort
<1> HIDE DEF p
<1>3. QED BY <1>1, <1>2

-----------------------------------------------------------------------------

LEMMA HalfOfEven ==
  ASSUME NEW a \in Int, NEW b \in Int, a % 2 = 0, b % 2 = 0
  PROVE  Half(a - b) \in Int /\ 2 * Half(a - b) = a - b
<1>1. a = 2 * (a \div 2) /\ b = 2 * (b \div 2)
  OBVIOUS
<1>2. CASE a - b >= 0
  BY <1>1, <1>2 DEF Half
<1>3. CASE a - b < 0
  BY <1>1, <1>3 DEF Half
<1>4. QED BY <1>2, <1>3

(* A click reaches the panel pixel that the window shows under it, in      *)
(* every orientation, and that pixel is inside the bezel: the switch of    *)
(* simulatorWindowPointToPanelNormalized undoes the turn and the offset of *)
(* presentIfNeeded.                                                        *)
THEOREM TouchIsSeen ==
  ASSUME NEW o \in Orientations,
         NEW wx \in 0 .. WindowWidth(o) - 1,
         NEW wy \in 0 .. WindowHeight(o) - 1
  PROVE  LET sx == TouchX(o, wx, wy) - SIMULATOR_BEZEL_INSET
             sy == TouchY(o, wx, wy) - SIMULATOR_BEZEL_INSET
         IN  /\ sx \in 0 .. VisibleWidth - 1
             /\ sy \in 0 .. VisibleHeight - 1
             /\ Shows(o, sx, sy, wx, wy)
<1> USE GeometryAssumption
<1> DEFINE W == DISPLAY_WIDTH  H == DISPLAY_HEIGHT  b == SIMULATOR_BEZEL_INSET
           sx == TouchX(o, wx, wy) - b
           sy == TouchY(o, wx, wy) - b
<1>1. CASE IsPortrait(o)
  <2>1. wx \in 0 .. H - 2 * b - 1 /\ wy \in 0 .. W - 2 * b - 1
    BY <1>1 DEF WindowWidth, WindowHeight, VisibleWidth, VisibleHeight
  <2>2. /\ VisibleWidth = W - 2 * b /\ VisibleHeight = H - 2 * b
        /\ VisibleWidth % 2 = 0 /\ VisibleHeight % 2 = 0
    BY DEF VisibleWidth, VisibleHeight
  <2>3. /\ DstX(o) \in Int /\ 2 * DstX(o) = VisibleHeight - VisibleWidth
        /\ DstY(o) \in Int /\ 2 * DstY(o) = VisibleWidth - VisibleHeight
    <3> DEFINE v == VisibleWidth  u == VisibleHeight
    <3>1. v \in Int /\ u \in Int /\ v % 2 = 0 /\ u % 2 = 0
      BY <2>2
    <3>2. DstX(o) = Half(u - v) /\ DstY(o) = Half(v - u)
      BY <1>1 DEF DstX, DstY
    <3> HIDE DEF v, u
    <3>3. /\ Half(u - v) \in Int /\ 2 * Half(u - v) = u - v
          /\ Half(v - u) \in Int /\ 2 * Half(v - u) = v - u
      BY <3>1, HalfOfEven
    <3>4. QED BY <3>2, <3>3 DEF v, u
  <2>4. CASE o = "Portrait"
    <3>1. sx = wy /\ sy = H - 2 * b - 1 - wx
      BY <2>1, <2>4 DEF TouchX, TouchY, PanelX, PanelY, Clamp
    <3>2. Shows(o, sx, sy, wx, wy)
      BY <2>1, <2>2, <2>3, <2>4, <3>1 DEF Shows
    <3>3. QED BY <2>1, <2>2, <3>1, <3>2
  <2>5. CASE o = "PortraitInverted"
    <3>1. sx = W - 2 * b - 1 - wy /\ sy = wx
      BY <2>1, <2>5 DEF TouchX, TouchY, PanelX, PanelY, Clamp
    <3>2. Shows(o, sx, sy, wx, wy)
      BY <2>1, <2>2, <2>3, <2>5, <3>1 DEF Shows
    <3>3. QED BY <2>1, <2>2, <3>1, <3>2
  <2>6. QED BY <1>1, <2>4, <2>5 DEF IsPortrait
<1>2. CASE ~IsPortrait(o)
  <2>1. wx \in 0 .. W - 2 * b - 1 /\ wy \in 0 .. H - 2 * b - 1
    BY <1>2 DEF WindowWidth, WindowHeight, VisibleWidth, VisibleHeight
  <2>2. VisibleWidth = W - 2 * b /\ VisibleHeight = H - 2 * b
    BY DEF VisibleWidth, VisibleHeight
  <2>3. DstX(o) = 0 /\ DstY(o) = 0
    BY <1>2 DEF DstX, DstY
  <2>4. CASE o = "LandscapeClockwise"
    <3>1. sx = W - 2 * b - 1 - wx /\ sy = H - 2 * b - 1 - wy
      BY <2>1, <2>4 DEF TouchX, TouchY, PanelX, PanelY, Clamp
    <3>2. Shows(o, sx, sy, wx, wy)
      BY <2>1, <2>2, <2>3, <2>4, <3>1 DEF Shows
    <3>3. QED BY <2>1, <2>2, <3>1, <3>2
  <2>5. CASE o = "LandscapeCounterClockwise"
    <3>1. sx = wx /\ sy = wy
      BY <2>1, <2>5 DEF TouchX, TouchY, PanelX, PanelY, Clamp
    <3>2. Shows(o, sx, sy, wx, wy)
      BY <2>1, <2>2, <2>3, <2>5, <3>1 DEF Shows
    <3>3. QED BY <2>1, <2>2, <3>1, <3>2
  <2>6. QED BY <1>2, <2>4, <2>5 DEF Orientations, IsPortrait
<1>3. QED BY <1>1, <1>2

-----------------------------------------------------------------------------
(* Buttons. A time since the press never runs ahead of the time a button   *)
(* has been down, by key and script together.                              *)

ButtonInv ==
  /\ since \in [Buttons -> Ages \cup {Never}]
  /\ downFor \in [Buttons -> Ages]
  /\ \A b \in Down : b \in Buttons =>
       since[b] = Never \/ since[b] <= downFor[b]

LEMMA ButtonStep == ButtonInv /\ [Next]_vars => ButtonInv'
<1> SUFFICES ASSUME ButtonInv, [Next]_vars PROVE ButtonInv'
  OBVIOUS
<1> USE SimInputAssumption DEF ButtonInv, Ages, Never, Down
<1>1. CASE Tick
  BY <1>1 DEF Tick, Older
<1>2. ASSUME NEW b \in Buttons, KeyDown(b) \/ SyntheticDown(b)
      PROVE  ButtonInv'
  BY <1>2 DEF KeyDown, SyntheticDown
<1>3. ASSUME NEW b \in Buttons, KeyUp(b) \/ SyntheticUp(b)
      PROVE  ButtonInv'
  BY <1>3 DEF KeyUp, SyntheticUp, Longest
<1>4. CASE ClearButtonState
  BY <1>4 DEF ClearButtonState, Longest
<1>5. CASE UNCHANGED <<keyboard, synthetic, since, downFor>>
  BY <1>5
<1>6. QED
  BY <1>1, <1>2, <1>3, <1>4, <1>5
     DEF Next, vars, BeginFrame, StartUpdate, FinishUpdate, BeginTouch,
         MoveTouch, EndTouch, WasTouchLongPress, SuppressTouchContact,
         BeginHomeKey, EndHomeKey, buttonVars

(* Neither keyboard and script together nor a press time from before make  *)
(* a press look longer than it was (HalGPIO::getHeldTime,                  *)
(* getPowerButtonHeldTime).                                                *)
THEOREM HeldTimeHonest == Spec => []HeldNotLonger
<1>1. Init => ButtonInv
  BY SimInputAssumption DEF Init, ButtonInv, Down, Ages, Never
<1>2. ButtonInv /\ [Next]_vars => ButtonInv'
  BY ButtonStep
<1>3. ButtonInv => HeldNotLonger
  BY SimInputAssumption
     DEF ButtonInv, HeldNotLonger, HeldTime, Ages, Never, Down
<1>4. QED BY <1>1, <1>2, <1>3, PTL DEF Spec

-----------------------------------------------------------------------------
(* Touch and Home key. What the contact did is in the record the queries   *)
(* look at.                                                                *)

TouchTypes ==
  /\ DOMAIN touch = {"down", "pressed", "released", "moved", "longFired",
                     "suppressed", "activity", "start", "current", "age",
                     "lastHeld"}
  /\ DOMAIN contact = {"reach", "held", "longs", "hushed", "hasty"}
  /\ touch.start \in Int /\ touch.current \in Int
  /\ contact.reach \in Int /\ contact.longs \in Int
  /\ contact.held \in Int

TouchInv ==
  /\ TouchTypes
  /\ contact.reach > TOUCH_TAP_SLOP_PX => touch.moved
  /\ ~touch.moved =>
       Distance(touch.start, touch.current) <= TOUCH_TAP_SLOP_PX
  /\ contact.longs <= 1
  /\ ~touch.longFired => contact.longs <= 0
  /\ contact.hushed => touch.suppressed
  /\ Distance(touch.start, touch.current) <= contact.reach
  /\ contact.held = IF touch.down THEN touch.age ELSE touch.lastHeld
  /\ ~contact.hasty

(* Nothing the invariant looks at is touched.                              *)
TouchSame ==
  /\ DOMAIN touch' = DOMAIN touch /\ contact' = contact
  /\ touch'.start = touch.start /\ touch'.current = touch.current
  /\ touch'.moved = touch.moved /\ touch'.longFired = touch.longFired
  /\ touch'.suppressed = touch.suppressed /\ touch'.down = touch.down
  /\ touch'.age = touch.age /\ touch'.lastHeld = touch.lastHeld

(* The contact went to p and lasts or ends there.                          *)
TouchWent(p) ==
  /\ DOMAIN touch' = DOMAIN touch /\ DOMAIN contact' = DOMAIN contact
  /\ touch'.start = touch.start /\ touch'.current = p
  /\ touch'.moved <=>
       touch.moved \/ Distance(touch.start, p) > TOUCH_TAP_SLOP_PX
  /\ touch'.longFired <=> touch.longFired
  /\ touch'.suppressed <=> touch.suppressed
  /\ touch.age = IF touch'.down THEN touch'.age ELSE touch'.lastHeld
  /\ contact'.reach = IF Distance(touch.start, p) > contact.reach
                      THEN Distance(touch.start, p) ELSE contact.reach
  /\ contact'.held = contact.held /\ contact'.longs = contact.longs
  /\ contact'.hushed <=> contact.hushed
  /\ contact'.hasty <=> contact.hasty

LEMMA TouchStep == TouchInv /\ [Next]_vars => TouchInv'
<1> SUFFICES ASSUME TouchInv, [Next]_vars PROVE TouchInv'
  OBVIOUS
<1> USE SimInputAssumption DEF TouchInv, TouchTypes, TOUCH_TAP_SLOP_PX
<1>1. ASSUME TouchSame PROVE TouchInv'
  BY <1>1 DEF TouchSame, Distance
<1>2. CASE BeginFrame
  <2>1. TouchSame
    BY <1>2 DEF BeginFrame, TouchSame
  <2>2. QED BY <1>1, <2>1
<1>3. CASE Tick
  <2>1. touch' = [touch EXCEPT !.age = IF touch.down THEN Older(touch.age)
                                       ELSE 0]
    BY <1>3 DEF Tick
  <2>2. contact' = [contact EXCEPT !.held = IF touch.down
                                            THEN Older(contact.held)
                                            ELSE contact.held]
    BY <1>3 DEF Tick
  <2>3. Older(contact.held) \in Int
    BY DEF Older
  <2>4. QED BY <2>1, <2>2, <2>3 DEF Distance
<1>4. CASE ClearButtonState
  BY <1>4 DEF ClearButtonState, NoTouch, NewContact, Distance
<1>5. ASSUME NEW p \in Positions, BeginTouch(p) PROVE TouchInv'
  <2>1. /\ DOMAIN touch' = DOMAIN touch /\ ~touch'.moved
        /\ touch'.start = p /\ touch'.current = p
        /\ touch'.down /\ touch'.age = 0
    BY <1>5 DEF BeginTouch
  <2>2. contact' = NewContact
    BY <1>5 DEF BeginTouch
  <2>3. p \in Int /\ Distance(p, p) = 0
    BY DEF Distance
  <2>4. QED BY <2>1, <2>2, <2>3 DEF NewContact
<1>6. ASSUME NEW p \in Positions, touch.down, TouchWent(p) PROVE TouchInv'
  <2>1. p \in Int /\ Distance(touch.start, p) \in Int
    BY DEF Distance
  <2>2. QED BY <1>6, <2>1 DEF TouchWent
<1>7. ASSUME NEW p \in Positions, MoveTouch(p) PROVE TouchInv'
  <2>1. touch.down /\ TouchWent(p)
    BY <1>7 DEF MoveTouch, Moved, Reached, TouchWent
  <2>2. QED BY <1>6, <2>1
<1>8. ASSUME NEW p \in Positions, EndTouch(p) PROVE TouchInv'
  <2>1. touch.down /\ TouchWent(p)
    BY <1>8 DEF EndTouch, Moved, Reached, TouchWent
  <2>2. QED BY <1>6, <2>1
<1>9. CASE WasTouchLongPress
  <2>1. LongPressDue /\ ~touch.longFired
    BY <1>9 DEF WasTouchLongPress, IsTouchTapCandidate, LongPressDue
  <2>2. /\ DOMAIN contact' = DOMAIN contact
        /\ contact'.longs = contact.longs + 1
        /\ contact'.hasty <=> contact.hasty \/ ~LongPressDue
        /\ contact'.reach = contact.reach /\ contact'.held = contact.held
        /\ contact'.hushed <=> contact.hushed
    BY <1>9 DEF WasTouchLongPress
  <2>3. /\ DOMAIN touch' = DOMAIN touch /\ touch'.longFired
        /\ touch'.start = touch.start /\ touch'.current = touch.current
        /\ touch'.moved <=> touch.moved
        /\ touch'.suppressed <=> touch.suppressed
        /\ touch'.down <=> touch.down
        /\ touch'.age = touch.age /\ touch'.lastHeld = touch.lastHeld
    BY <1>9 DEF WasTouchLongPress
  <2>4. QED BY <2>1, <2>2, <2>3 DEF Distance
<1>10. CASE SuppressTouchContact
  BY <1>10 DEF SuppressTouchContact, Distance
<1>11. CASE UNCHANGED touchVars
  BY <1>11 DEF touchVars
<1>12. QED
  BY <1>2, <1>3, <1>4, <1>5, <1>7, <1>8, <1>9, <1>10, <1>11
     DEF Next, vars, touchVars, StartUpdate, FinishUpdate, KeyDown, KeyUp,
         SyntheticDown, SyntheticUp, BeginHomeKey, EndHomeKey

HomeInv ==
  /\ DOMAIN home = {"down", "pressed", "tapped", "long", "longFired", "age"}
  /\ homeTold \in {0, 1}
  /\ home.down /\ ~home.longFired => homeTold = 0

LEMMA HomeStep == HomeInv /\ [Next]_vars => HomeInv'
<1> SUFFICES ASSUME HomeInv, [Next]_vars PROVE HomeInv'
  OBVIOUS
<1> USE SimInputAssumption DEF HomeInv, homeVars
<1>1. CASE BeginFrame
  BY <1>1 DEF BeginFrame
<1>2. CASE Tick
  BY <1>2 DEF Tick, Older
<1>3. CASE ClearButtonState
  BY <1>3 DEF ClearButtonState, NoHome
<1>4. CASE FinishUpdate
  <2>1. CASE UNCHANGED homeVars
    BY <2>1
  <2>2. CASE ~UNCHANGED homeVars
    <3>1. home.down /\ ~home.longFired /\ homeTold' = homeTold + 1
      BY <1>4, <2>2 DEF FinishUpdate
    <3>2. home' = [home EXCEPT !.longFired = TRUE, !.long = TRUE]
      BY <1>4, <2>2 DEF FinishUpdate
    <3>3. home'.longFired /\ DOMAIN home' = DOMAIN home
      BY <3>2
    <3>4. QED BY <3>1, <3>3
  <2>3. QED BY <2>1, <2>2
<1>5. CASE BeginHomeKey
  BY <1>5 DEF BeginHomeKey
<1>6. CASE EndHomeKey
  <2>1. ~home'.down /\ DOMAIN home' = DOMAIN home
    BY <1>6 DEF EndHomeKey
  <2>2. \/ homeTold' = homeTold
        \/ ~home.longFired /\ homeTold' = homeTold + 1
    BY <1>6 DEF EndHomeKey
  <2>3. home.down
    BY <1>6 DEF EndHomeKey
  <2>4. QED BY <2>1, <2>2, <2>3
<1>7. CASE UNCHANGED homeVars
  BY <1>7
<1>8. QED
  BY <1>1, <1>2, <1>3, <1>4, <1>5, <1>6, <1>7
     DEF Next, vars, StartUpdate, KeyDown, KeyUp, SyntheticDown,
         SyntheticUp, BeginTouch, MoveTouch, EndTouch, WasTouchLongPress,
         SuppressTouchContact

(* However contacts, presses, time and the firmware's questions interleave,*)
(* the answers agree with the contact and among themselves                 *)
(* (HalGPIO::wasTouchTap, wasSwipe, wasTouchLongPress, wasHomeKeyTapped).  *)
THEOREM AnswersTrueToContacts == Spec => []AnswersMatchContacts
<1>1. Init => TouchInv /\ HomeInv
  BY DEF Init, TouchInv, TouchTypes, HomeInv, NoTouch, NewContact, NoHome,
         Distance, TOUCH_TAP_SLOP_PX
<1>2. TouchInv /\ HomeInv /\ [Next]_vars => (TouchInv /\ HomeInv)'
  BY TouchStep, HomeStep
<1>3. TouchInv /\ HomeInv => AnswersMatchContacts
  <2> SUFFICES ASSUME TouchInv, HomeInv PROVE AnswersMatchContacts
    OBVIOUS
  <2>1. TapXorSwipe
    BY DEF TouchInv, TouchTypes, TapXorSwipe, WasTouchTap, WasSwipe,
           Distance, TOUCH_TAP_SLOP_PX, TOUCH_SWIPE_MIN_PX
  <2>2. TapStayedPut
    BY DEF TouchInv, TouchTypes, TapStayedPut, WasTouchTap,
           TOUCH_TAP_SLOP_PX
  <2>3. SwipeEarned
    <3>1. Distance(touch.start, touch.current) \in Int
      BY DEF TouchInv, TouchTypes, Distance
    <3>2. QED
      BY <3>1 DEF TouchInv, TouchTypes, SwipeEarned, WasSwipe,
                  TOUCH_SWIPE_MIN_PX, TOUCH_SWIPE_MAX
  <2>4. LongPressOnce /\ LongPressEarned /\ HomeOnce
    BY DEF TouchInv, HomeInv, LongPressOnce, LongPressEarned, HomeOnce
  <2>5. SuppressedIsSilent
    BY DEF TouchInv, SuppressedIsSilent, WasTouchTap, WasTouchReleased,
           IsTouchTapCandidate, IsTouchHeld
  <2>6. QED BY <2>1, <2>2, <2>3, <2>4, <2>5 DEF AnswersMatchContacts
<1>4. QED BY <1>1, <1>2, <1>3, PTL DEF Spec

-----------------------------------------------------------------------------
(* Edges.                                                                  *)

(* What a step may not take back within a frame.                           *)
Latched ==
  /\ pressed \subseteq pressed' /\ released \subseteq released'
  /\ \A f \in {"pressed", "released", "activity"} : touch[f] => touch'[f]
  /\ \A f \in {"pressed", "tapped", "long"} : home[f] => home'[f]

LEMMA EdgeStep ==
  TouchInv /\ HomeInv /\ [Next]_vars =>
    Edges \subseteq Edges' \/ BeginFrame \/ ClearButtonState
<1> SUFFICES ASSUME TouchInv, HomeInv, [Next]_vars, ~BeginFrame,
                    ~ClearButtonState
             PROVE  Edges \subseteq Edges'
  OBVIOUS
<1>1. Latched => Edges \subseteq Edges'
  BY DEF Latched, Edges
<1> USE DEF TouchInv, TouchTypes, HomeInv, Latched, buttonVars, touchVars,
            homeVars
<1>2. CASE Tick
  BY <1>1, <1>2 DEF Tick
<1>3. CASE FinishUpdate
  BY <1>1, <1>3 DEF FinishUpdate
<1>4. ASSUME NEW b \in Buttons,
             KeyDown(b) \/ KeyUp(b) \/ SyntheticDown(b) \/ SyntheticUp(b)
      PROVE  Edges \subseteq Edges'
  BY <1>1, <1>4 DEF KeyDown, KeyUp, SyntheticDown, SyntheticUp
<1>5. ASSUME NEW p \in Positions, BeginTouch(p) PROVE Edges \subseteq Edges'
  BY <1>1, <1>5 DEF BeginTouch
<1>6. ASSUME NEW p \in Positions, MoveTouch(p) \/ EndTouch(p)
      PROVE  Edges \subseteq Edges'
  BY <1>1, <1>6 DEF MoveTouch, EndTouch, Moved
<1>7. CASE WasTouchLongPress \/ SuppressTouchContact
  BY <1>1, <1>7 DEF WasTouchLongPress, SuppressTouchContact
<1>8. CASE BeginHomeKey \/ EndHomeKey
  BY <1>1, <1>8 DEF BeginHomeKey, EndHomeKey
<1>9. CASE StartUpdate \/ UNCHANGED vars
  BY <1>1, <1>9 DEF StartUpdate, vars
<1>10. QED
  BY <1>2, <1>3, <1>4, <1>5, <1>6, <1>7, <1>8, <1>9 DEF Next

(* Only a new frame, or the reset after a deep sleep, takes back an edge   *)
(* the firmware has not asked for (HalGPIO::beginFrame, update,            *)
(* clearButtonState).                                                      *)
THEOREM EdgesAreLatched == Spec => EdgesLatched
<1>1. Init => TouchInv /\ HomeInv
  BY DEF Init, TouchInv, TouchTypes, HomeInv, NoTouch, NewContact, NoHome,
         Distance, TOUCH_TAP_SLOP_PX
<1>2. TouchInv /\ HomeInv /\ [Next]_vars => (TouchInv /\ HomeInv)'
  BY TouchStep, HomeStep
<1>3. TouchInv /\ HomeInv /\ [Next]_vars
        => [Edges \subseteq Edges' \/ BeginFrame \/ ClearButtonState]_vars
  BY EdgeStep
<1>4. QED BY <1>1, <1>2, <1>3, PTL DEF Spec, EdgesLatched

-----------------------------------------------------------------------------
(* Relaunching: what one process leaves in the environment, and which      *)
(* later process reads it, in chains of any length (SimPower).             *)

USE SimPowerAssumption

Awake == phase \in {"awake", "script", "keys"}

(* The wake reason is in the environment from the wake to setup only, and  *)
(* setup hands it over.                                                    *)
WakeInv ==
  /\ "wake" \in DOMAIN env /\ "token" \in DOMAIN env
  /\ DOMAIN env = Schedules \cup {"wake", "token"}
  /\ born \in {"start", "reboot", "wake"}
  /\ phase \in {"setup", "awake", "script", "keys", "gone"}
  /\ phase = "setup" => (env["wake"] = "power" <=> born = "wake")
  /\ Awake => env["wake"] # "power"
  /\ WakeReasonIsTrue

LEMMA WakeStep == WakeInv /\ [PowerNext]_powerVars => WakeInv'
<1> SUFFICES ASSUME WakeInv, [PowerNext]_powerVars PROVE WakeInv'
  OBVIOUS
<1> USE DEF WakeInv, WakeReasonIsTrue, Awake, Schedules
<1>1. CASE Setup
  BY <1>1 DEF Setup, Consume
<1>2. CASE Reboot
  <2>1. Exec(RebootEnv(env), "reboot") /\ phase = "awake"
    BY <1>2 DEF Reboot
  <2>2. QED BY <2>1 DEF Exec, RebootEnv, Promote
<1>3. CASE SleepScriptWake \/ SleepKeysWake
  <2>1. Exec(WakeEnv(env), "wake") /\ Awake
    BY <1>3 DEF SleepScriptWake, SleepKeysWake
  <2>2. QED BY <2>1 DEF Exec, WakeEnv, Promote
<1>4. ASSUME NEW t \in Tokens, SetToken(t) PROVE WakeInv'
  BY <1>4 DEF SetToken
<1>5. CASE UNCHANGED powerVars
  BY <1>5 DEF powerVars
<1>6. CASE \/ EventDue \/ Update \/ Exit \/ StartSleep
           \/ \E key \in Keys : Press(key)
  <2>1. UNCHANGED <<env, born, told>>
    BY <1>6 DEF EventDue, Update, Exit, StartSleep, Press, history, hostVars
  <2>2. phase' = phase \/ (Awake /\ (Awake' \/ phase' = "gone"))
    BY <1>6 DEF EventDue, Update, Exit, StartSleep, Press
  <2>3. QED BY <2>1, <2>2
<1>7. CASE SleepScriptQuit \/ SleepScriptOn \/ SleepKeysQuit \/ SleepKeysOn
  <2>1. UNCHANGED <<env, born, told>> /\ Awake /\ Awake'
    BY <1>7 DEF SleepScriptQuit, SleepScriptOn, SleepKeysQuit, SleepKeysOn,
                history
  <2>2. QED BY <2>1
<1>8. QED
  BY <1>1, <1>2, <1>3, <1>4, <1>5, <1>6, <1>7 DEF PowerNext

(* A woken process is told so, and no other is: not the first one, not one *)
(* that a woken process made by a reboot (consumeWakeReason, reboot).      *)
THEOREM WakeReasonTrue == PowerSpec => []WakeReasonIsTrue
<1>1. PowerInit => WakeInv
  BY DEF PowerInit, WakeInv, WakeReasonIsTrue, Awake, Schedules
<1>2. WakeInv /\ [PowerNext]_powerVars => WakeInv'
  BY WakeStep
<1>3. WakeInv => WakeReasonIsTrue
  BY DEF WakeInv
<1>4. QED BY <1>1, <1>2, <1>3, PTL DEF PowerSpec

-----------------------------------------------------------------------------

(* A token in the environment of a new process was left by its predecessor *)
(* on a reboot; one in a running process was set by this process.          *)
TokenInv ==
  /\ DOMAIN env = Schedules \cup {"wake", "token"}
  /\ process \in Nat /\ token.setBy \in Nat
  /\ token = [restored |-> token.restored, setBy |-> token.setBy]
  /\ token.setBy <= process
  /\ phase \in {"setup", "awake", "script", "keys", "gone"}
  /\ phase = "setup" /\ env["token"] # Unset =>
       born = "reboot" /\ process > 1 /\ token.setBy >= process - 1
  /\ Awake /\ env["token"] # Unset => token.setBy >= process
  /\ process >= 1
  /\ TokenForSuccessor

LEMMA TokenStep == TokenInv /\ [PowerNext]_powerVars => TokenInv'
<1> SUFFICES ASSUME TokenInv, [PowerNext]_powerVars PROVE TokenInv'
  OBVIOUS
<1> USE DEF TokenInv, TokenForSuccessor, Awake, Schedules
<1>1. CASE Setup
  BY <1>1 DEF Setup, Consume
<1>2. CASE Reboot
  <2>1. Exec(RebootEnv(env), "reboot") /\ phase = "awake"
    BY <1>2 DEF Reboot
  <2>2. env' = RebootEnv(env) /\ RebootEnv(env)["token"] = env["token"]
        /\ DOMAIN RebootEnv(env) = DOMAIN env
    BY <2>1 DEF Exec, RebootEnv, Promote
  <2>3. QED BY <2>1, <2>2 DEF Exec
<1>3. CASE SleepScriptWake \/ SleepKeysWake
  <2>1. Exec(WakeEnv(env), "wake") /\ Awake
    BY <1>3 DEF SleepScriptWake, SleepKeysWake
  <2>2. env' = WakeEnv(env) /\ WakeEnv(env)["token"] = Unset
        /\ DOMAIN WakeEnv(env) = DOMAIN env
    BY <2>1 DEF Exec, WakeEnv, Promote
  <2>3. QED BY <2>1, <2>2 DEF Exec
<1>4. ASSUME NEW t \in Tokens, SetToken(t) PROVE TokenInv'
  BY <1>4 DEF SetToken
<1>5. CASE UNCHANGED powerVars
  BY <1>5 DEF powerVars
<1>6. CASE \/ EventDue \/ Update \/ Exit \/ StartSleep
           \/ \E key \in Keys : Press(key)
  <2>1. UNCHANGED <<env, born, process, token>>
    BY <1>6 DEF EventDue, Update, Exit, StartSleep, Press, history, hostVars
  <2>2. phase' = phase \/ (Awake /\ (Awake' \/ phase' = "gone"))
    BY <1>6 DEF EventDue, Update, Exit, StartSleep, Press
  <2>3. QED BY <2>1, <2>2
<1>7. CASE SleepScriptQuit \/ SleepScriptOn \/ SleepKeysQuit \/ SleepKeysOn
  <2>1. UNCHANGED <<env, born, process, token>> /\ Awake /\ Awake'
    BY <1>7 DEF SleepScriptQuit, SleepScriptOn, SleepKeysQuit, SleepKeysOn,
                history
  <2>2. QED BY <2>1
<1>8. QED
  BY <1>1, <1>2, <1>3, <1>4, <1>5, <1>6, <1>7 DEF PowerNext

(* A silent reboot token is read by the successor that the setter's reboot *)
(* made and by no other process (setSilentRebootToken, rebootAsPowerWake). *)
THEOREM TokenReachesSuccessor == PowerSpec => []TokenForSuccessor
<1>1. PowerInit => TokenInv
  BY DEF PowerInit, TokenInv, TokenForSuccessor, Awake, Schedules
<1>2. TokenInv /\ [PowerNext]_powerVars => TokenInv'
  BY TokenStep
<1>3. TokenInv => TokenForSuccessor
  BY DEF TokenInv
<1>4. QED BY <1>1, <1>2, <1>3, PTL DEF PowerSpec

(* In chains of relaunches of any length, wake reasons and silent reboot   *)
(* tokens reach the process they are meant for, and no other.              *)
THEOREM HandOverTrue == PowerSpec => []HandOverIsTrue
<1>1. WakeReasonIsTrue /\ TokenForSuccessor <=> HandOverIsTrue
  BY DEF HandOverIsTrue
<1>2. QED BY <1>1, WakeReasonTrue, TokenReachesSuccessor, PTL

-----------------------------------------------------------------------------

(* Schedules that wait for a later process were not read yet, nor was this *)
(* process's own before its first poll; no two variables share one.        *)
PlayInv ==
  /\ plays \in [Scripts -> Nat]
  /\ DOMAIN env = Schedules \cup {"wake", "token"}
  /\ \A n \in Schedules : env[n] \in Scripts \cup {Unset}
  /\ \A a, b \in Schedules : a # b => env[a] # env[b] \/ env[a] = Unset
  /\ \A n \in Schedules : env[n] # Unset /\ (n = "script" => ~read) =>
       plays[env[n]] = 0
  /\ PlayedOnce

(* What a promotion does to the schedules: the one that is promoted is the *)
(* only one whose variable changes, and its old variable is unset.         *)
LEMMA PromoteKeepsPlayInv ==
  ASSUME PlayInv, NEW after \in Schedules \ {"script"},
         NEW e, DOMAIN e = DOMAIN env,
         \A n \in Schedules : e[n] = Promote(env, "script", after)[n],
         env' = e, plays' = plays, read' = FALSE
  PROVE  PlayInv'
<1>1. \A n \in Schedules :
        e[n] = IF n = "script" THEN env[after]
               ELSE IF n = after THEN Unset ELSE env[n]
  BY DEF PlayInv, Promote, Schedules
<1>2. \A n \in Schedules : e[n] # Unset => plays[e[n]] = 0
  BY <1>1 DEF PlayInv, Schedules
<1>3. \A a, b \in Schedules : a # b => e[a] # e[b] \/ e[a] = Unset
  BY <1>1 DEF PlayInv, Schedules
<1>4. QED BY <1>1, <1>2, <1>3 DEF PlayInv, PlayedOnce

(* Reading the script at the first poll plays it for the first time.       *)
LEMMA ReadKeepsPlayInv ==
  ASSUME PlayInv, ReadScript, env' = env
  PROVE  PlayInv'
<1> USE DEF PlayInv, PlayedOnce, ReadScript
<1>1. CASE read
  <2>1. plays' = plays
    BY <1>1
  <2>2. QED BY <1>1, <2>1
<1>2. CASE ~read
  <2>1. \A n \in Schedules \ {"script"} :
          env[n] # Unset => plays'[env[n]] = 0
    BY <1>2 DEF Schedules
  <2>2. plays' \in [Scripts -> Nat] /\ \A s \in Scripts : plays'[s] <= 1
    BY <1>2 DEF Schedules
  <2>3. QED BY <1>2, <2>1, <2>2
<1>3. QED BY <1>1, <1>2

LEMMA PlayStep == PlayInv /\ [PowerNext]_powerVars => PlayInv'
<1> SUFFICES ASSUME PlayInv, [PowerNext]_powerVars PROVE PlayInv'
  OBVIOUS
<1>1. CASE Setup
  BY <1>1 DEF Setup, Consume, PlayInv, PlayedOnce, Schedules, hostVars
<1>2. CASE Reboot
  <2>1. Exec(RebootEnv(env), "reboot")
    BY <1>2 DEF Reboot
  <2>2. DOMAIN RebootEnv(env) = DOMAIN env
    BY DEF RebootEnv, Promote
  <2>3. QED
    BY <2>1, <2>2, PromoteKeepsPlayInv DEF Exec, RebootEnv, Schedules
<1>3. CASE SleepScriptWake \/ SleepKeysWake
  <2>1. Exec(WakeEnv(env), "wake")
    BY <1>3 DEF SleepScriptWake, SleepKeysWake
  <2>2. /\ DOMAIN WakeEnv(env) = DOMAIN env
        /\ \A n \in Schedules :
             WakeEnv(env)[n] = Promote(env, "script", "scriptAfterWake")[n]
    BY DEF WakeEnv, Promote, Schedules, PlayInv
  <2>3. QED
    BY <2>1, <2>2, PromoteKeepsPlayInv DEF Exec, Schedules
<1>4. ASSUME NEW t \in Tokens, SetToken(t) PROVE PlayInv'
  BY <1>4 DEF SetToken, PlayInv, PlayedOnce, Schedules, hostVars
<1>5. CASE UNCHANGED powerVars
  BY <1>5 DEF powerVars, PlayInv, PlayedOnce
<1>6. CASE EventDue \/ Exit \/ StartSleep \/ SleepKeysQuit \/ SleepKeysOn
           \/ (\E key \in Keys : Press(key))
  <2>1. UNCHANGED <<env, read, plays>>
    BY <1>6 DEF EventDue, Exit, StartSleep, SleepKeysQuit, SleepKeysOn, Press,
                history, hostVars
  <2>2. QED BY <2>1 DEF PlayInv, PlayedOnce
<1>7. CASE Update \/ SleepScriptQuit \/ SleepScriptOn
  BY <1>7, ReadKeepsPlayInv
     DEF Update, SleepScriptQuit, SleepScriptOn, ProcessSynthetic
<1>8. QED
  BY <1>1, <1>2, <1>3, <1>4, <1>5, <1>6, <1>7 DEF PowerNext

(* No chain of wakes and reboots replays a schedule, when the user gave a  *)
(* different one in each variable (promoteAfterWakeValue).                 *)
THEOREM NeverReplayed == PowerSpec => []PlayedOnce
<1>1. PowerInit => PlayInv
  BY DEF PowerInit, PlayInv, PlayedOnce, Schedules
<1>2. PlayInv /\ [PowerNext]_powerVars => PlayInv'
  BY PlayStep
<1>3. PlayInv => PlayedOnce
  BY DEF PlayInv
<1>4. QED BY <1>1, <1>2, <1>3, PTL DEF PowerSpec

-----------------------------------------------------------------------------
(* Types. A schedule in use never changes under the events that are due.   *)

EnvOK ==
  /\ DOMAIN env = Schedules \cup {"wake", "token"}
  /\ \A n \in Schedules : env[n] \in Scripts \cup {Unset}
  /\ env["wake"] \in {Unset, "power"} /\ env["token"] \in Tokens \cup {Unset}

ScheduleOK ==
  /\ script \in Scripts \cup {Unset} /\ read \in BOOLEAN
  /\ due \in 0 .. Len(Plan) /\ handled \in 0 .. due

InputOK ==
  /\ down \subseteq WakeButtons /\ keys \in Seq(Keys) /\ quit \in BOOLEAN

ProcessOK ==
  /\ phase \in {"setup", "awake", "script", "keys", "gone"}
  /\ born \in {"start", "reboot", "wake"} /\ process \in 1 .. MaxProcesses
  /\ told \in {Unset, "power"}
  /\ token \in [restored : Tokens \cup {Unset}, setBy : 0 .. MaxProcesses]

TypeInv == EnvOK /\ ScheduleOK /\ InputOK /\ ProcessOK

LEMMA PlanType == EnvOK /\ ScheduleOK => Plan \in Seq(Actions)
BY DEF EnvOK, ScheduleOK, Plan, Schedules

LEMMA EnvStep == TypeInv /\ [PowerNext]_powerVars => EnvOK'
<1> SUFFICES ASSUME TypeInv, [PowerNext]_powerVars PROVE EnvOK'
  OBVIOUS
<1> USE DEF TypeInv, EnvOK, Schedules
<1>1. CASE Setup
  BY <1>1 DEF Setup, Consume
<1>2. CASE Reboot
  BY <1>2 DEF Reboot, Exec, RebootEnv, Promote
<1>3. CASE SleepScriptWake \/ SleepKeysWake
  BY <1>3 DEF SleepScriptWake, SleepKeysWake, Exec, WakeEnv, Promote
<1>4. ASSUME NEW t \in Tokens, SetToken(t) PROVE EnvOK'
  BY <1>4 DEF SetToken
<1>5. CASE UNCHANGED env
  BY <1>5
<1>6. QED
  BY <1>1, <1>2, <1>3, <1>4, <1>5
     DEF PowerNext, powerVars, EventDue, Update, Exit, StartSleep, Press,
          SleepScriptQuit,
         SleepScriptOn, SleepKeysQuit, SleepKeysOn

(* The plan stays the same when the schedule is read.                      *)
LEMMA ScheduleStep == TypeInv /\ [PowerNext]_powerVars => ScheduleOK'
<1> SUFFICES ASSUME TypeInv, [PowerNext]_powerVars PROVE ScheduleOK'
  OBVIOUS
<1>0. EnvOK' /\ EnvOK /\ ScheduleOK /\ Len(Plan) \in Nat
  BY EnvStep, PlanType DEF TypeInv
<1> DEFINE Again == /\ script' = Unset /\ read' = FALSE
                    /\ due' = 0 /\ handled' = 0
<1>1. ASSUME Again PROVE ScheduleOK'
  <2>1. Plan' \in Seq(Actions)
    BY <1>0, <1>1 DEF EnvOK, Plan, Schedules
  <2>2. Len(Plan') \in Nat
    BY <2>1
  <2>3. due' \in 0 .. Len(Plan') /\ handled' \in 0 .. due'
    BY <1>1, <2>2
  <2>4. script' \in Scripts \cup {Unset} /\ read' \in BOOLEAN
    BY <1>1
  <2>5. QED BY <2>3, <2>4 DEF ScheduleOK
<1>2. ASSUME ReadScript, env' = env, due' = due, handled' = due
      PROVE  ScheduleOK'
  <2>1. Plan' = Plan
    BY <1>2 DEF ReadScript, Plan
  <2>2. script' \in Scripts \cup {Unset} /\ read' \in BOOLEAN
    BY <1>0, <1>2 DEF ReadScript, ScheduleOK, EnvOK, Schedules
  <2>3. QED BY <1>0, <1>2, <2>1, <2>2 DEF ScheduleOK
<1>3. CASE EventDue
  <2>1. Plan' = Plan
    BY <1>3 DEF EventDue, Plan
  <2>2. QED BY <1>0, <1>3, <2>1 DEF EventDue, ScheduleOK
<1>4. ASSUME UNCHANGED <<script, read, due, handled>>,
             env'["script"] = env["script"]
      PROVE  ScheduleOK'
  <2>1. Plan' = Plan
    BY <1>4 DEF Plan
  <2>2. QED BY <1>0, <1>4, <2>1 DEF ScheduleOK
<1>5. CASE Setup \/ (\E t \in Tokens : SetToken(t))
  <2>1. UNCHANGED <<script, read, due, handled>>
    BY <1>5 DEF Setup, SetToken, hostVars
  <2>2. env'["script"] = env["script"]
    BY <1>0, <1>5 DEF Setup, SetToken, Consume, EnvOK, Schedules
  <2>3. QED BY <1>4, <2>1, <2>2
<1>6. CASE Reboot \/ SleepScriptWake \/ SleepKeysWake
  <2>1. Again
    BY <1>6 DEF Reboot, SleepScriptWake, SleepKeysWake, Exec
  <2>2. QED BY <1>1, <2>1
<1>7. CASE Update \/ SleepScriptQuit \/ SleepScriptOn
  BY <1>2, <1>7
     DEF Update, SleepScriptQuit, SleepScriptOn, ProcessSynthetic
<1>8. CASE \/ Exit \/ StartSleep \/ SleepKeysQuit \/ SleepKeysOn
           \/ (\E key \in Keys : Press(key)) \/ UNCHANGED powerVars
  <2>1. UNCHANGED <<env, script, read, due, handled>>
    BY <1>8 DEF Exit, StartSleep, SleepKeysQuit, SleepKeysOn, Press, powerVars,
                hostVars
  <2>2. QED BY <1>4, <2>1
<1>9. QED BY <1>3, <1>5, <1>6, <1>7, <1>8 DEF PowerNext

LEMMA InputStep == TypeInv /\ [PowerNext]_powerVars => InputOK'
<1> SUFFICES ASSUME TypeInv, [PowerNext]_powerVars PROVE InputOK'
  OBVIOUS
<1>0. down \subseteq WakeButtons /\ keys \in Seq(Keys) /\ quit \in BOOLEAN
  BY DEF TypeInv, InputOK
<1>1. \A d, p, i, j : DownAfter(d, p, i, j) \subseteq WakeButtons
  BY DEF DownAfter
<1>2. ASSUME NEW key \in Keys, Press(key) PROVE InputOK'
  BY <1>0, <1>2 DEF Press, InputOK
<1>3. CASE Reboot \/ SleepScriptWake \/ SleepKeysWake
  <2>1. down' = {} /\ keys' = <<>> /\ quit' = FALSE
    BY <1>3 DEF Reboot, SleepScriptWake, SleepKeysWake, Exec
  <2>2. keys' \in Seq(Keys)
    BY <2>1
  <2>3. QED BY <2>1, <2>2 DEF InputOK
<1>4. CASE Update
  <2>1. down' \subseteq WakeButtons /\ keys' = <<>>
    BY <1>1, <1>4 DEF Update
  <2>2. quit' \in BOOLEAN
    <3>1. quit' = (quit \/ InQueue("quit") \/ QuitDue)
      BY <1>4 DEF Update
    <3>2. QED BY <3>1, Zenon
  <2>3. QED BY <2>1, <2>2 DEF InputOK
<1>5. CASE SleepScriptQuit \/ SleepScriptOn
  BY <1>0, <1>1, <1>5
     DEF SleepScriptQuit, SleepScriptOn, ProcessSynthetic, InputOK
<1>6. CASE SleepKeysQuit \/ SleepKeysOn
  <2>1. FirstStir # 0 => FirstStir \in DOMAIN keys
    BY DEF FirstStir
  <2>2. keys' \in Seq(Keys)
    <3>1. CASE SleepKeysOn
      BY <3>1 DEF SleepKeysOn
    <3>2. CASE SleepKeysQuit
      <4>1. FirstStir \in 1 .. Len(keys)
        BY <1>0, <2>1, <3>2 DEF SleepKeysQuit
      <4>2. keys' = SubSeq(keys, FirstStir + 1, Len(keys))
        BY <3>2 DEF SleepKeysQuit
      <4>3. QED BY <1>0, <4>1, <4>2
    <3>3. QED BY <1>6, <3>1, <3>2
  <2>3. QED
    BY <1>0, <1>6, <2>2 DEF SleepKeysQuit, SleepKeysOn, InputOK
<1>7. CASE StartSleep
  BY <1>0, <1>7 DEF StartSleep, InputOK
<1>8. CASE \/ Setup \/ EventDue \/ Exit \/ UNCHANGED powerVars
           \/ (\E t \in Tokens : SetToken(t))
  BY <1>0, <1>8
  DEF Setup, EventDue, Exit, SetToken, powerVars, hostVars, InputOK
<1>9. QED
  BY <1>2, <1>3, <1>4, <1>5, <1>6, <1>7, <1>8 DEF PowerNext

LEMMA ProcessStep == TypeInv /\ [PowerNext]_powerVars => ProcessOK'
<1> SUFFICES ASSUME TypeInv, [PowerNext]_powerVars PROVE ProcessOK'
  OBVIOUS
<1> USE DEF TypeInv, ProcessOK
<1>1. CASE Setup
  BY <1>1 DEF Setup, EnvOK
<1>2. CASE Reboot \/ SleepScriptWake \/ SleepKeysWake
  <2>1. \E e : Exec(e, "reboot") \/ Exec(e, "wake")
    BY <1>2 DEF Reboot, SleepScriptWake, SleepKeysWake
  <2>2. QED BY <2>1 DEF Exec
<1>3. ASSUME NEW t \in Tokens, SetToken(t) PROVE ProcessOK'
  BY <1>3 DEF SetToken
<1>4. CASE \/ EventDue \/ Update \/ Exit \/ StartSleep \/ SleepScriptQuit
           \/ SleepScriptOn \/ SleepKeysQuit \/ SleepKeysOn
           \/ (\E key \in Keys : Press(key)) \/ UNCHANGED powerVars
  BY <1>4 DEF EventDue, Update, Exit, StartSleep, SleepScriptQuit,
              SleepScriptOn, SleepKeysQuit, SleepKeysOn, Press, powerVars,
              history
<1>5. QED BY <1>1, <1>2, <1>3, <1>4 DEF PowerNext

(* No more events of a schedule are handled than are due, none is due that *)
(* the schedule in use does not have, and what a process hands on in its   *)
(* environment is what the next one expects there.                         *)
THEOREM PowerTypeCorrect == PowerSpec => []PowerTypeOK
<1>1. PowerInit => TypeInv
  <2> SUFFICES ASSUME PowerInit PROVE TypeInv
    OBVIOUS
  <2>1. EnvOK
    BY DEF PowerInit, EnvOK, Schedules
  <2>2. Plan \in Seq(Actions)
    BY <2>1 DEF PowerInit, Plan, EnvOK, Schedules
  <2>3. ScheduleOK
    <3>1. due = 0 /\ handled = 0 /\ script = Unset /\ read = FALSE
      BY DEF PowerInit
    <3>2. Len(Plan) \in Nat
      BY <2>2
    <3>3. due \in 0 .. Len(Plan) /\ handled \in 0 .. due
      BY <3>1, <3>2
    <3>4. QED BY <3>1, <3>3 DEF ScheduleOK
  <2>4. InputOK
    <3>1. down = {} /\ keys = <<>> /\ quit = FALSE
      BY DEF PowerInit
    <3>2. keys \in Seq(Keys)
      BY <3>1
    <3>3. QED BY <3>1, <3>2 DEF InputOK
  <2>6. ProcessOK
    BY DEF PowerInit, ProcessOK
  <2>7. QED BY <2>1, <2>3, <2>4, <2>6 DEF TypeInv
<1>2. TypeInv /\ [PowerNext]_powerVars => TypeInv'
  BY EnvStep, ScheduleStep, InputStep, ProcessStep DEF TypeInv
<1>3. TypeInv => PowerTypeOK
  BY DEF TypeInv, EnvOK, ScheduleOK, InputOK, ProcessOK, PowerTypeOK
<1>4. QED BY <1>1, <1>2, <1>3, PTL DEF PowerSpec
=============================================================================
