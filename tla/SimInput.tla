------------------------------ MODULE SimInput ------------------------------
(***************************************************************************)
(* Buttons, touch panel and Home key (HalGPIO.cpp).                        *)
(*                                                                         *)
(* The main thread clears the edges once per frame, the firmware then      *)
(* calls update() any number of times and asks what happened. An update    *)
(* handles queued SDL events and scripted events one after the other and   *)
(* looks at the Home key at its end. The host may be slow at any point:    *)
(* time passes between any two steps.                                      *)
(*                                                                         *)
(* Times are in units of 100 ms and stop at MaxAge, above every threshold. *)
(* A point of the panel is its distance in pixels along one axis; the code *)
(* treats the other axis alike.                                            *)
(*                                                                         *)
(* Buttons, panel and Home key share no variable but the reset; Uses says  *)
(* which of them a board has and its user touches in one behaviour.        *)
(***************************************************************************)
EXTENDS Integers, FiniteSets

CONSTANTS
  Buttons,   (* the buttons                                                 *)
  Uses,      (* a set of sets of "buttons", "touch", "home"                 *)
  Positions, (* points of the panel                                         *)
  MaxAge     (* bound: no time is longer                                    *)

ASSUME SimInputAssumption ==
  /\ Uses \subseteq SUBSET {"buttons", "touch", "home"}
  /\ Positions \subseteq Int
  /\ MaxAge \in Nat \ {0}

TOUCH_TAP_SLOP_PX == 28
TOUCH_SWIPE_MIN_PX == 60
TOUCH_SWIPE_MAX == 7
TOUCH_LONG_PRESS == 5
HOME_KEY_LONG_PRESS == 7

Distance(a, b) == IF a < b THEN b - a ELSE a - b
Older(age) == IF age < MaxAge THEN age + 1 ELSE age

VARIABLES
  uses,      (* which devices this behaviour is about                       *)
  updating,  (* the main thread is inside update()                          *)
  pressed,   (* pressedThisFrame                                            *)
  released,  (* releasedThisFrame                                           *)
  keyboard,  (* SDL_GetKeyboardState                                        *)
  synthetic, (* syntheticButtonDown                                         *)
  since,     (* time since buttonPressTime, Never when that is 0            *)
  touch,     (* TouchState                                                  *)
  home,      (* the homeKey* variables                                      *)
  downFor,   (* history: how long each button has been down                 *)
  contact,   (* history: what this contact did and what was said of it      *)
  homeTold   (* history: gestures reported for this press of the Home key   *)

buttonVars == <<uses, pressed, released, keyboard, synthetic, since, downFor>>
touchVars == <<touch, contact>>
homeVars == <<home, homeTold>>
vars == <<uses, updating, pressed, released, keyboard, synthetic, since,
          downFor, touch, contact, home, homeTold>>

Never == -1

(* TouchState's initial values                                             *)
NoTouch ==
  [down |-> FALSE, pressed |-> FALSE, released |-> FALSE, moved |-> FALSE,
   longFired |-> FALSE, suppressed |-> FALSE, activity |-> FALSE,
   start |-> 0, current |-> 0, age |-> 0, lastHeld |-> 0]

NoHome ==
  [down |-> FALSE, pressed |-> FALSE, tapped |-> FALSE, long |-> FALSE,
   longFired |-> FALSE, age |-> 0]

(* History of a contact: how far it went, how long it has lasted, how often*)
(* it was a long press, whether it was suppressed, and whether one of its  *)
(* long presses came before the contact had earned it.                     *)
NewContact ==
  [reach |-> 0, held |-> 0, longs |-> 0, hushed |-> FALSE, hasty |-> FALSE]

Init ==
  /\ uses \in Uses
  /\ updating = FALSE
  /\ pressed = {} /\ released = {} /\ keyboard = {} /\ synthetic = {}
  /\ since = [b \in Buttons |-> Never]
  /\ touch = NoTouch /\ home = NoHome
  /\ downFor = [b \in Buttons |-> 0]
  /\ contact = NewContact
  /\ homeTold = 0

-----------------------------------------------------------------------------
(* Frames and time.                                                        *)

BeginFrame ==
  /\ ~updating
  /\ pressed' = {} /\ released' = {}
  /\ touch' = [touch EXCEPT !.pressed = FALSE, !.released = FALSE,
                            !.activity = FALSE]
  /\ home' = [home EXCEPT !.pressed = FALSE, !.tapped = FALSE,
                          !.long = FALSE]
  /\ UNCHANGED <<uses, updating, keyboard, synthetic, since, downFor, contact,
                 homeTold>>

(* Seeded fault: update() clears the edges first.                          *)
StartUpdateClears ==
  /\ ~updating
  /\ updating' = TRUE
  /\ pressed' = {} /\ released' = {}
  /\ UNCHANGED <<uses, keyboard, synthetic, since, downFor, touchVars,
                 homeVars>>

StartUpdate ==
  /\ ~updating
  /\ updating' = TRUE
  /\ UNCHANGED <<buttonVars, touchVars, homeVars>>

Down == keyboard \cup synthetic

(* SDL_GetTicks goes on.                                                   *)
Tick ==
  /\ since' = [b \in Buttons |->
                 IF since[b] = Never THEN Never ELSE Older(since[b])]
  /\ downFor' = [b \in Buttons |->
                   IF b \in Down THEN Older(downFor[b]) ELSE 0]
  /\ touch' = [touch EXCEPT !.age = IF touch.down THEN Older(@) ELSE 0]
  /\ contact' = [contact EXCEPT !.held = IF touch.down THEN Older(@) ELSE @]
  /\ home' = [home EXCEPT !.age = IF home.down THEN Older(@) ELSE 0]
  /\ UNCHANGED <<uses, updating, pressed, released, keyboard, synthetic,
                 homeTold>>

(* updateHomeKeyHold, the end of update()                                  *)
FinishUpdate ==
  /\ updating
  /\ updating' = FALSE
  /\ IF home.down /\ ~home.longFired /\ home.age >= HOME_KEY_LONG_PRESS
     THEN /\ home' = [home EXCEPT !.longFired = TRUE, !.long = TRUE]
          /\ homeTold' = homeTold + 1
     ELSE UNCHANGED homeVars
  /\ UNCHANGED <<buttonVars, touchVars>>

-----------------------------------------------------------------------------
(* Buttons.                                                                *)

(* A button that goes up has been down for no time at all.                 *)
Longest(d) == [b \in Buttons |-> IF b \in d THEN downFor[b] ELSE 0]

(* SDL_KEYDOWN of a button                                                 *)
KeyDown(b) ==
  /\ "buttons" \in uses
  /\ updating
  /\ b \notin keyboard
  /\ pressed' = pressed \cup {b}
  /\ keyboard' = keyboard \cup {b}
  /\ since' = [since EXCEPT ![b] = 0]
  /\ UNCHANGED <<uses, updating, released, synthetic, downFor, touchVars,
                 homeVars>>

(* SDL_KEYUP of a button                                                   *)
KeyUp(b) ==
  /\ updating
  /\ b \in keyboard
  /\ released' = released \cup {b}
  /\ keyboard' = keyboard \ {b}
  /\ downFor' = Longest(keyboard' \cup synthetic)
  /\ UNCHANGED <<uses, updating, pressed, synthetic, since, touchVars,
                 homeVars>>

(* Seeded fault: a scripted press keeps the time of the last press.        *)
SyntheticDownStale(b) ==
  /\ "buttons" \in uses
  /\ updating
  /\ pressed' = pressed \cup {b}
  /\ synthetic' = synthetic \cup {b}
  /\ UNCHANGED <<uses, updating, released, keyboard, since, downFor, touchVars,
                 homeVars>>

(* SyntheticAction::KeyDown; requestSimulatorSleep does it to the power    *)
(* button.                                                                 *)
SyntheticDown(b) ==
  /\ "buttons" \in uses
  /\ updating
  /\ pressed' = pressed \cup {b}
  /\ synthetic' = synthetic \cup {b}
  /\ since' = [since EXCEPT ![b] = 0]
  /\ UNCHANGED <<uses, updating, released, keyboard, downFor, touchVars,
                 homeVars>>

(* SyntheticAction::KeyUp                                                  *)
SyntheticUp(b) ==
  /\ "buttons" \in uses
  /\ updating
  /\ released' = released \cup {b}
  /\ synthetic' = synthetic \ {b}
  /\ downFor' = Longest(keyboard \cup synthetic')
  /\ UNCHANGED <<uses, updating, pressed, keyboard, since, touchVars,
                 homeVars>>

(* getPowerButtonHeldTime; getHeldTime is the longest over the buttons.    *)
HeldTime(b) == IF b \in Down /\ since[b] # Never THEN since[b] ELSE 0

(* clearButtonState at the start of a deep sleep that is quit              *)
ClearButtonState ==
  /\ ~updating
  /\ pressed' = {} /\ released' = {} /\ synthetic' = {}
  /\ since' = [b \in Buttons |-> Never]
  /\ downFor' = Longest(keyboard)
  /\ touch' = NoTouch /\ home' = NoHome
  /\ contact' = NewContact
  /\ homeTold' = 0
  /\ UNCHANGED <<uses, updating, keyboard>>

-----------------------------------------------------------------------------
(* Touch.                                                                  *)

(* beginTouchAtPanel, by mouse button or script; a contact that is down    *)
(* starts anew.                                                            *)
BeginTouch(p) ==
  /\ updating
  /\ "touch" \in uses
  /\ touch' = [touch EXCEPT
       !.down = TRUE, !.pressed = TRUE, !.activity = TRUE, !.moved = FALSE,
       !.longFired = FALSE, !.suppressed = FALSE, !.start = p, !.current = p,
       !.age = 0]
  /\ contact' = NewContact
  /\ UNCHANGED <<updating, buttonVars, homeVars>>

(* updateTouchMovement                                                     *)
Moved(t, p) ==
  [t EXCEPT !.current = p,
            !.moved = @ \/ Distance(t.start, p) > TOUCH_TAP_SLOP_PX]

Reached(p) ==
  LET d == Distance(touch.start, p)
  IN  contact' = [contact EXCEPT !.reach = IF d > @ THEN d ELSE @]

(* moveTouchAtPanel                                                        *)
MoveTouch(p) ==
  /\ updating
  /\ touch.down
  /\ touch' = Moved(touch, p)
  /\ Reached(p)
  /\ UNCHANGED <<updating, buttonVars, homeVars>>

(* Seeded fault: the point of release is not looked at.                    *)
EndTouchUnmoved(p) ==
  /\ updating
  /\ touch.down
  /\ touch' = [touch EXCEPT !.current = p, !.down = FALSE, !.released = TRUE,
                            !.activity = TRUE, !.lastHeld = touch.age]
  /\ Reached(p)
  /\ UNCHANGED <<updating, buttonVars, homeVars>>

(* endTouchAtPanel                                                         *)
EndTouch(p) ==
  /\ updating
  /\ touch.down
  /\ touch' = [Moved(touch, p) EXCEPT
       !.down = FALSE, !.released = TRUE, !.activity = TRUE,
       !.lastHeld = touch.age]
  /\ Reached(p)
  /\ UNCHANGED <<updating, buttonVars, homeVars>>

WasTouchTap == touch.released /\ ~touch.moved /\ ~touch.suppressed
WasTouchReleased == touch.released /\ ~touch.suppressed
IsTouchTapCandidate == touch.down /\ ~touch.moved /\ ~touch.suppressed
IsTouchHeld == touch.down /\ ~touch.suppressed

WasSwipe ==
  /\ touch.released
  /\ touch.lastHeld <= TOUCH_SWIPE_MAX
  /\ Distance(touch.start, touch.current) >= TOUCH_SWIPE_MIN_PX

(* A contact that is not suppressed, has stayed put and has lasted is a    *)
(* long press.                                                             *)
LongPressDue ==
  /\ ~contact.hushed
  /\ contact.reach <= TOUCH_TAP_SLOP_PX
  /\ contact.held >= TOUCH_LONG_PRESS

(* wasTouchLongPress answers true. The contact goes on: its end may still  *)
(* be a tap or, if it moves on before 700 ms, a swipe.                     *)
WasTouchLongPress ==
  /\ ~updating
  /\ ~touch.longFired /\ IsTouchTapCandidate /\ touch.age >= TOUCH_LONG_PRESS
  /\ touch' = [touch EXCEPT !.longFired = TRUE]
  /\ contact' = [contact EXCEPT !.longs = @ + 1, !.hasty = @ \/ ~LongPressDue]
  /\ UNCHANGED <<updating, buttonVars, homeVars>>

(* suppressTouchContact                                                    *)
SuppressTouchContact ==
  /\ ~updating
  /\ touch.down
  /\ touch' = [touch EXCEPT !.suppressed = TRUE]
  /\ contact' = [contact EXCEPT !.hushed = TRUE]
  /\ UNCHANGED <<updating, buttonVars, homeVars>>

-----------------------------------------------------------------------------
(* The Home key.                                                           *)

BeginHomeKey ==
  /\ updating
  /\ "home" \in uses /\ ~home.down
  /\ home' = [home EXCEPT !.down = TRUE, !.pressed = TRUE,
                          !.longFired = FALSE, !.age = 0]
  /\ homeTold' = 0
  /\ UNCHANGED <<updating, buttonVars, touchVars>>

EndHomeKey ==
  /\ updating
  /\ home.down
  /\ IF ~home.longFired /\ home.age < HOME_KEY_LONG_PRESS
     THEN /\ home' = [home EXCEPT !.down = FALSE, !.tapped = TRUE]
          /\ homeTold' = homeTold + 1
     ELSE /\ home' = [home EXCEPT !.down = FALSE]
          /\ UNCHANGED homeTold
  /\ UNCHANGED <<updating, buttonVars, touchVars>>

-----------------------------------------------------------------------------

Next ==
  \/ BeginFrame \/ StartUpdate \/ FinishUpdate \/ Tick \/ ClearButtonState
  \/ \E b \in Buttons :
       KeyDown(b) \/ KeyUp(b) \/ SyntheticDown(b) \/ SyntheticUp(b)
  \/ \E p \in Positions : BeginTouch(p) \/ MoveTouch(p) \/ EndTouch(p)
  \/ WasTouchLongPress \/ SuppressTouchContact
  \/ BeginHomeKey \/ EndHomeKey

Spec == Init /\ [][Next]_vars

-----------------------------------------------------------------------------
(* Properties.                                                             *)

Ages == 0 .. MaxAge

Edges ==
  {<<"pressed", b>> : b \in pressed} \cup {<<"released", b>> : b \in released}
  \cup {<<"touch", e>> : e \in {f \in {"pressed", "released", "activity"} :
                                  touch[f]}}
  \cup {<<"home", e>> : e \in {f \in {"pressed", "tapped", "long"} : home[f]}}

(* An edge, once reported, is reported for the rest of the frame, however  *)
(* often the firmware calls update() (comment at HalGPIO.cpp:511-519).     *)
EdgesLatched ==
  [][Edges \subseteq Edges' \/ BeginFrame \/ ClearButtonState]_vars

(* A button is never said to be held for longer than it was down, by key   *)
(* and script together; a stale press time would be a long press at once.  *)
HeldNotLonger == \A b \in Buttons : HeldTime(b) <= downFor[b]

(* One release is never both a tap and a swipe.                            *)
TapXorSwipe == ~(WasTouchTap /\ WasSwipe)

(* A contact that was away from where it began is no tap, even if it came  *)
(* back; unless a new contact began in the same frame.                     *)
TapStayedPut ==
  WasTouchTap /\ ~touch.down => contact.reach <= TOUCH_TAP_SLOP_PX

(* A suppressed contact is silent until its end and after, except for      *)
(* wasSwipe, which does not ask.                                           *)
SuppressedIsSilent == contact.hushed =>
  ~WasTouchTap /\ ~WasTouchReleased /\ ~IsTouchTapCandidate /\ ~IsTouchHeld

(* A contact is at most one long press, however often the firmware asks.   *)
LongPressOnce == contact.longs <= 1

(* A long press is only told of a contact that had lasted, had never left  *)
(* where it began and had not been suppressed.                             *)
LongPressEarned == ~contact.hasty

(* A swipe was short and did go that far; unless a new contact began in    *)
(* the same frame, whose way is then judged by the time of the old one.    *)
SwipeEarned ==
  WasSwipe /\ ~touch.down =>
    contact.held <= TOUCH_SWIPE_MAX /\ contact.reach >= TOUCH_SWIPE_MIN_PX

(* A press of the Home key is a tap or a long press, never both.           *)
HomeOnce == homeTold <= 1

(* What the queries say of a contact agrees with what the contact did, and *)
(* what they say of one release agrees among themselves. The code does not *)
(* promise more: a contact that was told to be a long press may end as a   *)
(* tap (wasTouchTap ignores longPressFired) or, up to 700 ms, as a swipe,  *)
(* and wasSwipe does not ask whether the contact was suppressed.           *)
AnswersMatchContacts ==
  /\ TapXorSwipe
  /\ TapStayedPut
  /\ SwipeEarned
  /\ LongPressOnce
  /\ LongPressEarned
  /\ SuppressedIsSilent
  /\ HomeOnce
=============================================================================
