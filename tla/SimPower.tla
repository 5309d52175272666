------------------------------ MODULE SimPower ------------------------------
(***************************************************************************)
(* Sleep, wake and reboot (SimulatorLifecycle.cpp, the deep-sleep part of  *)
(* HalGPIO.cpp, the exit of simulator_main.cpp).                           *)
(*                                                                         *)
(* The simulator sleeps by polling for a wake-up and wakes or reboots by   *)
(* executing itself anew. All that survives is the environment: schedules  *)
(* of scripted input and screenshots, a wake reason, the firmware's silent *)
(* reboot token. Times of schedules are abstract: the events of a script   *)
(* come due in order, any number of them between two polls.                *)
(*                                                                         *)
(* The firmware is external. It is assumed to ask for the wake reason and  *)
(* to restore the token in setup(), in every process.                      *)
(***************************************************************************)
EXTENDS Integers, Sequences, FiniteSets

CONSTANTS
  Scripts,      (* the input schedules a user may have given               *)
  Events,       (* [Scripts -> Seq(Actions)], sorted by time               *)
  Tokens,       (* silent reboot tokens of the firmware                    *)
  Unset,        (* a variable that is not in the environment               *)
  MaxProcesses, (* bound: processes in a chain of relaunches               *)
  MaxKeys       (* bound: events waiting in SDL's queue                    *)

WakeButtons == {"enter", "power"}
Actions == {"enterDown", "enterUp", "home", "sleep", "quit"}
Keys == {"button", "s", "quit"} (* the H key is to the sleep as S is  *)

ASSUME SimPowerAssumption ==
  /\ Unset \notin Scripts \cup Tokens /\ Unset # "power"
  /\ Events \in [Scripts -> Seq(Actions)]
  /\ MaxProcesses \in Nat \ {0} /\ MaxKeys \in Nat \ {0}

VARIABLES
  env,     (* the environment variables CROSSPOINT_SIM_*                    *)
  phase,   (* what the process does                                         *)
  script,  (* the schedule this process read, or Unset                      *)
  read,    (* syntheticEventsInitialized                                    *)
  due,     (* how many of its events are due                                *)
  handled, (* how many of them were handled                                 *)
  down,    (* syntheticButtonDown                                           *)
  keys,    (* SDL's queue                                                   *)
  quit,    (* quitRequested                                                 *)
  born,    (* history: how this process came to be                          *)
  process, (* history: its number                                           *)
  plays,   (* history: [Scripts -> how many processes read it]              *)
  told,    (* history: the wake reason this process was told                *)
  token    (* history: the token it restored and who set the current one    *)

hostVars == <<script, read, due, handled, down, keys, quit>>
history == <<born, process, plays, told, token>>
powerVars == <<env, phase, script, read, due, handled, down, keys, quit,
               born, process, plays, told, token>>

Schedules == {"script", "scriptAfterWake", "scriptAfterReboot"}

(* Each variable the user sets names a schedule of its own.                *)
PowerInit ==
  /\ env \in [Schedules \cup {"wake", "token"} -> Scripts \cup {Unset}]
  /\ env["wake"] = Unset /\ env["token"] = Unset
  /\ \A a, b \in Schedules : a # b => env[a] # env[b] \/ env[a] = Unset
  /\ phase = "setup"
  /\ script = Unset /\ read = FALSE /\ due = 0 /\ handled = 0
  /\ down = {} /\ keys = <<>> /\ quit = FALSE
  /\ born = "start" /\ process = 1
  /\ plays = [s \in Scripts |-> 0]
  /\ told = Unset
  /\ token = [restored |-> Unset, setBy |-> 0]

-----------------------------------------------------------------------------
(* Relaunching.                                                            *)

(* Seeded fault: the schedule that was used up is not removed.             *)
PromoteKeeps(e, name, after) == [e EXCEPT ![name] = e[after]]

(* promoteAfterWakeValue                                                   *)
Promote(e, name, after) == [e EXCEPT ![name] = e[after], ![after] = Unset]

(* reboot: the token and the wake reason stay as they are.                 *)
RebootEnv(e) == Promote(e, "script", "scriptAfterReboot")

(* rebootAsPowerWake                                                       *)
WakeEnv(e) ==
  [Promote(e, "script", "scriptAfterWake")
     EXCEPT !["wake"] = "power", !["token"] = Unset]

(* execvp gives up the process with everything but the environment. It may *)
(* fail; the process then exits. So it does at MaxProcesses, the bound.    *)
Exec(e, how) ==
  /\ \/ /\ process < MaxProcesses
        /\ phase' = "setup" /\ process' = process + 1 /\ born' = how
     \/ phase' = "gone" /\ UNCHANGED <<process, born>>
  /\ env' = e
  /\ script' = Unset /\ read' = FALSE /\ due' = 0 /\ handled' = 0
  /\ down' = {} /\ keys' = <<>> /\ quit' = FALSE
  /\ told' = Unset
  /\ token' = [token EXCEPT !.restored = Unset]
  /\ UNCHANGED plays

-----------------------------------------------------------------------------
(* Setup: what the firmware reads of its past.                             *)

(* Seeded fault: the wake reason stays in the environment.                 *)
ConsumeKeeps(e) == e

(* consumeWakeReason removes the variable whatever its value.              *)
Consume(e) == [e EXCEPT !["wake"] = Unset]

(* setup(): getWakeupReason and restoreSilentRebootToken, once each.       *)
Setup ==
  /\ phase = "setup"
  /\ told' = env["wake"]
  /\ token' = [token EXCEPT !.restored = env["token"]]
  /\ env' = [Consume(env) EXCEPT !["token"] = Unset]
  /\ phase' = "awake"
  /\ UNCHANGED <<hostVars, born, process, plays>>

-----------------------------------------------------------------------------
(* Input.                                                                  *)

(* The user presses a key or closes the window.                            *)
Press(key) ==
  /\ phase # "gone"
  /\ Len(keys) < MaxKeys
  /\ keys' = Append(keys, key)
  /\ UNCHANGED <<env, phase, script, read, due, handled, down, quit, history>>

(* The schedule a process has in its environment.                          *)
Plan == LET s == IF read THEN script ELSE env["script"]
        IN  IF s = Unset THEN <<>> ELSE Events[s]

(* Time passes until the next event of the schedule is due.                *)
EventDue ==
  /\ phase # "gone"
  /\ due < Len(Plan)
  /\ due' = due + 1
  /\ UNCHANGED <<env, phase, script, read, handled, down, keys, quit, history>>

(* initializeSyntheticEvents reads the script at the first poll.           *)
ReadScript ==
  /\ read' = TRUE
  /\ script' = IF read THEN script ELSE env["script"]
  /\ plays' = [s \in Scripts |->
                 IF ~read /\ env["script"] = s THEN plays[s] + 1 ELSE plays[s]]

(* The synthetic buttons that are down after events i + 1 .. j of plan p,  *)
(* when d were down before them: each has its last event's state.          *)
DownAfter(d, p, i, j) ==
  {b \in WakeButtons :
     LET press == IF b = "power" THEN "sleep" ELSE "enterDown"
         last == {k \in (i + 1) .. j :
                    p[k] = press \/ (b = "enter" /\ p[k] = "enterUp")}
     IN  IF last = {} THEN b \in d
         ELSE p[CHOOSE k \in last : \A n \in last : n <= k] = press}

(* processSyntheticEvents handles all that is due, in order.               *)
ProcessSynthetic ==
  /\ ReadScript
  /\ handled' = due
  /\ down' = DownAfter(down, Plan, handled, due)
  /\ UNCHANGED due

QuitDue == \E k \in (handled + 1) .. due : Plan[k] = "quit"
InQueue(key) == \E i \in DOMAIN keys : keys[i] = key

(* HalGPIO::update: first SDL's queue, then the schedule. The sleep        *)
(* shortcut holds the power button down.                                   *)
Update ==
  /\ phase = "awake"
  /\ ReadScript
  /\ handled' = due
  /\ down' = DownAfter(down \cup (IF InQueue("s") THEN {"power"} ELSE {}),
                       Plan, handled, due)
  /\ quit' = (quit \/ InQueue("quit") \/ QuitDue)
  /\ keys' = <<>>
  /\ UNCHANGED <<env, phase, due, born, process, told, token>>

-----------------------------------------------------------------------------
(* What the firmware and the main loop do about it.                        *)

(* setSilentRebootToken                                                    *)
SetToken(t) ==
  /\ phase = "awake"
  /\ env' = [env EXCEPT !["token"] = t]
  /\ token' = [token EXCEPT !.setBy = process]
  /\ UNCHANGED <<phase, hostVars, born, process, plays, told>>

(* ESP.restart                                                             *)
Reboot ==
  /\ phase = "awake"
  /\ Exec(RebootEnv(env), "reboot")

(* Main loop: quitRequested is looked at once per frame.                   *)
Exit ==
  /\ phase = "awake"
  /\ quit
  /\ phase' = "gone"
  /\ UNCHANGED <<env, hostVars, history>>

(* startDeepSleep. The loop alternates between the schedule and the keys.  *)
StartSleep ==
  /\ phase = "awake"
  /\ phase' = "script"
  /\ down' = {}
  /\ UNCHANGED <<env, script, read, due, handled, keys, quit, history>>

(* One round, first part. Quit wins over a button that is down.            *)
SleepScriptQuit ==
  /\ phase = "script"
  /\ quit \/ QuitDue
  /\ ProcessSynthetic
  /\ quit' = TRUE
  /\ phase' = "awake"
  /\ UNCHANGED <<env, keys, born, process, told, token>>

SleepScriptWake ==
  /\ phase = "script"
  /\ ~quit /\ ~QuitDue
  /\ DownAfter(down, Plan, handled, due) # {}
  /\ Exec(WakeEnv(env), "wake")

(* Seeded fault: the sleep loop forgets to look at the buttons.            *)
SleepScriptDeaf ==
  /\ phase = "script"
  /\ ~quit /\ ~QuitDue
  /\ phase' = "keys"
  /\ down' = {} /\ handled' = due
  /\ ReadScript
  /\ UNCHANGED <<due, env, keys, quit, born, process, told, token>>

SleepScriptOn ==
  /\ phase = "script"
  /\ ~quit /\ ~QuitDue
  /\ DownAfter(down, Plan, handled, due) = {}
  /\ ProcessSynthetic
  /\ phase' = "keys"
  /\ UNCHANGED <<env, keys, quit, born, process, told, token>>

(* Second part: SDL's queue, up to the first event that ends the sleep.    *)
(* The H and S keys are no buttons.                                        *)
Stirs(key) == key \in {"button", "quit"}

FirstStir ==
  LET stirs == {i \in DOMAIN keys : Stirs(keys[i])}
  IN  IF stirs = {} THEN 0 ELSE CHOOSE i \in stirs : \A j \in stirs : i <= j

SleepKeysQuit ==
  /\ phase = "keys"
  /\ FirstStir # 0 /\ keys[FirstStir] = "quit"
  /\ quit' = TRUE
  /\ keys' = SubSeq(keys, FirstStir + 1, Len(keys))
  /\ phase' = "awake"
  /\ UNCHANGED <<env, script, read, due, handled, down, history>>

SleepKeysWake ==
  /\ phase = "keys"
  /\ FirstStir # 0 /\ keys[FirstStir] = "button"
  /\ Exec(WakeEnv(env), "wake")

SleepKeysOn ==
  /\ phase = "keys"
  /\ FirstStir = 0
  /\ keys' = <<>>
  /\ phase' = "script"
  /\ UNCHANGED <<env, script, read, due, handled, down, quit, history>>

-----------------------------------------------------------------------------

SleepScript == SleepScriptQuit \/ SleepScriptWake \/ SleepScriptOn
SleepKeys == SleepKeysQuit \/ SleepKeysWake \/ SleepKeysOn

PowerNext ==
  \/ Setup \/ EventDue \/ Update \/ Reboot \/ Exit \/ StartSleep
  \/ \E key \in Keys : Press(key)
  \/ \E t \in Tokens : SetToken(t)
  \/ SleepScriptQuit \/ SleepScriptWake \/ SleepScriptOn
  \/ SleepKeysQuit \/ SleepKeysWake \/ SleepKeysOn

PowerSpec == PowerInit /\ [][PowerNext]_powerVars

(* The sleep loop keeps polling; users and firmware do as they like.       *)
PowerFairSpec ==
  PowerSpec /\ WF_powerVars(SleepScript) /\ WF_powerVars(SleepKeys)

-----------------------------------------------------------------------------
(* Properties.                                                             *)

Asleep == phase \in {"script", "keys"}

(* Every variable keeps its type.                                          *)
PowerTypeOK ==
  /\ \A n \in Schedules : env[n] \in Scripts \cup {Unset}
  /\ env["wake"] \in {Unset, "power"} /\ env["token"] \in Tokens \cup {Unset}
  /\ phase \in {"setup", "awake", "script", "keys", "gone"}
  /\ script \in Scripts \cup {Unset} /\ read \in BOOLEAN
  /\ due \in 0 .. Len(Plan) /\ handled \in 0 .. due
  /\ down \subseteq WakeButtons
  /\ keys \in Seq(Keys) /\ quit \in BOOLEAN
  /\ born \in {"start", "reboot", "wake"}
  /\ process \in 1 .. MaxProcesses
  /\ told \in {Unset, "power"}
  /\ token \in [restored : Tokens \cup {Unset}, setBy : 0 .. MaxProcesses]

(* README: a scripted flow is never replayed, in no chain of wakes and     *)
(* reboots; every schedule drives at most one process.                     *)
PlayedOnce == \A s \in Scripts : plays[s] <= 1

(* A process is told of a power wake exactly when a wake made it, and a    *)
(* later reboot of a woken process is not taken for a wake.                *)
WakeReasonIsTrue == phase \in {"awake", "script", "keys"} =>
  (told = "power" <=> born = "wake")

(* A token reaches the process that the setter's reboot makes and no       *)
(* other: it does not survive a sleep, nor a second reboot.                *)
TokenForSuccessor == token.restored # Unset =>
  born = "reboot" /\ process > 1 /\ token.setBy >= process - 1

(* What a process leaves for the next reaches it, and it alone.            *)
HandOverIsTrue == WakeReasonIsTrue /\ TokenForSuccessor

(* The key of a button wakes the simulator, unless it is told to quit.     *)
ButtonWakes == Asleep /\ InQueue("button") ~> ~Asleep

(* Scripted presses of a button that the sleep loop has yet to handle, and *)
(* those whose release came due before it did.                             *)
PressesDue == {k \in (handled + 1) .. due : Plan[k] \in {"enterDown", "sleep"}}
OverUnseen ==
  {k \in PressesDue :
     Plan[k] = "enterDown" /\ \E j \in (k + 1) .. due : Plan[j] = "enterUp"}

(* A scripted press of a button wakes the simulator, unless it is told to  *)
(* quit. The only presses that are lost are those whose release is handled *)
(* in the same poll: the loop looks at levels, not at edges.               *)
ScriptedPressWakes ==
  Asleep /\ PressesDue # {}
    ~> ~Asleep \/ (PressesDue # {} /\ OverUnseen = PressesDue)

(* What wakes the simulator: a button, by its key or by a script, except   *)
(* for a scripted press that is over before the loop sees it. The keys S   *)
(* and H are not among it.                                                 *)
InputWakes == ButtonWakes /\ ScriptedPressWakes

(* README.md:152: pressing any mapped simulator key wakes the simulator.   *)
(* The table above that line maps S and H too, which are no buttons.       *)
MappedKeyWakes == Asleep /\ (InQueue("button") \/ InQueue("s")) ~> ~Asleep
=============================================================================
