------------------------------ MODULE MCHalGpio ------------------------------
(***************************************************************************)
(* HalGPIO.cpp for TLC: the input of a process that is awake (SimInput),   *)
(* and the chain of processes that sleep, wake and reboot (SimPower). They *)
(* share no state: the processes a sleep ends and begins hand over nothing *)
(* of SimInput. A behaviour is about one of them: about SimPower when no   *)
(* input device is in use.                                                 *)
(***************************************************************************)
EXTENDS SimInput, MCSimPower, MCHals

MCUses == {{}, {"buttons"}, {"touch"}, {"home"}}

(* Within the slop, at it, between slop and swipe, beyond.                 *)
MCPositions == {0, 28, 40, 88}

HalInit ==
  /\ Init /\ PowerInit
  /\ uses # {} => \A n \in Schedules : env[n] = Unset

HalNext ==
  \/ uses # {} /\ Next /\ UNCHANGED powerVars
  \/ uses = {} /\ PowerNext /\ UNCHANGED vars

(* The fairness is PowerFairSpec's.                                        *)
HalSpec ==
  /\ HalInit /\ [][HalNext]_<<vars, powerVars>>
  /\ WF_powerVars(SleepScript) /\ WF_powerVars(SleepKeys)
=============================================================================
