----------------------------- MODULE MCSimPower -----------------------------
(* An instance of SimPower for TLC.                                        *)
EXTENDS SimPower, TLC

CONSTANTS first, afterWake, afterReboot

(* Three schedules: sleep and press a key; sleep with a key that is still  *)
(* held and released later; a key that does not wake, and quit.            *)
MCEvents == (first :> <<"sleep", "enterDown", "enterUp">>)
            @@ (afterWake :> <<"enterDown", "sleep", "enterUp">>)
            @@ (afterReboot :> <<"home", "quit">>)
=============================================================================
