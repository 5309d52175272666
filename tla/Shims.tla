-------------------------------- MODULE Shims -------------------------------
(***************************************************************************)
(* The libraries of the firmware that keep a state of their own and share  *)
(* none: a behaviour of this module exercises one of them.                 *)
(***************************************************************************)
EXTENDS HttpClients, Sockets, ImageDecoders, WifiState, StackCheck

VARIABLE focus   (* the library that is exercised                           *)

shimVars ==
  <<focus, httpVars, sockVars, imageVars, wifiVars, stackVars>>

Libraries == {"esp", "http", "sockets", "images", "wifi", "stack"}

(* What is not exercised keeps one of its initial states.                  *)
Rests ==
  /\ focus \notin {"esp", "http"} => mock = Nothing
  /\ focus # "images" => kind = "png"
  /\ focus # "wifi" =>
       wifiEnv = [connect |-> "unset", ap |-> "unset",
                  networks |-> Unspecified]
  /\ focus # "stack" => mode = "unset"

Init ==
  /\ focus \in Libraries
  /\ HttpInit /\ SocketsInit /\ ImageInit /\ WifiInit /\ StackInit
  /\ Rests

Next ==
  \/ /\ \/ focus = "esp" /\ EspNext
        \/ focus = "http" /\ ClientNext
     /\ UNCHANGED <<sockVars, imageVars, wifiVars, stackVars>>
  \/ /\ focus = "sockets" /\ SocketsNext
     /\ UNCHANGED <<httpVars, imageVars, wifiVars, stackVars>>
  \/ /\ focus = "images" /\ ImageNext
     /\ UNCHANGED <<httpVars, sockVars, wifiVars, stackVars>>
  \/ /\ focus = "wifi" /\ WifiNext
     /\ UNCHANGED <<httpVars, sockVars, imageVars, stackVars>>
  \/ /\ focus = "stack" /\ StackNext
     /\ UNCHANGED <<httpVars, sockVars, imageVars, wifiVars>>

(* The thread in a call of SecureClient goes on, and time passes.          *)
Spec ==
  /\ Init /\ [][Next /\ UNCHANGED focus]_shimVars
  /\ WF_shimVars(TlsStep /\ UNCHANGED
                   <<focus, httpVars, imageVars, wifiVars, stackVars>>)
  /\ WF_shimVars(TimeOut /\ UNCHANGED
                   <<focus, httpVars, imageVars, wifiVars, stackVars>>)
=============================================================================
