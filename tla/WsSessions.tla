----------------------------- MODULE WsSessions -----------------------------
(***************************************************************************)
(* What WebSocketsServer promises to the callback of loop(): on every      *)
(* client number the events come as sessions. A session is opened by one   *)
(* CONNECTED and closed by one DISCONNECTED before the number is used      *)
(* again, a connection has at most one session, and data and DISCONNECTED  *)
(* come from the connection whose session is open. close() ends all        *)
(* sessions without telling the callback.                                  *)
(***************************************************************************)
CONSTANTS Conns, Ids, NoConn

VARIABLES
  session,  (* the connection whose session is open, or NoConn              *)
  due       (* the event that is handed to the callback next, if any        *)

vars == <<session, due>>

Events == [num : Ids, type : {"CONNECTED", "DATA", "DISCONNECTED"},
           from : Conns]

NoSession == [n \in Ids |-> NoConn]

Init == session = NoSession /\ due = {}

(* Whichever event is next: only when it is handed over it has to fit.     *)
AnyNext == due' \in {{}} \cup {{e} : e \in Events}

Take == due = {} /\ AnyNext /\ UNCHANGED session

Connected(e) ==
  /\ e.type = "CONNECTED"
  /\ session[e.num] = NoConn
  /\ \A n \in Ids : session[n] # e.from
  /\ session' = [session EXCEPT ![e.num] = e.from]

Data(e) ==
  /\ e.type = "DATA"
  /\ session[e.num] = e.from
  /\ UNCHANGED session

Disconnected(e) ==
  /\ e.type = "DISCONNECTED"
  /\ session[e.num] = e.from
  /\ session' = [session EXCEPT ![e.num] = NoConn]

HandOver ==
  /\ AnyNext
  /\ \E e \in due : Connected(e) \/ Data(e) \/ Disconnected(e)

Closed == due = {} /\ session' = NoSession /\ UNCHANGED due

Next == Take \/ HandOver \/ Closed

Spec == Init /\ [][Next]_vars
=============================================================================
