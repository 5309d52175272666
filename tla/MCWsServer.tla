----------------------------- MODULE MCWsServer -----------------------------
(* Instances of WsServer for TLC.                                          *)
EXTENDS WsServer, TLC

(* State constraint of the crowded run: no callback, so events only pile   *)
(* up and close() drops them. Delivery does not touch the registry.        *)
NoDelivery == ~callback

Symmetry == Permutations(Conns) \cup Permutations(Fds)
=============================================================================
