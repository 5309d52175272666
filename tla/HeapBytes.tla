------------------------------ MODULE HeapBytes -----------------------------
(***************************************************************************)
(* What a capability heap promises, without lists, counters or a placement *)
(* policy: a block is a contiguous run of free bytes of one pool, it keeps *)
(* them until it is released, and release frees exactly them. A request    *)
(* that fails changes nothing. A block whose pointer still stands for an   *)
(* older one is lost: its bytes are never free again.                      *)
(***************************************************************************)
EXTENDS Integers

CONSTANTS Ptrs, Pools, Sizes

VARIABLES
  freeBytes,  (* the free bytes of each pool                                *)
  blocks      (* the bytes each pointer stands for, as <<pool, address>>    *)

absVars == <<freeBytes, blocks>>

Init ==
  /\ \A p \in Pools : freeBytes[p] \subseteq Nat
  /\ blocks = [ptr \in Ptrs |-> {}]

(* The step takes size contiguous free bytes of pool p.                    *)
Taken(p) == freeBytes[p] \ freeBytes'[p]
Takes(p) ==
  /\ \E size \in Sizes, start \in Taken(p) :
       Taken(p) = start .. start + size - 1
  /\ freeBytes' = [freeBytes EXCEPT ![p] = @ \ Taken(p)]

Allocate(ptr, p) ==
  /\ blocks[ptr] = {}
  /\ Takes(p)
  /\ blocks' = [blocks EXCEPT ![ptr] = {p} \X Taken(p)]

Lose(ptr, p) ==
  /\ blocks[ptr] # {}
  /\ Takes(p)
  /\ UNCHANGED blocks

Release(ptr) ==
  /\ blocks[ptr] # {}
  /\ freeBytes' = [p \in Pools |->
                   freeBytes[p] \cup {b[2] : b \in {x \in blocks[ptr] :
                                                    x[1] = p}}]
  /\ blocks' = [blocks EXCEPT ![ptr] = {}]

Next ==
  \E ptr \in Ptrs :
    \/ \E p \in Pools : Allocate(ptr, p) \/ Lose(ptr, p)
    \/ Release(ptr)

Spec == Init /\ [][Next]_absVars
=============================================================================
