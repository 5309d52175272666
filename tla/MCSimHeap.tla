------------------------------ MODULE MCSimHeap -----------------------------
(* Instances of SimHeap for TLC.                                           *)
EXTENDS SimHeap, TLC

Env(t, f, l) == [total |-> t, free |-> f, largest |-> l]

(* Two chunks and a rest, one range with LARGEST=0 that aligned requests   *)
(* cut in the middle; PSRAM absent, or cut down by FREE.                   *)
MCConfigs ==
  [internal |-> {Env(4, 4, 2), Env(3, 3, 0)},
   psram    |-> {Env(0, 0, 0), Env(1, 2, 1)}]

Symmetry == Permutations(Ptrs)
=============================================================================
