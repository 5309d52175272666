------------------------------ MODULE SimHeap ------------------------------
(***************************************************************************)
(* The logical ESP32 heap, src/src/esp_heap_caps.h: two pools (internal    *)
(* RAM and PSRAM) of simulated addresses, a first-fit allocator with       *)
(* coalescing over a sorted list of free ranges, and a map from the host   *)
(* pointers that were handed out to the simulated block each one stands    *)
(* for. Every operation runs under one mutex and is one step here.         *)
(*                                                                         *)
(* The host allocator is external: malloc returns a pointer that is not    *)
(* in use, or fails. The firmware is external too. It may also pass a      *)
(* heap_caps pointer to the libc free, which the simulator leaves alone:   *)
(* the block stays charged and the host may return the pointer again.      *)
(***************************************************************************)
EXTENDS Integers, Sequences, FiniteSets, FiniteSetsExt

CONSTANTS
  Ptrs,        (* host pointers                                             *)
  NoBlock,     (* "not in live", no block                                   *)
  Configs,     (* bound: for each pool, the values of its environment       *)
               (* variables _TOTAL, _FREE and _LARGEST that are tried       *)
  Sizes,       (* bound: request sizes                                      *)
  Alignments,  (* bound: request alignments, powers of two                  *)
  Thresholds   (* bound: values of DEFAULT_PSRAM_THRESHOLD                  *)

Pools == {"internal", "psram"}
Other(p) == IF p = "internal" THEN "psram" ELSE "internal"

(* Range and Allocation.                                                   *)
FreeRanges == [start : Nat, size : Nat \ {0}]
Blocks == [pool : Pools, start : Nat, size : Nat \ {0}]

ASSUME SimHeapAssumption ==
  /\ \A p \in Pools :
       Configs[p] \subseteq [total : Nat, free : Nat, largest : Nat]
  /\ Sizes \subseteq Nat
  /\ Alignments \subseteq Nat \ {0}
  /\ Thresholds \subseteq Nat
  /\ NoBlock \notin Blocks

VARIABLES
  pool,        (* internal and psram                                        *)
  live,        (* live: the simulated block of a host pointer               *)
  held,        (* host: pointers that are allocated                         *)
  threshold,   (* defaultPsramThreshold                                     *)
  arena,       (* history: the free ranges initializePool built             *)
  lost         (* history: blocks charged to a pool that live forgot        *)

vars == <<pool, live, held, threshold, arena, lost>>

(* The first address behind a range or block.                              *)
End(r) == r.start + r.size

(* recomputeLargest                                                        *)
Largest(ranges) == Max({0} \cup {ranges[i].size : i \in DOMAIN ranges})

-----------------------------------------------------------------------------
(* initializePool                                                          *)

(* Chunks of the largest block, one unavailable byte between two of them.  *)
Chunks(free, chunk) ==
  [i \in 1 .. IF free = 0 THEN 0 ELSE (free + chunk - 1) \div chunk |->
     [start |-> (i - 1) * (chunk + 1),
      size  |-> Min({chunk, free - (i - 1) * chunk})]]

(* envFree and envLargest are the values of _FREE and _LARGEST. With       *)
(* RESOURCE_MODE=off the code uses the default total for both of them.     *)
InitPool(total, envFree, envLargest, fail) ==
  LET free    == Min({envFree, total})
      largest == Min({envLargest, free})
  IN  [total |-> total, free |-> free, minimumFree |-> free,
       largest |-> largest, allocatedBlocks |-> 0, failNext |-> fail,
       freeRanges |-> Chunks(free, IF largest = 0 THEN free ELSE largest)]

Init ==
  /\ \E env \in [Pools -> UNION {Configs[p] : p \in Pools}],
        fail \in [Pools -> BOOLEAN] :
       /\ \A p \in Pools : env[p] \in Configs[p]
       /\ pool = [p \in Pools |-> InitPool(env[p].total, env[p].free,
                                          env[p].largest, fail[p])]
  /\ live = [p \in Ptrs |-> NoBlock]
  /\ held = {}
  /\ threshold \in Thresholds
  /\ arena = [p \in Pools |-> pool[p].freeRanges]
  /\ lost = {}

-----------------------------------------------------------------------------
(* allocateFromPool                                                        *)

AlignUp(n, alignment) == ((n + alignment - 1) \div alignment) * alignment

Prefix(r, alignment) == AlignUp(r.start, alignment) - r.start

Fits(r, bytes, alignment) ==
  /\ Prefix(r, alignment) <= r.size
  /\ bytes <= r.size - Prefix(r, alignment)

Fitting(ranges, bytes, alignment) ==
  {i \in DOMAIN ranges : Fits(ranges[i], bytes, alignment)}

(* Seeded fault: the padding before an aligned block is dropped.           *)
SplitSuffixOnly(r, bytes, alignment) ==
  LET prefix == Prefix(r, alignment)
      suffix == r.size - prefix - bytes
  IN  IF suffix = 0 THEN <<>>
      ELSE <<[start |-> r.start + prefix + bytes, size |-> suffix]>>

(* What is left of a range: the bytes before and after the block.          *)
Split(r, bytes, alignment) ==
  LET prefix == Prefix(r, alignment)
      suffix == r.size - prefix - bytes
  IN  (IF prefix = 0 THEN <<>> ELSE <<[start |-> r.start, size |-> prefix]>>)
      \o (IF suffix = 0 THEN <<>>
          ELSE <<[start |-> r.start + prefix + bytes, size |-> suffix]>>)

Serves(p, bytes, alignment) ==
  ~pool[p].failNext /\ Fitting(pool[p].freeRanges, bytes, alignment) # {}

(* The pool after a block was cut out of its i-th range.                   *)
Charge(q, i, bytes, alignment) ==
  LET kept == SubSeq(q.freeRanges, 1, i - 1)
              \o Split(q.freeRanges[i], bytes, alignment)
              \o SubSeq(q.freeRanges, i + 1, Len(q.freeRanges))
  IN  [q EXCEPT !.freeRanges = kept, !.free = @ - bytes,
                !.minimumFree = Min({@, q.free - bytes}),
                !.allocatedBlocks = @ + 1, !.largest = Largest(kept)]

(* A pool that refuses has used up its injected failure.                   *)
Refused(q) == [q EXCEPT !.failNext = FALSE]

(* Seeded fault: a stale entry is overwritten.                             *)
RecordOverwrites(ptr, block) ==
  live' = [live EXCEPT ![ptr] = block] /\ UNCHANGED lost

(* The block is registered under the host pointer; emplace does nothing    *)
(* when live still has the pointer from a block the firmware gave to free. *)
Record(ptr, block) ==
  IF live[ptr] = NoBlock
  THEN live' = [live EXCEPT ![ptr] = block] /\ UNCHANGED lost
  ELSE lost' = lost \cup {block} /\ UNCHANGED live

(* Pool p serves a request after the pools in refused did not.             *)
Serve(ptr, p, refused, bytes, alignment) ==
  LET i     == Min(Fitting(pool[p].freeRanges, bytes, alignment))
      start == AlignUp(pool[p].freeRanges[i].start, alignment)
  IN  /\ Serves(p, bytes, alignment)
      /\ ptr \notin held
      /\ held' = held \cup {ptr}
      /\ pool' = [q \in Pools |->
                    IF q = p THEN Charge(pool[q], i, bytes, alignment)
                    ELSE IF q \in refused THEN Refused(pool[q])
                    ELSE pool[q]]
      /\ Record(ptr, [pool |-> p, start |-> start, size |-> bytes])

(* allocateWithFallback. A pool refuses when it has no room, when a failure *)
(* was injected, or when the host has no memory at that moment.            *)
AllocateWithFallback(ptr, preferred, mayFallback, bytes, alignment) ==
  LET tried == {preferred} \cup IF mayFallback THEN Pools ELSE {}
  IN  \/ Serve(ptr, preferred, {}, bytes, alignment)
      \/ /\ mayFallback
         /\ Serve(ptr, Other(preferred), {preferred}, bytes, alignment)
      \/ /\ pool' = [q \in Pools |-> IF q \in tried THEN Refused(pool[q])
                                     ELSE pool[q]]
         /\ UNCHANGED <<live, held, lost>>

PsramAvailable == pool["psram"].total # 0

(* heap_caps_malloc and heap_caps_aligned_alloc. caps holds the capability *)
(* bits that matter; only a request without INTERNAL and SPIRAM may fall   *)
(* back to the other pool.                                                 *)
UsesDefaultPool(caps) == caps = {"DEFAULT"}

CapabilityPool(caps) ==
  IF "SPIRAM" \in caps \/ (UsesDefaultPool(caps) /\ PsramAvailable)
  THEN "psram" ELSE "internal"

(* Seeded fault: every request may fall back.                              *)
AllocateAnywhere(ptr, caps, bytes, alignment) ==
  /\ bytes # 0
  /\ AllocateWithFallback(ptr, CapabilityPool(caps), TRUE, bytes, alignment)
  /\ UNCHANGED <<threshold, arena>>

Allocate(ptr, caps, bytes, alignment) ==
  /\ bytes # 0
  /\ AllocateWithFallback(ptr, CapabilityPool(caps),
                          UsesDefaultPool(caps) /\ PsramAvailable,
                          bytes, alignment)
  /\ UNCHANGED <<threshold, arena>>

(* defaultMalloc and defaultAlignedAlloc.                                  *)
AllocateDefaultMalloc(ptr, bytes, alignment) ==
  /\ bytes # 0
  /\ AllocateWithFallback(ptr, IF PsramAvailable /\ bytes > threshold
                               THEN "psram" ELSE "internal",
                          PsramAvailable, bytes, alignment)
  /\ UNCHANGED <<threshold, arena>>

-----------------------------------------------------------------------------
(* freeRange and release                                                   *)

(* The ranges after freed was put back and joined with its neighbours.     *)
FreeRange(ranges, freed) ==
  LET position == Min({i \in 1 .. Len(ranges) + 1 :
                         i <= Len(ranges) => ranges[i].start >= freed.start})
      joinL == position > 1 /\ End(ranges[position - 1]) = freed.start
      joinR == position <= Len(ranges)
                 /\ End(freed) = ranges[position].start
      first == IF joinL THEN ranges[position - 1].start ELSE freed.start
      next  == IF joinR THEN End(ranges[position]) ELSE End(freed)
  IN  SubSeq(ranges, 1, IF joinL THEN position - 2 ELSE position - 1)
      \o <<[start |-> first, size |-> next - first]>>
      \o SubSeq(ranges, IF joinR THEN position + 1 ELSE position,
                 Len(ranges))

(* Seeded fault: the largest block is not recomputed.                      *)
ReturnedStaleLargest(q, freed) ==
  [q EXCEPT !.freeRanges = FreeRange(@, freed), !.free = @ + freed.size,
            !.allocatedBlocks = @ - 1]

(* The pool after a block was given back.                                  *)
Returned(q, freed) ==
  LET kept == FreeRange(q.freeRanges, freed)
  IN  [q EXCEPT !.freeRanges = kept, !.free = @ + freed.size,
                !.allocatedBlocks = @ - 1, !.largest = Largest(kept)]

Release(ptr) ==
  /\ ptr \in held
  /\ held' = held \ {ptr}
  /\ LET block == live[ptr]
     IN  /\ block # NoBlock
         /\ pool' = [pool EXCEPT ![block.pool] =
                       Returned(@, [start |-> block.start,
                                    size  |-> block.size])]
  /\ live' = [live EXCEPT ![ptr] = NoBlock]
  /\ UNCHANGED <<threshold, arena, lost>>

(* A pointer live does not know goes to the host's free.                   *)
ReleaseForeign(ptr) ==
  /\ ptr \in held
  /\ live[ptr] = NoBlock
  /\ held' = held \ {ptr}
  /\ UNCHANGED <<pool, live, threshold, arena, lost>>

(* External: libc malloc and free on the host, behind the accounting.      *)
HostMalloc(ptr) ==
  /\ ptr \notin held
  /\ held' = held \cup {ptr}
  /\ UNCHANGED <<pool, live, threshold, arena, lost>>

HostFree(ptr) ==
  /\ ptr \in held
  /\ held' = held \ {ptr}
  /\ UNCHANGED <<pool, live, threshold, arena, lost>>

CapSets == {{"DEFAULT"}, {"INTERNAL"}, {"SPIRAM"}}

Next ==
  \E ptr \in Ptrs :
    \/ \E bytes \in Sizes, alignment \in Alignments :
         \/ \E caps \in CapSets : Allocate(ptr, caps, bytes, alignment)
         \/ AllocateDefaultMalloc(ptr, bytes, alignment)
    \/ Release(ptr) \/ ReleaseForeign(ptr) \/ HostMalloc(ptr) \/ HostFree(ptr)

Spec == Init /\ [][Next]_vars

-----------------------------------------------------------------------------
(* Properties.                                                             *)

Bytes(block) == block.start .. End(block) - 1
BytesOf(ranges) == UNION {Bytes(ranges[i]) : i \in DOMAIN ranges}

(* The blocks pool p is charged with.                                      *)
LivePtrs(p) == {ptr \in Ptrs : live[ptr] # NoBlock /\ live[ptr].pool = p}
LostBlocks(p) == {b \in lost : b.pool = p}
Charged(p) == {live[ptr] : ptr \in LivePtrs(p)} \cup LostBlocks(p)

(* The counters the firmware can ask for agree with the lists: free with   *)
(* the free bytes, allocated_blocks with the blocks handed out, and the   *)
(* low-water mark is not above the level. largest agrees once a first      *)
(* request was served; before, a configured LARGEST of 0 is reported       *)
(* although the pool is one range.                                         *)
CountersAgree ==
  \A p \in Pools :
    /\ pool[p].free = Cardinality(BytesOf(pool[p].freeRanges))
    /\ pool[p].minimumFree <= pool[p].free
    /\ pool[p].allocatedBlocks =
         Cardinality(LivePtrs(p)) + Cardinality(LostBlocks(p))
    /\ \/ pool[p].largest = Largest(pool[p].freeRanges)
       \/ pool[p].largest = 0 /\ pool[p].freeRanges = arena[p]

(* The free list is sorted and no two ranges touch, so freeing everything  *)
(* restores the largest block and a gap of initializePool is never bridged.*)
Ordered(ranges) ==
  \A i, j \in 1 .. Len(ranges) : i < j => End(ranges[i]) < ranges[j].start

FreeListCoalesced == \A p \in Pools : Ordered(pool[p].freeRanges)

(* Every byte of the arena is free or in exactly one charged block: no     *)
(* block overlaps another or a free range, and no byte leaks, whatever     *)
(* sizes and alignments were mixed.                                        *)
BytesPartitioned ==
  \A p \in Pools :
    /\ BytesOf(arena[p]) = BytesOf(pool[p].freeRanges)
                              \cup UNION {Bytes(b) : b \in Charged(p)}
    /\ \A b \in Charged(p) :
         /\ Bytes(b) \cap BytesOf(pool[p].freeRanges) = {}
         /\ \A c \in Charged(p) : b # c => Bytes(b) \cap Bytes(c) = {}

(* The free list and the blocks are an exact, canonical account of the     *)
(* arena.                                                                  *)
ArenaAccounted == FreeListCoalesced /\ BytesPartitioned

(* A request for INTERNAL or for SPIRAM is never charged to the other pool:*)
(* it stays strict (comment at esp_heap_caps.h:242).                       *)
StrictRequests ==
  [][\A caps \in {"INTERNAL", "SPIRAM"} :
       LET other == IF caps = "INTERNAL" THEN "psram" ELSE "internal"
       IN  pool'[other] # pool[other] =>
             ~ \E ptr \in Ptrs, bytes \in Sizes, alignment \in Alignments :
                 Allocate(ptr, {caps}, bytes, alignment)]_vars

(* The allocator implements a heap that only knows which bytes are free    *)
(* and loses bytes when a pointer had been given to libc free.             *)
Abstract == INSTANCE HeapBytes WITH
  freeBytes <- [p \in Pools |-> BytesOf(pool[p].freeRanges)],
  blocks <- [ptr \in Ptrs |->
               IF live[ptr] = NoBlock THEN {}
               ELSE {live[ptr].pool} \X Bytes(live[ptr])]
AbstractSpec == Abstract!Spec
=============================================================================
