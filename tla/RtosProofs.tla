----------------------------- MODULE RtosProofs ----------------------------
(***************************************************************************)
(* Proofs about the two parts of the runtime below the firmware: the       *)
(* capability heap (SimHeap), for any pool sizes, requests, alignments and *)
(* pointers, and the tasks (SimTasks), for any number of tasks and threads *)
(* and any depth of nesting.                                               *)
(***************************************************************************)
EXTENDS SimHeap, SimTasks, SequenceTheorems, FiniteSetTheorems,
        NaturalsInduction, WellFoundedInduction, TLAPS

-----------------------------------------------------------------------------
(* Free lists: sequences of ranges, pieced together.                       *)

(* Every range of s ends before the ranges of t begin, and apart.          *)
Before(s, t) ==
  \A i \in 1 .. Len(s), j \in 1 .. Len(t) : End(s[i]) < t[j].start

LEMMA RangeFacts ==
  ASSUME NEW x \in FreeRanges
  PROVE  /\ x.start \in Nat /\ x.size \in Nat \ {0}
         /\ End(x) \in Nat /\ x.start < End(x) /\ End(x) = x.start + x.size
         /\ Bytes(x) = x.start .. End(x) - 1
         /\ Bytes(x) # {} /\ Bytes(x) \subseteq Nat
<1>1. x.start \in Nat /\ x.size \in Nat \ {0}
  BY DEF FreeRanges
<1>2. End(x) \in Nat /\ x.start < End(x) /\ End(x) = x.start + x.size
  BY <1>1 DEF End
<1>3. Bytes(x) = x.start .. End(x) - 1
  BY DEF Bytes
<1>4. x.start \in Bytes(x) /\ Bytes(x) \subseteq Nat
  BY <1>1, <1>2, <1>3
<1> QED
  BY <1>1, <1>2, <1>3, <1>4

LEMMA JoinedLists ==
  ASSUME NEW s \in Seq(FreeRanges), NEW t \in Seq(FreeRanges),
         NEW st, st = s \o t
  PROVE  /\ st \in Seq(FreeRanges)
         /\ Ordered(st) <=> Ordered(s) /\ Ordered(t) /\ Before(s, t)
         /\ BytesOf(st) = BytesOf(s) \cup BytesOf(t)
<1>1. /\ st \in Seq(FreeRanges) /\ Len(st) = Len(s) + Len(t)
      /\ \A i \in 1 .. Len(s) + Len(t) :
           st[i] = IF i <= Len(s) THEN s[i] ELSE t[i - Len(s)]
  BY ConcatProperties
<1>2. Len(s) \in Nat /\ Len(t) \in Nat
  BY LenProperties
<1>a. DOMAIN s = 1 .. Len(s) /\ DOMAIN t = 1 .. Len(t)
      /\ DOMAIN st = 1 .. Len(st)
  BY <1>1, LenProperties
<1>3. \A i \in 1 .. Len(s) : i \in 1 .. Len(st) /\ st[i] = s[i]
  BY <1>1, <1>2
<1>4. \A j \in 1 .. Len(t) : Len(s) + j \in 1 .. Len(st)
                             /\ st[Len(s) + j] = t[j]
  <2> SUFFICES ASSUME NEW j \in 1 .. Len(t)
               PROVE  /\ Len(s) + j \in 1 .. Len(st)
                      /\ st[Len(s) + j] = t[j]
    OBVIOUS
  <2>1. /\ Len(s) + j \in 1 .. Len(s) + Len(t)
        /\ ~ (Len(s) + j <= Len(s)) /\ (Len(s) + j) - Len(s) = j
    BY <1>2
  <2> QED
    BY <1>1, <2>1
<1>5. ASSUME Ordered(st) PROVE Ordered(s) /\ Ordered(t) /\ Before(s, t)
  <2>1. Ordered(s)
    BY <1>3, <1>5 DEF Ordered
  <2>2. Ordered(t)
    <3> SUFFICES ASSUME NEW i \in 1 .. Len(t), NEW j \in 1 .. Len(t), i < j
                 PROVE  End(t[i]) < t[j].start
      BY DEF Ordered
    <3>1. Len(s) + i < Len(s) + j
      BY <1>2
    <3> QED
      BY <1>4, <1>5, <3>1 DEF Ordered
  <2>3. Before(s, t)
    <3> SUFFICES ASSUME NEW i \in 1 .. Len(s), NEW j \in 1 .. Len(t)
                 PROVE  End(s[i]) < t[j].start
      BY DEF Before
    <3>1. i < Len(s) + j
      BY <1>2
    <3> QED
      BY <1>3, <1>4, <1>5, <3>1 DEF Ordered
  <2> QED
    BY <2>1, <2>2, <2>3
<1>6. ASSUME Ordered(s), Ordered(t), Before(s, t) PROVE Ordered(st)
  <2> SUFFICES ASSUME NEW i \in 1 .. Len(st), NEW j \in 1 .. Len(st), i < j
               PROVE  End(st[i]) < st[j].start
    BY DEF Ordered
  <2>1. CASE j <= Len(s)
    <3>1. i \in 1 .. Len(s) /\ j \in 1 .. Len(s)
      BY <2>1, <1>2
    <3> QED
      BY <3>1, <1>3, <1>6 DEF Ordered
  <2>2. CASE i <= Len(s) /\ ~ (j <= Len(s))
    <3>1. i \in 1 .. Len(s) /\ j - Len(s) \in 1 .. Len(t)
      BY <2>2, <1>1, <1>2
    <3>2. st[i] = s[i] /\ st[j] = t[j - Len(s)]
      BY <1>1, <2>2
    <3> QED
      BY <3>1, <3>2, <1>6 DEF Before
  <2>3. CASE ~ (i <= Len(s)) /\ ~ (j <= Len(s))
    <3>1. /\ i - Len(s) \in 1 .. Len(t) /\ j - Len(s) \in 1 .. Len(t)
          /\ i - Len(s) < j - Len(s)
      BY <2>3, <1>1, <1>2
    <3>2. st[i] = t[i - Len(s)] /\ st[j] = t[j - Len(s)]
      BY <1>1, <2>3
    <3> QED
      BY <3>1, <3>2, <1>6 DEF Ordered
  <2> QED
    BY <2>1, <2>2, <2>3, <1>1, <1>2
<1>7. BytesOf(st) = BytesOf(s) \cup BytesOf(t)
  <2>1. ASSUME NEW b \in BytesOf(st) PROVE b \in BytesOf(s) \cup BytesOf(t)
    <3>1. PICK i \in 1 .. Len(st) : b \in Bytes(st[i])
      BY <1>a DEF BytesOf
    <3>2. CASE i <= Len(s)
      BY <3>1, <3>2, <1>1, <1>2, <1>a DEF BytesOf
    <3>3. CASE ~ (i <= Len(s))
      <4>1. i - Len(s) \in 1 .. Len(t) /\ st[i] = t[i - Len(s)]
        BY <3>3, <1>1, <1>2
      <4> QED
        BY <3>1, <4>1, <1>a DEF BytesOf
    <3> QED
      BY <3>2, <3>3
  <2>2. ASSUME NEW b \in BytesOf(s) PROVE b \in BytesOf(st)
    BY <1>3, <1>a DEF BytesOf
  <2>3. ASSUME NEW b \in BytesOf(t) PROVE b \in BytesOf(st)
    BY <1>4, <1>a DEF BytesOf
  <2> QED
    BY <2>1, <2>2, <2>3
<1>8. /\ st \in Seq(FreeRanges)
      /\ Ordered(st) <=> Ordered(s) /\ Ordered(t) /\ Before(s, t)
  BY <1>1, <1>5, <1>6
<1> QED
  BY <1>7, <1>8

(* The ranges of st are those of s and of t.                               *)
Joins(s, t, st) ==
  /\ \A i \in 1 .. Len(s) : i \in 1 .. Len(st) /\ st[i] = s[i]
  /\ \A j \in 1 .. Len(t) : \E k \in 1 .. Len(st) : st[k] = t[j]
  /\ \A k \in 1 .. Len(st) : \/ \E i \in 1 .. Len(s) : st[k] = s[i]
                            \/ \E j \in 1 .. Len(t) : st[k] = t[j]

LEMMA JoinedRanges ==
  ASSUME NEW s \in Seq(FreeRanges), NEW t \in Seq(FreeRanges),
         NEW st, st = s \o t
  PROVE  Joins(s, t, st)
<1>1. /\ Len(st) = Len(s) + Len(t)
      /\ \A i \in 1 .. Len(s) + Len(t) :
           st[i] = IF i <= Len(s) THEN s[i] ELSE t[i - Len(s)]
  BY ConcatProperties
<1>2. Len(s) \in Nat /\ Len(t) \in Nat
  BY LenProperties
<1>3. \A i \in 1 .. Len(s) : i \in 1 .. Len(st) /\ st[i] = s[i]
  BY <1>1, <1>2
<1>4. ASSUME NEW j \in 1 .. Len(t)
      PROVE  \E k \in 1 .. Len(st) : st[k] = t[j]
  <2>1. /\ Len(s) + j \in 1 .. Len(s) + Len(t)
        /\ ~ (Len(s) + j <= Len(s)) /\ (Len(s) + j) - Len(s) = j
    BY <1>2
  <2>2. st[Len(s) + j] = t[j] /\ Len(s) + j \in 1 .. Len(st)
    BY <1>1, <2>1
  <2> QED
    BY <2>2
<1>5. ASSUME NEW k \in 1 .. Len(st), ~ (k <= Len(s))
      PROVE  \E j \in 1 .. Len(t) : st[k] = t[j]
  <2>1. k - Len(s) \in 1 .. Len(t) /\ st[k] = t[k - Len(s)]
    BY <1>1, <1>2, <1>5
  <2> QED
    BY <2>1
<1>6. ASSUME NEW k \in 1 .. Len(st), k <= Len(s)
      PROVE  \E i \in 1 .. Len(s) : st[k] = s[i]
  BY <1>1, <1>2, <1>6
<1> QED
  BY <1>3, <1>4, <1>5, <1>6 DEF Joins

LEMMA JoinedBefore ==
  ASSUME NEW s \in Seq(FreeRanges), NEW t \in Seq(FreeRanges), NEW u,
         NEW st, st = s \o t
  PROVE  Before(st, u) <=> Before(s, u) /\ Before(t, u)
<1>0. Joins(s, t, st)
  BY JoinedRanges
<1>1. ASSUME Before(st, u) PROVE Before(s, u) /\ Before(t, u)
  BY <1>0, <1>1 DEF Before, Joins
<1>2. ASSUME Before(s, u), Before(t, u) PROVE Before(st, u)
  BY <1>0, <1>2 DEF Before, Joins
<1> QED
  BY <1>1, <1>2

LEMMA BeforeJoined ==
  ASSUME NEW s \in Seq(FreeRanges), NEW t \in Seq(FreeRanges), NEW u,
         NEW st, st = s \o t
  PROVE  Before(u, st) <=> Before(u, s) /\ Before(u, t)
<1>0. Joins(s, t, st)
  BY JoinedRanges
<1>1. ASSUME Before(u, st) PROVE Before(u, s) /\ Before(u, t)
  BY <1>0, <1>1 DEF Before, Joins
<1>2. ASSUME Before(u, s), Before(u, t) PROVE Before(u, st)
  BY <1>0, <1>2 DEF Before, Joins
<1> QED
  BY <1>1, <1>2

LEMMA OneRange ==
  ASSUME NEW x \in FreeRanges
  PROVE  /\ <<x>> \in Seq(FreeRanges) /\ Ordered(<<x>>)
         /\ BytesOf(<<x>>) = Bytes(x)
<1>1. <<x>> \in Seq(FreeRanges) /\ Len(<<x>>) = 1 /\ <<x>>[1] = x
      /\ DOMAIN <<x>> = 1 .. 1
  OBVIOUS
<1>2. BytesOf(<<x>>) = Bytes(x)
  BY <1>1 DEF BytesOf
<1>3. Ordered(<<x>>)
  BY <1>1 DEF Ordered
<1> QED
  BY <1>1, <1>2, <1>3

LEMMA NoRange ==
  /\ <<>> \in Seq(FreeRanges) /\ Ordered(<<>>) /\ BytesOf(<<>>) = {}
  /\ 1 .. Len(<<>>) = {}
<1>1. <<>> \in Seq(FreeRanges) /\ Len(<<>>) = 0 /\ DOMAIN <<>> = 1 .. 0
  OBVIOUS
<1> QED
  BY <1>1 DEF Ordered, BytesOf, Before

LEMMA BeforeOne ==
  ASSUME NEW s \in Seq(FreeRanges), NEW x \in FreeRanges
  PROVE  /\ Before(s, <<x>>) <=> \A i \in 1 .. Len(s) : End(s[i]) < x.start
         /\ Before(<<x>>, s) <=> \A i \in 1 .. Len(s) : End(x) < s[i].start
<1>1. Len(<<x>>) = 1 /\ <<x>>[1] = x
  OBVIOUS
<1> QED
  BY <1>1 DEF Before

(* A byte of a list is a byte of one of its ranges.                        *)
LEMMA InBytesOf ==
  ASSUME NEW s \in Seq(FreeRanges)
  PROVE  /\ \A b : b \in BytesOf(s) <=>
                  \E i \in 1 .. Len(s) : b \in Bytes(s[i])
         /\ \A i \in 1 .. Len(s) : s[i] \in FreeRanges
         /\ BytesOf(s) \subseteq Nat /\ Len(s) \in Nat
<1>1. Len(s) \in Nat /\ DOMAIN s = 1 .. Len(s)
      /\ \A i \in 1 .. Len(s) : s[i] \in FreeRanges
  BY LenProperties, ElementOfSeq
<1>2. \A b : b \in BytesOf(s) <=> \E i \in 1 .. Len(s) : b \in Bytes(s[i])
  BY <1>1 DEF BytesOf
<1>3. BytesOf(s) \subseteq Nat
  BY <1>1, <1>2, RangeFacts
<1> QED
  BY <1>1, <1>2, <1>3

(* The bytes of a list are finitely many.                                  *)
LEMMA FiniteBytes ==
  ASSUME NEW s \in Seq(FreeRanges)
  PROVE  IsFiniteSet(BytesOf(s))
<1>1. Len(s) \in Nat /\ DOMAIN s = 1 .. Len(s)
      /\ \A i \in 1 .. Len(s) : s[i] \in FreeRanges
  BY InBytesOf, LenProperties
<1> DEFINE pieces == {Bytes(s[i]) : i \in DOMAIN s}
           piece == [i \in 1 .. Len(s) |-> Bytes(s[i])]
<1>2. IsFiniteSet(1 .. Len(s))
  BY <1>1, FS_Interval
<1>3. piece \in Surjection(1 .. Len(s), pieces)
  BY <1>1 DEF Surjection
<1>4. IsFiniteSet(pieces)
  BY <1>2, <1>3, FS_Surjection
<1>5. \A q \in pieces : IsFiniteSet(q)
  <2> SUFFICES ASSUME NEW i \in DOMAIN s PROVE IsFiniteSet(Bytes(s[i]))
    OBVIOUS
  <2>1. /\ s[i].start \in Int /\ End(s[i]) - 1 \in Int
        /\ Bytes(s[i]) = s[i].start .. End(s[i]) - 1
    BY <1>1, RangeFacts
  <2> QED
    BY <2>1, FS_Interval
<1>6. IsFiniteSet(UNION pieces)
  BY <1>4, <1>5, FS_UNION
<1> QED
  BY <1>6 DEF BytesOf

(* A list with a range in it, taken apart at that range.                   *)
LEMMA ListAround ==
  ASSUME NEW r \in Seq(FreeRanges), NEW i \in 1 .. Len(r), Ordered(r),
         NEW b, b = SubSeq(r, 1, i - 1),
         NEW a, a = SubSeq(r, i + 1, Len(r))
  PROVE  /\ b \in Seq(FreeRanges) /\ a \in Seq(FreeRanges)
         /\ r[i] \in FreeRanges
         /\ Ordered(b) /\ Ordered(a)
         /\ Before(b, <<r[i]>>) /\ Before(<<r[i]>>, a) /\ Before(b, a)
         /\ BytesOf(r) = BytesOf(b) \cup Bytes(r[i]) \cup BytesOf(a)
<1> DEFINE x == <<r[i]>>
           xa == x \o a
<1>1. Len(r) \in Nat /\ r[i] \in FreeRanges /\ i \in Nat
  BY InBytesOf
<1>2. x \in Seq(FreeRanges) /\ BytesOf(x) = Bytes(r[i])
  BY <1>1, OneRange
<1>3. b \in Seq(FreeRanges)
  BY <1>1, SubSeqProperties, InBytesOf
<1>4. a \in Seq(FreeRanges)
  BY <1>1, SubSeqProperties, InBytesOf
<1>5. xa = SubSeq(r, i, Len(r))
  BY <1>1, SubSeqRecursiveFirst
<1>6. r = b \o xa
  <2> DEFINE k == i - 1
  <2>a. k \in 1 - 1 .. Len(r) /\ Len(r) \in k .. Len(r)
        /\ 1 \in 1 .. Len(r) + 1
    BY <1>1
  <2> HIDE DEF k
  <2>1. SubSeq(r, 1, k) \o SubSeq(r, k + 1, Len(r)) = SubSeq(r, 1, Len(r))
    BY <2>a, ConcatAdjacentSubSeq
  <2>2. k + 1 = i /\ b = SubSeq(r, 1, k)
    BY <1>1 DEF k
  <2> QED
    BY <2>1, <2>2, <1>5, SubSeqFull
<1>b. xa = x \o a
  OBVIOUS
<1> HIDE DEF x, xa
<1>7. xa \in Seq(FreeRanges)
  BY <1>2, <1>4, <1>b, JoinedLists
<1>8. /\ Ordered(b) /\ Ordered(xa) /\ Before(b, xa)
      /\ BytesOf(r) = BytesOf(b) \cup BytesOf(xa)
  BY <1>3, <1>6, <1>7, JoinedLists
<1>9. /\ Ordered(a) /\ Before(x, a)
      /\ BytesOf(xa) = BytesOf(x) \cup BytesOf(a)
  <2>1. Ordered(xa) <=> Ordered(x) /\ Ordered(a) /\ Before(x, a)
    BY <1>2, <1>4, <1>b, JoinedLists
  <2>2. BytesOf(xa) = BytesOf(x) \cup BytesOf(a)
    BY <1>2, <1>4, <1>b, JoinedLists
  <2> QED
    BY <2>1, <2>2, <1>8
<1>10. Before(b, x) /\ Before(b, a)
  <2>1. x \in Seq(FreeRanges)
    BY <1>2
  <2>2. Before(b, xa) <=> Before(b, x) /\ Before(b, a)
    BY ONLY <2>1, <1>4, <1>b, BeforeJoined
  <2> QED
    BY <2>2, <1>8
<1>11. BytesOf(r) = BytesOf(b) \cup Bytes(r[i]) \cup BytesOf(a)
  BY <1>2, <1>8, <1>9
<1> QED
  BY <1>1, <1>3, <1>4, <1>8, <1>9, <1>10, <1>11 DEF x

LEMMA BeforeApart ==
  ASSUME NEW s \in Seq(FreeRanges), NEW t \in Seq(FreeRanges), Before(s, t)
  PROVE  BytesOf(s) \cap BytesOf(t) = {}
<1> SUFFICES ASSUME NEW n \in BytesOf(s), n \in BytesOf(t)
             PROVE  FALSE
  OBVIOUS
<1>1. PICK i \in 1 .. Len(s) : n \in Bytes(s[i])
  BY InBytesOf
<1>2. PICK j \in 1 .. Len(t) : n \in Bytes(t[j])
  BY InBytesOf
<1>3. s[i] \in FreeRanges /\ t[j] \in FreeRanges
  BY InBytesOf
<1>4. End(s[i]) < t[j].start
  BY DEF Before
<1>5. n \in s[i].start .. End(s[i]) - 1 /\ n \in t[j].start .. End(t[j]) - 1
  BY <1>1, <1>2, <1>3, RangeFacts
<1>6. /\ s[i].start \in Nat /\ End(s[i]) \in Nat
      /\ t[j].start \in Nat /\ End(t[j]) \in Nat
  BY <1>3, RangeFacts
<1> QED
  BY <1>4, <1>5, <1>6

-----------------------------------------------------------------------------
(* Cutting a block out of a range.                                         *)

LEMMA AlignUpFacts ==
  ASSUME NEW n \in Nat, NEW alignment \in Nat \ {0}
  PROVE  AlignUp(n, alignment) \in Nat /\ n <= AlignUp(n, alignment)
<1> DEFINE m == n + alignment - 1
           q == m \div alignment
           r == m % alignment
<1>1. m \in Nat
  OBVIOUS
<1> HIDE DEF m
<1>2. q \in Nat /\ r \in Nat /\ r < alignment /\ m = alignment * q + r
  BY <1>1
<1> HIDE DEF q, r
<1>3. q * alignment = alignment * q /\ q * alignment \in Nat
  BY <1>2
<1>4. q * alignment = n + alignment - 1 - r
  BY <1>2, <1>3 DEF m
<1>5. n <= q * alignment
  BY <1>2, <1>4
<1>6. AlignUp(n, alignment) = q * alignment
  BY DEF AlignUp, m, q
<1> QED
  BY <1>3, <1>5, <1>6

(* The block that a request takes from the range x.                        *)
Taken(x, bytes, alignment) ==
  [start |-> AlignUp(x.start, alignment), size |-> bytes]

LEMMA SplitFacts ==
  ASSUME NEW x \in FreeRanges, NEW bytes \in Nat \ {0},
         NEW alignment \in Nat \ {0}, Fits(x, bytes, alignment),
         NEW c, c = Split(x, bytes, alignment),
         NEW t, t = Taken(x, bytes, alignment)
  PROVE  /\ t \in FreeRanges /\ Bytes(t) \subseteq Bytes(x)
         /\ c \in Seq(FreeRanges) /\ Ordered(c)
         /\ BytesOf(c) = Bytes(x) \ Bytes(t)
         /\ \A s \in Seq(FreeRanges) :
              /\ Before(s, <<x>>) => Before(s, c)
              /\ Before(<<x>>, s) => Before(c, s)
<1> DEFINE at == AlignUp(x.start, alignment)
           prefix == Prefix(x, alignment)
           suffix == x.size - prefix - bytes
           head == [start |-> x.start, size |-> prefix]
           rest == [start |-> x.start + prefix + bytes, size |-> suffix]
           h == IF prefix = 0 THEN <<>> ELSE <<head>>
           u == IF suffix = 0 THEN <<>> ELSE <<rest>>
<1>1. x.start \in Nat /\ x.size \in Nat /\ End(x) = x.start + x.size
      /\ Bytes(x) = x.start .. End(x) - 1
  BY RangeFacts
<1>2. at \in Nat /\ x.start <= at
  BY <1>1, AlignUpFacts
<1>3. prefix = at - x.start
  BY DEF Prefix
<1>4. prefix <= x.size /\ bytes <= x.size - prefix
  BY DEF Fits
<1> HIDE DEF prefix, at
<1>5. /\ prefix \in Nat /\ suffix \in Nat /\ at = x.start + prefix
      /\ at + bytes = x.start + prefix + bytes
      /\ at + bytes + suffix = End(x)
  <2>1. prefix \in Nat /\ at = x.start + prefix
    BY <1>1, <1>2, <1>3
  <2>2. suffix \in Nat
    BY <1>1, <1>4, <2>1
  <2>3. at + bytes + suffix = End(x)
    BY <1>1, <1>4, <2>1
  <2> QED
    BY <2>1, <2>2, <2>3
<1>6. t = [start |-> at, size |-> bytes]
  BY DEF Taken, at
<1>7. t \in FreeRanges /\ t.start = at /\ End(t) = at + bytes
      /\ Bytes(t) = at .. at + bytes - 1
  BY <1>2, <1>6 DEF FreeRanges, Bytes, End
<1>8. c = h \o u
  BY DEF Split, prefix
<1> HIDE DEF suffix
<1>9. /\ h \in Seq(FreeRanges) /\ Ordered(h) /\ BytesOf(h) = x.start .. at - 1
      /\ \A i \in 1 .. Len(h) : End(h[i]) = at /\ h[i].start = x.start
  <2>1. CASE prefix = 0
    <3>1. h = <<>> /\ at = x.start
      BY <2>1, <1>5, <1>1
    <3>2. x.start .. at - 1 = {}
      BY <3>1, <1>1
    <3> HIDE DEF h
    <3>3. h \in Seq(FreeRanges) /\ Ordered(h) /\ BytesOf(h) = {}
          /\ 1 .. Len(h) = {}
      BY <3>1, NoRange
    <3> QED
      BY <3>2, <3>3
  <2>2. CASE prefix # 0
    <3>1. head \in FreeRanges /\ End(head) = at /\ head.start = x.start
      BY <2>2, <1>1, <1>5 DEF FreeRanges, End
    <3>2. Bytes(head) = x.start .. at - 1
      BY <3>1 DEF Bytes
    <3>3. h = <<head>>
      BY <2>2
    <3> HIDE DEF head, h
    <3>4. h \in Seq(FreeRanges) /\ Ordered(h) /\ BytesOf(h) = Bytes(head)
      BY <3>1, <3>3, OneRange
    <3>5. Len(h) = 1 /\ h[1] = head
      BY <3>3
    <3> QED
      BY <3>1, <3>2, <3>4, <3>5
  <2> QED
    BY <2>1, <2>2
<1>10. /\ u \in Seq(FreeRanges) /\ Ordered(u)
       /\ BytesOf(u) = at + bytes .. End(x) - 1
       /\ \A i \in 1 .. Len(u) : End(u[i]) = End(x) /\ u[i].start = at + bytes
  <2>1. CASE suffix = 0
    <3>1. u = <<>> /\ End(x) = at + bytes /\ at + bytes \in Nat
      BY <2>1, <1>2, <1>5
    <3>2. at + bytes .. End(x) - 1 = {}
      BY <3>1
    <3> HIDE DEF u
    <3>3. u \in Seq(FreeRanges) /\ Ordered(u) /\ BytesOf(u) = {}
          /\ 1 .. Len(u) = {}
      BY <3>1, NoRange
    <3> QED
      BY <3>2, <3>3
  <2>2. CASE suffix # 0
    <3>1. rest \in FreeRanges /\ End(rest) = End(x) /\ rest.start = at + bytes
      BY <2>2, <1>1, <1>5 DEF FreeRanges, End
    <3>2. Bytes(rest) = at + bytes .. End(x) - 1
      BY <3>1 DEF Bytes
    <3>3. u = <<rest>>
      BY <2>2
    <3> HIDE DEF rest, u
    <3>4. u \in Seq(FreeRanges) /\ Ordered(u) /\ BytesOf(u) = Bytes(rest)
      BY <3>1, <3>3, OneRange
    <3>5. Len(u) = 1 /\ u[1] = rest
      BY <3>3
    <3> QED
      BY <3>1, <3>2, <3>4, <3>5
  <2> QED
    BY <2>1, <2>2
<1> HIDE DEF h, u, head, rest
<1>11. Before(h, u)
  BY <1>5, <1>9, <1>10, <1>2 DEF Before
<1>12. c \in Seq(FreeRanges) /\ Ordered(c)
       /\ BytesOf(c) = BytesOf(h) \cup BytesOf(u)
  BY <1>8, <1>9, <1>10, <1>11, JoinedLists
<1>13. BytesOf(c) = Bytes(x) \ Bytes(t)
  <2>1. /\ x.start \in Nat /\ at \in Nat /\ End(x) \in Nat
        /\ x.start <= at /\ at + bytes <= End(x)
    BY <1>1, <1>2, <1>5, SMTT(30)
  <2>2. (x.start .. at - 1) \cup (at + bytes .. End(x) - 1)
          = (x.start .. End(x) - 1) \ (at .. at + bytes - 1)
    BY <2>1
  <2> QED
    BY <2>2, <1>1, <1>7, <1>9, <1>10, <1>12
<1>14. Bytes(t) \subseteq Bytes(x)
  <2>1. /\ x.start \in Nat /\ at \in Nat /\ End(x) \in Nat
        /\ x.start <= at /\ at + bytes <= End(x)
    BY <1>1, <1>2, <1>5, SMTT(30)
  <2> QED
    BY <2>1, <1>1, <1>7
<1>15. ASSUME NEW s \in Seq(FreeRanges), Before(s, <<x>>) PROVE Before(s, c)
  <2>1. \A i \in 1 .. Len(s) : End(s[i]) < x.start /\ End(s[i]) \in Nat
    BY <1>15, BeforeOne, InBytesOf, RangeFacts
  <2>2. Before(s, h)
    BY <2>1, <1>9 DEF Before
  <2>3. Before(s, u)
    <3>1. x.start < at + bytes /\ at + bytes \in Nat /\ x.start \in Nat
      BY <1>1, <1>2
    <3>2. \A j \in 1 .. Len(u) : u[j].start = at + bytes
      BY <1>10
    <3> QED
      BY <2>1, <3>1, <3>2 DEF Before
  <2> QED
    BY <2>2, <2>3, <1>8, <1>9, <1>10, BeforeJoined
<1>16. ASSUME NEW s \in Seq(FreeRanges), Before(<<x>>, s) PROVE Before(c, s)
  <2>1. \A i \in 1 .. Len(s) : End(x) < s[i].start /\ s[i].start \in Nat
    BY <1>16, BeforeOne, InBytesOf, RangeFacts
  <2>2. Before(h, s)
    <3>1. at < End(x) /\ at \in Nat /\ End(x) \in Nat
      <4>1. /\ at + (bytes + suffix) = End(x)
            /\ bytes + suffix \in Nat \ {0}
        BY <1>2, <1>5
      <4>2. \A p, q \in Nat, n \in Nat \ {0} : p + n = q => p < q
        OBVIOUS
      <4>3. at \in Nat /\ End(x) \in Nat
        BY <1>1, <1>2
      <4> QED
        BY <4>1, <4>2, <4>3
    <3>2. \A j \in 1 .. Len(h) : End(h[j]) = at
      BY <1>9
    <3> QED
      BY <2>1, <3>1, <3>2 DEF Before
  <2>3. Before(u, s)
    BY <2>1, <1>10 DEF Before
  <2> QED
    BY <2>2, <2>3, <1>8, <1>9, <1>10, JoinedBefore
<1> QED
  BY <1>7, <1>12, <1>13, <1>14, <1>15, <1>16

(* The free list after a request: the bytes of the block are gone, nothing *)
(* else, and the list is in order.                                         *)
Cut(r, i, bytes, alignment) ==
  SubSeq(r, 1, i - 1) \o Split(r[i], bytes, alignment)
  \o SubSeq(r, i + 1, Len(r))

LEMMA CutList ==
  ASSUME NEW r \in Seq(FreeRanges), Ordered(r), NEW bytes \in Nat \ {0},
         NEW alignment \in Nat \ {0}, NEW i \in Fitting(r, bytes, alignment),
         NEW k, k = Cut(r, i, bytes, alignment),
         NEW t, t = Taken(r[i], bytes, alignment)
  PROVE  /\ t \in FreeRanges /\ Bytes(t) \subseteq BytesOf(r)
         /\ k \in Seq(FreeRanges) /\ Ordered(k)
         /\ BytesOf(k) = BytesOf(r) \ Bytes(t)
<1> DEFINE b == SubSeq(r, 1, i - 1)
           a == SubSeq(r, i + 1, Len(r))
           c == Split(r[i], bytes, alignment)
<1>1. i \in 1 .. Len(r) /\ Fits(r[i], bytes, alignment)
  BY LenProperties DEF Fitting
<1>2. /\ b \in Seq(FreeRanges) /\ a \in Seq(FreeRanges)
      /\ r[i] \in FreeRanges
      /\ Ordered(b) /\ Ordered(a)
      /\ Before(b, <<r[i]>>) /\ Before(<<r[i]>>, a) /\ Before(b, a)
      /\ BytesOf(r) = BytesOf(b) \cup Bytes(r[i]) \cup BytesOf(a)
  <2>1. b = SubSeq(r, 1, i - 1) /\ a = SubSeq(r, i + 1, Len(r))
    OBVIOUS
  <2> HIDE DEF b, a
  <2> QED
    BY <1>1, <2>1, ListAround
<1>3. k = (b \o c) \o a
  BY DEF Cut
<1> HIDE DEF b, a, c
<1>4. /\ t \in FreeRanges /\ Bytes(t) \subseteq Bytes(r[i])
      /\ c \in Seq(FreeRanges) /\ Ordered(c)
      /\ BytesOf(c) = Bytes(r[i]) \ Bytes(t)
      /\ Before(b, c) /\ Before(c, a)
  BY <1>1, <1>2, SplitFacts DEF c
<1> DEFINE bc == b \o c
<1>11. bc = b \o c
  OBVIOUS
<1>12. k = bc \o a
  BY <1>3
<1> HIDE DEF bc
<1>5. /\ bc \in Seq(FreeRanges) /\ Ordered(bc)
      /\ BytesOf(bc) = BytesOf(b) \cup BytesOf(c)
  BY <1>2, <1>4, <1>11, JoinedLists
<1>6. Before(bc, a)
  <2>1. Before(bc, a) <=> Before(b, a) /\ Before(c, a)
    BY <1>2, <1>4, <1>11, JoinedBefore
  <2> QED
    BY <2>1, <1>2, <1>4
<1>7. /\ k \in Seq(FreeRanges) /\ Ordered(k)
      /\ BytesOf(k) = BytesOf(bc) \cup BytesOf(a)
  <2>1. k \in Seq(FreeRanges) /\ BytesOf(k) = BytesOf(bc) \cup BytesOf(a)
    BY <1>2, <1>5, <1>12, JoinedLists
  <2>2. Ordered(k) <=> Ordered(bc) /\ Ordered(a) /\ Before(bc, a)
    BY <1>2, <1>5, <1>12, JoinedLists
  <2> QED
    BY <2>1, <2>2, <1>2, <1>5, <1>6
<1>8. BytesOf(<<r[i]>>) = Bytes(r[i]) /\ <<r[i]>> \in Seq(FreeRanges)
  BY <1>2, OneRange
<1>9. /\ BytesOf(b) \cap Bytes(r[i]) = {}
      /\ BytesOf(a) \cap Bytes(r[i]) = {}
  BY <1>2, <1>8, BeforeApart
<1>10. BytesOf(k) = BytesOf(r) \ Bytes(t)
  BY <1>2, <1>4, <1>5, <1>7, <1>9
<1> QED
  BY <1>2, <1>4, <1>7, <1>10

LEMMA LeastOfNaturals ==
  ASSUME NEW S, S \subseteq Nat, S # {}
  PROVE  Min(S) \in S /\ \A y \in S : Min(S) <= y
<1> DEFINE Less == OpToRel(<, Nat)
<1>1. \A x, y \in Nat : <<y, x>> \in Less <=> y < x
  BY DEF OpToRel
<1>2. IsWellFoundedOn(Less, Nat)
  BY NatLessThanWellFounded
<1> HIDE DEF Less
<1>3. PICK x \in S : \A y \in S : ~ (<<y, x>> \in Less)
  BY <1>2, WFMin
<1>4. ASSUME NEW y \in S PROVE x <= y
  <2>1. x \in Nat /\ y \in Nat
    OBVIOUS
  <2>2. ~ (y < x)
    BY <1>1, <1>3, <2>1
  <2> QED
    BY <2>1, <2>2
<1> QED
  BY <1>4 DEF Min

(* b is the beginning of r up to m, a the rest from n on.                  *)
Ends(r, m, n, b, a) ==
  /\ b \in Seq(FreeRanges) /\ a \in Seq(FreeRanges)
  /\ Ordered(b) /\ Ordered(a) /\ Before(b, a)
  /\ \A i \in 1 .. Len(b) : i \in 1 .. m /\ b[i] = r[i]
  /\ \A j \in 1 .. Len(a) : \E i \in n .. Len(r) : a[j] = r[i]
  /\ BytesOf(b) = UNION {Bytes(r[i]) : i \in 1 .. m}
  /\ BytesOf(a) = UNION {Bytes(r[i]) : i \in n .. Len(r)}

LEMMA ListPieces ==
  ASSUME NEW r \in Seq(FreeRanges), Ordered(r),
         NEW m \in 0 .. Len(r), NEW n \in m + 1 .. Len(r) + 1,
         NEW b, b = SubSeq(r, 1, m), NEW a, a = SubSeq(r, n, Len(r))
  PROVE  Ends(r, m, n, b, a)
<1>1. Len(r) \in Nat /\ m \in Nat /\ n \in Nat
      /\ \A i \in 1 .. Len(r) : r[i] \in FreeRanges
  BY InBytesOf
<1>2. /\ b \in Seq(FreeRanges) /\ Len(b) = m
      /\ \A i \in 1 .. m : b[i] = r[i]
  <2>1. \A i \in 1 .. m : r[i] \in FreeRanges
    BY <1>1
  <2>2. 1 \in Int /\ m \in Int /\ m - 1 + 1 = m
    BY <1>1
  <2>3. /\ SubSeq(r, 1, m) \in Seq(FreeRanges)
        /\ Len(SubSeq(r, 1, m)) = IF 1 <= m THEN m - 1 + 1 ELSE 0
        /\ \A i \in 1 .. m - 1 + 1 : SubSeq(r, 1, m)[i] = r[1 + i - 1]
    BY <2>1, <2>2, SubSeqProperties
  <2> QED
    BY <2>2, <2>3, <1>1
<1>3. /\ a \in Seq(FreeRanges) /\ Len(a) = Len(r) + 1 - n
      /\ \A j \in 1 .. Len(r) - n + 1 : a[j] = r[n + j - 1]
  <2>1. \A i \in n .. Len(r) : r[i] \in FreeRanges
    BY <1>1
  <2>2. Len(r) \in Int /\ n \in Int
    BY <1>1
  <2>3. /\ SubSeq(r, n, Len(r)) \in Seq(FreeRanges)
        /\ Len(SubSeq(r, n, Len(r))) =
             IF n <= Len(r) THEN Len(r) - n + 1 ELSE 0
        /\ \A i \in 1 .. Len(r) - n + 1 :
             SubSeq(r, n, Len(r))[i] = r[n + i - 1]
    BY <2>1, <2>2, SubSeqProperties
  <2> QED
    BY <2>2, <2>3, <1>1
<1>4. \A i \in 1 .. Len(b) : i \in 1 .. m /\ i \in 1 .. Len(r) /\ b[i] = r[i]
  BY ONLY <1>1, <1>2, m \in 0 .. Len(r)
<1>5. ASSUME NEW j \in 1 .. Len(a)
      PROVE  /\ n + j - 1 \in n .. Len(r) /\ n + j - 1 \in 1 .. Len(r)
             /\ a[j] = r[n + j - 1]
  <2>1. j \in 1 .. Len(r) + 1 - n /\ j \in 1 .. Len(r) - n + 1
    BY <1>1, <1>3
  <2> QED
    BY <1>1, <1>3, <2>1
<1>6. Ordered(b)
  BY ONLY <1>4, Ordered(r) DEF Ordered
<1>7. Ordered(a)
  <2> SUFFICES ASSUME NEW i \in 1 .. Len(a), NEW j \in 1 .. Len(a), i < j
               PROVE  End(a[i]) < a[j].start
    BY DEF Ordered
  <2>1. n + i - 1 < n + j - 1
    BY <1>1, <1>3
  <2> QED
    BY <1>5, <2>1 DEF Ordered
<1>8. Before(b, a)
  <2> SUFFICES ASSUME NEW i \in 1 .. Len(b), NEW j \in 1 .. Len(a)
               PROVE  End(b[i]) < a[j].start
    BY DEF Before
  <2>1. i < n + j - 1
    BY <1>1, <1>4, <1>5
  <2> QED
    BY <1>4, <1>5, <2>1 DEF Ordered
<1>9. BytesOf(b) = UNION {Bytes(r[i]) : i \in 1 .. m}
  <2>1. DOMAIN b = 1 .. m
    BY <1>2, LenProperties
  <2> QED
    BY ONLY <1>2, <2>1 DEF BytesOf
<1>10. BytesOf(a) = UNION {Bytes(r[i]) : i \in n .. Len(r)}
  <2>1. ASSUME NEW x \in BytesOf(a)
        PROVE  x \in UNION {Bytes(r[i]) : i \in n .. Len(r)}
    <3>1. PICK j \in 1 .. Len(a) : x \in Bytes(a[j])
      BY <1>3, InBytesOf
    <3> QED
      BY <1>5, <3>1
  <2>2. ASSUME NEW i \in n .. Len(r) PROVE Bytes(r[i]) \subseteq BytesOf(a)
    <3>1. i - n + 1 \in 1 .. Len(r) - n + 1 /\ n + (i - n + 1) - 1 = i
          /\ i - n + 1 \in 1 .. Len(a)
      BY <1>1, <1>3
    <3>2. a[i - n + 1] = r[i]
      BY <1>3, <3>1
    <3> QED
      BY <1>3, <3>1, <3>2, InBytesOf
  <2> QED
    BY <2>1, <2>2
<1>11. \A j \in 1 .. Len(a) : \E i \in n .. Len(r) : a[j] = r[i]
  BY <1>5
<1> QED
  BY <1>2, <1>3, <1>4, <1>6, <1>7, <1>8, <1>9, <1>10, <1>11 DEF Ends

(* Where FreeRange puts a range, and how far it reaches to both sides.     *)
Position(r, f) ==
  Min({i \in 1 .. Len(r) + 1 : i <= Len(r) => r[i].start >= f.start})
JoinsLeft(r, f) ==
  Position(r, f) > 1 /\ End(r[Position(r, f) - 1]) = f.start
JoinsRight(r, f) ==
  Position(r, f) <= Len(r) /\ End(f) = r[Position(r, f)].start

(* Every range before the position ends before f, every other one begins   *)
(* behind it.                                                              *)
LEMMA PositionFacts ==
  ASSUME NEW r \in Seq(FreeRanges), Ordered(r), NEW f \in FreeRanges,
         Bytes(f) \cap BytesOf(r) = {}, NEW p, p = Position(r, f)
  PROVE  /\ p \in 1 .. Len(r) + 1
         /\ \A i \in 1 .. Len(r) : i < p => End(r[i]) <= f.start
         /\ \A i \in 1 .. Len(r) : p <= i => End(f) <= r[i].start
<1>1. Len(r) \in Nat /\ \A i \in 1 .. Len(r) : r[i] \in FreeRanges
  BY InBytesOf
<1> DEFINE S == {i \in 1 .. Len(r) + 1 : i <= Len(r) => r[i].start >= f.start}
<1>2. S \subseteq Nat /\ Len(r) + 1 \in S
  BY <1>1
<1>3. p \in S /\ \A y \in S : p <= y
  BY <1>2, LeastOfNaturals DEF Position
<1>4. p \in 1 .. Len(r) + 1 /\ p \in Nat
  BY <1>1, <1>3
<1>5. \A i \in 1 .. Len(r) : i < p => r[i].start < f.start
  <2> SUFFICES ASSUME NEW i \in 1 .. Len(r), i < p
               PROVE  r[i].start < f.start
    OBVIOUS
  <2>1. i \notin S
    BY <1>1, <1>3, <1>4
  <2>2. ~ (r[i].start >= f.start)
    BY <1>1, <2>1
  <2>3. r[i].start \in Nat /\ f.start \in Nat
    BY <1>1, RangeFacts
  <2> QED
    BY <2>2, <2>3
<1>6. \A i \in 1 .. Len(r) : p <= i => f.start <= r[i].start
  <2> SUFFICES ASSUME NEW i \in 1 .. Len(r), p <= i
               PROVE  f.start <= r[i].start
    OBVIOUS
  <2>1. p \in 1 .. Len(r) /\ r[p].start >= f.start
    BY <1>1, <1>3, <1>4
  <2>2. /\ f.start \in Nat /\ r[p].start \in Nat /\ r[i].start \in Nat
        /\ End(r[p]) \in Nat /\ r[p].start < End(r[p])
    BY <1>1, <2>1, RangeFacts
  <2>3. p = i \/ End(r[p]) < r[i].start
    BY <1>4, <2>1 DEF Ordered
  <2> QED
    BY <2>1, <2>2, <2>3
<1> HIDE DEF S
<1>7. ASSUME NEW i \in 1 .. Len(r)
      PROVE  /\ r[i].start \in Nat /\ End(r[i]) \in Nat
             /\ Bytes(r[i]) = r[i].start .. End(r[i]) - 1
             /\ Bytes(r[i]) \cap Bytes(f) = {}
  BY <1>1, RangeFacts, InBytesOf
<1>8. /\ f.start \in Nat /\ End(f) \in Nat /\ f.start < End(f)
      /\ Bytes(f) = f.start .. End(f) - 1
  BY RangeFacts
<1>9. ASSUME NEW i \in 1 .. Len(r), i < p PROVE End(r[i]) <= f.start
  <2>1. r[i].start < f.start
    BY <1>5, <1>9
  <2>2. SUFFICES ASSUME f.start < End(r[i]) PROVE FALSE
    BY <1>7, <1>8
  <2>3. f.start \in Bytes(r[i]) /\ f.start \in Bytes(f)
    BY <1>7, <1>8, <2>1, <2>2
  <2> QED
    BY <1>7, <2>3
<1>10. ASSUME NEW i \in 1 .. Len(r), p <= i PROVE End(f) <= r[i].start
  <2>1. f.start <= r[i].start
    BY <1>6, <1>10
  <2>2. SUFFICES ASSUME r[i].start < End(f) PROVE FALSE
    BY <1>7, <1>8
  <2>3. r[i].start < End(r[i])
    BY <1>1, RangeFacts
  <2>4. r[i].start \in Bytes(r[i]) /\ r[i].start \in Bytes(f)
    BY <1>7, <1>8, <2>1, <2>2, <2>3
  <2> QED
    BY <1>7, <2>4
<1> QED
  BY <1>4, <1>9, <1>10

(* What was freed is free, nothing else changed, and neighbours are one.   *)
LEMMA FreeRangeFacts ==
  ASSUME NEW r \in Seq(FreeRanges), Ordered(r), NEW f \in FreeRanges,
         Bytes(f) \cap BytesOf(r) = {}, NEW k, k = FreeRange(r, f)
  PROVE  /\ k \in Seq(FreeRanges) /\ Ordered(k)
         /\ BytesOf(k) = BytesOf(r) \cup Bytes(f)
<1> DEFINE p == Position(r, f)
           left == JoinsLeft(r, f)
           right == JoinsRight(r, f)
           m == IF left THEN p - 2 ELSE p - 1
           n == IF right THEN p + 1 ELSE p
           first == IF left THEN r[p - 1].start ELSE f.start
           next == IF right THEN End(r[p]) ELSE End(f)
           b == SubSeq(r, 1, m)
           a == SubSeq(r, n, Len(r))
           x == [start |-> first, size |-> next - first]
           bx == b \o <<x>>
<1>1. k = bx \o a
  BY DEF FreeRange, Position, JoinsLeft, JoinsRight
<1>2. /\ p \in 1 .. Len(r) + 1
      /\ \A i \in 1 .. Len(r) : i < p => End(r[i]) <= f.start
      /\ \A i \in 1 .. Len(r) : p <= i => End(f) <= r[i].start
  <2>1. p = Position(r, f)
    OBVIOUS
  <2> HIDE DEF p
  <2> QED
    BY <2>1, PositionFacts
<1>3. /\ left <=> p > 1 /\ End(r[p - 1]) = f.start
      /\ right <=> p <= Len(r) /\ End(f) = r[p].start
  BY DEF JoinsLeft, JoinsRight
<1> HIDE DEF p, left, right
<1>4. Len(r) \in Nat /\ p \in Nat
  BY <1>2, InBytesOf
<1>5. ASSUME NEW i \in 1 .. Len(r)
      PROVE  /\ r[i].start \in Nat /\ End(r[i]) \in Nat
             /\ r[i].start < End(r[i])
             /\ Bytes(r[i]) = r[i].start .. End(r[i]) - 1
  BY RangeFacts, InBytesOf
<1>6. /\ f.start \in Nat /\ End(f) \in Nat /\ f.start < End(f)
      /\ Bytes(f) = f.start .. End(f) - 1
  BY RangeFacts
<1>7. m \in 0 .. Len(r) /\ n \in m + 1 .. Len(r) + 1
  BY <1>2, <1>3, <1>4
<1>8. left => p - 1 \in 1 .. Len(r) /\ p - 1 < p
  BY <1>2, <1>3, <1>4
<1>9. right => p \in 1 .. Len(r)
  BY <1>2, <1>3, <1>4
<1>10. first \in Nat /\ first <= f.start
  <2>1. CASE left
    <3>1. r[p - 1].start \in Nat /\ r[p - 1].start < f.start
      BY <1>3, <1>5, <1>8, <2>1
    <3> QED
      BY <2>1, <3>1, <1>6
  <2>2. CASE ~left
    BY <2>2, <1>6
  <2> QED
    BY <2>1, <2>2
<1>11. next \in Nat /\ End(f) <= next
  <2>1. CASE right
    <3>1. End(r[p]) \in Nat /\ End(f) < End(r[p])
      BY <1>3, <1>5, <1>9, <2>1
    <3> QED
      BY <2>1, <3>1, <1>6
  <2>2. CASE ~right
    BY <2>2, <1>6
  <2> QED
    BY <2>1, <2>2
<1>12. \A i \in 1 .. m : End(r[i]) < first
  <2> SUFFICES ASSUME NEW i \in 1 .. m PROVE End(r[i]) < first
    OBVIOUS
  <2>1. i \in 1 .. Len(r) /\ i < p
    BY <1>4, <1>7
  <2>2. CASE left
    <3>1. i < p - 1 /\ p - 1 \in 1 .. Len(r)
      BY <1>4, <1>8, <2>2
    <3> QED
      BY <2>1, <2>2, <3>1 DEF Ordered
  <2>3. CASE ~left /\ i = p - 1
    <3>1. End(r[i]) <= f.start /\ End(r[i]) # f.start /\ End(r[i]) \in Nat
      BY <1>2, <1>3, <1>4, <1>5, <2>1, <2>3
    <3> QED
      BY <2>3, <3>1, <1>6
  <2>4. CASE ~left /\ i # p - 1
    <3>1. i < p - 1 /\ p - 1 \in 1 .. Len(r) /\ p - 1 < p
      BY <1>2, <1>4, <2>1, <2>4
    <3>2. End(r[i]) < r[p - 1].start
      BY <2>1, <3>1 DEF Ordered
    <3>3. End(r[p - 1]) <= f.start /\ r[p - 1].start < End(r[p - 1])
          /\ r[p - 1].start \in Nat /\ End(r[p - 1]) \in Nat
          /\ End(r[i]) \in Nat
      BY <1>2, <1>5, <2>1, <3>1
    <3> QED
      BY <2>4, <3>2, <3>3, <1>6
  <2> QED
    BY <2>2, <2>3, <2>4
<1>13. \A i \in n .. Len(r) : next < r[i].start
  <2> SUFFICES ASSUME NEW i \in n .. Len(r) PROVE next < r[i].start
    OBVIOUS
  <2>1. i \in 1 .. Len(r) /\ p <= i
    BY <1>4, <1>7
  <2>2. CASE right
    <3>1. p < i /\ p \in 1 .. Len(r)
      BY <1>4, <1>9, <2>2
    <3> QED
      BY <2>1, <2>2, <3>1 DEF Ordered
  <2>3. CASE ~right /\ i = p
    <3>1. End(f) <= r[i].start /\ End(f) # r[i].start /\ r[i].start \in Nat
      BY <1>2, <1>3, <1>4, <1>5, <2>1, <2>3
    <3> QED
      BY <2>3, <3>1, <1>6
  <2>4. CASE ~right /\ i # p
    <3>1. p < i /\ p \in 1 .. Len(r)
      BY <1>2, <1>4, <2>1, <2>4
    <3>2. End(r[p]) < r[i].start
      BY <2>1, <3>1 DEF Ordered
    <3>3. End(f) <= r[p].start /\ r[p].start < End(r[p])
          /\ r[p].start \in Nat /\ End(r[p]) \in Nat
          /\ r[i].start \in Nat
      BY <1>2, <1>4, <1>5, <2>1, <3>1
    <3> QED
      BY <2>4, <3>2, <3>3, <1>6
  <2> QED
    BY <2>2, <2>3, <2>4
<1>14. x \in FreeRanges /\ End(x) = next /\ x.start = first
       /\ Bytes(x) = first .. next - 1
  <2>1. first < next
    BY <1>6, <1>10, <1>11
  <2> HIDE DEF first, next
  <2> QED
    BY <2>1, <1>10, <1>11 DEF FreeRanges, End, Bytes
<1>15. b = SubSeq(r, 1, m) /\ a = SubSeq(r, n, Len(r)) /\ bx = b \o <<x>>
  OBVIOUS
<1>16. /\ first = IF left THEN r[p - 1].start ELSE f.start
       /\ next = IF right THEN End(r[p]) ELSE End(f)
       /\ m = IF left THEN p - 2 ELSE p - 1
       /\ n = IF right THEN p + 1 ELSE p
  OBVIOUS
<1> HIDE DEF first, next, b, a, bx, x, m, n
<1>17. /\ b \in Seq(FreeRanges) /\ a \in Seq(FreeRanges)
       /\ Ordered(b) /\ Ordered(a) /\ Before(b, a)
       /\ \A i \in 1 .. Len(b) : i \in 1 .. m /\ b[i] = r[i]
       /\ \A j \in 1 .. Len(a) : \E i \in n .. Len(r) : a[j] = r[i]
       /\ BytesOf(b) = UNION {Bytes(r[i]) : i \in 1 .. m}
       /\ BytesOf(a) = UNION {Bytes(r[i]) : i \in n .. Len(r)}
  <2>1. b = SubSeq(r, 1, m) /\ a = SubSeq(r, n, Len(r))
    BY <1>15
  <2>2. r \in Seq(FreeRanges) /\ Ordered(r)
    OBVIOUS
  <2> QED
    <3>1. Ends(r, m, n, b, a)
      BY ONLY <1>7, <2>1, <2>2, ListPieces
    <3> QED
      BY ONLY <3>1 DEF Ends
<1>18. Before(b, <<x>>)
  <2>1. \A i \in 1 .. Len(b) : End(b[i]) < x.start
    BY ONLY <1>12, <1>14, <1>17
  <2> QED
    BY ONLY <2>1, <1>14, <1>17, BeforeOne
<1>19. Before(<<x>>, a)
  <2>1. \A i \in 1 .. Len(a) : End(x) < a[i].start
    BY ONLY <1>13, <1>14, <1>17
  <2> QED
    BY ONLY <2>1, <1>14, <1>17, BeforeOne
<1>20. <<x>> \in Seq(FreeRanges) /\ Ordered(<<x>>)
       /\ BytesOf(<<x>>) = Bytes(x)
  BY <1>14, OneRange
<1> DEFINE y == <<x>>
<1>21. y = <<x>>
  OBVIOUS
<1> HIDE DEF y
<1>22. /\ bx \in Seq(FreeRanges)
       /\ Ordered(bx) <=> Ordered(b) /\ Ordered(y) /\ Before(b, y)
       /\ BytesOf(bx) = BytesOf(b) \cup BytesOf(y)
  <2>1. y \in Seq(FreeRanges) /\ b \in Seq(FreeRanges)
    BY <1>17, <1>20, <1>21
  <2>2. bx = b \o y
    BY <1>15, <1>21
  <2> QED
    BY ONLY <2>1, <2>2, JoinedLists
<1>23. Before(bx, a)
  <2>1. y \in Seq(FreeRanges) /\ b \in Seq(FreeRanges)
    BY <1>17, <1>20, <1>21
  <2>2. bx = b \o y
    BY <1>15, <1>21
  <2>3. Before(b, a) /\ Before(y, a)
    BY <1>17, <1>19, <1>21
  <2> QED
    BY ONLY <2>1, <2>2, <2>3, JoinedBefore
<1>24. /\ k \in Seq(FreeRanges)
       /\ Ordered(k) <=> Ordered(bx) /\ Ordered(a) /\ Before(bx, a)
       /\ BytesOf(k) = BytesOf(bx) \cup BytesOf(a)
  <2>1. bx \in Seq(FreeRanges) /\ a \in Seq(FreeRanges)
    BY <1>17, <1>22
  <2> QED
    BY ONLY <1>1, <2>1, JoinedLists
<1>25. Ordered(k)
  BY <1>17, <1>18, <1>20, <1>21, <1>22, <1>23, <1>24
<1>26. BytesOf(k) = BytesOf(b) \cup Bytes(x) \cup BytesOf(a)
  BY <1>20, <1>21, <1>22, <1>24
<1>27. Bytes(f) \subseteq Bytes(x)
  BY <1>6, <1>10, <1>11, <1>14
<1>28. left => r[p - 1].start = first /\ End(r[p - 1]) = f.start
  BY <1>3, <1>16
<1>29. right => r[p].start = End(f) /\ End(r[p]) = next
  BY <1>3, <1>16
<1>30. left => Bytes(r[p - 1]) \subseteq Bytes(x)
  <2> SUFFICES ASSUME left PROVE Bytes(r[p - 1]) \subseteq Bytes(x)
    OBVIOUS
  <2>1. Bytes(r[p - 1]) = first .. f.start - 1
    BY <1>5, <1>8, <1>28
  <2> QED
    BY <2>1, <1>6, <1>10, <1>11, <1>14
<1>31. right => Bytes(r[p]) \subseteq Bytes(x)
  <2> SUFFICES ASSUME right PROVE Bytes(r[p]) \subseteq Bytes(x)
    OBVIOUS
  <2>1. Bytes(r[p]) = End(f) .. next - 1
    BY <1>5, <1>9, <1>29
  <2> QED
    BY <2>1, <1>6, <1>10, <1>11, <1>14
<1>32. ASSUME NEW z \in BytesOf(r) PROVE z \in BytesOf(k)
  <2>1. PICK i \in 1 .. Len(r) : z \in Bytes(r[i])
    BY InBytesOf
  <2>2. i \in 1 .. m \/ i \in n .. Len(r) \/ (left /\ i = p - 1)
        \/ (right /\ i = p)
    BY <1>4, <1>7, <1>16
  <2>3. CASE i \in 1 .. m
    BY <2>1, <2>3, <1>17, <1>26
  <2>4. CASE i \in n .. Len(r)
    BY <2>1, <2>4, <1>17, <1>26
  <2>5. CASE left /\ i = p - 1
    BY <2>1, <2>5, <1>30, <1>26
  <2>6. CASE right /\ i = p
    BY <2>1, <2>6, <1>31, <1>26
  <2> QED
    BY <2>2, <2>3, <2>4, <2>5, <2>6
<1>33. ASSUME NEW z \in BytesOf(k) PROVE z \in BytesOf(r) \cup Bytes(f)
  <2>1. CASE z \in BytesOf(b)
    <3>1. PICK i \in 1 .. m : z \in Bytes(r[i])
      BY <1>17, <2>1
    <3>2. i \in 1 .. Len(r)
      BY <1>4, <1>7
    <3> QED
      BY <3>1, <3>2, InBytesOf
  <2>2. CASE z \in BytesOf(a)
    <3>1. PICK i \in n .. Len(r) : z \in Bytes(r[i])
      BY <1>17, <2>2
    <3>2. i \in 1 .. Len(r)
      BY <1>4, <1>7
    <3> QED
      BY <3>1, <3>2, InBytesOf
  <2>3. CASE z \in Bytes(x)
    <3>1. z \in Nat /\ first <= z /\ z < next
      BY <1>10, <1>11, <1>14, <2>3
    <3>2. CASE z < f.start
      <4>1. left
        BY <1>16, <3>1, <3>2, <1>6
      <4>2. z \in Bytes(r[p - 1])
        BY <4>1, <1>5, <1>6, <1>8, <1>28, <3>1, <3>2
      <4> QED
        BY <4>1, <4>2, <1>8, InBytesOf
    <3>3. CASE End(f) <= z
      <4>1. right
        BY <1>16, <3>1, <3>3, <1>6
      <4>2. z \in Bytes(r[p])
        BY <4>1, <1>5, <1>6, <1>9, <1>29, <3>1, <3>3
      <4> QED
        BY <4>1, <4>2, <1>9, InBytesOf
    <3>4. CASE f.start <= z /\ z < End(f)
      BY <3>1, <3>4, <1>6
    <3> QED
      BY <3>1, <3>2, <3>3, <3>4, <1>6
  <2> QED
    BY <1>26, <1>33, <2>1, <2>2, <2>3
<1>34. BytesOf(k) = BytesOf(r) \cup Bytes(f)
  BY <1>26, <1>27, <1>32, <1>33
<1> QED
  BY <1>24, <1>25, <1>34

LEMMA SetInduction ==
  ASSUME NEW S, S \subseteq Nat, 0 \in S, \A n \in S : n + 1 \in S
  PROVE  S = Nat
<1> DEFINE Less == OpToRel(<, Nat)
           Rest == Nat \ S
<1>1. SUFFICES ASSUME Rest # {} PROVE FALSE
  OBVIOUS
<1>2. \E x \in Rest : \A y \in Rest : ~ (<<y, x>> \in Less)
  <2> HIDE DEF Less
  <2>1. IsWellFoundedOn(Less, Nat)
    BY NatLessThanWellFounded DEF Less
  <2> QED
    BY <1>1, <2>1, WFMin
<1>3. \A x, y \in Nat : <<y, x>> \in Less <=> y < x
  BY DEF OpToRel
<1>4. PICK x \in Rest : \A y \in Rest : ~ (<<y, x>> \in Less)
  BY <1>2
<1> HIDE DEF Less
<1>5. \A y \in Rest : ~ (y < x)
  BY <1>3, <1>4
<1>6. x \in Nat /\ x # 0
  BY <1>4
<1>7. x - 1 \in Nat /\ x - 1 < x /\ (x - 1) + 1 = x
  BY <1>6
<1>8. x - 1 \in S
  BY <1>5, <1>7
<1> QED
  BY <1>4, <1>7, <1>8

-----------------------------------------------------------------------------
(* Sequences that lose entries.                                            *)

Once(s, x) == \E i \in 1 .. Len(s) : \A j \in 1 .. Len(s) : s[j] = x <=> j = i
Absent(s, x) == \A i \in 1 .. Len(s) : s[i] # x

(* The first i entries of s without gone.                                  *)

-----------------------------------------------------------------------------
(* Counting.                                                               *)

LEMMA CountOfRange ==
  ASSUME NEW x \in FreeRanges
  PROVE  IsFiniteSet(Bytes(x)) /\ Cardinality(Bytes(x)) = x.size
<1>1. /\ x.start \in Nat /\ End(x) \in Nat /\ x.size \in Nat
      /\ x.start < End(x) /\ End(x) = x.start + x.size
      /\ Bytes(x) = x.start .. End(x) - 1
  BY RangeFacts
<1>2. x.start \in Int /\ End(x) - 1 \in Int /\ ~ (x.start > End(x) - 1)
      /\ End(x) - 1 - x.start + 1 = x.size
  BY <1>1
<1>3. /\ IsFiniteSet(x.start .. End(x) - 1)
      /\ Cardinality(x.start .. End(x) - 1) = End(x) - 1 - x.start + 1
  BY <1>2, FS_Interval
<1> QED
  BY <1>1, <1>2, <1>3

LEMMA CountWithout ==
  ASSUME NEW S, IsFiniteSet(S), NEW x \in FreeRanges, Bytes(x) \subseteq S
  PROVE  /\ Cardinality(S \ Bytes(x)) = Cardinality(S) - x.size
         /\ Cardinality(S) \in Nat /\ x.size <= Cardinality(S)
<1>1. S \cap Bytes(x) = Bytes(x) /\ Bytes(x) \in SUBSET S
  OBVIOUS
<1>2. Cardinality(S \ Bytes(x)) = Cardinality(S) - x.size
  <2>1. Cardinality(S \ Bytes(x))
          = Cardinality(S) - Cardinality(S \cap Bytes(x))
    BY FS_Difference
  <2> QED
    BY <2>1, <1>1, CountOfRange
<1>3. Cardinality(S) \in Nat /\ x.size <= Cardinality(S)
  BY <1>1, CountOfRange, FS_Subset, FS_CardinalityType
<1> QED
  BY <1>2, <1>3

LEMMA CountWith ==
  ASSUME NEW S, IsFiniteSet(S), NEW x \in FreeRanges, Bytes(x) \cap S = {}
  PROVE  Cardinality(S \cup Bytes(x)) = Cardinality(S) + x.size
<1>1. S \cap Bytes(x) = {} /\ Cardinality({}) = 0
  BY FS_EmptySet
<1>2. Cardinality(S) \in Nat /\ x.size \in Nat
  BY FS_CardinalityType, RangeFacts
<1> QED
  BY <1>1, <1>2, CountOfRange, FS_Union

LEMMA MaxIs ==
  ASSUME NEW S, S \subseteq Int, NEW m \in S, \A y \in S : m >= y
  PROVE  Max(S) = m
<1>1. \E x \in S : \A y \in S : x >= y
  OBVIOUS
<1>2. Max(S) \in S /\ \A y \in S : Max(S) >= y
  BY <1>1 DEF Max
<1>3. Max(S) \in Int /\ m \in Int /\ Max(S) >= m /\ m >= Max(S)
  BY <1>2
<1> QED
  BY <1>3

LEMMA MinOfTwo ==
  ASSUME NEW a \in Int, NEW b \in Int
  PROVE  Min({a, b}) = IF a <= b THEN a ELSE b
<1> DEFINE m == IF a <= b THEN a ELSE b
<1>1. m \in {a, b} /\ \A y \in {a, b} : m <= y
  OBVIOUS
<1>2. Min({a, b}) \in {a, b} /\ \A y \in {a, b} : Min({a, b}) <= y
  BY <1>1 DEF Min
<1>3. Min({a, b}) \in Int /\ m \in Int /\ Min({a, b}) <= m /\ m <= Min({a, b})
  BY <1>1, <1>2
<1> QED
  BY <1>3

(* The largest free block is that of a range, or 0, and none is larger.    *)
LEMMA LargestFacts ==
  ASSUME NEW r \in Seq(FreeRanges)
  PROVE  Largest(r) \in Nat
<1>1. Len(r) \in Nat /\ DOMAIN r = 1 .. Len(r)
      /\ \A i \in 1 .. Len(r) : r[i] \in FreeRanges
  BY InBytesOf, LenProperties
<1> DEFINE Upto(n) == {0} \cup {r[i].size : i \in 1 .. n}
           T == {n \in Nat : n <= Len(r) =>
                   \E m \in Upto(n) : m \in Nat /\ \A y \in Upto(n) : m >= y}
<1>2. 0 \in T
  OBVIOUS
<1>3. ASSUME NEW n \in T PROVE n + 1 \in T
  <2>1. n \in Nat
    OBVIOUS
  <2>2. SUFFICES ASSUME n + 1 <= Len(r)
                 PROVE  \E m \in Upto(n + 1) :
                          m \in Nat /\ \A y \in Upto(n + 1) : m >= y
    BY <2>1
  <2>3. PICK m \in Upto(n) : m \in Nat /\ \A y \in Upto(n) : m >= y
    BY <1>1, <2>1, <2>2
  <2>4. r[n + 1].size \in Nat /\ Upto(n + 1) = Upto(n) \cup {r[n + 1].size}
    <3>1. 1 .. n + 1 = (1 .. n) \cup {n + 1} /\ n + 1 \in 1 .. Len(r)
      BY <1>1, <2>1, <2>2
    <3> QED
      BY <1>1, <3>1, RangeFacts
  <2> HIDE DEF Upto, T
  <2>5. CASE m >= r[n + 1].size
    <3>1. m \in Upto(n + 1) /\ \A y \in Upto(n + 1) : m >= y
      BY <2>3, <2>4, <2>5
    <3> QED
      BY <2>3, <3>1
  <2>6. CASE ~ (m >= r[n + 1].size)
    <3> DEFINE z == r[n + 1].size
    <3>1. \A y \in Upto(n) : y \in Nat
      BY <1>1, <2>1, <2>2, RangeFacts DEF Upto
    <3>2. z \in Upto(n + 1) /\ z \in Nat /\ z > m
      BY <2>3, <2>4, <2>6
    <3> HIDE DEF z
    <3>3. \A y \in Upto(n) : z >= y
      BY <2>3, <3>1, <3>2
    <3>4. \A y \in Upto(n + 1) : z >= y
      BY <2>4, <3>2, <3>3 DEF z
    <3> QED
      BY <3>2, <3>4
  <2> QED
    BY <2>3, <2>4, <2>5, <2>6
<1>4. Len(r) \in T
  <2> HIDE DEF T
  <2>1. T = Nat
    <3>1. T \subseteq Nat
      BY DEF T
    <3> QED
      BY <1>2, <1>3, <3>1, SetInduction
  <2> QED
    BY <1>1, <2>1
<1>5. PICK m \in Upto(Len(r)) : m \in Nat /\ \A y \in Upto(Len(r)) : m >= y
  BY <1>1, <1>4
<1>6. Upto(Len(r)) \subseteq Int
  BY <1>1, RangeFacts
<1>7. Largest(r) = Max(Upto(Len(r)))
  BY <1>1 DEF Largest
<1> HIDE DEF Upto, T
<1>8. Max(Upto(Len(r))) = m
  BY <1>5, <1>6, MaxIs
<1> QED
  BY <1>5, <1>7, <1>8

-----------------------------------------------------------------------------
(* The free list that initializePool builds.                               *)

LEMMA ProductGrows ==
  ASSUME NEW a \in Nat, NEW b \in Nat, NEW c \in Nat, a <= b
  PROVE  a * c <= b * c /\ a * c \in Nat /\ b * c \in Nat
<1>1. PICK d \in Nat : b = a + d
  <2>1. b - a \in Nat /\ b = a + (b - a)
    OBVIOUS
  <2> QED
    BY <2>1
<1>2. (a + d) * c = a * c + d * c
  OBVIOUS
<1>3. a * c \in Nat /\ d * c \in Nat /\ b * c \in Nat
  OBVIOUS
<1> QED
  BY <1>1, <1>2, <1>3

LEMMA Division ==
  ASSUME NEW n \in Nat, NEW c \in Nat \ {0}
  PROVE  /\ n \div c \in Nat /\ (n \div c) * c \in Nat
         /\ (n \div c) * c <= n /\ n < (n \div c) * c + c
<1> DEFINE q == n \div c
           r == n % c
<1>1. q \in Nat /\ r \in Nat /\ r < c /\ n = c * q + r
  OBVIOUS
<1> HIDE DEF q, r
<1>2. q * c = c * q /\ q * c \in Nat
  BY <1>1
<1>3. q * c <= n /\ n < q * c + c
  BY <1>1, <1>2
<1> QED
  BY <1>1, <1>2, <1>3 DEF q

LEMMA Quotient ==
  ASSUME NEW n \in Nat, NEW c \in Nat \ {0}, NEW q \in Nat,
         q * c <= n, n < q * c + c
  PROVE  n \div c = q
<1> DEFINE p == n \div c
<1>1. p \in Nat /\ p * c \in Nat /\ p * c <= n /\ n < p * c + c
  BY Division
<1> HIDE DEF p
<1>2. q * c \in Nat /\ (p + 1) * c = p * c + c /\ (q + 1) * c = q * c + c
  BY <1>1
<1>3. ~ (p + 1 <= q)
  <2> SUFFICES ASSUME p + 1 <= q PROVE FALSE
    OBVIOUS
  <2>1. (p + 1) * c <= q * c
    BY <1>1, ProductGrows
  <2> QED
    BY <1>1, <1>2, <2>1
<1>4. ~ (q + 1 <= p)
  <2> SUFFICES ASSUME q + 1 <= p PROVE FALSE
    OBVIOUS
  <2>1. (q + 1) * c <= p * c
    BY <1>1, ProductGrows
  <2> QED
    BY <1>1, <1>2, <2>1
<1>5. p = q
  BY <1>1, <1>3, <1>4
<1> QED
  BY <1>5 DEF p

(* Chunk i starts behind i - 1 whole chunks and gaps.                      *)
IsChunk(x, i, free, chunk) ==
  LET before == (i - 1) * chunk
  IN  /\ before \in Nat /\ before < free
      /\ x.start = before + (i - 1)
      /\ x.size = IF chunk <= free - before THEN chunk ELSE free - before

LEMMA ChunkFacts ==
  ASSUME NEW free \in Nat \ {0}, NEW chunk \in Nat \ {0},
         NEW c, c = Chunks(free, chunk)
  PROVE  /\ Len(c) \in Nat \ {0} /\ c \in Seq(FreeRanges)
         /\ free <= Len(c) * chunk /\ Len(c) * chunk \in Nat
         /\ \A i \in 1 .. Len(c) : IsChunk(c[i], i, free, chunk)
<1> DEFINE m == free + chunk - 1
           n == m \div chunk
<1>1. m \in Nat
  OBVIOUS
<1>a. m = free + chunk - 1
  OBVIOUS
<1> HIDE DEF m
<1>2. n \in Nat /\ n * chunk \in Nat /\ n * chunk <= m /\ m < n * chunk + chunk
  BY <1>1, Division
<1>3. c = [i \in 1 .. n |-> [start |-> (i - 1) * (chunk + 1),
                             size |-> Min({chunk, free - (i - 1) * chunk})]]
  BY DEF Chunks, m
<1> HIDE DEF n
<1>4. free <= n * chunk /\ n # 0
  <2>1. free <= n * chunk
    BY <1>2, <1>a
  <2>2. n = 0 => n * chunk = 0
    OBVIOUS
  <2> QED
    BY <2>1, <2>2
<1>5. ASSUME NEW i \in 1 .. n
      PROVE  /\ (i - 1) * chunk \in Nat /\ (i - 1) * chunk < free
             /\ (i - 1) * (chunk + 1) = (i - 1) * chunk + (i - 1)
             /\ i - 1 \in Nat
             /\ Min({chunk, free - (i - 1) * chunk})
                  = IF chunk <= free - (i - 1) * chunk THEN chunk
                    ELSE free - (i - 1) * chunk
  <2>1. i - 1 \in Nat /\ n - 1 \in Nat /\ i - 1 <= n - 1
    BY <1>2
  <2>2. (n - 1) * chunk = n * chunk - chunk
    BY <1>2
  <2>3. (n - 1) * chunk \in Nat /\ (n - 1) * chunk < free
    BY <1>2, <1>a, <2>1, <2>2
  <2>4. (i - 1) * chunk <= (n - 1) * chunk /\ (i - 1) * chunk \in Nat
    BY <2>1, ProductGrows
  <2> DEFINE w == (i - 1) * chunk
  <2>5. (i - 1) * (chunk + 1) = w + (i - 1)
    BY <2>1
  <2>6. w \in Nat /\ w < free
    BY <2>3, <2>4
  <2> HIDE DEF w
  <2>7. Min({chunk, free - w}) = IF chunk <= free - w THEN chunk ELSE free - w
    BY <2>6, MinOfTwo
  <2> QED
    BY <2>1, <2>5, <2>6, <2>7 DEF w
<1>6. Len(c) = n /\ DOMAIN c = 1 .. n
  BY <1>2, <1>3
<1>7. ASSUME NEW i \in 1 .. n
      PROVE  /\ c[i].start = (i - 1) * chunk + (i - 1)
             /\ c[i].size = IF chunk <= free - (i - 1) * chunk THEN chunk
                            ELSE free - (i - 1) * chunk
             /\ c[i] \in FreeRanges
  <2> DEFINE w == (i - 1) * chunk
  <2>1. c[i] = [start |-> (i - 1) * (chunk + 1),
                size  |-> Min({chunk, free - w})]
    BY <1>3
  <2>2. c[i] = [start |-> w + (i - 1),
                size |-> IF chunk <= free - w THEN chunk ELSE free - w]
    BY <1>5, <2>1
  <2>3. w \in Nat /\ w < free /\ i - 1 \in Nat
    BY <1>5
  <2> HIDE DEF w
  <2>4. c[i] \in FreeRanges
    BY <2>2, <2>3 DEF FreeRanges
  <2>5. c[i].start = w + (i - 1)
        /\ c[i].size = IF chunk <= free - w THEN chunk ELSE free - w
    BY <2>2
  <2> QED
    BY <2>4, <2>5 DEF w
<1>8. c \in Seq(FreeRanges)
  <2>1. c \in [1 .. n -> FreeRanges]
    BY <1>3, <1>6, <1>7
  <2> QED
    BY <1>2, <2>1
<1> QED
  <2>1. \A i \in 1 .. Len(c) : IsChunk(c[i], i, free, chunk)
    BY <1>5, <1>6, <1>7 DEF IsChunk
  <2> QED
    BY <2>1, <1>2, <1>4, <1>6, <1>8

LEMMA ChunksOrdered ==
  ASSUME NEW free \in Nat \ {0}, NEW chunk \in Nat \ {0},
         NEW c, c = Chunks(free, chunk)
  PROVE  Ordered(c)
<1>1. Len(c) \in Nat /\ c \in Seq(FreeRanges)
  BY ChunkFacts
<1>2. ASSUME NEW i \in 1 .. Len(c)
      PROVE  /\ (i - 1) * chunk \in Nat
             /\ c[i].start = (i - 1) * chunk + (i - 1)
             /\ c[i].size \in Nat /\ c[i].size <= chunk
  <2> DEFINE w == (i - 1) * chunk
  <2>1. /\ w \in Nat /\ w < free /\ c[i].start = w + (i - 1)
        /\ c[i].size = IF chunk <= free - w THEN chunk ELSE free - w
    <3>1. IsChunk(c[i], i, free, chunk)
      BY ChunkFacts
    <3> QED
      BY <3>1 DEF IsChunk
  <2> HIDE DEF w
  <2>2. c[i].size \in Nat /\ c[i].size <= chunk
    BY <2>1
  <2> QED
    BY <2>1, <2>2 DEF w
<1> SUFFICES ASSUME NEW i \in 1 .. Len(c), NEW j \in 1 .. Len(c), i < j
             PROVE  End(c[i]) < c[j].start
  BY DEF Ordered
<1>3. i - 1 \in Nat /\ i \in Nat /\ j - 1 \in Nat /\ i <= j - 1
  BY <1>1
<1> DEFINE u == (i - 1) * chunk
           v == (j - 1) * chunk
<1>4. i * chunk <= v /\ i * chunk = u + chunk
  BY <1>3, ProductGrows
<1>5. /\ u \in Nat /\ c[i].start = u + (i - 1)
      /\ c[i].size \in Nat /\ c[i].size <= chunk
      /\ v \in Nat /\ c[j].start = v + (j - 1)
  BY <1>2
<1> HIDE DEF u, v
<1>6. u + chunk <= v
  BY <1>4
<1>7. End(c[i]) = u + (i - 1) + c[i].size
  BY <1>5 DEF End
<1>8. \A z \in Nat : z <= chunk => u + (i - 1) + z < v + (j - 1)
  BY <1>3, <1>5, <1>6
<1> QED
  BY <1>5, <1>7, <1>8

(* The chunks have as many bytes as the pool has free ones: byte k of the  *)
(* free ones lies k \div chunk gaps further on.                            *)
LEMMA ChunksCounted ==
  ASSUME NEW free \in Nat \ {0}, NEW chunk \in Nat \ {0},
         NEW c, c = Chunks(free, chunk)
  PROVE  Cardinality(BytesOf(c)) = free
<1> DEFINE K == 0 .. free - 1
           F == [k \in K |-> k + (k \div chunk)]
<1>1. /\ Len(c) \in Nat \ {0} /\ c \in Seq(FreeRanges)
      /\ free <= Len(c) * chunk /\ Len(c) * chunk \in Nat
      /\ \A i \in 1 .. Len(c) : IsChunk(c[i], i, free, chunk)
  BY ChunkFacts
<1>2. ASSUME NEW k \in K
      PROVE  /\ k \in Nat /\ k < free
             /\ k \div chunk \in Nat /\ (k \div chunk) * chunk \in Nat
             /\ (k \div chunk) * chunk <= k
             /\ k < (k \div chunk) * chunk + chunk
             /\ F[k] = k + (k \div chunk)
  <2>1. k \in Nat /\ k < free
    OBVIOUS
  <2> QED
    BY <2>1, Division
<1>3. ASSUME NEW i \in 1 .. Len(c), NEW z
      PROVE  z \in Bytes(c[i]) <=>
               /\ z \in Nat /\ z - (i - 1) \in Nat
               /\ (i - 1) * chunk <= z - (i - 1)
               /\ z - (i - 1) < (i - 1) * chunk + chunk
               /\ z - (i - 1) < free
  <2> DEFINE w == (i - 1) * chunk
  <2>1. /\ w \in Nat /\ w < free /\ c[i].start = w + (i - 1)
        /\ c[i].size = IF chunk <= free - w THEN chunk ELSE free - w
    <3>1. IsChunk(c[i], i, free, chunk)
      BY <1>1
    <3> QED
      BY <3>1 DEF IsChunk
  <2> HIDE DEF w
  <2> DEFINE j == i - 1
  <2>2. j \in Nat
    BY <1>1
  <2>3. End(c[i]) = w + j + c[i].size
    BY <2>1 DEF End
  <2> HIDE DEF j
  <2>4. End(c[i]) = IF chunk <= free - w THEN w + j + chunk ELSE free + j
    BY <2>1, <2>2, <2>3
  <2>5. Bytes(c[i]) = w + j .. End(c[i]) - 1
    BY <2>1 DEF Bytes, j
  <2>6. z \in Bytes(c[i]) <=> /\ z \in Nat /\ w + j <= z
                              /\ z < w + chunk + j /\ z < free + j
    BY <2>1, <2>2, <2>4, <2>5
  <2>7. z \in Bytes(c[i]) <=> /\ z \in Nat /\ z - j \in Nat /\ w <= z - j
                              /\ z - j < w + chunk /\ z - j < free
    BY <2>1, <2>2, <2>6
  <2> QED
    BY <2>7 DEF j, w
<1> HIDE DEF F
<1>4. ASSUME NEW k \in K PROVE F[k] \in BytesOf(c)
  <2> DEFINE q == k \div chunk
  <2>1. /\ k \in Nat /\ k < free /\ q \in Nat /\ q * chunk \in Nat
        /\ q * chunk <= k /\ k < q * chunk + chunk /\ F[k] = k + q
    BY <1>2
  <2> HIDE DEF q
  <2>2. q + 1 <= Len(c)
    <3> SUFFICES ASSUME Len(c) <= q PROVE FALSE
      BY <1>1, <2>1
    <3>1. Len(c) * chunk <= q * chunk
      BY <1>1, <2>1, ProductGrows
    <3> QED
      BY <1>1, <2>1, <3>1
  <2>3. q + 1 \in 1 .. Len(c) /\ (q + 1) - 1 = q
    BY <1>1, <2>1, <2>2
  <2>4. /\ F[k] \in Nat /\ F[k] - q = k
    BY <2>1
  <2>5. F[k] \in Bytes(c[q + 1])
    BY <1>3, <2>1, <2>3, <2>4
  <2> QED
    BY <1>1, <2>3, <2>5, InBytesOf
<1>5. ASSUME NEW k \in K, NEW l \in K, k < l PROVE F[k] < F[l]
  <2> DEFINE p == k \div chunk
             q == l \div chunk
  <2>1. /\ k \in Nat /\ p \in Nat /\ p * chunk \in Nat
        /\ p * chunk <= k /\ k < p * chunk + chunk /\ F[k] = k + p
    BY <1>2
  <2>2. /\ l \in Nat /\ q \in Nat /\ q * chunk \in Nat
        /\ q * chunk <= l /\ l < q * chunk + chunk /\ F[l] = l + q
    BY <1>2
  <2> HIDE DEF p, q
  <2>3. p <= q
    <3> SUFFICES ASSUME q + 1 <= p PROVE FALSE
      BY <2>1, <2>2
    <3>1. (q + 1) * chunk <= p * chunk /\ (q + 1) * chunk = q * chunk + chunk
      BY <2>1, <2>2, ProductGrows
    <3> QED
      BY <1>5, <2>1, <2>2, <3>1
  <2> QED
    BY <1>5, <2>1, <2>2, <2>3
<1>6. ASSUME NEW z \in BytesOf(c) PROVE \E k \in K : F[k] = z
  <2>1. PICK i \in 1 .. Len(c) : z \in Bytes(c[i])
    BY <1>1, InBytesOf
  <2> DEFINE q == i - 1
             k == z - q
  <2>2. /\ z \in Nat /\ k \in Nat /\ q * chunk <= k
        /\ k < q * chunk + chunk /\ k < free
    BY <1>3, <2>1
  <2>3. q \in Nat
    BY <1>1
  <2> HIDE DEF q
  <2>4. k \in K /\ k + q = z
    BY <2>2, <2>3
  <2> HIDE DEF k
  <2>5. k \div chunk = q
    BY <2>2, <2>3, Quotient
  <2> QED
    BY <1>2, <2>4, <2>5
<1>7. F \in Bijection(K, BytesOf(c))
  <2>1. F \in [K -> BytesOf(c)]
    BY <1>4 DEF F
  <2>2. \A k, l \in K : F[k] = F[l] => k = l
    <3> SUFFICES ASSUME NEW k \in K, NEW l \in K, F[k] = F[l], k # l
                 PROVE  FALSE
      OBVIOUS
    <3>1. k \in Int /\ l \in Int /\ F[k] \in Int /\ F[l] \in Int
      BY <1>1, <1>2
    <3>2. k < l \/ l < k
      BY <3>1
    <3> QED
      BY <1>5, <3>1, <3>2
  <2>3. \A z \in BytesOf(c) : \E k \in K : F[k] = z
    BY <1>6
  <2> QED
    <3>1. F \in Injection(K, BytesOf(c))
      <4>1. DOMAIN F = K
        BY <2>1
      <4> QED
        BY ONLY <2>1, <2>2, <4>1 DEF Injection, IsInjective
    <3>2. F \in Surjection(K, BytesOf(c))
      BY ONLY <2>1, <2>3 DEF Surjection
    <3> QED
      BY ONLY <3>1, <3>2 DEF Bijection
<1>8. IsFiniteSet(K) /\ Cardinality(K) = free
  BY FS_Interval
<1>9. ExistsBijection(K, BytesOf(c))
  BY <1>7 DEF ExistsBijection
<1> QED
  BY <1>8, <1>9, FS_Bijection

(* The largest chunk is the first.                                         *)
LEMMA ChunksLargest ==
  ASSUME NEW free \in Nat \ {0}, NEW chunk \in Nat \ {0}, chunk <= free,
         NEW c, c = Chunks(free, chunk)
  PROVE  Largest(c) = chunk
<1>1. Len(c) \in Nat \ {0} /\ c \in Seq(FreeRanges) /\ DOMAIN c = 1 .. Len(c)
  BY ChunkFacts, LenProperties
<1>2. ASSUME NEW i \in 1 .. Len(c)
      PROVE  c[i].size \in Nat /\ c[i].size <= chunk
             /\ (i = 1 => c[i].size = chunk)
  <2> DEFINE w == (i - 1) * chunk
  <2>1. /\ w \in Nat /\ w < free
        /\ c[i].size = IF chunk <= free - w THEN chunk ELSE free - w
    <3>1. IsChunk(c[i], i, free, chunk)
      BY ChunkFacts
    <3> QED
      BY <3>1 DEF IsChunk
  <2>2. i = 1 => w = 0
    OBVIOUS
  <2> HIDE DEF w
  <2> QED
    BY <2>1, <2>2
<1> DEFINE S == {0} \cup {c[i].size : i \in 1 .. Len(c)}
<1>3. chunk \in S
  <2>1. 1 \in 1 .. Len(c) /\ c[1].size = chunk
    BY <1>1, <1>2
  <2> QED
    BY <2>1
<1>4. S \subseteq Int /\ \A y \in S : chunk >= y
  BY <1>2
<1>5. Largest(c) = Max(S)
  BY <1>1 DEF Largest
<1> HIDE DEF S
<1> QED
  BY <1>3, <1>4, <1>5, MaxIs

(* A fresh pool: its counters agree with its list.                         *)
PoolRecords ==
  [total : Nat, free : Nat, minimumFree : Nat, largest : Nat,
   allocatedBlocks : Nat, failNext : BOOLEAN, freeRanges : Seq(FreeRanges)]

PoolCounted(q, initial) ==
  /\ Ordered(q.freeRanges)
  /\ q.free = Cardinality(BytesOf(q.freeRanges))
  /\ q.minimumFree <= q.free
  /\ \/ q.largest = Largest(q.freeRanges)
     \/ q.largest = 0 /\ q.freeRanges = initial

LEMMA InitPoolFacts ==
  ASSUME NEW total \in Nat, NEW envFree \in Nat, NEW envLargest \in Nat,
         NEW fail \in BOOLEAN,
         NEW q, q = InitPool(total, envFree, envLargest, fail)
  PROVE  /\ q \in PoolRecords /\ PoolCounted(q, q.freeRanges)
         /\ q.allocatedBlocks = 0
<1> DEFINE free == Min({envFree, total})
           largest == Min({envLargest, free})
           chunk == IF largest = 0 THEN free ELSE largest
           c == Chunks(free, chunk)
<1>1. q = [total |-> total, free |-> free, minimumFree |-> free,
           largest |-> largest, allocatedBlocks |-> 0, failNext |-> fail,
           freeRanges |-> c]
  BY DEF InitPool
<1>2. free \in Nat
  BY MinOfTwo
<1> HIDE DEF free
<1>3. largest \in Nat /\ largest <= free
  BY <1>2, MinOfTwo
<1> HIDE DEF largest
<1>4. chunk \in Nat /\ chunk <= free /\ (free # 0 => chunk # 0)
      /\ (largest # 0 => chunk = largest)
  BY <1>2, <1>3
<1>5. c = Chunks(free, chunk)
  OBVIOUS
<1> HIDE DEF chunk, c
<1>6. /\ c \in Seq(FreeRanges) /\ Ordered(c)
      /\ Cardinality(BytesOf(c)) = free
      /\ largest = Largest(c) \/ largest = 0
  <2>1. CASE free = 0
    <3>1. c = [i \in 1 .. 0 |->
               [start |-> (i - 1) * (chunk + 1),
                size |-> Min({chunk, free - (i - 1) * chunk})]]
      BY <2>1, <1>5 DEF Chunks
    <3>2. c = <<>>
      BY <3>1
    <3>3. largest = 0
      BY <2>1, <1>3
    <3> QED
      BY <2>1, <3>2, <3>3, NoRange, FS_EmptySet
  <2>2. CASE free # 0
    <3>1. free \in Nat \ {0} /\ chunk \in Nat \ {0}
      BY <2>2, <1>2, <1>4
    <3>2. c \in Seq(FreeRanges)
      BY <3>1, <1>5, ChunkFacts
    <3>3. Ordered(c)
      BY <3>1, <1>5, ChunksOrdered
    <3>4. Cardinality(BytesOf(c)) = free
      BY <3>1, <1>5, ChunksCounted
    <3>5. Largest(c) = chunk
      BY <3>1, <1>4, <1>5, ChunksLargest
    <3> QED
      BY <1>4, <3>2, <3>3, <3>4, <3>5
  <2> QED
    BY <2>1, <2>2
<1>7. q \in PoolRecords
  BY <1>1, <1>2, <1>3, <1>6 DEF PoolRecords
<1>8. /\ q.freeRanges = c /\ q.free = free /\ q.minimumFree = free
      /\ q.largest = largest /\ q.allocatedBlocks = 0
  BY <1>1
<1>9. PoolCounted(q, q.freeRanges)
  BY <1>2, <1>6, <1>8 DEF PoolCounted
<1> QED
  BY <1>7, <1>8, <1>9

-----------------------------------------------------------------------------
(* The invariant.                                                          *)

HeapTypeOK ==
  /\ pool \in [Pools -> PoolRecords]
  /\ live \in [Ptrs -> Blocks \cup {NoBlock}]
  /\ held \subseteq Ptrs
  /\ threshold \in Nat
  /\ arena \in [Pools -> Seq(FreeRanges)]
  /\ lost \subseteq Blocks

(* The free bytes and the blocks in charged are what initial had.          *)
Account(freeBytes, charged, initial) ==
  /\ initial = freeBytes \cup UNION {Bytes(b) : b \in charged}
  /\ \A b \in charged :
       /\ Bytes(b) \cap freeBytes = {}
       /\ \A c \in charged : b # c => Bytes(b) \cap Bytes(c) = {}

PoolInv(p) ==
  /\ PoolCounted(pool[p], arena[p])
  /\ Account(BytesOf(pool[p].freeRanges), Charged(p), BytesOf(arena[p]))
  /\ IsFiniteSet(LivePtrs(p)) /\ IsFiniteSet(LostBlocks(p))
  /\ pool[p].allocatedBlocks =
       Cardinality(LivePtrs(p)) + Cardinality(LostBlocks(p))

(* A block stands for one pointer at most, and is not lost then.           *)
OneOwner ==
  \A ptr \in Ptrs : live[ptr] # NoBlock =>
    /\ live[ptr] \notin lost
    /\ \A other \in Ptrs : live[other] = live[ptr] => other = ptr

HeapInv == HeapTypeOK /\ OneOwner /\ \A p \in Pools : PoolInv(p)

LEMMA BlockIsRange ==
  ASSUME NEW b \in Blocks
  PROVE  LET x == [start |-> b.start, size |-> b.size]
         IN  x \in FreeRanges /\ Bytes(x) = Bytes(b) /\ Bytes(b) # {}
<1>1. b.start \in Nat /\ b.size \in Nat \ {0} /\ b.pool \in Pools
  BY DEF Blocks
<1> DEFINE x == [start |-> b.start, size |-> b.size]
<1>2. x \in FreeRanges /\ x.start = b.start /\ x.size = b.size
  BY <1>1 DEF FreeRanges
<1>3. Bytes(x) = Bytes(b)
  BY <1>2 DEF Bytes, End
<1>4. Bytes(x) # {}
  BY <1>2, RangeFacts
<1> QED
  BY <1>2, <1>3, <1>4

LEMMA AccountTake ==
  ASSUME NEW F, NEW C, NEW I, Account(F, C, I), NEW b, Bytes(b) \subseteq F
  PROVE  Account(F \ Bytes(b), C \cup {b}, I)
<1> DEFINE D == C \cup {b}
           G == F \ Bytes(b)
<1>1. I = G \cup UNION {Bytes(c) : c \in D}
  <2>1. UNION {Bytes(c) : c \in D} = Bytes(b) \cup UNION {Bytes(c) : c \in C}
    OBVIOUS
  <2> QED
    BY <2>1 DEF Account
<1>2. \A c \in C : Bytes(c) \cap F = {} /\ Bytes(c) \cap Bytes(b) = {}
  BY DEF Account
<1>3. \A c \in D : Bytes(c) \cap G = {}
  BY <1>2
<1>4. \A c, d \in D : c # d => Bytes(c) \cap Bytes(d) = {}
  <2> SUFFICES ASSUME NEW c \in D, NEW d \in D, c # d
               PROVE  Bytes(c) \cap Bytes(d) = {}
    OBVIOUS
  <2>1. CASE c \in C /\ d \in C
    BY <2>1 DEF Account
  <2>2. CASE c = b /\ d \in C
    BY <2>2, <1>2
  <2>3. CASE d = b /\ c \in C
    BY <2>3, <1>2
  <2> QED
    BY <2>1, <2>2, <2>3
<1> HIDE DEF D, G
<1>5. Account(G, D, I)
  BY <1>1, <1>3, <1>4 DEF Account
<1> QED
  BY <1>5 DEF D, G

LEMMA AccountGive ==
  ASSUME NEW F, NEW C, NEW I, Account(F, C, I), NEW b \in C
  PROVE  Account(F \cup Bytes(b), C \ {b}, I)
<1> DEFINE D == C \ {b}
           G == F \cup Bytes(b)
<1>1. I = G \cup UNION {Bytes(c) : c \in D}
  <2>1. UNION {Bytes(c) : c \in C} = Bytes(b) \cup UNION {Bytes(c) : c \in D}
    OBVIOUS
  <2> QED
    BY <2>1 DEF Account
<1>2. \A c \in D : Bytes(c) \cap F = {} /\ Bytes(c) \cap Bytes(b) = {}
  BY DEF Account
<1>3. \A c \in D : Bytes(c) \cap G = {}
  BY <1>2
<1>4. \A c, d \in D : c # d => Bytes(c) \cap Bytes(d) = {}
  BY DEF Account
<1> HIDE DEF D, G
<1>5. Account(G, D, I)
  BY <1>1, <1>3, <1>4 DEF Account
<1> QED
  BY <1>5 DEF D, G

LEMMA ChargeFacts ==
  ASSUME NEW q \in PoolRecords, NEW initial, PoolCounted(q, initial),
         NEW bytes \in Nat \ {0}, NEW alignment \in Nat \ {0},
         NEW i \in Fitting(q.freeRanges, bytes, alignment),
         NEW c, c = Charge(q, i, bytes, alignment),
         NEW t, t = Taken(q.freeRanges[i], bytes, alignment)
  PROVE  /\ c \in PoolRecords /\ PoolCounted(c, initial)
         /\ t \in FreeRanges /\ Bytes(t) \subseteq BytesOf(q.freeRanges)
         /\ BytesOf(c.freeRanges) = BytesOf(q.freeRanges) \ Bytes(t)
         /\ c.allocatedBlocks = q.allocatedBlocks + 1
<1> DEFINE r == q.freeRanges
           kept == Cut(r, i, bytes, alignment)
<1>1. r \in Seq(FreeRanges) /\ q.free \in Nat /\ q.minimumFree \in Nat
      /\ q.allocatedBlocks \in Nat
  BY DEF PoolRecords
<1>2. Ordered(r) /\ q.free = Cardinality(BytesOf(r)) /\ q.minimumFree <= q.free
  BY DEF PoolCounted
<1>3. kept = Cut(r, i, bytes, alignment)
      /\ t = Taken(r[i], bytes, alignment)
      /\ i \in Fitting(r, bytes, alignment)
  OBVIOUS
<1>4. c = [q EXCEPT !.freeRanges = kept, !.free = q.free - bytes,
                    !.minimumFree = Min({q.minimumFree, q.free - bytes}),
                    !.allocatedBlocks = q.allocatedBlocks + 1,
                    !.largest = Largest(kept)]
  BY DEF Charge, Cut
<1> HIDE DEF r, kept
<1>5. /\ t \in FreeRanges /\ Bytes(t) \subseteq BytesOf(r)
      /\ kept \in Seq(FreeRanges) /\ Ordered(kept)
      /\ BytesOf(kept) = BytesOf(r) \ Bytes(t)
  BY <1>1, <1>2, <1>3, CutList
<1>6. t.size = bytes
  BY <1>3 DEF Taken
<1>7. q.free - bytes = Cardinality(BytesOf(kept)) /\ q.free - bytes \in Nat
  <2>1. IsFiniteSet(BytesOf(r))
    BY <1>1, FiniteBytes
  <2>2. /\ Cardinality(BytesOf(r) \ Bytes(t)) =
             Cardinality(BytesOf(r)) - t.size
        /\ Cardinality(BytesOf(r)) \in Nat /\ t.size <= Cardinality(BytesOf(r))
    BY <1>5, <2>1, CountWithout
  <2> QED
    BY <2>2, <1>1, <1>2, <1>5, <1>6
<1>8. Min({q.minimumFree, q.free - bytes}) \in Nat
      /\ Min({q.minimumFree, q.free - bytes}) <= q.free - bytes
  BY <1>1, <1>7, MinOfTwo
<1>9. Largest(kept) \in Nat
  BY <1>5, LargestFacts
<1>10. /\ c.freeRanges = kept /\ c.free = q.free - bytes
       /\ c.minimumFree = Min({q.minimumFree, q.free - bytes})
       /\ c.allocatedBlocks = q.allocatedBlocks + 1
       /\ c.largest = Largest(kept)
  BY <1>4 DEF PoolRecords
<1>11. c \in PoolRecords
  <2> DEFINE f2 == q.free - bytes
             m2 == Min({q.minimumFree, f2})
             a2 == q.allocatedBlocks + 1
             l2 == Largest(kept)
  <2>1. f2 \in Nat /\ m2 \in Nat /\ a2 \in Nat /\ l2 \in Nat
    BY <1>1, <1>7, <1>8, <1>9
  <2>2. c = [q EXCEPT !.freeRanges = kept, !.free = f2, !.minimumFree = m2,
                      !.allocatedBlocks = a2, !.largest = l2]
    BY <1>4
  <2> HIDE DEF f2, m2, a2, l2
  <2> QED
    BY <1>5, <2>1, <2>2 DEF PoolRecords
<1>12. PoolCounted(c, initial)
  BY <1>5, <1>7, <1>8, <1>10 DEF PoolCounted
<1> QED
  BY <1>5, <1>10, <1>11, <1>12 DEF r

LEMMA ReturnedFacts ==
  ASSUME NEW q \in PoolRecords, NEW initial, PoolCounted(q, initial),
         NEW f \in FreeRanges, Bytes(f) \cap BytesOf(q.freeRanges) = {},
         q.allocatedBlocks # 0, NEW c, c = Returned(q, f)
  PROVE  /\ c \in PoolRecords /\ PoolCounted(c, initial)
         /\ BytesOf(c.freeRanges) = BytesOf(q.freeRanges) \cup Bytes(f)
         /\ c.allocatedBlocks = q.allocatedBlocks - 1
<1> DEFINE r == q.freeRanges
           kept == FreeRange(r, f)
<1>1. r \in Seq(FreeRanges) /\ q.free \in Nat /\ q.minimumFree \in Nat
      /\ q.allocatedBlocks \in Nat
  BY DEF PoolRecords
<1>2. Ordered(r) /\ q.free = Cardinality(BytesOf(r)) /\ q.minimumFree <= q.free
  BY DEF PoolCounted
<1>3. kept = FreeRange(r, f) /\ Bytes(f) \cap BytesOf(r) = {}
  OBVIOUS
<1>4. c = [q EXCEPT !.freeRanges = kept, !.free = q.free + f.size,
                    !.allocatedBlocks = q.allocatedBlocks - 1,
                    !.largest = Largest(kept)]
  BY DEF Returned
<1>a. BytesOf(q.freeRanges) = BytesOf(r)
  OBVIOUS
<1> HIDE DEF r, kept
<1>5. /\ kept \in Seq(FreeRanges) /\ Ordered(kept)
      /\ BytesOf(kept) = BytesOf(r) \cup Bytes(f)
  BY <1>1, <1>2, <1>3, FreeRangeFacts
<1>6. f.size \in Nat
  BY RangeFacts
<1>7. q.free + f.size = Cardinality(BytesOf(kept))
  BY <1>1, <1>2, <1>3, <1>5, FiniteBytes, CountWith
<1>8. Largest(kept) \in Nat
  BY <1>5, LargestFacts
<1>9. /\ c.freeRanges = kept /\ c.free = q.free + f.size
      /\ c.minimumFree = q.minimumFree
      /\ c.allocatedBlocks = q.allocatedBlocks - 1
      /\ c.largest = Largest(kept)
  BY <1>4 DEF PoolRecords
<1>10. c \in PoolRecords
  <2> DEFINE f2 == q.free + f.size
             a2 == q.allocatedBlocks - 1
             l2 == Largest(kept)
  <2>1. f2 \in Nat /\ a2 \in Nat /\ l2 \in Nat
    BY <1>1, <1>6, <1>8
  <2>2. c = [q EXCEPT !.freeRanges = kept, !.free = f2,
                      !.allocatedBlocks = a2, !.largest = l2]
    BY <1>4
  <2> HIDE DEF f2, a2, l2
  <2> QED
    BY <1>5, <2>1, <2>2 DEF PoolRecords
<1>11. PoolCounted(c, initial)
  <2>1. c.minimumFree <= c.free
    BY <1>1, <1>2, <1>6, <1>9
  <2>2. c.free = Cardinality(BytesOf(c.freeRanges))
    BY <1>7, <1>9
  <2> QED
    BY <2>1, <2>2, <1>5, <1>9 DEF PoolCounted
<1> QED
  BY <1>5, <1>9, <1>10, <1>11, <1>a

(* A pool that lost at most its injected failure.                          *)
SameAccount(q, c) ==
  c.freeRanges = q.freeRanges /\ c.allocatedBlocks = q.allocatedBlocks

LEMMA RefusedFacts ==
  ASSUME NEW q \in PoolRecords, NEW initial, PoolCounted(q, initial),
         NEW c \in {q, Refused(q)}
  PROVE  c \in PoolRecords /\ PoolCounted(c, initial) /\ SameAccount(q, c)
<1>1. CASE c = q
  BY <1>1 DEF SameAccount
<1>2. CASE c = Refused(q)
  <2>1. c = [q EXCEPT !.failNext = FALSE]
    BY <1>2 DEF Refused
  <2>2. c \in PoolRecords
    BY <2>1 DEF PoolRecords
  <2>3. /\ c.freeRanges = q.freeRanges /\ c.free = q.free
        /\ c.minimumFree = q.minimumFree /\ c.largest = q.largest
        /\ c.allocatedBlocks = q.allocatedBlocks
    BY <2>1 DEF PoolRecords
  <2> QED
    BY <2>2, <2>3 DEF PoolCounted, SameAccount
<1> QED
  BY <1>1, <1>2

(* Pool p has given the bytes of block b to ptr.                           *)
Served(ptr, p, bytes, b) ==
  /\ b \in Blocks /\ b.pool = p /\ b.size = bytes
  /\ Bytes(b) \subseteq BytesOf(pool[p].freeRanges)
  /\ ptr \notin held /\ held' = held \cup {ptr}
  /\ pool' \in [Pools -> PoolRecords]
  /\ \A q \in Pools : PoolCounted(pool'[q], arena[q])
  /\ BytesOf(pool'[p].freeRanges) = BytesOf(pool[p].freeRanges) \ Bytes(b)
  /\ pool'[p].allocatedBlocks = pool[p].allocatedBlocks + 1
  /\ \A q \in Pools \ {p} : SameAccount(pool[q], pool'[q])
  /\ Record(ptr, b)

LEMMA ServeFacts ==
  ASSUME HeapInv, NEW ptr \in Ptrs, NEW p \in Pools, NEW refused,
         NEW bytes \in Nat \ {0}, NEW alignment \in Nat \ {0},
         Serve(ptr, p, refused, bytes, alignment)
  PROVE  \E b : Served(ptr, p, bytes, b)
<1> DEFINE fits == Fitting(pool[p].freeRanges, bytes, alignment)
           i == Min(fits)
           start == AlignUp(pool[p].freeRanges[i].start, alignment)
           b == [pool |-> p, start |-> start, size |-> bytes]
           t == Taken(pool[p].freeRanges[i], bytes, alignment)
           c == Charge(pool[p], i, bytes, alignment)
<1>1. /\ pool \in [Pools -> PoolRecords]
      /\ \A q \in Pools : PoolCounted(pool[q], arena[q])
  BY DEF HeapInv, HeapTypeOK, PoolInv
<1>2. pool[p].freeRanges \in Seq(FreeRanges)
  BY <1>1 DEF PoolRecords
<1>3. fits # {} /\ fits \subseteq Nat
  BY <1>2, InBytesOf, LenProperties DEF Serve, Serves, Fitting
<1>4. i \in fits
  BY <1>3, LeastOfNaturals
<1>5. /\ ptr \notin held /\ held' = held \cup {ptr}
      /\ pool' = [q \in Pools |->
                    IF q = p THEN c
                    ELSE IF q \in refused THEN Refused(pool[q])
                    ELSE pool[q]]
      /\ Record(ptr, b)
  BY DEF Serve
<1>6. t = [start |-> start, size |-> bytes]
  BY DEF Taken
<1>7. b.pool = p /\ b.size = bytes /\ b.start = start
  OBVIOUS
<1> HIDE DEF fits, i, start, b
<1>8. /\ c \in PoolRecords /\ PoolCounted(c, arena[p])
      /\ t \in FreeRanges /\ Bytes(t) \subseteq BytesOf(pool[p].freeRanges)
      /\ BytesOf(c.freeRanges) = BytesOf(pool[p].freeRanges) \ Bytes(t)
      /\ c.allocatedBlocks = pool[p].allocatedBlocks + 1
  BY <1>1, <1>4, ChargeFacts DEF fits
<1> HIDE DEF t, c
<1>9. start \in Nat
  BY <1>6, <1>8 DEF FreeRanges
<1>10. b \in Blocks
  BY <1>9 DEF b, Blocks
<1>11. Bytes(b) = Bytes(t)
  BY <1>6, <1>7 DEF Bytes, End
<1>12. pool'[p] = c
  BY <1>5
<1>13. ASSUME NEW q \in Pools \ {p}
       PROVE  pool'[q] \in PoolRecords /\ PoolCounted(pool'[q], arena[q])
              /\ SameAccount(pool[q], pool'[q])
  <2>1. pool'[q] \in {pool[q], Refused(pool[q])}
    BY <1>5
  <2>2. pool[q] \in PoolRecords /\ PoolCounted(pool[q], arena[q])
    BY <1>1
  <2> QED
    BY <2>1, <2>2, RefusedFacts
<1>14. pool' \in [Pools -> PoolRecords]
  <2>1. \A q \in Pools : pool'[q] \in PoolRecords
    BY <1>8, <1>12, <1>13
  <2>2. pool' = [q \in Pools |-> pool'[q]]
    BY <1>5
  <2> QED
    BY <2>1, <2>2
<1>15. \A q \in Pools : PoolCounted(pool'[q], arena[q])
  BY <1>8, <1>12, <1>13
<1>16. Served(ptr, p, bytes, b)
  BY <1>5, <1>7, <1>8, <1>10, <1>11, <1>12, <1>13, <1>14, <1>15 DEF Served
<1> QED
  BY <1>16

LEMMA ServedKeeps ==
  ASSUME HeapInv, NEW ptr \in Ptrs, NEW p \in Pools, NEW bytes, NEW b,
         Served(ptr, p, bytes, b), UNCHANGED <<threshold, arena>>
  PROVE  HeapInv'
<1>1. HeapTypeOK /\ OneOwner /\ \A q \in Pools : PoolInv(q)
  BY DEF HeapInv
<1>2. /\ b \in Blocks /\ b.pool = p
      /\ Bytes(b) \subseteq BytesOf(pool[p].freeRanges)
      /\ pool' \in [Pools -> PoolRecords]
      /\ \A q \in Pools : PoolCounted(pool'[q], arena[q])
      /\ BytesOf(pool'[p].freeRanges) = BytesOf(pool[p].freeRanges) \ Bytes(b)
      /\ pool'[p].allocatedBlocks = pool[p].allocatedBlocks + 1
      /\ Record(ptr, b)
  BY DEF Served
<1>3. ASSUME NEW q \in Pools, q # p
      PROVE  pool'[q].freeRanges = pool[q].freeRanges
             /\ pool'[q].allocatedBlocks = pool[q].allocatedBlocks
  BY <1>3 DEF Served, SameAccount
<1>4. live \in [Ptrs -> Blocks \cup {NoBlock}] /\ lost \subseteq Blocks
      /\ held \subseteq Ptrs /\ NoBlock \notin Blocks
  BY <1>1, SimHeapAssumption DEF HeapTypeOK
<1>5. Bytes(b) # {}
  BY <1>2, BlockIsRange
<1>6. b \notin Charged(p)
  BY <1>1, <1>2, <1>5 DEF PoolInv, Account
<1>7. b \notin lost /\ \A other \in Ptrs : live[other] # b
  BY <1>2, <1>4, <1>6 DEF Charged, LivePtrs, LostBlocks
<1>8. \/ /\ live[ptr] = NoBlock /\ lost' = lost
         /\ live' = [live EXCEPT ![ptr] = b]
      \/ live[ptr] # NoBlock /\ lost' = lost \cup {b} /\ live' = live
  BY <1>2 DEF Record
<1>9. HeapTypeOK'
  <2>1. live' \in [Ptrs -> Blocks \cup {NoBlock}] /\ lost' \subseteq Blocks
    BY <1>2, <1>4, <1>8
  <2>2. held' \subseteq Ptrs
    BY <1>4 DEF Served
  <2> QED
    BY <1>1, <1>2, <2>1, <2>2 DEF HeapTypeOK
<1>10. OneOwner'
  <2>1. CASE live[ptr] = NoBlock /\ live' = [live EXCEPT ![ptr] = b]
             /\ lost' = lost
    <3>1. \A other \in Ptrs : live'[other] = IF other = ptr THEN b
                                             ELSE live[other]
      BY <2>1, <1>4
    <3> QED
      BY <1>1, <1>7, <2>1, <3>1 DEF OneOwner
  <2>2. CASE live[ptr] # NoBlock /\ lost' = lost \cup {b} /\ live' = live
    BY <1>1, <1>7, <2>2 DEF OneOwner
  <2> QED
    BY <1>8, <2>1, <2>2
<1>11. ASSUME NEW q \in Pools, q # p
       PROVE  LivePtrs(q)' = LivePtrs(q) /\ LostBlocks(q)' = LostBlocks(q)
              /\ Charged(q)' = Charged(q)
  <2>1. CASE live[ptr] = NoBlock /\ live' = [live EXCEPT ![ptr] = b]
             /\ lost' = lost
    <3>1. \A other \in Ptrs : live'[other] = IF other = ptr THEN b
                                             ELSE live[other]
      BY <2>1, <1>4
    <3>2. LivePtrs(q)' = LivePtrs(q)
      BY <1>2, <1>4, <1>11, <2>1, <3>1 DEF LivePtrs
    <3>3. LostBlocks(q)' = LostBlocks(q)
      BY <2>1 DEF LostBlocks
    <3>4. ptr \notin LivePtrs(q)
      BY <2>1 DEF LivePtrs
    <3>5. \A other \in LivePtrs(q) : live'[other] = live[other]
      BY <3>1, <3>4 DEF LivePtrs
    <3>6. {live'[other] : other \in LivePtrs(q)'}
            = {live[other] : other \in LivePtrs(q)}
      BY <3>2, <3>5
    <3> QED
      BY <3>2, <3>3, <3>6 DEF Charged
  <2>2. CASE live[ptr] # NoBlock /\ lost' = lost \cup {b} /\ live' = live
    <3>1. LivePtrs(q)' = LivePtrs(q)
      BY <2>2 DEF LivePtrs
    <3>2. LostBlocks(q)' = LostBlocks(q)
      BY <1>2, <1>11, <2>2 DEF LostBlocks
    <3> QED
      BY <2>2, <3>1, <3>2 DEF Charged
  <2> QED
    BY <1>8, <2>1, <2>2
<1>12. ASSUME NEW q \in Pools, q # p PROVE PoolInv(q)'
  <2>1. PoolCounted(pool'[q], arena'[q])
    BY <1>2
  <2> QED
    BY <1>1, <1>3, <1>11, <1>12, <2>1 DEF PoolInv
<1>13. Charged(p)' = Charged(p) \cup {b}
  <2>1. CASE live[ptr] = NoBlock /\ live' = [live EXCEPT ![ptr] = b]
             /\ lost' = lost
    <3>1. \A other \in Ptrs : live'[other] = IF other = ptr THEN b
                                             ELSE live[other]
      BY <2>1, <1>4
    <3>2. LivePtrs(p)' = LivePtrs(p) \cup {ptr} /\ ptr \notin LivePtrs(p)
      BY <1>2, <1>4, <2>1, <3>1 DEF LivePtrs
    <3>3. \A other \in LivePtrs(p) : live'[other] = live[other]
      BY <3>1, <3>2 DEF LivePtrs
    <3>4. {live'[other] : other \in LivePtrs(p)'}
            = {live[other] : other \in LivePtrs(p)} \cup {b}
      BY <3>1, <3>2, <3>3
    <3>5. LostBlocks(p)' = LostBlocks(p)
      BY <2>1 DEF LostBlocks
    <3> QED
      BY <3>4, <3>5 DEF Charged
  <2>2. CASE live[ptr] # NoBlock /\ lost' = lost \cup {b} /\ live' = live
    <3>1. LivePtrs(p)' = LivePtrs(p)
      BY <2>2 DEF LivePtrs
    <3>2. LostBlocks(p)' = LostBlocks(p) \cup {b}
      BY <1>2, <2>2 DEF LostBlocks
    <3> QED
      BY <2>2, <3>1, <3>2 DEF Charged
  <2> QED
    BY <1>8, <2>1, <2>2
<1>14. /\ IsFiniteSet(LivePtrs(p)') /\ IsFiniteSet(LostBlocks(p)')
       /\ Cardinality(LivePtrs(p)') + Cardinality(LostBlocks(p)')
            = Cardinality(LivePtrs(p)) + Cardinality(LostBlocks(p)) + 1
  <2>1. /\ IsFiniteSet(LivePtrs(p)) /\ IsFiniteSet(LostBlocks(p))
        /\ Cardinality(LivePtrs(p)) \in Nat
        /\ Cardinality(LostBlocks(p)) \in Nat
    BY <1>1, FS_CardinalityType DEF PoolInv
  <2>2. CASE live[ptr] = NoBlock /\ live' = [live EXCEPT ![ptr] = b]
             /\ lost' = lost
    <3>1. \A other \in Ptrs : live'[other] = IF other = ptr THEN b
                                             ELSE live[other]
      BY <2>2, <1>4
    <3>2. LivePtrs(p)' = LivePtrs(p) \cup {ptr} /\ ptr \notin LivePtrs(p)
      BY <1>2, <1>4, <2>2, <3>1 DEF LivePtrs
    <3>3. LostBlocks(p)' = LostBlocks(p)
      BY <2>2 DEF LostBlocks
    <3> QED
      <4>1. /\ IsFiniteSet(LivePtrs(p) \cup {ptr})
            /\ Cardinality(LivePtrs(p) \cup {ptr}) =
                 Cardinality(LivePtrs(p)) + 1
        BY <2>1, <3>2, FS_AddElement
      <4> QED
        BY <2>1, <3>2, <3>3, <4>1
  <2>3. CASE live[ptr] # NoBlock /\ lost' = lost \cup {b} /\ live' = live
    <3>1. LivePtrs(p)' = LivePtrs(p)
      BY <2>3 DEF LivePtrs
    <3>2. LostBlocks(p)' = LostBlocks(p) \cup {b} /\ b \notin LostBlocks(p)
      BY <1>2, <1>7, <2>3 DEF LostBlocks
    <3> QED
      <4>1. /\ IsFiniteSet(LostBlocks(p) \cup {b})
            /\ Cardinality(LostBlocks(p) \cup {b})
                 = Cardinality(LostBlocks(p)) + 1
        BY <2>1, <3>2, FS_AddElement
      <4> QED
        BY <2>1, <3>1, <3>2, <4>1
  <2> QED
    BY <1>8, <2>2, <2>3
<1>15. PoolInv(p)'
  <2>1. Account(BytesOf(pool'[p].freeRanges), Charged(p)', BytesOf(arena'[p]))
    <3>1. Account(BytesOf(pool[p].freeRanges), Charged(p), BytesOf(arena[p]))
      BY <1>1 DEF PoolInv
    <3>2. Account(BytesOf(pool[p].freeRanges) \ Bytes(b), Charged(p) \cup {b},
                  BytesOf(arena[p]))
      BY <3>1, <1>2, AccountTake
    <3> QED
      BY <3>2, <1>2, <1>13
  <2>2. pool'[p].allocatedBlocks
          = Cardinality(LivePtrs(p)') + Cardinality(LostBlocks(p)')
    BY <1>1, <1>2, <1>14 DEF PoolInv
  <2>3. PoolCounted(pool'[p], arena'[p])
    BY <1>2
  <2> QED
    BY <1>14, <2>1, <2>2, <2>3 DEF PoolInv
<1> QED
  BY <1>9, <1>10, <1>12, <1>15 DEF HeapInv

(* A step that leaves every block and every free byte alone.               *)
Quiet ==
  /\ pool' \in [Pools -> PoolRecords]
  /\ \A q \in Pools : /\ PoolCounted(pool'[q], arena[q])
                      /\ SameAccount(pool[q], pool'[q])
  /\ held' \subseteq Ptrs
  /\ UNCHANGED <<live, lost, threshold, arena>>

LEMMA QuietKeeps == HeapInv /\ Quiet => HeapInv'
<1> SUFFICES ASSUME HeapInv, Quiet PROVE HeapInv'
  OBVIOUS
<1>1. HeapTypeOK /\ OneOwner /\ \A q \in Pools : PoolInv(q)
  BY DEF HeapInv
<1>2. HeapTypeOK' /\ OneOwner'
  BY <1>1 DEF HeapTypeOK, OneOwner, Quiet
<1>3. ASSUME NEW q \in Pools PROVE PoolInv(q)'
  <2>1. /\ LivePtrs(q)' = LivePtrs(q) /\ LostBlocks(q)' = LostBlocks(q)
        /\ Charged(q)' = Charged(q)
    BY DEF LivePtrs, LostBlocks, Charged, Quiet
  <2>2. /\ pool'[q].freeRanges = pool[q].freeRanges /\ arena' = arena
        /\ pool'[q].allocatedBlocks = pool[q].allocatedBlocks
        /\ PoolCounted(pool'[q], arena'[q])
    BY DEF Quiet, SameAccount
  <2> QED
    BY <1>1, <2>1, <2>2 DEF PoolInv
<1> QED
  BY <1>2, <1>3 DEF HeapInv

LEMMA RefusedIsQuiet ==
  ASSUME HeapInv, NEW tried,
         pool' = [q \in Pools |-> IF q \in tried THEN Refused(pool[q])
                                  ELSE pool[q]],
         held' \subseteq Ptrs, UNCHANGED <<live, lost, threshold, arena>>
  PROVE  Quiet
<1>1. ASSUME NEW q \in Pools
      PROVE  /\ pool'[q] \in PoolRecords /\ PoolCounted(pool'[q], arena[q])
             /\ SameAccount(pool[q], pool'[q])
  <2>1. pool'[q] \in {pool[q], Refused(pool[q])}
    OBVIOUS
  <2>2. pool[q] \in PoolRecords /\ PoolCounted(pool[q], arena[q])
    BY DEF HeapInv, HeapTypeOK, PoolInv
  <2> QED
    BY <2>1, <2>2, RefusedFacts
<1>2. pool' \in [Pools -> PoolRecords]
  <2>1. pool' = [q \in Pools |-> pool'[q]]
    OBVIOUS
  <2> QED
    BY <1>1, <2>1
<1> QED
  BY <1>1, <1>2 DEF Quiet

(* ptr has given back the bytes of its block b.                            *)
Released(ptr, b) ==
  /\ b = live[ptr] /\ b # NoBlock /\ b \in Blocks
  /\ pool' \in [Pools -> PoolRecords]
  /\ \A q \in Pools : PoolCounted(pool'[q], arena[q])
  /\ BytesOf(pool'[b.pool].freeRanges)
       = BytesOf(pool[b.pool].freeRanges) \cup Bytes(b)
  /\ pool'[b.pool].allocatedBlocks = pool[b.pool].allocatedBlocks - 1
  /\ \A q \in Pools \ {b.pool} : SameAccount(pool[q], pool'[q])
  /\ held' = held \ {ptr}
  /\ live' = [live EXCEPT ![ptr] = NoBlock]
  /\ UNCHANGED <<threshold, arena, lost>>

LEMMA ReleaseFacts ==
  ASSUME HeapInv, NEW ptr \in Ptrs, Release(ptr)
  PROVE  Released(ptr, live[ptr])
<1> DEFINE b == live[ptr]
           p == b.pool
           f == [start |-> b.start, size |-> b.size]
           c == Returned(pool[p], f)
<1>1. /\ b # NoBlock /\ held' = held \ {ptr}
      /\ live' = [live EXCEPT ![ptr] = NoBlock]
      /\ UNCHANGED <<threshold, arena, lost>>
      /\ pool' = [pool EXCEPT ![p] = c]
  BY DEF Release
<1>2. b \in Blocks
  BY <1>1 DEF HeapInv, HeapTypeOK
<1>3. p \in Pools /\ b \in Charged(p) /\ ptr \in LivePtrs(p)
  BY <1>1, <1>2 DEF Blocks, Charged, LivePtrs
<1>4. f \in FreeRanges /\ Bytes(f) = Bytes(b)
  BY <1>2, BlockIsRange
<1> HIDE DEF f, c
<1>5. /\ pool \in [Pools -> PoolRecords] /\ PoolInv(p)
      /\ \A q \in Pools : PoolCounted(pool[q], arena[q])
  BY <1>3 DEF HeapInv, HeapTypeOK, PoolInv
<1>6. Bytes(b) \cap BytesOf(pool[p].freeRanges) = {}
  BY <1>3, <1>5 DEF PoolInv, Account
<1>7. pool[p].allocatedBlocks # 0
  <2>1. Cardinality(LivePtrs(p)) \in Nat
        /\ Cardinality(LostBlocks(p)) \in Nat
    BY <1>5, FS_CardinalityType DEF PoolInv
  <2>2. Cardinality(LivePtrs(p)) # 0
    BY <1>3, <1>5, FS_EmptySet DEF PoolInv
  <2> QED
    BY <1>5, <2>1, <2>2 DEF PoolInv
<1>8. /\ c \in PoolRecords /\ PoolCounted(c, arena[p])
      /\ BytesOf(c.freeRanges) = BytesOf(pool[p].freeRanges) \cup Bytes(f)
      /\ c.allocatedBlocks = pool[p].allocatedBlocks - 1
  <2>1. pool[p] \in PoolRecords /\ PoolCounted(pool[p], arena[p])
        /\ Bytes(f) \cap BytesOf(pool[p].freeRanges) = {}
        /\ c = Returned(pool[p], f)
    BY <1>3, <1>4, <1>5, <1>6 DEF c
  <2> HIDE DEF p
  <2> QED
    BY <1>4, <1>7, <2>1, ReturnedFacts
<1>9. pool' \in [Pools -> PoolRecords] /\ pool'[p] = c
      /\ \A q \in Pools \ {p} : pool'[q] = pool[q]
  BY <1>1, <1>3, <1>5, <1>8
<1>10. \A q \in Pools : PoolCounted(pool'[q], arena[q])
  BY <1>5, <1>8, <1>9
<1>11. \A q \in Pools \ {p} : SameAccount(pool[q], pool'[q])
  BY <1>9 DEF SameAccount
<1> QED
  BY <1>1, <1>2, <1>4, <1>8, <1>9, <1>10, <1>11 DEF Released

LEMMA ReleasedKeeps ==
  ASSUME HeapInv, NEW ptr \in Ptrs, NEW b, Released(ptr, b)
  PROVE  HeapInv'
<1> DEFINE p == b.pool
<1>1. HeapTypeOK /\ OneOwner /\ \A q \in Pools : PoolInv(q)
  BY DEF HeapInv
<1>2. /\ b = live[ptr] /\ b # NoBlock /\ b \in Blocks /\ p \in Pools
      /\ pool' \in [Pools -> PoolRecords]
      /\ \A q \in Pools : PoolCounted(pool'[q], arena[q])
      /\ BytesOf(pool'[p].freeRanges)
           = BytesOf(pool[p].freeRanges) \cup Bytes(b)
      /\ pool'[p].allocatedBlocks = pool[p].allocatedBlocks - 1
      /\ arena' = arena /\ threshold' = threshold /\ lost' = lost
      /\ held' = held \ {ptr}
  BY DEF Released, Blocks
<1>3. ASSUME NEW q \in Pools, q # p
      PROVE  pool'[q].freeRanges = pool[q].freeRanges
             /\ pool'[q].allocatedBlocks = pool[q].allocatedBlocks
  BY <1>3 DEF Released, SameAccount
<1>4. live \in [Ptrs -> Blocks \cup {NoBlock}] /\ held \subseteq Ptrs
      /\ live' = [live EXCEPT ![ptr] = NoBlock]
  BY <1>1 DEF HeapTypeOK, Released
<1>5. \A other \in Ptrs : live'[other] = IF other = ptr THEN NoBlock
                                         ELSE live[other]
  BY <1>4
<1>6. HeapTypeOK'
  <2>1. live' \in [Ptrs -> Blocks \cup {NoBlock}] /\ held' \subseteq Ptrs
    BY <1>2, <1>4
  <2> QED
    BY <1>1, <1>2, <2>1 DEF HeapTypeOK
<1>7. OneOwner'
  BY <1>1, <1>2, <1>5 DEF OneOwner
<1>8. b \notin lost /\ \A other \in Ptrs : live[other] = b => other = ptr
  BY <1>1, <1>2 DEF OneOwner
<1> HIDE DEF p
<1>9. ASSUME NEW q \in Pools
      PROVE  /\ LostBlocks(q)' = LostBlocks(q)
             /\ LivePtrs(q)' = LivePtrs(q) \ {ptr}
             /\ Charged(q)' = Charged(q) \ {b}
             /\ q # p => ptr \notin LivePtrs(q) /\ b \notin Charged(q)
  <2>1. LostBlocks(q)' = LostBlocks(q)
    BY <1>2 DEF LostBlocks
  <2>2. LivePtrs(q)' = LivePtrs(q) \ {ptr}
    BY <1>5 DEF LivePtrs
  <2>3. \A other \in LivePtrs(q) \ {ptr} :
          live'[other] = live[other] /\ live[other] # b
    BY <1>5, <1>8 DEF LivePtrs
  <2>4. {live'[other] : other \in LivePtrs(q) \ {ptr}}
          = {live[other] : other \in LivePtrs(q)} \ {b}
    BY <1>2, <2>3
  <2>5. b \notin LostBlocks(q)
    BY <1>8 DEF LostBlocks
  <2>6. Charged(q)' = Charged(q) \ {b}
    BY <2>1, <2>2, <2>4, <2>5 DEF Charged
  <2>7. q # p => ptr \notin LivePtrs(q)
    BY <1>2 DEF LivePtrs, p
  <2>8. q # p => b \notin Charged(q)
    BY <1>8, <2>5, <2>7 DEF Charged, LivePtrs
  <2> QED
    BY <2>1, <2>2, <2>6, <2>7, <2>8
<1>10. ASSUME NEW q \in Pools, q # p PROVE PoolInv(q)'
  <2>1. /\ LostBlocks(q)' = LostBlocks(q) /\ LivePtrs(q)' = LivePtrs(q)
        /\ Charged(q)' = Charged(q)
    BY <1>9, <1>10
  <2>2. PoolCounted(pool'[q], arena'[q])
    BY <1>2
  <2> QED
    BY <1>1, <1>2, <1>3, <1>10, <2>1, <2>2 DEF PoolInv
<1>11. PoolInv(p)'
  <2>1. ptr \in LivePtrs(p) /\ b \in Charged(p)
    BY <1>2 DEF LivePtrs, Charged, p
  <2>2. /\ IsFiniteSet(LivePtrs(p)) /\ IsFiniteSet(LostBlocks(p))
        /\ Cardinality(LivePtrs(p)) \in Nat
        /\ Cardinality(LostBlocks(p)) \in Nat
        /\ pool[p].allocatedBlocks =
             Cardinality(LivePtrs(p)) + Cardinality(LostBlocks(p))
        /\ Account(BytesOf(pool[p].freeRanges), Charged(p), BytesOf(arena[p]))
    BY <1>1, <1>2, FS_CardinalityType DEF PoolInv
  <2>3. /\ IsFiniteSet(LivePtrs(p) \ {ptr})
        /\ Cardinality(LivePtrs(p) \ {ptr}) = Cardinality(LivePtrs(p)) - 1
    BY <2>1, <2>2, FS_RemoveElement
  <2>4. Account(BytesOf(pool[p].freeRanges) \cup Bytes(b), Charged(p) \ {b},
                BytesOf(arena[p]))
    BY <2>1, <2>2, AccountGive
  <2>5. Account(BytesOf(pool'[p].freeRanges), Charged(p)', BytesOf(arena'[p]))
    BY <1>2, <1>9, <2>4
  <2>a. LivePtrs(p)' = LivePtrs(p) \ {ptr} /\ LostBlocks(p)' = LostBlocks(p)
    BY <1>2, <1>9
  <2>b. pool'[p].allocatedBlocks = pool[p].allocatedBlocks - 1
    BY <1>2
  <2>c. pool'[p].allocatedBlocks =
          Cardinality(LivePtrs(p) \ {ptr}) + Cardinality(LostBlocks(p))
    BY <2>2, <2>3, <2>b
  <2>6. /\ IsFiniteSet(LivePtrs(p)') /\ IsFiniteSet(LostBlocks(p)')
        /\ pool'[p].allocatedBlocks =
             Cardinality(LivePtrs(p)') + Cardinality(LostBlocks(p)')
    BY ONLY <2>a, <2>c, <2>2, <2>3
  <2>7. PoolCounted(pool'[p], arena'[p])
    BY <1>2
  <2> QED
    BY <2>5, <2>6, <2>7 DEF PoolInv
<1> QED
  BY <1>6, <1>7, <1>10, <1>11 DEF HeapInv

LEMMA HeapInitial == Init => HeapInv
<1> SUFFICES ASSUME Init PROVE HeapInv
  OBVIOUS
<1>1. PICK env \in [Pools -> UNION {Configs[p] : p \in Pools}],
           fail \in [Pools -> BOOLEAN] :
        /\ \A p \in Pools : env[p] \in Configs[p]
        /\ pool = [p \in Pools |-> InitPool(env[p].total, env[p].free,
                                          env[p].largest, fail[p])]
  BY DEF Init
<1>2. ASSUME NEW p \in Pools
      PROVE  /\ pool[p] \in PoolRecords /\ PoolCounted(pool[p], arena[p])
             /\ pool[p].allocatedBlocks = 0
             /\ arena[p] = pool[p].freeRanges
  <2>1. env[p] \in [total : Nat, free : Nat, largest : Nat]
    BY <1>1, SimHeapAssumption
  <2>2. env[p].total \in Nat /\ env[p].free \in Nat /\ env[p].largest \in Nat
        /\ fail[p] \in BOOLEAN
    BY <2>1
  <2>3. pool[p] = InitPool(env[p].total, env[p].free, env[p].largest, fail[p])
    BY <1>1
  <2> DEFINE total == env[p].total
             envFree == env[p].free
             envLargest == env[p].largest
             injected == fail[p]
  <2>a. /\ total \in Nat /\ envFree \in Nat /\ envLargest \in Nat
        /\ injected \in BOOLEAN
        /\ pool[p] = InitPool(total, envFree, envLargest, injected)
    BY <2>2, <2>3
  <2> HIDE DEF total, envFree, envLargest, injected
  <2>4. /\ pool[p] \in PoolRecords /\ PoolCounted(pool[p], pool[p].freeRanges)
        /\ pool[p].allocatedBlocks = 0
    BY <2>a, InitPoolFacts
  <2>5. arena[p] = pool[p].freeRanges
    BY DEF Init
  <2> QED
    BY <2>4, <2>5
<1>3. live = [p \in Ptrs |-> NoBlock] /\ held = {} /\ lost = {}
      /\ threshold \in Nat
  BY SimHeapAssumption DEF Init
<1>4. pool \in [Pools -> PoolRecords] /\ arena \in [Pools -> Seq(FreeRanges)]
  <2>1. arena = [p \in Pools |-> pool[p].freeRanges]
    BY DEF Init
  <2>2. \A p \in Pools : pool[p] \in PoolRecords
    BY <1>2
  <2>3. pool = [p \in Pools |-> pool[p]]
    BY <1>1
  <2>4. \A p \in Pools : pool[p].freeRanges \in Seq(FreeRanges)
    BY <2>2 DEF PoolRecords
  <2> QED
    BY <2>1, <2>2, <2>3, <2>4
<1>5. HeapTypeOK /\ OneOwner
  BY <1>3, <1>4 DEF HeapTypeOK, OneOwner
<1>6. ASSUME NEW p \in Pools PROVE PoolInv(p)
  <2>1. LivePtrs(p) = {} /\ LostBlocks(p) = {}
    BY <1>3 DEF LivePtrs, LostBlocks
  <2>2. Charged(p) = {}
    BY <2>1 DEF Charged
  <2>3. Account(BytesOf(pool[p].freeRanges), {}, BytesOf(arena[p]))
    BY <1>2 DEF Account
  <2> QED
    BY <1>2, <2>1, <2>2, <2>3, FS_EmptySet DEF PoolInv
<1> QED
  BY <1>5, <1>6 DEF HeapInv

(* What any step of the heap comes to.                                     *)
LEMMA StepIs ==
  ASSUME HeapInv, [Next]_vars
  PROVE  \/ Quiet
         \/ /\ UNCHANGED <<threshold, arena>>
            /\ \E ptr \in Ptrs, p \in Pools, bytes \in Sizes :
                 \E b : Served(ptr, p, bytes, b)
         \/ \E ptr \in Ptrs : \E b : Released(ptr, b)
<1>1. HeapTypeOK /\ \A q \in Pools : PoolInv(q)
  BY DEF HeapInv
<1>2. ASSUME pool' = pool, held' \subseteq Ptrs,
             UNCHANGED <<live, lost, threshold, arena>>
      PROVE  Quiet
  BY <1>1, <1>2 DEF HeapTypeOK, PoolInv, Quiet, SameAccount
<1>3. ASSUME NEW ptr \in Ptrs, NEW p \in Pools, NEW refused,
             NEW bytes \in Sizes, NEW alignment \in Alignments, bytes # 0,
             Serve(ptr, p, refused, bytes, alignment)
      PROVE  \E b : Served(ptr, p, bytes, b)
  BY <1>3, ServeFacts, SimHeapAssumption
<1>4. ASSUME NEW ptr \in Ptrs, NEW preferred \in Pools,
             NEW mayFallback \in BOOLEAN, NEW bytes \in Sizes,
             NEW alignment \in Alignments, bytes # 0,
             AllocateWithFallback(ptr, preferred, mayFallback, bytes,
                                  alignment),
             UNCHANGED <<threshold, arena>>
      PROVE  \/ Quiet
             \/ /\ UNCHANGED <<threshold, arena>>
                /\ \E p \in Pools : \E b : Served(ptr, p, bytes, b)
  <2> DEFINE tried == {preferred} \cup IF mayFallback THEN Pools ELSE {}
  <2>1. \/ Serve(ptr, preferred, {}, bytes, alignment)
        \/ Serve(ptr, Other(preferred), {preferred}, bytes, alignment)
        \/ /\ pool' = [q \in Pools |-> IF q \in tried THEN Refused(pool[q])
                                       ELSE pool[q]]
           /\ UNCHANGED <<live, held, lost>>
    BY <1>4 DEF AllocateWithFallback
  <2> HIDE DEF tried
  <2>2. CASE Serve(ptr, preferred, {}, bytes, alignment)
    BY <1>4, <2>2, <1>3
  <2>3. CASE Serve(ptr, Other(preferred), {preferred}, bytes, alignment)
    BY <1>4, <2>3, <1>3 DEF Other, Pools
  <2>4. CASE /\ pool' = [q \in Pools |-> IF q \in tried THEN Refused(pool[q])
                                         ELSE pool[q]]
             /\ UNCHANGED <<live, held, lost>>
    <3>1. held' \subseteq Ptrs
      BY <1>1, <2>4 DEF HeapTypeOK
    <3>2. UNCHANGED <<live, lost, threshold, arena>>
      BY <1>4, <2>4
    <3> QED
      BY <2>4, <3>1, <3>2, RefusedIsQuiet
  <2> QED
    BY <2>1, <2>2, <2>3, <2>4
<1>5. ASSUME NEW ptr \in Ptrs, NEW bytes \in Sizes,
             NEW alignment \in Alignments, NEW caps \in CapSets,
             Allocate(ptr, caps, bytes, alignment)
      PROVE  \/ Quiet
             \/ /\ UNCHANGED <<threshold, arena>>
                /\ \E p \in Pools : \E b : Served(ptr, p, bytes, b)
  <2>1. CapabilityPool(caps) \in Pools
        /\ (UsesDefaultPool(caps) /\ PsramAvailable) \in BOOLEAN
    BY DEF CapabilityPool, Pools, UsesDefaultPool, PsramAvailable
  <2> QED
    BY <1>5, <2>1, <1>4 DEF Allocate
<1>6. ASSUME NEW ptr \in Ptrs, NEW bytes \in Sizes,
             NEW alignment \in Alignments,
             AllocateDefaultMalloc(ptr, bytes, alignment)
      PROVE  \/ Quiet
             \/ /\ UNCHANGED <<threshold, arena>>
                /\ \E p \in Pools : \E b : Served(ptr, p, bytes, b)
  <2> DEFINE first == IF PsramAvailable /\ bytes > threshold
                      THEN "psram" ELSE "internal"
  <2>1. first \in Pools /\ PsramAvailable \in BOOLEAN
    BY DEF Pools, PsramAvailable
  <2>2. /\ bytes # 0 /\ UNCHANGED <<threshold, arena>>
        /\ AllocateWithFallback(ptr, first, PsramAvailable, bytes, alignment)
    BY <1>6 DEF AllocateDefaultMalloc
  <2> HIDE DEF first
  <2> QED
    BY <2>1, <2>2, <1>4
<1>7. ASSUME NEW ptr \in Ptrs, Release(ptr)
      PROVE  \E b : Released(ptr, b)
  BY <1>7, ReleaseFacts
<1>8. ASSUME NEW ptr \in Ptrs,
             ReleaseForeign(ptr) \/ HostMalloc(ptr) \/ HostFree(ptr)
      PROVE  Quiet
  BY <1>1, <1>2, <1>8 DEF ReleaseForeign, HostMalloc, HostFree, HeapTypeOK
<1>9. CASE UNCHANGED vars
  BY <1>1, <1>2, <1>9 DEF vars, HeapTypeOK
<1> QED
  BY <1>5, <1>6, <1>7, <1>8, <1>9 DEF Next

LEMMA HeapStep == HeapInv /\ [Next]_vars => HeapInv'
BY StepIs, QuietKeeps, ServedKeeps, ReleasedKeeps

(* Every history of allocations, refusals and releases keeps the heap's    *)
(* invariant: the list is sorted and coalesced, its bytes and the charged  *)
(* blocks partition the arena, and the counters count them                 *)
(* (allocateFromPool, freeRange, release).                                 *)
THEOREM HeapCorrect == Spec => []HeapInv
BY HeapInitial, HeapStep, PTL DEF Spec

(* What heap_caps_get_free_size, _minimum_free_size, _largest_free_block   *)
(* and _info report is what the lists say.                                 *)
THEOREM CountersExact == Spec => []CountersAgree
<1>1. HeapInv => CountersAgree
  BY DEF HeapInv, PoolInv, PoolCounted, CountersAgree
<1> QED
  BY <1>1, HeapCorrect, PTL

(* No byte of the arena is handed out twice or leaks, whatever sizes and   *)
(* alignments are mixed, and neighbours are always joined                  *)
(* (allocateFromPool, freeRange).                                          *)
THEOREM ArenaIsAccounted == Spec => []ArenaAccounted
<1>1. HeapInv => ArenaAccounted
  BY DEF HeapInv, PoolInv, PoolCounted, Account, ArenaAccounted,
         FreeListCoalesced, BytesPartitioned
<1> QED
  BY <1>1, HeapCorrect, PTL

(* A request for INTERNAL or SPIRAM leaves the other pool alone, even its  *)
(* injected failure (capabilityPoolFor, allocateWithFallback).             *)
THEOREM StrictStay == Spec => StrictRequests
<1>1. ASSUME NEW caps \in {"INTERNAL", "SPIRAM"}, NEW ptr \in Ptrs,
             NEW bytes \in Sizes, NEW alignment \in Alignments,
             Allocate(ptr, {caps}, bytes, alignment)
      PROVE  LET other == IF caps = "INTERNAL" THEN "psram" ELSE "internal"
             IN  pool'[other] = pool[other]
  <2> DEFINE preferred == IF caps = "INTERNAL" THEN "internal" ELSE "psram"
             other == IF caps = "INTERNAL" THEN "psram" ELSE "internal"
  <2>1. preferred # other /\ other \in Pools
    BY DEF Pools
  <2>2. ~UsesDefaultPool({caps}) /\ CapabilityPool({caps}) = preferred
    BY DEF UsesDefaultPool, CapabilityPool
  <2>3. AllocateWithFallback(ptr, preferred, FALSE, bytes, alignment)
    BY <1>1, <2>2 DEF Allocate
  <2> HIDE DEF preferred, other
  <2>4. pool'[other] = pool[other]
    BY <2>1, <2>3 DEF AllocateWithFallback, Serve
  <2> QED
    BY <2>4 DEF other
<1>2. Next \/ UNCHANGED vars =>
        \A caps \in {"INTERNAL", "SPIRAM"} :
          LET other == IF caps = "INTERNAL" THEN "psram" ELSE "internal"
          IN  pool'[other] # pool[other] =>
                ~ \E ptr \in Ptrs, bytes \in Sizes, alignment \in Alignments :
                    Allocate(ptr, {caps}, bytes, alignment)
  BY <1>1
<1> QED
  BY <1>2, PTL DEF Spec, StrictRequests

-----------------------------------------------------------------------------
(* The heap of byte sets.                                                  *)

LEMMA ServedMaps ==
  ASSUME HeapInv, NEW ptr \in Ptrs, NEW p \in Pools, NEW bytes \in Sizes,
         NEW b, Served(ptr, p, bytes, b)
  PROVE  Abstract!Next
<1>1. /\ live \in [Ptrs -> Blocks \cup {NoBlock}]
      /\ pool \in [Pools -> PoolRecords]
  BY DEF HeapInv, HeapTypeOK
<1>2. /\ b \in Blocks /\ b.pool = p /\ b.size = bytes
      /\ Bytes(b) \subseteq BytesOf(pool[p].freeRanges)
      /\ BytesOf(pool'[p].freeRanges) = BytesOf(pool[p].freeRanges) \ Bytes(b)
      /\ \A q \in Pools \ {p} :
           BytesOf(pool'[q].freeRanges) = BytesOf(pool[q].freeRanges)
      /\ Record(ptr, b)
  BY DEF Served, SameAccount
<1>3. b.start \in Nat /\ bytes \in Nat \ {0}
  BY <1>2 DEF Blocks
<1>4. Bytes(b) = b.start .. b.start + bytes - 1 /\ b.start \in Bytes(b)
  BY <1>2, <1>3 DEF Bytes, End
<1>5. Abstract!Taken(p) = Bytes(b)
  BY <1>2 DEF Abstract!Taken
<1>6. Abstract!Takes(p)
  <2>1. \E size \in Sizes, start \in Bytes(b) :
          Bytes(b) = start .. start + size - 1
    BY <1>4
  <2>2. [q \in Pools |-> BytesOf(pool'[q].freeRanges)] =
          [[q \in Pools |-> BytesOf(pool[q].freeRanges)]
             EXCEPT ![p] = @ \ Bytes(b)]
    BY <1>2
  <2> QED
    BY <1>5, <2>1, <2>2 DEF Abstract!Takes
<1>7. CASE live[ptr] = NoBlock
  <2>1. live' = [live EXCEPT ![ptr] = b]
    BY <1>2, <1>7 DEF Record
  <2>2. b # NoBlock
    BY <1>2, SimHeapAssumption
  <2>3. Abstract!Allocate(ptr, p)
    BY <1>1, <1>2, <1>5, <1>6, <1>7, <2>1, <2>2 DEF Abstract!Allocate
  <2> QED
    BY <2>3 DEF Abstract!Next
<1>8. CASE live[ptr] # NoBlock
  <2>1. live' = live
    BY <1>2, <1>8 DEF Record
  <2>2. Bytes(live[ptr]) # {}
    BY <1>1, <1>8, BlockIsRange
  <2>3. {live[ptr].pool} \X Bytes(live[ptr]) # {}
    <3>1. PICK n \in Bytes(live[ptr]) : TRUE
      BY <2>2
    <3>2. <<live[ptr].pool, n>> \in {live[ptr].pool} \X Bytes(live[ptr])
      BY <3>1
    <3> QED
      BY <3>2
  <2>4. [other \in Ptrs |-> IF live[other] = NoBlock THEN {}
                          ELSE {live[other].pool} \X Bytes(live[other])][ptr]
          # {}
    BY <1>8, <2>3
  <2>5. Abstract!Lose(ptr, p)
    BY <1>6, <2>1, <2>4 DEF Abstract!Lose
  <2> QED
    BY <2>5 DEF Abstract!Next
<1> QED
  BY <1>7, <1>8

LEMMA ReleasedMaps ==
  ASSUME HeapInv, NEW ptr \in Ptrs, NEW b, Released(ptr, b)
  PROVE  Abstract!Next
<1>1. /\ live \in [Ptrs -> Blocks \cup {NoBlock}]
      /\ pool \in [Pools -> PoolRecords]
  BY DEF HeapInv, HeapTypeOK
<1>2. /\ b = live[ptr] /\ b # NoBlock /\ b \in Blocks /\ b.pool \in Pools
      /\ BytesOf(pool'[b.pool].freeRanges)
           = BytesOf(pool[b.pool].freeRanges) \cup Bytes(b)
      /\ \A q \in Pools \ {b.pool} :
           BytesOf(pool'[q].freeRanges) = BytesOf(pool[q].freeRanges)
      /\ live' = [live EXCEPT ![ptr] = NoBlock]
  BY DEF Released, SameAccount, Blocks
<1>3. Bytes(b) # {}
  BY <1>2, BlockIsRange
<1>4. ASSUME NEW q \in Pools
      PROVE  BytesOf(pool'[q].freeRanges) =
               BytesOf(pool[q].freeRanges)
                 \cup {x[2] : x \in {y \in {b.pool} \X Bytes(b) : y[1] = q}}
  <2>1. CASE q = b.pool
    <3>1. {y \in {b.pool} \X Bytes(b) : y[1] = q} = {q} \X Bytes(b)
      BY <2>1
    <3>2. \A x \in {q} \X Bytes(b) : x[2] \in Bytes(b)
      OBVIOUS
    <3>3. ASSUME NEW n \in Bytes(b)
          PROVE  \E x \in {q} \X Bytes(b) : x[2] = n
      <4>1. <<q, n>> \in {q} \X Bytes(b) /\ <<q, n>>[2] = n
        OBVIOUS
      <4> QED
        BY <4>1
    <3>4. {x[2] : x \in {q} \X Bytes(b)} = Bytes(b)
      BY <3>2, <3>3
    <3> QED
      BY <1>2, <2>1, <3>1, <3>4
  <2>2. CASE q # b.pool
    BY <1>2, <2>2
  <2> QED
    BY <2>1, <2>2
<1>5. {b.pool} \X Bytes(b) # {}
  <2>1. PICK n \in Bytes(b) : TRUE
    BY <1>3
  <2>2. <<b.pool, n>> \in {b.pool} \X Bytes(b)
    BY <2>1
  <2> QED
    BY <2>2
<1> DEFINE held1 == [other \in Ptrs |->
                       IF live[other] = NoBlock THEN {}
                       ELSE {live[other].pool} \X Bytes(live[other])]
           held2 == [other \in Ptrs |->
                       IF live'[other] = NoBlock THEN {}
                       ELSE {live'[other].pool} \X Bytes(live'[other])]
           free1 == [q \in Pools |-> BytesOf(pool[q].freeRanges)]
           free2 == [q \in Pools |-> BytesOf(pool'[q].freeRanges)]
<1>6. held1[ptr] = {b.pool} \X Bytes(b)
  BY <1>2
<1>7. held2 = [held1 EXCEPT ![ptr] = {}]
  BY <1>1, <1>2
<1>8. free2 = [q \in Pools |->
                free1[q] \cup {x[2] : x \in {y \in held1[ptr] : y[1] = q}}]
  BY <1>4, <1>6
<1>9. Abstract!Release(ptr)
  BY <1>5, <1>6, <1>7, <1>8 DEF Abstract!Release
<1> QED
  BY <1>9 DEF Abstract!Next

LEMMA QuietMaps ==
  ASSUME Quiet PROVE UNCHANGED Abstract!absVars
BY DEF Quiet, SameAccount, Abstract!absVars

(* The allocator of lists and counters gives and takes contiguous runs of  *)
(* free bytes and forgets none but those whose pointer had been given to   *)
(* libc free (allocateFromPool, live.emplace, release).                    *)
THEOREM HeapRefines == Spec => AbstractSpec
<1>1. Init => Abstract!Init
  <2> SUFFICES ASSUME Init PROVE Abstract!Init
    OBVIOUS
  <2>1. HeapInv /\ live = [p \in Ptrs |-> NoBlock]
    BY HeapInitial DEF Init
  <2>2. \A p \in Pools : pool[p].freeRanges \in Seq(FreeRanges)
    BY <2>1 DEF HeapInv, HeapTypeOK, PoolRecords
  <2>3. \A p \in Pools : BytesOf(pool[p].freeRanges) \subseteq Nat
    <3> SUFFICES ASSUME NEW p \in Pools,
                        NEW n \in BytesOf(pool[p].freeRanges)
                 PROVE  n \in Nat
      OBVIOUS
    <3>1. PICK i \in DOMAIN pool[p].freeRanges :
            n \in Bytes(pool[p].freeRanges[i])
      BY DEF BytesOf
    <3>2. pool[p].freeRanges[i] \in FreeRanges
      BY <2>2, <3>1
    <3> QED
      BY <3>1, <3>2 DEF Bytes, End, FreeRanges
  <2> QED
    BY <2>1, <2>3 DEF Abstract!Init
<1>2. HeapInv /\ [Next]_vars => [Abstract!Next]_(Abstract!absVars)
  BY StepIs, ServedMaps, ReleasedMaps, QuietMaps
<1> QED
  BY <1>1, <1>2, HeapCorrect, PTL DEF Spec, AbstractSpec, Abstract!Spec

-----------------------------------------------------------------------------
(* Tasks: the render mutex and the notifications.                          *)

USE SimTasksAssumption

(* The labels at which a thread has the mutex, and holdCount lags behind   *)
(* or runs ahead of it by one.                                             *)
Lagging == {"locked", "unlock", "peeking"}

(* The book-keeping of SimMutex against the mutex itself.                  *)
HolderInv ==
  /\ pc \in [Threads -> Labels]
  /\ owner \in Threads \cup {None}
  /\ depth \in Nat /\ holdCount \in Nat
  /\ \A t \in Threads : pc[t] \in Lagging => owner = t
  /\ owner = None => depth = 0 /\ holdCount = 0
  /\ owner # None => depth > 0
  /\ owner # None =>
       depth = IF pc[owner] \in Lagging THEN holdCount + 1 ELSE holdCount
  /\ holder = IF holdCount = 0 THEN None ELSE Current(owner)

LEMMA CurrentFacts ==
  /\ \A t \in Tasks : Current(t) = t /\ t \in Threads /\ t # None
  /\ \A t \in Others : Current(t) = Main /\ Main # None
  /\ \A t \in Threads : t # None /\ Current(t) # None
BY DEF Current, Threads

LEMMA HolderStep == HolderInv /\ [TasksNext]_allTaskVars => HolderInv'
<1> SUFFICES ASSUME HolderInv, [TasksNext]_allTaskVars PROVE HolderInv'
  OBVIOUS
<1> USE CurrentFacts DEF HolderInv, Lagging, Labels, Goto, taskVars, mutexVars
<1>1. ASSUME NEW t \in Threads, NEW u \in Tasks, Create(t, u) \/ Delete(t, u)
      PROVE  HolderInv'
  <2>1. UNCHANGED mutexVars
        /\ pc' \in [Threads -> Labels]
        /\ \A w \in Threads : pc[w] \in Lagging <=> pc'[w] \in Lagging
    BY <1>1 DEF Create, Delete
  <2>2. QED BY <2>1
<1>2. ASSUME NEW t \in Threads,
             \/ Publish(t) \/ Return(t) \/ StartTake(t) \/ Take(t) \/ Sleep(t)
             \/ WakeSpuriously(t) \/ StartLock(t)
             \/ \E h \in Handles : Notify(t, h)
      PROVE  HolderInv'
  <2>1. UNCHANGED mutexVars
        /\ pc' \in [Threads -> Labels]
        /\ \A w \in Threads : pc[w] \in Lagging <=> pc'[w] \in Lagging
    BY <1>2 DEF Publish, Return, StartTake, Take, Sleep, WakeSpuriously,
                StartLock, Notify
  <2>2. QED BY <2>1
<1>3. ASSUME NEW t \in Threads, Signal(t) PROVE HolderInv'
  <2>1. UNCHANGED mutexVars
        /\ pc' \in [Threads -> Labels]
        /\ \A w \in Threads : pc[w] \in Lagging <=> pc'[w] \in Lagging
    BY <1>3 DEF Signal, Sleepers
  <2>2. QED BY <2>1
<1>4. ASSUME NEW t \in Threads, Lock(t) PROVE HolderInv'
  BY <1>4 DEF Lock, Free
<1>5. ASSUME NEW t \in Threads, SetHolder(t) PROVE HolderInv'
  BY <1>5 DEF SetHolder
<1>6. ASSUME NEW t \in Threads, Give(t) PROVE HolderInv'
  BY <1>6 DEF Give
<1>7. ASSUME NEW t \in Threads, Unlock(t) \/ PeekDone(t) PROVE HolderInv'
  BY <1>7 DEF Unlock, PeekDone, Unnest
<1>8. ASSUME NEW t \in Threads, PeekTry(t) PROVE HolderInv'
  BY <1>8 DEF PeekTry, Free
<1>9. CASE UNCHANGED allTaskVars
  BY <1>9 DEF allTaskVars
<1>10. QED
  BY <1>1, <1>2, <1>3, <1>4, <1>5, <1>6, <1>7, <1>8, <1>9 DEF TasksNext

(* A task that reads holder without the mutex still learns whether it is   *)
(* itself the holder (xSemaphoreGetMutexHolder, semphr.h:43).              *)
THEOREM HolderReadIsSafe == TasksSpec => []HolderIsSelf
<1>1. TasksInit => HolderInv
  BY CurrentFacts DEF TasksInit, HolderInv, Lagging, Labels, Threads
<1>2. HolderInv /\ [TasksNext]_allTaskVars => HolderInv'
  BY HolderStep
<1>3. HolderInv => HolderIsSelf
  <2> SUFFICES ASSUME HolderInv, NEW t \in Tasks, pc[t] = "run"
               PROVE  /\ holder = t <=> owner = t
                      /\ owner = t => holdCount = depth
    BY DEF HolderIsSelf
  <2> QED
    BY CurrentFacts DEF HolderInv, Lagging, Threads, Current
<1>4. QED BY <1>1, <1>2, <1>3, PTL DEF TasksSpec

-----------------------------------------------------------------------------

(* A thread that is about to lock a mutex it owns has room for one more    *)
(* nesting; one about to publish holds the handle of the task it made.     *)
TypeInv ==
  /\ TypeOK
  /\ \A t \in Threads :
       /\ owner = t /\ pc[t] = "lock" => depth < MaxDepth
       /\ pc[t] = "publish" => target[t] \in Tasks
       /\ pc[t] = "signal" => target[t] \in Handles

LEMMA CurrentHandle == \A t \in Threads : Current(t) \in Handles
BY DEF Current, Handles, Threads

LEMMA TypeStep ==
  HolderInv /\ HolderInv' /\ TypeInv /\ [TasksNext]_allTaskVars => TypeInv'
<1> SUFFICES ASSUME HolderInv, HolderInv', TypeInv, [TasksNext]_allTaskVars
             PROVE  TypeInv'
  OBVIOUS
<1> USE DEF TypeInv, TypeOK, Goto, taskVars, mutexVars
<1>1. ASSUME NEW t \in Threads, NEW u \in Tasks, Create(t, u)
      PROVE  TypeInv'
  BY <1>1 DEF Create, Labels, Threads, Handles
<1>2. ASSUME NEW t \in Threads, NEW u \in Tasks, Delete(t, u)
      PROVE  TypeInv'
  BY <1>2 DEF Delete, Labels, Threads, Handles
<1>3. ASSUME NEW t \in Threads, NEW h \in Handles, Notify(t, h)
      PROVE  TypeInv'
  <2>1. count' \in [Handles -> 0 .. MaxCount]
    <3>1. count[h] + 1 \in 0 .. MaxCount
      BY <1>3 DEF Notify
    <3>2. QED BY <1>3, <3>1 DEF Notify
  <2>2. target' \in [Threads -> Handles \cup {None}]
    BY <1>3 DEF Notify
  <2>3. QED BY <1>3, <2>1, <2>2 DEF Notify, Labels
<1>4. ASSUME NEW t \in Threads, Take(t) PROVE TypeInv'
  <2>1. count' \in [Handles -> 0 .. MaxCount]
    <3>1. count[Current(t)] - 1 \in 0 .. MaxCount
      BY <1>4, CurrentHandle DEF Take
    <3>2. QED BY <1>4, <3>1, CurrentHandle DEF Take
  <2>2. QED BY <1>4, <2>1 DEF Take, Labels
<1>5. ASSUME NEW t \in Threads, Signal(t) PROVE TypeInv'
  BY <1>5 DEF Signal, Sleepers, Labels
<1>6. ASSUME NEW t \in Threads, Publish(t) PROVE TypeInv'
  BY <1>6 DEF Publish, Labels
<1>7. ASSUME NEW t \in Threads,
             \/ Return(t) \/ StartTake(t) \/ Sleep(t) \/ WakeSpuriously(t)
             \/ StartLock(t)
      PROVE  TypeInv'
  BY <1>7 DEF Return, StartTake, Sleep, WakeSpuriously, StartLock, Labels
<1>8. ASSUME NEW t \in Threads, Lock(t) PROVE TypeInv'
  BY <1>8, CurrentFacts
     DEF Lock, Free, HolderInv, Labels
<1>9. ASSUME NEW t \in Threads, SetHolder(t) PROVE TypeInv'
  <2>1. holdCount' <= depth /\ holder' \in Handles
    BY <1>9, CurrentFacts, CurrentHandle
       DEF SetHolder, HolderInv, Lagging
  <2>2. QED BY <1>9, <2>1 DEF SetHolder, Labels, HolderInv
<1>10. ASSUME NEW t \in Threads, Give(t) PROVE TypeInv'
  BY <1>10 DEF Give, Labels
<1>11. ASSUME NEW t \in Threads, Unlock(t) \/ PeekDone(t) PROVE TypeInv'
  <2>1. owner = t /\ depth > 0
    BY <1>11, CurrentFacts DEF Unlock, PeekDone, HolderInv, Lagging
  <2>2. QED
    BY <1>11, <2>1, CurrentFacts DEF Unlock, PeekDone, Unnest, Labels
<1>12. ASSUME NEW t \in Threads, PeekTry(t) PROVE TypeInv'
  BY <1>12, CurrentFacts DEF PeekTry, Free, HolderInv, Labels
<1>13. CASE UNCHANGED allTaskVars
  BY <1>13 DEF allTaskVars
<1>14. QED
  BY <1>1, <1>2, <1>3, <1>4, <1>5, <1>6, <1>7, <1>8, <1>9, <1>10, <1>11,
     <1>12, <1>13 DEF TasksNext

(* Notification counts never go below zero, handles are published only for *)
(* tasks, and a mutex is never nested deeper than its users ask for        *)
(* (xTaskNotify, ulTaskNotifyTake, xSemaphoreTake, xQueuePeek).            *)
THEOREM TypeCorrect == TasksSpec => []TypeOK
<1>1. TasksInit => HolderInv /\ TypeInv
  BY CurrentFacts
     DEF TasksInit, HolderInv, Lagging, Labels, Threads, TypeInv, TypeOK,
         Handles
<1>2. HolderInv /\ TypeInv /\ [TasksNext]_allTaskVars
        => (HolderInv /\ TypeInv)'
  BY HolderStep, TypeStep
<1>3. TypeInv => TypeOK
  BY DEF TypeInv
<1>4. QED BY <1>1, <1>2, <1>3, PTL DEF TasksSpec

-----------------------------------------------------------------------------
(* No lost wake-up.                                                        *)

(* The threads that will yet see to a notification of h.                   *)
Busy(h) ==
  {t \in Threads : \/ pc[t] = "signal" /\ target[t] = h
                   \/ pc[t] = "check" /\ Current(t) = h}

(* While anyone sleeps there are as many of them as notifications: one of  *)
(* them alone could take its own and leave a second one to a sleeper.      *)
BusyInv ==
  \A h \in Handles : Sleepers(h) # {} => Cardinality(Busy(h)) >= count[h]

LEMMA BusyFinite == \A h : IsFiniteSet(Busy(h)) /\ IsFiniteSet(Busy(h)')
<1>1. IsFiniteSet(Threads)
  BY DEF Threads
<1>2. \A h : Busy(h) \subseteq Threads /\ Busy(h)' \subseteq Threads
  BY DEF Busy
<1>3. QED BY <1>1, <1>2, FS_Subset

(* A handle whose sleepers, notifications and busy threads stay the same.  *)
LEMMA BusySame ==
  ASSUME BusyInv, NEW h \in Handles, Busy(h) \subseteq Busy(h)',
         Sleepers(h)' # {} => Sleepers(h) # {}, count'[h] \in Nat,
         count[h] \in Nat, count'[h] <= count[h]
  PROVE  Sleepers(h)' # {} => Cardinality(Busy(h)') >= count'[h]
<1>1. Cardinality(Busy(h)) <= Cardinality(Busy(h)')
  BY BusyFinite, FS_Subset
<1>2. Cardinality(Busy(h)) \in Nat /\ Cardinality(Busy(h)') \in Nat
  BY BusyFinite, FS_CardinalityType
<1>3. QED BY <1>1, <1>2 DEF BusyInv

LEMMA BusyStep == TypeInv /\ BusyInv /\ [TasksNext]_allTaskVars => BusyInv'
<1> SUFFICES ASSUME TypeInv, BusyInv, [TasksNext]_allTaskVars,
                    NEW h \in Handles, Sleepers(h)' # {}
             PROVE  Cardinality(Busy(h)') >= count'[h]
  BY DEF BusyInv
<1> USE DEF Goto, taskVars
<1>0. /\ count \in [Handles -> Nat] /\ pc \in [Threads -> Labels]
      /\ target \in [Threads -> Handles \cup {None}]
      /\ Cardinality(Busy(h)) \in Nat
  BY BusyFinite, FS_CardinalityType DEF TypeInv, TypeOK
<1>1. ASSUME NEW t \in Threads, NEW g \in Handles, Notify(t, g)
      PROVE  Cardinality(Busy(h)') >= count'[h]
  <2>1. CASE g # h
    <3>1. Busy(h) \subseteq Busy(h)' /\ Sleepers(h) # {}
      BY <1>0, <1>1, <2>1 DEF Notify, Busy, Sleepers
    <3>2. count'[h] = count[h]
      BY <1>0, <1>1, <2>1 DEF Notify
    <3>3. QED BY <1>0, <3>1, <3>2, BusySame
  <2>2. CASE g = h
    <3>1. Busy(h)' = Busy(h) \cup {t} /\ t \notin Busy(h)
      BY <1>0, <1>1, <2>2 DEF Notify, Busy
    <3>2. Sleepers(h) # {} /\ count'[h] = count[h] + 1
      BY <1>0, <1>1, <2>2 DEF Notify, Sleepers
    <3>3. Cardinality(Busy(h)') = Cardinality(Busy(h)) + 1
      BY <3>1, BusyFinite, FS_AddElement
    <3>4. QED BY <1>0, <3>2, <3>3 DEF BusyInv
  <2>3. QED BY <2>1, <2>2
<1>2. ASSUME NEW t \in Threads, Signal(t)
      PROVE  Cardinality(Busy(h)') >= count'[h]
  <2>1. CASE target[t] # h
    <3>1. Busy(h) \subseteq Busy(h)'
      BY <1>0, <1>2, <2>1 DEF Signal, Busy, Sleepers
    <3>2. Sleepers(h) # {} /\ count' = count
      BY <1>0, <1>2 DEF Signal, Sleepers
    <3>3. QED BY <1>0, <3>1, <3>2, BusySame
  <2>2. CASE target[t] = h
    <3>1. Sleepers(h) # {} /\ count' = count
      BY <1>0, <1>2 DEF Signal, Sleepers
    <3>2. PICK s \in Sleepers(h) :
            pc' = [pc EXCEPT ![t] = "run", ![s] = "check"]
      BY <1>2, <2>2, <3>1 DEF Signal
    <3>3. /\ Busy(h)' = (Busy(h) \ {t}) \cup {s}
          /\ t \in Busy(h) /\ s \notin Busy(h)
      BY <1>0, <1>2, <2>2, <3>2, CurrentFacts DEF Signal, Busy, Sleepers
    <3>4. Cardinality(Busy(h)') = Cardinality(Busy(h))
      <4>1. /\ IsFiniteSet(Busy(h) \ {t})
            /\ Cardinality(Busy(h) \ {t}) = Cardinality(Busy(h)) - 1
        BY <3>3, BusyFinite, FS_RemoveElement
      <4>2. Cardinality((Busy(h) \ {t}) \cup {s})
              = Cardinality(Busy(h) \ {t}) + 1
        BY <3>3, <4>1, FS_AddElement
      <4>3. QED BY <1>0, <3>3, <4>1, <4>2
    <3>5. QED BY <1>0, <3>1, <3>4 DEF BusyInv
  <2>3. QED BY <2>1, <2>2
<1>3. ASSUME NEW t \in Threads, Take(t)
      PROVE  Cardinality(Busy(h)') >= count'[h]
  <2>1. CASE Current(t) # h
    <3>1. Busy(h) \subseteq Busy(h)' /\ Sleepers(h) # {}
      BY <1>0, <1>3, <2>1 DEF Take, Busy, Sleepers
    <3>2. count'[h] = count[h]
      BY <1>0, <1>3, <2>1, CurrentHandle DEF Take
    <3>3. QED BY <1>0, <3>1, <3>2, BusySame
  <2>2. CASE Current(t) = h
    <3>1. Busy(h)' = Busy(h) \ {t} /\ t \in Busy(h)
      BY <1>0, <1>3, <2>2 DEF Take, Busy
    <3>2. Sleepers(h) # {} /\ count'[h] = count[h] - 1
      BY <1>0, <1>3, <2>2 DEF Take, Sleepers
    <3>3. Cardinality(Busy(h)') = Cardinality(Busy(h)) - 1
      BY <3>1, BusyFinite, FS_RemoveElement
    <3>4. QED BY <1>0, <3>2, <3>3 DEF BusyInv
  <2>3. QED BY <2>1, <2>2
<1>4. ASSUME NEW t \in Threads, Sleep(t)
      PROVE  Cardinality(Busy(h)') >= count'[h]
  <2>1. CASE Current(t) = h
    <3>1. count'[h] = 0
      BY <1>4, <2>1 DEF Sleep
    <3>2. Cardinality(Busy(h)') \in Nat
      BY BusyFinite, FS_CardinalityType
    <3>3. QED BY <3>1, <3>2
  <2>2. CASE Current(t) # h
    <3>1. Busy(h) \subseteq Busy(h)' /\ Sleepers(h) # {} /\ count' = count
      BY <1>0, <1>4, <2>2 DEF Sleep, Busy, Sleepers
    <3>2. QED BY <1>0, <3>1, BusySame
  <2>3. QED BY <2>1, <2>2
<1>5. ASSUME NEW t \in Threads, NEW u \in Tasks, Create(t, u)
      PROVE  Cardinality(Busy(h)') >= count'[h]
  <2>1. Busy(h) \subseteq Busy(h)' /\ Sleepers(h) # {}
    BY <1>0, <1>5 DEF Create, Busy, Sleepers
  <2>2. count'[h] \in {0, count[h]}
    BY <1>0, <1>5 DEF Create
  <2>3. QED BY <1>0, <2>1, <2>2, BusySame
<1>6. CASE \E t \in Threads :
             \/ \E u \in Tasks : Delete(t, u)
             \/ Publish(t) \/ Return(t) \/ StartTake(t) \/ WakeSpuriously(t)
             \/ StartLock(t) \/ Lock(t) \/ SetHolder(t) \/ Give(t)
             \/ Unlock(t) \/ PeekTry(t) \/ PeekDone(t)
  <2>1. Busy(h) \subseteq Busy(h)' /\ Sleepers(h) # {} /\ count' = count
    BY <1>0, <1>6
       DEF Delete, Publish, Return, StartTake, WakeSpuriously, StartLock,
           Lock, SetHolder, Give, Unlock, PeekTry, PeekDone, Busy, Sleepers
  <2>2. QED BY <1>0, <2>1, BusySame
<1>7. CASE UNCHANGED allTaskVars
  <2>1. Busy(h) = Busy(h)' /\ Sleepers(h) # {} /\ count' = count
    BY <1>7 DEF allTaskVars, Busy, Sleepers
  <2>2. QED BY <1>0, <2>1, BusySame
<1>8. QED
  BY <1>1, <1>2, <1>3, <1>4, <1>5, <1>6, <1>7 DEF TasksNext

(* However many threads notify, and however many sleep on the main handle, *)
(* the signal after the unlock loses no wake-up (xTaskNotify,              *)
(* ulTaskNotifyTake).                                                      *)
THEOREM NoWakeupLost == TasksSpec => []NoLostWakeup
<1>1. TasksInit => HolderInv /\ TypeInv /\ BusyInv
  <2>1. TasksInit => HolderInv /\ TypeInv
    BY CurrentFacts
       DEF TasksInit, HolderInv, Lagging, Labels, Threads, TypeInv, TypeOK,
           Handles
  <2>2. TasksInit => BusyInv
    BY DEF TasksInit, BusyInv, Sleepers, Threads
  <2>3. QED BY <2>1, <2>2
<1>2. HolderInv /\ TypeInv /\ BusyInv /\ [TasksNext]_allTaskVars
        => (HolderInv /\ TypeInv /\ BusyInv)'
  BY HolderStep, TypeStep, BusyStep
<1>3. TypeInv /\ BusyInv => NoLostWakeup
  <2> SUFFICES ASSUME TypeInv, BusyInv, NEW h \in Handles, count[h] > 0,
                      Sleepers(h) # {}
               PROVE  Busy(h) # {}
    BY DEF NoLostWakeup, Busy
  <2>1. Cardinality(Busy(h)) > 0
    BY BusyFinite, FS_CardinalityType DEF BusyInv, TypeInv, TypeOK
  <2>2. QED BY <2>1, FS_EmptySet
<1>4. QED BY <1>1, <1>2, <1>3, PTL DEF TasksSpec
=============================================================================
