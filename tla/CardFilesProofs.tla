-------------------------- MODULE CardFilesProofs ---------------------------
(***************************************************************************)
(* What holds of CardFiles for any card, any descriptors and any files.    *)
(*                                                                         *)
(* HoldInv: types, and who holds which descriptor. ReadInv adds where a    *)
(* whole-file function is. IterInv adds, for every entry that stayed,      *)
(* whether it is still to come, being opened or delivered, and that the    *)
(* position of walk counts what its stream has passed.                     *)
(***************************************************************************)
EXTENDS CardFiles, SequenceTheorems, FiniteSetTheorems, NaturalsInduction,
        WellFoundedInduction, TLAPS

-----------------------------------------------------------------------------
(* Induction over a set of numbers, which needs no operator parameter.     *)
LEMMA SetInduction ==
  ASSUME NEW S, S \subseteq Nat, 0 \in S, \A n \in S : n + 1 \in S
  PROVE  S = Nat
<1> DEFINE Less == OpToRel(<, Nat)
           Rest == Nat \ S
<1>1. SUFFICES ASSUME Rest # {} PROVE FALSE
  OBVIOUS
<1>2. \E x \in Rest : \A y \in Rest : ~ (<<y, x>> \in Less)
  <2> HIDE DEF Less
  <2>1. IsWellFoundedOn(Less, Nat)
    BY NatLessThanWellFounded DEF Less
  <2> QED
    BY <1>1, <2>1, WFMin
<1>3. \A x, y \in Nat : <<y, x>> \in Less <=> y < x
  BY DEF OpToRel
<1>4. PICK x \in Rest : \A y \in Rest : ~ (<<y, x>> \in Less)
  BY <1>2
<1> HIDE DEF Less
<1>5. \A y \in Rest : ~ (y < x)
  BY <1>3, <1>4
<1>6. x \in Nat /\ x # 0
  BY <1>4
<1>7. x - 1 \in Nat /\ x - 1 < x /\ (x - 1) + 1 = x
  BY <1>6
<1>8. x - 1 \in S
  BY <1>5, <1>7
<1> QED
  BY <1>4, <1>7, <1>8

-----------------------------------------------------------------------------
(* Sequences that lose entries.                                            *)

Once(s, x) == \E i \in 1 .. Len(s) : \A j \in 1 .. Len(s) : s[j] = x <=> j = i
Absent(s, x) == \A i \in 1 .. Len(s) : s[i] # x

(* The first i entries of s without gone.                                  *)
Kept(f, s, gone, i) ==
  IF i = 0 THEN <<>>
  ELSE IF s[i] = gone THEN f[i - 1] ELSE Append(f[i - 1], s[i])

LEMMA KeptExists ==
  ASSUME NEW S, NEW s \in Seq(S), NEW gone
  PROVE  \E f : f = [i \in 0 .. Len(s) |-> Kept(f, s, gone, i)]
<1> DEFINE T == {n \in Nat : \E f : f = [i \in 0 .. n |-> Kept(f, s, gone, i)]}
<1>1. 0 \in T
  <2> DEFINE f == [i \in 0 .. 0 |-> <<>>]
  <2>1. f = [i \in 0 .. 0 |-> Kept(f, s, gone, i)]
    BY DEF Kept
  <2> QED
    BY <2>1
<1>2. ASSUME NEW n \in T PROVE n + 1 \in T
  <2>1. n \in Nat
    OBVIOUS
  <2>2. PICK f : f = [i \in 0 .. n |-> Kept(f, s, gone, i)]
    OBVIOUS
  <2> HIDE DEF T
  <2> DEFINE g == [i \in 0 .. n + 1 |->
                     IF i = n + 1 THEN Kept(f, s, gone, i) ELSE f[i]]
  <2>3. ASSUME NEW i \in 0 .. n + 1 PROVE g[i] = Kept(g, s, gone, i)
    <3>1. i # 0 => i - 1 \in 0 .. n /\ i - 1 # n + 1 /\ i - 1 \in 0 .. n + 1
      BY <2>1
    <3>2. i # 0 => g[i - 1] = f[i - 1]
      BY <3>1
    <3>3. Kept(g, s, gone, i) = Kept(f, s, gone, i)
      <4> HIDE DEF g
      <4> QED
        BY <3>2 DEF Kept
    <3>4. CASE i = n + 1
      BY <3>3, <3>4
    <3>5. CASE i # n + 1
      <4>1. i \in 0 .. n /\ g[i] = f[i]
        BY <2>1, <3>5
      <4> HIDE DEF g
      <4>2. f[i] = Kept(f, s, gone, i)
        BY <2>2, <4>1
      <4> QED
        BY <3>3, <4>1, <4>2
    <3> QED
      BY <3>4, <3>5
  <2>4. g = [i \in 0 .. n + 1 |-> g[i]]
    OBVIOUS
  <2> HIDE DEF g
  <2>5. g = [i \in 0 .. n + 1 |-> Kept(g, s, gone, i)]
    BY <2>3, <2>4
  <2> QED
    BY <2>1, <2>5 DEF T
<1>3. T = Nat
  <2>1. T \subseteq Nat
    OBVIOUS
  <2> HIDE DEF T
  <2> QED
    BY <1>1, <1>2, <2>1, SetInduction
<1> QED
  BY <1>3

LEMMA WithoutIs ==
  ASSUME NEW S, NEW s \in Seq(S), NEW gone
  PROVE  \E f : /\ f = [i \in 0 .. Len(s) |-> Kept(f, s, gone, i)]
                /\ Without(s, gone) = f[Len(s)]
<1> DEFINE f == CHOOSE g : g = [i \in 0 .. Len(s) |-> Kept(g, s, gone, i)]
<1>1. f = [i \in 0 .. Len(s) |-> Kept(f, s, gone, i)]
  BY KeptExists
<1>2. Without(s, gone) = f[Len(s)]
  BY DEF Without, Kept
<1> QED
  BY <1>1, <1>2

(* r has what the first n entries of s have, but gone, each at its own     *)
(* place.                                                                  *)
Picks(r, s, n, gone) ==
  \E at \in [1 .. Len(r) -> 1 .. n] :
    /\ \A k \in 1 .. Len(r) : r[k] = s[at[k]] /\ r[k] # gone
    /\ \A j \in 1 .. n : s[j] # gone => \E k \in 1 .. Len(r) : at[k] = j
    /\ \A k, l \in 1 .. Len(r) : at[k] = at[l] => k = l

LEMMA PicksStep ==
  ASSUME NEW S, NEW s \in Seq(S), NEW gone, NEW n \in Nat, n + 1 <= Len(s),
         NEW r \in Seq(S), Picks(r, s, n, gone)
  PROVE  /\ s[n + 1] = gone => Picks(r, s, n + 1, gone)
         /\ s[n + 1] # gone => Picks(Append(r, s[n + 1]), s, n + 1, gone)
<1>1. PICK at \in [1 .. Len(r) -> 1 .. n] :
    /\ \A k \in 1 .. Len(r) : r[k] = s[at[k]] /\ r[k] # gone
    /\ \A j \in 1 .. n : s[j] # gone => \E k \in 1 .. Len(r) : at[k] = j
    /\ \A k, l \in 1 .. Len(r) : at[k] = at[l] => k = l
  BY DEF Picks
<1>2. CASE s[n + 1] = gone
  <2>1. at \in [1 .. Len(r) -> 1 .. n + 1]
    OBVIOUS
  <2>2. \A j \in 1 .. n + 1 : s[j] # gone => j \in 1 .. n
    BY <1>2
  <2> QED
    BY <1>1, <1>2, <2>1, <2>2 DEF Picks
<1>3. CASE s[n + 1] # gone
  <2> DEFINE q == Append(r, s[n + 1])
             m == Len(r) + 1
             to == [k \in 1 .. m |-> IF k = m THEN n + 1 ELSE at[k]]
  <2>1. /\ Len(q) = m /\ m \in 1 .. m /\ q[m] = s[n + 1]
        /\ \A k \in 1 .. m : k # m => k \in 1 .. Len(r) /\ q[k] = r[k]
        /\ \A k \in 1 .. Len(r) : k \in 1 .. m /\ k # m
    OBVIOUS
  <2>2. \A i \in 1 .. n : i \in 1 .. n + 1 /\ i # n + 1
    OBVIOUS
  <2>3. n + 1 \in 1 .. n + 1 /\ \A i \in 1 .. n + 1 : i # n + 1 => i \in 1 .. n
    OBVIOUS
  <2>4. /\ to[m] = n + 1
        /\ \A k \in 1 .. Len(r) : to[k] = at[k]
    BY <2>1
  <2>5. to \in [1 .. m -> 1 .. n + 1]
    <3>1. ASSUME NEW k \in 1 .. m
          PROVE  (IF k = m THEN n + 1 ELSE at[k]) \in 1 .. n + 1
      <4> HIDE DEF m
      <4> QED BY <2>1, <2>2, <2>3
    <3> QED BY <3>1
  <2> HIDE DEF q, m, to
  <2>6. \A k \in 1 .. m : q[k] = s[to[k]] /\ q[k] # gone
    BY <1>1, <1>3, <2>1, <2>4
  <2>7. ASSUME NEW j \in 1 .. n + 1, s[j] # gone
        PROVE  \E k \in 1 .. m : to[k] = j
    <3>1. CASE j = n + 1
      BY <2>1, <2>4, <3>1
    <3>2. CASE j # n + 1
      <4>1. PICK k \in 1 .. Len(r) : at[k] = j
        BY <1>1, <2>3, <2>7, <3>2
      <4> QED
        BY <2>1, <2>4, <4>1
    <3> QED
      BY <3>1, <3>2
  <2>8. \A k, l \in 1 .. m : to[k] = to[l] => k = l
    <3> SUFFICES ASSUME NEW k \in 1 .. m, NEW l \in 1 .. m, to[k] = to[l]
                 PROVE  k = l
      OBVIOUS
    <3>1. CASE k = m /\ l # m
      BY <2>1, <2>2, <2>4, <3>1
    <3>2. CASE k # m /\ l = m
      BY <2>1, <2>2, <2>4, <3>2
    <3>3. CASE k # m /\ l # m
      BY <1>1, <2>1, <2>4, <3>3
    <3> QED
      BY <3>1, <3>2, <3>3
  <2>9. Picks(q, s, n + 1, gone)
    <3>1. Len(q) = m
      BY <2>1
    <3>2. /\ to \in [1 .. Len(q) -> 1 .. n + 1]
          /\ \A k \in 1 .. Len(q) : q[k] = s[to[k]] /\ q[k] # gone
          /\ \A j \in 1 .. n + 1 : s[j] # gone =>
               \E k \in 1 .. Len(q) : to[k] = j
          /\ \A k, l \in 1 .. Len(q) : to[k] = to[l] => k = l
      BY <2>5, <2>6, <2>7, <2>8, <3>1
    <3> QED
      BY <3>2, Zenon DEF Picks
  <2> QED
    BY <1>3, <2>9 DEF q
<1> QED
  BY <1>2, <1>3

LEMMA WithoutPicks ==
  ASSUME NEW S, NEW s \in Seq(S), NEW gone
  PROVE  Without(s, gone) \in Seq(S)
         /\ Picks(Without(s, gone), s, Len(s), gone)
<1>1. PICK f : /\ f = [i \in 0 .. Len(s) |-> Kept(f, s, gone, i)]
               /\ Without(s, gone) = f[Len(s)]
  BY WithoutIs
<1>2. \A i \in 0 .. Len(s) : f[i] = Kept(f, s, gone, i)
  BY <1>1
<1> DEFINE T == {n \in Nat : n <= Len(s) => f[n] \in Seq(S)
                                            /\ Picks(f[n], s, n, gone)}
<1>3. 0 \in T
  <2>1. f[0] = <<>>
    BY <1>2 DEF Kept
  <2>2. Len(<<>>) = 0 /\ 1 .. 0 = {} /\ <<>> \in Seq(S)
    OBVIOUS
  <2>3. [k \in 1 .. 0 |-> 0] \in [1 .. 0 -> 1 .. 0]
    BY <2>2
  <2>4. Picks(<<>>, s, 0, gone)
    BY <2>2, <2>3 DEF Picks
  <2> QED
    BY <2>1, <2>2, <2>4
<1>4. ASSUME NEW n \in T PROVE n + 1 \in T
  <2>1. n \in Nat /\ n + 1 \in Nat
    OBVIOUS
  <2>2. SUFFICES ASSUME n + 1 <= Len(s)
                 PROVE  f[n + 1] \in Seq(S) /\ Picks(f[n + 1], s, n + 1, gone)
    BY <2>1
  <2>3. f[n] \in Seq(S) /\ Picks(f[n], s, n, gone)
    BY <2>1, <2>2
  <2> HIDE DEF T
  <2>4. f[n + 1] = IF s[n + 1] = gone THEN f[n] ELSE Append(f[n], s[n + 1])
    <3>1. n + 1 \in 0 .. Len(s) /\ n + 1 # 0 /\ (n + 1) - 1 = n
      BY <2>1, <2>2
    <3> QED
      BY <1>2, <3>1 DEF Kept
  <2>5. s[n + 1] \in S
    BY <2>1, <2>2
  <2> QED
    BY <2>1, <2>2, <2>3, <2>4, <2>5, PicksStep
<1>5. T = Nat
  <2>1. T \subseteq Nat
    OBVIOUS
  <2> HIDE DEF T
  <2> QED
    BY <1>3, <1>4, <2>1, SetInduction
<1> QED
  BY <1>1, <1>5

(* Nobody but gone is lost or multiplied.                                  *)
LEMMA WithoutKeeps ==
  ASSUME NEW S, NEW s \in Seq(S), NEW gone
  PROVE  /\ Without(s, gone) \in Seq(S)
         /\ Absent(Without(s, gone), gone)
         /\ \A x : x # gone => /\ Once(s, x) => Once(Without(s, gone), x)
                               /\ Absent(s, x) => Absent(Without(s, gone), x)
<1> DEFINE r == Without(s, gone)
<1>1. r \in Seq(S) /\ Picks(r, s, Len(s), gone)
  BY WithoutPicks
<1> HIDE DEF r
<1>2. PICK at \in [1 .. Len(r) -> 1 .. Len(s)] :
    /\ \A k \in 1 .. Len(r) : r[k] = s[at[k]] /\ r[k] # gone
    /\ \A j \in 1 .. Len(s) : s[j] # gone => \E k \in 1 .. Len(r) : at[k] = j
    /\ \A k, l \in 1 .. Len(r) : at[k] = at[l] => k = l
  BY <1>1 DEF Picks
<1>3. Absent(r, gone)
  BY <1>2 DEF Absent
<1>4. ASSUME NEW x, x # gone, Once(s, x) PROVE Once(r, x)
  <2>1. PICK i \in 1 .. Len(s) : \A j \in 1 .. Len(s) : s[j] = x <=> j = i
    BY <1>4 DEF Once
  <2>2. PICK k \in 1 .. Len(r) : at[k] = i
    BY <1>2, <1>4, <2>1
  <2>3. ASSUME NEW l \in 1 .. Len(r) PROVE r[l] = x <=> l = k
    BY <1>2, <2>1, <2>2
  <2> QED
    BY <2>3 DEF Once
<1>5. ASSUME NEW x, Absent(s, x) PROVE Absent(r, x)
  BY <1>2, <1>5 DEF Absent
<1> QED
  BY <1>1, <1>3, <1>4, <1>5 DEF r

-----------------------------------------------------------------------------
(* What is left of a sequence, and what joins it.                          *)

LEMMA RestIs ==
  ASSUME NEW S, NEW s \in Seq(S), NEW m \in 0 .. Len(s)
  PROVE  LET r == SubSeq(s, m + 1, Len(s))
         IN  /\ r \in Seq(S) /\ Len(r) = Len(s) - m
             /\ \A i \in 1 .. Len(s) - m : r[i] = s[m + i]
<1> DEFINE r == SubSeq(s, m + 1, Len(s))
<1>1. Len(s) \in Nat /\ m \in Nat /\ m <= Len(s)
  OBVIOUS
<1>2. \A i \in m + 1 .. Len(s) : s[i] \in S
  BY <1>1
<1>3. /\ r \in Seq(S)
      /\ Len(r) = IF m + 1 <= Len(s) THEN Len(s) - (m + 1) + 1 ELSE 0
      /\ \A i \in 1 .. Len(s) - (m + 1) + 1 : r[i] = s[(m + 1) + i - 1]
  BY <1>1, <1>2, SubSeqProperties
<1> HIDE DEF r
<1>4. Len(r) = Len(s) - m
  BY <1>1, <1>3
<1>5. ASSUME NEW i \in 1 .. Len(s) - m PROVE r[i] = s[m + i]
  <2>1. (m + 1) + i - 1 = m + i /\ i \in 1 .. Len(s) - (m + 1) + 1
    BY <1>1
  <2> QED
    BY <1>3, <2>1
<1> QED
  BY <1>3, <1>4, <1>5 DEF r

LEMMA RestOfRest ==
  ASSUME NEW S, NEW s \in Seq(S), NEW m \in 0 .. Len(s),
         NEW n \in 0 .. Len(s) - m
  PROVE  LET r == SubSeq(s, m + 1, Len(s))
         IN  SubSeq(r, n + 1, Len(r)) = SubSeq(s, m + n + 1, Len(s))
<1> DEFINE r == SubSeq(s, m + 1, Len(s))
           q == SubSeq(r, n + 1, Len(r))
           t == SubSeq(s, (m + n) + 1, Len(s))
<1>1. /\ Len(s) \in Nat /\ m \in Nat /\ n \in Nat /\ m + n \in 0 .. Len(s)
      /\ (m + n) + 1 = m + n + 1
  OBVIOUS
<1>2. /\ r \in Seq(S) /\ Len(r) = Len(s) - m
      /\ \A i \in 1 .. Len(s) - m : r[i] = s[m + i]
  BY RestIs
<1>3. /\ t \in Seq(S) /\ Len(t) = Len(s) - (m + n)
      /\ \A i \in 1 .. Len(s) - (m + n) : t[i] = s[(m + n) + i]
  BY <1>1, RestIs
<1> HIDE DEF r
<1>4. n \in 0 .. Len(r)
  BY <1>2
<1>5. /\ q \in Seq(S) /\ Len(q) = Len(r) - n
      /\ \A i \in 1 .. Len(r) - n : q[i] = r[n + i]
  BY <1>2, <1>4, RestIs
<1> HIDE DEF q, t
<1>6. Len(q) = Len(t)
  BY <1>1, <1>2, <1>3, <1>5
<1>7. ASSUME NEW i \in 1 .. Len(q) PROVE q[i] = t[i]
  <2>1. /\ i \in 1 .. Len(r) - n /\ n + i \in 1 .. Len(s) - m
        /\ i \in 1 .. Len(s) - (m + n) /\ m + (n + i) = (m + n) + i
    BY <1>1, <1>2, <1>5
  <2>2. q[i] = r[n + i]
    BY <1>5, <2>1
  <2>3. r[n + i] = s[m + (n + i)]
    BY <1>2, <2>1
  <2>4. t[i] = s[(m + n) + i]
    BY <1>3, <2>1
  <2> QED
    BY <2>1, <2>2, <2>3, <2>4
<1>8. q = t
  BY <1>3, <1>5, <1>6, <1>7, SeqEqual
<1> QED
  BY <1>1, <1>8 DEF r, q, t

(* An entry behind the first m is still once in the rest r, one of the     *)
(* first m no longer is.                                                   *)
Behind(s, m, r, x) ==
  /\ Once(s, x) /\ (\A i \in 1 .. m : s[i] # x) => Once(r, x)
  /\ Once(s, x) /\ (\E i \in 1 .. m : s[i] = x) => Absent(r, x)
  /\ Absent(s, x) => Absent(r, x)

LEMMA RestKeeps ==
  ASSUME NEW S, NEW s \in Seq(S), NEW m \in 0 .. Len(s), NEW x
  PROVE  Behind(s, m, SubSeq(s, m + 1, Len(s)), x)
<1> DEFINE r == SubSeq(s, m + 1, Len(s))
<1>1. /\ r \in Seq(S) /\ Len(r) = Len(s) - m
      /\ \A i \in 1 .. Len(s) - m : r[i] = s[m + i]
      /\ Len(s) \in Nat /\ m \in Nat /\ m <= Len(s)
  BY RestIs
<1> HIDE DEF r
<1>2. \A i \in 1 .. Len(r) : m + i \in 1 .. Len(s) /\ r[i] = s[m + i]
  BY <1>1
<1>3. ASSUME Once(s, x), \A i \in 1 .. m : s[i] # x PROVE Once(r, x)
  <2>1. PICK i \in 1 .. Len(s) : \A j \in 1 .. Len(s) : s[j] = x <=> j = i
    BY <1>3 DEF Once
  <2>2. i > m
    BY <1>1, <1>3, <2>1
  <2>3. i - m \in 1 .. Len(r)
    BY <1>1, <2>2
  <2>4. ASSUME NEW j \in 1 .. Len(r) PROVE r[j] = x <=> j = i - m
    <3>1. r[j] = x <=> m + j = i
      BY <1>2, <2>1
    <3> QED
      BY <1>1, <3>1
  <2> QED
    BY <2>3, <2>4 DEF Once
<1>4. ASSUME Once(s, x), NEW k \in 1 .. m, s[k] = x PROVE Absent(r, x)
  <2>1. PICK i \in 1 .. Len(s) : \A j \in 1 .. Len(s) : s[j] = x <=> j = i
    BY <1>4 DEF Once
  <2>2. k = i
    BY <1>1, <1>4, <2>1
  <2>3. ASSUME NEW j \in 1 .. Len(r) PROVE r[j] # x
    <3>1. m + j # i
      BY <1>1, <2>2
    <3> QED
      BY <1>2, <2>1, <3>1
  <2> QED
    BY <2>3 DEF Absent
<1>5. Absent(s, x) => Absent(r, x)
  BY <1>2 DEF Absent
<1>6. Behind(s, m, r, x)
  BY <1>3, <1>4, <1>5 DEF Behind
<1> QED
  BY <1>6 DEF r

LEMMA AppendKeeps ==
  ASSUME NEW S, NEW s \in Seq(S), NEW y \in S, NEW x, x # y
  PROVE  /\ Once(s, x) => Once(Append(s, y), x)
         /\ Absent(s, x) => Absent(Append(s, y), x)
<1> DEFINE q == Append(s, y)
<1>1. /\ Len(q) = Len(s) + 1 /\ q[Len(s) + 1] = y
      /\ \A i \in 1 .. Len(s) : q[i] = s[i]
      /\ Len(s) \in Nat
  OBVIOUS
<1> HIDE DEF q
<1>2. \A i \in 1 .. Len(q) : i \in 1 .. Len(s) \/ i = Len(s) + 1
  BY <1>1
<1>3. ASSUME Once(s, x) PROVE Once(q, x)
  <2>1. PICK i \in 1 .. Len(s) : \A j \in 1 .. Len(s) : s[j] = x <=> j = i
    BY <1>3 DEF Once
  <2>2. i \in 1 .. Len(q) /\ i # Len(s) + 1
    BY <1>1
  <2>3. \A j \in 1 .. Len(q) : q[j] = x <=> j = i
    BY <1>1, <1>2, <2>1, <2>2
  <2> QED
    BY <2>2, <2>3 DEF Once
<1>4. Absent(s, x) => Absent(q, x)
  BY <1>1, <1>2 DEF Absent
<1> QED
  BY <1>3, <1>4 DEF q

LEMMA InsertIs ==
  ASSUME NEW S, NEW s \in Seq(S), NEW y \in S, NEW i \in 1 .. Len(s) + 1
  PROVE  LET q == InsertAt(s, i, y)
         IN  /\ Len(q) = Len(s) + 1
             /\ \A j \in 1 .. i - 1 : q[j] = s[j]
             /\ q[i] = y
             /\ \A j \in i + 1 .. Len(s) + 1 : q[j] = s[j - 1]
<1> DEFINE a == SubSeq(s, 1, i - 1)
           b == SubSeq(s, i, Len(s))
           q == (a \o <<y>>) \o b
<1>1. Len(s) \in Nat /\ i \in Nat /\ i >= 1 /\ i <= Len(s) + 1
  OBVIOUS
<1>2. /\ \A j \in 1 .. i - 1 : s[j] \in S
      /\ \A j \in i .. Len(s) : s[j] \in S
  BY <1>1
<1>3. /\ a \in Seq(S)
      /\ Len(a) = IF 1 <= i - 1 THEN i - 1 - 1 + 1 ELSE 0
      /\ \A j \in 1 .. i - 1 - 1 + 1 : a[j] = s[1 + j - 1]
  BY <1>1, <1>2, SubSeqProperties
<1>4. /\ b \in Seq(S)
      /\ Len(b) = IF i <= Len(s) THEN Len(s) - i + 1 ELSE 0
      /\ \A j \in 1 .. Len(s) - i + 1 : b[j] = s[i + j - 1]
  BY <1>1, <1>2, SubSeqProperties
<1> HIDE DEF a, b
<1>5. Len(a) = i - 1 /\ \A j \in 1 .. i - 1 : a[j] = s[j]
  <2>1. Len(a) = i - 1
    BY <1>1, <1>3
  <2>2. ASSUME NEW j \in 1 .. i - 1 PROVE a[j] = s[j]
    <3>1. j \in 1 .. i - 1 - 1 + 1 /\ 1 + j - 1 = j
      BY <1>1
    <3> QED
      BY <1>3, <3>1
  <2> QED
    BY <2>1, <2>2
<1>6. Len(b) = Len(s) - i + 1
  BY <1>1, <1>4
<1>7. <<y>> \in Seq(S) /\ Len(<<y>>) = 1 /\ <<y>>[1] = y
  OBVIOUS
<1> DEFINE c == a \o <<y>>
<1>8. c \in Seq(S) /\ Len(c) = i /\ c[i] = y
      /\ \A j \in 1 .. i - 1 : c[j] = s[j]
  BY <1>1, <1>3, <1>5, <1>7
<1> HIDE DEF c
<1>9. /\ Len(c \o b) = Len(s) + 1
      /\ \A j \in 1 .. i : (c \o b)[j] = c[j]
      /\ \A j \in i + 1 .. Len(s) + 1 : (c \o b)[j] = b[j - i]
  <2>1. /\ Len(c \o b) = Len(c) + Len(b)
        /\ \A j \in 1 .. Len(c) + Len(b) :
             (c \o b)[j] = IF j <= Len(c) THEN c[j] ELSE b[j - Len(c)]
    BY <1>4, <1>8, ConcatProperties
  <2> DEFINE d == c \o b
  <2>2. /\ Len(d) = Len(c) + Len(b)
        /\ \A j \in 1 .. Len(c) + Len(b) :
             d[j] = IF j <= Len(c) THEN c[j] ELSE b[j - Len(c)]
    BY <2>1
  <2>3. Len(c) = i /\ Len(c) + Len(b) = Len(s) + 1
    BY <1>1, <1>6, <1>8
  <2> HIDE DEF d
  <2>4. \A j \in 1 .. i : d[j] = c[j]
    BY <1>1, <2>2, <2>3
  <2>5. \A j \in i + 1 .. Len(s) + 1 : d[j] = b[j - i]
    BY <1>1, <2>2, <2>3
  <2> QED
    BY <2>2, <2>3, <2>4, <2>5 DEF d
<1>10. ASSUME NEW j \in i + 1 .. Len(s) + 1 PROVE b[j - i] = s[j - 1]
  <2>1. j - i \in 1 .. Len(s) - i + 1 /\ i + (j - i) - 1 = j - 1
    BY <1>1
  <2> QED
    BY <1>4, <2>1
<1>11. InsertAt(s, i, y) = c \o b
  BY DEF InsertAt, a, b, c
<1>12. \A j \in 1 .. i - 1 : j \in 1 .. i
  BY <1>1
<1>13. i \in 1 .. i
  BY <1>1
<1> DEFINE p == InsertAt(s, i, y)
<1>14. /\ Len(p) = Len(s) + 1
       /\ \A j \in 1 .. i : p[j] = c[j]
       /\ \A j \in i + 1 .. Len(s) + 1 : p[j] = b[j - i]
  BY <1>9, <1>11
<1> HIDE DEF p
<1>15. /\ Len(p) = Len(s) + 1
       /\ \A j \in 1 .. i - 1 : p[j] = s[j]
       /\ p[i] = y
       /\ \A j \in i + 1 .. Len(s) + 1 : p[j] = s[j - 1]
  BY <1>8, <1>10, <1>12, <1>13, <1>14
<1> QED
  BY <1>15 DEF p

LEMMA InsertKeeps ==
  ASSUME NEW S, NEW s \in Seq(S), NEW y \in S, NEW i \in 1 .. Len(s) + 1,
         NEW x
  PROVE  /\ x # y /\ Once(s, x) => Once(InsertAt(s, i, y), x)
         /\ x # y /\ Absent(s, x) => Absent(InsertAt(s, i, y), x)
         /\ x = y /\ Absent(s, x) => Once(InsertAt(s, i, y), x)
<1> DEFINE q == InsertAt(s, i, y)
<1>1. /\ Len(q) = Len(s) + 1
      /\ \A j \in 1 .. i - 1 : q[j] = s[j]
      /\ q[i] = y
      /\ \A j \in i + 1 .. Len(s) + 1 : q[j] = s[j - 1]
      /\ Len(s) \in Nat /\ i \in Nat /\ i >= 1 /\ i <= Len(s) + 1
  BY InsertIs
<1> HIDE DEF q
<1>2. ASSUME NEW j \in 1 .. Len(q)
      PROVE  \/ j = i
             \/ j # i /\ j \in 1 .. i - 1 /\ j \in 1 .. Len(s)
             \/ /\ j # i /\ j \in i + 1 .. Len(s) + 1
                /\ j - 1 \in 1 .. Len(s) /\ j - 1 >= i
  BY <1>1
<1>3. ASSUME x # y, Once(s, x) PROVE Once(q, x)
  <2>1. PICK k \in 1 .. Len(s) : \A j \in 1 .. Len(s) : s[j] = x <=> j = k
    BY <1>3 DEF Once
  <2>2. CASE k < i
    <3>1. k \in 1 .. Len(q)
      BY <1>1, <2>2
    <3>2. ASSUME NEW j \in 1 .. Len(q) PROVE q[j] = x <=> j = k
      <4>1. CASE j = i
        BY <1>1, <1>3, <2>2, <4>1
      <4>2. CASE j # i /\ j \in 1 .. i - 1 /\ j \in 1 .. Len(s)
        BY <1>1, <2>1, <4>2
      <4>3. CASE j \in i + 1 .. Len(s) + 1 /\ j - 1 \in 1 .. Len(s)
                 /\ j - 1 >= i
        <5>1. q[j] = s[j - 1] /\ j - 1 # k /\ j # k
          BY <1>1, <2>2, <4>3
        <5> QED
          BY <2>1, <4>3, <5>1
      <4> QED
        BY <1>2, <4>1, <4>2, <4>3
    <3> QED
      BY <3>1, <3>2 DEF Once
  <2>3. CASE k >= i
    <3>1. k + 1 \in 1 .. Len(q)
      BY <1>1, <2>3
    <3>2. ASSUME NEW j \in 1 .. Len(q) PROVE q[j] = x <=> j = k + 1
      <4>1. CASE j = i
        BY <1>1, <1>3, <2>3, <4>1
      <4>2. CASE j # i /\ j \in 1 .. i - 1 /\ j \in 1 .. Len(s)
        <5>1. q[j] = s[j] /\ j # k /\ j # k + 1
          BY <1>1, <2>3, <4>2
        <5> QED
          BY <2>1, <4>2, <5>1
      <4>3. CASE j \in i + 1 .. Len(s) + 1 /\ j - 1 \in 1 .. Len(s)
                 /\ j - 1 >= i
        <5>1. q[j] = s[j - 1] /\ (j - 1 = k <=> j = k + 1)
          BY <1>1, <4>3
        <5> QED
          BY <2>1, <4>3, <5>1
      <4> QED
        BY <1>2, <4>1, <4>2, <4>3
    <3> QED
      BY <3>1, <3>2 DEF Once
  <2> QED
    BY <1>1, <2>2, <2>3
<1>4. ASSUME Absent(s, x), NEW j \in 1 .. Len(q), j # i PROVE q[j] # x
  BY <1>1, <1>2, <1>4 DEF Absent
<1>5. ASSUME x # y, Absent(s, x) PROVE Absent(q, x)
  BY <1>1, <1>4, <1>5 DEF Absent
<1>6. ASSUME x = y, Absent(s, x) PROVE Once(q, x)
  <2>1. i \in 1 .. Len(q)
    BY <1>1
  <2>2. \A j \in 1 .. Len(q) : q[j] = x <=> j = i
    BY <1>1, <1>4, <1>6
  <2> QED
    BY <2>1, <2>2 DEF Once
<1> QED
  BY <1>3, <1>5, <1>6 DEF q

-----------------------------------------------------------------------------
(* Types.                                                                  *)

Listed == Names \cup Dots
Impls == [fd : Slots \cup {None}, dir : Slots \cup {None},
          path : Names \cup {Books, None}, position : Nat, failed : BOOLEAN]
Steps == {"idle", "stat", "open", "read", "done", "readFileToString",
          "readFile", "readFileToStream", "readFileToBuffer", "writeFile"}
Ops == {"none", "next", "readFileToString", "readFile", "readFileToStream",
        "readFileToBuffer", "writeFile"}
Calls == [pc : Steps, op : Ops, name : Names \cup {None}, size : Nat,
          out : Seq(Bytes), ok : BOOLEAN, quiet : BOOLEAN]

CardTypes ==
  /\ listing \in Seq(Listed) /\ rest \in Seq(Listed)
  /\ data \in [Files -> Seq(Bytes)]
  /\ slot \in [Slots -> Descriptors \cup {None}]
  /\ file \in [Handles -> Impls]
CallTypes ==
  /\ call \in Calls
  /\ call.pc # "idle" => call.name \in Names
WalkTypes ==
  /\ saved \in Nat \cup {None}
  /\ seen \in [Names -> 0 .. 2]
  /\ stayed \subseteq Names /\ moved \in BOOLEAN /\ shifted \in BOOLEAN
  /\ outcome \in {"none", "going", "complete", "failed"}
TypeOK ==
  CardTypes /\ CallTypes /\ WalkTypes /\ uses \in {"walk", "text"}

(* Who holds which descriptor, s being the descriptors and f the handles.  *)
Owned(s, f) ==
  /\ \A h \in Handles :
       /\ f[h].fd # None => /\ s[f[h].fd] # None
                            /\ s[f[h].fd].kind = "fd"
                            /\ s[f[h].fd].name \in Files
       /\ f[h].dir # None => /\ s[f[h].dir] # None
                             /\ s[f[h].dir].kind = "dir"
  /\ \A x \in Slots : s[x] # None /\ s[x].kind = "fd" =>
       \E h \in Handles : f[h].fd = x
  /\ \A g, h \in Handles : g # h =>
       {f[g].fd, f[g].dir} \cap {f[h].fd, f[h].dir} \subseteq {None}

SlotTable == [Slots -> Descriptors \cup {None}]
FileTable == [Handles -> Impls]

-----------------------------------------------------------------------------
(* The handle h lets go of what it has, of its directory or not.           *)
LEMMA Releases ==
  ASSUME NEW s \in SlotTable, NEW f \in FileTable, Owned(s, f),
         NEW h \in Handles, NEW t \in SlotTable, NEW i \in Impls,
         i.fd = None, i.dir = None,
         \A x \in Slots : x \notin {f[h].fd, f[h].dir} => t[x] = s[x],
         f[h].fd # None => t[f[h].fd] = None,
         f[h].dir # None => t[f[h].dir] \in {s[f[h].dir], None}
  PROVE  /\ Owned(t, [f EXCEPT ![h] = i])
         /\ [f EXCEPT ![h] = i] \in FileTable
<1> DEFINE g == [f EXCEPT ![h] = i]
<1>1. /\ \A k \in Handles : f[k].fd \in Slots \cup {None}
                            /\ f[k].dir \in Slots \cup {None}
      /\ None \notin Slots
  BY CardAssumption DEF FileTable, Impls
<1>2. /\ \A k \in Handles : k # h => g[k] = f[k]
      /\ g[h] = i /\ g \in FileTable
  BY DEF FileTable
<1> HIDE DEF g
<1>3. ASSUME NEW k \in Handles
      PROVE  /\ g[k].fd # None => /\ t[g[k].fd] # None
                                  /\ t[g[k].fd].kind = "fd"
                                  /\ t[g[k].fd].name \in Files
             /\ g[k].dir # None => /\ t[g[k].dir] # None
                                   /\ t[g[k].dir].kind = "dir"
  <2>1. CASE k = h
    BY <1>2, <2>1
  <2>2. CASE k # h
    <3>1. {f[k].fd, f[k].dir} \cap {f[h].fd, f[h].dir} \subseteq {None}
      BY <2>2 DEF Owned
    <3>2. /\ f[k].fd # None => t[f[k].fd] = s[f[k].fd]
          /\ f[k].dir # None => t[f[k].dir] = s[f[k].dir]
      BY <1>1, <3>1
    <3>3. g[k] = f[k]
      BY <1>2, <2>2
    <3> QED
      BY <3>2, <3>3 DEF Owned
  <2> QED
    BY <2>1, <2>2
<1>4. ASSUME NEW x \in Slots, t[x] # None, t[x].kind = "fd"
      PROVE  \E k \in Handles : g[k].fd = x
  <2>1. x # f[h].fd
    BY <1>1, <1>4
  <2>2. s[x] # None /\ s[x].kind = "fd"
    <3>1. CASE x = f[h].dir
      <4>1. t[x] = s[x]
        BY <1>1, <1>4, <3>1
      <4> QED
        BY <1>4, <4>1
    <3>2. CASE x # f[h].dir
      BY <1>4, <2>1, <3>2
    <3> QED
      BY <3>1, <3>2
  <2>3. PICK k \in Handles : f[k].fd = x
    BY <2>2 DEF Owned
  <2> QED
    BY <1>2, <2>1, <2>3
<1>5. ASSUME NEW j \in Handles, NEW k \in Handles, j # k
      PROVE  {g[j].fd, g[j].dir} \cap {g[k].fd, g[k].dir} \subseteq {None}
  <2>1. CASE j = h \/ k = h
    BY <1>2, <2>1
  <2>2. CASE j # h /\ k # h
    BY <1>2, <1>5, <2>2 DEF Owned
  <2> QED
    BY <2>1, <2>2
<1>6. Owned(t, g)
  BY <1>3, <1>4, <1>5 DEF Owned
<1> QED
  BY <1>2, <1>6 DEF g

(* A handle that has nothing takes the free descriptor x.                  *)
LEMMA Takes ==
  ASSUME NEW s \in SlotTable, NEW f \in FileTable, Owned(s, f),
         NEW h \in Handles, NEW x \in Slots, s[x] = None,
         NEW d \in Descriptors, NEW i \in Impls,
         d.kind = "fd" => d.name \in Files /\ i.fd = x /\ i.dir = None,
         d.kind = "dir" => i.fd = None /\ i.dir = x,
         f[h].fd = None, f[h].dir = None
  PROVE  /\ Owned([s EXCEPT ![x] = d], [f EXCEPT ![h] = i])
         /\ [s EXCEPT ![x] = d] \in SlotTable
         /\ [f EXCEPT ![h] = i] \in FileTable
<1> DEFINE g == [f EXCEPT ![h] = i]
           t == [s EXCEPT ![x] = d]
<1>1. /\ \A k \in Handles : f[k].fd \in Slots \cup {None}
                            /\ f[k].dir \in Slots \cup {None}
      /\ None \notin Slots /\ d # None
      /\ d.kind \in {"fd", "dir"}
  BY CardAssumption DEF FileTable, Impls, Descriptors
<1>2. /\ \A k \in Handles : k # h => g[k] = f[k]
      /\ g[h] = i /\ g \in FileTable
  BY DEF FileTable
<1>3. /\ \A y \in Slots : y # x => t[y] = s[y]
      /\ t[x] = d /\ t \in SlotTable
  BY DEF SlotTable
<1> HIDE DEF g, t
<1>4. \A k \in Handles : f[k].fd # x /\ f[k].dir # x
  BY <1>1 DEF Owned
<1>5. ASSUME NEW k \in Handles
      PROVE  /\ g[k].fd # None => /\ t[g[k].fd] # None
                                  /\ t[g[k].fd].kind = "fd"
                                  /\ t[g[k].fd].name \in Files
             /\ g[k].dir # None => /\ t[g[k].dir] # None
                                   /\ t[g[k].dir].kind = "dir"
  <2>1. CASE k = h
    BY <1>1, <1>2, <1>3, <2>1
  <2>2. CASE k # h
    <3>1. /\ f[k].fd # None => t[f[k].fd] = s[f[k].fd]
          /\ f[k].dir # None => t[f[k].dir] = s[f[k].dir]
      BY <1>1, <1>3, <1>4
    <3>2. g[k] = f[k]
      BY <1>2, <2>2
    <3> QED
      BY <3>1, <3>2 DEF Owned
  <2> QED
    BY <2>1, <2>2
<1>6. ASSUME NEW y \in Slots, t[y] # None, t[y].kind = "fd"
      PROVE  \E k \in Handles : g[k].fd = y
  <2>1. CASE y = x
    BY <1>2, <1>3, <1>6, <2>1
  <2>2. CASE y # x
    <3>1. PICK k \in Handles : f[k].fd = y
      BY <1>3, <1>6, <2>2 DEF Owned
    <3>2. k # h
      BY <1>1, <3>1
    <3> QED
      BY <1>2, <3>1, <3>2
  <2> QED
    BY <2>1, <2>2
<1>7. ASSUME NEW j \in Handles, NEW k \in Handles, j # k
      PROVE  {g[j].fd, g[j].dir} \cap {g[k].fd, g[k].dir} \subseteq {None}
  <2>1. {i.fd, i.dir} \subseteq {x, None}
    BY <1>1
  <2>2. CASE j # h /\ k # h
    BY <1>2, <1>7, <2>2 DEF Owned
  <2>3. CASE j = h /\ k # h
    BY <1>2, <1>4, <2>1, <2>3
  <2>4. CASE j # h /\ k = h
    BY <1>2, <1>4, <2>1, <2>4
  <2> QED
    BY <1>7, <2>2, <2>3, <2>4
<1>8. Owned(t, g)
  BY <1>5, <1>6, <1>7 DEF Owned
<1> QED
  BY <1>2, <1>3, <1>8 DEF g, t

(* Nobody takes or lets go of a descriptor.                                *)
LEMMA Stays ==
  ASSUME NEW s \in SlotTable, NEW f \in FileTable, Owned(s, f),
         NEW t \in SlotTable, NEW g \in FileTable,
         \A h \in Handles : g[h].fd = f[h].fd /\ g[h].dir = f[h].dir,
         \A x \in Slots : /\ t[x] = None <=> s[x] = None
                          /\ t[x].kind = s[x].kind
                          /\ t[x].name = s[x].name
  PROVE  Owned(t, g)
<1>1. \A k \in Handles : f[k].fd \in Slots \cup {None}
                         /\ f[k].dir \in Slots \cup {None}
  BY DEF FileTable, Impls
<1>2. ASSUME NEW h \in Handles
      PROVE  /\ g[h].fd # None => /\ t[g[h].fd] # None
                                  /\ t[g[h].fd].kind = "fd"
                                  /\ t[g[h].fd].name \in Files
             /\ g[h].dir # None => /\ t[g[h].dir] # None
                                   /\ t[g[h].dir].kind = "dir"
  BY <1>1 DEF Owned
<1>3. ASSUME NEW x \in Slots, t[x] # None, t[x].kind = "fd"
      PROVE  \E h \in Handles : g[h].fd = x
  BY <1>3 DEF Owned
<1>4. \A j, h \in Handles : j # h =>
        {g[j].fd, g[j].dir} \cap {g[h].fd, g[h].dir} \subseteq {None}
  BY DEF Owned
<1> QED
  BY <1>2, <1>3, <1>4 DEF Owned

CardOK == CardTypes /\ Owned(slot, file)

LEMMA TablesAre == CardTypes => slot \in SlotTable /\ file \in FileTable
  BY DEF CardTypes, SlotTable, FileTable

LEMMA FileIs ==
  ASSUME CardTypes, NEW h \in Handles
  PROVE  /\ file[h] \in Impls
         /\ file[h].fd \in Slots \cup {None}
         /\ file[h].dir \in Slots \cup {None}
         /\ file[h].path \in Names \cup {Books, None}
         /\ file[h].position \in Nat /\ file[h].failed \in BOOLEAN
         /\ None \notin Slots
  BY CardAssumption DEF CardTypes, Impls

LEMMA ClosedIs == Closed \in Impls /\ Closed.fd = None /\ Closed.dir = None
  BY DEF Closed, Impls

LEMMA DroppedHolds ==
  ASSUME CardOK, NEW h \in Handles, NEW i \in Impls, i.fd = None, i.dir = None
  PROVE  /\ Dropped(h) \in SlotTable
         /\ Owned(Dropped(h), [file EXCEPT ![h] = i])
         /\ [file EXCEPT ![h] = i] \in FileTable
<1>1. slot \in SlotTable /\ file \in FileTable /\ Owned(slot, file)
  BY TablesAre DEF CardOK
<1>2. Dropped(h) \in SlotTable
  BY <1>1 DEF Dropped, SlotTable
<1>3. \A x \in Slots : Dropped(h)[x] = IF x = file[h].fd THEN None ELSE slot[x]
  BY DEF Dropped
<1>4. /\ file[h].fd \in Slots \cup {None} /\ file[h].dir \in Slots \cup {None}
  BY FileIs DEF CardOK
<1> DEFINE t == Dropped(h)
<1>5. /\ \A x \in Slots : x \notin {file[h].fd, file[h].dir} => t[x] = slot[x]
      /\ file[h].fd # None => t[file[h].fd] = None
      /\ file[h].dir # None => t[file[h].dir] \in {slot[file[h].dir], None}
  BY <1>3, <1>4
<1>6. t \in SlotTable
  BY <1>2
<1> HIDE DEF t
<1>7. Owned(t, [file EXCEPT ![h] = i]) /\ [file EXCEPT ![h] = i] \in FileTable
  BY <1>1, <1>5, <1>6, Releases
<1> QED
  BY <1>6, <1>7 DEF t

LEMMA CloseHolds ==
  ASSUME CardOK, NEW h \in Handles, NEW i \in Impls, i.fd = None, i.dir = None
  PROVE  /\ CloseSlots(h) \in SlotTable
         /\ Owned(CloseSlots(h), [file EXCEPT ![h] = i])
         /\ [file EXCEPT ![h] = i] \in FileTable
<1>1. slot \in SlotTable /\ file \in FileTable /\ Owned(slot, file)
  BY TablesAre DEF CardOK
<1>2. CloseSlots(h) \in SlotTable
  BY <1>1 DEF CloseSlots, SlotTable
<1>3. \A x \in Slots : CloseSlots(h)[x] =
        IF x \in {file[h].fd, file[h].dir} THEN None ELSE slot[x]
  BY DEF CloseSlots
<1>4. /\ file[h].fd \in Slots \cup {None} /\ file[h].dir \in Slots \cup {None}
  BY FileIs DEF CardOK
<1> DEFINE t == CloseSlots(h)
<1>5. /\ \A x \in Slots : x \notin {file[h].fd, file[h].dir} => t[x] = slot[x]
      /\ file[h].fd # None => t[file[h].fd] = None
      /\ file[h].dir # None => t[file[h].dir] \in {slot[file[h].dir], None}
  BY <1>3, <1>4
<1>6. t \in SlotTable
  BY <1>2
<1> HIDE DEF t
<1>7. Owned(t, [file EXCEPT ![h] = i]) /\ [file EXCEPT ![h] = i] \in FileTable
  BY <1>1, <1>5, <1>6, Releases
<1> QED
  BY <1>6, <1>7 DEF t

LEMMA OpenOnIs ==
  ASSUME NEW n \in Names \cup {Books}
  PROVE  /\ OpenOn(n) \in Descriptors /\ OpenOn(n).at = 0
         /\ OpenOn(n).name = n
         /\ OpenOn(n).kind = IF IsDirectory(n) THEN "dir" ELSE "fd"
         /\ ~IsDirectory(n) => n \in Files
  BY DEF OpenOn, Descriptors, IsDirectory, Files

LEMMA NextSlotIsFree ==
  ASSUME NEW n, CanOpen(n)
  PROVE  NextSlot \in Slots /\ slot[NextSlot] = None
  BY DEF CanOpen, NextSlot, FreeSlots

LEMMA OpenedIs ==
  ASSUME NEW n \in Names \cup {Books}
  PROVE  /\ Opened(n) \in Impls /\ Opened(n).path = n
         /\ Opened(n).position = 0 /\ Opened(n).failed = FALSE
         /\ ~CanOpen(n) => Opened(n).fd = None /\ Opened(n).dir = None
         /\ CanOpen(n) /\ IsDirectory(n) =>
              Opened(n).fd = None /\ Opened(n).dir = NextSlot
         /\ CanOpen(n) /\ ~IsDirectory(n) =>
              Opened(n).fd = NextSlot /\ Opened(n).dir = None
<1>1. CanOpen(n) => NextSlot \in Slots
  BY NextSlotIsFree
<1> QED
  BY <1>1 DEF Opened, Closed, Impls

(* The descriptors after h = Storage.open(n).                              *)
Taken(h, n) ==
  IF CanOpen(n) THEN [Dropped(h) EXCEPT ![NextSlot] = OpenOn(n)]
  ELSE Dropped(h)

LEMMA TakenHolds ==
  ASSUME CardOK, NEW h \in Handles, NEW n \in Names \cup {Books},
         NEW i \in Impls, i.fd = Opened(n).fd, i.dir = Opened(n).dir
  PROVE  /\ Taken(h, n) \in SlotTable
         /\ Owned(Taken(h, n), [file EXCEPT ![h] = i])
         /\ [file EXCEPT ![h] = i] \in FileTable
<1>1. CASE ~CanOpen(n)
  BY <1>1, OpenedIs, DroppedHolds DEF Taken
<1>2. CASE CanOpen(n)
  <2> DEFINE t == Dropped(h)
             g == [file EXCEPT ![h] = Closed]
             x == NextSlot
             d == OpenOn(n)
  <2>1. t \in SlotTable /\ Owned(t, g) /\ g \in FileTable
    BY ClosedIs, DroppedHolds
  <2>2. x \in Slots /\ t[x] = None
    BY <1>2, NextSlotIsFree DEF Dropped
  <2>3. d \in Descriptors
        /\ (d.kind = "fd" => d.name \in Files /\ i.fd = x /\ i.dir = None)
        /\ (d.kind = "dir" => i.fd = None /\ i.dir = x)
    BY <1>2, OpenOnIs, OpenedIs
  <2>4. file \in FileTable
    BY TablesAre DEF CardOK
  <2>5. g[h].fd = None /\ g[h].dir = None
        /\ [g EXCEPT ![h] = i] = [file EXCEPT ![h] = i]
    BY <2>4, ClosedIs DEF FileTable
  <2>6. Taken(h, n) = [t EXCEPT ![x] = d]
    BY <1>2 DEF Taken
  <2> HIDE DEF t, g, x, d
  <2>7. /\ Owned([t EXCEPT ![x] = d], [g EXCEPT ![h] = i])
        /\ [t EXCEPT ![x] = d] \in SlotTable
        /\ [g EXCEPT ![h] = i] \in FileTable
    BY <2>1, <2>2, <2>3, <2>5, Takes
  <2> QED
    BY <2>5, <2>6, <2>7
<1> QED
  BY <1>1, <1>2

LEMMA WithoutListed ==
  ASSUME NEW s \in Seq(Listed), NEW gone
  PROVE  Without(s, gone) \in Seq(Listed)
  BY WithoutKeeps

LEMMA InsertListed ==
  ASSUME NEW s \in Seq(Listed), NEW n \in Listed, NEW i \in 1 .. Len(s) + 1
  PROVE  InsertAt(s, i, n) \in Seq(Listed)
<1>1. \A j \in 1 .. i - 1 : s[j] \in Listed
  OBVIOUS
<1>2. \A j \in i .. Len(s) : s[j] \in Listed
  OBVIOUS
<1>3. SubSeq(s, 1, i - 1) \in Seq(Listed)
  BY <1>1, SubSeqProperties
<1>4. SubSeq(s, i, Len(s)) \in Seq(Listed)
  BY <1>2, SubSeqProperties
<1> QED
  BY <1>3, <1>4 DEF InsertAt

LEMMA ReplacedListed ==
  ASSUME NEW s \in Seq(Listed), NEW old, NEW n \in Listed
  PROVE  ReplaceAll(s, old, n) \in Seq(Listed)
<1>1. \A i \in 1 .. Len(s) : (IF s[i] = old THEN n ELSE s[i]) \in Listed
  OBVIOUS
<1>2. Len(s) \in Nat
  OBVIOUS
<1> QED
  BY <1>1, <1>2 DEF ReplaceAll

LEMMA ShownListed ==
  ASSUME CardTypes, NEW gone, NEW new, NEW r \in Shown(gone, new)
  PROVE  r \in Seq(Listed)
<1> DEFINE kept == {rest, Without(rest, gone)}
           room == file["walk"].position + Len(rest)
                     < Cardinality(Names \cup Dots)
<1>1. kept \subseteq Seq(Listed)
  BY WithoutListed DEF CardTypes
<1>2. r \in kept \/ (new \in Names /\ \E s \in kept : r = Append(s, new))
  BY Zenon DEF Shown
<1> HIDE DEF kept
<1>3. ASSUME NEW s \in kept, new \in Names PROVE Append(s, new) \in Seq(Listed)
  BY <1>1, <1>3 DEF Listed
<1> QED
  BY <1>1, <1>2, <1>3

LEMMA TextsAre == Texts \subseteq Seq(Bytes)
<1> SUFFICES ASSUME NEW t \in Texts PROVE t \in Seq(Bytes)
  OBVIOUS
<1>1. PICK n \in 0 .. MaxLen : t \in [1 .. n -> Bytes]
  BY DEF Texts
<1>2. n \in Nat
  BY <1>1, CardAssumption
<1> QED
  BY <1>1, <1>2

LEMMA PutIs ==
  ASSUME NEW t \in Seq(Bytes), NEW at \in Nat, NEW b \in Bytes
  PROVE  Put(t, at, b) \in Seq(Bytes)
<1> DEFINE m == IF at < Len(t) THEN Len(t) ELSE at + 1
<1>1. m \in Nat
  OBVIOUS
<1>2. \A i \in 1 .. m : (IF i = at + 1 THEN b ELSE
                         IF i <= Len(t) THEN t[i] ELSE 0) \in Bytes
  BY CardAssumption
<1>3. Put(t, at, b) = [i \in 1 .. m |-> IF i = at + 1 THEN b ELSE
                         IF i <= Len(t) THEN t[i] ELSE 0]
  BY DEF Put
<1> HIDE DEF m
<1> QED
  BY <1>1, <1>2, <1>3

(* How far the descriptor of h has come, and in what.                      *)
LEMMA HeldIs ==
  ASSUME CardOK, NEW h \in Handles, file[h].fd # None
  PROVE  /\ file[h].fd \in Slots /\ slot[file[h].fd] \in Descriptors
         /\ At(h) \in Nat /\ NameOf(h) \in Files
         /\ slot[file[h].fd].kind = "fd"
<1>1. file[h].fd \in Slots
  BY FileIs DEF CardOK
<1>2. slot[file[h].fd] # None /\ slot[file[h].fd] \in Descriptors
  BY <1>1 DEF CardOK, CardTypes, Owned
<1> QED
  BY <1>1, <1>2 DEF CardOK, Owned, At, NameOf, Descriptors

LEMMA FromTables ==
  ASSUME listing' \in Seq(Listed), rest' \in Seq(Listed),
         data' \in [Files -> Seq(Bytes)], slot' \in SlotTable,
         file' \in FileTable, Owned(slot', file')
  PROVE  CardOK'
  BY DEF CardOK, CardTypes, SlotTable, FileTable

LEMMA OpenHolds ==
  ASSUME CardOK, NEW h \in Handles, NEW n \in Names \cup {Books},
         Assign(h, n), listing' \in Seq(Listed), rest' \in Seq(Listed),
         data' \in [Files -> Seq(Bytes)]
  PROVE  CardOK'
<1>1. Opened(n) \in Impls
  BY OpenedIs
<1>2. slot' = Taken(h, n) /\ file' = [file EXCEPT ![h] = Opened(n)]
  BY DEF Assign, Taken
<1> QED
  BY <1>1, <1>2, TakenHolds, FromTables

LEMMA MoveHolds ==
  ASSUME CardOK, NEW h \in Handles, file[h].fd # None, NEW pos \in Nat,
         slot' = [slot EXCEPT ![file[h].fd].at = pos],
         data' \in [Files -> Seq(Bytes)], UNCHANGED <<listing, rest, file>>
  PROVE  CardOK'
<1> DEFINE x == file[h].fd
           d == slot[x]
           t == [slot EXCEPT ![x] = [d EXCEPT !.at = pos]]
<1>1. x \in Slots /\ d \in Descriptors
  BY HeldIs
<1>2. slot' = t
  OBVIOUS
<1>3. /\ [d EXCEPT !.at = pos] \in Descriptors
      /\ [d EXCEPT !.at = pos].kind = d.kind
      /\ [d EXCEPT !.at = pos].name = d.name
      /\ [d EXCEPT !.at = pos] # None /\ d # None
  BY <1>1, CardAssumption DEF Descriptors
<1>4. slot \in SlotTable /\ file \in FileTable /\ Owned(slot, file)
  BY TablesAre DEF CardOK
<1>5. /\ t \in SlotTable
      /\ \A y \in Slots : /\ t[y] = None <=> slot[y] = None
                          /\ t[y].kind = slot[y].kind
                          /\ t[y].name = slot[y].name
  <2> DEFINE e == [d EXCEPT !.at = pos]
  <2>1. e \in Descriptors /\ e.kind = d.kind /\ e.name = d.name /\ e # None
    BY <1>3
  <2> HIDE DEF e
  <2> QED
    BY <1>1, <1>3, <1>4, <2>1 DEF SlotTable
<1> HIDE DEF t
<1>6. Owned(t, file)
  BY <1>4, <1>5, Stays
<1> QED
  BY <1>2, <1>4, <1>5, <1>6, FromTables DEF CardOK, CardTypes

LEMMA SameSlotsHolds ==
  ASSUME CardOK, UNCHANGED slot, file' \in FileTable,
         \A h \in Handles : file'[h].fd = file[h].fd
                            /\ file'[h].dir = file[h].dir,
         listing' \in Seq(Listed), rest' \in Seq(Listed),
         data' \in [Files -> Seq(Bytes)]
  PROVE  CardOK'
<1>1. slot \in SlotTable /\ file \in FileTable /\ Owned(slot, file)
  BY TablesAre DEF CardOK
<1>2. Owned(slot, file')
  BY <1>1, Stays
<1> QED
  BY <1>1, <1>2, FromTables

LEMMA ClosedImplIs ==
  ASSUME CardTypes, NEW h \in Handles
  PROVE  /\ ClosedImpl(h) \in Impls
         /\ ClosedImpl(h).fd = None /\ ClosedImpl(h).dir = None
         /\ ClosedImpl(h).position = file[h].position
         /\ ClosedImpl(h).path = file[h].path
<1>1. file[h] \in Impls
  BY FileIs
<1> QED
  BY <1>1 DEF ClosedImpl, Impls

-----------------------------------------------------------------------------
(* Each operation of HalFile keeps the types and the descriptors.          *)

LEMMA OpenOK ==
  ASSUME CardOK, NEW h \in Handles, NEW n \in Names \cup {Books}, Open(h, n)
  PROVE  CardOK'
  BY OpenHolds DEF Open, CardOK, CardTypes

LEMMA OpenForWriteOK ==
  ASSUME CardOK, NEW h \in Handles, NEW n \in Names \cup {Books},
         OpenForWrite(h, n)
  PROVE  CardOK' /\ n \in Files
<1>1. n \in Files
  BY DEF OpenForWrite, IsDirectory, Files
<1>2. data' \in [Files -> Seq(Bytes)]
  BY <1>1 DEF OpenForWrite, CardOK, CardTypes
<1> QED
  BY <1>1, <1>2, OpenHolds DEF OpenForWrite, CardOK, CardTypes

LEMMA CloseOK ==
  ASSUME CardOK, NEW h \in Handles, Close(h)
  PROVE  CardOK'
  BY ClosedImplIs, CloseHolds, FromTables DEF Close, CardOK, CardTypes

LEMMA DestroyOK ==
  ASSUME CardOK, NEW h \in Handles, AssignClosed(h),
         listing' \in Seq(Listed), rest' \in Seq(Listed),
         data' \in [Files -> Seq(Bytes)]
  PROVE  CardOK'
  BY ClosedIs, DroppedHolds, FromTables DEF AssignClosed

LEMMA SeekOK ==
  ASSUME CardOK, NEW h \in Handles, NEW pos \in Nat, Seek(h, pos)
  PROVE  CardOK'
  BY MoveHolds DEF Seek, CardOK, CardTypes

LEMMA WriteByteOK ==
  ASSUME CardOK, NEW h \in Handles, NEW b \in Bytes, WriteByte(h, b)
  PROVE  CardOK'
<1> DEFINE p == At(h) + 1
           n == NameOf(h)
           text == Put(data[n], At(h), b)
<1>1. file[h].fd # None
  BY DEF WriteByte
<1>2. /\ At(h) \in Nat /\ n \in Files
      /\ slot[file[h].fd].at = At(h)
  BY <1>1, HeldIs DEF At
<1>3. data[n] \in Seq(Bytes)
  BY <1>2 DEF CardOK, CardTypes
<1>4. text \in Seq(Bytes)
  BY <1>2, <1>3, PutIs
<1>5. slot' = [slot EXCEPT ![file[h].fd].at = p]
  BY <1>2 DEF WriteByte
<1>6. data' = [data EXCEPT ![n] = text]
  BY DEF WriteByte
<1>7. p \in Nat
  BY <1>2
<1>8. UNCHANGED <<listing, rest, file>>
  BY DEF WriteByte
<1> HIDE DEF p, n, text
<1>9. data' \in [Files -> Seq(Bytes)]
  BY <1>4, <1>6 DEF CardOK, CardTypes
<1> QED
  BY <1>1, <1>5, <1>7, <1>8, <1>9, MoveHolds

LEMMA RenameOK ==
  ASSUME CardOK, NEW h \in Handles, NEW n \in Files, RenameTo(h, n)
  PROVE  CardOK'
<1> DEFINE old == file[h].path
<1>1. /\ old \in Files /\ n \in Files
      /\ slot' = CloseSlots(h)
      /\ file' = [file EXCEPT ![h] = ClosedImpl(h)]
  BY DEF RenameTo
<1>2. \/ /\ listing' = ReplaceAll(Without(listing, n), old, n)
         /\ data' = [data EXCEPT ![n] = data[old]]
         /\ rest' \in Shown(old, n)
      \/ UNCHANGED <<listing, data, rest>>
  BY DEF RenameTo
<1>3. CardTypes /\ listing \in Seq(Listed) /\ n \in Listed
      /\ rest \in Seq(Listed) /\ data \in [Files -> Seq(Bytes)]
  BY DEF CardOK, CardTypes, Listed, Files
<1>4. /\ listing' \in Seq(Listed) /\ rest' \in Seq(Listed)
      /\ data' \in [Files -> Seq(Bytes)]
  <2> HIDE DEF old
  <2>1. CASE UNCHANGED <<listing, data, rest>>
    BY <1>3, <2>1
  <2>2. CASE /\ listing' = ReplaceAll(Without(listing, n), old, n)
             /\ data' = [data EXCEPT ![n] = data[old]]
             /\ rest' \in Shown(old, n)
    <3>1. Without(listing, n) \in Seq(Listed)
      BY <1>3, WithoutListed
    <3>2. listing' \in Seq(Listed)
      BY <1>3, <2>2, <3>1, ReplacedListed
    <3>3. rest' \in Seq(Listed)
      BY <1>3, <2>2, ShownListed
    <3>4. data' \in [Files -> Seq(Bytes)]
      BY <1>1, <1>3, <2>2
    <3> QED
      BY <3>2, <3>3, <3>4
  <2> QED
    BY <1>2, <2>1, <2>2
<1>5. slot' \in SlotTable /\ file' \in FileTable /\ Owned(slot', file')
  BY <1>1, <1>3, ClosedImplIs, CloseHolds
<1> QED
  BY <1>4, <1>5, FromTables

LEMMA CreateOK ==
  ASSUME CardOK, NEW n \in Names, Create(n)
  PROVE  CardOK'
<1>1. CardTypes /\ listing \in Seq(Listed) /\ n \in Listed
      /\ data \in [Files -> Seq(Bytes)]
  BY DEF CardOK, CardTypes, Listed
<1>2. listing' \in Seq(Listed)
  BY <1>1, InsertListed DEF Create
<1>3. rest' \in Seq(Listed)
  BY <1>1, ShownListed DEF Create
<1>4. data' \in [Files -> Seq(Bytes)]
  BY <1>1 DEF Create
<1>5. UNCHANGED <<slot, file>>
  BY DEF Create
<1> QED
  BY <1>2, <1>3, <1>4, <1>5, TablesAre, SameSlotsHolds DEF CardOK

LEMMA DeleteOK ==
  ASSUME CardOK, NEW n \in Names, Delete(n)
  PROVE  CardOK'
<1>1. CardTypes /\ listing \in Seq(Listed) /\ data \in [Files -> Seq(Bytes)]
  BY DEF CardOK, CardTypes
<1>2. listing' \in Seq(Listed)
  BY <1>1, WithoutListed DEF Delete
<1>3. rest' \in Seq(Listed)
  BY <1>1, ShownListed DEF Delete
<1>4. data' \in [Files -> Seq(Bytes)]
  BY <1>1 DEF Delete
<1>5. UNCHANGED <<slot, file>>
  BY DEF Delete
<1> QED
  BY <1>2, <1>3, <1>4, <1>5, TablesAre, SameSlotsHolds DEF CardOK

LEMMA RewriteOK ==
  ASSUME CardOK, NEW n \in Names, NEW text \in Texts, Rewrite(n, text)
  PROVE  CardOK'
<1>1. /\ listing \in Seq(Listed) /\ rest \in Seq(Listed)
      /\ data \in [Files -> Seq(Bytes)]
  BY DEF CardOK, CardTypes
<1>2. data' \in [Files -> Seq(Bytes)]
  BY <1>1, TextsAre DEF Rewrite
<1>3. UNCHANGED <<listing, rest, slot, file>>
  BY DEF Rewrite
<1> QED
  BY <1>1, <1>2, <1>3, TablesAre, SameSlotsHolds DEF CardOK

-----------------------------------------------------------------------------
(* What openNextFile and the whole-file functions compute.                 *)

LEMMA DotsAheadIs ==
  ASSUME rest \in Seq(Listed)
  PROVE  /\ DotsAhead \in 0 .. Len(rest)
         /\ \A i \in 1 .. DotsAhead : rest[i] \in Dots
         /\ DotsAhead < Len(rest) => /\ rest[DotsAhead + 1] \notin Dots
                                     /\ rest[DotsAhead + 1] \in Names
<1> DEFINE Ahead0(k, n) == /\ \A i \in 1 .. k : rest[i] \in Dots
                           /\ k < n => rest[k + 1] \notin Dots
           T == {n \in Nat : n <= Len(rest) => \E k \in 0 .. n : Ahead0(k, n)}
<1>1. 0 \in T
  OBVIOUS
<1>2. ASSUME NEW n \in T PROVE n + 1 \in T
  <2>1. n \in Nat /\ n + 1 \in Nat
    OBVIOUS
  <2>2. SUFFICES ASSUME n + 1 <= Len(rest)
                 PROVE  \E k \in 0 .. n + 1 : Ahead0(k, n + 1)
    BY <2>1
  <2>3. PICK k \in 0 .. n : Ahead0(k, n)
    BY <2>1, <2>2
  <2>4. CASE k < n
    BY <2>1, <2>3, <2>4
  <2>5. CASE k = n /\ rest[n + 1] \notin Dots
    BY <2>1, <2>3, <2>5
  <2>6. CASE k = n /\ rest[n + 1] \in Dots
    <3>1. \A i \in 1 .. n + 1 : rest[i] \in Dots
      BY <2>1, <2>3, <2>6
    <3> QED
      BY <2>1, <3>1
  <2> QED
    BY <2>1, <2>3, <2>4, <2>5, <2>6
<1>3. T = Nat
  <2>1. T \subseteq Nat
    OBVIOUS
  <2> HIDE DEF T
  <2> QED
    BY <1>1, <1>2, <2>1, SetInduction
<1>4. Len(rest) \in Nat
  OBVIOUS
<1>5. \E k \in 0 .. Len(rest) : Ahead0(k, Len(rest))
  BY <1>3, <1>4
<1>6. DotsAhead \in 0 .. Len(rest) /\ Ahead0(DotsAhead, Len(rest))
  BY <1>5 DEF DotsAhead
<1>7. DotsAhead < Len(rest) => rest[DotsAhead + 1] \in Listed
  BY <1>6
<1> QED
  BY <1>6, <1>7 DEF Listed

LEMMA AheadIs ==
  ASSUME CardOK, file["local"].fd # None, NEW count \in Nat
  PROVE  /\ Ahead(count) \in Seq(Bytes)
         /\ At("local") = 0 => Len(Ahead(count)) <= count
         /\ At("local") = 0 /\ count = Len(data[NameOf("local")]) =>
              Ahead(count) = data[NameOf("local")]
<1> DEFINE text == data[NameOf("local")]
           at == At("local")
           last == Shorter(Len(text), at + count)
<1>1. at \in Nat /\ NameOf("local") \in Files
  BY HeldIs DEF Handles
<1>2. text \in Seq(Bytes)
  BY <1>1 DEF CardOK, CardTypes
<1>3. Ahead(count) = SubSeq(text, at + 1, last)
  BY DEF Ahead
<1> HIDE DEF text, at
<1>4. /\ last \in Nat /\ last <= Len(text) /\ last <= at + count
      /\ at = 0 /\ count = Len(text) => last = Len(text)
  BY <1>1, <1>2 DEF Shorter
<1> HIDE DEF last
<1>5. \A i \in at + 1 .. last : text[i] \in Bytes
  BY <1>1, <1>2, <1>4
<1>6. /\ SubSeq(text, at + 1, last) \in Seq(Bytes)
      /\ Len(SubSeq(text, at + 1, last)) =
           IF at + 1 <= last THEN last - (at + 1) + 1 ELSE 0
  BY <1>1, <1>4, <1>5, SubSeqProperties
<1>7. at = 0 => Len(SubSeq(text, at + 1, last)) <= count
  BY <1>1, <1>4, <1>6
<1>8. at = 0 /\ count = Len(text) => SubSeq(text, at + 1, last) = text
  BY <1>2, <1>4, SubSeqFull
<1> QED
  BY <1>3, <1>6, <1>7, <1>8 DEF text, at

LEMMA PaddedIs ==
  ASSUME NEW text \in Seq(Bytes), NEW size \in Nat
  PROVE  Padded(text, size) \in Seq(Bytes)
<1>1. \A i \in 1 .. size : (IF i <= Len(text) THEN text[i] ELSE 0) \in Bytes
  BY CardAssumption
<1> QED
  BY <1>1 DEF Padded

LEMMA SizeIs ==
  ASSUME CardOK
  PROVE  Size("local") \in Nat
<1>1. CASE file["local"].fd = None
  BY <1>1 DEF Size
<1>2. CASE file["local"].fd # None
  <2>1. data[NameOf("local")] \in Seq(Bytes)
    BY <1>2, HeldIs DEF Handles, CardOK, CardTypes
  <2> QED
    BY <1>2, <2>1 DEF Size
<1> QED
  BY <1>1, <1>2

LEMMA IdleIs == Idle \in Calls /\ Idle.pc = "idle"
<1>1. <<>> \in Seq(Bytes)
  OBVIOUS
<1> QED
  BY <1>1 DEF Idle, Calls, Steps, Ops

Reading == {"readFileToString", "readFile", "readFileToStream",
            "readFileToBuffer"}

LEMMA StartedIs ==
  ASSUME NEW op \in Reading \cup {"writeFile"}, NEW n \in Names
  PROVE  /\ Started(op, n) \in Calls /\ Started(op, n).name = n
         /\ Started(op, n).pc = op /\ Started(op, n).op = op
         /\ Started(op, n).quiet = TRUE /\ Started(op, n).out = <<>>
         /\ Started(op, n).ok = FALSE
<1>1. <<>> \in Seq(Bytes)
  OBVIOUS
<1> QED
  BY <1>1 DEF Started, Idle, Calls, Steps, Ops, Reading

LEMMA FinishedIs ==
  ASSUME call \in Calls, NEW ok \in BOOLEAN, NEW out \in Seq(Bytes)
  PROVE  /\ Finished(ok, out) \in Calls
         /\ Finished(ok, out).name = call.name
         /\ Finished(ok, out).pc = "done" /\ Finished(ok, out).op = call.op
         /\ Finished(ok, out).ok = ok /\ Finished(ok, out).out = out
         /\ Finished(ok, out).quiet = call.quiet
         /\ Finished(ok, out).size = call.size
  BY DEF Finished, Calls, Steps

LEMMA DisturbedIs ==
  ASSUME call \in Calls
  PROVE  /\ Disturbed \in Calls
         /\ Disturbed.pc = call.pc /\ Disturbed.name = call.name
         /\ Disturbed.op = call.op /\ Disturbed.size = call.size
         /\ Disturbed.out = call.out /\ Disturbed.ok = call.ok
         /\ Disturbed.quiet => call.pc = "idle"
  BY DEF Disturbed, Calls

LEMMA DisturbedIdle == call.pc = "idle" => Disturbed = call
  BY DEF Disturbed

LEMMA RestartIs ==
  ASSUME Restart
  PROVE  /\ seen' \in [Names -> 0 .. 2] /\ stayed' \subseteq Names
         /\ moved' = FALSE /\ shifted' = FALSE /\ outcome' = "going"
  BY DEF Restart, Entries

(* The function returns, its HalFile closed or destroyed.                  *)
LEMMA ReturnHolds ==
  ASSUME CardOK, CallTypes, NEW ok \in BOOLEAN, NEW out \in Seq(Bytes),
         Return(ok, out) \/ CloseAndReturn(ok, out),
         listing' \in Seq(Listed), rest' \in Seq(Listed),
         data' \in [Files -> Seq(Bytes)], call.pc # "idle"
  PROVE  CardOK' /\ CallTypes'
<1>1. call' = Finished(ok, out)
  BY DEF Return, CloseAndReturn
<1>2. CallTypes'
  BY <1>1, FinishedIs DEF CallTypes
<1> DEFINE h == "local"
<1>5. h \in Handles
  BY DEF Handles
<1>3. CASE Return(ok, out)
  <2>1. AssignClosed(h)
    BY <1>3 DEF Return
  <2> QED
    BY <1>2, <1>5, <2>1, DestroyOK
<1>4. CASE CloseAndReturn(ok, out)
  <2>1. slot' = CloseSlots(h) /\ file' = [file EXCEPT ![h] = Closed]
    BY <1>4 DEF CloseAndReturn
  <2> HIDE DEF h
  <2> QED
    BY <1>2, <1>5, <2>1, ClosedIs, CloseHolds, FromTables
<1> QED
  BY <1>2, <1>3, <1>4

HoldInv == TypeOK /\ Owned(slot, file)

LEMMA Parts ==
  HoldInv <=> /\ CardOK /\ CallTypes /\ WalkTypes /\ uses \in {"walk", "text"}
  BY DEF HoldInv, TypeOK, CardOK

LEMMA PartsNext ==
  HoldInv' <=>
    /\ CardOK' /\ CallTypes' /\ WalkTypes' /\ uses' \in {"walk", "text"}
  BY DEF HoldInv, TypeOK, CardOK

LEMMA HandlesAre ==
  /\ "walk" \in Handles /\ "child" \in Handles /\ "local" \in Handles
  /\ \A h \in Handles : h = "walk" \/ h = "child" \/ h = "local"
  BY DEF Handles

LEMMA SameCall == CallTypes /\ UNCHANGED call => CallTypes'
  BY DEF CallTypes

LEMMA SameWalk ==
  WalkTypes /\ UNCHANGED <<saved, seen, stayed, moved, shifted, outcome>>
    => WalkTypes'
  BY DEF WalkTypes

LEMMA SameCard == CardOK /\ UNCHANGED cardVars => CardOK'
  BY DEF CardOK, CardTypes, Owned, cardVars

LEMMA HoldInit == Init => HoldInv
<1> SUFFICES ASSUME Init PROVE HoldInv
  OBVIOUS
<1>1. listing \in Seq(Listed)
  <2>1. Cardinality(Listed) \in Nat
    BY CardAssumption, FS_CardinalityType DEF Listed
  <2>2. listing \in [1 .. Cardinality(Listed) -> Listed]
    BY DEF Init, CardInit, SetToSeqs, Listed
  <2> QED
    BY <2>1, <2>2
<1>2. CardTypes
  <2>1. rest \in Seq(Listed)
    BY DEF Init, CardInit
  <2>2. data \in [Files -> Seq(Bytes)]
    BY DEF Init
  <2>3. slot \in [Slots -> Descriptors \cup {None}]
    BY DEF Init, CardInit
  <2>4. file \in [Handles -> Impls]
    BY ClosedIs DEF Init, CardInit
  <2> QED
    BY <1>1, <2>1, <2>2, <2>3, <2>4 DEF CardTypes
<1>3. Owned(slot, file)
  BY ClosedIs DEF Init, CardInit, Owned
<1>4. CallTypes
  BY IdleIs DEF Init, CallTypes
<1>5. WalkTypes
  <2>1. seen \in [Names -> 0 .. 2]
    BY DEF Init
  <2> QED
    BY <2>1, Zenon DEF Init, WalkTypes
<1>6. uses \in {"walk", "text"}
  BY DEF Init
<1> QED
  BY <1>2, <1>3, <1>4, <1>5, <1>6 DEF HoldInv, TypeOK

-----------------------------------------------------------------------------
(* Iteration.                                                              *)

LEMMA OpenWalkHolds == HoldInv /\ OpenWalk => HoldInv'
<1> SUFFICES ASSUME HoldInv, OpenWalk PROVE HoldInv'
  OBVIOUS
<1>1. CardOK /\ CallTypes /\ WalkTypes
  BY Parts
<1>2. CardOK'
  BY <1>1, HandlesAre, OpenOK DEF OpenWalk
<1>3. WalkTypes'
  BY <1>1, RestartIs DEF OpenWalk, WalkTypes
<1> QED
  BY <1>1, <1>2, <1>3, Parts, SameCall, PartsNext DEF OpenWalk

LEMMA WalkSteps ==
  ASSUME CardOK, file' \in FileTable,
         \A h \in Handles : file'[h].fd = file[h].fd
                            /\ file'[h].dir = file[h].dir,
         UNCHANGED <<listing, data, slot>>, rest' \in Seq(Listed)
  PROVE  CardOK'
  BY SameSlotsHolds DEF CardOK, CardTypes

(* walk's own fields change, its stream does not.                          *)
WalkAt(f, p, b) ==
  [f EXCEPT !["walk"].failed = b, !["walk"].position = p]

LEMMA WalkFields ==
  ASSUME NEW f \in FileTable, NEW p \in Nat, NEW b \in BOOLEAN
  PROVE  /\ WalkAt(f, p, b) \in FileTable
         /\ \A h \in Handles : /\ WalkAt(f, p, b)[h].fd = f[h].fd
                                /\ WalkAt(f, p, b)[h].dir = f[h].dir
                                /\ WalkAt(f, p, b)[h].path = f[h].path
         /\ WalkAt(f, p, b)["walk"].position = p
<1> DEFINE i == [[f["walk"] EXCEPT !.failed = b] EXCEPT !.position = p]
           g == WalkAt(f, p, b)
<1>1. f["walk"] \in Impls
  BY HandlesAre DEF FileTable
<1>2. /\ i \in Impls /\ i.fd = f["walk"].fd /\ i.dir = f["walk"].dir
      /\ i.position = p /\ i.failed = b /\ i.path = f["walk"].path
  BY <1>1 DEF Impls
<1>3. g = [f EXCEPT !["walk"] = i]
  BY HandlesAre DEF FileTable, WalkAt
<1> HIDE DEF i, g
<1>4. g \in FileTable
  BY <1>2, <1>3 DEF FileTable
<1>5. \A h \in Handles : /\ g[h].fd = f[h].fd /\ g[h].dir = f[h].dir
                          /\ g[h].path = f[h].path
  BY <1>2, <1>3 DEF FileTable
<1>6. g["walk"] = i
  BY <1>3, HandlesAre DEF FileTable
<1> QED
  BY <1>2, <1>4, <1>5, <1>6 DEF g

LEMMA RewindHolds == HoldInv /\ Rewind => HoldInv'
<1> SUFFICES ASSUME HoldInv, Rewind PROVE HoldInv'
  OBVIOUS
<1>1. CardOK /\ CallTypes /\ WalkTypes /\ CardTypes /\ file \in FileTable
  BY Parts, TablesAre DEF CardOK
<1>2. file' = WalkAt(file, 0, FALSE)
  BY <1>1, HandlesAre DEF Rewind, FileTable, WalkAt
<1>3. CardOK'
  <2>1. rest' \in Seq(Listed) /\ UNCHANGED <<listing, data, slot>>
    BY <1>1 DEF Rewind, CardTypes
  <2>2. 0 \in Nat /\ FALSE \in BOOLEAN
    OBVIOUS
  <2>3. /\ file' \in FileTable
        /\ \A h \in Handles : file'[h].fd = file[h].fd
                              /\ file'[h].dir = file[h].dir
    BY <1>1, <1>2, <2>2, WalkFields
  <2> QED
    BY <1>1, <2>1, <2>3, WalkSteps
<1>4. WalkTypes'
  BY <1>1, RestartIs DEF Rewind, WalkTypes
<1> QED
  BY <1>1, <1>3, <1>4, Parts, SameCall, PartsNext DEF Rewind

LEMMA StepOfWalk ==
  ASSUME HoldInv, CardOK', CallTypes', WalkTypes', UNCHANGED uses
  PROVE  HoldInv'
  BY Parts, PartsNext

LEMMA SubSeqListed ==
  ASSUME NEW s \in Seq(Listed), NEW m \in Nat \ {0}
  PROVE  SubSeq(s, m, Len(s)) \in Seq(Listed)
<1>1. \A i \in m .. Len(s) : s[i] \in Listed
  OBVIOUS
<1> QED
  BY <1>1, SubSeqProperties

LEMMA EntryRead ==
  ASSUME HoldInv, ReadEntry
  PROVE  /\ call' \in Calls /\ call'.pc = "stat" /\ call'.name \in Names
         /\ call'.name = rest[DotsAhead + 1] /\ call'.op = "next"
         /\ file' = WalkAt(file, file["walk"].position + (DotsAhead + 1),
                           FALSE)
<1>1. CardTypes /\ rest \in Seq(Listed) /\ file \in FileTable
  BY Parts, TablesAre DEF CardOK, CardTypes
<1>2. rest[DotsAhead + 1] \in Names
  BY <1>1, DotsAheadIs DEF ReadEntry
<1> DEFINE n == rest[DotsAhead + 1]
<1>3. call' = [Idle EXCEPT !.pc = "stat", !.op = "next", !.name = n]
  BY DEF ReadEntry
<1>4. file' = WalkAt(file, file["walk"].position + (DotsAhead + 1), FALSE)
  BY <1>1, HandlesAre DEF ReadEntry, WalkAt, Counted, FileTable
<1>5. <<>> \in Seq(Bytes)
  OBVIOUS
<1>6. n \in Names
  BY <1>2
<1> HIDE DEF n
<1>7. /\ call' \in Calls /\ call'.pc = "stat" /\ call'.name = n
      /\ call'.op = "next"
  BY <1>3, <1>5, <1>6 DEF Idle, Calls, Steps, Ops
<1> QED
  BY <1>4, <1>6, <1>7 DEF n

LEMMA ReadEntryHolds == HoldInv /\ ReadEntry => HoldInv'
<1> SUFFICES ASSUME HoldInv, ReadEntry PROVE HoldInv'
  OBVIOUS
<1> DEFINE k == DotsAhead
           p == file["walk"].position + (k + 1)
<1>1. CardOK /\ CardTypes /\ rest \in Seq(Listed) /\ file \in FileTable
      /\ WalkTypes
  BY Parts, TablesAre DEF CardOK, CardTypes
<1>2. k \in Nat
  BY <1>1, DotsAheadIs
<1>3. file' = WalkAt(file, p, FALSE) /\ rest' = SubSeq(rest, k + 2, Len(rest))
      /\ UNCHANGED <<listing, data, slot, uses>>
  BY EntryRead DEF ReadEntry
<1>4. p \in Nat /\ FALSE \in BOOLEAN
  BY <1>1, <1>2, FileIs, HandlesAre
<1>5. k + 2 \in Nat \ {0}
  BY <1>2
<1> HIDE DEF k, p
<1>6. rest' \in Seq(Listed)
  BY <1>1, <1>3, <1>5, SubSeqListed
<1>7. /\ file' \in FileTable
      /\ \A h \in Handles : file'[h].fd = file[h].fd
                            /\ file'[h].dir = file[h].dir
  BY <1>1, <1>3, <1>4, WalkFields
<1>8. CardOK'
  BY <1>1, <1>3, <1>6, <1>7, WalkSteps
<1>9. CallTypes'
  BY EntryRead DEF CallTypes
<1>10. WalkTypes'
  BY <1>1, SameWalk DEF ReadEntry, walkVars
<1> QED
  BY <1>3, <1>8, <1>9, <1>10, StepOfWalk

(* walk's fields and what child is after openNextFile.                     *)
LEMMA WalkAndChild ==
  ASSUME CardOK, NEW i \in Impls, NEW p \in Nat, NEW b \in BOOLEAN,
         slot' \in SlotTable,
         Owned(slot', [file EXCEPT !["child"] = i]),
         file' = WalkAt([file EXCEPT !["child"] = i], p, b),
         UNCHANGED <<listing, data>>, rest' \in Seq(Listed)
  PROVE  CardOK'
<1> DEFINE f == [file EXCEPT !["child"] = i]
<1>1. f \in FileTable
  BY TablesAre, HandlesAre DEF FileTable, CardOK
<1>2. file' = WalkAt(f, p, b) /\ Owned(slot', f)
  OBVIOUS
<1> HIDE DEF f
<1>3. /\ WalkAt(f, p, b) \in FileTable
      /\ \A h \in Handles : /\ WalkAt(f, p, b)[h].fd = f[h].fd
                            /\ WalkAt(f, p, b)[h].dir = f[h].dir
  BY <1>1, WalkFields
<1>4. Owned(slot', WalkAt(f, p, b))
  <2> DEFINE g == WalkAt(f, p, b)
  <2>1. g \in FileTable /\ \A h \in Handles : g[h].fd = f[h].fd
                                              /\ g[h].dir = f[h].dir
    BY <1>3
  <2> HIDE DEF g
  <2>2. Owned(slot', g)
    BY <1>1, <1>2, <2>1, Stays
  <2> QED
    BY <2>2 DEF g
<1> QED
  BY <1>2, <1>3, <1>4, FromTables DEF CardOK, CardTypes

LEMMA EndedAt ==
  ASSUME HoldInv, NEW error \in BOOLEAN, EndEntry(error)
  PROVE  \E p \in Nat :
           /\ file' = WalkAt([file EXCEPT !["child"] = Closed], p, error)
           /\ p = IF error THEN file["walk"].position
                  ELSE file["walk"].position + Len(rest)
<1>1. CardTypes /\ rest \in Seq(Listed) /\ file \in FileTable
  BY Parts, TablesAre DEF CardOK, CardTypes
<1>2. file["walk"].position \in Nat
  BY <1>1, FileIs, HandlesAre
<1> DEFINE p == IF error THEN file["walk"].position
                ELSE file["walk"].position + Len(rest)
<1>3. p \in Nat
  BY <1>1, <1>2
<1>4. file' = WalkAt([file EXCEPT !["child"] = Closed], p, error)
  BY <1>1, HandlesAre DEF EndEntry, WalkAt, FileTable
<1> QED
  BY <1>3, <1>4

LEMMA EndEntryHolds ==
  ASSUME HoldInv, NEW error \in BOOLEAN, EndEntry(error)
  PROVE  HoldInv'
<1>1. CardOK /\ CallTypes /\ WalkTypes /\ rest \in Seq(Listed)
  BY Parts DEF CardOK, CardTypes
<1>2. PICK p \in Nat :
        file' = WalkAt([file EXCEPT !["child"] = Closed], p, error)
  BY EndedAt
<1>3. /\ slot' = Dropped("child") /\ rest' \in Seq(Listed)
      /\ UNCHANGED <<listing, data, uses, call>>
  BY <1>1 DEF EndEntry
<1>4. slot' \in SlotTable /\ Owned(slot', [file EXCEPT !["child"] = Closed])
  BY <1>1, <1>3, DroppedHolds, ClosedIs, HandlesAre
<1>5. CardOK'
  BY <1>1, <1>2, <1>3, <1>4, ClosedIs, WalkAndChild
<1>6. WalkTypes'
  BY <1>1 DEF EndEntry, WalkTypes, Ends
<1> QED
  BY <1>1, <1>3, <1>5, <1>6, SameCall, StepOfWalk

LEMMA StatEntryHolds == HoldInv /\ StatEntry => HoldInv'
<1> SUFFICES ASSUME HoldInv, StatEntry PROVE HoldInv'
  OBVIOUS
<1>1. CardOK /\ CallTypes /\ WalkTypes /\ CardTypes /\ file \in FileTable
      /\ rest' \in Seq(Listed) /\ UNCHANGED <<listing, data, uses, rest>>
  BY Parts, TablesAre DEF StatEntry, CardOK, CardTypes
<1>2. CASE Exists(call.name)
  <2>1. call' = [call EXCEPT !.pc = "open"] /\ UNCHANGED cardVars
        /\ UNCHANGED <<saved, seen, stayed, moved, shifted, outcome>>
    BY <1>2 DEF StatEntry, cardVars
  <2>2. CallTypes'
    BY <1>1, <2>1 DEF CallTypes, Calls, Steps, StatEntry
  <2> QED
    BY <1>1, <2>1, <2>2, SameCard, SameWalk, StepOfWalk
<1>3. CASE ~Exists(call.name)
  <2>1. /\ call' = Idle /\ slot' = Dropped("child")
        /\ file' = [file EXCEPT !["walk"].failed = TRUE, !["child"] = Closed]
        /\ outcome' = "failed"
        /\ UNCHANGED <<saved, seen, stayed, moved, shifted>>
    BY <1>3 DEF StatEntry
  <2> DEFINE p == file["walk"].position
  <2>2. p \in Nat
    BY <1>1, FileIs, HandlesAre
  <2>3. file' = WalkAt([file EXCEPT !["child"] = Closed], p, TRUE)
    BY <1>1, <2>1, HandlesAre DEF WalkAt, FileTable, Impls
  <2> HIDE DEF p
  <2>4. slot' \in SlotTable /\ Owned(slot', [file EXCEPT !["child"] = Closed])
    BY <1>1, <2>1, DroppedHolds, ClosedIs, HandlesAre
  <2>5. CardOK'
    BY <1>1, <2>2, <2>3, <2>4, ClosedIs, WalkAndChild
  <2>6. WalkTypes' /\ CallTypes'
    BY <1>1, <2>1, IdleIs DEF WalkTypes, CallTypes
  <2> QED
    BY <1>1, <2>5, <2>6, StepOfWalk
<1> QED
  BY <1>2, <1>3

LEMMA OpenEntryHolds == HoldInv /\ OpenEntry => HoldInv'
<1> SUFFICES ASSUME HoldInv, OpenEntry PROVE HoldInv'
  OBVIOUS
<1>1. CardOK /\ CallTypes /\ WalkTypes /\ CardTypes /\ file \in FileTable
      /\ rest' \in Seq(Listed) /\ UNCHANGED <<listing, data, uses, rest>>
  BY Parts, TablesAre DEF OpenEntry, CardOK, CardTypes
<1> DEFINE n == call.name
           p == file["walk"].position
           b == ~CanOpen(n)
<1>2. n \in Names /\ n \in Names \cup {Books}
  BY <1>1 DEF CallTypes, OpenEntry
<1>3. /\ slot' = Taken("child", n)
      /\ file' = [file EXCEPT !["walk"].failed = b, !["child"] = Opened(n)]
      /\ call' = Idle
  BY DEF OpenEntry, Taken
<1>4. p \in Nat /\ b \in BOOLEAN
  BY <1>1, FileIs, HandlesAre
<1>5. file' = WalkAt([file EXCEPT !["child"] = Opened(n)], p, b)
  BY <1>1, <1>3, HandlesAre DEF WalkAt, FileTable, Impls
<1>6. WalkTypes'
  <2>1. UNCHANGED <<saved, stayed, moved, shifted>>
        /\ seen' \in [Names -> 0 .. 2]
        /\ outcome' \in {outcome, "failed"}
    BY <1>1 DEF OpenEntry, WalkTypes
  <2> QED
    BY <1>1, <2>1 DEF WalkTypes
<1>7. CallTypes'
  BY <1>3, IdleIs DEF CallTypes
<1> HIDE DEF n, p, b
<1>8. Opened(n) \in Impls
  BY <1>2, OpenedIs
<1>9. /\ slot' \in SlotTable
      /\ Owned(slot', [file EXCEPT !["child"] = Opened(n)])
  BY <1>1, <1>2, <1>3, <1>8, TakenHolds, HandlesAre
<1>10. CardOK'
  BY <1>1, <1>4, <1>5, <1>8, <1>9, WalkAndChild
<1> QED
  BY <1>1, <1>6, <1>7, <1>10, StepOfWalk

LEMMA SuspendHolds == HoldInv /\ Suspend => HoldInv'
<1> SUFFICES ASSUME HoldInv, Suspend PROVE HoldInv'
  OBVIOUS
<1>1. CardOK /\ CallTypes /\ WalkTypes /\ CardTypes
  BY Parts DEF CardOK
<1>2. CardOK'
  BY <1>1, CloseOK, HandlesAre DEF Suspend
<1>3. file["walk"].position \in Nat
  BY <1>1, FileIs, HandlesAre
<1>4. WalkTypes'
  BY <1>1, <1>3 DEF Suspend, WalkTypes
<1> QED
  BY <1>1, <1>2, <1>4, SameCall, StepOfWalk DEF Suspend

LEMMA ResumeHolds == HoldInv /\ Resume => HoldInv'
<1> SUFFICES ASSUME HoldInv, Resume PROVE HoldInv'
  OBVIOUS
<1>1. /\ CardOK /\ CallTypes /\ WalkTypes /\ CardTypes
      /\ listing \in Seq(Listed)
      /\ Books \in Names \cup {Books}
  BY Parts DEF CardOK, CardTypes
<1> DEFINE read == IF saved <= Len(listing) THEN saved ELSE Len(listing)
           i == [Opened(Books) EXCEPT !.position = read]
<1>2. saved \in Nat /\ read \in Nat /\ read + 1 \in Nat \ {0}
  BY <1>1 DEF Resume, WalkTypes
<1>3. /\ slot' = Taken("walk", Books) /\ file' = [file EXCEPT !["walk"] = i]
      /\ rest' = SubSeq(listing, read + 1, Len(listing))
      /\ UNCHANGED <<listing, data, uses, call>>
  BY DEF Resume, Taken
<1>4. WalkTypes'
  <2>1. /\ saved' = None /\ shifted' \in BOOLEAN /\ moved' = FALSE
        /\ outcome' \in {outcome, "failed"} /\ UNCHANGED <<seen, stayed>>
    BY <1>1 DEF Resume, WalkTypes
  <2> QED
    BY <1>1, <2>1 DEF WalkTypes
<1> HIDE DEF read
<1>5. rest' \in Seq(Listed)
  BY <1>1, <1>2, <1>3, SubSeqListed
<1>6. i \in Impls /\ i.fd = Opened(Books).fd /\ i.dir = Opened(Books).dir
  BY <1>1, <1>2, OpenedIs DEF Impls
<1> HIDE DEF i
<1>7. slot' \in SlotTable /\ file' \in FileTable /\ Owned(slot', file')
  BY <1>1, <1>3, <1>6, TakenHolds, HandlesAre
<1>8. CardOK'
  BY <1>1, <1>3, <1>5, <1>7, FromTables DEF CardTypes
<1> QED
  BY <1>1, <1>3, <1>4, <1>8, SameCall, StepOfWalk

LEMMA DropChildHolds == HoldInv /\ DropChild => HoldInv'
<1> SUFFICES ASSUME HoldInv, DropChild PROVE HoldInv'
  OBVIOUS
<1>1. CardOK /\ CallTypes /\ WalkTypes
  BY Parts
<1>2. /\ slot' \in {CloseSlots("child"), Dropped("child")}
      /\ file' = [file EXCEPT !["child"] = Closed]
      /\ UNCHANGED <<listing, data, rest, uses, call>>
      /\ UNCHANGED <<saved, seen, stayed, moved, shifted, outcome>>
  BY DEF DropChild, walkVars
<1>3. slot' \in SlotTable /\ file' \in FileTable /\ Owned(slot', file')
  BY <1>1, <1>2, CloseHolds, DroppedHolds, ClosedIs, HandlesAre
<1>4. CardOK'
  BY <1>1, <1>2, <1>3, FromTables DEF CardOK, CardTypes
<1> QED
  BY <1>1, <1>2, <1>4, SameCall, SameWalk, StepOfWalk

LEMMA UploadHolds ==
  ASSUME HoldInv, NEW n \in Volatile, Upload(n)
  PROVE  HoldInv'
<1>1. CardOK /\ CallTypes /\ WalkTypes /\ n \in Names
  BY Parts, CardFilesAssumption
<1>2. CardOK'
  BY <1>1, CreateOK DEF Upload
<1>3. WalkTypes'
  BY <1>1 DEF Upload, WalkTypes
<1> QED
  BY <1>1, <1>2, <1>3, SameCall, StepOfWalk DEF Upload

LEMMA DiscardHolds ==
  ASSUME HoldInv, NEW n \in Volatile, Discard(n)
  PROVE  HoldInv'
<1>1. CardOK /\ CallTypes /\ WalkTypes /\ n \in Names
  BY Parts, CardFilesAssumption
<1>2. CardOK'
  BY <1>1, DeleteOK DEF Discard
<1>3. WalkTypes'
  BY <1>1 DEF Discard, WalkTypes
<1>4. CallTypes'
  BY <1>1, DisturbedIs DEF Discard, CallTypes
<1> QED
  BY <1>2, <1>3, <1>4, StepOfWalk DEF Discard

-----------------------------------------------------------------------------
(* Whole files.                                                            *)

(* The iteration's variables are left alone, and uses too.                 *)
LEMMA StepOfText ==
  ASSUME HoldInv, CardOK', CallTypes', UNCHANGED <<uses, walkVars>>
  PROVE  HoldInv'
<1>1. WalkTypes'
  BY Parts, SameWalk DEF walkVars
<1> QED
  BY <1>1, StepOfWalk

LEMMA StartReadHolds ==
  ASSUME HoldInv, NEW n \in Names, NEW op \in Reading, StartRead(op, n)
  PROVE  HoldInv'
<1>1. CardOK /\ UNCHANGED <<uses, walkVars>>
  BY Parts DEF StartRead
<1>2. CardOK'
  BY <1>1, HandlesAre, OpenOK DEF StartRead
<1>3. CallTypes'
  <2> DEFINE c == Started(op, n)
  <2>1. call' = c \/ call' = [c EXCEPT !.pc = "done"]
    BY DEF StartRead
  <2>2. c \in Calls /\ c.name = n
    BY StartedIs
  <2> HIDE DEF c
  <2> QED
    BY <2>1, <2>2 DEF CallTypes, Calls, Steps
<1> QED
  BY <1>1, <1>2, <1>3, StepOfText

(* The function has not returned yet: it goes on with a new call record.   *)
LEMMA GoesOn ==
  ASSUME HoldInv, CardOK', call' \in Calls, call'.name = call.name,
         call.pc # "idle", UNCHANGED <<uses, walkVars>>
  PROVE  HoldInv'
  BY Parts, StepOfText DEF CallTypes

LEMMA ReadSizeHolds == HoldInv /\ ReadSize => HoldInv'
<1> SUFFICES ASSUME HoldInv, ReadSize PROVE HoldInv'
  OBVIOUS
<1>1. CardOK /\ CallTypes /\ call \in Calls /\ call.pc # "idle"
      /\ UNCHANGED <<uses, walkVars>> /\ UNCHANGED <<listing, data, rest>>
  BY Parts DEF ReadSize, CallTypes
<1>2. CASE CloseAndReturn(FALSE, <<>>)
  <2>1. FALSE \in BOOLEAN /\ <<>> \in Seq(Bytes)
    OBVIOUS
  <2>2. CardOK' /\ CallTypes'
    BY <1>1, <1>2, <2>1, ReturnHolds DEF CardOK, CardTypes
  <2> QED
    BY <1>1, <2>2, StepOfText
<1>3. CASE ~ CloseAndReturn(FALSE, <<>>)
  <2> DEFINE size == Size("local")
  <2>1. call' = [call EXCEPT !.pc = "read", !.size = size]
        /\ UNCHANGED <<slot, file>>
    BY <1>3 DEF ReadSize
  <2>2. size \in Nat
    BY <1>1, SizeIs
  <2> HIDE DEF size
  <2>3. call' \in Calls /\ call'.name = call.name
    BY <1>1, <2>1, <2>2 DEF Calls, Steps
  <2>4. CardOK'
    BY <1>1, <2>1, SameCard DEF cardVars
  <2> QED
    BY <1>1, <2>3, <2>4, GoesOn
<1> QED
  BY <1>2, <1>3

(* What a read delivers, if anything.                                      *)
LEMMA ReadIs ==
  ASSUME CardOK, NEW error \in BOOLEAN, NEW count \in Nat
  PROVE  (IF CanRead(error) THEN Ahead(count) ELSE <<>>) \in Seq(Bytes)
<1>1. <<>> \in Seq(Bytes)
  OBVIOUS
<1> QED
  BY <1>1, AheadIs DEF CanRead

LEMMA Returns ==
  ASSUME HoldInv, NEW ok \in BOOLEAN, NEW out \in Seq(Bytes),
         Return(ok, out) \/ CloseAndReturn(ok, out), call.pc # "idle",
         UNCHANGED <<listing, rest>>, data' \in [Files -> Seq(Bytes)],
         UNCHANGED <<uses, walkVars>>
  PROVE  HoldInv'
  BY Parts, ReturnHolds, StepOfText DEF CardOK, CardTypes

LEMMA ReadWholeHolds ==
  ASSUME HoldInv, NEW error \in BOOLEAN, ReadWhole(error)
  PROVE  HoldInv'
<1> DEFINE size == call.size
           text == IF CanRead(error) THEN Ahead(size) ELSE <<>>
           ok == size = 0 \/ Len(text) = size
<1>1. /\ CardOK /\ size \in Nat /\ call.pc # "idle"
      /\ data' \in [Files -> Seq(Bytes)] /\ UNCHANGED <<listing, rest>>
      /\ UNCHANGED <<uses, walkVars>>
  BY Parts DEF ReadWhole, CallTypes, Calls, CardOK, CardTypes
<1>2. text \in Seq(Bytes)
  BY <1>1, ReadIs
<1>3. \/ CloseAndReturn(ok, IF ok THEN text ELSE <<>>)
      \/ Return(TRUE, Padded(text, size))
  BY DEF ReadWhole, StringRead
<1> HIDE DEF size, text
<1>4. ok \in BOOLEAN /\ TRUE \in BOOLEAN /\ <<>> \in Seq(Bytes)
  OBVIOUS
<1> HIDE DEF ok
<1>5. (IF ok THEN text ELSE <<>>) \in Seq(Bytes)
  BY <1>2, <1>4
<1>6. Padded(text, size) \in Seq(Bytes)
  BY <1>1, <1>2, PaddedIs
<1> QED
  BY <1>1, <1>3, <1>4, <1>5, <1>6, Returns

LEMMA ReadChunkHolds ==
  ASSUME HoldInv, NEW error \in BOOLEAN, ReadChunk(error)
  PROVE  HoldInv'
<1>1. /\ CardOK /\ call \in Calls /\ call.pc # "idle"
      /\ data' \in [Files -> Seq(Bytes)] /\ UNCHANGED <<listing, rest, data>>
      /\ UNCHANGED <<uses, walkVars>> /\ call.out \in Seq(Bytes)
  BY Parts DEF ReadChunk, CallTypes, Calls, CardOK, CardTypes
<1>2. CASE Return(TRUE, call.out)
  BY <1>1, <1>2, Returns
<1>3. CASE ~ Return(TRUE, call.out)
  <2> DEFINE piece == Ahead(1)
             h == "local"
             pos == slot[file[h].fd].at + 1
  <2>1. /\ CanRead(error)
        /\ call' = [call EXCEPT !.out = @ \o piece]
        /\ slot' = [slot EXCEPT ![file[h].fd].at = @ + 1]
        /\ UNCHANGED file
    BY <1>3 DEF ReadChunk
  <2>2. file[h].fd # None /\ h \in Handles
    BY <2>1, HandlesAre DEF CanRead
  <2>3. slot' = [slot EXCEPT ![file[h].fd].at = pos] /\ pos \in Nat
    BY <1>1, <2>1, <2>2, HeldIs DEF At
  <2>4. piece \in Seq(Bytes)
    BY <1>1, <2>2, AheadIs
  <2> HIDE DEF piece, h, pos
  <2>5. CardOK'
    BY <1>1, <2>1, <2>2, <2>3, MoveHolds
  <2>6. call' \in Calls /\ call'.name = call.name
    <3>1. call.out \o piece \in Seq(Bytes)
      BY <1>1, <2>4
    <3> QED
      BY <1>1, <2>1, <3>1 DEF Calls
  <2> QED
    BY <1>1, <2>5, <2>6, GoesOn
<1> QED
  BY <1>2, <1>3

LEMMA ReadBufferHolds ==
  ASSUME HoldInv, NEW error \in BOOLEAN, NEW limit \in 0 .. MaxLen,
         ReadBuffer(error, limit)
  PROVE  HoldInv'
<1> DEFINE text == IF CanRead(error) THEN Ahead(limit) ELSE <<>>
<1>1. /\ CardOK /\ call.pc # "idle" /\ limit \in Nat
      /\ data' \in [Files -> Seq(Bytes)] /\ UNCHANGED <<listing, rest>>
      /\ UNCHANGED <<uses, walkVars>>
  BY Parts, CardAssumption DEF ReadBuffer, CardOK, CardTypes
<1>2. text \in Seq(Bytes)
  BY <1>1, ReadIs
<1>3. Return(TRUE, text) /\ TRUE \in BOOLEAN
  BY DEF ReadBuffer
<1> HIDE DEF text
<1> QED
  BY <1>1, <1>2, <1>3, Returns

LEMMA StartWriteHolds ==
  ASSUME HoldInv, NEW n \in Written, NEW text \in Texts, StartWrite(n, text)
  PROVE  HoldInv'
<1>1. CardOK /\ UNCHANGED <<uses, walkVars>> /\ n \in Names
      /\ n \in Names \cup {Books}
  BY Parts, CardFilesAssumption DEF StartWrite
<1>2. CardOK'
  BY <1>1, HandlesAre, OpenForWriteOK DEF StartWrite
<1>3. CallTypes'
  <2> DEFINE c == Started("writeFile", n)
  <2>1. call' = [c EXCEPT !.out = text] \/ call' = [c EXCEPT !.pc = "done"]
    BY DEF StartWrite
  <2>2. c \in Calls /\ c.name = n /\ c.pc = "writeFile"
    BY <1>1, StartedIs
  <2>3. text \in Seq(Bytes)
    BY TextsAre
  <2> HIDE DEF c
  <2> QED
    BY <1>1, <2>1, <2>2, <2>3 DEF CallTypes, Calls, Steps
<1> QED
  BY <1>1, <1>2, <1>3, StepOfText

LEMMA WriteTextHolds ==
  ASSUME HoldInv, NEW k \in 0 .. MaxLen, WriteText(k)
  PROVE  HoldInv'
<1> DEFINE text == SubSeq(call.out, 1, k)
           n == call.name
<1>1. /\ CardOK /\ call.pc # "idle" /\ call.out \in Seq(Bytes)
      /\ UNCHANGED <<listing, rest>> /\ UNCHANGED <<uses, walkVars>>
      /\ data \in [Files -> Seq(Bytes)] /\ k \in Nat /\ k <= Len(call.out)
  BY Parts, CardAssumption DEF WriteText, CallTypes, Calls, CardOK, CardTypes
<1>2. text \in Seq(Bytes)
  <2>1. \A i \in 1 .. k : call.out[i] \in Bytes
    BY <1>1
  <2> QED
    BY <1>1, <2>1, SubSeqProperties
<1>3. data' = [data EXCEPT ![n] = text] /\ Return(TRUE, call.out)
  BY DEF WriteText
<1> HIDE DEF text, n
<1>4. data' \in [Files -> Seq(Bytes)]
  BY <1>1, <1>2, <1>3
<1> QED
  BY <1>1, <1>3, <1>4, Returns

LEMMA UseChildHolds == HoldInv /\ UseChild => HoldInv'
<1> SUFFICES ASSUME HoldInv, UseChild PROVE HoldInv'
  OBVIOUS
<1> DEFINE h == "child"
<1>1. /\ CardOK /\ h \in Handles /\ UNCHANGED <<uses, walkVars>>
      /\ CallTypes'
  BY Parts, HandlesAre, IdleIs DEF UseChild, CallTypes
<1>2. \/ \E n \in Written : Open(h, n) \/ OpenForWrite(h, n)
      \/ \E pos \in 0 .. MaxLen : Seek(h, pos)
      \/ \E b \in Bytes : WriteByte(h, b)
      \/ \E n \in Files : RenameTo(h, n)
      \/ Close(h) \/ Destroy(h)
  BY DEF UseChild
<1> HIDE DEF h
<1>3. CASE \E n \in Written : Open(h, n) \/ OpenForWrite(h, n)
  <2>1. PICK n \in Written : Open(h, n) \/ OpenForWrite(h, n)
    BY <1>3
  <2>2. n \in Names \cup {Books}
    BY CardFilesAssumption
  <2>3. CardOK'
    BY <1>1, <2>1, <2>2, OpenOK, OpenForWriteOK
  <2> QED
    BY <1>1, <2>3, StepOfText
<1>4. CASE \E pos \in 0 .. MaxLen : Seek(h, pos)
  <2>1. CardOK'
    BY <1>1, <1>4, SeekOK, CardAssumption
  <2> QED
    BY <1>1, <2>1, StepOfText
<1>5. CASE \E b \in Bytes : WriteByte(h, b)
  BY <1>1, <1>5, WriteByteOK, StepOfText
<1>6. CASE \E n \in Files : RenameTo(h, n)
  BY <1>1, <1>6, RenameOK, StepOfText
<1>7. CASE Close(h)
  BY <1>1, <1>7, CloseOK, StepOfText
<1>8. CASE Destroy(h)
  <2>1. CardOK'
    BY <1>1, <1>8, DestroyOK DEF Destroy, CardOK, CardTypes
  <2> QED
    BY <1>1, <2>1, StepOfText
<1> QED
  BY <1>2, <1>3, <1>4, <1>5, <1>6, <1>7, <1>8

LEMMA ReplaceHolds ==
  ASSUME HoldInv, NEW n \in Written, NEW text \in Texts, Replace(n, text)
  PROVE  HoldInv'
<1>1. CardOK /\ CallTypes /\ n \in Names /\ UNCHANGED <<uses, walkVars>>
  BY Parts, CardFilesAssumption DEF Replace
<1>2. CardOK'
  BY <1>1, RewriteOK DEF Replace
<1>3. CallTypes'
  BY <1>1, DisturbedIs DEF Replace, CallTypes
<1> QED
  BY <1>1, <1>2, <1>3, StepOfText

LEMMA HoldNext == HoldInv /\ [Next]_vars => HoldInv'
<1> SUFFICES ASSUME HoldInv, [Next]_vars PROVE HoldInv'
  OBVIOUS
<1>1. CASE UNCHANGED vars
  <2>1. UNCHANGED <<listing, data, slot, rest, file, uses, call, saved, seen,
                    stayed, moved, shifted, outcome>>
    BY <1>1 DEF vars, cardVars, walkVars
  <2>2. CardOK' /\ CallTypes' /\ WalkTypes'
    BY <2>1, Parts, SameCard, SameCall, SameWalk DEF cardVars
  <2> QED
    BY <2>1, <2>2, StepOfWalk
<1>2. CASE WalkNext
  <2>1. CASE \/ OpenWalk \/ Rewind \/ ReadEntry \/ StatEntry \/ OpenEntry
             \/ Suspend \/ Resume \/ DropChild
    BY <2>1, OpenWalkHolds, RewindHolds, ReadEntryHolds, StatEntryHolds,
       OpenEntryHolds, SuspendHolds, ResumeHolds, DropChildHolds
  <2>2. CASE \E error \in BOOLEAN : EndEntry(error)
    BY <2>2, EndEntryHolds
  <2>3. CASE \E n \in Volatile : Upload(n) \/ Discard(n)
    BY <2>3, UploadHolds, DiscardHolds
  <2> QED
    BY <1>2, <2>1, <2>2, <2>3 DEF WalkNext
<1>3. CASE TextNext
  <2>1. CASE \E n \in Names, op \in Reading : StartRead(op, n)
    BY <2>1, StartReadHolds
  <2>2. CASE ReadSize
    BY <2>2, ReadSizeHolds
  <2>3. CASE \E error \in BOOLEAN :
               \/ ReadWhole(error) \/ ReadChunk(error)
               \/ \E limit \in 0 .. MaxLen : ReadBuffer(error, limit)
    BY <2>3, ReadWholeHolds, ReadChunkHolds, ReadBufferHolds
  <2>4. CASE \E n \in Written, text \in Texts :
               StartWrite(n, text) \/ Replace(n, text)
    BY <2>4, StartWriteHolds, ReplaceHolds
  <2>5. CASE \E k \in 0 .. MaxLen : WriteText(k)
    BY <2>5, WriteTextHolds
  <2>6. CASE UseChild
    BY <2>6, UseChildHolds
  <2> QED
    BY <1>3, <2>1, <2>2, <2>3, <2>4, <2>5, <2>6 DEF TextNext, Reading
<1> QED
  BY <1>1, <1>2, <1>3 DEF Next

(* Types and descriptors together are inductive.                           *)
THEOREM HoldCorrect == Spec => []HoldInv
  BY HoldInit, HoldNext, PTL DEF Spec

(* Every variable has its type, whatever fails or is disturbed half way:   *)
(* what openNextFile takes is an entry, what the functions move are bytes. *)
THEOREM TypeCorrect == Spec => []TypeOK
<1>1. HoldInv => TypeOK
  BY DEF HoldInv
<1> QED
  BY <1>1, HoldCorrect, PTL

(* DescriptorsOwned: move-assignment, destruction, close and every early   *)
(* return of HalStorage close a file descriptor once and by its owner.     *)
THEOREM DescriptorsAreOwned == Spec => []DescriptorsOwned
<1>1. HoldInv => DescriptorsOwned
  BY DEF HoldInv, Owned, DescriptorsOwned
<1> QED
  BY <1>1, HoldCorrect, PTL

-----------------------------------------------------------------------------
(* readFileToString.                                                       *)

(* local is open on the file of the call, at its beginning.                *)
AtStart ==
  /\ file["local"].fd # None
  /\ slot[file["local"].fd].name = call.name
  /\ slot[file["local"].fd].at = 0

ReadInv ==
  /\ uses = "walk" => call.pc \in {"idle", "stat", "open"}
  /\ uses = "text" => call.pc \notin {"stat", "open"}
  /\ call.pc \in Reading \cup {"writeFile"} => call.op = call.pc
  /\ call.pc = "readFileToString" /\ file["local"].dir = None => AtStart
  /\ call.pc = "read" /\ call.op = "readFileToString" =>
       /\ AtStart /\ call.size <= Cap
       /\ call.quiet => call.size = Len(data[call.name])
  /\ AllOrNothing

LEMMA ReadInit == Init => ReadInv
  BY IdleIs DEF Init, ReadInv, AllOrNothing, Reading

(* Nothing is being read after the step.                                   *)
LEMMA NothingRead ==
  ASSUME \/ uses' = "walk" /\ call'.pc \in {"idle", "stat", "open"}
         \/ call'.pc = "idle"
         \/ /\ uses' = "text" /\ call'.pc = "writeFile"
            /\ call'.op = "writeFile"
         \/ /\ uses' = "text" /\ call'.pc = "done"
            /\ call'.op # "readFileToString"
         \/ /\ uses' = "text" /\ call'.pc = "done"
            /\ call'.ok = FALSE /\ call'.out = <<>>
  PROVE  ReadInv'
  BY DEF ReadInv, AllOrNothing, Reading

LEMMA ReadsInWalk ==
  ASSUME HoldInv, ReadInv, uses = "walk", WalkNext
  PROVE  ReadInv'
<1>1. CallTypes
  BY Parts
<1>2. CASE OpenWalk \/ Rewind \/ Suspend \/ Resume \/ DropChild
  <2>1. UNCHANGED <<uses, call>>
    BY <1>2 DEF OpenWalk, Rewind, Suspend, Resume, DropChild
  <2> QED
    BY <2>1, NothingRead DEF ReadInv
<1>3. CASE ReadEntry
  BY <1>3, EntryRead, NothingRead DEF ReadEntry
<1>4. CASE StatEntry
  <2>1. call' = Idle \/ call' = [call EXCEPT !.pc = "open"]
    BY <1>4 DEF StatEntry
  <2>2. call'.pc \in {"idle", "open"} /\ uses' = uses
    BY <1>1, <1>4, <2>1, IdleIs DEF CallTypes, Calls, StatEntry
  <2> QED
    BY <2>2, NothingRead
<1>5. CASE OpenEntry
  BY <1>5, IdleIs, NothingRead DEF OpenEntry
<1>6. CASE \E error \in BOOLEAN : EndEntry(error)
  <2>1. UNCHANGED <<uses, call>>
    BY <1>6 DEF EndEntry
  <2> QED
    BY <2>1, NothingRead DEF ReadInv
<1>7. CASE \E n \in Volatile : Upload(n)
  <2>1. UNCHANGED <<uses, call>>
    BY <1>7 DEF Upload
  <2> QED
    BY <2>1, NothingRead DEF ReadInv
<1>8. CASE \E n \in Volatile : Discard(n)
  <2>1. uses' = uses /\ call' = Disturbed
    BY <1>8 DEF Discard
  <2>2. call'.pc = call.pc
    BY <1>1, <2>1, DisturbedIs DEF CallTypes
  <2> QED
    BY <2>1, <2>2, NothingRead DEF ReadInv
<1> QED
  BY <1>2, <1>3, <1>4, <1>5, <1>6, <1>7, <1>8 DEF WalkNext

(* What another task does to the card is no change of the handles.         *)
LEMMA ReadsDisturbed ==
  ASSUME HoldInv, ReadInv, call' = Disturbed, UNCHANGED <<uses, slot, file>>
  PROVE  ReadInv'
<1>1. CallTypes
  BY Parts
<1>2. /\ call'.pc = call.pc /\ call'.name = call.name /\ call'.op = call.op
      /\ call'.size = call.size /\ call'.out = call.out /\ call'.ok = call.ok
      /\ call'.quiet => call.pc = "idle"
  BY <1>1, DisturbedIs DEF CallTypes
<1>3. AtStart => AtStart'
  BY <1>2 DEF AtStart
<1>4. AllOrNothing'
  BY <1>2 DEF AllOrNothing, ReadInv
<1> QED
  BY <1>2, <1>3, <1>4 DEF ReadInv

(* Opening a file for the call puts it at its beginning.                   *)
LEMMA OpensAtStart ==
  ASSUME HoldInv, NEW n \in Names, Assign("local", n), CanOpen(n)
  PROVE  file'["local"].dir = None =>
           /\ file'["local"].fd # None
           /\ slot'[file'["local"].fd].name = n
           /\ slot'[file'["local"].fd].at = 0
<1>1. CardOK /\ file \in FileTable /\ n \in Names \cup {Books}
  BY Parts, TablesAre DEF CardOK
<1>2. file' = [file EXCEPT !["local"] = Opened(n)]
      /\ slot' = [Dropped("local") EXCEPT ![NextSlot] = OpenOn(n)]
  BY DEF Assign
<1>3. file'["local"] = Opened(n)
  BY <1>1, <1>2, HandlesAre DEF FileTable
<1>4. NextSlot \in Slots /\ NextSlot # None
  BY NextSlotIsFree, CardAssumption
<1>5. slot'[NextSlot] = OpenOn(n)
  BY <1>2, <1>4 DEF Dropped
<1>6. CASE IsDirectory(n)
  BY <1>1, <1>3, <1>4, <1>6, OpenedIs
<1>7. CASE ~IsDirectory(n)
  <2>1. file'["local"].fd = NextSlot
    BY <1>1, <1>3, <1>7, OpenedIs
  <2>2. OpenOn(n).name = n /\ OpenOn(n).at = 0
    BY <1>1, OpenOnIs
  <2> QED
    BY <1>4, <1>5, <2>1, <2>2
<1> QED
  BY <1>6, <1>7

LEMMA ReadsStartRead ==
  ASSUME HoldInv, ReadInv, NEW n \in Names, NEW op \in Reading,
         StartRead(op, n)
  PROVE  ReadInv'
<1> DEFINE c == Started(op, n)
<1>1. /\ c \in Calls /\ c.name = n /\ c.pc = op /\ c.op = op
      /\ c.out = <<>> /\ c.ok = FALSE
  <2>1. op \in Reading \cup {"writeFile"}
    OBVIOUS
  <2> QED
    BY <2>1, StartedIs
<1>2. uses' = "text" /\ Assign("local", n)
  BY DEF StartRead, Reads, Open
<1>3. CASE CanOpen(n)
  <2>1. call' = c
    BY <1>3 DEF StartRead
  <2>2. call'.pc # "done" /\ call'.pc # "read"
    BY <1>1, <2>1 DEF Reading
  <2>3. file'["local"].dir = None => AtStart'
    <3>1. call'.name = n
      BY <1>1, <2>1
    <3> QED
      BY <1>2, <1>3, <3>1, OpensAtStart DEF AtStart
  <2> HIDE DEF c
  <2> QED
    BY <1>1, <1>2, <2>1, <2>2, <2>3 DEF ReadInv, AllOrNothing, Reading
<1>4. CASE ~CanOpen(n)
  <2>1. call' = [c EXCEPT !.pc = "done"]
    BY <1>4 DEF StartRead
  <2> HIDE DEF c
  <2>2. call'.pc = "done" /\ call'.ok = FALSE /\ call'.out = <<>>
    BY <1>1, <2>1 DEF Calls
  <2> QED
    BY <1>2, <2>2, NothingRead
<1> QED
  BY <1>3, <1>4

(* A function that returns.                                                *)
LEMMA ReadsReturn ==
  ASSUME HoldInv, ReadInv, uses = "text", UNCHANGED uses,
         NEW ok \in BOOLEAN, NEW out \in Seq(Bytes),
         call' = Finished(ok, out),
         \/ call.op # "readFileToString"
         \/ ok = FALSE /\ out = <<>>
         \/ /\ ok = TRUE
            /\ call.name \in Files /\ Len(out) = call.size
            /\ call.size <= Cap
            /\ call.quiet => out = data'[call.name]
  PROVE  ReadInv'
<1>1. /\ call'.name = call.name /\ call'.pc = "done" /\ call'.op = call.op
      /\ call'.ok = ok /\ call'.out = out /\ call'.quiet = call.quiet
      /\ call'.size = call.size
  BY Parts, FinishedIs DEF CallTypes
<1>2. AllOrNothing'
  BY <1>1 DEF AllOrNothing
<1> QED
  BY <1>1, <1>2 DEF ReadInv, Reading

LEMMA ReadsReadSize ==
  ASSUME HoldInv, ReadInv, uses = "text", ReadSize
  PROVE  ReadInv'
<1> DEFINE size == Size("local")
<1>1. /\ CardOK /\ call \in Calls /\ call.name \in Names
      /\ uses' = uses /\ UNCHANGED data
      /\ call.pc = "readFileToString" => call.op = "readFileToString"
      /\ call.pc = "readFile" => call.op = "readFile"
      /\ call.pc \in {"readFileToString", "readFile"}
  BY Parts DEF ReadSize, CallTypes, ReadInv, Reading
<1>2. size \in Nat
  BY <1>1, SizeIs
<1>3. CASE /\ call.op = "readFileToString"
           /\ size > Cap \/ file["local"].dir # None
  <2>1. call' = Finished(FALSE, <<>>)
    BY <1>3, Zenon DEF ReadSize, CloseAndReturn
  <2>2. FALSE \in BOOLEAN /\ <<>> \in Seq(Bytes)
    OBVIOUS
  <2> QED
    BY <1>1, <2>1, <2>2, ReadsReturn
<1>4. CASE ~ /\ call.op = "readFileToString"
             /\ size > Cap \/ file["local"].dir # None
  <2>1. call' = [call EXCEPT !.pc = "read", !.size = size]
        /\ UNCHANGED <<slot, file>>
    BY <1>4 DEF ReadSize
  <2>2. call.op = "readFileToString" =>
          AtStart /\ size <= Cap /\ size = Len(data[call.name])
    <3> SUFFICES ASSUME call.op = "readFileToString"
                 PROVE  AtStart /\ size <= Cap /\ size = Len(data[call.name])
      OBVIOUS
    <3>1. size <= Cap /\ file["local"].dir = None
      BY <1>2, <1>4, CardFilesAssumption
    <3>2. AtStart
      BY <1>1, <3>1 DEF ReadInv
    <3> QED
      BY <3>1, <3>2 DEF AtStart, Size, NameOf
  <2> HIDE DEF size
  <2>3. /\ call'.pc = "read" /\ call'.op = call.op /\ call'.size = size
        /\ call'.name = call.name /\ call'.quiet = call.quiet
    BY <1>1, <2>1 DEF Calls
  <2>4. call.op = "readFileToString" => AtStart'
    BY <2>1, <2>2, <2>3 DEF AtStart
  <2> QED
    BY <1>1, <2>1, <2>2, <2>3, <2>4 DEF ReadInv, AllOrNothing, Reading
<1> QED
  BY <1>3, <1>4

(* The read after the measure: all of the file, or none.                   *)
LEMMA ReadsReadWhole ==
  ASSUME HoldInv, ReadInv, uses = "text", NEW error \in BOOLEAN,
         ReadWhole(error)
  PROVE  ReadInv'
<1> DEFINE size == call.size
           text == IF CanRead(error) THEN Ahead(size) ELSE <<>>
           ok == size = 0 \/ Len(text) = size
<1>1. /\ CardOK /\ size \in Nat /\ call.pc = "read"
      /\ uses' = uses /\ UNCHANGED data
  BY Parts DEF ReadWhole, CallTypes, Calls
<1>2. text \in Seq(Bytes)
  BY <1>1, ReadIs
<1>3. CASE call.op # "readFileToString"
  <2>1. Padded(text, size) \in Seq(Bytes)
    BY <1>1, <1>2, PaddedIs
  <2>2. call' = Finished(TRUE, Padded(text, size)) /\ TRUE \in BOOLEAN
    BY <1>3 DEF ReadWhole, Return
  <2> HIDE DEF size, text
  <2> QED
    BY <1>1, <1>3, <2>1, <2>2, ReadsReturn
<1>4. CASE call.op = "readFileToString"
  <2>1. call' = Finished(ok, IF ok THEN text ELSE <<>>)
    BY <1>4 DEF ReadWhole, StringRead, CloseAndReturn
  <2>2. /\ file["local"].fd # None /\ At("local") = 0
        /\ NameOf("local") = call.name /\ call.size <= Cap
        /\ call.quiet => size = Len(data[call.name])
    BY <1>1, <1>4 DEF ReadInv, AtStart, At, NameOf
  <2>3. call.name \in Files
    BY <1>1, <2>2, HeldIs, HandlesAre
  <2>4. /\ Ahead(size) \in Seq(Bytes) /\ Len(Ahead(size)) <= size
        /\ call.quiet => Ahead(size) = data[call.name]
    BY <1>1, <2>2, AheadIs
  <2>5. data[call.name] \in Seq(Bytes)
    BY <1>1, <2>3 DEF CardOK, CardTypes
  <2>6. ok => /\ Len(text) = size
              /\ call.quiet => text = data[call.name]
    <3> SUFFICES ASSUME ok
                 PROVE  /\ Len(text) = size
                        /\ call.quiet => text = data[call.name]
      OBVIOUS
    <3>1. CASE CanRead(error)
      <4>1. text = Ahead(size)
        BY <3>1
      <4> QED
        BY <1>1, <2>4, <4>1
    <3>2. CASE ~CanRead(error)
      <4>1. text = <<>> /\ size = 0
        BY <1>1, <3>2
      <4>2. call.quiet => data[call.name] = <<>>
        BY <2>2, <2>5, <4>1
      <4> QED
        BY <4>1, <4>2
    <3> QED
      BY <3>1, <3>2
  <2>7. ok \in BOOLEAN /\ <<>> \in Seq(Bytes)
    OBVIOUS
  <2> HIDE DEF text, ok
  <2>8. CASE ok
    <3>1. call' = Finished(ok, text) /\ ok = TRUE
      BY <2>1, <2>7, <2>8
    <3> QED
      BY <1>1, <1>2, <2>2, <2>3, <2>6, <2>7, <2>8, <3>1, ReadsReturn
  <2>9. CASE ~ok
    <3>1. call' = Finished(ok, <<>>) /\ ok = FALSE
      BY <2>1, <2>7, <2>9
    <3> QED
      BY <1>1, <2>7, <3>1, ReadsReturn
  <2> QED
    BY <2>8, <2>9
<1> QED
  BY <1>3, <1>4

LEMMA ReadsReadChunk ==
  ASSUME HoldInv, ReadInv, uses = "text", NEW error \in BOOLEAN,
         ReadChunk(error)
  PROVE  ReadInv'
<1>1. /\ call \in Calls /\ call.op = "readFileToStream"
      /\ call.pc = "readFileToStream" /\ uses' = uses
      /\ call.out \in Seq(Bytes)
  BY Parts DEF ReadChunk, CallTypes, Calls, ReadInv, Reading
<1>2. CASE Return(TRUE, call.out)
  <2>1. call' = Finished(TRUE, call.out) /\ TRUE \in BOOLEAN
    BY <1>2 DEF Return
  <2> QED
    BY <1>1, <2>1, ReadsReturn
<1>3. CASE ~ Return(TRUE, call.out)
  <2>1. call' = [call EXCEPT !.out = @ \o Ahead(1)]
    BY <1>3 DEF ReadChunk
  <2>2. call'.pc = call.pc /\ call'.op = call.op
    BY <1>1, <2>1 DEF Calls
  <2> QED
    BY <1>1, <2>2 DEF ReadInv, AllOrNothing, Reading
<1> QED
  BY <1>2, <1>3

LEMMA ReadsTextNext ==
  ASSUME HoldInv, ReadInv, uses = "text", TextNext
  PROVE  ReadInv'
<1>1. CallTypes /\ CardOK
  BY Parts
<1>2. CASE \E n \in Names, op \in Reading : StartRead(op, n)
  BY <1>2, ReadsStartRead
<1>3. CASE ReadSize
  BY <1>3, ReadsReadSize
<1>4. CASE \E error \in BOOLEAN : ReadWhole(error) \/ ReadChunk(error)
  BY <1>4, ReadsReadWhole, ReadsReadChunk
<1>5. CASE \E error \in BOOLEAN, limit \in 0 .. MaxLen :
             ReadBuffer(error, limit)
  <2>1. PICK error \in BOOLEAN, limit \in 0 .. MaxLen :
          ReadBuffer(error, limit)
    BY <1>5
  <2> DEFINE text == IF CanRead(error) THEN Ahead(limit) ELSE <<>>
  <2>2. text \in Seq(Bytes)
    BY <1>1, ReadIs, CardAssumption
  <2>3. call' = Finished(TRUE, text) /\ TRUE \in BOOLEAN
        /\ uses' = uses /\ call.op # "readFileToString"
    BY <2>1 DEF ReadBuffer, Return, ReadInv, Reading
  <2> HIDE DEF text
  <2> QED
    BY <2>2, <2>3, ReadsReturn
<1>6. CASE \E n \in Written, text \in Texts : StartWrite(n, text)
  <2>1. PICK n \in Written, text \in Texts : StartWrite(n, text)
    BY <1>6
  <2> DEFINE c == Started("writeFile", n)
  <2>2. call' = [c EXCEPT !.out = text] \/ call' = [c EXCEPT !.pc = "done"]
    BY <2>1 DEF StartWrite
  <2>3. c \in Calls /\ c.pc = "writeFile" /\ c.op = "writeFile"
    BY StartedIs, CardFilesAssumption
  <2> HIDE DEF c
  <2>4. call'.op = "writeFile" /\ call'.pc \in {"writeFile", "done"}
    BY <2>2, <2>3 DEF Calls
  <2> QED
    BY <2>1, <2>4, NothingRead DEF StartWrite, Reads
<1>7. CASE \E n \in Written, text \in Texts : Replace(n, text)
  BY <1>7, ReadsDisturbed DEF Replace, Rewrite
<1>8. CASE \E k \in 0 .. MaxLen : WriteText(k)
  <2>1. call' = Finished(TRUE, call.out) /\ TRUE \in BOOLEAN /\ uses' = uses
        /\ call.op # "readFileToString" /\ call.out \in Seq(Bytes)
    BY <1>1, <1>8 DEF WriteText, Return, ReadInv, Reading, CallTypes, Calls
  <2> QED
    BY <2>1, ReadsReturn
<1>9. CASE UseChild
  BY <1>9, IdleIs, NothingRead DEF UseChild
<1> QED
  BY <1>2, <1>3, <1>4, <1>5, <1>6, <1>7, <1>8, <1>9 DEF TextNext, Reading

(* In the other mode only another task acts.                               *)
LEMMA ReadNext == HoldInv /\ ReadInv /\ [Next]_vars => ReadInv'
<1> SUFFICES ASSUME HoldInv, ReadInv, [Next]_vars PROVE ReadInv'
  OBVIOUS
<1>1. uses \in {"walk", "text"} /\ call.pc \in Steps
  BY Parts DEF CallTypes, Calls
<1>2. CASE UNCHANGED vars
  BY <1>2 DEF vars, cardVars, walkVars, ReadInv, AllOrNothing, AtStart
<1>3. CASE WalkNext /\ uses = "walk"
  BY <1>3, ReadsInWalk
<1>4. CASE TextNext /\ uses = "text"
  BY <1>4, ReadsTextNext
<1>5. CASE WalkNext /\ uses = "text"
  <2>1. call.pc \notin {"stat", "open"}
    BY <1>5 DEF ReadInv
  <2>2. \E n \in Volatile : Discard(n)
    BY <1>5, <2>1 DEF WalkNext, OpenWalk, Rewind, ReadEntry, StatEntry,
       OpenEntry, Suspend, Resume, DropChild, EndEntry, Upload, Walks
  <2> QED
    BY <2>2, ReadsDisturbed DEF Discard, Delete
<1>6. CASE TextNext /\ uses = "walk"
  <2>1. call.pc \in {"idle", "stat", "open"}
    BY <1>6 DEF ReadInv
  <2> QED
    BY <1>6, <2>1 DEF TextNext, StartRead, Reads, ReadSize, ReadWhole,
       ReadChunk, ReadBuffer, StartWrite, Replace, WriteText, UseChild
<1> QED
  BY <1>1, <1>2, <1>3, <1>4, <1>5, <1>6 DEF Next

(* AllOrNothing: readFileToString (HalStorage.cpp) gives the whole file,   *)
(* as long as it was measured, or nothing, whoever changes the card.       *)
THEOREM ReadsAreWhole == Spec => []AllOrNothing
<1>1. ReadInv => AllOrNothing
  BY DEF ReadInv
<1> QED
  BY <1>1, HoldCorrect, ReadInit, ReadNext, PTL DEF Spec

-----------------------------------------------------------------------------
(* The iteration.                                                          *)

(* An entry that stayed is still to come, or is being opened, or has been  *)
(* delivered once: s is what is still to be read, k how often it has been  *)
(* delivered, and p says whether it is being opened.                       *)
Reached(s, n, k, p) ==
  \/ k = 0 /\ ~p /\ Once(s, n)
  \/ k = 0 /\ p /\ Absent(s, n)
  \/ k = 1 /\ ~p /\ Absent(s, n)

Opening(c, n) == c.pc \in {"stat", "open"} /\ c.name = n

(* The entries of the set st are on their way.                             *)
Track(s, st, sn, c) == \A n \in st : Reached(s, n, sn[n], Opening(c, n))

LeftFrom(p) == SubSeq(listing, p + 1, Len(listing))
GoingOn == outcome = "going" /\ file["walk"].dir # None

WalkInv ==
  /\ \A n \in Listed : Absent(listing, n) \/ Once(listing, n)
  /\ \A n \in stayed : Once(listing, n)
  /\ call.pc # "idle" => GoingOn
  /\ saved # None => /\ outcome = "going" /\ file["walk"].dir = None
                     /\ call.pc = "idle"
  /\ GoingOn /\ ~shifted => Track(rest, stayed, seen, call)
  /\ GoingOn /\ ~moved => /\ file["walk"].position \in 0 .. Len(listing)
                          /\ rest = LeftFrom(file["walk"].position)
  /\ saved # None /\ ~shifted /\ ~moved =>
       /\ saved \in 0 .. Len(listing)
       /\ Track(LeftFrom(saved), stayed, seen, call)
  /\ IterationComplete

IterInv == IF uses = "walk" THEN WalkInv ELSE outcome = "none"

LEMMA TrackFresh ==
  ASSUME NEW s, NEW st, NEW sn, NEW c, c.pc = "idle",
         \A n \in st : Once(s, n) /\ sn[n] = 0
  PROVE  Track(s, st, sn, c)
  BY DEF Track, Reached, Opening

LEMMA TrackShrinks ==
  ASSUME NEW s, NEW st, NEW sn, NEW c, Track(s, st, sn, c),
         NEW r, NEW su, su \subseteq st, NEW d,
         (c.pc = "idle" /\ d.pc = "idle")
           \/ (c.pc \in {"stat", "open"} /\ d.pc \in {"stat", "open"}
               /\ c.name = d.name),
         \A n \in su : (Once(s, n) => Once(r, n))
                       /\ (Absent(s, n) => Absent(r, n))
  PROVE  Track(r, su, sn, d)
<1> SUFFICES ASSUME NEW n \in su
             PROVE  Reached(r, n, sn[n], Opening(d, n))
  BY DEF Track
<1>1. Reached(s, n, sn[n], Opening(c, n))
  BY DEF Track
<1>2. Opening(d, n) <=> Opening(c, n)
  BY DEF Opening
<1> QED
  BY <1>1, <1>2 DEF Reached

(* openNextFile passes m dots and takes entry m + 1.                       *)
LEMMA TrackReads ==
  ASSUME NEW s \in Seq(Listed), NEW st, st \subseteq Names, NEW sn,
         NEW c, Track(s, st, sn, c), c.pc = "idle",
         NEW m \in 0 .. Len(s), m < Len(s),
         \A i \in 1 .. m : s[i] \in Dots,
         NEW d, d.pc = "stat", d.name = s[m + 1]
  PROVE  Track(SubSeq(s, m + 2, Len(s)), st, sn, d)
<1> DEFINE k == m + 1
           r == SubSeq(s, k + 1, Len(s))
<1>1. k \in 0 .. Len(s) /\ k + 1 = m + 2 /\ m \in Nat
      /\ k = m + 1 /\ k \in 1 .. k
  OBVIOUS
<1> HIDE DEF k
<1>3. r = SubSeq(s, k + 1, Len(s))
  OBVIOUS
<1> HIDE DEF r
<1>2. ASSUME NEW n \in st PROVE Reached(r, n, sn[n], Opening(d, n))
  <2>1. Behind(s, k, r, n)
    BY <1>1, <1>3, RestKeeps
  <2>2. \/ sn[n] = 0 /\ Once(s, n)
        \/ sn[n] = 1 /\ Absent(s, n)
    BY <1>2 DEF Track, Reached, Opening
  <2>3. Opening(d, n) <=> s[m + 1] = n
    BY DEF Opening
  <2>4. \A i \in 1 .. m : s[i] # n
    BY CardAssumption
  <2>5. CASE s[m + 1] = n
    <3>1. ~Absent(s, n)
      BY <2>5, <1>1 DEF Absent
    <3> QED
      BY <1>1, <2>1, <2>2, <2>3, <2>5, <3>1 DEF Reached, Behind
  <2>6. CASE s[m + 1] # n
    <3>1. \A i \in 1 .. k : s[i] # n
      BY <1>1, <2>4, <2>6
    <3> QED
      BY <2>1, <2>2, <2>3, <2>6, <3>1 DEF Reached, Behind
  <2> QED
    BY <2>5, <2>6
<1> QED
  BY <1>1, <1>2, <1>3 DEF Track

(* The entry is delivered.                                                 *)
LEMMA TrackDelivers ==
  ASSUME NEW s, NEW st, st \subseteq Names, NEW sn \in [Names -> 0 .. 2],
         NEW c, Track(s, st, sn, c), c.pc = "open", NEW d, d.pc = "idle"
  PROVE  Track(s, st, [sn EXCEPT ![c.name] = IF @ = 0 THEN 1 ELSE 2], d)
<1> DEFINE so == [sn EXCEPT ![c.name] = IF @ = 0 THEN 1 ELSE 2]
<1> SUFFICES ASSUME NEW n \in st
             PROVE  Reached(s, n, so[n], Opening(d, n))
  BY DEF Track
<1>1. Reached(s, n, sn[n], Opening(c, n)) /\ n \in Names
  BY DEF Track
<1>2. ~Opening(d, n) /\ (Opening(c, n) <=> c.name = n)
  BY DEF Opening
<1>3. CASE c.name = n
  <2>1. sn[n] = 0 /\ Absent(s, n)
    BY <1>1, <1>2, <1>3 DEF Reached
  <2>2. so[n] = 1
    BY <1>1, <1>3, <2>1
  <2> QED
    BY <1>2, <2>1, <2>2 DEF Reached
<1>4. CASE c.name # n
  <2>1. so[n] = sn[n]
    BY <1>1, <1>4
  <2> QED
    BY <1>1, <1>2, <1>4, <2>1 DEF Reached
<1> QED
  BY <1>3, <1>4

(* Only dots are left, so everything has been delivered.                   *)
LEMMA TrackEnds ==
  ASSUME NEW s \in Seq(Listed), NEW st, st \subseteq Names, NEW sn, NEW c,
         Track(s, st, sn, c), c.pc = "idle",
         \A i \in 1 .. Len(s) : s[i] \in Dots
  PROVE  \A n \in st : sn[n] = 1
<1> SUFFICES ASSUME NEW n \in st PROVE sn[n] = 1
  OBVIOUS
<1>1. Reached(s, n, sn[n], FALSE)
  BY DEF Track, Opening
<1>2. ~Once(s, n)
  BY CardAssumption DEF Once
<1> QED
  BY <1>1, <1>2 DEF Reached

LEMMA IterInit == Init => IterInv
<1> SUFFICES ASSUME Init PROVE IterInv
  OBVIOUS
<1>1. CASE uses = "text"
  BY <1>1 DEF Init, IterInv
<1>2. CASE uses = "walk"
  <2>1. \A n \in Listed : Absent(listing, n) \/ Once(listing, n)
    <3>1. PICK m \in Nat : m = Cardinality(Listed)
      BY CardAssumption, FS_CardinalityType DEF Listed
    <3>2. listing \in [1 .. m -> Listed]
          /\ \A i, j \in 1 .. m : i # j => listing[i] # listing[j]
      BY <3>1 DEF Init, CardInit, SetToSeqs, Listed
    <3>3. Len(listing) = m
      BY <3>1, <3>2
    <3> QED
      BY <3>2, <3>3 DEF Absent, Once
  <2>2. /\ stayed = {} /\ call.pc = "idle" /\ saved = None
        /\ outcome = "none"
    BY IdleIs DEF Init
  <2>3. WalkInv
    BY <2>1, <2>2 DEF WalkInv, GoingOn, IterationComplete
  <2> QED
    BY <1>2, <2>3 DEF IterInv
<1> QED
  BY <1>1, <1>2 DEF Init

(* What a step of the iteration may rely on.                               *)
WalkHyp == HoldInv /\ ReadInv /\ uses = "walk" /\ WalkInv

LEMMA WalkHypIs ==
  ASSUME WalkHyp
  PROVE  /\ CardOK /\ CallTypes /\ WalkTypes /\ CardTypes
         /\ listing \in Seq(Listed) /\ rest \in Seq(Listed)
         /\ file \in FileTable /\ file["walk"] \in Impls
         /\ call.pc \in {"idle", "stat", "open"}
         /\ ~Running => call.pc = "idle"
         /\ stayed \subseteq Names /\ seen \in [Names -> 0 .. 2]
  BY Parts, TablesAre, HandlesAre
     DEF WalkHyp, CardOK, CardTypes, ReadInv, Running, FileTable, WalkTypes

LEMMA EntriesListed ==
  ASSUME WalkHyp
  PROVE  \A n \in Entries : Once(listing, n) /\ n \in Names
<1> SUFFICES ASSUME NEW n \in Entries PROVE Once(listing, n) /\ n \in Names
  OBVIOUS
<1>1. n \in Names /\ n \in Listed /\ n # Books
  BY CardAssumption DEF Entries, Listed
<1>2. listing \in Seq(Listed)
  BY WalkHypIs
<1>3. ~Absent(listing, n)
  BY <1>1, <1>2 DEF Entries, Exists, Absent
<1> QED
  BY <1>1, <1>3 DEF WalkHyp, WalkInv

(* An iteration begins, at the first entry of the listing.                 *)
LEMMA Begins ==
  ASSUME WalkHyp, Restart, call.pc = "idle", UNCHANGED <<listing, call>>,
         saved' = None, rest' = listing, file'["walk"].position = 0
  PROVE  WalkInv'
<1>1. /\ seen' = [n \in Names |-> 0] /\ stayed' = Entries
      /\ outcome' = "going" /\ moved' = FALSE /\ shifted' = FALSE
  BY DEF Restart
<1>2. /\ \A n \in stayed' : Once(listing, n) /\ seen'[n] = 0
  BY <1>1, EntriesListed
<1>3. Track(rest', stayed', seen', call')
  BY <1>2, TrackFresh
<1>4. rest' = SubSeq(listing, 0 + 1, Len(listing)) /\ 0 \in 0 .. Len(listing)
  BY WalkHypIs, SubSeqFull
<1>5. rest' = LeftFrom(file["walk"].position)'
  BY <1>4 DEF LeftFrom
<1>6. \A n \in Listed : Absent(listing, n) \/ Once(listing, n)
  BY DEF WalkHyp, WalkInv
<1>7. IterationComplete'
  BY <1>1 DEF IterationComplete
<1> QED
  BY <1>1, <1>2, <1>3, <1>4, <1>5, <1>6, <1>7 DEF WalkInv

(* No iteration goes on after the step.                                    *)
LEMMA Stops ==
  ASSUME WalkHyp, UNCHANGED <<listing, stayed>>, saved' = None,
         call'.pc = "idle",
         \/ outcome' \in {"none", "failed"}
         \/ outcome' = "complete"
            /\ (~shifted' => \A n \in stayed : seen'[n] = 1)
  PROVE  WalkInv'
<1>1. outcome' # "going"
  OBVIOUS
<1>2. IterationComplete'
  BY DEF IterationComplete
<1>3. ~GoingOn'
  BY <1>1 DEF GoingOn
<1> QED
  BY <1>2, <1>3 DEF WalkInv, WalkHyp

LEMMA SavedOnlyClosed ==
  ASSUME WalkHyp, file["walk"].dir # None \/ call.pc # "idle"
  PROVE  saved = None
  BY DEF WalkHyp, WalkInv, GoingOn

LEMMA IterOpenWalk == WalkHyp /\ OpenWalk => WalkInv'
<1> SUFFICES ASSUME WalkHyp, OpenWalk PROVE WalkInv'
  OBVIOUS
<1>1. call.pc = "idle" /\ file \in FileTable
  BY WalkHypIs DEF OpenWalk, Walks
<1>2. file' = [file EXCEPT !["walk"] = Opened(Books)] /\ rest' = listing
      /\ saved' = None /\ UNCHANGED <<listing, call>>
  BY DEF OpenWalk, Open, Assign
<1>3. file'["walk"].position = 0
  BY <1>1, <1>2, OpenedIs, HandlesAre DEF FileTable
<1>4. CASE CanOpen(Books)
  BY <1>1, <1>2, <1>3, <1>4, Begins DEF OpenWalk
<1>5. CASE ~CanOpen(Books)
  <2>1. outcome' = "none" /\ UNCHANGED stayed
    BY <1>5 DEF OpenWalk
  <2> QED
    BY <1>1, <1>2, <2>1, Stops
<1> QED
  BY <1>4, <1>5

LEMMA IterRewind == WalkHyp /\ Rewind => WalkInv'
<1> SUFFICES ASSUME WalkHyp, Rewind PROVE WalkInv'
  OBVIOUS
<1>1. call.pc = "idle" /\ file \in FileTable
  BY WalkHypIs DEF Rewind, Walks
<1>2. file' = WalkAt(file, 0, FALSE)
  BY <1>1, HandlesAre DEF Rewind, FileTable, WalkAt
<1>3. 0 \in Nat /\ FALSE \in BOOLEAN
  OBVIOUS
<1>4. file'["walk"].position = 0
  BY <1>1, <1>2, <1>3, WalkFields
<1>5. saved' = None
  BY SavedOnlyClosed DEF Rewind
<1> QED
  BY <1>1, <1>4, <1>5, Begins DEF Rewind

LEMMA IterReadEntry == WalkHyp /\ ReadEntry => WalkInv'
<1> SUFFICES ASSUME WalkHyp, ReadEntry PROVE WalkInv'
  OBVIOUS
<1> DEFINE k == DotsAhead
           p == file["walk"].position
<1>1. /\ HoldInv /\ call.pc = "idle" /\ rest \in Seq(Listed) /\ GoingOn
      /\ file \in FileTable /\ p \in Nat /\ stayed \subseteq Names
      /\ saved = None /\ listing \in Seq(Listed)
  BY WalkHypIs, SavedOnlyClosed
     DEF WalkHyp, ReadEntry, Walks, GoingOn, Impls
<1>2. /\ k \in 0 .. Len(rest) /\ k < Len(rest) /\ k \in Nat
      /\ \A i \in 1 .. k : rest[i] \in Dots
  BY <1>1, DotsAheadIs DEF ReadEntry
<1>3. /\ call'.pc = "stat" /\ call'.name = rest[k + 1]
      /\ file' = WalkAt(file, p + (k + 1), FALSE)
      /\ rest' = SubSeq(rest, k + 2, Len(rest))
      /\ UNCHANGED <<listing, saved, seen, stayed, moved, shifted, outcome>>
  BY <1>1, EntryRead DEF ReadEntry, walkVars
<1> HIDE DEF k, p
<1> DEFINE q == p + (k + 1)
<1>4. q \in Nat /\ FALSE \in BOOLEAN /\ file' = WalkAt(file, q, FALSE)
  BY <1>1, <1>2, <1>3
<1>5. /\ file'["walk"].position = p + (k + 1)
      /\ file'["walk"].dir = file["walk"].dir
  <2> HIDE DEF q
  <2>1. /\ WalkAt(file, q, FALSE)["walk"].position = q
        /\ WalkAt(file, q, FALSE)["walk"].dir = file["walk"].dir
    <3>1. file \in FileTable /\ q \in Nat /\ FALSE \in BOOLEAN
      BY <1>1, <1>4
    <3> QED
      BY <3>1, WalkFields, HandlesAre
  <2> QED
    BY <1>4, <2>1 DEF q
<1>6. GoingOn'
  BY <1>1, <1>3, <1>5 DEF GoingOn
<1>7. ~shifted => Track(rest', stayed, seen, call')
  <2>1. ~shifted => Track(rest, stayed, seen, call)
    BY <1>1 DEF WalkHyp, WalkInv
  <2> QED
    BY <1>1, <1>2, <1>3, <2>1, TrackReads
<1>8. ~moved => /\ p + (k + 1) \in 0 .. Len(listing)
                /\ rest' = SubSeq(listing, (p + (k + 1)) + 1, Len(listing))
  <2> SUFFICES ASSUME ~moved
               PROVE  /\ p + (k + 1) \in 0 .. Len(listing)
                      /\ rest' = SubSeq(listing, (p + (k + 1)) + 1,
                                        Len(listing))
    OBVIOUS
  <2>1. p \in 0 .. Len(listing) /\ rest = SubSeq(listing, p + 1, Len(listing))
    BY <1>1 DEF WalkHyp, WalkInv, LeftFrom, p
  <2> DEFINE n == k + 1
  <2>2. Len(rest) = Len(listing) - p
    BY <1>1, <2>1, RestIs
  <2>3. n \in 0 .. Len(listing) - p /\ n + 1 = k + 2
        /\ p + n \in 0 .. Len(listing)
    BY <1>1, <1>2, <2>1, <2>2
  <2> HIDE DEF n
  <2>4. SubSeq(rest, n + 1, Len(rest)) = SubSeq(listing, p + n + 1,
                                                Len(listing))
    BY <1>1, <2>1, <2>3, RestOfRest
  <2>5. rest' = SubSeq(listing, p + n + 1, Len(listing))
    BY <1>3, <2>3, <2>4
  <2> QED
    BY <2>3, <2>5 DEF n
<1>9. ~moved' => /\ file'["walk"].position \in 0 .. Len(listing')
                 /\ rest' = LeftFrom(file["walk"].position)'
  BY <1>3, <1>5, <1>8 DEF LeftFrom
<1>10. IterationComplete'
  BY <1>1, <1>3 DEF IterationComplete, GoingOn
<1> QED
  BY <1>1, <1>3, <1>6, <1>7, <1>9, <1>10 DEF WalkInv, WalkHyp

LEMMA IterEndEntry ==
  ASSUME WalkHyp, NEW error \in BOOLEAN, EndEntry(error)
  PROVE  WalkInv'
<1>1. /\ HoldInv /\ call.pc = "idle" /\ rest \in Seq(Listed) /\ GoingOn
      /\ stayed \subseteq Names /\ saved = None
  BY WalkHypIs, SavedOnlyClosed DEF WalkHyp, EndEntry, Walks, GoingOn
<1>2. /\ UNCHANGED <<listing, call, saved, seen, stayed, shifted>>
      /\ outcome' = IF error THEN "failed" ELSE "complete"
      /\ error \/ DotsAhead = Len(rest)
  BY DEF EndEntry, Ends
<1>3. ASSUME ~error, ~shifted PROVE \A n \in stayed : seen[n] = 1
  <2>1. \A i \in 1 .. Len(rest) : rest[i] \in Dots
    BY <1>1, <1>2, <1>3, DotsAheadIs
  <2>2. Track(rest, stayed, seen, call)
    BY <1>1, <1>3 DEF WalkHyp, WalkInv
  <2> QED
    BY <1>1, <2>1, <2>2, TrackEnds
<1> QED
  BY <1>1, <1>2, <1>3, Stops

(* Nothing changes but the call and what is delivered.                     *)
LEMMA Delivers ==
  ASSUME WalkHyp, GoingOn, saved = None,
         file'["walk"].dir = file["walk"].dir,
         file'["walk"].position = file["walk"].position,
         UNCHANGED <<listing, rest, saved, stayed, moved, shifted, outcome>>,
         ~shifted => Track(rest, stayed, seen', call')
  PROVE  WalkInv'
<1>1. GoingOn'
  BY DEF GoingOn
<1>2. ~moved => /\ file["walk"].position \in 0 .. Len(listing)
                /\ rest = LeftFrom(file["walk"].position)
  BY DEF WalkHyp, WalkInv
<1>3. ~moved' => /\ file'["walk"].position \in 0 .. Len(listing')
                 /\ rest' = LeftFrom(file["walk"].position)'
  BY <1>2 DEF LeftFrom
<1>4. IterationComplete'
  BY DEF IterationComplete, GoingOn
<1> QED
  BY <1>1, <1>3, <1>4 DEF WalkInv, WalkHyp

LEMMA IterStatEntry == WalkHyp /\ StatEntry => WalkInv'
<1> SUFFICES ASSUME WalkHyp, StatEntry PROVE WalkInv'
  OBVIOUS
<1>1. /\ call \in Calls /\ call.pc = "stat" /\ GoingOn /\ saved = None
      /\ UNCHANGED <<listing, rest, saved, seen, stayed, moved, shifted>>
  BY WalkHypIs, SavedOnlyClosed DEF StatEntry, CallTypes, WalkHyp, WalkInv
<1>2. CASE Exists(call.name)
  <2>1. call' = [call EXCEPT !.pc = "open"] /\ UNCHANGED <<file, outcome>>
    BY <1>2 DEF StatEntry
  <2>2. call'.pc = "open" /\ call'.name = call.name
    BY <1>1, <2>1 DEF Calls
  <2>3. ~shifted => Track(rest, stayed, seen, call)
    BY <1>1 DEF WalkHyp, WalkInv
  <2>4. ~shifted => Track(rest, stayed, seen, call')
    BY <1>1, <2>2, <2>3, TrackShrinks
  <2> QED
    BY <1>1, <2>1, <2>4, Delivers
<1>3. CASE ~Exists(call.name)
  <2>1. outcome' = "failed" /\ call'.pc = "idle"
    BY <1>3, IdleIs DEF StatEntry
  <2> QED
    BY <1>1, <2>1, Stops
<1> QED
  BY <1>2, <1>3

LEMMA IterOpenEntry == WalkHyp /\ OpenEntry => WalkInv'
<1> SUFFICES ASSUME WalkHyp, OpenEntry PROVE WalkInv'
  OBVIOUS
<1> DEFINE p == file["walk"].position
           n == call.name
           b == ~CanOpen(n)
           i == Opened(n)
<1>1. /\ call.pc = "open" /\ GoingOn /\ saved = None /\ n \in Names
      /\ file \in FileTable /\ p \in Nat /\ b \in BOOLEAN
      /\ stayed \subseteq Names /\ seen \in [Names -> 0 .. 2]
      /\ UNCHANGED <<listing, rest, saved, stayed, moved, shifted>>
      /\ call'.pc = "idle"
  BY WalkHypIs, SavedOnlyClosed, IdleIs
     DEF OpenEntry, CallTypes, WalkHyp, WalkInv, Impls
<1>2. file' = WalkAt([file EXCEPT !["child"] = i], p, b)
  BY <1>1, HandlesAre DEF OpenEntry, WalkAt, FileTable, Impls
<1>3. i \in Impls
  BY <1>1, OpenedIs
<1>4. CASE CanOpen(n)
  <2>1. seen' = [seen EXCEPT ![n] = IF @ = 0 THEN 1 ELSE 2]
        /\ UNCHANGED outcome
    BY <1>4 DEF OpenEntry
  <2>2. ~shifted => Track(rest, stayed, seen, call)
    BY <1>1 DEF WalkHyp, WalkInv
  <2>3. ~shifted => Track(rest, stayed, seen', call')
    BY <1>1, <2>1, <2>2, TrackDelivers
  <2>4. file'["walk"].dir = file["walk"].dir /\ file'["walk"].position = p
    <3> DEFINE f == [file EXCEPT !["child"] = i]
    <3> HIDE DEF p, b, i
    <3>1. f \in FileTable /\ f["walk"] = file["walk"]
      BY <1>1, <1>3, HandlesAre DEF FileTable
    <3>2. file' = WalkAt(f, p, b)
      BY <1>2
    <3> HIDE DEF f
    <3> QED
      BY <1>1, <3>1, <3>2, WalkFields, HandlesAre
  <2> QED
    BY <1>1, <2>1, <2>3, <2>4, Delivers
<1>5. CASE ~CanOpen(n)
  <2>1. outcome' = "failed"
    BY <1>5 DEF OpenEntry
  <2> QED
    BY <1>1, <2>1, Stops
<1> QED
  BY <1>4, <1>5

LEMMA IterSuspend == WalkHyp /\ Suspend => WalkInv'
<1> SUFFICES ASSUME WalkHyp, Suspend PROVE WalkInv'
  OBVIOUS
<1>1. /\ call.pc = "idle" /\ GoingOn /\ file \in FileTable /\ CardTypes
  BY WalkHypIs DEF Suspend, Walks, GoingOn
<1>2. /\ saved' = file["walk"].position
      /\ file' = [file EXCEPT !["walk"] = ClosedImpl("walk")]
      /\ UNCHANGED <<listing, rest, call, seen, stayed, moved, shifted,
                     outcome>>
  BY DEF Suspend, Close
<1>3. file'["walk"].dir = None
  BY <1>1, <1>2, HandlesAre, ClosedImplIs DEF FileTable
<1>4. ~GoingOn'
  BY <1>3 DEF GoingOn
<1>5. ~shifted /\ ~moved =>
        /\ file["walk"].position \in 0 .. Len(listing)
        /\ Track(LeftFrom(file["walk"].position), stayed, seen, call)
  BY <1>1 DEF WalkHyp, WalkInv
<1>6. ~shifted' /\ ~moved' =>
        /\ saved' \in 0 .. Len(listing')
        /\ Track(LeftFrom(saved), stayed, seen, call)'
  BY <1>2, <1>5 DEF LeftFrom
<1>7. IterationComplete'
  BY <1>1, <1>2 DEF IterationComplete, GoingOn
<1> QED
  BY <1>1, <1>2, <1>3, <1>4, <1>6, <1>7 DEF WalkInv, WalkHyp, GoingOn

LEMMA IterResume == WalkHyp /\ Resume => WalkInv'
<1> SUFFICES ASSUME WalkHyp, Resume PROVE WalkInv'
  OBVIOUS
<1> DEFINE read == IF saved <= Len(listing) THEN saved ELSE Len(listing)
           i == [Opened(Books) EXCEPT !.position = read]
<1>1. /\ call.pc = "idle" /\ file \in FileTable /\ saved \in Nat
      /\ outcome = "going" /\ listing \in Seq(Listed) /\ saved # None
  BY WalkHypIs DEF Resume, Walks, WalkHyp, WalkInv, WalkTypes
<1>2. /\ read \in 0 .. Len(listing) /\ read \in Nat
      /\ saved \in 0 .. Len(listing) => read = saved
      /\ read < saved <=> saved \notin 0 .. Len(listing)
  BY <1>1
<1>3. /\ file' = [file EXCEPT !["walk"] = i]
      /\ rest' = SubSeq(listing, read + 1, Len(listing))
      /\ outcome' = IF read < saved THEN "failed" ELSE outcome
      /\ saved' = None /\ shifted' = (shifted \/ moved) /\ moved' = FALSE
      /\ UNCHANGED <<listing, call, seen, stayed>>
  BY DEF Resume
<1> HIDE DEF read
<1>4. file'["walk"].position = read
  <2>1. i.position = read
    BY OpenedIs DEF Impls
  <2>2. file'["walk"] = i
    BY <1>1, <1>3, HandlesAre DEF FileTable
  <2> QED
    BY <2>1, <2>2
<1>5. rest' = LeftFrom(file["walk"].position)'
  BY <1>3, <1>4 DEF LeftFrom
<1>6. CASE saved \in 0 .. Len(listing)
  <2>1. outcome' = "going" /\ read = saved
    BY <1>1, <1>2, <1>3, <1>6
  <2>2. ~shifted' => Track(rest', stayed', seen', call')
    <3>1. ~shifted /\ ~moved => Track(LeftFrom(saved), stayed, seen, call)
      BY <1>1 DEF WalkHyp, WalkInv
    <3> QED
      BY <1>3, <2>1, <3>1 DEF LeftFrom
  <2>3. IterationComplete'
    BY <2>1 DEF IterationComplete
  <2> QED
    BY <1>1, <1>2, <1>3, <1>4, <1>5, <2>2, <2>3 DEF WalkInv, WalkHyp
<1>7. CASE saved \notin 0 .. Len(listing)
  <2>1. outcome' = "failed"
    BY <1>2, <1>3, <1>7
  <2> QED
    BY <1>1, <1>3, <2>1, Stops
<1> QED
  BY <1>6, <1>7

LEMMA IterDropChild == WalkHyp /\ DropChild => WalkInv'
<1> SUFFICES ASSUME WalkHyp, DropChild PROVE WalkInv'
  OBVIOUS
<1>1. /\ file \in FileTable
      /\ file' = [file EXCEPT !["child"] = Closed]
      /\ UNCHANGED <<listing, rest, call, saved, seen, stayed, moved, shifted,
                     outcome>>
  BY WalkHypIs DEF DropChild, walkVars
<1>2. file'["walk"] = file["walk"]
  BY <1>1, HandlesAre DEF FileTable
<1> QED
  BY <1>1, <1>2 DEF WalkHyp, WalkInv, GoingOn, LeftFrom, IterationComplete

(* The directory is no longer the one that the position counts.            *)
LEMMA Moves ==
  ASSUME WalkHyp, moved' = TRUE,
         UNCHANGED <<file, saved, seen, shifted, outcome>>,
         call'.pc = call.pc, call'.name = call.name, stayed' \subseteq stayed,
         \A n \in Listed : Absent(listing', n) \/ Once(listing', n),
         \A n \in stayed' :
           /\ Once(listing, n) => Once(listing', n)
           /\ Once(rest, n) => Once(rest', n)
           /\ Absent(rest, n) => Absent(rest', n)
  PROVE  WalkInv'
<1>1. GoingOn' = GoingOn
  BY DEF GoingOn
<1>2. \A n \in stayed' : Once(listing', n)
  BY DEF WalkHyp, WalkInv
<1>3. GoingOn /\ ~shifted => Track(rest', stayed', seen, call')
  <2> SUFFICES ASSUME GoingOn, ~shifted
               PROVE  Track(rest', stayed', seen, call')
    OBVIOUS
  <2>1. Track(rest, stayed, seen, call)
    BY DEF WalkHyp, WalkInv
  <2>2. call.pc = "idle" \/ call.pc \in {"stat", "open"}
    BY WalkHypIs
  <2> QED
    BY <2>1, <2>2, TrackShrinks
<1>4. IterationComplete'
  BY DEF IterationComplete, WalkHyp, WalkInv
<1>5. /\ call'.pc # "idle" => GoingOn'
      /\ saved' # None => /\ outcome' = "going" /\ file'["walk"].dir = None
                          /\ call'.pc = "idle"
  BY <1>1 DEF WalkHyp, WalkInv
<1> QED
  BY <1>1, <1>2, <1>3, <1>4, <1>5 DEF WalkInv

(* What a stream shows of the entries that did not change.                 *)
LEMMA ShownKeeps ==
  ASSUME rest \in Seq(Listed), NEW gone, NEW new, new \in Names \cup {None},
         NEW r \in Shown(gone, new), NEW x, x # gone, x # new
  PROVE  /\ Once(rest, x) => Once(r, x)
         /\ Absent(rest, x) => Absent(r, x)
<1> DEFINE kept == {rest, Without(rest, gone)}
<1>1. r \in kept \/ (new \in Names /\ \E s \in kept : r = Append(s, new))
  BY Zenon DEF Shown
<1>2. ASSUME NEW s \in kept
      PROVE  /\ s \in Seq(Listed)
             /\ Once(rest, x) => Once(s, x)
             /\ Absent(rest, x) => Absent(s, x)
  BY <1>2, WithoutKeeps
<1> HIDE DEF kept
<1>3. ASSUME NEW s \in kept, new \in Names
      PROVE  /\ Once(rest, x) => Once(Append(s, new), x)
             /\ Absent(rest, x) => Absent(Append(s, new), x)
  <2>1. new \in Listed
    BY <1>3 DEF Listed
  <2> QED
    BY <1>2, <2>1, AppendKeeps
<1> QED
  BY <1>1, <1>2, <1>3

LEMMA IterUpload ==
  ASSUME WalkHyp, NEW n \in Volatile, Upload(n)
  PROVE  WalkInv'
<1>1. /\ n \in Names /\ n \in Listed /\ n # Books
      /\ listing \in Seq(Listed) /\ rest \in Seq(Listed)
      /\ stayed \subseteq Names
  BY WalkHypIs, CardFilesAssumption, CardAssumption DEF Listed
<1>2. PICK i \in 1 .. Len(listing) + 1 : listing' = InsertAt(listing, i, n)
  BY DEF Upload, Create
<1>3. Absent(listing, n)
  BY <1>1 DEF Upload, Create, Exists, Absent
<1>4. \A x \in Listed : Absent(listing', x) \/ Once(listing', x)
  <2> TAKE x \in Listed
  <2>1. Absent(listing, x) \/ Once(listing, x)
    BY DEF WalkHyp, WalkInv
  <2> QED
    BY <1>1, <1>2, <1>3, <2>1, InsertKeeps
<1>5. \A x \in stayed : x # n /\ x # None /\ Once(listing, x)
  <2>1. \A x \in stayed : Once(listing, x)
    BY DEF WalkHyp, WalkInv
  <2>2. ~Once(listing, n)
    BY <1>3 DEF Once, Absent
  <2> QED
    BY <1>1, <2>1, <2>2, CardAssumption
<1>6. \A x \in stayed : Once(listing', x)
  BY <1>1, <1>2, <1>5, InsertKeeps
<1>7. rest' \in Shown(None, n)
  BY DEF Upload, Create
<1>8. ASSUME NEW x \in stayed
      PROVE  /\ Once(rest, x) => Once(rest', x)
             /\ Absent(rest, x) => Absent(rest', x)
  BY <1>1, <1>5, <1>7, ShownKeeps
<1>9. /\ moved' = TRUE /\ UNCHANGED <<file, saved, seen, shifted, outcome>>
      /\ UNCHANGED <<call, stayed>>
  BY DEF Upload, Create
<1> QED
  BY <1>4, <1>6, <1>8, <1>9, Moves

LEMMA IterDiscard ==
  ASSUME WalkHyp, NEW n \in Volatile, Discard(n)
  PROVE  WalkInv'
<1>1. /\ n \in Names /\ listing \in Seq(Listed) /\ rest \in Seq(Listed)
      /\ stayed \subseteq Names /\ call \in Calls
  BY WalkHypIs, CardFilesAssumption DEF CallTypes
<1>2. /\ listing' = Without(listing, n) /\ rest' \in Shown(n, None)
      /\ UNCHANGED <<file, saved, seen, shifted, outcome>>
      /\ moved' = TRUE /\ stayed' = stayed \ {n} /\ call' = Disturbed
  BY DEF Discard, Delete, WalkHyp
<1>3. \A x \in Listed : Absent(listing', x) \/ Once(listing', x)
  <2> TAKE x \in Listed
  <2>1. Absent(listing, x) \/ Once(listing, x)
    BY DEF WalkHyp, WalkInv
  <2> QED
    BY <1>1, <1>2, <2>1, WithoutKeeps
<1>4. \A x \in stayed' : x # n /\ x # None /\ x \in stayed
  BY <1>1, <1>2, CardAssumption
<1>5. \A x \in stayed' : Once(listing, x) => Once(listing', x)
  BY <1>1, <1>2, <1>4, WithoutKeeps
<1>6. ASSUME NEW x \in stayed'
      PROVE  /\ Once(rest, x) => Once(rest', x)
             /\ Absent(rest, x) => Absent(rest', x)
  BY <1>1, <1>2, <1>4, ShownKeeps
<1>7. call'.pc = call.pc /\ call'.name = call.name
  BY <1>1, <1>2, DisturbedIs
<1> QED
  BY <1>2, <1>3, <1>4, <1>5, <1>6, <1>7, Moves

LEMMA IterWalkNext == WalkHyp /\ WalkNext => WalkInv'
  BY IterOpenWalk, IterRewind, IterReadEntry, IterStatEntry, IterOpenEntry,
     IterSuspend, IterResume, IterDropChild, IterEndEntry, IterUpload,
     IterDiscard DEF WalkNext

LEMMA TextIdles ==
  ASSUME uses = "walk", ReadInv, TextNext
  PROVE  FALSE
<1>1. call.pc \in {"idle", "stat", "open"}
  BY DEF ReadInv
<1> QED
  BY <1>1 DEF TextNext, StartRead, Reads, ReadSize, ReadWhole,
     ReadChunk, ReadBuffer, StartWrite, Replace, WriteText, UseChild

LEMMA WalkIdles ==
  ASSUME uses = "text", ReadInv, WalkNext
  PROVE  \E n \in Volatile : Discard(n)
<1>1. call.pc \notin {"stat", "open"}
  BY DEF ReadInv
<1> QED
  BY <1>1 DEF WalkNext, OpenWalk, Rewind, ReadEntry, StatEntry,
     OpenEntry, Suspend, Resume, DropChild, EndEntry, Upload, Walks

LEMMA UsesStays ==
  ASSUME Next
  PROVE  uses' = uses
<1>1. WalkNext => uses' = uses
  BY DEF WalkNext, OpenWalk, Rewind, ReadEntry, StatEntry,
     OpenEntry, Suspend, Resume, DropChild, EndEntry, Upload, Discard
<1>2. TextNext => uses' = uses
  BY DEF TextNext, StartRead, ReadSize, ReadWhole, ReadChunk, ReadBuffer,
     StartWrite, Replace, WriteText, UseChild
<1> QED
  BY <1>1, <1>2 DEF Next

LEMMA IterNext == HoldInv /\ ReadInv /\ IterInv /\ [Next]_vars => IterInv'
<1> SUFFICES ASSUME HoldInv, ReadInv, IterInv, [Next]_vars PROVE IterInv'
  OBVIOUS
<1>1. CASE UNCHANGED vars
  BY <1>1 DEF vars, cardVars, walkVars, IterInv, WalkInv, GoingOn, LeftFrom,
     IterationComplete
<1>2. CASE Next /\ uses = "walk"
  <2>1. WalkNext
    BY <1>2, TextIdles DEF Next
  <2>2. WalkInv'
    BY <1>2, <2>1, IterWalkNext DEF WalkHyp, IterInv
  <2> QED
    BY <1>2, <2>2, UsesStays DEF IterInv
<1>3. CASE Next /\ uses # "walk"
  <2>1. uses = "text"
    BY <1>3, Parts
  <2>2. UNCHANGED outcome
    <3>1. CASE TextNext
      BY <3>1 DEF TextNext, StartRead, ReadSize, ReadWhole, ReadChunk,
         ReadBuffer, StartWrite, Replace, WriteText, UseChild, walkVars
    <3>2. CASE WalkNext
      BY <2>1, <3>2, WalkIdles DEF Discard
    <3> QED
      BY <1>3, <3>1, <3>2 DEF Next
  <2> QED
    BY <1>3, <2>2, UsesStays DEF IterInv
<1> QED
  BY <1>1, <1>2, <1>3

(* IterationComplete: openNextFile delivers each entry that stayed exactly *)
(* once, also when the iteration is resumed by its position (seekSet), if  *)
(* the directory is still the one that the position counted.               *)
THEOREM IterationsAreComplete == Spec => []IterationComplete
<1>1. IterInv => IterationComplete
  BY DEF IterInv, WalkInv, IterationComplete
<1> QED
  BY <1>1, HoldCorrect, ReadInit, ReadNext, IterInit, IterNext, PTL DEF Spec
=============================================================================
