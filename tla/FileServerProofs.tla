-------------------------- MODULE FileServerProofs --------------------------
(***************************************************************************)
(* For cards of any shape and depth, no request reaches a protected entry  *)
(* of the root or anything below it, loses what it was not asked to        *)
(* remove, or gets an answer that is not true. What a call of the storage  *)
(* can change are the path it is given, what lies below and what lies      *)
(* above it; and whatever the host refuses half way, what is left is a     *)
(* tree again.                                                             *)
(***************************************************************************)
EXTENDS FileServer, SequenceTheorems, TLAPS

-----------------------------------------------------------------------------
(* Sequences: prefixes, and what follows them.                             *)

(* A prefix, element by element.                                           *)
LEMMA PrefixAt ==
  ASSUME NEW S, NEW p \in Seq(S), NEW q \in Seq(S)
  PROVE  IsPrefix(p, q) <=>
           Len(p) <= Len(q) /\ \A i \in 1 .. Len(p) : p[i] = q[i]
<1>1. ASSUME Len(p) <= Len(q)
      PROVE  /\ SubSeq(p, 1, Len(p)) \in Seq(S)
             /\ SubSeq(q, 1, Len(p)) \in Seq(S)
             /\ Len(SubSeq(p, 1, Len(p))) = Len(p)
             /\ Len(SubSeq(q, 1, Len(p))) = Len(p)
             /\ \A i \in 1 .. Len(p) : /\ SubSeq(p, 1, Len(p))[i] = p[i]
                                      /\ SubSeq(q, 1, Len(p))[i] = q[i]
  BY <1>1
<1> QED
  BY <1>1 DEF IsPrefix

(* Prefixes order the sequences.                                           *)
LEMMA PrefixSelf ==
  ASSUME NEW S, NEW p \in Seq(S)
  PROVE  IsPrefix(p, p)
  BY PrefixAt

LEMMA PrefixTrans ==
  ASSUME NEW S, NEW p \in Seq(S), NEW q \in Seq(S), NEW r \in Seq(S),
         IsPrefix(p, q), IsPrefix(q, r)
  PROVE  IsPrefix(p, r)
<1>1. Len(p) <= Len(q) /\ \A i \in 1 .. Len(p) : p[i] = q[i]
  BY PrefixAt
<1>2. Len(q) <= Len(r) /\ \A i \in 1 .. Len(q) : q[i] = r[i]
  BY PrefixAt
<1>3. Len(p) <= Len(r) /\ \A i \in 1 .. Len(p) : p[i] = r[i]
  BY <1>1, <1>2
<1> QED
  BY <1>3, PrefixAt

LEMMA PrefixAnti ==
  ASSUME NEW S, NEW p \in Seq(S), NEW q \in Seq(S),
         IsPrefix(p, q), IsPrefix(q, p)
  PROVE  p = q
<1>1. Len(p) <= Len(q) /\ \A i \in 1 .. Len(p) : p[i] = q[i]
  BY PrefixAt
<1>2. Len(q) <= Len(p)
  BY PrefixAt
<1>3. Len(p) = Len(q)
  BY <1>1, <1>2
<1> QED
  BY <1>1, <1>3, SeqEqual

(* Two prefixes of one path are one within the other.                      *)
LEMMA Comparable ==
  ASSUME NEW S, NEW p \in Seq(S), NEW q \in Seq(S), NEW r \in Seq(S),
         IsPrefix(p, r), IsPrefix(q, r)
  PROVE  IsPrefix(p, q) \/ IsPrefix(q, p)
<1>1. Len(p) <= Len(r) /\ \A i \in 1 .. Len(p) : p[i] = r[i]
  BY PrefixAt
<1>2. Len(q) <= Len(r) /\ \A i \in 1 .. Len(q) : q[i] = r[i]
  BY PrefixAt
<1>3. CASE Len(p) <= Len(q)
  <2>1. \A i \in 1 .. Len(p) : p[i] = q[i]
    BY <1>1, <1>2, <1>3
  <2> QED
    BY <1>3, <2>1, PrefixAt
<1>4. CASE Len(q) <= Len(p)
  <2>1. \A i \in 1 .. Len(q) : q[i] = p[i]
    BY <1>1, <1>2, <1>4
  <2> QED
    BY <1>4, <2>1, PrefixAt
<1> QED
  BY <1>3, <1>4

(* What follows a prefix, element by element.                              *)
LEMMA RestOf ==
  ASSUME NEW S, NEW p \in Seq(S), NEW q \in Seq(S), IsPrefix(p, q)
  PROVE  /\ Rest(p, q) \in Seq(S)
         /\ Len(Rest(p, q)) = Len(q) - Len(p)
         /\ \A i \in 1 .. Len(q) - Len(p) : Rest(p, q)[i] = q[Len(p) + i]
<1>1. Len(p) <= Len(q)
  BY PrefixAt
<1> QED
  BY <1>1 DEF Rest

(* Two sequences joined, element by element.                               *)
LEMMA Joined ==
  ASSUME NEW S, NEW r \in Seq(S), NEW m \in Seq(S), NEW c, c = r \o m
  PROVE  /\ c \in Seq(S)
         /\ Len(c) = Len(r) + Len(m)
         /\ \A i \in 1 .. Len(r) : c[i] = r[i]
         /\ \A i \in 1 .. Len(m) : c[Len(r) + i] = m[i]
<1>1. /\ c \in Seq(S) /\ Len(c) = Len(r) + Len(m)
      /\ \A i \in 1 .. Len(r) + Len(m) :
           c[i] = IF i <= Len(r) THEN r[i] ELSE m[i - Len(r)]
  BY ConcatProperties
<1>2. Len(m) \in Nat /\ Len(r) \in Nat
  OBVIOUS
<1>3. \A i \in 1 .. Len(r) : c[i] = r[i]
  BY <1>1, <1>2
<1>4. \A i \in 1 .. Len(m) : c[Len(r) + i] = m[i]
  <2> TAKE i \in 1 .. Len(m)
  <2>1. Len(r) + i \in 1 .. Len(r) + Len(m)
    BY <1>2
  <2>2. ~(Len(r) + i <= Len(r)) /\ (Len(r) + i) - Len(r) = i
    BY <1>2
  <2> QED
    BY <1>1, <2>1, <2>2
<1> QED
  BY <1>1, <1>3, <1>4

(* The path q, below p, at another place.                                  *)
At(r, p, q) == r \o Rest(p, q)
IsAt(c, r, p, q) ==
  /\ Len(c) = Len(r) + (Len(q) - Len(p))
  /\ \A i \in 1 .. Len(r) : c[i] = r[i]
  /\ \A i \in 1 .. Len(q) - Len(p) : c[Len(r) + i] = q[Len(p) + i]

LEMMA Moved ==
  ASSUME NEW S, NEW p \in Seq(S), NEW q \in Seq(S), NEW r \in Seq(S),
         IsPrefix(p, q), NEW c, c = At(r, p, q)
  PROVE  c \in Seq(S) /\ IsAt(c, r, p, q)
<1>1. PICK m : m = Rest(p, q)
  OBVIOUS
<1>2. m \in Seq(S)
  BY <1>1, RestOf
<1>3. /\ Len(m) = Len(q) - Len(p)
      /\ \A i \in 1 .. Len(q) - Len(p) : m[i] = q[Len(p) + i]
  BY <1>1, RestOf
<1>4. c = r \o m
  BY <1>1 DEF At
<1>5. /\ c \in Seq(S) /\ Len(c) = Len(r) + Len(m)
      /\ \A i \in 1 .. Len(r) : c[i] = r[i]
      /\ \A i \in 1 .. Len(m) : c[Len(r) + i] = m[i]
  BY <1>2, <1>4, Joined
<1> QED
  BY <1>2, <1>3, <1>5 DEF IsAt

(* What is moved below r is below r.                                       *)
LEMMA MovedBelow ==
  ASSUME NEW S, NEW p \in Seq(S), NEW q \in Seq(S), NEW r \in Seq(S),
         IsPrefix(p, q)
  PROVE  At(r, p, q) \in Seq(S) /\ IsPrefix(r, At(r, p, q))
<1>1. PICK c : c = At(r, p, q)
  OBVIOUS
<1>2. c \in Seq(S) /\ IsAt(c, r, p, q)
  BY <1>1, Moved, Zenon
<1>3. Len(p) <= Len(q)
  BY PrefixAt
<1>4. Len(r) <= Len(c) /\ \A i \in 1 .. Len(r) : c[i] = r[i]
  BY <1>2, <1>3 DEF IsAt
<1> QED
  BY <1>1, <1>2, <1>4, PrefixAt, Zenon

(* There and back.                                                         *)
LEMMA MovedBack ==
  ASSUME NEW S, NEW p \in Seq(S), NEW q \in Seq(S), NEW r \in Seq(S),
         IsPrefix(p, q)
  PROVE  At(p, r, At(r, p, q)) = q
<1>1. PICK m : m = At(r, p, q)
  OBVIOUS
<1>2. PICK b : b = At(p, r, m)
  OBVIOUS
<1>3. m \in Seq(S) /\ IsAt(m, r, p, q)
  BY <1>1, Moved, Zenon
<1>4. IsPrefix(r, m)
  BY <1>1, MovedBelow
<1>5. b \in Seq(S) /\ IsAt(b, p, r, m)
  BY <1>2, <1>3, <1>4, Moved, Zenon
<1>6. Len(p) <= Len(q) /\ \A i \in 1 .. Len(p) : p[i] = q[i]
  BY PrefixAt
<1>7. Len(p) \in Nat /\ Len(q) \in Nat /\ Len(r) \in Nat
  OBVIOUS
<1>8. Len(b) = Len(q)
  BY <1>3, <1>5, <1>7 DEF IsAt
<1>9. ASSUME NEW i \in 1 .. Len(q) PROVE b[i] = q[i]
  <2>1. CASE i <= Len(p)
    BY <2>1, <1>5, <1>6, <1>7 DEF IsAt
  <2>2. CASE i > Len(p)
    <3>1. i - Len(p) \in 1 .. Len(q) - Len(p) /\ Len(p) + (i - Len(p)) = i
      BY <2>2, <1>7
    <3>2. Len(m) - Len(r) = Len(q) - Len(p)
      BY <1>3, <1>7 DEF IsAt
    <3> QED
      BY <3>1, <3>2, <1>3, <1>5 DEF IsAt
  <2> QED
    BY <2>1, <2>2, <1>7
<1>10. b = q
  BY <1>5, <1>8, <1>9, SeqEqual
<1> QED
  BY <1>1, <1>2, <1>10

(* Moving keeps what lies within what.                                     *)
LEMMA MovedWithin ==
  ASSUME NEW S, NEW p \in Seq(S), NEW q \in Seq(S), NEW r \in Seq(S),
         NEW x \in Seq(S), IsPrefix(p, q), IsPrefix(q, x)
  PROVE  IsPrefix(At(r, p, q), At(r, p, x))
<1>1. PICK m : m = At(r, p, q)
  OBVIOUS
<1>2. PICK n : n = At(r, p, x)
  OBVIOUS
<1>3. IsPrefix(p, x)
  BY PrefixTrans
<1>4. m \in Seq(S) /\ IsAt(m, r, p, q)
  BY <1>1, Moved, Zenon
<1>5. n \in Seq(S) /\ IsAt(n, r, p, x)
  BY <1>2, <1>3, Moved, Zenon
<1>6. Len(q) <= Len(x) /\ \A i \in 1 .. Len(q) : q[i] = x[i]
  BY PrefixAt
<1>7. Len(p) <= Len(q)
  BY PrefixAt
<1>8. Len(p) \in Nat /\ Len(q) \in Nat /\ Len(r) \in Nat /\ Len(x) \in Nat
  OBVIOUS
<1>9. Len(m) <= Len(n)
  BY <1>4, <1>5, <1>6, <1>8 DEF IsAt
<1>10. ASSUME NEW i \in 1 .. Len(m) PROVE m[i] = n[i]
  <2>1. CASE i <= Len(r)
    BY <2>1, <1>4, <1>5, <1>8 DEF IsAt
  <2>2. CASE i > Len(r)
    <3>1. PICK j : j = i - Len(r)
      OBVIOUS
    <3>2. j \in 1 .. Len(q) - Len(p) /\ Len(r) + j = i
      BY <2>2, <3>1, <1>4, <1>8 DEF IsAt
    <3>3. j \in 1 .. Len(x) - Len(p) /\ Len(p) + j \in 1 .. Len(q)
      BY <3>2, <1>6, <1>7, <1>8
    <3> QED
      BY <3>2, <3>3, <1>4, <1>5, <1>6 DEF IsAt
  <2> QED
    BY <2>1, <2>2, <1>4, <1>8 DEF IsAt
<1>11. IsPrefix(m, n)
  BY <1>4, <1>5, <1>9, <1>10, PrefixAt
<1> QED
  BY <1>1, <1>2, <1>11

(* The status of an upload takes a name.                                   *)
LEMMA UploadNamed ==
  ASSUME NEW P, NEW u \in [inProgress : BOOLEAN, name : P], NEW n \in P
  PROVE  [u EXCEPT !.name = n] \in [inProgress : BOOLEAN, name : P]
  OBVIOUS

USE SimStorageAssumption, FileServerAssumption


-----------------------------------------------------------------------------
(* Paths of the card.                                                      *)

(* Paths are ordered by what lies within what, the root first.             *)
LEMMA PathOrder ==
  /\ \A p \in Paths : IsPrefix(p, p) /\ IsPrefix(<<>>, p)
  /\ \A p, q, r \in Paths :
       IsPrefix(p, q) /\ IsPrefix(q, r) => IsPrefix(p, r)
  /\ \A p, q \in Paths : IsPrefix(p, q) /\ IsPrefix(q, p) => p = q
  /\ \A p, q, r \in Paths :
       IsPrefix(p, r) /\ IsPrefix(q, r) => IsPrefix(p, q) \/ IsPrefix(q, p)
  /\ \A p, q \in Paths : IsPrefix(p, q) => Len(p) <= Len(q)
<1>1. Paths \subseteq Seq(Names) /\ <<>> \in Seq(Names)
  OBVIOUS
<1>2. \A p \in Paths : IsPrefix(p, p)
  BY <1>1, PrefixSelf, Zenon
<1>3. \A p \in Paths : IsPrefix(<<>>, p)
  <2> TAKE p \in Paths
  <2>1. Len(<<>>) <= Len(p) /\ \A i \in 1 .. Len(<<>>) : <<>>[i] = p[i]
    BY <1>1
  <2> QED
    BY <1>1, <2>1, PrefixAt, Zenon
<1>4. \A p, q, r \in Paths :
       IsPrefix(p, q) /\ IsPrefix(q, r) => IsPrefix(p, r)
  BY <1>1, PrefixTrans, Zenon
<1>5. \A p, q \in Paths : IsPrefix(p, q) /\ IsPrefix(q, p) => p = q
  BY <1>1, PrefixAnti, Zenon
<1>6. \A p, q, r \in Paths :
       IsPrefix(p, r) /\ IsPrefix(q, r) => IsPrefix(p, q) \/ IsPrefix(q, p)
  BY <1>1, Comparable, Zenon
<1>7. \A p, q \in Paths : IsPrefix(p, q) => Len(p) <= Len(q)
  BY <1>1, PrefixAt, Zenon
<1> QED
  BY <1>2, <1>3, <1>4, <1>5, <1>6, <1>7

(* What is on the way to a path of the card, moved or not, is one, too.    *)
LEMMA PrefixClosed ==
  ASSUME NEW p \in Paths, NEW q \in Seq(Names), IsPrefix(q, p)
  PROVE  q \in Paths
<1>1. Len(q) <= Len(p) /\ \A i \in 1 .. Len(q) : q[i] = p[i]
  BY PrefixAt
<1>2. Len(q) \in 0 .. Len(p)
  BY <1>1
<1>3. PICK x : x = SubSeq(p, 1, Len(q))
  OBVIOUS
<1>4. x \in Paths
  BY <1>2, <1>3
<1>5. x \in Seq(Names) /\ Len(x) = Len(q) /\ \A i \in 1 .. Len(q) : x[i] = p[i]
  BY <1>2, <1>3
<1>6. x = q
  BY <1>1, <1>5, SeqEqual
<1> QED
  BY <1>4, <1>6

(* The lemmas about moving, for paths of the card.                         *)
LEMMA PathMoves ==
  ASSUME NEW p \in Paths, NEW r \in Paths, NEW q \in Paths, IsPrefix(p, q)
  PROVE  /\ At(r, p, q) \in Seq(Names)
         /\ IsPrefix(r, At(r, p, q))
         /\ At(p, r, At(r, p, q)) = q
         /\ \A x \in Paths :
              IsPrefix(p, x) /\ IsPrefix(x, q) =>
                IsPrefix(At(r, p, x), At(r, p, q))
<1>1. Paths \subseteq Seq(Names)
  OBVIOUS
<1>2. At(r, p, q) \in Seq(Names) /\ IsPrefix(r, At(r, p, q))
  BY <1>1, MovedBelow, Zenon
<1>3. At(p, r, At(r, p, q)) = q
  BY <1>1, MovedBack, Zenon
<1>4. \A x \in Paths :
        IsPrefix(p, x) /\ IsPrefix(x, q) =>
          IsPrefix(At(r, p, x), At(r, p, q))
  BY <1>1, MovedWithin, Zenon
<1> QED
  BY <1>2, <1>3, <1>4

(* The directory of a path is above it.                                    *)
LEMMA ParentAbove ==
  ASSUME NEW p \in Paths \ {<<>>}
  PROVE  /\ Parent(p) \in Paths
         /\ Ancestors(Parent(p)) \cup {Parent(p)} \subseteq Ancestors(p)
<1>1. p \in Seq(Names) /\ Len(p) \in Nat \ {0}
  OBVIOUS
<1>2. PICK k \in 0 .. Len(p) : k = Len(p) - 1
  <2>1. Len(p) - 1 \in 0 .. Len(p)
    BY <1>1
  <2> QED
    BY <2>1
<1>3. PICK d : d = SubSeq(p, 1, k)
  OBVIOUS
<1>4. d \in Paths
  BY <1>3
<1>5. d \in Seq(Names) /\ Len(d) = k /\ \A i \in 1 .. k : d[i] = p[i]
  BY <1>1, <1>3
<1>6. Len(d) <= Len(p) /\ d # p
  BY <1>1, <1>2, <1>5
<1>7. IsPrefix(d, p)
  BY <1>1, <1>5, <1>6, PrefixAt
<1>8. \A q \in Ancestors(d) \cup {d} : q \in Ancestors(p)
  BY <1>4, <1>6, <1>7, PathOrder DEF Ancestors, IsStrictPrefix
<1>9. d = Parent(p)
  BY <1>2, <1>3 DEF Parent, Front
<1> QED
  BY <1>4, <1>8, <1>9

-----------------------------------------------------------------------------
(* Frames of the storage operations: where a path q keeps its entry.       *)

(* Making parents leaves everything but the parents alone.                 *)
LEMMA EnsureParentsFrame ==
  ASSUME NEW t, DOMAIN t = Paths, NEW p, NEW u \in EnsureParents(t, p)
  PROVE  DOMAIN u = Paths /\ \A q \in Paths \ Ancestors(p) : u[q] = t[q]
<1>1. PICK k \in 0 .. Len(p) - 1 : u = MadeUpTo(t, p, k)
  BY DEF EnsureParents
<1> QED
  BY <1>1 DEF MadeUpTo

(* A directory that is made is at the path or above it.                    *)
LEMMA MkdirFrame ==
  ASSUME NEW t, DOMAIN t = Paths, NEW p, NEW o \in Mkdir(t, p)
  PROVE  /\ DOMAIN o.tree = Paths
         /\ \A q \in Paths \ (Ancestors(p) \cup {p}) : o.tree[q] = t[q]
<1>1. PICK u \in EnsureParents(t, p) :
        o \in {Failed(u), Done(u), Done([u EXCEPT ![p] = Dir])}
  BY DEF Mkdir
<1>2. DOMAIN u = Paths /\ \A q \in Paths \ Ancestors(p) : u[q] = t[q]
  BY EnsureParentsFrame
<1> QED
  BY <1>1, <1>2 DEF Failed, Done

(* A file that is written is at the path, new parents above it.            *)
LEMMA WriteFrame ==
  ASSUME NEW t, DOMAIN t = Paths, NEW p, NEW c, NEW o \in Write(t, p, c)
  PROVE  /\ DOMAIN o.tree = Paths
         /\ \A q \in Paths \ (Ancestors(p) \cup {p}) : o.tree[q] = t[q]
<1>1. PICK u \in EnsureParents(t, p) :
        o \in {Failed(u), Done([u EXCEPT ![p] = c]),
               Failed([u EXCEPT ![p] = Cut])}
  BY DEF Write
<1>2. DOMAIN u = Paths /\ \A q \in Paths \ Ancestors(p) : u[q] = t[q]
  BY EnsureParentsFrame
<1> QED
  BY <1>1, <1>2 DEF Failed, Done

(* Removal leaves everything but the entry and what is below it alone.     *)
LEMMA RemoveFrame ==
  ASSUME NEW t, DOMAIN t = Paths, NEW p,
         NEW o \in RemoveFile(t, p) \cup RemoveDirRecursive(t, p)
  PROVE  /\ DOMAIN o.tree = Paths
         /\ \A q \in Paths \ Descendants(p) : o.tree[q] = t[q]
<1>1. PICK gone \in SUBSET Descendants(p) :
        o \in {Failed(t), Failed(Without(t, gone)), Done(Without(t, gone))}
  <2>1. CASE o \in RemoveFile(t, p)
    BY <2>1 DEF RemoveFile, Below
  <2>2. CASE o \in RemoveDirRecursive(t, p)
    BY <2>2 DEF RemoveDirRecursive, Below
  <2> QED
    BY <2>1, <2>2
<1> QED
  BY <1>1 DEF Failed, Done, Without

(* A rename leaves all but the two ends and parents alone.                 *)
LEMMA RenameFrame ==
  ASSUME NEW t, DOMAIN t = Paths, NEW source, NEW dest,
         NEW o \in Rename(t, source, dest)
  PROVE  /\ DOMAIN o.tree = Paths
         /\ \A q \in Paths \ (Ancestors(dest) \cup Descendants(dest)
                                \cup Descendants(source)) : o.tree[q] = t[q]
<1>1. PICK u \in EnsureParents(t, dest) :
        o \in {Failed(u), Done(u),
               Done(Copied(u, Without(u, Descendants(source)
                                           \cup Descendants(dest)),
                           Below(u, source), source, dest))}
  BY DEF Rename
<1>2. DOMAIN u = Paths /\ \A q \in Paths \ Ancestors(dest) : u[q] = t[q]
  BY EnsureParentsFrame
<1>3. \A q \in Paths \ Descendants(dest) : ~IsPrefix(dest, q)
  BY DEF Descendants
<1> QED
  BY <1>1, <1>2, <1>3 DEF Failed, Done, Copied, Without

(* A copy, complete or not, leaves everything but the destination alone.   *)
LEMMA CopyFrame ==
  ASSUME NEW source, NEW dest, NEW s, NEW cut, DOMAIN tree = Paths,
         NEW t \in CopyResults(tree, source, dest, s, cut)
  PROVE  /\ DOMAIN t = Paths
         /\ \A q \in Paths \ (Ancestors(dest) \cup Descendants(dest)) :
              t[q] = tree[q]
<1>1. PICK u \in EnsureParents(tree, dest) :
        t = [x \in Paths |->
               IF IsPrefix(dest, x) /\ source \o Rest(dest, x) \in cut
               THEN Cut ELSE Copied(tree, u, s, source, dest)[x]]
  BY DEF CopyResults
<1>2. DOMAIN u = Paths /\ \A q \in Paths \ Ancestors(dest) : u[q] = tree[q]
  BY EnsureParentsFrame
<1>3. \A q \in Paths \ Descendants(dest) : ~IsPrefix(dest, q)
  BY DEF Descendants
<1> QED
  BY <1>1, <1>2, <1>3 DEF Copied

-----------------------------------------------------------------------------
(* Protected and other paths.                                              *)

(* Paths that have an element in common have the same first element.       *)
LEMMA PrefixHead ==
  ASSUME NEW p \in Paths, NEW q \in Paths, p # <<>>, IsPrefix(p, q)
  PROVE  Head(p) = Head(q)
<1>1. p \in Seq(Names) /\ q \in Seq(Names) /\ Len(p) > 0
  OBVIOUS
<1>2. SubSeq(p, 1, Len(p))[1] = p[1] /\ SubSeq(q, 1, Len(p))[1] = q[1]
  BY <1>1 DEF IsPrefix
<1> QED
  BY <1>1, <1>2 DEF IsPrefix

SystemEntry(q) == q \in Paths \ {<<>>} /\ Head(q) \in Protected
Free(p) == p \in Paths \ {<<>>} /\ ~IsProtectedPath(p)

(* No way between a free path and a protected one.                         *)
LEMMA Apart ==
  ASSUME NEW p, Free(p), NEW q, SystemEntry(q)
  PROVE  q \notin Descendants(p) \cup Ancestors(p) \cup {p}
<1>1. Head(p) \notin Protected
  BY DEF Free, IsProtectedPath
<1> QED
  BY <1>1, PrefixHead
     DEF Free, SystemEntry, Descendants, Ancestors, IsStrictPrefix

(* The same for the directory a file is uploaded to.                       *)
LEMMA ParentApart ==
  ASSUME NEW p, Free(p), NEW q, SystemEntry(q)
  PROVE  q \notin Ancestors(Parent(p)) \cup {Parent(p)}
<1>1. p \in Seq(Names) /\ Len(p) > 0 /\ Parent(p) \in Paths
  BY ParentAbove DEF Free
<1>2. CASE Parent(p) = <<>>
  BY <1>2 DEF SystemEntry, Ancestors, IsStrictPrefix, IsPrefix
<1>3. CASE Parent(p) # <<>>
  <2>1. Head(Parent(p)) = Head(p)
    BY <1>1, <1>3 DEF Parent, Front
  <2>2. Head(p) \notin Protected
    BY <1>1 DEF Free, IsProtectedPath
  <2> QED
    BY <2>1, <2>2, <1>1, <1>3, PrefixHead
       DEF SystemEntry, Ancestors, IsStrictPrefix
<1> QED
  BY <1>2, <1>3

-----------------------------------------------------------------------------
(* The server.                                                             *)

Working == Changing \cup TwoPaths \cup {"clear", "store"}

(* While the worker changes the card, both paths have been looked at.      *)
Checked ==
  /\ DOMAIN tree = Paths
  /\ request \in Requests \cup {NoRequest}
  /\ pc \in Working => Free(request.source) /\ Free(request.dest)

Kept == \A q \in Paths : SystemEntry(q) => tree'[q] = tree[q]

(* The steps of the worker that work on the card.                          *)
LEMMA WorkStep ==
  ASSUME Checked,
         \/ MakeDirectory \/ RenameEntry \/ Delete \/ Put \/ UploadStart
         \/ UploadDone \/ ClearDestination \/ Copy
  PROVE  DOMAIN tree' = Paths /\ Kept
<1> DEFINE source == request.source
           dest == request.dest
           Untouched ==
             Paths \ (Descendants(source) \cup Descendants(dest)
                      \cup Ancestors(dest) \cup {dest}
                      \cup Ancestors(Parent(dest)) \cup {Parent(dest)})
<1>1. DOMAIN tree = Paths /\ Free(source) /\ Free(dest)
  BY DEF Checked, Working, Changing, TwoPaths, MakeDirectory, RenameEntry,
         Delete, Put, UploadStart, UploadDone, ClearDestination, Copy
<1>2. ASSUME NEW q \in Paths, SystemEntry(q)
      PROVE  q \in Untouched
  BY <1>1, <1>2, Apart, ParentApart
<1>3. DOMAIN tree' = Paths /\ \A q \in Untouched : tree'[q] = tree[q]
  <2>1. CASE MakeDirectory
    BY <1>1, <2>1, MkdirFrame DEF MakeDirectory, Answer
  <2>2. CASE RenameEntry
    BY <1>1, <2>2, RenameFrame DEF RenameEntry, Answer
  <2>3. CASE Delete
    BY <1>1, <2>3, RemoveFrame DEF Delete, Answer, RemoveEntry
  <2>4. CASE Put
    BY <1>1, <2>4, WriteFrame DEF Put, Answer
  <2>5. CASE UploadStart
    <3>1. PICK o \in Mkdir(tree, Parent(dest)) \cup {Done(tree)} :
            tree' = o.tree
      BY <2>5 DEF UploadStart
    <3> QED
      BY <1>1, <3>1, MkdirFrame DEF Done
  <2>6. CASE UploadDone
    <3>1. PICK o \in Write(tree, dest, request.content) : tree' = o.tree
      BY <2>6 DEF UploadDone
    <3> QED
      BY <1>1, <3>1, WriteFrame
  <2>7. CASE ClearDestination
    BY <1>1, <2>7, RemoveFrame DEF ClearDestination, RemoveEntry
  <2>8. CASE Copy
    <3>1. \E s, cut : tree' \in CopyResults(tree, source, dest, s, cut)
      BY <2>8 DEF Copy
    <3> QED
      BY <1>1, <3>1, CopyFrame
  <2> QED
    BY <2>1, <2>2, <2>3, <2>4, <2>5, <2>6, <2>7, <2>8
<1> QED
  BY <1>2, <1>3 DEF Kept

(* Every step keeps both paths checked and the protected entries.          *)
LEMMA CheckedStep ==
  Checked /\ [Next]_vars => Checked' /\ Kept
<1> SUFFICES ASSUME Checked, [Next]_vars PROVE Checked' /\ Kept
  OBVIOUS
<1> USE DEF Checked, Working, Kept
<1>1. ASSUME NEW r \in Requests, Receive(r) PROVE Checked' /\ Kept
  <2>1. r.source \in Paths /\ r.dest \in Paths
    BY DEF Requests
  <2>2. Refusal(r) = 0 /\ r.verb \in Working =>
          Free(r.source) /\ Free(r.dest)
    BY <2>1 DEF Refusal, Forbidden, Free, Working, Changing, TwoPaths
  <2>3. request' = r /\ tree' = tree
    BY <1>1 DEF Receive
  <2>4. \/ pc' = "reply"
        \/ Refusal(r) = 0 /\ pc' = "clear" /\ r.verb \in Working
        \/ Refusal(r) = 0 /\ pc' = r.verb
    BY <1>1 DEF Receive, TwoPaths
  <2> QED
    BY <2>2, <2>3, <2>4 DEF Changing, TwoPaths
<1>2. ASSUME \/ MakeDirectory \/ RenameEntry \/ Delete \/ Put \/ UploadStart
             \/ UploadDone \/ ClearDestination \/ Copy
      PROVE  Checked' /\ Kept
  <2>1. DOMAIN tree' = Paths /\ Kept
    BY <1>2, WorkStep
  <2>2. request' = request
    BY <1>2 DEF MakeDirectory, RenameEntry, Delete, Put, UploadStart,
                UploadDone, ClearDestination, Copy
  <2>3. pc \in Working
    BY <1>2 DEF Changing, TwoPaths, MakeDirectory, RenameEntry, Delete, Put,
                UploadStart,
                UploadDone, ClearDestination, Copy
  <2> QED
    BY <2>1, <2>2, <2>3
<1>3. CASE Reply
  BY <1>3 DEF Reply, Changing, TwoPaths
<1>4. ASSUME \/ Begin \/ Stop \/ Join \/ Accept
             \/ BadRequest \/ OtherRequest \/ Propfind \/ ListFiles
             \/ NotAFile \/ DownloadHead \/ Download
      PROVE  Checked' /\ Kept
  BY <1>4 DEF Begin, Stop, Join, Accept, BadRequest, OtherRequest,
              AnswerAtOnce, Propfind, ListFiles, NotAFile, DownloadHead,
              Download, serverVars, Changing, TwoPaths
<1>5. CASE UNCHANGED vars
  BY <1>5 DEF vars
<1> QED
  BY <1>1, <1>2, <1>3, <1>4, <1>5 DEF Next

(* No request, nor any sequence of them with any failures of the host,     *)
(* changes what isProtectedPath() guards (CrossPointWebServer.cpp:159-183).*)
THEOREM SystemFilesAreKept == Spec => SystemFilesKept
<1>1. Init => Checked
  BY DEF Init, Checked, Working, Changing, TwoPaths, NoRequest, Trees
<1>2. Checked /\ [Next]_vars =>
        [\A p \in Paths \ {<<>>} :
           Head(p) \in Protected => tree'[p] = tree[p]]_vars
  BY CheckedStep DEF Kept, SystemEntry
<1>3. Checked /\ [Next]_vars => Checked'
  BY CheckedStep
<1> QED
  BY <1>1, <1>2, <1>3, PTL DEF Spec, SystemFilesKept

-----------------------------------------------------------------------------
(* What an answer shows are paths of the card, also when the listing ended *)
(* early, and every other variable keeps its type.                         *)
THEOREM TypeCorrect == Spec => []TypeOK
<1> DEFINE I == Checked /\ TypeOK
           Works == \/ MakeDirectory \/ RenameEntry \/ Delete \/ Put
                    \/ UploadStart \/ UploadDone \/ ClearDestination \/ Copy
           Reads == \/ Propfind \/ ListFiles \/ NotAFile \/ DownloadHead
                    \/ Download
           Idles == \/ Begin \/ Stop \/ Join \/ Accept \/ BadRequest
                    \/ OtherRequest \/ Reply
<1>1. Init => I
  <2> SUFFICES ASSUME Init PROVE I
    OBVIOUS
  <2>1. Checked
    BY DEF Init, Checked, Working, Changing, TwoPaths, NoRequest, Trees
  <2>2. misread \in BOOLEAN /\ running \in BOOLEAN
    BY DEF Init
  <2>3. upload \in [inProgress : BOOLEAN, name : Paths]
    BY DEF Init, NoUpload
  <2>4. DOMAIN body \subseteq Paths
    BY DEF Init, NoBody
  <2> QED
    BY <2>1, <2>2, <2>3, <2>4 DEF Init, Checked, TypeOK
<1>2. I /\ [Next]_vars => I'
  <2> SUFFICES ASSUME I, [Next]_vars PROVE I'
    OBVIOUS
  <2>1. Checked'
    BY CheckedStep
  <2>2. request.dest \in Paths /\ request.source \in Paths
    BY DEF TypeOK, Requests, NoRequest
  <2> DEFINE Kinds == misread' \in BOOLEAN /\ running' \in BOOLEAN
             Places == DOMAIN old' = Paths /\ DOMAIN body' \subseteq Paths
             Program == /\ pc' \in {"off", "accept", "receive", "clear",
                                    "store", "reply"} \cup OnePath
                                    \cup TwoPaths
                        /\ code' \in {0, 200, 204, 207, 400, 403, 404, 412,
                                      500, 501}
             Uploaded == upload' \in [inProgress : BOOLEAN, name : Paths]
             Good == Kinds /\ Places /\ Program /\ Uploaded
  <2> USE DEF TypeOK, serverVars
  <2>3. ASSUME Idles PROVE Good
    <3>1. CASE Begin
      <4>1. Kinds /\ Places
        BY <3>1 DEF Begin
      <4>2. Uploaded
        BY <3>1 DEF Begin, NoUpload
      <4> QED
        BY <3>1, <4>1, <4>2 DEF Begin
    <3>2. CASE Stop \/ Join
      <4>1. running' \in BOOLEAN
        BY <3>2 DEF Stop, Join
      <4>2. Uploaded /\ Places /\ misread' \in BOOLEAN
        BY <3>2 DEF Stop, Join
      <4>3. Program
        BY <3>2 DEF Stop, Join
      <4> QED
        BY <4>1, <4>2, <4>3
    <3>3. CASE Accept \/ BadRequest \/ OtherRequest
      BY <3>3 DEF Accept, BadRequest, OtherRequest, AnswerAtOnce
    <3>4. CASE Reply
      <4>1. Kinds
        BY <3>4 DEF Reply
      <4>2. Places
        BY <3>4 DEF Reply, NoBody
      <4> QED
        BY <3>4, <4>1, <4>2 DEF Reply
    <3> QED
      BY <2>3, <3>1, <3>2, <3>3, <3>4
  <2>4. ASSUME NEW r \in Requests, Receive(r) PROVE Good
    <3> USE <2>4 DEF Receive
    <3>1. r.verb \in OnePath \cup TwoPaths
      BY DEF Requests
    <3>2. Refusal(r) \in {0, 403, 404, 412}
      BY DEF Refusal
    <3>3. Kinds /\ Places
      OBVIOUS
    <3>4. Program
      BY <3>1, <3>2
    <3>5. Uploaded
      OBVIOUS
    <3> QED
      BY <3>3, <3>4, <3>5
  <2>5. ASSUME Reads PROVE Good
    <3>1. CASE Propfind
      <4>1. misread' \in BOOLEAN /\ UNCHANGED <<running, old, upload>>
        BY <3>1 DEF Propfind
      <4>2. DOMAIN body' \subseteq Paths
        BY <3>1, <2>2 DEF Propfind, Restrict, Children, Below, Descendants
      <4> QED
        BY <3>1, <4>1, <4>2 DEF Propfind
    <3>2. CASE ListFiles
      <4>1. misread' \in BOOLEAN /\ UNCHANGED <<running, old, upload>>
        BY <3>2 DEF ListFiles
      <4>2. DOMAIN body' \subseteq Paths
        BY <3>2 DEF ListFiles, Restrict, Children, Below, Descendants
      <4> QED
        BY <3>2, <4>1, <4>2 DEF ListFiles
    <3>3. CASE NotAFile \/ DownloadHead
      BY <3>3 DEF NotAFile, DownloadHead
    <3>4. CASE Download
      <4>1. misread' \in BOOLEAN /\ UNCHANGED <<running, old, upload>>
        BY <3>4 DEF Download
      <4>2. DOMAIN body' \subseteq Paths
        BY <3>4, <2>2 DEF Download
      <4> QED
        BY <3>4, <4>1, <4>2 DEF Download
    <3> QED
      BY <2>5, <3>1, <3>2, <3>3, <3>4
  <2>6. ASSUME Works PROVE Good
    <3>1. CASE MakeDirectory \/ RenameEntry \/ Delete \/ Put
      BY <3>1 DEF MakeDirectory, RenameEntry, Delete, Put, Answer
    <3>2. CASE UploadStart
      <4>1. \A b \in BOOLEAN : [upload EXCEPT !.inProgress = b]
                                \in [inProgress : BOOLEAN, name : Paths]
        OBVIOUS
      <4>2. upload' = [upload EXCEPT !.inProgress = TRUE]
        BY <3>2 DEF UploadStart
      <4>3. Uploaded
        BY <4>1, <4>2
      <4> QED
        BY <3>2, <4>3 DEF UploadStart
    <3>3. CASE UploadDone
      <4>1. NoUpload \in [inProgress : BOOLEAN, name : Paths]
        BY DEF NoUpload
      <4>2. [NoUpload EXCEPT !.name = request.dest]
              \in [inProgress : BOOLEAN, name : Paths]
        BY <4>1, <2>2, UploadNamed
      <4>3. \/ upload' = [NoUpload EXCEPT !.name = request.dest]
            \/ upload' = NoUpload
        BY <3>3 DEF UploadDone
      <4>4. Program
        BY <3>3 DEF UploadDone
      <4>5. Uploaded
        BY <4>1, <4>2, <4>3
      <4> QED
        BY <3>3, <4>4, <4>5 DEF UploadDone
    <3>4. CASE ClearDestination
      <4>1. pc = "clear" /\ request # NoRequest
        BY <3>4 DEF ClearDestination, Checked, Working, Free, NoRequest
      <4>2. request.verb \in OnePath \cup TwoPaths
        BY <4>1 DEF Requests
      <4> QED
        BY <3>4, <4>2 DEF ClearDestination
    <3>5. CASE Copy
      BY <3>5 DEF Copy
    <3> QED
      BY <2>6, <3>1, <3>2, <3>3, <3>4, <3>5
  <2>7. CASE UNCHANGED vars
    BY <2>1, <2>7 DEF vars, Checked
  <2>8. Good => TypeOK'
    BY <2>1 DEF Checked
  <2> QED
    BY <2>1, <2>3, <2>4, <2>5, <2>6, <2>7, <2>8 DEF Next
<1> QED
  BY <1>1, <1>2, PTL DEF Spec, I

-----------------------------------------------------------------------------
(* The card stays a tree.                                                  *)

(* What is above an entry is a directory.                                  *)
LEMMA Upward ==
  ASSUME NEW t \in Trees, NEW p \in Paths, NEW q \in Paths, IsPrefix(p, q),
         t[q] # None
  PROVE  t[p] # None /\ (p # q => t[p] = Dir)
  BY DEF Trees, Ancestors, IsStrictPrefix

(* A tree is a function of the paths, and its root a directory.            *)
LEMMA TreeType ==
  ASSUME NEW t \in Trees
  PROVE  /\ t \in [Paths -> Contents \cup {None, Dir}]
         /\ DOMAIN t = Paths /\ t[<<>>] = Dir
  BY DEF Trees

(* u is t with directories made at some of the places in a.                *)
Grown(t, u, a) ==
  \A q \in Paths : u[q] = t[q] \/ (q \in a /\ t[q] = None /\ u[q] = Dir)

(* ensureParentDirectories leaves a tree, with more directories.           *)
LEMMA EnsureParentsTree ==
  ASSUME NEW t \in Trees, NEW p \in Paths, NEW u \in EnsureParents(t, p)
  PROVE  u \in Trees /\ Grown(t, u, Ancestors(p))
<1>1. PICK k \in 0 .. Len(p) - 1 : u = MadeUpTo(t, p, k)
  BY DEF EnsureParents
<1>2. CASE \E q \in Ancestors(p) : t[q] \notin {None, Dir}
  BY <1>1, <1>2 DEF MadeUpTo, Grown
<1>3. CASE ~ \E q \in Ancestors(p) : t[q] \notin {None, Dir}
  <2> DEFINE Made(q) == q \in Ancestors(p) /\ Len(q) <= k
  <2>1. u = [q \in Paths |-> IF Made(q) THEN Dir ELSE t[q]]
    BY <1>1, <1>3 DEF MadeUpTo
  <2>2. \A q \in Paths : Made(q) => t[q] \in {None, Dir}
    BY <1>3
  <2>3. \A q \in Paths : \A a \in Ancestors(q) : Made(q) => Made(a)
    <3> SUFFICES ASSUME NEW q \in Paths, NEW a \in Ancestors(q), Made(q)
                 PROVE  Made(a)
      OBVIOUS
    <3>1. a \in Paths /\ IsPrefix(a, q) /\ a # q /\ IsPrefix(q, p)
      BY DEF Ancestors, IsStrictPrefix
    <3>2. IsPrefix(a, p)
      BY <3>1, PathOrder
    <3>3. a # p
      BY <3>1, PathOrder
    <3>4. Len(a) <= Len(q) /\ Len(a) \in Nat /\ Len(q) \in Nat
      BY <3>1, PathOrder
    <3> QED
      BY <3>1, <3>2, <3>3, <3>4 DEF Ancestors, IsStrictPrefix
  <2> HIDE DEF Made
  <2>4. Grown(t, u, Ancestors(p))
    BY <2>1, <2>2 DEF Grown, Made
  <2>5. u \in [Paths -> Contents \cup {None, Dir}] /\ u[<<>>] = Dir
    BY <2>1, TreeType
  <2>6. ASSUME NEW q \in Paths, u[q] # None, NEW a \in Ancestors(q)
        PROVE  u[a] = Dir
    <3>1. a \in Paths
      BY DEF Ancestors
    <3>2. CASE Made(q)
      BY <2>1, <2>3, <3>1, <3>2
    <3>3. CASE ~Made(q)
      <4>1. t[q] # None
        BY <2>1, <2>6, <3>3
      <4>2. t[a] = Dir
        BY <2>6, <4>1 DEF Trees
      <4> QED
        BY <2>1, <3>1, <4>2
    <3> QED
      BY <3>2, <3>3
  <2> QED
    BY <2>4, <2>5, <2>6 DEF Trees
<1> QED
  BY <1>2, <1>3

(* An entry in a directory may be made or replaced.                        *)
LEMMA AddTree ==
  ASSUME NEW t \in Trees, NEW p \in Paths, HasParent(t, p), t[p] # Dir,
         NEW v \in Contents \cup {Dir}
  PROVE  [t EXCEPT ![p] = v] \in Trees
<1> DEFINE u == [t EXCEPT ![p] = v]
<1>1. u \in [Paths -> Contents \cup {None, Dir}]
  BY TreeType
<1>2. u[<<>>] = Dir
  BY TreeType
<1>3. \A q \in Paths : u[q] = IF q = p THEN v ELSE t[q]
  BY TreeType
<1> HIDE DEF u
<1>4. ASSUME NEW q \in Paths, u[q] # None, NEW a \in Ancestors(q)
      PROVE  u[a] = Dir
  <2>1. a \in Paths /\ IsPrefix(a, q) /\ a # q
    BY DEF Ancestors, IsStrictPrefix
  <2>2. CASE q = p
    BY <1>3, <2>1, <2>2 DEF HasParent
  <2>3. CASE q # p
    <3>1. t[q] # None
      BY <1>3, <1>4, <2>3
    <3>2. t[a] = Dir
      BY <3>1, <2>1, Upward
    <3> QED
      BY <1>3, <2>1, <3>2
  <2> QED
    BY <2>2, <2>3
<1>5. u \in Trees
  BY <1>1, <1>2, <1>4 DEF Trees
<1> QED
  BY <1>5 DEF u

(* Entries may go when all below them go.                                  *)
LEMMA RemoveTree ==
  ASSUME NEW t \in Trees, NEW gone, <<>> \notin gone,
         \A q \in Paths : q \in gone => Below(t, q) \subseteq gone
  PROVE  Without(t, gone) \in Trees
<1> DEFINE u == Without(t, gone)
<1>1. u = [q \in Paths |-> IF q \in gone THEN None ELSE t[q]]
  BY DEF Without
<1> HIDE DEF u
<1>2. u \in [Paths -> Contents \cup {None, Dir}] /\ u[<<>>] = Dir
  BY <1>1, TreeType
<1>3. ASSUME NEW q \in Paths, u[q] # None, NEW a \in Ancestors(q)
      PROVE  u[a] = Dir
  <2>1. a \in Paths /\ IsPrefix(a, q) /\ a # q
    BY DEF Ancestors, IsStrictPrefix
  <2>2. q \notin gone /\ t[q] # None
    BY <1>1, <1>3
  <2>3. t[a] = Dir
    BY <2>1, <2>2, Upward
  <2>4. q \in Below(t, a)
    BY <2>1, <2>2 DEF Below, Descendants
  <2>5. a \notin gone
    BY <2>1, <2>2, <2>4
  <2> QED
    BY <1>1, <2>1, <2>3, <2>5
<1>4. u \in Trees
  BY <1>2, <1>3 DEF Trees
<1> QED
  BY <1>4 DEF u


(* The tree w with the nodes of t below source at dest, those in cut cut.  *)
Image(t, w, nodes, cut, source, dest) ==
  [q \in Paths |->
     IF IsPrefix(dest, q) /\ At(source, dest, q) \in cut THEN Cut
     ELSE IF IsPrefix(dest, q) /\ At(source, dest, q) \in nodes
     THEN t[At(source, dest, q)] ELSE w[q]]

(* The nodes are a part of t that hangs together, below source.            *)
Branch(t, nodes, source) ==
  \A q \in nodes :
    /\ q \in Paths /\ IsPrefix(source, q) /\ t[q] # None
    /\ \A x \in Paths :
         IsPrefix(source, x) /\ IsPrefix(x, q) => x \in nodes

(* A part that hangs together may be put at a place that is free.          *)
LEMMA ImageTree ==
  ASSUME NEW t \in Trees, NEW w \in Trees, NEW nodes, NEW cut,
         NEW source \in Paths, NEW dest \in Paths,
         Branch(t, nodes, source),
         \A q \in cut : q \in nodes /\ t[q] \in Contents,
         nodes # {} => HasParent(w, dest),
         \A q \in Descendants(dest) : w[q] = None
  PROVE  Image(t, w, nodes, cut, source, dest) \in Trees
<1> DEFINE u == Image(t, w, nodes, cut, source, dest)
           From(q) == At(source, dest, q)
           Hit(q) == IsPrefix(dest, q) /\ From(q) \in nodes
           Torn(q) == IsPrefix(dest, q) /\ From(q) \in cut
<1>1. u = [q \in Paths |-> IF Torn(q) THEN Cut
                           ELSE IF Hit(q) THEN t[From(q)] ELSE w[q]]
  BY DEF Image
<1>2. \A q \in Paths : Torn(q) => Hit(q)
  OBVIOUS
<1>3. \A q \in Paths : Hit(q) => From(q) \in Paths /\ t[From(q)] # None
  BY DEF Branch
<1>4. ASSUME NEW q \in Paths, Hit(q), NEW a \in Ancestors(q),
             IsPrefix(dest, a)
      PROVE  Hit(a) /\ t[From(a)] = Dir /\ ~Torn(a)
  <2>1. a \in Paths /\ IsPrefix(a, q) /\ a # q /\ IsPrefix(dest, q)
    BY <1>4 DEF Ancestors, IsStrictPrefix
  <2>2. /\ From(a) \in Seq(Names) /\ IsPrefix(source, From(a))
        /\ IsPrefix(From(a), From(q))
    BY <1>4, <2>1, PathMoves
  <2>3. From(a) # From(q)
    BY <1>4, <2>1, PathMoves
  <2>4. From(a) \in Paths
    BY <1>3, <1>4, <2>2, PrefixClosed
  <2>5. From(a) \in nodes
    BY <1>4, <2>2, <2>4 DEF Branch
  <2>6. t[From(a)] = Dir
    BY <1>3, <1>4, <2>2, <2>3, <2>4, Upward
  <2> QED
    BY <1>4, <2>5, <2>6
<1>5. \A q \in Paths : ~IsPrefix(dest, q) => ~Hit(q) /\ ~Torn(q)
  OBVIOUS
<1> HIDE DEF u, Hit, Torn, From
<1>6. w[dest] = None /\ w[<<>>] = Dir
  BY PathOrder, TreeType DEF Descendants
<1>7. dest # <<>>
  BY <1>6
<1>8. ~IsPrefix(dest, <<>>)
  BY <1>7, PathOrder
<1>9. u[<<>>] = Dir
  BY <1>1, <1>5, <1>6, <1>8
<1>10. u \in [Paths -> Contents \cup {None, Dir}]
  <2>1. ASSUME NEW q \in Paths, Hit(q)
        PROVE  t[From(q)] \in Contents \cup {None, Dir}
    BY <1>3, <2>1, TreeType
  <2>2. \A q \in Paths : w[q] \in Contents \cup {None, Dir}
    BY TreeType
  <2> QED
    BY <1>1, <2>1, <2>2
<1>11. ASSUME NEW q \in Paths, u[q] # None, NEW a \in Ancestors(q)
       PROVE  u[a] = Dir
  <2>1. a \in Paths /\ IsPrefix(a, q) /\ a # q
    BY DEF Ancestors, IsStrictPrefix
  <2>2. CASE Hit(q) /\ IsPrefix(dest, a)
    BY <1>1, <1>4, <2>1, <2>2
  <2>3. CASE Hit(q) /\ ~IsPrefix(dest, a)
    <3>1. IsPrefix(dest, q)
      BY <2>3 DEF Hit
    <3>2. IsPrefix(a, dest) /\ a # dest
      BY <2>1, <2>3, <3>1, PathOrder
    <3>3. a \in Ancestors(dest)
      BY <2>1, <3>2 DEF Ancestors, IsStrictPrefix
    <3>4. w[a] = Dir
      BY <2>3, <3>3 DEF Hit, HasParent
    <3> QED
      BY <1>1, <1>5, <2>1, <2>3, <3>4
  <2>4. CASE ~Hit(q)
    <3>1. u[q] = w[q]
      BY <1>1, <1>2, <2>4
    <3>2. ~IsPrefix(dest, q)
      BY <1>11, <3>1 DEF Descendants
    <3>3. ~IsPrefix(dest, a)
      BY <2>1, <3>2, PathOrder
    <3>4. w[a] = Dir
      BY <1>11, <2>1, <3>1, Upward
    <3> QED
      BY <1>1, <1>5, <2>1, <3>3, <3>4
  <2> QED
    BY <2>2, <2>3, <2>4
<1>12. u \in Trees
  BY <1>9, <1>10, <1>11 DEF Trees
<1> QED
  BY <1>12 DEF u

-----------------------------------------------------------------------------
(* What the calls of the storage do to a tree.                             *)

(* mkdir: nothing is lost, and after a success there is a directory or     *)
(* what there was before.                                                  *)
LEMMA MkdirDoes ==
  ASSUME NEW t \in Trees, NEW p \in Paths, NEW o \in Mkdir(t, p)
  PROVE  /\ o.tree \in Trees
         /\ Grown(t, o.tree, Ancestors(p) \cup {p})
         /\ o.ok => o.tree[p] = IF t[p] = None THEN Dir ELSE t[p]
<1>1. PICK u \in EnsureParents(t, p) :
        \/ o = Failed(u)
        \/ o = Done(u) /\ u[p] # None
        \/ o = Done([u EXCEPT ![p] = Dir]) /\ u[p] = None /\ HasParent(u, p)
  BY DEF Mkdir
<1>2. u \in Trees /\ Grown(t, u, Ancestors(p))
  BY EnsureParentsTree
<1>3. Grown(t, u, Ancestors(p) \cup {p})
  BY <1>2 DEF Grown
<1>4. CASE o = Failed(u) \/ (o = Done(u) /\ u[p] # None)
  <2>1. p \notin Ancestors(p)
    BY DEF Ancestors, IsStrictPrefix
  <2>2. u[p] = t[p]
    BY <1>2, <2>1 DEF Grown
  <2> QED
    BY <1>2, <1>3, <1>4, <2>2 DEF Failed, Done
<1>5. CASE o = Done([u EXCEPT ![p] = Dir]) /\ u[p] = None /\ HasParent(u, p)
  <2>1. PICK v : v = [u EXCEPT ![p] = Dir]
    OBVIOUS
  <2>2. v \in Trees
    BY <1>2, <1>5, <2>1, AddTree
  <2>3. \A q \in Paths : v[q] = IF q = p THEN Dir ELSE u[q]
    BY <1>2, <2>1, TreeType
  <2>4. t[p] = None
    BY <1>2, <1>5 DEF Grown
  <2>5. Grown(t, v, Ancestors(p) \cup {p})
    BY <1>2, <2>3, <2>4 DEF Grown
  <2>6. v[p] = Dir
    BY <2>3
  <2>7. o.tree = v
    BY <1>5, <2>1 DEF Done
  <2> QED
    BY <2>2, <2>4, <2>5, <2>6, <2>7
<1> QED
  BY <1>1, <1>4, <1>5

(* write: only the file changes, and a success is whole.                   *)
LEMMA WriteDoes ==
  ASSUME NEW t \in Trees, NEW p \in Paths, NEW c \in Contents,
         NEW o \in Write(t, p, c)
  PROVE  /\ o.tree \in Trees
         /\ \A q \in Paths \ {p} :
              \/ o.tree[q] = t[q]
              \/ q \in Ancestors(p) /\ t[q] = None /\ o.tree[q] = Dir
         /\ o.ok => o.tree[p] = c
<1>1. PICK u \in EnsureParents(t, p) :
        \/ o = Failed(u)
        \/ /\ HasParent(u, p) /\ u[p] # Dir
           /\ \/ o = Done([u EXCEPT ![p] = c])
              \/ o = Failed([u EXCEPT ![p] = Cut])
  BY DEF Write
<1>2. u \in Trees /\ Grown(t, u, Ancestors(p))
  BY EnsureParentsTree
<1>3. CASE o = Failed(u)
  BY <1>2, <1>3 DEF Failed, Grown
<1>4. ASSUME HasParent(u, p), u[p] # Dir,
             NEW d \in Contents, NEW v, v = [u EXCEPT ![p] = d]
      PROVE  /\ v \in Trees /\ v[p] = d
             /\ \A q \in Paths \ {p} :
                  \/ v[q] = t[q]
                  \/ q \in Ancestors(p) /\ t[q] = None /\ v[q] = Dir
  <2>1. v \in Trees
    BY <1>2, <1>4, AddTree
  <2>2. \A q \in Paths : v[q] = IF q = p THEN d ELSE u[q]
    BY <1>2, <1>4, TreeType
  <2> QED
    BY <1>2, <2>1, <2>2 DEF Grown
<1>5. CASE /\ HasParent(u, p) /\ u[p] # Dir
           /\ \/ o = Done([u EXCEPT ![p] = c])
              \/ o = Failed([u EXCEPT ![p] = Cut])
  BY <1>4, <1>5 DEF Done, Failed
<1> QED
  BY <1>1, <1>3, <1>5

(* t without some of what is at p or below it.                             *)
Shrunk(t, u, p) ==
  \A q \in Paths : u[q] = t[q] \/ (q \in Descendants(p) /\ u[q] = None)

(* remove and rmdir: only what is below goes, a success takes it all.      *)
LEMMA RemoveDoes ==
  ASSUME NEW t \in Trees, NEW p \in Paths \ {<<>>},
         NEW o \in IF t[p] = Dir THEN RemoveDirRecursive(t, p)
                                 ELSE RemoveFile(t, p)
  PROVE  /\ o.tree \in Trees
         /\ Shrunk(t, o.tree, p)
         /\ o.ok => o.tree = Without(t, Descendants(p))
<1>1. PICK gone :
        /\ gone = {} \/ o.tree = Without(t, gone)
        /\ gone = {} => o.tree = t
        /\ gone \subseteq Descendants(p)
        /\ \A q \in Paths : q \in gone => Below(t, q) \subseteq gone
        /\ o.ok => o.tree = Without(t, Descendants(p))
  <2>1. CASE t[p] = Dir
    <3>1. \/ \E s \in SUBSET Below(t, p) :
               /\ \A q \in s : Below(t, q) \subseteq s
               /\ o = Failed(Without(t, s))
          \/ o = Failed(t)
          \/ o = Done(Without(t, Descendants(p)))
      BY <2>1 DEF RemoveDirRecursive
    <3>2. CASE \E s \in SUBSET Below(t, p) :
                 /\ \A q \in s : Below(t, q) \subseteq s
                 /\ o = Failed(Without(t, s))
      <4>1. PICK s \in SUBSET Below(t, p) :
              /\ \A q \in s : Below(t, q) \subseteq s
              /\ o = Failed(Without(t, s))
        BY <3>2
      <4>2. Without(t, {}) = t
        BY TreeType DEF Without
      <4> WITNESS s
      <4> QED
        BY <4>1, <4>2 DEF Failed, Below
    <3>3. CASE o = Failed(t)
      <4> WITNESS {}
      <4> QED
        BY <3>3 DEF Failed
    <3>4. CASE o = Done(Without(t, Descendants(p)))
      <4>1. \A q \in Descendants(p) : Below(t, q) \subseteq Descendants(p)
        BY PathOrder DEF Below, Descendants
      <4>2. p \in Descendants(p)
        BY PathOrder DEF Descendants
      <4> WITNESS Descendants(p)
      <4> QED
        BY <3>4, <4>1, <4>2 DEF Done
    <3> QED
      BY <3>1, <3>2, <3>3, <3>4
  <2>2. CASE t[p] # Dir
    <3>1. \/ o = Failed(t)
          \/ o = Done(Without(t, {p})) /\ Below(t, p) = {p}
      BY <2>2 DEF RemoveFile
    <3>2. CASE o = Failed(t)
      <4> WITNESS {}
      <4> QED
        BY <3>2 DEF Failed
    <3>3. CASE o = Done(Without(t, {p})) /\ Below(t, p) = {p}
      <4>1. \A q \in Descendants(p) : q # p => t[q] = None
        BY <3>3 DEF Below
      <4>2. p \in Descendants(p)
        BY PathOrder DEF Descendants
      <4>3. Without(t, {p}) = Without(t, Descendants(p))
        BY <4>1, <4>2 DEF Without
      <4> WITNESS {p}
      <4> QED
        BY <3>3, <4>2, <4>3 DEF Done
    <3> QED
      BY <3>1, <3>2, <3>3
  <2> QED
    BY <2>1, <2>2
<1>2. ~IsPrefix(p, <<>>)
  BY PathOrder
<1>3. <<>> \notin gone
  BY <1>1, <1>2 DEF Descendants
<1>4. o.tree \in Trees
  BY <1>1, <1>3, RemoveTree
<1>5. Shrunk(t, o.tree, p)
  BY <1>1 DEF Shrunk, Without
<1> QED
  BY <1>1, <1>4, <1>5


(* v is t with what was at source at dest, and nothing else lost.          *)
Renamed(t, v, source, dest) ==
  /\ \A q \in Paths \ (Descendants(source) \cup Descendants(dest)) :
       v[q] = t[q] \/ (q \in Ancestors(dest) /\ t[q] = None /\ v[q] = Dir)
  /\ \A q \in Descendants(source) :
       v[q] = None /\ q \notin Descendants(dest)
  /\ \A q \in Below(t, source) :
       /\ At(dest, source, q) \in Paths
       /\ v[At(dest, source, q)] = t[q]

(* What an image shows where.                                              *)
Shows(v, t, w, nodes, cut, source, dest) ==
  /\ \A q \in Paths \ Descendants(dest) : v[q] = w[q]
  /\ \A q \in nodes \ cut :
       q \in Paths /\ IsPrefix(source, q) /\ At(dest, source, q) \in Paths
       => v[At(dest, source, q)] = t[q]

LEMMA ImageShows ==
  ASSUME NEW t, NEW w, NEW nodes, NEW cut, NEW source \in Paths,
         NEW dest \in Paths, NEW v,
         v = Image(t, w, nodes, cut, source, dest)
  PROVE  Shows(v, t, w, nodes, cut, source, dest)
<1>1. \A q \in Paths \ Descendants(dest) : v[q] = w[q]
  BY DEF Image, Descendants
<1>2. ASSUME NEW q \in nodes \ cut, q \in Paths, IsPrefix(source, q),
             At(dest, source, q) \in Paths
      PROVE  v[At(dest, source, q)] = t[q]
  <2>1. PICK x : x = At(dest, source, q)
    OBVIOUS
  <2>2. x \in Paths /\ IsPrefix(dest, x) /\ At(source, dest, x) = q
    BY <1>2, <2>1, PathMoves
  <2>3. v[x] = t[q]
    BY <2>2 DEF Image
  <2> QED
    BY <2>1, <2>3
<1> QED
  BY <1>1, <1>2 DEF Shows

(* rename: all of the source, or nothing.                                  *)
LEMMA RenameDoes ==
  ASSUME NEW t \in Trees, NEW source \in Paths, NEW dest \in Paths \ {<<>>},
         NEW o \in Rename(t, source, dest)
  PROVE  /\ o.tree \in Trees
         /\ \/ /\ Grown(t, o.tree, Ancestors(dest))
               /\ o.ok => source = dest
            \/ Renamed(t, o.tree, source, dest)
<1>1. PICK u \in EnsureParents(t, dest) :
        \/ o = Failed(u)
        \/ o = Done(u) /\ source = dest
        \/ /\ HasParent(u, dest) /\ u[source] # None
           /\ ~IsPrefix(source, dest) /\ ~IsPrefix(dest, source)
           /\ Fits(Below(u, source), source, dest)
           /\ o = Done(Copied(u, Without(u, Descendants(source)
                                              \cup Descendants(dest)),
                              Below(u, source), source, dest))
  BY DEF Rename
<1>2. u \in Trees /\ Grown(t, u, Ancestors(dest))
  BY EnsureParentsTree
<1>3. CASE o = Failed(u) \/ (o = Done(u) /\ source = dest)
  BY <1>2, <1>3 DEF Failed, Done
<1>4. CASE /\ HasParent(u, dest) /\ u[source] # None
           /\ ~IsPrefix(source, dest) /\ ~IsPrefix(dest, source)
           /\ Fits(Below(u, source), source, dest)
           /\ o = Done(Copied(u, Without(u, Descendants(source)
                                              \cup Descendants(dest)),
                              Below(u, source), source, dest))
  <2> DEFINE gone == Descendants(source) \cup Descendants(dest)
             w == Without(u, gone)
             v == o.tree
  <2>1. v = Image(u, w, Below(u, source), {}, source, dest)
    BY <1>4 DEF Done, Copied, Image, At
  <2>2. \A q \in Paths : w[q] = IF q \in gone THEN None ELSE u[q]
    BY DEF Without
  <2>3. source # <<>>
    BY <1>4, PathOrder
  <2>4. \A q \in Paths : q \in gone => Below(u, q) \subseteq gone
    BY PathOrder DEF Below, Descendants
  <2>5. <<>> \notin gone
    BY <2>3, PathOrder DEF Descendants
  <2>6. w \in Trees
    BY <1>2, <2>4, <2>5, RemoveTree
  <2>7. Branch(u, Below(u, source), source)
    <3>1. ASSUME NEW q \in Below(u, source), NEW x \in Paths,
                 IsPrefix(source, x), IsPrefix(x, q)
          PROVE  x \in Below(u, source)
      BY <1>2, <3>1, Upward DEF Below, Descendants
    <3> QED
      BY <3>1 DEF Branch, Below, Descendants
  <2>8. HasParent(w, dest)
    <3>1. ASSUME NEW a \in Ancestors(dest)
          PROVE  w[a] = Dir
      <4>1. a \in Paths /\ IsPrefix(a, dest) /\ a # dest
        BY DEF Ancestors, IsStrictPrefix
      <4>2. ~IsPrefix(source, a) /\ ~IsPrefix(dest, a)
        BY <1>4, <4>1, PathOrder
      <4>3. u[a] = Dir
        BY <1>4 DEF HasParent
      <4> QED
        BY <2>2, <4>1, <4>2, <4>3 DEF Descendants
    <3> QED
      BY <3>1 DEF HasParent
  <2>9. \A q \in Descendants(dest) : w[q] = None
    BY <2>2 DEF Descendants
  <2> HIDE DEF w, v
  <2>10. v \in Trees
    <3>1. Image(u, w, Below(u, source), {}, source, dest) \in Trees
      BY <1>2, <2>6, <2>7, <2>8, <2>9, ImageTree
    <3> QED
      BY <2>1, <3>1
  <2>11. Shows(v, u, w, Below(u, source), {}, source, dest)
    BY <2>1, ImageShows
  <2>12. \A q \in Descendants(source) : q \notin Descendants(dest)
    BY <1>4, PathOrder DEF Descendants
  <2>13. \A q \in Descendants(source) : q \notin Ancestors(dest)
    BY <1>4, PathOrder DEF Descendants, Ancestors, IsStrictPrefix
  <2>14. \A q \in Descendants(source) : u[q] = t[q]
    BY <1>2, <2>13 DEF Grown, Descendants
  <2>15. \A q \in Below(t, source) : q \in Below(u, source)
    BY <2>14 DEF Below
  <2>16. ASSUME NEW q \in Below(t, source)
         PROVE  /\ At(dest, source, q) \in Paths
                /\ v[At(dest, source, q)] = t[q]
    <3>1. q \in Descendants(source) /\ q \in Paths /\ IsPrefix(source, q)
      BY DEF Below, Descendants
    <3>2. At(dest, source, q) \in Paths
      BY <1>4, <2>15 DEF Fits, At
    <3> QED
      BY <2>11, <2>14, <2>15, <3>1, <3>2 DEF Shows
  <2>17. \A q \in Paths \ (Descendants(source) \cup Descendants(dest)) :
           v[q] = t[q] \/ (q \in Ancestors(dest) /\ t[q] = None /\ v[q] = Dir)
    BY <1>2, <2>2, <2>11 DEF Grown, Shows
  <2>18. \A q \in Descendants(source) : v[q] = None
    BY <2>2, <2>11, <2>12 DEF Descendants, Shows
  <2>19. Renamed(t, v, source, dest)
    BY <2>12, <2>16, <2>17, <2>18 DEF Renamed
  <2> QED
    BY <2>10, <2>19 DEF v
<1> QED
  BY <1>1, <1>3, <1>4

(* v is t with these nodes of source at dest, those in cut cut.            *)
CopyMade(t, v, nodes, cut, source, dest) ==
  /\ v \in Trees
  /\ \A q \in Paths \ Descendants(dest) :
       v[q] = t[q] \/ (q \in Ancestors(dest) /\ t[q] = None /\ v[q] = Dir)
  /\ \A q \in nodes \ cut : v[At(dest, source, q)] = t[q]
  /\ \A q \in Descendants(dest) :
       \/ v[q] = None
       \/ /\ At(source, dest, q) \in nodes
          /\ v[q] \in {t[At(source, dest, q)], Cut}
  /\ source \in nodes => v[dest] # None

(* A copy leaves a tree, and what was copied.                              *)
LEMMA CopyDoes ==
  ASSUME tree \in Trees, NEW source \in Paths, NEW dest \in Paths \ {<<>>},
         NEW s, NEW cut, Branch(tree, s, source), Fits(s, source, dest),
         \A q \in cut : q \in s /\ tree[q] \in Contents,
         \A q \in Descendants(dest) : tree[q] = None,
         NEW v \in CopyResults(tree, source, dest, s, cut)
  PROVE  CopyMade(tree, v, s, cut, source, dest)
<1>1. PICK u \in EnsureParents(tree, dest) :
        /\ s # {} => HasParent(u, dest)
        /\ v = [q \in Paths |->
                  IF IsPrefix(dest, q) /\ source \o Rest(dest, q) \in cut
                  THEN Cut ELSE Copied(tree, u, s, source, dest)[q]]
  BY DEF CopyResults
<1>2. u \in Trees /\ Grown(tree, u, Ancestors(dest))
  BY EnsureParentsTree
<1>3. v = Image(tree, u, s, cut, source, dest)
  BY <1>1 DEF Image, Copied, At
<1>4. \A q \in Descendants(dest) : u[q] = None
  <2>1. \A q \in Descendants(dest) : q \in Paths /\ q \notin Ancestors(dest)
    BY PathOrder DEF Descendants, Ancestors, IsStrictPrefix
  <2> QED
    BY <1>2, <2>1 DEF Grown
<1>5. Image(tree, u, s, cut, source, dest) \in Trees
  BY <1>1, <1>2, <1>4, ImageTree
<1>6. Shows(v, tree, u, s, cut, source, dest)
  BY <1>3, ImageShows
<1>7. \A q \in s : /\ q \in Paths /\ IsPrefix(source, q)
                   /\ At(dest, source, q) \in Paths
  BY DEF Branch, Fits, At
<1>8. \A q \in Paths \ Descendants(dest) :
        \/ v[q] = tree[q]
        \/ q \in Ancestors(dest) /\ tree[q] = None /\ v[q] = Dir
  BY <1>2, <1>6 DEF Grown, Shows
<1>9. \A q \in s \ cut : v[At(dest, source, q)] = tree[q]
  BY <1>6, <1>7 DEF Shows
<1>10. \A q \in Descendants(dest) :
         \/ v[q] = None
         \/ /\ At(source, dest, q) \in s
            /\ v[q] \in {tree[At(source, dest, q)], Cut}
  BY <1>3, <1>4 DEF Image, Descendants
<1>11. ASSUME source \in s PROVE v[dest] # None
  <2>1. IsPrefix(dest, dest)
    BY PrefixSelf
  <2>2. source \in Seq(Names) /\ dest \in Seq(Names)
    OBVIOUS
  <2>3. Rest(dest, dest) = <<>>
    BY <2>2 DEF Rest
  <2>4. At(source, dest, dest) = source
    BY <2>2, <2>3, ConcatEmptySeq DEF At
  <2>5. tree[source] # None
    BY <1>11 DEF Branch
  <2>6. v[dest] \in {Cut, tree[source]}
    BY <1>3, <1>11, <2>1, <2>4 DEF Image
  <2> QED
    BY <2>5, <2>6, SimStorageAssumption
<1> QED
  BY <1>3, <1>5, <1>8, <1>9, <1>10, <1>11 DEF CopyMade


-----------------------------------------------------------------------------
(* Nothing else is lost, and answers are true.                             *)

(* How far the worker has got with the request, and what of the card may   *)
(* differ from what the request found.                                     *)
Stage ==
  /\ pc \in {"off", "accept", "receive"} => request = NoRequest
  /\ pc \in {"off", "accept", "receive", "clear", "rename"}
            \cup Reading \cup Changing => tree = old
  /\ pc \in OnePath \cup TwoPaths => request.verb = pc
  /\ pc = "clear" => request.verb \in {"MOVE", "COPY"} /\ request.overwrite
  /\ pc \in {"MOVE", "COPY"} =>
       /\ tree = Without(old, Descendants(request.dest))
       /\ request.overwrite \/ old[request.dest] = None
  /\ pc = "store" => /\ request.verb = "upload"
                     /\ Grown(old, tree, Ancestors(request.dest))
  /\ pc \in Reading => ~IsProtectedPath(request.source)
  /\ pc # "reply" => body = NoBody
  /\ pc # "store" => ~upload.inProgress

CardInv ==
  /\ TypeOK /\ Checked /\ Stage
  /\ tree \in Trees /\ old \in Trees
  /\ NothingElseLost /\ AnswersAreTrue

(* A request that is served is one of Requests.                            *)
LEMMA RequestIs ==
  ASSUME TypeOK, request.verb # "none"
  PROVE  /\ request \in Requests
         /\ request.source \in Paths /\ request.dest \in Paths
         /\ request.content \in Sent /\ request.content \in Contents
         /\ request.content # Cut
         /\ request.overwrite \in BOOLEAN
         /\ request.verb \in OnePath => request.source = request.dest
         /\ request.verb \notin {"MOVE", "COPY"} => request.overwrite
<1>1. request \in Requests
  BY DEF TypeOK, NoRequest
<1> QED
  BY <1>1 DEF Requests

(* A call has been made and the answer says how it went: what is left to   *)
(* show is that a success is one.                                          *)
LEMMA Answered ==
  ASSUME CardInv, pc \notin {"reply", "store"}, pc' = "reply",
         UNCHANGED <<request, body, old, upload>>,
         request.verb # "upload",
         code' \in {200, 500},
         code' = 200 =>
           Fulfilled(request)' \/ (misread' /\ DoneInPart(request)')
  PROVE  AnswersAreTrue' /\ Stage'
<1>1. body = NoBody /\ ~upload.inProgress
  BY DEF CardInv, Stage
<1>2. DOMAIN body' = {}
  BY <1>1 DEF NoBody
<1>3. AnswersAreTrue'
  BY <1>1, <1>2 DEF AnswersAreTrue
<1>4. Stage'
  BY <1>1 DEF Stage, Reading, Changing, OnePath, TwoPaths
<1> QED
  BY <1>3, <1>4

(* What NothingElseLost says of a request r that has made u of the card t. *)
Lossless(r, t, u) ==
  /\ \A p \in Paths \ Touched(r) : t[p] # None => u[p] = t[p]
  /\ \A p \in Paths : t[p] = None /\ u[p] # None =>
       p \in Descendants(r.dest) \cup Ancestors(r.dest)
  /\ r.verb \in {"rename", "MOVE"} =>
       \A p \in Descendants(r.source) \ Descendants(r.dest) :
         t[p] \in Contents =>
         \E q \in {p, r.dest \o Rest(r.source, p)} \cap Paths : u[q] = t[p]

LEMMA LosslessIs ==
  /\ NothingElseLost <=> (pc = "reply" => Lossless(request, old, tree))
  /\ NothingElseLost' <=> (pc' = "reply" => Lossless(request', old', tree'))
  BY DEF NothingElseLost, Lossless

(* An entry that is kept is one of the two places.                         *)
LEMMA KeptIsFound ==
  ASSUME NEW source, NEW dest, NEW t, NEW u, NEW p \in Paths, u[p] = t[p]
  PROVE  \E q \in {p, dest \o Rest(source, p)} \cap Paths : u[q] = t[p]
<1>1. p \in {p, dest \o Rest(source, p)} \cap Paths
  OBVIOUS
<1> QED
  BY <1>1

(* Only new directories on the way to the destination, or it.              *)
LEMMA GrownLoses ==
  ASSUME NEW r, r.dest \in Paths, NEW t, NEW u,
         Grown(t, u, Ancestors(r.dest) \cup {r.dest})
  PROVE  Lossless(r, t, u)
<1>1. \A p \in Paths : t[p] # None => u[p] = t[p]
  BY DEF Grown
<1>2. r.dest \in Descendants(r.dest)
  BY PathOrder DEF Descendants
<1>3. \A p \in Paths : t[p] = None /\ u[p] # None =>
        p \in Descendants(r.dest) \cup Ancestors(r.dest)
  BY <1>2 DEF Grown
<1>4. ASSUME NEW p \in Descendants(r.source), t[p] \in Contents
      PROVE  \E q \in {p, r.dest \o Rest(r.source, p)} \cap Paths :
               u[q] = t[p]
  <2>1. p \in Paths /\ t[p] # None
    BY <1>4 DEF Descendants
  <2> QED
    BY <1>1, <2>1, KeptIsFound
<1> QED
  BY <1>1, <1>3, <1>4 DEF Lossless

(* Only something that the request may remove.                             *)
LEMMA ShrunkLoses ==
  ASSUME NEW r, NEW t, NEW u, NEW p \in Paths, Shrunk(t, u, p),
         Descendants(p) \subseteq Touched(r),
         r.verb \in {"rename", "MOVE"} => p = r.dest
  PROVE  Lossless(r, t, u)
<1>1. \A q \in Paths \ Touched(r) : t[q] # None => u[q] = t[q]
  BY DEF Shrunk
<1>2. \A q \in Paths : ~(t[q] = None /\ u[q] # None)
  BY DEF Shrunk
<1>3. ASSUME r.verb \in {"rename", "MOVE"},
             NEW q \in Descendants(r.source) \ Descendants(r.dest),
             t[q] \in Contents
      PROVE  \E x \in {q, r.dest \o Rest(r.source, q)} \cap Paths :
               u[x] = t[q]
  <2>1. q \in Paths /\ u[q] = t[q]
    BY <1>3 DEF Shrunk, Descendants
  <2> QED
    BY <2>1, KeptIsFound
<1> QED
  BY <1>1, <1>2, <1>3 DEF Lossless

(* Only the file that is written and new directories on the way to it.     *)
LEMMA WrittenLoses ==
  ASSUME NEW r, r.dest \in Paths, r.verb \in {"PUT", "upload"},
         NEW t, NEW u,
         \A q \in Paths \ {r.dest} :
           \/ u[q] = t[q]
           \/ q \in Ancestors(r.dest) /\ t[q] = None /\ u[q] = Dir
  PROVE  Lossless(r, t, u)
<1>1. Touched(r) = {r.dest}
  BY DEF Touched, TwoPaths
<1>2. r.dest \in Descendants(r.dest)
  BY PathOrder DEF Descendants
<1> QED
  BY <1>1, <1>2 DEF Lossless

(* The steps of the worker, one by one.                                    *)
LEMMA MakeDirectoryKeeps ==
  ASSUME CardInv, MakeDirectory
  PROVE  tree' \in Trees /\ Stage' /\ NothingElseLost' /\ AnswersAreTrue'
<1>1. /\ tree = old /\ request.verb = "mkdir" /\ tree \in Trees
      /\ request.dest \in Paths /\ request.source \in Paths
  <2>1. tree = old /\ request.verb = "mkdir" /\ tree \in Trees
    BY DEF CardInv, Stage, Changing, OnePath, MakeDirectory
  <2> QED
    BY <2>1, RequestIs DEF CardInv
<1>2. PICK o \in Mkdir(tree, request.dest) :
        tree' = o.tree /\ code' = IF o.ok THEN 200 ELSE 500
  BY DEF MakeDirectory, Answer
<1>3. /\ o.tree \in Trees
      /\ Grown(tree, o.tree, Ancestors(request.dest) \cup {request.dest})
  BY <1>1, <1>2, MkdirDoes, Zenon
<1>4. o.ok => o.tree[request.dest] = IF tree[request.dest] = None THEN Dir
                                     ELSE tree[request.dest]
  <2>1. ASSUME NEW p \in Paths, NEW x \in Mkdir(tree, p), x.ok
        PROVE  x.tree[p] = IF tree[p] = None THEN Dir ELSE tree[p]
    BY <1>1, <2>1, MkdirDoes
  <2> QED
    BY <1>1, <1>2, <2>1
<1>5. Lossless(request, old, tree')
  BY <1>1, <1>2, <1>3, GrownLoses, Zenon
<1>6. NothingElseLost'
  BY <1>5, LosslessIs DEF MakeDirectory
<1>7. code' = 200 => Fulfilled(request)'
  BY <1>1, <1>2, <1>4 DEF Fulfilled, MakeDirectory
<1>8. AnswersAreTrue' /\ Stage'
  BY <1>1, <1>2, <1>7, Answered DEF serverVars, MakeDirectory, Answer
<1> QED
  BY <1>2, <1>3, <1>6, <1>8

LEMMA DeleteKeeps ==
  ASSUME CardInv, Delete
  PROVE  tree' \in Trees /\ Stage' /\ NothingElseLost' /\ AnswersAreTrue'
<1> USE DEF Delete, Answer
<1>1. tree = old /\ request.verb = "delete" /\ tree \in Trees
  BY DEF CardInv, Stage, Changing, OnePath
<1>2. /\ request.dest \in Paths /\ request.source \in Paths
      /\ request.source # <<>>
  BY <1>1, RequestIs DEF CardInv, Checked, Working, Changing, Free
<1>3. PICK o \in RemoveEntry(request.source) :
        tree' = o.tree /\ code' = IF o.ok THEN 200 ELSE 500
  OBVIOUS
<1>4. /\ o.tree \in Trees /\ Shrunk(tree, o.tree, request.source)
      /\ o.ok => o.tree = Without(tree, Descendants(request.source))
  BY <1>1, <1>2, <1>3, RemoveDoes DEF RemoveEntry
<1>5. Descendants(request.source) \subseteq Touched(request)
  BY <1>1 DEF Touched
<1>6. Lossless(request, old, tree')
  BY <1>1, <1>2, <1>3, <1>4, <1>5, ShrunkLoses
<1>7. NothingElseLost'
  BY <1>6, LosslessIs
<1>8. code' = 200 => Fulfilled(request)'
  BY <1>1, <1>3, <1>4 DEF Fulfilled, Below, Without, Descendants
<1>9. AnswersAreTrue' /\ Stage'
  BY <1>1, <1>3, <1>8, Answered DEF serverVars
<1> QED
  BY <1>3, <1>4, <1>7, <1>9

LEMMA PutKeeps ==
  ASSUME CardInv, Put
  PROVE  tree' \in Trees /\ Stage' /\ NothingElseLost' /\ AnswersAreTrue'
<1> USE DEF Put, Answer
<1>1. tree = old /\ request.verb = "PUT" /\ tree \in Trees
  BY DEF CardInv, Stage, Changing, OnePath
<1>2. request.dest \in Paths /\ request.content \in Contents
  BY <1>1, RequestIs DEF CardInv
<1>3. PICK o \in Write(tree, request.dest, request.content) :
        tree' = o.tree /\ code' = IF o.ok THEN 200 ELSE 500
  OBVIOUS
<1>4. /\ o.tree \in Trees
      /\ \A q \in Paths \ {request.dest} :
           \/ o.tree[q] = tree[q]
           \/ /\ q \in Ancestors(request.dest) /\ tree[q] = None
              /\ o.tree[q] = Dir
      /\ o.ok => o.tree[request.dest] = request.content
  BY <1>1, <1>2, WriteDoes
<1>5. Lossless(request, old, tree')
  BY <1>1, <1>2, <1>3, <1>4, WrittenLoses
<1>6. NothingElseLost'
  BY <1>5, LosslessIs
<1>7. code' = 200 => Fulfilled(request)'
  BY <1>1, <1>3, <1>4 DEF Fulfilled
<1>8. AnswersAreTrue' /\ Stage'
  BY <1>1, <1>3, <1>7, Answered DEF serverVars
<1> QED
  BY <1>3, <1>4, <1>6, <1>8

(* The first half of an upload only makes directories.                     *)
LEMMA UploadStartKeeps ==
  ASSUME CardInv, UploadStart
  PROVE  tree' \in Trees /\ Stage' /\ NothingElseLost' /\ AnswersAreTrue'
<1> USE DEF UploadStart
<1> DEFINE d == Parent(request.dest)
<1>1. tree = old /\ request.verb = "upload" /\ tree \in Trees
  BY DEF CardInv, Stage, Changing, OnePath
<1>2. request.dest \in Paths \ {<<>>}
  BY <1>1, RequestIs DEF CardInv, Checked, Working, Changing, Free
<1>3. /\ d \in Paths
      /\ Ancestors(d) \cup {d} \subseteq Ancestors(request.dest)
  BY <1>2, ParentAbove
<1>4. PICK o \in Mkdir(tree, d) \cup {Done(tree)} : tree' = o.tree
  OBVIOUS
<1>5. o.tree \in Trees /\ Grown(tree, o.tree, Ancestors(d) \cup {d})
  <2>1. CASE o \in Mkdir(tree, d)
    BY <1>1, <1>3, <2>1, MkdirDoes, Zenon
  <2>2. CASE o = Done(tree)
    BY <1>1, <2>2 DEF Done, Grown
  <2> QED
    BY <1>4, <2>1, <2>2
<1>6. Grown(old, tree, Ancestors(request.dest))'
  BY <1>1, <1>3, <1>4, <1>5 DEF Grown, Ancestors
<1>7. Stage'
  <2>1. body = NoBody
    BY DEF CardInv, Stage
  <2> QED
    BY <1>1, <1>6, <2>1
       DEF Stage, Reading, Changing, OnePath, TwoPaths
<1>8. NothingElseLost' /\ AnswersAreTrue'
  BY DEF NothingElseLost, AnswersAreTrue
<1> QED
  BY <1>4, <1>5, <1>7, <1>8

(* The second half writes the file and says how that went.                 *)
LEMMA UploadDoneKeeps ==
  ASSUME CardInv, UploadDone
  PROVE  tree' \in Trees /\ Stage' /\ NothingElseLost' /\ AnswersAreTrue'
<1> USE DEF UploadDone
<1>1. /\ request.verb = "upload" /\ tree \in Trees /\ body = NoBody
      /\ Grown(old, tree, Ancestors(request.dest))
  BY DEF CardInv, Stage
<1>2. request.dest \in Paths /\ request.content \in Contents
  BY <1>1, RequestIs DEF CardInv
<1>3. PICK o \in Write(tree, request.dest, request.content) :
        /\ tree' = o.tree
        /\ code' = IF o.ok THEN 200 ELSE 500
        /\ upload' = IF o.ok THEN [NoUpload EXCEPT !.name = request.dest]
                     ELSE NoUpload
  OBVIOUS
<1>4. /\ o.tree \in Trees
      /\ \A q \in Paths \ {request.dest} :
           \/ o.tree[q] = tree[q]
           \/ /\ q \in Ancestors(request.dest) /\ tree[q] = None
              /\ o.tree[q] = Dir
      /\ o.ok => o.tree[request.dest] = request.content
  BY <1>1, <1>2, WriteDoes
<1>5. \A q \in Paths \ {request.dest} :
        \/ tree'[q] = old[q]
        \/ /\ q \in Ancestors(request.dest) /\ old[q] = None
           /\ tree'[q] = Dir
  BY <1>1, <1>3, <1>4 DEF Grown
<1>6. Lossless(request, old, tree')
  BY <1>1, <1>2, <1>5, WrittenLoses
<1>7. NothingElseLost'
  BY <1>6, LosslessIs
<1>8. /\ upload'.inProgress = FALSE
      /\ upload'.name = IF o.ok THEN request.dest ELSE <<>>
  BY <1>3 DEF NoUpload
<1>9. code' = 200 => Fulfilled(request)'
  BY <1>1, <1>3, <1>4 DEF Fulfilled
<1>10. DOMAIN body' = {}
  BY <1>1 DEF NoBody
<1>11. AnswersAreTrue'
  BY <1>1, <1>3, <1>8, <1>9, <1>10 DEF AnswersAreTrue
<1>12. Stage'
  BY <1>8 DEF Stage, Reading, Changing, OnePath, TwoPaths
<1> QED
  BY <1>3, <1>4, <1>7, <1>11, <1>12

(* Clearing the destination removes nothing else.                          *)
LEMMA ClearKeeps ==
  ASSUME CardInv, ClearDestination
  PROVE  tree' \in Trees /\ Stage' /\ NothingElseLost' /\ AnswersAreTrue'
<1> USE DEF ClearDestination
<1>1. /\ tree = old /\ tree \in Trees /\ body = NoBody
      /\ request.verb \in {"MOVE", "COPY"} /\ request.overwrite
      /\ ~upload.inProgress
  BY DEF CardInv, Stage
<1>2. request.dest \in Paths \ {<<>>} /\ request.source \in Paths
  BY <1>1, RequestIs DEF CardInv, Checked, Working, Free
<1>3. PICK o \in RemoveEntry(request.dest) :
        /\ tree' = o.tree
        /\ code' = IF o.ok THEN 0 ELSE 500
        /\ pc' = IF o.ok THEN request.verb ELSE "reply"
  OBVIOUS
<1>4. /\ o.tree \in Trees /\ Shrunk(tree, o.tree, request.dest)
      /\ o.ok => o.tree = Without(tree, Descendants(request.dest))
  BY <1>1, <1>2, <1>3, RemoveDoes DEF RemoveEntry
<1>5. CASE o.ok
  <2>1. pc' = request.verb /\ tree' = Without(old, Descendants(request.dest))
    BY <1>1, <1>3, <1>4, <1>5
  <2>2. Stage'
    <3>1. (tree = Without(old, Descendants(request.dest)))'
      BY <2>1 DEF Without, Descendants
    <3>2. pc' \in {"MOVE", "COPY"} /\ pc' = request'.verb
      BY <1>1, <2>1
    <3>3. request'.overwrite /\ body' = NoBody /\ ~upload'.inProgress
      BY <1>1 DEF serverVars
    <3> HIDE DEF ClearDestination
    <3> QED
      BY <3>1, <3>2, <3>3 DEF Stage, Reading, Changing, OnePath, TwoPaths
  <2>3. NothingElseLost' /\ AnswersAreTrue'
    BY <1>1, <2>1 DEF NothingElseLost, AnswersAreTrue
  <2> QED
    BY <1>3, <1>4, <2>2, <2>3
<1>6. CASE ~o.ok
  <2>1. pc' = "reply" /\ code' = 500
    BY <1>3, <1>6
  <2>2. Descendants(request.dest) \subseteq Touched(request)
    BY <1>1 DEF Touched, TwoPaths
  <2>3. Lossless(request, old, tree')
    BY <1>1, <1>2, <1>3, <1>4, <2>2, ShrunkLoses
  <2>4. NothingElseLost'
    BY <2>3, LosslessIs
  <2>5. AnswersAreTrue' /\ Stage'
    BY <1>1, <2>1, Answered DEF serverVars
  <2> QED
    BY <1>3, <1>4, <2>4, <2>5
<1> QED
  BY <1>5, <1>6


(* Before a move or a copy: the destination is gone if it may be.          *)
LEMMA Ready ==
  ASSUME CardInv, pc \in TwoPaths
  PROVE  /\ request.verb = pc /\ tree \in Trees /\ body = NoBody
         /\ ~upload.inProgress
         /\ request.source \in Paths \ {<<>>}
         /\ request.dest \in Paths \ {<<>>}
         /\ \A q \in Paths \ Descendants(request.dest) : tree[q] = old[q]
         /\ \A q \in Descendants(request.dest) :
              tree[q] = old[q] \/ tree[q] = None
         /\ \/ Descendants(request.dest) \subseteq Touched(request)
            \/ \A q \in Descendants(request.dest) : old[q] = None
<1>1. /\ request.verb = pc /\ tree \in Trees /\ old \in Trees
      /\ body = NoBody /\ ~upload.inProgress
  BY DEF CardInv, Stage, TwoPaths
<1>2. request.verb # "none"
  BY <1>1 DEF TwoPaths
<1>3. /\ request.source \in Paths \ {<<>>}
      /\ request.dest \in Paths \ {<<>>}
  BY DEF CardInv, Checked, Working, Free
<1>4. \/ tree = old /\ request.overwrite
      \/ /\ tree = Without(old, Descendants(request.dest))
         /\ request.overwrite \/ old[request.dest] = None
  BY <1>1, <1>2, RequestIs DEF CardInv, Stage, TwoPaths
<1>5. \A q \in Paths : tree[q] = old[q]
                       \/ (q \in Descendants(request.dest) /\ tree[q] = None)
  BY <1>4 DEF Without
<1>6. CASE request.overwrite
  <2>1. Descendants(request.dest) \subseteq Touched(request)
    BY <1>1, <1>6 DEF Touched
  <2> QED
    BY <1>1, <1>3, <1>5, <2>1 DEF Descendants
<1>7. CASE ~request.overwrite
  <2>1. old[request.dest] = None
    BY <1>4, <1>7
  <2>2. \A q \in Descendants(request.dest) : old[q] = None
    BY <1>1, <1>3, <2>1, Upward DEF Descendants
  <2> QED
    BY <1>1, <1>3, <1>5, <2>2 DEF Descendants
<1> QED
  BY <1>6, <1>7

(* When everything outside the destination is kept or removed from the     *)
(* source, nothing is lost or appears that should not.                     *)
LEMMA MoveLoses ==
  ASSUME NEW r, NEW t, NEW u,
         \/ Descendants(r.dest) \subseteq Touched(r)
         \/ \A q \in Descendants(r.dest) : t[q] = None,
         \A q \in Paths \ Descendants(r.dest) :
           \/ u[q] = t[q]
           \/ q \in Ancestors(r.dest) /\ t[q] = None
           \/ q \in Descendants(r.source) \cap Touched(r) /\ u[q] = None,
         r.verb \in {"rename", "MOVE"} =>
           \A p \in Descendants(r.source) \ Descendants(r.dest) :
             t[p] \in Contents =>
             \E q \in {p, r.dest \o Rest(r.source, p)} \cap Paths :
               u[q] = t[p]
  PROVE  Lossless(r, t, u)
<1>1. ASSUME NEW p \in Paths \ Touched(r), t[p] # None
      PROVE  u[p] = t[p]
  <2>1. p \notin Descendants(r.dest)
    BY <1>1
  <2> QED
    BY <1>1, <2>1
<1>2. \A p \in Paths : t[p] = None /\ u[p] # None =>
        p \in Descendants(r.dest) \cup Ancestors(r.dest)
  OBVIOUS
<1> QED
  BY <1>1, <1>2 DEF Lossless

(* A rename, a move or the end of one.                                     *)
LEMMA RenameKeeps ==
  ASSUME CardInv, RenameEntry
  PROVE  tree' \in Trees /\ Stage' /\ NothingElseLost' /\ AnswersAreTrue'
<1> DEFINE source == request.source
           dest == request.dest
<1>1. /\ pc \in {"rename", "MOVE"} /\ pc \in TwoPaths
      /\ UNCHANGED <<request, body, old, upload>>
  BY DEF RenameEntry, TwoPaths, serverVars
<1>2. /\ request.verb \in {"rename", "MOVE"} /\ tree \in Trees
      /\ source \in Paths \ {<<>>} /\ dest \in Paths \ {<<>>}
  BY <1>1, Ready
<1>3. /\ \A q \in Paths \ Descendants(dest) : tree[q] = old[q]
      /\ \A q \in Descendants(dest) : tree[q] = old[q] \/ tree[q] = None
      /\ \/ Descendants(dest) \subseteq Touched(request)
         \/ \A q \in Descendants(dest) : old[q] = None
  BY <1>1, Ready
<1>4. PICK o \in Rename(tree, source, dest) :
        /\ tree' = o.tree /\ code' = IF o.ok THEN 200 ELSE 500
        /\ pc' = "reply"
  BY DEF RenameEntry, Answer
<1>5. /\ o.tree \in Trees
      /\ \/ /\ Grown(tree, o.tree, Ancestors(dest))
            /\ o.ok => source = dest
         \/ Renamed(tree, o.tree, source, dest)
  BY <1>2, <1>4, RenameDoes
<1>6. Descendants(source) \subseteq Touched(request)
  BY <1>2 DEF Touched
<1> DEFINE Good == /\ Lossless(request, old, tree')
                   /\ code' = 200 => Fulfilled(request)'
<1>7. ASSUME Grown(tree, o.tree, Ancestors(dest)), o.ok => source = dest
      PROVE  Good
  <2>1. \A q \in Paths \ Descendants(dest) :
          \/ tree'[q] = old[q]
          \/ q \in Ancestors(dest) /\ old[q] = None
    BY <1>3, <1>4, <1>7 DEF Grown
  <2>2. ASSUME NEW p \in Descendants(source) \ Descendants(dest),
               old[p] \in Contents
        PROVE  \E q \in {p, dest \o Rest(source, p)} \cap Paths :
                 tree'[q] = old[p]
    <3>1. p \in Paths /\ tree'[p] = old[p]
      BY <2>1, <2>2 DEF Descendants
    <3> QED
      BY <3>1, KeptIsFound
  <2>3. Lossless(request, old, tree')
    BY <1>3, <2>1, <2>2, MoveLoses
  <2>4. code' = 200 => Fulfilled(request)'
    BY <1>1, <1>2, <1>4, <1>7 DEF Fulfilled
  <2> QED
    BY <2>3, <2>4
<1>8. ASSUME Renamed(tree, o.tree, source, dest)
      PROVE  Good
  <2>1. /\ \A q \in Paths \ (Descendants(source) \cup Descendants(dest)) :
             \/ tree'[q] = tree[q]
             \/ q \in Ancestors(dest) /\ tree[q] = None
        /\ \A q \in Descendants(source) :
             tree'[q] = None /\ q \notin Descendants(dest)
        /\ \A q \in Below(tree, source) :
             /\ At(dest, source, q) \in Paths
             /\ tree'[At(dest, source, q)] = tree[q]
    BY <1>4, <1>8 DEF Renamed
  <2>2. \A q \in Paths \ Descendants(dest) :
          \/ tree'[q] = old[q]
          \/ q \in Ancestors(dest) /\ old[q] = None
          \/ q \in Descendants(source) \cap Touched(request)
             /\ tree'[q] = None
    BY <1>3, <1>6, <2>1
  <2>3. ASSUME NEW p \in Below(old, source)
        PROVE  /\ At(dest, source, p) \in Paths
               /\ tree'[At(dest, source, p)] = old[p]
    <3>1. p \in Descendants(source) /\ p \in Paths /\ old[p] # None
      BY DEF Below, Descendants
    <3>2. tree[p] = old[p]
      BY <1>3, <2>1, <3>1
    <3>3. p \in Below(tree, source)
      BY <3>1, <3>2 DEF Below
    <3> QED
      BY <2>1, <3>2, <3>3
  <2>4. ASSUME NEW p \in Descendants(source) \ Descendants(dest),
               old[p] \in Contents
        PROVE  \E q \in {p, dest \o Rest(source, p)} \cap Paths :
                 tree'[q] = old[p]
    <3>1. p \in Below(old, source)
      BY <2>4 DEF Below
    <3>2. /\ dest \o Rest(source, p) \in Paths
          /\ tree'[dest \o Rest(source, p)] = old[p]
      BY <2>3, <3>1 DEF At
    <3>3. dest \o Rest(source, p)
            \in {p, dest \o Rest(source, p)} \cap Paths
      BY <3>2
    <3> QED
      BY <3>2, <3>3
  <2>5. Lossless(request, old, tree')
    BY <1>3, <2>2, <2>4, MoveLoses
  <2>6. Fulfilled(request)'
    <3>1. \A p \in Below(old, source) :
            tree'[dest \o Rest(source, p)] = old[p]
      BY <2>3 DEF At
    <3>2. Below(tree', source) = {}
      BY <2>1 DEF Below
    <3> QED
      BY <1>1, <1>2, <3>1, <3>2 DEF Fulfilled
  <2> QED
    BY <2>5, <2>6
<1>9. Good
  BY <1>5, <1>7, <1>8
<1>10. NothingElseLost'
  BY <1>1, <1>9, LosslessIs
<1>11. AnswersAreTrue' /\ Stage'
  BY <1>1, <1>2, <1>4, <1>9, Answered
<1> QED
  BY <1>4, <1>5, <1>10, <1>11


(* What is above an unprotected rest is unprotected.                       *)
LEMMA RestProtected ==
  ASSUME NEW p \in Paths, NEW x \in Paths, NEW q \in Paths,
         IsPrefix(p, x), IsPrefix(x, q), ~IsProtectedPath(Rest(p, q))
  PROVE  ~IsProtectedPath(Rest(p, x))
<1>1. IsPrefix(p, q)
  BY PathOrder
<1>2. PICK a : a = Rest(p, x)
  OBVIOUS
<1>3. PICK b : b = Rest(p, q)
  OBVIOUS
<1>4. /\ a \in Seq(Names) /\ Len(a) = Len(x) - Len(p)
      /\ \A i \in 1 .. Len(x) - Len(p) : a[i] = x[Len(p) + i]
  BY <1>2, RestOf
<1>5. /\ b \in Seq(Names) /\ Len(b) = Len(q) - Len(p)
      /\ \A i \in 1 .. Len(q) - Len(p) : b[i] = q[Len(p) + i]
  BY <1>1, <1>3, RestOf
<1>6. Len(x) <= Len(q) /\ \A i \in 1 .. Len(x) : x[i] = q[i]
  BY PrefixAt
<1>7. Len(p) \in Nat /\ Len(q) \in Nat /\ Len(x) \in Nat /\ Len(p) <= Len(x)
  BY PathOrder
<1>8. DOMAIN a = 1 .. Len(a) /\ DOMAIN b = 1 .. Len(b)
  BY <1>4, <1>5
<1>9. ASSUME NEW i \in DOMAIN a
      PROVE  i \in DOMAIN b /\ b[i] = a[i]
  <2>1. i \in 1 .. Len(x) - Len(p)
    BY <1>4, <1>8
  <2>2. Len(x) <= Len(q)
    BY <1>6
  <2>3. i \in 1 .. Len(q) - Len(p) /\ Len(p) + i \in 1 .. Len(x)
    BY <1>7, <2>1, <2>2
  <2> QED
    BY <1>4, <1>5, <1>6, <1>8, <2>1, <2>3
<1>10. ~IsProtectedPath(a)
  BY <1>3, <1>9 DEF IsProtectedPath
<1> QED
  BY <1>2, <1>10

(* A copy, complete or not, whole or cut.                                  *)
LEMMA CopyKeeps ==
  ASSUME CardInv, Copy
  PROVE  tree' \in Trees /\ Stage' /\ NothingElseLost' /\ AnswersAreTrue'
<1> DEFINE source == request.source
           dest == request.dest
           nodes == Copyable(tree, source)
<1>1. /\ pc = "COPY" /\ pc \in TwoPaths /\ pc' = "reply"
      /\ UNCHANGED <<request, body, old, upload>>
  BY DEF Copy, TwoPaths, serverVars
<1>2. /\ request.verb = "COPY" /\ tree \in Trees
      /\ source \in Paths \ {<<>>} /\ dest \in Paths \ {<<>>}
  BY <1>1, Ready
<1>3. /\ \A q \in Paths \ Descendants(dest) : tree[q] = old[q]
      /\ \A q \in Descendants(dest) : tree[q] = old[q] \/ tree[q] = None
      /\ \/ Descendants(dest) \subseteq Touched(request)
         \/ \A q \in Descendants(dest) : old[q] = None
  BY <1>1, Ready
<1>4. \A q \in Descendants(dest) : tree[q] = None
  BY <1>1 DEF CardInv, Stage, Without, Descendants
<1>5. PICK s \in SUBSET nodes, ok \in BOOLEAN, misses \in BOOLEAN :
        /\ Fits(s, source, dest)
        /\ \A q \in s : \A p \in nodes : IsPrefix(p, q) => p \in s
        /\ \E cut \in SUBSET {q \in s : tree[q] \in Contents} :
             /\ \/ CopyOutcome(nodes, s, cut, ok, misses)
                \/ IsPrefix(source, dest) /\ ~ok
             /\ IsPrefix(source, dest) /\ ~misses => ~ok
             /\ tree' \in CopyResults(tree, source, dest, s, cut)
             /\ misread' = misses
             /\ code' = IF ok THEN 200 ELSE 500
  BY DEF Copy
<1>6. PICK cut \in SUBSET {q \in s : tree[q] \in Contents} :
        /\ \/ CopyOutcome(nodes, s, cut, ok, misses)
           \/ IsPrefix(source, dest) /\ ~ok
        /\ IsPrefix(source, dest) /\ ~misses => ~ok
        /\ tree' \in CopyResults(tree, source, dest, s, cut)
        /\ misread' = misses
        /\ code' = IF ok THEN 200 ELSE 500
  BY <1>5
<1>7. \A q \in nodes : /\ q \in Paths /\ IsPrefix(source, q)
                       /\ tree[q] # None
                       /\ ~IsProtectedPath(Rest(source, q))
  BY DEF Copyable, Below, Descendants
<1>8. ASSUME NEW q \in nodes, NEW x \in Paths, IsPrefix(source, x),
             IsPrefix(x, q)
      PROVE  x \in nodes
  <2>1. tree[x] # None
    BY <1>2, <1>7, <1>8, Upward
  <2>2. ~IsProtectedPath(Rest(source, x))
    BY <1>2, <1>7, <1>8, RestProtected
  <2> QED
    BY <1>8, <2>1, <2>2 DEF Copyable, Below, Descendants
<1>9. Branch(tree, s, source)
  BY <1>5, <1>7, <1>8 DEF Branch
<1>10. \A q \in cut : q \in s /\ tree[q] \in Contents
  BY <1>6
<1>11. /\ Fits(s, source, dest)
       /\ tree' \in CopyResults(tree, source, dest, s, cut)
  BY <1>5, <1>6
<1>12. CopyMade(tree, tree', s, cut, source, dest)
  BY <1>2, <1>4, <1>9, <1>10, <1>11, CopyDoes
<1>13. \A q \in Paths \ Descendants(dest) :
         \/ tree'[q] = old[q]
         \/ q \in Ancestors(dest) /\ old[q] = None
  BY <1>3, <1>12 DEF CopyMade
<1>14. Lossless(request, old, tree')
  BY <1>2, <1>3, <1>13, MoveLoses
<1>15. NothingElseLost'
  BY <1>1, <1>14, LosslessIs
<1>16. ASSUME code' = 200, ~misread'
       PROVE  Fulfilled(request)'
  <2>1. /\ s = nodes /\ cut = {} /\ s # {} /\ ~IsPrefix(source, dest)
    BY <1>6, <1>16 DEF CopyOutcome
  <2>2. source \notin Descendants(dest)
    <3>1. PICK q \in nodes : TRUE
      BY <2>1
    <3>2. tree[source] # None
      BY <1>2, <1>7, Upward
    <3> QED
      BY <1>4, <3>2
  <2>3. ASSUME NEW p \in Copyable(old, source)
        PROVE  /\ dest \o Rest(source, p) \in Paths
               /\ tree'[dest \o Rest(source, p)] = old[p]
               /\ tree'[p] = old[p]
    <3>1. /\ p \in Paths /\ IsPrefix(source, p) /\ old[p] # None
          /\ ~IsProtectedPath(Rest(source, p))
      BY DEF Copyable, Below, Descendants
    <3>2. p \notin Descendants(dest)
      BY <1>2, <2>1, <2>2, <3>1, PathOrder DEF Descendants
    <3>3. tree[p] = old[p]
      BY <1>3, <3>1, <3>2
    <3>4. p \in nodes
      BY <3>1, <3>3 DEF Copyable, Below, Descendants
    <3>5. tree'[At(dest, source, p)] = tree[p]
      BY <1>12, <2>1, <3>4 DEF CopyMade
    <3>6. tree'[p] = old[p]
      BY <1>13, <3>1, <3>2
    <3>7. dest \o Rest(source, p) \in Paths
      BY <1>5, <2>1, <3>4 DEF Fits
    <3> QED
      BY <3>3, <3>5, <3>6, <3>7 DEF At
  <2> QED
    BY <1>1, <1>2, <2>3 DEF Fulfilled
<1>17. ASSUME code' = 200, misread'
       PROVE  DoneInPart(request)'
  <2>1. s # {}
    BY <1>6, <1>17 DEF CopyOutcome
  <2>2. source \in s
    <3>1. PICK q \in s : TRUE
      BY <2>1
    <3>2. q \in nodes /\ IsPrefix(source, q) /\ IsPrefix(source, source)
      BY <1>2, <1>7, <3>1, PrefixSelf
    <3> QED
      BY <1>2, <1>5, <1>8, <3>1, <3>2
  <2>3. tree'[dest] # None
    BY <1>12, <2>2 DEF CopyMade
  <2>4. ASSUME NEW q \in Descendants(dest), tree'[q] # None
        PROVE  /\ source \o Rest(dest, q) \in Copyable(old, source)
               /\ tree'[q] \in {old[source \o Rest(dest, q)], Cut}
    <3>1. PICK p : p = At(source, dest, q)
      OBVIOUS
    <3>2. p \in s /\ tree'[q] \in {tree[p], Cut}
      BY <1>12, <2>4, <3>1 DEF CopyMade
    <3>3. /\ p \in Paths /\ IsPrefix(source, p) /\ tree[p] # None
          /\ ~IsProtectedPath(Rest(source, p))
      BY <1>7, <3>2
    <3>4. p \notin Descendants(dest)
      BY <1>4, <3>3
    <3>5. tree[p] = old[p]
      BY <1>3, <3>3, <3>4
    <3>6. p \in Copyable(old, source)
      BY <3>3, <3>5 DEF Copyable, Below, Descendants
    <3> QED
      BY <3>1, <3>2, <3>5, <3>6 DEF At
  <2> QED
    BY <1>1, <1>2, <2>3, <2>4 DEF DoneInPart
<1>18. code' \in {200, 500}
  BY <1>6
<1>19. AnswersAreTrue' /\ Stage'
  BY <1>1, <1>2, <1>16, <1>17, <1>18, Answered
<1> QED
  BY <1>12, <1>15, <1>19 DEF CopyMade


(* A card that is as the request found it has lost nothing.                *)
LEMMA SameLoses ==
  ASSUME NEW r, r.dest \in Paths, NEW t
  PROVE  Lossless(r, t, t)
<1>1. Grown(t, t, Ancestors(r.dest) \cup {r.dest})
  BY DEF Grown
<1> QED
  BY <1>1, GrownLoses

(* A request that comes in has changed nothing yet.                        *)
LEMMA ReceiveKeeps ==
  ASSUME CardInv, NEW r \in Requests, Receive(r)
  PROVE  /\ tree' \in Trees /\ old' \in Trees
         /\ Stage' /\ NothingElseLost' /\ AnswersAreTrue'
<1>1. /\ pc = "receive" /\ request' = r /\ old' = tree /\ tree' = tree
      /\ code' = Refusal(r) /\ body' = body /\ upload' = upload
      /\ pc' = IF Refusal(r) # 0 THEN "reply"
               ELSE IF r.verb \in {"MOVE", "COPY"} /\ tree[r.dest] # None
               THEN "clear" ELSE r.verb
  BY DEF Receive, serverVars
<1>2. tree \in Trees /\ body = NoBody /\ ~upload.inProgress
  BY <1>1 DEF CardInv, Stage
<1>3. /\ r.source \in Paths /\ r.dest \in Paths
      /\ r.verb \in OnePath \cup TwoPaths
      /\ r.verb \notin {"MOVE", "COPY"} => r.overwrite
  BY DEF Requests
<1>4. Refusal(r) \in {0, 403, 404, 412}
  BY DEF Refusal
<1>5. NothingElseLost'
  BY <1>1, <1>3, SameLoses, LosslessIs
<1>6. AnswersAreTrue'
  <2>1. Refusal(r) \in {0, 403} \/ r.verb # "upload"
    BY DEF Refusal
  <2>2. DOMAIN body' = {}
    BY <1>1, <1>2 DEF NoBody
  <2> QED
    BY <1>1, <1>2, <1>4, <2>1, <2>2 DEF AnswersAreTrue
<1>7. Stage'
  <2>1. CASE Refusal(r) # 0
    BY <1>1, <1>2, <2>1 DEF Stage, Reading, Changing, OnePath, TwoPaths
  <2>2. CASE /\ Refusal(r) = 0
             /\ r.verb \in {"MOVE", "COPY"} /\ tree[r.dest] # None
    <3>1. r.overwrite
      BY <2>2 DEF Refusal
    <3> QED
      BY <1>1, <1>2, <2>2, <3>1
         DEF Stage, Reading, Changing, OnePath, TwoPaths
  <2>3. CASE /\ Refusal(r) = 0
             /\ r.verb \in {"MOVE", "COPY"} /\ tree[r.dest] = None
    <3>1. \A q \in Descendants(r.dest) : tree[q] = None
      BY <1>2, <1>3, <2>3, Upward DEF Descendants
    <3>2. tree = Without(tree, Descendants(r.dest))
      BY <1>2, <3>1, TreeType DEF Without
    <3>3. (tree = Without(old, Descendants(request.dest)))'
      BY <1>1, <3>2 DEF Without, Descendants
    <3>4. old'[request'.dest] = None
      BY <1>1, <2>3
    <3>5. pc' \in {"MOVE", "COPY"} /\ request'.verb = pc' /\ body' = NoBody
          /\ ~upload'.inProgress
      BY <1>1, <1>2, <2>3
    <3> QED
      BY <3>3, <3>4, <3>5
         DEF Stage, Reading, Changing, OnePath, TwoPaths
  <2>4. CASE Refusal(r) = 0 /\ r.verb \notin {"MOVE", "COPY"}
    <3>1. ~IsProtectedPath(r.source)
      BY <1>3, <2>4 DEF Refusal, Forbidden
    <3> QED
      BY <1>1, <1>2, <1>3, <2>4, <3>1
         DEF Stage, Reading, Changing, OnePath, TwoPaths
  <2> QED
    BY <2>1, <2>2, <2>3, <2>4
<1> QED
  BY <1>1, <1>2, <1>5, <1>6, <1>7

(* Answers without a look at the card.                                     *)
LEMMA AtOnceKeeps ==
  ASSUME CardInv, BadRequest \/ OtherRequest
  PROVE  tree' \in Trees /\ Stage' /\ NothingElseLost' /\ AnswersAreTrue'
<1>1. /\ pc = "receive" /\ pc' = "reply" /\ code' \in {200, 204, 400, 404, 501}
      /\ UNCHANGED <<tree, request, body, old, upload>>
  BY DEF BadRequest, OtherRequest, AnswerAtOnce, serverVars
<1>2. /\ tree = old /\ tree \in Trees /\ body = NoBody
      /\ request = NoRequest /\ ~upload.inProgress
  BY <1>1 DEF CardInv, Stage
<1>3. request.verb = "none" /\ request.dest \in Paths
  BY <1>2 DEF NoRequest
<1>4. NothingElseLost'
  BY <1>1, <1>2, <1>3, SameLoses, LosslessIs
<1>5. Fulfilled(request)'
  BY <1>1, <1>2, <1>3 DEF Fulfilled
<1>6. DOMAIN body' = {}
  BY <1>1, <1>2 DEF NoBody
<1>7. AnswersAreTrue'
  BY <1>1, <1>2, <1>3, <1>5, <1>6 DEF AnswersAreTrue
<1>8. Stage'
  BY <1>1, <1>2 DEF Stage, Reading, Changing, OnePath, TwoPaths
<1> QED
  BY <1>1, <1>2, <1>4, <1>7, <1>8

(* The children of a directory that a listing shows.                       *)
LEMMA ChildrenListed ==
  ASSUME tree = old, NEW p \in Paths, ~IsProtectedPath(p)
  PROVE  Children(p) = Listed(p)
<1>1. p \in Seq(Names) /\ Len(p) \in Nat
  OBVIOUS
<1>2. ASSUME NEW q \in Children(p)
      PROVE  q \in Listed(p)
  <2>1. /\ q \in Paths /\ IsPrefix(p, q) /\ tree[q] # None
        /\ Len(q) = Len(p) + 1 /\ ~IsProtectedPath(q)
    BY DEF Children, Below, Descendants
  <2>2. q \in Seq(Names) /\ Len(q) \in Nat /\ Len(q) - 1 = Len(p)
    BY <1>1, <2>1
  <2>3. SubSeq(q, 1, Len(p)) = p
    BY <1>1, <2>1 DEF IsPrefix
  <2>4. Parent(q) = p
    BY <2>2, <2>3 DEF Parent, Front
  <2>5. Len(q) \in DOMAIN q /\ q # <<>>
    BY <1>1, <2>1, <2>2
  <2>6. Last(q) \notin Protected
    BY <2>1, <2>5 DEF IsProtectedPath, Last
  <2> QED
    BY <2>1, <2>4, <2>5, <2>6 DEF Listed
<1>3. ASSUME NEW q \in Listed(p)
      PROVE  q \in Children(p)
  <2>1. /\ q \in Paths \ {<<>>} /\ Parent(q) = p /\ tree[q] # None
        /\ Last(q) \notin Protected
    BY DEF Listed
  <2>2. q \in Seq(Names) /\ Len(q) \in Nat \ {0}
    BY <2>1
  <2>3. PICK k \in 0 .. Len(q) : k = Len(q) - 1
    <3>1. Len(q) - 1 \in 0 .. Len(q)
      BY <2>2
    <3> QED
      BY <3>1
  <2>4. p = SubSeq(q, 1, k)
    BY <2>1, <2>3 DEF Parent, Front
  <2>5. Len(p) = k /\ \A i \in 1 .. k : p[i] = q[i]
    BY <2>2, <2>4
  <2>6. Len(p) = Len(q) - 1 /\ \A i \in 1 .. Len(q) - 1 : p[i] = q[i]
    BY <2>3, <2>5
  <2>7. IsPrefix(p, q)
    BY <2>1, ParentAbove DEF Ancestors, IsStrictPrefix
  <2>8. ASSUME NEW i \in DOMAIN q PROVE q[i] \notin Protected
    <3>1. i \in 1 .. Len(q)
      BY <2>2
    <3>2. CASE i = Len(q)
      BY <2>1, <3>2 DEF Last
    <3>3. CASE i # Len(q)
      <4>1. i \in 1 .. Len(q) - 1
        BY <2>2, <3>1, <3>3
      <4>2. i \in DOMAIN p /\ p[i] = q[i]
        BY <1>1, <2>6, <4>1
      <4> QED
        BY <4>2 DEF IsProtectedPath
    <3> QED
      BY <3>2, <3>3
  <2>9. Len(q) = Len(p) + 1
    BY <2>2, <2>6
  <2> QED
    BY <2>1, <2>7, <2>8, <2>9
       DEF Children, Below, Descendants, IsProtectedPath
<1> QED
  BY <1>2, <1>3 DEF Children, Listed, Below, Descendants

(* Reading: the answer shows what was found, or a part of it.              *)
LEMMA ReadsKeep ==
  ASSUME CardInv,
         \/ Propfind \/ ListFiles \/ NotAFile \/ DownloadHead \/ Download
  PROVE  tree' \in Trees /\ Stage' /\ NothingElseLost' /\ AnswersAreTrue'
<1> DEFINE p == request.source
<1>1. /\ pc \in Reading /\ pc' = "reply"
      /\ UNCHANGED <<tree, request, old, upload>>
  BY DEF Propfind, ListFiles, NotAFile, DownloadHead, Download, Reading,
         serverVars
<1>2. /\ tree = old /\ tree \in Trees /\ body = NoBody
      /\ request.verb = pc /\ ~upload.inProgress /\ ~IsProtectedPath(p)
  BY <1>1 DEF CardInv, Stage, OnePath, Reading
<1>3. p \in Paths /\ request.dest \in Paths
  BY <1>1, <1>2, RequestIs DEF CardInv, Reading
<1>4. NothingElseLost'
  BY <1>1, <1>2, <1>3, SameLoses, LosslessIs
<1>5. Stage'
  BY <1>1, <1>2 DEF Stage, Reading, Changing, OnePath, TwoPaths
<1>6. \A q \in Children(p) : ~IsProtectedPath(q)
  BY DEF Children
<1>7. Children(p) = Listed(p)
  BY <1>2, <1>3, ChildrenListed
<1>8. Listed(p)' = Listed(p)
  BY <1>1 DEF Listed
<1>9. /\ code' \in {200, 207} =>
           Fulfilled(request)' \/ (misread' /\ DoneInPart(request)')
      /\ \A q \in DOMAIN body' :
           /\ ~IsProtectedPath(q)
           /\ body'[q] = old'[q] \/ (misread' /\ body'[q] = Cut)
  <2>1. CASE Propfind
    <3> DEFINE All(depth) ==
                 {p} \cup IF tree[p] = Dir /\ depth = 1 THEN Children(p)
                          ELSE {}
    <3>1. PICK depth \in {0, 1}, misses \in BOOLEAN :
            \E shown \in IF misses THEN SUBSET All(depth) ELSE {All(depth)} :
              body' = Restrict(tree, shown) /\ misread' = misses
      BY <2>1 DEF Propfind
    <3>2. PICK all : all = All(depth)
      OBVIOUS
    <3>3. PICK shown :
            /\ all = All(depth)
            /\ shown \in IF misses THEN SUBSET all ELSE {all}
            /\ body' = Restrict(tree, shown) /\ misread' = misses
      BY <3>1, <3>2
    <3>4. DOMAIN body' = shown /\ \A q \in shown : body'[q] = tree[q]
      BY <3>3 DEF Restrict
    <3>5. all = {p} \/ all = {p} \cup Listed(p)
      BY <1>7, <3>3
    <3>6. \A q \in all : ~IsProtectedPath(q)
      BY <1>2, <1>6, <3>3
    <3>7. ~misread' => Fulfilled(request)'
      BY <1>1, <1>2, <1>8, <2>1, <3>3, <3>4, <3>5 DEF Fulfilled, Propfind
    <3>8. DoneInPart(request)'
      BY <1>1, <1>2, <1>8, <2>1, <3>3, <3>4, <3>5 DEF DoneInPart, Propfind
    <3> QED
      BY <1>1, <1>2, <3>3, <3>4, <3>6, <3>7, <3>8
  <2>2. CASE ListFiles
    <3> DEFINE all == IF tree[p] = Dir THEN Children(p) ELSE {}
    <3>0. PICK misses \in BOOLEAN :
            \E shown \in IF misses THEN SUBSET all ELSE {all} :
              body' = Restrict(tree, shown) /\ misread' = misses
      BY <2>2 DEF ListFiles
    <3>1. PICK shown \in IF misses THEN SUBSET all ELSE {all} :
            body' = Restrict(tree, shown) /\ misread' = misses
      BY <3>0
    <3>2. DOMAIN body' = shown /\ \A q \in shown : body'[q] = tree[q]
      BY <3>1 DEF Restrict
    <3>3. tree[p] # Dir => Listed(p) = {}
      <4>1. ASSUME NEW q \in Listed(p) PROVE tree[p] = Dir
        <5>1. q \in Paths \ {<<>>} /\ Parent(q) = p /\ tree[q] # None
          BY <1>2 DEF Listed
        <5>2. p \in Ancestors(q)
          BY <5>1, ParentAbove
        <5> QED
          BY <1>2, <5>1, <5>2 DEF Trees
      <4> QED
        BY <4>1
    <3>4. all = Listed(p)
      BY <1>7, <3>1, <3>3
    <3>5. \A q \in all : ~IsProtectedPath(q)
      BY <1>6, <3>1
    <3>6. ~misread' => Fulfilled(request)'
      BY <1>1, <1>2, <1>8, <2>2, <3>1, <3>2, <3>4 DEF Fulfilled, ListFiles
    <3>7. DoneInPart(request)'
      BY <1>1, <1>2, <1>8, <2>2, <3>1, <3>2, <3>4 DEF DoneInPart, ListFiles
    <3> QED
      BY <1>1, <1>2, <3>1, <3>2, <3>5, <3>6, <3>7
  <2>3. CASE NotAFile \/ DownloadHead
    <3>1. body' = NoBody /\ pc = "download"
      BY <1>2, <2>3 DEF NotAFile, DownloadHead
    <3>2. DOMAIN body' = {}
      BY <3>1 DEF NoBody
    <3>3. Fulfilled(request)'
      BY <1>1, <1>2, <3>1, <3>2 DEF Fulfilled
    <3> QED
      BY <3>2, <3>3
  <2>4. CASE Download
    <3>1. PICK content \in {tree[p], Cut} :
            /\ body' = [q \in {p} |-> content]
            /\ misread' = (content # tree[p])
      BY <2>4 DEF Download
    <3>2. DOMAIN body' = {p} /\ body'[p] = content /\ pc = "download"
      BY <2>4, <3>1 DEF Download
    <3>3. Fulfilled(request)'
      BY <1>1, <1>2, <3>2 DEF Fulfilled
    <3>4. content = tree[p] \/ (misread' /\ content = Cut)
      BY <3>1
    <3> QED
      BY <1>1, <1>2, <3>2, <3>3, <3>4
  <2> QED
    BY <2>1, <2>2, <2>3, <2>4
<1>10. AnswersAreTrue'
  BY <1>1, <1>2, <1>9 DEF AnswersAreTrue, Reading
<1> QED
  BY <1>1, <1>2, <1>4, <1>5, <1>10


(* Every step, of the worker and of the main thread.                       *)
LEMMA CardStep ==
  CardInv /\ TypeOK' /\ [Next]_vars => CardInv'
<1> SUFFICES ASSUME CardInv, TypeOK', [Next]_vars
             PROVE  CardInv'
  OBVIOUS
<1> DEFINE Good == /\ tree' \in Trees /\ old' \in Trees
                   /\ Stage' /\ NothingElseLost' /\ AnswersAreTrue'
<1>1. Checked'
  BY CheckedStep DEF CardInv
<1>2. CASE \/ MakeDirectory \/ RenameEntry \/ Delete \/ Put \/ UploadStart
           \/ UploadDone \/ ClearDestination \/ Copy
  <2>1. old' = old
    BY <1>2 DEF MakeDirectory, RenameEntry, Delete, Put, UploadStart,
                UploadDone, ClearDestination, Copy
  <2>2. tree' \in Trees /\ Stage' /\ NothingElseLost' /\ AnswersAreTrue'
    BY <1>2, MakeDirectoryKeeps, RenameKeeps, DeleteKeeps, PutKeeps,
       UploadStartKeeps, UploadDoneKeeps, ClearKeeps, CopyKeeps
  <2> QED
    BY <1>1, <2>1, <2>2 DEF CardInv
<1>3. ASSUME NEW r \in Requests, Receive(r) PROVE CardInv'
  BY <1>1, <1>3, ReceiveKeeps DEF CardInv
<1>4. CASE BadRequest \/ OtherRequest
  <2>1. old' = old
    BY <1>4 DEF BadRequest, OtherRequest, AnswerAtOnce
  <2> QED
    BY <1>1, <1>4, <2>1, AtOnceKeeps DEF CardInv
<1>5. CASE Propfind \/ ListFiles \/ NotAFile \/ DownloadHead \/ Download
  <2>1. old' = old
    BY <1>5 DEF Propfind, ListFiles, NotAFile, DownloadHead, Download
  <2> QED
    BY <1>1, <1>5, <2>1, ReadsKeep DEF CardInv
<1>6. CASE Reply
  <2>1. /\ request' = NoRequest /\ old' = tree /\ tree' = tree
        /\ body' = NoBody /\ pc' = "accept" /\ upload' = upload
        /\ pc = "reply"
    BY <1>6 DEF Reply, serverVars
  <2>2. tree \in Trees /\ ~upload.inProgress
    BY <2>1 DEF CardInv, Stage
  <2>3. Stage'
    BY <2>1, <2>2 DEF Stage, Reading, Changing, OnePath, TwoPaths
  <2>4. NothingElseLost' /\ AnswersAreTrue'
    BY <2>1 DEF NothingElseLost, AnswersAreTrue
  <2> QED
    BY <1>1, <2>1, <2>2, <2>3, <2>4 DEF CardInv
<1>7. CASE Begin \/ Join \/ Accept
  <2>1. /\ pc \in {"off", "accept"} /\ pc' \in {"off", "accept", "receive"}
        /\ UNCHANGED <<tree, old, request, body>>
        /\ upload' = NoUpload \/ upload' = upload
    BY <1>7 DEF Begin, Join, Accept, serverVars
  <2>2. /\ tree \in Trees /\ old \in Trees /\ tree = old
        /\ body = NoBody /\ request = NoRequest /\ ~upload.inProgress
    BY <2>1 DEF CardInv, Stage
  <2>3. ~upload'.inProgress
    BY <2>1, <2>2 DEF NoUpload
  <2>4. Stage'
    BY <2>1, <2>2, <2>3 DEF Stage, Reading, Changing, OnePath, TwoPaths
  <2>5. NothingElseLost' /\ AnswersAreTrue'
    BY <2>1 DEF NothingElseLost, AnswersAreTrue
  <2> QED
    BY <1>1, <2>1, <2>2, <2>4, <2>5 DEF CardInv
<1>8. CASE Stop \/ UNCHANGED vars
  <2>1. UNCHANGED <<tree, pc, request, code, body, upload, old, misread>>
    BY <1>8 DEF Stop, vars
  <2>2. Stage' /\ tree' \in Trees /\ old' \in Trees
    BY <2>1 DEF CardInv, Stage
  <2>3. NothingElseLost'
    BY <2>1, LosslessIs DEF CardInv
  <2>4. /\ Fulfilled(request)' = Fulfilled(request)
        /\ DoneInPart(request)' = DoneInPart(request)
    BY <2>1 DEF Fulfilled, DoneInPart, Listed, Copyable, Below, Descendants
  <2>5. AnswersAreTrue'
    BY <2>1, <2>4 DEF CardInv, AnswersAreTrue
  <2> QED
    BY <1>1, <2>2, <2>3, <2>5 DEF CardInv
<1> QED
  BY <1>2, <1>3, <1>4, <1>5, <1>6, <1>7, <1>8 DEF Next

(* Any card without torn files will do.                                    *)
LEMMA CardInit == Init => CardInv
<1> SUFFICES ASSUME Init PROVE CardInv
  OBVIOUS
<1>1. /\ pc = "off" /\ tree \in Trees /\ old = tree /\ request = NoRequest
      /\ body = NoBody /\ upload = NoUpload
  BY DEF Init
<1>2. ~upload.inProgress
  BY <1>1 DEF NoUpload
<1>3. Checked
  BY DEF Init, Checked, Working, Changing, TwoPaths, NoRequest, Trees
<1>4. TypeOK
  <2>1. misread \in BOOLEAN /\ running \in BOOLEAN
    BY DEF Init
  <2>2. upload \in [inProgress : BOOLEAN, name : Paths]
    BY <1>1 DEF NoUpload
  <2>3. DOMAIN body \subseteq Paths
    BY <1>1 DEF NoBody
  <2> QED
    BY <1>3, <2>1, <2>2, <2>3 DEF Init, Checked, TypeOK
<1>5. Stage
  BY <1>1, <1>2 DEF Stage, Reading, Changing, OnePath, TwoPaths
<1>6. NothingElseLost /\ AnswersAreTrue
  BY <1>1 DEF NothingElseLost, AnswersAreTrue
<1> QED
  BY <1>1, <1>3, <1>4, <1>5, <1>6 DEF CardInv

(* The card is a tree at every step, the worker is where it says it is,    *)
(* and an answer is true and has lost nothing.                             *)
THEOREM CardInvariant == Spec => []CardInv
<1>1. Spec => []TypeOK
  BY TypeCorrect
<1> QED
  BY <1>1, CardInit, CardStep, PTL DEF Spec

(* No sequence of requests, whatever the host refuses half way, loses or   *)
(* makes an entry that the request does not name, or loses a moved file    *)
(* (CrossPointWebServer.cpp, HalStorage.cpp).                              *)
THEOREM RequestsLoseNothing == Spec => []NothingElseLost
<1>1. CardInv => NothingElseLost
  BY DEF CardInv
<1> QED
  BY <1>1, CardInvariant, PTL

(* A refused request changed nothing, a success is done to the last file   *)
(* unless the host failed to read, and then in part; a listing shows       *)
(* what is there and nothing protected, and the status of an upload agrees *)
(* with its answer (CrossPointWebServer.cpp).                              *)
THEOREM AnswersTellTruth == Spec => []AnswersAreTrue
<1>1. CardInv => AnswersAreTrue
  BY DEF CardInv
<1> QED
  BY <1>1, CardInvariant, PTL
=============================================================================
