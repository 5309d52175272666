----------------------------- MODULE SimStorage -----------------------------
(***************************************************************************)
(* The simulated SD card (HalStorage.cpp): what its calls do to the tree   *)
(* of files. A call is the set of its possible outcomes [tree, ok], because*)
(* the host may refuse any part of it (space, rights, limits of the host). *)
(* Paths bounds the tree; what does not fit into it the host refuses.      *)
(***************************************************************************)
EXTENDS Integers, Sequences, SequencesExt

CONSTANTS
  Paths,     (* Seq of names; <<>> is the root                             *)
  Contents,  (* what files may hold                                        *)
  Cut,       (* a file whose last bytes are missing                        *)
  None,      (* no entry                                                   *)
  Dir        (* a directory                                                *)

Parent(p) == Front(p)
Ancestors(p) == {q \in Paths : IsStrictPrefix(q, p)}
Descendants(p) == {q \in Paths : IsPrefix(p, q)}

ASSUME SimStorageAssumption ==
  /\ <<>> \in Paths
  /\ \A p \in Paths : \A k \in 0 .. Len(p) : SubSeq(p, 1, k) \in Paths
  /\ Cut \in Contents /\ None # Dir /\ {None, Dir} \cap Contents = {}

(* The root is there, and everything else lies in directories.             *)
Trees == {t \in [Paths -> Contents \cup {None, Dir}] :
            /\ t[<<>>] = Dir
            /\ \A p \in Paths :
                 t[p] # None => \A q \in Ancestors(p) : t[q] = Dir}

EmptyCard == [p \in Paths |-> IF p = <<>> THEN Dir ELSE None]

Done(t) == [tree |-> t, ok |-> TRUE]
Failed(t) == [tree |-> t, ok |-> FALSE]

(* External, the host: directories up to depth k on the way to p. A file   *)
(* on the way is left alone, and nothing is made below it.                 *)
MadeUpTo(t, p, k) ==
  IF \E q \in Ancestors(p) : t[q] \notin {None, Dir} THEN t
  ELSE [q \in Paths |-> IF q \in Ancestors(p) /\ Len(q) <= k THEN Dir
                        ELSE t[q]]

(* ensureParentDirectories                                                 *)
EnsureParents(t, p) == {MadeUpTo(t, p, k) : k \in 0 .. Len(p) - 1}

HasParent(t, p) == \A q \in Ancestors(p) : t[q] = Dir

(* mkdir. An entry that is there already is a success, a file, too.        *)
Mkdir(t, p) ==
  UNION {{Failed(u)}
         \cup (IF u[p] # None THEN {Done(u)}
               ELSE IF HasParent(u, p) THEN {Done([u EXCEPT ![p] = Dir])}
               ELSE {}) : u \in EnsureParents(t, p)}

(* openFileForWrite, write, close; c is not empty. A directory opens but   *)
(* takes no bytes.                                                         *)
Write(t, p, c) ==
  UNION {{Failed(u)}
         \cup (IF HasParent(u, p) /\ u[p] # Dir
               THEN {Done([u EXCEPT ![p] = c]), Failed([u EXCEPT ![p] = Cut])}
               ELSE {}) : u \in EnsureParents(t, p)}

Below(t, p) == {q \in Descendants(p) : t[q] # None}
Without(t, gone) == [q \in Paths |-> IF q \in gone THEN None ELSE t[q]]

(* remove                                                                  *)
RemoveFile(t, p) ==
  {Failed(t)} \cup (IF Below(t, p) = {p} THEN {Done(Without(t, {p}))} ELSE {})

(* rmdir: depth first, up to the first entry that cannot be removed.       *)
RemoveDirRecursive(t, p) ==
  LET gone == {s \in SUBSET Below(t, p) :
                 \A q \in s : Below(t, q) \subseteq s}
  IN  {Failed(Without(t, s)) : s \in gone \ {Below(t, p)}}
      \cup {Failed(t)}
      \cup (IF t[p] = None THEN {} ELSE {Done(Without(t, Descendants(p)))})

(* External, POSIX rename: what replaces what.                             *)
MayReplace(t, p, q) ==
  IF t[p] = Dir THEN Below(t, q) = {} \/ (t[q] = Dir /\ Below(t, q) = {q})
  ELSE t[q] # Dir

Rest(p, q) == SubSeq(q, Len(p) + 1, Len(q))

(* The tree with the entries of source in t also at, or moved to, dest.    *)
Copied(t, u, nodes, source, dest) ==
  [q \in Paths |-> IF IsPrefix(dest, q) /\ source \o Rest(dest, q) \in nodes
                   THEN t[source \o Rest(dest, q)] ELSE u[q]]
Fits(nodes, source, dest) ==
  \A q \in nodes : dest \o Rest(source, q) \in Paths

(* rename                                                                  *)
Rename(t, source, dest) ==
  UNION {{Failed(u)}
         \cup (IF u[source] = None \/ ~HasParent(u, dest) THEN {}
               ELSE IF source = dest THEN {Done(u)}
               ELSE IF /\ ~IsPrefix(source, dest) /\ ~IsPrefix(dest, source)
                       /\ MayReplace(u, source, dest)
                       /\ Fits(Below(u, source), source, dest)
               THEN {Done(Copied(u, Without(u, Descendants(source)
                                               \cup Descendants(dest)),
                                 Below(u, source), source, dest))}
               ELSE {}) : u \in EnsureParents(t, dest)}
=============================================================================
