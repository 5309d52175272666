------------------------------- MODULE HalFile ------------------------------
(***************************************************************************)
(* HalFile (HalStorage.cpp): the handle of the firmware on a file or a     *)
(* directory of the card, over the descriptors, directory streams and file *)
(* contents of the host.                                                   *)
(*                                                                         *)
(* Modelled: one directory, Books, with files and subdirectories. Host     *)
(* directories list their entries in an order that only creation, removal  *)
(* and renaming change. A stream opened before such a change may or may    *)
(* not show it (POSIX readdir); an entry that stays is always shown.       *)
(* A file keeps its name's content while a descriptor is open on it.       *)
(***************************************************************************)
EXTENDS Naturals, Sequences, SequencesExt, FiniteSets

CONSTANTS
  Names,    (* the entries Books may have                                   *)
  Dirs,     (* those of them that are directories                           *)
  Books,    (* the directory itself                                         *)
  Dots,     (* the entries "." and ".."                                     *)
  Slots,    (* the descriptors the process may have open                    *)
  Bytes,    (* what files are made of; 0 is NUL                             *)
  MaxLen,   (* bound: length of a file                                      *)
  None

(* What a descriptor may be open on, and where it stands.                  *)
Descriptors == [kind : {"fd", "dir"}, name : Names \cup {Books}, at : Nat]

ASSUME CardAssumption ==
  /\ Dirs \subseteq Names /\ IsFiniteSet(Names \cup Dots)
  /\ Books \notin Names /\ None \notin Names \cup {Books} \cup Slots \cup Nat
  /\ None \notin Descriptors
  /\ Dots \cap Names = {}
  /\ Bytes \subseteq Nat /\ 0 \in Bytes
  /\ MaxLen \in Nat

Files == Names \ Dirs
IsDirectory(n) == n \in Dirs \cup {Books}

VARIABLES
  listing,  (* the entries of Books in the order of the host                *)
  data,     (* the bytes of each file                                       *)
  slot,     (* what each descriptor is open on                              *)
  rest,     (* the entries readdir has yet to return on walk's stream       *)
  file      (* HalFile::Impl of the handles of the firmware                 *)

cardVars == <<listing, data, slot, rest, file>>

(* walk iterates a directory, child takes what it delivers, local is the   *)
(* HalFile on the stack of a HalStorage function.                          *)
Handles == {"walk", "child", "local"}

Closed == [fd |-> None, dir |-> None, path |-> None,
           position |-> 0, failed |-> FALSE]

Texts == UNION {[1 .. n -> Bytes] : n \in 0 .. MaxLen}

CardInit ==
  /\ listing \in SetToSeqs(Names \cup Dots)
  /\ data \in [Files -> Texts]
  /\ slot = [s \in Slots |-> None]
  /\ rest = <<>>
  /\ file = [h \in Handles |-> Closed]

-----------------------------------------------------------------------------
(* Host.                                                                   *)

(* The entries of s that are not gone, in their order.                     *)
Without(s, gone) ==
  LET kept[i \in 0 .. Len(s)] ==
        IF i = 0 THEN <<>>
        ELSE IF s[i] = gone THEN kept[i - 1]
        ELSE Append(kept[i - 1], s[i])
  IN  kept[Len(s)]

Exists(n) == n = Books \/ \E i \in DOMAIN listing : listing[i] = n
FreeSlots == {s \in Slots : slot[s] = None}

OpenOn(n) ==
  [kind |-> IF IsDirectory(n) THEN "dir" ELSE "fd", name |-> n, at |-> 0]

(* Impl::open and Impl::openAsDir take a descriptor, if there is one.      *)
CanOpen(n) == Exists(n) /\ FreeSlots # {}
NextSlot == CHOOSE s \in FreeSlots : TRUE
Opened(n) ==
  IF ~CanOpen(n)         THEN [Closed EXCEPT !.path = n]
  ELSE IF IsDirectory(n) THEN [Closed EXCEPT !.path = n, !.dir = NextSlot]
  ELSE [Closed EXCEPT !.path = n, !.fd = NextSlot]

IsOpen(impl) == impl.fd # None \/ impl.dir # None

(* The slots after the HalFile h is overwritten or destroyed: its file     *)
(* descriptor is closed, its directory stream is not.                      *)
(* Seeded fault: the old descriptor is forgotten.                          *)
DroppedKeepsFd(h) == slot
Dropped(h) ==
  [s \in Slots |-> IF s = file[h].fd THEN None ELSE slot[s]]

(* h = Storage.open(n), or h = walk.openNextFile(): the new file is open   *)
(* before the old one is closed.                                           *)
Assign(h, n) ==
  /\ slot' = IF CanOpen(n) THEN [Dropped(h) EXCEPT ![NextSlot] = OpenOn(n)]
             ELSE Dropped(h)
  /\ file' = [file EXCEPT ![h] = Opened(n)]
AssignClosed(h) ==
  /\ slot' = Dropped(h)
  /\ file' = [file EXCEPT ![h] = Closed]

(* HalFile::close.                                                         *)
CloseSlots(h) ==
  [s \in Slots |-> IF s \in {file[h].fd, file[h].dir} THEN None ELSE slot[s]]
ClosedImpl(h) ==
  [file[h] EXCEPT !.fd = None, !.dir = None, !.failed = FALSE]

Put(text, at, b) ==
  [i \in 1 .. (IF at < Len(text) THEN Len(text) ELSE at + 1) |->
     IF i = at + 1 THEN b ELSE IF i <= Len(text) THEN text[i] ELSE 0]

-----------------------------------------------------------------------------
(* Operations on a handle. walk is for Books, the others for its entries.  *)

(* Storage.open, openFileForRead: whatever h was is dropped.               *)
Open(h, n) ==
  /\ Assign(h, n)
  /\ rest' = IF n = Books THEN listing ELSE rest
  /\ UNCHANGED <<listing, data>>

(* openFileForWrite on a file that exists: O_RDWR | O_CREAT | O_TRUNC.     *)
OpenForWrite(h, n) ==
  /\ Exists(n) /\ ~IsDirectory(n)
  /\ Assign(h, n)
  /\ data' = IF CanOpen(n) THEN [data EXCEPT ![n] = <<>>] ELSE data
  /\ UNCHANGED <<listing, rest>>

Close(h) ==
  /\ slot' = CloseSlots(h)
  /\ file' = [file EXCEPT ![h] = ClosedImpl(h)]
  /\ UNCHANGED <<listing, data, rest>>

(* ~HalFile, and a new HalFile in its place.                               *)
Destroy(h) == AssignClosed(h) /\ UNCHANGED <<listing, data, rest>>

At(h) == slot[file[h].fd].at
NameOf(h) == slot[file[h].fd].name
Size(h) == IF file[h].fd = None THEN 0 ELSE Len(data[NameOf(h)])

(* seek, seek64 and, on a file, seekSet.                                   *)
Seek(h, pos) ==
  /\ file[h].fd # None
  /\ slot' = [slot EXCEPT ![file[h].fd].at = pos]
  /\ UNCHANGED <<listing, data, rest, file>>

WriteByte(h, b) ==
  /\ file[h].fd # None /\ At(h) < MaxLen
  /\ data' = [data EXCEPT ![NameOf(h)] = Put(@, At(h), b)]
  /\ slot' = [slot EXCEPT ![file[h].fd].at = @ + 1]
  /\ UNCHANGED <<listing, rest, file>>

(* What walk's open stream still shows once gone has left the directory    *)
(* and new has joined it. Bound: a stream shows at most as many entries as *)
(* there are names.                                                        *)
Shown(gone, new) ==
  LET kept  == {rest, Without(rest, gone)}
      room  == file["walk"].position + Len(rest) < Cardinality(Names \cup Dots)
  IN  kept \cup {Append(r, new) : r \in IF new \in Names /\ room THEN kept
                                       ELSE {}}

NotOpen(n) == \A s \in Slots : slot[s] # None => slot[s].name # n

(* rename closes the handle, also when it then fails; the handle keeps its *)
(* old path. A file replaces a file, never a directory. Bound: no other    *)
(* handle is open on either.                                               *)
RenameTo(h, n) ==
  LET old == file[h].path
  IN  /\ {old, n} \subseteq Files
      /\ \A s \in Slots \ {file[h].fd} :
           slot[s] # None => slot[s].name \notin {old, n}
      /\ slot' = CloseSlots(h)
      /\ file' = [file EXCEPT ![h] = ClosedImpl(h)]
      /\ IF Exists(old) /\ n # old
         THEN /\ listing' = ReplaceAll(Without(listing, n), old, n)
              /\ data' = [data EXCEPT ![n] = data[old]]
              /\ rest' \in Shown(old, n)
         ELSE UNCHANGED <<listing, data, rest>>

-----------------------------------------------------------------------------
(* Other tasks of the firmware change the card between two host calls.     *)

Create(n) ==
  /\ ~Exists(n) /\ NotOpen(n)
  /\ \E i \in 1 .. Len(listing) + 1 : listing' = InsertAt(listing, i, n)
  /\ data' = IF n \in Files THEN [data EXCEPT ![n] = <<>>] ELSE data
  /\ rest' \in Shown(None, n)
  /\ UNCHANGED <<slot, file>>

Delete(n) ==
  /\ Exists(n)
  /\ listing' = Without(listing, n)
  /\ rest' \in Shown(n, None)
  /\ UNCHANGED <<data, slot, file>>

Rewrite(n, text) ==
  /\ n \in Files /\ Exists(n)
  /\ data' = [data EXCEPT ![n] = text]
  /\ UNCHANGED <<listing, slot, rest, file>>
=============================================================================
