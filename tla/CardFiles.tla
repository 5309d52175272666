------------------------------ MODULE CardFiles -----------------------------
(***************************************************************************)
(* Reading the card (HalStorage.cpp): the iteration of a directory with    *)
(* openNextFile, interrupted and resumed by position and seekSet as a      *)
(* library scan does, and the functions that read or write a whole file.   *)
(* Each makes several host calls; other tasks change the card in between.  *)
(* A behaviour does one or the other (uses).                               *)
(***************************************************************************)
EXTENDS HalFile

CONSTANTS
  Cap,      (* the cap a caller gives to readFileToString                   *)
  Volatile, (* bound: the entries other tasks make and remove               *)
  Written   (* bound: the files that are read and written                   *)

ASSUME CardFilesAssumption ==
  Cap \in Nat /\ Volatile \subseteq Names /\ Written \subseteq Names

VARIABLES
  uses,     (* "walk" or "text"                                             *)
  call,     (* the HalStorage or HalFile function in progress               *)
  saved,    (* the position a suspended iteration will resume from          *)
  seen,     (* how often the iteration has delivered each entry; bound: 2   *)
  stayed,   (* the entries that were there all the time                     *)
  moved,    (* the listing is not the one that walk's position counts       *)
  shifted,  (* an iteration was resumed by a position in another listing    *)
  outcome   (* how the iteration ended for a caller who stops at the first  *)
            (* closed file and asks iterationFailed                         *)

walkVars == <<saved, seen, stayed, moved, shifted, outcome>>
vars == <<cardVars, uses, call, walkVars>>

Idle == [pc |-> "idle", op |-> "none", name |-> None, size |-> 0,
         out |-> <<>>, ok |-> FALSE, quiet |-> TRUE]

Entries == {n \in Names : Exists(n)}

Init ==
  /\ CardInit
  /\ uses \in {"walk", "text"}
  /\ data = [n \in Files |-> <<>>]
  /\ uses = "text" => listing = SetToSeq(Names \cup Dots)
  /\ call = Idle
  /\ saved = None
  /\ seen = [n \in Names |-> 0]
  /\ stayed = {} /\ moved = FALSE /\ shifted = FALSE
  /\ outcome = "none"

Running == call.pc \notin {"idle", "done"}
Walks == uses = "walk" /\ ~Running
Reads == uses = "text" /\ ~Running

-----------------------------------------------------------------------------
(* Iteration.                                                              *)

Restart ==
  /\ seen' = [n \in Names |-> 0]
  /\ stayed' = Entries
  /\ moved' = FALSE /\ shifted' = FALSE
  /\ outcome' = "going"

OpenWalk ==
  /\ Walks
  /\ Open("walk", Books)
  /\ IF CanOpen(Books) THEN Restart
     ELSE outcome' = "none" /\ UNCHANGED <<seen, stayed, moved, shifted>>
  /\ saved' = None
  /\ UNCHANGED <<uses, call>>

Rewind ==
  /\ Walks /\ file["walk"].dir # None
  /\ file' = [file EXCEPT !["walk"].position = 0, !["walk"].failed = FALSE]
  /\ rest' = listing
  /\ Restart
  /\ UNCHANGED <<listing, data, slot, uses, call, saved>>

(* openNextFile reads entries up to the first that is no dot. Seeded fault:*)
(* only what is delivered is counted.                                      *)
DotsAhead == CHOOSE k \in 0 .. Len(rest) :
               /\ \A i \in 1 .. k : rest[i] \in Dots
               /\ k < Len(rest) => rest[k + 1] \notin Dots
CountedDelivered(k) == 1
Counted(k) == k + 1

ReadEntry ==
  /\ Walks /\ file["walk"].dir # None /\ outcome = "going"
  /\ DotsAhead < Len(rest)
  /\ rest' = SubSeq(rest, DotsAhead + 2, Len(rest))
  /\ file' = [file EXCEPT !["walk"].failed = FALSE,
                          !["walk"].position = @ + Counted(DotsAhead)]
  /\ call' = [Idle EXCEPT !.pc = "stat", !.op = "next",
                          !.name = rest[DotsAhead + 1]]
  /\ UNCHANGED <<listing, data, slot, uses, walkVars>>

(* readdir returns NULL, at the end with errno 0. It may also fail.        *)
Ends(error) == IF error THEN "failed" ELSE "complete"

EndEntry(error) ==
  /\ Walks /\ file["walk"].dir # None /\ outcome = "going"
  /\ error \/ DotsAhead = Len(rest)
  /\ rest' = IF error THEN rest ELSE <<>>
  /\ outcome' = Ends(error)
  /\ slot' = Dropped("child")
  /\ file' = [file EXCEPT
                !["walk"].failed = error, !["child"] = Closed,
                !["walk"].position = IF error THEN @ ELSE @ + Len(rest)]
  /\ UNCHANGED <<listing, data, uses, call, saved, seen, stayed, moved,
                 shifted>>

(* stat fails: the entry is gone.                                          *)
StatEntry ==
  /\ call.pc = "stat"
  /\ IF Exists(call.name)
     THEN call' = [call EXCEPT !.pc = "open"]
          /\ UNCHANGED <<slot, file, outcome>>
     ELSE /\ call' = Idle
          /\ outcome' = "failed"
          /\ slot' = Dropped("child")
          /\ file' = [file EXCEPT !["walk"].failed = TRUE,
                                  !["child"] = Closed]
  /\ UNCHANGED <<listing, data, rest, uses, saved, seen, stayed, moved,
                 shifted>>

OpenEntry ==
  /\ call.pc = "open"
  /\ call' = Idle
  /\ LET n == call.name IN
       /\ slot' = IF CanOpen(n)
                  THEN [Dropped("child") EXCEPT ![NextSlot] = OpenOn(n)]
                  ELSE Dropped("child")
       /\ file' = [file EXCEPT !["walk"].failed = ~CanOpen(n),
                               !["child"] = Opened(n)]
       /\ IF CanOpen(n)
          THEN /\ seen' = [seen EXCEPT ![n] = IF @ = 0 THEN 1 ELSE 2]
               /\ UNCHANGED outcome
          ELSE outcome' = "failed" /\ UNCHANGED seen
  /\ UNCHANGED <<listing, data, rest, uses, saved, stayed, moved, shifted>>

(* The caller keeps position() and closes the directory.                   *)
Suspend ==
  /\ Walks /\ file["walk"].dir # None /\ outcome = "going"
  /\ saved' = file["walk"].position
  /\ Close("walk")
  /\ UNCHANGED <<uses, call, seen, stayed, moved, shifted, outcome>>

(* Storage.open and seekSet(saved): rewind and skip as many entries.       *)
Resume ==
  /\ Walks /\ saved # None /\ CanOpen(Books)
  /\ slot' = [Dropped("walk") EXCEPT ![NextSlot] = OpenOn(Books)]
  /\ LET read == IF saved <= Len(listing) THEN saved ELSE Len(listing)
     IN  /\ file' = [file EXCEPT !["walk"] =
                       [Opened(Books) EXCEPT !.position = read]]
         /\ rest' = SubSeq(listing, read + 1, Len(listing))
         /\ outcome' = IF read < saved THEN "failed" ELSE outcome
  /\ saved' = None
  /\ shifted' = (shifted \/ moved)
  /\ moved' = FALSE
  /\ UNCHANGED <<listing, data, uses, call, seen, stayed>>

(* The loop's HalFile is closed or goes out of scope, as does the walk's.  *)
DropChild ==
  /\ Walks /\ IsOpen(file["child"])
  /\ slot' \in {CloseSlots("child"), Dropped("child")}
  /\ file' = [file EXCEPT !["child"] = Closed]
  /\ UNCHANGED <<listing, data, rest, uses, call, walkVars>>

(* Another task has changed the card during or since the call.             *)
Disturbed == IF call.pc = "idle" THEN call ELSE [call EXCEPT !.quiet = FALSE]

(* Another task makes or removes an entry, at any point of a call.         *)
Upload(n) ==
  /\ uses = "walk" /\ Create(n)
  /\ moved' = TRUE
  /\ UNCHANGED <<uses, call, saved, seen, stayed, shifted, outcome>>
Discard(n) ==
  /\ Delete(n)
  /\ stayed' = stayed \ {n}
  /\ moved' = (uses = "walk")
  /\ call' = Disturbed
  /\ UNCHANGED <<uses, saved, seen, shifted, outcome>>

-----------------------------------------------------------------------------
(* Whole files. local is the HalFile on the function's stack.              *)

Shorter(a, b) == IF a < b THEN a ELSE b

(* The bytes a read of up to count delivers; an error delivers -1.         *)
Ahead(count) ==
  LET text == data[NameOf("local")]
  IN  SubSeq(text, At("local") + 1, Shorter(Len(text), At("local") + count))
CanRead(error) == file["local"].fd # None /\ ~error

Padded(text, size) ==
  [i \in 1 .. size |-> IF i <= Len(text) THEN text[i] ELSE 0]

Started(op, n) == [Idle EXCEPT !.pc = op, !.op = op, !.name = n]
Finished(ok, out) == [call EXCEPT !.pc = "done", !.ok = ok, !.out = out]

(* The function returns: local is destroyed, which leaves a directory      *)
(* stream open.                                                            *)
Return(ok, out) ==
  /\ call' = Finished(ok, out)
  /\ AssignClosed("local")
(* The same after file.close().                                            *)
CloseAndReturn(ok, out) ==
  /\ call' = Finished(ok, out)
  /\ slot' = CloseSlots("local")
  /\ file' = [file EXCEPT !["local"] = Closed]

StartRead(op, n) ==
  /\ Reads
  /\ IF CanOpen(n) THEN call' = Started(op, n)
     ELSE call' = [Started(op, n) EXCEPT !.pc = "done"]
  /\ Open("local", n)
  /\ UNCHANGED <<uses, walkVars>>

ReadSize ==
  /\ call.pc \in {"readFileToString", "readFile"}
  /\ LET size == Size("local") IN
       IF /\ call.op = "readFileToString"
          /\ size > Cap \/ file["local"].dir # None
       THEN CloseAndReturn(FALSE, <<>>)
       ELSE /\ call' = [call EXCEPT !.pc = "read", !.size = size]
            /\ UNCHANGED <<slot, file>>
  /\ UNCHANGED <<listing, data, rest, uses, walkVars>>

(* Seeded fault: a short read keeps the zeros resize() has put there.      *)
StringReadPadded(error) ==
  LET text == IF CanRead(error) THEN Ahead(call.size) ELSE <<>>
      ok   == call.size = 0 \/ Len(text) = call.size
  IN  CloseAndReturn(ok, Padded(text, call.size))
StringRead(error) ==
  LET text == IF CanRead(error) THEN Ahead(call.size) ELSE <<>>
      ok   == call.size = 0 \/ Len(text) = call.size
  IN  CloseAndReturn(ok, IF ok THEN text ELSE <<>>)

ReadWhole(error) ==
  /\ call.pc = "read"
  /\ IF call.op = "readFileToString" THEN StringRead(error)
     ELSE Return(TRUE, Padded(IF CanRead(error) THEN Ahead(call.size)
                              ELSE <<>>, call.size))
  /\ UNCHANGED <<listing, data, rest, uses, walkVars>>

(* readFileToStream, with chunks of one byte.                              *)
ReadChunk(error) ==
  /\ call.pc = "readFileToStream"
  /\ IF CanRead(error) /\ Ahead(1) # <<>>
     THEN /\ call' = [call EXCEPT !.out = @ \o Ahead(1)]
          /\ slot' = [slot EXCEPT ![file["local"].fd].at = @ + 1]
          /\ UNCHANGED file
     ELSE Return(TRUE, call.out)
  /\ UNCHANGED <<listing, data, rest, uses, walkVars>>

(* readFileToBuffer; limit is what bufferSize and maxBytes leave.          *)
ReadBuffer(error, limit) ==
  /\ call.pc = "readFileToBuffer"
  /\ Return(TRUE, IF CanRead(error) THEN Ahead(limit) ELSE <<>>)
  /\ UNCHANGED <<listing, data, rest, uses, walkVars>>

(* writeFile: the host may take a part only; the result is not looked at.  *)
StartWrite(n, text) ==
  /\ Reads /\ n \in Files
  /\ OpenForWrite("local", n)
  /\ call' = IF CanOpen(n)
             THEN [Started("writeFile", n) EXCEPT !.out = text]
             ELSE [Started("writeFile", n) EXCEPT !.pc = "done"]
  /\ UNCHANGED <<uses, walkVars>>
WriteText(k) ==
  /\ call.pc = "writeFile" /\ k <= Len(call.out)
  /\ data' = [data EXCEPT ![call.name] = SubSeq(call.out, 1, k)]
  /\ Return(TRUE, call.out)
  /\ UNCHANGED <<listing, rest, uses, walkVars>>

(* The firmware's other uses of a file handle.                             *)
UseChild ==
  /\ uses = "text" /\ ~Running
  /\ \/ \E n \in Written : Open("child", n) \/ OpenForWrite("child", n)
     \/ \E pos \in 0 .. MaxLen : Seek("child", pos)
     \/ \E b \in Bytes : WriteByte("child", b)
     \/ \E n \in Files : RenameTo("child", n)
     \/ Close("child") \/ Destroy("child")
  /\ call' = Idle
  /\ UNCHANGED <<uses, walkVars>>
Replace(n, text) ==
  /\ uses = "text" /\ Rewrite(n, text)
  /\ call' = Disturbed
  /\ UNCHANGED <<uses, walkVars>>

WalkNext ==
  \/ OpenWalk \/ Rewind \/ ReadEntry \/ StatEntry \/ OpenEntry
  \/ Suspend \/ Resume \/ DropChild
  \/ \E error \in BOOLEAN : EndEntry(error)
  \/ \E n \in Volatile : Upload(n) \/ Discard(n)

TextNext ==
  \/ \E n \in Names, op \in {"readFileToString", "readFile",
                            "readFileToStream", "readFileToBuffer"} :
       StartRead(op, n)
  \/ ReadSize
  \/ \E error \in BOOLEAN :
       \/ ReadWhole(error) \/ ReadChunk(error)
       \/ \E limit \in 0 .. MaxLen : ReadBuffer(error, limit)
  \/ \E n \in Written, text \in Texts : StartWrite(n, text) \/ Replace(n, text)
  \/ \E k \in 0 .. MaxLen : WriteText(k)
  \/ UseChild

Next == WalkNext \/ TextNext
Spec == Init /\ [][Next]_vars

-----------------------------------------------------------------------------
(* Properties.                                                             *)

(* Every file descriptor of the process is held by exactly one HalFile,    *)
(* open on the file it is thought to be: move-assignment, destruction and  *)
(* every early return close it once. Only directory streams may leak.      *)
DescriptorsOwned ==
  /\ \A h \in Handles :
       /\ file[h].fd # None => /\ slot[file[h].fd] # None
                               /\ slot[file[h].fd].kind = "fd"
       /\ file[h].dir # None => /\ slot[file[h].dir] # None
                                /\ slot[file[h].dir].kind = "dir"
  /\ \A s \in Slots : slot[s] # None /\ slot[s].kind = "fd" =>
       \E h \in Handles : file[h].fd = s
  /\ \A g, h \in Handles : g # h =>
       {file[g].fd, file[g].dir} \cap {file[h].fd, file[h].dir}
         \subseteq {None}

(* An iteration that ended without iterationFailed() has delivered every   *)
(* entry that was there all the time exactly once, also when it was closed *)
(* and resumed at its position, whatever other tasks made or removed,      *)
(* unless the directory it resumed in is not the one it counted.           *)
IterationComplete ==
  outcome = "complete" /\ ~shifted => \A n \in stayed : seen[n] = 1

(* readFileToString gives the whole file, as long as it was measured, or   *)
(* nothing, even when the file shrinks or grows between size() and read(). *)
AllOrNothing ==
  call.pc = "done" /\ call.op = "readFileToString" =>
    IF call.ok
    THEN /\ call.name \in Files
         /\ Len(call.out) = call.size /\ call.size <= Cap
         /\ call.quiet => call.out = data[call.name]
    ELSE call.out = <<>>

(* "Returns true on success, false on failure" (HalStorage.h:34, 41): a    *)
(* true of readFileToStream or writeFile on an undisturbed file means that *)
(* the whole content has been moved. It does not.                          *)
SuccessIsTrue ==
  call.pc = "done" /\ call.ok /\ call.quiet
    /\ call.op \in {"readFileToStream", "writeFile"} =>
      call.name \in Files /\ data[call.name] = call.out
=============================================================================
