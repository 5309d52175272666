----------------------------- MODULE FileServer -----------------------------
(***************************************************************************)
(* The simulator's own file transfer server (CrossPointWebServer.cpp): one *)
(* worker that serves a request at a time on the SD card, while the main   *)
(* thread starts and stops it and reads the upload status.                 *)
(*                                                                         *)
(* Files that are sent are not empty. Nobody else changes the card while a *)
(* request is served. How the text of a request is taken apart is the      *)
(* subject of HttpText.                                                    *)
(***************************************************************************)
EXTENDS SimStorage

CONSTANTS
  Names,     (* names of files and directories                             *)
  Protected, (* those isProtectedName() guards                             *)
  Sent       (* contents of files that clients send                        *)

ASSUME FileServerAssumption ==
  /\ Protected \subseteq Names
  /\ Sent # {} /\ Sent \subseteq Contents \ {Cut}
  /\ Paths \subseteq Seq(Names)

IsProtectedPath(p) == \E i \in DOMAIN p : p[i] \in Protected

Reading == {"PROPFIND", "files", "download"}
Changing == {"mkdir", "delete", "PUT", "upload"}
OnePath == Changing \cup Reading
TwoPaths == {"rename", "MOVE", "COPY"}

(* mkdir: /mkdir and MKCOL; rename: /rename and /move; delete: /delete and *)
(* DELETE; files: GET /api/files; download: GET and HEAD /download. dest   *)
(* is the path that is made, written, renamed to or read. Only MOVE and    *)
(* COPY have an Overwrite header.                                          *)
Requests ==
  {r \in [verb : OnePath \cup TwoPaths, source : Paths, dest : Paths,
          overwrite : BOOLEAN, content : Sent] :
     /\ r.verb \in OnePath => r.source = r.dest
     /\ r.verb \notin {"MOVE", "COPY"} => r.overwrite}

VARIABLES
  tree,       (* the card                                                  *)
  running,    (* CrossPointWebServer::running, NativeServerState::active   *)
  pc,         (* what the worker does                                      *)
  request,    (* the request it serves                                     *)
  code,       (* the status it answers with                                *)
  body,       (* the entries of the card that the answer shows             *)
  upload,     (* NativeServerState::uploadStatus                           *)
  old,        (* history: the card when the request came                   *)
  misread     (* history: the host failed to read during a copy            *)

serverVars == <<running, upload>>
vars == <<tree, running, pc, request, code, body, upload, old, misread>>

NoUpload == [inProgress |-> FALSE, name |-> <<>>]

NoBody == [q \in {} |-> None]

NoRequest == [verb |-> "none", source |-> <<>>, dest |-> <<>>,
              overwrite |-> TRUE, content |-> CHOOSE c \in Sent : TRUE]

(* Any card may be in the slot.                                            *)
Init ==
  /\ tree \in {t \in Trees : \A p \in Paths : t[p] # Cut}
  /\ old = tree /\ misread = FALSE
  /\ running = FALSE /\ pc = "off"
  /\ request = NoRequest /\ code = 0 /\ body = NoBody /\ upload = NoUpload

-----------------------------------------------------------------------------
(* The main thread.                                                        *)

(* A new NativeServerState, and its worker.                                *)
Begin ==
  /\ ~running /\ pc = "off"
  /\ running' = TRUE
  /\ pc' = "accept"
  /\ upload' = NoUpload
  /\ UNCHANGED <<tree, request, code, body, old, misread>>

(* stop() up to the join: the worker ends its request first, the one that  *)
(* it is about to receive, too.                                            *)
Stop ==
  /\ running
  /\ running' = FALSE
  /\ UNCHANGED <<tree, pc, request, code, body, upload, old, misread>>

Join ==
  /\ ~running /\ pc = "accept"
  /\ pc' = "off"
  /\ UNCHANGED <<tree, running, request, code, body, upload, old, misread>>

-----------------------------------------------------------------------------
(* The worker.                                                             *)

(* Seeded fault: the destination is not looked at.                         *)
ForbiddenSourceOnly(r) ==
  <<>> \in {r.source, r.dest} \/ IsProtectedPath(r.source)

(* The requests that are answered with 403, 404 for a download, or 400 for *)
(* a name of a file to upload. The root may only be listed.                *)
Forbidden(r) ==
  \E p \in {r.source, r.dest} :
    IsProtectedPath(p) \/ (p = <<>> /\ r.verb \notin {"PROPFIND", "files"})

(* /rename gives a new name in the same directory, /move the same name in  *)
(* another one.                                                            *)
WellFormed(r) ==
  r.verb = "rename" /\ ~Forbidden(r) =>
    Parent(r.source) = Parent(r.dest) \/ Last(r.source) = Last(r.dest)

(* Seeded fault: the Overwrite header is not looked at.                    *)
RefusalOverwrites(r) ==
  IF Forbidden(r) THEN 403
  ELSE IF r.verb \in {"MOVE", "COPY", "PROPFIND", "download"}
       /\ tree[r.source] = None THEN 404 ELSE 0

Refusal(r) ==
  IF Forbidden(r) THEN IF r.verb = "download" THEN 404 ELSE 403
  ELSE IF r.verb \notin {"MOVE", "COPY", "PROPFIND", "download"} THEN 0
  ELSE IF tree[r.source] = None THEN 404
  ELSE IF /\ r.verb \in {"MOVE", "COPY"}
          /\ tree[r.dest] # None /\ ~r.overwrite THEN 412 ELSE 0

Accept ==
  /\ running /\ pc = "accept"
  /\ pc' = "receive"
  /\ UNCHANGED <<tree, serverVars, request, code, body, old, misread>>

AnswerAtOnce(c) ==
  /\ pc = "receive"
  /\ code' = c
  /\ pc' = "reply"
  /\ UNCHANGED <<tree, serverVars, request, body, old, misread>>

(* parseRequest gives up: a head or body that does not come whole or in    *)
(* time, or is too long; or the path leaves the card.                      *)
BadRequest == AnswerAtOnce(400)

(* OPTIONS, LOCK, the page, its status, and what nobody knows are answered *)
(* without a look at the card.                                             *)
OtherRequest == \E c \in {200, 204, 404, 501} : AnswerAtOnce(c)

(* A request up to its first effect.                                       *)
Receive(r) ==
  /\ pc = "receive"
  /\ WellFormed(r)
  /\ request' = r /\ old' = tree /\ misread' = FALSE
  /\ code' = Refusal(r)
  /\ pc' = IF Refusal(r) # 0 THEN "reply"
           ELSE IF r.verb \in {"MOVE", "COPY"} /\ tree[r.dest] # None
           THEN "clear" ELSE r.verb
  /\ UNCHANGED <<tree, serverVars, body>>

-----------------------------------------------------------------------------
(* Requests that read.                                                     *)

Children(p) ==
  {q \in Below(tree, p) : Len(q) = Len(p) + 1 /\ ~IsProtectedPath(q)}

(* A path and, when it is a directory, what is in it. The listing ends at  *)
(* an entry that cannot be read; what cannot be opened shows nothing.      *)
Propfind ==
  /\ pc = "PROPFIND"
  /\ \E depth \in {0, 1}, misses \in BOOLEAN :
       LET p   == request.source
           all == {p} \cup IF tree[p] = Dir /\ depth = 1 THEN Children(p)
                           ELSE {}
       IN  \E shown \in IF misses THEN SUBSET all ELSE {all} :
             /\ shown # {} => p \in shown
             /\ body' = Restrict(tree, shown)
             /\ misread' = misses
  /\ code' = 207 /\ pc' = "reply"
  /\ UNCHANGED <<tree, serverVars, request, old>>

(* What is no directory has no entries.                                    *)
ListFiles ==
  /\ pc = "files"
  /\ \E misses \in BOOLEAN :
       LET all == IF tree[request.source] = Dir THEN Children(request.source)
                  ELSE {}
       IN  \E shown \in IF misses THEN SUBSET all ELSE {all} :
             /\ body' = Restrict(tree, shown)
             /\ misread' = misses
  /\ code' = 200 /\ pc' = "reply"
  /\ UNCHANGED <<tree, serverVars, request, old>>

(* No file, or one that cannot be opened.                                  *)
NotAFile ==
  /\ pc = "download"
  /\ code' = 400 /\ pc' = "reply"
  /\ UNCHANGED <<tree, serverVars, request, body, old, misread>>

DownloadHead ==
  /\ pc = "download" /\ tree[request.source] # Dir
  /\ code' = 200 /\ pc' = "reply"
  /\ UNCHANGED <<tree, serverVars, request, body, old, misread>>

(* A read that fails ends the body before the length that was announced.   *)
Download ==
  /\ pc = "download" /\ tree[request.source] # Dir
  /\ \E content \in {tree[request.source], Cut} :
       /\ body' = [q \in {request.source} |-> content]
       /\ misread' = (content # tree[request.source])
  /\ code' = 200 /\ pc' = "reply"
  /\ UNCHANGED <<tree, serverVars, request, old>>

-----------------------------------------------------------------------------
(* Requests that change the card.                                          *)

(* The outcome of a call decides the answer.                               *)
Answer(outcomes) ==
  \E o \in outcomes :
    /\ tree' = o.tree
    /\ code' = IF o.ok THEN 200 ELSE 500
    /\ pc' = "reply"

MakeDirectory ==
  /\ pc = "mkdir"
  /\ Answer(Mkdir(tree, request.dest))
  /\ UNCHANGED <<serverVars, request, body, old, misread>>

RenameEntry ==
  /\ pc \in {"rename", "MOVE"}
  /\ Answer(Rename(tree, request.source, request.dest))
  /\ UNCHANGED <<serverVars, request, body, old, misread>>

(* A directory with all it holds, or a file.                               *)
RemoveEntry(p) == IF tree[p] = Dir THEN RemoveDirRecursive(tree, p)
                                   ELSE RemoveFile(tree, p)

Delete ==
  /\ pc = "delete"
  /\ Answer(RemoveEntry(request.source))
  /\ UNCHANGED <<serverVars, request, body, old, misread>>

Put ==
  /\ pc = "PUT"
  /\ Answer(Write(tree, request.dest, request.content))
  /\ UNCHANGED <<serverVars, request, body, old, misread>>

(* The directory is made first; whether that worked is not looked at.      *)
UploadStart ==
  /\ pc = "upload"
  /\ LET d == Parent(request.dest)
     IN  \E o \in IF tree[d] = None THEN Mkdir(tree, d) ELSE {Done(tree)} :
           tree' = o.tree
  /\ upload' = [upload EXCEPT !.inProgress = TRUE]
  /\ pc' = "store"
  /\ UNCHANGED <<running, request, code, body, old, misread>>

UploadDone ==
  /\ pc = "store"
  /\ \E o \in Write(tree, request.dest, request.content) :
       /\ tree' = o.tree
       /\ code' = IF o.ok THEN 200 ELSE 500
       /\ upload' = IF o.ok THEN [NoUpload EXCEPT !.name = request.dest]
                    ELSE NoUpload
  /\ pc' = "reply"
  /\ UNCHANGED <<running, request, body, old, misread>>

(* MOVE and COPY remove what is in the way.                                *)
ClearDestination ==
  /\ pc = "clear"
  /\ \E o \in RemoveEntry(request.dest) :
       /\ tree' = o.tree
       /\ code' = IF o.ok THEN 0 ELSE 500
       /\ pc' = IF o.ok THEN request.verb ELSE "reply"
  /\ UNCHANGED <<serverVars, request, body, old, misread>>

(* What a copy takes along: nothing protected.                             *)
Copyable(t, source) ==
  {q \in Below(t, source) : ~IsProtectedPath(Rest(source, q))}

(* The copy stops where a call fails, inside nested directories: those it  *)
(* has not done with are one within the other.                             *)
StopsAtOnce(nodes, s) ==
  LET unfinished == {d \in s : ~(Descendants(d) \cap nodes \subseteq s)}
  IN  \A d, e \in unfinished : IsPrefix(d, e) \/ IsPrefix(e, d)

(* A part s of the nodes, closed under parents, of whose files those in    *)
(* cut are not whole.                                                      *)
CopyResults(t, source, dest, s, cut) ==
  {[q \in Paths |-> IF IsPrefix(dest, q) /\ source \o Rest(dest, q) \in cut
                    THEN Cut ELSE Copied(tree, u, s, source, dest)[q]] :
     u \in {v \in EnsureParents(t, dest) : s # {} => HasParent(v, dest)}}

(* Seeded fault: a child that cannot be copied is passed over.             *)
CopyOutcomeLenient(nodes, s, cut, ok, misses) ==
  ok => s # {}

(* When the copy succeeds everything was copied, except what could not be  *)
(* read: the end of a file or of a directory that cannot be read counts as *)
(* copied. When it fails a file that is not whole is removed; the removal  *)
(* may fail. A copy into the directory itself copies its own copy, until   *)
(* the host refuses to nest deeper.                                        *)
CopyOutcome(nodes, s, cut, ok, misses) ==
  /\ misses => s # {}
  /\ ok => s # {} /\ (misses \/ (s = nodes /\ cut = {}))
  /\ ~ok /\ ~misses => /\ nodes # {} => s # nodes \/ cut # {}
                       /\ Cardinality(cut) <= 1
                       /\ StopsAtOnce(nodes, s)

Copy ==
  /\ pc = "COPY"
  /\ LET source == request.source
         dest   == request.dest
         nodes  == Copyable(tree, source)
         parts  == {s \in SUBSET nodes : /\ Fits(s, source, dest)
                                         /\ \A q \in s : \A p \in nodes :
                                              IsPrefix(p, q) => p \in s}
         itself == IsPrefix(source, dest)
     IN  \E s \in parts, ok, misses \in BOOLEAN :
           \E cut \in SUBSET {q \in s : tree[q] \in Contents} :
             /\ CopyOutcome(nodes, s, cut, ok, misses) \/ (itself /\ ~ok)
             /\ itself /\ ~misses => ~ok
             /\ tree' \in CopyResults(tree, source, dest, s, cut)
             /\ misread' = misses
             /\ code' = IF ok THEN 200 ELSE 500
  /\ pc' = "reply"
  /\ UNCHANGED <<serverVars, request, body, old>>

Reply ==
  /\ pc = "reply"
  /\ request' = NoRequest /\ old' = tree /\ misread' = FALSE /\ code' = 0
  /\ body' = NoBody /\ pc' = "accept"
  /\ UNCHANGED <<tree, serverVars>>

-----------------------------------------------------------------------------

Next ==
  \/ Begin \/ Stop \/ Join
  \/ Accept
  \/ BadRequest \/ OtherRequest
  \/ \E r \in Requests : Receive(r)
  \/ Propfind \/ ListFiles \/ NotAFile \/ DownloadHead \/ Download
  \/ MakeDirectory \/ RenameEntry \/ Delete \/ Put \/ UploadStart \/ UploadDone
  \/ ClearDestination \/ Copy \/ Reply

Spec == Init /\ [][Next]_vars

-----------------------------------------------------------------------------
(* Properties.                                                             *)

(* Every variable keeps its type.                                          *)
TypeOK ==
  /\ DOMAIN tree = Paths /\ DOMAIN old = Paths /\ misread \in BOOLEAN
  /\ running \in BOOLEAN
  /\ pc \in {"off", "accept", "receive", "clear", "store", "reply"}
             \cup OnePath \cup TwoPaths
  /\ request \in Requests \cup {NoRequest}
  /\ code \in {0, 200, 204, 207, 400, 403, 404, 412, 500, 501}
  /\ DOMAIN body \subseteq Paths
  /\ upload \in [inProgress : BOOLEAN, name : Paths]

(* No request, in whatever order and whatever the host refuses, changes a  *)
(* protected entry of the root or anything below it.                       *)
SystemFilesKept ==
  [][\A p \in Paths \ {<<>>} :
       Head(p) \in Protected => tree'[p] = tree[p]]_vars

(* The entries that a request may change or remove.                        *)
Touched(r) ==
  (IF r.verb \in {"PUT", "upload"} THEN {r.dest} ELSE {})
  \cup (IF r.verb \in {"delete", "rename", "MOVE"}
        THEN Descendants(r.source) ELSE {})
  \cup (IF r.verb \in TwoPaths /\ r.overwrite
        THEN Descendants(r.dest) ELSE {})

(* When a request is answered, also when it has failed half way, all else  *)
(* is as it was, nothing appeared but the destination and directories on   *)
(* the way to it, and files that were to be moved are at their old place   *)
(* or at the new one. Those that the destination held are excepted: a MOVE *)
(* of an entry onto itself or onto a directory around it removes them.     *)
NothingElseLost ==
  pc = "reply" =>
    /\ \A p \in Paths \ Touched(request) : old[p] # None => tree[p] = old[p]
    /\ \A p \in Paths : old[p] = None /\ tree[p] # None =>
         p \in Descendants(request.dest) \cup Ancestors(request.dest)
    /\ request.verb \in {"rename", "MOVE"} =>
         \A p \in Descendants(request.source) \ Descendants(request.dest) :
           old[p] \in Contents =>
           \E q \in {p, request.dest \o Rest(request.source, p)} \cap Paths :
             tree[q] = old[p]

(* The entries of a directory that clients may see.                        *)
Listed(p) ==
  {q \in Paths \ {<<>>} : /\ Parent(q) = p /\ old[q] # None
                         /\ Last(q) \notin Protected}

(* Did the request do what it was for? A directory that is to be made      *)
(* where something is already, a file too, counts as made, and what is     *)
(* there stays (HalStorage.cpp:429).                                       *)
Fulfilled(r) ==
  /\ r.verb = "none" => body = NoBody
  /\ r.verb = "PROPFIND" =>
       \/ DOMAIN body = {r.source}
       \/ DOMAIN body = {r.source} \cup Listed(r.source)
  /\ r.verb = "files" => DOMAIN body = Listed(r.source)
  /\ r.verb = "download" => DOMAIN body \in {{}, {r.source}}
  /\ r.verb = "mkdir" =>
       tree[r.dest] = IF old[r.dest] = None THEN Dir ELSE old[r.dest]
  /\ r.verb = "delete" => Below(tree, r.source) = {}
  /\ r.verb \in {"PUT", "upload"} => tree[r.dest] = r.content
  /\ r.verb = "COPY" =>
       \A p \in Copyable(old, r.source) :
         /\ r.dest \o Rest(r.source, p) \in Paths
         /\ tree[r.dest \o Rest(r.source, p)] = old[p]
         /\ tree[p] = old[p]
  /\ r.verb \in {"rename", "MOVE"} /\ r.source # r.dest =>
       /\ Below(tree, r.source) = {}
       /\ \A p \in Below(old, r.source) :
            tree[r.dest \o Rest(r.source, p)] = old[p]

(* Did the request do a part of it? A listing lacks entries; a copy has a  *)
(* top, and what else there is of it is the source's, files as they are or *)
(* cut.                                                                    *)
DoneInPart(r) ==
  /\ r.verb \in {"PROPFIND", "files", "COPY"}
  /\ r.verb = "PROPFIND" =>
       DOMAIN body \subseteq {r.source} \cup Listed(r.source)
  /\ r.verb = "files" => DOMAIN body \subseteq Listed(r.source)
  /\ r.verb = "COPY" =>
       /\ tree[r.dest] # None
       /\ \A q \in Descendants(r.dest) :
            LET p == r.source \o Rest(r.dest, q)
            IN  \/ tree[q] = None
                \/ p \in Copyable(old, r.source) /\ tree[q] \in {old[p], Cut}

(* A request that was refused or only reads changed nothing. One that      *)
(* succeeded is done, to the last file. The code takes a read of the host  *)
(* that fails for the end of what it reads: then, and only for a listing   *)
(* or a copy, a success may be done in part. What an answer shows is on    *)
(* the card and not protected, and whole unless a read failed; and the     *)
(* status of an upload says what its answer says.                          *)
AnswersAreTrue ==
  pc = "reply" =>
    /\ code \in {204, 207, 400, 403, 404, 412, 501} => tree = old
    /\ code \in {200, 207} =>
         (misread /\ DoneInPart(request)) \/ Fulfilled(request)
    /\ \A q \in DOMAIN body :
         /\ ~IsProtectedPath(q)
         /\ body[q] = old[q] \/ (misread /\ body[q] = Cut)
    /\ ~upload.inProgress
    /\ request.verb = "upload" /\ code # 403 =>
         upload.name = IF code = 200 THEN request.dest ELSE <<>>
=============================================================================
