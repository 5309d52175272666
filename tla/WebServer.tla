----------------------------- MODULE WebServer -----------------------------
(***************************************************************************)
(* The HTTP server the firmware's routes run on (WebServer.cpp).           *)
(*                                                                         *)
(* One worker thread takes connection after connection: headers, body,     *)
(* raw handlers, multipart files, a route, a request handler or the        *)
(* not-found handler, close. What is known of the request lives in Impl    *)
(* and is reset between requests. begin() and stop() are called by the     *)
(* main thread.                                                            *)
(*                                                                         *)
(* Bodies are counted in units, header fields and arguments are left out.  *)
(* The firmware's handlers are external: a raw or upload callback does not *)
(* answer the request, any other handler may call send(), sendContent()    *)
(* and setContentLength() as it likes and returns in the end.              *)
(***************************************************************************)
EXTENDS Integers, Sequences, Functions

CONSTANTS
  Uris,
  Routes,    (* routes: Seq of [uri, method, upload]                       *)
  Files,     (* sizes of the files a multipart body may hold: Seqs of Nat  *)
  ChunkSize, (* UPLOAD_CHUNK_SIZE                                          *)
  RecvSize,  (* size of the receive buffer                                 *)
  MaxBody,   (* MAX_BODY_SIZE                                              *)
  MaxReply   (* bound: units the firmware sends in one reply               *)

Methods == {"GET", "HEAD", "POST"}

ASSUME WebServerAssumption ==
  /\ Routes \in Seq([uri : Uris, method : Methods \cup {"ANY"},
                     upload : BOOLEAN])
  /\ Files \subseteq Seq(Nat)
  /\ {ChunkSize, RecvSize} \subseteq Nat \ {0}
  /\ {MaxBody, MaxReply} \subseteq Nat

(* The files of a multipart body fit in it, and no other body has files.   *)
FilesFit(r) ==
  IF r.multipart THEN FoldFunction(+, 0, r.files) <= r.length
  ELSE r.files = <<>>

(* raw: does some request handler want the raw body (canRaw)? A body       *)
(* longer than MaxBody is refused.                                         *)
Requests ==
  {r \in [uri : Uris, method : Methods, length : 0 .. MaxBody + 1,
          raw : BOOLEAN, multipart : BOOLEAN, files : Files] : FilesFit(r)}

VARIABLES
  active,        (* Impl::active                                           *)
  listening,     (* Impl::fd >= 0                                          *)
  mpc,           (* the main thread: "idle", or where it is in stop()      *)
  pc,            (* the worker                                             *)
  request,       (* the request the worker reads or serves                 *)
  received,      (* units of its body that have arrived                    *)
  written,       (* units of its body, or of a file, passed on             *)
  part,          (* the file of the multipart body that is passed on       *)
  currentClient, (* "none", "open" or, after an early end, "closed"        *)
  headersSent,   (* Impl::headersSent                                      *)
  contentLength, (* what setContentLength() left in Impl                   *)
  wire,          (* history: what was sent on this connection              *)
  asked,         (* history: the length set for this connection            *)
  raw, file      (* history: what handlers were told on this connection of *)
                 (* the raw body and of a file, see UploadStreams          *)

mainVars == <<active, listening, mpc>>
bodyVars == <<request, received, written, part>>
replyVars == <<currentClient, headersSent, contentLength>>
streamVars == <<raw, file>>
vars == <<active, listening, mpc, pc, request, received, written, part,
          currentClient, headersSent, contentLength, wire, asked, raw, file>>

Unset == -1
Unknown == -2
Lengths == {Unset, Unknown} \cup 0 .. MaxReply

Labels ==
  {"off", "test", "accept", "header", "rawStart", "body", "tooLarge",
   "multipartAbort", "dispatch", "file", "route", "handlers", "notFound",
   "close", "done"}

NoRequest == [uri |-> "", method |-> "GET", length |-> 0, raw |-> FALSE,
              multipart |-> FALSE, files |-> <<>>]

(* The history of a stream: pieces [from, to) of total units. What the     *)
(* handlers were told last is its state.                                   *)
Started(total) == [state |-> "open", from |-> 0, to |-> 0, total |-> total]
Piece(stream, from, to) ==
  [state |-> stream.state, from |-> from, to |-> to, total |-> stream.total]
Over(how) == [state |-> how, from |-> 0, to |-> 0, total |-> 0]
FileOpen == file.state = "open"

NothingSent == [lines |-> 0, body |-> 0]

Init ==
  /\ active = FALSE /\ listening = FALSE /\ mpc = "idle" /\ pc = "off"
  /\ request = NoRequest /\ received = 0 /\ written = 0 /\ part = 0
  /\ currentClient = "none" /\ headersSent = FALSE /\ contentLength = Unset
  /\ wire = NothingSent /\ asked = Unset
  /\ raw = Over("none") /\ file = Over("none")

-----------------------------------------------------------------------------
(* The main thread.                                                        *)

(* Nothing happens when socket, bind or listen fails.                      *)
Begin ==
  /\ mpc = "idle" /\ ~active
  /\ active' = TRUE /\ listening' = TRUE
  /\ pc' = "test"
  /\ UNCHANGED <<mpc, bodyVars, replyVars, wire, asked, streamVars>>

StopStart ==
  /\ mpc = "idle" /\ active
  /\ active' = FALSE
  /\ mpc' = "listen"
  /\ UNCHANGED <<listening, pc, bodyVars, replyVars, wire, asked, streamVars>>

StopListen ==
  /\ mpc = "listen"
  /\ listening' = FALSE
  /\ mpc' = "join"
  /\ UNCHANGED <<active, pc, bodyVars, replyVars, wire, asked, streamVars>>

StopJoin ==
  /\ mpc = "join" /\ pc = "done"
  /\ pc' = "off"
  /\ mpc' = "idle"
  /\ UNCHANGED <<active, listening, bodyVars, replyVars, wire, asked,
                 streamVars>>

-----------------------------------------------------------------------------
(* The worker between requests.                                            *)

(* Seeded fault: the worker looks at active only when it starts.           *)
TestNothing ==
  /\ pc = "test"
  /\ pc' = "accept"
  /\ UNCHANGED <<mainVars, bodyVars, replyVars, wire, asked, streamVars>>

TestActive ==
  /\ pc = "test"
  /\ pc' = IF active THEN "accept" ELSE "done"
  /\ UNCHANGED <<mainVars, bodyVars, replyVars, wire, asked, streamVars>>

Accept ==
  /\ pc = "accept" /\ listening
  /\ pc' = "header"
  /\ wire' = NothingSent /\ asked' = Unset
  /\ raw' = Over("none") /\ file' = Over("none")
  /\ UNCHANGED <<mainVars, bodyVars, replyVars>>

AcceptFail ==
  /\ pc = "accept"
  /\ pc' = "test"
  /\ UNCHANGED <<mainVars, bodyVars, replyVars, wire, asked, streamVars>>

(* The peer closes, is silent for five seconds or sends 1 MiB of headers.  *)
HeaderFail ==
  /\ pc = "header"
  /\ pc' = "test"
  /\ UNCHANGED <<mainVars, bodyVars, replyVars, wire, asked, streamVars>>

(* Seeded fault: headersSent is not reset.                                 *)
ResetAllButSent ==
  /\ contentLength' = Unset
  /\ UNCHANGED headersSent

(* resetRequest; currentClient is for the caller to set.                   *)
ResetRequest ==
  /\ contentLength' = Unset
  /\ headersSent' = FALSE

(* The header is complete; early units of the body came with it.           *)
Header(r, early) ==
  /\ pc = "header"
  /\ ResetRequest
  /\ currentClient' = "open"
  /\ request' = r
  /\ received' = early /\ written' = 0
  /\ pc' = "rawStart"
  /\ UNCHANGED <<mainVars, part, wire, asked, streamVars>>

-----------------------------------------------------------------------------
(* The body.                                                               *)

RawStart ==
  /\ pc = "rawStart"
  /\ raw' = IF request.raw THEN Started(request.length) ELSE raw
  /\ pc' = IF request.length > MaxBody THEN "tooLarge" ELSE "body"
  /\ UNCHANGED <<mainVars, bodyVars, replyVars, wire, asked, file>>

(* sendSimpleResponse and ::close. currentClient keeps the closed          *)
(* descriptor until the next request.                                      *)
ErrorReply ==
  /\ wire' = [lines |-> wire.lines + 1, body |-> wire.body + 1]
  /\ currentClient' = "closed"
  /\ pc' = "test"

(* emitRawEvent(RAW_END) and (RAW_ABORTED), when there are raw handlers.   *)
EmitRaw(how) == raw' = IF request.raw THEN Over(how) ELSE raw

TooLarge ==
  /\ pc = "tooLarge"
  /\ EmitRaw("aborted")
  /\ ErrorReply
  /\ UNCHANGED <<mainVars, bodyVars, headersSent, contentLength, asked, file>>

Smaller(a, b) == IF a < b THEN a ELSE b
PassedOn == request.raw => written = received

RawWrite ==
  /\ pc = "body" /\ request.raw /\ written < received
  /\ LET n == Smaller(ChunkSize, received - written)
     IN  /\ written' = written + n
         /\ raw' = Piece(raw, written, written + n)
  /\ UNCHANGED <<mainVars, pc, request, received, part, replyVars, wire,
                 asked, file>>

Recv(n) ==
  /\ pc = "body" /\ PassedOn
  /\ received < request.length
  /\ received' = received + Smaller(n, request.length - received)
  /\ UNCHANGED <<mainVars, pc, request, written, part, replyVars, wire,
                 asked, streamVars>>

(* Seeded fault: a body that was cut short is reported as complete.        *)
RecvFailEnds ==
  /\ pc = "body" /\ PassedOn
  /\ received < request.length
  /\ EmitRaw("ended")
  /\ pc' = "multipartAbort"
  /\ UNCHANGED <<mainVars, bodyVars, replyVars, wire, asked, file>>

(* The peer closes or is silent for five seconds.                          *)
RecvFail ==
  /\ pc = "body" /\ PassedOn
  /\ received < request.length
  /\ EmitRaw("aborted")
  /\ pc' = "multipartAbort"
  /\ UNCHANGED <<mainVars, bodyVars, replyVars, wire, asked, file>>

(* emitMultipartAbort tells the first upload handler of the route, which   *)
(* has no stream open, and the answer is 400.                              *)
Truncated ==
  /\ pc = "multipartAbort"
  /\ ErrorReply
  /\ UNCHANGED <<mainVars, bodyVars, headersSent, contentLength, asked,
                 streamVars>>

BodyDone ==
  /\ pc = "body" /\ PassedOn
  /\ received = request.length
  /\ EmitRaw("ended")
  /\ pc' = "dispatch"
  /\ UNCHANGED <<mainVars, bodyVars, replyVars, wire, asked, file>>

-----------------------------------------------------------------------------
(* Dispatch.                                                               *)

(* Does route t serve request r? HEAD is served by routes for GET, too.    *)
Matches(t, r) ==
  /\ t.uri = r.uri
  /\ \/ t.method \in {r.method, "ANY"}
     \/ r.method = "HEAD" /\ t.method = "GET"

(* The first route that matches, or 0.                                     *)
RouteOf(r) ==
  LET matching == {i \in DOMAIN Routes : Matches(Routes[i], r)}
  IN  IF matching = {} THEN 0
      ELSE CHOOSE i \in matching : \A j \in matching : i <= j

Dispatch ==
  /\ pc = "dispatch"
  /\ LET route == RouteOf(request)
     IN  pc' = IF route = 0 THEN "handlers"
               ELSE IF Routes[route].upload THEN "file" ELSE "route"
  /\ part' = 1 /\ written' = 0
  /\ UNCHANGED <<mainVars, request, received, replyVars, wire, asked,
                 streamVars>>

HasFile == part \in DOMAIN request.files

FileStart ==
  /\ pc = "file" /\ HasFile /\ ~FileOpen
  /\ file' = Started(request.files[part])
  /\ UNCHANGED <<mainVars, pc, bodyVars, replyVars, wire, asked, raw>>

FileWrite ==
  /\ pc = "file" /\ FileOpen /\ written < request.files[part]
  /\ LET n == Smaller(ChunkSize, request.files[part] - written)
     IN  /\ written' = written + n
         /\ file' = Piece(file, written, written + n)
  /\ UNCHANGED <<mainVars, pc, request, received, part, replyVars, wire,
                 asked, raw>>

FileEnd ==
  /\ pc = "file" /\ FileOpen /\ written = request.files[part]
  /\ file' = Over("ended")
  /\ part' = part + 1 /\ written' = 0
  /\ UNCHANGED <<mainVars, pc, request, received, replyVars, wire, asked,
                 raw>>

FilesDone ==
  /\ pc = "file" /\ ~HasFile
  /\ pc' = "route"
  /\ UNCHANGED <<mainVars, bodyVars, replyVars, wire, asked, streamVars>>

-----------------------------------------------------------------------------
(* What the firmware's handlers do.                                        *)

Serving == pc \in {"route", "handlers", "notFound"}

(* emitHeaders, then the body, unless the request was a HEAD.              *)
Reply(n) ==
  /\ headersSent' = TRUE
  /\ wire' = [lines |-> wire.lines + (IF headersSent THEN 0 ELSE 1),
              body |-> wire.body + (IF request.method = "HEAD" THEN 0 ELSE n)]

(* send, send_P and sendContent, which differ in the status they send.     *)
Send(n) ==
  /\ Serving
  /\ wire.body + n <= MaxReply
  /\ Reply(n)
  /\ UNCHANGED <<mainVars, pc, bodyVars, currentClient, contentLength, asked,
                 streamVars>>

SetContentLength(length) ==
  /\ Serving
  /\ contentLength' = length /\ asked' = length
  /\ UNCHANGED <<mainVars, pc, bodyVars, currentClient, headersSent, wire,
                 streamVars>>

(* The route's handler returns.                                            *)
RouteDone ==
  /\ pc = "route"
  /\ pc' = "close"
  /\ UNCHANGED <<mainVars, bodyVars, replyVars, wire, asked, streamVars>>

(* A request handler has handled the request, or none did.                 *)
HandlersDone ==
  /\ pc = "handlers"
  /\ pc' \in {"close", "notFound"}
  /\ UNCHANGED <<mainVars, bodyVars, replyVars, wire, asked, streamVars>>

(* The firmware's not-found handler returns.                               *)
NotFoundDone ==
  /\ pc = "notFound"
  /\ pc' = "close"
  /\ UNCHANGED <<mainVars, bodyVars, replyVars, wire, asked, streamVars>>

(* Without one the server sends a 404 itself.                              *)
DefaultNotFound ==
  /\ pc = "notFound"
  /\ wire.body < MaxReply
  /\ Reply(1)
  /\ pc' = "close"
  /\ UNCHANGED <<mainVars, bodyVars, currentClient, contentLength, asked,
                 streamVars>>

(* ::close and resetRequest.                                               *)
Close ==
  /\ pc = "close"
  /\ ResetRequest
  /\ currentClient' = "none"
  /\ request' = NoRequest /\ received' = 0 /\ written' = 0 /\ part' = 0
  /\ pc' = "test"
  /\ UNCHANGED <<mainVars, wire, asked, streamVars>>

-----------------------------------------------------------------------------

Work ==
  \/ TestActive \/ HeaderFail \/ RawStart \/ TooLarge \/ RawWrite
  \/ RecvFail \/ Truncated \/ BodyDone \/ Dispatch
  \/ FileStart \/ FileWrite \/ FileEnd \/ FilesDone
  \/ RouteDone \/ HandlersDone \/ NotFoundDone \/ Close

Next ==
  \/ Begin \/ StopStart \/ StopListen \/ StopJoin
  \/ Accept \/ AcceptFail
  \/ \E r \in Requests, early \in 0 .. RecvSize :
       early <= r.length /\ Header(r, early)
  \/ \E n \in 1 .. RecvSize : Recv(n)
  \/ \E n \in 0 .. MaxReply : Send(n)
  \/ \E length \in Lengths \ {Unset} : SetContentLength(length)
  \/ DefaultNotFound
  \/ Work

Spec == Init /\ [][Next]_vars

(* The worker is scheduled, recv comes back by its timeout at the latest,  *)
(* handlers return and a blocked accept() comes back once the socket is    *)
(* shut down. Nobody owes the server a connection, a header or a body.     *)
FairSpec ==
  Spec /\ WF_vars(Work) /\ WF_vars(AcceptFail /\ ~listening)
       /\ WF_vars(StopListen) /\ WF_vars(StopJoin)

-----------------------------------------------------------------------------
(* Properties.                                                             *)

(* Every variable keeps its type; raw and file are typed by Streams below. *)
TypeOK ==
  /\ active \in BOOLEAN /\ listening \in BOOLEAN
  /\ mpc \in {"idle", "listen", "join"}
  /\ pc \in Labels
  /\ request \in Requests \cup {NoRequest}
  /\ received \in 0 .. request.length /\ written \in Nat /\ part \in Nat
  /\ currentClient \in {"none", "open", "closed"}
  /\ headersSent \in BOOLEAN
  /\ contentLength \in Lengths /\ asked \in Lengths
  /\ wire \in [lines : Nat, body : Nat]

(* A handler finds nothing of the request before: not its descriptor, not  *)
(* its content length, not the mark that the header was sent, also when    *)
(* that request ended early. So no reply goes without a status line, none  *)
(* has two, and the answer to a HEAD has no body.                          *)
ReplyIsItsOwn ==
  /\ wire.lines <= 1
  /\ wire.body > 0 => wire.lines = 1
  /\ Serving => /\ currentClient = "open"
                /\ headersSent <=> wire.lines = 1
                /\ contentLength = asked
                /\ request.method = "HEAD" => wire.body = 0

(* Raw and multipart bodies reach the firmware as UploadStreams says: each *)
(* stream is over before the next one starts and before accept() returns   *)
(* the next connection, the pieces are passed on in order, none twice and  *)
(* none left out although receive buffer and upload chunk do not align,    *)
(* END follows the last announced unit, and a body that stays incomplete   *)
(* is ABORTED.                                                             *)
Streams == INSTANCE UploadStreams
StreamsSpec == Streams!Spec

(* stop() returns, whatever the peer of the current connection does.       *)
StopReturns == (mpc = "listen") ~> (mpc = "idle")
=============================================================================
