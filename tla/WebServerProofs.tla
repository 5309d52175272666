-------------------------- MODULE WebServerProofs --------------------------
(***************************************************************************)
(* For every set of routes, requests and sizes, a reply is the reply to    *)
(* its own request.                                                        *)
(***************************************************************************)
EXTENDS WebServer, TLAPS

(* From the header to the handlers nothing was sent, set or left over.     *)
Reading == pc \in {"rawStart", "body", "tooLarge", "multipartAbort",
                   "dispatch", "file"}

IInv ==
  /\ wire \in [lines : Nat, body : Nat]
  /\ headersSent \in BOOLEAN
  /\ ReplyIsItsOwn
  /\ pc = "header" => wire = NothingSent /\ asked = Unset
  /\ Reading => /\ wire = NothingSent /\ asked = Unset
                /\ contentLength = Unset /\ ~headersSent
                /\ currentClient = "open"

(* No reply is lost or doubled because of what an earlier request, also    *)
(* one that ended early, left in Impl (WebServer.cpp:376-389, 511).        *)
THEOREM ReplyToItsRequest == Spec => []ReplyIsItsOwn
<1> USE DEF Unset, NothingSent, Serving, Reading
<1>1. Init => IInv
  <2> SUFFICES ASSUME Init PROVE IInv
    OBVIOUS
  <2>1. pc = "off" /\ wire = NothingSent /\ headersSent = FALSE
    BY DEF Init
  <2>2. /\ wire \in [lines : Nat, body : Nat]
        /\ wire.lines <= 1 /\ ~(wire.body > 0)
    BY <2>1
  <2> QED BY <2>1, <2>2 DEF IInv, ReplyIsItsOwn
<1>2. IInv /\ [Next]_vars => IInv'
  <2> SUFFICES ASSUME IInv, [Next]_vars
               PROVE  IInv'
    OBVIOUS
  <2> USE DEF IInv, ReplyIsItsOwn, bodyVars, mainVars, replyVars, streamVars
  <2>1. CASE Begin \/ StopStart \/ StopListen \/ StopJoin
    BY <2>1 DEF Begin, StopStart, StopListen, StopJoin
  <2>2. CASE Accept \/ AcceptFail
    BY <2>2 DEF Accept, AcceptFail
  <2>3. ASSUME NEW r \in Requests, NEW early \in 0 .. RecvSize,
               Header(r, early)
        PROVE  IInv'
    BY <2>3 DEF Header, ResetRequest
  <2>4. ASSUME NEW n \in 1 .. RecvSize, Recv(n)
        PROVE  IInv'
    BY <2>4 DEF Recv
  <2>5. ASSUME NEW n \in 0 .. MaxReply, Send(n)
        PROVE  IInv'
    BY <2>5, WebServerAssumption DEF Send, Reply
  <2>6. ASSUME NEW length \in Lengths \ {Unset}, SetContentLength(length)
        PROVE  IInv'
    BY <2>6 DEF SetContentLength
  <2>7. CASE DefaultNotFound
    BY <2>7 DEF DefaultNotFound, Reply
  <2>8. CASE Work
    <3>1. CASE TestActive \/ HeaderFail
      BY <3>1 DEF TestActive, HeaderFail
    <3>2. CASE RawStart \/ RawWrite \/ RecvFail \/ BodyDone
      BY <3>2 DEF RawStart, RawWrite, RecvFail, BodyDone
    <3>3. CASE TooLarge \/ Truncated
      BY <3>3 DEF TooLarge, Truncated, ErrorReply
    <3>4. CASE Dispatch
      BY <3>4 DEF Dispatch
    <3>5. CASE FileStart \/ FileWrite \/ FileEnd \/ FilesDone
      BY <3>5 DEF FileStart, FileWrite, FileEnd, FilesDone
    <3>6. CASE RouteDone \/ HandlersDone \/ NotFoundDone
      BY <3>6 DEF RouteDone, HandlersDone, NotFoundDone
    <3>7. CASE Close
      BY <3>7 DEF Close, ResetRequest
    <3> QED BY <2>8, <3>1, <3>2, <3>3, <3>4, <3>5, <3>6, <3>7 DEF Work
  <2>9. CASE UNCHANGED vars
    BY <2>9 DEF vars
  <2> QED
    BY <2>1, <2>2, <2>3, <2>4, <2>5, <2>6, <2>7, <2>8, <2>9 DEF Next
<1>3. IInv => ReplyIsItsOwn
  BY DEF IInv
<1> QED BY <1>1, <1>2, <1>3, PTL DEF Spec

-----------------------------------------------------------------------------
(* The streams handlers see, and what the worker knows of the body.        *)

(* A stream that has got what was written so far, in whichever pieces.     *)
Running(stream, to, total) ==
  \E from \in Nat :
    stream = [state |-> "open", from |-> from, to |-> to, total |-> total]

RawStream == Running(raw, written, request.length)
FileStream == Running(file, written, request.files[part])
RawOpen == raw.state = "open"

BodyTypes ==
  /\ request.length \in Nat /\ request.raw \in BOOLEAN
  /\ request.files \in Seq(Nat)
  /\ received \in Nat /\ written \in Nat /\ part \in Nat

(* A raw stream is open while the body is read, and has got what the       *)
(* worker has passed on; a file stream is open for one file of the body.   *)
StreamInv ==
  /\ BodyTypes
  /\ pc = "rawStart" => written = 0 /\ received <= request.length
  /\ pc = "body" => /\ received <= request.length
                    /\ written <= received
                    /\ IF request.raw THEN RawStream ELSE ~RawOpen
  /\ pc = "tooLarge" =>
       /\ request.length > 0
       /\ IF request.raw THEN raw = Started(request.length) ELSE ~RawOpen
  /\ pc \notin {"body", "tooLarge"} => ~RawOpen
  /\ pc # "file" => ~FileOpen
  /\ pc = "file" => \/ ~FileOpen /\ written = 0
                    \/ /\ HasFile /\ FileStream
                       /\ written <= request.files[part]

LEMMA RequestTypes ==
  ASSUME NEW r \in Requests
  PROVE  /\ r.length \in Nat /\ r.raw \in BOOLEAN
         /\ r.files \in Seq(Nat)
<1>1. r \in [uri : Uris, method : Methods, length : 0 .. MaxBody + 1,
             raw : BOOLEAN, multipart : BOOLEAN, files : Files]
  BY DEF Requests
<1>2. Files \subseteq Seq(Nat) /\ MaxBody \in Nat
  BY WebServerAssumption
<1>3. QED BY <1>1, <1>2

(* No step that is not about the body disturbs a stream.                   *)
LEMMA OtherSteps ==
  ASSUME StreamInv, UNCHANGED <<bodyVars, streamVars>>,
         pc # pc' => pc \notin {"body", "tooLarge", "file"}
                       /\ pc' \notin {"rawStart", "body", "tooLarge"}
                       /\ (pc' = "file" => written = 0)
  PROVE  StreamInv'
BY DEF StreamInv, BodyTypes, bodyVars, streamVars, RawStream, FileStream,
       HasFile, RawOpen, FileOpen

(* Before begin() and after stop() there is no worker.                     *)
NoWorker == mpc = "idle" /\ ~active => pc = "off"

LEMMA NoWorkerStep == NoWorker /\ [Next]_vars => NoWorker'
<1> SUFFICES ASSUME NoWorker, [Next]_vars PROVE NoWorker'
  OBVIOUS
<1> USE DEF NoWorker, mainVars
<1>1. CASE Begin \/ StopStart \/ StopListen \/ StopJoin
  BY <1>1 DEF Begin, StopStart, StopListen, StopJoin
<1>2. CASE Accept \/ AcceptFail \/ DefaultNotFound
  BY <1>2 DEF Accept, AcceptFail, DefaultNotFound
<1>3. CASE \/ \E r \in Requests, early \in 0 .. RecvSize :
                early <= r.length /\ Header(r, early)
           \/ \E n \in 1 .. RecvSize : Recv(n)
           \/ \E n \in 0 .. MaxReply : Send(n)
           \/ \E length \in Lengths \ {Unset} : SetContentLength(length)
  BY <1>3 DEF Header, Recv, Send, SetContentLength
<1>4. CASE Work
  BY <1>4 DEF Work, TestActive, HeaderFail, RawStart, TooLarge, RawWrite,
              RecvFail, Truncated, BodyDone, Dispatch, FileStart, FileWrite,
              FileEnd, FilesDone, RouteDone, HandlersDone, NotFoundDone, Close
<1>5. CASE UNCHANGED vars
  BY <1>5 DEF vars
<1>6. QED BY <1>1, <1>2, <1>3, <1>4, <1>5 DEF Next

(* How streams start, go on and end.                                       *)
LEMMA StartedRuns ==
  ASSUME NEW total
  PROVE  Running(Started(total), 0, total)
  BY DEF Running, Started

LEMMA PieceRuns ==
  ASSUME NEW s, NEW from \in Nat, NEW to, NEW total,
         Running(s, from, total)
  PROVE  /\ Running(Piece(s, from, to), to, total)
         /\ from < to /\ to <= total =>
              Streams!Write(s, Piece(s, from, to))
<1>1. PICK f \in Nat :
        s = [state |-> "open", from |-> f, to |-> from, total |-> total]
  BY DEF Running
<1>2. Piece(s, from, to) =
        [state |-> "open", from |-> from, to |-> to, total |-> total]
  BY <1>1 DEF Piece
<1> QED
  BY <1>1, <1>2 DEF Running, Streams!Write, Streams!IsOpen

LEMMA OverStreams ==
  ASSUME NEW s, NEW to, NEW total, Running(s, to, total)
  PROVE  /\ s.state = "open"
         /\ to = total => Streams!End(s, Over("ended"))
         /\ to < total => Streams!Abort(s, Over("aborted"))
  BY DEF Running, Over, Streams!End, Streams!Abort, Streams!Over,
     Streams!IsOpen

LEMMA OverIsNotOpen ==
  /\ Over("none").state # "open"
  /\ Over("ended").state # "open"
  /\ Over("aborted").state # "open"
  BY DEF Over

LEMMA StreamInvStep == NoWorker /\ StreamInv /\ [Next]_vars => StreamInv'
<1> SUFFICES ASSUME NoWorker, StreamInv, [Next]_vars PROVE StreamInv'
  OBVIOUS
<1> USE WebServerAssumption
        DEF mainVars, replyVars, RawStream, FileStream, BodyTypes, RawOpen,
            FileOpen
<1>1. CASE Begin \/ StopStart \/ StopListen \/ StopJoin
  <2>1. /\ UNCHANGED <<bodyVars, streamVars>>
        /\ pc # pc' => /\ pc \notin {"body", "tooLarge", "file"}
                       /\ pc' \notin {"rawStart", "body", "tooLarge",
                                      "file"}
    BY <1>1 DEF Begin, StopStart, StopListen, StopJoin, NoWorker
  <2>2. QED BY <2>1, OtherSteps
<1>2. ASSUME NEW r \in Requests, NEW early \in 0 .. RecvSize,
             early <= r.length, Header(r, early)
      PROVE  StreamInv'
  BY <1>2, RequestTypes DEF Header, StreamInv, streamVars
<1>3. CASE RawStart
  <2>1. request.raw => raw' = Started(request.length)
    BY <1>3 DEF RawStart
  <2>2. Running(Started(request.length), 0, request.length)
    BY StartedRuns
  <2>3. /\ ~request.raw => raw' = raw
        /\ pc' = IF request.length > MaxBody THEN "tooLarge" ELSE "body"
        /\ pc = "rawStart"
        /\ UNCHANGED <<bodyVars, file>>
    BY <1>3 DEF RawStart
  <2> QED
    BY <2>1, <2>2, <2>3 DEF StreamInv, bodyVars
<1>4. CASE TooLarge
  <2>1. /\ request.raw => raw' = Over("aborted")
        /\ ~request.raw => raw' = raw /\ ~RawOpen
    BY <1>4 DEF TooLarge, EmitRaw, StreamInv
  <2>2. ~RawOpen'
    BY <2>1, OverIsNotOpen
  <2> QED
    BY <1>4, <2>2 DEF TooLarge, ErrorReply, StreamInv, bodyVars
<1>5. CASE RawWrite
  <2>1. written' \in Nat /\ written' <= received
    BY <1>5 DEF RawWrite, Smaller, StreamInv
  <2>2. Running(raw', written', request.length)
    <3>1. RawStream /\ raw' = Piece(raw, written, written')
      BY <1>5 DEF RawWrite, StreamInv
    <3>2. written \in Nat
      BY DEF StreamInv
    <3>3. QED BY <3>1, <3>2, PieceRuns
  <2>3. QED BY <1>5, <2>1, <2>2 DEF RawWrite, StreamInv
<1>6. ASSUME NEW n \in 1 .. RecvSize, Recv(n) PROVE StreamInv'
  BY <1>6 DEF Recv, Smaller, StreamInv, streamVars
<1>7. CASE RecvFail \/ BodyDone
  <2>1. /\ request.raw => raw' \in {Over("aborted"), Over("ended")}
        /\ ~request.raw => raw' = raw /\ ~RawOpen
    BY <1>7 DEF RecvFail, BodyDone, EmitRaw, StreamInv
  <2>2. ~RawOpen'
    BY <2>1, OverIsNotOpen
  <2> QED
    BY <1>7, <2>2 DEF RecvFail, BodyDone, StreamInv, bodyVars
<1>8. CASE Dispatch
  BY <1>8 DEF Dispatch, StreamInv, streamVars
<1>9. CASE FileStart
  <2>1. written = 0 /\ HasFile /\ request.files[part] \in Nat
    <3>1. ~FileOpen /\ HasFile
      BY <1>9 DEF FileStart
    <3>2. FileStream => FileOpen
      BY OverStreams
    <3>3. request.files[part] \in Nat
      BY <3>1 DEF HasFile, StreamInv
    <3> QED
      BY <1>9, <3>1, <3>2, <3>3 DEF FileStart, StreamInv
  <2>2. Running(file', written, request.files[part])
    BY <1>9, <2>1, StartedRuns DEF FileStart
  <2>3. UNCHANGED <<pc, request, received, written, part, raw>>
    BY <1>9 DEF FileStart, bodyVars
  <2>4. FileStream' /\ (written <= request.files[part])'
    BY <2>1, <2>2, <2>3
  <2>5. QED BY <1>9, <2>1, <2>3, <2>4 DEF FileStart, HasFile, StreamInv
<1>10. CASE FileWrite
  <2>1. HasFile /\ FileStream /\ request.files[part] \in Nat
    BY <1>10 DEF FileWrite, StreamInv, HasFile
  <2>2. written' \in Nat /\ written' <= request.files[part]
    <3>1. written \in Nat /\ written < request.files[part]
          /\ ChunkSize \in Nat
      BY <1>10 DEF FileWrite, StreamInv
    <3>2. written' = written + Smaller(ChunkSize,
                                      request.files[part] - written)
      BY <1>10 DEF FileWrite
    <3>3. QED BY <2>1, <3>1, <3>2 DEF Smaller
  <2>3. Running(file', written', request.files[part])
    <3>1. file' = Piece(file, written, written')
      BY <1>10 DEF FileWrite
    <3>2. written \in Nat
      BY DEF StreamInv
    <3>3. QED BY <2>1, <3>1, <3>2, PieceRuns
  <2>4. UNCHANGED <<pc, request, received, part, raw>> /\ pc = "file"
    BY <1>10 DEF FileWrite
  <2>5. FileStream' /\ HasFile' /\ (written <= request.files[part])'
    BY <2>1, <2>2, <2>3, <2>4 DEF HasFile
  <2>6. QED BY <2>2, <2>4, <2>5 DEF StreamInv
<1>11. CASE FileEnd
  <2>1. ~FileOpen'
    BY <1>11, OverIsNotOpen DEF FileEnd
  <2> QED
    BY <1>11, <2>1 DEF FileEnd, StreamInv
<1>12. CASE FilesDone
  <2>1. ~FileOpen
    BY <1>12 DEF FilesDone, StreamInv
  <2> QED
    BY <1>12, <2>1 DEF FilesDone, StreamInv, streamVars, bodyVars
<1>13. CASE Close
  <2>1. /\ NoRequest.length \in Nat /\ NoRequest.raw \in BOOLEAN
        /\ NoRequest.files \in Seq(Nat)
    BY DEF NoRequest
  <2>2. QED BY <1>13, <2>1 DEF Close, StreamInv, streamVars
<1>14. CASE UNCHANGED vars
  BY <1>14 DEF vars, StreamInv, HasFile
<1>15. CASE AcceptFail \/ TestActive \/ HeaderFail \/ Truncated
  <2>1. /\ UNCHANGED <<bodyVars, streamVars>>
        /\ pc \notin {"body", "tooLarge", "file"}
        /\ pc' \notin {"rawStart", "body", "tooLarge", "file"}
    BY <1>15 DEF AcceptFail, TestActive, HeaderFail, Truncated, ErrorReply
  <2>2. QED BY <2>1, OtherSteps
<1>16. CASE \/ RouteDone \/ HandlersDone \/ NotFoundDone \/ DefaultNotFound
            \/ (\E n \in 0 .. MaxReply : Send(n))
            \/ (\E length \in Lengths \ {Unset} : SetContentLength(length))
  <2>1. /\ UNCHANGED <<bodyVars, streamVars>>
        /\ pc \notin {"body", "tooLarge", "file"}
        /\ pc' \notin {"rawStart", "body", "tooLarge", "file"}
    BY <1>16 DEF RouteDone, HandlersDone, NotFoundDone, DefaultNotFound,
                 Send, SetContentLength, Serving
  <2>2. QED BY <2>1, OtherSteps
<1>17. CASE Accept
  <2>1. ~RawOpen' /\ ~FileOpen'
    BY <1>17, OverIsNotOpen DEF Accept
  <2> QED
    BY <1>17, <2>1 DEF Accept, StreamInv, bodyVars
<1>18. QED
  BY <1>15, <1>16, <1>17,
     <1>1, <1>2, <1>3, <1>4, <1>5, <1>6, <1>7, <1>8, <1>9, <1>10, <1>11,
     <1>12, <1>13, <1>14 DEF Next, Work

(* Every step of the worker is a step of the streams, or none of them.     *)
LEMMA StreamSimulation ==
  StreamInv /\ [Next]_vars => [Streams!Next]_<<raw, file>>
<1> SUFFICES ASSUME StreamInv, [Next]_vars, raw' # raw \/ file' # file
             PROVE  Streams!Next
  OBVIOUS
<1> USE WebServerAssumption
        DEF RawStream, FileStream, BodyTypes, RawOpen, FileOpen,
            Streams!IsOpen
<1>1. CASE RawStart
  <2>1. ~RawOpen /\ ~FileOpen /\ file' = file
    BY <1>1 DEF RawStart, StreamInv
  <2>2. raw' = Started(request.length)
    BY <1>1 DEF RawStart
  <2>3. Streams!Start(raw, raw')
    BY <2>1, <2>2 DEF Streams!Start, Started
  <2>4. QED BY <2>1, <2>3 DEF Streams!Next
<1>2. CASE TooLarge
  <2>1. /\ ~FileOpen /\ file' = file /\ request.raw
        /\ raw = Started(request.length) /\ raw' = Over("aborted")
        /\ request.length > 0
    BY <1>2 DEF TooLarge, EmitRaw, StreamInv
  <2>2. Streams!Abort(raw, raw')
    BY <2>1, StartedRuns, OverStreams
  <2>3. QED BY <2>1, <2>2 DEF Streams!Next
<1>3. CASE RecvFail
  <2>1. /\ ~FileOpen /\ file' = file /\ request.raw /\ RawStream
        /\ raw' = Over("aborted")
    BY <1>3 DEF RecvFail, EmitRaw, StreamInv
  <2>2. written < request.length
    BY <1>3, <2>1 DEF RecvFail, PassedOn
  <2>3. Streams!Abort(raw, raw')
    BY <2>1, <2>2, OverStreams
  <2>4. QED BY <2>1, <2>3 DEF Streams!Next
<1>4. CASE RawWrite
  <2>1. /\ RawStream /\ ~FileOpen /\ file' = file /\ written \in Nat
        /\ raw' = Piece(raw, written, written')
    BY <1>4 DEF RawWrite, StreamInv
  <2>2. written < written' /\ written' <= request.length
    BY <1>4 DEF RawWrite, Smaller, StreamInv
  <2>3. Streams!Write(raw, raw')
    BY <2>1, <2>2, PieceRuns
  <2>4. QED BY <2>1, <2>3 DEF Streams!Next
<1>5. CASE BodyDone
  <2>1. /\ ~FileOpen /\ file' = file /\ request.raw /\ RawStream
        /\ raw' = Over("ended")
    BY <1>5 DEF BodyDone, EmitRaw, StreamInv
  <2>2. written = request.length
    BY <1>5, <2>1 DEF BodyDone, PassedOn
  <2>3. Streams!End(raw, raw')
    BY <2>1, <2>2, OverStreams
  <2>4. QED BY <2>1, <2>3 DEF Streams!Next
<1>6. CASE FileStart
  <2>1. ~RawOpen /\ ~FileOpen /\ raw' = raw
    BY <1>6 DEF FileStart, StreamInv
  <2>2. Streams!Start(file, file')
    BY <1>6, <2>1 DEF FileStart, Streams!Start, Started
  <2>3. QED BY <2>1, <2>2 DEF Streams!Next
<1>7. CASE FileWrite
  <2>1. /\ HasFile /\ FileStream /\ request.files[part] \in Nat
        /\ ~RawOpen /\ raw' = raw /\ written \in Nat
        /\ file' = Piece(file, written, written')
    BY <1>7 DEF FileWrite, StreamInv, HasFile
  <2>2. written < written' /\ written' <= request.files[part]
    <3> DEFINE size == request.files[part]
    <3>1. /\ written < size
          /\ written' = written + Smaller(ChunkSize, size - written)
      BY <1>7 DEF FileWrite
    <3>2. /\ size \in Nat /\ written \in Nat
          /\ ChunkSize \in Nat /\ ChunkSize # 0
      BY <2>1, WebServerAssumption
    <3> HIDE DEF size
    <3>3. written < written' /\ written' <= size
      BY <3>1, <3>2 DEF Smaller
    <3>4. QED BY <3>3 DEF size
  <2>3. Streams!Write(file, file')
    BY <2>1, <2>2, PieceRuns
  <2>4. QED BY <2>1, <2>3 DEF Streams!Next
<1>8. CASE FileEnd
  <2>1. /\ FileStream /\ ~RawOpen /\ raw' = raw
        /\ file' = Over("ended") /\ written = request.files[part]
    BY <1>8 DEF FileEnd, StreamInv
  <2>2. Streams!End(file, file')
    BY <2>1, OverStreams
  <2>3. QED BY <2>1, <2>2 DEF Streams!Next
<1>9. CASE Accept
  <2>1. ~RawOpen /\ ~FileOpen
    BY <1>9 DEF Accept, StreamInv
  <2>2. Streams!Connection
    BY <1>9, <2>1 DEF Accept, Streams!Connection, Streams!Over, Over
  <2>3. QED BY <2>2 DEF Streams!Next
<1>10. CASE ~(\/ RawStart \/ TooLarge \/ RecvFail \/ RawWrite \/ BodyDone
              \/ FileStart \/ FileWrite \/ FileEnd \/ Accept)
  <2>1. UNCHANGED streamVars
    BY <1>10 DEF Next, Work, vars, streamVars, Begin, StopStart, StopListen,
                 StopJoin, AcceptFail, Header, Recv, Send,
                 SetContentLength, DefaultNotFound, TestActive, HeaderFail,
                 Truncated, Dispatch, FilesDone, RouteDone, HandlersDone,
                 NotFoundDone, Close
  <2>2. QED BY <2>1 DEF streamVars
<1>11. QED
  BY <1>1, <1>2, <1>3, <1>4, <1>5, <1>6, <1>7, <1>8, <1>9, <1>10

(* Whatever the peer sends and however it is cut up, handlers see streams  *)
(* that start once, get their bytes in order, are told END after the last  *)
(* announced byte and ABORTED when it does not come, one at a time and all *)
(* of them before the next connection (WebServer.cpp).                     *)
THEOREM StreamsAreWellFormed == Spec => StreamsSpec
<1>1. Init => NoWorker /\ StreamInv /\ Streams!Init
  <2>1. /\ NoRequest.length \in Nat /\ NoRequest.raw \in BOOLEAN
        /\ NoRequest.files \in Seq(Nat)
    BY DEF NoRequest
  <2>2. QED
    BY <2>1, OverIsNotOpen
    DEF Init, NoWorker, StreamInv, BodyTypes, RawOpen, FileOpen,
        Streams!Init, Streams!Over, Over
<1>2. NoWorker /\ StreamInv /\ [Next]_vars => (NoWorker /\ StreamInv)'
  BY NoWorkerStep, StreamInvStep
<1>3. StreamInv /\ [Next]_vars => [Streams!Next]_<<raw, file>>
  BY StreamSimulation
<1>4. QED BY <1>1, <1>2, <1>3, PTL DEF Spec, StreamsSpec, Streams!Spec

-----------------------------------------------------------------------------
(* Types. Those of the body come from StreamInv.                           *)

LEMMA MainTypes ==
  ASSUME TypeOK, [Next]_vars
  PROVE  /\ active' \in BOOLEAN /\ listening' \in BOOLEAN
         /\ mpc' \in {"idle", "listen", "join"}
<1>1. CASE Begin \/ StopStart \/ StopListen \/ StopJoin
  BY <1>1 DEF TypeOK, Begin, StopStart, StopListen, StopJoin
<1>2. CASE UNCHANGED mainVars
  BY <1>2 DEF TypeOK, mainVars
<1>3. QED
  BY <1>1, <1>2 DEF Next, Work, vars, mainVars, Accept, AcceptFail, Header,
     Recv, Send, SetContentLength, DefaultNotFound, TestActive, HeaderFail,
     RawStart, TooLarge, RawWrite, RecvFail, Truncated, BodyDone, Dispatch,
     FileStart, FileWrite, FileEnd, FilesDone, RouteDone, HandlersDone,
     NotFoundDone, Close

LEMMA ReplyTypes ==
  ASSUME TypeOK, [Next]_vars
  PROVE  /\ currentClient' \in {"none", "open", "closed"}
         /\ headersSent' \in BOOLEAN
         /\ contentLength' \in Lengths /\ asked' \in Lengths
         /\ wire' \in [lines : Nat, body : Nat]
<1> USE WebServerAssumption DEF TypeOK, replyVars, NothingSent
<1>1. Unset \in Lengths
  BY DEF Lengths
<1>2. CASE Accept
  BY <1>1, <1>2 DEF Accept
<1>3. ASSUME NEW r \in Requests, NEW early \in 0 .. RecvSize,
             Header(r, early)
      PROVE  UNCHANGED <<wire, asked>> /\ currentClient' = "open"
             /\ headersSent' = FALSE /\ contentLength' = Unset
  BY <1>3 DEF Header, ResetRequest
<1>4. CASE Close
  BY <1>1, <1>4 DEF Close, ResetRequest
<1>5. CASE TooLarge \/ Truncated
  BY <1>5 DEF TooLarge, Truncated, ErrorReply
<1>6. ASSUME NEW n \in 0 .. MaxReply, Send(n)
      PROVE  UNCHANGED <<currentClient, contentLength, asked>>
             /\ headersSent' = TRUE /\ wire' \in [lines : Nat, body : Nat]
  BY <1>6 DEF Send, Reply
<1>7. CASE DefaultNotFound
  BY <1>7 DEF DefaultNotFound, Reply
<1>8. ASSUME NEW length \in Lengths \ {Unset}, SetContentLength(length)
      PROVE  UNCHANGED <<currentClient, headersSent, wire>>
             /\ contentLength' \in Lengths /\ asked' \in Lengths
  BY <1>8 DEF SetContentLength
<1>9. CASE UNCHANGED <<replyVars, wire, asked>>
  BY <1>9
<1>10. \/ Accept \/ Close \/ TooLarge \/ Truncated \/ DefaultNotFound
       \/ UNCHANGED <<replyVars, wire, asked>>
       \/ \E r \in Requests, early \in 0 .. RecvSize : Header(r, early)
       \/ \E n \in 0 .. MaxReply : Send(n)
       \/ \E length \in Lengths \ {Unset} : SetContentLength(length)
  BY DEF Next, Work, vars, Begin, StopStart, StopListen, StopJoin,
     AcceptFail, Recv, TestActive, HeaderFail, RawStart, RawWrite, RecvFail,
     BodyDone, Dispatch, FileStart, FileWrite, FileEnd, FilesDone,
     RouteDone, HandlersDone, NotFoundDone
<1>11. QED
  BY <1>1, <1>2, <1>3, <1>4, <1>5, <1>6, <1>7, <1>8, <1>9, <1>10

LEMMA WorkerTypes ==
  ASSUME StreamInv, StreamInv', TypeOK, [Next]_vars
  PROVE  /\ pc' \in Labels
         /\ request' \in Requests \cup {NoRequest}
         /\ received' \in 0 .. request'.length
<1> DEFINE Same == UNCHANGED <<request, received>> /\ pc' \in Labels
<1>1. ASSUME NEW r \in Requests, NEW early \in 0 .. RecvSize,
             early <= r.length, Header(r, early)
      PROVE  /\ pc' \in Labels /\ request' \in Requests
             /\ received' \in 0 .. request'.length
  BY <1>1, RequestTypes, WebServerAssumption DEF Header, Labels
<1>2. ASSUME NEW n \in 1 .. RecvSize, Recv(n)
      PROVE  UNCHANGED <<pc, request>> /\ received' \in 0 .. request'.length
  BY <1>2, WebServerAssumption
     DEF Recv, Smaller, TypeOK, StreamInv, BodyTypes
<1>3. CASE Close
  <2>1. NoRequest.length = 0
    BY DEF NoRequest
  <2>2. QED BY <1>3, <2>1 DEF Close, Labels
<1>4. CASE Begin \/ StopStart \/ StopListen \/ StopJoin
  BY <1>4 DEF Begin, StopStart, StopListen, StopJoin, bodyVars, TypeOK,
              Labels
<1>5. CASE \/ Accept \/ AcceptFail \/ TestActive \/ HeaderFail \/ RawStart
           \/ TooLarge \/ RawWrite \/ RecvFail \/ Truncated \/ BodyDone
  <2>1. Same
    BY <1>5 DEF Accept, AcceptFail, TestActive, HeaderFail, RawStart,
                TooLarge, RawWrite, RecvFail, Truncated, BodyDone,
                ErrorReply, bodyVars, TypeOK, Labels
  <2>2. QED BY <2>1 DEF TypeOK
<1>6. CASE \/ Dispatch \/ FileStart \/ FileWrite \/ FileEnd \/ FilesDone
           \/ RouteDone \/ HandlersDone \/ NotFoundDone \/ DefaultNotFound
           \/ (\E n \in 0 .. MaxReply : Send(n))
           \/ (\E length \in Lengths \ {Unset} : SetContentLength(length))
           \/ UNCHANGED vars
  <2>1. Same
    BY <1>6 DEF Dispatch, FileStart, FileWrite, FileEnd, FilesDone,
                RouteDone, HandlersDone, NotFoundDone, DefaultNotFound, Send,
                SetContentLength, vars, bodyVars, TypeOK, Labels
  <2>2. QED BY <2>1 DEF TypeOK
<1>7. QED
  <2>1. pc \in Labels /\ request \in Requests \cup {NoRequest}
    BY DEF TypeOK
  <2>2. QED
    BY <1>1, <1>2, <1>3, <1>4, <1>5, <1>6, <2>1 DEF Next, Work

(* The server's fields keep their types: no more of a body arrives than    *)
(* was announced, and the state of the answer is one of those the handlers *)
(* can find.                                                               *)
THEOREM TypeCorrect == Spec => []TypeOK
<1>1. Init => NoWorker /\ StreamInv /\ TypeOK
  <2>1. /\ NoRequest.length = 0 /\ NoRequest.raw \in BOOLEAN
        /\ NoRequest.files \in Seq(Nat)
    BY DEF NoRequest
  <2>2. Init => TypeOK
    <3> SUFFICES ASSUME Init PROVE TypeOK
      OBVIOUS
    <3>1. /\ active \in BOOLEAN /\ listening \in BOOLEAN
          /\ headersSent \in BOOLEAN
      BY DEF Init
    <3>2. wire \in [lines : Nat, body : Nat]
      BY DEF Init, NothingSent
    <3>3. /\ mpc \in {"idle", "listen", "join"} /\ pc \in Labels
          /\ currentClient \in {"none", "open", "closed"}
      BY DEF Init, Labels
    <3>4. contentLength \in Lengths /\ asked \in Lengths
      BY DEF Init, Lengths
    <3>5. /\ request \in Requests \cup {NoRequest}
          /\ received \in 0 .. request.length
          /\ written \in Nat /\ part \in Nat
      BY <2>1 DEF Init
    <3>6. QED BY <3>1, <3>2, <3>3, <3>4, <3>5 DEF TypeOK
  <2>3. QED
    BY <2>1, <2>2, OverIsNotOpen
    DEF Init, NoWorker, StreamInv, BodyTypes, RawOpen, FileOpen
<1>2. NoWorker /\ StreamInv /\ TypeOK /\ [Next]_vars
        => (NoWorker /\ StreamInv /\ TypeOK)'
  <2> SUFFICES ASSUME NoWorker, StreamInv, TypeOK, [Next]_vars
               PROVE  (NoWorker /\ StreamInv /\ TypeOK)'
    OBVIOUS
  <2>1. NoWorker' /\ StreamInv'
    BY NoWorkerStep, StreamInvStep
  <2>2. QED
    BY <2>1, MainTypes, ReplyTypes, WorkerTypes
       DEF TypeOK, StreamInv, BodyTypes
<1>3. QED BY <1>1, <1>2, PTL DEF Spec
=============================================================================
