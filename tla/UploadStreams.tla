--------------------------- MODULE UploadStreams ---------------------------
(***************************************************************************)
(* What WebServer promises to the handlers that read request bodies: a     *)
(* stream that was started ends before the next one starts and before the  *)
(* next connection is taken, its pieces follow each other without gap or   *)
(* overlap, END comes after exactly the announced bytes, and only a raw    *)
(* body that is not complete is aborted.                                   *)
(***************************************************************************)
EXTENDS Naturals

VARIABLES raw,  (* the body as raw handlers see it                         *)
          file  (* a file of a multipart body as upload handlers see it    *)

(* A stream: how it stands, where its last piece begins and ends, and how  *)
(* many bytes were announced.                                              *)
Over(how) == [state |-> how, from |-> 0, to |-> 0, total |-> 0]

Init == raw = Over("none") /\ file = Over("none")

IsOpen(stream) == stream.state = "open"

Start(stream, stream2) ==
  /\ ~IsOpen(stream)
  /\ IsOpen(stream2) /\ stream2.from = 0 /\ stream2.to = 0

Write(stream, stream2) ==
  /\ IsOpen(stream)
  /\ IsOpen(stream2) /\ stream2.total = stream.total
  /\ stream2.from = stream.to
  /\ stream2.from < stream2.to /\ stream2.to <= stream.total

End(stream, stream2) ==
  /\ IsOpen(stream) /\ stream.to = stream.total
  /\ stream2 = Over("ended")

Abort(stream, stream2) ==
  /\ IsOpen(stream) /\ stream.to < stream.total
  /\ stream2 = Over("aborted")

Connection ==
  /\ ~IsOpen(raw) /\ ~IsOpen(file)
  /\ raw' = Over("none") /\ file' = Over("none")

Next ==
  \/ Connection
  \/ /\ ~IsOpen(file) /\ UNCHANGED file
     /\ \/ Start(raw, raw') \/ Write(raw, raw') \/ End(raw, raw')
        \/ Abort(raw, raw')
  \/ /\ ~IsOpen(raw) /\ UNCHANGED raw
     /\ Start(file, file') \/ Write(file, file') \/ End(file, file')

Spec == Init /\ [][Next]_<<raw, file>>
=============================================================================
