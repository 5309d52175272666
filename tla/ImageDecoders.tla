---------------------------- MODULE ImageDecoders ---------------------------
(***************************************************************************)
(* The decoders behind JPEGDEC and PNG: open() reads the file through the  *)
(* firmware's callbacks and has it decoded at once, decode() hands it out  *)
(* row by row to a callback that may stop it. The callbacks and stb_image  *)
(* are external: a file may be shorter than was said, may not be an image, *)
(* and a part of a file may be one. Pixels are named by their source row.  *)
(***************************************************************************)
EXTENDS Integers, Sequences

CONSTANTS
  ImageFiles,  (* files                                                     *)
  MaxHeight,   (* bound: rows of an image                                   *)
  MaxBytes,    (* bound: bytes of a file                                    *)
  NoImage

ASSUME ImageAssumption ==
  NoImage \notin ImageFiles /\ MaxHeight \in Nat /\ MaxBytes \in Nat

VARIABLES
  kind,       (* "jpeg" or "png"                                            *)
  image,      (* image_: [of, height], or NoImage                           *)
  drawCb,     (* open() has been called                                     *)
  lastError,  (* JPEGDEC::lastError_                                        *)
  call,       (* where the firmware's call stands                           *)
  handles,    (* history: what openCb has given and closeCb not taken       *)
  drawn,      (* history: the rows drawn by the last decode(), its scale    *)
  source      (* history: the file of the last open()                       *)

imageVars == <<kind, image, drawCb, lastError, call, handles, drawn, source>>

Idle(answer) == [pc |-> "idle", answer |-> answer]

NoRows == [rows |-> <<>>, denom |-> 1]

Fails == /\ call' = Idle("failed")
         /\ lastError' = IF kind = "jpeg" THEN -1 ELSE 0

(* open: the image of the last one is dropped first.                       *)
OpenImage(f) ==
  /\ call.pc = "idle"
  /\ image' = NoImage /\ drawCb' = TRUE /\ source' = f
  /\ drawn' = NoRows
  /\ \/ /\ Fails                            (* no handle, or an empty file  *)
        /\ UNCHANGED handles
     \/ \E size \in 1 .. MaxBytes :
          /\ call' = [pc |-> "read", left |-> size, got |-> 0]
          /\ handles' = handles \cup {f}
          /\ lastError' = 0
  /\ UNCHANGED kind

(* A read that returns nothing ends the loop early.                        *)
ReadImage ==
  /\ call.pc = "read"
  /\ \/ \E n \in 1 .. call.left :
          call' = [call EXCEPT !.left = @ - n, !.got = @ + n,
                               !.pc = IF n = call.left THEN "stb" ELSE "read"]
     \/ call' = [call EXCEPT !.pc = "stb"]
  /\ UNCHANGED <<kind, image, drawCb, lastError, handles, drawn, source>>

(* closeCb, then decodeImageBytes.                                         *)
DecodeBytes ==
  /\ call.pc = "stb"
  /\ handles' = handles \ {source}
  /\ \/ Fails /\ UNCHANGED image
     \/ \E h \in 1 .. MaxHeight :
          /\ call.got > 0
          /\ image' = [of |-> source, height |-> h]
          /\ call' = Idle("ok") /\ UNCHANGED lastError
  /\ UNCHANGED <<kind, drawCb, drawn, source>>

CloseImage ==
  /\ call.pc = "idle"
  /\ image' = NoImage
  /\ UNCHANGED <<kind, drawCb, lastError, call, handles, drawn, source>>

(* JPEG_SCALE_HALF, _QUARTER and _EIGHTH; PNG has no scale.                *)
Denominators == IF kind = "jpeg" THEN {1, 2, 4, 8} ELSE {1}

(* Seeded fault: the division rounds down.                                 *)
ScaledDown(height, denom) == height \div denom
Scaled(height, denom) == (height + denom - 1) \div denom

Decode(denom) ==
  /\ call.pc = "idle"
  /\ drawn' = [rows |-> <<>>, denom |-> denom]
  /\ IF ~drawCb \/ image = NoImage
     THEN Fails
     ELSE /\ call' = IF Scaled(image.height, denom) = 0
                     THEN Idle("decoded")
                     ELSE [pc |-> "draw", y |-> 0]
          /\ UNCHANGED lastError
  /\ UNCHANGED <<kind, image, drawCb, handles, source>>

SourceRow == IF call.y * drawn.denom < image.height - 1
             THEN call.y * drawn.denom ELSE image.height - 1

(* A row is copied and drawn; the callback may answer 0.                   *)
DrawRow ==
  /\ call.pc = "draw"
  /\ drawn' = [drawn EXCEPT !.rows = Append(@, SourceRow)]
  /\ \/ Fails
     \/ /\ call' = IF call.y + 1 = Scaled(image.height, drawn.denom)
                   THEN Idle("decoded") ELSE [call EXCEPT !.y = @ + 1]
        /\ UNCHANGED lastError
  /\ UNCHANGED <<kind, image, drawCb, handles, source>>

-----------------------------------------------------------------------------

ImageInit ==
  /\ kind \in {"jpeg", "png"}
  /\ image = NoImage /\ drawCb = FALSE /\ lastError = 0
  /\ call = Idle("none") /\ handles = {} /\ drawn = NoRows /\ source = NoImage

ImageNext ==
  \/ \E f \in ImageFiles : OpenImage(f)
  \/ ReadImage \/ DecodeBytes \/ CloseImage \/ DrawRow
  \/ \E denom \in Denominators : Decode(denom)

-----------------------------------------------------------------------------

(* Between calls no file is left open, whatever failed; what can be        *)
(* decoded is the file of the last open(); a decode() that succeeds has    *)
(* drawn every denom-th row from the top, to less than denom rows above    *)
(* the bottom; and a failure is also told by getLastError().               *)
Covers(rows, denom, height) ==
  /\ \A k \in 1 .. Len(rows) : rows[k] = (k - 1) * denom
  /\ \E k \in 1 .. Len(rows) : rows[k] \in height - denom .. height - 1
DecodesWhole ==
  /\ call.pc \in {"idle", "draw"} => handles = {}
  /\ image # NoImage => image.of = source
  /\ call = Idle("failed") /\ kind = "jpeg" => lastError = -1
  /\ call = Idle("decoded") /\ image # NoImage =>
       Covers(drawn.rows, drawn.denom, image.height)
=============================================================================
