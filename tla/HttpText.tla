------------------------------ MODULE HttpText ------------------------------
(***************************************************************************)
(* How the two HTTP servers of the simulator take the text of a request    *)
(* apart: escapes, arguments, headers, paths, multipart boundaries; and    *)
(* how text is put into an answer. WebServer.cpp and CrossPointWebServer   *)
(* .cpp each have functions of their own for the same formats. Text is a   *)
(* sequence of bytes. The definitions have no state; MCHttpText compares   *)
(* them with each other and with reference definitions.                    *)
(***************************************************************************)
EXTENDS Integers, Sequences, SequencesExt

CONSTANT ReservedNames (* "System Volume Information", "XTCache"           *)

Byte == 0 .. 255

LF == 10      CR == 13      Space == 32   Quote == 34   Percent == 37
Amp == 38     Plus == 43    Minus == 45   Dot == 46     Slash == 47
Colon == 58   Semicolon == 59             Equal == 61   Question == 63
Backslash == 92             Underscore == 95

IsSpace(c) == c = Space \/ c \in 9 .. 13
Digits == 48 .. 57
Uppers == 65 .. 90

Positions(s, c) == {i \in DOMAIN s : s[i] = c}

(* What is between the separators.                                         *)
Items(s, c) ==
  LET ends == SetToSortSeq({0, Len(s) + 1} \cup Positions(s, c), <)
  IN  [k \in 1 .. Len(ends) - 1 |-> SubSeq(s, ends[k] + 1, ends[k + 1] - 1)]

(* Up to, and after, the first c.                                          *)
Before(s, c) == IF Positions(s, c) = {} THEN s
                ELSE SubSeq(s, 1, Min(Positions(s, c)) - 1)
After(s, c) == IF Positions(s, c) = {} THEN <<>>
               ELSE SubSeq(s, Min(Positions(s, c)) + 1, Len(s))

Lower(s) == [i \in DOMAIN s |-> IF s[i] \in Uppers THEN s[i] + 32 ELSE s[i]]

Trim(s) ==
  LET kept == {i \in DOMAIN s : ~IsSpace(s[i])}
  IN  IF kept = {} THEN <<>> ELSE SubSeq(s, Min(kept), Max(kept))

-----------------------------------------------------------------------------
(* Escapes.                                                                *)

HexValue(c) ==
  IF c \in Digits THEN c - 48
  ELSE IF c \in 97 .. 102 THEN c - 87
  ELSE IF c \in 65 .. 70 THEN c - 55 ELSE -1

(* WebServer: two digits.                                                  *)
TwoDigits(c, d) ==
  IF HexValue(c) >= 0 /\ HexValue(d) >= 0 THEN 16 * HexValue(c) + HexValue(d)
  ELSE -1

(* CrossPointWebServer: whatever strtol() reads to the end, that is also a *)
(* space or a sign and one digit, and a text that a zero byte ends.        *)
Strtol(c, d) ==
  IF c = 0 THEN 0
  ELSE IF HexValue(c) >= 0 /\ d = 0 THEN HexValue(c)
  ELSE IF HexValue(c) >= 0 THEN TwoDigits(c, d)
  ELSE IF HexValue(d) >= 0 /\ (IsSpace(c) \/ c = Plus) THEN HexValue(d)
  ELSE IF HexValue(d) >= 0 /\ c = Minus THEN (256 - HexValue(d)) % 256
  ELSE -1

(* value[i] is the number the two characters behind s[i] stand for.        *)
Decoded(s, value) ==
  LET from[i \in 1 .. Len(s) + 1] ==
        IF i > Len(s) THEN <<>>
        ELSE IF s[i] = Percent /\ i + 2 <= Len(s) /\ value[i] >= 0
        THEN <<value[i]>> \o from[i + 3]
        ELSE <<IF s[i] = Plus THEN Space ELSE s[i]>> \o from[i + 1]
  IN  from[1]

UrlDecodeStd(s) ==
  Decoded(s, [i \in 1 .. Len(s) - 2 |-> TwoDigits(s[i + 1], s[i + 2])])
UrlDecode(s) ==
  Decoded(s, [i \in 1 .. Len(s) - 2 |-> Strtol(s[i + 1], s[i + 2])])

HexDigit(v) == IF v < 10 THEN 48 + v ELSE 87 + v

Escaped(s, Escape(_)) == FlattenSeq([i \in DOMAIN s |-> Escape(s[i])])

JsonByte(c) ==
  IF c \in {Backslash, Quote} THEN <<Backslash, c>>
  ELSE IF c = LF THEN <<Backslash, 110>>
  ELSE IF c = CR THEN <<Backslash, 114>>
  ELSE IF c = 9 THEN <<Backslash, 116>>
  ELSE IF c < 32 THEN <<Backslash, 117, 48, 48,
                        HexDigit(c \div 16), HexDigit(c % 16)>>
  ELSE <<c>>
JsonEscape(s) == Escaped(s, JsonByte)

(* &amp; &lt; &gt; &quot; &apos;                                           *)
XmlEntities ==
  (Amp :> <<97, 109, 112>>) @@ (60 :> <<108, 116>>) @@ (62 :> <<103, 116>>)
  @@ (Quote :> <<113, 117, 111, 116>>) @@ (39 :> <<97, 112, 111, 115>>)
XmlByte(c) == IF c \in DOMAIN XmlEntities
              THEN <<Amp>> \o XmlEntities[c] \o <<Semicolon>> ELSE <<c>>
XmlEscape(s) == Escaped(s, XmlByte)

(* A file name between quotes in a header; "download" when nothing is left.*)
SafeByte(c) == IF c \in {CR, LF} THEN <<>>
               ELSE IF c \in {Quote, Backslash} THEN <<Underscore>> ELSE <<c>>
Download == <<100, 111, 119, 110, 108, 111, 97, 100>>
HeaderSafeFilename(s) ==
  IF Escaped(s, SafeByte) = <<>> THEN Download ELSE Escaped(s, SafeByte)

(* The value behind key=" up to the quote; rest is what follows key=".     *)
HeaderParam(rest) ==
  IF Positions(rest, Quote) = {} THEN <<>> ELSE Before(rest, Quote)

-----------------------------------------------------------------------------
(* Arguments.                                                              *)

KeyValue(item) ==
  IF Positions(item, Equal) = {} THEN <<item, <<>>>>
  ELSE <<Before(item, Equal), After(item, Equal)>>

(* WebServer: a list, and the first of equal names counts.                 *)
ParseArgs(s) ==
  LET items == SelectSeq(Items(s, Amp), LAMBDA x : x # <<>>)
      pair(k) == KeyValue(items[k])
  IN  [k \in DOMAIN items |-> <<UrlDecodeStd(pair(k)[1]),
                                UrlDecodeStd(pair(k)[2])>>]

ArgByName(args, name) ==
  LET found == {k \in DOMAIN args : args[k][1] = name}
  IN  IF found = {} THEN <<>> ELSE args[Min(found)][2]

(* CrossPointWebServer: a map, and the last of equal names counts.         *)
ParseQuery(s) ==
  LET items == Items(s, Amp)
      pair(k) == KeyValue(items[k])
      pairs == [k \in DOMAIN items |-> <<UrlDecode(pair(k)[1]),
                                         UrlDecode(pair(k)[2])>>]
      last(name) == Max({k \in DOMAIN pairs : pairs[k][1] = name})
  IN  [name \in {pairs[k][1] : k \in DOMAIN pairs} |-> pairs[last(name)][2]]

QueryValue(query, name, fallback) ==
  IF name \in DOMAIN query THEN query[name] ELSE fallback

(* Header lines without their end; those without a colon do not count.     *)
ParseHeaders(lines) ==
  LET named == SelectSeq(lines, LAMBDA x : Positions(x, Colon) # {})
      name(k) == Lower(Before(named[k], Colon))
      last(n) == Max({k \in DOMAIN named : name(k) = n})
  IN  [n \in {name(k) : k \in DOMAIN named} |->
         Trim(After(named[last(n)], Colon))]

(* Names of headers are found in any case.                                 *)
HeaderByName(headers, name) == QueryValue(headers, Lower(name), <<>>)

(* The words of a request line.                                            *)
Words(s) ==
  LET blanked == [i \in DOMAIN s |-> IF IsSpace(s[i]) THEN Space ELSE s[i]]
  IN  SelectSeq(Items(blanked, Space), LAMBDA x : x # <<>>)

-----------------------------------------------------------------------------
(* Paths.                                                                  *)

DotDot == <<Dot, Dot>>

(* The empty text stands for a path that leaves the card.                  *)
NormalizePath(s) ==
  LET decoded == UrlDecode(s)
      rooted == IF decoded # <<>> /\ decoded[1] = Slash THEN decoded
                ELSE <<Slash>> \o decoded
      double == {i \in 2 .. Len(rooted) :
                   rooted[i] = Slash /\ rooted[i - 1] = Slash}
      path == [k \in 1 .. Len(rooted) - Cardinality(double) |->
                 rooted[SetToSortSeq(DOMAIN rooted \ double, <)[k]]]
  IN  IF \E k \in DOMAIN Items(path, Slash) : Items(path, Slash)[k] = DotDot
      THEN <<>>
      ELSE IF Len(path) > 1 /\ Last(path) = Slash THEN Front(path) ELSE path

IsProtectedName(s) == s = <<>> \/ s[1] = Dot \/ s \in ReservedNames

IsProtectedPath(path) ==
  \/ path = <<>>
  \/ \E k \in DOMAIN Items(path, Slash) :
       LET part == Items(path, Slash)[k]
       IN  part # <<>> /\ IsProtectedName(part)

BasenameOf(path) ==
  IF Positions(path, Slash) = {} THEN path
  ELSE SubSeq(path, Max(Positions(path, Slash)) + 1, Len(path))

ParentOf(path) ==
  IF Positions(path, Slash) \subseteq {1} THEN <<Slash>>
  ELSE SubSeq(path, 1, Max(Positions(path, Slash)) - 1)

(* A Destination header: scheme and host are dropped, and the query.       *)
DestinationPath(value) ==
  LET schemes == {i \in DOMAIN value :
                    /\ i + 2 <= Len(value)
                    /\ SubSeq(value, i, i + 2) = <<Colon, Slash, Slash>>}
      starts == {i \in Positions(value, Slash) : i > Min(schemes) + 2}
      path == IF schemes = {} THEN value
              ELSE IF starts = {} THEN <<Slash>>
              ELSE SubSeq(value, Min(starts), Len(value))
  IN  NormalizePath(Before(path, Question))

(* The head of a request, line by line, as CrossPointWebServer reads it;   *)
(* the empty sequence when it is none.                                     *)
ParseRequest(lines) ==
  LET words == Words(lines[1])
      target == words[2]
  IN  IF Len(words) < 2 THEN <<>>
      ELSE <<[method  |-> words[1],
              path    |-> NormalizePath(Before(target, Question)),
              query   |-> IF Positions(target, Question) = {} THEN <<>>
                          ELSE ParseQuery(After(target, Question)),
              headers |-> ParseHeaders(Tail(lines))]>>

-----------------------------------------------------------------------------
(* Multipart bodies. Here a text is a sequence of tokens: line ends, the   *)
(* boundary with the dashes before it, two dashes, headers, and data.      *)

Line == "line"  Bound == "bound"  Dashes == "--"
NameOnly == "name"  Filename == "filename"

(* The value of boundary= in a Content-Type, as WebServer reads it:        *)
(* between quotes, or up to a semicolon.                                   *)
BoundaryOf(rest) ==
  IF rest # <<>> /\ rest[1] = Quote THEN Before(Tail(rest), Quote)
  ELSE Before(rest, Semicolon)

FindFrom(body, what, i) ==
  LET found == {k \in i .. Len(body) - Len(what) + 1 :
                  SubSeq(body, k, k + Len(what) - 1) = what}
  IN  IF found = {} THEN 0 ELSE Min(found)

(* Where the headers of the part behind the boundary at i begin, and where *)
(* they end; 0 when the body is over.                                      *)
HeadStart(body, i) ==
  IF i < Len(body) /\ body[i + 1] = Line THEN i + 2 ELSE i + 1
HeadEnd(body, i) ==
  IF i = 0 \/ (i < Len(body) /\ body[i + 1] = Dashes) THEN 0
  ELSE FindFrom(body, <<Line, Line>>, HeadStart(body, i))

(* WebServer: a part ends at the boundary, less a line end before it. It   *)
(* is kept when its headers have a name.                                   *)
ParseMultipart(body) ==
  LET parts[i \in 0 .. Len(body)] ==
        LET end  == HeadEnd(body, i)
            next == FindFrom(body, <<Bound>>, end + 2)
            last == IF next >= 2 /\ body[next - 1] = Line THEN next - 2
                    ELSE next - 1
            head == SubSeq(body, HeadStart(body, i), end - 1)
        IN  IF end = 0 \/ next = 0 THEN <<>>
            ELSE (IF Contains(head, NameOnly)
                  THEN <<[file |-> Contains(head, Filename),
                          data |-> SubSeq(body, end + 2, last)]>>
                  ELSE <<>>) \o parts[next]
  IN  parts[FindFrom(body, <<Bound>>, 1)]

(* CrossPointWebServer: the first part with a file name; a part ends at a  *)
(* line end with the boundary behind it. None is the empty sequence.       *)
ParseMultipartFile(body) ==
  LET file[i \in 0 .. Len(body)] ==
        LET end  == HeadEnd(body, i)
            next == FindFrom(body, <<Line, Bound>>, end + 2)
            head == SubSeq(body, HeadStart(body, i), end - 1)
        IN  IF end = 0 \/ next = 0 THEN <<>>
            ELSE IF Contains(head, Filename)
            THEN <<SubSeq(body, end + 2, next - 1)>>
            ELSE file[next + 1]
  IN  file[FindFrom(body, <<Bound>>, 1)]
=============================================================================
