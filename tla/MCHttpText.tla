----------------------------- MODULE MCHttpText -----------------------------
(***************************************************************************)
(* What the text functions promise, for every text up to a few bytes over  *)
(* bytes that matter to them. TLC evaluates the assumptions of this module *)
(* before it starts a run of a module that extends it.                     *)
(***************************************************************************)
EXTENDS HttpText

Texts(bytes, n) == UNION {[1 .. k -> bytes] : k \in 0 .. n}

NoneOf(s, bytes) == Range(s) \cap bytes = {}

(* Reference: every byte as an escape.                                     *)
PercentEncode(s) ==
  Escaped(s, LAMBDA c : <<Percent, HexDigit(c \div 16), HexDigit(c % 16)>>)

(* Both decoders undo the escapes of a browser, for any bytes.             *)
ASSUME DecodersInvert ==
  \A s \in Texts({0, Space, Percent, Plus, 65, 97, 200}, 2) :
    UrlDecodeStd(PercentEncode(s)) = s /\ UrlDecode(PercentEncode(s)) = s

(* The two servers read a text alike when each of its escapes is complete. *)
ASSUME DecodersAgree ==
  \A s \in Texts({Percent, Plus, Minus, Space, 50, 97, 122}, 3) :
    (\A i \in Positions(s, Percent) :
       i + 2 <= Len(s) /\ TwoDigits(s[i + 1], s[i + 2]) >= 0)
      => UrlDecode(s) = UrlDecodeStd(s)

(* A form with different names is read back by both servers.               *)
Form(names, f) ==
  FlattenSeq([k \in DOMAIN names |->
    (IF k = 1 THEN <<>> ELSE <<Amp>>)
      \o PercentEncode(names[k]) \o <<Equal>> \o PercentEncode(f[k])])

ASSUME ArgumentsRead ==
  \A names \in {<< <<97>> >>, << <<97>>, <<Amp>> >>, << <<Equal>>, <<97>> >>} :
    \A f \in [DOMAIN names -> Texts({Amp, Equal, Plus}, 2)] :
      LET s == Form(names, f)
      IN  \A k \in DOMAIN names :
            /\ ArgByName(ParseArgs(s), names[k]) = f[k]
            /\ QueryValue(ParseQuery(s), names[k], <<0>>) = f[k]

(* A header is found whatever the case of its name, and without the blanks *)
(* around its value; the last of equal names counts.                       *)
ASSUME HeadersFound ==
  \A name \in Texts({65, 97}, 2), sent \in Texts({65, 97}, 2),
     v \in Texts({Space, 65, Colon}, 3) :
    Lower(name) = Lower(sent) =>
      LET headers == ParseHeaders(<<sent \o <<Colon, 66>>, <<66>>,
                                    sent \o <<Colon, Space>> \o v>>)
          value == HeaderByName(headers, name)
      IN  /\ \E k, n \in 0 .. Len(v) : /\ k + n <= Len(v)
                                       /\ value = SubSeq(v, k + 1, k + n)
                                       /\ NoneOf(SubSeq(v, 1, k), {65, Colon})
                                       /\ NoneOf(SubSeq(v, k + n + 1, Len(v)),
                                                 {65, Colon})
          /\ value # <<>> => ~IsSpace(value[1]) /\ ~IsSpace(Last(value))

(* Paths over slash, dot, a letter and escapes.                            *)
SomePaths == Texts({Slash, Dot, 97, Percent, Plus}, 4)

(* Reference: the names on the way, none of which leads upwards.           *)
NamesOf(s) == SelectSeq(Items(UrlDecode(s), Slash), LAMBDA x : x # <<>>)
Joined(names) ==
  IF names = <<>> THEN <<Slash>>
  ELSE FlattenSeq([k \in DOMAIN names |-> <<Slash>> \o names[k]])

(* A path is its names, in order; or refused when one of them is "..".     *)
ASSUME PathsAreTheirNames ==
  \A s \in SomePaths :
    NormalizePath(s) = IF DotDot \in Range(NamesOf(s)) THEN <<>>
                       ELSE Joined(NamesOf(s))

(* PROPFIND, PUT, MKCOL, MOVE and COPY normalise a path a second time;     *)
(* that matters only when the decoded path holds a percent or a plus sign. *)
ASSUME PathsStay ==
  \A s \in SomePaths :
    LET p == NormalizePath(s)
    IN  p # <<>> /\ NoneOf(p, {Percent, Plus}) => NormalizePath(p) = p

(* A path is protected exactly when a name on the way is, escaped or not;  *)
(* one that leaves the card is.                                            *)
ASSUME ProtectionSeen ==
  \A s \in SomePaths :
    IsProtectedPath(NormalizePath(s)) =
      \E name \in Range(NamesOf(s)) : IsProtectedName(name)

(* /rename and /move take a path apart and put it together again.          *)
ASSUME PathsSplit ==
  \A s \in SomePaths :
    LET p == NormalizePath(s)
        parent == ParentOf(p)
    IN  Len(p) > 1 =>
          (IF parent = <<Slash>> THEN parent ELSE parent \o <<Slash>>)
            \o BasenameOf(p) = p

(* A Destination with scheme, host and query names the same entry as its   *)
(* path alone.                                                             *)
ASSUME DestinationsAgree ==
  \A s \in Texts({Slash, Dot, 97}, 3), query \in {<<>>, <<Question, 97>>} :
    /\ DestinationPath(<<104, Colon, Slash, Slash, 104>> \o <<Slash>> \o s
                         \o query) = NormalizePath(<<Slash>> \o s)
    /\ DestinationPath(<<Slash>> \o s \o query)
         = NormalizePath(<<Slash>> \o s)

(* Reference: what JSON says that an escaped text means.                   *)
Unquoted == (110 :> LF) @@ (114 :> CR) @@ (116 :> 9)
JsonMeaning(s) ==
  LET from[i \in 1 .. Len(s) + 1] ==
        IF i > Len(s) THEN <<>>
        ELSE IF s[i] # Backslash THEN <<s[i]>> \o from[i + 1]
        ELSE IF s[i + 1] = 117
        THEN <<TwoDigits(s[i + 4], s[i + 5])>> \o from[i + 6]
        ELSE <<IF s[i + 1] \in DOMAIN Unquoted THEN Unquoted[s[i + 1]]
               ELSE s[i + 1]>> \o from[i + 2]
  IN  from[1]

(* A file name arrives at the client as it is, and does not end the text.  *)
ASSUME JsonKeepsNames ==
  \A s \in Texts({1, 9, LF, CR, 31, Quote, Backslash, 110, 117}, 2) :
    /\ JsonMeaning(JsonEscape(s)) = s
    /\ LET e == JsonEscape(s)
       IN  \A i \in DOMAIN e :
             e[i] >= 32 /\ (e[i] = Quote => i > 1 /\ e[i - 1] = Backslash)

(* No two names look alike in a PROPFIND answer, and none holds markup.    *)
ASSUME XmlKeepsNames ==
  LET names == Texts({Amp, 60, Quote, 97, Semicolon}, 2)
  IN  /\ Cardinality({XmlEscape(s) : s \in names}) = Cardinality(names)
      /\ \A s \in names : NoneOf(XmlEscape(s), {60, 62, Quote, 39})

(* The file name of a download can be read back from its header.           *)
ASSUME FileNamesKept ==
  \A s \in Texts({CR, LF, Quote, Backslash, 97}, 3) :
    LET name == HeaderSafeFilename(s)
    IN  /\ HeaderParam(name \o <<Quote, Semicolon>>) = name
        /\ name # <<>> /\ NoneOf(name, {CR, LF})

(* Reference: a multipart body.                                            *)
MCHead(part) == IF part.file THEN <<NameOnly, Filename>> ELSE <<NameOnly>>
Encoded(parts) ==
  FlattenSeq([k \in DOMAIN parts |->
    <<Bound, Line>> \o MCHead(parts[k]) \o <<Line, Line>> \o parts[k].data
      \o <<Line>>]) \o <<Bound, Dashes, Line>>

SomeParts(tokens, n) == [file : BOOLEAN, data : Texts(tokens, n)]

(* Both servers read back what was sent: every part, and the first file.   *)
(* The data may be empty, hold line ends and end with them.                *)
ASSUME PartsRead ==
  \A parts \in UNION {[1 .. k -> SomeParts({Line, Dashes, "x"}, 2)] :
                        k \in 0 .. 2} :
    LET files == SelectSeq(parts, LAMBDA part : part.file)
    IN  /\ ParseMultipart(Encoded(parts)) = parts
        /\ ParseMultipartFile(Encoded(parts))
             = IF files = <<>> THEN <<>> ELSE <<files[1].data>>

(* Data in which the boundary occurs inside a line: CrossPointWebServer    *)
(* reads it to its end, WebServer only up to there.                        *)
ASSUME BoundaryInData ==
  LET parts == <<[file |-> TRUE, data |-> <<"x", Bound, "x">>]>>
  IN  /\ ParseMultipartFile(Encoded(parts)) = <<parts[1].data>>
      /\ ParseMultipart(Encoded(parts))[1].data = <<"x">>
=============================================================================
