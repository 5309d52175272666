----------------------------- MODULE HttpClients ----------------------------
(***************************************************************************)
(* The HTTP shims: SimHttpFetch.h (fixtures below the mock root, file URLs,*)
(* a curl process), the esp_http_client handle and HTTPClient, which       *)
(* SecureHttpClient forwards to. All calls are blocking and made by one    *)
(* task. The network, the file system behind file URLs and curl's fate are *)
(* external. A piece of a body names the resource it is a piece of and the *)
(* headers and the login it was asked for with.                            *)
(***************************************************************************)
EXTENDS Integers, Sequences, SequencesExt, FiniteSets

CONSTANTS
  Urls,       (* [scheme, path]; what is not a plain segment is Bad         *)
  Bad,
  Snapshots,  (* the segment "snapshots"                                    *)
  Fixtures,   (* bound: the paths of files the mock root may hold           *)
  Headers,    (* bound: headers the firmware sets                           *)
  Login,      (* user name and password                                     *)
  NoLogin,
  Nothing     (* no mock root, no handle, no stream                         *)

Resources == [from : {"mock", "file", "net"}, path : Seq(STRING),
              headers : SUBSET Headers, login : {Login, NoLogin}]
Pieces == [of : Resources, part : {1, 2}]
Streams == [text : Seq(Pieces), at : Nat]

ASSUME HttpAssumption ==
  /\ \A u \in Urls : u.scheme \in {"http", "file"} /\ u.path \in Seq(STRING)
  /\ Fixtures \subseteq Seq(STRING)
  /\ Login # NoLogin /\ Nothing \notin Streams

VARIABLES
  mock,       (* the files below CROSSINK_SIM_HTTP_MOCK_ROOT, or Nothing    *)
  esp,        (* SimEspHttpClient, or Nothing                               *)
  espOpened,  (* history: the response of the last successful open          *)
  espRead,    (* history: what read has returned since                      *)
  http,       (* HTTPClient                                                 *)
  given,      (* history: headers and login given since the last end()      *)
  streamed    (* history: what the stream of this response has returned     *)

espVars == <<esp, espOpened, espRead>>
clientVars == <<http, given, streamed>>
httpVars == <<mock, espVars, clientVars>>

-----------------------------------------------------------------------------
(* SimHttpFetch.h                                                          *)

Resource(from, path, headers, login) ==
  [from |-> from, path |-> path, headers |-> headers, login |-> login]
Body(resource) ==
  <<[of |-> resource, part |-> 1], [of |-> resource, part |-> 2]>>

Answer(ok, status, body) == [ok |-> ok, status |-> status, body |-> body]
NoAnswer == Answer(FALSE, 0, <<>>)
NotFound == Answer(TRUE, 404, <<>>)
Found(from, path) == Answer(TRUE, 200, Body(Resource(from, path, {}, NoLogin)))

IsPath(url) == url.path # <<>> /\ \A i \in DOMAIN url.path : url.path[i] # Bad

MockDirs == UNION {{SubSeq(p, 1, k) : k \in 1 .. Len(p) - 1} : p \in mock}

(* findFileByBasename: the first match, a file or a directory, in an order *)
(* the host chooses; below a match nothing is looked at.                   *)
NamedEntries(name) ==
  {e \in mock \cup MockDirs :
     Last(e) = name /\ Len(e) <= 6
     /\ \A k \in 1 .. Len(e) - 1 : e[k] # name}

(* Seeded fault: snapshot paths are looked up by name, too.                *)
AuthoritativeNever(path) == FALSE
Authoritative(path) ==
  Len(path) > 1 /\ path[1] = Snapshots /\ <<Snapshots>> \in MockDirs

(* fetchFromMockRoot; NoAnswer leaves the URL to the next source.          *)
MockAnswers(url) ==
  LET name == Last(url.path) IN
  IF mock = Nothing               THEN {NoAnswer}
  ELSE IF ~IsPath(url)            THEN {NotFound}
  ELSE IF url.path \in mock       THEN {Found("mock", url.path)}
  ELSE IF Authoritative(url.path) THEN {NotFound}
  ELSE IF <<name>> \in mock       THEN {Found("mock", <<name>>)}
  ELSE IF NamedEntries(name) = {} THEN {NoAnswer}
  ELSE {IF e \in mock THEN Found("mock", e) ELSE NoAnswer :
          e \in NamedEntries(name)}

FileAnswers(url) == {NotFound, Found("file", url.path)}

(* curl may fail, or stop in the middle of a body, after the status or     *)
(* before it is printed; fetchWithCurl reports whatever has a status or a  *)
(* body as a response. The page of an error status is a body like another. *)
Fetched(code, body) == Answer(code > 0 \/ body # <<>>, code, body)
CurlAnswers(url, headers, login) ==
  LET body == Body(Resource("net", url.path, headers, login))
  IN  {Fetched(code, SubSeq(body, 1, k)) :
         code \in {0, 200, 404}, k \in 0 .. Len(body)}

Fetch(url, headers, login) ==
  UNION {IF a.ok THEN {a}
         ELSE IF url.scheme = "file" THEN FileAnswers(url)
         ELSE CurlAnswers(url, headers, login) : a \in MockAnswers(url)}

-----------------------------------------------------------------------------
(* esp_http_client.h                                                       *)

EspInit(url, login) ==
  /\ esp = Nothing
  /\ esp' = [url |-> url, login |-> login, headers |-> {}, status |-> 0,
             length |-> -1, body |-> <<>>, offset |-> 0, opened |-> FALSE,
             performed |-> FALSE]
  /\ espOpened' = NoAnswer /\ espRead' = <<>>
  /\ UNCHANGED <<mock, clientVars>>

EspSetHeader(h) ==
  /\ esp # Nothing
  /\ esp' = [esp EXCEPT !.headers = @ \cup {h}]
  /\ UNCHANGED <<mock, espOpened, espRead, clientVars>>

(* perform hands the body to the event handler; it does not touch the body *)
(* an open has left, and it sends no login. performed is history.          *)
EspPerform ==
  /\ esp # Nothing
  /\ \E a \in Fetch(esp.url, esp.headers, NoLogin) :
       /\ a.ok
       /\ esp' = [esp EXCEPT !.status = a.status, !.length = Len(a.body),
                             !.performed = TRUE]
  /\ UNCHANGED <<mock, espOpened, espRead, clientVars>>

(* Seeded fault: the read position of the last response stays.             *)
OpenedKeepsOffset(a) ==
  [esp EXCEPT !.status = a.status, !.body = a.body, !.length = Len(a.body),
              !.opened = TRUE, !.performed = FALSE]
OpenedWith(a) ==
  [esp EXCEPT !.status = a.status, !.body = a.body, !.length = Len(a.body),
              !.offset = 0, !.opened = TRUE, !.performed = FALSE]

(* A failed open leaves the response of the one before.                    *)
EspOpen ==
  /\ esp # Nothing
  /\ \E a \in Fetch(esp.url, esp.headers, esp.login) :
       IF a.ok
       THEN esp' = OpenedWith(a) /\ espOpened' = a /\ espRead' = <<>>
       ELSE UNCHANGED espVars
  /\ UNCHANGED <<mock, clientVars>>

EspRead(len) ==
  /\ esp # Nothing /\ esp.opened /\ esp.offset < Len(esp.body)
  /\ LET stop == IF esp.offset + len < Len(esp.body) THEN esp.offset + len
                 ELSE Len(esp.body)
     IN  /\ espRead' = espRead \o SubSeq(esp.body, esp.offset + 1, stop)
         /\ esp' = [esp EXCEPT !.offset = stop]
  /\ UNCHANGED <<mock, espOpened, clientVars>>

EspClose ==
  /\ esp # Nothing
  /\ esp' = [esp EXCEPT !.body = <<>>, !.offset = 0, !.opened = FALSE]
  /\ UNCHANGED <<mock, espOpened, espRead, clientVars>>

EspCleanup ==
  /\ esp # Nothing
  /\ esp' = Nothing /\ espOpened' = NoAnswer /\ espRead' = <<>>
  /\ UNCHANGED <<mock, clientVars>>

IsComplete == esp.opened /\ esp.offset >= Len(esp.body)

-----------------------------------------------------------------------------
(* HTTPClient.h                                                            *)

NewClient == [url |-> Nothing, headers |-> {}, login |-> NoLogin, status |-> 0,
              body |-> <<>>, stream |-> Nothing]
NothingGiven == [headers |-> {}, login |-> NoLogin]

(* begin drops the response and keeps headers and login.                   *)
Begin(url) ==
  /\ http' = [http EXCEPT !.url = url, !.body = <<>>, !.stream = Nothing,
                          !.status = 0]
  /\ streamed' = <<>>
  /\ UNCHANGED <<mock, espVars, given>>

AddHeader(h) ==
  /\ http' = [http EXCEPT !.headers = @ \cup {h}]
  /\ given' = [given EXCEPT !.headers = @ \cup {h}]
  /\ UNCHANGED <<mock, espVars, streamed>>

SetAuthorization ==
  /\ http' = [http EXCEPT !.login = Login]
  /\ given' = [given EXCEPT !.login = Login]
  /\ UNCHANGED <<mock, espVars, streamed>>

(* GET, POST, PUT: a failed fetch leaves an empty body.                    *)
PerformRequest ==
  /\ http.url # Nothing
  /\ \E a \in Fetch(http.url, http.headers, http.login) :
       http' = [http EXCEPT !.status = a.status, !.body = a.body,
                            !.stream = Nothing]
  /\ streamed' = <<>>
  /\ UNCHANGED <<mock, espVars, given>>

(* getStreamPtr()->read(): the stream is made at the first call and keeps  *)
(* a copy of the body.                                                     *)
Stream(s) ==
  IF s = Nothing THEN [text |-> http.body, at |-> 0] ELSE s
ReadStream ==
  LET s == Stream(http.stream)
  IN  /\ s.at < Len(s.text)
      /\ http' = [http EXCEPT !.stream = [s EXCEPT !.at = @ + 1]]
      /\ streamed' = Append(streamed, s.text[s.at + 1])
      /\ UNCHANGED <<mock, espVars, given>>

End ==
  /\ http' = NewClient
  /\ given' = NothingGiven /\ streamed' = <<>>
  /\ UNCHANGED <<mock, espVars>>

HttpConnected ==
  IF http.stream # Nothing THEN http.stream.at < Len(http.stream.text)
  ELSE http.status > 0

-----------------------------------------------------------------------------

HttpInit ==
  /\ mock \in {Nothing} \cup SUBSET Fixtures
  /\ esp = Nothing /\ espOpened = NoAnswer /\ espRead = <<>>
  /\ http = NewClient /\ given = NothingGiven /\ streamed = <<>>

EspNext ==
  \/ \E url \in Urls, login \in {Login, NoLogin} : EspInit(url, login)
  \/ \E h \in Headers : EspSetHeader(h)
  \/ EspPerform \/ EspOpen \/ EspClose \/ EspCleanup
  \/ \E len \in 1 .. 2 : EspRead(len)

ClientNext ==
  \/ \E url \in Urls : Begin(url)
  \/ \E h \in Headers : AddHeader(h)
  \/ SetAuthorization \/ PerformRequest \/ ReadStream \/ End

-----------------------------------------------------------------------------
(* Properties.                                                             *)

(* What a client reads, piece by piece, is the beginning of one response,  *)
(* also over opens that fail, repeated requests and a new begin(); as long *)
(* as perform is not mixed into an open handle, status and length are of   *)
(* the same response; complete means that all of it was read; connected()  *)
(* does not end before the stream does.                                    *)
OneResponse ==
  /\ esp # Nothing /\ esp.opened =>
       /\ IsPrefix(espRead, espOpened.body)
       /\ IsComplete <=> espRead = espOpened.body
       /\ ~esp.performed => /\ esp.status = espOpened.status
                            /\ esp.length = Len(espOpened.body)
  /\ IsPrefix(streamed, http.body)
  /\ http.stream # Nothing /\ ~HttpConnected => streamed = http.body

(* Nobody gets what was not asked for. "When the mock contains a           *)
(* snapshots/ tree, snapshot paths are authoritative: missing files return *)
(* 404, never another directory's same-basename license" (README.md:223);  *)
(* other paths get a fixture of the same name at most. A response from the *)
(* network was asked for with its own URL and with nothing but the headers *)
(* and the login given since the last end(), whatever begin() and failed   *)
(* requests came in between.                                               *)
IsFixtureOf(url, piece) ==
  \/ piece.of.path = url.path
  \/ /\ Last(piece.of.path) = Last(url.path)
     /\ ~(/\ Len(url.path) > 1 /\ url.path[1] = Snapshots
          /\ <<Snapshots>> \in MockDirs)
IsAsked(url, piece, headers, login) ==
  /\ piece.of.from = "mock" => IsFixtureOf(url, piece)
  /\ piece.of.from = "net" => /\ piece.of.path = url.path
                              /\ piece.of.headers \subseteq headers
                              /\ piece.of.login \in {login, NoLogin}
BodiesAsAsked ==
  /\ esp # Nothing => \A i \in DOMAIN esp.body :
       IsAsked(esp.url, esp.body[i], esp.headers, esp.login)
  /\ \A i \in DOMAIN http.body :
       IsAsked(http.url, http.body[i], given.headers, given.login)
=============================================================================
