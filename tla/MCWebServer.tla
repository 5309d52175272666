---------------------------- MODULE MCWebServer ----------------------------
(* An instance of WebServer for TLC.                                       *)
EXTENDS WebServer, MCHttpText

MCUris == {"/upload", "/dav"}

(* Two routes share a URI; nothing but request handlers serves /dav.       *)
MCRoutes ==
  <<[uri |-> "/upload", method |-> "GET", upload |-> FALSE],
    [uri |-> "/upload", method |-> "ANY", upload |-> TRUE]>>

MCReservedNames == {<<97>>}

(* No file, an empty file and one of two chunks.                           *)
MCFiles == {<<>>, <<0, 3>>}
=============================================================================
