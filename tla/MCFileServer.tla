---------------------------- MODULE MCFileServer ----------------------------
(* Directories a and b, a system file h in the root and one in a.          *)
EXTENDS FileServer

MCPaths == {<<>>, <<"a">>, <<"b">>, <<"h">>,
            <<"a", "a">>, <<"a", "h">>, <<"b", "a">>}
=============================================================================
