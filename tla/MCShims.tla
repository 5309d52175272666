------------------------------- MODULE MCShims ------------------------------
(* An instance of Shims for TLC. The two fixtures differ in their tree.    *)
EXTENDS Shims, MCTexts

MCUrls ==
  {[scheme |-> "http", path |-> p] :
     p \in {<<"snapshots", "a", "L">>, <<"a", "L">>, <<Bad, "L">>}}
  \cup {[scheme |-> "file", path |-> <<"L">>]}
MCFixtures == {<<"a", "L">>, <<"b", "L">>, <<"snapshots", "b", "L">>,
               <<"L", "x">>}
MCTasks == {"render", "sync"}
MCEntries ==
  <<[name |-> "render", bytes |-> 2], [name |-> "sync", bytes |-> 0]>>
MCSsids == {"cafe", "home"}
MCDefaults == {"cafe"}
=============================================================================
