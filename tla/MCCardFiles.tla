---------------------------- MODULE MCCardFiles -----------------------------
(* Two files and a directory, three descriptors.                           *)
EXTENDS CardFiles, TLC
=============================================================================
