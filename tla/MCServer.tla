------------------------------ MODULE MCServer ------------------------------
(***************************************************************************)
(* Two requests, and one signal more than the channel holds.               *)
(***************************************************************************)
EXTENDS Server
=============================================================================
