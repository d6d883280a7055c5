--------------------------- MODULE MCFileRegistry ---------------------------
(***************************************************************************)
(* FileRegistry and EmbedRegistry for TLC, with two of the three           *)
(* extensions: two that a load and a walk prefer differently.              *)
(***************************************************************************)
EXTENDS EmbedRegistry

MCExts   == <<"yaml", "yml">>
MCWalked == <<"yaml", "yml">>
=============================================================================
