---------------------------- MODULE MCTmDownlink ----------------------------
(***************************************************************************)
(* Small instances of TmDownlink.                                          *)
(***************************************************************************)
EXTENDS TmDownlink
=============================================================================
