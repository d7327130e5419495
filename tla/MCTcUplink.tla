----------------------------- MODULE MCTcUplink -----------------------------
(***************************************************************************)
(* Small instances of TcUplink: packets of 3 chunks; tc_msg_fifo holds two  *)
(* packets, as it does in the code (152 words, 2 * 38 chunks of 2 words).   *)
(***************************************************************************)
EXTENDS TcUplink
=============================================================================
