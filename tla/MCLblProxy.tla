------------------------------ MODULE MCLblProxy ------------------------------
(***************************************************************************)
(* LblProxy for TLC.  A block has 3 bytes and the server 2 tasks, so that  *)
(* two bytes are carried over: short values survive an access, long ones   *)
(* are garbled by it and huge ones do not fit a block.                     *)
(***************************************************************************)
EXTENDS LblProxyKV

CONSTANTS short1, long, huge

MCSize == [v \in Value |-> CASE v = long -> 3 [] v = huge -> 4 [] OTHER -> 1]
=============================================================================
