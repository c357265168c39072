----------------------------- MODULE MCLblSession -----------------------------
(***************************************************************************)
(* LblSession for TLC.  Of the values one is empty, one is carried by the  *)
(* server, one fills the block and is not, and one does not fit a block.   *)
(***************************************************************************)
EXTENDS LblSession

CONSTANTS v1, empty, spaces, huge

MCSize == [v \in Value |-> CASE v = empty -> 0 [] v = v1 -> 1 [] v = spaces -> 3 [] v = huge -> 4]
=============================================================================
