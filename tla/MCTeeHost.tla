------------------------------ MODULE MCTeeHost ------------------------------
(***************************************************************************)
(* TeeHost for TLC.  One block holds v1 and v2 (up to four characters),    *)
(* two hold w (from five on).                                              *)
(***************************************************************************)
EXTENDS TeeHost, TLC

CONSTANTS v1, v2, w

MCBlocks == [v \in Value |-> IF v = w THEN 2 ELSE 1]
=============================================================================
