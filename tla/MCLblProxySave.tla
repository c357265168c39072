---------------------------- MODULE MCLblProxySave ----------------------------
(***************************************************************************)
(* LblProxySave for TLC, with the values of MCLblProxy.                    *)
(***************************************************************************)
EXTENDS LblProxySave, TLC

CONSTANTS short1, long

MCSize == [v \in Value |-> IF v = long THEN 3 ELSE 1]

\* Threads are interchangeable.
Symmetry == Permutations(Thread)
=============================================================================
