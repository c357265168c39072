----------------------------- MODULE MCLblAccess -----------------------------
(***************************************************************************)
(* LblAccess for TLC.  With three bytes and two tasks on each side the     *)
(* proxy's tasks write slots 0..7 and 8..11; the server's tasks process    *)
(* slots 0..7 and 2..5, so they overlap and the third byte is carried by   *)
(* neither.  The other configurations have as many tasks as bytes, more,   *)
(* and a different number on the two sides.                                *)
(***************************************************************************)
EXTENDS LblAccess

Built(size, proxy, server) ==
  [VALUE_SIZE |-> size, PROXY_NUM_THREADS |-> proxy, SERVER_NUM_THREADS |-> server]

MCConfiguration == {Built(3, 2, 2), Built(2, 3, 1), Built(2, 2, 3), Built(1, 1, 2),
                    Built(4, 3, 2)}

\* Bytes 99 = 01 10 00 11 and 27 = 00 01 10 11 hold every two-bit pattern.  The
\* third value reaches past the carried bytes, the last past VALUE_SIZE.
MCValue == { <<>>, <<27, 99>>, <<99, 27, 99>>, <<1, 2, 3, 4>> }

\* Selectors that differ from group to group and from one key to another.
MCSelectorChoice == { [s \in 0..15 |-> s % 4], [s \in 0..15 |-> (3 * s + 1) % 4] }
=============================================================================
