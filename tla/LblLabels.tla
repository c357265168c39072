------------------------------ MODULE LblLabels ------------------------------
(***************************************************************************)
(* The data algorithms of ORTOA-LBL, shared by the proxy's helper library  *)
(* (clientHelper.cpp) and the storage server (server.cpp).                 *)
(*                                                                         *)
(* A value is a sequence of bytes, padded with blanks to VALUE_SIZE.  Each *)
(* byte is four groups of two bits; group g = 4*i + j holds bits 2j, 2j+1  *)
(* of byte i.  The server stores, for every group, one 33-byte slot: a     *)
(* selector byte and a label (a PRF output).  An access ships, for every   *)
(* slot, a table of four secret boxes, one per value of the two bits; the  *)
(* stored selector names the one box the stored label opens, and its       *)
(* content is the slot that replaces the stored one.                       *)
(*                                                                         *)
(* Cryptography is symbolic.  crypto_kdf_derive_from_key(id, masterKey) is *)
(* injective in (masterKey, id), so its output is the pair; a secret box   *)
(* opens under the key it was made with and under no other.  A master key  *)
(* is its identity and the selectors its even KDF outputs happen to yield, *)
(* [id |-> n, sel |-> [group -> 0..3]].                                    *)
(***************************************************************************)
EXTENDS Integers, Sequences

(***************************************************************************)
(* Two-bit arithmetic on bytes                                             *)
(***************************************************************************)
Pair == 0..3

Byte == 0..255

\* The operator ^ of C++ on two-bit operands.
Xor(a, b) == ((a + b) % 2) + 2 * ((a \div 2 + b \div 2) % 2)

\* getBits(c, 2 * j): the j-th pair of bits of byte c.
GetBits(c, j) == (c \div 4^j) % 4

\* modifyBits(c, 2 * j, b): byte c with its j-th pair of bits replaced by b.
ModifyBits(c, j, b) == c - GetBits(c, j) * 4^j + b * 4^j

Blank == 32

\* padToLen(value, len); the caller guarantees Len(value) <= len.
PadToLen(value, len) == value \o [i \in 1..(len - Len(value)) |-> Blank]

\* The bits of group g of a padded value (bytes are numbered from 0 in the code).
GroupBits(padded, g) == GetBits(padded[g \div 4 + 1], g % 4)

(***************************************************************************)
(* How a block of size bytes is divided among n tasks of the thread pool   *)
(***************************************************************************)
\* Mutant: the quotient is not rounded up.
PartSizeTruncated(size, n) == size \div n

PartSize(size, n) == size \div n + (IF size % n # 0 THEN 1 ELSE 0)

PartStart(part, size, n) == part * PartSize(size, n)

PartLimit(part, size, n) ==
  LET end == (part + 1) * PartSize(size, n)
  IN  IF end < size THEN end ELSE size

\* How many turns of the inner loop (groups) a task takes; a task that starts
\* past the end takes none.
PartGroups(part, size, n) ==
  IF PartLimit(part, size, n) > PartStart(part, size, n)
  THEN 4 * (PartLimit(part, size, n) - PartStart(part, size, n))
  ELSE 0

\* createEntryParallel, getEntryParallel and putEntryParallel: both the KDF
\* index 4*i + j and the slot written on a task's c-th turn, since the pointers
\* are advanced by start * 4 slots.
ProxyGroup(part, c, size, n) == 4 * PartStart(part, size, n) + c

\* Mutant: the first slot is skipped.
ServerSlotSkipping(part, c, size, n) == PartStart(part, size, n) + c + 1

\* decryptPortion: the slot processed on a task's c-th turn.  The pointers are
\* advanced by start slots, not by start * 4.
ServerSlot(part, c, size, n) == PartStart(part, size, n) + c

\* The tasks of a division, and the turns one of them takes.
Part(n) == 0..(n - 1)

Turn(p, size, n) == 0..(PartGroups(p, size, n) - 1)

\* The slots some server task processes.
ServerSlots(size, n) ==
  UNION { { ServerSlot(p, c, size, n) : c \in Turn(p, size, n) } : p \in Part(n) }

\* The proxy's tasks fill every slot ...
TasksCover(size, n) ==
  \A g \in 0..(4 * size - 1) : \E p \in Part(n) : \E c \in Turn(p, size, n) :
    ProxyGroup(p, c, size, n) = g

\* ... and no slot is filled by two tasks, or twice by one.
TasksDisjoint(size, n) ==
  \A p, q \in Part(n) : \A c \in Turn(p, size, n) : \A d \in Turn(q, size, n) :
    ProxyGroup(p, c, size, n) = ProxyGroup(q, d, size, n) => p = q /\ c = d

\* How many leading bytes have all four of their groups processed.
CarriedBytes(size, n) ==
  CHOOSE b \in 0..size :
    /\ \A g \in 0..(4 * b - 1) : g \in ServerSlots(size, n)
    /\ b < size => \E g \in (4 * b)..(4 * b + 3) : g \notin ServerSlots(size, n)

(***************************************************************************)
(* Labels, slots and tables                                                *)
(***************************************************************************)
\* The two low bits of KDF output 5 * g.
Selector(mk, g) == mk.sel[g]

KdfId(g, b) == 5 * g + 1 + b

Label(mk, g, b) == <<mk.id, KdfId(g, b)>>

\* What the server stores for group g holding bits b.
Stored(mk, g, b) == [aux |-> Xor(Selector(mk, g), b), label |-> Label(mk, g, b)]

\* A slot of a buffer that was only resized: all bytes zero.
ZeroSlot == [aux |-> 0, label |-> <<0, 0>>]

\* Mutant: the boxes are not permuted by the old selector.
GetTableUnpermuted(old, new, g) ==
  [p \in Pair |-> [key |-> Label(old, g, p), msg |-> Stored(new, g, p)]]

\* The four boxes of a GET: box p is locked with the old label of bits
\* p ^ oldBits and carries the new slot of the same bits.
GetTable(old, new, g) ==
  [p \in Pair |-> LET b == Xor(p, Selector(old, g))
                  IN  [key |-> Label(old, g, b), msg |-> Stored(new, g, b)]]

\* The four boxes of a PUT: all of them carry the new slot of the new bits.
PutTable(old, new, g, bits) ==
  [p \in Pair |-> [key |-> Label(old, g, Xor(p, Selector(old, g))),
                   msg |-> Stored(new, g, bits)]]

\* A table of a buffer that was only resized: no label opens it.
ZeroTable == [p \in Pair |-> [key |-> <<-1, 0>>, msg |-> ZeroSlot]]

\* crypto_secretbox_open_easy on the box the stored selector names.
Chosen(table, slot) == table[slot.aux]

Opens(table, slot) == Chosen(table, slot).key = slot.label

\* readValueFromLabels on one slot: a label that is none of the first three
\* reads as 3.
ReadBits(mk, g, slot) ==
  IF \E b \in 0..2 : slot.label = Label(mk, g, b)
  THEN CHOOSE b \in 0..2 : slot.label = Label(mk, g, b)
  ELSE 3

\* The byte assembled from the four slots of byte i, whatever c held before.
ReadByte(mk, i, labels, c) ==
  LET bits(j) == ReadBits(mk, 4 * i + j, labels[4 * i + j])
  IN  ModifyBits(ModifyBits(ModifyBits(ModifyBits(c, 0, bits(0)),
                                       1, bits(1)), 2, bits(2)), 3, bits(3))

\* readValueFromLabels: every byte is decoded, the result cut at the recorded size.
ReadValue(mk, labels, size) == [i \in 1..size |-> ReadByte(mk, i - 1, labels, 0)]
=============================================================================
