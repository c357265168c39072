--------------------------- MODULE LblAccessProofs ---------------------------
(***************************************************************************)
(* What the label tables and the division into tasks guarantee, and from   *)
(* that what an access does to the block of a key, for every block size,   *)
(* number of tasks on either side, set of values and choice of selectors.  *)
(***************************************************************************)
EXTENDS LblAccess, SequenceTheorems, TLAPS

(***************************************************************************)
(* Label tables                                                            *)
(***************************************************************************)
\* The operator ^ on two-bit numbers stays in range and undoes itself.
LEMMA XorCancels ==
  ASSUME NEW a \in Pair, NEW b \in Pair
  PROVE  Xor(a, b) \in Pair /\ Xor(Xor(a, b), a) = b
<1>1. a = 0 \/ a = 1 \/ a = 2 \/ a = 3
  BY DEF Pair
<1>2. b = 0 \/ b = 1 \/ b = 2 \/ b = 3
  BY DEF Pair
<1> QED
  BY <1>1, <1>2 DEF Xor, Pair

\* No two (group, bits) share a KDF identifier, and no label has the identifier of
\* a selector (5 * g): clientHelper.cpp's 5 * (4 * i + j) + 1 + bits.
THEOREM KdfIdsDistinct ==
  ASSUME NEW g \in Nat, NEW h \in Nat, NEW b \in Pair, NEW c \in Pair
  PROVE  /\ KdfId(g, b) = KdfId(h, c) => g = h /\ b = c
         /\ KdfId(g, b) # 5 * h
BY DEF KdfId, Pair

SelectorsOf(Group) == [id : Nat, sel : [Group -> Pair]]

\* A slot made for bits b under the old master key opens the one box of a GET's table
\* its selector names, and turns into the slot for the same bits under the new key
\* (getEntryParallel against decryptPortion).
THEOREM GetPreservesBits ==
  ASSUME NEW Group, NEW old \in SelectorsOf(Group), NEW new \in SelectorsOf(Group),
         NEW g \in Group, NEW b \in Pair
  PROVE  LET slot == Stored(old, g, b)
         IN  /\ Opens(GetTable(old, new, g), slot)
             /\ Chosen(GetTable(old, new, g), slot).msg = Stored(new, g, b)
<1>1. Selector(old, g) \in Pair
  BY DEF Selector, SelectorsOf
<1>2. /\ Xor(Selector(old, g), b) \in Pair
      /\ Xor(Xor(Selector(old, g), b), Selector(old, g)) = b
  BY <1>1, XorCancels
<1> QED
  BY <1>2 DEF Opens, Chosen, GetTable, Stored

\* The same for a PUT: whatever the old bits, the slot for the new bits results
\* (putEntryParallel against decryptPortion).
THEOREM PutInstallsBits ==
  ASSUME NEW Group, NEW old \in SelectorsOf(Group), NEW new \in SelectorsOf(Group),
         NEW g \in Group, NEW b \in Pair, NEW bits \in Pair
  PROVE  LET slot == Stored(old, g, b)
         IN  /\ Opens(PutTable(old, new, g, bits), slot)
             /\ Chosen(PutTable(old, new, g, bits), slot).msg = Stored(new, g, bits)
<1>1. Selector(old, g) \in Pair
  BY DEF Selector, SelectorsOf
<1>2. /\ Xor(Selector(old, g), b) \in Pair
      /\ Xor(Xor(Selector(old, g), b), Selector(old, g)) = b
  BY <1>1, XorCancels
<1> QED
  BY <1>2 DEF Opens, Chosen, PutTable, Stored

\* readValueFromLabels reads the bits a slot was made for.
THEOREM ReadBitsCorrect ==
  ASSUME NEW Group, NEW mk \in SelectorsOf(Group), NEW g \in Nat, NEW b \in Pair
  PROVE  ReadBits(mk, g, Stored(mk, g, b)) = b
<1>1. \A c \in 0..2 : Stored(mk, g, b).label = Label(mk, g, c) <=> b = c
  <2> SUFFICES ASSUME NEW c \in 0..2
               PROVE  Stored(mk, g, b).label = Label(mk, g, c) <=> b = c
    OBVIOUS
  <2>1. c \in Pair
    BY DEF Pair
  <2>2. KdfId(g, b) = KdfId(g, c) <=> b = c
    BY <2>1, KdfIdsDistinct
  <2>3. Stored(mk, g, b).label = <<mk.id, KdfId(g, b)>>
    BY DEF Stored, Label
  <2> QED
    BY <2>2, <2>3 DEF Label
<1>2. CASE b = 3
  BY <1>1, <1>2 DEF ReadBits
<1>3. CASE b \in 0..2
  <2>1. (CHOOSE c \in 0..2 : Stored(mk, g, b).label = Label(mk, g, c)) = b
    BY <1>1, <1>3
  <2> QED
    BY <1>1, <1>3, <2>1 DEF ReadBits
<1> QED
  BY <1>2, <1>3 DEF Pair

(***************************************************************************)
(* Tasks                                                                   *)
(***************************************************************************)
\* The rounded-up part size is positive, at most the block, and enough for it.
LEMMA PartSizeBounds ==
  ASSUME NEW sz \in Nat \ {0}, NEW m \in Nat \ {0}
  PROVE  /\ PartSize(sz, m) \in 1..sz
         /\ sz <= m * PartSize(sz, m)
<1> DEFINE q == sz \div m
           r == sz % m
<1>1. q \in Nat /\ r \in 0..(m - 1) /\ sz = m * q + r
  OBVIOUS
<1>2. m * (q + 1) = m * q + m
  BY <1>1
<1>3. q <= sz
  BY <1>1
<1>4. r # 0 => q < sz
  BY <1>1
<1>5. sz = 0 \/ r # 0 \/ q # 0
  BY <1>1
<1>6. PartSize(sz, m) = q + (IF r # 0 THEN 1 ELSE 0)
  BY DEF PartSize
<1> HIDE DEF q, r
<1> QED
  BY <1>1, <1>2, <1>3, <1>4, <1>5, <1>6

\* A larger multiple of m is larger by at least m.
LEMMA MultipleStep ==
  ASSUME NEW p \in Nat, NEW q \in Nat, NEW m \in Nat, p < q
  PROVE  p * m + m <= q * m
<1>1. PICK e \in Nat : q = p + 1 + e
  <2>1. q - p - 1 \in Nat /\ q = p + 1 + (q - p - 1)
    OBVIOUS
  <2> QED
    BY <2>1
<1>2. q * m = p * m + m + e * m
  BY <1>1
<1> QED
  BY <1>2

\* What a task's start and number of turns amount to.
LEMMA TaskBounds ==
  ASSUME NEW size \in Nat \ {0}, NEW n \in Nat \ {0}, NEW p \in Part(n), NEW c \in Turn(p, size, n)
  PROVE  LET m == PartSize(size, n)
         IN  /\ m \in Nat \ {0} /\ p \in Nat /\ c \in Nat
             /\ PartStart(p, size, n) = p * m /\ p * m \in Nat
             /\ PartLimit(p, size, n) \in Nat
             /\ PartLimit(p, size, n) <= size
             /\ PartLimit(p, size, n) <= p * m + m
             /\ p * m < PartLimit(p, size, n)
             /\ c < 4 * (PartLimit(p, size, n) - p * m)
<1> DEFINE m == PartSize(size, n)
<1>1. m \in Nat \ {0} /\ p \in Nat
  BY PartSizeBounds DEF Part
<1>2. p * m \in Nat /\ (p + 1) * m = p * m + m
  BY <1>1
<1>3. PartStart(p, size, n) = p * m
  BY DEF PartStart
<1>4. /\ PartLimit(p, size, n) \in Nat
      /\ PartLimit(p, size, n) <= size
      /\ PartLimit(p, size, n) <= p * m + m
  BY <1>1, <1>2 DEF PartLimit
<1>5. PartGroups(p, size, n) = IF PartLimit(p, size, n) > p * m
                               THEN 4 * (PartLimit(p, size, n) - p * m) ELSE 0
  BY <1>3 DEF PartGroups
<1>6. c \in 0..(PartGroups(p, size, n) - 1)
  BY DEF Turn
<1> HIDE DEF m
<1>7. c \in Nat /\ p * m < PartLimit(p, size, n)
                /\ c < 4 * (PartLimit(p, size, n) - p * m)
  BY <1>2, <1>4, <1>5, <1>6
<1> QED
  BY <1>1, <1>2, <1>3, <1>4, <1>7 DEF m

\* No slot of an entry is filled twice (the pool's tasks write without a lock).
LEMMA TasksDisjointHolds ==
  ASSUME NEW size \in Nat \ {0}, NEW n \in Nat \ {0}
  PROVE  TasksDisjoint(size, n)
<1> SUFFICES ASSUME NEW p \in Part(n), NEW q \in Part(n),
                    NEW c \in Turn(p, size, n), NEW d \in Turn(q, size, n),
                    ProxyGroup(p, c, size, n) = ProxyGroup(q, d, size, n)
             PROVE  p = q /\ c = d
  BY DEF TasksDisjoint
<1> DEFINE m == PartSize(size, n)
<1>1. 4 * (p * m) + c = 4 * (q * m) + d
  BY DEF ProxyGroup, PartStart
<1>2. /\ m \in Nat \ {0} /\ p \in Nat /\ c \in Nat
      /\ p * m \in Nat /\ c < 4 * m
  BY TaskBounds
<1>3. /\ q \in Nat /\ d \in Nat
      /\ q * m \in Nat /\ d < 4 * m
  BY TaskBounds
<1> HIDE DEF m
<1>4. ~(p < q)
  <2>1. p < q => p * m + m <= q * m
    BY <1>2, <1>3, MultipleStep
  <2> QED
    BY <2>1, <1>1, <1>2, <1>3
<1>5. ~(q < p)
  <2>1. q < p => q * m + m <= p * m
    BY <1>2, <1>3, MultipleStep
  <2> QED
    BY <2>1, <1>1, <1>2, <1>3
<1>6. p = q
  BY <1>2, <1>3, <1>4, <1>5
<1> QED
  BY <1>1, <1>2, <1>3, <1>6

\* Every slot of an entry is filled.
LEMMA TasksCoverHolds ==
  ASSUME NEW size \in Nat \ {0}, NEW n \in Nat \ {0}
  PROVE  TasksCover(size, n)
<1> SUFFICES ASSUME NEW g \in 0..(4 * size - 1)
             PROVE  \E p \in Part(n) : \E c \in Turn(p, size, n) : ProxyGroup(p, c, size, n) = g
  BY DEF TasksCover
<1> DEFINE m == PartSize(size, n)
           i == g \div 4
           p == i \div m
           c == g - 4 * (p * m)
<1>1. m \in Nat \ {0} /\ size <= n * m
  BY PartSizeBounds
<1>2. i \in Nat /\ i < size /\ 4 * i <= g /\ g < 4 * i + 4 /\ g \in Nat
  OBVIOUS
<1> HIDE DEF i, m
<1>3. p \in Nat /\ p * m <= i /\ i < p * m + m /\ p * m \in Nat
  BY <1>1, <1>2
<1> HIDE DEF p
<1>4. p \in Part(n)
  <2>1. ~(p >= n)
    <3>1. p = n \/ p > n => n * m <= p * m
      BY <1>1, <1>3, MultipleStep
    <3> QED
      BY <3>1, <1>1, <1>2, <1>3
  <2> QED
    BY <2>1, <1>3 DEF Part
<1>5. PartStart(p, size, n) = p * m
  BY DEF PartStart, m
<1>6. PartLimit(p, size, n) \in Nat /\ i < PartLimit(p, size, n)
  <2>1. (p + 1) * m = p * m + m
    BY <1>1, <1>3
  <2> QED
    BY <2>1, <1>1, <1>2, <1>3 DEF PartLimit, m
<1>7. PartGroups(p, size, n) = 4 * (PartLimit(p, size, n) - p * m)
  BY <1>3, <1>5, <1>6, <1>2 DEF PartGroups
<1>8. c \in Turn(p, size, n)
  BY <1>2, <1>3, <1>6, <1>7 DEF Turn
<1>9. ProxyGroup(p, c, size, n) = g
  BY <1>2, <1>3, <1>5 DEF ProxyGroup
<1> QED
  BY <1>4, <1>8, <1>9

\* ServerSlots by its elements.
LEMMA ServerSlotsAre ==
  ASSUME NEW size, NEW n
  PROVE  \A r : r \in ServerSlots(size, n) <=>
           \E p \in Part(n) : \E c \in Turn(p, size, n) : r = ServerSlot(p, c, size, n)
BY DEF ServerSlots, Part, Turn

\* The server's tasks stay inside the block in every configuration.
LEMMA ServerTaskInBlock ==
  ASSUME NEW size \in Nat \ {0}, NEW n \in Nat \ {0}
  PROVE  ServerSlots(size, n) \subseteq 0..(4 * size - 1)
<1> SUFFICES ASSUME NEW p \in Part(n), NEW c \in Turn(p, size, n)
             PROVE  ServerSlot(p, c, size, n) \in 0..(4 * size - 1)
  BY ServerSlotsAre
<1> DEFINE s == PartStart(p, size, n)
           l == PartLimit(p, size, n)
<1>1. /\ s \in Nat /\ c \in Nat /\ l \in Nat
      /\ l <= size /\ c < 4 * (l - s)
  BY TaskBounds
<1>2. ServerSlot(p, c, size, n) = s + c
  BY DEF ServerSlot
<1> HIDE DEF s, l
<1> QED
  BY <1>1, <1>2

\* The server's tasks process a prefix of the block, in every configuration.
LEMMA ServerSlotsPrefix ==
  ASSUME NEW size \in Nat \ {0}, NEW n \in Nat \ {0}
  PROVE  \A s \in ServerSlots(size, n) : 0..s \subseteq ServerSlots(size, n)
<1> SUFFICES ASSUME NEW s \in ServerSlots(size, n), NEW r \in 0..s
             PROVE  r \in ServerSlots(size, n)
  OBVIOUS
<1> DEFINE m == PartSize(size, n)
           q == r \div m
<1>1. PICK p \in Part(n) : \E c \in Turn(p, size, n) : s = ServerSlot(p, c, size, n)
  BY ServerSlotsAre
<1>2. PICK c \in Turn(p, size, n) : s = ServerSlot(p, c, size, n)
  BY <1>1
<1>3. /\ m \in Nat \ {0} /\ p \in Nat /\ c \in Nat
      /\ PartStart(p, size, n) = p * m /\ p * m \in Nat
      /\ PartLimit(p, size, n) \in Nat
      /\ PartLimit(p, size, n) <= size
      /\ p * m < PartLimit(p, size, n)
      /\ c < 4 * (PartLimit(p, size, n) - p * m)
  BY TaskBounds
<1>4. s = p * m + c /\ r \in Nat /\ r <= s
  BY <1>2, <1>3 DEF ServerSlot
<1> HIDE DEF m
<1>5. q \in Nat /\ q * m <= r /\ r < q * m + m /\ q * m \in Nat
  BY <1>3, <1>4
<1> HIDE DEF q
<1>6. CASE p * m <= r
  <2>1. PartGroups(p, size, n) = 4 * (PartLimit(p, size, n) - p * m)
    BY <1>3 DEF PartGroups
  <2>2. r - p * m \in Turn(p, size, n)
    BY <1>3, <1>4, <1>6, <2>1 DEF Turn
  <2>3. r = ServerSlot(p, r - p * m, size, n)
    BY <1>3, <1>4 DEF ServerSlot
  <2> QED
    BY <2>2, <2>3, ServerSlotsAre
<1>7. CASE r < p * m
  <2>1. q < p
    <3>1. p < q => p * m + m <= q * m
      BY <1>3, <1>5, MultipleStep
    <3> QED
      BY <3>1, <1>3, <1>4, <1>5, <1>7
  <2>2. q * m + m <= p * m
    BY <2>1, <1>3, <1>5, MultipleStep
  <2>3. q \in Part(n)
    BY <2>1, <1>3, <1>5 DEF Part
  <2>4. PartStart(q, size, n) = q * m
    BY DEF PartStart, m
  <2>5. PartLimit(q, size, n) = q * m + m
    <3>1. (q + 1) * m = q * m + m
      BY <1>3, <1>5
    <3> QED
      BY <3>1, <2>2, <1>3, <1>5 DEF PartLimit, m
  <2>6. PartGroups(q, size, n) = 4 * m
    BY <2>4, <2>5, <1>3, <1>5 DEF PartGroups
  <2>7. r - q * m \in Turn(q, size, n)
    BY <2>6, <1>3, <1>4, <1>5 DEF Turn
  <2>8. r = ServerSlot(q, r - q * m, size, n)
    BY <2>4, <1>4, <1>5 DEF ServerSlot
  <2> QED
    BY <2>3, <2>7, <2>8, ServerSlotsAre
<1> QED
  BY <1>3, <1>4, <1>6, <1>7

\* The configuration is never rebuilt under a running system.
LEMMA ConfigHolds == Spec => [](config \in Configuration)
<1>1. Init => config \in Configuration
  BY DEF Init
<1>2. config \in Configuration /\ [Next]_vars => (config \in Configuration)'
  BY DEF Next, vars, Step, Done, BeginCreate, BeginGet, BeginPut, BeginAccess, PutTooLong,
         CreateStep, BuildStep, SendCreate, SendAccess, DecryptStep, Finish
<1> QED
  BY <1>1, <1>2, PTL DEF Spec

\* The proxy's tasks fill every slot of an entry exactly once, for every value size and
\* number of tasks.
THEOREM ProxyTasksExactHolds == Spec => []ProxyTasksExact
<1>1. config \in Configuration => ProxyTasksExact
  BY LblAccessAssumption, TasksCoverHolds, TasksDisjointHolds
  DEF ProxyTasksExact, VALUE_SIZE, PROXY_NUM_THREADS
<1> QED
  BY <1>1, ConfigHolds, PTL

\* The server's tasks stay inside the block and process a prefix of it, for every value
\* size and number of tasks.
THEOREM ServerTasksPrefixHolds == Spec => []ServerTasksPrefix
<1>1. config \in Configuration => ServerTasksPrefix
  BY LblAccessAssumption, ServerTaskInBlock, ServerSlotsPrefix
  DEF ServerTasksPrefix, CarriedGroups, VALUE_SIZE, SERVER_NUM_THREADS, Slot
<1> QED
  BY <1>1, ConfigHolds, PTL

(***************************************************************************)
(* Bits of padded values and of decoded bytes                              *)
(***************************************************************************)
\* The weights of the four pairs of bits in a byte.
LEMMA Weights == 4^0 = 1 /\ 4^1 = 4 /\ 4^2 = 16 /\ 4^3 = 64
OBVIOUS

\* A pair of bits of a byte is a two-bit number.
LEMMA GetBitsType ==
  ASSUME NEW c \in Nat, NEW j \in Pair
  PROVE  GetBits(c, j) \in Pair
<1>1. j = 0 \/ j = 1 \/ j = 2 \/ j = 3
  BY DEF Pair
<1> QED
  BY <1>1, Weights DEF GetBits, Pair

\* The values that fit in a block.
Fits == { v \in Seq(Byte) : Len(v) <= VALUE_SIZE }

\* The bits of value v that group g holds.
BitsOf(v, g) == GroupBits(PadToLen(v, VALUE_SIZE), g)

\* padToLen keeps the value's bytes and fills the rest of the block.
LEMMA PadToLenIs ==
  ASSUME VALUE_SIZE \in Nat, NEW v \in Fits
  PROVE  /\ PadToLen(v, VALUE_SIZE) \in Seq(Byte)
         /\ Len(PadToLen(v, VALUE_SIZE)) = VALUE_SIZE
         /\ \A i \in 1..Len(v) : PadToLen(v, VALUE_SIZE)[i] = v[i]
<1> DEFINE room == VALUE_SIZE - Len(v)
           fill == [i \in 1..room |-> Blank]
<1>1. v \in Seq(Byte) /\ Len(v) \in Nat /\ room \in Nat
  BY DEF Fits
<1>2. Blank \in Byte
  BY DEF Blank, Byte
<1>3. Len(v) + room = VALUE_SIZE
  BY <1>1
<1>4. PadToLen(v, VALUE_SIZE) = v \o fill
  BY DEF PadToLen
<1> HIDE DEF room
<1>5. fill \in Seq(Byte) /\ Len(fill) = room
  BY <1>1, <1>2
<1> HIDE DEF fill
<1>6. /\ v \o fill \in Seq(Byte)
      /\ Len(v \o fill) = Len(v) + Len(fill)
      /\ \A i \in 1..(Len(v) + Len(fill)) :
           (v \o fill)[i] = IF i <= Len(v) THEN v[i] ELSE fill[i - Len(v)]
  BY <1>1, <1>5, ConcatProperties
<1> QED
  BY <1>1, <1>3, <1>4, <1>5, <1>6

\* What a group of a value that fits holds.
LEMMA BitsOfType ==
  ASSUME VALUE_SIZE \in Nat \ {0}, NEW v \in Fits, NEW g \in Slot
  PROVE  BitsOf(v, g) \in Pair
<1>1. g \div 4 + 1 \in 1..VALUE_SIZE /\ g % 4 \in Pair
  BY DEF Slot, Pair
<1>2. PadToLen(v, VALUE_SIZE) \in Seq(Byte) /\ Len(PadToLen(v, VALUE_SIZE)) = VALUE_SIZE
  BY PadToLenIs
<1>3. PadToLen(v, VALUE_SIZE)[g \div 4 + 1] \in Byte
  BY <1>1, <1>2, ElementOfSeq
<1>4. PadToLen(v, VALUE_SIZE)[g \div 4 + 1] \in Nat
  BY <1>3 DEF Byte
<1> QED
  BY <1>1, <1>4, GetBitsType DEF BitsOf, GroupBits

\* Group 4 * (i - 1) + j of a padded value is pair j of its i-th byte.
LEMMA BitsOfByte ==
  ASSUME VALUE_SIZE \in Nat, NEW v \in Fits, NEW i \in 1..Len(v), NEW j \in Pair
  PROVE  BitsOf(v, 4 * (i - 1) + j) = GetBits(v[i], j)
<1>1. i \in Nat \ {0}
  BY DEF Fits
<1>2. (4 * (i - 1) + j) \div 4 + 1 = i /\ (4 * (i - 1) + j) % 4 = j
  BY <1>1 DEF Pair
<1> QED
  BY <1>2, PadToLenIs DEF BitsOf, GroupBits

\* readValueFromLabels assembles a byte whose pairs are the bits of its four slots.
LEMMA ReadBytePairs ==
  ASSUME NEW mk, NEW i \in Nat, NEW labels, NEW j \in Pair,
         \A k \in Pair : ReadBits(mk, 4 * i + k, labels[4 * i + k]) \in Pair
  PROVE  /\ ReadByte(mk, i, labels, 0) \in Byte
         /\ GetBits(ReadByte(mk, i, labels, 0), j) = ReadBits(mk, 4 * i + j, labels[4 * i + j])
<1> DEFINE a == ReadBits(mk, 4 * i + 0, labels[4 * i + 0])
           b == ReadBits(mk, 4 * i + 1, labels[4 * i + 1])
           c == ReadBits(mk, 4 * i + 2, labels[4 * i + 2])
           d == ReadBits(mk, 4 * i + 3, labels[4 * i + 3])
           r == ReadByte(mk, i, labels, 0)
<1>1. a \in Pair /\ b \in Pair /\ c \in Pair /\ d \in Pair
  <2>1. 0 \in Pair /\ 1 \in Pair /\ 2 \in Pair /\ 3 \in Pair
    BY DEF Pair
  <2> QED
    BY <2>1
<1>2. r = ModifyBits(ModifyBits(ModifyBits(ModifyBits(0, 0, a), 1, b), 2, c), 3, d)
  BY DEF ReadByte
<1> HIDE DEF a, b, c, d, r
<1>3. r = a + 4 * b + 16 * c + 64 * d
  <2>1. ModifyBits(0, 0, a) = a
    BY <1>1, Weights DEF ModifyBits, GetBits, Pair
  <2>2. ModifyBits(a, 1, b) = a + 4 * b
    BY <1>1, Weights DEF ModifyBits, GetBits, Pair
  <2>3. ModifyBits(a + 4 * b, 2, c) = a + 4 * b + 16 * c
    BY <1>1, Weights DEF ModifyBits, GetBits, Pair
  <2>4. ModifyBits(a + 4 * b + 16 * c, 3, d) = a + 4 * b + 16 * c + 64 * d
    BY <1>1, Weights DEF ModifyBits, GetBits, Pair
  <2> QED
    BY <1>2, <2>1, <2>2, <2>3, <2>4
<1>4. r \in Byte /\ r \in Nat /\ r \div 1 = r /\ r % 4 = a
  BY <1>1, <1>3 DEF Pair, Byte
<1>5. r \div 4 = b + 4 * c + 16 * d /\ (b + 4 * c + 16 * d) % 4 = b
  BY <1>1, <1>3 DEF Pair
<1>6. r \div 16 = c + 4 * d /\ (c + 4 * d) % 4 = c
  BY <1>1, <1>3 DEF Pair
<1>7. r \div 64 = d /\ d % 4 = d
  BY <1>1, <1>3 DEF Pair
<1>8. GetBits(r, 0) = a /\ GetBits(r, 1) = b /\ GetBits(r, 2) = c /\ GetBits(r, 3) = d
  BY <1>4, <1>5, <1>6, <1>7, Weights DEF GetBits
<1>9. j = 0 \/ j = 1 \/ j = 2 \/ j = 3
  BY DEF Pair
<1> QED
  BY <1>4, <1>8, <1>9 DEF a, b, c, d, r

(***************************************************************************)
(* The inductive invariant of an access                                    *)
(***************************************************************************)
\* The slots that the tasks of the current phase have processed so far.
ProxyDone ==
  { g \in Slot : \E p \in ProxyPart : \E c \in 0..(turns[p] - 1) :
      g = ProxyGroup(p, c, VALUE_SIZE, PROXY_NUM_THREADS) }

ServerDone ==
  { s \in Slot : \E p \in ServerPart : \E c \in 0..(turns[p] - 1) :
      s = ServerSlot(p, c, VALUE_SIZE, SERVER_NUM_THREADS) }

\* What group g becomes when the access in progress has been carried out.
Result(g) == Stored(masterKey, g, BitsOf(written, g))

\* The table the proxy builds for group g.
Table(g) ==
  IF op.kind = "GET" THEN GetTable(masterKey, newKey, g)
                     ELSE PutTable(masterKey, newKey, g, BitsOf(op.value, g))

TypeInv ==
  /\ config \in Configuration
  /\ masterKey \in SelectorsOf(Slot) /\ newKey \in SelectorsOf(Slot)
  /\ known \in BOOLEAN
  /\ op.kind \in {"none", "create", "GET", "PUT"} /\ op.value \in Fits
  /\ phase \in {"idle", "create", "build", "decrypt", "thrown"}
  /\ entry = [s \in Slot |-> entry[s]]
  /\ out = [s \in Slot |-> out[s]]
  /\ ops \in Nat
  /\ written \in Fits

\* A create fills the entry with slots of its value under the key already recorded.
CreateInv ==
  phase = "create" =>
    /\ turns \in [ProxyPart -> Nat]
    /\ written = op.value
    /\ \A g \in ProxyDone : entry[g] = Result(g)

\* Between operations, and until a new key replaces the old one, every carried slot
\* was made for some bits under the recorded key: the last value's, unless a PUT is
\* about to replace it.
BlockInv ==
  known /\ phase \in {"idle", "build"} =>
    /\ \A g \in CarriedGroups : \E b \in Pair : block[g] = Stored(masterKey, g, b)
    /\ op.kind # "PUT" => /\ \A g \in CarriedGroups : block[g] = Result(g)
                          /\ valueSize = Len(written)

BuildInv ==
  phase = "build" =>
    /\ known /\ turns \in [ProxyPart -> Nat]
    /\ op.kind \in {"GET", "PUT"}
    /\ op.kind = "PUT" => written = op.value
    /\ \A g \in ProxyDone : entry[g] = Table(g)

\* The one box that opens carries the result, and a slot of the answer is either still
\* zero or already the result, whichever task wrote it.
DecryptInv ==
  phase = "decrypt" =>
    /\ known /\ turns \in [ServerPart -> Nat]
    /\ valueSize = Len(written)
    /\ \A s \in CarriedGroups :
         /\ { p \in Pair : entry[s][p].key = block[s].label } = { block[s].aux }
         /\ Chosen(entry[s], block[s]).msg = Result(s)
    /\ \A s \in ServerDone : out[s] = Result(s)
    /\ \A s \in Slot : out[s] = ZeroSlot \/ (s \in CarriedGroups /\ out[s] = Result(s))

IdleInv == phase = "idle" => op.kind = "none"

IndInv == TypeInv /\ CreateInv /\ BlockInv /\ BuildInv /\ DecryptInv /\ IdleInv

\* Both programs are built with sizes that are positive.
LEMMA Sizes ==
  ASSUME config \in Configuration
  PROVE  /\ VALUE_SIZE \in Nat \ {0} /\ PROXY_NUM_THREADS \in Nat \ {0}
         /\ SERVER_NUM_THREADS \in Nat \ {0}
         /\ CarriedGroups \subseteq Slot
<1>1. /\ VALUE_SIZE \in Nat \ {0} /\ PROXY_NUM_THREADS \in Nat \ {0}
      /\ SERVER_NUM_THREADS \in Nat \ {0}
  BY LblAccessAssumption DEF VALUE_SIZE, PROXY_NUM_THREADS, SERVER_NUM_THREADS
<1> QED
  BY <1>1, ServerTaskInBlock DEF CarriedGroups, Slot

\* What depends on the configuration only does not change with the state.
LEMMA ConfigSame ==
  ASSUME config' = config
  PROVE  /\ VALUE_SIZE' = VALUE_SIZE /\ PROXY_NUM_THREADS' = PROXY_NUM_THREADS
         /\ SERVER_NUM_THREADS' = SERVER_NUM_THREADS
         /\ Slot' = Slot /\ ProxyPart' = ProxyPart /\ ServerPart' = ServerPart
         /\ CarriedGroups' = CarriedGroups /\ Fits' = Fits
         /\ \A v, g : BitsOf(v, g)' = BitsOf(v, g)
BY DEF VALUE_SIZE, PROXY_NUM_THREADS, SERVER_NUM_THREADS, Slot, ProxyPart, ServerPart,
       CarriedGroups, Fits, BitsOf

\* One more turn of a proxy task processes one more slot, inside the entry.
LEMMA ProxyTurn ==
  ASSUME config \in Configuration, config' = config,
         NEW p \in ProxyPart, turns \in [ProxyPart -> Nat], turns[p] < ProxyTurns(p),
         turns' = [turns EXCEPT ![p] = @ + 1]
  PROVE  LET g == ProxyGroup(p, turns[p], VALUE_SIZE, PROXY_NUM_THREADS)
         IN  /\ g \in Slot
             /\ ProxyDone' = ProxyDone \cup {g}
             /\ turns' \in [ProxyPart -> Nat]
<1> DEFINE size == VALUE_SIZE
           n == PROXY_NUM_THREADS
           g == ProxyGroup(p, turns[p], size, n)
<1>1. size \in Nat \ {0} /\ n \in Nat \ {0}
  BY Sizes
<1>2. size' = size /\ n' = n /\ Slot' = Slot /\ ProxyPart' = ProxyPart
  BY ConfigSame
<1>3. p \in Part(n)
  BY DEF ProxyPart, Part
<1>4. turns[p] \in Nat /\ PartGroups(p, size, n) = ProxyTurns(p)
  BY DEF ProxyTurns
<1>5. Slot = 0..(4 * size - 1)
  BY DEF Slot
<1>6. ProxyDone' = { h \in Slot : \E q \in ProxyPart : \E c \in 0..(turns'[q] - 1) :
                       h = ProxyGroup(q, c, size, n) }
  BY <1>2 DEF ProxyDone
<1> HIDE DEF size, n
<1>7. turns[p] \in Turn(p, size, n)
  <2>1. PartGroups(p, size, n) \in Int
    BY <1>1, <1>3, PartSizeBounds DEF PartGroups, PartLimit, PartStart, Part
  <2> QED
    BY <1>4, <2>1 DEF Turn
<1>8. g \in Slot
  <2> DEFINE s == PartStart(p, size, n)
             l == PartLimit(p, size, n)
  <2>1. s \in Nat /\ l \in Nat /\ l <= size /\ turns[p] < 4 * (l - s)
    BY <1>1, <1>3, <1>7, TaskBounds
  <2>2. g = 4 * s + turns[p]
    BY DEF ProxyGroup
  <2> HIDE DEF s, l
  <2> QED
    BY <1>1, <1>4, <1>5, <2>1, <2>2
<1>9. \A q \in ProxyPart : \A c : c \in 0..(turns'[q] - 1) <=>
                             c \in 0..(turns[q] - 1) \/ (q = p /\ c = turns[p])
  <2> TAKE q \in ProxyPart
  <2>1. CASE q = p
    <3>1. turns'[q] = turns[p] + 1
      BY <2>1
    <3> QED
      BY <1>4, <2>1, <3>1
  <2>2. CASE q # p
    BY <2>2
  <2> QED
    BY <2>1, <2>2
<1> DEFINE Group(q, c) == ProxyGroup(q, c, size, n)
<1>10. ProxyDone = { h \in Slot : \E q \in ProxyPart : \E c \in 0..(turns[q] - 1) :
                       h = Group(q, c) }
  BY DEF ProxyDone, size, n
<1>11. g = Group(p, turns[p])
  OBVIOUS
<1>12. ProxyDone' = { h \in Slot : \E q \in ProxyPart : \E c \in 0..(turns'[q] - 1) :
                       h = Group(q, c) }
  BY <1>6
<1> HIDE DEF g, Group
<1>13. \A h : h \in ProxyDone' <=> h \in ProxyDone \/ h = g
  BY <1>8, <1>9, <1>10, <1>11, <1>12
<1>14. turns' \in [ProxyPart -> Nat]
  BY <1>4
<1> QED
  BY <1>8, <1>13, <1>14 DEF g, size, n

\* When every proxy task is done, every slot has been processed.
LEMMA ProxyAllDone ==
  ASSUME config \in Configuration, \A p \in ProxyPart : turns[p] = ProxyTurns(p)
  PROVE  ProxyDone = Slot
<1> DEFINE size == VALUE_SIZE
           n == PROXY_NUM_THREADS
<1>1. TasksCover(size, n)
  BY Sizes, TasksCoverHolds
<1>2. Slot = 0..(4 * size - 1) /\ ProxyPart = Part(n)
  BY DEF Slot, ProxyPart, Part
<1>3. \A p \in ProxyPart : Turn(p, size, n) = 0..(turns[p] - 1)
  BY DEF ProxyTurns, Turn
<1> QED
  BY <1>1, <1>2, <1>3 DEF ProxyDone, TasksCover

\* One more turn of a server task processes one more slot, one of the carried ones.
LEMMA ServerTurn ==
  ASSUME config \in Configuration, config' = config,
         NEW p \in ServerPart, turns \in [ServerPart -> Nat], turns[p] < ServerTurns(p),
         turns' = [turns EXCEPT ![p] = @ + 1]
  PROVE  LET s == ServerSlot(p, turns[p], VALUE_SIZE, SERVER_NUM_THREADS)
         IN  /\ ServerDone' \subseteq ServerDone \cup {s}
             /\ turns' \in [ServerPart -> Nat]
<1> DEFINE size == VALUE_SIZE
           n == SERVER_NUM_THREADS
           s == ServerSlot(p, turns[p], size, n)
           At(q, c) == ServerSlot(q, c, size, n)
<1>1. size' = size /\ n' = n /\ Slot' = Slot /\ ServerPart' = ServerPart
  BY ConfigSame
<1>2. turns[p] \in Nat
  OBVIOUS
<1>3. ServerDone' = { h \in Slot : \E q \in ServerPart : \E c \in 0..(turns'[q] - 1) :
                        h = At(q, c) }
  BY <1>1 DEF ServerDone
<1>4. ServerDone = { h \in Slot : \E q \in ServerPart : \E c \in 0..(turns[q] - 1) :
                       h = At(q, c) }
  BY DEF ServerDone
<1>5. s = At(p, turns[p])
  OBVIOUS
<1> HIDE DEF size, n, s, At
<1>6. \A q \in ServerPart : \A c \in 0..(turns'[q] - 1) :
        c \in 0..(turns[q] - 1) \/ (q = p /\ c = turns[p])
  <2> TAKE q \in ServerPart
  <2>1. CASE q = p
    <3>1. turns'[q] = turns[p] + 1
      BY <2>1
    <3> QED
      BY <1>2, <2>1, <3>1
  <2>2. CASE q # p
    BY <2>2
  <2> QED
    BY <2>1, <2>2
<1>7. \A h \in ServerDone' : h \in ServerDone \/ h = s
  BY <1>3, <1>4, <1>5, <1>6
<1>8. turns' \in [ServerPart -> Nat]
  BY <1>2
<1> QED
  BY <1>7, <1>8 DEF s, size, n

\* A turn a server task still has to take processes a carried slot.
LEMMA ServerTurnCarried ==
  ASSUME config \in Configuration, NEW p \in ServerPart,
         turns \in [ServerPart -> Nat], turns[p] < ServerTurns(p)
  PROVE  ServerSlot(p, turns[p], VALUE_SIZE, SERVER_NUM_THREADS) \in CarriedGroups
<1> DEFINE size == VALUE_SIZE
           n == SERVER_NUM_THREADS
<1>1. size \in Nat \ {0} /\ n \in Nat \ {0}
  BY Sizes
<1>2. p \in Part(n)
  BY DEF ServerPart, Part
<1>3. turns[p] \in Nat /\ PartGroups(p, size, n) = ServerTurns(p)
  BY DEF ServerTurns
<1> HIDE DEF size, n
<1>4. PartGroups(p, size, n) \in Int
  BY <1>1, <1>2, PartSizeBounds DEF PartGroups, PartLimit, PartStart, Part
<1>5. turns[p] \in Turn(p, size, n)
  BY <1>3, <1>4 DEF Turn
<1>6. ServerSlot(p, turns[p], size, n) \in ServerSlots(size, n)
  BY <1>2, <1>5, ServerSlotsAre
<1> QED
  BY <1>6 DEF CarriedGroups, size, n

\* When every server task is done, every carried slot has been processed.
LEMMA ServerAllDone ==
  ASSUME config \in Configuration, \A p \in ServerPart : turns[p] = ServerTurns(p)
  PROVE  CarriedGroups \subseteq ServerDone
<1> DEFINE size == VALUE_SIZE
           n == SERVER_NUM_THREADS
<1>1. ServerPart = Part(n)
  BY DEF ServerPart, Part
<1>2. \A p \in ServerPart : Turn(p, size, n) = 0..(turns[p] - 1)
  BY DEF ServerTurns, Turn
<1>3. CarriedGroups = ServerSlots(size, n)
  BY DEF CarriedGroups
<1>4. CarriedGroups \subseteq Slot
  BY Sizes
<1> SUFFICES ASSUME NEW s \in CarriedGroups
             PROVE  s \in ServerDone
  OBVIOUS
<1>5. PICK p \in Part(n) : \E c \in Turn(p, size, n) : s = ServerSlot(p, c, size, n)
  BY <1>3, ServerSlotsAre
<1>6. PICK c \in Turn(p, size, n) : s = ServerSlot(p, c, size, n)
  BY <1>5
<1>7. p \in ServerPart /\ c \in 0..(turns[p] - 1)
  BY <1>1, <1>2
<1> QED
  BY <1>4, <1>6, <1>7 DEF ServerDone

\* Undoing ^ with the other operand.
LEMMA XorSolves ==
  ASSUME NEW p \in Pair, NEW s \in Pair, NEW b \in Pair
  PROVE  Xor(p, s) = b <=> p = Xor(s, b)
<1>1. /\ p = 0 \/ p = 1 \/ p = 2 \/ p = 3
      /\ s = 0 \/ s = 1 \/ s = 2 \/ s = 3
      /\ b = 0 \/ b = 1 \/ b = 2 \/ b = 3
  BY DEF Pair
<1> QED
  BY <1>1 DEF Xor

\* When box p of a table is locked with the old label of bits p ^ selector, the stored
\* label of some bits opens exactly the box the stored selector names.
LEMMA OneBox ==
  ASSUME NEW old, NEW g \in Nat, Selector(old, g) \in Pair, NEW b \in Pair, NEW table,
         \A p \in Pair : table[p].key = Label(old, g, Xor(p, Selector(old, g)))
  PROVE  LET slot == Stored(old, g, b)
         IN  { p \in Pair : table[p].key = slot.label } = { slot.aux }
<1> DEFINE slot == Stored(old, g, b)
           sel == Selector(old, g)
<1>1. sel \in Pair
  OBVIOUS
<1>2. slot.aux = Xor(sel, b) /\ slot.label = Label(old, g, b) /\ slot.aux \in Pair
  BY <1>1, XorCancels DEF Stored
<1>3. \A p \in Pair : Xor(p, sel) \in Pair
  BY <1>1, XorCancels
<1> HIDE DEF slot
<1>4. \A p \in Pair : table[p].key = slot.label <=> Xor(p, sel) = b
  <2> TAKE p \in Pair
  <2>1. KdfId(g, Xor(p, sel)) = KdfId(g, b) <=> Xor(p, sel) = b
    BY <1>3, KdfIdsDistinct
  <2> QED
    BY <1>2, <2>1 DEF Label
<1> HIDE DEF sel
<1>5. \A p \in Pair : table[p].key = slot.label <=> p = slot.aux
  <2> TAKE p \in Pair
  <2>1. Xor(p, sel) = b <=> p = Xor(sel, b)
    BY <1>1, XorSolves
  <2> QED
    BY <1>2, <1>4, <2>1
<1> QED
  BY <1>2, <1>5 DEF slot

\* A fresh master key has two-bit selectors, whatever it draws.
LEMMA FreshKeysType ==
  ASSUME config \in Configuration, ops \in Nat
  PROVE  FreshKeys \subseteq SelectorsOf(Slot)
<1> SUFFICES ASSUME NEW mk \in FreshKeys
             PROVE  mk \in SelectorsOf(Slot)
  OBVIOUS
<1>1. PICK f \in SelectorChoice : mk.sel = [g \in Slot |-> f[g]]
  BY DEF FreshKeys
<1>2. \A g \in Slot : f[g] \in Pair
  BY LblAccessAssumption DEF Slot, VALUE_SIZE
<1>3. mk = [id |-> mk.id, sel |-> mk.sel] /\ mk.id \in Nat
  BY DEF FreshKeys
<1> QED
  BY <1>1, <1>2, <1>3 DEF SelectorsOf

LEMMA InitInv ==
  ASSUME Init
  PROVE  IndInv
<1>1. config \in Configuration
  BY DEF Init
<1>2. <<>> \in Fits
  BY <1>1, Sizes DEF Fits
<1>3. NoKey \in SelectorsOf(Slot)
  BY DEF NoKey, SelectorsOf, Pair
<1>4. TypeInv
  BY <1>2, <1>3 DEF Init, TypeInv, NoOp
<1> QED
  BY <1>4 DEF Init, IndInv, CreateInv, BlockInv, BuildInv, DecryptInv, IdleInv, NoOp

\* Tasks that have just been submitted have processed nothing.
LEMMA ProxyNoneDone ==
  ASSUME config' = config, turns' = NoTurns(ProxyPart)
  PROVE  turns' \in [ProxyPart -> Nat] /\ ProxyDone' = {}
<1>1. ProxyPart' = ProxyPart
  BY ConfigSame
<1>2. turns' \in [ProxyPart -> Nat] /\ \A p \in ProxyPart : 0..(turns'[p] - 1) = {}
  BY DEF NoTurns
<1> QED
  BY <1>1, <1>2 DEF ProxyDone

LEMMA ServerNoneDone ==
  ASSUME config' = config, turns' = NoTurns(ServerPart)
  PROVE  turns' \in [ServerPart -> Nat] /\ ServerDone' = {}
<1>1. ServerPart' = ServerPart
  BY ConfigSame
<1>2. turns' \in [ServerPart -> Nat] /\ \A p \in ServerPart : 0..(turns'[p] - 1) = {}
  BY DEF NoTurns
<1> QED
  BY <1>1, <1>2 DEF ServerDone

LEMMA BeginCreateInv ==
  ASSUME IndInv, NEW value \in Value, BeginCreate(value)
  PROVE  IndInv'
<1> USE DEF IndInv
<1>1. /\ VALUE_SIZE' = VALUE_SIZE /\ Slot' = Slot /\ Fits' = Fits
      /\ ProxyPart' = ProxyPart
  BY ConfigSame DEF BeginCreate
<1>2. value \in Fits
  BY LblAccessAssumption DEF BeginCreate, Fits
<1>3. masterKey' \in SelectorsOf(Slot)
  BY FreshKeysType DEF BeginCreate, TypeInv
<1>4. TypeInv'
  BY <1>1, <1>2, <1>3 DEF BeginCreate, TypeInv
<1>5. turns' \in [ProxyPart -> Nat] /\ ProxyDone' = {}
  BY ProxyNoneDone DEF BeginCreate
<1>6. CreateInv'
  BY <1>1, <1>5 DEF BeginCreate, CreateInv
<1>7. BlockInv' /\ BuildInv' /\ DecryptInv' /\ IdleInv'
  BY DEF BeginCreate, BlockInv, BuildInv, DecryptInv, IdleInv
<1> QED
  BY <1>4, <1>6, <1>7

LEMMA BeginAccessInv ==
  ASSUME IndInv, NEW value \in Fits, NEW kind \in {"GET", "PUT"}, BeginAccess(kind, value)
  PROVE  IndInv'
<1> USE DEF IndInv
<1>1. /\ VALUE_SIZE' = VALUE_SIZE /\ Slot' = Slot /\ Fits' = Fits
      /\ ProxyPart' = ProxyPart /\ CarriedGroups' = CarriedGroups
  BY ConfigSame DEF BeginAccess
<1>2. newKey' \in SelectorsOf(Slot)
  BY FreshKeysType DEF BeginAccess, TypeInv
<1>3. TypeInv'
  BY <1>1, <1>2 DEF BeginAccess, TypeInv
<1>4. turns' \in [ProxyPart -> Nat] /\ ProxyDone' = {}
  BY ProxyNoneDone DEF BeginAccess
<1>5. BuildInv'
  BY <1>1, <1>4 DEF BeginAccess, BuildInv
<1>6. BlockInv'
  BY <1>1 DEF BeginAccess, BlockInv, IdleInv, Result, BitsOf
<1>7. CreateInv' /\ DecryptInv' /\ IdleInv'
  BY DEF BeginAccess, CreateInv, DecryptInv, IdleInv
<1> QED
  BY <1>3, <1>5, <1>6, <1>7

LEMMA PutTooLongInv ==
  ASSUME IndInv, NEW value \in Value, PutTooLong(value)
  PROVE  IndInv'
<1>1. VALUE_SIZE' = VALUE_SIZE /\ Slot' = Slot /\ Fits' = Fits
  BY ConfigSame DEF PutTooLong
<1>2. TypeInv'
  BY <1>1 DEF PutTooLong, TypeInv, IndInv
<1> QED
  BY <1>2 DEF PutTooLong, IndInv, CreateInv, BlockInv, BuildInv, DecryptInv, IdleInv

LEMMA CreateStepInv ==
  ASSUME IndInv, NEW p \in ProxyPart, CreateStep(p)
  PROVE  IndInv'
<1> USE DEF IndInv
<1> DEFINE g == ProxyGroup(p, turns[p], VALUE_SIZE, PROXY_NUM_THREADS)
<1>1. /\ VALUE_SIZE' = VALUE_SIZE /\ Slot' = Slot /\ Fits' = Fits
      /\ ProxyPart' = ProxyPart
  BY ConfigSame DEF CreateStep
<1>2. /\ turns \in [ProxyPart -> Nat] /\ turns[p] < ProxyTurns(p)
      /\ turns' = [turns EXCEPT ![p] = @ + 1] /\ config' = config
      /\ written = op.value /\ config \in Configuration
  BY DEF CreateStep, CreateInv, TypeInv
<1>3. g \in Slot /\ ProxyDone' = ProxyDone \cup {g} /\ turns' \in [ProxyPart -> Nat]
  BY <1>2, ProxyTurn
<1>4. entry' = [entry EXCEPT ![g] = Result(g)]
  BY <1>2 DEF CreateStep, Result, BitsOf, Padded
<1> HIDE DEF g
<1>5. TypeInv'
  <2>1. entry' = [s \in Slot |-> entry'[s]]
    BY <1>4 DEF TypeInv
  <2> QED
    BY <1>1, <2>1 DEF CreateStep, TypeInv
<1>6. CreateInv'
  <2>1. \A h \in Slot : Result(h)' = Result(h)
    BY <1>1 DEF CreateStep, Result, BitsOf
  <2>2. \A h \in ProxyDone : h \in Slot /\ entry[h] = Result(h)
    BY DEF CreateStep, CreateInv, ProxyDone
  <2>3. \A h \in Slot : entry'[h] = IF h = g THEN Result(g) ELSE entry[h]
    BY <1>3, <1>4 DEF TypeInv
  <2> QED
    BY <1>1, <1>2, <1>3, <2>1, <2>2, <2>3 DEF CreateStep, CreateInv
<1>7. BlockInv' /\ BuildInv' /\ DecryptInv' /\ IdleInv'
  BY DEF CreateStep, BlockInv, BuildInv, DecryptInv, IdleInv
<1> QED
  BY <1>5, <1>6, <1>7

LEMMA BuildStepInv ==
  ASSUME IndInv, NEW p \in ProxyPart, BuildStep(p)
  PROVE  IndInv'
<1> USE DEF IndInv
<1> DEFINE g == ProxyGroup(p, turns[p], VALUE_SIZE, PROXY_NUM_THREADS)
<1>1. /\ VALUE_SIZE' = VALUE_SIZE /\ Slot' = Slot /\ Fits' = Fits
      /\ ProxyPart' = ProxyPart /\ CarriedGroups' = CarriedGroups
  BY ConfigSame DEF BuildStep
<1>2. /\ turns \in [ProxyPart -> Nat] /\ turns[p] < ProxyTurns(p)
      /\ turns' = [turns EXCEPT ![p] = @ + 1] /\ config' = config
      /\ config \in Configuration
  BY DEF BuildStep, BuildInv, TypeInv
<1>3. g \in Slot /\ ProxyDone' = ProxyDone \cup {g} /\ turns' \in [ProxyPart -> Nat]
  BY <1>2, ProxyTurn
<1>4. entry' = [entry EXCEPT ![g] = Table(g)]
  BY DEF BuildStep, Table, BitsOf, Padded
<1> HIDE DEF g
<1>5. TypeInv'
  <2>1. entry' = [s \in Slot |-> entry'[s]]
    BY <1>4 DEF TypeInv
  <2> QED
    BY <1>1, <2>1 DEF BuildStep, TypeInv
<1>6. BuildInv'
  <2>1. \A h \in Slot : Table(h)' = Table(h)
    BY <1>1 DEF BuildStep, Table, BitsOf
  <2>2. \A h \in ProxyDone : h \in Slot /\ entry[h] = Table(h)
    BY DEF BuildStep, BuildInv, ProxyDone
  <2>3. \A h \in Slot : entry'[h] = IF h = g THEN Table(g) ELSE entry[h]
    BY <1>3, <1>4 DEF TypeInv
  <2> QED
    BY <1>1, <1>2, <1>3, <2>1, <2>2, <2>3 DEF BuildStep, BuildInv
<1>7. BlockInv'
  BY <1>1 DEF BuildStep, BlockInv, Result, BitsOf
<1>8. CreateInv' /\ DecryptInv' /\ IdleInv'
  BY DEF BuildStep, CreateInv, DecryptInv, IdleInv
<1> QED
  BY <1>5, <1>6, <1>7, <1>8

LEMMA SendCreateInv ==
  ASSUME IndInv, SendCreate
  PROVE  IndInv'
<1> USE DEF IndInv
<1>1. /\ VALUE_SIZE' = VALUE_SIZE /\ Slot' = Slot /\ Fits' = Fits
      /\ CarriedGroups' = CarriedGroups
  BY ConfigSame DEF SendCreate
<1>2. <<>> \in Fits
  BY Sizes DEF Fits, TypeInv
<1>3. TypeInv'
  BY <1>1, <1>2 DEF SendCreate, TypeInv, NoOp
<1>4. \A g \in CarriedGroups : g \in Slot /\ entry[g] = Result(g)
  <2>1. ProxyDone = Slot /\ CarriedGroups \subseteq Slot
    BY ProxyAllDone, Sizes DEF SendCreate, TypeInv
  <2> QED
    BY <2>1 DEF SendCreate, CreateInv
<1>5. BlockInv'
  <2>1. \A g \in CarriedGroups : Result(g)' = Result(g)
    BY <1>1 DEF SendCreate, Result, BitsOf
  <2>2. \A g \in CarriedGroups : BitsOf(written, g) \in Pair
    BY <1>4, BitsOfType, Sizes DEF TypeInv
  <2>3. \A g \in CarriedGroups : block'[g] = Stored(masterKey', g, BitsOf(written, g))
    BY <1>4 DEF SendCreate, Result
  <2>4. valueSize' = Len(written')
    BY DEF SendCreate, CreateInv
  <2> QED
    BY <1>1, <1>4, <2>1, <2>2, <2>3, <2>4 DEF SendCreate, BlockInv
<1>6. CreateInv' /\ BuildInv' /\ DecryptInv' /\ IdleInv'
  BY DEF SendCreate, CreateInv, BuildInv, DecryptInv, IdleInv, NoOp
<1> QED
  BY <1>3, <1>5, <1>6

LEMMA SendAccessInv ==
  ASSUME IndInv, SendAccess
  PROVE  IndInv'
<1> USE DEF IndInv
<1>1. /\ VALUE_SIZE' = VALUE_SIZE /\ Slot' = Slot /\ Fits' = Fits
      /\ ServerPart' = ServerPart /\ CarriedGroups' = CarriedGroups
  BY ConfigSame DEF SendAccess
<1>2. TypeInv'
  BY <1>1 DEF SendAccess, TypeInv
<1>3. turns' \in [ServerPart -> Nat] /\ ServerDone' = {}
  BY ServerNoneDone DEF SendAccess
<1>4. ProxyDone = Slot /\ CarriedGroups \subseteq Slot /\ VALUE_SIZE \in Nat \ {0}
  BY ProxyAllDone, Sizes DEF SendAccess, TypeInv
<1>5. known /\ op.kind \in {"GET", "PUT"} /\ (op.kind = "PUT" => written = op.value)
  BY DEF SendAccess, BuildInv
<1>6. ASSUME NEW s \in CarriedGroups
      PROVE  /\ { p \in Pair : entry[s][p].key = block[s].label } = { block[s].aux }
             /\ Chosen(entry[s], block[s]).msg = Result(s)'
  <2> DEFINE new == BitsOf(op.value, s)
             last == BitsOf(written, s)
  <2>1. s \in Slot /\ entry[s] = Table(s) /\ new \in Pair /\ last \in Pair
    BY <1>4, BitsOfType DEF SendAccess, BuildInv, TypeInv
  <2>2. \/ entry[s] = GetTable(masterKey, newKey, s) /\ op.kind = "GET"
        \/ entry[s] = PutTable(masterKey, newKey, s, new) /\ op.kind = "PUT"
    BY <1>5, <2>1 DEF Table
  <2>3. PICK b \in Pair : block[s] = Stored(masterKey, s, b)
    BY <1>5 DEF SendAccess, BlockInv
  <2>4. op.kind = "GET" => block[s] = Stored(masterKey, s, last)
    BY <1>5 DEF SendAccess, BlockInv, Result
  <2>5. Result(s)' = Stored(newKey, s, last)
    BY <1>1 DEF SendAccess, Result, BitsOf
  <2>6. s \in Nat /\ Selector(masterKey, s) \in Pair
    BY <1>4, <2>1 DEF Slot, Selector, SelectorsOf, TypeInv
  <2>7. masterKey \in SelectorsOf(Slot) /\ newKey \in SelectorsOf(Slot)
    BY DEF TypeInv
  <2> HIDE DEF new, last
  <2>8. \A p \in Pair : entry[s][p].key = Label(masterKey, s, Xor(p, Selector(masterKey, s)))
    <3>1. \A p \in Pair : /\ GetTable(masterKey, newKey, s)[p].key
                              = Label(masterKey, s, Xor(p, Selector(masterKey, s)))
                         /\ PutTable(masterKey, newKey, s, new)[p].key
                              = Label(masterKey, s, Xor(p, Selector(masterKey, s)))
      BY DEF GetTable, PutTable
    <3> QED
      BY <2>2, <3>1
  <2>9. { p \in Pair : entry[s][p].key = block[s].label } = { block[s].aux }
    BY <2>3, <2>6, <2>8, OneBox
  <2>10. CASE op.kind = "GET"
    BY <2>1, <2>2, <2>4, <2>5, <2>7, <2>9, <2>10, GetPreservesBits
  <2>11. CASE op.kind = "PUT"
    <3>1. new = last
      BY <1>5, <2>11 DEF new, last
    <3> QED
      BY <2>1, <2>2, <2>3, <2>5, <2>7, <2>9, <2>11, <3>1, PutInstallsBits
  <2> QED
    BY <1>5, <2>10, <2>11
<1>7. valueSize' = Len(written')
  BY <1>5 DEF SendAccess, BlockInv
<1>8. DecryptInv'
  BY <1>1, <1>3, <1>5, <1>6, <1>7 DEF SendAccess, DecryptInv
<1>9. CreateInv' /\ BlockInv' /\ BuildInv' /\ IdleInv'
  BY DEF SendAccess, CreateInv, BlockInv, BuildInv, IdleInv
<1> QED
  BY <1>2, <1>8, <1>9

\* The box a task chooses opens: no step of the server ends it.
LEMMA DecryptStepOpens ==
  ASSUME IndInv, NEW p \in ServerPart, DecryptStep(p)
  PROVE  LET s == ServerSlot(p, turns[p], VALUE_SIZE, SERVER_NUM_THREADS)
         IN  /\ s \in CarriedGroups /\ s \in Slot
             /\ out' = [out EXCEPT ![s] = Result(s)]
             /\ turns' = [turns EXCEPT ![p] = @ + 1]
             /\ phase' = "decrypt"
<1> DEFINE s == ServerSlot(p, turns[p], VALUE_SIZE, SERVER_NUM_THREADS)
<1>1. s \in CarriedGroups /\ CarriedGroups \subseteq Slot
  BY ServerTurnCarried, Sizes DEF IndInv, DecryptStep, DecryptInv, TypeInv
<1> HIDE DEF s
<1>2. /\ { q \in Pair : entry[s][q].key = block[s].label } = { block[s].aux }
      /\ Chosen(entry[s], block[s]).msg = Result(s)
  BY <1>1 DEF IndInv, DecryptStep, DecryptInv
<1>3. entry[s][block[s].aux].key = block[s].label
  BY <1>2
<1>4. Opens(entry[s], block[s])
  BY <1>3 DEF Opens, Chosen
<1> QED
  BY <1>1, <1>2, <1>4 DEF DecryptStep, s

LEMMA DecryptStepInv ==
  ASSUME IndInv, NEW p \in ServerPart, DecryptStep(p)
  PROVE  IndInv'
<1> USE DEF IndInv
<1> DEFINE s == ServerSlot(p, turns[p], VALUE_SIZE, SERVER_NUM_THREADS)
<1>1. /\ VALUE_SIZE' = VALUE_SIZE /\ Slot' = Slot /\ Fits' = Fits
      /\ ServerPart' = ServerPart /\ CarriedGroups' = CarriedGroups
  BY ConfigSame DEF DecryptStep
<1>2. /\ s \in CarriedGroups /\ s \in Slot
      /\ out' = [out EXCEPT ![s] = Result(s)]
      /\ turns' = [turns EXCEPT ![p] = @ + 1]
      /\ phase' = "decrypt" /\ phase = "decrypt"
  BY DecryptStepOpens DEF DecryptStep
<1>3. ServerDone' \subseteq ServerDone \cup {s} /\ turns' \in [ServerPart -> Nat]
  BY <1>2, ServerTurn DEF DecryptStep, DecryptInv, TypeInv
<1> HIDE DEF s
<1>4. TypeInv'
  <2>1. out' = [r \in Slot |-> out'[r]]
    BY <1>2 DEF TypeInv
  <2> QED
    BY <1>1, <1>2, <2>1 DEF DecryptStep, TypeInv
<1>5. DecryptInv'
  <2>1. \A r \in Slot : Result(r)' = Result(r)
    BY <1>1 DEF DecryptStep, Result, BitsOf
  <2>2. \A r \in Slot : out'[r] = IF r = s THEN Result(s) ELSE out[r]
    BY <1>2 DEF TypeInv
  <2>3. ServerDone' \subseteq Slot /\ CarriedGroups \subseteq Slot
    BY <1>1, Sizes DEF ServerDone, TypeInv
  <2>4. \A r \in ServerDone' : out'[r] = Result(r)
    BY <1>2, <1>3, <2>2, <2>3 DEF DecryptInv
  <2>5. \A r \in Slot : out'[r] = ZeroSlot \/ (r \in CarriedGroups /\ out'[r] = Result(r))
    BY <1>2, <2>2 DEF DecryptInv
  <2>6. entry' = entry /\ block' = block /\ known' = known /\ valueSize' = valueSize
          /\ written' = written
    BY DEF DecryptStep
  <2> QED
    BY <1>1, <1>2, <1>3, <2>1, <2>3, <2>4, <2>5, <2>6 DEF DecryptInv
<1>6. CreateInv' /\ BlockInv' /\ BuildInv' /\ IdleInv'
  BY <1>2 DEF CreateInv, BlockInv, BuildInv, IdleInv
<1> QED
  BY <1>4, <1>5, <1>6

LEMMA FinishInv ==
  ASSUME IndInv, Finish
  PROVE  IndInv'
<1> USE DEF IndInv
<1>1. /\ VALUE_SIZE' = VALUE_SIZE /\ Slot' = Slot /\ Fits' = Fits
      /\ CarriedGroups' = CarriedGroups
  BY ConfigSame DEF Finish
<1>2. <<>> \in Fits
  BY Sizes DEF Fits, TypeInv
<1>3. TypeInv'
  BY <1>1, <1>2 DEF Finish, TypeInv, NoOp
<1>4. CarriedGroups \subseteq ServerDone /\ CarriedGroups \subseteq Slot
  BY ServerAllDone, Sizes DEF Finish, TypeInv
<1>5. BlockInv'
  <2>1. \A g \in CarriedGroups : Result(g)' = Result(g)
    BY <1>1 DEF Finish, Result, BitsOf
  <2>2. \A g \in CarriedGroups : BitsOf(written, g) \in Pair
    BY <1>4, BitsOfType, Sizes DEF TypeInv
  <2>3. \A g \in CarriedGroups : block'[g] = Result(g)
    BY <1>4 DEF Finish, DecryptInv
  <2>4. \A g \in CarriedGroups : block'[g] = Stored(masterKey', g, BitsOf(written, g))
    BY <2>3 DEF Finish, Result
  <2>5. valueSize' = Len(written')
    BY DEF Finish, DecryptInv
  <2> QED
    BY <1>1, <2>1, <2>2, <2>3, <2>4, <2>5 DEF BlockInv
<1>6. CreateInv' /\ BuildInv' /\ DecryptInv' /\ IdleInv'
  BY DEF Finish, CreateInv, BuildInv, DecryptInv, IdleInv, NoOp
<1> QED
  BY <1>3, <1>5, <1>6

LEMMA StutterInv ==
  ASSUME IndInv, UNCHANGED vars
  PROVE  IndInv'
<1> USE DEF IndInv, vars
<1>1. /\ VALUE_SIZE' = VALUE_SIZE /\ PROXY_NUM_THREADS' = PROXY_NUM_THREADS
      /\ SERVER_NUM_THREADS' = SERVER_NUM_THREADS
      /\ Slot' = Slot /\ ProxyPart' = ProxyPart /\ ServerPart' = ServerPart
      /\ CarriedGroups' = CarriedGroups /\ Fits' = Fits
  BY ConfigSame
<1>2. ProxyDone' = ProxyDone /\ ServerDone' = ServerDone
  BY <1>1 DEF ProxyDone, ServerDone
<1>3. \A g : Result(g)' = Result(g) /\ Table(g)' = Table(g)
  BY <1>1 DEF Result, Table, BitsOf
<1>4. TypeInv'
  BY <1>1 DEF TypeInv
<1>5. CreateInv' /\ BuildInv'
  BY <1>1, <1>2, <1>3 DEF CreateInv, BuildInv
<1>6. BlockInv'
  BY <1>1, <1>3 DEF BlockInv
<1>7. DecryptInv'
  BY <1>1, <1>2, <1>3 DEF DecryptInv
<1> QED
  BY <1>4, <1>5, <1>6, <1>7 DEF IdleInv

LEMMA NextInv ==
  ASSUME IndInv, [Next]_vars
  PROVE  IndInv'
<1>1. CASE \E value \in Value : BeginCreate(value)
  BY <1>1, BeginCreateInv
<1>2. CASE \E value \in Value : PutTooLong(value)
  BY <1>2, PutTooLongInv
<1>3. CASE BeginGet
  <2>1. <<>> \in Fits
    BY Sizes DEF Fits, TypeInv, IndInv
  <2> QED
    BY <1>3, <2>1, BeginAccessInv DEF BeginGet
<1>4. CASE BeginPut
  <2>1. PICK value \in Value : BeginAccess("PUT", value)
    BY <1>4 DEF BeginPut
  <2>2. value \in Fits
    BY <2>1, LblAccessAssumption DEF BeginAccess, Fits
  <2> QED
    BY <2>1, <2>2, BeginAccessInv
<1>5. CASE \E p \in ProxyPart : CreateStep(p)
  BY <1>5, CreateStepInv
<1>6. CASE \E p \in ProxyPart : BuildStep(p)
  BY <1>6, BuildStepInv
<1>7. CASE SendCreate
  BY <1>7, SendCreateInv
<1>8. CASE SendAccess
  BY <1>8, SendAccessInv
<1>9. CASE \E p \in ServerPart : DecryptStep(p)
  BY <1>9, DecryptStepInv
<1>10. CASE Finish
  BY <1>10, FinishInv
<1>11. CASE Done \/ UNCHANGED vars
  BY <1>11, StutterInv DEF Done
<1> QED
  BY <1>1, <1>2, <1>3, <1>4, <1>5, <1>6, <1>7, <1>8, <1>9, <1>10, <1>11 DEF Next, Step

LEMMA IndInvHolds == Spec => []IndInv
BY InitInv, NextInv, PTL DEF Spec

(***************************************************************************)
(* The theorems                                                            *)
(***************************************************************************)
\* In every configuration, whatever was put and in whatever order the tasks ran,
\* exactly one box of a carried slot opens, the one the stored selector names.
THEOREM OneBoxOpensHolds == Spec => []OneBoxOpens
<1>1. IndInv => OneBoxOpens
  BY DEF IndInv, DecryptInv, OneBoxOpens
<1> QED
  BY <1>1, IndInvHolds, PTL

\* Between operations the carried groups encode the last value put, under the key the
\* proxy holds: accesses and fresh master keys never drift apart.
THEOREM BlockEncodesValueHolds == Spec => []BlockEncodesValue
<1>1. IndInv => BlockEncodesValue
  BY DEF IndInv, IdleInv, BlockInv, BlockEncodesValue, Result, BitsOf
<1> QED
  BY <1>1, IndInvHolds, PTL

\* decryptPortion never meets a box that does not open, so the server's exit("RIP") is
\* unreachable as long as the proxy runs one operation on a key at a time.
THEOREM NeverRip == Spec => [](phase # "rip")
<1>1. IndInv => phase # "rip"
  BY DEF IndInv, TypeInv
<1> QED
  BY <1>1, IndInvHolds, PTL

\* Overlapping server tasks write the same slot with the same content.
THEOREM OverlapAgreesHolds == Spec => OverlapAgrees
<1> DEFINE Agrees == phase = "decrypt" /\ phase' = "decrypt" =>
                       \A s \in Slot : out[s] # ZeroSlot => out'[s] = out[s]
<1>1. ASSUME IndInv, [Next]_vars
      PROVE  [Agrees]_vars
  <2> SUFFICES ASSUME Next, phase = "decrypt", phase' = "decrypt"
               PROVE  \A s \in Slot : out[s] # ZeroSlot => out'[s] = out[s]
    BY <1>1
  <2>1. CASE \E p \in ServerPart : DecryptStep(p)
    <3>1. PICK p \in ServerPart : DecryptStep(p)
      BY <2>1
    <3> DEFINE t == ServerSlot(p, turns[p], VALUE_SIZE, SERVER_NUM_THREADS)
    <3>2. t \in Slot /\ out' = [out EXCEPT ![t] = Result(t)]
      BY <1>1, <3>1, DecryptStepOpens
    <3> HIDE DEF t
    <3>3. \A s \in Slot : out'[s] = IF s = t THEN Result(t) ELSE out[s]
      BY <1>1, <3>2 DEF IndInv, TypeInv
    <3>4. \A s \in Slot : out[s] = ZeroSlot \/ out[s] = Result(s)
      BY <1>1 DEF IndInv, DecryptInv
    <3> QED
      BY <3>3, <3>4
  <2>2. CASE ~ \E p \in ServerPart : DecryptStep(p)
    <3>1. UNCHANGED vars
      BY <2>2 DEF Next, Step, BeginCreate, PutTooLong, BeginGet, BeginPut, BeginAccess,
                  CreateStep, BuildStep, SendCreate, SendAccess, Finish, Done
    <3> QED
      BY <3>1 DEF vars
  <2> QED
    BY <2>1, <2>2
<1>2. OverlapAgrees <=> [][Agrees]_vars
  BY DEF OverlapAgrees
<1> QED
  BY <1>1, <1>2, IndInvHolds, PTL DEF Spec

\* A slot that was only cleared reads as 3: label <<0, 0>> is no label of any key.
LEMMA ZeroReadsOnes ==
  ASSUME NEW mk, NEW g \in Nat
  PROVE  ReadBits(mk, g, ZeroSlot) = 3
<1>1. \A b \in 0..2 : ZeroSlot.label # Label(mk, g, b)
  BY DEF ZeroSlot, Label, KdfId
<1> QED
  BY <1>1 DEF ReadBits

\* What a finished GET decodes, pair of bits by pair of bits.
LEMMA FinishReads ==
  ASSUME IndInv, Finish, op.kind = "GET"
  PROVE  /\ ret' \in Seq(Byte) /\ Len(ret') = Len(written)
         /\ \A i \in 1..Len(written), j \in Pair :
              GetBits(ret'[i], j) =
                IF 4 * (i - 1) + j \in CarriedGroups THEN GetBits(written[i], j) ELSE 3
<1> DEFINE n == Len(written)
           Read(g) == ReadBits(masterKey, g, out[g])
<1>1. /\ VALUE_SIZE \in Nat \ {0} /\ CarriedGroups \subseteq Slot
      /\ CarriedGroups \subseteq ServerDone
      /\ written \in Fits /\ masterKey \in SelectorsOf(Slot)
  BY Sizes, ServerAllDone DEF IndInv, TypeInv, Finish
<1>2. n \in Nat /\ n <= VALUE_SIZE /\ Slot = 0..(4 * VALUE_SIZE - 1)
  BY <1>1 DEF Fits, Slot
<1>3. ret' = [i \in 1..n |-> ReadByte(masterKey, i - 1, out, 0)]
  BY DEF IndInv, DecryptInv, Finish, ReadValue
<1>4. \A g \in Slot : Read(g) = IF g \in CarriedGroups THEN BitsOf(written, g) ELSE 3
  <2> TAKE g \in Slot
  <2>1. g \in Nat /\ BitsOf(written, g) \in Pair
    BY <1>1, BitsOfType DEF Slot
  <2>2. CASE g \in CarriedGroups
    <3>1. out[g] = Stored(masterKey, g, BitsOf(written, g))
      BY <1>1, <2>2 DEF IndInv, DecryptInv, Finish, Result
    <3> QED
      BY <1>1, <2>1, <2>2, <3>1, ReadBitsCorrect
  <2>3. CASE g \notin CarriedGroups
    <3>1. out[g] = ZeroSlot
      BY <2>3 DEF IndInv, DecryptInv, Finish
    <3> QED
      BY <2>1, <2>3, <3>1, ZeroReadsOnes
  <2> QED
    BY <2>2, <2>3
<1>5. \A g \in Slot : Read(g) \in Pair
  <2>1. 3 \in Pair
    BY DEF Pair
  <2> QED
    BY <1>1, <1>4, <2>1, BitsOfType
<1>6. ASSUME NEW i \in 1..n, NEW j \in Pair
      PROVE  GetBits(ret'[i], j) =
               IF 4 * (i - 1) + j \in CarriedGroups THEN GetBits(written[i], j) ELSE 3
  <2>1. i - 1 \in Nat /\ \A k \in Pair : 4 * (i - 1) + k \in Slot
    BY <1>1, <1>2 DEF Pair
  <2>2. ret'[i] = ReadByte(masterKey, i - 1, out, 0)
    BY <1>3
  <2>3. GetBits(ReadByte(masterKey, i - 1, out, 0), j) = Read(4 * (i - 1) + j)
    BY <1>5, <2>1, ReadBytePairs
  <2>4. BitsOf(written, 4 * (i - 1) + j) = GetBits(written[i], j)
    BY <1>1, BitsOfByte
  <2> DEFINE g == 4 * (i - 1) + j
  <2>5. Read(g) = IF g \in CarriedGroups THEN BitsOf(written, g) ELSE 3
    BY <1>4, <2>1
  <2> HIDE DEF Read
  <2> QED
    BY <2>2, <2>3, <2>4, <2>5
<1>7. \A i \in 1..n : ReadByte(masterKey, i - 1, out, 0) \in Byte
  <2> TAKE i \in 1..n
  <2>1. i - 1 \in Nat /\ 0 \in Pair /\ \A k \in Pair : 4 * (i - 1) + k \in Slot
    BY <1>1, <1>2 DEF Pair
  <2> QED
    BY <1>5, <2>1, ReadBytePairs
<1>8. ret' \in Seq(Byte) /\ Len(ret') = n
  BY <1>2, <1>3, <1>7
<1> QED
  BY <1>6, <1>8

\* A GET answers the last value put in every pair of bits the server carries, and ones
\* elsewhere, for every value, configuration and run of the tasks: exactly what is lost
\* by server.cpp's pointer offset.
THEOREM CarriedReadBackHolds == Spec => CarriedReadBack
<1> DEFINE Reads ==
      phase = "decrypt" /\ phase' = "idle" /\ op.kind = "GET" =>
        /\ Len(ret') = Len(written)
        /\ \A i \in 1..Len(written), j \in Pair :
             GetBits(ret'[i], j) =
               IF 4 * (i - 1) + j \in CarriedGroups THEN GetBits(written[i], j) ELSE 3
<1>1. ASSUME IndInv, [Next]_vars
      PROVE  [Reads]_vars
  <2> SUFFICES ASSUME Next, phase = "decrypt", phase' = "idle", op.kind = "GET"
               PROVE  Reads
    BY <1>1
  <2>1. Finish
    BY DEF Next, Step, BeginCreate, PutTooLong, BeginGet, BeginPut, BeginAccess,
           CreateStep, BuildStep, SendCreate, SendAccess, DecryptStep, Done, vars
  <2> QED
    BY <1>1, <2>1, FinishReads
<1>2. CarriedReadBack <=> [][Reads]_vars
  BY DEF CarriedReadBack
<1> QED
  BY <1>1, <1>2, IndInvHolds, PTL DEF Spec

\* A byte is determined by its four pairs of bits.
LEMMA PairsDetermineByte ==
  ASSUME NEW x \in Byte, NEW y \in Byte, \A j \in Pair : GetBits(x, j) = GetBits(y, j)
  PROVE  x = y
<1>1. /\ GetBits(x, 0) = GetBits(y, 0) /\ GetBits(x, 1) = GetBits(y, 1)
      /\ GetBits(x, 2) = GetBits(y, 2) /\ GetBits(x, 3) = GetBits(y, 3)
  BY DEF Pair
<1>2. \A z \in Byte : /\ GetBits(z, 0) = z % 4 /\ GetBits(z, 1) = (z \div 4) % 4
                      /\ GetBits(z, 2) = (z \div 16) % 4 /\ GetBits(z, 3) = (z \div 64) % 4
  BY Weights DEF GetBits, Byte
<1>3. \A z \in Byte : z = (z % 4) + 4 * ((z \div 4) % 4) + 16 * ((z \div 16) % 4)
                            + 64 * ((z \div 64) % 4)
  BY DEF Byte
<1> QED
  BY <1>1, <1>2, <1>3

\* One server task processes the whole block.
LEMMA OneTaskCarriesAll ==
  ASSUME NEW size \in Nat \ {0}
  PROVE  ServerSlots(size, 1) = 0..(4 * size - 1)
<1>1. PartSize(size, 1) = size
  BY DEF PartSize
<1>2. 0 \in Part(1) /\ PartStart(0, size, 1) = 0 /\ PartLimit(0, size, 1) = size
  BY <1>1 DEF Part, PartStart, PartLimit
<1>3. Turn(0, size, 1) = 0..(4 * size - 1)
  BY <1>2 DEF Turn, PartGroups
<1>4. \A c \in 0..(4 * size - 1) : ServerSlot(0, c, size, 1) = c
  BY <1>2 DEF ServerSlot
<1>5. \A c \in 0..(4 * size - 1) : c \in ServerSlots(size, 1)
  BY <1>2, <1>3, <1>4, ServerSlotsAre
<1>6. ServerSlots(size, 1) \subseteq 0..(4 * size - 1)
  BY ServerTaskInBlock
<1> QED
  BY <1>5, <1>6

\* Built with SERVER_NUM_THREADS = 1 the pointer offset is harmless: a GET answers
\* exactly the last value put, whatever the block size and the proxy's tasks.
THEOREM OneServerTaskReadsBack ==
  ASSUME \A c \in Configuration : c.SERVER_NUM_THREADS = 1
  PROVE  Spec => ReadBack
<1> DEFINE Answers == phase = "decrypt" /\ phase' = "idle" /\ op.kind = "GET" => ret' = written
<1>1. ASSUME IndInv, [Next]_vars
      PROVE  [Answers]_vars
  <2> SUFFICES ASSUME Next, phase = "decrypt", phase' = "idle", op.kind = "GET"
               PROVE  ret' = written
    BY <1>1
  <2>1. Finish
    BY DEF Next, Step, BeginCreate, PutTooLong, BeginGet, BeginPut, BeginAccess,
           CreateStep, BuildStep, SendCreate, SendAccess, DecryptStep, Done, vars
  <2>2. /\ written \in Seq(Byte) /\ Len(written) <= VALUE_SIZE
        /\ VALUE_SIZE \in Nat \ {0} /\ SERVER_NUM_THREADS = 1
    BY <1>1, Sizes DEF IndInv, TypeInv, Fits, SERVER_NUM_THREADS
  <2>3. CarriedGroups = 0..(4 * VALUE_SIZE - 1)
    BY <2>2, OneTaskCarriesAll DEF CarriedGroups
  <2>4. /\ ret' \in Seq(Byte) /\ Len(ret') = Len(written)
        /\ \A i \in 1..Len(written), j \in Pair :
             GetBits(ret'[i], j) =
               IF 4 * (i - 1) + j \in CarriedGroups THEN GetBits(written[i], j) ELSE 3
    BY <1>1, <2>1, FinishReads
  <2>5. ASSUME NEW i \in 1..Len(written)
        PROVE  ret'[i] = written[i]
    <3>1. \A j \in Pair : 4 * (i - 1) + j \in CarriedGroups
      BY <2>2, <2>3 DEF Pair
    <3>2. \A j \in Pair : GetBits(ret'[i], j) = GetBits(written[i], j)
      BY <2>4, <3>1
    <3>3. ret'[i] \in Byte /\ written[i] \in Byte
      BY <2>2, <2>4, ElementOfSeq
    <3> QED
      BY <3>2, <3>3, PairsDetermineByte
  <2> QED
    BY <2>2, <2>4, <2>5, SeqEqual
<1>2. ReadBack <=> [][Answers]_vars
  BY DEF ReadBack
<1> QED
  BY <1>1, <1>2, IndInvHolds, PTL DEF Spec
=============================================================================
