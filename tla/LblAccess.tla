------------------------------ MODULE LblAccess ------------------------------
(***************************************************************************)
(* One key of ORTOA-LBL, from the proxy's helper library to the server's   *)
(* block and back, at the level of the slots the pool tasks write.         *)
(*                                                                         *)
(* The proxy runs one operation on a key at a time (LblProxy shows that    *)
(* its lock guarantees this), so the operations here follow each other.    *)
(* What interleaves is inside an operation: PROXY_NUM_THREADS tasks fill   *)
(* the entry, SERVER_NUM_THREADS tasks decrypt the block, and in the       *)
(* server the tasks' ranges overlap.                                       *)
(***************************************************************************)
EXTENDS LblLabels, FiniteSets

CONSTANTS
  Configuration,        \* the values constants.h may give its three sizes
  Value,                \* the values a client may PUT: sequences of bytes
  SelectorChoice,       \* the selector functions a fresh master key may have
  MAX_OPS               \* bound: operations per behaviour

ASSUME LblAccessAssumption ==
  /\ Configuration \subseteq [VALUE_SIZE : Nat \ {0}, PROXY_NUM_THREADS : Nat \ {0},
                              SERVER_NUM_THREADS : Nat \ {0}]
  /\ MAX_OPS \in Nat
  /\ Value \subseteq Seq(Byte)
  /\ \A f \in SelectorChoice, c \in Configuration :
       \A g \in 0..(4 * c.VALUE_SIZE - 1) : f[g] \in Pair

VARIABLES
  config,      \* the configuration both programs are built with
  masterKey,   \* masterKeys[key]
  newKey,      \* newMasterKeyStr of the entry under construction
  valueSize,   \* valueSizes[key]
  known,       \* keySet.count(key)
  op,          \* the operation in progress
  phase,       \* where the operation is
  turns,       \* turns each task of the current phase has taken
  entry,       \* the entry: slots of a create, tables of an access
  block,       \* the server's RocksDB value of the key
  out,         \* _return: the block the server is decrypting into
  ret,         \* what the last GET answered
  ops,         \* operations started
  written      \* history: the value of the last PUT

vars == <<config, masterKey, newKey, valueSize, known, op, phase, turns, entry, block,
          out, ret, ops, written>>

\* Bytes of a padded value; tasks that build an entry; tasks that decrypt a block.
VALUE_SIZE == config.VALUE_SIZE

PROXY_NUM_THREADS == config.PROXY_NUM_THREADS

SERVER_NUM_THREADS == config.SERVER_NUM_THREADS

Slot == 0..(4 * VALUE_SIZE - 1)

ProxyPart == 0..(PROXY_NUM_THREADS - 1)

ServerPart == 0..(SERVER_NUM_THREADS - 1)

NoKey == [id |-> 0, sel |-> [g \in Slot |-> 0]]

NoOp == [kind |-> "none", value |-> <<>>]

\* crypto_kdf_keygen: an identity never used before, any selectors.
FreshKeys == [id : {ops + 1}, sel : {[g \in Slot |-> f[g]] : f \in SelectorChoice}]

NoTurns(parts) == [p \in parts |-> 0]

Init ==
  /\ config \in Configuration
  /\ masterKey = NoKey
  /\ newKey = NoKey
  /\ valueSize = 0
  /\ known = FALSE
  /\ op = NoOp
  /\ phase = "idle"
  /\ turns = NoTurns(ProxyPart)
  /\ entry = [s \in Slot |-> ZeroSlot]
  /\ block = [s \in Slot |-> ZeroSlot]
  /\ out = [s \in Slot |-> ZeroSlot]
  /\ ret = <<>>
  /\ ops = 0
  /\ written = <<>>

(***************************************************************************)
(* The proxy's helpers                                                     *)
(***************************************************************************)
Padded == PadToLen(op.value, VALUE_SIZE)

\* constructCreateEntry up to the submission of its tasks: the fresh key goes
\* straight into masterKeys.
BeginCreate(value) ==
  /\ phase = "idle" /\ ops < MAX_OPS
  /\ ~known
  /\ Len(value) <= VALUE_SIZE
  /\ \E mk \in FreshKeys : masterKey' = mk
  /\ op' = [kind |-> "create", value |-> value]
  /\ written' = value
  /\ entry' = [s \in Slot |-> ZeroSlot]
  /\ turns' = NoTurns(ProxyPart)
  /\ phase' = "create"
  /\ ops' = ops + 1
  /\ UNCHANGED <<config, newKey, valueSize, known, block, out, ret>>

\* constructGetEntry and constructPutEntry up to the submission of their tasks:
\* the fresh key is kept aside until every task is done.
BeginAccess(kind, value) ==
  /\ phase = "idle" /\ ops < MAX_OPS
  /\ known
  /\ Len(value) <= VALUE_SIZE
  /\ \E mk \in FreshKeys : newKey' = mk
  /\ op' = [kind |-> kind, value |-> value]
  /\ written' = IF kind = "PUT" THEN value ELSE written
  /\ entry' = [s \in Slot |-> ZeroTable]
  /\ turns' = NoTurns(ProxyPart)
  /\ phase' = "build"
  /\ ops' = ops + 1
  /\ UNCHANGED <<config, masterKey, valueSize, known, block, out, ret>>

BeginGet == BeginAccess("GET", <<>>)

BeginPut == \E value \in Value : BeginAccess("PUT", value)

\* A PUT whose value is longer than VALUE_SIZE: std::string throws in padToLen
\* before anything is assigned.
PutTooLong(value) ==
  /\ phase = "idle" /\ ops < MAX_OPS
  /\ Len(value) > VALUE_SIZE
  /\ phase' = "thrown"
  /\ UNCHANGED <<config, masterKey, newKey, valueSize, known, op, turns, entry, block,
                 out, ret, ops, written>>

ProxyTurns(p) == PartGroups(p, VALUE_SIZE, PROXY_NUM_THREADS)

ServerTurns(p) == PartGroups(p, VALUE_SIZE, SERVER_NUM_THREADS)

\* One turn of createEntryParallel's inner loop by task p.
CreateStep(p) ==
  LET g == ProxyGroup(p, turns[p], VALUE_SIZE, PROXY_NUM_THREADS)
  IN  /\ phase = "create"
      /\ turns[p] < ProxyTurns(p)
      /\ entry' = [entry EXCEPT ![g] = Stored(masterKey, g, GroupBits(Padded, g))]
      /\ turns' = [turns EXCEPT ![p] = @ + 1]
      /\ UNCHANGED <<config, masterKey, newKey, valueSize, known, op, phase, block, out,
                     ret, ops, written>>

\* One turn of getEntryParallel's or putEntryParallel's inner loop by task p.
BuildStep(p) ==
  LET g == ProxyGroup(p, turns[p], VALUE_SIZE, PROXY_NUM_THREADS)
      table == IF op.kind = "GET"
               THEN GetTable(masterKey, newKey, g)
               ELSE PutTable(masterKey, newKey, g, GroupBits(Padded, g))
  IN  /\ phase = "build"
      /\ turns[p] < ProxyTurns(p)
      /\ entry' = [entry EXCEPT ![g] = table]
      /\ turns' = [turns EXCEPT ![p] = @ + 1]
      /\ UNCHANGED <<config, masterKey, newKey, valueSize, known, op, phase, block, out,
                     ret, ops, written>>

\* The futures of the parts joined in order; then, for a create, the caller
\* records the key and sends the entry, which the server stores as it is.
SendCreate ==
  /\ phase = "create"
  /\ \A p \in ProxyPart : turns[p] = ProxyTurns(p)
  /\ valueSize' = Len(op.value)
  /\ known' = TRUE
  /\ block' = entry
  /\ op' = NoOp
  /\ phase' = "idle"
  /\ UNCHANGED <<config, masterKey, newKey, turns, entry, out, ret, ops, written>>

\* Mutants: the new master key, or the size of a PUT, is not recorded.
SendAccessKeepsKey ==
  /\ phase = "build" /\ \A p \in ProxyPart : turns[p] = ProxyTurns(p)
  /\ valueSize' = IF op.kind = "PUT" THEN Len(op.value) ELSE valueSize
  /\ out' = [s \in Slot |-> ZeroSlot]
  /\ turns' = NoTurns(ServerPart)
  /\ phase' = "decrypt"
  /\ UNCHANGED <<config, masterKey, newKey, known, op, entry, block, ret, ops, written>>

SendAccessKeepsSize ==
  /\ phase = "build" /\ \A p \in ProxyPart : turns[p] = ProxyTurns(p)
  /\ masterKey' = newKey
  /\ out' = [s \in Slot |-> ZeroSlot]
  /\ turns' = NoTurns(ServerPart)
  /\ phase' = "decrypt"
  /\ UNCHANGED <<config, valueSize, newKey, known, op, entry, block, ret, ops, written>>

\* ... and for an access, the new master key replaces the old one, a PUT records
\* its size, and the server receives the entry, clears _return and submits its tasks.
SendAccess ==
  /\ phase = "build"
  /\ \A p \in ProxyPart : turns[p] = ProxyTurns(p)
  /\ masterKey' = newKey
  /\ valueSize' = IF op.kind = "PUT" THEN Len(op.value) ELSE valueSize
  /\ out' = [s \in Slot |-> ZeroSlot]
  /\ turns' = NoTurns(ServerPart)
  /\ phase' = "decrypt"
  /\ UNCHANGED <<config, newKey, known, op, entry, block, ret, ops, written>>

(***************************************************************************)
(* The server                                                              *)
(***************************************************************************)
\* Mutant: the output pointer is not advanced to the task's part.
DecryptStepNoOffset(p) ==
  LET s == ServerSlot(p, turns[p], VALUE_SIZE, SERVER_NUM_THREADS)
  IN  /\ phase = "decrypt" /\ turns[p] < ServerTurns(p)
      /\ out' = [out EXCEPT ![turns[p]] = Chosen(entry[s], block[s]).msg]
      /\ turns' = [turns EXCEPT ![p] = @ + 1]
      /\ UNCHANGED <<config, masterKey, newKey, valueSize, known, op, phase, entry, block, ret,
                     ops, written>>

\* One turn of decryptPortion's inner loop by task p; a box that does not open
\* ends the server.
DecryptStep(p) ==
  LET s == ServerSlot(p, turns[p], VALUE_SIZE, SERVER_NUM_THREADS)
  IN  /\ phase = "decrypt"
      /\ turns[p] < ServerTurns(p)
      /\ IF Opens(entry[s], block[s])
         THEN /\ out' = [out EXCEPT ![s] = Chosen(entry[s], block[s]).msg]
              /\ turns' = [turns EXCEPT ![p] = @ + 1]
              /\ phase' = phase
         ELSE phase' = "rip" /\ UNCHANGED <<out, turns>>
      /\ UNCHANGED <<config, masterKey, newKey, valueSize, known, op, entry, block, ret,
                     ops, written>>

\* The futures joined, the new block put and returned; a GET then decodes it
\* with the new master key.
Finish ==
  /\ phase = "decrypt"
  /\ \A p \in ServerPart : turns[p] = ServerTurns(p)
  /\ block' = out
  /\ ret' = IF op.kind = "GET" THEN ReadValue(masterKey, out, valueSize) ELSE ret
  /\ op' = NoOp
  /\ phase' = "idle"
  /\ UNCHANGED <<config, masterKey, newKey, valueSize, known, turns, entry, out, ops,
                 written>>

\* No more operations: the bound is spent, the helper threw or the server exited.
Done ==
  /\ \/ phase = "idle" /\ ops = MAX_OPS
     \/ phase \in {"thrown", "rip"}
  /\ UNCHANGED vars

Step ==
  \/ \E p \in ProxyPart : CreateStep(p) \/ BuildStep(p)
  \/ SendCreate \/ SendAccess
  \/ \E p \in ServerPart : DecryptStep(p)
  \/ Finish

Next ==
  \/ \E value \in Value : BeginCreate(value) \/ PutTooLong(value)
  \/ BeginGet \/ BeginPut
  \/ Step
  \/ Done

Spec == Init /\ [][Next]_vars

(***************************************************************************)
(* Properties                                                              *)
(***************************************************************************)
CarriedGroups == ServerSlots(VALUE_SIZE, SERVER_NUM_THREADS)

\* The tasks of createEntryParallel, getEntryParallel and putEntryParallel fill every
\* slot of an entry and none twice: they share no memory, also when the size is no
\* multiple of the number of tasks or there are more tasks than bytes.
ProxyTasksExact ==
  /\ TasksCover(VALUE_SIZE, PROXY_NUM_THREADS)
  /\ TasksDisjoint(VALUE_SIZE, PROXY_NUM_THREADS)

\* decryptPortion, whose pointers are offset by the byte number and not by four times
\* it, stays inside the block, and the slots it processes are a prefix of it: the bytes
\* that an access carries over are the leading ones.
ServerTasksPrefix ==
  CarriedGroups \subseteq Slot /\ \A s \in CarriedGroups : 0..s \subseteq CarriedGroups

\* While the server decrypts, each slot that a task processes has exactly one box
\* of its table that the stored label opens, and the stored selector names it:
\* decryptPortion never meets a box that does not open ("RIP"), it learns one new slot
\* per group, and nothing tells it GET from PUT.
OneBoxOpens ==
  phase = "decrypt" =>
    \A s \in CarriedGroups :
      { p \in Pair : entry[s][p].key = block[s].label } = { block[s].aux }

\* Between operations the groups the server carries over encode the last value
\* that was put, under the master key the proxy holds.
BlockEncodesValue ==
  phase = "idle" /\ known =>
    \A g \in CarriedGroups :
      block[g] = Stored(masterKey, g, GroupBits(PadToLen(written, VALUE_SIZE), g))

\* Server tasks run concurrently over overlapping ranges of slots: a slot one of
\* them has decrypted is never changed by another before the answer is returned.
OverlapAgrees ==
  [][phase = "decrypt" /\ phase' = "decrypt" =>
       \A s \in Slot : out[s] # ZeroSlot => out'[s] = out[s]]_vars

\* A GET answers the last value put, of its recorded length, in every group of bits
\* that the server carries over; the others read as ones once the block was accessed.
CarriedReadBack ==
  [][phase = "decrypt" /\ phase' = "idle" /\ op.kind = "GET" =>
       /\ Len(ret') = Len(written)
       /\ \A i \in 1..Len(written), j \in Pair :
            GetBits(ret'[i], j) =
              IF 4 * (i - 1) + j \in CarriedGroups THEN GetBits(written[i], j) ELSE 3]_vars

\* A GET answers the last value put.  (Refuted: server.cpp:65 advances its pointers
\* by start slots instead of start * 4.)
ReadBack ==
  [][phase = "decrypt" /\ phase' = "idle" /\ op.kind = "GET" => ret' = written]_vars
=============================================================================
