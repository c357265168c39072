------------------------------- MODULE LblProxy -------------------------------
(***************************************************************************)
(* ORTOA-LBL as a distributed program: the threads of the proxy (or of the *)
(* concurrent benchmark, whose handleOp is the same), the shared maps of   *)
(* clientHelper.cpp, the RPCs in flight and the storage server over        *)
(* RocksDB.                                                                *)
(*                                                                         *)
(* A block is abstracted to the master key its labels were derived from    *)
(* and the value they encode; LblAccess models what is inside.  A master   *)
(* key is the number of its generation, 0 when there is none.              *)
(***************************************************************************)
EXTENDS LblLabels, FiniteSets

CONSTANTS
  Thread,               \* the threads that run handleOp
  Key,                  \* the keys clients ask for
  NumberedKey,          \* those of "0" .. "KEY_MAX - 1", whose locks are set up
  Value,                \* the values clients put
  Size,                 \* Size[v]: length of v in bytes
  VALUE_SIZE,           \* bytes of a block
  SERVER_NUM_THREADS,   \* tasks that decrypt a block
  Preloaded,            \* keys loaded from DATA_FILE, present in the server's db
  InitialValue,         \* the value of the preloaded keys
  PER_REQUEST_CONN,     \* TRUE: proxy.cpp, a server connection per request
                        \* FALSE: concurrent_benchmark.cpp, one per thread
  REQUESTS,             \* bound: requests per thread
  MAX_QUITS,            \* bound: how often the operator quits the server
  MAX_RESTARTS,         \* bound: how often the operator restarts it
  NoValue, Empty, Garbled   \* no block; the empty answer; an undecodable value

ASSUME LblProxyAssumption ==
  /\ NumberedKey \subseteq Key /\ Preloaded \subseteq NumberedKey
  /\ Size \in [Value -> Nat]
  /\ InitialValue \in Value /\ Size[InitialValue] <= VALUE_SIZE
  /\ VALUE_SIZE \in Nat \ {0} /\ SERVER_NUM_THREADS \in Nat \ {0}
  /\ REQUESTS \in Nat /\ MAX_QUITS \in Nat /\ MAX_RESTARTS \in Nat
  /\ PER_REQUEST_CONN \in BOOLEAN
  /\ {NoValue, Empty, Garbled} \cap Value = {}
  /\ NoValue # Empty /\ NoValue # Garbled /\ Empty # Garbled
  \* The benchmark's own PUTs never exceed VALUE_SIZE.
  /\ PER_REQUEST_CONN \/ \A v \in Value : Size[v] <= VALUE_SIZE

VARIABLES
  \* the maps and counters shared by the proxy's threads
  keySet, valueSizes, masterKeys, locks, accesses, aborted,
  \* each thread: program counter, operation, outcome of keySet.count, the master
  \* keys of its entry, its answer, its connection and the requests it has left
  pc, req, found, entry, ret, conn, left,
  \* the server: its db, the accesses and one-way creates it has not finished,
  \* and the block each access has computed
  db, job, snap, creates, serverUp, quits, restarts,
  \* crypto_kdf_keygen: the next generation; history: the value last put
  nextKey, written

maps == <<keySet, valueSizes, masterKeys>>
proxyVars == <<maps, locks, accesses, aborted>>
threadVars == <<pc, req, found, entry, ret, conn, left>>
serverVars == <<db, job, snap, creates, serverUp, quits, restarts>>
vars == <<proxyVars, threadVars, serverVars, nextKey, written>>

Block == [mk : Nat, val : Value \union {Garbled, NoValue}]

NoBlock == [mk |-> 0, val |-> NoValue]

Requests == [op : {"GET"}, key : Key, val : {NoValue}]
              \union [op : {"PUT"}, key : Key, val : Value]

NoRequest == [op |-> "none", key |-> CHOOSE k \in Key : TRUE, val |-> NoValue]

NoEntry == [old |-> 0, new |-> 0]

K(t) == req[t].key

IsGet(t) == req[t].op = "GET"

(***************************************************************************)
(* What an access does to a block, and what a GET makes of the answer      *)
(***************************************************************************)
\* decryptPortion carries over only a prefix of the block (see LblAccess).
Carried == CarriedBytes(VALUE_SIZE, SERVER_NUM_THREADS)

Carry(v) == IF v \in Value /\ Size[v] <= Carried THEN v ELSE Garbled

\* Mutant: a PUT re-encrypts the old value, as a GET does.
ReencryptKeepsOld(t, b) == [mk |-> entry[t].new, val |-> Carry(b.val)]

\* The block an entry turns the stored block into.
Reencrypt(t, b) ==
  [mk |-> entry[t].new, val |-> Carry(IF IsGet(t) THEN b.val ELSE req[t].val)]

\* Every label of a block opens a box of the entry only if the block was made
\* with the entry's old master key; otherwise some task prints RIP.
Decryptable(t, b) == b.mk = entry[t].old

\* readValueFromLabels: labels of another master key decode to nothing sensible,
\* and so does a result cut at the size of another value.
ReadValueFromLabels(k, b) ==
  IF b.mk = masterKeys[k] /\ b.val \in Value /\ Size[b.val] = valueSizes[k]
  THEN b.val ELSE Garbled

(***************************************************************************)
(* Data races.  keySet, valueSizes, masterKeys and locks are unsynchronized *)
(* containers; Touches names the ones a thread's next step uses and Grows   *)
(* the ones it inserts into.  An insertion concurrent with another use may  *)
(* end the process, and keySet.count may miss a key that is present.        *)
(***************************************************************************)
Touches(t) ==
  CASE pc[t] = "check" -> {"keySet"}
    [] pc[t] = "lock" -> {"locks"}
    [] pc[t] = "construct" -> {"masterKeys"}
    [] pc[t] = "record" /\ ~found[t] -> {"valueSizes", "keySet"}
    [] pc[t] = "record" /\ found[t] -> {"valueSizes"}
    [] pc[t] = "wait" /\ IsGet(t) -> {"masterKeys", "valueSizes"}
    [] pc[t] = "release" -> {"locks"}
    [] OTHER -> {}

Grows(t) ==
  CASE pc[t] = "lock" /\ locks[K(t)] = "absent" -> {"locks"}
    [] pc[t] = "construct" /\ masterKeys[K(t)] = 0 -> {"masterKeys"}
    [] pc[t] = "record" /\ ~found[t] /\ K(t) \notin keySet -> {"valueSizes", "keySet"}
    [] OTHER -> {}

\* The answers keySet.count may give.
Lookup(t) ==
  IF K(t) \notin keySet THEN {FALSE}
  ELSE IF \E u \in Thread \ {t} : "keySet" \in Grows(u) THEN {TRUE, FALSE}
  ELSE {TRUE}

RaceCrash ==
  /\ \E t \in Thread : \E u \in Thread \ {t} : Grows(t) \cap Touches(u) # {}
  /\ pc' = [t \in Thread |-> "crashed"]
  /\ UNCHANGED <<proxyVars, req, found, entry, ret, conn, left, serverVars,
                 nextKey, written>>

(***************************************************************************)
(* Initial state: OpScureSetup has run, the server is up                   *)
(***************************************************************************)
Init ==
  /\ keySet = Preloaded
  /\ valueSizes = [k \in Key |-> IF k \in Preloaded THEN Size[InitialValue] ELSE 0]
  /\ masterKeys = [k \in Key |-> IF k \in Preloaded THEN 1 ELSE 0]
  /\ locks = [k \in Key |-> IF k \in NumberedKey THEN "free" ELSE "absent"]
  /\ accesses = 0 /\ aborted = 0
  /\ pc = [t \in Thread |-> "idle"]
  /\ req = [t \in Thread |-> NoRequest]
  /\ found = [t \in Thread |-> FALSE]
  /\ entry = [t \in Thread |-> NoEntry]
  /\ ret = [t \in Thread |-> Empty]
  /\ conn = [t \in Thread |-> "closed"]
  /\ left = [t \in Thread |-> REQUESTS]
  /\ db = [k \in Key |-> IF k \in Preloaded THEN [mk |-> 1, val |-> InitialValue]
                                           ELSE NoBlock]
  /\ job = [t \in Thread |-> "none"]
  /\ snap = [t \in Thread |-> NoBlock]
  /\ creates = {}
  /\ serverUp = TRUE
  /\ quits = 0 /\ restarts = 0
  /\ nextKey = 2
  /\ written = [k \in Key |-> IF k \in Preloaded THEN InitialValue ELSE NoValue]

(***************************************************************************)
(* The proxy: Send_OpHandler::access and handleOp                          *)
(***************************************************************************)
\* A client's call reaches a proxy thread, which opens a connection to the server
\* (the benchmark's threads open theirs once).
Request(t) ==
  /\ pc[t] = "idle" /\ left[t] > 0
  /\ conn[t] # "closed" \/ serverUp
  /\ \E r \in Requests : req' = [req EXCEPT ![t] = r]
  /\ pc' = [pc EXCEPT ![t] = "check"]
  /\ left' = [left EXCEPT ![t] = @ - 1]
  /\ conn' = [conn EXCEPT ![t] = IF @ = "closed" THEN "open" ELSE @]
  /\ UNCHANGED <<proxyVars, found, entry, ret, serverVars, nextKey, written>>

\* transport->open() throws: the client's thread ends with the exception.
RequestRefused(t) ==
  /\ pc[t] = "idle" /\ left[t] > 0
  /\ conn[t] = "closed" /\ ~serverUp
  /\ pc' = [pc EXCEPT ![t] = "failed"]
  /\ left' = [left EXCEPT ![t] = @ - 1]
  /\ UNCHANGED <<proxyVars, req, found, entry, ret, conn, serverVars, nextKey,
                 written>>

\* Returning to the client: the locals are gone, and with them the proxy's
\* connection to the server.
Return(t) ==
  /\ pc' = [pc EXCEPT ![t] = "idle"]
  /\ req' = [req EXCEPT ![t] = NoRequest]
  /\ found' = [found EXCEPT ![t] = FALSE]
  /\ entry' = [entry EXCEPT ![t] = NoEntry]
  /\ ret' = [ret EXCEPT ![t] = Empty]
  /\ conn' = [conn EXCEPT ![t] = IF PER_REQUEST_CONN THEN "closed" ELSE @]
  /\ snap' = [snap EXCEPT ![t] = NoBlock]
  /\ UNCHANGED left

\* The request is answered with the empty string and counted as aborted.
Abort(t) ==
  /\ aborted' = aborted + 1
  /\ Return(t)
  /\ UNCHANGED <<maps, accesses, db, job, creates, serverUp, quits, restarts,
                 nextKey, written>>

\* handleOp goes on to the lock, knowing whether the key was present.
Proceed(t, present) ==
  /\ found' = [found EXCEPT ![t] = present]
  /\ pc' = [pc EXCEPT ![t] = "lock"]
  /\ UNCHANGED <<proxyVars, req, entry, ret, conn, left, serverVars, nextKey, written>>

\* keySet.count(op.key), without any lock.
Check(t) ==
  /\ pc[t] = "check"
  /\ \E present \in Lookup(t) :
       \/ (present \/ ~IsGet(t)) /\ Proceed(t, present)
       \/ (~present /\ IsGet(t)) /\ Abort(t) /\ UNCHANGED locks

\* The exchange returned true.
Acquire(t) ==
  /\ pc' = [pc EXCEPT ![t] = "construct"]
  /\ UNCHANGED <<maps, accesses, aborted, req, found, entry, ret, conn, left,
                 serverVars, nextKey, written>>

\* Mutants: the result of the exchange is ignored; the thread spins instead of aborting.
TryLockIgnored(t) ==
  pc[t] = "lock" /\ locks' = [locks EXCEPT ![K(t)] = "held"] /\ Acquire(t)

TryLockSpins(t) ==
  /\ pc[t] = "lock"
  /\ \/ locks[K(t)] = "free" /\ locks' = [locks EXCEPT ![K(t)] = "held"] /\ Acquire(t)
     \/ locks[K(t)] # "free" /\ UNCHANGED vars

\* locks[op.key].exchange(false): a lock that was not there is inserted as false.
TryLock(t) ==
  /\ pc[t] = "lock"
  /\ locks' = [locks EXCEPT ![K(t)] = "held"]
  /\ \/ locks[K(t)] = "free" /\ Acquire(t)
     \/ locks[K(t)] # "free" /\ Abort(t)

\* The value PUT last: from here on no reader but the holder of the lock can tell.
NowWritten(t) ==
  IF IsGet(t) THEN written ELSE [written EXCEPT ![K(t)] = req[t].val]

\* padToLen cannot pad.
TooLong(t) == ~IsGet(t) /\ Size[req[t].val] > VALUE_SIZE

\* constructCreateEntry, constructGetEntry or constructPutEntry: a fresh master
\* key replaces the one the entry's boxes are locked with.
Construct(t) ==
  /\ pc[t] = "construct"
  /\ ~TooLong(t)
  /\ entry' = [entry EXCEPT ![t] = [old |-> masterKeys[K(t)], new |-> nextKey]]
  /\ masterKeys' = [masterKeys EXCEPT ![K(t)] = nextKey]
  /\ nextKey' = nextKey + 1
  /\ written' = NowWritten(t)
  /\ pc' = [pc EXCEPT ![t] = IF IsGet(t) THEN "send" ELSE "record"]
  /\ UNCHANGED <<keySet, valueSizes, locks, accesses, aborted, req, found, ret,
                 conn, left, serverVars>>

\* padToLen throws on a value longer than VALUE_SIZE; nothing releases the lock.
ConstructThrows(t) ==
  /\ pc[t] = "construct"
  /\ TooLong(t)
  /\ pc' = [pc EXCEPT ![t] = "leaked"]
  /\ UNCHANGED <<proxyVars, req, found, entry, ret, conn, left, serverVars,
                 nextKey, written>>

\* Mutant: the size of the value is not recorded.
RecordNoSize(t) ==
  /\ pc[t] = "record"
  /\ keySet' = IF found[t] THEN keySet ELSE keySet \union {K(t)}
  /\ pc' = [pc EXCEPT ![t] = "send"]
  /\ UNCHANGED <<masterKeys, valueSizes, locks, accesses, aborted, req, found, entry,
                 ret, conn, left, serverVars, nextKey, written>>

\* A PUT records its size, and the key if it was not known.
Record(t) ==
  /\ pc[t] = "record"
  /\ valueSizes' = [valueSizes EXCEPT ![K(t)] = Size[req[t].val]]
  /\ keySet' = IF found[t] THEN keySet ELSE keySet \union {K(t)}
  /\ pc' = [pc EXCEPT ![t] = "send"]
  /\ UNCHANGED <<masterKeys, locks, accesses, aborted, req, found, entry, ret,
                 conn, left, serverVars, nextKey, written>>

\* client.create(entry) is oneway: it returns once the entry is written to the
\* socket, and a write to a connection the server has left may go unnoticed.
SendCreate(t) ==
  /\ pc[t] = "send" /\ ~found[t]
  /\ creates' = IF conn[t] = "open"
                THEN creates \union {[from |-> t, key |-> K(t), mk |-> entry[t].new,
                                      val |-> req[t].val]}
                ELSE creates
  /\ pc' = [pc EXCEPT ![t] = "release"]
  /\ UNCHANGED <<proxyVars, req, found, entry, ret, conn, left, db, job, snap,
                 serverUp, quits, restarts, nextKey, written>>

\* client.access(labels, entry) sends and waits for the answer.
SendAccess(t) ==
  /\ pc[t] = "send" /\ found[t] /\ conn[t] = "open"
  /\ job' = [job EXCEPT ![t] = "sent"]
  /\ pc' = [pc EXCEPT ![t] = "wait"]
  /\ UNCHANGED <<proxyVars, req, found, entry, ret, conn, left, db, snap, creates,
                 serverUp, quits, restarts, nextKey, written>>

\* Either call throws on a dead connection; nothing releases the lock.
SendThrows(t) ==
  /\ pc[t] = "send" /\ conn[t] = "dead"
  /\ pc' = [pc EXCEPT ![t] = "leaked"]
  /\ UNCHANGED <<proxyVars, req, found, entry, ret, conn, left, serverVars,
                 nextKey, written>>

\* The answer of an access arrives; a GET decodes it.
Receive(t) ==
  /\ pc[t] = "wait" /\ job[t] = "stored"
  /\ job' = [job EXCEPT ![t] = "none"]
  /\ ret' = [ret EXCEPT ![t] = IF IsGet(t) THEN ReadValueFromLabels(K(t), snap[t])
                               ELSE @]
  /\ pc' = [pc EXCEPT ![t] = "release"]
  /\ UNCHANGED <<proxyVars, req, found, entry, conn, left, db, snap, creates,
                 serverUp, quits, restarts, nextKey, written>>

\* The connection breaks while the answer is awaited; nothing releases the lock.
ReceiveThrows(t) ==
  /\ pc[t] = "wait" /\ job[t] = "broken"
  /\ job' = [job EXCEPT ![t] = "none"]
  /\ pc' = [pc EXCEPT ![t] = "leaked"]
  /\ UNCHANGED <<proxyVars, req, found, entry, ret, conn, left, db, snap, creates,
                 serverUp, quits, restarts, nextKey, written>>

\* Mutant: the lock is not released.
ReleaseForgets(t) ==
  /\ pc[t] = "release"
  /\ accesses' = accesses + 1
  /\ Return(t)
  /\ UNCHANGED <<maps, locks, aborted, db, job, creates, serverUp, quits, restarts,
                 nextKey, written>>

\* accesses++ and locks[op.key].exchange(true).
Release(t) ==
  /\ pc[t] = "release"
  /\ accesses' = accesses + 1
  /\ locks' = [locks EXCEPT ![K(t)] = "free"]
  /\ Return(t)
  /\ UNCHANGED <<maps, aborted, db, job, creates, serverUp, quits, restarts,
                 nextKey, written>>

(***************************************************************************)
(* The server: KV_RPCHandler over RocksDB, one thread per connection       *)
(***************************************************************************)
\* RPCs on one connection are served in the order they were sent; between
\* connections there is no order.
InTurn(c) ==
  PER_REQUEST_CONN \/ \A d \in creates : d.from = c.from => c.mk <= d.mk

ServeCreate(c) ==
  /\ serverUp /\ InTurn(c)
  /\ db' = [db EXCEPT ![c.key] = [mk |-> c.mk, val |-> c.val]]
  /\ creates' = creates \ {c}
  /\ UNCHANGED <<proxyVars, threadVars, job, snap, serverUp, quits, restarts,
                 nextKey, written>>

AtServer(t) ==
  /\ serverUp /\ job[t] = "sent"
  /\ PER_REQUEST_CONN \/ \A c \in creates : c.from # t

\* db->Get and the decryption of what it returned.
AccessDecrypt(t) ==
  /\ AtServer(t)
  /\ Decryptable(t, db[K(t)])
  /\ snap' = [snap EXCEPT ![t] = Reencrypt(t, db[K(t)])]
  /\ job' = [job EXCEPT ![t] = "decrypted"]
  /\ UNCHANGED <<proxyVars, threadVars, db, creates, serverUp, quits, restarts,
                 nextKey, written>>

\* db->Put of the new block; the answer follows.
AccessStore(t) ==
  /\ serverUp /\ job[t] = "decrypted"
  /\ db' = [db EXCEPT ![K(t)] = snap[t]]
  /\ job' = [job EXCEPT ![t] = "stored"]
  /\ UNCHANGED <<proxyVars, threadVars, snap, creates, serverUp, quits, restarts,
                 nextKey, written>>

\* The process exits: what it had not answered or stored is lost, except answers
\* already on their way.
ServerExits ==
  /\ serverUp' = FALSE
  /\ creates' = {}
  /\ \E answered \in SUBSET {t \in Thread : job[t] = "stored"} :
       job' = [t \in Thread |-> IF job[t] = "none" \/ t \in answered THEN job[t]
                                ELSE "broken"]
  /\ conn' = [t \in Thread |-> IF conn[t] = "open" THEN "dead" ELSE conn[t]]
  /\ UNCHANGED <<proxyVars, pc, req, found, entry, ret, left, db, snap, restarts,
                 nextKey, written>>

\* A box does not open, or there is no block: "RIP", exit(1).
AccessRip(t) ==
  /\ AtServer(t)
  /\ ~Decryptable(t, db[K(t)])
  /\ ServerExits
  /\ UNCHANGED quits

\* The operator quits the server.
ServerQuit ==
  /\ serverUp /\ quits < MAX_QUITS
  /\ quits' = quits + 1
  /\ ServerExits

\* ... and starts it again on the same db.
ServerRestart ==
  /\ ~serverUp /\ restarts < MAX_RESTARTS
  /\ serverUp' = TRUE
  /\ restarts' = restarts + 1
  /\ UNCHANGED <<proxyVars, threadVars, db, job, snap, creates, quits, nextKey,
                 written>>

(***************************************************************************)
(* The specification                                                       *)
(***************************************************************************)
Finished(t) ==
  \/ pc[t] \in {"failed", "leaked", "crashed"}
  \/ pc[t] = "idle" /\ left[t] = 0

Done == (\A t \in Thread : Finished(t)) /\ UNCHANGED vars

ThreadStep(t) ==
  \/ Check(t) \/ TryLock(t) \/ Construct(t) \/ ConstructThrows(t) \/ Record(t)
  \/ SendCreate(t) \/ SendAccess(t) \/ SendThrows(t)
  \/ Receive(t) \/ ReceiveThrows(t) \/ Release(t)

ServeAccess(t) == AccessDecrypt(t) \/ AccessRip(t) \/ AccessStore(t)

Next ==
  \/ \E t \in Thread : Request(t) \/ RequestRefused(t) \/ ThreadStep(t) \/ ServeAccess(t)
  \/ \E c \in creates : ServeCreate(c)
  \/ RaceCrash \/ ServerQuit \/ ServerRestart
  \/ Done

\* The threads of the proxy and of the server are scheduled and the transport
\* delivers; clients, the operator and data races are under no obligation.
Fairness ==
  /\ \A t \in Thread : WF_vars(ThreadStep(t)) /\ WF_vars(ServeAccess(t))
  /\ WF_vars(\E c \in creates : ServeCreate(c))

Spec == Init /\ [][Next]_vars /\ Fairness

(***************************************************************************)
(* Properties                                                              *)
(***************************************************************************)
\* Every variable keeps its type: the proxy's maps, the threads' locals, the
\* server's db and the RPCs in flight.
TypeOK ==
  /\ keySet \subseteq Key
  /\ valueSizes \in [Key -> Nat]
  /\ masterKeys \in [Key -> Nat]
  /\ locks \in [Key -> {"absent", "free", "held"}]
  /\ accesses \in Nat /\ aborted \in Nat
  /\ pc \in [Thread -> {"idle", "check", "lock", "construct", "record", "send",
                        "wait", "release", "failed", "leaked", "crashed"}]
  /\ req \in [Thread -> Requests \union {NoRequest}]
  /\ found \in [Thread -> BOOLEAN]
  /\ entry \in [Thread -> [old : Nat, new : Nat]]
  /\ ret \in [Thread -> Value \union {Empty, Garbled}]
  /\ conn \in [Thread -> {"closed", "open", "dead"}]
  /\ left \in [Thread -> 0..REQUESTS]
  /\ db \in [Key -> Block]
  /\ job \in [Thread -> {"none", "sent", "decrypted", "stored", "broken"}]
  /\ snap \in [Thread -> Block]
  /\ creates \subseteq [from : Thread, key : Key, mk : Nat, val : Value]
  /\ serverUp \in BOOLEAN
  /\ quits \in 0..MAX_QUITS /\ restarts \in 0..MAX_RESTARTS
  /\ nextKey \in Nat
  /\ written \in [Key -> Value \union {NoValue}]

Holding == {"construct", "record", "send", "wait", "release", "leaked"}

Holds(t, k) == pc[t] \in Holding /\ K(t) = k

Crashed == \E t \in Thread : pc[t] = "crashed"

\* The lock of a key serializes the operations on it: two threads are never
\* between exchange(false) and exchange(true) on the same key, in spite of the
\* unlocked keySet.count before it.
LockExclusion ==
  \A t, u \in Thread : \A k \in Key : Holds(t, k) /\ Holds(u, k) => t = u

\* A lock is never lost: a lock that was set up is false only while some thread
\* holds it, or after that thread was thrown out of handleOp.
LockAccounted ==
  ~Crashed => \A k \in NumberedKey : locks[k] # "free" => \E t \in Thread : Holds(t, k)

\* A GET answers the value last put under that key (a value too long for the server
\* to carry comes back garbled), whatever creates, crashes and restarts interleave.
AnswersAreCurrent ==
  \A t \in Thread :
    pc[t] = "release" /\ IsGet(t) => ret[t] = Carry(written[K(t)])

\* The block under a key's current master key holds the value last put: no stale
\* block is ever stored under it, by a late create or by another access.
BlockIsCurrent ==
  ~Crashed =>
    \A k \in Key : masterKeys[k] # 0 /\ db[k].mk = masterKeys[k] =>
                     db[k].val \in {written[k], Carry(written[k])}

\* No access the proxy sends finds a block of another master key, so the server
\* stays up until the operator quits it.
ServerSurvives == serverUp \/ quits > 0

(***************************************************************************)
(* The inductive invariant behind AnswersAreCurrent.  Once a proxy has     *)
(* crashed nothing is claimed: Crashed guards the parts that relate the    *)
(* proxy's maps to the server.                                             *)
(***************************************************************************)
Busy == {"check", "lock", "construct", "record", "send", "wait", "release", "leaked"}

\* From the replacement of the master key to the release of the lock.
Rekeyed(t) == pc[t] \in {"record", "send", "wait", "release"}

Encodes(b, k) == b.val \in {written[k], Carry(written[k])}

\* A thread in handleOp has a request; a GET past the check found its key.
RequestInv ==
  \A t \in Thread : pc[t] \in Busy =>
    /\ req[t] \in Requests
    /\ IsGet(t) => pc[t] # "record" /\ (pc[t] = "check" \/ found[t])

\* The data race of the proxy's threads ends them all.
CrashInv == Crashed => \A t \in Thread : pc[t] = "crashed"

LockInv == \A t \in Thread : pc[t] \in Holding => locks[K(t)] = "held"

\* Every master key in use is older than the next one.
FreshInv ==
  /\ nextKey > 1
  /\ \A k \in Key : masterKeys[k] < nextKey /\ db[k].mk < nextKey
  /\ \A c \in creates : c.mk < nextKey

\* A known key has a master key and a value, of the recorded size unless its holder
\* is about to record it.
KeyInv ==
  /\ \A k \in keySet : masterKeys[k] # 0
  /\ \A t \in Thread : pc[t] \in Busy \ {"check"} /\ found[t] => K(t) \in keySet
  /\ \A k \in Key : masterKeys[k] # 0 =>
       /\ written[k] \in Value
       /\ \/ valueSizes[k] = Size[written[k]]
          \/ \E t \in Thread : Holds(t, k) /\ pc[t] = "record"

\* The entry under way leads from an older master key to the current one; the
\* old blocks it can meet encode the value a GET is to return.
RekeyInv ==
  \A t \in Thread : Rekeyed(t) =>
    /\ entry[t].new = masterKeys[K(t)] /\ entry[t].old < entry[t].new
    /\ ~IsGet(t) => written[K(t)] = req[t].val
    /\ found[t] => entry[t].old # 0
    /\ IsGet(t) =>
         /\ db[K(t)].mk = entry[t].old => Encodes(db[K(t)], K(t))
         /\ \A c \in creates : c.key = K(t) /\ c.mk = entry[t].old =>
                               c.val = written[K(t)]

\* A create under the current master key carries the current value.
CreateInv ==
  \A c \in creates : c.mk = masterKeys[c.key] => c.val = written[c.key]

\* The server works for waiting threads only, and towards the current block.
JobInv ==
  \A t \in Thread :
    /\ job[t] # "none" => pc[t] = "wait" /\ found[t]
    /\ job[t] \in {"decrypted", "stored"} =>
         snap[t] = [mk |-> entry[t].new, val |-> Carry(written[K(t)])]

IndInv ==
  /\ RequestInv /\ CrashInv /\ LockInv /\ LockExclusion
  /\ ~Crashed => /\ FreshInv /\ KeyInv /\ RekeyInv /\ CreateInv /\ JobInv
                 /\ BlockIsCurrent /\ AnswersAreCurrent

\* Every request ends: it is answered, aborted or thrown out, whatever the server
\* does; no thread waits for a lock or for a lost answer.
RequestsEnd ==
  \A t \in Thread :
    pc[t] = "check" ~> pc[t] \in {"idle", "leaked", "crashed"}
=============================================================================
