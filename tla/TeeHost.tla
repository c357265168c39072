------------------------------- MODULE TeeHost -------------------------------
(***************************************************************************)
(* ORTOA-TEE's untrusted host: the workers that serve RPC.access, the      *)
(* enclave they call and the Redis database they read and write without    *)
(* any lock.                                                               *)
(*                                                                         *)
(* A ciphertext is the value it decrypts to and its length in AES blocks   *)
(* (TeeEngine models what is inside).  The EDL file gives access_data an   *)
(* output buffer as long as the ciphertext read from Redis.  A longer      *)
(* result is written past its end, into the enclave heap all the workers   *)
(* share, and comes back torn: its end is whatever the host's buffer held. *)
(* From the moment that heap is damaged a call may return anything, end    *)
(* the enclave, or not return.                                             *)
(***************************************************************************)
EXTENDS Integers

CONSTANTS
  Client,         \* connections, each served by a worker of its own
  Key, Value,
  Blocks,         \* Blocks[v]: AES blocks of a ciphertext of v
  Loaded,         \* the keys initDB stored
  InitialValue,   \* their value
  DummyValue,     \* what a GET carries; nothing reads it
  BUFFER,         \* blocks of the 4096-byte buffers; no longer value is modelled
  REQUESTS,       \* bound: requests per client
  NoValue, Torn, Garbage   \* nothing stored; undecipherable; deciphered by accident

ASSUME TeeHostAssumption ==
  /\ BUFFER \in Nat \ {0}
  /\ Blocks \in [Value -> 1..BUFFER]
  /\ Loaded \subseteq Key
  /\ InitialValue \in Value /\ DummyValue \in Value
  /\ REQUESTS \in Nat
  /\ {NoValue, Torn, Garbage} \cap Value = {}
  /\ NoValue # Torn /\ NoValue # Garbage /\ Torn # Garbage

VARIABLES
  redis,       \* the database
  enclaveUp,   \* FALSE once code in the enclave called abort()
  heapSound,   \* FALSE once a result written past its buffer damaged the enclave's heap
  pc, req,     \* each worker: where it is in access, and the request it serves
  rd, out,     \* rd_value; the result, in the enclave's buffer and then in the host's
  ans,         \* what the last request of the connection was answered
  left,        \* requests the client has left
  seen,        \* history: the key's value at the call and those other requests stored since
  suspect      \* history: keys with a result longer than their ciphertext, or copied
               \* out of a damaged heap

vars == <<redis, enclaveUp, heapSound, pc, req, rd, out, ans, left, seen, suspect>>

Cipher(v) == [val |-> v, blocks |-> Blocks[v]]

Missing == [val |-> NoValue, blocks |-> 0]

Ciphers == [val : Value \union {NoValue, Torn, Garbage}, blocks : 0..BUFFER]

Requests ==
  [op : {"GET"}, key : Key, val : {DummyValue}] \union [op : {"PUT"}, key : Key, val : Value]

NoRequest == [op |-> "none", key |-> CHOOSE k \in Key : TRUE, val |-> InitialValue]

K(c) == req[c].key

Init ==
  /\ redis = [k \in Key |-> IF k \in Loaded THEN Cipher(InitialValue) ELSE Missing]
  /\ enclaveUp = TRUE
  /\ heapSound = TRUE
  /\ pc = [c \in Client |-> "idle"]
  /\ req = [c \in Client |-> NoRequest]
  /\ rd = [c \in Client |-> Missing]
  /\ out = [c \in Client |-> Missing]
  /\ ans = [c \in Client |-> Missing]
  /\ left = [c \in Client |-> REQUESTS]
  /\ seen = [c \in Client |-> {}]
  /\ suspect = {}

\* access returns or throws: its locals are gone.
Returns(c, next) ==
  /\ pc' = [pc EXCEPT ![c] = next]
  /\ rd' = [rd EXCEPT ![c] = Missing]
  /\ out' = [out EXCEPT ![c] = Missing]

(***************************************************************************)
(* RPCHandler::access                                                      *)
(***************************************************************************)
\* A call arrives on a connection.
Request(c) ==
  /\ pc[c] = "idle" /\ left[c] > 0
  /\ \E r \in Requests :
       /\ req' = [req EXCEPT ![c] = r]
       /\ seen' = [seen EXCEPT ![c] = {redis[r.key].val}]
  /\ left' = [left EXCEPT ![c] = @ - 1]
  /\ pc' = [pc EXCEPT ![c] = "get"]
  /\ ans' = [ans EXCEPT ![c] = Missing]
  /\ UNCHANGED <<redis, enclaveUp, heapSound, rd, out, suspect>>

\* Mutant: the read misses.
StorageGetMisses(c) ==
  /\ pc[c] = "get"
  /\ rd' = [rd EXCEPT ![c] = Missing]
  /\ pc' = [pc EXCEPT ![c] = "ecall"]
  /\ UNCHANGED <<redis, enclaveUp, heapSound, req, out, ans, left, seen, suspect>>

\* storage_server->get: a key that is not there reads as the empty string.
StorageGet(c) ==
  /\ pc[c] = "get"
  /\ rd' = [rd EXCEPT ![c] = redis[K(c)]]
  /\ pc' = [pc EXCEPT ![c] = "ecall"]
  /\ UNCHANGED <<redis, enclaveUp, heapSound, req, out, ans, left, seen, suspect>>

\* Mutant: a GET re-encrypts the value sent along, as a PUT does.
EnclaveInputUpdate(c) == Cipher(req[c].val)

\* What access_data decrypts: v_old for a GET, v_new for a PUT.
EnclaveInput(c) == IF req[c].op = "GET" THEN rd[c] ELSE Cipher(req[c].val)

\* decrypt aborts on a ciphertext that is empty; a torn one is refused or, when
\* its last byte happens to look like padding, deciphered to garbage of any length.
Decrypts(in) ==
  CASE in.val = NoValue -> {}
    [] in.val = Torn -> [val : {Garbage}, blocks : (1..BUFFER) \cap (1..(in.blocks + 1))]
    [] OTHER -> {in}

CanAbort(in) == in.val \in {NoValue, Torn}

\* What comes out of a damaged heap: another worker's result, or bytes of any kind.
Anything == {Cipher(v) : v \in Value} \union [val : {Torn, Garbage}, blocks : 1..BUFFER]

\* access_data has written its result.  One longer than the buffer damages the heap,
\* unless it ends in the padding of the allocation.  What a call writes into a heap
\* that is damaged already does not matter.
Ecall(c) ==
  /\ pc[c] = "ecall" /\ enclaveUp
  /\ \E cipher \in IF heapSound THEN Decrypts(EnclaveInput(c)) ELSE {Missing} :
       /\ out' = [out EXCEPT ![c] = cipher]
       /\ heapSound' \in IF cipher.blocks > rd[c].blocks THEN {heapSound, FALSE} ELSE {heapSound}
  /\ pc' = [pc EXCEPT ![c] = "copy"]
  /\ UNCHANGED <<redis, enclaveUp, req, rd, ans, left, seen, suspect>>

\* Mutant: a result as long as the buffer is torn too.
CopyOutStrict(c, cipher) ==
  IF cipher.blocks < rd[c].blocks THEN cipher
  ELSE [val |-> Torn, blocks |-> cipher.blocks]

\* The result as the host finds it in its buffer: only rd_value.length() bytes of
\* it are copied out of the enclave.
CopyOut(c, cipher) ==
  IF cipher.blocks <= rd[c].blocks THEN cipher
  ELSE [val |-> Torn, blocks |-> cipher.blocks]

\* The call returns OE_OK: the result is copied out of the enclave, or what the damaged
\* heap has in its place.
CopyBack(c) ==
  /\ pc[c] = "copy"
  /\ \E cipher \in IF heapSound THEN {out[c]} ELSE Anything :
       out' = [out EXCEPT ![c] = CopyOut(c, cipher)]
  /\ suspect' = IF heapSound /\ out[c].blocks <= rd[c].blocks THEN suspect
                ELSE suspect \union {K(c)}
  /\ pc' = [pc EXCEPT ![c] = "put"]
  /\ UNCHANGED <<redis, enclaveUp, heapSound, req, rd, ans, left, seen>>

\* handle_errors calls abort() in the enclave, or some worker trips over the damaged
\* heap: the enclave is gone for good, the call fails and the answer stays empty.
EcallAborts(c) ==
  /\ pc[c] \in {"ecall", "copy"} /\ enclaveUp
  /\ ~heapSound \/ (pc[c] = "ecall" /\ CanAbort(EnclaveInput(c)))
  /\ enclaveUp' = FALSE
  /\ Returns(c, "idle")
  /\ UNCHANGED <<redis, heapSound, req, ans, left, seen, suspect>>

\* The enclave was gone before the call, or went while it was served.
EcallFails(c) ==
  /\ pc[c] \in {"ecall", "copy"} /\ ~enclaveUp
  /\ Returns(c, "idle")
  /\ UNCHANGED <<redis, enclaveUp, heapSound, req, ans, left, seen, suspect>>

\* Mutant: the worker starts over instead of answering.
StoragePutRetries(c) ==
  /\ pc[c] = "put"
  /\ redis' = [redis EXCEPT ![K(c)] = out[c]]
  /\ seen' = [d \in Client |-> IF d # c /\ K(d) = K(c) THEN seen[d] \union {out[c].val}
                              ELSE seen[d]]
  /\ pc' = [pc EXCEPT ![c] = "get"]
  /\ UNCHANGED <<enclaveUp, heapSound, req, rd, out, ans, left, suspect>>

\* storage_server->put, whatever others have put since the get, and the answer.
StoragePut(c) ==
  /\ pc[c] = "put"
  /\ redis' = [redis EXCEPT ![K(c)] = out[c]]
  /\ ans' = [ans EXCEPT ![c] = out[c]]
  /\ seen' = [d \in Client |-> IF d # c /\ K(d) = K(c) THEN seen[d] \union {out[c].val}
                              ELSE seen[d]]
  /\ Returns(c, "idle")
  /\ UNCHANGED <<enclaveUp, heapSound, req, left, suspect>>

\* Redis is unreachable: the exception ends the call, and with it the client.
StorageThrows(c) ==
  /\ pc[c] \in {"get", "put"}
  /\ Returns(c, "failed")
  /\ UNCHANGED <<redis, enclaveUp, heapSound, req, ans, left, seen, suspect>>

Done ==
  /\ \A c \in Client : pc[c] = "failed" \/ (pc[c] = "idle" /\ left[c] = 0)
  /\ UNCHANGED vars

Work(c) ==
  \/ StorageGet(c) \/ Ecall(c) \/ CopyBack(c) \/ EcallAborts(c) \/ EcallFails(c)
  \/ StoragePut(c) \/ StorageThrows(c)

Next == (\E c \in Client : Request(c) \/ Work(c)) \/ Done

\* The host's workers are scheduled, and the enclave returns as long as its heap is
\* sound; clients need not send anything.
Spec ==
  /\ Init /\ [][Next]_vars
  /\ \A c \in Client : WF_vars((pc[c] \in {"ecall", "copy"} => heapSound) /\ Work(c))

(***************************************************************************)
(* Properties                                                              *)
(***************************************************************************)
\* Every variable keeps its type.
TypeOK ==
  /\ redis \in [Key -> Ciphers]
  /\ enclaveUp \in BOOLEAN /\ heapSound \in BOOLEAN
  /\ pc \in [Client -> {"idle", "get", "ecall", "copy", "put", "failed"}]
  /\ req \in [Client -> Requests \union {NoRequest}]
  /\ rd \in [Client -> Ciphers] /\ out \in [Client -> Ciphers]
  /\ ans \in [Client -> Ciphers]
  /\ left \in [Client -> 0..REQUESTS]
  /\ seen \in [Client -> SUBSET (Value \union {NoValue, Torn, Garbage})]
  /\ suspect \subseteq Key

\* A GET is answered with a value its key held at some moment between the call and
\* the answer, however the other workers' reads and writes interleave; unless its
\* key is suspect, or the enclave is gone and the answer is empty.
AnswerWasCurrent ==
  \A c \in Client :
    pc[c] = "idle" /\ req[c].op = "GET" /\ ans[c] # Missing =>
      ans[c].val \in seen[c] \/ K(c) \in suspect

\* What an overflow spoils: a loaded key holds a ciphertext of some client's value
\* unless a call on that key outgrew its ciphertext or came back from a damaged heap.
\* Calls under way when the heap is damaged by another worker are among these; what
\* had left the enclave before that, and the keys nobody asks for, stay whole.
DamageIsLocal ==
  \A k \in Loaded \ suspect : redis[k].val \in Value /\ redis[k] = Cipher(redis[k].val)

\* What it takes to damage the enclave: a PUT of a longer ciphertext than its key had,
\* or a call on a suspect key, damages the heap; and only on a damaged heap does a
\* call on a loaded key that is not suspect take the enclave down.
EnclaveSurvives ==
  [][/\ heapSound /\ ~heapSound' =>
          \E c \in Client :
            /\ pc[c] = "ecall" /\ pc'[c] = "copy"
            /\ \/ K(c) \in suspect
               \/ req[c].op = "PUT" /\ Blocks[req[c].val] > rd[c].blocks
     /\ enclaveUp /\ ~enclaveUp' =>
          \/ ~heapSound
          \/ \E c \in Client : /\ pc[c] = "ecall" /\ pc'[c] = "idle"
                               /\ K(c) \notin Loaded \/ K(c) \in suspect]_vars

\* Once the enclave is gone the database is left as it is, but for results it had
\* already computed: failed calls are not written back.
FrozenAfterAbort ==
  [][~enclaveUp /\ (\A c \in Client : pc[c] \notin {"copy", "put"}) => redis' = redis]_vars

\* Every call is answered, with a value or empty, or ends in an exception, unless the
\* enclave's heap is damaged.
RequestsEnd ==
  \A c \in Client : pc[c] = "get" ~> pc[c] \in {"idle", "failed"} \/ ~heapSound

\* A GET writes back, under its key, the value that is there, unless another request
\* stored one while it was served or the key is suspect.
GetKeepsUnlessOverlap ==
  [][\A c \in Client : pc[c] = "put" /\ pc'[c] = "idle" /\ req[c].op = "GET" =>
       \/ redis'[K(c)].val = redis[K(c)].val
       \/ seen[c] # {redis[K(c)].val} \/ K(c) \in suspect]_vars

\* A GET leaves the value of its key as it is.
GetKeepsValue ==
  [][\A c \in Client : pc[c] = "put" /\ pc'[c] = "idle" /\ req[c].op = "GET" =>
       redis'[K(c)].val = redis[K(c)].val]_vars
=============================================================================
