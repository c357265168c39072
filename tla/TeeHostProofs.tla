---------------------------- MODULE TeeHostProofs ----------------------------
(***************************************************************************)
(* Proofs about TeeHost for any number of clients, keys, values and        *)
(* requests, and any length of the buffers.                                *)
(***************************************************************************)
EXTENDS TeeHost, TLAPS

Serving(c) == pc[c] \in {"get", "ecall", "copy", "put"}

\* A worker in access serves a request.
ServingInv == \A c \in Client : Serving(c) => req[c] \in Requests

TypeInv == TypeOK /\ ServingInv

Proper(x) == x.val \in Value /\ x = Cipher(x.val)

\* The content of a key that is not suspect.
Sound(k, x) == IF k \in Loaded THEN Proper(x) ELSE x = Missing

\* A result that fits its buffer, as long as the heap is sound.
Fits(c) == heapSound /\ out[c].blocks <= rd[c].blocks

\* The database and the workers' copies of such keys.
SoundInv ==
  /\ \A k \in Key \ suspect : Sound(k, redis[k])
  /\ \A c \in Client :
       /\ pc[c] \in {"ecall", "copy", "put"} /\ K(c) \notin suspect => Sound(K(c), rd[c])
       /\ (pc[c] = "copy" /\ Fits(c)) \/ pc[c] = "put" =>
            K(c) \in suspect \/ (K(c) \in Loaded /\ Proper(out[c]))

\* What a worker has read was there during the request, and so is what is there now;
\* a GET's result has the value that was read.
SeenInv ==
  \A c \in Client :
    /\ Serving(c) => redis[K(c)].val \in seen[c] /\ ans[c] = Missing
    /\ pc[c] \in {"ecall", "copy", "put"} => rd[c].val \in seen[c]
    /\ ((pc[c] = "copy" /\ Fits(c)) \/ pc[c] = "put") /\ req[c].op = "GET" /\ K(c) \notin suspect
         => out[c].val = rd[c].val

HostInv == SoundInv /\ SeenInv /\ AnswerWasCurrent

(***************************************************************************)
(* Types                                                                   *)
(***************************************************************************)
\* A ciphertext of a value is a ciphertext.
LEMMA CipherType == \A v \in Value : Cipher(v) \in Ciphers /\ Proper(Cipher(v))
BY TeeHostAssumption DEF Cipher, Ciphers, Proper

\* What the enclave decrypts and the host finds has the type of a ciphertext.
LEMMA OutTypes ==
  ASSUME TypeInv, NEW c \in Client
  PROVE  /\ pc[c] = "ecall" => /\ EnclaveInput(c) \in Ciphers
                               /\ Decrypts(EnclaveInput(c)) \subseteq Ciphers
         /\ Anything \subseteq Ciphers
         /\ \A x \in Ciphers : CopyOut(c, x) \in Ciphers
<1>1. pc[c] = "ecall" => req[c] \in Requests /\ rd[c] \in Ciphers
  BY DEF TypeInv, TypeOK, ServingInv, Serving
<1>2. pc[c] = "ecall" => EnclaveInput(c) \in Ciphers
  BY <1>1, CipherType, TeeHostAssumption DEF EnclaveInput, Requests
<1>3. ASSUME NEW in \in Ciphers PROVE Decrypts(in) \subseteq Ciphers
  BY <1>3, TeeHostAssumption DEF Decrypts, Ciphers
<1>4. ASSUME NEW x \in Ciphers PROVE CopyOut(c, x) \in Ciphers
  BY DEF CopyOut, Ciphers
<1>5. Anything \subseteq Ciphers
  BY CipherType, TeeHostAssumption DEF Anything, Ciphers
<1> QED
  BY <1>2, <1>3, <1>4, <1>5

\* The initial state is typed.
LEMMA TypeInit == Init => TypeInv
BY TeeHostAssumption, CipherType
   DEF Init, TypeInv, TypeOK, ServingInv, Serving, Missing, Ciphers

\* Every step keeps the types.
LEMMA TypeStep == TypeInv /\ [Next]_vars => TypeInv'
<1> SUFFICES ASSUME TypeInv, [Next]_vars PROVE TypeInv'
  OBVIOUS
<1>0. Missing \in Ciphers
  BY TeeHostAssumption DEF Missing, Ciphers
<1>1. ASSUME NEW c \in Client, Request(c) PROVE TypeInv'
  <2>1. PICK r \in Requests : /\ req' = [req EXCEPT ![c] = r]
                              /\ seen' = [seen EXCEPT ![c] = {redis[r.key].val}]
    BY <1>1 DEF Request
  <2>2. redis[r.key].val \in Value \union {NoValue, Torn, Garbage}
    BY TeeHostAssumption DEF TypeInv, TypeOK, Requests, Ciphers
  <2>3. left' \in [Client -> 0..REQUESTS]
    BY <1>1, TeeHostAssumption DEF Request, TypeInv, TypeOK
  <2> QED
    BY <1>0, <1>1, <2>1, <2>2, <2>3 DEF Request, TypeInv, TypeOK, ServingInv, Serving
<1>2. ASSUME NEW c \in Client, StorageGet(c) PROVE TypeInv'
  BY <1>2 DEF StorageGet, TypeInv, TypeOK, ServingInv, Serving, K, Requests
<1>3. ASSUME NEW c \in Client, Ecall(c) PROVE TypeInv'
  <2>1. PICK x \in IF heapSound THEN Decrypts(EnclaveInput(c)) ELSE {Missing} :
          /\ out' = [out EXCEPT ![c] = x]
          /\ heapSound' \in IF x.blocks > rd[c].blocks THEN {heapSound, FALSE} ELSE {heapSound}
    BY <1>3 DEF Ecall
  <2>2. x \in Ciphers
    BY <1>0, <1>3, <2>1, OutTypes DEF Ecall
  <2>3. heapSound' \in BOOLEAN
    BY <2>1 DEF TypeInv, TypeOK
  <2> QED
    BY <1>3, <2>1, <2>2, <2>3 DEF Ecall, TypeInv, TypeOK, ServingInv, Serving
<1>4. ASSUME NEW c \in Client, CopyBack(c) PROVE TypeInv'
  <2>1. K(c) \in Key
    BY <1>4 DEF CopyBack, TypeInv, ServingInv, Serving, K, Requests
  <2>2. PICK x \in IF heapSound THEN {out[c]} ELSE Anything :
          out' = [out EXCEPT ![c] = CopyOut(c, x)]
    BY <1>4 DEF CopyBack
  <2>3. out[c] \in Ciphers
    BY DEF TypeInv, TypeOK
  <2>4. CopyOut(c, x) \in Ciphers
    BY <2>2, <2>3, OutTypes
  <2>5. suspect' \subseteq Key
    BY <1>4, <2>1 DEF CopyBack, TypeInv, TypeOK
  <2> QED
    BY <1>4, <2>2, <2>4, <2>5 DEF CopyBack, TypeInv, TypeOK, ServingInv, Serving
<1>5. ASSUME NEW c \in Client, EcallAborts(c) \/ EcallFails(c) PROVE TypeInv'
  BY <1>0, <1>5 DEF EcallAborts, EcallFails, Returns, TypeInv, TypeOK, ServingInv, Serving
<1>6. ASSUME NEW c \in Client, StoragePut(c) PROVE TypeInv'
  <2>1. out[c] \in Ciphers /\ out[c].val \in Value \union {NoValue, Torn, Garbage}
    BY DEF TypeInv, TypeOK, Ciphers
  <2> QED
    BY <1>0, <1>6, <2>1 DEF StoragePut, Returns, TypeInv, TypeOK, ServingInv, Serving
<1>7. ASSUME NEW c \in Client, StorageThrows(c) PROVE TypeInv'
  BY <1>0, <1>7 DEF StorageThrows, Returns, TypeInv, TypeOK, ServingInv, Serving
<1>8. CASE UNCHANGED vars
  BY <1>8 DEF vars, TypeInv, TypeOK, ServingInv, Serving
<1> QED
  BY <1>1, <1>2, <1>3, <1>4, <1>5, <1>6, <1>7, <1>8 DEF Next, Work, Done

\* Every variable keeps its type, for any clients, keys, values and lengths.
THEOREM TypeCorrect == Spec => []TypeOK
<1>1. TypeInv => TypeOK
  BY DEF TypeInv
<1> QED
  BY <1>1, TypeInit, TypeStep, PTL DEF Spec

(***************************************************************************)
(* Soundness                                                               *)
(***************************************************************************)
\* A key a request names is a key.
LEMMA ServedKey ==
  ASSUME TypeInv, NEW c \in Client, Serving(c)
  PROVE  K(c) \in Key /\ req[c].val \in Value
BY TeeHostAssumption DEF TypeInv, ServingInv, Requests, K

\* The initial database is sound.
LEMMA HostInit == Init => HostInv
BY TeeHostAssumption, CipherType
   DEF Init, HostInv, SoundInv, SeenInv, AnswerWasCurrent, Sound, Serving

\* The enclave's result for a sound key, if it fits.
LEMMA SoundResult ==
  ASSUME TypeInv, HostInv, NEW c \in Client, pc[c] = "ecall", K(c) \notin suspect,
         NEW x \in Decrypts(EnclaveInput(c)), x.blocks <= rd[c].blocks
  PROVE  /\ K(c) \in Loaded /\ Proper(x)
         /\ req[c].op = "GET" => x = rd[c]
<1>1. Sound(K(c), rd[c]) /\ rd[c] \in Ciphers
  BY DEF HostInv, SoundInv, TypeInv, TypeOK
<1>2. req[c].val \in Value /\ Cipher(req[c].val) \in Ciphers /\ Proper(Cipher(req[c].val))
  BY ServedKey, CipherType DEF Serving
<1>3. ASSUME NEW y, Proper(y) PROVE Decrypts(y) = {y}
  BY <1>3, TeeHostAssumption DEF Decrypts, Proper
<1>6. CASE req[c].op = "GET"
  <2>1. EnclaveInput(c) = rd[c]
    BY <1>6 DEF EnclaveInput
  <2>2. rd[c] # Missing
    BY <2>1 DEF Decrypts, Missing
  <2>3. K(c) \in Loaded /\ Proper(rd[c])
    BY <1>1, <2>2 DEF Sound
  <2> QED
    BY <1>3, <2>1, <2>3
<1>7. CASE req[c].op # "GET"
  <2>1. x = Cipher(req[c].val)
    BY <1>2, <1>3, <1>7 DEF EnclaveInput
  <2>2. x.blocks \in Nat /\ x.blocks > 0
    BY <1>2, <2>1, TeeHostAssumption DEF Cipher
  <2>3. rd[c] # Missing
    BY <2>2 DEF Missing
  <2> QED
    BY <1>1, <1>2, <1>7, <2>1, <2>3 DEF Sound
<1> QED
  BY <1>6, <1>7

\* A call that returns or throws without touching the database, the requests and the
\* answers keeps the invariant.
LEMMA HostFrame ==
  ASSUME TypeInv, HostInv, NEW c \in Client, NEW next \in {"idle", "failed"},
         pc[c] \in {"get", "ecall", "copy", "put"}, Returns(c, next),
         UNCHANGED <<redis, heapSound, req, ans, seen, suspect>>
  PROVE  HostInv'
<1>1. \A d \in Client : Serving(d)' => d # c
  BY DEF Serving, Returns, TypeInv, TypeOK
<1>2. \A d \in Client : d # c => pc'[d] = pc[d] /\ rd'[d] = rd[d] /\ out'[d] = out[d]
  BY DEF Returns, TypeInv, TypeOK
<1>3. SoundInv'
  BY <1>1, <1>2 DEF HostInv, SoundInv, Sound, Serving, Fits, K
<1>4. SeenInv'
  BY <1>1, <1>2 DEF HostInv, SeenInv, Serving, Fits, K
<1>5. AnswerWasCurrent'
  BY <1>2 DEF HostInv, SeenInv, Serving, AnswerWasCurrent, K
<1> QED
  BY <1>3, <1>4, <1>5 DEF HostInv

\* Every step keeps the invariant.
LEMMA HostStep == TypeInv /\ HostInv /\ [Next]_vars => HostInv'
<1> SUFFICES ASSUME TypeInv, HostInv, [Next]_vars PROVE HostInv'
  OBVIOUS
<1>1. ASSUME NEW c \in Client, Request(c) PROVE HostInv'
  <2>1. PICK r \in Requests : /\ req' = [req EXCEPT ![c] = r]
                              /\ seen' = [seen EXCEPT ![c] = {redis[r.key].val}]
    BY <1>1 DEF Request
  <2>2. /\ pc' = [pc EXCEPT ![c] = "get"] /\ ans' = [ans EXCEPT ![c] = Missing]
        /\ UNCHANGED <<redis, heapSound, rd, out, suspect>>
    BY <1>1 DEF Request
  <2>3. /\ pc'[c] = "get" /\ req'[c] = r /\ ans'[c] = Missing /\ seen'[c] = {redis[r.key].val}
        /\ \A d \in Client : d # c =>
             /\ pc'[d] = pc[d] /\ req'[d] = req[d] /\ ans'[d] = ans[d] /\ seen'[d] = seen[d]
    BY <2>1, <2>2 DEF TypeInv, TypeOK
  <2>4. SoundInv'
    BY <2>2, <2>3 DEF HostInv, SoundInv, Sound, Fits, K
  <2>5. SeenInv'
    BY <2>2, <2>3 DEF HostInv, SeenInv, Serving, Fits, K
  <2>6. AnswerWasCurrent'
    BY <2>2, <2>3 DEF HostInv, AnswerWasCurrent, K
  <2> QED
    BY <2>4, <2>5, <2>6 DEF HostInv
<1>2. ASSUME NEW c \in Client, StorageGet(c) PROVE HostInv'
  <2>1. /\ pc[c] = "get" /\ pc'[c] = "ecall" /\ rd'[c] = redis[K(c)]
        /\ \A d \in Client : d # c => pc'[d] = pc[d] /\ rd'[d] = rd[d]
        /\ UNCHANGED <<redis, heapSound, req, out, ans, seen, suspect>>
    BY <1>2 DEF StorageGet, TypeInv, TypeOK
  <2>2. K(c) \in Key
    BY <2>1, ServedKey DEF Serving
  <2>3. SoundInv'
    BY <2>1, <2>2 DEF HostInv, SoundInv, Sound, Fits, K
  <2>4. SeenInv'
    BY <2>1 DEF HostInv, SeenInv, Serving, Fits, K
  <2>5. AnswerWasCurrent'
    BY <2>1 DEF HostInv, AnswerWasCurrent, K
  <2> QED
    BY <2>3, <2>4, <2>5 DEF HostInv
<1>3. ASSUME NEW c \in Client, Ecall(c) PROVE HostInv'
  <2>1. PICK x \in IF heapSound THEN Decrypts(EnclaveInput(c)) ELSE {Missing} :
          /\ out' = [out EXCEPT ![c] = x]
          /\ heapSound' \in IF x.blocks > rd[c].blocks THEN {heapSound, FALSE} ELSE {heapSound}
    BY <1>3 DEF Ecall
  <2>2. /\ pc[c] = "ecall" /\ pc'[c] = "copy" /\ out'[c] = x
        /\ \A d \in Client : d # c => pc'[d] = pc[d] /\ out'[d] = out[d]
        /\ UNCHANGED <<redis, req, rd, ans, seen, suspect>>
    BY <1>3, <2>1 DEF Ecall, TypeInv, TypeOK
  <2>3. heapSound' => heapSound
    BY <2>1 DEF TypeInv, TypeOK
  <2>4. K(c) \notin suspect /\ Fits(c)' =>
          /\ K(c) \in Loaded /\ Proper(x)
          /\ req[c].op = "GET" => x.val = rd[c].val
    BY <2>1, <2>2, <2>3, SoundResult DEF Fits
  <2>5. \A d \in Client : d # c => (Fits(d)' => Fits(d))
    BY <2>2, <2>3 DEF Fits
  <2>6. SoundInv'
    BY <2>2, <2>4, <2>5 DEF HostInv, SoundInv, Sound, K
  <2>7. SeenInv'
    BY <2>2, <2>4, <2>5 DEF HostInv, SeenInv, Serving, K
  <2>8. AnswerWasCurrent'
    BY <2>2 DEF HostInv, AnswerWasCurrent, K
  <2> QED
    BY <2>6, <2>7, <2>8 DEF HostInv
<1>4. ASSUME NEW c \in Client, CopyBack(c) PROVE HostInv'
  <2>1. PICK x \in IF heapSound THEN {out[c]} ELSE Anything :
          out' = [out EXCEPT ![c] = CopyOut(c, x)]
    BY <1>4 DEF CopyBack
  <2>2. /\ pc[c] = "copy" /\ pc'[c] = "put" /\ out'[c] = CopyOut(c, x)
        /\ \A d \in Client : d # c => pc'[d] = pc[d] /\ out'[d] = out[d]
        /\ suspect \subseteq suspect'
        /\ UNCHANGED <<redis, heapSound, req, rd, ans, seen>>
    BY <1>4, <2>1 DEF CopyBack, TypeInv, TypeOK
  <2>3. K(c) \notin suspect' => K(c) \notin suspect /\ Fits(c) /\ out'[c] = out[c]
    BY <1>4, <2>1, <2>2 DEF CopyBack, CopyOut, Fits
  <2>4. SoundInv'
    BY <2>2, <2>3 DEF HostInv, SoundInv, Sound, Fits, K
  <2>5. SeenInv'
    BY <2>2, <2>3 DEF HostInv, SeenInv, Serving, Fits, K
  <2>6. AnswerWasCurrent'
    BY <2>2 DEF HostInv, AnswerWasCurrent, K
  <2> QED
    BY <2>4, <2>5, <2>6 DEF HostInv
<1>5. ASSUME NEW c \in Client, EcallAborts(c) \/ EcallFails(c) PROVE HostInv'
  BY <1>5, HostFrame DEF EcallAborts, EcallFails
<1>6. ASSUME NEW c \in Client, StoragePut(c) PROVE HostInv'
  <2>1. /\ pc[c] = "put" /\ pc'[c] = "idle" /\ ans'[c] = out[c] /\ seen'[c] = seen[c]
        /\ redis' = [redis EXCEPT ![K(c)] = out[c]]
        /\ \A d \in Client : d # c =>
             /\ pc'[d] = pc[d] /\ ans'[d] = ans[d] /\ seen[d] \subseteq seen'[d]
             /\ rd'[d] = rd[d] /\ out'[d] = out[d]
             /\ K(d) = K(c) => out[c].val \in seen'[d]
        /\ UNCHANGED <<heapSound, req, suspect>>
    BY <1>6 DEF StoragePut, Returns, TypeInv, TypeOK
  <2>2. K(c) \in Key
    BY <2>1, ServedKey DEF Serving
  <2>3. \A k \in Key : redis'[k] = IF k = K(c) THEN out[c] ELSE redis[k]
    BY <2>1, <2>2 DEF TypeInv, TypeOK
  <2>4. SoundInv'
    <3>1. ASSUME NEW k \in Key \ suspect PROVE Sound(k, redis'[k])
      BY <2>1, <2>3 DEF HostInv, SoundInv, Sound
    <3> QED
      BY <2>1, <3>1 DEF HostInv, SoundInv, Sound, Fits, K
  <2>5. SeenInv'
    <3>1. \A d \in Client : Serving(d) => K(d) \in Key
      BY ServedKey
    <3> QED
      BY <2>1, <2>3, <3>1 DEF HostInv, SeenInv, Serving, Fits, K
  <2>6. AnswerWasCurrent'
    <3> SUFFICES ASSUME NEW d \in Client, pc'[d] = "idle", req[d].op = "GET",
                        ans'[d] # Missing
                 PROVE  ans'[d].val \in seen'[d] \/ K(d) \in suspect
      BY <2>1 DEF AnswerWasCurrent, K
    <3>1. CASE d = c
      BY <2>1, <3>1 DEF HostInv, SeenInv
    <3>2. CASE d # c
      BY <2>1, <3>2 DEF HostInv, AnswerWasCurrent
    <3> QED
      BY <3>1, <3>2
  <2> QED
    BY <2>4, <2>5, <2>6 DEF HostInv
<1>7. ASSUME NEW c \in Client, StorageThrows(c) PROVE HostInv'
  BY <1>7, HostFrame DEF StorageThrows
<1>8. CASE UNCHANGED vars
  BY <1>8 DEF vars, HostInv, SoundInv, SeenInv, AnswerWasCurrent, Sound, Serving, Fits, K
<1> QED
  BY <1>1, <1>2, <1>3, <1>4, <1>5, <1>6, <1>7, <1>8 DEF Next, Work, Done

(***************************************************************************)
(* The theorems                                                            *)
(***************************************************************************)
\* The damage an overflow does to the enclave's shared heap reaches the database only
\* under keys with a call that outgrew its ciphertext or came back after the damage.
THEOREM DamageLocal == Spec => []DamageIsLocal
<1>1. HostInv => DamageIsLocal
  BY TeeHostAssumption DEF HostInv, SoundInv, DamageIsLocal, Sound, Proper
<1> QED
  BY <1>1, TypeInit, TypeStep, HostInit, HostStep, PTL DEF Spec

\* A GET's answer was the value of its key at some moment of the request.
THEOREM AnswersWereCurrent == Spec => []AnswerWasCurrent
<1>1. HostInv => AnswerWasCurrent
  BY DEF HostInv
<1> QED
  BY <1>1, TypeInit, TypeStep, HostInit, HostStep, PTL DEF Spec

\* The heap is damaged only by a PUT of a longer ciphertext or a call on a suspect key,
\* and calls on loaded keys that are not suspect end the enclave only through that heap.
THEOREM EnclaveOutlives == Spec => EnclaveSurvives
<1> DEFINE A == /\ heapSound /\ ~heapSound' =>
                     \E c \in Client :
                       /\ pc[c] = "ecall" /\ pc'[c] = "copy"
                       /\ \/ K(c) \in suspect
                          \/ req[c].op = "PUT" /\ Blocks[req[c].val] > rd[c].blocks
                /\ enclaveUp /\ ~enclaveUp' =>
                     \/ ~heapSound
                     \/ \E c \in Client : /\ pc[c] = "ecall" /\ pc'[c] = "idle"
                                          /\ K(c) \notin Loaded \/ K(c) \in suspect
<1>1. TypeInv /\ HostInv /\ [Next]_vars => [A]_vars
  <2> SUFFICES ASSUME TypeInv, HostInv, Next PROVE A
    BY DEF A
  <2>1. ASSUME heapSound, ~heapSound'
        PROVE  \E c \in Client :
                 /\ pc[c] = "ecall" /\ pc'[c] = "copy"
                 /\ \/ K(c) \in suspect
                    \/ req[c].op = "PUT" /\ Blocks[req[c].val] > rd[c].blocks
    <3>1. PICK c \in Client : Ecall(c)
      BY <2>1 DEF Next, Work, Request, StorageGet, CopyBack, EcallAborts, EcallFails,
             StoragePut, StorageThrows, Done, vars
    <3>2. PICK x \in Decrypts(EnclaveInput(c)) : x.blocks > rd[c].blocks
      BY <2>1, <3>1 DEF Ecall
    <3>3. pc[c] = "ecall" /\ pc'[c] = "copy"
      BY <3>1 DEF Ecall, TypeInv, TypeOK
    <3>4. ASSUME NEW y, Proper(y) PROVE Decrypts(y) = {y}
      BY <3>4, TeeHostAssumption DEF Decrypts, Proper
    <3>5. req[c] \in Requests /\ req[c].val \in Value
      BY <3>3, ServedKey DEF TypeInv, ServingInv, Serving
    <3>6. CASE req[c].op = "GET" /\ K(c) \notin suspect
      <4>1. Sound(K(c), rd[c]) /\ x \in Decrypts(rd[c]) /\ rd[c].blocks \in Nat
        BY <3>2, <3>3, <3>6 DEF HostInv, SoundInv, EnclaveInput, TypeInv, TypeOK, Ciphers
      <4>2. Decrypts(Missing) = {}
        BY TeeHostAssumption DEF Decrypts, Missing
      <4>3. x = rd[c]
        BY <3>4, <4>1, <4>2 DEF Sound
      <4> QED
        BY <3>2, <4>1, <4>3
    <3>7. CASE req[c].op # "GET"
      <4>1. x = Cipher(req[c].val) /\ req[c].op = "PUT"
        BY <3>2, <3>4, <3>5, <3>7, CipherType DEF EnclaveInput, Requests
      <4> QED
        BY <3>2, <3>3, <4>1 DEF Cipher
    <3> QED
      BY <3>3, <3>6, <3>7
  <2>2. ASSUME heapSound, enclaveUp, ~enclaveUp'
        PROVE  \E c \in Client : /\ pc[c] = "ecall" /\ pc'[c] = "idle"
                                 /\ K(c) \notin Loaded \/ K(c) \in suspect
    <3>1. PICK c \in Client : EcallAborts(c)
      BY <2>2 DEF Next, Work, Request, StorageGet, Ecall, CopyBack, EcallFails, StoragePut,
             StorageThrows, Done, vars
    <3>2. pc[c] = "ecall" /\ pc'[c] = "idle" /\ CanAbort(EnclaveInput(c))
      BY <2>2, <3>1 DEF EcallAborts, Returns, TypeInv, TypeOK
    <3>3. ~Proper(EnclaveInput(c))
      BY <3>2, TeeHostAssumption DEF CanAbort, Proper
    <3>4. req[c].val \in Value
      BY <3>2, ServedKey DEF Serving
    <3>5. EnclaveInput(c) = rd[c]
      BY <3>3, <3>4, CipherType DEF EnclaveInput
    <3>6. CASE K(c) \notin suspect
      BY <3>2, <3>3, <3>5, <3>6 DEF HostInv, SoundInv, Sound
    <3> QED
      BY <3>2, <3>6
  <2> QED
    BY <2>1, <2>2 DEF A
<1> QED
  BY <1>1, TypeInit, TypeStep, HostInit, HostStep, PTL DEF Spec, EnclaveSurvives

\* A GET that no other request on its key overlaps leaves the value as it is.
THEOREM GetsKeep == Spec => GetKeepsUnlessOverlap
<1> DEFINE A == \A c \in Client : pc[c] = "put" /\ pc'[c] = "idle" /\ req[c].op = "GET" =>
                  \/ redis'[K(c)].val = redis[K(c)].val
                  \/ seen[c] # {redis[K(c)].val} \/ K(c) \in suspect
<1>1. TypeInv /\ HostInv /\ [Next]_vars => [A]_vars
  <2> SUFFICES ASSUME TypeInv, HostInv, Next, NEW c \in Client, pc[c] = "put",
                      pc'[c] = "idle", req[c].op = "GET", K(c) \notin suspect,
                      seen[c] = {redis[K(c)].val}
               PROVE  redis'[K(c)].val = redis[K(c)].val
    OBVIOUS
  <2>1. StoragePut(c)
    <3>1. PICK d \in Client : Request(d) \/ Work(d)
      BY DEF Next, Done, vars
    <3>2. CASE Request(d) \/ StorageGet(d) \/ Ecall(d) \/ CopyBack(d)
      BY <3>2 DEF Request, StorageGet, Ecall, CopyBack, TypeInv, TypeOK
    <3>3. CASE EcallAborts(d) \/ EcallFails(d) \/ StoragePut(d) \/ StorageThrows(d)
      <4>1. d = c
        BY <3>3 DEF EcallAborts, EcallFails, StoragePut, StorageThrows, Returns, TypeInv, TypeOK
      <4> QED
        BY <3>3, <4>1 DEF EcallAborts, EcallFails, StorageThrows, Returns, TypeInv, TypeOK
    <3> QED
      BY <3>1, <3>2, <3>3 DEF Work
  <2>2. out[c].val = redis[K(c)].val
    BY DEF HostInv, SeenInv
  <2>3. K(c) \in Key
    BY ServedKey DEF Serving
  <2> QED
    BY <2>1, <2>2, <2>3 DEF StoragePut, TypeInv, TypeOK
<1> QED
  BY <1>1, TypeInit, TypeStep, HostInit, HostStep, PTL DEF Spec, GetKeepsUnlessOverlap

\* Failed enclave calls write nothing.
THEOREM DatabaseFrozen == Spec => FrozenAfterAbort
<1>1. [Next]_vars =>
        [~enclaveUp /\ (\A c \in Client : pc[c] \notin {"copy", "put"}) => redis' = redis]_vars
  BY DEF Next, Work, Request, StorageGet, Ecall, CopyBack, EcallAborts, EcallFails, StoragePut,
         StorageThrows, Done, vars
<1> QED
  BY <1>1, PTL DEF Spec, FrozenAfterAbort

(***************************************************************************)
(* When nothing is damaged and nothing is lost.  The database is loaded    *)
(* with every key and all values have ciphertexts of one length, as the    *)
(* generators of a single size write them; a GET then undoes a PUT only if *)
(* there are two clients.                                                  *)
(***************************************************************************)
Uniform == Loaded = Key /\ \A v, w \in Value : Blocks[v] = Blocks[w]

UniformInv ==
  /\ enclaveUp /\ heapSound /\ suspect = {}
  /\ \A c \in Client : pc[c] = "copy" => out[c].blocks <= rd[c].blocks

\* The enclave decrypts what it is given, and the result fits the buffer.
LEMMA UniformFits ==
  ASSUME Uniform, TypeInv, HostInv, UniformInv, NEW c \in Client, pc[c] = "ecall"
  PROVE  /\ ~CanAbort(EnclaveInput(c))
         /\ \A x \in Decrypts(EnclaveInput(c)) : x.blocks <= rd[c].blocks
<1>1. Proper(rd[c]) /\ req[c].val \in Value
  BY ServedKey DEF HostInv, SoundInv, Sound, Uniform, UniformInv, Serving
<1>2. Proper(EnclaveInput(c))
  BY <1>1, CipherType DEF EnclaveInput
<1>3. ~CanAbort(EnclaveInput(c)) /\ Decrypts(EnclaveInput(c)) = {EnclaveInput(c)}
  BY <1>2, TeeHostAssumption DEF Proper, CanAbort, Decrypts
<1>4. EnclaveInput(c).blocks = rd[c].blocks /\ rd[c].blocks \in Nat
  BY <1>1, <1>2, TeeHostAssumption DEF Proper, Cipher, Uniform
<1> QED
  BY <1>3, <1>4

\* No access aborts the enclave or damages its heap, and no key becomes suspect.
LEMMA UniformStep ==
  ASSUME Uniform, TypeInv, HostInv, UniformInv, [Next]_vars
  PROVE  UniformInv'
<1>1. ASSUME NEW c \in Client, Ecall(c) PROVE UniformInv'
  <2>1. PICK x \in Decrypts(EnclaveInput(c)) :
          /\ out' = [out EXCEPT ![c] = x]
          /\ heapSound' \in IF x.blocks > rd[c].blocks THEN {heapSound, FALSE} ELSE {heapSound}
    BY <1>1 DEF Ecall, UniformInv
  <2>2. x.blocks <= rd[c].blocks /\ heapSound'
    <3>1. x.blocks <= rd[c].blocks
      BY <1>1, UniformFits DEF Ecall
    <3>2. x.blocks \in Nat /\ rd[c].blocks \in Nat
      BY <1>1, OutTypes DEF Ecall, Ciphers, TypeInv, TypeOK
    <3>3. ~(x.blocks > rd[c].blocks)
      BY <3>1, <3>2
    <3>4. heapSound' = heapSound
      BY <2>1, <3>3, Zenon
    <3> QED
      BY <3>1, <3>4 DEF UniformInv
  <2>3. \A d \in Client : out'[d] = IF d = c THEN x ELSE out[d]
    BY <2>1 DEF TypeInv, TypeOK
  <2>4. \A d \in Client \ {c} : pc'[d] = pc[d]
    BY <1>1 DEF Ecall, TypeInv, TypeOK
  <2> QED
    BY <1>1, <2>2, <2>3, <2>4 DEF Ecall, UniformInv
<1>2. ASSUME NEW c \in Client PROVE ~EcallAborts(c)
  BY UniformFits DEF EcallAborts, UniformInv
<1>3. ASSUME NEW c \in Client, CopyBack(c) PROVE UniformInv'
  <2>1. suspect' = {} /\ enclaveUp' /\ heapSound'
    BY <1>3 DEF CopyBack, UniformInv
  <2>2. /\ pc'[c] = "put" /\ rd' = rd
        /\ \A d \in Client \ {c} : pc'[d] = pc[d] /\ out'[d] = out[d]
    BY <1>3 DEF CopyBack, TypeInv, TypeOK
  <2> QED
    BY <2>1, <2>2 DEF UniformInv
<1>4. ASSUME NEW c \in Client, Request(c) \/ StorageGet(c) \/ EcallFails(c) \/ StoragePut(c)
                               \/ StorageThrows(c)
      PROVE  UniformInv'
  <2>1. UNCHANGED <<enclaveUp, heapSound, suspect>>
    BY <1>4 DEF Request, StorageGet, EcallFails, StoragePut, StorageThrows
  <2>2. /\ pc'[c] # "copy"
        /\ \A d \in Client \ {c} : pc'[d] = pc[d] /\ out'[d] = out[d] /\ rd'[d] = rd[d]
    BY <1>4 DEF Request, StorageGet, EcallFails, StoragePut, StorageThrows, Returns, TypeInv, TypeOK
  <2> QED
    BY <2>1, <2>2 DEF UniformInv
<1>5. CASE UNCHANGED vars
  BY <1>5 DEF vars, UniformInv
<1> QED
  BY <1>1, <1>2, <1>3, <1>4, <1>5 DEF Next, Work, Done

\* With every key loaded and values of one length the enclave never aborts, its
\* heap is never damaged, and every key always holds a ciphertext of a value, for any number of clients whose accesses interleave
\* without a lock.
THEOREM UniformHostIntact ==
  ASSUME Uniform
  PROVE  Spec => [](enclaveUp /\ heapSound /\ \A k \in Key : Proper(redis[k]))
<1>1. Init => UniformInv
  BY DEF Init, UniformInv
<1>2. TypeInv /\ HostInv /\ UniformInv /\ [Next]_vars => UniformInv'
  BY UniformStep
<1>3. HostInv /\ UniformInv => enclaveUp /\ heapSound /\ \A k \in Key : Proper(redis[k])
  BY DEF HostInv, SoundInv, Sound, UniformInv, Uniform
<1> QED
  BY <1>1, <1>2, <1>3, TypeInit, TypeStep, HostInit, HostStep, PTL DEF Spec

\* What a lone client's request can have seen.
LoneInv == \A c \in Client : Serving(c) => seen[c] = {redis[K(c)].val}

\* What a lone client has read of a key is what the key holds until it writes it.
LEMMA LoneStep ==
  ASSUME \A c, d \in Client : c = d, TypeInv, LoneInv, [Next]_vars
  PROVE  LoneInv'
<1>1. ASSUME NEW c \in Client, Request(c) PROVE LoneInv'
  <2>1. PICK r \in Requests : /\ req' = [req EXCEPT ![c] = r]
                              /\ seen' = [seen EXCEPT ![c] = {redis[r.key].val}]
    BY <1>1 DEF Request
  <2>2. req'[c] = r /\ seen'[c] = {redis[r.key].val} /\ redis' = redis
    BY <1>1, <2>1 DEF Request, TypeInv, TypeOK
  <2> QED
    BY <2>2 DEF LoneInv, K
<1>2. ASSUME NEW c \in Client, StorageGet(c) \/ Ecall(c) \/ CopyBack(c) PROVE LoneInv'
  BY <1>2 DEF StorageGet, Ecall, CopyBack, LoneInv, Serving, K
<1>3. ASSUME NEW c \in Client, EcallAborts(c) \/ EcallFails(c) \/ StoragePut(c) \/ StorageThrows(c)
      PROVE  LoneInv'
  <2>1. pc'[c] \in {"idle", "failed"}
    BY <1>3 DEF EcallAborts, EcallFails, StoragePut, StorageThrows, Returns, TypeInv, TypeOK
  <2> QED
    BY <2>1 DEF LoneInv, Serving
<1>4. CASE UNCHANGED vars
  BY <1>4 DEF vars, LoneInv, Serving, K
<1> QED
  BY <1>1, <1>2, <1>3, <1>4 DEF Next, Work, Done

\* A lone client's GETs keep every value: the lost update GetKeepsValue is violated by takes
\* a second client, or a value that outgrew its ciphertext.
THEOREM LoneClientKeeps ==
  ASSUME Uniform, \A c, d \in Client : c = d
  PROVE  Spec => GetKeepsValue
<1> DEFINE Keeps == \A c \in Client : pc[c] = "put" /\ pc'[c] = "idle" /\ req[c].op = "GET" =>
                      redis'[K(c)].val = redis[K(c)].val
           Unless == \A c \in Client : pc[c] = "put" /\ pc'[c] = "idle" /\ req[c].op = "GET" =>
                      \/ redis'[K(c)].val = redis[K(c)].val
                      \/ seen[c] # {redis[K(c)].val} \/ K(c) \in suspect
<1>1. Init => UniformInv /\ LoneInv
  BY DEF Init, UniformInv, LoneInv, Serving
<1>2. TypeInv /\ HostInv /\ UniformInv /\ [Next]_vars => UniformInv'
  BY UniformStep
<1>3. TypeInv /\ LoneInv /\ [Next]_vars => LoneInv'
  BY LoneStep
<1>4. UniformInv /\ LoneInv /\ [Unless]_vars => [Keeps]_vars
  BY DEF UniformInv, LoneInv, Serving
<1>5. Spec => [][Unless]_vars
  BY GetsKeep DEF GetKeepsUnlessOverlap
<1> QED
  BY <1>1, <1>2, <1>3, <1>4, <1>5, TypeInit, TypeStep, HostInit, HostStep, PTL
  DEF Spec, GetKeepsValue
=============================================================================
