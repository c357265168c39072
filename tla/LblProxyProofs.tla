---------------------------- MODULE LblProxyProofs ----------------------------
(***************************************************************************)
(* Proofs about LblProxy, LblProxyKV and LblProxySave, for every number of *)
(* threads, keys, values, requests, quits, restarts and ends of the        *)
(* process, in either mode of connection.                                  *)
(*                                                                         *)
(* The argument has five stages: types; locks; the relation of the proxy's *)
(* maps to the server's db; the simulation of the key-value store that     *)
(* clients see; and, on top of the first two, the data file between two    *)
(* processes.                                                              *)
(***************************************************************************)
EXTENDS LblProxyKV, LblProxySave, TLAPS

(***************************************************************************)
(* Stage 1: types                                                          *)
(***************************************************************************)
TypeInv == TypeOK /\ RequestInv

\* Decoding yields a value or Garbled.
LEMMA CarryType == \A v : Carry(v) \in Value \union {Garbled}
BY DEF Carry

\* Returning to the client leaves every local well typed.
LEMMA ReturnType ==
  ASSUME TypeInv, NEW t \in Thread, Return(t),
         UNCHANGED <<maps, db, job, creates, serverUp, quits, restarts, nextKey, written>>,
         locks' \in [Key -> {"absent", "free", "held"}],
         accesses' \in Nat, aborted' \in Nat
  PROVE  TypeInv'
BY LblProxyAssumption
   DEF TypeInv, TypeOK, RequestInv, Return, NoEntry, NoBlock, Block, Busy, IsGet, maps

\* An exit of the server, by itself or by the operator, keeps the types.
LEMMA ServerExitsType ==
  ASSUME TypeInv, ServerExits, quits' \in 0..MAX_QUITS
  PROVE  TypeInv'
<1>1. PICK answered \in SUBSET {t \in Thread : job[t] = "stored"} :
        job' = [t \in Thread |-> IF job[t] = "none" \/ t \in answered THEN job[t]
                                 ELSE "broken"]
  BY DEF ServerExits
<1>2. job' \in [Thread -> {"none", "sent", "decrypted", "stored", "broken"}]
  BY <1>1 DEF TypeInv, TypeOK
<1>3. conn' \in [Thread -> {"closed", "open", "dead"}]
  BY DEF TypeInv, TypeOK, ServerExits
<1> QED
  BY <1>2, <1>3 DEF TypeInv, TypeOK, RequestInv, ServerExits, proxyVars, maps, IsGet

\* The types are kept by every step.
LEMMA TypeStep == TypeInv /\ [Next]_vars => TypeInv'
<1> SUFFICES ASSUME TypeInv, [Next]_vars PROVE TypeInv'
  OBVIOUS
<1> USE LblProxyAssumption
    DEF TypeInv, TypeOK, RequestInv, Requests, Block, Busy, K, IsGet, maps, proxyVars,
        threadVars, serverVars
<1>1. ASSUME NEW t \in Thread, Request(t) PROVE TypeInv'
  BY <1>1 DEF Request
<1>2. ASSUME NEW t \in Thread, RequestRefused(t) PROVE TypeInv'
  BY <1>2 DEF RequestRefused
<1>3. ASSUME NEW t \in Thread, Check(t) PROVE TypeInv'
  <2>1. CASE \E present \in Lookup(t) : (present \/ ~IsGet(t)) /\ Proceed(t, present)
    <3>1. Lookup(t) \subseteq BOOLEAN
      BY DEF Lookup
    <3> QED
      BY <1>3, <2>1, <3>1 DEF Check, Proceed
  <2>2. CASE Abort(t) /\ UNCHANGED locks
    <3>1. /\ UNCHANGED <<maps, db, job, creates, serverUp, quits, restarts, nextKey, written>>
          /\ UNCHANGED <<locks, accesses>> /\ aborted' = aborted + 1 /\ Return(t)
      BY <2>2 DEF Abort
    <3> QED
      BY <3>1, ReturnType
  <2> QED
    BY <1>3, <2>1, <2>2 DEF Check
<1>4. ASSUME NEW t \in Thread, TryLock(t) PROVE TypeInv'
  <2>0. locks' \in [Key -> {"absent", "free", "held"}]
    BY <1>4 DEF TryLock
  <2>1. CASE Acquire(t)
    BY <1>4, <2>0, <2>1 DEF TryLock, Acquire
  <2>2. CASE Abort(t)
    <3>1. /\ UNCHANGED <<maps, db, job, creates, serverUp, quits, restarts, nextKey, written>>
          /\ UNCHANGED accesses /\ aborted' = aborted + 1 /\ Return(t)
      BY <2>2 DEF Abort
    <3> QED
      BY <2>0, <3>1, ReturnType
  <2> QED
    BY <1>4, <2>1, <2>2 DEF TryLock
<1>5. ASSUME NEW t \in Thread, Construct(t) PROVE TypeInv'
  BY <1>5 DEF Construct, NowWritten
<1>6. ASSUME NEW t \in Thread, ConstructThrows(t) PROVE TypeInv'
  BY <1>6 DEF ConstructThrows
<1>7. ASSUME NEW t \in Thread, Record(t) PROVE TypeInv'
  <2>1. req[t].val \in Value /\ K(t) \in Key
    BY <1>7 DEF Record
  <2> QED
    BY <1>7, <2>1 DEF Record
<1>8. ASSUME NEW t \in Thread, SendCreate(t) PROVE TypeInv'
  BY <1>8 DEF SendCreate
<1>9. ASSUME NEW t \in Thread, SendAccess(t) PROVE TypeInv'
  BY <1>9 DEF SendAccess
<1>10. ASSUME NEW t \in Thread, SendThrows(t) PROVE TypeInv'
  BY <1>10 DEF SendThrows
<1>11. ASSUME NEW t \in Thread, Receive(t) PROVE TypeInv'
  BY <1>11 DEF Receive, ReadValueFromLabels
<1>12. ASSUME NEW t \in Thread, ReceiveThrows(t) PROVE TypeInv'
  BY <1>12 DEF ReceiveThrows
<1>13. ASSUME NEW t \in Thread, Release(t) PROVE TypeInv'
  <2>1. /\ UNCHANGED <<maps, db, job, creates, serverUp, quits, restarts, nextKey, written>>
        /\ accesses' = accesses + 1 /\ UNCHANGED aborted /\ Return(t)
        /\ locks' \in [Key -> {"absent", "free", "held"}]
    BY <1>13 DEF Release
  <2> QED
    BY <2>1, ReturnType
<1>14. ASSUME NEW t \in Thread, AccessDecrypt(t) PROVE TypeInv'
  BY <1>14, CarryType DEF AccessDecrypt, Reencrypt
<1>15. ASSUME NEW t \in Thread, AccessRip(t) PROVE TypeInv'
  BY <1>15, ServerExitsType DEF AccessRip
<1>16. ASSUME NEW t \in Thread, AccessStore(t) PROVE TypeInv'
  BY <1>16 DEF AccessStore
<1>17. ASSUME NEW c \in creates, ServeCreate(c) PROVE TypeInv'
  BY <1>17 DEF ServeCreate
<1>18. ASSUME RaceCrash PROVE TypeInv'
  BY <1>18 DEF RaceCrash
<1>19. ASSUME ServerQuit PROVE TypeInv'
  BY <1>19, ServerExitsType DEF ServerQuit
<1>20. ASSUME ServerRestart PROVE TypeInv'
  BY <1>20 DEF ServerRestart
<1>21. CASE UNCHANGED vars
  BY <1>21 DEF vars
<1> QED
  BY <1>1, <1>2, <1>3, <1>4, <1>5, <1>6, <1>7, <1>8, <1>9, <1>10, <1>11, <1>12,
     <1>13, <1>14, <1>15, <1>16, <1>17, <1>18, <1>19, <1>20, <1>21
  DEF Next, ThreadStep, ServeAccess, Done

\* The initial state has the types of the first stage.
LEMMA TypeInit == Init => TypeInv
BY LblProxyAssumption
   DEF Init, TypeInv, TypeOK, RequestInv, Block, NoBlock, NoEntry, Busy

\* Every variable of the proxy and the server keeps its type.
THEOREM TypeCorrect == Spec => []TypeOK
<1>1. TypeInv => TypeOK
  BY DEF TypeInv
<1> QED
  BY <1>1, TypeInit, TypeStep, PTL DEF Spec

(***************************************************************************)
(* Stage 2: locks                                                          *)
(***************************************************************************)
LockStage == CrashInv /\ LockInv /\ LockExclusion /\ LockAccounted

\* A step that changes no lock and no thread keeps what is known of the locks.
LEMMA LockStutter ==
  ASSUME LockStage, UNCHANGED <<pc, req, locks>>
  PROVE  LockStage'
BY DEF LockStage, CrashInv, LockInv, LockExclusion, LockAccounted, Crashed, Holds, K

\* A thread that stays inside, or stays outside, the section its lock protects
\* keeps what is known of the locks.
LEMMA LockKept ==
  ASSUME TypeInv, LockStage, NEW t \in Thread, NEW q, q # "crashed",
         pc[t] # "crashed", q \in Holding <=> pc[t] \in Holding,
         pc' = [pc EXCEPT ![t] = q], UNCHANGED locks,
         pc[t] \in Holding => UNCHANGED req,
         \A u \in Thread \ {t} : req'[u] = req[u]
  PROVE  LockStage'
<1>1. \A u \in Thread : pc'[u] = IF u = t THEN q ELSE pc[u]
  BY DEF TypeInv, TypeOK
<1>2. ~Crashed /\ ~Crashed'
  BY <1>1 DEF LockStage, CrashInv, Crashed
<1>3. \A u \in Thread : \A k \in Key : Holds(u, k)' <=> Holds(u, k)
  BY <1>1 DEF Holds, K
<1>4. \A u \in Thread : pc'[u] \in Holding =>
        pc[u] \in Holding /\ req'[u] = req[u]
  BY <1>1
<1>5. LockInv'
  BY <1>4 DEF LockStage, LockInv, K
<1>6. LockExclusion' /\ LockAccounted'
  BY <1>2, <1>3, LblProxyAssumption DEF LockStage, LockExclusion, LockAccounted
<1> QED
  BY <1>2, <1>5, <1>6 DEF LockStage, CrashInv

\* The exclusion of the lock is kept by every step.
LEMMA LockStep == TypeInv /\ LockStage /\ [Next]_vars => LockStage'
<1> SUFFICES ASSUME TypeInv, LockStage, [Next]_vars PROVE LockStage'
  OBVIOUS
<1> USE DEF maps, proxyVars, threadVars, serverVars
<1>0. req \in [Thread -> Requests \union {NoRequest}]
  BY DEF TypeInv, TypeOK
<1>1. ASSUME NEW t \in Thread, Request(t) PROVE LockStage'
  <2>1. pc' = [pc EXCEPT ![t] = "check"] /\ UNCHANGED locks
        /\ pc[t] = "idle" /\ \A u \in Thread \ {t} : req'[u] = req[u]
    BY <1>0, <1>1 DEF Request
  <2> QED
    BY <2>1, LockKept DEF Holding
<1>2. ASSUME NEW t \in Thread, RequestRefused(t) PROVE LockStage'
  BY <1>2, LockKept DEF RequestRefused, Holding
<1>3. ASSUME NEW t \in Thread, Check(t) PROVE LockStage'
  <2>1. CASE \E present \in Lookup(t) : (present \/ ~IsGet(t)) /\ Proceed(t, present)
    BY <1>3, <2>1, LockKept DEF Check, Proceed, Holding
  <2>2. CASE Abort(t) /\ UNCHANGED locks
    <3>1. pc' = [pc EXCEPT ![t] = "idle"] /\ UNCHANGED locks
          /\ pc[t] = "check" /\ \A u \in Thread \ {t} : req'[u] = req[u]
      BY <1>0, <1>3, <2>2 DEF Check, Abort, Return
    <3> QED
      BY <3>1, LockKept DEF Holding
  <2> QED
    BY <1>3, <2>1, <2>2 DEF Check
<1>4. ASSUME NEW t \in Thread, TryLock(t) PROVE LockStage'
  <2>1. CASE locks[K(t)] = "free" /\ Acquire(t)
    <3>1. /\ pc[t] = "lock" /\ pc' = [pc EXCEPT ![t] = "construct"]
          /\ UNCHANGED req /\ locks' = [locks EXCEPT ![K(t)] = "held"]
      BY <1>4, <2>1 DEF TryLock, Acquire
    <3>2. K(t) \in Key
      BY <3>1 DEF TypeInv, RequestInv, Busy, Requests, K
    <3> QED
      BY <2>1, <3>1, <3>2
      DEF TypeInv, TypeOK, LockStage, CrashInv, LockInv, LockExclusion, LockAccounted,
          Crashed, Holds, K, Holding
  <2>2. CASE locks[K(t)] # "free" /\ Abort(t)
    <3>1. /\ pc[t] = "lock" /\ pc' = [pc EXCEPT ![t] = "idle"]
          /\ \A u \in Thread \ {t} : req'[u] = req[u]
          /\ locks' = [locks EXCEPT ![K(t)] = "held"]
      BY <1>0, <1>4, <2>2 DEF TryLock, Abort, Return
    <3>2. K(t) \in Key
      BY <3>1 DEF TypeInv, RequestInv, Busy, Requests, K
    <3>3. \A u \in Thread : pc'[u] = IF u = t THEN "idle" ELSE pc[u]
      BY <3>1 DEF TypeInv, TypeOK
    <3>4. \A u \in Thread : \A k \in Key : Holds(u, k)' <=> Holds(u, k)
      BY <3>1, <3>3 DEF Holds, K, Holding
    <3>5. CrashInv' /\ LockExclusion' /\ LockInv'
      BY <3>1, <3>2, <3>3, <3>4
      DEF TypeInv, TypeOK, LockStage, CrashInv, LockInv, LockExclusion, Crashed, K, Holding
    <3>6. LockAccounted'
      <4>1. ~Crashed
        BY <3>1 DEF LockStage, CrashInv, Crashed
      <4>2. K(t) \in NumberedKey => \E u \in Thread : Holds(u, K(t))
        BY <2>2, <4>1 DEF LockStage, LockAccounted
      <4>3. \A k \in Key : k # K(t) => locks'[k] = locks[k]
        BY <3>1 DEF TypeInv, TypeOK
      <4> QED
        BY <3>4, <4>1, <4>2, <4>3, LblProxyAssumption DEF LockStage, LockAccounted
    <3> QED
      BY <3>5, <3>6 DEF LockStage
  <2> QED
    BY <1>4, <2>1, <2>2 DEF TryLock
<1>5. ASSUME NEW t \in Thread, Construct(t) PROVE LockStage'
  <2>1. CASE IsGet(t)
    BY <1>5, <2>1, LockKept DEF Construct, Holding
  <2>2. CASE ~IsGet(t)
    BY <1>5, <2>2, LockKept DEF Construct, Holding
  <2> QED
    BY <2>1, <2>2
<1>6. ASSUME NEW t \in Thread, ConstructThrows(t) PROVE LockStage'
  BY <1>6, LockKept DEF ConstructThrows, Holding
<1>7. ASSUME NEW t \in Thread, Record(t) PROVE LockStage'
  BY <1>7, LockKept DEF Record, Holding
<1>8. ASSUME NEW t \in Thread, SendCreate(t) PROVE LockStage'
  BY <1>8, LockKept DEF SendCreate, Holding
<1>9. ASSUME NEW t \in Thread, SendAccess(t) PROVE LockStage'
  BY <1>9, LockKept DEF SendAccess, Holding
<1>10. ASSUME NEW t \in Thread, SendThrows(t) PROVE LockStage'
  BY <1>10, LockKept DEF SendThrows, Holding
<1>11. ASSUME NEW t \in Thread, Receive(t) PROVE LockStage'
  BY <1>11, LockKept DEF Receive, Holding
<1>12. ASSUME NEW t \in Thread, ReceiveThrows(t) PROVE LockStage'
  BY <1>12, LockKept DEF ReceiveThrows, Holding
<1>13. ASSUME NEW t \in Thread, Release(t) PROVE LockStage'
  <2>1. /\ pc[t] = "release" /\ pc' = [pc EXCEPT ![t] = "idle"]
        /\ \A u \in Thread \ {t} : req'[u] = req[u]
        /\ locks' = [locks EXCEPT ![K(t)] = "free"]
    BY <1>0, <1>13 DEF Release, Return
  <2>2. K(t) \in Key
    BY <2>1 DEF TypeInv, RequestInv, Busy, Requests, K
  <2>3. ~Crashed /\ CrashInv' /\ ~Crashed'
    BY <2>1 DEF TypeInv, TypeOK, LockStage, CrashInv, Crashed
  <2>4. \A u \in Thread, k \in Key : Holds(u, k)' <=> u # t /\ Holds(u, k)
    BY <2>1 DEF TypeInv, TypeOK, Holds, K, Holding
  <2>5. LockExclusion'
    BY <2>4 DEF LockStage, LockExclusion
  <2>6. LockInv'
    <3> SUFFICES ASSUME NEW u \in Thread, pc'[u] \in Holding
                 PROVE  locks'[req'[u].key] = "held"
      BY DEF LockInv, K
    <3>1. u # t /\ pc[u] \in Holding /\ req'[u] = req[u]
      BY <2>1 DEF TypeInv, TypeOK, Holding
    <3>2. K(u) \in Key
      BY <3>1 DEF TypeInv, RequestInv, Holding, Busy, Requests, K
    <3>3. K(u) # K(t)
      BY <2>1, <2>2, <3>1 DEF LockStage, LockExclusion, Holds, Holding
    <3> QED
      BY <2>1, <2>2, <3>1, <3>2, <3>3 DEF TypeInv, TypeOK, LockStage, LockInv, K
  <2>7. LockAccounted'
    <3> SUFFICES ASSUME NEW k \in NumberedKey, locks'[k] # "free"
                 PROVE  \E u \in Thread : Holds(u, k)'
      BY DEF LockAccounted
    <3>1. k \in Key /\ k # K(t) /\ locks[k] # "free"
      BY <2>1, <2>2, LblProxyAssumption DEF TypeInv, TypeOK
    <3>2. PICK u \in Thread : Holds(u, k)
      BY <2>3, <3>1 DEF LockStage, LockAccounted
    <3> QED
      BY <2>4, <3>1, <3>2 DEF Holds
  <2> QED
    BY <2>3, <2>5, <2>6, <2>7 DEF LockStage
<1>14. ASSUME NEW t \in Thread, ServeAccess(t) PROVE LockStage'
  BY <1>14, LockStutter
  DEF ServeAccess, AccessDecrypt, AccessRip, AccessStore, ServerExits
<1>15. ASSUME NEW c \in creates, ServeCreate(c) PROVE LockStage'
  BY <1>15, LockStutter DEF ServeCreate
<1>16. ASSUME RaceCrash PROVE LockStage'
  BY <1>16
  DEF RaceCrash, LockStage, CrashInv, LockInv, LockExclusion, LockAccounted, Crashed,
      Holds, Holding
<1>17. ASSUME ServerQuit \/ ServerRestart \/ UNCHANGED vars PROVE LockStage'
  BY <1>17, LockStutter DEF ServerQuit, ServerExits, ServerRestart, vars
<1> QED
  BY <1>1, <1>2, <1>3, <1>4, <1>5, <1>6, <1>7, <1>8, <1>9, <1>10, <1>11, <1>12,
     <1>13, <1>14, <1>15, <1>16, <1>17
  DEF Next, ThreadStep, Done

\* Initially no thread holds a lock.
LEMMA LockInit == Init => LockStage
BY LblProxyAssumption
   DEF Init, LockStage, CrashInv, LockInv, LockExclusion, LockAccounted, Crashed,
       Holds, Holding

\* Two threads never work on the same key between exchange(false) and exchange(true).
THEOREM LocksExclude == Spec => []LockExclusion
<1>1. LockStage => LockExclusion
  BY DEF LockStage
<1> QED
  BY <1>1, TypeInit, TypeStep, LockInit, LockStep, PTL DEF Spec

\* A lock that is not free has a holder, if only one that an exception threw out.
THEOREM LocksAccounted == Spec => []LockAccounted
<1>1. LockStage => LockAccounted
  BY DEF LockStage
<1> QED
  BY <1>1, TypeInit, TypeStep, LockInit, LockStep, PTL DEF Spec

(***************************************************************************)
(* Stage 3: the proxy's maps and the server's db                           *)
(***************************************************************************)
DataInv ==
  /\ FreshInv /\ KeyInv /\ RekeyInv /\ CreateInv /\ JobInv
  /\ BlockIsCurrent /\ AnswersAreCurrent

DataStage == ~Crashed => DataInv

\* A thread in handleOp asks for a key, and a PUT for a value, of the given sets.
LEMMA RequestTypes ==
  ASSUME TypeInv, NEW t \in Thread, pc[t] \in Busy
  PROVE  K(t) \in Key /\ (~IsGet(t) => req[t].val \in Value)
BY DEF TypeInv, RequestInv, Requests, K, IsGet

\* A block that was carried over once is carried over again.
LEMMA CarryTwice == \A v : Carry(Carry(v)) = Carry(v)
BY LblProxyAssumption DEF Carry

\* Steps of one thread outside the section from the new master key to the release,
\* or out of it, disturb nothing the proxy and the server share.
LEMMA LocalStep ==
  ASSUME TypeInv, DataInv, ~Crashed, NEW t \in Thread,
         UNCHANGED <<keySet, valueSizes, masterKeys, nextKey, written, db, job, creates>>,
         \A u \in Thread \ {t} :
           /\ pc'[u] = pc[u] /\ req'[u] = req[u] /\ found'[u] = found[u]
           /\ entry'[u] = entry[u] /\ ret'[u] = ret[u] /\ snap'[u] = snap[u],
         pc[t] \notin {"record", "wait"},
         pc'[t] \notin {"record", "send", "wait", "release"},
         pc'[t] \in Busy \ {"check"} /\ found'[t] => req'[t].key \in keySet
  PROVE  DataInv'
<1> USE DEF DataInv
<1>1. FreshInv' /\ CreateInv'
  BY DEF FreshInv, CreateInv
<1>2. KeyInv'
  <2>1. \A k \in keySet : masterKeys[k] # 0
    BY DEF KeyInv
  <2>2. \A u \in Thread : pc'[u] \in Busy \ {"check"} /\ found'[u] => req'[u].key \in keySet
    BY DEF KeyInv, K
  <2>3. ASSUME NEW k \in Key, masterKeys[k] # 0
        PROVE  /\ written[k] \in Value
               /\ \/ valueSizes[k] = Size[written[k]]
                  \/ \E u \in Thread : (Holds(u, k) /\ pc[u] = "record")'
    BY <2>3 DEF KeyInv, Holds, K
  <2> QED
    BY <2>1, <2>2, <2>3 DEF KeyInv, K
<1>3. RekeyInv'
  BY DEF RekeyInv, Rekeyed, Encodes, Carry, K, IsGet
<1>4. JobInv'
  BY DEF JobInv, K
<1>5. BlockIsCurrent'
  BY DEF BlockIsCurrent
<1>6. AnswersAreCurrent'
  BY DEF AnswersAreCurrent, IsGet, K
<1> QED
  BY <1>1, <1>2, <1>3, <1>4, <1>5, <1>6

\* The replacement of the master key: no block and no create under the new one
\* exists yet, and those under the old one are what the entry may meet.
LEMMA ConstructData ==
  ASSUME TypeInv, LockStage, DataInv, ~Crashed, NEW t \in Thread, Construct(t)
  PROVE  DataInv'
<1> DEFINE k == K(t)
<1>0. /\ pc[t] = "construct" /\ k \in Key /\ (~IsGet(t) => req[t].val \in Value)
      /\ \A u \in Thread : pc'[u] = IF u = t THEN IF IsGet(t) THEN "send" ELSE "record"
                                    ELSE pc[u]
      /\ \A u \in Thread : entry'[u] = IF u = t THEN [old |-> masterKeys[k], new |-> nextKey]
                                       ELSE entry[u]
      /\ \A l \in Key : masterKeys'[l] = IF l = k THEN nextKey ELSE masterKeys[l]
      /\ \A l \in Key : written'[l] = IF l = k /\ ~IsGet(t) THEN req[t].val ELSE written[l]
      /\ nextKey' = nextKey + 1 /\ nextKey \in Nat
      /\ UNCHANGED <<keySet, valueSizes, req, found, ret, db, job, snap, creates>>
  BY RequestTypes DEF Construct, NowWritten, TypeInv, TypeOK, Busy, serverVars
<1>1. \A u \in Thread : u # t /\ pc[u] \in Holding => K(u) # k
  BY <1>0 DEF LockStage, LockExclusion, Holds, Holding
<1>2. \A u \in Thread : u # t /\ pc[u] \in Busy => K(u) \in Key
  BY RequestTypes
<1>3. /\ keySet \subseteq Key /\ masterKeys \in [Key -> Nat]
      /\ \A l \in Key : db[l].mk \in Nat
      /\ \A c \in creates : c.key \in Key /\ c.mk \in Nat
  BY DEF TypeInv, TypeOK, Block
<1> HIDE DEF k
<1> USE DEF DataInv
<1>4. FreshInv'
  BY <1>0, <1>3 DEF FreshInv
<1>5. KeyInv'
  <2>1. \A l \in keySet' : masterKeys'[l] # 0
    BY <1>0, <1>3 DEF KeyInv, FreshInv
  <2>2. \A u \in Thread : pc'[u] \in Busy \ {"check"} /\ found'[u] => K(u)' \in keySet'
    BY <1>0 DEF KeyInv, K, Busy
  <2>3. ASSUME NEW l \in Key, masterKeys'[l] # 0
        PROVE  /\ written'[l] \in Value
               /\ \/ valueSizes'[l] = Size[written'[l]]
                  \/ \E u \in Thread : (Holds(u, l) /\ pc[u] = "record")'
    <3>1. CASE l = k /\ IsGet(t)
      <4>1. found[t] /\ k \in keySet
        BY <1>0, <3>1 DEF TypeInv, RequestInv, KeyInv, Busy, k
      <4>2. written[l] \in Value /\ (valueSizes[l] = Size[written[l]]
              \/ \E u \in Thread : Holds(u, l) /\ pc[u] = "record")
        BY <3>1, <4>1 DEF KeyInv
      <4>3. ~\E u \in Thread : Holds(u, l) /\ pc[u] = "record"
        BY <1>0, <1>1, <3>1 DEF Holds
      <4> QED
        BY <1>0, <3>1, <4>2, <4>3
    <3>2. CASE l = k /\ ~IsGet(t)
      <4>1. (Holds(t, l) /\ pc[t] = "record")'
        BY <1>0, <3>2 DEF Holds, K, Holding, k
      <4> QED
        BY <1>0, <3>2, <4>1
    <3>3. CASE l # k
      <4>1. ASSUME NEW u \in Thread, Holds(u, l), pc[u] = "record"
            PROVE  (Holds(u, l) /\ pc[u] = "record")'
        BY <1>0, <4>1, <3>3 DEF Holds, K, Holding
      <4> QED
        BY <1>0, <2>3, <3>3, <4>1 DEF KeyInv
    <3> QED
      BY <3>1, <3>2, <3>3
  <2> QED
    BY <2>1, <2>2, <2>3 DEF KeyInv
<1>6. RekeyInv'
  <2> SUFFICES ASSUME NEW u \in Thread, Rekeyed(u)'
               PROVE  /\ entry'[u].new = masterKeys'[K(u)'] /\ entry'[u].old < entry'[u].new
                      /\ ~IsGet(u)' => written'[K(u)'] = req'[u].val
                      /\ found'[u] => entry'[u].old # 0
                      /\ IsGet(u)' =>
                           /\ db'[K(u)'].mk = entry'[u].old => Encodes(db[K(u)], K(u))'
                           /\ \A c \in creates' : c.key = K(u)' /\ c.mk = entry'[u].old =>
                                                 c.val = written'[K(u)']
    BY DEF RekeyInv
  <2>1. CASE u = t
    <3>1. K(u)' = k /\ (IsGet(u)' <=> IsGet(t)) /\ written'[k] = (IF IsGet(t) THEN written[k] ELSE req[t].val)
      BY <1>0, <2>1 DEF K, IsGet, k
    <3>2. entry'[u].new = nextKey /\ entry'[u].old = masterKeys[k] /\ masterKeys'[k] = nextKey
          /\ masterKeys[k] < nextKey
      BY <1>0, <2>1 DEF FreshInv
    <3>3. found[t] => k \in keySet /\ masterKeys[k] # 0
      BY <1>0 DEF KeyInv, Busy, k
    <3>4. IsGet(t) => found[t]
      BY <1>0 DEF TypeInv, RequestInv, Busy
    <3>5. IsGet(t) /\ db[k].mk = masterKeys[k] => db[k].val \in {written[k], Carry(written[k])}
      BY <1>0, <3>3, <3>4 DEF BlockIsCurrent
    <3>6. \A c \in creates : c.key = k /\ c.mk = masterKeys[k] => c.val = written[k]
      BY DEF CreateInv
    <3> QED
      BY <1>0, <2>1, <3>1, <3>2, <3>3, <3>5, <3>6 DEF Encodes, Carry
  <2>2. CASE u # t
    <3>1. Rekeyed(u) /\ K(u) # k /\ K(u) \in Key /\ K(u)' = K(u) /\ (IsGet(u)' <=> IsGet(u))
      BY <1>0, <1>1, <1>2, <2>2 DEF Rekeyed, Holding, Busy, K, IsGet
    <3>2. /\ entry'[u] = entry[u] /\ masterKeys'[K(u)] = masterKeys[K(u)]
          /\ written'[K(u)] = written[K(u)] /\ req'[u] = req[u] /\ found'[u] = found[u]
          /\ db' = db /\ creates' = creates
      BY <1>0, <2>2, <3>1
    <3> QED
      BY <3>1, <3>2 DEF RekeyInv, Encodes, Carry
  <2> QED
    BY <2>1, <2>2
<1>7. CreateInv'
  BY <1>0, <1>3 DEF CreateInv, FreshInv
<1>8. JobInv'
  <2>1. ASSUME NEW u \in Thread, job[u] # "none" PROVE u # t /\ K(u) # k /\ K(u) \in Key
    BY <1>0, <1>1, <1>2, <2>1 DEF JobInv, Holding, Busy
  <2> QED
    BY <1>0, <2>1 DEF JobInv, Carry, K
<1>9. BlockIsCurrent'
  BY <1>0, <1>3 DEF BlockIsCurrent, FreshInv, Carry
<1>10. AnswersAreCurrent'
  <2>1. ASSUME NEW u \in Thread, pc'[u] = "release" PROVE u # t /\ pc[u] = "release"
                                                        /\ K(u) # k /\ K(u) \in Key
    BY <1>0, <1>1, <1>2, <2>1 DEF Holding, Busy
  <2> QED
    BY <1>0, <2>1 DEF AnswersAreCurrent, K, IsGet, Carry
<1> QED
  BY <1>4, <1>5, <1>6, <1>7, <1>8, <1>9, <1>10

\* Recording the size of the value just put makes good what Construct left open.
LEMMA RecordData ==
  ASSUME TypeInv, LockStage, DataInv, ~Crashed, NEW t \in Thread, Record(t)
  PROVE  DataInv'
<1> DEFINE k == K(t)
<1>0. /\ pc[t] = "record" /\ k \in Key /\ req[t].val \in Value
      /\ \A u \in Thread : pc'[u] = IF u = t THEN "send" ELSE pc[u]
      /\ \A l \in Key : valueSizes'[l] = IF l = k THEN Size[req[t].val] ELSE valueSizes[l]
      /\ keySet \subseteq keySet' /\ keySet' \subseteq keySet \union {k}
      /\ UNCHANGED <<masterKeys, req, found, entry, ret, db, job, snap, creates, nextKey,
                     written>>
  BY RequestTypes DEF Record, TypeInv, TypeOK, RequestInv, Busy, serverVars
<1>1. written[k] = req[t].val /\ masterKeys[k] # 0
  BY <1>0 DEF DataInv, RekeyInv, Rekeyed, TypeInv, RequestInv, Busy, TypeOK
<1> HIDE DEF k
<1> USE DEF DataInv
<1>2. FreshInv' /\ CreateInv'
  BY <1>0 DEF FreshInv, CreateInv
<1>3. KeyInv'
  <2>1. \A l \in keySet' : masterKeys'[l] # 0
    BY <1>0, <1>1 DEF KeyInv
  <2>2. \A u \in Thread : pc'[u] \in Busy \ {"check"} /\ found'[u] => K(u)' \in keySet'
    BY <1>0 DEF KeyInv, K, Busy
  <2>3. ASSUME NEW l \in Key, masterKeys'[l] # 0
        PROVE  /\ written'[l] \in Value
               /\ \/ valueSizes'[l] = Size[written'[l]]
                  \/ \E u \in Thread : (Holds(u, l) /\ pc[u] = "record")'
    <3>1. CASE l = k
      BY <1>0, <1>1, <3>1
    <3>2. CASE l # k
      <4>1. ASSUME NEW u \in Thread, Holds(u, l), pc[u] = "record"
            PROVE  (Holds(u, l) /\ pc[u] = "record")'
        BY <1>0, <4>1, <3>2 DEF Holds, K, Holding, k
      <4> QED
        BY <1>0, <2>3, <3>2, <4>1 DEF KeyInv
    <3> QED
      BY <3>1, <3>2
  <2> QED
    BY <2>1, <2>2, <2>3 DEF KeyInv
<1>4. RekeyInv'
  BY <1>0 DEF RekeyInv, Rekeyed, Encodes, Carry, K, IsGet
<1>5. JobInv'
  BY <1>0 DEF JobInv, K
<1>6. BlockIsCurrent' /\ AnswersAreCurrent'
  BY <1>0 DEF BlockIsCurrent, AnswersAreCurrent, K, IsGet
<1> QED
  BY <1>2, <1>3, <1>4, <1>5, <1>6

\* A step that moves one thread on within the section, and touches neither the maps
\* nor the db, keeps what is known of them.
LEMMA MovesOn ==
  ASSUME DataInv, ~Crashed, NEW t \in Thread,
         UNCHANGED <<keySet, valueSizes, masterKeys, req, found, entry, db, snap, nextKey,
                     written>>,
         pc[t] \in {"send", "wait"},
         \A u \in Thread \ {t} : pc'[u] = pc[u],
         pc'[t] \in {"wait", "release", "leaked"}
  PROVE  KeyInv' /\ BlockIsCurrent'
<1>1. \A k \in Key : \A u \in Thread :
        Holds(u, k) /\ pc[u] = "record" => (Holds(u, k) /\ pc[u] = "record")'
  BY DEF Holds, K
<1>2. \A u \in Thread : pc'[u] \in Busy \ {"check"} => pc[u] \in Busy \ {"check"}
  BY DEF Busy
<1>3. KeyInv'
  BY <1>1, <1>2 DEF DataInv, KeyInv, K
<1> QED
  BY <1>3 DEF DataInv, BlockIsCurrent

\* A create leaves the proxy with the value just put.
LEMMA SendCreateData ==
  ASSUME TypeInv, LockStage, DataInv, ~Crashed, NEW t \in Thread, SendCreate(t)
  PROVE  DataInv'
<1> DEFINE k == K(t)
           c == [from |-> t, key |-> k, mk |-> entry[t].new, val |-> req[t].val]
<1>0. /\ pc[t] = "send" /\ ~found[t] /\ k \in Key /\ ~IsGet(t)
      /\ \A u \in Thread : pc'[u] = IF u = t THEN "release" ELSE pc[u]
      /\ creates \subseteq creates' /\ creates' \subseteq creates \union {c}
      /\ UNCHANGED <<keySet, valueSizes, masterKeys, req, found, entry, ret, db, job, snap,
                     nextKey, written>>
  BY RequestTypes
  DEF SendCreate, TypeInv, TypeOK, RequestInv, Busy, proxyVars, maps
<1>1. c.mk = masterKeys[k] /\ c.val = written[k] /\ c.key = k
  BY <1>0 DEF DataInv, RekeyInv, Rekeyed
<1>2. \A u \in Thread : u # t /\ pc[u] \in Holding => K(u) # k
  BY <1>0 DEF LockStage, LockExclusion, Holds, Holding
<1> HIDE DEF k, c
<1> USE DEF DataInv
<1>3. KeyInv' /\ BlockIsCurrent'
  BY <1>0, MovesOn
<1>4. FreshInv' /\ CreateInv'
  BY <1>0, <1>1 DEF FreshInv, CreateInv
<1>5. RekeyInv'
  BY <1>0, <1>1, <1>2 DEF RekeyInv, Rekeyed, Encodes, Carry, K, IsGet, Holding
<1>6. JobInv'
  BY <1>0 DEF JobInv, K
<1>7. AnswersAreCurrent'
  BY <1>0 DEF AnswersAreCurrent, K, IsGet
<1> QED
  BY <1>3, <1>4, <1>5, <1>6, <1>7

\* Sending an access starts the server's work for a waiting thread.
LEMMA SendAccessData ==
  ASSUME TypeInv, DataInv, ~Crashed, NEW t \in Thread, SendAccess(t)
  PROVE  DataInv'
<1>0. /\ pc[t] = "send" /\ found[t]
      /\ \A u \in Thread : pc'[u] = IF u = t THEN "wait" ELSE pc[u]
      /\ \A u \in Thread : job'[u] = IF u = t THEN "sent" ELSE job[u]
      /\ UNCHANGED <<keySet, valueSizes, masterKeys, req, found, entry, ret, db, snap,
                     creates, nextKey, written>>
  BY DEF SendAccess, TypeInv, TypeOK, proxyVars, maps
<1> USE DEF DataInv
<1>1. KeyInv' /\ BlockIsCurrent'
  BY <1>0, MovesOn
<1>2. FreshInv' /\ CreateInv'
  BY <1>0 DEF FreshInv, CreateInv
<1>3. RekeyInv'
  BY <1>0 DEF RekeyInv, Rekeyed, Encodes, Carry, K, IsGet
<1>4. JobInv'
  BY <1>0 DEF JobInv, K
<1>5. AnswersAreCurrent'
  BY <1>0 DEF AnswersAreCurrent, K, IsGet
<1> QED
  BY <1>1, <1>2, <1>3, <1>4, <1>5

\* Decoding the answer of a GET yields the value last put: the block was made with the
\* current master key, and the recorded size is that of the value.
LEMMA ReceiveData ==
  ASSUME TypeInv, LockStage, DataInv, ~Crashed, NEW t \in Thread, Receive(t)
  PROVE  DataInv'
<1> DEFINE k == K(t)
<1>0. /\ pc[t] = "wait" /\ job[t] = "stored" /\ k \in Key
      /\ \A u \in Thread : pc'[u] = IF u = t THEN "release" ELSE pc[u]
      /\ \A u \in Thread : job'[u] = IF u = t THEN "none" ELSE job[u]
      /\ \A u \in Thread \ {t} : ret'[u] = ret[u]
      /\ IsGet(t) => ret'[t] = ReadValueFromLabels(k, snap[t])
      /\ UNCHANGED <<keySet, valueSizes, masterKeys, req, found, entry, db, snap,
                     creates, nextKey, written>>
  BY RequestTypes DEF Receive, TypeInv, TypeOK, proxyVars, maps, Busy
<1> USE DEF DataInv
<1>1. snap[t] = [mk |-> masterKeys[k], val |-> Carry(written[k])]
  BY <1>0 DEF JobInv, RekeyInv, Rekeyed
<1>2. IsGet(t) => written[k] \in Value /\ valueSizes[k] = Size[written[k]]
  <2>1. IsGet(t) => k \in keySet /\ masterKeys[k] # 0
    BY <1>0 DEF KeyInv, TypeInv, RequestInv, Busy
  <2>2. ~\E u \in Thread : Holds(u, k) /\ pc[u] = "record"
    BY <1>0 DEF LockStage, LockExclusion, Holds, Holding
  <2> QED
    BY <1>0, <2>1, <2>2 DEF KeyInv
<1>3. IsGet(t) => ReadValueFromLabels(k, snap[t]) = Carry(written[k])
  BY <1>1, <1>2, LblProxyAssumption DEF ReadValueFromLabels, Carry
<1> HIDE DEF k
<1>4. KeyInv' /\ BlockIsCurrent'
  BY <1>0, MovesOn
<1>5. FreshInv' /\ CreateInv'
  BY <1>0 DEF FreshInv, CreateInv
<1>6. RekeyInv'
  BY <1>0 DEF RekeyInv, Rekeyed, Encodes, Carry, K, IsGet
<1>7. JobInv'
  BY <1>0 DEF JobInv, K
<1>8. AnswersAreCurrent'
  BY <1>0, <1>3 DEF AnswersAreCurrent, K, IsGet, Carry, k
<1> QED
  BY <1>4, <1>5, <1>6, <1>7, <1>8

\* An exception while waiting leaves the section, and the server has let go.
LEMMA ReceiveThrowsData ==
  ASSUME TypeInv, DataInv, ~Crashed, NEW t \in Thread, ReceiveThrows(t)
  PROVE  DataInv'
<1>0. /\ pc[t] = "wait"
      /\ \A u \in Thread : pc'[u] = IF u = t THEN "leaked" ELSE pc[u]
      /\ \A u \in Thread : job'[u] = IF u = t THEN "none" ELSE job[u]
      /\ UNCHANGED <<keySet, valueSizes, masterKeys, req, found, entry, ret, db, snap,
                     creates, nextKey, written>>
  BY DEF ReceiveThrows, TypeInv, TypeOK, proxyVars, maps
<1> USE DEF DataInv
<1>1. KeyInv' /\ BlockIsCurrent'
  BY <1>0, MovesOn
<1>2. FreshInv' /\ CreateInv'
  BY <1>0 DEF FreshInv, CreateInv
<1>3. RekeyInv'
  BY <1>0 DEF RekeyInv, Rekeyed, Encodes, Carry, K, IsGet
<1>4. JobInv' /\ AnswersAreCurrent'
  BY <1>0 DEF JobInv, AnswersAreCurrent, K, IsGet
<1> QED
  BY <1>1, <1>2, <1>3, <1>4

\* The server re-encrypts a block that encodes the current value, or installs the
\* value of the PUT: either way the new block carries the current value.
LEMMA AccessDecryptData ==
  ASSUME TypeInv, DataInv, ~Crashed, NEW t \in Thread, AccessDecrypt(t)
  PROVE  DataInv'
<1> DEFINE k == K(t)
<1>0. /\ job[t] = "sent" /\ db[k].mk = entry[t].old
      /\ \A u \in Thread : job'[u] = IF u = t THEN "decrypted" ELSE job[u]
      /\ \A u \in Thread : snap'[u] = IF u = t THEN Reencrypt(t, db[k]) ELSE snap[u]
      /\ UNCHANGED <<keySet, valueSizes, masterKeys, pc, req, found, entry, ret, db,
                     creates, nextKey, written>>
  BY DEF AccessDecrypt, AtServer, Decryptable, TypeInv, TypeOK, proxyVars, maps, threadVars
<1> USE DEF DataInv
<1>1. Reencrypt(t, db[k]) = [mk |-> entry[t].new, val |-> Carry(written[k])]
  <2>1. Rekeyed(t)
    BY <1>0 DEF JobInv, Rekeyed
  <2>2. CASE IsGet(t)
    <3>1. db[k].val \in {written[k], Carry(written[k])}
      BY <1>0, <2>1, <2>2 DEF RekeyInv, Encodes
    <3> QED
      BY <2>2, <3>1, CarryTwice DEF Reencrypt
  <2>3. CASE ~IsGet(t)
    BY <2>1, <2>3 DEF RekeyInv, Reencrypt
  <2> QED
    BY <2>2, <2>3
<1> HIDE DEF k
<1>2. FreshInv' /\ CreateInv'
  BY <1>0 DEF FreshInv, CreateInv
<1>3. KeyInv' /\ BlockIsCurrent' /\ AnswersAreCurrent'
  BY <1>0 DEF KeyInv, BlockIsCurrent, AnswersAreCurrent, Crashed, Holds, K, IsGet
<1>4. RekeyInv'
  BY <1>0 DEF RekeyInv, Rekeyed, Encodes, Carry, K, IsGet
<1>5. JobInv'
  BY <1>0, <1>1 DEF JobInv, K, Carry, k
<1> QED
  BY <1>2, <1>3, <1>4, <1>5

\* The new block replaces the old one: it is made with the current master key, and no
\* other entry for the key is under way.
LEMMA AccessStoreData ==
  ASSUME TypeInv, LockStage, DataInv, ~Crashed, NEW t \in Thread, AccessStore(t)
  PROVE  DataInv'
<1> DEFINE k == K(t)
<1>0. /\ job[t] = "decrypted"
      /\ \A u \in Thread : job'[u] = IF u = t THEN "stored" ELSE job[u]
      /\ \A l \in Key : db'[l] = IF l = k THEN snap[t] ELSE db[l]
      /\ UNCHANGED <<keySet, valueSizes, masterKeys, pc, req, found, entry, ret, snap,
                     creates, nextKey, written>>
  BY DEF AccessStore, TypeInv, TypeOK, proxyVars, maps, threadVars
<1> USE DEF DataInv
<1>1. pc[t] = "wait" /\ Rekeyed(t)
  BY <1>0 DEF JobInv, Rekeyed
<1>2. k \in Key /\ masterKeys[k] \in Nat /\ nextKey \in Nat /\ entry[t].old \in Nat
  BY <1>1, RequestTypes DEF Busy, TypeInv, TypeOK
<1>3. /\ snap[t].mk = masterKeys[k] /\ snap[t].val = Carry(written[k])
      /\ entry[t].old < snap[t].mk
  <2>1. snap[t] = [mk |-> entry[t].new, val |-> Carry(written[k])]
    BY <1>0 DEF JobInv
  <2>2. entry[t].new = masterKeys[k] /\ entry[t].old < entry[t].new
    BY <1>1 DEF RekeyInv
  <2> QED
    BY <2>1, <2>2
<1>4. \A u \in Thread : u # t /\ pc[u] \in Holding => K(u) # k
  BY <1>1, <1>2 DEF LockStage, LockExclusion, Holds, Holding
<1>5. \A u \in Thread : pc[u] \in Busy => K(u) \in Key
  BY RequestTypes
<1>6. entry[t].new = masterKeys[k] /\ entry[t].old # masterKeys[k]
  BY <1>1, <1>2, <1>3 DEF RekeyInv
<1> HIDE DEF k
<1>7. FreshInv' /\ CreateInv'
  BY <1>0, <1>3, <1>2 DEF FreshInv, CreateInv
<1>8. KeyInv' /\ AnswersAreCurrent'
  BY <1>0 DEF KeyInv, AnswersAreCurrent, Holds, K, IsGet
<1>9. BlockIsCurrent'
  BY <1>0, <1>3 DEF BlockIsCurrent, Carry
<1>10. RekeyInv'
  <2> SUFFICES ASSUME NEW u \in Thread, Rekeyed(u), IsGet(u), db'[K(u)].mk = entry[u].old
               PROVE  db'[K(u)].val \in {written[K(u)], Carry(written[K(u)])}
    BY <1>0 DEF RekeyInv, Rekeyed, Encodes, Carry, K, IsGet
  <2>1. K(u) \in Key /\ pc[u] \in Holding
    BY <1>5 DEF Rekeyed, Busy, Holding
  <2>2. u # t
    BY <1>0, <1>2, <1>3, <1>6 DEF k
  <2> QED
    BY <1>0, <1>4, <2>1, <2>2 DEF RekeyInv, Encodes
<1>11. JobInv'
  BY <1>0 DEF JobInv, K, Carry
<1> QED
  BY <1>7, <1>8, <1>9, <1>10, <1>11

\* A create that arrives late is harmless: under the current master key, or under the
\* old key of a GET on its way, it carries the current value; otherwise no entry opens it.
LEMMA ServeCreateData ==
  ASSUME TypeInv, DataInv, ~Crashed, NEW c \in creates, ServeCreate(c)
  PROVE  DataInv'
<1>0. /\ \A l \in Key : db'[l] = IF l = c.key THEN [mk |-> c.mk, val |-> c.val] ELSE db[l]
      /\ creates' \subseteq creates /\ c.key \in Key
      /\ UNCHANGED <<keySet, valueSizes, masterKeys, pc, req, found, entry, ret, snap,
                     job, nextKey, written>>
  BY DEF ServeCreate, TypeInv, TypeOK, proxyVars, maps, threadVars
<1>1. \A u \in Thread : pc[u] \in Busy => K(u) \in Key
  BY RequestTypes
<1> USE DEF DataInv
<1>2. FreshInv' /\ CreateInv'
  BY <1>0 DEF FreshInv, CreateInv
<1>3. KeyInv' /\ AnswersAreCurrent'
  BY <1>0 DEF KeyInv, AnswersAreCurrent, Holds, K, IsGet
<1>4. BlockIsCurrent'
  BY <1>0 DEF BlockIsCurrent, CreateInv, Carry
<1>5. RekeyInv'
  BY <1>0, <1>1 DEF RekeyInv, Rekeyed, Encodes, Carry, K, IsGet, Busy
<1>6. JobInv'
  BY <1>0 DEF JobInv, K, Carry
<1> QED
  BY <1>2, <1>3, <1>4, <1>5, <1>6

\* An exit of the server loses work and creates, never a block.
LEMMA ServerExitsData ==
  ASSUME TypeInv, DataInv, ~Crashed, ServerExits
  PROVE  DataInv'
<1>1. PICK answered \in SUBSET {t \in Thread : job[t] = "stored"} :
        job' = [t \in Thread |-> IF job[t] = "none" \/ t \in answered THEN job[t]
                                 ELSE "broken"]
  BY DEF ServerExits
<1>2. \A t \in Thread : job'[t] = job[t] \/ (job[t] # "none" /\ job'[t] = "broken")
  BY <1>1
<1>3. creates' = {} /\ UNCHANGED <<keySet, valueSizes, masterKeys, pc, req, found, entry,
                                   ret, db, snap, nextKey, written>>
  BY DEF ServerExits, proxyVars, maps
<1> USE DEF DataInv
<1>4. FreshInv' /\ CreateInv'
  BY <1>3 DEF FreshInv, CreateInv
<1>5. KeyInv' /\ BlockIsCurrent' /\ AnswersAreCurrent'
  BY <1>3 DEF KeyInv, BlockIsCurrent, AnswersAreCurrent, Crashed, Holds, K, IsGet
<1>6. RekeyInv'
  BY <1>3 DEF RekeyInv, Rekeyed, Encodes, Carry, K, IsGet
<1>7. JobInv'
  BY <1>2, <1>3 DEF JobInv, K, Carry
<1> QED
  BY <1>4, <1>5, <1>6, <1>7

\* The relation of the proxy's maps to the server's db is kept by every step.
LEMMA DataStep == TypeInv /\ LockStage /\ DataStage /\ [Next]_vars => DataStage'
<1> SUFFICES ASSUME TypeInv, LockStage, DataStage, [Next]_vars, ~Crashed' PROVE DataInv'
  BY DEF DataStage
<1> USE DEF maps, proxyVars, threadVars, serverVars
<1>0. ASSUME NEW t \in Thread, pc[t] # "crashed" PROVE ~Crashed /\ DataInv
  BY <1>0 DEF LockStage, CrashInv, Crashed, DataStage
<1>00. ASSUME UNCHANGED pc PROVE ~Crashed /\ DataInv
  BY <1>00 DEF Crashed, DataStage
<1>1. ASSUME NEW t \in Thread, Request(t) PROVE DataInv'
  BY <1>1, <1>0, LocalStep DEF Request, TypeInv, TypeOK, Busy
<1>2. ASSUME NEW t \in Thread, RequestRefused(t) PROVE DataInv'
  BY <1>2, <1>0, LocalStep DEF RequestRefused, TypeInv, TypeOK, Busy
<1>3. ASSUME NEW t \in Thread, Check(t) PROVE DataInv'
  <2>1. PICK present \in Lookup(t) :
          \/ (present \/ ~IsGet(t)) /\ Proceed(t, present)
          \/ (~present /\ IsGet(t)) /\ Abort(t) /\ UNCHANGED locks
    BY <1>3 DEF Check
  <2>2. pc[t] = "check" /\ ~Crashed /\ DataInv
    BY <1>3, <1>0 DEF Check
  <2>3. present => K(t) \in keySet
    BY DEF Lookup
  <2>4. CASE Proceed(t, present)
    BY <2>2, <2>3, <2>4, LocalStep DEF Proceed, TypeInv, TypeOK, K
  <2>5. CASE Abort(t)
    BY <2>2, <2>5, LocalStep DEF Abort, Return, TypeInv, TypeOK, Busy
  <2> QED
    BY <2>1, <2>4, <2>5
<1>4. ASSUME NEW t \in Thread, TryLock(t) PROVE DataInv'
  <2>1. pc[t] = "lock" /\ ~Crashed /\ DataInv
    BY <1>4, <1>0 DEF TryLock
  <2>2. CASE Acquire(t)
    BY <2>1, <2>2, LocalStep DEF Acquire, TypeInv, TypeOK, Busy, K, DataInv, KeyInv
  <2>3. CASE Abort(t)
    BY <2>1, <2>3, LocalStep DEF Abort, Return, TypeInv, TypeOK, Busy
  <2> QED
    BY <1>4, <2>2, <2>3 DEF TryLock
<1>5. ASSUME NEW t \in Thread, Construct(t) PROVE DataInv'
  BY <1>5, <1>0, ConstructData DEF Construct
<1>6. ASSUME NEW t \in Thread, ConstructThrows(t) PROVE DataInv'
  BY <1>6, <1>0, LocalStep
  DEF ConstructThrows, TypeInv, TypeOK, Busy, K, DataInv, KeyInv
<1>7. ASSUME NEW t \in Thread, Record(t) PROVE DataInv'
  BY <1>7, <1>0, RecordData DEF Record
<1>8. ASSUME NEW t \in Thread, SendCreate(t) PROVE DataInv'
  BY <1>8, <1>0, SendCreateData DEF SendCreate
<1>9. ASSUME NEW t \in Thread, SendAccess(t) PROVE DataInv'
  BY <1>9, <1>0, SendAccessData DEF SendAccess
<1>10. ASSUME NEW t \in Thread, SendThrows(t) PROVE DataInv'
  BY <1>10, <1>0, LocalStep DEF SendThrows, TypeInv, TypeOK, Busy, K, DataInv, KeyInv
<1>11. ASSUME NEW t \in Thread, Receive(t) PROVE DataInv'
  BY <1>11, <1>0, ReceiveData DEF Receive
<1>12. ASSUME NEW t \in Thread, ReceiveThrows(t) PROVE DataInv'
  BY <1>12, <1>0, ReceiveThrowsData DEF ReceiveThrows
<1>13. ASSUME NEW t \in Thread, Release(t) PROVE DataInv'
  BY <1>13, <1>0, LocalStep DEF Release, Return, TypeInv, TypeOK, Busy
<1>14. ASSUME NEW t \in Thread, AccessDecrypt(t) PROVE DataInv'
  BY <1>14, <1>00, AccessDecryptData DEF AccessDecrypt
<1>15. ASSUME NEW t \in Thread, AccessRip(t) PROVE DataInv'
  BY <1>15, <1>00, ServerExitsData DEF AccessRip, ServerExits
<1>16. ASSUME NEW t \in Thread, AccessStore(t) PROVE DataInv'
  BY <1>16, <1>00, AccessStoreData DEF AccessStore
<1>17. ASSUME NEW c \in creates, ServeCreate(c) PROVE DataInv'
  BY <1>17, <1>00, ServeCreateData DEF ServeCreate
<1>18. ASSUME RaceCrash PROVE DataInv'
  BY <1>18 DEF RaceCrash, Crashed
<1>19. ASSUME ServerQuit PROVE DataInv'
  BY <1>19, <1>00, ServerExitsData DEF ServerQuit, ServerExits
<1>20. ASSUME ServerRestart \/ UNCHANGED vars PROVE DataInv'
  <2>1. UNCHANGED <<keySet, valueSizes, masterKeys, pc, req, found, entry, ret, db, job,
                    snap, creates, nextKey, written>>
    BY <1>20 DEF ServerRestart, vars
  <2> QED
    BY <2>1, <1>00
    DEF DataInv, FreshInv, KeyInv, RekeyInv, CreateInv, JobInv, BlockIsCurrent,
        AnswersAreCurrent, Crashed, Holds, Rekeyed, Encodes, Carry, K, IsGet
<1> QED
  BY <1>1, <1>2, <1>3, <1>4, <1>5, <1>6, <1>7, <1>8, <1>9, <1>10, <1>11, <1>12,
     <1>13, <1>14, <1>15, <1>16, <1>17, <1>18, <1>19, <1>20
  DEF Next, ThreadStep, ServeAccess, Done

\* After OpScureSetup the preloaded keys agree with the server's db.
LEMMA DataInit == Init => DataStage
BY LblProxyAssumption
   DEF Init, DataStage, DataInv, FreshInv, KeyInv, RekeyInv, CreateInv, JobInv,
       BlockIsCurrent, AnswersAreCurrent, Crashed, Rekeyed, Busy, NoBlock

\* Every GET answers the value last put under its key, as far as the server carries it.
THEOREM AnswersCurrent == Spec => []AnswersAreCurrent
<1>1. LockStage /\ DataStage => AnswersAreCurrent
  BY DEF LockStage, CrashInv, DataStage, DataInv, AnswersAreCurrent
<1> QED
  BY <1>1, TypeInit, TypeStep, LockInit, LockStep, DataInit, DataStep, PTL DEF Spec

\* No stale block is ever stored under the current master key of a key.
THEOREM BlocksCurrent == Spec => []BlockIsCurrent
<1>1. DataStage => BlockIsCurrent
  BY DEF DataStage, DataInv, BlockIsCurrent
<1> QED
  BY <1>1, TypeInit, TypeStep, LockInit, LockStep, DataInit, DataStep, PTL DEF Spec

(***************************************************************************)
(* Stage 4: the proxy implements KVStore                                   *)
(***************************************************************************)
\* Until the answer of a GET is decoded a thread's return value is empty.
RetInv ==
  \A t \in Thread :
    \/ pc[t] \in {"idle", "check", "lock", "construct", "record", "send", "wait"}
    \/ pc[t] = "release" /\ ~IsGet(t)
    => ret[t] = Empty

\* What CallOf makes of each program counter.
LEMMA CallIs ==
  ASSUME NEW t \in Thread
  PROVE  /\ pc[t] = "idle" => CallOf(t) = KV!Idle
         /\ pc[t] \in {"failed", "leaked", "crashed"} => CallOf(t) = KV!Failed
         /\ \/ pc[t] \in {"check", "lock", "construct"}
            \/ IsGet(t) /\ pc[t] \in {"send", "wait"}
            => CallOf(t) = [status |-> "called", req |-> [req[t] EXCEPT !.val = Readable(@)]]
         /\ \/ pc[t] \in {"record", "release"}
            \/ ~IsGet(t) /\ pc[t] \in {"send", "wait"}
            => CallOf(t) = [status |-> "answered", ans |-> ret[t]]
BY DEF CallOf, KV!Idle, KV!Failed

LEMMA CallIsNext ==
  ASSUME NEW t \in Thread
  PROVE  /\ pc'[t] = "idle" => CallOf(t)' = KV!Idle
         /\ pc'[t] \in {"failed", "leaked", "crashed"} => CallOf(t)' = KV!Failed
         /\ \/ pc'[t] \in {"check", "lock", "construct"}
            \/ IsGet(t)' /\ pc'[t] \in {"send", "wait"}
            => CallOf(t)' = [status |-> "called", req |-> [req'[t] EXCEPT !.val = Readable(@)]]
         /\ \/ pc'[t] \in {"record", "release"}
            \/ ~IsGet(t)' /\ pc'[t] \in {"send", "wait"}
            => CallOf(t)' = [status |-> "answered", ans |-> ret'[t]]
BY DEF CallOf, KV!Idle, KV!Failed

\* A step of one thread leaves the calls of the others alone.
LEMMA OthersCall ==
  ASSUME NEW u \in Thread, pc'[u] = pc[u], req'[u] = req[u], ret'[u] = ret[u]
  PROVE  CallOf(u)' = CallOf(u)
BY DEF CallOf, IsGet

\* The abstract state: the store and the calls clients see.
Store == [k \in Key |-> Readable(written[k])]

Calls == [t \in Thread |-> CallOf(t)]

\* A step of thread t changes at most its own call.
LEMMA CallsStep ==
  ASSUME NEW t \in Thread,
         \A u \in Thread \ {t} : pc'[u] = pc[u] /\ req'[u] = req[u] /\ ret'[u] = ret[u]
  PROVE  Calls' = [Calls EXCEPT ![t] = CallOf(t)']
<1>1. \A u \in Thread \ {t} : CallOf(u)' = CallOf(u)
  BY OthersCall
<1> QED
  BY <1>1 DEF Calls

\* A step that leaves the written values and every call as they are stutters.
LEMMA KVStutter ==
  ASSUME written' = written, NEW t \in Thread, CallOf(t)' = CallOf(t),
         \A u \in Thread \ {t} : pc'[u] = pc[u] /\ req'[u] = req[u] /\ ret'[u] = ret[u]
  PROVE  UNCHANGED <<Store, Calls>>
<1>1. Calls' = Calls
  BY CallsStep DEF Calls
<1>2. Store' = Store
  BY DEF Store
<1> QED
  BY <1>1, <1>2

\* An exception that ends the call of one thread is a Fail.
LEMMA KVFails ==
  ASSUME written' = written, NEW t \in Thread,
         pc'[t] \in {"failed", "leaked", "crashed"},
         \A u \in Thread \ {t} : pc'[u] = pc[u] /\ req'[u] = req[u] /\ ret'[u] = ret[u]
  PROVE  KV!Fail
<1>1. CallOf(t)' = KV!Failed
  BY CallIsNext
<1>2. Calls' = [Calls EXCEPT ![t] = KV!Failed]
  BY <1>1, CallsStep
<1>3. Calls' = [u \in Thread |-> IF u \in {t} THEN KV!Failed ELSE Calls[u]]
  BY <1>2 DEF Calls
<1>4. Store' = Store /\ {t} \in SUBSET Thread
  BY DEF Store
<1> QED
  BY <1>3, <1>4 DEF KV!Fail, Calls, Store

\* An abort is a Refuse.
LEMMA KVRefuses ==
  ASSUME TypeInv, written' = written, NEW t \in Thread, pc[t] \in {"check", "lock"}, Return(t)
  PROVE  KV!Refuse(t)
<1>1. /\ pc' = [pc EXCEPT ![t] = "idle"] /\ req' = [req EXCEPT ![t] = NoRequest]
      /\ ret' = [ret EXCEPT ![t] = Empty]
  BY DEF Return
<1>2. /\ pc'[t] = "idle"
      /\ \A u \in Thread \ {t} : pc'[u] = pc[u] /\ req'[u] = req[u] /\ ret'[u] = ret[u]
  BY <1>1 DEF TypeInv, TypeOK
<1>3. Calls' = [Calls EXCEPT ![t] = KV!Idle]
  BY <1>2, CallsStep, CallIsNext
<1>4. Calls[t].status = "called"
  <2>1. CallOf(t) = [status |-> "called", req |-> [req[t] EXCEPT !.val = Readable(@)]]
    BY CallIs
  <2> QED
    BY <2>1 DEF Calls
<1>5. Store' = Store
  BY DEF Store
<1> QED
  BY <1>3, <1>4, <1>5 DEF KV!Refuse, Calls, Store

\* The request of a client is an Invoke of what the store is asked for.
LEMMA KVInvokes ==
  ASSUME TypeInv, NEW t \in Thread, Request(t)
  PROVE  KV!Invoke(t)
<1>1. PICK r \in Requests : req' = [req EXCEPT ![t] = r]
  BY DEF Request
<1>2. pc' = [pc EXCEPT ![t] = "check"] /\ pc[t] = "idle" /\ ret' = ret /\ written' = written
  BY DEF Request
<1>3. /\ pc'[t] = "check" /\ req'[t] = r
      /\ \A u \in Thread \ {t} : pc'[u] = pc[u] /\ req'[u] = req[u] /\ ret'[u] = ret[u]
  BY <1>1, <1>2 DEF TypeInv, TypeOK
<1> DEFINE abstract == [r EXCEPT !.val = Readable(@)]
<1>4. CallOf(t)' = [status |-> "called", req |-> abstract]
  BY <1>3, CallIsNext
<1>5. abstract \in KV!Requests
  <2>1. CASE r \in [op : {"GET"}, key : Key, val : {NoValue}]
    BY <2>1 DEF Readable, KV!Requests
  <2>2. CASE r \in [op : {"PUT"}, key : Key, val : Value]
    <3>1. Readable(r.val) \in Value \union {Garbled}
      BY <2>2, CarryType, LblProxyAssumption DEF Readable
    <3> QED
      BY <2>2, <3>1 DEF KV!Requests
  <2> QED
    BY <2>1, <2>2 DEF Requests
<1> HIDE DEF abstract
<1>6. Calls' = [Calls EXCEPT ![t] = [status |-> "called", req |-> abstract]]
  BY <1>3, <1>4, CallsStep
<1>7. Calls[t] = KV!Idle /\ Store' = Store
  BY <1>2, CallIs DEF Calls, Store
<1> QED
  BY <1>5, <1>6, <1>7 DEF KV!Invoke, Calls, Store

\* What the store is asked for while the call of t has not taken effect.
LEMMA CalledIs ==
  ASSUME TypeInv, NEW t \in Thread, pc[t] \in Busy,
         pc[t] \in {"check", "lock", "construct"} \/ (IsGet(t) /\ pc[t] \in {"send", "wait"})
  PROVE  /\ Calls[t].status = "called" /\ Calls[t].req.op = req[t].op
         /\ Calls[t].req.key = K(t) /\ Calls[t].req.val = Readable(req[t].val)
         /\ req[t].op \in {"GET", "PUT"}
<1> DEFINE abstract == [req[t] EXCEPT !.val = Readable(@)]
<1>1. Calls[t] = [status |-> "called", req |-> abstract]
  BY CallIs DEF Calls
<1>2. req[t] \in Requests
  BY DEF TypeInv, RequestInv
<1>3. /\ abstract.op = req[t].op /\ abstract.key = req[t].key
      /\ abstract.val = Readable(req[t].val) /\ req[t].op \in {"GET", "PUT"}
  BY <1>2 DEF Requests
<1> HIDE DEF abstract
<1>4. Calls[t].status = "called" /\ Calls[t].req = abstract
  BY <1>1
<1> QED
  BY <1>3, <1>4 DEF K

\* A PUT takes effect when its fresh master key replaces the old one.
LEMMA KVPuts ==
  ASSUME TypeInv, RetInv, NEW t \in Thread, Construct(t), ~IsGet(t)
  PROVE  KV!Put(t)
<1>1. /\ pc[t] = "construct" /\ pc[t] \in Busy /\ pc' = [pc EXCEPT ![t] = "record"]
      /\ UNCHANGED <<req, ret>> /\ written' = [written EXCEPT ![K(t)] = req[t].val]
  BY DEF Construct, NowWritten, Busy
<1>2. K(t) \in Key /\ req[t].val \in Value
  BY <1>1, RequestTypes
<1>3. /\ Calls[t].status = "called" /\ Calls[t].req.op = "PUT"
      /\ Calls[t].req.key = K(t) /\ Calls[t].req.val = Readable(req[t].val)
  BY <1>1, CalledIs DEF IsGet
<1>4. /\ pc'[t] = "record"
      /\ \A u \in Thread \ {t} : pc'[u] = pc[u] /\ req'[u] = req[u] /\ ret'[u] = ret[u]
  BY <1>1 DEF TypeInv, TypeOK
<1>5. CallOf(t)' = [status |-> "answered", ans |-> Empty]
  BY <1>1, <1>4, CallIsNext DEF RetInv
<1>6. Calls' = [Calls EXCEPT ![t] = [status |-> "answered", ans |-> Empty]]
  BY <1>4, <1>5, CallsStep
<1>7. Store' = [Store EXCEPT ![K(t)] = Readable(req[t].val)]
  BY <1>1, <1>2 DEF Store, TypeInv, TypeOK
<1> QED
  BY <1>3, <1>6, <1>7 DEF KV!Put, Calls, Store

\* A GET takes effect when its answer is decoded: it is the value of the store now.
LEMMA KVGets ==
  ASSUME TypeInv, LockStage, DataStage, DataStage', NEW t \in Thread, Receive(t), IsGet(t)
  PROVE  KV!Get(t)
<1>1. /\ pc[t] = "wait" /\ pc[t] \in Busy /\ pc' = [pc EXCEPT ![t] = "release"]
      /\ UNCHANGED <<req, written>>
      /\ ret' = [ret EXCEPT ![t] = ReadValueFromLabels(K(t), snap[t])]
  BY DEF Receive, Busy
<1>2. K(t) \in Key
  BY <1>1, RequestTypes
<1>3. /\ pc'[t] = "release" /\ IsGet(t)' /\ K(t)' = K(t)
      /\ \A u \in Thread \ {t} : pc'[u] = pc[u] /\ req'[u] = req[u] /\ ret'[u] = ret[u]
  BY <1>1 DEF TypeInv, TypeOK, IsGet, K
<1>4. ~Crashed /\ ~Crashed'
  BY <1>1, <1>3 DEF LockStage, CrashInv, Crashed
<1>5. written[K(t)] \in Value
  <2>1. found[t]
    BY <1>1 DEF TypeInv, RequestInv
  <2> QED
    BY <1>1, <1>2, <1>4, <2>1 DEF DataStage, DataInv, KeyInv, Busy
<1>6. ret'[t] = Carry(written[K(t)])
  <2>1. AnswersAreCurrent'
    BY <1>4 DEF DataStage, DataInv
  <2>2. ret'[t] = Carry(written'[K(t)'])
    BY <1>3, <2>1 DEF AnswersAreCurrent, Carry, Carried
  <2> QED
    BY <1>1, <1>3, <2>2
<1>7. /\ Calls[t].status = "called" /\ Calls[t].req.op = "GET" /\ Calls[t].req.key = K(t)
  BY <1>1, CalledIs DEF IsGet
<1>8. Store[K(t)] = Carry(written[K(t)]) /\ Store[K(t)] # NoValue
  <2>1. written[K(t)] # NoValue /\ Carry(written[K(t)]) # NoValue
    BY <1>5, LblProxyAssumption, CarryType
  <2> QED
    BY <1>2, <2>1 DEF Store, Readable
<1>9. Calls' = [Calls EXCEPT ![t] = [status |-> "answered", ans |-> Store[K(t)]]]
  <2>1. CallOf(t)' = [status |-> "answered", ans |-> ret'[t]]
    BY <1>3, CallIsNext
  <2> QED
    BY <1>3, <1>6, <1>8, <2>1, CallsStep
<1>10. Store' = Store
  BY <1>1 DEF Store
<1>11. Calls' = [Calls EXCEPT ![t] = [status |-> "answered", ans |-> Store[@.req.key]]]
  BY <1>7, <1>9 DEF Calls
<1> QED
  BY <1>7, <1>8, <1>10, <1>11 DEF KV!Get, Calls, Store

\* The release of the lock answers the client.
LEMMA KVReturns ==
  ASSUME TypeInv, NEW t \in Thread, Release(t)
  PROVE  KV!Return(t)
<1>1. /\ pc[t] = "release" /\ pc' = [pc EXCEPT ![t] = "idle"]
      /\ req' = [req EXCEPT ![t] = NoRequest] /\ ret' = [ret EXCEPT ![t] = Empty]
      /\ written' = written
  BY DEF Release, Return
<1>2. /\ pc'[t] = "idle"
      /\ \A u \in Thread \ {t} : pc'[u] = pc[u] /\ req'[u] = req[u] /\ ret'[u] = ret[u]
  BY <1>1 DEF TypeInv, TypeOK
<1>3. Calls' = [Calls EXCEPT ![t] = KV!Idle]
  BY <1>2, CallsStep, CallIsNext
<1>4. Calls[t].status = "answered"
  <2>1. CallOf(t) = [status |-> "answered", ans |-> ret[t]]
    BY <1>1, CallIs
  <2> QED
    BY <2>1 DEF Calls
<1>5. Store' = Store
  BY <1>1 DEF Store
<1> QED
  BY <1>3, <1>4, <1>5 DEF KV!Return, Calls, Store

\* The return value is empty outside the release of a GET.
LEMMA RetStep == TypeInv /\ RetInv /\ [Next]_vars => RetInv'
<1> SUFFICES ASSUME TypeInv, RetInv, [Next]_vars PROVE RetInv'
  OBVIOUS
<1> USE DEF RetInv, IsGet, maps, proxyVars, threadVars, serverVars
<1> DEFINE Silent(t) == /\ pc[t] # "release" /\ ret' = ret /\ UNCHANGED req
                        /\ \E p \in {"lock", "construct", "record", "send", "wait",
                                      "release", "failed", "leaked"} :
                             /\ pc' = [pc EXCEPT ![t] = p]
                             /\ pc[t] \notin {"failed", "leaked", "crashed"}
<1>1. ASSUME NEW t \in Thread, Silent(t) PROVE RetInv'
  BY <1>1 DEF TypeInv, TypeOK
<1>2. ASSUME NEW t \in Thread, Return(t) PROVE RetInv'
  BY <1>2 DEF Return, TypeInv, TypeOK
<1>3. ASSUME NEW t \in Thread, Request(t) PROVE RetInv'
  BY <1>3 DEF Request, TypeInv, TypeOK
<1>4. ASSUME NEW t \in Thread, Receive(t) PROVE RetInv'
  BY <1>4 DEF Receive, TypeInv, TypeOK
<1>5. ASSUME NEW t \in Thread, ThreadStep(t), ~Receive(t) PROVE RetInv'
  <2>1. CASE Check(t)
    BY <2>1, <1>1, <1>2 DEF Check, Proceed, Abort
  <2>2. CASE TryLock(t)
    BY <2>2, <1>1, <1>2 DEF TryLock, Acquire, Abort
  <2>3. CASE Construct(t)
    BY <2>3, <1>1 DEF Construct
  <2>4. CASE ConstructThrows(t) \/ Record(t) \/ SendCreate(t) \/ SendAccess(t)
              \/ SendThrows(t) \/ ReceiveThrows(t)
    BY <2>4, <1>1
    DEF ConstructThrows, Record, SendCreate, SendAccess, SendThrows, ReceiveThrows
  <2>5. CASE Release(t)
    BY <2>5, <1>2 DEF Release
  <2> QED
    BY <1>5, <2>1, <2>2, <2>3, <2>4, <2>5 DEF ThreadStep
<1>6. ASSUME NEW t \in Thread, RequestRefused(t) PROVE RetInv'
  BY <1>6, <1>1 DEF RequestRefused
<1>7. CASE RaceCrash
  BY <1>7 DEF RaceCrash
<1>8. ASSUME UNCHANGED <<pc, req, ret>> PROVE RetInv'
  BY <1>8
<1>9. ASSUME NEW t \in Thread, ServeAccess(t) PROVE RetInv'
  BY <1>9, <1>8 DEF ServeAccess, AccessDecrypt, AccessRip, AccessStore, ServerExits
<1>10. ASSUME NEW c \in creates, ServeCreate(c) PROVE RetInv'
  BY <1>10, <1>8 DEF ServeCreate
<1>11. CASE ServerQuit \/ ServerRestart \/ Done \/ UNCHANGED vars
  BY <1>11, <1>8 DEF ServerQuit, ServerExits, ServerRestart, Done, vars
<1> QED
  BY <1>3, <1>4, <1>5, <1>6, <1>7, <1>9, <1>10, <1>11 DEF Next

\* Every step of the proxy and the server is a step of the store, or none.
LEMMA KVStep ==
  TypeInv /\ LockStage /\ DataStage /\ DataStage' /\ RetInv /\ [Next]_vars
    => [KV!Next]_<<Store, Calls>>
<1> SUFFICES ASSUME TypeInv, LockStage, DataStage, DataStage', RetInv, [Next]_vars
             PROVE  KV!Next \/ UNCHANGED <<Store, Calls>>
  OBVIOUS
<1> USE DEF maps, proxyVars, threadVars, serverVars
<1> DEFINE Goal == KV!Next \/ UNCHANGED <<Store, Calls>>
<1>1. ASSUME NEW t \in Thread,
             KV!Invoke(t) \/ KV!Get(t) \/ KV!Put(t) \/ KV!Refuse(t) \/ KV!Return(t)
      PROVE  KV!Next
  BY <1>1 DEF KV!Next
<1>2. KV!Fail => KV!Next
  BY DEF KV!Next
<1> HIDE DEF Goal
<1>3. ASSUME NEW t \in Thread, written' = written, UNCHANGED <<req, ret>>,
             \E p \in {"failed", "leaked"} : pc' = [pc EXCEPT ![t] = p]
      PROVE  KV!Next
  <2>1. /\ pc'[t] \in {"failed", "leaked"}
        /\ \A u \in Thread \ {t} : pc'[u] = pc[u] /\ req'[u] = req[u] /\ ret'[u] = ret[u]
    BY <1>3 DEF TypeInv, TypeOK
  <2> QED
    BY <1>2, <1>3, <2>1, KVFails
<1>4. ASSUME NEW t \in Thread, written' = written, UNCHANGED <<req, ret>>,
             \/ /\ pc[t] \in {"check", "lock"}
                /\ \E p \in {"lock", "construct"} : pc' = [pc EXCEPT ![t] = p]
             \/ /\ pc[t] \in {"record", "send", "wait"} /\ ~IsGet(t)
                /\ \E p \in {"send", "wait", "release"} : pc' = [pc EXCEPT ![t] = p]
             \/ /\ pc[t] \in {"construct", "send"} /\ IsGet(t)
                /\ \E p \in {"send", "wait"} : pc' = [pc EXCEPT ![t] = p]
      PROVE  UNCHANGED <<Store, Calls>>
  <2>1. /\ \A u \in Thread \ {t} : pc'[u] = pc[u] /\ req'[u] = req[u] /\ ret'[u] = ret[u]
        /\ req'[t] = req[t] /\ ret'[t] = ret[t] /\ IsGet(t)' = IsGet(t)
    BY <1>4 DEF TypeInv, TypeOK, IsGet
  <2>2. CallOf(t)' = CallOf(t)
    <3>1. CASE /\ pc[t] \in {"check", "lock"}
               /\ \E p \in {"lock", "construct"} : pc' = [pc EXCEPT ![t] = p]
      <4>1. pc'[t] \in {"check", "lock", "construct"}
        BY <3>1 DEF TypeInv, TypeOK
      <4> QED
        BY <2>1, <3>1, <4>1, CallIs, CallIsNext
    <3>2. CASE /\ pc[t] \in {"record", "send", "wait"} /\ ~IsGet(t)
               /\ \E p \in {"send", "wait", "release"} : pc' = [pc EXCEPT ![t] = p]
      <4>1. pc'[t] \in {"send", "wait", "release"}
        BY <3>2 DEF TypeInv, TypeOK
      <4> QED
        BY <2>1, <3>2, <4>1, CallIs, CallIsNext
    <3>3. CASE /\ pc[t] \in {"construct", "send"} /\ IsGet(t)
               /\ \E p \in {"send", "wait"} : pc' = [pc EXCEPT ![t] = p]
      <4>1. pc'[t] \in {"send", "wait"}
        BY <3>3 DEF TypeInv, TypeOK
      <4> QED
        BY <2>1, <3>3, <4>1, CallIs, CallIsNext
    <3> QED
      BY <1>4, <3>1, <3>2, <3>3
  <2> QED
    BY <1>4, <2>1, <2>2, KVStutter
<1>5. ASSUME UNCHANGED <<pc, req, ret, written>> PROVE UNCHANGED <<Store, Calls>>
  BY <1>5, OthersCall DEF Store, Calls
<1>6. ASSUME NEW t \in Thread, Request(t) \/ RequestRefused(t) PROVE Goal
  BY <1>6, <1>1, <1>3, KVInvokes DEF RequestRefused, Goal
<1>7. ASSUME NEW t \in Thread, Check(t) \/ TryLock(t) PROVE Goal
  <2>1. pc[t] \in {"check", "lock"}
    BY <1>7 DEF Check, TryLock
  <2>2. CASE Abort(t)
    BY <1>1, <2>1, <2>2, KVRefuses DEF Abort, Goal
  <2>3. CASE Acquire(t) \/ \E present \in BOOLEAN : Proceed(t, present)
    BY <1>4, <2>1, <2>3 DEF Acquire, Proceed, Goal
  <2> QED
    BY <1>7, <2>2, <2>3 DEF Check, TryLock, Lookup
<1>8. ASSUME NEW t \in Thread, Construct(t) PROVE Goal
  <2>1. CASE IsGet(t)
    BY <1>4, <1>8, <2>1 DEF Construct, NowWritten, Goal
  <2>2. CASE ~IsGet(t)
    BY <1>1, <1>8, <2>2, KVPuts DEF Goal
  <2> QED
    BY <2>1, <2>2
<1>9. ASSUME NEW t \in Thread, ConstructThrows(t) \/ SendThrows(t) \/ ReceiveThrows(t)
      PROVE  Goal
  BY <1>3, <1>9 DEF ConstructThrows, SendThrows, ReceiveThrows, Goal
<1>10. ASSUME NEW t \in Thread, Record(t) \/ SendCreate(t) PROVE Goal
  <2>1. ~IsGet(t)
    BY <1>10 DEF Record, SendCreate, TypeInv, RequestInv, Busy
  <2> QED
    BY <1>4, <1>10, <2>1 DEF Record, SendCreate, Goal
<1>11. ASSUME NEW t \in Thread, SendAccess(t) PROVE Goal
  BY <1>4, <1>11 DEF SendAccess, Goal
<1>12. ASSUME NEW t \in Thread, Receive(t) PROVE Goal
  <2>1. CASE IsGet(t)
    BY <1>1, <1>12, <2>1, KVGets DEF Goal
  <2>2. CASE ~IsGet(t)
    <3>1. ret' = ret
      BY <1>12, <2>2 DEF Receive, TypeInv, TypeOK
    <3> QED
      BY <1>4, <1>12, <2>2, <3>1 DEF Receive, Goal
  <2> QED
    BY <2>1, <2>2
<1>13. ASSUME NEW t \in Thread, Release(t) PROVE Goal
  BY <1>1, <1>13, KVReturns DEF Goal
<1>14. ASSUME NEW t \in Thread, ServeAccess(t) PROVE Goal
  BY <1>5, <1>14 DEF ServeAccess, AccessDecrypt, AccessRip, AccessStore, ServerExits, Goal
<1>15. ASSUME NEW c \in creates, ServeCreate(c) PROVE Goal
  BY <1>5, <1>15 DEF ServeCreate, Goal
<1>16. CASE ServerQuit \/ ServerRestart \/ Done \/ UNCHANGED vars
  BY <1>5, <1>16 DEF ServerQuit, ServerExits, ServerRestart, Done, vars, Goal
<1>17. CASE RaceCrash
  <2>1. \A t \in Thread : CallOf(t)' = KV!Failed
    <3> SUFFICES ASSUME NEW t \in Thread PROVE CallOf(t)' = KV!Failed
      OBVIOUS
    <3>1. pc'[t] = "crashed"
      BY <1>17 DEF RaceCrash
    <3> QED
      BY <3>1, CallIsNext
  <2>2. Calls' = [t \in Thread |-> IF t \in Thread THEN KV!Failed ELSE Calls[t]]
    BY <2>1 DEF Calls
  <2>3. Store' = Store
    BY <1>17 DEF RaceCrash, Store
  <2>4. KV!Fail
    BY <2>2, <2>3 DEF KV!Fail, Calls, Store
  <2> QED
    BY <1>2, <2>4 DEF Goal
<1> QED
  BY <1>6, <1>7, <1>8, <1>9, <1>10, <1>11, <1>12, <1>13, <1>14, <1>15, <1>16, <1>17
  DEF Next, ThreadStep, Goal

\* After OpScureSetup the store holds the preloaded values, and nobody has called.
LEMMA KVInit == Init => KV!Init /\ RetInv
<1> SUFFICES ASSUME Init PROVE KV!Init /\ RetInv
  OBVIOUS
<1>1. Store = [k \in Key |-> IF k \in Preloaded THEN Carry(InitialValue) ELSE NoValue]
  BY LblProxyAssumption DEF Init, Store, Readable
<1>2. \A t \in Thread : CallOf(t) = KV!Idle
  BY CallIs DEF Init
<1>3. Calls = [t \in Thread |-> KV!Idle]
  BY <1>2 DEF Calls
<1> QED
  BY <1>1, <1>3 DEF Init, KV!Init, RetInv, Store, Calls

\* The proxy and its server implement the key-value store: every call takes effect at
\* one moment or not at all, whatever threads, late creates and exits interleave.
THEOREM ProxyImplementsKV == Spec => ImplementsKV
<1>1. TypeInv /\ LockStage /\ DataStage /\ DataStage' /\ RetInv /\ [Next]_vars
        => [KV!Next]_<<[k \in Key |-> Readable(written[k])], [t \in Thread |-> CallOf(t)]>>
  BY KVStep DEF Store, Calls
<1> QED
  BY <1>1, KVInit, TypeInit, TypeStep, LockInit, LockStep, DataInit, DataStep, RetStep, PTL
  DEF Spec, ImplementsKV, KV!Spec

(***************************************************************************)
(* Stage 5: the end of the process and its next start (LblProxySave).      *)
(*                                                                         *)
(* Everything is said of one key at a time, and only of keys that are not  *)
(* exposed, by a server that was never quit.                               *)
(***************************************************************************)
Maps == [keySet : SUBSET Key, valueSizes : [Key -> Nat], masterKeys : [Key -> Nat]]

Orphans == [key : Key, old : Nat, new : Nat, get : BOOLEAN, val : Value \union {NoValue},
            block : Block]

SaveTypeInv ==
  /\ TypeInv
  /\ file \in Maps
  /\ main \in {"serve", "sizes", "keys", "exit", "down"}
  /\ stops \in Nat
  /\ orphans \subseteq Orphans
  /\ exposed \subseteq Key

\* Between processes there are no threads.
DownInv ==
  main = "down" => \A t \in Thread : pc[t] = "idle" /\ job[t] = "none" /\ conn[t] = "closed"

SaveLockInv == main # "down" => LockStage

\* What a thread of a process that has not crashed knows of its own operation.
ThreadInv ==
  ~Crashed =>
    /\ \A k \in Key : masterKeys[k] < nextKey /\ file.masterKeys[k] < nextKey
    /\ \A t \in Thread :
         /\ job[t] # "none" => pc[t] = "wait"
         /\ pc[t] \in Busy \ {"check"} /\ found[t] => K(t) \in keySet
         /\ Rekeyed(t) => /\ entry[t].new = masterKeys[K(t)] /\ entry[t].old < entry[t].new
                          /\ ~IsGet(t) => written[K(t)] = req[t].val

Unbroken == serverUp /\ restarts = 0

\* A server that was never quit has broken no connection.
UnbrokenInv ==
  Unbroken => \A t \in Thread : /\ conn[t] # "dead" /\ job[t] # "broken"
                                /\ pc[t] \in Busy => conn[t] = "open"

CreatesOf(k) == {c \in creates : c.key = k}

\* The server has a block of key k under master key g, or will have once it has
\* served the only create of k.
AtKey(k, g) ==
  \/ CreatesOf(k) = {} /\ db[k].mk = g
  \/ \E c \in CreatesOf(k) : CreatesOf(k) = {c} /\ c.mk = g /\ db[k].mk # g

Current(k) ==
  /\ CreatesOf(k) = {} => db[k].val \in {written[k], Carry(written[k])}
  /\ \A c \in CreatesOf(k) : c.val = written[k]

\* A new master key that the server has not stored yet.
Early(t) == pc[t] \in {"record", "send"} \/ (pc[t] = "wait" /\ job[t] # "stored")

\* The maps and the server agree on key k, except for what its holder is changing.
KeyOK(k) ==
  /\ \A t \in Thread : Early(t) /\ K(t) = k =>
       /\ AtKey(k, entry[t].old)
       /\ IsGet(t) => Current(k)
       /\ job[t] = "decrypted" =>
            /\ CreatesOf(k) = {}
            /\ snap[t] = [mk |-> entry[t].new, val |-> Carry(written[k])]
  /\ (\A t \in Thread : ~(Early(t) /\ K(t) = k)) => AtKey(k, masterKeys[k]) /\ Current(k)
  /\ (\A t \in Thread : ~(pc[t] = "record" /\ K(t) = k)) =>
       /\ k \in keySet <=> written[k] # NoValue
       /\ k \in keySet => valueSizes[k] = Size[written[k]]

KeysInv ==
  Unbroken /\ ~Crashed /\ main # "down" => \A k \in Key \ exposed : KeyOK(k)

\* What the file has of key k opens the block the server has.
FileOK(k) ==
  /\ CreatesOf(k) = {} /\ db[k].mk = file.masterKeys[k]
  /\ db[k].val \in {written[k], Carry(written[k])}
  /\ k \in file.keySet <=> written[k] # NoValue
  /\ k \in file.keySet => file.valueSizes[k] = Size[written[k]]

FileInv == Unbroken /\ main = "down" => \A k \in Key \ exposed : FileOK(k)

\* Keys somebody works on during a save are exposed; of the others the file has what the
\* maps have, as far as it is written.
SavingInv ==
  /\ \A o \in orphans : o.key \in exposed
  /\ Saving => UnderWay \subseteq exposed
  /\ Saving =>
       \A k \in Key \ exposed :
         /\ k \in file.keySet <=> k \in keySet
         /\ main \in {"keys", "exit"} => file.valueSizes[k] = valueSizes[k]
         /\ main = "exit" => file.masterKeys[k] = masterKeys[k]

\* Accesses at the server, which outlive a crash of their process.
AccessInv ==
  /\ \A t \in Thread : job[t] # "none" => K(t) \in Key
  /\ \A t, u \in Thread : job[t] # "none" /\ job[u] # "none" /\ K(t) = K(u) => t = u
  /\ Unbroken => \A t \in Thread : job[t] = "sent" /\ K(t) \notin exposed =>
                                     AtKey(K(t), entry[t].old)

SaveInv ==
  /\ SaveTypeInv /\ DownInv /\ SaveLockInv /\ ThreadInv /\ UnbrokenInv
  /\ KeysInv /\ FileInv /\ SavingInv /\ AccessInv

(***************************************************************************)
(* Types, and what can happen between processes                            *)
(***************************************************************************)
\* Without a process only the server takes steps.
LEMMA DownSteps ==
  ASSUME TypeInv, DownInv, main = "down", Next, UNCHANGED threadVars
  PROVE  (\E c \in creates : ServeCreate(c)) \/ ServerQuit \/ ServerRestart \/ UNCHANGED vars
<1>0. \A t \in Thread : pc[t] = "idle" /\ job[t] = "none"
  BY DEF DownInv
<1>1. pc' = pc
  BY DEF threadVars
<1>2. ASSUME NEW t \in Thread, Request(t) \/ RequestRefused(t) PROVE FALSE
  BY <1>0, <1>1, <1>2 DEF Request, RequestRefused, TypeInv, TypeOK
<1>3. ASSUME NEW t \in Thread, ThreadStep(t) PROVE FALSE
  BY <1>0, <1>3
  DEF ThreadStep, Check, TryLock, Construct, ConstructThrows, Record, SendCreate, SendAccess,
      SendThrows, Receive, ReceiveThrows, Release
<1>4. ASSUME NEW t \in Thread, ServeAccess(t) PROVE FALSE
  BY <1>0, <1>4 DEF ServeAccess, AccessDecrypt, AccessRip, AccessStore, AtServer
<1>5. ~RaceCrash
  BY <1>0, <1>1 DEF RaceCrash
<1> QED
  BY <1>2, <1>3, <1>4, <1>5 DEF Next, Done

LEMMA NoMapsType == NoMaps \in Maps
BY DEF NoMaps, Maps

LEMMA OrphanType ==
  ASSUME TypeInv, ThreadInv, ~Crashed, NEW t \in Thread, job[t] # "none"
  PROVE  Orphan(t) \in Orphans /\ Holds(t, K(t)) /\ K(t) \in Key
<1>1. pc[t] = "wait"
  BY DEF ThreadInv
<1>2. req[t] \in Requests
  BY <1>1 DEF TypeInv, RequestInv, Busy
<1>3. K(t) \in Key /\ req[t].val \in Value \union {NoValue}
  BY <1>2 DEF Requests, K
<1>4. IsGet(t) \in BOOLEAN
  BY Zenon DEF IsGet
<1>5. entry[t].old \in Nat /\ entry[t].new \in Nat /\ snap[t] \in Block /\ NoBlock \in Block
  BY DEF TypeInv, TypeOK, Block, NoBlock
<1>6. (IF job[t] = "sent" THEN NoBlock ELSE snap[t]) \in Block
  BY <1>5
<1> DEFINE b == IF job[t] = "sent" THEN NoBlock ELSE snap[t]
           g == IsGet(t)
           kk == K(t)
<1>7. b \in Block /\ g \in BOOLEAN /\ kk \in Key
  BY <1>3, <1>4, <1>6
<1>8. Orphan(t) = [key |-> kk, old |-> entry[t].old, new |-> entry[t].new, get |-> g,
                   val |-> req[t].val, block |-> b]
  BY DEF Orphan
<1> HIDE DEF b, g, kk
<1>9. Orphan(t) \in Orphans
  BY <1>3, <1>5, <1>7, <1>8 DEF Orphans
<1> QED
  BY <1>1, <1>3, <1>9 DEF Holds, Holding

\* A step that leaves the threads and the maps alone keeps their types.
LEMMA TypeStutter == TypeInv /\ UNCHANGED vars => TypeInv'
BY TypeStep

LEMMA SaveTypeStep ==
  ASSUME SaveTypeInv, DownInv, ThreadInv, [SaveNext]_allVars
  PROVE  SaveTypeInv'
<1> USE DEF SaveTypeInv
<1>1. CASE Next /\ Meanwhile
  <2>1. TypeInv'
    BY <1>1, TypeStep
  <2>2. UnderWay' \subseteq Key /\ Unordered' \subseteq Key
    <3>1. creates' \subseteq [from : Thread, key : Key, mk : Nat, val : Value]
      BY <2>1 DEF TypeInv, TypeOK
    <3>2. orphans' \subseteq Orphans
      BY <1>1 DEF Meanwhile
    <3> QED
      BY <3>1, <3>2 DEF UnderWay, Unordered, Orphans
  <2> QED
    BY <1>1, <2>1, <2>2 DEF Meanwhile
<1>2. CASE SaveKeySet \/ SaveValueSizes \/ SaveMasterKeys
  <2>1. UNCHANGED vars /\ UNCHANGED orphans
    BY <1>2 DEF SaveKeySet, SaveValueSizes, SaveMasterKeys
  <2>2. TypeInv'
    BY <2>1, TypeStutter
  <2>3. UnderWay \subseteq Key
    BY DEF UnderWay, TypeInv, TypeOK, Orphans
  <2>4. file' \in Maps
    BY <1>2, NoMapsType
    DEF SaveKeySet, SaveValueSizes, SaveMasterKeys, MasterKeysSaved, Maps, TypeInv, TypeOK
  <2> QED
    BY <1>2, <2>1, <2>2, <2>3, <2>4 DEF SaveKeySet, SaveValueSizes, SaveMasterKeys
<1>3. CASE SaveCrash
  <2>1. TypeInv'
    BY <1>3
    DEF SaveCrash, TypeInv, TypeOK, RequestInv, Busy, proxyVars, maps, serverVars
  <2> QED
    BY <1>3, <2>1, NoMapsType DEF SaveCrash
<1>4. CASE Exit
  <2>1. TypeInv'
    BY <1>4, LblProxyAssumption
    DEF Exit, TypeInv, TypeOK, RequestInv, Busy, NoEntry, NoBlock, Block, NoMaps
  <2>2. orphans' \subseteq Orphans
    BY <1>4, OrphanType DEF Exit
  <2> QED
    BY <1>4, <2>1, <2>2 DEF Exit
<1>5. CASE Setup
  <2>1. TypeInv'
    BY <1>5
    DEF Setup, TypeInv, TypeOK, RequestInv, Busy, threadVars, serverVars, Maps, IsGet
  <2> QED
    BY <1>5, <2>1 DEF Setup
<1>6. ASSUME NEW o \in orphans, OrphanDecrypt(o) PROVE SaveTypeInv'
  <2>1. TypeInv'
    BY <1>6, TypeStutter DEF OrphanDecrypt
  <2> DEFINE b == [mk |-> o.new, val |-> Carry(IF o.get THEN db[o.key].val ELSE o.val)]
  <2>2. b \in Block
    BY CarryType DEF Block, Orphans
  <2> HIDE DEF b
  <2>3. [o EXCEPT !.block = b] \in Orphans
    BY <2>2 DEF Orphans
  <2> QED
    BY <1>6, <2>1, <2>3 DEF OrphanDecrypt, b
<1>7. ASSUME NEW o \in orphans, OrphanStore(o) PROVE SaveTypeInv'
  <2>1. TypeInv'
    BY <1>7
    DEF OrphanStore, TypeInv, TypeOK, RequestInv, Orphans, proxyVars, maps, threadVars, IsGet
  <2> QED
    BY <1>7, <2>1 DEF OrphanStore
<1>8. ASSUME NEW o \in orphans, OrphanRip(o) PROVE SaveTypeInv'
  <2>1. TypeInv'
    BY <1>8, ServerExitsType DEF OrphanRip, TypeInv, TypeOK
  <2> QED
    BY <1>8, <2>1 DEF OrphanRip
<1>9. CASE UNCHANGED allVars
  BY <1>9, TypeStutter DEF allVars, saveVars
<1> QED
  BY <1>1, <1>2, <1>3, <1>4, <1>5, <1>6, <1>7, <1>8, <1>9 DEF SaveNext, ServeOrphan

(***************************************************************************)
(* Threads, locks and connections                                          *)
(***************************************************************************)
\* A step of the server keeps what threads know of their operations.
LEMMA ThreadServer ==
  ASSUME ThreadInv, UNCHANGED <<maps, pc, req, found, entry, nextKey, written, file>>,
         \A t \in Thread : job[t] = "none" => job'[t] = "none"
  PROVE  ThreadInv'
BY DEF ThreadInv, Crashed, Rekeyed, K, IsGet, maps

\* The server's jobs after it exited.
LEMMA ExitJobs ==
  ASSUME ServerExits, NEW t \in Thread
  PROVE  job'[t] = job[t] \/ (job[t] # "none" /\ job'[t] = "broken")
<1>1. PICK answered \in SUBSET {u \in Thread : job[u] = "stored"} :
        job' = [u \in Thread |-> IF job[u] = "none" \/ u \in answered THEN job[u]
                                 ELSE "broken"]
  BY DEF ServerExits
<1> QED
  BY <1>1

LEMMA ThreadNext ==
  ASSUME TypeInv, file \in Maps, LockStage, ThreadInv, Next, UNCHANGED file
  PROVE  ThreadInv'
<1> SUFFICES ASSUME ~Crashed' PROVE ThreadInv'
  BY DEF ThreadInv
<1>0. ASSUME NEW t \in Thread, pc[t] # "crashed" PROVE ~Crashed
  BY <1>0 DEF LockStage, CrashInv, Crashed
<1>t. TypeInv'
  BY TypeStep
<1> USE DEF maps, proxyVars, threadVars, serverVars
\* Outside the section from the new master key to the release a thread changes nothing.
<1>1. ASSUME NEW t \in Thread, ~Crashed,
             UNCHANGED <<keySet, masterKeys, nextKey, written, job>>,
             \A u \in Thread \ {t} :
               /\ pc'[u] = pc[u] /\ req'[u] = req[u] /\ found'[u] = found[u]
               /\ entry'[u] = entry[u],
             pc[t] # "wait" \/ job[t] = "none", ~Rekeyed(t)',
             pc'[t] \in Busy \ {"check"} /\ found'[t] => req'[t].key \in keySet
      PROVE  ThreadInv'
  BY <1>1 DEF ThreadInv, Rekeyed, K, IsGet
<1>2. ASSUME NEW t \in Thread, Request(t) PROVE ThreadInv'
  BY <1>0, <1>1, <1>2 DEF Request, TypeInv, TypeOK, Busy, Rekeyed
<1>3. ASSUME NEW t \in Thread, RequestRefused(t) PROVE ThreadInv'
  BY <1>0, <1>1, <1>3 DEF RequestRefused, TypeInv, TypeOK, Busy, Rekeyed
<1>4. ASSUME NEW t \in Thread, Abort(t), pc[t] \in {"check", "lock"} PROVE ThreadInv'
  BY <1>0, <1>1, <1>4 DEF Abort, Return, TypeInv, TypeOK, Busy, Rekeyed
<1>5. ASSUME NEW t \in Thread, Check(t) PROVE ThreadInv'
  <2>1. PICK present \in Lookup(t) :
          \/ (present \/ ~IsGet(t)) /\ Proceed(t, present)
          \/ (~present /\ IsGet(t)) /\ Abort(t) /\ UNCHANGED locks
    BY <1>5 DEF Check
  <2>2. pc[t] = "check" /\ ~Crashed /\ (present => K(t) \in keySet)
    BY <1>0, <1>5 DEF Check, Lookup
  <2>3. CASE Proceed(t, present)
    BY <1>1, <2>2, <2>3 DEF Proceed, TypeInv, TypeOK, K, Rekeyed
  <2> QED
    BY <1>4, <2>1, <2>2, <2>3
<1>6. ASSUME NEW t \in Thread, TryLock(t) PROVE ThreadInv'
  <2>1. pc[t] = "lock" /\ ~Crashed
    BY <1>0, <1>6 DEF TryLock
  <2>2. CASE Acquire(t)
    BY <1>1, <2>1, <2>2 DEF Acquire, TypeInv, TypeOK, Busy, K, ThreadInv, Rekeyed
  <2> QED
    BY <1>4, <1>6, <2>1, <2>2 DEF TryLock
<1>7. ASSUME NEW t \in Thread, Construct(t) PROVE ThreadInv'
  <2> DEFINE k == K(t)
  <2>1. /\ pc[t] = "construct" /\ k \in Key /\ ~Crashed
        /\ \A u \in Thread : pc'[u] = IF u = t THEN IF IsGet(t) THEN "send" ELSE "record"
                                      ELSE pc[u]
        /\ \A u \in Thread : entry'[u] = IF u = t THEN [old |-> masterKeys[k], new |-> nextKey]
                                         ELSE entry[u]
        /\ \A l \in Key : masterKeys'[l] = IF l = k THEN nextKey ELSE masterKeys[l]
        /\ \A l \in Key : written'[l] = IF l = k /\ ~IsGet(t) THEN req[t].val ELSE written[l]
        /\ nextKey' = nextKey + 1 /\ nextKey \in Nat
        /\ UNCHANGED <<keySet, req, found, job>>
    BY <1>0, <1>7, RequestTypes DEF Construct, NowWritten, TypeInv, TypeOK, Busy
  <2>2. \A u \in Thread : u # t /\ Rekeyed(u) => K(u) # k /\ K(u) \in Key
    BY <2>1, RequestTypes DEF LockStage, LockExclusion, Holds, Holding, Rekeyed, Busy
  <2>3. \A l \in Key : masterKeys[l] < nextKey /\ file.masterKeys[l] < nextKey
                       /\ masterKeys[l] \in Nat
    BY <2>1 DEF ThreadInv, TypeInv, TypeOK
  <2>4. \A l \in Key : file'.masterKeys[l] < nextKey' /\ masterKeys'[l] < nextKey'
    <3> SUFFICES ASSUME NEW l \in Key
                 PROVE  file.masterKeys[l] < nextKey + 1 /\ masterKeys'[l] < nextKey + 1
      BY <2>1
    <3>0. file.masterKeys[l] \in Nat
      BY DEF Maps
    <3> QED
      BY <2>1, <2>3, <3>0
  <2> HIDE DEF k
  <2>5. ASSUME NEW u \in Thread
        PROVE  /\ job'[u] # "none" => pc'[u] = "wait"
               /\ pc'[u] \in Busy \ {"check"} /\ found'[u] => K(u)' \in keySet'
    BY <2>1 DEF ThreadInv, K, Busy
  <2>6. ASSUME NEW u \in Thread, Rekeyed(u)'
        PROVE  /\ entry'[u].new = masterKeys'[K(u)'] /\ entry'[u].old < entry'[u].new
               /\ ~IsGet(u)' => written'[K(u)'] = req'[u].val
    <3>1. CASE u = t
      BY <2>1, <2>3, <3>1 DEF K, IsGet, k
    <3>2. CASE u # t
      BY <2>1, <2>2, <2>6, <3>2 DEF ThreadInv, K, IsGet, Rekeyed
    <3> QED
      BY <3>1, <3>2
  <2> QED
    BY <2>4, <2>5, <2>6 DEF ThreadInv
<1>8. ASSUME NEW t \in Thread, ConstructThrows(t) PROVE ThreadInv'
  BY <1>0, <1>1, <1>8 DEF ConstructThrows, TypeInv, TypeOK, Busy, K, ThreadInv, Rekeyed
<1>9. ASSUME NEW t \in Thread, Record(t) PROVE ThreadInv'
  <2>1. /\ pc[t] = "record" /\ ~Crashed
        /\ \A u \in Thread : pc'[u] = IF u = t THEN "send" ELSE pc[u]
        /\ keySet \subseteq keySet'
        /\ UNCHANGED <<masterKeys, req, found, entry, job, nextKey, written>>
    BY <1>0, <1>9 DEF Record, TypeInv, TypeOK
  <2> QED
    BY <2>1 DEF ThreadInv, Rekeyed, K, IsGet, Busy
<1>10. ASSUME NEW t \in Thread, SendCreate(t) \/ SendThrows(t) PROVE ThreadInv'
  <2>1. /\ pc[t] = "send" /\ ~Crashed
        /\ pc'[t] \in {"release", "leaked"} /\ \A u \in Thread \ {t} : pc'[u] = pc[u]
        /\ UNCHANGED <<keySet, masterKeys, req, found, entry, job, nextKey, written>>
    BY <1>0, <1>10 DEF SendCreate, SendThrows, TypeInv, TypeOK
  <2> QED
    BY <2>1 DEF ThreadInv, Rekeyed, K, IsGet, Busy
<1>11. ASSUME NEW t \in Thread, SendAccess(t) PROVE ThreadInv'
  <2>1. /\ pc[t] = "send" /\ ~Crashed
        /\ \A u \in Thread : pc'[u] = IF u = t THEN "wait" ELSE pc[u]
        /\ \A u \in Thread \ {t} : job'[u] = job[u]
        /\ UNCHANGED <<keySet, masterKeys, req, found, entry, nextKey, written>>
    BY <1>0, <1>11 DEF SendAccess, TypeInv, TypeOK
  <2> QED
    BY <2>1 DEF ThreadInv, Rekeyed, K, IsGet, Busy
<1>12. ASSUME NEW t \in Thread, Receive(t) \/ ReceiveThrows(t) PROVE ThreadInv'
  <2>1. /\ pc[t] = "wait" /\ ~Crashed
        /\ pc'[t] \in {"release", "leaked"} /\ \A u \in Thread \ {t} : pc'[u] = pc[u]
        /\ job'[t] = "none" /\ \A u \in Thread \ {t} : job'[u] = job[u]
        /\ UNCHANGED <<keySet, masterKeys, req, found, entry, nextKey, written>>
    BY <1>0, <1>12 DEF Receive, ReceiveThrows, TypeInv, TypeOK
  <2> QED
    BY <2>1 DEF ThreadInv, Rekeyed, K, IsGet, Busy
<1>13. ASSUME NEW t \in Thread, Release(t) PROVE ThreadInv'
  BY <1>0, <1>1, <1>13 DEF Release, Return, TypeInv, TypeOK, Busy, Rekeyed
<1>14. ASSUME NEW t \in Thread, AccessDecrypt(t) \/ AccessStore(t) PROVE ThreadInv'
  BY <1>14, ThreadServer DEF AccessDecrypt, AccessStore, AtServer, TypeInv, TypeOK
<1>15. ASSUME ServerExits PROVE ThreadInv'
  BY <1>15, ExitJobs, ThreadServer DEF ServerExits
<1>16. ASSUME NEW c \in creates, ServeCreate(c) PROVE ThreadInv'
  BY <1>16, ThreadServer DEF ServeCreate
<1>17. ASSUME ServerRestart \/ UNCHANGED vars PROVE ThreadInv'
  BY <1>17, ThreadServer DEF ServerRestart, vars
<1>18. ~RaceCrash
  BY DEF RaceCrash, Crashed
<1> QED
  BY <1>2, <1>3, <1>5, <1>6, <1>7, <1>8, <1>9, <1>10, <1>11, <1>12, <1>13, <1>14, <1>15,
     <1>16, <1>17, <1>18
  DEF Next, ThreadStep, ServeAccess, AccessRip, ServerQuit, Done

\* Types, locks, threads and connections: what does not depend on the data.
SaveBase == SaveTypeInv /\ DownInv /\ SaveLockInv /\ ThreadInv /\ UnbrokenInv

\* The process that ends has no map left to write.
LEMMA CrashesUp == SaveCrash => main # "down"
BY DEF SaveCrash, BeingSaved

LEMMA DownStep ==
  ASSUME SaveBase, [SaveNext]_allVars
  PROVE  DownInv'
<1> USE DEF SaveBase, SaveTypeInv
<1>1. CASE Next /\ Meanwhile
  <2> SUFFICES ASSUME main = "down"
               PROVE  \A t \in Thread : pc'[t] = "idle" /\ job'[t] = "none" /\ conn'[t] = "closed"
    BY <1>1 DEF Meanwhile, DownInv
  <2>1. UNCHANGED threadVars
    BY <1>1 DEF Meanwhile
  <2>2. (\E c \in creates : ServeCreate(c)) \/ ServerQuit \/ ServerRestart \/ UNCHANGED vars
    BY <1>1, <2>1, DownSteps
  <2>3. \A t \in Thread : job'[t] = job[t]
    BY <2>2, ExitJobs DEF ServeCreate, ServerQuit, ServerRestart, vars, serverVars, DownInv
  <2> QED
    BY <2>1, <2>3 DEF DownInv, threadVars
<1>2. CASE SaveKeySet \/ SaveValueSizes \/ SaveMasterKeys \/ Setup
  BY <1>2 DEF SaveKeySet, SaveValueSizes, SaveMasterKeys, Setup, DownInv
<1>3. CASE SaveCrash
  BY <1>3, CrashesUp DEF SaveCrash, DownInv
<1>4. CASE Exit
  BY <1>4 DEF Exit, DownInv
<1>5. ASSUME NEW o \in orphans, OrphanDecrypt(o) \/ OrphanStore(o) PROVE DownInv'
  BY <1>5
  DEF OrphanDecrypt, OrphanStore, DownInv, vars, threadVars, serverVars
<1>6. ASSUME NEW o \in orphans, OrphanRip(o) PROVE DownInv'
  BY <1>6, ExitJobs DEF OrphanRip, ServerExits, DownInv
<1>7. CASE UNCHANGED allVars
  BY <1>7 DEF allVars, saveVars, DownInv, vars, threadVars, serverVars
<1> QED
  BY <1>1, <1>2, <1>3, <1>4, <1>5, <1>6, <1>7 DEF SaveNext, ServeOrphan

LEMMA SaveLockStep ==
  ASSUME SaveBase, [SaveNext]_allVars
  PROVE  SaveLockInv'
<1> USE DEF SaveBase, SaveTypeInv, SaveLockInv
<1>1. CASE Next /\ Meanwhile
  BY <1>1, LockStep DEF Meanwhile
<1>2. CASE SaveKeySet \/ SaveValueSizes \/ SaveMasterKeys \/ UNCHANGED allVars
  <2>1. UNCHANGED <<pc, req, locks>> /\ (main' # "down" => main # "down")
    BY <1>2
    DEF SaveKeySet, SaveValueSizes, SaveMasterKeys, allVars, saveVars, vars, threadVars, proxyVars
  <2> QED
    BY <2>1, LockStutter
<1>3. CASE SaveCrash
  BY <1>3
  DEF SaveCrash, LockStage, CrashInv, LockInv, LockExclusion, LockAccounted, Crashed,
      Holds, Holding
<1>4. CASE Exit
  BY <1>4 DEF Exit
<1>5. CASE Setup
  <2>1. \A t \in Thread : pc'[t] = "idle"
    BY <1>5 DEF Setup, DownInv, threadVars
  <2>2. \A k \in NumberedKey : locks'[k] = "free"
    BY <1>5, LblProxyAssumption DEF Setup
  <2> QED
    BY <2>1, <2>2
    DEF LockStage, CrashInv, LockInv, LockExclusion, LockAccounted, Crashed, Holds, Holding
<1>6. ASSUME NEW o \in orphans, OrphanDecrypt(o) \/ OrphanStore(o) \/ OrphanRip(o)
      PROVE  SaveLockInv'
  <2>1. UNCHANGED <<pc, req, locks, main>>
    BY <1>6
    DEF OrphanDecrypt, OrphanStore, OrphanRip, ServerExits, vars, threadVars, proxyVars
  <2> QED
    BY <2>1, LockStutter
<1> QED
  BY <1>1, <1>2, <1>3, <1>4, <1>5, <1>6 DEF SaveNext, ServeOrphan

LEMMA SaveThreadStep ==
  ASSUME SaveBase, [SaveNext]_allVars
  PROVE  ThreadInv'
<1> USE DEF SaveBase, SaveTypeInv, maps, proxyVars, threadVars, serverVars
<1>1. CASE Next /\ Meanwhile
  <2>1. CASE main # "down"
    BY <1>1, <2>1, ThreadNext DEF Meanwhile, SaveLockInv
  <2>2. CASE main = "down"
    <3>1. UNCHANGED threadVars /\ UNCHANGED file
      BY <1>1, <2>2 DEF Meanwhile
    <3>2. (\E c \in creates : ServeCreate(c)) \/ ServerQuit \/ ServerRestart \/ UNCHANGED vars
      BY <1>1, <2>2, <3>1, DownSteps
    <3>3. CASE ServerQuit
      BY <3>1, <3>3, ExitJobs, ThreadServer DEF ServerQuit, ServerExits
    <3>4. CASE ~ServerQuit
      BY <3>1, <3>2, <3>4, ThreadServer DEF ServeCreate, ServerRestart, vars
    <3> QED
      BY <3>3, <3>4
  <2> QED
    BY <2>1, <2>2
<1>2. CASE SaveKeySet \/ SaveValueSizes \/ SaveMasterKeys
  <2>1. UNCHANGED vars
    BY <1>2 DEF SaveKeySet, SaveValueSizes, SaveMasterKeys
  <2>2. ~Crashed => \A k \in Key : file'.masterKeys[k] \in {0, masterKeys[k], file.masterKeys[k]}
    BY <1>2
    DEF SaveKeySet, SaveValueSizes, SaveMasterKeys, MasterKeysSaved, NoMaps, Maps
  <2>3. ~Crashed => \A k \in Key : 0 < nextKey
    BY DEF ThreadInv, TypeInv, TypeOK
  <2> QED
    BY <2>1, <2>2, <2>3 DEF ThreadInv, vars, Crashed, Rekeyed, K, IsGet
<1>3. CASE SaveCrash
  BY <1>3 DEF SaveCrash, ThreadInv, Crashed
<1>4. CASE Exit
  BY <1>4 DEF Exit, ThreadInv, Crashed, NoMaps, Rekeyed, Busy, TypeInv, TypeOK
<1>5. CASE Setup
  BY <1>5 DEF Setup, ThreadInv, DownInv, Crashed, Rekeyed, Busy
<1>6. ASSUME NEW o \in orphans, OrphanDecrypt(o) \/ OrphanStore(o) PROVE ThreadInv'
  BY <1>6, ThreadServer DEF OrphanDecrypt, OrphanStore, vars
<1>7. ASSUME NEW o \in orphans, OrphanRip(o) PROVE ThreadInv'
  BY <1>7, ExitJobs, ThreadServer DEF OrphanRip, ServerExits
<1>8. CASE UNCHANGED allVars
  BY <1>8, ThreadServer DEF allVars, saveVars, vars
<1> QED
  BY <1>1, <1>2, <1>3, <1>4, <1>5, <1>6, <1>7, <1>8 DEF SaveNext, ServeOrphan

\* A server that is unbroken after a step was so before, and no exit came between.
LEMMA UnbrokenBefore ==
  ASSUME SaveTypeInv, [SaveNext]_allVars, Unbroken'
  PROVE  Unbroken /\ ~ServerExits /\ ~ServerRestart
<1>0. ~ServerExits
  BY DEF ServerExits, Unbroken
<1>1. ~ServerRestart
  BY DEF ServerRestart, Unbroken, SaveTypeInv, TypeInv, TypeOK
<1>2. serverUp' = serverUp /\ restarts' = restarts
  <2> DEFINE Same == serverUp' = serverUp /\ restarts' = restarts
  <2> USE <1>0, <1>1 DEF threadVars, serverVars, vars
  <2>1. CASE Next
    <3>1. ASSUME NEW t \in Thread, Request(t) \/ RequestRefused(t) PROVE Same
      BY <3>1 DEF Request, RequestRefused
    <3>2. ASSUME NEW t \in Thread, Check(t) \/ TryLock(t) PROVE Same
      BY <3>2 DEF Check, TryLock, Proceed, Acquire, Abort
    <3>3. ASSUME NEW t \in Thread, ThreadStep(t), ~Check(t), ~TryLock(t) PROVE Same
      BY <3>3
      DEF ThreadStep, Construct, ConstructThrows, Record, SendCreate, SendAccess, SendThrows,
          Receive, ReceiveThrows, Release
    <3>4. ASSUME NEW t \in Thread, ServeAccess(t) PROVE Same
      BY <3>4 DEF ServeAccess, AccessDecrypt, AccessRip, AccessStore
    <3>5. CASE (\E c \in creates : ServeCreate(c)) \/ RaceCrash \/ UNCHANGED vars
      BY <3>5 DEF ServeCreate, RaceCrash
    <3>6. ~ServerQuit
      BY DEF ServerQuit
    <3>7. \A t \in Thread : Request(t) \/ RequestRefused(t) \/ ThreadStep(t) \/ ServeAccess(t)
                            => Same
      BY <3>1, <3>2, <3>3, <3>4
    <3>8. Done => UNCHANGED vars
      BY DEF Done
    <3> HIDE DEF vars
    <3> QED
      BY <1>1, <2>1, <3>5, <3>6, <3>7, <3>8 DEF Next
  <2>2. CASE SaveKeySet \/ SaveValueSizes \/ SaveMasterKeys \/ SaveCrash \/ Exit \/ Setup
    BY <2>2 DEF SaveKeySet, SaveValueSizes, SaveMasterKeys, SaveCrash, Exit, Setup
  <2>3. CASE ServeOrphan
    BY <2>3 DEF ServeOrphan, OrphanDecrypt, OrphanStore, OrphanRip
  <2>4. CASE UNCHANGED allVars
    BY <2>4 DEF allVars
  <2> QED
    BY <2>1, <2>2, <2>3, <2>4 DEF SaveNext
<1> QED
  BY <1>0, <1>1, <1>2 DEF Unbroken

LEMMA UnbrokenStep ==
  ASSUME SaveBase, [SaveNext]_allVars
  PROVE  UnbrokenInv'
<1> SUFFICES ASSUME Unbroken'
             PROVE  \A t \in Thread : /\ conn'[t] # "dead" /\ job'[t] # "broken"
                                      /\ pc'[t] \in Busy => conn'[t] = "open"
  BY DEF UnbrokenInv
<1> DEFINE Goal == \A t \in Thread : /\ conn'[t] # "dead" /\ job'[t] # "broken"
                                     /\ pc'[t] \in Busy => conn'[t] = "open"
<1>0. /\ Unbroken /\ ~ServerExits /\ ~ServerRestart
      /\ \A t \in Thread : /\ conn[t] # "dead" /\ job[t] # "broken"
                           /\ pc[t] \in Busy => conn[t] = "open"
  BY UnbrokenBefore DEF SaveBase, UnbrokenInv
<1>t. TypeInv
  BY DEF SaveBase, SaveTypeInv
<1> USE DEF threadVars, serverVars, vars
<1>1. CASE Next
  <2> USE <1>0, <1>t DEF TypeInv, TypeOK
  <2>1. ASSUME NEW t \in Thread, Request(t) \/ RequestRefused(t) PROVE Goal
    BY <2>1 DEF Request, RequestRefused, Busy
  <2>2. ASSUME NEW t \in Thread, Return(t), UNCHANGED job PROVE Goal
    BY <2>2 DEF Return, Busy
  <2>3. ASSUME NEW t \in Thread, Check(t) \/ TryLock(t) \/ Release(t) PROVE Goal
    BY <2>2, <2>3 DEF Check, TryLock, Release, Proceed, Acquire, Abort, Busy
  <2>4. ASSUME NEW t \in Thread, Construct(t) \/ ConstructThrows(t) \/ Record(t) PROVE Goal
    BY <2>4 DEF Construct, ConstructThrows, Record, Busy
  <2>5. ASSUME NEW t \in Thread,
               SendCreate(t) \/ SendAccess(t) \/ SendThrows(t) \/ Receive(t) \/ ReceiveThrows(t)
        PROVE  Goal
    BY <2>5 DEF SendCreate, SendAccess, SendThrows, Receive, ReceiveThrows, Busy
  <2>6. ASSUME NEW t \in Thread, ServeAccess(t) PROVE Goal
    BY <2>6 DEF ServeAccess, AccessDecrypt, AccessRip, AccessStore
  <2>7. CASE (\E c \in creates : ServeCreate(c)) \/ RaceCrash \/ UNCHANGED vars
    BY <2>7 DEF ServeCreate, RaceCrash, Busy
  <2> QED
    BY <1>1, <2>1, <2>3, <2>4, <2>5, <2>6, <2>7
    DEF Next, ThreadStep, ServerQuit, Done
<1>2. CASE SaveKeySet \/ SaveValueSizes \/ SaveMasterKeys \/ Setup \/ SaveCrash \/ Exit
  BY <1>0, <1>2
  DEF SaveKeySet, SaveValueSizes, SaveMasterKeys, Setup, SaveCrash, Exit, Busy
<1>3. CASE ServeOrphan
  BY <1>0, <1>3 DEF ServeOrphan, OrphanDecrypt, OrphanStore, OrphanRip
<1>4. CASE UNCHANGED allVars
  BY <1>0, <1>4 DEF allVars
<1> QED
  BY <1>1, <1>2, <1>3, <1>4 DEF SaveNext

LEMMA SaveBaseStep == SaveBase /\ [SaveNext]_allVars => SaveBase'
BY SaveTypeStep, DownStep, SaveLockStep, SaveThreadStep, UnbrokenStep DEF SaveBase

(***************************************************************************)
(* The save: what the file has of keys nobody works on                     *)
(***************************************************************************)
\* Only the holder of a key's lock changes what the maps have of it.
LEMMA MapsChange ==
  ASSUME TypeInv, Next, NEW k \in Key, k \notin UnderWay'
  PROVE  /\ k \in keySet' <=> k \in keySet
         /\ valueSizes'[k] = valueSizes[k] /\ masterKeys'[k] = masterKeys[k]
<1> DEFINE Goal == /\ k \in keySet' <=> k \in keySet
                   /\ valueSizes'[k] = valueSizes[k] /\ masterKeys'[k] = masterKeys[k]
<1> USE DEF maps, proxyVars, vars
<1>0. \A t \in Thread : ~(pc'[t] \in Holding /\ req'[t].key = k)
  BY DEF UnderWay, Holds, K
<1>1. ASSUME NEW t \in Thread, Request(t) \/ RequestRefused(t) PROVE Goal
  BY <1>1 DEF Request, RequestRefused
<1>2. ASSUME NEW t \in Thread, Check(t) \/ TryLock(t) \/ Release(t) PROVE Goal
  BY <1>2 DEF Check, TryLock, Release, Proceed, Acquire, Abort
<1>3. ASSUME NEW t \in Thread, Construct(t) \/ Record(t) PROVE Goal
  <2>1. pc'[t] \in Holding /\ req' = req
    BY <1>3 DEF Construct, Record, Holding, TypeInv, TypeOK
  <2>2. k # K(t)
    BY <1>0, <2>1 DEF K
  <2> QED
    BY <1>3, <2>2 DEF Construct, Record, TypeInv, TypeOK
<1>4. ASSUME NEW t \in Thread, ThreadStep(t), ~Check(t), ~TryLock(t), ~Release(t),
             ~Construct(t), ~Record(t)
      PROVE  Goal
  BY <1>4
  DEF ThreadStep, ConstructThrows, SendCreate, SendAccess, SendThrows, Receive, ReceiveThrows
<1>5. ASSUME NEW t \in Thread, ServeAccess(t) PROVE Goal
  BY <1>5 DEF ServeAccess, AccessDecrypt, AccessRip, AccessStore, ServerExits
<1>6. CASE (\E c \in creates : ServeCreate(c)) \/ RaceCrash \/ ServerQuit \/ ServerRestart
           \/ UNCHANGED vars
  BY <1>6 DEF ServeCreate, RaceCrash, ServerQuit, ServerRestart, ServerExits
<1> QED
  BY <1>1, <1>2, <1>3, <1>4, <1>5, <1>6 DEF Next, Done

LEMMA SavingStep ==
  ASSUME SaveBase, SavingInv, [SaveNext]_allVars
  PROVE  SavingInv'
<1> USE DEF SaveBase, SaveTypeInv, SavingInv
<1>1. CASE Next /\ Meanwhile
  <2>1. /\ \A o \in orphans' : o.key \in exposed'
        /\ main' = main /\ file' = file /\ exposed \subseteq exposed'
        /\ Saving => UnderWay' \subseteq exposed'
    BY <1>1 DEF Meanwhile
  <2>2. Saving' <=> Saving
    BY <2>1 DEF Saving
  <2>3. ASSUME Saving, NEW k \in Key \ exposed'
        PROVE  /\ k \in file'.keySet <=> k \in keySet'
               /\ main' \in {"keys", "exit"} => file'.valueSizes[k] = valueSizes'[k]
               /\ main' = "exit" => file'.masterKeys[k] = masterKeys'[k]
    <3>1. k \notin UnderWay' /\ k \notin exposed
      BY <2>1, <2>3
    <3>2. /\ k \in keySet' <=> k \in keySet
          /\ valueSizes'[k] = valueSizes[k] /\ masterKeys'[k] = masterKeys[k]
      BY <1>1, <3>1, MapsChange
    <3> QED
      BY <2>1, <2>3, <3>1, <3>2
  <2> QED
    BY <2>1, <2>2, <2>3
<1>2. CASE SaveKeySet \/ SaveValueSizes \/ SaveMasterKeys
  <2>1. UNCHANGED vars /\ UNCHANGED orphans /\ exposed \subseteq exposed'
    BY <1>2 DEF SaveKeySet, SaveValueSizes, SaveMasterKeys
  <2>2. UnderWay' = UnderWay
    BY <2>1 DEF UnderWay, Holds, K, vars, threadVars, serverVars
  <2>3. UnderWay' \subseteq exposed'
    BY <1>2, <2>2 DEF SaveKeySet, SaveValueSizes, SaveMasterKeys, Saving
  <2>4. UNCHANGED <<keySet, valueSizes, masterKeys>>
    BY <2>1 DEF vars, proxyVars, maps
  <2>5. ASSUME NEW k \in Key \ exposed'
        PROVE  /\ k \in file'.keySet <=> k \in keySet'
               /\ main' \in {"keys", "exit"} => file'.valueSizes[k] = valueSizes'[k]
               /\ main' = "exit" => file'.masterKeys[k] = masterKeys'[k]
    BY <1>2, <2>1, <2>4
    DEF SaveKeySet, SaveValueSizes, SaveMasterKeys, MasterKeysSaved, NoMaps, Maps, Saving
  <2> QED
    BY <2>1, <2>3, <2>5
<1>3. CASE SaveCrash
  <2>1. UNCHANGED <<keySet, valueSizes, masterKeys, creates, orphans, main, exposed>>
        /\ (main # "serve" => UNCHANGED file)
        /\ \A t \in Thread : pc'[t] = "crashed"
    BY <1>3 DEF SaveCrash, proxyVars, maps, serverVars
  <2>2. UnderWay' \subseteq UnderWay
    BY <2>1 DEF UnderWay, Holds, Holding
  <2> QED
    BY <2>1, <2>2 DEF Saving
<1>4. CASE Exit
  <2>1. \A o \in orphans' : o.key \in exposed'
    <3>1. ASSUME NEW t \in Thread, job[t] # "none" PROVE Orphan(t).key \in exposed
      <4>1. Holds(t, K(t)) /\ K(t) \in Key
        BY <1>4, <3>1, OrphanType DEF Exit
      <4>2. K(t) \in UnderWay
        BY <4>1 DEF UnderWay
      <4> QED
        BY <1>4, <4>2 DEF Exit, Saving, Orphan
    <3> QED
      BY <1>4, <3>1 DEF Exit
  <2> QED
    BY <1>4, <2>1 DEF Exit, Saving
<1>5. CASE Setup
  BY <1>5 DEF Setup, Saving
<1>6. ASSUME NEW o \in orphans, OrphanDecrypt(o) \/ OrphanStore(o) \/ OrphanRip(o)
      PROVE  SavingInv'
  <2>1. /\ UNCHANGED <<keySet, valueSizes, masterKeys, pc, req, file, main, exposed>>
        /\ creates' \subseteq creates
    BY <1>6
    DEF OrphanDecrypt, OrphanStore, OrphanRip, ServerExits, vars, proxyVars, maps, threadVars,
        serverVars
  <2>2. \A p \in orphans' : \E q \in orphans : p.key = q.key
    <3>1. CASE OrphanDecrypt(o)
      <4> DEFINE b == [mk |-> o.new, val |-> Carry(IF o.get THEN db[o.key].val ELSE o.val)]
      <4>1. orphans' = (orphans \ {o}) \union {[o EXCEPT !.block = b]}
        BY <3>1 DEF OrphanDecrypt
      <4> HIDE DEF b
      <4>2. [o EXCEPT !.block = b].key = o.key
        BY DEF Orphans
      <4> QED
        BY <4>1, <4>2
    <3>2. CASE OrphanStore(o) \/ OrphanRip(o)
      BY <3>2 DEF OrphanStore, OrphanRip
    <3> QED
      BY <1>6, <3>1, <3>2
  <2>3. UnderWay' \subseteq UnderWay
    BY <2>1, <2>2 DEF UnderWay, Holds, K
  <2> QED
    BY <2>1, <2>2, <2>3 DEF Saving
<1>7. CASE UNCHANGED allVars
  <2>1. UNCHANGED <<keySet, valueSizes, masterKeys, pc, req, creates, file, main, orphans,
                    exposed>>
    BY <1>7 DEF allVars, saveVars, vars, proxyVars, maps, threadVars, serverVars
  <2>2. UnderWay' = UnderWay
    BY <2>1 DEF UnderWay, Holds, K
  <2> QED
    BY <2>1, <2>2 DEF Saving
<1> QED
  BY <1>1, <1>2, <1>3, <1>4, <1>5, <1>6, <1>7 DEF SaveNext, ServeOrphan

(***************************************************************************)
(* One key that is not exposed                                             *)
(***************************************************************************)
\* A step that does not concern key k keeps what is known of it.
LEMMA KeyFrame ==
  ASSUME NEW k, KeyOK(k), db'[k] = db[k], CreatesOf(k)' = CreatesOf(k),
         masterKeys'[k] = masterKeys[k], written'[k] = written[k],
         valueSizes'[k] = valueSizes[k], k \in keySet' <=> k \in keySet,
         \A t \in Thread :
           \/ /\ pc'[t] = pc[t] /\ req'[t] = req[t] /\ entry'[t] = entry[t]
              /\ snap'[t] = snap[t] /\ job'[t] = job[t]
           \/ ~(Early(t) /\ K(t) = k) /\ ~(Early(t) /\ K(t) = k)'
  PROVE  KeyOK(k)'
<1>1. \A g : AtKey(k, g) => AtKey(k, g)'
  BY DEF AtKey
<1>2. Current(k) => Current(k)'
  BY DEF Current, Carry
<1>3. \A t \in Thread : (Early(t) /\ K(t) = k)' <=> Early(t) /\ K(t) = k
  BY DEF Early, K
<1>4. \A t \in Thread : (pc[t] = "record" /\ K(t) = k)' <=> pc[t] = "record" /\ K(t) = k
  BY DEF Early, K
<1>5. ASSUME NEW t \in Thread, (Early(t) /\ K(t) = k)'
      PROVE  /\ AtKey(k, entry[t].old)'
             /\ IsGet(t)' => Current(k)'
             /\ job'[t] = "decrypted" =>
                  /\ CreatesOf(k)' = {}
                  /\ snap'[t] = [mk |-> entry'[t].new, val |-> Carry(written'[k])]
  <2>1. /\ Early(t) /\ K(t) = k
        /\ entry'[t] = entry[t] /\ snap'[t] = snap[t] /\ job'[t] = job[t]
        /\ req'[t] = req[t]
    BY <1>3, <1>5
  <2>2. AtKey(k, entry[t].old) /\ (IsGet(t) => Current(k))
        /\ (job[t] = "decrypted" =>
              /\ CreatesOf(k) = {}
              /\ snap[t] = [mk |-> entry[t].new, val |-> Carry(written[k])])
    BY <2>1 DEF KeyOK
  <2>3. AtKey(k, entry[t].old)'
    BY <2>1, <2>2 DEF AtKey
  <2> QED
    BY <1>2, <2>1, <2>2, <2>3 DEF IsGet
<1>6. (\A t \in Thread : ~(Early(t) /\ K(t) = k)') => AtKey(k, masterKeys[k])' /\ Current(k)'
  <2> SUFFICES ASSUME \A t \in Thread : ~(Early(t) /\ K(t) = k)'
               PROVE  AtKey(k, masterKeys[k])' /\ Current(k)'
    OBVIOUS
  <2>1. AtKey(k, masterKeys[k]) /\ Current(k)
    BY <1>3 DEF KeyOK
  <2> QED
    BY <1>2, <2>1 DEF AtKey
<1>7. (\A t \in Thread : ~(pc[t] = "record" /\ K(t) = k)') =>
        /\ k \in keySet' <=> written'[k] # NoValue
        /\ k \in keySet' => valueSizes'[k] = Size[written'[k]]
  BY <1>4 DEF KeyOK
<1> QED
  BY <1>5, <1>6, <1>7 DEF KeyOK

\* A served create puts the block where the maps expect it.
LEMMA ServeAtKey ==
  ASSUME TypeInv, NEW c \in creates, ServeCreate(c), NEW k \in Key, NEW g, AtKey(k, g)
  PROVE  AtKey(k, g)'
<1>1. /\ creates' = creates \ {c} /\ c.key \in Key
      /\ \A l \in Key : db'[l] = IF l = c.key THEN [mk |-> c.mk, val |-> c.val] ELSE db[l]
  BY DEF ServeCreate, TypeInv, TypeOK
<1>2. CASE c.key = k
  <2>1. c \in CreatesOf(k)
    BY <1>2 DEF CreatesOf
  <2>2. CreatesOf(k) = {c} /\ c.mk = g
    BY <2>1 DEF AtKey
  <2>3. CreatesOf(k)' = {}
    BY <1>1, <2>2 DEF CreatesOf
  <2> QED
    BY <1>1, <1>2, <2>2, <2>3 DEF AtKey
<1>3. CASE c.key # k
  <2>1. CreatesOf(k)' = CreatesOf(k) /\ db'[k] = db[k]
    BY <1>1, <1>3 DEF CreatesOf
  <2> QED
    BY <2>1 DEF AtKey
<1> QED
  BY <1>2, <1>3

LEMMA ServeCurrent ==
  ASSUME TypeInv, NEW c \in creates, ServeCreate(c), NEW k \in Key, Current(k),
         c.key = k => CreatesOf(k) = {c}
  PROVE  Current(k)'
<1>1. /\ creates' = creates \ {c} /\ c.key \in Key /\ written' = written
      /\ \A l \in Key : db'[l] = IF l = c.key THEN [mk |-> c.mk, val |-> c.val] ELSE db[l]
  BY DEF ServeCreate, TypeInv, TypeOK
<1>2. CASE c.key = k
  <2>1. c \in CreatesOf(k) /\ c.val = written[k]
    BY <1>2 DEF CreatesOf, Current
  <2>3. CreatesOf(k)' = {}
    BY <1>1, <1>2 DEF CreatesOf
  <2> QED
    BY <1>1, <1>2, <2>1, <2>3 DEF Current
<1>3. CASE c.key # k
  <2>1. CreatesOf(k)' = CreatesOf(k) /\ db'[k] = db[k]
    BY <1>1, <1>3 DEF CreatesOf
  <2> QED
    BY <1>1, <2>1 DEF Current, Carry
<1> QED
  BY <1>2, <1>3

\* The other threads neither hold the key of a thread that holds its lock, nor work on it.
LEMMA HoldsAlone ==
  ASSUME LockStage, NEW t \in Thread, NEW u \in Thread, pc[t] \in Holding, Early(u),
         K(u) = K(t), K(t) \in Key
  PROVE  u = t
BY DEF LockStage, LockExclusion, Holds, Early, Holding

\* The new master key, before the server knows of it.
LEMMA ConstructKey ==
  ASSUME TypeInv, LockStage, ThreadInv, ~Crashed, NEW t \in Thread, Construct(t),
         NEW k \in Key, KeyOK(k)
  PROVE  KeyOK(k)'
<1>0. /\ pc[t] = "construct" /\ K(t) \in Key
      /\ \A u \in Thread : pc'[u] = IF u = t THEN IF IsGet(t) THEN "send" ELSE "record"
                                    ELSE pc[u]
      /\ \A u \in Thread : entry'[u] = IF u = t THEN [old |-> masterKeys[K(t)], new |-> nextKey]
                                       ELSE entry[u]
      /\ \A l \in Key : masterKeys'[l] = IF l = K(t) THEN nextKey ELSE masterKeys[l]
      /\ \A l \in Key : written'[l] = IF l = K(t) /\ ~IsGet(t) THEN req[t].val ELSE written[l]
      /\ UNCHANGED <<keySet, valueSizes, req, db, job, snap, creates>>
  BY RequestTypes DEF Construct, NowWritten, TypeInv, TypeOK, Busy, serverVars
<1>1. CreatesOf(k)' = CreatesOf(k)
  BY <1>0 DEF CreatesOf
<1>2. CASE K(t) # k
  <2>1. \A u \in Thread :
          \/ /\ pc'[u] = pc[u] /\ req'[u] = req[u] /\ entry'[u] = entry[u]
             /\ snap'[u] = snap[u] /\ job'[u] = job[u]
          \/ ~(Early(u) /\ K(u) = k) /\ ~(Early(u) /\ K(u) = k)'
    BY <1>0, <1>2 DEF K
  <2> QED
    BY <1>0, <1>1, <1>2, <2>1, KeyFrame
<1>3. CASE K(t) = k
  <2>1. \A u \in Thread : ~(Early(u) /\ K(u) = k)
    BY <1>0, <1>3, HoldsAlone DEF Holding, Early
  <2>2. AtKey(k, masterKeys[k]) /\ Current(k)
    BY <2>1 DEF KeyOK
  <2>3. \A u \in Thread : (Early(u) /\ K(u) = k)' <=> u = t
    BY <1>0, <1>3, <2>1 DEF Early, K
  <2>4. AtKey(k, entry[t].old)' /\ job'[t] = job[t]
    BY <1>0, <1>1, <1>3, <2>2 DEF AtKey
  <2>5. IsGet(t)' => Current(k)'
    BY <1>0, <1>1, <2>2 DEF Current, Carry, IsGet
  <2>6. job'[t] # "decrypted"
    BY <1>0 DEF ThreadInv
  <2>7. (\A u \in Thread : ~(pc[u] = "record" /\ K(u) = k)') =>
          /\ k \in keySet' <=> written'[k] # NoValue
          /\ k \in keySet' => valueSizes'[k] = Size[written'[k]]
    <3>1. CASE IsGet(t)
      <4>1. \A u \in Thread : ~(pc[u] = "record" /\ K(u) = k)
        BY <2>1 DEF Early
      <4> QED
        BY <1>0, <3>1, <4>1 DEF KeyOK
    <3>2. CASE ~IsGet(t)
      BY <1>0, <1>3, <3>2 DEF K
    <3> QED
      BY <3>1, <3>2
  <2> QED
    BY <2>3, <2>4, <2>5, <2>6, <2>7 DEF KeyOK
<1> QED
  BY <1>2, <1>3

\* The size and the key are recorded.
LEMMA RecordKey ==
  ASSUME TypeInv, LockStage, ThreadInv, ~Crashed, NEW t \in Thread, Record(t),
         NEW k \in Key, KeyOK(k)
  PROVE  KeyOK(k)'
<1>0. /\ pc[t] = "record" /\ K(t) \in Key /\ req[t].val \in Value
      /\ \A u \in Thread : pc'[u] = IF u = t THEN "send" ELSE pc[u]
      /\ \A l \in Key : valueSizes'[l] = IF l = K(t) THEN Size[req[t].val] ELSE valueSizes[l]
      /\ keySet' = IF found[t] THEN keySet ELSE keySet \union {K(t)}
      /\ UNCHANGED <<masterKeys, req, entry, db, job, snap, creates, written>>
  BY RequestTypes DEF Record, TypeInv, TypeOK, RequestInv, Busy, serverVars
<1>1. CreatesOf(k)' = CreatesOf(k)
  BY <1>0 DEF CreatesOf
<1>2. CASE K(t) # k
  <2>1. \A u \in Thread :
          \/ /\ pc'[u] = pc[u] /\ req'[u] = req[u] /\ entry'[u] = entry[u]
             /\ snap'[u] = snap[u] /\ job'[u] = job[u]
          \/ ~(Early(u) /\ K(u) = k) /\ ~(Early(u) /\ K(u) = k)'
    BY <1>0, <1>2 DEF K
  <2> QED
    BY <1>0, <1>1, <1>2, <2>1, KeyFrame
<1>3. CASE K(t) = k
  <2>1. \A u \in Thread : (Early(u) /\ K(u) = k)' <=> Early(u) /\ K(u) = k
    BY <1>0 DEF Early, K
  <2>2. \A g : AtKey(k, g)' <=> AtKey(k, g)
    BY <1>0, <1>1 DEF AtKey
  <2>3. Current(k)' <=> Current(k)
    BY <1>0, <1>1 DEF Current, Carry
  <2>4. k \in keySet' /\ written[k] = req[t].val /\ written[k] # NoValue
    BY <1>0, <1>3, LblProxyAssumption DEF ThreadInv, Busy, Rekeyed, TypeInv, RequestInv
  <2>5. ASSUME NEW u \in Thread, (Early(u) /\ K(u) = k)'
        PROVE  /\ AtKey(k, entry[u].old)'
               /\ IsGet(u)' => Current(k)'
               /\ job'[u] = "decrypted" =>
                    /\ CreatesOf(k)' = {}
                    /\ snap'[u] = [mk |-> entry'[u].new, val |-> Carry(written'[k])]
    <3>1. /\ AtKey(k, entry[u].old) /\ (IsGet(u) => Current(k))
          /\ (job[u] = "decrypted" =>
                /\ CreatesOf(k) = {}
                /\ snap[u] = [mk |-> entry[u].new, val |-> Carry(written[k])])
      BY <2>1, <2>5 DEF KeyOK
    <3>2. AtKey(k, entry[u].old)'
      BY <1>0, <1>1, <3>1 DEF AtKey
    <3> QED
      BY <1>0, <1>1, <2>3, <3>1, <3>2 DEF IsGet
  <2>6. ~ \A u \in Thread : ~(Early(u) /\ K(u) = k)'
    BY <1>0, <1>3, <2>1 DEF Early
  <2>7. k \in keySet' /\ written'[k] # NoValue /\ valueSizes'[k] = Size[written'[k]]
    BY <1>0, <1>3, <2>4
  <2> QED
    BY <2>5, <2>6, <2>7 DEF KeyOK
<1> QED
  BY <1>2, <1>3

\* A one-way create is the only one of its key, or the key is exposed.
LEMMA SendCreateKey ==
  ASSUME TypeInv, LockStage, ThreadInv, ~Crashed, NEW t \in Thread, SendCreate(t),
         conn[t] = "open", NEW k \in Key, KeyOK(k), k \notin Unordered'
  PROVE  KeyOK(k)'
<1> DEFINE c == [from |-> t, key |-> K(t), mk |-> entry[t].new, val |-> req[t].val]
<1>0. /\ pc[t] = "send" /\ K(t) \in Key /\ ~IsGet(t)
      /\ \A u \in Thread : pc'[u] = IF u = t THEN "release" ELSE pc[u]
      /\ creates' = creates \union {c}
      /\ UNCHANGED <<keySet, valueSizes, masterKeys, req, entry, db, job, snap, written>>
  BY RequestTypes DEF SendCreate, TypeInv, TypeOK, RequestInv, Busy, proxyVars, maps
<1>1. c.key = K(t) /\ c.mk = masterKeys[K(t)] /\ c.val = written[K(t)]
      /\ entry[t].old # c.mk
  BY <1>0 DEF ThreadInv, Rekeyed, TypeInv, TypeOK
<1> HIDE DEF c
<1>2. CASE K(t) # k
  <2>1. CreatesOf(k)' = CreatesOf(k)
    BY <1>0, <1>1, <1>2 DEF CreatesOf
  <2>2. \A u \in Thread :
          \/ /\ pc'[u] = pc[u] /\ req'[u] = req[u] /\ entry'[u] = entry[u]
             /\ snap'[u] = snap[u] /\ job'[u] = job[u]
          \/ ~(Early(u) /\ K(u) = k) /\ ~(Early(u) /\ K(u) = k)'
    BY <1>0, <1>2 DEF K
  <2> QED
    BY <1>0, <2>1, <2>2, KeyFrame
<1>3. CASE K(t) = k
  <2>1. AtKey(k, entry[t].old)
    BY <1>0, <1>3 DEF KeyOK, Early
  <2>2. ASSUME NEW d \in CreatesOf(k), CreatesOf(k) = {d}, d.mk = entry[t].old PROVE FALSE
    <3>1. c # d /\ c \in creates' /\ d \in creates' /\ d.key = k /\ c.key = k
      BY <1>0, <1>1, <1>3, <2>2 DEF CreatesOf
    <3>2. k \in Unordered'
      BY <3>1 DEF Unordered
    <3> QED
      BY <3>2
  <2>3. CreatesOf(k) = {} /\ db[k].mk = entry[t].old
    BY <2>1, <2>2 DEF AtKey
  <2>4. CreatesOf(k)' = {c}
    BY <1>0, <1>1, <1>3, <2>3 DEF CreatesOf
  <2>5. AtKey(k, masterKeys[k])' /\ Current(k)'
    BY <1>0, <1>1, <1>3, <2>3, <2>4 DEF AtKey, Current
  <2>6. \A u \in Thread : ~(Early(u) /\ K(u) = k)'
    BY <1>0, <1>3, HoldsAlone DEF Early, K, Holding
  <2>7. /\ k \in keySet' <=> written'[k] # NoValue
        /\ k \in keySet' => valueSizes'[k] = Size[written'[k]]
    <3>1. \A u \in Thread : ~(pc[u] = "record" /\ K(u) = k)
      BY <1>0, <1>3, HoldsAlone DEF Early, Holding
    <3> QED
      BY <1>0, <3>1 DEF KeyOK
  <2> QED
    BY <2>5, <2>6, <2>7 DEF KeyOK
<1> QED
  BY <1>2, <1>3

\* The access reaches the server, which is still to decrypt.
LEMMA SendAccessKey ==
  ASSUME TypeInv, NEW t \in Thread, SendAccess(t), NEW k \in Key, KeyOK(k)
  PROVE  KeyOK(k)'
<1>0. /\ pc[t] = "send"
      /\ \A u \in Thread : pc'[u] = IF u = t THEN "wait" ELSE pc[u]
      /\ \A u \in Thread : job'[u] = IF u = t THEN "sent" ELSE job[u]
      /\ UNCHANGED <<keySet, valueSizes, masterKeys, req, entry, db, snap, creates, written>>
  BY DEF SendAccess, TypeInv, TypeOK, proxyVars, maps
<1>1. CreatesOf(k)' = CreatesOf(k)
  BY <1>0 DEF CreatesOf
<1>2. \A u \in Thread : (Early(u) /\ K(u) = k)' <=> Early(u) /\ K(u) = k
  BY <1>0 DEF Early, K
<1>3. Current(k)' <=> Current(k)
  BY <1>0, <1>1 DEF Current, Carry
<1>4. ASSUME NEW u \in Thread, (Early(u) /\ K(u) = k)'
      PROVE  /\ AtKey(k, entry[u].old)'
             /\ IsGet(u)' => Current(k)'
             /\ job'[u] = "decrypted" =>
                  /\ CreatesOf(k)' = {}
                  /\ snap'[u] = [mk |-> entry'[u].new, val |-> Carry(written'[k])]
  <2>1. /\ AtKey(k, entry[u].old) /\ (IsGet(u) => Current(k))
        /\ (job[u] = "decrypted" =>
              /\ CreatesOf(k) = {}
              /\ snap[u] = [mk |-> entry[u].new, val |-> Carry(written[k])])
    BY <1>2, <1>4 DEF KeyOK
  <2>2. AtKey(k, entry[u].old)'
    BY <1>0, <1>1, <2>1 DEF AtKey
  <2> QED
    BY <1>0, <1>1, <1>3, <2>1, <2>2 DEF IsGet
<1>5. (\A u \in Thread : ~(Early(u) /\ K(u) = k)') => AtKey(k, masterKeys[k])' /\ Current(k)'
  <2> SUFFICES ASSUME \A u \in Thread : ~(Early(u) /\ K(u) = k)'
               PROVE  AtKey(k, masterKeys[k])' /\ Current(k)'
    OBVIOUS
  <2>1. AtKey(k, masterKeys[k]) /\ Current(k)
    BY <1>2 DEF KeyOK
  <2> QED
    BY <1>0, <1>1, <1>3, <2>1 DEF AtKey
<1>6. (\A u \in Thread : ~(pc[u] = "record" /\ K(u) = k)') =>
        /\ k \in keySet' <=> written'[k] # NoValue
        /\ k \in keySet' => valueSizes'[k] = Size[written'[k]]
  <2>1. \A u \in Thread : (pc[u] = "record" /\ K(u) = k)' <=> pc[u] = "record" /\ K(u) = k
    BY <1>0 DEF K
  <2> QED
    BY <1>0, <2>1 DEF KeyOK
<1> QED
  BY <1>4, <1>5, <1>6 DEF KeyOK

\* The server's new block encodes the value last put.
LEMMA AccessDecryptKey ==
  ASSUME TypeInv, LockStage, ThreadInv, ~Crashed, NEW t \in Thread, AccessDecrypt(t),
         NEW k \in Key, KeyOK(k)
  PROVE  KeyOK(k)'
<1>0. /\ pc[t] = "wait" /\ job[t] = "sent" /\ db[K(t)].mk = entry[t].old /\ K(t) \in Key
      /\ \A u \in Thread : job'[u] = IF u = t THEN "decrypted" ELSE job[u]
      /\ \A u \in Thread : snap'[u] = IF u = t THEN Reencrypt(t, db[K(t)]) ELSE snap[u]
      /\ UNCHANGED <<keySet, valueSizes, masterKeys, pc, req, entry, db, creates, written>>
  BY RequestTypes
  DEF AccessDecrypt, AtServer, Decryptable, ThreadInv, TypeInv, TypeOK, Busy, proxyVars, maps,
      threadVars
<1>1. CreatesOf(k)' = CreatesOf(k)
  BY <1>0 DEF CreatesOf
<1>2. CASE K(t) # k
  <2>1. \A u \in Thread :
          \/ /\ pc'[u] = pc[u] /\ req'[u] = req[u] /\ entry'[u] = entry[u]
             /\ snap'[u] = snap[u] /\ job'[u] = job[u]
          \/ ~(Early(u) /\ K(u) = k) /\ ~(Early(u) /\ K(u) = k)'
    BY <1>0, <1>2 DEF K
  <2> QED
    BY <1>0, <1>1, <2>1, KeyFrame
<1>3. CASE K(t) = k
  <2>1. AtKey(k, entry[t].old) /\ (IsGet(t) => Current(k)) /\ Early(t)
    BY <1>0, <1>3 DEF KeyOK, Early
  <2>2. CreatesOf(k) = {}
    BY <1>0, <1>3, <2>1 DEF AtKey
  <2>3. Reencrypt(t, db[k]) = [mk |-> entry[t].new, val |-> Carry(written[k])]
    <3>1. CASE IsGet(t)
      BY <2>1, <2>2, <3>1, CarryTwice DEF Reencrypt, Current
    <3>2. CASE ~IsGet(t)
      BY <1>0, <1>3, <3>2 DEF Reencrypt, ThreadInv, Rekeyed
    <3> QED
      BY <3>1, <3>2
  <2>4. \A u \in Thread : (Early(u) /\ K(u) = k)' <=> u = t
    BY <1>0, <1>3, HoldsAlone DEF Early, K, Holding
  <2>5. AtKey(k, entry[t].old)' /\ (IsGet(t)' => Current(k)')
    BY <1>0, <1>1, <2>1 DEF AtKey, Current, Carry, IsGet
  <2>6. CreatesOf(k)' = {}
        /\ snap'[t] = [mk |-> entry'[t].new, val |-> Carry(written'[k])]
    BY <1>0, <1>1, <1>3, <2>2, <2>3
  <2>7. (\A u \in Thread : ~(pc[u] = "record" /\ K(u) = k)') =>
          /\ k \in keySet' <=> written'[k] # NoValue
          /\ k \in keySet' => valueSizes'[k] = Size[written'[k]]
    BY <1>0 DEF KeyOK, K
  <2> QED
    BY <2>4, <2>5, <2>6, <2>7 DEF KeyOK
<1> QED
  BY <1>2, <1>3

\* The block is stored, under the master key the maps have.
LEMMA AccessStoreKey ==
  ASSUME TypeInv, LockStage, ThreadInv, ~Crashed, NEW t \in Thread, AccessStore(t),
         NEW k \in Key, KeyOK(k)
  PROVE  KeyOK(k)'
<1>0. /\ pc[t] = "wait" /\ job[t] = "decrypted" /\ K(t) \in Key
      /\ \A u \in Thread : job'[u] = IF u = t THEN "stored" ELSE job[u]
      /\ \A l \in Key : db'[l] = IF l = K(t) THEN snap[t] ELSE db[l]
      /\ UNCHANGED <<keySet, valueSizes, masterKeys, pc, req, entry, snap, creates, written>>
  BY RequestTypes
  DEF AccessStore, ThreadInv, TypeInv, TypeOK, Busy, proxyVars, maps, threadVars
<1>1. CreatesOf(k)' = CreatesOf(k)
  BY <1>0 DEF CreatesOf
<1>2. CASE K(t) # k
  <2>1. \A u \in Thread :
          \/ /\ pc'[u] = pc[u] /\ req'[u] = req[u] /\ entry'[u] = entry[u]
             /\ snap'[u] = snap[u] /\ job'[u] = job[u]
          \/ ~(Early(u) /\ K(u) = k) /\ ~(Early(u) /\ K(u) = k)'
    BY <1>0, <1>2 DEF K
  <2> QED
    BY <1>0, <1>1, <1>2, <2>1, KeyFrame
<1>3. CASE K(t) = k
  <2>1. /\ CreatesOf(k) = {}
        /\ snap[t] = [mk |-> entry[t].new, val |-> Carry(written[k])]
        /\ entry[t].new = masterKeys[k]
    BY <1>0, <1>3 DEF KeyOK, Early, ThreadInv, Rekeyed
  <2>2. AtKey(k, masterKeys[k])' /\ Current(k)'
    BY <1>0, <1>1, <1>3, <2>1 DEF AtKey, Current, Carry
  <2>3. \A u \in Thread : ~(Early(u) /\ K(u) = k)'
    BY <1>0, <1>3, HoldsAlone DEF Early, K, Holding
  <2>4. (\A u \in Thread : ~(pc[u] = "record" /\ K(u) = k)') =>
          /\ k \in keySet' <=> written'[k] # NoValue
          /\ k \in keySet' => valueSizes'[k] = Size[written'[k]]
    BY <1>0 DEF KeyOK, K
  <2> QED
    BY <2>2, <2>3, <2>4 DEF KeyOK
<1> QED
  BY <1>2, <1>3

\* A create arrives.
LEMMA ServeCreateKey ==
  ASSUME TypeInv, NEW c \in creates, ServeCreate(c), NEW k \in Key, KeyOK(k)
  PROVE  KeyOK(k)'
<1>0. UNCHANGED <<keySet, valueSizes, masterKeys, pc, req, entry, job, snap, written>>
      /\ creates' = creates \ {c}
  BY DEF ServeCreate, proxyVars, maps, threadVars
<1>1. \A u \in Thread : (Early(u) /\ K(u) = k)' <=> Early(u) /\ K(u) = k
  BY <1>0 DEF Early, K
<1>2. ASSUME NEW g, AtKey(k, g), c.key = k PROVE CreatesOf(k) = {c}
  BY <1>2 DEF AtKey, CreatesOf
<1>3. ASSUME NEW u \in Thread, (Early(u) /\ K(u) = k)'
      PROVE  /\ AtKey(k, entry[u].old)'
             /\ IsGet(u)' => Current(k)'
             /\ job'[u] = "decrypted" =>
                  /\ CreatesOf(k)' = {}
                  /\ snap'[u] = [mk |-> entry'[u].new, val |-> Carry(written'[k])]
  <2>1. /\ AtKey(k, entry[u].old) /\ (IsGet(u) => Current(k))
        /\ (job[u] = "decrypted" =>
              /\ CreatesOf(k) = {}
              /\ snap[u] = [mk |-> entry[u].new, val |-> Carry(written[k])])
    BY <1>1, <1>3 DEF KeyOK
  <2> DEFINE g == entry[u].old
  <2>2. AtKey(k, g)' /\ g' = g
    <3>1. g' = g
      BY <1>0
    <3> HIDE DEF g
    <3>2. AtKey(k, g)
      BY <2>1 DEF g
    <3>3. ASSUME NEW h, AtKey(k, h) PROVE AtKey(k, h)'
      BY <3>3, ServeAtKey
    <3> QED
      BY <3>1, <3>2, <3>3 DEF AtKey
  <2>3. IsGet(u)' => Current(k)'
    BY <1>0, <1>2, <2>1, ServeCurrent DEF IsGet
  <2>4. CreatesOf(k)' \subseteq CreatesOf(k)
    BY <1>0 DEF CreatesOf
  <2> QED
    BY <1>0, <2>1, <2>2, <2>3, <2>4
<1>4. (\A u \in Thread : ~(Early(u) /\ K(u) = k)') => AtKey(k, masterKeys[k])' /\ Current(k)'
  <2> SUFFICES ASSUME \A u \in Thread : ~(Early(u) /\ K(u) = k)'
               PROVE  AtKey(k, masterKeys[k])' /\ Current(k)'
    OBVIOUS
  <2>1. AtKey(k, masterKeys[k]) /\ Current(k)
    BY <1>1 DEF KeyOK
  <2>2. Current(k)'
    BY <1>2, <2>1, ServeCurrent
  <2>3. ASSUME NEW h, AtKey(k, h) PROVE AtKey(k, h)'
    BY <2>3, ServeAtKey
  <2>4. AtKey(k, masterKeys[k])'
    BY <1>0, <2>1, <2>3 DEF AtKey
  <2> QED
    BY <2>2, <2>4
<1>5. (\A u \in Thread : ~(pc[u] = "record" /\ K(u) = k)') =>
        /\ k \in keySet' <=> written'[k] # NoValue
        /\ k \in keySet' => valueSizes'[k] = Size[written'[k]]
  BY <1>0 DEF KeyOK, K
<1> QED
  BY <1>3, <1>4, <1>5 DEF KeyOK

\* A step of one thread outside the section between its new master key and the server's
\* new block.
LEMMA LocalKey ==
  ASSUME TypeInv, NEW t \in Thread, NEW k, KeyOK(k),
         UNCHANGED <<keySet, valueSizes, masterKeys, written, db, creates>>,
         \A u \in Thread \ {t} :
           /\ pc'[u] = pc[u] /\ req'[u] = req[u] /\ entry'[u] = entry[u]
           /\ snap'[u] = snap[u] /\ job'[u] = job[u],
         ~Early(t), ~Early(t)'
  PROVE  KeyOK(k)'
<1>1. CreatesOf(k)' = CreatesOf(k)
  BY DEF CreatesOf
<1> QED
  BY <1>1, KeyFrame

LEMMA KeysNext ==
  ASSUME SaveBase, LockStage, KeysInv, main # "down", Next, Meanwhile, Unbroken', ~Crashed',
         NEW k \in Key \ exposed'
  PROVE  KeyOK(k)'
<1>t. TypeInv /\ ThreadInv /\ SaveTypeInv
  BY DEF SaveBase, SaveTypeInv
<1>a. /\ Unbroken /\ ~ServerExits /\ ~ServerRestart
      /\ k \notin exposed /\ k \notin Unordered'
      /\ \A t \in Thread : conn[t] # "dead" /\ job[t] # "broken"
                           /\ (pc[t] \in Busy => conn[t] = "open")
  <2>1. Unbroken /\ ~ServerExits /\ ~ServerRestart
    BY <1>t, UnbrokenBefore DEF SaveNext
  <2> QED
    BY <2>1 DEF Meanwhile, SaveBase, UnbrokenInv
<1>0. ASSUME NEW t \in Thread, pc[t] # "crashed" PROVE ~Crashed /\ KeyOK(k)
  BY <1>0, <1>a DEF LockStage, CrashInv, Crashed, KeysInv
<1>00. ASSUME UNCHANGED pc PROVE ~Crashed /\ KeyOK(k)
  BY <1>00, <1>a DEF Crashed, KeysInv
<1> USE <1>t DEF maps, proxyVars, threadVars, serverVars
<1>1. ASSUME NEW t \in Thread, Request(t) PROVE KeyOK(k)'
  BY <1>0, <1>1, LocalKey DEF Request, TypeInv, TypeOK, Early
<1>2. ASSUME NEW t \in Thread, RequestRefused(t) PROVE KeyOK(k)'
  BY <1>0, <1>2, LocalKey DEF RequestRefused, TypeInv, TypeOK, Early
<1>3. ASSUME NEW t \in Thread, Abort(t), pc[t] \in {"check", "lock"} PROVE KeyOK(k)'
  BY <1>0, <1>3, LocalKey DEF Abort, Return, TypeInv, TypeOK, Early
<1>4. ASSUME NEW t \in Thread, Check(t) PROVE KeyOK(k)'
  <2>1. pc[t] = "check" /\ (Abort(t) \/ \E present \in Lookup(t) : Proceed(t, present))
    BY <1>4 DEF Check
  <2>2. CASE \E present \in Lookup(t) : Proceed(t, present)
    <3>1. /\ pc'[t] = "lock" /\ \A u \in Thread \ {t} : pc'[u] = pc[u]
          /\ UNCHANGED <<keySet, valueSizes, masterKeys, written, db, creates, req, entry,
                         snap, job>>
      BY <2>2 DEF Proceed, TypeInv, TypeOK
    <3>2. ~Early(t) /\ ~Early(t)' /\ KeyOK(k)
      BY <1>0, <2>1, <3>1 DEF Early
    <3> QED
      BY <3>1, <3>2, LocalKey
  <2> QED
    BY <1>3, <2>1, <2>2
<1>5. ASSUME NEW t \in Thread, TryLock(t) PROVE KeyOK(k)'
  <2>1. pc[t] = "lock" /\ (Abort(t) \/ Acquire(t))
    BY <1>5 DEF TryLock
  <2>2. CASE Acquire(t)
    BY <1>0, <2>1, <2>2, LocalKey DEF Acquire, TypeInv, TypeOK, Early
  <2> QED
    BY <1>3, <2>1, <2>2
<1>6. ASSUME NEW t \in Thread, Construct(t) PROVE KeyOK(k)'
  BY <1>0, <1>6, ConstructKey DEF Construct
<1>7. ASSUME NEW t \in Thread, ConstructThrows(t) PROVE KeyOK(k)'
  BY <1>0, <1>7, LocalKey DEF ConstructThrows, TypeInv, TypeOK, Early
<1>8. ASSUME NEW t \in Thread, Record(t) PROVE KeyOK(k)'
  BY <1>0, <1>8, RecordKey DEF Record
<1>9. ASSUME NEW t \in Thread, SendCreate(t) PROVE KeyOK(k)'
  BY <1>0, <1>9, <1>a, SendCreateKey DEF SendCreate, Busy
<1>10. ASSUME NEW t \in Thread, SendAccess(t) PROVE KeyOK(k)'
  BY <1>0, <1>10, SendAccessKey DEF SendAccess
<1>11. ASSUME NEW t \in Thread PROVE ~SendThrows(t) /\ ~ReceiveThrows(t)
  BY <1>a DEF SendThrows, ReceiveThrows
<1>12. ASSUME NEW t \in Thread, Receive(t) PROVE KeyOK(k)'
  BY <1>0, <1>12, LocalKey DEF Receive, TypeInv, TypeOK, Early
<1>13. ASSUME NEW t \in Thread, Release(t) PROVE KeyOK(k)'
  BY <1>0, <1>13, LocalKey DEF Release, Return, TypeInv, TypeOK, Early
<1>14. ASSUME NEW t \in Thread, AccessDecrypt(t) PROVE KeyOK(k)'
  BY <1>00, <1>14, AccessDecryptKey DEF AccessDecrypt
<1>15. ASSUME NEW t \in Thread, AccessStore(t) PROVE KeyOK(k)'
  BY <1>00, <1>15, AccessStoreKey DEF AccessStore
<1>16. ASSUME NEW c \in creates, ServeCreate(c) PROVE KeyOK(k)'
  BY <1>00, <1>16, ServeCreateKey DEF ServeCreate
<1>17. ~RaceCrash
  BY DEF RaceCrash, Crashed
<1>18. CASE UNCHANGED vars
  <2>1. CreatesOf(k)' = CreatesOf(k)
    BY <1>18 DEF CreatesOf, vars
  <2> QED
    BY <1>00, <1>18, <2>1, KeyFrame DEF vars
<1>19. ~ServerQuit /\ \A t \in Thread : ~AccessRip(t)
  BY <1>a DEF ServerQuit, AccessRip
<1>20. \A t \in Thread : ~(Request(t) \/ RequestRefused(t) \/ ThreadStep(t) \/ ServeAccess(t))
                         \/ KeyOK(k)'
  BY <1>1, <1>2, <1>4, <1>5, <1>6, <1>7, <1>8, <1>9, <1>10, <1>11, <1>12, <1>13, <1>14,
     <1>15, <1>19
  DEF ThreadStep, ServeAccess
<1> QED
  BY <1>16, <1>17, <1>18, <1>19, <1>20, <1>a DEF Next, Done

\* The data of a key that is not exposed do not change in a step that leaves the process
\* and the server alone, but for the block of an exposed key.
LEMMA KeysKept ==
  ASSUME KeysInv, Unbroken, ~Crashed, main # "down", exposed \subseteq exposed',
         UNCHANGED <<keySet, valueSizes, masterKeys, written, creates, pc, req, entry, snap, job>>,
         \A k \in Key \ exposed : db'[k] = db[k]
  PROVE  KeysInv'
<1> SUFFICES ASSUME NEW k \in Key \ exposed' PROVE KeyOK(k)'
  BY DEF KeysInv
<1>1. KeyOK(k) /\ k \notin exposed
  BY DEF KeysInv
<1>2. CreatesOf(k)' = CreatesOf(k)
  BY DEF CreatesOf
<1> QED
  BY <1>1, <1>2, KeyFrame

LEMMA OrphanKeeps ==
  ASSUME SaveTypeInv, SavingInv, NEW o \in orphans, OrphanDecrypt(o) \/ OrphanStore(o)
  PROVE  /\ UNCHANGED <<proxyVars, threadVars, job, snap, creates, serverUp, restarts,
                        written, file, main, exposed>>
         /\ \A k \in Key \ exposed : db'[k] = db[k]
<1>1. o.key \in exposed
  BY DEF SavingInv
<1>2. UNCHANGED <<proxyVars, threadVars, job, snap, creates, serverUp, restarts,
                  written, file, main, exposed>>
  BY DEF OrphanDecrypt, OrphanStore, vars, serverVars
<1>3. CASE OrphanDecrypt(o)
  BY <1>2, <1>3 DEF OrphanDecrypt, vars, serverVars
<1>4. CASE OrphanStore(o)
  BY <1>1, <1>2, <1>4 DEF OrphanStore, SaveTypeInv, TypeInv, TypeOK
<1> QED
  BY <1>2, <1>3, <1>4

LEMMA KeysStep ==
  ASSUME SaveBase, KeysInv, FileInv, SavingInv, [SaveNext]_allVars
  PROVE  KeysInv'
<1> SUFFICES ASSUME Unbroken', ~Crashed', main' # "down" PROVE KeysInv'
  BY DEF KeysInv
<1>0. Unbroken /\ ~ServerExits /\ SaveTypeInv
  BY UnbrokenBefore DEF SaveBase
<1> USE DEF maps, proxyVars, threadVars, serverVars, vars
<1>1. CASE Next /\ Meanwhile
  <2>1. main # "down" /\ LockStage
    BY <1>1 DEF Meanwhile, SaveBase, SaveLockInv
  <2> QED
    BY <1>1, <2>1, KeysNext DEF KeysInv
<1>2. CASE SaveKeySet \/ SaveValueSizes \/ SaveMasterKeys
  BY <1>0, <1>2, KeysKept DEF SaveKeySet, SaveValueSizes, SaveMasterKeys
<1>3. CASE SaveCrash
  BY <1>3 DEF SaveCrash, Crashed
<1>4. CASE Exit
  BY <1>4 DEF Exit
<1>5. CASE Setup
  <2>0. UNCHANGED <<db, creates, written, file, exposed>>
        /\ keySet' = file.keySet /\ valueSizes' = file.valueSizes
        /\ masterKeys' = file.masterKeys
        /\ \A t \in Thread : pc'[t] = "idle"
    BY <1>5 DEF Setup, SaveBase, DownInv
  <2> SUFFICES ASSUME NEW k \in Key \ exposed' PROVE KeyOK(k)'
    BY DEF KeysInv
  <2>1. FileOK(k)
    BY <1>0, <1>5, <2>0 DEF FileInv, Setup
  <2>2. CreatesOf(k)' = CreatesOf(k)
    BY <2>0 DEF CreatesOf
  <2>3. AtKey(k, masterKeys[k])' /\ Current(k)'
    BY <2>0, <2>1, <2>2 DEF FileOK, AtKey, Current, Carry
  <2> QED
    BY <2>0, <2>1, <2>3 DEF FileOK, KeyOK, Early
<1>6. ASSUME NEW o \in orphans, OrphanDecrypt(o) \/ OrphanStore(o) PROVE KeysInv'
  <2>1. /\ UNCHANGED <<proxyVars, threadVars, job, snap, creates, written, main, exposed>>
        /\ \A k \in Key \ exposed : db'[k] = db[k]
    BY <1>0, <1>6, OrphanKeeps
  <2>2. ~Crashed
    BY <2>1 DEF Crashed
  <2> QED
    BY <1>0, <2>1, <2>2, KeysKept
<1>7. ASSUME NEW o \in orphans, OrphanRip(o) PROVE FALSE
  BY <1>0, <1>7 DEF OrphanRip
<1>8. CASE UNCHANGED allVars
  BY <1>0, <1>8, KeysKept DEF allVars, saveVars, Crashed
<1> QED
  BY <1>1, <1>2, <1>3, <1>4, <1>5, <1>6, <1>7, <1>8 DEF SaveNext, ServeOrphan

\* The file at the exit, and until the next process has loaded it.
LEMMA FileStep ==
  ASSUME SaveBase, KeysInv, FileInv, SavingInv, [SaveNext]_allVars
  PROVE  FileInv'
<1> SUFFICES ASSUME Unbroken', main' = "down", NEW k \in Key \ exposed' PROVE FileOK(k)'
  BY DEF FileInv
<1>0. Unbroken /\ ~ServerExits /\ ~ServerRestart /\ SaveTypeInv /\ TypeInv
  BY UnbrokenBefore DEF SaveBase, SaveTypeInv
<1>00. ASSUME main = "down", UNCHANGED <<creates, written, file>>, exposed \subseteq exposed',
              db'[k] = db[k]
       PROVE  FileOK(k)'
  <2>1. FileOK(k)
    BY <1>0, <1>00 DEF FileInv
  <2>2. CreatesOf(k)' = CreatesOf(k)
    BY <1>00 DEF CreatesOf
  <2> QED
    BY <1>00, <2>1, <2>2 DEF FileOK, Carry
<1> USE DEF threadVars, serverVars, vars
<1>1. CASE Next /\ Meanwhile
  <2>0. main = "down" /\ UNCHANGED threadVars /\ file' = file /\ exposed \subseteq exposed'
    BY <1>1 DEF Meanwhile
  <2>1. (\E c \in creates : ServeCreate(c)) \/ UNCHANGED vars
    BY <1>0, <1>1, <2>0, DownSteps DEF SaveBase, ServerQuit
  <2>2. FileOK(k)
    BY <1>0, <2>0 DEF FileInv
  <2>3. ASSUME NEW c \in creates, ServeCreate(c) PROVE FileOK(k)'
    <3>1. c.key # k
      BY <2>2 DEF FileOK, CreatesOf
    <3>2. creates' = creates \ {c} /\ written' = written /\ db'[k] = db[k]
      BY <1>0, <2>3, <3>1 DEF ServeCreate, TypeInv, TypeOK
    <3>3. CreatesOf(k)' = CreatesOf(k)
      BY <3>1, <3>2 DEF CreatesOf
    <3> QED
      BY <2>0, <2>2, <3>2, <3>3 DEF FileOK, Carry
  <2>4. CASE UNCHANGED vars
    BY <1>00, <2>0, <2>4
  <2> QED
    BY <2>1, <2>3, <2>4
<1>2. CASE SaveKeySet \/ SaveValueSizes \/ SaveMasterKeys \/ Setup
  BY <1>2 DEF SaveKeySet, SaveValueSizes, SaveMasterKeys, Setup
<1>3. CASE SaveCrash
  BY <1>3, CrashesUp DEF SaveCrash
<1>4. CASE Exit
  <2>0. /\ main = "exit" /\ ~Crashed /\ UNCHANGED <<db, creates, written, file, exposed>>
    BY <1>4 DEF Exit
  <2>1. k \notin UnderWay /\ KeyOK(k)
        /\ (k \in file.keySet <=> k \in keySet)
        /\ file.valueSizes[k] = valueSizes[k] /\ file.masterKeys[k] = masterKeys[k]
    BY <1>0, <2>0 DEF SavingInv, Saving, KeysInv
  <2>2. \A t \in Thread : ~(Early(t) /\ K(t) = k) /\ ~(pc[t] = "record" /\ K(t) = k)
    BY <2>1 DEF UnderWay, Holds, Holding, Early
  <2>3. CreatesOf(k) = {}
    BY <2>1 DEF UnderWay, CreatesOf
  <2>4. AtKey(k, masterKeys[k]) /\ Current(k)
        /\ (k \in keySet <=> written[k] # NoValue)
        /\ (k \in keySet => valueSizes[k] = Size[written[k]])
    BY <2>1, <2>2 DEF KeyOK
  <2>5. FileOK(k)
    BY <2>1, <2>3, <2>4 DEF FileOK, AtKey, Current
  <2>6. CreatesOf(k)' = CreatesOf(k)
    BY <2>0 DEF CreatesOf
  <2> QED
    BY <2>0, <2>5, <2>6 DEF FileOK, Carry
<1>5. ASSUME NEW o \in orphans, OrphanDecrypt(o) \/ OrphanStore(o) PROVE FileOK(k)'
  <2>1. /\ UNCHANGED <<creates, written, file, main, exposed>>
        /\ \A l \in Key \ exposed : db'[l] = db[l]
    BY <1>0, <1>5, OrphanKeeps
  <2> QED
    BY <1>00, <2>1
<1>6. ASSUME NEW o \in orphans, OrphanRip(o) PROVE FALSE
  BY <1>0, <1>6 DEF OrphanRip
<1>7. CASE UNCHANGED allVars
  BY <1>00, <1>7 DEF allVars, saveVars
<1> QED
  BY <1>1, <1>2, <1>3, <1>4, <1>5, <1>6, <1>7 DEF SaveNext, ServeOrphan

(***************************************************************************)
(* Accesses at the server                                                  *)
(***************************************************************************)
\* While the process lives, an access is that of the thread that holds the key.
LEMMA AccessLive == SaveBase /\ KeysInv /\ (main = "down" \/ ~Crashed) => AccessInv
<1> SUFFICES ASSUME SaveBase, KeysInv, main = "down" \/ ~Crashed PROVE AccessInv
  OBVIOUS
<1>1. CASE main = "down"
  BY <1>1 DEF SaveBase, DownInv, AccessInv
<1>2. CASE main # "down"
  <2>1. TypeInv /\ ThreadInv /\ LockStage /\ ~Crashed
    BY <1>2 DEF SaveBase, SaveTypeInv, SaveLockInv
  <2>2. ASSUME NEW t \in Thread, job[t] # "none"
        PROVE  pc[t] = "wait" /\ Holds(t, K(t)) /\ K(t) \in Key
    BY <2>1, <2>2, OrphanType DEF ThreadInv
  <2>3. ASSUME NEW t \in Thread, NEW u \in Thread, job[t] # "none", job[u] # "none", K(t) = K(u)
        PROVE  t = u
    BY <2>1, <2>2, <2>3 DEF LockStage, LockExclusion
  <2>4. ASSUME Unbroken, NEW t \in Thread, job[t] = "sent", K(t) \notin exposed
        PROVE  AtKey(K(t), entry[t].old)
    <3>1. KeyOK(K(t)) /\ Early(t)
      BY <1>2, <2>1, <2>2, <2>4 DEF KeysInv, Early
    <3> QED
      BY <3>1 DEF KeyOK
  <2> QED
    BY <2>2, <2>3, <2>4 DEF AccessInv
<1> QED
  BY <1>1, <1>2

\* A step that brings no new access and keeps the blocks the accesses expect.
LEMMA AccessKept ==
  ASSUME AccessInv, UNCHANGED <<req, entry>>, exposed \subseteq exposed',
         \A t \in Thread : job'[t] # "none" => job[t] # "none",
         Unbroken' => Unbroken,
         Unbroken' => \A t \in Thread : job'[t] = "sent" => job[t] = "sent",
         \A t \in Thread : \A k \in Key : \A g :
           Unbroken' /\ job'[t] = "sent" /\ K(t) = k /\ k \notin exposed /\ AtKey(k, g) =>
             AtKey(k, g)'
  PROVE  AccessInv'
<1>0. \A t \in Thread : K(t)' = K(t)
  BY DEF K
<1>1. \A t \in Thread : job'[t] # "none" => K(t)' \in Key
  BY <1>0 DEF AccessInv
<1>2. \A t, u \in Thread : job'[t] # "none" /\ job'[u] # "none" /\ K(t)' = K(u)' => t = u
  BY <1>0 DEF AccessInv
<1>3. ASSUME Unbroken', NEW t \in Thread, job'[t] = "sent", K(t)' \notin exposed'
      PROVE  AtKey(K(t), entry[t].old)'
  <2> DEFINE k == K(t)
             g == entry[t].old
  <2>1. k' = k /\ g' = g /\ k \in Key /\ k \notin exposed /\ AtKey(k, g)
    BY <1>0, <1>3 DEF AccessInv
  <2> SUFFICES AtKey(k, g)'
    OBVIOUS
  <2>2. \A l \in Key : \A h : K(t) = l /\ l \notin exposed /\ AtKey(l, h) => AtKey(l, h)'
    BY <1>3
  <2>3. K(t) = k
    OBVIOUS
  <2> HIDE DEF k, g
  <2>4. \E l \in Key : \E h : l = k /\ h = g /\ AtKey(l, h)'
    BY <2>1, <2>2, <2>3
  <2> QED
    BY <2>1, <2>4 DEF AtKey, CreatesOf
<1> QED
  BY <1>1, <1>2, <1>3 DEF AccessInv

LEMMA AccessCrashed ==
  ASSUME SaveBase, SaveBase', AccessInv, SavingInv, [SaveNext]_allVars, Crashed'
  PROVE  AccessInv'
<1>0. TypeInv /\ TypeInv' /\ SaveTypeInv
  BY DEF SaveBase, SaveTypeInv
<1>1. main' # "down" /\ \A t \in Thread : pc'[t] = "crashed"
  <2>1. main' # "down"
    BY DEF SaveBase, DownInv, Crashed
  <2> QED
    BY <2>1 DEF SaveBase, SaveLockInv, LockStage, CrashInv
<1>2. Unbroken' => Unbroken /\ ~ServerExits /\ ~ServerRestart
  BY <1>0, UnbrokenBefore
<1> USE <1>0, <1>2 DEF threadVars, serverVars, vars
<1>3. ASSUME UNCHANGED <<req, entry, job, db, creates>>, exposed \subseteq exposed'
      PROVE  AccessInv'
  <2>1. \A k \in Key : \A g : AtKey(k, g) => AtKey(k, g)'
    BY <1>3 DEF AtKey, CreatesOf
  <2> QED
    BY <1>3, <2>1, AccessKept
<1>4. ASSUME ServerExits, exposed \subseteq exposed' PROVE AccessInv'
  <2>1. ~Unbroken' /\ UNCHANGED <<req, entry>>
        /\ \A t \in Thread : job'[t] # "none" => job[t] # "none"
    BY <1>4, ExitJobs DEF ServerExits
  <2> QED
    BY <1>4, <2>1, AccessKept
<1>5. CASE Next /\ Meanwhile
  <2>0. exposed \subseteq exposed'
    BY <1>5 DEF Meanwhile
  <2>1. ASSUME NEW t \in Thread, Request(t) \/ RequestRefused(t) PROVE FALSE
    BY <1>1, <2>1 DEF Request, RequestRefused, TypeInv, TypeOK
  <2>2. ASSUME NEW t \in Thread, ThreadStep(t) PROVE FALSE
    <3>1. CASE Check(t) \/ TryLock(t) \/ Release(t)
      BY <1>1, <3>1
      DEF Check, TryLock, Release, Proceed, Acquire, Abort, Return, TypeInv, TypeOK
    <3>2. CASE Construct(t) \/ ConstructThrows(t) \/ Record(t)
      BY <1>1, <3>2 DEF Construct, ConstructThrows, Record, TypeInv, TypeOK
    <3>3. CASE SendCreate(t) \/ SendAccess(t) \/ SendThrows(t) \/ Receive(t) \/ ReceiveThrows(t)
      BY <1>1, <3>3
      DEF SendCreate, SendAccess, SendThrows, Receive, ReceiveThrows, TypeInv, TypeOK
    <3> QED
      BY <2>2, <3>1, <3>2, <3>3 DEF ThreadStep
  <2>3. ASSUME NEW u \in Thread, AccessDecrypt(u) PROVE AccessInv'
    <3>1. /\ UNCHANGED <<req, entry, db, creates>> /\ job[u] = "sent"
          /\ \A t \in Thread : job'[t] = IF t = u THEN "decrypted" ELSE job[t]
      BY <2>3 DEF AccessDecrypt, AtServer, TypeInv, TypeOK
    <3>2. \A k \in Key : \A g : AtKey(k, g) => AtKey(k, g)'
      BY <3>1 DEF AtKey, CreatesOf
    <3> QED
      BY <2>0, <3>1, <3>2, AccessKept
  <2>4. ASSUME NEW u \in Thread, AccessStore(u) PROVE AccessInv'
    <3>1. /\ UNCHANGED <<req, entry, creates>> /\ job[u] = "decrypted"
          /\ \A t \in Thread : job'[t] = IF t = u THEN "stored" ELSE job[t]
          /\ \A k \in Key : k # K(u) => db'[k] = db[k]
      BY <2>4 DEF AccessStore, TypeInv, TypeOK
    <3>2. ASSUME NEW t \in Thread, NEW k \in Key, NEW g, job'[t] = "sent", K(t) = k, AtKey(k, g)
          PROVE  AtKey(k, g)'
      <4>1. k # K(u)
        BY <3>1, <3>2 DEF AccessInv
      <4>2. db'[k] = db[k] /\ CreatesOf(k)' = CreatesOf(k)
        BY <3>1, <4>1 DEF CreatesOf
      <4> QED
        BY <3>2, <4>2 DEF AtKey
    <3> QED
      BY <2>0, <3>1, <3>2, AccessKept
  <2>5. ASSUME NEW c \in creates, ServeCreate(c) PROVE AccessInv'
    <3>1. UNCHANGED <<req, entry, job>>
      BY <2>5 DEF ServeCreate
    <3>2. \A k \in Key : \A g : AtKey(k, g) => AtKey(k, g)'
      BY <2>5, ServeAtKey
    <3> QED
      BY <2>0, <3>1, <3>2, AccessKept
  <2>6. CASE RaceCrash \/ ServerRestart \/ UNCHANGED vars
    BY <1>3, <2>0, <2>6 DEF RaceCrash, ServerRestart
  <2>7. ASSUME ServerQuit \/ \E t \in Thread : AccessRip(t) PROVE AccessInv'
    BY <1>4, <2>0, <2>7 DEF ServerQuit, AccessRip
  <2>8. \A t \in Thread : ServeAccess(t) => AccessInv'
    BY <2>3, <2>4, <2>7 DEF ServeAccess
  <2> QED
    BY <1>5, <2>1, <2>2, <2>5, <2>6, <2>7, <2>8 DEF Next, Done
<1>6. CASE SaveKeySet \/ SaveValueSizes \/ SaveMasterKeys \/ SaveCrash \/ Setup
           \/ UNCHANGED allVars
  BY <1>3, <1>6
  DEF SaveKeySet, SaveValueSizes, SaveMasterKeys, SaveCrash, Setup, allVars, saveVars
<1>7. CASE Exit
  BY <1>1, <1>7 DEF Exit
<1>8. ASSUME NEW o \in orphans, OrphanDecrypt(o) \/ OrphanStore(o) PROVE AccessInv'
  <2>1. /\ UNCHANGED <<req, entry, job, creates, exposed>>
        /\ \A k \in Key \ exposed : db'[k] = db[k]
    BY <1>8, OrphanKeeps
  <2>2. \A k \in Key : \A g : k \notin exposed /\ AtKey(k, g) => AtKey(k, g)'
    BY <2>1 DEF AtKey, CreatesOf
  <2> QED
    BY <2>1, <2>2, AccessKept
<1>9. ASSUME NEW o \in orphans, OrphanRip(o) PROVE AccessInv'
  BY <1>4, <1>9 DEF OrphanRip
<1> QED
  BY <1>5, <1>6, <1>7, <1>8, <1>9 DEF SaveNext, ServeOrphan

(***************************************************************************)
(* The theorems of the stage                                               *)
(***************************************************************************)
LEMMA SaveInvStep == SaveInv /\ [SaveNext]_allVars => SaveInv'
<1> SUFFICES ASSUME SaveInv, [SaveNext]_allVars PROVE SaveInv'
  OBVIOUS
<1>1. SaveBase /\ KeysInv /\ FileInv /\ SavingInv /\ AccessInv
  BY DEF SaveInv, SaveBase
<1>2. SaveBase' /\ KeysInv' /\ FileInv' /\ SavingInv'
  BY <1>1, SaveBaseStep, KeysStep, FileStep, SavingStep
<1>3. AccessInv'
  <2>1. (SaveBase /\ KeysInv /\ (main = "down" \/ ~Crashed) => AccessInv)'
    BY AccessLive, PTL
  <2> QED
    BY <1>1, <1>2, <2>1, AccessCrashed
<1> QED
  BY <1>2, <1>3 DEF SaveInv, SaveBase

LEMMA SaveInvInit == SaveInit => SaveInv
<1> SUFFICES ASSUME SaveInit PROVE SaveInv
  OBVIOUS
<1>1. Init /\ TypeInv /\ LockStage
  BY TypeInit, LockInit DEF SaveInit
<1>2. /\ \A t \in Thread : pc[t] = "idle" /\ job[t] = "none" /\ conn[t] = "closed"
      /\ creates = {} /\ orphans = {} /\ main = "serve" /\ exposed = {} /\ stops = 0
      /\ keySet = Preloaded /\ nextKey = 2
      /\ \A k \in Key : masterKeys[k] = IF k \in Preloaded THEN 1 ELSE 0
      /\ file = [keySet |-> keySet, valueSizes |-> valueSizes, masterKeys |-> masterKeys]
  BY <1>1 DEF Init, SaveInit
<1>3. SaveTypeInv
  BY <1>1, <1>2 DEF SaveTypeInv, Maps, TypeInv, TypeOK
<1>4. DownInv /\ SaveLockInv /\ UnbrokenInv /\ SavingInv /\ FileInv
  BY <1>1, <1>2 DEF DownInv, SaveLockInv, UnbrokenInv, SavingInv, FileInv, Saving, Busy
<1>5. ThreadInv
  BY <1>2 DEF ThreadInv, Busy, Rekeyed
<1>6. ASSUME NEW k \in Key PROVE KeyOK(k)
  <2>1. CreatesOf(k) = {}
    BY <1>2 DEF CreatesOf
  <2>2. db[k].mk = masterKeys[k] /\ db[k].val = written[k]
        /\ (k \in keySet <=> written[k] # NoValue)
        /\ (k \in keySet => valueSizes[k] = Size[written[k]])
    BY <1>1, LblProxyAssumption DEF Init, NoBlock
  <2>3. AtKey(k, masterKeys[k]) /\ Current(k)
    BY <2>1, <2>2 DEF AtKey, Current
  <2> QED
    BY <1>2, <2>2, <2>3 DEF KeyOK, Early
<1>7. KeysInv
  BY <1>6 DEF KeysInv
<1>8. AccessInv
  BY <1>2 DEF AccessInv
<1> QED
  BY <1>3, <1>4, <1>5, <1>7, <1>8 DEF SaveInv

\* What OpScureCleanup leaves in DATA_FILE opens the server's blocks, for every key nobody
\* worked on during the save: for any number of threads, keys and ends of the process.
THEOREM SavedOpensHolds == SaveSpec => []SavedOpens
<1>1. SaveInv => SavedOpens
  BY DEF SaveInv, FileInv, FileOK, SavedOpens, Unbroken
<1> QED
  BY <1>1, SaveInvInit, SaveInvStep, PTL DEF SaveSpec

\* An access finds a block it cannot open, and the server exits over it, only on an
\* exposed key or before the create of the key has arrived.
THEOREM RipOnlyExposedHolds == SaveSpec => []RipOnlyExposed
<1>1. SaveInv => RipOnlyExposed
  <2> SUFFICES ASSUME SaveInv, NEW t \in Thread, restarts = 0, AtServer(t),
                      ~Decryptable(t, db[K(t)]), K(t) \notin exposed
               PROVE  \E c \in creates : c.key = K(t)
    BY DEF RipOnlyExposed
  <2>1. AtKey(K(t), entry[t].old) /\ db[K(t)].mk # entry[t].old
    BY DEF SaveInv, AccessInv, AtServer, Unbroken, Decryptable
  <2> QED
    BY <2>1 DEF AtKey, CreatesOf
<1> QED
  BY <1>1, SaveInvInit, SaveInvStep, PTL DEF SaveSpec

(***************************************************************************)
(* Stage 6: when the server survives.                                      *)
(*                                                                         *)
(* ServerSurvives fails because an access can overtake the one-way create  *)
(* it depends on.  It holds where there is no such create, and where one   *)
(* connection carries both.                                                *)
(***************************************************************************)
\* Every key was loaded, or one thread sends everything on its one connection.
Orderly ==
  \/ Key = Preloaded
  \/ ~PER_REQUEST_CONN /\ \A t, u \in Thread : t = u

\* The server was not left and the maps were not torn.
QuietInv ==
  /\ serverUp /\ ~Crashed
  /\ \A k \in NumberedKey : locks[k] # "absent"
  /\ \A t \in Thread : /\ conn[t] # "dead" /\ job[t] # "broken"
                       /\ pc[t] \in Busy => conn[t] = "open"

\* A thread creates a key only if there is no master key for it; with every key loaded
\* it never does.
LookupInv ==
  /\ Key = Preloaded =>
       /\ keySet = Key /\ creates = {}
       /\ \A t \in Thread : pc[t] \in {"lock", "construct", "record", "send"} => found[t]
  /\ \A c \in creates : c.mk # 0
  /\ \A t \in Thread :
       /\ pc[t] \in {"lock", "construct", "record"} /\ ~found[t] => K(t) \notin keySet
       /\ pc[t] \in {"record", "send"} /\ ~found[t] => entry[t].old = 0
       /\ job[t] = "decrypted" => creates = {}
  /\ \A k \in Key \ keySet :
       masterKeys[k] = 0 \/ \E t \in Thread : pc[t] = "record" /\ K(t) = k

\* The server has, or is about to have, the block the next access of key k is made for.
KeyAt(k) ==
  /\ \A t \in Thread : Early(t) /\ K(t) = k => AtKey(k, entry[t].old)
  /\ (\A t \in Thread : ~(Early(t) /\ K(t) = k)) => AtKey(k, masterKeys[k])

OrderlyCore == QuietInv /\ LookupInv /\ \A k \in Key : KeyAt(k)

OrderlyInv == quits = 0 => OrderlyCore

\* What a step leaves of a key it does not touch.
LEMMA KeyAtFrame ==
  ASSUME NEW k, KeyAt(k), db'[k] = db[k], CreatesOf(k)' = CreatesOf(k),
         masterKeys'[k] = masterKeys[k],
         \A t \in Thread :
           \/ ((Early(t) /\ K(t) = k)' <=> Early(t) /\ K(t) = k) /\ entry'[t] = entry[t]
           \/ ~(Early(t) /\ K(t) = k) /\ ~(Early(t) /\ K(t) = k)'
  PROVE  KeyAt(k)'
<1>1. \A g : AtKey(k, g) => AtKey(k, g)'
  BY DEF AtKey
<1>2. ASSUME NEW t \in Thread, (Early(t) /\ K(t) = k)' PROVE AtKey(k, entry[t].old)'
  <2>1. Early(t) /\ K(t) = k /\ entry'[t] = entry[t]
    BY <1>2
  <2>2. AtKey(k, entry[t].old)
    BY <2>1 DEF KeyAt
  <2> QED
    BY <2>1, <2>2 DEF AtKey
<1>3. ASSUME \A t \in Thread : ~(Early(t) /\ K(t) = k)' PROVE AtKey(k, masterKeys[k])'
  <2>1. \A t \in Thread : ~(Early(t) /\ K(t) = k)
    BY <1>3
  <2>2. AtKey(k, masterKeys[k])
    BY <2>1 DEF KeyAt
  <2> QED
    BY <2>2 DEF AtKey
<1> QED
  BY <1>2, <1>3 DEF KeyAt

\* With a quiet server no insertion into a map meets another thread.
LEMMA NoRace ==
  ASSUME Orderly, TypeInv, DataInv, OrderlyCore
  PROVE  ~RaceCrash /\ \A t \in Thread : Lookup(t) = IF K(t) \in keySet THEN {TRUE} ELSE {FALSE}
<1>1. CASE \A t, u \in Thread : t = u
  <2>1. ~RaceCrash
    BY <1>1 DEF RaceCrash
  <2>2. ASSUME NEW t \in Thread PROVE Lookup(t) = IF K(t) \in keySet THEN {TRUE} ELSE {FALSE}
    <3>1. ~ \E u \in Thread \ {t} : "keySet" \in Grows(u)
      BY <1>1
    <3>2. CASE K(t) \in keySet
      BY <3>1, <3>2 DEF Lookup
    <3>3. CASE K(t) \notin keySet
      BY <3>3 DEF Lookup
    <3> QED
      BY <3>2, <3>3
  <2> QED
    BY <2>1, <2>2
<1>2. CASE Key = Preloaded
  <2>1. ASSUME NEW u \in Thread PROVE Grows(u) = {}
    <3>1. pc[u] \in {"lock", "construct", "record"} => K(u) \in Key
      BY RequestTypes DEF Busy
    <3>2. \A k \in Key : locks[k] # "absent" /\ masterKeys[k] # 0 /\ k \in keySet
      BY <1>2, LblProxyAssumption DEF OrderlyCore, QuietInv, LookupInv, DataInv, KeyInv
    <3>3. CASE pc[u] = "lock"
      BY <3>1, <3>2, <3>3 DEF Grows
    <3>4. CASE pc[u] = "construct"
      BY <3>1, <3>2, <3>4 DEF Grows
    <3>5. CASE pc[u] = "record"
      BY <3>1, <3>2, <3>5 DEF Grows
    <3>6. CASE pc[u] \notin {"lock", "construct", "record"}
      BY <3>6 DEF Grows
    <3> QED
      BY <3>3, <3>4, <3>5, <3>6
  <2>2. ~RaceCrash
    BY <2>1 DEF RaceCrash
  <2>3. ASSUME NEW t \in Thread PROVE Lookup(t) = IF K(t) \in keySet THEN {TRUE} ELSE {FALSE}
    <3>1. ~ \E u \in Thread \ {t} : "keySet" \in Grows(u)
      BY <2>1
    <3>2. CASE K(t) \in keySet
      BY <3>1, <3>2 DEF Lookup
    <3>3. CASE K(t) \notin keySet
      BY <3>3 DEF Lookup
    <3> QED
      BY <3>2, <3>3
  <2> QED
    BY <2>2, <2>3
<1> QED
  BY <1>1, <1>2 DEF Orderly

\* A step of one thread that is not about to change the server's block.
LEMMA LocalAt ==
  ASSUME OrderlyCore, NEW t \in Thread,
         UNCHANGED <<masterKeys, db, creates>>,
         \A u \in Thread \ {t} :
           pc'[u] = pc[u] /\ req'[u] = req[u] /\ entry'[u] = entry[u] /\ job'[u] = job[u],
         ~Early(t), ~Early(t)'
  PROVE  \A k \in Key : KeyAt(k)'
<1> SUFFICES ASSUME NEW k \in Key PROVE KeyAt(k)'
  OBVIOUS
<1>1. CreatesOf(k)' = CreatesOf(k)
  BY DEF CreatesOf
<1>2. \A u \in Thread \ {t} : (Early(u) /\ K(u) = k)' <=> Early(u) /\ K(u) = k
  BY DEF Early, K
<1> QED
  BY <1>1, <1>2, KeyAtFrame DEF OrderlyCore

\* The same for the whole invariant.
LEMMA OrderlyLocal ==
  ASSUME OrderlyCore, NEW t \in Thread,
         UNCHANGED <<keySet, masterKeys, db, creates, serverUp>>,
         \A k \in NumberedKey : locks'[k] # "absent",
         \A u \in Thread \ {t} :
           /\ pc'[u] = pc[u] /\ req'[u] = req[u] /\ entry'[u] = entry[u] /\ job'[u] = job[u]
           /\ found'[u] = found[u] /\ conn'[u] = conn[u],
         ~Early(t), pc'[t] \notin {"record", "send", "wait", "crashed"},
         conn'[t] # "dead", job'[t] \notin {"broken", "decrypted"},
         pc'[t] \in Busy => conn'[t] = "open",
         pc'[t] \in {"lock", "construct"} => found'[t] <=> req'[t].key \in keySet,
         pc'[t] \in {"lock", "construct"} => req'[t].key \in Key
  PROVE  OrderlyCore'
<1>1. QuietInv'
  BY DEF OrderlyCore, QuietInv, Crashed
<1>2. LookupInv'
  <2>1. pc[t] # "record"
    BY DEF Early
  <2>2. ASSUME Key = Preloaded
        PROVE  /\ keySet' = Key /\ creates' = {}
               /\ \A u \in Thread : pc'[u] \in {"lock", "construct", "record", "send"} => found'[u]
    BY <2>2 DEF OrderlyCore, LookupInv
  <2>3. ASSUME NEW u \in Thread
        PROVE  /\ pc'[u] \in {"lock", "construct", "record"} /\ ~found'[u] => K(u)' \notin keySet
               /\ pc'[u] \in {"record", "send"} /\ ~found'[u] => entry'[u].old = 0
               /\ job'[u] = "decrypted" => creates' = {}
    <3>1. CASE u = t
      BY <3>1 DEF K
    <3>2. CASE u # t
      BY <3>2 DEF OrderlyCore, LookupInv, K
    <3> QED
      BY <3>1, <3>2
  <2>4. ASSUME NEW k \in Key \ keySet
        PROVE  masterKeys[k] = 0 \/ \E u \in Thread : pc'[u] = "record" /\ K(u)' = k
    <3>1. masterKeys[k] = 0 \/ \E u \in Thread : pc[u] = "record" /\ K(u) = k
      BY DEF OrderlyCore, LookupInv
    <3>2. ASSUME NEW u \in Thread, pc[u] = "record", K(u) = k PROVE pc'[u] = "record" /\ K(u)' = k
      BY <2>1, <3>2 DEF K
    <3> QED
      BY <3>1, <3>2
  <2>5. \A c \in creates' : c.mk # 0
    BY DEF OrderlyCore, LookupInv
  <2> QED
    BY <2>2, <2>3, <2>4, <2>5 DEF LookupInv
<1>3. \A k \in Key : KeyAt(k)'
  <2>1. ~Early(t)'
    BY DEF Early
  <2> QED
    BY <2>1, LocalAt
<1> QED
  BY <1>1, <1>2, <1>3 DEF OrderlyCore

\* A request's way to the lock, and back from it.
LEMMA OrderlyBefore ==
  ASSUME Orderly, TypeInv, LockStage, DataInv, OrderlyCore, NEW t \in Thread
  PROVE  Request(t) \/ Check(t) \/ TryLock(t) \/ ConstructThrows(t) => OrderlyCore'
<1> USE DEF maps, proxyVars, threadVars, serverVars
<1>q. /\ \A k \in NumberedKey : locks[k] # "absent"
      /\ conn[t] # "dead" /\ job[t] # "broken" /\ (pc[t] \in Busy => conn[t] = "open")
      /\ pc[t] # "wait" => job[t] = "none"
      /\ serverUp
  BY DEF OrderlyCore, QuietInv, DataInv, JobInv, TypeInv, TypeOK
<1>1. ASSUME Request(t) PROVE OrderlyCore'
  BY <1>1, <1>q, OrderlyLocal DEF Request, TypeInv, TypeOK, Early, Busy
<1>2. ASSUME Abort(t), pc[t] \in {"check", "lock"},
             \A k \in NumberedKey : locks'[k] # "absent" PROVE OrderlyCore'
  BY <1>2, <1>q, OrderlyLocal DEF Abort, Return, TypeInv, TypeOK, Early, Busy
<1>3. ASSUME Check(t) PROVE OrderlyCore'
  <2>1. PICK present \in Lookup(t) :
          pc[t] = "check" /\ (Proceed(t, present) \/ (Abort(t) /\ UNCHANGED locks))
    BY <1>3 DEF Check
  <2>2. CASE Abort(t) /\ UNCHANGED locks
    BY <1>2, <1>q, <2>1, <2>2
  <2>3. CASE Proceed(t, present)
    <3>1. present <=> K(t) \in keySet
      <4>1. Lookup(t) = IF K(t) \in keySet THEN {TRUE} ELSE {FALSE}
        BY NoRace
      <4>2. CASE K(t) \in keySet
        BY <4>1, <4>2
      <4>3. CASE K(t) \notin keySet
        BY <4>1, <4>3
      <4> QED
        BY <4>2, <4>3
    <3>2. /\ pc'[t] = "lock" /\ found'[t] = present /\ req'[t].key = K(t) /\ K(t) \in Key
          /\ conn'[t] = "open" /\ job'[t] = "none"
      BY <1>q, <2>1, <2>3, RequestTypes DEF Proceed, TypeInv, TypeOK, K, Busy
    <3>3. \A u \in Thread \ {t} : pc'[u] = pc[u] /\ found'[u] = found[u]
      BY <2>3 DEF Proceed, TypeInv, TypeOK
    <3>4. UNCHANGED <<keySet, masterKeys, db, creates, serverUp, locks, req, entry, job, conn>>
      BY <2>3 DEF Proceed
    <3>5. ~Early(t)
      BY <2>1 DEF Early
    <3> QED
      BY <1>q, <3>1, <3>2, <3>3, <3>4, <3>5, OrderlyLocal
  <2> QED
    BY <2>1, <2>2, <2>3
<1>4. ASSUME TryLock(t) PROVE OrderlyCore'
  <2>1. /\ pc[t] = "lock" /\ (Acquire(t) \/ Abort(t))
        /\ locks' = [locks EXCEPT ![K(t)] = "held"]
    BY <1>4 DEF TryLock
  <2>2. \A k \in NumberedKey : locks'[k] # "absent"
    BY <1>q, <2>1, LblProxyAssumption DEF TypeInv, TypeOK
  <2>3. CASE Abort(t)
    BY <1>2, <2>1, <2>2, <2>3
  <2>4. CASE Acquire(t)
    <3>1. found[t] <=> K(t) \in keySet
      BY <2>1 DEF OrderlyCore, LookupInv, DataInv, KeyInv, Busy
    <3>2. /\ pc'[t] = "construct" /\ found'[t] = found[t] /\ req'[t].key = K(t) /\ K(t) \in Key
          /\ conn'[t] = "open" /\ job'[t] = "none"
      BY <1>q, <2>1, <2>4, RequestTypes DEF Acquire, TypeInv, TypeOK, K, Busy
    <3>3. \A u \in Thread \ {t} : pc'[u] = pc[u]
      BY <2>4 DEF Acquire, TypeInv, TypeOK
    <3>4. UNCHANGED <<keySet, masterKeys, db, creates, serverUp, req, found, entry, job, conn>>
      BY <2>4 DEF Acquire
    <3>5. ~Early(t)
      BY <2>1 DEF Early
    <3> QED
      BY <2>2, <1>q, <3>1, <3>2, <3>3, <3>4, <3>5, OrderlyLocal
  <2> QED
    BY <2>1, <2>3, <2>4
<1>5. ASSUME ConstructThrows(t) PROVE OrderlyCore'
  BY <1>5, <1>q, OrderlyLocal DEF ConstructThrows, TypeInv, TypeOK, Early, Busy
<1> QED
  BY <1>1, <1>3, <1>4, <1>5

\* The way back with an answer.
LEMMA OrderlyAfter ==
  ASSUME TypeInv, DataInv, OrderlyCore, NEW t \in Thread
  PROVE  Receive(t) \/ Release(t) => OrderlyCore'
<1> USE DEF maps, proxyVars, threadVars, serverVars
<1>q. /\ \A k \in NumberedKey : locks[k] # "absent"
      /\ conn[t] # "dead" /\ job[t] # "broken" /\ (pc[t] \in Busy => conn[t] = "open")
      /\ pc[t] # "wait" => job[t] = "none"
  BY DEF OrderlyCore, QuietInv, DataInv, JobInv, TypeInv, TypeOK
<1>1. ASSUME Receive(t) PROVE OrderlyCore'
  BY <1>1, <1>q, OrderlyLocal DEF Receive, TypeInv, TypeOK, Early, Busy
<1>2. ASSUME Release(t) PROVE OrderlyCore'
  <2>1. \A k \in NumberedKey : locks'[k] # "absent"
    BY <1>2, <1>q, LblProxyAssumption DEF Release, TypeInv, TypeOK
  <2> QED
    BY <1>2, <1>q, <2>1, OrderlyLocal DEF Release, Return, TypeInv, TypeOK, Early, Busy
<1> QED
  BY <1>1, <1>2

\* The new master key, before the server knows of it.
LEMMA OrderlyConstruct ==
  ASSUME Orderly, TypeInv, LockStage, DataInv, OrderlyCore, NEW t \in Thread, Construct(t)
  PROVE  OrderlyCore'
<1> USE DEF maps, proxyVars, threadVars, serverVars
<1>0. /\ pc[t] = "construct" /\ K(t) \in Key /\ conn[t] = "open" /\ job[t] = "none"
      /\ pc'[t] = IF IsGet(t) THEN "send" ELSE "record"
      /\ \A u \in Thread \ {t} : pc'[u] = pc[u] /\ entry'[u] = entry[u]
      /\ entry'[t].old = masterKeys[K(t)]
      /\ \A k \in Key : masterKeys'[k] = IF k = K(t) THEN nextKey ELSE masterKeys[k]
      /\ UNCHANGED <<keySet, locks, req, found, conn, db, job, creates, serverUp>>
  BY RequestTypes DEF Construct, OrderlyCore, QuietInv, DataInv, JobInv, TypeInv, TypeOK, Busy
<1>a. \A u \in Thread : K(u)' = K(u)
  BY <1>0 DEF K
<1>b. \A u \in Thread \ {t} : pc[u] \in Holding => K(u) # K(t)
  BY <1>0 DEF LockStage, LockExclusion, Holds, Holding
<1>1. QuietInv'
  BY <1>0 DEF OrderlyCore, QuietInv, Crashed, Busy
<1>2. LookupInv'
  <2>1. ~found[t] => K(t) \notin keySet /\ masterKeys[K(t)] = 0
    BY <1>0, <1>b DEF OrderlyCore, LookupInv, Holding
  <2>2. ASSUME Key = Preloaded
        PROVE  /\ keySet' = Key /\ creates' = {}
               /\ \A u \in Thread : pc'[u] \in {"lock", "construct", "record", "send"} => found'[u]
    BY <2>2, <1>0 DEF OrderlyCore, LookupInv
  <2>3. ASSUME NEW u \in Thread
        PROVE  /\ pc'[u] \in {"lock", "construct", "record"} /\ ~found'[u] => K(u)' \notin keySet'
               /\ pc'[u] \in {"record", "send"} /\ ~found'[u] => entry'[u].old = 0
               /\ job'[u] = "decrypted" => creates' = {}
    <3>1. CASE u = t
      BY <1>0, <1>a, <2>1, <3>1
    <3>2. CASE u # t
      BY <1>0, <1>a, <3>2 DEF OrderlyCore, LookupInv
    <3> QED
      BY <3>1, <3>2
  <2>4. ASSUME NEW k \in Key \ keySet'
        PROVE  masterKeys'[k] = 0 \/ \E u \in Thread : pc'[u] = "record" /\ K(u)' = k
    <3>1. CASE k = K(t)
      <4>1. ~IsGet(t)
        BY <1>0, <3>1 DEF TypeInv, RequestInv, DataInv, KeyInv, Busy
      <4> QED
        BY <1>0, <1>a, <3>1, <4>1
    <3>2. CASE k # K(t)
      <4>1. masterKeys[k] = 0 \/ \E u \in Thread : pc[u] = "record" /\ K(u) = k
        BY <1>0 DEF OrderlyCore, LookupInv
      <4> QED
        BY <1>0, <1>a, <3>2, <4>1
    <3> QED
      BY <3>1, <3>2
  <2>5. \A c \in creates' : c.mk # 0
    BY <1>0 DEF OrderlyCore, LookupInv
  <2> QED
    BY <2>2, <2>3, <2>4, <2>5 DEF LookupInv
<1>3. ASSUME NEW k \in Key PROVE KeyAt(k)'
  <2>1. CreatesOf(k)' = CreatesOf(k) /\ db'[k] = db[k] /\ KeyAt(k)
    BY <1>0 DEF CreatesOf, OrderlyCore
  <2>2. \A u \in Thread \ {t} : Early(u)' <=> Early(u)
    BY <1>0 DEF Early
  <2>3. CASE k # K(t)
    BY <1>0, <1>a, <2>1, <2>2, <2>3, KeyAtFrame DEF Early
  <2>4. CASE k = K(t)
    <3>1. \A u \in Thread : ~(Early(u) /\ K(u) = k)
      BY <1>0, <1>b, <2>4 DEF Early, Holding
    <3>2. AtKey(k, masterKeys[k])
      BY <2>1, <3>1 DEF KeyAt
    <3>3. AtKey(k, entry[t].old)'
      BY <1>0, <2>1, <2>4, <3>2 DEF AtKey
    <3>4. \A u \in Thread \ {t} : ~(Early(u) /\ K(u) = k)'
      BY <1>a, <2>2, <3>1
    <3>5. Early(t)' /\ K(t)' = k
      BY <1>0, <1>a, <2>4 DEF Early
    <3> QED
      BY <3>3, <3>4, <3>5 DEF KeyAt
  <2> QED
    BY <2>3, <2>4
<1> QED
  BY <1>1, <1>2, <1>3 DEF OrderlyCore

\* A PUT's key is known from here on.
LEMMA OrderlyRecord ==
  ASSUME Orderly, TypeInv, LockStage, DataInv, OrderlyCore, NEW t \in Thread, Record(t)
  PROVE  OrderlyCore'
<1> USE DEF maps, proxyVars, threadVars, serverVars
<1>0. /\ pc[t] = "record" /\ K(t) \in Key /\ conn[t] = "open" /\ job[t] = "none"
      /\ pc'[t] = "send"
      /\ \A u \in Thread \ {t} : pc'[u] = pc[u]
      /\ keySet' = keySet \union {K(t)}
      /\ UNCHANGED <<masterKeys, entry, locks, req, found, conn, db, job, creates, serverUp>>
  BY RequestTypes DEF Record, OrderlyCore, QuietInv, DataInv, JobInv, KeyInv, TypeInv, TypeOK, Busy
<1>a. \A u \in Thread : K(u)' = K(u)
  BY <1>0 DEF K
<1>1. QuietInv'
  BY <1>0 DEF OrderlyCore, QuietInv, Crashed, Busy
<1>2. LookupInv'
  <2>2. ASSUME Key = Preloaded
        PROVE  /\ keySet' = Key /\ creates' = {}
               /\ \A u \in Thread : pc'[u] \in {"lock", "construct", "record", "send"} => found'[u]
    BY <2>2, <1>0 DEF OrderlyCore, LookupInv
  <2>3. ASSUME NEW u \in Thread
        PROVE  /\ pc'[u] \in {"lock", "construct", "record"} /\ ~found'[u] => K(u)' \notin keySet'
               /\ pc'[u] \in {"record", "send"} /\ ~found'[u] => entry'[u].old = 0
               /\ job'[u] = "decrypted" => creates' = {}
    <3>1. CASE u = t
      BY <1>0, <1>a, <3>1 DEF OrderlyCore, LookupInv
    <3>2. CASE u # t
      <4>1. Key = Preloaded
        BY <3>2 DEF Orderly
      <4> QED
        BY <1>0, <2>2, <3>2, <4>1 DEF OrderlyCore, LookupInv
    <3> QED
      BY <3>1, <3>2
  <2>4. ASSUME NEW k \in Key \ keySet'
        PROVE  masterKeys'[k] = 0 \/ \E u \in Thread : pc'[u] = "record" /\ K(u)' = k
    <3>1. k # K(t) /\ (masterKeys[k] = 0 \/ \E u \in Thread : pc[u] = "record" /\ K(u) = k)
      BY <1>0 DEF OrderlyCore, LookupInv
    <3> QED
      BY <1>0, <1>a, <3>1
  <2>5. \A c \in creates' : c.mk # 0
    BY <1>0 DEF OrderlyCore, LookupInv
  <2> QED
    BY <2>2, <2>3, <2>4, <2>5 DEF LookupInv
<1>3. ASSUME NEW k \in Key PROVE KeyAt(k)'
  <2>1. CreatesOf(k)' = CreatesOf(k) /\ KeyAt(k)
    BY <1>0 DEF CreatesOf, OrderlyCore
  <2>2. \A u \in Thread : Early(u)' <=> Early(u)
    BY <1>0 DEF Early
  <2> QED
    BY <1>0, <1>a, <2>1, <2>2, KeyAtFrame
<1> QED
  BY <1>1, <1>2, <1>3 DEF OrderlyCore

\* The one-way create of a key the server has no block of.
LEMMA OrderlyCreate ==
  ASSUME Orderly, TypeInv, LockStage, DataInv, OrderlyCore, NEW t \in Thread, SendCreate(t)
  PROVE  OrderlyCore'
<1> USE DEF maps, proxyVars, threadVars, serverVars
<1> DEFINE c == [from |-> t, key |-> K(t), mk |-> entry[t].new, val |-> req[t].val]
<1>0. /\ pc[t] = "send" /\ ~found[t] /\ K(t) \in Key /\ conn[t] = "open" /\ job[t] = "none"
      /\ pc'[t] = "release"
      /\ \A u \in Thread \ {t} : pc'[u] = pc[u]
      /\ creates' = creates \union {c}
      /\ UNCHANGED <<keySet, masterKeys, entry, locks, req, found, conn, db, job, serverUp>>
  BY RequestTypes DEF SendCreate, OrderlyCore, QuietInv, DataInv, JobInv, TypeInv, TypeOK, Busy
<1>a. \A u \in Thread : K(u)' = K(u)
  BY <1>0 DEF K
<1>b. Key # Preloaded /\ \A u \in Thread : u = t
  BY <1>0 DEF Orderly, OrderlyCore, LookupInv
<1>c. /\ c.key = K(t) /\ c.mk = masterKeys[K(t)] /\ c.mk # 0
      /\ entry[t].old = 0
  <2>1. entry[t].new = masterKeys[K(t)] /\ entry[t].old < entry[t].new /\ entry[t].old = 0
    BY <1>0 DEF DataInv, RekeyInv, Rekeyed, OrderlyCore, LookupInv
  <2> QED
    BY <2>1
<1> HIDE DEF c
<1>1. QuietInv'
  BY <1>0 DEF OrderlyCore, QuietInv, Crashed, Busy
<1>2. LookupInv'
  <2>3. ASSUME NEW u \in Thread
        PROVE  /\ pc'[u] \in {"lock", "construct", "record"} /\ ~found'[u] => K(u)' \notin keySet'
               /\ pc'[u] \in {"record", "send"} /\ ~found'[u] => entry'[u].old = 0
               /\ job'[u] = "decrypted" => creates' = {}
    BY <1>0, <1>b
  <2>4. ASSUME NEW k \in Key \ keySet'
        PROVE  masterKeys'[k] = 0 \/ \E u \in Thread : pc'[u] = "record" /\ K(u)' = k
    BY <1>0, <1>a, <1>b DEF OrderlyCore, LookupInv
  <2>5. \A d \in creates' : d.mk # 0
    BY <1>0, <1>c DEF OrderlyCore, LookupInv
  <2> QED
    BY <1>b, <2>3, <2>4, <2>5 DEF LookupInv
<1>3. ASSUME NEW k \in Key PROVE KeyAt(k)'
  <2>1. KeyAt(k)
    BY DEF OrderlyCore
  <2>2. ~Early(t)' /\ Early(t)
    BY <1>0 DEF Early
  <2>3. CASE k # K(t)
    <3>1. CreatesOf(k)' = CreatesOf(k)
      BY <1>0, <1>c, <2>3 DEF CreatesOf
    <3> QED
      BY <1>0, <1>a, <1>b, <2>1, <2>3, <3>1, KeyAtFrame
  <2>4. CASE k = K(t)
    <3>1. AtKey(k, 0)
      BY <1>c, <2>1, <2>2, <2>4 DEF KeyAt
    <3>2. CreatesOf(k) = {} /\ db[k].mk = 0
      BY <3>1 DEF AtKey, CreatesOf, OrderlyCore, LookupInv
    <3>3. CreatesOf(k)' = {c}
      BY <1>0, <1>c, <2>4, <3>2 DEF CreatesOf
    <3>4. AtKey(k, masterKeys[k])'
      BY <1>0, <1>c, <2>4, <3>2, <3>3 DEF AtKey
    <3> QED
      BY <1>b, <2>2, <3>4 DEF KeyAt
  <2> QED
    BY <2>3, <2>4
<1> QED
  BY <1>1, <1>2, <1>3 DEF OrderlyCore

\* An access on its way to the server, and what the server computes for it.
LEMMA OrderlyAccess ==
  ASSUME Orderly, TypeInv, DataInv, OrderlyCore, NEW t \in Thread,
         SendAccess(t) \/ AccessDecrypt(t)
  PROVE  OrderlyCore'
<1> USE DEF maps, proxyVars, threadVars, serverVars
<1>0. /\ pc[t] \in {"send", "wait"} /\ pc'[t] = "wait" /\ conn[t] = "open"
      /\ pc[t] = "wait" => job[t] = "sent"
      /\ job'[t] \in {"sent", "decrypted"}
      /\ \A u \in Thread \ {t} : pc'[u] = pc[u] /\ job'[u] = job[u]
      /\ job'[t] = "decrypted" => AtServer(t)
      /\ UNCHANGED <<keySet, masterKeys, entry, locks, req, found, conn, db, creates, serverUp>>
  <2>1. CASE SendAccess(t)
    BY <2>1 DEF SendAccess, TypeInv, TypeOK
  <2>2. CASE AccessDecrypt(t)
    <3>1. job[t] = "sent" /\ AtServer(t) /\ pc[t] = "wait" /\ conn[t] = "open"
      BY <2>2 DEF AccessDecrypt, AtServer, DataInv, JobInv, OrderlyCore, QuietInv, Busy
    <3> QED
      BY <2>2, <3>1 DEF AccessDecrypt, TypeInv, TypeOK
  <2> QED
    BY <2>1, <2>2
<1>a. \A u \in Thread : K(u)' = K(u)
  BY <1>0 DEF K
<1>b. job'[t] = "decrypted" => creates = {}
  <2>1. \A c \in creates : c.from \in Thread
    BY DEF TypeInv, TypeOK
  <2> QED
    BY <1>0, <2>1 DEF AtServer, Orderly, OrderlyCore, LookupInv
<1>1. QuietInv'
  BY <1>0 DEF OrderlyCore, QuietInv, Crashed, Busy
<1>2. LookupInv'
  <2>1. \A k \in Key : \A u \in Thread : pc[u] = "record" /\ K(u) = k => pc'[u] = "record" /\ K(u)' = k
    BY <1>0, <1>a
  <2>2. ASSUME NEW u \in Thread
        PROVE  /\ pc'[u] \in {"lock", "construct", "record"} /\ ~found'[u] => K(u)' \notin keySet'
               /\ pc'[u] \in {"record", "send"} /\ ~found'[u] => entry'[u].old = 0
               /\ job'[u] = "decrypted" => creates' = {}
    <3>1. CASE u = t
      BY <1>0, <1>b, <3>1
    <3>2. CASE u # t
      BY <1>0, <1>a, <3>2 DEF OrderlyCore, LookupInv
    <3> QED
      BY <3>1, <3>2
  <2>3. /\ Key = Preloaded =>
             /\ keySet' = Key /\ creates' = {}
             /\ \A u \in Thread : pc'[u] \in {"lock", "construct", "record", "send"} => found'[u]
        /\ \A c \in creates' : c.mk # 0
    BY <1>0 DEF OrderlyCore, LookupInv
  <2>4. ASSUME NEW k \in Key \ keySet'
        PROVE  masterKeys'[k] = 0 \/ \E u \in Thread : pc'[u] = "record" /\ K(u)' = k
    <3>1. masterKeys[k] = 0 \/ \E u \in Thread : pc[u] = "record" /\ K(u) = k
      BY <1>0 DEF OrderlyCore, LookupInv
    <3> QED
      BY <1>0, <2>1, <3>1
  <2> QED
    BY <2>2, <2>3, <2>4 DEF LookupInv
<1>3. ASSUME NEW k \in Key PROVE KeyAt(k)'
  <2>1. CreatesOf(k)' = CreatesOf(k) /\ KeyAt(k)
    BY <1>0 DEF CreatesOf, OrderlyCore
  <2>2. \A u \in Thread : Early(u)' <=> Early(u)
    BY <1>0 DEF Early
  <2> QED
    BY <1>0, <1>a, <2>1, <2>2, KeyAtFrame
<1> QED
  BY <1>1, <1>2, <1>3 DEF OrderlyCore

\* The server's new block is under the master key of the maps.
LEMMA OrderlyStore ==
  ASSUME Orderly, TypeInv, LockStage, DataInv, OrderlyCore, NEW t \in Thread, AccessStore(t)
  PROVE  OrderlyCore'
<1> USE DEF maps, proxyVars, threadVars, serverVars
<1>0. /\ pc[t] = "wait" /\ K(t) \in Key /\ job[t] = "decrypted" /\ job'[t] = "stored"
      /\ creates = {} /\ snap[t].mk = masterKeys[K(t)]
      /\ \A u \in Thread \ {t} : job'[u] = job[u]
      /\ \A k \in Key : db'[k] = IF k = K(t) THEN snap[t] ELSE db[k]
      /\ UNCHANGED <<keySet, masterKeys, pc, entry, locks, req, found, conn, creates, serverUp>>
  <2>1. /\ job[t] = "decrypted" /\ pc[t] = "wait" /\ K(t) \in Key /\ creates = {}
        /\ snap[t].mk = masterKeys[K(t)]
    <3>1. job[t] = "decrypted" /\ pc[t] = "wait" /\ creates = {}
      BY DEF AccessStore, DataInv, JobInv, OrderlyCore, LookupInv
    <3>2. snap[t].mk = entry[t].new
      <4>1. snap[t] = [mk |-> entry[t].new, val |-> Carry(written[K(t)])]
        BY <3>1 DEF DataInv, JobInv
      <4> QED
        BY <4>1
    <3>3. entry[t].new = masterKeys[K(t)]
      BY <3>1 DEF DataInv, RekeyInv, Rekeyed
    <3> QED
      BY <3>1, <3>2, <3>3, RequestTypes DEF Busy
  <2> QED
    BY <2>1 DEF AccessStore, TypeInv, TypeOK
<1>a. \A u \in Thread : K(u)' = K(u)
  BY <1>0 DEF K
<1>b. \A u \in Thread \ {t} : pc[u] \in Holding => K(u) # K(t)
  BY <1>0 DEF LockStage, LockExclusion, Holds, Holding
<1>1. QuietInv'
  <2>1. \A u \in Thread : job'[u] # "broken"
    BY <1>0 DEF OrderlyCore, QuietInv
  <2> QED
    BY <1>0, <2>1 DEF OrderlyCore, QuietInv, Crashed
<1>2. LookupInv'
  BY <1>0, <1>a DEF OrderlyCore, LookupInv
<1>3. ASSUME NEW k \in Key PROVE KeyAt(k)'
  <2>1. CreatesOf(k)' = {} /\ CreatesOf(k) = {} /\ KeyAt(k)
    BY <1>0 DEF CreatesOf, OrderlyCore
  <2>2. /\ \A u \in Thread \ {t} : Early(u)' <=> Early(u)
        /\ ~Early(t)'
    BY <1>0 DEF Early
  <2>3. CASE k # K(t)
    BY <1>0, <1>a, <2>1, <2>2, <2>3, KeyAtFrame
  <2>4. CASE k = K(t)
    <3>1. \A u \in Thread : ~(Early(u) /\ K(u) = k)'
      BY <1>a, <1>b, <2>2, <2>4 DEF Early, Holding
    <3>2. AtKey(k, masterKeys[k])'
      BY <1>0, <2>1, <2>4 DEF AtKey
    <3> QED
      BY <3>1, <3>2 DEF KeyAt
  <2> QED
    BY <2>3, <2>4
<1> QED
  BY <1>1, <1>2, <1>3 DEF OrderlyCore

\* A create reaches the server.
LEMMA OrderlyServe ==
  ASSUME TypeInv, OrderlyCore, NEW c \in creates, ServeCreate(c)
  PROVE  OrderlyCore'
<1> USE DEF maps, proxyVars, threadVars, serverVars
<1>0. /\ creates' = creates \ {c}
      /\ UNCHANGED <<keySet, masterKeys, pc, entry, locks, req, found, conn, job, serverUp>>
  BY DEF ServeCreate
<1>a. \A u \in Thread : K(u)' = K(u)
  BY <1>0 DEF K
<1>1. QuietInv'
  BY <1>0 DEF OrderlyCore, QuietInv, Crashed
<1>2. LookupInv'
  BY <1>0, <1>a DEF OrderlyCore, LookupInv
<1>3. ASSUME NEW k \in Key PROVE KeyAt(k)'
  <2>1. KeyAt(k) /\ \A u \in Thread : Early(u)' <=> Early(u)
    BY <1>0 DEF OrderlyCore, Early
  <2>2. ASSUME NEW t \in Thread, (Early(t) /\ K(t) = k)' PROVE AtKey(k, entry[t].old)'
    <3>1. AtKey(k, entry[t].old)
      BY <1>a, <2>1, <2>2 DEF KeyAt
    <3>2. \A g : AtKey(k, g) => AtKey(k, g)'
      BY ServeAtKey
    <3> QED
      BY <1>0, <3>1, <3>2 DEF AtKey
  <2>3. ASSUME \A t \in Thread : ~(Early(t) /\ K(t) = k)' PROVE AtKey(k, masterKeys[k])'
    <3>1. AtKey(k, masterKeys[k])
      BY <1>a, <2>1, <2>3 DEF KeyAt
    <3>2. \A g : AtKey(k, g) => AtKey(k, g)'
      BY ServeAtKey
    <3> QED
      BY <1>0, <3>1, <3>2 DEF AtKey
  <2> QED
    BY <2>2, <2>3 DEF KeyAt
<1> QED
  BY <1>1, <1>2, <1>3 DEF OrderlyCore

\* No access finds a block of another master key.
LEMMA NoRip ==
  ASSUME Orderly, TypeInv, DataInv, OrderlyCore, NEW t \in Thread
  PROVE  ~AccessRip(t)
<1> SUFFICES ASSUME AtServer(t), ~Decryptable(t, db[K(t)]) PROVE FALSE
  BY DEF AccessRip
<1>1. pc[t] = "wait" /\ Early(t) /\ K(t) \in Key
  BY RequestTypes DEF AtServer, DataInv, JobInv, Early, Busy
<1>2. creates = {}
  <2>1. \A c \in creates : c.from \in Thread
    BY DEF TypeInv, TypeOK
  <2> QED
    BY <2>1 DEF AtServer, Orderly, OrderlyCore, LookupInv
<1>3. AtKey(K(t), entry[t].old) /\ CreatesOf(K(t)) = {}
  BY <1>1, <1>2 DEF OrderlyCore, KeyAt, CreatesOf
<1> QED
  BY <1>3 DEF AtKey, Decryptable

\* Every step of threads, server and operator keeps the server up.
LEMMA OrderlyStep ==
  ASSUME Orderly, TypeInv, LockStage, DataStage, OrderlyInv, [Next]_vars
  PROVE  OrderlyInv'
<1> SUFFICES ASSUME quits' = 0 PROVE OrderlyCore'
  BY DEF OrderlyInv
<1> USE DEF maps, proxyVars, threadVars, serverVars
<1>q. ~ServerQuit
  BY DEF ServerQuit, TypeInv, TypeOK
<1>1. CASE UNCHANGED vars
  <2>1. OrderlyCore
    BY <1>1 DEF OrderlyInv, vars
  <2>2. QuietInv' /\ LookupInv'
    BY <1>1, <2>1 DEF vars, OrderlyCore, QuietInv, LookupInv, Crashed, K
  <2>3. ASSUME NEW k \in Key PROVE KeyAt(k)'
    <3>1. CreatesOf(k)' = CreatesOf(k) /\ \A t \in Thread : (Early(t)' <=> Early(t)) /\ K(t)' = K(t)
      BY <1>1 DEF vars, CreatesOf, Early, K
    <3> QED
      BY <1>1, <2>1, <3>1, KeyAtFrame DEF vars, OrderlyCore
  <2> QED
    BY <2>2, <2>3 DEF OrderlyCore
<1>2. CASE Next /\ quits = 0
  <2>1. OrderlyCore /\ DataInv /\ serverUp
    BY <1>2 DEF OrderlyInv, OrderlyCore, QuietInv, DataStage
  <2>2. ASSUME NEW t \in Thread, Request(t) \/ RequestRefused(t) \/ ThreadStep(t) \/ ServeAccess(t)
        PROVE  OrderlyCore'
    <3>1. ~RequestRefused(t) /\ ~SendThrows(t) /\ ~ReceiveThrows(t) /\ ~AccessRip(t)
      BY <2>1, NoRip DEF RequestRefused, SendThrows, ReceiveThrows, OrderlyCore, QuietInv
    <3> QED
      BY <2>1, <2>2, <3>1, OrderlyBefore, OrderlyAfter, OrderlyConstruct, OrderlyRecord,
         OrderlyCreate, OrderlyAccess, OrderlyStore
      DEF ThreadStep, ServeAccess
  <2>3. ~RaceCrash /\ ~ServerRestart
    BY <2>1, NoRace DEF ServerRestart
  <2>4. ASSUME NEW c \in creates, ServeCreate(c) PROVE OrderlyCore'
    BY <2>1, <2>4, OrderlyServe
  <2>5. Done => UNCHANGED vars
    BY DEF Done
  <2> HIDE DEF vars
  <2> QED
    BY <1>q, <1>1, <1>2, <2>2, <2>3, <2>4, <2>5 DEF Next
<1>3. Next => quits = 0
  <2>1. ASSUME Next, quits' # quits PROVE ServerQuit
    <3> DEFINE Same == quits' = quits
    <3>1. ASSUME NEW t \in Thread, Request(t) \/ RequestRefused(t) PROVE Same
      BY <3>1 DEF Request, RequestRefused
    <3>2. ASSUME NEW t \in Thread, Check(t) \/ TryLock(t) PROVE Same
      BY <3>2 DEF Check, TryLock, Proceed, Acquire, Abort
    <3>3. ASSUME NEW t \in Thread, ThreadStep(t), ~Check(t), ~TryLock(t) PROVE Same
      BY <3>3
      DEF ThreadStep, Construct, ConstructThrows, Record, SendCreate, SendAccess, SendThrows,
          Receive, ReceiveThrows, Release
    <3>4. ASSUME NEW t \in Thread, ServeAccess(t) PROVE Same
      BY <3>4 DEF ServeAccess, AccessDecrypt, AccessRip, AccessStore
    <3>5. ASSUME NEW c \in creates, ServeCreate(c) PROVE Same
      BY <3>5 DEF ServeCreate
    <3>6. RaceCrash \/ ServerRestart => Same
      BY DEF RaceCrash, ServerRestart
    <3>7. Done => Same
      BY DEF Done, vars
    <3> QED
      BY <2>1, <3>1, <3>2, <3>3, <3>4, <3>5, <3>6, <3>7 DEF Next
  <2> QED
    BY <1>q, <2>1
<1> QED
  BY <1>1, <1>2, <1>3

\* Initially every block has the master key of the maps and nothing is under way.
LEMMA OrderlyInit == Init => OrderlyInv
<1> SUFFICES ASSUME Init PROVE OrderlyCore
  BY DEF OrderlyInv
<1>1. QuietInv /\ LookupInv
  BY LblProxyAssumption DEF Init, QuietInv, LookupInv, Crashed, Busy
<1>2. ASSUME NEW k \in Key PROVE KeyAt(k)
  <2>1. CreatesOf(k) = {} /\ db[k].mk = masterKeys[k] /\ \A t \in Thread : ~Early(t)
    BY DEF Init, CreatesOf, Early, NoBlock
  <2> QED
    BY <2>1 DEF KeyAt, AtKey
<1> QED
  BY <1>1, <1>2 DEF OrderlyCore

\* The server, which ServerSurvives says stays up until it is quit, does so for any number of
\* threads and requests when every key was loaded, and for one thread that has one connection
\* for all its requests: to end it takes a create, and two connections.
THEOREM OrderlyServerSurvives ==
  ASSUME Orderly
  PROVE  Spec => []ServerSurvives
<1>1. TypeInv /\ LockStage /\ DataStage /\ OrderlyInv /\ [Next]_vars => OrderlyInv'
  BY OrderlyStep
<1>2. TypeInv /\ OrderlyInv => ServerSurvives
  BY DEF TypeInv, TypeOK, OrderlyInv, OrderlyCore, QuietInv, ServerSurvives
<1> QED
  BY <1>1, <1>2, OrderlyInit, TypeInit, TypeStep, LockInit, LockStep, DataInit, DataStep, PTL
  DEF Spec
=============================================================================
