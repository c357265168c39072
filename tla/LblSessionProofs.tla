--------------------------- MODULE LblSessionProofs ---------------------------
(***************************************************************************)
(* Proofs about LblSession, for any number of keys, values, sessions,      *)
(* commands, quits and restarts, and any division of a block among the     *)
(* server's tasks: a key that was put stays known over sessions and its    *)
(* block is under the saved master key, a GET prints what the server       *)
(* carries of the value last put, and the server exits by itself only for  *)
(* the reasons RipExplained names.                                         *)
(*                                                                         *)
(* The inductive invariant follows each key that is not exposed.  Between  *)
(* sessions the file, and within one the maps in memory, know it and agree *)
(* with the server (Good); while an operation on it is under way the       *)
(* server holds what the entry was made from (Settled at entry.old) or     *)
(* already what the answer shows.  The file changes with the maps or the   *)
(* master keys differ (LinkInv), which is why a session that saves nothing *)
(* exposes exactly the keys it re-encrypted.                               *)
(***************************************************************************)
EXTENDS LblSession, TLAPS

(***************************************************************************)
(* The inductive invariant                                                 *)
(***************************************************************************)
Maps == [keys : SUBSET Key, size : [Key -> Nat], mk : [Key -> Nat]]

Blocks == [mk : Nat, val : Value \union {NoValue, Garbled}]

Messages ==
  [session : Nat, kind : {"create", "access"}, key : Key, old : Nat, new : Nat,
   get : BOOLEAN, val : Value \union {NoValue}]

\* Between the replacement of the master key and the end of the operation.
InFlight == pc \in {"record", "send", "wait"}

\* A program that has loaded the maps, or is to work without a block of the server.
Loaded == pc \notin {"off", "setup"} /\ program # "estimate"

TypeInv ==
  /\ file \in Maps /\ mem \in Maps
  /\ program \in {"client", "benchmark", "estimate"} /\ ended \in BOOLEAN
  /\ pc \in {"off", "setup", "open", "prompt", "construct", "record", "send", "wait"}
  /\ req \in Requests \union {NoRequest}
  /\ entry \in [create : BOOLEAN, old : Nat, new : Nat]
  /\ conn \in {"closed", "open", "dead"}
  /\ answer \in [status : {"none", "ready", "broken"}, block : Blocks]
  /\ session \in Nat /\ commands \in Nat
  /\ db \in [Key -> Blocks] /\ rpcs \subseteq Messages
  /\ serverUp \in BOOLEAN /\ quits \in Nat /\ restarts \in Nat
  /\ nextKey \in Nat \ {0}
  /\ written \in [Key -> Value \union {NoValue}]
  /\ exposed \subseteq Key

\* Where a program is and what it works on.
ProgramInv ==
  /\ program = "estimate" => pc = "construct"
  /\ (pc = "construct" /\ program # "estimate") \/ InFlight => req \in Requests
  /\ pc = "construct" /\ program = "client" /\ req.op = "GET" => K \in mem.keys
  /\ pc = "construct" /\ program = "benchmark" /\ req.op = "PUT" => K \in Put \union exposed
  /\ pc = "record" => req.op = "PUT"
  /\ InFlight /\ req.op = "PUT" => written[K] = req.val
  /\ InFlight /\ entry.create => pc # "wait" /\ req.op = "PUT" /\ program = "client"
  /\ pc # "wait" => answer.status = "none"

\* The accesses the server has: that of the waiting client, and those of others on
\* keys that are exposed.
AccessInv ==
  \A m \in rpcs : m.kind = "access" =>
    /\ m.session <= session
    /\ m.session = session /\ pc # "off" =>
         pc = "wait" /\ m = Message("access") /\ answer.status = "none"
    /\ m.key \in exposed \/ (pc = "wait" /\ m = Message("access"))

\* Master keys in the maps are older than the next one, and the entry under way is newer
\* than what was saved.
FreshInv ==
  /\ \A k \in Key : file.mk[k] < nextKey /\ mem.mk[k] < nextKey
  /\ InFlight => /\ entry.new = mem.mk[K] /\ entry.old < entry.new
                 /\ file.mk[K] < entry.new

\* Only keys that were put are known, and only they have blocks.
PutInv ==
  /\ mem.keys \subseteq Put /\ file.keys \subseteq Put
  /\ \A k \in Key \ Put : db[k].mk = 0
  /\ \A m \in rpcs : m.kind = "create" => m.key \in Put

\* The maps in memory differ from the file only where the master keys do.
LinkInv ==
  Loaded => \A k \in Key : mem.mk[k] = file.mk[k] =>
              mem.size[k] = file.size[k] /\ (k \in mem.keys <=> k \in file.keys)

CreatesOf(k) == {m \in rpcs : m.kind = "create" /\ m.key = k}

\* The server holds value v of key k, or what it carries of it, under master key g, or is
\* about to.
Settled(k, g, v) ==
  \/ Holds(db[k], g, v) /\ CreatesOf(k) = {}
  \/ /\ db[k].mk = 0
     /\ \E c \in rpcs : CreatesOf(k) = {c} /\ c.new = g /\ c.val = v

Good(maps, k) ==
  /\ k \in maps.keys /\ maps.mk[k] # 0 /\ maps.size[k] = Size[written[k]]
  /\ Settled(k, maps.mk[k], written[k])

FileInv == ~Loaded => \A k \in Put \ exposed : Good(file, k)

MemInv == Loaded => \A k \in Put \ exposed : (InFlight /\ K = k) \/ Good(mem, k)

\* The operation under way, on a key that is not exposed.
FlightInv ==
  InFlight /\ K \in Put \ exposed =>
    /\ (pc = "record" /\ entry.create) \/ K \in mem.keys
    /\ pc = "record" \/ mem.size[K] = Size[written[K]]
    /\ entry.create => db[K].mk = 0 /\ CreatesOf(K) = {}
    /\ ~entry.create /\ answer.status = "none" =>
         /\ entry.old # 0
         /\ \E v \in Value : /\ Settled(K, entry.old, v)
                             /\ req.op = "GET" => v = written[K]

\* An answer shows the value last put, and the server holds it.
AnswerInv ==
  pc = "wait" /\ answer.status = "ready" /\ K \notin exposed =>
    /\ K \in Put
    /\ answer.block = [mk |-> entry.new, val |-> Carry(written[K])]
    /\ Settled(K, entry.new, written[K])

IndInv ==
  /\ TypeInv /\ ProgramInv /\ AccessInv /\ FreshInv /\ PutInv /\ LinkInv
  /\ FileInv /\ MemInv /\ FlightInv /\ AnswerInv

(***************************************************************************)
(* Helpers                                                                 *)
(***************************************************************************)
LEMMA EmptyMapsType == EmptyMaps \in Maps
BY DEF EmptyMaps, Maps

\* What is carried is a value or garbled, and is carried as it is from then on.
LEMMA CarryType == \A v : Carry(v) \in Value \union {Garbled} /\ Carry(Carry(v)) = Carry(v)
BY LblSessionAssumption DEF Carry

LEMMA NoAnswerType == NoAnswer \in [status : {"none", "ready", "broken"}, block : Blocks]
BY DEF NoAnswer, Blocks

\* The initial state: nothing was ever put.
LEMMA InitInv == Init => IndInv
<1> SUFFICES ASSUME Init PROVE IndInv
  OBVIOUS
<1> USE DEF Init
<1>1. TypeInv
  <2>1. db \in [Key -> Blocks] /\ written \in [Key -> Value \union {NoValue}]
    BY DEF Blocks
  <2>2. entry \in [create : BOOLEAN, old : Nat, new : Nat]
    BY DEF NoEntry
  <2>3. nextKey \in Nat \ {0} /\ rpcs \subseteq Messages /\ exposed \subseteq Key
    OBVIOUS
  <2> QED
    BY <2>1, <2>2, <2>3, EmptyMapsType, NoAnswerType DEF TypeInv
<1>2. Put = {}
  BY DEF Put
<1>3. ProgramInv /\ AccessInv /\ LinkInv
  BY DEF ProgramInv, AccessInv, LinkInv, InFlight, Loaded, NoAnswer
<1>4. FreshInv /\ PutInv
  BY <1>2 DEF FreshInv, PutInv, InFlight, EmptyMaps
<1>5. FileInv /\ MemInv /\ FlightInv /\ AnswerInv
  BY <1>2 DEF FileInv, MemInv, FlightInv, AnswerInv, InFlight, NoAnswer
<1> QED
  BY <1>1, <1>3, <1>4, <1>5 DEF IndInv

(***************************************************************************)
(* Sessions                                                                *)
(***************************************************************************)
\* The end of a session keeps the invariant if what is in the file then is good for
\* every key that is not exposed.
LEMMA EndInv ==
  ASSUME IndInv, End, file' \in Maps, exposed' \subseteq Key, exposed \subseteq exposed',
         file'.keys \subseteq Put, \A k \in Key : file'.mk[k] < nextKey,
         InFlight => K \in exposed',
         \A k \in Put \ exposed' : Good(file', k)
  PROVE  IndInv'
<1> USE DEF IndInv
<1>0. /\ pc' = "off" /\ program' = "client" /\ mem' = EmptyMaps /\ req' = NoRequest
      /\ answer' = NoAnswer /\ UNCHANGED <<session, commands, db, rpcs, serverUp, quits,
                                           restarts, nextKey, written>>
  BY DEF End, serverVars
<1>1. TypeInv'
  BY <1>0, EmptyMapsType, NoAnswerType DEF End, TypeInv, NoEntry
<1>2. ~InFlight' /\ ~Loaded'
  BY <1>0 DEF InFlight, Loaded
<1>3. Put' = Put
  BY <1>0 DEF Put
<1>4. ProgramInv'
  BY <1>0, <1>2 DEF ProgramInv, NoAnswer
<1>5. AccessInv'
  <2>1. ASSUME pc = "wait" PROVE InFlight
    BY <2>1 DEF InFlight
  <2>2. Message("access").key = K
    BY DEF Message
  <2> QED
    BY <1>0, <2>1, <2>2 DEF AccessInv
<1>6. FreshInv'
  BY <1>0, <1>2 DEF FreshInv, EmptyMaps, TypeInv
<1>7. PutInv'
  BY <1>0, <1>3 DEF PutInv, EmptyMaps
<1>8. LinkInv' /\ MemInv' /\ FlightInv' /\ AnswerInv'
  BY <1>0, <1>2 DEF LinkInv, MemInv, FlightInv, AnswerInv
<1>9. FileInv'
  <2> SUFFICES ASSUME NEW k \in Put \ exposed' PROVE Good(file, k)'
    BY <1>3 DEF FileInv
  <2>1. CreatesOf(k)' = CreatesOf(k)
    BY <1>0 DEF CreatesOf
  <2>2. Good(file', k)
    OBVIOUS
  <2> QED
    BY <1>0, <2>1, <2>2 DEF Good, Settled
<1> QED
  BY <1>1, <1>4, <1>5, <1>6, <1>7, <1>8, <1>9

\* Outside an operation the memory of a loaded program is good to be saved.
LEMMA MemGood ==
  ASSUME IndInv, Loaded, NEW k \in Put \ exposed, ~(InFlight /\ K = k)
  PROVE  Good(mem, k)
BY DEF IndInv, MemInv

LEMMA ExitInv == IndInv /\ Exit => IndInv'
<1> SUFFICES ASSUME IndInv, Exit PROVE IndInv'
  OBVIOUS
<1>1. /\ End /\ file' = mem /\ exposed' = exposed /\ Loaded /\ ~InFlight
      /\ mem \in Maps /\ exposed \subseteq Key /\ mem.keys \subseteq Put
      /\ \A k \in Key : mem.mk[k] < nextKey
  BY DEF Exit, Save, Loaded, InFlight, IndInv, TypeInv, PutInv, FreshInv
<1>2. \A k \in Put \ exposed : Good(file', k)
  BY <1>1, MemGood
<1> QED
  BY <1>1, <1>2, EndInv

\* Ctrl+C exposes the key of the operation it cuts short, or every key.
LEMMA InterruptInv == IndInv /\ Interrupt => IndInv'
<1> SUFFICES ASSUME IndInv, Interrupt PROVE IndInv'
  OBVIOUS
<1> USE DEF IndInv
<1>1. End /\ file' \in InMemory /\ exposed' = exposed \union CutShort /\ pc # "off"
  BY DEF Interrupt
<1>2. mem \in Maps /\ file \in Maps /\ exposed \subseteq Key /\ K \in Key
  BY LblSessionAssumption DEF TypeInv, K, Requests, NoRequest
<1>3. CutShort \subseteq Key /\ (InFlight => K \in CutShort)
  BY <1>2 DEF CutShort, InFlight
<1>4. CASE Loaded
  <2>1. file' = mem
    BY <1>1, <1>4 DEF InMemory, Loaded
  <2>2. mem.keys \subseteq Put /\ \A k \in Key : mem.mk[k] < nextKey
    BY DEF PutInv, FreshInv
  <2>3. \A k \in Put \ exposed' : Good(file', k)
    BY <1>1, <1>3, <1>4, <2>1, MemGood
  <2> QED
    BY <1>1, <1>2, <1>3, <2>1, <2>2, <2>3, EndInv
<1>5. CASE ~Loaded
  <2>1. pc = "setup" \/ program = "estimate"
    BY <1>1, <1>5 DEF Loaded
  <2>2. /\ file' \in Maps /\ file'.keys \subseteq Put
        /\ \A k \in Key : file'.mk[k] < nextKey
    <3>1. CASE file' = mem \/ file' = file
      BY <1>2, <3>1 DEF PutInv, FreshInv
    <3>2. CASE /\ file' \in Maps /\ file'.keys \in {{}, file.keys}
               /\ file'.mk = [k \in Key |-> 0]
      BY <3>2 DEF PutInv, TypeInv
    <3>3. /\ EmptyMaps \in Maps /\ EmptyMaps.keys = {}
          /\ EmptyMaps.mk = [k \in Key |-> 0]
      BY EmptyMapsType DEF EmptyMaps
    <3>4. ASSUME NEW m, m = [EmptyMaps EXCEPT !.keys = file.keys]
          PROVE  m \in Maps /\ m.keys = file.keys /\ m.mk = [k \in Key |-> 0]
      BY <1>2, <3>4 DEF Maps, EmptyMaps
    <3>5. ASSUME NEW m, m = [EmptyMaps EXCEPT !.keys = file.keys, !.size = file.size]
          PROVE  m \in Maps /\ m.keys = file.keys /\ m.mk = [k \in Key |-> 0]
      BY <1>2, <3>5 DEF Maps, EmptyMaps
    <3> QED
      BY <1>1, <3>1, <3>2, <3>3, <3>4, <3>5 DEF InMemory
  <2>3. CutShort = Key \/ file' = file
    BY <1>1, <2>1 DEF CutShort, InMemory, TypeInv, ProgramInv
  <2>4. \A k \in Put \ exposed' : Good(file', k)
    BY <1>1, <1>5, <2>3 DEF FileInv, Put
  <2> QED
    BY <1>1, <1>2, <1>3, <2>2, <2>4, EndInv
<1> QED
  BY <1>4, <1>5

\* A session that saves nothing exposes the keys it re-encrypted; the file is as good as
\* before for the others.
LEMMA EndUnsavedInv ==
  ASSUME IndInv, EndUnsaved, pc \notin {"off", "setup"}
  PROVE  IndInv'
<1> USE DEF IndInv
<1>1. /\ End /\ file' = file
      /\ exposed' = exposed \union
           IF program = "estimate" THEN {} ELSE {k \in Key : mem.mk[k] # file.mk[k]}
  BY DEF EndUnsaved
<1>2. file \in Maps /\ exposed' \subseteq Key /\ exposed \subseteq exposed'
  BY <1>1 DEF TypeInv
<1>3. file.keys \subseteq Put /\ \A k \in Key : file.mk[k] < nextKey
  BY DEF PutInv, FreshInv
<1>4. InFlight => K \in exposed'
  <2> SUFFICES ASSUME InFlight PROVE K \in exposed'
    OBVIOUS
  <2>1. K \in Key /\ program # "estimate"
    BY DEF ProgramInv, K, Requests, InFlight
  <2>2. mem.mk[K] # file.mk[K]
    BY <2>1 DEF FreshInv, TypeInv, Maps
  <2> QED
    BY <1>1, <2>1, <2>2
<1>5. \A k \in Put \ exposed' : Good(file', k)
  <2>1. CASE ~Loaded
    BY <1>1, <1>2, <2>1 DEF FileInv
  <2>2. CASE Loaded
    <3> SUFFICES ASSUME NEW k \in Put \ exposed' PROVE Good(file, k)
      BY <1>1
    <3>1. k \in Key /\ mem.mk[k] = file.mk[k] /\ k \notin exposed
      BY <1>1, <2>2 DEF Put, Loaded
    <3>2. Good(mem, k)
      BY <1>4, <2>2, <3>1, MemGood
    <3> QED
      BY <2>2, <3>1, <3>2 DEF LinkInv, Good
  <2> QED
    BY <2>1, <2>2
<1> QED
  BY <1>1, <1>2, <1>3, <1>4, <1>5, EndInv

\* Starting a program, loading the file and connecting.
LEMMA StartInv == IndInv /\ (Start \/ Setup \/ Open) => IndInv'
<1> SUFFICES ASSUME IndInv, Start \/ Setup \/ Open PROVE IndInv'
  OBVIOUS
<1> USE DEF IndInv, serverVars
<1>0. /\ UNCHANGED <<file, ended, req, entry, answer, commands, db, rpcs, serverUp, quits,
                     restarts, nextKey, written, exposed>>
      /\ session' \in {session, session + 1} /\ (session' # session => pc = "off")
      /\ program' \in {"client", "benchmark", "estimate"}
      /\ pc' \in {"setup", "open", "prompt", "construct"}
      /\ mem' \in {mem, file} /\ conn' \in {conn, "open"}
      /\ pc \in {"off", "setup", "open"}
  BY DEF Start, Setup, Open, TypeInv
<1>1. TypeInv'
  BY <1>0 DEF TypeInv
<1>2. ~InFlight /\ ~InFlight' /\ Put' = Put /\ pc # "wait" /\ pc' # "wait"
  BY <1>0 DEF InFlight, Put
<1>3. ProgramInv'
  BY <1>0, <1>2 DEF ProgramInv, Start, Setup, Open
<1>4. AccessInv'
  BY <1>0, <1>2 DEF AccessInv, Start, Setup, Open, TypeInv, Messages
<1>5. FreshInv' /\ PutInv'
  BY <1>0, <1>2 DEF FreshInv, PutInv
<1>6. FlightInv' /\ AnswerInv'
  BY <1>2 DEF FlightInv, AnswerInv
<1>7. \A k : CreatesOf(k)' = CreatesOf(k)
  BY <1>0 DEF CreatesOf
<1>8. CASE ~Loaded /\ ~Loaded'
  BY <1>0, <1>1, <1>2, <1>3, <1>4, <1>5, <1>6, <1>7, <1>8
  DEF LinkInv, FileInv, MemInv, Good, Settled
<1>9. CASE Setup
  <2>1. ~Loaded /\ Loaded' /\ mem' = file
    BY <1>9 DEF Setup, Loaded, ProgramInv
  <2> QED
    BY <1>0, <1>1, <1>2, <1>3, <1>4, <1>5, <1>6, <1>7, <2>1
    DEF LinkInv, FileInv, MemInv, Good, Settled
<1>10. CASE Open
  <2>1. Loaded /\ Loaded' /\ mem' = mem
    BY <1>10 DEF Open, Loaded, ProgramInv
  <2> QED
    BY <1>0, <1>1, <1>2, <1>3, <1>4, <1>5, <1>6, <1>7, <2>1
    DEF LinkInv, FileInv, MemInv, Good, Settled
<1>11. CASE Start
  <2>1. ~Loaded /\ ~Loaded'
    BY <1>11 DEF Start, Loaded
  <2> QED
    BY <1>8, <2>1
<1> QED
  BY <1>9, <1>10, <1>11

(***************************************************************************)
(* Commands                                                                *)
(***************************************************************************)
\* A step of a loaded program that leaves its maps, the file and the server alone, with
\* no operation under way before or after it.
LEMMA IdleStep ==
  ASSUME IndInv, Loaded, Loaded', ~InFlight, ~InFlight', TypeInv', ProgramInv',
         pc # "off",
         UNCHANGED <<file, mem, session, db, rpcs, nextKey, written, exposed>>
  PROVE  IndInv'
<1> USE DEF IndInv
<1>1. Put' = Put /\ pc # "wait" /\ pc' # "wait"
  BY DEF Put, InFlight
<1>2. \A k : CreatesOf(k)' = CreatesOf(k)
  BY DEF CreatesOf
<1>3. AccessInv'
  BY <1>1 DEF AccessInv
<1>4. FreshInv' /\ PutInv' /\ LinkInv'
  BY <1>1 DEF FreshInv, PutInv, LinkInv
<1>5. FileInv' /\ FlightInv' /\ AnswerInv'
  BY <1>1 DEF FileInv, FlightInv, AnswerInv
<1>6. MemInv'
  BY <1>1, <1>2 DEF MemInv, Good, Settled
<1> QED
  BY <1>3, <1>4, <1>5, <1>6

\* A command that was read, whatever the input.
LEMMA ReadInv ==
  ASSUME IndInv, NEW r \in Requests, Read(r), program \in {"client", "benchmark"},
         program = "benchmark" => r.op = "GET", ended' \in BOOLEAN
  PROVE  IndInv'
<1> USE DEF IndInv
<1>1. /\ UNCHANGED <<file, program, mem, entry, conn, answer, session, db, rpcs, serverUp,
                     quits, restarts, nextKey, written, exposed>>
      /\ pc = "prompt" /\ pc' \in {"prompt", "construct"} /\ commands' = commands + 1
      /\ req' \in {r, req}
  BY DEF Read, serverVars
<1>2. TypeInv'
  BY <1>1 DEF TypeInv
<1>3. ProgramInv'
  BY <1>1 DEF ProgramInv, Read, InFlight, K
<1> QED
  BY <1>1, <1>2, <1>3, IdleStep DEF Loaded, InFlight

\* The client's commands, the end of its input, and the benchmark's rounds.
LEMMA CommandInv == IndInv /\ (Command \/ EndOfInput \/ AfterInput \/ Round) => IndInv'
<1> SUFFICES ASSUME IndInv, Command \/ EndOfInput \/ AfterInput \/ Round PROVE IndInv'
  OBVIOUS
<1>1. ended \in BOOLEAN
  BY DEF IndInv, TypeInv
<1>2. \A k \in Key : GetOf(k) \in Requests /\ GetOf(k).op = "GET"
  BY DEF GetOf, Requests
<1>3. \A k \in Key : [op |-> "PUT", key |-> k, val |-> EmptyValue] \in Requests
  BY LblSessionAssumption DEF Requests
<1>4. CASE Command
  BY <1>1, <1>4, ReadInv DEF Command
<1>5. CASE EndOfInput
  BY <1>2, <1>3, <1>5, ReadInv, LblSessionAssumption DEF EndOfInput
<1>6. CASE AfterInput
  BY <1>1, <1>2, <1>6, ReadInv, LblSessionAssumption DEF AfterInput
<1>7. CASE Round
  BY <1>1, <1>2, <1>7, ReadInv DEF Round
<1> QED
  BY <1>4, <1>5, <1>6, <1>7

\* A fresh master key replaces the one under which the server holds the key.
LEMMA ConstructInv == IndInv /\ Construct => IndInv'
<1> SUFFICES ASSUME IndInv, Construct PROVE IndInv'
  OBVIOUS
<1> USE DEF IndInv
<1>1. K \in Key /\ req \in Requests
  BY DEF Construct, ProgramInv, Requests, K
<1>2. /\ pc = "construct" /\ program # "estimate"
      /\ UNCHANGED <<file, program, ended, req, conn, answer, session, commands, db, rpcs,
                     serverUp, quits, restarts, exposed>>
      /\ entry'.create <=> (program = "client" /\ K \notin mem.keys)
      /\ entry' \in [create : BOOLEAN, old : Nat, new : Nat]
      /\ entry'.old = mem.mk[K] /\ entry'.new = nextKey
      /\ nextKey' = nextKey + 1
      /\ pc' = IF req.op = "GET" THEN "send" ELSE "record"
  BY <1>1 DEF Construct, serverVars, TypeInv, Maps
<1>3. /\ mem' \in Maps /\ mem'.keys = mem.keys /\ mem'.size = mem.size
      /\ \A k \in Key : mem'.mk[k] = IF k = K THEN nextKey ELSE mem.mk[k]
  BY <1>1 DEF Construct, TypeInv, Maps
<1>4. /\ written' \in [Key -> Value \union {NoValue}]
      /\ \A k \in Key : written'[k] = IF k = K /\ req.op = "PUT" THEN req.val ELSE written[k]
      /\ req.op \in {"GET", "PUT"} /\ (req.op = "PUT" => req.val \in Value)
  BY <1>1 DEF Construct, TypeInv, Requests
<1>5. K' = K /\ Loaded /\ Loaded' /\ InFlight' /\ ~InFlight
  BY <1>2 DEF K, Loaded, InFlight
<1>6. Put \subseteq Put' /\ Put' \subseteq Put \union {K} /\ (req.op = "GET" => Put' = Put)
  BY <1>1, <1>4, LblSessionAssumption DEF Put
<1>7. TypeInv'
  BY <1>2, <1>3, <1>4 DEF TypeInv
<1>8. ProgramInv'
  BY <1>1, <1>2, <1>4, <1>5 DEF ProgramInv
<1>9. AccessInv'
  BY <1>2 DEF AccessInv
<1>10. FreshInv'
  BY <1>1, <1>2, <1>3, <1>5 DEF FreshInv, TypeInv, Maps
<1>11. PutInv'
  BY <1>2, <1>3, <1>6 DEF PutInv
<1>12. LinkInv'
  BY <1>1, <1>2, <1>3, <1>5 DEF LinkInv, FreshInv, TypeInv, Maps
<1>13. \A k : CreatesOf(k)' = CreatesOf(k)
  BY <1>2 DEF CreatesOf
<1>14. FileInv' /\ AnswerInv'
  BY <1>2, <1>5 DEF FileInv, AnswerInv
<1>15. MemInv'
  <2> SUFFICES ASSUME NEW k \in Put' \ exposed, k # K PROVE Good(mem, k)'
    BY <1>2, <1>5 DEF MemInv
  <2>1. k \in Put /\ k \in Key
    BY <1>6 DEF Put
  <2>2. Good(mem, k)
    BY <1>5, <2>1, MemGood
  <2> QED
    BY <1>2, <1>3, <1>4, <1>13, <2>1, <2>2 DEF Good, Settled
<1>16. FlightInv'
  <2> SUFFICES ASSUME K \in Put' \ exposed
               PROVE  /\ (pc' = "record" /\ entry'.create) \/ K \in mem'.keys
                      /\ pc' = "record" \/ mem'.size[K] = Size[written'[K]]
                      /\ entry'.create => db[K].mk = 0 /\ CreatesOf(K) = {}
                      /\ ~entry'.create =>
                           /\ entry'.old # 0
                           /\ \E v \in Value : /\ Settled(K, mem.mk[K], v)
                                               /\ req.op = "GET" => v = written'[K]
    BY <1>2, <1>5, <1>13 DEF FlightInv, Settled
  <2>1. CASE K \in Put
    <3>1. Good(mem, K) /\ written[K] \in Value
      BY <1>1, <1>5, <2>1, MemGood DEF Put, TypeInv
    <3> QED
      BY <1>1, <1>2, <1>3, <1>4, <3>1 DEF Good
  <2>2. CASE K \notin Put
    <3>1. req.op = "PUT" /\ K \notin mem.keys /\ db[K].mk = 0 /\ CreatesOf(K) = {}
      BY <1>1, <1>4, <1>6, <2>2 DEF PutInv, CreatesOf
    <3>2. program = "client"
      BY <1>1, <1>2, <2>2, <3>1 DEF ProgramInv, TypeInv
    <3> QED
      BY <1>2, <3>1, <3>2
  <2> QED
    BY <2>1, <2>2
<1> QED
  BY <1>7, <1>8, <1>9, <1>10, <1>11, <1>12, <1>14, <1>15, <1>16

\* The size of a PUT, and the key of a create, are recorded while it is under way.
LEMMA RecordInv == IndInv /\ Record => IndInv'
<1> SUFFICES ASSUME IndInv, Record PROVE IndInv'
  OBVIOUS
<1> USE DEF IndInv
<1>1. K \in Key /\ req \in Requests /\ req.op = "PUT" /\ written[K] = req.val
  BY DEF Record, ProgramInv, Requests, K, InFlight
<1>2. /\ pc = "record" /\ pc' = "send"
      /\ UNCHANGED <<file, program, ended, req, entry, conn, answer, session, commands, db,
                     rpcs, serverUp, quits, restarts, nextKey, written, exposed>>
  BY DEF Record, serverVars
<1>3. req.val \in Value /\ Size[req.val] \in Nat
  BY <1>1, LblSessionAssumption DEF Requests
<1>4. /\ mem' \in Maps /\ mem'.mk = mem.mk
      /\ mem'.keys = IF entry.create THEN mem.keys \union {K} ELSE mem.keys
      /\ \A k \in Key : mem'.size[k] = IF k = K THEN Size[req.val] ELSE mem.size[k]
  BY <1>1, <1>3 DEF Record, TypeInv, Maps
<1>5. K' = K /\ InFlight /\ InFlight' /\ Loaded /\ Loaded' /\ Put' = Put
  BY <1>2 DEF K, InFlight, Loaded, Put, ProgramInv
<1>6. K \in Put
  BY <1>1, <1>3, LblSessionAssumption DEF Put
<1>7. TypeInv'
  BY <1>2, <1>4 DEF TypeInv
<1>8. ProgramInv'
  BY <1>2, <1>5 DEF ProgramInv
<1>9. AccessInv'
  BY <1>2 DEF AccessInv
<1>10. FreshInv'
  BY <1>2, <1>4, <1>5 DEF FreshInv
<1>11. PutInv'
  BY <1>2, <1>4, <1>5, <1>6 DEF PutInv
<1>12. LinkInv'
  <2>1. mem.mk[K] # file.mk[K]
    BY <1>1, <1>5 DEF FreshInv, TypeInv, Maps
  <2> QED
    BY <1>2, <1>4, <1>5, <2>1 DEF LinkInv
<1>13. \A k : CreatesOf(k)' = CreatesOf(k)
  BY <1>2 DEF CreatesOf
<1>14. FileInv' /\ AnswerInv'
  BY <1>2, <1>5 DEF FileInv, AnswerInv
<1>15. MemInv'
  <2> SUFFICES ASSUME NEW k \in Put \ exposed, k # K PROVE Good(mem, k)'
    BY <1>2, <1>5 DEF MemInv
  <2>1. Good(mem, k) /\ k \in Key
    BY <1>5, MemGood DEF Put
  <2> QED
    BY <1>2, <1>4, <1>13, <2>1 DEF Good, Settled
<1>16. FlightInv'
  BY <1>1, <1>2, <1>4, <1>5, <1>13 DEF FlightInv, Settled
<1> QED
  BY <1>7, <1>8, <1>9, <1>10, <1>11, <1>12, <1>14, <1>15, <1>16

\* A create settles the key, or vanishes and exposes it.
LEMMA SendCreateInv == IndInv /\ SendCreate => IndInv'
<1> SUFFICES ASSUME IndInv, SendCreate PROVE IndInv'
  OBVIOUS
<1> USE DEF IndInv
<1> DEFINE c == Message("create")
<1>1. /\ K \in Key /\ req \in Requests /\ req.op = "PUT" /\ written[K] = req.val
      /\ program # "estimate"
  BY DEF SendCreate, ProgramInv, Requests, K, InFlight
<1>2. /\ pc = "send" /\ pc' = "prompt" /\ entry.create /\ req' = NoRequest
      /\ rpcs' \in {rpcs, rpcs \union {c}} /\ exposed' \in {exposed, exposed \union {K}}
      /\ K \in exposed' \/ rpcs' = rpcs \union {c}
      /\ UNCHANGED <<file, program, ended, mem, entry, conn, answer, session, commands, db,
                     serverUp, quits, restarts, nextKey, written>>
  BY DEF SendCreate
<1>3. req.val \in Value /\ K \in Put
  BY <1>1, LblSessionAssumption DEF Requests, Put
<1>4. /\ c \in Messages /\ c.kind = "create" /\ c.key = K /\ c.new = entry.new
      /\ c.val = req.val
  BY <1>1, <1>3 DEF Message, Messages, TypeInv
<1> HIDE DEF c
<1>5. InFlight /\ ~InFlight' /\ Loaded /\ Loaded' /\ Put' = Put
  BY <1>1, <1>2 DEF InFlight, Loaded, Put
<1>6. TypeInv'
  BY <1>1, <1>2, <1>4 DEF TypeInv
<1>7. ProgramInv'
  BY <1>1, <1>2, <1>5 DEF ProgramInv
<1>8. AccessInv'
  BY <1>2, <1>4 DEF AccessInv
<1>9. FreshInv'
  BY <1>2, <1>5 DEF FreshInv
<1>10. PutInv'
  BY <1>2, <1>3, <1>4, <1>5 DEF PutInv
<1>11. LinkInv'
  BY <1>2, <1>5 DEF LinkInv
<1>12. FileInv' /\ FlightInv' /\ AnswerInv'
  BY <1>2, <1>5 DEF FileInv, FlightInv, AnswerInv
<1>13. \A k \in Key \ {K} : CreatesOf(k)' = CreatesOf(k)
  BY <1>2, <1>4 DEF CreatesOf
<1>14. MemInv'
  <2> SUFFICES ASSUME NEW k \in Put \ exposed' PROVE Good(mem, k)'
    BY <1>5 DEF MemInv
  <2>1. CASE k # K
    <3>1. Good(mem, k) /\ k \in Key
      BY <1>2, <1>5, <2>1, MemGood DEF Put
    <3>2. CreatesOf(k)' = CreatesOf(k) /\ rpcs \subseteq rpcs'
      BY <1>2, <1>13, <2>1, <3>1
    <3> QED
      BY <1>2, <3>1, <3>2 DEF Good, Settled
  <2>2. CASE k = K
    <3>1. rpcs' = rpcs \union {c} /\ K \notin exposed
      BY <1>2, <2>2
    <3>2. /\ K \in mem.keys /\ mem.size[K] = Size[written[K]]
          /\ db[K].mk = 0 /\ CreatesOf(K) = {}
      BY <1>2, <1>3, <1>5, <3>1 DEF FlightInv
    <3>3. CreatesOf(k)' = {c}
      BY <1>4, <2>2, <3>1, <3>2 DEF CreatesOf
    <3>4. entry.new = mem.mk[K] /\ mem.mk[K] # 0
      BY <1>1, <1>5 DEF FreshInv, TypeInv, Maps
    <3> QED
      BY <1>1, <1>2, <1>4, <2>2, <3>1, <3>2, <3>3, <3>4 DEF Good, Settled
  <2> QED
    BY <2>1, <2>2
<1> QED
  BY <1>6, <1>7, <1>8, <1>9, <1>10, <1>11, <1>12, <1>14

\* The access is the only one of its session.
LEMMA SendAccessInv == IndInv /\ SendAccess => IndInv'
<1> SUFFICES ASSUME IndInv, SendAccess PROVE IndInv'
  OBVIOUS
<1> USE DEF IndInv
<1> DEFINE a == Message("access")
<1>1. K \in Key /\ req \in Requests /\ program # "estimate"
  BY DEF SendAccess, ProgramInv, Requests, K, InFlight
<1>2. /\ pc = "send" /\ pc' = "wait" /\ ~entry.create /\ rpcs' = rpcs \union {a}
      /\ UNCHANGED <<file, program, ended, mem, req, entry, conn, answer, session, commands,
                     db, serverUp, quits, restarts, nextKey, written, exposed>>
  BY DEF SendAccess
<1>3. /\ a \in Messages /\ a.kind = "access" /\ a.session = session /\ a' = a
  BY <1>1, <1>2 DEF Message, Messages, TypeInv, K, Requests
<1>4. a = Message("access") /\ Message("access")' = a
  BY <1>3
<1>5. answer.status = "none"
  BY <1>2 DEF ProgramInv
<1> HIDE DEF a
<1>6. InFlight /\ InFlight' /\ Loaded /\ Loaded' /\ Put' = Put /\ K' = K
  BY <1>1, <1>2 DEF InFlight, Loaded, Put, K
<1>7. TypeInv'
  BY <1>2, <1>3 DEF TypeInv
<1>8. ProgramInv'
  BY <1>2, <1>6 DEF ProgramInv
<1>9. AccessInv'
  <2> SUFFICES ASSUME NEW m \in rpcs', m.kind = "access"
               PROVE  /\ m.session <= session
                      /\ m.session = session => m = a
                      /\ m.key \in exposed \/ m = a
    BY <1>2, <1>4, <1>5 DEF AccessInv
  <2> QED
    BY <1>2, <1>3 DEF AccessInv, TypeInv
<1>10. FreshInv' /\ PutInv' /\ LinkInv'
  BY <1>2, <1>3, <1>6 DEF FreshInv, PutInv, LinkInv
<1>11. \A k : CreatesOf(k)' = CreatesOf(k)
  BY <1>2, <1>3 DEF CreatesOf
<1>12. FileInv' /\ AnswerInv'
  BY <1>2, <1>5, <1>6 DEF FileInv, AnswerInv
<1>13. MemInv'
  BY <1>2, <1>6, <1>11 DEF MemInv, Good, Settled
<1>14. FlightInv'
  BY <1>2, <1>6, <1>11 DEF FlightInv, Settled
<1> QED
  BY <1>7, <1>8, <1>9, <1>10, <1>12, <1>13, <1>14

\* An answer ends the operation: the key is settled under the new master key.
LEMMA ReceiveInv == IndInv /\ Receive => IndInv'
<1> SUFFICES ASSUME IndInv, Receive PROVE IndInv'
  OBVIOUS
<1> USE DEF IndInv
<1>1. K \in Key /\ req \in Requests /\ program # "estimate"
  BY DEF Receive, ProgramInv, Requests, K, InFlight
<1>2. /\ pc = "wait" /\ answer.status = "ready" /\ answer' = NoAnswer
      /\ UNCHANGED <<file, program, ended, mem, entry, conn, session, commands, db, rpcs,
                     serverUp, quits, restarts, nextKey, written, exposed>>
      /\ \/ pc' = "prompt" /\ req' = NoRequest
         \/ /\ pc' = "construct" /\ req' = [op |-> "PUT", key |-> K, val |-> Spaces]
            /\ program = "benchmark"
  BY DEF Receive, serverVars
<1>3. InFlight /\ ~InFlight' /\ Loaded /\ Loaded' /\ Put' = Put
  BY <1>1, <1>2 DEF InFlight, Loaded, Put
<1>4. TypeInv'
  BY <1>1, <1>2, NoAnswerType, LblSessionAssumption DEF TypeInv, Requests
<1>5. K \notin exposed => K \in Put
  BY <1>2 DEF AnswerInv
<1>6. ProgramInv'
  <2>1. NoAnswer.status = "none"
    BY DEF NoAnswer
  <2>2. CASE pc' = "prompt"
    BY <1>2, <1>3, <2>1, <2>2 DEF ProgramInv
  <2>3. CASE pc' = "construct"
    <3>1. req' \in Requests /\ K' = K
      BY <1>1, <1>2, <2>3, LblSessionAssumption DEF Requests, K
    <3> QED
      BY <1>1, <1>2, <1>3, <1>5, <2>1, <2>3, <3>1 DEF ProgramInv
  <2> QED
    BY <1>2, <2>2, <2>3
<1>7. AccessInv'
  <2>1. Message("access").session = session
    BY DEF Message
  <2> QED
    BY <1>2, <2>1 DEF AccessInv
<1>8. FreshInv' /\ PutInv' /\ LinkInv'
  BY <1>2, <1>3 DEF FreshInv, PutInv, LinkInv
<1>9. FileInv' /\ FlightInv' /\ AnswerInv'
  <2>1. FileInv' /\ FlightInv'
    BY <1>3 DEF FileInv, FlightInv
  <2>2. pc' # "wait"
    BY <1>2
  <2> QED
    BY <2>1, <2>2 DEF AnswerInv
<1>10. \A k : CreatesOf(k)' = CreatesOf(k)
  BY <1>2 DEF CreatesOf
<1>11. MemInv'
  <2> SUFFICES ASSUME NEW k \in Put \ exposed PROVE Good(mem, k)
    BY <1>2, <1>3, <1>10 DEF MemInv, Good, Settled
  <2>1. CASE k = K
    <3>1. mem.mk[K] = entry.new /\ mem.mk[K] # 0
      BY <1>1, <1>3 DEF FreshInv, TypeInv, Maps
    <3>2. Settled(K, mem.mk[K], written[K])
      BY <1>2, <2>1, <3>1 DEF AnswerInv
    <3>3. K \in mem.keys /\ mem.size[K] = Size[written[K]]
      BY <1>2, <1>3, <2>1 DEF FlightInv
    <3> QED
      BY <2>1, <3>1, <3>2, <3>3 DEF Good
  <2>2. CASE k # K
    BY <1>3, <2>2, MemGood
  <2> QED
    BY <2>1, <2>2
<1> QED
  BY <1>4, <1>6, <1>7, <1>8, <1>9, <1>11

(***************************************************************************)
(* The server                                                              *)
(***************************************************************************)
\* The invariants a step of the server cannot disturb.
LEMMA ServerKeeps ==
  ASSUME IndInv, TypeInv', UNCHANGED <<file, program, mem, pc, req, entry, session, nextKey,
                                       written>>,
         exposed \subseteq exposed', pc # "wait" => answer' = answer
  PROVE  ProgramInv' /\ FreshInv' /\ LinkInv' /\ Put' = Put /\ InFlight' = InFlight
         /\ Loaded' = Loaded /\ K' = K
<1> USE DEF IndInv
<1>1. Put' = Put /\ InFlight' = InFlight /\ Loaded' = Loaded /\ K' = K
  BY DEF Put, InFlight, Loaded, K
<1> QED
  BY <1>1 DEF ProgramInv, FreshInv, LinkInv

\* A create is the only one of a key that is not exposed, and settles it.
LEMMA ServeCreateInv ==
  ASSUME IndInv, NEW m \in rpcs, ServeCreate(m)
  PROVE  IndInv'
<1> USE DEF IndInv
<1>1. /\ m.kind = "create" /\ rpcs' = rpcs \ {m} /\ m \in Messages
      /\ UNCHANGED <<file, program, ended, mem, pc, req, entry, conn, session, commands,
                     answer, serverUp, quits, restarts, nextKey, written, exposed>>
  BY DEF ServeCreate, clientVars, TypeInv
<1>2. \A k \in Key : db'[k] = IF k = m.key THEN [mk |-> m.new, val |-> m.val] ELSE db[k]
  BY <1>1 DEF ServeCreate, TypeInv
<1>3. m.key \in Key /\ m.key \in Put
  BY <1>1 DEF PutInv, Put
<1>4. TypeInv'
  <2>1. [mk |-> m.new, val |-> m.val] \in Blocks
    BY <1>1 DEF Messages, Blocks
  <2> QED
    BY <1>1, <1>3, <2>1 DEF TypeInv, ServeCreate
<1>5. ProgramInv' /\ FreshInv' /\ LinkInv' /\ Put' = Put /\ InFlight' = InFlight
      /\ Loaded' = Loaded /\ K' = K
  BY <1>1, <1>4, ServerKeeps
<1>6. AccessInv'
  <2>1. Message("access")' = Message("access")
    BY <1>1, <1>5 DEF Message
  <2> QED
    BY <1>1, <2>1 DEF AccessInv
<1>7. PutInv'
  BY <1>1, <1>2, <1>3, <1>5 DEF PutInv
<1>8. ASSUME NEW k \in Key, NEW g, NEW v, Settled(k, g, v), m.key = k
      PROVE  Holds(db'[k], g, v) /\ CreatesOf(k)' = {}
  <2>1. m \in CreatesOf(k)
    BY <1>1, <1>8 DEF CreatesOf
  <2>2. CreatesOf(k) = {m} /\ m.new = g /\ m.val = v
    BY <1>8, <2>1 DEF Settled
  <2>3. CreatesOf(k)' = CreatesOf(k) \ {m}
    BY <1>1 DEF CreatesOf
  <2> QED
    BY <1>2, <1>8, <2>2, <2>3 DEF Holds
<1>9. ASSUME NEW k \in Key, k # m.key
      PROVE  /\ db'[k] = db[k] /\ CreatesOf(k)' = CreatesOf(k)
             /\ \A c \in rpcs : CreatesOf(k) = {c} => c \in rpcs'
  <2>1. db'[k] = db[k] /\ CreatesOf(k)' = CreatesOf(k)
    BY <1>1, <1>2, <1>9 DEF CreatesOf
  <2>2. \A c \in CreatesOf(k) : c \in rpcs'
    BY <1>1, <1>9 DEF CreatesOf
  <2> QED
    BY <2>1, <2>2
<1>10. ASSUME NEW k \in Key, NEW g, NEW v, Settled(k, g, v)
       PROVE  \/ Holds(db'[k], g, v) /\ CreatesOf(k)' = {}
              \/ /\ db'[k].mk = 0
                 /\ \E c \in rpcs' : CreatesOf(k)' = {c} /\ c.new = g /\ c.val = v
  <2>1. CASE k = m.key
    BY <1>8, <1>10, <2>1
  <2>2. CASE k # m.key
    BY <1>9, <1>10, <2>2 DEF Settled
  <2> QED
    BY <2>1, <2>2
<1>11. FileInv' /\ MemInv'
  <2>1. ASSUME NEW k \in Key, Good(file, k) PROVE Good(file, k)'
    <3>1. Settled(k, file.mk[k], written[k])
      BY <2>1 DEF Good
    <3>2. \/ Holds(db'[k], file.mk[k], written[k]) /\ CreatesOf(k)' = {}
          \/ /\ db'[k].mk = 0
             /\ \E c \in rpcs' : /\ CreatesOf(k)' = {c}
                                 /\ c.new = file.mk[k] /\ c.val = written[k]
      BY <1>10, <3>1
    <3> QED
      BY <1>1, <2>1, <3>2 DEF Good, Settled
  <2>2. ASSUME NEW k \in Key, Good(mem, k) PROVE Good(mem, k)'
    <3>1. Settled(k, mem.mk[k], written[k])
      BY <2>2 DEF Good
    <3>2. \/ Holds(db'[k], mem.mk[k], written[k]) /\ CreatesOf(k)' = {}
          \/ /\ db'[k].mk = 0
             /\ \E c \in rpcs' : /\ CreatesOf(k)' = {c}
                                 /\ c.new = mem.mk[k] /\ c.val = written[k]
      BY <1>10, <3>1
    <3> QED
      BY <1>1, <2>2, <3>2 DEF Good, Settled
  <2> QED
    BY <1>1, <1>5, <2>1, <2>2 DEF FileInv, MemInv, Put
<1>12. FlightInv'
  <2> SUFFICES ASSUME InFlight, K \in Put \ exposed
               PROVE  /\ entry.create => db'[K].mk = 0 /\ CreatesOf(K)' = {}
                      /\ ~entry.create /\ answer.status = "none" =>
                           /\ entry.old # 0
                           /\ \E v \in Value :
                                /\ \/ Holds(db'[K], entry.old, v) /\ CreatesOf(K)' = {}
                                   \/ /\ db'[K].mk = 0
                                      /\ \E c \in rpcs' : /\ CreatesOf(K)' = {c}
                                                          /\ c.new = entry.old /\ c.val = v
                                /\ req.op = "GET" => v = written[K]
    BY <1>1, <1>5 DEF FlightInv, Settled
  <2>1. K \in Key
    BY DEF Put
  <2>2. ASSUME entry.create PROVE K # m.key
    BY <1>1, <2>2 DEF FlightInv, CreatesOf
  <2>3. entry.create => db'[K].mk = 0 /\ CreatesOf(K)' = {}
    BY <1>5, <1>9, <2>1, <2>2 DEF FlightInv
  <2> QED
    BY <1>5, <1>10, <2>1, <2>3 DEF FlightInv
<1>13. AnswerInv'
  <2> SUFFICES ASSUME pc = "wait", answer.status = "ready", K \notin exposed
               PROVE  AnswerInv'
    BY <1>1, <1>5 DEF AnswerInv
  <2>1. /\ K \in Put /\ K \in Key
        /\ answer.block = [mk |-> entry.new, val |-> Carry(written[K])]
        /\ Settled(K, entry.new, written[K])
    BY DEF AnswerInv, Put
  <2> QED
    BY <1>1, <1>5, <1>10, <2>1 DEF AnswerInv, Settled
<1> QED
  BY <1>4, <1>5, <1>6, <1>7, <1>11, <1>12, <1>13

\* An access opens the block only of the entry's old master key; on a key that is not
\* exposed it is the waiting client's, and its answer shows the value last put.
LEMMA ServeAccessInv ==
  ASSUME IndInv, NEW m \in rpcs, ServeAccess(m)
  PROVE  IndInv'
<1> USE DEF IndInv
<1> DEFINE b == [mk |-> m.new, val |-> Carry(IF m.get THEN db[m.key].val ELSE m.val)]
<1> DEFINE mine == pc = "wait" /\ m.session = session
<1>1. /\ m.kind = "access" /\ rpcs' = rpcs \ {m} /\ m \in Messages /\ Decryptable(m)
      /\ answer' = IF mine THEN [status |-> "ready", block |-> b] ELSE answer
      /\ UNCHANGED <<file, program, ended, mem, pc, req, entry, conn, session, commands,
                     serverUp, quits, restarts, nextKey, written, exposed>>
  BY DEF ServeAccess, clientVars, TypeInv
<1>2. m.key \in Key /\ b \in Blocks
  BY <1>1, CarryType DEF Messages, Blocks, TypeInv
<1>3. \A k \in Key : db'[k] = IF k = m.key THEN b ELSE db[k]
  BY <1>1, <1>2 DEF ServeAccess, TypeInv
<1>4. TypeInv'
  BY <1>1, <1>2 DEF TypeInv, ServeAccess
<1>5. ProgramInv' /\ FreshInv' /\ LinkInv' /\ Put' = Put /\ InFlight' = InFlight
      /\ Loaded' = Loaded /\ K' = K
  BY <1>1, <1>4, ServerKeeps
<1>6. Message("access")' = Message("access") /\ Message("access").session = session
  BY <1>1, <1>5 DEF Message
<1>7. mine <=> (pc = "wait" /\ m = Message("access"))
  BY <1>1, <1>6 DEF AccessInv
<1>8. mine \/ m.key \in exposed
  BY <1>1, <1>7 DEF AccessInv
<1>9. mine => m.key = K /\ m.new = entry.new /\ m.old = entry.old /\ m.val = req.val
              /\ (m.get <=> req.op = "GET")
  <2>1. /\ Message("access").key = K /\ Message("access").new = entry.new
        /\ Message("access").old = entry.old /\ Message("access").val = req.val
    BY DEF Message
  <2>2. Message("access").get = (req.op = "GET")
    BY Zenon DEF Message
  <2> QED
    BY <1>7, <2>1, <2>2
<1>10. m.key \in Put /\ m.old # 0 /\ db[m.key].mk = m.old
  BY <1>1, <1>2 DEF Decryptable, PutInv
<1> HIDE DEF mine
<1>11. AccessInv'
  <2> SUFFICES ASSUME NEW n \in rpcs', n.kind = "access"
               PROVE  /\ n.session <= session
                      /\ n.session = session /\ pc # "off" =>
                           pc = "wait" /\ n = Message("access") /\ answer'.status = "none"
                      /\ n.key \in exposed \/ (pc = "wait" /\ n = Message("access"))
    BY <1>1, <1>6 DEF AccessInv
  <2>1. n \in rpcs /\ n # m
    BY <1>1
  <2> QED
    BY <1>1, <1>7, <2>1 DEF AccessInv
<1>12. \A k \in Key : CreatesOf(k)' = CreatesOf(k) /\ CreatesOf(k) \subseteq rpcs'
  BY <1>1 DEF CreatesOf
<1>13. PutInv'
  BY <1>1, <1>3, <1>5, <1>10 DEF PutInv
<1>14. ASSUME NEW k \in Key, k # m.key, NEW g, NEW v, Settled(k, g, v)
       PROVE  \/ Holds(db'[k], g, v) /\ CreatesOf(k)' = {}
              \/ /\ db'[k].mk = 0
                 /\ \E c \in rpcs' : CreatesOf(k)' = {c} /\ c.new = g /\ c.val = v
  BY <1>3, <1>12, <1>14 DEF Settled
<1>15. FileInv' /\ MemInv'
  <2>1. ASSUME NEW k \in Key, k # m.key, Good(file, k) PROVE Good(file, k)'
    <3>1. Settled(k, file.mk[k], written[k])
      BY <2>1 DEF Good
    <3>2. \/ Holds(db'[k], file.mk[k], written[k]) /\ CreatesOf(k)' = {}
          \/ /\ db'[k].mk = 0
             /\ \E c \in rpcs' : /\ CreatesOf(k)' = {c}
                                 /\ c.new = file.mk[k] /\ c.val = written[k]
      BY <1>14, <2>1, <3>1
    <3> QED
      BY <1>1, <2>1, <3>2 DEF Good, Settled
  <2>2. ASSUME NEW k \in Key, k # m.key, Good(mem, k) PROVE Good(mem, k)'
    <3>1. Settled(k, mem.mk[k], written[k])
      BY <2>2 DEF Good
    <3>2. \/ Holds(db'[k], mem.mk[k], written[k]) /\ CreatesOf(k)' = {}
          \/ /\ db'[k].mk = 0
             /\ \E c \in rpcs' : /\ CreatesOf(k)' = {c}
                                 /\ c.new = mem.mk[k] /\ c.val = written[k]
      BY <1>14, <2>2, <3>1
    <3> QED
      BY <1>1, <2>2, <3>2 DEF Good, Settled
  <2>3. FileInv'
    <3>1. mine => Loaded
      BY DEF mine, Loaded, ProgramInv
    <3> QED
      BY <1>1, <1>5, <1>8, <2>1, <3>1 DEF FileInv, Put
  <2>4. MemInv'
    <3>1. mine => InFlight
      BY DEF mine, InFlight
    <3> QED
      BY <1>1, <1>5, <1>8, <1>9, <2>2, <3>1 DEF MemInv, Put
  <2> QED
    BY <2>3, <2>4
<1>16. FlightInv'
  <2> SUFFICES ASSUME InFlight, K \in Put \ exposed PROVE FlightInv'
    BY <1>1, <1>5 DEF FlightInv
  <2>1. K \in Key
    BY DEF Put
  <2>2. CASE mine
    <3>1. ~entry.create /\ answer'.status = "ready"
      BY <1>1, <2>2 DEF mine, ProgramInv, InFlight
    <3> QED
      BY <1>1, <1>5, <3>1 DEF FlightInv
  <2>3. CASE ~mine
    <3>1. K # m.key /\ answer' = answer
      BY <1>1, <1>8, <2>3
    <3>2. db'[K] = db[K] /\ CreatesOf(K)' = CreatesOf(K) /\ CreatesOf(K) \subseteq rpcs'
      BY <1>3, <1>5, <1>12, <2>1, <3>1
    <3>3. ASSUME NEW v \in Value, Settled(K, entry.old, v) PROVE Settled(K, entry.old, v)'
      BY <1>1, <1>5, <3>2, <3>3 DEF Settled
    <3> QED
      BY <1>1, <1>5, <3>1, <3>2, <3>3 DEF FlightInv
  <2> QED
    BY <2>2, <2>3
<1>17. AnswerInv'
  <2> SUFFICES ASSUME pc = "wait", answer'.status = "ready", K \notin exposed
               PROVE  AnswerInv'
    BY <1>1, <1>5 DEF AnswerInv
  <2>0. InFlight /\ ~entry.create
    BY DEF InFlight, ProgramInv
  <2>1. CASE mine
    <3>1. m.key = K /\ m.new = entry.new /\ m.old = entry.old /\ m.val = req.val
          /\ (m.get <=> req.op = "GET") /\ K \in Put /\ K \in Key
      BY <1>2, <1>9, <1>10, <2>1
    <3>2. answer.status = "none"
      BY <1>1, <1>7, <1>6, <2>1 DEF AccessInv
    <3>3. PICK v \in Value : Settled(K, entry.old, v) /\ (req.op = "GET" => v = written[K])
      BY <2>0, <3>1, <3>2 DEF FlightInv
    <3>4. Holds(db[K], entry.old, v) /\ CreatesOf(K) = {}
      BY <1>10, <3>1, <3>3 DEF Settled
    <3>5. b = [mk |-> entry.new, val |-> Carry(written[K])]
      <4>1. req.op = "GET" => Carry(db[K].val) = Carry(written[K])
        BY <3>3, <3>4, CarryType DEF Holds
      <4>2. req.op = "GET" \/ req.op = "PUT"
        BY <2>0 DEF ProgramInv, Requests
      <4>3. req.op = "PUT" => req.val = written[K]
        BY <2>0 DEF ProgramInv
      <4> QED
        BY <3>1, <4>1, <4>2, <4>3
    <3>6. db'[K] = b /\ CreatesOf(K)' = {} /\ answer'.block = b
      BY <1>1, <1>3, <1>5, <1>12, <2>1, <3>1, <3>4
    <3> HIDE DEF b
    <3> QED
      BY <1>1, <1>5, <3>1, <3>5, <3>6 DEF AnswerInv, Settled, Holds
  <2>2. CASE ~mine
    <3>1. /\ K \in Put /\ K \in Key /\ K # m.key /\ answer' = answer
          /\ answer.block = [mk |-> entry.new, val |-> Carry(written[K])]
          /\ Settled(K, entry.new, written[K])
      BY <1>1, <1>8, <2>2 DEF AnswerInv, Put
    <3>2. db'[K] = db[K] /\ CreatesOf(K)' = CreatesOf(K) /\ CreatesOf(K) \subseteq rpcs'
      BY <1>3, <1>5, <1>12, <3>1
    <3>3. Settled(K, entry.new, written[K])'
      BY <1>1, <1>5, <3>1, <3>2 DEF Settled
    <3> QED
      BY <1>1, <1>5, <3>1, <3>3 DEF AnswerInv
  <2> QED
    BY <2>1, <2>2
<1> QED
  BY <1>4, <1>5, <1>11, <1>13, <1>15, <1>16, <1>17

\* An exit exposes the keys of what it loses; of the others the server has the block.
LEMMA ServerExitsInv ==
  ASSUME IndInv, ServerExits, quits' \in Nat
  PROVE  IndInv'
<1> USE DEF IndInv
<1>1. /\ rpcs' = {} /\ serverUp' = FALSE /\ exposed' = exposed \union {m.key : m \in rpcs}
      /\ conn' \in {conn, "dead"}
      /\ UNCHANGED <<file, program, ended, mem, pc, req, entry, session, commands, db,
                     restarts, nextKey, written>>
  BY DEF ServerExits
<1>2. /\ answer' \in {answer, [answer EXCEPT !.status = "broken"]}
      /\ pc # "wait" => answer' = answer
      /\ pc = "wait" => answer'.status # "none"
      /\ answer'.status = "ready" => answer' = answer
  BY DEF ServerExits, TypeInv
<1>3. exposed \subseteq exposed' /\ exposed' \subseteq Key
      /\ \A m \in rpcs : m.key \in exposed'
  BY <1>1 DEF TypeInv, Messages
<1>4. TypeInv'
  BY <1>1, <1>2, <1>3 DEF TypeInv
<1>5. ProgramInv' /\ FreshInv' /\ LinkInv' /\ Put' = Put /\ InFlight' = InFlight
      /\ Loaded' = Loaded /\ K' = K
  BY <1>1, <1>2, <1>3, <1>4, ServerKeeps
<1>6. AccessInv' /\ PutInv'
  BY <1>1, <1>5 DEF AccessInv, PutInv
<1>7. \A k : CreatesOf(k)' = {}
  BY <1>1 DEF CreatesOf
<1>8. \A k \in Key \ exposed' : CreatesOf(k) = {}
  BY <1>3 DEF CreatesOf
<1>9. FileInv' /\ MemInv'
  <2>1. ASSUME NEW k \in Key \ exposed', Good(file, k) PROVE Good(file, k)'
    BY <1>1, <1>7, <1>8, <2>1 DEF Good, Settled
  <2>2. ASSUME NEW k \in Key \ exposed', Good(mem, k) PROVE Good(mem, k)'
    BY <1>1, <1>7, <1>8, <2>2 DEF Good, Settled
  <2> QED
    BY <1>3, <1>5, <2>1, <2>2 DEF FileInv, MemInv, Put
<1>10. FlightInv'
  <2> SUFFICES ASSUME InFlight, K \in Put \ exposed' PROVE FlightInv'
    BY <1>5 DEF FlightInv
  <2>1. K \in Put \ exposed /\ K \in Key /\ CreatesOf(K) = {} /\ CreatesOf(K)' = {}
    BY <1>3, <1>7, <1>8 DEF Put
  <2>2. CASE pc = "wait"
    BY <1>1, <1>2, <1>5, <2>1, <2>2 DEF FlightInv
  <2>3. CASE pc # "wait"
    BY <1>1, <1>2, <1>5, <2>1, <2>3 DEF FlightInv, Settled
  <2> QED
    BY <2>2, <2>3
<1>11. AnswerInv'
  <2> SUFFICES ASSUME pc = "wait", answer'.status = "ready", K \notin exposed'
               PROVE  AnswerInv'
    BY <1>1, <1>5 DEF AnswerInv
  <2>1. /\ K \in Put /\ K \in Key /\ answer' = answer /\ CreatesOf(K) = {}
        /\ answer.block = [mk |-> entry.new, val |-> Carry(written[K])]
        /\ Settled(K, entry.new, written[K])
    BY <1>2, <1>3, <1>8 DEF AnswerInv, Put
  <2>2. CreatesOf(K)' = {}
    BY <1>7
  <2> QED
    BY <1>1, <1>5, <2>1, <2>2 DEF AnswerInv, Settled
<1> QED
  BY <1>4, <1>5, <1>6, <1>9, <1>10, <1>11

(***************************************************************************)
(* Every step, and the theorems                                            *)
(***************************************************************************)
\* A restart of the server, and stuttering, leave everything the invariant speaks of.
LEMMA RestartInv == IndInv /\ (ServerRestart \/ UNCHANGED vars) => IndInv'
<1> SUFFICES ASSUME IndInv, ServerRestart \/ UNCHANGED vars PROVE IndInv'
  OBVIOUS
<1> USE DEF IndInv
<1>1. UNCHANGED <<file, program, ended, mem, pc, req, entry, conn, answer, session,
                  commands, db, rpcs, quits, nextKey, written, exposed>>
  BY DEF ServerRestart, vars, clientVars, serverVars
<1>2. serverUp' \in BOOLEAN /\ restarts' \in Nat
  <2>1. serverUp \in BOOLEAN /\ restarts \in Nat
    BY DEF TypeInv
  <2>2. CASE ServerRestart
    BY <2>1, <2>2 DEF ServerRestart
  <2>3. CASE UNCHANGED vars
    BY <2>1, <2>3 DEF vars, serverVars
  <2> QED
    BY <2>2, <2>3
<1>3. TypeInv'
  BY <1>1, <1>2 DEF TypeInv
<1>4. ProgramInv' /\ FreshInv' /\ LinkInv' /\ Put' = Put /\ InFlight' = InFlight
      /\ Loaded' = Loaded /\ K' = K
  BY <1>1, <1>3, ServerKeeps
<1>5. Message("access")' = Message("access")
  BY <1>1, <1>4 DEF Message
<1>6. \A k : CreatesOf(k)' = CreatesOf(k)
  BY <1>1 DEF CreatesOf
<1>7. AccessInv' /\ PutInv'
  BY <1>1, <1>4, <1>5 DEF AccessInv, PutInv
<1>8. FileInv' /\ MemInv'
  <2>1. ASSUME NEW k, Good(file, k) PROVE Good(file, k)'
    BY <1>1, <1>6, <2>1 DEF Good, Settled
  <2>2. ASSUME NEW k, Good(mem, k) PROVE Good(mem, k)'
    BY <1>1, <1>6, <2>2 DEF Good, Settled
  <2> QED
    BY <1>1, <1>4, <2>1, <2>2 DEF FileInv, MemInv
<1>9. FlightInv'
  BY <1>1, <1>4, <1>6 DEF FlightInv, Settled
<1>10. AnswerInv'
  BY <1>1, <1>4, <1>6 DEF AnswerInv, Settled
<1> QED
  BY <1>3, <1>4, <1>7, <1>8, <1>9, <1>10

\* The invariant is inductive.
LEMMA NextInv == IndInv /\ [Next]_vars => IndInv'
<1> SUFFICES ASSUME IndInv, [Next]_vars PROVE IndInv'
  OBVIOUS
<1>1. CASE Start \/ Setup \/ Open
  BY <1>1, StartInv
<1>2. CASE Exit \/ Interrupt
  BY <1>2, ExitInv, InterruptInv
<1>3. CASE BenchmarkReturns \/ OpenThrows \/ ConstructThrows \/ Throws
  <2>1. EndUnsaved /\ pc \notin {"off", "setup"}
    BY <1>3 DEF BenchmarkReturns, OpenThrows, ConstructThrows, Throws
  <2> QED
    BY <2>1, EndUnsavedInv
<1>4. CASE Command \/ EndOfInput \/ AfterInput \/ Round
  BY <1>4, CommandInv
<1>5. CASE Construct \/ Record
  BY <1>5, ConstructInv, RecordInv
<1>6. CASE SendCreate \/ SendAccess \/ Receive
  BY <1>6, SendCreateInv, SendAccessInv, ReceiveInv
<1>7. quits \in Nat /\ quits + 1 \in Nat
  BY DEF IndInv, TypeInv
<1>8. CASE Serve
  <2>1. PICK m \in rpcs : ServeCreate(m) \/ ServeAccess(m) \/ Rip(m)
    BY <1>8 DEF Serve
  <2>2. CASE Rip(m)
    BY <1>7, <2>2, ServerExitsInv DEF Rip
  <2> QED
    BY <2>1, <2>2, ServeCreateInv, ServeAccessInv
<1>9. CASE ServerQuit
  BY <1>7, <1>9, ServerExitsInv DEF ServerQuit
<1>10. CASE ServerRestart \/ UNCHANGED vars
  BY <1>10, RestartInv
<1> QED
  BY <1>1, <1>2, <1>3, <1>4, <1>5, <1>6, <1>8, <1>9, <1>10 DEF Next, Run, Done

LEMMA IndInvHolds == Spec => []IndInv
BY InitInv, NextInv, PTL DEF Spec

\* A key that was put stays known, and its block under the saved master key with the value
\* last put or what the server carries of it, over any number of sessions of any of the
\* programs, Ctrl+C, exceptions and restarts of the server, unless one of them exposed it.
THEOREM KeysSurviveHolds == Spec => []KeysSurvive
<1>1. ASSUME NEW k, NEW g, Settled(k, g, written[k])
      PROVE  \/ Holds(db[k], g, written[k])
             \/ \E m \in rpcs : m.kind = "create" /\ m.key = k /\ m.new = g
                                /\ m.val = written[k]
  <2>1. CASE Holds(db[k], g, written[k])
    BY <2>1
  <2>2. ASSUME NEW c \in rpcs, CreatesOf(k) = {c}, c.new = g, c.val = written[k]
        PROVE  c.kind = "create" /\ c.key = k
    <3>1. c \in CreatesOf(k)
      BY <2>2
    <3> QED
      BY <3>1 DEF CreatesOf
  <2> QED
    BY <1>1, <2>1, <2>2 DEF Settled
<1>2. ASSUME NEW maps, NEW k, Good(maps, k) PROVE k \in maps.keys /\ Agrees(maps, k)
  BY <1>1, <1>2 DEF Good, Agrees
<1>3. IndInv => KeysSurvive
  <2> SUFFICES ASSUME IndInv PROVE KeysSurvive
    OBVIOUS
  <2>1. ASSUME pc = "off", NEW k \in Put \ exposed PROVE Good(file, k)
    BY <2>1 DEF IndInv, FileInv, Loaded
  <2>2. ASSUME pc = "prompt", NEW k \in Put \ exposed PROVE Good(mem, k)
    BY <2>2 DEF IndInv, ProgramInv, MemInv, Loaded, InFlight
  <2> QED
    BY <1>2, <2>1, <2>2 DEF KeysSurvive
<1> QED
  BY <1>3, IndInvHolds, PTL

\* A GET of a key that is not exposed prints what the server carries of the value last put,
\* whichever session put it: the value itself if it is short enough.
THEOREM PrintsCurrentHolds == Spec => []PrintsCurrent
<1>1. IndInv => PrintsCurrent
  <2> SUFFICES ASSUME IndInv, pc = "wait", req.op = "GET", answer.status = "ready",
                      K \notin exposed
               PROVE  ReadValueFromLabels(answer.block) = Carry(written[K])
    BY DEF PrintsCurrent
  <2> USE DEF IndInv
  <2>1. /\ K \in Put /\ InFlight
        /\ answer.block = [mk |-> entry.new, val |-> Carry(written[K])]
    BY DEF AnswerInv, InFlight
  <2>2. mem.mk[K] = entry.new /\ mem.size[K] = Size[written[K]]
    BY <2>1 DEF FreshInv, FlightInv
  <2>3. written[K] \in Value
    BY <2>1 DEF Put, TypeInv
  <2> QED
    BY <2>1, <2>2, <2>3, LblSessionAssumption DEF ReadValueFromLabels, Carry
<1> QED
  BY <1>1, IndInvHolds, PTL

\* The server exits by itself only over a key that is exposed or was never put, or over
\* an access that overtook the create of another session.
THEOREM RipExplainedHolds == Spec => RipExplained
<1> DEFINE Explained ==
      serverUp /\ ~serverUp' /\ quits' = quits =>
        \E m \in rpcs : /\ m.kind = "access"
                        /\ \/ m.key \in exposed \union (Key \ Put)
                           \/ \E c \in rpcs : c.kind = "create" /\ c.key = m.key
                                              /\ c.session # m.session
<1>1. ASSUME IndInv, [Next]_vars PROVE [Explained]_vars
  <2> SUFFICES ASSUME Next, serverUp, ~serverUp', quits' = quits
               PROVE  \E m \in rpcs :
                        /\ m.kind = "access"
                        /\ \/ m.key \in exposed \union (Key \ Put)
                           \/ \E c \in rpcs : c.kind = "create" /\ c.key = m.key
                                              /\ c.session # m.session
    BY <1>1
  <2>1. Serve
    <3>1. ASSUME ServerQuit PROVE FALSE
      BY <1>1, <3>1 DEF ServerQuit, IndInv, TypeInv
    <3>2. ASSUME UNCHANGED serverUp PROVE FALSE
      BY <3>2
    <3>3. ASSUME EndUnsaved PROVE FALSE
      BY <3>2, <3>3 DEF EndUnsaved, End, serverVars
    <3>4. ASSUME NEW r, Read(r) PROVE FALSE
      BY <3>2, <3>4 DEF Read, serverVars
    <3>5. ASSUME Run PROVE FALSE
      BY <3>2, <3>3, <3>5
      DEF Run, Setup, Open, OpenThrows, Construct, ConstructThrows, Record, SendCreate,
          SendAccess, Throws, Receive, serverVars
    <3>6. ASSUME Start \/ Exit \/ Interrupt \/ BenchmarkReturns PROVE FALSE
      BY <3>2, <3>3, <3>6 DEF Start, Exit, Interrupt, BenchmarkReturns, End, serverVars
    <3>7. ASSUME Command \/ EndOfInput \/ AfterInput \/ Round PROVE FALSE
      BY <3>4, <3>7 DEF Command, EndOfInput, AfterInput, Round
    <3>8. ASSUME ServerRestart \/ Done PROVE FALSE
      BY <3>2, <3>8 DEF ServerRestart, Done, vars, serverVars
    <3> QED
      BY <3>1, <3>5, <3>6, <3>7, <3>8 DEF Next
  <2>2. PICK m \in rpcs : InTurn(m) /\ (ServeCreate(m) \/ ServeAccess(m) \/ Rip(m))
    BY <2>1 DEF Serve
  <2>3. m.kind = "access" /\ ~Decryptable(m)
    BY <2>2 DEF ServeCreate, ServeAccess, Rip
  <2>4. CASE m.key \in exposed \union (Key \ Put)
    BY <2>3, <2>4
  <2>5. CASE m.key \in Put \ exposed
    <3> USE <1>1 DEF IndInv
    <3>1. pc = "wait" /\ m = Message("access")
      BY <2>3, <2>5 DEF AccessInv
    <3>2. m.key = K /\ m.old = entry.old /\ m.new = entry.new /\ m.session = session
      BY <3>1 DEF Message
    <3>3. answer.status = "none" /\ InFlight /\ ~entry.create
      BY <2>3, <3>1, <3>2 DEF AccessInv, InFlight, ProgramInv
    <3>4. PICK v \in Value : entry.old # 0 /\ Settled(K, entry.old, v)
      BY <2>5, <3>2, <3>3 DEF FlightInv
    <3>5. ~Holds(db[K], entry.old, v)
      BY <2>3, <3>2, <3>4 DEF Decryptable, Holds
    <3>6. PICK c \in rpcs : CreatesOf(K) = {c} /\ c.new = entry.old
      BY <3>4, <3>5 DEF Settled
    <3>7. c \in CreatesOf(K)
      BY <3>6
    <3>8. c.kind = "create" /\ c.key = m.key
      BY <3>2, <3>7 DEF CreatesOf
    <3>9. c.new < m.new
      BY <3>2, <3>3, <3>6 DEF FreshInv
    <3>10. c.session # m.session
      BY <2>2, <3>9 DEF InTurn, TypeInv, Messages
    <3> QED
      BY <2>3, <3>8, <3>10
  <2>6. m.key \in Key
    BY <1>1 DEF IndInv, TypeInv, Messages
  <2> QED
    BY <2>4, <2>5, <2>6
<1> QED
  BY <1>1, IndInvHolds, PTL DEF Spec, RipExplained
=============================================================================
