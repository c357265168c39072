----------------------------- MODULE LblProxySave -----------------------------
(***************************************************************************)
(* The end of the process that LblProxy models, and its next start: main   *)
(* saves the shared maps to DATA_FILE, one after the other, while the      *)
(* threads go on (Ctrl+C) or after they are joined (the end of the         *)
(* benchmark); the process exits in the midst of whatever they do; and     *)
(* OpScureSetup loads what was saved.  The server still works on what it   *)
(* was sent.  (The signal handler may also run on one of the threads, which *)
(* then takes no step of its own: one of the interleavings below.)         *)
(***************************************************************************)
EXTENDS LblProxy

CONSTANT MAX_STOPS   \* bound: how often the process ends

ASSUME LblProxySaveAssumption == MAX_STOPS \in Nat

VARIABLES
  file,      \* DATA_FILE
  main,      \* the main thread: it serves, saves one of the maps, or exits
  stops,
  orphans,   \* accesses of a process that is gone
  exposed    \* history: keys with an operation under way between a save and the
             \* exit, or with two one-way creates under way at once

saveVars == <<file, main, stops, orphans, exposed>>

allVars == <<vars, saveVars>>

NoMaps == [keySet |-> {}, valueSizes |-> [k \in Key |-> 0], masterKeys |-> [k \in Key |-> 0]]

SaveInit ==
  /\ Init
  /\ file = [keySet |-> keySet, valueSizes |-> valueSizes, masterKeys |-> masterKeys]
  /\ main = "serve" /\ stops = 0 /\ orphans = {} /\ exposed = {}

Saving == main \in {"sizes", "keys", "exit"}

\* The keys some operation has begun on and the server has not finished with.
UnderWay ==
  {k \in Key : \E t \in Thread : Holds(t, k)}
    \union {c.key : c \in creates} \union {o.key : o \in orphans}

\* Creates of one key, by threads that all found it absent, have no order.
Unordered == {c.key : c \in {d \in creates : \E e \in creates \ {d} : e.key = d.key}}

\* Threads and server take their steps; without a process only the server does.
Meanwhile ==
  /\ main = "down" => UNCHANGED threadVars
  /\ orphans' = IF serverUp' THEN orphans ELSE {}
  /\ exposed' = exposed \union Unordered' \union IF Saving THEN UnderWay' ELSE {}
  /\ UNCHANGED <<file, main, stops>>

(***************************************************************************)
(* OpScureCleanup, delete pool, exit                                       *)
(***************************************************************************)
\* The file is emptied and keySet written; then valueSizes; then masterKeys.
SaveKeySet ==
  /\ main = "serve" /\ ~Crashed /\ stops < MAX_STOPS
  /\ stops' = stops + 1
  /\ file' = [NoMaps EXCEPT !.keySet = keySet]
  /\ main' = "sizes"
  /\ exposed' = exposed \union UnderWay
  /\ UNCHANGED <<vars, orphans>>

SaveValueSizes ==
  /\ main = "sizes" /\ ~Crashed
  /\ file' = [file EXCEPT !.valueSizes = valueSizes]
  /\ main' = "keys"
  /\ UNCHANGED <<vars, stops, orphans, exposed>>

\* Mutant: the master keys are not saved.
MasterKeysUnsaved == file

MasterKeysSaved == [file EXCEPT !.masterKeys = masterKeys]

SaveMasterKeys ==
  /\ main = "keys" /\ ~Crashed
  /\ file' = MasterKeysSaved
  /\ main' = "exit"
  /\ UNCHANGED <<vars, stops, orphans, exposed>>

\* The map that is being written out, or that Ctrl+C would write first.
BeingSaved ==
  CASE main = "serve" /\ stops < MAX_STOPS -> {"keySet"}
    [] main = "sizes" -> {"valueSizes"}
    [] main = "keys" -> {"masterKeys"}
    [] OTHER -> {}

\* A map that grows while it is written out may end the process at once.
SaveCrash ==
  /\ ~Crashed
  /\ \E t \in Thread : Grows(t) \cap BeingSaved # {}
  /\ file' = IF main = "serve" THEN NoMaps ELSE file
  /\ pc' = [t \in Thread |-> "crashed"]
  /\ UNCHANGED <<proxyVars, req, found, entry, ret, conn, left, serverVars, nextKey,
                 written, main, stops, orphans, exposed>>

\* The access of thread t that the server has received, without its thread.
Orphan(t) ==
  [key |-> K(t), old |-> entry[t].old, new |-> entry[t].new, get |-> IsGet(t),
   val |-> req[t].val, block |-> IF job[t] = "sent" THEN NoBlock ELSE snap[t]]

\* delete pool, which may take a while (LblPool), and exit: every thread is gone,
\* whatever it was doing (using the deleted pool, too), and so are the maps.
Exit ==
  /\ main = "exit" /\ ~Crashed
  /\ main' = "down"
  /\ orphans' = orphans \union {Orphan(t) : t \in {u \in Thread : job[u] \in {"sent", "decrypted"}}}
  /\ pc' = [t \in Thread |-> "idle"]
  /\ req' = [t \in Thread |-> NoRequest]
  /\ found' = [t \in Thread |-> FALSE]
  /\ entry' = [t \in Thread |-> NoEntry]
  /\ ret' = [t \in Thread |-> Empty]
  /\ conn' = [t \in Thread |-> "closed"]
  /\ job' = [t \in Thread |-> "none"]
  /\ snap' = [t \in Thread |-> NoBlock]
  /\ keySet' = {} /\ valueSizes' = NoMaps.valueSizes /\ masterKeys' = NoMaps.masterKeys
  /\ locks' = [k \in Key |-> "absent"]
  /\ accesses' = 0 /\ aborted' = 0
  /\ UNCHANGED <<left, db, creates, serverUp, quits, restarts, nextKey, written, file,
                 stops, exposed>>

\* The next process: OpScureSetup.
Setup ==
  /\ main = "down"
  /\ main' = "serve"
  /\ keySet' = file.keySet /\ valueSizes' = file.valueSizes /\ masterKeys' = file.masterKeys
  /\ locks' = [k \in Key |-> IF k \in NumberedKey THEN "free" ELSE "absent"]
  /\ UNCHANGED <<accesses, aborted, threadVars, serverVars, nextKey, written, file, stops,
                 orphans, exposed>>

(***************************************************************************)
(* The server and what it was sent by a process that is gone               *)
(***************************************************************************)
OrphanDecrypt(o) ==
  /\ serverUp /\ o.block = NoBlock /\ db[o.key].mk = o.old
  /\ orphans' = (orphans \ {o}) \union
       {[o EXCEPT !.block = [mk |-> o.new,
                             val |-> Carry(IF o.get THEN db[o.key].val ELSE o.val)]]}
  /\ UNCHANGED <<vars, file, main, stops, exposed>>

OrphanStore(o) ==
  /\ serverUp /\ o.block # NoBlock
  /\ db' = [db EXCEPT ![o.key] = o.block]
  /\ orphans' = orphans \ {o}
  /\ UNCHANGED <<proxyVars, threadVars, job, snap, creates, serverUp, quits, restarts,
                 nextKey, written, file, main, stops, exposed>>

OrphanRip(o) ==
  /\ serverUp /\ o.block = NoBlock /\ db[o.key].mk # o.old
  /\ ServerExits
  /\ orphans' = {}
  /\ UNCHANGED <<quits, file, main, stops, exposed>>

(***************************************************************************)
(* The specification                                                       *)
(***************************************************************************)
ServeOrphan == \E o \in orphans : OrphanDecrypt(o) \/ OrphanStore(o) \/ OrphanRip(o)

SaveNext ==
  \/ Next /\ Meanwhile
  \/ SaveKeySet \/ SaveValueSizes \/ SaveMasterKeys \/ SaveCrash \/ Exit \/ Setup
  \/ ServeOrphan

SaveSpec == SaveInit /\ [][SaveNext]_allVars

(***************************************************************************)
(* Properties                                                              *)
(***************************************************************************)
\* What a process leaves in DATA_FILE opens the server's blocks: between processes
\* the file has, for every key on which no operation was under way from the first
\* byte saved to the exit and whose creates came one at a time, the master key and the
\* size of the value last put.
SavedOpens ==
  main = "down" /\ serverUp /\ restarts = 0 =>
    \A k \in Key \ exposed :
      /\ file.masterKeys[k] = db[k].mk
      /\ k \in file.keySet <=> written[k] # NoValue
      /\ k \in file.keySet => /\ file.valueSizes[k] = Size[written[k]]
                              /\ db[k].val \in {written[k], Carry(written[k])}

\* Until it is quit and restarted, which may lose creates, the server exits by itself
\* ("RIP") only over a key that a save exposed, or whose one-way create is still on its
\* way: in particular never in a run that was not interrupted and whose keys were loaded.
RipOnlyExposed ==
  \A t \in Thread :
    restarts = 0 /\ AtServer(t) /\ ~Decryptable(t, db[K(t)]) =>
      \/ K(t) \in exposed
      \/ \E c \in creates : c.key = K(t)
=============================================================================
