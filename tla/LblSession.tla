------------------------------ MODULE LblSession ------------------------------
(***************************************************************************)
(* ORTOA-LBL's programs with one connection over several sessions: the CLI *)
(* client, the sequential benchmark and the encryption estimate share      *)
(* DATA_FILE, from which they load their maps and to which they save them. *)
(* A session ends by EXIT, Ctrl+C at any moment, a TException, an uncaught *)
(* exception or the end of the benchmark; the server still serves what it  *)
(* had sent.                                                               *)
(*                                                                         *)
(* Blocks are abstracted as in LblProxy: an access carries over the values *)
(* that fit the prefix of the block its tasks cover and garbles the others. *)
(* A master key is the number of its generation, 0 if there is none.       *)
(***************************************************************************)
EXTENDS LblLabels

CONSTANTS
  Key, Value,
  Size,               \* Size[v]: length of v in bytes
  VALUE_SIZE,         \* bytes of a block
  SERVER_NUM_THREADS, \* tasks that decrypt a block
  SESSIONS,           \* bound: how often the client is started
  COMMANDS,           \* bound: commands in all sessions
  MAX_QUITS, MAX_RESTARTS,   \* bounds: of the server
  NoKey, EmptyValue,  \* what std::cin >> leaves in a string at the end of input
  Spaces,             \* the padding of an empty value, as long as a block
  NoValue, Garbled    \* no block; an undecodable value

ASSUME LblSessionAssumption ==
  /\ Size \in [Value -> Nat]
  /\ VALUE_SIZE \in Nat \ {0} /\ SERVER_NUM_THREADS \in Nat \ {0}
  /\ SESSIONS \in Nat /\ COMMANDS \in Nat /\ MAX_QUITS \in Nat /\ MAX_RESTARTS \in Nat
  /\ NoKey \in Key /\ {EmptyValue, Spaces} \subseteq Value
  /\ Size[EmptyValue] = 0 /\ Size[Spaces] = VALUE_SIZE
  /\ NoValue \notin Value /\ Garbled \notin Value /\ NoValue # Garbled

VARIABLES
  file,       \* DATA_FILE
  program,    \* "client", "benchmark" or "estimate"
  ended,      \* the client's standard input has ended
  mem,        \* keySet, valueSizes and masterKeys of the running program
  pc, req, entry, conn,
  answer,     \* of the access the client waits for
  session, commands,
  db, rpcs,   \* the server's blocks; what was sent and not yet served
  serverUp, quits, restarts,
  nextKey,
  written,    \* history: the value last put
  exposed     \* history: keys whose operation or loading was cut short, or lost

clientVars == <<program, ended, mem, pc, req, entry, conn, session, commands>>
serverVars == <<db, rpcs, serverUp, quits, restarts>>
vars == <<file, clientVars, answer, serverVars, nextKey, written, exposed>>

EmptyMaps == [keys |-> {}, size |-> [k \in Key |-> 0], mk |-> [k \in Key |-> 0]]

Requests == [op : {"GET"}, key : Key, val : {NoValue}]
              \union [op : {"PUT"}, key : Key, val : Value]

NoRequest == [op |-> "none", key |-> CHOOSE k \in Key : TRUE, val |-> NoValue]

NoAnswer == [status |-> "none", block |-> [mk |-> 0, val |-> NoValue]]

K == req.key

NoEntry == [create |-> FALSE, old |-> 0, new |-> 0]

Init ==
  /\ file = EmptyMaps /\ mem = EmptyMaps
  /\ program = "client" /\ ended = FALSE
  /\ pc = "off" /\ req = NoRequest /\ entry = NoEntry
  /\ conn = "closed" /\ answer = NoAnswer
  /\ session = 0 /\ commands = 0
  /\ db = [k \in Key |-> [mk |-> 0, val |-> NoValue]]
  /\ rpcs = {} /\ serverUp = TRUE /\ quits = 0 /\ restarts = 0
  /\ nextKey = 1
  /\ written = [k \in Key |-> NoValue]
  /\ exposed = {}

(***************************************************************************)
(* Sessions                                                                *)
(***************************************************************************)
\* A program is started.  The estimate loads nothing (its OpScureSetup is commented
\* out) and goes to its first entry.
Start ==
  /\ pc = "off" /\ session < SESSIONS
  /\ session' = session + 1
  /\ program' \in {"client", "benchmark", "estimate"}
  /\ pc' = IF program' = "estimate" THEN "construct" ELSE "setup"
  /\ UNCHANGED <<file, ended, mem, req, entry, conn, answer, commands, serverVars,
                 nextKey, written, exposed>>

\* OpScureSetup loads what was saved.
Setup ==
  /\ pc = "setup"
  /\ mem' = file
  /\ pc' = "open"
  /\ UNCHANGED <<file, program, ended, req, entry, conn, answer, session, commands,
                 serverVars, nextKey, written, exposed>>

\* transport->open().
Open ==
  /\ pc = "open" /\ serverUp
  /\ pc' = "prompt" /\ conn' = "open"
  /\ UNCHANGED <<file, program, ended, mem, req, entry, answer, session, commands,
                 serverVars, nextKey, written, exposed>>

\* The process ends, and its memory with it.
End ==
  /\ pc' = "off" /\ conn' = "closed"
  /\ req' = NoRequest /\ entry' = NoEntry /\ answer' = NoAnswer
  /\ mem' = EmptyMaps /\ program' = "client" /\ ended' = FALSE
  /\ UNCHANGED <<session, commands, serverVars, nextKey, written>>

\* Mutant: the sizes are not saved.
SaveNoSizes == file' = [mem EXCEPT !.size = file.size]

\* OpScureCleanup.
Save == file' = mem

Exit ==
  /\ pc = "prompt" /\ program = "client" /\ ~ended
  /\ Save /\ End
  /\ UNCHANGED exposed

\* What Ctrl+C can leave in the file: all of the memory, or what OpScureSetup has
\* loaded so far (keySet, then valueSizes, then masterKeys).  The benchmark installs
\* its handler after OpScureSetup; before, it is killed and saves nothing.
InMemory ==
  IF pc # "setup" THEN {mem}
  ELSE IF program = "benchmark" THEN {file}
  ELSE {EmptyMaps, file, [EmptyMaps EXCEPT !.keys = file.keys],
        [EmptyMaps EXCEPT !.keys = file.keys, !.size = file.size]}

\* The keys whose operation, or whose loading, Ctrl+C cuts short; the estimate has
\* loaded none.
CutShort ==
  CASE (pc = "setup" /\ program = "client") \/ program = "estimate" -> Key
    [] pc \in {"record", "send", "wait"} -> {K}
    [] OTHER -> {}

\* Ctrl+C: signal_callback_handler saves the maps as they are at that moment.
Interrupt ==
  /\ pc # "off"
  /\ file' \in InMemory /\ End
  /\ exposed' = exposed \union CutShort

\* The session ends and saves nothing: the blocks it re-encrypted are lost to the file.
EndUnsaved ==
  /\ UNCHANGED file /\ End
  /\ exposed' = exposed \union
       IF program = "estimate" THEN {} ELSE {k \in Key : mem.mk[k] # file.mk[k]}

\* The benchmark's loop is over: main returns without OpScureCleanup.
BenchmarkReturns ==
  /\ pc = "prompt" /\ program = "benchmark"
  /\ EndUnsaved

\* transport->open() throws.
OpenThrows ==
  /\ pc = "open" /\ ~serverUp
  /\ EndUnsaved

(***************************************************************************)
(* Commands                                                                *)
(***************************************************************************)
\* A command was read; the client refuses a GET of an unknown key.
Read(r) ==
  /\ pc = "prompt" /\ commands < COMMANDS
  /\ commands' = commands + 1
  /\ \/ /\ r.op = "PUT" \/ r.key \in mem.keys \/ program = "benchmark"
        /\ pc' = "construct" /\ req' = r
     \/ /\ r.op = "GET" /\ r.key \notin mem.keys /\ program = "client"
        /\ UNCHANGED <<pc, req>>
  /\ UNCHANGED <<file, program, mem, entry, conn, answer, session, serverVars,
                 nextKey, written, exposed>>

GetOf(k) == [op |-> "GET", key |-> k, val |-> NoValue]

\* parseOperation on input that goes on.
Command ==
  /\ program = "client" /\ ~ended
  /\ \E r \in Requests : r.key # NoKey /\ r.val # EmptyValue /\ Read(r)
  /\ UNCHANGED ended

\* The input ends within a command: a PUT may lack its value, or also its key ...
EndOfInput ==
  /\ program = "client" /\ ~ended
  /\ \/ \E k \in Key : Read([op |-> "PUT", key |-> k, val |-> EmptyValue])
     \/ Read(GetOf(NoKey))
  /\ ended' = TRUE

\* ... and from then on every command is a GET of the empty key.
AfterInput ==
  /\ program = "client" /\ ended
  /\ Read(GetOf(NoKey))
  /\ UNCHANGED ended

\* The benchmark's next round: a GET of some key, known or not; its PUT follows.
Round ==
  /\ program = "benchmark"
  /\ \E k \in Key \ {NoKey} : Read(GetOf(k))
  /\ UNCHANGED ended

TooLong == req.op = "PUT" /\ Size[req.val] > VALUE_SIZE

\* constructCreateEntry, constructGetEntry or constructPutEntry.
Construct ==
  /\ pc = "construct" /\ program # "estimate" /\ ~TooLong
  /\ entry' = [create |-> program = "client" /\ K \notin mem.keys,
                old |-> mem.mk[K], new |-> nextKey]
  /\ mem' = [mem EXCEPT !.mk[K] = nextKey]
  /\ nextKey' = nextKey + 1
  /\ written' = IF req.op = "GET" THEN written ELSE [written EXCEPT ![K] = req.val]
  /\ pc' = IF req.op = "GET" THEN "send" ELSE "record"
  /\ UNCHANGED <<file, program, ended, req, conn, answer, session, commands,
                 serverVars, exposed>>

\* padToLen throws what nobody catches; or there is no master key to be found, and the
\* tasks' concurrent masterKeys[key] insertions may end the process; or the process is
\* the estimate, which has no pool and ends on pool->submit.
ConstructThrows ==
  /\ pc = "construct"
  /\ \/ TooLong \/ program = "estimate"
     \/ mem.mk[K] = 0 /\ (K \in mem.keys \/ program = "benchmark")
  /\ EndUnsaved

\* Mutant: a PUT of a known key does not record its size.
RecordKeepsSize ==
  /\ pc = "record"
  /\ mem' = [mem EXCEPT !.size[K] = IF K \in mem.keys THEN @ ELSE Size[req.val],
                        !.keys = @ \union {K}]
  /\ pc' = "send"
  /\ UNCHANGED <<file, program, ended, req, entry, conn, answer, session, commands,
                 serverVars, nextKey, written, exposed>>

\* A PUT records its size and a create the key.
Record ==
  /\ pc = "record"
  /\ mem' = [mem EXCEPT !.size[K] = Size[req.val],
                        !.keys = IF entry.create THEN @ \union {K} ELSE @]
  /\ pc' = "send"
  /\ UNCHANGED <<file, program, ended, req, entry, conn, answer, session, commands,
                 serverVars, nextKey, written, exposed>>

\* What goes over the connection.
Message(kind) ==
  [session |-> session, kind |-> kind, key |-> K, old |-> entry.old, new |-> entry.new,
   get |-> req.op = "GET", val |-> req.val]

\* client.create is one-way; on a broken connection its bytes may vanish unnoticed.
SendCreate ==
  /\ pc = "send" /\ entry.create
  /\ rpcs' = IF conn = "open" THEN rpcs \union {Message("create")} ELSE rpcs
  /\ exposed' = IF conn = "open" THEN exposed ELSE exposed \union {K}
  /\ pc' = "prompt" /\ req' = NoRequest
  /\ UNCHANGED <<file, program, ended, mem, entry, conn, answer, session, commands,
                 db, serverUp, quits, restarts, nextKey, written>>

SendAccess ==
  /\ pc = "send" /\ ~entry.create /\ conn = "open"
  /\ rpcs' = rpcs \union {Message("access")}
  /\ pc' = "wait"
  /\ UNCHANGED <<file, program, ended, mem, req, entry, conn, answer, session,
                 commands, db, serverUp, quits, restarts, nextKey, written, exposed>>

\* The connection is gone: TException, "ERROR", and main returns.
Throws ==
  /\ (pc = "send" /\ conn = "dead") \/ (pc = "wait" /\ answer.status = "broken")
  /\ EndUnsaved

\* readValueFromLabels.
ReadValueFromLabels(b) ==
  IF b.mk = mem.mk[K] /\ b.val \in Value /\ Size[b.val] = mem.size[K] THEN b.val
  ELSE Garbled

\* The labels arrive; a GET of the client prints the value, and the benchmark follows
\* one with a PUT of the empty string, whose size it records as VALUE_SIZE.
Receive ==
  /\ pc = "wait" /\ answer.status = "ready"
  /\ IF program = "benchmark" /\ req.op = "GET"
     THEN pc' = "construct" /\ req' = [op |-> "PUT", key |-> K, val |-> Spaces]
     ELSE pc' = "prompt" /\ req' = NoRequest
  /\ answer' = NoAnswer
  /\ UNCHANGED <<file, program, ended, mem, entry, conn, session, commands,
                 serverVars, nextKey, written, exposed>>

(***************************************************************************)
(* The server                                                              *)
(***************************************************************************)
\* Mutant: what one connection carried is served in any order.
InTurnAny(m) == TRUE

\* A connection is served in order; connections of different sessions are not.
InTurn(m) == \A n \in rpcs : n.session = m.session => m.new <= n.new

ServeCreate(m) ==
  /\ m.kind = "create"
  /\ db' = [db EXCEPT ![m.key] = [mk |-> m.new, val |-> m.val]]
  /\ rpcs' = rpcs \ {m}
  /\ UNCHANGED <<file, clientVars, answer, serverUp, quits, restarts, nextKey,
                 written, exposed>>

\* Every label of the block opens a box: the entry was made with its master key, and
\* with one that exists.
Decryptable(m) == m.old # 0 /\ db[m.key].mk = m.old

\* decryptPortion carries over only a prefix of the block (see LblAccess).
Carried == CarriedBytes(VALUE_SIZE, SERVER_NUM_THREADS)

Carry(v) == IF v \in Value /\ Size[v] <= Carried THEN v ELSE Garbled

\* The answer reaches a client that still waits for it.
ServeAccess(m) ==
  /\ m.kind = "access" /\ Decryptable(m)
  /\ LET b == [mk |-> m.new, val |-> Carry(IF m.get THEN db[m.key].val ELSE m.val)] IN
     /\ db' = [db EXCEPT ![m.key] = b]
     /\ answer' = IF pc = "wait" /\ m.session = session
                  THEN [status |-> "ready", block |-> b] ELSE answer
  /\ rpcs' = rpcs \ {m}
  /\ UNCHANGED <<file, clientVars, serverUp, quits, restarts, nextKey, written,
                 exposed>>

\* Mutant: a client that waits is not told that the connection is gone.
ServerExitsSilently ==
  /\ serverUp' = FALSE
  /\ rpcs' = {}
  /\ conn' = IF conn = "open" THEN "dead" ELSE conn
  /\ exposed' = exposed \union {m.key : m \in rpcs}
  /\ UNCHANGED <<file, program, ended, mem, pc, req, entry, answer, session, commands,
                 db, restarts, nextKey, written>>

\* The process exits and what it had not served is lost.
ServerExits ==
  /\ serverUp' = FALSE
  /\ rpcs' = {}
  /\ conn' = IF conn = "open" THEN "dead" ELSE conn
  /\ answer' \in IF pc # "wait" THEN {answer}
                 ELSE {[answer EXCEPT !.status = "broken"]} \union
                      (IF answer.status = "ready" THEN {answer} ELSE {})
  /\ exposed' = exposed \union {m.key : m \in rpcs}
  /\ UNCHANGED <<file, program, ended, mem, pc, req, entry, session, commands, db,
                 restarts, nextKey, written>>

\* "RIP", exit(1).
Rip(m) ==
  /\ m.kind = "access" /\ ~Decryptable(m)
  /\ ServerExits
  /\ UNCHANGED quits

Serve == serverUp /\ \E m \in rpcs : InTurn(m) /\ (ServeCreate(m) \/ ServeAccess(m) \/ Rip(m))

ServerQuit ==
  /\ serverUp /\ quits < MAX_QUITS
  /\ quits' = quits + 1
  /\ ServerExits

ServerRestart ==
  /\ ~serverUp /\ restarts < MAX_RESTARTS
  /\ serverUp' = TRUE /\ restarts' = restarts + 1
  /\ UNCHANGED <<file, clientVars, answer, db, rpcs, quits, nextKey, written, exposed>>

(***************************************************************************)
(* The specification                                                       *)
(***************************************************************************)
Run ==
  \/ Setup \/ Open \/ OpenThrows
  \/ Construct \/ ConstructThrows \/ Record \/ SendCreate \/ SendAccess \/ Throws \/ Receive

Done == pc = "off" /\ session = SESSIONS /\ UNCHANGED vars

Next ==
  \/ Start \/ Exit \/ Interrupt \/ BenchmarkReturns
  \/ Command \/ EndOfInput \/ AfterInput \/ Round \/ Run
  \/ Serve \/ ServerQuit \/ ServerRestart \/ Done

\* The client and the server run; nobody has to type, interrupt or restart anything.
Spec == Init /\ [][Next]_vars /\ WF_vars(Run) /\ WF_vars(Serve)

(***************************************************************************)
(* Properties                                                              *)
(***************************************************************************)
\* A block of v, as its create stored it or as an access left it.
Holds(b, mk, v) == b.mk = mk /\ b.val \in {v, Carry(v)}

\* The maps agree with the server on a key: the block is there, or its create is.
Agrees(maps, k) ==
  /\ maps.size[k] = Size[written[k]]
  /\ \/ Holds(db[k], maps.mk[k], written[k])
     \/ \E m \in rpcs : m.kind = "create" /\ m.key = k /\ m.new = maps.mk[k]
                        /\ m.val = written[k]

Put == {k \in Key : written[k] # NoValue}

\* Between sessions, and at the prompt, every key ever put is known, and its block is
\* under the saved master key with the value last put, or with what the server carries
\* of it, through EXIT, Ctrl+C and server restarts; unless one of them cut an operation
\* on it or its loading short, or its session ended in an exception that saved nothing.
KeysSurvive ==
  /\ pc = "off" => \A k \in Put \ exposed : k \in file.keys /\ Agrees(file, k)
  /\ pc = "prompt" => \A k \in Put \ exposed : k \in mem.keys /\ Agrees(mem, k)

\* A GET prints the value last put, in whatever session that was, if the server carries
\* all of it, and a garbled one otherwise.
PrintsCurrent ==
  pc = "wait" /\ req.op = "GET" /\ answer.status = "ready" /\ K \notin exposed =>
    ReadValueFromLabels(answer.block) = Carry(written[K])

\* The server exits by itself only over a key whose operation was cut short or not
\* saved, whose create an earlier session had sent and the server had not served, or
\* that the benchmark reads although nobody ever put it.
RipExplained ==
  [][serverUp /\ ~serverUp' /\ quits' = quits =>
       \E m \in rpcs : /\ m.kind = "access"
                       /\ \/ m.key \in exposed \union (Key \ Put)
                          \/ \E c \in rpcs : c.kind = "create" /\ c.key = m.key
                                             /\ c.session # m.session]_vars

\* The client never waits for ever: it is answered or thrown out.
WaitEnds == pc = "wait" ~> pc # "wait"
=============================================================================
