------------------------------ MODULE TeeBench ------------------------------
(***************************************************************************)
(* The Python benchmark of ORTOA-TEE (extras/ortoa/benchmark): a list of   *)
(* experiments is given data, expanded into jobs, one per combination of   *)
(* client flags, and the jobs are run in turn against one Redis database,  *)
(* each with a host process of its own.  At the end the results of all     *)
(* jobs are parsed into the statistics.                                    *)
(*                                                                         *)
(* An experiment has an output directory, a sequence of flags and its      *)
(* data: "generated" (a generator with at least one row), "unseeded" (one  *)
(* with none, and operations), "given" (two files), "dangling" (the seed   *)
(* file does not exist) or "incomplete" (a path left out).  A flag has a   *)
(* name and either one value (kind "int" or "bool") or a range.            *)
(***************************************************************************)
EXTENDS Integers, SequencesExt, FiniteSetsExt

CONSTANTS
  Configs,    \* sequences of experiments, as collect_experiments may return them
  Dirs        \* output directories

\* pydantic checks the types.  Not modelled: multiplication of or by a negative number.
Flag ==
  {f \in [name : {"nthreads", "client_logging_enabled"},
          kind : {"int", "bool", "increment", "multiply"}, minimum : Int, maximum : Int, by : Int] :
     /\ f.kind = "bool" <=> f.name = "client_logging_enabled"
     /\ f.kind = "multiply" => f.minimum >= 0 /\ f.by >= 0}

Experiment ==
  [dir : Dirs, flags : Seq(Flag),
   data : {"generated", "unseeded", "given", "dangling", "incomplete"}]

ASSUME ConfigsAssumption == Configs \subseteq Seq(Experiment)

VARIABLES
  phase,      \* where benchmark() is
  at,         \* the experiment or job it works on
  exps,       \* the experiments
  files,      \* files[d]: the experiment whose data is in d/generated_data, 0 if none
  jobs,       \* the jobs, in the order of make_jobs
  dirs,       \* the combination directories that exist
  host,       \* the host process of the current job: "none", "up" or "dead"
  db,         \* whose data Redis holds: an experiment, Nothing or Leftover
  results,    \* results[j]: what parsing the results file of job j would find, and whose
              \* data was in the database when its operations began
  rows        \* rows[j]: the job whose row of the statistics holds the result of job j

vars == <<phase, at, exps, files, jobs, dirs, host, db, results, rows>>

Nothing == 0
Leftover == -1

-----------------------------------------------------------------------------
(* Ranges, flags and their combinations.                                   *)

AtLeast(n) == {i \in Int : i >= n}

\* Mutant: the last value of a range is left out.
GenerateValuesOpen(p) ==
  LET next(i) == IF p.kind = "increment" THEN i + p.by ELSE i * p.by
      from[i \in AtLeast(p.minimum)] == IF i < p.maximum THEN <<i>> \o from[next(i)] ELSE <<>>
  IN  from[p.minimum]

\* The loops of IntegerIncrementRange and IntegerMultiplyRange.
GenerateValues(p) ==
  LET next(i) == IF p.kind = "increment" THEN i + p.by ELSE i * p.by
      from[i \in AtLeast(p.minimum)] == IF i <= p.maximum THEN <<i>> \o from[next(i)] ELSE <<>>
  IN  from[p.minimum]

\* Those loops do not end.
Endless(p) ==
  /\ p.minimum <= p.maximum
  /\ \/ p.kind = "increment" /\ p.by <= 0
     \/ p.kind = "multiply" /\ (p.minimum = 0 \/ p.by <= 1)

\* get_atomic_flags
AtomicFlags(flag) ==
  IF flag.kind \in {"increment", "multiply"}
  THEN LET vals == GenerateValues(flag) IN [i \in DOMAIN vals |-> [name |-> flag.name, value |-> vals[i]]]
  ELSE <<[name |-> flag.name, value |-> flag.minimum]>>

\* backtrack: every choice of one element from each list, the last list varying fastest.
Combine(lst) ==
  LET backtrack[idx \in 1..Len(lst) + 1] ==
        IF idx > Len(lst) THEN << <<>> >>
        ELSE FlattenSeq([i \in DOMAIN lst[idx] |->
               [c \in DOMAIN backtrack[idx + 1] |-> <<lst[idx][i]>> \o backtrack[idx + 1][c]]])
  IN  backtrack[1]

\* A job takes the value of the last nthreads flag, 1 if there is none.
NThreads(cflags) ==
  LET given == {i \in DOMAIN cflags : cflags[i].name = "nthreads"}
  IN  IF given = {} THEN 1 ELSE cflags[Max(given)].value

\* The jobs of experiment e: atomicize_experiments, then make_jobs.
JobsOf(e) ==
  LET flags == exps[e].flags
      combos == Combine([i \in DOMAIN flags |-> AtomicFlags(flags[i])])
  IN  [c \in DOMAIN combos |-> [exp |-> e, dir |-> <<exps[e].dir, c - 1>>,
                                cflags |-> combos[c], nthreads |-> NThreads(combos[c])]]

-----------------------------------------------------------------------------
(* From the command line to the jobs.                                      *)

\* Redis may hold anything, and a working directory that is used again its old combinations.
Init ==
  /\ phase = "load" /\ at = 1
  /\ exps \in Configs
  /\ files = [d \in Dirs |-> Nothing]
  /\ jobs = <<>> /\ results = <<>> /\ rows = <<>>
  /\ dirs \in {{}, {<<d, 0>> : d \in Dirs}}
  /\ host = "none"
  /\ db \in {Nothing, Leftover}

Goto(p) == phase' = p
Raise == Goto("raised")

\* The flags already met: model_post_init looks a flag up in a set that stays empty.
SeenFlags == {}
Refused(e) == \E i \in DOMAIN exps[e].flags : exps[e].flags[i].name \in SeenFlags

\* load_experiments: no duplicate flag is refused; malformed yaml is.
Load ==
  /\ phase = "load"
  /\ \/ Raise
     \/ (\A e \in DOMAIN exps : ~Refused(e)) /\ Goto("generate")
  /\ UNCHANGED <<at, exps, files, jobs, dirs, host, db, results, rows>>

\* generate_operations chooses each operation's key from those of the seed file.
NoKeyToChoose(e) == exps[e].data = "unseeded"

\* generate_files of the three generators, which differ in the values they write: the files
\* replace those of an experiment with the same output directory.
GenerateFiles(e) ==
  files' = IF exps[e].data = "generated" THEN [files EXCEPT ![exps[e].dir] = e] ELSE files

\* generate_data of the next experiment.
GenerateData ==
  /\ phase = "generate" /\ at <= Len(exps)
  /\ \/ NoKeyToChoose(at) /\ Raise /\ UNCHANGED <<at, files>>
     \/ /\ ~NoKeyToChoose(at) /\ GenerateFiles(at)
        /\ at' = at + 1 /\ UNCHANGED phase
  /\ UNCHANGED <<exps, jobs, dirs, host, db, results, rows>>

Incomplete(e) == exps[e].data = "incomplete"
HasEndless(e) == \E i \in DOMAIN exps[e].flags : Endless(exps[e].flags[i])

\* atomicize_experiments stops at the first experiment it cannot expand; JobOrchestration
\* refuses an empty list.
Expand ==
  /\ phase = "generate" /\ at > Len(exps)
  /\ LET bad == {e \in DOMAIN exps : Incomplete(e) \/ HasEndless(e)}
         all == FlattenSeq([e \in DOMAIN exps |-> JobsOf(e)])
     IN  \/ /\ bad # {}
            /\ Goto(IF Incomplete(Min(bad)) THEN "raised" ELSE "endless")
            /\ UNCHANGED <<jobs, at, results>>
         \/ /\ bad = {} /\ all = <<>> /\ Raise
            /\ UNCHANGED <<jobs, at, results>>
         \/ /\ bad = {} /\ all # <<>> /\ Goto("start")
            /\ jobs' = all /\ at' = 1
            /\ results' = [j \in DOMAIN all |-> [parse |-> "missing", data |-> Nothing]]
  /\ UNCHANGED <<exps, files, dirs, host, db, rows>>

-----------------------------------------------------------------------------
(* One job: ClientJob.__call__.                                            *)

job == jobs[at]

\* Whose rows the job's seed and operations files hold.
DataOf(j) == IF exps[j.exp].data = "generated" THEN files[exps[j.exp].dir] ELSE j.exp

\* Mutant: the directory may exist already.
StartExistOk ==
  /\ phase = "start"
  /\ dirs' = dirs \union {job.dir}
  /\ \/ host' = "up" /\ Goto("flush")
     \/ host' = "none" /\ Raise
  /\ UNCHANGED <<at, exps, files, jobs, db, results, rows>>

\* mkdir without exist_ok, then Popen; either may raise.
Start ==
  /\ phase = "start"
  /\ \/ job.dir \in dirs /\ Raise /\ UNCHANGED <<dirs, host>>
     \/ /\ job.dir \notin dirs
        /\ dirs' = dirs \union {job.dir}
        /\ \/ host' = "up" /\ Goto("flush")
           \/ host' = "none" /\ Raise
  /\ UNCHANGED <<at, exps, files, jobs, db, results, rows>>

Flush ==
  /\ phase = "flush" /\ db' = Nothing /\ Goto("seed")
  /\ UNCHANGED <<at, exps, files, jobs, dirs, host, results, rows>>

\* The client with --initdb writes to Redis itself; whether it succeeds is not looked at.
Seed ==
  /\ phase = "seed"
  /\ \/ exps[job.exp].data # "dangling" /\ db' = DataOf(job)
     \/ UNCHANGED db
  /\ Goto("operate")
  /\ UNCHANGED <<at, exps, files, jobs, dirs, host, results, rows>>

\* The client with the operations file.  Without a host or a thread it has no latency to
\* report and dies; otherwise its report may be parsed or not (an assertion failed after the
\* first line, or a duration was printed with an exponent).
Operate ==
  /\ phase = "operate"
  /\ \E p \in IF host = "up" /\ job.nthreads > 0 THEN {"full", "unreadable"} ELSE {"unreadable"} :
       results' = [results EXCEPT ![at] = [parse |-> p, data |-> db]]
  /\ db' \in IF host = "up" THEN {db, DataOf(job)} ELSE {db}
  /\ Goto("flush2")
  /\ UNCHANGED <<at, exps, files, jobs, dirs, host, rows>>

FlushAgain ==
  /\ phase = "flush2" /\ db' = Nothing /\ Goto("terminate")
  /\ UNCHANGED <<at, exps, files, jobs, dirs, host, results, rows>>

\* Mutant: the with block waits for a host that was not terminated.
TerminateForgotten ==
  /\ phase = "terminate" /\ host = "dead" /\ host' = "none" /\ Goto("save")
  /\ UNCHANGED <<at, exps, files, jobs, dirs, db, results, rows>>

\* terminate, and the wait at the end of the with block.
Terminate ==
  /\ phase = "terminate" /\ host' = "none" /\ Goto("save")
  /\ UNCHANGED <<at, exps, files, jobs, dirs, db, results, rows>>

\* _save_results and _cleanup, which may raise (a file cannot be written, asked about or
\* removed); then run_sequential goes on.
Save ==
  /\ phase = "save"
  /\ \/ Raise /\ UNCHANGED at
     \/ at' = at + 1 /\ Goto(IF at < Len(jobs) THEN "start" ELSE "stats")
  /\ UNCHANGED <<exps, files, jobs, dirs, host, db, results, rows>>

\* A statement of the with block raises: Redis refuses the connection, a program or a log
\* file cannot be opened.
Fail ==
  /\ phase \in {"flush", "seed", "operate", "flush2"} /\ Goto("unwinding")
  /\ UNCHANGED <<at, exps, files, jobs, dirs, host, db, results, rows>>

\* Mutant: the exception leaves the with block at once.
UnwindAtOnce ==
  /\ phase = "unwinding" /\ Raise
  /\ UNCHANGED <<at, exps, files, jobs, dirs, host, db, results, rows>>

\* Popen.__exit__ waits for the host, which nobody has terminated.
Unwind ==
  /\ phase = "unwinding" /\ host = "dead"
  /\ host' = "none" /\ Raise
  /\ UNCHANGED <<at, exps, files, jobs, dirs, db, results, rows>>

HostDies ==
  /\ host = "up" /\ host' = "dead"
  /\ UNCHANGED <<phase, at, exps, files, jobs, dirs, db, results, rows>>

-----------------------------------------------------------------------------
(* The statistics.                                                         *)

\* The columns of a row that say what was measured: the paths of the data files, which two
\* experiments that are given theirs may share, and the number of threads.  The description,
\* the sizes and the results may be equal by chance.
SameInputs(j, k) ==
  /\ jobs[j].nthreads = jobs[k].nthreads
  /\ \/ jobs[j].exp = jobs[k].exp
     \/ exps[jobs[j].exp].data = "given" /\ exps[jobs[k].exp].data = "given"

\* reduce of the outer merges: a row equal to one of an earlier job is not added.
Merged ==
  {r \in [DOMAIN jobs -> DOMAIN jobs] :
     \A j \in DOMAIN jobs : r[j] = j \/ (r[j] < j /\ r[r[j]] = r[j] /\ SameInputs(j, r[j]))}

\* _parse_result opens the results and the data files of a job.
Readable(j) == results[j].parse = "full" /\ exps[jobs[j].exp].data # "dangling"

\* Stats.from_results: one results or seed file that cannot be read, and all is lost; so it is
\* when two experiments have a column of different types (a size given and none).
Stats ==
  /\ phase = "stats"
  /\ \/ (\E j \in DOMAIN jobs : ~Readable(j)) /\ Raise /\ UNCHANGED rows
     \/ (\E j, k \in DOMAIN jobs : jobs[j].exp # jobs[k].exp) /\ Raise /\ UNCHANGED rows
     \/ (\A j \in DOMAIN jobs : Readable(j)) /\ rows' \in Merged /\ Goto("done")
  /\ UNCHANGED <<at, exps, files, jobs, dirs, host, db, results>>

Ended == phase \in {"done", "raised", "endless"}

RunJob == Start \/ Flush \/ Seed \/ Operate \/ FlushAgain \/ Terminate \/ Save

Step == Load \/ GenerateData \/ Expand \/ RunJob \/ Unwind \/ Stats

\* The process has ended, or its list of values grows without end.
Rest == Ended /\ UNCHANGED vars

Next == Step \/ Fail \/ HostDies \/ Rest

\* The benchmark is one process that the system schedules; nothing has to fail.
Spec == Init /\ [][Next]_vars /\ WF_vars(Step)

-----------------------------------------------------------------------------
(* Properties.                                                             *)

Power(b, n) == LET pow[k \in Nat] == IF k = 0 THEN 1 ELSE b * pow[k - 1] IN pow[n]

\* The values a flag stands for, by their definition rather than by the loop.
ValuesOf(flag) ==
  CASE flag.kind = "increment" -> {v \in flag.minimum..flag.maximum : (v - flag.minimum) % flag.by = 0}
    [] flag.kind = "multiply"  -> {v \in flag.minimum..flag.maximum :
                                     \E k \in 0..flag.maximum : v = flag.minimum * Power(flag.by, k)}
    [] OTHER -> {flag.minimum}

\* No flag is given twice.  Config.model_post_init means to refuse the others but keeps no
\* record of the names it has seen, so they are expanded: what becomes of them is not claimed.
DistinctFlags(e) ==
  \A i, k \in DOMAIN exps[e].flags : exps[e].flags[i].name = exps[e].flags[k].name => i = k

\* The numbers of threads an experiment is to be measured with.
ThreadCounts(e) ==
  LET given == {f \in Range(exps[e].flags) : f.name = "nthreads"}
  IN  IF given = {} THEN {1} ELSE UNION {ValuesOf(f) : f \in given}

\* atomicize_experiments and make_jobs: an experiment without a duplicate flag is measured
\* once with every number of threads its flags stand for, and with no other, in a directory
\* no other of its jobs has; these directories are numbered from 0 without a gap.
ExpansionExact ==
  jobs # <<>> =>
    \A e \in DOMAIN exps : DistinctFlags(e) =>
      LET mine == {j \in DOMAIN jobs : jobs[j].exp = e} IN
      /\ \A n \in ThreadCounts(e) : Cardinality({j \in mine : jobs[j].nthreads = n}) = 1
      /\ \A j \in mine :
           /\ jobs[j].nthreads \in ThreadCounts(e)
           /\ \E n \in 0..Len(jobs) - 1 :
                /\ jobs[j].dir = <<exps[e].dir, n>>
                /\ \A m \in 0..n : \E i \in mine : jobs[i].dir = <<exps[e].dir, m>>
           /\ \A k \in mine : jobs[j].dir = jobs[k].dir => j = k

\* A later experiment wrote its data over that of experiment e and has no job that would
\* have met the directory of e.
SilentlyReplaced(e) ==
  \E f \in DOMAIN exps : /\ f > e /\ exps[f].dir = exps[e].dir
                         /\ exps[e].data = "generated" /\ exps[f].data = "generated"
                         /\ \A j \in DOMAIN jobs : jobs[j].exp # f

\* Statistics are made of every job or of none, and only of jobs that were measured on the
\* data of their own experiment or, when the seeding client failed, on an empty database:
\* the flush before seeding and the exclusive mkdir keep out what Redis held before, the
\* jobs before and an experiment that shares the output directory, unless that one has no
\* job.  The merge of equal rows loses no measurement: two jobs of an experiment without a
\* duplicate flag never share a row.
StatsOnOwnData ==
  phase = "done" =>
    \A j \in DOMAIN jobs : /\ results[j].parse = "full"
                           /\ \/ results[j].data \in {jobs[j].exp, Nothing}
                              \/ SilentlyReplaced(jobs[j].exp)
                           /\ \A k \in DOMAIN jobs \ {j} :
                                jobs[k].exp = jobs[j].exp /\ DistinctFlags(jobs[j].exp)
                                  => rows[j] # rows[k]

\* A host never outlives the job that started it: when a job starts or the benchmark has
\* ended, by whatever exception, no host is running that would hold the port.
NoOrphanHost == phase = "start" \/ Ended => host = "none"

\* Ranges that advance.
WellFormed(flag) ==
  \/ flag.kind \in {"int", "bool"}
  \/ flag.minimum > flag.maximum
  \/ flag.kind = "increment" /\ flag.by >= 1
  \/ flag.kind = "multiply" /\ flag.by >= 2 /\ flag.minimum >= 1

\* The benchmark ends, unless one of its ranges does not advance and its expansion goes on
\* for ever, or an exception inside a job waits for a host that keeps running.
BenchmarkEnds ==
  <>[](\/ phase \in {"done", "raised"}
       \/ phase = "unwinding" /\ host = "up"
       \/ phase = "endless" /\ \E e \in DOMAIN exps : \E i \in DOMAIN exps[e].flags :
                                   ~WellFormed(exps[e].flags[i]))
=============================================================================
