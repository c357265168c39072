---------------------------- MODULE TeeBenchProofs ----------------------------
(***************************************************************************)
(* Proofs about TeeBench, for any list of experiments and any directories: *)
(* no host outlives its job, the jobs are exactly the combinations of the  *)
(* experiments' flags, and the statistics are made of data the jobs' own   *)
(* experiments generated.                                                  *)
(*                                                                         *)
(* The expansion is recursive (GenerateValues, Combine, FlattenSeq).  That *)
(* the recursive functions exist, and what they return, is proved by       *)
(* induction on sets of natural numbers, from the theorem that every       *)
(* non-empty set of them has a least element.                              *)
(***************************************************************************)
EXTENDS TeeBench, FiniteSetTheorems, TLAPS

\* The assumption on the configurations, field by field.
LEMMA ConfigFacts ==
  ASSUME exps \in Configs
  PROVE  /\ Len(exps) \in Nat /\ DOMAIN exps = 1..Len(exps)
         /\ \A e \in DOMAIN exps : exps[e].dir \in Dirs /\ exps[e].flags \in Seq(Flag)
<1>1. exps \in Seq(Experiment)
  BY ConfigsAssumption
<1>2. \A e \in DOMAIN exps : exps[e] \in Experiment
  BY <1>1
<1>3. Len(exps) \in Nat /\ DOMAIN exps = 1..Len(exps)
  BY <1>1
<1> QED
  BY <1>2, <1>3 DEF Experiment

(***************************************************************************)
(* Hosts                                                                   *)
(***************************************************************************)
WithBlock == {"flush", "seed", "operate", "flush2", "terminate", "unwinding"}

HostInv == phase \notin WithBlock => host = "none"

LEMMA HostStep == HostInv /\ [Next]_vars => HostInv'
<1> SUFFICES ASSUME HostInv, [Next]_vars PROVE HostInv'
  OBVIOUS
<1> USE DEF HostInv, WithBlock
<1>1. CASE Load \/ GenerateData \/ Expand
  BY <1>1 DEF Load, GenerateData, Expand, Raise, Goto
<1>2. CASE RunJob
  BY <1>2 DEF RunJob, Start, Flush, Seed, Operate, FlushAgain, Terminate, Save, Raise, Goto
<1>3. CASE Unwind \/ Stats \/ Fail \/ HostDies
  BY <1>3 DEF Unwind, Stats, Fail, HostDies, Raise, Goto
<1>4. CASE UNCHANGED vars
  BY <1>4 DEF vars
<1> QED
  BY <1>1, <1>2, <1>3, <1>4 DEF Next, Step, Rest

\* Popen's with block and the order of its statements: whatever raises, no host is left
\* when a job starts or the benchmark has ended.
THEOREM NoOrphanHostHolds == Spec => []NoOrphanHost
<1>1. Init => HostInv
  BY DEF Init, HostInv
<1>2. HostInv => NoOrphanHost
  BY DEF HostInv, WithBlock, NoOrphanHost, Ended
<1> QED
  BY <1>1, <1>2, HostStep, PTL DEF Spec

(***************************************************************************)
(* Data                                                                    *)
(***************************************************************************)
\* The experiments that have been given data: all of them once there are jobs.
Given == IF phase = "load" THEN {} ELSE
         IF phase = "generate" THEN {e \in DOMAIN exps : e < at} ELSE DOMAIN exps

Generated(e) == exps[e].data = "generated"

\* The files of a directory are those of the last experiment that generated some there.
FilesInv ==
  jobs # <<>> \/ phase = "generate" =>
    \A e \in Given : Generated(e) =>
      /\ files[exps[e].dir] \in Given /\ files[exps[e].dir] >= e
      /\ Generated(files[exps[e].dir]) /\ exps[files[exps[e].dir]].dir = exps[e].dir

\* The jobs whose operations have begun.
Measured == {j \in DOMAIN jobs : results[j].parse # "missing"}

\* A job is measured once, on its own data or none, in a directory of its own.
MeasuredInv ==
  /\ \A j \in Measured :
       /\ j \in 1..(at - 1) \/ (j = at /\ phase \notin {"start", "flush", "seed", "operate"})
       /\ results[j].data \in {Nothing, DataOf(jobs[j])}
       /\ jobs[j].dir \in dirs
  /\ \A i, j \in Measured : jobs[i].dir = jobs[j].dir => i = j
  /\ phase \in {"flush", "seed", "operate"} =>
       /\ job.dir \in dirs
       /\ \A i \in Measured : jobs[i].dir # job.dir
  /\ phase = "seed" => db = Nothing
  /\ phase = "operate" => db \in {Nothing, DataOf(job)}

TypeInv ==
  /\ phase \in {"load", "generate", "start", "save", "stats", "done", "raised", "endless"}
                 \union WithBlock
  /\ at \in Nat \ {0} /\ (phase = "load" => at = 1) /\ exps \in Configs /\ files \in [Dirs -> Int]
  /\ jobs = <<>> => phase \in {"load", "generate", "raised", "endless"}
  /\ phase \in {"load", "generate"} => jobs = <<>>
  /\ DOMAIN results = DOMAIN jobs

DoneInv ==
  phase = "done" =>
    \A j \in DOMAIN jobs : /\ results[j].parse = "full"
                           /\ rows[j] \in DOMAIN jobs
                           /\ (rows[j] = j \/ SameInputs(j, rows[j]))

IndInv == TypeInv /\ FilesInv /\ MeasuredInv /\ DoneInv

LEMMA DataInit == Init => IndInv
<1> SUFFICES ASSUME Init PROVE IndInv
  OBVIOUS
<1>1. Measured = {}
  BY DEF Init, Measured
<1> QED
  BY <1>1 DEF Init, IndInv, TypeInv, FilesInv, MeasuredInv, DoneInv, Nothing, WithBlock

\* Once there are jobs the experiments, the files and the jobs stay.
LEMMA DataKept ==
  ASSUME UNCHANGED <<exps, files, jobs>>, NEW j
  PROVE  DataOf(j)' = DataOf(j)
BY DEF DataOf

\* Up to the expansion: the files of a directory are those of the last generator.
LEMMA PrepareStep == IndInv /\ (Load \/ GenerateData \/ Expand) => IndInv'
<1> SUFFICES ASSUME IndInv, Load \/ GenerateData \/ Expand PROVE IndInv'
  OBVIOUS
<1> USE DEF IndInv, Raise, Goto
<1>1. UNCHANGED <<exps, dirs, host, db>> /\ phase \in {"load", "generate"} /\ jobs = <<>>
  BY DEF Load, GenerateData, Expand, TypeInv
<1>2. Measured = {}
  BY <1>1 DEF Measured
<1>3. CASE Load
  <2>1. UNCHANGED <<at, files, jobs, results>> /\ phase = "load" /\ phase' \in {"raised", "generate"}
    BY <1>3 DEF Load
  <2>2. Measured' = {}
    BY <1>1, <2>1 DEF Measured
  <2>3. FilesInv'
    <3>1. at = 1 /\ DOMAIN exps = 1..Len(exps)
      BY <2>1, ConfigFacts DEF TypeInv
    <3>2. phase' = "generate" => Given' = {}
      BY <1>1, <2>1, <3>1 DEF Given
    <3> QED
      BY <1>1, <2>1, <3>2 DEF FilesInv, Given
  <2> QED
    BY <1>1, <2>1, <2>2, <2>3 DEF TypeInv, MeasuredInv, DoneInv
<1>4. CASE GenerateData
  <2>1. /\ UNCHANGED <<jobs, results>> /\ phase = "generate" /\ phase' \in {"raised", "generate"}
        /\ at \in Nat \ {0} /\ at' \in Nat \ {0} /\ exps \in Configs /\ files \in [Dirs -> Int]
    BY <1>4 DEF GenerateData, TypeInv
  <2>2. Measured' = {}
    BY <1>1, <2>1 DEF Measured
  <2>3. CASE phase' = "raised"
    <3>1. files' = files
      BY <1>4, <2>3 DEF GenerateData
    <3> QED
      BY <1>1, <2>1, <2>2, <2>3, <3>1 DEF TypeInv, FilesInv, MeasuredInv, DoneInv
  <2>4. CASE phase' = "generate"
    <3>1. /\ at <= Len(exps) /\ at' = at + 1 /\ at >= 1
          /\ files' = IF Generated(at) THEN [files EXCEPT ![exps[at].dir] = at] ELSE files
      BY <1>4, <2>1, <2>4 DEF GenerateData, GenerateFiles, Generated, TypeInv
    <3>2. at \in DOMAIN exps /\ DOMAIN exps = 1..Len(exps) /\ DOMAIN exps \subseteq Int
          /\ \A e \in DOMAIN exps : exps[e].dir \in Dirs
      BY <2>1, <3>1, ConfigFacts
    <3>3. files' \in [Dirs -> Int]
      BY <2>1, <3>1, <3>2
    <3>4. Given' = Given \union {at} /\ Given = {e \in DOMAIN exps : e < at}
      BY <1>1, <2>1, <2>4, <3>1, <3>2 DEF Given
    <3>5. FilesInv'
      <4> SUFFICES ASSUME NEW e \in Given', Generated(e)
                   PROVE  /\ files'[exps[e].dir] \in Given' /\ files'[exps[e].dir] >= e
                          /\ Generated(files'[exps[e].dir])
                          /\ exps[files'[exps[e].dir]].dir = exps[e].dir
        BY <1>1 DEF FilesInv, Generated
      <4>1. CASE Generated(at) /\ exps[at].dir = exps[e].dir
        <5>1. files'[exps[e].dir] = at /\ at >= e
          BY <2>1, <3>1, <3>2, <3>4, <4>1
        <5> QED
          BY <3>4, <4>1, <5>1
      <4>2. CASE ~(Generated(at) /\ exps[at].dir = exps[e].dir)
        <5>1. e \in Given /\ files'[exps[e].dir] = files[exps[e].dir]
          BY <2>1, <3>1, <3>2, <3>4, <4>2
        <5> QED
          BY <2>1, <3>4, <5>1 DEF FilesInv
      <4> QED
        BY <4>1, <4>2
    <3> QED
      BY <1>1, <2>1, <2>2, <2>4, <3>1, <3>3, <3>5 DEF TypeInv, MeasuredInv, DoneInv
  <2> QED
    BY <2>1, <2>3, <2>4
<1>5. CASE Expand
  <2>1. files' = files /\ phase = "generate" /\ at > Len(exps)
    BY <1>5 DEF Expand
  <2>2. CASE UNCHANGED <<jobs, at, results>> /\ phase' \in {"raised", "endless"}
    <3>1. Measured' = {}
      BY <1>1, <2>2 DEF Measured
    <3> QED
      BY <1>1, <2>1, <2>2, <3>1 DEF TypeInv, FilesInv, MeasuredInv, DoneInv
  <2>3. CASE /\ phase' = "start" /\ at' = 1 /\ jobs' # <<>>
             /\ results' = [j \in DOMAIN jobs' |-> [parse |-> "missing", data |-> Nothing]]
    <3>1. Measured' = {}
      BY <2>3 DEF Measured
    <3>2. Given' = Given
      <4>1. DOMAIN exps = 1..Len(exps) /\ at \in Nat
        BY ConfigFacts DEF TypeInv
      <4> QED
        BY <1>1, <2>1, <2>3, <4>1 DEF Given
    <3>3. FilesInv'
      BY <1>1, <2>1, <3>2 DEF FilesInv, Generated
    <3>4. TypeInv'
      BY <1>1, <2>1, <2>3 DEF TypeInv
    <3> QED
      BY <2>3, <3>1, <3>3, <3>4 DEF MeasuredInv, DoneInv
  <2> QED
    BY <1>5, <2>2, <2>3 DEF Expand
<1> QED
  BY <1>3, <1>4, <1>5

\* Within the jobs, and after them.
LEMMA JobStep ==
  IndInv /\ (RunJob \/ Unwind \/ Stats \/ Fail \/ HostDies \/ UNCHANGED vars) => IndInv'
<1> SUFFICES ASSUME IndInv, RunJob \/ Unwind \/ Stats \/ Fail \/ HostDies \/ UNCHANGED vars
             PROVE  IndInv'
  OBVIOUS
<1> USE DEF IndInv, Raise, Goto
<1>1. UNCHANGED <<exps, files, jobs>>
  BY DEF RunJob, Start, Flush, Seed, Operate, FlushAgain, Terminate, Save, Unwind, Stats,
         Fail, HostDies, vars
<1>2. /\ phase' \in {"load", "generate"} => phase' = phase /\ at' = at
      /\ phase' # phase => phase \notin {"load", "generate", "done", "raised", "endless"}
      /\ at' \in {at, at + 1} /\ DOMAIN results' = DOMAIN results
      /\ phase' \in {"load", "generate", "start", "save", "stats", "done", "raised", "endless"}
                      \union WithBlock
  BY DEF RunJob, Start, Flush, Seed, Operate, FlushAgain, Terminate, Save, Unwind, Stats,
         Fail, HostDies, vars, WithBlock, TypeInv
<1>3. TypeInv'
  BY <1>1, <1>2 DEF TypeInv
<1>4. FilesInv'
  <2>1. Given' = Given
    BY <1>1, <1>2 DEF Given
  <2> QED
    BY <1>1, <1>2, <2>1 DEF FilesInv, Generated, TypeInv
<1>5. \A j : DataOf(j)' = DataOf(j)
  BY <1>1, DataKept
<1>6. DoneInv'
  <2>1. \A j, k : SameInputs(j, k)' <=> SameInputs(j, k)
    BY <1>1 DEF SameInputs
  <2>2. CASE phase' # "done"
    BY <2>2 DEF DoneInv
  <2>3. CASE phase' = "done" /\ phase = "done"
    <3>1. UNCHANGED <<results, rows>>
      BY <2>3 DEF RunJob, Start, Flush, Seed, Operate, FlushAgain, Terminate, Save, Unwind, Stats,
             Fail, HostDies, vars
    <3> QED
      BY <1>1, <2>1, <2>3, <3>1 DEF DoneInv
  <2>4. CASE phase' = "done" /\ phase # "done"
    <3>1. results' = results /\ rows' \in Merged /\ \A j \in DOMAIN jobs : Readable(j)
      BY <2>4 DEF RunJob, Start, Flush, Seed, Operate, FlushAgain, Terminate, Save, Unwind, Stats,
             Fail, HostDies, vars
    <3>2. \A j \in DOMAIN jobs : /\ results[j].parse = "full" /\ rows'[j] \in DOMAIN jobs
                                 /\ rows'[j] = j \/ SameInputs(j, rows'[j])
      BY <3>1 DEF Merged, Readable
    <3> QED
      BY <1>1, <2>1, <3>1, <3>2 DEF DoneInv
  <2> QED
    BY <2>2, <2>3, <2>4
<1>7. ASSUME results' = results PROVE Measured' = Measured
  BY <1>1, <1>7 DEF Measured
<1>8. at \in Nat \ {0}
  BY DEF TypeInv
<1>9. MeasuredInv'
  <2> USE DEF MeasuredInv
  <2>1. CASE Start
    <3>1. /\ UNCHANGED <<at, db, results>> /\ phase = "start"
          /\ \/ phase' = "raised" /\ dirs \subseteq dirs'
             \/ /\ phase' = "flush" /\ job.dir \notin dirs /\ dirs' = dirs \union {job.dir}
      BY <2>1 DEF Start
    <3>2. job' = job
      BY <1>1, <3>1 DEF job
    <3> QED
      BY <1>1, <1>5, <1>7, <3>1, <3>2
  <2>2. CASE Flush \/ Seed
    <3>1. UNCHANGED <<at, dirs, results>>
      BY <2>2 DEF Flush, Seed
    <3>2. job' = job
      BY <1>1, <3>1 DEF job
    <3>3. CASE Flush
      BY <1>1, <1>5, <1>7, <3>1, <3>2, <3>3 DEF Flush
    <3>4. CASE Seed
      <4>1. phase = "seed" /\ phase' = "operate" /\ db' \in {Nothing, DataOf(job)}
        BY <3>4 DEF Seed
      <4> QED
        BY <1>1, <1>5, <1>7, <3>1, <3>2, <4>1
    <3> QED
      BY <2>2, <3>3, <3>4
  <2>3. CASE Operate
    <3>1. /\ UNCHANGED <<at, dirs>> /\ phase = "operate" /\ phase' = "flush2"
          /\ DOMAIN results = DOMAIN jobs
      BY <2>3 DEF Operate, TypeInv
    <3>2. PICK p : results' = [results EXCEPT ![at] = [parse |-> p, data |-> db]]
      BY <2>3 DEF Operate
    <3>3. \A j \in DOMAIN jobs : j # at => results'[j] = results[j]
      BY <3>1, <3>2
    <3>4. at \in DOMAIN jobs => results'[at].data = db
      BY <3>1, <3>2
    <3>5. Measured' \subseteq Measured \union {at}
      BY <1>1, <3>3 DEF Measured
    <3>6. /\ at \notin Measured /\ job = jobs[at] /\ db \in {Nothing, DataOf(job)}
          /\ job.dir \in dirs /\ \A i \in Measured : jobs[i].dir # job.dir /\ i \in 1..(at - 1)
      BY <1>8, <3>1 DEF job
    <3>7. ASSUME NEW j \in Measured'
          PROVE  /\ j \in 1..(at - 1) \/ j = at
                 /\ results'[j].data \in {Nothing, DataOf(jobs[j])} /\ jobs[j].dir \in dirs
      <4>1. j \in DOMAIN jobs
        BY <1>1 DEF Measured
      <4>2. CASE j = at
        BY <3>4, <3>6, <4>1, <4>2
      <4>3. CASE j # at
        BY <3>3, <3>5, <4>1, <4>3
      <4> QED
        BY <4>2, <4>3
    <3>8. \A i, j \in Measured' : jobs[i].dir = jobs[j].dir => i = j
      BY <3>5, <3>6
    <3> QED
      BY <1>1, <1>5, <3>1, <3>7, <3>8
  <2>4. CASE FlushAgain \/ Terminate \/ Fail \/ Unwind \/ Stats
    <3>1. /\ UNCHANGED <<at, dirs, results>>
          /\ phase' \in {"terminate", "save", "unwinding", "raised", "done"}
      BY <2>4 DEF FlushAgain, Terminate, Fail, Unwind, Stats
    <3> QED
      BY <1>1, <1>5, <1>7, <3>1
  <2>5. CASE Save
    <3>1. /\ UNCHANGED <<dirs, results>>
          /\ \/ at' = at + 1 /\ phase' \in {"start", "stats"}
             \/ at' = at /\ phase' = "raised"
      BY <2>5 DEF Save
    <3>2. \A j \in Measured : j \in 1..((at + 1) - 1)
      BY <1>8
    <3>3. CASE at' = at
      BY <1>1, <1>5, <1>7, <3>1, <3>3, <1>8
    <3> QED
      BY <1>1, <1>5, <1>7, <3>1, <3>2, <3>3
  <2>6. CASE HostDies \/ UNCHANGED vars
    <3>1. UNCHANGED <<phase, at, dirs, results, db>>
      BY <2>6 DEF HostDies, vars
    <3>2. job' = job
      BY <1>1, <3>1 DEF job
    <3> QED
      BY <1>1, <1>5, <1>7, <3>1, <3>2
  <2> QED
    BY <2>1, <2>2, <2>3, <2>4, <2>5, <2>6 DEF RunJob
<1> QED
  BY <1>3, <1>4, <1>6, <1>9

LEMMA DataStep == IndInv /\ [Next]_vars => IndInv'
BY PrepareStep, JobStep DEF Next, Step, Rest

(***************************************************************************)
(* Induction and recursion over the natural numbers, as statements about   *)
(* sets and functions: no predicate is a parameter.                        *)
(***************************************************************************)
\* Every non-empty set of natural numbers has a least element.
LEMMA LeastNat ==
  ASSUME NEW T \in SUBSET Nat, T # {}
  PROVE  \E n \in T : \A m \in T : n <= m
<1> DEFINE R == {ss \in Nat \X Nat : ss[1] < ss[2]}
<1>1. IsWellFoundedOn(R, Nat)
  BY NatLessThanWellFounded DEF OpToRel
<1>2. PICK n \in T : \A m \in T : ~ (<<m, n>> \in R)
  BY <1>1, WFMin
<1>3. ASSUME NEW m \in T PROVE n <= m
  <2>1. <<m, n>> \notin R /\ m \in Nat /\ n \in Nat
    BY <1>2
  <2> QED
    BY <2>1
<1> QED
  BY <1>3

\* A set of natural numbers with 0 and the successor of each of its elements is Nat.
LEMMA SetInduction ==
  ASSUME NEW S \in SUBSET Nat, 0 \in S, \A n \in S : n + 1 \in S
  PROVE  S = Nat
<1> SUFFICES ASSUME Nat \ S # {} PROVE FALSE
  OBVIOUS
<1>1. PICK n \in Nat \ S : \A m \in Nat \ S : n <= m
  <2>1. Nat \ S \in SUBSET Nat
    OBVIOUS
  <2> QED
    BY <2>1, LeastNat
<1>2. n # 0 /\ n - 1 \in Nat /\ n - 1 \notin Nat \ S
  BY <1>1
<1> QED
  BY <1>1, <1>2

\* f is a in 0, and each next value comes from the one before by a step of h.
Steps(S) == [Nat -> [S -> S]]

Iterates(f, S, a, h) == f \in [Nat -> S] /\ f[0] = a /\ \A n \in Nat : f[n + 1] = h[n][f[n]]

\* Steps and a first value define a function on Nat.
LEMMA Recursion ==
  ASSUME NEW S, NEW a \in S, NEW h \in Steps(S)
  PROVE  \E f : Iterates(f, S, a, h)
<1> USE DEF Steps
<1> DEFINE Upto(n, g) == /\ g \in [0..n -> S] /\ g[0] = a
                         /\ \A i \in 0..n : i + 1 \in 0..n => g[i + 1] = h[i][g[i]]
<1>1. ASSUME NEW n \in Nat PROVE \E g : Upto(n, g)
  <2> DEFINE T == {k \in Nat : \E g : Upto(k, g)}
  <2>1. 0 \in T
    <3>1. Upto(0, [i \in 0..0 |-> a])
      OBVIOUS
    <3> QED
      BY <3>1
  <2>2. ASSUME NEW k \in T PROVE k + 1 \in T
    <3>1. PICK g : Upto(k, g)
      OBVIOUS
    <3> DEFINE new == h[k][g[k]]
               gg == [i \in 0..(k + 1) |-> IF i <= k THEN g[i] ELSE new]
    <3>2. k \in Nat /\ g[k] \in S
      BY <3>1
    <3>3. new \in S
      BY <3>2
    <3>4. gg[k + 1] = new /\ \A i \in 0..k : gg[i] = g[i]
      BY <3>2
    <3>5. gg \in [0..(k + 1) -> S]
      <4> HIDE DEF new
      <4> QED
        BY <3>1, <3>2, <3>3
    <3>6. ASSUME NEW i \in 0..(k + 1), i + 1 \in 0..(k + 1) PROVE gg[i + 1] = h[i][gg[i]]
      <4> HIDE DEF gg
      <4>1. CASE i = k
        BY <4>1, <3>2, <3>4
      <4>2. CASE i # k
        <5>1. i \in 0..k /\ i + 1 \in 0..k
          BY <3>2, <3>6, <4>2
        <5> QED
          BY <5>1, <3>1, <3>4
      <4> QED
        BY <4>1, <4>2
    <3> HIDE DEF gg
    <3>7. gg[0] = a
      BY <3>1, <3>2, <3>4
    <3>8. Upto(k + 1, gg)
      BY <3>5, <3>6, <3>7
    <3> HIDE DEF Upto
    <3> QED
      BY <3>2, <3>8
  <2> HIDE DEF T
  <2>3. T \in SUBSET Nat
    BY DEF T
  <2>4. T = Nat
    BY <2>1, <2>2, <2>3, SetInduction
  <2> QED
    BY <2>4 DEF T
<1>2. ASSUME NEW m \in Nat, NEW n \in Nat, m <= n, NEW g, NEW k, Upto(m, g), Upto(n, k)
      PROVE  \A i \in 0..m : g[i] = k[i]
  <2> DEFINE T == {i \in Nat : i \in 0..m => g[i] = k[i]}
  <2>1. 0 \in T
    BY <1>2
  <2>2. ASSUME NEW i \in T PROVE i + 1 \in T
    BY <1>2
  <2> HIDE DEF T
  <2>3. T \in SUBSET Nat
    BY DEF T
  <2>4. T = Nat
    BY <2>1, <2>2, <2>3, SetInduction
  <2> QED
    BY <2>4 DEF T
<1> DEFINE G(n) == CHOOSE g : Upto(n, g)
           f == [n \in Nat |-> G(n)[n]]
<1>3. ASSUME NEW n \in Nat PROVE Upto(n, G(n))
  BY <1>1
<1> HIDE DEF G
<1>4. f \in [Nat -> S] /\ f[0] = a
  <2>1. \A n \in Nat : G(n)[n] \in S
    BY <1>3
  <2>2. G(0)[0] = a
    BY <1>3
  <2> QED
    BY <2>1, <2>2
<1>5. ASSUME NEW n \in Nat PROVE f[n + 1] = h[n][f[n]]
  <2>1. n + 1 \in Nat
    OBVIOUS
  <2>2. Upto(n, G(n)) /\ Upto(n + 1, G(n + 1))
    BY <1>3, <2>1
  <2>3. G(n)[n] = G(n + 1)[n]
    <3> HIDE DEF Upto
    <3>1. \A i \in 0..n : G(n)[i] = G(n + 1)[i]
      BY <1>2, <2>1, <2>2
    <3> QED
      BY <3>1
  <2>4. G(n + 1)[n + 1] = h[n][G(n + 1)[n]]
    BY <2>2
  <2> QED
    BY <2>3, <2>4, <2>1
<1> QED
  BY <1>4, <1>5 DEF Iterates

(***************************************************************************)
(* Sequences of sequences                                                  *)
(***************************************************************************)
\* FlattenSeq is a recursive function over the indices: it has the equations it is defined by.
LEMMA FlattenDef ==
  ASSUME NEW U, NEW ss \in Seq(Seq(U)), Len(ss) # 0
  PROVE  \E f \in [1..Len(ss) -> Seq(U)] :
           /\ FlattenSeq(ss) = f[Len(ss)]
           /\ f[1] = ss[1]
           /\ \A i \in 2..Len(ss) : f[i] = f[i - 1] \o ss[i]
<1> DEFINE N == Len(ss)
           F(f) == [i \in 1..N |-> IF i = 1 THEN ss[i] ELSE f[i - 1] \o ss[i]]
           flatten == CHOOSE f : f = F(f)
<1>1. FlattenSeq(ss) = flatten[N]
  BY DEF FlattenSeq
<1>2. N \in Nat \ {0} /\ \A i \in 1..N : ss[i] \in Seq(U)
  OBVIOUS
<1>3. \E f \in [1..N -> Seq(U)] : f = F(f)
  <2> DEFINE h == [n \in Nat |-> [s \in Seq(U) |-> IF n + 2 <= N THEN s \o ss[n + 2] ELSE s]]
  <2>1. h \in [Nat -> [Seq(U) -> Seq(U)]]
    <3>1. ASSUME NEW n \in Nat, NEW s \in Seq(U)
          PROVE  (IF n + 2 <= N THEN s \o ss[n + 2] ELSE s) \in Seq(U)
      <4>1. CASE n + 2 <= N
        <5>1. ss[n + 2] \in Seq(U)
          BY <1>2, <4>1
        <5> QED
          BY <5>1, <4>1
      <4> QED
        BY <4>1
    <3> QED
      BY <3>1
  <2>2. ss[1] \in Seq(U)
    BY <1>2
  <2> HIDE DEF h
  <2>3. PICK g \in [Nat -> Seq(U)] : g[0] = ss[1] /\ \A n \in Nat : g[n + 1] = h[n][g[n]]
    <3>1. \E g : Iterates(g, Seq(U), ss[1], h)
      BY <2>1, <2>2, Recursion DEF Steps
    <3> QED
      BY <3>1 DEF Iterates
  <2> DEFINE f == [i \in 1..N |-> g[i - 1]]
  <2>4. f \in [1..N -> Seq(U)]
    <3>1. \A i \in 1..N : g[i - 1] \in Seq(U)
      BY <1>2, <2>3
    <3> QED
      BY <3>1
  <2>5. ASSUME NEW i \in 1..N PROVE f[i] = IF i = 1 THEN ss[i] ELSE f[i - 1] \o ss[i]
    <3>1. CASE i = 1
      BY <3>1, <2>3, <1>2
    <3>2. CASE i # 1
      <4>1. i - 2 \in Nat /\ i - 1 = (i - 2) + 1 /\ i - 1 \in 1..N /\ i = (i - 2) + 2 /\ i <= N
        BY <3>2, <1>2
      <4>2. g[i - 1] = h[i - 2][g[i - 2]]
        BY <4>1, <2>3
      <4>3. g[i - 2] \in Seq(U)
        BY <4>1, <2>3
      <4>4. h[i - 2][g[i - 2]] = g[i - 2] \o ss[i]
        BY <4>1, <4>3 DEF h
      <4>5. f[i] = g[i - 1] /\ f[i - 1] = g[i - 2]
        BY <4>1
      <4> QED
        BY <4>2, <4>4, <4>5, <3>2
    <3> QED
      BY <3>1, <3>2
  <2>6. f = F(f)
    <3>1. \A i \in 1..N : f[i] = F(f)[i]
      BY <2>5
    <3> HIDE DEF f
    <3>2. DOMAIN f = 1..N /\ DOMAIN F(f) = 1..N
      BY <2>4
    <3> QED
      BY <3>1, <3>2, <2>4
  <2> HIDE DEF f
  <2> QED
    BY <2>4, <2>6
<1>4. flatten = F(flatten)
  <2> HIDE DEF F
  <2> QED
    BY <1>3
<1> HIDE DEF flatten
<1>5. flatten[1] = ss[1] /\ \A i \in 2..N : flatten[i] = flatten[i - 1] \o ss[i]
  <2>1. \A i \in 1..N : flatten[i] = IF i = 1 THEN ss[i] ELSE flatten[i - 1] \o ss[i]
    BY <1>4
  <2>2. 1 \in 1..N /\ \A i \in 2..N : i \in 1..N /\ i # 1
    BY <1>2
  <2> HIDE DEF N, F
  <2> QED
    BY <2>1, <2>2
<1>6. flatten \in [1..N -> Seq(U)]
  <2> DEFINE T == {n \in Nat : n + 1 \in 1..N => flatten[n + 1] \in Seq(U)}
  <2>1. 0 \in T
    BY <1>2, <1>5
  <2>2. ASSUME NEW n \in T PROVE n + 1 \in T
    <3> SUFFICES ASSUME n + 2 \in 1..N PROVE flatten[n + 2] \in Seq(U)
      BY <1>2
    <3>1. n \in Nat /\ n + 1 \in 1..N /\ n + 2 \in 2..N /\ (n + 2) - 1 = n + 1
      BY <1>2
    <3>2. flatten[n + 1] \in Seq(U) /\ ss[n + 2] \in Seq(U)
      BY <3>1, <1>2
    <3>3. flatten[n + 2] = flatten[n + 1] \o ss[n + 2]
      BY <3>1, <1>5
    <3> QED
      BY <3>2, <3>3
  <2>3. T \in SUBSET Nat
    OBVIOUS
  <2> HIDE DEF T
  <2>4. T = Nat
    BY <2>1, <2>2, <2>3, SetInduction
  <2>5. \A i \in 1..N : flatten[i] \in Seq(U)
    <3>1. \A i \in 1..N : i - 1 \in T /\ (i - 1) + 1 = i
      BY <2>4, <1>2
    <3> QED
      BY <3>1 DEF T
  <2>6. flatten = [i \in 1..N |-> flatten[i]]
    BY <1>4
  <2> QED
    BY <2>5, <2>6
<1> QED
  BY <1>1, <1>5, <1>6

Occurs(s, x) == \E n \in 1..Len(s) : s[n] = x
Distinct(s) == \A m, n \in 1..Len(s) : s[m] = s[n] => m = n
Disjoint(s, t) == \A x : ~ (Occurs(s, x) /\ Occurs(t, x))

\* What concatenation keeps.
LEMMA ConcatFacts ==
  ASSUME NEW U, NEW s \in Seq(U), NEW t \in Seq(U)
  PROVE  /\ s \o t \in Seq(U) /\ Len(s \o t) = Len(s) + Len(t)
         /\ \A x : Occurs(s \o t, x) <=> Occurs(s, x) \/ Occurs(t, x)
         /\ Distinct(s) /\ Distinct(t) /\ Disjoint(s, t) => Distinct(s \o t)
<1> DEFINE c == s \o t
<1>1. c \in Seq(U) /\ Len(c) = Len(s) + Len(t) /\ Len(s) \in Nat /\ Len(t) \in Nat
  OBVIOUS
<1>2. \A n \in 1..Len(s) : c[n] = s[n]
  OBVIOUS
<1>3. \A n \in 1..Len(t) : c[Len(s) + n] = t[n]
  OBVIOUS
<1> HIDE DEF c
<1>4. \A n \in 1..Len(c) : n \in 1..Len(s) \/ (n - Len(s) \in 1..Len(t) /\ n = Len(s) + (n - Len(s)))
  BY <1>1
<1>5. ASSUME NEW x PROVE Occurs(c, x) <=> Occurs(s, x) \/ Occurs(t, x)
  <2>1. ASSUME Occurs(s, x) PROVE Occurs(c, x)
    BY <2>1, <1>1, <1>2 DEF Occurs
  <2>2. ASSUME Occurs(t, x) PROVE Occurs(c, x)
    <3>1. PICK n \in 1..Len(t) : t[n] = x
      BY <2>2 DEF Occurs
    <3>2. Len(s) + n \in 1..Len(c) /\ c[Len(s) + n] = x
      BY <3>1, <1>1, <1>3
    <3> QED
      BY <3>2 DEF Occurs
  <2>3. ASSUME Occurs(c, x) PROVE Occurs(s, x) \/ Occurs(t, x)
    <3>1. PICK n \in 1..Len(c) : c[n] = x
      BY <2>3 DEF Occurs
    <3>2. CASE n \in 1..Len(s)
      BY <3>1, <3>2, <1>2 DEF Occurs
    <3>3. CASE n - Len(s) \in 1..Len(t) /\ n = Len(s) + (n - Len(s))
      <4>1. c[n] = t[n - Len(s)]
        BY <3>3, <1>3
      <4> QED
        BY <4>1, <3>1, <3>3 DEF Occurs
    <3> QED
      BY <3>2, <3>3, <1>4
  <2> QED
    BY <2>1, <2>2, <2>3
<1>6. ASSUME Distinct(s), Distinct(t), Disjoint(s, t), NEW m \in 1..Len(c), NEW n \in 1..Len(c),
             c[m] = c[n]
      PROVE  m = n
  <2>1. CASE m \in 1..Len(s) /\ n \in 1..Len(s)
    BY <2>1, <1>2, <1>6 DEF Distinct
  <2>2. CASE m \notin 1..Len(s) /\ n \notin 1..Len(s)
    <3>1. m - Len(s) \in 1..Len(t) /\ c[m] = t[m - Len(s)]
      BY <2>2, <1>3, <1>4
    <3>2. n - Len(s) \in 1..Len(t) /\ c[n] = t[n - Len(s)]
      BY <2>2, <1>3, <1>4
    <3>3. m - Len(s) = n - Len(s)
      BY <3>1, <3>2, <1>6 DEF Distinct
    <3> QED
      BY <3>3, <1>1
  <2>3. ASSUME NEW a \in 1..Len(c), NEW b \in 1..Len(c), a \in 1..Len(s), b \notin 1..Len(s), c[a] = c[b]
        PROVE  FALSE
    <3>1. Occurs(s, c[a])
      BY <2>3, <1>2 DEF Occurs
    <3>2. b - Len(s) \in 1..Len(t) /\ c[b] = t[b - Len(s)]
      BY <2>3, <1>3, <1>4
    <3>3. Occurs(t, c[b])
      BY <3>2 DEF Occurs
    <3> QED
      BY <3>1, <3>3, <2>3, <1>6 DEF Disjoint
  <2> QED
    BY <2>1, <2>2, <2>3, <1>6
<1>7. Distinct(s) /\ Distinct(t) /\ Disjoint(s, t) => Distinct(c)
  BY <1>6 DEF Distinct
<1> QED
  BY <1>1, <1>5, <1>7 DEF c

\* What flattening keeps: the elements, each list's length as a lower bound, and that no
\* element occurs twice when the lists have none in common.
LEMMA FlattenFacts ==
  ASSUME NEW U, NEW ss \in Seq(Seq(U))
  PROVE  /\ FlattenSeq(ss) \in Seq(U)
         /\ \A i \in 1..Len(ss) : Len(ss[i]) <= Len(FlattenSeq(ss))
         /\ \A x : Occurs(FlattenSeq(ss), x) <=> \E i \in 1..Len(ss) : Occurs(ss[i], x)
         /\ (/\ \A i \in 1..Len(ss) : Distinct(ss[i])
             /\ \A i, j \in 1..Len(ss) : i # j => Disjoint(ss[i], ss[j])) => Distinct(FlattenSeq(ss))
<1>1. CASE Len(ss) = 0
  <2>1. FlattenSeq(ss) = << >>
    BY <1>1 DEF FlattenSeq
  <2>2. Len(<< >>) = 0 /\ << >> \in Seq(U)
    OBVIOUS
  <2> QED
    BY <1>1, <2>1, <2>2 DEF Occurs, Distinct
<1>2. CASE Len(ss) # 0
  <2> DEFINE N == Len(ss)
  <2>1. N \in Nat \ {0} /\ \A i \in 1..N : ss[i] \in Seq(U) /\ Len(ss[i]) \in Nat
    BY <1>2
  <2>2. PICK f \in [1..N -> Seq(U)] : /\ FlattenSeq(ss) = f[N] /\ f[1] = ss[1]
                                      /\ \A i \in 2..N : f[i] = f[i - 1] \o ss[i]
    BY <1>2, FlattenDef
  <2> HIDE DEF N
  <2> DEFINE Apart == /\ \A i \in 1..N : Distinct(ss[i])
                      /\ \A i, j \in 1..N : i # j => Disjoint(ss[i], ss[j])
             Good(k) == /\ \A i \in 1..k : Len(ss[i]) <= Len(f[k])
                        /\ \A x : Occurs(f[k], x) <=> \E i \in 1..k : Occurs(ss[i], x)
                        /\ Apart => Distinct(f[k])
             T == {n \in Nat : n + 1 \in 1..N => Good(n + 1)}
  <2>3. 0 \in T
    <3>1. 1..1 = {1} /\ 1 \in 1..N /\ Len(ss[1]) \in Nat
      BY <2>1
    <3>2. Good(1)
      BY <3>1, <2>2
    <3> QED
      BY <3>2
  <2>4. ASSUME NEW n \in T PROVE n + 1 \in T
    <3> DEFINE k == n + 1
    <3> SUFFICES ASSUME k + 1 \in 1..N PROVE Good(k + 1)
      OBVIOUS
    <3>0. n \in Nat /\ N \in Nat /\ n + 2 <= N
      BY <2>1
    <3>1. k \in Nat /\ k \in 1..N /\ k + 1 \in 2..N /\ (k + 1) - 1 = k /\ 1..(k + 1) = 1..k \union {k + 1}
      <4> HIDE DEF T, Good
      <4>1. k \in Nat /\ k \in 1..N /\ k + 1 \in 2..N /\ (k + 1) - 1 = k
        BY ONLY <3>0
      <4>2. 1..(k + 1) = 1..k \union {k + 1}
        BY ONLY <3>0
      <4> QED
        BY <4>1, <4>2
    <3>2. Good(k)
      BY <3>1
    <3>3. f[k] \in Seq(U) /\ ss[k + 1] \in Seq(U) /\ f[k + 1] = f[k] \o ss[k + 1]
      BY <3>1, <2>1, <2>2
    <3> HIDE DEF k
    <3>4. /\ Len(f[k + 1]) = Len(f[k]) + Len(ss[k + 1])
          /\ \A x : Occurs(f[k + 1], x) <=> Occurs(f[k], x) \/ Occurs(ss[k + 1], x)
          /\ Distinct(f[k]) /\ Distinct(ss[k + 1]) /\ Disjoint(f[k], ss[k + 1]) => Distinct(f[k + 1])
      BY <3>3, ConcatFacts
    <3>5. \A i \in 1..(k + 1) : Len(ss[i]) <= Len(f[k + 1])
      <4>1. Len(f[k]) \in Nat /\ Len(ss[k + 1]) \in Nat
        BY <3>3
      <4>2. \A i \in 1..k : Len(ss[i]) \in Nat /\ Len(ss[i]) <= Len(f[k])
        BY <3>1, <3>2, <2>1
      <4> QED
        BY <3>1, <3>4, <4>1, <4>2
    <3>6. \A x : Occurs(f[k + 1], x) <=> \E i \in 1..(k + 1) : Occurs(ss[i], x)
      BY <3>1, <3>2, <3>4
    <3>7. ASSUME Apart PROVE Distinct(f[k + 1])
      <4>1. ASSUME NEW x, Occurs(f[k], x), Occurs(ss[k + 1], x) PROVE FALSE
        <5>1. PICK i \in 1..k : Occurs(ss[i], x)
          BY <4>1, <3>2
        <5>2. i # k + 1 /\ i \in 1..N
          BY <3>1, <2>1
        <5> QED
          BY <4>1, <5>1, <5>2, <3>1, <3>7 DEF Disjoint
      <4>2. Disjoint(f[k], ss[k + 1])
        BY <4>1 DEF Disjoint
      <4> QED
        BY <4>2, <3>1, <3>2, <3>4, <3>7
    <3> QED
      BY <3>5, <3>6, <3>7
  <2>5. T \in SUBSET Nat
    OBVIOUS
  <2> HIDE DEF T
  <2>6. T = Nat
    BY <2>3, <2>4, <2>5, SetInduction
  <2>7. Good(N)
    <3>1. N - 1 \in T /\ (N - 1) + 1 = N /\ N \in 1..N
      BY <2>1, <2>6
    <3> QED
      BY <3>1 DEF T
  <2>8. f[N] \in Seq(U)
    BY <2>1, <2>2
  <2> QED
    BY <2>2, <2>7, <2>8 DEF N
<1> QED
  BY <1>1, <1>2

(***************************************************************************)
(* Combinations                                                            *)
(***************************************************************************)
\* A function on 1..n is a sequence of length n.
LEMMA FunctionIsSeq ==
  ASSUME NEW S, NEW n \in Nat, NEW s \in [1..n -> S]
  PROVE  s \in Seq(S) /\ Len(s) = n
OBVIOUS

\* An element in front of a sequence can be taken off again.
LEMMA ConsInjective ==
  ASSUME NEW U, NEW x \in U, NEW y \in U, NEW v \in Seq(U), NEW w \in Seq(U),
         Cons(x, v) = Cons(y, w)
  PROVE  x = y /\ v = w
<1>1. ASSUME NEW z \in U, NEW u \in Seq(U)
      PROVE  (<<z>> \o u)[1] = z /\ Tail(<<z>> \o u) = u
  OBVIOUS
<1> DEFINE c == <<x>> \o v
<1>2. c[1] = x /\ Tail(c) = v
  BY <1>1
<1>3. c = <<y>> \o w
  BY DEF Cons
<1>4. c[1] = y /\ Tail(c) = w
  <2> HIDE DEF c
  <2>1. (<<y>> \o w)[1] = y /\ Tail(<<y>> \o w) = w
    BY <1>1
  <2> DEFINE d == <<y>> \o w
  <2>2. c = d /\ d[1] = y /\ Tail(d) = w
    BY <1>3, <2>1
  <2> HIDE DEF d
  <2> QED
    BY <2>2
<1> HIDE DEF c
<1> QED
  BY <1>2, <1>4

\* One level of backtrack: each element of l in front of each sequence of b.
Prefixed(l, b) == [i \in DOMAIN l |-> [c \in DOMAIN b |-> <<l[i]>> \o b[c]]]

ConsOf(l, b, w) == \E i \in 1..Len(l) : \E c \in 1..Len(b) : w = <<l[i]>> \o b[c]

\* What one level of backtrack returns.
LEMMA PrefixedFacts ==
  ASSUME NEW U, NEW l \in Seq(U), NEW b \in Seq(Seq(U))
  PROVE  /\ FlattenSeq(Prefixed(l, b)) \in Seq(Seq(U))
         /\ \A w : Occurs(FlattenSeq(Prefixed(l, b)), w) <=> ConsOf(l, b, w)
         /\ Distinct(l) /\ Distinct(b) => Distinct(FlattenSeq(Prefixed(l, b)))
<1> DEFINE P == Prefixed(l, b)
<1>1. DOMAIN l = 1..Len(l) /\ DOMAIN b = 1..Len(b) /\ Len(l) \in Nat /\ Len(b) \in Nat
  OBVIOUS
<1>2. ASSUME NEW i \in 1..Len(l), NEW c \in 1..Len(b) PROVE <<l[i]>> \o b[c] \in Seq(U)
  <2>1. l[i] \in U /\ b[c] \in Seq(U)
    BY <1>1
  <2> QED
    BY <2>1
<1>3. ASSUME NEW i \in 1..Len(l)
      PROVE  P[i] \in Seq(Seq(U)) /\ Len(P[i]) = Len(b) /\ \A c \in 1..Len(b) : P[i][c] = <<l[i]>> \o b[c]
  <2>1. P[i] = [c \in 1..Len(b) |-> <<l[i]>> \o b[c]]
    BY <1>1 DEF Prefixed
  <2>2. P[i] \in [1..Len(b) -> Seq(U)]
    BY <2>1, <1>2
  <2>3. P[i] \in Seq(Seq(U)) /\ Len(P[i]) = Len(b)
    <3> DEFINE p == P[i]
               V == Seq(U)
    <3>1. p \in [1..Len(b) -> V]
      BY <2>2
    <3> HIDE DEF p, V, P
    <3>2. p \in Seq(V) /\ Len(p) = Len(b)
      BY <3>1, <1>1, FunctionIsSeq
    <3> QED
      BY <3>2 DEF p, V
  <2> QED
    BY <2>1, <2>3
<1>4. P \in Seq(Seq(Seq(U))) /\ Len(P) = Len(l)
  <2>1. P \in [1..Len(l) -> Seq(Seq(U))]
    <3>1. P = [i \in 1..Len(l) |-> P[i]]
      BY <1>1 DEF Prefixed
    <3> HIDE DEF P
    <3> QED
      BY <3>1, <1>3
  <2> HIDE DEF P
  <2> QED
    BY <2>1, <1>1
<1> HIDE DEF P
<1>5. /\ FlattenSeq(P) \in Seq(Seq(U))
      /\ \A w : Occurs(FlattenSeq(P), w) <=> \E i \in 1..Len(P) : Occurs(P[i], w)
      /\ (/\ \A i \in 1..Len(P) : Distinct(P[i])
          /\ \A i, j \in 1..Len(P) : i # j => Disjoint(P[i], P[j])) => Distinct(FlattenSeq(P))
  <2> DEFINE V == Seq(U)
  <2>1. P \in Seq(Seq(V))
    BY <1>4
  <2> HIDE DEF V
  <2>2. /\ FlattenSeq(P) \in Seq(V)
        /\ \A w : Occurs(FlattenSeq(P), w) <=> \E i \in 1..Len(P) : Occurs(P[i], w)
        /\ (/\ \A i \in 1..Len(P) : Distinct(P[i])
            /\ \A i, j \in 1..Len(P) : i # j => Disjoint(P[i], P[j])) => Distinct(FlattenSeq(P))
    BY <2>1, FlattenFacts
  <2> QED
    BY <2>2 DEF V
<1>6. ASSUME NEW i \in 1..Len(l), NEW w
      PROVE  Occurs(P[i], w) <=> \E c \in 1..Len(b) : w = <<l[i]>> \o b[c]
  BY <1>3 DEF Occurs
<1>7. ASSUME NEW i \in 1..Len(l), NEW j \in 1..Len(l), NEW c \in 1..Len(b), NEW d \in 1..Len(b),
             <<l[i]>> \o b[c] = <<l[j]>> \o b[d]
      PROVE  l[i] = l[j] /\ b[c] = b[d]
  <2>1. l[i] \in U /\ l[j] \in U /\ b[c] \in Seq(U) /\ b[d] \in Seq(U)
    BY <1>1
  <2>2. Cons(l[i], b[c]) = Cons(l[j], b[d])
    BY <1>7 DEF Cons
  <2> QED
    BY <2>1, <2>2, ConsInjective
<1>8. ASSUME Distinct(l), Distinct(b) PROVE Distinct(FlattenSeq(P))
  <2>1. ASSUME NEW i \in 1..Len(l) PROVE Distinct(P[i])
    <3> SUFFICES ASSUME NEW c \in 1..Len(b), NEW d \in 1..Len(b), P[i][c] = P[i][d] PROVE c = d
      BY <1>3 DEF Distinct
    <3>1. <<l[i]>> \o b[c] = <<l[i]>> \o b[d]
      BY <1>3
    <3>2. b[c] = b[d]
      BY <3>1, <1>7
    <3> QED
      BY <3>2, <1>8 DEF Distinct
  <2>2. ASSUME NEW i \in 1..Len(l), NEW j \in 1..Len(l), i # j PROVE Disjoint(P[i], P[j])
    <3> SUFFICES ASSUME NEW w, Occurs(P[i], w), Occurs(P[j], w) PROVE FALSE
      BY DEF Disjoint
    <3>1. PICK c \in 1..Len(b) : w = <<l[i]>> \o b[c]
      BY <1>6
    <3>2. PICK d \in 1..Len(b) : w = <<l[j]>> \o b[d]
      BY <1>6
    <3>3. l[i] = l[j]
      <4>1. <<l[i]>> \o b[c] = <<l[j]>> \o b[d]
        BY <3>1, <3>2
      <4> QED
        BY <4>1, <1>7
    <3> QED
      BY <3>3, <2>2, <1>8 DEF Distinct
  <2> QED
    BY <2>1, <2>2, <1>4, <1>5
<1> QED
  BY <1>4, <1>5, <1>6, <1>8 DEF P, ConsOf

IsBacktrack(b, U, lst) ==
  /\ b \in [1..(Len(lst) + 1) -> Seq(Seq(U))]
  /\ b[Len(lst) + 1] = << <<>> >>
  /\ \A idx \in 1..Len(lst) : b[idx] = FlattenSeq(Prefixed(lst[idx], b[idx + 1]))

\* backtrack is a recursive function over the lists, from the last one.
LEMMA CombineDef ==
  ASSUME NEW U, NEW lst \in Seq(Seq(U))
  PROVE  \E b : IsBacktrack(b, U, lst) /\ Combine(lst) = b[1]
<1> DEFINE N == Len(lst)
           S == Seq(Seq(U))
           Level(idx, g) == IF idx > N THEN << <<>> >> ELSE FlattenSeq(Prefixed(lst[idx], g[idx + 1]))
           F(g) == [idx \in 1..N + 1 |-> Level(idx, g)]
           backtrack == CHOOSE g : g = F(g)
<1>1. Combine(lst) = backtrack[1]
  BY DEF Combine, Prefixed
<1>2. N \in Nat /\ \A i \in 1..N : lst[i] \in Seq(U)
  OBVIOUS
<1>3. << <<>> >> \in S
  OBVIOUS
<1>4. ASSUME NEW l \in Seq(U), NEW s \in S PROVE FlattenSeq(Prefixed(l, s)) \in S
  BY PrefixedFacts
<1> HIDE DEF S, N
<1>5. \E g : g = F(g)
  <2> DEFINE h == [n \in Nat |-> [s \in S |-> IF n < N THEN FlattenSeq(Prefixed(lst[N - n], s)) ELSE s]]
  <2>1. h \in Steps(S)
    <3>1. ASSUME NEW n \in Nat, NEW s \in S
          PROVE  (IF n < N THEN FlattenSeq(Prefixed(lst[N - n], s)) ELSE s) \in S
      <4>1. CASE n < N
        <5>1. N - n \in 1..N
          BY <1>2, <4>1
        <5> QED
          BY <5>1, <1>2, <1>4, <4>1
      <4> QED
        BY <4>1
    <3> QED
      BY <3>1 DEF Steps
  <2> HIDE DEF h
  <2>2. PICK g : Iterates(g, S, << <<>> >>, h)
    BY <2>1, <1>3, Recursion
  <2> DEFINE b == [idx \in 1..N + 1 |-> g[N + 1 - idx]]
  <2>3. ASSUME NEW idx \in 1..N + 1 PROVE b[idx] = Level(idx, b)
    <3>1. CASE idx > N
      <4>1. N + 1 - idx = 0
        BY <3>1, <1>2
      <4> QED
        BY <4>1, <3>1, <2>2 DEF Iterates
    <3>2. CASE ~ (idx > N)
      <4>1. /\ N - idx \in Nat /\ N - idx < N /\ N - (N - idx) = idx /\ N + 1 - idx = (N - idx) + 1
            /\ idx + 1 \in 1..N + 1 /\ N + 1 - (idx + 1) = N - idx
        BY <3>2, <1>2
      <4>2. g[N - idx] \in S /\ g[(N - idx) + 1] = h[N - idx][g[N - idx]]
        BY <4>1, <2>2 DEF Iterates
      <4>3. h[N - idx][g[N - idx]] = FlattenSeq(Prefixed(lst[idx], g[N - idx]))
        BY <4>1, <4>2 DEF h
      <4>4. b[idx] = g[(N - idx) + 1] /\ b[idx + 1] = g[N - idx]
        BY <4>1
      <4> QED
        BY <4>2, <4>3, <4>4, <3>2
    <3> QED
      BY <3>1, <3>2
  <2>4. b = F(b)
    <3> HIDE DEF Level
    <3>1. \A idx \in 1..N + 1 : b[idx] = F(b)[idx]
      BY <2>3
    <3>2. DOMAIN b = 1..N + 1 /\ DOMAIN F(b) = 1..N + 1 /\ b = [idx \in 1..N + 1 |-> b[idx]]
      OBVIOUS
    <3> HIDE DEF b
    <3> QED
      BY <3>1, <3>2
  <2> HIDE DEF b, F
  <2> QED
    BY <2>4
<1>6. backtrack = F(backtrack)
  <2> HIDE DEF F
  <2> QED
    BY <1>5
<1> HIDE DEF backtrack
<1>7. /\ backtrack[N + 1] = << <<>> >>
      /\ \A idx \in 1..N : backtrack[idx] = FlattenSeq(Prefixed(lst[idx], backtrack[idx + 1]))
  <2>1. \A idx \in 1..N + 1 : backtrack[idx] = Level(idx, backtrack)
    <3> HIDE DEF Level
    <3> QED
      BY <1>6
  <2>2. N + 1 \in 1..N + 1 /\ N + 1 > N /\ \A idx \in 1..N : idx \in 1..N + 1 /\ ~ (idx > N)
    BY <1>2
  <2> QED
    BY <2>1, <2>2
<1>8. \A idx \in 1..N + 1 : backtrack[idx] \in S
  <2> DEFINE T == {n \in Nat : n <= N => backtrack[N + 1 - n] \in S}
  <2>1. 0 \in T
    <3>1. N + 1 - 0 = N + 1
      BY <1>2
    <3>2. backtrack[N + 1 - 0] \in S
      BY <3>1, <1>3, <1>7
    <3> QED
      BY <3>2
  <2>2. ASSUME NEW n \in T PROVE n + 1 \in T
    <3> SUFFICES ASSUME n + 1 <= N PROVE backtrack[N + 1 - (n + 1)] \in S
      OBVIOUS
    <3>1. /\ n \in Nat /\ n <= N /\ N + 1 - (n + 1) = N - n /\ N - n \in 1..N
          /\ (N - n) + 1 = N + 1 - n
      BY <1>2
    <3>2. backtrack[(N - n) + 1] \in S
      BY <3>1
    <3> QED
      BY <3>1, <3>2, <1>2, <1>4, <1>7
  <2>3. T \in SUBSET Nat
    OBVIOUS
  <2> HIDE DEF T
  <2>4. T = Nat
    BY <2>1, <2>2, <2>3, SetInduction
  <2>5. ASSUME NEW idx \in 1..N + 1 PROVE backtrack[idx] \in S
    <3>1. N + 1 - idx \in T /\ N + 1 - idx <= N /\ N + 1 - (N + 1 - idx) = idx
      BY <2>4, <1>2
    <3> QED
      BY <3>1 DEF T
  <2> QED
    BY <2>5
<1>9. backtrack \in [1..N + 1 -> S]
  <2>1. backtrack = [idx \in 1..N + 1 |-> backtrack[idx]]
    <3> HIDE DEF Level
    <3> QED
      BY <1>6
  <2> HIDE DEF F
  <2> QED
    BY <2>1, <1>8
<1> QED
  BY <1>1, <1>7, <1>9 DEF N, S, IsBacktrack

\* w takes an element of each list from the list at idx on.
ChoiceFrom(lst, idx, w) ==
  Len(w) = Len(lst) + 1 - idx /\ \A i \in 1..Len(w) : Occurs(lst[idx - 1 + i], w[i])

\* A choice from idx on is an element of the list at idx in front of a choice from idx + 1 on.
LEMMA ChoiceCons ==
  ASSUME NEW U, NEW lst \in Seq(Seq(U)), NEW idx \in 1..Len(lst), NEW x \in U, NEW v \in Seq(U)
  PROVE  ChoiceFrom(lst, idx, <<x>> \o v) <=> Occurs(lst[idx], x) /\ ChoiceFrom(lst, idx + 1, v)
<1> DEFINE w == <<x>> \o v
<1>1. /\ Len(lst) \in Nat /\ Len(v) \in Nat /\ Len(w) = Len(v) + 1 /\ w[1] = x
      /\ \A i \in 1..Len(v) : w[i + 1] = v[i]
  OBVIOUS
<1> HIDE DEF w
<1>a. Len(lst) \in Nat /\ idx \in Int /\ Len(v) \in Nat /\ Len(w) = Len(v) + 1
  BY <1>1
<1>2. Len(w) = Len(lst) + 1 - idx <=> Len(v) = Len(lst) + 1 - (idx + 1)
  <2>1. CASE Len(w) = Len(lst) + 1 - idx
    <3>1. Len(v) + 1 = Len(lst) + 1 - idx
      BY ONLY <2>1, <1>a
    <3> QED
      BY <3>1, <2>1, <1>a
  <2>2. CASE Len(v) = Len(lst) + 1 - (idx + 1)
    BY <2>2, <1>a
  <2> QED
    BY ONLY <2>1, <2>2
<1>3. ASSUME \A i \in 1..Len(w) : Occurs(lst[idx - 1 + i], w[i])
      PROVE  Occurs(lst[idx], x) /\ \A i \in 1..Len(v) : Occurs(lst[(idx + 1) - 1 + i], v[i])
  <2>1. 1 \in 1..Len(w) /\ idx - 1 + 1 = idx
    BY <1>1
  <2>2. ASSUME NEW i \in 1..Len(v) PROVE Occurs(lst[(idx + 1) - 1 + i], v[i])
    <3>1. i + 1 \in 1..Len(w) /\ idx - 1 + (i + 1) = (idx + 1) - 1 + i
      BY <1>1
    <3>2. Occurs(lst[idx - 1 + (i + 1)], w[i + 1])
      BY <3>1, <1>3
    <3> QED
      BY <3>1, <3>2, <1>1
  <2>3. Occurs(lst[idx - 1 + 1], w[1])
    BY <2>1, <1>3
  <2> QED
    BY <2>1, <2>2, <2>3, <1>1
<1>4. ASSUME Occurs(lst[idx], x), \A i \in 1..Len(v) : Occurs(lst[(idx + 1) - 1 + i], v[i]),
             NEW i \in 1..Len(w)
      PROVE  Occurs(lst[idx - 1 + i], w[i])
  <2>1. CASE i = 1
    <3>1. idx - 1 + i = idx
      BY <2>1
    <3> QED
      BY <2>1, <3>1, <1>1, <1>4
  <2>2. CASE i # 1
    <3>1. i - 1 \in 1..Len(v) /\ (i - 1) + 1 = i /\ (idx + 1) - 1 + (i - 1) = idx - 1 + i
      <4>1. i \in 1..Len(w)
        OBVIOUS
      <4> QED
        BY ONLY <1>a, <2>2, <4>1
    <3>2. Occurs(lst[(idx + 1) - 1 + (i - 1)], v[i - 1]) /\ w[(i - 1) + 1] = v[i - 1]
      BY <3>1, <1>1, <1>4
    <3> QED
      BY <3>1, <3>2
  <2> QED
    BY <2>1, <2>2
<1> QED
  BY <1>2, <1>3, <1>4 DEF ChoiceFrom, w

\* backtrack returns exactly the choices of one element from each list, each of them once
\* when no list has an element twice.
THEOREM CombineFacts ==
  ASSUME NEW U, NEW lst \in Seq(Seq(U))
  PROVE  /\ Combine(lst) \in Seq(Seq(U))
         /\ \A w \in Seq(U) : Occurs(Combine(lst), w) <=>
              Len(w) = Len(lst) /\ \A i \in 1..Len(lst) : Occurs(lst[i], w[i])
         /\ (\A i \in 1..Len(lst) : Distinct(lst[i])) => Distinct(Combine(lst))
<1> DEFINE N == Len(lst)
<1>1. N \in Nat /\ \A i \in 1..N : lst[i] \in Seq(U)
  OBVIOUS
<1>2. PICK b : IsBacktrack(b, U, lst) /\ Combine(lst) = b[1]
  BY CombineDef
<1>b. /\ b \in [1..(N + 1) -> Seq(Seq(U))]
      /\ b[N + 1] = << <<>> >>
      /\ \A idx \in 1..N : b[idx] = FlattenSeq(Prefixed(lst[idx], b[idx + 1]))
  BY <1>2 DEF IsBacktrack
<1> DEFINE Good(idx) == /\ \A w \in Seq(U) : Occurs(b[idx], w) <=> ChoiceFrom(lst, idx, w)
                        /\ (\A i \in 1..N : Distinct(lst[i])) => Distinct(b[idx])
           T == {n \in Nat : n <= N => Good(N + 1 - n)}
<1>3. 0 \in T
  <2>1. N + 1 - 0 = N + 1 /\ Len(lst) + 1 - (N + 1) = 0
    BY <1>1
  <2>2. b[N + 1] = << <<>> >> /\ Len(<< <<>> >>) = 1 /\ << <<>> >>[1] = <<>>
    BY <1>b
  <2>3. ASSUME NEW w \in Seq(U) PROVE Occurs(b[N + 1], w) <=> ChoiceFrom(lst, N + 1, w)
    <3>1. Occurs(b[N + 1], w) <=> w = <<>>
      BY <2>2 DEF Occurs
    <3>2. w = <<>> <=> Len(w) = 0
      OBVIOUS
    <3>3. Len(w) = 0 => 1..Len(w) = {}
      OBVIOUS
    <3> HIDE DEF N
    <3> QED
      BY <3>1, <3>2, <3>3, <2>1 DEF ChoiceFrom
  <2>4. Distinct(b[N + 1])
    BY <2>2 DEF Distinct
  <2> HIDE DEF N
  <2> QED
    BY <2>1, <2>3, <2>4
<1>4. ASSUME NEW n \in T PROVE n + 1 \in T
  <2> DEFINE idx == N - n
  <2> SUFFICES ASSUME n + 1 <= N PROVE Good(N + 1 - (n + 1))
    OBVIOUS
  <2>1. /\ n \in Nat /\ n <= N /\ N + 1 - (n + 1) = idx /\ idx \in 1..N
        /\ idx + 1 = N + 1 - n /\ idx + 1 \in 1..(N + 1)
    BY <1>1
  <2>2. Good(idx + 1)
    BY <2>1
  <2> HIDE DEF idx
  <2>3. /\ lst[idx] \in Seq(U) /\ b[idx + 1] \in Seq(Seq(U))
        /\ b[idx] = FlattenSeq(Prefixed(lst[idx], b[idx + 1]))
    BY <2>1, <1>1, <1>b
  <2> DEFINE l == lst[idx]
             c == b[idx + 1]
  <2>4. /\ \A w : Occurs(b[idx], w) <=> ConsOf(l, c, w)
        /\ Distinct(l) /\ Distinct(c) => Distinct(b[idx])
    BY <2>3, PrefixedFacts
  <2>5. ASSUME NEW w \in Seq(U), Occurs(b[idx], w) PROVE ChoiceFrom(lst, idx, w)
    <3>1. PICK i \in 1..Len(l), k \in 1..Len(c) : w = <<l[i]>> \o c[k]
      BY <2>4, <2>5 DEF ConsOf
    <3>2. l[i] \in U /\ c[k] \in Seq(U)
      <4>1. l \in Seq(U) /\ c \in Seq(Seq(U)) /\ i \in 1..Len(l) /\ k \in 1..Len(c)
        BY <2>3
      <4> HIDE DEF l, c
      <4> QED
        BY ONLY <4>1
    <3>3. Occurs(l, l[i]) /\ Occurs(c, c[k])
      BY DEF Occurs
    <3>4. ChoiceFrom(lst, idx + 1, c[k])
      BY <3>2, <3>3, <2>2
    <3> QED
      BY <3>1, <3>2, <3>3, <3>4, <2>1, ChoiceCons
  <2>6. ASSUME NEW w \in Seq(U), ChoiceFrom(lst, idx, w) PROVE Occurs(b[idx], w)
    <3>1. Len(w) \in Nat \ {0}
      BY <2>1, <2>6, <1>1 DEF ChoiceFrom
    <3> DEFINE x == w[1]
               v == Tail(w)
    <3>2. x \in U /\ v \in Seq(U) /\ w = <<x>> \o v
      BY <3>1
    <3> HIDE DEF x, v
    <3>3. ChoiceFrom(lst, idx, <<x>> \o v)
      BY <3>2, <2>6
    <3>4. Occurs(l, x) /\ ChoiceFrom(lst, idx + 1, v)
      BY <3>2, <3>3, <2>1, ChoiceCons
    <3>5. Occurs(c, v)
      BY <3>2, <3>4, <2>2
    <3>6. PICK i \in 1..Len(l), k \in 1..Len(c) : l[i] = x /\ c[k] = v
      BY <3>4, <3>5 DEF Occurs
    <3>7. w = <<l[i]>> \o c[k]
      BY <3>2, <3>6
    <3> QED
      BY <3>7, <2>4 DEF ConsOf
  <2>7. ASSUME \A i \in 1..N : Distinct(lst[i]) PROVE Distinct(b[idx])
    BY <2>7, <2>1, <2>2, <2>4
  <2> QED
    BY <2>1, <2>5, <2>6, <2>7
<1>5. T \in SUBSET Nat
  OBVIOUS
<1> HIDE DEF T
<1>6. T = Nat
  BY <1>3, <1>4, <1>5, SetInduction
<1>7. Good(1)
  <2>1. N \in T /\ N <= N /\ N + 1 - N = 1
    BY <1>1, <1>6
  <2> QED
    BY <2>1 DEF T
<1>8. ASSUME NEW w \in Seq(U)
      PROVE  ChoiceFrom(lst, 1, w) <=> Len(w) = Len(lst) /\ \A i \in 1..Len(lst) : Occurs(lst[i], w[i])
  <2>1. Len(lst) + 1 - 1 = Len(lst) /\ \A i \in 1..Len(lst) : 1 - 1 + i = i
    BY <1>1
  <2> QED
    BY <2>1 DEF ChoiceFrom
<1>9. b[1] \in Seq(Seq(U))
  <2>1. 1 \in 1..(N + 1)
    BY <1>1
  <2> HIDE DEF N
  <2> QED
    BY <2>1, <1>b
<1> QED
  BY <1>2, <1>7, <1>8, <1>9

(***************************************************************************)
(* Ranges                                                                  *)
(***************************************************************************)
NextOf(p, i) == IF p.kind = "increment" THEN i + p.by ELSE i * p.by

IsRange(p) == p \in Flag /\ p.kind \in {"increment", "multiply"} /\ ~ Endless(p)

\* The loop variable of a range that ends goes up.
LEMMA RangeAdvances ==
  ASSUME NEW p, IsRange(p), NEW i \in AtLeast(p.minimum), i <= p.maximum
  PROVE  /\ NextOf(p, i) \in AtLeast(p.minimum) /\ NextOf(p, i) > i
         /\ p.kind = "increment" => p.by >= 1
         /\ p.kind = "multiply" => p.by >= 2 /\ i >= 1
<1>1. /\ p.minimum \in Int /\ p.maximum \in Int /\ p.by \in Int /\ i \in Int /\ i >= p.minimum
      /\ p.kind \in {"increment", "multiply"}
      /\ p.kind = "multiply" => p.minimum >= 0 /\ p.by >= 0
  BY DEF IsRange, Flag, AtLeast
<1>2. CASE p.kind = "increment"
  <2>1. p.by >= 1
    BY <1>1, <1>2 DEF IsRange, Endless
  <2> QED
    BY <2>1, <1>1, <1>2 DEF NextOf, AtLeast
<1>3. CASE p.kind = "multiply"
  <2>1. p.by >= 2 /\ p.minimum >= 1
    BY <1>1, <1>3 DEF IsRange, Endless
  <2>2. ASSUME NEW b \in Int, NEW n \in Int, b >= 2, n >= 1 PROVE n * b \in Int /\ n * b > n
    BY <2>2
  <2>3. i >= 1
    BY <2>1, <1>1
  <2>4. i * p.by \in Int /\ i * p.by > i
    BY <2>1, <2>2, <2>3, <1>1
  <2> QED
    BY <2>1, <2>3, <2>4, <1>1, <1>3 DEF NextOf, AtLeast
<1> QED
  BY <1>1, <1>2, <1>3

IsLoop(f, p) ==
  /\ DOMAIN f = AtLeast(p.minimum)
  /\ \A i \in AtLeast(p.minimum) : f[i] = IF i <= p.maximum THEN <<i>> \o f[NextOf(p, i)] ELSE <<>>

\* For a range that ends, the recursive function of GenerateValues has the equations it is
\* defined by.
LEMMA GenerateValuesDef ==
  ASSUME NEW p, IsRange(p)
  PROVE  \E f : IsLoop(f, p) /\ GenerateValues(p) = f[p.minimum]
<1> DEFINE D == AtLeast(p.minimum)
           max == p.maximum
           Body(f, i) == IF i <= max THEN <<i>> \o f[NextOf(p, i)] ELSE <<>>
           F(f) == [i \in D |-> Body(f, i)]
           from == CHOOSE f : f = F(f)
           S == [D -> Seq(Int)]
<1>1. GenerateValues(p) = from[p.minimum]
  BY DEF GenerateValues, NextOf
<1>2. max \in Int /\ \A i \in D : i \in Int
  BY DEF IsRange, Flag, AtLeast
<1>3. ASSUME NEW i \in D, i <= max PROVE NextOf(p, i) \in D /\ NextOf(p, i) > i
  BY <1>3, RangeAdvances
<1> HIDE DEF max, D
<1>4. ASSUME NEW g \in S PROVE F(g) \in S
  <2>1. ASSUME NEW i \in D PROVE Body(g, i) \in Seq(Int)
    <3>1. CASE i <= max
      <4>1. g[NextOf(p, i)] \in Seq(Int)
        BY <1>3, <3>1
      <4>2. <<i>> \in Seq(Int)
        BY <1>2
      <4>3. <<i>> \o g[NextOf(p, i)] \in Seq(Int)
        BY <4>1, <4>2
      <4> QED
        BY <4>3, <3>1
    <3>2. CASE ~ (i <= max)
      BY <3>2
    <3> QED
      BY <3>1, <3>2
  <2> HIDE DEF Body
  <2> QED
    BY <2>1
<1>5. \E f : f = F(f)
  <2> DEFINE none == [i \in D |-> <<>>]
             h == [n \in Nat |-> [g \in S |-> F(g)]]
  <2>1. none \in S
    OBVIOUS
  <2>2. h \in Steps(S)
    <3> HIDE DEF F, S
    <3> QED
      BY <1>4 DEF Steps
  <2>3. PICK G : Iterates(G, S, none, h)
    <3> HIDE DEF none, h, S
    <3> QED
      BY <2>1, <2>2, Recursion
  <2>4. G[0] = none /\ \A n \in Nat : G[n] \in S /\ G[n + 1] = F(G[n])
    <3> HIDE DEF none, F, S
    <3> QED
      BY <2>3 DEF Iterates
  <2> HIDE DEF h
  <2>5. ASSUME NEW i \in D, i > max, NEW n \in Nat PROVE G[n][i] = <<>>
    <3>1. CASE n = 0
      BY <3>1, <2>4
    <3>2. CASE n # 0
      <4>1. n - 1 \in Nat /\ (n - 1) + 1 = n
        BY <3>2
      <4>2. G[n] = F(G[n - 1])
        BY <4>1, <2>4
      <4> QED
        BY <4>2, <2>5, <1>2
    <3> QED
      BY <3>1, <3>2
  <2>6. ASSUME NEW i \in D, i <= max, NEW n \in Nat PROVE G[n + 1][i] = <<i>> \o G[n][NextOf(p, i)]
    BY <2>4, <2>6
  <2> DEFINE Stable(n) == \A i \in D : max + 1 - i <= n => G[n + 1][i] = G[n][i]
             T == {n \in Nat : Stable(n)}
  <2>7. 0 \in T
    <3>1. ASSUME NEW i \in D, max + 1 - i <= 0 PROVE G[0 + 1][i] = G[0][i]
      <4>1. i > max
        BY <3>1, <1>2
      <4>2. 0 \in Nat /\ 0 + 1 \in Nat
        OBVIOUS
      <4> QED
        BY <4>1, <4>2, <2>5
    <3> QED
      BY <3>1
  <2>8. ASSUME NEW n \in T PROVE n + 1 \in T
    <3> SUFFICES ASSUME NEW i \in D, max + 1 - i <= n + 1 PROVE G[(n + 1) + 1][i] = G[n + 1][i]
      OBVIOUS
    <3>0. n \in Nat /\ n + 1 \in Nat /\ (n + 1) + 1 \in Nat
      OBVIOUS
    <3>1. CASE i > max
      BY <3>0, <3>1, <2>5
    <3>2. CASE ~ (i > max)
      <4>0. i <= max
        BY <3>2, <1>2
      <4>1. NextOf(p, i) \in D /\ NextOf(p, i) > i
        BY <4>0, <1>3
      <4>2. max + 1 - NextOf(p, i) <= n
        BY <4>1, <1>2, <3>0
      <4>3. G[n + 1][NextOf(p, i)] = G[n][NextOf(p, i)]
        BY <4>1, <4>2
      <4>4. G[(n + 1) + 1][i] = <<i>> \o G[n + 1][NextOf(p, i)]
        BY <2>6, <3>0, <4>0
      <4>5. G[n + 1][i] = <<i>> \o G[n][NextOf(p, i)]
        BY <2>6, <3>0, <4>0
      <4> QED
        BY <4>3, <4>4, <4>5
    <3> QED
      BY <3>1, <3>2
  <2>9. T = Nat
    <3>1. T \in SUBSET Nat
      OBVIOUS
    <3> HIDE DEF T
    <3> QED
      BY <3>1, <2>7, <2>8, SetInduction
  <2> DEFINE M(i) == IF i > max THEN 0 ELSE max + 1 - i
             U == {k \in Nat : \A i \in D : G[M(i) + k][i] = G[M(i)][i]}
  <2>10. ASSUME NEW i \in D PROVE M(i) \in Nat /\ max + 1 - i <= M(i)
    BY <1>2
  <2>11. U = Nat
    <3>1. 0 \in U
      <4>1. \A i \in D : M(i) + 0 = M(i)
        BY <2>10
      <4> HIDE DEF M
      <4> QED
        BY <4>1
    <3>2. ASSUME NEW k \in U PROVE k + 1 \in U
      <4> SUFFICES ASSUME NEW i \in D PROVE G[M(i) + (k + 1)][i] = G[M(i)][i]
        OBVIOUS
      <4> HIDE DEF M
      <4>1. k \in Nat /\ M(i) + k \in Nat /\ max + 1 - i <= M(i) + k /\ M(i) + (k + 1) = (M(i) + k) + 1
        BY <2>10, <1>2
      <4>2. G[(M(i) + k) + 1][i] = G[M(i) + k][i]
        BY <4>1, <2>9
      <4> QED
        BY <4>1, <4>2
    <3>3. U \in SUBSET Nat
      OBVIOUS
    <3> HIDE DEF U
    <3> QED
      BY <3>1, <3>2, <3>3, SetInduction
  <2> DEFINE f == [i \in D |-> G[M(i)][i]]
  <2>12. ASSUME NEW i \in D PROVE f[i] = Body(f, i)
    <3>1. CASE i > max
      BY <3>1, <1>2, <2>5
    <3>2. CASE ~ (i > max)
      <4>0. i <= max
        BY <3>2, <1>2
      <4>1. NextOf(p, i) \in D /\ NextOf(p, i) > i
        BY <4>0, <1>3
      <4> DEFINE j == NextOf(p, i)
                 n == M(i) - 1
      <4>2. n \in Nat /\ n + 1 = M(i) /\ n - M(j) \in Nat /\ M(j) + (n - M(j)) = n /\ M(j) \in Nat
        BY <4>0, <4>1, <1>2
      <4> HIDE DEF j, n, M
      <4>3. G[n + 1][i] = <<i>> \o G[n][j]
        BY <2>6, <4>0, <4>2 DEF j
      <4>4. G[M(j) + (n - M(j))][j] = G[M(j)][j]
        BY <2>11, <4>1, <4>2 DEF j
      <4>5. f[i] = G[M(i)][i] /\ f[j] = G[M(j)][j]
        BY <4>1 DEF j
      <4> QED
        BY <4>0, <4>2, <4>3, <4>4, <4>5 DEF j
    <3> QED
      BY <3>1, <3>2
  <2>13. f = F(f)
    <3> HIDE DEF Body, M
    <3>1. \A i \in D : f[i] = F(f)[i]
      BY <2>12
    <3>2. DOMAIN f = D /\ DOMAIN F(f) = D /\ f = [i \in D |-> f[i]]
      OBVIOUS
    <3> HIDE DEF f
    <3> QED
      BY <3>1, <3>2
  <2> HIDE DEF f, F
  <2> QED
    BY <2>13
<1>6. from = F(from)
  <2> HIDE DEF F
  <2> QED
    BY <1>5
<1> HIDE DEF from
<1>7. IsLoop(from, p)
  <2>1. DOMAIN from = D /\ \A i \in D : from[i] = Body(from, i)
    <3> HIDE DEF Body
    <3> QED
      BY <1>6
  <2> QED
    BY <2>1 DEF IsLoop, D, max
<1> QED
  BY <1>1, <1>7

\* Power is the power.
LEMMA PowerDef ==
  ASSUME NEW b \in Int, b >= 2
  PROVE  /\ Power(b, 0) = 1
         /\ \A k \in Nat : Power(b, k) \in Nat /\ Power(b, k + 1) = b * Power(b, k) /\ Power(b, k) > k
<1> DEFINE F(g) == [k \in Nat |-> IF k = 0 THEN 1 ELSE b * g[k - 1]]
           pow == CHOOSE g : g = F(g)
<1>1. \A n : Power(b, n) = pow[n]
  BY DEF Power
<1>2. \E g : g = F(g)
  <2> DEFINE h == [n \in Nat |-> [x \in Int |-> b * x]]
  <2>1. h \in Steps(Int) /\ 1 \in Int
    BY DEF Steps
  <2>2. PICK g : Iterates(g, Int, 1, h)
    <3> HIDE DEF h
    <3> QED
      BY <2>1, Recursion
  <2>3. g \in [Nat -> Int] /\ g[0] = 1 /\ \A n \in Nat : g[n] \in Int /\ g[n + 1] = h[n][g[n]]
    BY <2>2 DEF Iterates
  <2>4. \A n \in Nat : g[n + 1] = b * g[n]
    BY <2>3
  <2>5. ASSUME NEW k \in Nat PROVE g[k] = IF k = 0 THEN 1 ELSE b * g[k - 1]
    <3>1. CASE k = 0
      BY <3>1, <2>3
    <3>2. CASE k # 0
      <4>1. k - 1 \in Nat /\ (k - 1) + 1 = k
        BY <3>2
      <4> QED
        BY <4>1, <2>4, <3>2
    <3> QED
      BY <3>1, <3>2
  <2>6. g = F(g)
    BY <2>3, <2>5
  <2> HIDE DEF F
  <2> QED
    BY <2>6
<1>3. pow = F(pow)
  <2> HIDE DEF F
  <2> QED
    BY <1>2
<1> HIDE DEF pow
<1>4. \A k \in Nat : pow[k] = IF k = 0 THEN 1 ELSE b * pow[k - 1]
  BY <1>3
<1>5. pow[0] = 1
  BY <1>4
<1>6. ASSUME NEW k \in Nat PROVE pow[k + 1] = b * pow[k]
  <2>1. k + 1 \in Nat /\ k + 1 # 0 /\ (k + 1) - 1 = k
    OBVIOUS
  <2> QED
    BY <2>1, <1>4
<1> DEFINE T == {k \in Nat : pow[k] \in Nat /\ pow[k] > k}
<1>7. 0 \in T
  BY <1>5
<1>8. ASSUME NEW k \in T PROVE k + 1 \in T
  <2>1. ASSUME NEW x \in Nat, NEW n \in Nat, x > n PROVE b * x \in Nat /\ b * x > n + 1
    <3>1. b * x = x + (b - 1) * x /\ (b - 1) * x >= x
      BY <2>1
    <3>2. b * x \in Int
      OBVIOUS
    <3> QED
      BY <3>1, <3>2, <2>1
  <2> QED
    BY <2>1, <1>6
<1>9. T = Nat
  <2>1. T \in SUBSET Nat
    OBVIOUS
  <2> HIDE DEF T
  <2> QED
    BY <1>7, <1>8, <2>1, SetInduction
<1> QED
  BY <1>1, <1>5, <1>6, <1>9

\* The loop started at i passes v, if nothing stops it before.
Reaches(p, i, v) == \E k \in Nat : v = IF p.kind = "increment" THEN i + k * p.by ELSE i * Power(p.by, k)

\* What the loop passes from i: i, and what it passes from the next value on.
LEMMA ReachesFacts ==
  ASSUME NEW p, IsRange(p), NEW i \in AtLeast(p.minimum), i <= p.maximum, NEW v \in Int
  PROVE  /\ Reaches(p, i, i)
         /\ Reaches(p, NextOf(p, i), v) => Reaches(p, i, v)
         /\ Reaches(p, i, v) => v = i \/ (Reaches(p, NextOf(p, i), v) /\ v >= NextOf(p, i))
<1>1. /\ i \in Int /\ p.by \in Int /\ p.kind \in {"increment", "multiply"}
      /\ p.kind = "increment" => p.by >= 1
      /\ p.kind = "multiply" => p.by >= 2 /\ i >= 1
  BY RangeAdvances DEF IsRange, Flag, AtLeast
<1> DEFINE b == p.by
<1>2. CASE p.kind = "increment"
  <2>1. b \in Int /\ b >= 1 /\ NextOf(p, i) = i + b
    BY <1>1, <1>2 DEF NextOf
  <2>2. \A j : Reaches(p, j, v) <=> \E k \in Nat : v = j + k * b
    BY <1>2 DEF Reaches
  <2>3. Reaches(p, i, i)
    <3>1. i = i + 0 * b
      BY <1>1, <2>1
    <3> QED
      BY <3>1, <1>2 DEF Reaches
  <2> HIDE DEF b
  <2>4. ASSUME NEW k \in Nat, v = (i + b) + k * b PROVE \E n \in Nat : v = i + n * b
    <3>1. v = i + (k + 1) * b
      BY <2>1, <2>4, <1>1
    <3> QED
      BY <3>1
  <2>5. ASSUME NEW k \in Nat, v = i + k * b, k # 0
        PROVE  v >= i + b /\ \E n \in Nat : v = (i + b) + n * b
    <3>1. k - 1 \in Nat /\ k * b = (k - 1) * b + b /\ (k - 1) * b >= 0
      BY <2>1, <2>5
    <3>2. v = (i + b) + (k - 1) * b /\ v >= i + b
      BY <3>1, <2>1, <2>5, <1>1
    <3> QED
      BY <3>1, <3>2
  <2>6. ASSUME NEW k \in Nat, v = i + k * b, k = 0 PROVE v = i
    BY <2>1, <2>6, <1>1
  <2> QED
    BY <2>1, <2>2, <2>3, <2>4, <2>5, <2>6
<1>3. CASE p.kind = "multiply"
  <2>1. b \in Int /\ b >= 2 /\ NextOf(p, i) = i * b /\ i >= 1
    BY <1>1, <1>3 DEF NextOf
  <2>2. \A j : Reaches(p, j, v) <=> \E k \in Nat : v = j * Power(b, k)
    BY <1>3 DEF Reaches
  <2>a. Power(b, 0) = 1 /\ \A k \in Nat : Power(b, k) \in Nat /\ Power(b, k + 1) = b * Power(b, k) /\ Power(b, k) > k
    BY <2>1, PowerDef
  <2>3. Reaches(p, i, i)
    <3>1. i = i * Power(b, 0)
      BY <1>1, <2>a
    <3> QED
      BY <3>1, <1>3 DEF Reaches
  <2> HIDE DEF b
  <2>4. ASSUME NEW k \in Nat, v = (i * b) * Power(b, k) PROVE \E n \in Nat : v = i * Power(b, n)
    <3>1. ASSUME NEW x \in Nat PROVE (i * b) * x = i * (b * x)
      BY <1>1, <2>1
    <3>2. v = i * Power(b, k + 1) /\ k + 1 \in Nat
      BY <3>1, <2>a, <2>4
    <3> QED
      BY <3>2
  <2>5. ASSUME NEW k \in Nat, v = i * Power(b, k), k # 0
        PROVE  v >= i * b /\ \E n \in Nat : v = (i * b) * Power(b, n)
    <3>1. k - 1 \in Nat /\ (k - 1) + 1 = k
      BY <2>5
    <3> DEFINE x == Power(b, k - 1)
    <3>2. x \in Nat /\ x >= 1 /\ Power(b, k) = b * x
      BY <3>1, <2>a
    <3> HIDE DEF x
    <3>3. v = (i * b) * x
      <4>1. v = i * (b * x)
        BY <3>2, <2>5
      <4> QED
        BY <4>1, <3>2, <2>1, <1>1
    <3>4. i * b \in Int /\ i * b >= 0
      BY <2>1, <1>1
    <3>5. ASSUME NEW m \in Int, m >= 0 PROVE m * x >= m
      BY <3>5, <3>2
    <3>6. v >= i * b
      BY <3>3, <3>4, <3>5
    <3> QED
      BY <3>1, <3>3, <3>6 DEF x
  <2>6. ASSUME NEW k \in Nat, v = i * Power(b, k), k = 0 PROVE v = i
    BY <2>a, <2>6, <1>1
  <2> QED
    BY <2>1, <2>2, <2>3, <2>4, <2>5, <2>6
<1> QED
  BY <1>1, <1>2, <1>3

\* The values of a range that ends are those the loop passes up to the maximum, each once.
LEMMA RangeValues ==
  ASSUME NEW p, IsRange(p)
  PROVE  /\ GenerateValues(p) \in Seq(Int) /\ Distinct(GenerateValues(p))
         /\ \A v : Occurs(GenerateValues(p), v) <=>
                     v \in p.minimum..p.maximum /\ Reaches(p, p.minimum, v)
<1> DEFINE D == AtLeast(p.minimum)
           max == p.maximum
<1>1. PICK f : IsLoop(f, p) /\ GenerateValues(p) = f[p.minimum]
  BY GenerateValuesDef
<1>2. max \in Int /\ p.minimum \in Int /\ p.minimum \in D /\ \A i \in D : i \in Int
  BY DEF IsRange, Flag, AtLeast
<1> DEFINE Good(i) == /\ f[i] \in Seq(Int) /\ Distinct(f[i])
                      /\ \A v : Occurs(f[i], v) <=> v \in i..max /\ Reaches(p, i, v)
           T == {n \in Nat : \A i \in D : max + 1 - i <= n => Good(i)}
<1>3. ASSUME NEW i \in D, i > max PROVE Good(i)
  <2>1. f[i] = <<>>
    <3>1. ~ (i <= p.maximum)
      BY <1>2, <1>3
    <3>2. f[i] = IF i <= p.maximum THEN <<i>> \o f[NextOf(p, i)] ELSE <<>>
      BY <1>1 DEF IsLoop
    <3> QED
      BY <3>1, <3>2
  <2>2. i..max = {}
    BY <1>2, <1>3
  <2>3. <<>> \in Seq(Int) /\ Len(<<>>) = 0
    OBVIOUS
  <2>4. Distinct(<<>>) /\ \A v : ~ Occurs(<<>>, v)
    BY <2>3 DEF Distinct, Occurs
  <2> QED
    BY <2>1, <2>2, <2>3, <2>4
<1>4. 0 \in T
  <2>1. ASSUME NEW i \in D, max + 1 - i <= 0 PROVE i > max
    BY <1>2, <2>1
  <2> HIDE DEF Good
  <2> QED
    BY <1>3, <2>1
<1>5. ASSUME NEW n \in T PROVE n + 1 \in T
  <2> SUFFICES ASSUME NEW i \in D, max + 1 - i <= n + 1, i <= max PROVE Good(i)
    <3>1. \A i \in D : i > max \/ i <= max
      BY <1>2
    <3> HIDE DEF Good
    <3> QED
      BY <3>1, <1>3
  <2> DEFINE j == NextOf(p, i)
  <2>1. j \in D /\ j > i
    BY RangeAdvances
  <2>2. Good(j)
    <3>1. max + 1 - j <= n /\ n \in Nat
      BY <1>2, <2>1
    <3> HIDE DEF Good
    <3> QED
      BY <3>1, <2>1
  <2>3. f[i] = <<i>> \o f[j]
    BY <1>1 DEF IsLoop
  <2>4. ASSUME NEW v \in Int
        PROVE  /\ Reaches(p, j, v) => Reaches(p, i, v)
               /\ Reaches(p, i, v) => v = i \/ (Reaches(p, j, v) /\ v >= j)
    BY ReachesFacts
  <2>5. Reaches(p, i, i)
    BY <1>2, ReachesFacts
  <2> HIDE DEF j
  <2>6. i \in Int /\ j \in Int /\ max \in Int
    BY <1>2, <2>1
  <2>7. <<i>> \in Seq(Int) /\ Len(<<i>>) = 1 /\ <<i>>[1] = i
    BY <2>6
  <2>8. Distinct(<<i>>) /\ \A v : Occurs(<<i>>, v) <=> v = i
    BY <2>7 DEF Distinct, Occurs
  <2>9. Disjoint(<<i>>, f[j])
    <3>1. ~ Occurs(f[j], i)
      BY <2>1, <2>2, <2>6
    <3> QED
      BY <2>8, <3>1 DEF Disjoint
  <2>10. /\ f[i] \in Seq(Int)
         /\ \A v : Occurs(f[i], v) <=> Occurs(<<i>>, v) \/ Occurs(f[j], v)
         /\ Distinct(<<i>>) /\ Distinct(f[j]) /\ Disjoint(<<i>>, f[j]) => Distinct(f[i])
    <3>1. f[j] \in Seq(Int)
      BY <2>2
    <3> DEFINE s == <<i>>
               t == f[j]
    <3>2. s \in Seq(Int) /\ t \in Seq(Int) /\ f[i] = s \o t
      BY <2>3, <2>7, <3>1
    <3> HIDE DEF s, t
    <3>3. /\ s \o t \in Seq(Int)
          /\ \A v : Occurs(s \o t, v) <=> Occurs(s, v) \/ Occurs(t, v)
          /\ Distinct(s) /\ Distinct(t) /\ Disjoint(s, t) => Distinct(s \o t)
      BY ONLY <3>2, ConcatFacts
    <3>4. /\ f[i] \in Seq(Int)
          /\ \A v : Occurs(f[i], v) <=> Occurs(s, v) \/ Occurs(t, v)
          /\ Distinct(s) /\ Distinct(t) /\ Disjoint(s, t) => Distinct(f[i])
      BY ONLY <3>2, <3>3
    <3> QED
      BY ONLY <3>4 DEF s, t
  <2>11. ASSUME NEW v, v = i \/ Occurs(f[j], v) PROVE v \in i..max /\ Reaches(p, i, v)
    <3>1. CASE v = i
      BY <3>1, <2>5, <2>6
    <3>2. CASE Occurs(f[j], v)
      <4>1. v \in j..max /\ Reaches(p, j, v)
        BY <3>2, <2>2
      <4>2. v \in Int /\ v \in i..max
        BY <4>1, <2>1, <2>6
      <4> QED
        BY <4>1, <4>2, <2>4
    <3> QED
      BY <3>1, <3>2, <2>11
  <2>12. ASSUME NEW v, v \in i..max, Reaches(p, i, v) PROVE v = i \/ Occurs(f[j], v)
    <3>1. v \in Int
      BY <2>12, <2>6
    <3>2. v = i \/ (Reaches(p, j, v) /\ v >= j)
      BY <3>1, <2>4, <2>12
    <3>3. v >= j => v \in j..max
      BY <3>1, <2>6, <2>12
    <3> QED
      BY <3>2, <3>3, <2>2
  <2> QED
    BY <2>2, <2>8, <2>9, <2>10, <2>11, <2>12
<1>6. T = Nat
  <2>1. T \in SUBSET Nat
    OBVIOUS
  <2> HIDE DEF T
  <2> QED
    BY <1>4, <1>5, <2>1, SetInduction
<1>7. Good(p.minimum)
  <2>1. CASE p.minimum > max
    BY <2>1, <1>2, <1>3
  <2>2. CASE ~ (p.minimum > max)
    <3>1. max + 1 - p.minimum \in Nat /\ max + 1 - p.minimum <= max + 1 - p.minimum
      BY <2>2, <1>2
    <3> HIDE DEF Good
    <3> QED
      BY <3>1, <1>2, <1>6
  <2> QED
    BY <2>1, <2>2
<1> QED
  BY <1>1, <1>7

\* A multiple of b leaves no remainder, and nothing else does.
LEMMA Multiples ==
  ASSUME NEW b \in Nat, b >= 1, NEW a \in Nat
  PROVE  a % b = 0 <=> \E k \in Nat : a = k * b
<1> DEFINE Split(n) == \E k \in Nat : \E r \in 0..(b - 1) : n = k * b + r
           T == {n \in Nat : Split(n)}
<1>1. 0 \in T
  <2>1. 0 = 0 * b + 0 /\ 0 \in 0..(b - 1) /\ 0 \in Nat
    OBVIOUS
  <2> QED
    BY <2>1
<1>2. ASSUME NEW n \in T PROVE n + 1 \in T
  <2>1. PICK k \in Nat, r \in 0..(b - 1) : n = k * b + r
    OBVIOUS
  <2> SUFFICES Split(n + 1)
    <3>1. n + 1 \in Nat
      OBVIOUS
    <3> HIDE DEF Split
    <3> QED
      BY <3>1
  <2>2. CASE r + 1 = b
    <3>1. n + 1 = (k + 1) * b + 0 /\ 0 \in 0..(b - 1) /\ k + 1 \in Nat
      BY <2>1, <2>2
    <3> QED
      BY <3>1
  <2>3. CASE r + 1 # b
    <3>1. r + 1 \in 0..(b - 1)
      BY <2>3
    <3>2. n + 1 = k * b + (r + 1)
      <4>1. k * b \in Int /\ r \in Int
        OBVIOUS
      <4> QED
        BY <2>1, <4>1
    <3> QED
      BY <3>1, <3>2
  <2> QED
    BY <2>2, <2>3
<1>3. T = Nat
  <2>1. T \in SUBSET Nat
    OBVIOUS
  <2> HIDE DEF T
  <2> QED
    BY <1>1, <1>2, <2>1, SetInduction
<1>4. PICK k \in Nat, r \in 0..(b - 1) : a = k * b + r
  BY <1>3
<1>5. ASSUME NEW m \in Nat, NEW q \in 0..(b - 1), a = m * b + q PROVE a % b = q
  BY <1>5
<1>6. a % b = r
  BY <1>4, <1>5
<1>7. ASSUME a % b = 0 PROVE \E m \in Nat : a = m * b
  <2>1. a = k * b
    BY <1>4, <1>6, <1>7
  <2> QED
    BY <2>1
<1>8. ASSUME NEW m \in Nat, a = m * b PROVE a % b = 0
  <2>1. a = m * b + 0 /\ 0 \in 0..(b - 1)
    BY <1>8
  <2> QED
    BY <2>1, <1>5
<1> QED
  BY <1>7, <1>8

\* The loops of the two ranges return the values the range stands for, each once.
THEOREM RangeExact ==
  ASSUME NEW p, IsRange(p)
  PROVE  /\ GenerateValues(p) \in Seq(Int) /\ Distinct(GenerateValues(p))
         /\ \A v : Occurs(GenerateValues(p), v) <=> v \in ValuesOf(p)
<1> DEFINE min == p.minimum
           max == p.maximum
           b == p.by
<1>1. /\ min \in Int /\ max \in Int /\ b \in Int
      /\ p.kind \in {"increment", "multiply"}
  BY DEF IsRange, Flag
<1>2. ASSUME NEW v, v \in min..max PROVE Reaches(p, min, v) <=> v \in ValuesOf(p)
  <2>0. min <= max /\ min \in AtLeast(min) /\ v \in Int /\ v >= min /\ v <= max
    BY <1>1, <1>2 DEF AtLeast
  <2>1. /\ p.kind = "increment" => b >= 1
        /\ p.kind = "multiply" => b >= 2 /\ min >= 1
    BY <2>0, RangeAdvances
  <2>2. CASE p.kind = "increment"
    <3>1. v \in ValuesOf(p) <=> (v - min) % b = 0
      BY <1>2, <2>2 DEF ValuesOf
    <3>2. Reaches(p, min, v) <=> \E k \in Nat : v = min + k * b
      BY <2>2 DEF Reaches
    <3> HIDE DEF min, max, b
    <3>3. v - min \in Nat /\ b \in Nat /\ b >= 1
      BY <1>1, <2>0, <2>1, <2>2
    <3>4. (v - min) % b = 0 <=> \E k \in Nat : v - min = k * b
      BY <3>3, Multiples
    <3>5. ASSUME NEW k \in Nat PROVE v - min = k * b <=> v = min + k * b
      BY <1>1, <2>0, <3>3
    <3> QED
      BY <3>1, <3>2, <3>4, <3>5
  <2>3. CASE p.kind = "multiply"
    <3>1. v \in ValuesOf(p) <=> \E k \in 0..max : v = min * Power(b, k)
      BY <1>2, <2>3 DEF ValuesOf
    <3>2. Reaches(p, min, v) <=> \E k \in Nat : v = min * Power(b, k)
      BY <2>3 DEF Reaches
    <3> HIDE DEF min, max, b
    <3>3. \A k \in Nat : Power(b, k) \in Nat /\ Power(b, k) > k
      BY <1>1, <2>1, <2>3, PowerDef
    <3>4. ASSUME NEW k \in Nat, v = min * Power(b, k) PROVE k \in 0..max
      <4> DEFINE x == Power(b, k)
      <4>1. x \in Nat /\ x > k /\ v = min * x
        BY <3>3, <3>4
      <4> HIDE DEF x
      <4>2. min * x >= x
        BY <4>1, <1>1, <2>1, <2>3
      <4> QED
        BY <4>1, <4>2, <2>0, <1>1
    <3>5. \A k \in 0..max : k \in Nat
      BY <1>1
    <3> QED
      BY <3>1, <3>2, <3>4, <3>5
  <2> QED
    BY <1>1, <2>2, <2>3
<1>3. ASSUME NEW v \in ValuesOf(p) PROVE v \in min..max
  <2>1. CASE p.kind = "increment"
    BY <2>1, <1>3 DEF ValuesOf
  <2>2. CASE p.kind = "multiply"
    BY <2>2, <1>3 DEF ValuesOf
  <2> QED
    BY <1>1, <2>1, <2>2
<1> QED
  BY <1>2, <1>3, RangeValues

\* What a flag stands for are integers.
LEMMA ValuesAreIntegers ==
  ASSUME NEW flag \in Flag, NEW v \in ValuesOf(flag)
  PROVE  v \in Int
<1>1. flag.minimum \in Int /\ flag.maximum \in Int
  BY DEF Flag
<1>2. CASE flag.kind = "increment"
  BY <1>1, <1>2 DEF ValuesOf
<1>3. CASE flag.kind = "multiply"
  BY <1>1, <1>3 DEF ValuesOf
<1>4. CASE flag.kind \notin {"increment", "multiply"}
  BY <1>1, <1>4 DEF ValuesOf
<1> QED
  BY <1>2, <1>3, <1>4

(***************************************************************************)
(* The combinations of an experiment's flags                               *)
(***************************************************************************)
FlagNames == {"nthreads", "client_logging_enabled"}

Atomic == [name : FlagNames, value : Int]

\* get_atomic_flags: one flag for every value, each once.
LEMMA AtomicExact ==
  ASSUME NEW flag \in Flag, ~ Endless(flag)
  PROVE  /\ AtomicFlags(flag) \in Seq(Atomic) /\ Distinct(AtomicFlags(flag))
         /\ \A x \in Atomic : Occurs(AtomicFlags(flag), x) <=> x.name = flag.name /\ x.value \in ValuesOf(flag)
<1>1. flag.name \in FlagNames /\ flag.minimum \in Int /\ flag.kind \in {"int", "bool", "increment", "multiply"}
  BY DEF Flag, FlagNames
<1>2. CASE flag.kind \in {"increment", "multiply"}
  <2> DEFINE vals == GenerateValues(flag)
             a == AtomicFlags(flag)
  <2>1. IsRange(flag)
    BY <1>2 DEF IsRange
  <2>2. vals \in Seq(Int) /\ Distinct(vals) /\ \A v : Occurs(vals, v) <=> v \in ValuesOf(flag)
    BY <2>1, RangeExact
  <2>3. a = [i \in DOMAIN vals |-> [name |-> flag.name, value |-> vals[i]]]
    BY <1>2 DEF AtomicFlags
  <2> HIDE DEF vals, a
  <2>4. DOMAIN vals = 1..Len(vals) /\ Len(vals) \in Nat /\ \A i \in 1..Len(vals) : vals[i] \in Int
    BY <2>2
  <2>5. a \in [1..Len(vals) -> Atomic]
    BY <1>1, <2>3, <2>4 DEF Atomic
  <2>6. a \in Seq(Atomic) /\ Len(a) = Len(vals)
    BY <2>4, <2>5, FunctionIsSeq
  <2>7. \A i \in 1..Len(vals) : a[i].name = flag.name /\ a[i].value = vals[i]
    BY <2>3, <2>4
  <2>8. Distinct(a)
    BY <2>2, <2>6, <2>7 DEF Distinct
  <2>9. ASSUME NEW x \in Atomic PROVE Occurs(a, x) <=> x.name = flag.name /\ x.value \in ValuesOf(flag)
    <3>1. ASSUME Occurs(a, x) PROVE x.name = flag.name /\ x.value \in ValuesOf(flag)
      <4>1. PICK i \in 1..Len(vals) : a[i] = x
        BY <3>1, <2>6 DEF Occurs
      <4>2. Occurs(vals, x.value)
        BY <4>1, <2>7 DEF Occurs
      <4> QED
        BY <4>1, <4>2, <2>2, <2>7
    <3>2. ASSUME x.name = flag.name, x.value \in ValuesOf(flag) PROVE Occurs(a, x)
      <4>1. PICK i \in 1..Len(vals) : vals[i] = x.value
        BY <3>2, <2>2 DEF Occurs
      <4>2. a[i] \in Atomic /\ a[i].name = x.name /\ a[i].value = x.value
        BY <3>2, <4>1, <2>5, <2>7
      <4>3. a[i] = x
        BY <4>2 DEF Atomic
      <4> QED
        BY <4>3, <2>6 DEF Occurs
    <3> QED
      BY <3>1, <3>2
  <2> QED
    BY <2>6, <2>8, <2>9 DEF a
<1>3. CASE flag.kind \notin {"increment", "multiply"}
  <2> DEFINE y == [name |-> flag.name, value |-> flag.minimum]
  <2>1. AtomicFlags(flag) = <<y>>
    BY <1>3 DEF AtomicFlags
  <2>2. y \in Atomic /\ y.name = flag.name /\ y.value = flag.minimum
    BY <1>1 DEF Atomic
  <2>3. ValuesOf(flag) = {flag.minimum}
    BY <1>3 DEF ValuesOf
  <2>4. ASSUME NEW x \in Atomic PROVE x = y <=> x.name = flag.name /\ x.value = flag.minimum
    BY DEF Atomic
  <2> HIDE DEF y
  <2>5. <<y>> \in Seq(Atomic) /\ Len(<<y>>) = 1 /\ <<y>>[1] = y
    BY <2>2
  <2>6. Distinct(<<y>>) /\ \A x : Occurs(<<y>>, x) <=> x = y
    BY <2>5 DEF Distinct, Occurs
  <2> QED
    BY <2>1, <2>3, <2>4, <2>5, <2>6
<1> QED
  BY <1>2, <1>3

\* The choices of one value per flag.
FlagChoices(flags) ==
  {c \in [DOMAIN flags -> UNION {ValuesOf(flags[i]) : i \in DOMAIN flags}] :
     \A i \in DOMAIN flags : c[i] \in ValuesOf(flags[i])}

Combos(flags) == Combine([i \in DOMAIN flags |-> AtomicFlags(flags[i])])

\* A combination gives every flag a value, in the order of the flags.
Fits(w, flags) ==
  Len(w) = Len(flags) /\ \A i \in 1..Len(flags) : w[i].name = flags[i].name /\ w[i].value \in ValuesOf(flags[i])

LEMMA CombosFacts ==
  ASSUME NEW flags \in Seq(Flag), \A i \in DOMAIN flags : ~ Endless(flags[i])
  PROVE  /\ Combos(flags) \in Seq(Seq(Atomic)) /\ Distinct(Combos(flags))
         /\ \A w \in Seq(Atomic) : Occurs(Combos(flags), w) <=> Fits(w, flags)
<1> DEFINE lst == [i \in DOMAIN flags |-> AtomicFlags(flags[i])]
<1>1. DOMAIN flags = 1..Len(flags) /\ Len(flags) \in Nat /\ \A i \in 1..Len(flags) : flags[i] \in Flag
  OBVIOUS
<1>2. ASSUME NEW i \in 1..Len(flags)
      PROVE  /\ lst[i] \in Seq(Atomic) /\ Distinct(lst[i])
             /\ \A x \in Atomic : Occurs(lst[i], x) <=> x.name = flags[i].name /\ x.value \in ValuesOf(flags[i])
  BY <1>1, AtomicExact
<1>3. lst \in [1..Len(flags) -> Seq(Atomic)]
  <2>1. lst = [i \in 1..Len(flags) |-> lst[i]]
    BY <1>1
  <2> HIDE DEF lst
  <2> QED
    BY <2>1, <1>2
<1>4. Combos(flags) = Combine(lst)
  BY DEF Combos
<1> HIDE DEF lst
<1>5. lst \in Seq(Seq(Atomic)) /\ Len(lst) = Len(flags)
  <2> DEFINE V == Seq(Atomic)
  <2>1. lst \in [1..Len(flags) -> V]
    BY <1>3
  <2> HIDE DEF V
  <2>2. lst \in Seq(V) /\ Len(lst) = Len(flags)
    BY <2>1, <1>1, FunctionIsSeq
  <2> QED
    BY <2>2 DEF V
<1>6. /\ Combine(lst) \in Seq(Seq(Atomic))
      /\ \A w \in Seq(Atomic) : Occurs(Combine(lst), w) <=>
           Len(w) = Len(lst) /\ \A i \in 1..Len(lst) : Occurs(lst[i], w[i])
      /\ (\A i \in 1..Len(lst) : Distinct(lst[i])) => Distinct(Combine(lst))
  <2> HIDE DEF Atomic
  <2> QED
    BY <1>5, CombineFacts
<1>7. ASSUME NEW w \in Seq(Atomic) PROVE Occurs(Combine(lst), w) <=> Fits(w, flags)
  <2>1. ASSUME Len(w) = Len(flags), NEW i \in 1..Len(flags)
        PROVE  Occurs(lst[i], w[i]) <=> w[i].name = flags[i].name /\ w[i].value \in ValuesOf(flags[i])
    <3>1. w[i] \in Atomic
      BY <2>1
    <3> QED
      BY <3>1, <1>2
  <2> QED
    BY <2>1, <1>5, <1>6 DEF Fits
<1> QED
  BY <1>2, <1>4, <1>5, <1>6, <1>7

\* The combinations of the flags are the choices of one value per flag, each once.
THEOREM CombosExact ==
  ASSUME NEW flags \in Seq(Flag), \A i \in DOMAIN flags : ~ Endless(flags[i])
  PROVE  LET combos == Combos(flags) IN
         /\ \A n \in 1..Len(combos) : [i \in DOMAIN combos[n] |-> combos[n][i].value] \in FlagChoices(flags)
         /\ \A c \in FlagChoices(flags) :
              \E n \in 1..Len(combos) :
                /\ \A i \in DOMAIN c : combos[n][i].value = c[i]
                /\ \A m \in 1..Len(combos) : (\A i \in DOMAIN c : combos[m][i].value = c[i]) => m = n
<1> DEFINE combos == Combos(flags)
           N == Len(flags)
<1>1. DOMAIN flags = 1..N /\ N \in Nat /\ \A i \in 1..N : flags[i] \in Flag /\ flags[i].name \in FlagNames
  BY DEF Flag, FlagNames
<1>2. /\ combos \in Seq(Seq(Atomic)) /\ Distinct(combos)
      /\ \A w \in Seq(Atomic) : Occurs(combos, w) <=> Fits(w, flags)
  BY CombosFacts
<1> HIDE DEF combos
<1>3. ASSUME NEW n \in 1..Len(combos)
      PROVE  combos[n] \in Seq(Atomic) /\ Fits(combos[n], flags)
  <2>1. combos[n] \in Seq(Atomic)
    BY <1>2
  <2>2. Occurs(combos, combos[n])
    BY DEF Occurs
  <2> QED
    BY <2>1, <2>2, <1>2
<1>4. ASSUME NEW n \in 1..Len(combos)
      PROVE  /\ DOMAIN combos[n] = 1..N /\ combos[n] \in [1..N -> Atomic]
             /\ \A i \in 1..N : combos[n][i].name = flags[i].name /\ combos[n][i].value \in ValuesOf(flags[i])
  <2> DEFINE w == combos[n]
  <2>1. w \in Seq(Atomic) /\ Len(w) = N
    BY <1>3 DEF Fits
  <2>2. \A i \in 1..N : w[i].name = flags[i].name /\ w[i].value \in ValuesOf(flags[i])
    BY <1>3 DEF Fits
  <2>3. w \in [1..N -> Atomic]
    <3> HIDE DEF w, N
    <3> QED
      BY <2>1
  <2> QED
    BY <2>2, <2>3
<1>5. ASSUME NEW c PROVE c \in FlagChoices(flags) <=>
        c = [i \in 1..N |-> c[i]] /\ \A i \in 1..N : c[i] \in ValuesOf(flags[i])
  <2> DEFINE All == UNION {ValuesOf(flags[i]) : i \in 1..N}
  <2>1. c \in FlagChoices(flags) <=> c \in [1..N -> All] /\ \A i \in 1..N : c[i] \in ValuesOf(flags[i])
    BY <1>1 DEF FlagChoices
  <2>2. \A i \in 1..N : \A v \in ValuesOf(flags[i]) : v \in All
    OBVIOUS
  <2> HIDE DEF All, N
  <2> QED
    BY <2>1, <2>2
<1>6. ASSUME NEW n \in 1..Len(combos)
      PROVE  [i \in DOMAIN combos[n] |-> combos[n][i].value] \in FlagChoices(flags)
  <2> DEFINE c == [i \in 1..N |-> combos[n][i].value]
  <2>1. [i \in DOMAIN combos[n] |-> combos[n][i].value] = c
    BY <1>4
  <2>2. c = [i \in 1..N |-> c[i]] /\ \A i \in 1..N : c[i] \in ValuesOf(flags[i])
    BY <1>4
  <2> HIDE DEF c
  <2> QED
    BY <2>1, <2>2, <1>5
<1>7. ASSUME NEW c \in FlagChoices(flags)
      PROVE  \E n \in 1..Len(combos) :
               /\ \A i \in DOMAIN c : combos[n][i].value = c[i]
               /\ \A m \in 1..Len(combos) : (\A i \in DOMAIN c : combos[m][i].value = c[i]) => m = n
  <2>1. DOMAIN c = 1..N /\ \A i \in 1..N : c[i] \in ValuesOf(flags[i])
    BY <1>5
  <2> DEFINE w == [i \in 1..N |-> [name |-> flags[i].name, value |-> c[i]]]
  <2>2. \A i \in 1..N : c[i] \in Int
    <3>1. ASSUME NEW i \in 1..N PROVE \A v \in ValuesOf(flags[i]) : v \in Int
      BY <1>1, ValuesAreIntegers
    <3> QED
      BY <3>1, <2>1
  <2>3. w \in [1..N -> Atomic]
    BY <1>1, <2>2 DEF Atomic
  <2>4. \A i \in 1..N : w[i].name = flags[i].name /\ w[i].value = c[i]
    OBVIOUS
  <2> HIDE DEF w
  <2>5. w \in Seq(Atomic) /\ Len(w) = N
    BY <1>1, <2>3, FunctionIsSeq
  <2>6. Fits(w, flags)
    BY <2>1, <2>4, <2>5 DEF Fits
  <2>7. PICK n \in 1..Len(combos) : combos[n] = w
    BY <1>2, <2>5, <2>6 DEF Occurs
  <2>8. ASSUME NEW m \in 1..Len(combos), \A i \in 1..N : combos[m][i].value = c[i] PROVE m = n
    <3>1. combos[m] \in [1..N -> Atomic] /\ \A i \in 1..N : combos[m][i].name = flags[i].name
      BY <1>4
    <3>2. ASSUME NEW i \in 1..N PROVE combos[m][i] = w[i]
      <4>1. combos[m][i] \in Atomic /\ w[i] \in Atomic
        BY <3>1, <2>3
      <4>2. combos[m][i].name = w[i].name /\ combos[m][i].value = w[i].value
        BY <3>1, <2>4, <2>8
      <4> QED
        BY <4>1, <4>2 DEF Atomic
    <3>3. combos[m] = w
      BY <3>1, <3>2, <2>3
    <3> QED
      BY <3>3, <2>7, <1>2 DEF Distinct
  <2>9. \A i \in 1..N : combos[n][i].value = c[i]
    BY <2>4, <2>7
  <2> HIDE DEF N
  <2> QED
    BY <2>1, <2>8, <2>9
<1> QED
  BY <1>6, <1>7 DEF combos

(***************************************************************************)
(* The jobs                                                                *)
(***************************************************************************)
\* The jobs of one experiment: its combinations in order, in directories numbered from 0.
LEMMA JobsOfFacts ==
  ASSUME exps \in Configs, NEW e \in DOMAIN exps, ~ HasEndless(e)
  PROVE  LET combos == Combos(exps[e].flags) IN
         /\ JobsOf(e) = [c \in 1..Len(combos) |-> JobsOf(e)[c]] /\ Len(combos) \in Nat
         /\ \A c \in 1..Len(combos) : /\ JobsOf(e)[c].exp = e
                                      /\ JobsOf(e)[c].dir = <<exps[e].dir, c - 1>>
                                      /\ JobsOf(e)[c].cflags = combos[c]
                                      /\ JobsOf(e)[c].nthreads = NThreads(combos[c])
                                      /\ \A i \in DOMAIN combos[c] : combos[c][i].name = exps[e].flags[i].name
<1> DEFINE flags == exps[e].flags
           combos == Combos(flags)
<1>1. flags \in Seq(Flag) /\ \A i \in DOMAIN flags : ~ Endless(flags[i])
  BY ConfigFacts DEF HasEndless
<1>2. combos \in Seq(Seq(Atomic))
  <2> HIDE DEF flags
  <2> QED
    BY <1>1, CombosFacts
<1>3. DOMAIN combos = 1..Len(combos) /\ Len(combos) \in Nat
  <2> HIDE DEF combos
  <2> QED
    BY <1>2
<1>4. JobsOf(e) = [c \in DOMAIN combos |-> [exp |-> e, dir |-> <<exps[e].dir, c - 1>>,
                                            cflags |-> combos[c], nthreads |-> NThreads(combos[c])]]
  BY DEF JobsOf, Combos
<1>n. \A w \in Seq(Atomic) : Occurs(combos, w) => Fits(w, flags)
  <2> HIDE DEF flags
  <2> QED
    BY <1>1, CombosFacts
<1> HIDE DEF combos
<1>5. \A c \in 1..Len(combos) : /\ JobsOf(e)[c].exp = e
                                /\ JobsOf(e)[c].dir = <<exps[e].dir, c - 1>>
                                /\ JobsOf(e)[c].cflags = combos[c]
                                /\ JobsOf(e)[c].nthreads = NThreads(combos[c])
  BY <1>3, <1>4
<1>7. ASSUME NEW c \in 1..Len(combos), NEW i \in DOMAIN combos[c]
      PROVE  combos[c][i].name = flags[i].name
  <2> DEFINE w == combos[c]
  <2>1. w \in Seq(Atomic)
    BY <1>2, <1>3
  <2>2. Occurs(combos, w)
    BY DEF Occurs
  <2>3. Fits(w, flags)
    BY <1>n, <2>1, <2>2
  <2> HIDE DEF w, flags
  <2>4. i \in 1..Len(w)
    BY <1>7, <2>1 DEF w
  <2> QED
    BY <2>3, <2>4 DEF Fits, w
<1>6. JobsOf(e) = [c \in 1..Len(combos) |-> JobsOf(e)[c]]
  BY <1>3, <1>4
<1> QED
  BY <1>3, <1>5, <1>6, <1>7 DEF combos

AllJobs == FlattenSeq([e \in DOMAIN exps |-> JobsOf(e)])

\* The list of all jobs: the jobs of every experiment, each once.
LEMMA AllJobsFacts ==
  ASSUME exps \in Configs, \A e \in DOMAIN exps : ~ HasEndless(e)
  PROVE  /\ DOMAIN AllJobs = 1..Len(AllJobs) /\ Len(AllJobs) \in Nat /\ Distinct(AllJobs)
         /\ \A x : Occurs(AllJobs, x) <=>
              \E e \in DOMAIN exps : \E c \in 1..Len(Combos(exps[e].flags)) : x = JobsOf(e)[c]
         /\ \A e \in DOMAIN exps : Len(Combos(exps[e].flags)) <= Len(AllJobs)
<1> DEFINE N == Len(exps)
           C(e) == Len(Combos(exps[e].flags))
           ss == [e \in DOMAIN exps |-> JobsOf(e)]
           U == {JobsOf(e)[c] : e \in DOMAIN exps, c \in Nat}
<1>1. DOMAIN exps = 1..N /\ N \in Nat
  BY ConfigFacts
<1>2. ASSUME NEW e \in 1..N
      PROVE  /\ C(e) \in Nat /\ JobsOf(e) = [c \in 1..C(e) |-> JobsOf(e)[c]]
             /\ \A c \in 1..C(e) : JobsOf(e)[c].exp = e /\ JobsOf(e)[c].dir = <<exps[e].dir, c - 1>>
  BY <1>1, JobsOfFacts
<1>3. \A e \in 1..N : \A c \in Nat : JobsOf(e)[c] \in U
  BY <1>1
<1>4. DOMAIN ss = 1..N /\ \A e \in 1..N : ss[e] = JobsOf(e)
  BY <1>1
<1>5. AllJobs = FlattenSeq(ss)
  BY DEF AllJobs
<1>6. ss = [e \in 1..N |-> ss[e]]
  BY <1>1
<1> HIDE DEF U, ss, N, C
<1>7. ASSUME NEW e \in 1..N
      PROVE  /\ ss[e] \in Seq(U) /\ Len(ss[e]) = C(e) /\ Distinct(ss[e])
             /\ \A x : Occurs(ss[e], x) <=> \E c \in 1..C(e) : x = JobsOf(e)[c]
  <2> DEFINE s == JobsOf(e)
  <2>0. C(e) \in Nat /\ s = [c \in 1..C(e) |-> s[c]] /\ \A c \in 1..C(e) : s[c] \in U
    BY <1>2, <1>3
  <2>d. \A c \in 1..C(e) : s[c].dir = <<exps[e].dir, c - 1>>
    BY <1>2
  <2> HIDE DEF s
  <2>1. s \in [1..C(e) -> U]
    BY <2>0
  <2>2. s \in Seq(U) /\ Len(s) = C(e)
    BY <2>0, <2>1, FunctionIsSeq
  <2>3. ASSUME NEW c \in 1..C(e), NEW d \in 1..C(e), s[c] = s[d] PROVE c = d
    <3>1. <<exps[e].dir, c - 1>> = <<exps[e].dir, d - 1>>
      BY <2>3, <2>d
    <3>2. c - 1 = d - 1
      BY <3>1
    <3> QED
      BY <3>2, <2>0
  <2>4. Distinct(s) /\ \A x : Occurs(s, x) <=> \E c \in 1..C(e) : x = s[c]
    BY <2>2, <2>3 DEF Distinct, Occurs
  <2> QED
    BY <2>2, <2>4, <1>4 DEF s
<1>8. ss \in Seq(Seq(U)) /\ Len(ss) = N
  <2> DEFINE V == Seq(U)
  <2>1. \A e \in 1..N : ss[e] \in V
    BY <1>7
  <2> HIDE DEF V
  <2>2. ss \in [1..N -> V]
    BY <2>1, <1>6
  <2>3. ss \in Seq(V) /\ Len(ss) = N
    BY <2>2, <1>1, FunctionIsSeq
  <2> QED
    BY <2>3 DEF V
<1>9. /\ FlattenSeq(ss) \in Seq(U)
      /\ \A i \in 1..Len(ss) : Len(ss[i]) <= Len(FlattenSeq(ss))
      /\ \A x : Occurs(FlattenSeq(ss), x) <=> \E i \in 1..Len(ss) : Occurs(ss[i], x)
      /\ (/\ \A i \in 1..Len(ss) : Distinct(ss[i])
          /\ \A i, j \in 1..Len(ss) : i # j => Disjoint(ss[i], ss[j])) => Distinct(FlattenSeq(ss))
  BY <1>8, FlattenFacts
<1>10. ASSUME NEW i \in 1..N, NEW j \in 1..N, i # j PROVE Disjoint(ss[i], ss[j])
  <2> SUFFICES ASSUME NEW x, Occurs(ss[i], x), Occurs(ss[j], x) PROVE FALSE
    BY DEF Disjoint
  <2>1. x.exp = i
    <3>1. PICK c \in 1..C(i) : x = JobsOf(i)[c]
      BY <1>7
    <3> QED
      BY <3>1, <1>2
  <2>2. x.exp = j
    <3>1. PICK c \in 1..C(j) : x = JobsOf(j)[c]
      BY <1>7
    <3> QED
      BY <3>1, <1>2
  <2> QED
    BY <2>1, <2>2, <1>10
<1>11. Distinct(AllJobs)
  BY <1>5, <1>7, <1>8, <1>9, <1>10
<1>12. DOMAIN AllJobs = 1..Len(AllJobs) /\ Len(AllJobs) \in Nat
  <2>1. AllJobs \in Seq(U)
    BY <1>5, <1>9
  <2> HIDE DEF AllJobs
  <2> QED
    BY <2>1
<1>13. ASSUME NEW x PROVE Occurs(AllJobs, x) <=> \E e \in DOMAIN exps : \E c \in 1..C(e) : x = JobsOf(e)[c]
  <2>1. Occurs(AllJobs, x) <=> \E e \in 1..N : Occurs(ss[e], x)
    BY <1>5, <1>8, <1>9
  <2>2. \A e \in 1..N : Occurs(ss[e], x) <=> \E c \in 1..C(e) : x = JobsOf(e)[c]
    BY <1>7
  <2> QED
    BY ONLY <2>1, <2>2, <1>1
<1>14. \A e \in DOMAIN exps : C(e) <= Len(AllJobs)
  BY <1>1, <1>5, <1>7, <1>8, <1>9
<1> QED
  BY <1>11, <1>12, <1>13, <1>14 DEF C

\* The jobs are the choices of one value per flag, each once, in numbered directories; a
\* duplicate flag is a flag like any other here.
Exact(E, J) ==
  /\ \A e \in DOMAIN E : \A c \in FlagChoices(E[e].flags) :
       \E k : {j \in DOMAIN J : J[j].exp = e /\ \A i \in DOMAIN c : J[j].cflags[i].value = c[i]} = {k}
  /\ \A j \in DOMAIN J :
       /\ J[j].exp \in DOMAIN E
       /\ [i \in DOMAIN J[j].cflags |-> J[j].cflags[i].value] \in FlagChoices(E[J[j].exp].flags)
       /\ J[j].nthreads = NThreads(J[j].cflags)
       /\ \A i \in DOMAIN J[j].cflags : J[j].cflags[i].name = E[J[j].exp].flags[i].name
       /\ \E n \in 0..Len(J) - 1 :
            /\ J[j].dir = <<E[J[j].exp].dir, n>>
            /\ \A m \in 0..n : \E i \in DOMAIN J : /\ J[i].exp = J[j].exp
                                                  /\ J[i].dir = <<E[J[j].exp].dir, m>>
  /\ \A j, k \in DOMAIN J : J[j].exp = J[k].exp /\ J[j].dir = J[k].dir => j = k

JobsInv == jobs # <<>> => Exact(exps, jobs)

\* The expansion makes such jobs.
LEMMA ExpandExact ==
  ASSUME exps \in Configs, \A e \in DOMAIN exps : ~ HasEndless(e)
  PROVE  Exact(exps, AllJobs)
<1> DEFINE C(e) == Combos(exps[e].flags)
<1>1. /\ DOMAIN AllJobs = 1..Len(AllJobs) /\ Len(AllJobs) \in Nat /\ Distinct(AllJobs)
      /\ \A x : Occurs(AllJobs, x) <=> \E e \in DOMAIN exps : \E c \in 1..Len(C(e)) : x = JobsOf(e)[c]
      /\ \A e \in DOMAIN exps : Len(C(e)) <= Len(AllJobs)
  BY AllJobsFacts
<1>2. ASSUME NEW e \in DOMAIN exps
      PROVE  /\ Len(C(e)) \in Nat
             /\ \A c \in 1..Len(C(e)) : /\ JobsOf(e)[c].exp = e
                                        /\ JobsOf(e)[c].dir = <<exps[e].dir, c - 1>>
                                        /\ JobsOf(e)[c].cflags = C(e)[c]
                                        /\ JobsOf(e)[c].nthreads = NThreads(C(e)[c])
                                        /\ \A i \in DOMAIN C(e)[c] : C(e)[c][i].name = exps[e].flags[i].name
  BY JobsOfFacts
<1>3. ASSUME NEW e \in DOMAIN exps
      PROVE  /\ \A n \in 1..Len(C(e)) : [i \in DOMAIN C(e)[n] |-> C(e)[n][i].value] \in FlagChoices(exps[e].flags)
             /\ \A c \in FlagChoices(exps[e].flags) :
                  \E n \in 1..Len(C(e)) :
                    /\ \A i \in DOMAIN c : C(e)[n][i].value = c[i]
                    /\ \A m \in 1..Len(C(e)) : (\A i \in DOMAIN c : C(e)[m][i].value = c[i]) => m = n
  <2>1. exps[e].flags \in Seq(Flag) /\ \A i \in DOMAIN exps[e].flags : ~ Endless(exps[e].flags[i])
    BY ConfigFacts DEF HasEndless
  <2> QED
    BY <2>1, CombosExact
<1> DEFINE D == DOMAIN AllJobs
<1>4. ASSUME NEW j \in D
      PROVE  \E e \in DOMAIN exps : \E c \in 1..Len(C(e)) : AllJobs[j] = JobsOf(e)[c]
  <2>1. Occurs(AllJobs, AllJobs[j])
    BY <1>1 DEF Occurs
  <2> QED
    BY <2>1, <1>1
<1>5. ASSUME NEW e \in DOMAIN exps, NEW c \in 1..Len(C(e))
      PROVE  \E j \in D : AllJobs[j] = JobsOf(e)[c]
  <2>1. Occurs(AllJobs, JobsOf(e)[c])
    BY <1>1
  <2> QED
    BY <2>1, <1>1 DEF Occurs
<1>6. \A j, k \in D : AllJobs[j] = AllJobs[k] => j = k
  BY <1>1 DEF Distinct
<1>7. Len(AllJobs) \in Nat /\ \A e \in DOMAIN exps : Len(C(e)) \in Nat /\ Len(C(e)) <= Len(AllJobs)
  BY <1>1, <1>2
<1> HIDE DEF AllJobs, C
<1>8. ASSUME NEW e \in DOMAIN exps, NEW c \in FlagChoices(exps[e].flags)
      PROVE  \E k : {j \in D : /\ AllJobs[j].exp = e
                               /\ \A i \in DOMAIN c : AllJobs[j].cflags[i].value = c[i]} = {k}
  <2>1. PICK n \in 1..Len(C(e)) :
          /\ \A i \in DOMAIN c : C(e)[n][i].value = c[i]
          /\ \A m \in 1..Len(C(e)) : (\A i \in DOMAIN c : C(e)[m][i].value = c[i]) => m = n
    BY <1>3
  <2>2. PICK j \in D : AllJobs[j] = JobsOf(e)[n]
    BY <1>5
  <2>3. AllJobs[j].exp = e /\ \A i \in DOMAIN c : AllJobs[j].cflags[i].value = c[i]
    BY <1>2, <2>1, <2>2
  <2>4. ASSUME NEW k \in D, AllJobs[k].exp = e, \A i \in DOMAIN c : AllJobs[k].cflags[i].value = c[i]
        PROVE  k = j
    <3>1a. PICK f \in DOMAIN exps : \E m \in 1..Len(C(f)) : AllJobs[k] = JobsOf(f)[m]
      BY <1>4
    <3>1. PICK m \in 1..Len(C(f)) : AllJobs[k] = JobsOf(f)[m]
      BY <3>1a
    <3>2. f = e
      BY <3>1, <1>2, <2>4
    <3>3. AllJobs[k].cflags = C(e)[m] /\ m \in 1..Len(C(e))
      BY <3>1, <3>2, <1>2
    <3>4. m = n
      BY <3>3, <2>1, <2>4
    <3> QED
      BY <3>1, <3>2, <3>4, <2>2, <1>6
  <2>5. {k \in D : /\ AllJobs[k].exp = e
                   /\ \A i \in DOMAIN c : AllJobs[k].cflags[i].value = c[i]} = {j}
    BY <2>3, <2>4
  <2> QED
    BY <2>5
<1>9. ASSUME NEW j \in D
      PROVE  /\ AllJobs[j].exp \in DOMAIN exps
             /\ [i \in DOMAIN AllJobs[j].cflags |-> AllJobs[j].cflags[i].value] \in FlagChoices(exps[AllJobs[j].exp].flags)
             /\ AllJobs[j].nthreads = NThreads(AllJobs[j].cflags)
             /\ \A i \in DOMAIN AllJobs[j].cflags : AllJobs[j].cflags[i].name = exps[AllJobs[j].exp].flags[i].name
             /\ \E n \in 0..Len(AllJobs) - 1 :
                  /\ AllJobs[j].dir = <<exps[AllJobs[j].exp].dir, n>>
                  /\ \A m \in 0..n : \E i \in D : /\ AllJobs[i].exp = AllJobs[j].exp
                                                  /\ AllJobs[i].dir = <<exps[AllJobs[j].exp].dir, m>>
  <2>1a. PICK e \in DOMAIN exps : \E c \in 1..Len(C(e)) : AllJobs[j] = JobsOf(e)[c]
    BY <1>4
  <2>1. PICK c \in 1..Len(C(e)) : AllJobs[j] = JobsOf(e)[c]
    BY <2>1a
  <2>2. /\ AllJobs[j].exp = e /\ AllJobs[j].dir = <<exps[e].dir, c - 1>>
        /\ AllJobs[j].cflags = C(e)[c] /\ AllJobs[j].nthreads = NThreads(C(e)[c])
        /\ \A i \in DOMAIN C(e)[c] : C(e)[c][i].name = exps[e].flags[i].name
    BY <2>1, <1>2
  <2>3. Len(C(e)) \in Nat /\ Len(C(e)) <= Len(AllJobs) /\ Len(AllJobs) \in Nat
    BY <1>7
  <2>4. c - 1 \in 0..Len(AllJobs) - 1
    BY <2>3
  <2>5. ASSUME NEW m \in 0..(c - 1)
        PROVE  \E i \in D : AllJobs[i].exp = e /\ AllJobs[i].dir = <<exps[e].dir, m>>
    <3>1. m + 1 \in 1..Len(C(e)) /\ (m + 1) - 1 = m
      BY <2>3
    <3>2. PICK i \in D : AllJobs[i] = JobsOf(e)[m + 1]
      BY <3>1, <1>5
    <3>3. AllJobs[i].exp = e /\ AllJobs[i].dir = <<exps[e].dir, (m + 1) - 1>>
      BY <3>1, <3>2, <1>2
    <3> QED
      BY <3>1, <3>3
  <2>6. [i \in DOMAIN AllJobs[j].cflags |-> AllJobs[j].cflags[i].value] \in FlagChoices(exps[e].flags)
    BY <2>2, <1>3
  <2> QED
    BY <2>2, <2>4, <2>5, <2>6
<1>10. ASSUME NEW j \in D, NEW k \in D, AllJobs[j].exp = AllJobs[k].exp, AllJobs[j].dir = AllJobs[k].dir
       PROVE  j = k
  <2>1a. PICK e \in DOMAIN exps : \E c \in 1..Len(C(e)) : AllJobs[j] = JobsOf(e)[c]
    BY <1>4
  <2>1. PICK c \in 1..Len(C(e)) : AllJobs[j] = JobsOf(e)[c]
    BY <2>1a
  <2>2a. PICK f \in DOMAIN exps : \E d \in 1..Len(C(f)) : AllJobs[k] = JobsOf(f)[d]
    BY <1>4
  <2>2. PICK d \in 1..Len(C(f)) : AllJobs[k] = JobsOf(f)[d]
    BY <2>2a
  <2>3. e = f
    BY <2>1, <2>2, <1>2, <1>10
  <2>4. <<exps[e].dir, c - 1>> = <<exps[e].dir, d - 1>>
    BY <2>1, <2>2, <2>3, <1>2, <1>10
  <2>5. c - 1 = d - 1 /\ Len(C(e)) \in Nat /\ c \in Int /\ d \in Int
    BY <2>3, <2>4, <1>7
  <2>6. c = d
    BY <2>5
  <2> QED
    BY <2>1, <2>2, <2>3, <2>6, <1>6
<1> QED
  BY <1>8, <1>9, <1>10 DEF Exact

\* Only the expansion makes jobs.
LEMMA ExpansionStep == IndInv /\ JobsInv /\ [Next]_vars => JobsInv'
<1> SUFFICES ASSUME IndInv, JobsInv, [Next]_vars PROVE JobsInv'
  OBVIOUS
<1>1. jobs # <<>> => Exact(exps, jobs)
  BY DEF JobsInv
<1> SUFFICES jobs' # <<>> => Exact(exps', jobs')
  BY DEF JobsInv, Exact, FlagChoices, ValuesOf, Power, NThreads
<1>3. CASE UNCHANGED <<exps, jobs>>
  BY <1>1, <1>3
<1>4. CASE Expand
  <2>1. exps \in Configs /\ exps' = exps
    BY <1>4 DEF Expand, IndInv, TypeInv
  <2>2. CASE jobs' # jobs
    <3>1. {e \in DOMAIN exps : Incomplete(e) \/ HasEndless(e)} = {} /\ jobs' = AllJobs
      BY <1>4, <2>2 DEF Expand, AllJobs
    <3>2. Exact(exps, AllJobs)
      BY <2>1, <3>1, ExpandExact
    <3> QED
      BY <2>1, <3>1, <3>2
  <2> QED
    BY <1>3, <2>1, <2>2
<1>5. CASE ~ Expand
  <2>1. UNCHANGED <<exps, jobs>>
    BY <1>5 DEF Next, Step, RunJob, Load, GenerateData, Start, Flush, Seed, Operate, FlushAgain,
                Terminate, Save, Unwind, Stats, Fail, HostDies, Rest, vars
  <2> QED
    BY <1>3, <2>1
<1> QED
  BY <1>4, <1>5

\* With distinct names there is one nthreads flag at most, and every other flag has one value.
LEMMA FlagShape ==
  ASSUME exps \in Configs, NEW e \in DOMAIN exps, DistinctFlags(e)
  PROVE  LET flags == exps[e].flags IN
         \/ /\ \A i \in DOMAIN flags : flags[i].name # "nthreads" /\ ValuesOf(flags[i]) = {flags[i].minimum}
            /\ ThreadCounts(e) = {1}
         \/ \E g \in DOMAIN flags :
              /\ flags[g].name = "nthreads" /\ ThreadCounts(e) = ValuesOf(flags[g])
              /\ \A i \in DOMAIN flags \ {g} :
                   flags[i].name # "nthreads" /\ ValuesOf(flags[i]) = {flags[i].minimum}
<1> DEFINE flags == exps[e].flags
           given == {f \in Range(flags) : f.name = "nthreads"}
<1>1. \A i \in DOMAIN flags : flags[i] \in Flag
  BY ConfigFacts
<1>2. ASSUME NEW i \in DOMAIN flags, flags[i].name # "nthreads" PROVE ValuesOf(flags[i]) = {flags[i].minimum}
  <2>1. flags[i].kind = "bool"
    BY <1>1, <1>2 DEF Flag
  <2> QED
    BY <2>1 DEF ValuesOf
<1>3. ThreadCounts(e) = IF given = {} THEN {1} ELSE UNION {ValuesOf(f) : f \in given}
  BY DEF ThreadCounts
<1>4. Range(flags) = {flags[i] : i \in DOMAIN flags}
  BY DEF Range
<1>5. CASE \A i \in DOMAIN flags : flags[i].name # "nthreads"
  <2>1. given = {}
    BY <1>4, <1>5
  <2> QED
    BY <1>2, <1>3, <1>5, <2>1
<1>6. CASE \E g \in DOMAIN flags : flags[g].name = "nthreads"
  <2>1. PICK g \in DOMAIN flags : flags[g].name = "nthreads"
    BY <1>6
  <2>2. \A i \in DOMAIN flags \ {g} : flags[i].name # "nthreads"
    BY <2>1 DEF DistinctFlags
  <2>3. given = {flags[g]}
    BY <1>4, <2>1, <2>2
  <2> HIDE DEF given, flags
  <2>4. UNION {ValuesOf(f) : f \in given} = ValuesOf(flags[g])
    BY <2>3
  <2>5. ThreadCounts(e) = ValuesOf(flags[g])
    BY <1>3, <2>3, <2>4
  <2> QED
    BY <1>2, <2>1, <2>2, <2>5 DEF flags
<1> QED
  BY <1>5, <1>6

\* A job takes the value of the one nthreads flag.
LEMMA NThreadsOf ==
  ASSUME NEW w
  PROVE  /\ (\A i \in DOMAIN w : w[i].name # "nthreads") => NThreads(w) = 1
         /\ \A g \in DOMAIN w :
              g \in Int /\ w[g].name = "nthreads" /\ (\A i \in DOMAIN w \ {g} : w[i].name # "nthreads")
                => NThreads(w) = w[g].value
<1> DEFINE given == {i \in DOMAIN w : w[i].name = "nthreads"}
<1>1. NThreads(w) = IF given = {} THEN 1 ELSE w[Max(given)].value
  BY DEF NThreads
<1>2. ASSUME NEW g \in DOMAIN w, g \in Int, w[g].name = "nthreads",
             \A i \in DOMAIN w \ {g} : w[i].name # "nthreads"
      PROVE  NThreads(w) = w[g].value
  <2>1. given = {g}
    BY <1>2
  <2>2. Max({g}) = g
    BY <1>2 DEF Max
  <2> QED
    BY <1>1, <2>1, <2>2
<1> QED
  BY <1>1, <1>2

\* The jobs of an experiment without a duplicate flag are its numbers of threads.
LEMMA ThreadsExact ==
  ASSUME exps \in Configs, Exact(exps, jobs), NEW e \in DOMAIN exps, DistinctFlags(e)
  PROVE  LET mine == {j \in DOMAIN jobs : jobs[j].exp = e} IN
         /\ \A j \in mine : jobs[j].nthreads \in ThreadCounts(e)
         /\ \A j, k \in mine : jobs[j].nthreads = jobs[k].nthreads => j = k
         /\ \A n \in ThreadCounts(e) : \E j \in mine : jobs[j].nthreads = n
<1> DEFINE mine == {j \in DOMAIN jobs : jobs[j].exp = e}
           flags == exps[e].flags
           Of(j) == [i \in DOMAIN jobs[j].cflags |-> jobs[j].cflags[i].value]
           Chosen(c) == {j \in DOMAIN jobs : /\ jobs[j].exp = e
                                             /\ \A i \in DOMAIN c : jobs[j].cflags[i].value = c[i]}
<1>1. ASSUME NEW j \in mine
      PROVE  /\ Of(j) \in FlagChoices(flags) /\ jobs[j].nthreads = NThreads(jobs[j].cflags)
             /\ \A i \in DOMAIN jobs[j].cflags : jobs[j].cflags[i].name = flags[i].name
  BY DEF Exact
<1>2. ASSUME NEW j \in mine
      PROVE  /\ DOMAIN jobs[j].cflags = DOMAIN flags
             /\ \A i \in DOMAIN flags : jobs[j].cflags[i].value \in ValuesOf(flags[i])
  BY <1>1 DEF FlagChoices
<1>3. \A c \in FlagChoices(flags) : \E j : Chosen(c) = {j}
  BY DEF Exact
<1>4. flags \in Seq(Flag) /\ DOMAIN flags \subseteq Int
  <2>1. flags \in Seq(Flag)
    BY ConfigFacts
  <2> HIDE DEF flags
  <2> QED
    BY <2>1
<1>5. ASSUME NEW j \in mine, NEW k \in mine,
             \A i \in DOMAIN flags : jobs[j].cflags[i].value = jobs[k].cflags[i].value
      PROVE  j = k
  <2>1. j \in Chosen(Of(j)) /\ k \in Chosen(Of(j))
    BY <1>2, <1>5
  <2>2. PICK m : Chosen(Of(j)) = {m}
    BY <1>1, <1>3
  <2> QED
    BY ONLY <2>1, <2>2
<1>6. ASSUME NEW c \in FlagChoices(flags)
      PROVE  \E j \in mine : \A i \in DOMAIN flags : jobs[j].cflags[i].value = c[i]
  <2>1. PICK j : Chosen(c) = {j}
    BY <1>3
  <2>2. j \in Chosen(c) /\ DOMAIN c = DOMAIN flags
    BY <2>1 DEF FlagChoices
  <2> QED
    BY <2>2
<1> HIDE DEF mine, flags, Of, Chosen
<1>7. CASE /\ \A i \in DOMAIN flags : flags[i].name # "nthreads" /\ ValuesOf(flags[i]) = {flags[i].minimum}
           /\ ThreadCounts(e) = {1}
  <2>1. \A j \in mine : jobs[j].nthreads = 1
    BY <1>1, <1>2, <1>7, NThreadsOf
  <2>2. \A j, k \in mine : j = k
    BY <1>2, <1>5, <1>7
  <2> DEFINE c == [i \in DOMAIN flags |-> flags[i].minimum]
  <2>3. c \in FlagChoices(flags)
    BY <1>7 DEF FlagChoices
  <2>4. mine # {}
    BY <1>6, <2>3
  <2> QED
    BY <1>7, <2>1, <2>2, <2>4 DEF mine
<1>8. CASE \E g \in DOMAIN flags :
             /\ flags[g].name = "nthreads" /\ ThreadCounts(e) = ValuesOf(flags[g])
             /\ \A i \in DOMAIN flags \ {g} :
                  flags[i].name # "nthreads" /\ ValuesOf(flags[i]) = {flags[i].minimum}
  <2>1. PICK g \in DOMAIN flags :
             /\ flags[g].name = "nthreads" /\ ThreadCounts(e) = ValuesOf(flags[g])
             /\ \A i \in DOMAIN flags \ {g} :
                  flags[i].name # "nthreads" /\ ValuesOf(flags[i]) = {flags[i].minimum}
    BY <1>8
  <2>2. ASSUME NEW j \in mine PROVE jobs[j].nthreads = jobs[j].cflags[g].value
    <3> DEFINE w == jobs[j].cflags
    <3>1. /\ g \in DOMAIN w /\ g \in Int /\ w[g].name = "nthreads"
          /\ \A i \in DOMAIN w \ {g} : w[i].name # "nthreads"
      BY <1>1, <1>2, <1>4, <2>1
    <3> HIDE DEF w
    <3>2. NThreads(w) = w[g].value
      BY <3>1, NThreadsOf
    <3> QED
      BY <1>1, <3>2 DEF w
  <2>3. \A j \in mine : jobs[j].nthreads \in ThreadCounts(e)
    BY <1>2, <2>1, <2>2
  <2>4. ASSUME NEW j \in mine, NEW k \in mine, jobs[j].nthreads = jobs[k].nthreads PROVE j = k
    <3>1. ASSUME NEW i \in DOMAIN flags PROVE jobs[j].cflags[i].value = jobs[k].cflags[i].value
      <4>1. CASE i = g
        BY <2>2, <2>4, <4>1
      <4>2. CASE i # g
        BY <1>2, <2>1, <4>2
      <4> QED
        BY <4>1, <4>2
    <3> QED
      BY <1>5, <3>1
  <2>5. ASSUME NEW n \in ThreadCounts(e) PROVE \E j \in mine : jobs[j].nthreads = n
    <3> DEFINE c == [i \in DOMAIN flags |-> IF i = g THEN n ELSE flags[i].minimum]
    <3>1. \A i \in DOMAIN flags : c[i] \in ValuesOf(flags[i])
      BY <2>1, <2>5
    <3>2. c \in FlagChoices(flags)
      BY <3>1 DEF FlagChoices
    <3>3. PICK j \in mine : \A i \in DOMAIN flags : jobs[j].cflags[i].value = c[i]
      BY <1>6, <3>2
    <3> QED
      BY <2>1, <2>2, <3>3
  <2> QED
    BY <2>3, <2>4, <2>5 DEF mine
<1> QED
  BY <1>7, <1>8, FlagShape DEF flags

\* atomicize_experiments and make_jobs: for every list of experiments, each that has no
\* duplicate flag is measured once with every number of threads its flags stand for, and
\* with no other, in directories of its own numbered from 0.
THEOREM ExpansionExactHolds == Spec => []ExpansionExact
<1>1. Init => JobsInv
  BY DEF Init, JobsInv
<1>2. IndInv /\ JobsInv => ExpansionExact
  <2> SUFFICES ASSUME IndInv, JobsInv, jobs # <<>>, NEW e \in DOMAIN exps, DistinctFlags(e)
               PROVE  LET mine == {j \in DOMAIN jobs : jobs[j].exp = e} IN
                      /\ \A n \in ThreadCounts(e) : Cardinality({j \in mine : jobs[j].nthreads = n}) = 1
                      /\ \A j \in mine :
                           /\ jobs[j].nthreads \in ThreadCounts(e)
                           /\ \E n \in 0..Len(jobs) - 1 :
                                /\ jobs[j].dir = <<exps[e].dir, n>>
                                /\ \A m \in 0..n : \E i \in mine : jobs[i].dir = <<exps[e].dir, m>>
                           /\ \A k \in mine : jobs[j].dir = jobs[k].dir => j = k
    BY DEF ExpansionExact
  <2> DEFINE mine == {j \in DOMAIN jobs : jobs[j].exp = e}
  <2>1. Exact(exps, jobs) /\ exps \in Configs
    BY DEF JobsInv, IndInv, TypeInv
  <2>2. /\ \A j \in mine : jobs[j].nthreads \in ThreadCounts(e)
        /\ \A j, k \in mine : jobs[j].nthreads = jobs[k].nthreads => j = k
        /\ \A n \in ThreadCounts(e) : \E j \in mine : jobs[j].nthreads = n
    BY <2>1, ThreadsExact
  <2>3. ASSUME NEW n \in ThreadCounts(e) PROVE Cardinality({j \in mine : jobs[j].nthreads = n}) = 1
    <3> HIDE DEF mine
    <3>1. PICK j \in mine : jobs[j].nthreads = n
      BY <2>2
    <3>2. {k \in mine : jobs[k].nthreads = n} = {j}
      BY <2>2, <3>1
    <3> QED
      BY <3>2, FS_Singleton
  <2>4. ASSUME NEW j \in mine
        PROVE  \E n \in 0..Len(jobs) - 1 :
                 /\ jobs[j].dir = <<exps[e].dir, n>>
                 /\ \A m \in 0..n : \E i \in mine : jobs[i].dir = <<exps[e].dir, m>>
    <3>1. PICK n \in 0..Len(jobs) - 1 :
            /\ jobs[j].dir = <<exps[jobs[j].exp].dir, n>>
            /\ \A m \in 0..n : \E i \in DOMAIN jobs : /\ jobs[i].exp = jobs[j].exp
                                                     /\ jobs[i].dir = <<exps[jobs[j].exp].dir, m>>
      BY <2>1 DEF Exact
    <3>2. \A m \in 0..n : \E i \in mine : jobs[i].dir = <<exps[e].dir, m>>
      BY <3>1
    <3> QED
      BY <3>1, <3>2
  <2>5. \A j, k \in mine : jobs[j].dir = jobs[k].dir => j = k
    BY <2>1 DEF Exact
  <2> QED
    BY <2>2, <2>3, <2>4, <2>5
<1> QED
  BY <1>1, <1>2, DataInit, DataStep, ExpansionStep, PTL DEF Spec

\* Statistics are made of every job or of none, each measured on the data of its own
\* experiment or on an empty database: an experiment whose files another one replaced
\* has a job in a directory of that one, and mkdir refuses the second.  Two jobs of an
\* experiment without a duplicate flag differ in their number of threads, so no merge of
\* equal rows makes one of the two.
THEOREM StatsOnOwnDataHolds == Spec => []StatsOnOwnData
<1>1. IndInv /\ JobsInv => StatsOnOwnData
  <2> SUFFICES ASSUME IndInv, JobsInv, phase = "done", NEW j \in DOMAIN jobs
               PROVE  /\ results[j].parse = "full"
                      /\ \/ results[j].data \in {jobs[j].exp, Nothing}
                         \/ SilentlyReplaced(jobs[j].exp)
                      /\ \A k \in DOMAIN jobs \ {j} :
                           jobs[k].exp = jobs[j].exp /\ DistinctFlags(jobs[j].exp) => rows[j] # rows[k]
    BY DEF StatsOnOwnData
  <2> USE DEF IndInv
  <2>0. Exact(exps, jobs)
    BY DEF JobsInv, TypeInv
  <2>5. ASSUME NEW k \in DOMAIN jobs \ {j}, jobs[k].exp = jobs[j].exp, DistinctFlags(jobs[j].exp),
               rows[j] = rows[k]
        PROVE  FALSE
    <3>1. jobs[j].nthreads = jobs[rows[j]].nthreads /\ jobs[k].nthreads = jobs[rows[k]].nthreads
      BY DEF DoneInv, SameInputs
    <3>2. jobs[j].exp \in DOMAIN exps /\ exps \in Configs
      BY <2>0 DEF Exact, TypeInv
    <3>3. \A m, n \in {i \in DOMAIN jobs : jobs[i].exp = jobs[j].exp} :
             jobs[m].nthreads = jobs[n].nthreads => m = n
      BY <2>0, <2>5, <3>2, ThreadsExact
    <3> QED
      BY <2>5, <3>1, <3>3
  <2>1. (\A i \in DOMAIN jobs : results[i].parse = "full") /\ Measured = DOMAIN jobs
    BY DEF DoneInv, Measured
  <2>2. /\ jobs # <<>> /\ results[j].data \in {Nothing, DataOf(jobs[j])}
        /\ \A i, k \in DOMAIN jobs : jobs[i].dir = jobs[k].dir => i = k
    BY <2>1 DEF MeasuredInv, TypeInv
  <2> DEFINE e == jobs[j].exp
  <2> DEFINE Own == results[j].data \in {e, Nothing} \/ SilentlyReplaced(e)
  <2>3. ASSUME ~Generated(e) PROVE Own
    BY <2>1, <2>2, <2>3 DEF DataOf, Generated
  <2>4. ASSUME Generated(e) PROVE Own
    <3> DEFINE f == files[exps[e].dir]
    <3>1. DataOf(jobs[j]) = f /\ e \in DOMAIN exps
      BY <2>0, <2>2, <2>4 DEF DataOf, Generated, Exact
    <3>2. Given = DOMAIN exps /\ DOMAIN exps \subseteq Int
      BY ConfigFacts DEF Given, TypeInv
    <3>3. f \in DOMAIN exps /\ f >= e /\ Generated(f) /\ exps[f].dir = exps[e].dir
      BY <2>2, <2>4, <3>1, <3>2 DEF FilesInv
    <3>4. ASSUME NEW i \in DOMAIN jobs
          PROVE  \E k \in DOMAIN jobs : /\ jobs[k].exp = jobs[i].exp
                                        /\ jobs[k].dir = <<exps[jobs[i].exp].dir, 0>>
      <4>1. PICK n \in 0..Len(jobs) - 1 :
              \A m \in 0..n : \E k \in DOMAIN jobs :
                /\ jobs[k].exp = jobs[i].exp /\ jobs[k].dir = <<exps[jobs[i].exp].dir, m>>
        BY <2>0 DEF Exact
      <4>2. 0 \in 0..n
        OBVIOUS
      <4> QED
        BY <4>1, <4>2
    <3>5. CASE f = e
      BY <2>1, <2>2, <3>1, <3>5
    <3>6. CASE f # e
      <4>1. f > e
        BY <3>1, <3>2, <3>3, <3>6
      <4>2. ASSUME NEW i \in DOMAIN jobs, jobs[i].exp = f PROVE FALSE
        <5>1. PICK k \in DOMAIN jobs : jobs[k].exp = f /\ jobs[k].dir = <<exps[f].dir, 0>>
          BY <3>4, <4>2
        <5>2. PICK l \in DOMAIN jobs : jobs[l].exp = e /\ jobs[l].dir = <<exps[e].dir, 0>>
          BY <3>4
        <5> QED
          BY <2>2, <3>3, <3>6, <5>1, <5>2
      <4>3. SilentlyReplaced(e)
        BY <2>4, <3>3, <4>1, <4>2 DEF SilentlyReplaced, Generated
      <4> QED
        BY <2>1, <4>3
    <3> QED
      BY <3>5, <3>6
  <2> QED
    BY <2>1, <2>3, <2>4, <2>5
<1>2. Init => JobsInv
  BY DEF Init, JobsInv
<1> QED
  BY <1>1, <1>2, DataInit, DataStep, ExpansionStep, PTL DEF Spec
=============================================================================
