---------------------------- MODULE LblPoolProofs ----------------------------
(***************************************************************************)
(* Proofs about LblPool, for every number of callers, tasks, workers and   *)
(* operations of the owner.                                                *)
(***************************************************************************)
EXTENDS LblPool, FiniteSetTheorems, TLAPS

(***************************************************************************)
(* Types                                                                   *)
(***************************************************************************)
\* A caller that submits has tasks left.
SentInv == \A c \in Caller : cpc[c] = "submit" => sent[c] < PARTS

\* A worker that runs a task, or has just run it, has one.
BusyInv == \A w \in Worker : wpc[w] \in {"run", "finish"} => task[w] \in Task

TypeInv == TypeOK /\ SentInv /\ BusyInv

\* There are finitely many tasks.
LEMMA TaskFinite == IsFiniteSet(Task) /\ Cardinality(Task) \in Nat
<1>1. IsFiniteSet(1..PARTS)
  BY LblPoolAssumption, FS_Interval
<1>2. IsFiniteSet(Task)
  BY <1>1, LblPoolAssumption, FS_Product DEF Task
<1> QED
  BY <1>2, FS_CardinalityType

\* determine_thread_count returns a number of workers the pool can have.
LEMMA ThreadCountType == \A n \in 0..MAX_THREADS : DetermineThreadCount(n) \in Worker
BY LblPoolAssumption DEF DetermineThreadCount, Worker

LEMMA TypeInit == Init => TypeInv
<1> SUFFICES ASSUME Init PROVE TypeInv
  OBVIOUS
<1>1. thread_count \in Worker
  BY LblPoolAssumption, ThreadCountType DEF Init
<1>2. wpc \in [Worker -> {"top", "exited"}]
  BY DEF Init, Created
<1>3. tasks \in Seq(Task) /\ tasks_total \in 0..(SIZE_T - 1)
  <2>1. Cardinality(Task) \in Nat
    BY TaskFinite
  <2> QED
    BY <2>1, LblPoolAssumption DEF Init
<1>4. mutex \in BOOLEAN /\ paused \in BOOLEAN /\ running \in BOOLEAN /\ waiting \in BOOLEAN
      /\ was_paused \in BOOLEAN
  BY DEF Init
<1>5. /\ task \in [Worker -> Task \union {NoTask}]
      /\ cpc \in [Caller -> {"submit"}]
      /\ sent \in [Caller -> 0..PARTS]
      /\ opc = "idle" /\ doing = "none" /\ ops \in 0..OWNER_OPS /\ done = {}
  BY LblPoolAssumption DEF Init
<1>6. SentInv
  BY LblPoolAssumption DEF Init, SentInv
<1> QED
  BY <1>1, <1>2, <1>3, <1>4, <1>5, <1>6 DEF TypeInv, TypeOK, BusyInv

LEMMA TypeStep == TypeInv /\ [Next]_vars => TypeInv'
<1> SUFFICES ASSUME TypeInv, [Next]_vars PROVE TypeInv'
  OBVIOUS
<1> USE LblPoolAssumption
    DEF TypeInv, TypeOK, SentInv, BusyInv, poolVars, workerVars, callerVars, ownerVars
<1>1. ASSUME NEW c \in Caller, Push(c) PROVE TypeInv'
  <2>1. <<c, sent[c] + 1>> \in Task
    BY <1>1 DEF Push, Enqueue, Task
  <2>2. tasks' \in Seq(Task)
    BY <1>1, <2>1 DEF Push, Enqueue
  <2> QED
    BY <1>1, <2>2 DEF Push, Enqueue
<1>2. ASSUME NEW c \in Caller, Count(c) PROVE TypeInv'
  <2>1. tasks_total' \in 0..(SIZE_T - 1)
    BY <1>2 DEF Count
  <2> QED
    BY <1>2, <2>1 DEF Count
<1>3. ASSUME NEW c \in Caller, NotifyOne(c) PROVE TypeInv'
  BY <1>3 DEF NotifyOne, WakeOne, Asleep
<1>4. ASSUME NEW c \in Caller, Join(c) PROVE TypeInv'
  BY <1>4 DEF Join
<1>5. ASSUME NEW w \in Worker, WorkerTop(w) PROVE TypeInv'
  BY <1>5 DEF WorkerTop
<1>6. ASSUME NEW w \in Worker, WorkerWait(w) \/ WorkerSleep(w) PROVE TypeInv'
  BY <1>6 DEF WorkerWait, WorkerSleep
<1>7. ASSUME NEW w \in Worker, WakeSpuriously(w) \/ WorkerSkip(w) PROVE TypeInv'
  <2>1. CASE WakeSpuriously(w)
    BY <2>1 DEF WakeSpuriously
  <2>2. CASE WorkerSkip(w)
    <3>1. wpc' = [wpc EXCEPT ![w] = "top"]
          /\ UNCHANGED <<poolVars, task, callerVars, ownerVars, done>>
      BY <2>2 DEF WorkerSkip
    <3> QED
      BY <3>1
  <2> QED
    BY <1>7, <2>1, <2>2
<1>8. ASSUME NEW w \in Worker, WorkerTake(w) PROVE TypeInv'
  <2>1. Head(tasks) \in Task /\ Tail(tasks) \in Seq(Task)
    BY <1>8 DEF WorkerTake
  <2> QED
    BY <1>8, <2>1 DEF WorkerTake, Popped
<1>9. ASSUME NEW w \in Worker, RunTask(w) PROVE TypeInv'
  BY <1>9 DEF RunTask
<1>10. ASSUME NEW w \in Worker, WorkerFinish(w) PROVE TypeInv'
  <2>1. tasks_total' \in 0..(SIZE_T - 1)
    BY <1>10 DEF WorkerFinish, CountedOff
  <2> QED
    BY <1>10, <2>1 DEF WorkerFinish, WakeOwner
<1>11. CASE OwnerCalls
  <2>1. ASSUME NEW b \in BOOLEAN, SetPaused(b) PROVE TypeInv'
    BY <2>1 DEF SetPaused, Begin
  <2>2. CASE Pause \/ Unpause
    BY <2>1, <2>2 DEF Pause, Unpause
  <2>3. CASE Wait
    BY <2>3 DEF Wait, WaitForTasks, Begin
  <2>4. CASE Delete
    BY <2>4 DEF Delete, WaitForTasks, Begin
  <2>5. CASE Reset
    BY <2>5 DEF Reset, Begin
  <2> QED
    BY <1>11, <2>2, <2>3, <2>4, <2>5 DEF OwnerCalls
<1>12. CASE WaitReturns \/ WaitSleeps \/ OwnerWakesSpuriously
  BY <1>12 DEF WaitReturns, WaitSleeps, OwnerWakesSpuriously
<1>13. CASE StopThreads \/ NotifyAll \/ DeleteReturns
  BY <1>13 DEF StopThreads, NotifyAll, WakeAll, DeleteReturns
<1>14. ASSUME NEW n \in 0..MAX_THREADS, ResetReturns(n) PROVE TypeInv'
  <2>1. thread_count' \in Worker
    BY <1>14, ThreadCountType DEF ResetReturns
  <2> QED
    BY <1>14, <2>1 DEF ResetReturns, Created
<1>15. CASE UNCHANGED vars
  BY <1>15 DEF vars
<1> QED
  BY <1>1, <1>2, <1>3, <1>4, <1>5, <1>6, <1>7, <1>8, <1>9, <1>10, <1>11, <1>12, <1>13,
     <1>14, <1>15 DEF Next, CallerStep, WorkerStep, OwnerStep

\* Every variable of the pool keeps its type: in particular no caller submits more
\* than its tasks and every task a worker runs came from the queue.
THEOREM TypeCorrect == Spec => []TypeOK
<1>1. Spec => []TypeInv
  BY TypeInit, TypeStep, PTL DEF Spec
<1>2. TypeInv => TypeOK
  BY DEF TypeInv
<1> QED
  BY <1>1, <1>2, PTL

(***************************************************************************)
(* Most steps leave the tasks and their count alone; five kinds do not     *)
(***************************************************************************)
Quiet ==
  /\ UNCHANGED <<tasks, task, sent, done>>
  /\ \A w \in Worker : (wpc[w] \in {"run", "finish"} \/ wpc'[w] \in {"run", "finish"})
                        => wpc'[w] = wpc[w]

Calm ==
  /\ Quiet
  /\ UNCHANGED tasks_total
  /\ \A c \in Caller : cpc'[c] = "count" <=> cpc[c] = "count"

LEMMA StepKinds ==
  ASSUME TypeInv, [Next]_vars
  PROVE  \/ Calm
         \/ \E c \in Caller : Push(c) \/ Count(c)
         \/ \E w \in Worker : WorkerTake(w) \/ RunTask(w) \/ WorkerFinish(w)
<1> USE DEF TypeInv, TypeOK, Calm, Quiet, poolVars, workerVars, callerVars, ownerVars
<1>1. ASSUME NEW c \in Caller, NotifyOne(c) PROVE Calm
  BY <1>1 DEF NotifyOne, WakeOne, Asleep
<1>2. ASSUME NEW c \in Caller, Join(c) PROVE Calm
  BY <1>2 DEF Join
<1>3. ASSUME NEW w \in Worker, WorkerTop(w) PROVE Calm
  BY <1>3 DEF WorkerTop
<1>4. ASSUME NEW w \in Worker, WorkerWait(w) PROVE Calm
  BY <1>4 DEF WorkerWait
<1>5. ASSUME NEW w \in Worker, WorkerSleep(w) PROVE Calm
  BY <1>5 DEF WorkerSleep
<1>6. ASSUME NEW w \in Worker, WakeSpuriously(w) PROVE Calm
  BY <1>6 DEF WakeSpuriously
<1>7. ASSUME NEW w \in Worker, WorkerSkip(w) PROVE Calm
  <2>1. wpc[w] = "lock" /\ wpc' = [wpc EXCEPT ![w] = "top"]
        /\ UNCHANGED <<poolVars, task, callerVars, ownerVars, done>>
    BY <1>7 DEF WorkerSkip
  <2> QED
    BY <2>1
<1>8. CASE OwnerCalls
  <2>1. UNCHANGED <<tasks, tasks_total, wpc, task, cpc, sent, done>>
    BY <1>8 DEF OwnerCalls, Pause, Unpause, SetPaused, Wait, Delete, WaitForTasks, Reset
  <2> QED
    BY <2>1
<1>9. CASE WaitReturns \/ WaitSleeps \/ OwnerWakesSpuriously \/ StopThreads \/ DeleteReturns
  <2>1. UNCHANGED <<tasks, tasks_total, wpc, task, cpc, sent, done>>
    BY <1>9 DEF WaitReturns, WaitSleeps, OwnerWakesSpuriously, StopThreads, DeleteReturns
  <2> QED
    BY <2>1
<1>10. CASE NotifyAll
  BY <1>10 DEF NotifyAll, WakeAll, Asleep
<1>11. ASSUME NEW n \in 0..MAX_THREADS, ResetReturns(n) PROVE Calm
  <2>1. \A w \in Worker : wpc[w] = "exited" /\ wpc'[w] \in {"top", "exited"}
    BY <1>11 DEF ResetReturns, Joined, Created
  <2>2. UNCHANGED <<tasks, tasks_total, task, cpc, sent, done>>
    BY <1>11 DEF ResetReturns
  <2> QED
    BY <2>1, <2>2
<1>12. CASE UNCHANGED vars
  BY <1>12 DEF vars
<1> HIDE DEF Calm
<1> QED
  BY <1>1, <1>2, <1>3, <1>4, <1>5, <1>6, <1>7, <1>8, <1>9, <1>10, <1>11, <1>12
     DEF Next, CallerStep, WorkerStep, OwnerStep

(***************************************************************************)
(* OnceEach.  A task that is submitted must be new, so the invariant says  *)
(* that no task has a number its caller has not reached; and a worker may  *)
(* forget its task at the end, because by then it is done.                 *)
(***************************************************************************)
FinishInv == \A w \in Worker : wpc[w] = "finish" => task[w] \in done

SubmittedInv ==
  /\ \A t \in Queued \union done : t[2] <= sent[t[1]]
  /\ \A w \in Worker : wpc[w] = "run" => task[w][2] <= sent[task[w][1]]

PlaceInv == OnceEach /\ FinishInv /\ SubmittedInv

LEMMA AppendFacts ==
  ASSUME NEW S, NEW s \in Seq(S), NEW e \in S
  PROVE  /\ Len(Append(s, e)) = Len(s) + 1
         /\ DOMAIN Append(s, e) = 1..(Len(s) + 1) /\ DOMAIN s = 1..Len(s)
         /\ \A i \in 1..Len(s) : Append(s, e)[i] = s[i]
         /\ Append(s, e)[Len(s) + 1] = e
OBVIOUS

LEMMA TailFacts ==
  ASSUME NEW S, NEW s \in Seq(S), s # <<>>
  PROVE  /\ Head(s) = s[1] /\ 1 \in DOMAIN s /\ DOMAIN s = 1..Len(s)
         /\ Len(Tail(s)) = Len(s) - 1 /\ DOMAIN Tail(s) = 1..(Len(s) - 1)
         /\ \A i \in 1..(Len(s) - 1) : Tail(s)[i] = s[i + 1]
OBVIOUS

LEMMA PlaceInit == Init => PlaceInv
BY DEF Init, PlaceInv, OnceEach, FinishInv, SubmittedInv, Queued, Created

\* A step that leaves tasks alone.
LEMMA PlaceQuiet == TypeInv /\ PlaceInv /\ Quiet => PlaceInv'
<1> SUFFICES ASSUME PlaceInv, Quiet PROVE PlaceInv'
  OBVIOUS
<1>1. Queued' = Queued /\ Busy' = Busy
  BY DEF Quiet, Queued, Busy
<1>2. UNCHANGED <<tasks, task, sent, done>>
      /\ \A w \in Worker : /\ wpc'[w] = "run" <=> wpc[w] = "run"
                           /\ wpc'[w] = "finish" <=> wpc[w] = "finish"
  BY DEF Quiet
<1>3. {task'[w] : w \in Busy'} = {task[w] : w \in Busy}
  BY <1>1, <1>2
<1>4. OnceEach'
  BY <1>1, <1>2, <1>3 DEF PlaceInv, OnceEach
<1> QED
  BY <1>1, <1>2, <1>4 DEF PlaceInv, FinishInv, SubmittedInv

LEMMA PlacePush ==
  ASSUME TypeInv, PlaceInv, NEW c \in Caller, Push(c)
  PROVE  PlaceInv'
<1> DEFINE e == <<c, sent[c] + 1>>
<1>1. /\ tasks' = Append(tasks, e) /\ sent' = [sent EXCEPT ![c] = @ + 1]
      /\ UNCHANGED <<wpc, task, done>>
  BY DEF Push, Enqueue, workerVars
<1>2. sent[c] \in Nat /\ sent \in [Caller -> 0..PARTS] /\ cpc[c] = "submit"
  BY LblPoolAssumption DEF TypeInv, TypeOK, Push, Enqueue
<1>3. e \in Task
  BY <1>2, LblPoolAssumption DEF TypeInv, SentInv, Task
<1>4. /\ Len(tasks') = Len(tasks) + 1 /\ Len(tasks) \in Nat
      /\ DOMAIN tasks' = 1..(Len(tasks) + 1) /\ DOMAIN tasks = 1..Len(tasks)
      /\ \A i \in 1..Len(tasks) : tasks'[i] = tasks[i]
      /\ tasks'[Len(tasks) + 1] = e
  BY <1>1, <1>3, AppendFacts DEF TypeInv, TypeOK
<1>5. Queued' = Queued \union {e}
  <2> HIDE DEF e
  <2>1. Queued' \subseteq Queued \union {e}
    BY <1>4 DEF Queued
  <2>2. Queued \subseteq Queued'
    BY <1>4 DEF Queued
  <2>3. e \in Queued'
    BY <1>4 DEF Queued
  <2> QED
    BY <2>1, <2>2, <2>3
<1>6. e \notin Queued \union done /\ \A w \in Worker : wpc[w] = "run" => task[w] # e
  BY <1>2 DEF PlaceInv, SubmittedInv
<1>7. \A i, j \in DOMAIN tasks' : tasks'[i] = tasks'[j] => i = j
  <2>1. \A i \in 1..Len(tasks) : tasks[i] \in Queued
    BY <1>4 DEF Queued
  <2> QED
    BY <2>1, <1>4, <1>6 DEF PlaceInv, OnceEach
<1>8. \A d \in Caller : \A i \in 1..sent'[d] :
        <<d, i>> \in Queued' \union done' \union {task[w] : w \in Busy}
  <2> SUFFICES ASSUME NEW d \in Caller, NEW i \in 1..sent'[d]
               PROVE  <<d, i>> \in Queued' \union done' \union {task[w] : w \in Busy}
    OBVIOUS
  <2>1. CASE d = c /\ i = sent[c] + 1
    BY <2>1, <1>5
  <2>2. CASE ~(d = c /\ i = sent[c] + 1)
    <3>1. i \in 1..sent[d]
      BY <2>2, <1>1, <1>2
    <3> QED
      BY <3>1, <1>1, <1>5 DEF PlaceInv, OnceEach
  <2> QED
    BY <2>1, <2>2
<1>9. OnceEach'
  <2>1. Busy' = Busy
    BY <1>1 DEF Busy
  <2>2. \A w \in Worker : wpc'[w] = "run" => task'[w] \notin Queued' \union done'
    BY <1>1, <1>5, <1>6 DEF PlaceInv, OnceEach
  <2>3. Queued' \cap done' = {}
    BY <1>1, <1>5, <1>6 DEF PlaceInv, OnceEach
  <2>4. \A v, w \in Worker : wpc'[v] = "run" /\ wpc'[w] = "run" /\ task'[v] = task'[w] => v = w
    BY <1>1 DEF PlaceInv, OnceEach
  <2>5. {task'[w] : w \in Busy'} = {task[w] : w \in Busy}
    BY <1>1, <2>1
  <2>6. \A d \in Caller : \A i \in 1..sent'[d] :
          <<d, i>> \in Queued' \union done' \union {task'[w] : w \in Busy'}
    BY <1>8, <2>5
  <2> QED
    BY <1>7, <2>2, <2>3, <2>4, <2>6 DEF OnceEach
<1>10. FinishInv'
  BY <1>1 DEF PlaceInv, FinishInv
<1>11. SubmittedInv'
  <2>1. \A d \in Caller : sent[d] \in Nat /\ sent[d] <= sent'[d] /\ sent'[d] \in Nat
    BY <1>1, <1>2, LblPoolAssumption
  <2>2. \A t \in Task : t[1] \in Caller /\ t[2] \in Nat
    BY LblPoolAssumption DEF Task
  <2>3. Queued \union done \subseteq Task /\ \A w \in Worker : wpc[w] = "run" => task[w] \in Task
    BY DEF TypeInv, TypeOK, BusyInv, Queued
  <2>4. e[2] <= sent'[e[1]]
    BY <1>1, <1>2
  <2>5. \A t \in Queued \union done : t[2] <= sent'[t[1]]
    BY <2>1, <2>2, <2>3 DEF PlaceInv, SubmittedInv
  <2>6. \A w \in Worker : wpc[w] = "run" => task[w][2] <= sent'[task[w][1]]
    BY <2>1, <2>2, <2>3 DEF PlaceInv, SubmittedInv
  <2> QED
    BY <2>4, <2>5, <2>6, <1>1, <1>5 DEF SubmittedInv
<1> QED
  BY <1>9, <1>10, <1>11 DEF PlaceInv

LEMMA PlaceTake ==
  ASSUME TypeInv, PlaceInv, NEW w \in Worker, WorkerTake(w)
  PROVE  PlaceInv'
<1> DEFINE h == tasks[1]
<1>1. /\ tasks # <<>> /\ wpc[w] = "lock"
      /\ tasks' = Tail(tasks) /\ task' = [task EXCEPT ![w] = h]
      /\ wpc' = [wpc EXCEPT ![w] = "run"]
      /\ UNCHANGED <<sent, done>>
  BY TailFacts DEF WorkerTake, Popped, callerVars, TypeInv, TypeOK
<1>2. /\ Len(tasks) \in Nat /\ DOMAIN tasks = 1..Len(tasks) /\ 1 \in DOMAIN tasks
      /\ DOMAIN tasks' = 1..(Len(tasks) - 1)
      /\ \A i \in 1..(Len(tasks) - 1) : tasks'[i] = tasks[i + 1]
  BY <1>1, TailFacts DEF TypeInv, TypeOK
<1>3. wpc \in [Worker -> {"top", "lock", "block", "sleep", "run", "finish", "exited"}]
      /\ task \in [Worker -> Task \union {NoTask}]
  BY DEF TypeInv, TypeOK
<1>4. \A i \in DOMAIN tasks : tasks[i] \in Queued
  BY DEF Queued
<1>5. \A i, j \in DOMAIN tasks : tasks[i] = tasks[j] => i = j
  BY DEF PlaceInv, OnceEach
<1>6. h \in Queued /\ h \notin Queued' /\ Queued' \subseteq Queued
  <2>1. h \notin Queued'
    <3>1. \A i \in DOMAIN tasks' : tasks'[i] # h
      BY <1>2, <1>5
    <3> QED
      BY <3>1 DEF Queued
  <2>2. Queued' \subseteq Queued
    BY <1>2 DEF Queued
  <2> QED
    BY <2>1, <2>2, <1>2, <1>4
<1>7. Queued \subseteq Queued' \union {h}
  <2> SUFFICES ASSUME NEW i \in DOMAIN tasks, i # 1 PROVE tasks[i] \in Queued'
    BY DEF Queued
  <2>1. i - 1 \in DOMAIN tasks' /\ tasks'[i - 1] = tasks[i]
    BY <1>2
  <2> QED
    BY <2>1 DEF Queued
<1> HIDE DEF h
<1>8. h \notin done /\ \A v \in Worker : wpc[v] = "run" => task[v] # h
  BY <1>6 DEF PlaceInv, OnceEach
<1>9. \A v \in Worker : v # w => wpc'[v] = wpc[v] /\ task'[v] = task[v]
  BY <1>1, <1>3
<1>10. wpc'[w] = "run" /\ task'[w] = h
  BY <1>1, <1>3
<1>11. {task[v] : v \in Busy} \union {h} \subseteq {task'[v] : v \in Busy'}
  <2>1. w \notin Busy /\ w \in Busy'
    BY <1>1, <1>10 DEF Busy
  <2>2. \A v \in Busy : v \in Busy' /\ task'[v] = task[v]
    BY <2>1, <1>9 DEF Busy
  <2> QED
    BY <2>1, <2>2, <1>10
<1>12. OnceEach'
  <2>1. \A i, j \in DOMAIN tasks' : tasks'[i] = tasks'[j] => i = j
    BY <1>2, <1>5
  <2>2. \A u, v \in Worker : wpc'[u] = "run" /\ wpc'[v] = "run" /\ task'[u] = task'[v] => u = v
    BY <1>8, <1>9, <1>10 DEF PlaceInv, OnceEach
  <2>3. \A v \in Worker : wpc'[v] = "run" => task'[v] \notin Queued' \union done'
    BY <1>1, <1>6, <1>8, <1>9, <1>10 DEF PlaceInv, OnceEach
  <2>4. Queued' \cap done' = {}
    BY <1>1, <1>6 DEF PlaceInv, OnceEach
  <2>5. \A c \in Caller : \A i \in 1..sent'[c] :
          <<c, i>> \in Queued' \union done' \union {task'[v] : v \in Busy'}
    BY <1>1, <1>7, <1>11 DEF PlaceInv, OnceEach
  <2> QED
    BY <2>1, <2>2, <2>3, <2>4, <2>5 DEF OnceEach
<1>13. FinishInv'
  BY <1>1, <1>9, <1>10 DEF PlaceInv, FinishInv
<1>14. SubmittedInv'
  BY <1>1, <1>6, <1>9, <1>10 DEF PlaceInv, SubmittedInv
<1> QED
  BY <1>12, <1>13, <1>14 DEF PlaceInv

LEMMA PlaceRun ==
  ASSUME TypeInv, PlaceInv, NEW w \in Worker, RunTask(w)
  PROVE  PlaceInv'
<1>1. /\ wpc[w] = "run" /\ done' = done \union {task[w]}
      /\ wpc' = [wpc EXCEPT ![w] = "finish"]
      /\ UNCHANGED <<tasks, task, sent>>
  BY DEF RunTask, poolVars, callerVars
<1>2. \A v \in Worker : v # w => wpc'[v] = wpc[v]
  BY <1>1 DEF TypeInv, TypeOK
<1>3. wpc'[w] = "finish"
  BY <1>1 DEF TypeInv, TypeOK
<1>4. Queued' = Queued /\ Busy' = Busy
  BY <1>1, <1>2, <1>3 DEF Queued, Busy
<1>5. {task'[v] : v \in Busy'} = {task[v] : v \in Busy}
  BY <1>1, <1>4
<1>6. OnceEach'
  <2>1. \A i, j \in DOMAIN tasks' : tasks'[i] = tasks'[j] => i = j
    BY <1>1 DEF PlaceInv, OnceEach
  <2>2. \A u, v \in Worker : wpc'[u] = "run" /\ wpc'[v] = "run" /\ task'[u] = task'[v] => u = v
    BY <1>1, <1>2, <1>3 DEF PlaceInv, OnceEach
  <2>3. \A v \in Worker : wpc'[v] = "run" => task'[v] \notin Queued' \union done'
    BY <1>1, <1>2, <1>3, <1>4 DEF PlaceInv, OnceEach
  <2>4. Queued' \cap done' = {}
    BY <1>1, <1>4 DEF PlaceInv, OnceEach
  <2>5. \A c \in Caller : \A i \in 1..sent'[c] :
          <<c, i>> \in Queued' \union done' \union {task'[v] : v \in Busy'}
    BY <1>1, <1>4, <1>5 DEF PlaceInv, OnceEach
  <2> QED
    BY <2>1, <2>2, <2>3, <2>4, <2>5 DEF OnceEach
<1>7. FinishInv'
  BY <1>1, <1>2, <1>3 DEF PlaceInv, FinishInv
<1>8. SubmittedInv'
  BY <1>1, <1>2, <1>3, <1>4 DEF PlaceInv, SubmittedInv
<1> QED
  BY <1>6, <1>7, <1>8 DEF PlaceInv

LEMMA PlaceFinish ==
  ASSUME TypeInv, PlaceInv, NEW w \in Worker, WorkerFinish(w)
  PROVE  PlaceInv'
<1>1. /\ wpc[w] = "finish" /\ task' = [task EXCEPT ![w] = NoTask]
      /\ wpc' = [wpc EXCEPT ![w] = "top"]
      /\ UNCHANGED <<tasks, sent, done>>
  BY DEF WorkerFinish, callerVars
<1>2. \A v \in Worker : v # w => wpc'[v] = wpc[v] /\ task'[v] = task[v]
  BY <1>1 DEF TypeInv, TypeOK
<1>3. wpc'[w] = "top" /\ task[w] \in done
  BY <1>1 DEF TypeInv, TypeOK, PlaceInv, FinishInv
<1>4. Queued' = Queued
  BY <1>1 DEF Queued
<1>5. {task[v] : v \in Busy} \subseteq {task'[v] : v \in Busy'} \union done
  <2>1. \A v \in Busy : v = w \/ (v \in Busy' /\ task'[v] = task[v])
    BY <1>2 DEF Busy
  <2> QED
    BY <2>1, <1>3
<1>6. OnceEach'
  <2>1. \A i, j \in DOMAIN tasks' : tasks'[i] = tasks'[j] => i = j
    BY <1>1 DEF PlaceInv, OnceEach
  <2>2. \A u, v \in Worker : wpc'[u] = "run" /\ wpc'[v] = "run" /\ task'[u] = task'[v] => u = v
    BY <1>2, <1>3 DEF PlaceInv, OnceEach
  <2>3. \A v \in Worker : wpc'[v] = "run" => task'[v] \notin Queued' \union done'
    BY <1>1, <1>2, <1>3, <1>4 DEF PlaceInv, OnceEach
  <2>4. Queued' \cap done' = {}
    BY <1>1, <1>4 DEF PlaceInv, OnceEach
  <2>5. \A c \in Caller : \A i \in 1..sent'[c] :
          <<c, i>> \in Queued' \union done' \union {task'[v] : v \in Busy'}
    BY <1>1, <1>4, <1>5 DEF PlaceInv, OnceEach
  <2> QED
    BY <2>1, <2>2, <2>3, <2>4, <2>5 DEF OnceEach
<1>7. FinishInv' /\ SubmittedInv'
  BY <1>1, <1>2, <1>3, <1>4 DEF PlaceInv, FinishInv, SubmittedInv
<1> QED
  BY <1>6, <1>7 DEF PlaceInv

LEMMA PlaceStep == TypeInv /\ PlaceInv /\ [Next]_vars => PlaceInv'
<1> SUFFICES ASSUME TypeInv, PlaceInv, [Next]_vars PROVE PlaceInv'
  OBVIOUS
<1>1. CASE Calm
  BY <1>1, PlaceQuiet DEF Calm
<1>2. ASSUME NEW c \in Caller, Count(c) PROVE PlaceInv'
  <2>1. Quiet
    BY <1>2 DEF Count, Quiet, workerVars
  <2> QED
    BY <2>1, PlaceQuiet
<1> QED
  BY <1>1, <1>2, StepKinds, PlacePush, PlaceTake, PlaceRun, PlaceFinish

\* No task is lost and none is run twice, for every number of callers, tasks and
\* workers, whatever the owner pauses, resets or deletes.
THEOREM OnceEachHolds == Spec => []OnceEach
<1>1. Spec => [](TypeInv /\ PlaceInv)
  BY TypeInit, TypeStep, PlaceInit, PlaceStep, PTL DEF Spec
<1>2. PlaceInv => OnceEach
  BY DEF PlaceInv
<1> QED
  BY <1>1, <1>2, PTL

(***************************************************************************)
(* TotalAccounted: arithmetic modulo the number of values of size_t        *)
(***************************************************************************)
LEMMA MultipleGrows ==
  ASSUME NEW n \in Nat \ {0}, NEW k \in Int, k >= 1
  PROVE  n * k >= n
BY SMT

LEMMA DivMod ==
  ASSUME NEW n \in Nat \ {0}, NEW a \in Int
  PROVE  a \div n \in Int /\ (a % n) \in 0..(n - 1) /\ a = n * (a \div n) + (a % n)
BY SMT

\* The remainder is the only one.
LEMMA ModUnique ==
  ASSUME NEW n \in Nat \ {0}, NEW q \in Int, NEW r \in 0..(n - 1), NEW a \in Int,
         a = n * q + r
  PROVE  (a % n) = r
<1> DEFINE Q == a \div n
           R == a % n
<1>1. Q \in Int /\ R \in 0..(n - 1) /\ a = n * Q + R
  BY DivMod
<1> HIDE DEF Q, R
<1>2. CASE Q - q >= 1
  <2>1. n * (Q - q) >= n
    BY <1>1, <1>2, MultipleGrows
  <2>2. n * (Q - q) = n * Q - n * q
    BY <1>1, SMT
  <2> QED
    BY <2>1, <2>2, <1>1
<1>3. CASE q - Q >= 1
  <2>1. n * (q - Q) >= n
    BY <1>1, <1>3, MultipleGrows
  <2>2. n * (q - Q) = n * q - n * Q
    BY <1>1, SMT
  <2> QED
    BY <2>1, <2>2, <1>1
<1>4. CASE Q = q
  BY <1>1, <1>4 DEF R
<1> QED
  BY <1>1, <1>2, <1>3, <1>4

\* ++tasks_total on a count that may have wrapped.
LEMMA ModIncrement ==
  ASSUME NEW n \in Nat \ {0}, NEW a \in Int
  PROVE  ((a % n) + 1) % n = (a + 1) % n
<1> DEFINE q == a \div n
           r == a % n
<1>1. q \in Int /\ r \in 0..(n - 1) /\ a = n * q + r
  BY DivMod
<1> HIDE DEF q, r
<1>2. CASE r + 1 < n
  <2>1. (a + 1) % n = r + 1
    BY <1>1, <1>2, ModUnique
  <2>2. (r + 1) % n = r + 1
    BY <1>1, <1>2, ModUnique, r + 1 = n * 0 + (r + 1)
  <2> QED
    BY <2>1, <2>2 DEF r
<1>3. CASE r + 1 = n
  <2>1. (a + 1) % n = 0
    BY <1>1, <1>3, ModUnique, a + 1 = n * (q + 1) + 0
  <2>2. (r + 1) % n = 0
    BY <1>1, <1>3, ModUnique, r + 1 = n * 1 + 0
  <2> QED
    BY <2>1, <2>2 DEF r
<1> QED
  BY <1>1, <1>2, <1>3

\* --tasks_total likewise.
LEMMA ModDecrement ==
  ASSUME NEW n \in Nat \ {0}, NEW a \in Int
  PROVE  ((a % n) - 1) % n = (a - 1) % n
<1> DEFINE q == a \div n
           r == a % n
<1>1. q \in Int /\ r \in 0..(n - 1) /\ a = n * q + r
  BY DivMod
<1> HIDE DEF q, r
<1>2. CASE r >= 1
  <2>1. (a - 1) % n = r - 1
    BY <1>1, <1>2, ModUnique, a - 1 = n * q + (r - 1)
  <2>2. (r - 1) % n = r - 1
    BY <1>1, <1>2, ModUnique, r - 1 = n * 0 + (r - 1)
  <2> QED
    BY <2>1, <2>2 DEF r
<1>3. CASE r = 0
  <2>1. (a - 1) % n = n - 1
    BY <1>1, <1>3, ModUnique, a - 1 = n * (q - 1) + (n - 1)
  <2>2. (r - 1) % n = n - 1
    BY <1>1, <1>3, ModUnique, r - 1 = n * (-1) + (n - 1)
  <2> QED
    BY <2>1, <2>2 DEF r
<1> QED
  BY <1>1, <1>2, <1>3

\* The sets that are counted are finite.
LEMMA CountedFinite ==
  /\ IsFiniteSet(Busy) /\ Cardinality(Busy) \in 0..MAX_THREADS
  /\ IsFiniteSet(Uncounted) /\ Cardinality(Uncounted) \in Nat
<1>1. IsFiniteSet(Worker) /\ Cardinality(Worker) = MAX_THREADS
  BY LblPoolAssumption, FS_Interval DEF Worker
<1>2. Busy \in SUBSET Worker /\ Uncounted \in SUBSET Caller
  BY DEF Busy, Uncounted
<1>3. IsFiniteSet(Busy) /\ Cardinality(Busy) <= MAX_THREADS
  BY <1>1, <1>2, FS_Subset
<1>4. IsFiniteSet(Uncounted)
  BY <1>2, FS_Subset, LblPoolAssumption
<1> QED
  BY <1>3, <1>4, FS_CardinalityType, LblPoolAssumption

\* The number that tasks_total stands for.
Outstanding == Len(tasks) + Cardinality(Busy) - Cardinality(Uncounted)

LEMMA TotalInit == Init => TotalAccounted
<1> SUFFICES ASSUME Init PROVE TotalAccounted
  OBVIOUS
<1>1. Busy = {} /\ Uncounted = {} /\ Len(tasks) = 0
  BY DEF Init, Busy, Uncounted, Created
<1>2. SIZE_T \in Nat \ {0}
  BY TaskFinite, LblPoolAssumption
<1>3. (0 % SIZE_T) = 0
  BY <1>2, ModUnique, 0 = SIZE_T * 0 + 0
<1> QED
  BY <1>1, <1>3, FS_EmptySet DEF Init, TotalAccounted

LEMMA TotalStep == TypeInv /\ TotalAccounted /\ [Next]_vars => TotalAccounted'
<1> SUFFICES ASSUME TypeInv, TotalAccounted, [Next]_vars PROVE TotalAccounted'
  OBVIOUS
<1> USE DEF TypeInv, TypeOK
<1>1. SIZE_T \in Nat \ {0} /\ Len(tasks) \in Nat
  BY TaskFinite, LblPoolAssumption
<1>2. Outstanding \in Int /\ tasks_total = Outstanding % SIZE_T
  BY <1>1, CountedFinite DEF Outstanding, TotalAccounted
<1>3. CASE Calm
  <2>1. Busy' = Busy /\ Uncounted' = Uncounted /\ tasks' = tasks /\ tasks_total' = tasks_total
    BY <1>3 DEF Calm, Quiet, Busy, Uncounted
  <2> QED
    BY <2>1 DEF TotalAccounted
<1>4. ASSUME NEW c \in Caller, Push(c) PROVE TotalAccounted'
  <2>1. Len(tasks') = Len(tasks) + 1
    BY <1>4 DEF Push, Enqueue
  <2>2. Busy' = Busy /\ tasks_total' = tasks_total
    BY <1>4 DEF Push, Enqueue, Busy, workerVars
  <2>3. Uncounted' = Uncounted \union {c} /\ c \notin Uncounted
    BY <1>4 DEF Push, Enqueue, Uncounted
  <2>4. Cardinality(Uncounted') = Cardinality(Uncounted) + 1
    BY <2>3, CountedFinite, FS_AddElement
  <2>5. Outstanding' = Outstanding
    <3>1. Outstanding' = (Len(tasks) + 1) + Cardinality(Busy) - (Cardinality(Uncounted) + 1)
      BY <2>1, <2>2, <2>4 DEF Outstanding
    <3>2. Cardinality(Busy) \in Nat /\ Cardinality(Uncounted) \in Nat
      BY CountedFinite
    <3>3. ASSUME NEW n \in Nat, NEW b \in Nat, NEW u \in Nat PROVE (n + 1) + b - (u + 1) = n + b - u
      OBVIOUS
    <3> QED
      BY <3>1, <3>2, <3>3, <1>1 DEF Outstanding
  <2> QED
    BY <2>2, <2>5, <1>2 DEF TotalAccounted, Outstanding
<1>5. ASSUME NEW c \in Caller, Count(c) PROVE TotalAccounted'
  <2>1. tasks' = tasks /\ Busy' = Busy /\ tasks_total' = (tasks_total + 1) % SIZE_T
    BY <1>5 DEF Count, Busy, workerVars
  <2>2. Uncounted' = Uncounted \ {c} /\ c \in Uncounted
    BY <1>5 DEF Count, Uncounted
  <2>3. Cardinality(Uncounted') = Cardinality(Uncounted) - 1
    BY <2>2, CountedFinite, FS_RemoveElement
  <2>4. Outstanding' = Outstanding + 1
    BY <2>1, <2>3, <1>1, CountedFinite DEF Outstanding
  <2>5. tasks_total' = Outstanding' % SIZE_T
    BY <2>1, <2>4, <1>1, <1>2, ModIncrement
  <2> QED
    BY <2>5 DEF TotalAccounted, Outstanding
<1>6. ASSUME NEW w \in Worker, WorkerTake(w) PROVE TotalAccounted'
  <2>1. Len(tasks') = Len(tasks) - 1
    BY <1>6, TailFacts DEF WorkerTake, Popped
  <2>2. Uncounted' = Uncounted /\ tasks_total' = tasks_total
    BY <1>6 DEF WorkerTake, Uncounted, callerVars
  <2>3. Busy' = Busy \union {w} /\ w \notin Busy
    BY <1>6 DEF WorkerTake, Busy
  <2>4. Cardinality(Busy') = Cardinality(Busy) + 1
    BY <2>3, CountedFinite, FS_AddElement
  <2>5. Outstanding' = Outstanding
    BY <2>1, <2>2, <2>4, <1>1, CountedFinite DEF Outstanding
  <2> QED
    BY <2>2, <2>5, <1>2 DEF TotalAccounted, Outstanding
<1>7. ASSUME NEW w \in Worker, RunTask(w) PROVE TotalAccounted'
  <2>1. Busy' = Busy /\ Uncounted' = Uncounted /\ tasks' = tasks /\ tasks_total' = tasks_total
    BY <1>7 DEF RunTask, Busy, Uncounted, poolVars, callerVars
  <2> QED
    BY <2>1 DEF TotalAccounted
<1>8. ASSUME NEW w \in Worker, WorkerFinish(w) PROVE TotalAccounted'
  <2>1. tasks' = tasks /\ Uncounted' = Uncounted /\ tasks_total' = (tasks_total - 1) % SIZE_T
    BY <1>8 DEF WorkerFinish, CountedOff, Uncounted, callerVars
  <2>2. Busy' = Busy \ {w} /\ w \in Busy
    BY <1>8 DEF WorkerFinish, Busy
  <2>3. Cardinality(Busy') = Cardinality(Busy) - 1
    BY <2>2, CountedFinite, FS_RemoveElement
  <2>4. Outstanding' = Outstanding - 1
    BY <2>1, <2>3, <1>1, CountedFinite DEF Outstanding
  <2>5. tasks_total' = Outstanding' % SIZE_T
    BY <2>1, <2>4, <1>1, <1>2, ModDecrement
  <2> QED
    BY <2>5 DEF TotalAccounted, Outstanding
<1> QED
  BY <1>3, <1>4, <1>5, <1>6, <1>7, <1>8, StepKinds

\* tasks_total is the number of tasks queued or run less those not yet counted, modulo
\* the range of size_t, at every moment.
THEOREM TotalAccountedHolds == Spec => []TotalAccounted
<1>1. Spec => [](TypeInv /\ TotalAccounted)
  BY TypeInit, TypeStep, TotalInit, TotalStep, PTL DEF Spec
<1> QED
  BY <1>1, PTL

(***************************************************************************)
(* WaitMeansDone.  The count is off by the pushes in progress and no more, *)
(* because the tasks fit size_t: the queue holds none twice.               *)
(***************************************************************************)
LEMMA QueueBounded == TypeInv /\ PlaceInv => Len(tasks) <= Cardinality(Task)
<1> SUFFICES ASSUME TypeInv, PlaceInv PROVE Len(tasks) <= Cardinality(Task)
  OBVIOUS
<1>1. tasks \in [1..Len(tasks) -> Task] /\ Len(tasks) \in Nat
  BY DEF TypeInv, TypeOK
<1>2. tasks \in Injection(1..Len(tasks), Task)
  BY <1>1 DEF PlaceInv, OnceEach, Injection, IsInjective
<1>3. Cardinality(1..Len(tasks)) <= Cardinality(Task)
  BY <1>2, TaskFinite, FS_Injection
<1> QED
  BY <1>1, <1>3, FS_Interval

\* A caller pushes one task at a time.
LEMMA UncountedBounded == Cardinality(Uncounted) <= Cardinality(Task)
<1> DEFINE first == [c \in Uncounted |-> <<c, 1>>]
<1>1. \A c \in Uncounted : <<c, 1>> \in Task
  BY LblPoolAssumption DEF Uncounted, Task
<1>2. first \in [Uncounted -> Task]
  BY <1>1
<1>3. first \in Injection(Uncounted, Task)
  BY <1>2 DEF Injection, IsInjective
<1> QED
  BY <1>3, TaskFinite, FS_Injection

LEMMA WaitStep ==
  ASSUME TypeInv, PlaceInv, TotalAccounted, [Next]_vars,
         opc = "test", opc' \in {"idle", "stop"}
  PROVE  Cardinality(Busy) + (IF paused THEN 0 ELSE Len(tasks)) = Cardinality(Uncounted)
<1>1. AllDone
  <2> SUFFICES ASSUME ~WaitReturns PROVE FALSE
    BY DEF WaitReturns
  <2>1. ~(UNCHANGED opc) /\ opc' # "asleep"
    OBVIOUS
  <2>2. ASSUME NEW c \in Caller, CallerStep(c) PROVE FALSE
    BY <2>1, <2>2 DEF CallerStep, Push, Enqueue, Count, NotifyOne, Join, ownerVars
  <2>3. ASSUME NEW w \in Worker, WorkerStep(w) \/ WakeSpuriously(w) PROVE FALSE
    <3>1. CASE WorkerFinish(w)
      BY <3>1, <2>1 DEF WorkerFinish, WakeOwner
    <3> QED
      BY <3>1, <2>1, <2>3 DEF WorkerStep, WorkerTop, WorkerWait, WorkerSleep, WorkerSkip,
         WorkerTake, RunTask, WakeSpuriously, ownerVars
  <2>4. ~OwnerCalls
    BY DEF OwnerCalls, Pause, Unpause, SetPaused, Wait, Delete, WaitForTasks, Reset, Begin
  <2>5. ~WaitSleeps
    BY <2>1 DEF WaitSleeps
  <2>6. ~OwnerStep
    BY <2>5 DEF OwnerStep, StopThreads, NotifyAll, DeleteReturns, ResetReturns, Joined
  <2>7. ~OwnerWakesSpuriously /\ opc # "gone"
    BY DEF OwnerWakesSpuriously
  <2>8. ~UNCHANGED vars
    BY <2>1 DEF vars, ownerVars
  <2> QED
    BY <2>2, <2>3, <2>4, <2>6, <2>7, <2>8 DEF Next
<1> DEFINE L == Len(tasks)
           B == Cardinality(Busy)
           U == Cardinality(Uncounted)
           S == SIZE_T
           k == (L + B - U) \div S
<1>2. L \in Nat /\ B \in Nat /\ U \in Nat
  BY CountedFinite, LblPoolAssumption DEF TypeInv, TypeOK
<1>3. L + B < S /\ U < S /\ S \in Nat \ {0}
  <2>1. S > Cardinality(Task) + MAX_THREADS /\ S \in Nat /\ MAX_THREADS \in Nat
        /\ Cardinality(Task) \in Nat /\ L <= Cardinality(Task) /\ B <= MAX_THREADS
    BY CountedFinite, QueueBounded, TaskFinite, LblPoolAssumption
  <2>2. U <= Cardinality(Task)
    BY <1>2, UncountedBounded
  <2> HIDE DEF L, B, U, S
  <2> QED
    BY <1>2, <2>1, <2>2
<1>4. k \in Int /\ L + B - U = S * k + tasks_total
  <2>1. tasks_total = (L + B - U) % S
    BY DEF TotalAccounted
  <2>2. L + B - U \in Int
    BY <1>2
  <2> HIDE DEF L, B, U, S
  <2> QED
    BY <1>3, <2>1, <2>2, DivMod
<1>5. tasks_total = IF paused THEN L ELSE 0
  BY <1>1 DEF AllDone
<1> HIDE DEF L, B, U, S, k
<1>6. k = 0
  <2>1. CASE k >= 1
    <3>1. S * k >= S
      BY <1>3, <1>4, <2>1, MultipleGrows
    <3> QED
      BY <1>2, <1>3, <1>4, <1>5, <3>1
  <2>2. CASE -k >= 1
    <3>1. S * (-k) >= S /\ S * (-k) = -(S * k)
      BY <1>3, <1>4, <2>2, MultipleGrows
    <3> QED
      BY <1>2, <1>3, <1>4, <1>5, <3>1
  <2> QED
    BY <1>4, <2>1, <2>2
<1>7. L + B - U = tasks_total
  <2>1. S * 0 = 0 /\ tasks_total \in Int
    BY <1>2, <1>3, <1>5
  <2> QED
    BY <1>4, <1>6, <2>1
<1>8. B + (IF paused THEN 0 ELSE L) = U
  BY <1>2, <1>5, <1>7
<1> QED
  BY <1>8 DEF L, B, U

\* When wait_for_tasks returns, the tasks that run, or are queued in a pool that is not
\* paused, are as many as the push_tasks between their push and their count: for any number
\* of callers and workers.
THEOREM WaitMeansDoneHolds == Spec => WaitMeansDone
<1>1. Spec => [](TypeInv /\ PlaceInv /\ TotalAccounted)
  BY TypeInit, TypeStep, PlaceInit, PlaceStep, TotalInit, TotalStep, PTL DEF Spec
<1>2. TypeInv /\ PlaceInv /\ TotalAccounted /\ [Next]_vars =>
        [opc = "test" /\ opc' \in {"idle", "stop"} =>
           Cardinality(Busy) + (IF paused THEN 0 ELSE Len(tasks)) = Cardinality(Uncounted)]_vars
  BY WaitStep
<1> QED
  BY <1>1, <1>2, PTL DEF Spec, WaitMeansDone

(***************************************************************************)
(* Wake-ups.  CallsEnd, WaitEnds and JoinEnds are liveness; these are the  *)
(* facts about every state and step that they rest on.                     *)
(***************************************************************************)
Awake(w) == wpc[w] \in {"top", "lock", "run", "finish"}

\* A queued task of a running pool is never left to workers that all sleep: one of them is
\* awake, or the notification of a push_task is still to come.
QueueWatched ==
  tasks # <<>> /\ running =>
    \/ \E w \in Worker : Awake(w)
    \/ \E c \in Caller : cpc[c] \in {"count", "notify"}

\* One worker about to sleep keeps the mutex and with it the queue empty; a running pool has
\* a worker; destroy_threads has cleared running before it notifies; wait_for_tasks has set
\* waiting before it tests or sleeps.
WatchInv ==
  /\ \A w \in Worker : wpc[w] = "block" => mutex /\ tasks = <<>>
  /\ \A v, w \in Worker : wpc[v] = "block" /\ wpc[w] = "block" => v = w
  /\ running => wpc[1] # "exited"
  /\ opc \in {"notify", "join", "gone"} => ~running
  /\ opc \in {"test", "asleep"} => waiting
  /\ QueueWatched

\* The constructor leaves an empty queue and workers at their loop.
LEMMA WatchInit == Init => WatchInv
<1> SUFFICES ASSUME Init PROVE WatchInv
  OBVIOUS
<1>1. thread_count \in Worker /\ thread_count >= 1 /\ 1 \in Worker
  BY ThreadCountType, LblPoolAssumption DEF Init, Worker
<1> QED
  BY <1>1 DEF Init, WatchInv, QueueWatched, Created

\* push_task and get: a notification finds a sleeper, or nobody sleeps.
LEMMA WatchCaller ==
  ASSUME TypeInv, WatchInv, NEW c \in Caller, CallerStep(c)
  PROVE  WatchInv'
<1> USE DEF TypeInv, TypeOK, poolVars, workerVars, ownerVars
<1>0. 1 \in Worker
  BY LblPoolAssumption DEF Worker
<1>1. CASE Push(c)
  BY <1>1 DEF Push, Enqueue, WatchInv, QueueWatched, Awake
<1>2. CASE Count(c)
  BY <1>2 DEF Count, WatchInv, QueueWatched, Awake
<1>3. CASE NotifyOne(c)
  <2>1. /\ UNCHANGED <<tasks, mutex, running, opc, waiting>>
        /\ \A w \in Worker : wpc'[w] = wpc[w] \/ (wpc[w] = "sleep" /\ wpc'[w] = "lock")
        /\ \/ \E w \in Worker : wpc'[w] = "lock"
           \/ \A w \in Worker : wpc[w] # "sleep" /\ wpc'[w] = wpc[w]
    BY <1>3 DEF NotifyOne, WakeOne, Asleep
  <2>2. ASSUME tasks # <<>>, running PROVE \E w \in Worker : Awake(w)'
    <3>1. CASE \E w \in Worker : wpc'[w] = "lock"
      BY <3>1 DEF Awake
    <3>2. CASE \A w \in Worker : wpc[w] # "sleep" /\ wpc'[w] = wpc[w]
      <4>1. wpc[1] \notin {"exited", "block", "sleep"}
        BY <1>0, <2>2, <3>2 DEF WatchInv
      <4> QED
        BY <1>0, <3>2, <4>1 DEF Awake
    <3> QED
      BY <2>1, <3>1, <3>2
  <2> QED
    BY <1>0, <2>1, <2>2 DEF WatchInv, QueueWatched
<1>4. CASE Join(c)
  BY <1>4 DEF Join, WatchInv, QueueWatched, Awake
<1> QED
  BY <1>1, <1>2, <1>3, <1>4 DEF CallerStep

\* The steps of worker: it sleeps only on the empty queue it has the mutex of.
LEMMA WatchWorker ==
  ASSUME TypeInv, WatchInv, NEW w \in Worker, WorkerStep(w) \/ WakeSpuriously(w)
  PROVE  WatchInv'
<1> USE DEF TypeInv, TypeOK, poolVars, callerVars, ownerVars
<1>0. 1 \in Worker
  BY LblPoolAssumption DEF Worker
<1>1. CASE WorkerTop(w)
  BY <1>0, <1>1 DEF WorkerTop, WatchInv, QueueWatched, Awake
<1>2. CASE WorkerWait(w)
  BY <1>0, <1>2 DEF WorkerWait, WatchInv, QueueWatched, Awake
<1>3. CASE WorkerSleep(w)
  <2>1. tasks = <<>> /\ mutex /\ \A v \in Worker : v # w => wpc'[v] = wpc[v]
    BY <1>3 DEF WorkerSleep, WatchInv
  <2>2. \A v \in Worker : v # w => wpc[v] # "block"
    BY <1>3 DEF WorkerSleep, WatchInv
  <2> QED
    BY <1>0, <1>3, <2>1, <2>2 DEF WorkerSleep, WatchInv, QueueWatched
<1>4. CASE WakeSpuriously(w)
  BY <1>0, <1>4 DEF WakeSpuriously, WatchInv, QueueWatched, Awake
<1>5. CASE WorkerSkip(w)
  BY <1>0, <1>5 DEF WorkerSkip, WatchInv, QueueWatched, Awake
<1>6. CASE WorkerTake(w)
  BY <1>0, <1>6 DEF WorkerTake, WatchInv, QueueWatched, Awake
<1>7. CASE RunTask(w)
  BY <1>0, <1>7 DEF RunTask, WatchInv, QueueWatched, Awake
<1>8. CASE WorkerFinish(w)
  BY <1>0, <1>8 DEF WorkerFinish, WakeOwner, WatchInv, QueueWatched, Awake
<1> QED
  BY <1>1, <1>2, <1>3, <1>4, <1>5, <1>6, <1>7, <1>8 DEF WorkerStep

\* wait_for_tasks, pause, unpause, reset and the destructor.
LEMMA WatchOwner ==
  ASSUME TypeInv, WatchInv, OwnerCalls \/ OwnerStep \/ OwnerWakesSpuriously
  PROVE  WatchInv'
<1> USE DEF TypeInv, TypeOK, poolVars, callerVars, workerVars, ownerVars
<1>0. 1 \in Worker
  BY LblPoolAssumption DEF Worker
<1>1. CASE OwnerCalls
  <2>1. /\ UNCHANGED <<tasks, mutex, running, wpc, cpc>>
        /\ opc' = "idle" \/ (opc' = "test" /\ waiting')
    BY <1>1 DEF OwnerCalls, Pause, Unpause, SetPaused, Wait, Delete, WaitForTasks, Reset, Begin
  <2> QED
    BY <2>1 DEF WatchInv, QueueWatched, Awake
<1>2. CASE WaitReturns \/ WaitSleeps \/ OwnerWakesSpuriously
  <2>1. /\ UNCHANGED <<tasks, mutex, running, wpc, cpc>>
        /\ opc' \in {"idle", "stop", "asleep", "test"}
    BY <1>2 DEF WaitReturns, WaitSleeps, OwnerWakesSpuriously
  <2>2. opc' \in {"test", "asleep"} => waiting'
    BY <1>2 DEF WaitReturns, WaitSleeps, OwnerWakesSpuriously, WatchInv
  <2> QED
    BY <2>1, <2>2 DEF WatchInv, QueueWatched, Awake
<1>3. CASE StopThreads
  BY <1>3 DEF StopThreads, WatchInv, QueueWatched
<1>4. CASE NotifyAll
  BY <1>0, <1>4 DEF NotifyAll, WakeAll, Asleep, WatchInv, QueueWatched
<1>5. CASE DeleteReturns
  BY <1>5 DEF DeleteReturns, Joined, WatchInv, QueueWatched
<1>6. ASSUME NEW n \in 0..MAX_THREADS, ResetReturns(n) PROVE WatchInv'
  <2>1. thread_count' \in Worker /\ wpc'[1] = "top" /\ \A w \in Worker : wpc'[w] # "block"
    BY <1>0, <1>6, ThreadCountType DEF ResetReturns, Created, Worker
  <2> QED
    BY <1>0, <1>6, <2>1 DEF ResetReturns, WatchInv, QueueWatched, Awake
<1> QED
  BY <1>1, <1>2, <1>3, <1>4, <1>5, <1>6 DEF OwnerStep

\* Every step of the pool keeps the invariant.
LEMMA WatchStep == TypeInv /\ WatchInv /\ [Next]_vars => WatchInv'
<1> SUFFICES ASSUME TypeInv, WatchInv, [Next]_vars PROVE WatchInv'
  OBVIOUS
<1>1. CASE UNCHANGED vars
  BY <1>1 DEF vars, poolVars, workerVars, callerVars, ownerVars, WatchInv, QueueWatched, Awake
<1> QED
  BY <1>1, WatchCaller, WatchWorker, WatchOwner DEF Next

\* push_task and worker lose no wake-up: for any number of callers and workers a queued task
\* of a running pool has a worker awake, or a notification on its way.
THEOREM QueueWatchedHolds == Spec => []QueueWatched
<1>1. WatchInv => QueueWatched
  BY DEF WatchInv
<1> QED
  BY <1>1, TypeInit, TypeStep, WatchInit, WatchStep, PTL DEF Spec

\* The step that makes wait_for_tasks' predicate true while the owner sleeps wakes it, unless
\* it is a caller's push or count: the one lost wake-up of wait_for_tasks.
OwnerWoken ==
  [][opc = "asleep" /\ ~AllDone /\ AllDone' =>
       \/ opc' = "test"
       \/ \E c \in Caller : cpc[c] \in {"submit", "count"} /\ cpc'[c] # cpc[c]]_vars

\* The same for any number of callers and workers, and a counter that wraps.
THEOREM OwnerWokenHolds == Spec => OwnerWoken
<1> DEFINE Woken == opc = "asleep" /\ ~AllDone /\ AllDone' =>
                      \/ opc' = "test"
                      \/ \E c \in Caller : cpc[c] \in {"submit", "count"} /\ cpc'[c] # cpc[c]
<1>1. TypeInv /\ WatchInv /\ [Next]_vars => [Woken]_vars
  <2> SUFFICES ASSUME TypeInv, WatchInv, Next, opc = "asleep", ~AllDone, AllDone', opc' # "test"
               PROVE  \E c \in Caller : cpc[c] \in {"submit", "count"} /\ cpc'[c] # cpc[c]
    OBVIOUS
  <2> USE DEF TypeInv, TypeOK, poolVars, callerVars, workerVars, ownerVars
  <2>1. ~(UNCHANGED <<tasks, tasks_total, paused>>)
    BY DEF AllDone
  <2>2. ASSUME NEW w \in Worker, WorkerStep(w) \/ WakeSpuriously(w) PROVE FALSE
    <3>1. CASE WorkerFinish(w)
      BY <3>1 DEF WorkerFinish, WakeOwner, WatchInv
    <3>2. CASE WorkerTake(w)
      BY <3>2 DEF WorkerTake, AllDone
    <3>3. ASSUME ~WorkerFinish(w), ~WorkerTake(w) PROVE UNCHANGED <<tasks, tasks_total, paused>>
      BY <2>2, <3>3 DEF WorkerStep, WorkerTop, WorkerWait, WorkerSleep, WorkerSkip, RunTask,
                        WakeSpuriously
    <3> QED
      BY <2>1, <3>1, <3>2, <3>3
  <2>3. ~OwnerCalls /\ ~OwnerStep /\ ~OwnerWakesSpuriously
    BY DEF OwnerCalls, Pause, Unpause, SetPaused, Wait, Delete, WaitForTasks, Reset, Begin,
           OwnerStep, WaitReturns, WaitSleeps, StopThreads, NotifyAll, DeleteReturns,
           ResetReturns, Joined, OwnerWakesSpuriously
  <2>4. ASSUME NEW c \in Caller, CallerStep(c)
        PROVE  cpc[c] \in {"submit", "count"} /\ cpc'[c] # cpc[c]
    <3>1. CASE Push(c)
      BY <3>1 DEF Push, Enqueue
    <3>2. CASE Count(c)
      BY <3>2 DEF Count
    <3>3. CASE NotifyOne(c) \/ Join(c)
      BY <2>1, <3>3 DEF NotifyOne, Join
    <3> QED
      BY <2>4, <3>1, <3>2, <3>3 DEF CallerStep
  <2> QED
    BY <2>2, <2>3, <2>4 DEF Next
<1> QED
  BY <1>1, TypeInit, TypeStep, WatchInit, WatchStep, PTL DEF Spec, OwnerWoken

NobodySleeps == \A w \in Worker : wpc[w] \notin {"block", "sleep"}

\* Once destroy_threads notifies and no worker is between its test of the queue and its sleep,
\* none sleeps until all are joined.
JoinersAwake ==
  [][\/ opc = "notify" /\ (\A w \in Worker : wpc[w] # "block") /\ opc' = "join"
     \/ opc = "join" /\ NobodySleeps
     => NobodySleeps']_vars

\* The same for any number of workers: nothing the callers or the workers do in between puts
\* one to sleep.
THEOREM JoinersAwakeHolds == Spec => JoinersAwake
<1> DEFINE Wakes == opc = "notify" /\ (\A w \in Worker : wpc[w] # "block") /\ opc' = "join"
           Stays == opc = "join" /\ NobodySleeps
<1>1. TypeInv /\ WatchInv /\ [Next]_vars => [Wakes \/ Stays => NobodySleeps']_vars
  <2> SUFFICES ASSUME TypeInv, WatchInv, Next, Wakes \/ Stays PROVE NobodySleeps'
    OBVIOUS
  <2> USE DEF TypeInv, TypeOK, poolVars, callerVars, workerVars, ownerVars
  <2>0. ~running
    BY DEF WatchInv
  <2>1. CASE Wakes
    <3>1. NotifyAll
      <4>1. ASSUME NEW c \in Caller, CallerStep(c) PROVE FALSE
        BY <2>1, <4>1 DEF CallerStep, Push, Enqueue, Count, NotifyOne, Join
      <4>2. ASSUME NEW w \in Worker, WorkerStep(w) \/ WakeSpuriously(w) PROVE FALSE
        <5>1. UNCHANGED opc
          BY <2>1, <4>2 DEF WorkerStep, WorkerTop, WorkerWait, WorkerSleep, WorkerSkip, WorkerTake,
             RunTask, WorkerFinish, WakeOwner, WakeSpuriously
        <5> QED
          BY <2>1, <5>1
      <4>3. ~OwnerCalls /\ ~OwnerWakesSpuriously
        BY <2>1 DEF OwnerCalls, Pause, Unpause, SetPaused, Wait, Delete, WaitForTasks, Reset,
           Begin, OwnerWakesSpuriously
      <4>4. OwnerStep => NotifyAll
        BY <2>1 DEF OwnerStep, WaitReturns, WaitSleeps, StopThreads, DeleteReturns, ResetReturns,
           Joined
      <4> QED
        BY <2>1, <4>1, <4>2, <4>3, <4>4 DEF Next
    <3> QED
      BY <2>1, <3>1 DEF NotifyAll, WakeAll, Asleep, NobodySleeps
  <2>2. CASE Stays
    <3>1. ASSUME NEW c \in Caller, CallerStep(c) PROVE NobodySleeps'
      BY <2>2, <3>1 DEF CallerStep, Push, Enqueue, Count, NotifyOne, WakeOne, Asleep, Join,
                        NobodySleeps
    <3>2. ASSUME NEW w \in Worker, WorkerStep(w) \/ WakeSpuriously(w) PROVE NobodySleeps'
      BY <2>0, <2>2, <3>2 DEF WorkerStep, WorkerTop, WorkerWait, WorkerSleep, WorkerSkip,
         WorkerTake, RunTask, WorkerFinish, WakeSpuriously, NobodySleeps
    <3>3. ~OwnerCalls /\ ~OwnerWakesSpuriously
      BY <2>2 DEF OwnerCalls, Pause, Unpause, SetPaused, Wait, Delete, WaitForTasks, Reset,
         Begin, OwnerWakesSpuriously
    <3>4. OwnerStep => NobodySleeps'
      BY <2>2 DEF OwnerStep, WaitReturns, WaitSleeps, StopThreads, NotifyAll, DeleteReturns,
         ResetReturns, Created, NobodySleeps
    <3>5. UNCHANGED vars => NobodySleeps'
      BY <2>2 DEF vars, NobodySleeps
    <3> QED
      BY <3>1, <3>2, <3>3, <3>4, <3>5 DEF Next
  <2> QED
    BY <2>1, <2>2
<1> QED
  BY <1>1, TypeInit, TypeStep, WatchInit, WatchStep, PTL DEF Spec, JoinersAwake
=============================================================================
