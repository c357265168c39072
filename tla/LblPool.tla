------------------------------- MODULE LblPool -------------------------------
(***************************************************************************)
(* BS::thread_pool, the pool that runs the tasks of an entry (proxy, CLI    *)
(* client, benchmarks) and of an access (server).                           *)
(*                                                                         *)
(* Callers submit the PARTS tasks of a call one by one and then get their   *)
(* futures; workers take tasks from the queue; the owner, the main thread,  *)
(* pauses, resets, waits for and deletes the pool, also while callers are   *)
(* at work (the SIGINT handlers of the proxy and of the benchmarks).        *)
(*                                                                         *)
(* A step is what one thread does between two points where the others can   *)
(* tell.  The mutex outlives a step only between a worker's test of the     *)
(* queue and its falling asleep on the condition variable.                  *)
(***************************************************************************)
EXTENDS Integers, Sequences, FiniteSets

CONSTANTS
  Caller,                 \* the threads that submit tasks
  PARTS,                  \* tasks of a call
  HW_THREADS,             \* what the pool is created with
  MAX_THREADS,            \* bound: workers
  HARDWARE_CONCURRENCY,   \* what std::thread::hardware_concurrency returns
  OWNER_OPS,              \* bound: operations of the owner
  SIZE_T                  \* number of values of size_t

Worker == 1..MAX_THREADS

Task == Caller \X (1..PARTS)

ASSUME LblPoolAssumption ==
  /\ IsFiniteSet(Caller)
  /\ PARTS \in Nat \ {0} /\ MAX_THREADS \in Nat \ {0}
  /\ HW_THREADS \in 0..MAX_THREADS /\ HARDWARE_CONCURRENCY \in 0..MAX_THREADS
  /\ OWNER_OPS \in Nat
  \* size_t counts every task there can be.
  /\ SIZE_T \in Nat /\ SIZE_T > Cardinality(Task) + MAX_THREADS

VARIABLES
  tasks,           \* the queue
  tasks_total,     \* unfinished tasks, as counted
  mutex,           \* TRUE: tasks_mutex is held by a worker about to sleep
  paused, running, waiting, thread_count,
  wpc, task,       \* each worker: program counter, the task it took
  cpc, sent,       \* each caller: program counter, tasks submitted
  opc, doing, was_paused, ops,   \* the owner and the operation it is in
  done             \* tasks whose promise is set

poolVars == <<tasks, tasks_total, mutex, paused, running, waiting, thread_count>>
workerVars == <<wpc, task>>
callerVars == <<cpc, sent>>
ownerVars == <<opc, doing, was_paused, ops>>
vars == <<poolVars, workerVars, callerVars, ownerVars, done>>

\* A thread that holds no task.
NoTask == <<>>

Asleep == {w \in Worker : wpc[w] = "sleep"}

(***************************************************************************)
(* Threads come and go                                                     *)
(***************************************************************************)
DetermineThreadCount(n) ==
  IF n > 0 THEN n ELSE IF HARDWARE_CONCURRENCY > 0 THEN HARDWARE_CONCURRENCY ELSE 1

\* Where the workers of a pool of n threads begin.
Created(n) == [w \in Worker |-> IF w <= n THEN "top" ELSE "exited"]

\* The constructor.
Init ==
  /\ tasks = <<>> /\ tasks_total = 0 /\ mutex = FALSE
  /\ paused = FALSE /\ running = TRUE /\ waiting = FALSE
  /\ thread_count = DetermineThreadCount(HW_THREADS)
  /\ wpc = Created(thread_count) /\ task = [w \in Worker |-> NoTask]
  /\ cpc = [c \in Caller |-> "submit"] /\ sent = [c \in Caller |-> 0]
  /\ opc = "idle" /\ doing = "none" /\ was_paused = FALSE /\ ops = 0
  /\ done = {}

(***************************************************************************)
(* Callers: submit, push_task and the futures                              *)
(***************************************************************************)
\* tasks.push.
Enqueue(c) ==
  /\ cpc[c] = "submit" /\ opc # "gone"
  /\ tasks' = Append(tasks, <<c, sent[c] + 1>>)
  /\ sent' = [sent EXCEPT ![c] = @ + 1]
  /\ cpc' = [cpc EXCEPT ![c] = "count"]
  /\ UNCHANGED <<tasks_total, mutex, paused, running, waiting, thread_count, workerVars,
                 ownerVars, done>>

\* push_task up to the end of its critical section.
Push(c) == ~mutex /\ Enqueue(c)

\* ++tasks_total, after the mutex is given back.
Count(c) ==
  /\ cpc[c] = "count" /\ opc # "gone"
  /\ tasks_total' = (tasks_total + 1) % SIZE_T
  /\ cpc' = [cpc EXCEPT ![c] = "notify"]
  /\ UNCHANGED <<tasks, mutex, paused, running, waiting, thread_count, workerVars, sent,
                 ownerVars, done>>

\* notify_one: some worker that sleeps, if any, is to lock the mutex and test again.
WakeOne ==
  IF Asleep = {} THEN UNCHANGED wpc
  ELSE \E w \in Asleep : wpc' = [wpc EXCEPT ![w] = "lock"]

\* task_available_cv.notify_one().
NotifyOne(c) ==
  /\ cpc[c] = "notify" /\ opc # "gone"
  /\ WakeOne
  /\ cpc' = [cpc EXCEPT ![c] = IF sent[c] < PARTS THEN "submit" ELSE "join"]
  /\ UNCHANGED <<poolVars, task, sent, ownerVars, done>>

\* get() on the futures, in the order of the parts.
Join(c) ==
  /\ cpc[c] = "join" /\ opc # "gone"
  /\ \A i \in 1..PARTS : <<c, i>> \in done
  /\ cpc' = [cpc EXCEPT ![c] = "returned"]
  /\ UNCHANGED <<poolVars, workerVars, sent, ownerVars, done>>

(***************************************************************************)
(* Workers                                                                 *)
(***************************************************************************)
\* while (running)
WorkerTop(w) ==
  /\ wpc[w] = "top"
  /\ wpc' = [wpc EXCEPT ![w] = IF running THEN "lock" ELSE "exited"]
  /\ UNCHANGED <<poolVars, task, callerVars, ownerVars, done>>

\* The predicate is false: the worker keeps the mutex until it sleeps ...
WorkerWait(w) ==
  /\ wpc[w] = "lock" /\ ~mutex
  /\ tasks = <<>> /\ running
  /\ mutex' = TRUE
  /\ wpc' = [wpc EXCEPT ![w] = "block"]
  /\ UNCHANGED <<tasks, tasks_total, paused, running, waiting, thread_count, task,
                 callerVars, ownerVars, done>>

\* ... which gives it back.
WorkerSleep(w) ==
  /\ wpc[w] = "block"
  /\ mutex' = FALSE
  /\ wpc' = [wpc EXCEPT ![w] = "sleep"]
  /\ UNCHANGED <<tasks, tasks_total, paused, running, waiting, thread_count, task,
                 callerVars, ownerVars, done>>

\* A condition variable may wake its waiters for no reason.
WakeSpuriously(w) ==
  /\ wpc[w] = "sleep"
  /\ wpc' = [wpc EXCEPT ![w] = "lock"]
  /\ UNCHANGED <<poolVars, task, callerVars, ownerVars, done>>

\* There is no task for it, or none to be run now.
WorkerSkip(w) ==
  /\ wpc[w] = "lock" /\ ~mutex
  /\ ~running \/ (paused /\ tasks # <<>>)
  /\ wpc' = [wpc EXCEPT ![w] = "top"]
  /\ UNCHANGED <<poolVars, task, callerVars, ownerVars, done>>

\* Mutant: the task stays in the queue.
NotPopped == tasks

Popped == Tail(tasks)

\* front, pop, unlock.
WorkerTake(w) ==
  /\ wpc[w] = "lock" /\ ~mutex
  /\ tasks # <<>> /\ running /\ ~paused
  /\ task' = [task EXCEPT ![w] = Head(tasks)]
  /\ tasks' = Popped
  /\ wpc' = [wpc EXCEPT ![w] = "run"]
  /\ UNCHANGED <<tasks_total, mutex, paused, running, waiting, thread_count, callerVars,
                 ownerVars, done>>

\* task(): it returns or throws, and submit's wrapper sets the promise either way.
RunTask(w) ==
  /\ wpc[w] = "run"
  /\ done' = done \union {task[w]}
  /\ wpc' = [wpc EXCEPT ![w] = "finish"]
  /\ UNCHANGED <<poolVars, task, callerVars, ownerVars>>

\* Mutants: nobody is told that a task is done; it is not counted off.
WakeNobody == UNCHANGED opc

NotCountedOff == tasks_total

\* The owner, if it sleeps on task_done_cv, is woken.
WakeOwner == opc' = IF waiting /\ opc = "asleep" THEN "test" ELSE opc

CountedOff == (tasks_total - 1) % SIZE_T

\* --tasks_total under the mutex, and the notification of wait_for_tasks.
WorkerFinish(w) ==
  /\ wpc[w] = "finish" /\ ~mutex
  /\ tasks_total' = CountedOff
  /\ task' = [task EXCEPT ![w] = NoTask]
  /\ wpc' = [wpc EXCEPT ![w] = "top"]
  /\ WakeOwner
  /\ UNCHANGED <<tasks, mutex, paused, running, waiting, thread_count, callerVars, doing,
                 was_paused, ops, done>>

(***************************************************************************)
(* The owner                                                               *)
(***************************************************************************)
Begin(op) ==
  /\ opc = "idle" /\ ops < OWNER_OPS
  /\ ops' = ops + 1
  /\ doing' = op

SetPaused(b) ==
  /\ Begin("none")
  /\ paused' = b
  /\ UNCHANGED <<tasks, tasks_total, mutex, running, waiting, thread_count, workerVars,
                 callerVars, opc, was_paused, done>>

Pause == SetPaused(TRUE)

Unpause == SetPaused(FALSE)

\* wait_for_tasks up to its mutex, called by the program or by the destructor.
WaitForTasks(op) ==
  /\ Begin(op)
  /\ waiting' = TRUE
  /\ opc' = "test"
  /\ UNCHANGED <<tasks, tasks_total, mutex, paused, running, thread_count, workerVars,
                 callerVars, was_paused, done>>

Wait == WaitForTasks("wait")

Delete == WaitForTasks("delete")

\* reset up to the mutex of its wait_for_tasks.
Reset ==
  /\ Begin("reset")
  /\ was_paused' = paused /\ paused' = TRUE
  /\ waiting' = TRUE
  /\ opc' = "test"
  /\ UNCHANGED <<tasks, tasks_total, mutex, running, thread_count, workerVars, callerVars,
                 done>>

\* Mutant: the tasks that still run are not waited for.
QueueEmpty == paused \/ tasks = <<>>

\* The predicate of wait_for_tasks.
AllDone == tasks_total = IF paused THEN Len(tasks) ELSE 0

\* It is true: wait_for_tasks returns.
WaitReturns ==
  /\ opc = "test" /\ ~mutex /\ AllDone
  /\ waiting' = FALSE
  /\ opc' = IF doing = "wait" THEN "idle" ELSE "stop"
  /\ doing' = IF doing = "wait" THEN "none" ELSE doing
  /\ UNCHANGED <<tasks, tasks_total, mutex, paused, running, thread_count, workerVars,
                 callerVars, was_paused, ops, done>>

WaitSleeps ==
  /\ opc = "test" /\ ~mutex /\ ~AllDone
  /\ opc' = "asleep"
  /\ UNCHANGED <<poolVars, workerVars, callerVars, doing, was_paused, ops, done>>

OwnerWakesSpuriously ==
  /\ opc = "asleep"
  /\ opc' = "test"
  /\ UNCHANGED <<poolVars, workerVars, callerVars, doing, was_paused, ops, done>>

\* destroy_threads: running = false, without the mutex, ...
StopThreads ==
  /\ opc = "stop"
  /\ running' = FALSE
  /\ opc' = "notify"
  /\ UNCHANGED <<tasks, tasks_total, mutex, paused, waiting, thread_count, workerVars,
                 callerVars, doing, was_paused, ops, done>>

WakeAll == wpc' = [w \in Worker |-> IF w \in Asleep THEN "lock" ELSE wpc[w]]

\* ... notify_all, ...
NotifyAll ==
  /\ opc = "notify"
  /\ WakeAll
  /\ opc' = "join"
  /\ UNCHANGED <<poolVars, task, callerVars, doing, was_paused, ops, done>>

Joined == opc = "join" /\ \A w \in Worker : wpc[w] = "exited"

\* ... and the joins.  A deleted pool goes with its process.
DeleteReturns ==
  /\ Joined /\ doing = "delete"
  /\ opc' = "gone"
  /\ UNCHANGED <<poolVars, workerVars, callerVars, doing, was_paused, ops, done>>

\* A reset pool gets new threads; only here does reset use its argument.
ResetReturns(n) ==
  /\ Joined /\ doing = "reset"
  /\ thread_count' = DetermineThreadCount(n)
  /\ paused' = was_paused /\ running' = TRUE
  /\ wpc' = Created(thread_count')
  /\ opc' = "idle" /\ doing' = "none" /\ was_paused' = FALSE
  /\ UNCHANGED <<tasks, tasks_total, mutex, waiting, task, callerVars, ops, done>>

(***************************************************************************)
(* The specification                                                       *)
(***************************************************************************)
CallerStep(c) == Push(c) \/ Count(c) \/ NotifyOne(c) \/ Join(c)

WorkerStep(w) ==
  \/ WorkerTop(w) \/ WorkerWait(w) \/ WorkerSleep(w) \/ WorkerSkip(w)
  \/ WorkerTake(w) \/ RunTask(w) \/ WorkerFinish(w)

OwnerCalls ==
  Pause \/ Unpause \/ Wait \/ Reset \/ Delete

OwnerStep ==
  \/ WaitReturns \/ WaitSleeps \/ StopThreads \/ NotifyAll \/ DeleteReturns
  \/ \E n \in 0..MAX_THREADS : ResetReturns(n)

Next ==
  \/ \E c \in Caller : CallerStep(c)
  \/ \E w \in Worker : WorkerStep(w) \/ WakeSpuriously(w)
  \/ OwnerCalls \/ OwnerStep \/ OwnerWakesSpuriously
  \/ opc = "gone" /\ UNCHANGED vars

\* Threads are scheduled, tasks end, and a thread that waits for a mutex that is free
\* again and again gets it.  The owner need not call anything; no wake-up is owed
\* that nobody signalled.
Fairness ==
  /\ \A c \in Caller : WF_vars(CallerStep(c))
  /\ \A w \in Worker : SF_vars(WorkerStep(w))
  /\ SF_vars(OwnerStep)

Spec == Init /\ [][Next]_vars /\ Fairness

(***************************************************************************)
(* Properties                                                              *)
(***************************************************************************)
Queued == {tasks[i] : i \in DOMAIN tasks}

Busy == {w \in Worker : wpc[w] \in {"run", "finish"}}

\* Pushed, but not yet in tasks_total.
Uncounted == {c \in Caller : cpc[c] = "count"}

\* Every variable of the pool, its workers, its callers and its owner keeps its type.
TypeOK ==
  /\ tasks \in Seq(Task) /\ tasks_total \in 0..(SIZE_T - 1)
  /\ mutex \in BOOLEAN /\ paused \in BOOLEAN /\ running \in BOOLEAN /\ waiting \in BOOLEAN
  /\ thread_count \in Worker
  /\ wpc \in [Worker -> {"top", "lock", "block", "sleep", "run", "finish", "exited"}]
  /\ task \in [Worker -> Task \union {NoTask}]
  /\ cpc \in [Caller -> {"submit", "count", "notify", "join", "returned"}]
  /\ sent \in [Caller -> 0..PARTS]
  /\ opc \in {"idle", "test", "asleep", "stop", "notify", "join", "gone"}
  /\ doing \in {"none", "wait", "reset", "delete"}
  /\ was_paused \in BOOLEAN /\ ops \in 0..OWNER_OPS
  /\ done \subseteq Task

\* A task that was submitted is in the queue, in the hands of one worker or done, and
\* never in two of these places: none is lost and none is run twice, through pauses
\* and resets too.
OnceEach ==
  /\ \A i, j \in DOMAIN tasks : tasks[i] = tasks[j] => i = j
  /\ \A v, w \in Worker : wpc[v] = "run" /\ wpc[w] = "run" /\ task[v] = task[w] => v = w
  /\ \A w \in Worker : wpc[w] = "run" => task[w] \notin Queued \union done
  /\ Queued \cap done = {}
  /\ \A c \in Caller : \A i \in 1..sent[c] :
       <<c, i>> \in Queued \union done \union {task[w] : w \in Busy}

\* tasks_total counts the tasks that are queued or run, but for those whose push_task
\* has given back the mutex and not counted them yet: it can be below zero, that is,
\* wrap around.
TotalAccounted ==
  tasks_total = (Len(tasks) + Cardinality(Busy) - Cardinality(Uncounted)) % SIZE_T

\* When wait_for_tasks returns (to its caller, the destructor or reset), as many tasks are
\* running, or queued in a pool that is not paused, as there are push_tasks between their
\* push and their count: none at all if nobody submits meanwhile.
WaitMeansDone ==
  [][opc = "test" /\ opc' \in {"idle", "stop"} =>
       Cardinality(Busy) + (IF paused THEN 0 ELSE Len(tasks)) = Cardinality(Uncounted)]_vars

\* Every caller that gets its futures goes on in the end: no task is left in the queue
\* because a worker slept through its notification; unless the pool stays paused or
\* its threads stay stopped.
CallsEnd ==
  (\E c \in Caller : cpc[c] = "join")
    ~> ((\A c \in Caller : cpc[c] # "join") \/ [](paused \/ ~running))

\* wait_for_tasks returns if all is submitted and counted when it begins.
WaitEnds ==
  (opc = "test" /\ \A c \in Caller : cpc[c] \in {"join", "returned"})
    ~> opc \notin {"test", "asleep"}

\* destroy_threads returns, also with tasks submitted meanwhile, if no worker was between
\* its test of the queue and its sleep when the others were notified.  If one was, either
\* destroy_threads returns all the same or that is all it waits for: a worker that sleeps.
JoinEnds ==
  /\ (opc = "notify" /\ \A w \in Worker : wpc[w] # "block") ~> opc \notin {"notify", "join"}
  /\ opc = "notify" ~> (opc \notin {"notify", "join"} \/ [](opc = "join" /\ Asleep # {}))
=============================================================================
