------------------------------ MODULE TeeClient ------------------------------
(***************************************************************************)
(* ORTOA-TEE's benchmarking client: DataHandler threads fill the shared    *)
(* queue from the operations file, then warm-up threads and runner threads *)
(* drain it together, each over a connection that occupies a worker of the *)
(* host's thread pool while it is open.  An operation is its line number;  *)
(* what the host does with it is in TeeHost.                               *)
(***************************************************************************)
EXTENDS Integers, Sequences, FiniteSets

CONSTANTS
  Warmer, Runner, Feeder,   \* num_clients threads of each class
  LINES,                    \* operations the source has
  WARMUP,                   \* num_warmup_operations
  WORKERS                   \* threads of the host's TThreadPoolServer

ASSUME TeeClientAssumption ==
  /\ LINES \in Nat /\ WARMUP \in Nat /\ WORKERS \in Nat \ {0}
  /\ IsFiniteSet(Warmer) /\ IsFiniteSet(Runner)
  /\ Warmer \cap Runner = {}

Thread == Warmer \union Runner

VARIABLES
  use_seed,    \* TRUE: a file whose last line ends in a newline
               \* FALSE: random operations, counted down
  phase,       \* of the main thread
  unread,      \* lines not read yet, or num_operations
  eof,         \* seed_data.eof()
  queue,       \* the shared queue
  feeding,     \* DataHandler threads that have not returned
  pc, op,      \* each thread: where it is and the operation it holds
  pending,     \* connections that wait for a worker of the host
  served,      \* connections that have one
  warmups,     \* WarmUpRunner::warmupOperations
  latencies,   \* latencies.size()
  size,        \* size[t]: the size t read in the push_back it is in
  performed,   \* history: the operations performed, one entry each time
  measured,    \* history: operations performed by runners and pushed
  raced        \* history: two push_backs overlapped

vars == <<use_seed, phase, unread, eof, queue, feeding, pc, op, pending, served, warmups,
          latencies, size, performed, measured, raced>>

Phantom == 0

Init ==
  /\ use_seed \in BOOLEAN
  /\ phase = "feed"
  /\ unread = LINES
  /\ eof = FALSE
  /\ queue = <<>>
  /\ feeding = Feeder
  /\ pc = [t \in Thread |-> "unborn"]
  /\ op = [t \in Thread |-> Phantom]
  /\ pending = <<>>
  /\ served = {}
  /\ warmups = 0
  /\ latencies = 0
  /\ size = [t \in Thread |-> 0]
  /\ performed = <<>>
  /\ measured = 0
  /\ raced = FALSE

(***************************************************************************)
(* The operations source and the shared queue                              *)
(***************************************************************************)
MoreOperationsExist == IF use_seed THEN ~eof ELSE unread > 0

\* getline returns the next line and does not look past its newline; after the
\* last line it returns an empty one, which parses as a PUT of the empty key.
NextOperation == IF unread > 0 THEN LINES - unread + 1 ELSE Phantom

\* SharedQueue::enqueue, as one DataHandler calls it: under the mutex.
Enqueue(f) ==
  /\ phase = "feed" /\ f \in feeding
  /\ MoreOperationsExist
  /\ queue' = Append(queue, NextOperation)
  /\ unread' = IF unread > 0 THEN unread - 1 ELSE 0
  /\ eof' = (use_seed /\ unread = 0)
  /\ UNCHANGED <<use_seed, phase, feeding, pc, op, pending, served, warmups, latencies, size,
                 performed, measured, raced>>

\* enqueue returned 1 and the DataHandler returns.
FeederReturns(f) ==
  /\ phase = "feed" /\ f \in feeding
  /\ ~MoreOperationsExist
  /\ feeding' = feeding \ {f}
  /\ UNCHANGED <<use_seed, phase, unread, eof, queue, pc, op, pending, served, warmups,
                 latencies, size, performed, measured, raced>>

(***************************************************************************)
(* The main thread: runThreaded and writeOutput                            *)
(***************************************************************************)
\* The DataHandlers are joined, all other threads started.
Spawn ==
  /\ phase = "feed" /\ feeding = {}
  /\ phase' = "run"
  /\ warmups' = WARMUP
  /\ pc' = [t \in Thread |-> "open"]
  /\ UNCHANGED <<use_seed, unread, eof, queue, feeding, op, pending, served, latencies, size,
                 performed, measured, raced>>

\* The runners are joined, then the warm-up threads.
Join ==
  /\ phase = "run"
  /\ \A t \in Thread : pc[t] = "returned"
  /\ phase' = "report"
  /\ UNCHANGED <<use_seed, unread, eof, queue, feeding, pc, op, pending, served, warmups,
                 latencies, size, performed, measured, raced>>

\* writeOutput: getAveLatency asserts that there is a latency, getTotalDuration that the
\* run took a millisecond.
Report ==
  /\ phase = "report"
  /\ phase' \in IF latencies > 0 THEN {"done", "untimed"} ELSE {"asserted"}
  /\ UNCHANGED <<use_seed, unread, eof, queue, feeding, pc, op, pending, served, warmups,
                 latencies, size, performed, measured, raced>>

(***************************************************************************)
(* WarmUpRunner and ClientRunner                                           *)
(***************************************************************************)
Loop(t) == IF t \in Warmer THEN "test" ELSE "dequeue"

\* transport->open(): the host accepts the connection and queues it for a worker.
Open(t) ==
  /\ pc[t] = "open"
  /\ pending' = Append(pending, t)
  /\ pc' = [pc EXCEPT ![t] = Loop(t)]
  /\ UNCHANGED <<use_seed, phase, unread, eof, queue, feeding, op, served, warmups, latencies,
                 size, performed, measured, raced>>

\* transport->open() throws, the host does not listen: nothing in the thread catches it.
OpenThrows(t) ==
  /\ phase = "run" /\ pc[t] = "open"
  /\ phase' = "terminated"
  /\ UNCHANGED <<use_seed, unread, eof, queue, feeding, pc, op, pending, served, warmups,
                 latencies, size, performed, measured, raced>>

\* The host's pool takes the oldest connection when a worker is free.
Assign ==
  /\ pending # <<>>
  /\ Cardinality(served) < WORKERS
  /\ served' = served \union {Head(pending)}
  /\ pending' = Tail(pending)
  /\ UNCHANGED <<use_seed, phase, unread, eof, queue, feeding, pc, op, warmups, latencies, size,
                 performed, measured, raced>>

\* Mutant: the connection stays open.
ReturnOpen(t) ==
  /\ pc' = [pc EXCEPT ![t] = "returned"]
  /\ UNCHANGED <<pending, served>>

\* The thread returns; its connection is closed with the transport.
Return(t) ==
  /\ pc' = [pc EXCEPT ![t] = "returned"]
  /\ pending' = SelectSeq(pending, LAMBDA u : u # t)
  /\ served' = served \ {t}

\* Mutant: the counter is tested but not decremented.
WarmUpTestKeeps(t) ==
  /\ pc[t] = "test"
  /\ UNCHANGED warmups
  /\ \/ /\ warmups # 0
        /\ pc' = [pc EXCEPT ![t] = "dequeue"]
        /\ UNCHANGED <<pending, served>>
     \/ warmups = 0 /\ Return(t)
  /\ UNCHANGED <<use_seed, phase, unread, eof, queue, feeding, op, latencies, size, performed,
                 measured, raced>>

\* while (warmupOperations--): zero ends the loop of the thread that meets it, and
\* every other thread counts on below zero.
WarmUpTest(t) ==
  /\ pc[t] = "test"
  /\ warmups' = warmups - 1
  /\ \/ /\ warmups # 0
        /\ pc' = [pc EXCEPT ![t] = "dequeue"]
        /\ UNCHANGED <<pending, served>>
     \/ warmups = 0 /\ Return(t)
  /\ UNCHANGED <<use_seed, phase, unread, eof, queue, feeding, op, latencies, size, performed,
                 measured, raced>>

\* Mutant: the operation stays at the front of the queue.
DequeueCopies(t) ==
  /\ pc[t] = "dequeue" /\ queue # <<>>
  /\ op' = [op EXCEPT ![t] = Head(queue)]
  /\ pc' = [pc EXCEPT ![t] = "access"]
  /\ UNCHANGED <<use_seed, queue, phase, unread, eof, feeding, pending, served, warmups, latencies, size,
                 performed, measured, raced>>

Dequeue(t) ==
  /\ pc[t] = "dequeue" /\ queue # <<>>
  /\ op' = [op EXCEPT ![t] = Head(queue)]
  /\ queue' = Tail(queue)
  /\ pc' = [pc EXCEPT ![t] = "access"]
  /\ UNCHANGED <<use_seed, phase, unread, eof, feeding, pending, served, warmups, latencies, size,
                 performed, measured, raced>>

\* The queue is empty: EOD.
EndOfData(t) ==
  /\ pc[t] = "dequeue" /\ queue = <<>>
  /\ Return(t)
  /\ UNCHANGED <<use_seed, phase, unread, eof, queue, feeding, op, warmups, latencies, size,
                 performed, measured, raced>>

\* client.access returns; a thread whose connection has no worker waits.
Access(t) ==
  /\ pc[t] = "access" /\ t \in served
  /\ performed' = Append(performed, op[t])
  /\ pc' = [pc EXCEPT ![t] = IF t \in Warmer THEN "test" ELSE "push"]
  /\ UNCHANGED <<use_seed, phase, unread, eof, queue, feeding, op, pending, served, warmups,
                 latencies, size, measured, raced>>

\* client.access throws: nothing in the thread catches it, std::terminate.
AccessThrows(t) ==
  /\ phase = "run" /\ pc[t] = "access" /\ t \in served
  /\ phase' = "terminated"
  /\ UNCHANGED <<use_seed, unread, eof, queue, feeding, pc, op, pending, served, warmups,
                 latencies, size, performed, measured, raced>>

\* latencies.push_back, not synchronized: the element is constructed ...
PushBegin(t) ==
  /\ pc[t] = "push"
  /\ size' = [size EXCEPT ![t] = latencies]
  /\ pc' = [pc EXCEPT ![t] = "pushing"]
  /\ raced' = (raced \/ \E u \in Runner : pc[u] = "pushing")
  /\ UNCHANGED <<use_seed, phase, unread, eof, queue, feeding, op, pending, served, warmups,
                 latencies, performed, measured>>

\* Mutant: the end of the vector moves by two.
PushEndTwice(t) ==
  /\ pc[t] = "pushing"
  /\ latencies' = size[t] + 2
  /\ measured' = measured + 1
  /\ pc' = [pc EXCEPT ![t] = "dequeue"]
  /\ UNCHANGED <<use_seed, phase, unread, eof, queue, feeding, op, pending, served, warmups,
                 size, performed, raced>>

\* ... and the end of the vector moved past it.
PushEnd(t) ==
  /\ pc[t] = "pushing"
  /\ latencies' = size[t] + 1
  /\ measured' = measured + 1
  /\ pc' = [pc EXCEPT ![t] = "dequeue"]
  /\ UNCHANGED <<use_seed, phase, unread, eof, queue, feeding, op, pending, served, warmups,
                 size, performed, raced>>

\* Two push_backs that both reallocate the vector may end the process.
PushCrash ==
  /\ phase = "run"
  /\ \E t, u \in Runner : t # u /\ pc[t] = "pushing" /\ pc[u] = "pushing"
  /\ phase' = "terminated"
  /\ UNCHANGED <<use_seed, unread, eof, queue, feeding, pc, op, pending, served, warmups,
                 latencies, size, performed, measured, raced>>

ThreadStep(t) ==
  /\ phase = "run"
  /\ \/ Open(t) \/ WarmUpTest(t) \/ Dequeue(t) \/ EndOfData(t)
     \/ Access(t) \/ PushBegin(t) \/ PushEnd(t)

FeederStep(f) == Enqueue(f) \/ FeederReturns(f)

MainStep == Spawn \/ Join \/ Report

HostStep == phase = "run" /\ Assign

Over == phase \in {"done", "untimed", "asserted", "terminated"} /\ UNCHANGED vars

Next ==
  \/ MainStep \/ HostStep \/ PushCrash \/ Over
  \/ \E f \in Feeder : FeederStep(f)
  \/ \E t \in Thread : ThreadStep(t) \/ OpenThrows(t) \/ AccessThrows(t)

\* The client's threads are scheduled and the host answers.
Spec ==
  /\ Init /\ [][Next]_vars
  /\ WF_vars(MainStep) /\ WF_vars(HostStep)
  /\ \A f \in Feeder : WF_vars(FeederStep(f))
  /\ \A t \in Thread : WF_vars(ThreadStep(t))

(***************************************************************************)
(* Properties                                                              *)
(***************************************************************************)
\* Every operation of the source is performed exactly once by the time the client
\* reports, although warm-up and runner threads drain the queue together; and nothing
\* else is, but for the empty line at the end of a file, which is performed once too.
ExactlyOnce ==
  /\ \A i, j \in DOMAIN performed : performed[i] = performed[j] => i = j
  /\ phase \in {"report", "done", "untimed", "asserted"} =>
       { performed[i] : i \in DOMAIN performed } =
         1..LINES \union (IF use_seed THEN {Phantom} ELSE {})

\* The latencies reported are those of the operations the runners performed: never
\* more, and fewer only if two unsynchronized push_backs overlapped.
LatenciesExact ==
  /\ latencies <= measured
  /\ ~raced => latencies = measured

\* The client ends: no thread waits for a worker that is never free.
ClientEnds == <>(phase \in {"done", "untimed", "asserted", "terminated"})

\* Warm-up takes more operations than it was asked to, and the assertion of
\* getAveLatency fails, only if a second thread decremented the counter past zero.
WarmupBounded ==
  phase \in {"report", "done", "untimed", "asserted"} =>
    \/ warmups < -1
    \/ /\ Len(performed) - measured <= WARMUP
       /\ LINES > WARMUP => phase # "asserted"
=============================================================================
