--------------------------- MODULE TeeClientProofs ---------------------------
(***************************************************************************)
(* The benchmarking client for any number of operations, warm-up           *)
(* operations, threads and workers: what it performs, what it measures and *)
(* how far the warm-up may overrun.                                        *)
(***************************************************************************)
EXTENDS TeeClient, FiniteSetTheorems, SequenceTheorems, TLAPS

(***************************************************************************)
(* The invariant, in parts                                                 *)
(***************************************************************************)
Operation == 0..LINES

Location == {"unborn", "open", "test", "dequeue", "access", "push", "pushing", "returned"}

TypeInv ==
  /\ use_seed \in BOOLEAN /\ eof \in BOOLEAN /\ raced \in BOOLEAN
  /\ phase \in {"feed", "run", "report", "done", "untimed", "asserted", "terminated"}
  /\ unread \in Operation
  /\ queue \in Seq(Operation)
  /\ feeding \subseteq Feeder
  /\ pc \in [Thread -> Location]
  /\ op \in [Thread -> Operation]
  /\ warmups \in Int
  /\ latencies \in Nat /\ measured \in Nat
  /\ size \in [Thread -> Nat]
  /\ performed \in Seq(Operation)

\* Only runners measure, only warm-up threads test the counter.
ClassInv ==
  \A t \in Thread : /\ pc[t] \in {"push", "pushing"} => t \in Runner
                    /\ pc[t] = "test" => t \in Warmer

\* The source is exhausted when the first DataHandler has returned; nothing else runs
\* before the last has.
FeedInv ==
  /\ eof => unread = 0 /\ use_seed
  /\ feeding # Feeder => ~MoreOperationsExist
  /\ phase # "feed" => feeding = {}
  /\ phase = "feed" => /\ pc = [t \in Thread |-> "unborn"]
                       /\ performed = <<>> /\ measured = 0 /\ latencies = 0

\* A runner returns on an empty queue, and the main thread reports when all returned.
JoinInv ==
  /\ \A t \in Runner : pc[t] = "returned" => queue = <<>>
  /\ phase \in {"report", "done", "untimed", "asserted"} => \A t \in Thread : pc[t] = "returned"
  /\ phase = "asserted" => latencies = 0

\* The operations read from the source so far.
Taken == { k \in Operation : (k = Phantom /\ eof) \/ (k # Phantom /\ k <= LINES - unread) }

Queued(k) == \E i \in 1..Len(queue) : queue[i] = k

Held(k) == \E t \in Thread : pc[t] = "access" /\ op[t] = k

Performed(k) == \E i \in 1..Len(performed) : performed[i] = k

\* An operation read is in one place: the queue, a thread that accesses, or the past.
PlaceInv ==
  /\ \A i, j \in 1..Len(queue) : queue[i] = queue[j] => i = j
  /\ \A t, u \in Thread : pc[t] = "access" /\ pc[u] = "access" /\ op[t] = op[u] => t = u
  /\ \A i, j \in 1..Len(performed) : performed[i] = performed[j] => i = j
  /\ \A k \in Operation : /\ ~(Queued(k) /\ Held(k))
                          /\ ~(Queued(k) /\ Performed(k))
                          /\ ~(Held(k) /\ Performed(k))
                          /\ Queued(k) \/ Held(k) \/ Performed(k) <=> k \in Taken

\* A push_back under way has read a size that is not ahead of the operations measured;
\* unless two overlapped it is alone and its size is current.
PushInv ==
  /\ latencies <= measured
  /\ measured > 0 => latencies > 0
  /\ \A t \in Thread : pc[t] = "pushing" => size[t] <= measured
  /\ ~raced => /\ latencies = measured
               /\ \A t \in Thread : pc[t] = "pushing" => size[t] = latencies
               /\ \A t, u \in Thread : pc[t] = "pushing" /\ pc[u] = "pushing" => t = u

\* Runners that have performed an operation they have not measured yet, and warm-up
\* threads that have counted an operation they have not performed yet.
Unmeasured == { t \in Runner : pc[t] \in {"push", "pushing"} }

Counted == { t \in Warmer : pc[t] \in {"dequeue", "access"} }

\* As long as only one thread met the zero, every operation that is not a runner's was
\* counted down from WARMUP.
WarmupInv ==
  phase # "feed" /\ warmups >= -1 =>
    Len(performed) + Cardinality(Counted) + (IF warmups > 0 THEN warmups ELSE 0)
      <= WARMUP + measured + Cardinality(Unmeasured)

(***************************************************************************)
(* Types, phases and who is where                                          *)
(***************************************************************************)
Steps == Init /\ [][Next]_vars

LEMMA SpecSteps == Spec => Steps
BY PTL DEF Spec, Steps

LEMMA InitTypeInv == Init => TypeInv
<1> SUFFICES ASSUME Init
             PROVE  TypeInv
  OBVIOUS
<1>1. LINES \in Nat /\ Phantom \in Operation /\ LINES \in Operation
  BY TeeClientAssumption DEF Phantom, Operation
<1>2. <<>> \in Seq(Operation)
  OBVIOUS
<1>3. use_seed \in BOOLEAN /\ eof \in BOOLEAN /\ raced \in BOOLEAN
  BY DEF Init
<1>4. pc \in [Thread -> Location] /\ op \in [Thread -> Operation] /\ size \in [Thread -> Nat]
  BY <1>1 DEF Init, Location
<1> QED
  BY <1>1, <1>2, <1>3, <1>4 DEF Init, TypeInv

LEMMA NextTypeInv ==
  ASSUME TypeInv, [Next]_vars
  PROVE  TypeInv'
<1> USE DEF TypeInv
<1> USE TeeClientAssumption
<1>1. ASSUME NEW f \in Feeder, Enqueue(f)
      PROVE  TypeInv'
  <2>1. NextOperation \in Operation
    BY DEF NextOperation, Phantom, Operation
  <2>2. queue' \in Seq(Operation)
    BY <1>1, <2>1, AppendProperties DEF Enqueue
  <2>3. unread' \in Operation
    BY <1>1 DEF Enqueue, Operation
  <2>4. eof' \in BOOLEAN
    BY <1>1 DEF Enqueue
  <2> QED
    BY <1>1, <2>2, <2>3, <2>4 DEF Enqueue
<1>2. ASSUME NEW f \in Feeder, FeederReturns(f)
      PROVE  TypeInv'
  BY <1>2 DEF FeederReturns
<1>3. CASE Spawn
  BY <1>3 DEF Spawn, Location
<1>4. CASE Join
  BY <1>4 DEF Join
<1>5. CASE Report
  BY <1>5 DEF Report
<1>6. CASE HostStep
  BY <1>6 DEF HostStep, Assign
<1>7. CASE PushCrash
  BY <1>7 DEF PushCrash
<1>8. ASSUME NEW t \in Thread, ThreadStep(t)
      PROVE  TypeInv'
  <2>1. CASE Open(t)
    BY <2>1 DEF Open, Loop, Location
  <2>2. CASE WarmUpTest(t)
    <3>1. pc' \in [Thread -> Location]
      BY <2>2 DEF WarmUpTest, Return, Location
    <3> QED
      BY <2>2, <3>1 DEF WarmUpTest
  <2>3. CASE Dequeue(t)
    <3>1. Head(queue) \in Operation /\ Tail(queue) \in Seq(Operation)
      BY <2>3, HeadTailProperties DEF Dequeue
    <3> QED
      BY <2>3, <3>1 DEF Dequeue, Location
  <2>4. CASE EndOfData(t)
    BY <2>4 DEF EndOfData, Return, Location
  <2>5. CASE Access(t)
    <3>1. performed' \in Seq(Operation)
      BY <2>5, AppendProperties DEF Access
    <3> QED
      BY <2>5, <3>1 DEF Access, Location
  <2>6. CASE PushBegin(t)
    <3>1. raced' \in BOOLEAN
      BY <2>6 DEF PushBegin
    <3> QED
      BY <2>6, <3>1 DEF PushBegin, Location
  <2>7. CASE PushEnd(t)
    BY <2>7 DEF PushEnd, Location
  <2> QED
    BY <1>8, <2>1, <2>2, <2>3, <2>4, <2>5, <2>6, <2>7 DEF ThreadStep
<1>9. ASSUME NEW t \in Thread, OpenThrows(t) \/ AccessThrows(t)
      PROVE  TypeInv'
  BY <1>9 DEF OpenThrows, AccessThrows
<1>10. CASE Over \/ UNCHANGED vars
  BY <1>10 DEF Over, vars
<1> QED
  BY <1>1, <1>2, <1>3, <1>4, <1>5, <1>6, <1>7, <1>8, <1>9, <1>10
  DEF Next, MainStep, FeederStep

LEMMA NextClassInv ==
  ASSUME TypeInv, ClassInv, [Next]_vars
  PROVE  ClassInv'
<1> USE DEF TypeInv, ClassInv
<1>1. ASSUME NEW t \in Thread, ThreadStep(t)
      PROVE  ClassInv'
  <2>1. CASE Open(t)
    BY <2>1 DEF Open, Loop
  <2>2. CASE WarmUpTest(t)
    BY <2>2 DEF WarmUpTest, Return
  <2>3. CASE Dequeue(t) \/ EndOfData(t)
    BY <2>3 DEF Dequeue, EndOfData, Return
  <2>4. CASE Access(t)
    BY <2>4 DEF Access, Thread
  <2>5. CASE PushBegin(t) \/ PushEnd(t)
    BY <2>5 DEF PushBegin, PushEnd
  <2> QED
    BY <1>1, <2>1, <2>2, <2>3, <2>4, <2>5 DEF ThreadStep
<1>2. CASE Spawn
  BY <1>2 DEF Spawn
<1>3. CASE UNCHANGED pc
  BY <1>3
<1> QED
  BY <1>1, <1>2, <1>3 DEF Next, MainStep, FeederStep, Enqueue, FeederReturns, Join, Report,
     HostStep, Assign, PushCrash, OpenThrows, AccessThrows, Over, vars

LEMMA NextFeedInv ==
  ASSUME TypeInv, FeedInv, [Next]_vars
  PROVE  FeedInv'
<1> USE DEF TypeInv, FeedInv
<1>1. ASSUME NEW f \in Feeder, Enqueue(f)
      PROVE  FeedInv'
  <2>1. MoreOperationsExist /\ feeding = Feeder /\ feeding' = Feeder /\ phase' = "feed"
    BY <1>1 DEF Enqueue
  <2>2. eof' => unread' = 0
    BY <1>1 DEF Enqueue
  <2> QED
    BY <1>1, <2>1, <2>2 DEF Enqueue
<1>2. ASSUME NEW f \in Feeder, FeederReturns(f)
      PROVE  FeedInv'
  BY <1>2 DEF FeederReturns, MoreOperationsExist
<1>3. CASE Spawn
  BY <1>3 DEF Spawn, MoreOperationsExist
<1>4. ASSUME NEW t \in Thread, ThreadStep(t)
      PROVE  FeedInv'
  BY <1>4 DEF ThreadStep, Open, WarmUpTest, Return, Dequeue, EndOfData, Access, PushBegin,
              PushEnd, MoreOperationsExist
<1>5. ASSUME phase # "feed" /\ phase' # "feed", UNCHANGED <<use_seed, unread, eof, feeding>>
      PROVE  FeedInv'
  BY <1>5 DEF MoreOperationsExist
<1>6. CASE Join \/ Report \/ HostStep \/ PushCrash \/ Over
  BY <1>5, <1>6 DEF Join, Report, HostStep, Assign, PushCrash, Over, vars
<1>7. ASSUME NEW t \in Thread, OpenThrows(t) \/ AccessThrows(t)
      PROVE  FeedInv'
  BY <1>5, <1>7 DEF OpenThrows, AccessThrows
<1>8. CASE UNCHANGED vars
  BY <1>8 DEF vars, MoreOperationsExist
<1> QED
  BY <1>1, <1>2, <1>3, <1>4, <1>6, <1>7, <1>8 DEF Next, MainStep, FeederStep

LEMMA NextJoinInv ==
  ASSUME TypeInv, ClassInv, FeedInv, JoinInv, [Next]_vars
  PROVE  JoinInv'
<1> USE DEF TypeInv, JoinInv
<1>1. ASSUME NEW f \in Feeder, Enqueue(f)
      PROVE  JoinInv'
  BY <1>1 DEF Enqueue, FeedInv, Thread
<1>2. ASSUME NEW t \in Thread, ThreadStep(t)
      PROVE  JoinInv'
  <2>1. phase = "run" /\ phase' = "run"
    BY <1>2 DEF ThreadStep, Open, WarmUpTest, Dequeue, EndOfData, Access, PushBegin, PushEnd
  <2>2. CASE Open(t)
    BY <2>1, <2>2 DEF Open, Loop, Thread
  <2>3. CASE WarmUpTest(t)
    <3>1. t \notin Runner
      BY <2>3, TeeClientAssumption DEF WarmUpTest, ClassInv
    <3>2. \A r \in Runner : pc'[r] = pc[r]
      BY <2>3, <3>1 DEF WarmUpTest, Return, Thread
    <3> QED
      BY <2>1, <2>3, <3>2 DEF WarmUpTest
  <2>4. CASE Dequeue(t)
    BY <2>1, <2>4 DEF Dequeue, Thread
  <2>5. CASE EndOfData(t)
    BY <2>1, <2>5 DEF EndOfData, Return, Thread
  <2>6. CASE Access(t)
    BY <2>1, <2>6 DEF Access, Thread
  <2>7. CASE PushBegin(t) \/ PushEnd(t)
    BY <2>1, <2>7 DEF PushBegin, PushEnd, Thread
  <2> QED
    BY <1>2, <2>2, <2>3, <2>4, <2>5, <2>6, <2>7 DEF ThreadStep
<1>3. CASE Spawn
  BY <1>3 DEF Spawn, Thread
<1>4. CASE Join
  BY <1>4 DEF Join
<1>5. CASE Report
  BY <1>5 DEF Report
<1>6. ASSUME UNCHANGED <<pc, queue, latencies>>, phase' = phase \/ phase' = "terminated"
      PROVE  JoinInv'
  BY <1>6
<1>7. ASSUME NEW f \in Feeder, FeederReturns(f)
      PROVE  JoinInv'
  BY <1>6, <1>7 DEF FeederReturns
<1>8. ASSUME NEW t \in Thread, OpenThrows(t) \/ AccessThrows(t)
      PROVE  JoinInv'
  BY <1>6, <1>8 DEF OpenThrows, AccessThrows
<1>9. CASE HostStep \/ PushCrash \/ Over \/ UNCHANGED vars
  BY <1>6, <1>9 DEF HostStep, Assign, PushCrash, Over, vars
<1> QED
  BY <1>1, <1>2, <1>3, <1>4, <1>5, <1>7, <1>8, <1>9 DEF Next, MainStep, FeederStep

\* The parts every later argument uses.
BaseInv == TypeInv /\ ClassInv /\ FeedInv /\ JoinInv

LEMMA BaseInvHolds == Spec => []BaseInv
<1>1. Init => BaseInv
  <2> SUFFICES ASSUME Init
               PROVE  BaseInv
    OBVIOUS
  <2>1. \A t \in Thread : pc[t] = "unborn"
    BY DEF Init
  <2>2. ClassInv /\ FeedInv /\ JoinInv
    BY <2>1 DEF Init, ClassInv, FeedInv, JoinInv, Thread
  <2> QED
    BY <2>2, InitTypeInv DEF BaseInv
<1>2. BaseInv /\ [Next]_vars => BaseInv'
  BY NextTypeInv, NextClassInv, NextFeedInv, NextJoinInv DEF BaseInv
<1> QED
  BY <1>1, <1>2, SpecSteps, PTL DEF Steps

(***************************************************************************)
(* Latencies                                                               *)
(***************************************************************************)
LEMMA NextPushInv ==
  ASSUME BaseInv, PushInv, [Next]_vars
  PROVE  PushInv'
<1> USE DEF BaseInv, TypeInv, PushInv
<1>1. ASSUME NEW t \in Thread, PushBegin(t)
      PROVE  PushInv'
  <2>1. /\ latencies' = latencies /\ measured' = measured
        /\ pc' = [pc EXCEPT ![t] = "pushing"] /\ size' = [size EXCEPT ![t] = latencies]
    BY <1>1 DEF PushBegin
  <2>2. ~raced' => ~raced /\ \A u \in Thread : pc[u] # "pushing"
    BY <1>1 DEF PushBegin, ClassInv
  <2> QED
    BY <2>1, <2>2
<1>2. ASSUME NEW t \in Thread, PushEnd(t)
      PROVE  PushInv'
  <2>1. /\ latencies' = size[t] + 1 /\ measured' = measured + 1 /\ raced' = raced
        /\ pc[t] = "pushing" /\ pc' = [pc EXCEPT ![t] = "dequeue"] /\ size' = size
    BY <1>2 DEF PushEnd
  <2> QED
    BY <2>1
<1>3. ASSUME UNCHANGED <<latencies, measured, size, raced>>,
             \A u \in Thread : pc'[u] = "pushing" => pc[u] = "pushing"
      PROVE  PushInv'
  BY <1>3
<1>4. ASSUME NEW t \in Thread, ThreadStep(t)
      PROVE  PushInv'
  <2>1. CASE Open(t)
    BY <1>3, <2>1 DEF Open, Loop
  <2>2. CASE WarmUpTest(t)
    BY <1>3, <2>2 DEF WarmUpTest, Return
  <2>3. CASE Dequeue(t) \/ EndOfData(t)
    BY <1>3, <2>3 DEF Dequeue, EndOfData, Return
  <2>4. CASE Access(t)
    BY <1>3, <2>4 DEF Access
  <2> QED
    BY <1>1, <1>2, <1>4, <2>1, <2>2, <2>3, <2>4 DEF ThreadStep
<1>5. CASE Spawn
  BY <1>3, <1>5 DEF Spawn
<1>6. CASE UNCHANGED <<latencies, measured, size, raced, pc>>
  BY <1>3, <1>6
<1> QED
  BY <1>4, <1>5, <1>6 DEF Next, MainStep, FeederStep, Enqueue, FeederReturns, Join, Report,
     HostStep, Assign, PushCrash, OpenThrows, AccessThrows, Over, vars

LEMMA PushInvHolds == Spec => []PushInv
<1>1. Init => PushInv
  <2> SUFFICES ASSUME Init
               PROVE  PushInv
    OBVIOUS
  <2>1. \A t \in Thread : pc[t] = "unborn"
    BY DEF Init
  <2> QED
    BY <2>1 DEF Init, PushInv
<1>2. BaseInv /\ PushInv /\ [Next]_vars => PushInv'
  BY NextPushInv
<1> QED
  BY <1>1, <1>2, BaseInvHolds, SpecSteps, PTL DEF Steps

\* However many runners push into the vector without a lock, it never holds more
\* latencies than operations measured, and fewer only after two push_backs overlapped.
THEOREM LatenciesExactHolds == Spec => []LatenciesExact
<1>1. PushInv => LatenciesExact
  BY DEF PushInv, LatenciesExact
<1> QED
  BY <1>1, PushInvHolds, PTL

(***************************************************************************)
(* Every operation once                                                    *)
(***************************************************************************)
LEMMA EnqueuePlaceInv ==
  ASSUME BaseInv, PlaceInv, NEW f \in Feeder, Enqueue(f)
  PROVE  PlaceInv'
<1> DEFINE next == NextOperation
<1>1. /\ next \in Operation /\ next \notin Taken
      /\ Taken' = Taken \cup {next}
  <2>1. LINES \in Nat /\ unread \in 0..LINES /\ (eof => unread = 0)
    BY TeeClientAssumption DEF BaseInv, TypeInv, FeedInv, Operation
  <2>2. CASE unread > 0
    <3>1. next = LINES - unread + 1 /\ unread' = unread - 1 /\ unread # 0
      BY <2>1, <2>2 DEF Enqueue, NextOperation
    <3>2. ~eof
      BY <2>1, <3>1, Zenon
    <3>3. ~eof'
      BY <3>1, Zenon DEF Enqueue
    <3> QED
      BY <2>1, <2>2, <3>1, <3>2, <3>3 DEF Taken, Operation, Phantom
  <2>3. CASE unread = 0
    <3>1. next = Phantom /\ unread' = 0 /\ ~(unread > 0)
      BY <2>3 DEF Enqueue, NextOperation
    <3>2. MoreOperationsExist
      BY DEF Enqueue
    <3>3. use_seed /\ ~eof
      BY <3>1, <3>2, Zenon DEF MoreOperationsExist
    <3>4. eof'
      BY <2>3, <3>3 DEF Enqueue
    <3> QED
      BY <2>1, <2>3, <3>1, <3>3, <3>4 DEF Taken, Operation, Phantom
  <2> QED
    BY <2>1, <2>2, <2>3
<1>2. queue \in Seq(Operation) /\ queue' = Append(queue, next)
  BY DEF BaseInv, TypeInv, Enqueue
<1> HIDE DEF next
<1>3. /\ Len(queue') = Len(queue) + 1 /\ Len(queue) \in Nat
      /\ \A i \in 1..Len(queue) : queue'[i] = queue[i]
      /\ queue'[Len(queue) + 1] = next
  BY <1>1, <1>2, AppendProperties
<1>4. ~Queued(next) /\ ~Held(next) /\ ~Performed(next)
  BY <1>1 DEF PlaceInv
<1>5. \A k \in Operation : /\ Queued(k)' <=> Queued(k) \/ k = next
                           /\ Held(k)' <=> Held(k)
                           /\ Performed(k)' <=> Performed(k)
  <2>1. \A k \in Operation : Queued(k)' <=> Queued(k) \/ k = next
    BY <1>3 DEF Queued
  <2> QED
    BY <2>1 DEF Enqueue, Held, Performed
<1>6. (\A i, j \in 1..Len(queue) : queue[i] = queue[j] => i = j)'
  <2>1. \A i \in 1..Len(queue) : queue[i] # next
    BY <1>4 DEF Queued
  <2> QED
    BY <1>3, <2>1 DEF PlaceInv
<1>7. UNCHANGED <<pc, op, performed>>
  BY DEF Enqueue
<1>8. \A k \in Operation : /\ ~(Queued(k) /\ Held(k))'
                           /\ ~(Queued(k) /\ Performed(k))'
                           /\ ~(Held(k) /\ Performed(k))'
                           /\ (Queued(k) \/ Held(k) \/ Performed(k))' <=> k \in Taken'
  BY <1>1, <1>4, <1>5 DEF PlaceInv
<1> QED
  BY <1>6, <1>7, <1>8 DEF PlaceInv

LEMMA DequeuePlaceInv ==
  ASSUME BaseInv, PlaceInv, NEW t \in Thread, Dequeue(t)
  PROVE  PlaceInv'
<1> DEFINE head == Head(queue)
<1>1. /\ pc \in [Thread -> Location] /\ op \in [Thread -> Operation]
      /\ queue \in Seq(Operation) /\ queue # <<>> /\ queue' = Tail(queue)
      /\ pc[t] = "dequeue" /\ pc' = [pc EXCEPT ![t] = "access"]
      /\ op' = [op EXCEPT ![t] = head] /\ UNCHANGED <<performed, unread, eof>>
  BY DEF BaseInv, TypeInv, Dequeue
<1>2. /\ head \in Operation /\ head = queue[1] /\ Len(queue) \in Nat \ {0}
      /\ Len(queue') = Len(queue) - 1
      /\ \A i \in 1..(Len(queue) - 1) : queue'[i] = queue[i + 1]
  BY <1>1, HeadTailProperties
<1> HIDE DEF head
<1>3. Queued(head) /\ ~Held(head) /\ ~Performed(head)
  BY <1>2 DEF PlaceInv, Queued
<1>4. (\A i, j \in 1..Len(queue) : queue[i] = queue[j] => i = j)'
  <2> SUFFICES ASSUME NEW i \in 1..(Len(queue) - 1), NEW j \in 1..(Len(queue) - 1),
                      queue[i + 1] = queue[j + 1]
               PROVE  i = j
    BY <1>2
  <2>1. i + 1 \in 1..Len(queue) /\ j + 1 \in 1..Len(queue)
    BY <1>2
  <2>2. i + 1 = j + 1
    BY <2>1 DEF PlaceInv
  <2> QED
    BY <2>2
<1>5. \A k \in Operation : Queued(k)' <=> Queued(k) /\ k # head
  <2> TAKE k \in Operation
  <2>1. ASSUME Queued(k)'
        PROVE  Queued(k) /\ k # head
    <3>1. PICK i \in 1..(Len(queue) - 1) : queue[i + 1] = k
      BY <1>2, <2>1 DEF Queued
    <3>2. i + 1 \in 1..Len(queue) /\ 1 \in 1..Len(queue) /\ i + 1 # 1
      BY <1>2
    <3>3. queue[i + 1] # queue[1]
      BY <3>2 DEF PlaceInv
    <3> QED
      BY <1>2, <3>1, <3>2, <3>3 DEF Queued
  <2>2. ASSUME Queued(k), k # head
        PROVE  Queued(k)'
    <3>1. PICK i \in 1..Len(queue) : queue[i] = k
      BY <2>2 DEF Queued
    <3>2. i # 1 /\ i - 1 \in 1..(Len(queue) - 1)
      BY <1>2, <2>2, <3>1
    <3>3. queue'[i - 1] = queue[(i - 1) + 1] /\ (i - 1) + 1 = i
      BY <1>2, <3>2
    <3>4. queue'[i - 1] = k /\ i - 1 \in 1..Len(queue')
      BY <1>2, <3>1, <3>2, <3>3
    <3> QED
      BY <3>4 DEF Queued
  <2> QED
    BY <2>1, <2>2
<1>6. \A k \in Operation : /\ Held(k)' <=> Held(k) \/ k = head
                           /\ Performed(k)' <=> Performed(k)
  BY <1>1, <1>2 DEF Held, Performed
<1>7. (\A u, v \in Thread : pc[u] = "access" /\ pc[v] = "access" /\ op[u] = op[v] => u = v)'
  <2>1. \A u \in Thread : pc[u] = "access" => op[u] # head
    BY <1>3 DEF Held
  <2> QED
    BY <1>1, <2>1 DEF PlaceInv
<1>8. Taken' = Taken
  BY <1>1 DEF Taken
<1>9. \A k \in Operation : /\ ~(Queued(k) /\ Held(k))'
                           /\ ~(Queued(k) /\ Performed(k))'
                           /\ ~(Held(k) /\ Performed(k))'
                           /\ (Queued(k) \/ Held(k) \/ Performed(k))' <=> k \in Taken'
  BY <1>3, <1>5, <1>6, <1>8 DEF PlaceInv
<1> QED
  BY <1>1, <1>4, <1>7, <1>9 DEF PlaceInv

LEMMA AccessPlaceInv ==
  ASSUME BaseInv, PlaceInv, NEW t \in Thread, Access(t)
  PROVE  PlaceInv'
<1> DEFINE mine == op[t]
<1>1. /\ pc \in [Thread -> Location] /\ op \in [Thread -> Operation]
      /\ pc[t] = "access" /\ pc'[t] # "access" /\ \A u \in Thread : u # t => pc'[u] = pc[u]
      /\ performed \in Seq(Operation) /\ performed' = Append(performed, mine)
      /\ mine \in Operation /\ UNCHANGED <<op, queue, unread, eof>>
  BY DEF BaseInv, TypeInv, Access
<1>2. Held(mine) /\ ~Queued(mine) /\ ~Performed(mine)
  BY <1>1 DEF PlaceInv, Held
<1>3. \A k \in Operation : Held(k)' <=> Held(k) /\ k # mine
  BY <1>1 DEF PlaceInv, Held
<1> HIDE DEF mine
<1>4. /\ Len(performed') = Len(performed) + 1 /\ Len(performed) \in Nat
      /\ \A i \in 1..Len(performed) : performed'[i] = performed[i]
      /\ performed'[Len(performed) + 1] = mine
  BY <1>1, AppendProperties
<1>5. \A k \in Operation : /\ Performed(k)' <=> Performed(k) \/ k = mine
                           /\ Queued(k)' <=> Queued(k)
  <2>1. \A k \in Operation : Performed(k)' <=> Performed(k) \/ k = mine
    BY <1>4 DEF Performed
  <2> QED
    BY <1>1, <2>1 DEF Queued
<1>6. (\A i, j \in 1..Len(performed) : performed[i] = performed[j] => i = j)'
  <2>1. \A i \in 1..Len(performed) : performed[i] # mine
    BY <1>2 DEF Performed
  <2> QED
    BY <1>4, <2>1 DEF PlaceInv
<1>7. (\A u, v \in Thread : pc[u] = "access" /\ pc[v] = "access" /\ op[u] = op[v] => u = v)'
  BY <1>1 DEF PlaceInv
<1>8. Taken' = Taken
  BY <1>1 DEF Taken
<1>9. \A k \in Operation : /\ ~(Queued(k) /\ Held(k))'
                           /\ ~(Queued(k) /\ Performed(k))'
                           /\ ~(Held(k) /\ Performed(k))'
                           /\ (Queued(k) \/ Held(k) \/ Performed(k))' <=> k \in Taken'
  BY <1>2, <1>3, <1>5, <1>8 DEF PlaceInv
<1> QED
  BY <1>1, <1>6, <1>7, <1>9 DEF PlaceInv

LEMMA NextPlaceInv ==
  ASSUME BaseInv, PlaceInv, [Next]_vars
  PROVE  PlaceInv'
<1>1. ASSUME UNCHANGED <<queue, performed, op, unread, eof>>,
             \A t \in Thread : pc'[t] = "access" <=> pc[t] = "access"
      PROVE  PlaceInv'
  <2>1. \A k : /\ Queued(k)' <=> Queued(k)
               /\ Held(k)' <=> Held(k)
               /\ Performed(k)' <=> Performed(k)
    BY <1>1 DEF Queued, Held, Performed
  <2>2. Taken' = Taken
    BY <1>1 DEF Taken
  <2> QED
    BY <1>1, <2>1, <2>2 DEF PlaceInv
<1>2. ASSUME NEW t \in Thread, ThreadStep(t)
      PROVE  PlaceInv'
  <2>1. pc \in [Thread -> Location]
    BY DEF BaseInv, TypeInv
  <2>2. CASE Open(t)
    BY <1>1, <2>1, <2>2 DEF Open, Loop
  <2>3. CASE WarmUpTest(t)
    BY <1>1, <2>1, <2>3 DEF WarmUpTest, Return
  <2>4. CASE Dequeue(t)
    BY <2>4, DequeuePlaceInv
  <2>5. CASE EndOfData(t)
    BY <1>1, <2>1, <2>5 DEF EndOfData, Return
  <2>6. CASE Access(t)
    BY <2>6, AccessPlaceInv
  <2>7. CASE PushBegin(t)
    BY <1>1, <2>1, <2>7 DEF PushBegin
  <2>8. CASE PushEnd(t)
    BY <1>1, <2>1, <2>8 DEF PushEnd
  <2> QED
    BY <1>2, <2>2, <2>3, <2>4, <2>5, <2>6, <2>7, <2>8 DEF ThreadStep
<1>3. CASE Spawn
  <2>1. \A t \in Thread : pc[t] # "access" /\ pc'[t] # "access"
    BY <1>3 DEF Spawn, BaseInv, FeedInv
  <2> QED
    BY <1>1, <1>3, <2>1 DEF Spawn
<1>4. CASE UNCHANGED <<queue, performed, op, unread, eof, pc>>
  BY <1>1, <1>4
<1>5. ASSUME NEW f \in Feeder, Enqueue(f)
      PROVE  PlaceInv'
  BY <1>5, EnqueuePlaceInv
<1> QED
  BY <1>2, <1>3, <1>4, <1>5 DEF Next, MainStep, FeederStep, FeederReturns, Join, Report,
     HostStep, Assign, PushCrash, OpenThrows, AccessThrows, Over, vars

LEMMA PlaceInvHolds == Spec => []PlaceInv
<1>1. Init => PlaceInv
  <2> SUFFICES ASSUME Init
               PROVE  PlaceInv
    OBVIOUS
  <2>1. /\ queue = <<>> /\ performed = <<>> /\ ~eof /\ unread = LINES
        /\ \A t \in Thread : pc[t] = "unborn"
    BY DEF Init
  <2>2. \A k \in Operation : k \notin Taken
    BY <2>1, TeeClientAssumption DEF Taken, Operation, Phantom
  <2> QED
    BY <2>1, <2>2 DEF PlaceInv, Queued, Held, Performed
<1>2. BaseInv /\ PlaceInv /\ [Next]_vars => PlaceInv'
  BY NextPlaceInv
<1> QED
  BY <1>1, <1>2, BaseInvHolds, SpecSteps, PTL DEF Steps

\* When the client reports, every line of the source has been performed, and with a file
\* the empty one.
LEMMA AllPerformed ==
  ASSUME Runner # {}, Feeder # {}, BaseInv, PlaceInv,
         phase \in {"report", "done", "untimed", "asserted"}
  PROVE  \A k \in Operation : Performed(k) <=> k # Phantom \/ use_seed
<1>1. \A t \in Thread : pc[t] = "returned"
  BY DEF BaseInv, JoinInv
<1>2. queue = <<>>
  BY <1>1 DEF BaseInv, JoinInv, Thread
<1>3. unread = 0 /\ (eof <=> use_seed)
  <2>1. ~MoreOperationsExist /\ (eof => unread = 0 /\ use_seed) /\ unread \in 0..LINES
    BY DEF BaseInv, FeedInv, TypeInv, Operation
  <2>2. CASE use_seed
    BY <2>1, <2>2, Zenon DEF MoreOperationsExist
  <2>3. CASE ~use_seed
    <3>1. ~(unread > 0) /\ ~eof
      BY <2>1, <2>3, Zenon DEF MoreOperationsExist
    <3> QED
      BY <2>1, <2>3, <3>1
  <2> QED
    BY <2>2, <2>3
<1>4. \A k \in Operation : k \in Taken <=> k # Phantom \/ use_seed
  BY <1>3, TeeClientAssumption DEF Taken, Operation, Phantom
<1> QED
  BY <1>1, <1>2, <1>4 DEF PlaceInv, Queued, Held

\* With at least one client (a DataHandler, a runner), every operation of the source is
\* performed exactly once, in whatever order warm-up threads and runners drain the queue,
\* and the empty line at the end of a file is the only other one.
THEOREM ExactlyOnceHolds ==
  ASSUME Runner # {}, Feeder # {}
  PROVE  Spec => []ExactlyOnce
<1>1. BaseInv /\ PlaceInv => ExactlyOnce
  <2> SUFFICES ASSUME BaseInv, PlaceInv
               PROVE  ExactlyOnce
    OBVIOUS
  <2>1. DOMAIN performed = 1..Len(performed)
    BY DEF BaseInv, TypeInv
  <2>2. \A i, j \in DOMAIN performed : performed[i] = performed[j] => i = j
    BY <2>1 DEF PlaceInv
  <2>3. ASSUME phase \in {"report", "done", "untimed", "asserted"}
        PROVE  { performed[i] : i \in DOMAIN performed } =
                 1..LINES \union (IF use_seed THEN {Phantom} ELSE {})
    <3>1. \A k \in Operation : Performed(k) <=> k # Phantom \/ use_seed
      BY <2>3, AllPerformed
    <3>2. \A i \in DOMAIN performed : performed[i] \in Operation
      BY DEF BaseInv, TypeInv
    <3>3. Operation = 1..LINES \union {Phantom} /\ Phantom \notin 1..LINES
      BY TeeClientAssumption DEF Operation, Phantom
    <3>4. \A k : k \in { performed[i] : i \in DOMAIN performed } <=> k \in Operation /\ Performed(k)
      BY <2>1, <3>2 DEF Performed
    <3> QED
      BY <3>1, <3>3, <3>4
  <2> QED
    BY <2>2, <2>3 DEF ExactlyOnce
<1> QED
  BY <1>1, BaseInvHolds, PlaceInvHolds, PTL

(***************************************************************************)
(* How far the warm-up goes                                                *)
(***************************************************************************)
\* The two sets of threads are finite, and their sizes are numbers.
LEMMA CountsType ==
  /\ IsFiniteSet(Unmeasured) /\ Cardinality(Unmeasured) \in Nat
  /\ IsFiniteSet(Counted) /\ Cardinality(Counted) \in Nat
<1>1. Unmeasured \in SUBSET Runner /\ Counted \in SUBSET Warmer
  BY DEF Unmeasured, Counted
<1>2. IsFiniteSet(Unmeasured) /\ IsFiniteSet(Counted)
  BY <1>1, TeeClientAssumption, FS_Subset
<1> QED
  BY <1>2, FS_CardinalityType

\* What the step of one thread does to the two sets.
LEMMA CountsStep ==
  ASSUME TypeInv, NEW t \in Thread, NEW l \in Location, pc' = [pc EXCEPT ![t] = l]
  PROVE  /\ Unmeasured' = IF t \in Runner /\ l \in {"push", "pushing"}
                          THEN Unmeasured \cup {t} ELSE Unmeasured \ {t}
         /\ Counted' = IF t \in Warmer /\ l \in {"dequeue", "access"}
                       THEN Counted \cup {t} ELSE Counted \ {t}
BY DEF TypeInv, Unmeasured, Counted, Thread

LEMMA ThreadWarmupInv ==
  ASSUME BaseInv, WarmupInv, NEW t \in Thread, ThreadStep(t)
  PROVE  WarmupInv'
<1> DEFINE done == Len(performed)
           C == Cardinality(Counted)
           U == Cardinality(Unmeasured)
<1>1. /\ done \in Nat /\ warmups \in Int /\ measured \in Nat /\ C \in Nat /\ U \in Nat
      /\ WARMUP \in Nat /\ IsFiniteSet(Counted) /\ IsFiniteSet(Unmeasured)
      /\ pc \in [Thread -> Location]
  BY CountsType, TeeClientAssumption DEF BaseInv, TypeInv
<1>2. phase = "run" /\ (t \in Warmer <=> t \notin Runner)
  BY TeeClientAssumption DEF ThreadStep, Thread
<1>3. warmups >= -1 =>
        done + C + (IF warmups > 0 THEN warmups ELSE 0) <= WARMUP + measured + U
  BY <1>2 DEF WarmupInv
<1>4. t \in Counted => pc[t] \in {"dequeue", "access"} /\ t \in Warmer
  BY DEF Counted
<1>5. t \in Unmeasured => pc[t] \in {"push", "pushing"} /\ t \in Runner
  BY DEF Unmeasured
<1>6. /\ Cardinality(Counted \ {t}) = IF t \in Counted THEN C - 1 ELSE C
      /\ Cardinality(Unmeasured \ {t}) = IF t \in Unmeasured THEN U - 1 ELSE U
      /\ Cardinality(Counted \cup {t}) = IF t \in Counted THEN C ELSE C + 1
      /\ Cardinality(Unmeasured \cup {t}) = IF t \in Unmeasured THEN U ELSE U + 1
  BY <1>1, FS_AddElement, FS_RemoveElement
<1> HIDE DEF done, C, U
<1>7. SUFFICES ASSUME warmups' >= -1
               PROVE  done' + C' + (IF warmups' > 0 THEN warmups' ELSE 0)
                        <= WARMUP + measured' + U'
  BY DEF WarmupInv, done, C, U
<1>8. CASE Open(t)
  <2>1. /\ Loop(t) \in Location /\ pc' = [pc EXCEPT ![t] = Loop(t)] /\ pc[t] = "open"
        /\ Loop(t) \notin {"push", "pushing"} /\ (t \in Warmer => Loop(t) = "test")
        /\ UNCHANGED <<performed, warmups, measured>>
    BY <1>8 DEF Open, Loop, Location
  <2>2. Unmeasured' = Unmeasured \ {t} /\ Counted' = Counted \ {t}
    BY <2>1, CountsStep DEF BaseInv
  <2>3. C' = C /\ U' = U /\ done' = done
    BY <1>4, <1>5, <1>6, <2>1, <2>2 DEF C, U, done
  <2> QED
    BY <1>3, <1>7, <2>1, <2>3
<1>9. CASE WarmUpTest(t)
  <2>1. t \in Warmer /\ warmups' = warmups - 1 /\ pc[t] = "test"
        /\ UNCHANGED <<performed, measured>>
    BY <1>9 DEF WarmUpTest, BaseInv, ClassInv
  <2>2. t \notin Counted /\ t \notin Unmeasured
    BY <1>4, <1>5, <2>1
  <2>3. CASE warmups # 0
    <3>1. pc' = [pc EXCEPT ![t] = "dequeue"] /\ "dequeue" \in Location
      BY <1>9, <2>3 DEF WarmUpTest, Location
    <3>2. Unmeasured' = Unmeasured \ {t} /\ Counted' = Counted \cup {t}
      BY <2>1, <3>1, CountsStep DEF BaseInv
    <3>3. C' = C + 1 /\ U' = U /\ done' = done
      BY <1>6, <2>1, <2>2, <3>2 DEF C, U, done
    <3>4. warmups > 0
      BY <1>1, <1>7, <2>1, <2>3
    <3> QED
      BY <1>1, <1>3, <2>1, <3>3, <3>4
  <2>4. CASE warmups = 0
    <3>1. pc' = [pc EXCEPT ![t] = "returned"] /\ "returned" \in Location
      BY <1>9, <2>4 DEF WarmUpTest, Return, Location
    <3>2. Unmeasured' = Unmeasured \ {t} /\ Counted' = Counted \ {t}
      BY <3>1, CountsStep DEF BaseInv
    <3>3. C' = C /\ U' = U /\ done' = done
      BY <1>6, <2>1, <2>2, <3>2 DEF C, U, done
    <3> QED
      BY <1>1, <1>3, <2>1, <2>4, <3>3
  <2> QED
    BY <2>3, <2>4
<1>10. CASE Dequeue(t)
  <2>1. /\ pc' = [pc EXCEPT ![t] = "access"] /\ "access" \in Location /\ pc[t] = "dequeue"
        /\ UNCHANGED <<performed, warmups, measured>>
    BY <1>10 DEF Dequeue, Location
  <2>2. /\ Unmeasured' = Unmeasured \ {t}
        /\ Counted' = IF t \in Warmer THEN Counted \cup {t} ELSE Counted \ {t}
    BY <2>1, CountsStep DEF BaseInv
  <2>3. t \in Warmer <=> t \in Counted
    BY <1>4, <2>1 DEF Counted
  <2>4. C' = C /\ U' = U /\ done' = done
    BY <1>5, <1>6, <2>1, <2>2, <2>3 DEF C, U, done
  <2> QED
    BY <1>3, <1>7, <2>1, <2>4
<1>11. CASE EndOfData(t)
  <2>1. /\ pc' = [pc EXCEPT ![t] = "returned"] /\ "returned" \in Location /\ pc[t] = "dequeue"
        /\ UNCHANGED <<performed, warmups, measured>>
    BY <1>11 DEF EndOfData, Return, Location
  <2>2. Unmeasured' = Unmeasured \ {t} /\ Counted' = Counted \ {t}
    BY <2>1, CountsStep DEF BaseInv
  <2>3. (C' = C \/ C' = C - 1) /\ U' = U /\ done' = done
    BY <1>5, <1>6, <2>1, <2>2 DEF C, U, done
  <2> QED
    BY <1>1, <1>3, <1>7, <2>1, <2>3
<1>12. CASE Access(t)
  <2>1. /\ pc[t] = "access" /\ performed' = Append(performed, op[t])
        /\ UNCHANGED <<warmups, measured>>
    BY <1>12 DEF Access
  <2>2. done' = done + 1
    BY <2>1, AppendProperties DEF done, BaseInv, TypeInv
  <2>3. CASE t \in Warmer
    <3>1. pc' = [pc EXCEPT ![t] = "test"] /\ "test" \in Location
      BY <1>12, <2>3 DEF Access, Location
    <3>2. Unmeasured' = Unmeasured \ {t} /\ Counted' = Counted \ {t}
      BY <3>1, CountsStep DEF BaseInv
    <3>3. t \in Counted /\ t \notin Unmeasured
      BY <1>5, <2>1, <2>3 DEF Counted
    <3>4. C' = C - 1 /\ U' = U
      BY <1>6, <3>2, <3>3 DEF C, U
    <3> QED
      BY <1>1, <1>3, <1>7, <2>1, <2>2, <3>4
  <2>4. CASE t \notin Warmer
    <3>1. pc' = [pc EXCEPT ![t] = "push"] /\ "push" \in Location /\ t \in Runner
      BY <1>2, <1>12, <2>4 DEF Access, Location
    <3>2. Unmeasured' = Unmeasured \cup {t} /\ Counted' = Counted \ {t}
      BY <3>1, CountsStep DEF BaseInv
    <3>3. t \notin Counted /\ t \notin Unmeasured
      BY <1>4, <1>5, <2>1, <2>4
    <3>4. C' = C /\ U' = U + 1
      BY <1>6, <3>2, <3>3 DEF C, U
    <3> QED
      BY <1>1, <1>3, <1>7, <2>1, <2>2, <3>4
  <2> QED
    BY <2>3, <2>4
<1>13. CASE PushBegin(t)
  <2>1. /\ pc' = [pc EXCEPT ![t] = "pushing"] /\ "pushing" \in Location /\ pc[t] = "push"
        /\ t \in Runner /\ UNCHANGED <<performed, warmups, measured>>
    BY <1>13 DEF PushBegin, Location, BaseInv, ClassInv
  <2>2. Unmeasured' = Unmeasured \cup {t} /\ Counted' = Counted \ {t}
    BY <2>1, CountsStep DEF BaseInv
  <2>3. t \in Unmeasured /\ t \notin Counted
    BY <1>4, <2>1 DEF Unmeasured
  <2>4. C' = C /\ U' = U /\ done' = done
    BY <1>6, <2>1, <2>2, <2>3 DEF C, U, done
  <2> QED
    BY <1>3, <1>7, <2>1, <2>4
<1>14. CASE PushEnd(t)
  <2>1. /\ pc' = [pc EXCEPT ![t] = "dequeue"] /\ "dequeue" \in Location /\ pc[t] = "pushing"
        /\ t \in Runner /\ measured' = measured + 1 /\ UNCHANGED <<performed, warmups>>
    BY <1>14 DEF PushEnd, Location, BaseInv, ClassInv
  <2>2. Unmeasured' = Unmeasured \ {t} /\ Counted' = Counted \ {t}
    BY <1>2, <2>1, CountsStep DEF BaseInv
  <2>3. t \in Unmeasured /\ t \notin Counted
    BY <1>4, <2>1 DEF Unmeasured
  <2>4. C' = C /\ U' = U - 1 /\ done' = done
    BY <1>6, <2>1, <2>2, <2>3 DEF C, U, done
  <2> QED
    BY <1>1, <1>3, <1>7, <2>1, <2>4
<1> QED
  BY <1>8, <1>9, <1>10, <1>11, <1>12, <1>13, <1>14 DEF ThreadStep

LEMMA NextWarmupInv ==
  ASSUME BaseInv, WarmupInv, [Next]_vars
  PROVE  WarmupInv'
<1>1. ASSUME NEW t \in Thread, ThreadStep(t)
      PROVE  WarmupInv'
  BY <1>1, ThreadWarmupInv
<1>2. CASE Spawn
  <2>1. warmups' = WARMUP /\ performed' = <<>> /\ measured' = 0 /\ WARMUP \in Nat
    BY <1>2, TeeClientAssumption DEF Spawn, BaseInv, FeedInv
  <2>2. Counted' = {} /\ Unmeasured' = {}
    BY <1>2 DEF Spawn, Counted, Unmeasured, Thread
  <2>3. Len(performed') = 0 /\ Cardinality({}) = 0
    BY <2>1, FS_EmptySet
  <2> QED
    BY <2>1, <2>2, <2>3 DEF WarmupInv
<1>3. ASSUME NEW f \in Feeder, FeederStep(f)
      PROVE  WarmupInv'
  BY <1>3 DEF FeederStep, Enqueue, FeederReturns, WarmupInv
<1>4. ASSUME phase # "feed", UNCHANGED <<pc, warmups, performed, measured>>
      PROVE  WarmupInv'
  <2>1. Counted' = Counted /\ Unmeasured' = Unmeasured
    BY <1>4 DEF Counted, Unmeasured
  <2> QED
    BY <1>4, <2>1 DEF WarmupInv
<1>5. CASE Join \/ Report \/ HostStep \/ PushCrash \/ Over
  BY <1>4, <1>5 DEF Join, Report, HostStep, Assign, PushCrash, Over, vars
<1>6. ASSUME NEW t \in Thread, OpenThrows(t) \/ AccessThrows(t)
      PROVE  WarmupInv'
  BY <1>4, <1>6 DEF OpenThrows, AccessThrows
<1>7. CASE UNCHANGED vars
  BY <1>4, <1>7 DEF vars, WarmupInv
<1> QED
  BY <1>1, <1>2, <1>3, <1>5, <1>6, <1>7 DEF Next, MainStep

LEMMA WarmupInvHolds == Spec => []WarmupInv
<1>1. Init => WarmupInv
  BY DEF Init, WarmupInv
<1>2. BaseInv /\ WarmupInv /\ [Next]_vars => WarmupInv'
  BY NextWarmupInv
<1> QED
  BY <1>1, <1>2, BaseInvHolds, SpecSteps, PTL DEF Steps

\* A sequence that holds every number of 1..n has at least n entries.
LEMMA CoverLength ==
  ASSUME NEW n \in Nat, NEW S, NEW seq \in Seq(S),
         \A k \in 1..n : \E i \in 1..Len(seq) : seq[i] = k
  PROVE  n <= Len(seq)
<1> DEFINE At == [k \in 1..n |-> CHOOSE i \in 1..Len(seq) : seq[i] = k]
<1>1. \A k \in 1..n : At[k] \in 1..Len(seq) /\ seq[At[k]] = k
  OBVIOUS
<1>2. At \in [1..n -> 1..Len(seq)]
  BY <1>1
<1>3. ~ \E x, y \in 1..n : x # y /\ At[x] = At[y]
  BY <1>1
<1> HIDE DEF At
<1>4. Len(seq) \in Nat
  OBVIOUS
<1>5. \A m \in Nat : IsFiniteSet(1..m) /\ Cardinality(1..m) = m
  <2> TAKE m \in Nat
  <2>1. IsFiniteSet(1..m) /\ Cardinality(1..m) = IF 1 > m THEN 0 ELSE m - 1 + 1
    BY FS_Interval
  <2> QED
    BY <2>1
<1>6. /\ IsFiniteSet(1..n) /\ Cardinality(1..n) = n
      /\ IsFiniteSet(1..Len(seq)) /\ Cardinality(1..Len(seq)) = Len(seq)
  BY <1>4, <1>5
<1> DEFINE Domain == 1..n
           Place == 1..Len(seq)
<1>7. /\ IsFiniteSet(Domain) /\ IsFiniteSet(Place) /\ At \in [Domain -> Place]
      /\ ~ \E x, y \in Domain : x # y /\ At[x] = At[y]
      /\ Cardinality(Domain) = n /\ Cardinality(Place) = Len(seq)
  BY <1>2, <1>3, <1>6
<1> HIDE DEF Domain, Place
<1>8. ~(Cardinality(Place) < Cardinality(Domain))
  BY <1>7, FS_PigeonHole
<1> QED
  BY <1>4, <1>7, <1>8

\* With at least one client: unless two threads decremented the counter past zero, the
\* warm-up performs at most WARMUP operations, and a source with more operations than
\* that leaves the runners something to measure, so getAveLatency's assertion holds.
THEOREM WarmupBoundedHolds ==
  ASSUME Runner # {}, Feeder # {}
  PROVE  Spec => []WarmupBounded
<1>1. BaseInv /\ PlaceInv /\ PushInv /\ WarmupInv => WarmupBounded
  <2> SUFFICES ASSUME BaseInv, PlaceInv, PushInv, WarmupInv,
                      phase \in {"report", "done", "untimed", "asserted"}, ~(warmups < -1)
               PROVE  /\ Len(performed) - measured <= WARMUP
                      /\ LINES > WARMUP => phase # "asserted"
    BY DEF WarmupBounded
  <2>1. /\ warmups \in Int /\ measured \in Nat /\ latencies \in Nat
        /\ performed \in Seq(Operation) /\ Len(performed) \in Nat
        /\ WARMUP \in Nat /\ LINES \in Nat
    BY TeeClientAssumption DEF BaseInv, TypeInv
  <2>2. Counted = {} /\ Unmeasured = {}
    BY DEF BaseInv, JoinInv, Counted, Unmeasured, Thread
  <2>3. Cardinality(Counted) = 0 /\ Cardinality(Unmeasured) = 0
    BY <2>2, FS_EmptySet
  <2>4. Len(performed) + (IF warmups > 0 THEN warmups ELSE 0) <= WARMUP + measured
    BY <2>1, <2>3 DEF WarmupInv
  <2>5. Len(performed) <= WARMUP + measured
    BY <2>1, <2>4
  <2>6. LINES <= Len(performed)
    <3>1. \A k \in 1..LINES : \E i \in 1..Len(performed) : performed[i] = k
      <4>1. \A k \in 1..LINES : k \in Operation /\ k # Phantom
        BY <2>1 DEF Operation, Phantom
      <4> QED
        BY <4>1, AllPerformed DEF Performed
    <3> QED
      BY <2>1, <3>1, CoverLength
  <2>7. LINES > WARMUP => latencies > 0
    BY <2>1, <2>5, <2>6 DEF PushInv
  <2>8. phase = "asserted" => latencies = 0
    BY DEF BaseInv, JoinInv
  <2> QED
    BY <2>1, <2>5, <2>7, <2>8
<1> QED
  BY <1>1, BaseInvHolds, PlaceInvHolds, PushInvHolds, WarmupInvHolds, PTL
=============================================================================
