# ORTOA in TLA+

ORTOA ("One Round Trip Oblivious Access") hides from a storage server whether an
access reads or writes. This directory models the two implementations in the
repository, label-based (`ortoa-lbl`) and enclave-based (`ortoa-tee`), checks them
with TLC on small instances and proves their main safety properties with TLAPS.
The third protocol the top-level README names, ORTOA-FHE, has no source in the
repository.

`PROJECT.json` lists the components, the runs, the map from definitions to source
lines, the findings, the hazards and the theorems. This file is the prose.

## 1. Inventory

### ORTOA-LBL

| Part | State | Operations | Interacts with |
|---|---|---|---|
| Label algorithms, `clientHelper.cpp` | `keySet`, `valueSizes`, `masterKeys`, `locks` (global maps), the pool | `constructCreateEntry`, `constructGetEntry`, `constructPutEntry`, `readValueFromLabels`, `OpScureSetup`, `OpScureCleanup` | called by proxy, CLI client and benchmark |
| Storage server, `server.cpp` | a RocksDB map from key to block of label slots; a pool | `create` (one-way), `access`; exits when a slot cannot be opened | RPC from the proxy |
| Proxy, `proxy.cpp` | the maps above, shared by 64 RPC threads; counters | `access` -> `handleOp`, SIGINT handler | clients; one server connection per request |
| CLI client, `client.cpp` | the maps above | GET, PUT and EXIT commands, SIGINT handler; loads and saves `OpScure.data` | one server connection |
| Concurrent benchmark, `concurrent_benchmark.cpp` | the maps above, shared by its threads | the proxy's `handleOp`, one connection per thread | server |
| Load generator, `clients.cpp` | latencies | loops of `access` calls | proxy |
| Sequential benchmark, `benchmark.cpp` | the maps above, timers | rounds of GET and PUT, SIGINT handler; loads `OpScure.data`, saves it on SIGINT only | one server connection |
| Encryption estimate, `estimate_encryption.cpp` | the maps above, never loaded; timers | `construct...Entry` in a loop, SIGINT handler that saves | none |
| Thread pool, `BS_thread_pool.hpp` (vendored) | task queue, `tasks_total`, flags, one mutex, two condition variables, threads | `push_task`, `submit`, the worker loop, `pause`, `unpause`, `wait_for_tasks`, `reset`, destructor | label algorithms and server submit tasks; the signal handlers delete the pool |

What is hard: the proxy's threads read and fill the maps without a lock and take a
per-key lock only after looking the key up; `create` is one-way and may be
overtaken; every access replaces all labels of a key, so that a single operation
applied to a block of another generation ends the server; the division of a block
among pool tasks is arithmetic on sizes that need not divide; an exception leaves a
key locked; the server can be quit and restarted between any two steps; Ctrl+C saves
the maps one after the other, and deletes the pool, while threads are at work; three
programs with different habits share one data file; the pool counts a task only after
it has given back the mutex that guards the queue.

What makes it correct: a GET answers the value last put; a block stays decodable
under the key the proxy holds; locks exclude and are never lost silently; every
request ends; together, the proxy and the server are a key-value store; what a process
saves opens the server's blocks; the pool runs every task once and lets nobody wait for
nothing.

### ORTOA-TEE

| Part | State | Operations | Interacts with |
|---|---|---|---|
| Host, `host.cpp` | the enclave handle, 16 workers | `RPCHandler::access` | client RPC, enclave, Redis |
| Enclave, `ecalls.cpp`, `ortoa.edl` | none between calls, but it can abort for good | `access_data` | host |
| Encryption engine, `encryption_engine.cpp` | key and IV | `encryptNonDeterministic`, `decryptNonDeterministic` and other modes | enclave, client |
| Storage, `redis.cpp` | the Redis database | `get`, `put`, `put_batch` | host, client's `initDB` |
| Client, `client.cpp`, `SharedQueue.h`, `clientUtils.cpp` | shared queue, warm-up counter, latencies | `initDB`, `runThreaded`, `writeOutput` | host |
| Python benchmark and data generation, `extras/` | experiments, jobs, output directories, the host process, results | generate data, expand flags into jobs, run the jobs in turn, parse all results | client and host binaries, Redis |

What is hard: workers read, call the enclave and write without a lock; the enclave's
output buffer is sized by the old ciphertext, and a longer result is written past its
end into the heap of the enclave that all workers share; one undecipherable value ends the
enclave for all; a connection occupies a worker while it is open; warm-up and
measuring threads share one queue and one counter; the Python benchmark drives three
kinds of processes over one database and shared directories, and an exception can leave
it anywhere between them.

What makes it correct: an answer was current at some moment of its request; a PUT
stores its value and a GET changes none; no call damages what it has no business with; every operation of the
file is performed exactly once; the client ends and has something to report; every
combination of flags is measured once, on its own data, and no host is left running.

## 2. Modules

| Module | Models | Extends / instantiates |
|---|---|---|
| `LblLabels` | operators: bit pairs, padding, labels, slots, tables, the division among tasks, decoding | |
| `LblAccess` | one key slot by slot, in any configuration of `constants.h`: entries built by pool tasks, the server's tasks over the block | `LblLabels` |
| `LblPool` | the thread pool: callers, workers, the owner | |
| `LblProxy` | threads in `handleOp`, the shared maps, RPCs in flight, the server, quits and restarts | `LblLabels` |
| `KVStore` | abstract: an atomic key-value store with refused and failed calls | |
| `LblProxyKV` | the refinement mapping from `LblProxy` to `KVStore` | `LblProxy`, `KVStore` |
| `LblProxySave` | the end of `LblProxy`'s process (save, exit among running threads) and its next start | `LblProxy` |
| `LblSession` | the CLI client, the sequential benchmark and the encryption estimate over several sessions with one data file | |
| `TeeHost` | workers of the host, the enclave, Redis | |
| `TeeEngine` | salting, cutting and lengths of the encryption engine, along repeated GETs | |
| `TeeClient` | feeder, warm-up and runner threads of the benchmarking client, and the host's workers | |
| `TeeBench` | the Python benchmark: data generation, jobs, their processes, statistics | |
| `MC...` | constants for TLC | the module after `MC` |
| `LblAccessProofs`, `LblPoolProofs`, `LblSessionProofs`, `TeeHostProofs`, `TeeEngineProofs`, `TeeClientProofs`, `TeeBenchProofs` | theorems | the module before `Proofs` |
| `LblProxyProofs` | theorems | `LblProxyKV`, `LblProxySave` |

Operators under a "Mutant:" comment are wrong versions of the definition
below them, each a plausible slip; the property listed with it in `PROJECT.json`
fails when it is put in.

### How state and actions correspond to the code

**LblLabels, LblAccess.** Cryptography is symbolic. A label is the pair of
the master key's identity and its KDF identifier; a slot is a label with its two
selector bits (`aux`); a box is a message under the label that opens it, and opens
under no other. `CreateStep`, `BuildStep` and `DecryptStep` are one turn of the inner
loop of `createEntryParallel`, `getEntryParallel`/`putEntryParallel` and
`decryptPortion` in one task; tasks interleave freely, which is what the pool allows.
`decryptPortion`'s pointers are offset by `start`, not `start * 4`, exactly as in
`server.cpp:65`; `ServerSlot` is that arithmetic. The three sizes of `constants.h` are
compile-time constants of the code and the variable `config` here, chosen at `Init` and
never changed, so that one run covers several builds.

**LblPool.** A step is what one thread does between two points where others can tell.
`push_task` is three steps: the push under the mutex (`Push`), `++tasks_total` outside it
(`Count`), `notify_one` (`NotifyOne`). A worker tests the predicate of its condition
variable (`WorkerWait`, holding the mutex), sleeps (`WorkerSleep`), takes a task
(`WorkerTake`), runs it (`RunTask`, which sets the promise whether the task returns or
throws, as `submit`'s wrapper does), and counts it off under the mutex (`WorkerFinish`).
The owner is the thread that calls the rest: `destroy_threads` is `StopThreads`,
`NotifyAll` and the joins, none under the mutex. Condition variables may wake
spuriously. `tasks_total` is a number modulo `SIZE_T`. ORTOA's own programs only create,
submit and delete; `pause`, `unpause`, `wait_for_tasks` and `reset` are in the model as the
class offers them: `reset` and the others have no caller in ORTOA. A deleted pool is not used
any more: its process ends with it.

**LblProxy.** `pc` follows `handleOp`: `check` is the unlocked `keySet.count`, `lock`
the `exchange(false)`, `construct` one of the three `construct...Entry` calls, `record`
the assignments to `valueSizes` and `keySet`, `send` and `wait` the RPC, `release` the
counter and `exchange(true)`. A block is reduced to the generation of the master key
and the value it encodes; `Carry` is the loss of the bytes past the carried prefix that
`LblAccess` derives. `creates` holds one-way creates in flight, `job[t]` the state of an
access at the server, where `db->Get` with the decryption, and `db->Put`, are separate
steps. Exceptions leave the thread in `leaked`, with its lock. Data races on the four
unsynchronized containers are nondeterministic: while one thread inserts, another that
uses the same container may end the process, or `keySet.count` may miss a key; a torn
element value is not modelled. With `PER_REQUEST_CONN` the module is the proxy, without
it the concurrent benchmark, whose `handleOp` is the same code.

**LblProxySave.** `main` is the thread that ends the process: `OpScureCleanup` writes
`keySet`, `valueSizes` and `masterKeys` in three steps, between which the threads of
`LblProxy` go on (`Meanwhile`), then `Exit` cuts them off wherever they are. The same steps
after all threads have finished are the normal end of the concurrent benchmark. An access
that the server had received becomes an `orphan`, which it still decrypts and stores, or
exits over. `Setup` is the next process. A map that grows while it is written out may end
the process (`SaveCrash`). `exposed` is a history variable: keys with an operation under
way between the first byte saved and the exit, and keys with two creates under way at
once.

**LblSession.** `file` is `OpScure.data`, `mem` the maps of the running program, and
`program` which of the three it is. The SIGINT handler runs at any moment after `Start`,
loading included, and saves what the maps hold then; the benchmark installs it only after
loading. The benchmark (`Round`) accesses any key, in `keySet` or not: a GET, then a PUT of
the empty string, of which it records `VALUE_SIZE` as the size, so that it reads back as
spaces; its loop ends at any round and `main` returns without saving
(`BenchmarkReturns`). The estimate never loads the file and never creates the pool: its
first `pool->submit` ends it (`ConstructThrows`), unless Ctrl+C comes first and saves its
empty maps. `EndOfInput` is a failing `std::cin >>` within a command: a PUT without its
value, or also without its key, is performed; from then on every command is a GET of the
empty key (`AfterInput`). `Carry` is what the server carries of a value, as in `LblProxy`: an
access keeps the first `Carried` bytes, by the arithmetic of `LblLabels`, and a longer value is
`Garbled` from then on; the benchmark's value of spaces, which is as long as a value can be, is
such a one. RPCs outlive the session that sent them, and connections of
different sessions are not ordered.

**TeeHost.** One worker per connection; `get`, `ecall`, `copy` and `put` are the steps of
`RPCHandler::access`: Redis is read, `access_data` writes its result inside the enclave
(`Ecall`), the result is copied out (`CopyBack`), Redis is written. A ciphertext is the value
inside and its length in AES blocks. `CopyOut` is the marshalling that `ortoa.edl` asks for:
only the old ciphertext's length is copied, so a longer result comes back torn (`Torn`, or
`Garbage` when it deciphers by accident). Such a result was written past a buffer of that
length, into the heap of the enclave, which all workers share: unless it ended in the padding
of the allocation, `heapSound` is lost for good, and from then on any call of any worker,
those under way included, may bring back `Anything` (another worker's result, or bytes of any
kind), abort the enclave in the middle, or never return. `suspect` is a history variable: keys
with a result that outgrew its ciphertext or was copied out of a damaged heap. A missing key's
value makes `decrypt` call `abort()`, which ends the enclave for all.
The host, the engine and the client have buffers of 4096 bytes on top of that (`host.cpp:66`,
`encryption_engine.cpp:507`, `clientUtils.cpp:96`); values whose ciphertext does not fit them are
not modelled. `BUFFER` is that size in blocks and `TeeHostAssumption` keeps every ciphertext
within it. A GET carries `DummyValue`, which nothing reads.

**TeeEngine.** Strings are sequences of characters; AES-CBC is symbolic, its length
is not. `TeeHost` takes from it that a GET keeps the length and the value.

**TeeClient.** `Feeder`, `Warmer` and `Runner` are the threads `runThreaded` starts;
`queue` is `SharedQueue`, whose methods are atomic because they hold its mutex.
`latencies.push_back` is not synchronized in the code and is two steps here.
`warmupOperations` is a `std::atomic`, so that each decrement is one step; but two threads that
meet a zero one after the other take it below zero, where `while (warmupOperations--)` no longer
stops. `open` and `access` may throw in any thread, which ends the client (`OpenThrows`,
`AccessThrows`). `Report` has both assertions: no latency (`asserted`), or latencies and a total
duration of less than a millisecond (`untimed`). `Assign` is the host's pool: a connection keeps
its worker until it is closed.

**TeeBench.** `phase` follows `benchmark` and, from `start` to `save`, one
`ClientJob.__call__`. The content of Redis and of the generated files is reduced to the
experiment it belongs to, a results file to whether `_parse_result` can read it. `Fail` is
an exception of any statement inside the `with Popen` block; `Unwind` is the wait in its
exit. `Save` may raise after it, when a file cannot be written or removed. `Stats` parses the
results of all jobs, or raises, and merges their rows: `rows[j]` is the job in whose row the
result of job `j` ended up, itself or an earlier one with the same inputs (`SameInputs`) whose
numbers happen to be equal; the merge of rows of different experiments may raise, over a column
of different types. `SeenFlags` is the set that `model_post_init` looks flags up in and never
fills, so `Refused` is always false, as in the code. Flags are the two that `make_jobs` knows. What the clients and the host do inside a job is
`TeeClient` and `TeeHost`.

## 3. Runs

| Run | Checks | Instance and why it is enough |
|---|---|---|
| `lbl_access` | the proxy's tasks fill every slot once, the server's cover a prefix of the block; exactly one box per slot opens and it is the chosen one, the block encodes the value, overlapping tasks agree, a GET reads back the carried bits | blocks of 1 to 4 bytes, 1 to 3 tasks on each side (uneven division, more tasks than bytes, overlapping server ranges), 3 operations, values that hold every bit pair, one past the carried bytes, one past `VALUE_SIZE` |
| `read_back` (violation) | a GET answers the last value put | the same instance |
| `pool` | each task once, the counter, what a return of `wait_for_tasks` means, calls, waits and joins end | 2 callers with a task each, 1 or 2 workers, 2 operations of the owner: every pair of pause, unpause, wait, reset and delete, at any moment of a push. With 2 tasks per call and one operation of the owner the same properties hold (194,913 states, too slow to keep) |
| `proxy_create` | lock exclusion and accounting, current answers and blocks, refinement of `KVStore`, every request ends | proxy mode, empty store, a key in and one outside the numbered range (its lock is inserted on use), a value that is carried, one that is not, one that does not fit; one quit and one restart: two creates of one key, overtaking and a lost create all occur |
| `proxy_save` | the saved file opens the blocks; a server that was not restarted exits by itself only over an exposed key | benchmark mode, 2 threads x 2 requests, one loaded key and one new, one save with its exit and restart at any moment; threads are symmetric |
| `overtake` (violation) | the server never exits by itself | one client, one key, two requests |
| `session` | keys survive sessions, GETs print the last value or, of one that is too long, what the server carries, the server exits only for the reasons listed, no wait is endless | 3 sessions of any of the 3 programs, 3 commands, 2 keys and the empty key, one quit and restart; blocks of 3 bytes of which the server carries 2, with a value that is carried, one that is not, the empty one and one that does not fit (1,282,279 states) |
| `tee_host` | what may damage the enclave's heap or end the enclave, which keys that can spoil, current answers, GETs keep values, requests end | 2 workers x 2 requests, a loaded and a missing key, values of one and two blocks: one worker's overflow meets every step of the other's call (936,718 states) |
| `tee_lost_update` (violation) | a GET keeps the value of its key | 2 workers |
| `tee_client` | every operation exactly once and nothing else but the empty line, exact latencies, bounded warm-up, the client ends | 2 feeders, 2 warm-up threads, 2 runners, 3 operations, 3 workers for 4 connections |
| `benchmark` | one job per number of threads, statistics over own data and a row for each job, no orphaned host, the benchmark ends | all lists of one experiment over 10 flag lists (ranges, empty, endless, a flag twice) and 5 kinds of data, lists of two with the same or another directory; Redis and the working directory fresh or used |
| `engine` | a value survives GETs, each finds what the one before found, none needs a longer buffer | all values up to 4 characters over a letter, a digit, `#` and NUL; 3 GETs |

Two threads suffice where a property is about a pair of operations on a key; two
requests per thread let an operation follow one that failed. Every bound is a constant
(`REQUESTS`, `MAX_QUITS`, `MAX_RESTARTS`, `MAX_OPS`, `SESSIONS`, `COMMANDS`, `LINES`,
`WARMUP`, `MAX_LEN`, `MAX_GETS`, `OWNER_OPS`, `MAX_THREADS`, `MAX_STOPS`; in `LblAccess` the
set `Configuration`, in `TeeBench` the set `Configs`). Symmetry (of threads) is used in
`proxy_save` only, which has no liveness property.

### What the violations show

* **read_back**: `server.cpp:65` lets tasks overlap at the front of the block and never
  reach its end. With `VALUE_SIZE` 160 and 64 tasks the first 168 of 640 slots are
  re-encrypted; bytes from 42 on read as 255 after one access.
* **overtake**: `create` is one-way on a connection of its own. A later access of the key
  may arrive first, finds no block, and the server exits.
* **tee_lost_update**: a GET writes back what it read and can undo a PUT that was
  answered in between.

### Weaknesses the passing properties describe

Some properties hold with an exception in them, which is what the code does: a PUT
longer than the stored ciphertext is torn, and may damage the heap of the enclave and with it
the calls of other workers (`suspect` in `DamageIsLocal`, `EnclaveSurvives`); two warm-up threads can count past zero, and then
warm-up takes operations without limit and the report may fail its assertion
(`WarmupBounded`); the line after the last of a seed file becomes a PUT of the empty key
(`Phantom` in `TeeClient`); racing `push_back`s lose latencies (`LatenciesExact`); an
exception in `handleOp` leaves the key locked for good (`LockAccounted`); a lock outside
the numbered range is created as taken, so a PUT of such a key is always refused.
Ctrl+C in the CLI client saves the maps as they are: during loading it replaces the data
file with empty or half-loaded ones, and between the new master key and its access it
saves a key that opens nothing (`exposed` in `KeysSurvive`), although
`ortoa-lbl/README.md:46` says it "saves what needs to be persisted". In the proxy and the
concurrent benchmark it does the same to every key some thread is working on, and the
three maps of the file may be of different moments (`exposed` in `SavedOpens`). Two
threads that create a key at once may leave the server with the block of one and the
proxy with the master key of the other (`Unordered`). The sequential benchmark never
saves the master keys it changes, so that the next session's access of such a key ends
the server; it also accesses keys nobody created (`RipExplained`). The encryption estimate
ends on a null pool, and Ctrl+C in it erases the data file. A PUT that the end of input
cuts off is performed with an empty value.

In the pool, `wait_for_tasks` may return while a task that is pushed but not counted is
queued or running: `WaitMeansDone` states exactly how many are. Deleting the pool while others push
can hang: a count that comes after the last worker's notification lets `wait_for_tasks`
sleep for good when the task was already counted off, or when the pool is paused (the
premise of `WaitEnds`); and a worker that has tested `running` and not fallen asleep when
`destroy_threads` notifies sleeps through it, and is joined for ever (`JoinEnds`, whose first
part excludes such a worker and whose second says that this is the only way to wait for ever).
Without these exceptions TLC refutes both. The handlers of the proxy and the
benchmarks delete the pool in just that situation.

An exception inside a
job of the Python benchmark waits for a host that nobody terminates, and a range that does not
advance is expanded for ever (`BenchmarkEnds` states that nothing else is endless); a
failed seeding is not noticed, so a job may be measured on an empty database, and an
experiment without jobs can replace the data of one that shares its directory
(`StatsOnOwnData`).

`Config.model_post_init` is to refuse an experiment that gives a flag twice ("Duplicate flag!
... was defined more than once!", `experiment.py:33-37`), but never adds a name to
`seen_flags`: such an experiment is accepted and combined with itself, the last value of a flag
wins in `make_jobs`, and several of its jobs measure the same thing, whose rows the statistics
may merge. The model does what the code does (`SeenFlags`); `ExpansionExact` and the last part of
`StatsOnOwnData` make their claims for experiments without a duplicate flag (`DistinctFlags`)
only, because they are false of the others, as TLC shows when that premise is dropped. The code
disagrees with its own check here. No run is kept for it, since the loop of `model_post_init`
shows it at sight.

### Fairness

`LblAccess` and `LblProxySave` state none. Weak fairness of each thread's own steps
(`ThreadStep`, `Work`, `FeederStep`, `MainStep`, `Run`, `Step`, `CallerStep`) and of the server's handlers (`ServeAccess`, some
`ServeCreate`, `Serve`, `HostStep`): threads and pool tasks are scheduled by the
operating system, TCP delivers or reports a broken connection, and none of these steps
waits for a lock that may never be free (a taken key lock aborts the request). Pool
workers and the owner have strong fairness: they wait for a mutex that others take and
give back again and again, and a mutex lets a waiting thread in eventually; but nobody
owes them a spurious wake-up (`WakeSpuriously`, `OwnerWakesSpuriously` have no fairness), so
that a lost notification would show. A worker of `TeeHost` inside the enclave is owed a step
only while the heap of the enclave is sound: on a damaged one the call need not return. Nothing
is assumed of clients, users, operators or data races: no fairness on `Request`,
`Command`, `Interrupt`, `ServerQuit`, `ServerRestart`, `RaceCrash`, `OpenThrows`, `AccessThrows`,
`Fail`, `HostDies`.

## 4. Proofs

All constants are arbitrary, under the named assumptions of their modules.

**LblAccessProofs.** First the operators: KDF identifiers of distinct labels are distinct; a
GET's table preserves the bits of a slot and a PUT's installs new ones, for every selector;
decoding inverts encoding; and, for every set of configurations, the proxy's tasks divide an
entry exactly and the server's cover a prefix of the block. The arithmetic rests on
`PartSizeBounds` (n parts of the rounded-up size reach the whole, and no part but the last
starts past it) and on `MultipleStep`. Then the behaviours: `OneBoxOpens`,
`BlockEncodesValue`, `OverlapAgrees` and `CarriedReadBack`, for every configuration, value and
number of operations. Their inductive invariant says what every slot holds at every moment of
an operation: which table the pool's tasks have filled so far, that it leads from the stored
slot to the one the operation is to leave there, and which slots of the answer are computed.
Two consequences that no run states: the server never prints RIP for a single client
(`NeverRip`), and with one server task a GET answers the last value put
(`OneServerTaskReadsBack`), so the violation of `read_back` is due to the division among
tasks and to nothing else.

**LblProxyProofs.** Types; `LockExclusion` and `LockAccounted`; `AnswersAreCurrent` and
`BlockIsCurrent`, for any number of threads, keys, values, requests, quits and restarts,
and in both connection modes. The proof is built in stages, each inductive relative to the
ones before. `TypeInv` adds to `TypeOK` that a busy thread has a request. `LockStage` is
lock ownership: a thread past the exchange finds the lock `held`, and no other does.
`DataStage` is the rest of `IndInv`: master keys are fresh (`FreshInv`), known keys have a
value of the recorded size (`KeyInv`), the entry under way leads from an older key to the
current one and the old blocks and creates it can meet encode what a GET must return
(`RekeyInv`), creates under the current key carry the current value (`CreateInv`), and the
server works only for waiting threads (`JobInv`). `RekeyInv` is what makes
`AnswersAreCurrent` inductive: it has to speak about blocks and creates of the *old*
master key, because those are what an access transforms. `ProxyImplementsKV` is the
refinement of `KVStore`, the property `ImplementsKV`: every step of `Next` is, under the
mapping of `LblProxyKV`, a step of the abstract store or leaves it alone. A PUT takes
effect at `Construct` (until its release only the holder of the lock can tell), a GET at
`Receive`; a request is refused at `Check` or `TryLock` and fails where an exception leaves
`handleOp`; a race that ends the process fails every call. `DataStage` supplies what the
abstract answer must be.

The last stage is `LblProxySave`: `SavedOpens` and `RipOnlyExposed`, for any number of ends
and starts of the process. `DataStage` does not hold there, because a process may load an
old master key; so the invariant `SaveInv` speaks of one key at a time, not `exposed`, of a
server that was never quit. `KeyOK` says that the server's block, or the only create of the
key that is under way, has the master key of the maps, or the old one of the access that
is changing it. `SavingInv` says that keys somebody works on during a save are exposed and
that the file agrees with the maps on the others, map by map as it is written; from both
follows `FileInv` at the exit, which is `SavedOpens` and what the next process needs for
`KeyOK`. `AccessInv` follows accesses the server works on after their process has crashed,
which is what `RipOnlyExposed` needs. The proof showed that this property needs its premise
`restarts = 0`: a server that is quit loses creates, and after its restart exits over
their keys.

Stage 6 delimits the finding of `overtake`. `OrderlyServerSurvives` proves `ServerSurvives`,
the property that run refutes, when every key was loaded, for any number of threads and
requests, and when a single thread uses one connection for all its requests, whatever was
loaded. The invariant (`OrderlyInv`) says for each key that the server's block has the master
key of the maps or the old one of the access that is changing it, or else that the one create
of the key precedes, on the same connection, every access to it. The violation therefore takes
a create, and two connections.

**LblSessionProofs.** `KeysSurvive`, `PrintsCurrent` and `RipExplained`, for any number of
sessions, commands, keys and values, and any server exits and restarts. The invariant follows
the master key of every key that is not `exposed` through its three homes: the data file
between sessions, the maps of the running program (partly loaded, or about to be saved),
and the block or the one-way create that carries it; and it follows the messages a session
leaves behind, which a later one must not meet on a key it trusts. Values are followed up to
what the server carries of them: a block holds the value last put until an access has gone over
it, and `Carry` of it afterwards (`Holds`); that `Carry` of a carried value changes nothing more
is what keeps this inductive.

**LblPoolProofs.** Types; `OnceEach`, `TotalAccounted` and `WaitMeansDone`, for any number of
callers, parts, workers and operations of the owner, and any `SIZE_T` larger than the
number of tasks and workers. `TypeInv` adds to `TypeOK` that a caller which submits has tasks
left and that a busy worker holds one. `PlaceInv` is the inductive form of `OnceEach`: no task
has a place before it was sent, so that the next one pushed is new, and the task of a
worker that has just run it is done.
`TotalAccounted` is inductive with `TypeInv`; its proof counts finite sets and needs the
arithmetic of `%` across a step of one (`ModIncrement`, `ModDecrement`), because the counter
really wraps. `WaitMeansDone` combines the two: both sides of the predicate are numbers below
`SIZE_T` (`QueueBounded`), so that what holds modulo `SIZE_T` holds of the numbers.
Three more theorems are the safety halves of the liveness properties, with the invariant
`WatchInv`. `QueueWatched`, for `CallsEnd`: a queued task of a running pool has a worker that
is awake or a notification on its way. `OwnerWoken`, for `WaitEnds`: the step that makes the
predicate of `wait_for_tasks` true wakes the owner that sleeps on it, unless it is a push or a
count of `push_task`, which notify nobody there. `JoinersAwake`, for `JoinEnds`: from the
`notify_all` of `destroy_threads` to the last join no worker sleeps, unless one was between its
test of the queue and its sleep. That fair steps then reach the goal is left to TLC.

**TeeHostProofs.** Types; the reach of an overflow; current answers; what may damage the
enclave's heap or end the enclave; GETs that keep values; the frozen database. The invariant is
`SoundInv` (keys that are not suspect hold proper ciphertexts, and so do the workers' copies of
them, those still inside the enclave as long as its heap is sound) with `SeenInv` (what a worker
has read, and what is stored now, were there during its request). `DamageIsLocal` is not about a
damaged heap that spares others: on it every call may go wrong. It says that the harm reaches
Redis only through the key of such a call.
Two theorems say when nothing goes wrong. With every key loaded and ciphertexts of one length
(`Uniform`: what a generator of a single value size writes) the enclave never aborts, its heap is
never damaged and every key holds a proper ciphertext, for any number of clients (`UniformHostIntact`); with one client
besides, `GetKeepsValue` holds (`LoneClientKeeps`), so that the lost update of
`tee_lost_update` takes a second client.

**TeeEngineProofs.** Decryption inverts encryption for every value without a NUL, and
never lengthens any value; from this `EngineInv`, the relation of the stored text to
the value put, the three properties of `engine` and that the ciphertext keeps its length.

**TeeClientProofs.** `ExactlyOnce`, `LatenciesExact` and `WarmupBounded`, for any number of
feeders, warm-up threads, runners, lines and workers. `ExactlyOnce` and `WarmupBounded` assume
at least one client, as `--nthreads` gives: with none, nobody feeds or empties the queue. The
invariant places every operation read from the source in exactly one of the queue, the hands
of one thread and the past (`PlaceInv`), with who runs when (`FeedInv`, `JoinInv`: the threads
start on an exhausted source, and a runner returns on an empty queue). `PushInv` follows the
size a `push_back` has read; `WarmupInv` counts the operations that are not a runner's down
from `WARMUP`, as long as no second thread has met the zero.

**TeeBenchProofs.** `NoOrphanHost`, `ExpansionExact` and `StatsOnOwnData`, for every list of
experiments that `ConfigsAssumption` admits: any number of experiments, flags and values, with
ranges that are empty, endless or given twice (of which the last is not promised a job per number
of threads, see above). For `StatsOnOwnData` the invariant says which
directories exist and whose data each holds, and what Redis holds at each step of a job;
`ExpansionExact` supplies that an experiment's jobs have directories of its own.
`ExpansionExact` is about recursion over data. The induction theorems of the library take a
predicate as parameter, which the installed provers do not instantiate; the proof gets its
inductions from sets instead: every non-empty set of naturals has a least element (`LeastNat`,
from the well-foundedness of `<`), hence `SetInduction`, hence `Recursion`, that a step
function and a first value define a function on the naturals. A recursive definition in TLA+ is
a CHOOSE, so that its equation has to be shown to have a solution before anything follows
from it (`FlattenDef`, `CombineDef`, `GenerateValuesDef`, `PowerDef`). On these rest
`FlattenFacts`, `CombineFacts` (backtrack returns every choice of one element per list, and none
twice) and `RangeExact` (the two loops return the values the range stands for, each once), and
on those `CombosExact` for the flags of one experiment and `AllJobsFacts` for the whole list.
The proof found an error in an earlier form of the model: `GenerateValues` recursed over
all integers, where a range that multiplies has no solution at 0, so that the function was
unspecified although TLC computed it; it now recurses from `minimum` upwards.

**Only model-checked.** Liveness (`RequestsEnd`, `CallsEnd`, `WaitEnds`, `JoinEnds`,
`ClientEnds`, `BenchmarkEnds`): out of the prover's reach, but for the safety halves of the
pool's three. Every other property of the passing runs is proved. The theorems on types,
`FrozenAfterAbort`, `LengthKept`, `NeverRip`, `OneServerTaskReadsBack`, `RangeExact`,
`CombineFacts`, `OrderlyServerSurvives`, `UniformHostIntact`, `LoneClientKeeps` and the pool's
wake-ups are the other way round: proved, and not part of a run.

## 5. Not modelled

The pool's loop helpers (`blocks`, `multi_future`, `parallelize_loop`, `push_loop`), its
`synced_stream` and `timer`, which have no caller; timing and latency statistics of all
programs; argument parsing, the text of generated rows, graphs and shell scripts; values whose
ciphertext is longer than the 4096-byte buffers of the TEE code; ranges of
thread counts that multiply a negative minimum or by a negative factor. The
HMAC, signature and PRF modes of the encryption engine have no caller. ORTOA-FHE has no
source here. Undefined behaviour past its first effect is not followed: a torn element of
a map, a thread that uses the pool after it was deleted (the process is about to exit and
the file is written), and the estimate's null pool, which is taken to end the process.

## 6. Plan

In order; all are done.

1. `LblLabels`, `LblAccess`: the label algorithm and its division among tasks.
2. `LblProxy`, `KVStore`, `LblProxyKV`: the concurrent system and what it implements.
3. `LblSession`: sessions of the three single-connection programs and the data file.
4. `TeeHost`, `TeeEngine`, `TeeClient`: the enclave-based system.
5. `LblAccessProofs`, `LblProxyProofs`, `TeeHostProofs`, `TeeEngineProofs`.
6. `TeeBench`: flag combinations against a reference definition, the runner's order of
   processes and what an exception leaves running.
7. `LblProxySave`: save while threads are in `handleOp`, exit and reload.
8. `LblPool` and `LblPoolProofs`: the thread pool's promises, from its source.
9. Proofs: the step simulation behind `ImplementsKV`; the behaviours of `LblAccess`;
   `LblSessionProofs`, `TeeClientProofs`, `TeeBenchProofs`.
10. Proofs: `SavedOpens` and `RipOnlyExposed` of `LblProxySave`; `ExpansionExact` of
   `TeeBench`, by induction over sets of numbers; the conditions under which the violated
   properties of `overtake` and `tee_lost_update` hold; the pool's wake-ups.
