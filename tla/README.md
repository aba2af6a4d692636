# Verification of the MU-SQL shared core

TLA+ models, TLC runs and TLAPS proofs for the code in `src/` of this
repository. Paths below are relative to the repository root; `Database/` stands
for `src/shared/Database/Database/`, `Updater/` for `src/shared/Database/Updater/`,
`Threading/` for `src/shared/Threading/`.

Contents: [inventory](#1-inventory), [modules](#2-modules-and-the-code),
[runs](#3-runs), [disagreements](#4-where-the-code-and-its-comments-disagree),
[proofs](#5-proofs), [limits](#6-what-is-not-modelled), [plan](#7-plan).

## 1. Inventory

The repository holds three servers (connect, game, data), the library `shared`
they are meant to run on, and the template library `framework`. CMake builds
`shared`, `framework` and `connectserver`; the game server is off by default and
the data server is never built. `dep/` and `contrib/` are third-party.

| Component | State | Operations | Hard behaviour | What makes it correct |
|---|---|---|---|---|
| Producer/consumer queue (`Threading/ProducerConsumerQueue.h`) | `_queue`, `_shutdown`, sleepers of `_condition` | `Push`, `Pop`, `WaitAndPop`, `Cancel` | one notify per push, barging consumers, spurious wake-ups, cancel against sleepers | no lost wake-up, FIFO, nothing lost, nobody asleep after a cancel |
| MPSC queue (`Threading/MPSCQueue.h`) | linked list, `_head`, `_tail` | `Enqueue`, `Dequeue` | a producer stopped between exchange and link; node deletion | FIFO, no use after free, progress |
| Worker pool (`Database/DatabaseWorkerPool.*`, `DatabaseWorker.*`) | connections, shared queue, tokens, mutex per synchronous connection | `Open`, `Execute`, `AsyncQuery`, `CommitTransaction`, `Query`, `KeepAlive`, `Close` | workers against shutdown, failing start, raw pointers across threads, promises | one owner per object, truthful futures, bounded overtaking, shutdown ends |
| Connection and transactions (`Database/MySQLConnection.*`, `Transaction.*`) | MySQL handle, session, `_deadlockLock` | `Execute`, `ExecuteTransaction`, `_HandleMySQLErrno`, both retry loops | deadlocks, lost connections, lost answers, retry after rollback | all or nothing, the result tells the truth, no session left in a transaction |
| Query callbacks (`Database/QueryCallback*.cpp`) | `_callbacks`, the futures of the chains | `AddQuery`, `SetNextQuery`, `ProcessReadyQueries` | re-entrant additions, broken promises thrown through the loop | each callback once, in order, with its answer; no chain lost |
| SQL tasks (`AdhocStatement`, `QueryHolder`, `PreparedStatementTask`) | statement, promise | `Execute`, destructor | deleted without having run | the promise is satisfied or broken |
| Statements, fields, results | bound parameters, rows | `Bind`, `Get...`, `NextRow` | integer widths, row cursor | values survive the conversion |
| Updater (`Updater/UpdateFetcher.*`, `DBUpdater.*`) | table `updates`, the SQL files; per run: files found, rows read, hash to name | `Update`, `Apply`, `UpdateEntry`, `RenameEntry`, `UpdateState`, `CleanUp` | a crash or a failure between two statements, failures nobody hears of, files that change during the run | rows tell the truth, nothing is skipped or run twice, restarting converges |
| Loader (`DatabaseLoader`) | queues of open, populate, update, prepare; close stack | `AddDatabase`, `Load` | failure between stages | what was opened is closed |
| Other threading (`LockedQueue`, `DelayExecutor`, `Threading`) | deque and lock; thread pool | `add`, `next`, `execute`, `deactivate` | unused in the default build | as for the queues |
| Event processor, references (`framework/Utilities`) | timed events, abort flag; intrusive lists | `Update`, `AddEvent`, `KillAllEvents`; `link`, `unlink` | events that add or kill events | each event executed or aborted once |
| Sockets (`SocketBuffer/BufferedSocket`; a variant in connectserver's `CIOCP`) | output queue and its byte count, wake-up mask, input buffer | `send`, `handle_output`, `handle_input`, `recv`, `close_connection` | partial writes, a full queue or buffer, the end of the peer against queued data | bytes once and in order in both directions, no lost wake-up, bounded queue |
| Connect server | user slots, server list | accept, receive, send, close | completions against close | a slot belongs to one connection |
| Game and data servers | players, parties, trades, guilds | protocol handlers | long legal call sequences | membership is mutual |
| Logging, configuration, crypto, services | files, wrappers | | | I/O and pure wrappers |

How they interact. A client thread calls the pool. One-way calls and
asynchronous queries put a raw `SQLOperation*` on the one
`ProducerConsumerQueue` that all workers of the pool share; a worker pops it,
gives it its connection and runs it; its result travels back through a
`std::future`, which a `QueryCallback` chain holds and
`QueryCallbackProcessor::ProcessReadyQueries` polls. Synchronous calls borrow a
connection with `try_lock`. Transactions of either kind go through
`MySQLConnection::ExecuteTransaction`, and their retries meet in the static
mutex `TransactionTask::_deadlockLock`. Closing the pool destroys the
connections, and each destructor sets its worker's token, cancels the *shared*
queue and joins the worker.

`DBUpdater::Update` is written to run `UpdateFetcher` on one connection of a
pool, before the pool has other users. Nothing in this repository calls it: the
loader that did has its include commented out (`Database/DatabaseLoader.cpp:5`).
It is modelled as it is meant to be called. A `BufferedSocket` shares no state with the database code:
one reactor thread calls its handlers, and its owner reads in `OnRead` and sends
from the same thread.

Every place where this can go wrong and a test would hardly reach is listed, at
its line, under `hazards` in `PROJECT.json`, with the properties aimed at it.

## 2. Modules and the code

| Module | Models | State and grain |
|---|---|---|
| `FifoQueue` | what the queue classes promise | abstract: accepted, handed out |
| `ProducerConsumerQueue` | `Threading/ProducerConsumerQueue.h` | a method under the lock is one action; `WaitAndPop` is split at the wait into `Enter` and `Resume`; the condition variable is the two sets `waiting` and `woken` |
| `ProducerConsumerQueueProofs` | proofs about it | |
| `MPSCQueue` | `Threading/MPSCQueue.h` | one action per atomic access; addresses of deleted nodes are allocated again |
| `MPSCQueueProofs` | proofs about it | |
| `DatabaseWorkerPool` | `Database/DatabaseWorkerPool.cpp`, `DatabaseWorker.cpp`, the destructor of `MySQLConnection`, promises of the tasks | contains `ProducerConsumerQueue` by INSTANCE, so every step of the pool on the queue is a step of that module; a program counter for each worker, each client, the main thread and the destructor that is running |
| `DatabaseWorkerPoolProofs` | proofs about it | |
| `AtomicTransactions` | what a caller of the transaction functions may rely on | abstract: the committed statements of each job, results |
| `MySQLConnection` | `Database/MySQLConnection.cpp`, `Transaction.cpp`, `DirectCommitTransaction` | a record per connection and its thread; one action per command sent to the server and per outcome |
| `MySQLConnectionProofs` | proofs about it | |
| `QueryCallbackProcessor` | `Database/QueryCallback.cpp`, `QueryCallbackProcessor.cpp` | one action per chain the pass looks at, so that workers answer in between |
| `QueryCallbackProcessorProofs` | proofs about it | |
| `UpdateFetcher` | `Updater/UpdateFetcher.cpp`, `Update`, `Apply`, `ApplyFile`, `Retrieve` of `Updater/DBUpdater.cpp` | files and rows are sets of records; one action per statement sent, per file given to the mysql program, and per choice of a mode; a crash, an edit or a failing statement fits between any two |
| `UpdateFetcherProofs` | proofs about it | |
| `BufferedSocket` | `SocketBuffer/BufferedSocket.cpp` | one action per call of a handler or of the owner; bytes are numbers, a message is the stretch of numbers it covers, so order, loss and doubling are visible without contents |
| `BufferedSocketProofs` | proofs about it | |
| `DistinctValues` | sequences without repeated values: lemmas for the proofs about the pool and the callbacks | |
| `MC...` | constants and symmetry for TLC | |

Six invariants gather what belongs together: `OwnershipInv` (pool), `SessionInv`
(connection), `ListInv` (MPSC queue), `ChainInv` (callbacks), `RunInv` (updater)
and `QueueInv` (socket) are the type invariant of the module together with the
named conjuncts above them.

Variables keep the names of the members they stand for without the leading
underscore. Variables marked *history* (`pushed`, `popped`, `dropped`,
`executed`, `result`, `cut`, `commitRefused`, `called`, ...) exist for the properties alone: no
guard that models code reads them, except to bound a run or to give each job
once.

What is external. The MySQL server appears in `MySQLConnection` as the three
operators `TableAfter`, `OpenAfter`, `PendingAfter` and the action
`RollBack`, over what is committed and pending of each job, as the numbers of its
statements in the order in which they were carried out: sessions in autocommit or inside a transaction, START TRANSACTION
committing an open one, a lost session rolled back, a deadlock rolling the whole
transaction back. A lost connection may have carried the command out or not.
On a connection that is not lost any command may be refused. Assumed of the
server: a COMMIT that it refuses, for whatever reason (a conflict in a cluster,
`ER_ERROR_DURING_COMMIT`, a server that has become read-only), ends the
transaction and rolls it back; so does every ROLLBACK that reaches it, whatever
it answers; a refused START TRANSACTION or statement has no effect. Errors that
the client library makes up without a lost connection (out of memory, commands
out of sync) are not modelled.
`mysql_errno` of a null handle is any error or none, as the client library
returns the error of an earlier call there. In `UpdateFetcher` the SQL files and
whoever edits them, the mysql program, which executes a file to its end or fails,
and the table `updates` with its primary key are external; in `BufferedSocket`
the ACE message queue (high water mark on the byte count, which goes by the full
size of a block), the reactor and the kernel, which takes any part of a write.
`recv_skip` is public and checks nothing; it is modelled as `recv` uses it, and
nothing else in the repository calls it.

Abstractions to know about.

* An operation that runs in the pool is one step that satisfies its promise:
  both branches of `BasicStatementTask`, `PreparedStatementTask` and
  `SQLQueryHolderTask` (with a holder) do. What it does to the database is the
  subject of `MySQLConnection`.
* `Close` is called, as the comment in it demands, when no client is inside a
  call. After an `Open` that failed the program ends and the pool is destroyed.
* The round-robin counter of `GetFreeConnection` is kept modulo the number of
  connections; it is a `uint8`, whose wrap-around only changes the order of the
  probes.
* The acquire and release accesses of `MPSCQueue` are taken as sequentially
  consistent: the only data read through a link is written before the release
  store of that link.
* A file of the updater that fails in the mysql program leaves nothing behind in
  the model; what a half-executed SQL file does to the game tables is not the
  subject, only whether it is recorded.
* `GetFileList` and the reading of the table are one step: both happen before
  anything is changed. The unordered map that finds the name of a hash may keep
  any of several names, so the choice is free.
* Query-callback chains keep their kind (string or prepared); mixing them is
  undefined behaviour that the code's disabled assertions used to catch.

In every module operators headed by a comment that starts with `Mutant` are
plausible wrong versions of the definition that follows them. They are used
nowhere in a specification; `PROJECT.json` pairs each with the property that
must fail when it takes the place of the right one.

## 3. Runs

Passing runs finish without an error; deadlock is checked except where noted.

| Run | .cfg | Shows | Bounds and why they are enough |
|---|---|---|---|
| `queue` | `MCProducerConsumerQueue` | no lost wake-up, nobody asleep after a cancel, every value accounted for in order, refinement of `FifoQueue`; a pushed value reaches a consumer unless the queue is cancelled, and a cancel releases whoever waits | 4 values, 3 consumers: two sleepers and a barging consumer with two values queued. Deadlock off: when all values are pushed everybody may sleep |
| `pool_async` | `MCDatabaseWorkerPoolAsync` | one owner per operation object, truthful futures, overtaking below the number of workers, nothing running after close | 2 workers, 2 clients, 2 one-way and 2 result operations: both workers busy, one operation queued, one being created; every failure of `Open` |
| `pool_live` | `MCDatabaseWorkerPoolLive` | one user per connection, with queries against `KeepAlive`; calls return, asynchronous queries are answered unless the pool is closed, closing ends | 2 workers, 2 synchronous connections, 2 clients, one operation of each kind, one synchronous call: a query and the timer compete for both connections |
| `transaction_deadlock` | `MCMySQLConnectionDeadlock` | refinement of `AtomicTransactions`, with deadlocks, errors and refused COMMITs but no lost connection and no refused START TRANSACTION; every started job returns or the process aborts | 2 asynchronous and 1 synchronous connection, 2 transactions of 2 statements (the fewest that can be torn) and an empty one: two sessions deadlock whatever pair of callers runs them; `loopBreaker` is the code's 5, the minute of asynchronous retries fits 2 attempts |
| `transaction_faults` | `MCMySQLConnectionFaults` | atomicity unless the own connection is cut, truthful results unless it is or the COMMIT is refused, statements at least once, no session left in a transaction, one retrier | one loss at any command, or one refused START TRANSACTION, on one of three connections, any refused COMMITs, the code's 5 reconnection attempts, errors and deadlocks, 2 transactions and a plain statement |
| `mpsc` | `MCMPSCQueue` | linked but for stopped producers, no use after free, the destructor frees everything, refinement of `FifoQueue`, every value dequeued | 3 values over 3 addresses and 2 producers: at most two values fit at once, so an address is used again while another producer is stopped inside `Enqueue`. Deadlock off: values run out |
| `callbacks` | `MCQueryCallbackProcessor` | no chain lost or doubled, each callback its answer, an exception spares new chains; answered chains are called | 3 chains of 2, 2 and 1 callbacks: kept, aborted, and added from within a callback in one pass. Deadlock off: chains run out |
| `updater` | `MCUpdateFetcher` | no row lies, nothing new is passed over or skipped silently, nothing recorded runs again; from any wreck, restarting converges | 3 names and 2 contents: a rename, a copy and a change can meet; 2 edits and 1 fault at any point; base databases with a row that awaits its hash and an archived one; redundancy checks on and off |
| `socket` | `MCBufferedSocket` | both streams in order, a wake-up while data is queued, the queue bounded, the limit closing only behind longer messages; what send accepted reaches the wire or the connection ends | mark of 3 bytes, messages of 2 and 3, 9 bytes out and 4 in, a buffer of 2: three messages queue up, each goes out in any pieces, the buffer fills and is moved. Deadlock off: bytes run out |
| `updater_twins`, `transaction_partial`, `transaction_lost_commit` | | see section 4 | the smallest instance that shows it |

`transaction_deadlock` and `transaction_faults` share a module but ask different
questions: the refinement holds only while no connection is cut, that is, lost
or without a transaction because START TRANSACTION was refused on it and nobody
looked (`MySQLConnection.cpp:356-359`). What becomes of a job that is cut is the
subject of section 4. A refused COMMIT leaves a transaction atomic, but it is
reported as done: `AtomicTransactions` has a step for it, `Refuse`, after which
nothing of the job is ever committed and the report says `ok`. So what is
checked is that the report is wrong there and nowhere else; that it is wrong is
`transaction_lost_commit`. `MaxLosses` bounds lost connections and refused START
TRANSACTIONs together; COMMITs may be refused any number of times.

Fairness. Liveness assumes that threads run (weak fairness of each worker, of a
client that is inside a call, of the main thread while it opens or closes), that
the server answers or the connection is lost, and, for the callbacks, that the
owning thread keeps calling `ProcessReadyQueries`; for the updater, that a run
that has begun goes on and that the server is started again (`Converges` speaks
of a server that is restarted until it is up; edits and faults are bounded, so
that at last nothing disturbs it); for the socket, that the reactor calls the
handlers of a socket that is ready, and that a peer that has not gone makes room.
No fairness makes anybody
call the pool, close it, or answer a query of a chain; spurious wake-ups have
none. A mutex handed to one of several waiting threads is modelled without
fairness among them: `EveryJobReturns` holds because jobs are finitely many.
The same is true of the synchronous connections: with clients that call for ever
`GetFreeConnection`, a loop over `try_lock`, promises nobody a turn.

## 4. Where the code and its comments disagree

Each is a run that TLC ends with a counterexample.

* **`transaction_partial`** (`NoPartialTransaction`). `Execute` sends a failed
  command again after a reconnection (`MySQLConnection.cpp:184-185`, `231-232`)
  even in the middle of `ExecuteTransaction`. The new session is in autocommit,
  the beginning of the transaction has been rolled back, its rest is committed
  statement by statement. `DatabaseWorkerPool.h:169` promises a rollback.
* **`transaction_lost_commit`** (`DoneMeansCommitted`). `CommitTransaction`
  drops the result of COMMIT (`MySQLConnection.cpp:366-369`), and
  `ExecuteTransaction` returns 0 after it (418-419): a transaction whose COMMIT
  the server refused is reported as done, so it is never tried again, against
  the purpose stated at 413-414. The trace loses no connection: START
  TRANSACTION and both statements are accepted, COMMIT is refused, the job is
  done and the table empty. There are two more ways to the same end, which the
  run shows when it is given `Faults = {}` and `MaxLosses = 1`: a COMMIT lost
  with its connection is sent again on a session that has nothing to commit; and
  after a refused reconnection `GetLastError` asks a null handle, whose error
  may be 0.
* **`updater_twins`** (`RenameMovesARow`). Of two new files with the content of
  one that is gone, the first takes over its row; the second finds the same name
  in `hashToName`, which is not updated, is "safe to treat as renamed"
  (`UpdateFetcher.cpp:250`) as well, and moves a row that is no longer there. It
  ends the run without a row (`EveryFileRecorded` admits exactly this case), and
  the next run finds the first copy's row by its hash and applies the file.

Known and left out of the list of disagreements: a worker that pops between the
token and the cancel of its own destructor returns with the operation
(`DatabaseWorker.cpp:33-34`), which nobody deletes; `ClosedLeavesNothingRunning`
states what is left of a closed pool: nothing but such an operation.

Not counted as a disagreement: `Close` deletes operations that are still queued,
although `DatabaseWorkerPool.h:69` says of a one-way call that it will be
executed. `FutureTellsTruth` says what becomes of their futures (broken, so that
`get` throws), `ClosedLeavesNothingRunning` that none is left.

## 5. Proofs

`ProducerConsumerQueueProofs` proves about `ProducerConsumerQueue`, for every
set of values and every finite set of consumers (`ConsumerAssumption`, the only
assumption used): `TypeCorrect`, `WakeupsSuffice`, `CancelWakesAll`,
`Conservation`, `FinalShutdown`, and that it implements `FifoQueue`
(`ImplementsFifo`).

All rest on one inductive invariant, `IInv`. `NoLostWakeup` says that while
somebody sleeps there are at least as many woken threads as queued values. It is
not inductive alone: a notify increases the number of woken threads only if the
sleeper was not already woken (`NotifiedIsAwake`), and a woken thread leaves
with nothing only after a shutdown, when nobody sleeps
(`NobodySleepsAfterCancel`). `AccountedInOrder` needs that nothing is popped
after a cancel has deleted values (`DroppedMeansShutdown`). Each action
preserves `IInv` by a lemma of its own; `WokenCount`, `MoveHead` and
`AppendToLast` are the facts on cardinalities and sequences they share. The
refinement maps `Push` to `Put`, `PopFront` to `Take`, `Cancel` to `Discard`,
and everything else to a stutter.

`BufferedSocketProofs` proves about `BufferedSocket`, for every high water mark
and capacity above zero, every set of positive message lengths and every bound
(`SizeAssumption`, `LengthAssumption`, `BoundAssumption`): `QueueHolds`,
`OutputIsInOrder`, `InputIsInOrder` and `LimitNeedsUnequal`. The inductive
invariant `IInv` adds to the checked ones that the byte count is the sum of the
queued blocks (`CountIsSum`, with the partial sums as a witness: TLC cannot
evaluate it, it is there because the count would otherwise go below zero), that
every block has something left to send (`BlocksNotEmpty`, without which a block
that is out could not be told from one that goes back), and that the last block
was accepted while the others left room (`TailFits`, from which
`LimitNeedsUnequal` follows: the queue is full without its head and was not full
without its tail). Each action has a lemma of its own; for the input the lemmas
`SubSeqSplit`, `SubSeqOfJoined` and `Rejoin` carry the order of the bytes
through appends, reads and crunches.

`UpdateFetcherProofs` proves about `UpdateFetcher`, for all names, contents,
base databases, settings and bounds: `RunHolds`, `RecordsAreTrue`,
`RecordedRunsOnce`, `FilesAreRecorded` and `OnlyTwinsTakeRows`. Its `IInv`
follows a file through a run: what the table says of files still to come has
been read (`TableIsRead`, kept by a rename because rows move only from names
without a file, `MovesFromDead`); a file about to be applied is not recorded
with its content (`ApplyIsNew`) and still has the content that was looked at or
that was replaced (`ApplyIsSeen`); what is about to be recorded has run, was
replaced or is a rehash (`EntryIsRight`); an owed file has no row and no
namesake by content (`OwedIsNew`). `FirstOfRest` is the fact that the loop takes
the files in the order of their names, from the well-ordering of the naturals.
`FilesAreRecorded` has a second invariant, `RInv`, of runs in which no statement
fails and no file changes: what was found and read and is not settled is still
there (`FilesStay`, `RowsStay`), what is known of the row of the file in hand
(`HandIsKnown`), and that every file behind the run has its row or a twin
(`PassedIsRecorded`). The twins are what makes it more than bookkeeping: a
rename may find the row gone, and then a file behind the run has the same
content and has taken it (`TakenByATwin`, which needs that two contents never
stand for the same row, `OneNameEach`). `OnlyTwinsTakeRows` says so of the
disagreement `updater_twins` shows: nothing but a twin can cause it in such a
run.

`MPSCQueueProofs` proves about `MPSCQueue`, for any values, addresses and
producers (`NullAssumption`): `ListHoldsTogether`, `NodesOutliveTheirUse`,
`NothingLeaks`, and that it implements `FifoQueue` (`ImplementsFifo`). `ListInv`
is not inductive: the list has to have no node twice, with `_tail` and `_head`
at its ends (`Shape`), and two producers never to link behind the same node
(`Linkers`). Deletion is safe because a node the consumer may leave has its link
already (`ConsumerKnows`), so no producer will write to it; nothing leaks
because the allocated nodes are those of the list and the one being deleted
(`Memory`). The refinement maps the exchange to `Put` and the step of `_tail` to
`Take`; that the value taken is the oldest follows from `Carries` and `Shape`.

`DatabaseWorkerPoolProofs` proves about `DatabaseWorkerPool`, for any
operations, clients and numbers of connections (`ThreadsAssumption`,
`KindsAssumption`): `Ownership`, `FuturesTellTheTruth`, `OneUser`,
`FewOvertake`, `CloseIsComplete`, `UsesTheQueue`, `QueueServesThePool` and
`JoinedIsAwake`. Five invariants build on each other. `MainInv`: while the pool
is opened, workers of connections to come have not started, so that starting one
disturbs nobody. `ClientInv`: what a client holds is what its call works on, and
the mutex of a connection is held by the client that uses it. `WorkInv`: the
client between `new` and `Enqueue` (`ClientsOwn`), the queue (`QueueOwns`) and
the worker between `Pop` and `delete` (`WorkersOwn`) own disjoint objects; what
lives has one of them as owner (`LiveIsOwned`); and promises follow from what
ran and what was deleted (`PromisesFollow`). The queue contributes that a
notified thread does not sleep. `OrderInv`: what was popped and has not run is
in a worker's hands, and the worker that ran an operation holds nothing popped
before it, so the holders of what it overtook are other workers. `CloseInv`:
every thread that runs belongs to a connection that is open or will be destroyed
(`DoomInv`), nobody enqueues once the pool is closing and the first destructor
empties the queue (`QueueEmpties`), and a worker leaves with an operation only
when its token is set (`WorkersLeave`). The module ends with the composition:
every step of the pool is a step of the queue's own specification or leaves the
queue alone (`UsesTheQueue`), because what is pushed has just been created and
is never pushed again (`PushedOnce`). So the theorems of
`ProducerConsumerQueueProofs`, instantiated with operations as values and
workers as consumers, hold of the queue of any pool (`QueueServesThePool`). From
them follows the safety part of `CloseReturns`: while a destructor is in `join`,
no worker sleeps (`JoinedIsAwake`).

`MySQLConnectionProofs` proves about `MySQLConnection`, for any connections,
jobs, faults and bounds (`JobsAssumption`, `BoundsAssumption`): `SessionHolds`,
that is `NoTransactionLeftOpen` and `OneRetrier`; what becomes of the statements
of a job (`TransactionsAreAtomic`, `ResultsTellTruth`,
`PlainStatementsReported`); and that it implements `AtomicTransactions` as long
as no job's connection is cut (`ImplementsAtomicTransactions`, whose hypothesis
`[]Uncut` section 4 shows to be necessary). They hold under the assumptions on
the server stated in section 2, with any command refused at any time. A session is outside a transaction when a call
returns because every path to the return closes it, so the invariant says so of
every state in which no transaction can be open (`Outside`): between calls,
without a handle, for a statement of its own and before START TRANSACTION has
been carried out. `Sensible` says that what is sent belongs to a job with
statements.

Atomicity rests on `JInv`, which says of each connection how far its job has
come: `Stage` relates the command that was sent to what the open transaction and
the table hold of the job (nothing before the first statement, the first k
statements before the next, the whole job before COMMIT, nothing after a refused
COMMIT), as long as the connection was not cut during the job; a job that nobody
works on is in the table whole or not at all unless it was cut, and told what
became of it unless its COMMIT was refused (`Told`). `JobStep` shows that a step on one connection disturbs no job of
another; each way a step can end (an answer, a retry, a failure, a return, a
loss, a reconnection, a refused COMMIT) is a lemma of its own. The refinement
maps the step in which the table takes the job to `Commit`, the refused COMMIT
to `Refuse` and the return to the report.

`QueryCallbackProcessorProofs` proves about `QueryCallbackProcessor`, for any
chains of any length (`LengthAssumption`): `ChainsHold`, `ThrowsSpareNewChains`
and `CallbacksGetTheirAnswers`. `NoChainLost` counts the places of a chain; its
`IInv` says instead that the three vectors hold nothing twice and nothing in
common (`Apart`) and that what they hold is what was added and has not ended
(`HeldIsLive`), which needs that a chain nobody has added has popped nothing,
and that no pass leaves anything behind for the next to overwrite. The answers
need `CallsMatch`: the calls of a chain so far are its callbacks one after the
other, each with the answer of the same number, and while a chain is held
exactly one more query has been asked than callbacks have run.

Only model-checked: liveness (`QueuedIsConsumed`, `CancelReleases`,
`EveryCallReturns`, `QueryAnswered`, `CloseReturns`, `EveryJobReturns`,
`EnqueuedIsDequeued`, `AnsweredIsCalled`, `Converges`, `AcceptedIsSent`), which
is out of the reach of the prover, like ENABLED. Every safety property that a
passing run checks is a theorem as well.

## 6. What is not modelled

Of the modelled components: `EscapeString`, `PrepareStatements` and queries on
synchronous connections beyond their locking; the content of statements and
results; time, except as the bound on retries; `Create` and `Populate` of the
updater (a prompt and one file, before any row exists).

Components without a module, and why.

* `DatabaseLoader`: four lists of closures run one after the other by one
  thread; `AddDatabase` fills only the first of them in this version.
* Statements, fields and results: pure conversions.
* `EventProcessor`, the reference lists, `LockedQueue` and `DelayExecutor`: built
  or buildable, but used by nothing in this repository.
* Connect server: its `CIOCP` carries a variant of the buffered socket whose
  `noblk_send` waits half a second with a timeout (`CIOCP.cpp:486-488`): a full
  kernel buffer ends in `ETIME`, which it takes for an error, where
  `BufferedSocket` gets `EWOULDBLOCK` and queues. That variant is not what the
  module models. What remains uses users after their deletion and a listening
  handle that is never set; a model would enumerate undefined outcomes rather
  than describe code.
* Game and data server, by far the largest part of the repository: off by default
  or never part of the build, and in the middle of a restructuring in which most
  handlers refer to types that no longer exist. What their steps do is not
  determined by the code, so there is nothing to be faithful to yet.
* Logging, configuration, cryptography, services, third-party code: I/O and
  wrappers without a state worth a model.

`PROJECT.json` gives the status of each component.

## 7. Plan

Done: `FifoQueue`, `ProducerConsumerQueue`, `DatabaseWorkerPool` on top of it,
`AtomicTransactions` and `MySQLConnection`, `MPSCQueue`, `QueryCallbackProcessor`,
`UpdateFetcher`, `BufferedSocket`; all but the two abstract specifications with proofs.

Next, when the code makes it worth while: `EventProcessor` once something uses
it; party, trade and duel of the game server once it builds again; the loader
once its later stages are filled.
