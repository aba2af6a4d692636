------------------------- MODULE DatabaseWorkerPool -------------------------
(***************************************************************************)
(* src/shared/Database/Database: the pool of MySQL connections.            *)
(*                                                                         *)
(* An asynchronous connection owns a DatabaseWorker, a thread that pops    *)
(* operations from the queue all workers share (ProducerConsumerQueue) and *)
(* runs them.  A synchronous connection is borrowed by the thread that     *)
(* calls Query, DirectExecute, DirectCommitTransaction: GetFreeConnection  *)
(* try_locks the connections round robin until one is free.                *)
(*                                                                         *)
(* Three kinds of thread take steps: the Clients of the pool, the workers, *)
(* and the main thread that opens the pool, closes it and destroys it.     *)
(* What an operation does to the database is the subject of module         *)
(* MySQLConnection; here it is one step of its worker.                     *)
(***************************************************************************)
EXTENDS Naturals, Sequences, FiniteSets

CONSTANTS
    OneWay,             \* statement, holder-less tasks: Execute, CommitTransaction
    WithResult,         \* tasks that hold a promise: AsyncQuery, DelayQueryHolder
    Ping,               \* PingOperation objects KeepAlive can create
    Client,             \* threads that call the pool
    AsyncThreads,       \* _async_threads
    SynchThreads,       \* _synch_threads
    MaxCalls,           \* bound: synchronous calls and KeepAlives of one client
    Null

Op == OneWay \cup WithResult \cup Ping
Worker == 1..AsyncThreads
Synch == 0..SynchThreads - 1        \* indices of _connections[IDX_SYNCH]

ASSUME ThreadsAssumption ==
    AsyncThreads \in Nat \ {0} /\ SynchThreads \in Nat \ {0} /\ MaxCalls \in Nat

ASSUME KindsAssumption ==
    /\ OneWay \cap WithResult = {}
    /\ Ping \cap (OneWay \cup WithResult) = {}
    /\ Null \notin Op \cup Client

VARIABLES
    queue, shutdown, waiting, woken, pushed, popped, dropped,   \* *_queue
    worker,             \* program counter of each connection's worker thread
    operation,          \* its local `operation`
    token,              \* its _cancelationToken
    object,             \* each operation object: not yet created, live, deleted
    promise,            \* the shared state of its promise
    executed,           \* history: operations whose Execute ran, in that order
    phase,              \* what the main thread is doing
    opened,             \* connections pushed to _connections[IDX_ASYNC]
    doomed,             \* async connections whose destructor runs next, in order
    dtor,               \* the step ~DatabaseWorker of Head(doomed) is at
    owner,              \* who holds m_Mutex of each synchronous connection
    client,             \* program counter of each client
    held,               \* the operation, index or connection its call works on
    calls               \* synchronous calls made, for the bound

queueVars == <<queue, shutdown, waiting, woken, pushed, popped, dropped>>
workerVars == <<worker, operation, token>>
opVars == <<object, promise, executed>>
mainVars == <<phase, opened, doomed, dtor>>
clientVars == <<owner, client, held, calls>>
vars == <<queueVars, workerVars, opVars, mainVars, clientVars>>

Q == INSTANCE ProducerConsumerQueue WITH Value <- Op, Consumer <- Worker

Init ==
    /\ Q!Init
    /\ worker = [w \in Worker |-> "absent"]
    /\ operation = [w \in Worker |-> Null]
    /\ token = [w \in Worker |-> FALSE]
    /\ object = [o \in Op |-> "none"]
    /\ promise = [o \in Op |-> "none"]
    /\ executed = <<>>
    /\ phase = "opening"
    /\ opened = 0
    /\ doomed = <<>>
    /\ dtor = "token"
    /\ owner = [s \in Synch |-> Null]
    /\ client = [c \in Client |-> "idle"]
    /\ held = [c \in Client |-> Null]
    /\ calls = [c \in Client |-> 0]

\* Mutant: the delete is missing.
NotDeleted(O) == object

\* Deleting a task deletes its promise: an unsatisfied one becomes broken.
Broken(O) ==
    [o \in Op |-> IF o \in O /\ promise[o] = "pending" THEN "broken" ELSE promise[o]]

Deleted(O) == [o \in Op |-> IF o \in O THEN "deleted" ELSE object[o]]

Queued == {queue[i] : i \in 1..Len(queue)}

-----------------------------------------------------------------------------
\* DatabaseWorker::WorkerThread.
WorkerPop(w) ==
    /\ worker[w] = "popping"
    /\ Q!Enter(w) \/ Q!Resume(w)
    /\ worker' = [worker EXCEPT ![w] = IF w \in waiting' THEN "popping" ELSE "popped"]
    /\ operation' = [operation EXCEPT ![w] = IF popped' # popped THEN Head(queue) ELSE Null]
    /\ UNCHANGED <<token, opVars, mainVars, clientVars>>

WorkerSpuriousWakeup(w) ==
    /\ Q!SpuriousWakeup(w)
    /\ UNCHANGED <<workerVars, opVars, mainVars, clientVars>>

\* It returns with the operation still in its hands when the token is set.
WorkerExit(w) ==
    /\ worker[w] = "popped"
    /\ token[w] \/ operation[w] = Null
    /\ worker' = [worker EXCEPT ![w] = "exited"]
    /\ UNCHANGED <<operation, token, queueVars, opVars, mainVars, clientVars>>

\* Mutants: a path of Execute that leaves the promise alone, and one that
\* puts the operation aside.
WorkerCallForgetsPromise(w) ==
    /\ worker[w] = "popped"
    /\ ~token[w] /\ operation[w] # Null
    /\ executed' = Append(executed, operation[w])
    /\ worker' = [worker EXCEPT ![w] = "called"]
    /\ UNCHANGED <<operation, token, object, promise, queueVars, mainVars, clientVars>>

WorkerCallMaySkip(w) ==
    /\ worker[w] = "popped"
    /\ ~token[w] /\ operation[w] # Null
    /\ executed' \in {executed, Append(executed, operation[w])}
    /\ worker' = [worker EXCEPT ![w] = "called"]
    /\ UNCHANGED <<operation, token, object, promise, queueVars, mainVars, clientVars>>

\* operation->call().  Every Execute that has a promise satisfies it, with a
\* result or with a null one.  (Holders are not null.)
WorkerCall(w) ==
    LET o == operation[w] IN
    /\ worker[w] = "popped"
    /\ ~token[w] /\ o # Null
    /\ promise' = [promise EXCEPT ![o] = IF @ = "pending" THEN "value" ELSE @]
    /\ executed' = Append(executed, o)
    /\ worker' = [worker EXCEPT ![w] = "called"]
    /\ UNCHANGED <<operation, token, object, queueVars, mainVars, clientVars>>

WorkerDelete(w) ==
    /\ worker[w] = "called"
    /\ object' = Deleted({operation[w]})
    /\ promise' = Broken({operation[w]})
    /\ operation' = [operation EXCEPT ![w] = Null]
    /\ worker' = [worker EXCEPT ![w] = "popping"]
    /\ UNCHANGED <<token, executed, queueVars, mainVars, clientVars>>

WorkerStep(w) == WorkerPop(w) \/ WorkerExit(w) \/ WorkerCall(w) \/ WorkerDelete(w)

-----------------------------------------------------------------------------
\* The main thread.  Open creates the asynchronous connections one by one;
\* the constructor starts the worker before the connection is opened.
CreateAsync ==
    /\ phase = "opening" /\ opened < AsyncThreads
    /\ worker' = [worker EXCEPT ![opened + 1] = "popping"]
    /\ phase' = "connect"
    /\ UNCHANGED <<operation, token, queueVars, opVars, opened, doomed, dtor, clientVars>>

Connected ==
    /\ phase = "connect"
    /\ opened' = opened + 1
    /\ phase' = "opening"
    /\ UNCHANGED <<queueVars, workerVars, opVars, doomed, dtor, clientVars>>

\* Open failed: _connections[IDX_ASYNC].clear(), then the new one is destroyed
\* on the way out.
ConnectFailed ==
    /\ phase = "connect"
    /\ doomed' = [i \in 1..opened + 1 |-> i]
    /\ opened' = 0
    /\ phase' = "failing"
    /\ UNCHANGED <<queueVars, workerVars, opVars, dtor, clientVars>>

\* The server is too old: only the new connection is destroyed.
VersionRejected ==
    /\ phase = "connect"
    /\ doomed' = <<opened + 1>>
    /\ phase' = "failing"
    /\ UNCHANGED <<queueVars, workerVars, opVars, opened, dtor, clientVars>>

\* The synchronous connections have no thread: all open, or one does not and
\* Open returns its error.
OpenSynch ==
    /\ phase = "opening" /\ opened = AsyncThreads
    /\ phase' \in {"running", "failing"}
    /\ UNCHANGED <<queueVars, workerVars, opVars, opened, doomed, dtor, clientVars>>

\* Open has returned an error and the program ends: ~DatabaseWorkerPool
\* cancels the queue and destroys the connections that were opened.
AbandonPool ==
    /\ phase = "failing" /\ doomed = <<>>
    /\ Q!Cancel
    /\ object' = Deleted(Queued)
    /\ promise' = Broken(Queued)
    /\ doomed' = [i \in 1..opened |-> i]
    /\ opened' = 0
    /\ phase' = "closing"
    /\ UNCHANGED <<workerVars, executed, dtor, clientVars>>

\* Close "should only be called after any other thread tasks in the core have
\* exited".
Close ==
    /\ phase = "running"
    /\ \A c \in Client : client[c] = "idle"
    /\ doomed' = [i \in 1..opened |-> i]
    /\ opened' = 0
    /\ phase' = "closing"
    /\ UNCHANGED <<queueVars, workerVars, opVars, dtor, clientVars>>

\* ~DatabaseWorker in ~MySQLConnection: set the token, cancel, join.
SetToken ==
    /\ doomed # <<>> /\ dtor = "token"
    /\ token' = [token EXCEPT ![Head(doomed)] = TRUE]
    /\ dtor' = "cancel"
    /\ UNCHANGED <<worker, operation, queueVars, opVars, phase, opened, doomed, clientVars>>

CancelQueue ==
    /\ doomed # <<>> /\ dtor = "cancel"
    /\ Q!Cancel
    /\ object' = Deleted(Queued)
    /\ promise' = Broken(Queued)
    /\ dtor' = "join"
    /\ UNCHANGED <<workerVars, executed, phase, opened, doomed, clientVars>>

\* Mutant: the worker is detached instead of joined.
Detach ==
    /\ doomed # <<>> /\ dtor = "join"
    /\ worker' = [worker EXCEPT ![Head(doomed)] = "joined"]
    /\ doomed' = Tail(doomed)
    /\ dtor' = "token"
    /\ UNCHANGED <<operation, token, queueVars, opVars, phase, opened, clientVars>>

Join ==
    /\ doomed # <<>> /\ dtor = "join"
    /\ worker[Head(doomed)] = "exited"
    /\ worker' = [worker EXCEPT ![Head(doomed)] = "joined"]
    /\ doomed' = Tail(doomed)
    /\ dtor' = "token"
    /\ UNCHANGED <<operation, token, queueVars, opVars, phase, opened, clientVars>>

\* The synchronous connections are cleared and the call returns.
Closed ==
    /\ phase = "closing" /\ doomed = <<>>
    /\ phase' = "closed"
    /\ UNCHANGED <<queueVars, workerVars, opVars, opened, doomed, dtor, clientVars>>

MainStep ==
    \/ CreateAsync \/ Connected \/ ConnectFailed \/ VersionRejected \/ OpenSynch
    \/ AbandonPool \/ Close
    \/ SetToken \/ CancelQueue \/ Join \/ Closed

-----------------------------------------------------------------------------
\* The clients' calls.  Execute, CommitTransaction, AsyncQuery and
\* DelayQueryHolder create a task; the last two take the future before the
\* task is enqueued, because a worker may have deleted it after that.
NewTask(c, o) ==
    /\ phase = "running" /\ client[c] = "idle" /\ object[o] = "none"
    /\ object' = [object EXCEPT ![o] = "live"]
    /\ promise' = [promise EXCEPT ![o] = IF o \in WithResult THEN "pending" ELSE "none"]
    /\ client' = [client EXCEPT ![c] = "created"]
    /\ held' = [held EXCEPT ![c] = o]
    /\ UNCHANGED <<executed, queueVars, workerVars, mainVars, owner, calls>>

Enqueue(c) ==
    /\ client[c] = "created"
    /\ Q!Push(held[c])
    /\ client' = [client EXCEPT ![c] = "idle"]
    /\ held' = [held EXCEPT ![c] = Null]
    /\ UNCHANGED <<workerVars, opVars, mainVars, owner, calls>>

\* GetFreeConnection: i starts at 0 and is incremented before each probe.
\* The counter is kept modulo the number of connections.
StartSynch(c) ==
    /\ phase = "running" /\ client[c] = "idle" /\ calls[c] < MaxCalls
    /\ client' = [client EXCEPT ![c] = "probing"]
    /\ held' = [held EXCEPT ![c] = 1 % SynchThreads]
    /\ calls' = [calls EXCEPT ![c] = @ + 1]
    /\ UNCHANGED <<queueVars, workerVars, opVars, mainVars, owner>>

\* Mutant: the result of try_lock is ignored.
TakeWithoutLock(c) ==
    /\ client[c] = "probing"
    /\ owner' = [owner EXCEPT ![held[c]] = c]
    /\ client' = [client EXCEPT ![c] = "using"]
    /\ UNCHANGED <<queueVars, workerVars, opVars, mainVars, held, calls>>

\* LockIfReady is m_Mutex.try_lock.
LockIfReady(c) ==
    /\ client[c] = "probing" /\ owner[held[c]] = Null
    /\ owner' = [owner EXCEPT ![held[c]] = c]
    /\ client' = [client EXCEPT ![c] = "using"]
    /\ UNCHANGED <<queueVars, workerVars, opVars, mainVars, held, calls>>

ProbeNext(c) ==
    /\ client[c] = "probing" /\ owner[held[c]] # Null
    /\ held' = [held EXCEPT ![c] = (@ + 1) % SynchThreads]
    /\ UNCHANGED <<queueVars, workerVars, opVars, mainVars, owner, client, calls>>

\* Query, DirectExecute and DirectCommitTransaction all end with Unlock.
Unlock(c) ==
    /\ client[c] = "using"
    /\ owner' = [owner EXCEPT ![held[c]] = Null]
    /\ client' = [client EXCEPT ![c] = "idle"]
    /\ held' = [held EXCEPT ![c] = Null]
    /\ UNCHANGED <<queueVars, workerVars, opVars, mainVars, calls>>

\* KeepAlive: every synchronous connection that is free is locked, pinged and
\* unlocked, a busy one is skipped; then one PingOperation is enqueued per
\* asynchronous connection, counted before the first one is.
StartKeepAlive(c) ==
    /\ phase = "running" /\ client[c] = "idle" /\ calls[c] < MaxCalls
    /\ client' = [client EXCEPT ![c] = "keeping"]
    /\ held' = [held EXCEPT ![c] = 0]
    /\ calls' = [calls EXCEPT ![c] = @ + 1]
    /\ UNCHANGED <<queueVars, workerVars, opVars, mainVars, owner>>

KeepAliveLock(c) ==
    /\ client[c] = "keeping" /\ held[c] < SynchThreads
    /\ owner[held[c]] = Null
    /\ owner' = [owner EXCEPT ![held[c]] = c]
    /\ client' = [client EXCEPT ![c] = "pinging"]
    /\ UNCHANGED <<queueVars, workerVars, opVars, mainVars, held, calls>>

KeepAliveSkip(c) ==
    /\ client[c] = "keeping" /\ held[c] < SynchThreads
    /\ owner[held[c]] # Null
    /\ held' = [held EXCEPT ![c] = @ + 1]
    /\ UNCHANGED <<queueVars, workerVars, opVars, mainVars, owner, client, calls>>

\* Mutant: the loop stays at the same connection.
KeepAlivePingsAgain(c) ==
    /\ client[c] = "pinging"
    /\ owner' = [owner EXCEPT ![held[c]] = Null]
    /\ client' = [client EXCEPT ![c] = "keeping"]
    /\ UNCHANGED <<queueVars, workerVars, opVars, mainVars, held, calls>>

KeepAliveUnlock(c) ==
    /\ client[c] = "pinging"
    /\ owner' = [owner EXCEPT ![held[c]] = Null]
    /\ client' = [client EXCEPT ![c] = "keeping"]
    /\ held' = [held EXCEPT ![c] = @ + 1]
    /\ UNCHANGED <<queueVars, workerVars, opVars, mainVars, calls>>

KeepAliveEnqueue(c) ==
    /\ client[c] = "keeping"
    /\ held[c] \in SynchThreads..SynchThreads + opened - 1
    /\ \E o \in Ping :
        /\ object[o] = "none"
        /\ object' = [object EXCEPT ![o] = "live"]
        /\ Q!Push(o)
    /\ held' = [held EXCEPT ![c] = @ + 1]
    /\ UNCHANGED <<promise, executed, workerVars, mainVars, owner, client, calls>>

KeepAliveReturn(c) ==
    /\ client[c] = "keeping"
    /\ \/ held[c] = SynchThreads + opened
       \/ held[c] >= SynchThreads /\ \A o \in Ping : object[o] # "none"  \* bound
    /\ client' = [client EXCEPT ![c] = "idle"]
    /\ held' = [held EXCEPT ![c] = Null]
    /\ UNCHANGED <<queueVars, workerVars, opVars, mainVars, owner, calls>>

Serve(c) ==
    \/ Enqueue(c)
    \/ LockIfReady(c) \/ ProbeNext(c) \/ Unlock(c)
    \/ KeepAliveLock(c) \/ KeepAliveSkip(c) \/ KeepAliveUnlock(c)
    \/ KeepAliveEnqueue(c) \/ KeepAliveReturn(c)

ClientStep(c) ==
    \/ \E o \in OneWay \cup WithResult : NewTask(c, o)
    \/ StartSynch(c) \/ StartKeepAlive(c)
    \/ Serve(c)

\* The program has ended; everything else that stops is a deadlock.
Terminated == phase = "closed" /\ UNCHANGED vars

Next ==
    \/ \E w \in Worker : WorkerStep(w) \/ WorkerSpuriousWakeup(w)
    \/ MainStep
    \/ \E c \in Client : ClientStep(c)
    \/ Terminated

Spec == Init /\ [][Next]_vars

(***************************************************************************)
(* Threads run: a worker, a client inside a call and the main thread while *)
(* it opens or closes the pool keep taking steps.  Nobody has to call      *)
(* anything, and nobody has to close the pool.                             *)
(***************************************************************************)
Fairness ==
    /\ \A w \in Worker : WF_vars(WorkerStep(w))
    /\ \A c \in Client : WF_vars(Serve(c))
    /\ WF_vars(MainStep /\ phase # "running")

FairSpec == Spec /\ Fairness

-----------------------------------------------------------------------------
Executed == {executed[i] : i \in 1..Len(executed)}

TypeOK ==
    /\ Q!TypeOK
    /\ worker \in [Worker -> {"absent", "popping", "popped", "called", "exited", "joined"}]
    /\ operation \in [Worker -> Op \cup {Null}]
    /\ token \in [Worker -> BOOLEAN]
    /\ object \in [Op -> {"none", "live", "deleted"}]
    /\ promise \in [Op -> {"none", "pending", "value", "broken"}]
    /\ executed \in Seq(Op)
    /\ phase \in {"opening", "connect", "failing", "running", "closing", "closed"}
    /\ opened \in 0..AsyncThreads
    /\ doomed \in Seq(Worker)
    /\ dtor \in {"token", "cancel", "join"}
    /\ owner \in [Synch -> Client \cup {Null}]
    /\ client \in [Client ->
                    {"idle", "created", "probing", "using", "keeping", "pinging"}]
    /\ held \in [Client -> Op \cup 0..SynchThreads + AsyncThreads \cup {Null}]
    /\ calls \in [Client -> 0..MaxCalls]

(***************************************************************************)
(* Ownership of operation objects.  A raw pointer travels from the client  *)
(* to the queue to a worker: whoever can still dereference it is the only  *)
(* one, and the object has not been deleted.                               *)
(***************************************************************************)
HoldsObject(c, o) == client[c] = "created" /\ held[c] = o

OwnedByOne ==
    \A o \in Op :
        LET places == {<<"client", c>> : c \in {c \in Client : HoldsObject(c, o)}}
                 \cup {<<"queue", i>> : i \in {i \in 1..Len(queue) : queue[i] = o}}
                 \cup {<<"worker", w>> : w \in {w \in Worker : operation[w] = o}}
        IN  Cardinality(places) = IF object[o] = "live" THEN 1 ELSE 0

\* Ownership, in well-typed states.
OwnershipInv == TypeOK /\ OwnedByOne

(***************************************************************************)
(* A future tells the truth: it has a value exactly if the task ran, once, *)
(* it is broken exactly if the task was deleted without having run, and a  *)
(* task never runs twice.                                                  *)
(***************************************************************************)
FutureTellsTruth ==
    /\ \A i, j \in 1..Len(executed) : executed[i] = executed[j] => i = j
    /\ \A o \in WithResult :
        /\ promise[o] = "value" <=> o \in Executed
        /\ promise[o] = "broken" <=> object[o] = "deleted" /\ o \notin Executed
        /\ promise[o] = "pending" <=> object[o] = "live" /\ o \notin Executed

(***************************************************************************)
(* Operations start in the order in which they were enqueued, so when one  *)
(* has run, at most one per other worker that was enqueued before it has   *)
(* not.  With the single worker AddDatabase configures, operations run     *)
(* strictly in the order of the calls.                                     *)
(***************************************************************************)
OvertakenByFewerThanWorkers ==
    \A i \in 1..Len(popped) :
        popped[i] \in Executed =>
            Cardinality({j \in 1..i - 1 : popped[j] \notin Executed}) < AsyncThreads

(***************************************************************************)
(* A synchronous connection is used by the thread that locked it and by no *)
(* other, and a call that has returned has unlocked what it locked.  This  *)
(* is about calls that lock: EscapeString, which uses the handle of the    *)
(* first connection without a lock, is not part of the model.              *)
(***************************************************************************)
ConnectionHasOneUser ==
    \A s \in Synch, c \in Client :
        owner[s] = c <=> client[c] \in {"using", "pinging"} /\ held[c] = s

(***************************************************************************)
(* When the pool is closed every worker thread that was started has been   *)
(* joined, the queue is empty, and an operation that was enqueued and not  *)
(* run has been deleted, except one a joined worker may have walked away   *)
(* with after its token was set.                                           *)
(***************************************************************************)
ClosedLeavesNothingRunning ==
    phase = "closed" =>
        /\ \A w \in Worker : worker[w] \in {"absent", "joined"}
        /\ queue = <<>> /\ waiting = {} /\ woken = {}
        /\ \A o \in Op : object[o] = "live" =>
                \E w \in Worker : operation[w] = o /\ token[w] /\ worker[w] = "joined"

(***************************************************************************)
(* Every call on the pool returns: nobody waits for ever for a synchronous *)
(* connection, as long as each client makes finitely many calls.           *)
(***************************************************************************)
EveryCallReturns == \A c \in Client : client[c] # "idle" ~> client[c] = "idle"

(***************************************************************************)
(* The future of an asynchronous query becomes ready unless the pool is    *)
(* closed first.                                                           *)
(***************************************************************************)
QueryAnswered ==
    \A o \in WithResult :
        promise[o] = "pending" ~>
            (promise[o] \in {"value", "broken"} \/ phase \in {"closing", "closed"})

(***************************************************************************)
(* Closing or abandoning the pool ends: no join waits for a worker that    *)
(* nobody wakes.                                                           *)
(***************************************************************************)
CloseReturns == phase \in {"closing", "failing"} ~> phase = "closed"

=============================================================================
