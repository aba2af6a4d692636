---------------------- MODULE DatabaseWorkerPoolProofs ----------------------
(***************************************************************************)
(* Proofs about DatabaseWorkerPool, for any sets of operations and clients *)
(* and any numbers of connections: each operation object has one owner     *)
(* while it lives and none after, a future tells what became of its task,  *)
(* a synchronous connection has one user, operations overtake each other   *)
(* only while workers hold them, and a closed pool leaves nothing running. *)
(*                                                                         *)
(* Five invariants, each inductive once those before it are known: what    *)
(* the main thread does (MainInv), what the clients do with the            *)
(* synchronous connections (ClientInv), who owns which object (WorkInv),   *)
(* who popped what when (OrderInv), and how threads end (CloseInv).  The   *)
(* pool implements the specification of its queue, so that what is proved  *)
(* in ProducerConsumerQueueProofs holds of it.                             *)
(***************************************************************************)
EXTENDS DatabaseWorkerPool, DistinctValues, FiniteSetTheorems

(***************************************************************************)
(* While the pool is being opened, the workers of the connections that do  *)
(* not exist yet have not been started.                                    *)
(***************************************************************************)
MainInv ==
    /\ worker \in [Worker -> {"absent", "popping", "popped", "called", "exited", "joined"}]
    /\ token \in [Worker -> BOOLEAN]
    /\ phase \in {"opening", "connect", "failing", "running", "closing", "closed"}
    /\ opened \in 0..AsyncThreads
    /\ doomed \in Seq(Worker)
    /\ dtor \in {"token", "cancel", "join"}
    /\ phase = "opening" => \A w \in Worker : w > opened => worker[w] = "absent"
    /\ phase = "connect" => /\ opened < AsyncThreads
                            /\ \A w \in Worker : w > opened + 1 => worker[w] = "absent"

(***************************************************************************)
(* What a client holds is what its call works on, and a connection's mutex *)
(* is held by the client that is using it.                                 *)
(***************************************************************************)
ClientInv ==
    /\ owner \in [Synch -> Client \cup {Null}]
    /\ client \in [Client ->
                    {"idle", "created", "probing", "using", "keeping", "pinging"}]
    /\ held \in [Client -> Op \cup 0..SynchThreads + AsyncThreads \cup {Null}]
    /\ calls \in [Client -> 0..MaxCalls]
    /\ \A c \in Client :
        /\ client[c] = "created" => held[c] \in Op
        /\ client[c] \in {"probing", "using", "pinging"} => held[c] \in Synch
        /\ client[c] = "keeping" => held[c] \in 0..SynchThreads + AsyncThreads
    /\ ConnectionHasOneUser

(***************************************************************************)
(* A client between `new` and Enqueue owns its task alone.                 *)
(***************************************************************************)
ClientsOwn ==
    /\ \A c \in Client : client[c] = "created" =>
        /\ object[held[c]] = "live" /\ held[c] \notin Executed \cup Queued
        /\ \A w \in Worker : operation[w] # held[c]
    /\ \A c, d \in Client :
        client[c] = "created" /\ client[d] = "created" /\ held[c] = held[d] => c = d

(***************************************************************************)
(* The queue owns what is in it, once.                                     *)
(***************************************************************************)
QueueOwns ==
    /\ NoneTwice(queue)
    /\ \A o \in Queued :
        /\ object[o] = "live" /\ o \notin Executed
        /\ \A w \in Worker : operation[w] # o

(***************************************************************************)
(* A worker owns the operation it popped until it has deleted it; that     *)
(* operation has been executed exactly while the worker is between call()  *)
(* and delete.                                                             *)
(***************************************************************************)
WorkersOwn ==
    /\ \A w \in Worker :
        /\ operation[w] # Null =>
            /\ object[operation[w]] = "live"
            /\ operation[w] \in Executed <=> worker[w] = "called"
        /\ worker[w] \in {"absent", "popping"} => operation[w] = Null
        /\ worker[w] = "called" => operation[w] # Null
    /\ \A v, w \in Worker : operation[v] # Null /\ operation[v] = operation[w] => v = w

(***************************************************************************)
(* What lives is owned.                                                    *)
(***************************************************************************)
LiveIsOwned ==
    \A o \in Op : object[o] = "live" =>
        \/ \E c \in Client : client[c] = "created" /\ held[c] = o
        \/ o \in Queued
        \/ \E w \in Worker : operation[w] = o

(***************************************************************************)
(* Nothing runs twice or before it exists, and promises follow.            *)
(***************************************************************************)
PromisesFollow ==
    /\ NoneTwice(executed)
    /\ \A o \in Executed : object[o] # "none"
    /\ \A o \in WithResult :
        /\ promise[o] = "value" <=> o \in Executed
        /\ promise[o] = "broken" <=> object[o] = "deleted" /\ o \notin Executed
        /\ promise[o] = "pending" <=> object[o] = "live" /\ o \notin Executed

(***************************************************************************)
(* A thread that has been notified does not sleep.                         *)
(***************************************************************************)
QueueInv == Q!TypeOK /\ waiting \cap woken = {}

WorkTypes ==
    /\ QueueInv
    /\ operation \in [Worker -> Op \cup {Null}]
    /\ object \in [Op -> {"none", "live", "deleted"}]
    /\ promise \in [Op -> {"none", "pending", "value", "broken"}]
    /\ executed \in Seq(Op)

WorkInv ==
    /\ WorkTypes
    /\ ClientsOwn /\ QueueOwns /\ WorkersOwn /\ LiveIsOwned /\ PromisesFollow

-----------------------------------------------------------------------------
-----------------------------------------------------------------------------
(***************************************************************************)
(* What the main thread knows while it opens and closes the pool.          *)
(***************************************************************************)
LEMMA MainStepKeepsMainInv ==
    ASSUME MainInv, MainStep
    PROVE  MainInv'
<1> USE ThreadsAssumption
<1>1. CASE CreateAsync
  <2>1. /\ phase = "opening" /\ opened < AsyncThreads
        /\ worker' = [worker EXCEPT ![opened + 1] = "popping"]
        /\ phase' = "connect"
        /\ UNCHANGED <<token, opened, doomed, dtor>>
    BY <1>1 DEF CreateAsync
  <2>2. \A w \in Worker : w > opened + 1 => w > opened /\ w # opened + 1
    BY DEF MainInv, Worker
  <2>3. \A w \in Worker : w > opened + 1 => worker'[w] = "absent"
    BY <2>1, <2>2 DEF MainInv
  <2>4. worker' \in [Worker -> {"absent", "popping", "popped", "called", "exited", "joined"}]
    BY <2>1 DEF MainInv
  <2> QED
    BY <2>1, <2>3, <2>4 DEF MainInv
<1>2. CASE Connected
  <2>1. /\ phase = "connect" /\ opened' = opened + 1 /\ phase' = "opening"
        /\ UNCHANGED <<worker, token, doomed, dtor>>
    BY <1>2 DEF Connected, workerVars
  <2>2. opened' \in 0..AsyncThreads
    BY <2>1 DEF MainInv
  <2> QED
    BY <2>1, <2>2 DEF MainInv
<1>3. CASE ConnectFailed
  <2>1. /\ phase = "connect" /\ doomed' = [i \in 1..opened + 1 |-> i]
        /\ opened' = 0 /\ phase' = "failing"
        /\ UNCHANGED <<worker, token, dtor>>
    BY <1>3 DEF ConnectFailed, workerVars
  <2>2. opened + 1 \in Nat /\ \A i \in 1..opened + 1 : i \in Worker
    BY <2>1 DEF MainInv, Worker
  <2>3. doomed' \in Seq(Worker)
    BY <2>1, <2>2
  <2> QED
    BY <2>1, <2>3 DEF MainInv
<1>4. CASE VersionRejected
  <2>1. /\ phase = "connect" /\ doomed' = <<opened + 1>> /\ phase' = "failing"
        /\ UNCHANGED <<worker, token, opened, dtor>>
    BY <1>4 DEF VersionRejected, workerVars
  <2>2. opened + 1 \in Worker
    BY <2>1 DEF MainInv, Worker
  <2>3. doomed' \in Seq(Worker)
    BY <2>1, <2>2
  <2> QED
    BY <2>1, <2>3 DEF MainInv
<1>5. CASE OpenSynch \/ Closed
    BY <1>5 DEF OpenSynch, Closed, workerVars, MainInv
<1>6. CASE AbandonPool \/ Close
  <2>1. /\ doomed' = [i \in 1..opened |-> i] /\ opened' = 0 /\ phase' = "closing"
        /\ UNCHANGED <<worker, token, dtor>>
    BY <1>6 DEF AbandonPool, Close, workerVars
  <2>2. opened \in Nat /\ \A i \in 1..opened : i \in Worker
    BY DEF MainInv, Worker
  <2>3. doomed' \in Seq(Worker)
    BY <2>1, <2>2
  <2> QED
    BY <2>1, <2>3 DEF MainInv
<1>7. CASE SetToken \/ CancelQueue
  <2>1. /\ token' \in [Worker -> BOOLEAN] /\ dtor' \in {"token", "cancel", "join"}
        /\ UNCHANGED <<worker, phase, opened, doomed>>
    BY <1>7 DEF SetToken, CancelQueue, workerVars, MainInv
  <2> QED
    BY <2>1 DEF MainInv
<1>8. CASE Join
  <2>1. /\ doomed # <<>> /\ worker[Head(doomed)] = "exited"
        /\ worker' = [worker EXCEPT ![Head(doomed)] = "joined"]
        /\ doomed' = Tail(doomed) /\ dtor' = "token"
        /\ UNCHANGED <<token, phase, opened>>
    BY <1>8 DEF Join
  <2>2. doomed' \in Seq(Worker)
    BY <2>1, HeadTailProperties DEF MainInv
  <2>3. \A w \in Worker : worker[w] = "absent" => worker'[w] = "absent"
    BY <2>1 DEF MainInv
  <2>4. worker' \in [Worker -> {"absent", "popping", "popped", "called", "exited", "joined"}]
    BY <2>1 DEF MainInv
  <2> QED
    BY <2>1, <2>2, <2>3, <2>4 DEF MainInv
<1> QED
    BY <1>1, <1>2, <1>3, <1>4, <1>5, <1>6, <1>7, <1>8 DEF MainStep

(***************************************************************************)
(* A worker moves only once it has been started.                           *)
(***************************************************************************)
LEMMA WorkerStepKeepsMainInv ==
    ASSUME MainInv, NEW w \in Worker, WorkerStep(w)
    PROVE  MainInv'
<1>1. /\ worker[w] # "absent"
      /\ worker' \in [Worker ->
            {"absent", "popping", "popped", "called", "exited", "joined"}]
      /\ \A v \in Worker : v # w => worker'[v] = worker[v]
    BY DEF WorkerStep, WorkerPop, WorkerExit, WorkerCall, WorkerDelete, MainInv
<1>2. UNCHANGED <<token, phase, opened, doomed, dtor>>
    BY DEF WorkerStep, WorkerPop, WorkerExit, WorkerCall, WorkerDelete, mainVars
<1> QED
    BY <1>1, <1>2 DEF MainInv

-----------------------------------------------------------------------------
(***************************************************************************)
(* The states of a client, and what it may hold in each of them.           *)
(***************************************************************************)
ClientState == {"idle", "created", "probing", "using", "keeping", "pinging"}
Slot == 0..SynchThreads + AsyncThreads
Holdable == Op \cup Slot \cup {Null}
Fits(a, h) ==
    /\ a = "created" => h \in Op
    /\ a \in {"probing", "using", "pinging"} => h \in Synch
    /\ a = "keeping" => h \in Slot

(***************************************************************************)
(* A client that uses no connection before or after its step.              *)
(***************************************************************************)
LEMMA CallGoesOn ==
    ASSUME ClientInv, NEW c \in Client,
           NEW a \in ClientState, client' = [client EXCEPT ![c] = a],
           NEW h \in Holdable, held' = [held EXCEPT ![c] = h], Fits(a, h),
           calls' \in [Client -> 0..MaxCalls], owner' = owner,
           a \notin {"using", "pinging"}, client[c] \notin {"using", "pinging"}
    PROVE  ClientInv'
<1>1. /\ client' \in [Client -> ClientState] /\ held' \in [Client -> Holdable]
      /\ client'[c] = a /\ held'[c] = h
      /\ \A d \in Client : d # c => client'[d] = client[d] /\ held'[d] = held[d]
    BY DEF ClientInv, ClientState, Holdable, Slot
<1>2. \A d \in Client : Fits(client'[d], held'[d])
    BY <1>1 DEF ClientInv, Fits, Slot
<1>3. ConnectionHasOneUser'
    BY <1>1 DEF ClientInv, ConnectionHasOneUser
<1> QED
    BY <1>1, <1>2, <1>3 DEF ClientInv, ClientState, Holdable, Slot, Fits

(***************************************************************************)
(* try_lock succeeds on a connection that is free.                         *)
(***************************************************************************)
LEMMA ConnectionTaken ==
    ASSUME ClientInv, NEW c \in Client,
           client[c] \notin {"using", "pinging"}, held[c] \in Synch,
           owner[held[c]] = Null, owner' = [owner EXCEPT ![held[c]] = c],
           NEW a \in {"using", "pinging"}, client' = [client EXCEPT ![c] = a],
           held' = held, calls' = calls
    PROVE  ClientInv'
<1>1. /\ client' \in [Client -> ClientState]
      /\ client'[c] = a
      /\ \A d \in Client : d # c => client'[d] = client[d]
    BY DEF ClientInv, ClientState
<1>2. /\ owner' \in [Synch -> Client \cup {Null}]
      /\ owner'[held[c]] = c
      /\ \A s \in Synch : s # held[c] => owner'[s] = owner[s]
    BY DEF ClientInv
<1>3. ConnectionHasOneUser'
  <2> SUFFICES ASSUME NEW s \in Synch, NEW d \in Client
               PROVE  owner'[s] = d <=> client'[d] \in {"using", "pinging"} /\ held[d] = s
    BY DEF ConnectionHasOneUser
  <2>1. owner[s] = d <=> client[d] \in {"using", "pinging"} /\ held[d] = s
    BY DEF ClientInv, ConnectionHasOneUser
  <2>2. Null # d
    BY KindsAssumption
  <2> QED
    BY <2>1, <2>2, <1>1, <1>2
<1> QED
    BY <1>1, <1>2, <1>3 DEF ClientInv, ClientState

(***************************************************************************)
(* Unlock: the mutex is free, and the client uses no connection.           *)
(***************************************************************************)
LEMMA ConnectionGivenBack ==
    ASSUME ClientInv, NEW c \in Client,
           client[c] \in {"using", "pinging"}, owner' = [owner EXCEPT ![held[c]] = Null],
           NEW a \in {"idle", "keeping"}, client' = [client EXCEPT ![c] = a],
           NEW h \in Holdable, held' = [held EXCEPT ![c] = h], Fits(a, h),
           calls' = calls
    PROVE  ClientInv'
<1>1. /\ client' \in [Client -> ClientState] /\ held' \in [Client -> Holdable]
      /\ client'[c] = a /\ held'[c] = h
      /\ \A d \in Client : d # c => client'[d] = client[d] /\ held'[d] = held[d]
    BY DEF ClientInv, ClientState, Holdable, Slot
<1>2. /\ held[c] \in Synch
      /\ owner' \in [Synch -> Client \cup {Null}]
      /\ owner'[held[c]] = Null
      /\ \A s \in Synch : s # held[c] => owner'[s] = owner[s]
    BY DEF ClientInv
<1>3. \A d \in Client : Fits(client'[d], held'[d])
    BY <1>1 DEF ClientInv, Fits, Slot
<1>4. ConnectionHasOneUser'
  <2> SUFFICES ASSUME NEW s \in Synch, NEW d \in Client
               PROVE  owner'[s] = d <=> client'[d] \in {"using", "pinging"} /\ held'[d] = s
    BY DEF ConnectionHasOneUser
  <2>1. /\ owner[s] = d <=> client[d] \in {"using", "pinging"} /\ held[d] = s
        /\ owner[s] = c <=> client[c] \in {"using", "pinging"} /\ held[c] = s
    BY DEF ClientInv, ConnectionHasOneUser
  <2>2. Null # d
    BY KindsAssumption
  <2> QED
    BY <2>1, <2>2, <1>1, <1>2
<1> QED
    BY <1>1, <1>2, <1>3, <1>4 DEF ClientInv, ClientState, Holdable, Slot, Fits

(***************************************************************************)
(* Every step of a client is one of the three.                             *)
(***************************************************************************)
LEMMA ClientStepKeepsClientInv ==
    ASSUME MainInv, ClientInv, NEW c \in Client, ClientStep(c)
    PROVE  ClientInv'
<1>1. /\ client \in [Client -> ClientState] /\ held \in [Client -> Holdable]
      /\ calls \in [Client -> 0..MaxCalls] /\ opened \in 0..AsyncThreads
      /\ AsyncThreads \in Nat \ {0} /\ SynchThreads \in Nat \ {0} /\ MaxCalls \in Nat
      /\ Fits(client[c], held[c])
    BY ThreadsAssumption
    DEF MainInv, ClientInv, ClientState, Holdable, Slot, Fits
<1>2. /\ Null \in Holdable /\ \A h \in Slot : h \in Holdable
      /\ \A o \in Op : o \in Holdable
      /\ \A s \in Synch : s \in Slot /\ s + 1 \in Slot /\ (s + 1) % SynchThreads \in Synch
      /\ 0 \in Slot /\ 1 % SynchThreads \in Synch
      /\ Synch = {s \in Slot : s < SynchThreads}
  <2>1. /\ \A s \in Synch : s \in Slot /\ s + 1 \in Slot
        /\ 0 \in Slot
        /\ Synch = {s \in Slot : s < SynchThreads}
    BY <1>1 DEF Synch, Slot
  <2>2. \A n \in Nat : n % SynchThreads \in 0..SynchThreads - 1
    BY <1>1
  <2>3. \A s \in Synch : s + 1 \in Nat
    BY <1>1 DEF Synch
  <2> QED
    BY <2>1, <2>2, <2>3 DEF Holdable, Synch
<1>3. held = [held EXCEPT ![c] = held[c]] /\ client = [client EXCEPT ![c] = client[c]]
    BY <1>1
<1>4. ASSUME calls' = [calls EXCEPT ![c] = @ + 1], calls[c] < MaxCalls
      PROVE  calls' \in [Client -> 0..MaxCalls]
    BY <1>4, <1>1
<1>5. ASSUME NEW o \in OneWay \cup WithResult, NewTask(c, o) PROVE ClientInv'
  <2>1. /\ client[c] = "idle" /\ client' = [client EXCEPT ![c] = "created"]
        /\ held' = [held EXCEPT ![c] = o] /\ owner' = owner /\ calls' = calls
        /\ o \in Op
    BY <1>5 DEF NewTask, Op
  <2>2. "created" \in ClientState /\ Fits("created", o)
    BY <2>1 DEF ClientState, Fits
  <2> QED
    BY <2>1, <2>2, <1>1, <1>2, CallGoesOn
<1>6. CASE Enqueue(c) \/ KeepAliveReturn(c)
  <2>1. /\ client[c] \in {"created", "keeping"} /\ client' = [client EXCEPT ![c] = "idle"]
        /\ held' = [held EXCEPT ![c] = Null] /\ owner' = owner /\ calls' = calls
    BY <1>6 DEF Enqueue, KeepAliveReturn
  <2>2. "idle" \in ClientState /\ Fits("idle", Null)
    BY DEF ClientState, Fits
  <2> QED
    BY <2>1, <2>2, <1>1, <1>2, CallGoesOn
<1>7. CASE StartSynch(c)
  <2>1. /\ client[c] = "idle" /\ client' = [client EXCEPT ![c] = "probing"]
        /\ held' = [held EXCEPT ![c] = 1 % SynchThreads] /\ owner' = owner
        /\ calls' \in [Client -> 0..MaxCalls]
    BY <1>7, <1>4 DEF StartSynch
  <2>2. "probing" \in ClientState /\ Fits("probing", 1 % SynchThreads)
    BY <1>2 DEF ClientState, Fits
  <2> QED
    BY <2>1, <2>2, <1>2, CallGoesOn
<1>8. CASE LockIfReady(c) \/ KeepAliveLock(c)
  <2>1. /\ client[c] \notin {"using", "pinging"} /\ held[c] \in Synch
        /\ owner[held[c]] = Null /\ owner' = [owner EXCEPT ![held[c]] = c]
        /\ held' = held /\ calls' = calls
    BY <1>8, <1>1, <1>2 DEF LockIfReady, KeepAliveLock, Fits
  <2>2. PICK a \in {"using", "pinging"} : client' = [client EXCEPT ![c] = a]
    BY <1>8 DEF LockIfReady, KeepAliveLock
  <2> QED
    BY <2>1, <2>2, ConnectionTaken
<1>9. CASE ProbeNext(c)
  <2>1. /\ client[c] = "probing" /\ client' = client /\ owner' = owner /\ calls' = calls
        /\ held' = [held EXCEPT ![c] = (held[c] + 1) % SynchThreads]
        /\ held[c] \in Synch
    BY <1>9, <1>1 DEF ProbeNext, Fits
  <2>2. /\ (held[c] + 1) % SynchThreads \in Holdable
        /\ Fits("probing", (held[c] + 1) % SynchThreads)
    BY <2>1, <1>2 DEF Fits
  <2>3. client' = [client EXCEPT ![c] = "probing"] /\ "probing" \in ClientState
    BY <2>1, <1>3 DEF ClientState
  <2> QED
    BY <2>1, <2>2, <2>3, <1>1, CallGoesOn
<1>10. CASE Unlock(c)
  <2>1. /\ client[c] \in {"using", "pinging"}
        /\ owner' = [owner EXCEPT ![held[c]] = Null]
        /\ client' = [client EXCEPT ![c] = "idle"]
        /\ held' = [held EXCEPT ![c] = Null] /\ calls' = calls
    BY <1>10 DEF Unlock
  <2>2. Fits("idle", Null)
    BY DEF Fits
  <2> QED
    BY <2>1, <2>2, <1>2, ConnectionGivenBack
<1>11. CASE KeepAliveUnlock(c)
  <2>1. /\ client[c] = "pinging"
        /\ owner' = [owner EXCEPT ![held[c]] = Null]
        /\ client' = [client EXCEPT ![c] = "keeping"]
        /\ held' = [held EXCEPT ![c] = held[c] + 1] /\ calls' = calls
        /\ held[c] \in Synch
    BY <1>11, <1>1 DEF KeepAliveUnlock, Fits
  <2>2. held[c] + 1 \in Holdable /\ Fits("keeping", held[c] + 1)
    BY <2>1, <1>2 DEF Fits
  <2> QED
    BY <2>1, <2>2, ConnectionGivenBack
<1>12. CASE StartKeepAlive(c)
  <2>1. /\ client[c] = "idle" /\ client' = [client EXCEPT ![c] = "keeping"]
        /\ held' = [held EXCEPT ![c] = 0] /\ owner' = owner
        /\ calls' \in [Client -> 0..MaxCalls]
    BY <1>12, <1>4 DEF StartKeepAlive
  <2>2. "keeping" \in ClientState /\ Fits("keeping", 0)
    BY <1>2 DEF ClientState, Fits
  <2> QED
    BY <2>1, <2>2, <1>2, CallGoesOn
<1>13. CASE KeepAliveSkip(c) \/ KeepAliveEnqueue(c)
  <2>1. /\ client[c] = "keeping" /\ client' = client /\ owner' = owner /\ calls' = calls
        /\ held' = [held EXCEPT ![c] = held[c] + 1]
        /\ held[c] < SynchThreads \/ held[c] \in SynchThreads..SynchThreads + opened - 1
    BY <1>13 DEF KeepAliveSkip, KeepAliveEnqueue
  <2>2. held[c] \in Slot
    BY <2>1, <1>1 DEF Fits
  <2>3. held[c] + 1 \in Slot
    BY <2>1, <2>2, <1>1 DEF Slot
  <2>4. held[c] + 1 \in Holdable /\ Fits("keeping", held[c] + 1)
    BY <2>3, <1>2 DEF Fits
  <2>5. client' = [client EXCEPT ![c] = "keeping"] /\ "keeping" \in ClientState
    BY <2>1, <1>3 DEF ClientState
  <2> QED
    BY <2>1, <2>4, <2>5, <1>1, CallGoesOn
<1> QED
    BY <1>5, <1>6, <1>7, <1>8, <1>9, <1>10, <1>11, <1>12, <1>13 DEF ClientStep, Serve

-----------------------------------------------------------------------------
(***************************************************************************)
(* A step that hands no object over and neither runs nor deletes one keeps *)
(* the ownership as it is.                                                 *)
(***************************************************************************)
LEMMA QuietStep ==
    ASSUME WorkInv, QueueInv', UNCHANGED <<queue, operation, object, promise, executed>>,
           \A c \in Client : client'[c] = "created" <=> client[c] = "created",
           \A c \in Client : client[c] = "created" => held'[c] = held[c],
           \A w \in Worker : worker'[w] = "called" <=> worker[w] = "called",
           \A w \in Worker : worker'[w] \in {"absent", "popping"} =>
                worker[w] \in {"absent", "popping"} \/ operation[w] = Null
    PROVE  WorkInv'
<1>1. Queued' = Queued /\ Executed' = Executed
    BY DEF Queued, Executed
<1>2. WorkTypes'
    BY DEF WorkInv, WorkTypes
<1>3. ClientsOwn'
    BY <1>1 DEF WorkInv, ClientsOwn
<1>4. QueueOwns'
    BY <1>1 DEF WorkInv, QueueOwns, NoneTwice
<1>5. WorkersOwn'
    BY <1>1 DEF WorkInv, WorkersOwn
<1>6. LiveIsOwned'
    BY <1>1 DEF WorkInv, LiveIsOwned
<1>7. PromisesFollow'
    BY <1>1 DEF WorkInv, PromisesFollow, NoneTwice
<1> QED
    BY <1>2, <1>3, <1>4, <1>5, <1>6, <1>7 DEF WorkInv

(***************************************************************************)
(* Push keeps the queue's variables well-typed.                            *)
(***************************************************************************)
LEMMA PushTyped ==
    ASSUME QueueInv, NEW o \in Op, Q!Push(o)
    PROVE  QueueInv'
<1>1. queue' = Append(queue, o) /\ pushed' = Append(pushed, o)
    BY DEF Q!Push
<1>2. queue' \in Seq(Op) /\ pushed' \in Seq(Op)
    BY <1>1, AppendProperties DEF QueueInv, Q!TypeOK
<1>3. UNCHANGED <<shutdown, popped, dropped>> /\ Q!NotifyOne
    BY DEF Q!Push
<1>4. waiting' \subseteq Worker /\ woken' \subseteq Worker /\ waiting' \cap woken' = {}
    BY <1>3 DEF QueueInv, Q!TypeOK, Q!NotifyOne
<1> QED
    BY <1>2, <1>3, <1>4 DEF QueueInv, Q!TypeOK

(***************************************************************************)
(* Cancel keeps the queue's variables well-typed.                          *)
(***************************************************************************)
LEMMA CancelTyped ==
    ASSUME QueueInv, Q!Cancel
    PROVE  QueueInv'
<1>1. /\ dropped' = dropped \o queue /\ queue' = <<>> /\ shutdown' = TRUE
      /\ waiting' = {} /\ woken' = woken \cup waiting
      /\ UNCHANGED <<pushed, popped>>
    BY DEF Q!Cancel, Q!NotifyAll
<1>2. dropped' \in Seq(Op) /\ queue' \in Seq(Op)
    BY <1>1, ConcatProperties, EmptySeq DEF QueueInv, Q!TypeOK
<1> QED
    BY <1>1, <1>2 DEF QueueInv, Q!TypeOK

(***************************************************************************)
(* A worker pops: the operation leaves the queue and is the worker's.      *)
(***************************************************************************)
LEMMA WorkerPopKeepsWorkInv ==
    ASSUME WorkInv, MainInv, NEW w \in Worker, WorkerPop(w)
    PROVE  WorkInv'
<1>1. /\ worker[w] = "popping" /\ Q!WaitAndPop(w)
      /\ worker' = [worker EXCEPT ![w] = IF w \in waiting' THEN "popping" ELSE "popped"]
      /\ operation' = [operation EXCEPT ![w] =
                            IF popped' # popped THEN Head(queue) ELSE Null]
      /\ UNCHANGED <<token, opVars, mainVars, clientVars>>
    BY DEF WorkerPop, Q!Enter, Q!Resume
<1>2. /\ operation \in [Worker -> Op \cup {Null}] /\ operation[w] = Null
      /\ worker \in [Worker ->
            {"absent", "popping", "popped", "called", "exited", "joined"}]
    BY <1>1 DEF WorkInv, WorkTypes, WorkersOwn, MainInv
<1>3. \A v \in Worker : v # w => worker'[v] = worker[v] /\ operation'[v] = operation[v]
    BY <1>1, <1>2
<1>4. worker'[w] \in {"popping", "popped"}
    BY <1>1, <1>2
<1>5. UNCHANGED <<object, promise, executed, client, held>>
    BY <1>1 DEF opVars, clientVars
<1>6. CASE Q!Sleep(w) \/ Q!ReturnNothing(w)
  <2>1. queue' = queue /\ popped' = popped
    BY <1>6 DEF Q!Sleep, Q!ReturnNothing, Q!history
  <2>2. QueueInv'
    BY <1>1, <1>6
    DEF Q!Sleep, Q!ReturnNothing, Q!history, QueueInv, Q!TypeOK, WorkInv, WorkTypes
  <2>3. operation' = operation
    BY <2>1, <1>1, <1>2
  <2> QED
    BY <2>1, <2>2, <2>3, <1>1, <1>2, <1>3, <1>4, <1>5, QuietStep
<1>7. CASE Q!PopFront(w)
  <2> DEFINE o == Head(queue)
  <2>1. /\ queue # <<>> /\ queue' = Tail(queue) /\ popped' = Append(popped, o)
        /\ woken' = woken \ {w} /\ UNCHANGED <<shutdown, waiting, pushed, dropped>>
    BY <1>7 DEF Q!PopFront
  <2>2. /\ queue \in Seq(Op) /\ popped \in Seq(Op) /\ NoneTwice(queue)
        /\ Queued = ValuesOf(queue)
    BY DEF WorkInv, WorkTypes, QueueInv, Q!TypeOK, QueueOwns, Queued, ValuesOf
  <2>3. /\ o \in Op /\ o \in Queued /\ queue' \in Seq(Op)
        /\ ValuesOf(queue') = Queued \ {o} /\ NoneTwice(queue')
    BY <2>1, <2>2, TailLosesHead
  <2>4. Queued' = Queued \ {o}
    BY <2>3 DEF Queued, ValuesOf
  <2>5. popped' \in Seq(Op) /\ popped' # popped
    <3>1. Len(popped) \in Nat /\ Len(popped') = Len(popped) + 1 /\ popped' \in Seq(Op)
        BY <2>1, <2>2, <2>3, LenProperties, AppendProperties
    <3>2. Len(popped') # Len(popped)
        BY <3>1
    <3> QED
        BY <3>1, <3>2
  <2>6. operation'[w] = o /\ operation' \in [Worker -> Op \cup {Null}]
    BY <2>3, <2>5, <1>1, <1>2
  <2>7. Executed' = Executed
    BY <1>5 DEF Executed
  <2>8. /\ object[o] = "live" /\ o \notin Executed /\ o # Null
        /\ \A v \in Worker : operation[v] # o
        /\ \A c \in Client : client[c] = "created" => held[c] # o
    BY <2>3, KindsAssumption DEF WorkInv, QueueOwns, ClientsOwn
  <2> HIDE DEF o
  <2>9. WorkTypes'
    BY <2>1, <2>3, <2>5, <2>6, <1>5 DEF WorkInv, WorkTypes, QueueInv, Q!TypeOK
  <2>10. ClientsOwn'
    <3>1. \A c \in Client : client[c] = "created" => \A v \in Worker : operation'[v] # held[c]
        BY <2>6, <2>8, <1>3 DEF WorkInv, ClientsOwn
    <3> QED
        BY <3>1, <2>4, <2>7, <1>5 DEF WorkInv, ClientsOwn
  <2>11. QueueOwns'
    <3>1. \A p \in Queued' : p \in Queued /\ p # o
        BY <2>4
    <3>2. \A p \in Queued', v \in Worker : operation'[v] # p
        BY <3>1, <2>6, <1>3 DEF WorkInv, QueueOwns
    <3> QED
        BY <3>1, <3>2, <2>3, <2>7, <1>5 DEF WorkInv, QueueOwns
  <2>12. WorkersOwn'
    <3>1. worker'[w] = "popped"
      <4>1. w \notin waiting
        BY <1>1, <1>7 DEF WorkerPop, Q!Enter, Q!Resume, Q!Inside, WorkInv, WorkTypes, QueueInv
      <4> QED
        BY <4>1, <2>1, <1>1, <1>2
    <3>2. \A v \in Worker : v # w => operation'[v] # o
        BY <2>8, <1>3
    <3>3. \A v \in Worker : v # w =>
            /\ operation[v] # Null =>
                 /\ object[operation[v]] = "live"
                 /\ operation[v] \in Executed <=> worker[v] = "called"
            /\ worker[v] \in {"absent", "popping"} => operation[v] = Null
            /\ worker[v] = "called" => operation[v] # Null
        BY DEF WorkInv, WorkersOwn
    <3>4. \A u, v \in Worker : operation'[u] # Null /\ operation'[u] = operation'[v] => u = v
        BY <3>2, <2>6, <1>3 DEF WorkInv, WorkersOwn
    <3> QED
        BY <3>1, <3>3, <3>4, <2>6, <2>7, <2>8, <1>3, <1>5 DEF WorkersOwn
  <2>13. LiveIsOwned'
    <3> SUFFICES ASSUME NEW p \in Op, object[p] = "live"
                 PROVE  \/ \E c \in Client : client[c] = "created" /\ held[c] = p
                        \/ p \in Queued'
                        \/ \E v \in Worker : operation'[v] = p
        BY <1>5 DEF LiveIsOwned
    <3>1. CASE p = o
        BY <3>1, <2>6
    <3>2. CASE p # o
      <4>1. \/ \E c \in Client : client[c] = "created" /\ held[c] = p
            \/ p \in Queued
            \/ \E v \in Worker : operation[v] = p
        BY DEF WorkInv, LiveIsOwned
      <4>2. \A v \in Worker : operation[v] = p => operation'[v] = p
        BY <1>2, <1>3, KindsAssumption
      <4> QED
        BY <4>1, <4>2, <3>2, <2>4
    <3> QED
        BY <3>1, <3>2
  <2>14. PromisesFollow'
    BY <2>7, <1>5 DEF WorkInv, PromisesFollow, NoneTwice
  <2> QED
    BY <2>9, <2>10, <2>11, <2>12, <2>13, <2>14 DEF WorkInv
<1> QED
    BY <1>1, <1>6, <1>7 DEF Q!WaitAndPop

(***************************************************************************)
(* call() runs the operation, for the first time, and keeps its promise.   *)
(***************************************************************************)
LEMMA WorkerCallKeepsWorkInv ==
    ASSUME WorkInv, MainInv, NEW w \in Worker, WorkerCall(w)
    PROVE  WorkInv'
<1> DEFINE o == operation[w]
<1>1. /\ worker[w] = "popped" /\ o # Null
      /\ promise' = [promise EXCEPT ![o] = IF promise[o] = "pending" THEN "value"
                                           ELSE promise[o]]
      /\ executed' = Append(executed, o)
      /\ worker' = [worker EXCEPT ![w] = "called"]
      /\ UNCHANGED <<operation, object, queueVars, client, held>>
    BY DEF WorkerCall, clientVars
<1>2. /\ executed \in Seq(Op) /\ promise \in [Op -> {"none", "pending", "value", "broken"}]
      /\ worker \in [Worker ->
            {"absent", "popping", "popped", "called", "exited", "joined"}]
      /\ NoneTwice(executed) /\ Executed = ValuesOf(executed)
    BY DEF WorkInv, WorkTypes, PromisesFollow, Executed, ValuesOf, MainInv
<1>3. o \in Op /\ object[o] = "live" /\ o \notin Executed
    BY <1>1 DEF WorkInv, WorkTypes, WorkersOwn
<1>4. /\ executed' \in Seq(Op) /\ NoneTwice(executed')
      /\ ValuesOf(executed') = Executed \cup {o}
    BY <1>1, <1>2, <1>3, AppendAddsValue, AppendProperties
<1>5. Executed' = Executed \cup {o}
    BY <1>4 DEF Executed, ValuesOf
<1>6. Queued' = Queued /\ queue' = queue
    BY <1>1 DEF Queued, queueVars
<1>7. /\ worker'[w] = "called"
      /\ \A v \in Worker : v # w => worker'[v] = worker[v] /\ (operation[v] # o)
    BY <1>1, <1>2 DEF WorkInv, WorkersOwn
<1>8. /\ \A c \in Client : client[c] = "created" => held[c] # o
      /\ o \notin Queued
    BY DEF WorkInv, ClientsOwn, QueueOwns
<1>9. \A p \in Op : p # o => promise'[p] = promise[p]
    BY <1>1, <1>2
<1>10. promise'[o] = IF promise[o] = "pending" THEN "value" ELSE promise[o]
    BY <1>1, <1>2, <1>3
<1>11. operation \in [Worker -> Op \cup {Null}]
    BY DEF WorkInv, WorkTypes
<1>12. WorkTypes'
  <2>1. promise' \in [Op -> {"none", "pending", "value", "broken"}]
    BY <1>1, <1>2, <1>3
  <2> QED
    BY <2>1, <1>1, <1>4 DEF WorkInv, WorkTypes, QueueInv, Q!TypeOK, queueVars
<1> HIDE DEF o
<1>13. ClientsOwn'
    BY <1>1, <1>5, <1>6, <1>8 DEF WorkInv, ClientsOwn
<1>14. QueueOwns'
    BY <1>1, <1>5, <1>6, <1>8 DEF WorkInv, QueueOwns
<1>15. WorkersOwn'
  <2>1. \A v \in Worker : v # w => operation[v] # o
    BY <1>7
  <2> QED
    BY <2>1, <1>1, <1>3, <1>5, <1>7 DEF WorkInv, WorkersOwn, o
<1>16. LiveIsOwned'
    BY <1>1, <1>6 DEF WorkInv, LiveIsOwned
<1>17. PromisesFollow'
  <2>1. \A p \in Executed' : object'[p] # "none"
    BY <1>1, <1>3, <1>5 DEF WorkInv, PromisesFollow
  <2>2. ASSUME NEW p \in WithResult
        PROVE  /\ promise'[p] = "value" <=> p \in Executed'
               /\ promise'[p] = "broken" <=> object[p] = "deleted" /\ p \notin Executed'
               /\ promise'[p] = "pending" <=> object[p] = "live" /\ p \notin Executed'
    <3>1. /\ p \in Op
          /\ promise[p] = "value" <=> p \in Executed
          /\ promise[p] = "broken" <=> object[p] = "deleted" /\ p \notin Executed
          /\ promise[p] = "pending" <=> object[p] = "live" /\ p \notin Executed
        BY DEF WorkInv, PromisesFollow, Op
    <3>2. CASE p = o
        BY <3>1, <3>2, <1>3, <1>5, <1>10
    <3>3. CASE p # o
        BY <3>1, <3>3, <1>5, <1>9
    <3> QED
        BY <3>2, <3>3
  <2> QED
    BY <2>1, <2>2, <1>1, <1>4 DEF PromisesFollow
<1> QED
    BY <1>12, <1>13, <1>14, <1>15, <1>16, <1>17 DEF WorkInv

(***************************************************************************)
(* The worker deletes what it has run.                                     *)
(***************************************************************************)
LEMMA WorkerDeleteKeepsWorkInv ==
    ASSUME WorkInv, MainInv, ClientInv, NEW w \in Worker, WorkerDelete(w)
    PROVE  WorkInv'
<1> DEFINE o == operation[w]
<1>1. /\ worker[w] = "called"
      /\ object' = Deleted({o}) /\ promise' = Broken({o})
      /\ operation' = [operation EXCEPT ![w] = Null]
      /\ worker' = [worker EXCEPT ![w] = "popping"]
      /\ UNCHANGED <<executed, queueVars, client, held>>
    BY DEF WorkerDelete, clientVars
<1>2. /\ operation \in [Worker -> Op \cup {Null}]
      /\ object \in [Op -> {"none", "live", "deleted"}]
      /\ promise \in [Op -> {"none", "pending", "value", "broken"}]
      /\ worker \in [Worker ->
            {"absent", "popping", "popped", "called", "exited", "joined"}]
    BY DEF WorkInv, WorkTypes, MainInv
<1>3. o \in Op /\ object[o] = "live" /\ o \in Executed
    BY <1>1, <1>2 DEF WorkInv, WorkersOwn
<1>4. /\ object'[o] = "deleted" /\ \A p \in Op : p # o => object'[p] = object[p]
      /\ \A p \in Op : p # o => promise'[p] = promise[p]
      /\ promise'[o] = IF promise[o] = "pending" THEN "broken" ELSE promise[o]
    BY <1>1, <1>3 DEF Deleted, Broken
<1>5. /\ operation'[w] = Null /\ worker'[w] = "popping"
      /\ \A v \in Worker : v # w => /\ operation'[v] = operation[v]
                                    /\ worker'[v] = worker[v] /\ operation[v] # o
    BY <1>1, <1>2, <1>3, KindsAssumption DEF WorkInv, WorkersOwn
<1>6. Queued' = Queued /\ Executed' = Executed /\ queue' = queue
    BY <1>1 DEF Queued, Executed, queueVars
<1>7. /\ \A c \in Client : client[c] = "created" => held[c] # o
      /\ o \notin Queued
    BY DEF WorkInv, ClientsOwn, QueueOwns
<1>8. WorkTypes'
  <2>1. /\ object' \in [Op -> {"none", "live", "deleted"}]
        /\ promise' \in [Op -> {"none", "pending", "value", "broken"}]
    BY <1>1, <1>2 DEF Deleted, Broken
  <2>2. operation' \in [Worker -> Op \cup {Null}]
    BY <1>1, <1>2
  <2> QED
    BY <2>1, <2>2, <1>1 DEF WorkInv, WorkTypes, QueueInv, Q!TypeOK, queueVars
<1>9. Null \notin Op
    BY KindsAssumption
<1> HIDE DEF o
<1>10. ClientsOwn'
  <2>1. ASSUME NEW c \in Client, client[c] = "created"
        PROVE  /\ object'[held[c]] = "live" /\ held[c] \notin Executed \cup Queued
               /\ \A v \in Worker : operation'[v] # held[c]
    <3>1. /\ object[held[c]] = "live" /\ held[c] \notin Executed \cup Queued
          /\ \A v \in Worker : operation[v] # held[c]
        BY <2>1 DEF WorkInv, ClientsOwn
    <3>2. held[c] \in Op /\ held[c] # Null
        BY <2>1, <1>9 DEF ClientInv
    <3> QED
        BY <3>1, <3>2, <1>4, <1>5, <1>7, <2>1
  <2> QED
    BY <2>1, <1>1, <1>6 DEF WorkInv, ClientsOwn
<1>11. QueueOwns'
  <2>1. \A p \in Queued : p \in Op /\ p # o
    BY <1>7, ElementOfSeq DEF WorkInv, WorkTypes, QueueInv, Q!TypeOK, Queued
  <2> QED
    BY <2>1, <1>4, <1>5, <1>6, <1>9 DEF WorkInv, QueueOwns
<1>12. WorkersOwn'
    BY <1>2, <1>4, <1>5, <1>6 DEF WorkInv, WorkersOwn
<1>13. LiveIsOwned'
  <2> SUFFICES ASSUME NEW p \in Op, object'[p] = "live"
               PROVE  \/ \E c \in Client : client[c] = "created" /\ held[c] = p
                      \/ p \in Queued
                      \/ \E v \in Worker : operation'[v] = p
    BY <1>1, <1>6 DEF LiveIsOwned
  <2>1. p # o /\ object[p] = "live"
    BY <1>4
  <2>2. \A v \in Worker : operation[v] = p => operation'[v] = p
    BY <2>1, <1>5 DEF o
  <2> QED
    BY <2>1, <2>2 DEF WorkInv, LiveIsOwned
<1>14. PromisesFollow'
  <2>1. \A p \in Executed : p \in Op => object'[p] # "none"
    BY <1>4 DEF WorkInv, PromisesFollow
  <2>2. \A p \in Executed : p \in Op
    BY ElementOfSeq DEF WorkInv, WorkTypes, Executed
  <2>3. ASSUME NEW p \in WithResult
        PROVE  /\ promise'[p] = "value" <=> p \in Executed
               /\ promise'[p] = "broken" <=> object'[p] = "deleted" /\ p \notin Executed
               /\ promise'[p] = "pending" <=> object'[p] = "live" /\ p \notin Executed
    <3>1. /\ p \in Op
          /\ promise[p] = "value" <=> p \in Executed
          /\ promise[p] = "broken" <=> object[p] = "deleted" /\ p \notin Executed
          /\ promise[p] = "pending" <=> object[p] = "live" /\ p \notin Executed
        BY DEF WorkInv, PromisesFollow, Op
    <3> QED
        BY <3>1, <1>3, <1>4
  <2> QED
    BY <2>1, <2>2, <2>3, <1>1, <1>6 DEF WorkInv, PromisesFollow, NoneTwice
<1> QED
    BY <1>8, <1>10, <1>11, <1>12, <1>13, <1>14 DEF WorkInv

(***************************************************************************)
(* Cancel deletes what is queued, and the promises of it are broken.       *)
(***************************************************************************)
LEMMA CancelKeepsWorkInv ==
    ASSUME WorkInv, ClientInv, Q!Cancel, object' = Deleted(Queued), promise' = Broken(Queued),
           UNCHANGED <<worker, operation, executed, client, held>>
    PROVE  WorkInv'
<1>1. QueueInv' /\ queue' = <<>> /\ Len(queue') = 0
    BY CancelTyped, EmptySeq DEF WorkInv, WorkTypes, Q!Cancel
<1>2. Queued' = {} /\ Executed' = Executed /\ NoneTwice(queue')
    BY <1>1 DEF Queued, Executed, NoneTwice
<1>3. /\ object \in [Op -> {"none", "live", "deleted"}]
      /\ promise \in [Op -> {"none", "pending", "value", "broken"}]
      /\ operation \in [Worker -> Op \cup {Null}]
    BY DEF WorkInv, WorkTypes
<1>4. /\ \A o \in Op : o \in Queued => object'[o] = "deleted"
      /\ \A o \in Op : o \notin Queued => object'[o] = object[o]
      /\ \A o \in Op : o \notin Queued => promise'[o] = promise[o]
      /\ \A o \in Op : o \in Queued =>
            promise'[o] = IF promise[o] = "pending" THEN "broken" ELSE promise[o]
    BY DEF Deleted, Broken
<1>5. WorkTypes'
  <2>1. /\ object' \in [Op -> {"none", "live", "deleted"}]
        /\ promise' \in [Op -> {"none", "pending", "value", "broken"}]
    BY <1>3 DEF Deleted, Broken
  <2> QED
    BY <2>1, <1>1 DEF WorkInv, WorkTypes
<1>6. \A o \in Queued : object[o] = "live" /\ o \notin Executed
                        /\ \A w \in Worker : operation[w] # o
    BY DEF WorkInv, QueueOwns
<1>7. object' = [o \in Op |-> IF o \in Queued THEN "deleted" ELSE object[o]]
    BY DEF Deleted
<1>8. ASSUME NEW c \in Client, client[c] = "created"
      PROVE  object'[held[c]] = "live"
  <2>1. held[c] \notin Queued /\ object[held[c]] = "live" /\ held[c] \in Op
    BY <1>8 DEF WorkInv, ClientsOwn, ClientInv
  <2> QED
    BY <2>1, <1>4
<1>9. ClientsOwn'
    BY <1>2, <1>8 DEF WorkInv, ClientsOwn
<1>10. QueueOwns'
    BY <1>2 DEF QueueOwns
<1>11. WorkersOwn'
    BY <1>2, <1>3, <1>4, <1>6 DEF WorkInv, WorkersOwn
<1>12. LiveIsOwned'
    BY <1>4 DEF WorkInv, LiveIsOwned
<1>13. PromisesFollow'
  <2>1. \A o \in Executed : o \in Op
    BY ElementOfSeq DEF WorkInv, WorkTypes, Executed
  <2>2. \A o \in Executed : object'[o] # "none"
    BY <2>1, <1>4 DEF WorkInv, PromisesFollow
  <2>3. ASSUME NEW o \in WithResult
        PROVE  /\ promise'[o] = "value" <=> o \in Executed
               /\ promise'[o] = "broken" <=> object'[o] = "deleted" /\ o \notin Executed
               /\ promise'[o] = "pending" <=> object'[o] = "live" /\ o \notin Executed
    <3>1. /\ o \in Op
          /\ promise[o] = "value" <=> o \in Executed
          /\ promise[o] = "broken" <=> object[o] = "deleted" /\ o \notin Executed
          /\ promise[o] = "pending" <=> object[o] = "live" /\ o \notin Executed
        BY DEF WorkInv, PromisesFollow, Op
    <3>2. CASE o \in Queued
        BY <3>1, <3>2, <1>4, <1>6
    <3>3. CASE o \notin Queued
        BY <3>1, <3>3, <1>4
    <3> QED
        BY <3>2, <3>3
  <2> QED
    BY <2>2, <2>3, <1>2 DEF WorkInv, PromisesFollow, NoneTwice
<1> QED
    BY <1>5, <1>9, <1>10, <1>11, <1>12, <1>13 DEF WorkInv

(***************************************************************************)
(* A client creates a task and owns it.                                    *)
(***************************************************************************)
LEMMA NewTaskKeepsWorkInv ==
    ASSUME WorkInv, ClientInv, NEW c \in Client, NEW o \in OneWay \cup WithResult,
           NewTask(c, o)
    PROVE  WorkInv'
<1>1. /\ client[c] = "idle" /\ object[o] = "none"
      /\ object' = [object EXCEPT ![o] = "live"]
      /\ promise' = [promise EXCEPT ![o] = IF o \in WithResult THEN "pending" ELSE "none"]
      /\ client' = [client EXCEPT ![c] = "created"]
      /\ held' = [held EXCEPT ![c] = o]
      /\ UNCHANGED <<executed, queueVars, workerVars>>
    BY DEF NewTask
<1>2. /\ o \in Op /\ object \in [Op -> {"none", "live", "deleted"}]
      /\ promise \in [Op -> {"none", "pending", "value", "broken"}]
    BY DEF Op, WorkInv, WorkTypes
<1>3. /\ object'[o] = "live" /\ \A p \in Op : p # o => object'[p] = object[p]
      /\ promise'[o] = IF o \in WithResult THEN "pending" ELSE "none"
      /\ \A p \in Op : p # o => promise'[p] = promise[p]
    BY <1>1, <1>2
<1>4. /\ client'[c] = "created" /\ held'[c] = o
      /\ \A d \in Client : d # c => client'[d] = client[d] /\ held'[d] = held[d]
    BY <1>1 DEF ClientInv
<1>5. /\ Queued' = Queued /\ Executed' = Executed /\ queue' = queue
      /\ operation' = operation /\ worker' = worker
    BY <1>1 DEF Queued, Executed, queueVars, workerVars
<1>6. /\ o \notin Executed /\ o \notin Queued /\ o # Null
      /\ \A w \in Worker : operation[w] # o
      /\ \A d \in Client : client[d] = "created" => held[d] # o /\ held[d] \in Op
    BY <1>1, <1>2, KindsAssumption
    DEF WorkInv, PromisesFollow, QueueOwns, WorkersOwn, ClientsOwn, ClientInv
<1>7. /\ \A p \in Executed : p \in Op
      /\ \A p \in Queued : p \in Op
      /\ operation \in [Worker -> Op \cup {Null}]
    BY ElementOfSeq DEF WorkInv, WorkTypes, QueueInv, Q!TypeOK, Executed, Queued
<1>8. WorkTypes'
    BY <1>1, <1>2 DEF WorkInv, WorkTypes, QueueInv, Q!TypeOK, queueVars, workerVars
<1>9. ClientsOwn'
    BY <1>3, <1>4, <1>5, <1>6 DEF WorkInv, ClientsOwn
<1>10. QueueOwns'
    BY <1>3, <1>5, <1>6, <1>7 DEF WorkInv, QueueOwns
<1>11. WorkersOwn'
    BY <1>3, <1>5, <1>6, <1>7 DEF WorkInv, WorkersOwn
<1>12. LiveIsOwned'
  <2> SUFFICES ASSUME NEW p \in Op, object'[p] = "live"
               PROVE  \/ \E d \in Client : client'[d] = "created" /\ held'[d] = p
                      \/ p \in Queued
                      \/ \E w \in Worker : operation[w] = p
    BY <1>5 DEF LiveIsOwned
  <2>1. CASE p = o
    BY <2>1, <1>4
  <2>2. CASE p # o
    <3>1. \A d \in Client : client[d] = "created" => client'[d] = "created" /\ d # c
        BY <1>1, <1>4
    <3> QED
        BY <3>1, <2>2, <1>3, <1>4 DEF WorkInv, LiveIsOwned
  <2> QED
    BY <2>1, <2>2
<1>13. PromisesFollow'
  <2>1. \A p \in Executed : object'[p] # "none"
    BY <1>3, <1>6, <1>7 DEF WorkInv, PromisesFollow
  <2>2. ASSUME NEW p \in WithResult
        PROVE  /\ promise'[p] = "value" <=> p \in Executed
               /\ promise'[p] = "broken" <=> object'[p] = "deleted" /\ p \notin Executed
               /\ promise'[p] = "pending" <=> object'[p] = "live" /\ p \notin Executed
    <3>1. /\ p \in Op
          /\ promise[p] = "value" <=> p \in Executed
          /\ promise[p] = "broken" <=> object[p] = "deleted" /\ p \notin Executed
          /\ promise[p] = "pending" <=> object[p] = "live" /\ p \notin Executed
        BY DEF WorkInv, PromisesFollow, Op
    <3>2. CASE p = o
        BY <3>2, <1>3, <1>6
    <3>3. CASE p # o
        BY <3>1, <3>3, <1>3
    <3> QED
        BY <3>2, <3>3
  <2> QED
    BY <2>1, <2>2, <1>1, <1>5 DEF WorkInv, PromisesFollow, NoneTwice
<1> QED
    BY <1>8, <1>9, <1>10, <1>11, <1>12, <1>13 DEF WorkInv

(***************************************************************************)
(* A client hands its task to the queue.                                   *)
(***************************************************************************)
LEMMA EnqueueKeepsWorkInv ==
    ASSUME WorkInv, ClientInv, NEW c \in Client, Enqueue(c)
    PROVE  WorkInv'
<1> DEFINE o == held[c]
<1>1. /\ client[c] = "created" /\ Q!Push(o)
      /\ client' = [client EXCEPT ![c] = "idle"]
      /\ held' = [held EXCEPT ![c] = Null]
      /\ UNCHANGED <<worker, operation, object, promise, executed>>
    BY DEF Enqueue, workerVars, opVars
<1>2. /\ o \in Op /\ object[o] = "live" /\ o \notin Executed /\ o \notin Queued
      /\ \A w \in Worker : operation[w] # o
      /\ \A d \in Client : client[d] = "created" /\ d # c => held[d] # o
    BY <1>1 DEF ClientInv, WorkInv, ClientsOwn
<1>3. /\ client'[c] = "idle"
      /\ \A d \in Client : d # c => client'[d] = client[d] /\ held'[d] = held[d]
    BY <1>1 DEF ClientInv
<1>4. /\ queue \in Seq(Op) /\ NoneTwice(queue) /\ Queued = ValuesOf(queue)
      /\ queue' = Append(queue, o)
    BY <1>1 DEF WorkInv, WorkTypes, QueueInv, Q!TypeOK, QueueOwns, Queued, ValuesOf, Q!Push
<1>5. ValuesOf(queue') = Queued \cup {o} /\ NoneTwice(queue')
    BY <1>2, <1>4, AppendAddsValue
<1>6. Queued' = Queued \cup {o} /\ Executed' = Executed
    BY <1>1, <1>5 DEF Queued, Executed, ValuesOf
<1>7. QueueInv'
    BY <1>1, <1>2, PushTyped DEF WorkInv, WorkTypes
<1> HIDE DEF o
<1>8. WorkTypes'
    BY <1>1, <1>7 DEF WorkInv, WorkTypes
<1>9. \A d \in Client : client'[d] = "created" =>
            client[d] = "created" /\ held'[d] = held[d] /\ d # c
    BY <1>3
<1>10. ClientsOwn'
    BY <1>1, <1>2, <1>6, <1>9 DEF WorkInv, ClientsOwn
<1>11. QueueOwns'
    BY <1>1, <1>2, <1>5, <1>6 DEF WorkInv, QueueOwns
<1>12. WorkersOwn'
    BY <1>1, <1>6 DEF WorkInv, WorkersOwn
<1>13. LiveIsOwned'
  <2> SUFFICES ASSUME NEW p \in Op, object[p] = "live", p \notin Queued',
                      \A w \in Worker : operation[w] # p
               PROVE  \E d \in Client : client'[d] = "created" /\ held'[d] = p
    BY <1>1 DEF LiveIsOwned
  <2>1. PICK d \in Client : client[d] = "created" /\ held[d] = p
    BY <1>6 DEF WorkInv, LiveIsOwned
  <2>2. d # c
    BY <2>1, <1>6 DEF o
  <2> QED
    BY <2>1, <2>2, <1>3
<1>14. PromisesFollow'
    BY <1>1, <1>6 DEF WorkInv, PromisesFollow, NoneTwice
<1> QED
    BY <1>8, <1>10, <1>11, <1>12, <1>13, <1>14 DEF WorkInv

(***************************************************************************)
(* KeepAlive creates a ping and hands it to the queue at once.             *)
(***************************************************************************)
LEMMA KeepAliveEnqueueKeepsWorkInv ==
    ASSUME WorkInv, ClientInv, NEW c \in Client, KeepAliveEnqueue(c)
    PROVE  WorkInv'
<1>1. PICK o \in Ping : /\ object[o] = "none"
                        /\ object' = [object EXCEPT ![o] = "live"]
                        /\ Q!Push(o)
    BY DEF KeepAliveEnqueue
<1>2. /\ client[c] = "keeping" /\ client' = client
      /\ held' = [held EXCEPT ![c] = held[c] + 1]
      /\ UNCHANGED <<worker, operation, promise, executed>>
    BY DEF KeepAliveEnqueue, workerVars
<1>3. o \in Op /\ o \notin WithResult /\ object \in [Op -> {"none", "live", "deleted"}]
    BY KindsAssumption DEF Op, WorkInv, WorkTypes
<1>4. object'[o] = "live" /\ \A p \in Op : p # o => object'[p] = object[p]
    BY <1>1, <1>3
<1>5. /\ o \notin Executed /\ o \notin Queued /\ o # Null
      /\ \A w \in Worker : operation[w] # o
      /\ \A d \in Client : client[d] = "created" =>
            held[d] # o /\ held[d] \in Op /\ held'[d] = held[d]
  <2>1. \A d \in Client : d # c => held'[d] = held[d]
    BY <1>2 DEF ClientInv
  <2> QED
    BY <2>1, <1>1, <1>2, <1>3, KindsAssumption
    DEF WorkInv, PromisesFollow, QueueOwns, WorkersOwn, ClientsOwn, ClientInv
<1>6. /\ queue \in Seq(Op) /\ NoneTwice(queue) /\ Queued = ValuesOf(queue)
      /\ queue' = Append(queue, o)
    BY <1>1 DEF WorkInv, WorkTypes, QueueInv, Q!TypeOK, QueueOwns, Queued, ValuesOf, Q!Push
<1>7. ValuesOf(queue') = Queued \cup {o} /\ NoneTwice(queue')
    BY <1>3, <1>5, <1>6, AppendAddsValue
<1>8. Queued' = Queued \cup {o} /\ Executed' = Executed
    BY <1>2, <1>7 DEF Queued, Executed, ValuesOf
<1>9. QueueInv'
    BY <1>1, <1>3, PushTyped DEF WorkInv, WorkTypes
<1>10. /\ \A p \in Executed : p \in Op
       /\ \A p \in Queued : p \in Op
       /\ operation \in [Worker -> Op \cup {Null}]
    BY ElementOfSeq DEF WorkInv, WorkTypes, QueueInv, Q!TypeOK, Executed, Queued
<1>11. WorkTypes'
    BY <1>1, <1>2, <1>3, <1>9 DEF WorkInv, WorkTypes
<1>12. ClientsOwn'
    BY <1>2, <1>4, <1>5, <1>8 DEF WorkInv, ClientsOwn
<1>13. QueueOwns'
    BY <1>2, <1>4, <1>5, <1>7, <1>8, <1>10 DEF WorkInv, QueueOwns
<1>14. WorkersOwn'
    BY <1>2, <1>4, <1>5, <1>8, <1>10 DEF WorkInv, WorkersOwn
<1>15. LiveIsOwned'
  <2> SUFFICES ASSUME NEW p \in Op, object'[p] = "live", p # o
               PROVE  \/ \E d \in Client : client[d] = "created" /\ held'[d] = p
                      \/ p \in Queued
                      \/ \E w \in Worker : operation[w] = p
    BY <1>2, <1>8 DEF LiveIsOwned
  <2>1. object[p] = "live"
    BY <1>4
  <2> QED
    BY <2>1, <1>5 DEF WorkInv, LiveIsOwned
<1>16. PromisesFollow'
  <2>1. \A p \in Executed : object'[p] # "none"
    BY <1>4, <1>5, <1>10 DEF WorkInv, PromisesFollow
  <2>2. \A p \in WithResult : object'[p] = object[p]
    BY <1>3, <1>4 DEF Op
  <2> QED
    BY <2>1, <2>2, <1>2, <1>8 DEF WorkInv, PromisesFollow, NoneTwice
<1> QED
    BY <1>11, <1>12, <1>13, <1>14, <1>15, <1>16 DEF WorkInv

-----------------------------------------------------------------------------
(***************************************************************************)
(* The three invariants together.                                          *)
(***************************************************************************)
IInv == MainInv /\ ClientInv /\ WorkInv

(***************************************************************************)
(* Before the pool is opened nothing exists.                               *)
(***************************************************************************)
LEMMA InitIInv == Init => IInv
<1> SUFFICES ASSUME Init PROVE IInv
    OBVIOUS
<1> USE ThreadsAssumption
<1>1. MainInv
  <2>1. doomed \in Seq(Worker)
    BY EmptySeq DEF Init
  <2> QED
    BY <2>1 DEF Init, MainInv
<1>2. ClientInv
  <2>1. Null \notin Client
    BY KindsAssumption
  <2> QED
    BY <2>1 DEF Init, ClientInv, ConnectionHasOneUser
<1>3. WorkInv
  <2>1. /\ queue = <<>> /\ executed = <<>> /\ Len(<<>>) = 0
        /\ <<>> \in Seq(Op)
    BY EmptySeq DEF Init, Q!Init
  <2>2. Queued = {} /\ Executed = {} /\ NoneTwice(queue) /\ NoneTwice(executed)
    BY <2>1 DEF Queued, Executed, NoneTwice
  <2>3. /\ \A o \in Op : object[o] = "none" /\ promise[o] = "none"
        /\ \A c \in Client : client[c] = "idle"
        /\ \A w \in Worker : operation[w] = Null /\ worker[w] = "absent"
    BY DEF Init
  <2>4. WorkTypes
    BY <2>1 DEF Init, Q!Init, WorkTypes, QueueInv, Q!TypeOK
  <2>5. ClientsOwn /\ QueueOwns /\ WorkersOwn /\ LiveIsOwned
    BY <2>2, <2>3 DEF ClientsOwn, QueueOwns, WorkersOwn, LiveIsOwned
  <2>6. PromisesFollow
    <3>1. \A o \in WithResult : o \in Op
        BY DEF Op
    <3> QED
        BY <3>1, <2>2, <2>3 DEF PromisesFollow
  <2> QED
    BY <2>4, <2>5, <2>6 DEF WorkInv
<1> QED
    BY <1>1, <1>2, <1>3 DEF IInv

(***************************************************************************)
(* The invariants hold in every reachable state.                           *)
(***************************************************************************)
THEOREM Invariance == Spec => []IInv
<1>1. IInv /\ [Next]_vars => IInv'
  <2> SUFFICES ASSUME IInv, [Next]_vars PROVE IInv'
    OBVIOUS
  <2> USE DEF IInv
  <2>1. ASSUME UNCHANGED <<worker, mainVars, token>> PROVE MainInv'
    BY <2>1 DEF MainInv, mainVars
  <2>2. ASSUME UNCHANGED clientVars PROVE ClientInv'
    BY <2>2 DEF ClientInv, ConnectionHasOneUser, clientVars
  <2>3. ASSUME UNCHANGED queueVars PROVE QueueInv'
    BY <2>3 DEF QueueInv, Q!TypeOK, queueVars, WorkInv, WorkTypes
  <2>4. ASSUME NEW w \in Worker, WorkerStep(w) PROVE IInv'
    <3>1. MainInv'
        BY <2>4, WorkerStepKeepsMainInv
    <3>2. ClientInv'
        BY <2>2, <2>4 DEF WorkerStep, WorkerPop, WorkerExit, WorkerCall, WorkerDelete
    <3>3. CASE WorkerExit(w)
      <4>1. /\ worker[w] = "popped" /\ worker' = [worker EXCEPT ![w] = "exited"]
            /\ UNCHANGED <<operation, queueVars, opVars, clientVars>>
        BY <3>3 DEF WorkerExit
      <4>2. \A v \in Worker : worker'[v] = IF v = w THEN "exited" ELSE worker[v]
        BY <4>1 DEF MainInv
      <4>3. QueueInv'
        BY <4>1, <2>3
      <4>4. WorkInv'
        BY <4>1, <4>2, <4>3, QuietStep DEF queueVars, opVars, clientVars
      <4> QED
        BY <3>1, <3>2, <4>4
    <3> QED
        BY <3>1, <3>2, <3>3, <2>4, WorkerPopKeepsWorkInv, WorkerCallKeepsWorkInv,
           WorkerDeleteKeepsWorkInv DEF WorkerStep
  <2>5. ASSUME NEW w \in Worker, WorkerSpuriousWakeup(w) PROVE IInv'
    <3>1. /\ Q!SpuriousWakeup(w) /\ UNCHANGED <<workerVars, opVars, mainVars, clientVars>>
        BY <2>5 DEF WorkerSpuriousWakeup
    <3>2. QueueInv' /\ queue' = queue
        BY <3>1 DEF Q!SpuriousWakeup, Q!history, QueueInv, Q!TypeOK, WorkInv, WorkTypes
    <3>3. WorkInv'
        BY <3>1, <3>2, QuietStep DEF workerVars, opVars, clientVars
    <3> QED
        BY <3>1, <3>3, <2>1, <2>2 DEF workerVars
  <2>6. ASSUME MainStep PROVE IInv'
    <3>1. MainInv' /\ ClientInv'
        BY <2>2, <2>6, MainStepKeepsMainInv
        DEF MainStep, CreateAsync, Connected, ConnectFailed, VersionRejected, OpenSynch,
            AbandonPool, Close, SetToken, CancelQueue, Join, Closed
    <3>2. CASE CreateAsync
      <4>1. /\ phase = "opening" /\ opened < AsyncThreads
            /\ worker' = [worker EXCEPT ![opened + 1] = "popping"]
            /\ UNCHANGED <<operation, queueVars, opVars, clientVars>>
        BY <3>2 DEF CreateAsync
      <4>2. opened + 1 \in Worker /\ worker[opened + 1] = "absent"
        <5>1. opened + 1 \in Worker /\ opened + 1 > opened
            BY <4>1, ThreadsAssumption DEF MainInv, Worker
        <5> QED
            BY <5>1, <4>1 DEF MainInv
      <4>3. \A v \in Worker :
                worker'[v] = IF v = opened + 1 THEN "popping" ELSE worker[v]
        BY <4>1 DEF MainInv
      <4>4. QueueInv'
        BY <4>1, <2>3
      <4>5. /\ \A v \in Worker : worker'[v] = "called" <=> worker[v] = "called"
            /\ \A v \in Worker : worker'[v] \in {"absent", "popping"} =>
                    worker[v] \in {"absent", "popping"}
        BY <4>2, <4>3
      <4> QED
        BY <3>1, <4>1, <4>4, <4>5, QuietStep DEF queueVars, opVars, clientVars
    <3>3. CASE Join
      <4>1. /\ worker[Head(doomed)] = "exited"
            /\ worker' = [worker EXCEPT ![Head(doomed)] = "joined"]
            /\ UNCHANGED <<operation, queueVars, opVars, clientVars>>
        BY <3>3 DEF Join
      <4>2. /\ \A v \in Worker : worker'[v] = "called" <=> worker[v] = "called"
            /\ \A v \in Worker : worker'[v] \in {"absent", "popping"} =>
                    worker[v] \in {"absent", "popping"}
        BY <4>1 DEF MainInv
      <4>3. QueueInv'
        BY <4>1, <2>3
      <4> QED
        BY <3>1, <4>1, <4>2, <4>3, QuietStep DEF queueVars, opVars, clientVars
    <3>4. CASE AbandonPool \/ CancelQueue
      <4>1. /\ Q!Cancel /\ object' = Deleted(Queued) /\ promise' = Broken(Queued)
            /\ UNCHANGED <<worker, operation, executed, client, held>>
        BY <3>4 DEF AbandonPool, CancelQueue, workerVars, clientVars
      <4> QED
        BY <3>1, <4>1, CancelKeepsWorkInv
    <3>5. CASE Connected \/ ConnectFailed \/ VersionRejected \/ OpenSynch \/ Close
               \/ SetToken \/ Closed
      <4>1. UNCHANGED <<worker, operation, queueVars, opVars, clientVars>>
        BY <3>5 DEF Connected, ConnectFailed, VersionRejected, OpenSynch, Close, SetToken,
                    Closed, workerVars
      <4>2. QueueInv'
        BY <4>1, <2>3
      <4> QED
        BY <3>1, <4>1, <4>2, QuietStep DEF queueVars, opVars, clientVars
    <3> QED
        BY <3>2, <3>3, <3>4, <3>5, <2>6 DEF MainStep
  <2>7. ASSUME NEW c \in Client, ClientStep(c) PROVE IInv'
    <3>1. MainInv' /\ ClientInv'
        BY <2>1, <2>7, ClientStepKeepsClientInv
        DEF ClientStep, Serve, NewTask, Enqueue, StartSynch, LockIfReady, ProbeNext, Unlock,
            StartKeepAlive, KeepAliveLock, KeepAliveSkip, KeepAliveUnlock,
            KeepAliveEnqueue, KeepAliveReturn, workerVars
    <3>2. ASSUME NEW o \in OneWay \cup WithResult, NewTask(c, o) PROVE IInv'
        BY <3>1, <3>2, NewTaskKeepsWorkInv
    <3>3. CASE Enqueue(c) \/ KeepAliveEnqueue(c)
        BY <3>1, <3>3, EnqueueKeepsWorkInv, KeepAliveEnqueueKeepsWorkInv
    <3>4. CASE \/ StartSynch(c) \/ LockIfReady(c) \/ ProbeNext(c) \/ Unlock(c)
               \/ StartKeepAlive(c) \/ KeepAliveLock(c) \/ KeepAliveSkip(c)
               \/ KeepAliveUnlock(c) \/ KeepAliveReturn(c)
      <4>1. UNCHANGED <<queueVars, workerVars, opVars>>
        BY <3>4 DEF StartSynch, LockIfReady, ProbeNext, Unlock, StartKeepAlive,
                    KeepAliveLock, KeepAliveSkip, KeepAliveUnlock, KeepAliveReturn
      <4>2. client[c] # "created"
        BY <3>4 DEF StartSynch, LockIfReady, ProbeNext, Unlock, StartKeepAlive,
                    KeepAliveLock, KeepAliveSkip, KeepAliveUnlock, KeepAliveReturn
      <4>3. client'[c] # "created"
        BY <3>4, <4>2
        DEF StartSynch, LockIfReady, ProbeNext, Unlock, StartKeepAlive, ClientInv,
            KeepAliveLock, KeepAliveSkip, KeepAliveUnlock, KeepAliveReturn
      <4>4. \A d \in Client : d # c => client'[d] = client[d] /\ held'[d] = held[d]
        BY <3>4
        DEF StartSynch, LockIfReady, ProbeNext, Unlock, StartKeepAlive, ClientInv,
            KeepAliveLock, KeepAliveSkip, KeepAliveUnlock, KeepAliveReturn
      <4>5. QueueInv'
        BY <4>1, <2>3
      <4> QED
        BY <3>1, <4>1, <4>2, <4>3, <4>4, <4>5, QuietStep DEF queueVars, opVars, workerVars
    <3> QED
        BY <3>2, <3>3, <3>4, <2>7 DEF ClientStep, Serve
  <2>8. CASE UNCHANGED vars
    <3>1. UNCHANGED <<queueVars, workerVars, opVars, mainVars, clientVars>>
        BY <2>8 DEF vars
    <3>2. QueueInv'
        BY <3>1, <2>3
    <3>3. WorkInv'
        BY <3>1, <3>2, QuietStep DEF queueVars, workerVars, opVars, clientVars
    <3> QED
        BY <3>1, <3>3, <2>1, <2>2 DEF workerVars
  <2> QED
    BY <2>4, <2>5, <2>6, <2>7, <2>8 DEF Next, Terminated
<1> QED
    BY InitIInv, <1>1, PTL DEF Spec

(***************************************************************************)
(* A synchronous connection is used by the thread that locked it and by no *)
(* other, and a call that has returned has unlocked what it locked.        *)
(***************************************************************************)
THEOREM OneUser == Spec => []ConnectionHasOneUser
<1>1. IInv => ConnectionHasOneUser
    BY DEF IInv, ClientInv
<1> QED
    BY <1>1, Invariance, PTL

(***************************************************************************)
(* The future of a task has a value exactly if the task ran, is broken     *)
(* exactly if the task was deleted without having run, and no task runs    *)
(* twice.                                                                  *)
(***************************************************************************)
THEOREM FuturesTellTheTruth == Spec => []FutureTellsTruth
<1>1. IInv => FutureTellsTruth
    BY DEF IInv, WorkInv, PromisesFollow, NoneTwice, FutureTellsTruth
<1> QED
    BY <1>1, Invariance, PTL

(***************************************************************************)
(* The pointer to an operation object is in exactly one place while the    *)
(* object lives, with the client that made it, in the queue or with a      *)
(* worker, and in none once it has been deleted: no double delete, no      *)
(* leak and no use after delete.                                           *)
(***************************************************************************)
THEOREM Ownership == Spec => []OwnershipInv
<1>1. ASSUME IInv PROVE OwnershipInv
  <2>1. TypeOK
    BY <1>1 DEF IInv, MainInv, ClientInv, WorkInv, WorkTypes, QueueInv, TypeOK
  <2>2. ASSUME NEW o \in Op
        PROVE  LET places == {<<"client", c>> : c \in {c \in Client : HoldsObject(c, o)}}
                        \cup {<<"queue", i>> : i \in {i \in 1..Len(queue) : queue[i] = o}}
                        \cup {<<"worker", w>> : w \in {w \in Worker : operation[w] = o}}
               IN  Cardinality(places) = IF object[o] = "live" THEN 1 ELSE 0
    <3> DEFINE C == {c \in Client : HoldsObject(c, o)}
               I == {i \in 1..Len(queue) : queue[i] = o}
               W == {w \in Worker : operation[w] = o}
               places == {<<"client", c>> : c \in C} \cup {<<"queue", i>> : i \in I}
                            \cup {<<"worker", w>> : w \in W}
    <3>1. o # Null
        BY KindsAssumption
    <3>2. /\ C # {} => object[o] = "live" /\ I = {} /\ W = {}
          /\ \A c, d \in C : c = d
        BY <1>1 DEF IInv, WorkInv, ClientsOwn, HoldsObject, Queued
    <3>3. /\ I # {} => object[o] = "live" /\ W = {}
          /\ \A i, j \in I : i = j
        BY <1>1 DEF IInv, WorkInv, QueueOwns, NoneTwice, Queued
    <3>4. /\ W # {} => object[o] = "live"
          /\ \A v, w \in W : v = w
        BY <3>1, <1>1 DEF IInv, WorkInv, WorkersOwn
    <3>5. object[o] = "live" => C # {} \/ I # {} \/ W # {}
        BY <1>1 DEF IInv, WorkInv, LiveIsOwned, HoldsObject, Queued
    <3> HIDE DEF C, I, W
    <3>6. CASE object[o] # "live"
      <4>1. places = {}
        BY <3>2, <3>3, <3>4, <3>6
      <4> QED
        BY <4>1, <3>6, FS_EmptySet DEF C, I, W
    <3>7. CASE object[o] = "live"
      <4>1. \E x : places = {x}
        <5>1. CASE C # {}
          <6>1. PICK c \in C : C = {c} /\ I = {} /\ W = {}
            BY <5>1, <3>2
          <6>2. places = {<<"client", c>>}
            BY <6>1
          <6> QED
            BY <6>2
        <5>2. CASE C = {} /\ I # {}
          <6>1. PICK i \in I : I = {i} /\ C = {} /\ W = {}
            BY <5>2, <3>3
          <6>2. places = {<<"queue", i>>}
            BY <6>1
          <6> QED
            BY <6>2
        <5>3. CASE C = {} /\ I = {} /\ W # {}
          <6>1. PICK w \in W : W = {w} /\ C = {} /\ I = {}
            BY <5>3, <3>4
          <6>2. places = {<<"worker", w>>}
            BY <6>1
          <6> QED
            BY <6>2
        <5> QED
            BY <5>1, <5>2, <5>3, <3>5, <3>7
      <4>2. Cardinality(places) = 1
        BY <4>1, FS_Singleton
      <4> QED
        BY <4>2, <3>7 DEF C, I, W
    <3> QED
        BY <3>6, <3>7
  <2> QED
    BY <2>1, <2>2 DEF OwnershipInv, OwnedByOne
<1> QED
    BY <1>1, Invariance, PTL

-----------------------------------------------------------------------------
(***************************************************************************)
(* What was popped and has not run is still in a worker's hands.           *)
(***************************************************************************)
PoppedIsHeld ==
    \A i \in 1..Len(popped) :
        popped[i] \in Executed \/ \E w \in Worker : operation[w] = popped[i]

(***************************************************************************)
(* For every operation that has run there is a worker that holds none of   *)
(* those popped before it and not run: the one that ran it, which has      *)
(* popped only later ones since.                                           *)
(***************************************************************************)
RunnerIsPast ==
    \A i \in 1..Len(popped) : popped[i] \in Executed =>
        \E w \in Worker : \A j \in 1..i - 1 :
            popped[j] \notin Executed => operation[w] # popped[j]

OrderInv == NoneTwice(popped) /\ PoppedIsHeld /\ RunnerIsPast

(***************************************************************************)
(* The types these facts are about.                                        *)
(***************************************************************************)
LEMMA OrderTypes ==
    ASSUME IInv
    PROVE  /\ popped \in Seq(Op) /\ Len(popped) \in Nat
           /\ \A i \in 1..Len(popped) : popped[i] \in Op /\ popped[i] # Null
           /\ operation \in [Worker -> Op \cup {Null}]
<1>1. popped \in Seq(Op) /\ operation \in [Worker -> Op \cup {Null}]
    BY DEF IInv, WorkInv, WorkTypes, QueueInv, Q!TypeOK
<1>2. Null \notin Op
    BY KindsAssumption
<1> QED
    BY <1>1, <1>2, LenProperties, ElementOfSeq

(***************************************************************************)
(* A popped operation goes to the one worker that popped it.               *)
(***************************************************************************)
LEMMA WorkerPopKeepsOrderInv ==
    ASSUME IInv, OrderInv, NEW w \in Worker, WorkerPop(w)
    PROVE  OrderInv'
<1> DEFINE o == Head(queue)
           n == Len(popped)
<1>1. /\ worker[w] = "popping" /\ Q!WaitAndPop(w)
      /\ operation' = [operation EXCEPT ![w] = IF popped' # popped THEN o ELSE Null]
      /\ executed' = executed
    BY DEF WorkerPop, Q!Enter, Q!Resume, opVars
<1>2. Executed' = Executed
    BY <1>1 DEF Executed
<1>3. operation[w] = Null
    BY <1>1 DEF IInv, WorkInv, WorkersOwn
<1>4. CASE popped' = popped
  <2>1. operation' = operation
    BY <1>1, <1>3, <1>4, OrderTypes
  <2> QED
    BY <2>1, <1>2, <1>4 DEF OrderInv, NoneTwice, PoppedIsHeld, RunnerIsPast
<1>5. CASE popped' # popped
  <2>1. queue # <<>> /\ popped' = Append(popped, o) /\ operation' = [operation EXCEPT ![w] = o]
    BY <1>1, <1>5 DEF Q!WaitAndPop, Q!Sleep, Q!ReturnNothing, Q!PopFront, Q!history
  <2>2. queue \in Seq(Op) /\ NoneTwice(queue) /\ Queued = ValuesOf(queue)
    BY DEF IInv, WorkInv, WorkTypes, QueueInv, Q!TypeOK, QueueOwns, Queued, ValuesOf
  <2>3. o \in Op /\ o \in Queued
    BY <2>1, <2>2, TailLosesHead
  <2>4. o \notin Executed /\ \A v \in Worker : operation[v] # o
    BY <2>3 DEF IInv, WorkInv, QueueOwns
  <2>5. o \notin ValuesOf(popped) /\ \A i \in 1..n : popped[i] # o
    BY <2>4 DEF OrderInv, PoppedIsHeld, ValuesOf
  <2>6. NoneTwice(popped')
    BY <2>1, <2>3, <2>5, OrderTypes, AppendAddsValue DEF OrderInv
  <2>7. /\ n \in Nat /\ Len(popped') = n + 1 /\ popped'[n + 1] = o
        /\ \A i \in 1..n : popped'[i] = popped[i]
    BY <2>1, <2>3, OrderTypes, AppendProperties
  <2>8. /\ operation'[w] = o
        /\ \A v \in Worker : v # w => operation'[v] = operation[v]
    BY <2>1, OrderTypes
  <2> HIDE DEF o, n
  <2>9. \A i \in 1..n + 1 : i \in 1..n \/ i = n + 1
    BY <2>7
  <2>10. PoppedIsHeld'
    <3> SUFFICES ASSUME NEW i \in 1..n + 1, popped'[i] \notin Executed
                 PROVE  \E v \in Worker : operation'[v] = popped'[i]
      BY <2>7, <1>2 DEF PoppedIsHeld
    <3>1. CASE i = n + 1
      BY <3>1, <2>7, <2>8
    <3>2. CASE i \in 1..n
      <4>1. PICK v \in Worker : operation[v] = popped[i]
        BY <3>2, <2>7 DEF OrderInv, PoppedIsHeld, n
      <4>2. v # w
        BY <4>1, <3>2, <1>3, OrderTypes DEF n
      <4> QED
        BY <4>1, <4>2, <3>2, <2>7, <2>8
    <3> QED
      BY <3>1, <3>2, <2>9
  <2>11. RunnerIsPast'
    <3> SUFFICES ASSUME NEW i \in 1..n + 1, popped'[i] \in Executed
                 PROVE  \E v \in Worker : \A j \in 1..i - 1 :
                            popped'[j] \notin Executed => operation'[v] # popped'[j]
      BY <2>7, <1>2 DEF RunnerIsPast
    <3>1. i \in 1..n
      BY <2>4, <2>7, <2>9
    <3>2. PICK v \in Worker : \A j \in 1..i - 1 :
                popped[j] \notin Executed => operation[v] # popped[j]
      BY <3>1, <2>7 DEF OrderInv, RunnerIsPast, n
    <3>3. \A j \in 1..i - 1 : j \in 1..n
      BY <3>1, <2>7
    <3>4. \A j \in 1..i - 1 : popped'[j] = popped[j] /\ popped[j] # o
      BY <3>3, <2>5, <2>7 DEF n
    <3> QED
      BY <3>2, <3>4, <2>8
  <2> QED
    BY <2>6, <2>10, <2>11 DEF OrderInv
<1> QED
    BY <1>4, <1>5

(***************************************************************************)
(* The worker that runs an operation holds it, so nothing popped before.   *)
(***************************************************************************)
LEMMA WorkerCallKeepsOrderInv ==
    ASSUME IInv, OrderInv, NEW w \in Worker, WorkerCall(w)
    PROVE  OrderInv'
<1> DEFINE o == operation[w]
<1>1. /\ o # Null /\ executed' = Append(executed, o)
      /\ UNCHANGED <<operation, popped>>
    BY DEF WorkerCall, queueVars
<1>2. executed \in Seq(Op) /\ o \in Op
    BY <1>1, OrderTypes DEF IInv, WorkInv, WorkTypes
<1>3. Executed' = Executed \cup {o}
  <2>1. ValuesOf(executed') = ValuesOf(executed) \cup {o}
    BY <1>1, <1>2, AppendAddsValue
  <2> QED
    BY <2>1 DEF Executed, ValuesOf
<1>4. PoppedIsHeld'
    BY <1>1, <1>3 DEF OrderInv, PoppedIsHeld
<1>5. RunnerIsPast'
  <2> SUFFICES ASSUME NEW i \in 1..Len(popped), popped[i] \in Executed'
               PROVE  \E v \in Worker : \A j \in 1..i - 1 :
                          popped[j] \notin Executed' => operation[v] # popped[j]
    BY <1>1 DEF RunnerIsPast
  <2>1. CASE popped[i] \in Executed
    BY <2>1, <1>3 DEF OrderInv, RunnerIsPast
  <2>2. CASE popped[i] = o
    <3>1. \A j \in 1..i - 1 : j \in 1..Len(popped) /\ j # i
      BY OrderTypes
    <3>2. \A j \in 1..i - 1 : popped[j] # popped[i]
      BY <3>1 DEF OrderInv, NoneTwice
    <3> QED
      BY <2>2, <3>2
  <2> QED
    BY <2>1, <2>2, <1>3
<1> QED
    BY <1>1, <1>4, <1>5 DEF OrderInv, NoneTwice

(***************************************************************************)
(* A worker deletes only what has run.                                     *)
(***************************************************************************)
LEMMA WorkerDeleteKeepsOrderInv ==
    ASSUME IInv, OrderInv, NEW w \in Worker, WorkerDelete(w)
    PROVE  OrderInv'
<1>1. /\ worker[w] = "called" /\ operation' = [operation EXCEPT ![w] = Null]
      /\ UNCHANGED <<executed, popped>>
    BY DEF WorkerDelete, queueVars
<1>2. operation[w] \in Executed /\ Executed' = Executed
    BY <1>1 DEF IInv, WorkInv, WorkersOwn, Executed
<1>3. \A v \in Worker : operation'[v] = IF v = w THEN Null ELSE operation[v]
    BY <1>1, OrderTypes
<1>4. PoppedIsHeld'
    BY <1>1, <1>2, <1>3 DEF OrderInv, PoppedIsHeld
<1>5. RunnerIsPast'
  <2> SUFFICES ASSUME NEW i \in 1..Len(popped), popped[i] \in Executed
               PROVE  \E v \in Worker : \A j \in 1..i - 1 :
                          popped[j] \notin Executed => operation'[v] # popped[j]
    BY <1>1, <1>2 DEF RunnerIsPast
  <2>1. PICK v \in Worker : \A j \in 1..i - 1 :
              popped[j] \notin Executed => operation[v] # popped[j]
    BY DEF OrderInv, RunnerIsPast
  <2>2. \A j \in 1..i - 1 : popped[j] # Null
    <3>1. \A j \in 1..i - 1 : j \in 1..Len(popped)
      BY OrderTypes
    <3> QED
      BY <3>1, OrderTypes
  <2> QED
    BY <2>1, <2>2, <1>3
<1> QED
    BY <1>1, <1>4, <1>5 DEF OrderInv, NoneTwice

(***************************************************************************)
(* Other steps neither pop nor run nor delete what was popped.             *)
(***************************************************************************)
LEMMA OthersKeepOrder ==
    ASSUME [Next]_vars, \A w \in Worker : ~(WorkerPop(w) \/ WorkerCall(w) \/ WorkerDelete(w))
    PROVE  UNCHANGED <<popped, executed, operation>>
<1>1. ASSUME NEW w \in Worker, WorkerStep(w) \/ WorkerSpuriousWakeup(w)
      PROVE  UNCHANGED <<popped, executed, operation>>
    BY <1>1 DEF WorkerStep, WorkerExit, WorkerSpuriousWakeup, Q!SpuriousWakeup, Q!history,
                queueVars, opVars, workerVars
<1>2. CASE MainStep
    BY <1>2
    DEF MainStep, CreateAsync, Connected, ConnectFailed, VersionRejected, OpenSynch,
        AbandonPool, Close, SetToken, CancelQueue, Join, Closed, Q!Cancel,
        queueVars, opVars, workerVars
<1>3. ASSUME NEW c \in Client, ClientStep(c)
      PROVE  UNCHANGED <<popped, executed, operation>>
    BY <1>3
    DEF ClientStep, Serve, NewTask, Enqueue, StartSynch, LockIfReady, ProbeNext, Unlock,
        StartKeepAlive, KeepAliveLock, KeepAliveSkip, KeepAliveUnlock, KeepAliveEnqueue,
        KeepAliveReturn, Q!Push, queueVars, opVars, workerVars
<1>4. CASE UNCHANGED vars
    BY <1>4 DEF vars, queueVars, opVars, workerVars
<1> QED
    BY <1>1, <1>2, <1>3, <1>4 DEF Next, Terminated

(***************************************************************************)
(* Operations that were popped before one that has run and have not run    *)
(* themselves are in the hands of as many other workers.                   *)
(***************************************************************************)
LEMMA HoldersAreOthers == IInv /\ OrderInv => OvertakenByFewerThanWorkers
<1> SUFFICES ASSUME IInv, OrderInv, NEW i \in 1..Len(popped), popped[i] \in Executed
             PROVE  Cardinality({j \in 1..i - 1 : popped[j] \notin Executed}) < AsyncThreads
    BY DEF OvertakenByFewerThanWorkers
<1> DEFINE J == {j \in 1..i - 1 : popped[j] \notin Executed}
<1>1. PICK w \in Worker : \A j \in J : operation[w] # popped[j]
    BY DEF OrderInv, RunnerIsPast
<1>2. \A j \in J : j \in 1..Len(popped)
    BY OrderTypes
<1>3. \A j \in J : \E v \in Worker : operation[v] = popped[j]
    BY <1>2 DEF OrderInv, PoppedIsHeld
<1>4. \A j, k \in J : popped[j] = popped[k] => j = k
    BY <1>2 DEF OrderInv, NoneTwice
<1> DEFINE others == Worker \ {w}
           holder == [j \in J |-> CHOOSE v \in Worker : operation[v] = popped[j]]
<1> HIDE DEF J
<1>5. \A j \in J : holder[j] \in Worker /\ operation[holder[j]] = popped[j]
    BY <1>3
<1>6. holder \in [J -> others]
    BY <1>1, <1>5
<1>7. \A j, k \in J : holder[j] = holder[k] => j = k
    BY <1>4, <1>5
<1>8. holder \in Injection(J, others)
    BY <1>6, <1>7 DEF Injection, IsInjective
<1>9. /\ IsFiniteSet(Worker) /\ Cardinality(Worker) = AsyncThreads
      /\ AsyncThreads \in Nat \ {0}
  <2>1. AsyncThreads \in Nat \ {0}
    BY ThreadsAssumption
  <2>2. /\ 1 \in Int /\ AsyncThreads \in Int
        /\ ~(1 > AsyncThreads) /\ AsyncThreads - 1 + 1 = AsyncThreads
    BY <2>1
  <2>3. /\ IsFiniteSet(1..AsyncThreads)
        /\ Cardinality(1..AsyncThreads) =
                IF 1 > AsyncThreads THEN 0 ELSE AsyncThreads - 1 + 1
    BY <2>2, FS_Interval
  <2> QED
    BY <2>1, <2>2, <2>3 DEF Worker
<1>10. IsFiniteSet(others) /\ Cardinality(others) = AsyncThreads - 1
    BY <1>9, FS_RemoveElement
<1> HIDE DEF holder, others
<1>11. IsFiniteSet(J) /\ Cardinality(J) <= AsyncThreads - 1
    BY <1>8, <1>10, FS_Injection
<1>12. Cardinality(J) \in Nat
    BY <1>11, FS_CardinalityType
<1> QED
    BY <1>9, <1>11, <1>12 DEF J

(***************************************************************************)
(* When an operation has run, at most one per other worker of those        *)
(* enqueued before it has not; with one worker, operations run in the      *)
(* order of the calls.                                                     *)
(***************************************************************************)
THEOREM FewOvertake == Spec => []OvertakenByFewerThanWorkers
<1>1. Init => OrderInv
  <2>1. Init => popped = <<>> /\ Len(<<>>) = 0
    BY EmptySeq DEF Init, Q!Init
  <2> QED
    BY <2>1 DEF OrderInv, NoneTwice, PoppedIsHeld, RunnerIsPast
<1>2. IInv /\ OrderInv /\ [Next]_vars => OrderInv'
  <2> SUFFICES ASSUME IInv, OrderInv, [Next]_vars PROVE OrderInv'
    OBVIOUS
  <2>1. CASE \E w \in Worker : WorkerPop(w) \/ WorkerCall(w) \/ WorkerDelete(w)
    BY <2>1, WorkerPopKeepsOrderInv, WorkerCallKeepsOrderInv, WorkerDeleteKeepsOrderInv
  <2>2. CASE \A w \in Worker : ~(WorkerPop(w) \/ WorkerCall(w) \/ WorkerDelete(w))
    <3>1. UNCHANGED <<popped, executed, operation>>
      BY <2>2, OthersKeepOrder
    <3>2. Executed' = Executed
      BY <3>1 DEF Executed
    <3>3. NoneTwice(popped)'
      BY <3>1 DEF OrderInv, NoneTwice
    <3>4. PoppedIsHeld' /\ RunnerIsPast'
      BY <3>1, <3>2 DEF OrderInv, PoppedIsHeld, RunnerIsPast
    <3> QED
      BY <3>3, <3>4 DEF OrderInv
  <2> QED
    BY <2>1, <2>2
<1> QED
    BY <1>1, <1>2, HoldersAreOthers, Invariance, PTL DEF Spec

-----------------------------------------------------------------------------
(***************************************************************************)
(* Every thread that runs belongs to a connection that is open, is being   *)
(* opened, or will be destroyed.                                           *)
(***************************************************************************)
DoomInv ==
    /\ NoneTwice(doomed)
    /\ doomed = <<>> => dtor = "token"
    /\ phase \in {"opening", "connect", "running", "closed"} => doomed = <<>>
    /\ phase = "running" => opened = AsyncThreads
    /\ phase \in {"closing", "closed"} => opened = 0
    /\ \A w \in Worker : worker[w] \notin {"absent", "joined"} =>
        \/ w <= opened
        \/ w \in ValuesOf(doomed)
        \/ phase = "connect" /\ w = opened + 1

(***************************************************************************)
(* Calls are made on a pool that is running, so before and after nothing   *)
(* comes into the queue; what was in it goes with the first connection.    *)
(***************************************************************************)
QueueEmpties ==
    /\ phase # "running" => \A c \in Client : client[c] = "idle"
    /\ phase \in {"opening", "connect", "failing"} => queue = <<>>
    /\ phase \in {"closing", "closed"} => queue = <<>> \/ (doomed # <<>> /\ dtor # "join")

(***************************************************************************)
(* Only a worker inside Pop sleeps, and only one whose token is set leaves *)
(* with an operation.                                                      *)
(***************************************************************************)
WorkersLeave ==
    /\ \A w \in Worker : w \in waiting \cup woken => worker[w] = "popping"
    /\ \A w \in Worker :
        worker[w] \in {"exited", "joined"} /\ operation[w] # Null => token[w]

CloseInv == DoomInv /\ QueueEmpties /\ WorkersLeave

(***************************************************************************)
(* The connections 1..n in a row.                                          *)
(***************************************************************************)
LEMMA Row ==
    ASSUME NEW n \in Nat
    PROVE  LET row == [i \in 1..n |-> i]
           IN  /\ Len(row) = n /\ ValuesOf(row) = 1..n /\ NoneTwice(row)
               /\ row = <<>> <=> n = 0
<1> DEFINE row == [i \in 1..n |-> i]
<1>1. row \in Seq(Nat) /\ Len(row) = n
    OBVIOUS
<1>2. \A i \in 1..n : row[i] = i
    OBVIOUS
<1>3. row = <<>> <=> n = 0
    BY <1>1, EmptySeq
<1> HIDE DEF row
<1>4. ValuesOf(row) = 1..n /\ NoneTwice(row)
    BY <1>1, <1>2 DEF ValuesOf, NoneTwice
<1> QED
    BY <1>1, <1>3, <1>4 DEF row

(***************************************************************************)
(* What a worker does concerns its own connection.                         *)
(***************************************************************************)
LEMMA WorkerKeepsCloseInv ==
    ASSUME IInv, CloseInv, NEW w \in Worker, WorkerStep(w) \/ WorkerSpuriousWakeup(w)
    PROVE  CloseInv'
<1>1. UNCHANGED <<token, phase, opened, doomed, dtor, client>>
    BY DEF WorkerStep, WorkerPop, WorkerExit, WorkerCall, WorkerDelete, WorkerSpuriousWakeup,
           mainVars, clientVars, workerVars
<1>2. /\ worker \in [Worker ->
            {"absent", "popping", "popped", "called", "exited", "joined"}]
      /\ operation \in [Worker -> Op \cup {Null}]
      /\ waiting \subseteq Worker /\ woken \subseteq Worker
    BY DEF IInv, MainInv, WorkInv, WorkTypes, QueueInv, Q!TypeOK
<1>3. CASE WorkerPop(w)
  <2>1. /\ worker[w] = "popping" /\ Q!WaitAndPop(w)
        /\ worker' = [worker EXCEPT ![w] = IF w \in waiting' THEN "popping" ELSE "popped"]
        /\ operation' = [operation EXCEPT ![w] =
                              IF popped' # popped THEN Head(queue) ELSE Null]
        /\ (w \in woken \/ ~Q!Inside(w))
    BY <1>3 DEF WorkerPop, Q!Enter, Q!Resume
  <2>2. /\ waiting' \subseteq waiting \cup {w}
        /\ woken' \subseteq woken \ {w}
        /\ queue = <<>> => queue' = <<>>
    BY <2>1 DEF Q!WaitAndPop, Q!Sleep, Q!ReturnNothing, Q!PopFront, Q!history
  <2>3. /\ \A v \in Worker : v # w => worker'[v] = worker[v] /\ operation'[v] = operation[v]
        /\ worker'[w] = IF w \in waiting' THEN "popping" ELSE "popped"
    BY <2>1, <1>2
  <2>4. DoomInv'
    BY <2>1, <2>3, <1>1 DEF CloseInv, DoomInv, NoneTwice, ValuesOf
  <2>5. QueueEmpties'
    BY <2>2, <1>1 DEF CloseInv, QueueEmpties
  <2>6. WorkersLeave'
    BY <2>2, <2>3, <1>1 DEF CloseInv, WorkersLeave
  <2> QED
    BY <2>4, <2>5, <2>6 DEF CloseInv
<1>4. CASE WorkerExit(w) \/ WorkerCall(w) \/ WorkerDelete(w)
  <2>1. /\ worker[w] \in {"popped", "called"}
        /\ \A v \in Worker : v # w => worker'[v] = worker[v] /\ operation'[v] = operation[v]
        /\ worker'[w] \in {"exited", "called", "popping"}
        /\ worker'[w] = "exited" => token[w] \/ operation[w] = Null
        /\ worker'[w] = "exited" => operation'[w] = operation[w]
        /\ UNCHANGED <<queue, waiting, woken>>
    BY <1>2, <1>4 DEF WorkerExit, WorkerCall, WorkerDelete, queueVars
  <2>2. DoomInv'
    BY <2>1, <1>1 DEF CloseInv, DoomInv, NoneTwice, ValuesOf
  <2>3. QueueEmpties'
    BY <2>1, <1>1 DEF CloseInv, QueueEmpties
  <2>4. WorkersLeave'
    BY <2>1, <1>1 DEF CloseInv, WorkersLeave
  <2> QED
    BY <2>2, <2>3, <2>4 DEF CloseInv
<1>5. CASE WorkerSpuriousWakeup(w)
  <2>1. /\ w \in waiting /\ waiting' = waiting \ {w} /\ woken' = woken \cup {w}
        /\ UNCHANGED <<worker, operation, queue>>
    BY <1>5 DEF WorkerSpuriousWakeup, Q!SpuriousWakeup, workerVars
  <2>2. DoomInv' /\ QueueEmpties'
    BY <2>1, <1>1 DEF CloseInv, DoomInv, QueueEmpties, NoneTwice, ValuesOf
  <2>3. WorkersLeave'
    BY <2>1, <1>1 DEF CloseInv, WorkersLeave
  <2> QED
    BY <2>2, <2>3 DEF CloseInv
<1> QED
    BY <1>3, <1>4, <1>5 DEF WorkerStep

(***************************************************************************)
(* The main thread creates and destroys connections with their workers.    *)
(***************************************************************************)
LEMMA MainKeepsDoomInv ==
    ASSUME IInv, CloseInv, MainStep
    PROVE  DoomInv'
<1> USE ThreadsAssumption
<1>1. /\ worker \in [Worker ->
            {"absent", "popping", "popped", "called", "exited", "joined"}]
      /\ opened \in 0..AsyncThreads /\ opened \in Nat /\ opened + 1 \in Nat
      /\ doomed \in Seq(Worker)
    BY DEF IInv, MainInv
<1>2. \A w \in Worker : w \in Nat \ {0}
    BY DEF Worker
<1>3. CASE CreateAsync
  <2>1. /\ phase = "opening" /\ phase' = "connect"
        /\ worker' = [worker EXCEPT ![opened + 1] = "popping"]
        /\ UNCHANGED <<opened, doomed, dtor>>
    BY <1>3 DEF CreateAsync
  <2>2. \A w \in Worker : w # opened + 1 => worker'[w] = worker[w]
    BY <2>1, <1>1
  <2> QED
    BY <2>1, <2>2 DEF CloseInv, DoomInv, NoneTwice, ValuesOf
<1>4. CASE Connected
  <2>1. /\ phase = "connect" /\ phase' = "opening" /\ opened' = opened + 1
        /\ UNCHANGED <<worker, doomed, dtor>>
    BY <1>4 DEF Connected, workerVars
  <2>2. \A w \in Worker : (w <= opened => w <= opened + 1) /\ (w = opened + 1 => w <= opened + 1)
    BY <1>1, <1>2
  <2> QED
    BY <2>1, <2>2 DEF CloseInv, DoomInv, NoneTwice, ValuesOf
<1>5. CASE ConnectFailed
  <2>1. /\ phase = "connect" /\ phase' = "failing" /\ opened' = 0
        /\ doomed' = [i \in 1..opened + 1 |-> i]
        /\ UNCHANGED <<worker, dtor>>
    BY <1>5 DEF ConnectFailed, workerVars
  <2>2. NoneTwice(doomed') /\ ValuesOf(doomed') = 1..opened + 1
    BY <2>1, <1>1, Row
  <2>3. doomed = <<>> /\ dtor = "token" /\ ValuesOf(doomed) = {}
    BY <2>1, EmptySeq DEF CloseInv, DoomInv, ValuesOf
  <2>4. \A w \in Worker : w <= opened \/ w = opened + 1 => w \in 1..opened + 1
    BY <1>1, <1>2
  <2> QED
    BY <2>1, <2>2, <2>3, <2>4 DEF CloseInv, DoomInv
<1>6. CASE VersionRejected
  <2>1. /\ phase = "connect" /\ phase' = "failing" /\ doomed' = <<opened + 1>>
        /\ UNCHANGED <<worker, opened, dtor>>
    BY <1>6 DEF VersionRejected, workerVars
  <2>2. NoneTwice(doomed') /\ ValuesOf(doomed') = {opened + 1} /\ doomed' # <<>>
    BY <2>1, <1>1 DEF NoneTwice, ValuesOf
  <2>3. doomed = <<>> /\ ValuesOf(doomed) = {}
    BY <2>1, EmptySeq DEF CloseInv, DoomInv, ValuesOf
  <2> QED
    BY <2>1, <2>2, <2>3 DEF CloseInv, DoomInv
<1>7. CASE OpenSynch
  <2>1. /\ phase = "opening" /\ phase' \in {"running", "failing"} /\ opened = AsyncThreads
        /\ UNCHANGED <<worker, opened, doomed, dtor>>
    BY <1>7 DEF OpenSynch, workerVars
  <2> QED
    BY <2>1 DEF CloseInv, DoomInv, NoneTwice, ValuesOf
<1>8. CASE AbandonPool \/ Close
  <2>1. /\ phase \in {"failing", "running"} /\ phase' = "closing"
        /\ doomed' = [i \in 1..opened |-> i] /\ opened' = 0
        /\ phase = "failing" => doomed = <<>>
        /\ UNCHANGED <<worker, dtor>>
    BY <1>8 DEF AbandonPool, Close, workerVars
  <2>2. NoneTwice(doomed') /\ ValuesOf(doomed') = 1..opened
    BY <2>1, <1>1, Row
  <2>3. doomed = <<>> /\ dtor = "token" /\ ValuesOf(<<>>) = {}
    BY <2>1, EmptySeq DEF CloseInv, DoomInv, ValuesOf
  <2>4. \A w \in Worker : w <= opened => w \in 1..opened
    BY <1>1, <1>2
  <2> QED
    BY <2>1, <2>2, <2>3, <2>4 DEF CloseInv, DoomInv
<1>9. CASE SetToken \/ CancelQueue
  <2>1. doomed # <<>> /\ UNCHANGED <<worker, phase, opened, doomed>>
    BY <1>9 DEF SetToken, CancelQueue, workerVars
  <2> QED
    BY <2>1 DEF CloseInv, DoomInv, NoneTwice, ValuesOf
<1>10. CASE Join
  <2>1. /\ doomed # <<>> /\ doomed' = Tail(doomed) /\ dtor' = "token"
        /\ worker' = [worker EXCEPT ![Head(doomed)] = "joined"]
        /\ UNCHANGED <<phase, opened>>
    BY <1>10 DEF Join
  <2>2. /\ Head(doomed) \in Worker
        /\ ValuesOf(doomed') = ValuesOf(doomed) \ {Head(doomed)} /\ NoneTwice(doomed')
    BY <2>1, <1>1, TailLosesHead DEF CloseInv, DoomInv
  <2>3. \A w \in Worker : worker'[w] = IF w = Head(doomed) THEN "joined" ELSE worker[w]
    BY <2>1, <1>1
  <2> QED
    BY <2>1, <2>2, <2>3 DEF CloseInv, DoomInv
<1>11. CASE Closed
  <2>1. /\ phase = "closing" /\ phase' = "closed" /\ doomed = <<>>
        /\ UNCHANGED <<worker, opened, doomed, dtor>>
    BY <1>11 DEF Closed, workerVars
  <2> QED
    BY <2>1 DEF CloseInv, DoomInv, NoneTwice, ValuesOf
<1> QED
    BY <1>3, <1>4, <1>5, <1>6, <1>7, <1>8, <1>9, <1>10, <1>11 DEF MainStep

(***************************************************************************)
(* The main thread empties the queue, and joins who has left.              *)
(***************************************************************************)
LEMMA MainKeepsCloseInv ==
    ASSUME IInv, CloseInv, MainStep
    PROVE  CloseInv'
<1> USE ThreadsAssumption
<1>1. DoomInv'
    BY MainKeepsDoomInv
<1>2. /\ worker \in [Worker ->
            {"absent", "popping", "popped", "called", "exited", "joined"}]
      /\ token \in [Worker -> BOOLEAN] /\ opened \in 0..AsyncThreads
      /\ operation \in [Worker -> Op \cup {Null}]
      /\ waiting \subseteq Worker /\ woken \subseteq Worker
    BY DEF IInv, MainInv, WorkInv, WorkTypes, QueueInv, Q!TypeOK
<1>3. client' = client /\ operation' = operation
    BY DEF MainStep, CreateAsync, Connected, ConnectFailed, VersionRejected, OpenSynch,
           AbandonPool, Close, SetToken, CancelQueue, Join, Closed, clientVars, workerVars
<1>4. QueueEmpties'
  <2>1. CASE CreateAsync \/ Connected \/ ConnectFailed \/ VersionRejected \/ OpenSynch
    <3>1. /\ phase \in {"opening", "connect"} /\ queue' = queue
          /\ phase' \in {"opening", "connect", "failing", "running"}
      BY <2>1 DEF CreateAsync, Connected, ConnectFailed, VersionRejected, OpenSynch, queueVars
    <3> QED
      BY <3>1, <1>3 DEF CloseInv, QueueEmpties
  <2>2. CASE AbandonPool
    <3>1. phase = "failing" /\ phase' = "closing" /\ queue' = <<>>
      BY <2>2 DEF AbandonPool, Q!Cancel
    <3> QED
      BY <3>1, <1>3 DEF CloseInv, QueueEmpties
  <2>3. CASE Close
    <3>1. /\ phase = "running" /\ phase' = "closing"
          /\ \A c \in Client : client[c] = "idle"
          /\ doomed' = [i \in 1..opened |-> i] /\ dtor' = dtor
      BY <2>3 DEF Close
    <3>2. opened = AsyncThreads /\ dtor = "token"
      BY <3>1 DEF CloseInv, DoomInv
    <3>3. doomed' # <<>>
      BY <3>1, <3>2, Row
    <3> QED
      BY <3>1, <3>2, <3>3, <1>3 DEF QueueEmpties
  <2>4. CASE SetToken \/ CancelQueue
    <3>1. /\ doomed # <<>> /\ UNCHANGED <<phase, doomed>>
          /\ \/ dtor' = "cancel" /\ queue' = queue
             \/ queue' = <<>>
      BY <2>4 DEF SetToken, CancelQueue, Q!Cancel, queueVars
    <3> QED
      BY <3>1, <1>3 DEF CloseInv, QueueEmpties
  <2>5. CASE Join \/ Closed
    <3>1. /\ dtor = "join" \/ doomed = <<>>
          /\ phase' = phase \/ (phase = "closing" /\ phase' = "closed")
          /\ queue' = queue
      BY <2>5 DEF Join, Closed, queueVars
    <3> QED
      BY <3>1, <1>3 DEF CloseInv, QueueEmpties
  <2> QED
    BY <2>1, <2>2, <2>3, <2>4, <2>5 DEF MainStep
<1>5. WorkersLeave'
  <2>1. CASE CreateAsync
    <3>1. /\ worker' = [worker EXCEPT ![opened + 1] = "popping"]
          /\ UNCHANGED <<token, waiting, woken>>
      BY <2>1 DEF CreateAsync, queueVars
    <3>2. \A w \in Worker : worker'[w] = worker[w] \/ worker'[w] = "popping"
      BY <3>1, <1>2
    <3> QED
      BY <3>1, <3>2, <1>3 DEF CloseInv, WorkersLeave
  <2>2. CASE Join
    <3>1. /\ worker[Head(doomed)] = "exited"
          /\ worker' = [worker EXCEPT ![Head(doomed)] = "joined"]
          /\ UNCHANGED <<token, waiting, woken>>
      BY <2>2 DEF Join, queueVars
    <3>2. \A w \in Worker : \/ worker'[w] = worker[w]
                            \/ worker[w] = "exited" /\ worker'[w] = "joined"
      BY <3>1, <1>2
    <3> QED
      BY <3>1, <3>2, <1>3 DEF CloseInv, WorkersLeave
  <2>3. CASE AbandonPool \/ CancelQueue
    <3>1. waiting' = {} /\ woken' = woken \cup waiting /\ UNCHANGED <<worker, token>>
      BY <2>3 DEF AbandonPool, CancelQueue, Q!Cancel, Q!NotifyAll, workerVars
    <3> QED
      BY <3>1, <1>3 DEF CloseInv, WorkersLeave
  <2>4. CASE SetToken
    <3>1. /\ token' = [token EXCEPT ![Head(doomed)] = TRUE]
          /\ UNCHANGED <<worker, waiting, woken>>
      BY <2>4 DEF SetToken, queueVars
    <3>2. \A w \in Worker : token[w] => token'[w]
      BY <3>1, <1>2
    <3> QED
      BY <3>1, <3>2, <1>3 DEF CloseInv, WorkersLeave
  <2>5. CASE Connected \/ ConnectFailed \/ VersionRejected \/ OpenSynch \/ Close \/ Closed
    <3>1. UNCHANGED <<worker, token, waiting, woken>>
      BY <2>5 DEF Connected, ConnectFailed, VersionRejected, OpenSynch, Close, Closed,
                  workerVars, queueVars
    <3> QED
      BY <3>1, <1>3 DEF CloseInv, WorkersLeave
  <2> QED
    BY <2>1, <2>2, <2>3, <2>4, <2>5 DEF MainStep
<1> QED
    BY <1>1, <1>4, <1>5 DEF CloseInv

(***************************************************************************)
(* A client inside a call finds the pool running.                          *)
(***************************************************************************)
LEMMA ClientKeepsCloseInv ==
    ASSUME IInv, CloseInv, NEW c \in Client, ClientStep(c)
    PROVE  CloseInv'
<1>1. UNCHANGED <<worker, operation, token, phase, opened, doomed, dtor>>
    BY DEF ClientStep, Serve, NewTask, Enqueue, StartSynch, LockIfReady, ProbeNext, Unlock,
           StartKeepAlive, KeepAliveLock, KeepAliveSkip, KeepAliveUnlock, KeepAliveEnqueue,
           KeepAliveReturn, workerVars, mainVars
<1>2. phase = "running"
  <2>1. phase = "running" \/ client[c] # "idle"
    BY DEF ClientStep, Serve, NewTask, Enqueue, StartSynch, LockIfReady, ProbeNext, Unlock,
           StartKeepAlive, KeepAliveLock, KeepAliveSkip, KeepAliveUnlock, KeepAliveEnqueue,
           KeepAliveReturn
  <2> QED
    BY <2>1 DEF CloseInv, QueueEmpties
<1>3. waiting' \cup woken' \subseteq waiting \cup woken
  <2>1. CASE \E o \in Op : Q!Push(o)
    BY <2>1 DEF Q!Push, Q!NotifyOne
  <2>2. CASE UNCHANGED queueVars
    BY <2>2 DEF queueVars
  <2>3. \/ \E o \in Op : Q!Push(o)
        \/ UNCHANGED queueVars
    <3>1. client[c] = "created" => held[c] \in Op
      BY DEF IInv, ClientInv
    <3>2. Ping \subseteq Op
      BY DEF Op
    <3> QED
      BY <3>1, <3>2
      DEF ClientStep, Serve, NewTask, Enqueue, StartSynch, LockIfReady, ProbeNext, Unlock,
          StartKeepAlive, KeepAliveLock, KeepAliveSkip, KeepAliveUnlock, KeepAliveEnqueue,
          KeepAliveReturn
  <2> QED
    BY <2>1, <2>2, <2>3
<1>4. DoomInv'
    BY <1>1 DEF CloseInv, DoomInv, NoneTwice, ValuesOf
<1>5. QueueEmpties'
    BY <1>1, <1>2 DEF QueueEmpties
<1>6. WorkersLeave'
    BY <1>1, <1>3 DEF CloseInv, WorkersLeave
<1> QED
    BY <1>4, <1>5, <1>6 DEF CloseInv

(***************************************************************************)
(* A closed pool has no thread, no sleeper and nothing queued, and an      *)
(* operation that is left was carried away by a worker told to stop.       *)
(***************************************************************************)
LEMMA ClosedIsDone == IInv /\ CloseInv => ClosedLeavesNothingRunning
<1> SUFFICES ASSUME IInv, CloseInv, phase = "closed"
             PROVE  /\ \A w \in Worker : worker[w] \in {"absent", "joined"}
                    /\ queue = <<>> /\ waiting = {} /\ woken = {}
                    /\ \A o \in Op : object[o] = "live" =>
                        \E w \in Worker : operation[w] = o /\ token[w] /\ worker[w] = "joined"
    BY DEF ClosedLeavesNothingRunning
<1>1. doomed = <<>> /\ opened = 0 /\ ValuesOf(doomed) = {}
    BY EmptySeq DEF CloseInv, DoomInv, ValuesOf
<1>2. \A w \in Worker : ~(w <= 0)
    BY DEF Worker
<1>3. \A w \in Worker : worker[w] \in {"absent", "joined"}
    BY <1>1, <1>2 DEF CloseInv, DoomInv
<1>4. queue = <<>> /\ \A c \in Client : client[c] = "idle"
    BY <1>1 DEF CloseInv, QueueEmpties
<1>5. waiting = {} /\ woken = {}
  <2>1. waiting \subseteq Worker /\ woken \subseteq Worker
    BY DEF IInv, WorkInv, WorkTypes, QueueInv, Q!TypeOK
  <2> QED
    BY <2>1, <1>3 DEF CloseInv, WorkersLeave
<1>6. ASSUME NEW o \in Op, object[o] = "live"
      PROVE  \E w \in Worker : operation[w] = o /\ token[w] /\ worker[w] = "joined"
  <2>1. Queued = {} /\ o # Null
    BY <1>4, EmptySeq, KindsAssumption DEF Queued
  <2>2. PICK w \in Worker : operation[w] = o
    BY <2>1, <1>4, <1>6 DEF IInv, WorkInv, LiveIsOwned
  <2>3. worker[w] = "joined"
    BY <2>1, <2>2, <1>3 DEF IInv, WorkInv, WorkersOwn
  <2> QED
    BY <2>1, <2>2, <2>3 DEF CloseInv, WorkersLeave
<1> QED
    BY <1>3, <1>4, <1>5, <1>6

(***************************************************************************)
(* When Close or the destructor of the pool is done, nothing is left but   *)
(* what a stopped worker has walked away with.                             *)
(***************************************************************************)
THEOREM CloseIsComplete == Spec => []ClosedLeavesNothingRunning
<1>1. Init => CloseInv
  <2> SUFFICES ASSUME Init PROVE CloseInv
    OBVIOUS
  <2>1. NoneTwice(<<>>)
    BY EmptySeq DEF NoneTwice
  <2>2. \A w \in Worker : worker[w] = "absent"
    BY DEF Init
  <2> QED
    BY <2>1, <2>2 DEF Init, Q!Init, CloseInv, DoomInv, QueueEmpties, WorkersLeave
<1>2. IInv /\ CloseInv /\ [Next]_vars => CloseInv'
  <2> SUFFICES ASSUME IInv, CloseInv, [Next]_vars PROVE CloseInv'
    OBVIOUS
  <2>1. CASE UNCHANGED vars
    <3>1. UNCHANGED <<queue, waiting, woken, worker, operation, token,
                      phase, opened, doomed, dtor, client>>
      BY <2>1 DEF vars, queueVars, workerVars, mainVars, clientVars
    <3> QED
      BY <3>1 DEF CloseInv, DoomInv, QueueEmpties, WorkersLeave, NoneTwice, ValuesOf
  <2> QED
    BY <2>1, WorkerKeepsCloseInv, MainKeepsCloseInv, ClientKeepsCloseInv DEF Next, Terminated
<1> QED
    BY <1>1, <1>2, ClosedIsDone, Invariance, PTL DEF Spec

-----------------------------------------------------------------------------
(***************************************************************************)
(* The objects that were ever queued exist or have existed, and none of    *)
(* them is one that a client has created and not queued yet: KeepAlive and *)
(* the calls queue what they have just created.                            *)
(***************************************************************************)
PushedOnce ==
    \A o \in Op : Q!Occurs(o, pushed) =>
        /\ object[o] # "none"
        /\ \A c \in Client : client[c] = "created" => held[c] # o

(***************************************************************************)
(* A push adds one value to what was pushed.                               *)
(***************************************************************************)
LEMMA PushAddsOne ==
    ASSUME IInv, NEW v \in Op, Q!Push(v), NEW o \in Op, Q!Occurs(o, pushed')
    PROVE  Q!Occurs(o, pushed) \/ o = v
<1>1. pushed \in Seq(Op) /\ pushed' = Append(pushed, v)
    BY DEF Q!Push, IInv, WorkInv, WorkTypes, QueueInv, Q!TypeOK
<1>2. /\ Len(pushed') = Len(pushed) + 1 /\ Len(pushed) \in Nat
      /\ pushed'[Len(pushed) + 1] = v
      /\ \A i \in 1..Len(pushed) : pushed'[i] = pushed[i]
    BY <1>1, AppendProperties, LenProperties
<1>3. PICK i \in 1..Len(pushed') : pushed'[i] = o
    BY DEF Q!Occurs
<1>4. i \in 1..Len(pushed) \/ i = Len(pushed) + 1
    BY <1>2, <1>3
<1> QED
    BY <1>2, <1>3, <1>4 DEF Q!Occurs

(***************************************************************************)
(* Only Enqueue and KeepAlive push. No step makes an object uncreated.     *)
(***************************************************************************)
LEMMA OthersDoNotPush ==
    ASSUME IInv, [Next]_vars,
           \A c \in Client : /\ ~Enqueue(c) /\ ~KeepAliveEnqueue(c)
                             /\ \A o \in OneWay \cup WithResult : ~NewTask(c, o)
    PROVE  /\ pushed' = pushed
           /\ \A o \in Op : object[o] # "none" => object'[o] # "none"
           /\ \A c \in Client : client'[c] = "created" => client[c] = "created" /\ held'[c] = held[c]
<1>1. /\ object \in [Op -> {"none", "live", "deleted"}]
      /\ client \in [Client -> {"idle", "created", "probing", "using", "keeping", "pinging"}]
      /\ held \in [Client -> Op \cup 0..SynchThreads + AsyncThreads \cup {Null}]
    BY DEF IInv, WorkInv, WorkTypes, ClientInv
<1>2. ASSUME NEW w \in Worker, WorkerStep(w) \/ WorkerSpuriousWakeup(w)
      PROVE  /\ pushed' = pushed /\ UNCHANGED <<client, held>>
             /\ \A o \in Op : object[o] # "none" => object'[o] # "none"
    BY <1>1, <1>2
    DEF WorkerStep, WorkerPop, WorkerExit, WorkerCall, WorkerDelete, WorkerSpuriousWakeup,
        Q!Enter, Q!Resume, Q!WaitAndPop, Q!Sleep, Q!ReturnNothing, Q!PopFront,
        Q!SpuriousWakeup, Q!history, Deleted, queueVars, opVars, clientVars
<1>3. ASSUME MainStep
      PROVE  /\ pushed' = pushed /\ UNCHANGED <<client, held>>
             /\ \A o \in Op : object[o] # "none" => object'[o] # "none"
    BY <1>1, <1>3
    DEF MainStep, CreateAsync, Connected, ConnectFailed, VersionRejected, OpenSynch,
        AbandonPool, Close, SetToken, CancelQueue, Join, Closed, Q!Cancel, Deleted,
        queueVars, opVars, clientVars
<1>4. ASSUME NEW c \in Client, ClientStep(c)
      PROVE  /\ UNCHANGED <<pushed, object>>
             /\ \A d \in Client : client'[d] = "created" =>
                    client[d] = "created" /\ held'[d] = held[d]
  <2>1. StartSynch(c) \/ StartKeepAlive(c) \/ Serve(c)
    BY <1>4 DEF ClientStep
  <2> QED
    BY <2>1, <1>1
    DEF Serve, StartSynch, LockIfReady, ProbeNext, Unlock, StartKeepAlive, KeepAliveLock,
        KeepAliveSkip, KeepAliveUnlock, KeepAliveReturn, queueVars, opVars
<1>5. CASE UNCHANGED vars
    BY <1>5 DEF vars, queueVars, opVars, clientVars
<1> QED
    BY <1>2, <1>3, <1>4, <1>5 DEF Next, Terminated

(***************************************************************************)
(* What is pushed is created before and not pushed again.                  *)
(***************************************************************************)
LEMMA StepPushedOnce == IInv /\ PushedOnce /\ [Next]_vars => PushedOnce'
<1> SUFFICES ASSUME IInv, PushedOnce, [Next]_vars PROVE PushedOnce'
    OBVIOUS
<1>1. /\ object \in [Op -> {"none", "live", "deleted"}]
      /\ client \in [Client -> {"idle", "created", "probing", "using", "keeping", "pinging"}]
      /\ held \in [Client -> Op \cup 0..SynchThreads + AsyncThreads \cup {Null}]
    BY DEF IInv, WorkInv, WorkTypes, ClientInv
<1>2. ASSUME NEW c \in Client, NEW o \in OneWay \cup WithResult, NewTask(c, o)
      PROVE  PushedOnce'
  <2>1. /\ o \in Op /\ object[o] = "none" /\ pushed' = pushed
        /\ object' = [object EXCEPT ![o] = "live"]
        /\ client' = [client EXCEPT ![c] = "created"] /\ held' = [held EXCEPT ![c] = o]
    BY <1>2 DEF NewTask, Op, queueVars
  <2>2. ~Q!Occurs(o, pushed)
    BY <2>1 DEF PushedOnce
  <2> SUFFICES ASSUME NEW p \in Op, Q!Occurs(p, pushed)
               PROVE  /\ object'[p] # "none"
                      /\ \A d \in Client : client'[d] = "created" => held'[d] # p
    BY <2>1 DEF PushedOnce, Q!Occurs
  <2> QED
    BY <1>1, <2>1, <2>2 DEF PushedOnce
<1>3. ASSUME NEW c \in Client, Enqueue(c) PROVE PushedOnce'
  <2>1. /\ client[c] = "created" /\ Q!Push(held[c]) /\ object' = object
        /\ client' = [client EXCEPT ![c] = "idle"] /\ held' = [held EXCEPT ![c] = Null]
    BY <1>3 DEF Enqueue, opVars
  <2>2. /\ held[c] \in Op /\ object[held[c]] = "live"
        /\ \A d \in Client : client[d] = "created" /\ held[d] = held[c] => d = c
    BY <2>1 DEF IInv, WorkInv, ClientInv, ClientsOwn
  <2> SUFFICES ASSUME NEW p \in Op, Q!Occurs(p, pushed')
               PROVE  /\ object'[p] # "none"
                      /\ \A d \in Client : client'[d] = "created" => held'[d] # p
    BY DEF PushedOnce, Q!Occurs
  <2>3. Q!Occurs(p, pushed) \/ p = held[c]
    BY <2>1, <2>2, PushAddsOne
  <2> QED
    BY <1>1, <2>1, <2>2, <2>3 DEF PushedOnce
<1>4. ASSUME NEW c \in Client, KeepAliveEnqueue(c) PROVE PushedOnce'
  <2>1. PICK o \in Ping : /\ object[o] = "none" /\ object' = [object EXCEPT ![o] = "live"]
                          /\ Q!Push(o)
    BY <1>4 DEF KeepAliveEnqueue
  <2>2. client[c] = "keeping" /\ client' = client /\ held' = [held EXCEPT ![c] = @ + 1]
    BY <1>4 DEF KeepAliveEnqueue
  <2>3. o \in Op /\ \A d \in Client : client[d] = "created" => held[d] # o
    BY <2>1 DEF Op, IInv, WorkInv, ClientsOwn
  <2> SUFFICES ASSUME NEW p \in Op, Q!Occurs(p, pushed')
               PROVE  /\ object'[p] # "none"
                      /\ \A d \in Client : client'[d] = "created" => held'[d] # p
    BY DEF PushedOnce, Q!Occurs
  <2>4. Q!Occurs(p, pushed) \/ p = o
    BY <2>1, <2>3, PushAddsOne
  <2> QED
    BY <1>1, <2>1, <2>2, <2>3, <2>4 DEF PushedOnce
<1>5. CASE \A c \in Client : /\ ~Enqueue(c) /\ ~KeepAliveEnqueue(c)
                             /\ \A o \in OneWay \cup WithResult : ~NewTask(c, o)
    BY <1>5, OthersDoNotPush DEF PushedOnce, Q!Occurs
<1> QED
    BY <1>2, <1>3, <1>4, <1>5

(***************************************************************************)
(* Every step of the pool is, for its queue, a step of the queue's own     *)
(* specification or none: no object is queued twice, and no worker enters  *)
(* WaitAndPop while it is inside.                                          *)
(***************************************************************************)
LEMMA StepOfQueue == IInv /\ PushedOnce /\ [Next]_vars => [Q!Next]_(Q!vars)
<1> SUFFICES ASSUME IInv, PushedOnce, [Next]_vars PROVE Q!Next \/ UNCHANGED queueVars
    BY DEF Q!vars, queueVars
<1>1. ASSUME NEW w \in Worker, WorkerStep(w) \/ WorkerSpuriousWakeup(w)
      PROVE  Q!Next \/ UNCHANGED queueVars
    BY <1>1 DEF WorkerStep, WorkerPop, WorkerExit, WorkerCall, WorkerDelete,
                WorkerSpuriousWakeup, Q!Next
<1>2. CASE MainStep
  <2>1. CASE AbandonPool \/ CancelQueue
    BY <2>1 DEF AbandonPool, CancelQueue, Q!Next
  <2>2. CASE ~(AbandonPool \/ CancelQueue)
    BY <1>2, <2>2 DEF MainStep, CreateAsync, Connected, ConnectFailed, VersionRejected,
                      OpenSynch, Close, SetToken, Join, Closed
  <2> QED
    BY <2>1, <2>2
<1>3. ASSUME NEW c \in Client, ClientStep(c) PROVE Q!Next \/ UNCHANGED queueVars
  <2>1. CASE Enqueue(c)
    <3>1. client[c] = "created" /\ held[c] \in Op /\ Q!Push(held[c])
      BY <2>1 DEF Enqueue, IInv, ClientInv
    <3>2. Q!Fresh(held[c])
      BY <3>1 DEF PushedOnce, Q!Fresh
    <3> QED
      BY <3>1, <3>2 DEF Q!Next
  <2>2. CASE KeepAliveEnqueue(c)
    <3>1. PICK o \in Ping : object[o] = "none" /\ Q!Push(o)
      BY <2>2 DEF KeepAliveEnqueue
    <3>2. o \in Op /\ Q!Fresh(o)
      BY <3>1 DEF Op, PushedOnce, Q!Fresh
    <3> QED
      BY <3>1, <3>2 DEF Q!Next
  <2>3. CASE ~(Enqueue(c) \/ KeepAliveEnqueue(c))
    BY <1>3, <2>3
    DEF ClientStep, Serve, NewTask, StartSynch, LockIfReady, ProbeNext, Unlock,
        StartKeepAlive, KeepAliveLock, KeepAliveSkip, KeepAliveUnlock, KeepAliveReturn
  <2> QED
    BY <2>1, <2>2, <2>3
<1>4. CASE UNCHANGED vars
    BY <1>4 DEF vars
<1> QED
    BY <1>1, <1>2, <1>3, <1>4 DEF Next, Terminated

(***************************************************************************)
(* The pool uses its queue as the queue's specification says.              *)
(***************************************************************************)
THEOREM UsesTheQueue == Spec => Q!Spec
<1>1. Init => PushedOnce
    BY EmptySeq DEF Init, Q!Init, PushedOnce, Q!Occurs
<1>2. Init => Q!Init
    BY DEF Init
<1> QED
    BY <1>1, <1>2, Invariance, StepPushedOnce, StepOfQueue, PTL DEF Spec, Q!Spec

(***************************************************************************)
(* What is proved of the queue by itself.                                  *)
(***************************************************************************)
QueueProofs == INSTANCE ProducerConsumerQueueProofs WITH Value <- Op, Consumer <- Worker

(***************************************************************************)
(* The two instances of the queue are the same.                            *)
(***************************************************************************)
LEMMA SameSteps == [Q!Next]_(Q!vars) => [QueueProofs!Next]_(QueueProofs!vars)
  BY DEF Q!Next, Q!vars, Q!history, Q!Fresh, Q!Occurs, Q!Push, Q!NotifyOne, Q!Enter, Q!Resume,
         Q!Inside, Q!WaitAndPop, Q!Sleep, Q!ReturnNothing, Q!PopFront, Q!SpuriousWakeup, Q!Pop,
         Q!Cancel, Q!NotifyAll,
         QueueProofs!Next, QueueProofs!vars, QueueProofs!history, QueueProofs!Fresh,
         QueueProofs!Occurs, QueueProofs!Push, QueueProofs!NotifyOne, QueueProofs!Enter,
         QueueProofs!Resume, QueueProofs!Inside, QueueProofs!WaitAndPop, QueueProofs!Sleep,
         QueueProofs!ReturnNothing, QueueProofs!PopFront, QueueProofs!SpuriousWakeup,
         QueueProofs!Pop, QueueProofs!Cancel, QueueProofs!NotifyAll

(***************************************************************************)
(* What the queue promises its users, the workers of any pool rely on: no  *)
(* wake-up is lost, nobody sleeps after the first destructor has cancelled *)
(* it, nothing queued is lost or doubled, and operations come out in the   *)
(* order in which they went in.                                            *)
(***************************************************************************)
THEOREM QueueServesThePool ==
    Spec => /\ [](Q!NoLostWakeup /\ Q!NobodySleepsAfterCancel /\ Q!AccountedInOrder)
            /\ Q!FifoSpec
<1>1. QueueProofs!ConsumerAssumption
  <2>1. IsFiniteSet(Worker)
    BY ThreadsAssumption, FS_Interval DEF Worker
  <2> QED
    BY <2>1 DEF QueueProofs!IsFiniteSet, IsFiniteSet
<1>2. QueueProofs!Spec => /\ []QueueProofs!NoLostWakeup
                          /\ []QueueProofs!NobodySleepsAfterCancel
                          /\ []QueueProofs!AccountedInOrder
                          /\ QueueProofs!FifoSpec
    BY <1>1, QueueProofs!WakeupsSuffice, QueueProofs!CancelWakesAll, QueueProofs!Conservation,
       QueueProofs!ImplementsFifo
<1>3. Q!Init => QueueProofs!Init
    BY DEF Q!Init, QueueProofs!Init
<1>4. QueueProofs!NoLostWakeup => Q!NoLostWakeup
    BY DEF Q!NoLostWakeup, Q!Cardinality, Q!IsFiniteSet, QueueProofs!NoLostWakeup,
           QueueProofs!Cardinality, QueueProofs!IsFiniteSet
<1>5. /\ QueueProofs!NobodySleepsAfterCancel => Q!NobodySleepsAfterCancel
      /\ QueueProofs!AccountedInOrder => Q!AccountedInOrder
    BY DEF Q!NobodySleepsAfterCancel, Q!AccountedInOrder,
           QueueProofs!NobodySleepsAfterCancel, QueueProofs!AccountedInOrder
<1>6. QueueProofs!Fifo!Init => Q!Fifo!Init
    BY DEF Q!Fifo!Init, QueueProofs!Fifo!Init
<1>7. [QueueProofs!Fifo!Next]_<<queue, popped>> => [Q!Fifo!Next]_<<queue, popped>>
    BY DEF Q!Fifo!Next, Q!Fifo!Put, Q!Fifo!Take, Q!Fifo!Discard, QueueProofs!Fifo!Next,
           QueueProofs!Fifo!Put, QueueProofs!Fifo!Take, QueueProofs!Fifo!Discard
<1> QED
    BY <1>2, <1>3, SameSteps, <1>4, <1>5, <1>6, <1>7, UsesTheQueue, PTL
    DEF Q!Spec, Q!FifoSpec, Q!Fifo!Spec,
        QueueProofs!Spec, QueueProofs!FifoSpec, QueueProofs!Fifo!Spec

(***************************************************************************)
(* A destructor joins its worker after it has cancelled the queue.         *)
(***************************************************************************)
JoinsAfterCancel == dtor = "join" => shutdown

(***************************************************************************)
(* What CloseReturns rests on: while the main thread is in join(), no      *)
(* worker sleeps in WaitAndPop, so the one it waits for is on its way out  *)
(* or in the middle of an operation.                                       *)
(***************************************************************************)
THEOREM JoinedIsAwake == Spec => [](dtor = "join" => waiting = {})
<1>1. Init => JoinsAfterCancel
    BY DEF Init, JoinsAfterCancel
<1>2. JoinsAfterCancel /\ [Next]_vars /\ [Q!Next]_(Q!vars) => JoinsAfterCancel'
  <2> SUFFICES ASSUME JoinsAfterCancel, [Next]_vars, [Q!Next]_(Q!vars), dtor' = "join"
               PROVE  shutdown'
    BY DEF JoinsAfterCancel
  <2>1. shutdown => shutdown'
    BY DEF Q!Next, Q!vars, Q!Push, Q!Enter, Q!Resume, Q!WaitAndPop, Q!Sleep, Q!ReturnNothing,
           Q!PopFront, Q!SpuriousWakeup, Q!Pop, Q!Cancel
  <2>2. ASSUME NEW w \in Worker, WorkerStep(w) \/ WorkerSpuriousWakeup(w) PROVE dtor' = dtor
    BY <2>2 DEF WorkerStep, WorkerPop, WorkerExit, WorkerCall, WorkerDelete,
                WorkerSpuriousWakeup, mainVars
  <2>3. ASSUME NEW c \in Client, ClientStep(c) PROVE dtor' = dtor
    BY <2>3 DEF ClientStep, Serve, NewTask, Enqueue, StartSynch, LockIfReady, ProbeNext, Unlock,
                StartKeepAlive, KeepAliveLock, KeepAliveSkip, KeepAliveUnlock,
                KeepAliveEnqueue, KeepAliveReturn, mainVars
  <2>4. CASE MainStep
    <3>1. CASE CancelQueue
      BY <3>1 DEF CancelQueue, Q!Cancel
    <3>2. CASE ~CancelQueue
      <4>1. dtor' = dtor
        BY <2>4, <3>2 DEF MainStep, CreateAsync, Connected, ConnectFailed, VersionRejected,
                          OpenSynch, AbandonPool, Close, SetToken, Join, Closed
      <4> QED
        BY <4>1, <2>1 DEF JoinsAfterCancel
    <3> QED
      BY <3>1, <3>2
  <2>5. CASE UNCHANGED vars
    BY <2>1, <2>5 DEF JoinsAfterCancel, vars, mainVars
  <2> QED
    BY <2>1, <2>2, <2>3, <2>4, <2>5 DEF Next, Terminated, JoinsAfterCancel
<1>3. JoinsAfterCancel /\ Q!NobodySleepsAfterCancel => (dtor = "join" => waiting = {})
    BY DEF JoinsAfterCancel, Q!NobodySleepsAfterCancel
<1> QED
    BY <1>1, <1>2, <1>3, UsesTheQueue, QueueServesThePool, PTL DEF Spec, Q!Spec
=============================================================================
