----------------------- MODULE ProducerConsumerQueue -----------------------
(***************************************************************************)
(* src/shared/Threading/ProducerConsumerQueue.h: a std::queue guarded by   *)
(* _queueLock, a condition variable on which consumers sleep, and the      *)
(* _shutdown flag set by Cancel and never reset.                           *)
(*                                                                         *)
(* Every method runs under _queueLock from its first line to its last      *)
(* except for the wait of WaitAndPop, which releases it.  A method is      *)
(* therefore one action, and WaitAndPop is two: the part up to the wait or *)
(* the return, taken by a thread that calls it (Enter) and by a thread     *)
(* that has been woken and owns the lock again (Resume).                   *)
(***************************************************************************)
EXTENDS Naturals, Sequences, FiniteSets

CONSTANTS
    Value,              \* the pointers that can be queued
    Consumer            \* the threads that call WaitAndPop or Pop

ASSUME ConsumerAssumption == IsFiniteSet(Consumer)

VARIABLES
    queue,              \* _queue
    shutdown,           \* _shutdown
    waiting,            \* threads asleep in _condition.wait
    woken,              \* threads notified, not yet holding the lock again
    pushed,             \* history: every value pushed, in order
    popped,             \* history: every value popped, in order
    dropped             \* history: every value deleted by Cancel, in order

history == <<pushed, popped, dropped>>
vars == <<queue, shutdown, waiting, woken, pushed, popped, dropped>>

Init ==
    /\ queue = <<>>
    /\ shutdown = FALSE
    /\ waiting = {}
    /\ woken = {}
    /\ pushed = <<>> /\ popped = <<>> /\ dropped = <<>>

-----------------------------------------------------------------------------
\* Mutants of the wake-ups: no notify at all, a notify only for the first
\* value, and a Cancel that wakes one thread.
NoNotify == UNCHANGED <<waiting, woken>>

NotifyFirstValueOnly ==
    IF waiting = {} \/ queue # <<>>
    THEN UNCHANGED <<waiting, woken>>
    ELSE \E c \in waiting : waiting' = waiting \ {c} /\ woken' = woken \cup {c}

NotifyOneOfAll ==
    IF waiting = {}
    THEN UNCHANGED <<waiting, woken>>
    ELSE \E c \in waiting : waiting' = waiting \ {c} /\ woken' = woken \cup {c}

\* std::condition_variable::notify_one: one sleeper, if there is one, chosen
\* by the system.
NotifyOne ==
    IF waiting = {}
    THEN UNCHANGED <<waiting, woken>>
    ELSE \E c \in waiting : waiting' = waiting \ {c} /\ woken' = woken \cup {c}

NotifyAll == waiting' = {} /\ woken' = woken \cup waiting

\* Mutant: the value goes to the wrong end.
PushInFront(v) ==
    /\ queue' = <<v>> \o queue
    /\ NotifyOne
    /\ pushed' = Append(pushed, v)
    /\ UNCHANGED <<shutdown, popped, dropped>>

\* Push.  It does not look at _shutdown.
Push(v) ==
    /\ queue' = Append(queue, v)
    /\ NotifyOne
    /\ pushed' = Append(pushed, v)
    /\ UNCHANGED <<shutdown, popped, dropped>>

\* The three ways through the body of WaitAndPop once the lock is held.
Sleep(c) ==
    /\ queue = <<>> /\ ~shutdown
    /\ waiting' = waiting \cup {c}
    /\ woken' = woken \ {c}
    /\ UNCHANGED <<queue, shutdown, history>>

ReturnNothing(c) ==
    /\ shutdown
    /\ woken' = woken \ {c}
    /\ UNCHANGED <<queue, shutdown, waiting, history>>

\* Mutant: the pop() after front() is missing.
PopFrontKeepsValue(c) ==
    /\ queue # <<>> /\ ~shutdown
    /\ popped' = Append(popped, Head(queue))
    /\ woken' = woken \ {c}
    /\ UNCHANGED <<queue, shutdown, waiting, pushed, dropped>>

PopFront(c) ==
    /\ queue # <<>> /\ ~shutdown
    /\ queue' = Tail(queue)
    /\ popped' = Append(popped, Head(queue))
    /\ woken' = woken \ {c}
    /\ UNCHANGED <<shutdown, waiting, pushed, dropped>>

\* A thread is inside WaitAndPop while it sleeps or has been woken.
Inside(c) == c \in waiting \cup woken

WaitAndPop(c) == Sleep(c) \/ ReturnNothing(c) \/ PopFront(c)

Enter(c) == ~Inside(c) /\ WaitAndPop(c)
Resume(c) == c \in woken /\ WaitAndPop(c)

\* The while loop around the wait is there because this can happen.
SpuriousWakeup(c) ==
    /\ c \in waiting
    /\ waiting' = waiting \ {c}
    /\ woken' = woken \cup {c}
    /\ UNCHANGED <<queue, shutdown, history>>

\* Pop, the variant that never blocks: it fails, and changes nothing, when
\* the queue is empty or shut down.
Pop(c) == ~Inside(c) /\ PopFront(c)

\* Mutant: the queue itself is handed to DeleteQueuedObject.
CancelDeletesQueue ==
    /\ dropped' = Append(dropped, queue)
    /\ queue' = <<>>
    /\ shutdown' = TRUE
    /\ NotifyAll
    /\ UNCHANGED <<pushed, popped>>

\* Cancel deletes what is queued, one object after the other under the lock.
Cancel ==
    /\ dropped' = dropped \o queue
    /\ queue' = <<>>
    /\ shutdown' = TRUE
    /\ NotifyAll
    /\ UNCHANGED <<pushed, popped>>

-----------------------------------------------------------------------------
\* Queued pointers are owned by the queue, so one object is pushed once.
Occurs(v, s) == \E i \in 1..Len(s) : s[i] = v

Fresh(v) == ~Occurs(v, pushed)

Next ==
    \/ \E v \in Value : Fresh(v) /\ Push(v)
    \/ \E c \in Consumer :
        \/ Enter(c)
        \/ Resume(c)
        \/ SpuriousWakeup(c)
        \/ Pop(c)
    \/ Cancel

Spec == Init /\ [][Next]_vars

(***************************************************************************)
(* A consumer is a DatabaseWorker: it calls WaitAndPop again whenever it   *)
(* is not inside it, until it is given nothing, and a woken thread         *)
(* eventually gets the lock.                                               *)
(***************************************************************************)
Fairness == \A c \in Consumer : WF_vars(Enter(c)) /\ WF_vars(Resume(c))

FairSpec == Spec /\ Fairness
-----------------------------------------------------------------------------
TypeOK ==
    /\ queue \in Seq(Value)
    /\ shutdown \in BOOLEAN
    /\ waiting \subseteq Consumer
    /\ woken \subseteq Consumer
    /\ pushed \in Seq(Value)
    /\ popped \in Seq(Value)
    /\ dropped \in Seq(Value)

(***************************************************************************)
(* Push wakes at most one sleeper and a thread that never slept may take   *)
(* the value first.  No wake-up is lost all the same: while a consumer     *)
(* sleeps un-notified, every queued value has a notified thread of its own *)
(* on its way to the lock.                                                 *)
(***************************************************************************)
NoLostWakeup == waiting # {} => Len(queue) <= Cardinality(woken)

(***************************************************************************)
(* After Cancel nobody sleeps, and nobody goes to sleep again: otherwise   *)
(* the join in ~DatabaseWorker would wait for ever.                        *)
(***************************************************************************)
NobodySleepsAfterCancel == shutdown => waiting = {}

(***************************************************************************)
(* Every value accepted is in exactly one place, and in its order: handed  *)
(* to one consumer, deleted by a Cancel, or still queued.                  *)
(***************************************************************************)
AccountedInOrder == pushed = popped \o dropped \o queue

(***************************************************************************)
(* Nothing is handed out once the queue is shut down, and shutting down is *)
(* final: Push still accepts values after it, but no thread is given one.  *)
(***************************************************************************)
ShutdownIsFinal == [][shutdown => shutdown' /\ popped' = popped]_vars

(***************************************************************************)
(* A pushed value is handed to a consumer unless the queue is cancelled.   *)
(***************************************************************************)
QueuedIsConsumed ==
    \A v \in Value : Occurs(v, pushed) ~> (Occurs(v, popped) \/ shutdown)

(***************************************************************************)
(* Cancel releases every thread that is inside WaitAndPop.                 *)
(***************************************************************************)
CancelReleases ==
    \A c \in Consumer : (shutdown /\ Inside(c)) ~> ~Inside(c)

\* The class implements the abstract queue: the history of pops is what has
\* been taken.
Fifo == INSTANCE FifoQueue WITH items <- queue, taken <- popped
FifoSpec == Fifo!Spec
=============================================================================
