------------------------------ MODULE MPSCQueue ------------------------------
(***************************************************************************)
(* src/shared/Threading/MPSCQueue.h: the lock-free queue of many producers *)
(* and one consumer.  The queue is a singly linked list from _tail, a node *)
(* whose value has been consumed, to _head, the node enqueued last.        *)
(*                                                                         *)
(* Enqueue swings _head to its node with one exchange and then, in a       *)
(* second step, links the previous head to it.  Between the two the list   *)
(* is broken.  Dequeue reads the link of _tail, takes the value of the     *)
(* node it leads to, moves _tail there and deletes the old tail.  The      *)
(* acquire and release orders of the code make these steps sequentially    *)
(* consistent.  A deleted node's address can be allocated again.           *)
(***************************************************************************)
EXTENDS Naturals, Sequences

CONSTANTS
    Value,              \* what is enqueued, each value once
    Node,               \* addresses
    Producer,
    Null

ASSUME NullAssumption == Null \notin Value \cup Node

VARIABLES
    head, tail,         \* _head, _tail
    next,               \* Next of each node
    data,               \* Data of each node
    allocated,          \* the nodes that exist
    producer,           \* program counter of each producer
    node, prevHead,     \* its locals
    consumer,           \* program counter of the consumer
    got, old,           \* its locals next and tail
    life,               \* "used", "destroying", "destroyed"
    taken,              \* history: values dequeued, in order
    chain               \* history: the nodes from _tail to _head, as exchanged

vars == <<head, tail, next, data, allocated, producer, node, prevHead,
          consumer, got, old, life, taken, chain>>

Init ==
    \E dummy \in Node :
        /\ head = dummy /\ tail = dummy
        /\ next = [n \in Node |-> Null]
        /\ data = [n \in Node |-> Null]
        /\ allocated = {dummy}
        /\ producer = [p \in Producer |-> "idle"]
        /\ node = [p \in Producer |-> Null]
        /\ prevHead = [p \in Producer |-> Null]
        /\ consumer = "idle" /\ got = Null /\ old = Null
        /\ life = "used"
        /\ taken = <<>>
        /\ chain = <<dummy>>

\* The values accepted and not dequeued yet, in the order of the exchanges.
Items == [i \in 1..Len(chain) - 1 |-> data[chain[i + 1]]]

Enqueued(v) ==
    \/ \E i \in 1..Len(Items) : Items[i] = v
    \/ \E i \in 1..Len(taken) : taken[i] = v

\* Enqueue: new Node, then the exchange that takes effect for everybody.
Exchange(p, v) ==
    /\ life = "used" /\ producer[p] = "idle" /\ ~Enqueued(v)
    /\ \E n \in Node \ allocated :
        /\ allocated' = allocated \cup {n}
        /\ data' = [data EXCEPT ![n] = v]
        /\ next' = [next EXCEPT ![n] = Null]
        /\ node' = [node EXCEPT ![p] = n]
        /\ head' = n
        /\ chain' = Append(chain, n)
    /\ prevHead' = [prevHead EXCEPT ![p] = head]
    /\ producer' = [producer EXCEPT ![p] = "linking"]
    /\ UNCHANGED <<tail, consumer, got, old, life, taken>>

\* Mutants: the store is missing; it goes to the node _head points to now.
LinkNothing(p) ==
    /\ producer[p] = "linking"
    /\ producer' = [producer EXCEPT ![p] = "idle"]
    /\ UNCHANGED <<head, tail, next, data, allocated, node, prevHead, consumer, got, old,
                   life, taken, chain>>

LinkToHead(p) ==
    /\ producer[p] = "linking"
    /\ next' = [next EXCEPT ![head] = node[p]]
    /\ producer' = [producer EXCEPT ![p] = "idle"]
    /\ UNCHANGED <<head, tail, data, allocated, node, prevHead, consumer, got, old,
                   life, taken, chain>>

\* prevHead->Next.store(node).
Link(p) ==
    /\ producer[p] = "linking"
    /\ next' = [next EXCEPT ![prevHead[p]] = node[p]]
    /\ producer' = [producer EXCEPT ![p] = "idle"]
    /\ UNCHANGED <<head, tail, data, allocated, node, prevHead, consumer, got, old,
                   life, taken, chain>>

\* Dequeue: it returns false, with nothing changed, while the link is null.
ReadNext ==
    /\ life # "destroyed" /\ consumer = "idle" /\ next[tail] # Null
    /\ got' = next[tail]
    /\ consumer' = "found"
    /\ UNCHANGED <<head, tail, next, data, allocated, producer, node, prevHead, old,
                   life, taken, chain>>

\* Mutants: the value of the old tail is returned; the node that is deleted is the
\* new tail.
AdvanceWithOldValue ==
    /\ consumer = "found"
    /\ taken' = Append(taken, data[tail])
    /\ old' = tail
    /\ tail' = got
    /\ chain' = Tail(chain)
    /\ consumer' = "deleting"
    /\ UNCHANGED <<head, next, data, allocated, producer, node, prevHead, got, life>>

AdvanceDeletesNext ==
    /\ consumer = "found"
    /\ taken' = Append(taken, data[got])
    /\ old' = got
    /\ tail' = got
    /\ chain' = Tail(chain)
    /\ consumer' = "deleting"
    /\ UNCHANGED <<head, next, data, allocated, producer, node, prevHead, got, life>>

\* result = next->Data; _tail.store(next).
Advance ==
    /\ consumer = "found"
    /\ taken' = Append(taken, data[got])
    /\ old' = tail
    /\ tail' = got
    /\ chain' = Tail(chain)
    /\ consumer' = "deleting"
    /\ UNCHANGED <<head, next, data, allocated, producer, node, prevHead, got, life>>

\* delete tail.
Delete ==
    /\ consumer = "deleting"
    /\ allocated' = allocated \ {old}
    /\ consumer' = "idle"
    /\ UNCHANGED <<head, tail, next, data, producer, node, prevHead, got, old,
                   life, taken, chain>>

Dequeue == ReadNext \/ Advance \/ Delete

\* ~MPSCQueue, which nobody runs beside an Enqueue or a Dequeue: it calls
\* Dequeue until that fails, forgetting the values, and deletes the last node.
Destroy ==
    /\ life = "used" /\ consumer = "idle"
    /\ \A p \in Producer : producer[p] = "idle"
    /\ life' = "destroying"
    /\ UNCHANGED <<head, tail, next, data, allocated, producer, node, prevHead,
                   consumer, got, old, taken, chain>>

\* Mutant: the loop over Dequeue is missing.
DeleteFrontOnly ==
    /\ life = "destroying" /\ consumer = "idle"
    /\ allocated' = allocated \ {head}
    /\ life' = "destroyed"
    /\ UNCHANGED <<head, tail, next, data, producer, node, prevHead,
                   consumer, got, old, taken, chain>>

DeleteFront ==
    /\ life = "destroying" /\ consumer = "idle" /\ next[tail] = Null
    /\ allocated' = allocated \ {head}
    /\ life' = "destroyed"
    /\ UNCHANGED <<head, tail, next, data, producer, node, prevHead,
                   consumer, got, old, taken, chain>>

Next ==
    \/ \E p \in Producer : (\E v \in Value : Exchange(p, v)) \/ Link(p)
    \/ Dequeue
    \/ Destroy \/ DeleteFront

Spec == Init /\ [][Next]_vars

\* The threads run: an Enqueue is finished, and the consumer polls.
FairSpec == Spec /\ WF_vars(Dequeue) /\ \A p \in Producer : WF_vars(Link(p))
-----------------------------------------------------------------------------
TypeOK ==
    /\ head \in Node /\ tail \in Node
    /\ next \in [Node -> Node \cup {Null}]
    /\ data \in [Node -> Value \cup {Null}]
    /\ allocated \subseteq Node
    /\ producer \in [Producer -> {"idle", "linking"}]
    /\ node \in [Producer -> Node \cup {Null}]
    /\ prevHead \in [Producer -> Node \cup {Null}]
    /\ consumer \in {"idle", "found", "deleting"}
    /\ got \in Node \cup {Null} /\ old \in Node \cup {Null}
    /\ life \in {"used", "destroying", "destroyed"}
    /\ taken \in Seq(Value)
    /\ chain \in Seq(Node)

(***************************************************************************)
(* Between neighbours of the exchange order there is either the link or    *)
(* the one producer that is about to store it: an interrupted Enqueue      *)
(* breaks the list at one place and loses nothing behind the break.        *)
(***************************************************************************)
LinkedOrAboutToBe ==
    \A i \in 1..Len(chain) - 1 :
        \/ /\ next[chain[i]] = chain[i + 1]
           /\ \A p \in Producer : producer[p] = "linking" => prevHead[p] # chain[i]
        \/ /\ next[chain[i]] = Null
           /\ \E p \in Producer : /\ producer[p] = "linking"
                                  /\ prevHead[p] = chain[i] /\ node[p] = chain[i + 1]

\* The list, in well-typed states: Dequeue fails on a queue that is not empty only
\* while some Enqueue is between its two steps.
ListInv == TypeOK /\ LinkedOrAboutToBe

(***************************************************************************)
(* Nobody touches a deleted node: a producer may be stopped for any time   *)
(* between its exchange and its link, and the node it will write to is     *)
(* still there, and is not another one at the same address.                *)
(***************************************************************************)
NoUseAfterFree ==
    /\ life # "destroyed" => {head, tail} \subseteq allocated
    /\ \A p \in Producer :
        producer[p] = "linking" =>
            /\ {prevHead[p], node[p]} \subseteq allocated
            /\ \E i \in 1..Len(chain) - 1 : chain[i] = prevHead[p] /\ chain[i + 1] = node[p]
    /\ consumer = "found" => got \in allocated
    /\ consumer = "deleting" => old \in allocated

(***************************************************************************)
(* The destructor finds every node: none is left allocated, and none is    *)
(* left in the list for somebody who thinks the queue still holds it.      *)
(***************************************************************************)
DestroyedFreesAll ==
    life = "destroyed" => allocated = {} /\ Items = <<>>

(***************************************************************************)
(* Every value that was enqueued is dequeued, by the destructor if by      *)
(* nobody else.                                                            *)
(***************************************************************************)
EnqueuedIsDequeued ==
    \A v \in Value : Enqueued(v) ~> \E i \in 1..Len(taken) : taken[i] = v

\* The queue is first-in first-out in the order of the exchanges.
Fifo == INSTANCE FifoQueue WITH items <- Items
FifoSpec == Fifo!Spec
=============================================================================
