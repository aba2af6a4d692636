--------------------------- MODULE MPSCQueueProofs ---------------------------
(***************************************************************************)
(* Proofs about MPSCQueue, for any set of values, of addresses and of      *)
(* producers: the list holds together, nobody touches a deleted node, the  *)
(* destructor frees every node, and the class implements the abstract      *)
(* first-in first-out queue.                                               *)
(***************************************************************************)
EXTENDS MPSCQueue, SequenceTheorems, TLAPS

(***************************************************************************)
(* The exchanges order distinct nodes from _tail to _head, and nothing is  *)
(* linked behind _head.                                                    *)
(***************************************************************************)
Shape ==
    /\ Len(chain) >= 1
    /\ chain[1] = tail /\ chain[Len(chain)] = head
    /\ \A i, j \in 1..Len(chain) : chain[i] = chain[j] => i = j
    /\ next[head] = Null

(***************************************************************************)
(* A producer inside Enqueue will link two neighbours of that order, and   *)
(* no two producers will link behind the same node.                        *)
(***************************************************************************)
Linkers ==
    /\ \A p \in Producer : producer[p] = "linking" =>
        \E i \in 1..Len(chain) - 1 : chain[i] = prevHead[p] /\ chain[i + 1] = node[p]
    /\ \A p, q \in Producer :
        producer[p] = "linking" /\ producer[q] = "linking" /\ prevHead[p] = prevHead[q]
            => p = q

(***************************************************************************)
(* Every node but the first carries a value.                               *)
(***************************************************************************)
Carries == \A i \in 2..Len(chain) : data[chain[i]] \in Value

(***************************************************************************)
(* What the consumer found is the second node, linked; what it deletes has *)
(* left the list.                                                          *)
(***************************************************************************)
ConsumerKnows ==
    /\ consumer = "found" => Len(chain) >= 2 /\ got = chain[2] /\ next[tail] = got
    /\ consumer = "deleting" => \A i \in 1..Len(chain) : chain[i] # old

(***************************************************************************)
(* The allocated nodes are those of the list, and the one being deleted.   *)
(***************************************************************************)
Memory ==
    /\ life # "destroyed" =>
        allocated = {chain[i] : i \in 1..Len(chain)}
                        \cup {n \in {old} : consumer = "deleting"}
    /\ life = "destroyed" => allocated = {} /\ Len(chain) = 1 /\ consumer = "idle"

(***************************************************************************)
(* Nobody is inside Enqueue once the destructor has begun.                 *)
(***************************************************************************)
Quiet == life # "used" => \A p \in Producer : producer[p] = "idle"

(***************************************************************************)
(* The inductive invariant. ListInv is not inductive: without Linkers a    *)
(* second producer could link behind the same node, without Shape a node   *)
(* could be in the list twice, and the step of the consumer is harmless    *)
(* only because no producer will still write to the node it leaves.        *)
(***************************************************************************)
IInv ==
    /\ TypeOK /\ Shape /\ LinkedOrAboutToBe /\ Linkers
    /\ Carries /\ ConsumerKnows /\ Memory /\ Quiet

-----------------------------------------------------------------------------
(***************************************************************************)
(* The queue starts with one node, the dummy.                              *)
(***************************************************************************)
LEMMA InitIInv == Init => IInv
<1> SUFFICES ASSUME Init PROVE IInv
    OBVIOUS
<1>1. PICK dummy \in Node :
        /\ head = dummy /\ tail = dummy
        /\ next = [n \in Node |-> Null]
        /\ data = [n \in Node |-> Null]
        /\ allocated = {dummy}
        /\ producer = [p \in Producer |-> "idle"]
        /\ node = [p \in Producer |-> Null]
        /\ prevHead = [p \in Producer |-> Null]
        /\ consumer = "idle" /\ got = Null /\ old = Null
        /\ life = "used"
        /\ taken = <<>>
        /\ chain = <<dummy>>
    BY DEF Init
<1>2. chain \in Seq(Node) /\ Len(chain) = 1 /\ chain[1] = dummy
    BY <1>1
<1>3. TypeOK
    BY <1>1, <1>2 DEF TypeOK
<1>4. Shape /\ LinkedOrAboutToBe /\ Linkers /\ Carries /\ ConsumerKnows /\ Quiet
    BY <1>1, <1>2 DEF Shape, LinkedOrAboutToBe, Linkers, Carries, ConsumerKnows, Quiet
<1>5. Memory
  <2>1. {chain[i] : i \in 1..Len(chain)} = {dummy}
    BY <1>2
  <2> QED
    BY <2>1, <1>1 DEF Memory
<1> QED
    BY <1>3, <1>4, <1>5 DEF IInv

(***************************************************************************)
(* Enqueue's exchange puts a new node behind all others.                   *)
(***************************************************************************)
LEMMA ExchangeKeepsIInv ==
    ASSUME IInv, NEW p \in Producer, NEW v \in Value, Exchange(p, v)
    PROVE  IInv'
<1> DEFINE l == Len(chain)
<1>1. PICK n \in Node \ allocated :
        /\ allocated' = allocated \cup {n}
        /\ data' = [data EXCEPT ![n] = v]
        /\ next' = [next EXCEPT ![n] = Null]
        /\ node' = [node EXCEPT ![p] = n]
        /\ head' = n
        /\ chain' = Append(chain, n)
    BY DEF Exchange
<1>2. /\ life = "used" /\ producer[p] = "idle"
      /\ prevHead' = [prevHead EXCEPT ![p] = head]
      /\ producer' = [producer EXCEPT ![p] = "linking"]
      /\ UNCHANGED <<tail, consumer, got, old, life, taken>>
    BY DEF Exchange
<1>3. chain \in Seq(Node) /\ l \in Nat /\ l >= 1
    BY LenProperties DEF IInv, TypeOK, Shape
<1>4. \A i \in 1..l : chain[i] \in Node
    BY <1>3, ElementOfSeq
<1>5. /\ chain' \in Seq(Node) /\ Len(chain') = l + 1
      /\ \A i \in 1..l : chain'[i] = chain[i]
      /\ chain'[l + 1] = n
    BY <1>1, <1>3, AppendProperties
<1>6. /\ allocated = {chain[i] : i \in 1..l} \cup {m \in {old} : consumer = "deleting"}
      /\ \A i \in 1..l : chain[i] # n
      /\ consumer = "deleting" => old # n
    BY <1>1, <1>2 DEF IInv, Memory
<1>7. chain[1] = tail /\ chain[l] = head /\ next[head] = Null
    BY DEF IInv, Shape
<1> HIDE DEF l
<1>8. TypeOK'
    BY <1>1, <1>2, <1>5 DEF IInv, TypeOK
<1>9. Shape'
  <2>1. Len(chain') >= 1 /\ chain'[1] = tail' /\ chain'[Len(chain')] = head'
    BY <1>1, <1>2, <1>3, <1>5, <1>7
  <2>2. \A i, j \in 1..l : chain[i] = chain[j] => i = j
    BY DEF IInv, Shape, l
  <2>3. \A i, j \in 1..Len(chain') : chain'[i] = chain'[j] => i = j
    <3> SUFFICES ASSUME NEW i \in 1..l + 1, NEW j \in 1..l + 1, chain'[i] = chain'[j]
                 PROVE  i = j
        BY <1>5
    <3>1. (i \in 1..l \/ i = l + 1) /\ (j \in 1..l \/ j = l + 1)
        BY <1>3
    <3> QED
        BY <3>1, <2>2, <1>5, <1>6
  <2>4. next'[head'] = Null
    BY <1>1 DEF IInv, TypeOK
  <2> QED
    BY <2>1, <2>3, <2>4 DEF Shape
<1>10. LinkedOrAboutToBe'
  <2> SUFFICES ASSUME NEW i \in 1..l
               PROVE  \/ /\ next'[chain'[i]] = chain'[i + 1]
                         /\ \A q \in Producer :
                              producer'[q] = "linking" => prevHead'[q] # chain'[i]
                      \/ /\ next'[chain'[i]] = Null
                         /\ \E q \in Producer :
                              /\ producer'[q] = "linking"
                              /\ prevHead'[q] = chain'[i] /\ node'[q] = chain'[i + 1]
    BY <1>3, <1>5 DEF LinkedOrAboutToBe
  <2>1. chain'[i] = chain[i] /\ next'[chain'[i]] = next[chain[i]]
    BY <1>1, <1>4, <1>5, <1>6 DEF IInv, TypeOK
  <2>2. CASE i = l
    <3>1. chain'[i + 1] = n /\ next'[chain'[i]] = Null
        BY <2>1, <2>2, <1>5, <1>7
    <3>2. producer'[p] = "linking" /\ prevHead'[p] = chain'[i] /\ node'[p] = n
        BY <2>1, <2>2, <1>1, <1>2, <1>7 DEF IInv, TypeOK
    <3> QED
        BY <3>1, <3>2
  <2>3. CASE i # l
    <3>1. i \in 1..l - 1 /\ i + 1 \in 1..l
        BY <2>3, <1>3
    <3>2. chain'[i + 1] = chain[i + 1]
        BY <3>1, <1>5
    <3>3. prevHead'[p] # chain[i]
        BY <2>3, <1>2, <1>3, <1>7 DEF IInv, TypeOK, Shape, l
    <3>4. \A q \in Producer : q # p =>
            /\ producer'[q] = producer[q]
            /\ prevHead'[q] = prevHead[q] /\ node'[q] = node[q]
        BY <1>1, <1>2 DEF IInv, TypeOK
    <3>5. \/ /\ next[chain[i]] = chain[i + 1]
             /\ \A q \in Producer : producer[q] = "linking" => prevHead[q] # chain[i]
          \/ /\ next[chain[i]] = Null
             /\ \E q \in Producer : /\ producer[q] = "linking"
                                    /\ prevHead[q] = chain[i] /\ node[q] = chain[i + 1]
        BY <3>1 DEF IInv, LinkedOrAboutToBe, l
    <3>6. producer[p] # "linking"
        BY <1>2
    <3> QED
        BY <2>1, <3>2, <3>3, <3>4, <3>5, <3>6
  <2> QED
    BY <2>2, <2>3
<1>11. Linkers'
  <2>1. \A q \in Producer : q # p /\ producer'[q] = "linking" =>
            /\ producer[q] = "linking"
            /\ prevHead'[q] = prevHead[q] /\ node'[q] = node[q]
            /\ \E i \in 1..l - 1 : chain[i] = prevHead[q] /\ chain[i + 1] = node[q]
    BY <1>1, <1>2 DEF IInv, TypeOK, Linkers, l
  <2>2. prevHead'[p] = chain[l] /\ node'[p] = n
    BY <1>1, <1>2, <1>7 DEF IInv, TypeOK
  <2>3. \A i \in 1..l - 1 : /\ i \in 1..l /\ i + 1 \in 1..l
                            /\ chain[i] # chain[l]
                            /\ chain'[i] = chain[i] /\ chain'[i + 1] = chain[i + 1]
    BY <1>3, <1>5 DEF IInv, Shape, l
  <2>4. ASSUME NEW q \in Producer, producer'[q] = "linking"
        PROVE  \E i \in 1..l : chain'[i] = prevHead'[q] /\ chain'[i + 1] = node'[q]
    <3>1. CASE q = p
        BY <3>1, <2>2, <1>3, <1>5
    <3>2. CASE q # p
      <4>1. PICK i \in 1..l - 1 : chain[i] = prevHead[q] /\ chain[i + 1] = node[q]
        BY <3>2, <2>1, <2>4
      <4> QED
        BY <4>1, <3>2, <2>1, <2>3, <2>4
    <3> QED
        BY <3>1, <3>2
  <2>5. \A q \in Producer : q # p /\ producer'[q] = "linking" => prevHead'[q] # prevHead'[p]
    BY <2>1, <2>2, <2>3
  <2>6. ASSUME NEW q \in Producer, NEW r \in Producer,
               producer'[q] = "linking", producer'[r] = "linking", prevHead'[q] = prevHead'[r]
        PROVE  q = r
    <3>1. CASE q # p /\ r # p
        BY <3>1, <2>6, <2>1 DEF IInv, Linkers
    <3>2. CASE q = p \/ r = p
        BY <3>2, <2>6, <2>5
    <3> QED
        BY <3>1, <3>2
  <2>7. 1..Len(chain') - 1 = 1..l
    BY <1>3, <1>5
  <2> QED
    BY <2>4, <2>6, <2>7 DEF Linkers
<1>12. Carries'
  <2> SUFFICES ASSUME NEW i \in 2..l + 1 PROVE data'[chain'[i]] \in Value
    BY <1>5 DEF Carries
  <2>1. CASE i = l + 1
    BY <2>1, <1>1, <1>5 DEF IInv, TypeOK
  <2>2. CASE i # l + 1
    <3>1. i \in 2..l /\ i \in 1..l
        BY <2>2, <1>3
    <3> QED
        BY <3>1, <1>1, <1>4, <1>5, <1>6 DEF IInv, TypeOK, Carries, l
  <2> QED
    BY <2>1, <2>2
<1>13. ConsumerKnows'
  <2>1. consumer' = "found" => Len(chain') >= 2 /\ got' = chain'[2] /\ next'[tail'] = got'
    <3> SUFFICES ASSUME consumer = "found"
                 PROVE  Len(chain') >= 2 /\ got = chain'[2] /\ next'[tail] = got
        BY <1>2
    <3>1. l >= 2 /\ got = chain[2] /\ next[tail] = got
        BY DEF IInv, ConsumerKnows, l
    <3>2. tail \in Node /\ tail # n
        BY <1>3, <1>4, <1>6, <1>7
    <3> QED
        BY <3>1, <3>2, <1>1, <1>3, <1>5 DEF IInv, TypeOK
  <2>2. consumer' = "deleting" => \A i \in 1..Len(chain') : chain'[i] # old'
    <3> SUFFICES ASSUME consumer = "deleting", NEW i \in 1..l + 1 PROVE chain'[i] # old
        BY <1>2, <1>5
    <3>1. i \in 1..l \/ i = l + 1
        BY <1>3
    <3> QED
        BY <3>1, <1>5, <1>6 DEF IInv, ConsumerKnows, l
  <2> QED
    BY <2>1, <2>2 DEF ConsumerKnows
<1>14. Memory'
  <2>1. {chain'[i] : i \in 1..l + 1} = {chain[i] : i \in 1..l} \cup {n}
    <3>1. \A i \in 1..l + 1 : i \in 1..l \/ i = l + 1
        BY <1>3
    <3>2. l + 1 \in 1..l + 1 /\ \A i \in 1..l : i \in 1..l + 1
        BY <1>3
    <3> QED
        BY <3>1, <3>2, <1>5
  <2> QED
    BY <2>1, <1>1, <1>2, <1>5, <1>6 DEF Memory
<1>15. Quiet'
    BY <1>2 DEF Quiet
<1> QED
    BY <1>8, <1>9, <1>10, <1>11, <1>12, <1>13, <1>14, <1>15 DEF IInv

(***************************************************************************)
(* Enqueue's store closes the break that its exchange had left.            *)
(***************************************************************************)
LEMMA LinkKeepsIInv ==
    ASSUME IInv, NEW p \in Producer, Link(p)
    PROVE  IInv'
<1> DEFINE l == Len(chain)
<1>1. /\ producer[p] = "linking"
      /\ next' = [next EXCEPT ![prevHead[p]] = node[p]]
      /\ producer' = [producer EXCEPT ![p] = "idle"]
      /\ UNCHANGED <<head, tail, data, allocated, node, prevHead, consumer, got, old,
                     life, taken, chain>>
    BY DEF Link
<1>2. chain \in Seq(Node) /\ l \in Nat /\ l >= 1
    BY LenProperties DEF IInv, TypeOK, Shape
<1>3. \A i \in 1..l : chain[i] \in Node
    BY <1>2, ElementOfSeq
<1>4. PICK k \in 1..l - 1 : chain[k] = prevHead[p] /\ chain[k + 1] = node[p]
    BY <1>1 DEF IInv, Linkers
<1>5. /\ \A i, j \in 1..l : chain[i] = chain[j] => i = j
      /\ chain[1] = tail /\ chain[l] = head /\ next[head] = Null
    BY DEF IInv, Shape
<1> HIDE DEF l
<1>6. k \in 1..l /\ k + 1 \in 1..l /\ k # l
    BY <1>2
<1>7. /\ next'[chain[k]] = chain[k + 1]
      /\ \A i \in 1..l : i # k => next'[chain[i]] = next[chain[i]]
    BY <1>1, <1>3, <1>4, <1>5, <1>6 DEF IInv, TypeOK
<1>8. /\ producer'[p] = "idle"
      /\ \A q \in Producer : q # p => producer'[q] = producer[q]
    BY <1>1 DEF IInv, TypeOK
<1>9. \A q \in Producer : producer'[q] = "linking" => producer[q] = "linking" /\ q # p
    BY <1>8
<1>10. TypeOK'
    BY <1>1, <1>3, <1>4, <1>6 DEF IInv, TypeOK
<1>11. Shape'
  <2>1. next'[chain[l]] = next[chain[l]]
    BY <1>2, <1>6, <1>7
  <2> QED
    BY <2>1, <1>1, <1>2, <1>5 DEF Shape, l
<1>12. LinkedOrAboutToBe'
  <2> SUFFICES ASSUME NEW i \in 1..l - 1
               PROVE  \/ /\ next'[chain[i]] = chain[i + 1]
                         /\ \A q \in Producer :
                              producer'[q] = "linking" => prevHead[q] # chain[i]
                      \/ /\ next'[chain[i]] = Null
                         /\ \E q \in Producer :
                              /\ producer'[q] = "linking"
                              /\ prevHead[q] = chain[i] /\ node[q] = chain[i + 1]
    BY <1>1 DEF LinkedOrAboutToBe, l
  <2>1. CASE i = k
    <3>1. \A q \in Producer : producer'[q] = "linking" => prevHead[q] # chain[k]
        BY <1>1, <1>4, <1>9 DEF IInv, Linkers
    <3> QED
        BY <3>1, <2>1, <1>7
  <2>2. CASE i # k
    <3>1. i \in 1..l
        BY <1>2
    <3>2. next'[chain[i]] = next[chain[i]] /\ prevHead[p] # chain[i]
        BY <3>1, <2>2, <1>4, <1>5, <1>6, <1>7
    <3>3. \/ /\ next[chain[i]] = chain[i + 1]
             /\ \A q \in Producer : producer[q] = "linking" => prevHead[q] # chain[i]
          \/ /\ next[chain[i]] = Null
             /\ \E q \in Producer : /\ producer[q] = "linking"
                                    /\ prevHead[q] = chain[i] /\ node[q] = chain[i + 1]
        BY DEF IInv, LinkedOrAboutToBe, l
    <3> QED
        BY <3>2, <3>3, <1>8, <1>9
  <2> QED
    BY <2>1, <2>2
<1>13. Linkers'
    BY <1>1, <1>9 DEF IInv, Linkers
<1>14. Carries'
    BY <1>1 DEF IInv, Carries
<1>15. ConsumerKnows'
  <2>1. consumer = "found" => l >= 2 /\ got = chain[2] /\ next[chain[1]] = got
    BY <1>5 DEF IInv, ConsumerKnows, l
  <2>2. consumer = "found" => next'[chain[1]] = got
    <3>1. 1 \in 1..l
        BY <1>2
    <3>2. k = 1 => k + 1 = 2
        OBVIOUS
    <3> QED
        BY <3>1, <3>2, <2>1, <1>7
  <2> QED
    BY <2>1, <2>2, <1>1, <1>5 DEF IInv, ConsumerKnows, l
<1>16. Memory'
    BY <1>1 DEF IInv, Memory
<1>17. Quiet'
    BY <1>1, <1>9 DEF IInv, Quiet
<1> QED
    BY <1>10, <1>11, <1>12, <1>13, <1>14, <1>15, <1>16, <1>17 DEF IInv

(***************************************************************************)
(* Dequeue reads the link of _tail and finds it set: the node behind it    *)
(* exists and no producer will still write to the link.                    *)
(***************************************************************************)
LEMMA ReadNextKeepsIInv ==
    ASSUME IInv, ReadNext
    PROVE  IInv'
<1> DEFINE l == Len(chain)
<1>1. /\ life # "destroyed" /\ consumer = "idle" /\ next[tail] # Null
      /\ got' = next[tail]
      /\ consumer' = "found"
      /\ UNCHANGED <<head, tail, next, data, allocated, producer, node, prevHead, old,
                     life, taken, chain>>
    BY DEF ReadNext
<1>2. chain \in Seq(Node) /\ l \in Nat /\ l >= 1
    BY LenProperties DEF IInv, TypeOK, Shape
<1>3. l # 1
    BY <1>1 DEF IInv, Shape
<1> HIDE DEF l
<1>4. l >= 2 /\ 1 \in 1..l - 1
    BY <1>2, <1>3
<1>5. next[chain[1]] = chain[2]
    BY <1>1, <1>4 DEF IInv, Shape, LinkedOrAboutToBe, l
<1>6. TypeOK'
    BY <1>1 DEF IInv, TypeOK
<1>7. ConsumerKnows'
    BY <1>1, <1>4, <1>5 DEF IInv, Shape, ConsumerKnows, l
<1>8. Memory'
    BY <1>1 DEF IInv, Memory
<1>9. Shape' /\ LinkedOrAboutToBe' /\ Linkers' /\ Carries' /\ Quiet'
    BY <1>1 DEF IInv, Shape, LinkedOrAboutToBe, Linkers, Carries, Quiet
<1> QED
    BY <1>6, <1>7, <1>8, <1>9 DEF IInv

(***************************************************************************)
(* Dequeue moves _tail on: the list loses its first node and nothing else. *)
(***************************************************************************)
LEMMA AdvanceKeepsIInv ==
    ASSUME IInv, Advance
    PROVE  IInv'
<1> DEFINE l == Len(chain)
<1>1. /\ consumer = "found"
      /\ taken' = Append(taken, data[got])
      /\ old' = tail
      /\ tail' = got
      /\ chain' = Tail(chain)
      /\ consumer' = "deleting"
      /\ UNCHANGED <<head, next, data, allocated, producer, node, prevHead, got, life>>
    BY DEF Advance
<1>2. chain \in Seq(Node) /\ l \in Nat
    BY LenProperties DEF IInv, TypeOK
<1>3. l >= 2 /\ got = chain[2] /\ next[tail] = got
    BY <1>1 DEF IInv, ConsumerKnows
<1>4. chain # <<>>
    BY <1>2, <1>3, EmptySeq
<1>5. /\ chain' \in Seq(Node) /\ Len(chain') = l - 1
      /\ \A i \in 1..l - 1 : chain'[i] = chain[i + 1]
    BY <1>1, <1>2, <1>4, HeadTailProperties
<1>6. \A i \in 1..l : chain[i] \in Node
    BY <1>2, ElementOfSeq
<1>7. /\ \A i, j \in 1..l : chain[i] = chain[j] => i = j
      /\ chain[1] = tail /\ chain[l] = head /\ next[head] = Null
    BY DEF IInv, Shape
<1>8. data[got] \in Value
    BY <1>2, <1>3 DEF IInv, Carries
<1>9. \A q \in Producer : producer[q] = "linking" => prevHead[q] # chain[1]
  <2>1. 1 \in 1..l - 1 /\ got \in Node
    BY <1>2, <1>3, <1>6
  <2>2. next[chain[1]] # Null
    BY <2>1, <1>3, <1>7, NullAssumption
  <2> QED
    BY <2>1, <2>2 DEF IInv, LinkedOrAboutToBe
<1> HIDE DEF l
<1>10. TypeOK'
  <2>1. taken' \in Seq(Value)
    BY <1>1, <1>8, AppendProperties DEF IInv, TypeOK
  <2> QED
    BY <2>1, <1>1, <1>2, <1>3, <1>5, <1>6, <1>7 DEF IInv, TypeOK
<1>11. Shape'
  <2>1. chain'[1] = chain[2] /\ chain'[l - 1] = chain[l]
    BY <1>2, <1>3, <1>5
  <2>2. ASSUME NEW i \in 1..l - 1, NEW j \in 1..l - 1, chain'[i] = chain'[j]
        PROVE  i = j
    <3>1. i + 1 \in 1..l /\ j + 1 \in 1..l
        BY <1>2
    <3>2. chain[i + 1] = chain[j + 1]
        BY <2>2, <1>5
    <3>3. i + 1 = j + 1
        BY <3>1, <3>2, <1>7
    <3> QED
        BY <3>3
  <2> QED
    BY <2>1, <2>2, <1>1, <1>2, <1>3, <1>5, <1>7 DEF Shape
<1>12. LinkedOrAboutToBe'
  <2> SUFFICES ASSUME NEW i \in 1..(l - 1) - 1
               PROVE  \/ /\ next[chain'[i]] = chain'[i + 1]
                         /\ \A q \in Producer :
                              producer[q] = "linking" => prevHead[q] # chain'[i]
                      \/ /\ next[chain'[i]] = Null
                         /\ \E q \in Producer :
                              /\ producer[q] = "linking"
                              /\ prevHead[q] = chain'[i] /\ node[q] = chain'[i + 1]
    BY <1>1, <1>5 DEF LinkedOrAboutToBe
  <2>1. i \in 1..l - 1 /\ i + 1 \in 1..l - 1
    BY <1>2, <1>3
  <2>2. chain'[i] = chain[i + 1] /\ chain'[i + 1] = chain[(i + 1) + 1]
    BY <2>1, <1>5
  <2> QED
    BY <2>1, <2>2 DEF IInv, LinkedOrAboutToBe, l
<1>13. Linkers'
  <2>1. ASSUME NEW q \in Producer, producer[q] = "linking"
        PROVE  \E i \in 1..(l - 1) - 1 : chain'[i] = prevHead[q] /\ chain'[i + 1] = node[q]
    <3>1. PICK k \in 1..l - 1 : chain[k] = prevHead[q] /\ chain[k + 1] = node[q]
        BY <2>1 DEF IInv, Linkers, l
    <3>2. k # 1
        BY <3>1, <2>1, <1>9
    <3> DEFINE i == k - 1
    <3>3. i \in 1..(l - 1) - 1 /\ i \in 1..l - 1 /\ k \in 1..l - 1 /\ i + 1 = k
        BY <3>2, <1>2
    <3>4. chain'[i] = chain[k] /\ chain'[i + 1] = chain[k + 1]
        BY <3>3, <1>5
    <3> QED
        BY <3>1, <3>3, <3>4
  <2> QED
    BY <2>1, <1>1, <1>5 DEF IInv, Linkers
<1>14. Carries'
  <2> SUFFICES ASSUME NEW i \in 2..l - 1 PROVE data[chain'[i]] \in Value
    BY <1>1, <1>5 DEF Carries
  <2>1. i \in 1..l - 1 /\ i + 1 \in 2..l
    BY <1>2
  <2> QED
    BY <2>1, <1>5 DEF IInv, Carries, l
<1>15. ConsumerKnows'
  <2> SUFFICES ASSUME NEW i \in 1..l - 1 PROVE chain'[i] # tail
    BY <1>1, <1>5 DEF ConsumerKnows
  <2>1. i + 1 \in 1..l /\ 1 \in 1..l /\ i + 1 # 1
    BY <1>2
  <2> QED
    BY <2>1, <1>5, <1>7
<1>16. Memory'
  <2>1. life # "destroyed" /\ allocated = {chain[i] : i \in 1..l}
    BY <1>1 DEF IInv, Memory, l
  <2>2. {chain[i] : i \in 1..l} = {chain'[i] : i \in 1..l - 1} \cup {chain[1]}
    <3>1. 1 \in 1..l /\ \A i \in 1..l - 1 : i + 1 \in 1..l
        BY <1>2, <1>3
    <3>2. \A i \in 1..l : i = 1 \/ (i - 1 \in 1..l - 1 /\ (i - 1) + 1 = i)
        BY <1>2
    <3>3. ASSUME NEW i \in 1..l
          PROVE  chain[i] \in {chain'[j] : j \in 1..l - 1} \cup {chain[1]}
      <4>1. CASE i = 1
        BY <4>1
      <4>2. CASE i # 1
        <5>1. i - 1 \in 1..l - 1 /\ (i - 1) + 1 = i
            BY <4>2, <3>2
        <5>2. chain'[i - 1] = chain[i]
            BY <5>1, <1>5
        <5> QED
            BY <5>1, <5>2
      <4> QED
        BY <4>1, <4>2
    <3> QED
        BY <3>1, <3>3, <1>5
  <2> QED
    BY <2>1, <2>2, <1>1, <1>5, <1>7 DEF Memory
<1>17. Quiet'
    BY <1>1 DEF IInv, Quiet
<1> QED
    BY <1>10, <1>11, <1>12, <1>13, <1>14, <1>15, <1>16, <1>17 DEF IInv

(***************************************************************************)
(* Dequeue deletes the node it has left.                                   *)
(***************************************************************************)
LEMMA DeleteKeepsIInv ==
    ASSUME IInv, Delete
    PROVE  IInv'
<1>1. /\ consumer = "deleting"
      /\ allocated' = allocated \ {old}
      /\ consumer' = "idle"
      /\ UNCHANGED <<head, tail, next, data, producer, node, prevHead, got, old,
                     life, taken, chain>>
    BY DEF Delete
<1>2. TypeOK'
    BY <1>1 DEF IInv, TypeOK
<1>3. Shape' /\ LinkedOrAboutToBe' /\ Linkers' /\ Carries' /\ ConsumerKnows' /\ Quiet'
    BY <1>1 DEF IInv, Shape, LinkedOrAboutToBe, Linkers, Carries, ConsumerKnows, Quiet
<1>4. Memory'
    BY <1>1 DEF IInv, Memory, ConsumerKnows
<1> QED
    BY <1>2, <1>3, <1>4 DEF IInv

(***************************************************************************)
(* The destructor begins when nobody is inside Enqueue.                    *)
(***************************************************************************)
LEMMA DestroyKeepsIInv ==
    ASSUME IInv, Destroy
    PROVE  IInv'
<1>1. /\ life = "used" /\ life' = "destroying"
      /\ \A p \in Producer : producer[p] = "idle"
      /\ UNCHANGED <<head, tail, next, data, allocated, producer, node, prevHead,
                     consumer, got, old, taken, chain>>
    BY DEF Destroy
<1>2. TypeOK'
    BY <1>1 DEF IInv, TypeOK
<1>3. Shape' /\ LinkedOrAboutToBe' /\ Linkers' /\ Carries' /\ ConsumerKnows' /\ Quiet'
    BY <1>1 DEF IInv, Shape, LinkedOrAboutToBe, Linkers, Carries, ConsumerKnows, Quiet
<1>4. Memory'
    BY <1>1 DEF IInv, Memory
<1> QED
    BY <1>2, <1>3, <1>4 DEF IInv

(***************************************************************************)
(* The destructor deletes _head when the link of _tail is null: with no    *)
(* Enqueue under way there is no break in the list, so _head is _tail and  *)
(* the only node.                                                          *)
(***************************************************************************)
LEMMA DeleteFrontKeepsIInv ==
    ASSUME IInv, DeleteFront
    PROVE  IInv'
<1> DEFINE l == Len(chain)
<1>1. /\ life = "destroying" /\ consumer = "idle" /\ next[tail] = Null
      /\ allocated' = allocated \ {head}
      /\ life' = "destroyed"
      /\ UNCHANGED <<head, tail, next, data, producer, node, prevHead,
                     consumer, got, old, taken, chain>>
    BY DEF DeleteFront
<1>2. chain \in Seq(Node) /\ l \in Nat /\ l >= 1
    BY LenProperties DEF IInv, TypeOK, Shape
<1> HIDE DEF l
<1>3. l = 1
  <2>1. SUFFICES ASSUME l # 1 PROVE FALSE
    OBVIOUS
  <2>2. 1 \in 1..l - 1 /\ 2 \in 1..l
    BY <2>1, <1>2
  <2>3. \A q \in Producer : producer[q] # "linking"
    BY <1>1 DEF IInv, Quiet
  <2>4. next[chain[1]] = chain[2]
    BY <2>2, <2>3 DEF IInv, LinkedOrAboutToBe, l
  <2>5. chain[2] \in Node
    BY <2>2, <1>2, ElementOfSeq DEF l
  <2> QED
    BY <2>4, <2>5, <1>1, NullAssumption DEF IInv, Shape
<1>4. allocated = {head}
  <2>1. allocated = {chain[i] : i \in 1..l}
    BY <1>1 DEF IInv, Memory, l
  <2>2. 1..l = {1} /\ chain[1] = head
    BY <1>3 DEF IInv, Shape, l
  <2> QED
    BY <2>1, <2>2
<1>5. TypeOK'
    BY <1>1 DEF IInv, TypeOK
<1>6. Shape' /\ LinkedOrAboutToBe' /\ Linkers' /\ Carries' /\ ConsumerKnows' /\ Quiet'
    BY <1>1 DEF IInv, Shape, LinkedOrAboutToBe, Linkers, Carries, ConsumerKnows, Quiet
<1>7. Memory'
    BY <1>1, <1>3, <1>4 DEF Memory, l
<1> QED
    BY <1>5, <1>6, <1>7 DEF IInv

-----------------------------------------------------------------------------
(***************************************************************************)
(* The invariant holds in every reachable state.                           *)
(***************************************************************************)
THEOREM Invariance == Spec => []IInv
<1>1. IInv /\ [Next]_vars => IInv'
  <2> SUFFICES ASSUME IInv, [Next]_vars PROVE IInv'
    OBVIOUS
  <2>1. ASSUME NEW p \in Producer, NEW v \in Value, Exchange(p, v) PROVE IInv'
    BY <2>1, ExchangeKeepsIInv
  <2>2. ASSUME NEW p \in Producer, Link(p) PROVE IInv'
    BY <2>2, LinkKeepsIInv
  <2>3. CASE Dequeue
    BY <2>3, ReadNextKeepsIInv, AdvanceKeepsIInv, DeleteKeepsIInv DEF Dequeue
  <2>4. CASE Destroy
    BY <2>4, DestroyKeepsIInv
  <2>5. CASE DeleteFront
    BY <2>5, DeleteFrontKeepsIInv
  <2>6. CASE UNCHANGED vars
    <3>1. UNCHANGED <<head, tail, next, data, allocated, producer, node, prevHead,
                      consumer, got, old, life, taken, chain>>
        BY <2>6 DEF vars
    <3>2. TypeOK' /\ Shape' /\ LinkedOrAboutToBe' /\ Linkers'
        BY <3>1 DEF IInv, TypeOK, Shape, LinkedOrAboutToBe, Linkers
    <3>3. Carries' /\ ConsumerKnows' /\ Memory' /\ Quiet'
        BY <3>1 DEF IInv, Carries, ConsumerKnows, Memory, Quiet
    <3> QED
        BY <3>2, <3>3 DEF IInv
  <2> QED
    BY <2>1, <2>2, <2>3, <2>4, <2>5, <2>6 DEF Next
<1> QED
    BY InitIInv, <1>1, PTL DEF Spec

(***************************************************************************)
(* Between neighbours there is the link or the one producer about to store *)
(* it: a Dequeue that fails on a queue that is not empty is the doing of   *)
(* an Enqueue between its two steps, and of nothing else.                  *)
(***************************************************************************)
THEOREM ListHoldsTogether == Spec => []ListInv
<1>1. IInv => ListInv
    BY DEF IInv, ListInv
<1> QED
    BY <1>1, Invariance, PTL

(***************************************************************************)
(* No step of Enqueue or Dequeue touches a node that has been deleted,     *)
(* though the addresses of deleted nodes are allocated again.              *)
(***************************************************************************)
THEOREM NodesOutliveTheirUse == Spec => []NoUseAfterFree
<1>1. ASSUME IInv PROVE NoUseAfterFree
  <2> DEFINE l == Len(chain)
  <2>1. l \in Nat /\ l >= 1
    BY <1>1, LenProperties DEF IInv, TypeOK, Shape
  <2>2. \A p \in Producer : producer[p] = "linking" => life # "destroyed"
    BY <1>1 DEF IInv, Quiet
  <2>3. life # "destroyed" => \A i \in 1..l : chain[i] \in allocated
    BY <1>1 DEF IInv, Memory
  <2>4. life # "destroyed" => {head, tail} \subseteq allocated
    <3>1. 1 \in 1..l /\ l \in 1..l
        BY <2>1
    <3> QED
        BY <3>1, <2>3, <1>1 DEF IInv, Shape
  <2>5. ASSUME NEW p \in Producer, producer[p] = "linking"
        PROVE  /\ {prevHead[p], node[p]} \subseteq allocated
               /\ \E i \in 1..l - 1 : chain[i] = prevHead[p] /\ chain[i + 1] = node[p]
    <3>1. PICK i \in 1..l - 1 : chain[i] = prevHead[p] /\ chain[i + 1] = node[p]
        BY <2>5, <1>1 DEF IInv, Linkers
    <3>2. i \in 1..l /\ i + 1 \in 1..l
        BY <2>1
    <3> QED
        BY <3>1, <3>2, <2>2, <2>3, <2>5
  <2>6. consumer = "found" => got \in allocated
    <3>1. consumer = "found" => l >= 2 /\ got = chain[2] /\ life # "destroyed"
        BY <1>1 DEF IInv, ConsumerKnows, Memory
    <3>2. l >= 2 => 2 \in 1..l
        BY <2>1
    <3> QED
        BY <3>1, <3>2, <2>3
  <2>7. consumer = "deleting" => old \in allocated
    BY <1>1 DEF IInv, Memory
  <2> QED
    BY <2>4, <2>5, <2>6, <2>7 DEF NoUseAfterFree
<1> QED
    BY <1>1, Invariance, PTL

(***************************************************************************)
(* The values still in the queue form a sequence, one for each node behind *)
(* the first.                                                              *)
(***************************************************************************)
LEMMA ItemsAreValues ==
    ASSUME IInv
    PROVE  /\ Len(chain) \in Nat /\ Len(chain) >= 1
           /\ Items \in Seq(Value) /\ Len(Items) = Len(chain) - 1
           /\ \A i \in 1..Len(chain) - 1 : Items[i] = data[chain[i + 1]]
<1> DEFINE l == Len(chain)
<1>1. l \in Nat /\ l >= 1
    BY LenProperties DEF IInv, TypeOK, Shape
<1>2. \A i \in 1..l - 1 : data[chain[i + 1]] \in Value
  <2>1. \A i \in 1..l - 1 : i + 1 \in 2..l
    BY <1>1
  <2> QED
    BY <2>1 DEF IInv, Carries
<1>3. Items = [i \in 1..l - 1 |-> data[chain[i + 1]]]
    BY DEF Items
<1> HIDE DEF l
<1>4. l - 1 \in Nat
    BY <1>1
<1>5. Items \in [1..l - 1 -> Value]
    BY <1>2, <1>3
<1>6. Items \in Seq(Value) /\ Len(Items) = l - 1
    BY <1>4, <1>5
<1> QED
    BY <1>1, <1>2, <1>3, <1>6 DEF l

(***************************************************************************)
(* When ~MPSCQueue is done no node is left, in memory or in the list.      *)
(***************************************************************************)
THEOREM NothingLeaks == Spec => []DestroyedFreesAll
<1>1. ASSUME IInv PROVE DestroyedFreesAll
  <2>1. life = "destroyed" => allocated = {} /\ Len(chain) = 1
    BY <1>1 DEF IInv, Memory
  <2>2. Items \in Seq(Value) /\ Len(Items) = Len(chain) - 1
    BY <1>1, ItemsAreValues
  <2>3. Len(Items) = 0 => Items = <<>>
    BY <2>2, EmptySeq
  <2> QED
    BY <2>1, <2>2, <2>3 DEF DestroyedFreesAll
<1> QED
    BY <1>1, Invariance, PTL

(***************************************************************************)
(* To everybody outside, the exchange puts the value into the queue.       *)
(***************************************************************************)
LEMMA ExchangePuts ==
    ASSUME IInv, IInv', NEW p \in Producer, NEW v \in Value, Exchange(p, v)
    PROVE  Fifo!Put(v)
<1> DEFINE l == Len(chain)
<1>1. PICK n \in Node \ allocated :
        /\ data' = [data EXCEPT ![n] = v]
        /\ chain' = Append(chain, n)
    BY DEF Exchange
<1>2. life = "used" /\ taken' = taken
    BY DEF Exchange
<1>3. chain \in Seq(Node) /\ l \in Nat /\ l >= 1
    BY ItemsAreValues DEF IInv, TypeOK
<1>4. /\ Len(chain') = l + 1
      /\ \A i \in 1..l : chain'[i] = chain[i]
      /\ chain'[l + 1] = n
    BY <1>1, <1>3, AppendProperties
<1>5. \A i \in 1..l : chain[i] \in Node /\ chain[i] # n
    BY <1>1, <1>2, <1>3, ElementOfSeq DEF IInv, Memory
<1>6. /\ Items \in Seq(Value) /\ Len(Items) = l - 1
      /\ \A i \in 1..l - 1 : Items[i] = data[chain[i + 1]]
    BY ItemsAreValues
<1>7. /\ Items' \in Seq(Value) /\ Len(Items') = l
      /\ \A i \in 1..l : Items'[i] = data'[chain'[i + 1]]
  <2>1. /\ Items' \in Seq(Value) /\ Len(Items') = Len(chain') - 1
        /\ \A i \in 1..Len(chain') - 1 : Items'[i] = data'[chain'[i + 1]]
    BY <1>1, <1>4 DEF Items, IInv, Shape, TypeOK, Carries
  <2> QED
    BY <2>1, <1>3, <1>4
<1>8. /\ Append(Items, v) \in Seq(Value) /\ Len(Append(Items, v)) = (l - 1) + 1
      /\ \A i \in 1..l - 1 : Append(Items, v)[i] = Items[i]
      /\ Append(Items, v)[(l - 1) + 1] = v
    BY <1>6, AppendProperties
<1> HIDE DEF l
<1>9. ASSUME NEW i \in 1..l PROVE Items'[i] = Append(Items, v)[i]
  <2>1. CASE i = l
    <3>1. Items'[i] = v
        BY <2>1, <1>1, <1>4, <1>7 DEF IInv, TypeOK
    <3>2. (l - 1) + 1 = i
        BY <2>1, <1>3
    <3> QED
        BY <3>1, <3>2, <1>8
  <2>2. CASE i # l
    <3>1. i \in 1..l - 1 /\ i + 1 \in 1..l
        BY <2>2, <1>3
    <3>2. data'[chain[i + 1]] = data[chain[i + 1]]
        BY <3>1, <1>1, <1>5 DEF IInv, TypeOK
    <3> QED
        BY <3>1, <3>2, <1>4, <1>6, <1>7, <1>8
  <2> QED
    BY <2>1, <2>2
<1>10. Len(Append(Items, v)) = l
    BY <1>3, <1>8
<1>11. Items' = Append(Items, v)
    BY <1>7, <1>8, <1>9, <1>10, SeqEqual
<1> QED
    BY <1>2, <1>11 DEF Fifo!Put

(***************************************************************************)
(* To everybody outside, the move of _tail takes the first value out.      *)
(***************************************************************************)
LEMMA AdvanceTakes ==
    ASSUME IInv, IInv', Advance
    PROVE  Fifo!Take
<1> DEFINE l == Len(chain)
<1>1. /\ taken' = Append(taken, data[got]) /\ chain' = Tail(chain)
      /\ data' = data /\ consumer = "found"
    BY DEF Advance
<1>2. /\ l \in Nat /\ l >= 2 /\ got = chain[2]
      /\ chain \in Seq(Node) /\ chain # <<>>
    BY <1>1, ItemsAreValues, EmptySeq DEF IInv, TypeOK, ConsumerKnows
<1>3. Len(chain') = l - 1 /\ \A i \in 1..l - 1 : chain'[i] = chain[i + 1]
    BY <1>1, <1>2, HeadTailProperties
<1>4. /\ Items \in Seq(Value) /\ Len(Items) = l - 1
      /\ \A i \in 1..l - 1 : Items[i] = data[chain[i + 1]]
    BY ItemsAreValues
<1>5. Items # <<>>
    BY <1>2, <1>4, EmptySeq
<1>6. Head(Items) = data[got]
  <2>1. 1 \in 1..l - 1
    BY <1>2
  <2> QED
    BY <2>1, <1>2, <1>4, <1>5
<1>7. /\ Tail(Items) \in Seq(Value) /\ Len(Tail(Items)) = (l - 1) - 1
      /\ \A i \in 1..(l - 1) - 1 : Tail(Items)[i] = Items[i + 1]
    BY <1>4, <1>5, HeadTailProperties
<1>8. Items' = [i \in 1..(l - 1) - 1 |-> data[chain'[i + 1]]]
    BY <1>1, <1>3 DEF Items
<1> HIDE DEF l
<1>9. ASSUME NEW i \in 1..(l - 1) - 1
      PROVE  data[chain'[i + 1]] = Tail(Items)[i]
  <2>1. i + 1 \in 1..l - 1
    BY <1>2
  <2> QED
    BY <2>1, <1>3, <1>4, <1>7
<1>10. Tail(Items) = [i \in 1..(l - 1) - 1 |-> Tail(Items)[i]]
    BY <1>7, LenProperties
<1>11. Items' = Tail(Items)
    BY <1>8, <1>9, <1>10
<1> QED
    BY <1>1, <1>5, <1>6, <1>11 DEF Fifo!Take

(***************************************************************************)
(* The class implements the abstract first-in first-out queue, in the      *)
(* order of the exchanges.                                                 *)
(***************************************************************************)
THEOREM ImplementsFifo == Spec => FifoSpec
<1>1. Init => Fifo!Init
  <2>1. SUFFICES ASSUME Init PROVE Fifo!Init
    OBVIOUS
  <2>2. Len(chain) = 1 /\ taken = <<>>
    BY <2>1 DEF Init
  <2>3. Items \in Seq(Value) /\ Len(Items) = Len(chain) - 1
    BY <2>1, InitIInv, ItemsAreValues
  <2>4. Items = <<>>
    BY <2>2, <2>3, EmptySeq
  <2> QED
    BY <2>2, <2>4 DEF Fifo!Init
<1>2. IInv /\ IInv' /\ [Next]_vars => [Fifo!Next]_<<Items, taken>>
  <2> SUFFICES ASSUME IInv, IInv', [Next]_vars PROVE [Fifo!Next]_<<Items, taken>>
    OBVIOUS
  <2>1. ASSUME NEW p \in Producer, NEW v \in Value, Exchange(p, v) PROVE Fifo!Put(v)
    BY <2>1, ExchangePuts
  <2>2. Advance => Fifo!Take
    BY AdvanceTakes
  <2>3. UNCHANGED <<chain, data, taken>> => UNCHANGED <<Items, taken>>
    BY DEF Items
  <2>4. ASSUME NEW p \in Producer, Link(p) PROVE UNCHANGED <<chain, data, taken>>
    BY <2>4 DEF Link
  <2>5. ReadNext \/ Delete \/ Destroy \/ DeleteFront \/ UNCHANGED vars
            => UNCHANGED <<chain, data, taken>>
    BY DEF ReadNext, Delete, Destroy, DeleteFront, vars
  <2> QED
    BY <2>1, <2>2, <2>3, <2>4, <2>5 DEF Next, Dequeue, Fifo!Next
<1> QED
    BY <1>1, <1>2, Invariance, PTL DEF Spec, FifoSpec, Fifo!Spec
=============================================================================
