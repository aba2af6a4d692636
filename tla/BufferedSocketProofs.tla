------------------------- MODULE BufferedSocketProofs -------------------------
(***************************************************************************)
(* Proofs about BufferedSocket, for every high water mark, capacity, set   *)
(* of message lengths and bound.                                           *)
(***************************************************************************)
EXTENDS BufferedSocket, SequenceTheorems, TLAPS

Blocks == [from : Nat, to : Nat, size : Lengths]

(***************************************************************************)
(* f gives the bytes of the first i blocks of q, all of them `bytes`.      *)
(***************************************************************************)
Sums(f, q, bytes) ==
    /\ f \in [0..Len(q) -> Nat]
    /\ f[0] = 0 /\ f[Len(q)] = bytes
    /\ \A i \in 1..Len(q) : f[i] = f[i - 1] + q[i].size
    /\ \A i, j \in 0..Len(q) : i <= j => f[i] <= f[j]

(***************************************************************************)
(* The byte count is that of the blocks in the queue.                      *)
(***************************************************************************)
CountIsSum == \E f : Sums(f, msgQueue, curBytes)

(***************************************************************************)
(* Something of every block in the queue is still to be sent.              *)
(***************************************************************************)
BlocksNotEmpty == \A i \in 1..Len(msgQueue) : msgQueue[i].from <= msgQueue[i].to

(***************************************************************************)
(* The last block was accepted when those before it left room.             *)
(***************************************************************************)
TailFits == msgQueue # <<>> => curBytes - msgQueue[Len(msgQueue)].size < HighWater

(***************************************************************************)
(* What holds of the output half.                                          *)
(***************************************************************************)
OutInv ==
    /\ CountIsSum
    /\ BlocksNotEmpty
    /\ OutputInOrder
    /\ WakeupScheduled
    /\ QueueBounded
    /\ TailFits

(***************************************************************************)
(* The inductive invariant.  TypeOK needs CountIsSum, or the byte count    *)
(* could fall below zero; OutputInOrder needs BlocksNotEmpty, to tell a    *)
(* block that is out from one that goes back; TailFits is why the limit    *)
(* closes a connection only behind a longer message.                       *)
(***************************************************************************)
IInv == TypeOK /\ OutInv /\ InputInOrder

-----------------------------------------------------------------------------
(***************************************************************************)
(* The types of either half, and of what belongs to both.                  *)
(***************************************************************************)
OutTypes ==
    /\ msgQueue \in Seq(Blocks) /\ curBytes \in Nat /\ wakeup \in BOOLEAN
    /\ total \in 0..MaxOut /\ wire \in Seq(Nat)

InTypes ==
    /\ inputBuffer \in Seq(Nat) /\ rd \in 0..Len(inputBuffer) /\ Len(inputBuffer) <= Capacity
    /\ arrived \in 0..MaxIn /\ received \in 0..arrived /\ taken \in Seq(Nat)

LinkTypes ==
    /\ conn \in {"open", "closed", "gone"} /\ link \in {"up", "eof", "broken"}
    /\ closedBy \in {"nothing", "error", "eof", "no space", "high water"}

(***************************************************************************)
(* TypeOK is its three parts.                                              *)
(***************************************************************************)
LEMMA Types == TypeOK <=> OutTypes /\ InTypes /\ LinkTypes
  BY DEF TypeOK, OutTypes, InTypes, LinkTypes, Blocks

(***************************************************************************)
(* TypeOK in the next state, from its three parts.                         *)
(***************************************************************************)
LEMMA TypesNext == OutTypes' /\ InTypes' /\ LinkTypes' => TypeOK'
  BY DEF TypeOK, OutTypes, InTypes, LinkTypes, Blocks

(***************************************************************************)
(* A stretch of bytes is a sequence of numbers, and one that begins where  *)
(* another ends continues it.                                              *)
(***************************************************************************)
LEMMA BytesType ==
    ASSUME NEW from \in Nat, NEW n \in Nat
    PROVE  /\ Bytes(from, n) \in Seq(Nat)
           /\ Len(Bytes(from, n)) = n
           /\ \A i \in 1..n : Bytes(from, n)[i] = from + i
<1>1. Bytes(from, n) \in [1..n -> Nat]
    BY DEF Bytes
<1>2. Bytes(from, n) \in Seq(Nat) /\ Len(Bytes(from, n)) = n
    BY <1>1
<1> QED
    BY <1>2 DEF Bytes

(***************************************************************************)
(* Bytes from the start of the stream, continued by the bytes after them.  *)
(***************************************************************************)
LEMMA BytesConcat ==
    ASSUME NEW a \in Nat, NEW n \in Nat
    PROVE  Bytes(0, a) \o Bytes(a, n) = Bytes(0, a + n)
<1> DEFINE s == Bytes(0, a)
           t == Bytes(a, n)
           r == Bytes(0, a + n)
<1>1. s \in Seq(Nat) /\ Len(s) = a /\ \A i \in 1..a : s[i] = 0 + i
    BY BytesType
<1>2. t \in Seq(Nat) /\ Len(t) = n /\ \A i \in 1..n : t[i] = a + i
    BY BytesType
<1>3. r \in Seq(Nat) /\ Len(r) = a + n /\ \A i \in 1..a + n : r[i] = 0 + i
    BY BytesType
<1> HIDE DEF s, t, r
<1>4. /\ s \o t \in Seq(Nat)
      /\ Len(s \o t) = a + n
      /\ \A i \in 1..a + n : (s \o t)[i] = IF i <= a THEN s[i] ELSE t[i - a]
    BY <1>1, <1>2, ConcatProperties
<1>5. \A i \in 1..a + n : (s \o t)[i] = r[i]
  <2> TAKE i \in 1..a + n
  <2>1. CASE i <= a
    BY <2>1, <1>1, <1>3, <1>4
  <2>2. CASE ~(i <= a)
    <3>1. i - a \in 1..n
      BY <2>2
    <3>2. (s \o t)[i] = t[i - a] /\ t[i - a] = a + (i - a) /\ r[i] = 0 + i
      BY <2>2, <3>1, <1>2, <1>3, <1>4
    <3>3. a + (i - a) = 0 + i
      OBVIOUS
    <3> QED
      BY <3>2, <3>3, Zenon
  <2> QED
    BY <2>1, <2>2
<1>6. s \o t = r
    BY <1>3, <1>4, <1>5, SeqEqual
<1> QED
    BY <1>6 DEF s, t, r

-----------------------------------------------------------------------------
(***************************************************************************)
(* A block has a length.                                                   *)
(***************************************************************************)
LEMMA BlockSize == ASSUME NEW b \in Blocks PROVE b.size \in Lengths /\ b.size \in Nat \ {0}
<1>1. b.size \in Lengths
    BY DEF Blocks
<1> QED
    BY <1>1, LengthAssumption

(***************************************************************************)
(* Adding a block adds its size to the sum.                                *)
(***************************************************************************)
LEMMA SumsAppend ==
    ASSUME NEW q \in Seq(Blocks), NEW b \in Blocks, NEW bytes \in Nat,
           \E f : Sums(f, q, bytes)
    PROVE  \E f : Sums(f, Append(q, b), bytes + b.size)
<1>1. PICK f : Sums(f, q, bytes)
    OBVIOUS
<1> DEFINE n == Len(q)
           g == [i \in 0..(n + 1) |-> IF i = n + 1 THEN bytes + b.size ELSE f[i]]
           r == Append(q, b)
<1>2. n \in Nat /\ b.size \in Nat
    BY LenProperties, BlockSize
<1>3. /\ Len(r) = n + 1 /\ r[n + 1] = b
      /\ \A i \in 1..n : r[i] = q[i]
    BY AppendProperties
<1>4. /\ f \in [0..n -> Nat] /\ f[0] = 0 /\ f[n] = bytes
      /\ \A i \in 1..n : f[i] = f[i - 1] + q[i].size
      /\ \A i, j \in 0..n : i <= j => f[i] <= f[j]
    BY <1>1 DEF Sums
<1>5. g \in [0..(n + 1) -> Nat]
    BY <1>2, <1>4
<1>6. g[0] = 0 /\ g[n + 1] = bytes + b.size
    BY <1>2, <1>4
<1>7. \A i \in 1..(n + 1) : g[i] = g[i - 1] + r[i].size
  <2> TAKE i \in 1..(n + 1)
  <2>1. CASE i = n + 1
    BY <2>1, <1>2, <1>3, <1>4
  <2>2. CASE i # n + 1
    <3>1. i \in 1..n /\ i - 1 \in 0..n
      BY <2>2, <1>2
    <3> QED
      BY <3>1, <2>2, <1>2, <1>3, <1>4
  <2> QED
    BY <2>1, <2>2
<1>8. \A i, j \in 0..(n + 1) : i <= j => g[i] <= g[j]
  <2> SUFFICES ASSUME NEW i \in 0..(n + 1), NEW j \in 0..(n + 1), i <= j
               PROVE  g[i] <= g[j]
    OBVIOUS
  <2>1. CASE j # n + 1
    BY <2>1, <1>2, <1>4
  <2>2. CASE j = n + 1 /\ i # n + 1
    <3>1. i \in 0..n /\ n \in 0..n /\ i <= n
      BY <2>2, <1>2
    <3>2. f[i] <= bytes /\ f[i] \in Nat
      BY <3>1, <1>4
    <3> QED
      BY <3>1, <3>2, <2>2, <1>2
  <2>3. CASE j = n + 1 /\ i = n + 1
    BY <2>3, <1>2
  <2> QED
    BY <2>1, <2>2, <2>3
<1>9. Sums(g, r, bytes + b.size)
    BY <1>3, <1>5, <1>6, <1>7, <1>8 DEF Sums
<1> QED
    BY <1>9

(***************************************************************************)
(* Taking the first block away subtracts its size from the sum.            *)
(***************************************************************************)
LEMMA SumsTail ==
    ASSUME NEW q \in Seq(Blocks), q # <<>>, NEW bytes \in Nat,
           \E f : Sums(f, q, bytes)
    PROVE  \E f : Sums(f, Tail(q), bytes - Head(q).size)
<1>1. PICK f : Sums(f, q, bytes)
    OBVIOUS
<1> DEFINE n == Len(q)
           s == q[1].size
           g == [i \in 0..(n - 1) |-> f[i + 1] - s]
           r == Tail(q)
<1>2. n \in Nat \ {0} /\ q[1] \in Blocks /\ s \in Nat
  <2>1. n \in Nat \ {0}
    BY EmptySeq
  <2>2. q[1] \in Blocks
    BY <2>1, ElementOfSeq
  <2> QED
    BY <2>1, <2>2, BlockSize
<1>3. /\ Len(r) = n - 1 /\ Head(q) = q[1]
      /\ \A i \in 1..(n - 1) : r[i] = q[i + 1]
    BY HeadTailProperties
<1>4. /\ f \in [0..n -> Nat] /\ f[0] = 0 /\ f[n] = bytes
      /\ \A i \in 1..n : f[i] = f[i - 1] + q[i].size
      /\ \A i, j \in 0..n : i <= j => f[i] <= f[j]
    BY <1>1 DEF Sums
<1>5. f[1] = s
    BY <1>2, <1>4
<1>6. g \in [0..(n - 1) -> Nat]
  <2> SUFFICES ASSUME NEW i \in 0..(n - 1) PROVE f[i + 1] - s \in Nat
    OBVIOUS
  <2>1. 1 \in 0..n /\ i + 1 \in 0..n /\ 1 <= i + 1
    BY <1>2
  <2>2. f[1] <= f[i + 1] /\ f[i + 1] \in Nat
    BY <2>1, <1>4
  <2> QED
    BY <2>2, <1>2, <1>5
<1>7. g[0] = 0 /\ g[n - 1] = bytes - s
    BY <1>2, <1>4, <1>5
<1>8. \A i \in 1..(n - 1) : g[i] = g[i - 1] + r[i].size
  <2> TAKE i \in 1..(n - 1)
  <2>1. i \in 0..(n - 1) /\ i - 1 \in 0..(n - 1) /\ i + 1 \in 1..n /\ (i + 1) - 1 = i
        /\ i \in 0..n /\ (i - 1) + 1 = i
    BY <1>2
  <2>2. g[i] = f[i + 1] - s /\ g[i - 1] = f[i] - s
    BY <2>1
  <2>3. f[i + 1] = f[i] + q[i + 1].size /\ r[i] = q[i + 1]
    BY <2>1, <1>3, <1>4
  <2>4. q[i + 1] \in Blocks /\ f[i] \in Nat
    BY <2>1, <1>4, ElementOfSeq
  <2>5. q[i + 1].size \in Nat
    BY <2>4, BlockSize
  <2> QED
    BY <2>2, <2>3, <2>4, <2>5, <1>2
<1>9. \A i, j \in 0..(n - 1) : i <= j => g[i] <= g[j]
  <2> SUFFICES ASSUME NEW i \in 0..(n - 1), NEW j \in 0..(n - 1), i <= j
               PROVE  g[i] <= g[j]
    OBVIOUS
  <2>1. i + 1 \in 0..n /\ j + 1 \in 0..n /\ i + 1 <= j + 1
    BY <1>2
  <2>2. f[i + 1] <= f[j + 1] /\ f[i + 1] \in Nat /\ f[j + 1] \in Nat
    BY <2>1, <1>4
  <2> QED
    BY <2>2, <1>2
<1>10. Sums(g, r, bytes - s)
    BY <1>2, <1>3, <1>6, <1>7, <1>8, <1>9 DEF Sums
<1> QED
    BY <1>3, <1>10
-----------------------------------------------------------------------------
(***************************************************************************)
(* A step that leaves the output half alone keeps what holds of it.        *)
(***************************************************************************)
LEMMA OutputAlone == OutInv /\ UNCHANGED <<outVars, conn>> => OutInv'
  BY DEF OutInv, CountIsSum, BlocksNotEmpty, OutputInOrder, WakeupScheduled, QueueBounded,
         TailFits, outVars

(***************************************************************************)
(* A step that leaves the input half alone keeps the order of the input.   *)
(***************************************************************************)
LEMMA InputAlone == InputInOrder /\ UNCHANGED inVars => InputInOrder'
  BY DEF InputInOrder, inVars

(***************************************************************************)
(* An empty queue holds no bytes and satisfies what is asked of its        *)
(* blocks; so does one that handle_close has emptied.                      *)
(***************************************************************************)
LEMMA EmptyQueue ==
    ASSUME msgQueue' = <<>>, curBytes' = 0, wire' = Bytes(0, Len(wire')),
           conn' = "open" => total' = Len(wire')
    PROVE  OutInv'
<1>1. Sums([i \in 0..0 |-> 0], <<>>, 0)
    BY DEF Sums
<1>2. CountIsSum'
    BY <1>1 DEF CountIsSum
<1> QED
    BY <1>2 DEF OutInv, BlocksNotEmpty, OutputInOrder, WakeupScheduled, QueueBounded, TailFits

(***************************************************************************)
(* The same for a queue that is empty to begin with.                       *)
(***************************************************************************)
LEMMA EmptyQueueNow ==
    ASSUME msgQueue = <<>>, curBytes = 0, wire = Bytes(0, Len(wire)), total = Len(wire)
    PROVE  OutInv
<1>1. Sums([i \in 0..0 |-> 0], <<>>, 0)
    BY DEF Sums
<1>2. CountIsSum
    BY <1>1 DEF CountIsSum
<1> QED
    BY <1>2 DEF OutInv, BlocksNotEmpty, OutputInOrder, WakeupScheduled, QueueBounded, TailFits

(***************************************************************************)
(* The invariant holds when open() has registered the handler.             *)
(***************************************************************************)
LEMMA InitIInv == Init => IInv
<1> SUFFICES ASSUME Init PROVE IInv
    OBVIOUS
<1>1. Bytes(0, 0) = <<>> /\ Len(<<>>) = 0
    BY EmptySeq DEF Bytes
<1>2. TypeOK
  <2>1. msgQueue \in Seq(Blocks)
    BY EmptySeq DEF Init
  <2>2. inputBuffer \in Seq(Nat) /\ wire \in Seq(Nat) /\ taken \in Seq(Nat)
    BY EmptySeq DEF Init
  <2>3. rd \in 0..Len(inputBuffer) /\ Len(inputBuffer) <= Capacity
    <3>1. Len(inputBuffer) = 0 /\ rd = 0
      BY <1>1, Zenon DEF Init
    <3> QED
      BY <3>1, SizeAssumption
  <2>4. total \in 0..MaxOut /\ arrived \in 0..MaxIn /\ received \in 0..arrived
    BY BoundAssumption DEF Init
  <2>5. /\ curBytes \in Nat /\ wakeup \in BOOLEAN
        /\ conn \in {"open", "closed", "gone"} /\ link \in {"up", "eof", "broken"}
        /\ closedBy \in {"nothing", "error", "eof", "no space", "high water"}
    BY DEF Init
  <2> QED
    BY <2>1, <2>2, <2>3, <2>4, <2>5 DEF TypeOK, Blocks
<1>3. OutInv
  <2>1. Len(wire) = 0
    BY <1>1, Zenon DEF Init
  <2> QED
    BY <1>1, <2>1, EmptyQueueNow DEF Init
<1>4. InputInOrder
  <2>1. SubSeq(<<>>, 1, 0) = <<>>
    BY SubSeqEmpty
  <2>2. <<>> \o <<>> = <<>>
    BY ConcatEmptySeq, EmptySeq
  <2>3. /\ taken = <<>> /\ inputBuffer = <<>> /\ rd + 1 = 1 /\ received = 0
        /\ Len(inputBuffer) = 0
    BY <1>1 DEF Init
  <2> QED
    BY <1>1, <2>1, <2>2, <2>3, Zenon DEF InputInOrder
<1> QED
    BY <1>2, <1>3, <1>4 DEF IInv

-----------------------------------------------------------------------------
(***************************************************************************)
(* A queue that is not full takes one more block, some of which is still   *)
(* to be sent.                                                             *)
(***************************************************************************)
LEMMA AppendBlock ==
    ASSUME TypeOK, OutInv, NEW len \in Lengths, NEW n \in Nat, n < len, ~Full,
           msgQueue' = Append(msgQueue, Block(n, len)), curBytes' = curBytes + len
    PROVE  /\ msgQueue' \in Seq(Blocks) /\ curBytes' \in Nat
           /\ CountIsSum' /\ BlocksNotEmpty' /\ QueueBounded' /\ TailFits'
<1> DEFINE b == Block(n, len)
           m == Len(msgQueue)
<1>1. len \in Nat \ {0} /\ total \in Nat /\ curBytes \in Nat /\ HighWater \in Nat
  <2>1. total \in 0..MaxOut /\ curBytes \in Nat
    BY Types DEF OutTypes
  <2> QED
    BY <2>1, LengthAssumption, SizeAssumption, BoundAssumption
<1>2. msgQueue \in Seq(Blocks) /\ m \in Nat
    BY LenProperties DEF TypeOK, Blocks
<1>3. b \in Blocks /\ b.size = len /\ b.from <= b.to
    BY <1>1 DEF Block, Blocks
<1> HIDE DEF b
<1>4. msgQueue' = Append(msgQueue, b)
    BY DEF b
<1>5. /\ msgQueue' \in Seq(Blocks) /\ Len(msgQueue') = m + 1
      /\ msgQueue'[m + 1] = b /\ \A i \in 1..m : msgQueue'[i] = msgQueue[i]
    BY <1>2, <1>3, <1>4, AppendProperties
<1>6. CountIsSum'
  <2>1. \E f : Sums(f, msgQueue, curBytes)
    BY DEF OutInv, CountIsSum
  <2>2. \E f : Sums(f, Append(msgQueue, b), curBytes + b.size)
    BY <1>1, <1>2, <1>3, <2>1, SumsAppend
  <2> QED
    BY <1>3, <1>4, <2>2 DEF CountIsSum
<1>7. BlocksNotEmpty'
  <2> SUFFICES ASSUME NEW i \in 1..(m + 1) PROVE msgQueue'[i].from <= msgQueue'[i].to
    BY <1>5 DEF BlocksNotEmpty
  <2>1. CASE i = m + 1
    BY <2>1, <1>3, <1>5
  <2>2. CASE i # m + 1
    <3>1. i \in 1..m
      BY <2>2, <1>2
    <3> QED
      BY <3>1, <1>5 DEF OutInv, BlocksNotEmpty
  <2> QED
    BY <2>1, <2>2
<1>8. QueueBounded'
  <2>1. curBytes + len < HighWater + len
    BY <1>1 DEF Full
  <2> QED
    BY <2>1 DEF QueueBounded
<1>9. TailFits'
  <2>1. msgQueue'[Len(msgQueue')].size = len
    BY <1>3, <1>5
  <2>2. (curBytes + len) - len < HighWater
    BY <1>1 DEF Full
  <2> QED
    BY <2>1, <2>2 DEF TailFits
<1> QED
    BY <1>1, <1>5, <1>6, <1>7, <1>8, <1>9

(***************************************************************************)
(* send behind other messages: the new block continues the last one.       *)
(***************************************************************************)
LEMMA SendQueuedKeeps ==
    ASSUME IInv, NEW len \in Lengths, SendQueued(len)
    PROVE  IInv'
<1> USE DEF IInv, SendQueued
<1> DEFINE m == Len(msgQueue)
<1>1. /\ msgQueue' \in Seq(Blocks) /\ curBytes' \in Nat
      /\ CountIsSum' /\ BlocksNotEmpty' /\ QueueBounded' /\ TailFits'
  <2>1. len \in Nat \ {0} /\ 0 \in Nat /\ 0 < len
    BY LengthAssumption
  <2> QED
    BY <2>1, AppendBlock
<1>2. len \in Nat \ {0} /\ total \in 0..MaxOut /\ MaxOut \in Nat
    BY LengthAssumption, BoundAssumption DEF TypeOK
<1>3. TypeOK'
  <2>1. OutTypes /\ InTypes /\ LinkTypes
    BY Types
  <2>2. OutTypes'
    BY <2>1, <1>1, <1>2 DEF OutTypes, inVars
  <2>3. InTypes' /\ LinkTypes'
    BY <2>1 DEF InTypes, LinkTypes, inVars
  <2> QED
    BY <2>2, <2>3, TypesNext
<1>4. msgQueue \in Seq(Blocks) /\ m \in Nat /\ m # 0
    BY LenProperties, EmptySeq DEF TypeOK, Blocks
<1>5. /\ Len(msgQueue') = m + 1 /\ msgQueue'[m + 1] = Block(0, len)
      /\ \A i \in 1..m : msgQueue'[i] = msgQueue[i]
  <2>1. Block(0, len) \in Blocks
    BY <1>2 DEF Block, Blocks
  <2> QED
    BY <2>1, <1>4, AppendProperties
<1>6. Block(0, len).from = total + 1 /\ Block(0, len).to = total + len
    BY <1>2 DEF Block
<1>7. total = msgQueue[m].to
    BY <1>4 DEF OutInv, OutputInOrder
<1>8. OutputInOrder'
  <2>1. \A i \in 1..(m + 1) :
           msgQueue'[i].from = IF i = 1 THEN Len(wire) + 1 ELSE msgQueue'[i - 1].to + 1
    <3> TAKE i \in 1..(m + 1)
    <3>1. CASE i = m + 1
      <4>1. i # 1 /\ i - 1 = m /\ m \in 1..m
        BY <3>1, <1>4
      <4> QED
        BY <3>1, <4>1, <1>5, <1>6, <1>7
    <3>2. CASE i # m + 1 /\ i = 1
      <4>1. 1 \in 1..m
        BY <1>4
      <4> QED
        BY <3>2, <4>1, <1>5 DEF OutInv, OutputInOrder
    <3>3. CASE i # m + 1 /\ i # 1
      <4>1. i \in 1..m /\ i - 1 \in 1..m
        BY <3>3, <1>4
      <4>2. msgQueue[i].from = msgQueue[i - 1].to + 1
        BY <3>3, <4>1 DEF OutInv, OutputInOrder
      <4> QED
        BY <3>3, <4>1, <4>2, <1>5
    <3> QED
      BY <3>1, <3>2, <3>3
  <2>2. msgQueue' # <<>> /\ total' = msgQueue'[Len(msgQueue')].to
    BY <1>2, <1>4, <1>5, <1>6, EmptySeq
  <2> QED
    BY <2>1, <2>2, <1>5 DEF OutInv, OutputInOrder
<1>9. WakeupScheduled'
    BY DEF WakeupScheduled
<1>10. InputInOrder'
    BY InputAlone
<1> QED
    BY <1>1, <1>3, <1>8, <1>9, <1>10 DEF OutInv

(***************************************************************************)
(* send after close_connection: the queue keeps its count and its limit.   *)
(***************************************************************************)
LEMMA SendClosedKeeps ==
    ASSUME IInv, NEW len \in Lengths, SendClosed(len)
    PROVE  IInv'
<1> USE DEF IInv, SendClosed
<1>1. /\ msgQueue' \in Seq(Blocks) /\ curBytes' \in Nat
      /\ CountIsSum' /\ BlocksNotEmpty' /\ QueueBounded' /\ TailFits'
  <2>1. len \in Nat \ {0} /\ 0 \in Nat /\ 0 < len
    BY LengthAssumption
  <2> QED
    BY <2>1, AppendBlock
<1>2. TypeOK'
  <2>1. OutTypes /\ InTypes /\ LinkTypes
    BY Types
  <2>2. OutTypes' /\ InTypes' /\ LinkTypes'
    BY <2>1, <1>1 DEF OutTypes, InTypes, LinkTypes, inVars
  <2> QED
    BY <2>2, TypesNext
<1>3. OutputInOrder' /\ WakeupScheduled'
    BY DEF OutInv, OutputInOrder, WakeupScheduled
<1>4. InputInOrder'
    BY InputAlone
<1> QED
    BY <1>1, <1>2, <1>3, <1>4 DEF OutInv

(***************************************************************************)
(* send on an empty queue: what the kernel takes continues the wire, and   *)
(* a rest is the only block.                                               *)
(***************************************************************************)
LEMMA SendDirectlyKeeps ==
    ASSUME IInv, NEW len \in Lengths, SendDirectly(len)
    PROVE  IInv'
<1>1. PICK n \in 0..len :
        /\ wire' = wire \o Bytes(total, n)
        /\ IF n = len THEN UNCHANGED <<msgQueue, curBytes, wakeup>>
           ELSE /\ msgQueue' = <<Block(n, len)>>
                /\ curBytes' = len
                /\ wakeup' = TRUE
    BY DEF SendDirectly
<1>2. /\ conn = "open" /\ msgQueue = <<>> /\ total + len <= MaxOut /\ total' = total + len
      /\ UNCHANGED <<inVars, conn, link, arrived, closedBy>>
    BY DEF SendDirectly
<1>3. OutTypes /\ InTypes /\ LinkTypes /\ OutInv /\ InputInOrder /\ TypeOK
    BY Types DEF IInv
<1>4. len \in Nat \ {0} /\ n \in Nat /\ total \in Nat /\ MaxOut \in Nat
    BY <1>3, LengthAssumption, BoundAssumption DEF OutTypes
<1>5. total = Len(wire) /\ wire = Bytes(0, Len(wire))
    BY <1>2, <1>3 DEF OutInv, OutputInOrder
<1>6. wire' = Bytes(0, total + n)
    BY <1>1, <1>4, <1>5, BytesConcat
<1>7. wire' \in Seq(Nat) /\ Len(wire') = total + n
    BY <1>4, <1>6, BytesType
<1>8. curBytes = 0
  <2>1. PICK f : Sums(f, msgQueue, curBytes)
    BY <1>3 DEF OutInv, CountIsSum
  <2>2. Len(msgQueue) = 0
    BY <1>2, EmptySeq
  <2> QED
    BY <2>1, <2>2 DEF Sums
<1>9. InTypes' /\ LinkTypes' /\ InputInOrder'
  <2>1. InTypes' /\ LinkTypes'
    BY <1>2, <1>3 DEF InTypes, LinkTypes, inVars
  <2> QED
    BY <2>1, <1>2, <1>3, InputAlone
<1>10. CASE n = len
  <2>1. msgQueue' = <<>> /\ curBytes' = 0 /\ wakeup' = wakeup /\ wire' = Bytes(0, Len(wire'))
        /\ total' = Len(wire')
    BY <1>1, <1>2, <1>4, <1>6, <1>7, <1>8, <1>10
  <2>2. OutInv'
    BY <2>1, EmptyQueue
  <2>3. OutTypes'
    BY <2>1, <1>2, <1>3, <1>4, <1>7, EmptySeq DEF OutTypes
  <2> QED
    BY <2>2, <2>3, <1>9, TypesNext DEF IInv
<1>11. CASE n # len
  <2>1. msgQueue' = <<Block(n, len)>> /\ curBytes' = curBytes + len /\ wakeup' = TRUE /\ n < len
    BY <1>1, <1>4, <1>8, <1>11
  <2>2. msgQueue' = Append(msgQueue, Block(n, len))
    BY <2>1, <1>2
  <2>3. ~Full
    BY <1>8, SizeAssumption DEF Full
  <2>4. /\ msgQueue' \in Seq(Blocks) /\ curBytes' \in Nat
        /\ CountIsSum' /\ BlocksNotEmpty' /\ QueueBounded' /\ TailFits'
    BY <2>1, <2>2, <2>3, <1>3, <1>4, AppendBlock
  <2>5. OutTypes'
    BY <2>1, <2>4, <1>2, <1>4, <1>7 DEF OutTypes
  <2>6. OutputInOrder'
    <3>1. wire' = Bytes(0, Len(wire'))
      BY <1>6, <1>7
    <3>2. /\ Len(msgQueue') = 1 /\ msgQueue' # <<>>
          /\ msgQueue'[1].from = total + n + 1 /\ msgQueue'[1].to = total + len
      BY <2>1 DEF Block
    <3> QED
      BY <3>1, <3>2, <1>2, <1>4, <1>7 DEF OutputInOrder
  <2>7. WakeupScheduled'
    BY <2>1 DEF WakeupScheduled
  <2> QED
    BY <2>4, <2>5, <2>6, <2>7, <1>9, TypesNext DEF OutInv, IInv
<1> QED
    BY <1>10, <1>11

-----------------------------------------------------------------------------
(***************************************************************************)
(* handle_close empties the queue, whatever the reason.                    *)
(***************************************************************************)
LEMMA HandleCloseKeeps ==
    ASSUME IInv, NEW why \in {"error", "eof", "no space", "high water"}, HandleClose(why),
           wire' \in Seq(Nat), wire' = Bytes(0, Len(wire')),
           UNCHANGED <<total, inVars, link, arrived>>
    PROVE  IInv'
<1>1. OutTypes /\ InTypes /\ LinkTypes /\ InputInOrder
    BY Types DEF IInv
<1>2. /\ msgQueue' = <<>> /\ curBytes' = 0 /\ wakeup' = FALSE
      /\ conn' = "gone" /\ closedBy' = why
    BY DEF HandleClose
<1>3. OutInv'
    BY <1>2, EmptyQueue
<1>4. OutTypes' /\ InTypes' /\ LinkTypes'
    BY <1>1, <1>2, EmptySeq DEF OutTypes, InTypes, LinkTypes, inVars
<1>5. InputInOrder'
    BY <1>1, InputAlone
<1> QED
    BY <1>3, <1>4, <1>5, TypesNext DEF IInv

(***************************************************************************)
(* handle_output on a broken connection.                                   *)
(***************************************************************************)
LEMMA OutputFailsKeeps == IInv /\ OutputFails => IInv'
<1> SUFFICES ASSUME IInv, OutputFails PROVE IInv'
    OBVIOUS
<1>1. wire \in Seq(Nat) /\ wire = Bytes(0, Len(wire))
    BY Types DEF IInv, OutTypes, OutInv, OutputInOrder
<1>2. HandleClose("error") /\ UNCHANGED <<total, wire, inVars, link, arrived>>
    BY DEF OutputFails
<1> QED
    BY <1>1, <1>2, HandleCloseKeeps

(***************************************************************************)
(* handle_input that ends the connection.                                  *)
(***************************************************************************)
LEMMA InputEndsKeeps == IInv /\ InputEnds => IInv'
<1> SUFFICES ASSUME IInv, InputEnds PROVE IInv'
    OBVIOUS
<1>1. wire \in Seq(Nat) /\ wire = Bytes(0, Len(wire))
    BY Types DEF IInv, OutTypes, OutInv, OutputInOrder
<1>2. /\ HandleClose("error") \/ HandleClose("eof") \/ HandleClose("no space")
      /\ UNCHANGED <<total, wire, inVars, link, arrived>>
    BY DEF InputEnds
<1> QED
    BY <1>1, <1>2, HandleCloseKeeps

(***************************************************************************)
(* The head of the queue begins where the wire ends, and counts.           *)
(***************************************************************************)
LEMMA HeadOfQueue ==
    ASSUME TypeOK, OutInv, msgQueue # <<>>, conn = "open"
    PROVE  /\ Len(msgQueue) \in Nat \ {0} /\ msgQueue \in Seq(Blocks)
           /\ Head(msgQueue) = msgQueue[1] /\ msgQueue[1] \in Blocks
           /\ msgQueue[1].from = Len(wire) + 1 /\ msgQueue[1].from <= msgQueue[1].to
           /\ msgQueue[1].to \in Nat /\ msgQueue[1].size \in Nat \ {0}
           /\ wire \in Seq(Nat) /\ Len(wire) \in Nat
           /\ curBytes \in Nat /\ curBytes - msgQueue[1].size \in Nat
<1> DEFINE m == Len(msgQueue)
<1>1. msgQueue \in Seq(Blocks) /\ wire \in Seq(Nat) /\ curBytes \in Nat
    BY Types DEF OutTypes
<1>2. m \in Nat \ {0} /\ Len(wire) \in Nat
    BY <1>1, EmptySeq, LenProperties
<1>3. 1 \in 1..m
    BY <1>2
<1>4. Head(msgQueue) = msgQueue[1]
    BY <1>1, HeadTailProperties
<1>5. msgQueue[1] \in Blocks
    BY <1>1, <1>3, ElementOfSeq
<1>6. msgQueue[1].to \in Nat /\ msgQueue[1].size \in Nat \ {0}
    BY <1>5, BlockSize DEF Blocks
<1>7. msgQueue[1].from = Len(wire) + 1 /\ msgQueue[1].from <= msgQueue[1].to
    BY <1>3 DEF OutInv, OutputInOrder, BlocksNotEmpty
<1>8. curBytes - msgQueue[1].size \in Nat
  <2>1. PICK f : Sums(f, msgQueue, curBytes)
    BY DEF OutInv, CountIsSum
  <2>2. 0 \in 0..m /\ 1 \in 0..m /\ m \in 0..m /\ 1 <= m
    BY <1>2
  <2>3. f[1] = msgQueue[1].size /\ f[1] <= f[m] /\ f[m] = curBytes
    BY <1>3, <1>6, <2>1, <2>2 DEF Sums
  <2> QED
    BY <2>3, <1>1, <1>6
<1> QED
    BY <1>1, <1>2, <1>4, <1>5, <1>6, <1>7, <1>8

(***************************************************************************)
(* handle_output when all of the head goes out: the next block begins      *)
(* where the wire then ends.                                               *)
(***************************************************************************)
LEMMA OutputAllKeeps ==
    ASSUME IInv, NEW n \in Nat, conn = "open", wakeup, msgQueue # <<>>,
           Head(msgQueue).from + n = Head(msgQueue).to + 1,
           wire' = Bytes(0, Len(wire) + n),
           msgQueue' = Tail(msgQueue), curBytes' = curBytes - Head(msgQueue).size,
           UNCHANGED <<wakeup, conn, closedBy, total, inVars, link, arrived>>
    PROVE  IInv'
<1> DEFINE m == Len(msgQueue)
           s == msgQueue[1].size
<1>1. OutTypes /\ InTypes /\ LinkTypes /\ OutInv /\ InputInOrder /\ TypeOK
    BY Types DEF IInv
<1>2. /\ m \in Nat \ {0} /\ msgQueue \in Seq(Blocks)
      /\ Head(msgQueue) = msgQueue[1] /\ s \in Nat \ {0}
      /\ msgQueue[1].from = Len(wire) + 1 /\ msgQueue[1].to \in Nat
      /\ Len(wire) \in Nat /\ curBytes \in Nat /\ curBytes - s \in Nat
    BY <1>1, HeadOfQueue
<1>3. /\ msgQueue' \in Seq(Blocks) /\ Len(msgQueue') = m - 1
      /\ \A i \in 1..(m - 1) : msgQueue'[i] = msgQueue[i + 1]
    BY <1>2, HeadTailProperties
<1>4. curBytes' = curBytes - s /\ msgQueue[1].to = Len(wire) + n
  <2> DEFINE to == msgQueue[1].to
             w == Len(wire)
  <2>1. (w + 1) + n = to + 1
    BY <1>2
  <2>2. w \in Nat /\ to \in Nat
    BY <1>2
  <2>3. to = w + n
    <3> HIDE DEF to, w
    <3> QED
      BY <2>1, <2>2
  <2>4. curBytes' = curBytes - s
    BY <1>2
  <2> QED
    BY <2>3, <2>4
<1>5. wire' \in Seq(Nat) /\ Len(wire') = Len(wire) + n /\ wire' = Bytes(0, Len(wire'))
  <2>1. Len(wire) + n \in Nat
    BY <1>2
  <2> QED
    BY <2>1, BytesType
<1>6. OutTypes' /\ InTypes' /\ LinkTypes'
    BY <1>1, <1>2, <1>3, <1>4, <1>5 DEF OutTypes, InTypes, LinkTypes, inVars
<1>7. CountIsSum'
  <2>1. \E f : Sums(f, msgQueue, curBytes)
    BY <1>1 DEF OutInv, CountIsSum
  <2>2. \E f : Sums(f, Tail(msgQueue), curBytes - Head(msgQueue).size)
    BY <2>1, <1>2, SumsTail
  <2> QED
    BY <2>2 DEF CountIsSum
<1>8. BlocksNotEmpty'
  <2> SUFFICES ASSUME NEW i \in 1..(m - 1) PROVE msgQueue'[i].from <= msgQueue'[i].to
    BY <1>3 DEF BlocksNotEmpty
  <2>1. i + 1 \in 1..m
    BY <1>2
  <2> QED
    BY <2>1, <1>1, <1>3 DEF OutInv, BlocksNotEmpty
<1>9. OutputInOrder'
  <2>1. \A i \in 1..(m - 1) :
           msgQueue'[i].from = IF i = 1 THEN Len(wire') + 1 ELSE msgQueue'[i - 1].to + 1
    <3> TAKE i \in 1..(m - 1)
    <3>1. i + 1 \in 1..m /\ i + 1 # 1 /\ (i + 1) - 1 = i
      BY <1>2
    <3>2. msgQueue'[i].from = msgQueue[i].to + 1
      BY <3>1, <1>1, <1>3 DEF OutInv, OutputInOrder
    <3>3. CASE i = 1
      BY <3>2, <3>3, <1>4, <1>5
    <3>4. CASE i # 1
      <4>1. i - 1 \in 1..(m - 1) /\ (i - 1) + 1 = i
        BY <3>4, <1>2
      <4>2. msgQueue'[i - 1] = msgQueue[i]
        BY <4>1, <1>3
      <4> QED
        BY <3>2, <3>4, <4>2
    <3> QED
      BY <3>3, <3>4
  <2>2. total = msgQueue[m].to
    BY <1>1 DEF OutInv, OutputInOrder
  <2>3. total' = IF msgQueue' = <<>> THEN Len(wire') ELSE msgQueue'[Len(msgQueue')].to
    <3>1. CASE m = 1
      <4>1. msgQueue' = <<>>
        BY <3>1, <1>3, EmptySeq
      <4> QED
        BY <3>1, <4>1, <2>2, <1>4, <1>5
    <3>2. CASE m # 1
      <4>1. m - 1 \in 1..(m - 1) /\ (m - 1) + 1 = m /\ m - 1 # 0
        <5>1. m \in Nat \ {0} /\ m # 1
          BY <3>2, <1>2
        <5> HIDE DEF m
        <5> QED
          BY <5>1
      <4>2. msgQueue' # <<>>
        BY <4>1, <1>3, EmptySeq
      <4> QED
        BY <4>1, <4>2, <2>2, <1>3
    <3> QED
      BY <3>1, <3>2
  <2> QED
    BY <2>1, <2>3, <1>3, <1>5 DEF OutputInOrder
<1>10. WakeupScheduled'
    BY DEF WakeupScheduled
<1>11. QueueBounded'
  <2>1. curBytes = 0 \/ \E len \in Lengths : curBytes < HighWater + len
    BY <1>1 DEF OutInv, QueueBounded
  <2>2. CASE curBytes = 0
    BY <2>2, <1>2, <1>4
  <2>3. CASE \E len \in Lengths : curBytes < HighWater + len
    <3>1. PICK len \in Lengths : curBytes < HighWater + len
      BY <2>3
    <3>2. curBytes - s < HighWater + len
      BY <3>1, <1>2, LengthAssumption, SizeAssumption
    <3> QED
      BY <3>2, <1>4 DEF QueueBounded
  <2> QED
    BY <2>1, <2>2, <2>3 DEF QueueBounded
<1>12. TailFits'
  <2> SUFFICES ASSUME msgQueue' # <<>>
               PROVE  curBytes' - msgQueue'[Len(msgQueue')].size < HighWater
    BY DEF TailFits
  <2>1. m - 1 \in 1..(m - 1) /\ (m - 1) + 1 = m /\ m \in 1..m
    BY <1>2, <1>3, EmptySeq
  <2>2. msgQueue'[Len(msgQueue')] = msgQueue[m]
    BY <2>1, <1>3
  <2>3. curBytes - msgQueue[m].size < HighWater
    BY <1>1 DEF OutInv, TailFits
  <2> DEFINE last == msgQueue[m].size
  <2>4. last \in Nat
    <3>1. msgQueue[m] \in Blocks
      BY <2>1, <1>2, ElementOfSeq
    <3> QED
      BY <3>1, BlockSize
  <2>5. curBytes - s - last < HighWater
    <3>1. curBytes \in Nat /\ s \in Nat /\ HighWater \in Nat /\ curBytes - last < HighWater
      BY <2>3, <1>2, SizeAssumption
    <3> HIDE DEF last, s
    <3> QED
      BY <3>1, <2>4
  <2> QED
    BY <2>2, <2>5, <1>4
<1>13. InputInOrder'
    BY <1>1, InputAlone
<1> QED
    BY <1>6, <1>7, <1>8, <1>9, <1>10, <1>11, <1>12, <1>13, TypesNext DEF OutInv, IInv

(***************************************************************************)
(* handle_output when the rest goes back to the head: the block that is    *)
(* put back differs from the one taken only in where it begins.            *)
(***************************************************************************)
LEMMA OutputRestKeeps ==
    ASSUME IInv, NEW n \in Nat, conn = "open", wakeup, msgQueue # <<>>,
           Head(msgQueue).from + n <= Head(msgQueue).to,
           wire' = Bytes(0, Len(wire) + n),
           msgQueue' = [msgQueue EXCEPT ![1].from = @ + n],
           UNCHANGED <<curBytes, wakeup, conn, closedBy, total, inVars, link, arrived>>
    PROVE  IInv'
<1> DEFINE m == Len(msgQueue)
           e == [msgQueue[1] EXCEPT !.from = @ + n]
<1>1. OutTypes /\ InTypes /\ LinkTypes /\ OutInv /\ InputInOrder /\ TypeOK
    BY Types DEF IInv
<1>2. /\ m \in Nat \ {0} /\ msgQueue \in Seq(Blocks)
      /\ Head(msgQueue) = msgQueue[1] /\ msgQueue[1] \in Blocks
      /\ msgQueue[1].from = Len(wire) + 1
      /\ Len(wire) \in Nat
    BY <1>1, HeadOfQueue
<1>3. /\ e \in Blocks /\ e.from = msgQueue[1].from + n
      /\ e.to = msgQueue[1].to /\ e.size = msgQueue[1].size
  <2>1. msgQueue[1].from + n \in Nat
    BY <1>2
  <2> QED
    BY <2>1, <1>2 DEF Blocks
<1> HIDE DEF e
<1>4. msgQueue' = [msgQueue EXCEPT ![1] = e]
    BY DEF e
<1>5. 1 \in 1..m
    BY <1>2
<1>6. /\ msgQueue' \in Seq(Blocks) /\ Len(msgQueue') = m
      /\ \A i \in 1..m : msgQueue'[i] = IF i = 1 THEN e ELSE msgQueue[i]
    BY <1>2, <1>3, <1>4, <1>5, ExceptSeq
<1>7. \A i \in 1..m : msgQueue'[i].to = msgQueue[i].to /\ msgQueue'[i].size = msgQueue[i].size
    BY <1>3, <1>6
<1>8. wire' \in Seq(Nat) /\ Len(wire') = Len(wire) + n /\ wire' = Bytes(0, Len(wire'))
  <2>1. Len(wire) + n \in Nat
    BY <1>2
  <2> QED
    BY <2>1, BytesType
<1>9. OutTypes' /\ InTypes' /\ LinkTypes'
    BY <1>1, <1>6, <1>8 DEF OutTypes, InTypes, LinkTypes, inVars
<1>10. CountIsSum'
  <2>1. PICK f : Sums(f, msgQueue, curBytes)
    BY <1>1 DEF OutInv, CountIsSum
  <2>2. Sums(f, msgQueue', curBytes')
    BY <2>1, <1>6, <1>7 DEF Sums
  <2> QED
    BY <2>2 DEF CountIsSum
<1>11. BlocksNotEmpty'
  <2> SUFFICES ASSUME NEW i \in 1..m PROVE msgQueue'[i].from <= msgQueue'[i].to
    BY <1>6 DEF BlocksNotEmpty
  <2>1. CASE i = 1
    BY <2>1, <1>2, <1>3, <1>6
  <2>2. CASE i # 1
    BY <2>2, <1>1, <1>6 DEF OutInv, BlocksNotEmpty
  <2> QED
    BY <2>1, <2>2
<1>12. msgQueue' # <<>>
    BY <1>2, <1>6, EmptySeq
<1>13. OutputInOrder'
  <2>1. \A i \in 1..m :
           msgQueue'[i].from = IF i = 1 THEN Len(wire') + 1 ELSE msgQueue'[i - 1].to + 1
    <3> TAKE i \in 1..m
    <3>1. CASE i = 1
      BY <3>1, <1>2, <1>3, <1>6, <1>8
    <3>2. CASE i # 1
      <4>1. i - 1 \in 1..m
        BY <3>2, <1>2
      <4>2. msgQueue[i].from = msgQueue[i - 1].to + 1
        BY <3>2, <1>1 DEF OutInv, OutputInOrder
      <4> QED
        BY <3>2, <4>1, <4>2, <1>6, <1>7
    <3> QED
      BY <3>1, <3>2
  <2>2. total' = msgQueue'[m].to
    <3>1. total = msgQueue[m].to /\ m \in 1..m
      BY <1>1, <1>2 DEF OutInv, OutputInOrder
    <3> QED
      BY <3>1, <1>7
  <2> QED
    BY <2>1, <2>2, <1>6, <1>8, <1>12 DEF OutputInOrder
<1>14. WakeupScheduled' /\ QueueBounded'
    BY <1>1 DEF OutInv, WakeupScheduled, QueueBounded
<1>15. TailFits'
  <2>1. curBytes - msgQueue[m].size < HighWater /\ m \in 1..m
    BY <1>1, <1>2 DEF OutInv, TailFits
  <2> QED
    BY <2>1, <1>6, <1>7 DEF TailFits
<1>16. InputInOrder'
    BY <1>1, InputAlone
<1> QED
    BY <1>9, <1>10, <1>11, <1>13, <1>14, <1>15, <1>16, TypesNext DEF OutInv, IInv

(***************************************************************************)
(* handle_output, in all of its branches.                                  *)
(***************************************************************************)
LEMMA OutputKeeps ==
    ASSUME IInv, NEW n \in Nat, Output(n)
    PROVE  IInv'
<1> DEFINE mb == Head(msgQueue)
<1>1. /\ conn = "open" /\ wakeup /\ msgQueue # <<>>
      /\ n <= mb.to + 1 - mb.from
      /\ wire' = wire \o Bytes(mb.from - 1, n)
      /\ UNCHANGED <<total, inVars, link, arrived>>
    BY DEF Output
<1>2. /\ mb.from = Len(wire) + 1 /\ mb.to \in Nat
      /\ Len(wire) \in Nat /\ wire = Bytes(0, Len(wire))
    BY <1>1, HeadOfQueue DEF IInv, OutInv, OutputInOrder
<1>3. wire' = Bytes(0, Len(wire) + n)
  <2>1. mb.from - 1 = Len(wire)
    BY <1>2
  <2> QED
    BY <2>1, <1>1, <1>2, BytesConcat
<1>4. CASE mb.from + n > mb.to
  <2> DEFINE from == mb.from
             to == mb.to
  <2>1. from + n = to + 1
    <3>1. from \in Nat /\ to \in Nat /\ from + n > to /\ n <= to + 1 - from
      BY <1>1, <1>2, <1>4
    <3> HIDE DEF from, to
    <3> QED
      BY <3>1
  <2>2. /\ msgQueue' = Tail(msgQueue) /\ curBytes' = curBytes - mb.size
        /\ UNCHANGED <<wakeup, conn, closedBy>>
    BY <1>4 DEF Output
  <2> QED
    BY <2>1, <2>2, <1>1, <1>3, OutputAllKeeps
<1>5. CASE ~(mb.from + n > mb.to) /\ curBytes - mb.size >= HighWater
  <2>1. HandleClose("high water")
    BY <1>5 DEF Output
  <2>2. wire' \in Seq(Nat) /\ wire' = Bytes(0, Len(wire'))
    <3>1. Len(wire) + n \in Nat
      BY <1>2
    <3> QED
      BY <3>1, <1>3, BytesType
  <2> QED
    BY <2>1, <2>2, <1>1, HandleCloseKeeps
<1>6. CASE ~(mb.from + n > mb.to) /\ ~(curBytes - mb.size >= HighWater)
  <2>1. mb.from + n <= mb.to
    BY <1>2, <1>6
  <2>2. /\ msgQueue' = [msgQueue EXCEPT ![1].from = @ + n]
        /\ UNCHANGED <<curBytes, wakeup, conn, closedBy>>
    BY <1>6 DEF Output
  <2> QED
    BY <2>1, <2>2, <1>1, <1>3, OutputRestKeeps
<1> QED
    BY <1>4, <1>5, <1>6

(***************************************************************************)
(* handle_output with nothing to send.                                     *)
(***************************************************************************)
LEMMA OutputIdleKeeps == IInv /\ OutputIdle => IInv'
<1> SUFFICES ASSUME IInv, OutputIdle PROVE IInv'
    OBVIOUS
<1>1. OutTypes /\ InTypes /\ LinkTypes /\ OutInv /\ InputInOrder
    BY Types DEF IInv
<1>2. /\ msgQueue = <<>> /\ wakeup' = FALSE
      /\ UNCHANGED <<msgQueue, curBytes, total, wire, inVars, conn, link, arrived, closedBy>>
    BY DEF OutputIdle
<1>3. OutTypes' /\ InTypes' /\ LinkTypes'
    BY <1>1, <1>2 DEF OutTypes, InTypes, LinkTypes, inVars
<1>4. OutInv'
    BY <1>1, <1>2 DEF OutInv, CountIsSum, BlocksNotEmpty, OutputInOrder, WakeupScheduled,
                      QueueBounded, TailFits
<1>5. InputInOrder'
    BY <1>1, <1>2, InputAlone
<1> QED
    BY <1>3, <1>4, <1>5, TypesNext DEF IInv

(***************************************************************************)
(* close_connection leaves the queue and both buffers as they are.         *)
(***************************************************************************)
LEMMA CloseConnectionKeeps == IInv /\ CloseConnection => IInv'
<1> SUFFICES ASSUME IInv, CloseConnection PROVE IInv'
    OBVIOUS
<1>1. OutTypes /\ InTypes /\ LinkTypes /\ OutInv /\ InputInOrder
    BY Types DEF IInv
<1>2. /\ conn' = "closed" /\ wakeup' = FALSE
      /\ UNCHANGED <<msgQueue, curBytes, total, wire, inVars, link, arrived, closedBy>>
    BY DEF CloseConnection
<1>3. OutTypes' /\ InTypes' /\ LinkTypes'
    BY <1>1, <1>2 DEF OutTypes, InTypes, LinkTypes, inVars
<1>4. OutInv'
    BY <1>1, <1>2 DEF OutInv, CountIsSum, BlocksNotEmpty, OutputInOrder, WakeupScheduled,
                      QueueBounded, TailFits
<1>5. InputInOrder'
    BY <1>1, <1>2, InputAlone
<1> QED
    BY <1>3, <1>4, <1>5, TypesNext DEF IInv

(***************************************************************************)
(* Nor does the other side touch them.                                     *)
(***************************************************************************)
LEMMA PeerKeeps == IInv /\ (PeerSends \/ LinkEnds) => IInv'
<1> SUFFICES ASSUME IInv, PeerSends \/ LinkEnds PROVE IInv'
    OBVIOUS
<1>1. OutTypes /\ InTypes /\ LinkTypes /\ OutInv /\ InputInOrder
    BY Types DEF IInv
<1>2. /\ arrived' \in 0..MaxIn /\ received \in 0..arrived'
      /\ link' \in {"up", "eof", "broken"}
      /\ UNCHANGED <<outVars, inVars, conn, closedBy>>
  <2>1. MaxIn \in Nat /\ arrived \in 0..MaxIn /\ received \in 0..arrived
    BY <1>1, BoundAssumption DEF InTypes
  <2>2. CASE PeerSends
    <3>1. arrived < MaxIn /\ arrived' = arrived + 1
      BY <2>2 DEF PeerSends
    <3>2. arrived' \in 0..MaxIn /\ received \in 0..arrived'
      BY <3>1, <2>1
    <3> QED
      BY <3>2, <2>2, <1>1 DEF PeerSends, LinkTypes
  <2>3. CASE LinkEnds
    BY <2>1, <2>3, <1>1 DEF LinkEnds, LinkTypes
  <2> QED
    BY <2>2, <2>3
<1>3. OutTypes' /\ InTypes' /\ LinkTypes'
    BY <1>1, <1>2 DEF OutTypes, InTypes, LinkTypes, inVars, outVars
<1>4. OutInv' /\ InputInOrder'
    BY <1>1, <1>2, OutputAlone, InputAlone
<1> QED
    BY <1>3, <1>4, TypesNext DEF IInv

(***************************************************************************)
(* Nor does a step that changes nothing.                                   *)
(***************************************************************************)
LEMMA StutterKeeps == IInv /\ UNCHANGED vars => IInv'
<1> SUFFICES ASSUME IInv, UNCHANGED vars PROVE IInv'
    OBVIOUS
<1>1. OutTypes /\ InTypes /\ LinkTypes /\ OutInv /\ InputInOrder
    BY Types DEF IInv
<1>2. OutTypes' /\ InTypes' /\ LinkTypes'
    BY <1>1 DEF OutTypes, InTypes, LinkTypes, inVars, outVars, vars
<1>3. OutInv' /\ InputInOrder'
    BY <1>1, OutputAlone, InputAlone DEF vars
<1> QED
    BY <1>2, <1>3, TypesNext DEF IInv

-----------------------------------------------------------------------------
(***************************************************************************)
(* A stretch of a sequence, from after position a up to b.                 *)
(***************************************************************************)
LEMMA SubSeqType ==
    ASSUME NEW s \in Seq(Nat), NEW a \in 0..Len(s), NEW b \in a..Len(s)
    PROVE  /\ SubSeq(s, a + 1, b) \in Seq(Nat)
           /\ Len(SubSeq(s, a + 1, b)) = b - a
           /\ \A i \in 1..(b - a) : SubSeq(s, a + 1, b)[i] = s[a + i]
<1>1. Len(s) \in Nat
    BY LenProperties
<1>2. a + 1 \in Int /\ b \in Int
    BY <1>1
<1>3. \A i \in (a + 1)..b : s[i] \in Nat
  <2> TAKE i \in (a + 1)..b
  <2>1. i \in 1..Len(s)
    BY <1>1
  <2> QED
    BY <2>1, ElementOfSeq
<1>4. /\ SubSeq(s, a + 1, b) \in Seq(Nat)
      /\ Len(SubSeq(s, a + 1, b)) = IF a + 1 <= b THEN b - (a + 1) + 1 ELSE 0
      /\ \A i \in 1..(b - (a + 1) + 1) : SubSeq(s, a + 1, b)[i] = s[(a + 1) + i - 1]
    BY <1>2, <1>3, SubSeqProperties
<1>5. b - (a + 1) + 1 = b - a /\ (~(a + 1 <= b) => b - a = 0)
    BY <1>1
<1>6. \A i \in 1..(b - a) : (a + 1) + i - 1 = a + i
    BY <1>1
<1> QED
    BY <1>4, <1>5, <1>6

(***************************************************************************)
(* A stretch up to b and the stretch after b make one.                     *)
(***************************************************************************)
LEMMA SubSeqSplit ==
    ASSUME NEW s \in Seq(Nat), NEW a \in 0..Len(s), NEW b \in a..Len(s)
    PROVE  SubSeq(s, a + 1, b) \o SubSeq(s, b + 1, Len(s)) = SubSeq(s, a + 1, Len(s))
<1>1. Len(s) \in Nat
    BY LenProperties
<1>2. a + 1 \in 1..(Len(s) + 1) /\ b \in ((a + 1) - 1)..Len(s) /\ Len(s) \in b..Len(s)
    BY <1>1
<1> QED
    BY <1>2, ConcatAdjacentSubSeq

(***************************************************************************)
(* Joining three sequences in either order.                                *)
(***************************************************************************)
LEMMA Rejoin ==
    ASSUME NEW s \in Seq(Nat), NEW t \in Seq(Nat), NEW u \in Seq(Nat)
    PROVE  (s \o t) \o u = s \o (t \o u)
  BY ConcatAssociative

(***************************************************************************)
(* The rest of two joined sequences is the rest of the first and the       *)
(* second.                                                                 *)
(***************************************************************************)
LEMMA SubSeqOfJoined ==
    ASSUME NEW s \in Seq(Nat), NEW t \in Seq(Nat), NEW a \in 0..Len(s)
    PROVE  SubSeq(s \o t, a + 1, Len(s) + Len(t)) = SubSeq(s, a + 1, Len(s)) \o t
<1> DEFINE l == Len(s)
           m == Len(t)
           j == s \o t
           x == SubSeq(j, a + 1, l + m)
           y == SubSeq(s, a + 1, l)
<1>1. l \in Nat /\ m \in Nat /\ a \in 0..l
    BY LenProperties
<1>2. /\ j \in Seq(Nat) /\ Len(j) = l + m
      /\ \A i \in 1..(l + m) : j[i] = IF i <= l THEN s[i] ELSE t[i - l]
    BY ConcatProperties
<1>3. /\ x \in Seq(Nat) /\ Len(x) = (l + m) - a
      /\ \A i \in 1..((l + m) - a) : x[i] = j[a + i]
  <2> HIDE DEF j, l, m
  <2>1. a \in 0..(l + m) /\ l + m \in a..(l + m)
    BY <1>1
  <2> DEFINE b == l + m
  <2>2. a \in 0..Len(j) /\ b \in a..Len(j)
    BY <2>1, <1>2
  <2> HIDE DEF b
  <2>3. /\ SubSeq(j, a + 1, b) \in Seq(Nat)
        /\ Len(SubSeq(j, a + 1, b)) = b - a
        /\ \A i \in 1..(b - a) : SubSeq(j, a + 1, b)[i] = j[a + i]
    BY <2>2, <1>2, SubSeqType
  <2>4. x = SubSeq(j, a + 1, b) /\ b - a = (l + m) - a
    BY DEF b
  <2> HIDE DEF x
  <2> QED
    BY <2>3, <2>4, Zenon
<1>4. /\ y \in Seq(Nat) /\ Len(y) = l - a
      /\ \A i \in 1..(l - a) : y[i] = s[a + i]
  <2>1. l \in a..l
    BY <1>1
  <2> QED
    BY <2>1, SubSeqType
<1> HIDE DEF x, y, j
<1>5. /\ y \o t \in Seq(Nat) /\ Len(y \o t) = l - a + m
      /\ \A i \in 1..(l - a + m) : (y \o t)[i] = IF i <= l - a THEN y[i] ELSE t[i - (l - a)]
  <2>1. /\ y \o t \in Seq(Nat) /\ Len(y \o t) = Len(y) + Len(t)
        /\ \A i \in 1..(Len(y) + Len(t)) :
              (y \o t)[i] = IF i <= Len(y) THEN y[i] ELSE t[i - Len(y)]
    BY <1>4, ConcatProperties
  <2> QED
    BY <2>1, <1>4
<1> HIDE DEF l, m
<1>6. (l + m) - a = l - a + m
    BY <1>1
<1>7. \A i \in 1..((l + m) - a) : x[i] = (y \o t)[i]
  <2> TAKE i \in 1..((l + m) - a)
  <2>1. a + i \in 1..(l + m) /\ x[i] = j[a + i]
    BY <1>1, <1>3
  <2>2. CASE i <= l - a
    <3>1. a + i <= l /\ i \in 1..(l - a)
      BY <2>2, <1>1
    <3> QED
      BY <2>1, <2>2, <3>1, <1>2, <1>4, <1>5, <1>6
  <2>3. CASE ~(i <= l - a)
    <3>1. ~(a + i <= l) /\ (a + i) - l = i - (l - a)
      BY <2>3, <1>1
    <3> QED
      BY <2>1, <2>3, <3>1, <1>2, <1>5, <1>6
  <2> QED
    BY <2>2, <2>3
<1>8. x = y \o t
    BY <1>3, <1>5, <1>6, <1>7, SeqEqual
<1> QED
    BY <1>8 DEF x, y, j, l, m

(***************************************************************************)
(* handle_input: what arrives is appended, what is read is taken from the  *)
(* front, and crunch keeps the rest.                                       *)
(***************************************************************************)
LEMMA InputKeeps ==
    ASSUME IInv, NEW n \in Nat, NEW k \in Nat, Input(n, k)
    PROVE  IInv'
<1> DEFINE filled == inputBuffer \o Bytes(received, n)
           end == Len(inputBuffer) + n
<1>1. OutTypes /\ InTypes /\ LinkTypes /\ OutInv /\ InputInOrder
    BY Types DEF IInv
<1>2. /\ n \in 1..Space /\ received + n <= arrived /\ k \in 0..(Unread + n)
      /\ received' = received + n
      /\ taken' = taken \o SubSeq(filled, rd + 1, rd + k)
      /\ inputBuffer' = SubSeq(filled, rd + k + 1, Len(filled))
      /\ rd' = 0
      /\ UNCHANGED <<outVars, conn, link, arrived, closedBy>>
    BY DEF Input
<1>3. /\ inputBuffer \in Seq(Nat) /\ rd \in 0..Len(inputBuffer) /\ Len(inputBuffer) \in Nat
      /\ taken \in Seq(Nat)
    BY <1>1, LenProperties DEF InTypes
<1>4. received \in Nat /\ arrived \in 0..MaxIn /\ MaxIn \in Nat
    BY <1>1, BoundAssumption DEF InTypes
<1>5. /\ Bytes(received, n) \in Seq(Nat) /\ Len(Bytes(received, n)) = n
    BY <1>4, BytesType
<1>6. filled \in Seq(Nat) /\ Len(filled) = end /\ end \in Nat
  <2> DEFINE new == Bytes(received, n)
  <2> HIDE DEF new
  <2>1. new \in Seq(Nat) /\ Len(new) = n
    BY <1>5 DEF new
  <2>2. inputBuffer \o new \in Seq(Nat) /\ Len(inputBuffer \o new) = Len(inputBuffer) + Len(new)
    BY <2>1, <1>3, ConcatProperties
  <2>3. end \in Nat
    BY <1>3
  <2> QED
    BY <2>1, <2>2, <2>3 DEF new
<1>7. rd \in 0..end /\ rd + k \in rd..end /\ rd + k \in 0..end /\ end \in (rd + k)..end
    BY <1>2, <1>3 DEF Unread
<1>8. end <= Capacity /\ Capacity \in Nat
    BY <1>2, <1>3, SizeAssumption DEF Space
<1> HIDE DEF filled
<1>9. SubSeq(filled, rd + 1, rd + k) \in Seq(Nat)
    BY <1>6, <1>7, SubSeqType
<1>10. inputBuffer' \in Seq(Nat) /\ Len(inputBuffer') = end - (rd + k)
    BY <1>2, <1>6, <1>7, SubSeqType
<1>11. taken' \in Seq(Nat)
    BY <1>2, <1>3, <1>9, ConcatProperties
<1>12. InTypes'
  <2>1. Len(inputBuffer') \in Nat /\ Len(inputBuffer') <= Capacity
    BY <1>7, <1>8, <1>10, <1>6
  <2>2. rd' \in 0..Len(inputBuffer')
    <3>1. rd' = 0
      BY <1>2
    <3> QED
      BY <3>1, <2>1
  <2>3. received' \in 0..arrived' /\ arrived' \in 0..MaxIn
    BY <1>2, <1>4
  <2> QED
    BY <2>1, <2>2, <2>3, <1>10, <1>11 DEF InTypes
<1>13. InputInOrder'
  <2> DEFINE old == SubSeq(inputBuffer, rd + 1, Len(inputBuffer))
             new == Bytes(received, n)
  <2>1. SubSeq(inputBuffer', rd' + 1, Len(inputBuffer')) = inputBuffer'
    <3>1. rd' + 1 = 1
      BY <1>2
    <3>2. SubSeq(inputBuffer', 1, Len(inputBuffer')) = inputBuffer'
      BY <1>10, SubSeqFull
    <3> QED
      BY <3>1, <3>2, Zenon
  <2>2. SubSeq(filled, rd + 1, rd + k) \o inputBuffer' = SubSeq(filled, rd + 1, end)
    BY <1>2, <1>6, <1>7, SubSeqSplit
  <2>3. SubSeq(filled, rd + 1, end) = old \o new
    BY <1>3, <1>5, SubSeqOfJoined DEF filled
  <2>4. taken' \o inputBuffer' = taken \o (old \o new)
    <3>1. (taken \o SubSeq(filled, rd + 1, rd + k)) \o inputBuffer'
            = taken \o (SubSeq(filled, rd + 1, rd + k) \o inputBuffer')
      BY <1>3, <1>9, <1>10, Rejoin, Zenon
    <3> QED
      BY <3>1, <2>2, <2>3, <1>2, Zenon
  <2>5. old \in Seq(Nat)
    <3>1. Len(inputBuffer) \in rd..Len(inputBuffer)
      BY <1>3
    <3> QED
      BY <3>1, <1>3, SubSeqType
  <2>6. taken \o (old \o new) = (taken \o old) \o new
    BY <2>5, <1>3, <1>5, Rejoin, Zenon
  <2>7. taken \o old = Bytes(0, received)
    BY <1>1 DEF InputInOrder
  <2>8. Bytes(0, received) \o new = Bytes(0, received + n)
    BY <1>4, BytesConcat
  <2> HIDE DEF old, new
  <2>9. taken' \o inputBuffer' = Bytes(0, received')
    BY <2>4, <2>6, <2>7, <2>8, <1>2
  <2> QED
    BY <2>1, <2>9 DEF InputInOrder
<1>14. OutTypes' /\ LinkTypes' /\ OutInv'
    BY <1>1, <1>2, OutputAlone DEF OutTypes, LinkTypes, outVars
<1> QED
    BY <1>12, <1>13, <1>14, TypesNext DEF IInv

(***************************************************************************)
(* recv outside OnRead: what is read moves from the buffer to the owner.   *)
(***************************************************************************)
LEMMA RecvKeeps ==
    ASSUME IInv, NEW k \in Nat, Recv(k)
    PROVE  IInv'
<1> DEFINE end == Len(inputBuffer)
<1>1. OutTypes /\ InTypes /\ LinkTypes /\ OutInv /\ InputInOrder
    BY Types DEF IInv
<1>2. /\ k \in 1..Unread
      /\ taken' = taken \o SubSeq(inputBuffer, rd + 1, rd + k)
      /\ rd' = rd + k
      /\ UNCHANGED <<outVars, inputBuffer, received, conn, link, arrived, closedBy>>
    BY DEF Recv
<1>3. inputBuffer \in Seq(Nat) /\ rd \in 0..end /\ end \in Nat /\ taken \in Seq(Nat)
    BY <1>1, LenProperties DEF InTypes
<1>4. rd + k \in rd..end /\ rd + k \in 0..end /\ end \in (rd + k)..end
    BY <1>2, <1>3 DEF Unread
<1>5. /\ SubSeq(inputBuffer, rd + 1, rd + k) \in Seq(Nat)
      /\ SubSeq(inputBuffer, rd + k + 1, end) \in Seq(Nat)
    BY <1>3, <1>4, SubSeqType
<1>6. taken' \in Seq(Nat)
    BY <1>2, <1>3, <1>5, ConcatProperties
<1>7. InTypes'
    BY <1>1, <1>2, <1>4, <1>6 DEF InTypes
<1>8. InputInOrder'
  <2>1. SubSeq(inputBuffer, rd + 1, rd + k) \o SubSeq(inputBuffer, rd + k + 1, end)
          = SubSeq(inputBuffer, rd + 1, end)
    BY <1>3, <1>4, SubSeqSplit
  <2>2. taken' \o SubSeq(inputBuffer, rd + k + 1, end)
          = taken \o SubSeq(inputBuffer, rd + 1, end)
    <3>1. (taken \o SubSeq(inputBuffer, rd + 1, rd + k)) \o SubSeq(inputBuffer, rd + k + 1, end)
            = taken \o (SubSeq(inputBuffer, rd + 1, rd + k)
                          \o SubSeq(inputBuffer, rd + k + 1, end))
      BY <1>3, <1>5, Rejoin, Zenon
    <3> QED
      BY <3>1, <2>1, <1>2, Zenon
  <2> QED
    BY <2>2, <1>1, <1>2 DEF InputInOrder
<1>9. OutTypes' /\ LinkTypes' /\ OutInv'
    BY <1>1, <1>2, OutputAlone DEF OutTypes, LinkTypes, outVars
<1> QED
    BY <1>7, <1>8, <1>9, TypesNext DEF IInv

-----------------------------------------------------------------------------
(***************************************************************************)
(* Every step keeps the invariant.                                         *)
(***************************************************************************)
LEMMA StepIInv == IInv /\ [Next]_vars => IInv'
<1> SUFFICES ASSUME IInv, [Next]_vars PROVE IInv'
    OBVIOUS
<1>1. ASSUME NEW len \in Lengths, SendDirectly(len) PROVE IInv'
    BY <1>1, SendDirectlyKeeps
<1>2. ASSUME NEW len \in Lengths, SendQueued(len) PROVE IInv'
    BY <1>2, SendQueuedKeeps
<1>3. ASSUME NEW len \in Lengths, SendClosed(len) PROVE IInv'
    BY <1>3, SendClosedKeeps
<1>4. CASE HandleOutput
  <2>1. ASSUME NEW n \in 0..MaxOut, Output(n) PROVE IInv'
    <3>1. n \in Nat
      BY BoundAssumption
    <3> QED
      BY <2>1, <3>1, OutputKeeps
  <2> QED
    BY <2>1, <1>4, OutputIdleKeeps, OutputFailsKeeps DEF HandleOutput
<1>5. CASE HandleInput
  <2>1. ASSUME NEW n \in 1..Capacity, NEW k \in 0..Capacity, Input(n, k) PROVE IInv'
    <3>1. n \in Nat /\ k \in Nat
      BY SizeAssumption
    <3> QED
      BY <2>1, <3>1, InputKeeps
  <2> QED
    BY <2>1, <1>5, InputEndsKeeps DEF HandleInput
<1>6. ASSUME NEW k \in 1..Capacity, Recv(k) PROVE IInv'
  <2>1. k \in Nat
    BY SizeAssumption
  <2> QED
    BY <1>6, <2>1, RecvKeeps
<1>7. CASE CloseConnection
    BY <1>7, CloseConnectionKeeps
<1>8. CASE PeerSends \/ LinkEnds
    BY <1>8, PeerKeeps
<1>9. CASE UNCHANGED vars
    BY <1>9, StutterKeeps
<1> QED
    BY <1>1, <1>2, <1>3, <1>4, <1>5, <1>6, <1>7, <1>8, <1>9 DEF Next

(***************************************************************************)
(* The invariant holds in every state of every behaviour.                  *)
(***************************************************************************)
LEMMA IInvHolds == Spec => []IInv
<1> QED
    BY InitIInv, StepIInv, PTL DEF Spec

(***************************************************************************)
(* The output queue: its types, a wake-up whenever something is queued on  *)
(* an open connection, and less than one message past the high water mark. *)
(***************************************************************************)
THEOREM QueueHolds == Spec => []QueueInv
<1>1. IInv => QueueInv
    BY DEF IInv, OutInv, QueueInv
<1> QED
    BY <1>1, IInvHolds, PTL

(***************************************************************************)
(* The wire carries the accepted messages, whole, in order and once.       *)
(***************************************************************************)
THEOREM OutputIsInOrder == Spec => []OutputInOrder
<1>1. IInv => OutputInOrder
    BY DEF IInv, OutInv
<1> QED
    BY <1>1, IInvHolds, PTL

(***************************************************************************)
(* The owner reads what the peer sent, in order and each byte once.        *)
(***************************************************************************)
THEOREM InputIsInOrder == Spec => []InputInOrder
<1>1. IInv => InputInOrder
    BY DEF IInv
<1> QED
    BY <1>1, IInvHolds, PTL

(***************************************************************************)
(* A queue that refuses what was at its head has taken in a longer message *)
(* since.                                                                  *)
(***************************************************************************)
LEMMA RefusedBehindLonger ==
    ASSUME IInv, conn = "open", msgQueue # <<>>, curBytes - Head(msgQueue).size >= HighWater
    PROVE  Head(msgQueue).size < msgQueue[Len(msgQueue)].size
<1> DEFINE first == Head(msgQueue).size
           last == msgQueue[Len(msgQueue)].size
           m == Len(msgQueue)
<1>1. /\ m \in Nat \ {0} /\ msgQueue \in Seq(Blocks)
      /\ first \in Nat /\ curBytes \in Nat
    BY HeadOfQueue DEF IInv
<1>2. curBytes - last < HighWater
    BY DEF IInv, OutInv, TailFits
<1>3. last \in Nat
  <2>1. m \in 1..m
    BY <1>1
  <2>2. msgQueue[m] \in Blocks
    BY <1>1, <2>1, ElementOfSeq
  <2> QED
    BY <2>2, BlockSize
<1>4. curBytes - first >= HighWater /\ HighWater \in Nat
    BY SizeAssumption
<1> HIDE DEF first, last
<1>5. first < last
    BY <1>1, <1>2, <1>3, <1>4
<1> QED
    BY <1>5 DEF first, last

(***************************************************************************)
(* The limit closes a connection only behind a message that is longer than *)
(* the one being sent.                                                     *)
(***************************************************************************)
THEOREM LimitNeedsUnequal == Spec => LimitClosesOnlyUnequal
<1>1. IInv /\ [Next]_vars =>
        [closedBy' = "high water" /\ closedBy # "high water" =>
           Head(msgQueue).size < msgQueue[Len(msgQueue)].size]_vars
  <2> SUFFICES ASSUME IInv, Next, closedBy' = "high water", closedBy # "high water"
               PROVE  Head(msgQueue).size < msgQueue[Len(msgQueue)].size
    BY DEF vars
  <2>1. PICK n \in 0..MaxOut : Output(n)
    BY DEF Next, SendDirectly, SendQueued, SendClosed, HandleOutput, OutputIdle, OutputFails,
           HandleInput, Input, InputEnds, Recv, CloseConnection, PeerSends, LinkEnds, HandleClose
  <2>2. /\ msgQueue # <<>> /\ conn = "open"
        /\ curBytes - Head(msgQueue).size >= HighWater
    BY <2>1 DEF Output
  <2> QED
    BY <2>2, RefusedBehindLonger
<1> QED
    BY <1>1, IInvHolds, PTL DEF Spec, LimitClosesOnlyUnequal
=============================================================================
