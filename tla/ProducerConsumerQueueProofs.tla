--------------------- MODULE ProducerConsumerQueueProofs ---------------------
(***************************************************************************)
(* Proofs about ProducerConsumerQueue, for any set of values and any       *)
(* finite set of consumer threads.  One inductive invariant carries all of *)
(* them: the typing, the two facts about sleepers, the order of the        *)
(* history, and that a Cancel that deleted something has shut the queue    *)
(* down.                                                                   *)
(***************************************************************************)
EXTENDS ProducerConsumerQueue, FiniteSetTheorems, SequenceTheorems, TLAPS

(***************************************************************************)
(* Only Cancel deletes values, and Cancel shuts the queue down.            *)
(***************************************************************************)
DroppedMeansShutdown == dropped # <<>> => shutdown

(***************************************************************************)
(* A thread that has been notified does not sleep.                         *)
(***************************************************************************)
NotifiedIsAwake == waiting \cap woken = {}

(***************************************************************************)
(* The inductive invariant. NoLostWakeup alone is not inductive: a notify  *)
(* adds to the woken threads only if the sleeper was not one of them       *)
(* (NotifiedIsAwake), and a thread leaves with nothing only after a        *)
(* shutdown, when nobody sleeps (NobodySleepsAfterCancel).                 *)
(* AccountedInOrder needs that nothing is popped once Cancel has deleted   *)
(* something (DroppedMeansShutdown).                                       *)
(***************************************************************************)
IInv ==
    /\ TypeOK
    /\ NoLostWakeup
    /\ NobodySleepsAfterCancel
    /\ DroppedMeansShutdown
    /\ NotifiedIsAwake
    /\ AccountedInOrder

-----------------------------------------------------------------------------
(***************************************************************************)
(* The woken threads are finitely many, so they can be counted, and adding *)
(* or removing one changes the count by one.                               *)
(***************************************************************************)
LEMMA WokenCount ==
    ASSUME NEW W, W \subseteq Consumer, NEW c \in Consumer
    PROVE  /\ IsFiniteSet(W)
           /\ Cardinality(W) \in Nat
           /\ c \in W => Cardinality(W \ {c}) = Cardinality(W) - 1
           /\ c \notin W => /\ W \ {c} = W
                            /\ Cardinality(W \cup {c}) = Cardinality(W) + 1
<1>1. IsFiniteSet(W)
    BY ConsumerAssumption, FS_Subset
<1>2. Cardinality(W) \in Nat
    BY <1>1, FS_CardinalityType
<1>3. c \in W => Cardinality(W \ {c}) = Cardinality(W) - 1
    BY <1>1, FS_RemoveElement
<1>4. c \notin W => Cardinality(W \cup {c}) = Cardinality(W) + 1
    BY <1>1, FS_AddElement
<1> QED
    BY <1>1, <1>2, <1>3, <1>4

(***************************************************************************)
(* A sequence is its head followed by its tail, so moving the head to the  *)
(* end of what precedes it keeps the whole.                                *)
(***************************************************************************)
LEMMA MoveHead ==
    ASSUME NEW S, NEW p \in Seq(S), NEW q \in Seq(S), q # <<>>
    PROVE  Append(p, Head(q)) \o Tail(q) = p \o q
<1> DEFINE h == Head(q)
           t == Tail(q)
<1>1. h \in S /\ t \in Seq(S)
    BY HeadTailProperties
<1>2. Append(p, h) = p \o <<h>>
    BY <1>1, AppendIsConcat
<1>3. <<h>> \in Seq(S)
    BY <1>1
<1>4. (p \o <<h>>) \o t = p \o (<<h>> \o t)
    BY <1>1, <1>3, ConcatAssociative
<1>5. <<h>> \o t = q
  <2>1. /\ <<h>> \o t \in Seq(S)
        /\ Len(<<h>> \o t) = 1 + Len(t)
        /\ \A i \in 1..1 + Len(t) : (<<h>> \o t)[i] = IF i <= 1 THEN h ELSE t[i - 1]
    BY <1>1, <1>3, ConcatProperties
  <2>2. Len(t) = Len(q) - 1 /\ \A i \in 1..Len(t) : t[i] = q[i + 1]
    BY HeadTailProperties
  <2>3. Len(q) \in Nat \ {0} /\ h = q[1]
    BY EmptySeq
  <2>4. \A i \in 1..Len(<<h>> \o t) : (<<h>> \o t)[i] = q[i]
    BY <2>1, <2>2, <2>3
  <2> QED
    BY <2>1, <2>2, <2>3, <2>4, SeqEqual
<1> QED
    BY <1>2, <1>4, <1>5

(***************************************************************************)
(* Appending to the last of three concatenated sequences appends to the    *)
(* whole.                                                                  *)
(***************************************************************************)
LEMMA AppendToLast ==
    ASSUME NEW S, NEW p \in Seq(S), NEW d \in Seq(S), NEW q \in Seq(S), NEW v \in S
    PROVE  p \o d \o Append(q, v) = Append(p \o d \o q, v)
<1>1. <<v>> \in Seq(S) /\ p \o d \in Seq(S) /\ p \o d \o q \in Seq(S)
    BY ConcatProperties
<1>2. Append(q, v) = q \o <<v>> /\ Append(p \o d \o q, v) = (p \o d \o q) \o <<v>>
    BY <1>1, AppendIsConcat
<1> QED
    BY <1>1, <1>2, ConcatAssociative

-----------------------------------------------------------------------------
(***************************************************************************)
(* The new queue satisfies the invariant: everything is empty.             *)
(***************************************************************************)
LEMMA InitIInv == Init => IInv
<1> SUFFICES ASSUME Init PROVE IInv
    OBVIOUS
<1> USE DEF Init
<1>1. TypeOK
    BY EmptySeq DEF TypeOK
<1>2. AccountedInOrder
    BY EmptySeq, ConcatEmptySeq DEF AccountedInOrder
<1> QED
    BY <1>1, <1>2
    DEF IInv, NoLostWakeup, NobodySleepsAfterCancel, DroppedMeansShutdown, NotifiedIsAwake

(***************************************************************************)
(* Push adds one value and, if anybody sleeps, one woken thread.           *)
(***************************************************************************)
LEMMA PushKeepsIInv ==
    ASSUME IInv, NEW v \in Value, Push(v)
    PROVE  IInv'
<1> USE DEF IInv, TypeOK
<1>1. queue' \in Seq(Value) /\ pushed' \in Seq(Value) /\ Len(queue') = Len(queue) + 1
    BY AppendProperties DEF Push
<1>2. TypeOK'
    BY <1>1 DEF Push, NotifyOne
<1>3. NoLostWakeup'
  <2>1. CASE waiting = {}
    BY <2>1 DEF Push, NotifyOne, NoLostWakeup
  <2>2. CASE waiting # {}
    <3>1. PICK c \in waiting : waiting' = waiting \ {c} /\ woken' = woken \cup {c}
      BY <2>2 DEF Push, NotifyOne
    <3>2. Len(queue) <= Cardinality(woken)
      BY <2>2 DEF NoLostWakeup
    <3>3. c \in Consumer /\ c \notin woken
      BY <3>1 DEF NotifiedIsAwake
    <3>4. Cardinality(woken') = Cardinality(woken) + 1 /\ Cardinality(woken) \in Nat
      BY <3>1, <3>3, WokenCount
    <3> QED
      BY <1>1, <3>2, <3>4, LenProperties DEF NoLostWakeup
  <2> QED
    BY <2>1, <2>2
<1>4. NobodySleepsAfterCancel'
    BY DEF Push, NotifyOne, NobodySleepsAfterCancel
<1>5. DroppedMeansShutdown'
    BY DEF Push, DroppedMeansShutdown
<1>6. NotifiedIsAwake'
    BY DEF Push, NotifyOne, NotifiedIsAwake
<1>7. AccountedInOrder'
    BY AppendToLast DEF Push, AccountedInOrder
<1> QED
    BY <1>2, <1>3, <1>4, <1>5, <1>6, <1>7

(***************************************************************************)
(* WaitAndPop, whether the thread calls it or resumes in it; Pop is one of *)
(* its three ways.                                                         *)
(***************************************************************************)
LEMMA PopFrontKeepsIInv ==
    ASSUME IInv, NEW c \in Consumer, PopFront(c), c \notin waiting
    PROVE  IInv'
<1> USE DEF IInv, TypeOK
<1>1. /\ Head(queue) \in Value /\ queue' \in Seq(Value) /\ popped' \in Seq(Value)
      /\ Len(queue') = Len(queue) - 1 /\ Len(queue) \in Nat
    BY HeadTailProperties, AppendProperties, LenProperties DEF PopFront
<1>2. TypeOK'
    BY <1>1 DEF PopFront
<1>3. NoLostWakeup'
  <2>1. waiting = waiting' /\ (waiting # {} => Len(queue) <= Cardinality(woken))
    BY DEF PopFront, NoLostWakeup
  <2>2. /\ Cardinality(woken) \in Nat /\ Cardinality(woken') \in Nat
        /\ Cardinality(woken') \in {Cardinality(woken), Cardinality(woken) - 1}
    BY WokenCount DEF PopFront
  <2>3. CASE c \in woken
    BY <1>1, <2>1, <2>2, <2>3 DEF NoLostWakeup
  <2>4. CASE c \notin woken
    <3>1. woken' = woken
      BY <2>4 DEF PopFront
    <3> QED
      BY <1>1, <2>1, <2>2, <3>1 DEF NoLostWakeup
  <2> QED
    BY <2>3, <2>4
<1>4. NobodySleepsAfterCancel' /\ DroppedMeansShutdown' /\ NotifiedIsAwake'
    BY DEF PopFront, NobodySleepsAfterCancel, DroppedMeansShutdown, NotifiedIsAwake
<1>5. AccountedInOrder'
  <2>1. dropped = <<>> /\ dropped' = <<>>
    BY DEF PopFront, DroppedMeansShutdown
  <2>2. popped' \o queue' = popped \o queue
    BY MoveHead DEF PopFront
  <2> QED
    BY <1>1, <2>1, <2>2, ConcatEmptySeq DEF PopFront, AccountedInOrder
<1> QED
    BY <1>2, <1>3, <1>4, <1>5

(***************************************************************************)
(* The body of WaitAndPop, entered or resumed, keeps the invariant: a      *)
(* thread goes to sleep only on an empty queue that is not shut down.      *)
(***************************************************************************)
LEMMA WaitAndPopKeepsIInv ==
    ASSUME IInv, NEW c \in Consumer, WaitAndPop(c), c \notin waiting
    PROVE  IInv'
<1> USE DEF IInv, TypeOK
<1>1. CASE Sleep(c)
  <2>1. NoLostWakeup'
    <3>1. queue' = <<>> /\ woken' \subseteq Consumer
      BY <1>1 DEF Sleep
    <3>2. Len(queue') = 0 /\ Cardinality(woken') \in Nat
      BY <3>1, WokenCount, EmptySeq
    <3> QED
      BY <3>2 DEF NoLostWakeup
  <2> QED
    BY <1>1, <2>1
    DEF Sleep, history, NobodySleepsAfterCancel, DroppedMeansShutdown, NotifiedIsAwake,
        AccountedInOrder
<1>2. CASE ReturnNothing(c)
    BY <1>2
    DEF ReturnNothing, history, NoLostWakeup, NobodySleepsAfterCancel,
        DroppedMeansShutdown, NotifiedIsAwake, AccountedInOrder
<1>3. CASE PopFront(c)
    BY <1>3, PopFrontKeepsIInv
<1> QED
    BY <1>1, <1>2, <1>3 DEF WaitAndPop

(***************************************************************************)
(* A spurious wake-up only adds to the woken threads.                      *)
(***************************************************************************)
LEMMA SpuriousWakeupKeepsIInv ==
    ASSUME IInv, NEW c \in Consumer, SpuriousWakeup(c)
    PROVE  IInv'
<1> USE DEF IInv, TypeOK
<1>1. NoLostWakeup'
  <2>1. c \notin woken /\ Len(queue) <= Cardinality(woken)
    BY DEF SpuriousWakeup, NotifiedIsAwake, NoLostWakeup
  <2>2. Cardinality(woken') = Cardinality(woken) + 1 /\ Cardinality(woken) \in Nat
    BY <2>1, WokenCount DEF SpuriousWakeup
  <2> QED
    BY <2>1, <2>2, LenProperties DEF SpuriousWakeup, NoLostWakeup
<1> QED
    BY <1>1
    DEF SpuriousWakeup, history, NobodySleepsAfterCancel, DroppedMeansShutdown,
        NotifiedIsAwake, AccountedInOrder

(***************************************************************************)
(* Cancel empties the queue into the history and leaves nobody asleep.     *)
(***************************************************************************)
LEMMA CancelKeepsIInv ==
    ASSUME IInv, Cancel
    PROVE  IInv'
<1> USE DEF IInv, TypeOK
<1>1. queue' = <<>> /\ dropped' \in Seq(Value)
    BY ConcatProperties DEF Cancel
<1>2. TypeOK'
    BY <1>1, EmptySeq DEF Cancel, NotifyAll
<1>3. NoLostWakeup' /\ NobodySleepsAfterCancel' /\ DroppedMeansShutdown' /\ NotifiedIsAwake'
    BY DEF Cancel, NotifyAll, NoLostWakeup, NobodySleepsAfterCancel,
           DroppedMeansShutdown, NotifiedIsAwake
<1>4. AccountedInOrder'
  <2>1. popped \o (dropped \o queue) = popped \o dropped \o queue
    BY ConcatAssociative
  <2>2. popped \o (dropped \o queue) \in Seq(Value)
    BY ConcatProperties
  <2> QED
    BY <2>1, <2>2, ConcatEmptySeq DEF Cancel, AccountedInOrder
<1> QED
    BY <1>2, <1>3, <1>4

(***************************************************************************)
(* The invariant holds in every reachable state.                           *)
(***************************************************************************)
THEOREM Invariance == Spec => []IInv
<1>1. IInv /\ [Next]_vars => IInv'
  <2> SUFFICES ASSUME IInv, [Next]_vars PROVE IInv'
    OBVIOUS
  <2>1. ASSUME NEW v \in Value, Push(v) PROVE IInv'
    BY <2>1, PushKeepsIInv
  <2>2. ASSUME NEW c \in Consumer, Enter(c) PROVE IInv'
    BY <2>2, WaitAndPopKeepsIInv DEF Enter, Inside
  <2>3. ASSUME NEW c \in Consumer, Resume(c) PROVE IInv'
    BY <2>3, WaitAndPopKeepsIInv DEF Resume, IInv, NotifiedIsAwake
  <2>4. ASSUME NEW c \in Consumer, SpuriousWakeup(c) PROVE IInv'
    BY <2>4, SpuriousWakeupKeepsIInv
  <2>5. ASSUME NEW c \in Consumer, Pop(c) PROVE IInv'
    BY <2>5, PopFrontKeepsIInv DEF Pop, Inside
  <2>6. CASE Cancel
    BY <2>6, CancelKeepsIInv
  <2>7. CASE UNCHANGED vars
    BY <2>7
    DEF vars, IInv, TypeOK, NoLostWakeup, NobodySleepsAfterCancel,
        DroppedMeansShutdown, NotifiedIsAwake, AccountedInOrder
  <2> QED
    BY <2>1, <2>2, <2>3, <2>4, <2>5, <2>6, <2>7 DEF Next
<1> QED
    BY InitIInv, <1>1, PTL DEF Spec

(***************************************************************************)
(* Every variable keeps its type.                                          *)
(***************************************************************************)
THEOREM TypeCorrect == Spec => []TypeOK
    BY Invariance, PTL DEF IInv

(***************************************************************************)
(* While a consumer sleeps un-notified, each queued value has a notified   *)
(* thread of its own: Push's single notify_one loses no wake-up, however   *)
(* many threads there are and whoever takes the value first.               *)
(***************************************************************************)
THEOREM WakeupsSuffice == Spec => []NoLostWakeup
    BY Invariance, PTL DEF IInv

(***************************************************************************)
(* Nobody sleeps once Cancel has run, so ~DatabaseWorker's join ends.      *)
(***************************************************************************)
THEOREM CancelWakesAll == Spec => []NobodySleepsAfterCancel
    BY Invariance, PTL DEF IInv

(***************************************************************************)
(* What was pushed is, in order, what was popped, then what Cancel         *)
(* deleted, then what is queued: nothing is lost, doubled or overtaken.    *)
(***************************************************************************)
THEOREM Conservation == Spec => []AccountedInOrder
    BY Invariance, PTL DEF IInv

(***************************************************************************)
(* After the shutdown nothing is handed out and the flag stays.            *)
(***************************************************************************)
THEOREM FinalShutdown == Spec => ShutdownIsFinal
<1>1. [Next]_vars => [shutdown => shutdown' /\ popped' = popped]_vars
    BY DEF Next, Push, Enter, Resume, SpuriousWakeup, Pop, WaitAndPop, Sleep,
           ReturnNothing, PopFront, Cancel, history, vars
<1> QED
    BY <1>1, PTL DEF Spec, ShutdownIsFinal

(***************************************************************************)
(* The class implements the abstract first-in first-out queue.             *)
(***************************************************************************)
THEOREM ImplementsFifo == Spec => FifoSpec
<1>1. Init => Fifo!Init
    BY DEF Init, Fifo!Init
<1>2. [Next]_vars => [Fifo!Next]_<<queue, popped>>
  <2> SUFFICES ASSUME [Next]_vars PROVE [Fifo!Next]_<<queue, popped>>
    OBVIOUS
  <2>1. ASSUME NEW v \in Value, Push(v) PROVE Fifo!Put(v)
    BY <2>1 DEF Push, Fifo!Put
  <2>2. ASSUME NEW c \in Consumer, PopFront(c) PROVE Fifo!Take
    BY <2>2 DEF PopFront, Fifo!Take
  <2>3. ASSUME NEW c \in Consumer, Sleep(c) \/ ReturnNothing(c) \/ SpuriousWakeup(c)
        PROVE  UNCHANGED <<queue, popped>>
    BY <2>3 DEF Sleep, ReturnNothing, SpuriousWakeup, history
  <2>4. Cancel => Fifo!Discard
    BY DEF Cancel, Fifo!Discard
  <2>5. UNCHANGED vars => UNCHANGED <<queue, popped>>
    BY DEF vars
  <2> QED
    BY <2>1, <2>2, <2>3, <2>4, <2>5 DEF Next, Enter, Resume, Pop, WaitAndPop, Fifo!Next
<1> QED
    BY <1>1, <1>2, PTL DEF Spec, FifoSpec, Fifo!Spec
=============================================================================
