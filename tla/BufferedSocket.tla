---------------------------- MODULE BufferedSocket ----------------------------
(***************************************************************************)
(* src/shared/SocketBuffer/BufferedSocket.cpp: a non-blocking connection   *)
(* with an output queue and an input buffer, run by one reactor thread.    *)
(* connectserver's CIOCP carries a variant of it, whose noblk_send waits   *)
(* for half a second and then fails where this one queues; that one is not *)
(* modelled.                                                               *)
(*                                                                         *)
(* Bytes of the outgoing stream are numbered in the order in which send    *)
(* takes them, those of the incoming stream in the order in which the peer *)
(* sends them; a message is the stretch of numbers it covers.  The ACE     *)
(* queue (its high water mark, its byte count, which goes by the full size *)
(* of a block whatever has been sent of it), the reactor and the kernel    *)
(* are external and modelled as this code uses them.  Starts when open()   *)
(* has registered the handler.                                             *)
(***************************************************************************)
EXTENDS Naturals, Sequences

CONSTANTS
    HighWater,          \* high_water_mark of msg_queue()
    Capacity,           \* input_buffer_(4096)
    Lengths,            \* lengths of messages
    MaxOut, MaxIn       \* bounds: bytes of either stream

ASSUME SizeAssumption == HighWater \in Nat \ {0} /\ Capacity \in Nat \ {0}
ASSUME LengthAssumption == Lengths \subseteq Nat \ {0}
ASSUME BoundAssumption == MaxOut \in Nat /\ MaxIn \in Nat

VARIABLES
    msgQueue,           \* msg_queue(): blocks [from, to, size], from is rd_ptr
    curBytes,           \* its byte count
    wakeup,             \* WRITE_MASK is set in the reactor
    conn,               \* "open", "closed" by close_connection, "gone": handle_close
    link,               \* "up", "eof" from the peer, "broken"
    inputBuffer, rd,    \* input_buffer_ up to wr_ptr, and rd_ptr in it
    total,              \* bytes that send has taken
    wire,               \* bytes handed to the kernel, in order
    arrived,            \* bytes the peer has sent
    received,           \* of these, read into the buffer
    taken,              \* bytes the owner has read, in order
    closedBy            \* history: why handle_close was called

outVars == <<msgQueue, curBytes, wakeup, total, wire>>
inVars == <<inputBuffer, rd, received, taken>>
vars == <<outVars, inVars, conn, link, arrived, closedBy>>

Init ==
    /\ msgQueue = <<>> /\ curBytes = 0 /\ wakeup = FALSE /\ total = 0 /\ wire = <<>>
    /\ inputBuffer = <<>> /\ rd = 0 /\ received = 0 /\ taken = <<>>
    /\ conn = "open" /\ link = "up" /\ arrived = 0 /\ closedBy = "nothing"

\* The bytes after `from`, n of them.
Bytes(from, n) == [i \in 1..n |-> from + i]

\* Mutant: no limit.
NeverFull == FALSE

Full == curBytes >= HighWater

\* Mutant: rd_ptr is not advanced past what was sent directly.
WholeBlock(n, len) == [from |-> total + 1, to |-> total + len, size |-> len]

\* A message of len bytes of which n are gone.
Block(n, len) == [from |-> total + n + 1, to |-> total + len, size |-> len]

-----------------------------------------------------------------------------
\* send: directly if nothing is queued, and the rest goes into the queue.
SendDirectly(len) ==
    /\ conn = "open" /\ link # "broken"
    /\ msgQueue = <<>> /\ total + len <= MaxOut
    /\ \E n \in 0..len :
        /\ wire' = wire \o Bytes(total, n)
        /\ IF n = len THEN UNCHANGED <<msgQueue, curBytes, wakeup>>
           ELSE /\ msgQueue' = <<Block(n, len)>>
                /\ curBytes' = len
                /\ wakeup' = TRUE
    /\ total' = total + len
    /\ UNCHANGED <<inVars, conn, link, arrived, closedBy>>

\* enqueue_tail and schedule_wakeup; a queue at its high water mark refuses.
SendQueued(len) ==
    /\ conn = "open"
    /\ msgQueue # <<>> /\ ~Full /\ total + len <= MaxOut
    /\ msgQueue' = Append(msgQueue, Block(0, len))
    /\ curBytes' = curBytes + len
    /\ wakeup' = TRUE
    /\ total' = total + len
    /\ UNCHANGED <<wire, inVars, conn, link, arrived, closedBy>>

\* After close_connection the reactor does not know the handler: send answers
\* false, and what it has put into the queue stays there.
SendClosed(len) ==
    /\ conn = "closed" /\ msgQueue # <<>> /\ ~Full
    /\ msgQueue' = Append(msgQueue, Block(0, len))
    /\ curBytes' = curBytes + len
    /\ UNCHANGED <<wakeup, total, wire, inVars, conn, link, arrived, closedBy>>

\* A handler answered -1: handle_close.
HandleClose(why) ==
    /\ conn' = "gone" /\ closedBy' = why
    /\ wakeup' = FALSE /\ msgQueue' = <<>> /\ curBytes' = 0

\* Mutant: cancelled as soon as one message is out.
OutputIdleEarly ==
    /\ conn = "open" /\ wakeup /\ Len(msgQueue) <= 1
    /\ wakeup' = FALSE
    /\ UNCHANGED <<msgQueue, curBytes, total, wire, inVars, conn, link, arrived, closedBy>>

\* Nothing to send: the notification is cancelled.
OutputIdle ==
    /\ conn = "open" /\ wakeup /\ msgQueue = <<>>
    /\ wakeup' = FALSE
    /\ UNCHANGED <<msgQueue, curBytes, total, wire, inVars, conn, link, arrived, closedBy>>

\* Mutants: the rest goes to the tail; the block that was dequeued still counts.
OutputToTail(n) ==
    LET mb == Head(msgQueue) IN
    /\ conn = "open" /\ wakeup /\ msgQueue # <<>> /\ link # "broken"
    /\ n <= mb.to + 1 - mb.from
    /\ wire' = wire \o Bytes(mb.from - 1, n)
    /\ msgQueue' = IF mb.from + n > mb.to THEN Tail(msgQueue)
                   ELSE Append(Tail(msgQueue), [mb EXCEPT !.from = @ + n])
    /\ curBytes' = IF mb.from + n > mb.to THEN curBytes - mb.size ELSE curBytes
    /\ UNCHANGED <<wakeup, conn, closedBy, total, inVars, link, arrived>>

OutputCountsHead(n) ==
    LET mb == Head(msgQueue) IN
    /\ conn = "open" /\ wakeup /\ msgQueue # <<>> /\ link # "broken"
    /\ n <= mb.to + 1 - mb.from
    /\ wire' = wire \o Bytes(mb.from - 1, n)
    /\ IF mb.from + n > mb.to
       THEN msgQueue' = Tail(msgQueue) /\ curBytes' = curBytes - mb.size
            /\ UNCHANGED <<wakeup, conn, closedBy>>
       ELSE IF Full THEN HandleClose("high water")
       ELSE /\ msgQueue' = [msgQueue EXCEPT ![1].from = @ + n]
            /\ UNCHANGED <<curBytes, wakeup, conn, closedBy>>
    /\ UNCHANGED <<total, inVars, link, arrived>>

\* The head goes out, or n bytes of it and the rest back to the head, which a
\* queue that is full without it refuses.
Output(n) ==
    LET mb == Head(msgQueue) IN
    /\ conn = "open" /\ wakeup /\ msgQueue # <<>> /\ link # "broken"
    /\ n <= mb.to + 1 - mb.from
    /\ wire' = wire \o Bytes(mb.from - 1, n)
    /\ IF mb.from + n > mb.to
       THEN /\ msgQueue' = Tail(msgQueue) /\ curBytes' = curBytes - mb.size
            /\ UNCHANGED <<wakeup, conn, closedBy>>
       ELSE IF curBytes - mb.size >= HighWater
       THEN HandleClose("high water")
       ELSE /\ msgQueue' = [msgQueue EXCEPT ![1].from = @ + n]
            /\ UNCHANGED <<curBytes, wakeup, conn, closedBy>>
    /\ UNCHANGED <<total, inVars, link, arrived>>

OutputFails ==
    /\ conn = "open" /\ wakeup /\ msgQueue # <<>> /\ link = "broken"
    /\ HandleClose("error")
    /\ UNCHANGED <<total, wire, inVars, link, arrived>>

-----------------------------------------------------------------------------
Space == Capacity - Len(inputBuffer)
Unread == Len(inputBuffer) - rd

\* Mutant: crunch leaves rd_ptr where it was.
InputNoCrunch(n, k) ==
    LET filled == inputBuffer \o Bytes(received, n) IN
    /\ conn = "open" /\ link # "broken"
    /\ n \in 1..Space /\ received + n <= arrived
    /\ k \in 0..(Unread + n)
    /\ received' = received + n
    /\ taken' = taken \o SubSeq(filled, rd + 1, rd + k)
    /\ inputBuffer' = SubSeq(filled, rd + k + 1, Len(filled))
    /\ rd' = IF k = 0 THEN rd ELSE 0
    /\ UNCHANGED <<outVars, conn, link, arrived, closedBy>>

\* handle_input: recv, OnRead, which reads k bytes, and crunch.
Input(n, k) ==
    LET filled == inputBuffer \o Bytes(received, n) IN
    /\ conn = "open" /\ link # "broken"
    /\ n \in 1..Space /\ received + n <= arrived
    /\ k \in 0..(Unread + n)
    /\ received' = received + n
    /\ taken' = taken \o SubSeq(filled, rd + 1, rd + k)
    /\ inputBuffer' = SubSeq(filled, rd + k + 1, Len(filled))
    /\ rd' = 0
    /\ UNCHANGED <<outVars, conn, link, arrived, closedBy>>

\* recv answers 0 at the end of the stream, and also when asked for no bytes: an
\* OnRead that leaves a full buffer answers 1 and is called again.
InputEnds ==
    /\ conn = "open"
    /\ \/ link = "broken" /\ HandleClose("error")
       \/ link = "eof" /\ received = arrived /\ HandleClose("eof")
       \/ link # "broken" /\ Space = 0 /\ HandleClose("no space")
    /\ UNCHANGED <<total, wire, inVars, link, arrived>>

\* The owner reads k bytes outside OnRead: recv, which does not crunch.  Behind
\* it is recv_skip, public and without a check, which nothing else calls.
Recv(k) ==
    /\ conn # "gone" /\ k \in 1..Unread
    /\ taken' = taken \o SubSeq(inputBuffer, rd + 1, rd + k)
    /\ rd' = rd + k
    /\ UNCHANGED <<outVars, inputBuffer, received, conn, link, arrived, closedBy>>

\* close_connection: both directions shut, the handler removed without a call.
CloseConnection ==
    /\ conn = "open"
    /\ conn' = "closed" /\ wakeup' = FALSE
    /\ UNCHANGED <<msgQueue, curBytes, total, wire, inVars, link, arrived, closedBy>>

\* The other side.
PeerSends ==
    /\ link = "up" /\ arrived < MaxIn
    /\ arrived' = arrived + 1
    /\ UNCHANGED <<outVars, inVars, conn, link, closedBy>>

LinkEnds ==
    /\ \/ link = "up" /\ link' = "eof"
       \/ link # "broken" /\ link' = "broken"
    /\ UNCHANGED <<outVars, inVars, conn, arrived, closedBy>>

HandleOutput == OutputIdle \/ OutputFails \/ \E n \in 0..MaxOut : Output(n)
HandleInput == InputEnds \/ \E n \in 1..Capacity, k \in 0..Capacity : Input(n, k)

Next ==
    \/ \E len \in Lengths : SendDirectly(len) \/ SendQueued(len) \/ SendClosed(len)
    \/ HandleOutput \/ HandleInput
    \/ \E k \in 1..Capacity : Recv(k)
    \/ CloseConnection \/ PeerSends \/ LinkEnds

Spec == Init /\ [][Next]_vars

\* The reactor calls the handlers of a socket that is ready, and a peer that has
\* not gone makes room: a call for output moves a byte or fails.
Progress == OutputIdle \/ OutputFails \/ \E n \in 1..MaxOut : Output(n)
FairSpec == Spec /\ WF_vars(Progress) /\ WF_vars(HandleInput)

-----------------------------------------------------------------------------
TypeOK ==
    /\ msgQueue \in Seq([from : Nat, to : Nat, size : Lengths])
    /\ curBytes \in Nat /\ wakeup \in BOOLEAN
    /\ conn \in {"open", "closed", "gone"} /\ link \in {"up", "eof", "broken"}
    /\ inputBuffer \in Seq(Nat) /\ rd \in 0..Len(inputBuffer) /\ Len(inputBuffer) <= Capacity
    /\ total \in 0..MaxOut /\ wire \in Seq(Nat)
    /\ arrived \in 0..MaxIn /\ received \in 0..arrived /\ taken \in Seq(Nat)
    /\ closedBy \in {"nothing", "error", "eof", "no space", "high water"}

(***************************************************************************)
(* The wire carries the bytes of the accepted messages, each once and in   *)
(* the order of the calls of send, whatever part of a message goes out     *)
(* directly, later or in pieces; while the connection is open, what send   *)
(* has taken and the wire has not is what the queue still holds.           *)
(***************************************************************************)
OutputInOrder ==
    /\ wire = Bytes(0, Len(wire))
    /\ conn = "open" =>
         /\ \A i \in 1..Len(msgQueue) :
               msgQueue[i].from = IF i = 1 THEN Len(wire) + 1 ELSE msgQueue[i - 1].to + 1
         /\ total = IF msgQueue = <<>> THEN Len(wire) ELSE msgQueue[Len(msgQueue)].to

(***************************************************************************)
(* No lost wake-up: while something is queued on an open connection, the   *)
(* reactor is going to call handle_output.                                 *)
(***************************************************************************)
WakeupScheduled == conn = "open" /\ msgQueue # <<>> => wakeup

(***************************************************************************)
(* The queue may pass the high water mark, by less than one message; also  *)
(* on a connection that is closed and never sends again.                   *)
(***************************************************************************)
QueueBounded ==
    curBytes = 0 \/ \E len \in Lengths : curBytes < HighWater + len

\* The output queue, in well-typed states.
QueueInv == TypeOK /\ WakeupScheduled /\ QueueBounded

(***************************************************************************)
(* What the owner reads is what the peer sent, in order and each byte      *)
(* once, however reads and moves of the buffer alternate.                  *)
(***************************************************************************)
InputInOrder ==
    taken \o SubSeq(inputBuffer, rd + 1, Len(inputBuffer)) = Bytes(0, received)

(***************************************************************************)
(* The queue's own limit closes a connection (the rest of a partial write  *)
(* cannot be put back), but only behind a message that is longer than the  *)
(* one being sent: messages of one size never close their connection.      *)
(***************************************************************************)
LimitClosesOnlyUnequal ==
    [][closedBy' = "high water" /\ closedBy # "high water" =>
         Head(msgQueue).size < msgQueue[Len(msgQueue)].size]_vars

(***************************************************************************)
(* A byte that send has taken reaches the wire unless the connection ends. *)
(***************************************************************************)
AcceptedIsSent ==
    \A k \in 1..MaxOut : total >= k ~> (Len(wire) >= k \/ conn # "open")
=============================================================================
