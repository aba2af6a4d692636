----------------------------- MODULE FifoQueue -----------------------------
(***************************************************************************)
(* What every queue class of src/shared/Threading promises its callers,    *)
(* whatever its locking: values leave in the order in which they entered,  *)
(* each at most once, and a value is thrown away only when the whole queue *)
(* is.  ProducerConsumerQueue and MPSCQueue are shown to implement it.     *)
(***************************************************************************)
EXTENDS Sequences

CONSTANT Value          \* what the queue carries (pointers to operations)

VARIABLES
    items,              \* accepted and not yet handed out
    taken               \* handed out, in the order in which they were

Init == items = <<>> /\ taken = <<>>

Put(v) == items' = Append(items, v) /\ UNCHANGED taken

Take ==
    /\ items # <<>>
    /\ items' = Tail(items)
    /\ taken' = Append(taken, Head(items))

\* The queue is emptied without its values being handed out.
Discard == items' = <<>> /\ UNCHANGED taken

Next == (\E v \in Value : Put(v)) \/ Take \/ Discard

Spec == Init /\ [][Next]_<<items, taken>>
=============================================================================
