----------------------- MODULE QueryCallbackProcessor -----------------------
(***************************************************************************)
(* src/shared/Database/Database/QueryCallbackProcessor.cpp and             *)
(* QueryCallback.cpp: how the answer of an asynchronous query comes back   *)
(* to the thread that asked.                                               *)
(*                                                                         *)
(* A QueryCallback is a chain: the future of one query and a queue of      *)
(* callbacks.  ProcessReadyQueries moves the vector _callbacks out, asks   *)
(* every chain InvokeIfReady, drops the completed ones and puts the others *)
(* back behind what the callbacks added meanwhile: a callback may call     *)
(* SetNextQuery on its own chain and AddQuery on the processor.  Workers   *)
(* satisfy the promises between any two steps of the pass.                 *)
(***************************************************************************)
EXTENDS Naturals, Sequences, FiniteSets, SequencesExt

CONSTANTS
    Chain,              \* the QueryCallback objects
    Length              \* Length[c]: callbacks attached to c by With...Callback

ASSUME LengthAssumption == Length \in [Chain -> Nat \ {0}]

VARIABLES
    callbacks,          \* _callbacks
    updateCallbacks,    \* what the running pass has not looked at yet
    kept,               \* what it has looked at and will put back
    inPass,             \* ProcessReadyQueries is running
    popped,             \* callbacks popped from each chain's queue
    valid,              \* its future is valid()
    answers,            \* its queries in order: pending, value or broken
    ended,              \* history: "no", "completed" or "destroyed"
    called              \* history: of each chain, <<callback, query>> in order

vars == <<callbacks, updateCallbacks, kept, inPass, popped, valid, answers, ended, called>>

Init ==
    /\ callbacks = <<>> /\ updateCallbacks = <<>> /\ kept = <<>>
    /\ inPass = FALSE
    /\ popped = [c \in Chain |-> 0]
    /\ valid = [c \in Chain |-> FALSE]
    /\ answers = [c \in Chain |-> <<>>]
    /\ ended = [c \in Chain |-> "no"]
    /\ called = [c \in Chain |-> <<>>]

Fresh(c) == answers[c] = <<>>
Answer(c) == IF valid[c] THEN Last(answers[c]) ELSE "none"

\* Mutant: wait_for(0) is not asked.
ReadyWhenValid(c) == valid[c]

\* valid() and wait_for(0) says ready: a value or an exception is there.
Ready(c) == Answer(c) \in {"value", "broken"}

-----------------------------------------------------------------------------
\* The thread asks a query, outside any pass.
AddQuery(c) ==
    /\ ~inPass /\ Fresh(c)
    /\ callbacks' = Append(callbacks, c)
    /\ valid' = [valid EXCEPT ![c] = TRUE]
    /\ answers' = [answers EXCEPT ![c] = <<"pending">>]
    /\ UNCHANGED <<updateCallbacks, kept, inPass, popped, ended, called>>

\* A worker sets the result, or deletes the task without having run it.
WorkerAnswers(c) ==
    /\ Answer(c) = "pending"
    /\ \E a \in {"value", "broken"} : answers' = [answers EXCEPT ![c][Len(answers[c])] = a]
    /\ UNCHANGED <<callbacks, updateCallbacks, kept, inPass, popped, valid, ended, called>>

\* ProcessReadyQueries.
StartPass ==
    /\ ~inPass /\ callbacks # <<>>
    /\ updateCallbacks' = callbacks
    /\ callbacks' = <<>>
    /\ inPass' = TRUE
    /\ UNCHANGED <<kept, popped, valid, answers, ended, called>>

NotReady ==
    /\ inPass /\ updateCallbacks # <<>>
    /\ ~Ready(Head(updateCallbacks))
    /\ updateCallbacks' = Tail(updateCallbacks)
    /\ kept' = Append(kept, Head(updateCallbacks))
    /\ UNCHANGED <<callbacks, inPass, popped, valid, answers, ended, called>>

\* What runs inside a callback of c: SetNextQuery or not, and an AddQuery for
\* each chain in `more`.
CallbackBody(c, chained, more) ==
    /\ valid' = [d \in Chain |-> IF d = c THEN chained ELSE valid[d] \/ d \in more]
    /\ answers' = [d \in Chain |->
                     IF (d = c /\ chained) \/ d \in more
                     THEN Append(answers[d], "pending") ELSE answers[d]]
    /\ callbacks' = callbacks \o SetToSeq(more)

\* checkStateAndReturnCompletion, after the pop: NextStep rather than Completed.
NextStep(c, chained) == popped[c] + 1 < Length[c] /\ chained

\* The future is moved out, the callback is given its value, and
\* the chain is kept or completed.
InvokeIfReady ==
    LET c == Head(updateCallbacks) IN
    /\ inPass /\ updateCallbacks # <<>>
    /\ Ready(c) /\ Answer(c) # "broken"
    /\ \E chained \in BOOLEAN, more \in {{}} \cup {{d} : d \in {d \in Chain : Fresh(d)}} :
        /\ CallbackBody(c, chained, more)
        /\ IF NextStep(c, chained)
           THEN kept' = Append(kept, c) /\ ended' = ended
           ELSE kept' = kept /\ ended' = [ended EXCEPT ![c] = "completed"]
    /\ popped' = [popped EXCEPT ![c] = @ + 1]
    /\ called' = [called EXCEPT ![c] = Append(@, <<popped[c] + 1, Len(answers[c])>>)]
    /\ updateCallbacks' = Tail(updateCallbacks)
    /\ UNCHANGED inPass

\* Mutant: the whole processor is cleared.
EveryChain == ToSet(updateCallbacks \o kept \o callbacks)

\* The chains of the running pass that are not completed.
OfThisPass == ToSet(updateCallbacks \o kept)

\* f.get() throws broken_promise through remove_if: updateCallbacks is
\* destroyed with every chain in it, looked at or not.
Throw ==
    /\ inPass /\ updateCallbacks # <<>>
    /\ Ready(Head(updateCallbacks)) /\ Answer(Head(updateCallbacks)) = "broken"
    /\ ended' = [c \in Chain |-> IF c \in OfThisPass THEN "destroyed" ELSE ended[c]]
    /\ valid' = [c \in Chain |-> valid[c] /\ c \notin OfThisPass]
    /\ updateCallbacks' = <<>> /\ kept' = <<>> /\ inPass' = FALSE
    /\ UNCHANGED <<callbacks, popped, answers, called>>

\* Mutants: the chains added meanwhile are overwritten; those looked at are
\* not put back.
FinishPassOverwrites ==
    /\ inPass /\ updateCallbacks = <<>>
    /\ callbacks' = kept
    /\ kept' = <<>>
    /\ inPass' = FALSE
    /\ UNCHANGED <<updateCallbacks, popped, valid, answers, ended, called>>

FinishPassForgets ==
    /\ inPass /\ updateCallbacks = <<>>
    /\ kept' = <<>>
    /\ inPass' = FALSE
    /\ UNCHANGED <<callbacks, updateCallbacks, popped, valid, answers, ended, called>>

\* Erase, and insert what is left at the end of _callbacks.
FinishPass ==
    /\ inPass /\ updateCallbacks = <<>>
    /\ callbacks' = callbacks \o kept
    /\ kept' = <<>>
    /\ inPass' = FALSE
    /\ UNCHANGED <<updateCallbacks, popped, valid, answers, ended, called>>

ProcessReadyQueries == StartPass \/ NotReady \/ InvokeIfReady \/ Throw \/ FinishPass

Next ==
    \/ \E c \in Chain : AddQuery(c) \/ WorkerAnswers(c)
    \/ ProcessReadyQueries

Spec == Init /\ [][Next]_vars

\* The thread's loop calls ProcessReadyQueries again and again.  No worker has
\* to answer.
FairSpec == Spec /\ WF_vars(ProcessReadyQueries)

-----------------------------------------------------------------------------
TypeOK ==
    /\ callbacks \in Seq(Chain) /\ updateCallbacks \in Seq(Chain) /\ kept \in Seq(Chain)
    /\ inPass \in BOOLEAN
    /\ \A c \in Chain : popped[c] \in 0..Length[c]
    /\ valid \in [Chain -> BOOLEAN]
    /\ answers \in [Chain -> Seq({"pending", "value", "broken"})]
    /\ ended \in [Chain -> {"no", "completed", "destroyed"}]

(***************************************************************************)
(* A chain's callbacks run in the order in which they were attached, each  *)
(* once, and the k-th is given the value of the chain's k-th query and of  *)
(* no other.                                                               *)
(***************************************************************************)
CallbackGetsItsAnswer ==
    \A c \in Chain :
        /\ Len(called[c]) <= Length[c]
        /\ \A i \in 1..Len(called[c]) : called[c][i] = <<i, i>> /\ answers[c][i] = "value"

(***************************************************************************)
(* No chain gets lost or doubled while vectors are moved about and         *)
(* callbacks add to them: one that was added and has not ended is in one   *)
(* place, still waits for a query and still has a callback to run; one     *)
(* that has ended is nowhere.                                              *)
(***************************************************************************)
NoChainLost ==
    \A c \in Chain :
        LET places == {<<"callbacks", i>> : i \in {i \in 1..Len(callbacks) : callbacks[i] = c}}
                 \cup {<<"update", i>> : i \in {i \in 1..Len(updateCallbacks) :
                                                    updateCallbacks[i] = c}}
                 \cup {<<"kept", i>> : i \in {i \in 1..Len(kept) : kept[i] = c}}
        IN  IF Fresh(c) \/ ended[c] # "no"
            THEN places = {}
            ELSE Cardinality(places) = 1 /\ valid[c] /\ popped[c] < Length[c]

\* The chains, in well-typed states.
ChainInv == TypeOK /\ NoChainLost

(***************************************************************************)
(* A broken promise destroys the chains of the pass that meets it, and     *)
(* spares those its callbacks have added.                                  *)
(***************************************************************************)
ThrowSparesNewChains ==
    [][\A c \in Chain : ended[c] = "no" /\ ended'[c] = "destroyed" =>
          /\ \E d \in Chain : Answer(d) = "broken"
          /\ c \notin ToSet(callbacks)]_vars

(***************************************************************************)
(* The callback of an answered query runs, unless a broken promise in the  *)
(* same pass destroys the chain: a ready chain is never skipped for ever.  *)
(***************************************************************************)
AnsweredIsCalled ==
    \A c \in Chain : \A k \in 1..Length[c] :
        (popped[c] = k - 1 /\ Answer(c) = "value")
            ~> (popped[c] >= k \/ ended[c] = "destroyed")
=============================================================================
