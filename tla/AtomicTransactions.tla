------------------------- MODULE AtomicTransactions -------------------------
(***************************************************************************)
(* What CommitTransaction, DirectCommitTransaction and Execute do for      *)
(* their callers: a job's statements reach the database in one step, in    *)
(* order and at most once, and the result says whether they did.  There is *)
(* one exception to the latter: of a transaction whose COMMIT the server   *)
(* refused nothing ever reaches the database, and it is reported as done.  *)
(***************************************************************************)
EXTENDS Naturals, Sequences

CONSTANTS
    Trx,                \* transactions
    Plain,              \* single statements
    Size                \* number of statements of each

VARIABLES
    table,              \* the committed statements of each job, by their numbers
    result,             \* what the caller knows of each job
    commitRefused       \* the server has refused to commit the job

Job == Trx \cup Plain

Applied(j) == table[j] # <<>>

Init ==
    /\ table = [j \in Job |-> <<>>]
    /\ result = [j \in Job |-> "none"]
    /\ commitRefused = [j \in Job |-> FALSE]

Start(j) ==
    /\ result[j] = "none"
    /\ result' = [result EXCEPT ![j] = "running"]
    /\ UNCHANGED <<table, commitRefused>>

\* The job is running and its end is open.
Undecided(j) == result[j] = "running" /\ ~Applied(j) /\ ~commitRefused[j]

Commit(j) ==
    /\ Undecided(j)
    /\ table' = [table EXCEPT ![j] = [k \in 1..Size[j] |-> k]]
    /\ UNCHANGED <<result, commitRefused>>

Refuse(t) ==
    /\ Undecided(t)
    /\ commitRefused' = [commitRefused EXCEPT ![t] = TRUE]
    /\ UNCHANGED <<table, result>>

Report(j) ==
    /\ result[j] = "running"
    /\ result' = [result EXCEPT ![j] =
                    IF Applied(j) \/ commitRefused[j] THEN "ok" ELSE "failed"]
    /\ UNCHANGED <<table, commitRefused>>

Next ==
    \/ \E j \in Job : Start(j) \/ Commit(j) \/ Report(j)
    \/ \E t \in Trx : Refuse(t)

Spec == Init /\ [][Next]_<<table, result, commitRefused>>
=============================================================================
