--------------------------- MODULE MySQLConnection ---------------------------
(***************************************************************************)
(* src/shared/Database/Database/MySQLConnection.cpp and the two callers of *)
(* ExecuteTransaction: TransactionTask::Execute, on an asynchronous        *)
(* connection, and DatabaseWorkerPool::DirectCommitTransaction, on a       *)
(* synchronous one.                                                        *)
(*                                                                         *)
(* A connection is used by one thread at a time (module                    *)
(* DatabaseWorkerPool), so its thread and its MySQL handle are one record. *)
(* The MySQL server is external: a session per connection, in autocommit   *)
(* or inside a transaction whose statements are pending until COMMIT.      *)
(*                                                                         *)
(* MySQLConnection::Execute sends one command and acts on the answer.  If  *)
(* the connection was lost, _HandleMySQLErrno opens a new session and the  *)
(* SAME command is sent again on it, whatever came before it.              *)
(*                                                                         *)
(* On a connection that is not lost the server may refuse a statement,     *)
(* START TRANSACTION or COMMIT.  Assumed of it: a COMMIT that it refuses   *)
(* ends the transaction and rolls it back, and so does every ROLLBACK that *)
(* reaches it, whatever it answers; the other refused commands have no     *)
(* effect.                                                                 *)
(***************************************************************************)
EXTENDS Naturals, Sequences

CONSTANTS
    Async,              \* connections whose worker runs a TransactionTask
    Synch,              \* connections borrowed by DirectCommitTransaction
    Trx,                \* transactions handed to the pool
    Plain,              \* statements executed outside any transaction
    Size,               \* Size[t]: how many statements t has
    Faults,             \* what the server can answer: "deadlock" or "error" to a
                        \* statement, "start", "commit": it refuses that command
    MaxLosses,          \* bound: how often a connection is lost, or START TRANSACTION refused
    LoopBreaker,        \* loopBreaker of DirectCommitTransaction (5)
    MaxRetries,         \* bound: attempts that fit into DEADLOCK_MAX_RETRY_TIME_MS
    MaxAttempts,        \* _HandleMySQLErrno's `attempts` (5)
    Null

Conn == Async \cup Synch
Job == Trx \cup Plain

ASSUME JobsAssumption ==
    /\ Trx \cap Plain = {} /\ Async \cap Synch = {}
    /\ Size \in [Job -> Nat] /\ \A p \in Plain : Size[p] = 1
    /\ Null \notin Job \cup Conn
ASSUME BoundsAssumption ==
    /\ MaxLosses \in Nat
    /\ LoopBreaker \in Nat \ {0} /\ MaxRetries \in Nat \ {0} /\ MaxAttempts \in Nat \ {0}

VARIABLES
    conn,               \* each connection's thread: see TypeOK
    deadlockLock,       \* the connection whose thread holds _deadlockLock
    open,               \* server: the session is inside a transaction
    pending,            \* server: the session's uncommitted statements, of each job
    table,              \* server: the committed statements of each job, in commit order
    result,             \* history: what each job's call returned
    cut,                \* history: during the job the connection was lost, or not there,
                        \* or START TRANSACTION was refused on it
    commitRefused,      \* history: the server refused the job's COMMIT
    losses              \* history: connections lost and START TRANSACTIONs refused so far

serverVars == <<open, pending, table>>
vars == <<conn, deadlockLock, open, pending, table, result, cut, commitRefused, losses>>

Idle == [pc |-> "idle", cmd |-> "NONE", job |-> Null, k |-> 0, code |-> "0",
         attempt |-> 0, tries |-> MaxAttempts, handle |-> TRUE]

\* No statement of any job.
Nothing == [j \in Job |-> <<>>]

Init ==
    /\ conn = [c \in Conn |-> Idle]
    /\ deadlockLock = Null
    /\ open = [c \in Conn |-> FALSE]
    /\ pending = [c \in Conn |-> Nothing]
    /\ table = Nothing
    /\ result = [j \in Job |-> "none"]
    /\ cut = [j \in Job |-> FALSE]
    /\ commitRefused = [j \in Job |-> FALSE]
    /\ losses = 0

\* The statements s with the one the connection has sent.
WithStatement(s, c) == [s EXCEPT ![conn[c].job] = Append(@, conn[c].k)]

-----------------------------------------------------------------------------
\* The server, when it carries out the command conn[c] has sent.  START
\* TRANSACTION commits a transaction that is still open.
TableAfter(c) ==
    CASE conn[c].cmd \in {"START", "COMMIT"} -> [j \in Job |-> table[j] \o pending[c][j]]
      [] conn[c].cmd = "STMT" /\ ~open[c]    -> WithStatement(table, c)
      [] OTHER                               -> table

OpenAfter(c) ==
    conn[c].cmd = "START" \/ (conn[c].cmd = "STMT" /\ open[c])

PendingAfter(c) ==
    IF conn[c].cmd = "STMT" /\ open[c] THEN WithStatement(pending[c], c) ELSE Nothing

\* The session leaves its transaction, and what was pending is rolled back.
RollBack(c) ==
    /\ open' = [open EXCEPT ![c] = FALSE]
    /\ pending' = [pending EXCEPT ![c] = Nothing]

-----------------------------------------------------------------------------
\* Mutant: no ROLLBACK is sent.
StatementFailedNoRollback(r, err) == [r EXCEPT !.pc = "returned", !.code = err]

\* The first statement that fails ends the transaction, with its error code.
StatementFailed(r, err) == [r EXCEPT !.pc = "sent", !.cmd = "ROLLBACK", !.code = err]

\* What the thread does when Execute has returned.  ExecuteTransaction stops
\* at the first statement that fails, keeps its error code and rolls back; it
\* looks at the result of no other command.
Continue(c, ok, err) ==
    LET r == conn[c] IN
    conn' = [conn EXCEPT ![c] =
        CASE r.cmd = "START" ->
                [r EXCEPT !.pc = "sent", !.cmd = "STMT", !.k = 1]
          [] r.cmd = "STMT" /\ r.job \in Plain ->
                [r EXCEPT !.pc = "returned", !.code = IF ok THEN "0" ELSE "failed"]
          [] r.cmd = "STMT" /\ r.job \in Trx /\ ok /\ r.k < Size[r.job] ->
                [r EXCEPT !.pc = "sent", !.k = r.k + 1]
          [] r.cmd = "STMT" /\ r.job \in Trx /\ ok /\ r.k = Size[r.job] ->
                [r EXCEPT !.pc = "sent", !.cmd = "COMMIT"]
          [] r.cmd = "STMT" /\ r.job \in Trx /\ ~ok ->
                StatementFailed(r, err)
          [] r.cmd = "COMMIT" ->
                [r EXCEPT !.pc = "returned", !.code = "0"]
          [] r.cmd = "ROLLBACK" ->
                [r EXCEPT !.pc = "returned"]]

\* Mutant: START TRANSACTION is missing.
StartWithStatement(r) ==
    IF Size[r.job] = 0
    THEN [r EXCEPT !.pc = "returned", !.code = "-1"]
    ELSE [r EXCEPT !.pc = "sent", !.cmd = "STMT", !.k = 1]

\* The first lines of ExecuteTransaction: an empty transaction is not sent.
StartAttempt(r) ==
    CASE r.job \in Plain    -> [r EXCEPT !.pc = "sent", !.cmd = "STMT", !.k = 1]
      [] Size[r.job] = 0    -> [r EXCEPT !.pc = "returned", !.code = "-1"]
      [] OTHER              -> [r EXCEPT !.pc = "sent", !.cmd = "START"]

\* A worker pops the job, or a caller of the pool got the connection.
Begin(c, j) ==
    /\ conn[c].pc = "idle" /\ result[j] = "none"
    /\ conn' = [conn EXCEPT ![c] = StartAttempt([@ EXCEPT !.job = j])]
    /\ result' = [result EXCEPT ![j] = "running"]
    /\ UNCHANGED <<deadlockLock, serverVars, cut, commitRefused, losses>>

Sending(c) == conn[c].pc = "sent" /\ conn[c].handle

\* The server carries the command out and the answer arrives.
Answered(c) ==
    /\ Sending(c)
    /\ table' = TableAfter(c)
    /\ open' = [open EXCEPT ![c] = OpenAfter(c)]
    /\ pending' = [pending EXCEPT ![c] = PendingAfter(c)]
    /\ Continue(c, TRUE, "0")
    /\ UNCHANGED <<deadlockLock, result, cut, commitRefused, losses>>

\* ER_LOCK_DEADLOCK: another session holds locks, and the server rolls the
\* whole transaction of this one back.
Deadlocked(c) ==
    /\ Sending(c) /\ conn[c].cmd = "STMT" /\ "deadlock" \in Faults
    /\ \E d \in Conn \ {c} : pending[d] # Nothing
    /\ RollBack(c)
    /\ Continue(c, FALSE, "deadlock")
    /\ UNCHANGED <<deadlockLock, table, result, cut, commitRefused, losses>>

\* ER_DUP_ENTRY, ER_WRONG_VALUE_COUNT, an unhandled errno: the statement has no
\* effect and the session stays as it is.
Refused(c) ==
    /\ Sending(c) /\ conn[c].cmd = "STMT" /\ "error" \in Faults
    /\ Continue(c, FALSE, "error")
    /\ UNCHANGED <<deadlockLock, serverVars, result, cut, commitRefused, losses>>

\* The server refuses START TRANSACTION with any errno but that of a lost
\* connection.  BeginTransaction drops the result, and the statements go to a
\* session that is still in autocommit.
StartRefused(c) ==
    /\ Sending(c) /\ conn[c].cmd = "START" /\ "start" \in Faults
    /\ losses < MaxLosses
    /\ Continue(c, FALSE, "error")
    /\ cut' = [cut EXCEPT ![conn[c].job] = TRUE]
    /\ losses' = losses + 1
    /\ UNCHANGED <<deadlockLock, serverVars, result, commitRefused>>

\* The server refuses COMMIT with any errno but that of a lost connection, be it
\* ER_LOCK_DEADLOCK from a cluster, ER_ERROR_DURING_COMMIT or a server that has
\* become read-only.  CommitTransaction drops the result.
CommitRefused(c) ==
    /\ Sending(c) /\ conn[c].cmd = "COMMIT" /\ "commit" \in Faults
    /\ RollBack(c)
    /\ Continue(c, FALSE, "error")
    /\ commitRefused' = [commitRefused EXCEPT ![conn[c].job] = TRUE]
    /\ UNCHANGED <<deadlockLock, table, result, cut, losses>>

\* ER_BAD_FIELD_ERROR, ER_NO_SUCH_TABLE, ER_PARSE_ERROR: std::abort.  The
\* server rolls back what the process had open.
Fatal ==
    /\ conn' = [c \in Conn |-> [Idle EXCEPT !.pc = "aborted"]]
    /\ deadlockLock' = Null
    /\ open' = [c \in Conn |-> FALSE]
    /\ pending' = [c \in Conn |-> Nothing]
    /\ UNCHANGED <<table, result, cut, commitRefused, losses>>

SchemaError(c) == Sending(c) /\ conn[c].cmd = "STMT" /\ "error" \in Faults /\ Fatal

\* CR_SERVER_GONE_ERROR, CR_SERVER_LOST: the session is gone and its
\* transaction rolled back.  The command may have been carried out before.
ConnectionLost(c) ==
    /\ Sending(c) /\ losses < MaxLosses
    /\ table' \in {table, TableAfter(c)}
    /\ RollBack(c)
    /\ cut' = [cut EXCEPT ![conn[c].job] = TRUE]
    /\ conn' = [conn EXCEPT ![c].pc = "reconnecting", ![c].handle = FALSE]
    /\ losses' = losses + 1
    /\ UNCHANGED <<deadlockLock, result, commitRefused>>

\* _HandleMySQLErrno: Open and PrepareStatements succeed, Execute calls itself.
Reconnected(c) ==
    /\ conn[c].pc = "reconnecting"
    /\ conn' = [conn EXCEPT ![c].pc = "sent", ![c].handle = TRUE,
                            ![c].tries = MaxAttempts]
    /\ UNCHANGED <<deadlockLock, serverVars, result, cut, commitRefused, losses>>

\* Open fails with an errno for which it is tried again ...
ReconnectFailed(c) ==
    /\ conn[c].pc = "reconnecting" /\ conn[c].tries > 1
    /\ conn' = [conn EXCEPT ![c].tries = @ - 1]
    /\ UNCHANGED <<deadlockLock, serverVars, result, cut, commitRefused, losses>>

\* ... until the attempts are used up and the program is terminated "to
\* prevent data corruption".
ReconnectAborts(c) == conn[c].pc = "reconnecting" /\ conn[c].tries = 1 /\ Fatal

\* Open succeeds, but the statements cannot be prepared again.
RePrepareFailed(c) == conn[c].pc = "reconnecting" /\ Fatal

\* Open fails, before the last attempt, with any other errno, such as an
\* unreachable socket or too many connections: _HandleMySQLErrno returns false
\* and m_Mysql stays null.
ReconnectRefused(c) ==
    /\ conn[c].pc = "reconnecting" /\ conn[c].tries > 1
    /\ conn' = [conn EXCEPT ![c].pc = "sent", ![c].tries = MaxAttempts]
    /\ UNCHANGED <<deadlockLock, serverVars, result, cut, commitRefused, losses>>

\* Mutant: Execute without a handle returns true.
NoHandleSucceeds(c) ==
    /\ conn[c].pc = "sent" /\ ~conn[c].handle
    /\ Continue(c, TRUE, "0")
    /\ cut' = [cut EXCEPT ![conn[c].job] = TRUE]
    /\ UNCHANGED <<deadlockLock, serverVars, result, commitRefused, losses>>

\* Execute without a handle fails at once, and GetLastError asks for the error
\* of a null handle: the client library has none, or that of an earlier call.
NoHandle(c) ==
    /\ conn[c].pc = "sent" /\ ~conn[c].handle
    /\ \E err \in {"0", "error"} : Continue(c, FALSE, err)
    /\ cut' = [cut EXCEPT ![conn[c].job] = TRUE]
    /\ UNCHANGED <<deadlockLock, serverVars, result, commitRefused, losses>>

-----------------------------------------------------------------------------
\* Mutant: the path of a failure forgets the lock.
ReturnKeepsLock(c, res) ==
    /\ conn' = [conn EXCEPT ![c] = [Idle EXCEPT !.handle = conn[c].handle]]
    /\ result' = [result EXCEPT ![conn[c].job] = res]
    /\ deadlockLock' = IF deadlockLock = c /\ res = "ok" THEN Null ELSE deadlockLock
    /\ UNCHANGED <<serverVars, cut, commitRefused, losses>>

\* The caller of ExecuteTransaction.
Return(c, res) ==
    /\ conn' = [conn EXCEPT ![c] = [Idle EXCEPT !.handle = conn[c].handle]]
    /\ result' = [result EXCEPT ![conn[c].job] = res]
    /\ deadlockLock' = IF deadlockLock = c THEN Null ELSE deadlockLock
    /\ UNCHANGED <<serverVars, cut, commitRefused, losses>>

\* Mutant: after a deadlock the caller is told that all is well.
SucceedAnyway(c) ==
    conn[c].pc = "returned" /\ conn[c].code \in {"0", "deadlock"} /\ Return(c, "ok")

Succeed(c) == conn[c].pc = "returned" /\ conn[c].code = "0" /\ Return(c, "ok")

\* An error other than a deadlock at the first attempt: Cleanup, no retry.
GiveUp(c) ==
    /\ conn[c].pc = "returned" /\ conn[c].attempt = 0
    /\ conn[c].code \notin {"0", "deadlock"}
    /\ Return(c, "failed")

Retry(c) == conn' = [conn EXCEPT ![c] = StartAttempt([conn[c] EXCEPT !.attempt = @ + 1])]

\* TransactionTask::Execute retries under _deadlockLock, at least once, until
\* the time is over.  Once it is retrying, any error is retried.
LockAndRetry(c) ==
    /\ c \in Async /\ conn[c].pc = "returned" /\ conn[c].attempt = 0
    /\ conn[c].code = "deadlock"
    /\ deadlockLock = Null
    /\ deadlockLock' = c
    /\ Retry(c)
    /\ UNCHANGED <<serverVars, result, cut, commitRefused, losses>>

\* Mutant: the loop goes on after a success.
RetryAgainAlways(c) ==
    /\ c \in Async /\ conn[c].pc = "returned"
    /\ conn[c].attempt \in 1..MaxRetries - 1
    /\ Retry(c)
    /\ UNCHANGED <<deadlockLock, serverVars, result, cut, commitRefused, losses>>

RetryAgain(c) ==
    /\ c \in Async /\ conn[c].pc = "returned" /\ conn[c].code # "0"
    /\ conn[c].attempt \in 1..MaxRetries - 1
    /\ Retry(c)
    /\ UNCHANGED <<deadlockLock, serverVars, result, cut, commitRefused, losses>>

TimeIsOver(c) ==
    /\ c \in Async /\ conn[c].pc = "returned" /\ conn[c].code # "0"
    /\ conn[c].attempt > 0
    /\ Return(c, "failed")

\* DirectCommitTransaction retries LoopBreaker times, without the lock.
SynchRetry(c) ==
    /\ c \in Synch /\ conn[c].pc = "returned" /\ conn[c].code # "0"
    /\ conn[c].attempt > 0 \/ conn[c].code = "deadlock"
    /\ conn[c].attempt < LoopBreaker
    /\ Retry(c)
    /\ UNCHANGED <<deadlockLock, serverVars, result, cut, commitRefused, losses>>

LoopBroken(c) ==
    /\ c \in Synch /\ conn[c].pc = "returned" /\ conn[c].code # "0"
    /\ conn[c].attempt = LoopBreaker
    /\ Return(c, "failed")

Work(c) ==
    \/ Answered(c) \/ Deadlocked(c) \/ Refused(c)
    \/ StartRefused(c) \/ CommitRefused(c)
    \/ SchemaError(c) \/ ConnectionLost(c)
    \/ Reconnected(c) \/ ReconnectFailed(c) \/ ReconnectAborts(c)
    \/ RePrepareFailed(c) \/ ReconnectRefused(c)
    \/ NoHandle(c)
    \/ Succeed(c) \/ GiveUp(c)
    \/ LockAndRetry(c) \/ RetryAgain(c) \/ TimeIsOver(c)
    \/ SynchRetry(c) \/ LoopBroken(c)

Aborted == \E c \in Conn : conn[c].pc = "aborted"

\* All is done, or the process is gone; any other stop is a deadlock.
Terminated ==
    /\ Aborted \/ \A j \in Job : result[j] \in {"ok", "failed"}
    /\ UNCHANGED vars

Next ==
    \/ \E c \in Conn, j \in Job : Begin(c, j)
    \/ \E c \in Conn : Work(c)
    \/ Terminated

Spec == Init /\ [][Next]_vars

\* Threads and the server run; nobody has to hand over another job.
FairSpec == Spec /\ \A c \in Conn : WF_vars(Work(c))

-----------------------------------------------------------------------------
\* Of each job, a sequence of its statements, by their numbers.
Statements == {s \in [Job -> Seq(Nat)] : \A j \in Job : s[j] \in Seq(1..Size[j])}

Whole(j) == [k \in 1..Size[j] |-> k]

TypeOK ==
    /\ conn \in [Conn -> [pc : {"idle", "sent", "reconnecting", "returned", "aborted"},
                          cmd : {"NONE", "START", "STMT", "COMMIT", "ROLLBACK"},
                          job : Job \cup {Null}, k : Nat,
                          code : {"0", "-1", "failed", "deadlock", "error"},
                          attempt : Nat, tries : 1..MaxAttempts, handle : BOOLEAN]]
    /\ deadlockLock \in Async \cup {Null}
    /\ open \in [Conn -> BOOLEAN]
    /\ pending \in [Conn -> Statements]
    /\ table \in Statements
    /\ result \in [Job -> {"none", "running", "ok", "failed"}]
    /\ cut \in [Job -> BOOLEAN]
    /\ commitRefused \in [Job -> BOOLEAN]
    /\ losses \in 0..MaxLosses

(***************************************************************************)
(* As long as its connection is not cut, a transaction's statements are    *)
(* committed all, once and in the order in which they were appended, or    *)
(* not at all, however often deadlocks make the threads try again and      *)
(* whatever the server says to the COMMIT.                                 *)
(***************************************************************************)
AtomicUnlessCut ==
    \A t \in Trx : ~cut[t] => table[t] \in {<<>>, Whole(t)}

(***************************************************************************)
(* As long as its connection is not cut, what the call returns is what     *)
(* happened, with one exception.  A job reported as failed, by whichever   *)
(* attempt, has left nothing; one reported as done is committed whole,     *)
(* unless the server refused its COMMIT: then it is reported as done and   *)
(* nothing of it is committed.                                             *)
(***************************************************************************)
ResultTellsTruth ==
    \A j \in Job : ~cut[j] =>
        /\ result[j] = "ok" /\ ~commitRefused[j] => table[j] = Whole(j)
        /\ result[j] = "failed" \/ commitRefused[j] => table[j] = <<>>

(***************************************************************************)
(* A statement outside a transaction that is reported executed has been,   *)
(* at least once, even when the connection was lost under it.              *)
(***************************************************************************)
PlainAtLeastOnce ==
    \A p \in Plain : result[p] = "ok" => table[p] # <<>>

(***************************************************************************)
(* A connection goes back to the pool, or to the next operation, outside   *)
(* any transaction: the next START TRANSACTION commits nobody else's       *)
(* statements.                                                             *)
(***************************************************************************)
NoTransactionLeftOpen ==
    \A c \in Conn : conn[c].pc = "idle" => ~open[c] /\ pending[c] = Nothing

(***************************************************************************)
(* Of the worker threads only the holder of _deadlockLock retries, and no  *)
(* thread keeps that lock after its call, on whichever path it returns.    *)
(***************************************************************************)
OneRetrier ==
    \A c \in Async : conn[c].attempt > 0 <=> deadlockLock = c

\* What a call leaves behind: neither an open transaction nor the lock.
SessionInv == TypeOK /\ NoTransactionLeftOpen /\ OneRetrier

(***************************************************************************)
(* Every job that is started returns, or the process is gone: the threads  *)
(* that wait for _deadlockLock get it.                                     *)
(***************************************************************************)
EveryJobReturns ==
    \A j \in Job : result[j] = "running" ~> (result[j] \in {"ok", "failed"} \/ Aborted)

(***************************************************************************)
(* As long as no connection is cut, the connections and their server       *)
(* implement AtomicTransactions: deadlocks, errors, retries and refused    *)
(* COMMITs leave a job committed in one step or not at all, and the result *)
(* is wrong about it only where a COMMIT was refused.                      *)
(***************************************************************************)
Abstract == INSTANCE AtomicTransactions
AtomicSpec == Abstract!Spec

-----------------------------------------------------------------------------
\* What comments say and the code does not do.

(***************************************************************************)
(* DatabaseWorkerPool.h:169 "Begins an automanaged transaction pointer     *)
(* that will automatically rollback if not commited": no part of a         *)
(* transaction would ever be committed without the rest.                   *)
(***************************************************************************)
NoPartialTransaction ==
    \A t \in Trx : result[t] \in {"ok", "failed"} => table[t] \in {<<>>, Whole(t)}

(***************************************************************************)
(* MySQLConnection.cpp:413 "to prevent data loss, we only clean up when    *)
(* it's all done": a transaction that is reported done, and therefore      *)
(* never tried again, would have been committed.  ExecuteTransaction       *)
(* returns 0 whatever the answer to COMMIT was.                            *)
(***************************************************************************)
DoneMeansCommitted ==
    \A t \in Trx : result[t] = "ok" => table[t] # <<>>
=============================================================================
