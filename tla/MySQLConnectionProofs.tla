------------------------ MODULE MySQLConnectionProofs ------------------------
(***************************************************************************)
(* Proofs about MySQLConnection, for any sets of connections, jobs and     *)
(* faults and any bounds: whatever is lost, refused or retried, a          *)
(* connection is outside any transaction when its call has returned, and   *)
(* of the workers exactly the one that is retrying holds _deadlockLock.    *)
(* Of what becomes of a job: its statements reach the table whole and once *)
(* or not at all unless its connection is cut, and the result says which   *)
(* unless its COMMIT is refused; as long as no connection is cut           *)
(* AtomicTransactions is implemented.                                      *)
(***************************************************************************)
EXTENDS MySQLConnection, SequenceTheorems, TLAPS

(***************************************************************************)
(* The states of a connection's thread.                                    *)
(***************************************************************************)
Thread == [pc : {"idle", "sent", "reconnecting", "returned", "aborted"},
           cmd : {"NONE", "START", "STMT", "COMMIT", "ROLLBACK"},
           job : Job \cup {Null}, k : Nat,
           code : {"0", "-1", "failed", "deadlock", "error"},
           attempt : Nat, tries : 1..MaxAttempts, handle : BOOLEAN]

(***************************************************************************)
(* What is sent belongs to a job with statements, and a statement outside  *)
(* any transaction is the only command of its job.                         *)
(***************************************************************************)
Sensible(r) ==
    /\ r.pc \in {"sent", "reconnecting"} =>
        /\ r.job \in Job /\ Size[r.job] >= 1
        /\ r.cmd # "NONE"
        /\ r.cmd = "STMT" => r.k \in 1..Size[r.job]
        /\ r.job \in Plain => r.cmd = "STMT"
    /\ r.pc = "returned" => r.job \in Job

(***************************************************************************)
(* Where a session cannot be inside a transaction: outside a call, when    *)
(* ExecuteTransaction has returned, without a handle, for a statement of   *)
(* its own, and before START TRANSACTION has been carried out.             *)
(***************************************************************************)
Outside(r) == r.pc # "sent" \/ ~r.handle \/ r.job \in Plain \/ r.cmd = "START"

Closed(c) == ~open[c] /\ pending[c] = Nothing

(***************************************************************************)
(* The inductive invariant. NoTransactionLeftOpen holds when a call        *)
(* returns because every path to the return closes the transaction, so it  *)
(* has to be stated for all of Outside.                                    *)
(***************************************************************************)
IInv ==
    /\ TypeOK
    /\ \A c \in Conn : Sensible(conn[c])
    /\ \A c \in Conn : Outside(conn[c]) => Closed(c)
    /\ OneRetrier

-----------------------------------------------------------------------------
(***************************************************************************)
(* Nothing is a sequence of each job's statements, an empty one.           *)
(***************************************************************************)
LEMMA NothingIsWritten == Nothing \in Statements
<1>1. \A S : <<>> \in Seq(S)
    BY EmptySeq
<1> QED
    BY <1>1 DEF Nothing, Statements

(***************************************************************************)
(* One more statement of a job, at the end of those it has there.          *)
(***************************************************************************)
LEMMA WithStatementMeans ==
    ASSUME NEW w \in Statements, NEW c \in Conn, conn[c].job \in Job,
           conn[c].k \in 1..Size[conn[c].job]
    PROVE  /\ WithStatement(w, c) \in Statements
           /\ WithStatement(w, c)[conn[c].job] = Append(w[conn[c].job], conn[c].k)
           /\ \A j \in Job : j # conn[c].job => WithStatement(w, c)[j] = w[j]
<1> DEFINE j == conn[c].job
           k == conn[c].k
           a == Append(w[j], k)
<1>1. WithStatement(w, c) = [w EXCEPT ![j] = a]
    BY DEF WithStatement, Statements
<1>2. w \in [Job -> Seq(Nat)] /\ \A i \in Job : w[i] \in Seq(1..Size[i])
    BY DEF Statements
<1>3. j \in Job /\ k \in 1..Size[j] /\ Size[j] \in Nat
    BY JobsAssumption
<1> HIDE DEF j, k
<1>4. k \in Nat /\ w[j] \in Seq(1..Size[j]) /\ w[j] \in Seq(Nat)
    BY <1>2, <1>3
<1>5. a \in Seq(1..Size[j]) /\ a \in Seq(Nat)
    BY <1>3, <1>4, AppendProperties
<1> HIDE DEF a
<1>6. [w EXCEPT ![j] = a] \in Statements
    BY <1>2, <1>5 DEF Statements
<1>7. /\ [w EXCEPT ![j] = a][j] = a
      /\ \A i \in Job : i # j => [w EXCEPT ![j] = a][i] = w[i]
    BY <1>2, <1>3
<1> QED
    BY <1>1, <1>6, <1>7 DEF a, j, k

(***************************************************************************)
(* A COMMIT appends what is pending of each job to what is committed.      *)
(***************************************************************************)
LEMMA JoinedIsWritten ==
    ASSUME NEW v \in Statements, NEW w \in Statements
    PROVE  [j \in Job |-> v[j] \o w[j]] \in Statements
<1>1. ASSUME NEW j \in Job
      PROVE  v[j] \o w[j] \in Seq(Nat) /\ v[j] \o w[j] \in Seq(1..Size[j])
  <2>1. /\ v[j] \in Seq(Nat) /\ w[j] \in Seq(Nat)
        /\ v[j] \in Seq(1..Size[j]) /\ w[j] \in Seq(1..Size[j])
    BY DEF Statements
  <2> QED
    BY <2>1, ConcatProperties
<1> QED
    BY <1>1 DEF Statements

(***************************************************************************)
(* No thread is in a call when the pool has been opened.                   *)
(***************************************************************************)
LEMMA InitIInv == Init => IInv
<1> SUFFICES ASSUME Init PROVE IInv
    OBVIOUS
<1>1. Idle \in Thread
    BY BoundsAssumption DEF Idle, Thread
<1>2. TypeOK
    BY <1>1, NothingIsWritten, BoundsAssumption DEF Init, TypeOK, Thread
<1>3. \A c \in Conn : Sensible(conn[c]) /\ Closed(c)
    BY DEF Init, Idle, Sensible, Closed
<1>4. OneRetrier
    BY JobsAssumption DEF Init, Idle, OneRetrier, Conn
<1> QED
    BY <1>2, <1>3, <1>4 DEF IInv

(***************************************************************************)
(* What an attempt of r's job begins with.                                 *)
(***************************************************************************)
StartsWith(s, r) ==
    /\ s.job = r.job
    /\ r.job \in Plain => s.pc = "sent" /\ s.cmd = "STMT"
    /\ r.job \notin Plain /\ Size[r.job] = 0 => s.pc = "returned" /\ s.code = "-1"
    /\ r.job \notin Plain /\ Size[r.job] # 0 => s.pc = "sent" /\ s.cmd = "START"

(***************************************************************************)
(* An attempt starts with a command, or ends at once if there is nothing   *)
(* to send.                                                                *)
(***************************************************************************)
LEMMA StartAttemptMeans ==
    ASSUME NEW r \in Thread, r.job \in Job
    PROVE  /\ StartAttempt(r) \in Thread
           /\ StartAttempt(r).pc \in {"sent", "returned"}
           /\ Sensible(StartAttempt(r)) /\ Outside(StartAttempt(r))
           /\ StartAttempt(r).attempt = r.attempt /\ StartAttempt(r).handle = r.handle
           /\ StartsWith(StartAttempt(r), r)
<1>1. Size[r.job] \in Nat /\ (r.job \in Plain => Size[r.job] = 1)
    BY JobsAssumption
<1>2. CASE r.job \in Plain
  <2> DEFINE s == [r EXCEPT !.pc = "sent", !.cmd = "STMT", !.k = 1]
  <2>1. StartAttempt(r) = s
    BY <1>1, <1>2 DEF StartAttempt
  <2>2. s \in Thread
    BY DEF Thread
  <2>3. /\ s.pc = "sent" /\ s.cmd = "STMT" /\ s.k = 1
        /\ s.job = r.job /\ s.attempt = r.attempt /\ s.handle = r.handle
    BY DEF Thread
  <2> HIDE DEF s
  <2> QED
    BY <2>1, <2>2, <2>3, <1>1, <1>2 DEF Sensible, Outside, StartsWith
<1>3. CASE r.job \notin Plain /\ Size[r.job] = 0
  <2> DEFINE s == [r EXCEPT !.pc = "returned", !.code = "-1"]
  <2>1. StartAttempt(r) = s
    BY <1>3 DEF StartAttempt
  <2>2. s \in Thread
    BY DEF Thread
  <2>3. /\ s.pc = "returned" /\ s.code = "-1"
        /\ s.job = r.job /\ s.attempt = r.attempt /\ s.handle = r.handle
    BY DEF Thread
  <2> HIDE DEF s
  <2> QED
    BY <2>1, <2>2, <2>3, <1>3 DEF Sensible, Outside, StartsWith
<1>4. CASE r.job \notin Plain /\ Size[r.job] # 0
  <2> DEFINE s == [r EXCEPT !.pc = "sent", !.cmd = "START"]
  <2>1. StartAttempt(r) = s
    BY <1>4 DEF StartAttempt
  <2>2. s \in Thread
    BY DEF Thread
  <2>3. /\ s.pc = "sent" /\ s.cmd = "START"
        /\ s.job = r.job /\ s.attempt = r.attempt /\ s.handle = r.handle
    BY DEF Thread
  <2> HIDE DEF s
  <2> QED
    BY <2>1, <2>2, <2>3, <1>1, <1>4 DEF Sensible, Outside, StartsWith
<1> QED
    BY <1>2, <1>3, <1>4

(***************************************************************************)
(* What ExecuteTransaction, or Execute alone, does behind the command of r *)
(* that came back with the result ok and the error err.                    *)
(***************************************************************************)
Follows(r, s, ok, err) ==
    /\ r.cmd = "START" => s.pc = "sent" /\ s.cmd = "STMT" /\ s.k = 1
    /\ r.cmd = "STMT" /\ r.job \in Plain =>
            s.pc = "returned" /\ s.code = IF ok THEN "0" ELSE "failed"
    /\ r.cmd = "STMT" /\ r.job \in Trx /\ ok =>
            /\ s.pc = "sent"
            /\ IF r.k < Size[r.job] THEN s.cmd = "STMT" /\ s.k = r.k + 1 ELSE s.cmd = "COMMIT"
    /\ r.cmd = "STMT" /\ r.job \in Trx /\ ~ok =>
            s.pc = "sent" /\ s.cmd = "ROLLBACK" /\ s.code = err
    /\ r.cmd = "COMMIT" => s.pc = "returned" /\ s.code = "0"
    /\ r.cmd = "ROLLBACK" => s.pc = "returned" /\ s.code = r.code

(***************************************************************************)
(* When Execute has returned the thread sends its next command, or its     *)
(* call is over: behind a COMMIT, behind a ROLLBACK, or behind the one     *)
(* statement of a job that is no transaction.                              *)
(***************************************************************************)
LEMMA ContinueMeans ==
    ASSUME TypeOK, NEW c \in Conn, Sensible(conn[c]), conn[c].pc = "sent",
           NEW ok \in BOOLEAN, NEW err \in {"0", "deadlock", "error"},
           Continue(c, ok, err)
    PROVE  \E s \in Thread :
             /\ conn' = [conn EXCEPT ![c] = s]
             /\ Sensible(s)
             /\ s.attempt = conn[c].attempt /\ s.handle = conn[c].handle
             /\ s.job = conn[c].job
             /\ Follows(conn[c], s, ok, err)
             /\ \/ s.pc = "sent" /\ s.cmd # "START" /\ s.job \notin Plain
                \/ /\ s.pc = "returned"
                   /\ \/ conn[c].cmd \in {"COMMIT", "ROLLBACK"}
                      \/ conn[c].cmd = "STMT" /\ conn[c].job \in Plain
<1> DEFINE r == conn[c]
           Goal(s) ==
             /\ conn' = [conn EXCEPT ![c] = s]
             /\ s \in Thread /\ Sensible(s)
             /\ s.attempt = r.attempt /\ s.handle = r.handle
             /\ s.job = r.job
             /\ Follows(r, s, ok, err)
             /\ \/ s.pc = "sent" /\ s.cmd # "START" /\ s.job \notin Plain
                \/ /\ s.pc = "returned"
                   /\ \/ r.cmd \in {"COMMIT", "ROLLBACK"}
                      \/ r.cmd = "STMT" /\ r.job \in Plain
           next == CASE r.cmd = "START" ->
                        [r EXCEPT !.pc = "sent", !.cmd = "STMT", !.k = 1]
                  [] r.cmd = "STMT" /\ r.job \in Plain ->
                        [r EXCEPT !.pc = "returned", !.code = IF ok THEN "0" ELSE "failed"]
                  [] r.cmd = "STMT" /\ r.job \in Trx /\ ok /\ r.k < Size[r.job] ->
                        [r EXCEPT !.pc = "sent", !.k = r.k + 1]
                  [] r.cmd = "STMT" /\ r.job \in Trx /\ ok /\ r.k = Size[r.job] ->
                        [r EXCEPT !.pc = "sent", !.cmd = "COMMIT"]
                  [] r.cmd = "STMT" /\ r.job \in Trx /\ ~ok ->
                        StatementFailed(r, err)
                  [] r.cmd = "COMMIT" ->
                        [r EXCEPT !.pc = "returned", !.code = "0"]
                  [] r.cmd = "ROLLBACK" ->
                        [r EXCEPT !.pc = "returned"]
<1>1. r \in Thread
    BY DEF TypeOK, Thread
<1>2. /\ r.job \in Job /\ Size[r.job] \in Nat /\ Size[r.job] >= 1
      /\ r.cmd \in {"START", "STMT", "COMMIT", "ROLLBACK"}
      /\ r.cmd = "STMT" => r.k \in 1..Size[r.job]
      /\ r.job \in Plain => r.cmd = "STMT"
      /\ r.job \in Plain \/ r.job \in Trx
      /\ ~(r.job \in Plain /\ r.job \in Trx)
    BY <1>1, JobsAssumption DEF Sensible, Thread, Job
<1>3. conn' = [conn EXCEPT ![c] = next]
    BY DEF Continue
<1> HIDE DEF r
<1>4. CASE r.cmd = "START"
  <2> DEFINE s == [r EXCEPT !.pc = "sent", !.cmd = "STMT", !.k = 1]
  <2>1. next = s
    BY <1>2, <1>4
  <2> HIDE DEF next
  <2>2. s \in Thread
    BY <1>1, <1>2, <1>4 DEF Thread
  <2>3. /\ s.pc = "sent" /\ s.cmd = "STMT" /\ s.k = 1
        /\ s.job = r.job /\ s.attempt = r.attempt /\ s.handle = r.handle
    BY <1>1, <1>2, <1>4 DEF Thread
  <2> HIDE DEF s
  <2>4. Goal(s)
    BY <2>1, <2>2, <2>3, <1>2, <1>3, <1>4 DEF Sensible, Follows
  <2> QED
    BY <2>4 DEF r
<1>5. CASE r.cmd = "STMT" /\ r.job \in Plain
  <2> DEFINE s == [r EXCEPT !.pc = "returned", !.code = IF ok THEN "0" ELSE "failed"]
  <2>1. next = s
    BY <1>2, <1>5
  <2> HIDE DEF next
  <2>2. s \in Thread
    BY <1>1, <1>2, <1>5 DEF Thread
  <2>3. /\ s.pc = "returned" /\ s.code = IF ok THEN "0" ELSE "failed"
        /\ s.job = r.job /\ s.attempt = r.attempt /\ s.handle = r.handle
    BY <1>1, <1>2, <1>5 DEF Thread
  <2> HIDE DEF s
  <2>4. Goal(s)
    BY <2>1, <2>2, <2>3, <1>2, <1>3, <1>5 DEF Sensible, Follows
  <2> QED
    BY <2>4 DEF r
<1>6. CASE r.cmd = "STMT" /\ r.job \in Trx /\ ok /\ r.k < Size[r.job]
  <2> DEFINE s == [r EXCEPT !.pc = "sent", !.k = r.k + 1]
  <2>1. next = s
    BY <1>2, <1>6
  <2> HIDE DEF next
  <2>2. s \in Thread
    <3>1. r.k + 1 \in Nat
        BY <1>1 DEF Thread
    <3> QED
        BY <3>1, <1>1 DEF Thread
  <2>3. /\ s.pc = "sent" /\ s.cmd = "STMT" /\ s.k = r.k + 1
        /\ s.job = r.job /\ s.attempt = r.attempt /\ s.handle = r.handle
    BY <1>1, <1>2, <1>6 DEF Thread
  <2> HIDE DEF s
  <2>4. Goal(s)
    BY <2>1, <2>2, <2>3, <1>2, <1>3, <1>6 DEF Sensible, Follows
  <2> QED
    BY <2>4 DEF r
<1>7. CASE r.cmd = "STMT" /\ r.job \in Trx /\ ok /\ r.k = Size[r.job]
  <2> DEFINE s == [r EXCEPT !.pc = "sent", !.cmd = "COMMIT"]
  <2>1. next = s
    BY <1>2, <1>7
  <2> HIDE DEF next
  <2>2. s \in Thread
    BY <1>1, <1>2, <1>7 DEF Thread
  <2>3. /\ s.pc = "sent" /\ s.cmd = "COMMIT"
        /\ s.job = r.job /\ s.attempt = r.attempt /\ s.handle = r.handle
    BY <1>1, <1>2, <1>7 DEF Thread
  <2> HIDE DEF s
  <2>4. Goal(s)
    BY <2>1, <2>2, <2>3, <1>2, <1>3, <1>7 DEF Sensible, Follows
  <2> QED
    BY <2>4 DEF r
<1>8. CASE r.cmd = "STMT" /\ r.job \in Trx /\ ~ok
  <2> DEFINE s == [r EXCEPT !.pc = "sent", !.cmd = "ROLLBACK", !.code = err]
  <2>1. next = s
    BY <1>2, <1>8 DEF StatementFailed
  <2> HIDE DEF next
  <2>2. s \in Thread
    BY <1>1, <1>2, <1>8 DEF Thread
  <2>3. /\ s.pc = "sent" /\ s.cmd = "ROLLBACK" /\ s.code = err
        /\ s.job = r.job /\ s.attempt = r.attempt /\ s.handle = r.handle
    BY <1>1, <1>2, <1>8 DEF Thread
  <2> HIDE DEF s
  <2>4. Goal(s)
    BY <2>1, <2>2, <2>3, <1>2, <1>3, <1>8 DEF Sensible, Follows
  <2> QED
    BY <2>4 DEF r
<1>9. CASE r.cmd = "COMMIT"
  <2> DEFINE s == [r EXCEPT !.pc = "returned", !.code = "0"]
  <2>1. next = s
    BY <1>2, <1>9
  <2> HIDE DEF next
  <2>2. s \in Thread
    BY <1>1, <1>2, <1>9 DEF Thread
  <2>3. /\ s.pc = "returned" /\ s.code = "0"
        /\ s.job = r.job /\ s.attempt = r.attempt /\ s.handle = r.handle
    BY <1>1, <1>2, <1>9 DEF Thread
  <2> HIDE DEF s
  <2>4. Goal(s)
    BY <2>1, <2>2, <2>3, <1>2, <1>3, <1>9 DEF Sensible, Follows
  <2> QED
    BY <2>4 DEF r
<1>10. CASE r.cmd = "ROLLBACK"
  <2> DEFINE s == [r EXCEPT !.pc = "returned"]
  <2>1. next = s
    BY <1>2, <1>10
  <2> HIDE DEF next
  <2>2. s \in Thread
    BY <1>1, <1>2, <1>10 DEF Thread
  <2>3. /\ s.pc = "returned" /\ s.code = r.code
        /\ s.job = r.job /\ s.attempt = r.attempt /\ s.handle = r.handle
    BY <1>1, <1>2, <1>10 DEF Thread
  <2> HIDE DEF s
  <2>4. Goal(s)
    BY <2>1, <2>2, <2>3, <1>2, <1>3, <1>10 DEF Sensible, Follows
  <2> QED
    BY <2>4 DEF r
<1>11. r.cmd = "STMT" /\ r.job \in Trx =>
            r.k < Size[r.job] \/ r.k = Size[r.job]
    BY <1>2
<1> QED
    BY <1>2, <1>4, <1>5, <1>6, <1>7, <1>8, <1>9, <1>10, <1>11

(***************************************************************************)
(* A step that changes one connection's thread and session, and neither    *)
(* the lock nor the attempt it counts for, keeps the invariant if what it  *)
(* leaves there is sensible and closed where it has to be.                 *)
(***************************************************************************)
LEMMA ThreadStep ==
    ASSUME IInv, NEW c \in Conn, NEW s \in Thread,
           conn' = [conn EXCEPT ![c] = s],
           s.attempt = conn[c].attempt, deadlockLock' = deadlockLock,
           Sensible(s),
           NEW o \in BOOLEAN, open' = [open EXCEPT ![c] = o],
           NEW p \in Statements, pending' = [pending EXCEPT ![c] = p],
           Outside(s) => ~o /\ p = Nothing,
           table' \in Statements,
           result' \in [Job -> {"none", "running", "ok", "failed"}],
           cut' \in [Job -> BOOLEAN],
           commitRefused' \in [Job -> BOOLEAN],
           losses' \in 0..MaxLosses
    PROVE  IInv'
<1>1. conn \in [Conn -> Thread] /\ open \in [Conn -> BOOLEAN]
      /\ pending \in [Conn -> Statements] /\ deadlockLock \in Async \cup {Null}
    BY DEF IInv, TypeOK, Thread
<1>2. conn'[c] = s /\ \A d \in Conn : d # c => conn'[d] = conn[d]
    BY <1>1
<1>3. /\ open'[c] = o /\ pending'[c] = p
      /\ \A d \in Conn : d # c => open'[d] = open[d] /\ pending'[d] = pending[d]
    BY <1>1
<1>4. conn' \in [Conn -> Thread]
    BY <1>1
<1>5. TypeOK'
    BY <1>1, <1>4 DEF TypeOK, Thread
<1>6. \A d \in Conn : Sensible(conn'[d])
    BY <1>2 DEF IInv
<1>7. \A d \in Conn : Outside(conn'[d]) => Closed(d)'
    BY <1>2, <1>3 DEF IInv, Closed
<1>8. \A d \in Conn : conn'[d].attempt = conn[d].attempt
    BY <1>2
<1>9. OneRetrier'
    BY <1>8 DEF IInv, OneRetrier, Conn
<1> QED
    BY <1>5, <1>6, <1>7, <1>9 DEF IInv

(***************************************************************************)
(* The process is gone: every session is rolled back, the lock is free.    *)
(***************************************************************************)
LEMMA FatalKeepsIInv ==
    ASSUME IInv, Fatal
    PROVE  IInv'
<1>1. [Idle EXCEPT !.pc = "aborted"] \in Thread
  <2>1. Idle \in Thread
    BY BoundsAssumption DEF Idle, Thread
  <2> QED
    BY <2>1 DEF Thread
<1>2. /\ conn' = [d \in Conn |-> [Idle EXCEPT !.pc = "aborted"]]
      /\ deadlockLock' = Null
      /\ open' = [d \in Conn |-> FALSE] /\ pending' = [d \in Conn |-> Nothing]
      /\ UNCHANGED <<table, result, cut, commitRefused, losses>>
    BY DEF Fatal
<1>3. \A d \in Conn : conn'[d] = [Idle EXCEPT !.pc = "aborted"]
    BY <1>2
<1>4. TypeOK'
    BY <1>1, <1>2, NothingIsWritten DEF IInv, TypeOK, Thread
<1>5. \A d \in Conn : Sensible(conn'[d]) /\ Closed(d)'
    BY <1>2, <1>3 DEF Idle, Sensible, Closed
<1>6. OneRetrier'
    BY <1>2, <1>3, JobsAssumption DEF OneRetrier, Idle, Conn
<1> QED
    BY <1>4, <1>5, <1>6 DEF IInv

(***************************************************************************)
(* The call returns: the session is closed already, and if the thread was  *)
(* retrying under _deadlockLock it lets go of it.                          *)
(***************************************************************************)
LEMMA ReturnKeepsIInv ==
    ASSUME IInv, NEW c \in Conn, NEW res \in {"ok", "failed"},
           conn[c].pc = "returned", Return(c, res)
    PROVE  IInv'
<1> DEFINE s == [Idle EXCEPT !.handle = conn[c].handle]
<1>1. conn \in [Conn -> Thread] /\ deadlockLock \in Async \cup {Null}
      /\ result \in [Job -> {"none", "running", "ok", "failed"}]
    BY DEF IInv, TypeOK, Thread
<1>2. s \in Thread /\ s.attempt = 0 /\ s.pc = "idle"
    BY <1>1, BoundsAssumption DEF Idle, Thread
<1>3. /\ conn' = [conn EXCEPT ![c] = s]
      /\ result' = [result EXCEPT ![conn[c].job] = res]
      /\ deadlockLock' = IF deadlockLock = c THEN Null ELSE deadlockLock
      /\ UNCHANGED <<open, pending, table, cut, commitRefused, losses>>
    BY DEF Return, serverVars
<1> HIDE DEF s
<1>4. conn'[c] = s /\ \A d \in Conn : d # c => conn'[d] = conn[d]
    BY <1>1, <1>3
<1>5. TypeOK'
  <2>1. conn' \in [Conn -> Thread]
    BY <1>1, <1>2, <1>3
  <2>2. result' \in [Job -> {"none", "running", "ok", "failed"}]
    BY <1>1, <1>3
  <2> QED
    BY <2>1, <2>2, <1>1, <1>3 DEF IInv, TypeOK, Thread
<1>6. \A d \in Conn : Sensible(conn'[d])
    BY <1>2, <1>4 DEF IInv, Sensible
<1>7. \A d \in Conn : Outside(conn'[d]) => Closed(d)'
    BY <1>3, <1>4 DEF IInv, Outside, Closed
<1>8. OneRetrier'
  <2>1. Null \notin Conn
    BY JobsAssumption
  <2>2. ASSUME NEW d \in Async PROVE conn'[d].attempt > 0 <=> deadlockLock' = d
    <3>1. d \in Conn /\ (conn[d].attempt > 0 <=> deadlockLock = d)
        BY DEF IInv, OneRetrier, Conn
    <3>2. CASE d = c
        BY <3>1, <3>2, <2>1, <1>2, <1>3, <1>4
    <3>3. CASE d # c
        BY <3>1, <3>3, <2>1, <1>3, <1>4
    <3> QED
        BY <3>2, <3>3
  <2> QED
    BY <2>2 DEF OneRetrier
<1> QED
    BY <1>5, <1>6, <1>7, <1>8 DEF IInv

(***************************************************************************)
(* A thread tries again: on a worker it must hold _deadlockLock, or takes  *)
(* it when nobody does.                                                    *)
(***************************************************************************)
LEMMA RetryKeepsIInv ==
    ASSUME IInv, NEW c \in Conn, conn[c].pc = "returned", Retry(c),
           c \in Async =>
              \/ conn[c].attempt > 0 /\ deadlockLock' = deadlockLock
              \/ deadlockLock = Null /\ deadlockLock' = c,
           c \notin Async => deadlockLock' = deadlockLock,
           UNCHANGED <<serverVars, result, cut, commitRefused, losses>>
    PROVE  IInv'
<1> DEFINE r == [conn[c] EXCEPT !.attempt = conn[c].attempt + 1]
           s == StartAttempt(r)
<1>1. conn \in [Conn -> Thread] /\ deadlockLock \in Async \cup {Null}
    BY DEF IInv, TypeOK, Thread
<1>2. conn[c] \in Thread /\ conn[c].job \in Job
    BY <1>1 DEF IInv, Sensible
<1>3. /\ r \in Thread /\ r.job \in Job
      /\ r.attempt = conn[c].attempt + 1 /\ conn[c].attempt \in Nat
    BY <1>2 DEF Thread
<1>4. conn' = [conn EXCEPT ![c] = s]
    BY Zenon DEF Retry
<1> HIDE DEF r
<1>5. s \in Thread /\ Sensible(s) /\ s.attempt = r.attempt
    BY <1>3, StartAttemptMeans
<1> HIDE DEF s
<1>6. conn'[c] = s /\ \A d \in Conn : d # c => conn'[d] = conn[d]
    BY <1>1, <1>4
<1>7. TypeOK'
  <2>1. conn' \in [Conn -> Thread]
    BY <1>1, <1>4, <1>5
  <2>2. deadlockLock' \in Async \cup {Null}
    BY <1>1
  <2> QED
    BY <2>1, <2>2 DEF IInv, TypeOK, Thread, serverVars
<1>8. \A d \in Conn : Sensible(conn'[d])
    BY <1>5, <1>6 DEF IInv
<1>9. \A d \in Conn : Outside(conn'[d]) => Closed(d)'
  <2>1. Closed(c)
    BY DEF IInv, Outside
  <2> QED
    BY <2>1, <1>6 DEF IInv, Closed, serverVars
<1>10. OneRetrier'
  <2>1. Null \notin Conn
    BY JobsAssumption
  <2>2. ASSUME NEW d \in Async PROVE conn'[d].attempt > 0 <=> deadlockLock' = d
    <3>1. d \in Conn /\ (conn[d].attempt > 0 <=> deadlockLock = d)
        BY DEF IInv, OneRetrier, Conn
    <3>2. CASE d = c
      <4>1. conn'[d].attempt > 0
        BY <3>2, <1>3, <1>5, <1>6
      <4>2. deadlockLock' = d
        BY <3>1, <3>2
      <4> QED
        BY <4>1, <4>2
    <3>3. CASE d # c
        BY <3>1, <3>3, <2>1, <1>6
    <3> QED
        BY <3>2, <3>3
  <2> QED
    BY <2>2 DEF OneRetrier
<1> QED
    BY <1>7, <1>8, <1>9, <1>10 DEF IInv

(***************************************************************************)
(* The server appends whole statements of jobs, to what is pending or to   *)
(* the table.                                                              *)
(***************************************************************************)
LEMMA ServerKeepsTypes ==
    ASSUME TypeOK, NEW c \in Conn, Sensible(conn[c]), conn[c].pc = "sent"
    PROVE  /\ TableAfter(c) \in Statements
           /\ OpenAfter(c) \in BOOLEAN
           /\ PendingAfter(c) \in Statements
<1>1. /\ table \in Statements /\ pending[c] \in Statements
      /\ open[c] \in BOOLEAN
    BY DEF TypeOK
<1>2. conn[c].cmd = "STMT" =>
        /\ WithStatement(table, c) \in Statements
        /\ WithStatement(pending[c], c) \in Statements
    BY <1>1, WithStatementMeans DEF Sensible
<1>3. conn[c].cmd \in {"START", "COMMIT"} => TableAfter(c) \in Statements
  <2> SUFFICES ASSUME conn[c].cmd \in {"START", "COMMIT"} PROVE TableAfter(c) \in Statements
    OBVIOUS
  <2>1. TableAfter(c) = [j \in Job |-> table[j] \o pending[c][j]]
    BY DEF TableAfter
  <2> QED
    BY <2>1, <1>1, JoinedIsWritten
<1>4. TableAfter(c) \in Statements
    BY <1>1, <1>2, <1>3 DEF TableAfter
<1>5. PendingAfter(c) \in Statements
    BY <1>1, <1>2, NothingIsWritten DEF PendingAfter
<1> QED
    BY <1>1, <1>4, <1>5 DEF OpenAfter

(***************************************************************************)
(* The invariant holds in every reachable state.                           *)
(***************************************************************************)
THEOREM Invariance == Spec => []IInv
<1>1. IInv /\ [Next]_vars => IInv'
  <2> SUFFICES ASSUME IInv, [Next]_vars PROVE IInv'
    OBVIOUS
  <2>1. /\ conn \in [Conn -> Thread] /\ open \in [Conn -> BOOLEAN]
        /\ pending \in [Conn -> Statements] /\ table \in Statements
        /\ result \in [Job -> {"none", "running", "ok", "failed"}]
        /\ cut \in [Job -> BOOLEAN] /\ commitRefused \in [Job -> BOOLEAN]
        /\ losses \in 0..MaxLosses
    BY DEF IInv, TypeOK, Thread
  <2>2. \A c \in Conn : /\ open[c] \in BOOLEAN /\ open = [open EXCEPT ![c] = open[c]]
                        /\ pending[c] \in Statements
                        /\ pending = [pending EXCEPT ![c] = pending[c]]
    BY <2>1
  <2>3. Nothing \in Statements
    BY NothingIsWritten
  <2>4. ASSUME NEW c \in Conn, NEW j \in Job, Begin(c, j) PROVE IInv'
    <3> DEFINE r == [conn[c] EXCEPT !.job = j]
               s == StartAttempt(r)
    <3>1. /\ conn[c].pc = "idle" /\ conn' = [conn EXCEPT ![c] = s]
          /\ result' = [result EXCEPT ![j] = "running"]
          /\ UNCHANGED <<deadlockLock, open, pending, table, cut, commitRefused, losses>>
        BY <2>4 DEF Begin, serverVars
    <3>2. r \in Thread /\ r.job \in Job /\ r.attempt = conn[c].attempt
      <4>1. conn[c] \in Thread
        BY <2>1
      <4> QED
        BY <4>1 DEF Thread
    <3> HIDE DEF r
    <3>3. s \in Thread /\ Sensible(s) /\ s.attempt = conn[c].attempt
        BY <3>2, StartAttemptMeans
    <3> HIDE DEF s
    <3>4. ~open[c] /\ pending[c] = Nothing
        BY <3>1 DEF IInv, Outside, Closed
    <3>5. result' \in [Job -> {"none", "running", "ok", "failed"}]
        BY <2>1, <3>1
    <3> QED
        BY <3>1, <3>3, <3>4, <3>5, <2>1, <2>2, ThreadStep
  <2>5. ASSUME NEW c \in Conn, Answered(c) PROVE IInv'
    <3>1. /\ conn[c].pc = "sent" /\ conn[c].handle
          /\ table' = TableAfter(c)
          /\ open' = [open EXCEPT ![c] = OpenAfter(c)]
          /\ pending' = [pending EXCEPT ![c] = PendingAfter(c)]
          /\ Continue(c, TRUE, "0")
          /\ UNCHANGED <<deadlockLock, result, cut, commitRefused, losses>>
        BY <2>5 DEF Answered, Sending
    <3>2. TypeOK /\ Sensible(conn[c])
        BY DEF IInv
    <3>3. PICK s \in Thread :
             /\ conn' = [conn EXCEPT ![c] = s]
             /\ Sensible(s)
             /\ s.attempt = conn[c].attempt /\ s.handle = conn[c].handle
             /\ s.job = conn[c].job
             /\ \/ s.pc = "sent" /\ s.cmd # "START" /\ s.job \notin Plain
                \/ /\ s.pc = "returned"
                   /\ \/ conn[c].cmd \in {"COMMIT", "ROLLBACK"}
                      \/ conn[c].cmd = "STMT" /\ conn[c].job \in Plain
        BY <3>1, <3>2, ContinueMeans
    <3>4. /\ TableAfter(c) \in Statements
          /\ OpenAfter(c) \in BOOLEAN
          /\ PendingAfter(c) \in Statements
        BY <3>1, <3>2, ServerKeepsTypes
    <3>5. Outside(s) => ~OpenAfter(c) /\ PendingAfter(c) = Nothing
      <4>1. conn[c].job \in Plain => ~open[c]
        BY DEF IInv, Outside, Closed
      <4>2. Outside(s) => s.pc = "returned"
        BY <3>1, <3>3 DEF Outside
      <4> QED
        BY <4>1, <4>2, <3>3 DEF OpenAfter, PendingAfter
    <3> QED
        BY <3>1, <3>3, <3>4, <3>5, <2>1, ThreadStep
  <2>6. ASSUME NEW c \in Conn, Deadlocked(c) \/ CommitRefused(c) PROVE IInv'
    <3>1. /\ conn[c].pc = "sent"
          /\ open' = [open EXCEPT ![c] = FALSE]
          /\ pending' = [pending EXCEPT ![c] = Nothing]
          /\ \E err \in {"deadlock", "error"} : Continue(c, FALSE, err)
          /\ commitRefused' \in [Job -> BOOLEAN]
          /\ UNCHANGED <<deadlockLock, table, result, cut, losses>>
        BY <2>1, <2>6 DEF Deadlocked, CommitRefused, Sending, RollBack
    <3>2. PICK s \in Thread :
             /\ conn' = [conn EXCEPT ![c] = s]
             /\ Sensible(s) /\ s.attempt = conn[c].attempt
        BY <3>1, ContinueMeans DEF IInv
    <3> QED
        BY <3>1, <3>2, <2>1, <2>3, ThreadStep
  <2>7. ASSUME NEW c \in Conn, Refused(c) \/ StartRefused(c) \/ NoHandle(c) PROVE IInv'
    <3>1. PICK err \in {"0", "deadlock", "error"} : Continue(c, FALSE, err)
        BY <2>7 DEF Refused, StartRefused, NoHandle
    <3>2. /\ conn[c].pc = "sent"
          /\ conn[c].handle => conn[c].cmd \in {"START", "STMT"}
          /\ UNCHANGED <<deadlockLock, open, pending, table, result, commitRefused>>
          /\ cut' \in [Job -> BOOLEAN]
        BY <2>7, <2>1 DEF Refused, StartRefused, NoHandle, Sending, serverVars
    <3>3. PICK s \in Thread :
             /\ conn' = [conn EXCEPT ![c] = s]
             /\ Sensible(s)
             /\ s.attempt = conn[c].attempt /\ s.handle = conn[c].handle
             /\ s.job = conn[c].job
             /\ \/ s.pc = "sent" /\ s.cmd # "START" /\ s.job \notin Plain
                \/ /\ s.pc = "returned"
                   /\ \/ conn[c].cmd \in {"COMMIT", "ROLLBACK"}
                      \/ conn[c].cmd = "STMT" /\ conn[c].job \in Plain
        BY <3>1, <3>2, ContinueMeans DEF IInv
    <3>4. Outside(s) => ~open[c] /\ pending[c] = Nothing
      <4>1. Outside(s) => Outside(conn[c])
        BY <3>2, <3>3 DEF Outside
      <4> QED
        BY <4>1 DEF IInv, Closed
    <3>5. losses' \in 0..MaxLosses
      <4>1. \/ losses' = losses
            \/ losses < MaxLosses /\ losses' = losses + 1
        BY <2>7 DEF Refused, StartRefused, NoHandle
      <4> QED
        BY <4>1, <2>1, BoundsAssumption
    <3> QED
        BY <3>2, <3>3, <3>4, <3>5, <2>1, <2>2, ThreadStep
  <2>8. ASSUME NEW c \in Conn, SchemaError(c) \/ ReconnectAborts(c) \/ RePrepareFailed(c)
        PROVE  IInv'
    BY <2>8, FatalKeepsIInv DEF SchemaError, ReconnectAborts, RePrepareFailed
  <2>9. ASSUME NEW c \in Conn, ConnectionLost(c) PROVE IInv'
    <3> DEFINE s == [conn[c] EXCEPT !.pc = "reconnecting", !.handle = FALSE]
    <3>1. /\ conn[c].pc = "sent" /\ losses < MaxLosses
          /\ table' \in {table, TableAfter(c)}
          /\ open' = [open EXCEPT ![c] = FALSE]
          /\ pending' = [pending EXCEPT ![c] = Nothing]
          /\ cut' = [cut EXCEPT ![conn[c].job] = TRUE]
          /\ conn' = [conn EXCEPT ![c] = s]
          /\ losses' = losses + 1
          /\ UNCHANGED <<deadlockLock, result, commitRefused>>
        BY <2>9, <2>1 DEF ConnectionLost, Sending, RollBack
    <3>2. s \in Thread /\ s.attempt = conn[c].attempt /\ Sensible(s)
        BY <2>1, <3>1 DEF IInv, Thread, Sensible
    <3>3. TableAfter(c) \in Statements
        BY <3>1, ServerKeepsTypes DEF IInv
    <3>4. losses' \in 0..MaxLosses
        BY <3>1, <2>1, BoundsAssumption
    <3>5. cut' \in [Job -> BOOLEAN]
        BY <3>1, <2>1
    <3> HIDE DEF s
    <3> QED
        BY <3>1, <3>2, <3>3, <3>4, <3>5, <2>1, <2>3, ThreadStep
  <2>10. ASSUME NEW c \in Conn, Reconnected(c) \/ ReconnectFailed(c) \/ ReconnectRefused(c)
         PROVE  IInv'
    <3>1. /\ conn[c].pc = "reconnecting"
          /\ UNCHANGED <<deadlockLock, open, pending, table, result, cut, commitRefused, losses>>
        BY <2>10 DEF Reconnected, ReconnectFailed, ReconnectRefused, serverVars
    <3>2. PICK s \in Thread :
             /\ conn' = [conn EXCEPT ![c] = s]
             /\ s.attempt = conn[c].attempt /\ Sensible(s)
      <4>1. CASE Reconnected(c)
        <5> DEFINE s == [conn[c] EXCEPT !.pc = "sent", !.handle = TRUE,
                                        !.tries = MaxAttempts]
        <5>1. conn' = [conn EXCEPT ![c] = s]
            BY <4>1, <2>1 DEF Reconnected
        <5>2. s \in Thread
          <6>1. conn[c] \in Thread /\ MaxAttempts \in 1..MaxAttempts
            BY <2>1, BoundsAssumption
          <6> QED
            BY <6>1 DEF Thread
        <5>3. /\ s.pc = "sent" /\ s.cmd = conn[c].cmd /\ s.k = conn[c].k
              /\ s.job = conn[c].job /\ s.attempt = conn[c].attempt
          <6>1. conn[c] \in Thread
            BY <2>1
          <6> QED
            BY <6>1 DEF Thread
        <5>4. Sensible(conn[c])
            BY DEF IInv
        <5> HIDE DEF s
        <5> QED
            BY <5>1, <5>2, <5>3, <5>4, <3>1 DEF Sensible
      <4>2. CASE ReconnectFailed(c)
        <5> DEFINE s == [conn[c] EXCEPT !.tries = @ - 1]
        <5>1. conn' = [conn EXCEPT ![c] = s] /\ conn[c].tries > 1
            BY <4>2, <2>1 DEF ReconnectFailed
        <5>2. conn[c].tries - 1 \in 1..MaxAttempts
            BY <5>1, <2>1, BoundsAssumption DEF Thread
        <5>3. s \in Thread /\ s.attempt = conn[c].attempt /\ Sensible(s)
            BY <2>1, <3>1, <5>2 DEF IInv, Thread, Sensible
        <5> HIDE DEF s
        <5> QED
            BY <5>1, <5>3
      <4>3. CASE ReconnectRefused(c)
        <5> DEFINE s == [conn[c] EXCEPT !.pc = "sent", !.tries = MaxAttempts]
        <5>1. conn' = [conn EXCEPT ![c] = s]
            BY <4>3, <2>1 DEF ReconnectRefused
        <5>2. s \in Thread
          <6>1. conn[c] \in Thread /\ MaxAttempts \in 1..MaxAttempts
            BY <2>1, BoundsAssumption
          <6> QED
            BY <6>1 DEF Thread
        <5>3. /\ s.pc = "sent" /\ s.cmd = conn[c].cmd /\ s.k = conn[c].k
              /\ s.job = conn[c].job /\ s.attempt = conn[c].attempt
          <6>1. conn[c] \in Thread
            BY <2>1
          <6> QED
            BY <6>1 DEF Thread
        <5>4. Sensible(conn[c])
            BY DEF IInv
        <5> HIDE DEF s
        <5> QED
            BY <5>1, <5>2, <5>3, <5>4, <3>1 DEF Sensible
      <4> QED
        BY <4>1, <4>2, <4>3, <2>10
    <3>3. ~open[c] /\ pending[c] = Nothing
        BY <3>1 DEF IInv, Outside, Closed
    <3> QED
        BY <3>1, <3>2, <3>3, <2>1, <2>2, ThreadStep
  <2>11. ASSUME NEW c \in Conn,
                Succeed(c) \/ GiveUp(c) \/ TimeIsOver(c) \/ LoopBroken(c)
         PROVE  IInv'
    BY <2>11, ReturnKeepsIInv DEF Succeed, GiveUp, TimeIsOver, LoopBroken
  <2>12. ASSUME NEW c \in Conn, LockAndRetry(c) \/ RetryAgain(c) \/ SynchRetry(c)
         PROVE  IInv'
    <3>1. /\ conn[c].pc = "returned" /\ Retry(c)
          /\ UNCHANGED <<serverVars, result, cut, commitRefused, losses>>
        BY <2>12 DEF LockAndRetry, RetryAgain, SynchRetry
    <3>2. c \in Async =>
              \/ conn[c].attempt > 0 /\ deadlockLock' = deadlockLock
              \/ deadlockLock = Null /\ deadlockLock' = c
      <4>1. RetryAgain(c) => conn[c].attempt > 0
        BY BoundsAssumption DEF RetryAgain
      <4>2. SynchRetry(c) => c \notin Async
        BY JobsAssumption DEF SynchRetry
      <4> QED
        BY <4>1, <4>2, <2>12 DEF LockAndRetry, RetryAgain
    <3>3. c \notin Async => deadlockLock' = deadlockLock
        BY <2>12 DEF LockAndRetry, RetryAgain, SynchRetry
    <3> QED
        BY <3>1, <3>2, <3>3, RetryKeepsIInv
  <2>13. CASE UNCHANGED vars
    BY <2>13 DEF IInv, TypeOK, OneRetrier, Closed, vars, serverVars
  <2> QED
    BY <2>4, <2>5, <2>6, <2>7, <2>8, <2>9, <2>10, <2>11, <2>12, <2>13
    DEF Next, Work, Terminated
<1> QED
    BY InitIInv, <1>1, PTL DEF Spec

(***************************************************************************)
(* What a call leaves behind is neither an open transaction nor the        *)
(* deadlock lock, on whichever path it returns: the next START TRANSACTION *)
(* on the connection commits nobody else's statements, and no worker waits *)
(* for a lock that nobody will release.                                    *)
(***************************************************************************)
THEOREM SessionHolds == Spec => []SessionInv
<1>1. IInv => SessionInv
    BY DEF IInv, Outside, Closed, SessionInv, NoTransactionLeftOpen
<1> QED
    BY <1>1, Invariance, PTL

-----------------------------------------------------------------------------
(***************************************************************************)
(* The first n statements of a job.                                        *)
(***************************************************************************)
First(n) == [k \in 1..n |-> k]

Busy(r) == r.pc \in {"sent", "reconnecting", "returned"}

(***************************************************************************)
(* A job is run by one connection, and no other session has statements of  *)
(* it.                                                                     *)
(***************************************************************************)
Owns ==
    /\ \A c \in Conn : Busy(conn[c]) => result[conn[c].job] = "running"
    /\ \A c, d \in Conn :
          Busy(conn[c]) /\ Busy(conn[d]) /\ conn[c].job = conn[d].job => c = d
    /\ \A c \in Conn, j \in Job : pending[c][j] # <<>> => conn[c].job = j

(***************************************************************************)
(* What is so of the job j, whose committed statements are s, when its     *)
(* result is res, x tells whether its connection has been cut and z        *)
(* whether the server has refused its COMMIT.                              *)
(***************************************************************************)
Told(j, s, x, z, res) ==
    /\ res = "none" => s = <<>> /\ ~z
    /\ ~x => s \in {<<>>, Whole(j)}
    /\ ~x /\ res = "ok" /\ ~z => s = Whole(j)
    /\ ~x /\ (res = "failed" \/ z) => s = <<>>
    /\ j \in Plain /\ res = "ok" => s # <<>>

(***************************************************************************)
(* How far the thread r has come with its job: o tells whether its session *)
(* is inside a transaction, p are the job's pending statements, s its      *)
(* committed ones, x whether the connection has been cut, z whether COMMIT *)
(* has been refused.                                                       *)
(***************************************************************************)
Stage(r, o, p, s, x, z) ==
    /\ r.pc = "sent" /\ ~x =>
        /\ s = <<>> /\ ~z
        /\ r.cmd = "STMT" /\ r.job \in Trx => o /\ p = First(r.k - 1)
        /\ r.cmd = "COMMIT" => p = Whole(r.job)
        /\ r.cmd = "ROLLBACK" => r.code # "0"
    /\ r.pc = "reconnecting" => x
    /\ r.pc = "returned" /\ ~x =>
        /\ r.code # "0" => s = <<>> /\ ~z
        /\ r.code = "0" => IF z THEN s = <<>> ELSE s = Whole(r.job) /\ s # <<>>
    /\ r.pc = "returned" /\ r.code = "0" /\ r.job \in Plain => s # <<>>

StageOf(c) ==
    LET j == conn[c].job
    IN  Stage(conn[c], open[c], pending[c][j], table[j], cut[j], commitRefused[j])

(***************************************************************************)
(* The inductive invariant of the properties about results, on top of      *)
(* IInv. They speak of a job that has returned; what makes them true is    *)
(* where its thread and its session stand meanwhile: nothing is committed  *)
(* before the COMMIT is answered, and then what is pending is all of the   *)
(* job and nothing else.                                                   *)
(***************************************************************************)
JInv ==
    /\ Owns
    /\ \A j \in Job : Told(j, table[j], cut[j], commitRefused[j], result[j])
    /\ \A c \in Conn : Busy(conn[c]) => StageOf(c)

(***************************************************************************)
(* The statements of a job one after the other.                            *)
(***************************************************************************)
LEMMA FirstMore ==
    ASSUME NEW n \in Nat
    PROVE  /\ First(n) \in Seq(Nat) /\ Len(First(n)) = n
           /\ First(0) = <<>>
           /\ Append(First(n), n + 1) = First(n + 1)
<1>1. \A m \in Nat : First(m) \in Seq(Nat) /\ Len(First(m)) = m
  <2> TAKE m \in Nat
  <2> DEFINE f == First(m)
  <2>1. f \in [1..m -> Nat]
    BY DEF First
  <2> HIDE DEF f
  <2>2. f \in Seq(Nat)
    BY <2>1
  <2>3. DOMAIN f = 1..m /\ DOMAIN f = 1..Len(f) /\ Len(f) \in Nat
    BY <2>1, <2>2, LenProperties
  <2> QED
    BY <2>2, <2>3 DEF f
<1>2. First(0) = <<>>
  <2> DEFINE f == First(0)
  <2>1. f \in Seq(Nat) /\ Len(f) = 0
    BY <1>1
  <2> HIDE DEF f
  <2>2. f = <<>>
    BY <2>1, EmptySeq
  <2> QED
    BY <2>2 DEF f
<1>3. Append(First(n), n + 1) = First(n + 1)
  <2> DEFINE f == First(n)
             g == First(n + 1)
             a == Append(f, n + 1)
  <2>1. /\ f \in Seq(Nat) /\ Len(f) = n
        /\ g \in Seq(Nat) /\ Len(g) = n + 1
    BY <1>1
  <2>2. \A i \in 1..n : f[i] = i
    BY DEF First
  <2>3. \A i \in 1..(n + 1) : g[i] = i
    BY DEF First
  <2> HIDE DEF f, g
  <2>4. /\ a \in Seq(Nat) /\ Len(a) = n + 1
        /\ \A i \in 1..n : a[i] = f[i]
        /\ a[n + 1] = n + 1
    BY <2>1, AppendProperties
  <2> HIDE DEF a
  <2>5. \A i \in 1..Len(a) : a[i] = g[i]
    <3> TAKE i \in 1..Len(a)
    <3>1. i \in 1..n \/ i = n + 1
      BY <2>4
    <3> QED
      BY <3>1, <2>2, <2>3, <2>4
  <2>6. a = g
    BY <2>1, <2>4, <2>5, SeqEqual
  <2> QED
    BY <2>6 DEF a, f, g
<1> QED
    BY <1>1, <1>2, <1>3

(***************************************************************************)
(* What the server does for one session concerns the job of its connection *)
(* and no other.                                                           *)
(***************************************************************************)
LEMMA OtherJobsUntouched ==
    ASSUME IInv, JInv, NEW c \in Conn, conn[c].pc = "sent",
           NEW j \in Job, j # conn[c].job
    PROVE  /\ TableAfter(c)[j] = table[j]
           /\ PendingAfter(c)[j] = <<>> /\ pending[c][j] = <<>>
           /\ Nothing[j] = <<>>
<1>1. table \in Statements /\ pending[c] \in Statements /\ Sensible(conn[c])
    BY DEF IInv, TypeOK
<1>2. pending[c][j] = <<>> /\ Nothing[j] = <<>>
    BY DEF JInv, Owns, Nothing
<1>3. conn[c].cmd = "STMT" =>
        /\ WithStatement(table, c)[j] = table[j]
        /\ WithStatement(pending[c], c)[j] = pending[c][j]
    BY <1>1, WithStatementMeans DEF Sensible
<1>4. conn[c].cmd \in {"START", "COMMIT"} => TableAfter(c)[j] = table[j]
  <2> SUFFICES ASSUME conn[c].cmd \in {"START", "COMMIT"} PROVE TableAfter(c)[j] = table[j]
    OBVIOUS
  <2>1. TableAfter(c)[j] = table[j] \o pending[c][j]
    BY DEF TableAfter
  <2>2. table[j] \in Seq(Nat)
    BY <1>1 DEF Statements
  <2> QED
    BY <2>1, <2>2, <1>2, ConcatEmptySeq
<1>5. TableAfter(c)[j] = table[j]
    BY <1>3, <1>4 DEF TableAfter
<1>6. PendingAfter(c)[j] = <<>>
    BY <1>2, <1>3 DEF PendingAfter
<1> QED
    BY <1>2, <1>5, <1>6

(***************************************************************************)
(* A step that concerns one connection and one job keeps JInv if it leaves *)
(* that job where it may be.                                               *)
(***************************************************************************)
LEMMA JobStep ==
    ASSUME IInv, JInv, NEW c \in Conn, NEW t \in Job, NEW s \in Thread,
           conn' = [conn EXCEPT ![c] = s],
           \A d \in Conn : d # c /\ Busy(conn[d]) => conn[d].job # t,
           \A d \in Conn : d # c => open'[d] = open[d] /\ pending'[d] = pending[d],
           \A j \in Job : j # t =>
               /\ table'[j] = table[j] /\ result'[j] = result[j]
               /\ cut'[j] = cut[j] /\ commitRefused'[j] = commitRefused[j],
           \A j \in Job : j # t => pending'[c][j] = <<>>,
           pending'[c][t] # <<>> => s.job = t,
           Busy(s) =>
               /\ s.job = t /\ result'[t] = "running"
               /\ Stage(s, open'[c], pending'[c][t], table'[t], cut'[t], commitRefused'[t]),
           Told(t, table'[t], cut'[t], commitRefused'[t], result'[t])
    PROVE  JInv'
<1>1. conn \in [Conn -> Thread]
    BY DEF IInv, TypeOK, Thread
<1>2. conn'[c] = s /\ \A d \in Conn : d # c => conn'[d] = conn[d]
    BY <1>1
<1>3. \A d \in Conn : Busy(conn[d]) => conn[d].job \in Job
    BY DEF IInv, Sensible, Busy
<1>4. Owns'
  <2>1. \A d \in Conn : Busy(conn'[d]) => result'[conn'[d].job] = "running"
    BY <1>2, <1>3 DEF JInv, Owns
  <2>2. \A d, e \in Conn :
          Busy(conn'[d]) /\ Busy(conn'[e]) /\ conn'[d].job = conn'[e].job => d = e
    BY <1>2 DEF JInv, Owns
  <2>3. \A d \in Conn, j \in Job : pending'[d][j] # <<>> => conn'[d].job = j
    BY <1>2 DEF JInv, Owns
  <2> QED
    BY <2>1, <2>2, <2>3 DEF Owns, Busy
<1>5. \A j \in Job : Told(j, table'[j], cut'[j], commitRefused'[j], result'[j])
    BY DEF JInv
<1>6. ASSUME NEW d \in Conn, Busy(conn'[d])
      PROVE  LET j == conn'[d].job
             IN  Stage(conn'[d], open'[d], pending'[d][j], table'[j], cut'[j], commitRefused'[j])
  <2>1. CASE d = c
    BY <2>1, <1>2, <1>6
  <2>2. CASE d # c
    <3>1. conn[d].job \in Job /\ conn[d].job # t /\ StageOf(d)
      BY <2>2, <1>2, <1>3, <1>6 DEF JInv
    <3> QED
      BY <2>2, <3>1, <1>2 DEF StageOf
  <2> QED
    BY <2>1, <2>2
<1> QED
    BY <1>4, <1>5, <1>6 DEF JInv, StageOf, Told, Stage, Busy, Whole, First

(***************************************************************************)
(* An attempt begins with nothing of the job committed or pending.         *)
(***************************************************************************)
LEMMA StartStage ==
    ASSUME NEW r \in Thread, r.job \in Job, NEW s, s = StartAttempt(r),
           NEW o, NEW p, NEW w, NEW x \in BOOLEAN, NEW z \in BOOLEAN,
           ~x => w = <<>> /\ ~z
    PROVE  Stage(s, o, p, w, x, z) /\ Busy(s) /\ s \in Thread /\ s.job = r.job
<1>1. StartsWith(s, r) /\ s \in Thread
    BY StartAttemptMeans
<1>2. ~(r.job \in Plain /\ r.job \in Trx)
    BY JobsAssumption
<1> QED
    BY <1>1, <1>2 DEF StartsWith, Stage, Busy, Job

(***************************************************************************)
(* While the connection has not been cut, the server commits a job with    *)
(* the answer to its COMMIT, or to its only statement, and then all of it. *)
(***************************************************************************)
LEMMA AnswerMeans ==
    ASSUME IInv, JInv, NEW c \in Conn, conn[c].pc = "sent", NEW t, t = conn[c].job,
           ~cut[t]
    PROVE  /\ t \in Job /\ table[t] = <<>> /\ ~commitRefused[t] /\ Whole(t) # <<>>
           /\ conn[c].cmd \notin {"START", "COMMIT"} /\ ~(conn[c].cmd = "STMT" /\ t \in Plain)
                => TableAfter(c) = table
           /\ conn[c].cmd = "START" =>
                /\ TableAfter(c)[t] = <<>>
                /\ OpenAfter(c) /\ PendingAfter(c)[t] = First(0)
           /\ conn[c].cmd = "COMMIT" \/ (conn[c].cmd = "STMT" /\ t \in Plain)
                => TableAfter(c)[t] = Whole(t)
           /\ conn[c].cmd = "STMT" /\ t \in Trx =>
                OpenAfter(c) /\ PendingAfter(c)[t] = First(conn[c].k)
<1>1. /\ Sensible(conn[c]) /\ table \in Statements /\ pending[c] \in Statements
      /\ open[c] \in BOOLEAN /\ conn[c] \in Thread
    BY DEF IInv, TypeOK, Thread
<1>2. /\ t \in Job /\ Size[t] \in Nat /\ Size[t] >= 1
      /\ t \in Plain \/ t \in Trx
      /\ ~(t \in Plain /\ t \in Trx)
      /\ conn[c].cmd = "STMT" => conn[c].k \in 1..Size[t]
      /\ conn[c].cmd \in {"START", "STMT", "COMMIT", "ROLLBACK"}
      /\ t \in Plain => conn[c].cmd = "STMT" /\ Size[t] = 1
    BY <1>1, JobsAssumption DEF Sensible, Thread, Job
<1>3. Stage(conn[c], open[c], pending[c][t], table[t], cut[t], commitRefused[t])
    BY DEF JInv, StageOf, Busy
<1>4. table[t] = <<>> /\ ~commitRefused[t]
    BY <1>3 DEF Stage
<1>5. Whole(t) = First(Size[t]) /\ Whole(t) \in Seq(Nat) /\ Whole(t) # <<>>
  <2>1. First(Size[t]) \in Seq(Nat) /\ Len(First(Size[t])) = Size[t]
    BY <1>2, FirstMore
  <2>2. First(Size[t]) # <<>>
    BY <2>1, <1>2, EmptySeq
  <2>3. Whole(t) = First(Size[t])
    BY DEF Whole, First
  <2> QED
    BY <2>1, <2>2, <2>3
<1>6. ASSUME conn[c].cmd = "START"
      PROVE  /\ TableAfter(c)[t] = <<>> /\ OpenAfter(c)
             /\ PendingAfter(c)[t] = First(0)
  <2>1. pending[c] = Nothing
    BY <1>6 DEF IInv, Outside, Closed
  <2>2. TableAfter(c)[t] = table[t] \o pending[c][t]
    BY <1>2, <1>6 DEF TableAfter
  <2>3. pending[c][t] = <<>> /\ PendingAfter(c)[t] = <<>>
    BY <2>1, <1>2, <1>6 DEF Nothing, PendingAfter
  <2>4. <<>> \in Seq(Nat) /\ <<>> = First(0)
    BY FirstMore, EmptySeq
  <2> QED
    BY <2>2, <2>3, <2>4, <1>4, <1>6, ConcatEmptySeq DEF OpenAfter
<1>7. ASSUME conn[c].cmd = "COMMIT"
      PROVE  TableAfter(c)[t] = Whole(t)
  <2>1. TableAfter(c)[t] = table[t] \o pending[c][t]
    BY <1>2, <1>7 DEF TableAfter
  <2>2. pending[c][t] = Whole(t)
    BY <1>3, <1>7 DEF Stage
  <2> QED
    BY <2>1, <2>2, <1>4, <1>5, ConcatEmptySeq
<1>8. ASSUME conn[c].cmd = "STMT", t \in Plain
      PROVE  TableAfter(c)[t] = Whole(t)
  <2>1. ~open[c]
    BY <1>8 DEF IInv, Outside, Closed
  <2>2. TableAfter(c)[t] = Append(table[t], conn[c].k)
    BY <2>1, <1>1, <1>2, <1>8, WithStatementMeans DEF TableAfter
  <2>3. conn[c].k = 0 + 1 /\ Size[t] = 0 + 1
    BY <1>2, <1>8
  <2>4. table[t] = First(0)
    BY <1>4, FirstMore, Zenon
  <2>5. Append(First(0), 0 + 1) = First(0 + 1)
    BY FirstMore
  <2> QED
    BY <2>2, <2>3, <2>4, <2>5, <1>5, Zenon
<1>9. ASSUME conn[c].cmd = "STMT", t \in Trx
      PROVE  /\ OpenAfter(c) /\ PendingAfter(c)[t] = First(conn[c].k)
             /\ TableAfter(c) = table
  <2> DEFINE k == conn[c].k
  <2>1. open[c] /\ pending[c][t] = First(k - 1)
    BY <1>3, <1>9 DEF Stage
  <2>2. PendingAfter(c)[t] = Append(pending[c][t], k)
    BY <2>1, <1>1, <1>2, <1>9, WithStatementMeans DEF PendingAfter
  <2>3. k \in Nat /\ k - 1 \in Nat /\ (k - 1) + 1 = k
    BY <1>2, <1>9
  <2> HIDE DEF k
  <2>4. Append(First(k - 1), (k - 1) + 1) = First((k - 1) + 1)
    BY <2>3, FirstMore
  <2>5. PendingAfter(c)[t] = First(k)
    BY <2>1, <2>2, <2>3, <2>4
  <2> QED
    BY <2>1, <2>5, <1>9 DEF k, OpenAfter, TableAfter
<1>10. ASSUME conn[c].cmd = "ROLLBACK"
       PROVE  TableAfter(c) = table
    BY <1>10 DEF TableAfter
<1> QED
    BY <1>2, <1>4, <1>5, <1>6, <1>7, <1>8, <1>9, <1>10

(***************************************************************************)
(* An answer takes the job one command further, and what is committed is   *)
(* what the thread will say.                                               *)
(***************************************************************************)
LEMMA AnsweredKeepsJInv ==
    ASSUME IInv, JInv, NEW c \in Conn, Answered(c)
    PROVE  JInv'
<1>0. PICK t : t = conn[c].job
    OBVIOUS
<1>1. /\ conn[c].pc = "sent"
      /\ table' = TableAfter(c)
      /\ open' = [open EXCEPT ![c] = OpenAfter(c)]
      /\ pending' = [pending EXCEPT ![c] = PendingAfter(c)]
      /\ Continue(c, TRUE, "0")
      /\ UNCHANGED <<result, cut, commitRefused>>
    BY DEF Answered, Sending
<1>2. /\ Sensible(conn[c]) /\ TypeOK /\ conn[c] \in Thread
      /\ open \in [Conn -> BOOLEAN] /\ pending \in [Conn -> Statements]
    BY DEF IInv, TypeOK, Thread
<1>3. PICK s \in Thread :
        /\ conn' = [conn EXCEPT ![c] = s]
        /\ s.job = t /\ Sensible(s)
        /\ Follows(conn[c], s, TRUE, "0")
    BY <1>0, <1>1, <1>2, ContinueMeans
<1>4. /\ t \in Job /\ Size[t] \in Nat
      /\ t \in Plain \/ t \in Trx
      /\ ~(t \in Plain /\ t \in Trx)
      /\ conn[c].cmd \in {"START", "STMT", "COMMIT", "ROLLBACK"}
      /\ t \in Plain => conn[c].cmd = "STMT"
      /\ conn[c].cmd = "STMT" => conn[c].k \in 1..Size[t]
    BY <1>0, <1>1, <1>2, JobsAssumption DEF Sensible, Thread, Job
<1>5. /\ open'[c] = OpenAfter(c) /\ pending'[c] = PendingAfter(c)
      /\ \A d \in Conn : d # c => open'[d] = open[d] /\ pending'[d] = pending[d]
    BY <1>1, <1>2
<1>6. \A j \in Job : j # t =>
        /\ table'[j] = table[j] /\ result'[j] = result[j]
               /\ cut'[j] = cut[j] /\ commitRefused'[j] = commitRefused[j]
    BY <1>0, <1>1, OtherJobsUntouched
<1>7. \A j \in Job : j # t => pending'[c][j] = <<>>
    BY <1>0, <1>1, <1>5, OtherJobsUntouched
<1>8. /\ Busy(conn[c]) /\ result[t] = "running"
      /\ \A d \in Conn : d # c /\ Busy(conn[d]) => conn[d].job # t
      /\ Stage(conn[c], open[c], pending[c][t], table[t], cut[t], commitRefused[t])
    BY <1>0, <1>1 DEF JInv, Owns, Busy, StageOf
<1>9. ASSUME ~cut[t]
      PROVE  /\ table[t] = <<>> /\ ~commitRefused[t] /\ Whole(t) # <<>>
             /\ conn[c].cmd = "START" =>
                    table'[t] = <<>> /\ open'[c] /\ pending'[c][t] = First(0)
             /\ conn[c].cmd = "STMT" /\ t \in Trx =>
                    table'[t] = <<>> /\ open'[c] /\ pending'[c][t] = First(conn[c].k)
             /\ conn[c].cmd = "ROLLBACK" => table'[t] = <<>>
             /\ conn[c].cmd = "COMMIT" \/ t \in Plain => table'[t] = Whole(t)
    BY <1>0, <1>1, <1>4, <1>5, <1>9, AnswerMeans
<1>10. ASSUME t \in Plain
       PROVE  table'[t] # <<>>
  <2>1. ~open[c] /\ table[t] \in Seq(Nat) /\ table \in Statements
    BY <1>0, <1>4, <1>10 DEF IInv, TypeOK, Outside, Closed, Statements
  <2>2. table'[t] = Append(table[t], conn[c].k)
    BY <2>1, <1>0, <1>1, <1>4, <1>10, WithStatementMeans DEF TableAfter
  <2>3. conn[c].k \in Nat
    BY <1>2 DEF Thread
  <2> QED
    BY <2>1, <2>2, <2>3, AppendProperties
<1>11. Busy(s)
    BY <1>0, <1>3, <1>4 DEF Follows, Busy
<1>12. Stage(s, open'[c], pending'[c][t], table'[t], cut'[t], commitRefused'[t])
  <2>1. cut'[t] = cut[t] /\ commitRefused'[t] = commitRefused[t]
    BY <1>1
  <2>2. CASE t \in Plain
    <3>1. s.pc = "returned" /\ s.code = "0"
      BY <2>2, <1>0, <1>3, <1>4 DEF Follows
    <3> QED
      BY <2>1, <2>2, <3>1, <1>3, <1>9, <1>10 DEF Stage
  <2>3. CASE t \in Trx /\ conn[c].cmd = "START"
    <3>1. s.pc = "sent" /\ s.cmd = "STMT" /\ s.k - 1 = 0
      BY <2>3, <1>3 DEF Follows
    <3> QED
      BY <2>1, <2>3, <3>1, <1>3, <1>9 DEF Stage
  <2>4. CASE t \in Trx /\ conn[c].cmd = "STMT" /\ conn[c].k < Size[t]
    <3>1. s.pc = "sent" /\ s.cmd = "STMT" /\ s.k - 1 = conn[c].k
      BY <2>4, <1>0, <1>3, <1>4 DEF Follows
    <3> QED
      BY <2>1, <2>4, <3>1, <1>3, <1>9 DEF Stage
  <2>5. CASE t \in Trx /\ conn[c].cmd = "STMT" /\ ~(conn[c].k < Size[t])
    <3>1. s.pc = "sent" /\ s.cmd = "COMMIT" /\ conn[c].k = Size[t]
      BY <2>5, <1>0, <1>3, <1>4 DEF Follows
    <3>2. Whole(t) = First(Size[t])
      BY DEF Whole, First
    <3> QED
      BY <2>1, <2>5, <3>1, <3>2, <1>3, <1>9 DEF Stage
  <2>6. CASE t \in Trx /\ conn[c].cmd = "COMMIT"
    <3>1. s.pc = "returned" /\ s.code = "0"
      BY <2>6, <1>3 DEF Follows
    <3> QED
      BY <2>1, <2>6, <3>1, <1>3, <1>4, <1>9 DEF Stage
  <2>7. CASE t \in Trx /\ conn[c].cmd = "ROLLBACK"
    <3>1. s.pc = "returned" /\ s.code = conn[c].code
      BY <2>7, <1>3 DEF Follows
    <3>2. ~cut[t] => conn[c].code # "0"
      BY <2>7, <1>1, <1>8 DEF Stage
    <3> QED
      BY <2>1, <2>7, <3>1, <3>2, <1>3, <1>4, <1>9 DEF Stage
  <2> QED
    BY <2>2, <2>3, <2>4, <2>5, <2>6, <2>7, <1>4
<1>13. Told(t, table'[t], cut'[t], commitRefused'[t], result'[t])
  <2>1. /\ cut'[t] = cut[t] /\ commitRefused'[t] = commitRefused[t]
        /\ result'[t] = "running"
    BY <1>1, <1>8
  <2> QED
    BY <2>1, <1>4, <1>9 DEF Told
<1> QED
    BY <1>3, <1>4, <1>5, <1>6, <1>7, <1>8, <1>1, <1>11, <1>12, <1>13, JobStep

(***************************************************************************)
(* A worker or a caller begins a job nobody has begun.                     *)
(***************************************************************************)
LEMMA BeginKeepsJInv ==
    ASSUME IInv, JInv, NEW c \in Conn, NEW t \in Job, Begin(c, t)
    PROVE  JInv'
<1> DEFINE r == [conn[c] EXCEPT !.job = t]
<1>1. /\ conn[c].pc = "idle" /\ result[t] = "none"
      /\ conn' = [conn EXCEPT ![c] = StartAttempt(r)]
      /\ result' = [result EXCEPT ![t] = "running"]
      /\ UNCHANGED <<open, pending, table, cut, commitRefused>>
    BY DEF Begin, serverVars
<1>2. /\ conn[c] \in Thread
      /\ cut \in [Job -> BOOLEAN] /\ commitRefused \in [Job -> BOOLEAN]
      /\ result \in [Job -> {"none", "running", "ok", "failed"}]
    BY DEF IInv, TypeOK, Thread
<1>3. r \in Thread /\ r.job = t
    BY <1>2 DEF Thread
<1> HIDE DEF r
<1>4. PICK s : s = StartAttempt(r)
    OBVIOUS
<1>5. table[t] = <<>> /\ table'[t] = <<>> /\ ~commitRefused'[t]
    BY <1>1 DEF JInv, Told
<1>6. result'[t] = "running" /\ \A j \in Job : j # t => result'[j] = result[j]
    BY <1>1, <1>2
<1>7. \A d \in Conn : Busy(conn[d]) => conn[d].job # t
    BY <1>1 DEF JInv, Owns
<1>8. \A j \in Job : pending'[c][j] = <<>>
    BY <1>1 DEF IInv, Outside, Closed, Nothing
<1>9. /\ Stage(s, open'[c], pending'[c][t], table'[t], cut'[t], commitRefused'[t])
      /\ s \in Thread /\ s.job = t
    BY <1>1, <1>2, <1>3, <1>4, <1>5, StartStage
<1>10. Told(t, table'[t], cut'[t], commitRefused'[t], result'[t])
    BY <1>5, <1>6 DEF Told
<1> QED
    BY <1>1, <1>4, <1>6, <1>7, <1>8, <1>9, <1>10, JobStep

(***************************************************************************)
(* A thread tries again only what has come to nothing.                     *)
(***************************************************************************)
LEMMA RetryKeepsJInv ==
    ASSUME IInv, JInv, NEW c \in Conn, conn[c].pc = "returned", conn[c].code # "0", Retry(c),
           UNCHANGED <<open, pending, table, result, cut, commitRefused>>
    PROVE  JInv'
<1> DEFINE r == [conn[c] EXCEPT !.attempt = conn[c].attempt + 1]
<1>0. PICK t : t = conn[c].job
    OBVIOUS
<1>1. conn' = [conn EXCEPT ![c] = StartAttempt(r)]
    BY Zenon DEF Retry
<1>2. /\ conn[c] \in Thread /\ t \in Job
      /\ cut \in [Job -> BOOLEAN] /\ commitRefused \in [Job -> BOOLEAN]
    BY <1>0 DEF IInv, TypeOK, Thread, Sensible
<1>3. r \in Thread /\ r.job = t
    BY <1>0, <1>2 DEF Thread
<1> HIDE DEF r
<1>4. PICK s : s = StartAttempt(r)
    OBVIOUS
<1>5. /\ result[t] = "running"
      /\ \A d \in Conn : d # c /\ Busy(conn[d]) => conn[d].job # t
      /\ Stage(conn[c], open[c], pending[c][t], table[t], cut[t], commitRefused[t])
    BY <1>0 DEF JInv, Owns, Busy, StageOf
<1>6. ~cut'[t] => table'[t] = <<>> /\ ~commitRefused'[t]
    BY <1>5 DEF Stage
<1>7. \A j \in Job : pending'[c][j] = <<>>
    BY DEF IInv, Outside, Closed, Nothing
<1>8. /\ Stage(s, open'[c], pending'[c][t], table'[t], cut'[t], commitRefused'[t])
      /\ s \in Thread /\ s.job = t
  <2>1. cut'[t] \in BOOLEAN /\ commitRefused'[t] \in BOOLEAN
    BY <1>2
  <2> QED
    BY <2>1, <1>2, <1>3, <1>4, <1>6, StartStage
<1>9. Told(t, table'[t], cut'[t], commitRefused'[t], result'[t])
    BY <1>2 DEF JInv
<1> QED
    BY <1>1, <1>2, <1>4, <1>5, <1>7, <1>8, <1>9, JobStep

(***************************************************************************)
(* A command that did not succeed: the server has at most rolled back.     *)
(***************************************************************************)
LEMMA FailureKeepsJInv ==
    ASSUME IInv, JInv, NEW c \in Conn, conn[c].pc = "sent",
           NEW err \in {"0", "deadlock", "error"}, Continue(c, FALSE, err),
           NEW p \in Statements, p \in {pending[c], Nothing},
           pending' = [pending EXCEPT ![c] = p],
           \A d \in Conn : d # c => open'[d] = open[d],
           UNCHANGED <<table, result, commitRefused>>,
           NEW y \in BOOLEAN, cut' = [cut EXCEPT ![conn[c].job] = y], cut[conn[c].job] => y,
           ~y => conn[c].cmd = "STMT" /\ err # "0"
    PROVE  JInv'
<1>0. PICK t : t = conn[c].job
    OBVIOUS
<1>1. /\ conn[c] \in Thread /\ Sensible(conn[c]) /\ TypeOK /\ t \in Job
      /\ cut \in [Job -> BOOLEAN] /\ pending \in [Conn -> Statements]
    BY <1>0 DEF IInv, TypeOK, Thread, Sensible
<1>2. PICK s \in Thread :
        /\ conn' = [conn EXCEPT ![c] = s]
        /\ s.job = t
        /\ Follows(conn[c], s, FALSE, err)
    BY <1>0, <1>1, ContinueMeans
<1>3. /\ result[t] = "running"
      /\ \A d \in Conn : d # c /\ Busy(conn[d]) => conn[d].job # t
      /\ Stage(conn[c], open[c], pending[c][t], table[t], cut[t], commitRefused[t])
    BY <1>0 DEF JInv, Owns, Busy, StageOf
<1>4. /\ cut'[t] = y /\ cut[t] \in BOOLEAN /\ (cut[t] => y)
      /\ \A j \in Job : j # t => cut'[j] = cut[j]
    BY <1>0, <1>1
<1>5. /\ pending'[c] = p
      /\ \A d \in Conn : d # c => pending'[d] = pending[d]
    BY <1>1
<1>6. \A j \in Job : j # t => pending'[c][j] = <<>>
    BY <1>0, <1>5, OtherJobsUntouched
<1>7. /\ Stage(s, open'[c], pending'[c][t], table'[t], cut'[t], commitRefused'[t])
      /\ Busy(s)
  <2>1. /\ t \in Plain \/ t \in Trx
        /\ ~(t \in Plain /\ t \in Trx)
        /\ t \in Plain => conn[c].cmd = "STMT"
        /\ conn[c].cmd \in {"START", "STMT", "COMMIT", "ROLLBACK"}
    BY <1>0, <1>1, JobsAssumption DEF Sensible, Thread, Job
  <2>2. /\ table'[t] = table[t] /\ cut'[t] = y /\ commitRefused'[t] = commitRefused[t]
        /\ ~y => table[t] = <<>> /\ ~commitRefused[t]
    BY <1>0, <1>1, <1>3, <1>4 DEF Stage
  <2>3. CASE conn[c].cmd = "STMT" /\ t \in Plain
    <3>1. s.pc = "returned" /\ s.code = "failed"
      BY <2>3, <1>0, <1>2 DEF Follows
    <3> QED
      BY <2>2, <3>1 DEF Stage, Busy
  <2>4. CASE conn[c].cmd = "STMT" /\ t \in Trx
    <3>1. s.pc = "sent" /\ s.cmd = "ROLLBACK" /\ s.code = err
      BY <2>4, <1>0, <1>2 DEF Follows
    <3> QED
      BY <2>2, <3>1 DEF Stage, Busy
  <2>5. CASE conn[c].cmd # "STMT"
    <3>1. y /\ t \notin Plain /\ s.pc \in {"sent", "returned"}
      BY <2>1, <2>5, <1>2 DEF Follows
    <3> QED
      BY <2>2, <3>1, <1>2 DEF Stage, Busy
  <2> QED
    BY <2>1, <2>3, <2>4, <2>5
<1>8. Told(t, table'[t], cut'[t], commitRefused'[t], result'[t])
  <2>1. Told(t, table[t], cut[t], commitRefused[t], result[t])
    BY <1>1 DEF JInv
  <2>2. /\ table'[t] = table[t] /\ result'[t] = result[t] /\ (cut[t] => cut'[t])
        /\ commitRefused'[t] = commitRefused[t]
    BY <1>4
  <2> QED
    BY <2>1, <2>2 DEF Told
<1>9. \A j \in Job : j # t =>
        /\ table'[j] = table[j] /\ result'[j] = result[j]
        /\ cut'[j] = cut[j] /\ commitRefused'[j] = commitRefused[j]
    BY <1>4
<1>10. /\ pending'[c][t] # <<>> => s.job = t
       /\ Busy(s) => /\ s.job = t /\ result'[t] = "running"
                     /\ Stage(s, open'[c], pending'[c][t], table'[t], cut'[t],
                              commitRefused'[t])
    BY <1>2, <1>3, <1>7
<1>11. conn' = [conn EXCEPT ![c] = s] /\ s \in Thread /\ t \in Job
    BY <1>1, <1>2
<1> QED
    BY <1>3, <1>5, <1>6, <1>8, <1>9, <1>10, <1>11, JobStep

(***************************************************************************)
(* A COMMIT that is refused takes the pending statements with it, and the  *)
(* thread goes on as if it had not been.                                   *)
(***************************************************************************)
LEMMA CommitRefusedKeepsJInv ==
    ASSUME IInv, JInv, NEW c \in Conn, CommitRefused(c)
    PROVE  JInv'
<1>0. PICK t : t = conn[c].job
    OBVIOUS
<1>1. /\ conn[c].pc = "sent" /\ conn[c].cmd = "COMMIT"
      /\ open' = [open EXCEPT ![c] = FALSE]
      /\ pending' = [pending EXCEPT ![c] = Nothing]
      /\ Continue(c, FALSE, "error")
      /\ commitRefused' = [commitRefused EXCEPT ![t] = TRUE]
      /\ UNCHANGED <<table, result, cut>>
    BY <1>0 DEF CommitRefused, Sending, RollBack
<1>2. /\ conn[c] \in Thread /\ Sensible(conn[c]) /\ TypeOK /\ t \in Job
      /\ open \in [Conn -> BOOLEAN] /\ pending \in [Conn -> Statements]
      /\ commitRefused \in [Job -> BOOLEAN] /\ cut \in [Job -> BOOLEAN]
      /\ t \notin Plain
    BY <1>0, <1>1 DEF IInv, TypeOK, Thread, Sensible
<1>3. PICK s \in Thread :
        /\ conn' = [conn EXCEPT ![c] = s]
        /\ s.job = t
        /\ s.pc = "returned" /\ s.code = "0"
    BY <1>0, <1>1, <1>2, ContinueMeans DEF Follows
<1>4. /\ result[t] = "running"
      /\ \A d \in Conn : d # c /\ Busy(conn[d]) => conn[d].job # t
      /\ Stage(conn[c], open[c], pending[c][t], table[t], cut[t], commitRefused[t])
    BY <1>0, <1>1 DEF JInv, Owns, Busy, StageOf
<1>5. /\ commitRefused'[t] = TRUE
      /\ \A j \in Job : j # t => commitRefused'[j] = commitRefused[j]
      /\ \A d \in Conn : d # c => open'[d] = open[d] /\ pending'[d] = pending[d]
      /\ \A j \in Job : pending'[c][j] = <<>>
    BY <1>1, <1>2 DEF Nothing
<1>6. ~cut[t] => table'[t] = <<>>
    BY <1>1, <1>4 DEF Stage
<1>7. Stage(s, open'[c], pending'[c][t], table'[t], cut'[t], commitRefused'[t])
    BY <1>1, <1>2, <1>3, <1>5, <1>6 DEF Stage
<1>8. Told(t, table'[t], cut'[t], commitRefused'[t], result'[t])
    BY <1>1, <1>4, <1>5, <1>6 DEF Told
<1>9. \A j \in Job : j # t =>
        /\ table'[j] = table[j] /\ result'[j] = result[j]
        /\ cut'[j] = cut[j] /\ commitRefused'[j] = commitRefused[j]
    BY <1>1, <1>5
<1>10. /\ pending'[c][t] # <<>> => s.job = t
       /\ Busy(s) => /\ s.job = t /\ result'[t] = "running"
                     /\ Stage(s, open'[c], pending'[c][t], table'[t], cut'[t],
                              commitRefused'[t])
    BY <1>1, <1>3, <1>4, <1>7
<1>11. conn' = [conn EXCEPT ![c] = s] /\ s \in Thread /\ t \in Job
    BY <1>2, <1>3
<1> QED
    BY <1>4, <1>5, <1>8, <1>9, <1>10, <1>11, JobStep

(***************************************************************************)
(* The call returns what its code says.                                    *)
(***************************************************************************)
LEMMA ReturnKeepsJInv ==
    ASSUME IInv, JInv, NEW c \in Conn, NEW res \in {"ok", "failed"},
           conn[c].pc = "returned", res = "ok" <=> conn[c].code = "0", Return(c, res)
    PROVE  JInv'
<1>0. PICK t : t = conn[c].job
    OBVIOUS
<1>1. PICK s : s = [Idle EXCEPT !.handle = conn[c].handle]
    OBVIOUS
<1>2. /\ conn' = [conn EXCEPT ![c] = s]
      /\ result' = [result EXCEPT ![t] = res]
      /\ UNCHANGED <<open, pending, table, cut, commitRefused>>
    BY <1>0, <1>1 DEF Return, serverVars
<1>3. /\ conn[c] \in Thread /\ t \in Job
      /\ result \in [Job -> {"none", "running", "ok", "failed"}]
    BY <1>0 DEF IInv, TypeOK, Thread, Sensible
<1>4. s \in Thread /\ s.pc = "idle"
    BY <1>1, <1>3, BoundsAssumption DEF Idle, Thread
<1>5. /\ \A d \in Conn : d # c /\ Busy(conn[d]) => conn[d].job # t
      /\ Stage(conn[c], open[c], pending[c][t], table[t], cut[t], commitRefused[t])
    BY <1>0 DEF JInv, Owns, Busy, StageOf
<1>6. \A j \in Job : pending'[c][j] = <<>>
    BY <1>2 DEF IInv, Outside, Closed, Nothing
<1>7. result'[t] = res /\ \A j \in Job : j # t => result'[j] = result[j]
    BY <1>2, <1>3
<1>8. Told(t, table'[t], cut'[t], commitRefused'[t], result'[t])
    BY <1>0, <1>2, <1>3, <1>5, <1>7 DEF Stage, Told
<1>9. ~Busy(s)
    BY <1>4 DEF Busy
<1> QED
    BY <1>2, <1>3, <1>4, <1>5, <1>6, <1>7, <1>8, <1>9, JobStep

(***************************************************************************)
(* A connection that is lost takes the pending statements with it, and     *)
(* what it leaves in the table is of its own job.                          *)
(***************************************************************************)
LEMMA ConnectionLostKeepsJInv ==
    ASSUME IInv, JInv, NEW c \in Conn, ConnectionLost(c)
    PROVE  JInv'
<1>0. PICK t : t = conn[c].job
    OBVIOUS
<1>1. PICK s : s = [conn[c] EXCEPT !.pc = "reconnecting", !.handle = FALSE]
    OBVIOUS
<1>2. /\ conn \in [Conn -> Thread] /\ cut \in [Job -> BOOLEAN]
      /\ open \in [Conn -> BOOLEAN] /\ pending \in [Conn -> Statements]
    BY DEF IInv, TypeOK, Thread
<1>3. /\ conn[c].pc = "sent"
      /\ table' \in {table, TableAfter(c)}
      /\ open' = [open EXCEPT ![c] = FALSE]
      /\ pending' = [pending EXCEPT ![c] = Nothing]
      /\ cut' = [cut EXCEPT ![t] = TRUE]
      /\ conn' = [conn EXCEPT ![c] = s]
      /\ result' = result /\ commitRefused' = commitRefused
    BY <1>0, <1>1, <1>2 DEF ConnectionLost, Sending, RollBack
<1>4. /\ s \in Thread /\ s.pc = "reconnecting" /\ s.job = t
      /\ t \in Job
    BY <1>0, <1>1, <1>2, <1>3 DEF IInv, Thread, Sensible
<1>5. /\ result[t] = "running"
      /\ \A d \in Conn : d # c /\ Busy(conn[d]) => conn[d].job # t
    BY <1>0, <1>3 DEF JInv, Owns, Busy
<1>6. /\ cut'[t] = TRUE
      /\ \A j \in Job : j # t => cut'[j] = cut[j]
      /\ \A d \in Conn : d # c => open'[d] = open[d] /\ pending'[d] = pending[d]
      /\ \A j \in Job : pending'[c][j] = <<>>
    BY <1>2, <1>3, <1>4 DEF Nothing
<1>7. \A j \in Job : j # t => table'[j] = table[j]
    BY <1>0, <1>3, OtherJobsUntouched
<1>8. Stage(s, open'[c], pending'[c][t], table'[t], cut'[t], commitRefused'[t])
    BY <1>4, <1>6 DEF Stage
<1>9. Told(t, table'[t], cut'[t], commitRefused'[t], result'[t])
    BY <1>3, <1>5, <1>6 DEF Told
<1>10. \A j \in Job : j # t =>
         /\ table'[j] = table[j] /\ result'[j] = result[j]
               /\ cut'[j] = cut[j] /\ commitRefused'[j] = commitRefused[j]
    BY <1>3, <1>6, <1>7
<1>11. /\ pending'[c][t] # <<>> => s.job = t
       /\ Busy(s) => /\ s.job = t /\ result'[t] = "running"
                     /\ Stage(s, open'[c], pending'[c][t], table'[t], cut'[t], commitRefused'[t])
    BY <1>3, <1>4, <1>5, <1>8
<1>12. conn' = [conn EXCEPT ![c] = s] /\ s \in Thread /\ t \in Job
    BY <1>3, <1>4
<1> QED
    BY <1>5, <1>6, <1>9, <1>10, <1>11, <1>12, JobStep

(***************************************************************************)
(* A new session changes nothing about a job that counts as cut.           *)
(***************************************************************************)
LEMMA ReconnectKeepsJInv ==
    ASSUME IInv, JInv, NEW c \in Conn,
           Reconnected(c) \/ ReconnectFailed(c) \/ ReconnectRefused(c)
    PROVE  JInv'
<1>0. PICK t : t = conn[c].job
    OBVIOUS
<1>1. conn \in [Conn -> Thread] /\ cut \in [Job -> BOOLEAN]
    BY DEF IInv, TypeOK, Thread
<1>2. /\ conn[c].pc = "reconnecting"
      /\ UNCHANGED <<open, pending, table, result, cut, commitRefused>>
    BY DEF Reconnected, ReconnectFailed, ReconnectRefused, serverVars
<1>3. PICK s \in Thread :
        /\ conn' = [conn EXCEPT ![c] = s]
        /\ s.pc \in {"sent", "reconnecting"} /\ s.job = t
  <2>1. conn[c] \in Thread /\ MaxAttempts \in 1..MaxAttempts
    BY <1>1, BoundsAssumption
  <2>2. CASE Reconnected(c)
    <3> DEFINE s == [conn[c] EXCEPT !.pc = "sent", !.handle = TRUE, !.tries = MaxAttempts]
    <3>1. conn' = [conn EXCEPT ![c] = s]
      BY <2>2, <1>1 DEF Reconnected
    <3>2. s \in Thread /\ s.pc = "sent" /\ s.job = t
      BY <2>1, <1>0 DEF Thread
    <3> HIDE DEF s
    <3> QED
      BY <3>1, <3>2
  <2>3. CASE ReconnectFailed(c)
    <3> DEFINE s == [conn[c] EXCEPT !.tries = @ - 1]
    <3>1. conn' = [conn EXCEPT ![c] = s] /\ conn[c].tries > 1
      BY <2>3, <1>1 DEF ReconnectFailed
    <3>2. conn[c].tries - 1 \in 1..MaxAttempts
      BY <3>1, <2>1, BoundsAssumption DEF Thread
    <3>3. s \in Thread /\ s.pc = conn[c].pc /\ s.job = t
      BY <2>1, <3>2, <1>0 DEF Thread
    <3> HIDE DEF s
    <3> QED
      BY <3>1, <3>3, <1>2
  <2>4. CASE ReconnectRefused(c)
    <3> DEFINE s == [conn[c] EXCEPT !.pc = "sent", !.tries = MaxAttempts]
    <3>1. conn' = [conn EXCEPT ![c] = s]
      BY <2>4, <1>1 DEF ReconnectRefused
    <3>2. s \in Thread /\ s.pc = "sent" /\ s.job = t
      BY <2>1, <1>0 DEF Thread
    <3> HIDE DEF s
    <3> QED
      BY <3>1, <3>2
  <2> QED
    BY <2>2, <2>3, <2>4
<1>4. /\ result[t] = "running" /\ t \in Job
      /\ \A d \in Conn : d # c /\ Busy(conn[d]) => conn[d].job # t
      /\ Stage(conn[c], open[c], pending[c][t], table[t], cut[t], commitRefused[t])
    BY <1>0, <1>2 DEF IInv, Sensible, JInv, Owns, Busy, StageOf
<1>5. cut'[t]
    BY <1>2, <1>4 DEF Stage
<1>6. \A j \in Job : pending'[c][j] = <<>>
    BY <1>2 DEF IInv, Outside, Closed, Nothing
<1>7. Stage(s, open'[c], pending'[c][t], table'[t], cut'[t], commitRefused'[t])
    BY <1>3, <1>5 DEF Stage
<1>8. Told(t, table'[t], cut'[t], commitRefused'[t], result'[t])
    BY <1>2, <1>4 DEF JInv
<1> QED
    BY <1>2, <1>3, <1>4, <1>6, <1>7, <1>8, JobStep

(***************************************************************************)
(* JInv holds in every reachable state.                                    *)
(***************************************************************************)
THEOREM JobInvariance == Spec => []JInv
<1>1. Init => JInv
  <2> SUFFICES ASSUME Init PROVE JInv
    OBVIOUS
  <2>1. \A c \in Conn : ~Busy(conn[c])
    BY DEF Init, Idle, Busy
  <2>2. \A c \in Conn, j \in Job : pending[c][j] = <<>>
    BY DEF Init, Nothing
  <2>3. \A j \in Job : table[j] = <<>> /\ result[j] = "none" /\ ~commitRefused[j]
    BY DEF Init, Nothing
  <2>4. \A j \in Job : Told(j, table[j], cut[j], commitRefused[j], result[j])
    BY <2>3 DEF Told
  <2> QED
    BY <2>1, <2>2, <2>4 DEF JInv, Owns
<1>2. IInv /\ JInv /\ [Next]_vars => JInv'
  <2> SUFFICES ASSUME IInv, JInv, [Next]_vars PROVE JInv'
    OBVIOUS
  <2>1. /\ open \in [Conn -> BOOLEAN] /\ pending \in [Conn -> Statements]
        /\ cut \in [Job -> BOOLEAN]
        /\ \A c \in Conn : pending[c] \in Statements /\ Nothing \in Statements
    BY NothingIsWritten DEF IInv, TypeOK
  <2>2. \A c \in Conn : conn[c].pc = "sent" => conn[c].job \in Job
    BY DEF IInv, Sensible
  <2>3. ASSUME NEW c \in Conn, NEW j \in Job, Begin(c, j) PROVE JInv'
    BY <2>3, BeginKeepsJInv
  <2>4. ASSUME NEW c \in Conn, Answered(c) PROVE JInv'
    BY <2>4, AnsweredKeepsJInv
  <2>5. ASSUME NEW c \in Conn, Deadlocked(c) PROVE JInv'
    <3>1. /\ conn[c].pc = "sent" /\ conn[c].cmd = "STMT"
          /\ pending' = [pending EXCEPT ![c] = Nothing]
          /\ open' = [open EXCEPT ![c] = FALSE]
          /\ Continue(c, FALSE, "deadlock")
          /\ UNCHANGED <<table, result, cut, commitRefused>>
      BY <2>5 DEF Deadlocked, Sending, RollBack
    <3>2. /\ \A d \in Conn : d # c => open'[d] = open[d]
          /\ cut[conn[c].job] \in BOOLEAN
          /\ cut' = [cut EXCEPT ![conn[c].job] = cut[conn[c].job]]
      BY <3>1, <2>1, <2>2
    <3> QED
      BY <3>1, <3>2, <2>1, FailureKeepsJInv
  <2>6. ASSUME NEW c \in Conn, Refused(c) PROVE JInv'
    <3>1. /\ conn[c].pc = "sent" /\ conn[c].cmd = "STMT"
          /\ Continue(c, FALSE, "error")
          /\ UNCHANGED <<open, pending, table, result, cut, commitRefused>>
      BY <2>6 DEF Refused, Sending, serverVars
    <3>2. /\ cut[conn[c].job] \in BOOLEAN
          /\ cut' = [cut EXCEPT ![conn[c].job] = cut[conn[c].job]]
          /\ pending' = [pending EXCEPT ![c] = pending[c]]
      BY <3>1, <2>1, <2>2
    <3> QED
      BY <3>1, <3>2, <2>1, FailureKeepsJInv
  <2>7. ASSUME NEW c \in Conn, NoHandle(c) \/ StartRefused(c) PROVE JInv'
    <3>1. PICK err \in {"0", "error"} : Continue(c, FALSE, err)
      BY <2>7 DEF NoHandle, StartRefused
    <3>2. /\ conn[c].pc = "sent"
          /\ cut' = [cut EXCEPT ![conn[c].job] = TRUE]
          /\ UNCHANGED <<open, pending, table, result, commitRefused>>
          /\ pending' = [pending EXCEPT ![c] = pending[c]]
      BY <2>1, <2>7 DEF NoHandle, StartRefused, Sending, serverVars
    <3> QED
      BY <3>1, <3>2, <2>1, FailureKeepsJInv
  <2>8. ASSUME NEW c \in Conn, SchemaError(c) \/ ReconnectAborts(c) \/ RePrepareFailed(c)
        PROVE  JInv'
    <3>1. /\ conn' = [d \in Conn |-> [Idle EXCEPT !.pc = "aborted"]]
          /\ pending' = [d \in Conn |-> Nothing]
          /\ UNCHANGED <<table, result, cut, commitRefused>>
      BY <2>8 DEF SchemaError, ReconnectAborts, RePrepareFailed, Fatal
    <3>2. \A d \in Conn : ~Busy(conn'[d])
      BY <3>1 DEF Idle, Busy
    <3>3. \A d \in Conn, j \in Job : pending'[d][j] = <<>>
      BY <3>1 DEF Nothing
    <3>4. Owns'
      BY <3>2, <3>3 DEF Owns, Busy
    <3> QED
      BY <3>1, <3>2, <3>4 DEF JInv, Busy, Told, Whole
  <2>9. ASSUME NEW c \in Conn, ConnectionLost(c) PROVE JInv'
    BY <2>9, ConnectionLostKeepsJInv
  <2>10. ASSUME NEW c \in Conn, Reconnected(c) \/ ReconnectFailed(c) \/ ReconnectRefused(c)
         PROVE  JInv'
    BY <2>10, ReconnectKeepsJInv
  <2>11. ASSUME NEW c \in Conn, Succeed(c) PROVE JInv'
    BY <2>11, ReturnKeepsJInv DEF Succeed
  <2>12. ASSUME NEW c \in Conn, GiveUp(c) \/ TimeIsOver(c) \/ LoopBroken(c) PROVE JInv'
    BY <2>12, ReturnKeepsJInv DEF GiveUp, TimeIsOver, LoopBroken
  <2>13. ASSUME NEW c \in Conn, LockAndRetry(c) \/ RetryAgain(c) \/ SynchRetry(c)
         PROVE  JInv'
    BY <2>13, RetryKeepsJInv DEF LockAndRetry, RetryAgain, SynchRetry, serverVars
  <2>14. ASSUME NEW c \in Conn, CommitRefused(c) PROVE JInv'
    BY <2>14, CommitRefusedKeepsJInv
  <2>15. CASE UNCHANGED vars
    BY <2>15 DEF vars, JInv, Owns, Busy, Told, StageOf, Stage, Whole, First
  <2> QED
    BY <2>3, <2>4, <2>5, <2>6, <2>7, <2>8, <2>9, <2>10, <2>11, <2>12, <2>13, <2>14,
       <2>15
    DEF Next, Work, Terminated
<1> QED
    BY <1>1, <1>2, Invariance, PTL DEF Spec

(***************************************************************************)
(* As long as its connection is not cut, all of a transaction is in the    *)
(* table, in order and once, or nothing of it.                             *)
(***************************************************************************)
THEOREM TransactionsAreAtomic == Spec => []AtomicUnlessCut
<1>1. JInv => AtomicUnlessCut
    BY DEF JInv, Told, AtomicUnlessCut, Job
<1> QED
    BY <1>1, JobInvariance, PTL

(***************************************************************************)
(* As long as its connection is not cut, what a call reports is wrong in   *)
(* one case only: a job reported as failed has left nothing, one reported  *)
(* as done is committed whole or had its COMMIT refused, and then nothing  *)
(* of it is committed.                                                     *)
(***************************************************************************)
THEOREM ResultsTellTruth == Spec => []ResultTellsTruth
<1>1. JInv => ResultTellsTruth
    BY DEF JInv, Told, ResultTellsTruth
<1> QED
    BY <1>1, JobInvariance, PTL

(***************************************************************************)
(* A single statement that is reported executed is in the table, even when *)
(* the connection was lost under it.                                       *)
(***************************************************************************)
THEOREM PlainStatementsReported == Spec => []PlainAtLeastOnce
<1>1. JInv => PlainAtLeastOnce
    BY DEF JInv, Told, PlainAtLeastOnce, Job
<1> QED
    BY <1>1, JobInvariance, PTL

-----------------------------------------------------------------------------
(***************************************************************************)
(* The environment the refinement is proved for: no connection is lost     *)
(* during a job, and no START TRANSACTION refused.  A COMMIT may be.       *)
(***************************************************************************)
Uncut == \A j \in Job : ~cut[j]

abstractVars == <<table, result, commitRefused>>

(***************************************************************************)
(* An answer commits one whole job or changes nothing in the table.        *)
(***************************************************************************)
LEMMA AnswerCommits ==
    ASSUME IInv, JInv, NEW c \in Conn, Answered(c), ~cut[conn[c].job]
    PROVE  [Abstract!Next]_abstractVars
<1>0. PICK t : t = conn[c].job
    OBVIOUS
<1>1. /\ conn[c].pc = "sent" /\ table' = TableAfter(c) /\ result' = result
      /\ commitRefused' = commitRefused
      /\ conn[c].cmd \in {"START", "STMT", "COMMIT", "ROLLBACK"}
    BY DEF Answered, Sending, IInv, Sensible, TypeOK
<1>2. /\ t \in Job /\ table[t] = <<>> /\ ~commitRefused[t]
      /\ table \in Statements /\ table' \in Statements
    BY <1>0, <1>1, AnswerMeans, ServerKeepsTypes DEF IInv, TypeOK
<1>3. \A j \in Job : j # t => table'[j] = table[j]
    BY <1>0, <1>1, OtherJobsUntouched
<1>4. result[t] = "running"
    BY <1>0, <1>1 DEF JInv, Owns, Busy
<1>5. table \in [Job -> Seq(Nat)] /\ table' \in [Job -> Seq(Nat)]
    BY <1>2 DEF Statements
<1>6. CASE conn[c].cmd = "COMMIT" \/ (conn[c].cmd = "STMT" /\ t \in Plain)
  <2>1. table'[t] = Whole(t)
    BY <1>0, <1>1, <1>6, AnswerMeans
  <2>2. table' = [table EXCEPT ![t] = Whole(t)]
    BY <2>1, <1>2, <1>3, <1>5
  <2>3. Abstract!Commit(t)
    BY <2>2, <1>1, <1>2, <1>4
    DEF Abstract!Commit, Abstract!Undecided, Abstract!Applied, Whole
  <2> QED
    BY <2>3, <1>2 DEF Abstract!Next, Abstract!Job, Job
<1>7. CASE conn[c].cmd = "START"
  <2>1. table'[t] = <<>>
    BY <1>0, <1>1, <1>7, AnswerMeans
  <2>2. table' = table
    BY <2>1, <1>2, <1>3, <1>5
  <2> QED
    BY <2>2, <1>1 DEF abstractVars
<1>8. CASE conn[c].cmd = "ROLLBACK" \/ (conn[c].cmd = "STMT" /\ t \notin Plain)
  <2>1. table' = table
    BY <1>0, <1>1, <1>8, AnswerMeans
  <2> QED
    BY <2>1, <1>1 DEF abstractVars
<1> QED
    BY <1>1, <1>6, <1>7, <1>8

(***************************************************************************)
(* A call that returns reports what has become of its job.                 *)
(***************************************************************************)
LEMMA ReturnReports ==
    ASSUME IInv, JInv, NEW c \in Conn, NEW res \in {"ok", "failed"},
           conn[c].pc = "returned", res = "ok" <=> conn[c].code = "0", Return(c, res),
           ~cut[conn[c].job]
    PROVE  Abstract!Next
<1>0. PICK t : t = conn[c].job
    OBVIOUS
<1>1. t \in Job /\ result[t] = "running"
    BY <1>0 DEF IInv, Sensible, JInv, Owns, Busy
<1>2. conn[c].code = "0" <=> table[t] # <<>> \/ commitRefused[t]
    BY <1>0 DEF JInv, StageOf, Stage, Busy
<1>3. /\ result' = [result EXCEPT ![t] = res]
      /\ table' = table /\ commitRefused' = commitRefused
    BY <1>0 DEF Return, serverVars
<1>4. res = IF Abstract!Applied(t) \/ commitRefused[t] THEN "ok" ELSE "failed"
    BY <1>2 DEF Abstract!Applied
<1>5. Abstract!Report(t)
    BY <1>1, <1>3, <1>4 DEF Abstract!Report
<1> QED
    BY <1>1, <1>5 DEF Abstract!Next, Abstract!Job, Job

(***************************************************************************)
(* A COMMIT that is refused decides that the job will never be committed.  *)
(***************************************************************************)
LEMMA CommitRefusedRefuses ==
    ASSUME IInv, JInv, NEW c \in Conn, CommitRefused(c), ~cut[conn[c].job]
    PROVE  Abstract!Next
<1>0. PICK t : t = conn[c].job
    OBVIOUS
<1>1. /\ conn[c].pc = "sent" /\ conn[c].cmd = "COMMIT"
      /\ commitRefused' = [commitRefused EXCEPT ![t] = TRUE]
      /\ UNCHANGED <<table, result>>
    BY <1>0 DEF CommitRefused, Sending
<1>2. t \in Trx
    BY <1>0, <1>1 DEF IInv, Sensible, Job
<1>3. result[t] = "running" /\ table[t] = <<>> /\ ~commitRefused[t]
    BY <1>0, <1>1 DEF JInv, Owns, StageOf, Stage, Busy
<1>4. Abstract!Refuse(t)
    BY <1>1, <1>3 DEF Abstract!Refuse, Abstract!Undecided, Abstract!Applied
<1> QED
    BY <1>2, <1>4 DEF Abstract!Next

(***************************************************************************)
(* As long as no job's connection is cut, the connections together         *)
(* implement atomic transactions, however deadlocks, refused statements,   *)
(* refused COMMITs and retries interleave.                                 *)
(***************************************************************************)
THEOREM ImplementsAtomicTransactions == Spec /\ []Uncut => AtomicSpec
<1>1. Init => Abstract!Init
    BY DEF Init, Nothing, Job, Abstract!Init, Abstract!Job
<1>2. IInv /\ JInv /\ Uncut /\ Uncut' /\ [Next]_vars => [Abstract!Next]_abstractVars
  <2> SUFFICES ASSUME IInv, JInv, Uncut, Uncut', [Next]_vars
               PROVE  [Abstract!Next]_abstractVars
    OBVIOUS
  <2>1. \A c \in Conn : conn[c].pc \in {"sent", "returned", "reconnecting"} =>
            conn[c].job \in Job /\ ~cut[conn[c].job] /\ ~cut'[conn[c].job]
    BY DEF Uncut, IInv, Sensible
  <2>2. ASSUME NEW c \in Conn, NEW j \in Job, Begin(c, j)
        PROVE  [Abstract!Next]_abstractVars
    <3>1. Abstract!Start(j)
      BY <2>2 DEF Begin, serverVars, Abstract!Start
    <3> QED
      BY <3>1 DEF Abstract!Next, Abstract!Job, Job
  <2>3. ASSUME NEW c \in Conn, Answered(c)
        PROVE  [Abstract!Next]_abstractVars
    BY <2>3, <2>1, AnswerCommits DEF Answered, Sending
  <2>4. ASSUME NEW c \in Conn, CommitRefused(c)
        PROVE  [Abstract!Next]_abstractVars
    BY <2>4, <2>1, CommitRefusedRefuses DEF CommitRefused, Sending
  <2>5. ASSUME NEW c \in Conn, Succeed(c)
        PROVE  [Abstract!Next]_abstractVars
    BY <2>5, <2>1, ReturnReports DEF Succeed
  <2>6. ASSUME NEW c \in Conn, GiveUp(c) \/ TimeIsOver(c) \/ LoopBroken(c)
        PROVE  [Abstract!Next]_abstractVars
    BY <2>6, <2>1, ReturnReports DEF GiveUp, TimeIsOver, LoopBroken
  <2>7. ASSUME NEW c \in Conn, ConnectionLost(c) \/ StartRefused(c) \/ NoHandle(c)
        PROVE  FALSE
    <3>1. conn[c].pc = "sent" /\ cut' = [cut EXCEPT ![conn[c].job] = TRUE]
      BY <2>7 DEF ConnectionLost, StartRefused, NoHandle, Sending
    <3>2. cut \in [Job -> BOOLEAN] /\ conn[c].job \in Job
      BY <2>1, <3>1 DEF IInv, TypeOK
    <3> QED
      BY <2>1, <3>1, <3>2
  <2>8. ASSUME NEW c \in Conn,
               \/ Deadlocked(c) \/ Refused(c) \/ SchemaError(c)
               \/ Reconnected(c) \/ ReconnectFailed(c) \/ ReconnectRefused(c)
               \/ ReconnectAborts(c) \/ RePrepareFailed(c)
               \/ LockAndRetry(c) \/ RetryAgain(c) \/ SynchRetry(c)
        PROVE  UNCHANGED abstractVars
    BY <2>8 DEF Deadlocked, Refused, SchemaError, Reconnected, ReconnectFailed,
                ReconnectRefused, ReconnectAborts, RePrepareFailed, LockAndRetry,
                RetryAgain, SynchRetry, Fatal, serverVars, abstractVars
  <2>9. CASE UNCHANGED vars
    BY <2>9 DEF vars, serverVars, abstractVars
  <2> QED
    BY <2>2, <2>3, <2>4, <2>5, <2>6, <2>7, <2>8, <2>9 DEF Next, Work, Terminated
<1> QED
    BY <1>1, <1>2, Invariance, JobInvariance, PTL
    DEF Spec, AtomicSpec, Abstract!Spec, abstractVars
=============================================================================
