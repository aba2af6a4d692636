---------------------------- MODULE UpdateFetcher ----------------------------
(***************************************************************************)
(* src/shared/Database/Updater/UpdateFetcher.cpp, as DBUpdater::Update     *)
(* runs it: SQL files of the include directories against the table         *)
(* `updates`, which remembers what was applied.  Nothing in this version   *)
(* of the repository calls DBUpdater yet.                                  *)
(*                                                                         *)
(* A run lists the files, reads the table, and then takes the files in the *)
(* order of their names.  Each statement it sends, and each file it gives  *)
(* to the mysql program, is a step of its own.  Covered: the process dies  *)
(* between any two steps; a query or statement fails, of which the callers *)
(* are not told (Query answers null, DirectExecute nothing); a file fails  *)
(* in the mysql program; files are edited, moved or removed at any time.   *)
(* Left out: Create and Populate, and how long things take.                *)
(***************************************************************************)
EXTENDS Integers, FiniteSets

CONSTANTS
    Name,               \* file names; their order is that of the numbers
    Hash,               \* contents, as CalculateSHA1Hash tells them apart
    NoHash,             \* the empty hash of a row that awaits a rehash
    NoFile,             \* no file in hand
    Bases,              \* what `updates` may hold when the base database is new
    FirstFiles,         \* what the include directories may hold then
    Configs,            \* the Updates.* settings
    MaxEdits, MaxFaults \* bounds: changes to the files, faults of the system

State == {"RELEASED", "ARCHIVED"}
File == [name : Name, hash : Hash, state : State]
Row == [name : Name, hash : Hash \cup {NoHash}, state : State]
Config == [redundancy : BOOLEAN, rehash : BOOLEAN, archived : BOOLEAN, cleanMax : Int]

\* `name` is the primary key, and GetFileList rejects a file name found twice.
Unique(T) == \A r, s \in T : r.name = s.name => r = s

ASSUME NameAssumption == Name \subseteq Nat /\ IsFiniteSet(Name)
ASSUME HashAssumption == NoHash \notin Hash
ASSUME NoFileAssumption == NoFile \notin [name : Name, state : State]
ASSUME BaseAssumption ==
    /\ Bases \subseteq SUBSET Row /\ FirstFiles \subseteq SUBSET File
    /\ \A T \in Bases \cup FirstFiles : Unique(T)
ASSUME ConfigAssumption == Configs \subseteq Config
ASSUME BoundAssumption == MaxEdits \in Nat /\ MaxFaults \in Nat

VARIABLES
    files,              \* the files in the include directories
    updates,            \* the table
    config,             \* what sConfigMgr answers
    pc,                 \* where the run is; "idle" when there is none
    available,          \* names and states, as GetFileList found them
    applied,            \* rows as ReceiveAppliedFiles found them, less those settled
    hashToName,
    cur,                \* availableQuery
    hash,               \* the hash computed for it
    executed,           \* history: contents that ran to their end
    rehashed,           \* history: contents taken as applied by a rehash
    replaced,           \* history: contents overwritten or removed during a run
    owed,               \* history: names this run must execute and has not yet
    upset,              \* history: what went wrong in this run
    edits, faults

run == <<available, applied, hashToName, cur, hash, owed, upset>>
history == <<executed, rehashed, replaced>>
vars == <<files, updates, config, pc, run, history, edits, faults>>

Has(T, n) == \E r \in T : r.name = n
Without(T, N) == {r \in T : r.name \notin N}
RowOf(T, n) == CHOOSE r \in T : r.name = n
Names(T) == {r.name : r \in T}

\* The local variables of Update end with it.
NoRun ==
    /\ pc' = "idle" /\ available' = {} /\ applied' = {} /\ hashToName' = <<>>
    /\ cur' = NoFile /\ hash' = NoHash /\ owed' = {} /\ upset' = {}

Init ==
    /\ files \in FirstFiles
    /\ updates \in Bases
    /\ config \in Configs
    /\ pc = "idle" /\ available = {} /\ applied = {} /\ hashToName = <<>>
    /\ cur = NoFile /\ hash = NoHash /\ owed = {} /\ upset = {}
    /\ executed = {r.hash : r \in updates} \ {NoHash}
    /\ rehashed = {} /\ replaced = {}
    /\ edits = 0 /\ faults = 0

MayFail == faults < MaxFaults /\ faults' = faults + 1
Fault(what) == MayFail /\ upset' = upset \cup what
NoFault == UNCHANGED <<faults, upset>>

-----------------------------------------------------------------------------
\* Somebody adds, edits or moves a file, or takes it away.
Edit(n) ==
    /\ edits < MaxEdits /\ edits' = edits + 1
    /\ \E new \in {{}} \cup {{[name |-> n, hash |-> h, state |-> s]} : h \in Hash, s \in State} :
        files' = Without(files, {n}) \cup new
    /\ files' # files
    /\ IF pc = "idle" THEN UNCHANGED <<owed, upset, replaced>>
       ELSE /\ owed' = owed \ {n}
            /\ upset' = upset \cup {"edit"}
            /\ replaced' = replaced \cup {f.hash : f \in files \ files'}
    /\ UNCHANGED <<updates, config, pc, available, applied, hashToName, cur, hash,
                   executed, rehashed, faults>>

\* DBUpdater::Update is called.
Start ==
    /\ pc = "idle" /\ pc' = "fetch"
    /\ UNCHANGED <<files, updates, config, run, history, edits, faults>>

\* GetFileList, ReceiveAppliedFiles and the hash to name cache.  A failed query
\* and an empty table are the same null result.  insert keeps the first name
\* that the unordered map yields for a hash.
Fetch ==
    /\ pc = "fetch"
    /\ \E lost \in SUBSET {"files", "table"} :
        /\ IF lost = {} THEN NoFault ELSE Fault(lost)
        /\ available' = IF "files" \in lost THEN {}
                        ELSE {[name |-> f.name, state |-> f.state] : f \in files}
        /\ applied' = IF "table" \in lost THEN {} ELSE updates
    /\ hashToName' \in {f \in [{r.hash : r \in applied'} -> Names(applied')] :
                          \A h \in DOMAIN f : RowOf(applied', f[h]).hash = h}
    /\ owed' = {n \in Names(available') : /\ ~Has(applied', n)
                                          /\ RowOf(files, n).hash \notin DOMAIN hashToName'}
    /\ pc' = "next"
    /\ UNCHANGED <<files, updates, config, cur, hash, history, edits>>

-----------------------------------------------------------------------------
\* The loop over `available`, in the order of the names.
Rest == {f \in available : cur = NoFile \/ f.name > cur.name}
First(F) == CHOOSE f \in F : \A g \in F : f.name <= g.name
Finished == pc = "next" /\ Rest = {}

\* Mutant: where the file lies now is not looked at.
NotReadIfArchived(f) ==
    /\ Has(applied, f.name)
    /\ ~config.redundancy \/ (~config.archived /\ RowOf(applied, f.name).state = "ARCHIVED")

\* The row is taken as right without a look at the file.
NotRead(f) ==
    /\ Has(applied, f.name)
    /\ \/ ~config.redundancy
       \/ ~config.archived /\ RowOf(applied, f.name).state = "ARCHIVED" /\ f.state = "ARCHIVED"

Rehashing(f) == config.rehash /\ Has(applied, f.name) /\ RowOf(applied, f.name).hash = NoHash

\* Same content under a name that has a row and no file any more.
Renamed(f, h) ==
    /\ ~Has(applied, f.name)
    /\ h \in DOMAIN hashToName
    /\ ~Has(available, hashToName[h])

\* Mutants: a changed file is only recorded; a moved one is applied again; the
\* state of a moved one is left as it is.
CompareRecordsOnly(r, f, h) ==
    IF r.hash # h THEN "entry" ELSE IF r.state # f.state THEN "state" ELSE "next"
CompareAppliesMoved(r, f, h) == IF r.hash # h \/ r.state # f.state THEN "apply" ELSE "next"
CompareIgnoresState(r, f, h) == IF r.hash # h THEN "apply" ELSE "next"

\* A file and its row: changed, moved, or as they were.
Compare(r, f, h) ==
    IF r.hash # h THEN "apply" ELSE IF r.state # f.state THEN "state" ELSE "next"

\* What is to be done with file f, whose content has hash h.
Mode(f, h) ==
    IF Renamed(f, h) THEN "delete_target"
    ELSE IF ~Has(applied, f.name) THEN "apply"
    ELSE IF Rehashing(f) THEN "entry"
    ELSE Compare(RowOf(applied, f.name), f, h)

Skip ==
    /\ pc = "next" /\ Rest # {}
    /\ NotRead(First(Rest))
    /\ cur' = First(Rest)
    /\ applied' = Without(applied, {First(Rest).name})
    /\ UNCHANGED <<files, updates, config, pc, available, hashToName, hash, owed, upset,
                   history, edits, faults>>

\* ReadSQLUpdate, the hash, and the choice of the mode.
Check ==
    /\ pc = "next" /\ Rest # {}
    /\ LET f == First(Rest) IN
        /\ ~NotRead(f) /\ Has(files, f.name)
        /\ cur' = f
        /\ hash' = RowOf(files, f.name).hash
        /\ pc' = Mode(f, hash')
        /\ applied' = IF pc' = "next" THEN Without(applied, {f.name}) ELSE applied
    /\ UNCHANGED <<files, updates, config, available, hashToName, owed, upset,
                   history, edits, faults>>

\* A statement sent with DirectExecute, whose failure nobody hears of.
Statement(after) ==
    \/ updates' = after /\ NoFault
    \/ updates' = updates /\ Fault({"statement"})

UpdateState ==
    /\ pc = "state" /\ pc' = "next"
    /\ Statement({IF r.name = cur.name THEN [r EXCEPT !.state = cur.state] ELSE r : r \in updates})
    /\ applied' = Without(applied, {cur.name})
    /\ UNCHANGED <<files, config, available, hashToName, cur, hash, owed, history, edits>>

\* RenameEntry, first and second statement; `name` is the primary key.
DeleteTarget ==
    /\ pc = "delete_target" /\ pc' = "rename"
    /\ Statement(Without(updates, {cur.name}))
    /\ UNCHANGED <<files, config, available, applied, hashToName, cur, hash, owed, history, edits>>

RenameEntry ==
    LET from == hashToName[hash] IN
    /\ pc = "rename" /\ pc' = "next"
    /\ Statement(IF Has(updates, cur.name) THEN updates
                 ELSE {IF r.name = from THEN [r EXCEPT !.name = cur.name] ELSE r : r \in updates})
    /\ applied' = Without(applied, {from})
    /\ UNCHANGED <<files, config, available, hashToName, cur, hash, owed, history, edits>>

\* Mutant: the exit code of the mysql program is not looked at.
ApplyUnchecked ==
    /\ pc = "apply" /\ pc' = "entry"
    /\ Has(files, cur.name)
    /\ \/ /\ executed' = executed \cup {RowOf(files, cur.name).hash}
          /\ owed' = owed \ {cur.name} /\ UNCHANGED faults
       \/ MayFail /\ UNCHANGED <<executed, owed>>
    /\ UNCHANGED <<files, updates, config, available, applied, hashToName, cur, hash, upset,
                   rehashed, replaced, edits>>

\* The mysql program reads the file once more and carries it out.
Apply ==
    /\ pc = "apply" /\ pc' = "entry"
    /\ Has(files, cur.name)
    /\ executed' = executed \cup {RowOf(files, cur.name).hash}
    /\ owed' = owed \ {cur.name}
    /\ UNCHANGED <<files, updates, config, available, applied, hashToName, cur, hash, upset,
                   rehashed, replaced, edits, faults>>

UpdateEntry ==
    /\ pc = "entry" /\ pc' = "next"
    /\ Statement(Without(updates, {cur.name})
                   \cup {[name |-> cur.name, hash |-> hash, state |-> cur.state]})
    /\ rehashed' = IF Rehashing(cur) THEN rehashed \cup {hash} ELSE rehashed
    /\ applied' = Without(applied, {cur.name})
    /\ UNCHANGED <<files, config, available, hashToName, cur, hash, owed, executed, replaced, edits>>

\* UpdateException: Update answers false.
Throw ==
    /\ \/ pc = "next" /\ Rest # {} /\ ~NotRead(First(Rest)) /\ ~Has(files, First(Rest).name)
          /\ UNCHANGED faults                     \* the file cannot be opened
       \/ pc = "apply" /\ ~Has(files, cur.name) /\ UNCHANGED faults
       \/ pc = "apply" /\ MayFail               \* an error in the file
       \/ pc = "fetch" /\ MayFail               \* a file name twice
    /\ NoRun
    /\ UNCHANGED <<files, updates, config, history, edits>>

DoCleanup == config.cleanMax < 0 \/ Cardinality(applied) <= config.cleanMax

\* Rows without a file are deleted, if they are few; Update answers true.
CleanUp ==
    /\ Finished
    /\ \/ updates' = (IF DoCleanup THEN Without(updates, Names(applied)) ELSE updates)
          /\ UNCHANGED faults
       \/ updates' = updates /\ DoCleanup /\ applied # {} /\ MayFail
    /\ NoRun
    /\ UNCHANGED <<files, config, history, edits>>

\* The process dies.
Crash ==
    /\ pc # "idle" /\ MayFail
    /\ NoRun
    /\ UNCHANGED <<files, updates, config, history, edits>>

Step == \/ Fetch \/ Skip \/ Check \/ UpdateState \/ DeleteTarget \/ RenameEntry
        \/ Apply \/ UpdateEntry \/ Throw \/ CleanUp

Next == (\E n \in Name : Edit(n)) \/ Start \/ Step \/ Crash

Spec == Init /\ [][Next]_vars

\* A run that has begun goes on, and somebody starts the next one.
FairSpec == Spec /\ WF_vars(Step) /\ WF_vars(Start)

-----------------------------------------------------------------------------
TypeOK ==
    /\ files \subseteq File /\ updates \subseteq Row /\ config \in Configs
    /\ pc \in {"idle", "fetch", "next", "state", "delete_target", "rename", "apply", "entry"}
    /\ available \subseteq [name : Name, state : State]
    /\ applied \subseteq Row
    /\ cur \in available \cup {NoFile}
    /\ hash \in Hash \cup {NoHash}
    /\ executed \subseteq Hash /\ rehashed \subseteq Hash /\ replaced \subseteq Hash
    /\ owed \subseteq Names(available)
    /\ upset \subseteq {"files", "table", "statement", "edit"}
    /\ edits \in 0..MaxEdits /\ faults \in 0..MaxFaults

(***************************************************************************)
(* A content that the table says was applied ran to its end, or was taken  *)
(* as applied by a rehash, or belonged to some file that was overwritten   *)
(* or removed during a run, this one or an earlier one.  But for such      *)
(* contents no crash, failing file or failing statement makes a row that   *)
(* lies, also not by way of renames.                                       *)
(***************************************************************************)
RecordedWasExecuted ==
    \A r \in updates : r.hash \in executed \cup rehashed \cup replaced \cup {NoHash}

(***************************************************************************)
(* A file the table has neither by name nor by content is not passed over: *)
(* when later files are looked at, it has run to its end.  An update that  *)
(* fails stops those behind it.                                            *)
(***************************************************************************)
NotPassedOver ==
    \A n \in owed : \A f \in available :
        f.name = n => f \in Rest \/ (f = cur /\ pc = "apply")

\* The run, in well-typed states.
RunInv == TypeOK /\ NotPassedOver

(***************************************************************************)
(* When a run ends with nothing gone wrong, every file it found has its    *)
(* row, with its content unless the settings say not to look; all but      *)
(* copies of another file, which may share one row until the next run.     *)
(***************************************************************************)
EveryFileRecorded ==
    Finished /\ upset \cap {"statement", "edit"} = {} =>
        \A f \in available :
            \/ \E r \in updates :
                  /\ r.name = f.name
                  /\ \/ r.hash = RowOf(files, f.name).hash
                     \/ ~config.redundancy
                     \/ ~config.archived /\ r.state = "ARCHIVED" /\ f.state = "ARCHIVED"
            \/ \E g \in files : g.name # f.name /\ g.hash = RowOf(files, f.name).hash

(***************************************************************************)
(* A content is not executed for a name whose row already has it, unless   *)
(* the table could not be read: after a crash only the file in hand may    *)
(* run twice.                                                              *)
(***************************************************************************)
RecordedIsNotExecuted ==
    [][pc = "apply" /\ pc' = "entry" /\ "table" \notin upset =>
         \A r \in updates : r.name = cur.name => r.hash # hash]_vars

Settled(f) ==
    \E r \in updates :
        /\ r.name = f.name /\ r.state = f.state
        /\ r.hash = f.hash \/ (~config.archived /\ r.state = "ARCHIVED")

(***************************************************************************)
(* Once files and system leave it alone, an updater that is started again  *)
(* and again brings the table to what the files say, for ever, whatever    *)
(* crashes and lost statements it starts from.                             *)
(***************************************************************************)
Converges == config.redundancy => <>[](\A f \in files : Settled(f))

-----------------------------------------------------------------------------
\* What a comment says and the code does not do.

(***************************************************************************)
(* UpdateFetcher.cpp:250 "It is safe to treat the file as renamed here":   *)
(* the row that RenameEntry is to move would be there, as long as no       *)
(* statement has failed.                                                   *)
(***************************************************************************)
RenameMovesARow ==
    pc = "rename" /\ "statement" \notin upset => Has(updates, hashToName[hash])
=============================================================================
