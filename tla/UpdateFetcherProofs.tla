-------------------------- MODULE UpdateFetcherProofs --------------------------
(***************************************************************************)
(* Proofs about UpdateFetcher, for any names, contents, base databases,    *)
(* settings and bounds.  IInv carries what is executed and what the table  *)
(* says of it; RInv, on top of it, what the table holds when a run in      *)
(* which nothing went wrong comes to its end.                              *)
(***************************************************************************)
EXTENDS UpdateFetcher, WellFoundedInduction, TLAPS

Found == [name : Name, state : State]

(***************************************************************************)
(* Types, and what makes RowOf a row: a name stands once in each table.    *)
(***************************************************************************)
FilesOK == files \subseteq File /\ Unique(files)

TableOK == updates \subseteq Row /\ Unique(updates)

RunOK ==
    /\ available \subseteq Found /\ Unique(available)
    /\ applied \subseteq Row /\ Unique(applied)
    /\ cur \in available \cup {NoFile} /\ hash \in Hash \cup {NoHash}
    /\ owed \subseteq Names(available)

HandOK ==
    pc \in {"state", "delete_target", "rename", "apply", "entry"} =>
        cur \in available /\ hash \in Hash

OthersOK ==
    /\ config \in Configs
    /\ pc \in {"idle", "fetch", "next", "state", "delete_target", "rename", "apply", "entry"}
    /\ executed \subseteq Hash /\ rehashed \subseteq Hash /\ replaced \subseteq Hash
    /\ upset \subseteq {"files", "table", "statement", "edit"}
    /\ edits \in 0..MaxEdits /\ faults \in 0..MaxFaults

WellTyped == FilesOK /\ TableOK /\ RunOK /\ HandOK /\ OthersOK

(***************************************************************************)
(* Before the files are listed none is in hand and none is owed.           *)
(***************************************************************************)
NothingInHand == pc \in {"idle", "fetch"} => cur = NoFile /\ owed = {}

(***************************************************************************)
(* A file that is owed has no row, and its content is under no name.       *)
(***************************************************************************)
OwedIsNew ==
    \A n \in owed :
        /\ ~Has(applied, n)
        /\ \A f \in files : f.name = n => f.hash \notin DOMAIN hashToName

(***************************************************************************)
(* What the table says of a file that is still to come, the run has read.  *)
(***************************************************************************)
TableIsRead ==
    pc \notin {"idle", "fetch"} /\ "table" \notin upset =>
        \A f \in Rest : \A r \in updates : r.name = f.name => r \in applied

(***************************************************************************)
(* A row is moved only away from a name that no file has.                  *)
(***************************************************************************)
MovesFromDead ==
    pc \in {"delete_target", "rename"} => ~Has(available, hashToName[hash])

(***************************************************************************)
(* A file that is about to be applied is not recorded with this content,   *)
(* and still has the content that was looked at, or that was replaced.     *)
(***************************************************************************)
ApplyIsNew ==
    pc = "apply" /\ "table" \notin upset =>
        \A r \in updates : r.name = cur.name => r.hash # hash

ApplyIsSeen ==
    pc = "apply" => hash \in replaced \/ \E f \in files : f.name = cur.name /\ f.hash = hash

(***************************************************************************)
(* What is about to be recorded has run, was replaced, or is a rehash.     *)
(***************************************************************************)
EntryIsRight == pc = "entry" => hash \in executed \cup replaced \/ Rehashing(cur)

(***************************************************************************)
(* The inductive invariant.  RecordedWasExecuted needs EntryIsRight, which *)
(* needs ApplyIsSeen; NotPassedOver needs OwedIsNew, or Mode could choose  *)
(* something else than to apply the file; ApplyIsNew needs TableIsRead,    *)
(* which a rename keeps because of MovesFromDead.                          *)
(***************************************************************************)
IInv ==
    /\ WellTyped
    /\ NothingInHand
    /\ OwedIsNew
    /\ NotPassedOver
    /\ TableIsRead
    /\ MovesFromDead
    /\ ApplyIsNew
    /\ ApplyIsSeen
    /\ EntryIsRight
    /\ RecordedWasExecuted

-----------------------------------------------------------------------------
(***************************************************************************)
(* A set of names has a first one.                                         *)
(***************************************************************************)
LEMMA LeastName ==
    ASSUME NEW T, T \subseteq Nat, T # {}
    PROVE  \E x \in T : \A y \in T : x <= y
<1> DEFINE R == {p \in Nat \X Nat : p[1] < p[2]}
<1>1. IsWellFoundedOn(R, Nat)
    BY NatLessThanWellFounded DEF OpToRel
<1>2. \A x, y \in Nat : x < y => <<x, y>> \in R
    OBVIOUS
<1> HIDE DEF R
<1>3. PICK x \in T : \A y \in T : ~ (<<y, x>> \in R)
    BY <1>1, WFMin
<1>4. \A y \in T : ~(y < x)
    BY <1>2, <1>3
<1> QED
    BY <1>4

(***************************************************************************)
(* Names are numbers, each of one file; the file in hand is not to come.   *)
(***************************************************************************)
LEMMA NamesOfFound ==
    ASSUME RunOK
    PROVE  /\ \A f \in available : f \in Found /\ f.name \in Nat
           /\ Rest \subseteq available
           /\ cur \in available => \A f \in Rest : f.name # cur.name
<1>1. \A f \in available : f \in Found /\ f.name \in Nat
    BY NameAssumption DEF RunOK, Found
<1>2. Rest \subseteq available
    BY DEF Rest
<1>3. ASSUME cur \in available, NEW f \in Rest PROVE f.name # cur.name
  <2>1. cur # NoFile
    BY <1>1, <1>3, NoFileAssumption DEF Found
  <2>2. f.name > cur.name
    BY <2>1 DEF Rest
  <2>3. f.name \in Nat /\ cur.name \in Nat
    BY <1>1, <1>2, <1>3
  <2> QED
    BY <2>2, <2>3
<1> QED
    BY <1>1, <1>2, <1>3

(***************************************************************************)
(* The next file is the first of those to come, and then the others are to *)
(* come.                                                                   *)
(***************************************************************************)
LEMMA FirstOfRest ==
    ASSUME RunOK, Rest # {}
    PROVE  /\ First(Rest) \in Rest /\ First(Rest) \in available /\ First(Rest) # NoFile
           /\ \A g \in Rest : g = First(Rest) \/ g.name > First(Rest).name
           /\ \A g \in available : g.name > First(Rest).name => g \in Rest
<1> DEFINE T == {f.name : f \in Rest}
           f1 == First(Rest)
<1>1. /\ \A f \in available : f \in Found /\ f.name \in Nat
      /\ Rest \subseteq available
    BY NamesOfFound
<1>2. PICK x \in T : \A y \in T : x <= y
  <2>1. T \subseteq Nat /\ T # {}
    BY <1>1
  <2> QED
    BY <2>1, LeastName
<1>3. \E f \in Rest : \A g \in Rest : f.name <= g.name
    BY <1>2
<1>4. f1 \in Rest /\ \A g \in Rest : f1.name <= g.name
    BY <1>3 DEF First
<1> HIDE DEF f1
<1>5. f1 \in available /\ f1 # NoFile
    BY <1>1, <1>4, NoFileAssumption DEF Found
<1>6. ASSUME NEW g \in Rest PROVE g = f1 \/ g.name > f1.name
  <2>1. g.name = f1.name => g = f1
    BY <1>1, <1>4 DEF RunOK, Unique
  <2>2. g.name \in Nat /\ f1.name \in Nat /\ f1.name <= g.name
    BY <1>1, <1>4
  <2> QED
    BY <2>1, <2>2
<1>7. ASSUME NEW g \in available, g.name > f1.name PROVE g \in Rest
  <2>1. CASE cur = NoFile
    BY <2>1 DEF Rest
  <2>2. CASE cur # NoFile
    <3>1. cur \in available
      BY <2>2 DEF RunOK
    <3>2. f1.name > cur.name
      BY <1>4, <2>2 DEF Rest
    <3>3. g.name \in Nat /\ f1.name \in Nat /\ cur.name \in Nat
      BY <1>1, <1>5, <3>1
    <3>4. g.name > cur.name
      BY <1>7, <3>2, <3>3
    <3> QED
      BY <3>4 DEF Rest
  <2> QED
    BY <2>1, <2>2
<1> QED
    BY <1>4, <1>5, <1>6, <1>7 DEF f1

(***************************************************************************)
(* A table without some of its names is one still.                         *)
(***************************************************************************)
LEMMA WithoutIsSubset ==
    ASSUME NEW T, NEW N
    PROVE  /\ Without(T, N) \subseteq T
           /\ Unique(T) => Unique(Without(T, N))
           /\ \A r \in T : r.name \notin N => r \in Without(T, N)
           /\ \A r \in Without(T, N) : r.name \notin N
           /\ \A n : ~Has(T, n) => ~Has(Without(T, N), n)
  BY DEF Without, Unique, Has

(***************************************************************************)
(* RowOf is the row of that name.                                          *)
(***************************************************************************)
LEMMA RowOfName ==
    ASSUME NEW T, NEW n, Has(T, n)
    PROVE  /\ RowOf(T, n) \in T /\ RowOf(T, n).name = n
           /\ Unique(T) => \A r \in T : r.name = n => r = RowOf(T, n)
<1>1. RowOf(T, n) \in T /\ RowOf(T, n).name = n
    BY DEF Has, RowOf
<1> QED
    BY <1>1 DEF Unique

-----------------------------------------------------------------------------
(***************************************************************************)
(* The updater is called on a base database.                               *)
(***************************************************************************)
LEMMA InitIInv == Init => IInv
<1> SUFFICES ASSUME Init PROVE IInv
    OBVIOUS
<1>1. FilesOK /\ TableOK
    BY BaseAssumption DEF Init, FilesOK, TableOK
<1>2. RunOK /\ HandOK
    BY DEF Init, RunOK, HandOK, Unique
<1>3. executed \subseteq Hash
    BY <1>1 DEF Init, TableOK, Row
<1>4. OthersOK
    BY <1>3, BoundAssumption DEF Init, OthersOK
<1>5. NothingInHand /\ OwedIsNew /\ NotPassedOver /\ TableIsRead
    BY DEF Init, NothingInHand, OwedIsNew, NotPassedOver, TableIsRead
<1>6. MovesFromDead /\ ApplyIsNew /\ ApplyIsSeen /\ EntryIsRight
    BY DEF Init, MovesFromDead, ApplyIsNew, ApplyIsSeen, EntryIsRight
<1>7. RecordedWasExecuted
    BY DEF Init, RecordedWasExecuted
<1> QED
    BY <1>1, <1>2, <1>4, <1>5, <1>6, <1>7 DEF IInv, WellTyped

(***************************************************************************)
(* A run ends, well or not: what it recorded is as true as before.         *)
(***************************************************************************)
LEMMA NoRunKeeps ==
    ASSUME IInv, NoRun, UNCHANGED <<files, config, history, edits>>,
           updates' \subseteq updates, faults' \in 0..MaxFaults
    PROVE  IInv'
<1> USE DEF NoRun, history
<1>1. FilesOK' /\ TableOK'
    BY DEF IInv, WellTyped, FilesOK, TableOK, Unique
<1>2. RunOK' /\ HandOK'
    BY DEF RunOK, HandOK, Unique
<1>3. OthersOK'
    BY DEF IInv, WellTyped, OthersOK
<1>4. NothingInHand' /\ OwedIsNew' /\ NotPassedOver' /\ TableIsRead'
    BY DEF NothingInHand, OwedIsNew, NotPassedOver, TableIsRead
<1>5. MovesFromDead' /\ ApplyIsNew' /\ ApplyIsSeen' /\ EntryIsRight'
    BY DEF MovesFromDead, ApplyIsNew, ApplyIsSeen, EntryIsRight
<1>6. RecordedWasExecuted'
    BY DEF IInv, RecordedWasExecuted
<1> QED
    BY <1>1, <1>2, <1>3, <1>4, <1>5, <1>6 DEF IInv, WellTyped

(***************************************************************************)
(* A fault that is possible is counted within the bound.                   *)
(***************************************************************************)
LEMMA FaultCounts ==
    ASSUME OthersOK, MayFail \/ UNCHANGED faults
    PROVE  faults' \in 0..MaxFaults
<1>1. MaxFaults \in Nat /\ faults \in 0..MaxFaults
    BY BoundAssumption DEF OthersOK
<1> QED
    BY <1>1 DEF MayFail

(***************************************************************************)
(* Update throws: the run ends and its callers answer false.               *)
(***************************************************************************)
LEMMA ThrowKeeps == IInv /\ Throw => IInv'
<1> SUFFICES ASSUME IInv, Throw PROVE IInv'
    OBVIOUS
<1>1. NoRun /\ UNCHANGED <<files, updates, config, history, edits>>
    BY DEF Throw
<1>2. MayFail \/ UNCHANGED faults
    BY DEF Throw
<1>3. faults' \in 0..MaxFaults
    BY <1>2, FaultCounts DEF IInv, WellTyped
<1> QED
    BY <1>1, <1>3, NoRunKeeps

(***************************************************************************)
(* The rows without a file are deleted, or not, and the run ends.          *)
(***************************************************************************)
LEMMA CleanUpKeeps == IInv /\ CleanUp => IInv'
<1> SUFFICES ASSUME IInv, CleanUp PROVE IInv'
    OBVIOUS
<1>1. NoRun /\ UNCHANGED <<files, config, history, edits>>
    BY DEF CleanUp
<1>2. updates' \subseteq updates
    BY DEF CleanUp, Without
<1>3. MayFail \/ UNCHANGED faults
    BY DEF CleanUp
<1>4. faults' \in 0..MaxFaults
    BY <1>3, FaultCounts DEF IInv, WellTyped
<1> QED
    BY <1>1, <1>2, <1>4, NoRunKeeps

(***************************************************************************)
(* The process dies in the middle of a run.                                *)
(***************************************************************************)
LEMMA CrashKeeps == IInv /\ Crash => IInv'
<1> SUFFICES ASSUME IInv, Crash PROVE IInv'
    OBVIOUS
<1>1. NoRun /\ UNCHANGED <<files, updates, config, history, edits>> /\ MayFail
    BY DEF Crash
<1>2. faults' \in 0..MaxFaults
    BY <1>1, FaultCounts DEF IInv, WellTyped
<1> QED
    BY <1>1, <1>2, NoRunKeeps

-----------------------------------------------------------------------------
(***************************************************************************)
(* A file changes: what it was is remembered as replaced, and it is no     *)
(* longer owed.                                                            *)
(***************************************************************************)
LEMMA EditKeeps ==
    ASSUME IInv, NEW n \in Name, Edit(n)
    PROVE  IInv'
<1>1. PICK new \in {{}} \cup {{[name |-> n, hash |-> h, state |-> s]} : h \in Hash, s \in State} :
        files' = Without(files, {n}) \cup new
    BY DEF Edit
<1>2. UNCHANGED <<updates, config, pc, available, applied, hashToName, cur, hash,
                  executed, rehashed, faults>>
    BY DEF Edit
<1>3. /\ owed' \subseteq owed /\ (pc # "idle" => n \notin owed')
      /\ upset' \subseteq upset \cup {"edit"} /\ upset \subseteq upset'
      /\ replaced \subseteq replaced'
      /\ replaced' \subseteq replaced \cup {f.hash : f \in files \ files'}
      /\ pc # "idle" => \A f \in files \ files' : f.hash \in replaced'
  <2>1. CASE pc = "idle"
    BY <2>1 DEF Edit
  <2>2. CASE pc # "idle"
    <3>1. /\ owed' = owed \ {n}
          /\ upset' = upset \cup {"edit"}
          /\ replaced' = replaced \cup {f.hash : f \in files \ files'}
      BY <2>2 DEF Edit
    <3> QED
      BY <3>1, <2>2
  <2> QED
    BY <2>1, <2>2
<1>4. /\ WellTyped /\ FilesOK /\ NothingInHand /\ OwedIsNew /\ NotPassedOver /\ TableIsRead
      /\ MovesFromDead /\ ApplyIsNew /\ ApplyIsSeen /\ EntryIsRight /\ RecordedWasExecuted
    BY DEF IInv, WellTyped
<1>5. /\ new \subseteq File /\ \A f \in new : f.name = n
      /\ \A f, g \in new : f = g
    BY <1>1 DEF File
<1>6. FilesOK'
  <2>1. files' \subseteq File
    BY <1>1, <1>4, <1>5 DEF FilesOK, Without
  <2>2. Unique(files')
    BY <1>1, <1>4, <1>5 DEF FilesOK, Without, Unique
  <2> QED
    BY <2>1, <2>2 DEF FilesOK
<1>7. TableOK' /\ RunOK' /\ HandOK'
    BY <1>2, <1>3, <1>4 DEF WellTyped, TableOK, RunOK, HandOK, Names
<1>8. OthersOK'
  <2>1. replaced' \subseteq Hash
    BY <1>3, <1>4 DEF WellTyped, FilesOK, OthersOK, File
  <2>2. edits' \in 0..MaxEdits
    <3>1. MaxEdits \in Nat /\ edits \in 0..MaxEdits
      BY <1>4, BoundAssumption DEF WellTyped, OthersOK
    <3>2. edits < MaxEdits /\ edits' = edits + 1
      BY DEF Edit
    <3> QED
      BY <3>1, <3>2
  <2> QED
    BY <2>1, <2>2, <1>2, <1>3, <1>4 DEF WellTyped, OthersOK
<1>9. NothingInHand'
    BY <1>2, <1>3, <1>4 DEF NothingInHand
<1>10. OwedIsNew'
  <2> SUFFICES ASSUME NEW m \in owed'
               PROVE  /\ ~Has(applied', m)
                      /\ \A f \in files' : f.name = m => f.hash \notin DOMAIN hashToName'
    BY DEF OwedIsNew
  <2>1. m \in owed /\ m # n
    BY <1>3, <1>4 DEF NothingInHand
  <2>2. \A f \in files' : f.name = m => f \in files
    BY <2>1, <1>1, <1>5 DEF Without
  <2> QED
    BY <2>1, <2>2, <1>2, <1>4 DEF OwedIsNew
<1>11. NotPassedOver' /\ TableIsRead'
    BY <1>2, <1>3, <1>4 DEF NotPassedOver, TableIsRead, Rest
<1>12. MovesFromDead' /\ ApplyIsNew'
    BY <1>2, <1>3, <1>4 DEF MovesFromDead, ApplyIsNew
<1>13. ApplyIsSeen'
    BY <1>2, <1>3, <1>4 DEF ApplyIsSeen
<1>14. EntryIsRight' /\ RecordedWasExecuted'
    BY <1>2, <1>3, <1>4 DEF EntryIsRight, RecordedWasExecuted, Rehashing
<1> QED
    BY <1>6, <1>7, <1>8, <1>9, <1>10, <1>11, <1>12, <1>13, <1>14 DEF IInv, WellTyped

(***************************************************************************)
(* DBUpdater::Update is called.                                            *)
(***************************************************************************)
LEMMA StartKeeps == IInv /\ Start => IInv'
<1> SUFFICES ASSUME IInv, Start PROVE IInv'
    OBVIOUS
<1>1. /\ pc = "idle" /\ pc' = "fetch"
      /\ UNCHANGED <<files, updates, config, available, applied, hashToName, cur, hash, owed,
                     upset, executed, rehashed, replaced, edits, faults>>
    BY DEF Start, run, history
<1>2. WellTyped'
    BY <1>1 DEF IInv, WellTyped, FilesOK, TableOK, RunOK, HandOK, OthersOK
<1>3. NothingInHand' /\ OwedIsNew' /\ NotPassedOver' /\ TableIsRead'
    BY <1>1 DEF IInv, NothingInHand, OwedIsNew, NotPassedOver, TableIsRead
<1>4. MovesFromDead' /\ ApplyIsNew' /\ ApplyIsSeen' /\ EntryIsRight' /\ RecordedWasExecuted'
    BY <1>1 DEF IInv, MovesFromDead, ApplyIsNew, ApplyIsSeen, EntryIsRight, RecordedWasExecuted
<1> QED
    BY <1>2, <1>3, <1>4 DEF IInv

(***************************************************************************)
(* The files are listed and the table is read: all files are to come.      *)
(***************************************************************************)
LEMMA FetchKeeps == IInv /\ Fetch => IInv'
<1> SUFFICES ASSUME IInv, Fetch PROVE IInv'
    OBVIOUS
<1>1. PICK lost \in SUBSET {"files", "table"} :
        /\ IF lost = {} THEN NoFault ELSE Fault(lost)
        /\ available' = IF "files" \in lost THEN {}
                        ELSE {[name |-> f.name, state |-> f.state] : f \in files}
        /\ applied' = IF "table" \in lost THEN {} ELSE updates
    BY DEF Fetch
<1>2. /\ pc = "fetch" /\ pc' = "next"
      /\ owed' = {m \in Names(available') : /\ ~Has(applied', m)
                                            /\ RowOf(files, m).hash \notin DOMAIN hashToName'}
      /\ UNCHANGED <<files, updates, config, cur, hash, executed, rehashed, replaced, edits>>
    BY DEF Fetch, history
<1>3. WellTyped /\ FilesOK /\ TableOK /\ RunOK /\ cur = NoFile /\ RecordedWasExecuted
    BY <1>2 DEF IInv, WellTyped, NothingInHand
<1>4. MayFail \/ UNCHANGED faults
    BY <1>1 DEF Fault, NoFault
<1>5. faults' \in 0..MaxFaults
    BY <1>3, <1>4, FaultCounts DEF WellTyped
<1>6. upset' = upset \cup lost
    BY <1>1 DEF Fault, NoFault
<1>7. available' \subseteq Found /\ Unique(available')
  <2>1. \A g \in available' : \E f \in files : g = [name |-> f.name, state |-> f.state]
    BY <1>1
  <2>2. available' \subseteq Found
    BY <2>1, <1>3 DEF FilesOK, File, Found
  <2>3. Unique(available')
    BY <2>1, <1>3 DEF FilesOK, Unique
  <2> QED
    BY <2>2, <2>3
<1>8. applied' \subseteq Row /\ Unique(applied')
    BY <1>1, <1>3 DEF TableOK, Unique
<1>9. WellTyped'
  <2>1. FilesOK' /\ TableOK' /\ HandOK'
    BY <1>2, <1>3 DEF FilesOK, TableOK, HandOK
  <2>2. RunOK'
    BY <1>2, <1>3, <1>7, <1>8 DEF RunOK
  <2>3. OthersOK'
    BY <1>2, <1>3, <1>5, <1>6 DEF WellTyped, OthersOK
  <2> QED
    BY <2>1, <2>2, <2>3 DEF WellTyped
<1>10. Rest' = available'
    BY <1>2, <1>3 DEF Rest
<1>11. OwedIsNew'
  <2> SUFFICES ASSUME NEW m \in owed'
               PROVE  /\ ~Has(applied', m)
                      /\ \A f \in files' : f.name = m => f.hash \notin DOMAIN hashToName'
    BY DEF OwedIsNew
  <2>1. \A f \in files : f.name = m => f = RowOf(files, m)
    BY <1>3, RowOfName DEF FilesOK, Has
  <2> QED
    BY <2>1, <1>2
<1>12. NothingInHand' /\ NotPassedOver' /\ MovesFromDead' /\ ApplyIsNew' /\ ApplyIsSeen'
       /\ EntryIsRight'
    BY <1>2, <1>10 DEF NothingInHand, NotPassedOver, MovesFromDead, ApplyIsNew, ApplyIsSeen,
                       EntryIsRight
<1>13. TableIsRead'
    BY <1>1, <1>2, <1>6 DEF TableIsRead
<1>14. RecordedWasExecuted'
    BY <1>2, <1>3 DEF RecordedWasExecuted
<1> QED
    BY <1>9, <1>11, <1>12, <1>13, <1>14 DEF IInv

-----------------------------------------------------------------------------
(***************************************************************************)
(* A row is taken as right without a look at its file.                     *)
(***************************************************************************)
LEMMA SkipKeeps == IInv /\ Skip => IInv'
<1> SUFFICES ASSUME IInv, Skip PROVE IInv'
    OBVIOUS
<1> DEFINE f1 == First(Rest)
<1>1. /\ pc = "next" /\ pc' = "next" /\ Rest # {} /\ Has(applied, f1.name)
      /\ cur' = f1 /\ applied' = Without(applied, {f1.name})
      /\ UNCHANGED <<files, updates, config, available, hashToName, hash, owed, upset,
                     executed, rehashed, replaced, edits, faults>>
    BY DEF Skip, NotRead, history
<1>2. /\ WellTyped /\ RunOK /\ NothingInHand /\ OwedIsNew /\ NotPassedOver /\ TableIsRead
      /\ RecordedWasExecuted
    BY DEF IInv, WellTyped
<1>3. /\ f1 \in Rest /\ f1 \in available /\ f1 # NoFile
      /\ \A g \in Rest : g = f1 \/ g.name > f1.name
      /\ \A g \in available : g.name > f1.name => g \in Rest
    BY <1>1, <1>2, FirstOfRest
<1> HIDE DEF f1
<1>4. Rest' = {g \in available : g.name > f1.name}
    BY <1>1, <1>3 DEF Rest
<1>5. /\ applied' \subseteq applied /\ Unique(applied')
      /\ \A r \in applied : r.name # f1.name => r \in applied'
      /\ \A n : ~Has(applied, n) => ~Has(applied', n)
    BY <1>1, <1>2, WithoutIsSubset DEF RunOK
<1>6. WellTyped'
  <2>1. FilesOK' /\ TableOK' /\ HandOK' /\ OthersOK'
    BY <1>1, <1>2 DEF WellTyped, FilesOK, TableOK, HandOK, OthersOK
  <2>2. RunOK'
    BY <1>1, <1>2, <1>3, <1>5 DEF RunOK
  <2> QED
    BY <2>1, <2>2 DEF WellTyped
<1>7. OwedIsNew'
    BY <1>1, <1>2, <1>5 DEF OwedIsNew
<1>8. NotPassedOver'
  <2> SUFFICES ASSUME NEW n \in owed, NEW f \in available, f.name = n PROVE f \in Rest'
    BY <1>1 DEF NotPassedOver
  <2>1. f \in Rest
    BY <1>1, <1>2 DEF NotPassedOver
  <2>2. f # f1
    BY <1>1, <1>2 DEF OwedIsNew
  <2> QED
    BY <2>1, <2>2, <1>3, <1>4
<1>9. TableIsRead'
  <2> SUFFICES ASSUME "table" \notin upset, NEW f \in Rest', NEW r \in updates, r.name = f.name
               PROVE  r \in applied'
    BY <1>1 DEF TableIsRead
  <2>1. f \in available /\ f.name > f1.name
    BY <1>4
  <2>2. f.name # f1.name
    BY <2>1, <1>2, <1>3, NamesOfFound
  <2>3. r \in applied
    BY <2>1, <1>1, <1>2, <1>3 DEF TableIsRead
  <2> QED
    BY <2>2, <2>3, <1>5
<1>10. NothingInHand' /\ MovesFromDead' /\ ApplyIsNew' /\ ApplyIsSeen' /\ EntryIsRight'
    BY <1>1 DEF NothingInHand, MovesFromDead, ApplyIsNew, ApplyIsSeen, EntryIsRight
<1>11. RecordedWasExecuted'
    BY <1>1, <1>2 DEF RecordedWasExecuted
<1> QED
    BY <1>6, <1>7, <1>8, <1>9, <1>10, <1>11 DEF IInv

(***************************************************************************)
(* What the choice of a mode means: a file is applied if it has no row or  *)
(* one with another content, its entry is only written for a rehash, and a *)
(* row is moved from a name without a file.                                *)
(***************************************************************************)
LEMMA ModeMeans ==
    ASSUME NEW f, NEW h
    PROVE  /\ Mode(f, h) \in {"next", "state", "delete_target", "apply", "entry"}
           /\ Mode(f, h) = "apply" =>
                ~Has(applied, f.name) \/ (Has(applied, f.name) /\ RowOf(applied, f.name).hash # h)
           /\ Mode(f, h) = "entry" => Rehashing(f)
           /\ Mode(f, h) = "delete_target" => ~Has(available, hashToName[h])
           /\ ~Has(applied, f.name) /\ h \notin DOMAIN hashToName => Mode(f, h) = "apply"
  BY DEF Mode, Compare, Renamed, Rehashing

(***************************************************************************)
(* A file is read, and what is to be done with it is chosen.               *)
(***************************************************************************)
LEMMA CheckKeeps == IInv /\ Check => IInv'
<1> SUFFICES ASSUME IInv, Check PROVE IInv'
    OBVIOUS
<1> DEFINE f1 == First(Rest)
<1>1. /\ pc = "next" /\ Rest # {} /\ Has(files, f1.name)
      /\ cur' = f1 /\ hash' = RowOf(files, f1.name).hash /\ pc' = Mode(f1, hash')
      /\ applied' = IF pc' = "next" THEN Without(applied, {f1.name}) ELSE applied
      /\ UNCHANGED <<files, updates, config, available, hashToName, owed, upset,
                     executed, rehashed, replaced, edits, faults>>
    BY DEF Check, history
<1>2. /\ WellTyped /\ FilesOK /\ RunOK /\ OwedIsNew /\ NotPassedOver /\ TableIsRead
      /\ RecordedWasExecuted
    BY DEF IInv, WellTyped
<1>3. /\ f1 \in Rest /\ f1 \in available /\ f1 # NoFile
      /\ \A g \in Rest : g = f1 \/ g.name > f1.name
      /\ \A g \in available : g.name > f1.name => g \in Rest
    BY <1>1, <1>2, FirstOfRest
<1> HIDE DEF f1
<1>4. Rest' = {g \in available : g.name > f1.name}
    BY <1>1, <1>3 DEF Rest
<1>5. /\ applied' \subseteq applied /\ Unique(applied')
      /\ \A r \in applied : r.name # f1.name => r \in applied'
      /\ \A n : ~Has(applied, n) => ~Has(applied', n)
    BY <1>1, <1>2, WithoutIsSubset DEF RunOK
<1>6. PICK file \in files : file.name = f1.name /\ file.hash = hash'
    BY <1>1, RowOfName
<1>7. hash' \in Hash
    BY <1>2, <1>6 DEF FilesOK, File
<1>8. /\ pc' \in {"next", "state", "delete_target", "apply", "entry"}
      /\ pc' = "apply" =>
            ~Has(applied, f1.name) \/ (Has(applied, f1.name) /\ RowOf(applied, f1.name).hash # hash')
      /\ pc' = "entry" => Rehashing(f1)
      /\ pc' = "delete_target" => ~Has(available, hashToName[hash'])
      /\ ~Has(applied, f1.name) /\ hash' \notin DOMAIN hashToName => pc' = "apply"
    BY <1>1, ModeMeans
<1>9. WellTyped'
  <2>1. FilesOK' /\ TableOK' /\ HandOK' /\ OthersOK'
    BY <1>1, <1>2, <1>3, <1>7, <1>8 DEF WellTyped, FilesOK, TableOK, HandOK, OthersOK
  <2>2. RunOK'
    BY <1>1, <1>2, <1>3, <1>5, <1>7 DEF RunOK
  <2> QED
    BY <2>1, <2>2 DEF WellTyped
<1>10. OwedIsNew'
    BY <1>1, <1>2, <1>5 DEF OwedIsNew
<1>11. NotPassedOver'
  <2> SUFFICES ASSUME NEW n \in owed, NEW f \in available, f.name = n
               PROVE  f \in Rest' \/ (f = cur' /\ pc' = "apply")
    BY <1>1 DEF NotPassedOver
  <2>1. f \in Rest
    BY <1>1, <1>2 DEF NotPassedOver
  <2>2. CASE f = f1
    <3>1. ~Has(applied, f1.name) /\ hash' \notin DOMAIN hashToName
      BY <2>2, <1>2, <1>6 DEF OwedIsNew
    <3> QED
      BY <3>1, <2>2, <1>1, <1>8
  <2>3. CASE f # f1
    BY <2>1, <2>3, <1>3, <1>4
  <2> QED
    BY <2>2, <2>3
<1>12. ASSUME "table" \notin upset, NEW f \in Rest, NEW r \in updates, r.name = f.name
       PROVE  r \in applied
    BY <1>1, <1>2, <1>12 DEF TableIsRead
<1>13. TableIsRead'
  <2> SUFFICES ASSUME "table" \notin upset, NEW f \in Rest', NEW r \in updates, r.name = f.name
               PROVE  r \in applied'
    BY <1>1 DEF TableIsRead
  <2>1. f \in available /\ f.name > f1.name
    BY <1>4
  <2>2. f.name # f1.name
    BY <2>1, <1>2, <1>3, NamesOfFound
  <2>3. r \in applied
    BY <2>1, <1>3, <1>12
  <2> QED
    BY <2>2, <2>3, <1>5
<1>14. ApplyIsNew'
  <2> SUFFICES ASSUME pc' = "apply", "table" \notin upset, NEW r \in updates, r.name = f1.name
               PROVE  r.hash # hash'
    BY <1>1 DEF ApplyIsNew
  <2>1. r \in applied
    BY <1>3, <1>12
  <2>2. Has(applied, f1.name)
    BY <2>1 DEF Has
  <2>3. r = RowOf(applied, f1.name)
    BY <2>1, <2>2, <1>2, RowOfName DEF RunOK
  <2> QED
    BY <2>2, <2>3, <1>8
<1>15. ApplyIsSeen'
    BY <1>1, <1>6 DEF ApplyIsSeen
<1>16. MovesFromDead'
    BY <1>1, <1>8 DEF MovesFromDead
<1>17. EntryIsRight'
    BY <1>1, <1>8 DEF EntryIsRight, Rehashing
<1>18. NothingInHand' /\ RecordedWasExecuted'
    BY <1>1, <1>2, <1>8 DEF NothingInHand, RecordedWasExecuted
<1> QED
    BY <1>9, <1>10, <1>11, <1>13, <1>14, <1>15, <1>16, <1>17, <1>18 DEF IInv

-----------------------------------------------------------------------------
(***************************************************************************)
(* A statement changes the table as it says, or not at all and nobody      *)
(* hears of it.                                                            *)
(***************************************************************************)
LEMMA StatementMeans ==
    ASSUME OthersOK, NEW after, Statement(after)
    PROVE  /\ updates' = after \/ updates' = updates
           /\ faults' \in 0..MaxFaults
           /\ upset \subseteq upset' /\ upset' \subseteq upset \cup {"statement"}
<1>1. MayFail \/ UNCHANGED faults
    BY DEF Statement, Fault, NoFault
<1>2. faults' \in 0..MaxFaults
    BY <1>1, FaultCounts
<1> QED
    BY <1>2 DEF Statement, Fault, NoFault

(***************************************************************************)
(* The file in hand is done with: if the rows it leaves are well typed and *)
(* true, and those of the files to come are as the run has read them, the  *)
(* invariant is kept.                                                      *)
(***************************************************************************)
LEMMA DoneKeeps ==
    ASSUME IInv, pc \in {"state", "rename", "entry"}, pc' = "next",
           UNCHANGED <<files, config, available, hashToName, cur, hash, owed, executed,
                       replaced, edits>>,
           NEW n, applied' = Without(applied, {n}), \A f \in Rest : f.name # n,
           updates' \subseteq Row, Unique(updates'),
           \A f \in Rest : \A r \in updates' : r.name = f.name => r \in updates,
           rehashed \subseteq rehashed', rehashed' \subseteq Hash,
           \A r \in updates' : \/ \E q \in updates : q.hash = r.hash
                               \/ r.hash \in executed \cup rehashed' \cup replaced,
           faults' \in 0..MaxFaults, upset \subseteq upset', upset' \subseteq upset \cup {"statement"}
    PROVE  IInv'
<1>1. /\ WellTyped /\ RunOK /\ NothingInHand /\ OwedIsNew /\ NotPassedOver /\ TableIsRead
      /\ RecordedWasExecuted
    BY DEF IInv, WellTyped
<1>2. /\ applied' \subseteq applied /\ Unique(applied')
      /\ \A r \in applied : r.name # n => r \in applied'
      /\ \A m : ~Has(applied, m) => ~Has(applied', m)
    BY <1>1, WithoutIsSubset DEF RunOK
<1>3. Rest' = Rest
    BY DEF Rest
<1>4. WellTyped'
  <2>1. FilesOK' /\ TableOK' /\ HandOK'
    BY <1>1 DEF WellTyped, FilesOK, TableOK, HandOK
  <2>2. RunOK'
    BY <1>1, <1>2 DEF RunOK
  <2>3. OthersOK'
    BY <1>1 DEF WellTyped, OthersOK
  <2> QED
    BY <2>1, <2>2, <2>3 DEF WellTyped
<1>5. OwedIsNew'
    BY <1>1, <1>2 DEF OwedIsNew
<1>6. NotPassedOver'
    BY <1>1, <1>3 DEF NotPassedOver
<1>7. TableIsRead'
  <2> SUFFICES ASSUME "table" \notin upset', NEW f \in Rest, NEW r \in updates', r.name = f.name
               PROVE  r \in applied'
    BY <1>3 DEF TableIsRead
  <2>1. r \in applied
    BY <1>1 DEF TableIsRead
  <2> QED
    BY <2>1, <1>2
<1>8. NothingInHand' /\ MovesFromDead' /\ ApplyIsNew' /\ ApplyIsSeen' /\ EntryIsRight'
    BY DEF NothingInHand, MovesFromDead, ApplyIsNew, ApplyIsSeen, EntryIsRight
<1>9. RecordedWasExecuted'
    BY <1>1 DEF RecordedWasExecuted
<1> QED
    BY <1>4, <1>5, <1>6, <1>7, <1>8, <1>9 DEF IInv

(***************************************************************************)
(* The row of a file that has moved takes its new state.                   *)
(***************************************************************************)
LEMMA UpdateStateKeeps == IInv /\ UpdateState => IInv'
<1> SUFFICES ASSUME IInv, UpdateState PROVE IInv'
    OBVIOUS
<1> DEFINE after == {IF r.name = cur.name THEN [r EXCEPT !.state = cur.state] ELSE r : r \in updates}
<1>1. /\ pc = "state" /\ pc' = "next" /\ Statement(after)
      /\ applied' = Without(applied, {cur.name})
      /\ UNCHANGED <<files, config, available, hashToName, cur, hash, owed, executed, rehashed,
                     replaced, edits>>
    BY DEF UpdateState, history
<1>2. /\ RunOK /\ OthersOK /\ TableOK /\ cur \in available
    BY <1>1 DEF IInv, WellTyped, HandOK
<1>3. cur.state \in State /\ \A f \in Rest : f.name # cur.name
    BY <1>2, NamesOfFound DEF Found
<1>4. ASSUME NEW r \in after
      PROVE  /\ r \in Row
             /\ \E q \in updates : q.name = r.name /\ q.hash = r.hash
                                   /\ (r.name # cur.name => q = r)
                                   /\ (r.name = cur.name => r = [q EXCEPT !.state = cur.state])
    BY <1>2, <1>3 DEF TableOK, Row
<1>5. Unique(after)
    BY <1>2, <1>4 DEF TableOK, Unique
<1> HIDE DEF after
<1>6. /\ updates' = after \/ updates' = updates
      /\ faults' \in 0..MaxFaults
      /\ upset \subseteq upset' /\ upset' \subseteq upset \cup {"statement"}
    BY <1>1, <1>2, StatementMeans
<1>7. updates' \subseteq Row /\ Unique(updates')
    BY <1>2, <1>4, <1>5, <1>6 DEF TableOK
<1>8. \A f \in Rest : \A r \in updates' : r.name = f.name => r \in updates
    BY <1>3, <1>4, <1>6
<1>9. \A r \in updates' : \E q \in updates : q.hash = r.hash
    BY <1>4, <1>6
<1>10. rehashed \subseteq rehashed' /\ rehashed' \subseteq Hash
    BY <1>1, <1>2 DEF OthersOK
<1> QED
    BY <1>1, <1>3, <1>6, <1>7, <1>8, <1>9, <1>10, DoneKeeps

(***************************************************************************)
(* The first statement of RenameEntry: the row of the new name goes.       *)
(***************************************************************************)
LEMMA DeleteTargetKeeps == IInv /\ DeleteTarget => IInv'
<1> SUFFICES ASSUME IInv, DeleteTarget PROVE IInv'
    OBVIOUS
<1>1. /\ pc = "delete_target" /\ pc' = "rename" /\ Statement(Without(updates, {cur.name}))
      /\ UNCHANGED <<files, config, available, applied, hashToName, cur, hash, owed, executed,
                     rehashed, replaced, edits>>
    BY DEF DeleteTarget, history
<1>2. /\ WellTyped /\ OthersOK /\ TableOK /\ NothingInHand /\ OwedIsNew /\ NotPassedOver
      /\ TableIsRead /\ MovesFromDead /\ RecordedWasExecuted
    BY DEF IInv, WellTyped
<1>3. /\ updates' \subseteq updates
      /\ faults' \in 0..MaxFaults
      /\ upset \subseteq upset' /\ upset' \subseteq upset \cup {"statement"}
    BY <1>1, <1>2, StatementMeans, WithoutIsSubset
<1>4. WellTyped'
  <2>1. FilesOK' /\ RunOK' /\ HandOK'
    BY <1>1, <1>2 DEF WellTyped, FilesOK, RunOK, HandOK
  <2>2. TableOK'
    BY <1>2, <1>3 DEF TableOK, Unique
  <2>3. OthersOK'
    BY <1>1, <1>2, <1>3 DEF OthersOK
  <2> QED
    BY <2>1, <2>2, <2>3 DEF WellTyped
<1>5. OwedIsNew' /\ MovesFromDead' /\ NothingInHand'
    BY <1>1, <1>2 DEF OwedIsNew, MovesFromDead, NothingInHand
<1>6. NotPassedOver' /\ TableIsRead'
    BY <1>1, <1>2, <1>3 DEF NotPassedOver, TableIsRead, Rest
<1>7. ApplyIsNew' /\ ApplyIsSeen' /\ EntryIsRight'
    BY <1>1 DEF ApplyIsNew, ApplyIsSeen, EntryIsRight
<1>8. RecordedWasExecuted'
    BY <1>1, <1>2, <1>3 DEF RecordedWasExecuted
<1> QED
    BY <1>4, <1>5, <1>6, <1>7, <1>8 DEF IInv

(***************************************************************************)
(* The second statement of RenameEntry: `name` is the primary key, so the  *)
(* row is moved only if the first has made room.                           *)
(***************************************************************************)
LEMMA RenameEntryKeeps == IInv /\ RenameEntry => IInv'
<1> SUFFICES ASSUME IInv, RenameEntry PROVE IInv'
    OBVIOUS
<1> DEFINE from == hashToName[hash]
           moved == {IF r.name = from THEN [r EXCEPT !.name = cur.name] ELSE r : r \in updates}
           after == IF Has(updates, cur.name) THEN updates ELSE moved
<1>1. /\ pc = "rename" /\ pc' = "next" /\ Statement(after)
      /\ applied' = Without(applied, {from})
      /\ UNCHANGED <<files, config, available, hashToName, cur, hash, owed, executed, rehashed,
                     replaced, edits>>
    BY DEF RenameEntry, history
<1>2. /\ RunOK /\ OthersOK /\ TableOK /\ cur \in available /\ ~Has(available, from)
    BY <1>1 DEF IInv, WellTyped, HandOK, MovesFromDead
<1>3. cur.name \in Name /\ Rest \subseteq available /\ \A f \in Rest : f.name # cur.name
    BY <1>2, NamesOfFound DEF Found
<1>4. \A f \in Rest : f.name # from
    BY <1>2, <1>3 DEF Has
<1> HIDE DEF from
<1>5. ASSUME NEW r \in moved
      PROVE  /\ r \in Row
             /\ \E q \in updates : /\ q.hash = r.hash
                                   /\ (r.name # cur.name => q = r)
                                   /\ (q.name # from => q = r)
                                   /\ (q.name = from => r = [q EXCEPT !.name = cur.name])
    BY <1>2, <1>3 DEF TableOK, Row
<1>6. ~Has(updates, cur.name) => Unique(moved)
  <2> SUFFICES ASSUME ~Has(updates, cur.name), NEW r \in moved, NEW s \in moved, r.name = s.name
               PROVE  r = s
    BY DEF Unique
  <2>1. PICK q \in updates : /\ (q.name # from => q = r)
                             /\ (q.name = from => r = [q EXCEPT !.name = cur.name])
    BY <1>5
  <2>2. PICK t \in updates : /\ (t.name # from => t = s)
                             /\ (t.name = from => s = [t EXCEPT !.name = cur.name])
    BY <1>5
  <2>3. q.name # cur.name /\ t.name # cur.name
    BY DEF Has
  <2>4. q \in Row /\ t \in Row
    BY <1>2 DEF TableOK
  <2>5. q.name = t.name
    BY <2>1, <2>2, <2>3, <2>4 DEF Row
  <2>6. q = t
    BY <2>5, <1>2 DEF TableOK, Unique
  <2> QED
    BY <2>1, <2>2, <2>6
<1> HIDE DEF moved
<1>7. /\ (updates' = moved /\ Unique(moved)) \/ updates' = updates
      /\ faults' \in 0..MaxFaults
      /\ upset \subseteq upset' /\ upset' \subseteq upset \cup {"statement"}
    BY <1>1, <1>2, <1>6, StatementMeans
<1>8. updates' \subseteq Row /\ Unique(updates')
    BY <1>2, <1>5, <1>7 DEF TableOK
<1>9. \A f \in Rest : \A r \in updates' : r.name = f.name => r \in updates
    BY <1>3, <1>5, <1>7
<1>10. \A r \in updates' : \E q \in updates : q.hash = r.hash
    BY <1>5, <1>7
<1>11. rehashed \subseteq rehashed' /\ rehashed' \subseteq Hash
    BY <1>1, <1>2 DEF OthersOK
<1> QED
    BY <1>1, <1>4, <1>7, <1>8, <1>9, <1>10, <1>11, DoneKeeps

(***************************************************************************)
(* The mysql program runs the file in hand to its end.                     *)
(***************************************************************************)
LEMMA ApplyKeeps == IInv /\ Apply => IInv'
<1> SUFFICES ASSUME IInv, Apply PROVE IInv'
    OBVIOUS
<1>1. /\ pc = "apply" /\ pc' = "entry" /\ Has(files, cur.name)
      /\ executed' = executed \cup {RowOf(files, cur.name).hash}
      /\ owed' = owed \ {cur.name}
      /\ UNCHANGED <<files, updates, config, available, applied, hashToName, cur, hash, upset,
                     rehashed, replaced, edits, faults>>
    BY DEF Apply
<1>2. /\ WellTyped /\ FilesOK /\ NothingInHand /\ OwedIsNew /\ NotPassedOver /\ TableIsRead
      /\ ApplyIsSeen /\ RecordedWasExecuted
    BY DEF IInv, WellTyped
<1>3. /\ RowOf(files, cur.name) \in files
      /\ \A f \in files : f.name = cur.name => f = RowOf(files, cur.name)
    BY <1>1, <1>2, RowOfName DEF FilesOK
<1>4. WellTyped'
  <2>1. FilesOK' /\ TableOK' /\ RunOK' /\ HandOK'
    BY <1>1, <1>2 DEF WellTyped, FilesOK, TableOK, RunOK, HandOK
  <2>2. executed' \subseteq Hash
    BY <1>1, <1>2, <1>3 DEF WellTyped, OthersOK, FilesOK, File
  <2> QED
    BY <2>1, <2>2, <1>1, <1>2 DEF WellTyped, OthersOK
<1>5. EntryIsRight'
    BY <1>1, <1>2, <1>3 DEF ApplyIsSeen, EntryIsRight
<1>6. OwedIsNew' /\ NothingInHand'
    BY <1>1, <1>2 DEF OwedIsNew, NothingInHand
<1>7. NotPassedOver' /\ TableIsRead'
    BY <1>1, <1>2 DEF NotPassedOver, TableIsRead, Rest
<1>8. MovesFromDead' /\ ApplyIsNew' /\ ApplyIsSeen'
    BY <1>1 DEF MovesFromDead, ApplyIsNew, ApplyIsSeen
<1>9. RecordedWasExecuted'
    BY <1>1, <1>2 DEF RecordedWasExecuted
<1> QED
    BY <1>4, <1>5, <1>6, <1>7, <1>8, <1>9 DEF IInv

(***************************************************************************)
(* The file in hand is recorded, with the content that was looked at.      *)
(***************************************************************************)
LEMMA UpdateEntryKeeps == IInv /\ UpdateEntry => IInv'
<1> SUFFICES ASSUME IInv, UpdateEntry PROVE IInv'
    OBVIOUS
<1> DEFINE new == [name |-> cur.name, hash |-> hash, state |-> cur.state]
           after == Without(updates, {cur.name}) \cup {new}
<1>1. /\ pc = "entry" /\ pc' = "next" /\ Statement(after)
      /\ rehashed' = IF Rehashing(cur) THEN rehashed \cup {hash} ELSE rehashed
      /\ applied' = Without(applied, {cur.name})
      /\ UNCHANGED <<files, config, available, hashToName, cur, hash, owed, executed, replaced,
                     edits>>
    BY DEF UpdateEntry
<1>2. /\ RunOK /\ OthersOK /\ TableOK /\ cur \in available /\ hash \in Hash /\ EntryIsRight
    BY <1>1 DEF IInv, WellTyped, HandOK
<1>3. cur \in Found /\ \A f \in Rest : f.name # cur.name
    BY <1>2, NamesOfFound
<1>4. new \in Row /\ new.name = cur.name /\ new.hash = hash
    BY <1>2, <1>3 DEF Found, Row
<1>5. hash \in executed \cup rehashed' \cup replaced
    BY <1>1, <1>2 DEF EntryIsRight
<1> HIDE DEF new
<1>6. \A r \in after : r = new \/ (r \in updates /\ r.name # cur.name)
    BY WithoutIsSubset
<1>7. after \subseteq Row /\ Unique(after)
    BY <1>2, <1>4, <1>6 DEF TableOK, Unique
<1> HIDE DEF after
<1>8. /\ updates' = after \/ updates' = updates
      /\ faults' \in 0..MaxFaults
      /\ upset \subseteq upset' /\ upset' \subseteq upset \cup {"statement"}
    BY <1>1, <1>2, StatementMeans DEF new, after
<1>9. updates' \subseteq Row /\ Unique(updates')
    BY <1>2, <1>7, <1>8 DEF TableOK
<1>10. \A f \in Rest : \A r \in updates' : r.name = f.name => r \in updates
    BY <1>3, <1>4, <1>6, <1>8
<1>11. \A r \in updates' : \/ \E q \in updates : q.hash = r.hash
                           \/ r.hash \in executed \cup rehashed' \cup replaced
    BY <1>4, <1>5, <1>6, <1>8
<1>12. rehashed \subseteq rehashed' /\ rehashed' \subseteq Hash
    BY <1>1, <1>2 DEF OthersOK
<1> QED
    BY <1>1, <1>3, <1>8, <1>9, <1>10, <1>11, <1>12, DoneKeeps

(***************************************************************************)
(* A step that changes nothing.                                            *)
(***************************************************************************)
LEMMA StutterKeeps == IInv /\ UNCHANGED vars => IInv'
<1> SUFFICES ASSUME IInv, UNCHANGED vars PROVE IInv'
    OBVIOUS
<1> USE DEF vars, run, history
<1>1. WellTyped'
    BY DEF IInv, WellTyped, FilesOK, TableOK, RunOK, HandOK, OthersOK
<1>2. NothingInHand' /\ OwedIsNew' /\ NotPassedOver' /\ TableIsRead'
    BY DEF IInv, NothingInHand, OwedIsNew, NotPassedOver, TableIsRead, Rest
<1>3. MovesFromDead' /\ ApplyIsNew' /\ ApplyIsSeen'
    BY DEF IInv, MovesFromDead, ApplyIsNew, ApplyIsSeen
<1>4. EntryIsRight' /\ RecordedWasExecuted'
    BY DEF IInv, EntryIsRight, RecordedWasExecuted, Rehashing
<1> QED
    BY <1>1, <1>2, <1>3, <1>4 DEF IInv

-----------------------------------------------------------------------------
(***************************************************************************)
(* Every step keeps the invariant.                                         *)
(***************************************************************************)
LEMMA StepIInv == IInv /\ [Next]_vars => IInv'
<1> SUFFICES ASSUME IInv, [Next]_vars PROVE IInv'
    OBVIOUS
<1>1. ASSUME NEW n \in Name, Edit(n) PROVE IInv'
    BY <1>1, EditKeeps
<1>2. CASE Start
    BY <1>2, StartKeeps
<1>3. CASE Step
    BY <1>3, FetchKeeps, SkipKeeps, CheckKeeps, UpdateStateKeeps, DeleteTargetKeeps,
       RenameEntryKeeps, ApplyKeeps, UpdateEntryKeeps, ThrowKeeps, CleanUpKeeps DEF Step
<1>4. CASE Crash
    BY <1>4, CrashKeeps
<1>5. CASE UNCHANGED vars
    BY <1>5, StutterKeeps
<1> QED
    BY <1>1, <1>2, <1>3, <1>4, <1>5 DEF Next

(***************************************************************************)
(* The invariant holds in every state of every behaviour.                  *)
(***************************************************************************)
LEMMA IInvHolds == Spec => []IInv
<1> QED
    BY InitIInv, StepIInv, PTL DEF Spec

(***************************************************************************)
(* A file the table does not have is not passed over, in well-typed states *)
(* of any number of runs, crashes, edits and failures.                     *)
(***************************************************************************)
THEOREM RunHolds == Spec => []RunInv
<1>1. IInv => TypeOK
    BY DEF IInv, WellTyped, FilesOK, TableOK, RunOK, OthersOK, TypeOK, Found
<1>2. IInv => RunInv
    BY <1>1 DEF IInv, RunInv
<1> QED
    BY <1>2, IInvHolds, PTL

(***************************************************************************)
(* The table does not lie about what was applied.                          *)
(***************************************************************************)
THEOREM RecordsAreTrue == Spec => []RecordedWasExecuted
<1>1. IInv => RecordedWasExecuted
    BY DEF IInv
<1> QED
    BY <1>1, IInvHolds, PTL

(***************************************************************************)
(* What is recorded is not executed again.                                 *)
(***************************************************************************)
THEOREM RecordedRunsOnce == Spec => RecordedIsNotExecuted
<1>1. IInv /\ [Next]_vars =>
        [pc = "apply" /\ pc' = "entry" /\ "table" \notin upset =>
           \A r \in updates : r.name = cur.name => r.hash # hash]_vars
    BY DEF IInv, ApplyIsNew
<1> QED
    BY <1>1, IInvHolds, PTL DEF Spec, RecordedIsNotExecuted

-----------------------------------------------------------------------------
(***************************************************************************)
(* What EveryFileRecorded asks of one file, and the files that are behind  *)
(* the run: all but those to come and the one in hand.                     *)
(***************************************************************************)
HasItsRow(f) ==
    \E r \in updates :
        /\ r.name = f.name
        /\ \/ r.hash = RowOf(files, f.name).hash
           \/ ~config.redundancy
           \/ ~config.archived /\ r.state = "ARCHIVED" /\ f.state = "ARCHIVED"

HasATwin(f) == \E g \in files : g.name # f.name /\ g.hash = RowOf(files, f.name).hash

Passed(f) == f \in available /\ f \notin Rest /\ (f = cur => pc = "next")

(***************************************************************************)
(* The second invariant, of a run in which no statement failed and no file *)
(* was changed.  The files found are there, with the content looked at.    *)
(***************************************************************************)
Calm == pc \notin {"idle", "fetch"} /\ upset \cap {"statement", "edit"} = {}

FilesStay ==
    /\ \A f \in available : Has(files, f.name)
    /\ pc # "next" => hash = RowOf(files, cur.name).hash

(***************************************************************************)
(* A row that was read and is not settled, of a file that was found, is    *)
(* still in the table.                                                     *)
(***************************************************************************)
RowsStay == \A r \in applied : Has(available, r.name) => r \in updates

(***************************************************************************)
(* What the run knows of the row of the file in hand.                      *)
(***************************************************************************)
HandIsKnown ==
    /\ pc = "state" => \E r \in applied : r.name = cur.name /\ r.hash = hash
    /\ pc \in {"delete_target", "rename"} => ~Has(applied, cur.name) /\ hash \in DOMAIN hashToName
    /\ pc = "rename" => ~Has(updates, cur.name)

(***************************************************************************)
(* The row that a content without a file of its name may be moved from is  *)
(* there, unless a file of this content that is behind the run took it.    *)
(***************************************************************************)
OneNameEach ==
    \A h, i \in DOMAIN hashToName : hashToName[h] = hashToName[i] => h = i

TakenByATwin ==
    \A h \in DOMAIN hashToName :
        \/ Has(available, hashToName[h])
        \/ \E r \in updates : r.name = hashToName[h] /\ r.hash = h
        \/ \E g \in available : Passed(g) /\ RowOf(files, g.name).hash = h

(***************************************************************************)
(* The files behind the run are recorded, or have a twin.                  *)
(***************************************************************************)
PassedIsRecorded == \A f \in available : Passed(f) => HasItsRow(f) \/ HasATwin(f)

RInv ==
    Calm => /\ FilesStay /\ RowsStay /\ HandIsKnown
            /\ OneNameEach /\ TakenByATwin /\ PassedIsRecorded

(***************************************************************************)
(* The run of a calm state was calm before, if it had begun.               *)
(***************************************************************************)
LEMMA CalmBefore ==
    ASSUME RInv, pc \notin {"idle", "fetch"}, Calm', upset \subseteq upset'
    PROVE  /\ Calm /\ FilesStay /\ RowsStay /\ HandIsKnown
           /\ OneNameEach /\ TakenByATwin /\ PassedIsRecorded
<1>1. Calm
    BY DEF Calm
<1> QED
    BY <1>1 DEF RInv

(***************************************************************************)
(* When the run turns to the next file, those behind it are those that     *)
(* were, and this one if nothing is to be done with it.                    *)
(***************************************************************************)
LEMMA NextIsPassed ==
    ASSUME RunOK, pc = "next", Rest # {}, cur' = First(Rest), UNCHANGED available,
           NEW g \in available
    PROVE  Passed(g)' <=> Passed(g) \/ (g = First(Rest) /\ pc' = "next")
<1> DEFINE f1 == First(Rest)
<1>1. /\ f1 \in Rest /\ f1 \in available /\ f1 # NoFile
      /\ \A f \in Rest : f = f1 \/ f.name > f1.name
      /\ \A f \in available : f.name > f1.name => f \in Rest
    BY FirstOfRest
<1>2. f1.name \in Nat /\ cur' = f1
    BY <1>1, NamesOfFound
<1> HIDE DEF f1
<1>3. Rest' = {f \in available : f.name > f1.name}
    BY <1>1, <1>2 DEF Rest
<1>4. ~(f1.name > f1.name)
    BY <1>2
<1>5. g \in Rest' <=> g \in Rest /\ g # f1
    BY <1>1, <1>3, <1>4
<1>6. Passed(g)' <=> g \notin Rest' /\ (g = f1 => pc' = "next")
    BY <1>2 DEF Passed
<1>7. Passed(g) <=> g \notin Rest
    BY DEF Passed
<1> QED
    BY <1>1, <1>5, <1>6, <1>7 DEF f1

(***************************************************************************)
(* While a file is in hand those behind the run stay, and it is one of     *)
(* them when it is done with.                                              *)
(***************************************************************************)
LEMMA HandIsPassed ==
    ASSUME RunOK, cur \in available, pc # "next", UNCHANGED <<available, cur>>,
           NEW g \in available
    PROVE  Passed(g)' <=> Passed(g) \/ (g = cur /\ pc' = "next")
<1>1. cur \notin Rest
    BY NamesOfFound
<1>2. Rest' = Rest
    BY DEF Rest
<1> QED
    BY <1>1, <1>2 DEF Passed

(***************************************************************************)
(* A file behind the run is not the one in hand, by its name either.       *)
(***************************************************************************)
LEMMA PassedIsOther ==
    ASSUME RunOK, cur \in available, pc # "next", NEW g \in available, Passed(g)
    PROVE  g.name # cur.name
  BY DEF RunOK, Unique, Passed

(***************************************************************************)
(* The files behind the run stay recorded if their rows stay, and the file *)
(* c that joins them is recorded too.                                      *)
(***************************************************************************)
LEMMA StaysRecorded ==
    ASSUME PassedIsRecorded, UNCHANGED <<files, config, available>>, NEW c,
           \A g \in available : Passed(g)' => Passed(g) \/ (g = c /\ pc' = "next"),
           pc' = "next" => (HasItsRow(c) \/ HasATwin(c))',
           \A g \in available : \A r \in updates :
               Passed(g) /\ r.name = g.name => r \in updates'
    PROVE  PassedIsRecorded'
<1> SUFFICES ASSUME NEW f \in available, Passed(f)' PROVE (HasItsRow(f) \/ HasATwin(f))'
    BY DEF PassedIsRecorded
<1>1. CASE Passed(f)
  <2>1. HasATwin(f) => HasATwin(f)'
    BY DEF HasATwin
  <2>2. HasItsRow(f) => HasItsRow(f)'
    BY <1>1 DEF HasItsRow
  <2> QED
    BY <2>1, <2>2, <1>1 DEF PassedIsRecorded
<1>2. CASE ~Passed(f)
    BY <1>2
<1> QED
    BY <1>1, <1>2

(***************************************************************************)
(* The same of the contents whose row was taken by a twin: the rows of     *)
(* names without a file stay, and those behind the run.                    *)
(***************************************************************************)
LEMMA StaysTaken ==
    ASSUME TakenByATwin, UNCHANGED <<files, available, hashToName>>,
           \A g \in available : Passed(g) => Passed(g)',
           \A r \in updates : ~Has(available, r.name) => r \in updates'
    PROVE  TakenByATwin'
<1> SUFFICES ASSUME NEW h \in DOMAIN hashToName, ~Has(available, hashToName[h])
             PROVE  \/ \E r \in updates' : r.name = hashToName[h] /\ r.hash = h
                    \/ \E g \in available : Passed(g)' /\ RowOf(files, g.name).hash = h
    BY DEF TakenByATwin
<1>1. CASE \E r \in updates : r.name = hashToName[h] /\ r.hash = h
    BY <1>1
<1>2. CASE \E g \in available : Passed(g) /\ RowOf(files, g.name).hash = h
    BY <1>2
<1> QED
    BY <1>1, <1>2 DEF TakenByATwin

-----------------------------------------------------------------------------
(***************************************************************************)
(* What was listed is there, and what was read is in the table.            *)
(***************************************************************************)
LEMMA FetchRecords == IInv /\ Fetch => RInv'
<1> SUFFICES ASSUME IInv, Fetch PROVE RInv'
    OBVIOUS
<1>1. PICK lost \in SUBSET {"files", "table"} :
        /\ available' = IF "files" \in lost THEN {}
                        ELSE {[name |-> f.name, state |-> f.state] : f \in files}
        /\ applied' = IF "table" \in lost THEN {} ELSE updates
    BY DEF Fetch
<1>2. /\ pc = "fetch" /\ pc' = "next" /\ cur = NoFile
      /\ hashToName' \in {f \in [{r.hash : r \in applied'} -> Names(applied')] :
                             \A h \in DOMAIN f : RowOf(applied', f[h]).hash = h}
      /\ UNCHANGED <<files, updates, cur>>
    BY DEF Fetch, IInv, NothingInHand
<1>3. Rest' = available'
    BY <1>2 DEF Rest
<1>4. FilesStay'
  <2> SUFFICES ASSUME NEW g \in available' PROVE Has(files, g.name)
    BY <1>2 DEF FilesStay
  <2>1. PICK f \in files : g = [name |-> f.name, state |-> f.state]
    BY <1>1
  <2> QED
    BY <2>1 DEF Has
<1>5. applied' \subseteq updates
    BY <1>1
<1>6. RowsStay' /\ HandIsKnown'
    BY <1>2, <1>5 DEF RowsStay, HandIsKnown
<1>7. \A h \in DOMAIN hashToName' :
          /\ hashToName'[h] \in Names(applied') /\ RowOf(applied', hashToName'[h]).hash = h
    BY <1>2
<1>8. OneNameEach'
    BY <1>7 DEF OneNameEach
<1>9. TakenByATwin'
  <2> SUFFICES ASSUME NEW h \in DOMAIN hashToName'
               PROVE  \E r \in updates' : r.name = hashToName'[h] /\ r.hash = h
    BY DEF TakenByATwin
  <2>1. Has(applied', hashToName'[h])
    BY <1>7 DEF Names, Has
  <2> QED
    BY <2>1, <1>2, <1>5, <1>7, RowOfName
<1>10. PassedIsRecorded'
    BY <1>3 DEF PassedIsRecorded, Passed
<1> QED
    BY <1>4, <1>6, <1>8, <1>9, <1>10 DEF RInv

(***************************************************************************)
(* A row taken as right is in the table, and the settings say that its     *)
(* file need not be looked at.                                             *)
(***************************************************************************)
LEMMA SkipRecords == IInv /\ RInv /\ Skip => RInv'
<1> SUFFICES ASSUME IInv, RInv, Skip, Calm' PROVE RInv'
    BY DEF RInv
<1>0. PICK f1 : f1 = First(Rest)
    OBVIOUS
<1>1. /\ pc = "next" /\ pc' = "next" /\ Rest # {} /\ NotRead(f1)
      /\ cur' = f1 /\ applied' = Without(applied, {f1.name})
      /\ UNCHANGED <<files, updates, config, available, hashToName, hash, upset>>
    BY <1>0 DEF Skip
<1>2. RunOK
    BY DEF IInv, WellTyped
<1>3. /\ FilesStay /\ RowsStay /\ OneNameEach /\ TakenByATwin /\ PassedIsRecorded
    BY <1>1, CalmBefore
<1>4. f1 \in available
    BY <1>0, <1>1, <1>2, FirstOfRest
<1>5. \A g \in available : Passed(g)' <=> Passed(g) \/ (g = f1 /\ pc' = "next")
    BY <1>0, <1>1, <1>2, NextIsPassed
<1>6. HasItsRow(f1)'
  <2>1. PICK r \in applied : r.name = f1.name /\ r = RowOf(applied, f1.name)
    BY <1>1, RowOfName DEF NotRead
  <2>2. r \in updates
    BY <2>1, <1>3, <1>4 DEF RowsStay, Has
  <2>3. ~config.redundancy \/ (~config.archived /\ r.state = "ARCHIVED" /\ f1.state = "ARCHIVED")
    BY <2>1, <1>1 DEF NotRead
  <2> QED
    BY <2>1, <2>2, <2>3, <1>1 DEF HasItsRow
<1>7. FilesStay' /\ HandIsKnown' /\ OneNameEach'
    BY <1>1, <1>3 DEF FilesStay, HandIsKnown, OneNameEach
<1>8. RowsStay'
    BY <1>1, <1>3, WithoutIsSubset DEF RowsStay
<1>9. TakenByATwin'
    BY <1>1, <1>3, <1>5, StaysTaken
<1>10. PassedIsRecorded'
    BY <1>1, <1>3, <1>5, <1>6, StaysRecorded
<1> QED
    BY <1>7, <1>8, <1>9, <1>10 DEF RInv

(***************************************************************************)
(* What Check chooses: nothing for a row that has the content, the state   *)
(* for one that has it too, a rename for a content under a name without a  *)
(* file.                                                                   *)
(***************************************************************************)
LEMMA ChoiceMeans ==
    ASSUME NEW f, NEW h
    PROVE  /\ Mode(f, h) \in {"next", "state", "delete_target", "apply", "entry"}
           /\ Mode(f, h) \in {"next", "state"} =>
                Has(applied, f.name) /\ RowOf(applied, f.name).hash = h
           /\ Mode(f, h) = "delete_target" => ~Has(applied, f.name) /\ h \in DOMAIN hashToName
<1>1. Compare(RowOf(applied, f.name), f, h) \in {"apply", "state", "next"}
    BY DEF Compare
<1>2. Compare(RowOf(applied, f.name), f, h) # "apply" => RowOf(applied, f.name).hash = h
    BY DEF Compare
<1> QED
    BY <1>1, <1>2 DEF Mode, Renamed

(***************************************************************************)
(* A file is read: if nothing is to be done, its row has its content.      *)
(***************************************************************************)
LEMMA CheckRecords == IInv /\ RInv /\ Check => RInv'
<1> SUFFICES ASSUME IInv, RInv, Check, Calm' PROVE RInv'
    BY DEF RInv
<1>0. PICK f1 : f1 = First(Rest)
    OBVIOUS
<1>1. /\ pc = "next" /\ Rest # {}
      /\ cur' = f1 /\ hash' = RowOf(files, f1.name).hash /\ pc' = Mode(f1, hash')
      /\ applied' = IF pc' = "next" THEN Without(applied, {f1.name}) ELSE applied
      /\ UNCHANGED <<files, updates, config, available, hashToName, upset>>
    BY <1>0 DEF Check
<1>2. RunOK
    BY DEF IInv, WellTyped
<1>3. /\ FilesStay /\ RowsStay /\ OneNameEach /\ TakenByATwin /\ PassedIsRecorded
    BY <1>1, CalmBefore
<1>4. f1 \in available
    BY <1>0, <1>1, <1>2, FirstOfRest
<1>5. \A g \in available : Passed(g)' <=> Passed(g) \/ (g = f1 /\ pc' = "next")
    BY <1>0, <1>1, <1>2, NextIsPassed
<1>6. /\ pc' \in {"next", "state", "delete_target", "apply", "entry"}
      /\ pc' \in {"next", "state"} =>
            Has(applied, f1.name) /\ RowOf(applied, f1.name).hash = hash'
      /\ pc' = "delete_target" => ~Has(applied, f1.name) /\ hash' \in DOMAIN hashToName
    BY <1>1, ChoiceMeans
<1>7. pc' \in {"next", "state"} =>
        \E r \in applied : r.name = f1.name /\ r.hash = hash' /\ r \in updates
    BY <1>3, <1>4, <1>6, RowOfName DEF RowsStay, Has
<1>8. pc' = "next" => HasItsRow(f1)'
    BY <1>1, <1>7 DEF HasItsRow
<1>9. FilesStay' /\ OneNameEach'
    BY <1>1, <1>3 DEF FilesStay, OneNameEach
<1>10. HandIsKnown'
  <2>1. pc' = "state" => \E r \in applied' : r.name = cur'.name /\ r.hash = hash'
    BY <1>1, <1>7
  <2>2. pc' = "delete_target" => ~Has(applied', cur'.name) /\ hash' \in DOMAIN hashToName'
    BY <1>1, <1>6
  <2> QED
    BY <2>1, <2>2, <1>6 DEF HandIsKnown
<1>11. applied' \subseteq applied
    BY <1>1, WithoutIsSubset
<1>12. RowsStay'
    BY <1>1, <1>3, <1>11 DEF RowsStay
<1>13. TakenByATwin'
    BY <1>1, <1>3, <1>5, StaysTaken
<1>14. PassedIsRecorded'
    BY <1>1, <1>3, <1>5, <1>8, StaysRecorded
<1> QED
    BY <1>9, <1>10, <1>12, <1>13, <1>14 DEF RInv

(***************************************************************************)
(* In a run that stays calm a statement changes the table.                 *)
(***************************************************************************)
LEMMA StatementIsDone ==
    ASSUME NEW after, Statement(after), Calm'
    PROVE  updates' = after /\ upset' = upset
  BY DEF Statement, Fault, NoFault, Calm

(***************************************************************************)
(* A row that takes a new state keeps its content.                         *)
(***************************************************************************)
LEMMA UpdateStateRecords == IInv /\ RInv /\ UpdateState => RInv'
<1> SUFFICES ASSUME IInv, RInv, UpdateState, Calm' PROVE RInv'
    BY DEF RInv
<1>0. PICK c : c = cur
    OBVIOUS
<1>1. /\ pc = "state" /\ pc' = "next"
      /\ Statement({IF r.name = c.name THEN [r EXCEPT !.state = c.state] ELSE r : r \in updates})
      /\ applied' = Without(applied, {c.name})
      /\ UNCHANGED <<files, config, available, hashToName, cur, hash>>
    BY <1>0 DEF UpdateState
<1>2. /\ updates' = {IF r.name = c.name THEN [r EXCEPT !.state = c.state] ELSE r : r \in updates}
      /\ upset' = upset
    BY <1>1, StatementIsDone
<1>3. RunOK /\ TableOK /\ c \in available
    BY <1>0, <1>1 DEF IInv, WellTyped, HandOK
<1>4. /\ FilesStay /\ RowsStay /\ HandIsKnown /\ OneNameEach /\ TakenByATwin /\ PassedIsRecorded
    BY <1>1, <1>2, CalmBefore
<1>5. \A g \in available : Passed(g)' <=> Passed(g) \/ (g = c /\ pc' = "next")
    BY <1>0, <1>1, <1>3, HandIsPassed
<1>6. \A r \in updates : r.name # c.name => r \in updates'
    BY <1>2
<1>7. HasItsRow(c)'
  <2>1. PICK r \in applied : r.name = c.name /\ r.hash = RowOf(files, c.name).hash
    BY <1>0, <1>1, <1>4 DEF HandIsKnown, FilesStay
  <2>2. r \in updates
    BY <2>1, <1>3, <1>4 DEF RowsStay, Has
  <2>3. [r EXCEPT !.state = c.state] \in updates'
    BY <2>1, <2>2, <1>2
  <2>4. /\ [r EXCEPT !.state = c.state].name = c.name
        /\ [r EXCEPT !.state = c.state].hash = RowOf(files, c.name).hash
    BY <2>1, <2>2, <1>3 DEF TableOK, Row
  <2> QED
    BY <2>3, <2>4, <1>1 DEF HasItsRow
<1>8. FilesStay' /\ HandIsKnown' /\ OneNameEach'
    BY <1>1, <1>4 DEF FilesStay, HandIsKnown, OneNameEach
<1>9. RowsStay'
    BY <1>1, <1>4, <1>6, WithoutIsSubset DEF RowsStay
<1>10. TakenByATwin'
    BY <1>1, <1>3, <1>4, <1>5, <1>6, StaysTaken DEF Has
<1>11. \A g \in available : Passed(g) => g.name # c.name
    BY <1>0, <1>1, <1>3, PassedIsOther
<1>12. PassedIsRecorded'
    BY <1>1, <1>4, <1>5, <1>6, <1>7, <1>11, StaysRecorded
<1> QED
    BY <1>8, <1>9, <1>10, <1>12 DEF RInv

(***************************************************************************)
(* The row that stands in the way of a rename goes: only the file in hand  *)
(* has its name.                                                           *)
(***************************************************************************)
LEMMA DeleteTargetRecords == IInv /\ RInv /\ DeleteTarget => RInv'
<1> SUFFICES ASSUME IInv, RInv, DeleteTarget, Calm' PROVE RInv'
    BY DEF RInv
<1>0. PICK c : c = cur
    OBVIOUS
<1>1. /\ pc = "delete_target" /\ pc' = "rename" /\ Statement(Without(updates, {c.name}))
      /\ UNCHANGED <<files, config, available, applied, hashToName, cur, hash>>
    BY <1>0 DEF DeleteTarget
<1>2. updates' = Without(updates, {c.name}) /\ upset' = upset
    BY <1>1, StatementIsDone
<1>3. RunOK /\ c \in available
    BY <1>0, <1>1 DEF IInv, WellTyped, HandOK
<1>4. /\ FilesStay /\ RowsStay /\ HandIsKnown /\ OneNameEach /\ TakenByATwin /\ PassedIsRecorded
    BY <1>1, <1>2, CalmBefore
<1>5. \A g \in available : Passed(g)' <=> Passed(g) \/ (g = c /\ pc' = "next")
    BY <1>0, <1>1, <1>3, HandIsPassed
<1>6. /\ \A r \in updates : r.name # c.name => r \in updates'
      /\ ~Has(updates', c.name)
    BY <1>2, WithoutIsSubset DEF Has
<1>7. FilesStay' /\ OneNameEach'
    BY <1>1, <1>4 DEF FilesStay, OneNameEach
<1>8. ~Has(applied, c.name) /\ hash \in DOMAIN hashToName
    BY <1>0, <1>1, <1>4 DEF HandIsKnown
<1>9. HandIsKnown'
    BY <1>0, <1>1, <1>6, <1>8 DEF HandIsKnown
<1>10. RowsStay'
    BY <1>1, <1>4, <1>6, <1>8 DEF RowsStay, Has
<1>11. TakenByATwin'
    BY <1>1, <1>3, <1>4, <1>5, <1>6, StaysTaken DEF Has
<1>12. \A g \in available : Passed(g) => g.name # c.name
    BY <1>0, <1>1, <1>3, PassedIsOther
<1>13. PassedIsRecorded'
    BY <1>1, <1>4, <1>5, <1>6, <1>12, StaysRecorded
<1> QED
    BY <1>7, <1>9, <1>10, <1>11, <1>13 DEF RInv

(***************************************************************************)
(* The row is moved to the file in hand, or a file behind the run has the  *)
(* same content and has taken it.                                          *)
(***************************************************************************)
LEMMA RenameEntryRecords == IInv /\ RInv /\ RenameEntry => RInv'
<1> SUFFICES ASSUME IInv, RInv, RenameEntry, Calm' PROVE RInv'
    BY DEF RInv
<1>0. PICK c, from : c = cur /\ from = hashToName[hash]
    OBVIOUS
<1> DEFINE moved == {IF r.name = from THEN [r EXCEPT !.name = c.name] ELSE r : r \in updates}
<1>1. /\ pc = "rename" /\ pc' = "next"
      /\ Statement(IF Has(updates, c.name) THEN updates ELSE moved)
      /\ applied' = Without(applied, {from})
      /\ UNCHANGED <<files, config, available, hashToName, cur, hash>>
    BY <1>0 DEF RenameEntry
<1>2. updates' = (IF Has(updates, c.name) THEN updates ELSE moved) /\ upset' = upset
    BY <1>1, StatementIsDone
<1>3. /\ RunOK /\ TableOK /\ c \in available /\ ~Has(available, from)
    BY <1>0, <1>1 DEF IInv, WellTyped, HandOK, MovesFromDead
<1>4. /\ FilesStay /\ RowsStay /\ HandIsKnown /\ OneNameEach /\ TakenByATwin /\ PassedIsRecorded
    BY <1>1, <1>2, CalmBefore
<1>5. \A g \in available : Passed(g)' <=> Passed(g) \/ (g = c /\ pc' = "next")
    BY <1>0, <1>1, <1>3, HandIsPassed
<1>6. /\ ~Has(updates, c.name) /\ hash \in DOMAIN hashToName
      /\ hash = RowOf(files, c.name).hash
    BY <1>0, <1>1, <1>4 DEF HandIsKnown, FilesStay
<1>7. updates' = moved
    BY <1>2, <1>6
<1>8. /\ \A r \in updates : r.name # from => r \in updates'
      /\ \A r \in updates : r.name = from => [r EXCEPT !.name = c.name] \in updates'
    BY <1>7
<1> HIDE DEF moved
<1>9. \A g \in available : Passed(g) => g.name # c.name
    BY <1>0, <1>1, <1>3, PassedIsOther
<1>10. (HasItsRow(c) \/ HasATwin(c))'
  <2>1. CASE \E r \in updates : r.name = from /\ r.hash = hash
    <3>1. PICK r \in updates : r.name = from /\ r.hash = hash
      BY <2>1
    <3>2. [r EXCEPT !.name = c.name].name = c.name /\ [r EXCEPT !.name = c.name].hash = hash
      BY <3>1, <1>3 DEF TableOK, Row
    <3>3. [r EXCEPT !.name = c.name] \in updates'
      BY <3>1, <1>8
    <3> QED
      BY <3>2, <3>3, <1>1, <1>6 DEF HasItsRow
  <2>2. CASE \E g \in available : Passed(g) /\ RowOf(files, g.name).hash = hash
    <3>1. PICK g \in available : Passed(g) /\ RowOf(files, g.name).hash = hash
      BY <2>2
    <3>2. RowOf(files, g.name) \in files /\ RowOf(files, g.name).name = g.name
      BY <1>4, RowOfName DEF FilesStay
    <3> QED
      BY <3>1, <3>2, <1>1, <1>6, <1>9 DEF HasATwin
  <2> QED
    BY <2>1, <2>2, <1>0, <1>3, <1>4, <1>6 DEF TakenByATwin
<1>11. FilesStay' /\ HandIsKnown' /\ OneNameEach'
    BY <1>1, <1>4 DEF FilesStay, HandIsKnown, OneNameEach
<1>12. RowsStay'
    BY <1>1, <1>3, <1>4, <1>8, WithoutIsSubset DEF RowsStay
<1>13. TakenByATwin'
  <2> SUFFICES ASSUME NEW h \in DOMAIN hashToName, ~Has(available, hashToName[h])
               PROVE  \/ \E r \in updates' : r.name = hashToName[h] /\ r.hash = h
                      \/ \E g \in available : Passed(g)' /\ RowOf(files, g.name).hash = h
    BY <1>1 DEF TakenByATwin
  <2>1. CASE h = hash
    BY <2>1, <1>1, <1>3, <1>5, <1>6
  <2>2. CASE h # hash
    <3>1. hashToName[h] # from
      BY <2>2, <1>0, <1>4, <1>6 DEF OneNameEach
    <3> QED
      BY <3>1, <1>4, <1>5, <1>8 DEF TakenByATwin
  <2> QED
    BY <2>1, <2>2
<1>14. \A g \in available : g.name # from
    BY <1>3 DEF Has
<1>15. PassedIsRecorded'
    BY <1>1, <1>4, <1>5, <1>8, <1>10, <1>14, StaysRecorded
<1> QED
    BY <1>11, <1>12, <1>13, <1>15 DEF RInv

(***************************************************************************)
(* The mysql program does not touch the table.                             *)
(***************************************************************************)
LEMMA ApplyRecords == IInv /\ RInv /\ Apply => RInv'
<1> SUFFICES ASSUME IInv, RInv, Apply, Calm' PROVE RInv'
    BY DEF RInv
<1>0. PICK c : c = cur
    OBVIOUS
<1>1. /\ pc = "apply" /\ pc' = "entry"
      /\ UNCHANGED <<files, updates, config, available, applied, hashToName, cur, hash, upset>>
    BY DEF Apply
<1>2. RunOK /\ c \in available
    BY <1>0, <1>1 DEF IInv, WellTyped, HandOK
<1>3. /\ FilesStay /\ RowsStay /\ OneNameEach /\ TakenByATwin /\ PassedIsRecorded
    BY <1>1, CalmBefore
<1>4. \A g \in available : Passed(g)' <=> Passed(g) \/ (g = c /\ pc' = "next")
    BY <1>0, <1>1, <1>2, HandIsPassed
<1>5. FilesStay' /\ RowsStay' /\ HandIsKnown' /\ OneNameEach'
    BY <1>1, <1>3 DEF FilesStay, RowsStay, HandIsKnown, OneNameEach
<1>6. TakenByATwin'
    BY <1>1, <1>3, <1>4, StaysTaken
<1>7. PassedIsRecorded'
    BY <1>1, <1>3, <1>4, StaysRecorded
<1> QED
    BY <1>5, <1>6, <1>7 DEF RInv

(***************************************************************************)
(* The entry of the file in hand is written with the content it has.       *)
(***************************************************************************)
LEMMA UpdateEntryRecords == IInv /\ RInv /\ UpdateEntry => RInv'
<1> SUFFICES ASSUME IInv, RInv, UpdateEntry, Calm' PROVE RInv'
    BY DEF RInv
<1>0. PICK c : c = cur
    OBVIOUS
<1>1. /\ pc = "entry" /\ pc' = "next"
      /\ Statement(Without(updates, {c.name})
                     \cup {[name |-> c.name, hash |-> hash, state |-> c.state]})
      /\ applied' = Without(applied, {c.name})
      /\ UNCHANGED <<files, config, available, hashToName, cur, hash>>
    BY <1>0 DEF UpdateEntry
<1>2. /\ updates' = Without(updates, {c.name})
                      \cup {[name |-> c.name, hash |-> hash, state |-> c.state]}
      /\ upset' = upset
    BY <1>1, StatementIsDone
<1>3. RunOK /\ c \in available
    BY <1>0, <1>1 DEF IInv, WellTyped, HandOK
<1>4. /\ FilesStay /\ RowsStay /\ OneNameEach /\ TakenByATwin /\ PassedIsRecorded
    BY <1>1, <1>2, CalmBefore
<1>5. \A g \in available : Passed(g)' <=> Passed(g) \/ (g = c /\ pc' = "next")
    BY <1>0, <1>1, <1>3, HandIsPassed
<1>6. \A r \in updates : r.name # c.name => r \in updates'
    BY <1>2, WithoutIsSubset
<1>7. HasItsRow(c)'
  <2>1. hash = RowOf(files, c.name).hash
    BY <1>0, <1>1, <1>4 DEF FilesStay
  <2> DEFINE new == [name |-> c.name, hash |-> hash, state |-> c.state]
  <2>2. new \in updates' /\ new.name = c.name /\ new.hash = hash
    BY <1>2
  <2> HIDE DEF new
  <2> QED
    BY <2>1, <2>2, <1>1 DEF HasItsRow
<1>8. FilesStay' /\ HandIsKnown' /\ OneNameEach'
    BY <1>1, <1>4 DEF FilesStay, HandIsKnown, OneNameEach
<1>9. RowsStay'
    BY <1>1, <1>4, <1>6, WithoutIsSubset DEF RowsStay
<1>10. TakenByATwin'
    BY <1>1, <1>3, <1>4, <1>5, <1>6, StaysTaken DEF Has
<1>11. \A g \in available : Passed(g) => g.name # c.name
    BY <1>0, <1>1, <1>3, PassedIsOther
<1>12. PassedIsRecorded'
    BY <1>1, <1>4, <1>5, <1>6, <1>7, <1>11, StaysRecorded
<1> QED
    BY <1>8, <1>9, <1>10, <1>12 DEF RInv

-----------------------------------------------------------------------------
(***************************************************************************)
(* A step after which no run goes on, or not in calm.                      *)
(***************************************************************************)
LEMMA NotCalmAfter ==
    ASSUME IInv, \/ \E n \in Name : Edit(n)
                 \/ Start \/ Throw \/ CleanUp \/ Crash
    PROVE  ~Calm'
<1>1. ASSUME NEW n \in Name, Edit(n) PROVE ~Calm'
  <2>1. CASE pc = "idle"
    BY <1>1, <2>1 DEF Edit, Calm
  <2>2. CASE pc # "idle"
    BY <1>1, <2>2 DEF Edit, Calm
  <2> QED
    BY <2>1, <2>2
<1>2. Start => ~Calm'
    BY DEF Start, Calm
<1>3. Throw \/ CleanUp \/ Crash => ~Calm'
    BY DEF Throw, CleanUp, Crash, NoRun, Calm
<1> QED
    BY <1>1, <1>2, <1>3

(***************************************************************************)
(* Every step keeps the second invariant.                                  *)
(***************************************************************************)
LEMMA StepRInv == IInv /\ RInv /\ [Next]_vars => RInv'
<1> SUFFICES ASSUME IInv, RInv, [Next]_vars PROVE RInv'
    OBVIOUS
<1>1. CASE \/ \E n \in Name : Edit(n)
           \/ Start \/ Throw \/ CleanUp \/ Crash
    BY <1>1, NotCalmAfter DEF RInv
<1>2. CASE \/ Fetch \/ Skip \/ Check \/ UpdateState \/ DeleteTarget \/ RenameEntry
           \/ Apply \/ UpdateEntry
    BY <1>2, FetchRecords, SkipRecords, CheckRecords, UpdateStateRecords, DeleteTargetRecords,
       RenameEntryRecords, ApplyRecords, UpdateEntryRecords
<1>3. CASE UNCHANGED vars
  <2>1. /\ UNCHANGED <<files, updates, config, pc, available, applied, hashToName, cur, hash, upset>>
    BY <1>3 DEF vars, run
  <2>2. Calm' = Calm /\ FilesStay' = FilesStay /\ RowsStay' = RowsStay
    BY <2>1 DEF Calm, FilesStay, RowsStay
  <2>3. HandIsKnown' = HandIsKnown /\ OneNameEach' = OneNameEach
    BY <2>1 DEF HandIsKnown, OneNameEach
  <2>4. TakenByATwin' = TakenByATwin
    BY <2>1 DEF TakenByATwin, Passed, Rest
  <2>5. PassedIsRecorded' = PassedIsRecorded
    BY <2>1 DEF PassedIsRecorded, Passed, Rest, HasItsRow, HasATwin
  <2> QED
    BY <2>2, <2>3, <2>4, <2>5 DEF RInv
<1> QED
    BY <1>1, <1>2, <1>3 DEF Next, Step

(***************************************************************************)
(* It holds in every state of every behaviour.                             *)
(***************************************************************************)
LEMMA RInvHolds == Spec => []RInv
<1>1. Init => RInv
    BY DEF Init, RInv, Calm
<1> QED
    BY <1>1, IInvHolds, StepRInv, PTL DEF Spec

(***************************************************************************)
(* A run that ends with nothing gone wrong has recorded every file.        *)
(***************************************************************************)
THEOREM FilesAreRecorded == Spec => []EveryFileRecorded
<1>1. RInv => EveryFileRecorded
  <2> SUFFICES ASSUME RInv, Finished, upset \cap {"statement", "edit"} = {}, NEW f \in available
               PROVE  HasItsRow(f) \/ HasATwin(f)
    BY DEF EveryFileRecorded, HasItsRow, HasATwin
  <2>1. Calm /\ Passed(f)
    BY DEF Finished, Calm, Passed
  <2> QED
    BY <2>1 DEF RInv, PassedIsRecorded
<1> QED
    BY <1>1, RInvHolds, PTL

(***************************************************************************)
(* Where RenameMovesARow goes wrong: as long as no statement has failed    *)
(* and no file has changed, the row that a rename is to move is missing    *)
(* only when another file has the same content.                            *)
(***************************************************************************)
THEOREM OnlyTwinsTakeRows ==
    Spec => [](pc = "rename" /\ upset \cap {"statement", "edit"} = {} =>
                 \/ Has(updates, hashToName[hash])
                 \/ \E g \in files : g.name # cur.name /\ g.hash = hash)
<1>1. IInv /\ RInv => (pc = "rename" /\ upset \cap {"statement", "edit"} = {} =>
                         \/ Has(updates, hashToName[hash])
                         \/ \E g \in files : g.name # cur.name /\ g.hash = hash)
  <2> SUFFICES ASSUME IInv, RInv, pc = "rename", upset \cap {"statement", "edit"} = {},
                      ~Has(updates, hashToName[hash])
               PROVE  \E g \in files : g.name # cur.name /\ g.hash = hash
    OBVIOUS
  <2>1. FilesStay /\ HandIsKnown /\ TakenByATwin
    BY DEF RInv, Calm
  <2>2. RunOK /\ cur \in available /\ ~Has(available, hashToName[hash])
    BY DEF IInv, WellTyped, HandOK, MovesFromDead
  <2>3. hash \in DOMAIN hashToName
    BY <2>1 DEF HandIsKnown
  <2>4. PICK g \in available : Passed(g) /\ RowOf(files, g.name).hash = hash
    BY <2>1, <2>2, <2>3 DEF TakenByATwin, Has
  <2>5. g.name # cur.name
    BY <2>2, <2>4, PassedIsOther
  <2>6. RowOf(files, g.name) \in files /\ RowOf(files, g.name).name = g.name
    BY <2>1, RowOfName DEF FilesStay
  <2> QED
    BY <2>4, <2>5, <2>6
<1> QED
    BY <1>1, IInvHolds, RInvHolds, PTL
=============================================================================
