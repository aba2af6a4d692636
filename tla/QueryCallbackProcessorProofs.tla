--------------------- MODULE QueryCallbackProcessorProofs ---------------------
(***************************************************************************)
(* Proofs about QueryCallbackProcessor, for any chains of any length: no   *)
(* chain is lost or doubled, and a broken promise destroys only the chains *)
(* of the pass that meets it.                                              *)
(***************************************************************************)
EXTENDS QueryCallbackProcessor, DistinctValues, FiniteSetTheorems

(***************************************************************************)
(* The chains in any of the three places.                                  *)
(***************************************************************************)
Held == ValuesOf(callbacks) \cup ValuesOf(updateCallbacks) \cup ValuesOf(kept)

Types == TypeOK /\ popped \in [Chain -> Nat]

(***************************************************************************)
(* A chain is in one place and there once.                                 *)
(***************************************************************************)
Apart ==
    /\ NoneTwice(callbacks) /\ NoneTwice(updateCallbacks) /\ NoneTwice(kept)
    /\ ValuesOf(callbacks) \cap ValuesOf(updateCallbacks) = {}
    /\ ValuesOf(callbacks) \cap ValuesOf(kept) = {}
    /\ ValuesOf(updateCallbacks) \cap ValuesOf(kept) = {}

(***************************************************************************)
(* The chains held are those that have been added and have not ended. Each *)
(* waits for a query and has a callback to run.                            *)
(***************************************************************************)
HeldIsLive ==
    \A c \in Chain :
        /\ c \in Held <=> ~Fresh(c) /\ ended[c] = "no"
        /\ c \in Held => valid[c] /\ popped[c] < Length[c]
        /\ Fresh(c) => ended[c] = "no" /\ ~valid[c] /\ popped[c] = 0

(***************************************************************************)
(* The inductive invariant. NoChainLost counts places; the proof needs     *)
(* them as sets that do not overlap. That nothing is left over from the    *)
(* previous pass keeps StartPass from dropping it.                         *)
(***************************************************************************)
IInv ==
    /\ Types /\ Apart /\ HeldIsLive
    /\ ~inPass => updateCallbacks = <<>> /\ kept = <<>>

-----------------------------------------------------------------------------
(***************************************************************************)
(* The empty vector holds nothing.                                         *)
(***************************************************************************)
LEMMA EmptyHoldsNothing ==
    /\ ValuesOf(<<>>) = {} /\ NoneTwice(<<>>)
    /\ \A S : <<>> \in Seq(S)
<1>1. Len(<<>>) = 0 /\ \A S : <<>> \in Seq(S)
    BY EmptySeq
<1>2. 1..0 = {}
    OBVIOUS
<1> QED
    BY <1>1, <1>2 DEF ValuesOf, NoneTwice

(***************************************************************************)
(* The values of a vector are among the values it may hold.                *)
(***************************************************************************)
LEMMA ValuesAreOf ==
    ASSUME NEW S, NEW s \in Seq(S)
    PROVE  /\ ValuesOf(s) \subseteq S /\ ToSet(s) = ValuesOf(s)
           /\ s = <<>> <=> ValuesOf(s) = {}
<1>1. /\ Len(s) \in Nat /\ DOMAIN s = 1..Len(s)
      /\ s # <<>> => Len(s) \in Nat \ {0}
    BY LenProperties, EmptySeq
<1>2. \A i \in 1..Len(s) : s[i] \in S
    BY ElementOfSeq
<1>3. ToSet(s) = ValuesOf(s) /\ ValuesOf(s) \subseteq S
    BY <1>1, <1>2 DEF ToSet, ValuesOf
<1>4. ASSUME s # <<>> PROVE ValuesOf(s) # {}
  <2>1. 1 \in 1..Len(s)
    BY <1>1, <1>4
  <2> QED
    BY <2>1 DEF ValuesOf
<1> QED
    BY <1>3, <1>4, EmptyHoldsNothing

(***************************************************************************)
(* A set of at most one chain as a sequence.                               *)
(***************************************************************************)
LEMMA FewToSeq ==
    ASSUME NEW S, NEW T, T = {} \/ \E d \in S : T = {d}
    PROVE  /\ SetToSeq(T) \in Seq(S) /\ ValuesOf(SetToSeq(T)) = T
           /\ NoneTwice(SetToSeq(T))
<1> DEFINE n == Cardinality(T)
           f == SetToSeq(T)
<1>1. n \in 0..1 /\ (n = 1 <=> T # {})
  <2>1. CASE T = {}
    <3>1. n = 0
      BY <2>1, FS_EmptySet
    <3> QED
      BY <3>1, <2>1
  <2>2. CASE \E d \in S : T = {d}
    <3>1. n = 1
      BY <2>2, FS_Singleton
    <3> QED
      BY <3>1, <2>2
  <2> QED
    BY <2>1, <2>2
<1>2. \E g \in [1..n -> T] : IsInjective(g)
  <2>1. CASE T = {}
    <3>1. 1..n = {}
      BY <1>1, <2>1
    <3>2. [i \in 1..n |-> 0] \in [1..n -> T]
      BY <3>1
    <3> QED
      BY <3>1, <3>2 DEF IsInjective
  <2>2. CASE \E d \in S : T = {d}
    <3>1. PICK d \in S : T = {d}
      BY <2>2
    <3>2. 1..n = {1}
      BY <1>1, <3>1
    <3>3. [i \in 1..n |-> d] \in [1..n -> T]
      BY <3>1
    <3> QED
      BY <3>2, <3>3 DEF IsInjective
  <2> QED
    BY <2>1, <2>2
<1>3. f \in [1..n -> T] /\ IsInjective(f)
    BY <1>2 DEF SetToSeq
<1>4. n \in Nat /\ T \subseteq S
    BY <1>1
<1> HIDE DEF f, n
<1>5. f \in Seq(S) /\ Len(f) = n
  <2>1. f \in [1..n -> S]
    BY <1>3, <1>4
  <2>2. f \in Seq(S)
    BY <2>1, <1>4
  <2>3. 1..Len(f) = 1..n /\ Len(f) \in Nat
    BY <2>1, <2>2, LenProperties
  <2> QED
    BY <2>2, <2>3, <1>4
<1>6. NoneTwice(f)
    BY <1>3, <1>5 DEF NoneTwice, IsInjective
<1>7. ValuesOf(f) = {f[i] : i \in 1..n}
    BY <1>5 DEF ValuesOf
<1>8. ValuesOf(f) = T
  <2>1. CASE T = {}
    <3>1. 1..n = {}
      BY <2>1, <1>1
    <3> QED
      BY <3>1, <2>1, <1>7
  <2>2. CASE \E d \in S : T = {d}
    <3>1. PICK d \in S : T = {d}
      BY <2>2
    <3>2. 1..n = {1}
      BY <1>1, <3>1
    <3>3. f[1] \in T
      BY <3>2, <1>3
    <3> QED
      BY <3>1, <3>2, <3>3, <1>7
  <2> QED
    BY <2>1, <2>2
<1> QED
    BY <1>5, <1>6, <1>8 DEF f

-----------------------------------------------------------------------------
(***************************************************************************)
(* At first there are no chains.                                           *)
(***************************************************************************)
LEMMA InitIInv == Init => IInv
<1> SUFFICES ASSUME Init PROVE IInv
    OBVIOUS
<1>1. Types
  <2>1. Length \in [Chain -> Nat \ {0}]
    BY LengthAssumption
  <2>2. <<>> \in Seq(Chain) /\ <<>> \in Seq({"pending", "value", "broken"})
    BY EmptyHoldsNothing
  <2>3. \A c \in Chain : popped[c] = 0 /\ 0 \in 0..Length[c]
    BY <2>1 DEF Init
  <2> QED
    BY <2>2, <2>3 DEF Init, Types, TypeOK
<1>2. Apart /\ Held = {}
    BY EmptyHoldsNothing DEF Init, Apart, Held
<1>3. HeldIsLive
    BY <1>2 DEF Init, HeldIsLive, Fresh
<1> QED
    BY <1>1, <1>2, <1>3 DEF Init, IInv

(***************************************************************************)
(* AddQuery puts a new chain into the vector, with its first query asked.  *)
(***************************************************************************)
LEMMA AddQueryKeepsIInv ==
    ASSUME IInv, NEW c \in Chain, AddQuery(c)
    PROVE  IInv'
<1>1. /\ ~inPass /\ Fresh(c)
      /\ callbacks' = Append(callbacks, c)
      /\ valid' = [valid EXCEPT ![c] = TRUE]
      /\ answers' = [answers EXCEPT ![c] = <<"pending">>]
      /\ UNCHANGED <<updateCallbacks, kept, inPass, popped, ended>>
    BY DEF AddQuery
<1>2. /\ callbacks \in Seq(Chain)
      /\ valid \in [Chain -> BOOLEAN]
      /\ answers \in [Chain -> Seq({"pending", "value", "broken"})]
      /\ popped \in [Chain -> Nat]
    BY DEF IInv, Types, TypeOK
<1>3. c \notin Held
    BY <1>1 DEF IInv, HeldIsLive
<1>4. /\ ValuesOf(callbacks') = ValuesOf(callbacks) \cup {c}
      /\ NoneTwice(callbacks')
    BY <1>1, <1>2, <1>3, AppendAddsValue DEF Held, IInv, Apart
<1>5. Types'
  <2>1. callbacks' \in Seq(Chain)
    BY <1>1, <1>2
  <2>2. <<"pending">> \in Seq({"pending", "value", "broken"})
    OBVIOUS
  <2>3. answers' \in [Chain -> Seq({"pending", "value", "broken"})]
    BY <1>1, <1>2, <2>2
  <2> QED
    BY <1>1, <1>2, <2>1, <2>3 DEF IInv, Types, TypeOK
<1>6. Apart'
    BY <1>1, <1>3, <1>4 DEF Held, IInv, Apart
<1>7. Held' = Held \cup {c}
    BY <1>1, <1>4 DEF Held
<1>8. popped[c] < Length[c]
  <2>1. popped[c] = 0 /\ Length[c] \in Nat \ {0}
    BY <1>1, LengthAssumption DEF IInv, HeldIsLive
  <2> QED
    BY <2>1
<1>9. HeldIsLive'
  <2> SUFFICES ASSUME NEW d \in Chain
               PROVE  /\ d \in Held' <=> ~Fresh(d)' /\ ended'[d] = "no"
                      /\ d \in Held' => valid'[d] /\ popped'[d] < Length[d]
                      /\ Fresh(d)' => ended'[d] = "no" /\ ~valid'[d] /\ popped'[d] = 0
    BY DEF HeldIsLive
  <2>1. CASE d = c
    <3>1. answers'[c] = <<"pending">> /\ <<"pending">> # <<>> /\ valid'[c]
      BY <1>1, <1>2
    <3> QED
      BY <2>1, <3>1, <1>1, <1>7, <1>8 DEF IInv, HeldIsLive, Fresh
  <2>2. CASE d # c
    BY <2>2, <1>1, <1>2, <1>7 DEF IInv, HeldIsLive, Fresh
  <2> QED
    BY <2>1, <2>2
<1> QED
    BY <1>1, <1>5, <1>6, <1>9 DEF IInv

(***************************************************************************)
(* An answer changes nothing about where the chain is.                     *)
(***************************************************************************)
LEMMA WorkerAnswersKeepsIInv ==
    ASSUME IInv, NEW c \in Chain, WorkerAnswers(c)
    PROVE  IInv'
<1>1. PICK a \in {"value", "broken"} :
        answers' = [answers EXCEPT ![c] = [@ EXCEPT ![Len(answers[c])] = a]]
    BY DEF WorkerAnswers
<1>2. /\ Answer(c) = "pending"
      /\ UNCHANGED <<callbacks, updateCallbacks, kept, inPass, popped, valid, ended>>
    BY DEF WorkerAnswers
<1>3. answers \in [Chain -> Seq({"pending", "value", "broken"})]
    BY DEF IInv, Types, TypeOK
<1>4. ~Fresh(c)
    BY <1>2 DEF IInv, HeldIsLive, Answer
<1>5. /\ Len(answers[c]) \in 1..Len(answers[c])
      /\ Len(answers[c]) # 0
  <2>1. answers[c] # <<>> /\ answers[c] \in Seq({"pending", "value", "broken"})
    BY <1>3, <1>4 DEF Fresh
  <2>2. Len(answers[c]) \in Nat \ {0}
    BY <2>1, EmptySeq
  <2> QED
    BY <2>2
<1>6. answers'[c] = [answers[c] EXCEPT ![Len(answers[c])] = a]
    BY <1>1, <1>3
<1>7. /\ answers'[c] \in Seq({"pending", "value", "broken"})
      /\ Len(answers'[c]) = Len(answers[c])
    BY <1>3, <1>5, <1>6, ExceptSeq
<1>8. answers'[c] # <<>>
    BY <1>5, <1>7, EmptySeq
<1>9. answers' \in [Chain -> Seq({"pending", "value", "broken"})]
    BY <1>1, <1>3, <1>6, <1>7
<1>10. \A d \in Chain : Fresh(d)' <=> Fresh(d)
    BY <1>1, <1>3, <1>4, <1>8 DEF Fresh
<1>11. Types'
    BY <1>2, <1>9 DEF IInv, Types, TypeOK
<1>12. Apart' /\ Held' = Held
    BY <1>2 DEF IInv, Apart, Held
<1>13. HeldIsLive'
    BY <1>2, <1>10, <1>12 DEF IInv, HeldIsLive
<1> QED
    BY <1>2, <1>11, <1>12, <1>13 DEF IInv

(***************************************************************************)
(* A pass starts by moving the vector out.                                 *)
(***************************************************************************)
LEMMA StartPassKeepsIInv ==
    ASSUME IInv, StartPass
    PROVE  IInv'
<1>1. /\ ~inPass /\ inPass'
      /\ updateCallbacks' = callbacks /\ callbacks' = <<>>
      /\ UNCHANGED <<kept, popped, valid, answers, ended>>
    BY DEF StartPass
<1>2. updateCallbacks = <<>> /\ kept = <<>>
    BY <1>1 DEF IInv
<1>3. Types'
    BY <1>1, EmptyHoldsNothing DEF IInv, Types, TypeOK
<1>4. Apart' /\ Held' = Held
    BY <1>1, <1>2, EmptyHoldsNothing DEF IInv, Apart, Held
<1>5. HeldIsLive'
    BY <1>1, <1>4 DEF IInv, HeldIsLive, Fresh
<1> QED
    BY <1>1, <1>3, <1>4, <1>5 DEF IInv

(***************************************************************************)
(* The chain the pass looks at.                                            *)
(***************************************************************************)
LEMMA FirstOfPass ==
    ASSUME IInv, updateCallbacks # <<>>, NEW c, c = Head(updateCallbacks)
    PROVE  /\ c \in Chain /\ c \in Held
           /\ c \in ValuesOf(updateCallbacks)
           /\ c \notin ValuesOf(callbacks) /\ c \notin ValuesOf(kept)
           /\ Tail(updateCallbacks) \in Seq(Chain)
           /\ ValuesOf(Tail(updateCallbacks)) = ValuesOf(updateCallbacks) \ {c}
           /\ NoneTwice(Tail(updateCallbacks))
<1>1. updateCallbacks \in Seq(Chain) /\ NoneTwice(updateCallbacks)
    BY DEF IInv, Types, TypeOK, Apart
<1>2. /\ c \in Chain /\ c \in ValuesOf(updateCallbacks)
      /\ Tail(updateCallbacks) \in Seq(Chain)
      /\ ValuesOf(Tail(updateCallbacks)) = ValuesOf(updateCallbacks) \ {c}
      /\ NoneTwice(Tail(updateCallbacks))
    BY <1>1, TailLosesHead
<1> QED
    BY <1>2 DEF IInv, Apart, Held

(***************************************************************************)
(* A chain without an answer is put back.                                  *)
(***************************************************************************)
LEMMA NotReadyKeepsIInv ==
    ASSUME IInv, NotReady
    PROVE  IInv'
<1> DEFINE c == Head(updateCallbacks)
<1>1. /\ inPass /\ updateCallbacks # <<>>
      /\ updateCallbacks' = Tail(updateCallbacks)
      /\ kept' = Append(kept, c)
      /\ UNCHANGED <<callbacks, inPass, popped, valid, answers, ended>>
    BY DEF NotReady
<1> HIDE DEF c
<1>2. /\ c \in Chain
      /\ c \in ValuesOf(updateCallbacks)
      /\ c \notin ValuesOf(callbacks) /\ c \notin ValuesOf(kept)
      /\ updateCallbacks' \in Seq(Chain)
      /\ ValuesOf(updateCallbacks') = ValuesOf(updateCallbacks) \ {c}
      /\ NoneTwice(updateCallbacks')
    BY <1>1, FirstOfPass DEF c
<1>3. kept \in Seq(Chain) /\ NoneTwice(kept)
    BY DEF IInv, Types, TypeOK, Apart
<1>4. kept' \in Seq(Chain)
    BY <1>1, <1>2, <1>3
<1>5. ValuesOf(kept') = ValuesOf(kept) \cup {c} /\ NoneTwice(kept')
    BY <1>1, <1>2, <1>3, AppendAddsValue
<1>6. Types'
    BY <1>1, <1>2, <1>4 DEF IInv, Types, TypeOK
<1>7. Apart'
    BY <1>1, <1>2, <1>5 DEF IInv, Apart
<1>8. Held' = Held
    BY <1>1, <1>2, <1>5 DEF Held
<1>9. HeldIsLive'
    BY <1>1, <1>8 DEF IInv, HeldIsLive, Fresh
<1> QED
    BY <1>1, <1>6, <1>7, <1>9 DEF IInv

(***************************************************************************)
(* InvokeIfReady runs a callback, which may add chains and ask the next    *)
(* query, and keeps the chain or completes it.                             *)
(***************************************************************************)
LEMMA InvokeIfReadyKeepsIInv ==
    ASSUME IInv, InvokeIfReady
    PROVE  IInv'
<1> DEFINE c == Head(updateCallbacks)
<1>1. /\ inPass /\ inPass' /\ updateCallbacks # <<>>
      /\ updateCallbacks' = Tail(updateCallbacks)
      /\ popped' = [popped EXCEPT ![c] = popped[c] + 1]
    BY DEF InvokeIfReady, IInv, Types, TypeOK
<1>2. PICK chained \in BOOLEAN, more \in {{}} \cup {{d} : d \in {d \in Chain : Fresh(d)}} :
        /\ CallbackBody(c, chained, more)
        /\ IF NextStep(c, chained)
           THEN kept' = Append(kept, c) /\ ended' = ended
           ELSE kept' = kept /\ ended' = [ended EXCEPT ![c] = "completed"]
    BY DEF InvokeIfReady
<1> HIDE DEF c
<1>3. /\ c \in Chain /\ c \in Held
      /\ c \in ValuesOf(updateCallbacks)
      /\ c \notin ValuesOf(callbacks) /\ c \notin ValuesOf(kept)
      /\ updateCallbacks' \in Seq(Chain)
      /\ ValuesOf(updateCallbacks') = ValuesOf(updateCallbacks) \ {c}
      /\ NoneTwice(updateCallbacks')
    BY <1>1, FirstOfPass DEF c
<1>4. more \subseteq {d \in Chain : Fresh(d)} /\ (more = {} \/ \E d \in Chain : more = {d})
    BY <1>2
<1>5. more \cap Held = {} /\ c \notin more /\ ~Fresh(c)
    BY <1>3, <1>4 DEF IInv, HeldIsLive
<1>6. /\ callbacks \in Seq(Chain) /\ kept \in Seq(Chain)
      /\ popped \in [Chain -> Nat]
      /\ answers \in [Chain -> Seq({"pending", "value", "broken"})]
      /\ ended \in [Chain -> {"no", "completed", "destroyed"}]
      /\ valid \in [Chain -> BOOLEAN]
    BY DEF IInv, Types, TypeOK
<1>7. /\ callbacks' = callbacks \o SetToSeq(more)
      /\ valid' = [d \in Chain |-> IF d = c THEN chained ELSE valid[d] \/ d \in more]
      /\ answers' = [d \in Chain |->
                       IF (d = c /\ chained) \/ d \in more
                       THEN Append(answers[d], "pending") ELSE answers[d]]
    BY <1>2 DEF CallbackBody
<1>8. /\ callbacks' \in Seq(Chain)
      /\ ValuesOf(callbacks') = ValuesOf(callbacks) \cup more
      /\ NoneTwice(callbacks')
  <2>1. /\ SetToSeq(more) \in Seq(Chain) /\ ValuesOf(SetToSeq(more)) = more
        /\ NoneTwice(SetToSeq(more))
    BY <1>4, FewToSeq
  <2>2. ValuesOf(callbacks) \cap more = {} /\ NoneTwice(callbacks)
    BY <1>5 DEF Held, IInv, Apart
  <2> QED
    BY <2>1, <2>2, <1>6, <1>7, JoinAddsValues
<1>9. /\ kept' \in Seq(Chain) /\ NoneTwice(kept')
      /\ ValuesOf(kept') = IF NextStep(c, chained) THEN ValuesOf(kept) \cup {c}
                                                    ELSE ValuesOf(kept)
  <2>1. CASE NextStep(c, chained)
    <3>1. kept' = Append(kept, c)
      BY <2>1, <1>2
    <3>2. kept' \in Seq(Chain)
      BY <3>1, <1>3, <1>6
    <3> QED
      BY <2>1, <3>1, <3>2, <1>3, <1>6, AppendAddsValue DEF IInv, Apart
  <2>2. CASE ~NextStep(c, chained)
    BY <2>2, <1>2, <1>6 DEF IInv, Apart
  <2> QED
    BY <2>1, <2>2
<1>10. /\ ended' \in [Chain -> {"no", "completed", "destroyed"}]
       /\ ended'[c] = "no" <=> NextStep(c, chained)
       /\ \A d \in Chain : d # c => ended'[d] = ended[d]
  <2>1. ended[c] = "no"
    BY <1>3 DEF IInv, HeldIsLive
  <2> QED
    BY <2>1, <1>2, <1>3, <1>6
<1>11. /\ answers' \in [Chain -> Seq({"pending", "value", "broken"})]
       /\ \A d \in Chain : Fresh(d)' <=> Fresh(d) /\ d \notin more
  <2>1. \A d \in Chain : /\ Append(answers[d], "pending") \in Seq({"pending", "value", "broken"})
                         /\ Append(answers[d], "pending") # <<>>
    <3> TAKE d \in Chain
    <3> DEFINE R == {"pending", "value", "broken"}
               s == answers[d]
    <3>1. s \in Seq(R) /\ "pending" \in R
      BY <1>6
    <3> HIDE DEF R, s
    <3>2. /\ Append(s, "pending") \in Seq(R)
          /\ Len(Append(s, "pending")) = Len(s) + 1 /\ Len(s) \in Nat
      BY <3>1, AppendProperties, LenProperties
    <3>3. Append(s, "pending") # <<>>
      BY <3>2, EmptySeq
    <3> QED
      BY <3>2, <3>3 DEF R, s
  <2>2. \A d \in Chain :
            answers'[d] = IF (d = c /\ chained) \/ d \in more
                          THEN Append(answers[d], "pending") ELSE answers[d]
    BY <1>7
  <2>3. answers' \in [Chain -> Seq({"pending", "value", "broken"})]
    BY <1>6, <1>7, <2>1
  <2> QED
    BY <2>1, <2>2, <2>3, <1>5 DEF Fresh
<1>12. popped' \in [Chain -> Nat] /\ \A d \in Chain : popped'[d] \in 0..Length[d]
  <2>1. Length \in [Chain -> Nat \ {0}]
    BY LengthAssumption
  <2>2. popped[c] < Length[c] /\ popped[c] \in Nat
    BY <1>3, <1>6 DEF IInv, HeldIsLive
  <2>3. popped[c] + 1 \in 0..Length[c]
    BY <2>1, <2>2, <1>3
  <2>4. \A d \in Chain : popped[d] \in 0..Length[d]
    BY DEF IInv, Types, TypeOK
  <2> QED
    BY <2>2, <2>3, <2>4, <1>1, <1>3, <1>6
<1>13. Types'
  <2>1. valid' \in [Chain -> BOOLEAN]
    BY <1>6, <1>7
  <2> QED
    BY <2>1, <1>1, <1>3, <1>8, <1>9, <1>10, <1>11, <1>12 DEF Types, TypeOK
<1>14. Apart'
  <2>1. more \cap ValuesOf(updateCallbacks) = {} /\ more \cap ValuesOf(kept) = {}
    BY <1>5 DEF Held
  <2> QED
    BY <2>1, <1>3, <1>5, <1>8, <1>9 DEF IInv, Apart
<1>15. Held' = IF NextStep(c, chained) THEN Held \cup more ELSE (Held \cup more) \ {c}
    BY <1>3, <1>5, <1>8, <1>9 DEF Held
<1>16. HeldIsLive'
  <2> SUFFICES ASSUME NEW d \in Chain
               PROVE  /\ d \in Held' <=> ~Fresh(d)' /\ ended'[d] = "no"
                      /\ d \in Held' => valid'[d] /\ popped'[d] < Length[d]
                      /\ Fresh(d)' => ended'[d] = "no" /\ ~valid'[d] /\ popped'[d] = 0
    BY DEF HeldIsLive
  <2>1. CASE d = c
    <3>1. d \in Held' <=> NextStep(c, chained)
      BY <2>1, <1>3, <1>5, <1>15
    <3>2. ~Fresh(d)'
      BY <2>1, <1>5, <1>11
    <3>3. NextStep(c, chained) => valid'[d] /\ popped'[d] < Length[d]
      BY <2>1, <1>1, <1>3, <1>6, <1>7 DEF NextStep
    <3> QED
      BY <2>1, <3>1, <3>2, <3>3, <1>10
  <2>2. CASE d # c
    <3>1. /\ d \in Held' <=> d \in Held \/ d \in more
          /\ ended'[d] = ended[d] /\ popped'[d] = popped[d]
          /\ valid'[d] = (valid[d] \/ d \in more)
          /\ Fresh(d)' <=> Fresh(d) /\ d \notin more
      BY <2>2, <1>1, <1>6, <1>7, <1>10, <1>11, <1>15
    <3>2. d \in more => /\ Fresh(d) /\ ended[d] = "no"
                        /\ popped[d] < Length[d]
      <4>1. d \in more => Fresh(d) /\ popped[d] = 0 /\ ended[d] = "no"
        BY <1>4 DEF IInv, HeldIsLive
      <4>2. Length[d] \in Nat \ {0}
        BY LengthAssumption
      <4> QED
        BY <4>1, <4>2
    <3> QED
      BY <3>1, <3>2 DEF IInv, HeldIsLive
  <2> QED
    BY <2>1, <2>2
<1> QED
    BY <1>1, <1>13, <1>14, <1>16 DEF IInv

(***************************************************************************)
(* The chains of the pass, as Throw names them.                            *)
(***************************************************************************)
LEMMA PassHolds ==
    ASSUME IInv
    PROVE  /\ OfThisPass = ValuesOf(updateCallbacks) \cup ValuesOf(kept)
           /\ OfThisPass \subseteq Held /\ OfThisPass \cap ValuesOf(callbacks) = {}
<1>1. updateCallbacks \in Seq(Chain) /\ kept \in Seq(Chain)
    BY DEF IInv, Types, TypeOK
<1>2. /\ updateCallbacks \o kept \in Seq(Chain)
      /\ ValuesOf(updateCallbacks \o kept) = ValuesOf(updateCallbacks) \cup ValuesOf(kept)
    BY <1>1, JoinAddsValues
<1>3. ToSet(updateCallbacks \o kept) = ValuesOf(updateCallbacks \o kept)
    BY <1>2, ValuesAreOf
<1>4. OfThisPass = ValuesOf(updateCallbacks) \cup ValuesOf(kept)
    BY <1>2, <1>3 DEF OfThisPass
<1> QED
    BY <1>4 DEF Held, IInv, Apart

(***************************************************************************)
(* A broken promise destroys what the pass holds and nothing else.         *)
(***************************************************************************)
LEMMA ThrowKeepsIInv ==
    ASSUME IInv, Throw
    PROVE  IInv'
<1>1. /\ ended' = [d \in Chain |-> IF d \in OfThisPass THEN "destroyed" ELSE ended[d]]
      /\ valid' = [d \in Chain |-> valid[d] /\ d \notin OfThisPass]
      /\ updateCallbacks' = <<>> /\ kept' = <<>> /\ inPass' = FALSE
      /\ UNCHANGED <<callbacks, popped, answers>>
    BY DEF Throw
<1>2. Held' = ValuesOf(callbacks) /\ Apart'
    BY <1>1, EmptyHoldsNothing DEF Held, Apart, IInv
<1>3. Held' = Held \ OfThisPass /\ OfThisPass \subseteq Held
    BY <1>2, PassHolds DEF Held
<1>4. Types'
    BY <1>1, EmptyHoldsNothing DEF IInv, Types, TypeOK
<1>5. HeldIsLive'
  <2> SUFFICES ASSUME NEW d \in Chain
               PROVE  /\ d \in Held' <=> ~Fresh(d)' /\ ended'[d] = "no"
                      /\ d \in Held' => valid'[d] /\ popped'[d] < Length[d]
                      /\ Fresh(d)' => ended'[d] = "no" /\ ~valid'[d] /\ popped'[d] = 0
    BY DEF HeldIsLive
  <2>1. CASE d \in OfThisPass
    BY <2>1, <1>1, <1>3 DEF IInv, HeldIsLive, Fresh
  <2>2. CASE d \notin OfThisPass
    BY <2>2, <1>1, <1>3 DEF IInv, HeldIsLive, Fresh
  <2> QED
    BY <2>1, <2>2
<1> QED
    BY <1>1, <1>2, <1>4, <1>5 DEF IInv

(***************************************************************************)
(* A pass ends by putting back what it kept.                               *)
(***************************************************************************)
LEMMA FinishPassKeepsIInv ==
    ASSUME IInv, FinishPass
    PROVE  IInv'
<1>1. /\ updateCallbacks = <<>>
      /\ callbacks' = callbacks \o kept /\ kept' = <<>> /\ inPass' = FALSE
      /\ UNCHANGED <<updateCallbacks, popped, valid, answers, ended>>
    BY DEF FinishPass
<1>2. callbacks \in Seq(Chain) /\ kept \in Seq(Chain)
    BY DEF IInv, Types, TypeOK
<1>3. /\ callbacks' \in Seq(Chain)
      /\ ValuesOf(callbacks') = ValuesOf(callbacks) \cup ValuesOf(kept)
      /\ NoneTwice(callbacks')
    BY <1>1, <1>2, JoinAddsValues DEF IInv, Apart
<1>4. Types'
    BY <1>1, <1>3, EmptyHoldsNothing DEF IInv, Types, TypeOK
<1>5. Apart' /\ Held' = Held
    BY <1>1, <1>3, EmptyHoldsNothing DEF Apart, Held
<1>6. HeldIsLive'
    BY <1>1, <1>5 DEF IInv, HeldIsLive, Fresh
<1> QED
    BY <1>1, <1>4, <1>5, <1>6 DEF IInv

-----------------------------------------------------------------------------
(***************************************************************************)
(* The invariant holds in every reachable state.                           *)
(***************************************************************************)
THEOREM Invariance == Spec => []IInv
<1>1. IInv /\ [Next]_vars => IInv'
  <2> SUFFICES ASSUME IInv, [Next]_vars PROVE IInv'
    OBVIOUS
  <2>1. ASSUME NEW c \in Chain, AddQuery(c) PROVE IInv'
    BY <2>1, AddQueryKeepsIInv
  <2>2. ASSUME NEW c \in Chain, WorkerAnswers(c) PROVE IInv'
    BY <2>2, WorkerAnswersKeepsIInv
  <2>3. CASE StartPass
    BY <2>3, StartPassKeepsIInv
  <2>4. CASE NotReady
    BY <2>4, NotReadyKeepsIInv
  <2>5. CASE InvokeIfReady
    BY <2>5, InvokeIfReadyKeepsIInv
  <2>6. CASE Throw
    BY <2>6, ThrowKeepsIInv
  <2>7. CASE FinishPass
    BY <2>7, FinishPassKeepsIInv
  <2>8. CASE UNCHANGED vars
    BY <2>8 DEF vars, IInv, Types, TypeOK, Apart, Held, HeldIsLive, Fresh
  <2> QED
    BY <2>1, <2>2, <2>3, <2>4, <2>5, <2>6, <2>7, <2>8 DEF Next, ProcessReadyQueries
<1> QED
    BY <1>1, InitIInv, PTL DEF Spec

(***************************************************************************)
(* Chains that are in one place, once, are in one place by count.          *)
(***************************************************************************)
LEMMA ApartMeansNoChainLost == IInv => NoChainLost
<1> SUFFICES ASSUME IInv, NEW c \in Chain
             PROVE  LET places ==
                          {<<"callbacks", i>> : i \in {i \in 1..Len(callbacks) : callbacks[i] = c}}
                          \cup {<<"update", i>> : i \in {i \in 1..Len(updateCallbacks) :
                                                             updateCallbacks[i] = c}}
                          \cup {<<"kept", i>> : i \in {i \in 1..Len(kept) : kept[i] = c}}
                    IN  IF Fresh(c) \/ ended[c] # "no"
                        THEN places = {}
                        ELSE Cardinality(places) = 1 /\ valid[c] /\ popped[c] < Length[c]
    BY DEF NoChainLost
<1> DEFINE A == {i \in 1..Len(callbacks) : callbacks[i] = c}
           B == {i \in 1..Len(updateCallbacks) : updateCallbacks[i] = c}
           D == {i \in 1..Len(kept) : kept[i] = c}
           places == {<<"callbacks", i>> : i \in A} \cup {<<"update", i>> : i \in B}
                        \cup {<<"kept", i>> : i \in D}
<1>1. /\ c \in ValuesOf(callbacks) <=> A # {}
      /\ c \in ValuesOf(updateCallbacks) <=> B # {}
      /\ c \in ValuesOf(kept) <=> D # {}
    BY DEF ValuesOf
<1>2. /\ \A i, j \in A : i = j
      /\ \A i, j \in B : i = j
      /\ \A i, j \in D : i = j
    BY DEF IInv, Apart, NoneTwice
<1> HIDE DEF A, B, D
<1>3. c \notin Held => places = {}
    BY <1>1 DEF Held
<1>4. ASSUME c \in Held PROVE Cardinality(places) = 1
  <2>1. \E x : places = {x}
    <3>1. CASE c \in ValuesOf(callbacks)
      <4>1. PICK i \in A : TRUE
        BY <3>1, <1>1
      <4>2. A = {i} /\ B = {} /\ D = {}
        BY <3>1, <4>1, <1>1, <1>2 DEF IInv, Apart
      <4>3. places = {<<"callbacks", i>>}
        BY <4>2
      <4> QED
        BY <4>3
    <3>2. CASE c \in ValuesOf(updateCallbacks)
      <4>1. PICK i \in B : TRUE
        BY <3>2, <1>1
      <4>2. B = {i} /\ A = {} /\ D = {}
        BY <3>2, <4>1, <1>1, <1>2 DEF IInv, Apart
      <4>3. places = {<<"update", i>>}
        BY <4>2
      <4> QED
        BY <4>3
    <3>3. CASE c \in ValuesOf(kept)
      <4>1. PICK i \in D : TRUE
        BY <3>3, <1>1
      <4>2. D = {i} /\ A = {} /\ B = {}
        BY <3>3, <4>1, <1>1, <1>2 DEF IInv, Apart
      <4>3. places = {<<"kept", i>>}
        BY <4>2
      <4> QED
        BY <4>3
    <3> QED
      BY <3>1, <3>2, <3>3, <1>4 DEF Held
  <2> QED
    BY <2>1, FS_Singleton
<1> HIDE DEF places
<1>5. IF Fresh(c) \/ ended[c] # "no"
      THEN places = {}
      ELSE Cardinality(places) = 1 /\ valid[c] /\ popped[c] < Length[c]
    BY <1>3, <1>4 DEF IInv, HeldIsLive
<1> QED
    BY <1>5 DEF places, A, B, D

(***************************************************************************)
(* A chain that was added and has not ended is in one place, waits for a   *)
(* query and has a callback to run; one that has ended is nowhere.         *)
(***************************************************************************)
THEOREM ChainsHold == Spec => []ChainInv
<1>1. IInv => ChainInv
    BY ApartMeansNoChainLost DEF IInv, Types, ChainInv
<1> QED
    BY <1>1, Invariance, PTL

(***************************************************************************)
(* An exception out of a callback's future destroys the chains of the pass *)
(* it leaves, and none that its callbacks have added.                      *)
(***************************************************************************)
THEOREM ThrowsSpareNewChains == Spec => ThrowSparesNewChains
<1> DEFINE Spares == \A c \in Chain : ended[c] = "no" /\ ended'[c] = "destroyed" =>
                        /\ \E d \in Chain : Answer(d) = "broken"
                        /\ c \notin ToSet(callbacks)
<1>1. IInv /\ [Next]_vars => Spares
  <2> SUFFICES ASSUME IInv, [Next]_vars, NEW c \in Chain,
                      ended[c] = "no", ended'[c] = "destroyed"
               PROVE  /\ \E d \in Chain : Answer(d) = "broken"
                      /\ c \notin ToSet(callbacks)
    OBVIOUS
  <2>1. CASE Throw
    <3> DEFINE d == Head(updateCallbacks)
    <3>1. /\ updateCallbacks # <<>> /\ Answer(d) = "broken"
          /\ ended' = [e \in Chain |-> IF e \in OfThisPass THEN "destroyed" ELSE ended[e]]
      BY <2>1 DEF Throw
    <3>2. c \in OfThisPass
      BY <3>1
    <3>3. d \in Chain
      BY <3>1, FirstOfPass
    <3>4. callbacks \in Seq(Chain)
      BY DEF IInv, Types, TypeOK
    <3>5. ToSet(callbacks) = ValuesOf(callbacks)
      BY <3>4, ValuesAreOf
    <3>6. c \notin ValuesOf(callbacks)
      BY <3>2, PassHolds
    <3> QED
      BY <3>1, <3>3, <3>5, <3>6
  <2>2. CASE InvokeIfReady
    <3>1. ended' = ended \/ ended' = [ended EXCEPT ![Head(updateCallbacks)] = "completed"]
      BY <2>2 DEF InvokeIfReady
    <3>2. ended \in [Chain -> {"no", "completed", "destroyed"}]
      BY DEF IInv, Types, TypeOK
    <3> QED
      BY <3>1, <3>2
  <2>3. CASE ended' = ended
    BY <2>3
  <2> QED
    BY <2>1, <2>2, <2>3 DEF Next, ProcessReadyQueries, AddQuery, WorkerAnswers,
                            StartPass, NotReady, FinishPass, vars
<1> QED
    BY <1>1, Invariance, PTL DEF Spec, ThrowSparesNewChains

-----------------------------------------------------------------------------
(***************************************************************************)
(* What holds of a chain between any two steps: its callbacks have had the *)
(* answers of its first queries, each its own, and while the chain is held *)
(* one more query has been asked than callbacks have run.                  *)
(***************************************************************************)
Matches(c) ==
    /\ Len(called[c]) = popped[c]
    /\ popped[c] <= Len(answers[c])
    /\ c \in Held => Len(answers[c]) = popped[c] + 1
    /\ \A i \in 1..popped[c] : called[c][i] = <<i, i>> /\ answers[c][i] = "value"

(***************************************************************************)
(* The inductive invariant of CallbackGetsItsAnswer, on top of IInv. That  *)
(* a held chain is exactly one query ahead is what makes the number of the *)
(* query the number of the callback.                                       *)
(***************************************************************************)
CallsMatch ==
    /\ called \in [Chain -> Seq(Nat \X Nat)]
    /\ \A c \in Chain : Matches(c)

(***************************************************************************)
(* A chain that a step does not touch keeps its calls.                     *)
(***************************************************************************)
LEMMA UntouchedMatches ==
    ASSUME IInv, IInv', CallsMatch, NEW d \in Chain,
           answers'[d] = answers[d], popped'[d] = popped[d], called'[d] = called[d],
           ended'[d] = "no" => ended[d] = "no"
    PROVE  Matches(d)'
<1>1. d \in Held' => d \in Held
    BY DEF IInv, HeldIsLive, Fresh
<1>2. Matches(d)
    BY DEF CallsMatch
<1> QED
    BY <1>1, <1>2 DEF Matches

(***************************************************************************)
(* A new chain has its first query and no calls.                           *)
(***************************************************************************)
LEMMA NewChainMatches ==
    ASSUME IInv, CallsMatch, NEW d \in Chain, Fresh(d),
           answers'[d] = Append(answers[d], "pending"),
           popped'[d] = popped[d], called'[d] = called[d]
    PROVE  Matches(d)'
<1>1. popped[d] = 0 /\ answers[d] = <<>> /\ Len(called[d]) = 0
    BY DEF IInv, HeldIsLive, Fresh, CallsMatch, Matches
<1>2. Len(answers'[d]) = 1
    BY <1>1
<1>3. 1..popped'[d] = {}
    BY <1>1
<1> HIDE DEF Matches
<1>4. popped'[d] = 0 /\ Len(called'[d]) = 0
    BY <1>1
<1> QED
    BY <1>2, <1>3, <1>4 DEF Matches

(***************************************************************************)
(* A worker answers only the last query, whose callback has not run: the   *)
(* answers given to callbacks stay what they were.                         *)
(***************************************************************************)
LEMMA WorkerAnswersKeepsMatch ==
    ASSUME IInv, IInv', CallsMatch, NEW c \in Chain, WorkerAnswers(c)
    PROVE  CallsMatch'
<1> DEFINE n == Len(answers[c])
<1>1. PICK a \in {"value", "broken"} :
        answers' = [answers EXCEPT ![c] = [@ EXCEPT ![n] = a]]
    BY DEF WorkerAnswers
<1>2. /\ Answer(c) = "pending"
      /\ UNCHANGED <<popped, ended, called>>
    BY DEF WorkerAnswers
<1>3. answers \in [Chain -> Seq({"pending", "value", "broken"})]
    BY DEF IInv, Types, TypeOK
<1>4. answers[c] # <<>> /\ answers[c][n] = "pending"
    BY <1>2, <1>3 DEF IInv, HeldIsLive, Answer, Fresh, Last
<1>5. n \in Nat /\ n \in 1..n
    BY <1>3, <1>4, EmptySeq, LenProperties
<1> HIDE DEF n
<1>6. answers'[c] = [answers[c] EXCEPT ![n] = a]
    BY <1>1, <1>3
<1>7. /\ answers[c] \in Seq({"pending", "value", "broken"}) /\ n = Len(answers[c])
      /\ a \in {"pending", "value", "broken"}
    BY <1>3 DEF n
<1>8. /\ Len(answers'[c]) = Len(answers[c])
      /\ \A i \in 1..n : i # n => answers'[c][i] = answers[c][i]
    BY <1>5, <1>6, <1>7, ExceptSeq
<1>9. Matches(c)
    BY DEF CallsMatch
<1>10. popped[c] \in Nat
    BY DEF IInv, Types
<1>11. \A i \in 1..popped[c] : i \in 1..n /\ i # n
    BY <1>4, <1>5, <1>7, <1>9, <1>10 DEF Matches
<1>12. c \in Held' => c \in Held
    BY <1>2, <1>4 DEF IInv, HeldIsLive, Fresh
<1>13. Matches(c)'
    BY <1>2, <1>8, <1>9, <1>11, <1>12 DEF Matches
<1>14. ASSUME NEW d \in Chain, d # c PROVE Matches(d)'
    BY <1>1, <1>2, <1>3, <1>14, UntouchedMatches
<1> QED
    BY <1>2, <1>13, <1>14 DEF CallsMatch

(***************************************************************************)
(* InvokeIfReady gives the callback the answer of the one query it waits   *)
(* for, and asks at most one more.                                         *)
(***************************************************************************)
LEMMA InvokeIfReadyKeepsMatch ==
    ASSUME IInv, IInv', CallsMatch, InvokeIfReady
    PROVE  CallsMatch'
<1>0. PICK c : c = Head(updateCallbacks)
    OBVIOUS
<1> DEFINE n == Len(answers[c])
<1>1. /\ updateCallbacks # <<>>
      /\ Ready(c) /\ Answer(c) # "broken"
      /\ popped' = [popped EXCEPT ![c] = popped[c] + 1]
      /\ called' = [called EXCEPT ![c] = Append(called[c], <<popped[c] + 1, n>>)]
    BY <1>0 DEF InvokeIfReady, IInv, Types, TypeOK, CallsMatch
<1>2. PICK chained \in BOOLEAN, more \in {{}} \cup {{d} : d \in {d \in Chain : Fresh(d)}} :
        /\ CallbackBody(c, chained, more)
        /\ IF NextStep(c, chained)
           THEN kept' = Append(kept, c) /\ ended' = ended
           ELSE kept' = kept /\ ended' = [ended EXCEPT ![c] = "completed"]
    BY <1>0 DEF InvokeIfReady
<1>3. c \in Chain /\ c \in Held
    BY <1>0, <1>1, FirstOfPass
<1>4. /\ more \subseteq Chain /\ c \notin more
      /\ \A d \in more : Fresh(d)
    BY <1>2, <1>3 DEF IInv, HeldIsLive
<1>5. /\ answers \in [Chain -> Seq({"pending", "value", "broken"})]
      /\ ended \in [Chain -> {"no", "completed", "destroyed"}]
      /\ popped \in [Chain -> Nat] /\ called \in [Chain -> Seq(Nat \X Nat)]
    BY DEF IInv, Types, TypeOK, CallsMatch
<1>6. \A d \in Chain :
            answers'[d] = IF (d = c /\ chained) \/ d \in more
                          THEN Append(answers[d], "pending") ELSE answers[d]
    BY <1>2 DEF CallbackBody
<1>7. /\ n = popped[c] + 1 /\ Len(called[c]) = popped[c] /\ popped[c] \in Nat
      /\ \A i \in 1..popped[c] : called[c][i] = <<i, i>> /\ answers[c][i] = "value"
    BY <1>3, <1>5 DEF CallsMatch, Matches
<1>8. answers[c][n] = "value"
    BY <1>1 DEF Ready, Answer, Last
<1>9. /\ popped'[c] = n /\ \A d \in Chain : d # c => popped'[d] = popped[d]
      /\ called'[c] = Append(called[c], <<n, n>>)
      /\ \A d \in Chain : d # c => called'[d] = called[d]
    BY <1>1, <1>3, <1>5, <1>7
<1>10. answers[c] \in Seq({"pending", "value", "broken"}) /\ n = Len(answers[c])
    BY <1>3, <1>5
<1> HIDE DEF n
<1>11. n \in Nat /\ <<n, n>> \in Nat \X Nat
    BY <1>7
<1>12. called[c] \in Seq(Nat \X Nat)
    BY <1>3, <1>5
<1>13. /\ called'[c] \in Seq(Nat \X Nat) /\ Len(called'[c]) = n
       /\ \A i \in 1..popped[c] : called'[c][i] = called[c][i]
       /\ called'[c][n] = <<n, n>>
  <2> DEFINE s == called[c]
             p == <<n, n>>
             S == Nat \X Nat
  <2>1. s \in Seq(S) /\ p \in S /\ Len(s) + 1 = n /\ Len(s) = popped[c]
    BY <1>7, <1>11, <1>12
  <2> HIDE DEF s, p, S
  <2>2. /\ Append(s, p) \in Seq(S) /\ Len(Append(s, p)) = Len(s) + 1
        /\ \A i \in 1..Len(s) : Append(s, p)[i] = s[i]
        /\ Append(s, p)[Len(s) + 1] = p
    BY <2>1, AppendProperties
  <2>3. called'[c] = Append(s, p)
    BY <1>9 DEF s, p
  <2> QED
    BY <2>1, <2>2, <2>3 DEF s, p, S
<1>14. /\ \A i \in 1..n : answers'[c][i] = answers[c][i]
       /\ Len(answers'[c]) = IF chained THEN n + 1 ELSE n
  <2>1. CASE ~chained
    BY <2>1, <1>3, <1>4, <1>6, <1>10
  <2>2. CASE chained
    <3> DEFINE s == answers[c]
               R == {"pending", "value", "broken"}
    <3>1. s \in Seq(R) /\ "pending" \in R /\ answers'[c] = Append(s, "pending") /\ Len(s) = n
      BY <2>2, <1>3, <1>6, <1>10
    <3> HIDE DEF s, R
    <3>2. /\ Len(Append(s, "pending")) = Len(s) + 1
          /\ \A i \in 1..Len(s) : Append(s, "pending")[i] = s[i]
      BY <3>1, AppendProperties
    <3> QED
      BY <2>2, <3>1, <3>2 DEF s
  <2> QED
    BY <2>1, <2>2
<1>15. Matches(c)'
  <2>1. c \in Held' => chained
    <3>1. c \in Held' => ended'[c] = "no"
      BY <1>3 DEF IInv, HeldIsLive
    <3>2. ~NextStep(c, chained) => ended'[c] = "completed"
      BY <1>2, <1>3, <1>5
    <3> QED
      BY <3>1, <3>2 DEF NextStep
  <2>2. \A i \in 1..n : i = n \/ i \in 1..popped[c]
    BY <1>7, <1>11
  <2>3. \A i \in 1..n : called'[c][i] = <<i, i>> /\ answers'[c][i] = "value"
    BY <2>2, <1>7, <1>8, <1>13, <1>14
  <2>4. n <= Len(answers'[c]) /\ (chained => Len(answers'[c]) = n + 1)
    BY <1>11, <1>14
  <2> QED
    BY <2>1, <2>3, <2>4, <1>9, <1>13 DEF Matches
<1>16. ASSUME NEW d \in Chain, d # c PROVE Matches(d)'
  <2>1. CASE d \in more
    BY <2>1, <1>4, <1>6, <1>9, <1>16, NewChainMatches
  <2>2. CASE d \notin more
    <3>1. answers'[d] = answers[d] /\ ended'[d] = ended[d]
      BY <2>2, <1>2, <1>5, <1>6, <1>16
    <3> QED
      BY <3>1, <1>9, <1>16, UntouchedMatches
  <2> QED
    BY <2>1, <2>2
<1>17. called' \in [Chain -> Seq(Nat \X Nat)]
    BY <1>1, <1>5, <1>9, <1>13
<1> QED
    BY <1>15, <1>16, <1>17 DEF CallsMatch

(***************************************************************************)
(* A chain's callbacks run in the order in which they were attached, each  *)
(* once, and the k-th is given the value of the chain's k-th query,        *)
(* however chains and passes interleave with workers.                      *)
(***************************************************************************)
THEOREM CallbacksGetTheirAnswers == Spec => []CallbackGetsItsAnswer
<1>1. Init => CallsMatch
  <2> SUFFICES ASSUME Init PROVE CallsMatch
    OBVIOUS
  <2>1. <<>> \in Seq(Nat \X Nat) /\ Len(<<>>) = 0
    BY EmptySeq
  <2>2. ASSUME NEW c \in Chain PROVE Matches(c)
    <3>1. called[c] = <<>> /\ popped[c] = 0 /\ answers[c] = <<>>
      BY DEF Init
    <3>2. c \notin Held
      BY EmptyHoldsNothing DEF Init, Held
    <3>3. 1..popped[c] = {}
      BY <3>1
    <3> QED
      BY <2>1, <3>1, <3>2, <3>3 DEF Matches
  <2> QED
    BY <2>1, <2>2 DEF Init, CallsMatch
<1>2. IInv /\ IInv' /\ CallsMatch /\ [Next]_vars => CallsMatch'
  <2> SUFFICES ASSUME IInv, IInv', CallsMatch, [Next]_vars PROVE CallsMatch'
    OBVIOUS
  <2>1. ASSUME NEW c \in Chain, AddQuery(c) PROVE CallsMatch'
    <3>1. /\ Fresh(c) /\ answers' = [answers EXCEPT ![c] = <<"pending">>]
          /\ UNCHANGED <<popped, ended, called>>
      BY <2>1 DEF AddQuery
    <3>2. answers \in [Chain -> Seq({"pending", "value", "broken"})]
      BY DEF IInv, Types, TypeOK
    <3>3. answers'[c] = Append(answers[c], "pending")
      BY <3>1, <3>2 DEF Fresh
    <3>4. Matches(c)'
      BY <3>1, <3>3, NewChainMatches
    <3>5. ASSUME NEW d \in Chain, d # c PROVE Matches(d)'
      BY <3>1, <3>2, <3>5, UntouchedMatches
    <3> QED
      BY <3>1, <3>4, <3>5 DEF CallsMatch
  <2>2. ASSUME NEW c \in Chain, WorkerAnswers(c) PROVE CallsMatch'
    BY <2>2, WorkerAnswersKeepsMatch
  <2>3. CASE InvokeIfReady
    BY <2>3, InvokeIfReadyKeepsMatch
  <2>4. CASE Throw
    <3>1. /\ ended' = [c \in Chain |-> IF c \in OfThisPass THEN "destroyed" ELSE ended[c]]
          /\ UNCHANGED <<popped, answers, called>>
      BY <2>4 DEF Throw
    <3>2. \A d \in Chain : Matches(d)'
      BY <3>1, UntouchedMatches
    <3> QED
      BY <3>1, <3>2 DEF CallsMatch
  <2>5. CASE UNCHANGED <<popped, answers, ended, called>>
    <3>1. \A d \in Chain : Matches(d)'
      BY <2>5, UntouchedMatches
    <3> QED
      BY <2>5, <3>1 DEF CallsMatch
  <2> QED
    BY <2>1, <2>2, <2>3, <2>4, <2>5 DEF Next, ProcessReadyQueries, StartPass, NotReady,
                                         FinishPass, vars
<1>3. IInv /\ CallsMatch => CallbackGetsItsAnswer
  <2> SUFFICES ASSUME IInv, CallsMatch, NEW c \in Chain
               PROVE  /\ Len(called[c]) <= Length[c]
                      /\ \A i \in 1..Len(called[c]) :
                            called[c][i] = <<i, i>> /\ answers[c][i] = "value"
    BY DEF CallbackGetsItsAnswer
  <2>1. Matches(c) /\ popped[c] \in 0..Length[c] /\ Length[c] \in Nat
    BY LengthAssumption DEF IInv, Types, TypeOK, CallsMatch
  <2> QED
    BY <2>1 DEF Matches
<1> QED
    BY <1>1, <1>2, <1>3, Invariance, PTL DEF Spec
===============================================================================
