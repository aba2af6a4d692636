---------------------------- MODULE DistinctValues ----------------------------
(***************************************************************************)
(* Facts about sequences in which no value occurs twice, for the proofs    *)
(* about vectors and queues that hold every object at most once.           *)
(***************************************************************************)
EXTENDS Integers, Sequences, SequenceTheorems, TLAPS

(***************************************************************************)
(* The values of a sequence, and that none of them occurs twice.           *)
(***************************************************************************)
ValuesOf(s) == {s[i] : i \in 1..Len(s)}
NoneTwice(s) == \A i, j \in 1..Len(s) : s[i] = s[j] => i = j

-----------------------------------------------------------------------------
(***************************************************************************)
(* Appending a new value to a sequence adds it to its values.              *)
(***************************************************************************)
LEMMA AppendAddsValue ==
    ASSUME NEW S, NEW s \in Seq(S), NEW e \in S
    PROVE  /\ ValuesOf(Append(s, e)) = ValuesOf(s) \cup {e}
           /\ NoneTwice(s) /\ e \notin ValuesOf(s) => NoneTwice(Append(s, e))
<1> DEFINE l == Len(s)
           t == Append(s, e)
<1>1. l \in Nat
    BY LenProperties
<1>2. /\ Len(t) = l + 1
      /\ \A i \in 1..l : t[i] = s[i]
      /\ t[l + 1] = e
    BY AppendProperties
<1> HIDE DEF t
<1>3. NoneTwice(s) => \A i, j \in 1..l : s[i] = s[j] => i = j
    BY DEF NoneTwice
<1>4. ValuesOf(s) = {s[i] : i \in 1..l}
    BY DEF ValuesOf
<1> HIDE DEF l
<1>5. \A i \in 1..l + 1 : i \in 1..l \/ i = l + 1
    BY <1>1
<1>6. l + 1 \in 1..l + 1 /\ \A i \in 1..l : i \in 1..l + 1
    BY <1>1
<1>7. ValuesOf(t) = ValuesOf(s) \cup {e}
    BY <1>2, <1>4, <1>5, <1>6 DEF ValuesOf
<1>8. ASSUME NoneTwice(s), e \notin ValuesOf(s)
      PROVE  NoneTwice(t)
  <2> SUFFICES ASSUME NEW i \in 1..l + 1, NEW j \in 1..l + 1, t[i] = t[j]
               PROVE  i = j
    BY <1>2 DEF NoneTwice
  <2>1. (i \in 1..l \/ i = l + 1) /\ (j \in 1..l \/ j = l + 1)
    BY <1>5
  <2>2. \A k \in 1..l : s[k] # e
    BY <1>4, <1>8
  <2> QED
    BY <2>1, <2>2, <1>2, <1>3, <1>8
<1> QED
    BY <1>7, <1>8 DEF t

(***************************************************************************)
(* Without its head, a sequence in which nothing occurs twice loses one    *)
(* value.                                                                  *)
(***************************************************************************)
LEMMA TailLosesHead ==
    ASSUME NEW S, NEW s \in Seq(S), s # <<>>, NoneTwice(s)
    PROVE  /\ Head(s) \in S /\ Head(s) \in ValuesOf(s)
           /\ Tail(s) \in Seq(S)
           /\ ValuesOf(Tail(s)) = ValuesOf(s) \ {Head(s)}
           /\ NoneTwice(Tail(s))
<1> DEFINE l == Len(s)
           t == Tail(s)
           h == Head(s)
<1>1. l \in Nat /\ l >= 1 /\ h = s[1]
    BY LenProperties, EmptySeq
<1>2. /\ h \in S /\ t \in Seq(S) /\ Len(t) = l - 1
      /\ \A i \in 1..l - 1 : t[i] = s[i + 1]
    BY HeadTailProperties
<1>3. ValuesOf(s) = {s[i] : i \in 1..l} /\ \A i, j \in 1..l : s[i] = s[j] => i = j
    BY DEF ValuesOf, NoneTwice
<1> HIDE DEF l, t, h
<1>4. 1 \in 1..l /\ \A i \in 1..l - 1 : i + 1 \in 1..l /\ i + 1 # 1
    BY <1>1
<1>5. \A i \in 1..l : i = 1 \/ (i - 1 \in 1..l - 1 /\ (i - 1) + 1 = i)
    BY <1>1
<1>6. ValuesOf(t) = {t[i] : i \in 1..l - 1}
    BY <1>2 DEF ValuesOf
<1>7. ASSUME NEW x \in ValuesOf(t) PROVE x \in ValuesOf(s) /\ x # h
  <2>1. PICK i \in 1..l - 1 : x = s[i + 1]
    BY <1>2, <1>6
  <2> QED
    BY <2>1, <1>1, <1>3, <1>4
<1>8. ASSUME NEW x \in ValuesOf(s), x # h PROVE x \in ValuesOf(t)
  <2>1. PICK i \in 1..l : x = s[i]
    BY <1>3
  <2>2. i - 1 \in 1..l - 1 /\ (i - 1) + 1 = i
    BY <2>1, <1>1, <1>5, <1>8
  <2>3. x = t[i - 1]
    BY <2>1, <2>2, <1>2
  <2> QED
    BY <2>2, <2>3, <1>6
<1>9. h \in ValuesOf(s)
    BY <1>1, <1>3, <1>4
<1>10. NoneTwice(t)
  <2> SUFFICES ASSUME NEW i \in 1..l - 1, NEW j \in 1..l - 1, t[i] = t[j]
               PROVE  i = j
    BY <1>2 DEF NoneTwice
  <2>1. i + 1 \in 1..l /\ j + 1 \in 1..l /\ s[i + 1] = s[j + 1]
    BY <1>2, <1>4
  <2>2. i + 1 = j + 1
    BY <2>1, <1>3
  <2> QED
    BY <2>2
<1> QED
    BY <1>2, <1>7, <1>8, <1>9, <1>10 DEF t, h

(***************************************************************************)
(* Joining two sequences joins their values; none occurs twice if none did *)
(* and they have none in common.                                           *)
(***************************************************************************)
LEMMA JoinAddsValues ==
    ASSUME NEW S, NEW s \in Seq(S), NEW t \in Seq(S)
    PROVE  /\ s \o t \in Seq(S)
           /\ ValuesOf(s \o t) = ValuesOf(s) \cup ValuesOf(t)
           /\ NoneTwice(s) /\ NoneTwice(t) /\ ValuesOf(s) \cap ValuesOf(t) = {}
                => NoneTwice(s \o t)
<1> DEFINE m == Len(s)
           n == Len(t)
           u == s \o t
<1>1. m \in Nat /\ n \in Nat
    BY LenProperties
<1>2. /\ u \in Seq(S) /\ Len(u) = m + n
      /\ \A i \in 1..m + n : u[i] = IF i <= m THEN s[i] ELSE t[i - m]
    BY ConcatProperties
<1>3. /\ ValuesOf(s) = {s[i] : i \in 1..m} /\ ValuesOf(t) = {t[i] : i \in 1..n}
      /\ ValuesOf(u) = {u[i] : i \in 1..m + n}
    BY <1>2 DEF ValuesOf
<1>4. /\ NoneTwice(s) => \A i, j \in 1..m : s[i] = s[j] => i = j
      /\ NoneTwice(t) => \A i, j \in 1..n : t[i] = t[j] => i = j
    BY DEF NoneTwice
<1>5. NoneTwice(u) <=> \A i, j \in 1..m + n : u[i] = u[j] => i = j
    BY <1>2 DEF NoneTwice
<1> HIDE DEF m, n, u
<1>6. \A i \in 1..m : i \in 1..m + n /\ i <= m
    BY <1>1
<1>7. \A i \in 1..n : m + i \in 1..m + n /\ ~(m + i <= m) /\ (m + i) - m = i
    BY <1>1
<1>8. \A i \in 1..m + n : IF i <= m THEN i \in 1..m ELSE i - m \in 1..n
    BY <1>1
<1>9. \A i \in 1..m : u[i] = s[i]
    BY <1>2, <1>6
<1>10. \A i \in 1..n : u[m + i] = t[i]
  <2> TAKE i \in 1..n
  <2> QED
    BY <1>2, <1>7
<1>11. ValuesOf(u) \subseteq ValuesOf(s) \cup ValuesOf(t)
    BY <1>2, <1>3, <1>8
<1>12. ValuesOf(s) \cup ValuesOf(t) \subseteq ValuesOf(u)
    BY <1>3, <1>6, <1>7, <1>9, <1>10
<1>13. ASSUME NoneTwice(s), NoneTwice(t), ValuesOf(s) \cap ValuesOf(t) = {}
       PROVE  NoneTwice(u)
  <2> SUFFICES ASSUME NEW i \in 1..m + n, NEW j \in 1..m + n, u[i] = u[j]
               PROVE  i = j
    BY <1>5
  <2>1. CASE i <= m /\ j <= m
    BY <2>1, <1>2, <1>4, <1>8, <1>13
  <2>2. CASE ~(i <= m) /\ ~(j <= m)
    <3>1. i - m \in 1..n /\ j - m \in 1..n /\ t[i - m] = t[j - m]
      BY <2>2, <1>2, <1>8
    <3>2. i - m = j - m
      BY <3>1, <1>4, <1>13
    <3> QED
      BY <3>2, <1>1
  <2>3. CASE i <= m /\ ~(j <= m)
    <3>1. i \in 1..m /\ j - m \in 1..n /\ s[i] = t[j - m]
      BY <2>3, <1>2, <1>8
    <3> QED
      BY <3>1, <1>3, <1>13
  <2>4. CASE ~(i <= m) /\ j <= m
    <3>1. j \in 1..m /\ i - m \in 1..n /\ s[j] = t[i - m]
      BY <2>4, <1>2, <1>8
    <3> QED
      BY <3>1, <1>3, <1>13
  <2> QED
    BY <2>1, <2>2, <2>3, <2>4
<1> QED
    BY <1>2, <1>11, <1>12, <1>13 DEF u
===============================================================================
