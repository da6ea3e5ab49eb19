---------------------------- MODULE CaddyProofs ----------------------------
(***************************************************************************)
(* Machine-checked proofs about module CaddyAdmin, for route lists of any  *)
(* length, any number of callers, foreign routes, retries and faults: what *)
(* a caller is told is true, a write of Nook is the transaction that       *)
(* CaddyRoutes takes it for, and it leaves the routes of other programs    *)
(* and their order alone.                                                  *)
(***************************************************************************)
EXTENDS CaddyAdmin, SequenceTheorems, FiniteSetTheorems, WellFoundedInduction, TLAPS

-----------------------------------------------------------------------------
(* Induction over numbers and sequences, with a set for the predicate.     *)

LEMMA LessThanIsWellFounded == IsWellFoundedOn({x \in Nat \X Nat : x[1] < x[2]}, Nat)
  BY NatLessThanWellFounded DEF OpToRel

LEMMA LeastNumber ==
  ASSUME NEW T, T \subseteq Nat, T # {}
  PROVE  \E n \in T : \A m \in T : n <= m
<1> DEFINE R == {x \in Nat \X Nat : x[1] < x[2]}
<1>1. IsWellFoundedOn(R, Nat)
  BY LessThanIsWellFounded
<1> HIDE DEF R
<1>2. PICK n \in T : \A m \in T : ~(<<m, n>> \in R)
  BY <1>1, WFMin
<1>3. ASSUME NEW m \in T, m < n PROVE FALSE
  <2>1. <<m, n>> \in Nat \X Nat /\ <<m, n>>[1] < <<m, n>>[2]
    BY <1>3
  <2>2. <<m, n>> \in R
    BY <2>1 DEF R
  <2> QED
    BY <1>2, <2>2
<1>4. \A m \in T : n <= m
  <2> TAKE m \in T
  <2>1. m \in Nat /\ n \in Nat
    OBVIOUS
  <2> QED
    BY <2>1, <1>3
<1> QED
  BY <1>4

LEMMA NumbersByInduction ==
  ASSUME NEW G, 0 \in G, \A n \in Nat : n \in G => n + 1 \in G
  PROVE  Nat \subseteq G
<1> SUFFICES ASSUME ~(Nat \subseteq G) PROVE FALSE
  OBVIOUS
<1> DEFINE T == {n \in Nat : n \notin G}
<1>1. T \subseteq Nat /\ T # {}
  OBVIOUS
<1>2. PICK n \in T : \A m \in T : n <= m
  BY <1>1, LeastNumber
<1>3. n # 0 /\ n - 1 \in Nat /\ n - 1 \notin T
  BY <1>2
<1> QED
  BY <1>2, <1>3

LEMMA SequencesByInduction ==
  ASSUME NEW S, NEW G, <<>> \in G,
         \A s \in Seq(S), e \in S : s \in G => Append(s, e) \in G
  PROVE  Seq(S) \subseteq G
<1> DEFINE N == {n \in Nat : \A s \in Seq(S) : Len(s) = n => s \in G}
<1>1. 0 \in N
  <2>1. \A s \in Seq(S) : Len(s) = 0 => s = <<>>
    BY EmptySeq
  <2> QED
    BY <2>1
<1>2. ASSUME NEW n \in Nat, n \in N PROVE n + 1 \in N
  <2> SUFFICES ASSUME NEW s \in Seq(S), Len(s) = n + 1 PROVE s \in G
    OBVIOUS
  <2>1. s # <<>>
    BY EmptySeq
  <2>2. PICK t \in Seq(S), e \in S : s = Append(t, e)
    BY <2>1, SequenceEmptyOrAppend
  <2>3. Len(t) \in Nat /\ Len(s) = Len(t) + 1
    BY <2>2, AppendProperties, LenProperties
  <2>4. t \in G
    BY <1>2, <2>3
  <2> QED
    BY <2>2, <2>4
<1>3. Nat \subseteq N
  <2> HIDE DEF N
  <2> QED
    BY <1>1, <1>2, NumbersByInduction
<1>4. \A s \in Seq(S) : Len(s) \in N
  BY <1>3, LenProperties
<1> QED
  BY <1>4

-----------------------------------------------------------------------------
(* Vec::retain.                                                            *)

\* The function behind Retained, on the first n entries.
Keeps(k, list, ids, n) ==
  k = [i \in 0..n |->
         IF i = 0 THEN <<>>
         ELSE IF list[i].id \in ids THEN Append(k[i - 1], list[i]) ELSE k[i - 1]]

LEMMA KeepsNext ==
  ASSUME NEW k, NEW list, NEW ids, NEW n \in Nat, Keeps(k, list, ids, n), NEW i \in Nat, i + 1 <= n
  PROVE  k[i + 1] = IF list[i + 1].id \in ids THEN Append(k[i], list[i + 1]) ELSE k[i]
<1>1. i + 1 \in 0..n /\ i + 1 # 0 /\ (i + 1) - 1 = i
  OBVIOUS
<1>2. \A j \in 0..n : k[j] = IF j = 0 THEN <<>>
                             ELSE IF list[j].id \in ids THEN Append(k[j - 1], list[j]) ELSE k[j - 1]
  BY DEF Keeps
<1> QED
  BY <1>1, <1>2

LEMMA KeeperExists ==
  ASSUME NEW list, NEW ids
  PROVE  \A n \in Nat : \E k : Keeps(k, list, ids, n)
<1> DEFINE N == {n \in Nat : \E k : Keeps(k, list, ids, n)}
<1>1. 0 \in N
  <2>1. Keeps([i \in 0..0 |-> <<>>], list, ids, 0)
    BY DEF Keeps
  <2> QED
    BY <2>1
<1>2. ASSUME NEW n \in Nat, n \in N PROVE n + 1 \in N
  <2>1. PICK k : Keeps(k, list, ids, n)
    BY <1>2
  <2> DEFINE last == IF list[n + 1].id \in ids THEN Append(k[n], list[n + 1]) ELSE k[n]
             h == [i \in 0..(n + 1) |-> IF i = n + 1 THEN last ELSE k[i]]
  <2>2. \A i \in 0..n : h[i] = k[i]
    OBVIOUS
  <2>3. h[n + 1] = last
    OBVIOUS
  <2>4. \A i \in 0..n : k[i] = IF i = 0 THEN <<>>
                               ELSE IF list[i].id \in ids THEN Append(k[i - 1], list[i]) ELSE k[i - 1]
    BY <2>1 DEF Keeps
  <2> HIDE DEF last
  <2>5. \A i \in 0..(n + 1) : h[i] = IF i = 0 THEN <<>>
                               ELSE IF list[i].id \in ids THEN Append(h[i - 1], list[i]) ELSE h[i - 1]
    <3> SUFFICES ASSUME NEW i \in 0..(n + 1)
                 PROVE  h[i] = IF i = 0 THEN <<>>
                               ELSE IF list[i].id \in ids THEN Append(h[i - 1], list[i]) ELSE h[i - 1]
      OBVIOUS
    <3>1. CASE i = n + 1
      <4>1. h[i - 1] = k[n] /\ i # 0
        BY <3>1, <2>2
      <4> QED
        BY <3>1, <4>1, <2>3 DEF last
    <3>2. CASE i \in 0..n
      <4>1. i # 0 => i - 1 \in 0..n
        BY <3>2
      <4> QED
        BY <3>2, <4>1, <2>2, <2>4
    <3> QED
      BY <3>1, <3>2
  <2>6. Keeps(h, list, ids, n + 1)
    BY <2>5 DEF Keeps
  <2> QED
    BY <2>6
<1>3. Nat \subseteq N
  <2> HIDE DEF N
  <2> QED
    BY <1>1, <1>2, NumbersByInduction
<1> QED
  BY <1>3

\* It looks at those entries only.
LEMMA KeepersAgree ==
  ASSUME NEW k, NEW l, NEW s, NEW t, NEW ids, NEW m \in Nat, NEW n \in Nat, m <= n,
         Keeps(k, s, ids, m), Keeps(l, t, ids, n), \A i \in 1..m : s[i] = t[i]
  PROVE  k[m] = l[m]
<1> DEFINE N == {i \in Nat : i <= m => k[i] = l[i]}
<1>1. 0 \in N
  BY DEF Keeps
<1>2. ASSUME NEW i \in Nat, i \in N PROVE i + 1 \in N
  <2> SUFFICES ASSUME i + 1 <= m PROVE k[i + 1] = l[i + 1]
    OBVIOUS
  <2>1. k[i] = l[i] /\ s[i + 1] = t[i + 1] /\ i + 1 \in 0..m /\ i + 1 \in 0..n /\ i + 1 # 0
    BY <1>2
  <2>2. k[i + 1] = IF s[i + 1].id \in ids THEN Append(k[i], s[i + 1]) ELSE k[i]
    BY KeepsNext
  <2>3. l[i + 1] = IF t[i + 1].id \in ids THEN Append(l[i], t[i + 1]) ELSE l[i]
    BY <2>1, KeepsNext
  <2> QED
    BY <2>1, <2>2, <2>3
<1>3. Nat \subseteq N
  <2> HIDE DEF N
  <2> QED
    BY <1>1, <1>2, NumbersByInduction
<1> QED
  BY <1>3

LEMMA RetainedKeeps ==
  ASSUME NEW list, NEW ids, Len(list) \in Nat
  PROVE  \E k : Keeps(k, list, ids, Len(list)) /\ Retained(list, ids) = k[Len(list)]
<1> DEFINE keep == CHOOSE k : Keeps(k, list, ids, Len(list))
<1>1. Keeps(keep, list, ids, Len(list))
  BY KeeperExists
<1>2. Retained(list, ids) = keep[Len(list)]
  BY DEF Retained, Keeps
<1> QED
  BY <1>1, <1>2

LEMMA RetainedEmpty ==
  ASSUME NEW ids
  PROVE  Retained(<<>>, ids) = <<>>
<1>1. Len(<<>>) = 0
  OBVIOUS
<1> QED
  BY <1>1, RetainedKeeps DEF Keeps

LEMMA RetainedAppend ==
  ASSUME NEW S, NEW s \in Seq(S), NEW e \in S, NEW ids
  PROVE  Retained(Append(s, e), ids) =
           IF e.id \in ids THEN Append(Retained(s, ids), e) ELSE Retained(s, ids)
<1> DEFINE t == Append(s, e)
<1>1. /\ Len(s) \in Nat /\ Len(t) = Len(s) + 1 /\ t[Len(s) + 1] = e
      /\ \A i \in 1..Len(s) : s[i] = t[i]
  BY AppendProperties, LenProperties
<1> HIDE DEF t
<1>2. PICK k : Keeps(k, s, ids, Len(s)) /\ Retained(s, ids) = k[Len(s)]
  BY <1>1, RetainedKeeps
<1>3. PICK l : Keeps(l, t, ids, Len(t)) /\ Retained(t, ids) = l[Len(t)]
  BY <1>1, RetainedKeeps
<1>4. k[Len(s)] = l[Len(s)]
  <2>1. Len(s) \in Nat /\ Len(t) \in Nat /\ Len(s) <= Len(t)
    BY <1>1
  <2> QED
    BY <2>1, <1>1, <1>2, <1>3, KeepersAgree
<1>5. l[Len(s) + 1] = IF t[Len(s) + 1].id \in ids THEN Append(l[Len(s)], t[Len(s) + 1]) ELSE l[Len(s)]
  <2>1. Len(t) \in Nat /\ Len(s) + 1 <= Len(t)
    BY <1>1
  <2> QED
    BY <2>1, <1>1, <1>3, KeepsNext
<1> QED
  BY <1>1, <1>2, <1>3, <1>4, <1>5 DEF t

LEMMA RetainedTyped ==
  ASSUME NEW S, NEW ids
  PROVE  \A s \in Seq(S) : Retained(s, ids) \in Seq(S)
<1> DEFINE G == {s \in Seq(S) : Retained(s, ids) \in Seq(S)}
<1>1. <<>> \in G
  BY RetainedEmpty, EmptySeq
<1>2. ASSUME NEW s \in Seq(S), NEW e \in S, s \in G PROVE Append(s, e) \in G
  BY <1>2, RetainedAppend, AppendProperties
<1>3. Seq(S) \subseteq G
  <2> HIDE DEF G
  <2> QED
    BY <1>1, <1>2, SequencesByInduction
<1> QED
  BY <1>3

\* What is in a list, wherever it is.
In(x, list) == \E i \in 1..Len(list) : list[i] = x

LEMMA InAppended ==
  ASSUME NEW S, NEW s \in Seq(S), NEW e \in S, NEW x
  PROVE  In(x, Append(s, e)) <=> In(x, s) \/ x = e
<1>1. /\ Len(s) \in Nat /\ Len(Append(s, e)) = Len(s) + 1 /\ Append(s, e)[Len(s) + 1] = e
      /\ \A i \in 1..Len(s) : Append(s, e)[i] = s[i]
  BY AppendProperties, LenProperties
<1>2. ASSUME In(x, s) PROVE In(x, Append(s, e))
  <2>1. PICK i \in 1..Len(s) : s[i] = x
    BY <1>2 DEF In
  <2>2. i \in 1..Len(Append(s, e)) /\ Append(s, e)[i] = x
    BY <1>1, <2>1
  <2> QED
    BY <2>2 DEF In
<1>3. ASSUME x = e PROVE In(x, Append(s, e))
  <2>1. Len(s) + 1 \in 1..Len(Append(s, e)) /\ Append(s, e)[Len(s) + 1] = x
    BY <1>1, <1>3
  <2> QED
    BY <2>1 DEF In
<1>4. ASSUME In(x, Append(s, e)), x # e PROVE In(x, s)
  <2>1. PICK i \in 1..Len(Append(s, e)) : Append(s, e)[i] = x
    BY <1>4 DEF In
  <2>2. i \in 1..Len(s)
    BY <1>1, <1>4, <2>1
  <2> QED
    BY <1>1, <2>1, <2>2 DEF In
<1> QED
  BY <1>2, <1>3, <1>4

LEMMA InConcatenated ==
  ASSUME NEW S, NEW s \in Seq(S), NEW t \in Seq(S), NEW x
  PROVE  In(x, s \o t) <=> In(x, s) \/ In(x, t)
<1>1. /\ Len(s) \in Nat /\ Len(t) \in Nat /\ Len(s \o t) = Len(s) + Len(t)
      /\ \A i \in 1..Len(s) + Len(t) : (s \o t)[i] = IF i <= Len(s) THEN s[i] ELSE t[i - Len(s)]
  BY ConcatProperties, LenProperties
<1>2. ASSUME In(x, s) PROVE In(x, s \o t)
  <2>1. PICK i \in 1..Len(s) : s[i] = x
    BY <1>2 DEF In
  <2>2. i \in 1..Len(s \o t) /\ (s \o t)[i] = x
    BY <1>1, <2>1
  <2> QED
    BY <2>2 DEF In
<1>3. ASSUME In(x, t) PROVE In(x, s \o t)
  <2>1. PICK i \in 1..Len(t) : t[i] = x
    BY <1>3 DEF In
  <2>2. Len(s) + i \in 1..Len(s \o t) /\ (s \o t)[Len(s) + i] = x
    BY <1>1, <2>1
  <2> QED
    BY <2>2 DEF In
<1>4. ASSUME In(x, s \o t) PROVE In(x, s) \/ In(x, t)
  <2>1. PICK i \in 1..Len(s \o t) : (s \o t)[i] = x
    BY <1>4 DEF In
  <2>2. CASE i <= Len(s)
    <3>1. i \in 1..Len(s) /\ s[i] = x
      BY <1>1, <2>1, <2>2
    <3> QED
      BY <3>1 DEF In
  <2>3. CASE ~(i <= Len(s))
    <3>1. i - Len(s) \in 1..Len(t) /\ t[i - Len(s)] = x
      BY <1>1, <2>1, <2>3
    <3> QED
      BY <3>1 DEF In
  <2> QED
    BY <2>2, <2>3
<1> QED
  BY <1>2, <1>3, <1>4

LEMMA InRetained ==
  ASSUME NEW S, NEW ids, NEW x
  PROVE  \A s \in Seq(S) : In(x, Retained(s, ids)) <=> In(x, s) /\ x.id \in ids
<1> DEFINE G == {s \in Seq(S) : In(x, Retained(s, ids)) <=> In(x, s) /\ x.id \in ids}
<1>1. <<>> \in G
  <2>1. ~In(x, <<>>)
    BY DEF In
  <2> QED
    BY <2>1, RetainedEmpty, EmptySeq
<1>2. ASSUME NEW s \in Seq(S), NEW e \in S, s \in G PROVE Append(s, e) \in G
  <2>1. Retained(s, ids) \in Seq(S) /\ Append(s, e) \in Seq(S)
    BY RetainedTyped, AppendProperties
  <2>2. In(x, Append(s, e)) <=> In(x, s) \/ x = e
    BY InAppended
  <2>3. CASE e.id \in ids
    <3>1. In(x, Append(Retained(s, ids), e)) <=> In(x, Retained(s, ids)) \/ x = e
      BY <2>1, InAppended
    <3>2. Retained(Append(s, e), ids) = Append(Retained(s, ids), e)
      BY <2>3, RetainedAppend
    <3> QED
      BY <1>2, <2>1, <2>2, <2>3, <3>1, <3>2
  <2>4. CASE e.id \notin ids
    <3>1. Retained(Append(s, e), ids) = Retained(s, ids)
      BY <2>4, RetainedAppend
    <3> QED
      BY <1>2, <2>1, <2>2, <2>4, <3>1
  <2> QED
    BY <2>3, <2>4
<1>3. Seq(S) \subseteq G
  <2> HIDE DEF G
  <2> QED
    BY <1>1, <1>2, SequencesByInduction
<1> QED
  BY <1>3

LEMMA RetainedTwice ==
  ASSUME NEW S, NEW A, NEW B
  PROVE  \A s \in Seq(S) : Retained(Retained(s, A), B) = Retained(s, A \cap B)
<1> DEFINE G == {s \in Seq(S) : Retained(Retained(s, A), B) = Retained(s, A \cap B)}
<1>1. <<>> \in G
  BY RetainedEmpty, EmptySeq
<1>2. ASSUME NEW s \in Seq(S), NEW e \in S, s \in G PROVE Append(s, e) \in G
  <2>1. Retained(s, A) \in Seq(S) /\ Append(s, e) \in Seq(S)
    BY RetainedTyped, AppendProperties
  <2>2. Retained(Append(s, e), A) =
          IF e.id \in A THEN Append(Retained(s, A), e) ELSE Retained(s, A)
    BY RetainedAppend
  <2>3. Retained(Append(Retained(s, A), e), B) =
          IF e.id \in B THEN Append(Retained(Retained(s, A), B), e) ELSE Retained(Retained(s, A), B)
    BY <2>1, RetainedAppend
  <2>4. Retained(Append(s, e), A \cap B) =
          IF e.id \in A \cap B THEN Append(Retained(s, A \cap B), e) ELSE Retained(s, A \cap B)
    BY RetainedAppend
  <2>5. Retained(Retained(Append(s, e), A), B) = Retained(Append(s, e), A \cap B)
    <3>1. CASE e.id \in A /\ e.id \in B
      BY <1>2, <2>2, <2>3, <2>4, <3>1
    <3>2. CASE e.id \in A /\ e.id \notin B
      BY <1>2, <2>2, <2>3, <2>4, <3>2
    <3>3. CASE e.id \notin A
      BY <1>2, <2>2, <2>4, <3>3
    <3> QED
      BY <3>1, <3>2, <3>3
  <2> QED
    BY <2>1, <2>5
<1>3. Seq(S) \subseteq G
  <2> HIDE DEF G
  <2> QED
    BY <1>1, <1>2, SequencesByInduction
<1> QED
  BY <1>3

LEMMA RetainedConcatenated ==
  ASSUME NEW S, NEW ids, NEW s \in Seq(S)
  PROVE  \A t \in Seq(S) : Retained(s \o t, ids) = Retained(s, ids) \o Retained(t, ids)
<1> DEFINE G == {t \in Seq(S) : Retained(s \o t, ids) = Retained(s, ids) \o Retained(t, ids)}
<1>1. <<>> \in G
  <2>1. s \o <<>> = s /\ Retained(s, ids) \in Seq(S)
    BY ConcatEmptySeq, RetainedTyped
  <2> QED
    BY <2>1, RetainedEmpty, EmptySeq, ConcatEmptySeq
<1>2. ASSUME NEW t \in Seq(S), NEW e \in S, t \in G PROVE Append(t, e) \in G
  <2>1. /\ s \o t \in Seq(S) /\ Append(t, e) \in Seq(S) /\ <<e>> \in Seq(S)
        /\ Retained(s, ids) \in Seq(S) /\ Retained(t, ids) \in Seq(S)
    BY RetainedTyped, AppendProperties, ConcatProperties
  <2>2. \A u \in Seq(S), v \in Seq(S) : u \o Append(v, e) = Append(u \o v, e)
    <3> SUFFICES ASSUME NEW u \in Seq(S), NEW v \in Seq(S) PROVE u \o Append(v, e) = Append(u \o v, e)
      OBVIOUS
    <3>1. Append(v, e) = v \o <<e>> /\ u \o v \in Seq(S)
      BY AppendIsConcat, ConcatProperties
    <3>2. (u \o v) \o <<e>> = Append(u \o v, e)
      BY <3>1, AppendIsConcat
    <3>3. <<e>> \in Seq(S)
      BY <2>1
    <3>4. u \o (v \o <<e>>) = (u \o v) \o <<e>>
      BY <3>3, ConcatAssociative
    <3> QED
      BY <3>1, <3>2, <3>4
  <2>3. Retained(s \o Append(t, e), ids) =
          IF e.id \in ids THEN Append(Retained(s \o t, ids), e) ELSE Retained(s \o t, ids)
    <3>1. s \o Append(t, e) = Append(s \o t, e) /\ s \o t \in Seq(S)
      BY <2>1, <2>2
    <3>2. Retained(Append(s \o t, e), ids) =
            IF e.id \in ids THEN Append(Retained(s \o t, ids), e) ELSE Retained(s \o t, ids)
      BY <3>1, RetainedAppend
    <3> QED
      BY <3>1, <3>2
  <2>4. Retained(Append(t, e), ids) =
          IF e.id \in ids THEN Append(Retained(t, ids), e) ELSE Retained(t, ids)
    BY RetainedAppend
  <2>5. Retained(s, ids) \o Append(Retained(t, ids), e) = Append(Retained(s, ids) \o Retained(t, ids), e)
    BY <2>1, <2>2
  <2> QED
    BY <1>2, <2>1, <2>3, <2>4, <2>5
<1>3. Seq(S) \subseteq G
  <2> HIDE DEF G
  <2> QED
    BY <1>1, <1>2, SequencesByInduction
<1> QED
  BY <1>3

-----------------------------------------------------------------------------
(* Inserting a container.                                                  *)

LEMMA Inserted ==
  ASSUME NEW S, NEW s \in Seq(S), NEW i \in 1..Len(s) + 1, NEW e \in S
  PROVE  /\ InsertAt(s, i, e) \in Seq(S)
         /\ Len(InsertAt(s, i, e)) = Len(s) + 1
         /\ \A j \in 1..Len(s) + 1 :
              InsertAt(s, i, e)[j] = IF j < i THEN s[j] ELSE IF j = i THEN e ELSE s[j - 1]
         /\ \A x : In(x, InsertAt(s, i, e)) <=> In(x, s) \/ x = e
         /\ \A ids : e.id \notin ids => Retained(InsertAt(s, i, e), ids) = Retained(s, ids)
<1> DEFINE a == SubSeq(s, 1, i - 1)
           b == SubSeq(s, i, Len(s))
<1>1. /\ Len(s) \in Nat /\ i - 1 \in Int /\ \A j \in 1..Len(s) : s[j] \in S
  BY LenProperties, ElementOfSeq
<1>2. /\ a \in Seq(S) /\ Len(a) = i - 1 /\ \A j \in 1..(i - 1) : a[j] = s[j]
  <2>1. \A j \in 1..(i - 1) : s[j] \in S
    BY <1>1
  <2>2. /\ a \in Seq(S) /\ Len(a) = IF 1 <= i - 1 THEN (i - 1) - 1 + 1 ELSE 0
        /\ \A j \in 1..((i - 1) - 1 + 1) : a[j] = s[1 + j - 1]
    BY <1>1, <2>1, SubSeqProperties
  <2> QED
    BY <1>1, <2>2
<1>3. /\ b \in Seq(S) /\ Len(b) = Len(s) - i + 1 /\ \A j \in 1..(Len(s) - i + 1) : b[j] = s[i + j - 1]
  <2>1. \A j \in i..Len(s) : s[j] \in S
    BY <1>1
  <2>2. /\ b \in Seq(S) /\ Len(b) = IF i <= Len(s) THEN Len(s) - i + 1 ELSE 0
        /\ \A j \in 1..(Len(s) - i + 1) : b[j] = s[i + j - 1]
    BY <1>1, <2>1, SubSeqProperties
  <2> QED
    BY <1>1, <2>2
<1>4. InsertAt(s, i, e) = (a \o <<e>>) \o b
  BY DEF InsertAt
<1>5. s = a \o b
  <2>1. i - 1 \in 0..Len(s)
    BY <1>1
  <2>2. SubSeq(s, 1, i - 1) \o SubSeq(s, (i - 1) + 1, Len(s)) = SubSeq(s, 1, Len(s))
    <3>1. 1 \in 1..Len(s) + 1 /\ i - 1 \in (1 - 1)..Len(s) /\ Len(s) \in (i - 1)..Len(s)
      BY <1>1
    <3> QED
      BY <3>1, ConcatAdjacentSubSeq
  <2>3. SubSeq(s, 1, Len(s)) = s
    BY SubSeqFull
  <2>4. (i - 1) + 1 = i
    BY <1>1
  <2>5. a \o SubSeq(s, (i - 1) + 1, Len(s)) = s
    BY <2>2, <2>3
  <2> QED
    BY <2>4, <2>5
<1> DEFINE c == Append(a, e)
           d == c \o b
<1>6. a \o <<e>> = c
  BY <1>2, AppendIsConcat
<1>7. /\ c \in Seq(S) /\ Len(c) = i /\ c[i] = e
      /\ \A j \in 1..(i - 1) : c[j] = a[j]
  <2>1. /\ c \in Seq(S) /\ Len(c) = Len(a) + 1 /\ c[Len(a) + 1] = e
        /\ \A j \in 1..Len(a) : c[j] = a[j]
    <3> HIDE DEF a
    <3> QED
      BY <1>2, AppendProperties
  <2> QED
    BY <1>1, <1>2, <2>1
<1>8. InsertAt(s, i, e) = d
  BY <1>4, <1>6
<1> HIDE DEF a, b, c
<1>9. /\ d \in Seq(S) /\ Len(d) = Len(c) + Len(b)
      /\ \A j \in 1..(Len(c) + Len(b)) : d[j] = IF j <= Len(c) THEN c[j] ELSE b[j - Len(c)]
  BY <1>3, <1>7, ConcatProperties
<1> HIDE DEF d
<1>10. Len(d) = Len(s) + 1
  BY <1>1, <1>3, <1>7, <1>9
<1>11. \A j \in 1..Len(s) + 1 : d[j] = IF j < i THEN s[j] ELSE IF j = i THEN e ELSE s[j - 1]
  <2> SUFFICES ASSUME NEW j \in 1..Len(s) + 1
               PROVE  d[j] = IF j < i THEN s[j] ELSE IF j = i THEN e ELSE s[j - 1]
    OBVIOUS
  <2>1. j \in Int /\ i \in Int /\ j \in 1..(Len(c) + Len(b))
    BY <1>1, <1>3, <1>7
  <2>2. d[j] = IF j <= i THEN c[j] ELSE b[j - i]
    BY <1>7, <1>9, <2>1
  <2>3. CASE j < i
    <3>1. j \in 1..(i - 1) /\ j <= i
      BY <2>1, <2>3
    <3> QED
      BY <1>2, <1>7, <2>2, <2>3, <3>1
  <2>4. CASE j = i
    BY <1>7, <2>1, <2>2, <2>4
  <2>5. CASE j > i
    <3>1. j - i \in 1..(Len(s) - i + 1) /\ i + (j - i) - 1 = j - 1 /\ ~(j <= i) /\ j # i /\ ~(j < i)
      BY <1>1, <2>1, <2>5
    <3>2. b[j - i] = s[j - 1]
      BY <1>3, <3>1
    <3> QED
      BY <2>2, <3>1, <3>2
  <2> QED
    BY <2>1, <2>3, <2>4, <2>5
<1>12. \A x : In(x, d) <=> In(x, s) \/ x = e
  <2> TAKE x
  <2>1. In(x, d) <=> In(x, c) \/ In(x, b)
    BY <1>3, <1>7, InConcatenated DEF d
  <2>2. In(x, c) <=> In(x, a) \/ x = e
    BY <1>2, InAppended DEF c
  <2>3. In(x, s) <=> In(x, a) \/ In(x, b)
    BY <1>2, <1>3, <1>5, InConcatenated
  <2> QED
    BY <2>1, <2>2, <2>3
<1>13. ASSUME NEW ids, e.id \notin ids PROVE Retained(d, ids) = Retained(s, ids)
  <2>1. Retained(d, ids) = Retained(c, ids) \o Retained(b, ids)
    BY <1>3, <1>7, RetainedConcatenated DEF d
  <2>2. Retained(c, ids) = Retained(a, ids)
    BY <1>2, <1>13, RetainedAppend DEF c
  <2>3. Retained(s, ids) = Retained(a, ids) \o Retained(b, ids)
    BY <1>2, <1>3, <1>5, RetainedConcatenated
  <2> QED
    BY <2>1, <2>2, <2>3
<1> QED
  BY <1>8, <1>9, <1>10, <1>11, <1>12, <1>13

\* Where the first catch-all is.
LEMMA FirstCatchAll ==
  ASSUME NEW s \in Seq(Entries), NEW n, n = SelectInSeq(s, IsCatchAll)
  PROVE  \/ n = 0 /\ \A j \in 1..Len(s) : ~IsCatchAll(s[j])
         \/ n \in 1..Len(s) /\ \A j \in 1..Len(s) : IsCatchAll(s[j]) => n <= j
<1> DEFINE I == {j \in 1..Len(s) : IsCatchAll(s[j])}
<1>1. n = IF I # {} THEN Min(I) ELSE 0
  BY DEF SelectInSeq
<1>2. Len(s) \in Nat
  BY LenProperties
<1>3. CASE I = {}
  BY <1>1, <1>3
<1>4. CASE I # {}
  <2>1. I \subseteq Nat
    BY <1>2
  <2>2. PICK m \in I : \A j \in I : m <= j
    <3> HIDE DEF I
    <3> QED
      BY <1>4, <2>1, LeastNumber
  <2>3. Min(I) \in I /\ \A j \in I : Min(I) <= j
    <3> HIDE DEF I
    <3> QED
      BY <2>2 DEF Min
  <2> QED
    BY <1>1, <1>4, <2>3
<1> QED
  BY <1>3, <1>4

\* No catch-all hides what is in a container.
Ordered(list, c) ==
  \A i, j \in 1..Len(list) : list[i].id = c /\ IsCatchAll(list[j]) => i < j

LEMMA RetainedOrdered ==
  ASSUME NEW c \in Containers, NEW ids
  PROVE  \A s \in Seq(Entries) : Ordered(s, c) => Ordered(Retained(s, ids), c)
<1> DEFINE G == {s \in Seq(Entries) : Ordered(s, c) => Ordered(Retained(s, ids), c)}
<1>1. <<>> \in G
  BY RetainedEmpty, EmptySeq
<1>2. ASSUME NEW s \in Seq(Entries), NEW e \in Entries, s \in G PROVE Append(s, e) \in G
  <2> DEFINE a == Append(s, e)
             r == Retained(s, ids)
             b == Append(r, e)
  <2>1. /\ a \in Seq(Entries) /\ Len(s) \in Nat /\ Len(a) = Len(s) + 1 /\ a[Len(s) + 1] = e
        /\ \A i \in 1..Len(s) : a[i] = s[i]
    BY AppendProperties, LenProperties
  <2>2. r \in Seq(Entries)
    BY RetainedTyped
  <2>3. /\ Len(r) \in Nat /\ Len(b) = Len(r) + 1 /\ b[Len(r) + 1] = e
        /\ \A i \in 1..Len(r) : b[i] = r[i]
    <3> HIDE DEF r
    <3> QED
      BY <2>2, AppendProperties, LenProperties
  <2>4. Retained(a, ids) \in {r, b}
    BY RetainedAppend
  <2> HIDE DEF a, b
  <2> SUFFICES ASSUME Ordered(a, c) PROVE Ordered(r, c) /\ Ordered(b, c)
    BY <2>1, <2>4 DEF a
  <2>5. Ordered(r, c)
    <3>1. Ordered(s, c)
      BY <2>1 DEF Ordered
    <3> QED
      BY <1>2, <3>1
  <2>6. ASSUME NEW i \in 1..Len(b), NEW j \in 1..Len(b), b[i].id = c, IsCatchAll(b[j])
        PROVE  i < j
    <3>1. CASE i \in 1..Len(r) /\ j \in 1..Len(r)
      BY <2>3, <2>5, <2>6, <3>1 DEF Ordered
    <3>2. CASE i \in 1..Len(r) /\ j = Len(r) + 1
      BY <2>3, <3>2
    <3>3. CASE i = Len(r) + 1
      <4>1. e.id = c /\ Len(s) + 1 \in 1..Len(a)
        BY <2>1, <2>3, <2>6, <3>3
      <4>2. CASE j = Len(r) + 1
        <5>1. IsCatchAll(a[Len(s) + 1]) /\ a[Len(s) + 1].id = c
          BY <2>1, <2>3, <2>6, <4>1, <4>2
        <5> QED
          BY <2>1, <4>1, <5>1 DEF Ordered
      <4>3. CASE j \in 1..Len(r)
        <5>1. In(r[j], r)
          BY <4>3 DEF In
        <5>2. In(r[j], s)
          BY <5>1, InRetained
        <5>3. PICK k \in 1..Len(s) : s[k] = r[j]
          BY <5>2 DEF In
        <5>4. k \in 1..Len(a) /\ IsCatchAll(a[k])
          BY <2>1, <2>3, <2>6, <4>3, <5>3
        <5>5. Len(s) + 1 < k
          BY <2>1, <4>1, <5>4 DEF Ordered
        <5> QED
          BY <2>1, <5>3, <5>5
      <4> QED
        BY <2>3, <4>2, <4>3
    <3> QED
      BY <2>3, <3>1, <3>2, <3>3
  <2> QED
    BY <2>5, <2>6 DEF Ordered
<1>3. Seq(Entries) \subseteq G
  <2> HIDE DEF G
  <2> QED
    BY <1>1, <1>2, SequencesByInduction
<1> QED
  BY <1>3

LEMMA OwnersAre ==
  ASSUME NEW list \in Seq(Entries), NEW c, NEW o
  PROVE  o \in OwnersIn(list, c) <=> \E x : In(x, list) /\ x.id = c /\ o \in x.owners
<1>1. DOMAIN list = 1..Len(list)
  BY LenProperties
<1> QED
  BY <1>1 DEF OwnersIn, In

LEMMA Placed ==
  ASSUME NEW list \in Seq(Entries), NEW c \in Containers, NEW owners \in SUBSET Owners,
         NEW P, P = PlaceContainer(list, c, owners)
  PROVE  /\ P \in Seq(Entries)
         /\ ForeignPart(P) = ForeignPart(list)
         /\ \A d \in Containers : OwnersIn(P, d) = IF d = c THEN owners ELSE OwnersIn(list, d)
         /\ \A d \in Containers : d = c \/ Ordered(list, d) => Ordered(P, d)
<1> DEFINE ids == Foreign \cup (Containers \ {c})
           s == Retained(list, ids)
           n == SelectInSeq(s, IsCatchAll)
           k == IF n = 0 THEN Len(s) + 1 ELSE n
           e == [id |-> c, owners |-> owners]
<1>1. s \in Seq(Entries) /\ Len(s) \in Nat
  BY RetainedTyped, LenProperties
<1>2. P = IF owners = {} THEN s ELSE InsertAt(s, k, e)
  BY DEF PlaceContainer
<1>3. \A x : In(x, s) <=> In(x, list) /\ x.id \in ids
  BY InRetained
<1>4. Retained(s, Foreign) = Retained(list, Foreign)
  <2>1. ids \cap Foreign = Foreign
    OBVIOUS
  <2>2. Retained(s, Foreign) = Retained(list, ids \cap Foreign)
    BY RetainedTwice
  <2> QED
    BY <2>1, <2>2
<1>5. \/ n = 0 /\ \A j \in 1..Len(s) : ~IsCatchAll(s[j])
      \/ n \in 1..Len(s) /\ \A j \in 1..Len(s) : IsCatchAll(s[j]) => n <= j
  <2> HIDE DEF s
  <2> QED
    BY <1>1, FirstCatchAll
<1>6. e \in Entries /\ c \notin Foreign /\ c \notin ids
  BY ForeignRoutesAreTyped DEF Entries
<1>7. \A i \in 1..Len(s) : s[i].id # c
  <2> SUFFICES ASSUME NEW i \in 1..Len(s) PROVE s[i].id \in ids
    BY <1>6
  <2>1. In(s[i], s)
    BY DEF In
  <2> QED
    BY <1>3, <2>1
<1>8. \A d \in Containers : Ordered(list, d) => Ordered(s, d)
  BY RetainedOrdered
<1> HIDE DEF s, n
<1>9. k \in 1..Len(s) + 1 /\ \A j \in 1..Len(s) : IsCatchAll(s[j]) => k <= j
  BY <1>1, <1>5
<1> HIDE DEF ids, k, e
<1>10. CASE owners = {}
  <2>1. P = s
    BY <1>2, <1>10
  <2>2. ASSUME NEW d \in Containers
        PROVE  OwnersIn(s, d) = IF d = c THEN owners ELSE OwnersIn(list, d)
    <3>1. \A o : o \in OwnersIn(s, d) <=> \E x : In(x, s) /\ x.id = d /\ o \in x.owners
      BY <1>1, OwnersAre
    <3>2. \A o : o \in OwnersIn(list, d) <=> \E x : In(x, list) /\ x.id = d /\ o \in x.owners
      BY OwnersAre
    <3>3. d \in ids <=> d # c
      BY <1>6 DEF ids
    <3> QED
      BY <1>3, <1>10, <3>1, <3>2, <3>3
  <2>3. Ordered(s, c)
    BY <1>7 DEF Ordered
  <2> QED
    BY <1>1, <1>4, <1>8, <2>1, <2>2, <2>3 DEF ForeignPart
<1>11. CASE owners # {}
  <2>1. P = InsertAt(s, k, e)
    BY <1>2, <1>11
  <2>2. /\ P \in Seq(Entries) /\ Len(P) = Len(s) + 1
        /\ \A j \in 1..Len(s) + 1 : P[j] = IF j < k THEN s[j] ELSE IF j = k THEN e ELSE s[j - 1]
        /\ \A x : In(x, P) <=> In(x, s) \/ x = e
        /\ Retained(P, Foreign) = Retained(s, Foreign)
    <3>1. e.id \notin Foreign
      BY <1>6 DEF e
    <3>2. k \in 1..Len(s) + 1
      BY <1>9
    <3> DEFINE I == InsertAt(s, k, e)
    <3>3. /\ I \in Seq(Entries) /\ Len(I) = Len(s) + 1
          /\ \A j \in 1..Len(s) + 1 : I[j] = IF j < k THEN s[j] ELSE IF j = k THEN e ELSE s[j - 1]
          /\ \A x : In(x, I) <=> In(x, s) \/ x = e
          /\ \A A : e.id \notin A => Retained(I, A) = Retained(s, A)
      BY <1>1, <1>6, <3>2, Inserted
    <3> HIDE DEF I
    <3>4. P = I
      BY <2>1 DEF I
    <3> QED
      BY <3>1, <3>3, <3>4
  <2>3. ASSUME NEW d \in Containers
        PROVE  OwnersIn(P, d) = IF d = c THEN owners ELSE OwnersIn(list, d)
    <3>1. \A o : o \in OwnersIn(P, d) <=> \E x : In(x, P) /\ x.id = d /\ o \in x.owners
      BY <2>2, OwnersAre
    <3>2. \A o : o \in OwnersIn(list, d) <=> \E x : In(x, list) /\ x.id = d /\ o \in x.owners
      BY OwnersAre
    <3>3. d \in ids <=> d # c
      BY <1>6 DEF ids
    <3>4. e.id = c /\ e.owners = owners
      BY DEF e
    <3> QED
      BY <1>3, <2>2, <3>1, <3>2, <3>3, <3>4
  <2>4. ASSUME NEW d \in Containers, d = c \/ Ordered(list, d),
               NEW i \in 1..Len(P), NEW j \in 1..Len(P), P[i].id = d, IsCatchAll(P[j])
        PROVE  i < j
    <3>1. k \in Int /\ i \in 1..Len(s) + 1 /\ j \in 1..Len(s) + 1
      BY <1>1, <1>9, <2>2
    <3>2. e.id = c /\ ~IsCatchAll(e)
      BY <1>6 DEF e, IsCatchAll
    <3>3. j # k
      BY <2>2, <2>4, <3>1, <3>2
    <3>4. j > k
      <4>1. ASSUME j < k PROVE FALSE
        <5>1. j \in 1..Len(s)
          BY <1>1, <1>9, <3>1, <4>1
        <5>2. P[j] = s[j]
          BY <2>2, <3>1, <4>1
        <5>3. IsCatchAll(s[j])
          BY <2>4, <5>2
        <5> QED
          BY <1>9, <3>1, <4>1, <5>1, <5>3
      <4> QED
        BY <3>1, <3>3, <4>1
    <3>5. j - 1 \in 1..Len(s) /\ IsCatchAll(s[j - 1])
      <4>1. j - 1 \in 1..Len(s)
        BY <1>1, <1>9, <3>1, <3>4
      <4>2. ~(j < k) /\ j # k
        BY <3>1, <3>4
      <4>3. P[j] = s[j - 1]
        BY <2>2, <3>1, <4>2
      <4> QED
        BY <2>4, <4>1, <4>3
    <3>6. CASE i <= k
      BY <3>1, <3>4, <3>6
    <3>7. CASE i > k
      <4>1. i - 1 \in 1..Len(s)
        BY <1>1, <1>9, <3>1, <3>7
      <4>2. s[i - 1].id = d
        <5>1. ~(i < k) /\ i # k
          BY <3>1, <3>7
        <5>2. P[i] = s[i - 1]
          BY <2>2, <3>1, <5>1
        <5> QED
          BY <2>4, <5>2
      <4>3. Ordered(s, d)
        BY <1>7, <1>8, <2>4, <4>1, <4>2
      <4>4. i - 1 < j - 1
        BY <3>5, <4>1, <4>2, <4>3 DEF Ordered
      <4> QED
        BY <3>1, <4>4
    <3> QED
      BY <3>1, <3>6, <3>7
  <2>5. \A d \in Containers : d = c \/ Ordered(list, d) => Ordered(P, d)
    BY <2>4 DEF Ordered
  <2> QED
    BY <1>4, <2>2, <2>3, <2>5 DEF ForeignPart
<1> QED
  BY <1>10, <1>11

LEMMA OwnersTyped ==
  ASSUME NEW list \in Seq(Entries), NEW c
  PROVE  OwnersIn(list, c) \in SUBSET Owners
<1> SUFFICES ASSUME NEW o \in OwnersIn(list, c) PROVE o \in Owners
  OBVIOUS
<1>1. PICK x : In(x, list) /\ x.id = c /\ o \in x.owners
  BY OwnersAre
<1>2. PICK i \in 1..Len(list) : list[i] = x
  BY <1>1 DEF In
<1>3. x \in Entries
  BY <1>2, ElementOfSeq
<1> QED
  BY <1>1, <1>3 DEF Entries

LEMMA TransactionsAre ==
  ASSUME NEW t \in Transactions
  PROVE  /\ t.put \in BOOLEAN /\ t.owner \in Owners /\ t.in \subseteq Containers
         /\ \/ /\ t.in = {"http", "lan"} /\ ~t.put
            \/ /\ t.in # {"http", "lan"}
               /\ \E c \in Containers : t.in = {c} /\ (CHOOSE d \in t.in : TRUE) = c
<1>1. \A c : (CHOOSE d \in {c} : TRUE) = c
  OBVIOUS
<1>2. \A c : {c} # {"http", "lan"}
  <2> SUFFICES ASSUME NEW c, {c} = {"http", "lan"} PROVE FALSE
    OBVIOUS
  <2>1. "http" \in {c} /\ "lan" \in {c}
    OBVIOUS
  <2>2. "http" # "lan"
    OBVIOUS
  <2> QED
    BY <2>1, <2>2
<1>3. CASE t \in [put : {TRUE}, in : {{c} : c \in Served}, owner : Owners, replace : BOOLEAN]
  <2>1. t.put = TRUE /\ t.owner \in Owners /\ t.in \in {{c} : c \in Served}
    BY <1>3
  <2>2. PICK c \in Served : t.in = {c}
    BY <2>1
  <2>3. c \in Containers
    BY ServedAreContainers
  <2> QED
    BY <1>1, <1>2, <2>1, <2>2, <2>3
<1>4. CASE t \in [put : {FALSE}, in : (SUBSET Served) \cap {{"https"}, {"lan"}, {"http", "lan"}},
                  owner : Owners, replace : {FALSE}]
  <2> DEFINE D == (SUBSET Served) \cap {{"https"}, {"lan"}, {"http", "lan"}}
  <2>0. D \subseteq {{"https"}, {"lan"}, {"http", "lan"}}
    OBVIOUS
  <2>3. t \in [put : {FALSE}, in : D, owner : Owners, replace : {FALSE}]
    BY <1>4
  <2> HIDE DEF D
  <2>4. t.put = FALSE /\ t.owner \in Owners /\ t.in \in D
    BY <2>3
  <2>1. t.put = FALSE /\ t.owner \in Owners /\ t.in \in {{"https"}, {"lan"}, {"http", "lan"}}
    BY <2>0, <2>4
  <2>2. "https" \in Containers /\ "http" \in Containers /\ "lan" \in Containers
    BY DEF Containers
  <2> QED
    BY <1>1, <1>2, <2>1, <2>2
<1> QED
  BY <1>3, <1>4 DEF Transactions

\* One container of a transaction.
LEMMA RewrittenContainer ==
  ASSUME NEW list \in Seq(Entries), NEW t \in Transactions, NEW c \in Containers,
         NEW P, P = Rewritten(list, t, c)
  PROVE  /\ P \in Seq(Entries)
         /\ ForeignPart(P) = ForeignPart(list)
         /\ Managed(P) = IF t.put THEN PutRoute(Managed(list), c, t.owner)
                                  ELSE DropRoutes(Managed(list), {c}, t.owner)
         /\ \A d \in Containers : d = c \/ Ordered(list, d) => Ordered(P, d)
<1> DEFINE kept == {o \in OwnersIn(list, c) :
                      o # t.owner /\ (t.put => Claim(c, o) # Claim(c, t.owner))}
           owners == IF t.put THEN kept \cup {t.owner} ELSE kept
<1>1. t.owner \in Owners /\ t.put \in BOOLEAN
  BY TransactionsAre
<1>2. owners \in SUBSET Owners
  <2>1. OwnersIn(list, c) \in SUBSET Owners
    BY OwnersTyped
  <2> QED
    BY <1>1, <2>1
<1>3. P = PlaceContainer(list, c, owners)
  BY DEF Rewritten
<1>4. \A o : o \in owners <=> \/ /\ o \in OwnersIn(list, c) /\ o # t.owner
                                 /\ t.put => Claim(c, o) # Claim(c, t.owner)
                              \/ t.put /\ o = t.owner
  OBVIOUS
<1> HIDE DEF owners
<1>5. /\ P \in Seq(Entries)
      /\ ForeignPart(P) = ForeignPart(list)
      /\ \A d \in Containers : OwnersIn(P, d) = IF d = c THEN owners ELSE OwnersIn(list, d)
      /\ \A d \in Containers : d = c \/ Ordered(list, d) => Ordered(P, d)
  BY <1>2, <1>3, Placed
<1> DEFINE M == Managed(list)
           N == IF t.put THEN PutRoute(M, c, t.owner) ELSE DropRoutes(M, {c}, t.owner)
<1>6. \A d \in Containers, o \in Owners : <<d, o>> \in M <=> o \in OwnersIn(list, d)
  BY DEF Managed, Routes
<1>7. M \subseteq Routes
  BY DEF Managed
<1> HIDE DEF M
<1>8. \A d \in Containers, o \in Owners : <<d, o>> \in N <=>
        IF d = c THEN o \in owners ELSE o \in OwnersIn(list, d)
  <2> TAKE d \in Containers, o \in Owners
  <2>1. CASE t.put
    <3>1. <<d, o>> \in N <=> \/ <<d, o>> \in M /\ ~(d = c /\ (o = t.owner \/ Claim(c, o) = Claim(c, t.owner)))
                             \/ d = c /\ o = t.owner
      BY <2>1 DEF PutRoute
    <3> QED
      BY <1>4, <1>6, <2>1, <3>1
  <2>2. CASE ~t.put
    <3>1. <<d, o>> \in N <=> <<d, o>> \in M /\ ~(d \in {c} /\ o = t.owner)
      BY <2>2 DEF DropRoutes
    <3> QED
      BY <1>4, <1>6, <2>2, <3>1
  <2> QED
    BY <1>1, <2>1, <2>2
<1>9. N \subseteq Routes
  <2>1. <<c, t.owner>> \in Routes
    BY <1>1 DEF Routes
  <2> QED
    BY <1>7, <2>1 DEF PutRoute, DropRoutes
<1> HIDE DEF N
<1>10. \A d \in Containers, o \in Owners : <<d, o>> \in Managed(P) <=> <<d, o>> \in N
  <2>1. \A d \in Containers, o \in Owners : <<d, o>> \in Managed(P) <=> o \in OwnersIn(P, d)
    BY DEF Managed, Routes
  <2> QED
    BY <1>5, <1>8, <2>1
<1>11. Managed(P) = N
  <2>1. Managed(P) \subseteq Routes
    BY DEF Managed
  <2>2. \A r \in Routes : \E d \in Containers, o \in Owners : r = <<d, o>>
    BY DEF Routes
  <2>3. ASSUME NEW r \in Routes PROVE r \in Managed(P) <=> r \in N
    <3>1. PICK d \in Containers, o \in Owners : r = <<d, o>>
      BY <2>2
    <3> QED
      BY <1>10, <3>1
  <2> QED
    BY <1>9, <2>1, <2>3
<1> QED
  BY <1>5, <1>11 DEF N, M

\* The closure over every container.
LEMMA TransformedList ==
  ASSUME NEW list \in Seq(Entries), NEW t \in Transactions, NEW P, P = Transformed(list, t)
  PROVE  /\ P \in Seq(Entries)
         /\ ForeignPart(P) = ForeignPart(list)
         /\ Managed(P) = IF t.put THEN PutRoute(Managed(list), CHOOSE c \in t.in : TRUE, t.owner)
                                  ELSE DropRoutes(Managed(list), t.in, t.owner)
         /\ \A c \in t.in : Ordered(P, c)
<1>1. CASE t.in = {"http", "lan"} /\ ~t.put
  <2> DEFINE Q == Rewritten(list, t, "http")
  <2>1. P = Rewritten(Q, t, "lan")
    BY <1>1 DEF Transformed
  <2>2. "http" \in Containers /\ "lan" \in Containers
    BY DEF Containers
  <2>3. /\ Q \in Seq(Entries)
        /\ ForeignPart(Q) = ForeignPart(list)
        /\ Managed(Q) = DropRoutes(Managed(list), {"http"}, t.owner)
        /\ \A d \in Containers : d = "http" \/ Ordered(list, d) => Ordered(Q, d)
    BY <1>1, <2>2, RewrittenContainer
  <2>7. Q \in Seq(Entries)
    BY <2>3
  <2> HIDE DEF Q
  <2>4. /\ P \in Seq(Entries)
        /\ ForeignPart(P) = ForeignPart(Q)
        /\ Managed(P) = DropRoutes(Managed(Q), {"lan"}, t.owner)
        /\ \A d \in Containers : d = "lan" \/ Ordered(Q, d) => Ordered(P, d)
    BY <1>1, <2>1, <2>2, <2>7, RewrittenContainer
  <2>5. Managed(P) = DropRoutes(Managed(list), t.in, t.owner)
    <3>1. \A M : DropRoutes(DropRoutes(M, {"http"}, t.owner), {"lan"}, t.owner)
                   = DropRoutes(M, {"http", "lan"}, t.owner)
      BY DEF DropRoutes
    <3> QED
      BY <1>1, <2>3, <2>4, <3>1
  <2>6. Ordered(P, "http") /\ Ordered(P, "lan")
    BY <2>2, <2>3, <2>4
  <2> QED
    BY <1>1, <2>3, <2>4, <2>5, <2>6
<1>2. CASE t.in # {"http", "lan"}
  <2>1. PICK c \in Containers : t.in = {c} /\ (CHOOSE d \in t.in : TRUE) = c
    BY <1>2, TransactionsAre
  <2>2. P = Rewritten(list, t, c)
    BY <1>2, <2>1 DEF Transformed
  <2>3. /\ P \in Seq(Entries)
        /\ ForeignPart(P) = ForeignPart(list)
        /\ Managed(P) = IF t.put THEN PutRoute(Managed(list), c, t.owner)
                                 ELSE DropRoutes(Managed(list), {c}, t.owner)
        /\ \A d \in Containers : d = c \/ Ordered(list, d) => Ordered(P, d)
    BY <2>2, RewrittenContainer
  <2> QED
    BY <2>1, <2>3
<1> QED
  BY <1>1, <1>2, TransactionsAre

-----------------------------------------------------------------------------
(* What callers and requests share.                                        *)

CallStates ==
  [at : {"idle", "read", "write"}, attempt : 0..Retries,
   transaction : Transactions \cup {NoTransaction}, landed : 0..1,
   answer : {"none", "ok", "refused", "failed", "exhausted"}]

\* What CallInv and AnswersAreTrue ask of one call.
Truthful(c) ==
  /\ c.at # "idle" => c.transaction \in Transactions /\ c.landed = 0 /\ c.answer = "none"
  /\ c.answer = "ok" => c.landed = 1
  /\ c.answer \in {"refused", "exhausted"} => c.landed = 0

CallsTruthful ==
  call \in [Callers -> CallStates] /\ \A p \in Callers : Truthful(call[p])

LEMMA CallsAreTruthful ==
  call \in [Callers -> CallStates] => (CallInv /\ AnswersAreTrue <=> CallsTruthful)
<1> SUFFICES ASSUME call \in [Callers -> CallStates]
             PROVE  CallInv /\ AnswersAreTrue <=> CallsTruthful
  OBVIOUS
<1>1. \A p \in Callers : call[p].landed <= 1
  <2> TAKE p \in Callers
  <2>1. call[p].landed \in 0..1
    BY DEF CallStates
  <2> QED
    BY <2>1
<1> QED
  BY <1>1 DEF CallInv, AnswersAreTrue, CallsTruthful, Truthful

LEMMA CallBecomes ==
  ASSUME CallsTruthful, NEW p \in Callers, NEW c \in CallStates, Truthful(c), Becomes(p, c)
  PROVE  /\ CallsTruthful'
         /\ call'[p] = c
         /\ \A q \in Callers : q # p => call'[q] = call[q]
<1>1. call' \in [Callers -> CallStates] /\ call'[p] = c /\ \A q \in Callers : q # p => call'[q] = call[q]
  BY DEF CallsTruthful, Becomes
<1>2. ASSUME NEW q \in Callers PROVE Truthful(call'[q])
  <2>1. CASE q = p
    BY <1>1, <2>1
  <2>2. CASE q # p
    BY <1>1, <2>2 DEF CallsTruthful
  <2> QED
    BY <2>1, <2>2
<1> QED
  BY <1>1, <1>2 DEF CallsTruthful

\* A caller is told something.
LEMMA CallAnswered ==
  ASSUME CallsTruthful, NEW p \in Callers, NEW landed \in 0..1,
         NEW answer \in {"none", "ok", "refused", "failed", "exhausted"},
         answer = "ok" => landed = 1, answer \in {"refused", "exhausted"} => landed = 0,
         Becomes(p, Idle(answer, landed))
  PROVE  /\ CallsTruthful'
         /\ call'[p] = Idle(answer, landed)
         /\ \A q \in Callers : q # p => call'[q] = call[q]
<1>1. Idle(answer, landed) \in CallStates /\ Truthful(Idle(answer, landed))
  BY CountsAreNatural DEF Idle, CallStates, Truthful
<1> QED
  BY <1>1, CallBecomes

\* The parts of AdminInv about the list and the requests.
RequestsTyped ==
  sent \subseteq [by : Callers, late : BOOLEAN, transaction : Transactions,
                  etag : Seq(Entries), list : Seq(Entries)]

AdminParts ==
  server \in Seq(Entries) /\ CallsTruthful /\ RequestsTyped /\ RequestInv /\ faults \in 0..MaxFaults

LEMMA PartsAreAdminInv == AdminParts <=> AdminInv
<1>1. TypeOK <=> server \in Seq(Entries) /\ call \in [Callers -> CallStates] /\ RequestsTyped
                   /\ faults \in 0..MaxFaults
  BY DEF TypeOK, CallStates, RequestsTyped
<1>2. CallsTruthful => call \in [Callers -> CallStates]
  BY DEF CallsTruthful
<1> QED
  BY <1>1, <1>2, CallsAreTruthful DEF AdminParts, AdminInv

LEMMA RequestsRemain ==
  ASSUME RequestsTyped, RequestInv, sent' \subseteq sent,
         \A m \in sent' : ~m.late => call'[m.by].at = "write"
  PROVE  RequestsTyped' /\ RequestInv'
BY DEF RequestsTyped, RequestInv

\* One caller's request is no longer waited for.
LEMMA RequestTaken ==
  ASSUME RequestsTyped, RequestInv, NEW m \in sent, sent' = sent \ {m},
         ~m.late => \A q \in Callers : q # m.by => call'[q] = call[q],
         m.late => UNCHANGED call
  PROVE  RequestsTyped' /\ RequestInv'
<1>1. ASSUME NEW n \in sent', ~n.late PROVE call'[n.by].at = "write"
  <2>1. n \in sent /\ n # m /\ call[n.by].at = "write" /\ n.by \in Callers /\ m.late \in BOOLEAN
    BY <1>1 DEF RequestInv, RequestsTyped
  <2>2. CASE m.late
    BY <2>1, <2>2
  <2>3. CASE ~m.late
    <3>1. n.by # m.by
      BY <1>1, <2>1, <2>3 DEF RequestInv
    <3> QED
      BY <2>1, <2>3, <3>1
  <2> QED
    BY <2>2, <2>3
<1>2. sent' \subseteq sent
  OBVIOUS
<1> QED
  BY <1>1, <1>2, RequestsRemain

\* A caller turns away from its request.
LEMMA RequestsAbandoned ==
  ASSUME RequestsTyped, RequestInv, NEW p \in Callers, sent' = Abandoned(p),
         \A q \in Callers : q # p => call'[q] = call[q]
  PROVE  RequestsTyped' /\ RequestInv'
<1> DEFINE M == [by : Callers, late : BOOLEAN, transaction : Transactions,
                 etag : Seq(Entries), list : Seq(Entries)]
<1>1. ASSUME NEW n \in sent'
      PROVE  \E m \in sent : /\ n \in M /\ n.by = m.by /\ n.transaction = m.transaction
                             /\ n.etag = m.etag /\ n.list = m.list
                             /\ ~n.late => n = m /\ ~m.late /\ m.by # p
  <2>1. PICK m \in sent : n = [m EXCEPT !.late = @ \/ m.by = p]
    BY <1>1 DEF Abandoned
  <2>2. m \in M
    BY DEF RequestsTyped
  <2>3. /\ n \in M /\ n.by = m.by /\ n.transaction = m.transaction
        /\ n.etag = m.etag /\ n.list = m.list /\ n.late = (m.late \/ m.by = p)
    BY <2>1, <2>2
  <2>4. ASSUME ~n.late PROVE n = m /\ ~m.late /\ m.by # p
    <3>1. m.late \in BOOLEAN /\ ~m.late /\ m.by # p
      BY <2>2, <2>3, <2>4
    <3>2. n.late = m.late
      BY <2>3, <3>1
    <3> QED
      BY <2>2, <2>3, <3>1, <3>2
  <2> QED
    BY <2>3, <2>4
<1>2. RequestsTyped'
  BY <1>1 DEF RequestsTyped
<1>3. ASSUME NEW n \in sent'
      PROVE  /\ ~Refused(n.etag, n.transaction)
             /\ n.list = Transformed(n.etag, n.transaction)
             /\ ~n.late => call'[n.by].at = "write"
  <2>1. PICK m \in sent : /\ n \in M /\ n.by = m.by /\ n.transaction = m.transaction
                          /\ n.etag = m.etag /\ n.list = m.list
                          /\ ~n.late => n = m /\ ~m.late /\ m.by # p
    BY <1>1
  <2>2. /\ ~Refused(m.etag, m.transaction) /\ m.list = Transformed(m.etag, m.transaction)
        /\ ~m.late => call[m.by].at = "write"
    BY DEF RequestInv
  <2>3. m.by \in Callers
    BY DEF RequestsTyped
  <2> QED
    BY <2>1, <2>2, <2>3
<1>4. ASSUME NEW m \in sent', NEW n \in sent', ~m.late, ~n.late, m.by = n.by PROVE m = n
  <2>1. m \in sent /\ n \in sent
    BY <1>1, <1>4
  <2> QED
    BY <1>4, <2>1 DEF RequestInv
<1> QED
  BY <1>2, <1>3, <1>4 DEF RequestInv

-----------------------------------------------------------------------------
(* Init and each action.                                                   *)

LEMMA AdminInit == Init => AdminParts
<1> SUFFICES ASSUME Init PROVE AdminParts
  OBVIOUS
<1>1. server \in Seq(Entries)
  <2>1. PICK present \in SUBSET Foreign :
               server \in SetToSeqs({[id |-> f, owners |-> {}] : f \in present})
    BY DEF Init
  <2> DEFINE S == {[id |-> f, owners |-> {}] : f \in present}
             f == [x \in present |-> [id |-> x, owners |-> {}]]
  <2>2. Cardinality(S) \in Nat
    <3>1. IsFiniteSet(present)
      BY ForeignRoutesAreTyped, FS_Subset
    <3>2. f \in Surjection(present, S)
      BY DEF Surjection
    <3> HIDE DEF f, S
    <3>3. IsFiniteSet(S)
      BY <3>1, <3>2, FS_Surjection
    <3> QED
      BY <3>3, FS_CardinalityType
  <2>3. S \subseteq Entries
    BY DEF Entries
  <2>4. server \in [1..Cardinality(S) -> S]
    BY <2>1 DEF SetToSeqs
  <2> HIDE DEF S
  <2>5. server \in [1..Cardinality(S) -> Entries]
    BY <2>3, <2>4
  <2> QED
    BY <2>2, <2>5
<1>2. CallsTruthful
  <2>1. Idle("none", 0) \in CallStates /\ Truthful(Idle("none", 0))
    BY CountsAreNatural DEF Idle, CallStates, Truthful
  <2>2. call = [p \in Callers |-> Idle("none", 0)]
    BY DEF Init
  <2> QED
    BY <2>1, <2>2 DEF CallsTruthful
<1>3. sent = {} /\ faults = 0
  BY DEF Init
<1>4. RequestsTyped /\ RequestInv
  BY <1>3 DEF RequestsTyped, RequestInv
<1> QED
  BY <1>1, <1>2, <1>3, <1>4, CountsAreNatural DEF AdminParts

LEMMA SpendTyped ==
  ASSUME faults \in 0..MaxFaults, Spend
  PROVE  faults' \in 0..MaxFaults
BY CountsAreNatural DEF Spend

LEMMA BeginStep ==
  ASSUME AdminParts, NEW p \in Callers, NEW t \in Transactions, Begin(p, t)
  PROVE  AdminParts'
<1> DEFINE c == [at |-> "read", attempt |-> 0, transaction |-> t, landed |-> 0, answer |-> "none"]
<1>1. c \in CallStates /\ Truthful(c)
  BY CountsAreNatural DEF CallStates, Truthful
<1>2. Becomes(p, c)
  BY DEF Begin
<1> HIDE DEF c
<1>3. CallsTruthful' /\ \A q \in Callers : q # p => call'[q] = call[q]
  BY <1>1, <1>2, CallBecomes DEF AdminParts
<1>4. \A m \in sent : ~m.late => m.by # p /\ m.by \in Callers
  BY DEF AdminParts, RequestsTyped, RequestInv, Begin
<1>5. UNCHANGED <<server, sent, faults>>
  BY DEF Begin
<1>6. RequestsTyped' /\ RequestInv'
  BY <1>3, <1>4, <1>5, RequestsRemain DEF AdminParts, RequestInv
<1> QED
  BY <1>3, <1>5, <1>6 DEF AdminParts

\* A caller that is not waiting has no request on its way.
LEMMA NothingAwaited ==
  ASSUME AdminParts, NEW p \in Callers, call[p].at # "write",
         \A q \in Callers : q # p => call'[q] = call[q], sent' = sent
  PROVE  RequestsTyped' /\ RequestInv'
<1>1. \A m \in sent : ~m.late => m.by # p /\ m.by \in Callers /\ call[m.by].at = "write"
  BY DEF AdminParts, RequestsTyped, RequestInv
<1> QED
  BY <1>1, RequestsRemain DEF AdminParts

LEMMA ReadStep ==
  ASSUME AdminParts, NEW p \in Callers, Read(p)
  PROVE  AdminParts'
<1> DEFINE t == call[p].transaction
<1>1. /\ call[p] \in CallStates /\ call[p].at = "read" /\ t \in Transactions /\ call[p].landed = 0
      /\ call[p].answer = "none"
  BY DEF AdminParts, CallsTruthful, Truthful, Read
<1>2. UNCHANGED <<server, faults>>
  BY DEF Read
<1>3. CASE Refused(server, t)
  <2>1. Becomes(p, Idle("refused", 0)) /\ sent' = sent
    BY <1>1, <1>3 DEF Read, Answer
  <2>2. CallsTruthful' /\ \A q \in Callers : q # p => call'[q] = call[q]
    BY <2>1, CallAnswered DEF AdminParts
  <2>3. RequestsTyped' /\ RequestInv'
    BY <1>1, <2>1, <2>2, NothingAwaited
  <2> QED
    BY <1>2, <2>2, <2>3 DEF AdminParts
<1>4. CASE ~Refused(server, t)
  <2> DEFINE c == [call[p] EXCEPT !.at = "write"]
             m == [by |-> p, late |-> FALSE, transaction |-> t,
                   etag |-> server, list |-> Transformed(server, t)]
  <2>1. Becomes(p, c) /\ sent' = sent \cup {m}
    BY <1>4 DEF Read
  <2>2. c \in CallStates /\ Truthful(c) /\ c.at = "write"
    BY <1>1 DEF CallStates, Truthful
  <2>3. Transformed(server, t) \in Seq(Entries)
    BY <1>1, TransformedList DEF AdminParts
  <2>4. /\ m \in [by : Callers, late : BOOLEAN, transaction : Transactions,
                  etag : Seq(Entries), list : Seq(Entries)]
        /\ m.by = p /\ ~Refused(m.etag, m.transaction)
        /\ m.list = Transformed(m.etag, m.transaction)
    <3> HIDE DEF t
    <3> QED
      BY <1>1, <1>4, <2>3 DEF AdminParts
  <2> HIDE DEF c, m
  <2>5. CallsTruthful' /\ call'[p] = c /\ \A q \in Callers : q # p => call'[q] = call[q]
    BY <2>1, <2>2, CallBecomes DEF AdminParts
  <2>6. \A n \in sent : ~n.late => n.by # p /\ n.by \in Callers /\ call[n.by].at = "write"
    BY <1>1 DEF AdminParts, RequestsTyped, RequestInv
  <2>7. RequestsTyped'
    BY <2>1, <2>4 DEF AdminParts, RequestsTyped
  <2>8. RequestInv'
    <3>1. ASSUME NEW n \in sent'
          PROVE  /\ ~Refused(n.etag, n.transaction)
                 /\ n.list = Transformed(n.etag, n.transaction)
                 /\ ~n.late => call'[n.by].at = "write"
      <4>1. CASE n = m
        BY <2>2, <2>4, <2>5, <4>1
      <4>2. CASE n \in sent
        BY <2>5, <2>6, <4>2 DEF AdminParts, RequestInv
      <4> QED
        BY <2>1, <4>1, <4>2
    <3>2. ASSUME NEW k \in sent', NEW n \in sent', ~k.late, ~n.late, k.by = n.by PROVE k = n
      BY <2>1, <2>4, <2>6, <3>2 DEF AdminParts, RequestInv
    <3> QED
      BY <3>1, <3>2 DEF RequestInv
  <2> QED
    BY <1>2, <2>5, <2>7, <2>8 DEF AdminParts
<1> QED
  BY <1>3, <1>4

LEMMA ReadFailsStep ==
  ASSUME AdminParts, NEW p \in Callers, ReadFails(p)
  PROVE  AdminParts'
<1>1. call[p].at = "read" /\ call[p].landed = 0
  BY DEF AdminParts, CallsTruthful, Truthful, ReadFails
<1>2. Becomes(p, Idle("failed", 0)) /\ UNCHANGED <<server, sent>> /\ Spend
  BY <1>1 DEF ReadFails, Answer
<1>3. CallsTruthful' /\ \A q \in Callers : q # p => call'[q] = call[q]
  BY <1>2, CallAnswered DEF AdminParts
<1>4. RequestsTyped' /\ RequestInv'
  BY <1>1, <1>2, <1>3, NothingAwaited
<1> QED
  BY <1>2, <1>3, <1>4, SpendTyped DEF AdminParts

\* TimesOut and Crash.
LEMMA GivesUp ==
  ASSUME AdminParts, NEW p \in Callers, NEW answer \in {"none", "failed"},
         Becomes(p, Idle(answer, 0)), Spend, sent' = Abandoned(p), UNCHANGED server
  PROVE  AdminParts'
<1>1. CallsTruthful' /\ \A q \in Callers : q # p => call'[q] = call[q]
  BY CallAnswered DEF AdminParts
<1>2. RequestsTyped' /\ RequestInv'
  BY <1>1, RequestsAbandoned DEF AdminParts
<1> QED
  BY <1>1, <1>2, SpendTyped DEF AdminParts

LEMMA TimesOutStep ==
  ASSUME AdminParts, NEW p \in Callers, TimesOut(p)
  PROVE  AdminParts'
<1>1. call[p].landed = 0
  BY DEF AdminParts, CallsTruthful, Truthful, TimesOut
<1> QED
  BY <1>1, GivesUp DEF TimesOut, Answer

LEMMA CrashStep ==
  ASSUME AdminParts, NEW p \in Callers, Crash(p)
  PROVE  AdminParts'
BY GivesUp DEF Crash

\* A request is what its transaction makes of the list that still is served.
LEMMA MatchingRequest ==
  ASSUME AdminParts, NEW m \in sent, Matches(m)
  PROVE  /\ m.list \in Seq(Entries)
         /\ ~Refused(server, m.transaction)
         /\ m.list = Transformed(server, m.transaction)
         /\ m.transaction \in Transactions
         /\ m.by \in Callers
         /\ ~m.late => call[m.by].at = "write" /\ call[m.by].landed = 0
BY DEF AdminParts, CallsTruthful, Truthful, RequestsTyped, RequestInv, Matches

LEMMA AppliedStep ==
  ASSUME AdminParts, NEW m \in sent, Applied(m)
  PROVE  AdminParts'
<1>1. /\ m.list \in Seq(Entries) /\ m.by \in Callers
      /\ ~m.late => call[m.by].at = "write" /\ call[m.by].landed = 0
  BY MatchingRequest DEF Applied
<1>2. server' = m.list /\ sent' = sent \ {m} /\ UNCHANGED faults
  BY DEF Applied
<1>3. CASE m.late
  <2>1. UNCHANGED call
    BY <1>3 DEF Applied
  <2>2. RequestsTyped' /\ RequestInv'
    BY <1>2, <1>3, <2>1, RequestTaken DEF AdminParts
  <2> QED
    BY <1>1, <1>2, <2>1, <2>2 DEF AdminParts, CallsTruthful
<1>4. CASE ~m.late
  <2>1. Becomes(m.by, Idle("ok", 1))
    BY <1>1, <1>4 DEF Applied, Answer
  <2>2. CallsTruthful' /\ \A q \in Callers : q # m.by => call'[q] = call[q]
    BY <1>1, <2>1, CallAnswered DEF AdminParts
  <2>3. RequestsTyped' /\ RequestInv'
    BY <1>2, <1>4, <2>2, RequestTaken DEF AdminParts
  <2> QED
    BY <1>1, <1>2, <2>2, <2>3 DEF AdminParts
<1> QED
  BY <1>3, <1>4

LEMMA PreconditionFailedStep ==
  ASSUME AdminParts, NEW m \in sent, PreconditionFailed(m)
  PROVE  AdminParts'
<1>1. /\ m.by \in Callers /\ call[m.by] \in CallStates
      /\ ~m.late => /\ call[m.by].at = "write" /\ call[m.by].landed = 0
                    /\ call[m.by].answer = "none" /\ call[m.by].transaction \in Transactions
  BY DEF AdminParts, CallsTruthful, Truthful, RequestsTyped, RequestInv
<1>2. sent' = sent \ {m} /\ UNCHANGED <<server, faults>>
  BY DEF PreconditionFailed
<1>3. CASE m.late
  <2>1. UNCHANGED call
    BY <1>3 DEF PreconditionFailed
  <2>2. RequestsTyped' /\ RequestInv'
    BY <1>2, <1>3, <2>1, RequestTaken DEF AdminParts
  <2> QED
    BY <1>2, <2>1, <2>2 DEF AdminParts, CallsTruthful
<1>4. CASE ~m.late
  <2>1. CallsTruthful' /\ \A q \in Callers : q # m.by => call'[q] = call[q]
    <3>1. CASE call[m.by].attempt < Retries
      <4> DEFINE c == [call[m.by] EXCEPT !.at = "read", !.attempt = @ + 1]
      <4>1. Becomes(m.by, c)
        BY <1>4, <3>1 DEF PreconditionFailed
      <4>2. call[m.by].attempt + 1 \in 0..Retries
        <5>1. call[m.by].attempt \in 0..Retries
          BY <1>1 DEF CallStates
        <5> QED
          BY <3>1, <5>1, CountsAreNatural
      <4>3. c \in CallStates /\ Truthful(c)
        BY <1>1, <1>4, <4>2 DEF CallStates, Truthful
      <4> HIDE DEF c
      <4> QED
        BY <1>1, <4>1, <4>3, CallBecomes DEF AdminParts
    <3>2. CASE ~(call[m.by].attempt < Retries)
      <4>1. Becomes(m.by, Idle("exhausted", 0))
        BY <1>1, <1>4, <3>2 DEF PreconditionFailed, Answer
      <4> QED
        BY <1>1, <4>1, CallAnswered DEF AdminParts
    <3> QED
      BY <3>1, <3>2
  <2>2. RequestsTyped' /\ RequestInv'
    BY <1>2, <1>4, <2>1, RequestTaken DEF AdminParts
  <2> QED
    BY <1>2, <2>1, <2>2 DEF AdminParts
<1> QED
  BY <1>3, <1>4

LEMMA AnswerLostStep ==
  ASSUME AdminParts, NEW m \in sent, AnswerLost(m)
  PROVE  AdminParts'
<1>1. /\ m.list \in Seq(Entries) /\ m.by \in Callers /\ ~m.late /\ call[m.by].landed = 0
  BY MatchingRequest DEF AnswerLost
<1>2. server' = m.list /\ sent' = sent \ {m} /\ Spend
  BY DEF AnswerLost
<1>3. Becomes(m.by, Idle("failed", 1))
  BY <1>1 DEF AnswerLost, Answer
<1>4. CallsTruthful' /\ \A q \in Callers : q # m.by => call'[q] = call[q]
  BY <1>1, <1>3, CallAnswered DEF AdminParts
<1>5. RequestsTyped' /\ RequestInv'
  BY <1>1, <1>2, <1>4, RequestTaken DEF AdminParts
<1> QED
  BY <1>1, <1>2, <1>4, <1>5, SpendTyped DEF AdminParts

LEMMA LostStep ==
  ASSUME AdminParts, NEW m \in sent, Lost(m)
  PROVE  AdminParts'
<1>1. m.late /\ sent' = sent \ {m} /\ UNCHANGED <<server, call, faults>>
  BY DEF Lost
<1>2. RequestsTyped' /\ RequestInv'
  BY <1>1, RequestTaken DEF AdminParts
<1> QED
  BY <1>1, <1>2 DEF AdminParts, CallsTruthful

\* Another program changes the list.
LEMMA ForeignStep ==
  ASSUME AdminParts, server' \in Seq(Entries), UNCHANGED <<call, sent, faults>>
  PROVE  AdminParts'
<1>1. RequestsTyped' /\ RequestInv'
  BY RequestsRemain DEF AdminParts, RequestInv
<1> QED
  BY <1>1 DEF AdminParts, CallsTruthful

LEMMA ForeignAddsStep ==
  ASSUME AdminParts, NEW f \in Foreign, NEW i \in 1..Len(server) + 1, ForeignAdds(f, i)
  PROVE  AdminParts'
<1> DEFINE e == [id |-> f, owners |-> {}]
<1>1. e \in Entries /\ server \in Seq(Entries)
  BY DEF Entries, AdminParts
<1>2. server' = InsertAt(server, i, e) /\ UNCHANGED <<call, sent, faults>>
  BY DEF ForeignAdds
<1> HIDE DEF e
<1>3. InsertAt(server, i, e) \in Seq(Entries)
  BY <1>1, Inserted
<1> QED
  BY <1>2, <1>3, ForeignStep

LEMMA ForeignRemovesStep ==
  ASSUME AdminParts, NEW i \in DOMAIN server, ForeignRemoves(i)
  PROVE  AdminParts'
<1>1. server \in Seq(Entries) /\ Len(server) \in Nat /\ i \in 1..Len(server)
  BY LenProperties DEF AdminParts
<1>2. \A j \in 1..Len(server) : server[j] \in Entries
  BY <1>1, ElementOfSeq
<1> DEFINE a == SubSeq(server, 1, i - 1)
           b == SubSeq(server, i + 1, Len(server))
<1>3. server' = a \o b /\ UNCHANGED <<call, sent, faults>>
  BY DEF ForeignRemoves, RemoveAt
<1>4. a \in Seq(Entries)
  <2>1. 1 \in Int /\ i - 1 \in Int /\ \A j \in 1..(i - 1) : server[j] \in Entries
    BY <1>1, <1>2
  <2> QED
    BY <2>1, SubSeqProperties
<1>5. b \in Seq(Entries)
  <2>1. i + 1 \in Int /\ Len(server) \in Int /\ \A j \in (i + 1)..Len(server) : server[j] \in Entries
    BY <1>1, <1>2
  <2> QED
    BY <2>1, SubSeqProperties
<1> HIDE DEF a, b
<1>6. a \o b \in Seq(Entries)
  BY <1>4, <1>5, ConcatProperties
<1> QED
  BY <1>3, <1>6, ForeignStep

LEMMA AdminStep ==
  ASSUME AdminParts, [Next]_vars
  PROVE  AdminParts'
<1>1. CASE UNCHANGED vars
  BY <1>1, ForeignStep DEF vars, AdminParts
<1>2. ASSUME NEW p \in Callers, \E t \in Transactions : Begin(p, t) PROVE AdminParts'
  BY <1>2, BeginStep
<1>3. ASSUME NEW p \in Callers, Read(p) \/ ReadFails(p) \/ TimesOut(p) \/ Crash(p) PROVE AdminParts'
  BY <1>3, ReadStep, ReadFailsStep, TimesOutStep, CrashStep
<1>4. ASSUME NEW m \in sent, Applied(m) \/ PreconditionFailed(m) \/ AnswerLost(m) \/ Lost(m)
      PROVE  AdminParts'
  BY <1>4, AppliedStep, PreconditionFailedStep, AnswerLostStep, LostStep
<1>5. ASSUME \E f \in Foreign, i \in 1..Len(server) + 1 : ForeignAdds(f, i) PROVE AdminParts'
  BY <1>5, ForeignAddsStep
<1>6. ASSUME \E i \in DOMAIN server : ForeignRemoves(i) PROVE AdminParts'
  BY <1>6, ForeignRemovesStep
<1> QED
  BY <1>1, <1>2, <1>3, <1>4, <1>5, <1>6 DEF Next

-----------------------------------------------------------------------------
(* The theorems.                                                           *)

\* AdminInv is inductive.
THEOREM AdminInvariantHolds == Spec => []AdminInv
<1>1. Init => AdminParts
  BY AdminInit
<1>2. AdminParts /\ [Next]_vars => AdminParts'
  BY AdminStep
<1>3. AdminParts => AdminInv
  BY PartsAreAdminInv
<1> QED
  BY <1>1, <1>2, <1>3, PTL DEF Spec

\* What mutate_with_retry (caddy.rs:885-910) reports to its caller is true.
THEOREM AnswersHold == Spec => []AnswersAreTrue
<1>1. AdminInv => AnswersAreTrue
  BY DEF AdminInv
<1> QED
  BY <1>1, AdminInvariantHolds, PTL

\* A write of Nook takes the place of the list it was made from.
LEMMA ServerChanges ==
  ASSUME AdminParts, [Next]_vars, server' # server
  PROVE  \/ UNCHANGED <<call, sent>>
         \/ \E m \in sent : Matches(m) /\ server' = m.list /\ sent' = sent \ {m}
<1>1. CASE \E m \in sent : Applied(m) \/ AnswerLost(m)
  BY <1>1 DEF Applied, AnswerLost
<1>2. CASE \/ \E f \in Foreign, i \in 1..Len(server) + 1 : ForeignAdds(f, i)
           \/ \E i \in DOMAIN server : ForeignRemoves(i)
  BY <1>2 DEF ForeignAdds, ForeignRemoves
<1>3. ASSUME NEW p \in Callers,
             (\E t \in Transactions : Begin(p, t)) \/ Read(p) \/ ReadFails(p) \/ TimesOut(p) \/ Crash(p)
      PROVE  FALSE
  BY <1>3 DEF Begin, Read, ReadFails, TimesOut, Crash
<1>4. ASSUME NEW m \in sent, PreconditionFailed(m) \/ Lost(m) PROVE FALSE
  BY <1>4 DEF PreconditionFailed, Lost
<1> QED
  BY <1>1, <1>2, <1>3, <1>4 DEF Next, vars

\* No write of Nook alters, moves or loses a route of another program
\* (mutate_server_routes, place_container: caddy.rs:259-331,1137-1147).
THEOREM ForeignRoutesStay == Spec => ForeignRoutesUntouched
<1> DEFINE A == ForeignPart(server') # ForeignPart(server) => UNCHANGED <<call, sent>>
<1>1. ASSUME AdminInv, [Next]_vars PROVE A
  <2> SUFFICES ASSUME ForeignPart(server') # ForeignPart(server) PROVE UNCHANGED <<call, sent>>
    OBVIOUS
  <2>1. AdminParts
    BY <1>1, PartsAreAdminInv
  <2>2. server' # server
    OBVIOUS
  <2>3. ASSUME NEW m \in sent, Matches(m), server' = m.list PROVE FALSE
    <3>1. server \in Seq(Entries) /\ m.list = Transformed(server, m.transaction) /\ m.transaction \in Transactions
      BY <2>1, <2>3, MatchingRequest DEF AdminParts
    <3>2. ForeignPart(m.list) = ForeignPart(server)
      BY <3>1, TransformedList
    <3> QED
      BY <2>3, <3>2
  <2> QED
    BY <1>1, <2>1, <2>2, <2>3, ServerChanges
<1>2. Spec => [][A]_vars
  BY <1>1, AdminInvariantHolds, PTL DEF Spec
<1> QED
  BY <1>2 DEF ForeignRoutesUntouched

\* A write that Caddy applies is the transaction of CaddyRoutes, on what is
\* served at that moment, and nothing hides it.
THEOREM WritesHold == Spec => WritesAreTransactions
<1> DEFINE W(m) ==
      LET t == m.transaction
          before == Managed(server)
      IN /\ ~Refused(server, t)
         /\ Managed(server') =
              IF t.put THEN PutRoute(before, CHOOSE c \in t.in : TRUE, t.owner)
                       ELSE DropRoutes(before, t.in, t.owner)
         /\ \A i, j \in DOMAIN server' :
              server'[i].id \in t.in /\ IsCatchAll(server'[j]) => i < j
           A == \A m \in sent \ sent' : server' # server => W(m)
<1>1. ASSUME AdminInv, [Next]_vars PROVE A
  <2> SUFFICES ASSUME NEW m \in sent, m \notin sent', server' # server PROVE W(m)
    OBVIOUS
  <2>1. AdminParts
    BY <1>1, PartsAreAdminInv
  <2>2. Matches(m) /\ server' = m.list
    BY <1>1, <2>1, ServerChanges
  <2> DEFINE t == m.transaction
             P == m.list
  <2>3. /\ server \in Seq(Entries) /\ t \in Transactions /\ ~Refused(server, t)
        /\ P = Transformed(server, t)
    BY <2>1, <2>2, MatchingRequest DEF AdminParts
  <2>4. server' = P
    BY <2>2
  <2> HIDE DEF t, P
  <2>5. /\ P \in Seq(Entries)
        /\ Managed(P) = IF t.put THEN PutRoute(Managed(server), CHOOSE c \in t.in : TRUE, t.owner)
                                 ELSE DropRoutes(Managed(server), t.in, t.owner)
        /\ \A c \in t.in : Ordered(P, c)
    BY <2>3, TransformedList
  <2>6. DOMAIN P = 1..Len(P)
    BY <2>5, LenProperties
  <2>7. \A i, j \in DOMAIN P : P[i].id \in t.in /\ IsCatchAll(P[j]) => i < j
    BY <2>5, <2>6 DEF Ordered
  <2> QED
    BY <2>3, <2>4, <2>5, <2>7 DEF t
<1>2. Spec => [][A]_vars
  BY <1>1, AdminInvariantHolds, PTL DEF Spec
<1> QED
  BY <1>2 DEF WritesAreTransactions
=============================================================================
