-------------------------- MODULE ExportGate_proofs --------------------------
(***************************************************************************)
(* What holds of ExportGate for any set of jobs, mixed from both kinds,    *)
(* any number of rows each, and any limits.                                *)
(***************************************************************************)
EXTENDS ExportGate, FiniteSetTheorems, SequenceTheorems, WellFoundedInduction, TLAPS

-----------------------------------------------------------------------------
(***************************************************************************)
(* Queues.                                                                 *)
(***************************************************************************)

NoneTwice(q) == \A i, k \in 1 .. Len(q) : q[i] = q[k] => i = k

LEMMA QueueSet ==
    ASSUME NEW S, NEW q \in Seq(S)
    PROVE  /\ ToSet(q) = {q[i] : i \in 1 .. Len(q)}
           /\ ToSet(q) \subseteq S
           /\ q = <<>> <=> ToSet(q) = {}
<1>1. DOMAIN q = 1 .. Len(q) /\ Len(q) \in Nat /\ q \in [1 .. Len(q) -> S]
  BY LenProperties
<1>2. ToSet(q) = {q[i] : i \in 1 .. Len(q)}
  BY <1>1 DEF ToSet
<1>3. q = <<>> <=> Len(q) = 0
  BY EmptySeq
<1>4. Len(q) = 0 <=> ToSet(q) = {}
  <2>1. ASSUME Len(q) # 0 PROVE q[1] \in ToSet(q)
    BY <1>1, <1>2, <2>1
  <2>2. ASSUME Len(q) = 0 PROVE ToSet(q) = {}
    <3>1. 1 .. Len(q) = {}
      BY <2>2
    <3> QED BY <1>2, <3>1
  <2> QED BY <2>1, <2>2
<1>5. ToSet(q) \subseteq S
  BY <1>1, <1>2
<1> QED BY <1>2, <1>3, <1>4, <1>5

(* As many jobs stand in a queue as it is long.                            *)
LEMMA QueueSize ==
    ASSUME NEW S, NEW q \in Seq(S), IsFiniteSet(S), NoneTwice(q)
    PROVE  IsFiniteSet(ToSet(q)) /\ Cardinality(ToSet(q)) >= Len(q)
<1>1. ToSet(q) = {q[i] : i \in 1 .. Len(q)} /\ ToSet(q) \subseteq S
  BY QueueSet
<1>2. q \in [1 .. Len(q) -> S] /\ Len(q) \in Nat
  BY LenProperties
<1>3. IsFiniteSet(ToSet(q)) /\ Cardinality(ToSet(q)) \in Nat
  BY <1>1, FS_Subset, FS_CardinalityType
<1>4. q \in Injection(1 .. Len(q), ToSet(q))
  BY <1>1, <1>2 DEF NoneTwice, Injection, IsInjective
<1>5. Cardinality(1 .. Len(q)) <= Cardinality(ToSet(q))
  BY <1>3, <1>4, FS_Injection
<1>6. Cardinality(1 .. Len(q)) = Len(q)
  <2>1. 1 \in Int /\ Len(q) \in Int
    BY <1>2
  <2>2. Cardinality(1 .. Len(q)) = IF 1 > Len(q) THEN 0 ELSE Len(q) - 1 + 1
    BY <2>1, FS_Interval
  <2> QED BY <1>2, <2>2
<1> QED BY <1>2, <1>3, <1>5, <1>6

(* Joining at the end.                                                     *)
LEMMA Joined ==
    ASSUME NEW S, NEW q \in Seq(S), NEW e \in S, NoneTwice(q), e \notin ToSet(q)
    PROVE  /\ Append(q, e) \in Seq(S)
           /\ Len(Append(q, e)) = Len(q) + 1
           /\ NoneTwice(Append(q, e))
           /\ ToSet(Append(q, e)) = ToSet(q) \cup {e}
<1> DEFINE a == Append(q, e)
<1>1. /\ a \in Seq(S) /\ Len(a) = Len(q) + 1 /\ Len(q) \in Nat
      /\ \A i \in 1 .. Len(q) : a[i] = q[i]
      /\ a[Len(q) + 1] = e
  BY AppendProperties, LenProperties
<1>2. \A i \in 1 .. Len(q) : q[i] # e
  BY QueueSet
<1>3. ToSet(a) = {a[i] : i \in 1 .. Len(a)} /\ ToSet(q) = {q[i] : i \in 1 .. Len(q)}
  BY <1>1, QueueSet
<1> HIDE DEF a
<1>4. NoneTwice(a)
  BY <1>1, <1>2 DEF NoneTwice
<1>5. ToSet(a) = ToSet(q) \cup {e}
  BY <1>1, <1>3
<1> QED BY <1>1, <1>4, <1>5 DEF a

(* The n first leave: the others keep their order.                         *)
LEMMA FirstLeave ==
    ASSUME NEW S, NEW q \in Seq(S), NEW n \in 0 .. Len(q), NoneTwice(q)
    PROVE  /\ SubSeq(q, n + 1, Len(q)) \in Seq(S)
           /\ Len(SubSeq(q, n + 1, Len(q))) = Len(q) - n
           /\ NoneTwice(SubSeq(q, n + 1, Len(q)))
           /\ ToSet(SubSeq(q, 1, n)) = {q[i] : i \in 1 .. n}
           /\ ToSet(SubSeq(q, n + 1, Len(q))) = ToSet(q) \ ToSet(SubSeq(q, 1, n))
<1> DEFINE a == SubSeq(q, n + 1, Len(q))
           b == SubSeq(q, 1, n)
<1>1. Len(q) \in Nat /\ n \in Nat /\ n <= Len(q) /\ \A i \in 1 .. Len(q) : q[i] \in S
  BY LenProperties, ElementOfSeq
<1>2. /\ a \in Seq(S) /\ Len(a) = Len(q) - n
      /\ \A i \in 1 .. Len(q) - n : a[i] = q[n + i]
  <2>1. \A i \in n + 1 .. Len(q) : q[i] \in S
    BY <1>1
  <2>2. /\ a \in Seq(S) /\ Len(a) = IF n + 1 <= Len(q) THEN Len(q) - (n + 1) + 1 ELSE 0
        /\ \A i \in 1 .. Len(q) - (n + 1) + 1 : a[i] = q[n + 1 + i - 1]
    BY <1>1, <2>1, SubSeqProperties
  <2> HIDE DEF a
  <2> QED BY <1>1, <2>2
<1>3. b \in Seq(S) /\ Len(b) = n /\ \A i \in 1 .. n : b[i] = q[i]
  <2>1. \A i \in 1 .. n : q[i] \in S
    BY <1>1
  <2>2. /\ b \in Seq(S) /\ Len(b) = IF 1 <= n THEN n - 1 + 1 ELSE 0
        /\ \A i \in 1 .. n - 1 + 1 : b[i] = q[1 + i - 1]
    BY <1>1, <2>1, SubSeqProperties
  <2> HIDE DEF b
  <2> QED BY <1>1, <2>2
<1>4. /\ ToSet(a) = {a[i] : i \in 1 .. Len(q) - n}
      /\ ToSet(b) = {b[i] : i \in 1 .. n}
      /\ ToSet(q) = {q[i] : i \in 1 .. Len(q)}
  <2>1. \A s \in Seq(S) : ToSet(s) = {s[i] : i \in 1 .. Len(s)}
    BY QueueSet
  <2> HIDE DEF a, b
  <2> QED BY <1>2, <1>3, <2>1
<1> HIDE DEF a, b
<1>5. NoneTwice(a)
  BY <1>1, <1>2 DEF NoneTwice
<1>6. ToSet(b) = {q[i] : i \in 1 .. n}
  BY <1>3, <1>4
<1>7. ToSet(a) = {q[i] : i \in n + 1 .. Len(q)}
  <2>1. ASSUME NEW x \in ToSet(a) PROVE \E i \in n + 1 .. Len(q) : x = q[i]
    <3>1. PICK i \in 1 .. Len(q) - n : x = a[i]
      BY <1>4
    <3>2. n + i \in n + 1 .. Len(q) /\ x = q[n + i]
      BY <1>1, <1>2, <3>1
    <3> QED BY <3>2
  <2>2. ASSUME NEW i \in n + 1 .. Len(q) PROVE q[i] \in ToSet(a)
    <3>1. i - n \in 1 .. Len(q) - n /\ a[i - n] = q[n + (i - n)] /\ n + (i - n) = i
      BY <1>1, <1>2
    <3> QED BY <1>4, <3>1
  <2> QED BY <2>1, <2>2
<1>8. ToSet(a) = ToSet(q) \ ToSet(b)
  <2>1. ASSUME NEW i \in n + 1 .. Len(q), NEW k \in 1 .. n PROVE q[i] # q[k]
    BY <1>1 DEF NoneTwice
  <2>2. ToSet(a) \cap ToSet(b) = {}
    BY <1>6, <1>7, <2>1
  <2>3. ToSet(q) = ToSet(a) \cup ToSet(b)
    <3>1. \A i \in 1 .. Len(q) : i \in 1 .. n \/ i \in n + 1 .. Len(q)
      BY <1>1
    <3>2. \A i \in (1 .. n) \cup (n + 1 .. Len(q)) : i \in 1 .. Len(q)
      BY <1>1
    <3> QED BY <1>4, <1>6, <1>7, <3>1, <3>2
  <2> QED BY <2>2, <2>3
<1> QED BY <1>2, <1>5, <1>6, <1>8 DEF a, b

(* The head leaves.                                                        *)
LEMMA HeadLeaves ==
    ASSUME NEW S, NEW q \in Seq(S), q # <<>>, NoneTwice(q)
    PROVE  /\ Head(q) \in ToSet(q)
           /\ Tail(q) \in Seq(S)
           /\ Len(Tail(q)) = Len(q) - 1
           /\ NoneTwice(Tail(q))
           /\ ToSet(Tail(q)) = ToSet(q) \ {Head(q)}
           /\ Tail(q) = SubSeq(q, 1 + 1, Len(q)) /\ ToSet(SubSeq(q, 1, 1)) = {Head(q)}
<1>1. Len(q) \in Nat \ {0} /\ 1 \in 0 .. Len(q) /\ 1 + 1 = 2
  BY EmptySeq
<1>2. Tail(q) = SubSeq(q, 1 + 1, Len(q))
  BY <1>1, TailIsSubSeq
<1>3. Head(q) = q[1]
  OBVIOUS
<1>4. ToSet(SubSeq(q, 1, 1)) = {Head(q)}
  <2>1. ToSet(SubSeq(q, 1, 1)) = {q[i] : i \in 1 .. 1}
    BY <1>1, FirstLeave
  <2>2. 1 .. 1 = {1}
    OBVIOUS
  <2> QED BY <1>3, <2>1, <2>2
<1>5. Head(q) \in ToSet(q)
  <2>1. 1 \in 1 .. Len(q)
    BY <1>1
  <2> QED BY <1>3, <2>1, QueueSet
<1>6. /\ SubSeq(q, 1 + 1, Len(q)) \in Seq(S)
      /\ Len(SubSeq(q, 1 + 1, Len(q))) = Len(q) - 1
      /\ NoneTwice(SubSeq(q, 1 + 1, Len(q)))
      /\ ToSet(SubSeq(q, 1 + 1, Len(q))) = ToSet(q) \ ToSet(SubSeq(q, 1, 1))
  BY <1>1, FirstLeave
<1> QED BY <1>2, <1>4, <1>5, <1>6

(* One in the middle leaves.                                               *)
LEMMA OneLeaves ==
    ASSUME NEW S, NEW q \in Seq(S), NEW k \in 1 .. Len(q), NoneTwice(q)
    PROVE  /\ RemoveAt(q, k) \in Seq(S)
           /\ Len(RemoveAt(q, k)) = Len(q) - 1
           /\ NoneTwice(RemoveAt(q, k))
           /\ ToSet(RemoveAt(q, k)) = ToSet(q) \ {q[k]}
<1> DEFINE a == SubSeq(q, 1, k - 1)
           b == SubSeq(q, k + 1, Len(q))
           r == a \o b
           Old(i) == IF i <= k - 1 THEN i ELSE i + 1
<1>1. Len(q) \in Nat /\ k \in Nat /\ 1 <= k /\ k <= Len(q)
  BY LenProperties
<1>2. a \in Seq(S) /\ Len(a) = k - 1 /\ \A i \in 1 .. k - 1 : a[i] = q[i]
  <2>1. \A i \in 1 .. k - 1 : q[i] \in S
    BY <1>1, ElementOfSeq
  <2>2. /\ a \in Seq(S) /\ Len(a) = IF 1 <= k - 1 THEN k - 1 - 1 + 1 ELSE 0
        /\ \A i \in 1 .. k - 1 - 1 + 1 : a[i] = q[1 + i - 1]
    BY <1>1, <2>1, SubSeqProperties
  <2> HIDE DEF a
  <2> QED BY <1>1, <2>2
<1>3. b \in Seq(S) /\ Len(b) = Len(q) - k /\ \A i \in 1 .. Len(q) - k : b[i] = q[k + i]
  <2>1. \A i \in k + 1 .. Len(q) : q[i] \in S
    BY <1>1, ElementOfSeq
  <2>2. /\ b \in Seq(S) /\ Len(b) = IF k + 1 <= Len(q) THEN Len(q) - (k + 1) + 1 ELSE 0
        /\ \A i \in 1 .. Len(q) - (k + 1) + 1 : b[i] = q[k + 1 + i - 1]
    BY <1>1, <2>1, SubSeqProperties
  <2> HIDE DEF b
  <2> QED BY <1>1, <2>2
<1>4. /\ r \in Seq(S) /\ Len(r) = Len(a) + Len(b)
      /\ \A i \in 1 .. Len(a) + Len(b) :
            r[i] = IF i <= Len(a) THEN a[i] ELSE b[i - Len(a)]
  <2> HIDE DEF a, b
  <2> QED BY <1>2, <1>3, ConcatProperties
<1> HIDE DEF a, b, r
<1>5. Len(r) = Len(q) - 1
  BY <1>1, <1>2, <1>3, <1>4
<1>6. \A i \in 1 .. Len(q) - 1 : r[i] = IF i <= k - 1 THEN a[i] ELSE b[i - (k - 1)]
  <2>1. Len(a) + Len(b) = Len(q) - 1
    BY <1>1, <1>2, <1>3
  <2> QED BY <1>2, <1>4, <2>1
<1>7. \A i \in 1 .. Len(q) - 1 : r[i] = q[Old(i)] /\ Old(i) \in 1 .. Len(q) /\ Old(i) # k
  <2> TAKE i \in 1 .. Len(q) - 1
  <2>1. CASE i <= k - 1
    <3>1. r[i] = a[i] /\ i \in 1 .. k - 1 /\ Old(i) = i
      BY <1>1, <1>6, <2>1
    <3> QED BY <1>1, <1>2, <2>1, <3>1
  <2>2. CASE ~ (i <= k - 1)
    <3>1. r[i] = b[i - (k - 1)] /\ i - (k - 1) \in 1 .. Len(q) - k /\ Old(i) = i + 1
      BY <1>1, <1>6, <2>2
    <3>2. b[i - (k - 1)] = q[k + (i - (k - 1))] /\ k + (i - (k - 1)) = i + 1
      BY <1>1, <1>3, <3>1
    <3> QED BY <1>1, <3>1, <3>2
  <2> QED BY <2>1, <2>2
<1>8. NoneTwice(r)
  <2> SUFFICES ASSUME NEW i \in 1 .. Len(q) - 1, NEW m \in 1 .. Len(q) - 1, r[i] = r[m]
               PROVE  i = m
    BY <1>5 DEF NoneTwice
  <2>1. Old(i) = Old(m)
    BY <1>7 DEF NoneTwice
  <2> QED BY <1>1, <2>1
<1>9. ToSet(r) = {r[i] : i \in 1 .. Len(q) - 1} /\ ToSet(q) = {q[i] : i \in 1 .. Len(q)}
  <2>1. \A s \in Seq(S) : ToSet(s) = {s[i] : i \in 1 .. Len(s)}
    BY QueueSet
  <2> QED BY <1>4, <1>5, <2>1
<1>10. ASSUME NEW m \in 1 .. Len(q), m # k PROVE \E i \in 1 .. Len(q) - 1 : r[i] = q[m]
  <2>1. CASE m < k
    <3>1. m \in 1 .. Len(q) - 1 /\ Old(m) = m
      BY <1>1, <2>1
    <3> QED BY <1>7, <3>1
  <2>2. CASE m > k
    <3>1. m - 1 \in 1 .. Len(q) - 1 /\ Old(m - 1) = m
      BY <1>1, <2>2
    <3> QED BY <1>7, <3>1
  <2> QED BY <1>1, <1>10, <2>1, <2>2
<1>11. ToSet(r) = ToSet(q) \ {q[k]}
  <2>1. ASSUME NEW x \in ToSet(r) PROVE x \in ToSet(q) /\ x # q[k]
    <3>1. PICK i \in 1 .. Len(q) - 1 : x = r[i]
      BY <1>9
    <3>2. x = q[Old(i)] /\ Old(i) \in 1 .. Len(q) /\ Old(i) # k
      BY <1>7, <3>1
    <3> HIDE DEF Old
    <3> QED BY <1>9, <3>2 DEF NoneTwice
  <2>2. ASSUME NEW x \in ToSet(q), x # q[k] PROVE x \in ToSet(r)
    BY <1>9, <1>10, <2>2
  <2> QED BY <2>1, <2>2
<1> QED BY <1>4, <1>5, <1>8, <1>11 DEF r, a, b, RemoveAt

LEMMA SpliceLeaves ==
    ASSUME NEW S, NEW q \in Seq(S), NEW e, NoneTwice(q)
    PROVE  /\ e \notin ToSet(q) => Splice(q, e) = q
           /\ e \in ToSet(q) =>
                 \E k \in 1 .. Len(q) : q[k] = e /\ Splice(q, e) = RemoveAt(q, k)
<1>1. DOMAIN q = 1 .. Len(q)
  BY LenProperties
<1>2. ASSUME e \in ToSet(q)
      PROVE  \E k \in 1 .. Len(q) : q[k] = e /\ Splice(q, e) = RemoveAt(q, k)
  <2> DEFINE k == CHOOSE i \in DOMAIN q : q[i] = e
  <2>1. k \in 1 .. Len(q) /\ q[k] = e
    BY <1>1, <1>2 DEF ToSet
  <2>2. Splice(q, e) = RemoveAt(q, k)
    BY <1>2 DEF Splice
  <2> QED BY <2>1, <2>2
<1> QED BY <1>2 DEF Splice

-----------------------------------------------------------------------------
(***************************************************************************)
(* Rows.                                                                   *)
(***************************************************************************)

LEMMA CanBounds == \A j \in Jobs : Can(j) \in 1 .. Budget
BY ExportAssumption DEF Can

LEMMA RowsAre ==
    ASSUME NEW S \in SUBSET Jobs
    PROVE  RowsOf(S) = {r \in Jobs \X (1 .. Budget) : r[1] \in S /\ r[2] <= Can(r[1])}
<1>1. Budget \in Nat
  BY ExportAssumption
<1>2. \A j \in S : \A i \in 1 .. Can(j) : i \in 1 .. Budget /\ i <= Can(j)
  BY <1>1, CanBounds
<1>3. \A j \in S : \A i \in 1 .. Budget : i <= Can(j) => i \in 1 .. Can(j)
  BY <1>1, CanBounds
<1> QED BY <1>2, <1>3 DEF RowsOf

LEMMA RowCountType ==
    ASSUME NEW S \in SUBSET Jobs
    PROVE  IsFiniteSet(RowsOf(S)) /\ RowCount(S) \in Nat
<1>1. IsFiniteSet(Jobs \X (1 .. Budget))
  <2>1. IsFiniteSet(Jobs) /\ Budget \in Int
    BY ExportAssumption
  <2>2. IsFiniteSet(1 .. Budget)
    BY <2>1, FS_Interval
  <2> QED BY <2>1, <2>2, FS_Product
<1>2. RowsOf(S) \in SUBSET (Jobs \X (1 .. Budget))
  BY RowsAre
<1>3. IsFiniteSet(RowsOf(S))
  BY <1>1, <1>2, FS_Subset
<1> QED BY <1>3, FS_CardinalityType DEF RowCount

LEMMA RowCountNone == RowCount({}) = 0
<1>1. RowsOf({}) = {}
  BY DEF RowsOf
<1> QED BY <1>1, FS_EmptySet DEF RowCount

LEMMA RowCountOne == \A j \in Jobs : RowCount({j}) = Can(j)
<1> TAKE j \in Jobs
<1>1. RowsOf({j}) = {j} \X (1 .. Can(j))
  BY DEF RowsOf
<1>2. Can(j) \in Nat /\ Can(j) >= 1
  BY CanBounds, ExportAssumption
<1>3. IsFiniteSet(1 .. Can(j)) /\ Cardinality(1 .. Can(j)) = Can(j)
  BY <1>2, FS_Interval
<1>4. IsFiniteSet({j}) /\ Cardinality({j}) = 1
  BY FS_Singleton
<1>5. Cardinality({j} \X (1 .. Can(j))) = Cardinality({j}) * Cardinality(1 .. Can(j))
  BY <1>3, <1>4, FS_Product
<1>6. Cardinality({j}) * Cardinality(1 .. Can(j)) = Can(j)
  BY <1>2, <1>3, <1>4
<1> QED BY <1>1, <1>5, <1>6 DEF RowCount

LEMMA RowCountAdds ==
    ASSUME NEW S \in SUBSET Jobs, NEW T \in SUBSET Jobs, S \cap T = {}
    PROVE  RowCount(S \cup T) = RowCount(S) + RowCount(T)
<1>1. RowsOf(S \cup T) = RowsOf(S) \cup RowsOf(T)
  BY DEF RowsOf
<1>2. RowsOf(S) \cap RowsOf(T) = {}
  BY RowsAre
<1>3. /\ IsFiniteSet(RowsOf(S)) /\ Cardinality(RowsOf(S)) \in Nat
      /\ IsFiniteSet(RowsOf(T)) /\ Cardinality(RowsOf(T)) \in Nat
  BY RowCountType DEF RowCount
<1>4. Cardinality(RowsOf(S) \cup RowsOf(T))
        = Cardinality(RowsOf(S)) + Cardinality(RowsOf(T)) - Cardinality({})
  BY <1>2, <1>3, FS_Union
<1>5. Cardinality({}) = 0
  BY FS_EmptySet
<1>6. Cardinality(RowsOf(S) \cup RowsOf(T))
        = Cardinality(RowsOf(S)) + Cardinality(RowsOf(T))
  BY <1>3, <1>4, <1>5
<1> QED BY <1>1, <1>6 DEF RowCount

LEMMA RowCountWith ==
    ASSUME NEW S \in SUBSET Jobs, NEW j \in Jobs
    PROVE  /\ j \notin S => RowCount(S \cup {j}) = RowCount(S) + Can(j)
           /\ j \in S => RowCount(S \ {j}) = RowCount(S) - Can(j)
<1>1. ASSUME NEW R \in SUBSET Jobs, j \notin R
      PROVE  RowCount(R \cup {j}) = RowCount(R) + Can(j)
  BY <1>1, RowCountAdds, RowCountOne
<1>2. ASSUME j \in S PROVE RowCount(S \ {j}) = RowCount(S) - Can(j)
  <2>1. (S \ {j}) \cup {j} = S
    BY <1>2
  <2>2. RowCount(S) = RowCount(S \ {j}) + Can(j)
    BY <1>1, <2>1
  <2>3. RowCount(S \ {j}) \in Nat /\ Can(j) \in Int
    BY RowCountType, CanBounds
  <2> QED BY <2>2, <2>3
<1> QED BY <1>1, <1>2

LEMMA RowCountSome ==
    ASSUME NEW S \in SUBSET Jobs, S # {}
    PROVE  RowCount(S) >= 1
<1>1. PICK j \in S : TRUE
  OBVIOUS
<1>2. RowCount(S \ {j}) = RowCount(S) - Can(j)
  BY RowCountWith
<1>3. RowCount(S \ {j}) \in Nat /\ RowCount(S) \in Nat /\ Can(j) \in 1 .. Budget
  BY RowCountType, CanBounds
<1> QED BY <1>2, <1>3, ExportAssumption

(* A bounded set of naturals has a largest element, which is its Max.      *)
LEMMA MaxOfBounded ==
    ASSUME NEW T \in SUBSET Nat, T # {}, NEW m \in Nat, \A y \in T : y <= m
    PROVE  Max(T) \in T /\ \A y \in T : y <= Max(T)
<1> DEFINE Bounds == {u \in Nat : \A y \in T : y <= u}
           Less == OpToRel(<, Nat)
<1>1. IsWellFoundedOn(Less, Nat)
  BY NatLessThanWellFounded
<1>2. \A a, b \in Nat : a < b => <<a, b>> \in Less
  BY DEF OpToRel
<1>3. m \in Bounds /\ Bounds \subseteq Nat /\ Bounds # {}
  OBVIOUS
<1> HIDE DEF Less
<1>4. PICK u \in Bounds : \A v \in Bounds : <<v, u>> \notin Less
  <2> HIDE DEF Bounds
  <2> QED BY <1>1, <1>3, WFMin, Zenon
<1>5. u \in T
  <2> SUFFICES ASSUME u \notin T PROVE FALSE
    OBVIOUS
  <2>1. \A y \in T : y <= u - 1
    BY <1>4
  <2>2. PICK y \in T : y \in Nat
    OBVIOUS
  <2>3. u - 1 \in Bounds /\ u - 1 < u
    BY <1>4, <2>1, <2>2
  <2> QED BY <1>2, <1>4, <2>3
<1>6. \E x \in T : \A y \in T : x >= y
  BY <1>4, <1>5
<1>7. Max(T) \in T /\ \A y \in T : Max(T) >= y
  BY <1>6, Zenon DEF Max
<1> QED BY <1>7

(* chuyenSuat serves the longest prefix of the queue that fits.            *)
LEMMA ServedIsLongest ==
    ASSUME hang \in Seq(Jobs), NoneTwice(hang), NEW left \in 0 .. Budget
    PROVE  /\ Served(left) \in 0 .. Len(hang)
           /\ RowsAfter(left, Served(left)) <= Budget
           /\ Served(left) < Len(hang) => RowsAfter(left, Served(left) + 1) > Budget
<1> DEFINE T == {0} \cup {n \in 1 .. Len(hang) : RowsAfter(left, n) <= Budget}
<1>1. Len(hang) \in Nat /\ Budget \in Nat
  BY ExportAssumption, LenProperties
<1>2. \A n \in 0 .. Len(hang) : RowsAfter(left, n) \in Nat
  <2> TAKE n \in 0 .. Len(hang)
  <2>1. First(n) \in SUBSET Jobs
    <3>1. First(n) = {hang[i] : i \in 1 .. n}
      BY FirstLeave DEF First
    <3>2. \A i \in 1 .. n : hang[i] \in Jobs
      BY <1>1, ElementOfSeq
    <3> QED BY <3>1, <3>2
  <2>2. RowCount(First(n)) \in Nat
    BY <2>1, RowCountType
  <2> QED BY <1>1, <2>2 DEF RowsAfter
<1>3. RowsAfter(left, 0) = left
  <2>1. First(0) = {hang[i] : i \in 1 .. 0}
    BY <1>1, FirstLeave DEF First
  <2>2. First(0) = {}
    <3>1. 1 .. 0 = {}
      OBVIOUS
    <3> QED BY <2>1, <3>1
  <2> QED BY <1>1, <2>2, RowCountNone DEF RowsAfter
<1>4. Served(left) \in T /\ \A n \in T : n <= Served(left)
  <2>1. T \in SUBSET Nat /\ T # {} /\ \A y \in T : y <= Len(hang)
    BY <1>1
  <2> HIDE DEF T
  <2>2. Max(T) \in T /\ \A y \in T : y <= Max(T)
    BY <1>1, <2>1, MaxOfBounded
  <2> QED BY <2>2 DEF Served, T
<1> HIDE DEF Served
<1>5. Served(left) \in 0 .. Len(hang) /\ RowsAfter(left, Served(left)) <= Budget
  BY <1>1, <1>3, <1>4
<1>6. ASSUME Served(left) < Len(hang) PROVE RowsAfter(left, Served(left) + 1) > Budget
  <2>1. Served(left) + 1 \in 1 .. Len(hang) /\ Served(left) + 1 \notin T
    <3> HIDE DEF T
    <3> QED BY <1>1, <1>4, <1>5, <1>6
  <2> QED BY <1>1, <1>2, <2>1
<1> QED BY <1>5, <1>6

-----------------------------------------------------------------------------
(***************************************************************************)
(* The inductive invariant.  Each gate speaks of four things: its counter, *)
(* its queue, who is inside and who waits (the last two by pc).            *)
(***************************************************************************)
WaitForSlot == {j \in Jobs : pc[j] = "waitSlot"}
WaitForRows == {j \in Jobs : pc[j] = "waitRows"}
OnChain     == {j \in Jobs : pc[j] \in {"chained", "inline"}}
Places      == Ended \cup InFlight

Shape ==
    /\ pc \in [Jobs -> Places]
    /\ gone \in [Jobs -> BOOLEAN]
    /\ active \in Int /\ dangBay \in Int /\ pending \in Int
    /\ waiters \in Seq(Jobs) /\ hang \in Seq(Jobs) /\ chain \in Seq(Jobs)

SlotInv ==
    /\ active = Cardinality(SlotHolders) /\ active <= MaxActive
    /\ Len(waiters) <= MaxPending /\ NoneTwice(waiters)
    /\ WaitForSlot = ToSet(waiters)
    /\ waiters # <<>> => active = MaxActive

RowInv ==
    /\ dangBay = RowCount(RowHolders) /\ dangBay <= Budget
    /\ Len(hang) <= MaxPending /\ NoneTwice(hang)
    /\ WaitForRows = ToSet(hang)
    /\ hang # <<>> => RowHolders # {}

ChainInv ==
    /\ pending = Len(chain) /\ pending <= MaxInline /\ NoneTwice(chain)
    /\ OnChain = ToSet(chain)
    /\ \A j \in Jobs : pc[j] = "inline" => j = Head(chain)

\* An abort takes a job out of its queue at once.
GoneNotWaiting == \A j \in Jobs : gone[j] => pc[j] \notin {"waitSlot", "waitRows"}

Inv == Shape /\ SlotInv /\ RowInv /\ ChainInv /\ GoneNotWaiting

(***************************************************************************)
(* What a step does to the slot gate: one of these, for one job.           *)
(***************************************************************************)
SlotKept ==
    /\ UNCHANGED <<active, waiters>>
    /\ SlotHolders' = SlotHolders /\ WaitForSlot' = WaitForSlot

SlotTaken(j) ==
    /\ j \notin SlotHolders \cup WaitForSlot
    /\ SlotFree
    /\ active' = active + 1 /\ waiters' = waiters
    /\ SlotHolders' = SlotHolders \cup {j} /\ WaitForSlot' = WaitForSlot

SlotAwaited(j) ==
    /\ j \notin SlotHolders \cup WaitForSlot
    /\ ~SlotFree /\ Len(waiters) < MaxPending
    /\ active' = active /\ waiters' = Append(waiters, j)
    /\ SlotHolders' = SlotHolders /\ WaitForSlot' = WaitForSlot \cup {j}

SlotRenounced(j) ==
    /\ \E k \in 1 .. Len(waiters) : waiters[k] = j /\ waiters' = RemoveAt(waiters, k)
    /\ active' = active
    /\ SlotHolders' = SlotHolders /\ WaitForSlot' = WaitForSlot \ {j}

SlotReturned(j) ==
    /\ j \in SlotHolders
    /\ ReleaseSlot
    /\ SlotHolders' = (SlotHolders \ {j}) \cup GetsSlot
    /\ WaitForSlot' = WaitForSlot \ GetsSlot

SlotEffect ==
    \/ SlotKept
    \/ \E j \in Jobs : SlotTaken(j) \/ SlotAwaited(j) \/ SlotRenounced(j) \/ SlotReturned(j)

(***************************************************************************)
(* And to the budget.                                                      *)
(***************************************************************************)
RowsKept ==
    /\ UNCHANGED <<dangBay, hang>>
    /\ RowHolders' = RowHolders /\ WaitForRows' = WaitForRows

RowsTaken(j) ==
    /\ j \notin RowHolders \cup WaitForRows
    /\ RowsFree(j)
    /\ dangBay' = dangBay + Can(j) /\ hang' = hang
    /\ RowHolders' = RowHolders \cup {j} /\ WaitForRows' = WaitForRows

RowsAwaited(j) ==
    /\ j \notin RowHolders \cup WaitForRows
    /\ ~RowsFree(j) /\ Len(hang) < MaxPending
    /\ dangBay' = dangBay /\ hang' = Append(hang, j)
    /\ RowHolders' = RowHolders /\ WaitForRows' = WaitForRows \cup {j}

RowsRenounced(j) ==
    /\ \E k \in 1 .. Len(hang) : hang[k] = j /\ hang' = RemoveAt(hang, k)
    /\ dangBay' = dangBay
    /\ RowHolders' = RowHolders /\ WaitForRows' = WaitForRows \ {j}

\* The n heads of the queue take over: as many as fit.
RowsHandedOver(j, n) ==
    /\ RowCount((RowHolders \ {j}) \cup First(n)) <= Budget
    /\ n < Len(hang) => RowCount((RowHolders \ {j}) \cup First(n + 1)) > Budget
    /\ dangBay' = RowCount((RowHolders \ {j}) \cup First(n))
    /\ hang' = SubSeq(hang, n + 1, Len(hang))
    /\ RowHolders' = (RowHolders \ {j}) \cup First(n)
    /\ WaitForRows' = WaitForRows \ First(n)

RowsReturned(j) ==
    /\ j \in RowHolders
    /\ \E n \in 0 .. Len(hang) : RowsHandedOver(j, n)

RowEffect ==
    \/ RowsKept
    \/ \E j \in Jobs : RowsTaken(j) \/ RowsAwaited(j) \/ RowsRenounced(j) \/ RowsReturned(j)

-----------------------------------------------------------------------------
(***************************************************************************)
(* The effects preserve each part of the invariant.                        *)
(***************************************************************************)
LEMMA Finite ==
    ASSUME Shape
    PROVE  /\ IsFiniteSet(SlotHolders) /\ Cardinality(SlotHolders) \in Nat
           /\ SlotHolders \in SUBSET Jobs /\ RowHolders \in SUBSET Jobs
<1>1. SlotHolders \in SUBSET Jobs /\ RowHolders \in SUBSET Jobs
  BY DEF SlotHolders, RowHolders
<1>2. IsFiniteSet(SlotHolders)
  BY <1>1, ExportAssumption, FS_Subset
<1> QED BY <1>1, <1>2, FS_CardinalityType

LEMMA SlotInvKept ==
    ASSUME Shape, SlotInv, SlotEffect PROVE SlotInv' /\ waiters' \in Seq(Jobs)
<1> USE DEF SlotInv
<1>1. MaxActive \in Nat /\ MaxPending \in Nat /\ waiters \in Seq(Jobs) /\ Len(waiters) \in Nat
  BY ExportAssumption, LenProperties DEF Shape
<1>2. CASE SlotKept
  BY <1>1, <1>2 DEF SlotKept, NoneTwice
<1>3. ASSUME NEW j \in Jobs, SlotTaken(j) PROVE SlotInv' /\ waiters' \in Seq(Jobs)
  <2>1. Cardinality(SlotHolders \cup {j}) = Cardinality(SlotHolders) + 1
    BY <1>3, Finite, FS_AddElement DEF SlotTaken
  <2> QED BY <1>1, <1>3, <2>1, Finite DEF SlotTaken, SlotFree, NoneTwice
<1>4. ASSUME NEW j \in Jobs, SlotAwaited(j) PROVE SlotInv' /\ waiters' \in Seq(Jobs)
  <2>1. j \notin ToSet(waiters)
    BY <1>4 DEF SlotAwaited
  <2>2. /\ waiters' \in Seq(Jobs) /\ Len(waiters') = Len(waiters) + 1
        /\ NoneTwice(waiters') /\ ToSet(waiters') = ToSet(waiters) \cup {j}
    BY <1>1, <1>4, <2>1, Joined DEF SlotAwaited
  <2>3. active' = MaxActive
    BY <1>1, <1>4, Finite DEF SlotAwaited, SlotFree
  <2> QED BY <1>1, <1>4, <2>2, <2>3, Finite DEF SlotAwaited, NoneTwice
<1>5. ASSUME NEW j \in Jobs, SlotRenounced(j) PROVE SlotInv' /\ waiters' \in Seq(Jobs)
  <2>1. PICK k \in 1 .. Len(waiters) : waiters[k] = j /\ waiters' = RemoveAt(waiters, k)
    BY <1>5 DEF SlotRenounced
  <2>2. /\ waiters' \in Seq(Jobs) /\ Len(waiters') = Len(waiters) - 1
        /\ NoneTwice(waiters') /\ ToSet(waiters') = ToSet(waiters) \ {j}
    BY <1>1, <2>1, OneLeaves
  <2>3. waiters # <<>>
    BY <1>1, <2>1
  <2> QED BY <1>1, <1>5, <2>2, <2>3, Finite DEF SlotRenounced, NoneTwice
<1>6. ASSUME NEW j \in Jobs, SlotReturned(j) PROVE SlotInv' /\ waiters' \in Seq(Jobs)
  <2>1. /\ IsFiniteSet(SlotHolders \ {j})
        /\ Cardinality(SlotHolders \ {j}) = Cardinality(SlotHolders) - 1
    BY <1>6, Finite, FS_RemoveElement DEF SlotReturned
  <2>2. CASE waiters = <<>>
    BY <1>1, <1>6, <2>1, <2>2, Finite DEF SlotReturned, ReleaseSlot, GetsSlot, NoneTwice
  <2>3. CASE waiters # <<>>
    <3>1. /\ waiters' = Tail(waiters) /\ active' = active
          /\ SlotHolders' = (SlotHolders \ {j}) \cup {Head(waiters)}
          /\ WaitForSlot' = WaitForSlot \ {Head(waiters)}
      BY <1>6, <2>3 DEF SlotReturned, ReleaseSlot, GetsSlot
    <3>2. /\ Head(waiters) \in ToSet(waiters) /\ waiters' \in Seq(Jobs)
          /\ Len(waiters') = Len(waiters) - 1 /\ NoneTwice(waiters')
          /\ ToSet(waiters') = ToSet(waiters) \ {Head(waiters)}
      BY <1>1, <2>3, <3>1, HeadLeaves
    <3>3. Head(waiters) \notin SlotHolders
      BY <3>2 DEF WaitForSlot, SlotHolders, HoldsSlot
    <3>4. Cardinality((SlotHolders \ {j}) \cup {Head(waiters)}) = Cardinality(SlotHolders)
      <4>1. Cardinality((SlotHolders \ {j}) \cup {Head(waiters)})
              = Cardinality(SlotHolders \ {j}) + 1
        <5>1. Head(waiters) \notin SlotHolders \ {j}
          BY <3>3
        <5> QED BY <2>1, <5>1, FS_AddElement
      <4> QED BY <2>1, <4>1, Finite
    <3> QED BY <1>1, <2>3, <3>1, <3>2, <3>4, Finite
  <2> QED BY <2>2, <2>3
<1> QED BY <1>2, <1>3, <1>4, <1>5, <1>6 DEF SlotEffect

LEMMA RowInvKept ==
    ASSUME Shape, RowInv, RowEffect PROVE RowInv' /\ hang' \in Seq(Jobs)
<1> USE DEF RowInv
<1>1. /\ Budget \in Nat /\ MaxPending \in Nat
      /\ hang \in Seq(Jobs) /\ Len(hang) \in Nat
      /\ RowHolders \in SUBSET Jobs /\ RowCount(RowHolders) \in Nat
  BY ExportAssumption, LenProperties, Finite, RowCountType DEF Shape
<1>2. CASE RowsKept
  <2>1. RowCount(RowHolders') = RowCount(RowHolders)
    BY <1>2 DEF RowsKept
  <2> QED BY <1>1, <1>2, <2>1 DEF RowsKept, NoneTwice, RowCount, RowsOf, Can
<1>3. ASSUME NEW j \in Jobs, RowsTaken(j) PROVE RowInv' /\ hang' \in Seq(Jobs)
  <2>1. RowCount(RowHolders \cup {j}) = RowCount(RowHolders) + Can(j)
    BY <1>1, <1>3, RowCountWith DEF RowsTaken
  <2>2. dangBay' = RowCount(RowHolders)' /\ dangBay' <= Budget
    BY <1>3, <2>1 DEF RowsTaken, RowsFree, RowCount, RowsOf, Can
  <2>3. hang' = hang /\ WaitForRows' = WaitForRows /\ RowHolders' # {}
    BY <1>3 DEF RowsTaken
  <2> QED BY <1>1, <2>2, <2>3 DEF NoneTwice
<1>4. ASSUME NEW j \in Jobs, RowsAwaited(j) PROVE RowInv' /\ hang' \in Seq(Jobs)
  <2>1. j \notin ToSet(hang)
    BY <1>4 DEF RowsAwaited
  <2>2. /\ hang' \in Seq(Jobs) /\ Len(hang') = Len(hang) + 1
        /\ NoneTwice(hang') /\ ToSet(hang') = ToSet(hang) \cup {j}
    BY <1>1, <1>4, <2>1, Joined DEF RowsAwaited
  <2>3. RowHolders # {}
    <3>1. CASE hang = <<>>
      <4>1. dangBay + Can(j) > Budget /\ Can(j) \in 1 .. Budget
        BY <1>1, <1>4, <3>1, CanBounds DEF RowsAwaited, RowsFree
      <4>2. RowCount(RowHolders) # 0
        BY <1>1, <4>1
      <4> QED BY <4>2, RowCountNone
    <3> QED BY <3>1
  <2>4. /\ RowHolders' = RowHolders /\ dangBay' = dangBay
        /\ WaitForRows' = WaitForRows \cup {j} /\ Len(hang) < MaxPending
    BY <1>4 DEF RowsAwaited
  <2>5. dangBay' = RowCount(RowHolders)'
    BY <2>4 DEF RowCount, RowsOf, Can
  <2> QED BY <1>1, <2>2, <2>3, <2>4, <2>5
<1>5. ASSUME NEW j \in Jobs, RowsRenounced(j) PROVE RowInv' /\ hang' \in Seq(Jobs)
  <2>1. PICK k \in 1 .. Len(hang) : hang[k] = j /\ hang' = RemoveAt(hang, k)
    BY <1>5 DEF RowsRenounced
  <2>2. /\ hang' \in Seq(Jobs) /\ Len(hang') = Len(hang) - 1
        /\ NoneTwice(hang') /\ ToSet(hang') = ToSet(hang) \ {j}
    BY <1>1, <2>1, OneLeaves
  <2>3. hang # <<>>
    BY <1>1, <2>1
  <2>4. RowHolders' = RowHolders /\ dangBay' = dangBay /\ WaitForRows' = WaitForRows \ {j}
    BY <1>5 DEF RowsRenounced
  <2>5. dangBay' = RowCount(RowHolders)'
    BY <2>4 DEF RowCount, RowsOf, Can
  <2> QED BY <1>1, <2>2, <2>3, <2>4, <2>5
<1>6. ASSUME NEW j \in Jobs, RowsReturned(j) PROVE RowInv' /\ hang' \in Seq(Jobs)
  <2>1. PICK n \in 0 .. Len(hang) : RowsHandedOver(j, n)
    BY <1>6 DEF RowsReturned
  <2>2. /\ hang' \in Seq(Jobs) /\ Len(hang') = Len(hang) - n
        /\ NoneTwice(hang') /\ ToSet(hang') = ToSet(hang) \ First(n)
        /\ First(n) = {hang[i] : i \in 1 .. n}
    BY <1>1, <2>1, FirstLeave DEF RowsHandedOver, First
  <2>3. /\ RowHolders' = (RowHolders \ {j}) \cup First(n)
        /\ dangBay' <= Budget
        /\ WaitForRows' = WaitForRows \ First(n)
    BY <2>1 DEF RowsHandedOver
  <2>4. dangBay' = RowCount(RowHolders)'
    BY <2>1 DEF RowsHandedOver, RowCount, RowsOf, Can
  <2>5. ASSUME hang' # <<>> PROVE RowHolders' # {}
    <3>1. CASE n = 0
      <4>1. 0 < Len(hang)
        <5>1. Len(hang') # 0
          BY <2>2, <2>5, EmptySeq
        <5> QED BY <1>1, <2>2, <3>1, <5>1
      <4>2. RowCount((RowHolders \ {j}) \cup First(1)) > Budget
        BY <2>1, <3>1, <4>1 DEF RowsHandedOver
      <4>3. First(1) = {hang[1]} /\ hang[1] \in Jobs
        <5>1. First(1) = {hang[i] : i \in 1 .. 1}
          BY <1>1, <4>1, FirstLeave DEF First
        <5>2. 1 .. 1 = {1} /\ 1 \in 1 .. Len(hang)
          BY <1>1, <4>1
        <5> QED BY <1>1, <5>1, <5>2, ElementOfSeq
      <4>4. CASE RowHolders \ {j} = {}
        <5>1. RowCount({hang[1]}) > Budget
          BY <4>2, <4>3, <4>4
        <5> QED BY <1>1, <4>3, <5>1, RowCountOne, CanBounds
      <4> QED BY <2>3, <4>4
    <3>2. CASE n # 0
      <4>1. hang[1] \in First(n)
        BY <1>1, <2>2, <3>2
      <4> QED BY <2>3, <4>1
    <3> QED BY <3>1, <3>2
  <2>6. Len(hang') <= MaxPending
    BY <1>1, <2>2
  <2>7. WaitForRows' = ToSet(hang')
    BY <2>2, <2>3
  <2> QED BY <2>2, <2>3, <2>4, <2>5, <2>6, <2>7
<1> QED BY <1>2, <1>3, <1>4, <1>5, <1>6 DEF RowEffect

-----------------------------------------------------------------------------
(***************************************************************************)
(* Each action has one of the effects on either gate.                      *)
(***************************************************************************)

\* Apart from j, a step can only wake jobs that wait.
OthersWoken(j) ==
    \A i \in Jobs \ {j} :
        \/ pc'[i] = pc[i]
        \/ pc[i] = "waitSlot" /\ pc'[i] = "slot"
        \/ pc[i] = "waitRows" /\ pc'[i] = "rows"

\* What tra() computes from its own counter is what the others hold: the
\* clamp at 0 gives a job larger than the budget back all it was charged.
LEMMA LeftIsOthers ==
    ASSUME Shape, RowInv, NEW j \in RowHolders
    PROVE  /\ RowsLeft(j) = RowCount(RowHolders \ {j})
           /\ RowsLeft(j) \in 0 .. Budget
<1>1. /\ Budget \in Nat /\ j \in Jobs /\ Rows[j] \in Nat
      /\ RowHolders \in SUBSET Jobs /\ RowCount(RowHolders) \in Nat
      /\ RowCount(RowHolders \ {j}) \in Nat
  BY ExportAssumption, Finite, RowCountType DEF RowHolders
<1>2. RowCount(RowHolders \ {j}) = dangBay - Can(j) /\ dangBay <= Budget
  BY <1>1, RowCountWith DEF RowInv
<1>3. dangBay \in Nat
  BY <1>1 DEF RowInv
<1>4. CASE Rows[j] <= Budget
  <2>1. Can(j) = Rows[j]
    BY <1>4 DEF Can
  <2> QED BY <1>1, <1>2, <1>3, <2>1 DEF RowsLeft
<1>5. CASE ~ (Rows[j] <= Budget)
  <2>1. Can(j) = Budget
    BY <1>5 DEF Can
  <2> QED BY <1>1, <1>2, <1>3, <1>5, <2>1 DEF RowsLeft
<1> QED BY <1>4, <1>5

LEMMA FirstWait ==
    ASSUME Shape, RowInv, NEW n \in 0 .. Len(hang)
    PROVE  First(n) \subseteq WaitForRows
<1>1. Len(hang) \in Nat /\ hang \in Seq(Jobs) /\ NoneTwice(hang)
  BY LenProperties DEF Shape, RowInv
<1>2. First(n) = {hang[i] : i \in 1 .. n} /\ ToSet(hang) = {hang[i] : i \in 1 .. Len(hang)}
  BY <1>1, FirstLeave, QueueSet DEF First
<1> QED BY <1>1, <1>2 DEF RowInv

LEMMA HandedOver ==
    ASSUME Shape, RowInv, NEW j \in RowHolders, ReturnRows(j),
           RowHolders' = (RowHolders \ {j}) \cup GetsRows(j),
           WaitForRows' = WaitForRows \ GetsRows(j)
    PROVE  RowsReturned(j)
<1> DEFINE left == RowsLeft(j)
           n == Served(left)
           Rest == RowHolders \ {j}
<1>1. left = RowCount(Rest) /\ left \in 0 .. Budget
  BY LeftIsOthers
<1>2. Len(hang) \in Nat /\ hang \in Seq(Jobs) /\ NoneTwice(hang)
  BY LenProperties DEF Shape, RowInv
<1>3. /\ n \in 0 .. Len(hang) /\ RowsAfter(left, n) <= Budget
      /\ n < Len(hang) => RowsAfter(left, n + 1) > Budget
  <2> HIDE DEF left
  <2> QED BY <1>1, <1>2, ServedIsLongest
<1>4. /\ dangBay' = RowsAfter(left, n)
      /\ hang' = SubSeq(hang, n + 1, Len(hang))
      /\ GetsRows(j) = First(n)
  BY DEF ReturnRows, GetsRows
<1> HIDE DEF n, left
<1>5. ASSUME NEW m \in 0 .. Len(hang) PROVE RowsAfter(left, m) = RowCount(Rest \cup First(m))
  <2>1. First(m) \in SUBSET Jobs /\ Rest \in SUBSET Jobs /\ Rest \cap First(m) = {}
    BY FirstWait DEF WaitForRows, RowHolders, HoldsRows
  <2> QED BY <1>1, <2>1, RowCountAdds DEF RowsAfter
<1>6. RowsHandedOver(j, n)
  <2>1. n < Len(hang) => n + 1 \in 0 .. Len(hang)
    BY <1>2, <1>3
  <2> QED BY <1>3, <1>4, <1>5, <2>1 DEF RowsHandedOver
<1> QED BY <1>3, <1>6 DEF RowsReturned

LEMMA LeaveGatesEffect ==
    ASSUME Inv, NEW j \in Jobs, pc[j] \in HoldsRows,
           NEW next \in {"file", "error", "chained"}, LeaveGates(j, next)
    PROVE  /\ SlotReturned(j) /\ RowsReturned(j)
           /\ pc' \in [Jobs -> Places] /\ pc'[j] = next /\ OthersWoken(j)
<1>1. Shape /\ SlotInv /\ RowInv /\ waiters \in Seq(Jobs)
  BY DEF Inv, Shape
<1>2. GetsSlot \subseteq WaitForSlot
  BY <1>1, HeadLeaves DEF GetsSlot, SlotInv
<1>3. j \in RowHolders /\ j \in SlotHolders
  BY DEF RowHolders, SlotHolders, HoldsRows, HoldsSlot
<1>4. GetsRows(j) \subseteq WaitForRows
  <2>1. Served(RowsLeft(j)) \in 0 .. Len(hang)
    BY <1>1, <1>3, LeftIsOthers, ServedIsLongest DEF Shape, RowInv
  <2> QED BY <1>1, <2>1, FirstWait DEF GetsRows
<1>5. \A i \in Jobs : i \in GetsSlot => pc[i] = "waitSlot" /\ i # j
  BY <1>2 DEF WaitForSlot, HoldsRows
<1>6. \A i \in Jobs : i \in GetsRows(j) => pc[i] = "waitRows" /\ i # j
  BY <1>4 DEF WaitForRows, HoldsRows
<1>7. \A i \in Jobs : pc'[i] = IF i = j THEN next
                              ELSE IF i \in GetsSlot THEN "slot"
                              ELSE IF i \in GetsRows(j) THEN "rows" ELSE pc[i]
  BY DEF LeaveGates, MoveOn
<1>8. GetsSlot \subseteq Jobs /\ GetsRows(j) \subseteq Jobs
  BY <1>2, <1>4 DEF WaitForSlot, WaitForRows
<1>9. \A i \in Jobs : pc[i] \in Places
  BY <1>1 DEF Shape
<1>10. pc' \in [Jobs -> Places]
  <2>1. \A i \in Jobs : pc'[i] \in Places
    BY <1>7, <1>9 DEF Places, Ended, InFlight, HoldsSlot
  <2>2. pc' = [i \in Jobs |-> pc'[i]]
    BY DEF LeaveGates, MoveOn
  <2> QED BY <2>1, <2>2
<1>11. pc'[j] = next /\ OthersWoken(j)
  BY <1>5, <1>6, <1>7 DEF OthersWoken
<1>12. /\ SlotHolders' = (SlotHolders \ {j}) \cup GetsSlot
       /\ WaitForSlot' = WaitForSlot \ GetsSlot
  BY <1>5, <1>6, <1>7, <1>8 DEF SlotHolders, WaitForSlot, HoldsSlot, HoldsRows
<1>13. /\ RowHolders' = (RowHolders \ {j}) \cup GetsRows(j)
       /\ WaitForRows' = WaitForRows \ GetsRows(j)
  BY <1>5, <1>6, <1>7, <1>8 DEF RowHolders, WaitForRows, HoldsRows
<1>14. ReleaseSlot /\ ReturnRows(j)
  BY DEF LeaveGates
<1> QED BY <1>1, <1>3, <1>10, <1>11, <1>12, <1>13, <1>14, HandedOver DEF SlotReturned

\* The rest of the invariant, after a step.
Effect ==
    /\ SlotEffect /\ RowEffect
    /\ pc' \in [Jobs -> Places] /\ gone' \in [Jobs -> BOOLEAN]
    /\ pending' \in Int /\ chain' \in Seq(Jobs)
    /\ ChainInv' /\ GoneNotWaiting'

LEMMA ChainUntouched ==
    ASSUME Inv, UNCHANGED <<chain, pending>>, OnChain' = OnChain,
           \A i \in Jobs : pc'[i] = "inline" => pc[i] = "inline"
    PROVE  ChainInv' /\ pending' \in Int /\ chain' \in Seq(Jobs)
<1>1. /\ pending = Len(chain) /\ pending <= MaxInline /\ NoneTwice(chain)
      /\ OnChain = ToSet(chain) /\ pending \in Int /\ chain \in Seq(Jobs)
      /\ \A j \in Jobs : pc[j] = "inline" => j = Head(chain)
  BY DEF Inv, Shape, ChainInv
<1>2. chain' = chain /\ pending' = pending
  OBVIOUS
<1>3. NoneTwice(chain')
  BY <1>1, <1>2
<1>4. \A j \in Jobs : pc'[j] = "inline" => j = Head(chain')
  BY <1>1, <1>2
<1> QED BY <1>1, <1>2, <1>3, <1>4 DEF ChainInv

LEMMA ArriveEffect ==
    ASSUME Inv, NEW j \in Jobs, Arrive(j) PROVE Effect
<1>1. /\ pc[j] \in Ended /\ gone' = [gone EXCEPT ![j] = FALSE]
      /\ UNCHANGED <<dangBay, hang, chain, pending>>
  BY DEF Arrive, TakeSlot, RefuseSlot, JoinWaiters, Begin
<1>2. PICK at \in {"slot", "error", "waitSlot"} : pc' = [pc EXCEPT ![j] = at]
  BY DEF Arrive, TakeSlot, RefuseSlot, JoinWaiters
<1>3. pc \in [Jobs -> Places] /\ gone \in [Jobs -> BOOLEAN]
  BY DEF Inv, Shape
<1>4. pc' \in [Jobs -> Places] /\ gone' \in [Jobs -> BOOLEAN]
  BY <1>1, <1>2, <1>3 DEF Places, Ended, InFlight, HoldsSlot
<1>5. RowEffect
  BY <1>1, <1>2, <1>3 DEF RowEffect, RowsKept, RowHolders, WaitForRows, HoldsRows, Ended
<1>6. GoneNotWaiting'
  BY <1>1, <1>2, <1>3 DEF Inv, GoneNotWaiting
<1>7. ChainInv' /\ pending' \in Int /\ chain' \in Seq(Jobs)
  BY <1>1, <1>2, <1>3, ChainUntouched DEF OnChain, Ended
<1>8. SlotEffect
  <2>1. j \notin SlotHolders \cup WaitForSlot
    BY <1>1 DEF SlotHolders, WaitForSlot, HoldsSlot, Ended
  <2>2. CASE TakeSlot(j)
    <3>1. SlotHolders' = SlotHolders \cup {j} /\ WaitForSlot' = WaitForSlot
      BY <1>1, <1>3, <2>2 DEF TakeSlot, SlotHolders, WaitForSlot, HoldsSlot, Ended
    <3>2. SlotTaken(j)
      BY <2>1, <2>2, <3>1 DEF TakeSlot, SlotTaken
    <3> QED BY <3>2 DEF SlotEffect
  <2>3. CASE RefuseSlot(j)
    <3>1. SlotKept
      BY <1>1, <1>3, <2>3
         DEF RefuseSlot, SlotKept, SlotHolders, WaitForSlot, HoldsSlot, Ended
    <3> QED BY <3>1 DEF SlotEffect
  <2>4. CASE JoinWaiters(j)
    <3>1. SlotHolders' = SlotHolders /\ WaitForSlot' = WaitForSlot \cup {j}
      BY <1>1, <1>3, <2>4 DEF JoinWaiters, SlotHolders, WaitForSlot, HoldsSlot, Ended
    <3>2. SlotAwaited(j)
      BY <2>1, <2>4, <3>1 DEF JoinWaiters, SlotAwaited
    <3> QED BY <3>2 DEF SlotEffect
  <2> QED BY <2>2, <2>3, <2>4 DEF Arrive
<1> QED BY <1>4, <1>5, <1>6, <1>7, <1>8 DEF Effect

LEMMA AskRowsEffect ==
    ASSUME Inv, NEW j \in Jobs, AskRows(j) PROVE Effect
<1>1. pc[j] = "slot" /\ UNCHANGED <<gone, active, waiters, chain, pending>>
  BY DEF AskRows
<1>2. PICK at \in {"giveUp", "rows", "turnedAway", "waitRows"} :
         pc' = [pc EXCEPT ![j] = at] /\ (gone[j] => at = "giveUp")
  BY DEF AskRows
<1>3. pc \in [Jobs -> Places] /\ gone \in [Jobs -> BOOLEAN]
  BY DEF Inv, Shape
<1>4. pc' \in [Jobs -> Places] /\ gone' \in [Jobs -> BOOLEAN]
  BY <1>1, <1>2, <1>3 DEF Places, InFlight, HoldsSlot
<1>5. SlotEffect
  BY <1>1, <1>2, <1>3 DEF SlotEffect, SlotKept, SlotHolders, WaitForSlot, HoldsSlot
<1>6. GoneNotWaiting'
  BY <1>1, <1>2, <1>3 DEF Inv, GoneNotWaiting
<1>7. ChainInv' /\ pending' \in Int /\ chain' \in Seq(Jobs)
  BY <1>1, <1>2, <1>3, ChainUntouched DEF OnChain
<1>8. RowEffect
  <2>1. j \notin RowHolders \cup WaitForRows
    BY <1>1 DEF RowHolders, WaitForRows, HoldsRows
  <2>2. CASE pc' = [pc EXCEPT ![j] = "rows"] /\ dangBay' = dangBay + Can(j)
              /\ RowsFree(j) /\ hang' = hang
    <3>1. RowHolders' = RowHolders \cup {j} /\ WaitForRows' = WaitForRows
      BY <1>1, <1>3, <2>2 DEF RowHolders, WaitForRows, HoldsRows
    <3>2. RowsTaken(j)
      BY <2>1, <2>2, <3>1 DEF RowsTaken
    <3> QED BY <3>2 DEF RowEffect
  <2>3. CASE pc' = [pc EXCEPT ![j] = "waitRows"] /\ dangBay' = dangBay
              /\ ~RowsFree(j) /\ Len(hang) < MaxPending /\ hang' = Append(hang, j)
    <3>1. RowHolders' = RowHolders /\ WaitForRows' = WaitForRows \cup {j}
      BY <1>1, <1>3, <2>3 DEF RowHolders, WaitForRows, HoldsRows
    <3>2. RowsAwaited(j)
      BY <2>1, <2>3, <3>1 DEF RowsAwaited
    <3> QED BY <3>2 DEF RowEffect
  <2>4. CASE /\ \/ pc' = [pc EXCEPT ![j] = "giveUp"]
                \/ pc' = [pc EXCEPT ![j] = "turnedAway"]
             /\ UNCHANGED <<dangBay, hang>>
    <3>1. RowsKept
      BY <1>1, <1>3, <2>4 DEF RowsKept, RowHolders, WaitForRows, HoldsRows
    <3> QED BY <3>1 DEF RowEffect
  <2> QED BY <2>2, <2>3, <2>4 DEF AskRows
<1> QED BY <1>4, <1>5, <1>6, <1>7, <1>8 DEF Effect

LEMMA ReturnSlotEffect ==
    ASSUME Inv, NEW j \in Jobs, ReturnSlot(j) PROVE Effect /\ OthersWoken(j)
<1>1. /\ pc[j] \in {"giveUp", "turnedAway"} /\ ReleaseSlot
      /\ UNCHANGED <<gone, dangBay, hang, chain, pending>>
  BY DEF ReturnSlot
<1>2. GetsSlot \subseteq WaitForSlot
  BY HeadLeaves DEF Inv, Shape, GetsSlot, SlotInv
<1>3. \A i \in Jobs : pc'[i] = IF i = j THEN "error" ELSE IF i \in GetsSlot THEN "slot" ELSE pc[i]
  BY DEF ReturnSlot, MoveOn
<1>4. \A i \in Jobs : i \in GetsSlot => pc[i] = "waitSlot" /\ i # j
  BY <1>1, <1>2 DEF WaitForSlot
<1>5. pc \in [Jobs -> Places] /\ gone \in [Jobs -> BOOLEAN]
  BY DEF Inv, Shape
<1>6. pc' \in [Jobs -> Places] /\ gone' \in [Jobs -> BOOLEAN]
  <2>1. \A i \in Jobs : pc'[i] \in Places
    BY <1>3, <1>5 DEF Places, Ended, InFlight, HoldsSlot
  <2>2. pc' = [i \in Jobs |-> pc'[i]]
    BY DEF ReturnSlot, MoveOn
  <2> QED BY <1>1, <1>5, <2>1, <2>2
<1>7. SlotEffect
  <2>1. /\ SlotHolders' = (SlotHolders \ {j}) \cup GetsSlot
        /\ WaitForSlot' = WaitForSlot \ GetsSlot
        /\ j \in SlotHolders
    BY <1>1, <1>2, <1>3, <1>4 DEF SlotHolders, WaitForSlot, HoldsSlot
  <2> QED BY <1>1, <2>1 DEF SlotEffect, SlotReturned
<1>8. RowEffect
  BY <1>1, <1>3, <1>4 DEF RowEffect, RowsKept, RowHolders, WaitForRows, HoldsRows
<1>9. GoneNotWaiting'
  BY <1>1, <1>3 DEF Inv, GoneNotWaiting
<1>10. ChainInv' /\ pending' \in Int /\ chain' \in Seq(Jobs)
  BY <1>1, <1>3, <1>4, ChainUntouched DEF OnChain
<1>11. OthersWoken(j)
  BY <1>3, <1>4 DEF OthersWoken
<1> QED BY <1>6, <1>7, <1>8, <1>9, <1>10, <1>11 DEF Effect

\* A job that leaves both gates, whatever becomes of it.
LEMMA LeavingEffect ==
    ASSUME Inv, NEW j \in Jobs, pc[j] \in HoldsRows,
           NEW next \in {"file", "error", "chained"}, LeaveGates(j, next), gone' = gone
    PROVE  /\ SlotEffect /\ RowEffect /\ OthersWoken(j) /\ pc'[j] = next
           /\ pc' \in [Jobs -> Places] /\ gone' \in [Jobs -> BOOLEAN] /\ GoneNotWaiting'
<1>1. /\ SlotReturned(j) /\ RowsReturned(j)
      /\ pc' \in [Jobs -> Places] /\ pc'[j] = next /\ OthersWoken(j)
  BY LeaveGatesEffect
<1>2. GoneNotWaiting'
  BY <1>1 DEF GoneNotWaiting, OthersWoken, Inv
<1>3. SlotEffect /\ RowEffect
  BY <1>1 DEF SlotEffect, RowEffect
<1>4. gone' \in [Jobs -> BOOLEAN]
  BY DEF Inv, Shape
<1> QED BY <1>1, <1>2, <1>3, <1>4

LEMMA LeavingChain ==
    ASSUME Inv, NEW j \in Jobs, pc[j] \in HoldsRows, OthersWoken(j),
           pc'[j] \in {"file", "error"}, UNCHANGED <<chain, pending>>
    PROVE  ChainInv' /\ pending' \in Int /\ chain' \in Seq(Jobs)
<1>1. OnChain' = OnChain
  BY DEF OnChain, OthersWoken, HoldsRows
<1>2. \A i \in Jobs : pc'[i] = "inline" => pc[i] = "inline"
  BY DEF OthersWoken
<1> QED BY <1>1, <1>2, ChainUntouched

LEMMA StartWorkerEffect ==
    ASSUME Inv, NEW j \in Jobs, StartWorker(j) PROVE Effect
<1>1. pc[j] = "rows" /\ pc[j] \in HoldsRows /\ UNCHANGED <<gone, chain, pending>>
  BY DEF StartWorker, HoldsRows
<1>2. CASE LeaveGates(j, "error")
  BY <1>1, <1>2, LeavingEffect, LeavingChain DEF Effect
<1>3. CASE pc' = [pc EXCEPT ![j] = "working"] /\ UNCHANGED gateVars
  <2>1. pc \in [Jobs -> Places] /\ gone \in [Jobs -> BOOLEAN]
    BY DEF Inv, Shape
  <2>2. pc' \in [Jobs -> Places] /\ gone' \in [Jobs -> BOOLEAN]
    BY <1>1, <1>3, <2>1 DEF Places, InFlight, HoldsSlot
  <2>3. SlotEffect
    BY <1>1, <1>3, <2>1 DEF SlotEffect, SlotKept, SlotHolders, WaitForSlot, HoldsSlot, gateVars
  <2>4. RowEffect
    BY <1>1, <1>3, <2>1 DEF RowEffect, RowsKept, RowHolders, WaitForRows, HoldsRows, gateVars
  <2>5. GoneNotWaiting'
    BY <1>1, <1>3, <2>1 DEF Inv, GoneNotWaiting
  <2>6. ChainInv' /\ pending' \in Int /\ chain' \in Seq(Jobs)
    BY <1>1, <1>3, <2>1, ChainUntouched DEF OnChain
  <2> QED BY <2>2, <2>3, <2>4, <2>5, <2>6 DEF Effect
<1> QED BY <1>2, <1>3 DEF StartWorker

LEMMA WorkerDeliversEffect ==
    ASSUME Inv, NEW j \in Jobs, WorkerDelivers(j) PROVE Effect
<1>1. pc[j] \in HoldsRows /\ LeaveGates(j, "file") /\ UNCHANGED <<gone, chain, pending>>
  BY DEF WorkerDelivers, HoldsRows
<1> QED BY <1>1, LeavingEffect, LeavingChain DEF Effect

LEMMA WorkerFailsEffect ==
    ASSUME Inv, NEW j \in Jobs, WorkerFails(j) PROVE Effect
<1>1. pc[j] = "working" /\ pc[j] \in HoldsRows /\ gone' = gone
  BY DEF WorkerFails, HoldsRows
<1>2. CASE LeaveGates(j, "error") /\ UNCHANGED inlineVars
  BY <1>1, <1>2, LeavingEffect, LeavingChain DEF Effect, inlineVars
<1>3. CASE /\ LeaveGates(j, "chained") /\ pending < MaxInline
           /\ chain' = Append(chain, j) /\ pending' = pending + 1
  <2>1. /\ SlotEffect /\ RowEffect /\ OthersWoken(j) /\ pc'[j] = "chained"
        /\ pc' \in [Jobs -> Places] /\ gone' \in [Jobs -> BOOLEAN] /\ GoneNotWaiting'
    BY <1>1, <1>3, LeavingEffect
  <2>2. /\ pending = Len(chain) /\ NoneTwice(chain) /\ OnChain = ToSet(chain)
        /\ pending \in Int /\ chain \in Seq(Jobs) /\ MaxInline \in Nat
        /\ \A i \in Jobs : pc[i] = "inline" => i = Head(chain)
    BY ExportAssumption DEF Inv, Shape, ChainInv
  <2>3. OnChain' = OnChain \cup {j} /\ j \notin OnChain
    BY <1>1, <2>1 DEF OnChain, OthersWoken
  <2>4. /\ chain' \in Seq(Jobs) /\ Len(chain') = Len(chain) + 1
        /\ NoneTwice(chain') /\ ToSet(chain') = ToSet(chain) \cup {j}
    BY <1>3, <2>2, <2>3, Joined
  <2>5. ASSUME NEW i \in Jobs, pc'[i] = "inline" PROVE i = Head(chain')
    <3>1. pc[i] = "inline"
      BY <2>1, <2>5 DEF OthersWoken
    <3>2. i \in OnChain
      BY <3>1 DEF OnChain
    <3>3. chain # <<>>
      BY <2>2, <3>2, QueueSet
    <3>4. Head(chain') = Head(chain)
      BY <1>3, <2>2, <3>3, HeadTailAppend
    <3> QED BY <2>2, <3>1, <3>4
  <2>6. ChainInv' /\ pending' \in Int
    BY <1>3, <2>2, <2>3, <2>4, <2>5 DEF ChainInv
  <2> QED BY <2>1, <2>4, <2>6 DEF Effect
<1> QED BY <1>2, <1>3 DEF WorkerFails

LEMMA GatesUntouched ==
    ASSUME Inv, UNCHANGED <<gone, active, waiters, dangBay, hang>>,
           NEW j \in Jobs, pc[j] \in {"chained", "inline"},
           NEW at \in {"inline", "file", "error"}, pc' = [pc EXCEPT ![j] = at]
    PROVE  /\ SlotEffect /\ RowEffect /\ GoneNotWaiting'
           /\ pc' \in [Jobs -> Places] /\ gone' \in [Jobs -> BOOLEAN]
<1>1. pc \in [Jobs -> Places] /\ gone \in [Jobs -> BOOLEAN]
  BY DEF Inv, Shape
<1>2. pc' \in [Jobs -> Places] /\ gone' \in [Jobs -> BOOLEAN]
  BY <1>1 DEF Places, InFlight, Ended
<1>3. SlotEffect
  BY <1>1 DEF SlotEffect, SlotKept, SlotHolders, WaitForSlot, HoldsSlot
<1>4. RowEffect
  BY <1>1 DEF RowEffect, RowsKept, RowHolders, WaitForRows, HoldsRows
<1>5. GoneNotWaiting'
  BY <1>1 DEF Inv, GoneNotWaiting
<1> QED BY <1>2, <1>3, <1>4, <1>5

LEMMA InlineEffect ==
    ASSUME Inv, NEW j \in Jobs, RunInline(j) \/ InlineEnds(j) PROVE Effect
<1>1. /\ pending = Len(chain) /\ NoneTwice(chain) /\ OnChain = ToSet(chain)
      /\ pending \in Int /\ pending <= MaxInline
      /\ chain \in Seq(Jobs) /\ MaxInline \in Nat
      /\ pc \in [Jobs -> Places]
      /\ \A i \in Jobs : pc[i] = "inline" => i = Head(chain)
  BY ExportAssumption DEF Inv, Shape, ChainInv
<1>2. CASE RunInline(j)
  <2>1. /\ pc[j] = "chained" /\ j = Head(chain) /\ pc' = [pc EXCEPT ![j] = "inline"]
        /\ UNCHANGED <<gone, active, waiters, dangBay, hang, chain, pending>>
    BY <1>2 DEF RunInline
  <2>2. /\ SlotEffect /\ RowEffect /\ GoneNotWaiting'
        /\ pc' \in [Jobs -> Places] /\ gone' \in [Jobs -> BOOLEAN]
    BY <2>1, GatesUntouched
  <2>3. OnChain' = OnChain
    BY <1>1, <2>1 DEF OnChain
  <2>4. \A i \in Jobs : pc'[i] = "inline" => i = Head(chain)
    BY <1>1, <2>1
  <2>5. NoneTwice(chain') /\ chain' = chain /\ pending' = pending
    BY <1>1, <2>1
  <2>6. ChainInv'
    BY <1>1, <2>3, <2>4, <2>5 DEF ChainInv
  <2> QED BY <1>1, <2>2, <2>5, <2>6 DEF Effect
<1>3. CASE InlineEnds(j)
  <2>1. /\ pc[j] = "inline" /\ UNCHANGED <<gone, active, waiters, dangBay, hang>>
        /\ chain' = Tail(chain) /\ pending' = pending - 1
    BY <1>3 DEF InlineEnds
  <2>2. PICK at \in {"inline", "file", "error"} : at # "inline" /\ pc' = [pc EXCEPT ![j] = at]
    BY <1>3 DEF InlineEnds
  <2>3. /\ SlotEffect /\ RowEffect /\ GoneNotWaiting'
        /\ pc' \in [Jobs -> Places] /\ gone' \in [Jobs -> BOOLEAN]
    BY <2>1, <2>2, GatesUntouched
  <2>4. OnChain' = OnChain \ {j} /\ j \in OnChain
    BY <1>1, <2>1, <2>2 DEF OnChain
  <2>5. chain # <<>> /\ j = Head(chain)
    BY <1>1, <2>1, <2>4, QueueSet
  <2>6. /\ chain' \in Seq(Jobs) /\ Len(chain') = Len(chain) - 1
        /\ NoneTwice(chain') /\ ToSet(chain') = ToSet(chain) \ {j}
    BY <1>1, <2>1, <2>5, HeadLeaves
  <2>7. \A i \in Jobs : pc'[i] # "inline"
    BY <1>1, <2>2, <2>5
  <2>8. ChainInv' /\ pending' \in Int
    BY <1>1, <2>1, <2>4, <2>6, <2>7 DEF ChainInv
  <2> QED BY <2>3, <2>6, <2>8 DEF Effect
<1> QED BY <1>2, <1>3

LEMMA AbortEffect ==
    ASSUME Inv, NEW j \in Jobs, Abort(j) PROVE Effect
<1>1. /\ waiters' = Splice(waiters, j) /\ hang' = Splice(hang, j)
      /\ gone' = [gone EXCEPT ![j] = TRUE]
      /\ UNCHANGED <<active, dangBay, chain, pending>>
  BY DEF Abort
<1>2. /\ pc \in [Jobs -> Places] /\ gone \in [Jobs -> BOOLEAN]
      /\ waiters \in Seq(Jobs) /\ hang \in Seq(Jobs)
      /\ NoneTwice(waiters) /\ NoneTwice(hang)
      /\ WaitForSlot = ToSet(waiters) /\ WaitForRows = ToSet(hang)
  BY DEF Inv, Shape, SlotInv, RowInv
<1>3. \E at \in Places :
         /\ pc' = [pc EXCEPT ![j] = at]
         /\ pc[j] = "waitSlot" => at = "error"
         /\ pc[j] = "waitRows" => at = "giveUp"
         /\ pc[j] \notin {"waitSlot", "waitRows"} => at = pc[j]
  <2>1. CASE pc[j] = "waitSlot"
    BY <2>1 DEF Abort, Places, Ended
  <2>2. CASE pc[j] = "waitRows"
    BY <2>2 DEF Abort, Places, InFlight, HoldsSlot
  <2>3. CASE pc[j] \notin {"waitSlot", "waitRows"}
    BY <1>2, <2>3 DEF Abort
  <2> QED BY <2>1, <2>2, <2>3
<1>4. PICK at \in Places :
         /\ pc' = [pc EXCEPT ![j] = at]
         /\ pc[j] = "waitSlot" => at = "error"
         /\ pc[j] = "waitRows" => at = "giveUp"
         /\ pc[j] \notin {"waitSlot", "waitRows"} => at = pc[j]
  BY <1>3
<1>5. pc' \in [Jobs -> Places] /\ gone' \in [Jobs -> BOOLEAN]
  BY <1>1, <1>2, <1>4
<1>6. SlotEffect
  <2>1. SlotHolders' = SlotHolders
    BY <1>2, <1>4 DEF SlotHolders, HoldsSlot
  <2>2. CASE pc[j] = "waitSlot"
    <3>1. j \in ToSet(waiters) /\ WaitForSlot' = WaitForSlot \ {j}
      BY <1>2, <1>4, <2>2 DEF WaitForSlot
    <3>2. SlotRenounced(j)
      BY <1>1, <1>2, <2>1, <3>1, SpliceLeaves DEF SlotRenounced
    <3> QED BY <3>2 DEF SlotEffect
  <2>3. CASE pc[j] # "waitSlot"
    <3>1. j \notin ToSet(waiters) /\ WaitForSlot' = WaitForSlot
      BY <1>2, <1>4, <2>3 DEF WaitForSlot
    <3>2. waiters' = waiters
      BY <1>1, <1>2, <3>1, SpliceLeaves
    <3> QED BY <1>1, <2>1, <3>1, <3>2 DEF SlotEffect, SlotKept
  <2> QED BY <2>2, <2>3
<1>7. RowEffect
  <2>1. RowHolders' = RowHolders
    BY <1>2, <1>4 DEF RowHolders, HoldsRows
  <2>2. CASE pc[j] = "waitRows"
    <3>1. j \in ToSet(hang) /\ WaitForRows' = WaitForRows \ {j}
      BY <1>2, <1>4, <2>2 DEF WaitForRows
    <3>2. RowsRenounced(j)
      BY <1>1, <1>2, <2>1, <3>1, SpliceLeaves DEF RowsRenounced
    <3> QED BY <3>2 DEF RowEffect
  <2>3. CASE pc[j] # "waitRows"
    <3>1. j \notin ToSet(hang) /\ WaitForRows' = WaitForRows
      BY <1>2, <1>4, <2>3 DEF WaitForRows
    <3>2. hang' = hang
      BY <1>1, <1>2, <3>1, SpliceLeaves
    <3> QED BY <1>1, <2>1, <3>1, <3>2 DEF RowEffect, RowsKept
  <2> QED BY <2>2, <2>3
<1>8. GoneNotWaiting'
  BY <1>1, <1>2, <1>4 DEF Inv, GoneNotWaiting
<1>9. ChainInv' /\ pending' \in Int /\ chain' \in Seq(Jobs)
  BY <1>1, <1>2, <1>4, ChainUntouched DEF OnChain
<1> QED BY <1>5, <1>6, <1>7, <1>8, <1>9 DEF Effect

-----------------------------------------------------------------------------
(***************************************************************************)
(* The invariant is inductive, and what follows from it.                   *)
(***************************************************************************)
LEMMA InitInv == Init => Inv
<1> SUFFICES ASSUME Init PROVE Inv
  OBVIOUS
<1>1. /\ MaxActive \in Nat /\ MaxPending \in Nat /\ MaxInline \in Nat /\ Budget \in Nat
      /\ <<>> \in Seq(Jobs) /\ Len(<<>>) = 0
  BY ExportAssumption, EmptySeq
<1>2. ToSet(<<>>) = {} /\ NoneTwice(<<>>)
  <2>1. \A q \in Seq(Jobs) : q = <<>> => ToSet(q) = {}
    BY QueueSet
  <2>2. 1 .. Len(<<>>) = {}
    BY <1>1
  <2>3. NoneTwice(<<>>)
    BY <2>2, Zenon DEF NoneTwice
  <2> QED BY <1>1, <2>1, <2>3
<1>3. /\ SlotHolders = {} /\ RowHolders = {} /\ WaitForSlot = {}
      /\ WaitForRows = {} /\ OnChain = {}
  BY DEF Init, SlotHolders, RowHolders, WaitForSlot, WaitForRows, OnChain, HoldsSlot, HoldsRows
<1>4. Cardinality({}) = 0
  BY FS_EmptySet
<1>5. Shape
  BY <1>1 DEF Init, Shape, Places, Ended
<1>6. SlotInv
  BY <1>1, <1>2, <1>3, <1>4 DEF Init, SlotInv
<1>7. RowInv
  BY <1>1, <1>2, <1>3, RowCountNone DEF Init, RowInv
<1>8. ChainInv
  BY <1>1, <1>2, <1>3 DEF Init, ChainInv
<1>9. GoneNotWaiting
  BY DEF Init, GoneNotWaiting
<1> QED BY <1>5, <1>6, <1>7, <1>8, <1>9 DEF Inv

LEMMA NextEffect == Inv /\ Next => Effect
<1> SUFFICES ASSUME Inv, NEW j \in Jobs, Arrive(j) \/ Step(j) \/ Abort(j) PROVE Effect
  BY DEF Next
<1>1. CASE Arrive(j)
  BY <1>1, ArriveEffect
<1>2. CASE Step(j)
  BY <1>2, AskRowsEffect, ReturnSlotEffect, StartWorkerEffect, WorkerDeliversEffect,
     WorkerFailsEffect, InlineEffect DEF Step
<1>3. CASE Abort(j)
  BY <1>3, AbortEffect
<1> QED BY <1>1, <1>2, <1>3

LEMMA InvNext == Inv /\ [Next]_vars => Inv'
<1> SUFFICES ASSUME Inv, [Next]_vars PROVE Inv'
  OBVIOUS
<1>1. CASE Next
  <2>1. Effect
    BY <1>1, NextEffect
  <2>2. SlotInv' /\ waiters' \in Seq(Jobs)
    BY <2>1, SlotInvKept DEF Effect, Inv
  <2>3. RowInv' /\ hang' \in Seq(Jobs)
    BY <2>1, RowInvKept DEF Effect, Inv
  <2>4. active' \in Int
    <3>1. SlotHolders' \in SUBSET Jobs
      BY DEF SlotHolders
    <3>2. IsFiniteSet(SlotHolders')
      BY <3>1, ExportAssumption, FS_Subset
    <3>3. Cardinality(SlotHolders') \in Nat
      BY <3>2, FS_CardinalityType
    <3> QED BY <2>2, <3>3 DEF SlotInv
  <2>5. dangBay' \in Int
    <3>1. RowHolders' \in SUBSET Jobs
      BY DEF RowHolders
    <3>2. RowCount(RowHolders') \in Nat
      BY <3>1, RowCountType
    <3>3. dangBay' = RowCount(RowHolders')
      BY <2>3 DEF RowInv, RowCount, RowsOf, Can
    <3> QED BY <3>2, <3>3
  <2>6. Shape'
    BY <2>1, <2>2, <2>3, <2>4, <2>5 DEF Effect, Shape
  <2> QED BY <2>1, <2>2, <2>3, <2>6 DEF Effect, Inv
<1>2. CASE UNCHANGED vars
  BY <1>2 DEF vars, Inv, Shape, SlotInv, RowInv, ChainInv, GoneNotWaiting, SlotHolders,
     RowHolders, WaitForSlot, WaitForRows, OnChain, RowCount, RowsOf, Can, NoneTwice
<1> QED BY <1>1, <1>2

LEMMA Invariant == Spec => []Inv
BY InitInv, InvNext, PTL DEF Spec

(* The variables have their types, and every limit of the configuration is *)
(* respected: slots, rows, both queues and the inline chain.               *)
THEOREM TypesCorrect == Spec => []TypeOK
<1>1. Inv => TypeOK
  <2> SUFFICES ASSUME Inv PROVE TypeOK
    OBVIOUS
  <2>1. /\ MaxActive \in Nat /\ MaxPending \in Nat /\ Budget \in Nat /\ MaxInline \in Nat
    BY ExportAssumption
  <2>2. active \in 0 .. MaxActive
    BY <2>1, Finite DEF Inv, SlotInv
  <2>3. dangBay \in 0 .. Budget
    BY <2>1, Finite, RowCountType DEF Inv, RowInv
  <2>4. pending \in 0 .. MaxInline
    BY <2>1, LenProperties DEF Inv, Shape, ChainInv
  <2> QED BY <2>2, <2>3, <2>4 DEF Inv, Shape, SlotInv, RowInv, TypeOK, Places
<1> QED BY <1>1, Invariant, PTL

(* No slot, no row and no place of the chain is lost or returned twice, on *)
(* whatever path a job leaves: the counters are the holders.               *)
THEOREM NothingLeaks == Spec => []CountersMatch
<1>1. Inv => CountersMatch
  BY DEF Inv, SlotInv, RowInv, ChainInv, CountersMatch
<1> QED BY <1>1, Invariant, PTL

(* No lost wake-up in either gate, and no deadlock between the two: who    *)
(* waits, waits for somebody who holds what is missing.                    *)
THEOREM NobodyStranded == Spec => []NoStrandedWaiter
<1>1. Inv => NoStrandedWaiter
  <2> SUFFICES ASSUME Inv PROVE NoStrandedWaiter
    OBVIOUS
  <2>1. \A j \in Jobs : /\ pc[j] = "waitSlot" <=> j \in ToSet(waiters)
                        /\ pc[j] = "waitRows" <=> j \in ToSet(hang)
    BY DEF Inv, SlotInv, RowInv, WaitForSlot, WaitForRows
  <2>2. /\ waiters # <<>> => active = MaxActive
        /\ hang # <<>> => RowHolders # {}
    BY DEF Inv, SlotInv, RowInv
  <2> QED BY <2>1, <2>2 DEF NoStrandedWaiter
<1> QED BY <1>1, Invariant, PTL

\* A job whose signal has fired stays where it is, or goes on its way out.
LEMMA GoneMoves ==
    ASSUME Inv, NEW j \in Jobs, Arrive(j) \/ Step(j) \/ Abort(j),
           NEW i \in Jobs, gone[i], gone'[i]
    PROVE  \/ pc'[i] = pc[i]
           \/ pc'[i] \in {"file", "error", "chained", "inline"}
           \/ pc[i] = "slot" /\ pc'[i] \in {"giveUp"}
<1>1. pc[i] \notin {"waitSlot", "waitRows"}
  BY DEF Inv, GoneNotWaiting
<1>2. pc \in [Jobs -> Places] /\ gone \in [Jobs -> BOOLEAN]
  BY DEF Inv, Shape
<1>3. CASE Arrive(j)
  BY <1>2, <1>3 DEF Arrive, TakeSlot, RefuseSlot, JoinWaiters, Begin
<1>4. CASE AskRows(j)
  BY <1>2, <1>4 DEF AskRows
<1>5. CASE ReturnSlot(j)
  <2>1. OthersWoken(j) /\ pc'[j] = "error"
    BY <1>5, ReturnSlotEffect DEF ReturnSlot, MoveOn
  <2> QED BY <1>1, <2>1 DEF OthersWoken
<1>6. ASSUME NEW next \in {"file", "error", "chained"}, LeaveGates(j, next), pc[j] \in HoldsRows
      PROVE  pc'[i] = pc[i] \/ pc'[i] \in {"file", "error", "chained"}
  <2>1. OthersWoken(j) /\ pc'[j] = next
    BY <1>6, LeaveGatesEffect
  <2> QED BY <1>1, <2>1 DEF OthersWoken
<1>7. CASE StartWorker(j)
  <2>1. CASE LeaveGates(j, "error")
    BY <1>6, <1>7, <2>1 DEF StartWorker, HoldsRows
  <2>2. CASE ~gone[j] /\ pc' = [pc EXCEPT ![j] = "working"]
    BY <1>2, <2>2
  <2> QED BY <1>7, <2>1, <2>2 DEF StartWorker
<1>8. CASE WorkerDelivers(j) \/ WorkerFails(j)
  BY <1>6, <1>8 DEF WorkerDelivers, WorkerFails, HoldsRows
<1>9. CASE RunInline(j) \/ InlineEnds(j)
  BY <1>2, <1>9 DEF RunInline, InlineEnds
<1>10. CASE Abort(j)
  BY <1>2, <1>10 DEF Abort
<1> QED BY <1>3, <1>4, <1>5, <1>7, <1>8, <1>9, <1>10 DEF Step

(* Nothing is handed to a job whose signal has fired: no slot, no rows and *)
(* no worker thread, although it is only told when it next reads it.       *)
THEOREM GoneGetNothing == Spec => NothingForTheGone
<1>1. Inv /\ [Next]_vars =>
        [\A j \in Jobs : gone[j] /\ gone'[j] =>
            /\ j \in SlotHolders' => j \in SlotHolders
            /\ j \in RowHolders' => j \in RowHolders
            /\ pc'[j] = "working" => pc[j] = "working"]_vars
  <2> SUFFICES ASSUME Inv, NEW k \in Jobs, Arrive(k) \/ Step(k) \/ Abort(k),
                      NEW j \in Jobs, gone[j], gone'[j]
               PROVE  /\ j \in SlotHolders' => j \in SlotHolders
                      /\ j \in RowHolders' => j \in RowHolders
                      /\ pc'[j] = "working" => pc[j] = "working"
    BY DEF Next
  <2>1. \/ pc'[j] = pc[j]
        \/ pc'[j] \in {"file", "error", "chained", "inline"}
        \/ pc[j] = "slot" /\ pc'[j] \in {"giveUp"}
    BY GoneMoves
  <2> QED BY <2>1 DEF SlotHolders, RowHolders, HoldsSlot, HoldsRows
<1> QED BY <1>1, Invariant, PTL DEF Spec, NothingForTheGone

\* Whoever finds no rows free has a predecessor that holds some, which holds a
\* slot as well; so do those who queue and the one who asks.
LEMMA RoomInQueue ==
    ASSUME Inv, MaxActive <= MaxPending + 1, NEW j \in Jobs, pc[j] = "slot", ~RowsFree(j)
    PROVE  Len(hang) < MaxPending
<1>1. /\ MaxActive \in Nat /\ MaxPending \in Nat /\ Budget \in Nat
      /\ hang \in Seq(Jobs) /\ Len(hang) \in Nat /\ NoneTwice(hang)
      /\ WaitForRows = ToSet(hang) /\ IsFiniteSet(Jobs)
      /\ dangBay = RowCount(RowHolders) /\ RowCount(RowHolders) \in Nat
      /\ hang # <<>> => RowHolders # {}
      /\ IsFiniteSet(SlotHolders) /\ Cardinality(SlotHolders) <= MaxActive
      /\ Cardinality(SlotHolders) \in Nat
  BY ExportAssumption, LenProperties, Finite, RowCountType DEF Inv, Shape, SlotInv, RowInv
<1>2. RowHolders # {}
  <2>1. CASE hang = <<>>
    <3>1. dangBay + Can(j) > Budget /\ Can(j) \in 1 .. Budget
      BY <1>1, <2>1, CanBounds DEF RowsFree
    <3>2. RowCount(RowHolders) # 0
      BY <1>1, <3>1
    <3> QED BY <3>2, RowCountNone
  <2> QED BY <1>1, <2>1
<1>3. PICK h \in RowHolders : TRUE
  BY <1>2
<1>4. /\ h \notin ToSet(hang) /\ j \notin ToSet(hang) \cup {h}
      /\ (ToSet(hang) \cup {h}) \cup {j} \in SUBSET SlotHolders
  BY <1>1, <1>3 DEF RowHolders, WaitForRows, SlotHolders, HoldsSlot, HoldsRows
<1>5. IsFiniteSet(ToSet(hang)) /\ Cardinality(ToSet(hang)) >= Len(hang)
      /\ Cardinality(ToSet(hang)) \in Nat
  BY <1>1, QueueSize, FS_CardinalityType
<1>6. /\ IsFiniteSet(ToSet(hang) \cup {h})
      /\ Cardinality(ToSet(hang) \cup {h}) = Cardinality(ToSet(hang)) + 1
  BY <1>4, <1>5, FS_AddElement
<1>7. Cardinality((ToSet(hang) \cup {h}) \cup {j}) = Cardinality(ToSet(hang) \cup {h}) + 1
  BY <1>4, <1>6, FS_AddElement
<1>8. Cardinality((ToSet(hang) \cup {h}) \cup {j}) <= Cardinality(SlotHolders)
  BY <1>1, <1>4, FS_Subset
<1> QED BY <1>1, <1>5, <1>6, <1>7, <1>8

(* With at most one slot more than the queue for rows has places, a job    *)
(* that was given a slot is never turned away by the second gate.          *)
THEOREM SecondGateNeverFull == Spec => []NeverTurnedAway
<1> DEFINE None == \A j \in Jobs : pc[j] # "turnedAway"
<1>1. CASE ~ (MaxActive <= MaxPending + 1)
  <2>1. NeverTurnedAway
    BY <1>1 DEF NeverTurnedAway
  <2> QED BY <2>1, PTL
<1>2. CASE MaxActive <= MaxPending + 1
  <2>1. Init => NeverTurnedAway
    BY DEF Init, NeverTurnedAway
  <2>2. Inv /\ NeverTurnedAway /\ [Next]_vars => NeverTurnedAway'
    <3> SUFFICES ASSUME Inv, None, [Next]_vars, NEW i \in Jobs PROVE pc'[i] # "turnedAway"
      BY <1>2 DEF NeverTurnedAway
    <3>1. CASE UNCHANGED vars
      BY <3>1 DEF vars
    <3>2. ASSUME NEW j \in Jobs, Arrive(j) \/ Step(j) \/ Abort(j)
          PROVE  pc'[i] # "turnedAway"
      <4>1. pc \in [Jobs -> Places]
        BY DEF Inv, Shape
      <4>2. CASE Arrive(j)
        BY <4>1, <4>2 DEF Arrive, TakeSlot, RefuseSlot, JoinWaiters
      <4>3. CASE AskRows(j)
        <5>1. pc[j] = "slot" /\ (~RowsFree(j) => Len(hang) < MaxPending)
          BY <1>2, <4>3, RoomInQueue DEF AskRows
        <5>2. Len(hang) \in Nat /\ MaxPending \in Nat
          BY ExportAssumption, LenProperties DEF Inv, Shape
        <5> QED BY <4>1, <4>3, <5>1, <5>2 DEF AskRows
      <4>4. CASE ReturnSlot(j)
        <5>1. OthersWoken(j) /\ pc'[j] = "error"
          BY <4>4, ReturnSlotEffect DEF ReturnSlot, MoveOn
        <5> QED BY <5>1 DEF OthersWoken
      <4>5. ASSUME NEW next \in {"file", "error", "chained"}, LeaveGates(j, next),
                   pc[j] \in HoldsRows
            PROVE  pc'[i] # "turnedAway"
        <5>1. OthersWoken(j) /\ pc'[j] = next
          BY <4>5, LeaveGatesEffect
        <5> QED BY <5>1 DEF OthersWoken
      <4>6. CASE StartWorker(j)
        <5>1. CASE LeaveGates(j, "error")
          BY <4>5, <4>6, <5>1 DEF StartWorker, HoldsRows
        <5>2. CASE pc' = [pc EXCEPT ![j] = "working"]
          BY <4>1, <5>2
        <5> QED BY <4>6, <5>1, <5>2 DEF StartWorker
      <4>7. CASE WorkerDelivers(j) \/ WorkerFails(j)
        BY <4>5, <4>7 DEF WorkerDelivers, WorkerFails, HoldsRows
      <4>8. CASE RunInline(j) \/ InlineEnds(j)
        BY <4>1, <4>8 DEF RunInline, InlineEnds
      <4>9. CASE Abort(j)
        BY <4>1, <4>9 DEF Abort
      <4> QED BY <3>2, <4>2, <4>3, <4>4, <4>6, <4>7, <4>8, <4>9 DEF Step
    <3> QED BY <3>1, <3>2 DEF Next
  <2> QED BY <2>1, <2>2, Invariant, PTL DEF Spec
<1> QED BY <1>1, <1>2

-----------------------------------------------------------------------------
(***************************************************************************)
(* Each gate is a FairGate.                                                *)
(***************************************************************************)
\* The operators that FairGate brings along are those used here.
LEMMA SameQueues ==
    /\ \A q : Slots!ToSet(q) = ToSet(q) /\ RowGate!ToSet(q) = ToSet(q)
    /\ \A q, k : Slots!RemoveAt(q, k) = RemoveAt(q, k) /\ RowGate!RemoveAt(q, k) = RemoveAt(q, k)
BY DEF Slots!ToSet, RowGate!ToSet, ToSet, Slots!RemoveAt, RowGate!RemoveAt, RemoveAt

LEMMA SlotLoad == \A S \in SUBSET Jobs : Slots!Load(S) = Cardinality(S)
<1> TAKE S \in SUBSET Jobs
<1>1. Slots!Units(S) = S \X {1}
  <2>1. 1 .. 1 = {1}
    OBVIOUS
  <2> QED BY <2>1 DEF Slots!Units
<1>2. IsFiniteSet(S) /\ Cardinality(S) \in Nat
  <2>1. IsFiniteSet(S)
    BY ExportAssumption, FS_Subset
  <2> QED BY <2>1, FS_CardinalityType
<1>3. IsFiniteSet({1}) /\ Cardinality({1}) = 1
  BY FS_Singleton
<1>4. Cardinality(S \X {1}) = Cardinality(S) * Cardinality({1})
  BY <1>2, <1>3, FS_Product
<1>5. Cardinality(S) * Cardinality({1}) = Cardinality(S)
  BY <1>2, <1>3
<1>6. Slots!Load(S) = Cardinality(S \X {1})
  BY <1>1 DEF Slots!Load, Slots!Cardinality, Cardinality
<1> QED BY <1>4, <1>5, <1>6

LEMMA RowLoad == \A S \in SUBSET Jobs : RowGate!Load(S) = RowCount(S)
<1> TAKE S \in SUBSET Jobs
<1>1. RowGate!Units(S) = RowsOf(S)
  BY DEF RowGate!Units, RowsOf
<1> QED BY <1>1 DEF RowGate!Load, RowCount, RowGate!Cardinality, Cardinality

LEMMA SlotStep ==
    ASSUME Inv, SlotEffect PROVE [Slots!Next]_(Slots!vars)
<1>1. /\ MaxActive \in Nat \ {0} /\ waiters \in Seq(Jobs) /\ Len(waiters) \in Nat
      /\ DOMAIN waiters = 1 .. Len(waiters) /\ NoneTwice(waiters)
      /\ SlotHolders \in SUBSET Jobs /\ IsFiniteSet(SlotHolders)
      /\ Cardinality(SlotHolders) \in Nat /\ active = Cardinality(SlotHolders)
      /\ active <= MaxActive /\ WaitForSlot = ToSet(waiters)
      /\ waiters # <<>> => active = MaxActive
  BY ExportAssumption, LenProperties, Finite DEF Inv, Shape, SlotInv
<1>2. CASE SlotKept
  BY <1>2 DEF SlotKept, Slots!vars
<1>3. ASSUME NEW j \in Jobs, SlotTaken(j) \/ SlotAwaited(j) PROVE Slots!Next
  <2>1. j \in Slots!Outside
    BY <1>1, <1>3, SameQueues DEF SlotTaken, SlotAwaited, Slots!Outside
  <2>2. Slots!Load(SlotHolders \cup {j}) = active + 1
    <3>1. Cardinality(SlotHolders \cup {j}) = Cardinality(SlotHolders) + 1
      BY <1>1, <2>1, FS_AddElement DEF Slots!Outside
    <3>2. SlotHolders \cup {j} \in SUBSET Jobs
      BY <1>1
    <3> QED BY <1>1, <3>1, <3>2, SlotLoad
  <2>3. Slots!Admits(j) <=> SlotFree
    BY <1>1, <2>2 DEF Slots!Admits, Slots!Fits, SlotFree
  <2>4. CASE SlotTaken(j)
    <3>1. Slots!Take(j)
      BY <2>1, <2>3, <2>4 DEF SlotTaken, Slots!Take
    <3> QED BY <3>1 DEF Slots!Next
  <2>5. CASE SlotAwaited(j)
    <3>1. Slots!Join(j)
      BY <2>1, <2>3, <2>5 DEF SlotAwaited, Slots!Join
    <3> QED BY <3>1 DEF Slots!Next
  <2> QED BY <1>3, <2>4, <2>5
<1>4. ASSUME NEW j \in Jobs, SlotRenounced(j) PROVE Slots!Next
  <2>1. Slots!Quit(j)
    BY <1>1, <1>4, SameQueues DEF SlotRenounced, Slots!Quit
  <2> QED BY <2>1 DEF Slots!Next
<1>5. ASSUME NEW j \in Jobs, SlotReturned(j) PROVE Slots!Next
  <2>1. j \in SlotHolders
    BY <1>5 DEF SlotReturned
  <2>2. /\ IsFiniteSet(SlotHolders \ {j})
        /\ Cardinality(SlotHolders \ {j}) = Cardinality(SlotHolders) - 1
    BY <1>1, <2>1, FS_RemoveElement
  <2>3. CASE waiters = <<>>
    <3>1. Len(waiters) = 0 /\ 0 \in 0 .. Len(waiters)
      BY <2>3
    <3>2. Slots!Heads(0) = {}
      <4>1. SubSeq(waiters, 1, 0) = <<>>
        BY SubSeqEmpty
      <4>2. ToSet(waiters) = {}
        BY <1>1, <2>3, QueueSet
      <4> QED BY <2>3, <4>1, <4>2, SameQueues DEF Slots!Heads
    <3>3. SubSeq(waiters, 0 + 1, Len(waiters)) = waiters
      BY <2>3, <3>1, SubSeqEmpty
    <3>4. SlotHolders' = (SlotHolders \ {j}) \cup Slots!Heads(0)
          /\ waiters' = SubSeq(waiters, 0 + 1, Len(waiters))
      BY <1>5, <2>3, <3>2, <3>3 DEF SlotReturned, ReleaseSlot, GetsSlot
    <3>5. Slots!Leave(j)
      BY <2>1, <3>1, <3>4 DEF Slots!Leave
    <3> QED BY <3>5 DEF Slots!Next
  <2>4. CASE waiters # <<>>
    <3> DEFINE Stay == SlotHolders \ {j}
    <3>1. /\ Head(waiters) \in ToSet(waiters)
          /\ Tail(waiters) = SubSeq(waiters, 1 + 1, Len(waiters))
          /\ ToSet(SubSeq(waiters, 1, 1)) = {Head(waiters)}
      BY <1>1, <2>4, HeadLeaves
    <3>2. Len(waiters) >= 1 /\ 1 \in 0 .. Len(waiters)
      BY <1>1, <2>4, EmptySeq
    <3>3. Slots!Heads(1) = {Head(waiters)}
      BY <3>1, SameQueues DEF Slots!Heads
    <3>4. ToSet(waiters) \cap SlotHolders = {} /\ ToSet(waiters) \subseteq Jobs
      BY <1>1 DEF WaitForSlot, SlotHolders, HoldsSlot
    <3>5. /\ IsFiniteSet(Stay \cup {Head(waiters)})
          /\ Cardinality(Stay \cup {Head(waiters)}) = MaxActive
      <4>1. Head(waiters) \notin Stay
        BY <3>1, <3>4
      <4>2. /\ IsFiniteSet(Stay \cup {Head(waiters)})
            /\ Cardinality(Stay \cup {Head(waiters)}) = Cardinality(Stay) + 1
        BY <2>2, <4>1, FS_AddElement
      <4> QED BY <1>1, <2>2, <2>4, <4>2
    <3>6. Slots!Fits(Stay \cup Slots!Heads(1))
      <4>1. Stay \cup {Head(waiters)} \in SUBSET Jobs
        BY <1>1, <3>1, <3>4
      <4>2. Slots!Load(Stay \cup {Head(waiters)}) = MaxActive
        BY <3>5, <4>1, SlotLoad
      <4>3. Slots!Load(Stay \cup Slots!Heads(1)) = MaxActive
        BY <3>3, <4>2
      <4> QED BY <1>1, <4>3 DEF Slots!Fits
    <3>7. ASSUME 1 < Len(waiters) PROVE ~ Slots!Fits(Stay \cup Slots!Heads(1 + 1))
      <4> DEFINE second == waiters[2]
      <4>1. second \in ToSet(waiters) /\ second # Head(waiters)
        <5>1. 1 \in 1 .. Len(waiters) /\ 2 \in 1 .. Len(waiters)
          BY <1>1, <3>7
        <5>2. Head(waiters) = waiters[1]
          OBVIOUS
        <5> QED BY <1>1, <5>1, <5>2, QueueSet DEF NoneTwice
      <4>2. Slots!Heads(1 + 1) = {Head(waiters), second}
        <5>1. 2 \in 0 .. Len(waiters) /\ 1 + 1 = 2
          BY <1>1, <3>7
        <5>2. ToSet(SubSeq(waiters, 1, 2)) = {waiters[i] : i \in 1 .. 2}
          BY <1>1, <5>1, FirstLeave
        <5>3. 1 .. 2 = {1, 2} /\ Head(waiters) = waiters[1]
          OBVIOUS
        <5> QED BY <5>1, <5>2, <5>3, SameQueues DEF Slots!Heads
      <4>3. Cardinality((Stay \cup {Head(waiters)}) \cup {second}) = MaxActive + 1
        <5>1. second \notin Stay \cup {Head(waiters)}
          BY <3>4, <4>1
        <5>2. Cardinality((Stay \cup {Head(waiters)}) \cup {second})
                = Cardinality(Stay \cup {Head(waiters)}) + 1
          BY <3>5, <5>1, FS_AddElement
        <5> QED BY <3>5, <5>2
      <4>4. (Stay \cup {Head(waiters)}) \cup {second} = Stay \cup {Head(waiters), second}
        OBVIOUS
      <4>5. Stay \cup {Head(waiters), second} \in SUBSET Jobs
        BY <1>1, <3>1, <3>4, <4>1
      <4>6. Slots!Load(Stay \cup Slots!Heads(1 + 1)) = MaxActive + 1
        BY <4>2, <4>3, <4>4, <4>5, SlotLoad
      <4> QED BY <1>1, <4>6 DEF Slots!Fits
    <3>8. SlotHolders' = Stay \cup Slots!Heads(1)
          /\ waiters' = SubSeq(waiters, 1 + 1, Len(waiters))
      BY <1>5, <2>4, <3>1, <3>3 DEF SlotReturned, ReleaseSlot, GetsSlot
    <3>9. Slots!Leave(j)
      BY <2>1, <3>2, <3>6, <3>7, <3>8 DEF Slots!Leave
    <3> QED BY <3>9 DEF Slots!Next
  <2> QED BY <2>3, <2>4
<1> QED BY <1>2, <1>3, <1>4, <1>5 DEF SlotEffect

LEMMA RowStep ==
    ASSUME Inv, RowEffect PROVE [RowGate!Next]_(RowGate!vars)
<1>1. /\ Budget \in Nat /\ hang \in Seq(Jobs) /\ Len(hang) \in Nat
      /\ DOMAIN hang = 1 .. Len(hang) /\ NoneTwice(hang)
      /\ RowHolders \in SUBSET Jobs /\ dangBay = RowCount(RowHolders)
      /\ WaitForRows = ToSet(hang) /\ Shape /\ RowInv
  BY ExportAssumption, LenProperties, Finite DEF Inv, Shape, RowInv
<1>2. CASE RowsKept
  BY <1>2 DEF RowsKept, RowGate!vars
<1>3. ASSUME NEW j \in Jobs, RowsTaken(j) \/ RowsAwaited(j) PROVE RowGate!Next
  <2>1. j \in RowGate!Outside
    BY <1>1, <1>3, SameQueues DEF RowsTaken, RowsAwaited, RowGate!Outside
  <2>2. RowGate!Load(RowHolders \cup {j}) = dangBay + Can(j)
    <3>1. RowCount(RowHolders \cup {j}) = RowCount(RowHolders) + Can(j)
      BY <1>1, <2>1, RowCountWith DEF RowGate!Outside
    <3>2. RowHolders \cup {j} \in SUBSET Jobs
      BY <1>1
    <3> QED BY <1>1, <3>1, <3>2, RowLoad
  <2>3. RowGate!Admits(j) <=> RowsFree(j)
    BY <2>2 DEF RowGate!Admits, RowGate!Fits, RowsFree
  <2>4. CASE RowsTaken(j)
    <3>1. RowGate!Take(j)
      BY <2>1, <2>3, <2>4 DEF RowsTaken, RowGate!Take
    <3> QED BY <3>1 DEF RowGate!Next
  <2>5. CASE RowsAwaited(j)
    <3>1. RowGate!Join(j)
      BY <2>1, <2>3, <2>5 DEF RowsAwaited, RowGate!Join
    <3> QED BY <3>1 DEF RowGate!Next
  <2> QED BY <1>3, <2>4, <2>5
<1>4. ASSUME NEW j \in Jobs, RowsRenounced(j) PROVE RowGate!Next
  <2>1. RowGate!Quit(j)
    BY <1>1, <1>4, SameQueues DEF RowsRenounced, RowGate!Quit
  <2> QED BY <2>1 DEF RowGate!Next
<1>5. ASSUME NEW j \in Jobs, RowsReturned(j) PROVE RowGate!Next
  <2>1. PICK n \in 0 .. Len(hang) : RowsHandedOver(j, n)
    BY <1>5 DEF RowsReturned
  <2>2. \A m \in 0 .. Len(hang) :
           /\ RowGate!Heads(m) = First(m)
           /\ RowGate!Load((RowHolders \ {j}) \cup First(m))
                = RowCount((RowHolders \ {j}) \cup First(m))
    <3> TAKE m \in 0 .. Len(hang)
    <3>1. (RowHolders \ {j}) \cup First(m) \in SUBSET Jobs
      BY <1>1, FirstWait DEF WaitForRows
    <3>2. RowGate!Heads(m) = First(m)
      BY SameQueues DEF RowGate!Heads, First
    <3>3. RowGate!Load((RowHolders \ {j}) \cup First(m)) = RowCount((RowHolders \ {j}) \cup First(m))
      BY <3>1, RowLoad
    <3> QED BY <3>2, <3>3
  <2>3. n < Len(hang) => ~ RowGate!Fits((RowHolders \ {j}) \cup RowGate!Heads(n + 1))
    <3> SUFFICES ASSUME n < Len(hang)
                 PROVE  ~ RowGate!Fits((RowHolders \ {j}) \cup RowGate!Heads(n + 1))
      OBVIOUS
    <3>1. n + 1 \in 0 .. Len(hang)
      BY <1>1
    <3>2. RowCount((RowHolders \ {j}) \cup First(n + 1)) > Budget
      BY <2>1 DEF RowsHandedOver
    <3>3. (RowHolders \ {j}) \cup First(n + 1) \in SUBSET Jobs
      BY <1>1, <3>1, FirstWait DEF WaitForRows
    <3>4. RowCount((RowHolders \ {j}) \cup First(n + 1)) \in Nat
      BY <3>3, RowCountType
    <3>5. /\ RowGate!Heads(n + 1) = First(n + 1)
          /\ RowGate!Load((RowHolders \ {j}) \cup First(n + 1))
               = RowCount((RowHolders \ {j}) \cup First(n + 1))
      BY <2>2, <3>1
    <3>6. RowGate!Load((RowHolders \ {j}) \cup RowGate!Heads(n + 1))
            = RowCount((RowHolders \ {j}) \cup First(n + 1))
      BY <3>5
    <3> QED BY <1>1, <3>2, <3>4, <3>6 DEF RowGate!Fits
  <2>4. RowGate!Fits((RowHolders \ {j}) \cup RowGate!Heads(n))
    BY <2>1, <2>2 DEF RowsHandedOver, RowGate!Fits
  <2>5. /\ RowHolders' = (RowHolders \ {j}) \cup RowGate!Heads(n)
        /\ hang' = SubSeq(hang, n + 1, Len(hang)) /\ j \in RowHolders
    BY <1>5, <2>1, <2>2 DEF RowsHandedOver, RowsReturned
  <2>6. RowGate!Leave(j)
    BY <2>3, <2>4, <2>5 DEF RowGate!Leave
  <2> QED BY <2>6 DEF RowGate!Next
<1> QED BY <1>2, <1>3, <1>4, <1>5 DEF RowEffect

(* The slot gate keeps the promise of FairGate: never more than MaxActive  *)
(* inside, first come first served, no slot idle while somebody waits.     *)
THEOREM SlotsAreFair == Spec => SlotGateIsFair
<1>1. Init => Slots!Init
  BY DEF Init, Slots!Init, SlotHolders, HoldsSlot
<1>2. Inv /\ [Next]_vars => [Slots!Next]_(Slots!vars)
  <2> SUFFICES ASSUME Inv, [Next]_vars PROVE [Slots!Next]_(Slots!vars)
    OBVIOUS
  <2>1. CASE Next
    BY <2>1, NextEffect, SlotStep DEF Effect
  <2>2. CASE UNCHANGED vars
    BY <2>2 DEF vars, SlotHolders, Slots!vars
  <2> QED BY <2>1, <2>2
<1> QED BY <1>1, <1>2, Invariant, PTL DEF Spec, SlotGateIsFair, Slots!Spec

(* So does the budget, although its counter is decremented by the weight   *)
(* asked for and not by the clamped weight charged.                        *)
THEOREM RowsAreFair == Spec => RowGateIsFair
<1>1. Init => RowGate!Init
  BY DEF Init, RowGate!Init, RowHolders, HoldsRows
<1>2. Inv /\ [Next]_vars => [RowGate!Next]_(RowGate!vars)
  <2> SUFFICES ASSUME Inv, [Next]_vars PROVE [RowGate!Next]_(RowGate!vars)
    OBVIOUS
  <2>1. CASE Next
    BY <2>1, NextEffect, RowStep DEF Effect
  <2>2. CASE UNCHANGED vars
    BY <2>2 DEF vars, RowHolders, RowGate!vars
  <2> QED BY <2>1, <2>2
<1> QED BY <1>1, <1>2, Invariant, PTL DEF Spec, RowGateIsFair, RowGate!Spec

(* Both gates together: no slot or row is lost on any path a job can leave *)
(* by, no wake-up is missed, and a job whose caller left is handed nothing. *)
THEOREM GatesLoseNothing == Spec => NothingIsLost
BY NothingLeaks, NobodyStranded, GoneGetNothing, PTL DEF NothingIsLost

(* The row gate serves its queue in order and, with a queue no shorter than *)
(* the other slots, refuses no job that was given a slot.                  *)
THEOREM RowsServeAll == Spec => RowGateServesAll
BY RowsAreFair, SecondGateNeverFull, PTL DEF RowGateServesAll

-----------------------------------------------------------------------------
(***************************************************************************)
(* Every step counts: nobody in a line loses its place, and a call under   *)
(* way is taken on or left where it is.                                    *)
(***************************************************************************)
LEMMA PlaceKept ==
    ASSUME NEW S, NEW q \in Seq(S), NoneTwice(q) PROVE KeepsPlace(q, q)
<1>1. DOMAIN q = 1 .. Len(q) /\ Len(q) \in Nat
  BY LenProperties
<1> QED BY <1>1 DEF NoneTwice, KeepsPlace

LEMMA PlaceJoined ==
    ASSUME NEW S, NEW q \in Seq(S), NEW e \in S, NoneTwice(q), e \notin ToSet(q)
    PROVE  KeepsPlace(q, Append(q, e))
<1>1. /\ DOMAIN q = 1 .. Len(q) /\ Len(q) \in Nat
      /\ DOMAIN Append(q, e) = 1 .. Len(q) + 1
      /\ \A i \in 1 .. Len(q) : Append(q, e)[i] = q[i]
      /\ Append(q, e)[Len(q) + 1] = e
  BY LenProperties, AppendProperties
<1>2. \A i \in 1 .. Len(q) : q[i] # e
  BY QueueSet
<1> DEFINE r == Append(q, e)
<1> HIDE DEF r
<1>3. ASSUME NEW k \in 1 .. Len(q), NEW m \in 1 .. Len(q) + 1, q[k] = r[m] PROVE m <= k
  <2>1. CASE m = Len(q) + 1
    BY <1>1, <1>2, <1>3, <2>1 DEF r
  <2>2. CASE m # Len(q) + 1
    <3>1. m \in 1 .. Len(q)
      BY <1>1, <2>2
    <3>2. q[k] = q[m]
      BY <1>1, <1>3, <3>1 DEF r
    <3>3. k = m
      BY <3>1, <3>2 DEF NoneTwice
    <3> QED BY <1>1, <3>3
  <2> QED BY <2>1, <2>2
<1> QED BY <1>1, <1>3 DEF KeepsPlace, r

LEMMA PlaceAfterFirst ==
    ASSUME NEW S, NEW q \in Seq(S), NEW n \in 0 .. Len(q), NoneTwice(q)
    PROVE  KeepsPlace(q, SubSeq(q, n + 1, Len(q)))
<1> DEFINE r == SubSeq(q, n + 1, Len(q))
<1>1. DOMAIN q = 1 .. Len(q) /\ Len(q) \in Nat /\ n \in Nat
  BY LenProperties
<1>2. \A i \in 1 .. Len(q) : q[i] \in S
  BY ElementOfSeq
<1>3. /\ DOMAIN r = 1 .. Len(q) - n
      /\ \A i \in 1 .. Len(q) - n : r[i] = q[n + i]
  <2>1. /\ Len(r) = Len(q) - n /\ r \in Seq(S)
    BY FirstLeave
  <2>2. \A i \in 1 .. Len(q) - (n + 1) + 1 : r[i] = q[n + 1 + i - 1]
    BY <1>1, <1>2, SubSeqProperties
  <2> HIDE DEF r
  <2>3. DOMAIN r = 1 .. Len(r)
    BY <2>1, LenProperties
  <2>4. \A i \in 1 .. Len(q) - n : i \in 1 .. Len(q) - (n + 1) + 1 /\ n + 1 + i - 1 = n + i
    BY <1>1
  <2> QED BY <2>1, <2>2, <2>3, <2>4
<1> HIDE DEF r
<1>4. ASSUME NEW k \in 1 .. Len(q), NEW m \in 1 .. Len(q) - n, q[k] = r[m] PROVE m <= k
  <2>1. n + m \in 1 .. Len(q) /\ q[k] = q[n + m]
    BY <1>1, <1>3, <1>4
  <2>2. k = n + m
    BY <2>1 DEF NoneTwice
  <2> QED BY <1>1, <2>2
<1> QED BY <1>1, <1>3, <1>4 DEF KeepsPlace, r

LEMMA PlaceAfterOne ==
    ASSUME NEW S, NEW q \in Seq(S), NEW k \in 1 .. Len(q), NoneTwice(q)
    PROVE  KeepsPlace(q, RemoveAt(q, k))
<1> DEFINE a == SubSeq(q, 1, k - 1)
           b == SubSeq(q, k + 1, Len(q))
           r == a \o b
<1>0. DOMAIN q = 1 .. Len(q)
  BY LenProperties
<1>1. Len(q) \in Nat /\ k \in Nat /\ 1 <= k /\ k <= Len(q)
  BY LenProperties
<1>2. a \in Seq(S) /\ Len(a) = k - 1 /\ \A i \in 1 .. k - 1 : a[i] = q[i]
  <2>1. \A i \in 1 .. k - 1 : q[i] \in S
    BY <1>1, ElementOfSeq
  <2>2. /\ a \in Seq(S) /\ Len(a) = IF 1 <= k - 1 THEN k - 1 - 1 + 1 ELSE 0
        /\ \A i \in 1 .. k - 1 - 1 + 1 : a[i] = q[1 + i - 1]
    BY <1>1, <2>1, SubSeqProperties
  <2> HIDE DEF a
  <2> QED BY <1>1, <2>2
<1>3. b \in Seq(S) /\ Len(b) = Len(q) - k /\ \A i \in 1 .. Len(q) - k : b[i] = q[k + i]
  <2>1. \A i \in k + 1 .. Len(q) : q[i] \in S
    BY <1>1, ElementOfSeq
  <2>2. /\ b \in Seq(S) /\ Len(b) = IF k + 1 <= Len(q) THEN Len(q) - (k + 1) + 1 ELSE 0
        /\ \A i \in 1 .. Len(q) - (k + 1) + 1 : b[i] = q[k + 1 + i - 1]
    BY <1>1, <2>1, SubSeqProperties
  <2> HIDE DEF a, b, r
  <2>3. Len(b) = Len(q) - k
    <3>1. Len(b) = IF k + 1 <= Len(q) THEN Len(q) - (k + 1) + 1 ELSE 0
      BY <2>2
    <3> QED BY <1>1, <3>1
  <2>4. ASSUME NEW i \in 1 .. Len(q) - k PROVE b[i] = q[k + i]
    <3>1. i \in 1 .. Len(q) - (k + 1) + 1 /\ k + 1 + i - 1 = k + i
      BY <1>1
    <3> QED BY <2>2, <3>1
  <2> QED BY <2>2, <2>3, <2>4
<1>4. /\ r \in Seq(S) /\ Len(r) = Len(a) + Len(b)
      /\ \A i \in 1 .. Len(a) + Len(b) :
            r[i] = IF i <= Len(a) THEN a[i] ELSE b[i - Len(a)]
  <2> HIDE DEF a, b
  <2> QED BY <1>2, <1>3, ConcatProperties
<1> HIDE DEF a, b, r
<1>5. ASSUME NEW i \in 1 .. Len(q), NEW m \in 1 .. Len(q) - 1, q[i] = r[m] PROVE m <= i
  <2>1. \E o \in 1 .. Len(q) : o >= m /\ r[m] = q[o]
    <3>1. CASE m <= k - 1
      <4>1. m \in 1 .. Len(q) /\ r[m] = q[m]
        <5>1. m \in 1 .. Len(a) + Len(b) /\ m <= Len(a) /\ m \in 1 .. k - 1 /\ m \in 1 .. Len(q)
          BY <1>1, <1>2, <1>3, <3>1
        <5>2. r[m] = a[m]
          BY <1>4, <5>1
        <5> QED BY <1>2, <5>1, <5>2
      <4> QED BY <1>1, <4>1
    <3>2. CASE ~(m <= k - 1)
      <4>1. r[m] = b[m - (k - 1)] /\ m - (k - 1) \in 1 .. Len(q) - k
        <5>1. /\ m \in 1 .. Len(a) + Len(b) /\ ~(m <= Len(a)) /\ Len(a) = k - 1
              /\ m - (k - 1) \in 1 .. Len(q) - k
          BY <1>1, <1>2, <1>3, <3>2
        <5>2. r[m] = b[m - Len(a)]
          BY <1>4, <5>1
        <5> QED BY <5>1, <5>2
      <4>2. r[m] = q[k + (m - (k - 1))] /\ k + (m - (k - 1)) = m + 1
        BY <1>1, <1>3, <4>1
      <4>3. m + 1 \in 1 .. Len(q) /\ m + 1 >= m /\ r[m] = q[m + 1]
        BY <1>1, <4>2
      <4> QED BY <4>3
    <3> QED BY <3>1, <3>2
  <2>2. PICK o \in 1 .. Len(q) : o >= m /\ r[m] = q[o]
    BY <2>1
  <2>3. i = o
    BY <1>5, <2>2 DEF NoneTwice
  <2> QED BY <2>2, <2>3
<1>6. DOMAIN r = 1 .. Len(q) - 1
  <2>1. Len(a) + Len(b) = Len(q) - 1
    BY <1>1, <1>2, <1>3
  <2> QED BY <1>4, <2>1, LenProperties
<1>7. RemoveAt(q, k) = r
  BY DEF RemoveAt, r, a, b
<1>8. KeepsPlace(q, r)
  BY <1>0, <1>1, <1>5, <1>6 DEF KeepsPlace
<1> QED BY <1>7, <1>8, Zenon

LEMMA LinesKept ==
    ASSUME Inv, Effect PROVE KeepsPlace(waiters, waiters') /\ KeepsPlace(hang, hang')
<1>1. /\ waiters \in Seq(Jobs) /\ hang \in Seq(Jobs) /\ NoneTwice(waiters) /\ NoneTwice(hang)
      /\ WaitForSlot = ToSet(waiters) /\ WaitForRows = ToSet(hang)
  BY DEF Inv, Shape, SlotInv, RowInv
<1>2. KeepsPlace(waiters, waiters')
  <2>1. CASE waiters' = waiters
    BY <1>1, <2>1, PlaceKept
  <2>2. ASSUME NEW j \in Jobs, SlotAwaited(j) PROVE KeepsPlace(waiters, waiters')
    <3>1. j \notin ToSet(waiters) /\ waiters' = Append(waiters, j)
      BY <1>1, <2>2 DEF SlotAwaited
    <3> QED BY <1>1, <3>1, PlaceJoined
  <2>3. ASSUME NEW j \in Jobs, SlotRenounced(j) PROVE KeepsPlace(waiters, waiters')
    <3>1. PICK k \in 1 .. Len(waiters) : waiters' = RemoveAt(waiters, k)
      BY <2>3 DEF SlotRenounced
    <3> QED BY <1>1, <3>1, PlaceAfterOne
  <2>4. ASSUME NEW j \in Jobs, SlotReturned(j), waiters # <<>>
        PROVE  KeepsPlace(waiters, waiters')
    <3>1. waiters' = SubSeq(waiters, 1 + 1, Len(waiters))
      BY <1>1, <2>4, HeadLeaves DEF SlotReturned, ReleaseSlot
    <3>2. 1 \in 0 .. Len(waiters)
      BY <1>1, <2>4, EmptySeq, LenProperties
    <3> QED BY <1>1, <3>1, <3>2, PlaceAfterFirst
  <2> QED BY <2>1, <2>2, <2>3, <2>4
          DEF Effect, SlotEffect, SlotKept, SlotTaken, SlotReturned, ReleaseSlot
<1>3. KeepsPlace(hang, hang')
  <2>1. CASE hang' = hang
    BY <1>1, <2>1, PlaceKept
  <2>2. ASSUME NEW j \in Jobs, RowsAwaited(j) PROVE KeepsPlace(hang, hang')
    <3>1. j \notin ToSet(hang) /\ hang' = Append(hang, j)
      BY <1>1, <2>2 DEF RowsAwaited
    <3> QED BY <1>1, <3>1, PlaceJoined
  <2>3. ASSUME NEW j \in Jobs, RowsRenounced(j) PROVE KeepsPlace(hang, hang')
    <3>1. PICK k \in 1 .. Len(hang) : hang' = RemoveAt(hang, k)
      BY <2>3 DEF RowsRenounced
    <3> QED BY <1>1, <3>1, PlaceAfterOne
  <2>4. ASSUME NEW j \in Jobs, RowsReturned(j) PROVE KeepsPlace(hang, hang')
    <3>1. PICK n \in 0 .. Len(hang) : hang' = SubSeq(hang, n + 1, Len(hang))
      BY <2>4 DEF RowsReturned, RowsHandedOver
    <3> QED BY <1>1, <3>1, PlaceAfterFirst
  <2> QED BY <2>1, <2>2, <2>3, <2>4 DEF Effect, RowEffect, RowsKept, RowsTaken
<1> QED BY <1>2, <1>3

\* Where a step by j may take a job.
LEMMA OthersMoveUp ==
    ASSUME NEW j \in Jobs, OthersWoken(j), NEW i \in Jobs \ {j}
    PROVE  pc'[i] = pc[i] \/ Stage[pc[i]] < Stage[pc'[i]]
BY DEF OthersWoken, Stage

LEMMA StepOn ==
    ASSUME Inv, NEW j \in Jobs, Step(j)
    PROVE  /\ pc[j] \in InFlight /\ Stage[pc[j]] < Stage[pc'[j]] /\ gone' = gone
           /\ \A i \in Jobs \ {j} : pc'[i] = pc[i] \/ Stage[pc[i]] < Stage[pc'[i]]
<1>0. pc \in [Jobs -> Places]
  BY DEF Inv, Shape
<1>1. CASE AskRows(j)
  <2>1. pc[j] = "slot" /\ gone' = gone /\ \A i \in Jobs \ {j} : pc'[i] = pc[i]
    BY <1>0, <1>1 DEF AskRows
  <2>2. pc'[j] \in {"giveUp", "rows", "turnedAway", "waitRows"}
    BY <1>0, <1>1 DEF AskRows
  <2> QED BY <2>1, <2>2 DEF Stage, InFlight, HoldsSlot
<1>2. CASE ReturnSlot(j)
  <2>1. OthersWoken(j) /\ pc'[j] = "error" /\ pc[j] \in {"giveUp", "turnedAway"} /\ gone' = gone
    BY <1>2, ReturnSlotEffect DEF ReturnSlot, MoveOn
  <2> QED BY <2>1, OthersMoveUp DEF Stage, InFlight, HoldsSlot
<1>3. ASSUME NEW next \in {"file", "error", "chained"}, LeaveGates(j, next), pc[j] \in HoldsRows
      PROVE  /\ Stage[pc[j]] < Stage[pc'[j]] /\ pc[j] \in InFlight
             /\ \A i \in Jobs \ {j} : pc'[i] = pc[i] \/ Stage[pc[i]] < Stage[pc'[i]]
  <2>1. OthersWoken(j) /\ pc'[j] = next
    BY <1>3, LeaveGatesEffect
  <2>2. pc[j] \in {"rows", "working"}
    BY <1>3 DEF HoldsRows
  <2> QED BY <2>1, <2>2, OthersMoveUp DEF Stage, InFlight, HoldsSlot
<1>4. CASE StartWorker(j)
  <2>1. pc[j] = "rows" /\ gone' = gone
    BY <1>4 DEF StartWorker
  <2>2. CASE LeaveGates(j, "error")
    BY <1>3, <2>1, <2>2 DEF HoldsRows
  <2>3. CASE pc' = [pc EXCEPT ![j] = "working"]
    BY <1>0, <2>1, <2>3 DEF Stage, InFlight, HoldsSlot
  <2> QED BY <1>4, <2>2, <2>3 DEF StartWorker
<1>5. CASE WorkerDelivers(j) \/ WorkerFails(j)
  BY <1>3, <1>5 DEF WorkerDelivers, WorkerFails, HoldsRows
<1>6. CASE RunInline(j)
  BY <1>0, <1>6 DEF RunInline, Stage, InFlight
<1>7. CASE InlineEnds(j)
  BY <1>0, <1>7 DEF InlineEnds, Stage, InFlight
<1> QED BY <1>1, <1>2, <1>4, <1>5, <1>6, <1>7 DEF Step

LEMMA ChainKept ==
    ASSUME Inv, NEW j \in Jobs, Arrive(j) \/ Step(j) \/ Abort(j)
    PROVE  KeepsPlace(chain, chain')
<1>0. chain \in Seq(Jobs) /\ NoneTwice(chain) /\ OnChain = ToSet(chain)
  BY DEF Inv, Shape, ChainInv
<1>1. CASE chain' = chain
  BY <1>0, <1>1, PlaceKept
<1>2. CASE chain' = Append(chain, j) /\ pc[j] = "working"
  <2>1. j \notin ToSet(chain)
    BY <1>0, <1>2 DEF OnChain
  <2> QED BY <1>0, <1>2, <2>1, PlaceJoined
<1>3. CASE chain' = Tail(chain) /\ pc[j] = "inline"
  <2>1. chain # <<>>
    BY <1>0, <1>3, QueueSet DEF OnChain
  <2>2. chain' = SubSeq(chain, 1 + 1, Len(chain)) /\ 1 \in 0 .. Len(chain)
    BY <1>0, <1>3, <2>1, HeadLeaves, EmptySeq, LenProperties
  <2> QED BY <1>0, <2>2, PlaceAfterFirst
<1>4. CASE Arrive(j) \/ Abort(j)
  BY <1>1, <1>4 DEF Arrive, TakeSlot, RefuseSlot, JoinWaiters, Begin, Abort
<1>5. CASE AskRows(j) \/ ReturnSlot(j) \/ StartWorker(j) \/ WorkerDelivers(j)
  <2>1. AskRows(j) => chain' = chain
    BY DEF AskRows
  <2>2. ReturnSlot(j) => chain' = chain
    BY DEF ReturnSlot
  <2>3. StartWorker(j) => chain' = chain
    BY DEF StartWorker
  <2>4. WorkerDelivers(j) => chain' = chain
    BY DEF WorkerDelivers
  <2> QED BY <1>1, <1>5, <2>1, <2>2, <2>3, <2>4
<1>6. CASE WorkerFails(j)
  BY <1>1, <1>2, <1>6 DEF WorkerFails, inlineVars
<1>7. CASE RunInline(j) \/ InlineEnds(j)
  BY <1>1, <1>3, <1>7 DEF RunInline, InlineEnds
<1> QED BY <1>4, <1>5, <1>6, <1>7 DEF Step

LEMMA NextCounts == Inv /\ [Next]_vars => [StepCounts]_vars
<1> SUFFICES ASSUME Inv, NEW j \in Jobs, Arrive(j) \/ Step(j) \/ Abort(j) PROVE StepCounts
  BY DEF Next
<1>0. pc \in [Jobs -> Places] /\ gone \in [Jobs -> BOOLEAN]
  BY DEF Inv, Shape
<1>1. KeepsPlace(waiters, waiters') /\ KeepsPlace(hang, hang') /\ KeepsPlace(chain, chain')
  <2>1. Next
    BY DEF Next
  <2> QED BY <2>1, NextEffect, LinesKept, ChainKept
<1>2. CASE Arrive(j)
  <2>1. pc[j] \in Ended /\ \A i \in Jobs \ {j} : pc'[i] = pc[i] /\ gone'[i] = gone[i]
    BY <1>0, <1>2 DEF Arrive, TakeSlot, RefuseSlot, JoinWaiters, Begin
  <2>2. Ended \cap InFlight = {}
    BY DEF Ended, InFlight, HoldsSlot
  <2>3. \A i \in Jobs : pc[i] \in InFlight => pc'[i] = pc[i] /\ gone'[i] = gone[i]
    BY <2>1, <2>2
  <2> QED BY <1>1, <1>2, <2>3 DEF StepCounts
<1>3. CASE Step(j)
  BY <1>1, <1>3, StepOn DEF StepCounts, Nearer
<1>4. CASE Abort(j)
  <2>1. /\ pc[j] \in InFlight /\ ~gone[j] /\ gone'[j]
        /\ \A i \in Jobs \ {j} : pc'[i] = pc[i] /\ gone'[i] = gone[i]
    BY <1>0, <1>4 DEF Abort
  <2>2. pc'[j] = pc[j] \/ Stage[pc[j]] < Stage[pc'[j]]
    <3>1. \E at \in Places :
             /\ pc' = [pc EXCEPT ![j] = at]
             /\ pc[j] = "waitSlot" => at = "error"
             /\ pc[j] = "waitRows" => at = "giveUp"
             /\ pc[j] \notin {"waitSlot", "waitRows"} => at = pc[j]
      <4>1. CASE pc[j] = "waitSlot"
        BY <1>4, <4>1 DEF Abort, Places, Ended
      <4>2. CASE pc[j] = "waitRows"
        BY <1>4, <4>2 DEF Abort, Places, InFlight, HoldsSlot
      <4>3. CASE pc[j] \notin {"waitSlot", "waitRows"}
        BY <1>0, <1>4, <4>3 DEF Abort
      <4> QED BY <4>1, <4>2, <4>3
    <3>2. \/ pc'[j] = pc[j]
          \/ pc[j] = "waitSlot" /\ pc'[j] = "error"
          \/ pc[j] = "waitRows" /\ pc'[j] = "giveUp"
      <4>1. PICK at \in Places :
             /\ pc' = [pc EXCEPT ![j] = at]
             /\ pc[j] = "waitSlot" => at = "error"
             /\ pc[j] = "waitRows" => at = "giveUp"
             /\ pc[j] \notin {"waitSlot", "waitRows"} => at = pc[j]
        BY <3>1
      <4>2. pc'[j] = at
        BY <1>0, <4>1
      <4> QED BY <4>1, <4>2
    <3> QED BY <3>2 DEF Stage
  <2>3. Nearer(j)
    BY <2>1, <2>2, Zenon DEF Nearer
  <2> QED BY <1>1, <2>1, <2>3 DEF StepCounts
<1> QED BY <1>2, <1>3, <1>4

(* The safety half of EveryJobEnds for any jobs and limits: each step      *)
(* begins a call or takes one nearer to its end, sets no other back, and   *)
(* nobody in one of the three lines is overtaken.                          *)
THEOREM StepsCount == Spec => EveryStepCounts
BY NextCounts, Invariant, PTL DEF Spec, EveryStepCounts

(* Both lines are served in their order and nobody in them, or behind them *)
(* on the inline chain, is set back.                                       *)
THEOREM LinesServed == Spec => LinesAreFair
BY SlotsAreFair, RowsServeAll, StepsCount DEF LinesAreFair

=============================================================================
