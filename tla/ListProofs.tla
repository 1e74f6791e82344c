----------------------------- MODULE ListProofs -----------------------------
(***************************************************************************)
(* What the proofs of the components need to know of lists: induction over *)
(* the numbers of their elements, what sorting and filtering return, and   *)
(* what a chain of hashed rows commits to.  For lists of anything and of   *)
(* any length.                                                             *)
(***************************************************************************)
EXTENDS Orders, HashChain, SequenceTheorems, FunctionTheorems, FiniteSetTheorems,
        WellFoundedInduction, TLAPS

\* A set of natural numbers has a least element, unless it is empty.
LEMMA LeastNumber ==
    ASSUME NEW T \in SUBSET Nat, T # {}
    PROVE  \E n \in T : \A m \in T : n <= m
<1> DEFINE R == {ss \in Nat \X Nat : ss[1] < ss[2]}
<1>1. IsWellFoundedOn(R, Nat)
  BY NatLessThanWellFounded DEF OpToRel
<1>2. PICK n \in T : \A m \in T : ~(<<m, n>> \in R)
  <2> HIDE DEF R
  <2> QED  BY <1>1, WFMin
<1>3. ASSUME NEW m \in T PROVE n <= m
  <2>1. n \in Nat /\ m \in Nat
    OBVIOUS
  <2>2. ~(m < n)
    BY <1>2, <2>1
  <2> QED  BY <2>1, <2>2
<1> QED  BY <1>3

\* Induction over the natural numbers up to N, for the set of those for which
\* something holds.
LEMMA SetInduction ==
    ASSUME NEW S, NEW N \in Nat, 0 \in S, \A n \in 0..(N - 1) : n \in S => n + 1 \in S
    PROVE  \A n \in 0..N : n \in S
<1> DEFINE T == {n \in 0..N : n \notin S}
<1>1. ASSUME T # {} PROVE FALSE
  <2>0. T \in SUBSET Nat
    OBVIOUS
  <2>1. PICK n \in T : \A m \in T : n <= m
    <3> HIDE DEF T
    <3> QED  BY <1>1, <2>0, LeastNumber
  <2>2. n - 1 \in 0..(N - 1) /\ n - 1 \notin T
    BY <2>1
  <2> QED  BY <2>1, <2>2
<1> QED  BY <1>1

\* order is a strict total order of S.
IsStrictOrder(order, S) ==
    /\ \A i \in S : <<i, i>> \notin order
    /\ \A i, j \in S : i # j => <<i, j>> \in order \/ <<j, i>> \in order
    /\ \A i, j, k \in S : <<i, j>> \in order /\ <<j, k>> \in order => <<i, k>> \in order

\* The ranks are smaller than the number of elements, and in the order.
LEMMA RankOrders ==
    ASSUME NEW S, IsFiniteSet(S), NEW order, IsStrictOrder(order, S)
    PROVE  /\ Cardinality(S) \in Nat
           /\ \A i \in S : Rank(i, S, order) \in 0..(Cardinality(S) - 1)
           /\ \A i, j \in S : <<i, j>> \in order => Rank(i, S, order) < Rank(j, S, order)
<1> DEFINE Earlier(i) == {j \in S : <<j, i>> \in order}
<1>1. \A i \in S : Earlier(i) \in SUBSET S
  OBVIOUS
<1>2. Cardinality(S) \in Nat
  BY FS_CardinalityType
<1>3. \A i \in S : IsFiniteSet(Earlier(i)) /\ Cardinality(Earlier(i)) \in Nat
  BY <1>1, FS_Subset, FS_CardinalityType
<1>4. ASSUME NEW i \in S PROVE Cardinality(Earlier(i)) < Cardinality(S)
  <2>1. Earlier(i) # S
    BY DEF IsStrictOrder
  <2>2. Cardinality(Earlier(i)) <= Cardinality(S) /\ Cardinality(Earlier(i)) # Cardinality(S)
    BY <1>1, <2>1, FS_Subset
  <2> QED  BY <1>2, <1>3, <2>2
<1>5. ASSUME NEW i \in S, NEW j \in S, <<i, j>> \in order
      PROVE  Cardinality(Earlier(i)) < Cardinality(Earlier(j))
  <2>1. Earlier(i) \in SUBSET Earlier(j)
    BY <1>5 DEF IsStrictOrder
  <2>2. Earlier(i) # Earlier(j)
    BY <1>5 DEF IsStrictOrder
  <2>3. /\ Cardinality(Earlier(i)) <= Cardinality(Earlier(j))
        /\ Cardinality(Earlier(j)) # Cardinality(Earlier(i))
    BY <1>3, <2>1, <2>2, FS_Subset
  <2> QED  BY <1>3, <2>3
<1>6. \A i \in S : Rank(i, S, order) = Cardinality(Earlier(i))
  BY DEF Rank
<1> HIDE DEF Earlier
<1> QED  BY <1>2, <1>3, <1>4, <1>5, <1>6

\* So every smaller number is the rank of an element.
LEMMA RankOnto ==
    ASSUME NEW S, IsFiniteSet(S), NEW order, IsStrictOrder(order, S),
           NEW n \in 0..(Cardinality(S) - 1)
    PROVE  \E i \in S : Rank(i, S, order) = n
<1> DEFINE c == Cardinality(S)
           T == 0..(c - 1)
           f == [i \in S |-> Rank(i, S, order)]
<1>1. /\ c \in Nat
      /\ \A i \in S : Rank(i, S, order) \in T
      /\ \A i, j \in S : <<i, j>> \in order => Rank(i, S, order) < Rank(j, S, order)
  BY RankOrders
<1>2. f \in [S -> T]
  BY <1>1
<1>3. ASSUME NEW i \in S, NEW j \in S, f[i] = f[j] PROVE i = j
  <2>1. Rank(i, S, order) = Rank(j, S, order) /\ Rank(i, S, order) \in Int
    BY <1>1, <1>3
  <2>2. <<i, j>> \notin order /\ <<j, i>> \notin order
    BY <1>1, <2>1
  <2> QED  BY <2>2 DEF IsStrictOrder
<1>4. f \in Injection(S, T)
  BY <1>2, <1>3 DEF Injection, IsInjective
<1>5. IsFiniteSet(T) /\ Cardinality(T) = c
  BY <1>1, FS_Interval
<1> HIDE DEF f, T
<1>6. f \in Surjection(S, T)
  BY <1>4, <1>5, FS_Injection
<1>7. n \in T
  BY DEF T, c
<1>8. \E i \in S : f[i] = n
  BY <1>6, <1>7, Fun_SurjectionProperties
<1> QED  BY <1>8 DEF f

\* A finite set in a strict order, as a list.
LEMMA OrderedIsOrdered ==
    ASSUME NEW S, IsFiniteSet(S), NEW order, IsStrictOrder(order, S)
    PROVE  LET list == Ordered(S, order)
               n == Cardinality(S)
           IN
           /\ n \in Nat
           /\ list \in [1..n -> S]
           /\ \A i \in S : \E k \in 1..n : list[k] = i
           /\ \A k, l \in 1..n : k < l => <<list[k], list[l]>> \in order
<1> DEFINE list == Ordered(S, order)
           n == Cardinality(S)
<1>1. /\ n \in Nat
      /\ \A i \in S : Rank(i, S, order) \in 0..(n - 1)
      /\ \A i, j \in S : <<i, j>> \in order => Rank(i, S, order) < Rank(j, S, order)
  BY RankOrders
<1>2. \A k \in 1..n : \E i \in S : Rank(i, S, order) = k - 1
  <2> TAKE k \in 1..n
  <2>1. k - 1 \in 0..(Cardinality(S) - 1)
    BY <1>1
  <2> QED  BY <2>1, RankOnto
<1>3. \A k \in 1..n : list[k] \in S /\ Rank(list[k], S, order) = k - 1
  BY <1>2 DEF Ordered
<1>4. list \in [1..n -> S]
  BY <1>3 DEF Ordered
<1> HIDE DEF list
<1>5. ASSUME NEW i \in S PROVE \E k \in 1..n : list[k] = i
  <2>1. Rank(i, S, order) + 1 \in 1..n
    BY <1>1
  <2>2. Rank(list[Rank(i, S, order) + 1], S, order) = Rank(i, S, order)
    BY <1>1, <1>3, <2>1
  <2> DEFINE j == list[Rank(i, S, order) + 1]
  <2>3. j \in S /\ Rank(j, S, order) = Rank(i, S, order) /\ Rank(i, S, order) \in Int
    BY <1>1, <1>3, <2>1, <2>2
  <2> HIDE DEF j
  <2>4. <<i, j>> \notin order /\ <<j, i>> \notin order
    BY <1>1, <2>3
  <2>5. j = i
    BY <2>3, <2>4 DEF IsStrictOrder
  <2> QED  BY <2>1, <2>5 DEF j
<1>6. ASSUME NEW k \in 1..n, NEW l \in 1..n, k < l PROVE <<list[k], list[l]>> \in order
  <2>1. list[k] \in S /\ list[l] \in S
    BY <1>3
  <2>2. Rank(list[k], S, order) = k - 1 /\ Rank(list[l], S, order) = l - 1
    BY <1>3
  <2>3. list[k] # list[l]
    BY <1>6, <2>2
  <2>4. <<list[l], list[k]>> \notin order
    BY <1>1, <1>6, <2>1, <2>2
  <2> QED  BY <2>1, <2>3, <2>4 DEF IsStrictOrder
<1> QED  BY <1>1, <1>4, <1>5, <1>6 DEF list

\* The list picked has the elements of s at the positions in I, in their order;
\* where says which is which.
Picks(picked, s, I, where) ==
    /\ \A k \in 1..Len(picked) : picked[k] = s[where[k]]
    /\ \A k, l \in 1..Len(picked) : k < l => where[k] < where[l]
    /\ \A i \in I : \E k \in 1..Len(picked) : where[k] = i

\* What a filter keeps of a list.
LEMMA SelectedFrom ==
    ASSUME NEW T, NEW s \in Seq(T), NEW I \in SUBSET (1..Len(s)),
           NEW picked, picked = Selected(s, I)
    PROVE  /\ picked \in Seq(T)
           /\ \E where \in [1..Len(picked) -> I] : Picks(picked, s, I, where)
<1> DEFINE order == {p \in I \X I : p[1] < p[2]}
           at == Ordered(I, order)
           n == Cardinality(I)
<1>1. Len(s) \in Nat /\ IsFiniteSet(I)
  <2>1. Len(s) \in Nat
    BY LenProperties
  <2>2. IsFiniteSet(1..Len(s))
    BY <2>1, FS_Interval
  <2> QED  BY <2>1, <2>2, FS_Subset
<1>2. \A i, j \in I : <<i, j>> \in order <=> i < j
  OBVIOUS
<1>3. IsStrictOrder(order, I)
  BY <1>1, <1>2 DEF IsStrictOrder
<1> HIDE DEF order
<1>4. /\ n \in Nat
      /\ at \in [1..n -> I]
      /\ \A i \in I : \E k \in 1..n : at[k] = i
      /\ \A k, l \in 1..n : k < l => <<at[k], at[l]>> \in order
  BY <1>1, <1>3, OrderedIsOrdered
<1>5. picked = [k \in 1..n |-> s[at[k]]]
  BY DEF Selected, order
<1>6. \A k \in 1..n : s[at[k]] \in T
  BY <1>1, <1>4, ElementOfSeq
<1> HIDE DEF at, n
<1>7. picked \in Seq(T) /\ Len(picked) = n
  BY <1>4, <1>5, <1>6
<1>8. \A k, l \in 1..n : k < l => at[k] < at[l]
  BY <1>2, <1>4
<1>9. at \in [1..Len(picked) -> I]
  BY <1>4, <1>7
<1>10. Picks(picked, s, I, at)
  BY <1>4, <1>5, <1>7, <1>8 DEF Picks
<1> QED  BY <1>7, <1>9, <1>10

----------------------------------------------------------------------------
(* Chains of rows.                                                         *)

Rows(E) == [event : E, previous : Seq(E), hash : Seq(E)]

\* The hash after the first k rows.
HashAt(s, k) == IF k = 0 THEN <<>> ELSE s[k].hash

\* What append guarantees even when it races: every row carries its own hash,
\* was chained to the log as it was at some earlier time, and is of an event of
\* its own.
Chained(s) ==
    /\ \A i \in 1..Len(s) : s[i].hash = Hash(s[i].event, s[i].previous)
    /\ \A i \in 1..Len(s) : \E k \in 0..(i - 1) : s[i].previous = HashAt(s, k)
    /\ \A i, j \in 1..Len(s) : s[i].event = s[j].event => i = j

----------------------------------------------------------------------------

\* What append stores, and what is stored.
LEMMA RowType ==
    ASSUME NEW E, NEW event \in E, NEW previous \in Seq(E)
    PROVE  /\ Row(event, previous) \in Rows(E)
           /\ Row(event, previous).event = event
           /\ Row(event, previous).previous = previous
           /\ Row(event, previous).hash = Hash(event, previous)
  BY AppendProperties DEF Row, Rows, Hash

\* What the rows of a log and its prefixes are.
LEMMA RowOfRows ==
    ASSUME NEW E, NEW s \in Seq(Rows(E)), NEW i \in 1..Len(s)
    PROVE  s[i] \in Rows(E) /\ s[i].event \in E /\ s[i].previous \in Seq(E)
<1>1. s[i] \in Rows(E)
  BY ElementOfSeq
<1> QED  BY <1>1 DEF Rows

LEMMA HashAtType ==
    ASSUME NEW E, NEW s \in Seq(Rows(E)), NEW k \in 0..Len(s)
    PROVE  HashAt(s, k) \in Seq(E)
<1>1. CASE k = 0
  BY <1>1, EmptySeq DEF HashAt
<1>2. CASE k # 0
  <2>1. s[k] \in Rows(E)
    BY <1>2, ElementOfSeq, LenProperties
  <2> QED  BY <1>2, <2>1 DEF HashAt, Rows
<1> QED  BY <1>1, <1>2

LEMMA PrefixType ==
    ASSUME NEW E, NEW s \in Seq(Rows(E)), NEW k \in 0..Len(s)
    PROVE  /\ SubSeq(s, 1, k) \in Seq(Rows(E))
           /\ Len(SubSeq(s, 1, k)) = k
           /\ \A i \in 1..k : SubSeq(s, 1, k)[i] = s[i]
<1>1. \A i \in 1..k : s[i] \in Rows(E)
  BY ElementOfSeq, LenProperties
<1>2. /\ SubSeq(s, 1, k) \in Seq(Rows(E))
      /\ Len(SubSeq(s, 1, k)) = IF 1 <= k THEN k - 1 + 1 ELSE 0
      /\ \A i \in 1..(k - 1 + 1) : SubSeq(s, 1, k)[i] = s[1 + i - 1]
  BY <1>1, SubSeqProperties, LenProperties
<1> QED  BY <1>2, LenProperties

\* The last hash of a prefix of the log is the hash after its last row.
LEMMA TailOfPrefix ==
    ASSUME NEW E, NEW s \in Seq(Rows(E)), NEW k \in 0..Len(s)
    PROVE  TailHash(SubSeq(s, 1, k)) = HashAt(s, k)
<1>1. /\ SubSeq(s, 1, k) \in Seq(Rows(E))
      /\ Len(SubSeq(s, 1, k)) = k
      /\ \A i \in 1..k : SubSeq(s, 1, k)[i] = s[i]
  BY PrefixType
<1>2. CASE k = 0
  BY <1>1, <1>2, EmptySeq DEF TailHash, HashAt
<1>3. CASE k # 0
  BY <1>1, <1>3, EmptySeq DEF TailHash, HashAt
<1> QED  BY <1>2, <1>3

\* The last hash of a log is the hash after its last row.
LEMMA TailIsLast ==
    ASSUME NEW E, NEW s \in Seq(Rows(E))
    PROVE  TailHash(s) = HashAt(s, Len(s))
  BY EmptySeq, LenProperties DEF TailHash, HashAt

\* verify_chain, said of hashes.
LEMMA VerifiesLinks ==
    ASSUME NEW E, NEW s \in Seq(Rows(E)), Chained(s)
    PROVE  Verifies(s) <=> \A i \in 1..Len(s) : s[i].previous = HashAt(s, i - 1)
<1>1. \A i \in 1..Len(s) : TailHash(SubSeq(s, 1, i - 1)) = HashAt(s, i - 1)
  BY TailOfPrefix, LenProperties
<1>2. DOMAIN s = 1..Len(s)
  BY LenProperties
<1> QED  BY <1>1, <1>2 DEF Verifies, RowVerifies, Chained

\* A row verifies in a longer log exactly if it did before.
LEMMA RowVerifiesLater ==
    ASSUME NEW E, NEW s \in Seq(Rows(E)), NEW t \in Seq(Rows(E)),
           Len(s) <= Len(t), \A i \in 1..Len(s) : t[i] = s[i],
           NEW i \in 1..Len(s)
    PROVE  RowVerifies(t, i) <=> RowVerifies(s, i)
<1>1. Len(s) \in Nat /\ Len(t) \in Nat /\ i - 1 \in 0..Len(s) /\ i - 1 \in 0..Len(t)
  BY LenProperties
<1>2. TailHash(SubSeq(s, 1, i - 1)) = HashAt(s, i - 1)
  BY <1>1, TailOfPrefix
<1>3. TailHash(SubSeq(t, 1, i - 1)) = HashAt(t, i - 1)
  BY <1>1, TailOfPrefix
<1>4. HashAt(s, i - 1) = HashAt(t, i - 1)
  BY <1>1 DEF HashAt
<1> QED  BY <1>2, <1>3, <1>4 DEF RowVerifies

\* A prefix of a log verifies if its rows do.
LEMMA PrefixVerifies ==
    ASSUME NEW E, NEW s \in Seq(Rows(E)), NEW k \in 0..Len(s)
    PROVE  Verifies(SubSeq(s, 1, k)) <=> \A i \in 1..k : RowVerifies(s, i)
<1> DEFINE p == SubSeq(s, 1, k)
<1>1. /\ p \in Seq(Rows(E)) /\ Len(p) = k
      /\ \A i \in 1..k : p[i] = s[i]
  BY PrefixType
<1> HIDE DEF p
<1>2. DOMAIN p = 1..k /\ Len(s) \in Nat /\ Len(p) <= Len(s)
  BY <1>1, LenProperties
<1>3. \A i \in 1..k : RowVerifies(s, i) <=> RowVerifies(p, i)
  BY <1>1, <1>2, RowVerifiesLater
<1>4. Verifies(p) <=> \A i \in 1..k : RowVerifies(s, i)
  BY <1>2, <1>3 DEF Verifies
<1> QED  BY <1>4 DEF p

\* Two places of a chain have the same hash only if they are one.
LEMMA HashAtInjective ==
    ASSUME NEW E, NEW s \in Seq(Rows(E)), Chained(s),
           NEW k \in 0..Len(s), NEW m \in 0..Len(s), HashAt(s, k) = HashAt(s, m)
    PROVE  k = m
<1>1. ASSUME NEW i \in 1..Len(s)
      PROVE  /\ s[i].event \in E
             /\ s[i].previous \in Seq(E)
             /\ HashAt(s, i) = Append(s[i].previous, s[i].event)
             /\ HashAt(s, i) # <<>>
  <2>1. s[i].event \in E /\ s[i].previous \in Seq(E)
    BY <1>1, RowOfRows
  <2>2. HashAt(s, i) = Append(s[i].previous, s[i].event)
    BY <1>1, LenProperties DEF HashAt, Chained, Hash
  <2> QED  BY <2>1, <2>2, AppendProperties
<1>2. CASE k = 0
  BY <1>1, <1>2 DEF HashAt
<1>3. CASE m = 0
  BY <1>1, <1>3 DEF HashAt
<1>4. CASE k # 0 /\ m # 0
  <2>1. k \in 1..Len(s) /\ m \in 1..Len(s)
    BY <1>4, LenProperties
  <2>2. Append(s[k].previous, s[k].event) = Append(s[m].previous, s[m].event)
    BY <1>1, <2>1
  <2>3. s[k].event = s[m].event
    BY <1>1, <2>1, <2>2, AppendInjective
  <2> QED  BY <2>1, <2>3 DEF Chained
<1> QED  BY <1>2, <1>3, <1>4

\* An append that read its hash after k rows keeps the chain a chain; what was
\* there stays, and the chain still verifies only if nothing came in between.
LEMMA AppendKeepsChain ==
    ASSUME NEW E, NEW s \in Seq(Rows(E)), Chained(s),
           NEW event \in E, \A i \in 1..Len(s) : s[i].event # event,
           NEW k \in 0..Len(s)
    PROVE  LET t == Append(s, Row(event, HashAt(s, k)))
           IN
           /\ t \in Seq(Rows(E))
           /\ Len(t) = Len(s) + 1
           /\ \A i \in 1..Len(s) : t[i] = s[i]
           /\ t[Len(s) + 1].event = event
           /\ t[Len(s) + 1].previous = HashAt(t, k)
           /\ \A m \in 0..Len(s) : HashAt(t, m) = HashAt(s, m)
           /\ Chained(t)
           /\ Verifies(t) <=> Verifies(s) /\ k = Len(s)
<1> DEFINE n == Len(s)
           r == Row(event, HashAt(s, k))
           t == Append(s, r)
<1>1. n \in Nat
  BY LenProperties
<1>2. /\ r \in Rows(E)
      /\ r.event = event
      /\ r.previous = HashAt(s, k)
      /\ r.hash = Hash(event, HashAt(s, k))
  BY HashAtType, RowType
<1> HIDE DEF r
<1>3. /\ t \in Seq(Rows(E))
      /\ Len(t) = n + 1
      /\ \A i \in 1..n : t[i] = s[i]
      /\ t[n + 1] = r
  BY <1>2, AppendProperties
<1> HIDE DEF t
<1>4. \A m \in 0..n : HashAt(t, m) = HashAt(s, m)
  BY <1>1, <1>3 DEF HashAt
<1>5. Chained(t)
  <2>1. \A i \in 1..(n + 1) : t[i].hash = Hash(t[i].event, t[i].previous)
    BY <1>1, <1>2, <1>3 DEF Chained
  <2>2. ASSUME NEW i \in 1..(n + 1)
        PROVE  \E m \in 0..(i - 1) : t[i].previous = HashAt(t, m)
    <3>1. CASE i = n + 1
      BY <1>1, <1>2, <1>3, <1>4, <3>1
    <3>2. CASE i # n + 1
      <4>1. i \in 1..n
        BY <1>1, <3>2
      <4>2. PICK m \in 0..(i - 1) : s[i].previous = HashAt(s, m)
        BY <4>1 DEF Chained
      <4> QED  BY <1>1, <1>3, <1>4, <4>1, <4>2
    <3> QED  BY <3>1, <3>2
  <2>3. \A i, j \in 1..(n + 1) : t[i].event = t[j].event => i = j
    BY <1>1, <1>2, <1>3 DEF Chained
  <2> QED  BY <1>3, <2>1, <2>2, <2>3 DEF Chained
<1>6. Verifies(t) <=> \A i \in 1..(n + 1) : t[i].previous = HashAt(t, i - 1)
  BY <1>3, <1>5, VerifiesLinks
<1>7. Verifies(s) <=> \A i \in 1..n : s[i].previous = HashAt(s, i - 1)
  BY VerifiesLinks
<1>8. t[n + 1].previous = HashAt(t, n) <=> k = n
  BY <1>1, <1>2, <1>3, <1>4, HashAtInjective
<1>9. Verifies(t) <=> Verifies(s) /\ k = n
  BY <1>1, <1>3, <1>4, <1>6, <1>7, <1>8
<1>10. /\ t \in Seq(Rows(E))
       /\ Len(t) = Len(s) + 1
       /\ \A i \in 1..Len(s) : t[i] = s[i]
       /\ t[Len(s) + 1].event = event
       /\ t[Len(s) + 1].previous = HashAt(t, k)
       /\ \A m \in 0..Len(s) : HashAt(t, m) = HashAt(s, m)
       /\ Chained(t)
       /\ Verifies(t) <=> Verifies(s) /\ k = Len(s)
  BY <1>1, <1>2, <1>3, <1>4, <1>5, <1>9
<1> QED  BY <1>10 DEF t, r

\* The events of a longer log are those of the log and the new one.
LEMMA EventsOfAppend ==
    ASSUME NEW E, NEW s \in Seq(Rows(E)), NEW r \in Rows(E)
    PROVE  EventsOf(Append(s, r)) = Append(EventsOf(s), r.event)
<1> DEFINE n == Len(s)
           t == Append(s, r)
<1>1. n \in Nat /\ DOMAIN s = 1..n /\ \A i \in 1..n : s[i].event \in E
  BY LenProperties, RowOfRows
<1>2. /\ t \in Seq(Rows(E)) /\ Len(t) = n + 1
      /\ \A i \in 1..n : t[i] = s[i]
      /\ t[n + 1] = r
  BY AppendProperties
<1>3. DOMAIN t = 1..(n + 1)
  BY <1>2, LenProperties
<1> HIDE DEF t
<1>4. EventsOf(t) = [i \in 1..(n + 1) |-> t[i].event]
  BY <1>3 DEF EventsOf
<1>5. EventsOf(s) = [i \in 1..n |-> s[i].event]
  BY <1>1 DEF EventsOf
<1>6. r.event \in E
  BY DEF Rows
<1>7. EventsOf(s) \in Seq(E) /\ Len(EventsOf(s)) = n
  BY <1>1, <1>5
<1>8. /\ Append(EventsOf(s), r.event) \in Seq(E)
      /\ Len(Append(EventsOf(s), r.event)) = n + 1
      /\ \A i \in 1..n : Append(EventsOf(s), r.event)[i] = EventsOf(s)[i]
      /\ Append(EventsOf(s), r.event)[n + 1] = r.event
  BY <1>6, <1>7, AppendProperties
<1>9. EventsOf(t) \in Seq(E) /\ Len(EventsOf(t)) = n + 1
  BY <1>1, <1>2, <1>4, <1>6
<1>10. \A i \in 1..(n + 1) : EventsOf(t)[i] = Append(EventsOf(s), r.event)[i]
  BY <1>1, <1>2, <1>4, <1>5, <1>8
<1>11. EventsOf(t) = Append(EventsOf(s), r.event)
  BY <1>8, <1>9, <1>10, SeqEqual
<1> QED  BY <1>11 DEF t
=============================================================================
