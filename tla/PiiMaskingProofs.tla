--------------------------- MODULE PiiMaskingProofs ---------------------------
(***************************************************************************)
(* Theorems about PiiMasking, for texts, patterns, tokens and numbers of   *)
(* matches of any size.                                                    *)
(***************************************************************************)
EXTENDS PiiMasking, ListProofs

\* The counters stay inside the lists.
InRange ==
    /\ Len(found) <= MaxMatches
    /\ at = "sort" => sorted = <<>> /\ filtered = <<>> /\ next = 1
    /\ at # "sort" => Len(sorted) = Len(found)
    /\ at = "filter" => next \in 1..(Len(sorted) + 1) /\ Len(filtered) <= next - 1
    /\ Len(filtered) <= Len(sorted)
    /\ at \in {"mask", "done"} => next \in 0..Len(filtered)
    /\ lastEnd = IF filtered = <<>> THEN -1 ELSE filtered[Len(filtered)].end

\* What is still to be masked has not moved.
TextLongEnough ==
    /\ at \in {"sort", "filter"} => Len(text) = TextLength
    /\ at = "mask" /\ next > 0 => filtered[next].end <= Len(text)

\* The matches after the sort: the same, by start and the longest first.
SortedRight ==
    at # "sort" =>
        /\ \A k, l \in DOMAIN sorted : k < l =>
               /\ sorted[k].start <= sorted[l].start
               /\ sorted[k].start = sorted[l].start => sorted[k].end >= sorted[l].end
        /\ \A i \in DOMAIN found : \E k \in DOMAIN sorted : sorted[k] = found[i]
        /\ \A k \in DOMAIN sorted : \E i \in DOMAIN found : sorted[k] = found[i]

\* The finding f hides the match m's first character, or all of it.
Hides(f, m) == Covers(f, m) /\ (f.start = m.start => m.end <= f.end)

Filtered == IF at = "filter" THEN 1 .. next - 1 ELSE DOMAIN sorted

\* What the filter has done so far.
FilteredRight ==
    at # "sort" =>
        /\ \A k \in DOMAIN filtered : \E m \in Filtered : filtered[k] = sorted[m]
        /\ \A m \in Filtered : \E k \in DOMAIN filtered : Hides(filtered[k], sorted[m])

MaskingInv ==
    /\ TypeOK
    /\ InRange
    /\ TextLongEnough
    /\ SortedRight
    /\ FilteredRight
    /\ FindingsAreDisjoint

LEMMA InitMasking == Init => MaskingInv
<1> SUFFICES ASSUME Init PROVE MaskingInv
  OBVIOUS
<1>1. PICK n \in 0..MaxMatches : found \in [1..n -> Spans]
  BY DEF Init, MatchLists
<1>2. found \in Seq(Spans) /\ Len(found) = n
  BY <1>1, MaskingAssumption DEF MaskingAssumption
<1>3. text \in Seq(Int)
  BY MaskingAssumption DEF Init, MaskingAssumption
<1>3a. TextLongEnough
  BY MaskingAssumption DEF Init, MaskingAssumption, TextLongEnough
<1>4. sorted \in Seq(Spans) /\ filtered \in Seq(Spans) /\ Len(sorted) = 0 /\ Len(filtered) = 0
  BY DEF Init
<1>5. TypeOK
  BY <1>2, <1>3, <1>4, MaskingAssumption DEF TypeOK, Init, MaskingAssumption
<1>6. InRange
  BY <1>2, <1>4, MaskingAssumption DEF InRange, Init, MaskingAssumption
<1> QED
  BY <1>3a, <1>4, <1>5, <1>6 DEF MaskingInv, SortedRight, FilteredRight, FindingsAreDisjoint, Init

LEMMA SortKeepsInv == MaskingInv /\ SortMatches => MaskingInv'
<1> SUFFICES ASSUME MaskingInv, SortMatches PROVE MaskingInv'
  OBVIOUS
<1> USE DEF MaskingInv
<1>1. PICK order \in [DOMAIN found -> DOMAIN found] :
          /\ \A i \in DOMAIN found : \E k \in DOMAIN found : order[k] = i
          /\ \A k, l \in DOMAIN found : k < l => Precedes(found, order[k], order[l])
          /\ sorted' = [k \in DOMAIN found |-> found[order[k]]]
  BY DEF SortMatches
<1>2. found \in Seq(Spans) /\ DOMAIN found = 1..Len(found) /\ Len(found) \in Nat
  BY DEF TypeOK
<1>3. sorted' \in Seq(Spans) /\ Len(sorted') = Len(found) /\ DOMAIN sorted' = DOMAIN found
  BY <1>1, <1>2
<1>4. at = "sort" /\ at' = "filter" /\ filtered = <<>> /\ next = 1
      /\ UNCHANGED <<found, filtered, lastEnd, next, text>>
  BY DEF SortMatches, InRange
<1>5. TypeOK'
  BY <1>3, <1>4 DEF TypeOK
<1>6. InRange'
  BY <1>2, <1>3, <1>4 DEF InRange
<1>7. SortedRight'
  <2>1. ASSUME NEW k \in DOMAIN found, NEW l \in DOMAIN found, k < l
        PROVE  /\ sorted'[k].start <= sorted'[l].start
               /\ sorted'[k].start = sorted'[l].start => sorted'[k].end >= sorted'[l].end
    <3>0. order[k] \in DOMAIN found /\ order[l] \in DOMAIN found
      BY <1>1
    <3>1. found[order[k]] \in Spans /\ found[order[l]] \in Spans
      BY <1>2, <3>0
    <3>2. Precedes(found, order[k], order[l])
      BY <1>1, <2>1
    <3>3. sorted'[k] = found[order[k]] /\ sorted'[l] = found[order[l]]
      BY <1>1
    <3> QED
      BY <3>1, <3>2, <3>3, MaskingAssumption
         DEF Precedes, SpanLength, Spans, MaskingAssumption
  <2>2. \A i \in DOMAIN found : \E k \in DOMAIN found : sorted'[k] = found[i]
    BY <1>1
  <2>3. \A k \in DOMAIN found : \E i \in DOMAIN found : sorted'[k] = found[i]
    BY <1>1
  <2> QED
    BY <1>3, <1>4, <2>1, <2>2, <2>3 DEF SortedRight
<1>8. FilteredRight'
  BY <1>4 DEF FilteredRight, Filtered
<1>9. FindingsAreDisjoint'
  BY <1>4 DEF FindingsAreDisjoint
<1>10. TextLongEnough'
  BY <1>4 DEF TextLongEnough
<1> QED
  BY <1>5, <1>6, <1>7, <1>8, <1>9, <1>10

\* A match that starts before last_end is hidden by the last finding.
LEMMA DroppedIsHidden ==
    ASSUME MaskingInv, at = "filter", next <= Len(sorted), sorted[next].start < lastEnd
    PROVE  /\ Len(filtered) \in DOMAIN filtered
           /\ Hides(filtered[Len(filtered)], sorted[next])
<1> USE DEF MaskingInv
<1>1. sorted \in Seq(Spans) /\ filtered \in Seq(Spans) /\ next \in 1..Len(sorted)
  BY DEF TypeOK, InRange
<1>2. sorted[next] \in Spans
  BY <1>1
<1>3. filtered # <<>> /\ lastEnd = filtered[Len(filtered)].end
  BY <1>2, MaskingAssumption DEF InRange, Spans, MaskingAssumption
<1>4. Len(filtered) \in DOMAIN filtered
  BY <1>1, <1>3
<1>5. PICK m \in 1 .. next - 1 : filtered[Len(filtered)] = sorted[m]
  BY <1>4 DEF FilteredRight, Filtered
<1>6. m \in DOMAIN sorted /\ next \in DOMAIN sorted /\ m < next
  BY <1>1, <1>5
<1>7. /\ sorted[m].start <= sorted[next].start
      /\ sorted[m].start = sorted[next].start => sorted[m].end >= sorted[next].end
  BY <1>6 DEF SortedRight
<1>8. sorted[m] \in Spans
  BY <1>1, <1>6
<1> QED
  BY <1>2, <1>3, <1>4, <1>5, <1>7, <1>8, MaskingAssumption
     DEF Hides, Covers, Spans, MaskingAssumption

LEMMA FilterKeepsInv == MaskingInv /\ FilterMatch => MaskingInv'
<1> SUFFICES ASSUME MaskingInv, FilterMatch PROVE MaskingInv'
  OBVIOUS
<1> USE DEF MaskingInv
<1>1. /\ at = "filter" /\ at' = "filter" /\ next <= Len(sorted) /\ next' = next + 1
      /\ UNCHANGED <<found, sorted, text>>
  BY DEF FilterMatch
<1>2. sorted \in Seq(Spans) /\ filtered \in Seq(Spans) /\ next \in 1..Len(sorted)
      /\ Len(sorted) \in Nat /\ Len(filtered) \in Nat
  BY <1>1 DEF TypeOK, InRange
<1>3. sorted[next] \in Spans
  BY <1>2
<1>4. SortedRight'
  BY <1>1 DEF SortedRight
<1>5. Filtered = 1 .. next - 1 /\ Filtered' = 1 .. next
  BY <1>1, <1>2 DEF Filtered
<1>5a. next' \in 0..(MaxMatches + 1) /\ next' \in 1..(Len(sorted) + 1)
  BY <1>1, <1>2, MaskingAssumption DEF InRange, TypeOK, MaskingAssumption
<1>5b. TextLongEnough'
  BY <1>1 DEF TextLongEnough
<1>6. CASE sorted[next].start < lastEnd
  <2>1. UNCHANGED <<filtered, lastEnd>>
    BY <1>6 DEF FilterMatch
  <2>2. TypeOK'
    BY <1>1, <1>5a, <2>1 DEF TypeOK
  <2>2a. InRange'
    BY <1>1, <1>2, <1>5a, <2>1 DEF InRange
  <2>3. FilteredRight'
    <3>1. Len(filtered) \in DOMAIN filtered /\ Hides(filtered[Len(filtered)], sorted[next])
      BY <1>1, <1>6, DroppedIsHidden
    <3>2. ASSUME NEW k \in DOMAIN filtered PROVE \E m \in 1..next : filtered[k] = sorted[m]
      <4>1. PICK m \in 1 .. next - 1 : filtered[k] = sorted[m]
        BY <1>1, <1>5 DEF FilteredRight
      <4>2. m \in 1..next
        BY <1>2, <4>1
      <4> QED
        BY <4>1, <4>2
    <3>3. ASSUME NEW m \in 1..next PROVE \E k \in DOMAIN filtered : Hides(filtered[k], sorted[m])
      <4>1. CASE m = next
        BY <3>1, <4>1
      <4>2. CASE m # next
        <5>1. m \in 1 .. next - 1
          BY <1>2, <4>2
        <5> QED
          BY <1>1, <1>5, <5>1 DEF FilteredRight
      <4> QED
        BY <4>1, <4>2
    <3> QED
      BY <1>1, <1>5, <2>1, <3>2, <3>3 DEF FilteredRight
  <2>4. FindingsAreDisjoint'
    BY <2>1 DEF FindingsAreDisjoint
  <2> QED
    BY <1>4, <1>5b, <2>2, <2>2a, <2>3, <2>4
<1>7. CASE ~(sorted[next].start < lastEnd)
  <2>1. filtered' = Append(filtered, sorted[next]) /\ lastEnd' = sorted[next].end
    BY <1>7 DEF FilterMatch
  <2>2. /\ filtered' \in Seq(Spans) /\ Len(filtered') = Len(filtered) + 1
        /\ filtered'[Len(filtered) + 1] = sorted[next]
        /\ \A k \in DOMAIN filtered : filtered'[k] = filtered[k]
        /\ DOMAIN filtered' = 1 .. Len(filtered) + 1
    BY <1>2, <1>3, <2>1
  <2>3. TypeOK'
    <3>1. lastEnd' \in -1..TextLength
      BY <1>3, <2>1, MaskingAssumption DEF Spans, MaskingAssumption
    <3> QED
      BY <1>1, <1>5a, <2>2, <3>1 DEF TypeOK
  <2>4. InRange'
    <3>1. filtered' # <<>> /\ lastEnd' = filtered'[Len(filtered')].end
      BY <1>2, <2>1, <2>2
    <3> QED
      BY <1>1, <1>2, <1>5a, <2>2, <3>1 DEF InRange
  <2>5. FilteredRight'
    <3>1. Hides(sorted[next], sorted[next])
      BY <1>3, MaskingAssumption DEF Hides, Covers, Spans, MaskingAssumption
    <3>2. ASSUME NEW k \in DOMAIN filtered' PROVE \E m \in 1..next : filtered'[k] = sorted[m]
      <4>1. CASE k = Len(filtered) + 1
        BY <1>2, <2>2, <4>1
      <4>2. CASE k # Len(filtered) + 1
        <5>1. k \in DOMAIN filtered /\ filtered'[k] = filtered[k]
          BY <1>2, <2>2, <4>2
        <5>2. PICK m \in 1 .. next - 1 : filtered[k] = sorted[m]
          BY <1>1, <1>5, <5>1 DEF FilteredRight
        <5>3. m \in 1..next
          BY <1>2, <5>2
        <5> QED
          BY <5>1, <5>2, <5>3
      <4> QED
        BY <4>1, <4>2
    <3>3. ASSUME NEW m \in 1..next
          PROVE  \E k \in DOMAIN filtered' : Hides(filtered'[k], sorted[m])
      <4>1. CASE m = next
        BY <1>2, <2>2, <3>1, <4>1
      <4>2. CASE m # next
        <5>0. m \in 1 .. next - 1
          BY <1>2, <4>2
        <5>1. PICK k \in DOMAIN filtered : Hides(filtered[k], sorted[m])
          BY <1>1, <1>5, <5>0 DEF FilteredRight
        <5> QED
          BY <1>2, <2>2, <5>1
      <4> QED
        BY <4>1, <4>2
    <3> QED
      BY <1>1, <1>5, <3>2, <3>3 DEF FilteredRight, Hides, Covers
  <2>6. FindingsAreDisjoint'
    <3>1. ASSUME NEW i \in DOMAIN filtered PROVE filtered[i].end <= sorted[next].start
      <4>1. /\ filtered # <<>> /\ Len(filtered) \in DOMAIN filtered
            /\ i <= Len(filtered) /\ lastEnd = filtered[Len(filtered)].end
        BY <1>2, <3>1 DEF InRange
      <4>2. filtered[i] \in Spans /\ filtered[Len(filtered)] \in Spans
        BY <1>2, <4>1
      <4>3. i = Len(filtered) \/ filtered[i].end <= filtered[Len(filtered)].start
        BY <1>2, <4>1 DEF FindingsAreDisjoint
      <4> QED
        BY <1>3, <1>7, <4>1, <4>2, <4>3, MaskingAssumption DEF Spans, MaskingAssumption
    <3>2. ASSUME NEW i \in DOMAIN filtered', NEW j \in DOMAIN filtered', i < j
          PROVE  filtered'[i].end <= filtered'[j].start
      <4>1. i \in DOMAIN filtered /\ filtered'[i] = filtered[i]
        BY <1>2, <2>2, <3>2
      <4>2. CASE j = Len(filtered) + 1
        BY <2>2, <3>1, <4>1, <4>2
      <4>3. CASE j # Len(filtered) + 1
        <5>1. j \in DOMAIN filtered /\ filtered'[j] = filtered[j]
          BY <1>2, <2>2, <4>3
        <5> QED
          BY <3>2, <4>1, <5>1 DEF FindingsAreDisjoint
      <4> QED
        BY <4>2, <4>3
    <3> QED
      BY <3>2 DEF FindingsAreDisjoint
  <2> QED
    BY <1>4, <1>5b, <2>3, <2>4, <2>5, <2>6
<1> QED
  BY <1>6, <1>7

LEMMA Concatenation ==
    ASSUME NEW S, NEW a \in Seq(S), NEW b \in Seq(S)
    PROVE  a \o b \in Seq(S) /\ Len(a \o b) = Len(a) + Len(b)
  OBVIOUS

LEMMA MaskKeepsInv == MaskingInv /\ (StartMasking \/ MaskFinding \/ Return) => MaskingInv'
<1> SUFFICES ASSUME MaskingInv, StartMasking \/ MaskFinding \/ Return PROVE MaskingInv'
  OBVIOUS
<1> USE DEF MaskingInv
<1>1. /\ UNCHANGED <<found, sorted, filtered, lastEnd>>
      /\ at \in {"filter", "mask"} /\ at' \in {"mask", "done"}
  BY DEF StartMasking, MaskFinding, Return
<1>2. /\ sorted \in Seq(Spans) /\ filtered \in Seq(Spans)
      /\ Len(sorted) \in Nat /\ Len(filtered) \in Nat
  BY DEF TypeOK
<1>3. next' \in 0..Len(filtered) /\ (at = "filter" => next > Len(sorted))
  BY <1>2 DEF StartMasking, MaskFinding, Return, InRange
<1>4. Filtered = DOMAIN sorted /\ Filtered' = DOMAIN sorted
  BY <1>1, <1>2, <1>3 DEF Filtered, InRange
<1>5. text' \in Seq(Int) /\ TextLongEnough'
  <2>1. CASE StartMasking \/ Return
    <3>1. next' > 0 => filtered[next'] \in Spans
      BY <1>2, <1>3
    <3> QED
      BY <1>1, <2>1, <3>1, MaskingAssumption
         DEF StartMasking, Return, TypeOK, TextLongEnough, Spans, MaskingAssumption
  <2>2. CASE MaskFinding
    <3> DEFINE s == filtered[next]
    <3>1. next \in DOMAIN filtered
      BY <1>2, <2>2 DEF MaskFinding, InRange
    <3>2. s \in Spans
      BY <1>2, <3>1
    <3>3. Token(s.pattern) \in Seq(Int)
      <4>1. s.pattern \in Nat
        BY <3>2, MaskingAssumption DEF Spans, MaskingAssumption
      <4>2. -s.pattern \in Int
        BY <4>1
      <4>3. Token(s.pattern) \in [1..TokenLength -> Int]
        BY <4>2 DEF Token
      <4> QED
        BY <4>3, MaskingAssumption DEF MaskingAssumption
    <3>4. text \in Seq(Int) /\ Len(text) \in Nat
      BY DEF TypeOK
    <3>5. s.start \in Nat /\ s.end \in Nat
      BY <3>2, MaskingAssumption DEF Spans, MaskingAssumption
    <3>5a. s.start < s.end /\ s.end <= Len(text)
      BY <2>2, <3>2 DEF Spans, TextLongEnough, MaskFinding
    <3>6. text' = (SubSeq(text, 1, s.start) \o Token(s.pattern))
                      \o SubSeq(text, s.end + 1, Len(text))
      BY <2>2 DEF MaskFinding
    <3>7. SubSeq(text, 1, s.start) \in Seq(Int) /\ Len(SubSeq(text, 1, s.start)) = s.start
      BY <3>4, <3>5, <3>5a
    <3>8. SubSeq(text, s.end + 1, Len(text)) \in Seq(Int)
      BY <3>4, <3>5, <3>5a
    <3>9. /\ Len(Token(s.pattern)) \in Nat
          /\ Len(SubSeq(text, s.end + 1, Len(text))) \in Nat
      BY <3>3, <3>8
    <3>10. text' \in Seq(Int) /\ s.start <= Len(text')
      <4> DEFINE left == SubSeq(text, 1, s.start)
                 middle == Token(s.pattern)
                 right == SubSeq(text, s.end + 1, Len(text))
      <4>1. left \in Seq(Int) /\ middle \in Seq(Int) /\ right \in Seq(Int) /\ Len(left) = s.start
        BY <3>3, <3>7, <3>8
      <4>2. text' = (left \o middle) \o right
        BY <3>6
      <4>3. Len(middle) \in Nat /\ Len(right) \in Nat
        BY <3>9
      <4> HIDE DEF left, middle, right
      <4>4. left \o middle \in Seq(Int) /\ Len(left \o middle) = Len(left) + Len(middle)
        BY <4>1, Concatenation
      <4>5. (left \o middle) \o right \in Seq(Int)
            /\ Len((left \o middle) \o right) = Len(left \o middle) + Len(right)
        BY <4>1, <4>4, Concatenation
      <4> QED
        BY <3>5, <4>1, <4>2, <4>3, <4>4, <4>5
    <3>11. at' = "mask" /\ next' > 0 => filtered[next'].end <= s.start
      <4>1. next' = next - 1 /\ next \in 1..Len(filtered)
        BY <1>2, <2>2, <3>1 DEF MaskFinding
      <4>2. next' > 0 => next' \in DOMAIN filtered /\ next' < next
        BY <1>2, <4>1
      <4> QED
        BY <3>1, <4>2 DEF FindingsAreDisjoint
    <3>12. at' = "mask" /\ next' > 0 => filtered[next'].end <= Len(text')
      <4>1. at' = "mask" /\ next' > 0 => filtered[next'] \in Spans
        BY <1>2, <1>3
      <4>2. Len(text') \in Nat
        BY <3>10
      <4> QED
        BY <3>5, <3>10, <3>11, <4>1, <4>2, MaskingAssumption DEF Spans, MaskingAssumption
    <3> QED
      BY <1>1, <2>2, <3>10, <3>12 DEF TextLongEnough, MaskFinding
  <2> QED
    BY <2>1, <2>2
<1>6. TypeOK'
  BY <1>1, <1>2, <1>3, <1>5, MaskingAssumption DEF TypeOK, InRange, MaskingAssumption
<1>7. InRange'
  BY <1>1, <1>2, <1>3 DEF InRange
<1>8. SortedRight'
  BY <1>1 DEF SortedRight
<1>9. FilteredRight'
  BY <1>1, <1>4 DEF FilteredRight, Hides, Covers
<1>10. FindingsAreDisjoint'
  BY <1>1 DEF FindingsAreDisjoint
<1> QED
  BY <1>5, <1>6, <1>7, <1>8, <1>9, <1>10

LEMMA StepKeepsMasking == MaskingInv /\ [Next]_vars => MaskingInv'
<1> SUFFICES ASSUME MaskingInv, [Next]_vars PROVE MaskingInv'
  OBVIOUS
<1>1. CASE UNCHANGED vars
  BY <1>1 DEF vars, MaskingInv, TypeOK, InRange, TextLongEnough, SortedRight, FilteredRight,
              Filtered, Hides, Covers, FindingsAreDisjoint
<1>2. CASE Next
  BY <1>2, SortKeepsInv, FilterKeepsInv, MaskKeepsInv DEF Next
<1> QED
  BY <1>1, <1>2

LEMMA MaskingInvariant == Spec => []MaskingInv
  BY InitMasking, StepKeepsMasking, PTL DEF Spec

\* The lists hold spans and the counters stay in their ranges.
THEOREM MaskingTypeCorrect == Spec => []TypeOK
<1>1. MaskingInv => TypeOK
  BY DEF MaskingInv
<1> QED
  BY <1>1, MaskingInvariant, PTL

\* No two findings share a character: a match is only kept if it starts at or
\* after last_end, and last_end is the end of the last finding.
THEOREM FindingsDisjointCorrect == Spec => []FindingsAreDisjoint
<1>1. MaskingInv => FindingsAreDisjoint
  BY DEF MaskingInv
<1> QED
  BY <1>1, MaskingInvariant, PTL

\* A match is masked but for a tail behind a finding that started before it: the
\* sort puts the longest of those that start together first.
THEOREM OnlyTailsRemainCorrect == Spec => []OnlyTailsRemain
<1>1. MaskingInv => OnlyTailsRemain
  <2> SUFFICES ASSUME MaskingInv, at \in {"mask", "done"} PROVE OnlyTailsRemain
    BY DEF OnlyTailsRemain
  <2>1. at # "sort" /\ Filtered = DOMAIN sorted
    BY DEF Filtered
  <2>2. ASSUME NEW i \in DOMAIN found
        PROVE  \E k \in DOMAIN filtered : Hides(filtered[k], found[i])
    <3>1. PICK m \in DOMAIN sorted : sorted[m] = found[i]
      BY <2>1 DEF MaskingInv, SortedRight
    <3> QED
      BY <2>1, <3>1 DEF MaskingInv, FilteredRight
  <2>3. ASSUME NEW k \in DOMAIN filtered
        PROVE  \E i \in DOMAIN found : filtered[k] = found[i]
    <3>1. PICK m \in DOMAIN sorted : filtered[k] = sorted[m]
      BY <2>1 DEF MaskingInv, FilteredRight
    <3> QED
      BY <2>1, <3>1 DEF MaskingInv, SortedRight
  <2>4. ASSUME NEW i \in DOMAIN found
        PROVE  \E k \in DOMAIN filtered :
                   /\ Covers(filtered[k], found[i])
                   /\ filtered[k].end < found[i].end => filtered[k].start < found[i].start
    <3>1. PICK k \in DOMAIN filtered : Hides(filtered[k], found[i])
      BY <2>2
    <3>2. filtered[k] \in Spans /\ found[i] \in Spans
      BY DEF MaskingInv, TypeOK
    <3>3. filtered[k].start \in Int /\ filtered[k].end \in Int
          /\ found[i].start \in Int /\ found[i].end \in Int
      BY <3>2, MaskingAssumption DEF Spans, MaskingAssumption
    <3>4. filtered[k].end < found[i].end => filtered[k].start < found[i].start
      BY <3>1, <3>3 DEF Hides, Covers
    <3> QED
      BY <3>1, <3>4 DEF Hides
  <2> QED
    BY <2>3, <2>4 DEF OnlyTailsRemain
<1> QED
  BY <1>1, MaskingInvariant, PTL

----------------------------------------------------------------------------
(* What FlattenSeq returns, as the list of what it has put together after  *)
(* each of its elements.                                                   *)

\* G[i] is the first i lists of seqs, one after the other.
Flattens(seqs, n, G, T) ==
    /\ G \in [0..n -> Seq(T)]
    /\ G[0] = <<>>
    /\ \A i \in 1..n : G[i] = G[i - 1] \o seqs[i]

\* What lists have in common, or are, after the a-th and up to the b-th.
Same(seqs, others, a, b) == \A i \in (a + 1)..b : seqs[i] = others[i]
Empty(seqs, a, b)        == \A i \in (a + 1)..b : seqs[i] = <<>>
Unchanged(seqs, b)       == \A i \in 1..b : seqs[i] = <<i>>

\* There is such a G for every list of lists.
LEMMA FlatteningExists ==
    ASSUME NEW T, NEW N \in Nat, NEW seqs \in [1..N -> Seq(T)]
    PROVE  \E G : Flattens(seqs, N, G, T)
<1> DEFINE Done == {n \in 0..N : \E G : Flattens(seqs, n, G, T)}
<1>1. 0 \in Done
  <2>1. Flattens(seqs, 0, [i \in 0..0 |-> <<>>], T)
    BY EmptySeq DEF Flattens
  <2> QED  BY <2>1
<1>2. ASSUME NEW n \in 0..(N - 1), n \in Done PROVE n + 1 \in Done
  <2>1. PICK G : Flattens(seqs, n, G, T)
    BY <1>2
  <2> DEFINE H == [i \in 0..(n + 1) |-> IF i = n + 1 THEN G[n] \o seqs[n + 1] ELSE G[i]]
  <2>2. G[n] \in Seq(T) /\ seqs[n + 1] \in Seq(T)
    BY <2>1 DEF Flattens
  <2>3. G[n] \o seqs[n + 1] \in Seq(T)
    BY <2>2, ConcatProperties
  <2>4. Flattens(seqs, n + 1, H, T)
    <3>1. H \in [0..(n + 1) -> Seq(T)]
      BY <2>1, <2>3 DEF Flattens
    <3>2. H[0] = <<>>
      BY <2>1 DEF Flattens
    <3>3. ASSUME NEW i \in 1..(n + 1) PROVE H[i] = H[i - 1] \o seqs[i]
      <4>1. CASE i = n + 1
        <5>1. i \in 0..(n + 1) /\ i - 1 \in 0..(n + 1) /\ i - 1 = n /\ i - 1 # n + 1
          BY <4>1
        <5>2. H[i] = G[n] \o seqs[n + 1] /\ H[i - 1] = G[i - 1]
          BY <4>1, <5>1
        <5> QED  BY <4>1, <5>1, <5>2
      <4>2. CASE i # n + 1
        <5>1. /\ i \in 0..(n + 1) /\ i - 1 \in 0..(n + 1) /\ i - 1 # n + 1
              /\ i \in 1..n
          BY <4>2
        <5>2. H[i] = G[i] /\ H[i - 1] = G[i - 1]
          BY <4>2, <5>1
        <5>3. G[i] = G[i - 1] \o seqs[i]
          BY <2>1, <5>1 DEF Flattens
        <5> QED  BY <5>2, <5>3
      <4> QED  BY <4>1, <4>2
    <3> HIDE DEF H
    <3> QED  BY <3>1, <3>2, <3>3 DEF Flattens
  <2> QED  BY <2>4
<1> HIDE DEF Done
<1>3. \A n \in 0..N : n \in Done
  BY <1>1, <1>2, SetInduction
<1> QED  BY <1>3 DEF Done

\* The recursive function of FlattenSeq computes it.
LEMMA FlattenSeqFlattens ==
    ASSUME NEW T, NEW N \in Nat, NEW seqs \in [1..N -> Seq(T)]
    PROVE  \E G : Flattens(seqs, N, G, T) /\ FlattenSeq(seqs) = G[N]
<1>1. PICK G : Flattens(seqs, N, G, T)
  BY FlatteningExists
<1>2. Len(seqs) = N
  OBVIOUS
<1>3. CASE N = 0
  BY <1>1, <1>2, <1>3 DEF FlattenSeq, Flattens
<1>4. CASE N # 0
  <2> DEFINE g == [i \in 1..N |-> G[i]]
             f == CHOOSE h : h = [i \in 1..N |-> IF i = 1 THEN seqs[i] ELSE h[i - 1] \o seqs[i]]
  <2>1. FlattenSeq(seqs) = f[N]
    BY <1>2, <1>4 DEF FlattenSeq
  <2>2. \A i \in 1..N : g[i] = IF i = 1 THEN seqs[i] ELSE g[i - 1] \o seqs[i]
    <3> TAKE i \in 1..N
    <3>1. G[i] = G[i - 1] \o seqs[i] /\ seqs[i] \in Seq(T) /\ G[0] = <<>>
      BY <1>1 DEF Flattens
    <3>2. CASE i = 1
      <4>1. <<>> \o seqs[i] = seqs[i]
        BY <3>1, ConcatEmptySeq
      <4>2. g[i] = G[i] /\ i - 1 = 0
        BY <3>2
      <4>3. G[i] = seqs[i]
        BY <3>1, <4>1, <4>2
      <4> HIDE DEF g
      <4> QED  BY <3>2, <4>2, <4>3
    <3>3. CASE i # 1
      <4>1. i - 1 \in 1..N
        BY <3>3
      <4>2. g[i] = G[i] /\ g[i - 1] = G[i - 1]
        BY <4>1
      <4> QED  BY <3>1, <3>3, <4>2
    <3> QED  BY <3>2, <3>3
  <2>3. g = [i \in 1..N |-> IF i = 1 THEN seqs[i] ELSE g[i - 1] \o seqs[i]]
    BY <2>2
  <2> HIDE DEF g
  <2>4. f = [i \in 1..N |-> IF i = 1 THEN seqs[i] ELSE f[i - 1] \o seqs[i]]
    BY <2>3
  <2> HIDE DEF f
  <2> DEFINE F == [i \in 0..N |-> IF i = 0 THEN <<>> ELSE f[i]]
  <2>5. \A i \in 1..N : f[i] = IF i = 1 THEN seqs[i] ELSE f[i - 1] \o seqs[i]
    BY <2>4
  <2>6. ASSUME NEW i \in 1..N PROVE F[i] = F[i - 1] \o seqs[i]
    <3>1. F[i] = f[i] /\ seqs[i] \in Seq(T)
      OBVIOUS
    <3>2. CASE i = 1
      <4>1. F[i - 1] = <<>>
        BY <3>2
      <4>2. <<>> \o seqs[i] = seqs[i]
        BY <3>1, ConcatEmptySeq
      <4>3. f[i] = seqs[i]
        BY <2>5, <3>2
      <4> QED  BY <3>1, <4>1, <4>2, <4>3
    <3>3. CASE i # 1
      <4>1. F[i - 1] = f[i - 1]
        BY <3>3
      <4>2. f[i] = f[i - 1] \o seqs[i]
        BY <2>5, <3>3
      <4> QED  BY <3>1, <4>1, <4>2
    <3> QED  BY <3>2, <3>3
  <2>7. F[0] = <<>> /\ F[N] = f[N] /\ DOMAIN F = 0..N /\ F = [i \in 0..N |-> F[i]]
    BY <1>4
  <2> HIDE DEF F
  <2> DEFINE Typed == {n \in 0..N : F[n] \in Seq(T)}
  <2>8. \A n \in 0..N : n \in Typed
    <3>1. 0 \in Typed
      <4>1. <<>> \in Seq(T) /\ 0 \in 0..N
        BY EmptySeq
      <4> QED  BY <2>7, <4>1
    <3>2. ASSUME NEW n \in 0..(N - 1), n \in Typed PROVE n + 1 \in Typed
      <4>1. n + 1 \in 1..N /\ n + 1 \in 0..N /\ (n + 1) - 1 = n /\ seqs[n + 1] \in Seq(T)
        OBVIOUS
      <4>2. F[n + 1] = F[n] \o seqs[n + 1]
        BY <2>6, <4>1
      <4>3. F[n] \o seqs[n + 1] \in Seq(T)
        BY <3>2, <4>1, ConcatProperties
      <4>4. F[n + 1] \in Seq(T)
        BY <4>2, <4>3
      <4> QED  BY <4>1, <4>4
    <3> HIDE DEF Typed
    <3> QED  BY <3>1, <3>2, SetInduction
  <2>9. Flattens(seqs, N, F, T)
    <3>1. F \in [0..N -> Seq(T)]
      BY <2>7, <2>8
    <3> QED  BY <2>6, <2>7, <3>1 DEF Flattens
  <2> QED  BY <2>1, <2>7, <2>9
<1> QED  BY <1>3, <1>4

\* Empty lists add nothing.
LEMMA FlattensEmpty ==
    ASSUME NEW T, NEW N \in Nat, NEW seqs, NEW G, Flattens(seqs, N, G, T),
           NEW a \in 0..N, NEW b \in a..N, Empty(seqs, a, b)
    PROVE  G[b] = G[a]
<1> DEFINE Equal == {n \in 0..(b - a) : G[a + n] = G[a]}
<1>1. 0 \in Equal
  OBVIOUS
<1>2. ASSUME NEW n \in 0..((b - a) - 1), n \in Equal PROVE n + 1 \in Equal
  <2>1. /\ n + 1 \in 0..(b - a) /\ a + (n + 1) \in (a + 1)..b /\ a + (n + 1) \in 1..N
        /\ a + n \in 0..N /\ (a + (n + 1)) - 1 = a + n
    OBVIOUS
  <2>2. G[a + (n + 1)] = G[a + n] \o seqs[a + (n + 1)]
    BY <2>1 DEF Flattens
  <2>3. G[a + n] \in Seq(T) /\ seqs[a + (n + 1)] = <<>> /\ G[a + n] = G[a]
    BY <1>2, <2>1 DEF Flattens, Empty
  <2>4. G[a + n] \o <<>> = G[a + n]
    BY <2>3, ConcatEmptySeq
  <2>5. G[a + (n + 1)] = G[a]
    BY <2>2, <2>3, <2>4
  <2> QED  BY <2>1, <2>5
<1>3. b - a \in Nat /\ a + (b - a) = b
  OBVIOUS
<1> HIDE DEF Equal
<1>4. \A n \in 0..(b - a) : n \in Equal
  BY <1>1, <1>2, <1>3, SetInduction
<1>5. b - a \in Equal
  BY <1>3, <1>4
<1> QED  BY <1>3, <1>5 DEF Equal

\* What G and H add from the b-th to the N-th is the same.
AddTheSame(G, H, b, N, T) == \E x \in Seq(T) : G[N] = G[b] \o x /\ H[N] = H[b] \o x

\* What is added after b is the same for lists that agree after b.
LEMMA FlattensTail ==
    ASSUME NEW T, NEW N \in Nat, NEW seqs \in [1..N -> Seq(T)], NEW others, NEW G, NEW H,
           Flattens(seqs, N, G, T), Flattens(others, N, H, T),
           NEW b \in 0..N, Same(seqs, others, b, N)
    PROVE  AddTheSame(G, H, b, N, T)
<1> DEFINE Agreeing == {n \in 0..(N - b) :
                           \E x \in Seq(T) : G[b + n] = G[b] \o x /\ H[b + n] = H[b] \o x}
<1>0. G[b] \in Seq(T) /\ H[b] \in Seq(T)
  BY DEF Flattens
<1>1. 0 \in Agreeing
  <2>1. <<>> \in Seq(T) /\ b + 0 = b /\ 0 \in 0..(N - b)
    BY EmptySeq
  <2>2. G[b] \o <<>> = G[b] /\ H[b] \o <<>> = H[b]
    BY <1>0, ConcatEmptySeq
  <2> QED  BY <2>1, <2>2
<1>2. ASSUME NEW n \in 0..((N - b) - 1), n \in Agreeing PROVE n + 1 \in Agreeing
  <2>1. /\ n + 1 \in 0..(N - b) /\ b + (n + 1) \in (b + 1)..N /\ b + (n + 1) \in 1..N
        /\ (b + (n + 1)) - 1 = b + n
    OBVIOUS
  <2> DEFINE y == seqs[b + (n + 1)]
  <2>2. y \in Seq(T) /\ others[b + (n + 1)] = y
    BY <2>1 DEF Same
  <2>3. G[b + (n + 1)] = G[b + n] \o y /\ H[b + (n + 1)] = H[b + n] \o y
    BY <2>1, <2>2 DEF Flattens
  <2>4. PICK x \in Seq(T) : G[b + n] = G[b] \o x /\ H[b + n] = H[b] \o x
    BY <1>2
  <2> HIDE DEF y
  <2>5. /\ x \o y \in Seq(T)
        /\ (G[b] \o x) \o y = G[b] \o (x \o y)
        /\ (H[b] \o x) \o y = H[b] \o (x \o y)
    <3>1. x \o y \in Seq(T)
      BY <2>2, ConcatProperties
    <3>2. ASSUME NEW p \in Seq(T) PROVE (p \o x) \o y = p \o (x \o y)
      <4>1. x \in Seq(T) /\ y \in Seq(T)
        BY <2>2
      <4> QED  BY <4>1, ConcatAssociative
    <3> QED  BY <1>0, <3>1, <3>2
  <2>6. G[b + (n + 1)] = G[b] \o (x \o y) /\ H[b + (n + 1)] = H[b] \o (x \o y)
    BY <2>3, <2>4, <2>5
  <2> QED  BY <2>1, <2>5, <2>6
<1>3. N - b \in Nat /\ b + (N - b) = N
  OBVIOUS
<1> HIDE DEF Agreeing
<1>4. \A n \in 0..(N - b) : n \in Agreeing
  BY <1>1, <1>2, <1>3, SetInduction
<1>5. N - b \in Agreeing
  BY <1>3, <1>4
<1> QED  BY <1>3, <1>5 DEF Agreeing, AddTheSame

\* The characters 1 to n.
Characters(n) == [c \in 1..n |-> c]

\* They are a text of n characters, and the next one makes it one longer.
LEMMA CharactersGrow ==
    ASSUME NEW n \in Nat
    PROVE  /\ Characters(n) \in Seq(Int) /\ Len(Characters(n)) = n
           /\ Characters(n) \o <<n + 1>> = Characters(n + 1)
<1>1. Characters(n) \in Seq(Int) /\ Len(Characters(n)) = n
  BY DEF Characters
<1>2. Characters(n + 1) \in Seq(Int) /\ Len(Characters(n + 1)) = n + 1
  BY DEF Characters
<1> DEFINE s == Characters(n) \o <<n + 1>>
<1>3. <<n + 1>> \in Seq(Int) /\ Len(<<n + 1>>) = 1 /\ <<n + 1>>[1] = n + 1
  OBVIOUS
<1>4. /\ s \in Seq(Int) /\ Len(s) = n + 1
      /\ \A i \in 1..(n + 1) : s[i] = IF i <= n THEN Characters(n)[i] ELSE <<n + 1>>[i - n]
  BY <1>1, <1>3, ConcatProperties
<1> HIDE DEF s
<1>5. ASSUME NEW i \in 1..(n + 1) PROVE s[i] = Characters(n + 1)[i]
  <2>1. CASE i <= n
    BY <1>4, <2>1 DEF Characters
  <2>2. CASE ~(i <= n)
    <3>1. i = n + 1 /\ i - n = 1
      BY <2>2
    <3> QED  BY <1>3, <1>4, <2>2, <3>1 DEF Characters
  <2> QED  BY <2>1, <2>2
<1>6. s = Characters(n + 1)
  BY <1>2, <1>4, <1>5, SeqEqual
<1> QED  BY <1>1, <1>6 DEF s

\* Where every character is left as it is, the text is.
LEMMA FlattensCharacters ==
    ASSUME NEW N \in Nat, NEW seqs, NEW G, Flattens(seqs, N, G, Int),
           NEW b \in 0..N, Unchanged(seqs, b)
    PROVE  G[b] = Characters(b)
<1> DEFINE Equal == {n \in 0..b : G[n] = Characters(n)}
<1>1. 0 \in Equal
  <2>1. Characters(0) = <<>>
    BY DEF Characters
  <2> QED  BY <2>1 DEF Flattens
<1>2. ASSUME NEW n \in 0..(b - 1), n \in Equal PROVE n + 1 \in Equal
  <2>1. n + 1 \in 0..b /\ n + 1 \in 1..b /\ n + 1 \in 1..N /\ (n + 1) - 1 = n
    OBVIOUS
  <2>2. G[n + 1] = G[n] \o seqs[n + 1]
    BY <2>1 DEF Flattens
  <2>3. G[n] = Characters(n) /\ seqs[n + 1] = <<n + 1>>
    BY <1>2, <2>1 DEF Unchanged
  <2>4. Characters(n) \o <<n + 1>> = Characters(n + 1)
    BY CharactersGrow
  <2> QED  BY <2>1, <2>2, <2>3, <2>4
<1> HIDE DEF Equal
<1>3. \A n \in 0..b : n \in Equal
  BY <1>1, <1>2, SetInduction
<1> QED  BY <1>3 DEF Equal

\* Cutting a text that begins with the characters 1 to b.
LEMMA CutCharacters ==
    ASSUME NEW b \in Nat, NEW a \in 0..b, NEW x \in Seq(Int),
           NEW whole, whole = Characters(b) \o x
    PROVE  SubSeq(whole, 1, a) = Characters(a) /\ SubSeq(whole, b + 1, Len(whole)) = x
<1> DEFINE p == Characters(b)
<1>1. p \in Seq(Int) /\ Len(p) = b /\ \A i \in 1..b : p[i] = i
  BY CharactersGrow DEF Characters
<1>2. /\ Characters(a) \in Seq(Int) /\ Len(Characters(a)) = a
      /\ \A i \in 1..a : Characters(a)[i] = i
      /\ a \in Nat /\ Len(x) \in Nat
  BY CharactersGrow, LenProperties DEF Characters
<1> HIDE DEF p
<1>3. Len(p \o x) = b + Len(x)
  BY <1>1, ConcatProperties
<1>4. SubSeq(p \o x, 1, a) = Characters(a)
  <2>1. CASE a = 0
    <3>1. SubSeq(p \o x, 1, a) = <<>>
      BY <2>1, SubSeqEmpty
    <3> QED  BY <1>2, <2>1, <3>1, EmptySeq
  <2>2. CASE a # 0
    <3>1. SubSeq(p \o x, 1, a) = SubSeq(p, 1, a)
      <4>1. 1 \in 1..Len(p) /\ a \in 1..Len(p)
        BY <1>1, <1>2, <2>2
      <4> QED  BY <1>1, <4>1, SubSeqOfConcat1
    <3>2. /\ SubSeq(p, 1, a) \in Seq(Int)
          /\ Len(SubSeq(p, 1, a)) = a
          /\ \A i \in 1..a : SubSeq(p, 1, a)[i] = p[i]
      <4>1. \A i \in 1..a : p[i] \in Int
        BY <1>1
      <4>2. /\ SubSeq(p, 1, a) \in Seq(Int)
            /\ Len(SubSeq(p, 1, a)) = IF 1 <= a THEN a - 1 + 1 ELSE 0
            /\ \A i \in 1..(a - 1 + 1) : SubSeq(p, 1, a)[i] = p[1 + i - 1]
        BY <1>2, <4>1, SubSeqProperties
      <4> QED  BY <1>2, <2>2, <4>2
    <3>3. \A i \in 1..a : SubSeq(p, 1, a)[i] = Characters(a)[i]
      BY <1>1, <1>2, <3>2
    <3>4. SubSeq(p, 1, a) = Characters(a)
      BY <1>2, <3>2, <3>3, SeqEqual
    <3> QED  BY <3>1, <3>4
  <2> QED  BY <2>1, <2>2
<1>5. SubSeq(p \o x, b + 1, b + Len(x)) = x
  <2>1. CASE Len(x) = 0
    <3>1. SubSeq(p \o x, b + 1, b + Len(x)) = <<>>
      BY <2>1, SubSeqEmpty
    <3> QED  BY <2>1, <3>1, EmptySeq
  <2>2. CASE Len(x) # 0
    <3>1. /\ b + 1 \in Len(p) + 1 .. Len(p) + Len(x)
          /\ b + Len(x) \in Len(p) + 1 .. Len(p) + Len(x)
          /\ b + 1 - Len(p) = 1 /\ b + Len(x) - Len(p) = Len(x)
      BY <1>1, <1>2, <2>2
    <3>2. ASSUME NEW m \in Len(p) + 1 .. Len(p) + Len(x),
                 NEW n \in Len(p) + 1 .. Len(p) + Len(x)
          PROVE  SubSeq(p \o x, m, n) = SubSeq(x, m - Len(p), n - Len(p))
      BY <1>1, SubSeqOfConcat2
    <3>3. SubSeq(x, 1, Len(x)) = x
      BY SubSeqFull
    <3>4. SubSeq(p \o x, b + 1, b + Len(x)) = SubSeq(x, b + 1 - Len(p), b + Len(x) - Len(p))
      BY <3>1, <3>2
    <3> QED  BY <3>1, <3>3, <3>4
  <2> QED  BY <2>1, <2>2
<1> QED  BY <1>3, <1>4, <1>5 DEF p

\* The characters a + 1 .. b of a text become a token, where everything up to b
\* is still as it was.
Replaced(seqs, others, N, a, b, token) ==
    /\ N \in Nat /\ a \in 0..N /\ b \in (a + 1)..N /\ token \in Seq(Int)
    /\ seqs \in [1..N -> Seq(Int)] /\ others \in [1..N -> Seq(Int)]
    /\ Unchanged(seqs, b)
    /\ others[a + 1] = token /\ Empty(others, a + 1, b)
    /\ Same(seqs, others, 0, a) /\ Same(seqs, others, b, N)

\* The text with the token in their place.
Replacing(before, a, b, token) ==
    SubSeq(before, 1, a) \o token \o SubSeq(before, b + 1, Len(before))

LEMMA ReplaceCharacters ==
    ASSUME NEW N, NEW a, NEW b, NEW token, NEW seqs, NEW others,
           Replaced(seqs, others, N, a, b, token),
           NEW before, before = FlattenSeq(seqs)
    PROVE  Replacing(before, a, b, token) = FlattenSeq(others)
<1>0. /\ N \in Nat /\ a \in 0..N /\ b \in (a + 1)..N /\ token \in Seq(Int)
      /\ seqs \in [1..N -> Seq(Int)] /\ others \in [1..N -> Seq(Int)]
  BY DEF Replaced
<1>1. PICK G : Flattens(seqs, N, G, Int) /\ FlattenSeq(seqs) = G[N]
  BY <1>0, FlattenSeqFlattens
<1>2. PICK H : Flattens(others, N, H, Int) /\ FlattenSeq(others) = H[N]
  BY <1>0, FlattenSeqFlattens
<1>3. a \in 0..b /\ b \in Nat /\ b \in 0..N
  BY <1>0
<1>4. G[b] = Characters(b)
  BY <1>0, <1>1, <1>3, FlattensCharacters DEF Replaced
<1>5. H[b] = Characters(a) \o token
  <2>1. Unchanged(others, a)
    BY <1>0 DEF Unchanged, Same, Replaced
  <2>2. H[a] = Characters(a)
    BY <1>0, <1>2, <2>1, FlattensCharacters
  <2> DEFINE c == a + 1
  <2>3. /\ c \in 1..N /\ c - 1 = a /\ c \in 0..N /\ b \in c..N
        /\ others[c] = token /\ Empty(others, c, b)
    BY <1>0 DEF Replaced
  <2> HIDE DEF c
  <2>4. H[c] = H[a] \o token
    BY <1>2, <2>3 DEF Flattens
  <2>5. H[b] = H[c]
    BY <1>0, <1>2, <2>3, FlattensEmpty
  <2> QED  BY <2>2, <2>4, <2>5
<1>6. PICK x \in Seq(Int) : G[N] = G[b] \o x /\ H[N] = H[b] \o x
  <2>1. Same(seqs, others, b, N)
    BY DEF Replaced
  <2>2. AddTheSame(G, H, b, N, Int)
    BY <1>0, <1>1, <1>2, <1>3, <2>1, FlattensTail
  <2> QED  BY <2>2 DEF AddTheSame
<1>7. before = Characters(b) \o x /\ H[N] = (Characters(a) \o token) \o x
  <2>1. before = G[N]
    BY <1>1
  <2> QED  BY <1>4, <1>5, <1>6, <2>1
<1>8. SubSeq(before, 1, a) = Characters(a) /\ SubSeq(before, b + 1, Len(before)) = x
  BY <1>3, <1>7, CutCharacters
<1> QED  BY <1>2, <1>7, <1>8 DEF Replacing

----------------------------------------------------------------------------
(* The masked text.                                                        *)

\* seqs says what each character becomes once the findings after k are masked.
Masks(k, seqs) ==
    /\ \A j \in DOMAIN filtered : j > k =>
           /\ seqs[filtered[j].start + 1] = Token(filtered[j].pattern)
           /\ \A c \in filtered[j].start + 2 .. filtered[j].end : seqs[c] = <<>>
    /\ \A c \in 1..TextLength :
           (\A j \in DOMAIN filtered : j > k => c \notin filtered[j].start + 1 .. filtered[j].end)
               => seqs[c] = <<c>>

\* The text is what the characters have become so far.
ExactInv ==
    /\ MaskingInv
    /\ at \in {"sort", "filter"} => text = Characters(TextLength)
    /\ at \in {"mask", "done"} =>
           \E seqs \in [1..TextLength -> Seq(Int)] :
               Masks(next, seqs) /\ text = FlattenSeq(seqs)
    /\ at = "done" => next = 0

LEMMA SpanType ==
    ASSUME NEW s \in Spans
    PROVE  /\ TextLength \in Nat
           /\ s.start \in 0..TextLength /\ s.end \in (s.start + 1)..TextLength
           /\ Token(s.pattern) \in Seq(Int)
<1>1. s.pattern \in Nat
  BY MaskingAssumption DEF Spans, MaskingAssumption
<1>2. -s.pattern \in Int
  BY <1>1
<1>3. Token(s.pattern) \in [1..TokenLength -> Int]
  BY <1>2 DEF Token
<1>4. Token(s.pattern) \in Seq(Int)
  BY <1>3, MaskingAssumption DEF MaskingAssumption
<1> QED  BY <1>4, MaskingAssumption DEF Spans, MaskingAssumption

\* Before the first finding is masked, every character is itself.
LEMMA StartMaskingExact == ExactInv /\ StartMasking => ExactInv'
<1> SUFFICES ASSUME ExactInv, StartMasking PROVE ExactInv'
  OBVIOUS
<1>1. MaskingInv'
  BY MaskKeepsInv DEF ExactInv
<1>2. /\ text = Characters(TextLength) /\ text' = text /\ filtered' = filtered
      /\ at' = "mask" /\ next' = Len(filtered) /\ DOMAIN filtered = 1..Len(filtered)
      /\ Len(filtered) \in Nat
  BY DEF ExactInv, StartMasking, MaskingInv, TypeOK
<1> DEFINE seqs == [c \in 1..TextLength |-> <<c>>]
<1>3. TextLength \in Nat /\ seqs \in [1..TextLength -> Seq(Int)]
  BY MaskingAssumption DEF MaskingAssumption
<1>4. Unchanged(seqs, TextLength)
  BY DEF Unchanged
<1>5. Masks(next, seqs)'
  BY <1>2, <1>4 DEF Masks, Unchanged
<1> HIDE DEF seqs
<1>6. PICK G : Flattens(seqs, TextLength, G, Int) /\ FlattenSeq(seqs) = G[TextLength]
  BY <1>3, FlattenSeqFlattens
<1>7. G[TextLength] = Characters(TextLength)
  <2>1. TextLength \in 0..TextLength
    BY <1>3
  <2> QED  BY <1>3, <1>4, <1>6, <2>1, FlattensCharacters
<1>8. text' = FlattenSeq(seqs)
  BY <1>2, <1>6, <1>7
<1> QED  BY <1>1, <1>2, <1>3, <1>5, <1>8 DEF ExactInv

\* Replacing a finding, where everything before its end is still as it was,
\* changes what its own characters become and nothing else.
LEMMA MaskFindingExact == ExactInv /\ MaskFinding => ExactInv'
<1> SUFFICES ASSUME ExactInv, MaskFinding PROVE ExactInv'
  OBVIOUS
<1> DEFINE s == filtered[next]
           a == s.start
           b == s.end
           token == Token(s.pattern)
           N == TextLength
<1>1. MaskingInv'
  BY MaskKeepsInv DEF ExactInv
<1>2. /\ at = "mask" /\ at' = "mask" /\ next > 0 /\ next' = next - 1 /\ filtered' = filtered
      /\ text' = SubSeq(text, 1, a) \o token \o SubSeq(text, b + 1, Len(text))
  BY DEF MaskFinding
<1>3. /\ filtered \in Seq(Spans) /\ DOMAIN filtered = 1..Len(filtered)
      /\ Len(filtered) \in Nat /\ next \in DOMAIN filtered
  BY <1>2 DEF ExactInv, MaskingInv, TypeOK, InRange
<1>4. \A j \in DOMAIN filtered : filtered[j] \in Spans
  BY <1>3
<1>5. N \in Nat /\ a \in 0..N /\ b \in (a + 1)..N /\ token \in Seq(Int)
  BY <1>3, <1>4, SpanType
<1>6. \A j \in DOMAIN filtered : j > next =>
          /\ filtered[j].start \in b..N
          /\ filtered[j].end \in (filtered[j].start + 1)..N
  <2> TAKE j \in DOMAIN filtered
  <2> HAVE j > next
  <2>1. b <= filtered[j].start
    BY <1>3 DEF ExactInv, MaskingInv, FindingsAreDisjoint
  <2>2. filtered[j].start \in 0..N /\ filtered[j].end \in (filtered[j].start + 1)..N
    BY <1>4, SpanType
  <2> QED  BY <1>5, <2>1, <2>2
<1>7. PICK seqs \in [1..N -> Seq(Int)] : Masks(next, seqs) /\ text = FlattenSeq(seqs)
  BY <1>2 DEF ExactInv
<1>8. Unchanged(seqs, b)
  <2> SUFFICES ASSUME NEW c \in 1..b PROVE seqs[c] = <<c>>
    BY DEF Unchanged
  <2>1. c \in 1..N
    BY <1>5
  <2>2. \A j \in DOMAIN filtered : j > next => c \notin filtered[j].start + 1 .. filtered[j].end
    BY <1>5, <1>6
  <2> QED  BY <1>7, <2>1, <2>2 DEF Masks
<1>9. PICK others \in [1..N -> Seq(Int)] :
          /\ others[a + 1] = token /\ Empty(others, a + 1, b)
          /\ Same(seqs, others, 0, a) /\ Same(seqs, others, b, N)
  <2> DEFINE o == [c \in 1..N |-> IF c = a + 1 THEN token
                                 ELSE IF c \in (a + 2)..b THEN <<>> ELSE seqs[c]]
  <2> HIDE DEF a, b, token
  <2>1. <<>> \in Seq(Int)
    BY EmptySeq
  <2>2. o \in [1..N -> Seq(Int)]
    BY <1>5, <2>1
  <2>3. /\ o[a + 1] = token /\ Empty(o, a + 1, b)
        /\ Same(seqs, o, 0, a) /\ Same(seqs, o, b, N)
    BY <1>5 DEF Empty, Same
  <2> HIDE DEF o
  <2> QED  BY <2>2, <2>3
<1>10. text' = FlattenSeq(others)
  <2> HIDE DEF a, b, token, N
  <2>1. Replaced(seqs, others, N, a, b, token)
    BY <1>5, <1>7, <1>8, <1>9 DEF Replaced
  <2>2. text = FlattenSeq(seqs)
    BY <1>7
  <2>3. Replacing(text, a, b, token) = FlattenSeq(others)
    BY <2>1, <2>2, ReplaceCharacters
  <2> QED  BY <1>2, <2>3 DEF Replacing
<1>11. Masks(next - 1, others)
  <2>1. ASSUME NEW j \in DOMAIN filtered, j > next - 1
        PROVE  /\ others[filtered[j].start + 1] = Token(filtered[j].pattern)
               /\ \A c \in filtered[j].start + 2 .. filtered[j].end : others[c] = <<>>
    <3>1. CASE j = next
      BY <1>5, <1>9, <3>1 DEF Empty
    <3>2. CASE j # next
      <4> DEFINE start == filtered[j].start
                 end == filtered[j].end
      <4>1. j > next
        BY <1>3, <2>1, <3>2
      <4>2. /\ seqs[filtered[j].start + 1] = Token(filtered[j].pattern)
            /\ \A c \in filtered[j].start + 2 .. filtered[j].end : seqs[c] = <<>>
        BY <1>7, <4>1 DEF Masks
      <4>3. start \in b..N /\ end \in (start + 1)..N
        BY <1>6, <4>1
      <4> HIDE DEF start, end, a, b, token, N
      <4>4. \A c \in start + 1 .. end : c \in (b + 1)..N
        BY <1>5, <4>3
      <4>5. \A c \in start + 1 .. end : others[c] = seqs[c]
        BY <1>9, <4>4 DEF Same
      <4>6. /\ start + 1 \in start + 1 .. end
            /\ \A c \in start + 2 .. end : c \in start + 1 .. end
        BY <1>5, <4>3
      <4> QED  BY <4>2, <4>5, <4>6 DEF start, end
    <3> QED  BY <3>1, <3>2
  <2>2. ASSUME NEW c \in 1..N,
               \A j \in DOMAIN filtered : j > next - 1 =>
                   c \notin filtered[j].start + 1 .. filtered[j].end
        PROVE  others[c] = <<c>>
    <3>1. c \notin (a + 1)..b
      BY <1>3, <2>2
    <3>2. \A j \in DOMAIN filtered : j > next => c \notin filtered[j].start + 1 .. filtered[j].end
      BY <1>3, <2>2
    <3>3. seqs[c] = <<c>>
      BY <1>7, <3>2 DEF Masks
    <3> HIDE DEF a, b, token, N
    <3>4. c \in 1..a \/ c \in (b + 1)..N
      BY <1>5, <3>1
    <3>5. others[c] = seqs[c]
      BY <1>9, <3>4 DEF Same
    <3> QED  BY <3>3, <3>5
  <2> QED  BY <2>1, <2>2 DEF Masks
<1>12. Masks(next, others)'
  BY <1>2, <1>11 DEF Masks
<1> QED  BY <1>1, <1>2, <1>9, <1>10, <1>12 DEF ExactInv

LEMMA ExactStep == ExactInv /\ [Next]_vars => ExactInv'
<1> SUFFICES ASSUME ExactInv, [Next]_vars PROVE ExactInv'
  OBVIOUS
<1>1. MaskingInv'
  BY StepKeepsMasking DEF ExactInv
<1>2. CASE UNCHANGED vars
  BY <1>1, <1>2 DEF vars, ExactInv, Masks
<1>3. CASE SortMatches \/ FilterMatch
  BY <1>1, <1>3 DEF ExactInv, SortMatches, FilterMatch
<1>4. CASE Return
  BY <1>1, <1>4 DEF ExactInv, Return, Masks
<1> QED
  BY <1>2, <1>3, <1>4, StartMaskingExact, MaskFindingExact DEF Next

\* When every finding is masked, each character has become what it should.
LEMMA MaskedInTheEnd ==
    ASSUME MaskingInv, NEW seqs \in [1..TextLength -> Seq(Int)], Masks(0, seqs)
    PROVE  seqs = [c \in 1..TextLength |-> Masked(c)]
<1>1. /\ filtered \in Seq(Spans) /\ DOMAIN filtered = 1..Len(filtered)
      /\ \A j \in DOMAIN filtered : filtered[j] \in Spans /\ j > 0
  BY DEF MaskingInv, TypeOK
<1>2. \A j \in DOMAIN filtered :
          /\ filtered[j].start \in 0..TextLength
          /\ filtered[j].end \in (filtered[j].start + 1)..TextLength
          /\ TextLength \in Nat
  BY <1>1, SpanType
<1>3. ASSUME NEW c \in 1..TextLength PROVE seqs[c] = Masked(c)
  <2>1. CASE \E k \in DOMAIN filtered : filtered[k].start + 1 = c
    <3>1. PICK k \in DOMAIN filtered : filtered[k].start + 1 = c
      BY <2>1
    <3> DEFINE f == CHOOSE s \in {filtered[i] : i \in DOMAIN filtered} : s.start + 1 = c
    <3>2. f \in {filtered[i] : i \in DOMAIN filtered} /\ f.start + 1 = c
      BY <3>1
    <3>3. PICK l \in DOMAIN filtered : f = filtered[l]
      BY <3>2
    <3>4. Masked(c) = Token(f.pattern)
      BY <2>1 DEF Masked
    <3> HIDE DEF f
    <3>5. seqs[filtered[l].start + 1] = Token(filtered[l].pattern)
      BY <1>1 DEF Masks
    <3> QED  BY <3>2, <3>3, <3>4, <3>5
  <2>2. CASE /\ ~(\E k \in DOMAIN filtered : filtered[k].start + 1 = c)
             /\ \E k \in DOMAIN filtered : c \in filtered[k].start + 1 .. filtered[k].end
    <3>1. PICK k \in DOMAIN filtered : c \in filtered[k].start + 1 .. filtered[k].end
      BY <2>2
    <3>2. c \in filtered[k].start + 2 .. filtered[k].end
      BY <1>2, <2>2, <3>1
    <3>3. seqs[c] = <<>>
      BY <1>1, <3>2 DEF Masks
    <3> QED  BY <2>2, <3>3 DEF Masked
  <2>3. CASE ~(\E k \in DOMAIN filtered : c \in filtered[k].start + 1 .. filtered[k].end)
    <3>1. seqs[c] = <<c>>
      BY <2>3 DEF Masks
    <3>2. ~(\E k \in DOMAIN filtered : filtered[k].start + 1 = c)
      BY <1>2, <2>3
    <3> QED  BY <2>3, <3>1, <3>2 DEF Masked
  <2> QED  BY <2>1, <2>2, <2>3
<1> QED  BY <1>3

\* The masked text is exactly the text with every finding replaced by its token:
\* the loop runs from the last finding to the first, so the offsets of those
\* still to be masked stay right while the text changes its length.
THEOREM MaskingExactCorrect == Spec => []MaskingIsExact
<1>1. Init => ExactInv
  BY InitMasking DEF Init, ExactInv, Characters
<1>2. ExactInv => MaskingIsExact
  <2> SUFFICES ASSUME ExactInv, at = "done"
               PROVE  text = FlattenSeq([c \in 1..TextLength |-> Masked(c)])
    BY DEF MaskingIsExact
  <2>1. PICK seqs \in [1..TextLength -> Seq(Int)] : Masks(0, seqs) /\ text = FlattenSeq(seqs)
    BY DEF ExactInv
  <2>2. seqs = [c \in 1..TextLength |-> Masked(c)]
    BY <2>1, MaskedInTheEnd DEF ExactInv
  <2> QED  BY <2>1, <2>2
<1> QED  BY <1>1, <1>2, ExactStep, PTL DEF Spec
=============================================================================
