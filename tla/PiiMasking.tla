------------------------------ MODULE PiiMasking ------------------------------
(***************************************************************************)
(* What detect_korean_pii (src/kai_security/detectors/pii.py) does with    *)
(* the matches of its patterns: sort them, drop those that overlap one     *)
(* kept before, and replace the kept ones by tokens, from the last to the  *)
(* first.  Characters are numbered; which of them a pattern matches, and   *)
(* the check digits, are left to the input: any list of matches in the     *)
(* order in which the loop over _PATTERNS can find them.                   *)
(***************************************************************************)
EXTENDS Integers, Sequences, SequencesExt

CONSTANTS
    TextLength,
    Patterns,       \* indices into _PATTERNS
    TokenLength,    \* characters of a mask token
    MaxMatches      \* bound on the number of matches

ASSUME MaskingAssumption ==
    /\ TextLength \in Nat /\ TokenLength \in Nat /\ MaxMatches \in Nat
    /\ Patterns \subseteq Nat \ {0}

VARIABLES
    found,      \* matches, pattern by pattern
    sorted,     \* the same after matches.sort
    filtered,   \* the findings
    lastEnd,    \* last_end
    next,       \* index of the next match to filter, or finding to mask
    text,       \* masked_text
    at          \* the loop that is running

vars == <<found, sorted, filtered, lastEnd, next, text, at>>

\* start and end as in Python: the characters start + 1 .. end.
Spans == {s \in [start : 0..TextLength, end : 0..TextLength, pattern : Patterns] :
              s.start < s.end}

SpanLength(s) == s.end - s.start

\* finditer yields the matches of one pattern from left to right, disjoint.
Findable(matches) ==
    \A i, j \in DOMAIN matches : i < j =>
        \/ matches[i].pattern < matches[j].pattern
        \/ /\ matches[i].pattern = matches[j].pattern
           /\ matches[i].end <= matches[j].start

MatchLists == {m \in UNION {[1..n -> Spans] : n \in 0..MaxMatches} : Findable(m)}

\* The characters of the text are their own positions, those of a token negative.
Token(pattern) == [c \in 1..TokenLength |-> -pattern]

Init ==
    /\ found \in MatchLists
    /\ sorted = <<>>
    /\ filtered = <<>>
    /\ lastEnd = -1
    /\ next = 1
    /\ text = [c \in 1..TextLength |-> c]
    /\ at = "sort"

\* Mutant: the sort key is the start alone.
PrecedesByStart(matches, i, j) ==
    \/ matches[i].start < matches[j].start
    \/ matches[i].start = matches[j].start /\ i < j

\* key=(start, -length); list.sort is stable.
Precedes(matches, i, j) ==
    \/ matches[i].start < matches[j].start
    \/ /\ matches[i].start = matches[j].start
       /\ \/ SpanLength(matches[i]) > SpanLength(matches[j])
          \/ SpanLength(matches[i]) = SpanLength(matches[j]) /\ i < j

SortMatches ==
    /\ at = "sort"
    /\ \E order \in [DOMAIN found -> DOMAIN found] :
           /\ \A i \in DOMAIN found : \E k \in DOMAIN found : order[k] = i
           /\ \A k, l \in DOMAIN found : k < l => Precedes(found, order[k], order[l])
           /\ sorted' = [k \in DOMAIN found |-> found[order[k]]]
    /\ at' = "filter"
    /\ UNCHANGED <<found, filtered, lastEnd, next, text>>

\* Mutant: last_end follows every match, not only the kept ones.
FilterMovingEnd ==
    /\ at = "filter" /\ next <= Len(sorted)
    /\ filtered' = IF sorted[next].start < lastEnd THEN filtered
                   ELSE Append(filtered, sorted[next])
    /\ lastEnd' = sorted[next].end
    /\ next' = next + 1
    /\ UNCHANGED <<found, sorted, text, at>>

FilterMatch ==
    /\ at = "filter" /\ next <= Len(sorted)
    /\ IF sorted[next].start < lastEnd
       THEN UNCHANGED <<filtered, lastEnd>>
       ELSE /\ filtered' = Append(filtered, sorted[next])
            /\ lastEnd' = sorted[next].end
    /\ next' = next + 1
    /\ UNCHANGED <<found, sorted, text, at>>

StartMasking ==
    /\ at = "filter" /\ next > Len(sorted)
    /\ at' = "mask"
    /\ next' = Len(filtered)
    /\ UNCHANGED <<found, sorted, filtered, lastEnd, text>>

\* Mutant: the findings are masked from the first to the last (a slice
\* beyond the end of a string is cut off there).
MaskForward ==
    /\ at = "mask" /\ next > 0
    /\ LET s == filtered[Len(filtered) + 1 - next]
           start == IF s.start < Len(text) THEN s.start ELSE Len(text)
       IN text' = SubSeq(text, 1, start) \o Token(s.pattern)
                      \o SubSeq(text, s.end + 1, Len(text))
    /\ next' = next - 1
    /\ UNCHANGED <<found, sorted, filtered, lastEnd, at>>

\* masked_text[:start] + token + masked_text[end:]
MaskFinding ==
    /\ at = "mask" /\ next > 0
    /\ LET s == filtered[next]
       IN text' = SubSeq(text, 1, s.start) \o Token(s.pattern)
                      \o SubSeq(text, s.end + 1, Len(text))
    /\ next' = next - 1
    /\ UNCHANGED <<found, sorted, filtered, lastEnd, at>>

Return ==
    /\ at = "mask" /\ next = 0
    /\ at' = "done"
    /\ UNCHANGED <<found, sorted, filtered, lastEnd, next, text>>

Next == SortMatches \/ FilterMatch \/ StartMasking \/ MaskFinding \/ Return

Spec == Init /\ [][Next]_vars

----------------------------------------------------------------------------
(* Properties.                                                             *)

\* The lists hold spans of the text and the counters stay in their ranges
\* (_normalize_matches and detect_korean_pii).
TypeOK ==
    /\ found \in Seq(Spans) /\ sorted \in Seq(Spans) /\ filtered \in Seq(Spans)
    /\ lastEnd \in -1..TextLength
    /\ next \in 0..(MaxMatches + 1)
    /\ text \in Seq(Int)
    /\ at \in {"sort", "filter", "mask", "done"}

\* The findings are in text order and no two of them share a character, so no
\* part of the text is reported or masked twice (pii.py:204-213).
FindingsAreDisjoint ==
    \A i, j \in DOMAIN filtered : i < j => filtered[i].end <= filtered[j].start

Covers(s, t) == s.start <= t.start /\ t.start < s.end

\* What the filter gives up of a match is only a tail: once it is through, a
\* finding covers the first character of every match, and it ends before the match
\* does only if it started before it too.  (pii.py:204 promises the longest span;
\* the code keeps the one that starts first, so the tail of a longer match that
\* starts inside it stays as it is.)  Every finding is a match (pii.py:205-213).
OnlyTailsRemain ==
    at \in {"mask", "done"} =>
        /\ \A i \in DOMAIN found : \E k \in DOMAIN filtered :
               /\ Covers(filtered[k], found[i])
               /\ filtered[k].end < found[i].end => filtered[k].start < found[i].start
        /\ \A k \in DOMAIN filtered : \E i \in DOMAIN found : filtered[k] = found[i]

\* What the characters become: a token where a finding starts, nothing inside it.
Masked(c) ==
    IF \E k \in DOMAIN filtered : filtered[k].start + 1 = c
    THEN Token((CHOOSE s \in {filtered[k] : k \in DOMAIN filtered} : s.start + 1 = c).pattern)
    ELSE IF \E k \in DOMAIN filtered : c \in filtered[k].start + 1 .. filtered[k].end
         THEN <<>> ELSE <<c>>

\* The masked text is the text with every finding replaced by its token and
\* nothing else moved or lost: the offsets stay right while the text changes its
\* length (pii.py:219-222).
MaskingIsExact ==
    at = "done" => text = FlattenSeq([c \in 1..TextLength |-> Masked(c)])
=============================================================================
