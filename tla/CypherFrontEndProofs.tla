------------------------ MODULE CypherFrontEndProofs ------------------------
(***************************************************************************)
(* Parse proved for documents of every length and words of every width:    *)
(* the semicolons of a document partition what it holds, each segment with *)
(* anything in it is answered once and in order, and an integer literal is *)
(* bound to its own value or refused.  The binder is left closed: what it  *)
(* makes of a node other than a literal decides only how a walk goes on.    *)
(***************************************************************************)
EXTENDS CypherFrontEnd, FiniteSetTheorems, TLAPS

-----------------------------------------------------------------------------
(* Segments of a document.                                                 *)

\* A document is a sequence of elements.
LEMMA SourceFact ==
    ASSUME source \in Sources
    PROVE  source \in Seq(Elements) /\ Len(source) \in 0..MaxSource
<1>1. PICK n \in 0..MaxSource : source \in [1..n -> Elements]
  BY DEF Sources
<1>2. n \in Nat
  BY SourceAssumption
<1>3. source \in Seq(Elements) /\ Len(source) = n
  BY <1>1, <1>2
<1> QED
  BY <1>1, <1>3

\* The semicolons up to a place are finitely many.
LEMMA SemicolonsFact ==
    ASSUME NEW i \in Nat
    PROVE  /\ IsFiniteSet({j \in 1..i : source[j] = "semicolon"})
           /\ SegmentOf(i) \in Nat \ {0}
<1>1. IsFiniteSet(1..i)
  BY FS_Interval
<1>2. IsFiniteSet({j \in 1..i : source[j] = "semicolon"})
  BY <1>1, FS_Subset
<1>3. Cardinality({j \in 1..i : source[j] = "semicolon"}) \in Nat
  BY <1>2, FS_CardinalityType
<1> QED
  BY <1>2, <1>3 DEF SegmentOf

\* Segments are numbered in the order of the document, and a semicolon after
\* the one place and up to the other separates the two.
LEMMA SegmentOrder ==
    ASSUME NEW i \in Nat, NEW j \in Nat, i <= j
    PROVE  /\ SegmentOf(i) <= SegmentOf(j)
           /\ (\E k \in (i + 1)..j : source[k] = "semicolon") => SegmentOf(i) < SegmentOf(j)
           /\ (\A k \in (i + 1)..j : source[k] # "semicolon") => SegmentOf(i) = SegmentOf(j)
<1> DEFINE A == {k \in 1..i : source[k] = "semicolon"}
           B == {k \in 1..j : source[k] = "semicolon"}
<1>1. IsFiniteSet(A) /\ IsFiniteSet(B)
  BY SemicolonsFact
<1>2. A \in SUBSET B
  OBVIOUS
<1>3. Cardinality(A) <= Cardinality(B) /\ (Cardinality(A) = Cardinality(B) => A = B)
  BY <1>1, <1>2, FS_Subset
<1>4. Cardinality(A) \in Nat /\ Cardinality(B) \in Nat
  BY <1>1, FS_CardinalityType
<1>5. (\E k \in (i + 1)..j : source[k] = "semicolon") => A # B
  OBVIOUS
<1>6. (\A k \in (i + 1)..j : source[k] # "semicolon") => A = B
  OBVIOUS
<1>7. SegmentOf(i) = 1 + Cardinality(A) /\ SegmentOf(j) = 1 + Cardinality(B)
  BY DEF SegmentOf
<1> HIDE DEF A, B
<1> QED
  BY <1>3, <1>4, <1>5, <1>6, <1>7

\* A semicolon begins the next segment.
LEMMA SegmentStep ==
    ASSUME NEW i \in Nat \ {0}
    PROVE  SegmentOf(i) = SegmentOf(i - 1) + (IF source[i] = "semicolon" THEN 1 ELSE 0)
<1> DEFINE A == {k \in 1..(i - 1) : source[k] = "semicolon"}
           B == {k \in 1..i : source[k] = "semicolon"}
<1>1. IsFiniteSet(A)
  BY SemicolonsFact
<1>2. Cardinality(A) \in Nat
  BY <1>1, FS_CardinalityType
<1>3. CASE source[i] = "semicolon"
  <2>1. B = A \cup {i} /\ i \notin A
    BY <1>3
  <2>2. Cardinality(B) = Cardinality(A) + 1
    BY <1>1, <2>1, FS_AddElement
  <2> QED
    BY <1>2, <1>3, <2>2 DEF SegmentOf
<1>4. CASE source[i] # "semicolon"
  <2>1. A = B
    BY <1>4
  <2>2. SegmentOf(i - 1) = 1 + Cardinality(A) /\ SegmentOf(i) = 1 + Cardinality(B)
    BY DEF SegmentOf
  <2> HIDE DEF A, B
  <2> QED
    BY <1>2, <1>4, <2>1, <2>2
<1> QED
  BY <1>3, <1>4

-----------------------------------------------------------------------------
(* The invariant.                                                          *)

Segments == [number : Nat, text : Seq(Elements)]
Outcomes == [segment : Nat, result : {"error", "statement"}]

\* What a segment holds besides layout is what the document holds in the
\* places numbered like it, and no semicolon.
Faithful(segment) ==
    /\ \A i \in DOMAIN segment.text : segment.text[i] # "semicolon"
    /\ \A x \in {"word", "junk"} :
          (\E i \in DOMAIN segment.text : segment.text[i] = x)
             <=> (\E k \in Written({x}) : SegmentOf(k) = segment.number)

\* splitDocument has cut off the segments before the one that starts at start.
SplitInv ==
    /\ outcomes = <<>>
    /\ at <= Len(source) + 1
    /\ Len(todo) + 1 = SegmentOf(at - 1)
    /\ \A k \in start..(at - 1) : source[k] # "semicolon"
    /\ start > 1 => source[start - 1] = "semicolon"
    /\ \A n \in DOMAIN todo : todo[n].number = n /\ Faithful(todo[n])

\* The segments still to be parsed are the last ones of the document, and the
\* outcomes are those of the segments before them.
Total == SegmentOf(Len(source))
ParseInv ==
    LET next == Total - Len(todo) + 1 IN
    /\ Len(todo) <= Total
    /\ \A n \in DOMAIN todo : todo[n].number = next - 1 + n /\ Faithful(todo[n])
    /\ \A n \in DOMAIN outcomes :
          /\ outcomes[n].segment < next
          /\ \E i \in Written({"word", "junk"}) : SegmentOf(i) = outcomes[n].segment
          /\ \A i \in Written({"junk"}) :
                SegmentOf(i) = outcomes[n].segment => outcomes[n].result = "error"
    /\ \A i \in Written({"word", "junk"}) : SegmentOf(i) < next =>
          \E n \in DOMAIN outcomes : outcomes[n].segment = SegmentOf(i)
    /\ \A m, n \in DOMAIN outcomes : m < n => outcomes[m].segment < outcomes[n].segment

\* While a statement is bound, its segment is the next one and the lexer can
\* read it.
Binding ==
    stage \in {"visit", "bound", "failed", "panicked"} =>
        /\ todo # <<>>
        /\ ~emptySegment(Head(todo))
        /\ \A i \in DOMAIN Head(todo).text : Head(todo).text[i] # "junk"

\* The types the proof needs.
Typed ==
    /\ source \in Seq(Elements) /\ Len(source) <= MaxSource
    /\ at \in Nat \ {0} /\ start \in 1..at
    /\ todo \in Seq(Segments)
    /\ outcomes \in Seq(Outcomes)
    /\ stage \in {"split", "next", "visit", "bound", "failed", "panicked", "returned"}

AnswerInv ==
    /\ Typed
    /\ stage = "split" => SplitInv
    /\ stage # "split" => ParseInv
    /\ Binding
    /\ stage = "returned" => todo = <<>>

\* The segment cut off before a semicolon, or at the end, holds what the
\* document holds in the places numbered like it.
LEMMA CutFaithful ==
    ASSUME Typed, SplitInv, at > Len(source) \/ source[at] = "semicolon"
    PROVE  /\ makeSegment \in Segments
           /\ makeSegment.number = Len(todo) + 1
           /\ Faithful(makeSegment)
<1> DEFINE text == SubSeq(source, start, at - 1)
<1>1. /\ source \in Seq(Elements) /\ todo \in Seq(Segments)
      /\ at \in Nat \ {0} /\ start \in Nat \ {0} /\ start <= at /\ at <= Len(source) + 1
      /\ Len(source) \in Nat /\ Len(todo) \in Nat
  BY DEF Typed, SplitInv
<1>2. text \in Seq(Elements) /\ Len(text) = at - start
      /\ \A i \in 1..(at - start) : text[i] = source[start + i - 1]
  BY <1>1
<1> HIDE DEF text
<1>3. DOMAIN text = 1..(at - start)
  BY <1>1, <1>2
<1>4. makeSegment = [number |-> Len(todo) + 1, text |-> text]
  BY DEF makeSegment, text
<1>5. makeSegment \in Segments /\ makeSegment.number = SegmentOf(at - 1)
      /\ makeSegment.text = text /\ makeSegment.number = Len(todo) + 1
  BY <1>1, <1>2, <1>4 DEF Segments, SplitInv
<1>6. \A k \in start..(at - 1) : source[k] # "semicolon"
  BY DEF SplitInv
<1>7. \A i \in DOMAIN text : start + i - 1 \in start..(at - 1)
                             /\ text[i] = source[start + i - 1]
  BY <1>1, <1>2, <1>3
<1>8. ASSUME NEW k \in start..(at - 1)
      PROVE  SegmentOf(k) = SegmentOf(at - 1)
  <2>1. k \in Nat /\ at - 1 \in Nat /\ k <= at - 1 /\ \A j \in (k + 1)..(at - 1) : j \in start..(at - 1)
    BY <1>1, <1>8
  <2>2. \A j \in (k + 1)..(at - 1) : source[j] # "semicolon"
    BY <1>6, <2>1
  <2> QED
    BY <2>1, <2>2, SegmentOrder
<1>9. ASSUME NEW k \in DOMAIN source, source[k] # "semicolon", SegmentOf(k) = SegmentOf(at - 1)
      PROVE  k \in start..(at - 1)
  <2>1. k \in Nat \ {0} /\ k <= Len(source) /\ at - 1 \in Nat
    BY <1>1, <1>9
  <2>2. SegmentOf(k) \in Nat /\ SegmentOf(at - 1) \in Nat
    BY <2>1, SemicolonsFact
  <2>3. CASE k < start
    <3>1. source[start - 1] = "semicolon"
      BY <1>1, <2>1, <2>3 DEF SplitInv
    <3>2. start - 1 \in (k + 1)..(at - 1) /\ k <= at - 1
      BY <1>1, <1>9, <2>1, <2>3, <3>1
    <3>3. SegmentOf(k) < SegmentOf(at - 1)
      BY <2>1, <3>1, <3>2, SegmentOrder
    <3> QED
      BY <1>9, <2>2, <3>3
  <2>4. CASE k >= at
    <3>1. source[at] = "semicolon"
      BY <1>1, <2>1, <2>4
    <3>2. at \in ((at - 1) + 1)..k /\ at - 1 <= k
      BY <1>1, <2>1, <2>4
    <3>3. SegmentOf(at - 1) < SegmentOf(k)
      BY <2>1, <3>1, <3>2, SegmentOrder
    <3> QED
      BY <1>9, <2>2, <3>3
  <2> QED
    BY <1>1, <2>1, <2>3, <2>4
<1>10. ASSUME NEW x \in {"word", "junk"}
       PROVE  (\E i \in DOMAIN text : text[i] = x)
                 <=> (\E k \in Written({x}) : SegmentOf(k) = SegmentOf(at - 1))
  <2>1. ASSUME NEW i \in DOMAIN text, text[i] = x
        PROVE  \E k \in Written({x}) : SegmentOf(k) = SegmentOf(at - 1)
    <3>1. start + i - 1 \in start..(at - 1) /\ source[start + i - 1] = x
      BY <1>7, <2>1
    <3>2. start + i - 1 \in DOMAIN source
      BY <1>1, <3>1
    <3>3. start + i - 1 \in Written({x})
      BY <3>1, <3>2 DEF Written
    <3> QED
      BY <1>8, <3>1, <3>3
  <2>2. ASSUME NEW k \in Written({x}), SegmentOf(k) = SegmentOf(at - 1)
        PROVE  \E i \in DOMAIN text : text[i] = x
    <3>1. k \in DOMAIN source /\ source[k] = x /\ x # "semicolon"
      BY <1>10 DEF Written
    <3>2. k \in start..(at - 1)
      BY <1>9, <2>2, <3>1
    <3>3. k - start + 1 \in DOMAIN text /\ text[k - start + 1] = source[k]
      BY <1>1, <1>2, <1>3, <3>2
    <3> QED
      BY <3>1, <3>3
  <2> QED
    BY <2>1, <2>2
<1>11. \A i \in DOMAIN text : text[i] # "semicolon"
  BY <1>6, <1>7
<1> QED
  BY <1>5, <1>10, <1>11 DEF Faithful

\* Where the document is the same, so are the segments of its places.
LEMMA DocumentKept ==
    ASSUME source' = source
    PROVE  /\ \A i : SegmentOf(i)' = SegmentOf(i)
           /\ \A kinds : Written(kinds)' = Written(kinds)
           /\ Total' = Total
<1>1. \A i : SegmentOf(i)' = SegmentOf(i)
  BY DEF SegmentOf
<1>2. \A kinds : Written(kinds)' = Written(kinds)
  BY DEF Written
<1> QED
  BY <1>1, <1>2 DEF Total

\* ... and what the segments hold.
LEMMA FaithfulKept ==
    ASSUME source' = source, NEW T, T = todo',
           NEW n \in DOMAIN T, Faithful(T[n])
    PROVE  Faithful(todo[n])'
BY DocumentKept DEF Faithful

\* One element of the document: SplitInv moves on with it.
LEMMA SplitStep ==
    ASSUME AnswerInv, Split
    PROVE  AnswerInv'
<1>1. Typed /\ SplitInv /\ stage = "split" /\ at <= Len(source) /\ at' = at + 1
      /\ UNCHANGED <<source, outcomes, stage>>
  BY DEF AnswerInv, Split
<1>2. /\ source \in Seq(Elements) /\ todo \in Seq(Segments) /\ Len(todo) \in Nat
      /\ at \in Nat \ {0} /\ start \in Nat \ {0} /\ start <= at
      /\ Len(source) \in Nat
  BY <1>1 DEF Typed
<1>3. SegmentOf(at) = SegmentOf(at - 1) + (IF source[at] = "semicolon" THEN 1 ELSE 0)
  BY <1>2, SegmentStep
<1>4. SegmentOf(at) \in Nat /\ SegmentOf(at - 1) = Len(todo) + 1
  BY <1>1, <1>2, SemicolonsFact DEF SplitInv
<1>6. /\ todo' \in Seq(Segments)
      /\ Len(todo') + 1 = SegmentOf(at)
      /\ start' \in 1..at'
      /\ \A k \in (start')..at : source[k] # "semicolon"
      /\ start' > 1 => source[start' - 1] = "semicolon"
      /\ \A n \in DOMAIN todo' : todo'[n].number = n /\ Faithful(todo'[n])
  <2>1. CASE source[at] = "semicolon"
    <3>1. /\ makeSegment \in Segments
          /\ makeSegment.number = Len(todo) + 1
          /\ Faithful(makeSegment)
      BY <1>1, <2>1, CutFaithful
    <3>2. todo' = Append(todo, makeSegment) /\ start' = at + 1
      BY <2>1 DEF Split
    <3>3. todo' \in Seq(Segments) /\ Len(todo') = Len(todo) + 1
          /\ DOMAIN todo' = 1..(Len(todo) + 1)
          /\ (\A n \in 1..Len(todo) : todo'[n] = todo[n])
          /\ todo'[Len(todo) + 1] = makeSegment
      BY <1>2, <3>1, <3>2
    <3>4. \A n \in 1..Len(todo) : todo[n].number = n /\ Faithful(todo[n])
      BY <1>1, <1>2 DEF SplitInv
    <3>5. ASSUME NEW n \in DOMAIN todo' PROVE todo'[n].number = n /\ Faithful(todo'[n])
      <4>1. n \in 1..Len(todo) \/ n = Len(todo) + 1
        BY <1>2, <3>3
      <4> QED
        BY <3>1, <3>3, <3>4, <4>1
    <3> QED
      BY <1>1, <1>2, <1>3, <1>4, <2>1, <3>2, <3>3, <3>5
  <2>2. CASE source[at] # "semicolon"
    <3>1. UNCHANGED <<todo, start>>
      BY <2>2 DEF Split
    <3>2. \A k \in start..at : k \in start..(at - 1) \/ k = at
      BY <1>2
    <3> QED
      BY <1>1, <1>2, <1>3, <1>4, <2>2, <3>1, <3>2 DEF SplitInv
  <2> QED
    BY <2>1, <2>2
<1>7. Typed'
  BY <1>1, <1>2, <1>6 DEF Typed
<1>8. \A n \in DOMAIN todo' : Faithful(todo[n])'
  BY <1>1, <1>6, FaithfulKept
<1>9. SegmentOf(at - 1)' = SegmentOf(at)
  <2>1. (at - 1)' = at
    BY <1>1, <1>2
  <2> QED
    BY <1>1, <2>1 DEF SegmentOf
<1>10. SplitInv'
  <2>1. at' - 1 = at /\ at' <= Len(source') + 1 /\ outcomes' = <<>>
    BY <1>1, <1>2 DEF SplitInv
  <2> QED
    BY <1>1, <1>6, <1>8, <1>9, <2>1 DEF SplitInv
<1> QED
  BY <1>1, <1>7, <1>10 DEF AnswerInv, Binding

\* The end of the document: its last segment is cut off, and none is answered.
LEMMA SplitEndStep ==
    ASSUME AnswerInv, SplitEnd
    PROVE  AnswerInv'
<1>1. Typed /\ SplitInv /\ stage = "split" /\ at > Len(source) /\ stage' = "next"
      /\ todo' = Append(todo, makeSegment) /\ UNCHANGED <<source, at, start, outcomes>>
  BY DEF AnswerInv, SplitEnd
<1>2. /\ source \in Seq(Elements) /\ todo \in Seq(Segments) /\ Len(todo) \in Nat
      /\ at \in Nat \ {0} /\ Len(source) \in Nat /\ outcomes = <<>>
  BY <1>1 DEF Typed, SplitInv
<1>3. /\ makeSegment \in Segments
      /\ makeSegment.number = Len(todo) + 1
      /\ Faithful(makeSegment)
  BY <1>1, CutFaithful
<1>4. at - 1 = Len(source)
  BY <1>1, <1>2 DEF SplitInv
<1>5. Total = Len(todo) + 1
  BY <1>1, <1>4 DEF Total, SplitInv
<1>6. todo' \in Seq(Segments) /\ Len(todo') = Len(todo) + 1
      /\ DOMAIN todo' = 1..(Len(todo) + 1)
      /\ (\A n \in 1..Len(todo) : todo'[n] = todo[n])
      /\ todo'[Len(todo) + 1] = makeSegment
  BY <1>1, <1>2, <1>3
<1>7. \A n \in 1..Len(todo) : todo[n].number = n /\ Faithful(todo[n])
  BY <1>1, <1>2 DEF SplitInv
<1>8. ASSUME NEW n \in DOMAIN todo' PROVE todo'[n].number = n /\ Faithful(todo'[n])
  <2>1. n \in 1..Len(todo) \/ n = Len(todo) + 1
    BY <1>2, <1>6
  <2> QED
    BY <1>3, <1>6, <1>7, <2>1
<1>9. \A n \in DOMAIN todo' : Faithful(todo[n])'
  BY <1>1, <1>8, FaithfulKept
<1>10. Total' = Len(todo') /\ Total' \in Nat
  BY <1>1, <1>2, <1>5, <1>6, DocumentKept
<1>11. \A i \in Written({"word", "junk"})' : ~(SegmentOf(i)' < 1)
  <2>1. \A i \in Written({"word", "junk"}) : i \in Nat
    BY <1>2 DEF Written
  <2>2. \A i \in Nat : SegmentOf(i) \in Nat \ {0}
    BY SemicolonsFact
  <2>3. \A i \in Written({"word", "junk"}) : ~(SegmentOf(i) < 1)
    BY <2>1, <2>2
  <2> QED
    BY <1>1, <2>3, DocumentKept
<1>12. Total' - Len(todo') + 1 = 1
  BY <1>10
<1>13. \A n \in DOMAIN todo' : n \in Nat
  BY <1>2, <1>6
<1>14. ParseInv'
  BY <1>1, <1>2, <1>8, <1>9, <1>10, <1>11, <1>12, <1>13 DEF ParseInv
<1>15. Typed'
  BY <1>1, <1>6 DEF Typed
<1> QED
  BY <1>1, <1>14, <1>15 DEF AnswerInv, Binding

\* An outcome names a segment.
LEMMA OutcomeFact ==
    ASSUME Typed
    PROVE  /\ outcomes \in Seq(Outcomes) /\ Len(outcomes) \in Nat
           /\ DOMAIN outcomes = 1..Len(outcomes)
           /\ \A n \in DOMAIN outcomes : outcomes[n].segment \in Nat
<1>1. outcomes \in Seq(Outcomes) /\ Len(outcomes) \in Nat /\ DOMAIN outcomes = 1..Len(outcomes)
  BY DEF Typed
<1>2. \A n \in DOMAIN outcomes : outcomes[n] \in Outcomes
  BY <1>1
<1>3. \A o \in Outcomes : o.segment \in Nat
  BY DEF Outcomes
<1> QED
  BY <1>1, <1>2, <1>3

\* The first segment still to be parsed.
LEMMA HeadFact ==
    ASSUME Typed, ParseInv, todo # <<>>
    PROVE  /\ Head(todo) \in Segments /\ Head(todo) = todo[1] /\ 1 \in DOMAIN todo
           /\ Head(todo).number = Total - Len(todo) + 1
           /\ Faithful(Head(todo))
           /\ Total \in Nat /\ Len(todo) \in Nat \ {0}
<1>1. todo \in Seq(Segments) /\ Len(source) \in Nat
  BY DEF Typed
<1>2. Total \in Nat
  BY <1>1, SemicolonsFact DEF Total
<1>3. Len(todo) \in Nat \ {0} /\ 1 \in DOMAIN todo /\ Head(todo) = todo[1]
      /\ todo[1] \in Segments
  BY <1>1
<1> QED
  BY <1>2, <1>3 DEF ParseInv

\* Whatever is answered, the segments after the first are left as they were.
LEMMA PopStep ==
    ASSUME Typed, ParseInv, todo # <<>>, source' = source, todo' = Tail(todo)
    PROVE  /\ todo' \in Seq(Segments)
           /\ Len(todo') <= Total'
           /\ Total' - Len(todo') + 1 = Total - Len(todo) + 2
           /\ \A n \in DOMAIN todo' : /\ todo'[n].number = Total' - Len(todo') + n
                                      /\ Faithful(todo[n])'
<1>1. todo \in Seq(Segments)
  BY DEF Typed
<1>2. Total \in Nat /\ Len(todo) \in Nat \ {0} /\ Total' = Total
  BY HeadFact, DocumentKept
<1>3. todo' \in Seq(Segments) /\ Len(todo') = Len(todo) - 1
      /\ \A n \in DOMAIN todo' : n + 1 \in DOMAIN todo /\ todo'[n] = todo[n + 1] /\ n \in Nat
  BY <1>1, <1>2
<1>4. \A n \in DOMAIN todo : todo[n].number = Total - Len(todo) + 1 - 1 + n /\ Faithful(todo[n])
  BY <1>2 DEF ParseInv
<1>5. \A n \in DOMAIN todo' : /\ todo'[n].number = Total' - Len(todo') + n
                              /\ Faithful(todo'[n])
  BY <1>2, <1>3, <1>4
<1>6. \A n \in DOMAIN todo' : Faithful(todo[n])'
  BY <1>5, FaithfulKept
<1>7. Len(todo) <= Total
  BY DEF ParseInv
<1> QED
  BY <1>2, <1>3, <1>5, <1>6, <1>7

\* An empty segment holds nothing to answer.
LEMMA SkipStep ==
    ASSUME AnswerInv, SkipSegment
    PROVE  AnswerInv'
<1>1. Typed /\ ParseInv /\ stage = "next" /\ todo # <<>> /\ emptySegment(Head(todo))
      /\ todo' = Tail(todo) /\ UNCHANGED <<source, at, start, outcomes, stage>>
  BY DEF AnswerInv, SkipSegment
<1> DEFINE next == Total - Len(todo) + 1
<1>2. Total \in Nat /\ Len(todo) \in Nat \ {0} /\ Head(todo).number = next
      /\ Faithful(Head(todo))
  BY <1>1, HeadFact
<1>3. next \in Nat /\ Total' - Len(todo') + 1 = next + 1
  BY <1>1, <1>2, PopStep DEF ParseInv
<1>4. \A i \in Written({"word", "junk"}) : SegmentOf(i) \in Nat /\ SegmentOf(i) # next
  <2> SUFFICES ASSUME NEW i \in Written({"word", "junk"})
               PROVE  SegmentOf(i) \in Nat /\ SegmentOf(i) # next
    OBVIOUS
  <2>1. i \in Nat
    BY <1>1 DEF Written, Typed
  <2>2. PICK x \in {"word", "junk"} : i \in Written({x})
    BY DEF Written
  <2>3. ~\E j \in DOMAIN Head(todo).text : Head(todo).text[j] = x
    BY <1>1 DEF emptySegment
  <2> QED
    BY <1>2, <2>1, <2>2, <2>3, SemicolonsFact DEF Faithful
<1>5. \A n \in DOMAIN outcomes : outcomes[n].segment \in Nat
  BY <1>1, OutcomeFact
<1>6. /\ \A i : SegmentOf(i)' = SegmentOf(i)
      /\ \A kinds : Written(kinds)' = Written(kinds)
  BY <1>1, DocumentKept
<1>7. /\ todo' \in Seq(Segments)
      /\ Len(todo') <= Total'
      /\ \A n \in DOMAIN todo' : /\ todo'[n].number = Total' - Len(todo') + n
                                 /\ Faithful(todo[n])'
  BY <1>1, PopStep
<1>8. ParseInv'
  <2>1. /\ \A n \in DOMAIN outcomes :
             /\ outcomes[n].segment < next
             /\ \E i \in Written({"word", "junk"}) : SegmentOf(i) = outcomes[n].segment
             /\ \A i \in Written({"junk"}) :
                   SegmentOf(i) = outcomes[n].segment => outcomes[n].result = "error"
        /\ \A i \in Written({"word", "junk"}) : SegmentOf(i) < next =>
             \E n \in DOMAIN outcomes : outcomes[n].segment = SegmentOf(i)
        /\ \A m, n \in DOMAIN outcomes : m < n => outcomes[m].segment < outcomes[n].segment
    BY <1>1 DEF ParseInv
  <2>2. \A n \in DOMAIN outcomes : outcomes[n].segment < next + 1
    BY <1>3, <1>5, <2>1
  <2>3. \A i \in Written({"word", "junk"}) : SegmentOf(i) < next + 1 => SegmentOf(i) < next
    BY <1>3, <1>4
  <2>4. \A n \in DOMAIN todo' : todo'[n].number = next + 1 - 1 + n
    <3>1. Total' - Len(todo') = next
      BY <1>2, <1>3, <1>7, DocumentKept, <1>1
    <3>2. \A n \in DOMAIN todo' : n \in Nat
      BY <1>7
    <3> QED
      BY <1>3, <1>7, <3>1, <3>2
  <2> HIDE DEF next
  <2>5. outcomes' = outcomes
    BY <1>1
  <2> QED
    BY <1>3, <1>6, <1>7, <2>1, <2>2, <2>3, <2>4, <2>5 DEF ParseInv
<1>9. Typed'
  BY <1>1, <1>7 DEF Typed
<1> QED
  BY <1>1, <1>8, <1>9 DEF AnswerInv, Binding

\* An answer: the segment has something to answer, and gets the next place.
LEMMA RecordStep ==
    ASSUME AnswerInv, stage # "split", todo # <<>>, ~emptySegment(Head(todo)),
           NEW outcome \in {"error", "statement"}, Record(outcome),
           outcome = "error"
              \/ \A j \in DOMAIN Head(todo).text : Head(todo).text[j] # "junk"
    PROVE  AnswerInv'
<1>1. Typed /\ ParseInv /\ todo' = Tail(todo) /\ stage' = "next"
      /\ UNCHANGED <<source, at, start>>
      /\ outcomes' = Append(outcomes, [segment |-> Head(todo).number, result |-> outcome])
  BY DEF AnswerInv, Record
<1> DEFINE next == Total - Len(todo) + 1
           new == [segment |-> next, result |-> outcome]
<1>2. Total \in Nat /\ Len(todo) \in Nat \ {0} /\ Head(todo).number = next
      /\ Faithful(Head(todo)) /\ Head(todo) \in Segments
  BY <1>1, HeadFact
<1>3. next \in Nat /\ Total' - Len(todo') + 1 = next + 1
  BY <1>1, <1>2, PopStep DEF ParseInv
<1>4. \A i \in Written({"word", "junk"}) : SegmentOf(i) \in Nat
  <2>1. \A i \in Written({"word", "junk"}) : i \in Nat
    BY <1>1 DEF Written, Typed
  <2> QED
    BY <2>1, SemicolonsFact
<1>5. \E i \in Written({"word", "junk"}) : SegmentOf(i) = next
  <2>1. Head(todo).text \in Seq(Elements)
    BY <1>2 DEF Segments
  <2>2. PICK j \in DOMAIN Head(todo).text : Head(todo).text[j] # "SP"
    BY DEF emptySegment
  <2>3. Head(todo).text[j] \in Elements /\ Head(todo).text[j] # "semicolon"
    BY <1>2, <2>1 DEF Faithful
  <2>4. Head(todo).text[j] \in {"word", "junk"}
    BY <2>2, <2>3 DEF Elements
  <2>5. PICK k \in Written({Head(todo).text[j]}) : SegmentOf(k) = Head(todo).number
    BY <1>2, <2>4 DEF Faithful
  <2>6. k \in Written({"word", "junk"})
    BY <2>4, <2>5 DEF Written
  <2> QED
    BY <1>2, <2>5, <2>6
<1>6. \A i \in Written({"junk"}) : SegmentOf(i) = next => outcome = "error"
  <2> SUFFICES ASSUME NEW i \in Written({"junk"}), SegmentOf(i) = next,
                      \A j \in DOMAIN Head(todo).text : Head(todo).text[j] # "junk"
               PROVE  FALSE
    OBVIOUS
  <2> QED
    BY <1>2 DEF Faithful
<1>7. /\ outcomes \in Seq(Outcomes) /\ Len(outcomes) \in Nat
      /\ DOMAIN outcomes = 1..Len(outcomes)
      /\ \A n \in DOMAIN outcomes : outcomes[n].segment \in Nat
  BY <1>1, OutcomeFact
<1>8. new \in Outcomes /\ new.segment = next /\ new.result = outcome
  BY <1>3 DEF Outcomes
<1>9. outcomes' = Append(outcomes, new)
  BY <1>1, <1>2
<1> HIDE DEF new
<1>10. /\ outcomes' \in Seq(Outcomes) /\ DOMAIN outcomes' = 1..(Len(outcomes) + 1)
       /\ \A n \in 1..Len(outcomes) : outcomes'[n] = outcomes[n]
       /\ outcomes'[Len(outcomes) + 1] = new
  BY <1>7, <1>8, <1>9
<1>11. /\ \A i : SegmentOf(i)' = SegmentOf(i)
       /\ \A kinds : Written(kinds)' = Written(kinds)
  BY <1>1, DocumentKept
<1>12. /\ todo' \in Seq(Segments)
       /\ Len(todo') <= Total'
       /\ \A n \in DOMAIN todo' : /\ todo'[n].number = Total' - Len(todo') + n
                                  /\ Faithful(todo[n])'
  BY <1>1, PopStep
<1>13. /\ \A n \in DOMAIN outcomes :
            /\ outcomes[n].segment < next
            /\ \E i \in Written({"word", "junk"}) : SegmentOf(i) = outcomes[n].segment
            /\ \A i \in Written({"junk"}) :
                  SegmentOf(i) = outcomes[n].segment => outcomes[n].result = "error"
       /\ \A i \in Written({"word", "junk"}) : SegmentOf(i) < next =>
            \E n \in DOMAIN outcomes : outcomes[n].segment = SegmentOf(i)
       /\ \A m, n \in DOMAIN outcomes : m < n => outcomes[m].segment < outcomes[n].segment
  BY <1>1 DEF ParseInv
<1>14. \A n \in DOMAIN todo' : todo'[n].number = next + 1 - 1 + n
  <2>1. Total' - Len(todo') = next
    BY <1>1, <1>2, <1>3, <1>12, DocumentKept
  <2>2. \A n \in DOMAIN todo' : n \in Nat
    BY <1>12
  <2> QED
    BY <1>3, <1>12, <2>1, <2>2
<1> HIDE DEF next
<1>15. \A n \in DOMAIN outcomes' :
          /\ outcomes'[n].segment < next + 1
          /\ \E i \in Written({"word", "junk"}) : SegmentOf(i) = outcomes'[n].segment
          /\ \A i \in Written({"junk"}) :
                SegmentOf(i) = outcomes'[n].segment => outcomes'[n].result = "error"
  <2> SUFFICES ASSUME NEW n \in DOMAIN outcomes'
               PROVE  /\ outcomes'[n].segment < next + 1
                      /\ \E i \in Written({"word", "junk"}) : SegmentOf(i) = outcomes'[n].segment
                      /\ \A i \in Written({"junk"}) :
                            SegmentOf(i) = outcomes'[n].segment => outcomes'[n].result = "error"
    OBVIOUS
  <2>1. n \in 1..Len(outcomes) \/ n = Len(outcomes) + 1
    BY <1>7, <1>10
  <2>2. CASE n \in 1..Len(outcomes)
    BY <1>3, <1>7, <1>10, <1>13, <2>2
  <2>3. CASE n = Len(outcomes) + 1
    BY <1>3, <1>5, <1>6, <1>8, <1>10, <2>3
  <2> QED
    BY <2>1, <2>2, <2>3
<1>16. ASSUME NEW i \in Written({"word", "junk"}), SegmentOf(i) < next + 1
       PROVE  \E n \in DOMAIN outcomes' : outcomes'[n].segment = SegmentOf(i)
  <2>1. CASE SegmentOf(i) < next
    BY <1>7, <1>10, <1>13, <2>1
  <2>2. CASE SegmentOf(i) = next
    BY <1>7, <1>8, <1>10, <2>2
  <2> QED
    BY <1>3, <1>4, <1>16, <2>1, <2>2
<1>17. ASSUME NEW m \in DOMAIN outcomes', NEW n \in DOMAIN outcomes', m < n
       PROVE  outcomes'[m].segment < outcomes'[n].segment
  <2>1. m \in 1..Len(outcomes) /\ (n \in 1..Len(outcomes) \/ n = Len(outcomes) + 1)
    BY <1>7, <1>10, <1>17
  <2>2. CASE n \in 1..Len(outcomes)
    BY <1>7, <1>10, <1>13, <1>17, <2>1, <2>2
  <2>3. CASE n = Len(outcomes) + 1
    BY <1>7, <1>8, <1>10, <1>13, <2>1, <2>3
  <2> QED
    BY <2>1, <2>2, <2>3
<1>18. ParseInv'
  BY <1>3, <1>11, <1>12, <1>14, <1>15, <1>16, <1>17 DEF ParseInv
<1>19. Typed'
  BY <1>1, <1>10, <1>12 DEF Typed
<1> QED
  BY <1>1, <1>18, <1>19 DEF AnswerInv, Binding

\* Nothing is cut off or answered where the document and the lists are the same.
LEMMA ListsKept ==
    ASSUME UNCHANGED <<source, at, start, todo, outcomes>>
    PROVE  (SplitInv => SplitInv') /\ (ParseInv => ParseInv')
<1>1. /\ \A i : SegmentOf(i)' = SegmentOf(i)
      /\ \A kinds : Written(kinds)' = Written(kinds)
      /\ Total' = Total
  BY DocumentKept
<1>2. source' = source /\ at' = at /\ start' = start /\ todo' = todo /\ outcomes' = outcomes
  OBVIOUS
<1>3. ASSUME NEW n \in DOMAIN todo, Faithful(todo[n])
      PROVE  Faithful(todo[n])'
  BY <1>2, <1>3, FaithfulKept
<1>4. SegmentOf(at - 1)' = SegmentOf(at - 1)
  BY <1>2 DEF SegmentOf
<1>5. SplitInv => SplitInv'
  BY <1>2, <1>3, <1>4 DEF SplitInv
<1>6. ParseInv => ParseInv'
  BY <1>1, <1>2, <1>3 DEF ParseInv
<1> QED
  BY <1>5, <1>6

\* A step of the binder changes neither the document nor what is answered.
LEMMA BinderStep ==
    ASSUME AnswerInv, stage # "split", UNCHANGED <<source, at, start, todo, outcomes>>,
           stage' \in {"next", "visit", "bound", "failed", "panicked", "returned"},
           stage' = "returned" => todo = <<>>,
           stage' \in {"visit", "bound", "failed", "panicked"} =>
               /\ todo # <<>>
               /\ ~emptySegment(Head(todo))
               /\ \A i \in DOMAIN Head(todo).text : Head(todo).text[i] # "junk"
    PROVE  AnswerInv'
<1>1. Typed /\ ParseInv
  BY DEF AnswerInv
<1>2. Typed'
  BY <1>1 DEF Typed
<1>3. ParseInv'
  BY <1>1, ListsKept
<1>4. Binding'
  BY DEF Binding, emptySegment
<1> QED
  BY <1>2, <1>3, <1>4 DEF AnswerInv

\* The outcome of a visit.
LEMMA VisitStages ==
    ASSUME Visit
    PROVE  stage = "visit" /\ stage' \in {"bound", "failed", "panicked"}
           /\ UNCHANGED <<source, at, start, todo, outcomes, negative>>
<1>1. PICK s, f : stage' = CASE Bind(node.rule, s, f).kind = "panic" -> "panicked"
                             [] Bind(node.rule, s, f).kind \in {"unsupported", "impossible"} -> "failed"
                             [] OTHER -> "bound"
  BY Zenon DEF Visit
<1>2. stage' \in {"bound", "failed", "panicked"}
  BY <1>1
<1> QED
  BY <1>2 DEF Visit

\* Initially nothing is cut off.
LEMMA AnswerInit ==
    ASSUME Init
    PROVE  AnswerInv
<1>1. source \in Sources /\ at = 1 /\ start = 1 /\ todo = <<>> /\ outcomes = <<>>
      /\ stage = "split"
  BY DEF Init
<1>2. source \in Seq(Elements) /\ Len(source) \in Nat /\ Len(source) <= MaxSource
  BY <1>1, SourceFact, SourceAssumption
<1>3. SegmentOf(0) = 1
  <2>1. {j \in 1..0 : source[j] = "semicolon"} = {}
    OBVIOUS
  <2>2. Cardinality({}) = 0
    BY FS_EmptySet
  <2> QED
    BY <2>1, <2>2 DEF SegmentOf
<1>4. todo \in Seq(Segments) /\ outcomes \in Seq(Outcomes) /\ Len(todo) = 0 /\ DOMAIN todo = {}
  BY <1>1
<1>5. Typed
  BY <1>1, <1>2, <1>4 DEF Typed
<1>6. at - 1 = 0
  BY <1>1
<1>7. SplitInv
  BY <1>1, <1>2, <1>3, <1>4, <1>6 DEF SplitInv
<1> QED
  BY <1>1, <1>5, <1>7 DEF AnswerInv, Binding

\* Every step of Parse keeps the invariant.
LEMMA AnswerStep ==
    ASSUME AnswerInv, [Next]_vars
    PROVE  AnswerInv'
<1>1. CASE Split
  BY <1>1, SplitStep
<1>2. CASE SplitEnd
  BY <1>2, SplitEndStep
<1>3. CASE SkipSegment
  BY <1>3, SkipStep
<1>4. CASE RejectSegment
  BY <1>4, RecordStep DEF RejectSegment
<1>5. CASE AcceptSegment
  BY <1>5, BinderStep DEF AcceptSegment
<1>6. CASE Visit
  <2>1. stage = "visit" /\ stage' \in {"bound", "failed", "panicked"}
        /\ UNCHANGED <<source, at, start, todo, outcomes, negative>>
    BY <1>6, VisitStages
  <2> QED
    BY <2>1, BinderStep DEF AnswerInv, Binding
<1>7. CASE Descend
  <2>1. stage = "bound" /\ stage' = "visit" /\ UNCHANGED <<source, at, start, todo, outcomes>>
    BY <1>7 DEF Descend
  <2> QED
    BY <2>1, BinderStep DEF AnswerInv, Binding
<1>8. CASE BindFails
  <2>1. stage = "failed" /\ Record("error")
    BY <1>8 DEF BindFails
  <2> QED
    BY <2>1, RecordStep DEF AnswerInv, Binding
<1>9. CASE BindSucceeds
  <2>1. stage = "bound" /\ Record("statement")
    BY <1>9 DEF BindSucceeds
  <2> QED
    BY <2>1, RecordStep DEF AnswerInv, Binding
<1>10. CASE Return
  BY <1>10, BinderStep DEF Return
<1>11. CASE UNCHANGED vars
  <2>1. UNCHANGED <<source, at, start, todo, outcomes, stage>>
    BY <1>11 DEF vars
  <2> QED
    BY <2>1, ListsKept DEF AnswerInv, Typed, Binding, emptySegment
<1> QED
  BY <1>1, <1>2, <1>3, <1>4, <1>5, <1>6, <1>7, <1>8, <1>9, <1>10, <1>11 DEF Next

\* The invariant says what Parse has answered when it returns: no place of a
\* document has a number above that of its end.
LEMMA AnswerImplies ==
    ASSUME AnswerInv
    PROVE  EveryStatementAnswered
<1> SUFFICES ASSUME stage = "returned"
             PROVE  /\ {outcomes[n].segment : n \in DOMAIN outcomes}
                          = {SegmentOf(i) : i \in Written({"word", "junk"})}
                    /\ \A m, n \in DOMAIN outcomes :
                          m < n => outcomes[m].segment < outcomes[n].segment
                    /\ \A n \in DOMAIN outcomes :
                          outcomes[n].segment \in {SegmentOf(i) : i \in Written({"junk"})} =>
                              outcomes[n].result = "error"
  BY DEF EveryStatementAnswered
<1>1. Typed /\ ParseInv /\ todo = <<>>
  BY DEF AnswerInv
<1>2. Len(todo) = 0 /\ Len(source) \in Nat
  BY <1>1 DEF Typed
<1>3. Total \in Nat
  BY <1>2, SemicolonsFact DEF Total
<1>4. ASSUME NEW i \in Written({"word", "junk"})
      PROVE  SegmentOf(i) < Total - Len(todo) + 1
  <2>1. i \in Nat /\ i <= Len(source)
    BY <1>1 DEF Written, Typed
  <2>2. SegmentOf(i) <= Total /\ SegmentOf(i) \in Nat
    BY <1>2, <2>1, SegmentOrder, SemicolonsFact DEF Total
  <2> QED
    BY <1>2, <1>3, <2>2
<1>5. \A i \in Written({"word", "junk"}) :
         \E n \in DOMAIN outcomes : outcomes[n].segment = SegmentOf(i)
  BY <1>1, <1>4 DEF ParseInv
<1>6. \A n \in DOMAIN outcomes :
         \E i \in Written({"word", "junk"}) : SegmentOf(i) = outcomes[n].segment
  BY <1>1 DEF ParseInv
<1>7. {outcomes[n].segment : n \in DOMAIN outcomes}
         = {SegmentOf(i) : i \in Written({"word", "junk"})}
  BY <1>5, <1>6
<1>8. \A n \in DOMAIN outcomes : \A i \in Written({"junk"}) :
         SegmentOf(i) = outcomes[n].segment => outcomes[n].result = "error"
  BY <1>1 DEF ParseInv
<1>9. \A m, n \in DOMAIN outcomes : m < n => outcomes[m].segment < outcomes[n].segment
  BY <1>1 DEF ParseInv
<1> QED
  BY <1>7, <1>8, <1>9

\* Parse answers each segment of a document that holds anything but layout once
\* and in order, a segment the lexer cannot read with an error, however long the
\* document is and whatever the binder makes of each statement.
THEOREM StatementsAnswered == Spec => []EveryStatementAnswered
<1>1. Init => AnswerInv
  BY AnswerInit
<1>2. AnswerInv /\ [Next]_vars => AnswerInv'
  BY AnswerStep
<1>3. AnswerInv => EveryStatementAnswered
  BY AnswerImplies
<1> QED
  BY <1>1, <1>2, <1>3, PTL DEF Spec

-----------------------------------------------------------------------------
(* Integer literals.                                                       *)

\* parseIntegerLiteral keeps the value where the word holds it and refuses it
\* where it does not.
LEMMA ParsedExactly ==
    ASSUME NEW m \in 0..(2 * Half), NEW minus \in BOOLEAN,
           NEW value, value = IF minus THEN -m ELSE m
    PROVE  IF value \in -Half..(Half - 1)
           THEN /\ parseIntegerLiteral(m, minus).kind = "Literal"
                /\ parseIntegerLiteral(m, minus).attributes.Value = value
           ELSE parseIntegerLiteral(m, minus).kind = "unsupported"
<1>1. Half \in Nat \ {0} /\ m \in Nat /\ value \in Int
  BY WordAssumption
<1>2. CASE value \in -Half..(Half - 1)
  <2>1. parseIntegerLiteral(m, minus) = Node("Literal", <<>>, [Value |-> value])
    BY <1>1, <1>2 DEF parseIntegerLiteral
  <2> QED
    BY <1>2, <2>1 DEF Node
<1>3. CASE value \notin -Half..(Half - 1)
  <2>1. parseIntegerLiteral(m, minus) = Refused("integer")
    BY <1>1, <1>3 DEF parseIntegerLiteral
  <2> QED
    BY <1>3, <2>1 DEF Refused, Node
<1> QED
  BY <1>2, <1>3

\* The walk that has reached an integer literal bound it by its magnitude and
\* by the sign that stands before it.
LiteralInv ==
    /\ negative \in BOOLEAN
    /\ \E r, s, f : node = [rule |-> r, shape |-> s, facts |-> f]
    /\ node.rule = "OC_IntegerLiteral" /\ ast.kind # "none" =>
          \E m \in 0..(2 * Half) :
              node.facts = {m} /\ ast = parseIntegerLiteral(m, negative)

\* The bind function of an integer literal, and what its text may denote.
LEMMA LiteralBound ==
    ASSUME NEW s, NEW f
    PROVE  /\ Bind("OC_IntegerLiteral", s, f) = bindIntegerLiteral(f, negative)
           /\ Facts("OC_IntegerLiteral", s) = {{m} : m \in 0..(2 * Half)}
<1>1. Bind("OC_IntegerLiteral", s, f) = bindIntegerLiteral(f, negative)
  BY DEF Bind
<1>2. Facts("OC_IntegerLiteral", s) = {{m} : m \in 0..(2 * Half)}
  BY DEF Facts
<1> QED
  BY <1>1, <1>2

\* Every step keeps the literal's invariant: a visit binds the literal, and any
\* other step leaves the node or forgets what it was bound to.
LEMMA LiteralStep ==
    ASSUME LiteralInv, [Next]_vars
    PROVE  LiteralInv'
<1>1. ASSUME UNCHANGED <<negative, node, ast>>
      PROVE  LiteralInv'
  BY <1>1 DEF LiteralInv
<1>2. ASSUME NEW outcome, Record(outcome)
      PROVE  LiteralInv'
  <2>1. negative' = FALSE /\ node' = [rule |-> "none", shape |-> <<>>, facts |-> {}]
    BY <1>2 DEF Record, NoNode
  <2> QED
    BY <2>1 DEF LiteralInv
<1>3. CASE AcceptSegment
  <2>1. node' = [rule |-> "OC_Cypher", shape |-> <<>>, facts |-> {}] /\ negative' = negative
    BY <1>3 DEF AcceptSegment, NoNode
  <2> QED
    BY <2>1 DEF LiteralInv
<1>4. CASE Visit
  <2>1. PICK s, f : /\ f \in Facts(node.rule, s)
                    /\ node' = [node EXCEPT !.shape = s, !.facts = f]
                    /\ ast' = Bind(node.rule, s, f)
                    /\ negative' = negative
    BY <1>4 DEF Visit
  <2>2. node' = [rule |-> node.rule, shape |-> s, facts |-> f]
    BY <2>1 DEF LiteralInv
  <2>3. ASSUME node.rule = "OC_IntegerLiteral"
        PROVE  \E m \in 0..(2 * Half) :
                  node'.facts = {m} /\ ast' = parseIntegerLiteral(m, negative')
    <3>1. PICK m \in 0..(2 * Half) : f = {m}
      BY <2>1, <2>3, LiteralBound
    <3>2. (CHOOSE magnitude \in f : TRUE) = m
      BY <3>1
    <3>3. ast' = parseIntegerLiteral(m, negative)
      BY <2>1, <2>3, <3>2, LiteralBound DEF bindIntegerLiteral
    <3> QED
      BY <2>1, <2>2, <3>1, <3>3
  <2> QED
    BY <2>1, <2>2, <2>3 DEF LiteralInv
<1>5. CASE Descend
  <2>1. ast' = NoAst /\ negative' \in BOOLEAN
    BY <1>5 DEF Descend
  <2>2. ast'.kind = "none"
    BY <2>1 DEF NoAst, Node
  <2>3. PICK r : node' = [NoNode EXCEPT !.rule = r]
    BY <1>5 DEF Descend
  <2>4. node' = [rule |-> r, shape |-> <<>>, facts |-> {}]
    BY <2>3 DEF NoNode
  <2> QED
    BY <2>1, <2>2, <2>4 DEF LiteralInv
<1>6. CASE Split \/ SplitEnd \/ SkipSegment \/ Return \/ UNCHANGED vars
  BY <1>1, <1>6 DEF Split, SplitEnd, SkipSegment, Return, vars
<1>7. CASE RejectSegment \/ BindFails \/ BindSucceeds
  BY <1>2, <1>7 DEF RejectSegment, BindFails, BindSucceeds
<1> QED
  BY <1>3, <1>4, <1>5, <1>6, <1>7 DEF Next

\* An integer literal is bound to its own value, negated under a minus sign, or
\* refused because the word cannot hold it, for words of every width: the least
\* integer, whose magnitude no positive one has, included.
THEOREM LiteralsExact == Spec => []LiteralIsExact
<1>1. ASSUME Init PROVE LiteralInv
  <2>1. negative = FALSE /\ node = [rule |-> "none", shape |-> <<>>, facts |-> {}]
    BY <1>1 DEF Init, NoNode
  <2> QED
    BY <2>1 DEF LiteralInv
<1>2. LiteralInv /\ [Next]_vars => LiteralInv'
  BY LiteralStep
<1>3. LiteralInv => LiteralIsExact
  <2> SUFFICES ASSUME LiteralInv, node.rule = "OC_IntegerLiteral", ast.kind # "none"
               PROVE  LiteralIsExact
    BY DEF LiteralIsExact
  <2>1. PICK m \in 0..(2 * Half) :
              node.facts = {m} /\ ast = parseIntegerLiteral(m, negative)
    BY DEF LiteralInv
  <2>2. (CHOOSE x \in node.facts : TRUE) = m
    BY <2>1
  <2>3. negative \in BOOLEAN
    BY DEF LiteralInv
  <2>4. LET value == IF negative THEN -m ELSE m
        IN IF value \in -Half..(Half - 1)
           THEN ast.kind = "Literal" /\ ast.attributes.Value = value
           ELSE ast.kind = "unsupported"
    BY <2>1, <2>3, ParsedExactly
  <2> QED
    BY <2>2, <2>4 DEF LiteralIsExact
<1> QED
  BY <1>1, <1>2, <1>3, PTL DEF Spec
=============================================================================
