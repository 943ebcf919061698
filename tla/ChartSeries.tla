----------------------------- MODULE ChartSeries -----------------------------
(***************************************************************************)
(* How the browser reduces a range of minutes to the points of one line of *)
(* a chart (prepareChartSeries), one minute per step.  The record of the   *)
(* range is chosen while the loop reads it: a minute is Gap when the       *)
(* answer has no point for it or the selector gives no finite number.      *)
(* The lines of a chart are computed independently, so one is enough.      *)
(***************************************************************************)
EXTENDS Integers, FiniteSets, FiniteSetsExt, Functions

CONSTANTS
    Values,          \* numbers a selector can return
    Gap,             \* the null of a missing minute, and of an unset variable
    MinuteCounts,    \* lengths of the range, in minutes
    Widths,          \* widths of the chart's element, in pixels
    MinPointBudget, MaxPointBudget, DefaultChartWidth, PointsPerPixel

CandidatesPerBucket == 4

ASSUME ValuesAssumption == Values \subseteq Int /\ Gap \notin Int
ASSUME RangeAssumption ==
    /\ MinuteCounts \subseteq Nat \ {0}
    /\ Widths \subseteq Int
    /\ {MinPointBudget, MaxPointBudget, DefaultChartWidth, PointsPerPixel}
         \subseteq Nat \ {0}

\* MIN_POINT_BUDGET (160) and MAX_POINT_BUDGET (1600) leave room for a bucket.
ASSUME BudgetAssumption ==
    /\ MinPointBudget >= CandidatesPerBucket + 2
    /\ MinPointBudget <= MaxPointBudget

VARIABLES
    minuteCount, pointBudget,
    record,          \* the value of each minute; Gap where not yet read
    index,           \* the next minute to read
    bucketIndex, bucket,
    candidates,      \* the minutes that will be points of the line
    gapOpen, lastFiniteIndex,
    stats

vars == <<minuteCount, pointBudget, record, index, bucketIndex, bucket,
          candidates, gapOpen, lastFiniteIndex, stats>>

chartPointBudget(width) ==
    LET safeWidth == IF width > 0 THEN width ELSE DefaultChartWidth
        wanted == safeWidth * PointsPerPixel
        atLeast == IF wanted < MinPointBudget THEN MinPointBudget ELSE wanted
    IN IF atLeast > MaxPointBudget THEN MaxPointBudget ELSE atLeast

Minutes == 0 .. minuteCount - 1
Reduced == minuteCount > pointBudget

BucketCount ==
    LET affordable == (pointBudget - 2) \div CandidatesPerBucket
    IN IF ~Reduced \/ affordable < 1 THEN 1 ELSE affordable
BucketSize == (minuteCount + BucketCount - 1) \div BucketCount
BucketStart == bucketIndex * BucketSize
BucketEnd ==
    IF BucketStart + BucketSize > minuteCount THEN minuteCount
                                              ELSE BucketStart + BucketSize
Finished == bucketIndex = BucketCount

EmptyBucket == [first |-> Gap, last |-> Gap, minimum |-> Gap, maximum |-> Gap]

Init ==
    /\ minuteCount \in MinuteCounts
    /\ pointBudget \in {chartPointBudget(w) : w \in Widths}
    /\ record = [i \in Minutes |-> Gap]
    /\ index = 0 /\ bucketIndex = 0 /\ bucket = EmptyBucket
    /\ candidates = IF Reduced THEN {0, minuteCount - 1} ELSE Minutes
    /\ gapOpen = FALSE /\ lastFiniteIndex = Gap
    /\ stats = [sum |-> 0, count |-> 0, maximum |-> Gap, current |-> Gap]

\* Variant: the last finite minute before a gap is not kept.
MissingMinuteForgets ==
    /\ ~Finished /\ index < BucketEnd
    /\ index' = index + 1
    /\ candidates' = candidates \cup (IF gapOpen THEN {} ELSE {index})
    /\ gapOpen' = TRUE
    /\ UNCHANGED <<minuteCount, pointBudget, record, bucketIndex, bucket,
                   lastFiniteIndex, stats>>

\* Variant: every minute of a gap is kept.
MissingMinuteKeepsAll ==
    /\ ~Finished /\ index < BucketEnd
    /\ index' = index + 1
    /\ candidates' = candidates \cup ({index, lastFiniteIndex} \ {Gap})
    /\ gapOpen' = TRUE
    /\ UNCHANGED <<minuteCount, pointBudget, record, bucketIndex, bucket,
                   lastFiniteIndex, stats>>

\* A gap keeps its first minute and the last finite minute before it.
MissingMinute ==
    /\ ~Finished /\ index < BucketEnd
    /\ index' = index + 1
    /\ candidates' =
         candidates \cup
           (IF gapOpen THEN {} ELSE {index, lastFiniteIndex} \ {Gap})
    /\ gapOpen' = TRUE
    /\ UNCHANGED <<minuteCount, pointBudget, record, bucketIndex, bucket,
                   lastFiniteIndex, stats>>

\* Strict comparisons: of equal extremes the earliest is remembered.
Extended(value) ==
    [first   |-> IF bucket.first = Gap THEN index ELSE bucket.first,
     last    |-> index,
     minimum |-> IF bucket.minimum = Gap THEN index
                 ELSE IF value < record[bucket.minimum] THEN index
                 ELSE bucket.minimum,
     maximum |-> IF bucket.maximum = Gap THEN index
                 ELSE IF value > record[bucket.maximum] THEN index
                 ELSE bucket.maximum]

Accumulated(value) ==
    [sum     |-> stats.sum + value,
     count   |-> stats.count + 1,
     maximum |-> IF stats.maximum = Gap THEN value
                 ELSE IF value > stats.maximum THEN value ELSE stats.maximum,
     current |-> value]

\* The first finite minute after a gap is kept.
FiniteMinute ==
    /\ ~Finished /\ index < BucketEnd
    /\ \E value \in Values :
         /\ record' = [record EXCEPT ![index] = value]
         /\ bucket' = Extended(value)
         /\ stats' = Accumulated(value)
    /\ index' = index + 1
    /\ candidates' = candidates \cup (IF gapOpen THEN {index} ELSE {})
    /\ gapOpen' = FALSE /\ lastFiniteIndex' = index
    /\ UNCHANGED <<minuteCount, pointBudget, bucketIndex>>

\* Variant: the maxima of the buckets are not kept.
WithoutMaxima ==
    candidates \cup ({bucket.first, bucket.last, bucket.minimum} \ {Gap})

addBucketCandidates ==
    candidates \cup
      ({bucket.first, bucket.last, bucket.minimum, bucket.maximum} \ {Gap})

CloseBucket ==
    /\ ~Finished /\ index >= BucketEnd
    /\ candidates' = IF Reduced THEN addBucketCandidates ELSE candidates
    /\ bucketIndex' = bucketIndex + 1 /\ bucket' = EmptyBucket
    /\ UNCHANGED <<minuteCount, pointBudget, record, index, gapOpen,
                   lastFiniteIndex, stats>>

Next == MissingMinute \/ FiniteMinute \/ CloseBucket
Spec == Init /\ [][Next]_vars

(***************************************************************************)
(* What the chart draws.  Points are the candidates in order; the line     *)
(* joins neighbouring points that are both finite, and a symbol is drawn   *)
(* for a finite point with no finite neighbour (isolatedPointSymbolSize).  *)
(***************************************************************************)
Finite(i) == record[i] # Gap
Neighbours(i, j) ==
    i < j /\ \A k \in candidates : ~(i < k /\ k < j)
IsolatedPoint(i) ==
    /\ Finite(i)
    /\ \A j \in candidates :
         Neighbours(j, i) \/ Neighbours(i, j) => ~Finite(j)

(***************************************************************************)
(* Properties of a finished line.                                          *)
(***************************************************************************)
\* The variables keep their types and every point is a minute of the range.
TypeOK ==
    /\ minuteCount \in MinuteCounts /\ pointBudget \in Nat
    /\ record \in [Minutes -> Values \cup {Gap}]
    /\ index \in 0 .. minuteCount /\ bucketIndex \in 0 .. BucketCount
    /\ candidates \subseteq Minutes
    /\ gapOpen \in BOOLEAN /\ lastFiniteIndex \in Minutes \cup {Gap}
    /\ bucket \in [first : Minutes \cup {Gap}, last : Minutes \cup {Gap},
                  minimum : Minutes \cup {Gap}, maximum : Minutes \cup {Gap}]
    /\ stats \in [sum : Int, count : 0 .. minuteCount,
                  maximum : Values \cup {Gap}, current : Values \cup {Gap}]

\* Reducing the range never joins two minutes across a gap and never cuts a
\* run in two: neighbouring points that are both finite have only finite
\* minutes between them, and a finite point has a finite neighbour exactly
\* when the minute next to it is finite, so that the symbol of an isolated
\* point is drawn for the isolated minutes and no others (chartSeries.ts:228,
\* MetricChart.tsx:62).
BreaksExactly ==
    Finished =>
      /\ \A i, j \in candidates :
           Finite(i) /\ Finite(j) /\ Neighbours(i, j)
             => \A k \in i .. j : Finite(k)
      /\ \A i \in candidates :
           IsolatedPoint(i) <=>
             /\ Finite(i)
             /\ i > 0 => ~Finite(i - 1)
             /\ i < minuteCount - 1 => ~Finite(i + 1)

\* No peak and no dip is lost: within a bucket's length of every finite minute
\* a point as high and a point as low is kept (chartSeries.ts:254-261).
KeptNear(i) ==
    /\ \E k \in candidates : /\ Finite(k) /\ record[k] >= record[i]
                             /\ k - i < BucketSize /\ i - k < BucketSize
    /\ \E k \in candidates : /\ Finite(k) /\ record[k] <= record[i]
                             /\ k - i < BucketSize /\ i - k < BucketSize
PeaksKept == Finished => \A i \in Minutes : Finite(i) => KeptNear(i)

\* The bound the comment at chartSeries.ts:165 derives for a reduced line of
\* G gaps and R finite runs: 4B+2+G+2R points, at most P+G+2R.
GapRuns == {i \in Minutes : ~Finite(i) /\ (i > 0 => Finite(i - 1))}
FiniteRuns == {i \in Minutes : Finite(i) /\ (i > 0 => ~Finite(i - 1))}
WithinBudget ==
    Finished /\ Reduced =>
      LET points == Cardinality(candidates)
          runs == Cardinality(GapRuns) + 2 * Cardinality(FiniteRuns)
      IN /\ points <= CandidatesPerBucket * BucketCount + 2 + runs
         /\ points <= pointBudget + runs
=============================================================================
