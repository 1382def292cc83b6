---------------------------- MODULE IntervalSearch ----------------------------
(***************************************************************************)
(* DisjointRangeVector::find_disjoint_interval (range_vector.h): binary    *)
(* search, without a bound of its own, over the intervals of               *)
(* DisjointRanges.                                                         *)
(***************************************************************************)
EXTENDS DisjointRanges

VARIABLES
    find,           \* The argument.
    min, max,       \* Bounds, counted from 0 as in the code.
    answer          \* "none": no call; "searching"; "null"; "found".

searchVars == <<find, min, max, answer>>

mid == (max + min) \div 2

(* intervals[mid], counted from 0.                                         *)
MidInterval == intervals[mid + 1]

SearchInit ==
    /\ Init
    /\ find = 0 /\ min = 0 /\ max = 0 /\ answer = "none"

Construct == Next /\ UNCHANGED searchVars

Call ==
    /\ done /\ answer = "none"
    /\ find' \in Scalars
    /\ min' = 0
    /\ max' = Len(intervals) - 1
    /\ answer' = "searching"
    /\ UNCHANGED vars

(* Variants: the search ends too early; mid is tried again.                *)
AtUpperEndLow == mid = min
LowerBoundKept == mid

AtUpperEnd == mid = max
LowerBound == mid + 1

Above ==
    /\ answer = "searching" /\ find > MidInterval.stop
    /\ IF AtUpperEnd THEN answer' = "null" /\ UNCHANGED min
       ELSE min' = LowerBound /\ UNCHANGED answer
    /\ UNCHANGED <<vars, find, max>>

(* Variant: one interval too many is dropped.                              *)
UpperBoundSkipped == mid - 2

UpperBound == mid - 1

Below ==
    /\ answer = "searching" /\ find <= MidInterval.stop /\ find < MidInterval.start
    /\ IF mid = min THEN answer' = "null" /\ UNCHANGED max
       ELSE max' = UpperBound /\ UNCHANGED answer
    /\ UNCHANGED <<vars, find, min>>

Hit ==
    /\ answer = "searching" /\ find <= MidInterval.stop /\ find >= MidInterval.start
    /\ answer' = "found"
    /\ UNCHANGED <<vars, find, min, max>>

SearchNext == Construct \/ Call \/ Above \/ Below \/ Hit

(* A call is made at will; once made, it runs to its end.                  *)
SearchSpec ==
    /\ SearchInit /\ [][SearchNext]_<<vars, searchVars>>
    /\ WF_<<vars, searchVars>>(Construct)
    /\ WF_<<vars, searchVars>>(Above \/ Below \/ Hit)

------------------------------------------------------------------------------
(* While the search goes on, the interval of a scalar that has one is      *)
(* between min and max, and mid is the index of an interval.               *)
SearchBounded ==
    answer = "searching" =>
        /\ 0 <= min /\ min <= max /\ max < Len(intervals)
        /\ find \in First .. Last => \E i \in min .. max : find \in Interval(i + 1)

(* NULL is returned for scalars outside First .. Last and for no other.    *)
NullOnlyOutside ==
    /\ answer = "null" => find \notin First .. Last
    /\ answer = "found" => find \in Interval(mid + 1)

SearchEnds == answer = "searching" ~> answer \in {"null", "found"}

==============================================================================
