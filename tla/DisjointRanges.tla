---------------------------- MODULE DisjointRanges ----------------------------
(***************************************************************************)
(* The constructor of DisjointRangeVector (range_vector.h): a sweep over   *)
(* sorted ranges that turns them into consecutive intervals, each with the *)
(* ranges that overlap it.                                                 *)
(***************************************************************************)
EXTENDS Integers, Sequences, Functions

CONSTANTS
    Top,            \* Largest Scalar; Top + 1 wraps to 0.
    First, Last,    \* Arguments start and stop.
    Values,         \* What ranges are labelled with.
    Inputs          \* The vectors of ranges the constructor is called with.

Scalars == 0 .. Top

(* What the constructor of RangeValue makes: start is not above stop.      *)
RangeValues ==
    {r \in [start : First .. Last, stop : First .. Last, value : Values] : r.start <= r.stop}

ASSUME RangesAssumption ==
    /\ Top \in Nat \ {0}
    /\ First \in Scalars /\ Last \in Scalars /\ First <= Last
    /\ Inputs \subseteq Seq(RangeValues)

VARIABLES
    ranges,         \* _ranges, sorted.
    next,           \* The range the first loop considers, i.
    start,          \* active_interval.start
    list,           \* active_interval._list, in the order of ranges: indices.
    intervals,      \* _vector_of_disjoint_intervals
    overflow,
    done

vars == <<ranges, next, start, list, intervals, overflow, done>>

------------------------------------------------------------------------------
IsSorted(s) == \A i, j \in DOMAIN s : i < j => s[i].start <= s[j].start

(* std::sort by start: the order of equal starts is not determined.        *)
SortedOrders(input) ==
    {s \in {[i \in DOMAIN input |-> input[p[i]]] : p \in Bijection(DOMAIN input, DOMAIN input)} :
        IsSorted(s)}

Begin(input) ==
    /\ ranges \in SortedOrders(input)
    /\ next = 1
    /\ start = First
    /\ list = {}
    /\ intervals = <<>>
    /\ overflow = FALSE
    /\ done = FALSE

Init == \E input \in Inputs : Begin(input)

Remaining == next <= Len(ranges)

(* Variant: a sum that does not wrap.                                      *)
SuccUnbounded(x) == x + 1

Succ(x) == (x + 1) % (Top + 1)

(* Variants: ranges that stop where the next interval starts are erased;   *)
(* ranges that stop just before it are kept.                               *)
ReachingBeyond(x) == {i \in list : ranges[i].stop > x}
ReachingNearly(x) == {i \in list : ranges[i].stop + 1 >= x}

(* The ranges of the list that reach scalar x; the others are erased.      *)
Reaching(x) == {i \in list : ranges[i].stop >= x}

IsLeast(x, S) == x \in S /\ \A y \in S : x <= y

Push(stop) ==
    intervals' = Append(intervals, [start |-> start, stop |-> stop, list |-> list])

------------------------------------------------------------------------------
(* The next range starts where the active interval does.                   *)
Join ==
    /\ ~done /\ Remaining /\ ranges[next].start = start
    /\ list' = list \cup {next}
    /\ next' = next + 1
    /\ UNCHANGED <<ranges, start, intervals, overflow, done>>

(* It starts later: an interval ends before it, or where a range stops.  In *)
(* the code the inner loop ends when the next range's start is reached, and *)
(* the range is appended; that is Join.                                    *)
Cut ==
    /\ ~done /\ Remaining /\ ranges[next].start # start
    /\ \E stop \in Scalars :
          /\ IsLeast(stop, {ranges[next].start - 1} \cup {ranges[i].stop : i \in list})
          /\ Push(stop)
          /\ start' = Succ(stop)
          /\ list' = Reaching(Succ(stop))
    /\ UNCHANGED <<ranges, next, overflow, done>>

(* Variant: no check for the largest scalar.                               *)
WrapsNever(stop) == FALSE

Wraps(stop) == Succ(stop) < stop

(* All ranges have been considered: intervals end where ranges stop.  At   *)
(* the largest scalar there is no next start, and the list is emptied.     *)
Drain ==
    /\ ~done /\ ~Remaining /\ list # {}
    /\ \E stop \in Scalars :
          /\ IsLeast(stop, {ranges[i].stop : i \in list})
          /\ Push(stop)
          /\ IF Wraps(stop)
             THEN /\ overflow' = TRUE
                  /\ start' = stop
                  /\ list' = {i \in list : ranges[i].stop > stop}
             ELSE /\ start' = Succ(stop)
                  /\ list' = Reaching(Succ(stop))
                  /\ UNCHANGED overflow
    /\ UNCHANGED <<ranges, next, done>>

(* What is left up to the last scalar, also when there are no ranges.      *)
Finish ==
    /\ ~done /\ ~Remaining /\ list = {}
    /\ IF Last >= start /\ ~overflow THEN Push(Last) ELSE UNCHANGED intervals
    /\ done' = TRUE
    /\ UNCHANGED <<ranges, next, start, list, overflow>>

Next == Join \/ Cut \/ Drain \/ Finish

Spec == Init /\ [][Next]_vars

------------------------------------------------------------------------------
Interval(i) == intervals[i].start .. intervals[i].stop

Covers(r, i) == r.start <= intervals[i].start /\ intervals[i].stop <= r.stop

Apart(r, i) == r.stop < intervals[i].start \/ intervals[i].stop < r.start

TypeOK ==
    /\ ranges \in Seq(RangeValues)
    /\ next \in 1 .. Len(ranges) + 1
    /\ start \in Scalars
    /\ list \subseteq 1 .. next - 1
    /\ intervals \in Seq([start : Scalars, stop : Scalars, list : SUBSET (1 .. Len(ranges))])
    /\ overflow \in BOOLEAN /\ done \in BOOLEAN

(* The intervals follow each other without a gap or an overlap, and in the *)
(* end reach from the first scalar to the last, even if that is the largest *)
(* one of its type.                                                        *)
Partition ==
    /\ \A i \in DOMAIN intervals :
          /\ intervals[i].start <= intervals[i].stop
          /\ intervals[i].start = IF i = 1 THEN First ELSE intervals[i - 1].stop + 1
    /\ done => intervals # <<>> /\ intervals[Len(intervals)].stop = Last

(* An interval lists the ranges that contain the whole of it, and those not *)
(* listed contain nothing of it.                                           *)
ListsExact ==
    \A i \in DOMAIN intervals : \A x \in DOMAIN ranges :
        IF x \in intervals[i].list THEN Covers(ranges[x], i) ELSE Apart(ranges[x], i)

(* There are no more intervals than needed: neighbours differ in ranges.   *)
NoNeedlessCut ==
    \A i \in DOMAIN intervals : i > 1 => intervals[i].list # intervals[i - 1].list

(* Every range adds two boundaries at most.  As each step considers a      *)
(* range, pushes an interval or is the last, this also bounds the sweep.   *)
IntervalsBounded == Len(intervals) <= 2 * Len(ranges) + 1

==============================================================================
