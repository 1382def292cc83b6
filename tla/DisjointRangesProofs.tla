------------------------- MODULE DisjointRangesProofs -------------------------
(***************************************************************************)
(* The sweep of DisjointRanges partitions the scalars and lists exactly the *)
(* ranges that overlap each interval, for every largest scalar and every   *)
(* set of vectors, however std::sort orders equal starts.                  *)
(* The search of IntervalSearch finds the interval of its argument.        *)
(***************************************************************************)
EXTENDS IntervalSearch, SequenceTheorems, FiniteSetTheorems, WellFoundedInduction, TLAPS

Intervals == [start : Scalars, stop : Scalars, list : SUBSET (1 .. Len(ranges))]

(* The intervals pushed so far.                                            *)
Consecutive ==
    \A i \in DOMAIN intervals :
        /\ intervals[i].start <= intervals[i].stop
        /\ intervals[i].start = IF i = 1 THEN First ELSE intervals[i - 1].stop + 1

EndsAt(stop) == intervals # <<>> /\ intervals[Len(intervals)].stop = stop

(* The active interval follows the last one pushed; its list has those     *)
(* ranges that have been considered and reach it, and the ranges that have *)
(* not been considered do not start before it.                             *)
ActiveInv ==
    /\ start <= Last + 1
    /\ IF intervals = <<>> THEN start = First ELSE EndsAt(start - 1)
    /\ \A x \in 1 .. next - 1 : /\ ranges[x].start <= start
                                /\ x \in list <=> ranges[x].stop >= start
    /\ \A x \in next .. Len(ranges) : start <= ranges[x].start

SweepInv ==
    /\ IsSorted(ranges)
    /\ Consecutive
    /\ ListsExact
    /\ ~done /\ ~overflow => ActiveInv
    /\ ~done /\ overflow => list = {} /\ ~Remaining /\ EndsAt(Last)
    /\ done => EndsAt(Last)

SafeInv == TypeOK /\ SweepInv

------------------------------------------------------------------------------
LEMMA RangeBounds ==
    ASSUME NEW s \in Seq(RangeValues), NEW x \in 1 .. Len(s)
    PROVE  /\ s[x].start \in Nat /\ s[x].stop \in Nat
           /\ First <= s[x].start /\ s[x].start <= s[x].stop /\ s[x].stop <= Last
           /\ s[x].start \in Scalars /\ s[x].stop \in Scalars
<1>1. s[x] \in RangeValues
  BY ElementOfSeq
<1> QED
  BY <1>1, RangesAssumption DEF RangeValues, Scalars

LEMMA SuccWithin ==
    ASSUME NEW x \in Scalars
    PROVE  /\ Succ(x) \in Scalars
           /\ x < Top => Succ(x) = x + 1 /\ ~Wraps(x)
           /\ x = Top => Wraps(x)
<1>1. CASE x < Top
  <2>1. x + 1 \in 0 .. Top /\ x \in Nat
    BY <1>1, RangesAssumption DEF Scalars
  <2>2. ((x + 1) % (Top + 1)) = x + 1
    BY <2>1, RangesAssumption
  <2> QED
    BY <1>1, <2>1, <2>2 DEF Succ, Wraps, Scalars
<1>2. CASE x = Top
  <2>1. ((Top + 1) % (Top + 1)) = 0
    BY RangesAssumption
  <2> QED
    BY <1>2, <2>1, RangesAssumption DEF Succ, Wraps, Scalars
<1> QED
  BY <1>1, <1>2, RangesAssumption DEF Scalars

(* An interval that follows the others and separates the ranges of the list *)
(* from the rest can be pushed.                                            *)
LEMMA Pushed ==
    ASSUME TypeOK, Consecutive, ListsExact,
           IF intervals = <<>> THEN start = First ELSE EndsAt(start - 1),
           NEW stop \in Scalars, start <= stop,
           \A x \in 1 .. Len(ranges) :
              IF x \in list THEN ranges[x].start <= start /\ stop <= ranges[x].stop
              ELSE ranges[x].stop < start \/ stop < ranges[x].start,
           ranges' = ranges, Push(stop)
    PROVE  /\ intervals' \in Seq([start : Scalars, stop : Scalars, list : SUBSET (1 .. Len(ranges'))])
           /\ Consecutive' /\ ListsExact' /\ EndsAt(stop)'
<1> DEFINE n == Len(intervals)
           new == [start |-> start, stop |-> stop, list |-> list]
<1>1. new \in Intervals
  BY DEF TypeOK, Intervals
<1>2. intervals \in Seq(Intervals) /\ n \in Nat /\ DOMAIN intervals = 1 .. n
  BY LenProperties DEF TypeOK, Intervals
<1>3. /\ intervals' \in Seq(Intervals) /\ intervals' # <<>>
      /\ Len(intervals') = n + 1
      /\ \A i \in 1 .. n : intervals'[i] = intervals[i]
      /\ intervals'[n + 1] = new
  BY <1>1, <1>2, AppendProperties DEF Push
<1>4. DOMAIN intervals' = 1 .. n + 1
  BY <1>3, LenProperties
<1>5. DOMAIN ranges = 1 .. Len(ranges)
  BY LenProperties DEF TypeOK
<1>6. new.start = start /\ new.stop = stop /\ new.list = list
  OBVIOUS
<1>7. EndsAt(stop)'
  BY <1>3, <1>6 DEF EndsAt
<1>8. ListsExact'
  <2> SUFFICES ASSUME NEW i \in 1 .. n + 1, NEW x \in 1 .. Len(ranges)
               PROVE  IF x \in intervals'[i].list
                      THEN ranges[x].start <= intervals'[i].start /\ intervals'[i].stop <= ranges[x].stop
                      ELSE ranges[x].stop < intervals'[i].start \/ intervals'[i].stop < ranges[x].start
    BY <1>4, <1>5 DEF ListsExact, Covers, Apart
  <2>1. CASE i = n + 1
    BY <1>3, <1>6, <2>1
  <2>2. CASE i \in 1 .. n
    BY <1>2, <1>3, <1>5, <2>2 DEF ListsExact, Covers, Apart
  <2> HIDE DEF n
  <2>3. i = n + 1 \/ i \in 1 .. n
    BY <1>2
  <2> QED
    BY <2>1, <2>2, <2>3
<1>9. Consecutive'
  <2> SUFFICES ASSUME NEW i \in 1 .. n + 1
               PROVE  /\ intervals'[i].start <= intervals'[i].stop
                      /\ intervals'[i].start = IF i = 1 THEN First ELSE intervals'[i - 1].stop + 1
    BY <1>4 DEF Consecutive
  <2>1. CASE i = n + 1
    <3>1. intervals'[i] = new
      BY <1>3, <2>1
    <3>2. CASE intervals = <<>>
      <4>1. n = 0
        BY <3>2, EmptySeq
      <4> QED
        BY <1>6, <2>1, <3>1, <3>2, <4>1
    <3>3. CASE intervals # <<>>
      <4>1. n # 0
        BY <1>2, <3>3, EmptySeq
      <4>2. EndsAt(start - 1)
        BY <3>3
      <4> HIDE DEF n
      <4>3. n \in 1 .. n /\ i # 1 /\ i - 1 = n
        BY <1>2, <2>1, <4>1
      <4>4. intervals'[i - 1] = intervals[n]
        BY <1>3, <4>3
      <4>5. intervals[n].stop = start - 1
        BY <4>2 DEF EndsAt, n
      <4>6. start \in Int
        BY RangesAssumption DEF TypeOK, Scalars
      <4>7. intervals[n].stop + 1 = start
        BY <4>5, <4>6
      <4> HIDE DEF new
      <4> QED
        BY <1>6, <3>1, <4>3, <4>4, <4>7
    <3> QED
      BY <3>2, <3>3
  <2>2. CASE i \in 1 .. n
    <3>1. intervals'[i] = intervals[i]
      BY <1>3, <2>2
    <3>2. ASSUME i # 1 PROVE intervals'[i - 1] = intervals[i - 1]
      <4> HIDE DEF n
      <4>1. i - 1 \in 1 .. n
        BY <1>2, <2>2, <3>2
      <4> QED
        BY <1>3, <4>1
    <3> QED
      BY <1>2, <2>2, <3>1, <3>2 DEF Consecutive
  <2> HIDE DEF n
  <2>3. i = n + 1 \/ i \in 1 .. n
    BY <1>2
  <2> QED
    BY <2>1, <2>2, <2>3
<1> QED
  BY <1>3, <1>7, <1>8, <1>9 DEF Intervals

------------------------------------------------------------------------------
(***************************************************************************)
(* The actions                                                             *)
(***************************************************************************)
LEMMA SortedType ==
    ASSUME NEW input \in Inputs, NEW s \in SortedOrders(input)
    PROVE  s \in Seq(RangeValues) /\ IsSorted(s)
<1>1. input \in Seq(RangeValues)
  BY RangesAssumption
<1>2. PICK p \in Bijection(DOMAIN input, DOMAIN input) : s = [i \in DOMAIN input |-> input[p[i]]]
  BY DEF SortedOrders
<1>3. p \in [DOMAIN input -> DOMAIN input]
  BY DEF Bijection, Injection
<1>4. DOMAIN input = 1 .. Len(input) /\ Len(input) \in Nat
  BY <1>1, LenProperties
<1>5. \A i \in 1 .. Len(input) : input[p[i]] \in RangeValues
  BY <1>1, <1>3, <1>4, ElementOfSeq
<1>6. s \in [1 .. Len(input) -> RangeValues]
  BY <1>2, <1>4, <1>5
<1>7. s \in Seq(RangeValues)
  BY <1>4, <1>6
<1> QED
  BY <1>7 DEF SortedOrders

LEMMA SweepInit == Init => SafeInv
<1> SUFFICES ASSUME NEW input \in Inputs, Begin(input) PROVE SafeInv
  BY DEF Init
<1>1. ranges \in Seq(RangeValues) /\ IsSorted(ranges)
  BY SortedType DEF Begin
<1>2. Len(ranges) \in Nat
  BY <1>1, LenProperties
<1>3. TypeOK
  <2>1. next \in 1 .. Len(ranges) + 1 /\ list \subseteq 1 .. next - 1
    BY <1>2 DEF Begin
  <2>2. start \in Scalars /\ overflow \in BOOLEAN /\ done \in BOOLEAN
    BY RangesAssumption DEF Begin
  <2>3. intervals \in Seq([start : Scalars, stop : Scalars, list : SUBSET (1 .. Len(ranges))])
    BY EmptySeq DEF Begin
  <2> QED
    BY <1>1, <2>1, <2>2, <2>3 DEF TypeOK
<1>4. DOMAIN intervals = {}
  BY DEF Begin
<1>5. ActiveInv
  <2>1. \A x \in next .. Len(ranges) : First <= ranges[x].start
    BY <1>1, <1>2, RangeBounds DEF Begin
  <2>2. 1 .. next - 1 = {}
    BY DEF Begin
  <2>3. start <= Last + 1
    BY RangesAssumption DEF Begin, Scalars
  <2> QED
    BY <2>1, <2>2, <2>3 DEF ActiveInv, Begin
<1> QED
  BY <1>1, <1>3, <1>4, <1>5 DEF SafeInv, SweepInv, Consecutive, ListsExact, Begin

(* The facts every action uses.                                            *)
LEMMA SweepFacts ==
    ASSUME SafeInv
    PROVE  /\ ranges \in Seq(RangeValues) /\ Len(ranges) \in Nat
           /\ DOMAIN ranges = 1 .. Len(ranges)
           /\ next \in Nat /\ 1 <= next /\ next <= Len(ranges) + 1
           /\ start \in Nat /\ start <= Top
           /\ Top \in Nat /\ First \in Nat /\ Last \in Nat /\ First <= Last /\ Last <= Top
           /\ list \subseteq 1 .. Len(ranges)
           /\ \A x \in 1 .. Len(ranges) :
                 /\ ranges[x].start \in Nat /\ ranges[x].stop \in Nat
                 /\ First <= ranges[x].start /\ ranges[x].start <= ranges[x].stop
                 /\ ranges[x].stop <= Last
                 /\ ranges[x].start \in Scalars /\ ranges[x].stop \in Scalars
<1>1. ranges \in Seq(RangeValues) /\ Len(ranges) \in Nat /\ DOMAIN ranges = 1 .. Len(ranges)
  BY LenProperties DEF SafeInv, TypeOK
<1>2. next \in 1 .. Len(ranges) + 1 /\ start \in 0 .. Top /\ list \subseteq 1 .. next - 1
  BY DEF SafeInv, TypeOK, Scalars
<1>3. Top \in Nat /\ First \in 0 .. Top /\ Last \in 0 .. Top /\ First <= Last
  BY RangesAssumption DEF Scalars
<1>4. list \subseteq 1 .. Len(ranges)
  BY <1>1, <1>2
<1>5. next \in Nat /\ 1 <= next /\ next <= Len(ranges) + 1
  BY <1>1, <1>2
<1>6. start \in Nat /\ start <= Top /\ First \in Nat /\ Last \in Nat /\ Last <= Top
  BY <1>2, <1>3
<1> QED
  BY <1>1, <1>3, <1>4, <1>5, <1>6, RangeBounds

LEMMA JoinKeeps ==
    ASSUME SafeInv, Join
    PROVE  SafeInv'
<1> DEFINE n == Len(ranges)
<1>1. /\ ~done /\ Remaining /\ ranges[next].start = start
      /\ list' = list \cup {next} /\ next' = next + 1
      /\ ranges' = ranges /\ start' = start /\ intervals' = intervals
      /\ overflow' = overflow /\ done' = done
  BY DEF Join
<1>2. /\ n \in Nat /\ DOMAIN ranges = 1 .. n /\ next \in Nat /\ 1 <= next /\ next <= n
      /\ start \in Nat /\ list \subseteq 1 .. next - 1
      /\ ranges[next].start <= ranges[next].stop
  <2>1. next \in 1 .. n
    BY <1>1, SweepFacts DEF Remaining
  <2> QED
    BY <2>1, SweepFacts DEF SafeInv, TypeOK
<1>3. ~overflow /\ ActiveInv /\ IsSorted(ranges)
  BY <1>1 DEF SafeInv, SweepInv
<1>4. TypeOK'
  <2> HIDE DEF n
  <2>1. next + 1 \in 1 .. n + 1
    BY <1>2
  <2>2. \A x \in list \cup {next} : x \in 1 .. (next + 1) - 1
    <3>1. \A x \in 1 .. next - 1 : x \in 1 .. (next + 1) - 1
      BY <1>2
    <3>2. next \in 1 .. (next + 1) - 1
      BY <1>2
    <3> QED
      BY <1>2, <3>1, <3>2
  <2> QED
    BY <1>1, <2>1, <2>2 DEF SafeInv, TypeOK, n
<1>5. ActiveInv'
  <2>1. \A x \in 1 .. next - 1 : /\ ranges[x].start <= start
                                 /\ x \in list <=> ranges[x].stop >= start
    BY <1>3 DEF ActiveInv
  <2>2. \A x \in next + 1 .. n : start <= ranges[x].start
    <3> HIDE DEF n
    <3>1. \A x \in next + 1 .. n : x \in next .. n
      BY <1>2
    <3> QED
      BY <1>3, <3>1 DEF ActiveInv, n
  <2>3. ASSUME NEW x \in 1 .. next
        PROVE  ranges[x].start <= start /\ (x \in list \cup {next} <=> ranges[x].stop >= start)
    <3>1. CASE x = next
      BY <1>1, <1>2, <3>1
    <3>2. CASE x # next
      <4>1. x \in 1 .. next - 1
        BY <1>2, <3>2
      <4> QED
        BY <2>1, <3>2, <4>1
    <3> QED
      BY <3>1, <3>2
  <2>4. next' - 1 = next
    BY <1>1, <1>2
  <2>5. start <= Last + 1 /\ IF intervals = <<>> THEN start = First ELSE EndsAt(start - 1)
    BY <1>3 DEF ActiveInv
  <2> QED
    BY <1>1, <2>2, <2>3, <2>4, <2>5 DEF ActiveInv, EndsAt
<1> QED
  BY <1>1, <1>3, <1>4, <1>5 DEF SafeInv, SweepInv, Consecutive, ListsExact, Covers, Apart, EndsAt

(* Where the active interval is cut: before the next range starts, and not *)
(* at the largest scalar.                                                  *)
LEMMA CutStop ==
    ASSUME SafeInv, Cut
    PROVE  \E stop \in Scalars :
              /\ stop = ranges[next].start - 1 \/ \E i \in list : stop = ranges[i].stop
              /\ stop <= ranges[next].start - 1 /\ \A i \in list : stop <= ranges[i].stop
              /\ Push(stop)
              /\ start <= stop /\ stop < Last /\ stop < Top
              /\ start' = stop + 1 /\ start' \in Scalars
              /\ list' = {i \in list : ranges[i].stop >= stop + 1}
<1>1. /\ ~done /\ Remaining /\ ranges[next].start # start
      /\ ranges' = ranges /\ next' = next /\ overflow' = overflow /\ done' = done
  BY DEF Cut
<1>2. PICK stop \in Scalars :
         /\ IsLeast(stop, {ranges[next].start - 1} \cup {ranges[i].stop : i \in list})
         /\ Push(stop)
         /\ start' = Succ(stop)
         /\ list' = Reaching(Succ(stop))
  BY DEF Cut
<1>3. ~overflow /\ ActiveInv /\ IsSorted(ranges)
  BY <1>1 DEF SafeInv, SweepInv
<1>4. next \in 1 .. Len(ranges)
  BY <1>1, SweepFacts DEF Remaining
<1>5. stop \in Nat /\ stop <= ranges[next].start - 1 /\ (\A i \in list : stop <= ranges[i].stop)
  <2>1. stop \in Nat
    BY RangesAssumption DEF Scalars
  <2>2. \A y \in {ranges[next].start - 1} \cup {ranges[i].stop : i \in list} : stop <= y
    BY <1>2 DEF IsLeast
  <2> QED
    BY <2>1, <2>2
<1>6. start < ranges[next].start
  <2>1. next \in next .. Len(ranges)
    BY <1>4, SweepFacts
  <2>2. start <= ranges[next].start
    BY <1>3, <2>1 DEF ActiveInv
  <2> QED
    BY <1>1, <1>4, <2>2, SweepFacts
<1>7. start <= stop
  <2>1. stop = ranges[next].start - 1 \/ \E i \in list : stop = ranges[i].stop
    BY <1>2 DEF IsLeast
  <2>2. \A i \in list : start <= ranges[i].stop
    <3>1. \A i \in list : i \in 1 .. next - 1
      BY DEF SafeInv, TypeOK
    <3> QED
      BY <1>3, <3>1, SweepFacts DEF ActiveInv
  <2> QED
    BY <1>4, <1>6, <2>1, <2>2, SweepFacts
<1>8. stop < Last /\ stop < Top /\ Succ(stop) = stop + 1
  <2>1. stop < Last /\ stop < Top
    BY <1>4, <1>5, SweepFacts
  <2> QED
    BY <2>1, SuccWithin
<1>9. stop = ranges[next].start - 1 \/ \E i \in list : stop = ranges[i].stop
  BY <1>2 DEF IsLeast
<1>10. start' = stop + 1 /\ start' \in Scalars
  BY <1>2, <1>8, SuccWithin
<1>11. list' = {i \in list : ranges[i].stop >= stop + 1}
  BY <1>2, <1>8 DEF Reaching
<1> QED
  BY <1>2, <1>5, <1>7, <1>8, <1>9, <1>10, <1>11

LEMMA CutKeeps ==
    ASSUME SafeInv, Cut
    PROVE  SafeInv'
<1>1. /\ ~done /\ Remaining /\ ranges[next].start # start
      /\ ranges' = ranges /\ next' = next /\ overflow' = overflow /\ done' = done
  BY DEF Cut
<1>2. PICK stop \in Scalars :
         /\ stop <= ranges[next].start - 1 /\ \A i \in list : stop <= ranges[i].stop
         /\ Push(stop)
         /\ start <= stop /\ stop < Last /\ stop < Top
         /\ start' = stop + 1 /\ start' \in Scalars
         /\ list' = {i \in list : ranges[i].stop >= stop + 1}
  BY CutStop
<1>3. ~overflow /\ ActiveInv /\ IsSorted(ranges)
  BY <1>1 DEF SafeInv, SweepInv
<1>4. next \in 1 .. Len(ranges)
  BY <1>1, SweepFacts DEF Remaining
<1>5. stop \in Nat /\ stop <= ranges[next].start - 1 /\ (\A i \in list : stop <= ranges[i].stop)
  BY <1>2, RangesAssumption DEF Scalars
<1>7. start <= stop
  BY <1>2
<1>8. stop < Last /\ stop < Top
  BY <1>2
<1>9. \A x \in next .. Len(ranges) : x \in 1 .. Len(ranges) /\ stop < ranges[x].start
  <2> SUFFICES ASSUME NEW x \in next .. Len(ranges)
               PROVE  x \in 1 .. Len(ranges) /\ stop < ranges[x].start
    OBVIOUS
  <2>1. x \in 1 .. Len(ranges)
    BY <1>4, SweepFacts
  <2>2. ranges[next].start <= ranges[x].start
    <3>1. CASE x = next
      BY <2>1, <3>1, SweepFacts
    <3>2. CASE x # next
      <4>1. next < x
        BY <1>4, <3>2
      <4> QED
        BY <1>3, <1>4, <2>1, <4>1, SweepFacts DEF IsSorted
    <3> QED
      BY <3>1, <3>2
  <2> QED
    BY <1>4, <1>5, <2>1, <2>2, SweepFacts
<1>10. \A x \in 1 .. Len(ranges) : x \notin 1 .. next - 1 => x \in next .. Len(ranges)
  BY <1>4, SweepFacts
<1>11. \A x \in 1 .. next - 1 : /\ x \in 1 .. Len(ranges) /\ ranges[x].start <= start
                                /\ x \in list <=> ranges[x].stop >= start
  <2>1. \A x \in 1 .. next - 1 : x \in 1 .. Len(ranges)
    BY <1>4, SweepFacts
  <2> QED
    BY <1>3, <2>1 DEF ActiveInv
<1>12. list \subseteq 1 .. next - 1
  BY DEF SafeInv, TypeOK
<1>13. /\ intervals' \in Seq([start : Scalars, stop : Scalars, list : SUBSET (1 .. Len(ranges'))])
       /\ Consecutive' /\ ListsExact' /\ EndsAt(stop)'
  <2>1. ASSUME NEW x \in 1 .. Len(ranges)
        PROVE  IF x \in list THEN ranges[x].start <= start /\ stop <= ranges[x].stop
               ELSE ranges[x].stop < start \/ stop < ranges[x].start
    <3>1. CASE x \in 1 .. next - 1
      BY <1>5, <1>11, <3>1, SweepFacts
    <3>2. CASE x \notin 1 .. next - 1
      BY <1>9, <1>10, <1>12, <3>2
    <3> QED
      BY <3>1, <3>2
  <2>2. TypeOK /\ Consecutive /\ ListsExact
    BY DEF SafeInv, SweepInv
  <2>3. IF intervals = <<>> THEN start = First ELSE EndsAt(start - 1)
    BY <1>3 DEF ActiveInv
  <2> QED
    BY <1>1, <1>2, <1>7, <2>1, <2>2, <2>3, Pushed
<1>14. list' = {i \in list : ranges[i].stop >= stop + 1}
  BY <1>2
<1>15. TypeOK'
  <2>1. start' \in Scalars
    BY <1>2
  <2>2. list' \subseteq 1 .. next - 1
    BY <1>12, <1>14
  <2> QED
    BY <1>1, <1>13, <2>1, <2>2 DEF SafeInv, TypeOK
<1>16. ActiveInv'
  <2>1. start' = stop + 1
    BY <1>2
  <2>2. stop + 1 <= Last + 1
    BY <1>5, <1>8, SweepFacts
  <2>3. intervals' # <<>> /\ EndsAt(start - 1)'
    <3>1. (stop + 1) - 1 = stop
      BY <1>5
    <3> QED
      BY <1>13, <2>1, <3>1 DEF EndsAt
  <2>4. ASSUME NEW x \in 1 .. next - 1
        PROVE  ranges[x].start <= stop + 1 /\ (x \in list' <=> ranges[x].stop >= stop + 1)
    <3>1. ranges[x].start <= stop + 1
      BY <1>5, <1>7, <1>11, SweepFacts
    <3>2. ASSUME x \notin list PROVE ~(ranges[x].stop >= stop + 1)
      BY <1>5, <1>7, <1>11, <3>2, SweepFacts
    <3> QED
      BY <1>14, <3>1, <3>2
  <2>5. \A x \in next .. Len(ranges) : stop + 1 <= ranges[x].start
    BY <1>5, <1>9, SweepFacts
  <2> QED
    BY <1>1, <2>1, <2>2, <2>3, <2>4, <2>5 DEF ActiveInv
<1> QED
  BY <1>1, <1>3, <1>13, <1>15, <1>16 DEF SafeInv, SweepInv

(* Where the active interval is drained: a range of the list stops there.  *)
LEMMA DrainStop ==
    ASSUME SafeInv, Drain
    PROVE  \E stop \in Scalars :
              /\ \A i \in list : stop <= ranges[i].stop
              /\ \E i \in list : stop = ranges[i].stop
              /\ start <= stop /\ stop <= Last
              /\ Push(stop)
              /\ \/ /\ stop = Last /\ overflow' = TRUE
                    /\ start' = stop /\ list' = {}
                 \/ /\ overflow' = overflow
                    /\ start' = stop + 1 /\ start' \in Scalars
                    /\ list' = {i \in list : ranges[i].stop >= stop + 1}
<1> DEFINE n == Len(ranges)
<1>1. /\ ~done /\ ~Remaining /\ list # {}
      /\ ranges' = ranges /\ next' = next /\ done' = done
  BY DEF Drain
<1>2. PICK stop \in Scalars :
         /\ IsLeast(stop, {ranges[i].stop : i \in list})
         /\ Push(stop)
         /\ IF Wraps(stop)
            THEN /\ overflow' = TRUE
                 /\ start' = stop
                 /\ list' = {i \in list : ranges[i].stop > stop}
            ELSE /\ start' = Succ(stop)
                 /\ list' = Reaching(Succ(stop))
                 /\ UNCHANGED overflow
  BY DEF Drain
<1>3. ~overflow /\ ActiveInv /\ IsSorted(ranges)
  BY <1>1 DEF SafeInv, SweepInv
<1>4. next = n + 1 /\ n \in Nat
  BY <1>1, SweepFacts DEF Remaining
<1>5. /\ stop \in Nat /\ stop <= Last
      /\ (\A i \in list : stop <= ranges[i].stop)
      /\ \E i \in list : stop = ranges[i].stop
  <2>1. stop \in {ranges[i].stop : i \in list}
    BY <1>2 DEF IsLeast
  <2>2. \A y \in {ranges[i].stop : i \in list} : stop <= y
    BY <1>2 DEF IsLeast
  <2> QED
    BY <2>1, <2>2, SweepFacts
<1>6. \A x \in 1 .. n : /\ ranges[x].start <= start
                        /\ x \in list <=> ranges[x].stop >= start
  <2>1. next - 1 = n
    BY <1>4
  <2> QED
    BY <1>3, <2>1 DEF ActiveInv
<1>7. start <= stop
  BY <1>5, <1>6, SweepFacts
<1>8. CASE stop = Top
  <2>1. Wraps(stop)
    BY <1>8, SuccWithin
  <2>2. overflow' = TRUE /\ start' = stop /\ list' = {i \in list : ranges[i].stop > stop}
    BY <1>2, <2>1
  <2>3. stop = Last /\ list' = {}
    BY <1>5, <1>8, <2>2, SweepFacts
  <2> QED
    BY <1>2, <1>5, <1>7, <2>2, <2>3
<1>9. CASE stop # Top
  <2>1. stop < Top /\ Succ(stop) = stop + 1 /\ ~Wraps(stop)
    <3>1. stop < Top
      BY <1>5, <1>9, SweepFacts
    <3> QED
      BY <3>1, SuccWithin
  <2>2. /\ overflow' = overflow /\ start' = stop + 1 /\ start' \in Scalars
        /\ list' = {i \in list : ranges[i].stop >= stop + 1}
    BY <1>2, <2>1, SuccWithin DEF Reaching
  <2> QED
    BY <1>2, <1>5, <1>7, <2>2
<1> QED
  BY <1>8, <1>9

LEMMA DrainKeeps ==
    ASSUME SafeInv, Drain
    PROVE  SafeInv'
<1> DEFINE n == Len(ranges)
<1>1. /\ ~done /\ ~Remaining /\ list # {}
      /\ ranges' = ranges /\ next' = next /\ done' = done
  BY DEF Drain
<1>2. PICK stop \in Scalars :
         /\ \A i \in list : stop <= ranges[i].stop
         /\ \E i \in list : stop = ranges[i].stop
         /\ start <= stop /\ stop <= Last
         /\ Push(stop)
         /\ \/ /\ stop = Last /\ overflow' = TRUE
               /\ start' = stop /\ list' = {}
            \/ /\ overflow' = overflow
               /\ start' = stop + 1 /\ start' \in Scalars
               /\ list' = {i \in list : ranges[i].stop >= stop + 1}
  BY DrainStop
<1>3. ~overflow /\ ActiveInv /\ IsSorted(ranges)
  BY <1>1 DEF SafeInv, SweepInv
<1>4. next = n + 1 /\ n \in Nat
  BY <1>1, SweepFacts DEF Remaining
<1>5. /\ stop \in Nat /\ stop <= Last
      /\ (\A i \in list : stop <= ranges[i].stop)
      /\ \E i \in list : stop = ranges[i].stop
  BY <1>2, RangesAssumption DEF Scalars
<1>6. \A x \in 1 .. n : /\ ranges[x].start <= start
                        /\ x \in list <=> ranges[x].stop >= start
  <2>1. next - 1 = n
    BY <1>4
  <2> QED
    BY <1>3, <2>1 DEF ActiveInv
<1>7. start <= stop
  BY <1>2
<1>8. /\ intervals' \in Seq([start : Scalars, stop : Scalars, list : SUBSET (1 .. Len(ranges'))])
      /\ Consecutive' /\ ListsExact' /\ EndsAt(stop)'
  <2>1. ASSUME NEW x \in 1 .. Len(ranges)
        PROVE  IF x \in list THEN ranges[x].start <= start /\ stop <= ranges[x].stop
               ELSE ranges[x].stop < start \/ stop < ranges[x].start
    <3>1. /\ ranges[x].start <= start /\ (x \in list <=> ranges[x].stop >= start)
          /\ ranges[x].start \in Nat /\ ranges[x].stop \in Nat /\ start \in Nat
      BY <1>6, SweepFacts
    <3>2. CASE x \in list
      BY <1>5, <3>1, <3>2
    <3>3. CASE x \notin list
      BY <3>1, <3>3
    <3> QED
      BY <3>2, <3>3
  <2>2. TypeOK /\ Consecutive /\ ListsExact
    BY DEF SafeInv, SweepInv
  <2>3. IF intervals = <<>> THEN start = First ELSE EndsAt(start - 1)
    BY <1>3 DEF ActiveInv
  <2> QED
    BY <1>1, <1>2, <1>7, <2>1, <2>2, <2>3, Pushed
<1>9. list \subseteq 1 .. next - 1
  BY DEF SafeInv, TypeOK
<1>10. CASE stop = Last /\ overflow' = TRUE /\ start' = stop /\ list' = {}
  <2>1. TypeOK'
    BY <1>1, <1>8, <1>10 DEF SafeInv, TypeOK
  <2> QED
    BY <1>1, <1>3, <1>8, <1>10, <2>1 DEF SafeInv, SweepInv, Remaining
<1>11. CASE /\ overflow' = overflow
            /\ start' = stop + 1 /\ start' \in Scalars
            /\ list' = {i \in list : ranges[i].stop >= stop + 1}
  <2>1. TypeOK'
    <3>1. list' \subseteq 1 .. next - 1
      BY <1>9, <1>11
    <3> QED
      BY <1>1, <1>8, <1>11, <3>1 DEF SafeInv, TypeOK
  <2>2. ActiveInv'
    <3>1. stop + 1 <= Last + 1
      BY <1>5, SweepFacts
    <3>2. intervals' # <<>> /\ EndsAt(start - 1)'
      <4>1. (stop + 1) - 1 = stop
        BY <1>5
      <4> QED
        BY <1>8, <1>11, <4>1 DEF EndsAt
    <3>3. ASSUME NEW x \in 1 .. n
          PROVE  ranges[x].start <= stop + 1 /\ (x \in list' <=> ranges[x].stop >= stop + 1)
      <4>1. ranges[x].start <= stop + 1
        BY <1>5, <1>6, <1>7, SweepFacts
      <4>2. ASSUME x \notin list PROVE ~(ranges[x].stop >= stop + 1)
        BY <1>5, <1>6, <1>7, <4>2, SweepFacts
      <4> QED
        BY <1>11, <4>1, <4>2
    <3> HIDE DEF n
    <3>4. next - 1 = n /\ next .. n = {}
      BY <1>4
    <3> QED
      BY <1>1, <1>11, <3>1, <3>2, <3>3, <3>4 DEF ActiveInv, n
  <2> QED
    BY <1>1, <1>3, <1>8, <1>11, <2>1, <2>2 DEF SafeInv, SweepInv
<1> QED
  BY <1>2, <1>10, <1>11

LEMMA FinishKeeps ==
    ASSUME SafeInv, Finish
    PROVE  SafeInv'
<1>1. /\ ~done /\ ~Remaining /\ list = {} /\ done'
      /\ IF Last >= start /\ ~overflow THEN Push(Last) ELSE UNCHANGED intervals
      /\ ranges' = ranges /\ next' = next /\ start' = start /\ list' = list
      /\ overflow' = overflow /\ done' = TRUE
  BY DEF Finish
<1>2. CASE Last >= start /\ ~overflow
  <2>1. ActiveInv
    BY <1>1, <1>2 DEF SafeInv, SweepInv
  <2>2. next - 1 = Len(ranges)
    BY <1>1, SweepFacts DEF Remaining
  <2>3. ASSUME NEW x \in 1 .. Len(ranges) PROVE ranges[x].stop < start
    BY <1>1, <2>1, <2>2, SweepFacts DEF ActiveInv
  <2>4. Last \in Scalars /\ start <= Last
    BY <1>2, RangesAssumption
  <2>5. /\ intervals' \in Seq([start : Scalars, stop : Scalars, list : SUBSET (1 .. Len(ranges'))])
        /\ Consecutive' /\ ListsExact' /\ EndsAt(Last)'
    BY <1>1, <1>2, <2>1, <2>3, <2>4, Pushed DEF SafeInv, SweepInv, ActiveInv
  <2> QED
    BY <1>1, <2>5 DEF SafeInv, SweepInv, TypeOK
<1>3. CASE ~(Last >= start /\ ~overflow)
  <2>1. intervals' = intervals
    BY <1>1, <1>3
  <2>2. EndsAt(Last)
    <3>1. CASE overflow
      BY <1>1, <3>1 DEF SafeInv, SweepInv
    <3>2. CASE ~overflow
      <4>1. ActiveInv
        BY <1>1, <3>2 DEF SafeInv, SweepInv
      <4>2. start - 1 = Last /\ start # First
        BY <1>3, <3>2, <4>1, SweepFacts DEF ActiveInv
      <4> QED
        BY <4>1, <4>2 DEF ActiveInv
    <3> QED
      BY <3>1, <3>2
  <2> QED
    BY <1>1, <2>1, <2>2
       DEF SafeInv, SweepInv, TypeOK, Consecutive, ListsExact, Covers, Apart, EndsAt
<1> QED
  BY <1>2, <1>3

LEMMA SweepStep == SafeInv /\ [Next]_vars => SafeInv'
<1> SUFFICES ASSUME SafeInv, [Next]_vars PROVE SafeInv'
  OBVIOUS
<1>1. CASE UNCHANGED vars
  BY <1>1 DEF vars, SafeInv, SweepInv, TypeOK, Consecutive, ListsExact, Covers, Apart, EndsAt,
              ActiveInv, Remaining
<1>2. CASE Join
  BY <1>2, JoinKeeps
<1>3. CASE Cut
  BY <1>3, CutKeeps
<1>4. CASE Drain
  BY <1>4, DrainKeeps
<1>5. CASE Finish
  BY <1>5, FinishKeeps
<1> QED
  BY <1>1, <1>2, <1>3, <1>4, <1>5 DEF Next

(* The inductive invariant: the active interval follows the last one       *)
(* pushed, and its list has exactly the ranges considered that reach it.   *)
THEOREM SweepCorrect == Spec => []SafeInv
BY SweepInit, SweepStep, PTL DEF Spec

(* Whatever the scalars and the ranges, also at the largest scalar, where   *)
(* the sweep's sum wraps, the intervals partition First .. Last.           *)
THEOREM PartitionKept == Spec => []Partition
<1>1. SafeInv => Partition
  BY DEF SafeInv, SweepInv, Partition, Consecutive, EndsAt
<1> QED
  BY <1>1, SweepCorrect, PTL

(* Every interval lists the ranges that contain it, and no other range     *)
(* touches it.                                                             *)
THEOREM ListsKept == Spec => []ListsExact
<1>1. SafeInv => ListsExact
  BY DEF SafeInv, SweepInv
<1> QED
  BY <1>1, SweepCorrect, PTL

(* Every step of the sweep works on scalars and on lists of indices of the *)
(* sorted ranges, whatever the scalars and the ranges.                     *)
THEOREM SweepTypes == Spec => []TypeOK
<1>1. SafeInv => TypeOK
  BY DEF SafeInv
<1> QED
  BY <1>1, SweepCorrect, PTL

------------------------------------------------------------------------------
(***************************************************************************)
(* The order of the intervals                                              *)
(***************************************************************************)
(* Intervals are in order, and the sweep that is done has reached Last.    *)
LEMMA IntervalFacts ==
    ASSUME SafeInv
    PROVE  /\ Len(intervals) \in Nat /\ DOMAIN intervals = 1 .. Len(intervals)
           /\ \A i \in 1 .. Len(intervals) :
                 /\ intervals[i].start \in Nat /\ intervals[i].stop \in Nat
                 /\ intervals[i].start <= intervals[i].stop
                 /\ intervals[i].start = IF i = 1 THEN First ELSE intervals[i - 1].stop + 1
           /\ done => Len(intervals) > 0 /\ intervals[Len(intervals)].stop = Last
<1>1. intervals \in Seq(Intervals)
  BY DEF SafeInv, TypeOK, Intervals
<1>2. Len(intervals) \in Nat /\ DOMAIN intervals = 1 .. Len(intervals)
  BY <1>1, LenProperties
<1>3. \A i \in 1 .. Len(intervals) : intervals[i] \in Intervals
  BY <1>1, <1>2
<1>4. \A i \in 1 .. Len(intervals) : intervals[i].start \in Nat /\ intervals[i].stop \in Nat
  BY <1>3, RangesAssumption DEF Intervals, Scalars
<1>5. done => intervals # <<>> /\ intervals[Len(intervals)].stop = Last
  BY DEF SafeInv, SweepInv, EndsAt
<1>6. intervals # <<>> => Len(intervals) > 0
  BY <1>1, <1>2, EmptySeq
<1> QED
  BY <1>2, <1>4, <1>5, <1>6 DEF SafeInv, SweepInv, Consecutive

(* What is true of an interval because it is of the one before, for all of *)
(* them: no set of counterexamples, as it would have a least element.      *)
LEMMA LeastNatural ==
    ASSUME NEW T, T \subseteq Nat, T # {}
    PROVE  \E x \in T : \A y \in T : x <= y
<1> DEFINE R == OpToRel(<, Nat)
<1>1. IsWellFoundedOn(R, Nat)
  BY NatLessThanWellFounded
<1>2. R = {p \in Nat \X Nat : p[1] < p[2]}
  BY DEF OpToRel
<1> HIDE DEF R
<1>3. PICK x \in T : \A y \in T : ~(<<y, x>> \in R)
  BY <1>1, WFMin
<1>4. \A y \in T : ~(y < x)
  BY <1>2, <1>3
<1> QED
  BY <1>3, <1>4

(* Intervals do not only follow each other: they are all in order.         *)
LEMMA IntervalsOrdered ==
    ASSUME SafeInv, NEW i \in 1 .. Len(intervals), NEW j \in 1 .. Len(intervals), i < j
    PROVE  intervals[i].stop < intervals[j].start
<1> DEFINE n == Len(intervals)
           T == {k \in i + 1 .. n : ~(intervals[i].stop < intervals[k].start)}
<1>1. n \in Nat /\ i \in Nat /\ intervals[i].stop \in Nat
  BY IntervalFacts
<1>2. \A k \in 1 .. n :
        /\ intervals[k].start \in Nat /\ intervals[k].stop \in Nat
        /\ intervals[k].start <= intervals[k].stop
        /\ intervals[k].start = IF k = 1 THEN First ELSE intervals[k - 1].stop + 1
  BY IntervalFacts
<1>3. i \in 1 .. n /\ j \in i + 1 .. n
  BY <1>1
<1> HIDE DEF n
<1>4. ASSUME T # {} PROVE FALSE
  <2>1. T \subseteq Nat
    BY <1>1
  <2>2. PICK k \in T : \A y \in T : k <= y
    BY <1>4, <2>1, LeastNatural
  <2>3. k \in i + 1 .. n /\ k \in 1 .. n /\ k # 1 /\ ~(intervals[i].stop < intervals[k].start)
    BY <1>1, <1>3
  <2>4. intervals[k].start = intervals[k - 1].stop + 1
    BY <1>2, <2>3
  <2>5. CASE k = i + 1
    <3>1. k - 1 = i
      BY <1>1, <2>5
    <3> QED
      BY <1>1, <2>3, <2>4, <3>1
  <2>6. CASE k # i + 1
    <3>1. k - 1 \in i + 1 .. n /\ k - 1 \in 1 .. n /\ ~(k <= k - 1)
      BY <1>1, <2>3, <2>6
    <3>2. k - 1 \notin T
      BY <2>2, <3>1
    <3>3. intervals[i].stop < intervals[k - 1].start
      BY <3>1, <3>2
    <3>4. /\ intervals[k - 1].start \in Nat /\ intervals[k - 1].stop \in Nat
          /\ intervals[k - 1].start <= intervals[k - 1].stop
      BY <1>2, <3>1
    <3> QED
      BY <1>1, <2>3, <2>4, <3>3, <3>4
  <2> QED
    BY <2>5, <2>6
<1> QED
  BY <1>3, <1>4

(* Every scalar from First to Last is in an interval.                      *)
LEMMA IntervalOf ==
    ASSUME SafeInv, done, NEW x \in First .. Last
    PROVE  \E k \in 1 .. Len(intervals) : x \in Interval(k)
<1> DEFINE n == Len(intervals)
           T == {k \in 1 .. n : x <= intervals[k].stop}
<1>1. n \in Nat /\ n > 0 /\ intervals[n].stop = Last /\ First \in Nat /\ Last \in Nat
      /\ First <= x /\ x <= Last /\ x \in Nat
  BY IntervalFacts, RangesAssumption DEF Scalars
<1>2. \A k \in 1 .. n :
        /\ intervals[k].start \in Nat /\ intervals[k].stop \in Nat
        /\ intervals[k].start = IF k = 1 THEN First ELSE intervals[k - 1].stop + 1
  BY IntervalFacts
<1> HIDE DEF n
<1>3. n \in T /\ T \subseteq Nat
  BY <1>1
<1>4. PICK k \in T : \A y \in T : k <= y
  BY <1>3, LeastNatural
<1>5. k \in 1 .. n /\ x <= intervals[k].stop
  OBVIOUS
<1>6. intervals[k].start <= x
  <2>1. CASE k = 1
    BY <1>1, <1>2, <1>5, <2>1
  <2>2. CASE k # 1
    <3>1. k - 1 \in 1 .. n /\ ~(k <= k - 1)
      BY <1>1, <1>5, <2>2
    <3>2. ~(x <= intervals[k - 1].stop)
      BY <1>4, <3>1
    <3>3. intervals[k].start = intervals[k - 1].stop + 1 /\ intervals[k - 1].stop \in Nat
      BY <1>2, <1>5, <2>2, <3>1
    <3> QED
      BY <1>1, <3>2, <3>3
  <2> QED
    BY <2>1, <2>2
<1>7. intervals[k].start \in Nat /\ intervals[k].stop \in Nat
  BY <1>2, <1>5
<1> QED
  BY <1>1, <1>5, <1>6, <1>7 DEF Interval, n

------------------------------------------------------------------------------
(***************************************************************************)
(* No needless cuts                                                        *)
(***************************************************************************)

(* The scalars at which an interval can end: just before range k starts,   *)
(* where it stops, and the last one.                                       *)
Boundary(k) ==
    IF k <= Len(ranges) THEN ranges[k].start - 1
    ELSE IF k <= 2 * Len(ranges) THEN ranges[k - Len(ranges)].stop
    ELSE Last

AtBoundary(stop) == \E k \in 1 .. 2 * Len(ranges) + 1 : stop = Boundary(k)

EndsAtBoundaries == \A i \in DOMAIN intervals : AtBoundary(intervals[i].stop)

Increasing ==
    \A i, j \in DOMAIN intervals : i < j => intervals[i].stop < intervals[j].stop

PushedList == intervals[Len(intervals)].list

(* The active list differs from the last one pushed, unless a range starts *)
(* where the active interval does and is about to join.                    *)
ListFresh ==
    (~done /\ ~overflow /\ intervals # <<>> /\ list = PushedList)
        => Remaining /\ ranges[next].start = start

CutInv == EndsAtBoundaries /\ Increasing /\ NoNeedlessCut /\ ListFresh

LEMMA CutInit == Init => CutInv
<1> SUFFICES ASSUME NEW input \in Inputs, Begin(input) PROVE CutInv
  BY DEF Init
<1>1. intervals = <<>> /\ DOMAIN intervals = {}
  BY DEF Begin
<1> QED
  BY <1>1 DEF CutInv, EndsAtBoundaries, Increasing, NoNeedlessCut, ListFresh

LEMMA StartBoundary ==
    ASSUME SafeInv, NEW x \in 1 .. Len(ranges)
    PROVE  AtBoundary(ranges[x].start - 1) /\ AtBoundary(ranges[x].stop)
<1> DEFINE n == Len(ranges)
<1>1. n \in Nat
  BY SweepFacts
<1>2. Boundary(x) = ranges[x].start - 1
  BY <1>1 DEF Boundary
<1>3. Boundary(n + x) = ranges[x].stop
  <2> HIDE DEF n
  <2>1. ~(n + x <= n) /\ n + x <= 2 * n /\ (n + x) - n = x
    BY <1>1 DEF n
  <2> QED
    BY <2>1 DEF Boundary, n
<1>4. x \in 1 .. 2 * n + 1 /\ n + x \in 1 .. 2 * n + 1
  BY <1>1
<1> QED
  BY <1>2, <1>3, <1>4 DEF AtBoundary

LEMMA LastBoundary ==
    ASSUME SafeInv
    PROVE  AtBoundary(Last)
<1> DEFINE k == 2 * Len(ranges) + 1
<1>1. k \in 1 .. k /\ ~(k <= Len(ranges)) /\ ~(k <= 2 * Len(ranges))
  BY SweepFacts
<1> QED
  BY <1>1 DEF AtBoundary, Boundary

(* An interval that follows the others, ends at a boundary and has a list  *)
(* of its own can be pushed.                                               *)
LEMMA PushedFresh ==
    ASSUME SafeInv, CutInv,
           IF intervals = <<>> THEN start = First ELSE EndsAt(start - 1),
           NEW stop \in Scalars, start <= stop, AtBoundary(stop),
           intervals # <<>> => list # PushedList,
           ranges' = ranges, Push(stop)
    PROVE  /\ EndsAtBoundaries' /\ Increasing' /\ NoNeedlessCut'
           /\ intervals' # <<>> /\ PushedList' = list
<1> DEFINE n == Len(intervals)
           new == [start |-> start, stop |-> stop, list |-> list]
<1>1. new \in Intervals
  BY DEF SafeInv, TypeOK, Intervals
<1>2. intervals \in Seq(Intervals) /\ n \in Nat /\ DOMAIN intervals = 1 .. n
  BY LenProperties DEF SafeInv, TypeOK, Intervals
<1>3. /\ intervals' \in Seq(Intervals) /\ intervals' # <<>>
      /\ Len(intervals') = n + 1
      /\ \A i \in 1 .. n : intervals'[i] = intervals[i]
      /\ intervals'[n + 1] = new
  BY <1>1, <1>2, AppendProperties DEF Push
<1>4. DOMAIN intervals' = 1 .. n + 1
  BY <1>3, LenProperties
<1>5. new.stop = stop /\ new.list = list
  OBVIOUS
<1>6. PushedList' = list
  BY <1>3, <1>5 DEF PushedList
<1>7. \A i \in 1 .. n + 1 : i \in 1 .. n \/ i = n + 1
  <2> HIDE DEF n
  <2> QED
    BY <1>2
<1>8. \A s : AtBoundary(s) => AtBoundary(s)'
  BY DEF AtBoundary, Boundary
<1>9. EndsAtBoundaries'
  <2> SUFFICES ASSUME NEW i \in 1 .. n + 1
               PROVE  AtBoundary(intervals[i].stop)'
    BY <1>4 DEF EndsAtBoundaries
  <2>1. AtBoundary(intervals'[i].stop)
    BY <1>2, <1>3, <1>5, <1>7 DEF CutInv, EndsAtBoundaries
  <2> QED
    BY <2>1 DEF AtBoundary, Boundary
<1>10. ASSUME NEW i \in 1 .. n
       PROVE  intervals[i].stop < stop
  <2>1. n # 0 /\ n \in 1 .. n
    <3> HIDE DEF n
    <3> QED
      BY <1>2
  <2>2. intervals # <<>>
    BY <2>1, EmptySeq
  <2>3. intervals[n].stop = start - 1
    BY <2>2 DEF EndsAt
  <2>4. start \in Nat /\ stop \in Nat
    BY SweepFacts, RangesAssumption DEF Scalars
  <2>5. intervals[i].stop = intervals[n].stop \/ intervals[i].stop < intervals[n].stop
    <3>1. i = n \/ i < n
      <4> HIDE DEF n
      <4> QED
        BY <1>2
    <3> QED
      BY <1>2, <2>1, <3>1 DEF CutInv, Increasing
  <2>6. intervals[i].stop \in Nat
    <3>1. intervals[i] \in Intervals
      BY <1>2, ElementOfSeq
    <3> QED
      BY <3>1, RangesAssumption DEF Intervals, Scalars
  <2> HIDE DEF n, new
  <2> QED
    BY <2>3, <2>4, <2>5, <2>6
<1>11. Increasing'
  <2> SUFFICES ASSUME NEW i \in 1 .. n + 1, NEW j \in 1 .. n + 1, i < j
               PROVE  intervals'[i].stop < intervals'[j].stop
    BY <1>4 DEF Increasing
  <2>1. i \in 1 .. n
    <3> HIDE DEF n
    <3> QED
      BY <1>2
  <2>2. CASE j = n + 1
    BY <1>3, <1>5, <1>10, <2>1, <2>2
  <2>3. CASE j \in 1 .. n
    BY <1>2, <1>3, <2>1, <2>3 DEF CutInv, Increasing
  <2> QED
    BY <1>7, <2>2, <2>3
<1>12. NoNeedlessCut'
  <2> SUFFICES ASSUME NEW i \in 1 .. n + 1, i > 1
               PROVE  intervals'[i].list # intervals'[i - 1].list
    BY <1>4 DEF NoNeedlessCut
  <2>1. i - 1 \in 1 .. n
    <3> HIDE DEF n
    <3> QED
      BY <1>2
  <2>2. intervals'[i - 1] = intervals[i - 1]
    BY <1>3, <2>1
  <2>3. CASE i = n + 1
    <3>1. i - 1 = n /\ n # 0
      <4> HIDE DEF n
      <4> QED
        BY <1>2, <2>1, <2>3
    <3>2. intervals # <<>>
      BY <3>1, EmptySeq
    <3> QED
      BY <1>3, <1>5, <2>2, <2>3, <3>1, <3>2 DEF PushedList
  <2>4. CASE i \in 1 .. n
    BY <1>2, <1>3, <2>1, <2>2, <2>4 DEF CutInv, NoNeedlessCut
  <2> QED
    BY <1>7, <2>3, <2>4
<1> QED
  BY <1>3, <1>6, <1>9, <1>11, <1>12

LEMMA SameIntervals ==
    ASSUME CutInv, ranges' = ranges, intervals' = intervals
    PROVE  EndsAtBoundaries' /\ Increasing' /\ NoNeedlessCut'
BY DEF CutInv, EndsAtBoundaries, AtBoundary, Boundary, Increasing, NoNeedlessCut

LEMMA JoinFresh ==
    ASSUME SafeInv, CutInv, Join
    PROVE  CutInv'
<1>1. /\ ~done /\ ranges[next].start = start /\ next \in 1 .. Len(ranges)
      /\ list' = list \cup {next} /\ ranges' = ranges /\ intervals' = intervals
  BY SweepFacts DEF Join, Remaining
<1>2. ~overflow /\ ActiveInv
  BY <1>1, SweepFacts DEF SafeInv, SweepInv, Remaining, Join
<1>3. ASSUME intervals # <<>>
      PROVE  next \notin PushedList
  <2> DEFINE n == Len(intervals)
  <2>1. n \in DOMAIN intervals /\ intervals[n] \in Intervals
    <3>1. intervals \in Seq(Intervals)
      BY DEF SafeInv, TypeOK, Intervals
    <3>2. n \in Nat \ {0} /\ DOMAIN intervals = 1 .. n
      BY <1>3, <3>1, EmptySeq, LenProperties
    <3> HIDE DEF n
    <3>3. n \in 1 .. n
      BY <3>2
    <3> QED
      BY <3>1, <3>2, <3>3, ElementOfSeq DEF n
  <2>2. intervals[n].stop = start - 1
    BY <1>2, <1>3 DEF ActiveInv, EndsAt
  <2>3. intervals[n].start <= intervals[n].stop
    BY <2>1 DEF SafeInv, SweepInv, Consecutive
  <2>4. next \in PushedList => ranges[next].start <= intervals[n].start
    BY <1>1, <2>1, SweepFacts DEF SafeInv, SweepInv, ListsExact, Covers, PushedList
  <2>5. intervals[n].start \in Nat /\ intervals[n].stop \in Nat /\ start \in Nat
    BY <2>1, SweepFacts, RangesAssumption DEF Intervals, Scalars
  <2> HIDE DEF n
  <2> QED
    BY <1>1, <2>2, <2>3, <2>4, <2>5
<1>4. ListFresh'
  BY <1>1, <1>3 DEF ListFresh, PushedList
<1> QED
  BY <1>1, <1>4, SameIntervals DEF CutInv

LEMMA CutFresh ==
    ASSUME SafeInv, CutInv, Cut
    PROVE  CutInv'
<1>1. /\ ~done /\ Remaining /\ ranges[next].start # start
      /\ ranges' = ranges /\ next' = next /\ overflow' = overflow /\ done' = done
  BY DEF Cut
<1>2. PICK stop \in Scalars :
         /\ stop = ranges[next].start - 1 \/ \E i \in list : stop = ranges[i].stop
         /\ Push(stop) /\ start <= stop
         /\ start' = stop + 1
         /\ list' = {i \in list : ranges[i].stop >= stop + 1}
  BY CutStop
<1>3. ~overflow /\ ActiveInv /\ next \in 1 .. Len(ranges)
  BY <1>1, SweepFacts DEF SafeInv, SweepInv, Remaining
<1>4. list \subseteq 1 .. Len(ranges) /\ stop \in Nat
  BY SweepFacts, RangesAssumption DEF Scalars
<1>5. AtBoundary(stop)
  BY <1>2, <1>3, <1>4, StartBoundary
<1>6. intervals # <<>> => list # PushedList
  BY <1>1, <1>3 DEF CutInv, ListFresh
<1>7. IF intervals = <<>> THEN start = First ELSE EndsAt(start - 1)
  BY <1>3 DEF ActiveInv
<1>8. EndsAtBoundaries' /\ Increasing' /\ NoNeedlessCut' /\ PushedList' = list
  BY <1>1, <1>2, <1>5, <1>6, <1>7, PushedFresh
<1>9. ListFresh'
  <2> SUFFICES ASSUME list' = list
               PROVE  Remaining' /\ ranges[next].start = stop + 1
    BY <1>1, <1>2, <1>8 DEF ListFresh
  <2>1. ~\E i \in list : stop = ranges[i].stop
    <3>1. ASSUME NEW i \in list, stop = ranges[i].stop PROVE FALSE
      <4>1. ~(ranges[i].stop >= stop + 1)
        BY <1>4, <3>1
      <4>2. i \notin {k \in list : ranges[k].stop >= stop + 1}
        BY <4>1
      <4>3. {k \in list : ranges[k].stop >= stop + 1} = list
        BY <1>2
      <4> QED
        BY <4>2, <4>3
    <3> QED
      BY <3>1
  <2> QED
    BY <1>1, <1>2, <1>3, <1>4, <2>1, SweepFacts DEF Remaining
<1> QED
  BY <1>8, <1>9 DEF CutInv

LEMMA DrainFresh ==
    ASSUME SafeInv, CutInv, Drain
    PROVE  CutInv'
<1>1. ~done /\ ~Remaining /\ ranges' = ranges
  BY DEF Drain
<1>2. PICK stop \in Scalars :
         /\ \E i \in list : stop = ranges[i].stop
         /\ Push(stop) /\ start <= stop
         /\ \/ overflow' = TRUE
            \/ list' = {i \in list : ranges[i].stop >= stop + 1}
  BY DrainStop
<1>3. ~overflow /\ ActiveInv
  BY <1>1 DEF SafeInv, SweepInv, Drain
<1>4. list \subseteq 1 .. Len(ranges) /\ stop \in Nat
  BY SweepFacts, RangesAssumption DEF Scalars
<1>5. AtBoundary(stop)
  BY <1>2, <1>4, StartBoundary
<1>6. intervals # <<>> => list # PushedList
  BY <1>1, <1>3 DEF CutInv, ListFresh
<1>7. IF intervals = <<>> THEN start = First ELSE EndsAt(start - 1)
  BY <1>3 DEF ActiveInv
<1>8. EndsAtBoundaries' /\ Increasing' /\ NoNeedlessCut' /\ PushedList' = list
  BY <1>1, <1>2, <1>5, <1>6, <1>7, PushedFresh
<1>9. ListFresh'
  <2>1. overflow' = TRUE \/ list' # list
    <3>1. PICK i \in list : stop = ranges[i].stop
      BY <1>2
    <3>2. ~(ranges[i].stop >= stop + 1)
      BY <1>4, <3>1
    <3>3. i \notin {k \in list : ranges[k].stop >= stop + 1}
      BY <3>2
    <3> QED
      BY <1>2, <3>1, <3>3
  <2> QED
    BY <1>8, <2>1 DEF ListFresh
<1> QED
  BY <1>8, <1>9 DEF CutInv

LEMMA FinishFresh ==
    ASSUME SafeInv, CutInv, Finish
    PROVE  CutInv'
<1>1. /\ ~done /\ ~Remaining /\ list = {} /\ done' = TRUE /\ ranges' = ranges
      /\ IF Last >= start /\ ~overflow THEN Push(Last) ELSE UNCHANGED intervals
  BY DEF Finish
<1>2. ListFresh'
  BY <1>1 DEF ListFresh
<1>3. CASE Last >= start /\ ~overflow
  <2>1. ActiveInv
    BY <1>1, <1>3 DEF SafeInv, SweepInv
  <2>2. intervals # <<>> => list # PushedList
    BY <1>1, <1>3 DEF CutInv, ListFresh
  <2>3. IF intervals = <<>> THEN start = First ELSE EndsAt(start - 1)
    BY <2>1 DEF ActiveInv
  <2>4. Last \in Scalars /\ start <= Last /\ AtBoundary(Last)
    BY <1>3, SweepFacts, RangesAssumption, LastBoundary
  <2> QED
    BY <1>1, <1>2, <1>3, <2>2, <2>3, <2>4, PushedFresh DEF CutInv
<1>4. CASE ~(Last >= start /\ ~overflow)
  BY <1>1, <1>2, <1>4, SameIntervals DEF CutInv
<1> QED
  BY <1>3, <1>4

LEMMA CutInvStep == SafeInv /\ CutInv /\ [Next]_vars => CutInv'
<1> SUFFICES ASSUME SafeInv, CutInv, [Next]_vars PROVE CutInv'
  OBVIOUS
<1>1. CASE UNCHANGED vars
  <2>1. ListFresh'
    BY <1>1 DEF vars, CutInv, ListFresh, Remaining, PushedList
  <2> QED
    BY <1>1, <2>1, SameIntervals DEF vars, CutInv
<1>2. CASE Join
  BY <1>2, JoinFresh
<1>3. CASE Cut
  BY <1>3, CutFresh
<1>4. CASE Drain
  BY <1>4, DrainFresh
<1>5. CASE Finish
  BY <1>5, FinishFresh
<1> QED
  BY <1>1, <1>2, <1>3, <1>4, <1>5 DEF Next

(* Where the intervals end, and that the active list is a new one.         *)
THEOREM CutsKept == Spec => []CutInv
BY CutInit, CutInvStep, SweepCorrect, PTL DEF Spec

(* Neighbouring intervals never list the same ranges.                      *)
THEOREM NeighboursDiffer == Spec => []NoNeedlessCut
<1>1. CutInv => NoNeedlessCut
  BY DEF CutInv
<1> QED
  BY <1>1, CutsKept, PTL

(* Intervals end at different boundaries, of which there are two for each  *)
(* range and one more.                                                     *)
THEOREM IntervalsWithinBound == Spec => []IntervalsBounded
<1>1. SafeInv /\ CutInv => IntervalsBounded
  <2> SUFFICES ASSUME SafeInv, CutInv, ~IntervalsBounded PROVE FALSE
    OBVIOUS
  <2> DEFINE n == Len(ranges)
             m == Len(intervals)
             f == [i \in 1 .. m |-> CHOOSE k \in 1 .. 2 * n + 1 : intervals[i].stop = Boundary(k)]
  <2>1. n \in Nat /\ m \in Nat /\ DOMAIN intervals = 1 .. m
    BY SweepFacts, LenProperties DEF SafeInv, TypeOK
  <2>2. ASSUME NEW i \in 1 .. m
        PROVE  f[i] \in 1 .. 2 * n + 1 /\ intervals[i].stop = Boundary(f[i])
    <3>1. \E k \in 1 .. 2 * n + 1 : intervals[i].stop = Boundary(k)
      BY <2>1 DEF CutInv, EndsAtBoundaries, AtBoundary
    <3> QED
      BY <3>1
  <2>3. f \in [1 .. m -> 1 .. 2 * n + 1]
    BY <2>2
  <2>4. /\ IsFiniteSet(1 .. m) /\ Cardinality(1 .. m) = m
        /\ IsFiniteSet(1 .. 2 * n + 1) /\ Cardinality(1 .. 2 * n + 1) = 2 * n + 1
    <3> HIDE DEF n, m
    <3>1. 1 \in Int /\ m \in Int /\ 2 * n + 1 \in Int
      BY <2>1
    <3>2. /\ IsFiniteSet(1 .. m) /\ Cardinality(1 .. m) = IF 1 > m THEN 0 ELSE m - 1 + 1
          /\ IsFiniteSet(1 .. 2 * n + 1)
          /\ Cardinality(1 .. 2 * n + 1) = IF 1 > 2 * n + 1 THEN 0 ELSE (2 * n + 1) - 1 + 1
      BY <3>1, FS_Interval
    <3> QED
      BY <2>1, <3>2
  <2>5. 2 * n + 1 < m
    BY <2>1 DEF IntervalsBounded
  <2> HIDE DEF f
  <2>6. PICK i \in 1 .. m, j \in 1 .. m : i # j /\ f[i] = f[j]
    <3> HIDE DEF n, m
    <3> QED
      BY <2>3, <2>4, <2>5, FS_PigeonHole
  <2>7. intervals[i].stop = intervals[j].stop
    BY <2>2, <2>6
  <2>8. \A k \in 1 .. m : intervals[k].stop \in Nat
    <3>1. \A k \in 1 .. m : intervals[k] \in Intervals
      BY <2>1, ElementOfSeq DEF SafeInv, TypeOK, Intervals
    <3> QED
      BY <3>1, RangesAssumption DEF Intervals, Scalars
  <2>9. i < j \/ j < i
    BY <2>1, <2>6
  <2> QED
    BY <2>1, <2>6, <2>7, <2>8, <2>9 DEF CutInv, Increasing
<1> QED
  BY <1>1, SweepCorrect, CutsKept, PTL

------------------------------------------------------------------------------
(***************************************************************************)
(* The binary search of DisjointRangeVector: it never reads an interval    *)
(* that is not there, and its answers are right, for every number of       *)
(* intervals the sweep can have made.                                      *)
(***************************************************************************)
allVars == <<vars, searchVars>>

(* What is below min ends before the argument, what is above max starts    *)
(* behind it.                                                              *)
BoundsInv ==
    answer = "searching" =>
        /\ min \in Nat /\ max \in Nat
        /\ min <= max /\ max < Len(intervals)
        /\ min = 0 \/ intervals[min].stop < find
        /\ max = Len(intervals) - 1 \/ find < intervals[max + 2].start
        /\ find \in First .. Last => \E i \in min .. max : find \in Interval(i + 1)

AnswerInv ==
    /\ answer \in {"none", "searching", "null", "found"}
    /\ find \in Scalars
    /\ answer # "none" => done
    /\ BoundsInv
    /\ NullOnlyOutside

SearchInv == SafeInv /\ AnswerInv

------------------------------------------------------------------------------
(* The middle of two indices lies between them.                            *)
LEMMA MiddleBounds ==
    ASSUME NEW a \in Nat, NEW b \in Nat, a <= b
    PROVE  /\ (b + a) \div 2 \in Nat
           /\ a <= (b + a) \div 2
           /\ (b + a) \div 2 <= b
<1> DEFINE m == (b + a) \div 2
           r == (b + a) % 2
<1>1. m \in Nat /\ r \in Nat /\ r < 2 /\ b + a = 2 * m + r
  BY SMT
<1> HIDE DEF m, r
<1>2. a <= m /\ m <= b
  BY <1>1
<1> QED
  BY <1>1, <1>2 DEF m

(* A step of the search probes an interval between the bounds.             *)
LEMMA Probe ==
    ASSUME SafeInv, AnswerInv, answer = "searching"
    PROVE  /\ mid \in Nat /\ min <= mid /\ mid <= max /\ max < Len(intervals)
           /\ mid + 1 \in 1 .. Len(intervals)
           /\ min \in Nat /\ max \in Nat /\ find \in Nat
           /\ MidInterval.start \in Nat /\ MidInterval.stop \in Nat
<1>1. min \in Nat /\ max \in Nat /\ min <= max /\ max < Len(intervals)
  BY DEF AnswerInv, BoundsInv
<1>2. mid \in Nat /\ min <= mid /\ mid <= max
  BY <1>1, MiddleBounds DEF mid
<1>3. find \in Nat
  BY RangesAssumption DEF AnswerInv, Scalars
<1>4. mid + 1 \in 1 .. Len(intervals)
  BY <1>1, <1>2, IntervalFacts
<1>5. MidInterval.start \in Nat /\ MidInterval.stop \in Nat
  BY <1>4, IntervalFacts DEF MidInterval
<1> QED
  BY <1>1, <1>2, <1>3, <1>4, <1>5

------------------------------------------------------------------------------
LEMMA AboveKeeps ==
    ASSUME SafeInv, AnswerInv, Above
    PROVE  AnswerInv'
<1>1. answer = "searching" /\ find > MidInterval.stop /\ UNCHANGED <<vars, find, max>>
  BY DEF Above
<1>2. done /\ UNCHANGED <<intervals, done>>
  BY <1>1 DEF AnswerInv, vars
<1> DEFINE m == mid
<1>3. /\ m \in Nat /\ min <= m /\ m <= max /\ max < Len(intervals) /\ min \in Nat /\ max \in Nat
      /\ find \in Nat /\ m + 1 \in 1 .. Len(intervals) /\ intervals[m + 1].stop \in Nat
      /\ intervals[m + 1].stop < find
  BY <1>1, Probe DEF MidInterval
<1>4. CASE AtUpperEnd
  <2>1. answer' = "null" /\ m = max
    BY <1>4 DEF Above, AtUpperEnd
  <2>2. max = Len(intervals) - 1 \/ find < intervals[max + 2].start
    BY <1>1 DEF AnswerInv, BoundsInv
  <2> HIDE DEF m
  <2>3. CASE max = Len(intervals) - 1
    <3>1. intervals[m + 1].stop = Last
      <4>1. m + 1 = Len(intervals)
        BY <1>3, <2>1, <2>3, IntervalFacts
      <4> QED
        BY <1>2, <4>1, IntervalFacts
    <3>2. find \notin First .. Last
      BY <1>3, <3>1
    <3> QED
      BY <1>1, <1>2, <2>1, <3>2 DEF AnswerInv, BoundsInv, NullOnlyOutside
  <2>4. CASE max # Len(intervals) - 1
    <3> DEFINE n == Len(intervals)
               k == m + 2
    <3>1. n \in Nat /\ m = max /\ max < n /\ max # n - 1
      BY <1>3, <2>1, <2>4, IntervalFacts
    <3> HIDE DEF n
    <3>2. k \in 1 .. n /\ k # 1 /\ k - 1 = m + 1
      BY <1>3, <3>1
    <3> HIDE DEF k
    <3>3. intervals[k].start = intervals[k - 1].stop + 1
      BY <3>2, IntervalFacts DEF n
    <3>4. intervals[m + 2].start = intervals[m + 1].stop + 1
      BY <3>2, <3>3 DEF k
    <3>5. find < intervals[m + 1].stop + 1
      BY <2>1, <2>2, <2>4, <3>4
    <3> QED
      BY <1>3, <3>5
  <2> QED
    BY <2>3, <2>4
<1>5. CASE ~AtUpperEnd
  <2>1. answer' = "searching" /\ min' = m + 1 /\ m # max
    BY <1>1, <1>5 DEF Above, AtUpperEnd, LowerBound
  <2> HIDE DEF m
  <2>2. min' \in Nat /\ min' <= max
    BY <1>3, <2>1
  <2>3. intervals[min'].stop < find
    BY <1>3, <2>1
  <2>4. ASSUME find \in First .. Last
        PROVE  \E i \in min' .. max : find \in Interval(i + 1)
    <3>1. PICK i \in min .. max : find \in Interval(i + 1)
      BY <1>1, <2>4 DEF AnswerInv, BoundsInv
    <3>2. i \in Nat /\ i + 1 \in 1 .. Len(intervals) /\ i <= max
      BY <1>3, IntervalFacts
    <3>3. find <= intervals[i + 1].stop /\ intervals[i + 1].stop \in Nat
      BY <1>3, <3>1, <3>2, IntervalFacts DEF Interval
    <3>4. ~(i + 1 <= m + 1)
      <4>1. i + 1 # m + 1
        BY <1>3, <3>3
      <4>2. ASSUME i + 1 < m + 1 PROVE FALSE
        <5>1. intervals[i + 1].stop < intervals[m + 1].start
          BY <1>3, <3>2, <4>2, IntervalsOrdered
        <5>2. intervals[m + 1].start \in Nat /\ intervals[m + 1].start <= intervals[m + 1].stop
          BY <1>3, IntervalFacts
        <5> QED
          BY <1>3, <3>3, <5>1, <5>2
      <4> QED
        BY <1>3, <3>2, <4>1, <4>2
    <3>5. i \in min' .. max
      BY <1>3, <2>1, <3>2, <3>4
    <3> QED
      BY <3>1, <3>5
  <2>5. BoundsInv'
    BY <1>1, <1>2, <1>3, <2>2, <2>3, <2>4 DEF AnswerInv, BoundsInv, Interval
  <2> QED
    BY <1>1, <1>2, <2>1, <2>5 DEF AnswerInv, NullOnlyOutside
<1> QED
  BY <1>4, <1>5

LEMMA BelowKeeps ==
    ASSUME SafeInv, AnswerInv, Below
    PROVE  AnswerInv'
<1>1. answer = "searching" /\ find < MidInterval.start /\ UNCHANGED <<vars, find, min>>
  BY DEF Below
<1>2. done /\ UNCHANGED <<intervals, done>>
  BY <1>1 DEF AnswerInv, vars
<1> DEFINE m == mid
<1>3. /\ m \in Nat /\ min <= m /\ m <= max /\ max < Len(intervals) /\ min \in Nat /\ max \in Nat
      /\ find \in Nat /\ m + 1 \in 1 .. Len(intervals) /\ intervals[m + 1].start \in Nat
      /\ find < intervals[m + 1].start
  BY <1>1, Probe DEF MidInterval
<1>4. CASE mid = min
  <2>1. answer' = "null" /\ m = min
    BY <1>4 DEF Below
  <2>2. min = 0 \/ intervals[min].stop < find
    BY <1>1 DEF AnswerInv, BoundsInv
  <2> HIDE DEF m
  <2>3. CASE min = 0
    <3>1. intervals[m + 1].start = First
      <4>1. m + 1 = 1
        BY <2>1, <2>3
      <4> QED
        BY <1>3, <4>1, IntervalFacts
    <3>2. find \notin First .. Last
      BY <1>3, <3>1
    <3> QED
      BY <1>1, <1>2, <2>1, <3>2 DEF AnswerInv, BoundsInv, NullOnlyOutside
  <2>4. CASE min # 0
    <3>1. m \in 1 .. Len(intervals) /\ m + 1 # 1 /\ m + 1 - 1 = m
      BY <1>3, <2>1, <2>4, IntervalFacts
    <3> DEFINE k == m + 1
    <3>a. k \in 1 .. Len(intervals) /\ k # 1 /\ k - 1 = m
      BY <1>3, <3>1
    <3> HIDE DEF k
    <3>b. intervals[k].start = intervals[k - 1].stop + 1
      BY <3>a, IntervalFacts
    <3>2. intervals[m + 1].start = intervals[m].stop + 1 /\ intervals[m].stop \in Nat
      BY <3>1, <3>a, <3>b, IntervalFacts DEF k
    <3>3. intervals[m].stop < find
      BY <2>1, <2>2, <2>4
    <3> QED
      BY <1>3, <3>2, <3>3
  <2> QED
    BY <2>3, <2>4
<1>5. CASE mid # min
  <2>1. answer' = "searching" /\ max' = m - 1 /\ m # min
    BY <1>1, <1>5 DEF Below, UpperBound
  <2> HIDE DEF m
  <2>2. max' \in Nat /\ min <= max' /\ max' < Len(intervals) /\ max' + 2 = m + 1
    BY <1>3, <2>1, IntervalFacts
  <2>3. find < intervals[max' + 2].start
    BY <1>3, <2>2
  <2>4. ASSUME find \in First .. Last
        PROVE  \E i \in min .. max' : find \in Interval(i + 1)
    <3>1. PICK i \in min .. max : find \in Interval(i + 1)
      BY <1>1, <2>4 DEF AnswerInv, BoundsInv
    <3>2. i \in Nat /\ i + 1 \in 1 .. Len(intervals) /\ min <= i
      BY <1>3, IntervalFacts
    <3>3. intervals[i + 1].start <= find /\ intervals[i + 1].start \in Nat
      BY <1>3, <3>1, <3>2, IntervalFacts DEF Interval
    <3>4. ~(m + 1 <= i + 1)
      <4>1. i + 1 # m + 1
        BY <1>3, <3>3
      <4>2. ASSUME m + 1 < i + 1 PROVE FALSE
        <5>1. intervals[m + 1].stop < intervals[i + 1].start
          BY <1>3, <3>2, <4>2, IntervalsOrdered
        <5>2. intervals[m + 1].stop \in Nat /\ intervals[m + 1].start <= intervals[m + 1].stop
          BY <1>3, IntervalFacts
        <5> QED
          BY <1>3, <3>3, <5>1, <5>2
      <4> QED
        BY <1>3, <3>2, <4>1, <4>2
    <3>5. i \in min .. max'
      BY <1>3, <2>1, <3>2, <3>4
    <3> QED
      BY <3>1, <3>5
  <2>5. BoundsInv'
    BY <1>1, <1>2, <1>3, <2>2, <2>3, <2>4 DEF AnswerInv, BoundsInv, Interval
  <2> QED
    BY <1>1, <1>2, <2>1, <2>5 DEF AnswerInv, NullOnlyOutside
<1> QED
  BY <1>4, <1>5

LEMMA SearchStep == SearchInv /\ [SearchNext]_allVars => SearchInv'
<1> SUFFICES ASSUME SearchInv, [SearchNext]_allVars PROVE SearchInv'
  OBVIOUS
<1>1. SafeInv'
  <2>1. [Next]_vars
    BY DEF SearchNext, Construct, Call, Above, Below, Hit, allVars
  <2> QED
    BY <2>1, SweepStep DEF SearchInv
<1>2. CASE UNCHANGED allVars
  BY <1>1, <1>2 DEF allVars, vars, searchVars, SearchInv, AnswerInv, BoundsInv,
                    NullOnlyOutside, Interval, mid
<1>3. CASE Construct
  <2>1. UNCHANGED searchVars /\ ~done
    BY <1>3 DEF Construct, Next, Join, Cut, Drain, Finish
  <2>2. answer = "none"
    BY <2>1 DEF SearchInv, AnswerInv
  <2> QED
    BY <1>1, <2>1, <2>2 DEF searchVars, SearchInv, AnswerInv, BoundsInv, NullOnlyOutside
<1>4. CASE Call
  <2>1. /\ done /\ find' \in Scalars /\ min' = 0 /\ max' = Len(intervals) - 1
        /\ answer' = "searching" /\ UNCHANGED <<intervals, done>>
    BY <1>4 DEF Call, vars
  <2>2. Len(intervals) \in Nat /\ Len(intervals) > 0
    BY <2>1, IntervalFacts DEF SearchInv
  <2>3. max' \in Nat /\ min' <= max' /\ max' < Len(intervals)
    BY <2>1, <2>2
  <2>4. ASSUME find' \in First .. Last
        PROVE  \E i \in min' .. max' : (find \in Interval(i + 1))'
    <3>1. PICK k \in 1 .. Len(intervals) : find' \in Interval(k)
      BY <2>1, <2>4, IntervalOf DEF SearchInv
    <3>2. k - 1 \in min' .. max' /\ k - 1 + 1 = k
      BY <2>1, <2>2
    <3>3. find' \in Interval(k)'
      BY <2>1, <3>1 DEF Interval
    <3> QED
      BY <2>1, <3>2, <3>3 DEF Interval
  <2>5. BoundsInv'
    BY <2>1, <2>3, <2>4 DEF BoundsInv
  <2> QED
    BY <1>1, <2>1, <2>5 DEF SearchInv, AnswerInv, NullOnlyOutside
<1>5. CASE Above
  BY <1>1, <1>5, AboveKeeps DEF SearchInv
<1>6. CASE Below
  BY <1>1, <1>6, BelowKeeps DEF SearchInv
<1>7. CASE Hit
  <2>1. /\ answer = "searching" /\ find <= MidInterval.stop /\ find >= MidInterval.start
        /\ answer' = "found" /\ UNCHANGED <<intervals, done, find, min, max>>
    BY <1>7 DEF Hit, vars
  <2>2. find \in Interval(mid + 1)
    BY <2>1, Probe DEF SearchInv, Interval, MidInterval
  <2>3. (find \in Interval(mid + 1))'
    BY <2>1, <2>2 DEF Interval, mid
  <2> QED
    BY <1>1, <2>1, <2>3 DEF SearchInv, AnswerInv, BoundsInv, NullOnlyOutside
<1> QED
  BY <1>2, <1>3, <1>4, <1>5, <1>6, <1>7 DEF SearchNext

LEMMA SearchStart == SearchInit => SearchInv
<1> SUFFICES ASSUME SearchInit PROVE SearchInv
  OBVIOUS
<1>1. SafeInv
  BY SweepInit DEF SearchInit
<1>2. 0 \in Scalars
  BY RangesAssumption DEF Scalars
<1> QED
  BY <1>1, <1>2 DEF SearchInit, SearchInv, AnswerInv, BoundsInv, NullOnlyOutside

(***************************************************************************)
(* While the search goes on it reads no interval that is not there, and the *)
(* interval of a scalar that has one stays between its bounds, for every   *)
(* number of intervals the sweep can have made.                            *)
(***************************************************************************)
THEOREM SearchCorrect == SearchSpec => []SearchInv
BY SearchStart, SearchStep, PTL DEF SearchSpec, allVars

(* The bounds never cross and never leave the intervals, and the interval  *)
(* looked for stays between them, however often the halves are halved.     *)
THEOREM SearchStaysBounded == SearchSpec => []SearchBounded
<1>1. SearchInv => SearchBounded
  BY DEF SearchInv, AnswerInv, BoundsInv, SearchBounded
<1> QED
  BY <1>1, SearchCorrect, PTL

(* A scalar from First to Last is found, in the interval that contains it: *)
(* NULL is the answer for no other scalar.                                 *)
THEOREM AnswersRight == SearchSpec => []NullOnlyOutside
<1>1. SearchInv => NullOnlyOutside
  BY DEF SearchInv, AnswerInv
<1> QED
  BY <1>1, SearchCorrect, PTL

==============================================================================
