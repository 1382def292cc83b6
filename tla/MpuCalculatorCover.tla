-------------------------- MODULE MpuCalculatorCover --------------------------
(***************************************************************************)
(* What the entries of a call map, for every word size, granule, table size *)
(* and set of requests: no address of a well-posed range twice, each whole *)
(* granule once the call returns true; the entry selected first is the     *)
(* largest there is; and all tables together implement MpuCoverage.        *)
(***************************************************************************)
EXTENDS MpuCalculatorProofs, FiniteSetTheorems

------------------------------------------------------------------------------
(***************************************************************************)
(* The stack of calculators                                                *)
(***************************************************************************)

(* A caller that is on the stack after a step was there before, or is the  *)
(* calculator that has just called a child.                                *)
LEMMA CallersAfter ==
    ASSUME TypeInv, [Next]_vars, NEW i \in DOMAIN callers'
    PROVE  \/ \E j \in DOMAIN callers : callers'[i] = callers[j]
           \/ At("left") /\ callers'[i] = Goto(frame, "copyLeft")
           \/ At("right") /\ callers'[i] = Goto(frame, "copyRight")
<1> DEFINE n == Len(callers)
<1>1. callers \in Seq(Frames) /\ n \in Nat /\ DOMAIN callers = 1 .. n
  BY LenProperties DEF TypeInv, SoundCallers
<1>2. frame \in Frames
  BY DEF TypeInv, SoundFrame
<1>3. CASE callers' = callers
  BY <1>3
<1>4. ASSUME NEW f \in Frames, callers' = Append(callers, f)
      PROVE  callers'[i] = f \/ \E j \in DOMAIN callers : callers'[i] = callers[j]
  <2>1. /\ Len(callers') = n + 1 /\ DOMAIN callers' = 1 .. n + 1
        /\ \A j \in 1 .. n : callers'[j] = callers[j]
        /\ callers'[n + 1] = f
    BY <1>1, <1>4, AppendProperties, LenProperties
  <2> HIDE DEF n
  <2>2. i \in 1 .. n \/ i = n + 1
    BY <1>1, <2>1
  <2> QED
    BY <1>1, <2>1, <2>2
<1>5. CASE CallLeft
  <2>1. At("left") /\ callers' = Append(callers, Goto(frame, "copyLeft"))
    BY <1>5 DEF CallLeft, Call
  <2>2. Goto(frame, "copyLeft") \in Frames
    BY <1>2, GotoTypes DEF ProgramCounters
  <2> QED
    BY <1>4, <2>1, <2>2
<1>6. CASE CallRight
  <2>1. At("right") /\ callers' = Append(callers, Goto(frame, "copyRight"))
    BY <1>6 DEF CallRight, Call
  <2>2. Goto(frame, "copyRight") \in Frames
    BY <1>2, GotoTypes DEF ProgramCounters
  <2> QED
    BY <1>4, <2>1, <2>2
<1>7. CASE CopyChild
  <2>1. callers # <<>> /\ callers' = SubSeq(callers, 1, n - 1)
    BY <1>7 DEF CopyChild
  <2>2. n \in Nat \ {0}
    BY <1>1, <2>1, EmptySeq
  <2> HIDE DEF n
  <2>3. \A j \in 1 .. n - 1 : callers[j] \in Frames
    BY <1>1
  <2>4. /\ callers' \in Seq(Frames)
        /\ Len(callers') = n - 1
        /\ \A j \in 1 .. n - 1 : callers'[j] = callers[j]
    BY <1>1, <2>1, <2>2, <2>3, SubSeqProperties
  <2>5. i \in 1 .. n - 1 /\ i \in DOMAIN callers
    BY <1>1, <2>2, <2>4, LenProperties
  <2> QED
    BY <2>4, <2>5
<1>8. CASE \/ UNCHANGED vars \/ Refuse \/ SelectFullRange \/ StartSelection
           \/ TryBefore \/ TryAfter \/ Build \/ SkipLeft \/ SkipRight
  <2>1. callers' = callers
    BY <1>8 DEF vars, Refuse, SelectFullRange, StartSelection, TryBefore, TryAfter, Build,
                SkipLeft, SkipRight, Local
  <2> QED
    BY <1>3, <2>1
<1> QED
  BY <1>5, <1>6, <1>7, <1>8 DEF Next

(* What a step does to the running calculator, told by what becomes of its *)
(* table.                                                                  *)
Selecting == {"enter", "before", "after", "build"}

LEMMA FrameAfter ==
    ASSUME TypeInv, [Next]_vars
    PROVE  \/ frame' = frame
           \/ /\ frame.pc \in Selecting /\ frame'.pc \in Selecting \cup {"return"}
              /\ frame'.start = frame.start /\ frame'.end = frame.end
              /\ frame'.table = frame.table
              /\ frame'.pc = "return" => Refuse
           \/ Build
           \/ (CallLeft \/ CallRight) /\ \E s, e : frame' = NewFrame(s, e, 0)
           \/ SkipLeft /\ frame' = Goto(frame, "right")
           \/ SkipRight /\ frame' = Return(frame, TRUE)
           \/ CopyChild
<1>1. frame \in Frames /\ frame.pc \in ProgramCounters
  <2>1. frame \in Frames
    BY DEF TypeInv, SoundFrame
  <2> QED
    BY <2>1 DEF Frames
<1>2. CASE Refuse
  BY <1>1, <1>2 DEF Refuse, Local, Return, At, Frames, Selecting
<1>3. CASE SelectFullRange
  BY <1>1, <1>3 DEF SelectFullRange, Local, At, Frames, Selecting
<1>4. CASE StartSelection
  BY <1>1, <1>4 DEF StartSelection, Local, At, Frames, Selecting
<1>5. ASSUME NEW base, NEW g, g = [frame EXCEPT !.best = Better(frame, base)],
             frame.pc \in Selecting,
             \/ frame' = Goto(g, "build") \/ frame' = Goto(g, "after") \/ frame' = HalveSize(g)
      PROVE  /\ frame'.pc \in Selecting
             /\ frame'.start = frame.start /\ frame'.end = frame.end
             /\ frame'.table = frame.table
  <2>1. g.start = frame.start /\ g.end = frame.end /\ g.table = frame.table
    BY <1>1, <1>5 DEF Frames
  <2>2. g = [g EXCEPT !.pc = g.pc] /\ DOMAIN g = DOMAIN frame
    BY <1>1, <1>5 DEF Frames
  <2> QED
    BY <1>1, <1>5, <2>1 DEF Goto, HalveSize, Frames, Selecting
<1>6. CASE TryBefore
  <2>1. frame.pc \in Selecting
    BY <1>6 DEF TryBefore, At, Selecting
  <2> DEFINE base == RegionBefore(frame, frame.sub)
             g == [frame EXCEPT !.best = Better(frame, base)]
  <2>2. \/ frame' = Goto(g, "build") \/ frame' = Goto(g, "after") \/ frame' = HalveSize(g)
    BY <1>6 DEF TryBefore, Local
  <2>3. /\ frame'.pc \in Selecting
        /\ frame'.start = frame.start /\ frame'.end = frame.end
        /\ frame'.table = frame.table
    BY <1>5, <2>1, <2>2
  <2>4. "return" \notin Selecting
    BY DEF Selecting
  <2> QED
    BY <2>1, <2>3, <2>4
<1>7. CASE TryAfter
  <2>1. frame.pc \in Selecting
    BY <1>7 DEF TryAfter, At, Selecting
  <2> DEFINE base == RegionAfter(frame, frame.sub)
             g == [frame EXCEPT !.best = Better(frame, base)]
  <2>2. \/ frame' = Goto(g, "build") \/ frame' = HalveSize(g)
    BY <1>7 DEF TryAfter, Local
  <2>3. /\ frame'.pc \in Selecting
        /\ frame'.start = frame.start /\ frame'.end = frame.end
        /\ frame'.table = frame.table
    BY <1>5, <2>1, <2>2
  <2>4. "return" \notin Selecting
    BY DEF Selecting
  <2> QED
    BY <2>1, <2>3, <2>4
<1>8. CASE CallLeft
  BY <1>8 DEF CallLeft, Call
<1>9. CASE CallRight
  BY <1>9 DEF CallRight, Call
<1>10. CASE SkipLeft
  BY <1>10 DEF SkipLeft, Local
<1>11. CASE SkipRight
  BY <1>11 DEF SkipRight, Local
<1> QED
  BY <1>2, <1>3, <1>4, <1>6, <1>7, <1>8, <1>9, <1>10, <1>11 DEF Next, vars

------------------------------------------------------------------------------
(***************************************************************************)
(* What copying does to the entries                                        *)
(***************************************************************************)

(* A region that is large enough to have subregions.                       *)
Sized(e) == RegionBytes(e) \in PowersOfTwo /\ 8 * Granule <= RegionBytes(e)

LEMMA RenumberMaps ==
    ASSUME NEW e \in Entries, NEW number \in Nat, Sized(e)
    PROVE  Mapped(Renumber(e, number)) = Mapped(e) /\ Sized(Renumber(e, number))
<1> DEFINE g == Renumber(e, number)
<1>1. /\ g.size = e.size /\ g.srd = e.srd
      /\ g.base \in {e.base, SetGranuleBit(e.base)}
  BY RenumberType
<1> HIDE DEF g
<1>2. RegionBytes(g) = RegionBytes(e)
  BY <1>1 DEF RegionBytes
<1>3. RegionBytes(e) \in PowersOfTwo /\ 8 * Granule <= RegionBytes(e)
  BY DEF Sized
<1>4. e.base \in Nat
  BY DEF Entries, Addresses
<1>5. RegionBase(g) = RegionBase(e)
  <2>1. AlignDown(SetGranuleBit(e.base), RegionBytes(e)) = AlignDown(e.base, RegionBytes(e))
    BY <1>3, <1>4, GranuleBitIgnored
  <2> QED
    BY <1>1, <1>2, <2>1 DEF RegionBase
<1>6. SubregionBytes(g) = SubregionBytes(e)
  BY <1>2 DEF SubregionBytes
<1>7. \A i : Subregion(g, i) = Subregion(e, i)
  BY <1>5, <1>6 DEF Subregion
<1>8. Mapped(g) = Mapped(e)
  BY <1>1, <1>7 DEF Mapped
<1> QED
  BY <1>2, <1>8 DEF Sized, g

(* The table after the copy: the parent's entries, then the child's as far *)
(* as there is room.                                                       *)
LEMMA WithChildTable ==
    ASSUME NEW f \in Frames, NEW child \in Frames, Len(f.table) <= MaxEntries,
           NEW g, g = WithChild(f, child)
    PROVE  /\ DOMAIN f.table = 1 .. Len(f.table)
           /\ DOMAIN g.table = 1 .. Len(f.table) + Copied(f, child)
           /\ \A i \in 1 .. Len(f.table) : g.table[i] = f.table[i]
           /\ \A j \in 1 .. Copied(f, child) :
                 /\ j \in DOMAIN child.table
                 /\ g.table[Len(f.table) + j] = Renumber(child.table[j], f.number + j - 1)
<1> DEFINE n == Copied(f, child)
           m == Len(f.table)
           copies == [i \in 1 .. n |-> Renumber(child.table[i], f.number + i - 1)]
<1>1. /\ f.table \in Seq(Entries) /\ child.table \in Seq(Entries) /\ f.number \in Nat
      /\ DOMAIN f.table = 1 .. m /\ m \in Nat
      /\ DOMAIN child.table = 1 .. Len(child.table) /\ Len(child.table) \in Nat
  BY LenProperties DEF Frames
<1>2. n \in Nat /\ n <= Len(child.table)
  BY WithChildType
<1>3. g.table = f.table \o copies
  BY DEF WithChild, Frames
<1> HIDE DEF n
<1>4. \A i \in 1 .. n : i \in DOMAIN child.table
  BY <1>1, <1>2
<1>5. copies \in Seq(Entries) /\ Len(copies) = n
  <2>1. ASSUME NEW i \in 1 .. n
        PROVE  Renumber(child.table[i], f.number + i - 1) \in Entries
    <3>1. child.table[i] \in Entries /\ f.number + i - 1 \in Nat
      BY <1>1, <1>4
    <3> QED
      BY <3>1, RenumberType
  <2> QED
    BY <1>2, <2>1
<1>6. \A i \in 1 .. n : copies[i] = Renumber(child.table[i], f.number + i - 1)
  OBVIOUS
<1> HIDE DEF copies, m
<1>7. /\ Len(g.table) = m + n
      /\ \A i \in 1 .. m + n : g.table[i] = IF i <= m THEN f.table[i] ELSE copies[i - m]
      /\ g.table \in Seq(Entries)
  <2> DEFINE t == f.table
             both == t \o copies
  <2>1. t \in Seq(Entries) /\ copies \in Seq(Entries) /\ Len(t) = m /\ Len(copies) = n
    BY <1>1, <1>5 DEF m
  <2> HIDE DEF t
  <2>2. /\ both \in Seq(Entries) /\ Len(both) = Len(t) + Len(copies)
        /\ \A i \in 1 .. Len(t) + Len(copies) :
              both[i] = IF i <= Len(t) THEN t[i] ELSE copies[i - Len(t)]
    BY <2>1, ConcatProperties
  <2>3. g.table = both
    BY <1>3 DEF t
  <2> QED
    BY <2>1, <2>2, <2>3 DEF t
<1>8. DOMAIN g.table = 1 .. m + n
  BY <1>7, LenProperties
<1>9. \A i \in 1 .. m : g.table[i] = f.table[i]
  BY <1>1, <1>2, <1>7
<1>10. \A j \in 1 .. n : g.table[m + j] = copies[j]
  <2> TAKE j \in 1 .. n
  <2>1. m + j \in 1 .. m + n /\ ~(m + j <= m) /\ (m + j) - m = j
    BY <1>1, <1>2
  <2> QED
    BY <1>7, <2>1
<1> QED
  BY <1>1, <1>4, <1>6, <1>8, <1>9, <1>10 DEF n, m

------------------------------------------------------------------------------
(***************************************************************************)
(* Disjoint entries: the inductive invariant                               *)
(***************************************************************************)
Disjoint(table) ==
    \A i, j \in DOMAIN table : i < j => Mapped(table[i]) \cap Mapped(table[j]) = {}

(* No entry of the table maps an address of s .. e.                        *)
Avoids(table, s, e) == \A i \in DOMAIN table : Mapped(table[i]) \cap (s .. e) = {}

(* What is left for the children to map has not been mapped yet, and what  *)
(* the child on the left may map ends before the part on the right.        *)
RestApart(f) ==
    /\ f.pc \in {"left", "copyLeft"} /\ NeedsLeft(f) =>
          /\ CoverLimit(f.left - 1) = f.left - 1
          /\ Avoids(f.table, f.start, f.left - 1)
          /\ NeedsRight(f) => f.left <= f.right
    /\ f.pc \in RestPoints /\ NeedsRight(f) => Avoids(f.table, f.right, CoverLimit(f.end))

(* A calculator has no entry before the one that it selects.               *)
Unbuilt(f) == f.pc \in Selecting => f.table = <<>>

ApartFrame(f) == Unbuilt(f) /\ (Posed(f) => Disjoint(f.table) /\ RestApart(f))

ApartInv == ApartFrame(frame) /\ \A i \in DOMAIN callers : ApartFrame(callers[i])

(* The first entry leaves its left and its right to the children.          *)
LEMMA BuildApart ==
    ASSUME NEW f \in Frames, Posed(f), BuildInv(f),
           NEW g, g.start = f.start, g.end = f.end, g.table = <<BestEntry(f)>>,
           g.left = FirstAddr(f, f.best.sub, f.best.base), g.right = NextAddr(f)
    PROVE  Disjoint(g.table) /\ RestApart(g)
<1> DEFINE start == f.start
           end == f.end
           e == BestEntry(f)
<1>1. start \in Nat /\ end \in Nat /\ end < WordSize /\ start <= end
  BY PosedBounds
<1>2. DOMAIN g.table = {1} /\ g.table[1] = e
  OBVIOUS
<1>3. Disjoint(g.table)
  BY <1>2 DEF Disjoint
<1>4. CASE IsFullRange(f) /\ f.best = FullBest
  <2>1. FirstAddr(f, f.best.sub, f.best.base) = 0 /\ NextAddr(f) = f.end
    BY <1>4, FullRangeBuild
  <2>2. g.left = 0 /\ g.right = end /\ g.start = start /\ g.end = end
    BY <2>1
  <2> HIDE DEF start, end
  <2>3. ~NeedsLeft(g) /\ ~NeedsRight(g)
    BY <1>1, <2>2 DEF NeedsLeft, NeedsRight
  <2> QED
    BY <1>3, <2>3 DEF RestApart
<1>5. CASE ~IsFullRange(f) /\ Tried(f, f.best) /\ 8 * f.best.sub <= WordSize /\ Enough(f)
  <2>1. PICK first \in Nat, next \in Nat :
          /\ first = FirstAddr(f, f.best.sub, f.best.base)
          /\ NextAddr(f) = IF next = WordSize THEN 0 ELSE next
          /\ f.start <= first /\ first + 2 <= next
          /\ (first % Granule) = 0
          /\ Mapped(BestEntry(f)) \subseteq first .. next - 1
    BY <1>5, SelectedBuild
  <2>2. /\ g.left = first /\ g.right = IF next = WordSize THEN 0 ELSE next
        /\ g.start = start /\ g.end = end /\ start <= first
        /\ Mapped(e) \subseteq first .. next - 1
    BY <2>1
  <2> HIDE DEF start, end, e
  <2>3. ASSUME first > start
        PROVE  /\ CoverLimit(first - 1) = first - 1
               /\ Avoids(g.table, start, first - 1)
    <3>1. first >= 2
      <4> SUFFICES ASSUME first = 1 PROVE FALSE
        BY <1>1, <2>3
      <4>1. (first % Granule) = 1
        BY Constants
      <4> QED
        BY <2>1, <4>1
    <3>2. CoverLimit(first - 1) = first - 1
      BY <1>1, <2>1, <3>1, CoverLimits
    <3>3. Mapped(e) \cap (start .. first - 1) = {}
      BY <1>1, <2>1, <2>2
    <3> QED
      BY <1>2, <3>2, <3>3 DEF Avoids
  <2>4. ASSUME g.right # 0
        PROVE  first <= g.right /\ Avoids(g.table, g.right, CoverLimit(end))
    <3>1. g.right = next /\ CoverLimit(end) \in Nat
      BY <1>1, <2>2, <2>4 DEF CoverLimit
    <3>2. Mapped(e) \cap (next .. CoverLimit(end)) = {}
      BY <1>1, <2>1, <2>2, <3>1
    <3> QED
      BY <1>2, <2>1, <3>1, <3>2 DEF Avoids
  <2> QED
    BY <1>3, <2>2, <2>3, <2>4 DEF RestApart, NeedsLeft, NeedsRight
<1> QED
  BY <1>4, <1>5 DEF BuildInv

(* The child's entries avoid those of its parent.                          *)
LEMMA CopyApart ==
    ASSUME NEW f \in Frames, NEW child \in Frames, Len(f.table) <= MaxEntries,
           f.pc \in {"copyLeft", "copyRight"}, FrameInv(f), ApartFrame(f),
           FrameInv(child), ApartFrame(child), Waits(f, child), Posed(f),
           NEW g, g = WithChild(f, child)
    PROVE  /\ Disjoint(g.table)
           /\ f.pc = "copyLeft" /\ NeedsRight(f) =>
                 Avoids(g.table, f.right, CoverLimit(f.end))
<1> DEFINE n == Copied(f, child)
           m == Len(f.table)
           start == f.start
           end == f.end
           left == f.left
           right == f.right
<1>1. /\ start \in Nat /\ end \in Nat /\ left \in Nat /\ right \in Nat /\ f.number \in Nat
      /\ child.table \in Seq(Entries) /\ m \in Nat
      /\ DOMAIN child.table = 1 .. Len(child.table) /\ CoverLimit(end) \in Nat
  <2>1. /\ start \in Addresses /\ end \in Addresses /\ left \in Addresses /\ right \in Addresses
        /\ f.number \in Nat /\ child.table \in Seq(Entries) /\ f.table \in Seq(Entries)
    BY DEF Frames
  <2>2. CoverLimit(end) = end + 1 \/ CoverLimit(end) = end
    BY DEF CoverLimit
  <2> HIDE DEF start, end, left, right
  <2>3. start \in Nat /\ end \in Nat /\ left \in Nat /\ right \in Nat
    BY <2>1 DEF Addresses
  <2> QED
    BY <2>1, <2>2, <2>3, LenProperties
<1>2. /\ n \in Nat
      /\ DOMAIN f.table = 1 .. m /\ DOMAIN g.table = 1 .. m + n
      /\ \A i \in 1 .. m : g.table[i] = f.table[i]
      /\ \A j \in 1 .. n : /\ j \in DOMAIN child.table
                          /\ g.table[m + j] = Renumber(child.table[j], f.number + j - 1)
  <2>1. n \in Nat
    BY WithChildType
  <2> QED
    BY <2>1, WithChildTable
<1>3. Disjoint(f.table) /\ RestApart(f) /\ RestInv(f) /\ f.pc \in RestPoints
  BY DEF ApartFrame, FrameInv, PointInv, RestPoints
<1>4. Posed(child)
  BY <1>3 DEF Waits, RestInv, LeftPart, RightPart, Posed
<1>5. Disjoint(child.table) /\ EntriesInside(child)
  BY <1>4 DEF ApartFrame, FrameInv
<1> HIDE DEF n, m
<1>6. ASSUME NEW j \in 1 .. n
      PROVE  /\ Mapped(g.table[m + j]) = Mapped(child.table[j])
             /\ Mapped(child.table[j]) \subseteq child.start .. CoverLimit(child.end)
  <2> DEFINE theirs == child.table
  <2>a. theirs \in Seq(Entries) /\ j \in DOMAIN theirs /\ j \in Nat \ {0}
    BY <1>1, <1>2
  <2>b. theirs[j] \in Entries
    <3> HIDE DEF theirs
    <3> QED
      BY <2>a, ElementOfSeq, LenProperties
  <2>1. j \in DOMAIN child.table /\ child.table[j] \in Entries /\ f.number + j - 1 \in Nat
    BY <1>1, <2>a, <2>b
  <2>2. Inside(child.table[j], child.start, child.end)
    BY <1>5, <2>1 DEF EntriesInside
  <2>3. Sized(child.table[j])
    BY <2>2 DEF Inside, Sized
  <2>4. Mapped(Renumber(child.table[j], f.number + j - 1)) = Mapped(child.table[j])
    BY <2>1, <2>3, RenumberMaps
  <2> QED
    BY <1>2, <2>2, <2>4 DEF Inside
<1>7. Avoids(f.table, child.start, CoverLimit(child.end))
  <2>1. CASE f.pc = "copyLeft"
    <3>1. NeedsLeft(f) /\ child.start = f.start /\ child.end = f.left - 1
      BY <2>1 DEF Waits
    <3> QED
      BY <1>3, <2>1, <3>1 DEF RestApart
  <2>2. CASE f.pc = "copyRight"
    <3>1. NeedsRight(f) /\ child.start = f.right /\ child.end = f.end
      BY <2>2 DEF Waits
    <3> QED
      BY <1>3, <2>2, <3>1 DEF RestApart
  <2> QED
    BY <2>1, <2>2
<1>8. Disjoint(g.table)
  <2> SUFFICES ASSUME NEW i \in 1 .. m + n, NEW j \in 1 .. m + n, i < j
               PROVE  Mapped(g.table[i]) \cap Mapped(g.table[j]) = {}
    BY <1>2 DEF Disjoint
  <2>1. CASE j <= m
    <3>1. i \in 1 .. m /\ j \in 1 .. m
      BY <1>1, <1>2, <2>1
    <3> QED
      BY <1>2, <1>3, <3>1 DEF Disjoint
  <2>2. CASE i <= m /\ j > m
    <3>1. i \in 1 .. m /\ j - m \in 1 .. n /\ m + (j - m) = j
      BY <1>1, <1>2, <2>2
    <3>2. Mapped(g.table[j]) \subseteq child.start .. CoverLimit(child.end)
      BY <1>6, <3>1
    <3>3. Mapped(g.table[i]) \cap (child.start .. CoverLimit(child.end)) = {}
      BY <1>2, <1>7, <3>1 DEF Avoids
    <3> QED
      BY <3>2, <3>3
  <2>3. CASE i > m
    <3>1. /\ i - m \in 1 .. n /\ j - m \in 1 .. n /\ m + (i - m) = i /\ m + (j - m) = j
          /\ i - m < j - m
      BY <1>1, <1>2, <2>3
    <3>2. /\ Mapped(g.table[i]) = Mapped(child.table[i - m])
          /\ Mapped(g.table[j]) = Mapped(child.table[j - m])
      BY <1>6, <3>1
    <3> QED
      BY <1>2, <1>5, <3>1, <3>2 DEF Disjoint
  <2> QED
    BY <1>1, <1>2, <2>1, <2>2, <2>3
<1>9. ASSUME f.pc = "copyLeft", NeedsRight(f)
      PROVE  Avoids(g.table, right, CoverLimit(end))
  <2>1. /\ NeedsLeft(f) /\ child.start = start /\ child.end = left - 1
        /\ CoverLimit(left - 1) = left - 1 /\ left <= right
        /\ Avoids(f.table, right, CoverLimit(end))
    BY <1>3, <1>9 DEF Waits, RestApart
  <2> SUFFICES ASSUME NEW i \in 1 .. m + n
               PROVE  Mapped(g.table[i]) \cap (right .. CoverLimit(end)) = {}
    BY <1>2 DEF Avoids
  <2>2. CASE i <= m
    <3>1. i \in 1 .. m
      BY <1>1, <2>2
    <3> QED
      BY <1>2, <2>1, <3>1 DEF Avoids
  <2>3. CASE i > m
    <3>1. i - m \in 1 .. n /\ m + (i - m) = i
      BY <1>1, <1>2, <2>3
    <3>2. Mapped(g.table[i]) \subseteq child.start .. CoverLimit(child.end)
      BY <1>6, <3>1
    <3>3. Mapped(g.table[i]) \subseteq start .. left - 1
      BY <2>1, <3>2
    <3> HIDE DEF start, end, left, right
    <3> QED
      BY <1>1, <2>1, <3>3
  <2> QED
    BY <1>1, <1>2, <2>2, <2>3
<1> QED
  BY <1>8, <1>9

(* A step to another point of the second half.                             *)
LEMMA GotoApart ==
    ASSUME NEW f \in Frames, NEW label, Posed(f) => Disjoint(f.table) /\ RestApart(f),
           \/ f.pc = "left" /\ label = "copyLeft"
           \/ f.pc = "right" /\ label = "copyRight"
           \/ f.pc = "left" /\ label = "right"
    PROVE  ApartFrame(Goto(f, label))
<1> DEFINE g == Goto(f, label)
<1>1. /\ g.start = f.start /\ g.end = f.end /\ g.table = f.table
      /\ g.left = f.left /\ g.right = f.right /\ g.pc = label
  BY DEF Goto, Frames
<1> HIDE DEF g
<1>2. Unbuilt(g)
  BY <1>1 DEF Unbuilt, Selecting
<1>3. Posed(g) => Posed(f)
  BY <1>1 DEF Posed
<1>4. NeedsLeft(g) = NeedsLeft(f) /\ NeedsRight(g) = NeedsRight(f)
  BY <1>1 DEF NeedsLeft, NeedsRight
<1>5. RestApart(f) => RestApart(g)
  BY <1>1, <1>4 DEF RestApart, RestPoints
<1>6. ApartFrame(g)
  BY <1>1, <1>2, <1>3, <1>5 DEF ApartFrame
<1> QED
  BY <1>6 DEF g

LEMMA ApartInit == Init => ApartInv
<1> SUFFICES ASSUME Init PROVE ApartInv
  OBVIOUS
<1>1. frame.pc = "enter" /\ frame.table = <<>> /\ DOMAIN callers = {}
  BY DEF Init, NewFrame
<1>2. ApartFrame(frame)
  BY <1>1 DEF ApartFrame, Unbuilt, Disjoint, RestApart, RestPoints
<1> QED
  BY <1>1, <1>2 DEF ApartInv

LEMMA ApartStep == TypeInv /\ RangeInv /\ ApartInv /\ [Next]_vars => ApartInv'
<1> SUFFICES ASSUME TypeInv, RangeInv, ApartInv, [Next]_vars PROVE ApartInv'
  OBVIOUS
<1>1. frame \in Frames /\ ApartFrame(frame) /\ FrameInv(frame)
  BY DEF TypeInv, SoundFrame, ApartInv, RangeInv
<1>2. ASSUME NEW i \in DOMAIN callers' PROVE ApartFrame(callers'[i])
  <2>1. CASE \E j \in DOMAIN callers : callers'[i] = callers[j]
    BY <2>1 DEF ApartInv
  <2>2. CASE At("left") /\ callers'[i] = Goto(frame, "copyLeft")
    BY <1>1, <2>2, GotoApart DEF ApartFrame, At
  <2>3. CASE At("right") /\ callers'[i] = Goto(frame, "copyRight")
    BY <1>1, <2>3, GotoApart DEF ApartFrame, At
  <2> QED
    BY <2>1, <2>2, <2>3, CallersAfter
<1>3. ApartFrame(frame')
  <2>1. CASE frame' = frame
    BY <1>1, <2>1
  <2>2. CASE /\ frame.pc \in Selecting /\ frame'.pc \in Selecting \cup {"return"}
             /\ frame'.start = frame.start /\ frame'.end = frame.end
             /\ frame'.table = frame.table
    <3>1. frame'.table = <<>>
      BY <1>1, <2>2 DEF ApartFrame, Unbuilt
    <3>2. frame'.pc \notin RestPoints
      BY <2>2 DEF Selecting, RestPoints
    <3> QED
      BY <3>1, <3>2 DEF ApartFrame, Unbuilt, Disjoint, RestApart, RestPoints
  <2>3. CASE Build
    <3> DEFINE e == BestEntry(frame)
    <3>1. /\ frame' = [frame EXCEPT !.pc = "left", !.table = Append(frame.table, e),
                                    !.number = frame.number + 1,
                                    !.left = FirstAddr(frame, frame.best.sub, frame.best.base),
                                    !.right = NextAddr(frame)]
          /\ frame.pc = "build"
      BY <2>3 DEF Build, Local, At
    <3>2. frame.table = <<>>
      BY <1>1, <3>1 DEF ApartFrame, Unbuilt, Selecting
    <3> HIDE DEF e
    <3>3. /\ frame'.start = frame.start /\ frame'.end = frame.end /\ frame'.pc = "left"
          /\ frame'.left = FirstAddr(frame, frame.best.sub, frame.best.base)
          /\ frame'.right = NextAddr(frame)
          /\ frame'.table = <<e>>
      BY <1>1, <3>1, <3>2 DEF Frames
    <3>4. Unbuilt(frame')
      BY <3>3 DEF Unbuilt, Selecting
    <3>5. ASSUME Posed(frame') PROVE Disjoint(frame'.table) /\ RestApart(frame')
      <4>1. Posed(frame)
        BY <3>3, <3>5 DEF Posed
      <4>2. BuildInv(frame)
        BY <1>1, <3>1, <4>1 DEF FrameInv, PointInv
      <4> QED
        BY <1>1, <3>3, <4>1, <4>2, BuildApart DEF e
    <3> QED
      BY <3>4, <3>5 DEF ApartFrame
  <2>4. CASE \E s, e : frame' = NewFrame(s, e, 0)
    <3>1. frame'.pc = "enter" /\ frame'.table = <<>>
      BY <2>4 DEF NewFrame
    <3> QED
      BY <3>1 DEF ApartFrame, Unbuilt, Disjoint, RestApart, RestPoints
  <2>5. CASE SkipLeft /\ frame' = Goto(frame, "right")
    <3>1. frame.pc = "left"
      BY <2>5 DEF SkipLeft, At
    <3> QED
      BY <1>1, <2>5, <3>1, GotoApart DEF ApartFrame
  <2>6. ASSUME NEW f \in Frames, NEW ok, Posed(f) => Disjoint(f.table), frame' = Return(f, ok)
        PROVE  ApartFrame(frame')
    <3>1. /\ frame'.start = f.start /\ frame'.end = f.end /\ frame'.table = f.table
          /\ frame'.pc = "return"
      BY <2>6 DEF Return, Frames
    <3>2. Posed(frame') => Posed(f)
      BY <3>1 DEF Posed
    <3> QED
      BY <2>6, <3>1, <3>2 DEF ApartFrame, Unbuilt, RestApart, RestPoints, Selecting
  <2>7. CASE SkipRight /\ frame' = Return(frame, TRUE)
    BY <1>1, <2>6, <2>7 DEF ApartFrame
  <2>8. CASE CopyChild
    <3> DEFINE n == Len(callers)
               parent == callers[n]
               f == WithChild(parent, frame)
    <3>1. n \in DOMAIN callers
      <4>1. callers \in Seq(Frames) /\ callers # <<>>
        BY <2>8 DEF CopyChild, TypeInv, SoundCallers
      <4> QED
        BY <4>1, EmptySeq, LenProperties
    <3>2. /\ parent \in Frames /\ Len(parent.table) <= MaxEntries
          /\ parent.pc \in {"copyLeft", "copyRight"}
      BY <3>1 DEF TypeInv, SoundCallers
    <3>3. FrameInv(parent) /\ Waits(parent, frame) /\ ApartFrame(parent)
      BY <3>1 DEF RangeInv, ApartInv
    <3>4. /\ f \in Frames /\ f.start = parent.start /\ f.end = parent.end
          /\ f.right = parent.right /\ f.pc = parent.pc
      <4>1. f \in Frames
        BY <1>1, <3>2, WithChildType
      <4> HIDE DEF parent
      <4> QED
        BY <3>2, <4>1 DEF WithChild, Frames
    <3>5. \/ frame' = Return(f, FALSE) \/ frame' = Return(f, TRUE)
          \/ parent.pc = "copyLeft" /\ frame' = Goto(f, "right")
      BY <2>8 DEF CopyChild
    <3>6. Posed(f) => /\ Disjoint(f.table)
                      /\ parent.pc = "copyLeft" /\ NeedsRight(parent) =>
                            Avoids(f.table, parent.right, CoverLimit(parent.end))
      <4> SUFFICES ASSUME Posed(f)
                   PROVE  /\ Disjoint(f.table)
                          /\ parent.pc = "copyLeft" /\ NeedsRight(parent) =>
                                Avoids(f.table, parent.right, CoverLimit(parent.end))
        OBVIOUS
      <4>1. Posed(parent)
        BY <3>4 DEF Posed
      <4> QED
        BY <1>1, <3>2, <3>3, <4>1, CopyApart
    <3> HIDE DEF parent, f
    <3>7. CASE parent.pc = "copyLeft" /\ frame' = Goto(f, "right")
      <4>1. /\ frame'.start = f.start /\ frame'.end = f.end /\ frame'.table = f.table
            /\ frame'.right = f.right /\ frame'.pc = "right"
        BY <3>4, <3>7 DEF Goto, Frames
      <4>2. Posed(frame') => Posed(f)
        BY <4>1 DEF Posed
      <4>3. NeedsRight(frame') => NeedsRight(parent)
        BY <3>4, <4>1 DEF NeedsRight
      <4> QED
        BY <3>4, <3>6, <3>7, <4>1, <4>2, <4>3
        DEF ApartFrame, Unbuilt, RestApart, RestPoints, Selecting
    <3> QED
      BY <2>6, <3>4, <3>5, <3>6, <3>7
  <2> QED
    BY <2>1, <2>2, <2>3, <2>4, <2>5, <2>7, <2>8, FrameAfter
<1> QED
  BY <1>2, <1>3 DEF ApartInv

(* In every reachable state, of every calculator of a well-posed range on  *)
(* the stack: its entries are pairwise disjoint, and what is left to its   *)
(* children has not been mapped yet.                                       *)
THEOREM PartsKept == Spec => []ApartInv
<1>1. TypeInv /\ RangeInv /\ ApartInv /\ [Next]_vars => ApartInv'
  BY ApartStep
<1> QED
  BY <1>1, ApartInit, TypeCorrect, RangesKept, PTL DEF Spec

(* No address of a well-posed range is mapped by two entries of one call,  *)
(* so the priority of higher-numbered regions decides nothing.             *)
THEOREM NoneMappedTwice == Spec => []EntriesDisjoint
<1>1. ApartInv => EntriesDisjoint
  BY DEF ApartInv, ApartFrame, Posed, Disjoint, EntriesDisjoint
<1> QED
  BY <1>1, PartsKept, PTL

------------------------------------------------------------------------------
(***************************************************************************)
(* Ranges of any alignment are covered: the inductive invariant            *)
(***************************************************************************)

(* The first subregion size tried is at least 4 granules, and its region   *)
(* fits the address space: 2^27 granules in the code.                      *)
Roomy == 32 * Granule <= WordSize

Ordered(f) == f.start <= f.end

(* Neither the region nor the first subregion of this size wraps.          *)
Sizable(f, sub) == 8 * sub <= WordSize \/ f.start + sub <= WordSize

Attempt(f, c) ==
    /\ c.sub \in PowersOfTwo /\ Granule <= c.sub /\ Sizable(f, c.sub)
    /\ c.base \in {RegionBefore(f, c.sub), RegionAfter(f, c.sub)}
    /\ c.size = ActualSize(f, c.sub, c.base)

Looping(f) ==
    /\ ~IsFullRange(f) /\ f.start + (Granule - 1) <= f.end
    /\ Sizable(f, f.sub)

BeforeAny(f) ==
    /\ Looping(f)
    /\ \/ f.best = NoBest
       \/ /\ Attempt(f, f.best)
          /\ IF 8 * f.sub >= WordSize THEN f.best.sub = 2 * f.sub
             ELSE 8 * f.best.sub <= WordSize

LatestWins(f) ==
    /\ Attempt(f, f.best)
    /\ IF 8 * f.sub >= WordSize THEN f.best.sub = f.sub ELSE 8 * f.best.sub <= WordSize

NoGranule(f) == WholeGranules(f.start, f.end) = {}

AfterAny(f) ==
    /\ Looping(f) /\ LatestWins(f)
    /\ RegionBefore(f, f.sub) # f.start
    /\ f.sub = Granule /\ f.best.size = 0 =>
          NumSubregions(f, Granule, RegionBefore(f, Granule)) = 0

(* Something is selected, unless there is no granule to cover.             *)
Selected(f) ==
    /\ Attempt(f, f.best) /\ 8 * f.best.sub <= WordSize
    /\ NumSubregions(f, f.best.sub, f.best.base) > 0 \/ NoGranule(f)

BuildAny(f) ==
    \/ IsFullRange(f) /\ f.best = FullBest
    \/ ~IsFullRange(f) /\ Selected(f)

(* The granules that are left to the two children.                         *)
LeftGranules(f) ==
    IF NeedsLeft(f) THEN WholeGranules(f.start, f.left - 1) ELSE {}

RightGranules(f) ==
    IF NeedsRight(f) THEN WholeGranules(f.right, f.end) ELSE {}

(* The subregions of the selected entry are the ones reckoned with.        *)
Reckoned(f) == SubregionBytes(f.table[1]) = f.best.sub

CoverPoint(f) ==
    /\ f.pc = "before" => BeforeAny(f)
    /\ f.pc = "after" => AfterAny(f)
    /\ f.pc = "build" => BuildAny(f)
    /\ f.pc = "left" => Reckoned(f)
    /\ f.pc \in {"left", "copyLeft"} =>
          WholeGranules(f.start, f.end)
             \subseteq LeftGranules(f) \cup MappedBy(f.table) \cup RightGranules(f)
    /\ f.pc \in {"right", "copyRight"} =>
          WholeGranules(f.start, f.end) \subseteq MappedBy(f.table) \cup RightGranules(f)
    /\ f.pc = "return" /\ f.ok =>
          WholeGranules(f.start, f.end) \subseteq MappedBy(f.table)

CoverFrame(f) ==
    /\ Unbuilt(f)
    /\ f.pc \in RestPoints => f.table # <<>>
    /\ Ordered(f) => CoverPoint(f) /\ \A i \in DOMAIN f.table : Sized(f.table[i])

CoverInv == CoverFrame(frame) /\ \A i \in DOMAIN callers : CoverFrame(callers[i])

------------------------------------------------------------------------------
(***************************************************************************)
(* The selection for a range of any alignment                              *)
(***************************************************************************)

(* Both region starts are aligned to the region, and it ends by the top.   *)
LEMMA AlignedBases ==
    ASSUME NEW f \in Frames, NEW sub \in PowersOfTwo, 8 * sub <= WordSize,
           NEW base \in {RegionBefore(f, sub), RegionAfter(f, sub)}
    PROVE  base \in Addresses /\ (base % (8 * sub)) = 0 /\ base + 8 * sub <= WordSize
<1> DEFINE size == 8 * sub
           b == RegionBefore(f, sub)
<1>1. sub \in Nat \ {0} /\ size \in Nat \ {0} /\ WordSize \in Nat \ {0} /\ size <= WordSize
  BY Constants
<1>2. (0 % size) = 0 /\ 0 \in Addresses
  BY <1>1 DEF Addresses
<1>3. CASE size = WordSize
  <2>1. RegionSize(sub) = 0
    BY <1>1, <1>3, RegionSizes
  <2>2. base = 0
    BY <2>1 DEF RegionBefore, RegionAfter, AlignUp, AlignDown
  <2> QED
    BY <1>1, <1>2, <1>3, <2>2
<1>4. CASE size < WordSize
  <2>1. b \in Nat /\ b < WordSize /\ (b % size) = 0 /\ b + size <= WordSize
    <3>1. b \in Addresses /\ (b % size) = 0 /\ b + size <= WordSize
      BY <1>4, Before
    <3> HIDE DEF b, size
    <3> QED
      BY <3>1, Constants DEF Addresses
  <2>2. base = b \/ base = 0 \/ (base = b + size /\ b + size # WordSize)
    BY <1>4, After
  <2>3. (WordSize % size) = 0 /\ (size % size) = 0
    BY <1>1, <1>4, EightFold
  <2> HIDE DEF b, size
  <2>4. CASE base = b + size /\ b + size # WordSize
    <3>1. base \in Nat /\ base < WordSize
      BY <1>1, <2>1, <2>4
    <3>2. (base % size) = 0
      BY <1>1, <2>1, <2>3, <2>4, MultipleSum
    <3>3. base + size <= WordSize
      BY <1>1, <2>3, <3>1, <3>2, MultipleGap
    <3>4. base \in Addresses
      BY <1>1, <3>1 DEF Addresses
    <3> QED
      BY <3>2, <3>3, <3>4 DEF size
  <2>5. CASE base = b
    BY <1>1, <2>1, <2>5 DEF Addresses, size
  <2>6. CASE base = 0
    <3>1. 0 + size <= WordSize
      BY <1>1
    <3> QED
      BY <1>2, <2>6, <3>1 DEF size
  <2> QED
    BY <2>2, <2>4, <2>5, <2>6
<1> QED
  BY <1>1, <1>3, <1>4

(* The one size of a region that is as large as the address space.         *)
LEMMA EighthOnly ==
    ASSUME NEW sub \in PowersOfTwo, 8 * sub >= WordSize, 8 * (sub \div 2) < WordSize, sub # 1
    PROVE  8 * sub = WordSize
<1> DEFINE eighth == WordSize \div 8
           half == sub \div 2
<1>1. eighth \in PowersOfTwo /\ eighth \in Nat \ {0} /\ WordSize = 8 * eighth
  BY EighthOfWord, Constants
<1>2. sub \in Nat \ {0} /\ sub = 2 * half /\ half \in Nat
  BY HalfPower, Constants
<1> HIDE DEF eighth, half
<1>3. eighth <= sub /\ sub < 2 * eighth
  BY <1>1, <1>2 DEF half
<1>4. (sub % eighth) = 0 /\ (eighth % eighth) = 0
  BY <1>1, <1>3, PowerDivides
<1>5. ~(eighth < sub)
  <2> SUFFICES ASSUME eighth < sub PROVE FALSE
    OBVIOUS
  <2>1. eighth + eighth <= sub
    BY <1>1, <1>2, <1>4, MultipleGap
  <2> QED
    BY <1>1, <1>2, <1>3, <2>1
<1> QED
  BY <1>1, <1>2, <1>3, <1>5

(* The size after which the loop ends.                                     *)
LEMMA GranuleIsLast ==
    ASSUME NEW sub \in PowersOfTwo, Granule <= sub, sub \div 2 < Granule
    PROVE  sub = Granule
<1> DEFINE half == sub \div 2
<1>1. sub \in Nat \ {0} /\ Granule \in Nat \ {0} /\ Granule \in PowersOfTwo /\ Granule >= 2
  BY Constants, WordAssumption
<1>2. sub = 2 * half /\ half \in Nat
  BY <1>1, HalfPower, Constants
<1> HIDE DEF half
<1>3. sub < 2 * Granule
  BY <1>1, <1>2 DEF half
<1>4. (sub % Granule) = 0 /\ (Granule % Granule) = 0
  BY <1>1, PowerDivides
<1>5. ~(Granule < sub)
  <2> SUFFICES ASSUME Granule < sub PROVE FALSE
    OBVIOUS
  <2>1. Granule + Granule <= sub
    BY <1>1, <1>4, MultipleGap
  <2> QED
    BY <1>1, <1>3, <2>1
<1> QED
  BY <1>1, <1>5

(* After a try the best candidate is one whose region fits the address     *)
(* space, or the one just tried.                                           *)
LEMMA LatestTry ==
    ASSUME NEW f \in Frames, f.sub \in PowersOfTwo, Granule <= f.sub, Sizable(f, f.sub),
           NEW base \in {RegionBefore(f, f.sub), RegionAfter(f, f.sub)},
           \/ f.best = NoBest
           \/ /\ Attempt(f, f.best)
              /\ IF 8 * f.sub >= WordSize THEN f.best.sub \in {f.sub, 2 * f.sub}
                 ELSE 8 * f.best.sub <= WordSize,
           NEW g, g.start = f.start, g.end = f.end, g.sub = f.sub, g.best = Better(f, base)
    PROVE  LatestWins(g)
<1> DEFINE sub == f.sub
           new == [size |-> ActualSize(f, sub, base), sub |-> sub, base |-> base]
<1>1. sub \in Nat \ {0} /\ WordSize \in Nat /\ Granule \in Nat
  BY Constants
<1>2. \A c : Attempt(f, c) => Attempt(g, c)
  BY SameRange DEF Attempt, Sizable
<1>3. base \in Addresses
  BY <1>1, RegionTypes
<1>4. CASE ActualSize(f, sub, base) >= f.best.size
  <2>1. Better(f, base) = new
    BY <1>4 DEF Better
  <2>2. Attempt(f, new) /\ new.sub = sub
    BY <1>1 DEF Attempt
  <2>3. 8 * sub >= WordSize \/ 8 * sub <= WordSize
    BY <1>1
  <2> HIDE DEF new
  <2> QED
    BY <1>2, <2>1, <2>2, <2>3 DEF LatestWins
<1>5. CASE ~(ActualSize(f, sub, base) >= f.best.size)
  <2>1. Better(f, base) = f.best
    BY <1>5 DEF Better
  <2>2. ActualSize(f, sub, base) \in Nat
    <3>1. ActualSize(f, sub, base) \in Addresses
      BY <1>1, <1>3, SelectionTypes
    <3> QED
      BY <3>1 DEF Addresses
  <2>3. f.best # NoBest
    BY <1>5, <2>2 DEF NoBest
  <2>4. ASSUME 8 * sub >= WordSize, f.best.sub = 2 * sub PROVE FALSE
    <3> DEFINE two == 2 * sub
    <3>1. /\ two \in PowersOfTwo /\ Granule <= two /\ Sizable(f, two)
          /\ f.best.base \in {RegionBefore(f, two), RegionAfter(f, two)}
          /\ f.best.size = ActualSize(f, two, f.best.base)
      BY <2>3, <2>4 DEF Attempt
    <3>2. 8 * two > WordSize /\ 8 * two >= WordSize
      BY <1>1, <2>4, Constants
    <3>3. RegionSize(sub) = 0 /\ RegionSize(two) = 0
      BY <2>4, <3>1, <3>2, RegionSizes
    <3>4. f.best.base = 0 /\ base = 0
      BY <3>1, <3>3 DEF RegionBefore, RegionAfter, AlignUp, AlignDown
    <3>5. f.start + two <= WordSize
      BY <1>1, <3>1, <3>2 DEF Sizable
    <3>6. ActualSize(f, two, 0) <= ActualSize(f, sub, 0)
      BY <1>1, <2>4, <3>1, <3>5, SmallerCoversMore
    <3> QED
      BY <1>5, <3>1, <3>4, <3>6
  <2> QED
    BY <1>2, <2>1, <2>3, <2>4 DEF LatestWins
<1> QED
  BY <1>4, <1>5

(* The granule of an address.                                              *)
LEMMA GranuleBounds ==
    ASSUME NEW a \in Nat
    PROVE  /\ GranuleOf(a) \in Nat /\ (GranuleOf(a) % Granule) = 0
           /\ GranuleOf(a) <= a /\ a < GranuleOf(a) + Granule
<1> DEFINE q == a \div Granule
           r == a % Granule
<1>1. Granule \in Nat \ {0}
  BY Constants
<1>2. q \in Nat /\ r \in Nat /\ r < Granule /\ a = Granule * q + r
  BY <1>1, DivMod, DivNat
<1>3. GranuleOf(a) = a - r
  BY DEF GranuleOf
<1> HIDE DEF q, r
<1>4. GranuleOf(a) = Granule * q /\ Granule * q \in Nat
  BY <1>1, <1>2, <1>3
<1>5. ((Granule * q) % Granule) = 0
  BY <1>1, <1>2, Multiple
<1> QED
  BY <1>1, <1>2, <1>3, <1>4, <1>5

(* A try of the smallest size finds the first granule of the region.       *)
LEMMA GranuleCounted ==
    ASSUME NEW f \in Frames, NEW base \in Addresses, f.start + Granule <= WordSize,
           FirstSubregion(f, Granule, base) <= 7,
           base + FirstSubregion(f, Granule, base) * Granule + Granule - 1 <= f.end
    PROVE  NumSubregions(f, Granule, base) > 0
<1> DEFINE i == FirstSubregion(f, Granule, base)
           l == LastSubregion(f, Granule, base)
           end == f.end
           a == i * Granule
           b == l * Granule
<1>1. Granule \in Nat \ {0} /\ Granule >= 2 /\ WordSize \in Nat
  BY Constants
<1>2. base \in Nat /\ end \in Nat /\ end < WordSize
  <2>1. end \in Addresses /\ base \in Addresses
    BY DEF Frames
  <2> HIDE DEF end
  <2> QED
    BY <1>1, <2>1 DEF Addresses
<1>3. i \in Nat /\ i <= 7 /\ base + a + Granule - 1 <= end
  BY <1>1, FirstSubregionBounds
<1>4. a \in Nat
  BY <1>1, <1>3
<1>5. base + Granule - 1 <= end
  <2> HIDE DEF a, end
  <2> QED
    BY <1>1, <1>2, <1>3, <1>4
<1>6. l \in 0 .. 7 /\ (l = 7 \/ base + b + 2 * Granule > end + 2)
  BY <1>1, <1>5, LastSubregionBounds
<1>7. Wrap(base + Granule - 1) = base + Granule - 1
  <2> HIDE DEF end
  <2>1. base + Granule - 1 \in Addresses /\ base + Granule - 1 \in Int
    BY <1>1, <1>2, <1>5, Constants DEF Addresses
  <2> QED
    BY <2>1, WrapAddress
<1>8. NumSubregions(f, Granule, base) =
        IF i > 7 \/ l < i \/ base + Granule - 1 > end THEN 0 ELSE l - i + 1
  BY <1>7 DEF NumSubregions
<1> HIDE DEF i, l, end
<1>9. ~(l < i)
  <2> SUFFICES ASSUME l < i PROVE FALSE
    OBVIOUS
  <2>1. l + 1 <= i /\ l # 7 /\ l \in Nat /\ l + 1 \in Nat
    BY <1>3, <1>6
  <2>2. (l + 1) * Granule <= i * Granule /\ (l + 1) * Granule = l * Granule + Granule
    BY <1>1, <1>3, <2>1, ProductMonotonic
  <2>3. b \in Nat /\ b + Granule <= a /\ base + b + 2 * Granule > end + 2
    BY <1>1, <1>6, <2>1, <2>2
  <2> HIDE DEF a, b
  <2> QED
    BY <1>1, <1>2, <1>3, <1>4, <2>3
<1>10. ~(i > 7) /\ ~(base + Granule - 1 > end) /\ l - i + 1 > 0
  <2> HIDE DEF a, b
  <2> QED
    BY <1>1, <1>2, <1>3, <1>5, <1>6, <1>9
<1> QED
  BY <1>8, <1>9, <1>10

(* If the two tries of the smallest size find nothing, there is no whole   *)
(* granule in the range.                                                   *)
LEMMA GranuleTried ==
    ASSUME NEW f \in Frames, f.start + (Granule - 1) <= f.end,
           NumSubregions(f, Granule, RegionBefore(f, Granule)) = 0,
           \/ RegionBefore(f, Granule) = f.start
           \/ NumSubregions(f, Granule, RegionAfter(f, Granule)) = 0
    PROVE  NoGranule(f)
<1> DEFINE base == RegionBefore(f, Granule)
           next == RegionAfter(f, Granule)
           i == FirstSubregion(f, Granule, base)
           start == f.start
           end == f.end
           a == i * Granule
<1>1. /\ Granule \in Nat \ {0} /\ Granule >= 2 /\ WordSize \in Nat
      /\ Granule \in PowersOfTwo /\ 8 * Granule <= WordSize
  BY Constants, WordAssumption
<1>2. start \in Nat /\ end \in Nat /\ end < WordSize /\ start + (Granule - 1) <= end
  <2>1. start \in Addresses /\ end \in Addresses /\ start + (Granule - 1) <= end
    BY DEF Frames
  <2> HIDE DEF start, end
  <2> QED
    BY <1>1, <2>1 DEF Addresses
<1>3. start + Granule <= WordSize
  <2> HIDE DEF start, end
  <2> QED
    BY <1>1, <1>2
<1>4. /\ base \in Addresses /\ base \in Nat /\ (base % Granule) = 0
      /\ base <= start /\ base + 8 * Granule <= WordSize
  <2>1. base \in Addresses /\ (base % Granule) = 0
    BY <1>1, <1>3, Bases
  <2> QED
    BY <1>1, <2>1, BeforeAround
<1>5. i \in Nat /\ start <= base + a /\ (start <= base => i = 0)
      /\ (start > base => base + a < start + Granule)
  BY <1>1, <1>3, <1>4, FirstSubregionBounds
<1>6. SUFFICES ASSUME NEW x \in Addresses, start <= GranuleOf(x),
                      GranuleOf(x) + Granule - 1 <= end
               PROVE  FALSE
  BY DEF NoGranule, WholeGranules
<1> DEFINE g == GranuleOf(x)
<1>7. g \in Nat /\ (g % Granule) = 0 /\ start <= g /\ g + Granule - 1 <= end
  <2>1. x \in Nat
    BY DEF Addresses
  <2> QED
    BY <1>6, <2>1, GranuleBounds
<1>8. a \in Nat /\ base + a <= g
  <2>1. a \in Nat /\ ((base + a) % Granule) = 0
    <3>1. (Granule % Granule) = 0
      BY <1>1
    <3>2. i \in Nat
      BY <1>5
    <3> HIDE DEF i, base
    <3>3. a \in Nat /\ (a % Granule) = 0
      BY <1>1, <3>1, <3>2, MultipleProduct
    <3> HIDE DEF a
    <3> QED
      BY <1>1, <1>4, <3>3, MultipleSum
  <2>2. start <= base => a = 0
    <3>1. 0 * Granule = 0
      BY <1>1
    <3> QED
      BY <1>5, <3>1
  <2> HIDE DEF a, g, base, start
  <2> DEFINE z == base + a
  <2>3. z \in Nat /\ (z % Granule) = 0
    BY <1>4, <2>1
  <2>4. ~(g < z)
    <3> SUFFICES ASSUME g < z PROVE FALSE
      OBVIOUS
    <3>1. g + Granule <= z
      <4> HIDE DEF z
      <4> QED
        BY <1>1, <1>7, <2>3, MultipleGap
    <3> QED
      BY <1>1, <1>2, <1>4, <1>5, <1>7, <2>1, <2>2, <3>1
  <2> QED
    BY <1>4, <1>7, <2>1, <2>4
<1>9. CASE i <= 7
  <2>1. base + a + Granule - 1 <= end
    <3> HIDE DEF base, a, g, end
    <3> QED
      BY <1>1, <1>2, <1>4, <1>7, <1>8
  <2>2. NumSubregions(f, Granule, base) > 0
    BY <1>3, <1>4, <1>9, <2>1, GranuleCounted
  <2> QED
    BY <2>2
<1>10. CASE ~(i <= 7)
  <2>1. 8 * Granule <= a
    BY <1>1, <1>5, <1>10, ProductMonotonic
  <2> DEFINE after == base + 8 * Granule
             j == FirstSubregion(f, Granule, next)
  <2>2. after <= g /\ after < WordSize /\ base # start /\ start <= after /\ after \in Nat
    <3>1. base # start
      BY <1>4, <1>5, <1>10
    <3>2. start < after
      BY <1>1, BeforeAround
    <3> HIDE DEF base, start, end, g, a
    <3> QED
      BY <1>1, <1>2, <1>4, <1>7, <1>8, <2>1, <3>1, <3>2
  <2>3. next = after
    <3>1. 8 * Granule < WordSize /\ after # WordSize
      BY <1>1, <1>4, <2>2
    <3> QED
      BY <1>1, <2>2, <3>1, After
  <2>4. next \in Addresses /\ start <= next
    <3> HIDE DEF after, next
    <3> QED
      BY <1>1, <2>2, <2>3 DEF Addresses
  <2>5. j = 0
    BY <1>1, <1>3, <2>4, FirstSubregionBounds
  <2>6. 0 * Granule = 0
    BY <1>1
  <2>7. next + j * Granule + Granule - 1 <= end
    <3>1. j * Granule = 0
      BY <2>5, <2>6
    <3>2. next \in Nat /\ next <= g
      BY <2>2, <2>3
    <3> HIDE DEF next, end, g, j
    <3> QED
      BY <1>1, <1>2, <1>7, <3>1, <3>2
  <2>8. NumSubregions(f, Granule, next) > 0
    <3>1. j <= 7
      BY <2>5
    <3> QED
      BY <1>3, <2>4, <2>7, <3>1, GranuleCounted
  <2> QED
    BY <2>2, <2>8
<1> QED
  BY <1>9, <1>10

(* What is known of the selection does not depend on the program counter.  *)
LEMMA SameCover ==
    ASSUME NEW f, NEW g, g.start = f.start, g.end = f.end
    PROVE  /\ \A c : Attempt(f, c) => Attempt(g, c)
           /\ NoGranule(f) => NoGranule(g)
           /\ g.sub = f.sub /\ Looping(f) => Looping(g)
           /\ g.best = f.best /\ Selected(f) => Selected(g)
           /\ g.best = f.best /\ BuildAny(f) => BuildAny(g)
           /\ g.best = f.best /\ g.sub = f.sub /\ BeforeAny(f) => BeforeAny(g)
           /\ g.best = f.best /\ g.sub = f.sub /\ AfterAny(f) => AfterAny(g)
<1>1. \A c : Attempt(f, c) => Attempt(g, c)
  BY SameRange DEF Attempt, Sizable
<1>2. NoGranule(f) => NoGranule(g)
  BY DEF NoGranule
<1>3. g.sub = f.sub /\ Looping(f) => Looping(g)
  BY SameRange DEF Looping, Sizable
<1>4. g.best = f.best /\ Selected(f) => Selected(g)
  BY <1>1, <1>2, SameRange DEF Selected
<1>5. g.best = f.best /\ BuildAny(f) => BuildAny(g)
  BY <1>4, SameRange DEF BuildAny
<1>6. g.best = f.best /\ g.sub = f.sub /\ BeforeAny(f) => BeforeAny(g)
  BY <1>1, <1>3 DEF BeforeAny
<1>7. g.best = f.best /\ g.sub = f.sub /\ AfterAny(f) => AfterAny(g)
  BY <1>1, <1>3, SameRange DEF AfterAny, LatestWins
<1> QED
  BY <1>1, <1>2, <1>3, <1>4, <1>5, <1>6, <1>7

(* A best candidate that has covered something has enabled subregions.     *)
LEMMA SomethingFound ==
    ASSUME NEW f \in Frames, Attempt(f, f.best), f.best.size # 0
    PROVE  NumSubregions(f, f.best.sub, f.best.base) > 0
<1>1. f.best.sub \in Nat \ {0} /\ f.best.base \in Addresses
  BY Constants DEF Attempt, Frames, Candidates
<1>2. NumSubregions(f, f.best.sub, f.best.base) \in 0 .. 8
  BY <1>1, SelectionTypes
<1>3. NumSubregions(f, f.best.sub, f.best.base) # 0
  BY <1>1, NoneCovered DEF Attempt
<1> QED
  BY <1>2, <1>3

(* A try of the smallest size that finds nothing has no subregions.        *)
LEMMA NothingFound ==
    ASSUME Roomy, NEW f \in Frames, NEW base \in Addresses,
           ActualSize(f, Granule, base) = 0
    PROVE  NumSubregions(f, Granule, base) = 0
<1> DEFINE k == NumSubregions(f, Granule, base)
           b == k * Granule
<1>1. Granule \in Nat \ {0} /\ WordSize \in Nat /\ 32 * Granule <= WordSize
  BY Constants DEF Roomy
<1>2. k \in Nat /\ k <= 8 /\ Wrap(b) = 0
  BY <1>1, SelectionTypes DEF ActualSize
<1> HIDE DEF k
<1>3. b \in Nat /\ b <= 8 * Granule
  BY <1>1, <1>2, ProductMonotonic
<1>4. b \in Addresses /\ b \in Int
  <2> HIDE DEF b
  <2> QED
    BY <1>1, <1>3 DEF Addresses
<1>5. b = 0
  BY <1>2, <1>4, WrapAddress
<1>6. k = 0
  <2> SUFFICES ASSUME 1 <= k PROVE FALSE
    BY <1>2
  <2>1. 1 * Granule <= k * Granule
    BY <1>1, <1>2, ProductMonotonic
  <2> QED
    BY <1>1, <1>5, <2>1
<1> QED
  BY <1>6 DEF k

(* Leaving the loop with a region used as a whole.                         *)
LEMMA WholeSelects ==
    ASSUME NEW f \in Frames, f.sub \in PowersOfTwo, Granule <= f.sub, Sizable(f, f.sub),
           NEW base \in {RegionBefore(f, f.sub), RegionAfter(f, f.sub)},
           SubregionsMask(f, f.sub, base) = {},
           NEW g \in Frames, g.start = f.start, g.end = f.end, g.sub = f.sub,
           g.best = Better(f, base), LatestWins(g)
    PROVE  Selected(g)
<1> DEFINE sub == f.sub
           size == g.best.size
           actual == ActualSize(f, sub, base)
<1>1. sub \in Nat \ {0} /\ WordSize \in Nat /\ base \in Addresses /\ sub \in PowersOfTwo
  BY Constants, RegionTypes
<1>2. FirstSubregion(f, sub, base) = 0 /\ NumSubregions(f, sub, base) = 8
  BY <1>1, WholeRegion
<1>3. 8 * sub <= WordSize
  <2>1. CASE 8 * sub <= WordSize
    BY <2>1
  <2>2. CASE f.start + sub <= WordSize
    <3>1. base + 0 * sub + 8 * sub <= WordSize
      BY <1>2, <2>2, TryBounds DEF Covers
    <3>2. base \in Nat
      BY <1>1 DEF Addresses
    <3> HIDE DEF sub
    <3> QED
      BY <1>1, <3>1, <3>2
  <2> QED
    BY <2>1, <2>2 DEF Sizable
<1>4. Attempt(g, g.best)
  BY DEF LatestWins
<1>5. CASE 8 * sub >= WordSize
  <2>1. g.best.sub = sub
    BY <1>5 DEF LatestWins
  <2>2. RegionSize(sub) = 0
    BY <1>1, <1>5, RegionSizes
  <2>3. base = 0 /\ g.best.base = 0
    BY <1>4, <2>1, <2>2 DEF Attempt, RegionBefore, RegionAfter, AlignUp, AlignDown
  <2>4. NumSubregions(g, g.best.sub, g.best.base) = 8
    BY <1>2, <2>1, <2>3, SameRange
  <2> QED
    BY <1>3, <1>4, <2>1, <2>4 DEF Selected
<1>6. CASE ~(8 * sub >= WordSize)
  <2>1. 8 * g.best.sub <= WordSize
    BY <1>6 DEF LatestWins
  <2>2. actual = 8 * sub
    <3>1. actual = Wrap(8 * sub)
      BY <1>2 DEF ActualSize
    <3>2. 8 * sub \in Addresses /\ 8 * sub \in Int
      <4> HIDE DEF sub
      <4> QED
        BY <1>1, <1>6 DEF Addresses
    <3> QED
      BY <3>1, <3>2, WrapAddress
  <2>3. size >= actual
    BY <1>1, BetterCovers
  <2>4. size # 0
    <3> HIDE DEF size, actual, sub
    <3> QED
      BY <1>1, <2>2, <2>3
  <2> QED
    BY <1>4, <2>1, <2>4, SomethingFound DEF Selected
<1> QED
  BY <1>5, <1>6

(* Leaving a size behind: the next one is half of it, or the loop ends.    *)
LEMMA HalveAny ==
    ASSUME NEW f \in Frames, Looping(f), LatestWins(f),
           f.sub \in PowersOfTwo, Granule <= f.sub,
           f.sub = Granule /\ f.best.size = 0 => NoGranule(f)
    PROVE  /\ HalveSize(f).pc = "before" => BeforeAny(HalveSize(f))
           /\ HalveSize(f).pc = "build" => BuildAny(HalveSize(f))
<1> DEFINE h == HalveSize(f)
           sub == f.sub
           half == sub \div 2
<1>1. /\ sub \in Nat \ {0} /\ sub \in PowersOfTwo /\ sub # 1 /\ WordSize \in Nat
      /\ Granule \in Nat \ {0} /\ Granule >= 2 /\ Granule <= sub
      /\ 8 * Granule <= WordSize
  <2>1. sub \in Nat \ {0} /\ sub \in PowersOfTwo /\ Granule <= sub
    BY Constants
  <2> HIDE DEF sub
  <2> QED
    BY <2>1, Constants
<1>2. half \in PowersOfTwo /\ sub = 2 * half /\ half \in Nat
  BY <1>1, HalfPower, Constants
<1>3. /\ h.start = f.start /\ h.end = f.end /\ h.best = f.best /\ h.sub = half
      /\ h.pc = IF half >= Granule THEN "before" ELSE "build"
  BY DEF HalveSize, Frames
<1>4. ~IsFullRange(f) /\ Attempt(f, f.best)
  BY DEF Looping, LatestWins
<1>5. Attempt(h, h.best) /\ ~IsFullRange(h)
  <2> HIDE DEF h
  <2> QED
    BY <1>3, <1>4, SameCover, SameRange
<1>6. f.start \in Nat /\ f.best.sub \in Nat
  BY DEF Frames, Candidates, Addresses
<1>7. IF 8 * sub >= WordSize THEN f.best.sub = sub ELSE 8 * f.best.sub <= WordSize
  BY DEF LatestWins
<1> HIDE DEF h
<1>8. CASE half >= Granule
  <2>1. Looping(h)
    <3>1. Sizable(f, half)
      <4> DEFINE start == f.start
      <4>1. 8 * sub <= WordSize \/ start + sub <= WordSize
        BY DEF Looping, Sizable
      <4>2. 8 * half <= WordSize \/ start + half <= WordSize
        <5> HIDE DEF start, sub, half
        <5> QED
          BY <1>1, <1>2, <1>6, <4>1 DEF start
      <4> QED
        BY <4>2 DEF Sizable
    <3> QED
      BY <1>3, <1>5, <3>1 DEF Looping, Sizable
  <2>2. IF 8 * half >= WordSize THEN f.best.sub = 2 * half ELSE 8 * f.best.sub <= WordSize
    <3>1. CASE 8 * half >= WordSize
      <4>1. 8 * sub >= WordSize
        <5> HIDE DEF sub, half
        <5> QED
          BY <1>1, <1>2, <3>1
      <4> QED
        BY <1>2, <1>7, <3>1, <4>1
    <3>2. CASE ~(8 * half >= WordSize) /\ 8 * sub >= WordSize
      <4>1. 8 * half < WordSize
        <5> HIDE DEF half
        <5> QED
          BY <1>1, <1>2, <3>2
      <4>2. 8 * sub = WordSize
        BY <1>1, <3>2, <4>1, EighthOnly
      <4> HIDE DEF sub, half
      <4> QED
        BY <1>1, <1>7, <3>2, <4>2
    <3>3. CASE ~(8 * half >= WordSize) /\ ~(8 * sub >= WordSize)
      BY <1>7, <3>3
    <3> QED
      BY <3>1, <3>2, <3>3
  <2>3. BeforeAny(h)
    BY <1>3, <1>5, <2>1, <2>2 DEF BeforeAny
  <2> QED
    BY <1>3, <1>8, <2>3 DEF h
<1>9. CASE ~(half >= Granule)
  <2>1. half < Granule
    <3> HIDE DEF half
    <3> QED
      BY <1>1, <1>2, <1>9
  <2>2. sub = Granule
    BY <1>1, <2>1, GranuleIsLast
  <2>3. 8 * f.best.sub <= WordSize
    BY <1>1, <1>7, <2>2
  <2>4. NumSubregions(f, f.best.sub, f.best.base) > 0 \/ NoGranule(f)
    BY <1>4, <2>2, SomethingFound
  <2>5. Selected(f)
    BY <1>4, <2>3, <2>4 DEF Selected
  <2>6. BuildAny(h)
    BY <1>3, <1>5, <2>5, SameCover DEF BuildAny
  <2> QED
    BY <1>3, <1>9, <2>6 DEF h
<1> QED
  BY <1>8, <1>9

(* The try of the region before start.                                     *)
LEMMA BeforeCovers ==
    ASSUME Roomy, NEW f \in Frames, BeforeAny(f),
           f.sub \in PowersOfTwo, Granule <= f.sub,
           NEW base, base = RegionBefore(f, f.sub),
           NEW g \in Frames, g.start = f.start, g.end = f.end, g.sub = f.sub,
           g.best = Better(f, base)
    PROVE  /\ Looping(g) /\ LatestWins(g)
           /\ SubregionsMask(f, f.sub, base) = {} => BuildAny(g)
           /\ base # f.start => AfterAny(g)
           /\ base = f.start /\ g.sub = Granule /\ g.best.size = 0 => NoGranule(g)
<1>1. /\ g.start = f.start /\ g.end = f.end /\ g.sub = f.sub
      /\ g.best = Better(f, base)
  OBVIOUS
<1>2. /\ f.sub \in Nat \ {0} /\ f.sub > 0
      /\ base \in {RegionBefore(f, f.sub), RegionAfter(f, f.sub)} /\ base \in Addresses
  BY Constants, RegionTypes
<1>3. Looping(f) /\ ~IsFullRange(f) /\ Sizable(f, f.sub) /\ f.start + (Granule - 1) <= f.end
  BY DEF BeforeAny, Looping
<1>4. Looping(g)
  BY <1>1, <1>3, SameCover
<1>5. LatestWins(g)
  <2>1. \/ f.best = NoBest
        \/ /\ Attempt(f, f.best)
           /\ IF 8 * f.sub >= WordSize THEN f.best.sub \in {f.sub, 2 * f.sub}
              ELSE 8 * f.best.sub <= WordSize
    BY DEF BeforeAny
  <2> QED
    BY <1>1, <1>2, <1>3, <2>1, LatestTry
<1>6. ASSUME SubregionsMask(f, f.sub, base) = {} PROVE BuildAny(g)
  <2>1. Selected(g)
    BY <1>1, <1>2, <1>3, <1>5, <1>6, WholeSelects
  <2> QED
    BY <1>4, <2>1 DEF BuildAny, Looping
<1>7. ASSUME g.sub = Granule, g.best.size = 0
      PROVE  NumSubregions(f, Granule, RegionBefore(f, Granule)) = 0
  <2> DEFINE actual == ActualSize(f, f.sub, base)
  <2>1. actual \in Nat
    <3>1. actual \in Addresses
      BY <1>2, SelectionTypes
    <3> QED
      BY <3>1 DEF Addresses
  <2>2. g.best.size >= actual
    BY <1>1, <1>2, BetterCovers
  <2>3. actual = 0
    <3> HIDE DEF actual
    <3> QED
      BY <1>7, <2>1, <2>2
  <2> QED
    BY <1>1, <1>2, <1>7, <2>3, NothingFound
<1>8. ASSUME base # f.start PROVE AfterAny(g)
  <2>1. /\ RegionBefore(g, g.sub) = base
        /\ RegionBefore(g, Granule) = RegionBefore(f, Granule)
        /\ NumSubregions(g, Granule, RegionBefore(f, Granule))
             = NumSubregions(f, Granule, RegionBefore(f, Granule))
    BY <1>1, SameRange
  <2> QED
    BY <1>1, <1>4, <1>5, <1>7, <1>8, <2>1 DEF AfterAny
<1>9. ASSUME base = f.start, g.sub = Granule, g.best.size = 0 PROVE NoGranule(g)
  <2>1. NoGranule(f)
    BY <1>1, <1>3, <1>7, <1>9, GranuleTried
  <2> QED
    BY <1>1, <2>1, SameCover
<1> QED
  BY <1>4, <1>5, <1>6, <1>8, <1>9

(* The try of the region after start.                                      *)
LEMMA AfterCovers ==
    ASSUME Roomy, NEW f \in Frames, AfterAny(f),
           f.sub \in PowersOfTwo, Granule <= f.sub,
           NEW base, base = RegionAfter(f, f.sub),
           NEW g \in Frames, g.start = f.start, g.end = f.end, g.sub = f.sub,
           g.best = Better(f, base)
    PROVE  /\ Looping(g) /\ LatestWins(g)
           /\ SubregionsMask(f, f.sub, base) = {} => BuildAny(g)
           /\ g.sub = Granule /\ g.best.size = 0 => NoGranule(g)
<1>1. /\ g.start = f.start /\ g.end = f.end /\ g.sub = f.sub
      /\ g.best = Better(f, base)
  OBVIOUS
<1>2. /\ f.sub \in Nat \ {0} /\ f.sub > 0
      /\ base \in {RegionBefore(f, f.sub), RegionAfter(f, f.sub)} /\ base \in Addresses
  BY Constants, RegionTypes
<1>3. Looping(f) /\ ~IsFullRange(f) /\ Sizable(f, f.sub) /\ f.start + (Granule - 1) <= f.end
  BY DEF AfterAny, Looping
<1>4. Looping(g)
  BY <1>1, <1>3, SameCover
<1>5. LatestWins(g)
  <2>1. /\ Attempt(f, f.best)
        /\ IF 8 * f.sub >= WordSize THEN f.best.sub \in {f.sub, 2 * f.sub}
           ELSE 8 * f.best.sub <= WordSize
    BY DEF AfterAny, LatestWins
  <2> QED
    BY <1>1, <1>2, <1>3, <2>1, LatestTry
<1>6. ASSUME SubregionsMask(f, f.sub, base) = {} PROVE BuildAny(g)
  <2>1. Selected(g)
    BY <1>1, <1>2, <1>3, <1>5, <1>6, WholeSelects
  <2> QED
    BY <1>4, <2>1 DEF BuildAny, Looping
<1>7. ASSUME g.sub = Granule, g.best.size = 0 PROVE NoGranule(g)
  <2> DEFINE actual == ActualSize(f, f.sub, base)
             old == f.best.size
  <2>1. actual \in Nat /\ old \in Nat
    <3>1. actual \in Addresses
      BY <1>2, SelectionTypes
    <3>2. old \in Addresses
      BY DEF Frames, Candidates
    <3> QED
      BY <3>1, <3>2 DEF Addresses
  <2>2. g.best.size >= actual /\ g.best.size >= old
    BY <1>1, <1>2, BetterCovers
  <2>3. actual = 0 /\ old = 0
    <3> HIDE DEF actual, old
    <3> QED
      BY <1>7, <2>1, <2>2
  <2>4. NumSubregions(f, Granule, RegionAfter(f, Granule)) = 0
    BY <1>1, <1>2, <1>7, <2>3, NothingFound
  <2>5. NumSubregions(f, Granule, RegionBefore(f, Granule)) = 0
    BY <1>1, <1>7, <2>3 DEF AfterAny
  <2>6. NoGranule(f)
    BY <1>3, <2>4, <2>5, GranuleTried
  <2> QED
    BY <1>1, <2>6, SameCover
<1> QED
  BY <1>4, <1>5, <1>6, <1>7

(* A range that is neither refused nor the whole address space.            *)
LEMMA StartCovers ==
    ASSUME Roomy, NEW f \in Frames, Ordered(f), ~TooSmall(f), ~IsFullRange(f), f.best = NoBest,
           NEW g, g.start = f.start, g.end = f.end, g.best = f.best,
           g.sub = MaxSubregionSize(f)
    PROVE  BeforeAny(g)
<1> DEFINE start == f.start
           end == f.end
           max == MaxSubregionSize(f)
<1>1. Granule \in Nat \ {0} /\ WordSize \in Nat \ {0} /\ 32 * Granule <= WordSize
  BY Constants DEF Roomy
<1>2. start \in Nat /\ end \in Nat /\ end < WordSize /\ start <= end
  <2>1. start \in Addresses /\ end \in Addresses /\ start <= end
    BY DEF Frames, Ordered
  <2> HIDE DEF start, end
  <2> QED
    BY <1>1, <2>1 DEF Addresses
<1>3. start + (Granule - 1) <= end
  <2>1. Wrap(end - start) >= Granule - 1
    <3>1. ~(Wrap(end - start) < Granule - 1)
      BY DEF TooSmall
    <3>2. Wrap(end - start) \in Nat
      <4>1. end - start \in Int
        BY <1>2
      <4> HIDE DEF start, end
      <4> QED
        BY <1>1, <4>1, DivMod DEF Wrap
    <3> HIDE DEF start, end
    <3> QED
      BY <1>1, <3>1, <3>2
  <2> HIDE DEF start, end
  <2>2. end - start \in Addresses /\ end - start \in Int
    BY <1>1, <1>2 DEF Addresses
  <2>3. Wrap(end - start) = end - start
    BY <2>2, WrapAddress
  <2> QED
    BY <1>1, <1>2, <2>1, <2>3
<1>4. 8 * max <= WordSize \/ start + max <= WordSize
  <2>1. start + max <= WordSize \/ max = 4 * Granule
    BY <1>2, MaxSubregionFits
  <2> HIDE DEF start, max
  <2> QED
    BY <1>1, <2>1
<1>5. Looping(g)
  <2>1. ~IsFullRange(g)
    BY SameRange
  <2> QED
    BY <1>3, <1>4, <2>1 DEF Looping, Sizable
<1> QED
  BY <1>5 DEF BeforeAny

------------------------------------------------------------------------------
(***************************************************************************)
(* The entry that is built covers what it does not leave to the children   *)
(***************************************************************************)
(* The entry of a selected candidate maps first .. next - 1, whole granules. *)
LEMMA SelectedCovers ==
    ASSUME NEW f \in Frames, Attempt(f, f.best), 8 * f.best.sub <= WordSize,
           NumSubregions(f, f.best.sub, f.best.base) > 0, ~IsFullRange(f)
    PROVE  \E first \in Nat, next \in Nat :
              /\ first = FirstAddr(f, f.best.sub, f.best.base)
              /\ NextAddr(f) = IF next = WordSize THEN 0 ELSE next
              /\ first < next /\ next <= WordSize
              /\ (first % Granule) = 0 /\ (next % Granule) = 0
              /\ first .. next - 1 \subseteq Mapped(BestEntry(f))
<1> DEFINE sub == f.best.sub
           base == f.best.base
           e == BestEntry(f)
           i == FirstSubregion(f, sub, base)
           l == LastSubregion(f, sub, base)
           k == NumSubregions(f, sub, base)
           a == i * sub
           b == k * sub
           first == base + a
           next == base + a + b
<1>1. /\ sub \in Nat \ {0} /\ sub \in PowersOfTwo /\ Granule <= sub /\ 8 * sub <= WordSize
      /\ WordSize \in Nat \ {0} /\ Granule \in Nat \ {0} /\ Granule \in PowersOfTwo
  BY Constants, WordAssumption DEF Attempt
<1>2. /\ base \in Addresses /\ base \in Nat /\ (base % (8 * sub)) = 0
      /\ base + 8 * sub <= WordSize
  <2>1. base \in Addresses /\ (base % (8 * sub)) = 0 /\ base + 8 * sub <= WordSize
    BY <1>1, AlignedBases DEF Attempt
  <2> HIDE DEF base
  <2> QED
    BY <2>1 DEF Addresses
<1>3. i \in Nat /\ l \in 0 .. 7 /\ k \in 1 .. 8 /\ i + k <= 8
  <2>1. i \in Nat /\ l \in 0 .. 7 /\ k \in 0 .. 8 /\ k > 0
    BY <1>1, <1>2, SelectionTypes
  <2>2. k = l - i + 1
    BY DEF NumSubregions
  <2> HIDE DEF i, l, k
  <2> QED
    BY <2>1, <2>2
<1>4. /\ SubregionBytes(e) = sub /\ RegionBase(e) = base
  BY <1>1, <1>2, BestEntryRegion
<1>5. e.srd = Subregions \ (i .. i + k - 1)
  BY DEF BestEntry, SubregionsMask
<1>6. FirstAddr(f, sub, base) = Wrap(first)
  BY DEF FirstAddr
<1>7. NextAddr(f) = Wrap(FirstAddr(f, sub, base) + Wrap(b))
  BY DEF NextAddr, ActualSize
<1> HIDE DEF sub, base, e, i, l, k
<1>8. a \in Nat /\ b \in Nat /\ sub <= b /\ a + b <= 8 * sub
  <2>1. 1 * sub <= k * sub /\ (i + k) * sub <= 8 * sub
    <3>1. 1 <= k /\ k \in Nat /\ i + k \in Nat
      BY <1>3
    <3> QED
      BY <1>1, <1>3, <3>1, ProductMonotonic
  <2>2. (i + k) * sub = a + b /\ 1 * sub = sub /\ a \in Nat /\ b \in Nat
    BY <1>1, <1>3
  <2> QED
    BY <2>1, <2>2
<1>9. (a % Granule) = 0 /\ (b % Granule) = 0 /\ (base % Granule) = 0
  <2>1. (sub % Granule) = 0
    BY <1>1, PowerDivides
  <2>2. k \in Nat
    BY <1>3
  <2>3. (a % Granule) = 0 /\ (b % Granule) = 0
    BY <1>1, <1>3, <2>1, <2>2, MultipleProduct
  <2>4. base \in {RegionBefore(f, sub), RegionAfter(f, sub)}
    BY DEF Attempt, sub, base
  <2>5. ((8 * sub) % Granule) = 0
    BY <1>1, <2>1, MultipleProduct
  <2>6. (base % Granule) = 0
    <3> DEFINE size == 8 * sub
    <3>1. size \in Nat \ {0} /\ (size % Granule) = 0 /\ (base % size) = 0
      BY <1>1, <1>2, <2>5
    <3> HIDE DEF size
    <3>2. base \div size \in Nat /\ base = size * (base \div size)
      BY <1>2, <3>1, ExactQuotient
    <3> DEFINE q == base \div size
    <3>3. q \in Nat /\ base = q * size
      BY <3>1, <3>2
    <3> HIDE DEF q
    <3>4. ((q * size) % Granule) = 0
      BY <1>1, <3>1, <3>3, MultipleProduct
    <3> QED
      BY <3>3, <3>4
  <2> QED
    BY <2>3, <2>6
<1>10. base + a .. base + a + b - 1 \subseteq Mapped(e)
  <2>1. k \in Nat /\ e.srd \cap (i .. i + k - 1) = {}
    BY <1>3, <1>5
  <2> QED
    BY <1>1, <1>2, <1>3, <1>4, <2>1, MappedCovers
<1> HIDE DEF a, b
<1>11. first .. next - 1 \subseteq Mapped(e)
  <2>1. base + a + b - 1 = next - 1
    BY <1>2, <1>8
  <2> QED
    BY <1>10, <2>1
<1>12. /\ first \in Nat /\ next \in Nat /\ first < next /\ next <= WordSize
       /\ first \in Addresses /\ first \in Int
  BY <1>1, <1>2, <1>8 DEF Addresses
<1>13. (first % Granule) = 0 /\ (next % Granule) = 0
  <2>1. (first % Granule) = 0
    BY <1>1, <1>2, <1>8, <1>9, MultipleSum
  <2> HIDE DEF first
  <2>2. ((first + b) % Granule) = 0
    BY <1>1, <1>8, <1>9, <1>12, <2>1, MultipleSum
  <2>3. next = first + b
    BY DEF first
  <2> QED
    BY <2>1, <2>2, <2>3
<1>14. FirstAddr(f, sub, base) = first
  BY <1>6, <1>12, WrapAddress
<1>15. NextAddr(f) = IF next = WordSize THEN 0 ELSE next
  <2>1. (WordSize % WordSize) = 0 /\ 0 \in Addresses
    BY <1>1 DEF Addresses
  <2>2. CASE b = WordSize
    <3>1. Wrap(b) = 0
      BY <2>1, <2>2 DEF Wrap
    <3>2. first = 0 /\ next = WordSize /\ first + 0 = 0
      BY <1>1, <1>2, <1>8, <1>12, <2>2
    <3>3. NextAddr(f) = Wrap(0)
      BY <1>7, <1>14, <3>1, <3>2
    <3> QED
      BY <2>1, <3>2, <3>3, WrapAddress
  <2>3. CASE b # WordSize
    <3>1. b \in Addresses /\ b \in Int
      BY <1>1, <1>2, <1>8, <2>3 DEF Addresses
    <3>2. NextAddr(f) = Wrap(next)
      <4>1. Wrap(b) = b
        BY <3>1, WrapAddress
      <4> QED
        BY <1>7, <1>14, <4>1
    <3> HIDE DEF next
    <3>3. CASE next = WordSize
      BY <2>1, <3>2, <3>3 DEF Wrap
    <3>4. CASE next # WordSize
      <4>1. next \in Addresses /\ next \in Int
        BY <1>1, <1>12, <3>4 DEF Addresses
      <4> QED
        BY <3>2, <3>4, <4>1, WrapAddress
    <3> QED
      BY <3>3, <3>4
  <2> QED
    BY <2>2, <2>3
<1> HIDE DEF first, next
<1> QED
  BY <1>11, <1>12, <1>13, <1>14, <1>15 DEF sub, base, e

(* A granule lies to the left of first .. next - 1, inside it, or to the    *)
(* right of it.                                                            *)
LEMMA GranulesSplit ==
    ASSUME NEW g, g.start \in Addresses, g.end \in Addresses,
           NEW first \in Nat, NEW next \in Nat, first < next, next <= WordSize,
           (first % Granule) = 0, (next % Granule) = 0,
           g.left = first, g.right = IF next = WordSize THEN 0 ELSE next,
           NEW covered, first .. next - 1 \subseteq covered
    PROVE  WholeGranules(g.start, g.end)
             \subseteq LeftGranules(g) \cup covered \cup RightGranules(g)
<1> DEFINE start == g.start
           end == g.end
<1>1. /\ Granule \in Nat \ {0} /\ Granule >= 2 /\ WordSize \in Nat
      /\ Granule \in PowersOfTwo /\ Granule <= WordSize
  <2>1. Granule \in PowersOfTwo
    BY WordAssumption
  <2>2. Granule \in Nat \ {0} /\ Granule >= 2 /\ WordSize \in Nat /\ 8 * Granule <= WordSize
    BY Constants
  <2> QED
    BY <2>1, <2>2
<1>2. start \in Nat /\ end \in Nat /\ end < WordSize
  BY <1>1 DEF Addresses
<1> SUFFICES ASSUME NEW x \in Addresses, start <= GranuleOf(x), GranuleOf(x) + Granule - 1 <= end
             PROVE  x \in LeftGranules(g) \cup covered \cup RightGranules(g)
  BY DEF WholeGranules
<1> DEFINE y == GranuleOf(x)
<1>3. /\ x \in Nat /\ x < WordSize
      /\ y \in Nat /\ (y % Granule) = 0 /\ y <= x /\ x < y + Granule
      /\ start <= y /\ y + Granule - 1 <= end
  <2>1. x \in Nat /\ x < WordSize
    BY <1>1 DEF Addresses
  <2> QED
    BY <2>1, GranuleBounds
<1> HIDE DEF y
<1>4. CASE y < first
  <2>1. y + Granule <= first
    BY <1>1, <1>3, <1>4, MultipleGap
  <2>2. g.left > g.start
    BY <1>2, <1>3, <1>4
  <2>3. y + Granule - 1 <= first - 1
    BY <1>1, <1>3, <2>1
  <2>4. x \in WholeGranules(g.start, g.left - 1)
    BY <1>3, <2>3 DEF WholeGranules, y
  <2> QED
    BY <2>2, <2>4 DEF LeftGranules, NeedsLeft
<1>5. CASE first <= y /\ y < next
  <2>1. y + Granule <= next
    BY <1>1, <1>3, <1>5, MultipleGap
  <2>2. x \in first .. next - 1
    BY <1>1, <1>3, <1>5, <2>1
  <2> QED
    BY <2>2
<1>6. CASE next <= y
  <2>1. next < WordSize /\ next # WordSize
    BY <1>1, <1>3, <1>6
  <2>2. g.right = next
    BY <2>1
  <2>3. next < end /\ next # 0
    BY <1>1, <1>2, <1>3, <1>6
  <2>4. x \in WholeGranules(g.right, g.end)
    BY <1>3, <1>6, <2>2 DEF WholeGranules, y
  <2> QED
    BY <2>2, <2>3, <2>4 DEF RightGranules, NeedsRight
<1> QED
  BY <1>3, <1>4, <1>5, <1>6

(* The entry of the whole address space maps all of it.                    *)
LEMMA FullRangeCovers ==
    ASSUME NEW f \in Frames, IsFullRange(f), f.best = FullBest
    PROVE  /\ Addresses \subseteq Mapped(BestEntry(f))
           /\ RegionBytes(BestEntry(f)) = WordSize
           /\ BestEntry(f).base = RegionBase(BestEntry(f))
           /\ SubregionBytes(BestEntry(f)) = f.best.sub
<1> DEFINE sub == WordSize \div 8
           e == BestEntry(f)
           l == LastSubregion(f, sub, 0)
           b == l * sub
<1>1. f.best.sub = sub /\ f.best.base = 0 /\ f.start = 0 /\ f.end = WordSize - 1
  BY DEF FullBest, IsFullRange, LastAddress
<1>2. sub \in PowersOfTwo /\ sub \in Nat \ {0} /\ WordSize = 8 * sub /\ Granule <= sub
  BY EighthOfWord, Constants
<1>3. WordSize \in Nat \ {0} /\ Granule >= 2 /\ Granule \in Nat
  BY Constants
<1> HIDE DEF sub
<1>4. 0 \in Addresses /\ (0 % (8 * sub)) = 0 /\ 8 * sub <= WordSize
  BY <1>2, <1>3 DEF Addresses
<1>5. RegionBytes(e) = WordSize /\ RegionBase(e) = 0 /\ SubregionBytes(e) = sub
  BY <1>1, <1>2, <1>4, BestEntryRegion
<1>6. FirstSubregion(f, sub, 0) = 0
  BY <1>1 DEF FirstSubregion
<1>7. l = 7
  <2>1. 0 + sub - 1 <= f.end /\ sub \in Nat /\ sub >= 2
    BY <1>1, <1>2, <1>3
  <2>2. l \in 0 .. 7 /\ (l = 7 \/ 0 + b + 2 * sub > f.end + 2)
    BY <1>4, <2>1, LastSubregionBounds
  <2>3. ASSUME l <= 6 PROVE 0 + b + 2 * sub <= f.end + 2
    <3>1. l * sub <= 6 * sub
      <4>1. l \in Nat /\ 6 \in Nat
        BY <2>2
      <4> HIDE DEF l
      <4> QED
        BY <1>2, <2>3, <4>1, ProductMonotonic
    <3>2. b \in Nat /\ b <= 6 * sub
      BY <1>2, <2>2, <3>1
    <3> HIDE DEF b
    <3> QED
      BY <1>1, <1>2, <3>2
  <2>4. b \in Nat
    BY <1>2, <2>2
  <2>5. f.end \in Nat
    BY <1>1, <1>3
  <2> HIDE DEF l, b
  <2> QED
    BY <1>2, <2>2, <2>3, <2>4, <2>5
<1>8. NumSubregions(f, sub, 0) = 8
  <2>1. 0 + sub - 1 \in Addresses /\ 0 + sub - 1 \in Int
    BY <1>2, <1>3 DEF Addresses
  <2>2. Wrap(0 + sub - 1) = 0 + sub - 1
    BY <2>1, WrapAddress
  <2>3. ~(Wrap(0 + sub - 1) > f.end)
    BY <1>1, <1>2, <2>2
  <2> HIDE DEF l
  <2> QED
    BY <1>6, <1>7, <2>3 DEF NumSubregions, l
<1>9. e.srd = {} /\ e.base = 0
  BY <1>1, <1>6, <1>8 DEF BestEntry, SubregionsMask, Subregions
<1>10. 0 + 0 * sub .. 0 + 0 * sub + 8 * sub - 1 \subseteq Mapped(e)
  <2> DEFINE base == 0
             i == 0
             k == 8
  <2>1. base \in Nat /\ i \in Nat /\ k \in Nat /\ i + k <= 8 /\ e.srd \cap (i .. i + k - 1) = {}
        /\ RegionBase(e) = base
    BY <1>5, <1>9
  <2> HIDE DEF base, i, k, e
  <2>2. base + i * sub .. base + i * sub + k * sub - 1 \subseteq Mapped(e)
    BY <1>2, <1>5, <2>1, MappedCovers
  <2> QED
    BY <2>2 DEF base, i, k
<1>11. 0 + 0 * sub = 0 /\ 0 + 0 * sub + 8 * sub - 1 = WordSize - 1
  BY <1>2
<1>12. Addresses \subseteq Mapped(e)
  BY <1>10, <1>11 DEF Addresses
<1> QED
  BY <1>1, <1>5, <1>9, <1>12

(* The selected entry has the subregions reckoned with, and what it does   *)
(* not map of the range is left to the children.                           *)
LEMMA BuildCovers ==
    ASSUME NEW f \in Frames, BuildAny(f),
           NEW g, g.start = f.start, g.end = f.end, g.best = f.best,
           g.table = <<BestEntry(f)>>,
           g.left = FirstAddr(f, f.best.sub, f.best.base), g.right = NextAddr(f)
    PROVE  /\ Reckoned(g) /\ Sized(BestEntry(f))
           /\ WholeGranules(g.start, g.end)
                \subseteq LeftGranules(g) \cup MappedBy(g.table) \cup RightGranules(g)
<1> DEFINE e == BestEntry(f)
<1>1. g.table[1] = e /\ MappedBy(g.table) = Mapped(e)
  <2>1. DOMAIN g.table = {1} /\ g.table[1] = e
    OBVIOUS
  <2> QED
    BY <2>1 DEF MappedBy
<1>2. WordSize \in PowersOfTwo /\ 8 * Granule <= WordSize /\ WordSize \in Nat /\ Granule \in Nat \ {0}
  BY WordAssumption, Constants
<1>3. CASE IsFullRange(f) /\ f.best = FullBest
  <2>1. /\ Addresses \subseteq Mapped(e) /\ RegionBytes(e) = WordSize
        /\ e.base = RegionBase(e) /\ SubregionBytes(e) = f.best.sub
    BY <1>3, FullRangeCovers
  <2> HIDE DEF e
  <2>2. WholeGranules(g.start, g.end) \subseteq Addresses
    BY DEF WholeGranules
  <2> QED
    BY <1>1, <1>2, <2>1, <2>2 DEF Reckoned, Sized, e
<1>4. CASE ~IsFullRange(f) /\ Selected(f)
  <2> DEFINE sub == f.best.sub
             base == f.best.base
  <2>1. /\ Attempt(f, f.best) /\ sub \in PowersOfTwo /\ 8 * sub <= WordSize /\ Granule <= sub
        /\ sub \in Nat \ {0}
    BY <1>4, Constants DEF Selected, Attempt
  <2>2. base \in Addresses /\ (base % (8 * sub)) = 0
    BY <2>1, AlignedBases DEF Attempt
  <2>3. RegionBytes(e) = 8 * sub /\ RegionBase(e) = base /\ SubregionBytes(e) = sub
    BY <2>1, <2>2, BestEntryRegion
  <2>4. e.base = base
    BY DEF BestEntry
  <2>5. 8 * Granule <= 8 * sub /\ 8 * sub \in PowersOfTwo
    <3>1. 8 * sub \in PowersOfTwo
      BY <2>1, EightFold
    <3> HIDE DEF sub
    <3> QED
      BY <1>2, <2>1, <3>1
  <2>6. Reckoned(g) /\ Sized(e)
    <3> HIDE DEF e
    <3> QED
      BY <1>1, <2>3, <2>4, <2>5 DEF Reckoned, Sized
  <2>7. WholeGranules(g.start, g.end)
           \subseteq LeftGranules(g) \cup MappedBy(g.table) \cup RightGranules(g)
    <3>1. CASE NoGranule(f)
      BY <3>1 DEF NoGranule
    <3>2. CASE NumSubregions(f, sub, base) > 0
      <4>1. PICK first \in Nat, next \in Nat :
              /\ first = FirstAddr(f, f.best.sub, f.best.base)
              /\ NextAddr(f) = IF next = WordSize THEN 0 ELSE next
              /\ first < next /\ next <= WordSize
              /\ (first % Granule) = 0 /\ (next % Granule) = 0
              /\ first .. next - 1 \subseteq Mapped(BestEntry(f))
        BY <1>4, <2>1, <3>2, SelectedCovers
      <4>2. /\ g.left = first /\ g.right = IF next = WordSize THEN 0 ELSE next
            /\ g.start \in Addresses /\ g.end \in Addresses
        BY <4>1 DEF Frames
      <4> DEFINE covered == MappedBy(g.table)
      <4>3. first .. next - 1 \subseteq covered
        BY <1>1, <4>1
      <4> HIDE DEF covered
      <4>4. WholeGranules(g.start, g.end)
              \subseteq LeftGranules(g) \cup covered \cup RightGranules(g)
        BY <4>1, <4>2, <4>3, GranulesSplit
      <4> QED
        BY <4>4 DEF covered
    <3> QED
      BY <1>4, <3>1, <3>2 DEF Selected
  <2> QED
    BY <2>6, <2>7
<1> QED
  BY <1>3, <1>4 DEF BuildAny

------------------------------------------------------------------------------
(***************************************************************************)
(* The children's entries                                                  *)
(***************************************************************************)
(* A range that is refused for its size holds no granule.                  *)
LEMMA TooSmallEmpty ==
    ASSUME NEW f \in Frames, Ordered(f), TooSmall(f)
    PROVE  NoGranule(f)
<1> DEFINE start == f.start
           end == f.end
<1>1. Granule \in Nat \ {0} /\ Granule >= 2 /\ WordSize \in Nat \ {0}
  BY Constants
<1>2. start \in Nat /\ end \in Nat /\ end < WordSize /\ start <= end
  <2>1. start \in Addresses /\ end \in Addresses /\ start <= end
    BY DEF Frames, Ordered
  <2> HIDE DEF start, end
  <2> QED
    BY <1>1, <2>1 DEF Addresses
<1>3. Wrap(end - start) < Granule - 1
  BY DEF TooSmall
<1>4. SUFFICES ASSUME NEW x \in Addresses, start <= GranuleOf(x),
                      GranuleOf(x) + Granule - 1 <= end
               PROVE  FALSE
  BY DEF NoGranule, WholeGranules
<1> DEFINE y == GranuleOf(x)
<1>5. y \in Nat /\ start <= y /\ y + Granule - 1 <= end
  <2>1. x \in Nat
    BY DEF Addresses
  <2> QED
    BY <1>4, <2>1, GranuleBounds
<1> HIDE DEF start, end, y
<1>6. end - start \in Addresses /\ end - start \in Int
  BY <1>1, <1>2 DEF Addresses
<1>7. Wrap(end - start) = end - start
  BY <1>6, WrapAddress
<1> QED
  BY <1>1, <1>2, <1>3, <1>5, <1>7

(* What a child of a calculator is left with.                              *)
LEMMA ChildOrdered ==
    ASSUME NEW f \in Frames, NEW child \in Frames, Waits(f, child)
    PROVE  Ordered(child)
<1>1. f.left \in Nat /\ f.start \in Nat /\ f.right \in Nat /\ f.end \in Nat
  BY DEF Frames, Addresses
<1> QED
  BY <1>1 DEF Waits, Ordered, NeedsLeft, NeedsRight

(* The copied entries map what the child mapped: all of its range, unless  *)
(* the parent's table is full.                                             *)
LEMMA CopyCovers ==
    ASSUME NEW f \in Frames, NEW child \in Frames, Len(f.table) <= MaxEntries,
           Waits(f, child), Ordered(f), CoverFrame(f), CoverFrame(child),
           child.pc = "return",
           \/ child.ok
           \/ child.table = <<>> /\ TooSmall(child)
           \/ Len(child.table) = MaxEntries,
           NEW g, g = WithChild(f, child)
    PROVE  /\ \A i \in DOMAIN g.table : Sized(g.table[i])
           /\ g.table # <<>>
           /\ Copied(f, child) = Len(child.table) =>
                 WholeGranules(f.start, f.end)
                    \subseteq IF f.pc = "copyLeft" THEN MappedBy(g.table) \cup RightGranules(f)
                              ELSE MappedBy(g.table)
<1> DEFINE n == Copied(f, child)
           m == Len(f.table)
<1>1. /\ f.table \in Seq(Entries) /\ child.table \in Seq(Entries) /\ f.number \in Nat
      /\ m \in Nat /\ Len(child.table) \in Nat /\ DOMAIN child.table = 1 .. Len(child.table)
      /\ n \in Nat /\ n <= Len(child.table)
  BY WithChildType, LenProperties DEF Frames
<1>2. /\ DOMAIN f.table = 1 .. m /\ DOMAIN g.table = 1 .. m + n
      /\ \A i \in 1 .. m : g.table[i] = f.table[i]
      /\ \A j \in 1 .. n :
            /\ j \in DOMAIN child.table
            /\ g.table[m + j] = Renumber(child.table[j], f.number + j - 1)
  BY WithChildTable
<1>3. f.pc \in RestPoints /\ f.table # <<>>
  BY DEF Waits, RestPoints, CoverFrame
<1>4. m \in Nat \ {0}
  <2>1. m # 0
    BY <1>1, <1>3, EmptySeq
  <2> QED
    BY <1>1, <2>1
<1>5. Ordered(child)
  BY ChildOrdered
<1>6. /\ \A i \in 1 .. m : Sized(f.table[i])
      /\ \A j \in DOMAIN child.table : Sized(child.table[j])
  BY <1>2, <1>5 DEF CoverFrame
<1> HIDE DEF m, n
<1>7. ASSUME NEW j \in 1 .. n
      PROVE  /\ m + j \in DOMAIN g.table
             /\ Mapped(g.table[m + j]) = Mapped(child.table[j])
             /\ Sized(g.table[m + j])
  <2>1. child.table[j] \in Entries /\ Sized(child.table[j]) /\ f.number + j - 1 \in Nat
        /\ m + j \in 1 .. m + n
    <3>1. j \in DOMAIN child.table /\ j \in Nat /\ j >= 1 /\ j <= n
      BY <1>1, <1>2, <1>7
    <3>2. child.table[j] \in Entries
      BY <1>1, <3>1
    <3> QED
      BY <1>1, <1>6, <3>1, <3>2
  <2>2. g.table[m + j] = Renumber(child.table[j], f.number + j - 1)
    BY <1>2
  <2>3. /\ Mapped(Renumber(child.table[j], f.number + j - 1)) = Mapped(child.table[j])
        /\ Sized(Renumber(child.table[j], f.number + j - 1))
    BY <2>1, RenumberMaps
  <2> QED
    BY <1>2, <2>1, <2>2, <2>3
<1>8. ASSUME NEW i \in DOMAIN g.table PROVE Sized(g.table[i])
  <2>1. CASE i \in 1 .. m
    BY <1>2, <1>6, <2>1
  <2>2. CASE i \notin 1 .. m
    <3>1. i - m \in 1 .. n /\ i = m + (i - m)
      BY <1>1, <1>2, <2>2
    <3> QED
      BY <1>7, <3>1
  <2> QED
    BY <2>1, <2>2
<1>9. g.table # <<>>
  <2>1. 1 \in DOMAIN g.table
    BY <1>1, <1>2, <1>4
  <2>2. DOMAIN <<>> = {}
    OBVIOUS
  <2> QED
    BY <2>1, <2>2
<1>10. MappedBy(f.table) \subseteq MappedBy(g.table)
  <2> SUFFICES ASSUME NEW i \in 1 .. m PROVE Mapped(f.table[i]) \subseteq MappedBy(g.table)
    BY <1>2 DEF MappedBy
  <2>1. i \in DOMAIN g.table /\ g.table[i] = f.table[i]
    BY <1>1, <1>2
  <2> QED
    BY <2>1 DEF MappedBy
<1>11. ASSUME n = Len(child.table)
       PROVE  WholeGranules(child.start, child.end) \subseteq MappedBy(g.table)
  <2>1. MappedBy(child.table) \subseteq MappedBy(g.table)
    <3> SUFFICES ASSUME NEW j \in 1 .. n PROVE Mapped(child.table[j]) \subseteq MappedBy(g.table)
      BY <1>1, <1>11 DEF MappedBy
    <3>1. m + j \in DOMAIN g.table /\ Mapped(g.table[m + j]) = Mapped(child.table[j])
      BY <1>7
    <3> QED
      BY <3>1 DEF MappedBy
  <2>2. CASE child.ok
    BY <1>5, <2>1, <2>2 DEF CoverFrame, CoverPoint
  <2>3. CASE TooSmall(child)
    BY <1>5, <2>3, TooSmallEmpty DEF NoGranule
  <2>4. CASE Len(child.table) = MaxEntries
    <3>1. n = IF Len(child.table) <= MaxEntries - m THEN Len(child.table) ELSE MaxEntries - m
      BY DEF n, m, Copied
    <3>2. MaxEntries \in Nat
      BY CalculatorAssumption, RegionAssumption
    <3> QED
      BY <1>4, <1>11, <2>4, <3>1, <3>2
  <2> QED
    BY <2>2, <2>3, <2>4
<1>12. ASSUME n = Len(child.table)
       PROVE  WholeGranules(f.start, f.end)
                 \subseteq IF f.pc = "copyLeft" THEN MappedBy(g.table) \cup RightGranules(f)
                           ELSE MappedBy(g.table)
  <2>1. WholeGranules(child.start, child.end) \subseteq MappedBy(g.table)
    BY <1>11, <1>12
  <2> DEFINE new == MappedBy(g.table)
             old == MappedBy(f.table)
             all == WholeGranules(f.start, f.end)
             given == WholeGranules(child.start, child.end)
  <2>2. CASE f.pc = "copyLeft"
    <3>1. LeftGranules(f) = given
      BY <2>2 DEF Waits, LeftGranules
    <3>2. all \subseteq LeftGranules(f) \cup old \cup RightGranules(f)
      BY <2>2 DEF CoverFrame, CoverPoint
    <3> HIDE DEF new, old, all, given
    <3>3. all \subseteq new \cup RightGranules(f)
      BY <1>10, <2>1, <3>1, <3>2 DEF new, old, given
    <3> QED
      BY <2>2, <3>3 DEF all, new
  <2>3. CASE f.pc # "copyLeft"
    <3>1. f.pc = "copyRight" /\ RightGranules(f) = given
      BY <2>3 DEF Waits, RightGranules
    <3>2. all \subseteq old \cup RightGranules(f)
      BY <3>1 DEF CoverFrame, CoverPoint
    <3> HIDE DEF new, old, all, given
    <3>3. all \subseteq new
      BY <1>10, <2>1, <3>1, <3>2 DEF new, old, given
    <3> QED
      BY <2>3, <3>3 DEF all, new
  <2> QED
    BY <2>2, <2>3
<1> QED
  BY <1>8, <1>9, <1>12 DEF n

------------------------------------------------------------------------------
(***************************************************************************)
(* The invariant of coverage                                               *)
(***************************************************************************)
LEMMA SelectingCovers ==
    ASSUME NEW f, f.table = <<>>, f.pc \in {"before", "after", "build"},
           Ordered(f) => /\ f.pc = "before" => BeforeAny(f)
                         /\ f.pc = "after" => AfterAny(f)
                         /\ f.pc = "build" => BuildAny(f)
    PROVE  CoverFrame(f)
BY DEF CoverFrame, CoverPoint, Unbuilt, RestPoints

(* After a try the loop goes on with the next one, or ends.                *)
LEMMA TryCovers ==
    ASSUME NEW g \in Frames, g.table = <<>>,
           g.sub \in PowersOfTwo, Granule <= g.sub,
           Ordered(g) => Looping(g) /\ LatestWins(g),
           NEW h,
           \/ h = Goto(g, "build") /\ (Ordered(g) => BuildAny(g))
           \/ h = Goto(g, "after") /\ (Ordered(g) => AfterAny(g))
           \/ h = HalveSize(g) /\ (Ordered(g) /\ g.sub = Granule /\ g.best.size = 0 => NoGranule(g))
    PROVE  CoverFrame(h)
<1>1. CASE h = HalveSize(g)
      /\ (Ordered(g) /\ g.sub = Granule /\ g.best.size = 0 => NoGranule(g))
  <2>1. /\ h.start = g.start /\ h.end = g.end /\ h.table = <<>>
        /\ h.pc \in {"before", "build"}
    BY <1>1 DEF HalveSize, Frames
  <2>2. Ordered(h) => Ordered(g)
    BY <2>1 DEF Ordered
  <2>3. Ordered(g) => /\ h.pc = "before" => BeforeAny(h)
                      /\ h.pc = "build" => BuildAny(h)
    BY <1>1, HalveAny
  <2> QED
    BY <2>1, <2>2, <2>3, SelectingCovers
<1>2. ASSUME NEW label \in {"after", "build"}, h = Goto(g, label)
      PROVE  /\ h.start = g.start /\ h.end = g.end /\ h.table = <<>> /\ h.pc = label
             /\ Ordered(h) => Ordered(g)
             /\ AfterAny(g) => AfterAny(h)
             /\ BuildAny(g) => BuildAny(h)
  <2>1. /\ h.start = g.start /\ h.end = g.end /\ h.table = <<>> /\ h.pc = label
        /\ h.sub = g.sub /\ h.best = g.best
    BY <1>2 DEF Goto, Frames
  <2>2. Ordered(h) => Ordered(g)
    BY <2>1 DEF Ordered
  <2>3. (AfterAny(g) => AfterAny(h)) /\ (BuildAny(g) => BuildAny(h))
    BY <2>1, SameCover
  <2> QED
    BY <2>1, <2>2, <2>3
<1>3. CASE h = Goto(g, "build") /\ (Ordered(g) => BuildAny(g))
  BY <1>2, <1>3, SelectingCovers
<1>4. CASE h = Goto(g, "after") /\ (Ordered(g) => AfterAny(g))
  BY <1>2, <1>4, SelectingCovers
<1> QED
  BY <1>1, <1>3, <1>4

LEMMA CoverInit == Init => CoverInv
<1> SUFFICES ASSUME Init PROVE CoverInv
  OBVIOUS
<1>1. frame.pc = "enter" /\ frame.table = <<>> /\ DOMAIN callers = {}
  BY DEF Init, NewFrame
<1>2. CoverFrame(frame)
  BY <1>1 DEF CoverFrame, CoverPoint, Unbuilt, RestPoints
<1> QED
  BY <1>1, <1>2 DEF CoverInv

(* The tries.                                                              *)
LEMMA TryStepCovers ==
    ASSUME Roomy, TypeInv, CoverInv, TryBefore \/ TryAfter
    PROVE  CoverFrame(frame')
<1>1. /\ frame \in Frames /\ CoverFrame(frame) /\ frame.pc \in {"before", "after"}
      /\ frame.sub \in PowersOfTwo /\ Granule <= frame.sub /\ frame.sub > 0
      /\ frame.best = NoBest \/ frame.best.sub > 0
  <2>1. frame.pc \in {"before", "after"} /\ SoundFrame(frame)
    BY DEF TryBefore, TryAfter, At, TypeInv
  <2>2. frame.sub \in PowersOfTwo /\ frame.sub >= Granule
    BY <2>1 DEF SoundFrame
  <2>3. frame.sub \in Nat \ {0} /\ Granule \in Nat
    BY <2>2, Constants
  <2> QED
    BY <2>1, <2>2, <2>3 DEF SoundFrame, CoverInv
<1>2. frame.table = <<>>
  BY <1>1 DEF CoverFrame, Unbuilt, Selecting
<1>3. ASSUME NEW base \in Addresses, NEW g, g = [frame EXCEPT !.best = Better(frame, base)]
      PROVE  /\ g \in Frames /\ g.start = frame.start /\ g.end = frame.end
             /\ g.sub = frame.sub /\ g.best = Better(frame, base) /\ g.table = <<>>
             /\ Ordered(g) => Ordered(frame)
  <2>1. Better(frame, base) \in Candidates
    BY <1>1, BetterType
  <2>2. /\ g \in Frames /\ g.start = frame.start /\ g.end = frame.end
        /\ g.sub = frame.sub /\ g.best = Better(frame, base) /\ g.table = <<>>
    BY <1>1, <1>2, <1>3, <2>1 DEF Frames
  <2> QED
    BY <2>2 DEF Ordered
<1>4. CASE TryBefore
  <2> DEFINE base == RegionBefore(frame, frame.sub)
             g == [frame EXCEPT !.best = Better(frame, base)]
  <2>1. base \in Addresses
    BY <1>1, RegionTypes, Constants
  <2>2. \/ SubregionsMask(frame, frame.sub, base) = {} /\ frame' = Goto(g, "build")
        \/ base # frame.start /\ frame' = Goto(g, "after")
        \/ base = frame.start /\ frame' = HalveSize(g)
    BY <1>4 DEF TryBefore, Local
  <2>3. Ordered(frame) => BeforeAny(frame)
    BY <1>1, <1>4 DEF CoverFrame, CoverPoint, TryBefore, At
  <2>4. /\ g \in Frames /\ g.start = frame.start /\ g.end = frame.end
        /\ g.sub = frame.sub /\ g.best = Better(frame, base) /\ g.table = <<>>
        /\ Ordered(g) => Ordered(frame)
    BY <1>3, <2>1
  <2> HIDE DEF g
  <2>5. ASSUME Ordered(g)
        PROVE  /\ Looping(g) /\ LatestWins(g)
               /\ SubregionsMask(frame, frame.sub, base) = {} => BuildAny(g)
               /\ base # frame.start => AfterAny(g)
               /\ base = frame.start /\ g.sub = Granule /\ g.best.size = 0 => NoGranule(g)
    BY <1>1, <2>3, <2>4, <2>5, BeforeCovers
  <2> HIDE DEF base
  <2> QED
    BY <1>1, <2>2, <2>4, <2>5, TryCovers
<1>5. CASE TryAfter
  <2> DEFINE base == RegionAfter(frame, frame.sub)
             g == [frame EXCEPT !.best = Better(frame, base)]
  <2>1. base \in Addresses
    BY <1>1, RegionTypes, Constants
  <2>2. \/ SubregionsMask(frame, frame.sub, base) = {} /\ frame' = Goto(g, "build")
        \/ frame' = HalveSize(g)
    BY <1>5 DEF TryAfter, Local
  <2>3. Ordered(frame) => AfterAny(frame)
    BY <1>1, <1>5 DEF CoverFrame, CoverPoint, TryAfter, At
  <2>4. /\ g \in Frames /\ g.start = frame.start /\ g.end = frame.end
        /\ g.sub = frame.sub /\ g.best = Better(frame, base) /\ g.table = <<>>
        /\ Ordered(g) => Ordered(frame)
    BY <1>3, <2>1
  <2> HIDE DEF g
  <2>5. ASSUME Ordered(g)
        PROVE  /\ Looping(g) /\ LatestWins(g)
               /\ SubregionsMask(frame, frame.sub, base) = {} => BuildAny(g)
               /\ g.sub = Granule /\ g.best.size = 0 => NoGranule(g)
    BY <1>1, <2>3, <2>4, <2>5, AfterCovers
  <2> HIDE DEF base
  <2> QED
    BY <1>1, <2>2, <2>4, <2>5, TryCovers
<1> QED
  BY <1>4, <1>5

(* Entering the selection.                                                 *)
LEMMA EnterCovers ==
    ASSUME Roomy, TypeInv, CoverInv, Refuse \/ SelectFullRange \/ StartSelection
    PROVE  CoverFrame(frame')
<1>1. frame \in Frames /\ frame.pc = "enter" /\ frame.best = NoBest /\ CoverFrame(frame)
  <2>1. frame.pc = "enter" /\ SoundFrame(frame)
    BY DEF Refuse, SelectFullRange, StartSelection, At, TypeInv
  <2> QED
    BY <2>1 DEF SoundFrame, CoverInv
<1>2. frame.table = <<>>
  BY <1>1 DEF CoverFrame, Unbuilt, Selecting
<1>3. CASE Refuse
  <2>1. frame'.pc = "return" /\ frame'.ok = FALSE /\ frame'.table = <<>>
    BY <1>1, <1>2, <1>3 DEF Refuse, Local, Return, Frames
  <2> QED
    BY <2>1 DEF CoverFrame, CoverPoint, Unbuilt, RestPoints, Selecting
<1>4. CASE SelectFullRange
  <2>1. /\ frame'.pc = "build" /\ frame'.table = <<>> /\ frame'.best = FullBest
        /\ frame'.start = frame.start /\ frame'.end = frame.end
    BY <1>1, <1>2, <1>4 DEF SelectFullRange, Local, Frames, FullBest
  <2>2. IsFullRange(frame')
    BY <1>4, <2>1 DEF SelectFullRange, IsFullRange
  <2>3. BuildAny(frame')
    BY <2>1, <2>2 DEF BuildAny
  <2> QED
    BY <2>1, <2>3, SelectingCovers
<1>5. CASE StartSelection
  <2>1. /\ frame'.pc = "before" /\ frame'.table = <<>> /\ frame'.best = frame.best
        /\ frame'.start = frame.start /\ frame'.end = frame.end
        /\ frame'.sub = MaxSubregionSize(frame)
    BY <1>1, <1>2, <1>5 DEF StartSelection, Local, Frames
  <2>2. ~TooSmall(frame) /\ ~IsFullRange(frame)
    BY <1>5 DEF StartSelection, Refused
  <2>3. Ordered(frame') => Ordered(frame)
    BY <2>1 DEF Ordered
  <2>4. Ordered(frame) => BeforeAny(frame')
    BY <1>1, <2>1, <2>2, StartCovers
  <2> QED
    BY <2>1, <2>3, <2>4, SelectingCovers
<1> QED
  BY <1>3, <1>4, <1>5

(* The entry is built.                                                     *)
LEMMA BuildStepCovers ==
    ASSUME TypeInv, CoverInv, Build
    PROVE  CoverFrame(frame')
<1> DEFINE e == BestEntry(frame)
<1>1. frame \in Frames /\ frame.pc = "build" /\ CoverFrame(frame)
  BY DEF Build, At, TypeInv, SoundFrame, CoverInv
<1>2. frame.table = <<>>
  BY <1>1 DEF CoverFrame, Unbuilt, Selecting
<1>3. frame' = [frame EXCEPT !.pc = "left", !.table = Append(frame.table, e),
                             !.number = frame.number + 1,
                             !.left = FirstAddr(frame, frame.best.sub, frame.best.base),
                             !.right = NextAddr(frame)]
  BY DEF Build, Local
<1> HIDE DEF e
<1>4. /\ frame'.start = frame.start /\ frame'.end = frame.end /\ frame'.pc = "left"
      /\ frame'.left = FirstAddr(frame, frame.best.sub, frame.best.base)
      /\ frame'.right = NextAddr(frame) /\ frame'.best = frame.best
      /\ frame'.table = <<e>>
  BY <1>1, <1>2, <1>3 DEF Frames
<1>5. Unbuilt(frame') /\ frame'.table # <<>>
  BY <1>4 DEF Unbuilt, Selecting
<1>6. ASSUME Ordered(frame')
      PROVE  CoverPoint(frame') /\ \A i \in DOMAIN frame'.table : Sized(frame'.table[i])
  <2>1. BuildAny(frame)
    BY <1>1, <1>4, <1>6 DEF Ordered, CoverFrame, CoverPoint
  <2>2. /\ Reckoned(frame') /\ Sized(e)
        /\ WholeGranules(frame'.start, frame'.end)
             \subseteq LeftGranules(frame') \cup MappedBy(frame'.table) \cup RightGranules(frame')
    BY <1>1, <1>4, <2>1, BuildCovers DEF e
  <2>3. \A i \in DOMAIN frame'.table : Sized(frame'.table[i])
    <3>1. DOMAIN frame'.table = {1} /\ frame'.table[1] = e
      BY <1>4
    <3> QED
      BY <2>2, <3>1
  <2> QED
    BY <1>4, <2>2, <2>3 DEF CoverPoint
<1> QED
  BY <1>5, <1>6 DEF CoverFrame

(* Moving on within a call.                                                *)
LEMMA GotoCovers ==
    ASSUME NEW f \in Frames, CoverFrame(f),
           NEW g,
           \/ f.pc = "left" /\ g = Goto(f, "copyLeft")
           \/ f.pc = "right" /\ g = Goto(f, "copyRight")
           \/ f.pc = "left" /\ ~NeedsLeft(f) /\ g = Goto(f, "right")
           \/ f.pc = "right" /\ ~NeedsRight(f) /\ g = Return(f, TRUE)
    PROVE  CoverFrame(g)
<1>1. /\ g.start = f.start /\ g.end = f.end /\ g.table = f.table
      /\ g.left = f.left /\ g.right = f.right
      /\ g.pc \in {"copyLeft", "copyRight", "right", "return"}
      /\ \/ f.pc = "left" /\ g.pc = "copyLeft"
         \/ f.pc = "right" /\ g.pc = "copyRight"
         \/ f.pc = "left" /\ ~NeedsLeft(f) /\ g.pc = "right"
         \/ f.pc = "right" /\ ~NeedsRight(f) /\ g.pc = "return"
  BY DEF Goto, Return, Frames
<1>2. LeftGranules(g) = LeftGranules(f) /\ RightGranules(g) = RightGranules(f)
  BY <1>1 DEF LeftGranules, RightGranules, NeedsLeft, NeedsRight
<1>3. f.table # <<>> /\ Unbuilt(g)
  BY <1>1 DEF CoverFrame, RestPoints, Unbuilt, Selecting
<1>4. ASSUME Ordered(g)
      PROVE  CoverPoint(g) /\ \A i \in DOMAIN g.table : Sized(g.table[i])
  <2>1. /\ CoverPoint(f) /\ \A i \in DOMAIN f.table : Sized(f.table[i])
    BY <1>1, <1>4 DEF Ordered, CoverFrame
  <2> DEFINE all == WholeGranules(f.start, f.end)
             mapped == MappedBy(f.table)
  <2>2. /\ f.pc = "left" => all \subseteq LeftGranules(f) \cup mapped \cup RightGranules(f)
        /\ f.pc = "right" => all \subseteq mapped \cup RightGranules(f)
    BY <2>1 DEF CoverPoint
  <2>3. /\ f.pc = "left" /\ ~NeedsLeft(f) => all \subseteq mapped \cup RightGranules(f)
        /\ f.pc = "right" /\ ~NeedsRight(f) => all \subseteq mapped
    <3>1. ~NeedsLeft(f) => LeftGranules(f) = {}
      BY DEF LeftGranules
    <3>2. ~NeedsRight(f) => RightGranules(f) = {}
      BY DEF RightGranules
    <3> HIDE DEF all, mapped
    <3> QED
      BY <2>2, <3>1, <3>2
  <2>4. WholeGranules(g.start, g.end) = all /\ MappedBy(g.table) = mapped
    BY <1>1
  <2> HIDE DEF all, mapped
  <2>5. CoverPoint(g)
    BY <1>1, <1>2, <2>2, <2>3, <2>4 DEF CoverPoint
  <2> QED
    BY <1>1, <2>1, <2>5
<1> QED
  BY <1>1, <1>3, <1>4 DEF CoverFrame

(* A child returns.                                                        *)
LEMMA CopyStepCovers ==
    ASSUME TypeInv, RangeInv, RegionsConsecutive, FailInv, CoverInv, CopyChild
    PROVE  CoverFrame(frame')
<1> DEFINE n == Len(callers)
           parent == callers[n]
           f == WithChild(parent, frame)
<1>1. n \in DOMAIN callers /\ n \in Nat \ {0}
  <2>1. callers \in Seq(Frames) /\ callers # <<>>
    BY DEF CopyChild, TypeInv, SoundCallers
  <2> QED
    BY <2>1, EmptySeq, LenProperties
<1>2. /\ frame \in Frames /\ CoverFrame(frame) /\ frame.pc = "return"
      /\ parent \in Frames /\ Len(parent.table) <= MaxEntries
      /\ parent.pc \in {"copyLeft", "copyRight"} /\ CoverFrame(parent)
      /\ Waits(parent, frame)
  BY <1>1 DEF TypeInv, SoundFrame, SoundCallers, CoverInv, RangeInv, CopyChild, At
<1>3. \/ frame.ok
      \/ frame.table = <<>> /\ TooSmall(frame)
      \/ Len(frame.table) = MaxEntries
  <2> SUFFICES ASSUME ~frame.ok, frame.table = <<>>, Refused(frame) PROVE TooSmall(frame)
    BY <1>2 DEF FailInv, FailsOnlyWhenFull, At
  <2>1. Len(frame.table) = 0
    BY EmptySeq
  <2>2. frame.number = 0
    <3>1. n + 1 # 1
      BY <1>1
    <3>2. frame.number = 0 + Len(frame.table)
      BY <3>1 DEF RegionsConsecutive, Numbered, FirstNumber
    <3> QED
      BY <2>1, <3>2
  <2>3. MaxEntries \in Nat \ {0}
    BY CalculatorAssumption, RegionAssumption
  <2> QED
    BY <2>1, <2>2, <2>3 DEF Refused
<1>4. /\ f \in Frames /\ f.start = parent.start /\ f.end = parent.end
      /\ f.right = parent.right /\ f.pc = parent.pc
  <2>1. f \in Frames
    BY <1>2, WithChildType
  <2> HIDE DEF parent
  <2> QED
    BY <1>2, <2>1 DEF WithChild, Frames
<1>5. ASSUME Ordered(parent)
      PROVE  /\ \A i \in DOMAIN f.table : Sized(f.table[i])
             /\ f.table # <<>>
             /\ Copied(parent, frame) = Len(frame.table) =>
                   WholeGranules(parent.start, parent.end)
                      \subseteq IF parent.pc = "copyLeft"
                                THEN MappedBy(f.table) \cup RightGranules(parent)
                                ELSE MappedBy(f.table)
  <2> HIDE DEF parent, f
  <2> QED
    BY <1>2, <1>3, <1>5, CopyCovers DEF f
<1>6. f.table # <<>>
  <2>1. /\ Len(f.table) = Len(parent.table) + Copied(parent, frame)
        /\ Copied(parent, frame) \in Nat /\ Len(parent.table) \in Nat
    BY <1>2, WithChildType, LenProperties DEF Frames
  <2>2. parent.table # <<>> /\ parent.table \in Seq(Entries)
    BY <1>2 DEF CoverFrame, RestPoints, Frames
  <2>3. Len(parent.table) # 0
    BY <2>2, EmptySeq
  <2>4. Len(f.table) # 0
    BY <2>1, <2>3
  <2> QED
    BY <2>4, EmptySeq
<1>7. Copied(parent, frame) <= Len(frame.table)
      /\ Copied(parent, frame) \in Nat /\ Len(frame.table) \in Nat
  BY <1>2, WithChildType, LenProperties DEF Frames
<1>8. \/ frame' = Return(f, FALSE)
      \/ /\ ~(Copied(parent, frame) < Len(frame.table))
         /\ \/ parent.pc = "copyLeft" /\ frame' = Goto(f, "right")
            \/ parent.pc # "copyLeft" /\ frame' = Return(f, TRUE)
  BY DEF CopyChild
<1>9. ~(Copied(parent, frame) < Len(frame.table)) => Copied(parent, frame) = Len(frame.table)
  BY <1>7
<1> HIDE DEF parent, f
<1>10. /\ frame'.start = f.start /\ frame'.end = f.end /\ frame'.table = f.table
       /\ frame'.right = f.right /\ frame'.pc \in {"right", "return"}
       /\ \/ frame'.pc = "return" /\ frame'.ok = FALSE
          \/ /\ Copied(parent, frame) = Len(frame.table)
             /\ \/ parent.pc = "copyLeft" /\ frame'.pc = "right"
                \/ parent.pc # "copyLeft" /\ frame'.pc = "return"
  BY <1>4, <1>8, <1>9 DEF Goto, Return, Frames
<1>11. Unbuilt(frame') /\ frame'.table # <<>>
  BY <1>6, <1>10 DEF Unbuilt, Selecting
<1>12. ASSUME Ordered(frame')
       PROVE  CoverPoint(frame') /\ \A i \in DOMAIN frame'.table : Sized(frame'.table[i])
  <2>1. Ordered(parent)
    BY <1>4, <1>10, <1>12 DEF Ordered
  <2>2. RightGranules(frame') = RightGranules(parent)
    BY <1>4, <1>10 DEF RightGranules, NeedsRight
  <2>3. CoverPoint(frame')
    BY <1>4, <1>5, <1>10, <2>1, <2>2 DEF CoverPoint
  <2> QED
    BY <1>5, <1>10, <2>1, <2>3
<1> QED
  BY <1>11, <1>12 DEF CoverFrame

LEMMA CoverStep ==
    ASSUME Roomy
    PROVE  TypeInv /\ RangeInv /\ RegionsConsecutive /\ FailInv /\ CoverInv /\ [Next]_vars
              => CoverInv'
<1> SUFFICES ASSUME TypeInv, RangeInv, RegionsConsecutive, FailInv, CoverInv, [Next]_vars
             PROVE  CoverInv'
  OBVIOUS
<1>1. frame \in Frames /\ CoverFrame(frame)
  BY DEF TypeInv, SoundFrame, CoverInv
<1>2. ASSUME NEW i \in DOMAIN callers' PROVE CoverFrame(callers'[i])
  <2>1. CASE \E j \in DOMAIN callers : callers'[i] = callers[j]
    BY <2>1 DEF CoverInv
  <2>2. CASE At("left") /\ callers'[i] = Goto(frame, "copyLeft")
    BY <1>1, <2>2, GotoCovers DEF At
  <2>3. CASE At("right") /\ callers'[i] = Goto(frame, "copyRight")
    BY <1>1, <2>3, GotoCovers DEF At
  <2> QED
    BY <2>1, <2>2, <2>3, CallersAfter
<1>3. CoverFrame(frame')
  <2>1. CASE UNCHANGED vars
    BY <1>1, <2>1 DEF vars
  <2>2. CASE Refuse \/ SelectFullRange \/ StartSelection
    BY <2>2, EnterCovers
  <2>3. CASE TryBefore \/ TryAfter
    BY <2>3, TryStepCovers
  <2>4. CASE Build
    BY <2>4, BuildStepCovers
  <2>5. CASE CallLeft \/ CallRight
    <3>1. frame'.pc = "enter" /\ frame'.table = <<>>
      BY <2>5 DEF CallLeft, CallRight, Call, NewFrame
    <3> QED
      BY <3>1 DEF CoverFrame, CoverPoint, Unbuilt, RestPoints
  <2>6. CASE SkipLeft
    BY <1>1, <2>6, GotoCovers DEF SkipLeft, Local, At
  <2>7. CASE SkipRight
    BY <1>1, <2>7, GotoCovers DEF SkipRight, Local, At
  <2>8. CASE CopyChild
    BY <2>8, CopyStepCovers
  <2> QED
    BY <2>1, <2>2, <2>3, <2>4, <2>5, <2>6, <2>7, <2>8 DEF Next
<1> QED
  BY <1>2, <1>3 DEF CoverInv

(* In every reachable state, of every calculator on the stack, and for any *)
(* alignment of its range: each granule of the range is mapped already, or *)
(* lies in what is left to a child that has not been called yet.           *)
THEOREM CoverKept ==
    ASSUME Roomy
    PROVE  Spec => []CoverInv
<1>1. TypeInv /\ RegionsConsecutive /\ [Next]_vars => RegionsConsecutive'
  BY NumberStep
<1>2. TypeInv /\ FailInv /\ [Next]_vars => FailInv'
  BY FailStep
<1>3. TypeInv /\ RangeInv /\ RegionsConsecutive /\ FailInv /\ CoverInv /\ [Next]_vars
         => CoverInv'
  BY CoverStep
<1>4. Init => FailInv
  BY DEF Init, NewFrame, FailInv, FailsOnlyWhenFull, At
<1> QED
  BY <1>1, <1>2, <1>3, <1>4, CoverInit, NumberInit, TypeCorrect, RangesKept, PTL DEF Spec

(* A call that returns true has mapped every whole granule of its range,   *)
(* although it ignores what its two recursive calls return.                *)
THEOREM RangeWhollyCovered ==
    ASSUME Roomy
    PROVE  Spec => []CoversWholeRange
<1>1. TypeInv /\ CoverInv => CoversWholeRange
  <2> SUFFICES ASSUME TypeInv, CoverInv, At("return"), frame.ok
               PROVE  WholeGranules(frame.start, frame.end) \subseteq MappedBy(frame.table)
    BY DEF CoversWholeRange
  <2>1. CASE Ordered(frame)
    BY <2>1 DEF CoverInv, CoverFrame, CoverPoint, At
  <2>2. CASE ~Ordered(frame)
    <3>1. frame.start \in Nat /\ frame.end \in Nat
      BY DEF TypeInv, SoundFrame, Frames, Addresses
    <3> SUFFICES ASSUME NEW x \in Addresses, frame.start <= GranuleOf(x),
                        GranuleOf(x) + Granule - 1 <= frame.end
                 PROVE  FALSE
      BY DEF WholeGranules
    <3>2. GranuleOf(x) \in Nat /\ Granule \in Nat \ {0}
      <4>1. x \in Nat
        BY DEF Addresses
      <4> QED
        BY <4>1, GranuleBounds, Constants
    <3> QED
      BY <2>2, <3>1, <3>2 DEF Ordered
  <2> QED
    BY <2>1, <2>2
<1> QED
  BY <1>1, CoverKept, TypeCorrect, PTL

(* A parent and what it becomes when its child returns.                    *)
LEMMA CopyFacts ==
    ASSUME TypeInv, CopyChild, NEW parent, parent = callers[Len(callers)],
           NEW f, f = WithChild(parent, frame)
    PROVE  /\ Len(callers) \in DOMAIN callers /\ Len(callers) \in Nat \ {0}
           /\ frame \in Frames /\ parent \in Frames /\ f \in Frames
           /\ Len(parent.table) <= MaxEntries /\ parent.pc \in {"copyLeft", "copyRight"}
           /\ frame'.start = parent.start /\ frame'.end = parent.end
           /\ frame'.table = f.table
           /\ f.start = parent.start /\ f.end = parent.end
           /\ \/ /\ Copied(parent, frame) < Len(frame.table)
                 /\ frame'.pc = "return" /\ frame'.ok = FALSE
              \/ /\ Copied(parent, frame) = Len(frame.table)
                 /\ frame'.pc = "right" \/ (frame'.pc = "return" /\ frame'.ok = TRUE)
<1> DEFINE n == Len(callers)
<1>1. n \in DOMAIN callers /\ n \in Nat \ {0}
  <2>1. callers \in Seq(Frames) /\ callers # <<>>
    BY DEF CopyChild, TypeInv, SoundCallers
  <2> QED
    BY <2>1, EmptySeq, LenProperties
<1>2. /\ frame \in Frames
      /\ parent \in Frames /\ Len(parent.table) <= MaxEntries
      /\ parent.pc \in {"copyLeft", "copyRight"}
  BY <1>1 DEF TypeInv, SoundFrame, SoundCallers
<1>3. /\ f \in Frames /\ f.start = parent.start /\ f.end = parent.end
  <2>1. f \in Frames
    BY <1>2, WithChildType
  <2> QED
    BY <1>2, <2>1 DEF WithChild, Frames
<1>4. Copied(parent, frame) <= Len(frame.table)
      /\ Copied(parent, frame) \in Nat /\ Len(frame.table) \in Nat
  BY <1>2, WithChildType, LenProperties DEF Frames
<1>5. \/ Copied(parent, frame) < Len(frame.table) /\ frame' = Return(f, FALSE)
      \/ /\ ~(Copied(parent, frame) < Len(frame.table))
         /\ frame' = Goto(f, "right") \/ frame' = Return(f, TRUE)
  BY DEF CopyChild
<1>6. ~(Copied(parent, frame) < Len(frame.table)) => Copied(parent, frame) = Len(frame.table)
  BY <1>4
<1>7. \A ok \in BOOLEAN :
         /\ Return(f, ok).start = f.start /\ Return(f, ok).end = f.end
         /\ Return(f, ok).table = f.table /\ Return(f, ok).pc = "return"
         /\ Return(f, ok).ok = ok
  BY <1>3 DEF Return, Frames
<1>8. /\ Goto(f, "right").start = f.start /\ Goto(f, "right").end = f.end
      /\ Goto(f, "right").table = f.table /\ Goto(f, "right").pc = "right"
  BY <1>3 DEF Goto, Frames
<1> QED
  BY <1>1, <1>2, <1>3, <1>5, <1>6, <1>7, <1>8

(* The first entry of every table has the subregions that were reckoned    *)
(* with, also after entries of children were copied behind it.             *)
LEMMA ReckonedStep ==
    ASSUME Roomy, TypeInv, CoverInv, EntryAsReckoned, [Next]_vars
    PROVE  EntryAsReckoned'
<1> DEFINE Kept(f) == f.table # <<>> /\ f.start <= f.end => Reckoned(f)
<1>1. /\ frame \in Frames /\ CoverFrame(frame) /\ Kept(frame)
      /\ \A i \in DOMAIN callers : Kept(callers[i])
  BY DEF TypeInv, SoundFrame, CoverInv, EntryAsReckoned, Calculators, Reckoned
<1>2. \A f, g : /\ Kept(f) /\ g.table = f.table /\ g.best = f.best
                /\ g.start = f.start /\ g.end = f.end
                => Kept(g)
  BY DEF Reckoned
<1>3. \A label : /\ Goto(frame, label).table = frame.table
                 /\ Goto(frame, label).best = frame.best
                 /\ Goto(frame, label).start = frame.start
                 /\ Goto(frame, label).end = frame.end
  BY <1>1 DEF Goto, Frames
<1>4. ASSUME NEW i \in DOMAIN callers' PROVE Kept(callers'[i])
  <2>1. CASE \E j \in DOMAIN callers : callers'[i] = callers[j]
    BY <1>1, <2>1
  <2>2. CASE \E label : callers'[i] = Goto(frame, label)
    <3> HIDE DEF Kept
    <3> QED
      BY <1>1, <1>2, <1>3, <2>2
  <2> QED
    BY <2>1, <2>2, CallersAfter
<1>5. Kept(frame')
  <2>1. CASE frame' = frame
    BY <1>1, <2>1
  <2>2. CASE frame.pc \in Selecting /\ frame'.table = frame.table
    BY <1>1, <2>2 DEF CoverFrame, Unbuilt
  <2>3. CASE Build
    <3>1. frame.pc = "build" /\ frame.table = <<>>
      BY <1>1, <2>3 DEF Build, At, CoverFrame, Unbuilt, Selecting
    <3>2. /\ frame'.start = frame.start /\ frame'.end = frame.end
          /\ frame'.left = FirstAddr(frame, frame.best.sub, frame.best.base)
          /\ frame'.right = NextAddr(frame) /\ frame'.best = frame.best
          /\ frame'.table = <<BestEntry(frame)>>
      BY <1>1, <2>3, <3>1 DEF Build, Local, Frames
    <3>3. Ordered(frame) => BuildAny(frame)
      BY <1>1, <3>1 DEF CoverFrame, CoverPoint
    <3>4. Ordered(frame) => Reckoned(frame')
      BY <1>1, <3>2, <3>3, BuildCovers
    <3> QED
      BY <3>2, <3>4 DEF Ordered
  <2>4. CASE \E s, e : frame' = NewFrame(s, e, 0)
    BY <2>4 DEF NewFrame
  <2>5. CASE frame' = Goto(frame, "right")
    <3> HIDE DEF Kept
    <3> QED
      BY <1>1, <1>2, <1>3, <2>5
  <2>6. CASE frame' = Return(frame, TRUE)
    <3>1. /\ frame'.table = frame.table /\ frame'.best = frame.best
          /\ frame'.start = frame.start /\ frame'.end = frame.end
      BY <1>1, <2>6 DEF Return, Frames
    <3> HIDE DEF Kept
    <3> QED
      BY <1>1, <1>2, <3>1
  <2>7. CASE CopyChild
    <3> DEFINE parent == callers[Len(callers)]
               f == WithChild(parent, frame)
    <3>1. /\ Len(callers) \in DOMAIN callers
          /\ frame \in Frames /\ parent \in Frames /\ f \in Frames
          /\ Len(parent.table) <= MaxEntries /\ parent.pc \in {"copyLeft", "copyRight"}
          /\ frame'.start = parent.start /\ frame'.end = parent.end
          /\ frame'.table = f.table
      BY <2>7, CopyFacts
    <3>2. Kept(parent) /\ CoverFrame(parent)
      BY <1>1, <3>1 DEF CoverInv
    <3>3. parent.table # <<>> /\ Len(parent.table) \in Nat \ {0}
      <4>1. parent.table # <<>>
        BY <3>1, <3>2 DEF CoverFrame, RestPoints
      <4> QED
        BY <3>1, <4>1, EmptySeq, LenProperties DEF Frames
    <3>4. f.table[1] = parent.table[1]
      <4>1. \A i \in 1 .. Len(parent.table) : f.table[i] = parent.table[i]
        BY <3>1, WithChildTable
      <4> HIDE DEF f, parent
      <4> QED
        BY <3>3, <4>1
    <3>5. f.best = parent.best
      BY <3>1 DEF WithChild, Frames
    <3>6. frame' = Return(f, FALSE) \/ frame' = Goto(f, "right") \/ frame' = Return(f, TRUE)
      BY <2>7 DEF CopyChild
    <3> HIDE DEF f, parent
    <3>7. frame'.best = f.best
      BY <3>1, <3>6 DEF Goto, Return, Frames
    <3> QED
      BY <3>1, <3>2, <3>3, <3>4, <3>5, <3>7 DEF Reckoned
  <2> QED
    BY <2>1, <2>2, <2>3, <2>4, <2>5, <2>6, <2>7, FrameAfter
<1>6. \A f \in Calculators' : Kept(f)
  BY <1>4, <1>5 DEF Calculators
<1> QED
  BY <1>6 DEF EntryAsReckoned, Reckoned

(* The subregions of every entry that a calculator selects for a range with *)
(* start <= end are those it reckoned with: a size whose region size has   *)
(* wrapped is tried but not selected.                                      *)
THEOREM SelectedAsReckoned ==
    ASSUME Roomy
    PROVE  Spec => []EntryAsReckoned
<1>1. Init => EntryAsReckoned
  BY DEF Init, NewFrame, EntryAsReckoned, Calculators
<1>2. TypeInv /\ CoverInv /\ EntryAsReckoned /\ [Next]_vars => EntryAsReckoned'
  BY ReckonedStep
<1> QED
  BY <1>1, <1>2, CoverKept, TypeCorrect, PTL DEF Spec

------------------------------------------------------------------------------
(***************************************************************************)
(* The entries can be programmed, whatever is asked for                    *)
(***************************************************************************)

(* A candidate's region starts at a multiple of its size, or at 0 if its   *)
(* size has wrapped.                                                       *)
AlignedCandidate(c) ==
    /\ c.sub \in PowersOfTwo /\ Granule <= c.sub
    /\ IF 8 * c.sub <= WordSize THEN (c.base % (8 * c.sub)) = 0 ELSE c.base = 0

FirstOf(f) == f.number - Len(f.table)

AlignedFrame(f) ==
    /\ f.pc \in {"before", "after", "build"} => f.best = NoBest \/ AlignedCandidate(f.best)
    /\ \A i \in DOMAIN f.table : Sized(f.table[i])
    /\ ProgrammableTable(f, FirstOf(f))

AlignedInv == AlignedFrame(frame) /\ \A i \in DOMAIN callers : AlignedFrame(callers[i])

LEMMA CandidateAligned ==
    ASSUME NEW f \in Frames, NEW sub \in PowersOfTwo, Granule <= sub,
           NEW base \in {RegionBefore(f, sub), RegionAfter(f, sub)},
           NEW c, c.sub = sub, c.base = base
    PROVE  AlignedCandidate(c)
<1>1. CASE 8 * sub <= WordSize
  <2>1. (base % (8 * sub)) = 0
    BY <1>1, AlignedBases
  <2> QED
    BY <1>1, <2>1 DEF AlignedCandidate
<1>2. CASE ~(8 * sub <= WordSize)
  <2>1. 8 * sub >= WordSize
    BY <1>2, Constants
  <2>2. RegionSize(sub) = 0
    BY <2>1, RegionSizes
  <2>3. base = 0
    BY <2>2 DEF RegionBefore, RegionAfter, AlignUp, AlignDown
  <2> QED
    BY <1>2, <2>3 DEF AlignedCandidate
<1> QED
  BY <1>1, <1>2

(* An entry built from such a candidate.                                   *)
LEMMA BuildProgrammable ==
    ASSUME NEW f \in Frames, AlignedCandidate(f.best), NEW number
    PROVE  Sized(BestEntry(f)) /\ Programmable(BestEntry(f), number)
<1> DEFINE e == BestEntry(f)
           sub == f.best.sub
           base == f.best.base
<1>1. /\ sub \in PowersOfTwo /\ Granule <= sub /\ sub \in Nat \ {0}
      /\ Granule \in Nat \ {0} /\ WordSize \in Nat \ {0} /\ 8 * Granule <= WordSize
      /\ base \in Addresses
  BY Constants DEF AlignedCandidate, Frames, Candidates
<1>2. e.base = base /\ e.size = RegionSize(sub)
  BY DEF BestEntry
<1>3. CASE 8 * sub <= WordSize
  <2>1. (base % (8 * sub)) = 0
    BY <1>3 DEF AlignedCandidate
  <2>2. RegionBytes(e) = 8 * sub /\ RegionBase(e) = base
    BY <1>1, <1>3, <2>1, BestEntryRegion
  <2>3. 8 * sub \in PowersOfTwo
    BY <1>1, <1>3, EightFold
  <2>4. 8 * Granule <= 8 * sub
    BY <1>1
  <2> HIDE DEF e, sub, base
  <2>5. Sized(e) /\ Programmable(e, number)
    BY <1>2, <2>2, <2>3, <2>4 DEF Sized, Programmable
  <2> QED
    BY <2>5 DEF e
<1>4. CASE ~(8 * sub <= WordSize)
  <2>1. base = 0
    BY <1>4 DEF AlignedCandidate
  <2>2. 8 * sub >= WordSize
    BY <1>1, <1>4
  <2>3. e.size = 0
    BY <1>1, <1>2, <2>2, RegionSizes
  <2> HIDE DEF e, sub, base
  <2>4. RegionBytes(e) = WordSize
    BY <2>3 DEF RegionBytes
  <2>5. 0 % WordSize = 0
    BY <1>1
  <2>6. AlignDown(0, WordSize) = 0
    BY <1>1, <2>5 DEF AlignDown
  <2>7. RegionBase(e) = 0
    BY <1>2, <2>1, <2>4, <2>6 DEF RegionBase
  <2>8. WordSize \in PowersOfTwo
    BY WordAssumption
  <2>9. Sized(e) /\ Programmable(e, number)
    BY <1>1, <1>2, <2>1, <2>4, <2>7, <2>8 DEF Sized, Programmable
  <2> QED
    BY <2>9 DEF e
<1> QED
  BY <1>3, <1>4

(* The granule bit of a region's base is clear.                            *)
LEMMA GranuleBitClear ==
    ASSUME NEW a \in Nat, NEW size \in PowersOfTwo, 8 * Granule <= size, (a % size) = 0
    PROVE  SetGranuleBit(a) = a + Granule
<1> DEFINE pair == 2 * Granule
<1>1. /\ Granule \in Nat \ {0} /\ size \in Nat \ {0} /\ Granule \in PowersOfTwo
      /\ WordSize \in Nat \ {0} /\ 8 * Granule <= WordSize
  BY Constants, WordAssumption
<1>2. pair \in PowersOfTwo /\ pair \in Nat \ {0}
  <2>1. 2 * Granule <= WordSize
    BY <1>1
  <2> QED
    BY <1>1, <2>1, DoublePower
<1>3. pair <= size
  BY <1>1
<1>4. (size % pair) = 0
  <2> HIDE DEF pair
  <2> QED
    BY <1>2, <1>3, PowerDivides
<1>5. (a % pair) = 0
  <2> HIDE DEF pair
  <2>1. size \div pair \in Nat /\ size = pair * (size \div pair)
    BY <1>1, <1>2, <1>4, ExactQuotient
  <2>2. a \div size \in Nat /\ a = size * (a \div size)
    BY <1>1, ExactQuotient
  <2> DEFINE i == size \div pair
             j == a \div size
  <2>3. i \in Nat /\ j \in Nat /\ size = pair * i /\ a = size * j
    BY <2>1, <2>2
  <2> HIDE DEF i, j
  <2>4. a = pair * (i * j) /\ i * j \in Nat
    BY <1>2, <2>3
  <2> QED
    BY <1>2, <2>4, Multiple
<1>6. a \div pair \in Nat /\ a = pair * (a \div pair)
  <2> HIDE DEF pair
  <2> QED
    BY <1>2, <1>5, ExactQuotient
<1> DEFINE k == a \div pair
<1>7. k \in Nat /\ a = Granule * (2 * k) /\ 2 * k \in Nat
  BY <1>1, <1>6
<1> HIDE DEF k
<1>8. a \div Granule = 2 * k
  BY <1>1, <1>7, Multiple
<1>9. (2 * k) % 2 = 0
  BY <1>7, Multiple
<1> QED
  BY <1>8, <1>9 DEF SetGranuleBit

(* A copied entry.  The copy of an entry that is one already has at most   *)
(* its granule bit set, if the number has such a bit.                      *)
LEMMA RenumberProgrammable ==
    ASSUME NEW e \in Entries, Sized(e), NEW old \in Nat, old < 2 * NumRegions,
           Programmable(e, old), NEW number \in Nat
    PROVE  /\ Sized(Renumber(e, number))
           /\ Programmable(Renumber(e, number), number)
<1> DEFINE g == Renumber(e, number)
<1>1. NumRegions \in Nat \ {0} /\ e.base \in Nat
  BY RegionAssumption DEF Entries, Addresses
<1>2. RegionBytes(e) \in PowersOfTwo /\ 8 * Granule <= RegionBytes(e)
      /\ RegionBytes(e) \in Nat \ {0} /\ Granule \in Nat \ {0}
  BY Constants DEF Sized
<1>3. e.base = RegionBase(e)
  BY <1>1 DEF Programmable
<1>4. (e.base % RegionBytes(e)) = 0
  <2> DEFINE a == e.base
             size == RegionBytes(e)
  <2>1. a = a - (a % size)
    BY <1>2, <1>3 DEF RegionBase, AlignDown
  <2>2. a \in Nat /\ size \in Nat \ {0} /\ a % size \in Nat
    <3>1. a \in Int /\ size \in Nat \ {0}
      BY <1>1, <1>2
    <3> HIDE DEF a, size
    <3>2. a % size \in Nat
      BY <3>1, DivMod
    <3> QED
      BY <1>1, <3>1, <3>2 DEF a
  <2> HIDE DEF a, size
  <2>3. (a % size) = 0
    BY <2>1, <2>2
  <2> QED
    BY <2>3 DEF a, size
<1>5. /\ g \in Entries /\ g.size = e.size
      /\ g.base = IF number >= 2 * NumRegions THEN SetGranuleBit(e.base) ELSE e.base
  BY RenumberType DEF Renumber, Entries
<1> HIDE DEF g
<1>6. RegionBytes(g) = RegionBytes(e)
  BY <1>5 DEF RegionBytes
<1>7. CASE number >= 2 * NumRegions
  <2>1. g.base = SetGranuleBit(e.base) /\ SetGranuleBit(e.base) = e.base + Granule
    BY <1>1, <1>2, <1>4, <1>5, <1>7, GranuleBitClear
  <2>2. RegionBase(g) = RegionBase(e)
    BY <1>1, <1>2, <1>6, <2>1, GranuleBitIgnored DEF RegionBase
  <2> QED
    BY <1>2, <1>3, <1>6, <1>7, <2>1, <2>2 DEF Sized, Programmable, g
<1>8. CASE ~(number >= 2 * NumRegions)
  <2>1. g.base = e.base /\ RegionBase(g) = RegionBase(e)
    BY <1>5, <1>6, <1>8 DEF RegionBase
  <2> QED
    BY <1>2, <1>3, <1>6, <2>1 DEF Sized, Programmable, g
<1> QED
  BY <1>7, <1>8

(* Steps before an entry is built.                                         *)
LEMMA SelectAligned ==
    ASSUME TypeInv, AlignedFrame(frame),
           Refuse \/ SelectFullRange \/ StartSelection \/ TryBefore \/ TryAfter
    PROVE  AlignedFrame(frame')
<1>1. frame \in Frames /\ SoundFrame(frame)
  BY DEF TypeInv, SoundFrame
<1>2. ASSUME frame'.table = frame.table, frame'.number = frame.number,
             \/ frame'.pc = "return"
             \/ frame'.best = NoBest \/ AlignedCandidate(frame'.best)
      PROVE  AlignedFrame(frame')
  BY <1>2 DEF AlignedFrame, ProgrammableTable, FirstOf
<1>3. CASE Refuse
  BY <1>1, <1>2, <1>3 DEF Refuse, Local, Return, Frames
<1>4. CASE SelectFullRange
  <2>1. /\ frame'.table = frame.table /\ frame'.number = frame.number
        /\ frame'.best = FullBest
    BY <1>1, <1>4 DEF SelectFullRange, Local, Frames, FullBest
  <2>2. AlignedCandidate(FullBest)
    <3> DEFINE sub == WordSize \div 8
    <3>1. sub \in PowersOfTwo /\ WordSize = 8 * sub /\ Granule <= sub
      BY EighthOfWord
    <3>2. 8 * sub \in Nat \ {0}
      BY <3>1, Constants
    <3> DEFINE size == 8 * sub
    <3>3. size \in Nat \ {0} /\ size <= WordSize
      BY <3>1, <3>2
    <3> HIDE DEF size
    <3>4. (0 % size) = 0
      BY <3>3
    <3>5. FullBest.sub = sub /\ FullBest.base = 0
      BY DEF FullBest
    <3> HIDE DEF sub
    <3> QED
      BY <3>1, <3>4, <3>5 DEF AlignedCandidate, size
  <2> QED
    BY <1>2, <2>1, <2>2
<1>5. CASE StartSelection
  <2>1. /\ frame'.table = frame.table /\ frame'.number = frame.number
        /\ frame'.best = frame.best /\ frame.pc = "enter"
    BY <1>1, <1>5 DEF StartSelection, Local, At, Frames
  <2>2. frame.best = NoBest
    BY <1>1, <2>1 DEF SoundFrame
  <2> QED
    BY <1>2, <2>1, <2>2
<1>6. ASSUME NEW base \in {RegionBefore(frame, frame.sub), RegionAfter(frame, frame.sub)},
             NEW g, g = [frame EXCEPT !.best = Better(frame, base)],
             frame.pc \in {"before", "after"},
             \/ frame' = Goto(g, "build") \/ frame' = Goto(g, "after") \/ frame' = HalveSize(g)
      PROVE  AlignedFrame(frame')
  <2>1. g.table = frame.table /\ g.number = frame.number /\ g.best = Better(frame, base)
    BY <1>1, <1>6 DEF Frames
  <2>2. frame'.table = g.table /\ frame'.number = g.number /\ frame'.best = g.best
    BY <1>1, <1>6 DEF Goto, HalveSize, Frames
  <2>3. frame.sub \in PowersOfTwo /\ Granule <= frame.sub
    BY <1>1, <1>6, Constants DEF SoundFrame
  <2>4. \/ Better(frame, base) = frame.best
        \/ Better(frame, base).sub = frame.sub /\ Better(frame, base).base = base
    BY DEF Better
  <2>5. frame.best = NoBest \/ AlignedCandidate(frame.best)
    BY <1>6 DEF AlignedFrame
  <2>6. frame'.best = NoBest \/ AlignedCandidate(frame'.best)
    <3>1. CASE Better(frame, base) = frame.best
      BY <2>1, <2>2, <2>5, <3>1
    <3>2. CASE Better(frame, base).sub = frame.sub /\ Better(frame, base).base = base
      BY <1>1, <1>6, <2>1, <2>2, <2>3, <3>2, CandidateAligned
    <3> QED
      BY <2>4, <3>1, <3>2
  <2> QED
    BY <1>2, <2>1, <2>2, <2>6
<1>7. CASE TryBefore
  <2> DEFINE base == RegionBefore(frame, frame.sub)
             g == [frame EXCEPT !.best = Better(frame, base)]
  <2>1. \/ frame' = Goto(g, "build") \/ frame' = Goto(g, "after") \/ frame' = HalveSize(g)
    BY <1>7 DEF TryBefore, Local
  <2>2. frame.pc \in {"before", "after"}
    BY <1>7 DEF TryBefore, At
  <2> QED
    BY <1>6, <2>1, <2>2
<1>8. CASE TryAfter
  <2> DEFINE base == RegionAfter(frame, frame.sub)
             g == [frame EXCEPT !.best = Better(frame, base)]
  <2>1. \/ frame' = Goto(g, "build") \/ frame' = HalveSize(g)
    BY <1>8 DEF TryAfter, Local
  <2>2. frame.pc \in {"before", "after"}
    BY <1>8 DEF TryAfter, At
  <2> QED
    BY <1>6, <2>1, <2>2
<1> QED
  BY <1>3, <1>4, <1>5, <1>7, <1>8

(* A child's entries are copied.                                           *)
LEMMA CopyAligned ==
    ASSUME TypeInv, RegionsConsecutive, AlignedInv, CopyChild
    PROVE  AlignedFrame(frame')
<1> DEFINE parent == callers[Len(callers)]
           f == WithChild(parent, frame)
           n == Len(parent.table)
           m == Copied(parent, frame)
<1>1. /\ Len(callers) \in DOMAIN callers /\ Len(callers) \in Nat \ {0}
      /\ frame \in Frames /\ parent \in Frames /\ f \in Frames
      /\ Len(parent.table) <= MaxEntries
      /\ frame'.table = f.table
  BY CopyFacts
<1>2. AlignedFrame(parent) /\ AlignedFrame(frame)
  BY <1>1 DEF AlignedInv
<1>3. frame' = Return(f, FALSE) \/ frame' = Goto(f, "right") \/ frame' = Return(f, TRUE)
  BY DEF CopyChild
<1>4. f.number = parent.number + m
  BY <1>1 DEF WithChild, Frames
<1>5. m \in Nat /\ m <= Len(frame.table) /\ Len(f.table) = n + m
  BY <1>1, WithChildType
<1>6. /\ DOMAIN parent.table = 1 .. n
      /\ DOMAIN f.table = 1 .. n + m
      /\ \A i \in 1 .. n : f.table[i] = parent.table[i]
      /\ \A j \in 1 .. m :
            /\ j \in DOMAIN frame.table
            /\ f.table[n + j] = Renumber(frame.table[j], parent.number + j - 1)
  BY <1>1, WithChildTable
<1>7. n \in Nat /\ parent.number \in Nat
      /\ frame.table \in Seq(Entries) /\ DOMAIN frame.table = 1 .. Len(frame.table)
      /\ Len(frame.table) \in Nat
  BY <1>1, LenProperties DEF Frames
<1>8. Len(frame.table) <= MaxEntries /\ MaxEntries <= 2 * NumRegions
      /\ MaxEntries \in Nat /\ NumRegions \in Nat
  BY CalculatorAssumption, RegionAssumption DEF TypeInv, SoundFrame
<1>9. FirstOf(frame) = 0 /\ parent.number - n \in Nat
  <2> DEFINE first == FirstNumber(Len(callers))
  <2>1. Numbered(frame, FirstNumber(Len(callers) + 1)) /\ Numbered(parent, first)
    BY <1>1 DEF RegionsConsecutive
  <2>2. FirstNumber(Len(callers) + 1) = 0
    BY <1>1 DEF FirstNumber
  <2>3. first \in Nat
    BY CalculatorAssumption DEF FirstNumber, TypeInv
  <2> HIDE DEF parent, first
  <2>4. frame.number = 0 + Len(frame.table) /\ parent.number = first + n
    BY <2>1, <2>2 DEF Numbered
  <2>5. frame.number - Len(frame.table) = 0
    BY <1>7, <2>4
  <2>6. parent.number - n \in Nat
    BY <1>7, <2>3, <2>4
  <2> QED
    BY <2>5, <2>6 DEF FirstOf
<1> HIDE DEF f, parent, n, m
<1>10. frame'.number = f.number /\ frame'.pc \in {"right", "return"}
  BY <1>1, <1>3 DEF Goto, Return, Frames
<1>11. FirstOf(frame') = parent.number - n /\ FirstOf(parent) = parent.number - n
  <2>1. FirstOf(frame') = f.number - Len(f.table)
    BY <1>1, <1>10 DEF FirstOf
  <2>2. FirstOf(parent) = parent.number - n
    BY DEF FirstOf, n
  <2> QED
    BY <1>4, <1>5, <1>7, <2>1, <2>2
<1>12. ASSUME NEW i \in 1 .. n + m
       PROVE  /\ Sized(f.table[i])
              /\ Programmable(f.table[i], (parent.number - n) + i - 1)
  <2>1. CASE i <= n
    <3>1. i \in 1 .. n
      BY <1>5, <1>7, <2>1
    <3> QED
      BY <1>2, <1>6, <1>11, <3>1 DEF AlignedFrame, ProgrammableTable
  <2>2. CASE ~(i <= n)
    <3> DEFINE j == i - n
    <3>1. j \in 1 .. m /\ i = n + j /\ (parent.number - n) + i - 1 = parent.number + j - 1
          /\ j - 1 \in Nat /\ parent.number + j - 1 \in Nat
      BY <1>5, <1>7, <2>2
    <3> HIDE DEF j
    <3>2. j \in DOMAIN frame.table /\ f.table[i] = Renumber(frame.table[j], parent.number + j - 1)
      BY <1>6, <3>1
    <3>3. Sized(frame.table[j]) /\ Programmable(frame.table[j], FirstOf(frame) + j - 1)
      BY <1>2, <3>2 DEF AlignedFrame, ProgrammableTable
    <3>4. FirstOf(frame) + j - 1 = j - 1 /\ j - 1 < 2 * NumRegions
      BY <1>5, <1>7, <1>8, <1>9, <3>1
    <3>5. frame.table[j] \in Entries
      BY <1>7, <3>2
    <3>6. Programmable(frame.table[j], j - 1)
      BY <3>3, <3>4
    <3> DEFINE number == parent.number + j - 1
               e == frame.table[j]
               old == j - 1
    <3>7. /\ e \in Entries /\ Sized(e) /\ old \in Nat /\ old < 2 * NumRegions
          /\ Programmable(e, old) /\ number \in Nat
      BY <3>1, <3>3, <3>4, <3>5, <3>6
    <3> HIDE DEF number, e, old
    <3>8. Sized(Renumber(e, number)) /\ Programmable(Renumber(e, number), number)
      BY <3>7, RenumberProgrammable
    <3> QED
      BY <3>1, <3>2, <3>8 DEF number, e
  <2> QED
    BY <2>1, <2>2
<1> QED
  BY <1>1, <1>6, <1>10, <1>11, <1>12 DEF AlignedFrame, ProgrammableTable

LEMMA AlignedStep ==
    TypeInv /\ RegionsConsecutive /\ AlignedInv /\ [Next]_vars => AlignedInv'
<1> SUFFICES ASSUME TypeInv, RegionsConsecutive, AlignedInv, [Next]_vars PROVE AlignedInv'
  OBVIOUS
<1>1. frame \in Frames /\ AlignedFrame(frame)
  BY DEF TypeInv, SoundFrame, AlignedInv
<1>2. \A g : /\ g.table = frame.table /\ g.number = frame.number
             /\ g.pc \notin {"before", "after", "build"}
             => AlignedFrame(g)
  BY <1>1 DEF AlignedFrame, ProgrammableTable, FirstOf
<1>3. \A label : /\ Goto(frame, label).table = frame.table
                 /\ Goto(frame, label).number = frame.number
                 /\ Goto(frame, label).pc = label
  BY <1>1 DEF Goto, Frames
<1>4. ASSUME NEW i \in DOMAIN callers' PROVE AlignedFrame(callers'[i])
  <2>1. CASE \E j \in DOMAIN callers : callers'[i] = callers[j]
    BY <2>1 DEF AlignedInv
  <2>2. CASE \E label \in {"copyLeft", "copyRight"} : callers'[i] = Goto(frame, label)
    BY <1>2, <1>3, <2>2
  <2> QED
    BY <2>1, <2>2, CallersAfter
<1>5. AlignedFrame(frame')
  <2>1. CASE UNCHANGED vars
    BY <1>1, <2>1 DEF vars
  <2>2. CASE Refuse \/ SelectFullRange \/ StartSelection \/ TryBefore \/ TryAfter
    BY <1>1, <2>2, SelectAligned
  <2>3. CASE Build
    <3> DEFINE e == BestEntry(frame)
               n == Len(frame.table)
    <3>1. /\ frame.pc = "build" /\ frame.best.sub > 0
          /\ frame'.table = Append(frame.table, e) /\ frame'.number = frame.number + 1
          /\ frame'.pc = "left"
      BY <1>1, <2>3 DEF Build, At, Local, Frames, TypeInv, SoundFrame
    <3>2. AlignedCandidate(frame.best)
      BY <1>1, <3>1 DEF AlignedFrame, NoBest
    <3>3. Sized(e) /\ \A number : Programmable(e, number)
      BY <1>1, <3>2, BuildProgrammable
    <3>4. e \in Entries
      BY <1>1, <3>1, BestEntryType
    <3>5. /\ frame.table \in Seq(Entries) /\ n \in Nat /\ DOMAIN frame.table = 1 .. n
          /\ frame.number \in Nat
      BY <1>1, LenProperties DEF Frames
    <3> HIDE DEF e
    <3>6. /\ Len(frame'.table) = n + 1 /\ frame'.table \in Seq(Entries)
          /\ \A i \in 1 .. n : frame'.table[i] = frame.table[i]
          /\ frame'.table[n + 1] = e
      BY <3>1, <3>4, <3>5, AppendProperties
    <3>7. DOMAIN frame'.table = 1 .. n + 1
      BY <3>6, LenProperties
    <3>8. FirstOf(frame) = frame.number - n
      BY DEF FirstOf
    <3> HIDE DEF n
    <3>9. FirstOf(frame') = FirstOf(frame)
      <4>1. FirstOf(frame') = (frame.number + 1) - (n + 1)
        BY <3>1, <3>6 DEF FirstOf
      <4> QED
        BY <3>5, <3>8, <4>1
    <3>10. \A i \in 1 .. n + 1 : i \in 1 .. n \/ i = n + 1
      BY <3>5
    <3>11. \A i \in 1 .. n : /\ Sized(frame.table[i])
                             /\ Programmable(frame.table[i], FirstOf(frame) + i - 1)
      BY <1>1, <3>5 DEF AlignedFrame, ProgrammableTable
    <3>12. \A i \in 1 .. n + 1 : /\ Sized(frame'.table[i])
                                 /\ Programmable(frame'.table[i], FirstOf(frame') + i - 1)
      BY <3>3, <3>6, <3>9, <3>10, <3>11
    <3> QED
      BY <3>1, <3>7, <3>12 DEF AlignedFrame, ProgrammableTable
  <2>4. CASE CallLeft \/ CallRight
    <3>1. frame'.pc = "enter" /\ frame'.table = <<>>
      BY <2>4 DEF CallLeft, CallRight, Call, NewFrame
    <3> QED
      BY <3>1 DEF AlignedFrame, ProgrammableTable
  <2>5. CASE SkipLeft
    BY <1>2, <1>3, <2>5 DEF SkipLeft, Local
  <2>6. CASE SkipRight
    <3>1. /\ frame'.table = frame.table /\ frame'.number = frame.number
          /\ frame'.pc = "return"
      BY <1>1, <2>6 DEF SkipRight, Local, Return, Frames
    <3> QED
      BY <1>2, <3>1
  <2>7. CASE CopyChild
    BY <2>7, CopyAligned
  <2> QED
    BY <2>1, <2>2, <2>3, <2>4, <2>5, <2>6, <2>7 DEF Next
<1> QED
  BY <1>4, <1>5 DEF AlignedInv

(* Every entry of every table, at any depth, of any range, well-posed or   *)
(* reversed, selected or copied, can be programmed: its region has 8 whole *)
(* granules or more and its base is aligned to it, but for the granule bit *)
(* of an entry whose number runs over REGION and VALID.                    *)
THEOREM EntriesProgrammable == Spec => []EntryProgrammable
<1>1. Init => AlignedInv
  BY DEF Init, NewFrame, AlignedInv, AlignedFrame, ProgrammableTable
<1>2. TypeInv /\ RegionsConsecutive /\ AlignedInv => EntryProgrammable
  <2> SUFFICES ASSUME TypeInv, RegionsConsecutive, AlignedInv PROVE EntryProgrammable
    OBVIOUS
  <2>1. \A depth : FirstNumber(depth) \in Nat
    BY CalculatorAssumption DEF FirstNumber, TypeInv
  <2>2. ASSUME NEW f \in Frames, NEW first \in Nat, Numbered(f, first), AlignedFrame(f)
        PROVE  ProgrammableTable(f, first)
    <3>1. f.number = first + Len(f.table) /\ Len(f.table) \in Nat
      BY <2>2, LenProperties DEF Numbered, Frames
    <3>2. FirstOf(f) = first
      BY <3>1 DEF FirstOf
    <3> QED
      BY <2>2, <3>2 DEF AlignedFrame
  <2>3. frame \in Frames /\ \A i \in DOMAIN callers : callers[i] \in Frames
    BY DEF TypeInv, SoundFrame, SoundCallers
  <2>4. ProgrammableTable(frame, FirstNumber(Len(callers) + 1))
    BY <2>1, <2>2, <2>3 DEF AlignedInv, RegionsConsecutive
  <2>5. \A i \in DOMAIN callers : ProgrammableTable(callers[i], FirstNumber(i))
    BY <2>1, <2>2, <2>3 DEF AlignedInv, RegionsConsecutive
  <2> QED
    BY <2>4, <2>5 DEF EntryProgrammable
<1> QED
  BY <1>1, <1>2, AlignedStep, NumbersConsecutive, TypeCorrect, PTL DEF Spec
------------------------------------------------------------------------------
(***************************************************************************)
(* Refinement: the tables of all calculators together                      *)
(***************************************************************************)
AllPosed == \A r \in Requests : WellPosed(r.start, r.end)

WithinRequest(f) ==
    /\ WellPosed(f.start, f.end)
    /\ request.start <= f.start /\ CoverLimit(f.end) <= CoverLimit(request.end)

Outermost == IF callers = <<>> THEN frame ELSE callers[1]

(* The children work on parts of the outermost range.                      *)
NestInv ==
    /\ WithinRequest(frame) /\ \A i \in DOMAIN callers : WithinRequest(callers[i])
    /\ Outermost.start = request.start /\ Outermost.end = request.end

LEMMA NestInit ==
    ASSUME AllPosed
    PROVE  Init => NestInv
<1> SUFFICES ASSUME Init PROVE NestInv
  OBVIOUS
<1>1. /\ request \in Requests /\ callers = <<>> /\ DOMAIN callers = {}
      /\ frame.start = request.start /\ frame.end = request.end
  BY DEF Init, NewFrame
<1>2. /\ request.start \in Nat /\ CoverLimit(request.end) \in Int
      /\ WellPosed(request.start, request.end)
  <2>1. request.start \in Addresses /\ request.end \in Addresses
    BY <1>1, CalculatorAssumption
  <2>2. request.start \in Nat /\ request.end \in Nat
    BY <2>1 DEF Addresses
  <2> QED
    BY <1>1, <2>2 DEF AllPosed, CoverLimit
<1> QED
  BY <1>1, <1>2 DEF NestInv, WithinRequest, Outermost

(* Only the last caller on the stack comes and goes.                       *)
LEMMA FirstCaller ==
    ASSUME TypeInv, [Next]_vars
    PROVE  \/ callers' = callers
           \/ callers = <<>> /\ callers' # <<>> /\ \E label : callers'[1] = Goto(frame, label)
           \/ callers # <<>> /\ callers' # <<>> /\ callers'[1] = callers[1]
           \/ CopyChild /\ Len(callers) = 1 /\ callers' = <<>>
<1> DEFINE n == Len(callers)
<1>1. callers \in Seq(Frames) /\ n \in Nat /\ DOMAIN callers = 1 .. n
  BY LenProperties DEF TypeInv, SoundCallers
<1>2. frame \in Frames
  BY DEF TypeInv, SoundFrame
<1>3. ASSUME NEW label \in {"copyLeft", "copyRight"}, callers' = Append(callers, Goto(frame, label))
      PROVE  /\ callers' # <<>>
             /\ callers = <<>> => callers'[1] = Goto(frame, label)
             /\ callers # <<>> => callers'[1] = callers[1]
  <2>1. Goto(frame, label) \in Frames
    BY <1>2, GotoTypes DEF ProgramCounters
  <2>2. /\ Len(callers') = n + 1 /\ callers' # <<>>
        /\ \A j \in 1 .. n : callers'[j] = callers[j]
        /\ callers'[n + 1] = Goto(frame, label)
    BY <1>1, <1>3, <2>1, AppendProperties
  <2>3. callers = <<>> <=> n = 0
    BY <1>1, EmptySeq
  <2> HIDE DEF n
  <2>4. n # 0 => 1 \in 1 .. n
    BY <1>1
  <2> QED
    BY <1>1, <2>2, <2>3, <2>4
<1>4. CASE CallLeft
  <2>1. callers' = Append(callers, Goto(frame, "copyLeft"))
    BY <1>4 DEF CallLeft, Call
  <2> QED
    BY <1>3, <2>1
<1>5. CASE CallRight
  <2>1. callers' = Append(callers, Goto(frame, "copyRight"))
    BY <1>5 DEF CallRight, Call
  <2> QED
    BY <1>3, <2>1
<1>6. CASE CopyChild
  <2>1. callers # <<>> /\ callers' = SubSeq(callers, 1, n - 1)
    BY <1>6 DEF CopyChild
  <2>2. n \in Nat \ {0}
    BY <1>1, <2>1, EmptySeq
  <2>3. \A j \in 1 .. n - 1 : callers[j] \in Frames
    BY <1>1
  <2> HIDE DEF n
  <2>4. /\ callers' \in Seq(Frames)
        /\ Len(callers') = n - 1
        /\ \A j \in 1 .. n - 1 : callers'[j] = callers[j]
    BY <1>1, <2>1, <2>2, <2>3, SubSeqProperties
  <2>5. CASE n = 1
    <3>1. callers' = <<>>
      BY <2>4, <2>5, EmptySeq
    <3> QED
      BY <1>6, <2>5, <3>1 DEF n
  <2>6. CASE n # 1
    <3>1. Len(callers') # 0 /\ 1 \in 1 .. n - 1
      BY <2>2, <2>4, <2>6
    <3>2. callers' # <<>>
      BY <3>1, EmptySeq
    <3> QED
      BY <2>1, <2>4, <3>1, <3>2
  <2> QED
    BY <2>5, <2>6
<1>7. CASE \/ UNCHANGED vars \/ Refuse \/ SelectFullRange \/ StartSelection
           \/ TryBefore \/ TryAfter \/ Build \/ SkipLeft \/ SkipRight
  BY <1>7 DEF vars, Refuse, SelectFullRange, StartSelection, TryBefore, TryAfter, Build,
              SkipLeft, SkipRight, Local
<1> QED
  BY <1>4, <1>5, <1>6, <1>7 DEF Next

LEMMA RequestKept ==
    ASSUME [Next]_vars
    PROVE  request' = request
BY DEF Next, vars, Refuse, SelectFullRange, StartSelection, TryBefore, TryAfter, Build,
       CallLeft, SkipLeft, CallRight, SkipRight, CopyChild, Local, Call

LEMMA WithinTypes ==
    ASSUME TypeInv
    PROVE  /\ request.start \in Nat /\ CoverLimit(request.end) \in Int
           /\ frame \in Frames /\ frame.start \in Nat /\ frame.end \in Nat
           /\ frame.left \in Nat /\ frame.right \in Nat
           /\ CoverLimit(frame.end) \in Int /\ CoverLimit(frame.left - 1) \in Int
<1>1. request.start \in Nat /\ request.end \in Nat
  <2>1. request \in [start : Addresses, end : Addresses, number : Nat]
    BY CalculatorAssumption DEF TypeInv
  <2> QED
    BY <2>1 DEF Addresses
<1>2. frame \in Frames /\ frame.start \in Nat /\ frame.end \in Nat
      /\ frame.left \in Nat /\ frame.right \in Nat
  BY DEF TypeInv, SoundFrame, Frames, Addresses
<1>3. \A e \in Int : CoverLimit(e) \in Int
  BY DEF CoverLimit
<1> QED
  BY <1>1, <1>2, <1>3

(* The range of the calculator that runs next.                             *)
LEMMA FrameWithin ==
    ASSUME TypeInv, RangeInv, NestInv, [Next]_vars
    PROVE  WithinRequest(frame')
<1>1. ASSUME frame'.start = frame.start, frame'.end = frame.end
      PROVE  WithinRequest(frame')
  BY <1>1 DEF NestInv, WithinRequest
<1>2. Posed(frame) /\ PointInv(frame)
  BY DEF NestInv, WithinRequest, Posed, RangeInv, FrameInv
<1>3. CASE CallLeft
  <2>1. NeedsLeft(frame) /\ frame.pc = "left" /\ frame'.start = frame.start
        /\ frame'.end = frame.left - 1
    BY <1>3 DEF CallLeft, Call, NewFrame, At
  <2>2. LeftPart(frame)
    BY <1>2, <2>1 DEF PointInv, RestInv
  <2>3. CoverLimit(frame.left - 1) <= CoverLimit(request.end)
    BY <2>2, WithinTypes DEF LeftPart, NestInv, WithinRequest
  <2> QED
    BY <2>1, <2>2, <2>3 DEF LeftPart, NestInv, WithinRequest
<1>4. CASE CallRight
  <2>1. NeedsRight(frame) /\ frame.pc = "right" /\ frame'.start = frame.right
        /\ frame'.end = frame.end
    BY <1>4 DEF CallRight, Call, NewFrame, At
  <2>2. RightPart(frame)
    BY <1>2, <2>1 DEF PointInv, RestInv
  <2>3. request.start <= frame.right
    BY <2>2, WithinTypes DEF RightPart, NestInv, WithinRequest
  <2> QED
    BY <2>1, <2>2, <2>3 DEF RightPart, NestInv, WithinRequest
<1>5. CASE CopyChild
  <2>1. /\ Len(callers) \in DOMAIN callers
        /\ frame'.start = callers[Len(callers)].start
        /\ frame'.end = callers[Len(callers)].end
    BY <1>5, CopyFacts
  <2> QED
    BY <2>1 DEF NestInv, WithinRequest
<1>6. CASE Build
  <2>1. frame'.start = frame.start /\ frame'.end = frame.end
    BY <1>6, WithinTypes DEF Build, Local, Frames
  <2> QED
    BY <1>1, <2>1
<1>7. CASE \/ SkipLeft /\ frame' = Goto(frame, "right")
           \/ SkipRight /\ frame' = Return(frame, TRUE)
  <2>1. frame'.start = frame.start /\ frame'.end = frame.end
    BY <1>7, WithinTypes DEF Goto, Return, Frames
  <2> QED
    BY <1>1, <2>1
<1>8. \/ CallLeft \/ CallRight \/ CopyChild \/ Build
      \/ SkipLeft /\ frame' = Goto(frame, "right")
      \/ SkipRight /\ frame' = Return(frame, TRUE)
      \/ frame'.start = frame.start /\ frame'.end = frame.end
  BY FrameAfter
<1> QED
  BY <1>1, <1>3, <1>4, <1>5, <1>6, <1>7, <1>8

LEMMA NestStep == TypeInv /\ RangeInv /\ NestInv /\ [Next]_vars => NestInv'
<1> SUFFICES ASSUME TypeInv, RangeInv, NestInv, [Next]_vars PROVE NestInv'
  OBVIOUS
<1>1. request' = request
  BY RequestKept
<1>2. WithinRequest(frame)'
  BY <1>1, FrameWithin DEF WithinRequest
<1>3. \A label : Goto(frame, label).start = frame.start /\ Goto(frame, label).end = frame.end
  BY WithinTypes DEF Goto, Frames
<1>4. ASSUME NEW i \in DOMAIN callers'
      PROVE  WithinRequest(callers'[i])
  <2>1. CASE \E j \in DOMAIN callers : callers'[i] = callers[j]
    BY <2>1 DEF NestInv
  <2>2. CASE callers'[i] = Goto(frame, "copyLeft") \/ callers'[i] = Goto(frame, "copyRight")
    <3>1. callers'[i].start = frame.start /\ callers'[i].end = frame.end
      BY <1>3, <2>2
    <3> QED
      BY <3>1 DEF NestInv, WithinRequest
  <2> QED
    BY <2>1, <2>2, CallersAfter
<1>5. Outermost'.start = request.start /\ Outermost'.end = request.end
  <2>1. CASE callers' = callers /\ callers # <<>>
    BY <2>1 DEF NestInv, Outermost
  <2>2. CASE callers' = callers /\ callers = <<>>
    <3>1. ~CopyChild
      BY <2>2 DEF CopyChild
    <3>2. ~CallLeft /\ ~CallRight
      <4> SUFFICES ASSUME CallLeft \/ CallRight PROVE FALSE
        OBVIOUS
      <4>1. callers \in Seq(Frames) /\ \E label \in ProgramCounters : callers' = Append(callers, Goto(frame, label))
        BY DEF CallLeft, CallRight, Call, TypeInv, SoundCallers, ProgramCounters
      <4>2. Len(callers') = Len(callers) + 1 /\ Len(callers) \in Nat
        BY <4>1, WithinTypes, GotoTypes, AppendProperties, LenProperties
      <4> QED
        BY <2>2, <4>2
    <3>3. frame'.start = frame.start /\ frame'.end = frame.end
      BY <3>1, <3>2, FrameAfter, WithinTypes DEF Build, Local, Goto, Return, Frames
    <3> QED
      BY <2>2, <3>3 DEF NestInv, Outermost
  <2>3. CASE callers = <<>> /\ callers' # <<>> /\ \E label : callers'[1] = Goto(frame, label)
    BY <1>3, <2>3 DEF NestInv, Outermost
  <2>4. CASE callers # <<>> /\ callers' # <<>> /\ callers'[1] = callers[1]
    BY <2>4 DEF NestInv, Outermost
  <2>5. CASE CopyChild /\ Len(callers) = 1 /\ callers' = <<>>
    <3>1. frame'.start = callers[1].start /\ frame'.end = callers[1].end
      BY <2>5, CopyFacts
    <3>2. callers # <<>>
      BY <2>5 DEF CopyChild
    <3> QED
      BY <2>5, <3>1, <3>2 DEF NestInv, Outermost
  <2> QED
    BY <2>1, <2>2, <2>3, <2>4, <2>5, FirstCaller
<1>6. \A i \in DOMAIN callers' : WithinRequest(callers[i])'
  BY <1>1, <1>4 DEF WithinRequest
<1> QED
  BY <1>1, <1>2, <1>5, <1>6 DEF NestInv

(* What the tables of the callers map, and what all tables map.            *)
CallersMapped(s) == UNION {MappedBy(s[i].table) : i \in DOMAIN s}

AllMapped == UNION {MappedBy(f.table) : f \in Calculators}

LEMMA AllMappedSplit ==
    /\ AllMapped = MappedBy(frame.table) \cup CallersMapped(callers)
    /\ AllMapped' = MappedBy(frame'.table) \cup CallersMapped(callers')
<1>1. AllMapped = MappedBy(frame.table) \cup CallersMapped(callers)
  BY DEF AllMapped, CallersMapped, Calculators
<1>2. AllMapped' = MappedBy(frame'.table) \cup CallersMapped(callers')
  BY DEF AllMapped, CallersMapped, Calculators
<1> QED
  BY <1>1, <1>2

LEMMA CallerPushed ==
    ASSUME NEW s \in Seq(Frames), NEW f \in Frames
    PROVE  CallersMapped(Append(s, f)) = CallersMapped(s) \cup MappedBy(f.table)
<1> DEFINE n == Len(s)
           t == Append(s, f)
<1>1. n \in Nat /\ DOMAIN s = 1 .. n
  BY LenProperties
<1>2. /\ t \in Seq(Frames) /\ Len(t) = n + 1
      /\ \A j \in 1 .. n : t[j] = s[j]
      /\ t[n + 1] = f
  BY AppendProperties
<1>3. DOMAIN t = 1 .. n + 1
  BY <1>2, LenProperties
<1>4. 1 .. n + 1 = (1 .. n) \cup {n + 1}
  BY <1>1
<1> HIDE DEF n, t
<1>5. CallersMapped(t) = CallersMapped(s) \cup MappedBy(f.table)
  BY <1>1, <1>2, <1>3, <1>4 DEF CallersMapped
<1> QED
  BY <1>5 DEF t

LEMMA CallerPopped ==
    ASSUME NEW s \in Seq(Frames), s # <<>>
    PROVE  CallersMapped(s) = CallersMapped(SubSeq(s, 1, Len(s) - 1))
                                \cup MappedBy(s[Len(s)].table)
<1> DEFINE n == Len(s)
           t == SubSeq(s, 1, n - 1)
<1>1. n \in Nat \ {0} /\ DOMAIN s = 1 .. n
  BY LenProperties, EmptySeq
<1>2. \A j \in 1 .. n - 1 : s[j] \in Frames
  BY <1>1, ElementOfSeq
<1>3. /\ t \in Seq(Frames) /\ Len(t) = n - 1
      /\ \A j \in 1 .. n - 1 : t[j] = s[j]
  <2> HIDE DEF n
  <2>1. n - 1 \in Nat
    BY <1>1
  <2> QED
    BY <1>1, <1>2, <2>1, SubSeqProperties
<1>4. DOMAIN t = 1 .. n - 1
  BY <1>3, LenProperties
<1>5. 1 .. n = (1 .. n - 1) \cup {n}
  BY <1>1
<1> HIDE DEF n, t
<1>6. CallersMapped(s) = CallersMapped(t) \cup MappedBy(s[n].table)
  BY <1>1, <1>3, <1>4, <1>5 DEF CallersMapped
<1> QED
  BY <1>6 DEF t, n

(* Copying maps nothing new, and drops nothing that has room.              *)
LEMMA CopyMaps ==
    ASSUME NEW f \in Frames, NEW child \in Frames, Len(f.table) <= MaxEntries,
           \A j \in DOMAIN child.table : Sized(child.table[j]),
           NEW g, g = WithChild(f, child)
    PROVE  /\ MappedBy(g.table) \subseteq MappedBy(f.table) \cup MappedBy(child.table)
           /\ MappedBy(f.table) \subseteq MappedBy(g.table)
           /\ Copied(f, child) = Len(child.table) => MappedBy(child.table) \subseteq MappedBy(g.table)
<1> DEFINE n == Len(f.table)
           k == Copied(f, child)
<1>1. /\ DOMAIN f.table = 1 .. n
      /\ DOMAIN g.table = 1 .. n + k
      /\ \A i \in 1 .. n : g.table[i] = f.table[i]
      /\ \A j \in 1 .. k :
            /\ j \in DOMAIN child.table
            /\ g.table[n + j] = Renumber(child.table[j], f.number + j - 1)
  BY WithChildTable
<1>2. n \in Nat /\ k \in Nat /\ f.number \in Nat
      /\ child.table \in Seq(Entries) /\ DOMAIN child.table = 1 .. Len(child.table)
  BY WithChildType, LenProperties DEF Frames
<1> HIDE DEF n, k
<1>3. ASSUME NEW j \in 1 .. k
      PROVE  Mapped(g.table[n + j]) = Mapped(child.table[j]) /\ n + j \in 1 .. n + k
  <2>1. child.table[j] \in Entries /\ Sized(child.table[j])
    BY <1>1, <1>2, <1>3, ElementOfSeq
  <2>2. f.number + j - 1 \in Nat
    BY <1>2, <1>3
  <2>3. n + j \in 1 .. n + k
    BY <1>2, <1>3
  <2> QED
    BY <1>1, <1>3, <2>1, <2>2, <2>3, RenumberMaps
<1>4. \A i \in 1 .. n : i \in 1 .. n + k
  BY <1>2
<1>5. \A i \in 1 .. n + k : i \in 1 .. n \/ \E j \in 1 .. k : i = n + j
  <2> SUFFICES ASSUME NEW i \in 1 .. n + k, i \notin 1 .. n PROVE i - n \in 1 .. k /\ i = n + (i - n)
    OBVIOUS
  <2> QED
    BY <1>2
<1>6. MappedBy(g.table) \subseteq MappedBy(f.table) \cup MappedBy(child.table)
  <2> SUFFICES ASSUME NEW i \in 1 .. n + k
               PROVE  Mapped(g.table[i]) \subseteq MappedBy(f.table) \cup MappedBy(child.table)
    BY <1>1 DEF MappedBy
  <2>1. CASE i \in 1 .. n
    BY <1>1, <2>1 DEF MappedBy
  <2>2. CASE \E j \in 1 .. k : i = n + j
    BY <1>1, <1>3, <2>2 DEF MappedBy
  <2> QED
    BY <1>5, <2>1, <2>2
<1>7. MappedBy(f.table) \subseteq MappedBy(g.table)
  BY <1>1, <1>4 DEF MappedBy
<1>8. k = Len(child.table) => MappedBy(child.table) \subseteq MappedBy(g.table)
  BY <1>1, <1>2, <1>3 DEF MappedBy
<1> QED
  BY <1>6, <1>7, <1>8 DEF k

(* Everything the refinement rests on.                                     *)
ReachInv ==
    TypeInv /\ RegionsConsecutive /\ RangeInv /\ FailInv /\ CoverInv /\ NestInv

(* The abstract status, before a step and after it.                        *)
LEMMA StatusFacts ==
    /\ ~At("return") => Status = "building"
    /\ callers # <<>> /\ ~OutOfRoom => Status = "building"
    /\ OutOfRoom => Status = "full"
    /\ frame'.pc # "return" => Status' = "building"
    /\ callers' # <<>> /\ ~OutOfRoom' => Status' = "building"
    /\ OutOfRoom' => Status' = "full"
    /\ Done' /\ frame'.ok => Status' = "complete"
    /\ Done' /\ ~frame'.ok /\ ~OutOfRoom' => Status' = "refused"
BY DEF Status, OutOfRoom, Done, At

(* No calculator maps an address outside the range of the outermost call.  *)
LEMMA InsideRequest ==
    ASSUME TypeInv, NEW f \in Frames, WithinRequest(f), FrameInv(f)
    PROVE  MappedBy(f.table) \subseteq request.start .. CoverLimit(request.end)
<1>1. f.start \in Nat /\ CoverLimit(f.end) \in Int
  <2>1. f.start \in Nat /\ f.end \in Nat
    BY DEF Frames, Addresses
  <2> QED
    BY <2>1 DEF CoverLimit
<1>2. request.start \in Nat /\ CoverLimit(request.end) \in Int
  BY WithinTypes
<1>3. f.start .. CoverLimit(f.end) \subseteq request.start .. CoverLimit(request.end)
  BY <1>1, <1>2 DEF WithinRequest
<1>4. EntriesInside(f)
  BY DEF WithinRequest, FrameInv, Posed
<1> QED
  BY <1>3, <1>4 DEF EntriesInside, Inside, MappedBy

LEMMA AllInsideRequest ==
    ASSUME TypeInv, RangeInv, NestInv
    PROVE  AllMapped \subseteq request.start .. CoverLimit(request.end)
<1>1. MappedBy(frame.table) \subseteq request.start .. CoverLimit(request.end)
  BY WithinTypes, InsideRequest DEF RangeInv, NestInv
<1>2. ASSUME NEW i \in DOMAIN callers
      PROVE  MappedBy(callers[i].table) \subseteq request.start .. CoverLimit(request.end)
  <2>1. callers[i] \in Frames
    BY LenProperties, ElementOfSeq DEF TypeInv, SoundCallers
  <2> QED
    BY <2>1, InsideRequest DEF RangeInv, NestInv
<1> QED
  BY <1>1, <1>2, AllMappedSplit DEF CallersMapped

LEMMA CoverageInit == Init => Coverage!Init
<1> SUFFICES ASSUME Init PROVE Coverage!Init
  OBVIOUS
<1>1. /\ request \in Requests /\ callers = <<>>
      /\ frame.table = <<>> /\ frame.pc = "enter"
  BY DEF Init, NewFrame
<1>2. AllMapped = {}
  <2>1. MappedBy(<<>>) = {} /\ CallersMapped(<<>>) = {}
    BY DEF MappedBy, CallersMapped
  <2> QED
    BY <1>1, <2>1, AllMappedSplit
<1>3. Status = "building"
  BY <1>1, StatusFacts DEF At
<1> QED
  BY <1>1, <1>2, <1>3 DEF Coverage!Init, AllMapped

(* A step that leaves mapping and status alone.                            *)
LEMMA CoverageStutter ==
    ASSUME [Next]_vars, AllMapped' = AllMapped, Status' = Status
    PROVE  UNCHANGED Coverage!vars
BY RequestKept DEF Coverage!vars, AllMapped

LEMMA SelectingStep ==
    ASSUME TypeInv,
           SelectFullRange \/ StartSelection \/ TryBefore \/ TryAfter \/ SkipLeft
    PROVE  AllMapped' = AllMapped /\ Status' = Status
<1>1. callers' = callers
  BY DEF SelectFullRange, StartSelection, TryBefore, TryAfter, SkipLeft, Local
<1>2. frame.pc \in Selecting \cup {"left"}
  BY DEF SelectFullRange, StartSelection, TryBefore, TryAfter, SkipLeft, At, Selecting
<1>3. frame'.table = frame.table /\ frame'.pc # "return"
  <2>1. ~Build /\ ~CallLeft /\ ~CallRight /\ ~SkipRight /\ ~CopyChild /\ ~Refuse
    BY DEF SelectFullRange, StartSelection, TryBefore, TryAfter, SkipLeft, At,
           Build, CallLeft, CallRight, SkipRight, CopyChild, Refuse
  <2>2. /\ Goto(frame, "right").table = frame.table
        /\ Goto(frame, "right").pc = "right"
    BY WithinTypes, GotoTypes DEF ProgramCounters
  <2>3. [Next]_vars
    BY DEF Next
  <2> QED
    BY <1>2, <2>1, <2>2, <2>3, FrameAfter DEF Selecting
<1> QED
  BY <1>1, <1>2, <1>3, AllMappedSplit, StatusFacts DEF At, Selecting

LEMMA RefuseStep ==
    ASSUME TypeInv, FailInv, Refuse
    PROVE  \/ AllMapped' = AllMapped /\ Status' = Status
           \/ Coverage!Refuse
<1>1. /\ callers' = callers /\ request' = request /\ frame.pc = "enter"
      /\ frame.table = <<>> /\ frame' = Return(frame, FALSE)
  BY DEF Refuse, Local, At, FailInv
<1>2. /\ frame'.table = <<>> /\ frame'.pc = "return" /\ frame'.ok = FALSE
  BY <1>1, WithinTypes DEF Return, Frames
<1>3. Status = "building" /\ AllMapped' = AllMapped
  BY <1>1, <1>2, AllMappedSplit, StatusFacts DEF At
<1>4. ~OutOfRoom'
  BY <1>2 DEF OutOfRoom
<1>5. CASE callers = <<>>
  <2>1. AllMapped = {}
    BY <1>1, <1>5, AllMappedSplit DEF MappedBy, CallersMapped
  <2>2. Status' = "refused"
    BY <1>1, <1>2, <1>4, <1>5, StatusFacts DEF Done, At
  <2> QED
    BY <1>1, <1>3, <2>1, <2>2 DEF Coverage!Refuse, AllMapped
<1>6. CASE callers # <<>>
  BY <1>1, <1>3, <1>4, <1>6, StatusFacts
<1> QED
  BY <1>5, <1>6

LEMMA CallStep ==
    ASSUME TypeInv, CallLeft \/ CallRight
    PROVE  AllMapped' = AllMapped /\ Status' = Status
<1>1. \E label \in ProgramCounters : callers' = Append(callers, Goto(frame, label))
  BY DEF CallLeft, CallRight, Call, ProgramCounters
<1>2. frame'.table = <<>> /\ frame'.pc = "enter" /\ ~At("return")
  BY DEF CallLeft, CallRight, Call, NewFrame, At
<1>3. CallersMapped(callers') = CallersMapped(callers) \cup MappedBy(frame.table)
  <2>1. callers \in Seq(Frames) /\ frame \in Frames
    BY DEF TypeInv, SoundFrame, SoundCallers
  <2>2. PICK label \in ProgramCounters : callers' = Append(callers, Goto(frame, label))
    BY <1>1
  <2>3. Goto(frame, label) \in Frames /\ Goto(frame, label).table = frame.table
    BY <2>1, GotoTypes
  <2> QED
    BY <2>1, <2>2, <2>3, CallerPushed
<1>4. MappedBy(frame'.table) = {}
  BY <1>2 DEF MappedBy
<1> QED
  BY <1>2, <1>3, <1>4, AllMappedSplit, StatusFacts

LEMMA BuildExtends ==
    ASSUME TypeInv, RangeInv, NestInv, Build
    PROVE  \/ AllMapped' = AllMapped /\ Status' = Status
           \/ Coverage!Extend
<1>1. [Next]_vars
  BY DEF Next
<1>2. /\ callers' = callers /\ request' = request /\ frame.pc = "build"
      /\ frame'.table = Append(frame.table, BestEntry(frame)) /\ frame'.pc = "left"
  BY WithinTypes DEF Build, Local, At, Frames
<1>3. MappedBy(frame.table) \subseteq MappedBy(frame'.table)
  <2>1. frame.table \in Seq(Entries) /\ BestEntry(frame) \in Entries
    <3>1. frame.best.sub > 0
      BY <1>2 DEF TypeInv, SoundFrame
    <3> QED
      BY <3>1, WithinTypes, BestEntryType DEF Frames
  <2>2. \A i \in DOMAIN frame.table :
           i \in DOMAIN frame'.table /\ frame'.table[i] = frame.table[i]
    <3> DEFINE s == frame.table
               e == BestEntry(frame)
    <3>1. /\ Append(s, e) \in Seq(Entries) /\ Len(Append(s, e)) = Len(s) + 1
          /\ \A i \in 1 .. Len(s) : Append(s, e)[i] = s[i]
      BY <2>1, AppendProperties
    <3>2. /\ Len(s) \in Nat /\ DOMAIN s = 1 .. Len(s)
          /\ DOMAIN Append(s, e) = 1 .. Len(s) + 1
      BY <2>1, <3>1, LenProperties
    <3> HIDE DEF s, e
    <3>3. \A i \in DOMAIN s : i \in DOMAIN Append(s, e) /\ Append(s, e)[i] = s[i]
      BY <3>1, <3>2
    <3> QED
      BY <1>2, <3>3 DEF s, e
  <2> QED
    BY <2>2 DEF MappedBy
<1>4. MappedBy(frame'.table) \subseteq request.start .. CoverLimit(request.end)
  <2>1. TypeInv' /\ RangeInv' /\ NestInv'
    BY <1>1, TypeStep, RangeStep, NestStep
  <2>2. frame' \in Frames /\ FrameInv(frame') /\ WithinRequest(frame')
    BY <1>1, <2>1, FrameWithin DEF TypeInv, SoundFrame, RangeInv
  <2> QED
    BY <2>2, InsideRequest
<1>5. /\ AllMapped \subseteq AllMapped'
      /\ AllMapped' \subseteq request.start .. CoverLimit(request.end)
  <2>1. CallersMapped(callers) \subseteq request.start .. CoverLimit(request.end)
    BY AllInsideRequest, AllMappedSplit
  <2> QED
    BY <1>2, <1>3, <1>4, <2>1, AllMappedSplit
<1>6. Status = "building" /\ Status' = "building"
  BY <1>2, StatusFacts DEF At
<1> QED
  BY <1>2, <1>5, <1>6 DEF Coverage!Extend, AllMapped

LEMMA ReturnCompletes ==
    ASSUME Roomy, ReachInv, SkipRight
    PROVE  \/ AllMapped' = AllMapped /\ Status' = Status
           \/ Coverage!Complete
<1>1. [Next]_vars
  BY DEF Next
<1>2. /\ callers' = callers /\ request' = request /\ frame.pc = "right"
      /\ frame' = Return(frame, TRUE)
  BY DEF SkipRight, Local, At
<1>3. /\ frame'.table = frame.table /\ frame'.pc = "return" /\ frame'.ok = TRUE
      /\ frame'.start = frame.start /\ frame'.end = frame.end
  BY <1>2, WithinTypes DEF Return, Frames, ReachInv
<1>4. Status = "building" /\ AllMapped' = AllMapped /\ ~OutOfRoom'
  BY <1>2, <1>3, AllMappedSplit, StatusFacts DEF At, OutOfRoom
<1>5. CASE callers = <<>>
  <2>1. CoverFrame(frame')
    BY <1>1, CoverStep DEF ReachInv, CoverInv
  <2>2. Ordered(frame')
    BY <1>3 DEF ReachInv, NestInv, WithinRequest, WellPosed, ClearOfTop, Ordered
  <2>3. WholeGranules(frame.start, frame.end) \subseteq MappedBy(frame.table)
    BY <1>3, <2>1, <2>2 DEF CoverFrame, CoverPoint
  <2>4. frame.start = request.start /\ frame.end = request.end
    BY <1>5 DEF ReachInv, NestInv, Outermost
  <2>5. WholeGranules(request.start, request.end) \subseteq AllMapped
    BY <2>3, <2>4, AllMappedSplit
  <2>6. Status' = "complete"
    BY <1>2, <1>3, <1>5, StatusFacts DEF Done, At
  <2> QED
    BY <1>2, <1>4, <2>5, <2>6 DEF Coverage!Complete, AllMapped
<1>6. CASE callers # <<>>
  BY <1>2, <1>4, <1>6, StatusFacts
<1> QED
  BY <1>5, <1>6

LEMMA CopyCoverage ==
    ASSUME Roomy, ReachInv, CopyChild
    PROVE  \/ AllMapped' = AllMapped /\ Status' = Status
           \/ Coverage!Complete
           \/ Coverage!Overflow
<1> DEFINE n == Len(callers)
           parent == callers[n]
           f == WithChild(parent, frame)
           below == CallersMapped(callers')
<1>1. [Next]_vars /\ TypeInv
  BY DEF Next, ReachInv
<1>2. /\ n \in DOMAIN callers
      /\ frame \in Frames /\ parent \in Frames /\ f \in Frames
      /\ Len(parent.table) <= MaxEntries /\ parent.pc \in {"copyLeft", "copyRight"}
      /\ frame'.start = parent.start /\ frame'.end = parent.end
      /\ frame'.table = f.table
      /\ \/ /\ Copied(parent, frame) < Len(frame.table)
            /\ frame'.pc = "return" /\ frame'.ok = FALSE
         \/ /\ Copied(parent, frame) = Len(frame.table)
            /\ frame'.pc = "right" \/ (frame'.pc = "return" /\ frame'.ok = TRUE)
  BY <1>1, CopyFacts
<1>3. frame.pc = "return" /\ callers # <<>> /\ request' = request
  BY DEF CopyChild, At
<1>4. /\ CallersMapped(callers) = below \cup MappedBy(parent.table)
      /\ callers \in Seq(Frames)
  <2>1. callers \in Seq(Frames) /\ callers' = SubSeq(callers, 1, n - 1)
    BY <1>1 DEF TypeInv, SoundCallers, CopyChild
  <2> QED
    BY <1>3, <2>1, CallerPopped
<1>5. \A j \in DOMAIN frame.table : Sized(frame.table[j])
  <2>1. Ordered(frame)
    BY DEF ReachInv, NestInv, WithinRequest, WellPosed, ClearOfTop, Ordered
  <2> QED
    BY <2>1 DEF ReachInv, CoverInv, CoverFrame
<1>6. /\ MappedBy(f.table) \subseteq MappedBy(parent.table) \cup MappedBy(frame.table)
      /\ MappedBy(parent.table) \subseteq MappedBy(f.table)
      /\ Copied(parent, frame) = Len(frame.table) => MappedBy(frame.table) \subseteq MappedBy(f.table)
  <2> HIDE DEF parent
  <2> QED
    BY <1>2, <1>5, CopyMaps
<1>7. /\ AllMapped = MappedBy(frame.table) \cup below \cup MappedBy(parent.table)
      /\ AllMapped' = MappedBy(f.table) \cup below
  BY <1>2, <1>4, AllMappedSplit
<1>8. parent.table # <<>>
  BY <1>2 DEF ReachInv, CoverInv, CoverFrame, RestPoints
<1>9. Len(parent.table) \in Nat \ {0} /\ Len(frame.table) \in Nat
  <2>1. parent.table \in Seq(Entries) /\ frame.table \in Seq(Entries)
    <3> HIDE DEF parent
    <3> QED
      BY <1>2 DEF Frames
  <2> QED
    BY <1>8, <2>1, EmptySeq, LenProperties
<1>10. f.table # <<>>
  <2>1. Len(f.table) = Len(parent.table) + Copied(parent, frame)
        /\ Copied(parent, frame) \in Nat
    BY <1>2, WithChildType
  <2>2. Len(f.table) # 0
    BY <1>9, <2>1
  <2> QED
    BY <2>2, EmptySeq
<1>11. Status \in {"building", "full"} /\ (~OutOfRoom => Status = "building")
  BY <1>3, StatusFacts
<1>12. CASE /\ Copied(parent, frame) < Len(frame.table)
            /\ frame'.pc = "return" /\ frame'.ok = FALSE
  <2>1. OutOfRoom'
    BY <1>2, <1>10, <1>12 DEF OutOfRoom, At
  <2>2. Status' = "full"
    BY <2>1, StatusFacts
  <2>3. AllMapped' \subseteq AllMapped
    BY <1>6, <1>7
  <2> QED
    BY <1>3, <1>11, <2>2, <2>3 DEF Coverage!Overflow, AllMapped
<1>13. CASE /\ Copied(parent, frame) = Len(frame.table)
            /\ frame'.pc = "right" \/ (frame'.pc = "return" /\ frame'.ok = TRUE)
  <2>1. ~OutOfRoom
    <3> SUFFICES ASSUME OutOfRoom PROVE FALSE
      OBVIOUS
    <3>1. Len(frame.table) = MaxEntries
      BY DEF OutOfRoom, ReachInv, FailInv, FailsOnlyWhenFull
    <3>2. MaxEntries \in Nat
      BY CalculatorAssumption, RegionAssumption
    <3> HIDE DEF parent
    <3> QED
      BY <1>9, <1>13, <3>1, <3>2 DEF Copied
  <2>2. AllMapped' = AllMapped /\ Status = "building" /\ ~OutOfRoom'
    BY <1>6, <1>7, <1>11, <1>13, <2>1 DEF OutOfRoom, At
  <2>3. CASE frame'.pc = "right" \/ callers' # <<>>
    BY <2>2, <2>3, StatusFacts
  <2>4. CASE frame'.pc = "return" /\ frame'.ok = TRUE /\ callers' = <<>>
    <3>1. CoverFrame(frame')
      BY <1>1, CoverStep DEF ReachInv, CoverInv
    <3>2. /\ frame'.start = request.start /\ frame'.end = request.end
          /\ Ordered(frame')
      <4>1. NestInv'
        BY <1>1, NestStep DEF ReachInv
      <4> QED
        BY <1>3, <2>4, <4>1 DEF NestInv, Outermost, WithinRequest, WellPosed, ClearOfTop, Ordered
    <3>3. WholeGranules(request.start, request.end) \subseteq MappedBy(frame'.table)
      BY <2>4, <3>1, <3>2 DEF CoverFrame, CoverPoint
    <3>4. WholeGranules(request.start, request.end) \subseteq AllMapped
      BY <1>2, <1>7, <2>2, <3>3
    <3>5. Status' = "complete"
      BY <2>4, StatusFacts DEF Done, At
    <3> QED
      BY <1>3, <2>2, <3>4, <3>5 DEF Coverage!Complete, AllMapped
  <2> QED
    BY <1>13, <2>3, <2>4
<1> QED
  BY <1>2, <1>12, <1>13

LEMMA CoverageStep ==
    ASSUME Roomy
    PROVE  ReachInv /\ [Next]_vars => [Coverage!Next]_(Coverage!vars)
<1> SUFFICES ASSUME ReachInv, [Next]_vars
             PROVE  \/ AllMapped' = AllMapped /\ Status' = Status
                    \/ Coverage!Next
  BY CoverageStutter
<1> USE DEF ReachInv
<1>1. CASE UNCHANGED vars
  BY <1>1 DEF vars, AllMapped, Calculators, Status, OutOfRoom, Done, At
<1>2. CASE Refuse
  BY <1>2, RefuseStep DEF Coverage!Next
<1>3. CASE SelectFullRange \/ StartSelection \/ TryBefore \/ TryAfter \/ SkipLeft
  BY <1>3, SelectingStep
<1>4. CASE Build
  BY <1>4, BuildExtends DEF Coverage!Next
<1>5. CASE CallLeft \/ CallRight
  BY <1>5, CallStep
<1>6. CASE SkipRight
  BY <1>6, ReturnCompletes DEF Coverage!Next
<1>7. CASE CopyChild
  BY <1>7, CopyCoverage DEF Coverage!Next
<1> QED
  BY <1>1, <1>2, <1>3, <1>4, <1>5, <1>6, <1>7 DEF Next

(* For well-posed requests, every step of the calculators on the stack is  *)
(* a step of MpuCoverage, taken for all of their tables together, or none: *)
(* what is mapped only grows and stays inside the request, true is only    *)
(* returned when each granule is mapped, and entries are only dropped when *)
(* a table is full.                                                        *)
THEOREM CoverageSteps ==
    ASSUME Roomy, AllPosed
    PROVE  Spec => Coverage!Init /\ [][Coverage!Next]_(Coverage!vars)
<1>1. Init => TypeInv /\ RegionsConsecutive /\ RangeInv /\ FailInv /\ CoverInv /\ NestInv
  <2>1. Init => FailInv
    BY DEF Init, NewFrame, FailInv, FailsOnlyWhenFull, At
  <2> QED
    BY <2>1, TypeInit, NumberInit, RangeInit, CoverInit, NestInit
<1>2. ReachInv /\ [Next]_vars => ReachInv'
  BY TypeStep, NumberStep, RangeStep, FailStep, CoverStep, NestStep DEF ReachInv
<1>3. Init => ReachInv
  BY <1>1 DEF ReachInv
<1>4. ReachInv /\ [Next]_vars => [Coverage!Next]_(Coverage!vars)
  BY CoverageStep
<1> QED
  BY <1>2, <1>3, <1>4, CoverageInit, PTL DEF Spec

(* A call that ends implements MpuCoverage, with its promise to settle.    *)
(* That every call ends (Terminates) is liveness.                          *)
THEOREM CoverageImplemented ==
    ASSUME Roomy, AllPosed
    PROVE  Spec /\ Terminates => ImplementsCoverage
<1>1. Spec => Coverage!Init /\ [][Coverage!Next]_(Coverage!vars)
  BY CoverageSteps
<1>2. Done => Status # "building"
  BY DEF Status, OutOfRoom, Done
<1>3. Terminates => Coverage!Settles
  BY <1>2, PTL DEF Terminates, Coverage!Settles
<1> QED
  BY <1>1, <1>3, PTL DEF ImplementsCoverage, Coverage!Spec

------------------------------------------------------------------------------
(***************************************************************************)
(* The selected entry is the largest: how much a region can cover          *)
(***************************************************************************)
Clear(f) == ClearOfTop(f.start, f.end)

(* The subregions of the region at base that lie in the range.             *)
Fitting(f, sub, base) ==
    {i \in Subregions : f.start <= base + i * sub /\ base + (i + 1) * sub - 1 <= f.end}

LEMMA ClearBounds ==
    ASSUME NEW f \in Frames, Clear(f)
    PROVE  /\ f.start \in Nat /\ f.end \in Nat /\ f.end < WordSize
           /\ f.start <= f.end /\ f.start + 4 * Granule <= WordSize
           /\ f.end + 4 * Granule <= WordSize \/ f.end = LastAddress
<1> DEFINE start == f.start
           end == f.end
<1>1. start \in Nat /\ end \in Nat /\ end < WordSize
  <2>1. start \in Addresses /\ end \in Addresses
    BY DEF Frames
  <2> HIDE DEF start, end
  <2> QED
    BY <2>1, Constants DEF Addresses
<1>2. /\ start <= end
      /\ \/ end + 4 * Granule <= WordSize
         \/ end = LastAddress /\ start + 4 * Granule <= WordSize
  BY DEF Clear, ClearOfTop
<1> HIDE DEF start, end
<1>3. start + 4 * Granule <= WordSize
  BY <1>1, <1>2, Constants
<1> QED
  BY <1>1, <1>2, <1>3 DEF start, end

(* No size that is tried reaches beyond the top from start.                *)
LEMMA ClearRoom ==
    ASSUME NEW f \in Frames, Clear(f), ~IsFullRange(f),
           NEW sub \in PowersOfTwo, sub <= MaxSubregionSize(f)
    PROVE  f.start + sub <= WordSize
<1> DEFINE start == f.start
           max == MaxSubregionSize(f)
<1>1. /\ start \in Nat /\ start + 4 * Granule <= WordSize
      /\ start + max <= WordSize \/ max = 4 * Granule
  BY ClearBounds, MaxSubregionFits
<1>2. sub \in Nat /\ max \in Nat /\ WordSize \in Nat /\ Granule \in Nat /\ sub <= max
  BY Constants, MaxSubregionSizeType
<1> HIDE DEF start, max
<1>3. start + sub <= WordSize
  BY <1>1, <1>2
<1> QED
  BY <1>3 DEF start

(* Of the subregions that lie in the range there are as many as there are. *)
LEMMA FittingFinite ==
    ASSUME NEW f, NEW sub, NEW base
    PROVE  /\ IsFiniteSet(Fitting(f, sub, base))
           /\ Cardinality(Fitting(f, sub, base)) \in 0 .. 8
           /\ FitsIn(f, sub, base) = sub * Cardinality(Fitting(f, sub, base))
<1>1. IsFiniteSet(Subregions) /\ Cardinality(Subregions) = 8
  <2>1. 0 \in Int /\ 7 \in Int /\ ~(0 > 7) /\ 7 - 0 + 1 = 8
    OBVIOUS
  <2>2. IsFiniteSet(0 .. 7) /\ Cardinality(0 .. 7) = 8
    BY <2>1, FS_Interval
  <2> QED
    BY <2>2 DEF Subregions
<1>2. Fitting(f, sub, base) \in SUBSET Subregions
  BY DEF Fitting
<1>3. IsFiniteSet(Fitting(f, sub, base)) /\ Cardinality(Fitting(f, sub, base)) <= 8
  BY <1>1, <1>2, FS_Subset
<1>4. Cardinality(Fitting(f, sub, base)) \in Nat
  BY <1>3, FS_CardinalityType
<1>5. FitsIn(f, sub, base) = sub * Cardinality(Fitting(f, sub, base))
  BY DEF FitsIn, Fitting
<1> QED
  BY <1>3, <1>4, <1>5

(* A try counts every subregion of its region that lies in the range, and  *)
(* the one that ends one byte beyond it unless that is the region's first. *)
LEMMA FittingCounted ==
    ASSUME NEW f \in Frames, NEW sub \in PowersOfTwo, Granule <= sub,
           f.start + sub <= WordSize, NEW base \in Addresses,
           NEW g \in Frames, g.start = f.start, g.end <= f.end + 1,
           g.end <= f.end \/ base + sub - 1 <= f.end
    PROVE  Cardinality(Fitting(g, sub, base)) <= NumSubregions(f, sub, base)
<1> DEFINE i == FirstSubregion(f, sub, base)
           k == NumSubregions(f, sub, base)
           l == LastSubregion(f, sub, base)
           start == f.start
           end == f.end
           last == g.end
           S == Fitting(g, sub, base)
<1>1. sub \in Nat \ {0} /\ sub >= 2 /\ WordSize \in Nat
  BY Constants
<1>2. /\ start \in Nat /\ end \in Nat /\ end < WordSize /\ base \in Nat /\ base < WordSize
      /\ last \in Nat /\ last <= end + 1 /\ (last <= end \/ base + sub - 1 <= end)
  <2>1. /\ start \in Addresses /\ end \in Addresses /\ base \in Addresses /\ last \in Addresses
        /\ last <= end + 1 /\ (last <= end \/ base + sub - 1 <= end)
    BY DEF Frames
  <2> HIDE DEF start, end, last
  <2> QED
    BY <2>1, Constants DEF Addresses
<1>3. /\ i \in Nat /\ start <= base + i * sub
      /\ start <= base => i = 0
      /\ start > base => base + i * sub < start + sub
  BY <1>1, FirstSubregionBounds
<1>4. k \in 0 .. 8
  BY <1>1, SelectionTypes
<1>5. CASE S = {}
  <2>1. Cardinality(S) = 0
    BY <1>5, FS_EmptySet
  <2>2. 0 <= k
    <3> HIDE DEF k
    <3> QED
      BY <1>4
  <2> QED
    BY <2>1, <2>2
<1>6. CASE S # {}
  <2>1. ASSUME NEW j \in S
        PROVE  /\ i <= j /\ j <= l /\ j <= 7 /\ j \in Nat
               /\ base + sub - 1 <= end /\ l \in 0 .. 7
    <3>1. /\ j \in Nat /\ j <= 7
          /\ start <= base + j * sub /\ base + (j + 1) * sub - 1 <= last
      BY <2>1 DEF Fitting, Subregions
    <3> DEFINE a == i * sub
               b == j * sub
    <3>2. (j + 1) * sub = b + sub /\ a \in Nat /\ b \in Nat
      BY <1>1, <1>3, <3>1
    <3>3. base + b + sub - 1 <= last /\ start <= base + b
      <4> HIDE DEF start, end, last
      <4>1. base + (b + sub) - 1 <= last
        BY <3>1, <3>2
      <4> HIDE DEF b
      <4> QED
        BY <1>1, <1>2, <3>1, <3>2, <4>1 DEF b
    <3>4. base + sub - 1 <= end
      <4> HIDE DEF start, end, last, a, b
      <4> QED
        BY <1>1, <1>2, <3>2, <3>3
    <3>5. l \in 0 .. 7 /\ (l = 7 \/ base + l * sub + 2 * sub > end + 2)
      BY <1>1, <3>4, LastSubregionBounds
    <3> HIDE DEF start, end, last, i, l
    <3>6. i <= j
      <4> SUFFICES ASSUME j + 1 <= i PROVE FALSE
        BY <1>3, <3>1
      <4>1. (j + 1) * sub <= i * sub
        BY <1>1, <1>3, <3>1, ProductMonotonic
      <4>2. b + sub <= a
        BY <3>2, <4>1
      <4>3. start > base => base + a < start + sub
        BY <1>3
      <4>4. start > base
        BY <1>2, <1>3, <3>1
      <4> HIDE DEF a, b
      <4> QED
        BY <1>1, <1>2, <3>2, <3>3, <4>2, <4>3, <4>4
    <3>7. j <= l
      <4> SUFFICES ASSUME l + 1 <= j PROVE FALSE
        BY <3>1, <3>5
      <4> DEFINE c == l * sub
      <4>1. l \in Nat /\ l + 1 \in Nat /\ l # 7
        BY <3>1, <3>5
      <4>2. (l + 1) * sub <= j * sub /\ (l + 1) * sub = c + sub /\ c \in Nat
        BY <1>1, <3>1, <4>1, ProductMonotonic
      <4>3. c + sub <= b /\ base + c + 2 * sub > end + 2
        BY <3>5, <4>1, <4>2
      <4> HIDE DEF b, c
      <4> QED
        BY <1>1, <1>2, <3>2, <3>3, <4>2, <4>3
    <3> QED
      BY <3>1, <3>4, <3>5, <3>6, <3>7
  <2>2. PICK j : j \in S
    BY <1>6
  <2>3. /\ i <= l /\ i <= 7 /\ l \in Nat /\ base + sub - 1 <= end
    <3> HIDE DEF i, l, S, end
    <3> QED
      BY <1>3, <2>1, <2>2
  <2>4. Wrap(base + sub - 1) = base + sub - 1
    <3> HIDE DEF end
    <3>1. base + sub - 1 \in Addresses /\ base + sub - 1 \in Int
      BY <1>1, <1>2, <2>3, Constants DEF Addresses
    <3> QED
      BY <3>1, WrapAddress
  <2>5. k = IF i > 7 \/ l < i \/ base + sub - 1 > end THEN 0 ELSE l - i + 1
    BY <2>4 DEF NumSubregions
  <2> HIDE DEF i, k, l, end
  <2>6. k = l - i + 1
    <3>1. ~(i > 7) /\ ~(l < i) /\ ~(base + sub - 1 > end)
      BY <1>1, <1>2, <1>3, <2>3
    <3> QED
      BY <2>5, <3>1
  <2>7. S \subseteq i .. l
    <3> HIDE DEF S
    <3> QED
      BY <1>3, <2>1, <2>3
  <2>8. IsFiniteSet(i .. l) /\ Cardinality(i .. l) = l - i + 1
    <3>1. i \in Int /\ l \in Int /\ ~(i > l)
      BY <1>3, <2>3
    <3> QED
      BY <3>1, FS_Interval
  <2>9. Cardinality(S) <= Cardinality(i .. l)
    BY <2>7, <2>8, FS_Subset
  <2> QED
    BY <2>6, <2>8, <2>9 DEF k
<1> QED
  BY <1>5, <1>6

(* What a try reckons with does not wrap.                                  *)
LEMMA ClearTrySize ==
    ASSUME NEW f \in Frames, Clear(f), ~IsFullRange(f),
           NEW sub \in PowersOfTwo, Granule <= sub, f.start + sub <= WordSize,
           NEW base \in {RegionBefore(f, sub), RegionAfter(f, sub)}
    PROVE  ActualSize(f, sub, base) = NumSubregions(f, sub, base) * sub
<1> DEFINE i == FirstSubregion(f, sub, base)
           k == NumSubregions(f, sub, base)
           start == f.start
           end == f.end
           a == i * sub
           b == k * sub
<1>1. /\ sub \in Nat \ {0} /\ WordSize \in Nat /\ Granule \in Nat /\ Granule >= 2
  BY Constants
<1>2. base \in Nat
  BY Bases DEF Addresses
<1>3. k \in 0 .. 8
  <2>1. base \in Addresses
    BY Bases
  <2> QED
    BY <1>1, <2>1, SelectionTypes
<1>4. CASE k = 0
  BY <1>1, <1>4, NoneCovered
<1>5. CASE k # 0
  <2>1. Covers(f, sub, base, i, k)
    <3>1. k > 0
      <4> HIDE DEF k
      <4> QED
        BY <1>3, <1>5
    <3> QED
      BY <3>1, TryBounds
  <2>2. /\ start \in Nat /\ end \in Nat /\ end < WordSize
        /\ end + 4 * Granule <= WordSize \/ end = WordSize - 1
    BY ClearBounds DEF LastAddress
  <2>3. ~(start = 0 /\ end = WordSize - 1)
    BY DEF IsFullRange, LastAddress
  <2>4. /\ i \in Nat /\ k \in Nat \ {0}
        /\ start <= base + a
        /\ base + a + b <= end + 2
        /\ base + a + b <= WordSize
    BY <2>1 DEF Covers
  <2> HIDE DEF i, k, start, end
  <2>5. a \in Nat /\ b \in Nat
    BY <1>1, <2>4
  <2> HIDE DEF a, b
  <2>6. b < WordSize
    <3> SUFFICES ASSUME b >= WordSize PROVE FALSE
      BY <1>1, <2>5
    <3>1. start = 0 /\ WordSize <= end + 2
      BY <1>1, <1>2, <2>2, <2>4, <2>5
    <3> QED
      BY <1>1, <2>2, <2>3, <3>1
  <2>7. b \in Addresses /\ b \in Int
    BY <1>1, <2>5, <2>6 DEF Addresses
  <2>8. Wrap(b) = b
    BY <2>7, WrapAddress
  <2> QED
    BY <2>8 DEF ActualSize, b, k
<1> QED
  BY <1>4, <1>5

(* A try reckons with at least what its region has in the range.           *)
LEMMA TryLargest ==
    ASSUME NEW f \in Frames, Clear(f), ~IsFullRange(f),
           NEW sub \in PowersOfTwo, Granule <= sub, f.start + sub <= WordSize,
           NEW base \in {RegionBefore(f, sub), RegionAfter(f, sub)},
           NEW g \in Frames, g.start = f.start, g.end <= f.end + 1,
           g.end <= f.end \/ base + sub - 1 <= f.end
    PROVE  FitsIn(g, sub, base) <= ActualSize(f, sub, base)
<1> DEFINE c == Cardinality(Fitting(g, sub, base))
           k == NumSubregions(f, sub, base)
<1>1. base \in Addresses /\ sub \in Nat \ {0}
  BY Bases, Constants
<1>2. c \in Nat /\ k \in Nat /\ c <= k /\ FitsIn(g, sub, base) = sub * c
  BY <1>1, FittingFinite, FittingCounted, SelectionTypes
<1>3. ActualSize(f, sub, base) = k * sub
  BY ClearTrySize
<1> HIDE DEF c, k
<1>4. c * sub <= k * sub /\ sub * c = c * sub
  BY <1>1, <1>2, ProductMonotonic
<1> QED
  BY <1>2, <1>3, <1>4

------------------------------------------------------------------------------
(* A region that ends before start has nothing in the range, and one that  *)
(* begins before end lies in it as a whole if it does not begin too early. *)
LEMMA NothingFits ==
    ASSUME NEW f \in Frames, NEW sub \in Nat \ {0}, NEW base \in Nat,
           base + 8 * sub <= f.start
    PROVE  FitsIn(f, sub, base) = 0
<1> DEFINE start == f.start
<1>1. start \in Nat
  BY DEF Frames, Addresses
<1>2. Fitting(f, sub, base) = {}
  <2> SUFFICES ASSUME NEW i \in Subregions, start <= base + i * sub PROVE FALSE
    BY DEF Fitting
  <2>1. i \in Nat /\ i + 1 <= 8 /\ base + 8 * sub <= start
    BY DEF Subregions
  <2>2. (i + 1) * sub <= 8 * sub /\ (i + 1) * sub = i * sub + sub /\ i * sub \in Nat
    BY <2>1, ProductMonotonic
  <2> DEFINE a == i * sub
  <2>3. a + sub <= 8 * sub /\ a \in Nat /\ start <= base + a
    BY <2>2
  <2> HIDE DEF start, a
  <2> QED
    BY <1>1, <2>1, <2>3
<1>3. Cardinality(Fitting(f, sub, base)) = 0
  BY <1>2, FS_EmptySet
<1>4. FitsIn(f, sub, base) = sub * Cardinality(Fitting(f, sub, base))
  BY FittingFinite
<1> QED
  BY <1>3, <1>4

LEMMA AllFits ==
    ASSUME NEW f \in Frames, NEW sub \in Nat \ {0}, NEW base \in Nat,
           f.start <= base, base + 8 * sub - 1 <= f.end
    PROVE  FitsIn(f, sub, base) = 8 * sub
<1> DEFINE start == f.start
           end == f.end
<1>1. start \in Nat /\ end \in Nat
  BY DEF Frames, Addresses
<1>2. Fitting(f, sub, base) = 0 .. 7
  <2> SUFFICES ASSUME NEW i \in 0 .. 7
               PROVE  start <= base + i * sub /\ base + (i + 1) * sub - 1 <= end
    BY DEF Fitting, Subregions
  <2>1. i \in Nat /\ i + 1 <= 8 /\ start <= base /\ base + 8 * sub - 1 <= end
    OBVIOUS
  <2> DEFINE a == i * sub
             b == (i + 1) * sub
  <2>2. a \in Nat /\ b \in Nat /\ b <= 8 * sub
    BY <2>1, ProductMonotonic
  <2> HIDE DEF start, end, a, b
  <2>3. start <= base + a /\ base + b - 1 <= end
    BY <1>1, <2>1, <2>2
  <2> QED
    BY <2>3 DEF a, b
<1>3. Cardinality(0 .. 7) = 8
  <2>1. 0 \in Int /\ 7 \in Int /\ ~(0 > 7) /\ 7 - 0 + 1 = 8
    OBVIOUS
  <2> QED
    BY <2>1, FS_Interval
<1>4. FitsIn(f, sub, base) = sub * Cardinality(Fitting(f, sub, base))
  BY FittingFinite
<1> QED
  BY <1>2, <1>3, <1>4

LEMMA FitsBounds ==
    ASSUME NEW f, NEW sub \in Nat, NEW base
    PROVE  FitsIn(f, sub, base) \in Nat /\ FitsIn(f, sub, base) <= 8 * sub
<1> DEFINE c == Cardinality(Fitting(f, sub, base))
<1>1. c \in 0 .. 8 /\ FitsIn(f, sub, base) = sub * c
  BY FittingFinite
<1> HIDE DEF c
<1>2. c \in Nat /\ c <= 8 /\ sub * c = c * sub
  BY <1>1
<1>3. c * sub <= 8 * sub /\ c * sub \in Nat
  BY <1>2, ProductMonotonic
<1> QED
  BY <1>1, <1>2, <1>3

(* A region with anything in the range begins by its end.                  *)
LEMMA SomethingFits ==
    ASSUME NEW f \in Frames, NEW sub \in Nat \ {0}, NEW base \in Nat, FitsIn(f, sub, base) # 0
    PROVE  base <= f.end
<1> DEFINE end == f.end
<1>1. end \in Nat
  BY DEF Frames, Addresses
<1>2. Fitting(f, sub, base) # {}
  <2> SUFFICES ASSUME Fitting(f, sub, base) = {} PROVE FALSE
    OBVIOUS
  <2>1. Cardinality(Fitting(f, sub, base)) = 0
    BY FS_EmptySet
  <2>2. FitsIn(f, sub, base) = sub * Cardinality(Fitting(f, sub, base))
    BY FittingFinite
  <2> QED
    BY <2>1, <2>2
<1>3. PICK i \in Subregions : base + (i + 1) * sub - 1 <= end
  BY <1>2 DEF Fitting
<1>4. i \in Nat
  BY DEF Subregions
<1>5. 1 * sub <= (i + 1) * sub /\ (i + 1) * sub \in Nat
  BY <1>4, ProductMonotonic
<1> DEFINE b == (i + 1) * sub
<1>6. b \in Nat /\ sub <= b /\ base + b - 1 <= end
  BY <1>3, <1>5
<1> HIDE DEF end, b
<1>7. base <= end
  BY <1>1, <1>6
<1> QED
  BY <1>7 DEF end

(* No aligned region has more in the range than the one that contains      *)
(* start, or, if start is not its base, the next one.                      *)
LEMMA TwoSuffice ==
    ASSUME NEW f \in Frames, NEW sub \in PowersOfTwo, 8 * sub <= WordSize,
           NEW n \in Nat, n * 8 * sub + 8 * sub <= WordSize
    PROVE  \/ FitsIn(f, sub, n * 8 * sub) <= FitsIn(f, sub, RegionBefore(f, sub))
           \/ /\ RegionBefore(f, sub) # f.start
              /\ FitsIn(f, sub, n * 8 * sub) <= FitsIn(f, sub, RegionAfter(f, sub))
<1> DEFINE size == 8 * sub
           c == n * 8 * sub
           b == RegionBefore(f, sub)
           start == f.start
           end == f.end
<1>1. /\ sub \in Nat \ {0} /\ size \in Nat \ {0} /\ WordSize \in Nat /\ size <= WordSize
      /\ size = 8 * sub
  BY Constants
<1>2. start \in Nat /\ end \in Nat
  BY DEF Frames, Addresses
<1>3. /\ b \in Nat /\ (b % size) = 0 /\ b <= start /\ start < b + size
      /\ b + size <= WordSize
  BY BeforeAround
<1>4. c \in Nat /\ (c % size) = 0 /\ c + size <= WordSize
  <2>1. c = size * n /\ c \in Nat
    BY <1>1
  <2>2. ((size * n) % size) = 0
    BY <1>1, Multiple
  <2>3. c + size <= WordSize
    OBVIOUS
  <2> QED
    BY <2>1, <2>2, <2>3
<1>5. FitsIn(f, sub, c) \in Nat /\ FitsIn(f, sub, c) <= size /\ FitsIn(f, sub, b) \in Nat
  BY <1>1, FitsBounds
<1>6. CASE FitsIn(f, sub, c) = 0
  <2> HIDE DEF c, b
  <2>1. FitsIn(f, sub, c) <= FitsIn(f, sub, b)
    BY <1>5, <1>6
  <2> QED
    BY <2>1 DEF c, b
<1>7. CASE c < b
  <2>1. c + size <= b
    <3> HIDE DEF c, b, size
    <3> QED
      BY <1>1, <1>3, <1>4, <1>7, MultipleGap
  <2>2. c + 8 * sub <= start
    <3> HIDE DEF c, b, start
    <3> QED
      BY <1>1, <1>2, <1>3, <1>4, <2>1
  <2>3. FitsIn(f, sub, c) = 0
    <3> HIDE DEF c
    <3> QED
      BY <1>1, <1>4, <2>2, NothingFits
  <2> QED
    BY <1>6, <2>3
<1>8. CASE c = b
  <2>1. FitsIn(f, sub, c) <= FitsIn(f, sub, b)
    <3> HIDE DEF c, b
    <3> QED
      BY <1>5, <1>8
  <2> QED
    BY <2>1
<1>9. CASE b < c /\ FitsIn(f, sub, c) # 0
  <2>1. b + size <= c
    <3> HIDE DEF c, b, size
    <3> QED
      BY <1>1, <1>3, <1>4, <1>9, MultipleGap
  <2>2. c <= end
    <3> HIDE DEF c
    <3> QED
      BY <1>1, <1>4, <1>9, SomethingFits
  <2>3. CASE b = start
    <3>1. start <= b /\ b + 8 * sub - 1 <= end
      <4> HIDE DEF c, b, start, end
      <4> QED
        BY <1>1, <1>2, <1>3, <1>4, <2>1, <2>2, <2>3
    <3>2. FitsIn(f, sub, b) = 8 * sub
      <4> HIDE DEF b
      <4> QED
        BY <1>1, <1>3, <3>1, AllFits
    <3>3. FitsIn(f, sub, c) <= FitsIn(f, sub, b)
      BY <1>5, <3>2
    <3> QED
      BY <3>3
  <2>4. CASE b # start
    <3> DEFINE a == b + size
    <3>1. size < WordSize /\ b + size # WordSize
      <4> HIDE DEF c, b, size
      <4> QED
        BY <1>1, <1>3, <1>4, <2>1
    <3>2. RegionAfter(f, sub) = a
      BY <2>4, <3>1, After
    <3>3. a \in Nat /\ start <= a /\ (a % size) = 0 /\ a <= c
      <4>1. (size % size) = 0
        <5> HIDE DEF size
        <5> QED
          BY <1>1
      <4> HIDE DEF b, size, start, c
      <4>2. (a % size) = 0
        BY <1>1, <1>3, <4>1, MultipleSum
      <4>3. a \in Nat /\ start <= a /\ a <= c
        BY <1>1, <1>2, <1>3, <2>1
      <4> QED
        BY <4>2, <4>3
    <3> HIDE DEF a
    <3>4. CASE c = a
      <4>1. FitsIn(f, sub, c) <= FitsIn(f, sub, a)
        <5> HIDE DEF c
        <5> QED
          BY <1>5, <3>4
      <4> QED
        BY <2>4, <3>2, <4>1
    <3>5. CASE c # a
      <4>1. a + size <= c
        <5> HIDE DEF c, size
        <5>1. a < c
          BY <1>4, <3>3, <3>5
        <5> QED
          BY <1>1, <1>4, <3>3, <5>1, MultipleGap
      <4>2. a + 8 * sub - 1 <= end
        <5> HIDE DEF c, end
        <5> QED
          BY <1>1, <1>2, <1>4, <2>2, <3>3, <4>1
      <4>3. FitsIn(f, sub, a) = 8 * sub
        BY <1>1, <3>3, <4>2, AllFits
      <4>4. FitsIn(f, sub, c) <= FitsIn(f, sub, a)
        BY <1>5, <4>3
      <4> QED
        BY <2>4, <3>2, <4>4
    <3> QED
      BY <3>4, <3>5
  <2> QED
    BY <2>3, <2>4
<1>10. c < b \/ c = b \/ b < c
  <2> HIDE DEF c, b
  <2> QED
    BY <1>3, <1>4
<1> QED
  BY <1>6, <1>7, <1>8, <1>9, <1>10

------------------------------------------------------------------------------
(***************************************************************************)
(* The selected entry is the largest: the loop over subregion sizes        *)
(***************************************************************************)

(* The best candidate covers no less than the two candidates of this size, *)
(* or no less than any region of this size could.                          *)
Compared(f, sub) ==
    \/ 8 * sub <= f.best.size
    \/ /\ ActualSize(f, sub, RegionBefore(f, sub)) <= f.best.size
       /\ (RegionBefore(f, sub) # f.start
             => ActualSize(f, sub, RegionAfter(f, sub)) <= f.best.size)

(* The sizes above low that the loop considers are settled.                *)
SettledAbove(f, low) ==
    \A sub \in PowersOfTwo :
        Granule <= sub /\ low < sub /\ sub <= MaxSubregionSize(f) => Compared(f, sub)

Trying(f) == ~IsFullRange(f) /\ f.sub <= MaxSubregionSize(f) /\ SettledAbove(f, f.sub)

LargestPoint(f) ==
    /\ f.pc = "before" => Trying(f)
    /\ f.pc = "after" =>
          Trying(f) /\ ActualSize(f, f.sub, RegionBefore(f, f.sub)) <= f.best.size
    /\ f.pc = "build" /\ ~IsFullRange(f) => SettledAbove(f, 0)

LargestInv == Clear(frame) => LargestPoint(frame)

LEMMA SameFits ==
    ASSUME NEW f, NEW g, g.start = f.start, g.end = f.end
    PROVE  /\ Clear(g) = Clear(f) /\ IsFullRange(g) = IsFullRange(f)
           /\ MaxSubregionSize(g) = MaxSubregionSize(f)
           /\ \A sub, base : FitsIn(g, sub, base) = FitsIn(f, sub, base)
           /\ \A sub : RegionBefore(g, sub) = RegionBefore(f, sub)
<1>1. Clear(g) = Clear(f) /\ IsFullRange(g) = IsFullRange(f)
  BY DEF Clear, IsFullRange
<1>2. MaxSubregionSize(g) = MaxSubregionSize(f)
  BY DEF MaxSubregionSize, RequestSize
<1>3. \A sub, base : FitsIn(g, sub, base) = FitsIn(f, sub, base)
  BY DEF FitsIn
<1>4. \A sub : RegionBefore(g, sub) = RegionBefore(f, sub)
  BY DEF RegionBefore
<1> QED
  BY <1>1, <1>2, <1>3, <1>4

LEMMA CandidateSizes ==
    ASSUME NEW f \in Frames, NEW sub \in PowersOfTwo
    PROVE  /\ ActualSize(f, sub, RegionBefore(f, sub)) \in Nat
           /\ ActualSize(f, sub, RegionAfter(f, sub)) \in Nat
<1>1. sub \in Nat \ {0}
  BY Constants
<1>2. RegionBefore(f, sub) \in Addresses /\ RegionAfter(f, sub) \in Addresses
  BY <1>1, RegionTypes, Constants
<1>3. /\ ActualSize(f, sub, RegionBefore(f, sub)) \in Addresses
      /\ ActualSize(f, sub, RegionAfter(f, sub)) \in Addresses
  BY <1>1, <1>2, SelectionTypes
<1>4. \A x \in Addresses : x \in Nat
  BY DEF Addresses
<1> QED
  BY <1>3, <1>4

(* A best candidate that covers more settles what the old one settled.     *)
LEMMA SettledKept ==
    ASSUME NEW f \in Frames, NEW g, g.start = f.start, g.end = f.end,
           f.best.size \in Nat, g.best.size \in Nat, f.best.size <= g.best.size, NEW low
    PROVE  /\ \A sub \in PowersOfTwo : Compared(f, sub) => Compared(g, sub)
           /\ SettledAbove(f, low) => SettledAbove(g, low)
<1> DEFINE old == f.best.size
           new == g.best.size
<1>1. ASSUME NEW sub \in PowersOfTwo, Compared(f, sub) PROVE Compared(g, sub)
  <2> DEFINE b == RegionBefore(f, sub)
             a == RegionAfter(f, sub)
             before == ActualSize(f, sub, b)
             after == ActualSize(f, sub, a)
  <2>1. \/ 8 * sub <= old
        \/ before <= old /\ (b # f.start => after <= old)
    BY <1>1 DEF Compared
  <2>2. /\ RegionBefore(g, sub) = b /\ RegionAfter(g, sub) = a
        /\ ActualSize(g, sub, b) = before /\ ActualSize(g, sub, a) = after
    BY SameRange
  <2>3. before \in Nat /\ after \in Nat /\ old \in Nat /\ new \in Nat /\ old <= new /\ sub \in Nat
    BY CandidateSizes, Constants
  <2> HIDE DEF before, after, old, new, a, b
  <2>4. \/ 8 * sub <= new
        \/ before <= new /\ (b # f.start => after <= new)
    BY <2>1, <2>3
  <2> QED
    BY <2>2, <2>4 DEF Compared, new
<1>2. MaxSubregionSize(g) = MaxSubregionSize(f)
  BY SameFits
<1> QED
  BY <1>1, <1>2 DEF SettledAbove

(* A region that is used as a whole settles the smaller sizes.             *)
LEMMA WholeSettles ==
    ASSUME NEW f \in Frames, NEW sub \in PowersOfTwo, 8 * sub <= f.best.size,
           SettledAbove(f, sub)
    PROVE  SettledAbove(f, 0)
<1> DEFINE best == f.best.size
<1>1. best \in Nat /\ sub \in Nat
  BY Constants DEF Frames, Candidates, Addresses
<1>2. ASSUME NEW s \in PowersOfTwo, Granule <= s, s <= MaxSubregionSize(f)
      PROVE  Compared(f, s)
  <2>1. s \in Nat
    BY Constants
  <2>2. CASE sub < s
    BY <1>2, <2>2 DEF SettledAbove
  <2>3. CASE s <= sub
    <3>1. 8 * sub <= best
      OBVIOUS
    <3> HIDE DEF best
    <3>2. 8 * s <= best
      BY <1>1, <2>1, <2>3, <3>1
    <3> QED
      BY <3>2 DEF Compared, best
  <2> QED
    BY <1>1, <2>1, <2>2, <2>3
<1> QED
  BY <1>2 DEF SettledAbove

(* Leaving a settled size behind.                                          *)
LEMMA HalveSettles ==
    ASSUME NEW f \in Frames, f.sub \in PowersOfTwo, Granule <= f.sub,
           Trying(f), Compared(f, f.sub)
    PROVE  LargestPoint(HalveSize(f))
<1> DEFINE h == HalveSize(f)
           sub == f.sub
           half == sub \div 2
           max == MaxSubregionSize(f)
<1>1. /\ sub \in Nat \ {0} /\ sub \in PowersOfTwo /\ sub # 1 /\ max \in Nat
      /\ Granule \in Nat \ {0} /\ Granule >= 2 /\ sub <= max
  <2>1. sub \in Nat \ {0} /\ sub \in PowersOfTwo /\ Granule <= sub /\ sub <= max
    BY Constants DEF Trying
  <2>2. max \in Nat
    BY MaxSubregionSizeType, Constants
  <2> HIDE DEF sub, max
  <2> QED
    BY <2>1, <2>2, Constants
<1>2. half \in PowersOfTwo /\ sub = 2 * half /\ half \in Nat
  BY <1>1, HalfPower, Constants
<1>3. /\ h.start = f.start /\ h.end = f.end /\ h.best = f.best /\ h.sub = half
      /\ h.pc = IF half >= Granule THEN "before" ELSE "build"
  BY DEF HalveSize, Frames
<1>4. f.best.size \in Nat
  BY DEF Frames, Candidates, Addresses
<1>5. SettledAbove(f, half)
  <2> SUFFICES ASSUME NEW s \in PowersOfTwo, Granule <= s, half < s, s <= max
               PROVE  Compared(f, s)
    BY DEF SettledAbove
  <2>1. CASE sub < s
    BY <2>1 DEF Trying, SettledAbove
  <2>2. CASE s = sub
    BY <2>2
  <2>3. CASE s < sub
    <3>1. s < 2 * half
      BY <1>2, <2>3
    <3>2. s <= half
      BY <1>2, <3>1, NoneBetween
    <3> HIDE DEF half
    <3> QED
      BY <1>2, <3>2, Constants
  <2>4. s \in Nat
    BY Constants
  <2> HIDE DEF sub
  <2>5. sub < s \/ s = sub \/ s < sub
    BY <1>1, <2>4
  <2> QED
    BY <2>1, <2>2, <2>3, <2>5
<1>6. ~IsFullRange(f)
  BY DEF Trying
<1>7. /\ SettledAbove(h, half) /\ ~IsFullRange(h) /\ MaxSubregionSize(h) = max
  <2> HIDE DEF h, half
  <2> QED
    BY <1>3, <1>4, <1>5, <1>6, SettledKept, SameFits
<1>8. h.pc = "before" => Trying(h)
  <2>1. h.sub <= MaxSubregionSize(h)
    <3> HIDE DEF h, sub, half, max
    <3> QED
      BY <1>1, <1>2, <1>3, <1>7
  <2> QED
    BY <1>3, <1>7, <2>1 DEF Trying
<1>9. h.pc = "build" => SettledAbove(h, 0)
  <2> SUFFICES ASSUME h.pc = "build", NEW s \in PowersOfTwo, Granule <= s,
                      s <= MaxSubregionSize(h)
               PROVE  Compared(h, s)
    BY DEF SettledAbove
  <2>1. ~(half >= Granule)
    BY <1>3
  <2>2. half < s
    <3> HIDE DEF half, h
    <3> QED
      BY <1>1, <1>2, <2>1, Constants
  <2> QED
    BY <1>7, <2>2 DEF SettledAbove
<1>10. h.pc \in {"before", "build"}
  BY <1>3
<1> HIDE DEF h
<1> QED
  BY <1>8, <1>9, <1>10 DEF LargestPoint, h

------------------------------------------------------------------------------
(***************************************************************************)
(* The selected entry is the largest: what the sizes settle                *)
(***************************************************************************)

(* No region with subregions of this size has more in the range than the   *)
(* best candidate.                                                         *)
Bounded(f, sub) ==
    \A n \in Nat : n * 8 * sub + 8 * sub <= WordSize =>
        FitsIn(f, sub, n * 8 * sub) <= f.best.size

(* What the two tries reckoned with bounds every region of their size.     *)
LEMMA ComparedBounds ==
    ASSUME NEW f \in Frames, Clear(f), ~IsFullRange(f),
           NEW sub \in PowersOfTwo, Granule <= sub, sub <= MaxSubregionSize(f),
           Compared(f, sub)
    PROVE  Bounded(f, sub)
<1> DEFINE best == f.best.size
           b == RegionBefore(f, sub)
           a == RegionAfter(f, sub)
<1>1. best \in Nat /\ sub \in Nat \ {0} /\ WordSize \in Nat
  BY Constants DEF Frames, Candidates, Addresses
<1> SUFFICES ASSUME NEW n \in Nat, n * 8 * sub + 8 * sub <= WordSize
             PROVE  FitsIn(f, sub, n * 8 * sub) <= best
  BY DEF Bounded
<1> DEFINE c == n * 8 * sub
<1>2. 8 * sub <= WordSize
  <2>1. c \in Nat /\ c + 8 * sub <= WordSize
    BY <1>1
  <2> HIDE DEF c
  <2> QED
    BY <1>1, <2>1
<1>3. \/ FitsIn(f, sub, c) <= FitsIn(f, sub, b)
      \/ b # f.start /\ FitsIn(f, sub, c) <= FitsIn(f, sub, a)
  BY <1>2, TwoSuffice
<1>4. /\ FitsIn(f, sub, c) \in Nat /\ FitsIn(f, sub, b) \in Nat /\ FitsIn(f, sub, a) \in Nat
      /\ FitsIn(f, sub, c) <= 8 * sub
  BY <1>1, FitsBounds
<1>5. /\ FitsIn(f, sub, b) <= ActualSize(f, sub, b)
      /\ FitsIn(f, sub, a) <= ActualSize(f, sub, a)
  <2>1. f.end \in Nat /\ f.start + sub <= WordSize
    BY ClearBounds, ClearRoom
  <2>2. f.end <= f.end /\ f.end <= f.end + 1
    BY <2>1
  <2> QED
    BY <2>1, <2>2, TryLargest
<1>6. ActualSize(f, sub, b) \in Nat /\ ActualSize(f, sub, a) \in Nat
  BY CandidateSizes
<1>7. \/ 8 * sub <= best
      \/ /\ ActualSize(f, sub, b) <= best
         /\ (b # f.start => ActualSize(f, sub, a) <= best)
  BY DEF Compared
<1> HIDE DEF a, b, c, best
<1>8. CASE 8 * sub <= best
  <2>1. FitsIn(f, sub, c) <= best
    BY <1>1, <1>4, <1>8
  <2> QED
    BY <2>1 DEF c
<1>9. CASE FitsIn(f, sub, c) <= FitsIn(f, sub, b) /\ ActualSize(f, sub, b) <= best
  <2>1. FitsIn(f, sub, c) <= best
    BY <1>1, <1>4, <1>5, <1>6, <1>9
  <2> QED
    BY <2>1 DEF c
<1>10. CASE FitsIn(f, sub, c) <= FitsIn(f, sub, a) /\ ActualSize(f, sub, a) <= best
  <2>1. FitsIn(f, sub, c) <= best
    BY <1>1, <1>4, <1>5, <1>6, <1>10
  <2> QED
    BY <2>1 DEF c
<1> QED
  BY <1>3, <1>7, <1>8, <1>9, <1>10

------------------------------------------------------------------------------
(* Two subregions of the first size tried have the size of the range.      *)
LEMMA FirstSizeEnough ==
    ASSUME NEW f \in Frames, Clear(f), ~IsFullRange(f)
    PROVE  f.end - f.start + 1 <= 2 * MaxSubregionSize(f)
<1> DEFINE size == RequestSize(f)
           max == MaxSubregionSize(f)
           start == f.start
           end == f.end
<1>1. start \in Nat /\ end \in Nat /\ end < WordSize /\ start <= end
      /\ ~(start = 0 /\ end = WordSize - 1)
  BY ClearBounds DEF IsFullRange, LastAddress
<1>2. WordSize \in Nat /\ Granule \in Nat \ {0} /\ 8 * Granule <= WordSize
  BY Constants
<1>3. size = end - start + 1 /\ size \in Nat \ {0} /\ size <= WordSize
  <2> HIDE DEF start, end
  <2>1. end - start + 1 \in Addresses /\ end - start + 1 \in Int /\ end - start + 1 > 0
    BY <1>1, <1>2 DEF Addresses
  <2>2. size = end - start + 1
    BY <2>1, WrapAddress DEF RequestSize, start, end
  <2> HIDE DEF size
  <2> QED
    BY <2>1, <2>2, Constants DEF Addresses
<1>4. size <= 2 * max
  <2>1. CASE size > HalfWord
    <3>1. max = HalfWord
      BY <2>1 DEF MaxSubregionSize
    <3>2. HalfWord \in Nat /\ WordSize = 2 * HalfWord
      <4>1. WordSize \in PowersOfTwo /\ WordSize # 1
        BY Constants, WordAssumption
      <4>2. WordSize \div 2 \in PowersOfTwo /\ WordSize = 2 * (WordSize \div 2)
        BY <4>1, HalfPower
      <4> QED
        BY <4>2, Constants DEF HalfWord
    <3> HIDE DEF size, max
    <3> QED
      BY <1>3, <3>1, <3>2
  <2>2. CASE ~(size > HalfWord) /\ size <= 8 * Granule
    <3>1. max = 4 * Granule
      BY <2>2 DEF MaxSubregionSize
    <3> HIDE DEF size, max
    <3> QED
      BY <1>2, <1>3, <2>2, <3>1
  <2>3. CASE ~(size > HalfWord) /\ ~(size <= 8 * Granule)
    <3> DEFINE p == CeilingPower(size)
    <3>1. max = p \div 2
      BY <2>3 DEF MaxSubregionSize
    <3> HIDE DEF size, max
    <3>2. size \in 1 .. WordSize /\ size > 1
      BY <1>2, <1>3, <2>3
    <3>3. p \in PowersOfTwo /\ size <= p
      BY <3>2, CeilingPowerType
    <3>4. p \in Nat
      BY <3>3, Constants
    <3> HIDE DEF p
    <3>5. p # 1
      BY <1>3, <3>2, <3>3, <3>4
    <3>6. p = 2 * (p \div 2)
      BY <3>3, <3>5, HalfPower
    <3> QED
      BY <3>1, <3>3, <3>6
  <2> QED
    BY <2>1, <2>2, <2>3
<1> QED
  BY <1>3, <1>4

(* A subregion larger than the sizes the loop starts with lies in the range *)
(* only if it is the range; and the first size tried has it as two halves. *)
LEMMA OnlyTwice ==
    ASSUME NEW f \in Frames, Clear(f), ~IsFullRange(f),
           NEW sub \in PowersOfTwo, 8 * sub <= WordSize, MaxSubregionSize(f) < sub,
           sub <= f.end - f.start + 1
    PROVE  sub = 2 * MaxSubregionSize(f) /\ f.end = f.start + sub - 1
<1> DEFINE size == f.end - f.start + 1
           max == MaxSubregionSize(f)
           start == f.start
           end == f.end
<1>1. start \in Nat /\ end \in Nat /\ end < WordSize /\ start <= end
      /\ ~(start = 0 /\ end = WordSize - 1)
  BY ClearBounds DEF IsFullRange, LastAddress
<1>2. sub \in Nat \ {0} /\ WordSize \in Nat /\ Granule \in Nat \ {0} /\ 8 * Granule <= WordSize
  BY Constants
<1>3. size \in Nat \ {0}
  BY <1>1
<1>4. sub <= size
  OBVIOUS
<1>5. max \in PowersOfTwo /\ max \in Nat \ {0} /\ max < sub
  BY MaxSubregionSizeType, Constants
<1>6. (sub % max) = 0 /\ (max % max) = 0
  <2> HIDE DEF max
  <2>1. max <= sub
    BY <1>2, <1>5
  <2> QED
    BY <1>2, <1>5, <2>1, PowerDivides
<1>7. 2 * max <= sub
  <2> HIDE DEF max
  <2>1. max + max <= sub
    BY <1>2, <1>5, <1>6, MultipleGap
  <2> QED
    BY <1>2, <1>5, <2>1
<1>8. size <= 2 * max
  BY FirstSizeEnough
<1>9. size = end - start + 1
  OBVIOUS
<1> HIDE DEF size, max, start, end
<1>10. sub = 2 * max /\ end = start + sub - 1
  BY <1>1, <1>2, <1>3, <1>4, <1>5, <1>7, <1>8, <1>9
<1> QED
  BY <1>10 DEF max, start, end

------------------------------------------------------------------------------
(* What one subregion of twice the first size covers, two of the first size *)
(* cover.                                                                  *)
LEMMA HalvesFit ==
    ASSUME NEW f \in Frames, NEW m \in Nat \ {0}, NEW n \in Nat, NEW j \in 0 .. 7,
           n * 8 * (2 * m) + j * (2 * m) = f.start, f.end = f.start + 2 * m - 1,
           n * 8 * (2 * m) + 8 * (2 * m) <= WordSize
    PROVE  \E k \in Nat : k * 8 * m + 8 * m <= WordSize /\ 2 * m <= FitsIn(f, m, k * 8 * m)
<1> DEFINE start == f.start
           end == f.end
           k == IF j < 4 THEN 2 * n ELSE 2 * n + 1
           i == IF j < 4 THEN 2 * j ELSE 2 * j - 8
           c == k * 8 * m
           p == n * m
<1>1. /\ start \in Nat /\ end \in Nat /\ end = start + 2 * m - 1
      /\ WordSize \in Nat /\ p \in Nat
  BY Constants DEF Frames, Addresses
<1>2. n * 8 * (2 * m) = 16 * p
  OBVIOUS
<1>3. k \in Nat /\ c = IF j < 4 THEN 16 * p ELSE 16 * p + 8 * m
  <2>1. CASE j < 4
    BY <2>1
  <2>2. CASE ~(j < 4)
    <3>1. k = 2 * n + 1 /\ k \in Nat
      BY <2>2
    <3>2. (2 * n + 1) * 8 * m = 16 * (n * m) + 8 * m
      OBVIOUS
    <3> QED
      BY <2>2, <3>1, <3>2
  <2> QED
    BY <2>1, <2>2
<1>4. i \in 0 .. 6 /\ c + i * m = start
  <2> HIDE DEF p, c, start
  <2>1. 16 * p + j * (2 * m) = start
    BY <1>2 DEF start
  <2>2. i \in 0 .. 6
    OBVIOUS
  <2>3. CASE j < 4
    <3>1. i = 2 * j /\ (2 * j) * m = j * (2 * m)
      BY <2>3
    <3> QED
      BY <1>3, <2>1, <2>2, <2>3, <3>1
  <2>4. CASE ~(j < 4)
    <3>1. i = 2 * j - 8 /\ (2 * j - 8) * m = j * (2 * m) - 8 * m
      BY <2>4
    <3> DEFINE x == j * (2 * m)
    <3>2. x \in Nat
      OBVIOUS
    <3>3. c = 16 * p + 8 * m /\ i * m = x - 8 * m /\ 16 * p + x = start
      BY <1>3, <2>1, <2>4, <3>1
    <3> HIDE DEF x, i
    <3> QED
      BY <1>1, <2>2, <3>2, <3>3
  <2> QED
    BY <2>3, <2>4
<1>5. c \in Nat /\ c + 8 * m <= WordSize
  <2>1. 16 * p + 16 * m <= WordSize
    BY <1>2
  <2> HIDE DEF p, c
  <2> QED
    BY <1>1, <1>3, <2>1
<1>6. i .. i + 1 \subseteq Fitting(f, m, c)
  <2> SUFFICES ASSUME NEW x \in i .. i + 1
               PROVE  /\ x \in 0 .. 7
                      /\ start <= c + x * m /\ c + (x + 1) * m - 1 <= end
    BY DEF Fitting, Subregions
  <2> HIDE DEF i, c, start, end
  <2>1. x \in Nat /\ x <= 7 /\ i \in Nat
    BY <1>4
  <2>2. x = i \/ x = i + 1
    BY <1>4
  <2>3. i * m \in Nat /\ (i + 1) * m = i * m + m /\ (i + 1 + 1) * m = i * m + 2 * m
    BY <2>1
  <2> DEFINE a == i * m
  <2>4. a \in Nat /\ c + a = start
    BY <1>4, <2>3
  <2>5. \/ x * m = a /\ (x + 1) * m = a + m
        \/ x * m = a + m /\ (x + 1) * m = a + 2 * m
    BY <2>2, <2>3
  <2> HIDE DEF a
  <2> QED
    BY <1>1, <1>5, <2>1, <2>4, <2>5
<1>7. 2 <= Cardinality(Fitting(f, m, c))
  <2> HIDE DEF i, c
  <2>1. i \in Int /\ i + 1 \in Int /\ ~(i > i + 1) /\ (i + 1) - i + 1 = 2
    BY <1>4
  <2>2. Cardinality(i .. i + 1) = 2
    BY <2>1, FS_Interval
  <2>3. IsFiniteSet(Fitting(f, m, c))
    BY FittingFinite
  <2> QED
    BY <1>6, <2>2, <2>3, FS_Subset
<1>8. 2 * m <= FitsIn(f, m, c)
  <2> DEFINE d == Cardinality(Fitting(f, m, c))
  <2>1. d \in 0 .. 8 /\ FitsIn(f, m, c) = m * d /\ 2 <= d
    BY <1>7, FittingFinite
  <2> HIDE DEF c, d
  <2>2. 2 * m <= d * m /\ m * d = d * m
    BY <2>1, ProductMonotonic
  <2> QED
    BY <2>1, <2>2
<1> QED
  BY <1>3, <1>5, <1>8

(* The sizes above the first one are settled with it.                      *)
LEMMA FirstSizeSettles ==
    ASSUME NEW f \in Frames, Clear(f), ~IsFullRange(f), SettledAbove(f, 0),
           NEW sub \in PowersOfTwo, Granule <= sub
    PROVE  Bounded(f, sub)
<1> DEFINE max == MaxSubregionSize(f)
           best == f.best.size
           start == f.start
           end == f.end
<1>1. /\ max \in PowersOfTwo /\ max \in Nat \ {0} /\ Granule <= max /\ 0 < max
      /\ sub \in Nat \ {0} /\ 0 < sub
  <2>1. max \in PowersOfTwo /\ max >= 4 * Granule /\ max \in Nat \ {0}
    BY MaxSubregionSizeType, Constants
  <2> HIDE DEF max
  <2> QED
    BY <2>1, Constants
<1>2. best \in Nat /\ start \in Nat /\ end \in Nat /\ start <= end
  BY ClearBounds DEF Frames, Candidates, Addresses
<1>3. CASE sub <= max
  BY <1>1, <1>3, ComparedBounds DEF SettledAbove
<1>4. CASE max < sub
  <2> SUFFICES ASSUME NEW n \in Nat, n * 8 * sub + 8 * sub <= WordSize
               PROVE  FitsIn(f, sub, n * 8 * sub) <= best
    BY DEF Bounded
  <2> DEFINE c == n * 8 * sub
             S == Fitting(f, sub, c)
  <2>1. FitsIn(f, sub, c) = sub * Cardinality(S) /\ IsFiniteSet(S) /\ Cardinality(S) \in 0 .. 8
    BY FittingFinite
  <2>2. c \in Nat /\ 8 * sub <= WordSize
    <3>1. c \in Nat /\ c + 8 * sub <= WordSize
      BY <1>1
    <3> HIDE DEF c
    <3> QED
      BY <1>1, <3>1, Constants
  <2>3. CASE S = {}
    <3>1. Cardinality(S) = 0
      BY <2>3, FS_EmptySet
    <3>2. FitsIn(f, sub, c) = 0
      <4> HIDE DEF S, c
      <4> QED
        BY <1>1, <2>1, <3>1
    <3> HIDE DEF best
    <3>3. 0 <= best
      BY <1>2
    <3> QED
      BY <3>2, <3>3
  <2>4. CASE S # {}
    <3>1. ASSUME NEW j \in S
          PROVE  /\ j \in 0 .. 7 /\ sub = 2 * max /\ end = start + sub - 1
                 /\ c + j * sub = start
      <4>1. j \in 0 .. 7 /\ start <= c + j * sub /\ c + (j + 1) * sub - 1 <= end
        BY <3>1 DEF Fitting, Subregions
      <4> DEFINE b == j * sub
      <4>2. b \in Nat /\ (j + 1) * sub = b + sub
        BY <1>1, <4>1
      <4>3. start <= c + b /\ c + (b + sub) - 1 <= end
        BY <4>1, <4>2
      <4> HIDE DEF b, c
      <4>4. sub <= end - start + 1
        <5> HIDE DEF start, end
        <5> QED
          BY <1>1, <1>2, <2>2, <4>2, <4>3
      <4>5. sub = 2 * max /\ end = start + sub - 1
        BY <1>4, <2>2, <4>4, OnlyTwice
      <4>6. c + b = start
        <5> HIDE DEF start, end, max
        <5> QED
          BY <1>1, <1>2, <2>2, <4>2, <4>3, <4>5
      <4> QED
        BY <4>1, <4>5, <4>6 DEF b
    <3>2. PICK j : j \in S
      BY <2>4
    <3>3. j \in 0 .. 7 /\ sub = 2 * max /\ end = start + sub - 1 /\ c + j * sub = start
      BY <3>1, <3>2
    <3>4. S \subseteq {j}
      <4> SUFFICES ASSUME NEW i \in S PROVE i = j
        OBVIOUS
      <4>1. i \in 0 .. 7 /\ c + i * sub = start
        BY <3>1
      <4> DEFINE x == i * sub
                 y == j * sub
      <4>2. x \in Nat /\ y \in Nat /\ c + x = start /\ c + y = start
        <5>1. c + x = start /\ c + y = start
          BY <3>3, <4>1
        <5>2. x \in Nat /\ y \in Nat
          <6> HIDE DEF c, start
          <6> QED
            BY <1>1, <3>3, <4>1
        <5> QED
          BY <5>1, <5>2
      <4>3. x = y
        <5> HIDE DEF x, y, c, start
        <5> QED
          BY <1>2, <2>2, <4>2
      <4>4. i * sub = j * sub
        BY <4>3
      <4> HIDE DEF S
      <4>5. i \in Nat /\ j \in Nat
        BY <3>3, <4>1
      <4>6. CASE i + 1 <= j
        <5>1. (i + 1) * sub <= j * sub /\ (i + 1) * sub = i * sub + sub /\ i * sub \in Nat
          BY <1>1, <4>5, <4>6, ProductMonotonic
        <5> QED
          BY <1>1, <4>4, <5>1
      <4>7. CASE j + 1 <= i
        <5>1. (j + 1) * sub <= i * sub /\ (j + 1) * sub = j * sub + sub /\ j * sub \in Nat
          BY <1>1, <4>5, <4>7, ProductMonotonic
        <5> QED
          BY <1>1, <4>4, <5>1
      <4> QED
        BY <4>5, <4>6, <4>7
    <3>5. Cardinality(S) <= 1
      <4>1. IsFiniteSet({j}) /\ Cardinality({j}) = 1
        BY FS_Singleton
      <4>2. Cardinality(S) <= Cardinality({j})
        BY <3>4, <4>1, FS_Subset
      <4> QED
        BY <4>1, <4>2
    <3>6. FitsIn(f, sub, c) <= sub
      <4> DEFINE d == Cardinality(S)
      <4>1. d \in Nat /\ d <= 1 /\ FitsIn(f, sub, c) = sub * d
        BY <2>1, <3>5
      <4> HIDE DEF d, c
      <4>2. d * sub <= 1 * sub /\ d * sub = sub * d /\ 1 * sub = sub
        BY <1>1, <4>1, ProductMonotonic
      <4> QED
        BY <4>1, <4>2
    <3>7. PICK k \in Nat : k * 8 * max + 8 * max <= WordSize /\ 2 * max <= FitsIn(f, max, k * 8 * max)
      <4>1. /\ n * 8 * (2 * max) + j * (2 * max) = start /\ end = start + 2 * max - 1
            /\ n * 8 * (2 * max) + 8 * (2 * max) <= WordSize
        BY <3>3
      <4> HIDE DEF max
      <4> QED
        BY <1>1, <3>3, <4>1, HalvesFit
    <3>8. FitsIn(f, max, k * 8 * max) <= best
      <4>1. Compared(f, max)
        BY <1>1 DEF SettledAbove
      <4>2. Bounded(f, max)
        BY <1>1, <4>1, ComparedBounds
      <4> QED
        BY <3>7, <4>2 DEF Bounded
    <3>9. FitsIn(f, max, k * 8 * max) \in Nat /\ FitsIn(f, sub, c) \in Nat
      BY <1>1, FitsBounds
    <3>10. FitsIn(f, sub, c) <= best
      <4> DEFINE x == FitsIn(f, max, k * 8 * max)
                 y == FitsIn(f, sub, c)
      <4>1. x \in Nat /\ y \in Nat /\ y <= sub /\ sub = 2 * max /\ 2 * max <= x /\ x <= best
        BY <3>3, <3>6, <3>7, <3>8, <3>9
      <4> HIDE DEF x, y, best, max
      <4>2. y <= best
        BY <1>1, <1>2, <4>1
      <4> QED
        BY <4>2 DEF y
    <3> QED
      BY <3>10
  <2> QED
    BY <2>3, <2>4
<1> QED
  BY <1>1, <1>3, <1>4

(* The entry of the best candidate maps at least as much as it reckoned    *)
(* with.                                                                   *)
LEMMA BestMapped ==
    ASSUME NEW f \in Frames, Attempt(f, f.best), 8 * f.best.sub <= WordSize
    PROVE  /\ Cardinality(Mapped(BestEntry(f))) \in Nat
           /\ f.best.size <= Cardinality(Mapped(BestEntry(f)))
<1> DEFINE sub == f.best.sub
           base == f.best.base
           e == BestEntry(f)
           i == FirstSubregion(f, sub, base)
           l == LastSubregion(f, sub, base)
           k == NumSubregions(f, sub, base)
           size == f.best.size
<1>1. /\ sub \in Nat \ {0} /\ sub \in PowersOfTwo /\ Granule <= sub /\ 8 * sub <= WordSize
      /\ WordSize \in Nat \ {0}
  BY Constants DEF Attempt
<1>2. base \in Addresses /\ base \in Nat /\ (base % (8 * sub)) = 0
  <2>1. base \in Addresses /\ (base % (8 * sub)) = 0
    BY <1>1, AlignedBases DEF Attempt
  <2> HIDE DEF base
  <2> QED
    BY <2>1 DEF Addresses
<1>3. i \in Nat /\ l \in 0 .. 7 /\ k \in 0 .. 8 /\ (k # 0 => i + k <= 8)
  <2>1. i \in Nat /\ l \in 0 .. 7 /\ k \in 0 .. 8
    BY <1>1, <1>2, SelectionTypes
  <2>2. k # 0 => k = l - i + 1
    BY DEF NumSubregions
  <2> HIDE DEF i, l, k
  <2> QED
    BY <2>1, <2>2
<1>4. SubregionBytes(e) = sub /\ RegionBase(e) = base
  BY <1>1, <1>2, BestEntryRegion
<1>5. e.srd = Subregions \ (i .. i + k - 1)
  BY DEF BestEntry, SubregionsMask
<1>6. size = Wrap(k * sub)
  BY DEF Attempt, ActualSize
<1> HIDE DEF sub, base, e, i, l, k, size
<1> DEFINE a == i * sub
           b == k * sub
<1>7. a \in Nat /\ b \in Nat /\ size \in Nat /\ size <= b
  <2>1. a \in Nat /\ b \in Nat
    BY <1>1, <1>3
  <2> HIDE DEF a, b
  <2>2. size = (b % WordSize)
    BY <1>6 DEF Wrap, b
  <2> QED
    BY <1>1, <2>1, <2>2, DivNat, DivMod
<1>8. Mapped(e) \subseteq base + a .. base + a + b - 1
  <2>1. Subregions \ e.srd \subseteq i .. i + k - 1 /\ k \in Nat
    BY <1>3, <1>5
  <2> QED
    BY <1>1, <1>2, <1>3, <1>4, <2>1, MappedBounds
<1>9. IsFiniteSet(Mapped(e)) /\ Cardinality(Mapped(e)) \in Nat
  <2> HIDE DEF a, b
  <2>1. base + a \in Int /\ base + a + b - 1 \in Int
    BY <1>2, <1>7
  <2>2. IsFiniteSet(base + a .. base + a + b - 1)
    BY <2>1, FS_Interval
  <2> QED
    BY <1>8, <2>2, FS_Subset, FS_CardinalityType
<1>10. size <= Cardinality(Mapped(e))
  <2>1. CASE k = 0
    <3>1. b = 0
      BY <1>1, <2>1
    <3> HIDE DEF b
    <3>2. size = 0
      BY <1>7, <3>1
    <3> QED
      BY <1>9, <3>2
  <2>2. CASE k # 0
    <3>1. base + a .. base + a + b - 1 \subseteq Mapped(e)
      <4>1. k \in Nat /\ i + k <= 8 /\ e.srd \cap (i .. i + k - 1) = {}
        BY <1>3, <1>5, <2>2
      <4> QED
        BY <1>1, <1>2, <1>3, <1>4, <4>1, MappedCovers
    <3>2. Cardinality(base + a .. base + a + b - 1) = b
      <4>1. base + a \in Int /\ base + a + b - 1 \in Int /\ 0 < b
        <5>1. 1 * sub <= k * sub
          <6>1. 1 <= k /\ k \in Nat
            BY <1>3, <2>2
          <6> QED
            BY <1>1, <6>1, ProductMonotonic
        <5>2. sub <= b
          BY <1>1, <5>1
        <5> HIDE DEF a, b
        <5> QED
          BY <1>1, <1>2, <1>7, <5>2
      <4> HIDE DEF a, b
      <4>2. /\ ~(base + a > base + a + b - 1)
            /\ (base + a + b - 1) - (base + a) + 1 = b
        BY <1>2, <1>7, <4>1
      <4> QED
        BY <4>1, <4>2, FS_Interval
    <3>3. b <= Cardinality(Mapped(e))
      <4> HIDE DEF a, b
      <4>1. Cardinality(base + a .. base + a + b - 1) <= Cardinality(Mapped(e))
        BY <1>9, <3>1, FS_Subset
      <4> QED
        BY <3>2, <4>1
    <3> HIDE DEF b
    <3> QED
      BY <1>7, <1>9, <3>3
  <2> QED
    BY <2>1, <2>2
<1> QED
  BY <1>9, <1>10 DEF e, size

------------------------------------------------------------------------------
(***************************************************************************)
(* The selected entry is the largest: the steps                            *)
(***************************************************************************)

(* A try keeps what the better candidate of the two settled.               *)
LEMMA TryKeeps ==
    ASSUME NEW f \in Frames, Clear(f), Trying(f),
           f.sub \in PowersOfTwo, Granule <= f.sub, f.sub > 0,
           NEW base \in {RegionBefore(f, f.sub), RegionAfter(f, f.sub)},
           NEW g \in Frames, g.start = f.start, g.end = f.end, g.sub = f.sub,
           g.best = Better(f, base)
    PROVE  /\ Trying(g) /\ f.best.size <= g.best.size
           /\ ActualSize(g, g.sub, base) <= g.best.size
           /\ SubregionsMask(f, f.sub, base) = {} => SettledAbove(g, 0)
<1> DEFINE sub == f.sub
           old == f.best.size
           new == g.best.size
           actual == ActualSize(f, sub, base)
<1>1. f.start + sub <= WordSize /\ ~IsFullRange(f) /\ sub \in Nat \ {0}
  BY ClearRoom, Constants DEF Trying
<1>2. base \in Addresses
  BY <1>1, Bases
<1>3. old \in Nat /\ new \in Nat /\ actual \in Nat
  <2>1. actual \in Addresses
    BY <1>1, <1>2, SelectionTypes
  <2>2. actual \in Nat
    <3> HIDE DEF actual
    <3> QED
      BY <2>1 DEF Addresses
  <2> QED
    BY <2>2 DEF Frames, Candidates, Addresses
<1>4. old <= new /\ actual <= new
  <2>1. new >= old /\ new >= actual
    BY <1>2, BetterCovers
  <2> HIDE DEF old, new, actual
  <2> QED
    BY <1>3, <2>1
<1>5. ActualSize(g, g.sub, base) = actual
  BY SameRange
<1>7. Trying(g)
  <2>1. SettledAbove(g, sub)
    BY <1>3, <1>4, SettledKept DEF Trying
  <2> QED
    BY <2>1, SameFits DEF Trying
<1>8. ASSUME SubregionsMask(f, sub, base) = {} PROVE SettledAbove(g, 0)
  <2>1. NumSubregions(f, sub, base) = 8
    BY <1>2, <1>8, WholeRegion
  <2>2. actual = 8 * sub
    BY <1>1, <2>1, ClearTrySize
  <2>3. 8 * g.sub <= g.best.size /\ g.sub \in PowersOfTwo
    BY <1>4, <2>2
  <2> QED
    BY <1>7, <2>3, WholeSettles DEF Trying
<1> QED
  BY <1>4, <1>5, <1>7, <1>8

(* Moving on keeps what is settled.                                        *)
LEMMA SamePlace ==
    ASSUME NEW f \in Frames, NEW label \in {"after", "build"}, NEW g, g = Goto(f, label)
    PROVE  /\ Trying(f) /\ ActualSize(f, f.sub, RegionBefore(f, f.sub)) <= f.best.size
                 => (label = "after" => LargestPoint(g))
           /\ SettledAbove(f, 0) => (label = "build" => LargestPoint(g))
<1>1. /\ g.start = f.start /\ g.end = f.end /\ g.pc = label
      /\ g.sub = f.sub /\ g.best = f.best
  BY DEF Goto, Frames
<1>2. f.best.size \in Nat
  BY DEF Frames, Candidates, Addresses
<1>3. \A low : SettledAbove(f, low) => SettledAbove(g, low)
  <2> SUFFICES ASSUME NEW low, SettledAbove(f, low) PROVE SettledAbove(g, low)
    OBVIOUS
  <2>1. f.best.size \in Nat /\ g.best.size \in Nat /\ f.best.size <= g.best.size
    BY <1>1, <1>2
  <2> QED
    BY <1>1, <2>1, SettledKept
<1>4. /\ Trying(f) => Trying(g)
      /\ ActualSize(g, g.sub, RegionBefore(g, g.sub)) = ActualSize(f, f.sub, RegionBefore(f, f.sub))
  BY <1>1, <1>3, SameFits, SameRange DEF Trying
<1> QED
  BY <1>1, <1>3, <1>4 DEF LargestPoint

LEMMA LargestTry ==
    ASSUME TypeInv, LargestInv, TryBefore \/ TryAfter, Clear(frame)
    PROVE  LargestPoint(frame')
<1> DEFINE sub == frame.sub
           before == RegionBefore(frame, sub)
           after == RegionAfter(frame, sub)
<1>1. /\ frame \in Frames /\ frame.pc \in {"before", "after"}
      /\ sub \in PowersOfTwo /\ Granule <= sub /\ sub > 0
  <2>1. frame.pc \in {"before", "after"} /\ SoundFrame(frame)
    BY DEF TryBefore, TryAfter, At, TypeInv
  <2>2. sub \in PowersOfTwo /\ sub >= Granule
    BY <2>1 DEF SoundFrame
  <2>3. sub \in Nat \ {0} /\ Granule \in Nat
    BY <2>2, Constants
  <2> HIDE DEF sub
  <2> QED
    BY <2>1, <2>2, <2>3 DEF SoundFrame
<1>2. /\ LargestPoint(frame) /\ Trying(frame)
      /\ frame.pc = "after" => ActualSize(frame, sub, before) <= frame.best.size
  BY <1>1 DEF LargestInv, LargestPoint
<1>3. ASSUME NEW base \in {before, after}, NEW g, g = [frame EXCEPT !.best = Better(frame, base)]
      PROVE  /\ g \in Frames /\ g.start = frame.start /\ g.end = frame.end
             /\ g.sub = sub /\ g.best = Better(frame, base)
             /\ Trying(g) /\ frame.best.size <= g.best.size
             /\ ActualSize(g, g.sub, base) <= g.best.size
             /\ SubregionsMask(frame, sub, base) = {} => SettledAbove(g, 0)
  <2>0. frame.best = NoBest \/ frame.best.sub > 0
    BY <1>1 DEF TypeInv, SoundFrame
  <2>1. base \in Addresses
    BY <1>1, RegionTypes, Constants
  <2>2. Better(frame, base) \in Candidates
    BY <1>1, <2>0, <2>1, BetterType
  <2>3. /\ g \in Frames /\ g.start = frame.start /\ g.end = frame.end
        /\ g.sub = sub /\ g.best = Better(frame, base)
    BY <1>1, <1>3, <2>2 DEF Frames
  <2> QED
    BY <1>1, <1>2, <2>3, TryKeeps
<1>4. CASE TryBefore
  <2> DEFINE g == [frame EXCEPT !.best = Better(frame, before)]
  <2>1. \/ SubregionsMask(frame, sub, before) = {} /\ frame' = Goto(g, "build")
        \/ before # frame.start /\ frame' = Goto(g, "after")
        \/ before = frame.start /\ frame' = HalveSize(g)
    BY <1>4 DEF TryBefore, Local
  <2>2. /\ g \in Frames /\ g.start = frame.start /\ g.end = frame.end /\ g.sub = sub
        /\ Trying(g) /\ ActualSize(g, g.sub, before) <= g.best.size
        /\ SubregionsMask(frame, sub, before) = {} => SettledAbove(g, 0)
    BY <1>3
  <2>3. before = RegionBefore(g, g.sub)
    BY <2>2, SameFits
  <2> HIDE DEF g, before, sub
  <2>4. CASE before = frame.start /\ frame' = HalveSize(g)
    <3>1. Compared(g, g.sub)
      BY <2>2, <2>3, <2>4 DEF Compared
    <3> QED
      BY <1>1, <2>2, <2>4, <3>1, HalveSettles
  <2>5. CASE SubregionsMask(frame, sub, before) = {} /\ frame' = Goto(g, "build")
    BY <2>2, <2>5, SamePlace
  <2>6. CASE before # frame.start /\ frame' = Goto(g, "after")
    BY <2>2, <2>3, <2>6, SamePlace
  <2> QED
    BY <2>1, <2>4, <2>5, <2>6
<1>5. CASE TryAfter
  <2> DEFINE g == [frame EXCEPT !.best = Better(frame, after)]
  <2>1. \/ SubregionsMask(frame, sub, after) = {} /\ frame' = Goto(g, "build")
        \/ frame' = HalveSize(g)
    BY <1>5 DEF TryAfter, Local
  <2>2. /\ g \in Frames /\ g.start = frame.start /\ g.end = frame.end /\ g.sub = sub
        /\ Trying(g) /\ ActualSize(g, g.sub, after) <= g.best.size
        /\ frame.best.size <= g.best.size
        /\ SubregionsMask(frame, sub, after) = {} => SettledAbove(g, 0)
    BY <1>3
  <2> HIDE DEF g
  <2>3. before = RegionBefore(g, g.sub) /\ after = RegionAfter(g, g.sub)
    BY <2>2, SameFits, SameRange
  <2>4. ActualSize(g, g.sub, before) <= g.best.size
    <3>1. ActualSize(frame, sub, before) <= frame.best.size
      BY <1>2, <1>5 DEF TryAfter, At
    <3>2. ActualSize(g, sub, before) = ActualSize(frame, sub, before)
      BY <2>2, SameRange
    <3>3. ActualSize(frame, sub, before) \in Nat
      BY <1>1, CandidateSizes
    <3>4. frame.best.size \in Nat /\ g.best.size \in Nat
      BY <1>1, <2>2 DEF Frames, Candidates, Addresses
    <3> HIDE DEF before, sub
    <3>5. ActualSize(g, sub, before) <= g.best.size
      BY <2>2, <3>1, <3>2, <3>3, <3>4
    <3> QED
      BY <2>2, <3>5
  <2> HIDE DEF before, after, sub
  <2>5. CASE SubregionsMask(frame, sub, after) = {} /\ frame' = Goto(g, "build")
    BY <2>2, <2>5, SamePlace
  <2>6. CASE frame' = HalveSize(g)
    <3>1. Compared(g, g.sub)
      BY <2>2, <2>3, <2>4 DEF Compared
    <3> QED
      BY <1>1, <2>2, <2>6, <3>1, HalveSettles
  <2> QED
    BY <2>1, <2>5, <2>6
<1> QED
  BY <1>4, <1>5

LEMMA LargestInit == Init => LargestInv
BY DEF Init, NewFrame, LargestInv, LargestPoint

LEMMA LargestStep == TypeInv /\ LargestInv /\ [Next]_vars => LargestInv'
<1> SUFFICES ASSUME TypeInv, LargestInv, [Next]_vars, Clear(frame') PROVE LargestPoint(frame')
  BY DEF LargestInv, Clear
<1>1. frame \in Frames
  BY DEF TypeInv, SoundFrame
<1>2. CASE UNCHANGED vars
  <2>1. frame' = frame
    BY <1>2 DEF vars
  <2> QED
    BY <2>1 DEF LargestInv
<1>3. CASE TryBefore \/ TryAfter
  <2>1. frame'.start = frame.start /\ frame'.end = frame.end
    BY <1>1, <1>3 DEF TryBefore, TryAfter, Local, Goto, HalveSize, Frames
  <2>2. Clear(frame)
    BY <2>1, SameFits
  <2> QED
    BY <1>3, <2>2, LargestTry
<1>4. CASE StartSelection
  <2>1. /\ frame'.pc = "before" /\ frame'.start = frame.start /\ frame'.end = frame.end
        /\ frame'.sub = MaxSubregionSize(frame) /\ ~IsFullRange(frame)
    BY <1>1, <1>4 DEF StartSelection, Local, Frames
  <2>2. frame'.sub = MaxSubregionSize(frame') /\ ~IsFullRange(frame')
    BY <2>1, SameFits
  <2>3. frame'.sub \in Nat
    BY <1>1, <2>1, MaxSubregionSizeType, Constants
  <2>4. SettledAbove(frame', frame'.sub)
    <3> SUFFICES ASSUME NEW sub \in PowersOfTwo, frame'.sub < sub, sub <= frame'.sub
                 PROVE  FALSE
      BY <2>2 DEF SettledAbove
    <3>1. sub \in Nat
      BY Constants
    <3> QED
      BY <2>3, <3>1
  <2>5. frame'.sub <= MaxSubregionSize(frame')
    BY <2>2, <2>3
  <2> QED
    BY <2>1, <2>2, <2>4, <2>5 DEF LargestPoint, Trying
<1>5. CASE SelectFullRange
  <2>1. /\ frame'.pc = "build" /\ frame'.start = frame.start /\ frame'.end = frame.end
        /\ IsFullRange(frame)
    BY <1>1, <1>5 DEF SelectFullRange, Local, Frames
  <2>2. IsFullRange(frame')
    BY <2>1, SameFits
  <2> QED
    BY <2>1, <2>2 DEF LargestPoint
<1>6. CASE Refuse \/ Build \/ CallLeft \/ SkipLeft \/ CallRight \/ SkipRight
  <2>1. CASE Refuse \/ SkipLeft \/ SkipRight
    <3>1. frame'.pc \in {"return", "right"}
      BY <1>1, <2>1 DEF Refuse, SkipLeft, SkipRight, Local, Return, Goto, Frames
    <3> QED
      BY <3>1 DEF LargestPoint
  <2>2. CASE CallLeft \/ CallRight
    <3>1. frame'.pc = "enter"
      BY <2>2 DEF CallLeft, CallRight, Call, NewFrame
    <3> QED
      BY <3>1 DEF LargestPoint
  <2>3. CASE Build
    <3> DEFINE table == Append(frame.table, BestEntry(frame))
               left == FirstAddr(frame, frame.best.sub, frame.best.base)
               right == NextAddr(frame)
    <3>1. frame' = [frame EXCEPT !.pc = "left", !.table = table,
                                 !.number = frame.number + 1,
                                 !.left = left, !.right = right]
      BY <2>3 DEF Build, Local
    <3> HIDE DEF table, left, right
    <3>2. frame'.pc = "left"
      BY <1>1, <3>1 DEF Frames
    <3> QED
      BY <3>2 DEF LargestPoint
  <2> QED
    BY <1>6, <2>1, <2>2, <2>3
<1>7. CASE CopyChild
  <2> DEFINE parent == callers[Len(callers)]
             f == WithChild(parent, frame)
  <2>1. frame' = Return(f, FALSE) \/ frame' = Goto(f, "right") \/ frame' = Return(f, TRUE)
    BY <1>7 DEF CopyChild
  <2>2. f \in Frames
    <3>1. Len(callers) \in DOMAIN callers
      <4>1. callers \in Seq(Frames) /\ callers # <<>>
        BY <1>7 DEF CopyChild, TypeInv, SoundCallers
      <4> QED
        BY <4>1, EmptySeq, LenProperties
    <3>2. parent \in Frames /\ Len(parent.table) <= MaxEntries
      BY <3>1 DEF TypeInv, SoundCallers
    <3> QED
      BY <1>1, <3>2, WithChildType
  <2> HIDE DEF f
  <2>3. frame'.pc \in {"return", "right"}
    BY <2>1, <2>2 DEF Return, Goto, Frames
  <2> QED
    BY <2>3 DEF LargestPoint
<1> QED
  BY <1>2, <1>3, <1>4, <1>5, <1>6, <1>7 DEF Next

(* Wherever the loop stands, the best candidate covers no less than the two *)
(* regions of each size it has left behind, or no less than any region of   *)
(* that size could cover.                                                  *)
THEOREM SizesSettled == Spec => []LargestInv
<1> QED
  BY TypeCorrect, LargestInit, LargestStep, PTL DEF Spec

(* The entry that is selected maps at least as many bytes as any region the *)
(* MPU has could map inside the range, at whatever address and size, though *)
(* only two regions of each size are tried and the loop stops at the first *)
(* region it uses as a whole.                                              *)
THEOREM SelectsLargest ==
    ASSUME Roomy
    PROVE  Spec => []LargestEntrySelected
<1>1. TypeInv /\ CoverInv /\ LargestInv => LargestEntrySelected
  <2> DEFINE mapped == Mapped(BestEntry(frame))
  <2> SUFFICES ASSUME TypeInv, CoverInv, LargestInv, At("build"), Clear(frame),
                      NEW sub \in PowersOfTwo, Granule <= sub, 8 * sub <= WordSize,
                      NEW n \in 0 .. (WordSize \div (8 * sub)) - 1
               PROVE  FitsIn(frame, sub, n * 8 * sub) <= Cardinality(mapped)
    BY DEF LargestEntrySelected, Clear
  <2> DEFINE c == n * 8 * sub
             selected == Cardinality(mapped)
  <2>1. frame \in Frames /\ sub \in Nat \ {0} /\ WordSize \in Nat \ {0}
    BY Constants DEF TypeInv, SoundFrame
  <2>2. BuildAny(frame)
    <3>1. Ordered(frame)
      BY DEF Clear, ClearOfTop, Ordered
    <3> QED
      BY <3>1 DEF CoverInv, CoverFrame, CoverPoint, At
  <2>3. FitsIn(frame, sub, c) \in Nat /\ FitsIn(frame, sub, c) <= 8 * sub
    BY <2>1, FitsBounds
  <2>4. CASE IsFullRange(frame)
    <3>1. frame.best = FullBest
      BY <2>2, <2>4 DEF BuildAny
    <3>2. Addresses \subseteq mapped
      BY <2>1, <2>4, <3>1, FullRangeCovers
    <3>3. mapped \subseteq Addresses
      <4>1. mapped \subseteq frame.start .. CoverLimit(frame.end)
        BY <2>1, <2>4, <3>1, FullRangeBuild DEF Inside
      <4>2. frame.start = 0 /\ CoverLimit(frame.end) = WordSize - 1
        <5>1. frame.start = 0 /\ frame.end = WordSize - 1
          BY <2>4 DEF IsFullRange, LastAddress
        <5>2. (WordSize % Granule) = 0 /\ WordSize >= 2 /\ 0 \in Nat /\ WordSize \in Nat
          BY Constants, WordAssumption
        <5>3. CoverLimit(WordSize - 1) = WordSize - 1
          BY <5>2, CoverLimits
        <5> QED
          BY <5>1, <5>3
      <4> QED
        BY <4>1, <4>2 DEF Addresses
    <3>4. mapped = 0 .. WordSize - 1
      BY <3>2, <3>3 DEF Addresses
    <3>5. Cardinality(0 .. WordSize - 1) = WordSize
      <4>1. 0 \in Int /\ WordSize - 1 \in Int /\ ~(0 > WordSize - 1)
            /\ (WordSize - 1) - 0 + 1 = WordSize
        BY <2>1
      <4> QED
        BY <4>1, FS_Interval
    <3> HIDE DEF mapped, c
    <3>6. FitsIn(frame, sub, c) <= Cardinality(mapped)
      BY <2>1, <2>3, <3>4, <3>5
    <3> QED
      BY <3>6 DEF c
  <2>5. CASE ~IsFullRange(frame)
    <3>1. Attempt(frame, frame.best) /\ 8 * frame.best.sub <= WordSize
      BY <2>2, <2>5 DEF BuildAny, Selected
    <3>2. selected \in Nat /\ frame.best.size <= selected
      BY <2>1, <3>1, BestMapped
    <3>3. Bounded(frame, sub)
      BY <2>1, <2>5, FirstSizeSettles DEF LargestInv, LargestPoint, At
    <3>4. n \in Nat /\ c + 8 * sub <= WordSize
      <4> DEFINE size == 8 * sub
                 q == WordSize \div size
      <4>1. size \in Nat \ {0} /\ q \in Nat /\ q * size <= WordSize
        BY <2>1, RoundDown
      <4>2. n \in Nat /\ n + 1 <= q
        <5> HIDE DEF q
        <5>1. n \in 0 .. q - 1
          BY DEF q
        <5> QED
          BY <4>1, <5>1
      <4>3. (n + 1) * size <= q * size
        <5> HIDE DEF q, size
        <5> QED
          BY <4>1, <4>2, ProductMonotonic
      <4>4. (n + 1) * size = c + 8 * sub /\ c \in Nat
        BY <2>1, <4>2
      <4>5. q * size \in Nat
        <5> HIDE DEF q, size
        <5> QED
          BY <4>1
      <4> HIDE DEF q, size, c
      <4> QED
        BY <2>1, <4>1, <4>2, <4>3, <4>4, <4>5
    <3>5. FitsIn(frame, sub, c) <= frame.best.size
      BY <3>3, <3>4 DEF Bounded
    <3>6. frame.best.size \in Nat
      BY <2>1 DEF Frames, Candidates, Addresses
    <3> HIDE DEF c, selected
    <3>7. FitsIn(frame, sub, c) <= selected
      BY <2>3, <3>2, <3>5, <3>6
    <3> QED
      BY <3>7 DEF c, selected
  <2> QED
    BY <2>4, <2>5
<1> QED
  BY <1>1, CoverKept, TypeCorrect, SizesSettled, PTL

------------------------------------------------------------------------------
(***************************************************************************)
(* The selected entry is one of the longest pieces of the range            *)
(***************************************************************************)

(* The end of the last whole granule of the range, where a granule that    *)
(* misses its last byte counts as whole; and the range up to there.        *)
Limit(f) == (f.end + 2) - ((f.end + 2) % Granule)

UpToLimit(f) == [f EXCEPT !.end = Limit(f) - 1]

(* The range has such a granule.                                           *)
HoldsGranule(f) == f.start + Granule <= f.end + 2

LEMMA LimitFacts ==
    ASSUME NEW f \in Frames, Posed(f)
    PROVE  /\ f.start \in Nat /\ f.end \in Nat /\ f.start <= f.end /\ (f.start % Granule) = 0
           /\ Limit(f) \in Nat /\ (Limit(f) % Granule) = 0 /\ Limit(f) <= WordSize
           /\ f.start <= Limit(f)
           /\ Limit(f) <= f.end + 2 /\ f.end + 2 < Limit(f) + Granule
           /\ HoldsGranule(f) => f.start + Granule <= Limit(f)
           /\ f.end = LastAddress => Limit(f) = WordSize
<1> DEFINE start == f.start
           end == f.end
           k == (end + 2) \div Granule
           r == (end + 2) % Granule
           l == Granule * k
<1>1. /\ start \in Nat /\ end \in Nat /\ end < WordSize /\ start <= end
      /\ (start % Granule) = 0
      /\ end + 4 * Granule <= WordSize \/ end = WordSize - 1
  BY PosedBounds DEF LastAddress
<1>2. Granule \in Nat \ {0} /\ Granule >= 2 /\ WordSize \in Nat /\ (WordSize % Granule) = 0
  BY Constants, WordAssumption
<1> HIDE DEF start, end
<1>3. k \in Nat /\ r \in Nat /\ r < Granule /\ end + 2 = l + r
  <2> DEFINE z == end + 2
  <2>1. z \in Nat /\ z \in Int
    BY <1>1
  <2> HIDE DEF z
  <2>2. /\ z \div Granule \in Nat /\ (z % Granule) \in Nat /\ (z % Granule) < Granule
        /\ z = Granule * (z \div Granule) + (z % Granule)
    BY <1>2, <2>1, DivMod, DivNat
  <2> QED
    BY <2>2 DEF z
<1> HIDE DEF k, r
<1>4. l \in Nat /\ (l % Granule) = 0
  BY <1>2, <1>3, Multiple
<1> HIDE DEF l
<1>5. Limit(f) = l
  <2>1. Limit(f) = (end + 2) - r
    BY DEF Limit, end, r
  <2> QED
    BY <1>1, <1>3, <1>4, <2>1
<1>6. l <= end + 2 /\ end + 2 < l + Granule
  BY <1>1, <1>2, <1>3, <1>4
<1>7. start <= l
  <2> SUFFICES ASSUME l < start PROVE FALSE
    BY <1>1, <1>4
  <2>1. l + Granule <= start
    BY <1>1, <1>2, <1>4, MultipleGap
  <2> QED
    BY <1>1, <1>2, <1>4, <1>6, <2>1
<1>8. end + 4 * Granule <= WordSize => l <= WordSize
  BY <1>1, <1>2, <1>4, <1>6
<1>9. end = WordSize - 1 => l = WordSize
  <2> SUFFICES ASSUME end = WordSize - 1 PROVE l = WordSize
    OBVIOUS
  <2>1. l <= WordSize + 1 /\ WordSize + 1 < l + Granule
    BY <1>1, <1>2, <1>6
  <2>2. CASE WordSize < l
    <3>1. WordSize + Granule <= l
      BY <1>2, <1>4, <2>2, MultipleGap
    <3> QED
      BY <1>2, <1>4, <2>1, <3>1
  <2>3. CASE l < WordSize
    <3>1. l + Granule <= WordSize
      BY <1>2, <1>4, <2>3, MultipleGap
    <3> QED
      BY <1>2, <1>4, <2>1, <3>1
  <2> QED
    BY <1>2, <1>4, <2>2, <2>3
<1>10. start + Granule <= end + 2 => start + Granule <= l
  <2> SUFFICES ASSUME start + Granule <= end + 2 PROVE start + Granule <= l
    OBVIOUS
  <2>1. start < l
    BY <1>1, <1>2, <1>4, <1>6
  <2> QED
    BY <1>1, <1>2, <1>4, <2>1, MultipleGap
<1>11. l <= WordSize
  BY <1>1, <1>2, <1>4, <1>8, <1>9
<1>12. f.end = LastAddress => l = WordSize
  BY <1>9 DEF LastAddress, end
<1>13. HoldsGranule(f) => f.start + Granule <= l
  BY <1>10 DEF HoldsGranule, start, end
<1> QED
  BY <1>1, <1>4, <1>5, <1>6, <1>7, <1>11, <1>12, <1>13 DEF start, end

LEMMA UpToLimitFrame ==
    ASSUME NEW f \in Frames, Posed(f), HoldsGranule(f)
    PROVE  /\ UpToLimit(f) \in Frames
           /\ UpToLimit(f).start = f.start /\ UpToLimit(f).end = Limit(f) - 1
           /\ UpToLimit(f).end <= f.end + 1
           /\ \A sub : RegionBefore(UpToLimit(f), sub) = RegionBefore(f, sub)
           /\ \A sub : RegionAfter(UpToLimit(f), sub) = RegionAfter(f, sub)
<1> DEFINE g == UpToLimit(f)
           l == Limit(f)
<1>1. /\ f.start \in Nat /\ f.end \in Nat /\ l \in Nat /\ l <= WordSize
      /\ f.start + Granule <= l /\ l <= f.end + 2 /\ WordSize \in Nat /\ Granule \in Nat \ {0}
  BY LimitFacts, Constants
<1>2. l - 1 \in Addresses /\ l - 1 <= f.end + 1
  <2> HIDE DEF l
  <2> QED
    BY <1>1 DEF Addresses
<1>3. g \in Frames /\ g.start = f.start /\ g.end = l - 1
  <2>1. g = [f EXCEPT !.end = l - 1]
    BY DEF UpToLimit
  <2> HIDE DEF l, g
  <2> QED
    BY <1>2, <2>1 DEF Frames
<1>4. /\ \A sub : RegionBefore(g, sub) = RegionBefore(f, sub)
      /\ \A sub : RegionAfter(g, sub) = RegionAfter(f, sub)
  BY <1>3 DEF RegionBefore, RegionAfter
<1> QED
  BY <1>2, <1>3, <1>4

(* A piece of a range is not longer than what its region has in the range. *)
LEMMA PieceFits ==
    ASSUME NEW g \in Frames, NEW sub \in PowersOfTwo,
           NEW base \in Nat, (base % (8 * sub)) = 0,
           NEW first \in Nat, NEW next \in Nat, first < next,
           (first % sub) = 0, (next % sub) = 0,
           base <= first, next <= base + 8 * sub, g.start <= first, next <= g.end + 1
    PROVE  next - first <= FitsIn(g, sub, base)
<1> DEFINE start == g.start
           end == g.end
           S == Fitting(g, sub, base)
<1>1. sub \in Nat \ {0} /\ start \in Nat /\ end \in Nat /\ start <= first /\ next <= end + 1
  BY Constants DEF Frames, Addresses
<1>2. (base % sub) = 0
  <2>1. 8 * sub \in Nat \ {0}
    BY <1>1
  <2>2. PICK k \in Nat : base = (8 * sub) * k
    BY <2>1, ExactQuotient
  <2>3. base = sub * (8 * k) /\ 8 * k \in Nat
    BY <1>1, <2>2
  <2> QED
    BY <1>1, <2>3, Multiple
<1>3. PICK i \in Nat : first = base + sub * i
  <2>1. first - base \in Nat /\ ((first - base) % sub) = 0
    BY <1>1, <1>2, MultipleDifference
  <2>2. PICK k \in Nat : first - base = sub * k
    BY <1>1, <2>1, ExactQuotient
  <2>3. sub * k \in Nat /\ first = base + sub * k
    BY <1>1, <2>2
  <2> QED
    BY <2>3
<1>4. PICK k \in Nat : next = base + sub * k
  <2>0. base <= next
    OBVIOUS
  <2>1. next - base \in Nat /\ ((next - base) % sub) = 0
    BY <1>1, <1>2, <2>0, MultipleDifference
  <2>2. PICK k \in Nat : next - base = sub * k
    BY <1>1, <2>1, ExactQuotient
  <2>3. sub * k \in Nat /\ next = base + sub * k
    BY <1>1, <2>2
  <2> QED
    BY <2>3
<1>5. sub * i = i * sub /\ sub * k = k * sub /\ i * sub \in Nat /\ k * sub \in Nat
  BY <1>1
<1>6. i < k /\ k <= 8
  <2>1. ~(k <= i)
    <3> SUFFICES ASSUME k <= i PROVE FALSE
      OBVIOUS
    <3>1. k * sub <= i * sub
      BY <1>1, ProductMonotonic
    <3> DEFINE x == i * sub
               y == k * sub
    <3>2. x \in Nat /\ y \in Nat /\ y <= x /\ first = base + x /\ next = base + y
      BY <1>3, <1>4, <1>5, <3>1
    <3> HIDE DEF x, y
    <3> QED
      BY <3>2
  <2>2. ~(9 <= k)
    <3> SUFFICES ASSUME 9 <= k PROVE FALSE
      OBVIOUS
    <3>1. 9 * sub <= k * sub
      BY <1>1, ProductMonotonic
    <3> DEFINE y == k * sub
    <3>2. y \in Nat /\ 9 * sub <= y /\ next = base + y
      BY <1>4, <1>5, <3>1
    <3> HIDE DEF y
    <3> QED
      BY <1>1, <3>2
  <2> QED
    BY <2>1, <2>2
<1>7. i .. k - 1 \subseteq S
  <2> SUFFICES ASSUME NEW j \in i .. k - 1
               PROVE  j \in 0 .. 7 /\ start <= base + j * sub /\ base + (j + 1) * sub - 1 <= end
    BY DEF Fitting, Subregions
  <2>1. j \in Nat /\ i <= j /\ j + 1 <= k /\ j <= 7
    BY <1>6
  <2>2. i * sub <= j * sub /\ (j + 1) * sub <= k * sub
    BY <1>1, <2>1, ProductMonotonic
  <2> DEFINE x == i * sub
             y == k * sub
             u == j * sub
             v == (j + 1) * sub
  <2>3. /\ x \in Nat /\ y \in Nat /\ u \in Nat /\ v \in Nat /\ x <= u /\ v <= y
        /\ first = base + x /\ next = base + y
    BY <1>1, <1>3, <1>4, <1>5, <2>1, <2>2
  <2> HIDE DEF start, end, x, y, u, v
  <2>4. start <= base + u /\ base + v - 1 <= end
    BY <1>1, <2>3
  <2> QED
    BY <2>1, <2>4 DEF u, v
<1>8. k - i <= Cardinality(S)
  <2> HIDE DEF S
  <2>1. i \in Int /\ k - 1 \in Int /\ ~(i > k - 1) /\ (k - 1) - i + 1 = k - i
    BY <1>6
  <2>2. Cardinality(i .. k - 1) = k - i
    BY <2>1, FS_Interval
  <2>3. IsFiniteSet(S)
    BY FittingFinite DEF S
  <2> QED
    BY <1>7, <2>2, <2>3, FS_Subset
<1>9. FitsIn(g, sub, base) = sub * Cardinality(S) /\ Cardinality(S) \in Nat
  BY FittingFinite
<1> DEFINE c == Cardinality(S)
           d == k - i
<1>10. d \in Nat /\ c \in Nat /\ d <= c /\ next - first = d * sub
  <2>1. (k - i) * sub = k * sub - i * sub
    BY <1>1
  <2> DEFINE x == i * sub
             y == k * sub
  <2>2. x \in Nat /\ y \in Nat /\ first = base + x /\ next = base + y
    BY <1>3, <1>4, <1>5
  <2>3. y - x = next - first
    <3> HIDE DEF x, y
    <3> QED
      BY <2>2
  <2> QED
    BY <1>6, <1>8, <1>9, <2>1, <2>3
<1> HIDE DEF c, d
<1>11. d * sub <= c * sub /\ sub * c = c * sub
  BY <1>1, <1>10, ProductMonotonic
<1> QED
  BY <1>9, <1>10, <1>11 DEF c

(* A candidate misses of a piece of its size at most a single subregion.   *)
LEMMA PieceBounded ==
    ASSUME NEW f \in Frames, Posed(f), HoldsGranule(f), ~IsFullRange(f),
           NEW sub \in PowersOfTwo, sub <= MaxSubregionSize(f), Compared(f, sub),
           NEW first \in Nat, NEW next \in Nat, Piece(sub, first, next),
           f.start <= first, next <= Limit(f)
    PROVE  next - first <= f.best.size \/ next - first = sub
<1> DEFINE g == UpToLimit(f)
           best == f.best.size
           b == RegionBefore(f, sub)
           a == RegionAfter(f, sub)
<1>1. /\ sub \in Nat \ {0} /\ best \in Nat /\ WordSize \in Nat
      /\ Granule <= sub /\ 8 * sub <= WordSize /\ first < next
      /\ (first % sub) = 0 /\ (next % sub) = 0
  BY Constants DEF Piece, Frames, Candidates, Addresses
<1>2. Clear(f) /\ f.start + sub <= WordSize
  <2>1. Clear(f)
    BY DEF Clear, Posed, WellPosed
  <2> QED
    BY <2>1, ClearRoom
<1>3. PICK base \in Nat : /\ (base % (8 * sub)) = 0 /\ base + 8 * sub <= WordSize
                          /\ base <= first /\ next <= base + 8 * sub
  BY DEF Piece
<1>4. /\ g \in Frames /\ g.start = f.start /\ g.end = Limit(f) - 1 /\ g.end <= f.end + 1
      /\ g.end \in Nat /\ f.end \in Nat /\ Limit(f) \in Nat
      /\ RegionBefore(g, sub) = b /\ RegionAfter(g, sub) = a
  <2>1. g.end \in Addresses /\ f.end \in Addresses
    BY UpToLimitFrame DEF Frames
  <2> QED
    BY <2>1, UpToLimitFrame, LimitFacts DEF Addresses
<1>5. next - first <= FitsIn(g, sub, base)
  <2>1. g.start <= first /\ next <= g.end + 1
    BY <1>4
  <2> HIDE DEF g
  <2> QED
    BY <1>1, <1>3, <1>4, <2>1, PieceFits
<1>6. \/ FitsIn(g, sub, base) <= FitsIn(g, sub, b)
      \/ b # f.start /\ FitsIn(g, sub, base) <= FitsIn(g, sub, a)
  <2>1. 8 * sub \in Nat \ {0}
    BY <1>1
  <2>2. PICK n \in Nat : base = (8 * sub) * n
    BY <1>3, <2>1, ExactQuotient
  <2>3. base = n * 8 * sub /\ n * 8 * sub + 8 * sub <= WordSize
    BY <1>1, <1>3, <2>2
  <2> HIDE DEF g, a, b
  <2> QED
    BY <1>1, <1>4, <2>3, TwoSuffice
<1>7. /\ FitsIn(g, sub, base) \in Nat /\ FitsIn(g, sub, base) <= 8 * sub
      /\ FitsIn(g, sub, a) \in Nat /\ FitsIn(g, sub, b) \in Nat
  BY <1>1, FitsBounds
<1>8. ASSUME NEW c \in {a, b}
      PROVE  \/ FitsIn(g, sub, c) <= ActualSize(f, sub, c)
             \/ FitsIn(g, sub, c) <= sub
  <2>1. c \in Addresses /\ c \in Nat
    BY <1>1, <1>2, Bases DEF Addresses
  <2>2. CASE c + sub - 1 <= f.end
    <3> HIDE DEF g
    <3> QED
      BY <1>1, <1>2, <1>4, <2>2, TryLargest
  <2>3. CASE ~(c + sub - 1 <= f.end)
    <3> DEFINE S == Fitting(g, sub, c)
    <3>1. S \subseteq {0}
      <4> SUFFICES ASSUME NEW j \in S PROVE j = 0
        OBVIOUS
      <4>1. j \in 0 .. 7 /\ c + (j + 1) * sub - 1 <= g.end
        BY DEF Fitting, Subregions
      <4>2. CASE j >= 1
        <5>1. 2 * sub <= (j + 1) * sub
          BY <1>1, <4>1, <4>2, ProductMonotonic
        <5> DEFINE x == (j + 1) * sub
        <5>2. x \in Nat /\ 2 * sub <= x /\ c + x - 1 <= g.end /\ sub >= 2
          <6>1. sub >= 2
            BY <1>1, Constants
          <6> QED
            BY <1>1, <4>1, <5>1, <6>1
        <5> HIDE DEF x, g
        <5> QED
          BY <1>1, <1>4, <2>1, <2>3, <5>2
      <4> QED
        BY <4>1, <4>2
    <3>2. Cardinality(S) <= 1 /\ Cardinality(S) \in Nat
      <4>1. IsFiniteSet({0}) /\ Cardinality({0}) = 1
        BY FS_Singleton
      <4>2. Cardinality(S) <= Cardinality({0})
        BY <3>1, <4>1, FS_Subset
      <4> QED
        BY <4>1, <4>2, FittingFinite
    <3>3. FitsIn(g, sub, c) = sub * Cardinality(S)
      BY FittingFinite
    <3> DEFINE d == Cardinality(S)
    <3>4. d \in Nat /\ d <= 1 /\ FitsIn(g, sub, c) = sub * d
      BY <3>2, <3>3
    <3> HIDE DEF d
    <3>5. d * sub <= 1 * sub /\ d * sub = sub * d /\ 1 * sub = sub
      BY <1>1, <3>4, ProductMonotonic
    <3> QED
      BY <3>4, <3>5
  <2> QED
    BY <2>2, <2>3
<1>9. ActualSize(f, sub, b) \in Nat /\ ActualSize(f, sub, a) \in Nat
  BY CandidateSizes
<1>10. \/ 8 * sub <= best
       \/ /\ ActualSize(f, sub, b) <= best
          /\ (b # f.start => ActualSize(f, sub, a) <= best)
  BY DEF Compared
<1>11. next - first \in Nat /\ sub <= next - first
  <2>1. first + sub <= next
    BY <1>1, MultipleGap
  <2> QED
    BY <1>1, <2>1
<1> DEFINE x == FitsIn(g, sub, base)
           u == FitsIn(g, sub, a)
           v == FitsIn(g, sub, b)
           p == ActualSize(f, sub, a)
           q == ActualSize(f, sub, b)
           n == next - first
<1>12. /\ n \in Nat /\ x \in Nat /\ u \in Nat /\ v \in Nat /\ p \in Nat /\ q \in Nat
       /\ n <= x /\ sub <= n /\ x <= 8 * sub
       /\ x <= v \/ (b # f.start /\ x <= u)
       /\ (u <= p \/ u <= sub) /\ (v <= q \/ v <= sub)
       /\ 8 * sub <= best \/ (q <= best /\ (b # f.start => p <= best))
  BY <1>5, <1>6, <1>7, <1>8, <1>9, <1>10, <1>11
<1> HIDE DEF x, u, v, p, q, n, best, a, b
<1>13. n <= best \/ n = sub
  BY <1>1, <1>12
<1> QED
  BY <1>13 DEF n, best

(* A piece of one subregion is one of two half as long.                    *)
LEMMA HalvedPiece ==
    ASSUME NEW sub \in PowersOfTwo, NEW half \in PowersOfTwo, sub = 2 * half, Granule <= half,
           NEW first \in Nat, NEW next \in Nat, Piece(sub, first, next), next = first + sub
    PROVE  Piece(half, first, next)
<1>1. /\ half \in Nat \ {0} /\ sub \in Nat \ {0} /\ WordSize \in Nat
      /\ 8 * sub <= WordSize /\ (first % sub) = 0 /\ (next % sub) = 0 /\ first < next
  BY Constants DEF Piece
<1>2. PICK base \in Nat : /\ (base % (8 * sub)) = 0 /\ base + 8 * sub <= WordSize
                          /\ base <= first /\ next <= base + 8 * sub
  BY DEF Piece
<1>3. (first % half) = 0 /\ (next % half) = 0 /\ 8 * half <= WordSize
  <2>1. half <= sub
    BY <1>1
  <2> QED
    BY <1>1, <2>1, MultipleOfSmaller
<1> DEFINE h == 8 * half
           mid == base + h
<1>4. h \in Nat \ {0} /\ 8 * sub = 2 * h
  BY <1>1
<1>5. /\ (base % h) = 0 /\ (mid % h) = 0 /\ mid \in Nat
      /\ (mid % sub) = 0
  <2>1. PICK k \in Nat : base = (8 * sub) * k
    <3>1. 8 * sub \in Nat \ {0}
      BY <1>1
    <3> QED
      BY <1>2, <3>1, ExactQuotient
  <2>2. base = h * (2 * k) /\ mid = h * (2 * k + 1) /\ mid = sub * (8 * k + 4)
    BY <1>1, <2>1
  <2>3. 2 * k \in Nat /\ 2 * k + 1 \in Nat /\ 8 * k + 4 \in Nat
    OBVIOUS
  <2>4. ((h * (2 * k)) % h) = 0 /\ ((h * (2 * k + 1)) % h) = 0
    <3> HIDE DEF h
    <3> QED
      BY <1>4, <2>3, Multiple
  <2>5. ((sub * (8 * k + 4)) % sub) = 0
    BY <1>1, <2>3, Multiple
  <2>6. mid \in Nat
    BY <1>4
  <2> HIDE DEF h, mid
  <2> QED
    BY <2>2, <2>4, <2>5, <2>6
<1>6. \E b \in Nat : /\ (b % h) = 0 /\ b + h <= WordSize /\ b <= first /\ next <= b + h
  <2>1. CASE next <= mid
    <3>1. base + h <= WordSize
      <4> HIDE DEF h
      <4> QED
        BY <1>1, <1>2, <1>4
    <3> QED
      BY <1>2, <1>5, <2>1, <3>1
  <2>2. CASE mid < next
    <3> HIDE DEF mid, h
    <3>1. mid + sub <= next
      BY <1>1, <1>5, <2>2, MultipleGap
    <3>2. mid <= first
      BY <1>1, <1>5, <3>1
    <3>3. mid + h <= WordSize /\ next <= mid + h
      BY <1>1, <1>2, <1>4 DEF mid
    <3> QED
      BY <1>5, <3>2, <3>3
  <2>3. next <= mid \/ mid < next
    <3> HIDE DEF mid
    <3> QED
      BY <1>5
  <2> QED
    BY <2>1, <2>2, <2>3
<1> QED
  BY <1>1, <1>3, <1>6 DEF Piece, h

(* No piece of the range, whatever the size of its subregions, is longer   *)
(* than what the best candidate covers.                                    *)
LEMMA LongestSelected ==
    ASSUME NEW f \in Frames, Posed(f), HoldsGranule(f), ~IsFullRange(f),
           SettledAbove(f, 0), Granule <= f.best.size
    PROVE  Longest(f.start, Limit(f), f.best.size)
<1> DEFINE best == f.best.size
           max == MaxSubregionSize(f)
           limit == Limit(f)
           start == f.start
<1> SUFFICES ASSUME NEW sub \in PowersOfTwo, NEW first \in Nat, NEW next \in Nat,
                    Piece(sub, first, next), start <= first, next <= limit
             PROVE  next - first <= best
  BY DEF Longest
<1>1. /\ sub \in Nat \ {0} /\ best \in Nat /\ Granule \in Nat \ {0} /\ Granule >= 2
      /\ Granule <= sub /\ 8 * sub <= WordSize /\ first < next
      /\ (first % sub) = 0 /\ (next % sub) = 0 /\ Granule \in PowersOfTwo
  BY Constants, WordAssumption DEF Piece, Frames, Candidates, Addresses
<1>2. /\ max \in PowersOfTwo /\ max \in Nat \ {0} /\ 4 * Granule <= max
  <2>1. max \in PowersOfTwo /\ max >= 4 * Granule /\ max \in Nat \ {0}
    BY MaxSubregionSizeType, Constants
  <2> HIDE DEF max
  <2> QED
    BY <1>1, <2>1
<1>3. ASSUME NEW s \in PowersOfTwo, s <= max, Piece(s, first, next)
      PROVE  next - first <= best \/ next - first = s
  <2>1. s \in Nat /\ 0 < s /\ Granule <= s
    BY <1>3, Constants DEF Piece
  <2>2. Compared(f, s)
    BY <1>3, <2>1 DEF SettledAbove
  <2> QED
    BY <1>3, <2>2, PieceBounded
<1>4. first + sub <= next
  BY <1>1, MultipleGap
<1>5. ASSUME NEW half \in PowersOfTwo, sub = 2 * half, Granule <= half, half <= max,
             next = first + sub
      PROVE  next - first <= best
  <2>1. Piece(half, first, next) /\ half \in Nat \ {0}
    BY <1>5, HalvedPiece, Constants
  <2>2. next - first <= best \/ next - first = half
    BY <1>3, <1>5, <2>1
  <2>3. next - first = 2 * half
    BY <1>1, <1>5
  <2> QED
    BY <2>1, <2>2, <2>3
<1>6. CASE sub <= max
  <2>1. next - first <= best \/ next - first = sub
    BY <1>3, <1>6
  <2>2. CASE next - first = sub /\ sub = Granule
    BY <2>2
  <2>3. CASE next - first = sub /\ sub # Granule
    <3>1. sub # 1 /\ Granule < sub
      BY <1>1, <2>3
    <3>2. PICK half \in PowersOfTwo : sub = 2 * half /\ half \in Nat \ {0}
      BY <3>1, HalfPower, Constants
    <3>3. Granule <= half
      <4>1. Granule < 2 * half
        BY <3>1, <3>2
      <4> QED
        BY <1>1, <4>1, NoneBetween
    <3>4. half <= max
      <4> HIDE DEF max
      <4> QED
        BY <1>1, <1>2, <1>6, <3>2
    <3>5. next = first + sub
      BY <1>1, <2>3
    <3> QED
      BY <1>5, <3>2, <3>3, <3>4, <3>5
  <2> QED
    BY <2>1, <2>2, <2>3
<1>7. CASE ~(sub <= max)
  <2>1. /\ start \in Nat /\ f.end \in Nat /\ limit \in Nat /\ limit <= f.end + 2
        /\ f.end - start + 1 <= 2 * max
    <3>1. Clear(f)
      BY DEF Clear, Posed, WellPosed
    <3>2. f.end - start + 1 <= 2 * max
      BY <3>1, FirstSizeEnough
    <3> QED
      BY <3>2, LimitFacts
  <2> DEFINE end == f.end
  <2>2. end \in Nat /\ limit <= end + 2 /\ end - start + 1 <= 2 * max
    BY <2>1
  <2> HIDE DEF start, end, limit, max
  <2>3. next - first <= 2 * max + 1
    BY <1>1, <1>2, <2>1, <2>2
  <2>4. (sub % max) = 0 /\ (max % max) = 0
    <3>1. max <= sub /\ max <= max
      BY <1>1, <1>2, <1>7
    <3> QED
      BY <1>2, <3>1, PowerDivides
  <2>5. 2 * max <= sub
    <3>1. max < sub
      BY <1>1, <1>2, <1>7
    <3>2. max + max <= sub
      BY <1>1, <1>2, <2>4, <3>1, MultipleGap
    <3> QED
      BY <1>1, <1>2, <3>2
  <2>6. sub = 2 * max
    <3> SUFFICES ASSUME 2 * max < sub PROVE FALSE
      BY <1>1, <1>2, <2>5
    <3> DEFINE m == 2 * max
    <3>1. m \in Nat /\ (m % max) = 0 /\ m < sub
      <4>1. m = max + max
        BY <1>2
      <4>2. ((max + max) % max) = 0
        BY <1>2, <2>4, MultipleSum
      <4> QED
        BY <1>2, <4>1, <4>2
    <3> HIDE DEF m
    <3>2. m + max <= sub
      BY <1>1, <1>2, <2>4, <3>1, MultipleGap
    <3>3. max >= 8
      BY <1>1, <1>2
    <3>4. m = 2 * max
      BY DEF m
    <3> QED
      BY <1>1, <1>2, <1>4, <2>3, <3>2, <3>3, <3>4
  <2>7. next = first + sub
    <3> SUFFICES ASSUME first + sub < next PROVE FALSE
      BY <1>1, <1>4
    <3> DEFINE m == first + sub
    <3>1. m \in Nat /\ (m % sub) = 0 /\ m < next
      <4>1. (sub % sub) = 0
        BY <1>1, PowerDivides
      <4>2. ((first + sub) % sub) = 0
        BY <1>1, <4>1, MultipleSum
      <4> QED
        BY <1>1, <4>2
    <3> HIDE DEF m
    <3>2. m + sub <= next
      BY <1>1, <3>1, MultipleGap
    <3>3. m = first + sub
      BY DEF m
    <3> QED
      BY <1>1, <1>2, <2>3, <2>6, <3>2, <3>3
  <2>8. Granule <= max /\ max <= max
    BY <1>1, <1>2
  <2> QED
    BY <1>2, <1>5, <2>6, <2>7, <2>8
<1> QED
  BY <1>6, <1>7

(* build_entry takes the first and the last address of such a piece.       *)
LEMMA BuildPicked ==
    ASSUME NEW f \in Frames, Posed(f), ~IsFullRange(f),
           BuildInv(f), SettledAbove(f, 0)
    PROVE  LET first == FirstAddr(f, f.best.sub, f.best.base)
               next  == first + f.best.size
           IN  /\ Picked(f.start, Limit(f), first, next)
               /\ NextAddr(f) = IF next = WordSize THEN 0 ELSE next
<1> DEFINE sub == f.best.sub
           base == f.best.base
           size == f.best.size
           i == FirstSubregion(f, sub, base)
           k == NumSubregions(f, sub, base)
           first == FirstAddr(f, sub, base)
           next == first + size
           start == f.start
           end == f.end
           limit == Limit(f)
           a == i * sub
           b == k * sub
<1>1. /\ sub \in PowersOfTwo /\ Granule <= sub /\ 8 * sub <= WordSize /\ start + sub <= WordSize
      /\ base \in {RegionBefore(f, sub), RegionAfter(f, sub)}
      /\ size = ActualSize(f, sub, base) /\ size > 0
  BY DEF BuildInv, Tried, Enough
<1>2. /\ sub \in Nat \ {0} /\ size \in Nat /\ WordSize \in Nat \ {0}
      /\ Granule \in Nat \ {0} /\ Granule \in PowersOfTwo
  BY <1>1, Constants, WordAssumption DEF Frames, Candidates, Addresses
<1>3. base \in Nat /\ (base % (8 * sub)) = 0 /\ base + 8 * sub <= WordSize /\ base \in Addresses
  BY <1>1, Bases DEF Addresses
<1>4. k > 0
  <2>1. k \in 0 .. 8
    BY <1>2, <1>3, SelectionTypes
  <2>2. CASE k = 0
    <3>1. size = 0
      BY <1>1, <1>2, <2>2, NoneCovered
    <3> QED
      BY <1>1, <1>2, <3>1
  <2> HIDE DEF k
  <2> QED
    BY <2>1, <2>2
<1>5. Covers(f, sub, base, i, k) /\ size = b /\ size >= sub /\ first = base + a
  BY <1>1, <1>4, TryBounds, TrySize
<1>6. /\ i \in Nat /\ k \in Nat \ {0} /\ i + k <= 8
      /\ start <= base + a /\ base + a + b <= end + 2 /\ base + a + b <= WordSize
  BY <1>5 DEF Covers
<1>7. a \in Nat /\ b \in Nat /\ (a % sub) = 0 /\ (b % sub) = 0 /\ a + b <= 8 * sub
  <2> HIDE DEF i, k, sub
  <2>1. a \in Nat /\ b \in Nat /\ a = sub * i /\ b = sub * k /\ a + b = (i + k) * sub
    BY <1>2, <1>6
  <2>2. ((sub * i) % sub) = 0 /\ ((sub * k) % sub) = 0
    BY <1>2, <1>6, Multiple
  <2>3. (i + k) * sub <= 8 * sub
    BY <1>2, <1>6, ProductMonotonic
  <2> QED
    BY <2>1, <2>2, <2>3
<1>8. /\ start \in Nat /\ end \in Nat /\ (start % Granule) = 0
      /\ limit \in Nat /\ (limit % Granule) = 0 /\ limit <= WordSize
      /\ end + 2 < limit + Granule
  BY LimitFacts
<1> HIDE DEF i, k, a, b, limit, start, end, base, sub, size, first
<1>9. next = base + a + b /\ first \in Nat /\ next \in Nat /\ first < next /\ next - first = size
  BY <1>1, <1>2, <1>3, <1>5, <1>7
<1>10. (first % sub) = 0 /\ (next % sub) = 0
  <2>1. (base % sub) = 0
    <3>1. 8 * sub \in Nat \ {0}
      BY <1>2
    <3>2. PICK z \in Nat : base = (8 * sub) * z
      BY <1>3, <3>1, ExactQuotient
    <3>3. base = sub * (8 * z) /\ 8 * z \in Nat
      BY <1>2, <3>2
    <3> QED
      BY <1>2, <3>3, Multiple
  <2>2. (first % sub) = 0
    <3>1. ((base + a) % sub) = 0
      BY <1>2, <1>3, <1>7, <2>1, MultipleSum
    <3> QED
      BY <1>5, <3>1
  <2>3. ((first + b) % sub) = 0
    BY <1>2, <1>7, <1>9, <2>2, MultipleSum
  <2> QED
    BY <1>5, <2>2, <2>3
<1>11. Piece(sub, first, next)
  <2>1. base <= first /\ next <= base + 8 * sub
    BY <1>2, <1>3, <1>5, <1>7, <1>9
  <2> HIDE DEF next
  <2> QED
    BY <1>1, <1>3, <1>9, <1>10, <2>1 DEF Piece
<1>12. next <= limit
  <2> SUFFICES ASSUME limit < next PROVE FALSE
    BY <1>8, <1>9
  <2>1. (next % Granule) = 0
    BY <1>1, <1>2, <1>9, <1>10, MultipleOfSmaller
  <2>2. limit + Granule <= next
    <3> HIDE DEF next
    <3> QED
      BY <1>2, <1>8, <1>9, <2>1, MultipleGap
  <2> HIDE DEF next
  <2> QED
    BY <1>2, <1>3, <1>6, <1>7, <1>8, <1>9, <2>2
<1>13. start <= first
  BY <1>5, <1>6
<1>14. Longest(start, limit, next - first)
  <2>1. Granule <= size
    BY <1>1, <1>2, <1>5
  <2>2. start + Granule <= end + 2
    BY <1>1, <1>2, <1>3, <1>5, <1>6, <1>7, <1>8
  <2>3. HoldsGranule(f)
    BY <2>2 DEF HoldsGranule, start, end
  <2>4. Longest(start, limit, size)
    BY <2>1, <2>3, LongestSelected DEF start, limit, size
  <2> QED
    BY <1>9, <2>4
<1>15. Picked(start, limit, first, next)
  <2> HIDE DEF next
  <2> QED
    BY <1>1, <1>8, <1>11, <1>12, <1>13, <1>14 DEF Picked
<1>16. NextAddr(f) = IF next = WordSize THEN 0 ELSE next
  <2>1. NextAddr(f) = Wrap(next)
    BY <1>1 DEF NextAddr, first, sub, base, size
  <2>2. next <= WordSize
    BY <1>6, <1>9
  <2>3. CASE next = WordSize
    <3>1. Wrap(next) = 0
      BY <1>2, <2>3 DEF Wrap
    <3> QED
      BY <2>1, <2>3, <3>1
  <2>4. CASE next # WordSize
    <3> HIDE DEF next
    <3>1. next \in Addresses /\ next \in Int
      BY <1>2, <1>9, <2>2, <2>4 DEF Addresses
    <3>2. Wrap(next) = next
      BY <3>1, WrapAddress
    <3> QED
      BY <2>1, <2>4, <3>2
  <2> QED
    BY <2>3, <2>4
<1> QED
  BY <1>15, <1>16 DEF first, next, sub, base, size, start, limit

------------------------------------------------------------------------------
(***************************************************************************)
(* How many entries a range needs: levels                                  *)
(***************************************************************************)

(* The powers of two above the granule up to p, and how many factors of 8  *)
(* they amount to.                                                         *)
Above(p) == {q \in PowersOfTwo : Granule < q /\ q <= p}

Level(p) == (Cardinality(Above(p)) + 2) \div 3

LEMMA AboveFinite ==
    ASSUME NEW p
    PROVE  IsFiniteSet(Above(p)) /\ Cardinality(Above(p)) \in Nat
<1>1. Above(p) \subseteq 0 .. WordSize
  <2>1. \A q \in PowersOfTwo : q \in Nat /\ q <= WordSize
    BY Constants, WordAssumption
  <2> QED
    BY <2>1, Constants DEF Above
<1>2. IsFiniteSet(0 .. WordSize)
  <2>1. 0 \in Int /\ WordSize \in Int
    BY Constants
  <2> QED
    BY <2>1, FS_Interval
<1>3. IsFiniteSet(Above(p))
  BY <1>1, <1>2, FS_Subset
<1> QED
  BY <1>3, FS_CardinalityType

LEMMA LevelFacts ==
    /\ \A p \in PowersOfTwo : Level(p) \in Nat
    /\ Level(Granule) = 0
    /\ Levels = Level(WordSize)
    /\ Levels \in Nat
<1>1. ASSUME NEW p PROVE Level(p) \in Nat
  <2> DEFINE c == Cardinality(Above(p))
  <2>1. c \in Nat
    BY AboveFinite
  <2> HIDE DEF c
  <2>2. (c + 2) \div 3 \in Nat
    BY <2>1
  <2> QED
    BY <2>2 DEF Level, c
<1>2. Level(Granule) = 0
  <2>1. Above(Granule) = {}
    <3>1. \A q \in PowersOfTwo : q \in Nat
      BY Constants
    <3> QED
      BY <3>1, Constants DEF Above
  <2>2. Cardinality(Above(Granule)) = 0
    BY <2>1, FS_EmptySet
  <2>3. (0 + 2) \div 3 = 0
    OBVIOUS
  <2> QED
    BY <2>2, <2>3 DEF Level
<1>3. Levels = Level(WordSize)
  <2>1. {p \in PowersOfTwo : Granule < p} = Above(WordSize)
    BY WordAssumption DEF Above
  <2> QED
    BY <2>1 DEF Levels, Level
<1>4. Levels \in Nat
  BY <1>1, <1>3
<1> QED
  BY <1>1, <1>2, <1>3, <1>4

LEMMA LevelAbove ==
    ASSUME NEW q \in PowersOfTwo, Granule < q
    PROVE  1 <= Level(q)
<1> DEFINE c == Cardinality(Above(q))
<1>1. c \in Nat /\ IsFiniteSet(Above(q))
  BY AboveFinite
<1>2. 1 <= c
  <2>1. {q} \subseteq Above(q)
    <3>1. q <= q
      BY Constants
    <3> QED
      BY <3>1 DEF Above
  <2>2. IsFiniteSet({q}) /\ Cardinality({q}) = 1
    BY FS_Singleton
  <2> QED
    BY <1>1, <2>1, <2>2, FS_Subset
<1> HIDE DEF c
<1>3. 1 <= (c + 2) \div 3
  BY <1>1, <1>2
<1> QED
  BY <1>3 DEF Level, c

(* Eight times as much is a level more.                                    *)
LEMMA LevelEighth ==
    ASSUME NEW p \in PowersOfTwo, NEW q \in PowersOfTwo, Granule <= p, 8 * p <= q
    PROVE  Level(p) + 1 <= Level(q)
<1> DEFINE S == Above(p)
           T == {2 * p, 4 * p, 8 * p}
           c == Cardinality(S)
           d == Cardinality(Above(q))
<1>1. /\ p \in Nat \ {0} /\ q \in Nat \ {0} /\ WordSize \in Nat /\ q <= WordSize
      /\ Granule \in Nat
  BY Constants, WordAssumption
<1>2. 2 * p \in PowersOfTwo /\ 4 * p \in PowersOfTwo /\ 8 * p \in PowersOfTwo
  <2>1. 2 * p <= WordSize /\ 2 * (2 * p) <= WordSize /\ 2 * (4 * p) <= WordSize
        /\ 2 * (2 * p) = 4 * p /\ 2 * (4 * p) = 8 * p
    BY <1>1
  <2>2. 2 * p \in PowersOfTwo
    BY <2>1, DoublePower
  <2>3. 4 * p \in PowersOfTwo
    BY <2>1, <2>2, DoublePower
  <2>4. 8 * p \in PowersOfTwo
    BY <2>1, <2>3, DoublePower
  <2> QED
    BY <2>2, <2>3, <2>4
<1>3. c \in Nat /\ d \in Nat /\ IsFiniteSet(S) /\ IsFiniteSet(Above(q))
  BY AboveFinite
<1>4. IsFiniteSet(T) /\ Cardinality(T) = 3
  <2>1. IsFiniteSet({2 * p}) /\ Cardinality({2 * p}) = 1
    BY FS_Singleton
  <2>2. 4 * p \notin {2 * p} /\ 8 * p \notin {2 * p, 4 * p}
    BY <1>1
  <2>3. IsFiniteSet({2 * p} \cup {4 * p}) /\ Cardinality({2 * p} \cup {4 * p}) = 2
    BY <2>1, <2>2, FS_AddElement
  <2>4. {2 * p} \cup {4 * p} = {2 * p, 4 * p}
    OBVIOUS
  <2>5. IsFiniteSet({2 * p, 4 * p} \cup {8 * p}) /\ Cardinality({2 * p, 4 * p} \cup {8 * p}) = 3
    BY <2>2, <2>3, <2>4, FS_AddElement
  <2>6. {2 * p, 4 * p} \cup {8 * p} = T
    OBVIOUS
  <2> QED
    BY <2>5, <2>6
<1>5. S \cap T = {}
  BY <1>1 DEF Above
<1>6. IsFiniteSet(S \cup T) /\ Cardinality(S \cup T) = c + 3
  <2>1. /\ IsFiniteSet(S \cup T)
        /\ Cardinality(S \cup T) = Cardinality(S) + Cardinality(T) - Cardinality(S \cap T)
    BY <1>3, <1>4, FS_Union
  <2>2. Cardinality(S \cap T) = 0
    BY <1>5, FS_EmptySet
  <2> HIDE DEF S, T
  <2> QED
    BY <1>3, <1>4, <2>1, <2>2
<1>7. S \cup T \subseteq Above(q)
  <2>1. \A x \in PowersOfTwo : x \in Nat
    BY Constants
  <2>2. S \subseteq Above(q)
    <3> SUFFICES ASSUME NEW x \in PowersOfTwo, Granule < x, x <= p PROVE x <= q
      BY DEF Above
    <3> QED
      BY <1>1, <2>1
  <2>3. T \subseteq Above(q)
    BY <1>1, <1>2 DEF Above
  <2> QED
    BY <2>2, <2>3
<1>8. c + 3 <= d
  <2>1. Cardinality(S \cup T) <= d
    BY <1>3, <1>7, FS_Subset
  <2> HIDE DEF S, T, c, d
  <2> QED
    BY <1>6, <2>1
<1> HIDE DEF c, d, S, T
<1>9. ((c + 2) \div 3) + 1 <= (d + 2) \div 3
  BY <1>3, <1>8
<1> QED
  BY <1>9 DEF Level, c, d, S

(* The range start .. limit - 1 ends (begins) at a multiple of a power of  *)
(* two of at most level m, and is shorter than that power.                 *)
EndsNarrow(start, limit, m) ==
    \E p \in PowersOfTwo : Granule <= p /\ Level(p) <= m /\ EndsBelow(start, limit, p)

StartsNarrow(start, limit, m) ==
    \E p \in PowersOfTwo : Granule <= p /\ Level(p) <= m /\ StartsBelow(start, limit, p)

LEMMA LevelsPositive == Levels - 1 \in Nat
<1>1. WordSize \in PowersOfTwo /\ Granule < WordSize
  BY Constants, WordAssumption
<1>2. 1 <= Level(WordSize)
  BY <1>1, LevelAbove
<1> QED
  BY <1>2, LevelFacts

LEMMA EighthLevel ==
    ASSUME NEW p \in PowersOfTwo, Granule < p, NEW small, Eighth(small, p)
    PROVE  small \in PowersOfTwo /\ Granule <= small /\ Level(small) + 1 <= Level(p)
<1>1. small \in PowersOfTwo /\ Granule <= small /\ (small = Granule \/ 8 * small <= p)
  BY DEF Eighth
<1>2. CASE small = Granule
  <2>1. Level(small) = 0 /\ 1 <= Level(p)
    BY <1>2, LevelFacts, LevelAbove
  <2> QED
    BY <1>1, <2>1
<1>3. CASE 8 * small <= p
  BY <1>1, <1>3, LevelEighth
<1> QED
  BY <1>1, <1>2, <1>3

(* An empty range is narrow at every level.                                *)
LEMMA EmptyNarrow ==
    ASSUME NEW z \in Nat, (z % Granule) = 0, NEW m \in Nat
    PROVE  EndsNarrow(z, z, m) /\ StartsNarrow(z, z, m)
<1>1. Granule \in PowersOfTwo /\ Granule \in Nat \ {0} /\ z - z = 0
  BY Constants, WordAssumption
<1>2. Granule <= Granule /\ Level(Granule) <= m /\ z - z < Granule
  BY <1>1, LevelFacts
<1> QED
  BY <1>1, <1>2 DEF EndsNarrow, StartsNarrow, EndsBelow, StartsBelow

LEMMA NarrowAligned ==
    ASSUME NEW start \in Nat, NEW limit \in Nat, NEW m
    PROVE  /\ EndsNarrow(start, limit, m) => (limit % Granule) = 0
           /\ StartsNarrow(start, limit, m) => (start % Granule) = 0
<1>1. Granule \in PowersOfTwo
  BY WordAssumption
<1>2. ASSUME EndsNarrow(start, limit, m) PROVE (limit % Granule) = 0
  <2>1. PICK p \in PowersOfTwo : Granule <= p /\ (limit % p) = 0
    BY <1>2 DEF EndsNarrow, EndsBelow
  <2> QED
    BY <1>1, <2>1, MultipleOfSmaller
<1>3. ASSUME StartsNarrow(start, limit, m) PROVE (start % Granule) = 0
  <2>1. PICK p \in PowersOfTwo : Granule <= p /\ (start % p) = 0
    BY <1>3 DEF StartsNarrow, StartsBelow
  <2> QED
    BY <1>1, <2>1, MultipleOfSmaller
<1> QED
  BY <1>2, <1>3

(* What the longest piece leaves of any range is a level below the word on *)
(* both sides; a range that is narrow at one end is used up to that end,   *)
(* and what is left is narrow a level below.                               *)
LEMMA PickedNarrow ==
    ASSUME NEW start, NEW limit, NEW first, NEW next, Picked(start, limit, first, next)
    PROVE  /\ EndsNarrow(start, first, Levels - 1)
           /\ StartsNarrow(next, limit, Levels - 1)
           /\ \A m \in Nat : EndsNarrow(start, limit, m) =>
                 m - 1 \in Nat /\ next = limit /\ EndsNarrow(start, first, m - 1)
           /\ \A m \in Nat : StartsNarrow(start, limit, m) =>
                 m - 1 \in Nat /\ first = start /\ StartsNarrow(next, limit, m - 1)
<1>1. WordSize \in PowersOfTwo /\ Granule < WordSize
  BY Constants, WordAssumption
<1>2. \A p \in PowersOfTwo : Level(p) \in Nat /\ p <= WordSize
  BY LevelFacts, WordAssumption
<1>3. EndsNarrow(start, first, Levels - 1) /\ StartsNarrow(next, limit, Levels - 1)
  <2>1. PICK small : Eighth(small, WordSize) /\ EndsBelow(start, first, small)
    BY BothPicked
  <2>2. PICK little : Eighth(little, WordSize) /\ StartsBelow(next, limit, little)
    BY BothPicked
  <2>3. /\ small \in PowersOfTwo /\ Granule <= small /\ Level(small) + 1 <= Levels
        /\ little \in PowersOfTwo /\ Granule <= little /\ Level(little) + 1 <= Levels
    BY <1>1, <2>1, <2>2, EighthLevel, LevelFacts
  <2>4. Level(small) <= Levels - 1 /\ Level(little) <= Levels - 1
    BY <1>2, <2>3, LevelFacts
  <2> QED
    BY <2>1, <2>2, <2>3, <2>4 DEF EndsNarrow, StartsNarrow
<1>4. ASSUME NEW m \in Nat, EndsNarrow(start, limit, m)
      PROVE  m - 1 \in Nat /\ next = limit /\ EndsNarrow(start, first, m - 1)
  <2>1. PICK p \in PowersOfTwo : Level(p) <= m /\ EndsBelow(start, limit, p)
    BY <1>4 DEF EndsNarrow
  <2>2. Granule < p /\ next = limit
    BY <2>1, EndPicked
  <2>3. PICK small : Eighth(small, p) /\ EndsBelow(start, first, small)
    BY <2>1, EndPicked
  <2>4. small \in PowersOfTwo /\ Granule <= small /\ Level(small) + 1 <= Level(p)
    BY <2>2, <2>3, EighthLevel
  <2>5. Level(small) <= m - 1 /\ m - 1 \in Nat
    BY <1>2, <2>1, <2>4
  <2> QED
    BY <2>2, <2>3, <2>4, <2>5 DEF EndsNarrow
<1>5. ASSUME NEW m \in Nat, StartsNarrow(start, limit, m)
      PROVE  m - 1 \in Nat /\ first = start /\ StartsNarrow(next, limit, m - 1)
  <2>1. PICK p \in PowersOfTwo : Level(p) <= m /\ StartsBelow(start, limit, p)
    BY <1>5 DEF StartsNarrow
  <2>2. Granule < p /\ first = start
    BY <1>2, <2>1, StartPicked
  <2>3. PICK small : Eighth(small, p) /\ StartsBelow(next, limit, small)
    BY <1>2, <2>1, StartPicked
  <2>4. small \in PowersOfTwo /\ Granule <= small /\ Level(small) + 1 <= Level(p)
    BY <2>2, <2>3, EighthLevel
  <2>5. Level(small) <= m - 1 /\ m - 1 \in Nat
    BY <1>2, <2>1, <2>4
  <2> QED
    BY <2>2, <2>3, <2>4, <2>5 DEF StartsNarrow
<1> QED
  BY <1>3, <1>4, <1>5

------------------------------------------------------------------------------
(***************************************************************************)
(* How many entries a range needs: the calculators                         *)
(***************************************************************************)

(* Where the part that is left on the right begins.                        *)
Rest(f) == IF NeedsRight(f) THEN f.right ELSE Limit(f)

(* What the entry that was built leaves on its two sides.                  *)
Splits(f) ==
    /\ EndsNarrow(f.start, f.left, Levels - 1)
    /\ StartsNarrow(Rest(f), Limit(f), Levels - 1)
    /\ \A m \in Nat : EndsNarrow(f.start, Limit(f), m) =>
          m - 1 \in Nat /\ Rest(f) = Limit(f) /\ EndsNarrow(f.start, f.left, m - 1)
    /\ \A m \in Nat : StartsNarrow(f.start, Limit(f), m) =>
          m - 1 \in Nat /\ f.left = f.start /\ StartsNarrow(Rest(f), Limit(f), m - 1)

(* At most an entry for each level of a narrow range, and for any other     *)
(* range two for each level below the word, and one.                       *)
Within(f, entries) ==
    /\ entries <= 2 * Levels - 1
    /\ \A m \in Nat :
          EndsNarrow(f.start, Limit(f), m) \/ StartsNarrow(f.start, Limit(f), m)
             => entries <= m

BuiltPoints == {"left", "copyLeft", "right", "copyRight"}

NarrowPoint(f) ==
    /\ f.pc \in BuiltPoints => Splits(f)
    /\ f.pc \in {"left", "copyLeft"} => Len(f.table) = 1
    /\ f.pc \in {"right", "copyRight"} =>
          \A m \in Nat : EndsNarrow(f.start, f.left, m) => Len(f.table) <= 1 + m
    /\ f.pc = "return" => Within(f, Len(f.table))

NarrowFrame(f) == Posed(f) => NarrowPoint(f)

NarrowInv == NarrowFrame(frame) /\ \A i \in DOMAIN callers : NarrowFrame(callers[i])

LEMMA SameLimit ==
    ASSUME NEW f, NEW g, g.start = f.start, g.end = f.end
    PROVE  /\ Posed(g) = Posed(f) /\ Limit(g) = Limit(f)
           /\ \A n : Within(g, n) = Within(f, n)
           /\ g.left = f.left /\ g.right = f.right => Rest(g) = Rest(f) /\ Splits(g) = Splits(f)
<1>1. Posed(g) = Posed(f) /\ Limit(g) = Limit(f)
  BY DEF Posed, Limit
<1>2. \A n : Within(g, n) = Within(f, n)
  BY <1>1 DEF Within
<1>3. ASSUME g.left = f.left, g.right = f.right PROVE Rest(g) = Rest(f) /\ Splits(g) = Splits(f)
  <2>1. Rest(g) = Rest(f)
    BY <1>1, <1>3 DEF Rest, NeedsRight
  <2> QED
    BY <1>1, <1>3, <2>1 DEF Splits
<1> QED
  BY <1>1, <1>2, <1>3

LEMMA BuildSplits ==
    ASSUME NEW f \in Frames, Posed(f), BuildInv(f), ~IsFullRange(f) => SettledAbove(f, 0),
           NEW g, g.start = f.start, g.end = f.end,
           g.left = FirstAddr(f, f.best.sub, f.best.base), g.right = NextAddr(f)
    PROVE  Splits(g)
<1> DEFINE start == f.start
           limit == Limit(f)
<1>1. limit \in Nat /\ (limit % Granule) = 0 /\ start \in Nat /\ (start % Granule) = 0
  BY LimitFacts
<1>2. Limit(g) = limit /\ Levels - 1 \in Nat
  BY SameLimit, LevelsPositive
<1>3. \A m \in Nat : StartsNarrow(limit, limit, m) /\ EndsNarrow(start, start, m)
  BY <1>1, EmptyNarrow
<1>4. CASE IsFullRange(f)
  <2>1. f.best = FullBest
    BY <1>4 DEF BuildInv
  <2>2. start = 0 /\ f.end = LastAddress
    BY <1>4 DEF IsFullRange
  <2>3. limit = WordSize
    BY <2>2, LimitFacts
  <2>4. g.left = start /\ g.right = f.end
    BY <1>4, <2>1, <2>2, FullRangeBuild
  <2>5. Rest(g) = limit
    <3>1. f.end \in Nat
      BY DEF Frames, Addresses
    <3>2. ~NeedsRight(g)
      BY <2>4, <3>1 DEF NeedsRight
    <3> QED
      BY <1>2, <3>2 DEF Rest
  <2>6. ASSUME NEW m PROVE ~EndsNarrow(start, limit, m) /\ ~StartsNarrow(start, limit, m)
    <3>1. \A p \in PowersOfTwo : p \in Nat /\ p <= WordSize /\ ~(WordSize - 0 < p)
      BY Constants, WordAssumption
    <3> QED
      BY <2>2, <2>3, <3>1 DEF EndsNarrow, StartsNarrow, EndsBelow, StartsBelow
  <2> HIDE DEF start, limit
  <2> QED
    BY <1>2, <1>3, <2>4, <2>5, <2>6 DEF Splits, start
<1>5. CASE ~IsFullRange(f)
  <2> DEFINE first == FirstAddr(f, f.best.sub, f.best.base)
             next == first + f.best.size
  <2>1. /\ Picked(start, limit, first, next)
        /\ NextAddr(f) = IF next = WordSize THEN 0 ELSE next
    BY <1>5, BuildPicked
  <2>2. g.left = first /\ g.start = start
    OBVIOUS
  <2>3. Rest(g) = next \/ Rest(g) = limit
    BY <1>2, <2>1 DEF Rest, NeedsRight
  <2> HIDE DEF start, limit, first, next
  <2>4. /\ EndsNarrow(start, first, Levels - 1)
        /\ StartsNarrow(next, limit, Levels - 1)
        /\ \A m \in Nat : EndsNarrow(start, limit, m) =>
              m - 1 \in Nat /\ next = limit /\ EndsNarrow(start, first, m - 1)
        /\ \A m \in Nat : StartsNarrow(start, limit, m) =>
              m - 1 \in Nat /\ first = start /\ StartsNarrow(next, limit, m - 1)
    BY <2>1, PickedNarrow
  <2>5. /\ StartsNarrow(Rest(g), limit, Levels - 1)
        /\ \A m \in Nat : EndsNarrow(start, limit, m) =>
              m - 1 \in Nat /\ Rest(g) = limit /\ EndsNarrow(start, first, m - 1)
        /\ \A m \in Nat : StartsNarrow(start, limit, m) =>
              m - 1 \in Nat /\ first = start /\ StartsNarrow(Rest(g), limit, m - 1)
    <3>1. CASE Rest(g) = next
      BY <2>4, <3>1
    <3>2. CASE Rest(g) = limit
      BY <1>2, <1>3, <2>4, <3>2
    <3> QED
      BY <2>3, <3>1, <3>2
  <2> QED
    BY <1>2, <2>2, <2>4, <2>5 DEF Splits
<1> QED
  BY <1>4, <1>5

(* The child works on the part that is left on its side.                   *)
LEMMA ChildLimit ==
    ASSUME NEW f \in Frames, Posed(f), RestInv(f), Splits(f),
           NEW child \in Frames, Waits(f, child)
    PROVE  /\ Posed(child)
           /\ f.pc = "copyLeft" => child.start = f.start /\ Limit(child) = f.left
           /\ f.pc = "copyRight" => child.start = Rest(f) /\ Limit(child) = Limit(f)
<1>1. CASE f.pc = "copyLeft"
  <2> DEFINE left == f.left
             limit == Limit(child)
  <2>1. NeedsLeft(f) /\ child.start = f.start /\ child.end = left - 1
    BY <1>1 DEF Waits
  <2>2. Posed(child)
    BY <2>1 DEF RestInv, LeftPart, Posed
  <2>3. left \in Nat /\ f.start \in Nat
    BY DEF Frames, Addresses
  <2>4. (left % Granule) = 0
    BY <2>3, NarrowAligned DEF Splits
  <2>5. /\ limit \in Nat /\ (limit % Granule) = 0
        /\ limit <= (left - 1) + 2 /\ (left - 1) + 2 < limit + Granule
    BY <2>1, <2>2, LimitFacts
  <2> HIDE DEF left, limit
  <2>6. limit = left
    <3>1. Granule \in Nat \ {0} /\ Granule >= 2
      BY Constants
    <3>2. CASE limit < left
      <4>1. limit + Granule <= left
        BY <2>3, <2>4, <2>5, <3>1, <3>2, MultipleGap
      <4> QED
        BY <2>3, <2>5, <3>1, <4>1
    <3>3. CASE left < limit
      <4>1. left + Granule <= limit
        BY <2>3, <2>4, <2>5, <3>1, <3>3, MultipleGap
      <4> QED
        BY <2>3, <2>5, <3>1, <4>1
    <3> QED
      BY <2>3, <2>5, <3>2, <3>3
  <2> QED
    BY <1>1, <2>1, <2>2, <2>6 DEF left, limit
<1>2. CASE f.pc = "copyRight"
  <2>1. NeedsRight(f) /\ child.start = f.right /\ child.end = f.end
    BY <1>2 DEF Waits
  <2>2. Posed(child)
    BY <2>1 DEF RestInv, RightPart, Posed
  <2>3. Rest(f) = f.right /\ Limit(child) = Limit(f)
    BY <2>1 DEF Rest, Limit
  <2> QED
    BY <1>2, <2>1, <2>2, <2>3
<1> QED
  BY <1>1, <1>2 DEF Waits

(* The entries of both sides together.                                     *)
LEMMA SplitWithin ==
    ASSUME NEW f \in Frames, Posed(f), Splits(f),
           NEW n \in Nat, \A m \in Nat : EndsNarrow(f.start, f.left, m) => n <= 1 + m,
           NEW k \in Nat, \A m \in Nat : StartsNarrow(Rest(f), Limit(f), m) => k <= m,
           NEW entries \in Nat, entries <= n + k
    PROVE  Within(f, entries)
<1>1. Levels - 1 \in Nat /\ Levels \in Nat
  BY LevelsPositive, LevelFacts
<1>2. /\ f.start \in Nat /\ (f.start % Granule) = 0
      /\ Limit(f) \in Nat /\ (Limit(f) % Granule) = 0
  BY LimitFacts
<1>3. entries <= 2 * Levels - 1
  <2>1. n <= 1 + (Levels - 1) /\ k <= Levels - 1
    BY <1>1 DEF Splits
  <2> QED
    BY <1>1, <2>1
<1>4. ASSUME NEW m \in Nat, EndsNarrow(f.start, Limit(f), m) PROVE entries <= m
  <2>1. m - 1 \in Nat /\ Rest(f) = Limit(f) /\ EndsNarrow(f.start, f.left, m - 1)
    BY <1>4 DEF Splits
  <2>2. n <= 1 + (m - 1)
    BY <2>1
  <2>3. k <= 0
    BY <1>2, <2>1, EmptyNarrow
  <2> QED
    BY <2>2, <2>3
<1>5. ASSUME NEW m \in Nat, StartsNarrow(f.start, Limit(f), m) PROVE entries <= m
  <2>1. m - 1 \in Nat /\ f.left = f.start /\ StartsNarrow(Rest(f), Limit(f), m - 1)
    BY <1>5 DEF Splits
  <2>2. n <= 1 + 0
    BY <1>2, <2>1, EmptyNarrow
  <2>3. k <= m - 1
    BY <2>1
  <2> QED
    BY <2>1, <2>2, <2>3
<1> QED
  BY <1>3, <1>4, <1>5 DEF Within

(* A step to another point of the second half.                             *)
LEMMA GotoNarrow ==
    ASSUME NEW f \in Frames, NarrowFrame(f), NEW label,
           \/ f.pc = "left" /\ label = "copyLeft"
           \/ f.pc = "right" /\ label = "copyRight"
           \/ f.pc = "left" /\ label = "right"
    PROVE  NarrowFrame(Goto(f, label))
<1> DEFINE g == Goto(f, label)
<1>1. /\ g.start = f.start /\ g.end = f.end /\ g.table = f.table
      /\ g.left = f.left /\ g.right = f.right /\ g.pc = label
  BY DEF Goto, Frames
<1> HIDE DEF g
<1>2. SUFFICES ASSUME Posed(g) PROVE NarrowPoint(g)
  BY DEF NarrowFrame, g
<1>3. NarrowPoint(f) /\ (Splits(f) => Splits(g))
  BY <1>1, <1>2, SameLimit DEF NarrowFrame
<1>4. Len(f.table) = 1 => \A m \in Nat : Len(f.table) <= 1 + m
  OBVIOUS
<1> QED
  BY <1>1, <1>3, <1>4 DEF NarrowPoint, BuiltPoints

LEMMA CopyNarrow ==
    ASSUME TypeInv, RangeInv, NarrowInv, CopyChild, Posed(frame')
    PROVE  NarrowPoint(frame')
<1> DEFINE parent == callers[Len(callers)]
           f == WithChild(parent, frame)
           n == Len(parent.table)
           c == Copied(parent, frame)
           k == Len(frame.table)
           total == Len(frame'.table)
<1>1. /\ Len(callers) \in DOMAIN callers
      /\ frame \in Frames /\ parent \in Frames /\ f \in Frames
      /\ Len(parent.table) <= MaxEntries /\ parent.pc \in {"copyLeft", "copyRight"}
      /\ frame'.start = parent.start /\ frame'.end = parent.end
      /\ frame'.table = f.table
  BY CopyFacts
<1>2. /\ frame.pc = "return"
      /\ \/ frame' = Return(f, FALSE) \/ frame' = Return(f, TRUE)
         \/ parent.pc = "copyLeft" /\ frame' = Goto(f, "right")
  BY DEF CopyChild, At
<1>3. NarrowFrame(parent) /\ FrameInv(parent) /\ Waits(parent, frame) /\ NarrowFrame(frame)
  BY <1>1 DEF NarrowInv, RangeInv
<1>4. Posed(parent)
  BY <1>1, SameLimit
<1>5. Splits(parent) /\ RestInv(parent)
  BY <1>1, <1>3, <1>4 DEF NarrowFrame, NarrowPoint, BuiltPoints, FrameInv, PointInv
<1>6. /\ Posed(frame)
      /\ parent.pc = "copyLeft" => frame.start = parent.start /\ Limit(frame) = parent.left
      /\ parent.pc = "copyRight" => frame.start = Rest(parent) /\ Limit(frame) = Limit(parent)
  BY <1>1, <1>3, <1>4, <1>5, ChildLimit
<1>7. Within(frame, k)
  BY <1>2, <1>3, <1>6 DEF NarrowFrame, NarrowPoint
<1>8. n \in Nat /\ k \in Nat /\ c \in Nat /\ c <= k
  BY <1>1, WithChildType, LenProperties DEF Frames
<1>9. total = n + c
  BY <1>1, WithChildType
<1>10. /\ f.start = parent.start /\ f.end = parent.end
       /\ f.left = parent.left /\ f.right = parent.right
  BY <1>1 DEF WithChild, Frames
<1>11. /\ frame'.start = parent.start /\ frame'.end = parent.end
       /\ frame'.left = parent.left /\ frame'.right = parent.right
       /\ frame'.pc \in {"return", "right"}
       /\ frame'.pc = "right" => parent.pc = "copyLeft"
  <2> HIDE DEF f, parent
  <2> QED
    BY <1>1, <1>2, <1>10 DEF Return, Goto, Frames
<1>12. Splits(frame')
  BY <1>5, <1>11, SameLimit
<1>13. CASE parent.pc = "copyLeft"
  <2>1. n = 1
    BY <1>3, <1>4, <1>13 DEF NarrowFrame, NarrowPoint
  <2>2. \A m \in Nat : EndsNarrow(parent.start, parent.left, m) => k <= m
    BY <1>6, <1>7, <1>13 DEF Within
  <2>3. \A m \in Nat : EndsNarrow(parent.start, parent.left, m) => total <= 1 + m
    <3> SUFFICES ASSUME NEW m \in Nat, EndsNarrow(parent.start, parent.left, m)
                 PROVE  total <= 1 + m
      OBVIOUS
    <3>1. k <= m
      BY <2>2
    <3> HIDE DEF total, n, c, k
    <3> QED
      BY <1>8, <1>9, <2>1, <3>1
  <2>4. Within(frame', total)
    <3>1. total \in Nat /\ total <= total + 0
      <4> HIDE DEF total, n, c
      <4> QED
        BY <1>8, <1>9
    <3>2. Within(parent, total)
      <4>1. 0 \in Nat /\ \A m \in Nat : 0 <= m
        OBVIOUS
      <4> HIDE DEF total, parent
      <4> QED
        BY <1>1, <1>4, <1>5, <2>3, <3>1, <4>1, SplitWithin
    <3> QED
      BY <1>11, <3>2, SameLimit
  <2> QED
    BY <1>11, <1>12, <2>3, <2>4 DEF NarrowPoint
<1>14. CASE parent.pc = "copyRight"
  <2>1. \A m \in Nat : EndsNarrow(parent.start, parent.left, m) => n <= 1 + m
    BY <1>3, <1>4, <1>14 DEF NarrowFrame, NarrowPoint
  <2>2. \A m \in Nat : StartsNarrow(Rest(parent), Limit(parent), m) => k <= m
    BY <1>6, <1>7, <1>14 DEF Within
  <2>3. total \in Nat /\ total <= n + k
    <3> HIDE DEF total, n, c, k
    <3> QED
      BY <1>8, <1>9
  <2>4. Within(parent, total)
    <3> HIDE DEF total, parent, n, k
    <3> QED
      BY <1>1, <1>4, <1>5, <1>8, <2>1, <2>2, <2>3, SplitWithin
  <2>5. Within(frame', total)
    BY <1>11, <2>4, SameLimit
  <2>6. frame'.pc = "return"
    BY <1>11, <1>14
  <2> QED
    BY <2>5, <2>6 DEF NarrowPoint, BuiltPoints
<1> QED
  BY <1>1, <1>13, <1>14

LEMMA NarrowInit == Init => NarrowInv
<1> SUFFICES ASSUME Init PROVE NarrowInv
  OBVIOUS
<1>1. frame.pc = "enter" /\ DOMAIN callers = {}
  BY DEF Init, NewFrame
<1>2. NarrowFrame(frame)
  BY <1>1 DEF NarrowFrame, NarrowPoint, BuiltPoints
<1> QED
  BY <1>1, <1>2 DEF NarrowInv

LEMMA NarrowStep ==
    TypeInv /\ RangeInv /\ ApartInv /\ LargestInv /\ NarrowInv /\ [Next]_vars => NarrowInv'
<1> SUFFICES ASSUME TypeInv, RangeInv, ApartInv, LargestInv, NarrowInv, [Next]_vars
             PROVE  NarrowInv'
  OBVIOUS
<1>1. /\ frame \in Frames /\ NarrowFrame(frame) /\ FrameInv(frame) /\ Unbuilt(frame)
      /\ LargestInv
  BY DEF TypeInv, SoundFrame, NarrowInv, RangeInv, ApartInv, ApartFrame
<1>2. ASSUME NEW i \in DOMAIN callers' PROVE NarrowFrame(callers'[i])
  <2>1. CASE \E j \in DOMAIN callers : callers'[i] = callers[j]
    BY <2>1 DEF NarrowInv
  <2>2. CASE At("left") /\ callers'[i] = Goto(frame, "copyLeft")
    BY <1>1, <2>2, GotoNarrow DEF At
  <2>3. CASE At("right") /\ callers'[i] = Goto(frame, "copyRight")
    BY <1>1, <2>3, GotoNarrow DEF At
  <2> QED
    BY <2>1, <2>2, <2>3, CallersAfter
<1>3. NarrowFrame(frame')
  <2> SUFFICES ASSUME Posed(frame') PROVE NarrowPoint(frame')
    BY DEF NarrowFrame
  <2>1. CASE frame' = frame
    BY <1>1, <2>1 DEF NarrowFrame
  <2>2. CASE /\ frame.pc \in Selecting /\ frame'.pc \in Selecting \cup {"return"}
             /\ frame'.table = frame.table
    <3>1. Len(frame'.table) = 0
      BY <1>1, <2>2 DEF Unbuilt
    <3>2. Within(frame', 0)
      <4>1. Levels \in Nat /\ Levels - 1 \in Nat
        BY LevelFacts, LevelsPositive
      <4>2. 0 <= 2 * Levels - 1 /\ \A m \in Nat : 0 <= m
        BY <4>1
      <4> QED
        BY <4>2 DEF Within
    <3> QED
      BY <2>2, <3>1, <3>2 DEF NarrowPoint, BuiltPoints, Selecting
  <2>3. CASE Build
    <3> DEFINE e == BestEntry(frame)
               left == FirstAddr(frame, frame.best.sub, frame.best.base)
               right == NextAddr(frame)
    <3>1. /\ frame' = [frame EXCEPT !.pc = "left", !.table = Append(frame.table, e),
                                    !.number = frame.number + 1,
                                    !.left = left, !.right = right]
          /\ frame.pc = "build"
      BY <2>3 DEF Build, Local, At
    <3>2. frame.table = <<>>
      BY <1>1, <3>1 DEF Unbuilt, Selecting
    <3> HIDE DEF e, left, right
    <3>3. /\ frame'.start = frame.start /\ frame'.end = frame.end /\ frame'.pc = "left"
          /\ frame'.left = left /\ frame'.right = right /\ frame'.table = <<e>>
      BY <1>1, <3>1, <3>2 DEF Frames
    <3>4. Posed(frame)
      BY <3>3, SameLimit
    <3>5. BuildInv(frame)
      BY <1>1, <3>1, <3>4 DEF FrameInv, PointInv
    <3>6. ~IsFullRange(frame) => SettledAbove(frame, 0)
      <4>1. Clear(frame)
        BY <3>4 DEF Posed, WellPosed, Clear
      <4> QED
        BY <1>1, <3>1, <4>1 DEF LargestInv, LargestPoint
    <3>7. Splits(frame')
      BY <1>1, <3>3, <3>4, <3>5, <3>6, BuildSplits DEF left, right
    <3>8. Len(frame'.table) = 1
      BY <3>3
    <3> QED
      BY <3>3, <3>7, <3>8 DEF NarrowPoint
  <2>4. CASE \E s, e : frame' = NewFrame(s, e, 0)
    <3>1. frame'.pc = "enter"
      BY <2>4 DEF NewFrame
    <3> QED
      BY <3>1 DEF NarrowPoint, BuiltPoints
  <2>5. CASE SkipLeft /\ frame' = Goto(frame, "right")
    <3>1. frame.pc = "left"
      BY <2>5 DEF SkipLeft, At
    <3>2. NarrowFrame(frame')
      BY <1>1, <2>5, <3>1, GotoNarrow
    <3> QED
      BY <3>2 DEF NarrowFrame
  <2>6. CASE SkipRight /\ frame' = Return(frame, TRUE)
    <3>1. frame.pc = "right" /\ ~NeedsRight(frame)
      BY <2>6 DEF SkipRight, At
    <3>2. /\ frame'.start = frame.start /\ frame'.end = frame.end
          /\ frame'.table = frame.table /\ frame'.pc = "return"
      BY <1>1, <2>6 DEF Return, Frames
    <3>3. Posed(frame)
      BY <3>2, SameLimit
    <3>4. /\ Splits(frame)
          /\ \A m \in Nat : EndsNarrow(frame.start, frame.left, m) => Len(frame.table) <= 1 + m
      BY <1>1, <3>1, <3>3 DEF NarrowFrame, NarrowPoint, BuiltPoints
    <3> DEFINE n == Len(frame.table)
    <3>5. n \in Nat /\ n <= n + 0
      <4>1. n \in Nat
        BY <1>1, LenProperties DEF Frames
      <4> HIDE DEF n
      <4> QED
        BY <4>1
    <3>6. Within(frame, n)
      <4>1. 0 \in Nat /\ \A m \in Nat : 0 <= m
        OBVIOUS
      <4> HIDE DEF n
      <4> QED
        BY <1>1, <3>3, <3>4, <3>5, <4>1, SplitWithin DEF n
    <3>7. Within(frame', Len(frame'.table))
      BY <3>2, <3>6, SameLimit
    <3> QED
      BY <3>2, <3>7 DEF NarrowPoint, BuiltPoints
  <2>7. CASE CopyChild
    BY <2>7, CopyNarrow
  <2> QED
    BY <2>1, <2>2, <2>3, <2>4, <2>5, <2>6, <2>7, FrameAfter
<1> QED
  BY <1>2, <1>3 DEF NarrowInv

(* Of every calculator of a well-posed range on the stack: what its entry  *)
(* leaves is narrow at the side of the entry, and a narrow range has at    *)
(* most one entry for each level of its width.                             *)
THEOREM RestNarrows == Spec => []NarrowInv
<1>1. TypeInv /\ RangeInv /\ ApartInv /\ LargestInv /\ NarrowInv /\ [Next]_vars => NarrowInv'
  BY NarrowStep
<1> QED
  BY <1>1, NarrowInit, TypeCorrect, RangesKept, PartsKept, SizesSettled, PTL DEF Spec

(* A well-posed range never has more entries than two for every factor of  *)
(* 8 between the word and the granule, less one.                           *)
THEOREM FewEntries == Spec => []EntriesBounded
<1>1. TypeInv /\ ApartInv /\ NarrowInv => EntriesBounded
  <2> SUFFICES ASSUME TypeInv, ApartInv, NarrowInv, Posed(frame)
               PROVE  Len(frame.table) <= 2 * Levels - 1
    BY DEF EntriesBounded, Posed
  <2> DEFINE n == Len(frame.table)
  <2>1. NarrowPoint(frame) /\ Unbuilt(frame) /\ frame \in Frames
    BY DEF NarrowInv, NarrowFrame, ApartInv, ApartFrame, TypeInv, SoundFrame
  <2>2. frame.pc \in ProgramCounters /\ n \in Nat
    BY <2>1, LenProperties DEF Frames
  <2>3. Levels - 1 \in Nat /\ Levels \in Nat
    BY LevelsPositive, LevelFacts
  <2>4. CASE frame.pc \in Selecting
    <3>1. n = 0
      BY <2>1, <2>4 DEF Unbuilt
    <3> HIDE DEF n
    <3> QED
      BY <2>3, <3>1 DEF n
  <2>5. CASE frame.pc \in {"left", "copyLeft"}
    <3>1. n = 1
      BY <2>1, <2>5 DEF NarrowPoint
    <3> HIDE DEF n
    <3> QED
      BY <2>3, <3>1 DEF n
  <2>6. CASE frame.pc \in {"right", "copyRight"}
    <3>1. EndsNarrow(frame.start, frame.left, Levels - 1)
      BY <2>1, <2>6 DEF NarrowPoint, BuiltPoints, Splits
    <3>2. n <= 1 + (Levels - 1)
      BY <2>1, <2>3, <2>6, <3>1 DEF NarrowPoint
    <3> HIDE DEF n
    <3> QED
      BY <2>2, <2>3, <3>2 DEF n
  <2>7. CASE frame.pc = "return"
    BY <2>1, <2>7 DEF NarrowPoint, Within
  <2> QED
    BY <2>2, <2>4, <2>5, <2>6, <2>7 DEF ProgramCounters, Selecting
<1> QED
  BY <1>1, TypeCorrect, PartsKept, RestNarrows, PTL

==============================================================================
