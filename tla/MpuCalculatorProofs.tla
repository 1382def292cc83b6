------------------------- MODULE MpuCalculatorProofs -------------------------
(***************************************************************************)
(* Theorems about MpuCalculator, for every word size, granule, table size  *)
(* and set of requests: types, the numbering of regions, when a call fails, *)
(* what select_best_mpu_size computes, and that no entry built for a       *)
(* well-posed range maps an address outside it.                            *)
(***************************************************************************)
EXTENDS MpuCalculator, MpuRegionTheorems, SequenceTheorems

(* The type of a calculator, with what keeps its arithmetic defined: the   *)
(* table has room, and no subregion size that is divided by is 0.          *)
SoundFrame(f) ==
    /\ f \in Frames
    /\ Len(f.table) <= MaxEntries
    /\ f.pc \in {"enter", "before", "after", "build"} => Len(f.table) < MaxEntries
    /\ f.pc = "enter" => f.best = NoBest
    /\ f.pc \in {"before", "after"} => f.sub \in PowersOfTwo /\ f.sub >= Granule
    /\ f.pc = "before" => f.best = NoBest \/ f.best.sub > 0
    /\ f.pc \in {"after", "build"} => f.best.sub > 0

SoundCallers ==
    /\ callers \in Seq(Frames)
    /\ \A i \in DOMAIN callers :
          /\ callers[i].pc \in {"copyLeft", "copyRight"}
          /\ Len(callers[i].table) <= MaxEntries

TypeInv == request \in Requests /\ SoundFrame(frame) /\ SoundCallers

------------------------------------------------------------------------------
(* The values the selection computes are addresses.                        *)
LEMMA SelectionTypes ==
    ASSUME NEW f \in Frames, NEW sub \in Nat \ {0}, NEW base \in Addresses
    PROVE  /\ FirstSubregion(f, sub, base) \in Nat
           /\ LastSubregion(f, sub, base) \in 0 .. 7
           /\ NumSubregions(f, sub, base) \in 0 .. 8
           /\ SubregionsMask(f, sub, base) \in SUBSET Subregions
           /\ FirstAddr(f, sub, base) \in Addresses
           /\ ActualSize(f, sub, base) \in Addresses
<1>1. f.start \in Nat /\ f.end \in Nat /\ base \in Nat
  BY DEF Frames, Addresses
<1>2. FirstSubregion(f, sub, base) \in Nat
  <2>1. Wrap(f.start + (sub - 1) - base) \in Nat
    BY <1>1, WrapAddress DEF Addresses
  <2> QED
    BY <2>1, DivNat DEF FirstSubregion
<1>3. LastSubregion(f, sub, base) \in 0 .. 7
  <2>1. Wrap(f.end + 1 - (sub - 1) - base) \in Nat
    BY <1>1, WrapAddress DEF Addresses
  <2>2. Wrap(f.end + 1 - (sub - 1) - base) \div sub \in Nat
    BY <2>1, DivNat
  <2> QED
    BY <2>2 DEF LastSubregion
<1>4. NumSubregions(f, sub, base) \in 0 .. 8
  BY <1>2, <1>3 DEF NumSubregions
<1>5. SubregionsMask(f, sub, base) \in SUBSET Subregions
  BY DEF SubregionsMask
<1>6. FirstAddr(f, sub, base) \in Addresses
  BY <1>1, <1>2, WrapAddress DEF FirstAddr
<1>7. ActualSize(f, sub, base) \in Addresses
  BY <1>4, WrapAddress DEF ActualSize
<1> QED
  BY <1>2, <1>3, <1>4, <1>5, <1>6, <1>7

(* The first subregion size is a power of two between 4 granules and half  *)
(* of the address space.                                                   *)
LEMMA MaxSubregionSizeType ==
    ASSUME NEW f \in Frames
    PROVE  /\ MaxSubregionSize(f) \in PowersOfTwo
           /\ MaxSubregionSize(f) >= 4 * Granule
           /\ MaxSubregionSize(f) <= HalfWord
<1> DEFINE size == RequestSize(f)
<1>1. size \in Nat /\ size < WordSize
  <2>1. f.end - f.start + 1 \in Int
    BY DEF Frames, Addresses
  <2>2. Wrap(f.end - f.start + 1) \in Addresses
    BY <2>1, WrapAddress
  <2> QED
    BY <2>2, Constants DEF RequestSize, Addresses
<1>2. /\ HalfWord \in PowersOfTwo
      /\ HalfWord \in Nat
      /\ WordSize = 2 * HalfWord
      /\ 4 * Granule <= HalfWord
  BY Constants, HalfPower, WordAssumption DEF HalfWord
<1>3. CASE size > HalfWord
  BY <1>2, <1>3, Constants DEF MaxSubregionSize
<1>4. CASE size <= 8 * Granule /\ ~(size > HalfWord)
  <2>1. 2 * Granule \in PowersOfTwo
    BY DoublePower, Constants, WordAssumption
  <2>2. 2 * (2 * Granule) \in PowersOfTwo
    BY <2>1, DoublePower, Constants
  <2>3. MaxSubregionSize(f) = 4 * Granule
    BY <1>4 DEF MaxSubregionSize
  <2> QED
    BY <1>2, <2>2, <2>3, Constants
<1>5. CASE ~(size <= 8 * Granule) /\ ~(size > HalfWord)
  <2> DEFINE c == CeilingPower(size)
  <2>1. MaxSubregionSize(f) = c \div 2
    BY <1>5 DEF MaxSubregionSize
  <2>2. c \in PowersOfTwo /\ size <= c /\ c < 2 * size /\ c \in Nat
    BY <1>1, <1>5, CeilingPowerType, Constants
  <2>3. c # 1
    BY <1>1, <1>5, <2>2, Constants
  <2>4. c \div 2 \in PowersOfTwo /\ c = 2 * (c \div 2) /\ c \div 2 \in Nat
    BY <2>2, <2>3, HalfPower, Constants
  <2> HIDE DEF c
  <2> QED
    BY <1>1, <1>2, <1>5, <2>1, <2>2, <2>4, Constants
<1> QED
  BY <1>3, <1>4, <1>5

LEMMA RegionTypes ==
    ASSUME NEW f \in Frames, NEW sub \in Nat
    PROVE  /\ RegionSize(sub) \in Addresses
           /\ RegionBefore(f, sub) \in Addresses
           /\ RegionAfter(f, sub) \in Addresses
<1>1. f.start \in Addresses /\ f.start \in Int
  BY DEF Frames, Addresses
<1>2. RegionSize(sub) \in Addresses /\ RegionSize(sub) \in Nat
  BY WrapAddress DEF RegionSize, Addresses
<1>3. RegionBefore(f, sub) \in Addresses
  BY <1>1, <1>2, AlignDownAddress DEF RegionBefore
<1>4. Wrap(f.start + RegionSize(sub) - 1) \in Addresses
  BY <1>1, <1>2, WrapAddress
<1>5. RegionAfter(f, sub) \in Addresses
  BY <1>2, <1>4, AlignDownAddress DEF RegionAfter, AlignUp
<1> QED
  BY <1>2, <1>3, <1>5

(* After a try there is a best candidate, and its subregion size is not 0. *)
LEMMA BetterType ==
    ASSUME NEW f \in Frames, f.sub > 0, NEW base \in Addresses,
           f.best = NoBest \/ f.best.sub > 0
    PROVE  Better(f, base) \in Candidates /\ Better(f, base).sub > 0
<1>1. f.sub \in Addresses /\ f.sub \in Nat \ {0} /\ f.best \in Candidates
  BY DEF Frames, Addresses
<1>2. ActualSize(f, f.sub, base) \in Addresses
  BY <1>1, SelectionTypes
<1>3. CASE ActualSize(f, f.sub, base) >= f.best.size
  BY <1>1, <1>2, <1>3 DEF Better, Candidates
<1>4. CASE ~(ActualSize(f, f.sub, base) >= f.best.size)
  <2>1. f.best.size # 0
    BY <1>2, <1>4 DEF Addresses
  <2>2. f.best.sub > 0
    BY <2>1 DEF NoBest
  <2> QED
    BY <1>1, <1>4, <2>2 DEF Better
<1> QED
  BY <1>3, <1>4

LEMMA BestEntryType ==
    ASSUME NEW f \in Frames, f.best.sub > 0
    PROVE  BestEntry(f) \in Entries
<1>1. /\ f.best.sub \in Nat \ {0}
      /\ f.best.base \in Addresses
      /\ f.number \in Nat
  BY DEF Frames, Candidates, Addresses
<1>2. f.number % NumRegions \in 0 .. NumRegions - 1
  <2>1. NumRegions \in Nat \ {0}
    BY RegionAssumption
  <2>2. f.number % NumRegions \in Nat /\ f.number % NumRegions < NumRegions
    BY <1>1, <2>1, DivMod
  <2> QED
    BY <2>1, <2>2
<1>3. RegionSize(f.best.sub) \in Addresses
  BY <1>1, RegionTypes
<1>4. SubregionsMask(f, f.best.sub, f.best.base) \in SUBSET Subregions
  BY <1>1, SelectionTypes
<1> QED
  BY <1>1, <1>2, <1>3, <1>4 DEF BestEntry, Entries

(* Setting the granule bit cannot carry out of the address space.          *)
LEMMA SetGranuleBitType ==
    ASSUME NEW a \in Addresses
    PROVE  SetGranuleBit(a) \in Addresses
<1> DEFINE q == a \div Granule
           h == q \div 2
           w == WordSize \div (2 * Granule)
<1>1. a \in Nat /\ a < WordSize /\ Granule \in Nat \ {0} /\ WordSize \in Nat \ {0}
  BY Constants DEF Addresses
<1>2. q \in Nat /\ a = Granule * q + (a % Granule) /\ a % Granule \in Nat /\ a % Granule < Granule
  BY <1>1, DivMod, DivNat
<1>3. WordSize % (2 * Granule) = 0
  <2>1. 2 * Granule \in PowersOfTwo
    BY DoublePower, Constants, WordAssumption
  <2> QED
    BY <2>1, Constants, WordAssumption
<1>4. w \in Nat /\ WordSize = (2 * Granule) * w
  <2> DEFINE pair == 2 * Granule
  <2>1. pair \in Nat \ {0} /\ WordSize \in Nat /\ WordSize % pair = 0
    BY <1>1, <1>3
  <2> HIDE DEF pair
  <2>2. WordSize \div pair \in Nat /\ WordSize = pair * (WordSize \div pair)
    BY <2>1, ExactQuotient
  <2> QED
    BY <2>2 DEF pair
<1>5. CASE q % 2 = 0
  <2>1. h \in Nat /\ q = 2 * h
    BY <1>2, <1>5
  <2> HIDE DEF h, q, w
  <2>2. (2 * Granule) * h < (2 * Granule) * w
    BY <1>1, <1>2, <1>4, <2>1
  <2>3. h < w
    BY <1>1, <1>4, <2>1, <2>2
  <2>4. (2 * Granule) * h + 2 * Granule <= (2 * Granule) * w
    BY <1>1, <1>4, <2>1, <2>3
  <2>5. a + Granule < WordSize
    BY <1>1, <1>2, <1>4, <2>1, <2>4
  <2>6. SetGranuleBit(a) = a + Granule
    BY <1>5 DEF SetGranuleBit, q
  <2> QED
    BY <1>1, <2>5, <2>6 DEF Addresses
<1>6. CASE ~(q % 2 = 0)
  BY <1>6 DEF SetGranuleBit
<1> QED
  BY <1>5, <1>6

LEMMA RenumberType ==
    ASSUME NEW e \in Entries, NEW number \in Nat
    PROVE  /\ Renumber(e, number) \in Entries
           /\ Renumber(e, number).size = e.size
           /\ Renumber(e, number).srd = e.srd
           /\ Renumber(e, number).base \in {e.base, SetGranuleBit(e.base)}
<1>1. NumRegions \in Nat \ {0}
  BY RegionAssumption
<1> DEFINE region == number % NumRegions
           base == IF number >= 2 * NumRegions THEN SetGranuleBit(e.base) ELSE e.base
<1>2. region \in 0 .. NumRegions - 1
  <2>1. number % NumRegions \in Nat /\ number % NumRegions < NumRegions
    BY <1>1, DivMod
  <2> QED
    BY <1>1, <2>1
<1>3. base \in Addresses /\ base \in {e.base, SetGranuleBit(e.base)}
  BY SetGranuleBitType DEF Entries
<1>4. Renumber(e, number) = [e EXCEPT !.region = region, !.base = base]
  BY DEF Renumber
<1> HIDE DEF region, base
<1> QED
  BY <1>2, <1>3, <1>4 DEF Entries

(* Copying a child's entries keeps the table within its bound.             *)
LEMMA WithChildType ==
    ASSUME NEW f \in Frames, NEW child \in Frames, Len(f.table) <= MaxEntries
    PROVE  /\ Copied(f, child) \in Nat
           /\ Copied(f, child) <= Len(child.table)
           /\ WithChild(f, child) \in Frames
           /\ Len(WithChild(f, child).table) = Len(f.table) + Copied(f, child)
           /\ Len(WithChild(f, child).table) <= MaxEntries
<1> DEFINE n == Copied(f, child)
           copies == [i \in 1 .. n |-> Renumber(child.table[i], f.number + i - 1)]
<1>1. f.table \in Seq(Entries) /\ child.table \in Seq(Entries) /\ f.number \in Nat
  BY DEF Frames
<1>b. /\ MaxEntries \in Nat
      /\ Len(f.table) \in Nat /\ Len(child.table) \in Nat
      /\ Len(f.table) <= MaxEntries
  BY <1>1, CalculatorAssumption, RegionAssumption, LenProperties
<1>2. n \in Nat /\ n <= Len(child.table) /\ Len(f.table) + n <= MaxEntries
  <2> DEFINE own == Len(f.table)
             theirs == Len(child.table)
  <2>1. n = IF theirs <= MaxEntries - own THEN theirs ELSE MaxEntries - own
    BY DEF Copied
  <2>2. own \in Nat /\ theirs \in Nat /\ MaxEntries \in Nat /\ own <= MaxEntries
    BY <1>b
  <2> HIDE DEF n, own, theirs
  <2>3. n \in Nat /\ n <= theirs /\ own + n <= MaxEntries
    BY <2>1, <2>2
  <2> QED
    BY <2>3 DEF own, theirs
<1>3. \A i \in 1 .. n : Renumber(child.table[i], f.number + i - 1) \in Entries
  <2> SUFFICES ASSUME NEW i \in 1 .. n
               PROVE  Renumber(child.table[i], f.number + i - 1) \in Entries
    OBVIOUS
  <2>1. child.table[i] \in Entries
    BY <1>1, <1>2
  <2>2. f.number + i - 1 \in Nat
    BY <1>1, <1>2
  <2> QED
    BY <2>1, <2>2, RenumberType
<1>4. copies \in Seq(Entries) /\ Len(copies) = n
  BY <1>2, <1>3
<1> HIDE DEF copies, n
<1>5. f.table \o copies \in Seq(Entries) /\ Len(f.table \o copies) = Len(f.table) + n
  BY <1>1, <1>2, <1>4, ConcatProperties
<1>6. WithChild(f, child) = [f EXCEPT !.table = f.table \o copies, !.number = f.number + n]
  BY DEF WithChild, copies, n
<1>7. f.number + n \in Nat
  BY <1>1, <1>2
<1>8. WithChild(f, child) \in Frames /\ WithChild(f, child).table = f.table \o copies
  BY <1>5, <1>6, <1>7 DEF Frames
<1> QED
  BY <1>2, <1>5, <1>8 DEF n

(* A loop step that leaves the current size behind.                        *)
LEMMA HalveSizeSound ==
    ASSUME NEW f, SoundFrame(f), f.pc \in {"before", "after"}, f.best.sub > 0
    PROVE  SoundFrame(HalveSize(f))
<1>1. /\ f \in Frames /\ f.sub \in Addresses
      /\ f.sub \in PowersOfTwo /\ f.sub >= Granule
      /\ Len(f.table) <= MaxEntries /\ Len(f.table) < MaxEntries
  BY DEF SoundFrame, Frames
<1>2. f.sub # 1
  BY <1>1, Constants
<1>3. f.sub \div 2 \in PowersOfTwo /\ f.sub = 2 * (f.sub \div 2) /\ f.sub \div 2 \in Nat
  BY <1>1, <1>2, HalfPower, Constants
<1> DEFINE half == f.sub \div 2
           next == IF half >= Granule THEN "before" ELSE "build"
<1>4. HalveSize(f) = [f EXCEPT !.sub = half, !.pc = next]
  BY DEF HalveSize
<1>5. next \in ProgramCounters /\ next \in {"before", "build"}
      /\ (next = "before" => half >= Granule)
  BY DEF ProgramCounters
<1> HIDE DEF half, next
<1>6. half \in PowersOfTwo /\ half \in Addresses
  <2> DEFINE sub == f.sub
  <2>1. sub \in Addresses /\ sub = 2 * half /\ half \in Nat /\ half \in PowersOfTwo
    BY <1>1, <1>3 DEF half
  <2> HIDE DEF sub
  <2> QED
    BY <2>1, Constants DEF Addresses
<1>7. /\ HalveSize(f) \in Frames
      /\ HalveSize(f).pc = next
      /\ HalveSize(f).sub = half
      /\ HalveSize(f).best = f.best
      /\ HalveSize(f).table = f.table
  BY <1>1, <1>4, <1>5, <1>6 DEF Frames
<1> QED
  BY <1>1, <1>5, <1>6, <1>7 DEF SoundFrame

(* Leaving the loop, or moving on in the second half, keeps a frame sound. *)
LEMMA GotoTypes ==
    ASSUME NEW f \in Frames, NEW label \in ProgramCounters
    PROVE  /\ Goto(f, label) \in Frames
           /\ Goto(f, label).pc = label
           /\ Goto(f, label).sub = f.sub
           /\ Goto(f, label).best = f.best
           /\ Goto(f, label).table = f.table
BY DEF Frames, Goto

LEMMA LeaveTrySound ==
    ASSUME NEW f, SoundFrame(f), f.pc \in {"before", "after"}, f.best.sub > 0
    PROVE  SoundFrame(Goto(f, "after")) /\ SoundFrame(Goto(f, "build"))
<1>1. f \in Frames /\ "after" \in ProgramCounters /\ "build" \in ProgramCounters
  BY DEF SoundFrame, ProgramCounters
<1>2. SoundFrame(Goto(f, "after"))
  BY <1>1, GotoTypes DEF SoundFrame
<1>3. SoundFrame(Goto(f, "build"))
  BY <1>1, GotoTypes DEF SoundFrame
<1> QED
  BY <1>2, <1>3

LEMMA GotoSound ==
    ASSUME NEW f, SoundFrame(f), NEW label \in {"right", "copyLeft", "copyRight"}
    PROVE  SoundFrame(Goto(f, label)) /\ Goto(f, label).pc = label
<1>1. f \in Frames /\ label \in ProgramCounters
  BY DEF SoundFrame, ProgramCounters
<1> QED
  BY <1>1, GotoTypes DEF SoundFrame

LEMMA ReturnSound ==
    ASSUME NEW f, SoundFrame(f), NEW ok \in BOOLEAN
    PROVE  SoundFrame(Return(f, ok))
<1>1. f \in Frames /\ Len(f.table) <= MaxEntries
  BY DEF SoundFrame
<1>2. /\ Return(f, ok) \in Frames
      /\ Return(f, ok).pc = "return"
      /\ Return(f, ok).table = f.table
  BY <1>1 DEF Frames, Return, ProgramCounters
<1> QED
  BY <1>1, <1>2 DEF SoundFrame

LEMMA NewFrameSound ==
    ASSUME NEW start \in Addresses, NEW end \in Addresses, NEW number \in Nat
    PROVE  SoundFrame(NewFrame(start, end, number))
<1> DEFINE f == NewFrame(start, end, number)
<1>1. 0 \in Addresses
  BY Constants DEF Addresses
<1>2. NoBest \in Candidates
  BY <1>1 DEF NoBest, Candidates
<1>3. <<>> \in Seq(Entries)
  OBVIOUS
<1>4. f \in Frames
  BY <1>1, <1>2, <1>3 DEF NewFrame, Frames, ProgramCounters
<1>5. f.pc = "enter" /\ Len(f.table) = 0 /\ f.best = NoBest
  BY DEF NewFrame
<1>6. 0 <= MaxEntries /\ 0 < MaxEntries
  BY CalculatorAssumption, RegionAssumption
<1> QED
  BY <1>4, <1>5, <1>6 DEF SoundFrame

(* The type invariant holds initially and is preserved by every action.    *)
LEMMA TypeInit == Init => TypeInv
<1> SUFFICES ASSUME Init PROVE TypeInv
  OBVIOUS
<1>1. /\ request \in Requests
      /\ request.start \in Addresses /\ request.end \in Addresses
      /\ request.number \in Nat
  BY CalculatorAssumption DEF Init
<1>2. SoundFrame(frame)
  BY <1>1, NewFrameSound DEF Init
<1>3. SoundCallers
  BY DEF Init, SoundCallers
<1> QED
  BY <1>1, <1>2, <1>3 DEF TypeInv

LEMMA TypeStep == TypeInv /\ [Next]_vars => TypeInv'
<1> SUFFICES ASSUME TypeInv, [Next]_vars PROVE TypeInv'
  OBVIOUS
<1> USE DEF TypeInv
<1>1. /\ frame \in Frames
      /\ frame.start \in Addresses /\ frame.end \in Addresses
      /\ frame.left \in Addresses /\ frame.right \in Addresses
      /\ frame.number \in Nat
      /\ Len(frame.table) <= MaxEntries
  BY DEF SoundFrame, Frames
<1>2. SUFFICES ASSUME Next PROVE TypeInv'
  <2>1. CASE UNCHANGED vars
    BY <2>1 DEF vars, SoundCallers, SoundFrame
  <2> QED
    BY <1>2, <2>1
<1>3. ASSUME UNCHANGED <<request, callers>>, SoundFrame(frame')
      PROVE  TypeInv'
  BY <1>3 DEF SoundFrame, SoundCallers
<1>4. CASE Refuse
  BY <1>1, <1>3, <1>4 DEF Refuse, At, Local, Return, SoundFrame, Frames, ProgramCounters
<1>5. CASE SelectFullRange
  <2>1. WordSize \div 8 \in Addresses /\ WordSize \div 8 > 0 /\ 0 \in Addresses
    BY Constants DEF Addresses
  <2> DEFINE eighth == WordSize \div 8
  <2> HIDE DEF eighth
  <2>2. frame' = [frame EXCEPT !.pc = "build",
                               !.best = [size |-> 0, sub |-> eighth, base |-> 0]]
    BY <1>5 DEF SelectFullRange, Local, eighth
  <2>3. frame.pc = "enter"
    BY <1>5 DEF SelectFullRange, At
  <2>4. SoundFrame(frame')
    BY <1>1, <2>1, <2>2, <2>3 DEF SoundFrame, Frames, ProgramCounters, Candidates, eighth
  <2> QED
    BY <1>3, <1>5, <2>4 DEF SelectFullRange, Local
<1>6. CASE StartSelection
  <2> DEFINE sub == MaxSubregionSize(frame)
  <2>1. sub \in PowersOfTwo /\ sub >= Granule /\ sub \in Addresses
    <3>1. sub \in PowersOfTwo /\ sub >= 4 * Granule /\ sub <= HalfWord /\ sub \in Nat
      BY <1>1, MaxSubregionSizeType, Constants
    <3>2. HalfWord \in Nat /\ HalfWord < WordSize
      BY Constants DEF HalfWord
    <3> HIDE DEF sub
    <3> QED
      BY <3>1, <3>2, Constants DEF Addresses
  <2> HIDE DEF sub
  <2>2. frame' = [frame EXCEPT !.pc = "before", !.sub = sub]
    BY <1>6 DEF StartSelection, Local, sub
  <2>3. frame.pc = "enter" /\ UNCHANGED <<request, callers>>
    BY <1>6 DEF StartSelection, At, Local
  <2>4. /\ frame' \in Frames
        /\ frame'.pc = "before" /\ frame'.sub = sub
        /\ frame'.table = frame.table /\ frame'.best = frame.best
    BY <1>1, <2>1, <2>2 DEF Frames, ProgramCounters
  <2>5. frame.best = NoBest
    BY <2>3 DEF SoundFrame
  <2>6. SoundFrame(frame')
    BY <1>1, <2>1, <2>3, <2>4, <2>5 DEF SoundFrame
  <2> QED
    BY <1>3, <2>3, <2>6
<1>7. CASE TryBefore
  <2> DEFINE base == RegionBefore(frame, frame.sub)
             f == [frame EXCEPT !.best = Better(frame, base)]
  <2>1. /\ frame.pc = "before" /\ frame.sub > 0 /\ frame.sub \in Nat
        /\ frame.sub \in PowersOfTwo /\ frame.sub >= Granule
    BY <1>7, Constants DEF TryBefore, At, SoundFrame
  <2>2. base \in Addresses
    BY <1>1, <2>1, RegionTypes
  <2>3. Better(frame, base) \in Candidates /\ Better(frame, base).sub > 0
    BY <1>1, <2>1, <2>2, BetterType DEF SoundFrame
  <2>4. /\ f \in Frames /\ f.pc = "before" /\ f.best.sub > 0
        /\ f.sub = frame.sub /\ f.table = frame.table
    BY <1>1, <2>1, <2>3 DEF Frames
  <2>5. SoundFrame(f)
    BY <1>1, <2>1, <2>4 DEF SoundFrame
  <2>6. /\ \/ frame' = Goto(f, "build")
           \/ frame' = Goto(f, "after")
           \/ frame' = HalveSize(f)
        /\ UNCHANGED <<request, callers>>
    BY <1>7 DEF TryBefore, Local
  <2> HIDE DEF f, base
  <2>7. SoundFrame(Goto(f, "build")) /\ SoundFrame(Goto(f, "after"))
    BY <2>4, <2>5, LeaveTrySound
  <2>8. SoundFrame(HalveSize(f))
    BY <2>4, <2>5, HalveSizeSound
  <2> QED
    BY <1>3, <2>6, <2>7, <2>8
<1>8. CASE TryAfter
  <2> DEFINE base == RegionAfter(frame, frame.sub)
             f == [frame EXCEPT !.best = Better(frame, base)]
  <2>1. /\ frame.pc = "after" /\ frame.sub > 0 /\ frame.sub \in Nat
        /\ frame.sub \in PowersOfTwo /\ frame.sub >= Granule
    BY <1>8, Constants DEF TryAfter, At, SoundFrame
  <2>2. base \in Addresses
    BY <1>1, <2>1, RegionTypes
  <2>3. Better(frame, base) \in Candidates /\ Better(frame, base).sub > 0
    BY <1>1, <2>1, <2>2, BetterType DEF SoundFrame
  <2>4. /\ f \in Frames /\ f.pc = "after" /\ f.best.sub > 0
        /\ f.sub = frame.sub /\ f.table = frame.table
    BY <1>1, <2>1, <2>3 DEF Frames
  <2>5. SoundFrame(f)
    BY <1>1, <2>1, <2>4 DEF SoundFrame
  <2>6. /\ frame' = Goto(f, "build") \/ frame' = HalveSize(f)
        /\ UNCHANGED <<request, callers>>
    BY <1>8 DEF TryAfter, Local
  <2> HIDE DEF f, base
  <2>7. SoundFrame(Goto(f, "build"))
    BY <2>4, <2>5, LeaveTrySound
  <2>8. SoundFrame(HalveSize(f))
    BY <2>4, <2>5, HalveSizeSound
  <2> QED
    BY <1>3, <2>6, <2>7, <2>8
<1>9. CASE Build
  <2> DEFINE sub == frame.best.sub
             base == frame.best.base
  <2>1. /\ frame.pc = "build" /\ frame.best.sub > 0
        /\ sub \in Nat \ {0} /\ base \in Addresses
        /\ Len(frame.table) < MaxEntries
    BY <1>1, <1>9 DEF Build, At, SoundFrame, Frames, Candidates, Addresses
  <2>2. BestEntry(frame) \in Entries
    BY <1>1, <2>1, BestEntryType
  <2>3. FirstAddr(frame, sub, base) \in Addresses
    BY <1>1, <2>1, SelectionTypes
  <2>4. NextAddr(frame) \in Addresses
    <3>1. ActualSize(frame, sub, base) \in Addresses
      BY <1>1, <2>1, SelectionTypes
    <3>2. FirstAddr(frame, sub, base) + ActualSize(frame, sub, base) \in Int
      BY <2>3, <3>1 DEF Addresses
    <3> QED
      BY <1>1, <3>2, WrapAddress DEF NextAddr
  <2> DEFINE table == Append(frame.table, BestEntry(frame))
             left == FirstAddr(frame, sub, base)
             right == NextAddr(frame)
  <2>5. frame' = [frame EXCEPT !.pc = "left", !.table = table,
                               !.number = frame.number + 1,
                               !.left = left, !.right = right]
    BY <1>9 DEF Build, Local
  <2>6. frame.table \in Seq(Entries) /\ frame.number + 1 \in Nat
    BY <1>1 DEF Frames
  <2>7. table \in Seq(Entries) /\ Len(table) = Len(frame.table) + 1
    BY <2>2, <2>6, AppendProperties
  <2>8. left \in Addresses /\ right \in Addresses
    BY <2>3, <2>4
  <2> HIDE DEF table, left, right
  <2>9. frame' \in Frames /\ frame'.pc = "left" /\ frame'.table = table
    BY <1>1, <2>5, <2>6, <2>7, <2>8 DEF Frames, ProgramCounters
  <2>10. Len(table) <= MaxEntries
    <3> DEFINE n == Len(frame.table)
    <3>1. n \in Nat /\ MaxEntries \in Nat
      BY <2>6, LenProperties, CalculatorAssumption, RegionAssumption
    <3>2. n < MaxEntries /\ Len(table) = n + 1
      BY <2>1, <2>7
    <3> HIDE DEF n
    <3> QED
      BY <3>1, <3>2
  <2>11. SoundFrame(frame')
    BY <2>9, <2>10 DEF SoundFrame
  <2> QED
    BY <1>3, <1>9, <2>11 DEF Build, Local
<1>10. ASSUME NEW f, SoundFrame(f), f.pc \in {"copyLeft", "copyRight"},
              NEW start \in Addresses, NEW end \in Addresses, Call(f, start, end)
       PROVE  TypeInv'
  <2>1. SoundFrame(frame')
    BY <1>10, NewFrameSound DEF Call
  <2>2. f \in Frames /\ Len(f.table) <= MaxEntries
    BY <1>10 DEF SoundFrame
  <2>3. callers \in Seq(Frames) /\ callers' = Append(callers, f) /\ request' = request
    BY <1>10 DEF Call, SoundCallers
  <2>4. /\ callers' \in Seq(Frames)
        /\ Len(callers') = Len(callers) + 1
        /\ Len(callers) \in Nat
        /\ \A i \in 1 .. Len(callers) : callers'[i] = callers[i]
        /\ callers'[Len(callers) + 1] = f
    BY <2>2, <2>3, AppendProperties, LenProperties
  <2>5. DOMAIN callers = 1 .. Len(callers) /\ DOMAIN callers' = 1 .. Len(callers')
    BY <2>3, <2>4, LenProperties
  <2>6. SoundCallers'
    <3> SUFFICES ASSUME NEW i \in DOMAIN callers'
                 PROVE  /\ callers'[i].pc \in {"copyLeft", "copyRight"}
                        /\ Len(callers'[i].table) <= MaxEntries
      BY <2>4 DEF SoundCallers
    <3>1. CASE i = Len(callers) + 1
      BY <1>10, <2>2, <2>4, <3>1
    <3>2. CASE i # Len(callers) + 1
      <4>1. i \in DOMAIN callers
        BY <2>4, <2>5, <3>2
      <4> QED
        BY <2>4, <2>5, <4>1 DEF SoundCallers
    <3> QED
      BY <3>1, <3>2
  <2> QED
    BY <2>1, <2>3, <2>6
<1>11. CASE CallLeft
  <2>1. SoundFrame(Goto(frame, "copyLeft")) /\ Goto(frame, "copyLeft").pc = "copyLeft"
    BY <1>1, GotoSound
  <2>2. frame.left - 1 \in Addresses
    <3> DEFINE left == frame.left
               start == frame.start
    <3>1. left \in Addresses /\ start \in Addresses /\ left > start
      BY <1>1, <1>11 DEF CallLeft, NeedsLeft
    <3> HIDE DEF left, start
    <3>2. left - 1 \in Addresses
      BY <3>1, Constants DEF Addresses
    <3> QED
      BY <3>2 DEF left
  <2> QED
    BY <1>1, <1>10, <1>11, <2>1, <2>2 DEF CallLeft
<1>12. CASE SkipLeft
  <2>1. SoundFrame(Goto(frame, "right"))
    BY <1>1, GotoSound
  <2> QED
    BY <1>3, <1>12, <2>1 DEF SkipLeft, Local
<1>13. CASE CallRight
  <2>1. SoundFrame(Goto(frame, "copyRight")) /\ Goto(frame, "copyRight").pc = "copyRight"
    BY <1>1, GotoSound
  <2> QED
    BY <1>1, <1>10, <1>13, <2>1 DEF CallRight
<1>14. CASE SkipRight
  <2>1. SoundFrame(Return(frame, TRUE))
    BY <1>1, ReturnSound
  <2> QED
    BY <1>3, <1>14, <2>1 DEF SkipRight, Local
<1>15. CASE CopyChild
  <2> DEFINE n == Len(callers)
             parent == callers[n]
             f == WithChild(parent, frame)
  <2>1. callers \in Seq(Frames) /\ callers # <<>> /\ n \in Nat \ {0} /\ DOMAIN callers = 1 .. n
    BY <1>15, EmptySeq, LenProperties DEF CopyChild, SoundCallers
  <2>2. /\ parent \in Frames /\ Len(parent.table) <= MaxEntries
        /\ parent.pc \in {"copyLeft", "copyRight"}
    BY <2>1 DEF SoundCallers
  <2>3. f \in Frames /\ Len(f.table) <= MaxEntries /\ f.pc = parent.pc
    BY <1>1, <2>2, WithChildType DEF WithChild, Frames
  <2>4. SoundFrame(f)
    BY <2>2, <2>3 DEF SoundFrame
  <2>5. /\ \/ frame' = Return(f, FALSE)
           \/ frame' = Goto(f, "right")
           \/ frame' = Return(f, TRUE)
        /\ callers' = SubSeq(callers, 1, n - 1)
        /\ request' = request
    BY <1>15 DEF CopyChild
  <2>6. SoundFrame(frame')
    <3> HIDE DEF f
    <3> QED
      BY <2>4, <2>5, GotoSound, ReturnSound
  <2>7. /\ callers' \in Seq(Frames)
        /\ DOMAIN callers' = 1 .. n - 1
        /\ \A i \in 1 .. n - 1 : callers'[i] = callers[i]
    <3> HIDE DEF n
    <3>1. \A i \in 1 .. n - 1 : callers[i] \in Frames
      BY <2>1
    <3>2. n - 1 \in Nat
      BY <2>1
    <3>3. /\ callers' \in Seq(Frames)
          /\ Len(callers') = n - 1
          /\ \A i \in 1 .. n - 1 : callers'[i] = callers[i]
      BY <2>1, <2>5, <3>1, <3>2, SubSeqProperties
    <3> QED
      BY <3>3, LenProperties
  <2>8. SoundCallers'
    BY <2>1, <2>7 DEF SoundCallers
  <2> QED
    BY <2>5, <2>6, <2>8
<1> QED
  BY <1>2, <1>4, <1>5, <1>6, <1>7, <1>8, <1>9, <1>11, <1>12, <1>13, <1>14, <1>15 DEF Next

(* Every calculator is well-typed, divides by no 0 and keeps its entries   *)
(* within mpu_table, in every reachable state.                             *)
THEOREM TypeCorrect == Spec => []TypeInv
<1>1. TypeInv /\ [Next]_vars => TypeInv'
  BY TypeStep
<1> QED
  BY <1>1, TypeInit, PTL DEF Spec

THEOREM Types == Spec => []TypeOK
<1>1. TypeInv => TypeOK
  BY DEF TypeInv, TypeOK, SoundFrame, SoundCallers, Calculators
<1> QED
  BY <1>1, TypeCorrect, PTL

------------------------------------------------------------------------------
(***************************************************************************)
(* The numbers of the entries.  RegionsConsecutive speaks of all tables on *)
(* the stack, because a child's entries become its parent's, and is        *)
(* inductive.                                                              *)
(***************************************************************************)
(* The entry that is built has the next number.                            *)
LEMMA BuildNumbered ==
    ASSUME NEW f \in Frames, NEW g, NEW e \in Entries, NEW first \in Nat,
           Numbered(f, first), e.region = f.number % NumRegions,
           g.table = Append(f.table, e), g.number = f.number + 1
    PROVE  Numbered(g, first)
<1> DEFINE n == Len(f.table)
<1>1. f.table \in Seq(Entries) /\ n \in Nat /\ DOMAIN f.table = 1 .. n
  BY LenProperties DEF Frames
<1>2. /\ Append(f.table, e) \in Seq(Entries) /\ Len(Append(f.table, e)) = n + 1
      /\ \A i \in 1 .. n : Append(f.table, e)[i] = f.table[i]
      /\ Append(f.table, e)[n + 1] = e
  BY <1>1, AppendProperties
<1>3. DOMAIN g.table = 1 .. n + 1
  BY <1>2, LenProperties
<1>4. f.number = first + n /\ \A i \in 1 .. n : f.table[i].region = (first + i - 1) % NumRegions
  BY <1>1 DEF Numbered
<1> HIDE DEF n
<1>5. ASSUME NEW i \in 1 .. n + 1
      PROVE  g.table[i].region = (first + i - 1) % NumRegions
  <2>1. CASE i = n + 1
    <3>1. first + i - 1 = f.number
      BY <1>1, <1>4, <2>1
    <3> QED
      BY <1>2, <2>1, <3>1
  <2>2. CASE i # n + 1
    <3>1. i \in 1 .. n
      BY <1>1, <2>2
    <3> QED
      BY <1>2, <1>4, <3>1
  <2> QED
    BY <2>1, <2>2
<1>6. g.number = first + Len(g.table)
  BY <1>1, <1>2, <1>4
<1> QED
  BY <1>3, <1>5, <1>6 DEF Numbered

(* Copied entries get the numbers that follow.                             *)
LEMMA CopyNumbered ==
    ASSUME NEW f \in Frames, NEW child \in Frames, Len(f.table) <= MaxEntries,
           NEW first \in Nat, Numbered(f, first)
    PROVE  Numbered(WithChild(f, child), first)
<1> DEFINE n == Len(f.table)
           m == Copied(f, child)
           copies == [i \in 1 .. m |-> Renumber(child.table[i], f.number + i - 1)]
           g == WithChild(f, child)
<1>1. /\ f.table \in Seq(Entries) /\ n \in Nat /\ DOMAIN f.table = 1 .. n
      /\ child.table \in Seq(Entries) /\ DOMAIN child.table = 1 .. Len(child.table)
      /\ Len(child.table) \in Nat
  BY LenProperties DEF Frames
<1>2. m \in Nat /\ m <= Len(child.table) /\ Len(g.table) = n + m
  BY WithChildType
<1>3. f.number = first + n /\ \A i \in 1 .. n : f.table[i].region = (first + i - 1) % NumRegions
  BY <1>1 DEF Numbered
<1>4. ASSUME NEW i \in 1 .. m
      PROVE  /\ Renumber(child.table[i], f.number + i - 1) \in Entries
             /\ Renumber(child.table[i], f.number + i - 1).region = (f.number + i - 1) % NumRegions
  <2>1. child.table[i] \in Entries
    BY <1>1, <1>2
  <2>2. f.number + i - 1 \in Nat
    BY <1>1, <1>3
  <2>3. Renumber(child.table[i], f.number + i - 1) \in Entries
    BY <2>1, <2>2, RenumberType
  <2> QED
    BY <2>1, <2>3 DEF Renumber, Entries
<1>5. /\ g = [f EXCEPT !.table = f.table \o copies, !.number = f.number + m]
      /\ g.table = f.table \o copies /\ g.number = f.number + m
  BY DEF WithChild, Frames
<1>6. copies \in Seq(Entries) /\ Len(copies) = m
  BY <1>2, <1>4
<1>7. /\ f.table \o copies \in Seq(Entries) /\ Len(f.table \o copies) = n + m
      /\ \A i \in 1 .. n : (f.table \o copies)[i] = f.table[i]
      /\ \A i \in n + 1 .. n + m : (f.table \o copies)[i] = copies[i - n]
  <2>1. /\ f.table \o copies \in Seq(Entries)
        /\ Len(f.table \o copies) = Len(f.table) + Len(copies)
        /\ \A i \in 1 .. Len(f.table) + Len(copies) :
              (f.table \o copies)[i] = IF i <= Len(f.table) THEN f.table[i]
                                       ELSE copies[i - Len(f.table)]
    BY <1>1, <1>6, ConcatProperties
  <2>2. Len(f.table) = n
    OBVIOUS
  <2> HIDE DEF n, m, copies
  <2>3. \A i \in 1 .. n + m : (f.table \o copies)[i] = IF i <= n THEN f.table[i] ELSE copies[i - n]
    BY <1>6, <2>1, <2>2
  <2> QED
    BY <1>1, <1>2, <1>6, <2>1, <2>2, <2>3
<1>8. \A i \in 1 .. m : copies[i].region = (f.number + i - 1) % NumRegions
  BY <1>4
<1>9. DOMAIN (f.table \o copies) = 1 .. n + m
  BY <1>7, LenProperties
<1> HIDE DEF n, m, copies, g
<1>10. ASSUME NEW i \in 1 .. n + m
       PROVE  g.table[i].region = (first + i - 1) % NumRegions
  <2>1. CASE i <= n
    <3>1. i \in 1 .. n
      BY <1>1, <1>2, <2>1
    <3> QED
      BY <1>3, <1>5, <1>7, <3>1
  <2>2. CASE ~(i <= n)
    <3>1. i - n \in 1 .. m /\ i \in n + 1 .. n + m /\ f.number + (i - n) - 1 = first + i - 1
      BY <1>1, <1>2, <1>3, <2>2
    <3> QED
      BY <1>5, <1>7, <1>8, <3>1
  <2> QED
    BY <2>1, <2>2
<1>11. g.number = first + Len(g.table)
  BY <1>1, <1>2, <1>3, <1>5
<1> QED
  BY <1>5, <1>9, <1>10, <1>11 DEF Numbered, g

LEMMA NumberInit == Init => RegionsConsecutive
<1> SUFFICES ASSUME Init PROVE RegionsConsecutive
  OBVIOUS
<1>1. request.number \in Nat /\ callers = <<>> /\ Len(callers) = 0 /\ DOMAIN callers = {}
  BY CalculatorAssumption DEF Init
<1>2. frame.table = <<>> /\ frame.number = request.number
  BY DEF Init, NewFrame
<1> QED
  BY <1>1, <1>2 DEF RegionsConsecutive, Numbered, FirstNumber

LEMMA NumberStep == TypeInv /\ RegionsConsecutive /\ [Next]_vars => RegionsConsecutive'
<1> SUFFICES ASSUME TypeInv, RegionsConsecutive, [Next]_vars PROVE RegionsConsecutive'
  OBVIOUS
<1> DEFINE n == Len(callers)
<1>1. /\ frame \in Frames /\ SoundFrame(frame) /\ callers \in Seq(Frames) /\ n \in Nat
      /\ DOMAIN callers = 1 .. n /\ request.number \in Nat
  BY LenProperties, CalculatorAssumption DEF TypeInv, SoundFrame, SoundCallers
<1>2. \A depth : FirstNumber(depth) \in Nat
  BY <1>1 DEF FirstNumber
<1>3. Numbered(frame, FirstNumber(n + 1)) /\ \A i \in 1 .. n : Numbered(callers[i], FirstNumber(i))
  BY <1>1 DEF RegionsConsecutive
<1>4. ASSUME UNCHANGED <<request, callers>>, Numbered(frame', FirstNumber(n + 1))
      PROVE  RegionsConsecutive'
  BY <1>1, <1>3, <1>4 DEF RegionsConsecutive, FirstNumber
<1>5. ASSUME UNCHANGED <<request, callers>>, frame'.table = frame.table, frame'.number = frame.number
      PROVE  RegionsConsecutive'
  <2>1. Numbered(frame', FirstNumber(n + 1))
    BY <1>3, <1>5 DEF Numbered
  <2> QED
    BY <1>4, <1>5, <2>1
<1>6. ASSUME Refuse \/ SelectFullRange \/ StartSelection \/ TryBefore \/ TryAfter
             \/ SkipLeft \/ SkipRight
      PROVE  RegionsConsecutive'
  <2>1. UNCHANGED <<request, callers>>
    BY <1>6 DEF Refuse, SelectFullRange, StartSelection, TryBefore, TryAfter, SkipLeft,
                SkipRight, Local
  <2>2. frame'.table = frame.table /\ frame'.number = frame.number
    BY <1>1, <1>6 DEF Refuse, SelectFullRange, StartSelection, TryBefore, TryAfter, SkipLeft,
                      SkipRight, Local, Return, Goto, HalveSize, Frames
  <2> QED
    BY <1>5, <2>1, <2>2
<1>7. CASE Build
  <2>1. frame.best.sub > 0 /\ UNCHANGED <<request, callers>>
    BY <1>1, <1>7 DEF Build, At, Local, SoundFrame
  <2>2. BestEntry(frame) \in Entries
    BY <1>1, <2>1, BestEntryType
  <2>3. BestEntry(frame).region = frame.number % NumRegions
    BY DEF BestEntry
  <2>4. /\ frame'.table = Append(frame.table, BestEntry(frame))
        /\ frame'.number = frame.number + 1
    BY <1>1, <1>7 DEF Build, Local, Frames
  <2>5. Numbered(frame', FirstNumber(n + 1))
    BY <1>1, <1>2, <1>3, <2>2, <2>3, <2>4, BuildNumbered
  <2> QED
    BY <1>4, <2>1, <2>5
<1>8. ASSUME NEW f \in Frames, f.table = frame.table, f.number = frame.number,
             NEW start, NEW end, Call(f, start, end)
      PROVE  RegionsConsecutive'
  <2>1. callers' = Append(callers, f) /\ request' = request
        /\ frame'.table = <<>> /\ frame'.number = 0
    BY <1>8 DEF Call, NewFrame
  <2>2. /\ callers' \in Seq(Frames) /\ Len(callers') = n + 1
        /\ \A i \in 1 .. n : callers'[i] = callers[i]
        /\ callers'[n + 1] = f
    BY <1>1, <2>1, AppendProperties
  <2>3. DOMAIN callers' = 1 .. n + 1
    BY <2>2, LenProperties
  <2>4. \A depth : FirstNumber(depth)' = FirstNumber(depth)
    BY <2>1 DEF FirstNumber
  <2>5. Numbered(f, FirstNumber(n + 1))
    BY <1>3, <1>8 DEF Numbered
  <2>6. FirstNumber(n + 1 + 1) = 0
    BY <1>1 DEF FirstNumber
  <2>7. Numbered(frame', 0)
    BY <2>1 DEF Numbered
  <2>8. \A i \in 1 .. n + 1 : i = n + 1 \/ i \in 1 .. n
    BY <1>1
  <2> HIDE DEF n
  <2>9. \A i \in 1 .. n + 1 : Numbered(callers'[i], FirstNumber(i))
    BY <1>3, <2>2, <2>5, <2>8
  <2>10. Numbered(frame', FirstNumber(Len(callers') + 1))
    BY <2>2, <2>6, <2>7
  <2>11. (\A i \in DOMAIN callers : Numbered(callers[i], FirstNumber(i)))'
    BY <2>1, <2>3, <2>9 DEF FirstNumber
  <2>12. Numbered(frame, FirstNumber(Len(callers) + 1))'
    BY <2>1, <2>10 DEF FirstNumber
  <2> QED
    BY <2>11, <2>12 DEF RegionsConsecutive
<1>9. CASE CallLeft \/ CallRight
  <2>1. "copyLeft" \in ProgramCounters /\ "copyRight" \in ProgramCounters
    BY DEF ProgramCounters
  <2>2. /\ Goto(frame, "copyLeft") \in Frames /\ Goto(frame, "copyRight") \in Frames
        /\ Goto(frame, "copyLeft").table = frame.table
        /\ Goto(frame, "copyRight").table = frame.table
        /\ Goto(frame, "copyLeft").number = frame.number
        /\ Goto(frame, "copyRight").number = frame.number
    BY <1>1, <2>1 DEF Goto, Frames
  <2> QED
    BY <1>8, <1>9, <2>2 DEF CallLeft, CallRight
<1>10. CASE CopyChild
  <2> DEFINE parent == callers[n]
             f == WithChild(parent, frame)
  <2>1. n \in Nat \ {0} /\ request' = request /\ callers' = SubSeq(callers, 1, n - 1)
    BY <1>1, <1>10, EmptySeq DEF CopyChild
  <2>2. parent \in Frames /\ Len(parent.table) <= MaxEntries /\ Numbered(parent, FirstNumber(n))
    BY <1>1, <1>3, <2>1 DEF TypeInv, SoundCallers
  <2>3. f \in Frames /\ Numbered(f, FirstNumber(n))
    BY <1>1, <1>2, <2>2, WithChildType, CopyNumbered
  <2>4. \/ frame' = Return(f, FALSE)
        \/ frame' = Goto(f, "right")
        \/ frame' = Return(f, TRUE)
    BY <1>10 DEF CopyChild
  <2>5. /\ callers' \in Seq(Frames)
        /\ DOMAIN callers' = 1 .. n - 1
        /\ Len(callers') = n - 1
        /\ \A i \in 1 .. n - 1 : callers'[i] = callers[i]
    <3> HIDE DEF n
    <3>1. \A i \in 1 .. n - 1 : callers[i] \in Frames
      BY <1>1
    <3>2. n - 1 \in Nat
      BY <2>1
    <3>3. /\ callers' \in Seq(Frames)
          /\ Len(callers') = n - 1
          /\ \A i \in 1 .. n - 1 : callers'[i] = callers[i]
      BY <1>1, <2>1, <3>1, <3>2, SubSeqProperties
    <3> QED
      BY <3>3, LenProperties
  <2> HIDE DEF f
  <2>6. frame'.table = f.table /\ frame'.number = f.number
    BY <2>3, <2>4 DEF Return, Goto, Frames
  <2>7. Numbered(frame', FirstNumber(n))
    BY <2>3, <2>6 DEF Numbered
  <2>8. Len(callers') + 1 = n /\ \A i \in 1 .. n - 1 : i \in 1 .. n
    BY <2>1, <2>5
  <2> HIDE DEF n
  <2>9. Numbered(frame', FirstNumber(Len(callers') + 1))
    BY <2>7, <2>8
  <2>10. Numbered(frame, FirstNumber(Len(callers) + 1))'
    BY <2>1, <2>9 DEF FirstNumber
  <2>11. (\A i \in DOMAIN callers : Numbered(callers[i], FirstNumber(i)))'
    BY <1>3, <2>1, <2>5, <2>8 DEF FirstNumber
  <2> QED
    BY <2>10, <2>11 DEF RegionsConsecutive
<1>11. CASE UNCHANGED vars
  BY <1>5, <1>11 DEF vars
<1> QED
  BY <1>6, <1>7, <1>9, <1>10, <1>11 DEF Next

(* The entries of every calculator are numbered without a gap, modulo      *)
(* NumRegions, from the number it was called with, however deep the        *)
(* calculators were whose entries it copied, and also when a copy was cut  *)
(* short by a full table.                                                  *)
THEOREM NumbersConsecutive == Spec => []RegionsConsecutive
<1> QED
  BY NumberInit, NumberStep, TypeInit, TypeStep, PTL DEF Spec

(* Numbers less than n apart differ modulo n.                              *)
LEMMA NumbersDiffer ==
    ASSUME NEW n \in Nat \ {0}, NEW a \in Nat, NEW c \in Nat, a < c, c - a < n
    PROVE  a % n # c % n
<1> SUFFICES ASSUME a % n = c % n PROVE FALSE
  OBVIOUS
<1> DEFINE d == (c \div n) - (a \div n)
<1>1. /\ a \div n \in Nat /\ a % n \in Nat /\ a = n * (a \div n) + (a % n)
      /\ c \div n \in Nat /\ c = n * (c \div n) + (c % n)
  BY DivMod, DivNat
<1>2. c - a = n * (c \div n) - n * (a \div n)
  BY <1>1
<1>3. CASE c \div n <= a \div n
  <2>1. n * (c \div n) <= n * (a \div n)
    BY <1>1, <1>3, ProductMonotonic
  <2>2. n * (c \div n) \in Nat /\ n * (a \div n) \in Nat
    BY <1>1
  <2> QED
    BY <1>2, <2>1, <2>2
<1>4. CASE (a \div n) + 1 <= c \div n
  <2>1. n * ((a \div n) + 1) <= n * (c \div n)
    BY <1>1, <1>4, ProductMonotonic
  <2>2. n * ((a \div n) + 1) = n * (a \div n) + n
    BY <1>1
  <2>3. n * (c \div n) \in Nat /\ n * (a \div n) \in Nat
    BY <1>1
  <2> QED
    BY <1>2, <2>1, <2>2, <2>3
<1> QED
  BY <1>1, <1>3, <1>4

NoneReplaced ==
    \A f \in Calculators : \A i, j \in DOMAIN f.table :
        i < j /\ j - i < NumRegions => f.table[i].region # f.table[j].region

(* No entry of a table takes the place of another when it is loaded, unless *)
(* it is NumRegions entries behind it: a table of up to 16 entries gives    *)
(* each a region of its own, whatever number it starts from.               *)
THEOREM NoEntryReplaced == Spec => []NoneReplaced
<1>1. TypeInv /\ RegionsConsecutive => NoneReplaced
  <2> SUFFICES ASSUME TypeInv, RegionsConsecutive, NEW f \in Calculators,
                      NEW i \in DOMAIN f.table, NEW j \in DOMAIN f.table,
                      i < j, j - i < NumRegions
               PROVE  f.table[i].region # f.table[j].region
    BY DEF NoneReplaced
  <2>1. f \in Frames /\ \E depth : Numbered(f, FirstNumber(depth))
    BY DEF Calculators, TypeInv, SoundFrame, SoundCallers, RegionsConsecutive
  <2>2. PICK depth : Numbered(f, FirstNumber(depth))
    BY <2>1
  <2>3. i \in Nat \ {0} /\ j \in Nat \ {0}
    BY <2>1, LenProperties DEF Frames
  <2>4. request.number \in Nat
    BY CalculatorAssumption DEF TypeInv
  <2>5. FirstNumber(depth) \in Nat
    BY <2>4 DEF FirstNumber
  <2> DEFINE a == FirstNumber(depth) + i - 1
             c == FirstNumber(depth) + j - 1
  <2>6. f.table[i].region = a % NumRegions /\ f.table[j].region = c % NumRegions
    BY <2>2 DEF Numbered
  <2>7. a \in Nat /\ c \in Nat /\ a < c /\ c - a < NumRegions
    BY <2>3, <2>5, RegionAssumption
  <2> HIDE DEF a, c
  <2> QED
    BY <2>6, <2>7, NumbersDiffer, RegionAssumption
<1> QED
  BY <1>1, NumbersConsecutive, TypeCorrect, PTL

------------------------------------------------------------------------------
(***************************************************************************)
(* The reasons to return false.  A calculator that is entered has no       *)
(* entries, and a copy that drops an entry has filled the table.           *)
(***************************************************************************)
FailInv == (At("enter") => frame.table = <<>>) /\ FailsOnlyWhenFull

(* What is dropped has no room.                                            *)
LEMMA DroppedWhenFull ==
    ASSUME NEW f \in Frames, NEW child \in Frames, Len(f.table) <= MaxEntries,
           Copied(f, child) < Len(child.table)
    PROVE  Len(WithChild(f, child).table) = MaxEntries
<1>1. /\ Len(f.table) \in Nat /\ Len(child.table) \in Nat /\ MaxEntries \in Nat
      /\ Len(WithChild(f, child).table) = Len(f.table) + Copied(f, child)
  BY WithChildType, LenProperties, CalculatorAssumption, RegionAssumption DEF Frames
<1>2. Copied(f, child) = MaxEntries - Len(f.table)
  <2> DEFINE room == MaxEntries - Len(f.table)
             theirs == Len(child.table)
             n == Copied(f, child)
  <2>1. n = (IF theirs <= room THEN theirs ELSE room) /\ n < theirs
    BY DEF Copied
  <2>2. room \in Int /\ theirs \in Nat
    BY <1>1
  <2> HIDE DEF room, theirs, n
  <2>3. n = room
    BY <2>1, <2>2
  <2> QED
    BY <2>3 DEF n, room
<1> QED
  BY <1>1, <1>2

LEMMA FailStep == TypeInv /\ FailInv /\ [Next]_vars => FailInv'
<1> SUFFICES ASSUME TypeInv, FailInv, [Next]_vars PROVE FailInv'
  OBVIOUS
<1>1. /\ frame \in Frames /\ callers \in Seq(Frames) /\ Len(callers) \in Nat
      /\ DOMAIN callers = 1 .. Len(callers)
  BY LenProperties DEF TypeInv, SoundFrame, SoundCallers
<1>2. CASE UNCHANGED vars
  BY <1>2 DEF vars, FailInv, At, FailsOnlyWhenFull, Refused, TooSmall
<1>3. CASE Refuse
  <2>1. frame' = [frame EXCEPT !.pc = "return", !.ok = FALSE] /\ Refused(frame)
        /\ frame.table = <<>>
    BY <1>3 DEF Refuse, Local, Return, FailInv
  <2>2. frame'.table = <<>> /\ frame'.number = frame.number /\ frame'.start = frame.start
        /\ frame'.end = frame.end /\ frame'.pc = "return"
    BY <1>1, <2>1 DEF Frames
  <2>3. Refused(frame)'
    BY <2>1, <2>2 DEF Refused, TooSmall
  <2> QED
    BY <2>2, <2>3 DEF FailInv, FailsOnlyWhenFull, At
<1>4. CASE SelectFullRange \/ StartSelection \/ TryBefore \/ TryAfter \/ Build \/ SkipLeft
  <2>1. frame'.pc \in {"before", "after", "build", "left", "right"}
    BY <1>1, <1>4 DEF SelectFullRange, StartSelection, TryBefore, TryAfter, Build, SkipLeft,
                      Local, Goto, HalveSize, Frames
  <2> QED
    BY <2>1 DEF FailInv, FailsOnlyWhenFull, At
<1>5. CASE SkipRight
  <2>1. frame'.pc = "return" /\ frame'.ok
    BY <1>1, <1>5 DEF SkipRight, Local, Return, Frames
  <2> QED
    BY <2>1 DEF FailInv, FailsOnlyWhenFull, At
<1>6. CASE CallLeft \/ CallRight
  <2>1. frame'.pc = "enter" /\ frame'.table = <<>>
    BY <1>6 DEF CallLeft, CallRight, Call, NewFrame
  <2> QED
    BY <2>1 DEF FailInv, FailsOnlyWhenFull, At
<1>7. CASE CopyChild
  <2> DEFINE parent == callers[Len(callers)]
             f == WithChild(parent, frame)
  <2>1. Len(callers) \in 1 .. Len(callers)
    BY <1>1, <1>7, EmptySeq DEF CopyChild
  <2>2. parent \in Frames /\ Len(parent.table) <= MaxEntries
    BY <1>1, <2>1 DEF TypeInv, SoundCallers
  <2>3. f \in Frames
    BY <1>1, <2>2, WithChildType
  <2>4. \/ Copied(parent, frame) < Len(frame.table) /\ frame' = Return(f, FALSE)
        \/ frame' = Goto(f, "right")
        \/ frame' = Return(f, TRUE)
    BY <1>7 DEF CopyChild
  <2>5. Copied(parent, frame) < Len(frame.table) => Len(f.table) = MaxEntries
    BY <1>1, <2>2, DroppedWhenFull
  <2> HIDE DEF f, parent
  <2>6. \/ frame'.pc = "right"
        \/ frame'.pc = "return" /\ frame'.ok
        \/ frame'.pc = "return" /\ Len(frame'.table) = MaxEntries
    <3>1. CASE Copied(parent, frame) < Len(frame.table) /\ frame' = Return(f, FALSE)
      <4>1. frame'.table = f.table /\ frame'.pc = "return"
        BY <2>3, <3>1 DEF Return, Frames
      <4> QED
        BY <2>5, <3>1, <4>1
    <3>2. CASE frame' = Goto(f, "right") \/ frame' = Return(f, TRUE)
      BY <2>3, <3>2 DEF Goto, Return, Frames
    <3> QED
      BY <2>4, <3>1, <3>2
  <2> QED
    BY <2>6 DEF FailInv, FailsOnlyWhenFull, At
<1> QED
  BY <1>2, <1>3, <1>4, <1>5, <1>6, <1>7 DEF Next

(***************************************************************************)
(* A caller that gets false knows that nothing was built, since the call   *)
(* was refused, or that the table is full: no call gives up with room left, *)
(* although the results of the recursive calls are ignored.                *)
(***************************************************************************)
THEOREM FailsOnlyFull == Spec => []FailsOnlyWhenFull
<1>1. Init => FailInv
  BY DEF Init, NewFrame, FailInv, FailsOnlyWhenFull, At
<1>2. FailInv => FailsOnlyWhenFull
  BY DEF FailInv
<1> QED
  BY <1>1, <1>2, FailStep, TypeInit, TypeStep, PTL DEF Spec

------------------------------------------------------------------------------
(***************************************************************************)
(* Arithmetic of one try: subregions of size sub from base.                *)
(***************************************************************************)
LEMMA EighthOfWord ==
    /\ WordSize \div 8 \in PowersOfTwo
    /\ WordSize = 8 * (WordSize \div 8)
    /\ Granule <= WordSize \div 8
<1> DEFINE half == WordSize \div 2
           quarter == half \div 2
           eighth == quarter \div 2
<1>1. WordSize \in PowersOfTwo /\ WordSize \in Nat /\ WordSize >= 16
  BY Constants, WordAssumption
<1>2. half \in PowersOfTwo /\ WordSize = 2 * half /\ half \in Nat /\ half >= 8
  BY <1>1, HalfPower, Constants
<1> HIDE DEF half
<1>3. quarter \in PowersOfTwo /\ half = 2 * quarter /\ quarter \in Nat /\ quarter >= 4
  BY <1>2, HalfPower, Constants
<1> HIDE DEF quarter
<1>4. eighth \in PowersOfTwo /\ quarter = 2 * eighth /\ eighth \in Nat
  BY <1>3, HalfPower, Constants
<1> HIDE DEF eighth
<1>5. WordSize = 8 * eighth
  BY <1>2, <1>3, <1>4
<1>6. WordSize \div 8 = eighth
  BY <1>4, <1>5
<1> QED
  BY <1>4, <1>5, <1>6, Constants

LEMMA RegionSizes ==
    ASSUME NEW sub \in PowersOfTwo
    PROVE  /\ 8 * sub < WordSize => RegionSize(sub) = 8 * sub
           /\ 8 * sub >= WordSize => RegionSize(sub) = 0
<1>1. sub \in Nat \ {0}
  BY Constants
<1>2. ASSUME 8 * sub < WordSize PROVE RegionSize(sub) = 8 * sub
  BY <1>1, <1>2, WrapAddress, Constants DEF RegionSize, Addresses
<1>3. ASSUME 8 * sub >= WordSize PROVE RegionSize(sub) = 0
  <2> DEFINE e == WordSize \div 8
             m == sub \div e
  <2>1. e \in PowersOfTwo /\ WordSize = 8 * e /\ e \in Nat \ {0}
    BY EighthOfWord, Constants
  <2> HIDE DEF e
  <2>2. e <= sub
    BY <1>1, <1>3, <2>1
  <2>3. sub % e = 0
    BY <2>1, <2>2, PowerDivides
  <2>4. m \in Nat /\ sub = e * m
    BY <1>1, <2>1, <2>3, ExactQuotient
  <2> HIDE DEF m
  <2>5. sub * 8 = WordSize * m
    BY <2>1, <2>4
  <2> QED
    BY <2>4, <2>5, Multiple, Constants DEF RegionSize, Wrap
<1> QED
  BY <1>2, <1>3

(* Rounding up and down to multiples of s.                                 *)
LEMMA RoundUp ==
    ASSUME NEW x \in Nat, NEW s \in Nat \ {0}
    PROVE  /\ (x + (s - 1)) \div s \in Nat
           /\ x <= ((x + (s - 1)) \div s) * s
           /\ ((x + (s - 1)) \div s) * s < x + s
<1> DEFINE y == x + (s - 1)
<1>1. y \in Nat
  OBVIOUS
<1>2. y \div s \in Nat
  BY <1>1, DivNat
<1>3. (y % s) \in Nat /\ (y % s) < s /\ y = s * (y \div s) + (y % s)
  BY <1>1, DivMod
<1>4. y = x + (s - 1)
  OBVIOUS
<1> DEFINE q == y \div s
           r == y % s
<1>5. q \in Nat /\ r \in Nat /\ r < s /\ y = s * q + r /\ s * q = q * s
  BY <1>2, <1>3
<1> HIDE DEF q, r, y
<1>6. x <= q * s /\ q * s < x + s
  BY <1>4, <1>5
<1> QED
  BY <1>2, <1>6 DEF q, y

LEMMA RoundDown ==
    ASSUME NEW x \in Nat, NEW s \in Nat \ {0}
    PROVE  /\ x \div s \in Nat
           /\ (x \div s) * s <= x
           /\ x < (x \div s) * s + s
<1>1. x \div s \in Nat
  BY DivNat
<1>2. (x % s) \in Nat /\ (x % s) < s /\ x = s * (x \div s) + (x % s)
  BY DivMod
<1> DEFINE q == x \div s
           r == x % s
<1>3. q \in Nat /\ r \in Nat /\ r < s /\ x = s * q + r /\ s * q = q * s
  BY <1>1, <1>2
<1> HIDE DEF q, r
<1>4. q * s <= x /\ x < q * s + s
  BY <1>3
<1> QED
  BY <1>1, <1>4 DEF q

(* The first subregion starts at or after start, by less than its size.    *)
LEMMA FirstSubregionBounds ==
    ASSUME NEW f \in Frames, NEW sub \in Nat \ {0}, NEW base \in Addresses,
           f.start + sub <= WordSize
    PROVE  /\ FirstSubregion(f, sub, base) \in Nat
           /\ f.start <= base + FirstSubregion(f, sub, base) * sub
           /\ f.start <= base => FirstSubregion(f, sub, base) = 0
           /\ f.start > base => base + FirstSubregion(f, sub, base) * sub < f.start + sub
<1> DEFINE start == f.start
<1>0. start \in Addresses
  BY DEF Frames
<1>1. start \in Nat /\ base \in Nat /\ start < WordSize /\ start + sub <= WordSize
  <2> HIDE DEF start
  <2>1. start \in Nat /\ base \in Nat /\ start < WordSize
    BY <1>0, Constants DEF Addresses
  <2>2. start + sub <= WordSize
    BY DEF start
  <2> QED
    BY <2>1, <2>2
<1>2. CASE ~(start > base)
  <2>1. FirstSubregion(f, sub, base) = 0
    BY <1>2 DEF FirstSubregion
  <2> HIDE DEF start
  <2>2. 0 * sub = 0
    OBVIOUS
  <2>3. start <= base + 0 * sub /\ ~(start > base)
    BY <1>1, <1>2, <2>2
  <2> QED
    BY <2>1, <2>3 DEF start
<1>3. CASE start > base
  <2> DEFINE x == start - base
             q == (x + (sub - 1)) \div sub
  <2>0. x \in Nat /\ base + x = start
    <3> HIDE DEF start
    <3> QED
      BY <1>1, <1>3
  <2>1. Wrap(start + (sub - 1) - base) = x + (sub - 1)
    <3> HIDE DEF start
    <3>1. x + (sub - 1) \in Addresses /\ start + (sub - 1) - base = x + (sub - 1)
      BY <1>1, <1>3, Constants DEF Addresses
    <3>2. x + (sub - 1) \in Int
      BY <2>0
    <3> QED
      BY <3>1, <3>2, WrapAddress
  <2>2. FirstSubregion(f, sub, base) = q
    BY <1>3, <2>1 DEF FirstSubregion
  <2>3. q \in Nat /\ x <= q * sub /\ q * sub < x + sub
    BY <2>0, RoundUp
  <2> HIDE DEF start, x, q
  <2>4. start <= base + q * sub /\ base + q * sub < start + sub /\ ~(start <= base)
    BY <1>1, <1>3, <2>0, <2>3
  <2> QED
    BY <2>2, <2>3, <2>4 DEF start
<1> QED
  BY <1>2, <1>3

(* The last subregion ends by end + 1, and the next one would not unless   *)
(* it is beyond the region.                                                *)
LEMMA LastSubregionBounds ==
    ASSUME NEW f \in Frames, NEW sub \in Nat, sub >= 2, NEW base \in Addresses,
           base + sub - 1 <= f.end
    PROVE  LET l == LastSubregion(f, sub, base)
           IN  /\ l \in 0 .. 7
               /\ base + l * sub + sub <= f.end + 2
               /\ l = 7 \/ base + l * sub + 2 * sub > f.end + 2
<1> DEFINE end == f.end
           x == end + 2 - sub - base
           q == x \div sub
<1>1. end \in Nat /\ base \in Nat /\ end < WordSize
  <2>1. end \in Addresses
    BY DEF Frames
  <2> HIDE DEF end
  <2> QED
    BY <2>1, Constants DEF Addresses
<1>2. x \in Addresses /\ x \in Nat /\ end + 2 = x + sub + base
      /\ end + 1 - (sub - 1) - base = x
  <2>1. base + sub - 1 <= end
    OBVIOUS
  <2> HIDE DEF end
  <2> QED
    BY <1>1, <2>1, Constants DEF Addresses
<1>3. Wrap(end + 1 - (sub - 1) - base) = x
  BY <1>2, WrapAddress
<1>4. LastSubregion(f, sub, base) = IF q > 7 THEN 7 ELSE q
  BY <1>3 DEF LastSubregion
<1>5. q \in Nat /\ q * sub <= x /\ x < q * sub + sub
  BY <1>2, RoundDown
<1> DEFINE l == IF q > 7 THEN 7 ELSE q
<1> HIDE DEF x, q
<1>6. l \in 0 .. 7 /\ l <= q /\ (l = 7 \/ l = q)
  BY <1>5
<1>7. l * sub <= q * sub
  BY <1>5, <1>6, ProductMonotonic
<1>8. l * sub \in Nat /\ q * sub \in Nat
  BY <1>5, <1>6
<1> HIDE DEF end, l
<1>9. base + l * sub + sub <= end + 2
  BY <1>1, <1>2, <1>5, <1>7, <1>8
<1>10. l = 7 \/ base + l * sub + 2 * sub > end + 2
  <2> SUFFICES ASSUME l # 7 PROVE base + l * sub + 2 * sub > end + 2
    OBVIOUS
  <2>1. l * sub = q * sub
    BY <1>6
  <2> QED
    BY <1>1, <1>2, <1>5, <1>8, <2>1
<1> QED
  BY <1>4, <1>6, <1>9, <1>10 DEF end, l

(* The region that starts at or before start.                              *)
LEMMA Before ==
    ASSUME NEW f \in Frames, NEW sub \in PowersOfTwo, 8 * sub < WordSize
    PROVE  LET base == RegionBefore(f, sub)
           IN  /\ base \in Addresses /\ (base % (8 * sub)) = 0
               /\ base <= f.start /\ f.start < base + 8 * sub
               /\ base + 8 * sub <= WordSize
<1> DEFINE start == f.start
           size == 8 * sub
           r == start % size
           base == start - r
<1>1. size \in Nat \ {0} /\ size < WordSize /\ WordSize \in Nat /\ (WordSize % size) = 0
  BY Constants, EightFold
<1>2. start \in Nat /\ start < WordSize
  <2>1. start \in Addresses
    BY DEF Frames
  <2> HIDE DEF start
  <2> QED
    BY <2>1, Constants DEF Addresses
<1>3. RegionBefore(f, sub) = base
  BY <1>1, RegionSizes DEF RegionBefore, AlignDown
<1> HIDE DEF start, size
<1>4. r \in Nat /\ r < size /\ start = size * (start \div size) + r /\ (start \div size) \in Nat
  BY <1>1, <1>2, DivMod, DivNat
<1> DEFINE q == start \div size
<1>5. q \in Nat /\ r \in Nat /\ r < size /\ start = size * q + r /\ size * q \in Nat
  BY <1>1, <1>4
<1> HIDE DEF r, q
<1>6. base = size * q /\ base \in Nat
  BY <1>2, <1>5
<1>7. (base % size) = 0
  BY <1>1, <1>5, <1>6, Multiple
<1>8. base <= start /\ start < base + size /\ base < WordSize
  BY <1>1, <1>2, <1>5
<1> HIDE DEF base
<1>9. base + size <= WordSize
  BY <1>1, <1>6, <1>7, <1>8, MultipleGap
<1>10. base \in Addresses
  BY <1>6, <1>8, Constants DEF Addresses
<1> QED
  BY <1>3, <1>7, <1>8, <1>9, <1>10 DEF start, size

(* The region that starts after start is the next one, or wraps to 0.      *)
LEMMA After ==
    ASSUME NEW f \in Frames, NEW sub \in PowersOfTwo, 8 * sub < WordSize
    PROVE  LET base == RegionBefore(f, sub)
           IN  RegionAfter(f, sub) = IF base = f.start THEN base
                                     ELSE IF base + 8 * sub = WordSize THEN 0
                                     ELSE base + 8 * sub
<1> DEFINE start == f.start
           size == 8 * sub
           base == RegionBefore(f, sub)
           y == start + size - 1
<1>1. size \in Nat \ {0} /\ size < WordSize /\ WordSize \in Nat /\ (WordSize % size) = 0
  BY Constants, EightFold
<1>2. start \in Nat /\ start < WordSize
  <2>1. start \in Addresses
    BY DEF Frames
  <2> HIDE DEF start
  <2> QED
    BY <2>1, Constants DEF Addresses
<1>3. base \in Nat /\ (base % size) = 0 /\ base <= start /\ start < base + size
      /\ base + size <= WordSize
  BY Before, Constants DEF Addresses
<1>4. RegionAfter(f, sub) = Wrap(y) - (Wrap(y) % size)
  BY <1>1, RegionSizes DEF RegionAfter, AlignUp, AlignDown
<1> HIDE DEF start, base
<1>a. PICK q \in Nat : base = size * q
  BY <1>1, <1>3, ExactQuotient
<1> HIDE DEF size
<1>5. CASE base = start
  <2>1. y \in Addresses /\ Wrap(y) = y /\ y \in Int
    BY <1>1, <1>2, <1>3, <1>5, WrapAddress, Constants DEF Addresses
  <2>2. size * q <= y /\ y < size * q + size
    BY <1>1, <1>3, <1>5, <1>a
  <2>3. (y % size) = y - base
    <3> HIDE DEF y
    <3>1. (y % size) = y - size * q
      <4>1. q \in Int
        OBVIOUS
      <4> QED
        BY <1>1, <2>1, <2>2, <4>1, DivUnique
    <3> QED
      BY <1>a, <3>1
  <2> QED
    BY <1>1, <1>2, <1>3, <1>4, <1>5, <2>1, <2>3 DEF start, base, size
<1>6. CASE base # start /\ base + size = WordSize
  <2>1. WordSize <= y /\ y < 2 * WordSize /\ y \in Nat /\ y - WordSize < size
        /\ y - WordSize \in Nat
    BY <1>1, <1>2, <1>3, <1>6
  <2>2. Wrap(y) = y - WordSize
    BY <1>1, <2>1, ModOnce DEF Wrap
  <2> DEFINE z == y - WordSize
  <2>3. z \in Nat /\ size * 0 <= z /\ z < size * 0 + size
    BY <1>1, <2>1
  <2>4. (z % size) = z - size * 0
    <3> HIDE DEF z
    <3>1. z \in Int /\ 0 \in Int
      BY <2>3
    <3> QED
      BY <1>1, <2>3, <3>1, DivUnique
  <2> HIDE DEF z
  <2>5. z - (z % size) = 0
    BY <1>1, <2>3, <2>4
  <2> QED
    BY <1>4, <1>6, <2>2, <2>5 DEF start, base, size, z
<1>7. CASE base # start /\ base + size # WordSize
  <2>0. base + size \in Nat /\ ((base + size) % size) = 0 /\ base + size < WordSize
    <3>1. base + size = size * (q + 1) /\ q + 1 \in Nat
      BY <1>1, <1>a
    <3>2. ((size * (q + 1)) % size) = 0
      BY <1>1, <3>1, Multiple
    <3>3. base + size \in Nat /\ base + size < WordSize
      BY <1>1, <1>3, <1>7
    <3> QED
      BY <3>1, <3>2, <3>3
  <2>1. base + 2 * size <= WordSize
    <3> DEFINE b == base + size
    <3> HIDE DEF b
    <3>1. b \in Nat /\ (b % size) = 0 /\ b < WordSize
      BY <2>0 DEF b
    <3>2. b + size <= WordSize
      BY <1>1, <3>1, MultipleGap
    <3> QED
      BY <1>1, <1>3, <3>2 DEF b
  <2>2. y \in Addresses /\ Wrap(y) = y /\ y \in Int
    BY <1>1, <1>2, <1>3, <2>1, WrapAddress, Constants DEF Addresses
  <2>3. size * (q + 1) <= y /\ y < size * (q + 1) + size /\ size * (q + 1) = base + size
    BY <1>1, <1>2, <1>3, <1>7, <1>a
  <2>4. (y % size) = y - (base + size)
    <3> HIDE DEF y
    <3>1. (y % size) = y - size * (q + 1)
      <4>1. q + 1 \in Int
        OBVIOUS
      <4> QED
        BY <1>1, <2>2, <2>3, <4>1, DivUnique
    <3> QED
      BY <2>3, <3>1
  <2> QED
    BY <1>1, <1>2, <1>3, <1>4, <1>7, <2>2, <2>4 DEF start, base, size
<1> QED
  BY <1>5, <1>6, <1>7

(* Both region starts are granules that leave room for a subregion, and    *)
(* for all 8 of them if that many fit in the address space at all.         *)
LEMMA Bases ==
    ASSUME NEW f \in Frames, NEW sub \in PowersOfTwo, Granule <= sub,
           f.start + sub <= WordSize,
           NEW base \in {RegionBefore(f, sub), RegionAfter(f, sub)}
    PROVE  /\ base \in Addresses /\ (base % Granule) = 0
           /\ base + sub <= WordSize
           /\ 8 * sub >= WordSize => base = 0
           /\ 8 * sub <= WordSize => (base % (8 * sub)) = 0 /\ base + 8 * sub <= WordSize
<1> DEFINE start == f.start
           size == 8 * sub
<1>1. /\ sub \in Nat \ {0} /\ size \in Nat \ {0} /\ size = 8 * sub
      /\ WordSize \in Nat /\ Granule \in Nat \ {0}
  BY Constants
<1>2. start \in Nat /\ start < WordSize /\ start + sub <= WordSize
  <2>1. start \in Addresses
    BY DEF Frames
  <2> HIDE DEF start
  <2>2. start \in Nat /\ start < WordSize
    BY <2>1, Constants DEF Addresses
  <2> QED
    BY <2>2 DEF start
<1>3. (0 % Granule) = 0 /\ (0 % size) = 0 /\ 0 \in Addresses
  BY <1>1, Constants DEF Addresses
<1>4. CASE size >= WordSize
  <2>1. RegionSize(sub) = 0
    BY <1>4, RegionSizes
  <2>2. base = 0
    BY <2>1 DEF RegionBefore, RegionAfter, AlignUp, AlignDown
  <2> HIDE DEF start, size
  <2>3. 0 + sub <= WordSize /\ (size <= WordSize => 0 + size <= WordSize)
    BY <1>1, <1>2
  <2> QED
    BY <1>3, <2>2, <2>3 DEF size
<1>5. CASE size < WordSize
  <2> DEFINE b == RegionBefore(f, sub)
  <2>1. b \in Nat /\ b < WordSize /\ (b % size) = 0 /\ b + size <= WordSize
    <3>1. b \in Addresses /\ (b % size) = 0 /\ b + size <= WordSize
      BY <1>5, Before
    <3> HIDE DEF b, size
    <3> QED
      BY <3>1, Constants DEF Addresses
  <2>2. base = b \/ base = 0 \/ (base = b + size /\ b + size # WordSize)
    BY <1>5, After
  <2>3. (WordSize % size) = 0 /\ size \in PowersOfTwo
    BY <1>5, <1>1, EightFold
  <2> HIDE DEF b
  <2>4. /\ base \in Nat /\ base < WordSize
        /\ (base % size) = 0 /\ base + size <= WordSize
    <3>1. CASE base = b
      BY <2>1, <3>1
    <3>2. CASE base = 0
      <4> HIDE DEF size
      <4> QED
        BY <1>1, <1>3, <1>5, <3>2
    <3>3. CASE base = b + size /\ b + size # WordSize
      <4> HIDE DEF size
      <4>1. base \in Nat /\ base < WordSize
        BY <1>1, <2>1, <3>3
      <4>2. (size % size) = 0
        BY <1>1
      <4>3. (base % size) = 0
        BY <1>1, <2>1, <3>3, <4>2, MultipleSum
      <4> QED
        BY <1>1, <2>3, <4>1, <4>3, MultipleGap
    <3> QED
      BY <2>2, <3>1, <3>2, <3>3
  <2>5. (base % Granule) = 0
    <3>1. (size % Granule) = 0
      <4>1. Granule <= size /\ Granule \in PowersOfTwo
        BY <1>1, WordAssumption
      <4> QED
        BY <2>3, <4>1, PowerDivides
    <3> HIDE DEF size
    <3>2. PICK q \in Nat : base = size * q
      BY <1>1, <2>4, ExactQuotient
    <3>3. ((q * size) % Granule) = 0
      BY <1>1, <3>1, <3>2, MultipleProduct
    <3>4. base = q * size
      BY <1>1, <3>2
    <3> QED
      BY <3>3, <3>4
  <2>6. base + sub <= WordSize /\ base \in Addresses
    BY <1>1, <2>4, Constants DEF Addresses
  <2>7. ~(size >= WordSize)
    BY <1>1, <1>5
  <2> QED
    BY <2>4, <2>5, <2>6, <2>7
<1> QED
  BY <1>1, <1>4, <1>5

(* A try that covers anything covers subregions i .. i + k - 1 of the      *)
(* region: they lie in the range, but for one byte at its end, and there   *)
(* are as many as fit.                                                     *)
Covers(f, sub, base, i, k) ==
    /\ i \in Nat /\ k \in Nat \ {0} /\ i + k <= 8
    /\ f.start <= base + i * sub
    /\ base + i * sub + k * sub <= f.end + 2
    /\ base + i * sub + k * sub <= WordSize
    /\ i + k = 8 \/ base + i * sub + k * sub + sub > f.end + 2

LEMMA TryBounds ==
    ASSUME NEW f \in Frames, NEW sub \in PowersOfTwo, Granule <= sub,
           f.start + sub <= WordSize,
           NEW base \in {RegionBefore(f, sub), RegionAfter(f, sub)},
           NumSubregions(f, sub, base) > 0
    PROVE  Covers(f, sub, base, FirstSubregion(f, sub, base), NumSubregions(f, sub, base))
<1> DEFINE i == FirstSubregion(f, sub, base)
           k == NumSubregions(f, sub, base)
           l == LastSubregion(f, sub, base)
           start == f.start
           end == f.end
<1>1. /\ sub \in Nat \ {0} /\ sub >= 2 /\ WordSize \in Nat
      /\ Granule \in Nat /\ Granule >= 2
  BY Constants
<1>2. start \in Nat /\ end \in Nat /\ end < WordSize
  <2>1. start \in Addresses /\ end \in Addresses
    BY DEF Frames
  <2> HIDE DEF start, end
  <2> QED
    BY <2>1, Constants DEF Addresses
<1>3. /\ base \in Addresses /\ base \in Nat
      /\ (base % Granule) = 0 /\ base + sub <= WordSize
  <2>1. base \in Addresses /\ (base % Granule) = 0 /\ base + sub <= WordSize
    BY Bases
  <2> QED
    BY <2>1 DEF Addresses
<1>4. Wrap(base + sub - 1) = base + sub - 1
  <2>1. base + sub - 1 \in Addresses /\ base + sub - 1 \in Int
    BY <1>1, <1>3, Constants DEF Addresses
  <2> QED
    BY <2>1, WrapAddress
<1>5. i \in Nat /\ start <= base + i * sub
  BY <1>1, <1>3, FirstSubregionBounds
<1>6. base + sub - 1 <= end
  <2>1. ~(Wrap(base + sub - 1) > end)
    BY DEF NumSubregions
  <2>2. base + sub - 1 \in Int
    BY <1>1, <1>3
  <2> HIDE DEF end
  <2> QED
    BY <1>2, <1>4, <2>1, <2>2
<1>7. /\ l \in 0 .. 7
      /\ base + l * sub + sub <= end + 2
      /\ l = 7 \/ base + l * sub + 2 * sub > end + 2
  BY <1>1, <1>3, <1>6, LastSubregionBounds
<1>8. i <= 7 /\ i <= l /\ k = l - i + 1
  BY <1>5, <1>7 DEF NumSubregions
<1> HIDE DEF i, k, l, start, end
<1>9. k \in Nat \ {0} /\ i + k <= 8 /\ l = i + k - 1 /\ (l = 7 => i + k = 8)
  BY <1>5, <1>7, <1>8
<1>10. i * sub + k * sub = l * sub + sub
  <2>1. (i + k) * sub = i * sub + k * sub /\ (l + 1) * sub = l * sub + sub /\ i + k = l + 1
    BY <1>1, <1>5, <1>7, <1>9
  <2> QED
    BY <2>1
<1> DEFINE a == i * sub
           b == k * sub
           c == l * sub
<1>11. a \in Nat /\ b \in Nat /\ c \in Nat /\ a + b = c + sub
  BY <1>1, <1>5, <1>7, <1>9, <1>10
<1>12. base + a + b <= WordSize
  <2>1. ((base + a + b) % Granule) = 0
    <3>1. (sub % Granule) = 0
      BY WordAssumption, PowerDivides
    <3>2. (a % Granule) = 0 /\ (b % Granule) = 0
      BY <1>1, <1>5, <1>9, <3>1, Constants, MultipleProduct
    <3> HIDE DEF a, b
    <3>3. ((base + a) % Granule) = 0
      BY <1>3, <1>11, <3>2, Constants, MultipleSum
    <3>4. base + a \in Nat
      BY <1>3, <1>11
    <3> QED
      BY <1>11, <3>2, <3>3, <3>4, Constants, MultipleSum
  <2>2. (WordSize % Granule) = 0
    BY WordAssumption
  <2> DEFINE z == base + a + b
  <2>3. z \in Nat /\ z < WordSize + Granule
    <3> HIDE DEF a, b, c
    <3>1. base + c + sub <= end + 2
      BY <1>7 DEF c
    <3> QED
      BY <1>1, <1>2, <1>3, <1>11, <3>1
  <2>4. (z % Granule) = 0
    BY <2>1
  <2> HIDE DEF z
  <2>5. ~(WordSize < z)
    <3> SUFFICES ASSUME WordSize < z PROVE FALSE
      OBVIOUS
    <3>1. WordSize + Granule <= z
      BY <1>1, <2>2, <2>3, <2>4, Constants, MultipleGap
    <3> QED
      BY <1>1, <2>3, <3>1
  <2>6. z <= WordSize
    BY <1>1, <2>3, <2>5
  <2> QED
    BY <2>6 DEF z
<1> HIDE DEF a, b, c
<1>13. start <= base + a
  BY <1>5 DEF a
<1>14. base + a + b <= end + 2 /\ (i + k = 8 \/ base + a + b + sub > end + 2)
  <2>1. base + c + sub <= end + 2 /\ (l = 7 \/ base + c + 2 * sub > end + 2)
    BY <1>7 DEF c
  <2> QED
    BY <1>1, <1>2, <1>3, <1>9, <1>11, <2>1
<1> QED
  BY <1>5, <1>9, <1>12, <1>13, <1>14 DEF Covers, a, b, i, k, start, end

(* The calculators of well-posed ranges other than the whole address space. *)
Posed(f) == WellPosed(f.start, f.end)

LEMMA PosedBounds ==
    ASSUME NEW f \in Frames, Posed(f)
    PROVE  /\ f.start \in Nat /\ f.end \in Nat /\ f.end < WordSize
           /\ f.start <= f.end /\ f.start + 4 * Granule <= WordSize
           /\ (f.start % Granule) = 0
           /\ f.end + 4 * Granule <= WordSize \/ f.end = LastAddress
<1> DEFINE start == f.start
           end == f.end
<1>1. start \in Nat /\ end \in Nat /\ end < WordSize
  <2>1. start \in Addresses /\ end \in Addresses
    BY DEF Frames
  <2> HIDE DEF start, end
  <2> QED
    BY <2>1, Constants DEF Addresses
<1>2. /\ (start % Granule) = 0 /\ start <= end
      /\ \/ end + 4 * Granule <= WordSize
         \/ end = LastAddress /\ start + 4 * Granule <= WordSize
  BY DEF Posed, WellPosed, ClearOfTop
<1> HIDE DEF start, end
<1>3. start + 4 * Granule <= WordSize
  BY <1>1, <1>2, Constants
<1> QED
  BY <1>1, <1>2, <1>3 DEF start, end

(* The size and the first address of a try do not wrap.                    *)
LEMMA TrySize ==
    ASSUME NEW f \in Frames, Posed(f), ~IsFullRange(f),
           NEW sub \in PowersOfTwo, Granule <= sub, f.start + sub <= WordSize,
           NEW base \in {RegionBefore(f, sub), RegionAfter(f, sub)},
           NumSubregions(f, sub, base) > 0
    PROVE  /\ ActualSize(f, sub, base) = NumSubregions(f, sub, base) * sub
           /\ ActualSize(f, sub, base) >= sub
           /\ FirstAddr(f, sub, base) = base + FirstSubregion(f, sub, base) * sub
<1> DEFINE i == FirstSubregion(f, sub, base)
           k == NumSubregions(f, sub, base)
           start == f.start
           end == f.end
           a == i * sub
           b == k * sub
<1>1. Covers(f, sub, base, i, k)
  BY TryBounds
<1>2. /\ sub \in Nat \ {0} /\ WordSize \in Nat /\ Granule \in Nat /\ Granule >= 2
  BY Constants
<1>3. base \in Nat
  BY Bases DEF Addresses
<1>4. /\ start \in Nat /\ end \in Nat /\ end < WordSize
      /\ end + 4 * Granule <= WordSize \/ end = WordSize - 1
  BY PosedBounds DEF LastAddress
<1>5. ~(start = 0 /\ end = WordSize - 1)
  BY DEF IsFullRange, LastAddress
<1>6. /\ i \in Nat /\ k \in Nat \ {0}
      /\ start <= base + a
      /\ base + a + b <= end + 2
      /\ base + a + b <= WordSize
  BY <1>1 DEF Covers
<1> HIDE DEF i, k, start, end
<1>7. a \in Nat /\ b \in Nat /\ b >= sub
  <2>1. 1 * sub <= k * sub
    BY <1>2, <1>6, ProductMonotonic
  <2> QED
    BY <1>2, <1>6, <2>1
<1> HIDE DEF a, b
<1>8. b < WordSize
  <2> SUFFICES ASSUME b >= WordSize PROVE FALSE
    BY <1>2, <1>7
  <2>1. start = 0 /\ WordSize <= end + 2
    BY <1>2, <1>3, <1>4, <1>6, <1>7
  <2> QED
    BY <1>2, <1>4, <1>5, <2>1
<1>9. b \in Addresses /\ base + a \in Addresses
  BY <1>2, <1>3, <1>6, <1>7, <1>8 DEF Addresses
<1>10. Wrap(b) = b /\ Wrap(base + a) = base + a
  BY <1>3, <1>7, <1>9, WrapAddress
<1> QED
  BY <1>7, <1>10 DEF ActualSize, FirstAddr, a, b, i, k

LEMMA NoneCovered ==
    ASSUME NEW f, NEW sub \in Nat, NEW base, NumSubregions(f, sub, base) = 0
    PROVE  ActualSize(f, sub, base) = 0
<1>1. 0 \in Addresses /\ 0 * sub = 0
  BY Constants DEF Addresses
<1> QED
  BY <1>1, WrapAddress DEF ActualSize

(* A try that ends the loop uses all 8 subregions.                         *)
LEMMA WholeRegion ==
    ASSUME NEW f \in Frames, NEW sub \in PowersOfTwo, NEW base \in Addresses,
           SubregionsMask(f, sub, base) = {}
    PROVE  FirstSubregion(f, sub, base) = 0 /\ NumSubregions(f, sub, base) = 8
<1> DEFINE i == FirstSubregion(f, sub, base)
           k == NumSubregions(f, sub, base)
<1>1. i \in Nat /\ k \in 0 .. 8
  BY SelectionTypes, Constants
<1>2. Subregions \ (i .. i + k - 1) = {}
  BY DEF SubregionsMask
<1> HIDE DEF i, k
<1>3. 0 \in i .. i + k - 1 /\ 7 \in i .. i + k - 1
  BY <1>2 DEF Subregions
<1>4. i = 0 /\ k = 8
  BY <1>1, <1>3
<1> QED
  BY <1>4 DEF i, k

------------------------------------------------------------------------------
(* The region tried first is the one that contains start.                  *)
LEMMA BeforeAround ==
    ASSUME NEW f \in Frames, NEW sub \in PowersOfTwo, 8 * sub <= WordSize
    PROVE  LET base == RegionBefore(f, sub)
           IN  /\ base \in Nat /\ (base % (8 * sub)) = 0
               /\ base <= f.start /\ f.start < base + 8 * sub
               /\ base + 8 * sub <= WordSize
<1> DEFINE size == 8 * sub
           start == f.start
<1>1. sub \in Nat \ {0} /\ size \in Nat \ {0} /\ WordSize \in Nat /\ size <= WordSize
  BY Constants
<1>2. start \in Nat /\ start < WordSize
  <2>1. start \in Addresses
    BY DEF Frames
  <2> HIDE DEF start
  <2> QED
    BY <2>1, Constants DEF Addresses
<1>3. CASE size < WordSize
  <2>1. RegionBefore(f, sub) \in Addresses
    BY <1>3, Before
  <2> QED
    BY <1>3, <2>1, Before DEF Addresses
<1>4. CASE size = WordSize
  <2>1. RegionBefore(f, sub) = 0
    BY <1>4, RegionSizes DEF RegionBefore, AlignDown
  <2> HIDE DEF size, start
  <2>2. 0 \in Nat /\ (0 % size) = 0 /\ 0 <= start /\ start < 0 + size /\ 0 + size <= WordSize
    BY <1>1, <1>2, <1>4
  <2> QED
    BY <2>1, <2>2 DEF size, start
<1> QED
  BY <1>1, <1>3, <1>4

(* A loop step never makes the best candidate cover less.                  *)
LEMMA BetterCovers ==
    ASSUME NEW f \in Frames, f.sub > 0, NEW base \in Addresses
    PROVE  /\ Better(f, base).size >= f.best.size
           /\ Better(f, base).size >= ActualSize(f, f.sub, base)
<1> DEFINE old == f.best.size
           new == ActualSize(f, f.sub, base)
<1>1. old \in Addresses /\ f.sub \in Addresses
  BY DEF Frames, Candidates
<1>2. f.sub \in Nat \ {0}
  BY <1>1 DEF Addresses
<1>3. new \in Addresses
  BY <1>2, SelectionTypes
<1>4. Better(f, base).size = IF new >= old THEN new ELSE old
  BY DEF Better
<1> HIDE DEF old, new
<1>5. old \in Nat /\ new \in Nat
  BY <1>1, <1>3 DEF Addresses
<1>6. (IF new >= old THEN new ELSE old) >= old /\ (IF new >= old THEN new ELSE old) >= new
  BY <1>5
<1> QED
  BY <1>4, <1>6 DEF old, new

(* The smallest subregions cover at least the first granule of the range.  *)
LEMMA GranuleTry ==
    ASSUME NEW f \in Frames, Posed(f), f.start + (Granule - 1) <= f.end
    PROVE  LET base == RegionBefore(f, Granule)
           IN  /\ NumSubregions(f, Granule, base) > 0
               /\ base + FirstSubregion(f, Granule, base) * Granule = f.start
<1> DEFINE base == RegionBefore(f, Granule)
           i == FirstSubregion(f, Granule, base)
           l == LastSubregion(f, Granule, base)
           start == f.start
           end == f.end
           a == i * Granule
           b == l * Granule
<1>1. /\ Granule \in Nat \ {0} /\ Granule >= 2 /\ WordSize \in Nat
      /\ Granule \in PowersOfTwo /\ 8 * Granule <= WordSize
  BY Constants, WordAssumption
<1>2. /\ start \in Nat /\ end \in Nat /\ end < WordSize
      /\ start + 4 * Granule <= WordSize /\ (start % Granule) = 0
      /\ start + (Granule - 1) <= end
  BY PosedBounds
<1>3. start + Granule <= WordSize
  <2> HIDE DEF start, end
  <2> QED
    BY <1>1, <1>2
<1>4. /\ base \in Nat /\ base <= start /\ start < base + 8 * Granule
      /\ base + 8 * Granule <= WordSize
  BY <1>1, BeforeAround
<1>5. base \in Addresses /\ (base % Granule) = 0
  <2>1. base \in {RegionBefore(f, Granule), RegionAfter(f, Granule)}
    OBVIOUS
  <2>2. f.start + Granule <= WordSize /\ Granule <= Granule
    BY <1>1, <1>3
  <2> QED
    BY <1>1, <2>1, <2>2, Bases
<1>6. i \in Nat /\ start <= base + a /\ (start <= base => i = 0)
      /\ (start > base => base + a < start + Granule)
  BY <1>1, <1>3, <1>5, FirstSubregionBounds
<1>7. base + Granule - 1 <= end
  <2> HIDE DEF base, start, end
  <2> QED
    BY <1>1, <1>2, <1>4
<1>8. l \in 0 .. 7 /\ (l = 7 \/ base + b + 2 * Granule > end + 2)
  BY <1>1, <1>5, <1>7, LastSubregionBounds
<1>9. Wrap(base + Granule - 1) = base + Granule - 1
  <2> HIDE DEF base
  <2>1. base + Granule - 1 \in Addresses /\ base + Granule - 1 \in Int
    BY <1>1, <1>4, Constants DEF Addresses
  <2> QED
    BY <2>1, WrapAddress
<1>10. NumSubregions(f, Granule, base) =
         IF i > 7 \/ l < i \/ base + Granule - 1 > end THEN 0 ELSE l - i + 1
  BY <1>9 DEF NumSubregions
<1> HIDE DEF base, start, end, i, l
<1>11. base + a = start
  <2>1. CASE start <= base
    <3>1. start = base /\ i = 0
      BY <1>2, <1>4, <1>6, <2>1
    <3>2. 0 * Granule = 0
      BY <1>1
    <3> QED
      BY <1>2, <3>1, <3>2
  <2>2. CASE start > base
    <3>1. (a % Granule) = 0
      <4>1. (Granule % Granule) = 0
        BY <1>1
      <4> QED
        BY <1>1, <1>6, <4>1, MultipleProduct
    <3>2. a \in Nat
      BY <1>1, <1>6
    <3> HIDE DEF a
    <3> DEFINE z == base + a
    <3>3. z \in Nat /\ (z % Granule) = 0
      <4>1. base \in Nat /\ (base % Granule) = 0
        BY <1>4, <1>5
      <4>2. ((base + a) % Granule) = 0
        BY <1>1, <3>1, <3>2, <4>1, MultipleSum
      <4> QED
        BY <3>2, <4>1, <4>2
    <3>4. start <= z /\ z < start + Granule
      BY <1>6, <2>2 DEF a
    <3> HIDE DEF z
    <3>5. ~(start < z)
      <4> SUFFICES ASSUME start < z PROVE FALSE
        OBVIOUS
      <4>1. start + Granule <= z
        BY <1>1, <1>2, <3>3, MultipleGap
      <4> QED
        BY <1>1, <1>2, <3>3, <3>4, <4>1
    <3>6. z = start
      BY <1>2, <3>3, <3>4, <3>5
    <3> QED
      BY <3>6 DEF z
  <2> QED
    BY <1>2, <1>4, <2>1, <2>2
<1>12. i <= 7
  <2> SUFFICES ASSUME i > 7 PROVE FALSE
    BY <1>6
  <2>1. 8 * Granule <= i * Granule
    BY <1>1, <1>6, ProductMonotonic
  <2>2. a \in Nat /\ 8 * Granule <= a
    BY <1>1, <1>6, <2>1
  <2> HIDE DEF a
  <2> QED
    BY <1>1, <1>2, <1>4, <1>11, <2>2
<1>13. ~(l < i)
  <2> SUFFICES ASSUME l < i PROVE FALSE
    OBVIOUS
  <2>1. l + 1 <= i /\ l # 7 /\ l \in Nat
    BY <1>6, <1>8, <1>12
  <2>2. (l + 1) * Granule <= i * Granule /\ (l + 1) * Granule = l * Granule + Granule
    <3>1. l + 1 \in Nat
      BY <2>1
    <3> QED
      BY <1>1, <1>6, <2>1, <3>1, ProductMonotonic
  <2>3. a \in Nat /\ b \in Nat /\ b + Granule <= a
    BY <1>1, <1>6, <2>1, <2>2
  <2>4. base + b + 2 * Granule > end + 2
    BY <1>8, <2>1
  <2> HIDE DEF a, b
  <2> QED
    BY <1>1, <1>2, <1>4, <1>11, <2>3, <2>4
<1>14. ~(base + Granule - 1 > end)
  BY <1>1, <1>2, <1>4, <1>7
<1>15. NumSubregions(f, Granule, base) = l - i + 1 /\ l - i + 1 > 0
  BY <1>6, <1>8, <1>10, <1>12, <1>13, <1>14
<1>16. NumSubregions(f, Granule, base) > 0
  BY <1>15
<1> QED
  BY <1>11, <1>16 DEF base, start, i

(* A region that starts in the range and whose space ends below the top is *)
(* used as a whole when the range extends to the last address.             *)
LEMMA WholeToTop ==
    ASSUME NEW f \in Frames, Posed(f), ~IsFullRange(f), f.end = LastAddress,
           NEW base \in {RegionBefore(f, Granule), RegionAfter(f, Granule)},
           f.start <= base
    PROVE  ActualSize(f, Granule, base) >= 4 * Granule
<1> DEFINE i == FirstSubregion(f, Granule, base)
           l == LastSubregion(f, Granule, base)
           k == NumSubregions(f, Granule, base)
           start == f.start
           b == l * Granule
<1>1. /\ Granule \in Nat \ {0} /\ Granule >= 2 /\ WordSize \in Nat
      /\ Granule \in PowersOfTwo /\ 8 * Granule <= WordSize
  BY Constants, WordAssumption
<1>2. start \in Nat /\ start + 4 * Granule <= WordSize
  BY PosedBounds
<1>3. start + Granule <= WordSize
  <2> HIDE DEF start
  <2> QED
    BY <1>1, <1>2
<1>4. base \in Addresses /\ base + 8 * Granule <= WordSize
  BY <1>1, <1>3, Bases
<1>5. base \in Nat
  BY <1>4 DEF Addresses
<1>6. i = 0
  BY <1>1, <1>3, <1>4, FirstSubregionBounds
<1>7. base + Granule - 1 <= WordSize - 1
  BY <1>1, <1>4, <1>5
<1>8. l \in 0 .. 7 /\ (l = 7 \/ base + b + 2 * Granule > WordSize - 1 + 2)
  <2>1. f.end = WordSize - 1
    BY DEF LastAddress
  <2> QED
    BY <1>1, <1>4, <1>7, <2>1, LastSubregionBounds
<1>9. Wrap(base + Granule - 1) = base + Granule - 1
  <2>1. base + Granule - 1 \in Addresses /\ base + Granule - 1 \in Int
    BY <1>1, <1>5, <1>7, Constants DEF Addresses
  <2> QED
    BY <2>1, WrapAddress
<1>10. k = IF i > 7 \/ l < i \/ base + Granule - 1 > WordSize - 1 THEN 0 ELSE l - i + 1
  BY <1>9 DEF NumSubregions, LastAddress
<1> HIDE DEF i, l, k, start
<1>11. l = 7
  <2> SUFFICES ASSUME l # 7 PROVE FALSE
    OBVIOUS
  <2>1. l + 2 <= 8 /\ l + 2 \in Nat /\ l \in Nat
    BY <1>8
  <2>2. (l + 2) * Granule <= 8 * Granule
    BY <1>1, <2>1, ProductMonotonic
  <2>3. (l + 2) * Granule = b + 2 * Granule /\ b \in Nat
    BY <1>1, <2>1
  <2>4. base + b + 2 * Granule > WordSize - 1 + 2
    BY <1>8
  <2> HIDE DEF b
  <2> QED
    BY <1>1, <1>4, <1>5, <2>2, <2>3, <2>4
<1>12. k = 8
  BY <1>1, <1>5, <1>6, <1>7, <1>10, <1>11
<1>13. ActualSize(f, Granule, base) = k * Granule
  <2>1. NumSubregions(f, Granule, base) > 0
    BY <1>12 DEF k
  <2>2. f.start + Granule <= WordSize
    BY <1>3 DEF start
  <2> QED
    BY <1>1, <2>1, <2>2, TrySize DEF k
<1>14. k * Granule >= 4 * Granule
  BY <1>1, <1>12
<1> QED
  BY <1>13, <1>14

(* The granules from start to the last address end the region they are in. *)
LEMMA LastRegionTry ==
    ASSUME NEW f \in Frames, Posed(f), ~IsFullRange(f), f.end = LastAddress,
           f.start + (Granule - 1) <= f.end,
           RegionBefore(f, Granule) + 8 * Granule = WordSize
    PROVE  ActualSize(f, Granule, RegionBefore(f, Granule)) >= 4 * Granule
<1> DEFINE base == RegionBefore(f, Granule)
           i == FirstSubregion(f, Granule, base)
           k == NumSubregions(f, Granule, base)
           start == f.start
           a == i * Granule
           b == k * Granule
           z == base + a + b
<1>1. /\ Granule \in Nat \ {0} /\ Granule >= 2 /\ WordSize \in Nat
      /\ Granule \in PowersOfTwo /\ 8 * Granule <= WordSize
  BY Constants, WordAssumption
<1>2. start \in Nat /\ start + 4 * Granule <= WordSize /\ (start % Granule) = 0
  BY PosedBounds
<1>3. start + Granule <= WordSize
  <2> HIDE DEF start
  <2> QED
    BY <1>1, <1>2
<1>4. base \in Nat /\ base + 8 * Granule = WordSize
  BY <1>1, BeforeAround
<1>5. k > 0 /\ base + a = start
  BY GranuleTry
<1>6. Covers(f, Granule, base, i, k)
  BY <1>1, <1>3, <1>5, TryBounds
<1>7. ActualSize(f, Granule, base) = b
  BY <1>1, <1>3, <1>5, TrySize
<1>8. /\ i \in Nat /\ k \in Nat \ {0}
      /\ base + a + b <= WordSize
      /\ i + k = 8 \/ base + a + b + Granule > (WordSize - 1) + 2
  BY <1>6 DEF Covers, LastAddress
<1> HIDE DEF base, i, k, start
<1>9. a \in Nat /\ b \in Nat /\ z \in Nat
  BY <1>1, <1>4, <1>8
<1>10. base + a + b = WordSize
  <2>1. CASE i + k = 8
    <3>1. (i + k) * Granule = a + b
      BY <1>1, <1>8
    <3>2. a + b = 8 * Granule
      BY <2>1, <3>1
    <3> HIDE DEF a, b
    <3> QED
      BY <1>1, <1>4, <1>9, <3>2
  <2>2. CASE base + a + b + Granule > (WordSize - 1) + 2
    <3>1. (b % Granule) = 0
      <4>1. (Granule % Granule) = 0
        BY <1>1
      <4> QED
        BY <1>1, <1>8, <4>1, MultipleProduct
    <3> HIDE DEF a, b
    <3>2. ((start + b) % Granule) = 0
      BY <1>1, <1>2, <1>9, <3>1, MultipleSum
    <3>3. z = start + b
      BY <1>5
    <3> HIDE DEF z
    <3>4. z = base + a + b /\ (z % Granule) = 0
      BY <3>2, <3>3 DEF z
    <3>5. ~(z < WordSize)
      <4> SUFFICES ASSUME z < WordSize PROVE FALSE
        OBVIOUS
      <4>1. z + Granule <= WordSize
        <5>1. Granule <= WordSize
          BY <1>1
        <5> QED
          BY <1>1, <1>9, <3>4, <5>1, GapToTop
      <4> QED
        BY <1>1, <1>9, <2>2, <3>4, <4>1
    <3> QED
      BY <1>1, <1>8, <1>9, <3>4, <3>5
  <2> QED
    BY <1>8, <2>1, <2>2
<1> HIDE DEF a, b, z
<1>11. b >= 4 * Granule
  BY <1>1, <1>2, <1>4, <1>5, <1>9, <1>10
<1> QED
  BY <1>7, <1>11 DEF base

(* The size of a try wraps only if it is that of the whole address space.  *)
LEMMA TryWraps ==
    ASSUME NEW f \in Frames, NEW sub \in PowersOfTwo, Granule <= sub,
           f.start + sub <= WordSize,
           NEW base \in {RegionBefore(f, sub), RegionAfter(f, sub)},
           NumSubregions(f, sub, base) > 0,
           NEW b, b = NumSubregions(f, sub, base) * sub
    PROVE  /\ b \in Nat /\ b <= WordSize
           /\ b < WordSize => ActualSize(f, sub, base) = b
           /\ b = WordSize => ActualSize(f, sub, base) = 0
<1> DEFINE i == FirstSubregion(f, sub, base)
           k == NumSubregions(f, sub, base)
           a == i * sub
<1>1. i \in Nat /\ k \in Nat \ {0} /\ base + i * sub + k * sub <= WordSize
  BY TryBounds DEF Covers
<1>2. sub \in Nat /\ WordSize \in Nat \ {0} /\ base \in Nat
  BY Constants, Bases DEF Addresses
<1>3. ActualSize(f, sub, base) = Wrap(b)
  BY DEF ActualSize
<1> HIDE DEF i, k
<1>4. a \in Nat /\ b \in Nat /\ base + a + b <= WordSize
  BY <1>1, <1>2 DEF k
<1> HIDE DEF a
<1>5. b <= WordSize
  BY <1>2, <1>4
<1>6. ASSUME b < WordSize PROVE Wrap(b) = b
  BY <1>2, <1>4, <1>6, WrapAddress DEF Addresses
<1>7. (WordSize % WordSize) = 0
  BY <1>2
<1> QED
  BY <1>3, <1>4, <1>5, <1>6, <1>7 DEF Wrap

(* Of two subregion sizes whose regions are as large as the address space, *)
(* the smaller one covers at least as much: so the larger one, whose       *)
(* region_size has wrapped, is not what is built.                          *)
LEMMA SmallerCoversMore ==
    ASSUME NEW f \in Frames,
           NEW sub \in PowersOfTwo, Granule <= sub, 8 * sub >= WordSize,
           2 * sub \in PowersOfTwo, f.start + 2 * sub <= WordSize
    PROVE  ActualSize(f, 2 * sub, 0) <= ActualSize(f, sub, 0)
<1> DEFINE two == 2 * sub
           start == f.start
           end == f.end
           i == FirstSubregion(f, sub, 0)
           l == LastSubregion(f, sub, 0)
           k == NumSubregions(f, sub, 0)
           i2 == FirstSubregion(f, two, 0)
           k2 == NumSubregions(f, two, 0)
<1>1. /\ sub \in Nat \ {0} /\ sub >= 2 /\ WordSize \in Nat
      /\ Granule \in Nat \ {0} /\ Granule >= 2
      /\ two \in Nat \ {0} /\ two = 2 * sub /\ two \in PowersOfTwo /\ Granule <= two
      /\ 8 * two >= WordSize
  BY Constants
<1>2. start \in Nat /\ end \in Nat /\ end < WordSize
  <2>1. start \in Addresses /\ end \in Addresses
    BY DEF Frames
  <2> HIDE DEF start, end
  <2> QED
    BY <2>1, Constants DEF Addresses
<1>3. start + two <= WordSize /\ start + sub <= WordSize
  <2>1. start + 2 * sub <= WordSize
    OBVIOUS
  <2> HIDE DEF start
  <2> QED
    BY <1>1, <1>2, <2>1
<1>4. /\ 0 \in Addresses
      /\ 0 = RegionBefore(f, sub) /\ 0 = RegionBefore(f, two)
  <2>1. RegionSize(sub) = 0 /\ RegionSize(two) = 0
    BY <1>1, RegionSizes
  <2> QED
    BY <2>1, Constants DEF RegionBefore, AlignDown, Addresses
<1>5. k \in 0 .. 8 /\ k2 \in 0 .. 8 /\ ActualSize(f, sub, 0) \in Addresses
  BY <1>1, <1>4, SelectionTypes
<1>6. CASE k2 = 0
  <2>1. ActualSize(f, two, 0) = 0
    BY <1>1, <1>6, NoneCovered
  <2>2. 0 <= ActualSize(f, sub, 0)
    BY <1>5 DEF Addresses
  <2> QED
    BY <2>1, <2>2
<1>7. ASSUME k2 # 0
      PROVE  /\ Covers(f, two, 0, i2, k2) /\ k2 * two \in Nat /\ k2 * two <= WordSize
             /\ k2 * two < WordSize => ActualSize(f, two, 0) = k2 * two
             /\ k2 * two = WordSize => ActualSize(f, two, 0) = 0
  <2>1. NumSubregions(f, two, 0) > 0 /\ f.start + two <= WordSize
        /\ 0 \in {RegionBefore(f, two), RegionAfter(f, two)}
    BY <1>3, <1>4, <1>5, <1>7
  <2> HIDE DEF two
  <2>2. Covers(f, two, 0, i2, k2)
    BY <1>1, <2>1, TryBounds
  <2> QED
    BY <1>1, <2>1, <2>2, TryWraps
<1>8. CASE k2 # 0 /\ k2 * two = WordSize
  <2>1. ActualSize(f, two, 0) = 0
    BY <1>7, <1>8
  <2>2. 0 <= ActualSize(f, sub, 0)
    BY <1>5 DEF Addresses
  <2> QED
    BY <2>1, <2>2
<1>9. CASE k2 # 0 /\ k2 * two # WordSize
  <2>1. k2 > 0
    BY <1>5, <1>9
  <2>2. /\ Covers(f, two, 0, i2, k2) /\ ActualSize(f, two, 0) = k2 * two
        /\ k2 * two < WordSize
    <3>1. k2 * two < WordSize
      <4> DEFINE x == k2 * two
      <4>1. x \in Nat /\ x <= WordSize /\ x # WordSize
        BY <1>7, <1>9
      <4> HIDE DEF x
      <4>2. x < WordSize
        BY <1>1, <4>1
      <4> QED
        BY <4>2 DEF x
    <3> QED
      BY <1>7, <1>9, <3>1
  <2>3. /\ i2 \in Nat /\ k2 \in Nat \ {0}
        /\ start <= 0 + i2 * two
        /\ 0 + i2 * two + k2 * two <= end + 2
        /\ 0 + i2 * two + k2 * two <= WordSize
    BY <2>2 DEF Covers
  <2>4. /\ i \in Nat /\ (start <= 0 => i = 0)
        /\ (start > 0 => 0 + i * sub < start + sub)
    BY <1>1, <1>3, <1>4, FirstSubregionBounds
  <2>5. 0 + sub - 1 <= end /\ ~(Wrap(0 + sub - 1) > end)
    <3>1. ~(Wrap(0 + two - 1) > end)
      BY <2>1 DEF NumSubregions
    <3>2. 0 + two - 1 \in Addresses /\ 0 + sub - 1 \in Addresses
      <4> HIDE DEF start, end, two
      <4> QED
        BY <1>1, <1>2, <1>3, Constants DEF Addresses
    <3>3. 0 + two - 1 \in Int /\ 0 + sub - 1 \in Int
      BY <1>1
    <3>4. Wrap(0 + two - 1) = 0 + two - 1 /\ Wrap(0 + sub - 1) = 0 + sub - 1
      BY <3>2, <3>3, WrapAddress
    <3> HIDE DEF start, end, two
    <3> QED
      BY <1>1, <1>2, <3>1, <3>4
  <2>6. l \in 0 .. 7 /\ (l = 7 \/ 0 + l * sub + 2 * sub > end + 2)
    BY <1>1, <1>4, <2>5, LastSubregionBounds
  <2>7. k = IF i > 7 \/ l < i THEN 0 ELSE l - i + 1
    BY <2>5 DEF NumSubregions
  <2>8. ActualSize(f, sub, 0) = k * sub \/ k = 0
    <3> SUFFICES ASSUME k # 0 PROVE ActualSize(f, sub, 0) = k * sub
      OBVIOUS
    <3>1. NumSubregions(f, sub, 0) > 0 /\ f.start + sub <= WordSize
          /\ 0 \in {RegionBefore(f, sub), RegionAfter(f, sub)}
      BY <1>3, <1>4, <1>5
    <3>2. /\ k * sub \in Nat /\ k * sub <= WordSize
          /\ k * sub < WordSize => ActualSize(f, sub, 0) = k * sub
          /\ Covers(f, sub, 0, i, k)
      BY <3>1, TryWraps, TryBounds
    <3>3. ASSUME k * sub = WordSize PROVE FALSE
      <4>1. /\ i \in Nat /\ start <= 0 + i * sub
            /\ 0 + i * sub + k * sub <= end + 2
            /\ 0 + i * sub + k * sub <= WordSize
        BY <3>2 DEF Covers
      <4>2. /\ i2 + k2 = 8 \/ 0 + i2 * two + k2 * two + two > end + 2
            /\ start <= 0 => i2 = 0
        <5>1. i2 + k2 = 8 \/ 0 + i2 * two + k2 * two + two > end + 2
          BY <2>2 DEF Covers
        <5>2. start <= 0 => i2 = 0
          <6>1. f.start + two <= WordSize
            BY <1>3
          <6> HIDE DEF two
          <6> QED
            BY <1>1, <1>4, <6>1, FirstSubregionBounds
        <5> QED
          BY <5>1, <5>2
      <4> DEFINE x == i * sub
                 y == k2 * two
      <4>3. x \in Nat /\ y \in Nat /\ y < WordSize
        BY <1>1, <2>2, <1>7, <1>9, <4>1
      <4>4. start <= x /\ x + WordSize <= end + 2 /\ x + WordSize <= WordSize
        <5>1. x + k * sub = x + WordSize
          BY <3>3
        <5> QED
          BY <4>1, <4>3, <5>1
      <4> HIDE DEF start, end, i, i2, k2, k, x
      <4>5. start <= 0 /\ WordSize <= end + 2 /\ i2 = 0
        <5>1. start <= 0 /\ WordSize <= end + 2
          BY <1>1, <1>2, <4>3, <4>4
        <5> QED
          BY <4>2, <5>1
      <4>6. 0 * two = 0
        BY <1>1
      <4>7. k2 = 8 \/ y + two > end + 2
        BY <1>5, <4>2, <4>3, <4>5, <4>6
      <4>8. k2 # 8
        <5> SUFFICES ASSUME k2 = 8 PROVE FALSE
          OBVIOUS
        <5> QED
          BY <1>1, <4>3
      <4>9. y + two <= WordSize
        <5>1. (y % two) = 0
          <6>1. (two % two) = 0 /\ k2 \in Nat
            BY <1>1, <1>5
          <6> QED
            BY <1>1, <6>1, MultipleProduct
        <5>2. two <= WordSize
          BY <1>1, <1>2, <1>3
        <5> HIDE DEF two, y
        <5> QED
          BY <1>1, <4>3, <5>1, <5>2, GapToTop
      <4> HIDE DEF y
      <4> QED
        BY <1>1, <1>2, <4>3, <4>5, <4>7, <4>8, <4>9
    <3>4. k * sub < WordSize
      <4> DEFINE x == k * sub
      <4>1. x \in Nat /\ x <= WordSize /\ x # WordSize
        BY <3>2, <3>3
      <4> HIDE DEF x
      <4>2. x < WordSize
        BY <1>1, <4>1
      <4> QED
        BY <4>2 DEF x
    <3> QED
      BY <3>2, <3>4
  <2> DEFINE m == i2 + k2
             n == 2 * m
  <2> HIDE DEF start, end, i, l, k, i2, k2
  <2>9. m \in Nat /\ n \in Nat /\ i2 * two + k2 * two = n * sub
    BY <1>1, <2>3
  <2>10. n <= 8
    <3> SUFFICES ASSUME 9 <= n PROVE FALSE
      BY <2>9
    <3>1. 9 * sub <= n * sub
      BY <1>1, <2>9, ProductMonotonic
    <3>2. i2 * two \in Nat /\ k2 * two \in Nat
      BY <1>1, <2>3
    <3>3. n * sub <= WordSize
      <4> DEFINE x == i2 * two
                 y == k2 * two
                 z == n * sub
      <4>1. x \in Nat /\ y \in Nat /\ 0 + x + y <= WordSize /\ x + y = z
        BY <2>3, <2>9, <3>2
      <4> HIDE DEF x, y, z
      <4>2. z <= WordSize
        BY <4>1
      <4> QED
        BY <4>2 DEF z
    <3>4. n * sub \in Nat /\ 9 * sub > 8 * sub /\ 9 * sub \in Nat
      BY <1>1, <2>9
    <3> QED
      BY <1>1, <3>1, <3>3, <3>4
  <2>11. i <= 2 * i2
    <3>1. CASE start <= 0
      BY <2>3, <2>4, <3>1
    <3>2. CASE start > 0
      <4> SUFFICES ASSUME 2 * i2 + 1 <= i PROVE FALSE
        BY <2>3, <2>4
      <4>1. (2 * i2 + 1) * sub <= i * sub
        <5>1. 2 * i2 + 1 \in Nat
          BY <2>3
        <5> QED
          BY <1>1, <2>4, <5>1, ProductMonotonic
      <4>2. (2 * i2 + 1) * sub = i2 * two + sub /\ i2 * two \in Nat /\ i * sub \in Nat
        BY <1>1, <2>3, <2>4
      <4> DEFINE x == i2 * two
                 y == i * sub
      <4>3. x \in Nat /\ y \in Nat /\ x + sub <= y /\ start <= 0 + x /\ 0 + y < start + sub
        BY <2>3, <2>4, <3>2, <4>1, <4>2
      <4> HIDE DEF x, y
      <4> QED
        BY <1>1, <1>2, <4>3
    <3> QED
      BY <1>2, <3>1, <3>2
  <2>12. n - 1 <= l
    <3>1. CASE l = 7
      BY <2>9, <2>10, <3>1
    <3>2. CASE l # 7
      <4> SUFFICES ASSUME l + 2 <= n PROVE FALSE
        BY <2>6, <2>9
      <4>1. (l + 2) * sub <= n * sub
        <5>1. l + 2 \in Nat
          BY <2>6
        <5> QED
          BY <1>1, <2>9, <5>1, ProductMonotonic
      <4>2. (l + 2) * sub = l * sub + 2 * sub /\ l * sub \in Nat /\ n * sub \in Nat
        BY <1>1, <2>6, <2>9
      <4>3. i2 * two \in Nat /\ k2 * two \in Nat
        BY <1>1, <2>3
      <4> DEFINE x == i2 * two
                 y == k2 * two
                 z == n * sub
                 w == l * sub
      <4>4. /\ x \in Nat /\ y \in Nat /\ z \in Nat /\ w \in Nat
            /\ x + y = z /\ 0 + x + y <= end + 2
            /\ w + 2 * sub <= z /\ 0 + w + 2 * sub > end + 2
        BY <2>3, <2>6, <2>9, <3>2, <4>1, <4>2, <4>3
      <4> HIDE DEF x, y, z, w
      <4> QED
        BY <1>1, <1>2, <4>4
    <3> QED
      BY <3>1, <3>2
  <2>13. 2 * k2 <= k /\ k # 0
    BY <2>3, <2>4, <2>6, <2>7, <2>9, <2>10, <2>11, <2>12
  <2>14. k2 * two <= k * sub
    <3>1. (2 * k2) * sub <= k * sub
      <4>1. 2 * k2 \in Nat /\ k \in Nat
        BY <1>5, <2>3
      <4> QED
        BY <1>1, <2>13, <4>1, ProductMonotonic
    <3>2. (2 * k2) * sub = k2 * two
      BY <1>1, <2>3
    <3> QED
      BY <3>1, <3>2
  <2> QED
    BY <2>2, <2>8, <2>13, <2>14
<1> QED
  BY <1>6, <1>8, <1>9

(* The largest subregion tried leaves room for one of them after start,    *)
(* unless it is the smallest first size.                                   *)
LEMMA MaxSubregionFits ==
    ASSUME NEW f \in Frames, f.start <= f.end, ~IsFullRange(f)
    PROVE  f.start + MaxSubregionSize(f) <= WordSize \/ MaxSubregionSize(f) = 4 * Granule
<1> DEFINE start == f.start
           end == f.end
           size == RequestSize(f)
           max == MaxSubregionSize(f)
<1>1. /\ WordSize \in Nat /\ Granule \in Nat \ {0}
      /\ HalfWord \in Nat
  BY Constants DEF HalfWord
<1>2. /\ start \in Nat /\ end \in Nat /\ end < WordSize /\ start <= end
  <2>1. start \in Addresses /\ end \in Addresses /\ start <= end
    BY DEF Frames
  <2> HIDE DEF start, end
  <2> QED
    BY <2>1, Constants DEF Addresses
<1>3. ~(start = 0 /\ end = WordSize - 1)
  BY DEF IsFullRange, LastAddress
<1>4. size = end - start + 1 /\ size \in Nat \ {0}
  <2>1. end - start + 1 \in Addresses /\ end - start + 1 \in Int /\ end - start + 1 > 0
    <3> HIDE DEF start, end
    <3> QED
      BY <1>1, <1>2, <1>3 DEF Addresses
  <2>2. size = end - start + 1
    BY <2>1, WrapAddress DEF RequestSize
  <2> HIDE DEF start, end, size
  <2> QED
    BY <2>1, <2>2 DEF Addresses
<1> HIDE DEF start, end
<1>5. start + size <= WordSize
  BY <1>1, <1>2, <1>4
<1>6. max <= size \/ max = 4 * Granule
  <2>1. CASE size > HalfWord
    <3>1. max = HalfWord
      BY <2>1 DEF MaxSubregionSize
    <3> HIDE DEF size, max
    <3> QED
      BY <1>1, <1>4, <2>1, <3>1
  <2>2. CASE ~(size > HalfWord) /\ size <= 8 * Granule
    BY <2>2 DEF MaxSubregionSize
  <2>3. CASE ~(size > HalfWord) /\ ~(size <= 8 * Granule)
    <3> DEFINE c == CeilingPower(size)
    <3>1. max = c \div 2
      BY <2>3 DEF MaxSubregionSize
    <3> HIDE DEF size, max
    <3>2. size \in 1 .. WordSize
      BY <1>1, <1>2, <1>4, <1>5
    <3>3. c \in PowersOfTwo /\ c < 2 * size
      BY <3>2, CeilingPowerType
    <3>4. c \in Nat
      BY <3>3, Constants
    <3> HIDE DEF c
    <3>5. c \div 2 <= size
      BY <1>4, <3>3, <3>4
    <3> QED
      BY <3>1, <3>5
  <2> QED
    BY <2>1, <2>2, <2>3
<1>7. max \in Nat
  BY MaxSubregionSizeType, Constants
<1> HIDE DEF size, max
<1>8. start + max <= WordSize \/ max = 4 * Granule
  BY <1>1, <1>2, <1>4, <1>5, <1>6, <1>7
<1> QED
  BY <1>8 DEF start, max

LEMMA MaxSubregionRoom ==
    ASSUME NEW f \in Frames, Posed(f), ~IsFullRange(f)
    PROVE  f.start + MaxSubregionSize(f) <= WordSize
<1>1. f.start <= f.end /\ f.start + 4 * Granule <= WordSize
  BY PosedBounds
<1>2. f.start + MaxSubregionSize(f) <= WordSize \/ MaxSubregionSize(f) = 4 * Granule
  BY <1>1, MaxSubregionFits
<1> QED
  BY <1>1, <1>2

------------------------------------------------------------------------------
(***************************************************************************)
(* The inductive invariant                                                 *)
(***************************************************************************)
(* Entry e maps no address outside start .. end, but for the byte of       *)
(* CoverLimit, and its region is large enough to have subregions.          *)
Inside(e, start, end) ==
    /\ RegionBytes(e) \in PowersOfTwo
    /\ 8 * Granule <= RegionBytes(e)
    /\ Mapped(e) \subseteq start .. CoverLimit(end)

(* A candidate is one that was tried.                                      *)
Tried(f, c) ==
    /\ c.sub \in PowersOfTwo /\ Granule <= c.sub /\ f.start + c.sub <= WordSize
    /\ c.base \in {RegionBefore(f, c.sub), RegionAfter(f, c.sub)}
    /\ c.size = ActualSize(f, c.sub, c.base)

(* What has been found once the smallest size is tried, so that what       *)
(* remains on the left stays clear of the top.                             *)
Enough(f) == f.best.size > 0 /\ (f.end = LastAddress => f.best.size >= 4 * Granule)

Loop(f) ==
    /\ ~IsFullRange(f) /\ f.start + (Granule - 1) <= f.end
    /\ f.start + f.sub <= WordSize

(* A region as large as the address space is tried at base 0 only, and a   *)
(* smaller one replaces a larger one.                                      *)
BeforeInv(f) ==
    /\ Loop(f)
    /\ \/ f.best = NoBest
       \/ /\ Tried(f, f.best)
          /\ IF 8 * f.sub >= WordSize THEN f.best.sub = 2 * f.sub
             ELSE 8 * f.best.sub <= WordSize

Candidate(f) ==
    /\ Tried(f, f.best)
    /\ IF 8 * f.sub >= WordSize THEN f.best.sub = f.sub ELSE 8 * f.best.sub <= WordSize

AfterInv(f) ==
    /\ Loop(f)
    /\ Candidate(f)
    /\ RegionBefore(f, f.sub) # f.start
    /\ f.sub = Granule =>
          /\ f.best.size > 0
          /\ (f.end = LastAddress /\ RegionBefore(f, f.sub) + 8 * Granule = WordSize)
                => f.best.size >= 4 * Granule

FullBest == [size |-> 0, sub |-> WordSize \div 8, base |-> 0]

BuildInv(f) ==
    \/ IsFullRange(f) /\ f.best = FullBest
    \/ ~IsFullRange(f) /\ Tried(f, f.best) /\ 8 * f.best.sub <= WordSize /\ Enough(f)

(* The ranges left for the children are well-posed parts of the range.     *)
LeftPart(f) == WellPosed(f.start, f.left - 1) /\ CoverLimit(f.left - 1) <= CoverLimit(f.end)

RightPart(f) == WellPosed(f.right, f.end) /\ f.start <= f.right

RestInv(f) == (NeedsLeft(f) => LeftPart(f)) /\ (NeedsRight(f) => RightPart(f))

EntriesInside(f) == \A i \in DOMAIN f.table : Inside(f.table[i], f.start, f.end)

PointInv(f) ==
    /\ f.pc = "before" => BeforeInv(f)
    /\ f.pc = "after" => AfterInv(f)
    /\ f.pc = "build" => BuildInv(f)
    /\ f.pc \in {"left", "copyLeft", "right", "copyRight"} => RestInv(f)

FrameInv(f) == Posed(f) => EntriesInside(f) /\ PointInv(f)

(* child is the calculator that f waits for.                               *)
Waits(f, child) ==
    \/ /\ f.pc = "copyLeft" /\ NeedsLeft(f)
       /\ child.start = f.start /\ child.end = f.left - 1
    \/ /\ f.pc = "copyRight" /\ NeedsRight(f)
       /\ child.start = f.right /\ child.end = f.end

RangeInv ==
    /\ FrameInv(frame)
    /\ \A i \in DOMAIN callers :
          /\ FrameInv(callers[i])
          /\ i < Len(callers) => Waits(callers[i], callers[i + 1])
          /\ i = Len(callers) => Waits(callers[i], frame)

------------------------------------------------------------------------------
(***************************************************************************)
(* The loop                                                                *)
(***************************************************************************)
(* What is computed from a calculator's range is the same for another one  *)
(* with the same range.                                                    *)
LEMMA SameRange ==
    ASSUME NEW f, NEW g, g.start = f.start, g.end = f.end
    PROVE  /\ Posed(g) = Posed(f)
           /\ IsFullRange(g) = IsFullRange(f)
           /\ \A sub : RegionBefore(g, sub) = RegionBefore(f, sub)
           /\ \A sub : RegionAfter(g, sub) = RegionAfter(f, sub)
           /\ \A sub, base : NumSubregions(g, sub, base) = NumSubregions(f, sub, base)
           /\ \A sub, base : ActualSize(g, sub, base) = ActualSize(f, sub, base)
           /\ \A c : Tried(f, c) => Tried(g, c)
<1>1. Posed(g) = Posed(f) /\ IsFullRange(g) = IsFullRange(f)
  BY DEF Posed, IsFullRange
<1>2. \A sub : RegionBefore(g, sub) = RegionBefore(f, sub)
  BY DEF RegionBefore
<1>3. \A sub : RegionAfter(g, sub) = RegionAfter(f, sub)
  BY DEF RegionAfter
<1>4. \A sub, base : FirstSubregion(g, sub, base) = FirstSubregion(f, sub, base)
  BY DEF FirstSubregion
<1>5. \A sub, base : LastSubregion(g, sub, base) = LastSubregion(f, sub, base)
  BY DEF LastSubregion
<1>6. \A sub, base : NumSubregions(g, sub, base) = NumSubregions(f, sub, base)
  BY <1>4, <1>5 DEF NumSubregions
<1>7. \A sub, base : ActualSize(g, sub, base) = ActualSize(f, sub, base)
  BY <1>6 DEF ActualSize
<1>8. \A c : Tried(f, c) => Tried(g, c)
  BY <1>2, <1>3, <1>7 DEF Tried
<1> QED
  BY <1>1, <1>2, <1>3, <1>6, <1>7, <1>8

(* After a try the best candidate is one whose region fits the address     *)
(* space, or the one just tried.                                           *)
LEMMA BestIsCandidate ==
    ASSUME NEW f \in Frames, Posed(f), Loop(f),
           f.sub \in PowersOfTwo, Granule <= f.sub,
           NEW base \in {RegionBefore(f, f.sub), RegionAfter(f, f.sub)},
           \/ f.best = NoBest
           \/ /\ Tried(f, f.best)
              /\ IF 8 * f.sub >= WordSize THEN f.best.sub \in {f.sub, 2 * f.sub}
                 ELSE 8 * f.best.sub <= WordSize
    PROVE  /\ Tried(f, Better(f, base))
           /\ IF 8 * f.sub >= WordSize THEN Better(f, base).sub = f.sub
              ELSE 8 * Better(f, base).sub <= WordSize
<1> DEFINE sub == f.sub
           new == [size |-> ActualSize(f, sub, base), sub |-> sub, base |-> base]
<1>1. /\ sub \in Nat \ {0} /\ WordSize \in Nat
      /\ f.start + sub <= WordSize /\ ~IsFullRange(f)
  BY Constants DEF Loop
<1>2. CASE ActualSize(f, sub, base) >= f.best.size
  <2>1. Better(f, base) = new
    BY <1>2 DEF Better
  <2>2. Tried(f, new) /\ new.sub = sub
    BY <1>1 DEF Tried
  <2>3. 8 * sub >= WordSize \/ 8 * sub <= WordSize
    BY <1>1
  <2> HIDE DEF new
  <2> QED
    BY <2>1, <2>2, <2>3
<1>3. CASE ~(ActualSize(f, sub, base) >= f.best.size)
  <2>1. Better(f, base) = f.best
    BY <1>3 DEF Better
  <2>2. base \in Addresses /\ (8 * sub >= WordSize => base = 0)
    BY <1>1, Bases
  <2>3. ActualSize(f, sub, base) \in Nat
    <3>1. ActualSize(f, sub, base) \in Addresses
      BY <1>1, <2>2, SelectionTypes
    <3> QED
      BY <3>1 DEF Addresses
  <2>4. f.best # NoBest
    BY <1>3, <2>3 DEF NoBest
  <2>5. ASSUME 8 * sub >= WordSize, f.best.sub = 2 * sub PROVE FALSE
    <3>1. /\ 2 * sub \in PowersOfTwo /\ Granule <= 2 * sub /\ f.start + 2 * sub <= WordSize
          /\ f.best.base \in {RegionBefore(f, 2 * sub), RegionAfter(f, 2 * sub)}
          /\ f.best.size = ActualSize(f, 2 * sub, f.best.base)
      BY <2>4, <2>5 DEF Tried
    <3>2. 8 * (2 * sub) >= WordSize
      BY <1>1, <2>5
    <3>3. f.best.base = 0
      <4> DEFINE two == 2 * sub
      <4>1. /\ two \in PowersOfTwo /\ Granule <= two /\ f.start + two <= WordSize
            /\ f.best.base \in {RegionBefore(f, two), RegionAfter(f, two)}
            /\ 8 * two >= WordSize
        BY <3>1, <3>2
      <4> HIDE DEF two
      <4> QED
        BY <4>1, Bases
    <3>4. ActualSize(f, 2 * sub, 0) <= ActualSize(f, sub, 0)
      BY <1>1, <2>5, <3>1, SmallerCoversMore
    <3> QED
      BY <1>3, <2>2, <2>5, <3>1, <3>3, <3>4
  <2> QED
    BY <2>1, <2>4, <2>5
<1> QED
  BY <1>2, <1>3

(* A loop that ends with a region used as a whole has found enough.        *)
LEMMA WholeRegionEnough ==
    ASSUME NEW f \in Frames, Posed(f), Loop(f),
           f.sub \in PowersOfTwo, Granule <= f.sub,
           NEW base \in {RegionBefore(f, f.sub), RegionAfter(f, f.sub)},
           SubregionsMask(f, f.sub, base) = {}
    PROVE  8 * f.sub <= WordSize /\ Better(f, base).size >= 4 * Granule
<1> DEFINE sub == f.sub
           i == FirstSubregion(f, sub, base)
           k == NumSubregions(f, sub, base)
           size == Better(f, base).size
<1>1. /\ sub \in Nat \ {0} /\ WordSize \in Nat /\ Granule \in Nat
      /\ f.start + sub <= WordSize /\ ~IsFullRange(f) /\ Granule <= sub
  BY Constants DEF Loop
<1>2. base \in Addresses /\ base \in Nat
  BY <1>1, Bases DEF Addresses
<1>3. i = 0 /\ k = 8
  BY <1>2, WholeRegion
<1>4. base + 0 * sub + 8 * sub <= WordSize
  BY <1>1, <1>3, TryBounds DEF Covers
<1>5. ActualSize(f, sub, base) = 8 * sub
  BY <1>1, <1>3, TrySize
<1>6. size >= 8 * sub /\ size \in Nat
  <2>1. size >= ActualSize(f, sub, base)
    BY <1>1, <1>2, BetterCovers
  <2>2. f.best.size \in Nat
    BY DEF Frames, Candidates, Addresses
  <2>3. size \in {f.best.size, ActualSize(f, sub, base)}
    BY DEF Better
  <2> QED
    BY <1>1, <1>5, <2>1, <2>2, <2>3
<1> HIDE DEF sub, size
<1>7. 8 * sub <= WordSize /\ size >= 4 * Granule
  BY <1>1, <1>2, <1>4, <1>6
<1> QED
  BY <1>7 DEF sub, size

(* Leaving a size behind: the next one is half of it, or the loop ends.    *)
LEMMA HalveKeeps ==
    ASSUME NEW f \in Frames, Loop(f), Candidate(f),
           f.sub \in PowersOfTwo, Granule <= f.sub,
           f.sub = Granule => Enough(f)
    PROVE  /\ HalveSize(f).pc \in {"before", "build"}
           /\ HalveSize(f).pc = "before" => BeforeInv(HalveSize(f))
           /\ HalveSize(f).pc = "build" => BuildInv(HalveSize(f))
<1> DEFINE h == HalveSize(f)
           sub == f.sub
           half == sub \div 2
           start == f.start
           eighth == WordSize \div 8
<1>1. /\ sub \in Nat \ {0} /\ sub \in PowersOfTwo /\ sub # 1 /\ WordSize \in Nat
      /\ Granule \in Nat \ {0} /\ Granule \in PowersOfTwo /\ Granule <= sub
      /\ 8 * Granule <= WordSize
  <2>1. Granule \in PowersOfTwo
    BY WordAssumption
  <2>2. sub \in Nat \ {0} /\ sub \in PowersOfTwo /\ Granule <= sub
    BY Constants
  <2> HIDE DEF sub
  <2> QED
    BY <2>1, <2>2, Constants
<1>2. half \in PowersOfTwo /\ sub = 2 * half /\ half \in Nat
  BY <1>1, HalfPower, Constants
<1>3. /\ start \in Nat /\ start + sub <= WordSize
      /\ ~IsFullRange(f) /\ f.start + (Granule - 1) <= f.end
  BY DEF Loop, Frames, Addresses
<1>4. eighth \in PowersOfTwo /\ eighth \in Nat \ {0} /\ WordSize = 8 * eighth
  BY EighthOfWord, Constants
<1>5. /\ h.start = f.start /\ h.end = f.end /\ h.best = f.best /\ h.sub = half
      /\ h.pc = IF half >= Granule THEN "before" ELSE "build"
  BY DEF HalveSize, Frames
<1>6. Tried(h, h.best) /\ ~IsFullRange(h)
  <2>1. Tried(f, f.best)
    BY DEF Candidate
  <2> HIDE DEF h
  <2> QED
    BY <1>3, <1>5, <2>1, SameRange
<1>7. f.best.sub \in Nat
  BY DEF Frames, Candidates, Addresses
<1> HIDE DEF h, half, eighth
<1>8. CASE half >= Granule
  <2>1. Loop(h)
    <3>1. start + half <= WordSize
      <4> HIDE DEF start, sub
      <4> QED
        BY <1>1, <1>2, <1>3
    <3>2. h.start + h.sub <= WordSize
      BY <1>5, <3>1
    <3> QED
      BY <1>3, <1>5, <1>6, <3>2 DEF Loop
  <2>2. IF 8 * half >= WordSize THEN f.best.sub = 2 * half ELSE 8 * f.best.sub <= WordSize
    <3>1. IF 8 * sub >= WordSize THEN f.best.sub = sub ELSE 8 * f.best.sub <= WordSize
      BY DEF Candidate
    <3>2. CASE 8 * half >= WordSize
      <4>1. 8 * sub >= WordSize
        <5> HIDE DEF sub
        <5> QED
          BY <1>1, <1>2, <3>2
      <4> QED
        BY <1>2, <3>1, <3>2, <4>1
    <3>3. CASE ~(8 * half >= WordSize) /\ 8 * sub >= WordSize
      <4>1. sub = eighth
        <5> HIDE DEF sub
        <5>1. eighth <= sub /\ sub < 2 * eighth
          BY <1>1, <1>2, <1>4, <3>3
        <5>2. (sub % eighth) = 0 /\ (eighth % eighth) = 0
          <6>1. (sub % eighth) = 0
            BY <1>1, <1>4, <5>1, PowerDivides
          <6> QED
            BY <1>4, <6>1
        <5>3. ~(eighth < sub)
          <6> SUFFICES ASSUME eighth < sub PROVE FALSE
            OBVIOUS
          <6>1. eighth + eighth <= sub
            BY <1>1, <1>4, <5>2, MultipleGap
          <6> QED
            BY <1>1, <1>4, <5>1, <6>1
        <5> QED
          BY <1>1, <1>4, <5>1, <5>3
      <4>2. f.best.sub = eighth
        BY <3>1, <3>3, <4>1
      <4>3. 8 * f.best.sub <= WordSize
        BY <1>1, <1>4, <4>2
      <4> QED
        BY <3>3, <4>3
    <3>4. CASE ~(8 * half >= WordSize) /\ ~(8 * sub >= WordSize)
      BY <3>1, <3>4
    <3> QED
      BY <3>2, <3>3, <3>4
  <2>3. BeforeInv(h)
    BY <1>5, <1>6, <2>1, <2>2 DEF BeforeInv
  <2> QED
    BY <1>5, <1>8, <2>3 DEF h
<1>9. CASE ~(half >= Granule)
  <2>1. sub = Granule
    <3> HIDE DEF sub
    <3>1. sub < 2 * Granule
      BY <1>1, <1>2, <1>9
    <3>2. (sub % Granule) = 0 /\ (Granule % Granule) = 0
      <4>1. (sub % Granule) = 0
        BY <1>1, PowerDivides
      <4> QED
        BY <1>1, <4>1
    <3>3. ~(Granule < sub)
      <4> SUFFICES ASSUME Granule < sub PROVE FALSE
        OBVIOUS
      <4>1. Granule + Granule <= sub
        BY <1>1, <3>2, MultipleGap
      <4> QED
        BY <1>1, <3>1, <4>1
    <3> QED
      BY <1>1, <3>3
  <2>2. Enough(f)
    BY <2>1
  <2>3. 8 * f.best.sub <= WordSize
    <3>1. IF 8 * sub >= WordSize THEN f.best.sub = sub ELSE 8 * f.best.sub <= WordSize
      BY DEF Candidate
    <3> HIDE DEF sub
    <3> QED
      BY <1>1, <2>1, <3>1
  <2>4. Enough(h)
    BY <1>5, <2>2 DEF Enough
  <2>5. BuildInv(h)
    BY <1>5, <1>6, <2>3, <2>4 DEF BuildInv
  <2> QED
    BY <1>5, <1>9, <2>5 DEF h
<1> QED
  BY <1>8, <1>9

(* Leaving the loop with a region used as a whole.                         *)
LEMMA WholeRegionBuilds ==
    ASSUME NEW f \in Frames, Posed(f), Loop(f),
           f.sub \in PowersOfTwo, Granule <= f.sub,
           NEW base \in {RegionBefore(f, f.sub), RegionAfter(f, f.sub)},
           SubregionsMask(f, f.sub, base) = {},
           NEW g \in Frames, g.end = f.end, g.sub = f.sub, g.best = Better(f, base),
           Loop(g), Candidate(g)
    PROVE  BuildInv(g)
<1> DEFINE size == g.best.size
<1>1. 8 * f.sub <= WordSize /\ size >= 4 * Granule
  BY WholeRegionEnough
<1>2. size \in Nat
  <2>1. g.best \in Candidates
    BY DEF Frames
  <2> QED
    BY <2>1 DEF Candidates, Addresses
<1>3. 8 * g.best.sub <= WordSize
  BY <1>1 DEF Candidate
<1>4. ~IsFullRange(g) /\ Tried(g, g.best)
  BY DEF Loop, Candidate
<1> HIDE DEF size
<1>5. size > 0
  BY <1>1, <1>2, Constants
<1>6. Enough(g)
  BY <1>1, <1>5 DEF Enough, size
<1> QED
  BY <1>3, <1>4, <1>6 DEF BuildInv

(* The try of the region before start.                                     *)
LEMMA BeforeKeeps ==
    ASSUME NEW f \in Frames, Posed(f), BeforeInv(f),
           f.sub \in PowersOfTwo, Granule <= f.sub,
           NEW base, base = RegionBefore(f, f.sub),
           NEW g, g = [f EXCEPT !.best = Better(f, base)], g \in Frames
    PROVE  /\ Loop(g) /\ Candidate(g)
           /\ SubregionsMask(f, f.sub, base) = {} => BuildInv(g)
           /\ base # f.start => AfterInv(g)
           /\ base = f.start /\ g.sub = Granule => Enough(g)
<1>1. /\ g.start = f.start /\ g.end = f.end /\ g.sub = f.sub
      /\ g.best = Better(f, base)
  BY DEF Frames
<1>2. /\ f.sub \in Nat \ {0} /\ Granule \in Nat \ {0} /\ Granule \in PowersOfTwo
      /\ WordSize \in Nat /\ 8 * Granule <= WordSize
      /\ base \in {RegionBefore(f, f.sub), RegionAfter(f, f.sub)}
  BY Constants, WordAssumption
<1>3. Loop(f) /\ ~IsFullRange(f) /\ f.start + (Granule - 1) <= f.end
      /\ f.start + f.sub <= WordSize
  BY DEF BeforeInv, Loop
<1>4. base \in Addresses
  BY <1>2, RegionTypes
<1>5. Loop(g)
  BY <1>1, <1>3, SameRange DEF Loop
<1>6. Candidate(g)
  <2>1. /\ Tried(f, Better(f, base))
        /\ IF 8 * f.sub >= WordSize THEN Better(f, base).sub = f.sub
           ELSE 8 * Better(f, base).sub <= WordSize
    BY <1>2, <1>3, BestIsCandidate DEF BeforeInv
  <2>2. Tried(g, g.best)
    BY <1>1, <2>1, SameRange
  <2> QED
    BY <1>1, <2>1, <2>2 DEF Candidate
<1>7. g.best.size >= ActualSize(f, f.sub, base) /\ g.best.size \in Nat
  <2>1. g.best.size \in Nat
    <3> DEFINE c == g.best
    <3>1. c \in Candidates
      BY DEF Frames
    <3> HIDE DEF c
    <3>2. c.size \in Nat
      BY <3>1 DEF Candidates, Addresses
    <3> QED
      BY <3>2 DEF c
  <2> QED
    BY <1>1, <1>2, <1>4, <2>1, BetterCovers
<1>8. ASSUME SubregionsMask(f, f.sub, base) = {} PROVE BuildInv(g)
  BY <1>1, <1>2, <1>3, <1>5, <1>6, <1>8, WholeRegionBuilds
<1>9. ASSUME f.sub = Granule
      PROVE  /\ g.best.size > 0
             /\ (f.end = LastAddress /\ base + 8 * Granule = WordSize)
                   => g.best.size >= 4 * Granule
             /\ (f.end = LastAddress /\ base = f.start) => g.best.size >= 4 * Granule
  <2> DEFINE size == g.best.size
             actual == ActualSize(f, Granule, base)
  <2>1. base = RegionBefore(f, Granule) /\ f.start + Granule <= WordSize
    BY <1>3, <1>9
  <2>2. actual >= Granule
    BY <1>2, <1>3, <2>1, GranuleTry, TrySize
  <2>3. actual \in Nat
    <3>1. actual \in Addresses
      BY <1>2, <1>4, SelectionTypes
    <3> HIDE DEF actual
    <3> QED
      BY <3>1 DEF Addresses
  <2>4. ASSUME f.end = LastAddress, base + 8 * Granule = WordSize
        PROVE  actual >= 4 * Granule
    BY <1>3, <2>1, <2>4, LastRegionTry
  <2>5. ASSUME f.end = LastAddress, base = f.start
        PROVE  actual >= 4 * Granule
    <3>1. f.start <= base
      BY <2>5 DEF Frames, Addresses
    <3> QED
      BY <1>3, <2>1, <2>5, <3>1, WholeToTop
  <2>6. size >= actual /\ size \in Nat
    BY <1>7, <1>9
  <2> HIDE DEF size, actual
  <2>7. size > 0 /\ (actual >= 4 * Granule => size >= 4 * Granule)
    BY <1>2, <2>2, <2>3, <2>6
  <2> QED
    BY <2>4, <2>5, <2>7 DEF size
<1>10. ASSUME base # f.start PROVE AfterInv(g)
  <2>1. RegionBefore(g, g.sub) = base
    <3>1. \A sub : RegionBefore(g, sub) = RegionBefore(f, sub)
      BY <1>1, SameRange
    <3> QED
      BY <1>1, <3>1
  <2> QED
    BY <1>1, <1>5, <1>6, <1>9, <1>10, <2>1 DEF AfterInv
<1>11. ASSUME base = f.start, g.sub = Granule PROVE Enough(g)
  BY <1>1, <1>9, <1>11 DEF Enough
<1> QED
  BY <1>5, <1>6, <1>8, <1>10, <1>11

(* The try of the region after start.                                      *)
LEMMA AfterKeeps ==
    ASSUME NEW f \in Frames, Posed(f), AfterInv(f),
           f.sub \in PowersOfTwo, Granule <= f.sub,
           NEW base, base = RegionAfter(f, f.sub),
           NEW g, g = [f EXCEPT !.best = Better(f, base)], g \in Frames
    PROVE  /\ Loop(g) /\ Candidate(g)
           /\ SubregionsMask(f, f.sub, base) = {} => BuildInv(g)
           /\ g.sub = Granule => Enough(g)
<1>1. /\ g.start = f.start /\ g.end = f.end /\ g.sub = f.sub
      /\ g.best = Better(f, base)
  BY DEF Frames
<1>2. /\ f.sub \in Nat \ {0} /\ Granule \in Nat \ {0} /\ Granule \in PowersOfTwo
      /\ WordSize \in Nat /\ 8 * Granule <= WordSize
      /\ base \in {RegionBefore(f, f.sub), RegionAfter(f, f.sub)}
  BY Constants, WordAssumption
<1>3. Loop(f) /\ ~IsFullRange(f) /\ f.start + f.sub <= WordSize
  BY DEF AfterInv, Loop
<1>4. base \in Addresses
  BY <1>2, RegionTypes
<1>5. Loop(g)
  BY <1>1, <1>3, SameRange DEF Loop
<1>6. Candidate(g)
  <2>1. Tried(f, f.best)
        /\ IF 8 * f.sub >= WordSize THEN f.best.sub \in {f.sub, 2 * f.sub}
           ELSE 8 * f.best.sub <= WordSize
    BY DEF AfterInv, Candidate
  <2>2. /\ Tried(f, Better(f, base))
        /\ IF 8 * f.sub >= WordSize THEN Better(f, base).sub = f.sub
           ELSE 8 * Better(f, base).sub <= WordSize
    BY <1>2, <1>3, <2>1, BestIsCandidate
  <2>3. Tried(g, g.best)
    BY <1>1, <2>2, SameRange
  <2> QED
    BY <1>1, <2>2, <2>3 DEF Candidate
<1>7. ASSUME SubregionsMask(f, f.sub, base) = {} PROVE BuildInv(g)
  BY <1>1, <1>2, <1>3, <1>5, <1>6, <1>7, WholeRegionBuilds
<1>8. ASSUME f.sub = Granule PROVE Enough(g)
  <2> DEFINE size == g.best.size
             old == f.best.size
             actual == ActualSize(f, Granule, base)
             before == RegionBefore(f, Granule)
             start == f.start
  <2>1. size >= old /\ size >= actual
    BY <1>1, <1>2, <1>4, <1>8, BetterCovers
  <2>2. size \in Nat /\ old \in Nat /\ start \in Nat
    <3>1. g.best \in Candidates /\ f.best \in Candidates /\ start \in Addresses
      BY DEF Frames
    <3> HIDE DEF start
    <3> QED
      BY <3>1 DEF Candidates, Addresses
  <2>3. actual \in Nat
    <3>1. actual \in Addresses
      BY <1>2, <1>4, SelectionTypes
    <3> HIDE DEF actual
    <3> QED
      BY <3>1 DEF Addresses
  <2>4. /\ old > 0 /\ before # start
        /\ (f.end = LastAddress /\ before + 8 * Granule = WordSize) => old >= 4 * Granule
    BY <1>8 DEF AfterInv
  <2>5. ASSUME f.end = LastAddress, before + 8 * Granule # WordSize
        PROVE  actual >= 4 * Granule
    <3>1. /\ before \in Nat /\ before <= start /\ start < before + 8 * Granule
          /\ before + 8 * Granule <= WordSize
      BY <1>2, BeforeAround
    <3>2. 8 * Granule < WordSize
      <4> HIDE DEF before, start
      <4> QED
        BY <1>2, <2>5, <3>1
    <3>3. base = before + 8 * Granule
      BY <1>2, <1>8, <2>4, <2>5, <3>2, After
    <3>4. f.start <= base
      <4> HIDE DEF before, start
      <4>1. start <= base
        BY <1>2, <2>2, <3>1, <3>3
      <4> QED
        BY <4>1 DEF start
    <3> QED
      BY <1>3, <1>8, <2>5, <3>4, WholeToTop
  <2> HIDE DEF size, old, actual, before
  <2>6. size > 0 /\ (f.end = LastAddress => size >= 4 * Granule)
    <3>1. size > 0
      BY <2>1, <2>2, <2>4
    <3>2. ASSUME f.end = LastAddress PROVE size >= 4 * Granule
      <4>1. old >= 4 * Granule \/ actual >= 4 * Granule
        BY <2>4, <2>5, <3>2
      <4> QED
        BY <1>2, <2>1, <2>2, <2>3, <4>1
    <3> QED
      BY <3>1, <3>2
  <2> QED
    BY <1>1, <2>6 DEF Enough, size
<1> QED
  BY <1>1, <1>5, <1>6, <1>7, <1>8

------------------------------------------------------------------------------
(***************************************************************************)
(* The entry that is built, and what it leaves over                        *)
(***************************************************************************)
(* The region and the subregions of an entry built from a candidate.       *)
LEMMA BestEntryRegion ==
    ASSUME NEW f \in Frames, f.best.sub \in PowersOfTwo, 8 * f.best.sub <= WordSize,
           f.best.base \in Addresses, (f.best.base % (8 * f.best.sub)) = 0
    PROVE  /\ RegionBytes(BestEntry(f)) = 8 * f.best.sub
           /\ RegionBase(BestEntry(f)) = f.best.base
           /\ SubregionBytes(BestEntry(f)) = f.best.sub
<1> DEFINE sub == f.best.sub
           base == f.best.base
           e == BestEntry(f)
           size == 8 * sub
<1>1. sub \in Nat \ {0} /\ size \in Nat \ {0} /\ WordSize \in Nat \ {0}
  BY Constants
<1>2. e.base = base /\ e.size = RegionSize(sub)
  BY DEF BestEntry
<1>3. RegionBytes(e) = size
  <2>1. CASE size < WordSize
    <3>1. e.size = size
      BY <1>2, <2>1, RegionSizes
    <3> HIDE DEF e, size
    <3>2. e.size # 0
      BY <1>1, <3>1
    <3> QED
      BY <3>1, <3>2 DEF RegionBytes
  <2>2. CASE size = WordSize
    <3>1. 8 * sub >= WordSize
      BY <1>1, <2>2
    <3>2. e.size = 0
      BY <1>2, <3>1, RegionSizes
    <3> QED
      BY <2>2, <3>2 DEF RegionBytes
  <2> QED
    BY <1>1, <2>1, <2>2
<1>4. base \in Nat /\ (base % size) = 0
  BY DEF Addresses
<1> HIDE DEF e, base
<1>5. RegionBase(e) = base
  <2> HIDE DEF size
  <2>1. AlignDown(base, size) = base - 0
    BY <1>1, <1>4 DEF AlignDown
  <2> QED
    BY <1>2, <1>3, <1>4, <2>1 DEF RegionBase
<1>6. SubregionBytes(e) = sub
  <2> HIDE DEF sub
  <2>1. (8 * sub) \div 8 = sub
    BY <1>1
  <2> QED
    BY <1>3, <2>1 DEF SubregionBytes
<1> QED
  BY <1>3, <1>5, <1>6 DEF e, base

(* The special case of the whole address space.                            *)
LEMMA FullRangeBuild ==
    ASSUME NEW f \in Frames, IsFullRange(f), f.best = FullBest
    PROVE  /\ Inside(BestEntry(f), f.start, f.end)
           /\ FirstAddr(f, f.best.sub, f.best.base) = 0
           /\ NextAddr(f) = f.end
<1> DEFINE sub == WordSize \div 8
           e == BestEntry(f)
<1>1. f.best.sub = sub /\ f.best.base = 0 /\ f.start = 0 /\ f.end = WordSize - 1
  BY DEF FullBest, IsFullRange, LastAddress
<1>2. sub \in PowersOfTwo /\ sub \in Nat \ {0} /\ WordSize = 8 * sub /\ Granule <= sub
  BY EighthOfWord, Constants
<1>3. WordSize \in Nat \ {0} /\ Granule \in Nat /\ Granule >= 2 /\ WordSize \in PowersOfTwo
      /\ 8 * Granule <= WordSize
  BY Constants, WordAssumption
<1> HIDE DEF sub
<1>4. 0 \in Addresses /\ (0 % (8 * sub)) = 0 /\ 8 * sub <= WordSize
  BY <1>2, <1>3 DEF Addresses
<1>5. RegionBytes(e) = WordSize /\ RegionBase(e) = 0 /\ SubregionBytes(e) = sub
  BY <1>1, <1>2, <1>4, BestEntryRegion
<1>6. Mapped(e) \subseteq 0 + 0 * sub .. 0 + 0 * sub + 8 * sub - 1
  <2> DEFINE b == 0
             i == 0
             k == 8
  <2>1. Subregions \ e.srd \subseteq i .. i + k - 1 /\ b \in Nat /\ i \in Nat /\ k \in Nat
    BY DEF Subregions
  <2>2. RegionBase(e) = b
    BY <1>5
  <2> HIDE DEF e, b, i, k
  <2>3. Mapped(e) \subseteq b + i * sub .. b + i * sub + k * sub - 1
    BY <1>2, <1>5, <2>1, <2>2, MappedBounds
  <2> QED
    BY <2>3 DEF b, i, k
<1>7. CoverLimit(f.end) = f.end
  <2>1. WordSize - 1 + 2 = WordSize + 1 /\ WordSize + 1 \in Nat
    BY <1>3
  <2>2. (WordSize % Granule) = 0
    BY WordAssumption
  <2>3. ((WordSize + 1) % Granule) # 0
    <3> SUFFICES ASSUME ((WordSize + 1) % Granule) = 0 PROVE FALSE
      OBVIOUS
    <3> DEFINE next == WordSize + 1
    <3>1. next \in Nat /\ (next % Granule) = 0 /\ WordSize < next
      BY <1>3
    <3> HIDE DEF next
    <3>2. WordSize + Granule <= next
      BY <1>3, <2>2, <3>1, Constants, MultipleGap
    <3> QED
      BY <1>3, <3>2 DEF next
  <2> QED
    BY <1>1, <2>1, <2>3 DEF CoverLimit
<1>8. Inside(e, f.start, f.end)
  <2>1. 0 + 0 * sub = 0 /\ 0 + 0 * sub + 8 * sub - 1 = WordSize - 1
    BY <1>2
  <2>2. Mapped(e) \subseteq f.start .. CoverLimit(f.end)
    BY <1>1, <1>6, <1>7, <2>1
  <2> QED
    BY <1>3, <1>5, <2>2 DEF Inside
<1>9. FirstAddr(f, sub, 0) = 0
  <2>1. FirstSubregion(f, sub, 0) = 0
    BY <1>1 DEF FirstSubregion
  <2>2. 0 + 0 * sub = 0 /\ 0 \in Int
    BY <1>2
  <2> QED
    BY <1>4, <2>1, <2>2, WrapAddress DEF FirstAddr
<1> QED
  BY <1>1, <1>8, <1>9 DEF NextAddr

(* The entry selected for a part of the address space maps first .. next - 1, *)
(* whole granules of the range, or the last granule but its last byte.     *)
LEMMA SelectedBuild ==
    ASSUME NEW f \in Frames, Posed(f), ~IsFullRange(f), Tried(f, f.best),
           8 * f.best.sub <= WordSize, Enough(f)
    PROVE  \E first, next \in Nat :
              /\ first = FirstAddr(f, f.best.sub, f.best.base)
              /\ NextAddr(f) = IF next = WordSize THEN 0 ELSE next
              /\ f.start <= first /\ first + 2 <= next
              /\ next <= WordSize /\ next <= f.end + 2
              /\ (first % Granule) = 0 /\ (next % Granule) = 0
              /\ f.end = LastAddress => /\ first + 4 * Granule <= WordSize
                                        /\ next = WordSize \/ next + 4 * Granule <= WordSize
              /\ Mapped(BestEntry(f)) \subseteq first .. next - 1
              /\ RegionBytes(BestEntry(f)) \in PowersOfTwo
              /\ 8 * Granule <= RegionBytes(BestEntry(f))
<1> DEFINE sub == f.best.sub
           base == f.best.base
           i == FirstSubregion(f, sub, base)
           k == NumSubregions(f, sub, base)
           a == i * sub
           b == k * sub
           first == base + a
           next == base + a + b
           start == f.start
           end == f.end
           e == BestEntry(f)
<1>1. /\ sub \in Nat \ {0} /\ sub \in PowersOfTwo /\ Granule <= sub /\ 8 * sub <= WordSize
      /\ Granule \in Nat \ {0} /\ Granule >= 2 /\ WordSize \in Nat
      /\ Granule \in PowersOfTwo /\ WordSize \in PowersOfTwo
  <2>1. sub \in PowersOfTwo /\ Granule <= sub /\ 8 * sub <= WordSize
    BY DEF Tried
  <2> HIDE DEF sub
  <2> QED
    BY <2>1, Constants, WordAssumption
<1>2. /\ base \in {RegionBefore(f, sub), RegionAfter(f, sub)}
      /\ f.start + sub <= WordSize
      /\ f.best.size = ActualSize(f, sub, base)
  BY DEF Tried
<1>3. /\ start \in Nat /\ end \in Nat /\ end < WordSize /\ (start % Granule) = 0
  BY PosedBounds
<1>4. base \in Addresses /\ (base % (8 * sub)) = 0 /\ (base % Granule) = 0
  BY <1>1, <1>2, Bases
<1>5. base \in Nat /\ k \in Nat
  <2>1. k \in 0 .. 8
    BY <1>1, <1>4, SelectionTypes
  <2> HIDE DEF k, base
  <2> QED
    BY <1>4, <2>1 DEF Addresses
<1>6. k > 0
  <2> SUFFICES ASSUME k = 0 PROVE FALSE
    BY <1>5
  <2>1. f.best.size = 0
    BY <1>1, <1>2, NoneCovered
  <2> QED
    BY <2>1 DEF Enough
<1>7. Covers(f, sub, base, i, k)
  BY <1>1, <1>2, <1>6, TryBounds
<1>8. f.best.size = b /\ FirstAddr(f, sub, base) = first /\ ActualSize(f, sub, base) = b
  BY <1>1, <1>2, <1>6, TrySize
<1>9. /\ i \in Nat /\ k \in Nat \ {0} /\ i + k <= 8
      /\ start <= base + i * sub
      /\ base + i * sub + k * sub <= end + 2
      /\ base + i * sub + k * sub <= WordSize
      /\ i + k = 8 \/ base + i * sub + k * sub + sub > end + 2
  BY <1>7 DEF Covers
<1>10. RegionBytes(e) = 8 * sub /\ RegionBase(e) = base /\ SubregionBytes(e) = sub
  BY <1>1, <1>4, BestEntryRegion
<1>11. Subregions \ e.srd \subseteq i .. i + k - 1
  BY DEF BestEntry, SubregionsMask
<1>12. end = WordSize - 1 => b >= 4 * Granule
  BY <1>8 DEF Enough, LastAddress
<1>13. NextAddr(f) = Wrap(FirstAddr(f, sub, base) + ActualSize(f, sub, base))
  BY DEF NextAddr
<1> HIDE DEF sub, base, i, k, start, end, e
<1>14. Mapped(e) \subseteq first .. next - 1
  <2>1. sub \in Nat \ {0} /\ base \in Nat /\ i \in Nat /\ k \in Nat
    BY <1>1, <1>5, <1>9
  <2>2. RegionBase(e) = base /\ SubregionBytes(e) = sub
    BY <1>10
  <2>3. Mapped(e) \subseteq base + i * sub .. base + i * sub + k * sub - 1
    BY <1>11, <2>1, <2>2, MappedBounds
  <2>4. /\ i * sub \in Nat /\ k * sub \in Nat
        /\ first = base + i * sub /\ next = base + i * sub + k * sub
    BY <2>1
  <2> DEFINE x == i * sub
             y == k * sub
  <2>5. /\ base \in Nat /\ x \in Nat /\ y \in Nat
        /\ first = base + x /\ next = base + x + y
        /\ Mapped(e) \subseteq base + x .. base + x + y - 1
    BY <2>1, <2>3, <2>4
  <2> HIDE DEF a, b, x, y, first, next
  <2> QED
    BY <2>5
<1>15. RegionBytes(e) \in PowersOfTwo /\ 8 * Granule <= RegionBytes(e)
  BY <1>1, <1>10, EightFold
<1>16. a \in Nat /\ b \in Nat /\ b >= sub
  <2>1. 1 * sub <= k * sub
    BY <1>1, <1>9, ProductMonotonic
  <2> QED
    BY <1>1, <1>9, <2>1
<1>17. (a % sub) = 0 /\ (b % sub) = 0 /\ (base % sub) = 0
  <2>1. (sub % sub) = 0
    BY <1>1
  <2>2. PICK q \in Nat : base = (8 * sub) * q
    <3> DEFINE size == 8 * sub
    <3>1. size \in Nat \ {0} /\ (base % size) = 0
      BY <1>1, <1>4
    <3> HIDE DEF size
    <3>2. base \div size \in Nat /\ base = size * (base \div size)
      BY <1>5, <3>1, ExactQuotient
    <3> QED
      BY <3>2 DEF size
  <2>3. base = (8 * q) * sub /\ 8 * q \in Nat
    BY <1>1, <2>2
  <2>4. (((8 * q) * sub) % sub) = 0
    <3> DEFINE m == 8 * q
    <3>1. m \in Nat
      BY <2>3
    <3> HIDE DEF m
    <3>2. ((m * sub) % sub) = 0
      BY <1>1, <2>1, <3>1, MultipleProduct
    <3> QED
      BY <3>2 DEF m
  <2>5. (a % sub) = 0 /\ (b % sub) = 0
    BY <1>1, <1>9, <2>1, MultipleProduct
  <2> QED
    BY <2>3, <2>4, <2>5
<1>18. (a % Granule) = 0 /\ (b % Granule) = 0
  <2>1. (sub % Granule) = 0
    BY <1>1, PowerDivides
  <2> QED
    BY <1>1, <1>9, <2>1, MultipleProduct
<1>19. i + k = 8 => a + b = 8 * sub
  <2>1. (i + k) * sub = a + b
    BY <1>1, <1>9
  <2> QED
    BY <2>1
<1> HIDE DEF a, b
<1>20. first \in Nat /\ next \in Nat /\ next = first + b
  BY <1>5, <1>16
<1>21. (first % Granule) = 0 /\ (next % Granule) = 0
  <2>1. ((base + a) % Granule) = 0
    BY <1>1, <1>4, <1>5, <1>16, <1>18, MultipleSum
  <2>2. first \in Nat /\ (first % Granule) = 0
    BY <1>20, <2>1
  <2> HIDE DEF first
  <2>3. ((first + b) % Granule) = 0
    BY <1>1, <1>16, <1>18, <2>2, MultipleSum
  <2>4. next = first + b
    BY <1>20
  <2> HIDE DEF next
  <2> QED
    BY <2>2, <2>3, <2>4
<1>22. start <= first /\ next <= WordSize /\ next <= end + 2
  BY <1>9 DEF a, b
<1>23. (next % sub) = 0
  <2>1. ((base + a) % sub) = 0
    BY <1>1, <1>5, <1>16, <1>17, MultipleSum
  <2>2. first \in Nat /\ (first % sub) = 0
    BY <1>20, <2>1
  <2> HIDE DEF first
  <2>3. ((first + b) % sub) = 0
    BY <1>1, <1>16, <1>17, <2>2, MultipleSum
  <2>4. next = first + b
    BY <1>20
  <2> HIDE DEF next
  <2> QED
    BY <2>3, <2>4
<1>24. ASSUME end = WordSize - 1, next < WordSize
       PROVE  next + 4 * Granule <= WordSize
  <2>1. CASE i + k = 8
    <3> DEFINE size == 8 * sub
    <3>1. size \in Nat \ {0} /\ (size % size) = 0 /\ (base % size) = 0
      BY <1>1, <1>4
    <3>2. next = base + size
      BY <1>5, <1>16, <1>19, <2>1
    <3>3. size \in PowersOfTwo /\ size <= WordSize
      BY <1>1, EightFold
    <3> HIDE DEF size
    <3>4. ((base + size) % size) = 0
      BY <1>5, <3>1, MultipleSum
    <3>5. next \in Nat /\ (next % size) = 0 /\ next < WordSize
      BY <1>20, <1>24, <3>2, <3>4
    <3> HIDE DEF next
    <3>6. next + size <= WordSize
      BY <3>3, <3>5, GapToTop
    <3> QED
      BY <1>1, <3>5, <3>6 DEF size
  <2>2. CASE base + a + b + sub > end + 2
    <3>1. next \in Nat /\ next < WordSize /\ next + sub > end + 2
      BY <1>20, <1>24, <2>2
    <3> HIDE DEF next
    <3>2. sub <= WordSize
      BY <1>1
    <3>3. next + sub <= WordSize
      BY <1>1, <1>23, <3>1, <3>2, GapToTop
    <3> QED
      BY <1>1, <1>24, <3>1, <3>3
  <2> QED
    BY <1>9, <2>1, <2>2 DEF a, b
<1>25. NextAddr(f) = IF next = WordSize THEN 0 ELSE next
  <2>1. NextAddr(f) = Wrap(next)
    BY <1>8, <1>13, <1>20
  <2> HIDE DEF next
  <2>2. CASE next = WordSize
    BY <1>1, <2>1, <2>2, Constants DEF Wrap
  <2>3. CASE next # WordSize
    <3>1. next \in Addresses /\ next \in Int
      BY <1>1, <1>20, <1>22, <2>3 DEF Addresses
    <3> QED
      BY <2>1, <2>3, <3>1, WrapAddress
  <2> QED
    BY <2>2, <2>3
<1> HIDE DEF first, next
<1>26. first + 2 <= next
  BY <1>1, <1>16, <1>20
<1>27. ASSUME end = WordSize - 1
       PROVE  first + 4 * Granule <= WordSize /\ (next = WordSize \/ next + 4 * Granule <= WordSize)
  <2>1. first + 4 * Granule <= WordSize
    BY <1>1, <1>12, <1>16, <1>20, <1>22, <1>27
  <2>2. next = WordSize \/ next < WordSize
    BY <1>1, <1>20, <1>22
  <2> QED
    BY <1>24, <1>27, <2>1, <2>2
<1>28. first = FirstAddr(f, f.best.sub, f.best.base)
  BY <1>8 DEF sub, base
<1>29. f.start <= first /\ next <= f.end + 2
  BY <1>22 DEF start, end
<1>30. f.end = LastAddress => /\ first + 4 * Granule <= WordSize
                              /\ next = WordSize \/ next + 4 * Granule <= WordSize
  BY <1>27 DEF end, LastAddress
<1>31. /\ Mapped(BestEntry(f)) \subseteq first .. next - 1
       /\ RegionBytes(BestEntry(f)) \in PowersOfTwo
       /\ 8 * Granule <= RegionBytes(BestEntry(f))
  BY <1>14, <1>15 DEF e
<1> QED
  BY <1>20, <1>21, <1>22, <1>25, <1>26, <1>28, <1>29, <1>30, <1>31

(* CoverLimit is at most one above the end, and covers whole granules.     *)
LEMMA CoverLimits ==
    ASSUME NEW end \in Nat, NEW z \in Nat, (z % Granule) = 0
    PROVE  /\ CoverLimit(end) \in Nat /\ end <= CoverLimit(end)
           /\ z <= end + 2 => z - 1 <= CoverLimit(end)
           /\ z >= 2 => CoverLimit(z - 1) = z - 1
<1>1. Granule \in Nat \ {0} /\ Granule >= 2
  BY Constants
<1>2. CoverLimit(end) = IF ((end + 2) % Granule) = 0 THEN end + 1 ELSE end
  BY DEF CoverLimit
<1>3. ASSUME z <= end + 2 PROVE z - 1 <= CoverLimit(end)
  <2>1. CASE z = end + 2
    <3>1. ((end + 2) % Granule) = 0
      BY <2>1
    <3>2. CoverLimit(end) = end + 1
      BY <1>2, <3>1
    <3> QED
      BY <2>1, <3>2
  <2>2. CASE z # end + 2
    <3>1. z - 1 <= end
      BY <1>3, <2>2
    <3>2. CoverLimit(end) = end + 1 \/ CoverLimit(end) = end
      BY <1>2
    <3> QED
      BY <3>1, <3>2
  <2> QED
    BY <2>1, <2>2
<1>4. ASSUME z >= 2 PROVE CoverLimit(z - 1) = z - 1
  <2> DEFINE y == z + 1
  <2>1. y \in Nat /\ z < y /\ y < z + Granule
    BY <1>1
  <2> HIDE DEF y
  <2>2. (y % Granule) # 0
    <3> SUFFICES ASSUME (y % Granule) = 0 PROVE FALSE
      OBVIOUS
    <3>1. z + Granule <= y
      BY <1>1, <2>1, MultipleGap
    <3> QED
      BY <1>1, <2>1, <3>1
  <2>3. z - 1 + 2 = y
    BY DEF y
  <2> QED
    BY <2>2, <2>3 DEF CoverLimit
<1>5. CoverLimit(end) \in Nat /\ end <= CoverLimit(end)
  <2>1. CoverLimit(end) = end + 1 \/ CoverLimit(end) = end
    BY <1>2
  <2> QED
    BY <2>1
<1> QED
  BY <1>3, <1>4, <1>5

LEMMA BuildKeeps ==
    ASSUME NEW f \in Frames, Posed(f), BuildInv(f),
           NEW g, g.start = f.start, g.end = f.end,
           g.left = FirstAddr(f, f.best.sub, f.best.base), g.right = NextAddr(f)
    PROVE  Inside(BestEntry(f), f.start, f.end) /\ RestInv(g)
<1> DEFINE start == f.start
           end == f.end
           e == BestEntry(f)
<1>1. /\ start \in Nat /\ end \in Nat /\ end < WordSize /\ start <= end
      /\ (start % Granule) = 0
      /\ end + 4 * Granule <= WordSize \/ end = LastAddress
  BY PosedBounds
<1>2. Granule \in Nat \ {0} /\ Granule >= 2 /\ WordSize \in Nat
  BY Constants
<1>3. CASE IsFullRange(f) /\ f.best = FullBest
  <2>1. /\ Inside(e, f.start, f.end) /\ FirstAddr(f, f.best.sub, f.best.base) = 0
        /\ NextAddr(f) = f.end
    BY <1>3, FullRangeBuild
  <2>2. g.left = 0 /\ g.right = end /\ g.start = start /\ g.end = end
    BY <2>1
  <2> HIDE DEF start, end
  <2>3. ~NeedsLeft(g) /\ ~NeedsRight(g)
    BY <1>1, <2>2 DEF NeedsLeft, NeedsRight
  <2> QED
    BY <2>1, <2>3 DEF RestInv
<1>4. CASE ~IsFullRange(f) /\ Tried(f, f.best) /\ 8 * f.best.sub <= WordSize /\ Enough(f)
  <2>1. PICK first \in Nat, next \in Nat :
          /\ first = FirstAddr(f, f.best.sub, f.best.base)
          /\ NextAddr(f) = IF next = WordSize THEN 0 ELSE next
          /\ f.start <= first /\ first + 2 <= next
          /\ next <= WordSize /\ next <= f.end + 2
          /\ (first % Granule) = 0 /\ (next % Granule) = 0
          /\ f.end = LastAddress => /\ first + 4 * Granule <= WordSize
                                    /\ next = WordSize \/ next + 4 * Granule <= WordSize
          /\ Mapped(BestEntry(f)) \subseteq first .. next - 1
          /\ RegionBytes(BestEntry(f)) \in PowersOfTwo
          /\ 8 * Granule <= RegionBytes(BestEntry(f))
    BY <1>4, SelectedBuild
  <2>2. /\ g.left = first /\ g.right = IF next = WordSize THEN 0 ELSE next
        /\ g.start = start /\ g.end = end
    BY <2>1
  <2>3. /\ start <= first /\ next <= end + 2
        /\ end = LastAddress => /\ first + 4 * Granule <= WordSize
                                /\ next = WordSize \/ next + 4 * Granule <= WordSize
    BY <2>1
  <2>4. /\ CoverLimit(end) \in Nat /\ end <= CoverLimit(end)
        /\ next - 1 <= CoverLimit(end)
    BY <1>1, <2>1, <2>3, CoverLimits
  <2>5. Inside(e, f.start, f.end)
    <3>1. Mapped(e) \subseteq start .. CoverLimit(end)
      <4>1. Mapped(e) \subseteq first .. next - 1
        BY <2>1
      <4> HIDE DEF e, start, end
      <4> QED
        BY <1>1, <2>3, <2>4, <4>1
    <3> QED
      BY <2>1, <3>1 DEF Inside
  <2>6. first <= end
    <3> HIDE DEF start, end
    <3> QED
      BY <1>1, <1>2, <2>1, <2>3 DEF LastAddress
  <2>7. ASSUME first > start PROVE LeftPart(g)
    <3> HIDE DEF start, end
    <3>1. start <= first - 1 /\ first \in Nat \ {0}
      BY <1>1, <2>7
    <3>2. first >= 2
      <4> SUFFICES ASSUME first = 1 PROVE FALSE
        BY <3>1
      <4>1. (first % Granule) = 1
        BY <1>2
      <4> QED
        BY <2>1, <4>1
    <3>3. first - 1 + 4 * Granule <= WordSize
      BY <1>1, <1>2, <2>3, <2>6
    <3>4. CoverLimit(first - 1) = first - 1 /\ first - 1 <= CoverLimit(end)
      <4>1. CoverLimit(first - 1) = first - 1
        BY <1>1, <2>1, <3>2, CoverLimits
      <4> QED
        BY <1>1, <2>4, <2>6, <4>1
    <3>5. WellPosed(start, first - 1)
      BY <1>1, <3>1, <3>3 DEF WellPosed, ClearOfTop
    <3> QED
      BY <2>2, <3>4, <3>5 DEF LeftPart
  <2>8. ASSUME g.right < end, g.right # 0 PROVE RightPart(g)
    <3> HIDE DEF start, end
    <3>1. next # WordSize /\ g.right = next
      BY <2>2, <2>8
    <3>2. next <= end /\ start <= next
      BY <1>1, <2>1, <2>3, <2>8, <3>1
    <3>3. ClearOfTop(next, end)
      <4>1. CASE end = LastAddress
        BY <2>3, <3>1, <3>2, <4>1 DEF ClearOfTop
      <4>2. CASE end # LastAddress
        BY <1>1, <3>2, <4>2 DEF ClearOfTop
      <4> QED
        BY <4>1, <4>2
    <3>4. WellPosed(next, end)
      BY <2>1, <3>3 DEF WellPosed
    <3> QED
      BY <2>2, <3>1, <3>2, <3>4 DEF RightPart
  <2> QED
    BY <2>2, <2>5, <2>7, <2>8 DEF RestInv, NeedsLeft, NeedsRight
<1> QED
  BY <1>3, <1>4 DEF BuildInv

------------------------------------------------------------------------------
(***************************************************************************)
(* Copying a child's entries                                               *)
(***************************************************************************)
(* The granule bit of an address is below the bits a region's base is made *)
(* of: the hardware ignores what an unmasked region number sets there.     *)
LEMMA GranuleBitIgnored ==
    ASSUME NEW a \in Nat, NEW size \in PowersOfTwo, 8 * Granule <= size
    PROVE  AlignDown(SetGranuleBit(a), size) = AlignDown(a, size)
<1> DEFINE q == a \div Granule
           r == a % Granule
           h == q \div 2
           pair == 2 * Granule
           m == size \div pair
           u == h % m
           t == h \div m
           c == size * t
<1>1. Granule \in Nat \ {0} /\ size \in Nat \ {0} /\ Granule \in PowersOfTwo
      /\ pair \in Nat \ {0}
  BY Constants, WordAssumption
<1>2. CASE ~((q % 2) = 0)
  BY <1>2 DEF SetGranuleBit
<1>3. CASE (q % 2) = 0
  <2>1. q \in Nat /\ r \in Nat /\ r < Granule /\ a = Granule * q + r
    BY <1>1, DivMod, DivNat
  <2>2. h \in Nat /\ q = 2 * h
    <3> HIDE DEF q
    <3> QED
      BY <1>3, <2>1
  <2>3. SetGranuleBit(a) = a + Granule
    BY <1>3 DEF SetGranuleBit
  <2>4. m \in Nat \ {0} /\ size = pair * m
    <3>1. pair \in PowersOfTwo
      <4>1. 2 * Granule <= WordSize
        BY <1>1, Constants
      <4> QED
        BY <1>1, <4>1, DoublePower
    <3>2. (size % pair) = 0
      <4>1. pair <= size
        BY <1>1
      <4> HIDE DEF pair
      <4> QED
        BY <3>1, <4>1, PowerDivides
    <3> HIDE DEF pair
    <3>3. size \div pair \in Nat /\ size = pair * (size \div pair)
      BY <1>1, <3>2, ExactQuotient
    <3>4. m # 0
      <4> SUFFICES ASSUME m = 0 PROVE FALSE
        OBVIOUS
      <4>1. pair * 0 = 0
        BY <1>1
      <4> QED
        BY <1>1, <3>3, <4>1
    <3> QED
      BY <3>3, <3>4
  <2> HIDE DEF q, r, h, m
  <2>5. u \in Nat /\ u < m /\ h = m * t + u /\ t \in Nat
    BY <2>2, <2>4, DivMod, DivNat
  <2> HIDE DEF u, t
  <2>6. pair * u + pair <= size /\ pair * u \in Nat
    <3>1. (u + 1) * pair <= m * pair
      BY <1>1, <2>4, <2>5, ProductMonotonic
    <3>2. (u + 1) * pair = pair * u + pair /\ m * pair = pair * m
      BY <1>1, <2>4, <2>5
    <3> QED
      BY <1>1, <2>4, <2>5, <3>1, <3>2
  <2>7. c \in Nat /\ a = c + pair * u + r
    <3>1. a = pair * h + r
      BY <1>1, <2>1, <2>2
    <3>2. pair * h = (pair * m) * t + pair * u
      BY <1>1, <2>4, <2>5
    <3>3. pair * h = c + pair * u
      BY <2>4, <3>2
    <3> QED
      BY <1>1, <2>1, <2>5, <3>1, <3>3
  <2> DEFINE v == pair * u
             w == a + Granule
  <2>8. pair = 2 * Granule
    OBVIOUS
  <2>9. /\ c <= a /\ a < c + size /\ c <= w /\ w < c + size
        /\ v \in Nat /\ w \in Nat /\ c \in Nat
    <3>1. v \in Nat /\ v + pair <= size /\ a = c + v + r /\ c \in Nat
      BY <2>6, <2>7
    <3> HIDE DEF c, v, pair
    <3> QED
      BY <1>1, <2>1, <2>8, <3>1
  <2> HIDE DEF w
  <2>10. (a % size) = a - size * t /\ (w % size) = w - size * t
    <3>1. size * t <= a /\ a < size * t + size /\ size * t <= w /\ w < size * t + size
      BY <2>9
    <3>2. t \in Int /\ a \in Int /\ w \in Int
      BY <2>5, <2>9
    <3>3. (a % size) = a - size * t
      BY <1>1, <3>1, <3>2, DivUnique
    <3>4. (w % size) = w - size * t
      BY <1>1, <3>1, <3>2, DivUnique
    <3> QED
      BY <3>3, <3>4
  <2>11. AlignDown(a, size) = c /\ AlignDown(w, size) = c
    <3>1. (a % size) = a - c /\ (w % size) = w - c
      BY <2>10
    <3> HIDE DEF c
    <3>2. a - (a - c) = c /\ w - (w - c) = c
      BY <2>9
    <3> QED
      BY <1>1, <3>1, <3>2 DEF AlignDown
  <2> QED
    BY <2>3, <2>11 DEF w
<1> QED
  BY <1>2, <1>3

LEMMA RenumberKeeps ==
    ASSUME NEW e \in Entries, NEW number \in Nat, NEW start, NEW end, Inside(e, start, end)
    PROVE  Inside(Renumber(e, number), start, end)
<1> DEFINE g == Renumber(e, number)
<1>1. /\ g.size = e.size /\ g.srd = e.srd
      /\ g.base \in {e.base, SetGranuleBit(e.base)}
  BY RenumberType
<1> HIDE DEF g
<1>2. RegionBytes(g) = RegionBytes(e)
  BY <1>1 DEF RegionBytes
<1>3. RegionBytes(e) \in PowersOfTwo /\ 8 * Granule <= RegionBytes(e)
  BY DEF Inside
<1>4. e.base \in Nat
  BY DEF Entries, Addresses
<1>5. RegionBase(g) = RegionBase(e)
  <2>1. AlignDown(SetGranuleBit(e.base), RegionBytes(e)) = AlignDown(e.base, RegionBytes(e))
    BY <1>3, <1>4, GranuleBitIgnored
  <2> QED
    BY <1>1, <1>2, <2>1 DEF RegionBase
<1>6. SubregionBytes(g) = SubregionBytes(e)
  BY <1>2 DEF SubregionBytes
<1>7. \A i : Subregion(g, i) = Subregion(e, i)
  BY <1>5, <1>6 DEF Subregion
<1>8. Mapped(g) = Mapped(e)
  BY <1>1, <1>7 DEF Mapped
<1>9. Inside(g, start, end)
  BY <1>2, <1>8 DEF Inside
<1> QED
  BY <1>9 DEF g

(* A larger range around the same entry.                                   *)
LEMMA InsideLarger ==
    ASSUME NEW e, NEW s1 \in Int, NEW s2 \in Int, NEW e1, NEW e2,
           Inside(e, s1, e1), s2 <= s1, CoverLimit(e1) <= CoverLimit(e2),
           CoverLimit(e1) \in Int, CoverLimit(e2) \in Int
    PROVE  Inside(e, s2, e2)
<1>1. Mapped(e) \subseteq s1 .. CoverLimit(e1)
  BY DEF Inside
<1>2. Mapped(e) \subseteq s2 .. CoverLimit(e2)
  <2> DEFINE c1 == CoverLimit(e1)
             c2 == CoverLimit(e2)
  <2>1. c1 \in Int /\ c2 \in Int /\ c1 <= c2 /\ Mapped(e) \subseteq s1 .. c1
    BY <1>1
  <2> HIDE DEF c1, c2
  <2>2. Mapped(e) \subseteq s2 .. c2
    BY <2>1
  <2> QED
    BY <2>2 DEF c2
<1> QED
  BY <1>2 DEF Inside

(* What the child of a well-posed calculator has built lies in the range   *)
(* of its parent.                                                          *)
LEMMA ChildInside ==
    ASSUME NEW f \in Frames, NEW child \in Frames, Posed(f), RestInv(f),
           Waits(f, child), FrameInv(child), NEW i \in DOMAIN child.table
    PROVE  Inside(child.table[i], f.start, f.end)
<1> DEFINE e == child.table[i]
<1>1. f.start \in Nat /\ f.end \in Nat /\ child.start \in Nat /\ child.end \in Nat
  BY DEF Frames, Addresses
<1>2. /\ Posed(child) /\ f.start <= child.start
      /\ CoverLimit(child.end) <= CoverLimit(f.end)
  <2>1. CASE /\ f.pc = "copyLeft" /\ NeedsLeft(f)
             /\ child.start = f.start /\ child.end = f.left - 1
    <3>1. LeftPart(f)
      BY <2>1 DEF RestInv
    <3> QED
      BY <1>1, <2>1, <3>1 DEF LeftPart, Posed
  <2>2. CASE /\ f.pc = "copyRight" /\ NeedsRight(f)
             /\ child.start = f.right /\ child.end = f.end
    <3>1. RightPart(f)
      BY <2>2 DEF RestInv
    <3>2. CoverLimit(f.end) \in Nat
      BY <1>1 DEF CoverLimit
    <3> QED
      BY <1>1, <2>2, <3>1, <3>2 DEF RightPart, Posed
  <2> QED
    BY <2>1, <2>2 DEF Waits
<1>3. Inside(e, child.start, child.end)
  BY <1>2 DEF FrameInv, EntriesInside
<1>4. CoverLimit(f.end) \in Int /\ CoverLimit(child.end) \in Int
  BY <1>1 DEF CoverLimit
<1>5. f.start \in Int /\ child.start \in Int
  BY <1>1
<1> HIDE DEF e
<1>6. Inside(e, f.start, f.end)
  BY <1>2, <1>3, <1>4, <1>5, InsideLarger
<1> QED
  BY <1>6 DEF e

LEMMA WithChildKeeps ==
    ASSUME NEW f \in Frames, NEW child \in Frames, Len(f.table) <= MaxEntries,
           Posed(f), EntriesInside(f),
           \A i \in DOMAIN child.table : Inside(child.table[i], f.start, f.end)
    PROVE  EntriesInside(WithChild(f, child))
<1> DEFINE n == Copied(f, child)
           copies == [i \in 1 .. n |-> Renumber(child.table[i], f.number + i - 1)]
           g == WithChild(f, child)
<1>1. /\ f.table \in Seq(Entries) /\ child.table \in Seq(Entries) /\ f.number \in Nat
  BY DEF Frames
<1>2. n \in Nat /\ n <= Len(child.table)
  BY WithChildType
<1>3. g.table = f.table \o copies /\ g.start = f.start /\ g.end = f.end
  BY DEF WithChild, Frames
<1> HIDE DEF n, g
<1>4. ASSUME NEW i \in 1 .. n
      PROVE  /\ Renumber(child.table[i], f.number + i - 1) \in Entries
             /\ Inside(Renumber(child.table[i], f.number + i - 1), f.start, f.end)
  <2>1. i \in DOMAIN child.table /\ child.table[i] \in Entries /\ f.number + i - 1 \in Nat
    BY <1>1, <1>2
  <2>2. Inside(child.table[i], f.start, f.end)
    BY <2>1
  <2> QED
    BY <2>1, <2>2, RenumberType, RenumberKeeps
<1>5. copies \in Seq(Entries) /\ Len(copies) = n
      /\ \A i \in 1 .. n : Inside(copies[i], f.start, f.end)
  BY <1>2, <1>4
<1> HIDE DEF copies
<1>6. ASSUME NEW i \in DOMAIN (f.table \o copies)
      PROVE  Inside((f.table \o copies)[i], f.start, f.end)
  <2>1. /\ i \in 1 .. Len(f.table) + n /\ Len(f.table) \in Nat
        /\ DOMAIN f.table = 1 .. Len(f.table)
    BY <1>1, <1>2, <1>5, <1>6, ConcatProperties, LenProperties
  <2>2. CASE i <= Len(f.table)
    <3>1. (f.table \o copies)[i] = f.table[i] /\ i \in DOMAIN f.table
      BY <1>1, <1>5, <2>1, <2>2, ConcatProperties
    <3> QED
      BY <3>1 DEF EntriesInside
  <2>3. CASE i > Len(f.table)
    <3>1. (f.table \o copies)[i] = copies[i - Len(f.table)] /\ i - Len(f.table) \in 1 .. n
      BY <1>1, <1>2, <1>5, <2>1, <2>3, ConcatProperties
    <3> QED
      BY <1>5, <3>1
  <2> QED
    BY <2>1, <2>2, <2>3
<1>7. EntriesInside(g)
  BY <1>3, <1>6 DEF EntriesInside
<1> QED
  BY <1>7 DEF g

------------------------------------------------------------------------------
(***************************************************************************)
(* The steps of one calculator                                             *)
(***************************************************************************)
LEMMA NewFrameInside ==
    ASSUME NEW start, NEW end, NEW number
    PROVE  FrameInv(NewFrame(start, end, number))
BY DEF NewFrame, FrameInv, EntriesInside, PointInv

(* The invariant of a calculator depends on these fields only.             *)
LEMMA SamePoint ==
    ASSUME NEW f, NEW g, g.start = f.start, g.end = f.end, g.sub = f.sub, g.best = f.best
    PROVE  (AfterInv(f) => AfterInv(g)) /\ (BuildInv(f) => BuildInv(g))
<1>1. Tried(f, f.best) => Tried(g, g.best)
  BY SameRange
<1>2. Loop(f) => Loop(g)
  BY SameRange DEF Loop
<1>3. Candidate(f) => Candidate(g)
  BY <1>1 DEF Candidate
<1>4. RegionBefore(g, g.sub) = RegionBefore(f, f.sub) /\ IsFullRange(g) = IsFullRange(f)
  BY SameRange
<1>5. AfterInv(f) => AfterInv(g)
  BY <1>2, <1>3, <1>4 DEF AfterInv
<1>6. BuildInv(f) => BuildInv(g)
  BY <1>1, <1>4 DEF BuildInv, Enough
<1> QED
  BY <1>5, <1>6

RestPoints == {"left", "copyLeft", "right", "copyRight"}

LEMMA GotoInside ==
    ASSUME NEW f \in Frames, NEW label \in RestPoints,
           Posed(f) => EntriesInside(f) /\ RestInv(f)
    PROVE  /\ FrameInv(Goto(f, label))
           /\ Goto(f, label).start = f.start /\ Goto(f, label).end = f.end
           /\ Goto(f, label).left = f.left /\ Goto(f, label).right = f.right
           /\ Goto(f, label).pc = label
<1> DEFINE g == Goto(f, label)
<1>1. /\ g.start = f.start /\ g.end = f.end /\ g.table = f.table
      /\ g.left = f.left /\ g.right = f.right /\ g.pc = label
  BY DEF Goto, Frames
<1> HIDE DEF g
<1>2. Posed(g) = Posed(f)
  BY <1>1, SameRange
<1>3. EntriesInside(f) => EntriesInside(g)
  BY <1>1 DEF EntriesInside
<1>4. RestInv(f) => RestInv(g)
  BY <1>1 DEF RestInv, NeedsLeft, NeedsRight, LeftPart, RightPart
<1>5. g.pc \notin {"before", "after", "build"}
  BY <1>1 DEF RestPoints
<1>6. FrameInv(g)
  BY <1>2, <1>3, <1>4, <1>5 DEF FrameInv, PointInv
<1> QED
  BY <1>1, <1>6 DEF g

LEMMA ReturnInside ==
    ASSUME NEW f \in Frames, NEW ok, Posed(f) => EntriesInside(f)
    PROVE  /\ FrameInv(Return(f, ok))
           /\ Return(f, ok).start = f.start /\ Return(f, ok).end = f.end
<1> DEFINE g == Return(f, ok)
<1>1. g.start = f.start /\ g.end = f.end /\ g.table = f.table /\ g.pc = "return"
  BY DEF Return, Frames
<1> HIDE DEF g
<1>2. Posed(g) = Posed(f)
  BY <1>1, SameRange
<1>3. EntriesInside(f) => EntriesInside(g)
  BY <1>1 DEF EntriesInside
<1>4. FrameInv(g)
  BY <1>1, <1>2, <1>3 DEF FrameInv, PointInv
<1> QED
  BY <1>1, <1>4 DEF g

(* The steps inside select_best_mpu_size.                                  *)
LEMMA LoopInside ==
    ASSUME NEW f \in Frames, NEW g \in Frames, g.start = f.start, g.end = f.end,
           g.table = f.table, FrameInv(f), f.pc \in ProgramCounters,
           g.pc \in {"before", "after", "build"},
           Posed(f) => /\ g.pc = "before" => BeforeInv(g)
                       /\ g.pc = "after" => AfterInv(g)
                       /\ g.pc = "build" => BuildInv(g)
    PROVE  FrameInv(g)
<1>1. Posed(g) = Posed(f)
  BY SameRange
<1>2. EntriesInside(f) => EntriesInside(g)
  BY DEF EntriesInside
<1> QED
  BY <1>1, <1>2 DEF FrameInv, PointInv

LEMMA TryInside ==
    ASSUME NEW f, SoundFrame(f), FrameInv(f),
           NEW base, NEW g, g = [f EXCEPT !.best = Better(f, base)],
           NEW h, 
           \/ /\ f.pc = "before" /\ base = RegionBefore(f, f.sub)
              /\ h = IF SubregionsMask(f, f.sub, base) = {} THEN Goto(g, "build")
                     ELSE IF base # f.start THEN Goto(g, "after")
                     ELSE HalveSize(g)
           \/ /\ f.pc = "after" /\ base = RegionAfter(f, f.sub)
              /\ h = IF SubregionsMask(f, f.sub, base) = {} THEN Goto(g, "build")
                     ELSE HalveSize(g)
    PROVE  FrameInv(h) /\ h.start = f.start /\ h.end = f.end
<1>1. /\ f \in Frames /\ f.sub \in PowersOfTwo /\ Granule <= f.sub
      /\ f.pc \in ProgramCounters /\ (f.best = NoBest \/ f.best.sub > 0)
  <2>1. f \in Frames /\ f.sub \in PowersOfTwo /\ f.sub >= Granule
        /\ (f.best = NoBest \/ f.best.sub > 0)
    BY DEF SoundFrame
  <2>2. f.sub \in Nat /\ Granule \in Nat
    BY <2>1, Constants
  <2>3. f.pc \in ProgramCounters
    BY <2>1 DEF Frames
  <2> DEFINE sub == f.sub
  <2>4. sub \in Nat /\ sub >= Granule
    BY <2>1, <2>2
  <2> HIDE DEF sub
  <2>5. Granule <= sub
    BY <2>2, <2>4
  <2> QED
    BY <2>1, <2>3, <2>5 DEF sub
<1>2. f.sub \in Nat \ {0}
  BY <1>1, Constants
<1>3. base \in Addresses
  BY <1>1, <1>2, RegionTypes
<1>4. Better(f, base) \in Candidates /\ Better(f, base).sub > 0
  <2>1. f.sub > 0
    BY <1>2
  <2> QED
    BY <1>1, <1>3, <2>1, BetterType
<1>5. /\ g \in Frames /\ g.start = f.start /\ g.end = f.end /\ g.table = f.table
      /\ g.sub = f.sub /\ g.best = Better(f, base) /\ g.pc = f.pc
  BY <1>1, <1>4 DEF Frames
<1>6. SoundFrame(g)
  <2>1. g.best.sub > 0
    BY <1>4, <1>5
  <2> QED
    BY <1>5, <2>1 DEF SoundFrame
<1> DEFINE toBuild == Goto(g, "build")
           toAfter == Goto(g, "after")
           halved == HalveSize(g)
<1>7. /\ toBuild \in Frames /\ toBuild.pc = "build" /\ toBuild.sub = g.sub
      /\ toBuild.best = g.best /\ toBuild.table = g.table
      /\ toBuild.start = g.start /\ toBuild.end = g.end
  BY <1>5 DEF Goto, Frames, ProgramCounters
<1>8. /\ toAfter \in Frames /\ toAfter.pc = "after" /\ toAfter.sub = g.sub
      /\ toAfter.best = g.best /\ toAfter.table = g.table
      /\ toAfter.start = g.start /\ toAfter.end = g.end
  BY <1>5 DEF Goto, Frames, ProgramCounters
<1>9. /\ halved \in Frames
      /\ halved.table = g.table
      /\ halved.start = g.start /\ halved.end = g.end
  <2>1. g.pc \in {"before", "after"} /\ g.best.sub > 0
    BY <1>4, <1>5
  <2>2. halved \in Frames
    BY <1>6, <2>1, HalveSizeSound DEF SoundFrame
  <2> QED
    BY <1>5, <2>2 DEF HalveSize, Frames
<1>10. ASSUME Posed(f)
       PROVE  /\ Loop(g) /\ Candidate(g)
              /\ SubregionsMask(f, f.sub, base) = {} => BuildInv(g)
              /\ f.pc = "before" /\ base # f.start => AfterInv(g)
              /\ (f.pc = "before" => base = f.start) /\ g.sub = Granule => Enough(g)
  <2>1. CASE f.pc = "before" /\ base = RegionBefore(f, f.sub)
    <3>1. BeforeInv(f)
      BY <1>10, <2>1 DEF FrameInv, PointInv
    <3> QED
      BY <1>1, <1>5, <1>10, <2>1, <3>1, BeforeKeeps
  <2>2. CASE f.pc = "after" /\ base = RegionAfter(f, f.sub)
    <3>1. AfterInv(f)
      BY <1>10, <2>2 DEF FrameInv, PointInv
    <3> QED
      BY <1>1, <1>5, <1>10, <2>2, <3>1, AfterKeeps
  <2> QED
    BY <2>1, <2>2
<1> HIDE DEF toBuild, toAfter, halved
<1>11. ASSUME SubregionsMask(f, f.sub, base) = {} PROVE FrameInv(toBuild)
  <2>1. Posed(f) => BuildInv(toBuild)
    BY <1>7, <1>10, <1>11, SamePoint
  <2> QED
    BY <1>1, <1>5, <1>7, <2>1, LoopInside
<1>12. ASSUME f.pc = "before", base # f.start PROVE FrameInv(toAfter)
  <2>1. Posed(f) => AfterInv(toAfter)
    BY <1>8, <1>10, <1>12, SamePoint
  <2> QED
    BY <1>1, <1>5, <1>8, <2>1, LoopInside
<1>13. ASSUME f.pc = "before" => base = f.start PROVE FrameInv(halved)
  <2>1. ASSUME Posed(f)
        PROVE  /\ halved.pc \in {"before", "build"}
               /\ halved.pc = "before" => BeforeInv(halved)
               /\ halved.pc = "build" => BuildInv(halved)
    <3>1. Loop(g) /\ Candidate(g) /\ (g.sub = Granule => Enough(g))
          /\ g.sub \in PowersOfTwo /\ Granule <= g.sub
      BY <1>1, <1>5, <1>10, <1>13, <2>1
    <3> QED
      BY <1>5, <3>1, HalveKeeps DEF halved
  <2>2. halved.pc \in {"before", "build"}
    BY <1>5 DEF halved, HalveSize, Frames
  <2> QED
    BY <1>1, <1>5, <1>9, <2>1, <2>2, LoopInside
<1> QED
  BY <1>5, <1>7, <1>8, <1>9, <1>11, <1>12, <1>13 DEF toBuild, toAfter, halved

------------------------------------------------------------------------------
(***************************************************************************)
(* The invariant holds initially and is preserved by every action          *)
(***************************************************************************)
LEMMA RangeInit == Init => RangeInv
<1> SUFFICES ASSUME Init PROVE RangeInv
  OBVIOUS
<1>1. FrameInv(frame)
  BY NewFrameInside DEF Init
<1>2. DOMAIN callers = {}
  BY DEF Init
<1> QED
  BY <1>1, <1>2 DEF RangeInv

(* A step of the running calculator does not change its range.             *)
LEMMA LocalRange ==
    ASSUME RangeInv, callers' = callers, frame'.start = frame.start, frame'.end = frame.end,
           FrameInv(frame')
    PROVE  RangeInv'
<1>1. \A i \in DOMAIN callers : Waits(callers[i], frame) => Waits(callers[i], frame')
  BY DEF Waits
<1> QED
  BY <1>1 DEF RangeInv

(* A call suspends the running calculator.                                 *)
LEMMA CallRange ==
    ASSUME TypeInv, RangeInv, NEW f \in Frames, NEW start, NEW end, Call(f, start, end),
           f.start = frame.start, f.end = frame.end, FrameInv(f),
           Waits(f, NewFrame(start, end, 0))
    PROVE  RangeInv'
<1> DEFINE n == Len(callers)
<1>1. callers \in Seq(Frames) /\ n \in Nat /\ DOMAIN callers = 1 .. n
  BY LenProperties DEF TypeInv, SoundCallers
<1>2. callers' = Append(callers, f) /\ frame' = NewFrame(start, end, 0)
  BY DEF Call
<1>3. /\ Len(callers') = n + 1 /\ DOMAIN callers' = 1 .. n + 1
      /\ \A i \in 1 .. n : callers'[i] = callers[i]
      /\ callers'[n + 1] = f
  BY <1>1, <1>2, AppendProperties, LenProperties
<1>4. FrameInv(frame')
  BY <1>2, NewFrameInside
<1>5. ASSUME NEW i \in 1 .. n + 1
      PROVE  /\ FrameInv(callers'[i])
             /\ i < n + 1 => Waits(callers'[i], callers'[i + 1])
             /\ i = n + 1 => Waits(callers'[i], frame')
  <2>1. CASE i = n + 1
    BY <1>1, <1>2, <1>3, <2>1
  <2>2. CASE i = n
    <3>1. i \in DOMAIN callers /\ i \in 1 .. n /\ callers'[i] = callers[i] /\ callers'[i + 1] = f
      BY <1>1, <1>3, <1>5, <2>2
    <3>2. FrameInv(callers[i]) /\ Waits(callers[i], frame)
      BY <2>2, <3>1 DEF RangeInv
    <3>3. Waits(callers[i], f)
      BY <3>2 DEF Waits
    <3>4. FrameInv(callers'[i])
      BY <3>1, <3>2
    <3>5. Waits(callers'[i], callers'[i + 1])
      BY <3>1, <3>3
    <3> HIDE DEF n
    <3>6. i # n + 1
      BY <1>1, <2>2
    <3> QED
      BY <3>4, <3>5, <3>6
  <2>3. CASE i < n
    <3>1. /\ i \in DOMAIN callers /\ callers'[i] = callers[i] /\ callers'[i + 1] = callers[i + 1]
      BY <1>1, <1>3, <1>5, <2>3
    <3>2. FrameInv(callers[i]) /\ Waits(callers[i], callers[i + 1])
      BY <2>3, <3>1 DEF RangeInv
    <3>3. FrameInv(callers'[i])
      BY <3>1, <3>2
    <3>4. Waits(callers'[i], callers'[i + 1])
      BY <3>1, <3>2
    <3> HIDE DEF n
    <3>5. i # n + 1
      BY <1>1, <1>5, <2>3
    <3> QED
      BY <3>3, <3>4, <3>5
  <2> HIDE DEF n
  <2>4. i = n + 1 \/ i = n \/ i < n
    BY <1>1, <1>5
  <2> QED
    BY <2>1, <2>2, <2>3, <2>4
<1> QED
  BY <1>3, <1>4, <1>5 DEF RangeInv

(* A return hands the child's entries to the last caller.                  *)
LEMMA CopyRange ==
    ASSUME TypeInv, RangeInv, CopyChild
    PROVE  RangeInv'
<1> DEFINE n == Len(callers)
           parent == callers[n]
           f == WithChild(parent, frame)
<1>1. /\ callers \in Seq(Frames) /\ callers # <<>> /\ n \in Nat \ {0}
      /\ DOMAIN callers = 1 .. n /\ n \in DOMAIN callers
  <2>1. callers \in Seq(Frames) /\ callers # <<>> /\ n \in Nat \ {0} /\ DOMAIN callers = 1 .. n
    BY EmptySeq, LenProperties DEF CopyChild, TypeInv, SoundCallers
  <2> QED
    BY <2>1
<1>2. /\ parent \in Frames /\ Len(parent.table) <= MaxEntries
      /\ parent.pc \in {"copyLeft", "copyRight"} /\ frame \in Frames
  BY <1>1 DEF TypeInv, SoundCallers, SoundFrame
<1>3. FrameInv(parent) /\ Waits(parent, frame) /\ FrameInv(frame)
  BY <1>1 DEF RangeInv
<1>4. /\ f \in Frames /\ f.start = parent.start /\ f.end = parent.end
      /\ f.left = parent.left /\ f.right = parent.right
  BY <1>2, WithChildType DEF WithChild, Frames
<1>5. /\ \/ frame' = Return(f, FALSE)
         \/ frame' = Goto(f, "right")
         \/ frame' = Return(f, TRUE)
      /\ callers' = SubSeq(callers, 1, n - 1)
  BY DEF CopyChild
<1>6. Posed(f) => EntriesInside(f) /\ RestInv(f)
  <2> SUFFICES ASSUME Posed(f) PROVE EntriesInside(f) /\ RestInv(f)
    OBVIOUS
  <2>1. Posed(parent)
    BY <1>4 DEF Posed
  <2>2. EntriesInside(parent) /\ RestInv(parent)
    BY <1>2, <1>3, <2>1 DEF FrameInv, PointInv
  <2>3. \A i \in DOMAIN frame.table : Inside(frame.table[i], parent.start, parent.end)
    BY <1>2, <1>3, <2>1, <2>2, ChildInside
  <2>4. EntriesInside(f)
    BY <1>2, <2>1, <2>2, <2>3, WithChildKeeps
  <2>5. RestInv(f)
    <3> HIDE DEF f, parent
    <3> QED
      BY <1>4, <2>2 DEF RestInv, NeedsLeft, NeedsRight, LeftPart, RightPart
  <2> QED
    BY <2>4, <2>5
<1> HIDE DEF f
<1>7. FrameInv(frame') /\ frame'.start = parent.start /\ frame'.end = parent.end
  <2>1. "right" \in RestPoints
    BY DEF RestPoints
  <2>2. /\ FrameInv(Goto(f, "right"))
        /\ Goto(f, "right").start = f.start /\ Goto(f, "right").end = f.end
    BY <1>4, <1>6, <2>1, GotoInside
  <2>3. /\ FrameInv(Return(f, FALSE))
        /\ Return(f, FALSE).start = f.start /\ Return(f, FALSE).end = f.end
    BY <1>4, <1>6, ReturnInside
  <2>4. /\ FrameInv(Return(f, TRUE))
        /\ Return(f, TRUE).start = f.start /\ Return(f, TRUE).end = f.end
    BY <1>4, <1>6, ReturnInside
  <2>5. f.start = parent.start /\ f.end = parent.end
    BY <1>4
  <2>6. frame' \in {Return(f, FALSE), Goto(f, "right"), Return(f, TRUE)}
    BY <1>5
  <2> HIDE DEF parent
  <2> QED
    BY <2>2, <2>3, <2>4, <2>5, <2>6
<1>8. /\ Len(callers') = n - 1 /\ DOMAIN callers' = 1 .. n - 1
      /\ \A i \in 1 .. n - 1 : callers'[i] = callers[i]
  <2> HIDE DEF n
  <2>1. \A i \in 1 .. n - 1 : callers[i] \in Frames
    BY <1>1
  <2>2. n - 1 \in Nat
    BY <1>1
  <2>3. /\ callers' \in Seq(Frames)
        /\ Len(callers') = n - 1
        /\ \A i \in 1 .. n - 1 : callers'[i] = callers[i]
    BY <1>1, <1>5, <2>1, <2>2, SubSeqProperties
  <2> QED
    BY <2>3, LenProperties
<1>9. ASSUME NEW i \in 1 .. n - 1
      PROVE  /\ FrameInv(callers'[i])
             /\ i < n - 1 => Waits(callers'[i], callers'[i + 1])
             /\ i = n - 1 => Waits(callers'[i], frame')
  <2>1. i \in DOMAIN callers /\ i < n /\ callers'[i] = callers[i]
    BY <1>1, <1>8, <1>9
  <2>2. FrameInv(callers[i]) /\ Waits(callers[i], callers[i + 1])
    BY <2>1 DEF RangeInv
  <2>3. ASSUME i < n - 1 PROVE callers'[i + 1] = callers[i + 1]
    BY <1>1, <1>8, <1>9, <2>3
  <2>4. ASSUME i = n - 1 PROVE Waits(callers[i], frame')
    <3>1. i + 1 = n
      BY <1>1, <2>4
    <3>2. Waits(callers[i], parent)
      BY <2>2, <3>1
    <3> HIDE DEF parent
    <3> QED
      BY <1>7, <3>2 DEF Waits
  <2> QED
    BY <2>1, <2>2, <2>3, <2>4
<1> QED
  BY <1>7, <1>8, <1>9 DEF RangeInv

LEMMA RangeStep == TypeInv /\ RangeInv /\ [Next]_vars => RangeInv'
<1> SUFFICES ASSUME TypeInv, RangeInv, [Next]_vars PROVE RangeInv'
  OBVIOUS
<1>1. /\ frame \in Frames /\ SoundFrame(frame) /\ FrameInv(frame)
      /\ frame.pc \in ProgramCounters
  <2>1. frame \in Frames /\ SoundFrame(frame) /\ FrameInv(frame)
    BY DEF TypeInv, SoundFrame, RangeInv
  <2> QED
    BY <2>1 DEF Frames
<1>2. Posed(frame) => EntriesInside(frame)
  BY <1>1 DEF FrameInv
<1>3. ASSUME frame.pc \in RestPoints PROVE Posed(frame) => EntriesInside(frame) /\ RestInv(frame)
  BY <1>1, <1>3 DEF FrameInv, PointInv, RestPoints
<1>4. CASE UNCHANGED vars
  BY <1>1, <1>4, LocalRange DEF vars
<1>5. CASE Refuse
  <2>1. frame' = Return(frame, FALSE) /\ callers' = callers
    BY <1>5 DEF Refuse, Local
  <2> QED
    BY <1>1, <1>2, <2>1, ReturnInside, LocalRange
<1>6. CASE SelectFullRange
  <2> DEFINE best == FullBest
  <2>1. /\ frame' = [frame EXCEPT !.pc = "build", !.best = best] /\ callers' = callers
        /\ IsFullRange(frame) /\ frame.pc = "enter"
    BY <1>6 DEF SelectFullRange, Local, FullBest, At
  <2>2. frame' \in Frames
    <3>1. SoundFrame(frame')
      <4>1. TypeInv'
        BY <1>6, TypeStep DEF Next
      <4> QED
        BY <4>1 DEF TypeInv
    <3> QED
      BY <3>1 DEF SoundFrame
  <2> HIDE DEF best
  <2>3. /\ frame'.start = frame.start /\ frame'.end = frame.end
        /\ frame'.table = frame.table /\ frame'.pc = "build" /\ frame'.best = best
    BY <1>1, <2>1 DEF Frames
  <2>4. BuildInv(frame')
    <3>1. IsFullRange(frame')
      BY <2>1, <2>3, SameRange
    <3> QED
      BY <2>3, <3>1 DEF BuildInv, best
  <2>5. FrameInv(frame')
    BY <1>1, <2>2, <2>3, <2>4, LoopInside
  <2> QED
    BY <2>1, <2>3, <2>5, LocalRange
<1>7. CASE StartSelection
  <2> DEFINE sub == MaxSubregionSize(frame)
  <2>1. /\ frame' = [frame EXCEPT !.pc = "before", !.sub = sub] /\ callers' = callers
        /\ ~IsFullRange(frame) /\ frame.pc = "enter" /\ ~TooSmall(frame)
    BY <1>7 DEF StartSelection, Local, At, Refused
  <2>2. frame' \in Frames
    <3>1. SoundFrame(frame')
      <4>1. TypeInv'
        BY <1>7, TypeStep DEF Next
      <4> QED
        BY <4>1 DEF TypeInv
    <3> QED
      BY <3>1 DEF SoundFrame
  <2> HIDE DEF sub
  <2>3. /\ frame'.start = frame.start /\ frame'.end = frame.end
        /\ frame'.table = frame.table /\ frame'.pc = "before"
        /\ frame'.best = frame.best /\ frame'.sub = sub
    BY <1>1, <2>1, <2>2 DEF Frames
  <2>4. frame.best = NoBest
    BY <1>1, <2>1 DEF SoundFrame
  <2>5. ASSUME Posed(frame) PROVE BeforeInv(frame')
    <3> DEFINE start == frame.start
               end == frame.end
    <3>1. frame.start + sub <= WordSize
      BY <1>1, <2>1, <2>5, MaxSubregionRoom DEF sub
    <3>2. start + (Granule - 1) <= end
      <4>1. start \in Nat /\ end \in Nat /\ end < WordSize /\ start <= end
        BY <1>1, <2>5, PosedBounds
      <4>2. ~(Wrap(end - start) < Granule - 1)
        BY <2>1 DEF TooSmall
      <4> HIDE DEF start, end
      <4>3. end - start \in Addresses /\ end - start \in Int
        BY <4>1, Constants DEF Addresses
      <4>4. Wrap(end - start) = end - start
        BY <4>3, WrapAddress
      <4> QED
        BY <4>1, <4>2, <4>4, Constants
    <3>3. ~IsFullRange(frame')
      BY <2>1, <2>3, SameRange
    <3>4. Loop(frame')
      BY <2>3, <3>1, <3>2, <3>3 DEF Loop
    <3> QED
      BY <2>3, <2>4, <3>4 DEF BeforeInv
  <2>6. FrameInv(frame')
    BY <1>1, <2>2, <2>3, <2>5, LoopInside
  <2> QED
    BY <2>1, <2>3, <2>6, LocalRange
<1>8. CASE TryBefore
  <2> DEFINE base == RegionBefore(frame, frame.sub)
             g == [frame EXCEPT !.best = Better(frame, base)]
  <2>1. /\ frame.pc = "before" /\ callers' = callers
        /\ frame' = IF SubregionsMask(frame, frame.sub, base) = {} THEN Goto(g, "build")
                    ELSE IF base # frame.start THEN Goto(g, "after")
                    ELSE HalveSize(g)
    BY <1>8 DEF TryBefore, At, Local
  <2>2. FrameInv(frame') /\ frame'.start = frame.start /\ frame'.end = frame.end
    BY <1>1, <2>1, TryInside
  <2> QED
    BY <2>1, <2>2, LocalRange
<1>9. CASE TryAfter
  <2> DEFINE base == RegionAfter(frame, frame.sub)
             g == [frame EXCEPT !.best = Better(frame, base)]
  <2>1. /\ frame.pc = "after" /\ callers' = callers
        /\ frame' = IF SubregionsMask(frame, frame.sub, base) = {} THEN Goto(g, "build")
                    ELSE HalveSize(g)
    BY <1>9 DEF TryAfter, At, Local
  <2>2. FrameInv(frame') /\ frame'.start = frame.start /\ frame'.end = frame.end
    BY <1>1, <2>1, TryInside
  <2> QED
    BY <2>1, <2>2, LocalRange
<1>10. CASE Build
  <2> DEFINE e == BestEntry(frame)
             table == Append(frame.table, e)
             left == FirstAddr(frame, frame.best.sub, frame.best.base)
             right == NextAddr(frame)
  <2>1. /\ frame' = [frame EXCEPT !.pc = "left", !.table = table,
                                  !.number = frame.number + 1,
                                  !.left = left, !.right = right]
        /\ callers' = callers /\ frame.pc = "build"
    BY <1>10 DEF Build, Local, At
  <2>2. frame.table \in Seq(Entries) /\ e \in Entries
    <3>1. frame.best.sub > 0
      BY <1>1, <2>1 DEF SoundFrame
    <3> QED
      BY <1>1, <3>1, BestEntryType DEF Frames
  <2> HIDE DEF e, left, right
  <2>3. /\ DOMAIN table = 1 .. Len(frame.table) + 1 /\ Len(frame.table) \in Nat
        /\ DOMAIN frame.table = 1 .. Len(frame.table)
        /\ \A i \in 1 .. Len(frame.table) : table[i] = frame.table[i]
        /\ table[Len(frame.table) + 1] = e
    BY <2>2, AppendProperties, LenProperties
  <2> HIDE DEF table
  <2>4. /\ frame'.start = frame.start /\ frame'.end = frame.end
        /\ frame'.table = table /\ frame'.pc = "left"
        /\ frame'.left = left /\ frame'.right = right
    BY <1>1, <2>1 DEF Frames
  <2>5. ASSUME Posed(frame) PROVE EntriesInside(frame') /\ RestInv(frame')
    <3>1. BuildInv(frame)
      BY <1>1, <2>1, <2>5 DEF FrameInv, PointInv
    <3>2. Inside(e, frame.start, frame.end) /\ RestInv(frame')
      BY <1>1, <2>4, <2>5, <3>1, BuildKeeps DEF e, left, right
    <3>3. \A i \in DOMAIN table : Inside(table[i], frame.start, frame.end)
      <4> SUFFICES ASSUME NEW i \in DOMAIN table PROVE Inside(table[i], frame.start, frame.end)
        OBVIOUS
      <4>1. CASE i \in DOMAIN frame.table
        BY <1>2, <2>3, <2>5, <4>1 DEF EntriesInside
      <4>2. CASE i \notin DOMAIN frame.table
        BY <2>3, <3>2, <4>2
      <4> QED
        BY <4>1, <4>2
    <3> QED
      BY <2>4, <3>2, <3>3 DEF EntriesInside
  <2>6. FrameInv(frame')
    <3>1. Posed(frame') = Posed(frame)
      BY <2>4, SameRange
    <3> QED
      BY <2>4, <2>5, <3>1 DEF FrameInv, PointInv
  <2> QED
    BY <2>1, <2>4, <2>6, LocalRange
<1>11. CASE CallLeft
  <2> DEFINE f == Goto(frame, "copyLeft")
  <2>1. /\ frame.pc = "left" /\ NeedsLeft(frame)
        /\ Call(f, frame.start, frame.left - 1)
    BY <1>11 DEF CallLeft, At
  <2>2. "left" \in RestPoints /\ "copyLeft" \in RestPoints
        /\ "copyLeft" \in ProgramCounters
    BY DEF RestPoints, ProgramCounters
  <2>3. /\ FrameInv(f) /\ f.start = frame.start /\ f.end = frame.end
        /\ f.left = frame.left /\ f.pc = "copyLeft"
    BY <1>1, <1>3, <2>1, <2>2, GotoInside
  <2>4. f \in Frames
    BY <1>1, <2>2, GotoTypes
  <2> HIDE DEF f
  <2>5. Waits(f, NewFrame(frame.start, frame.left - 1, 0))
    BY <2>1, <2>3 DEF Waits, NeedsLeft, NewFrame
  <2> QED
    BY <2>1, <2>3, <2>4, <2>5, CallRange
<1>12. CASE SkipLeft
  <2>1. frame.pc = "left" /\ frame' = Goto(frame, "right") /\ callers' = callers
    BY <1>12 DEF SkipLeft, Local, At
  <2>2. "left" \in RestPoints /\ "right" \in RestPoints
    BY DEF RestPoints
  <2> QED
    BY <1>1, <1>3, <2>1, <2>2, GotoInside, LocalRange
<1>13. CASE CallRight
  <2> DEFINE f == Goto(frame, "copyRight")
  <2>1. /\ frame.pc = "right" /\ NeedsRight(frame)
        /\ Call(f, frame.right, frame.end)
    BY <1>13 DEF CallRight, At
  <2>2. "right" \in RestPoints /\ "copyRight" \in RestPoints
        /\ "copyRight" \in ProgramCounters
    BY DEF RestPoints, ProgramCounters
  <2>3. /\ FrameInv(f) /\ f.start = frame.start /\ f.end = frame.end
        /\ f.right = frame.right /\ f.pc = "copyRight"
    BY <1>1, <1>3, <2>1, <2>2, GotoInside
  <2>4. f \in Frames
    BY <1>1, <2>2, GotoTypes
  <2> HIDE DEF f
  <2>5. Waits(f, NewFrame(frame.right, frame.end, 0))
    BY <2>1, <2>3 DEF Waits, NeedsRight, NewFrame
  <2> QED
    BY <2>1, <2>3, <2>4, <2>5, CallRange
<1>14. CASE SkipRight
  <2>1. frame' = Return(frame, TRUE) /\ callers' = callers
    BY <1>14 DEF SkipRight, Local
  <2> QED
    BY <1>1, <1>2, <2>1, ReturnInside, LocalRange
<1>15. CASE CopyChild
  BY <1>15, CopyRange
<1> QED
  BY <1>4, <1>5, <1>6, <1>7, <1>8, <1>9, <1>10, <1>11, <1>12, <1>13, <1>14, <1>15 DEF Next

(* In every reachable state, the entries of every calculator on the stack, *)
(* running or suspended, that works on a well-posed range map nothing      *)
(* outside that calculator's own range.                                    *)
THEOREM RangesKept == Spec => []RangeInv
<1>1. TypeInv /\ RangeInv /\ [Next]_vars => RangeInv'
  BY RangeStep
<1> QED
  BY <1>1, RangeInit, TypeCorrect, PTL DEF Spec

(* No entry built for a well-posed range maps an address outside it, but   *)
(* for the one byte of CoverLimit.                                         *)
THEOREM RangeCovered == Spec => []CoversOnlyRange
<1>1. RangeInv => CoversOnlyRange
  BY DEF RangeInv, FrameInv, Posed, EntriesInside, Inside, CoversOnlyRange
<1> QED
  BY <1>1, RangesKept, PTL

==============================================================================
