---------------------------- MODULE MpuCalculator ----------------------------
(***************************************************************************)
(* mpu_calculator_t::build_best_mpu_entries (mpu_calculator.cpp): the MPU  *)
(* entries that cover start_addr .. end_addr.  The largest entry is chosen *)
(* first; what it leaves uncovered on its left and on its right is handed  *)
(* to a new calculator each, whose entries are then copied behind it.      *)
(*                                                                         *)
(* frame is the calculator object that is running, callers the suspended   *)
(* ones below it on the C++ stack.                                         *)
(***************************************************************************)
EXTENDS MpuRegion, Sequences, FiniteSets

CONSTANTS
    MaxEntries,     \* mpu_calculator_t::MAX_ENTRIES: 20 in the code.
    Requests        \* The calls made: [start, end, number].

ASSUME CalculatorAssumption ==
    /\ MaxEntries \in 1 .. 2 * NumRegions
    /\ Requests \subseteq [start : Addresses, end : Addresses, number : Nat]

VARIABLES
    request,        \* Arguments of the outermost call.
    frame,          \* The running calculator.
    callers         \* Sequence of calculators that wait for a child.

vars == <<request, frame, callers>>

------------------------------------------------------------------------------
(***************************************************************************)
(* try_subregion_size(subregion_size, region_start_addr)                   *)
(***************************************************************************)
FirstSubregion(f, sub, base) ==
    IF f.start > base THEN Wrap(f.start + (sub - 1) - base) \div sub ELSE 0

(* Variant: the last subregion is the one that contains end_addr + 1,      *)
(* whether or not it ends inside the range.                                *)
LastSubregionPartial(f, sub, base) ==
    LET last == Wrap(f.end + 1 - base) \div sub
    IN  IF last > 7 THEN 7 ELSE last

LastSubregion(f, sub, base) ==
    LET last == Wrap(f.end + 1 - (sub - 1) - base) \div sub
    IN  IF last > 7 THEN 7 ELSE last

NumSubregions(f, sub, base) ==
    IF \/ FirstSubregion(f, sub, base) > 7
       \/ LastSubregion(f, sub, base) < FirstSubregion(f, sub, base)
       \/ Wrap(base + sub - 1) > f.end
    THEN 0
    ELSE LastSubregion(f, sub, base) - FirstSubregion(f, sub, base) + 1

SubregionsMask(f, sub, base) ==
    LET first == FirstSubregion(f, sub, base)
    IN  Subregions \ (first .. first + NumSubregions(f, sub, base) - 1)

FirstAddr(f, sub, base) == Wrap(base + FirstSubregion(f, sub, base) * sub)

ActualSize(f, sub, base) == Wrap(NumSubregions(f, sub, base) * sub)

RegionSize(sub) == Wrap(sub * 8)

------------------------------------------------------------------------------
(***************************************************************************)
(* select_best_mpu_size: the sizes and the two region starts it tries.     *)
(***************************************************************************)
HalfWord == WordSize \div 2

RequestSize(f) == Wrap(f.end - f.start + 1)

(* Variant: the smaller first size considered in mpu_calculator.cpp:292.   *)
MaxSubregionSizeEighth(f) ==
    LET size == RequestSize(f)
    IN  IF size <= 8 * Granule THEN Granule ELSE CeilingPower(size) \div 8

(* The shift by 32 (sizes above half the address space, and the size that  *)
(* wraps to 0) is undefined; whatever it gives is replaced by a later line. *)
MaxSubregionSize(f) ==
    LET size == RequestSize(f)
    IN  IF size > HalfWord THEN HalfWord
        ELSE IF size <= 8 * Granule THEN 4 * Granule
        ELSE CeilingPower(size) \div 2

RegionBefore(f, sub) == AlignDown(f.start, RegionSize(sub))

(* Variant: no second region start is tried.                               *)
RegionAfterSame(f, sub) == AlignDown(f.start, RegionSize(sub))

RegionAfter(f, sub) == AlignUp(f.start, RegionSize(sub))

(* Variant: of two candidates that cover the same, the first one is kept.  *)
BetterStrictly(f, base) ==
    IF ActualSize(f, f.sub, base) > f.best.size \/ f.best.sub = 0
    THEN [size |-> ActualSize(f, f.sub, base), sub |-> f.sub, base |-> base]
    ELSE f.best

(* The candidate replaces the best one seen so far unless it is smaller.   *)
Better(f, base) ==
    IF ActualSize(f, f.sub, base) >= f.best.size
    THEN [size |-> ActualSize(f, f.sub, base), sub |-> f.sub, base |-> base]
    ELSE f.best

IsFullRange(f) == f.start = 0 /\ f.end = LastAddress

------------------------------------------------------------------------------
(***************************************************************************)
(* Frames                                                                  *)
(***************************************************************************)
ProgramCounters == {"enter", "before", "after", "build", "left", "copyLeft",
                    "right", "copyRight", "return"}

NoBest == [size |-> 0, sub |-> 0, base |-> 0]

Candidates == [size : Addresses, sub : Addresses, base : Addresses]

Frames ==
    [pc : ProgramCounters,
     start : Addresses,                 \* start_addr_, start_addr
     end : Addresses,                   \* end_addr_, end_addr
     number : Nat,                      \* mpu_region_number
     table : Seq(Entries),              \* mpu_table[0 .. num_entries - 1]
     sub : Addresses,                   \* loop variable subregion_size
     best : Candidates,                 \* best_mpu_size, ...
     left : Addresses,                  \* left_addr
     right : Addresses,                 \* right_addr, next_addr
     ok : BOOLEAN]                      \* return value

(* A calculator as the constructor leaves it, called for start .. end.  The *)
(* fields the constructor does not initialise are written before use.      *)
NewFrame(start, end, number) ==
    [pc |-> "enter", start |-> start, end |-> end, number |-> number,
     table |-> <<>>, sub |-> 0, best |-> NoBest, left |-> 0, right |-> 0,
     ok |-> FALSE]

Init ==
    /\ request \in Requests
    /\ frame = NewFrame(request.start, request.end, request.number)
    /\ callers = <<>>

At(label) == frame.pc = label

(* A step of the running calculator alone.                                 *)
Local(f) == frame' = f /\ UNCHANGED <<request, callers>>

Goto(f, label) == [f EXCEPT !.pc = label]

Return(f, ok) == [f EXCEPT !.pc = "return", !.ok = ok]

------------------------------------------------------------------------------
(***************************************************************************)
(* build_best_mpu_entries: guards and the start of select_best_mpu_size    *)
(***************************************************************************)
TooSmall(f) == Wrap(f.end - f.start) < Granule - 1

Refused(f) == Len(f.table) >= MaxEntries \/ f.number >= MaxEntries \/ TooSmall(f)

Refuse ==
    /\ At("enter") /\ Refused(frame)
    /\ Local(Return(frame, FALSE))

(* 0 .. 0xffffffff is special-cased: one region with all its subregions.   *)
SelectFullRange ==
    /\ At("enter") /\ ~Refused(frame) /\ IsFullRange(frame)
    /\ Local([frame EXCEPT !.pc = "build",
                           !.best = [size |-> 0, sub |-> WordSize \div 8, base |-> 0]])

StartSelection ==
    /\ At("enter") /\ ~Refused(frame) /\ ~IsFullRange(frame)
    /\ Local([frame EXCEPT !.pc = "before", !.sub = MaxSubregionSize(frame)])

(***************************************************************************)
(* The loop over subregion sizes.  It stops at a region that uses all of   *)
(* its subregions, and below the smallest subregion.                       *)
(***************************************************************************)
(* Variant: the loop does not make the size smaller.                       *)
HalveSizeNever(f) == [f EXCEPT !.pc = "before"]

HalveSize(f) ==
    [f EXCEPT !.sub = f.sub \div 2,
              !.pc = IF f.sub \div 2 >= Granule THEN "before" ELSE "build"]

(* Try the region that starts at or before start_addr.                     *)
TryBefore ==
    LET base == RegionBefore(frame, frame.sub)
        f    == [frame EXCEPT !.best = Better(frame, base)]
    IN  /\ At("before")
        /\ Local(IF SubregionsMask(frame, frame.sub, base) = {} THEN Goto(f, "build")
                 ELSE IF base # frame.start THEN Goto(f, "after")
                 ELSE HalveSize(f))

(* Try the region that starts after start_addr.                            *)
TryAfter ==
    LET base == RegionAfter(frame, frame.sub)
        f    == [frame EXCEPT !.best = Better(frame, base)]
    IN  /\ At("after")
        /\ Local(IF SubregionsMask(frame, frame.sub, base) = {} THEN Goto(f, "build")
                 ELSE HalveSize(f))

(***************************************************************************)
(* build_entry: the best candidate becomes the next entry of the table.    *)
(***************************************************************************)
BestEntry(f) ==
    [region |-> f.number % NumRegions,
     base   |-> f.best.base,
     size   |-> RegionSize(f.best.sub),
     srd    |-> SubregionsMask(f, f.best.sub, f.best.base)]

(* Variant: the size is added to the start of the region, not of its first *)
(* enabled subregion.                                                      *)
NextAddrOfRegion(f) ==
    IF IsFullRange(f) THEN f.end
    ELSE Wrap(f.best.base + ActualSize(f, f.best.sub, f.best.base))

NextAddr(f) ==
    IF IsFullRange(f) THEN f.end
    ELSE Wrap(FirstAddr(f, f.best.sub, f.best.base)
              + ActualSize(f, f.best.sub, f.best.base))

Build ==
    /\ At("build")
    /\ Local([frame EXCEPT !.pc = "left",
                           !.table = Append(frame.table, BestEntry(frame)),
                           !.number = frame.number + 1,
                           !.left = FirstAddr(frame, frame.best.sub, frame.best.base),
                           !.right = NextAddr(frame)])

------------------------------------------------------------------------------
(***************************************************************************)
(* Coverage to the left and to the right by calculators of their own       *)
(***************************************************************************)
(* Variant: a single granule on the left is not worth an entry.            *)
NeedsLeftBeyondGranule(f) == f.left > f.start + Granule

NeedsLeft(f) == f.left > f.start

(* Variant: the end of the address space is not recognised.                *)
NeedsRightAtTop(f) == f.right < f.end

NeedsRight(f) == f.right < f.end /\ f.right # 0

Call(f, start, end) ==
    /\ callers' = Append(callers, f)
    /\ frame' = NewFrame(start, end, 0)
    /\ UNCHANGED request

CallLeft ==
    /\ At("left") /\ NeedsLeft(frame)
    /\ Call(Goto(frame, "copyLeft"), frame.start, frame.left - 1)

SkipLeft ==
    /\ At("left") /\ ~NeedsLeft(frame)
    /\ Local(Goto(frame, "right"))

CallRight ==
    /\ At("right") /\ NeedsRight(frame)
    /\ Call(Goto(frame, "copyRight"), frame.right, frame.end)

SkipRight ==
    /\ At("right") /\ ~NeedsRight(frame)
    /\ Local(Return(frame, TRUE))

(***************************************************************************)
(* copy_child_entries: REGION is cleared and the number is or-ed in without *)
(* a mask.  The bit above REGION is VALID, which is set anyway; the next   *)
(* one is the granule bit of ADDR.  A number reaches 2 * MaxEntries - 1 at *)
(* most, so no bit above that.                                             *)
(***************************************************************************)
SetGranuleBit(address) ==
    IF (address \div Granule) % 2 = 0 THEN address + Granule ELSE address

(* Variants: the child's numbers are kept; the number is or-ed in one bit  *)
(* to the left, over VALID.                                                *)
RenumberNot(e, number) == e

RenumberHigh(e, number) ==
    [e EXCEPT !.region = (2 * number) % NumRegions,
              !.base = IF number >= NumRegions THEN SetGranuleBit(e.base) ELSE e.base]

Renumber(e, number) ==
    [e EXCEPT !.region = number % NumRegions,
              !.base = IF number >= 2 * NumRegions THEN SetGranuleBit(e.base) ELSE e.base]

(* Variants: no check for a full table; one entry is kept in reserve.      *)
CopiedUnchecked(f, child) == Len(child.table)

CopiedShort(f, child) ==
    LET room == MaxEntries - Len(f.table) - 1
    IN  IF Len(child.table) <= room THEN Len(child.table) ELSE room

Copied(f, child) ==
    LET room == MaxEntries - Len(f.table)
    IN  IF Len(child.table) <= room THEN Len(child.table) ELSE room

WithChild(f, child) ==
    [f EXCEPT !.table = f.table \o [i \in 1 .. Copied(f, child) |->
                                       Renumber(child.table[i], f.number + i - 1)],
              !.number = f.number + Copied(f, child)]

(* The child's return value is ignored: only a table without room for all  *)
(* of its entries makes the parent return false.                           *)
CopyChild ==
    /\ At("return") /\ callers # <<>>
    /\ LET parent == callers[Len(callers)]
           f      == WithChild(parent, frame)
       IN  frame' = IF Copied(parent, frame) < Len(frame.table) THEN Return(f, FALSE)
                    ELSE IF parent.pc = "copyLeft" THEN Goto(f, "right")
                    ELSE Return(f, TRUE)
    /\ callers' = SubSeq(callers, 1, Len(callers) - 1)
    /\ UNCHANGED request

Next ==
    \/ Refuse \/ SelectFullRange \/ StartSelection
    \/ TryBefore \/ TryAfter \/ Build
    \/ CallLeft \/ SkipLeft \/ CallRight \/ SkipRight
    \/ CopyChild

(* The code is sequential and does not block: it takes its next step.      *)
Spec == Init /\ [][Next]_vars /\ WF_vars(Next)

Done == At("return") /\ callers = <<>>

------------------------------------------------------------------------------
(***************************************************************************)
(* What the calls are for                                                  *)
(***************************************************************************)

(* Coverage is counted in granules: the last partial granule is dropped,   *)
(* unless only its last byte is missing (the "+1" in last_subregion).      *)
CoverLimit(end) == IF (end + 2) % Granule = 0 THEN end + 1 ELSE end

GranuleOf(a) == a - (a % Granule)

(* The granules that lie in start .. end as a whole.                       *)
WholeGranules(start, end) ==
    {a \in Addresses : start <= GranuleOf(a) /\ GranuleOf(a) + Granule - 1 <= end}

(* Ranges that keep 4 granules (half of the smallest region) away from the *)
(* top of the address space, or end exactly there and start below that.    *)
ClearOfTop(start, end) ==
    /\ start <= end
    /\ \/ end + 4 * Granule <= WordSize
       \/ end = LastAddress /\ start + 4 * Granule <= WordSize

(* The ranges the code is documented for: cache-line aligned starts.       *)
WellPosed(start, end) == start % Granule = 0 /\ ClearOfTop(start, end)

Calculators == {frame} \cup {callers[i] : i \in DOMAIN callers}

(* Every calculator works on well-formed values and never writes past the  *)
(* end of mpu_table; callers wait inside one of the two recursive calls.   *)
TypeOK ==
    /\ request \in Requests
    /\ frame \in Frames
    /\ callers \in Seq(Frames)
    /\ \A f \in Calculators : Len(f.table) <= MaxEntries
    /\ \A i \in DOMAIN callers : callers[i].pc \in {"copyLeft", "copyRight"}

(***************************************************************************)
(* Coverage                                                                *)
(***************************************************************************)

(* "Have to be careful not go past the last address" (mpu_calculator.cpp:168), *)
(* nor start before the first: for a well-posed range no entry of the table *)
(* maps an address outside it, but for the one byte of CoverLimit.         *)
CoversOnlyRange ==
    WellPosed(frame.start, frame.end) =>
        \A i \in DOMAIN frame.table :
            Mapped(frame.table[i]) \subseteq frame.start .. CoverLimit(frame.end)

(* A call that returns true has mapped every granule that lies in the range, *)
(* whatever the alignment of the range and although the results of the two *)
(* recursive calls are ignored.                                            *)
CoversWholeRange ==
    (At("return") /\ frame.ok) =>
        WholeGranules(frame.start, frame.end) \subseteq MappedBy(frame.table)

(* No address of a well-posed range is mapped twice, so the priority of    *)
(* higher-numbered regions never decides between entries of one call.      *)
EntriesDisjoint ==
    WellPosed(frame.start, frame.end) =>
        \A i, j \in DOMAIN frame.table :
            i < j => Mapped(frame.table[i]) \cap Mapped(frame.table[j]) = {}

(* "This finds the largest mpu entry to cover the majority of the region"  *)
(* (mpu_calculator.cpp:408): no region of the MPU, at whatever address and *)
(* size, has more bytes in subregions inside the range than the entry that *)
(* was selected, for any alignment of start and end.                       *)
FitsIn(f, sub, base) ==
    sub * Cardinality({i \in Subregions : /\ f.start <= base + i * sub
                                          /\ base + (i + 1) * sub - 1 <= f.end})

LargestEntrySelected ==
    (At("build") /\ ClearOfTop(frame.start, frame.end)) =>
        LET selected == Cardinality(Mapped(BestEntry(frame)))
        IN  \A sub \in {p \in PowersOfTwo : Granule <= p /\ 8 * p <= WordSize} :
                \A n \in 0 .. (WordSize \div (8 * sub)) - 1 :
                    FitsIn(frame, sub, n * 8 * sub) <= selected

(***************************************************************************)
(* Entries                                                                 *)
(***************************************************************************)

(* Each calculator on the stack numbers its own entries on from the number *)
(* it was called with: that of the request for the outermost one, 0 for its *)
(* children.  Children have numbers of their own until they are copied.    *)
FirstNumber(depth) == IF depth = 1 THEN request.number ELSE 0

Numbered(f, first) ==
    /\ f.number = first + Len(f.table)
    /\ \A i \in DOMAIN f.table : f.table[i].region = (first + i - 1) % NumRegions

(* In every table, at every depth and after every copy, whole or cut short, *)
(* each entry has the number that follows the one before it, in a REGION   *)
(* field that counts modulo NumRegions (copy_child_entries, build_entry).  *)
RegionsConsecutive ==
    /\ Numbered(frame, FirstNumber(Len(callers) + 1))
    /\ \A i \in DOMAIN callers : Numbered(callers[i], FirstNumber(i))

(* What the hardware asks of an entry: it is big enough for subregions to  *)
(* count (256 bytes), and its base is aligned to its size.  An entry whose *)
(* number runs over REGION and VALID has the granule bit of ADDR set, which *)
(* the hardware ignores.                                                   *)
Programmable(e, number) ==
    /\ 8 * Granule <= RegionBytes(e)
    /\ \/ e.base = RegionBase(e)
       \/ number >= 2 * NumRegions /\ e.base = RegionBase(e) + Granule

ProgrammableTable(f, first) ==
    \A i \in DOMAIN f.table : Programmable(f.table[i], first + i - 1)

(* Every entry of every table is such an entry: selected or copied, of any *)
(* range, reversed ones too, at any depth.                                 *)
EntryProgrammable ==
    /\ ProgrammableTable(frame, FirstNumber(Len(callers) + 1))
    /\ \A i \in DOMAIN callers : ProgrammableTable(callers[i], FirstNumber(i))

(* The subregions of the entry a calculator selected are the ones that it  *)
(* reckoned with, even though it tries sizes whose region size wraps       *)
(* (mpu_calculator.cpp:298) and must then not be selected.                 *)
EntryAsReckoned ==
    \A f \in Calculators :
        f.table # <<>> /\ f.start <= f.end => SubregionBytes(f.table[1]) = f.best.sub

(* False is returned for a range or a number that is refused outright, or  *)
(* with a table that is full; never with room left in it.                  *)
FailsOnlyWhenFull ==
    (At("return") /\ ~frame.ok) =>
        \/ frame.table = <<>> /\ Refused(frame)
        \/ Len(frame.table) = MaxEntries

(* A well-posed range needs two entries for every factor of 8 between the  *)
(* word and the granule, less one: 17 in the code, one more than the MPU   *)
(* has regions and 3 less than MAX_ENTRIES.                                *)
Levels == (Cardinality({p \in PowersOfTwo : Granule < p}) + 2) \div 3

EntriesBounded ==
    WellPosed(frame.start, frame.end) => Len(frame.table) <= 2 * Levels - 1

(* The recursion ends, whatever the request.                               *)
Terminates == <>Done

(***************************************************************************)
(* Refinement: the tables of all calculators together behave as MpuCoverage *)
(***************************************************************************)
OutOfRoom == At("return") /\ ~frame.ok /\ frame.table # <<>>

Status ==
    CASE OutOfRoom -> "full"
      [] Done /\ frame.ok -> "complete"
      [] Done /\ ~frame.ok /\ ~OutOfRoom -> "refused"
      [] OTHER -> "building"

Coverage == INSTANCE MpuCoverage WITH
    Permitted <- LAMBDA r : r.start .. CoverLimit(r.end),
    Required  <- LAMBDA r : WholeGranules(r.start, r.end),
    mapped    <- UNION {MappedBy(f.table) : f \in Calculators},
    status    <- Status

(* Every behaviour of the calculator on well-posed ranges is one of        *)
(* MpuCoverage.                                                            *)
ImplementsCoverage == Coverage!Spec

(***************************************************************************)
(* What the repository says of the calculator and the code does not do     *)
(***************************************************************************)

(* mpu_calculator_test.cpp:528-529: the first and the last mapped address  *)
(* of a range of whole cache lines are its first and its last address.     *)
FirstAndLastAddress ==
    (/\ Done /\ frame.ok /\ frame.start <= frame.end
     /\ frame.start % Granule = 0 /\ (frame.end + 1) % Granule = 0)
        => LET mapped == MappedBy(frame.table)
           IN  /\ {frame.start, frame.end} \subseteq mapped
               /\ mapped \subseteq frame.start .. frame.end

(* mpu_calculator.cpp:34-35: "build_best_mpu_entries() works with arbitrary *)
(* alignment of start_addr and end_addr"; and :168 "have to be careful not *)
(* go past the last address".  Ranges clear of the top of memory.          *)
ArbitraryAlignment ==
    (Done /\ ClearOfTop(frame.start, frame.end)) =>
        MappedBy(frame.table) \subseteq frame.start .. CoverLimit(frame.end)

==============================================================================
