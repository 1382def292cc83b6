------------------------------ MODULE MpuDisplay ------------------------------
(***************************************************************************)
(* mpu_display_t (mpu_display.cpp): display_memory_map decodes the table's *)
(* entries into ranges, has DisjointRanges make intervals of them, and     *)
(* prints one line for each; get_first_and_last_address goes over the same *)
(* ranges.                                                                 *)
(***************************************************************************)
EXTENDS MpuRegion, Sequences

CONSTANT Tables     \* mpu_table: sequences of enabled entries.

ASSUME DisplayAssumption == Tables \subseteq Seq(Entries)

VARIABLES table, ranges, next, start, list, intervals, overflow, done

sweepVars == <<ranges, next, start, list, intervals, overflow, done>>

------------------------------------------------------------------------------
(***************************************************************************)
(* Decoding                                                                *)
(***************************************************************************)
(* Variant: the size is not set for SIZE = 31.                             *)
DecodedSubregionSizeWrapped(e) == e.size \div 8

(* mpu_entry_t::set: SIZE = 31 stands for the whole address space.         *)
DecodedSubregionSize(e) == IF e.size = 0 THEN WordSize \div 8 ELSE e.size \div 8

(* The maximal runs of enabled subregions.                                 *)
IsRun(e, first, last) ==
    /\ first <= last /\ (first .. last) \cap e.srd = {}
    /\ first = 0 \/ first - 1 \in e.srd
    /\ last = 7 \/ last + 1 \in e.srd

RunStart(e, first) == Wrap(e.base + DecodedSubregionSize(e) * first)
RunStop(e, last)   == Wrap(e.base + DecodedSubregionSize(e) * (last + 1) - 1)

(* The constructor of RangeValue swaps its arguments if need be.           *)
RangeValue(a, b, value) ==
    [start |-> IF b < a THEN b ELSE a, stop |-> IF a < b THEN b ELSE a, value |-> value]

(* The ranges of entry i of a table.  value points to the entry.           *)
RangesOf(t, i) ==
    {RangeValue(RunStart(t[i], run[1]), RunStop(t[i], run[2]), i) :
        run \in {r \in Subregions \X Subregions : IsRun(t[i], r[1], r[2])}}

AllRanges(t) == UNION {RangesOf(t, i) : i \in DOMAIN t}

Seqs == INSTANCE SequencesExt

(* v, the vector of ranges.                                                *)
RangeVector(t) == Seqs!SetToSeq(AllRanges(t))

------------------------------------------------------------------------------
(***************************************************************************)
(* display_memory_map                                                      *)
(***************************************************************************)
Sweep == INSTANCE DisjointRanges WITH
    Top <- LastAddress, First <- 0, Last <- LastAddress,
    Values <- UNION {DOMAIN t : t \in Tables},
    Inputs <- {RangeVector(t) : t \in Tables}

Init ==
    /\ table \in Tables
    /\ Sweep!Begin(RangeVector(table))

Next == Sweep!Next /\ UNCHANGED table

Spec == Init /\ [][Next]_<<table, sweepVars>>

(* Variant: the first entry of the list stays.                             *)
ShownEntryFirst(interval) ==
    LET first == CHOOSE i \in interval.list : \A j \in interval.list : i <= j
    IN  table[ranges[first].value]

(* display_interval: max_region stays 0, so every entry of the list takes  *)
(* the place of the one before.                                            *)
ShownEntry(interval) ==
    LET last == CHOOSE i \in interval.list : \A j \in interval.list : j <= i
    IN  table[ranges[last].value]

(* The lines printed: intervals without ranges are shown as unmapped.      *)
IsUnmapped(interval) == interval.list = {}

------------------------------------------------------------------------------
(***************************************************************************)
(* get_first_and_last_address                                              *)
(***************************************************************************)
FirstAddress(t) ==
    LET starts == {r.start : r \in AllRanges(t)} \cup {LastAddress}
    IN  CHOOSE a \in starts : \A b \in starts : a <= b

(* Variant: the end of a run is the end of its first subregion.            *)
LastAddressOfStarts(t) ==
    LET stops == {r.start : r \in AllRanges(t)} \cup {0}
    IN  CHOOSE a \in stops : \A b \in stops : b <= a

LastAddressOf(t) ==
    LET stops == {r.stop : r \in AllRanges(t)} \cup {0}
    IN  CHOOSE a \in stops : \A b \in stops : b <= a

------------------------------------------------------------------------------
(* Addresses that are mapped by an entry, as the hardware decodes it, are  *)
(* printed on a line with an entry that maps the whole line, and the other *)
(* addresses on lines that say unmapped.                                   *)
MapMatchesHardware ==
    done => \A i \in DOMAIN intervals :
        LET line == Sweep!Interval(i)
        IN  IF IsUnmapped(intervals[i]) THEN line \cap MappedBy(table) = {}
            ELSE line \subseteq Mapped(ShownEntry(intervals[i]))

(* The first and the last address are the ends of the mapped lines.  A     *)
(* table that maps nothing has its first address behind its last.          *)
FirstAndLastMatchMap ==
    done => LET mapped == {i \in DOMAIN intervals : ~IsUnmapped(intervals[i])}
            IN  IF mapped = {} THEN FirstAddress(table) = LastAddress /\ LastAddressOf(table) = 0
                ELSE /\ \E i \in mapped : /\ FirstAddress(table) = intervals[i].start
                                          /\ \A j \in mapped : i <= j
                     /\ \E i \in mapped : /\ LastAddressOf(table) = intervals[i].stop
                                          /\ \A j \in mapped : j <= i

(* The entries whose subregions overlap a line, and which of them counts:  *)
(* the one with the highest number.                                        *)
Overlapping(i) == {k \in DOMAIN table : Sweep!Interval(i) \cap Mapped(table[k]) # {}}

(* Where higher-numbered entries refine lower-numbered ones, starting      *)
(* strictly later, the line shows the entry that the MPU uses, although no *)
(* region numbers are compared.                                            *)
Refines(t) ==
    \A r, s \in AllRanges(t) :
        (r.start <= s.stop /\ s.start <= r.stop /\ t[r.value].region < t[s.value].region)
            => r.start < s.start

RefinementShown ==
    (done /\ Refines(table)) => \A i \in DOMAIN intervals : \A k \in Overlapping(i) :
        table[k].region <= ShownEntry(intervals[i]).region

(* README.md:52 and :54 show a map where entry 5, that starts where entry 2 *)
(* does, is printed, and 2 only beyond: of the entries that overlap a line, *)
(* the one with the highest number is shown.                               *)
HighestShown ==
    done => \A i \in DOMAIN intervals : \A k \in Overlapping(i) :
        table[k].region <= ShownEntry(intervals[i]).region

==============================================================================
