--------------------------- MODULE MpuDisplayProofs ---------------------------
(***************************************************************************)
(* The memory map shows what the hardware maps, for every table of aligned *)
(* entries, every word size, and however equal starts are sorted.          *)
(***************************************************************************)
EXTENDS MpuDisplay, MpuRegionTheorems, SequenceTheorems, FiniteSetTheorems

(* What the ARMv7-M MPU asks of an entry that has subregions: its size is a *)
(* power of two of 8 granules or more, and its base is a multiple of it.   *)
Aligned(e) ==
    /\ RegionBytes(e) \in PowersOfTwo
    /\ 8 * Granule <= RegionBytes(e)
    /\ e.base = RegionBase(e)

TablesAligned == \A t \in Tables : \A i \in DOMAIN t : Aligned(t[i])

(* The display makes no search: no call is under way.                      *)
SweepProofs == INSTANCE DisjointRangesProofs WITH
    Top <- LastAddress, First <- 0, Last <- LastAddress,
    Values <- UNION {DOMAIN t : t \in Tables},
    Inputs <- {RangeVector(t) : t \in Tables},
    find <- 0, min <- 0, max <- 0, answer <- "none"

------------------------------------------------------------------------------
(***************************************************************************)
(* Decoding                                                                *)
(***************************************************************************)
(* Whatever an entry holds, its ranges are ranges of addresses.            *)
LEMMA RangeType ==
    ASSUME NEW t \in Tables, NEW r \in AllRanges(t)
    PROVE  /\ r.value \in DOMAIN t
           /\ r \in [start : Addresses, stop : Addresses, value : DOMAIN t]
           /\ r.start <= r.stop
<1>1. t \in Seq(Entries)
  BY DisplayAssumption
<1>2. PICK i \in DOMAIN t : r \in RangesOf(t, i)
  BY DEF AllRanges
<1>3. PICK first \in Subregions, last \in Subregions :
        r = RangeValue(RunStart(t[i], first), RunStop(t[i], last), i)
  BY <1>2 DEF RangesOf
<1>4. t[i].base \in Nat /\ t[i].size \in Nat
  <2>1. t[i] \in Entries
    BY <1>1, <1>2, ElementOfSeq, LenProperties
  <2> QED
    BY <2>1, Constants DEF Entries, Addresses
<1>5. DecodedSubregionSize(t[i]) \in Nat
  BY <1>4, Constants, DivNat DEF DecodedSubregionSize
<1>6. first \in Nat /\ last \in Nat
  BY DEF Subregions
<1>7. RunStart(t[i], first) \in Addresses /\ RunStop(t[i], last) \in Addresses
  <2>1. /\ t[i].base + DecodedSubregionSize(t[i]) * first \in Int
        /\ t[i].base + DecodedSubregionSize(t[i]) * (last + 1) - 1 \in Int
    BY <1>4, <1>5, <1>6
  <2> QED
    BY <2>1, WrapAddress DEF RunStart, RunStop
<1> DEFINE a == RunStart(t[i], first)
           b == RunStop(t[i], last)
<1>8. a \in Nat /\ b \in Nat
  BY <1>7, Constants DEF Addresses
<1> HIDE DEF a, b
<1>9. r = [start |-> IF b < a THEN b ELSE a, stop |-> IF a < b THEN b ELSE a, value |-> i]
  BY <1>3 DEF RangeValue, a, b
<1>10. a \in Addresses /\ b \in Addresses
  BY <1>7 DEF a, b
<1> QED
  BY <1>2, <1>8, <1>9, <1>10

(* The ranges of a table are finitely many, so that a vector holds them.   *)
LEMMA RangesFinite ==
    ASSUME NEW t \in Tables
    PROVE  IsFiniteSet(AllRanges(t))
<1> DEFINE S == ((1 .. Len(t)) \X Subregions) \X Subregions
           f == [s \in S |-> RangeValue(RunStart(t[s[1][1]], s[1][2]),
                                        RunStop(t[s[1][1]], s[2]), s[1][1])]
           T == {f[s] : s \in S}
<1>1. Len(t) \in Nat /\ DOMAIN t = 1 .. Len(t)
  BY DisplayAssumption, LenProperties
<1>2. IsFiniteSet(S)
  <2>1. IsFiniteSet(1 .. Len(t)) /\ IsFiniteSet(Subregions)
    <3>1. \A a, b \in Int : IsFiniteSet(a .. b)
      BY FS_Interval
    <3>2. 0 \in Int /\ 7 \in Int /\ 1 \in Int /\ Len(t) \in Int
      BY <1>1
    <3> QED
      BY <3>1, <3>2, Zenon DEF Subregions
  <2> QED
    BY <2>1, FS_Product
<1>3. IsFiniteSet(T)
  <2>1. f \in Surjection(S, T)
    BY DEF Surjection
  <2> QED
    BY <1>2, <2>1, FS_Surjection
<1>4. AllRanges(t) \subseteq T
  <2> SUFFICES ASSUME NEW r \in AllRanges(t) PROVE r \in T
    OBVIOUS
  <2>1. PICK i \in DOMAIN t : r \in RangesOf(t, i)
    BY DEF AllRanges
  <2>2. PICK run \in Subregions \X Subregions :
          r = RangeValue(RunStart(t[i], run[1]), RunStop(t[i], run[2]), i)
    BY <2>1 DEF RangesOf
  <2>3. <<<<i, run[1]>>, run[2]>> \in S
    BY <1>1, <2>1, <2>2
  <2> QED
    BY <2>2, <2>3
<1> QED
  BY <1>3, <1>4, FS_Subset

(* The vector has all of them and nothing else.                            *)
LEMMA VectorHolds ==
    ASSUME NEW t \in Tables
    PROVE  /\ RangeVector(t) \in Seq(AllRanges(t))
           /\ {RangeVector(t)[i] : i \in DOMAIN RangeVector(t)} = AllRanges(t)
<1> DEFINE S == AllRanges(t)
           n == Cardinality(S)
           v == RangeVector(t)
<1>1. n \in Nat /\ IsFiniteSet(S) /\ ExistsBijection(1 .. n, S)
  BY RangesFinite, FS_CardinalityType
<1>2. PICK b : b \in Bijection(1 .. n, S)
  BY <1>1 DEF ExistsBijection
<1>3. b \in [1 .. n -> S] /\ Seqs!IsInjective(b)
  BY <1>2 DEF Bijection, Injection, IsInjective, Seqs!IsInjective
<1>4. v = CHOOSE f \in [1 .. n -> S] : Seqs!IsInjective(f)
  <2>1. Seqs!Cardinality(S) = Cardinality(S)
    BY DEF Seqs!Cardinality, Cardinality
  <2> QED
    BY <2>1 DEF RangeVector, Seqs!SetToSeq
<1>5. v \in [1 .. n -> S] /\ Seqs!IsInjective(v)
  BY <1>3, <1>4
<1>6. v \in Injection(1 .. n, S)
  BY <1>5 DEF Injection, IsInjective, Seqs!IsInjective
<1>7. v \in Surjection(1 .. n, S)
  <2>1. IsFiniteSet(1 .. n) /\ Cardinality(1 .. n) = n
    BY <1>1, FS_Interval
  <2> QED
    BY <1>1, <1>6, <2>1, FS_Injection
<1>8. \A r \in S : \E i \in 1 .. n : v[i] = r
  BY <1>7 DEF Surjection
<1>9. v \in Seq(S) /\ DOMAIN v = 1 .. n
  BY <1>1, <1>5
<1> QED
  BY <1>5, <1>8, <1>9

(* The sweep is called with what its constructor asks for.                 *)
LEMMA SweepAssumed == SweepProofs!RangesAssumption
<1>1. LastAddress \in Nat \ {0}
  BY Constants DEF LastAddress
<1>2. \A t \in Tables : RangeVector(t) \in Seq(SweepProofs!RangeValues)
  <2> SUFFICES ASSUME NEW t \in Tables PROVE RangeVector(t) \in Seq(SweepProofs!RangeValues)
    OBVIOUS
  <2>1. AllRanges(t) \subseteq SweepProofs!RangeValues
    BY RangeType DEF SweepProofs!RangeValues, Addresses, LastAddress
  <2> QED
    BY <2>1, VectorHolds
<1> QED
  BY <1>1, <1>2 DEF SweepProofs!RangesAssumption, SweepProofs!Scalars

------------------------------------------------------------------------------
(***************************************************************************)
(* Ranges and what the hardware maps                                       *)
(***************************************************************************)
(* An aligned entry is decoded to the subregions of the hardware, and its  *)
(* region ends within the address space.                                   *)
LEMMA EntryGeometry ==
    ASSUME NEW e \in Entries, Aligned(e)
    PROVE  /\ SubregionBytes(e) \in Nat \ {0}
           /\ DecodedSubregionSize(e) = SubregionBytes(e)
           /\ e.base \in Nat /\ RegionBase(e) = e.base
           /\ e.base + 8 * SubregionBytes(e) <= WordSize
<1> DEFINE p == RegionBytes(e)
           q == 8 * Granule
           sub == p \div 8
<1>1. /\ e.base \in Addresses /\ e.base \in Nat /\ e.base < WordSize
      /\ e.size \in Nat /\ e.size < WordSize
  BY Constants DEF Entries, Addresses
<1>2. p \in PowersOfTwo /\ q <= p /\ p \in Nat \ {0} /\ e.base = RegionBase(e)
  BY Constants DEF Aligned
<1>3. p <= WordSize /\ WordSize \in Nat
  BY <1>1, Constants DEF RegionBytes
<1>4. q \in PowersOfTwo /\ q \in Nat \ {0}
  BY EightFold, WordAssumption, Constants
<1>5. PICK k \in Nat : p = q * k
  <2>1. (p % q) = 0
    BY <1>2, <1>4, PowerDivides
  <2> QED
    BY <1>2, <1>4, <2>1, ExactQuotient
<1>6. p = 8 * (Granule * k) /\ Granule * k \in Nat
  BY <1>5, Constants
<1>7. sub = Granule * k /\ sub \in Nat \ {0} /\ p = 8 * sub
  <2>1. sub = Granule * k
    BY <1>6, Multiple
  <2> QED
    BY <1>2, <1>6, <2>1
<1>8. (e.base % p) = 0
  <2>1. e.base = e.base - (e.base % p)
    BY <1>2 DEF RegionBase, AlignDown
  <2>2. (e.base % p) \in Nat
    BY <1>1, <1>2, DivMod
  <2> HIDE DEF p
  <2> QED
    BY <1>1, <2>1, <2>2
<1>9. e.base + p <= WordSize
  BY <1>1, <1>2, <1>3, <1>8, GapToTop
<1>10. SubregionBytes(e) = sub /\ DecodedSubregionSize(e) = sub
  BY DEF SubregionBytes, RegionBytes, DecodedSubregionSize
<1> HIDE DEF p, sub
<1> QED
  BY <1>1, <1>2, <1>7, <1>9, <1>10

(* The range of a run is the addresses of its subregions: no sum wraps.    *)
LEMMA RunRange ==
    ASSUME NEW e \in Entries, Aligned(e), NEW i,
           NEW first \in Subregions, NEW last \in Subregions, IsRun(e, first, last)
    PROVE  LET r == RangeValue(RunStart(e, first), RunStop(e, last), i)
           IN  /\ r.start = e.base + first * SubregionBytes(e)
               /\ r.stop = e.base + (last + 1) * SubregionBytes(e) - 1
               /\ r.value = i
<1> DEFINE sub == SubregionBytes(e)
           a == first * sub
           b == (last + 1) * sub
           base == e.base
<1>1. /\ sub \in Nat \ {0} /\ DecodedSubregionSize(e) = sub /\ base \in Nat
      /\ base + 8 * sub <= WordSize /\ WordSize \in Nat
  BY EntryGeometry, Constants
<1>2. first \in Nat /\ last \in Nat /\ first <= last /\ last + 1 <= 8
  BY DEF Subregions, IsRun
<1> HIDE DEF sub
<1>3. a \in Nat /\ b \in Nat /\ a + sub <= b /\ b <= 8 * sub
  <2>1. first + 1 \in Nat /\ last + 1 \in Nat /\ first + 1 <= last + 1
    BY <1>2
  <2>2. (first + 1) * sub <= b /\ b <= 8 * sub
    BY <1>1, <1>2, <2>1, ProductMonotonic
  <2>3. (first + 1) * sub = a + sub
    BY <1>1, <1>2
  <2> QED
    BY <1>1, <1>2, <2>2, <2>3
<1>4. RunStart(e, first) = Wrap(base + a) /\ RunStop(e, last) = Wrap(base + b - 1)
  BY <1>1, <1>2 DEF RunStart, RunStop
<1> HIDE DEF a, b, base
<1>5. base + a \in Addresses /\ base + b - 1 \in Addresses /\ base + a <= base + b - 1
  BY <1>1, <1>3 DEF Addresses
<1>6. RunStart(e, first) = base + a /\ RunStop(e, last) = base + b - 1
  BY <1>1, <1>3, <1>4, <1>5, WrapAddress
<1>7. RangeValue(base + a, base + b - 1, i) = [start |-> base + a, stop |-> base + b - 1, value |-> i]
  BY <1>1, <1>3, <1>5 DEF RangeValue
<1> QED
  BY <1>6, <1>7 DEF a, b, base, sub

(* An enabled subregion is in a run.                                       *)
LEMMA RunAround ==
    ASSUME NEW e \in Entries, NEW j \in Subregions \ e.srd
    PROVE  \E first \in Subregions, last \in Subregions :
              IsRun(e, first, last) /\ first <= j /\ j <= last
<1> DEFINE D == e.srd
           A == {a \in 0 .. j : (a .. j) \cap D = {}}
           B == {b \in 0 .. 7 - j : (j .. 7 - b) \cap D = {}}
<1>1. j \in 0 .. 7 /\ j \notin D
  BY DEF Subregions
<1> HIDE DEF D
<1>2. j .. j = {j}
  BY <1>1
<1>3. A \subseteq Nat /\ A # {} /\ B \subseteq Nat /\ B # {}
  <2>1. j \in A
    BY <1>1, <1>2
  <2>2. 7 - j \in B
    <3>1. 7 - (7 - j) = j /\ 7 - j \in 0 .. 7 - j
      BY <1>1
    <3> QED
      BY <1>1, <1>2, <3>1
  <2>3. A \subseteq 0 .. j /\ B \subseteq 0 .. 7 - j
    OBVIOUS
  <2>4. 0 .. j \subseteq Nat /\ 0 .. 7 - j \subseteq Nat
    BY <1>1
  <2> HIDE DEF A, B
  <2> QED
    BY <2>1, <2>2, <2>3, <2>4
<1>4. PICK a \in A : \A y \in A : a <= y
  BY <1>3, SweepAssumed, SweepProofs!LeastNatural
<1>5. PICK b \in B : \A y \in B : b <= y
  BY <1>3, SweepAssumed, SweepProofs!LeastNatural
<1>6. a \in 0 .. j /\ (a .. j) \cap D = {}
  OBVIOUS
<1> DEFINE last == 7 - b
<1>7. last \in j .. 7 /\ (j .. last) \cap D = {}
  BY <1>1
<1>8. a = 0 \/ a - 1 \in D
  <2> SUFFICES ASSUME a # 0, a - 1 \notin D PROVE FALSE
    OBVIOUS
  <2>1. a - 1 .. j = {a - 1} \cup (a .. j) /\ a - 1 \in 0 .. j
    BY <1>1, <1>6
  <2>2. a - 1 \in A
    BY <1>6, <2>1
  <2> QED
    BY <1>4, <1>6, <2>2
<1>9. last = 7 \/ last + 1 \in D
  <2> SUFFICES ASSUME last # 7, last + 1 \notin D PROVE FALSE
    OBVIOUS
  <2>1. j .. last + 1 = {last + 1} \cup (j .. last)
    BY <1>1, <1>7
  <2>2. b \in 0 .. 7 - j /\ b # 0 /\ last + 1 = 7 - (b - 1) /\ b - 1 \in 0 .. 7 - j
    BY <1>1
  <2>3. b - 1 \in B
    BY <1>7, <2>1, <2>2
  <2> QED
    BY <1>5, <2>2, <2>3
<1> HIDE DEF last
<1>10. a .. last = (a .. j) \cup (j .. last)
  BY <1>1, <1>6, <1>7
<1>11. (a .. last) \cap D = {} /\ a <= last /\ a \in 0 .. 7 /\ last \in 0 .. 7
  BY <1>1, <1>6, <1>7, <1>10
<1>12. IsRun(e, a, last)
  BY <1>8, <1>9, <1>11 DEF IsRun, D
<1> QED
  BY <1>1, <1>6, <1>7, <1>11, <1>12 DEF Subregions

(* A range has only addresses that its entry maps.                         *)
LEMMA RangesSound ==
    ASSUME TablesAligned, NEW t \in Tables, NEW r \in AllRanges(t)
    PROVE  r.start .. r.stop \subseteq Mapped(t[r.value])
<1>1. PICK i \in DOMAIN t : r \in RangesOf(t, i)
  BY DEF AllRanges
<1>2. PICK first \in Subregions, last \in Subregions :
        /\ IsRun(t[i], first, last)
        /\ r = RangeValue(RunStart(t[i], first), RunStop(t[i], last), i)
  BY <1>1 DEF RangesOf
<1>3. t[i] \in Entries /\ Aligned(t[i])
  BY <1>1, DisplayAssumption, ElementOfSeq, LenProperties DEF TablesAligned
<1> DEFINE e == t[i]
           sub == SubregionBytes(e)
           n == last - first + 1
<1>4. /\ r.start = e.base + first * sub /\ r.stop = e.base + (last + 1) * sub - 1
      /\ r.value = i
  BY <1>2, <1>3, RunRange
<1>5. sub \in Nat \ {0} /\ e.base \in Nat /\ RegionBase(e) = e.base
  BY <1>3, EntryGeometry
<1>6. first \in Nat /\ last \in Nat /\ first <= last /\ last <= 7 /\ (first .. last) \cap e.srd = {}
  BY <1>2 DEF Subregions, IsRun
<1>7. n \in Nat /\ first + n <= 8 /\ first + n - 1 = last
  BY <1>6
<1>8. e.base + first * sub .. e.base + first * sub + n * sub - 1 \subseteq Mapped(e)
  BY <1>5, <1>6, <1>7, MappedCovers
<1>9. (last + 1) * sub = first * sub + n * sub
  BY <1>5, <1>6
<1>10. first * sub \in Nat /\ n * sub \in Nat /\ (last + 1) * sub \in Nat
  BY <1>5, <1>6, <1>7
<1> DEFINE a == first * sub
           b == n * sub
           c == (last + 1) * sub
           base == e.base
<1>11. r.start = base + a /\ r.stop = base + a + b - 1 /\ base + a .. base + a + b - 1 \subseteq Mapped(e)
  <2>1. c = a + b /\ r.stop = base + c - 1 /\ r.start = base + a
    BY <1>4, <1>9
  <2>2. a \in Nat /\ b \in Nat /\ c \in Nat /\ base \in Nat
    BY <1>5, <1>10
  <2>3. base + a .. base + a + b - 1 \subseteq Mapped(e)
    BY <1>8
  <2> HIDE DEF a, b, c, base, e
  <2> QED
    BY <2>1, <2>2, <2>3
<1> QED
  BY <1>4, <1>11

(* Every address an entry maps is in a range of the entry.                 *)
LEMMA RangesComplete ==
    ASSUME TablesAligned, NEW t \in Tables, NEW k \in DOMAIN t, NEW x \in Mapped(t[k])
    PROVE  /\ x \in Nat
           /\ \E r \in AllRanges(t) : r.value = k /\ r.start <= x /\ x <= r.stop
<1> DEFINE e == t[k]
           sub == SubregionBytes(e)
           base == e.base
<1>1. e \in Entries /\ Aligned(e)
  BY DisplayAssumption, ElementOfSeq, LenProperties DEF TablesAligned
<1>2. sub \in Nat \ {0} /\ base \in Nat /\ RegionBase(e) = base
  BY <1>1, EntryGeometry
<1>3. PICK j \in Subregions \ e.srd : x \in Subregion(e, j)
  BY DEF Mapped
<1>4. PICK first \in Subregions, last \in Subregions :
        IsRun(e, first, last) /\ first <= j /\ j <= last
  BY <1>1, RunAround
<1> DEFINE r == RangeValue(RunStart(e, first), RunStop(e, last), k)
<1>5. r \in AllRanges(t)
  <2>1. <<first, last>> \in {s \in Subregions \X Subregions : IsRun(t[k], s[1], s[2])}
    BY <1>4
  <2>2. r \in RangesOf(t, k)
    BY <2>1 DEF RangesOf
  <2> QED
    BY <2>2 DEF AllRanges
<1>6. r.start = base + first * sub /\ r.stop = base + (last + 1) * sub - 1 /\ r.value = k
  BY <1>1, <1>4, RunRange
<1> HIDE DEF r
<1>7. first \in Nat /\ last \in Nat /\ j \in Nat /\ j + 1 \in Nat /\ last + 1 \in Nat
      /\ first <= j /\ j + 1 <= last + 1
  BY <1>4 DEF Subregions
<1> DEFINE a == first * sub
           c == (last + 1) * sub
           d == j * sub
           f == (j + 1) * sub
<1>8. x \in base + d .. base + f - 1
  BY <1>2, <1>3 DEF Subregion
<1>9. a <= d /\ f <= c
  BY <1>2, <1>7, ProductMonotonic
<1>10. a \in Nat /\ c \in Nat /\ d \in Nat /\ f \in Nat
  BY <1>2, <1>7
<1>11. r.start = base + a /\ r.stop = base + c - 1
  BY <1>6
<1> HIDE DEF a, c, d, f, base
<1>12. x \in Nat /\ r.start <= x /\ x <= r.stop
  BY <1>2, <1>8, <1>9, <1>10, <1>11
<1> QED
  BY <1>5, <1>6, <1>12

------------------------------------------------------------------------------
(***************************************************************************)
(* The sweep over the ranges of the table                                  *)
(***************************************************************************)
DisplayInv ==
    /\ table \in Tables
    /\ SweepProofs!SafeInv
    /\ SweepProofs!CutInv
    /\ {ranges[x] : x \in DOMAIN ranges} = AllRanges(table)

(* Sorting changes the order of the ranges and nothing else.               *)
LEMMA SortedHolds ==
    ASSUME NEW t \in Tables, NEW s \in SweepProofs!SortedOrders(RangeVector(t))
    PROVE  {s[x] : x \in DOMAIN s} = AllRanges(t)
<1> DEFINE v == RangeVector(t)
<1>1. PICK p \in SweepProofs!Bijection(DOMAIN v, DOMAIN v) : s = [i \in DOMAIN v |-> v[p[i]]]
  BY DEF SweepProofs!SortedOrders
<1>2. p \in [DOMAIN v -> DOMAIN v] /\ \A i \in DOMAIN v : \E x \in DOMAIN v : p[x] = i
  BY DEF SweepProofs!Bijection, SweepProofs!Injection, SweepProofs!Surjection
<1>3. {v[i] : i \in DOMAIN v} = AllRanges(t)
  BY VectorHolds
<1> HIDE DEF v
<1>4. DOMAIN s = DOMAIN v /\ \A x \in DOMAIN v : s[x] = v[p[x]]
  BY <1>1
<1> QED
  BY <1>2, <1>3, <1>4

LEMMA DisplayInit == Init => DisplayInv
<1> SUFFICES ASSUME Init PROVE DisplayInv
  OBVIOUS
<1>1. table \in Tables /\ Sweep!Begin(RangeVector(table))
  BY DEF Init
<1>2. SweepProofs!Begin(RangeVector(table))
  BY <1>1 DEF Sweep!Begin, SweepProofs!Begin, Sweep!SortedOrders, SweepProofs!SortedOrders,
              Sweep!IsSorted, SweepProofs!IsSorted, Sweep!Bijection, SweepProofs!Bijection,
              Sweep!Injection, SweepProofs!Injection, Sweep!Surjection, SweepProofs!Surjection,
              Sweep!IsInjective, SweepProofs!IsInjective
<1>3. SweepProofs!Init
  BY <1>1, <1>2 DEF SweepProofs!Init
<1>4. SweepProofs!SafeInv /\ SweepProofs!CutInv
  BY <1>3, SweepAssumed, SweepProofs!SweepInit, SweepProofs!CutInit
<1>5. {ranges[x] : x \in DOMAIN ranges} = AllRanges(table)
  BY <1>1, <1>2, SortedHolds DEF SweepProofs!Begin
<1> QED
  BY <1>1, <1>4, <1>5 DEF DisplayInv

LEMMA SameSweep == Sweep!Next => SweepProofs!Next /\ UNCHANGED ranges
BY DEF Sweep!Next, SweepProofs!Next, Sweep!Join, SweepProofs!Join, Sweep!Cut, SweepProofs!Cut,
       Sweep!Drain, SweepProofs!Drain, Sweep!Finish, SweepProofs!Finish,
       Sweep!Remaining, SweepProofs!Remaining, Sweep!Push, SweepProofs!Push,
       Sweep!Reaching, SweepProofs!Reaching, Sweep!Succ, SweepProofs!Succ,
       Sweep!Scalars, SweepProofs!Scalars, Sweep!IsLeast, SweepProofs!IsLeast,
       Sweep!Wraps, SweepProofs!Wraps

LEMMA DisplayStep == DisplayInv /\ [Next]_<<table, sweepVars>> => DisplayInv'
<1> SUFFICES ASSUME DisplayInv, [Next]_<<table, sweepVars>> PROVE DisplayInv'
  OBVIOUS
<1>1. UNCHANGED <<table, ranges>>
  BY SameSweep DEF Next, sweepVars
<1>2. [SweepProofs!Next]_SweepProofs!vars
  BY SameSweep DEF Next, sweepVars, SweepProofs!vars
<1>3. SweepProofs!SafeInv' /\ SweepProofs!CutInv'
  BY <1>2, SweepAssumed, SweepProofs!SweepStep, SweepProofs!CutInvStep DEF DisplayInv
<1> QED
  BY <1>1, <1>3 DEF DisplayInv

(* The inductive invariant: that of the sweep, over exactly the ranges of  *)
(* the table's entries.                                                    *)
THEOREM DisplayKept == Spec => []DisplayInv
BY DisplayInit, DisplayStep, PTL DEF Spec

------------------------------------------------------------------------------
(***************************************************************************)
(* The lines of the map                                                    *)
(***************************************************************************)
LEMMA GreatestNatural ==
    ASSUME NEW T, NEW n \in Nat, T \subseteq 0 .. n, T # {}
    PROVE  \E x \in T : \A y \in T : y <= x
<1> DEFINE G == {g \in 0 .. n : n - g \in T}
<1>1. G \subseteq Nat
  OBVIOUS
<1>2. \A y \in T : n - y \in G
  OBVIOUS
<1>3. G # {}
  BY <1>2
<1>4. PICK g \in G : \A y \in G : g <= y
  BY <1>1, <1>3, SweepAssumed, SweepProofs!LeastNatural
<1>5. \A y \in T : y <= n - g
  BY <1>2, <1>4
<1> QED
  BY <1>4, <1>5

(* What the invariant says of an interval and of a range.                  *)
LEMMA LineFacts ==
    ASSUME DisplayInv, NEW i \in DOMAIN intervals
    PROVE  /\ intervals[i].start \in Nat /\ intervals[i].stop \in Nat
           /\ intervals[i].start <= intervals[i].stop /\ intervals[i].stop <= LastAddress
           /\ intervals[i].list \subseteq DOMAIN ranges
           /\ \A x \in DOMAIN ranges :
                 IF x \in intervals[i].list
                 THEN /\ ranges[x].start <= intervals[i].start
                      /\ intervals[i].stop <= ranges[x].stop
                 ELSE \/ ranges[x].stop < intervals[i].start
                      \/ intervals[i].stop < ranges[x].start
<1>1. SweepProofs!TypeOK /\ SweepProofs!SweepInv
  BY DEF DisplayInv, SweepProofs!SafeInv
<1>2. intervals \in Seq(SweepProofs!Intervals) /\ DOMAIN ranges = 1 .. Len(ranges)
  BY <1>1, LenProperties DEF SweepProofs!TypeOK, SweepProofs!Intervals
<1>3. intervals[i] \in SweepProofs!Intervals
  BY <1>2, ElementOfSeq, LenProperties
<1>4. /\ intervals[i].start \in 0 .. LastAddress /\ intervals[i].stop \in 0 .. LastAddress
      /\ intervals[i].list \subseteq DOMAIN ranges
  BY <1>2, <1>3 DEF SweepProofs!Intervals, SweepProofs!Scalars
<1>5. intervals[i].start <= intervals[i].stop
  BY <1>1 DEF SweepProofs!SweepInv, SweepProofs!Consecutive
<1>6. \A x \in DOMAIN ranges :
        IF x \in intervals[i].list THEN SweepProofs!Covers(ranges[x], i)
        ELSE SweepProofs!Apart(ranges[x], i)
  BY <1>1 DEF SweepProofs!SweepInv, SweepProofs!ListsExact
<1>7. LastAddress \in Nat
  BY Constants DEF LastAddress
<1> QED
  BY <1>4, <1>5, <1>6, <1>7 DEF SweepProofs!Covers, SweepProofs!Apart

LEMMA RangeFacts ==
    ASSUME DisplayInv
    PROVE  /\ table \in Tables /\ LastAddress \in Nat
           /\ DOMAIN ranges = 1 .. Len(ranges) /\ Len(ranges) \in Nat
           /\ \A x \in DOMAIN ranges : ranges[x] \in AllRanges(table)
           /\ \A r \in AllRanges(table) : \E x \in DOMAIN ranges : ranges[x] = r
           /\ \A r \in AllRanges(table) :
                 /\ r.start \in Nat /\ r.stop \in Nat /\ r.value \in DOMAIN table
                 /\ r.start <= r.stop /\ r.stop <= LastAddress
<1>1. table \in Tables /\ LastAddress \in Nat
  BY Constants DEF DisplayInv, LastAddress
<1>2. DOMAIN ranges = 1 .. Len(ranges) /\ Len(ranges) \in Nat
  BY LenProperties DEF DisplayInv, SweepProofs!SafeInv, SweepProofs!TypeOK
<1>3. {ranges[x] : x \in DOMAIN ranges} = AllRanges(table)
  BY DEF DisplayInv
<1>4. \A r \in AllRanges(table) :
        /\ r.start \in Nat /\ r.stop \in Nat /\ r.value \in DOMAIN table
        /\ r.start <= r.stop /\ r.stop <= LastAddress
  <2> SUFFICES ASSUME NEW r \in AllRanges(table)
               PROVE  /\ r.start \in Nat /\ r.stop \in Nat /\ r.value \in DOMAIN table
                      /\ r.start <= r.stop /\ r.stop <= LastAddress
    OBVIOUS
  <2>1. /\ r \in [start : Addresses, stop : Addresses, value : DOMAIN table]
        /\ r.start <= r.stop
    BY <1>1, RangeType
  <2>2. r.start \in Addresses /\ r.stop \in Addresses /\ r.value \in DOMAIN table
    BY <2>1
  <2> QED
    BY <1>1, <2>1, <2>2, Constants DEF Addresses, LastAddress
<1> QED
  BY <1>1, <1>2, <1>3, <1>4

(* The entry of a line with ranges is that of its last range, which has    *)
(* the whole line.                                                         *)
LEMMA ShownIsLast ==
    ASSUME DisplayInv, NEW i \in DOMAIN intervals, intervals[i].list # {}
    PROVE  \E x \in intervals[i].list :
              /\ ShownEntry(intervals[i]) = table[ranges[x].value]
              /\ \A y \in intervals[i].list : y <= x
<1> DEFINE S == intervals[i].list
           L == CHOOSE x \in S : \A y \in S : y <= x
<1>1. S \subseteq 0 .. Len(ranges) /\ Len(ranges) \in Nat
  BY LineFacts, RangeFacts
<1>2. \E x \in S : \A y \in S : y <= x
  BY <1>1, GreatestNatural
<1>3. L \in S /\ \A y \in S : y <= L
  BY <1>2
<1>4. ShownEntry(intervals[i]) = table[ranges[L].value]
  BY DEF ShownEntry
<1> QED
  BY <1>3, <1>4

(* The printed map is the hardware's: an unmapped line has no address that *)
(* any entry maps, and a line with an entry is mapped by it from its first *)
(* address to its last, whatever the table, the word and the granule.      *)
THEOREM MapRight ==
    ASSUME TablesAligned
    PROVE  Spec => []MapMatchesHardware
<1>1. DisplayInv => MapMatchesHardware
  <2> SUFFICES ASSUME DisplayInv, done, NEW i \in DOMAIN intervals
               PROVE  LET line == Sweep!Interval(i)
                      IN  IF IsUnmapped(intervals[i]) THEN line \cap MappedBy(table) = {}
                          ELSE line \subseteq Mapped(ShownEntry(intervals[i]))
    BY DEF MapMatchesHardware
  <2> DEFINE line == intervals[i].start .. intervals[i].stop
  <2>1. Sweep!Interval(i) = line
    BY DEF Sweep!Interval
  <2>2. ASSUME IsUnmapped(intervals[i]), NEW x \in line, x \in MappedBy(table)
        PROVE  FALSE
    <3>1. PICK k \in DOMAIN table : x \in Mapped(table[k])
      BY <2>2 DEF MappedBy
    <3>2. PICK r \in AllRanges(table) : r.start <= x /\ x <= r.stop
      BY <3>1, RangeFacts, RangesComplete
    <3>3. PICK y \in DOMAIN ranges : ranges[y] = r
      BY RangeFacts
    <3>4. r.stop < intervals[i].start \/ intervals[i].stop < r.start
      BY <2>2, <3>3, LineFacts DEF IsUnmapped
    <3>5. /\ r.start \in Nat /\ r.stop \in Nat
          /\ intervals[i].start \in Nat /\ intervals[i].stop \in Nat
      BY RangeFacts, LineFacts
    <3> QED
      BY <2>2, <3>2, <3>4, <3>5
  <2>3. ASSUME ~IsUnmapped(intervals[i])
        PROVE  line \subseteq Mapped(ShownEntry(intervals[i]))
    <3>1. PICK x \in intervals[i].list : ShownEntry(intervals[i]) = table[ranges[x].value]
      BY <2>3, ShownIsLast DEF IsUnmapped
    <3>2. x \in DOMAIN ranges /\ ranges[x] \in AllRanges(table)
      BY LineFacts, RangeFacts
    <3>3. ranges[x].start <= intervals[i].start /\ intervals[i].stop <= ranges[x].stop
      BY <3>2, LineFacts
    <3>4. /\ ranges[x].start \in Nat /\ ranges[x].stop \in Nat
          /\ intervals[i].start \in Nat /\ intervals[i].stop \in Nat
      BY <3>2, RangeFacts, LineFacts
    <3>5. line \subseteq ranges[x].start .. ranges[x].stop
      BY <3>3, <3>4
    <3>6. ranges[x].start .. ranges[x].stop \subseteq Mapped(table[ranges[x].value])
      BY <3>2, RangeFacts, RangesSound
    <3> QED
      BY <3>1, <3>5, <3>6
  <2> QED
    BY <2>1, <2>2, <2>3
<1> QED
  BY <1>1, DisplayKept, PTL

(* Where higher-numbered entries start strictly later than those they      *)
(* overlap, the sorted list ends with the entry that the MPU uses.         *)
THEOREM RefinementRight ==
    ASSUME TablesAligned
    PROVE  Spec => []RefinementShown
<1>1. DisplayInv => RefinementShown
  <2> SUFFICES ASSUME DisplayInv, done, Refines(table),
                      NEW i \in DOMAIN intervals, NEW k \in Overlapping(i)
               PROVE  table[k].region <= ShownEntry(intervals[i]).region
    BY DEF RefinementShown
  <2>1. PICK x \in intervals[i].start .. intervals[i].stop : x \in Mapped(table[k])
    BY DEF Overlapping, Sweep!Interval
  <2>2. k \in DOMAIN table /\ table \in Tables
    BY RangeFacts DEF Overlapping
  <2>3. PICK r \in AllRanges(table) : r.value = k /\ r.start <= x /\ x <= r.stop
    BY <2>1, <2>2, RangesComplete
  <2>4. PICK y \in DOMAIN ranges : ranges[y] = r
    BY RangeFacts
  <2>5. /\ r.start \in Nat /\ r.stop \in Nat
        /\ intervals[i].start \in Nat /\ intervals[i].stop \in Nat
        /\ intervals[i].start <= intervals[i].stop
    BY RangeFacts, LineFacts
  <2>6. y \in intervals[i].list
    <3>1. ~(r.stop < intervals[i].start) /\ ~(intervals[i].stop < r.start)
      BY <2>1, <2>3, <2>5
    <3> QED
      BY <2>4, <3>1, LineFacts
  <2>7. PICK z \in intervals[i].list :
          /\ ShownEntry(intervals[i]) = table[ranges[z].value]
          /\ \A w \in intervals[i].list : w <= z
    BY <2>6, ShownIsLast
  <2> DEFINE s == ranges[z]
  <2>8. z \in DOMAIN ranges /\ s \in AllRanges(table)
    BY LineFacts, RangeFacts
  <2>9. /\ s.start \in Nat /\ s.stop \in Nat /\ s.value \in DOMAIN table
    BY <2>8, RangeFacts
  <2>10. /\ s.start <= intervals[i].start /\ intervals[i].stop <= s.stop
         /\ r.start <= intervals[i].start /\ intervals[i].stop <= r.stop
    BY <2>4, <2>6, <2>8, LineFacts
  <2>11. r.start <= s.start
    <3>1. y <= z /\ y \in Nat /\ z \in Nat
      BY <2>6, <2>7, <2>8, RangeFacts
    <3>2. SweepProofs!IsSorted(ranges)
      BY DEF DisplayInv, SweepProofs!SafeInv, SweepProofs!SweepInv
    <3>3. y < z => r.start <= s.start
      BY <2>4, <2>8, <3>2 DEF SweepProofs!IsSorted
    <3>4. y = z => r = s
      BY <2>4
    <3> QED
      BY <2>5, <3>1, <3>3, <3>4
  <2>12. table[k].region \in Nat /\ table[s.value].region \in Nat
    <3>1. \A j \in DOMAIN table : table[j] \in Entries
      BY <2>2, DisplayAssumption, ElementOfSeq, LenProperties
    <3> QED
      BY <2>2, <2>9, <3>1, RegionAssumption DEF Entries
  <2>13. ~(table[s.value].region < table[r.value].region)
    <3> SUFFICES ASSUME table[s.value].region < table[r.value].region PROVE FALSE
      OBVIOUS
    <3>1. s.start <= r.stop /\ r.start <= s.stop
      BY <2>5, <2>9, <2>10
    <3>2. s.start < r.start
      BY <2>8, <3>1 DEF Refines
    <3> QED
      BY <2>5, <2>9, <2>11, <3>2
  <2> QED
    BY <2>3, <2>7, <2>12, <2>13
<1> QED
  BY <1>1, DisplayKept, PTL

(* The start and the stop of a range are in lines that list the range.     *)
LEMMA LineOf ==
    ASSUME DisplayInv, done, NEW r \in AllRanges(table), NEW a \in Nat,
           r.start <= a, a <= r.stop
    PROVE  \E k \in DOMAIN intervals :
              /\ intervals[k].list # {}
              /\ intervals[k].start <= a /\ a <= intervals[k].stop
              /\ r.start <= intervals[k].start /\ intervals[k].stop <= r.stop
<1>1. a \in 0 .. LastAddress
  BY RangeFacts
<1>2. SweepProofs!SafeInv
  BY DEF DisplayInv
<1>3. PICK k \in 1 .. Len(intervals) : a \in SweepProofs!Interval(k)
  BY <1>1, <1>2, SweepAssumed, SweepProofs!IntervalOf
<1>4. k \in DOMAIN intervals
  BY <1>2, <1>3, SweepAssumed, SweepProofs!IntervalFacts
<1>5. a \in intervals[k].start .. intervals[k].stop
  BY <1>3 DEF SweepProofs!Interval
<1>6. PICK y \in DOMAIN ranges : ranges[y] = r
  BY RangeFacts
<1>7. /\ intervals[k].start \in Nat /\ intervals[k].stop \in Nat
      /\ r.start \in Nat /\ r.stop \in Nat
  BY <1>4, LineFacts, RangeFacts
<1>8. ~(r.stop < intervals[k].start) /\ ~(intervals[k].stop < r.start)
  BY <1>5, <1>7
<1>9. y \in intervals[k].list
  BY <1>4, <1>6, <1>8, LineFacts
<1>10. r.start <= intervals[k].start /\ intervals[k].stop <= r.stop
  BY <1>4, <1>6, <1>9, LineFacts
<1> QED
  BY <1>4, <1>5, <1>7, <1>9, <1>10

(* Of two lines, the later one starts and stops behind the earlier one.    *)
LEMMA LinesOrdered ==
    ASSUME DisplayInv, NEW i \in DOMAIN intervals, NEW j \in DOMAIN intervals, i <= j
    PROVE  intervals[i].start <= intervals[j].start /\ intervals[i].stop <= intervals[j].stop
<1>1. SweepProofs!SafeInv
  BY DEF DisplayInv
<1>2. i \in 1 .. Len(intervals) /\ j \in 1 .. Len(intervals) /\ Len(intervals) \in Nat
  BY <1>1, SweepAssumed, SweepProofs!IntervalFacts
<1>3. /\ intervals[i].start \in Nat /\ intervals[i].stop \in Nat
      /\ intervals[j].start \in Nat /\ intervals[j].stop \in Nat
      /\ intervals[i].start <= intervals[i].stop /\ intervals[j].start <= intervals[j].stop
  BY LineFacts
<1>4. CASE i = j
  BY <1>3, <1>4
<1>5. CASE i < j
  <2>1. intervals[i].stop < intervals[j].start
    BY <1>1, <1>2, <1>5, SweepAssumed, SweepProofs!IntervalsOrdered
  <2> QED
    BY <1>3, <2>1
<1> QED
  BY <1>2, <1>4, <1>5

(* What get_first_and_last_address finds by going over the ranges.         *)
LEMMA FirstIsLeast ==
    ASSUME DisplayInv
    PROVE  LET starts == {r.start : r \in AllRanges(table)} \cup {LastAddress}
           IN  /\ FirstAddress(table) \in starts
               /\ \A b \in starts : FirstAddress(table) <= b
<1> DEFINE starts == {r.start : r \in AllRanges(table)} \cup {LastAddress}
<1>1. starts \subseteq Nat
  BY RangeFacts
<1>2. \E a \in starts : \A b \in starts : a <= b
  BY <1>1, SweepAssumed, SweepProofs!LeastNatural
<1> QED
  BY <1>2 DEF FirstAddress

LEMMA LastIsGreatest ==
    ASSUME DisplayInv
    PROVE  LET stops == {r.stop : r \in AllRanges(table)} \cup {0}
           IN  /\ LastAddressOf(table) \in stops
               /\ \A b \in stops : b <= LastAddressOf(table)
<1> DEFINE stops == {r.stop : r \in AllRanges(table)} \cup {0}
<1>1. stops \subseteq 0 .. LastAddress /\ LastAddress \in Nat
  BY RangeFacts
<1>2. \E a \in stops : \A b \in stops : b <= a
  BY <1>1, GreatestNatural
<1> QED
  BY <1>2 DEF LastAddressOf

LEMMA FirstLine ==
    ASSUME DisplayInv, done, NEW i \in DOMAIN intervals, intervals[i].list # {},
           \A j \in DOMAIN intervals : intervals[j].list # {} => i <= j
    PROVE  FirstAddress(table) = intervals[i].start
<1> DEFINE a == FirstAddress(table)
           b == intervals[i].start
<1>1. /\ b \in Nat /\ intervals[i].stop \in Nat /\ b <= intervals[i].stop
      /\ intervals[i].stop <= LastAddress /\ LastAddress \in Nat
  BY LineFacts, RangeFacts
<1>2. /\ a = LastAddress \/ \E r \in AllRanges(table) : a = r.start
      /\ \A r \in AllRanges(table) : a <= r.start
  BY FirstIsLeast
<1>3. a \in Nat
  BY <1>1, <1>2, RangeFacts
<1>4. a <= b
  <2>1. PICK y \in intervals[i].list : y \in DOMAIN ranges
    BY LineFacts
  <2>2. ranges[y].start <= b /\ ranges[y] \in AllRanges(table)
    BY <2>1, LineFacts, RangeFacts
  <2>3. a <= ranges[y].start /\ ranges[y].start \in Nat
    BY <1>2, <2>2, RangeFacts
  <2> HIDE DEF a, b
  <2> QED
    BY <1>1, <1>3, <2>2, <2>3
<1>5. b <= a
  <2>1. CASE a = LastAddress
    <3> HIDE DEF a, b
    <3> QED
      BY <1>1, <2>1
  <2>2. ASSUME NEW r \in AllRanges(table), a = r.start PROVE b <= a
    <3>1. r.start \in Nat /\ r.stop \in Nat /\ r.start <= r.stop
      BY RangeFacts
    <3>2. PICK k \in DOMAIN intervals :
            intervals[k].list # {} /\ intervals[k].start <= a
      BY <1>3, <2>2, <3>1, LineOf
    <3>3. i <= k
      BY <3>2
    <3>4. b <= intervals[k].start /\ intervals[k].start \in Nat
      BY <3>3, LinesOrdered, LineFacts
    <3> HIDE DEF a, b
    <3> QED
      BY <1>1, <1>3, <3>2, <3>4
  <2> QED
    BY <1>2, <2>1, <2>2
<1> HIDE DEF a, b
<1>6. a = b
  BY <1>1, <1>3, <1>4, <1>5
<1> QED
  BY <1>6 DEF a, b

LEMMA LastLine ==
    ASSUME DisplayInv, done, NEW i \in DOMAIN intervals, intervals[i].list # {},
           \A j \in DOMAIN intervals : intervals[j].list # {} => j <= i
    PROVE  LastAddressOf(table) = intervals[i].stop
<1> DEFINE a == LastAddressOf(table)
           b == intervals[i].stop
<1>1. b \in Nat
  BY LineFacts
<1>2. /\ a = 0 \/ \E r \in AllRanges(table) : a = r.stop
      /\ \A r \in AllRanges(table) : r.stop <= a
  BY LastIsGreatest
<1>3. a \in Nat
  BY <1>2, RangeFacts
<1>4. b <= a
  <2>1. PICK y \in intervals[i].list : y \in DOMAIN ranges
    BY LineFacts
  <2>2. b <= ranges[y].stop /\ ranges[y] \in AllRanges(table)
    BY <2>1, LineFacts, RangeFacts
  <2>3. ranges[y].stop <= a /\ ranges[y].stop \in Nat
    BY <1>2, <2>2, RangeFacts
  <2> HIDE DEF a, b
  <2> QED
    BY <1>1, <1>3, <2>2, <2>3
<1>5. a <= b
  <2>1. CASE a = 0
    <3> HIDE DEF a, b
    <3> QED
      BY <1>1, <2>1
  <2>2. ASSUME NEW r \in AllRanges(table), a = r.stop PROVE a <= b
    <3>1. r.start \in Nat /\ r.stop \in Nat /\ r.start <= r.stop
      BY RangeFacts
    <3>2. PICK k \in DOMAIN intervals :
            intervals[k].list # {} /\ a <= intervals[k].stop
      BY <1>3, <2>2, <3>1, LineOf
    <3>3. k <= i
      BY <3>2
    <3>4. intervals[k].stop <= b /\ intervals[k].stop \in Nat
      BY <3>3, LinesOrdered, LineFacts
    <3> HIDE DEF a, b
    <3> QED
      BY <1>1, <1>3, <3>2, <3>4
  <2> QED
    BY <1>2, <2>1, <2>2
<1> HIDE DEF a, b
<1>6. a = b
  BY <1>1, <1>3, <1>4, <1>5
<1> QED
  BY <1>6 DEF a, b

(* The addresses that get_first_and_last_address finds without the sweep   *)
(* are the ends of the lines the sweep shows as mapped, for every table,    *)
(* aligned or not.                                                         *)
THEOREM FirstAndLastRight == Spec => []FirstAndLastMatchMap
<1>1. DisplayInv => FirstAndLastMatchMap
  <2> DEFINE mapped == {i \in DOMAIN intervals : ~IsUnmapped(intervals[i])}
  <2> SUFFICES ASSUME DisplayInv, done
               PROVE  IF mapped = {} THEN FirstAddress(table) = LastAddress /\ LastAddressOf(table) = 0
                      ELSE /\ \E i \in mapped : /\ FirstAddress(table) = intervals[i].start
                                                /\ \A j \in mapped : i <= j
                           /\ \E i \in mapped : /\ LastAddressOf(table) = intervals[i].stop
                                                /\ \A j \in mapped : j <= i
    BY DEF FirstAndLastMatchMap
  <2>1. mapped = {i \in DOMAIN intervals : intervals[i].list # {}}
    BY DEF IsUnmapped
  <2>2. ASSUME mapped = {} PROVE FirstAddress(table) = LastAddress /\ LastAddressOf(table) = 0
    <3>1. ASSUME NEW r \in AllRanges(table) PROVE FALSE
      <4>1. r.start \in Nat /\ r.stop \in Nat /\ r.start <= r.stop
        BY RangeFacts
      <4>2. \E k \in DOMAIN intervals : intervals[k].list # {}
        BY <4>1, LineOf
      <4> QED
        BY <2>1, <2>2, <4>2
    <3> QED
      BY <3>1, FirstIsLeast, LastIsGreatest
  <2>3. mapped \subseteq 0 .. Len(intervals) /\ Len(intervals) \in Nat
    <3>1. DOMAIN intervals = 1 .. Len(intervals) /\ Len(intervals) \in Nat
      BY SweepAssumed, SweepProofs!IntervalFacts DEF DisplayInv
    <3> QED
      BY <3>1
  <2> HIDE DEF mapped
  <2>4. ASSUME mapped # {}
        PROVE  /\ \E i \in mapped : /\ FirstAddress(table) = intervals[i].start
                                    /\ \A j \in mapped : i <= j
               /\ \E i \in mapped : /\ LastAddressOf(table) = intervals[i].stop
                                    /\ \A j \in mapped : j <= i
    <3>1. mapped \subseteq Nat
      BY <2>3
    <3>2. PICK i \in mapped : \A j \in mapped : i <= j
      BY <2>4, <3>1, SweepAssumed, SweepProofs!LeastNatural
    <3>3. FirstAddress(table) = intervals[i].start
      BY <2>1, <3>2, FirstLine
    <3>4. PICK k \in mapped : \A j \in mapped : j <= k
      BY <2>3, <2>4, GreatestNatural
    <3>5. LastAddressOf(table) = intervals[k].stop
      BY <2>1, <3>4, LastLine
    <3> QED
      BY <3>2, <3>3, <3>4, <3>5
  <2> QED
    BY <2>2, <2>4
<1> QED
  BY <1>1, DisplayKept, PTL

==============================================================================
