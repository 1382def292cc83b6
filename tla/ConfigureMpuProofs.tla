-------------------------- MODULE ConfigureMpuProofs --------------------------
(***************************************************************************)
(* Proofs about ConfigureMpu, for any number of threads, of regions and of *)
(* rows of the table: types, the table of regions as a whole, the last     *)
(* region, PRIMASK, the rows of mpu_dump and the entry made for a request. *)
(***************************************************************************)
EXTENDS ConfigureMpu, MpuRegionTheorems, TLAPS

Rows == {"rowSelect", "rowBase", "rowSize", "rowEnd"}

Places == {"idle", "build", "mask", "select", "clear", "base", "size", "unmask"} \cup Rows

------------------------------------------------------------------------------
(* What registers hold is of the type of contents.                         *)
LEMMA ContentsTyped ==
    /\ Off \in Contents
    /\ \A e \in 0 .. TableSize - 1 : <<"table", e>> \in Contents
    /\ \A t \in Threads : <<"guard", t>> \in Contents /\ <<"config", t>> \in Contents
BY DEF Contents, Off

LEMMA Numbers ==
    /\ NumRegions \in Nat \ {0}
    /\ TableSize \in Nat \ {0}
    /\ TableSize < NumRegions
    /\ LastRegion \in Regions
    /\ MaxCalls \in Nat
    /\ LastRegion \notin 0 .. TableSize - 1
    /\ 0 .. TableSize - 1 \subseteq Regions
BY RegionAssumption, ConfigureAssumption DEF LastRegion, Regions

(* Register pairs.                                                         *)
LEMMA PairUpdate ==
    ASSUME NEW S, NEW x \in S \X S, NEW a \in S
    PROVE  /\ [x EXCEPT ![1] = a] \in S \X S
           /\ [x EXCEPT ![1] = a][1] = a
           /\ [x EXCEPT ![2] = a] \in S \X S
           /\ [x EXCEPT ![2] = a] = <<x[1], a>>
OBVIOUS

(* The entry made for a request is one the registers can hold.             *)
LEMMA FitEntryTyped ==
    ASSUME NEW r \in FitRequests, NEW size \in Sizes
    PROVE  FitEntry(r, size) \in Entries
<1>1. NumRegions - 1 \in 0 .. NumRegions - 1
  BY RegionAssumption
<1>2. size \in Addresses
  <2>1. CASE size = 0
    BY <2>1, Constants DEF Addresses
  <2>2. CASE size \in PowersOfTwo \cap Addresses
    BY <2>2
  <2> QED
    BY <2>1, <2>2 DEF Sizes
<1>3. r.base \in Addresses
  BY DEF FitRequests
<1> QED
  BY <1>1, <1>2, <1>3 DEF FitEntry, Entries

------------------------------------------------------------------------------
(* Types: the blocks of the table stay within it, the loops of the start-up *)
(* and of mpu_dump within the regions.                                     *)
TypeInv ==
    /\ TypeOK
    /\ boot = "clear" => count < NumRegions
    /\ boot = "copy" => table + count = TableSize /\ word <= 2 * BlockRows
    /\ \A t \in Threads : pc[t] \in Rows => row[t] < NumRegions

LEMMA TypeInit == Init => TypeInv
<1> SUFFICES ASSUME Init PROVE TypeInv
  OBVIOUS
<1>1. <<"reset", 0>> \in Contents /\ 0 \in Regions
  BY Numbers DEF Contents, Regions
<1>2. <<Off, Off>> \in Contents \X Contents
  BY ContentsTyped
<1>3. /\ rnr \in Regions
      /\ rbar \in [Regions -> Contents]
      /\ rasr \in [Regions -> Contents]
  BY <1>1 DEF Init
<1>4. count \in 0 .. NumRegions /\ table \in 0 .. TableSize /\ word \in 0 .. 2 * Aliases
      /\ calls \in 0 .. MaxCalls
  BY Numbers DEF Init, Aliases
<1>5. row \in [Threads -> 0 .. NumRegions] /\ shown \in [Threads -> Contents \X Contents]
  BY <1>2, Numbers DEF Init
<1>6. \A t \in Threads : built[t] \subseteq [request : FitRequests, entry : Entries]
  BY DEF Init
<1>7. TypeOK
  BY <1>3, <1>4, <1>5, <1>6 DEF Init, TypeOK
<1> QED
  BY <1>7 DEF Init, TypeInv, Rows

LEMMA TypeBoot ==
    ASSUME TypeInv, Boot
    PROVE  TypeInv'
<1> USE Numbers DEF bootVars, registers, scheduler, threadVars, history, Rows
<1>1. CASE Disable
  <2>1. count' \in 0 .. NumRegions /\ boot' = "select"
    BY <1>1 DEF Disable
  <2> QED
    BY <1>1, <2>1 DEF Disable, TypeInv, TypeOK
<1>2. CASE ClrSelect
  <2>1. count \in Regions
    BY <1>2 DEF ClrSelect, TypeInv, TypeOK, Regions
  <2> QED
    BY <1>2, <2>1 DEF ClrSelect, WriteRNR, TypeInv, TypeOK
<1>3. CASE ClrRasr
  <2>1. rasr' \in [Regions -> Contents]
    BY <1>3, ContentsTyped DEF ClrRasr, WriteRASR, TypeInv, TypeOK
  <2>2. count' \in 0 .. NumRegions
    BY <1>3 DEF ClrRasr, TypeInv, TypeOK
  <2> QED
    BY <1>3, <2>1, <2>2 DEF ClrRasr, WriteRASR, TypeInv, TypeOK
<1>4. CASE LoadCall
  <2>1. count' \in 0 .. NumRegions /\ table' \in 0 .. TableSize /\ table' + count' = TableSize
    BY <1>4 DEF LoadCall, TypeInv, TypeOK
  <2>2. word' <= 2 * BlockRows'
    BY <1>4, <2>1 DEF LoadCall, BlockRows, Aliases
  <2> QED
    BY <1>4, <2>1, <2>2 DEF LoadCall, TypeInv, TypeOK, Aliases
<1>5. CASE CopyWord
  <2> DEFINE e == table + (word \div 2)
  <2>1. count \in Nat /\ table \in Nat /\ word \in Nat /\ table + count = TableSize
    BY <1>5 DEF CopyWord, TypeInv, TypeOK
  <2>2. BlockRows \in Nat /\ BlockRows <= Aliases /\ BlockRows <= count
    BY <2>1 DEF BlockRows, Aliases
  <2>3. e \in 0 .. TableSize - 1
    BY <1>5, <2>1, <2>2 DEF CopyWord
  <2>4. e \in Regions /\ <<"table", e>> \in Contents
    BY <2>3, ContentsTyped
  <2> HIDE DEF e
  <2>5. WriteRBAR(e, <<"table", e>>) \/ WriteRASR(<<"table", e>>)
    BY <1>5 DEF CopyWord, e
  <2>6. rnr' \in Regions /\ rbar' \in [Regions -> Contents] /\ rasr' \in [Regions -> Contents]
        /\ UNCHANGED enabled
    BY <2>4, <2>5 DEF WriteRBAR, WriteRASR, TypeInv, TypeOK
  <2>7. word' \in 0 .. 2 * Aliases /\ word' <= 2 * BlockRows'
    BY <1>5, <2>1, <2>2 DEF CopyWord, BlockRows, Aliases
  <2> QED
    BY <1>5, <2>6, <2>7 DEF CopyWord, TypeInv, TypeOK
<1>6. CASE NextBlock
  <2>1. count \in Nat /\ table \in Nat /\ table + count = TableSize
    BY <1>6 DEF NextBlock, TypeInv, TypeOK
  <2>2. /\ table' \in 0 .. TableSize /\ count' \in 0 .. NumRegions
        /\ table' + count' = TableSize
    BY <1>6, <2>1 DEF NextBlock, MoreBlocks, Aliases
  <2>3. word' = 0 /\ word' \in 0 .. 2 * Aliases
    BY <1>6 DEF NextBlock, Aliases
  <2>5. count' \in Nat
    BY <2>2
  <2>6. word' <= 2 * BlockRows'
    <3>1. BlockRows' = IF count' > Aliases THEN Aliases ELSE count'
      BY DEF BlockRows, Aliases
    <3>2. BlockRows' \in Nat
      BY <2>5, <3>1 DEF Aliases
    <3> DEFINE n == BlockRows'
    <3> HIDE DEF n
    <3>3. n \in Nat => 0 <= 2 * n
      OBVIOUS
    <3> QED
      BY <2>3, <3>2, <3>3 DEF n
  <2>4. boot' \in {"copy", "enable"}
    BY <1>6 DEF NextBlock
  <2> QED
    BY <1>6, <2>2, <2>3, <2>4, <2>6 DEF NextBlock, TypeInv, TypeOK
<1>7. CASE Enable
  BY <1>7 DEF Enable, TypeInv, TypeOK
<1> QED
  BY <1>1, <1>2, <1>3, <1>4, <1>5, <1>6, <1>7 DEF Boot

LEMMA TypeSwitch ==
    ASSUME TypeInv, Switch
    PROVE  TypeInv'
<1>1. PICK t \in Threads \ {running} :
        /\ running' = t
        /\ IF StackGuard
           THEN /\ rnr' = LastRegion
                /\ rbar' = [rbar EXCEPT ![LastRegion] = <<"guard", t>>]
                /\ rasr' = [rasr EXCEPT ![LastRegion] = <<"guard", t>>]
                /\ UNCHANGED enabled
           ELSE UNCHANGED registers
  BY DEF Switch, ApplyGuard
<1>2. rnr' \in Regions /\ rbar' \in [Regions -> Contents] /\ rasr' \in [Regions -> Contents]
      /\ enabled' \in BOOLEAN
  BY <1>1, Numbers, ContentsTyped DEF TypeInv, TypeOK, registers
<1>3. cut' \in BOOLEAN /\ rowCut' \in [Threads -> BOOLEAN]
  BY DEF Switch, TypeInv, TypeOK
<1> QED
  BY <1>1, <1>2, <1>3 DEF Switch, TypeInv, TypeOK, bootVars, threadVars, BlockRows, Rows

LEMMA TypeThread ==
    ASSUME TypeInv, NEW t \in Threads, ThreadStep(t)
    PROVE  TypeInv'
<1> USE Numbers DEF bootVars, registers, scheduler, threadVars, history, Rows, At, Go, BlockRows
<1>1. CASE MaskByCaller(t)
  BY <1>1 DEF MaskByCaller, TypeInv, TypeOK
<1>2. ASSUME NEW f \in {"configure", "clear", "dump"}, Call(t, f)
      PROVE  TypeInv'
  <2>1. calls' \in 0 .. MaxCalls
    BY <1>2 DEF Call, TypeInv, TypeOK
  <2> QED
    BY <1>2, <2>1 DEF Call, TypeInv, TypeOK
<1>3. CASE Build(t)
  <2>1. PICK r \in Requests, size \in Sizes :
          built' = [built EXCEPT ![t] = {[request |-> r, entry |-> FitEntry(r, size)]}]
    BY <1>3 DEF Build
  <2>2. r \in FitRequests /\ FitEntry(r, size) \in Entries
    BY ConfigureAssumption, FitEntryTyped
  <2>3. \A u \in Threads : built'[u] \subseteq [request : FitRequests, entry : Entries]
    BY <2>1, <2>2 DEF TypeInv, TypeOK
  <2> QED
    BY <1>3, <2>3 DEF Build, TypeInv, TypeOK
<1>4. CASE Mask(t)
  BY <1>4 DEF Mask, DisabledMask, TypeInv, TypeOK
<1>5. CASE Select(t)
  BY <1>5 DEF Select, WriteRNR, TypeInv, TypeOK
<1>6. CASE Clear(t)
  <2>1. rasr' \in [Regions -> Contents]
    BY <1>6, ContentsTyped DEF Clear, WriteRASR, TypeInv, TypeOK
  <2> QED
    BY <1>6, <2>1 DEF Clear, WriteRASR, TypeInv, TypeOK
<1>7. CASE SetBase(t)
  <2>1. rbar' \in [Regions -> Contents]
    BY <1>7, ContentsTyped DEF SetBase, WriteRBAR, TypeInv, TypeOK
  <2> QED
    BY <1>7, <2>1 DEF SetBase, WriteRBAR, TypeInv, TypeOK
<1>8. CASE SetSize(t)
  <2>1. rasr' \in [Regions -> Contents]
    BY <1>8, ContentsTyped DEF SetSize, WriteRASR, TypeInv, TypeOK
  <2> QED
    BY <1>8, <2>1 DEF SetSize, WriteRASR, TypeInv, TypeOK
<1>9. CASE Unmask(t)
  BY <1>9 DEF Unmask, RestoredMask, TypeInv, TypeOK
<1>10. CASE RowSelect(t)
  <2>1. row[t] \in Regions
    BY <1>10 DEF RowSelect, Regions, TypeInv, TypeOK
  <2>2. rnr' \in Regions /\ UNCHANGED <<rbar, rasr, enabled>>
    BY <1>10, <2>1 DEF RowSelect, RowRegion, WriteRNR
  <2> QED
    BY <1>10, <2>1, <2>2 DEF RowSelect, TypeInv, TypeOK
<1>11. CASE RowBase(t)
  <2>1. rbar[rnr] \in Contents /\ shown[t] \in Contents \X Contents
    BY DEF TypeInv, TypeOK
  <2>2. [shown[t] EXCEPT ![1] = rbar[rnr]] \in Contents \X Contents
    BY <2>1, PairUpdate
  <2>3. shown' \in [Threads -> Contents \X Contents]
    BY <1>11, <2>2 DEF RowBase, TypeInv, TypeOK
  <2> QED
    BY <1>11, <2>3 DEF RowBase, TypeInv, TypeOK
<1>12. CASE RowSize(t)
  <2>1. rasr[rnr] \in Contents /\ shown[t] \in Contents \X Contents
    BY DEF TypeInv, TypeOK
  <2>2. [shown[t] EXCEPT ![2] = rasr[rnr]] \in Contents \X Contents
    BY <2>1, PairUpdate
  <2>3. shown' \in [Threads -> Contents \X Contents]
    BY <1>12, <2>2 DEF RowSize, TypeInv, TypeOK
  <2> QED
    BY <1>12, <2>3 DEF RowSize, TypeInv, TypeOK
<1>13. CASE RowEnd(t)
  <2>1. row' \in [Threads -> 0 .. NumRegions]
    BY <1>13 DEF RowEnd, TypeInv, TypeOK
  <2>2. shown' \in [Threads -> Contents \X Contents]
    BY <1>13, ContentsTyped DEF RowEnd, TypeInv, TypeOK
  <2>3. \A u \in Threads : pc'[u] \in Rows => row'[u] < NumRegions
    BY <1>13 DEF RowEnd, TypeInv, TypeOK
  <2>4. task' \in [Threads -> {"none", "configure", "clear", "dump"}]
        /\ pc' \in [Threads -> {"idle", "build", "mask", "select", "clear", "base", "size",
                           "unmask", "rowSelect", "rowBase", "rowSize", "rowEnd"}]
    BY <1>13 DEF RowEnd, TypeInv, TypeOK
  <2> QED
    BY <1>13, <2>1, <2>2, <2>3, <2>4 DEF RowEnd, TypeInv, TypeOK
<1> QED
  BY <1>1, <1>2, <1>3, <1>4, <1>5, <1>6, <1>7, <1>8, <1>9, <1>10, <1>11, <1>12, <1>13
  DEF ThreadStep

LEMMA TypeNext == TypeInv /\ [Next]_vars => TypeInv'
<1> SUFFICES ASSUME TypeInv, [Next]_vars PROVE TypeInv'
  OBVIOUS
<1>1. CASE UNCHANGED vars
  BY <1>1 DEF vars, bootVars, registers, scheduler, threadVars, history, TypeInv, TypeOK,
              BlockRows
<1> QED
  BY <1>1, TypeBoot, TypeSwitch, TypeThread DEF Next

(***************************************************************************)
(* The loops of Configure_MPU, ARM_MPU_Load and mpu_dump never select a    *)
(* region the MPU does not have, and read no row behind the table, for any *)
(* number of regions, of rows and of threads.                              *)
(***************************************************************************)
THEOREM Types == Spec => []TypeOK
<1>1. TypeInv => TypeOK
  BY DEF TypeInv
<1> QED
  BY <1>1, TypeInit, TypeNext, PTL DEF Spec

------------------------------------------------------------------------------
(***************************************************************************)
(* PRIMASK.  A suspended thread left PRIMASK 0: its own value is 0, or its *)
(* guard object has saved it.                                              *)
(***************************************************************************)
MaskInv ==
    \A t \in Threads :
        IF Guarded(t) THEN saved[t] = own[t]
        ELSE own[t] = (IF t = running THEN primask ELSE 0)

LEMMA MaskInit == Init => MaskInv
BY DEF Init, MaskInv, Guarded

LEMMA MaskThread ==
    ASSUME TypeOK, MaskInv, NEW t \in Threads, ThreadStep(t)
    PROVE  MaskInv'
<1> USE DEF bootVars, scheduler, threadVars, history, At, Go, Guarded, MaskInv, TypeOK
<1>1. CASE MaskByCaller(t)
  BY <1>1 DEF MaskByCaller
<1>2. ASSUME NEW f \in {"configure", "clear", "dump"}, Call(t, f)
      PROVE  MaskInv'
  <2>1. pc' = [pc EXCEPT ![t] = pc'[t]] /\ pc'[t] \in {"build", "mask", "rowSelect"}
    BY <1>2 DEF Call
  <2> QED
    BY <1>2, <2>1 DEF Call
<1>3. CASE Build(t)
  <2>1. pc' = [pc EXCEPT ![t] = "mask"] /\ pc[t] = "build"
        /\ UNCHANGED <<saved, own, running, primask>>
    BY <1>3 DEF Build
  <2> QED
    BY <2>1
<1>4. CASE Mask(t)
  BY <1>4 DEF Mask
<1>5. CASE Select(t)
  BY <1>5 DEF Select
<1>6. CASE Clear(t)
  <2>1. pc' = [pc EXCEPT ![t] = pc'[t]] /\ pc'[t] \in {"base", "unmask"}
    BY <1>6 DEF Clear
  <2> QED
    BY <1>6, <2>1 DEF Clear
<1>7. CASE SetBase(t)
  BY <1>7 DEF SetBase
<1>8. CASE SetSize(t)
  BY <1>8 DEF SetSize
<1>9. CASE Unmask(t)
  BY <1>9 DEF Unmask, RestoredMask
<1>10. CASE RowSelect(t)
  BY <1>10 DEF RowSelect
<1>11. CASE RowBase(t)
  BY <1>11 DEF RowBase
<1>12. CASE RowSize(t)
  BY <1>12 DEF RowSize
<1>13. CASE RowEnd(t)
  <2>1. pc' = [pc EXCEPT ![t] = pc'[t]] /\ pc'[t] \in {"rowSelect", "idle"}
    BY <1>13 DEF RowEnd
  <2> QED
    BY <1>13, <2>1 DEF RowEnd
<1> QED
  BY <1>1, <1>2, <1>3, <1>4, <1>5, <1>6, <1>7, <1>8, <1>9, <1>10, <1>11, <1>12, <1>13
  DEF ThreadStep

LEMMA MaskNext == TypeOK /\ MaskInv /\ [Next]_vars => MaskInv'
<1> SUFFICES ASSUME TypeOK, MaskInv, [Next]_vars PROVE MaskInv'
  OBVIOUS
<1> USE DEF scheduler, threadVars, history, Guarded, MaskInv
<1>1. CASE UNCHANGED vars
  BY <1>1 DEF vars
<1>2. CASE Boot
  <2>1. UNCHANGED <<primask, running, pc, saved, own>>
    BY <1>2 DEF Boot, Disable, ClrSelect, ClrRasr, LoadCall, CopyWord, NextBlock, Enable
  <2> QED
    BY <2>1
<1>3. CASE Switch
  <2>1. primask = 0 /\ UNCHANGED <<primask, pc, saved, own>>
    BY <1>3 DEF Switch
  <2> QED
    BY <2>1
<1> QED
  BY <1>1, <1>2, <1>3, MaskThread DEF Next

(***************************************************************************)
(* Calls give PRIMASK back as they found it, whatever the other threads    *)
(* did to it while the calling one was suspended: no thread is left with   *)
(* interrupts masked, or unmasked, that it did not mask or unmask itself.  *)
(***************************************************************************)
THEOREM MaskIsRestored == Spec => []MaskRestored
<1>1. MaskInv => MaskRestored
  BY DEF MaskInv, MaskRestored, Guarded
<1>2. MaskInv /\ TypeOK /\ [Next]_vars => MaskInv'
  BY MaskNext
<1> QED
  BY <1>1, <1>2, MaskInit, Types, PTL DEF Spec

------------------------------------------------------------------------------
(***************************************************************************)
(* Configure_MPU, loop by loop.  Nothing else runs, the MPU is off, the    *)
(* regions below count are off, and then Copied words of the table are in  *)
(* the registers.                                                          *)
(***************************************************************************)
Copied == 2 * table + word

IdleInv ==
    boot # "done" => primask = 0 /\ ~cut /\ \A t \in Threads : pc[t] = "idle"

DisabledInv == boot \in {"select", "clear", "copy", "enable"} => ~enabled

ClearInv ==
    /\ boot \in {"select", "clear"} => \A r \in Regions : r < count => rasr[r] = Off
    /\ boot = "clear" => rnr = count
    /\ boot \in {"copy", "enable"} => rasr[LastRegion] = Off

CopyInv ==
    /\ boot = "copy" =>
        /\ \A r \in 0 .. TableSize - 1 :
            /\ 2 * r < Copied => rbar[r] = <<"table", r>>
            /\ 2 * r + 1 < Copied => rasr[r] = <<"table", r>>
        /\ word % 2 = 1 => rnr = table + (word \div 2)
    /\ boot = "enable" => TableIntact

StartInv == IdleInv /\ DisabledInv /\ ClearInv /\ CopyInv

LEMMA StartInit == Init => StartInv
BY DEF Init, StartInv, IdleInv, DisabledInv, ClearInv, CopyInv

(* One more word of the block: the row it belongs to, and its half.        *)
LEMMA HalfOfWord ==
    ASSUME NEW w \in Nat, NEW b \in Nat
    PROVE  /\ b + (w \div 2) \in Nat
           /\ w % 2 = 0 => 2 * (b + (w \div 2)) = 2 * b + w
           /\ w % 2 = 0 => (w + 1) \div 2 = w \div 2
           /\ w % 2 = 1 => 2 * (b + (w \div 2)) + 1 = 2 * b + w
           /\ w % 2 = 1 => (w + 1) % 2 = 0
           /\ w % 2 \in {0, 1}
<1>1. w \div 2 \in Nat /\ w % 2 \in Nat /\ w % 2 < 2 /\ w = 2 * (w \div 2) + (w % 2)
  BY DivMod, DivNat
<1>2. w % 2 = 0 => (w + 1) \div 2 = w \div 2
  BY <1>1, DivUnique
<1>3. w % 2 = 1 => (w + 1) % 2 = 0
  <2>1. w % 2 = 1 => w + 1 = 2 * ((w \div 2) + 1)
    BY <1>1
  <2> QED
    BY <1>1, <2>1, Multiple
<1> QED
  BY <1>1, <1>2, <1>3

LEMMA CopyWordStep ==
    ASSUME TypeInv, StartInv, CopyWord
    PROVE  ClearInv' /\ CopyInv'
<1> DEFINE e == table + (word \div 2)
<1>1. boot = "copy" /\ boot' = "copy" /\ word < 2 * BlockRows /\ word' = word + 1
      /\ table' = table /\ count' = count
  BY DEF CopyWord
<1>2. word \in Nat /\ table \in Nat /\ count \in Nat /\ table + count = TableSize
  BY <1>1 DEF TypeInv, TypeOK
<1>3. BlockRows \in Nat /\ BlockRows <= count
  BY <1>2 DEF BlockRows, Aliases
<1>4. /\ e \in Nat
      /\ word % 2 = 0 => 2 * e = Copied
      /\ word % 2 = 0 => word' \div 2 = word \div 2
      /\ word % 2 = 1 => 2 * e + 1 = Copied
      /\ word % 2 = 1 => word' % 2 = 0
      /\ word % 2 \in {0, 1}
  BY <1>1, <1>2, HalfOfWord DEF Copied
<1>5. Copied \in Nat /\ Copied < 2 * TableSize /\ Copied' = Copied + 1
  BY <1>1, <1>2, <1>3 DEF Copied
<1>6. e \in 0 .. TableSize - 1 /\ e \in Regions /\ e # LastRegion /\ LastRegion \in Regions
  <2>1. e < TableSize
    BY <1>4, <1>5, Numbers
  <2>2. e \in 0 .. TableSize - 1
    BY <1>4, <2>1, Numbers
  <2> QED
    BY <2>2, Numbers
<1>7. rbar \in [Regions -> Contents] /\ rasr \in [Regions -> Contents]
  BY DEF TypeInv, TypeOK
<1>8. rasr[LastRegion] = Off
  BY <1>1 DEF StartInv, ClearInv
<1>9. \A r \in 0 .. TableSize - 1 :
        /\ 2 * r < Copied => rbar[r] = <<"table", r>>
        /\ 2 * r + 1 < Copied => rasr[r] = <<"table", r>>
  BY <1>1 DEF StartInv, CopyInv
<1>10. CASE word % 2 = 0
  <2>1. rnr' = e /\ rbar' = [rbar EXCEPT ![e] = <<"table", e>>] /\ rasr' = rasr
    BY <1>10 DEF CopyWord, WriteRBAR
  <2> HIDE DEF e
  <2>2. ASSUME NEW r \in 0 .. TableSize - 1
        PROVE  /\ 2 * r < Copied' => rbar'[r] = <<"table", r>>
               /\ 2 * r + 1 < Copied' => rasr'[r] = <<"table", r>>
    <3>1. r \in Nat /\ r \in Regions /\ (2 * r < Copied' => r = e \/ 2 * r < Copied)
      BY <1>4, <1>5, <1>10, Numbers
    <3>2. 2 * r + 1 < Copied' => 2 * r + 1 < Copied
      BY <1>4, <1>5, <1>6, <1>10, <3>1
    <3> QED
      BY <1>6, <1>7, <1>9, <2>1, <3>1, <3>2
  <2>3. rnr' = table' + (word' \div 2)
    BY <1>1, <1>4, <1>10, <2>1 DEF e
  <2> QED
    BY <1>1, <1>8, <2>1, <2>2, <2>3 DEF ClearInv, CopyInv
<1>11. CASE word % 2 = 1
  <2>1. rnr = e
    BY <1>1, <1>11 DEF StartInv, CopyInv
  <2>2. rasr' = [rasr EXCEPT ![e] = <<"table", e>>] /\ rbar' = rbar
    BY <1>11, <2>1 DEF CopyWord, WriteRASR
  <2> HIDE DEF e
  <2>3. ASSUME NEW r \in 0 .. TableSize - 1
        PROVE  /\ 2 * r < Copied' => rbar'[r] = <<"table", r>>
               /\ 2 * r + 1 < Copied' => rasr'[r] = <<"table", r>>
    <3>1. r \in Nat /\ r \in Regions /\ (2 * r + 1 < Copied' => r = e \/ 2 * r + 1 < Copied)
      BY <1>4, <1>5, <1>11, Numbers
    <3>2. 2 * r < Copied' => 2 * r < Copied
      BY <1>4, <1>5, <1>6, <1>11, <3>1
    <3> QED
      BY <1>6, <1>7, <1>9, <2>2, <3>1, <3>2
  <2>4. word' % 2 # 1
    BY <1>4, <1>11
  <2>5. rasr'[LastRegion] = Off
    BY <1>6, <1>7, <1>8, <2>2
  <2> QED
    BY <1>1, <2>3, <2>4, <2>5 DEF ClearInv, CopyInv
<1> QED
  BY <1>4, <1>10, <1>11

LEMMA StartBoot ==
    ASSUME TypeInv, StartInv, Boot
    PROVE  StartInv'
<1> USE DEF bootVars, registers, scheduler, threadVars, history
<1>1. IdleInv'
  <2>1. UNCHANGED <<primask, cut, pc>> /\ boot # "done"
    BY DEF Boot, Disable, ClrSelect, ClrRasr, LoadCall, CopyWord, NextBlock, Enable
  <2> QED
    BY <2>1 DEF StartInv, IdleInv
<1>2. DisabledInv'
  <2>1. CASE CopyWord
    <3>1. UNCHANGED enabled
      BY <2>1 DEF CopyWord, WriteRBAR, WriteRASR
    <3> QED
      BY <2>1, <3>1 DEF CopyWord, StartInv, DisabledInv
  <2>2. CASE ~CopyWord
    BY <2>2 DEF Boot, Disable, ClrSelect, ClrRasr, LoadCall, NextBlock, Enable, WriteRNR,
                WriteRASR, StartInv, DisabledInv
  <2> QED
    BY <2>1, <2>2
<1>3. ClearInv' /\ CopyInv'
  <2>1. CASE Disable
    BY <2>1 DEF Disable, ClearInv, CopyInv, Regions
  <2>2. CASE ClrSelect
    BY <2>2 DEF ClrSelect, WriteRNR, StartInv, ClearInv, CopyInv
  <2>3. CASE ClrRasr
    <3>1. rnr = count /\ boot' = "select" /\ count' = count + 1
          /\ rasr' = [rasr EXCEPT ![count] = Off]
      BY <2>3 DEF ClrRasr, WriteRASR, StartInv, ClearInv
    <3>2. count \in Nat /\ rasr \in [Regions -> Contents]
      BY DEF TypeInv, TypeOK
    <3>3. \A r \in Regions : r < count => rasr[r] = Off
      BY <2>3 DEF ClrRasr, StartInv, ClearInv
    <3>4. ASSUME NEW r \in Regions, r < count'
          PROVE  rasr'[r] = Off
      <4>1. r \in Nat /\ (r = count \/ r < count)
        BY <3>1, <3>2, <3>4, Numbers DEF Regions
      <4> QED
        BY <3>1, <3>2, <3>3, <4>1
    <3> QED
      BY <3>1, <3>4 DEF ClearInv, CopyInv
  <2>4. CASE LoadCall
    <3>1. boot = "select" /\ count = NumRegions /\ boot' = "copy" /\ table' = 0 /\ word' = 0
          /\ UNCHANGED registers
      BY <2>4 DEF LoadCall
    <3>2. rasr[LastRegion] = Off
      BY <3>1, Numbers DEF StartInv, ClearInv, Regions
    <3>3. Copied' = 0 /\ word' % 2 = 0
      BY <3>1 DEF Copied
    <3>4. \A r \in 0 .. TableSize - 1 : ~(2 * r < Copied') /\ ~(2 * r + 1 < Copied')
      BY <3>3, Numbers
    <3> QED
      BY <3>1, <3>2, <3>3, <3>4 DEF ClearInv, CopyInv
  <2>5. CASE CopyWord
    BY <2>5, CopyWordStep
  <2>6. CASE NextBlock
    <3>1. boot = "copy" /\ word = 2 * BlockRows /\ word' = 0 /\ UNCHANGED registers
      BY <2>6 DEF NextBlock
    <3>2. count \in Nat /\ table \in Nat /\ table + count = TableSize
      BY <3>1 DEF TypeInv, TypeOK
    <3>3. rasr[LastRegion] = Off
      BY <3>1 DEF StartInv, ClearInv
    <3>4. \A r \in 0 .. TableSize - 1 :
            /\ 2 * r < Copied => rbar[r] = <<"table", r>>
            /\ 2 * r + 1 < Copied => rasr[r] = <<"table", r>>
      BY <3>1 DEF StartInv, CopyInv
    <3>5. CASE count > Aliases
      <4>1. boot' = "copy" /\ table' = table + Aliases
        BY <2>6, <3>1, <3>5 DEF NextBlock, MoreBlocks
      <4>2. Copied' = Copied /\ word' % 2 = 0
        BY <3>1, <3>2, <3>5, <4>1 DEF Copied, BlockRows, Aliases
      <4> QED
        BY <3>1, <3>3, <3>4, <4>1, <4>2 DEF ClearInv, CopyInv
    <3>6. CASE ~(count > Aliases)
      <4>1. boot' = "enable"
        BY <2>6, <3>6 DEF NextBlock, MoreBlocks
      <4>2. Copied = 2 * TableSize
        BY <3>1, <3>2, <3>6 DEF Copied, BlockRows
      <4>3. \A r \in 0 .. TableSize - 1 : 2 * r < Copied /\ 2 * r + 1 < Copied
        BY <4>2, Numbers
      <4>4. TableIntact'
        BY <3>1, <3>4, <4>3 DEF TableIntact, Holds
      <4> QED
        BY <3>1, <3>3, <4>1, <4>4 DEF ClearInv, CopyInv
    <3> QED
      BY <3>5, <3>6
  <2>7. CASE Enable
    BY <2>7 DEF Enable, ClearInv, CopyInv
  <2> QED
    BY <2>1, <2>2, <2>3, <2>4, <2>5, <2>6, <2>7 DEF Boot
<1> QED
  BY <1>1, <1>2, <1>3 DEF StartInv

(* A step after Configure_MPU has no more to do with it.                   *)
LEMMA StartNext == TypeInv /\ StartInv /\ [Next]_vars => StartInv'
<1> SUFFICES ASSUME TypeInv, StartInv, [Next]_vars PROVE StartInv'
  OBVIOUS
<1>1. CASE UNCHANGED vars
  BY <1>1 DEF vars, registers, bootVars, scheduler, threadVars, history, StartInv, IdleInv,
              DisabledInv, ClearInv, CopyInv, Copied, TableIntact, Holds
<1>2. CASE Switch \/ \E t \in Threads : ThreadStep(t)
  <2>1. boot = "done" /\ UNCHANGED bootVars
    BY <1>2 DEF Switch, ThreadStep, At, MaskByCaller, Call, Build, Mask, Select, Clear,
                SetBase, SetSize, Unmask, RowSelect, RowBase, RowSize, RowEnd
  <2> QED
    BY <2>1 DEF bootVars, StartInv, IdleInv, DisabledInv, ClearInv, CopyInv
<1> QED
  BY <1>1, <1>2, StartBoot DEF Next

------------------------------------------------------------------------------
(***************************************************************************)
(* The table after Configure_MPU.  Who is about to write a RASR through    *)
(* RNR has the last region selected while it runs: it selected that region *)
(* itself, or the switch back to it did, which wrote the stack guard.      *)
(***************************************************************************)
TableInv ==
    boot = "done" =>
        TableIntact /\ (pc[running] \in {"clear", "size"} => rnr = LastRegion)

(* Writing the last region leaves the table alone.                         *)
LEMMA LastLeavesTable ==
    ASSUME TypeInv, TableIntact,
           NEW S, NEW b \in S, NEW c \in S,
           \/ rbar' = [rbar EXCEPT ![LastRegion] = b] /\ rasr' = [rasr EXCEPT ![LastRegion] = c]
           \/ rbar' = [rbar EXCEPT ![LastRegion] = b] /\ rasr' = rasr
           \/ rbar' = rbar /\ rasr' = [rasr EXCEPT ![LastRegion] = c]
    PROVE  TableIntact'
<1> SUFFICES ASSUME NEW r \in 0 .. TableSize - 1
             PROVE  rbar'[r] = <<"table", r>> /\ rasr'[r] = <<"table", r>>
  BY DEF TableIntact, Holds
<1>1. r \in Regions /\ r # LastRegion /\ LastRegion \in Regions
  BY Numbers
<1>2. rbar[r] = <<"table", r>> /\ rasr[r] = <<"table", r>>
  BY DEF TableIntact, Holds
<1>3. rbar \in [Regions -> Contents] /\ rasr \in [Regions -> Contents]
  BY DEF TypeInv, TypeOK
<1>4. rbar'[r] = rbar[r]
  BY <1>1, <1>3
<1>5. rasr'[r] = rasr[r]
  BY <1>1, <1>3
<1> QED
  BY <1>2, <1>4, <1>5

LEMMA TableThread ==
    ASSUME TypeInv, TableInv, NEW t \in Threads, ThreadStep(t)
    PROVE  TableInv'
<1> USE DEF bootVars, registers, scheduler, threadVars, history, At, Go, TableInv
<1>0. pc \in [Threads -> Places] /\ boot = "done" /\ running = t
  <2>1. boot = "done" /\ running = t
    BY DEF ThreadStep, MaskByCaller, Call, Build, Mask, Select, Clear, SetBase, SetSize,
           Unmask, RowSelect, RowBase, RowSize, RowEnd
  <2> QED
    BY <2>1 DEF TypeInv, TypeOK, Places, Rows
<1>1. CASE MaskByCaller(t)
  BY <1>1 DEF MaskByCaller, TableIntact, Holds
<1>2. ASSUME NEW f \in {"configure", "clear", "dump"}, Call(t, f)
      PROVE  TableInv'
  <2>1. pc' = [pc EXCEPT ![t] = pc'[t]] /\ pc'[t] \in {"build", "mask", "rowSelect"}
    BY <1>2, <1>0 DEF Call
  <2> QED
    BY <1>2, <1>0, <2>1 DEF Call, TableIntact, Holds
<1>3. CASE Build(t)
  <2>1. pc' = [pc EXCEPT ![t] = "mask"] /\ UNCHANGED <<registers, bootVars, scheduler>>
    BY <1>3 DEF Build
  <2> QED
    BY <1>0, <2>1 DEF TableIntact, Holds
<1>4. CASE Mask(t)
  BY <1>4, <1>0 DEF Mask, TableIntact, Holds
<1>5. CASE Select(t)
  BY <1>5, <1>0 DEF Select, WriteRNR, TableIntact, Holds
<1>6. CASE Clear(t)
  <2>1. rnr = LastRegion /\ rasr' = [rasr EXCEPT ![LastRegion] = Off] /\ UNCHANGED rbar
        /\ TableIntact
    BY <1>6 DEF Clear, WriteRASR
  <2>2. TableIntact'
    BY <2>1, LastLeavesTable
  <2>3. pc'[t] \in {"base", "unmask"} /\ running' = t
    BY <1>6, <1>0 DEF Clear
  <2> QED
    BY <2>2, <2>3
<1>7. CASE SetBase(t)
  <2>1. rbar' = [rbar EXCEPT ![LastRegion] = <<"config", t>>] /\ UNCHANGED rasr
        /\ rnr' = LastRegion /\ TableIntact
    BY <1>7 DEF SetBase, WriteRBAR
  <2>2. TableIntact'
    BY <2>1, LastLeavesTable
  <2> QED
    BY <2>1, <2>2
<1>8. CASE SetSize(t)
  <2>1. rnr = LastRegion /\ rasr' = [rasr EXCEPT ![LastRegion] = <<"config", t>>]
        /\ UNCHANGED rbar /\ TableIntact
    BY <1>8 DEF SetSize, WriteRASR
  <2>2. TableIntact'
    BY <2>1, LastLeavesTable
  <2>3. pc'[t] = "unmask" /\ running' = t
    BY <1>8, <1>0 DEF SetSize
  <2> QED
    BY <2>2, <2>3
<1>9. CASE Unmask(t)
  BY <1>9, <1>0 DEF Unmask, TableIntact, Holds
<1>10. CASE RowSelect(t)
  BY <1>10, <1>0 DEF RowSelect, WriteRNR, TableIntact, Holds
<1>11. CASE RowBase(t)
  BY <1>11, <1>0 DEF RowBase, TableIntact, Holds
<1>12. CASE RowSize(t)
  BY <1>12, <1>0 DEF RowSize, TableIntact, Holds
<1>13. CASE RowEnd(t)
  <2>1. pc' = [pc EXCEPT ![t] = pc'[t]] /\ pc'[t] \in {"rowSelect", "idle"}
    BY <1>13, <1>0 DEF RowEnd
  <2> QED
    BY <1>13, <1>0, <2>1 DEF RowEnd, TableIntact, Holds
<1> QED
  BY <1>1, <1>2, <1>3, <1>4, <1>5, <1>6, <1>7, <1>8, <1>9, <1>10, <1>11, <1>12, <1>13
  DEF ThreadStep

LEMMA TableNext ==
    ASSUME StackGuard
    PROVE  TypeInv /\ StartInv /\ TableInv /\ [Next]_vars => TableInv'
<1> SUFFICES ASSUME TypeInv, StartInv, TableInv, [Next]_vars PROVE TableInv'
  OBVIOUS
<1>1. CASE UNCHANGED vars
  BY <1>1 DEF vars, registers, bootVars, scheduler, threadVars, history, TableInv,
              TableIntact, Holds
<1>2. CASE Boot
  <2>1. CASE Enable
    <3>1. boot = "enable" /\ UNCHANGED <<rnr, rbar, rasr, pc, running>>
      BY <2>1 DEF Enable, scheduler, threadVars
    <3>2. TableIntact /\ running \in Threads /\ pc[running] = "idle"
      BY <3>1 DEF StartInv, CopyInv, IdleInv, TypeInv, TypeOK
    <3> QED
      BY <3>1, <3>2 DEF TableInv, TableIntact, Holds
  <2>2. CASE ~Enable
    <3>1. boot' # "done"
      BY <1>2, <2>2 DEF Boot, Disable, ClrSelect, ClrRasr, LoadCall, CopyWord, NextBlock
    <3> QED
      BY <3>1 DEF TableInv
  <2> QED
    BY <2>1, <2>2
<1>3. CASE Switch
  <2>1. PICK t \in Threads :
          /\ rnr' = LastRegion
          /\ rbar' = [rbar EXCEPT ![LastRegion] = <<"guard", t>>]
          /\ rasr' = [rasr EXCEPT ![LastRegion] = <<"guard", t>>]
    BY <1>3 DEF Switch, ApplyGuard
  <2>2. TableIntact
    BY <1>3 DEF Switch, TableInv
  <2>3. TableIntact'
    BY <2>1, <2>2, LastLeavesTable
  <2> QED
    BY <2>1, <2>3 DEF TableInv
<1> QED
  BY <1>1, <1>2, <1>3, TableThread DEF Next

(***************************************************************************)
(* With the stack guard, the table of regions is loaded as a whole before  *)
(* the MPU is enabled, in blocks of any number of rows, and no call of any *)
(* thread ever changes a region of it, however threads are switched.       *)
(***************************************************************************)
THEOREM TableStaysWhole ==
    ASSUME StackGuard
    PROVE  Spec => []TableKept
<1>1. Init => TableInv
  BY DEF Init, TableInv
<1>2. TypeInv /\ StartInv /\ TableInv /\ [Next]_vars => TableInv'
  BY TableNext
<1>3. TypeInv /\ StartInv /\ TableInv => TableKept
  BY DEF TypeInv, TypeOK, StartInv, DisabledInv, TableInv, TableKept
<1> QED
  BY <1>1, <1>2, <1>3, TypeInit, TypeNext, StartInit, StartNext, PTL DEF Spec

------------------------------------------------------------------------------
(***************************************************************************)
(* The last region.  While no thread has lost the processor with its guard *)
(* object alive, at most the running thread is in a critical section, and  *)
(* the region is off from the clearing to the writing of its size.         *)
(***************************************************************************)
LastInv ==
    boot = "done" /\ ~cut =>
        /\ \A t \in Threads : Guarded(t) => t = running
        /\ pc[running] = "clear" => rnr = LastRegion
        /\ pc[running] \in {"base", "size"} => rasr[LastRegion] = Off
        /\ pc[running] = "size" =>
            rnr = LastRegion /\ rbar[LastRegion] = <<"config", running>>
        /\ rasr[LastRegion] = Off \/ rbar[LastRegion] = rasr[LastRegion]

(* Only clear continues with base, and only for mpu_configure_region.      *)
LEMMA LastThread ==
    ASSUME TypeInv, LastInv, NEW t \in Threads, ThreadStep(t)
    PROVE  LastInv'
<1> USE DEF bootVars, registers, scheduler, threadVars, history, At, Go, Guarded
<1>0. /\ pc \in [Threads -> Places]
      /\ boot = "done" /\ running = t /\ running' = t /\ cut' = cut
      /\ rbar \in [Regions -> Contents] /\ rasr \in [Regions -> Contents]
      /\ LastRegion \in Regions
  <2>1. boot = "done" /\ running = t /\ running' = t /\ cut' = cut
    BY DEF ThreadStep, MaskByCaller, Call, Build, Mask, Select, Clear, SetBase, SetSize,
           Unmask, RowSelect, RowBase, RowSize, RowEnd
  <2> QED
    BY <2>1, Numbers DEF TypeInv, TypeOK, Places, Rows
<1> SUFFICES ASSUME ~cut PROVE LastInv'
  BY <1>0 DEF LastInv
<1>a. /\ \A u \in Threads : Guarded(u) => u = t
      /\ pc[t] = "clear" => rnr = LastRegion
      /\ pc[t] \in {"base", "size"} => rasr[LastRegion] = Off
      /\ pc[t] = "size" => rnr = LastRegion /\ rbar[LastRegion] = <<"config", t>>
      /\ rasr[LastRegion] = Off \/ rbar[LastRegion] = rasr[LastRegion]
  BY <1>0 DEF LastInv
<1> SUFFICES /\ \A u \in Threads \ {t} : pc'[u] = pc[u]
             /\ pc'[t] = "clear" => rnr' = LastRegion
             /\ pc'[t] \in {"base", "size"} => rasr'[LastRegion] = Off
             /\ pc'[t] = "size" => rnr' = LastRegion /\ rbar'[LastRegion] = <<"config", t>>
             /\ rasr'[LastRegion] = Off \/ rbar'[LastRegion] = rasr'[LastRegion]
  <2> SUFFICES ASSUME \A u \in Threads \ {t} : pc'[u] = pc[u],
                      pc'[t] = "clear" => rnr' = LastRegion,
                      pc'[t] \in {"base", "size"} => rasr'[LastRegion] = Off,
                      pc'[t] = "size" => rnr' = LastRegion /\ rbar'[LastRegion] = <<"config", t>>,
                      rasr'[LastRegion] = Off \/ rbar'[LastRegion] = rasr'[LastRegion]
               PROVE  LastInv'
    OBVIOUS
  <2>1. ASSUME NEW u \in Threads, Guarded(u)'
        PROVE  u = running'
    <3>1. CASE u = t
      BY <1>0, <3>1
    <3>2. CASE u # t
      <4>1. pc'[u] = pc[u]
        BY <3>2
      <4>2. Guarded(u)
        BY <2>1, <4>1
      <4> QED
        BY <1>0, <1>a, <4>2
    <3> QED
      BY <3>1, <3>2
  <2>2. running' = t
    BY <1>0
  <2> HIDE DEF Guarded
  <2> QED
    BY <2>1, <2>2 DEF LastInv
<1>1. CASE MaskByCaller(t)
  BY <1>1, <1>0, <1>a DEF MaskByCaller
<1>2. CASE \E f \in {"configure", "clear", "dump"} : Call(t, f)
  <2> PICK f \in {"configure", "clear", "dump"} : Call(t, f)
    BY <1>2
  <2>1. pc' = [pc EXCEPT ![t] = pc'[t]] /\ pc'[t] \in {"build", "mask", "rowSelect"}
    BY <1>0 DEF Call
  <2> QED
    BY <1>0, <1>a, <2>1 DEF Call
<1>3. CASE Build(t)
  <2>1. pc' = [pc EXCEPT ![t] = "mask"] /\ UNCHANGED <<registers, bootVars, scheduler>>
    BY <1>3 DEF Build
  <2> QED
    BY <1>0, <1>a, <2>1
<1>4. CASE Mask(t)
  BY <1>4, <1>0, <1>a DEF Mask
<1>5. CASE Select(t)
  BY <1>5, <1>0, <1>a DEF Select, WriteRNR
<1>6. CASE Clear(t)
  <2>1. rasr' = [rasr EXCEPT ![LastRegion] = Off] /\ rbar' = rbar
    BY <1>6, <1>a DEF Clear, WriteRASR
  <2>2. pc' = [pc EXCEPT ![t] = pc'[t]] /\ pc'[t] \in {"base", "unmask"}
    BY <1>6, <1>0 DEF Clear
  <2> QED
    BY <1>0, <2>1, <2>2
<1>7. CASE SetBase(t)
  BY <1>7, <1>0, <1>a DEF SetBase, WriteRBAR
<1>8. CASE SetSize(t)
  BY <1>8, <1>0, <1>a DEF SetSize, WriteRASR
<1>9. CASE Unmask(t)
  BY <1>9, <1>0, <1>a DEF Unmask
<1>10. CASE RowSelect(t)
  BY <1>10, <1>0, <1>a DEF RowSelect, WriteRNR
<1>11. CASE RowBase(t)
  BY <1>11, <1>0, <1>a DEF RowBase
<1>12. CASE RowSize(t)
  BY <1>12, <1>0, <1>a DEF RowSize
<1>13. CASE RowEnd(t)
  <2>1. pc' = [pc EXCEPT ![t] = pc'[t]] /\ pc'[t] \in {"rowSelect", "idle"}
    BY <1>13, <1>0 DEF RowEnd
  <2> QED
    BY <1>13, <1>0, <1>a, <2>1 DEF RowEnd
<1> QED
  BY <1>1, <1>2, <1>3, <1>4, <1>5, <1>6, <1>7, <1>8, <1>9, <1>10, <1>11, <1>12, <1>13
  DEF ThreadStep

LEMMA LastNext == TypeInv /\ StartInv /\ LastInv /\ [Next]_vars => LastInv'
<1> SUFFICES ASSUME TypeInv, StartInv, LastInv, [Next]_vars PROVE LastInv'
  OBVIOUS
<1>1. CASE UNCHANGED vars
  BY <1>1 DEF vars, registers, bootVars, scheduler, threadVars, history, LastInv, Guarded
<1>2. CASE Boot
  <2>1. CASE Enable
    <3>1. boot = "enable" /\ UNCHANGED <<rnr, rbar, rasr, pc, running, cut>>
      BY <2>1 DEF Enable, scheduler, threadVars, history
    <3>2. rasr[LastRegion] = Off /\ running \in Threads /\ \A t \in Threads : pc[t] = "idle"
      BY <3>1 DEF StartInv, ClearInv, IdleInv, TypeInv, TypeOK
    <3> QED
      BY <3>1, <3>2 DEF LastInv, Guarded
  <2>2. CASE ~Enable
    <3>1. boot' # "done"
      BY <1>2, <2>2 DEF Boot, Disable, ClrSelect, ClrRasr, LoadCall, CopyWord, NextBlock
    <3> QED
      BY <3>1 DEF LastInv
  <2> QED
    BY <2>1, <2>2
<1>3. CASE Switch
  <2> SUFFICES ASSUME ~cut' PROVE LastInv'
    BY DEF LastInv
  <2>1. PICK t \in Threads \ {running} :
          /\ running' = t
          /\ IF StackGuard
             THEN /\ rnr' = LastRegion
                  /\ rbar' = [rbar EXCEPT ![LastRegion] = <<"guard", t>>]
                  /\ rasr' = [rasr EXCEPT ![LastRegion] = <<"guard", t>>]
                  /\ UNCHANGED enabled
             ELSE UNCHANGED registers
    BY <1>3 DEF Switch, ApplyGuard
  <2>2. boot = "done" /\ ~cut /\ ~Guarded(running) /\ pc' = pc
    BY <1>3 DEF Switch, threadVars
  <2>3. \A u \in Threads : ~Guarded(u)
    BY <2>2 DEF LastInv
  <2>4. rasr'[LastRegion] = Off \/ rbar'[LastRegion] = rasr'[LastRegion]
    <3>1. CASE StackGuard
      <4>1. rbar \in [Regions -> Contents] /\ rasr \in [Regions -> Contents]
        BY DEF TypeInv, TypeOK
      <4> QED
        BY <2>1, <3>1, <4>1, Numbers
    <3>2. CASE ~StackGuard
      BY <2>1, <2>2, <3>2 DEF LastInv, registers
    <3> QED
      BY <3>1, <3>2
  <2> QED
    BY <2>1, <2>2, <2>3, <2>4 DEF LastInv, Guarded
<1> QED
  BY <1>1, <1>2, <1>3, LastThread DEF Next

(***************************************************************************)
(* Base and size of the last region always belong together as long as no   *)
(* thread lost the processor with its guard object alive: the order of the *)
(* writes is right, with or without the stack guard, and it is only the    *)
(* masking of interrupts that the program lacks.                           *)
(***************************************************************************)
THEOREM LastRegionSafe == Spec => []MaskingSuffices
<1>1. Init => LastInv
  BY DEF Init, LastInv
<1>2. TypeInv /\ StartInv /\ LastInv /\ [Next]_vars => LastInv'
  BY LastNext
<1>3. LastInv => MaskingSuffices
  BY DEF LastInv, MaskingSuffices, LastRegionWhole
<1> QED
  BY <1>1, <1>2, <1>3, TypeInit, TypeNext, StartInit, StartNext, PTL DEF Spec

------------------------------------------------------------------------------
(***************************************************************************)
(* mpu_dump.  A thread in the middle of a row that was not interrupted is  *)
(* running, the row is the selected region, and what it has read is there. *)
(***************************************************************************)
RowInv ==
    \A t \in Threads : pc[t] \in Rows \ {"rowSelect"} /\ ~rowCut[t] =>
        /\ t = running /\ rnr = row[t]
        /\ pc[t] = "rowSize" => shown[t][1] = rbar[row[t]]
        /\ pc[t] = "rowEnd" => shown[t] = <<rbar[row[t]], rasr[row[t]]>>

LEMMA RowThread ==
    ASSUME TypeInv, RowInv, NEW t \in Threads, ThreadStep(t)
    PROVE  RowInv'
<1> USE DEF bootVars, registers, scheduler, threadVars, history, At, Go, Rows
<1>0. running = t /\ running' = t /\ \A u \in Threads \ {t} : pc'[u] = pc[u] /\ rowCut'[u] = rowCut[u]
  <2>1. running = t /\ running' = t
    BY DEF ThreadStep, MaskByCaller, Call, Build, Mask, Select, Clear, SetBase, SetSize,
           Unmask, RowSelect, RowBase, RowSize, RowEnd
  <2>2. pc \in [Threads -> Places] /\ rowCut \in [Threads -> BOOLEAN]
    BY DEF TypeInv, TypeOK, Places
  <2>3. rowCut' = rowCut \/ rowCut' = [rowCut EXCEPT ![t] = FALSE]
    BY DEF ThreadStep, MaskByCaller, Call, Build, Mask, Select, Clear, SetBase, SetSize,
           Unmask, RowSelect, RowBase, RowSize, RowEnd
  <2>4. pc' = pc \/ \E place : pc' = [pc EXCEPT ![t] = place]
    <3>1. CASE \E f \in {"configure", "clear", "dump"} : Call(t, f)
      <4> PICK f \in {"configure", "clear", "dump"} : Call(t, f)
        BY <3>1
      <4>1. pc' = [pc EXCEPT ![t] = pc'[t]]
        BY <2>2 DEF Call
      <4> QED
        BY <4>1
    <3>2. CASE ~\E f \in {"configure", "clear", "dump"} : Call(t, f)
      BY <3>2 DEF ThreadStep, MaskByCaller, Build, Mask, Select, Clear, SetBase, SetSize,
                  Unmask, RowSelect, RowBase, RowSize, RowEnd
    <3> QED
      BY <3>1, <3>2
  <2> QED
    BY <2>1, <2>2, <2>3, <2>4
<1>a. shown \in [Threads -> Contents \X Contents] /\ shown[t] \in Contents \X Contents
      /\ rnr \in Regions /\ rbar[rnr] \in Contents /\ rasr[rnr] \in Contents
      /\ pc \in [Threads -> Places] /\ rowCut \in [Threads -> BOOLEAN]
  BY DEF TypeInv, TypeOK, Places
<1>b. pc[t] \in {"rowBase", "rowSize", "rowEnd"} /\ ~rowCut[t] =>
        /\ rnr = row[t]
        /\ pc[t] = "rowSize" => shown[t][1] = rbar[row[t]]
        /\ pc[t] = "rowEnd" => shown[t] = <<rbar[row[t]], rasr[row[t]]>>
  BY DEF RowInv
<1> SUFFICES pc'[t] \in {"rowBase", "rowSize", "rowEnd"} /\ ~rowCut'[t] =>
               /\ rnr' = row'[t]
               /\ pc'[t] = "rowSize" => shown'[t][1] = rbar'[row'[t]]
               /\ pc'[t] = "rowEnd" => shown'[t] = <<rbar'[row'[t]], rasr'[row'[t]]>>
  <2>1. \A u \in Threads \ {t} : ~(pc[u] \in Rows \ {"rowSelect"} /\ ~rowCut[u])
    BY <1>0 DEF RowInv
  <2> QED
    BY <1>0, <2>1 DEF RowInv
<1>1. CASE RowSelect(t)
  BY <1>1, <1>a DEF RowSelect, WriteRNR, RowRegion
<1>2. CASE RowBase(t)
  <2>1. shown' = [shown EXCEPT ![t] = [shown[t] EXCEPT ![1] = rbar[rnr]]]
    BY <1>2, <1>a DEF RowBase
  <2>2. [shown[t] EXCEPT ![1] = rbar[rnr]][1] = rbar[rnr]
    BY <1>a, PairUpdate
  <2>3. shown'[t][1] = rbar[rnr]
    BY <1>a, <2>1, <2>2
  <2>4. pc[t] = "rowBase" /\ pc'[t] = "rowSize" /\ UNCHANGED <<row, rbar, rnr, rowCut>>
    BY <1>2, <1>a DEF RowBase
  <2> QED
    BY <1>b, <2>3, <2>4
<1>3. CASE RowSize(t)
  <2>1. shown' = [shown EXCEPT ![t] = [shown[t] EXCEPT ![2] = rasr[rnr]]]
    BY <1>3, <1>a DEF RowSize
  <2>2. [shown[t] EXCEPT ![2] = rasr[rnr]] = <<shown[t][1], rasr[rnr]>>
    BY <1>a, PairUpdate
  <2>3. shown'[t] = <<shown[t][1], rasr[rnr]>>
    BY <1>a, <2>1, <2>2
  <2>4. pc[t] = "rowSize" /\ pc'[t] = "rowEnd" /\ UNCHANGED <<row, rbar, rasr, rnr, rowCut>>
    BY <1>3, <1>a DEF RowSize
  <2> QED
    BY <1>b, <2>3, <2>4
<1>4. CASE RowEnd(t)
  BY <1>4, <1>a DEF RowEnd
<1>5. CASE \E f \in {"configure", "clear", "dump"} : Call(t, f)
  <2> PICK f \in {"configure", "clear", "dump"} : Call(t, f)
    BY <1>5
  <2> QED
    BY <1>a DEF Call
<1>6. CASE MaskByCaller(t) \/ Build(t) \/ Mask(t) \/ Select(t) \/ Clear(t) \/ SetBase(t)
             \/ SetSize(t) \/ Unmask(t)
  <2>1. pc'[t] \notin {"rowBase", "rowSize", "rowEnd"}
    BY <1>6, <1>a DEF MaskByCaller, Build, Mask, Select, Clear, SetBase, SetSize, Unmask
  <2> QED
    BY <2>1
<1> QED
  BY <1>1, <1>2, <1>3, <1>4, <1>5, <1>6 DEF ThreadStep

LEMMA RowNext == TypeInv /\ StartInv /\ RowInv /\ [Next]_vars => RowInv'
<1> SUFFICES ASSUME TypeInv, StartInv, RowInv, [Next]_vars PROVE RowInv'
  OBVIOUS
<1>1. CASE UNCHANGED vars
  BY <1>1 DEF vars, registers, scheduler, threadVars, history, RowInv
<1>2. CASE Boot
  <2>1. boot # "done" /\ pc' = pc
    BY <1>2 DEF threadVars, Boot, Disable, ClrSelect, ClrRasr, LoadCall, CopyWord, NextBlock,
                Enable
  <2>2. \A t \in Threads : pc'[t] \notin Rows
    BY <2>1 DEF StartInv, IdleInv, Rows
  <2> QED
    BY <2>2 DEF RowInv
<1>3. CASE Switch
  <2>1. rowCut \in [Threads -> BOOLEAN] /\ running \in Threads
    BY DEF TypeInv, TypeOK
  <2>2. pc' = pc /\ rowCut' = [rowCut EXCEPT ![running] = TRUE]
    BY <1>3 DEF Switch, threadVars
  <2>3. \A t \in Threads : ~(pc'[t] \in Rows \ {"rowSelect"} /\ ~rowCut'[t])
    BY <2>1, <2>2 DEF RowInv
  <2> QED
    BY <2>3 DEF RowInv
<1> QED
  BY <1>1, <1>2, <1>3, RowThread DEF Next

(***************************************************************************)
(* mpu_dump prints the base and the size of one and the same region, the   *)
(* one it names, unless it lost the processor in the middle of the row.    *)
(***************************************************************************)
THEOREM RowsAreWhole == Spec => []RowWhole
<1>1. Init => RowInv
  BY DEF Init, RowInv, Rows
<1>2. TypeInv /\ StartInv /\ RowInv /\ [Next]_vars => RowInv'
  BY RowNext
<1>3. RowInv => RowWhole
  BY DEF RowInv, RowWhole, Rows
<1> QED
  BY <1>1, <1>2, <1>3, TypeInit, TypeNext, StartInit, StartNext, PTL DEF Spec

------------------------------------------------------------------------------
(***************************************************************************)
(* Whose the registers are.  A step writes at most one value to an RBAR    *)
(* and one to a RASR, and only Configure_MPU writes rows of the table.     *)
(***************************************************************************)
(* A thread writes the last region through RBAR, and through RNR what is   *)
(* neither a row of the table nor anybody else's.                          *)
LEMMA ThreadWrites ==
    ASSUME NEW t \in Threads, ThreadStep(t)
    PROVE  /\ running = t /\ running' = t
           /\ rbar' = rbar \/ rbar' = [rbar EXCEPT ![LastRegion] = <<"config", t>>]
           /\ \/ rasr' = rasr
              \/ rasr' = [rasr EXCEPT ![rnr] = Off]
              \/ rasr' = [rasr EXCEPT ![rnr] = <<"config", t>>]
<1> USE DEF registers, scheduler, At
<1>1. running = t /\ running' = t
  BY DEF ThreadStep, MaskByCaller, Call, Build, Mask, Select, Clear, SetBase, SetSize,
         Unmask, RowSelect, RowBase, RowSize, RowEnd
<1>2. rbar' = rbar \/ rbar' = [rbar EXCEPT ![LastRegion] = <<"config", t>>]
  BY DEF ThreadStep, MaskByCaller, Call, Build, Mask, Select, Clear, SetBase, SetSize,
         Unmask, RowSelect, RowBase, RowSize, RowEnd, WriteRNR, WriteRBAR, WriteRASR
<1>3. \/ rasr' = rasr
      \/ rasr' = [rasr EXCEPT ![rnr] = Off]
      \/ rasr' = [rasr EXCEPT ![rnr] = <<"config", t>>]
  BY DEF ThreadStep, MaskByCaller, Call, Build, Mask, Select, Clear, SetBase, SetSize,
         Unmask, RowSelect, RowBase, RowSize, RowEnd, WriteRNR, WriteRBAR, WriteRASR
<1> QED
  BY <1>1, <1>2, <1>3

(* Configure_MPU writes zeros, and rows of the table where they belong.    *)
LEMMA BootWrites ==
    ASSUME TypeInv, StartInv, Boot
    PROVE  /\ running' = running
           /\ \/ rbar' = rbar
              \/ \E r \in Regions \ {LastRegion} : rbar' = [rbar EXCEPT ![r] = <<"table", r>>]
           /\ \/ rasr' = rasr
              \/ \E r \in Regions : rasr' = [rasr EXCEPT ![r] = Off]
              \/ \E r \in Regions \ {LastRegion} : rasr' = [rasr EXCEPT ![r] = <<"table", r>>]
<1> USE DEF registers, scheduler
<1>1. running' = running
  BY DEF Boot, Disable, ClrSelect, ClrRasr, LoadCall, CopyWord, NextBlock, Enable
<1>2. CASE CopyWord
  <2> DEFINE e == table + (word \div 2)
  <2>1. word \in Nat /\ table \in Nat /\ count \in Nat /\ table + count = TableSize
        /\ word < 2 * BlockRows
    BY <1>2 DEF CopyWord, TypeInv, TypeOK
  <2>2. BlockRows \in Nat /\ BlockRows <= count
    BY <2>1 DEF BlockRows, Aliases
  <2>3. e \in 0 .. TableSize - 1
    BY <2>1, <2>2
  <2>4. e \in Regions \ {LastRegion}
    BY <2>3, Numbers
  <2>5. word % 2 = 1 => rnr = e
    BY <1>2 DEF CopyWord, StartInv, CopyInv
  <2>6. word % 2 \in {0, 1}
    BY <2>1
  <2> HIDE DEF e
  <2>7. CASE word % 2 = 0
    <3>1. rbar' = [rbar EXCEPT ![e] = <<"table", e>>] /\ rasr' = rasr
      BY <1>2, <2>7 DEF CopyWord, WriteRBAR, e
    <3> QED
      BY <1>1, <2>4, <3>1
  <2>8. CASE word % 2 = 1
    <3>1. rasr' = [rasr EXCEPT ![e] = <<"table", e>>] /\ rbar' = rbar
      BY <1>2, <2>5, <2>8 DEF CopyWord, WriteRASR, e
    <3> QED
      BY <1>1, <2>4, <3>1
  <2> QED
    BY <2>6, <2>7, <2>8
<1>3. CASE ClrRasr
  <2>1. rnr \in Regions
    BY DEF TypeInv, TypeOK
  <2>2. rbar' = rbar /\ rasr' = [rasr EXCEPT ![rnr] = Off]
    BY <1>3 DEF ClrRasr, WriteRASR
  <2> QED
    BY <1>1, <2>1, <2>2
<1>4. CASE Disable \/ ClrSelect \/ LoadCall \/ NextBlock \/ Enable
  <2>1. rbar' = rbar /\ rasr' = rasr
    BY <1>4 DEF Disable, ClrSelect, LoadCall, NextBlock, Enable, WriteRNR
  <2> QED
    BY <1>1, <2>1
<1> QED
  BY <1>2, <1>3, <1>4 DEF Boot

(* A row of the table is nowhere but in its own region.                    *)
Fits(contents, r) == contents[1] = "table" => contents = <<"table", r>>

PlacesInv == \A r \in Regions : Fits(rbar[r], r) /\ Fits(rasr[r], r)

LEMMA PlacesNext == TypeInv /\ StartInv /\ PlacesInv /\ [Next]_vars => PlacesInv'
<1> SUFFICES ASSUME TypeInv, StartInv, PlacesInv, [Next]_vars, NEW r \in Regions
             PROVE  Fits(rbar'[r], r) /\ Fits(rasr'[r], r)
  BY DEF PlacesInv, Regions
<1>0. /\ rbar \in [Regions -> Contents] /\ rasr \in [Regions -> Contents]
      /\ Fits(rbar[r], r) /\ Fits(rasr[r], r)
  BY DEF TypeInv, TypeOK, PlacesInv
<1>1. Fits(Off, r) /\ Fits(<<"table", r>>, r)
      /\ \A t \in Threads : Fits(<<"config", t>>, r) /\ Fits(<<"guard", t>>, r)
  BY DEF Fits, Off
<1>2. CASE UNCHANGED vars
  BY <1>0, <1>2 DEF vars, registers
<1>3. CASE Boot
  BY <1>0, <1>1, <1>3, BootWrites
<1>4. CASE Switch
  <2>1. PICK t \in Threads :
          /\ rbar' = rbar \/ rbar' = [rbar EXCEPT ![LastRegion] = <<"guard", t>>]
          /\ rasr' = rasr \/ rasr' = [rasr EXCEPT ![LastRegion] = <<"guard", t>>]
    BY <1>4 DEF Switch, ApplyGuard, registers
  <2> QED
    BY <1>0, <1>1, <2>1
<1>5. ASSUME NEW t \in Threads, ThreadStep(t)
      PROVE  Fits(rbar'[r], r) /\ Fits(rasr'[r], r)
  BY <1>0, <1>1, <1>5, ThreadWrites
<1> QED
  BY <1>2, <1>3, <1>4, <1>5 DEF Next

(***************************************************************************)
(* With the stack guard, the last region is the running thread's at every  *)
(* moment: what a suspended call of another thread was about to write, or  *)
(* had written, is neither in its base nor in its size.                    *)
(***************************************************************************)
THEOREM LastRegionIsOwn ==
    ASSUME StackGuard
    PROVE  Spec => []LastRegionOwn
<1> DEFINE Mine(c) == c[1] \in {"guard", "config"} => c[2] = running
<1>1. Init => LastRegionOwn
  <2>1. Init => rbar[LastRegion] = <<"reset", 0>> /\ rasr[LastRegion] = <<"reset", 0>>
    BY Numbers DEF Init
  <2> QED
    BY <2>1 DEF LastRegionOwn
<1>2. TypeInv /\ StartInv /\ LastRegionOwn /\ [Next]_vars => LastRegionOwn'
  <2> SUFFICES ASSUME TypeInv, StartInv, LastRegionOwn, [Next]_vars
               PROVE  LastRegionOwn'
    OBVIOUS
  <2>0. /\ rbar \in [Regions -> Contents] /\ rasr \in [Regions -> Contents]
        /\ LastRegion \in Regions
        /\ Mine(rbar[LastRegion]) /\ Mine(rasr[LastRegion])
    BY Numbers DEF TypeInv, TypeOK, LastRegionOwn
  <2>1. Mine(Off) /\ \A r \in Regions : Mine(<<"table", r>>)
    BY DEF Off
  <2> SUFFICES Mine(rbar[LastRegion])' /\ Mine(rasr[LastRegion])'
    BY DEF LastRegionOwn
  <2>2. CASE UNCHANGED vars
    BY <2>0, <2>2 DEF vars, registers, scheduler
  <2>3. CASE Boot
    <3>1. running' = running
      BY <2>3, BootWrites
    <3>2. rbar'[LastRegion] = rbar[LastRegion]
      BY <2>0, <2>3, BootWrites
    <3>3. rasr'[LastRegion] = rasr[LastRegion] \/ rasr'[LastRegion] = Off
      BY <2>0, <2>3, BootWrites
    <3> QED
      BY <2>0, <2>1, <3>1, <3>2, <3>3
  <2>4. CASE Switch
    <3>1. PICK t \in Threads :
            /\ running' = t
            /\ rbar' = [rbar EXCEPT ![LastRegion] = <<"guard", t>>]
            /\ rasr' = [rasr EXCEPT ![LastRegion] = <<"guard", t>>]
      BY <2>4 DEF Switch, ApplyGuard
    <3>2. rbar'[LastRegion] = <<"guard", t>> /\ rasr'[LastRegion] = <<"guard", t>>
      BY <2>0, <3>1
    <3> QED
      BY <3>1, <3>2
  <2>5. ASSUME NEW t \in Threads, ThreadStep(t)
        PROVE  Mine(rbar[LastRegion])' /\ Mine(rasr[LastRegion])'
    <3>1. running = t /\ running' = t
      BY <2>5, ThreadWrites
    <3>2. rbar'[LastRegion] = rbar[LastRegion] \/ rbar'[LastRegion] = <<"config", t>>
      BY <2>0, <2>5, ThreadWrites
    <3>3. rasr'[LastRegion] = rasr[LastRegion] \/ rasr'[LastRegion] = Off
          \/ rasr'[LastRegion] = <<"config", t>>
      BY <2>0, <2>5, ThreadWrites
    <3> QED
      BY <2>0, <2>1, <3>1, <3>2, <3>3
  <2> QED
    BY <2>2, <2>3, <2>4, <2>5 DEF Next
<1> QED
  BY <1>1, <1>2, TypeInit, TypeNext, StartInit, StartNext, PTL DEF Spec

(***************************************************************************)
(* mpu_dump under interruptions.  The thread that reads a row has the row  *)
(* selected or, after a switch back to it, the last region; what it has    *)
(* read is no other row of the table.                                      *)
(***************************************************************************)
ReadInv ==
    \A t \in Threads :
        /\ pc[t] \in {"rowBase", "rowSize"} /\ t = running => rnr \in {row[t], LastRegion}
        /\ pc[t] \in {"rowSize", "rowEnd"} => Fits(shown[t][1], row[t])
        /\ pc[t] = "rowEnd" => Fits(shown[t][2], row[t])

(* What such a thread reads next.                                          *)
LEMMA ReadFits ==
    ASSUME TypeInv, PlacesInv, NEW t \in Threads, rnr \in {row[t], LastRegion}
    PROVE  Fits(rbar[rnr], row[t]) /\ Fits(rasr[rnr], row[t])
<1>1. rnr \in Regions /\ rbar[rnr] \in Contents /\ rasr[rnr] \in Contents
  BY DEF TypeInv, TypeOK
<1>2. Fits(rbar[rnr], rnr) /\ Fits(rasr[rnr], rnr)
  BY <1>1 DEF PlacesInv
<1>3. CASE rnr = row[t]
  BY <1>2, <1>3
<1>4. CASE rnr = LastRegion
  <2>1. <<"table", LastRegion>> \notin Contents
    BY Numbers DEF Contents
  <2> QED
    BY <1>1, <1>2, <1>4, <2>1 DEF Fits
<1> QED
  BY <1>3, <1>4

LEMMA ReadThread ==
    ASSUME TypeInv, PlacesInv, ReadInv, NEW t \in Threads, ThreadStep(t)
    PROVE  ReadInv'
<1> USE DEF bootVars, registers, scheduler, threadVars, history, At, Go
<1>a. /\ pc \in [Threads -> Places] /\ row \in [Threads -> 0 .. NumRegions]
      /\ shown \in [Threads -> Contents \X Contents] /\ shown[t] \in Contents \X Contents
      /\ rnr \in Regions /\ rbar[rnr] \in Contents /\ rasr[rnr] \in Contents
  BY DEF TypeInv, TypeOK, Places, Rows
<1>b. running = t /\ running' = t
  BY ThreadWrites
<1>c. ASSUME NEW u \in Threads \ {t}
      PROVE  pc'[u] = pc[u] /\ row'[u] = row[u] /\ shown'[u] = shown[u]
  <2>1. CASE \E f \in {"configure", "clear", "dump"} : Call(t, f)
    <3> PICK f \in {"configure", "clear", "dump"} : Call(t, f)
      BY <2>1
    <3> QED
      BY <1>a, <1>c DEF Call
  <2>2. CASE ~\E f \in {"configure", "clear", "dump"} : Call(t, f)
    <3>1. CASE MaskByCaller(t) \/ Build(t) \/ Mask(t) \/ Select(t) \/ SetBase(t) \/ SetSize(t)
      BY <1>a, <1>c, <3>1 DEF MaskByCaller, Build, Mask, Select, SetBase, SetSize
    <3>2. CASE Clear(t) \/ Unmask(t) \/ RowSelect(t) \/ RowBase(t) \/ RowSize(t)
      BY <1>a, <1>c, <3>2 DEF Clear, Unmask, RowSelect, RowBase, RowSize
    <3>3. CASE RowEnd(t)
      BY <1>a, <1>c, <3>3 DEF RowEnd
    <3> QED
      BY <2>2, <3>1, <3>2, <3>3 DEF ThreadStep
  <2> QED
    BY <2>1, <2>2
<1> SUFFICES /\ pc'[t] \in {"rowBase", "rowSize"} => rnr' \in {row'[t], LastRegion}
             /\ pc'[t] \in {"rowSize", "rowEnd"} => Fits(shown'[t][1], row'[t])
             /\ pc'[t] = "rowEnd" => Fits(shown'[t][2], row'[t])
  <2>1. ASSUME NEW u \in Threads \ {t}
        PROVE  /\ ~(u = running')
               /\ pc'[u] \in {"rowSize", "rowEnd"} => Fits(shown'[u][1], row'[u])
               /\ pc'[u] = "rowEnd" => Fits(shown'[u][2], row'[u])
    BY <1>b, <1>c, <2>1 DEF ReadInv
  <2> QED
    BY <2>1 DEF ReadInv, Fits
<1>1. CASE RowSelect(t)
  BY <1>1, <1>a DEF RowSelect, WriteRNR, RowRegion
<1>2. CASE RowBase(t)
  <2>1. pc[t] = "rowBase" /\ pc'[t] = "rowSize" /\ UNCHANGED <<row, rnr>>
    BY <1>2, <1>a DEF RowBase
  <2>2. rnr \in {row[t], LastRegion}
    BY <1>b, <2>1 DEF ReadInv
  <2>3. shown' = [shown EXCEPT ![t] = [shown[t] EXCEPT ![1] = rbar[rnr]]]
    BY <1>2, <1>a DEF RowBase
  <2>4. [shown[t] EXCEPT ![1] = rbar[rnr]][1] = rbar[rnr]
    BY <1>a, PairUpdate
  <2>5. shown'[t][1] = rbar[rnr]
    BY <1>a, <2>3, <2>4
  <2>6. Fits(rbar[rnr], row[t])
    BY <2>2, ReadFits
  <2> QED
    BY <2>1, <2>2, <2>5, <2>6
<1>3. CASE RowSize(t)
  <2>1. pc[t] = "rowSize" /\ pc'[t] = "rowEnd" /\ UNCHANGED <<row, rnr>>
    BY <1>3, <1>a DEF RowSize
  <2>2. rnr \in {row[t], LastRegion} /\ Fits(shown[t][1], row[t])
    BY <1>b, <2>1 DEF ReadInv
  <2>3. shown' = [shown EXCEPT ![t] = [shown[t] EXCEPT ![2] = rasr[rnr]]]
    BY <1>3, <1>a DEF RowSize
  <2>4. [shown[t] EXCEPT ![2] = rasr[rnr]] = <<shown[t][1], rasr[rnr]>>
    BY <1>a, PairUpdate
  <2>5. shown'[t][1] = shown[t][1] /\ shown'[t][2] = rasr[rnr]
    BY <1>a, <2>3, <2>4
  <2>6. Fits(rasr[rnr], row[t])
    BY <2>2, ReadFits
  <2> QED
    BY <2>1, <2>2, <2>5, <2>6
<1>4. CASE RowEnd(t)
  <2>1. pc'[t] \in {"rowSelect", "idle"}
    BY <1>4, <1>a DEF RowEnd
  <2> QED
    BY <2>1
<1>5. CASE \E f \in {"configure", "clear", "dump"} : Call(t, f)
  <2> PICK f \in {"configure", "clear", "dump"} : Call(t, f)
    BY <1>5
  <2>1. pc'[t] \in {"build", "mask", "rowSelect"}
    BY <1>a DEF Call
  <2> QED
    BY <2>1
<1>6. CASE MaskByCaller(t) \/ Build(t) \/ Mask(t) \/ Select(t) \/ Clear(t) \/ SetBase(t)
             \/ SetSize(t) \/ Unmask(t)
  <2>1. pc'[t] \notin {"rowBase", "rowSize", "rowEnd"}
    BY <1>6, <1>a DEF MaskByCaller, Build, Mask, Select, Clear, SetBase, SetSize, Unmask
  <2> QED
    BY <2>1
<1> QED
  BY <1>1, <1>2, <1>3, <1>4, <1>5, <1>6 DEF ThreadStep

LEMMA ReadNext ==
    ASSUME StackGuard
    PROVE  TypeInv /\ StartInv /\ PlacesInv /\ ReadInv /\ [Next]_vars => ReadInv'
<1> SUFFICES ASSUME TypeInv, StartInv, PlacesInv, ReadInv, [Next]_vars PROVE ReadInv'
  OBVIOUS
<1>1. CASE UNCHANGED vars
  BY <1>1 DEF vars, registers, scheduler, threadVars, ReadInv, Fits
<1>2. CASE Boot
  <2>1. boot # "done" /\ pc' = pc
    BY <1>2 DEF threadVars, Boot, Disable, ClrSelect, ClrRasr, LoadCall, CopyWord, NextBlock,
                Enable
  <2>2. \A t \in Threads : pc'[t] = "idle"
    BY <2>1 DEF StartInv, IdleInv
  <2> QED
    BY <2>2 DEF ReadInv
<1>3. CASE Switch
  <2>1. rnr' = LastRegion /\ UNCHANGED <<pc, row, shown>>
    BY <1>3 DEF Switch, ApplyGuard, threadVars
  <2> QED
    BY <2>1 DEF ReadInv, Fits
<1> QED
  BY <1>1, <1>2, <1>3, ReadThread DEF Next

(***************************************************************************)
(* With the stack guard, a row that mpu_dump prints is whole if it was not *)
(* interrupted, and never another row of the table under the number of     *)
(* this one, wherever it is interrupted and whatever other threads select  *)
(* meanwhile.                                                              *)
(***************************************************************************)
THEOREM RowsAreShown ==
    ASSUME StackGuard
    PROVE  Spec => []RowShown
<1>1. Init => PlacesInv /\ ReadInv
  BY DEF Init, PlacesInv, ReadInv, Fits
<1>2. TypeInv /\ StartInv /\ PlacesInv /\ [Next]_vars => PlacesInv'
  BY PlacesNext
<1>3. TypeInv /\ StartInv /\ PlacesInv /\ ReadInv /\ [Next]_vars => ReadInv'
  BY ReadNext
<1>4. ReadInv => RowNeverAnother
  BY DEF ReadInv, RowNeverAnother, Fits
<1>5. RowWhole /\ RowNeverAnother => RowShown
  BY DEF RowShown
<1> QED
  BY <1>1, <1>2, <1>3, <1>4, <1>5, RowsAreWhole, TypeInit, TypeNext, StartInit, StartNext,
     PTL DEF Spec

------------------------------------------------------------------------------
(* The eighths of a region that is a power of two, at least 8 granules.    *)
LEMMA PowerSizeEighths ==
    ASSUME NEW r \in FitRequests
    PROVE  /\ PowerSize(r) \in Nat \ {0}
           /\ PowerSize(r) \div 8 \in Nat \ {0}
           /\ PowerSize(r) = 8 * (PowerSize(r) \div 8)
           /\ r.bytes <= PowerSize(r)
<1> DEFINE P == PowerSize(r)
<1>1. r.bytes \in Nat /\ 2 <= r.bytes /\ r.bytes <= WordSize
  <2>1. r.bytes \in 2 .. WordSize \div 2 /\ WordSize \in Nat \ {0}
    BY Constants DEF FitRequests
  <2>2. WordSize \div 2 \in Nat /\ WordSize \div 2 <= WordSize
    BY <2>1, DivNat
  <2> QED
    BY <2>1, <2>2
<1>2. CeilingPower(r.bytes) \in PowersOfTwo /\ r.bytes <= CeilingPower(r.bytes)
  BY <1>1, CeilingPowerType, Constants
<1>3. 8 * Granule \in PowersOfTwo /\ Granule \in Nat \ {0}
  <2>1. Granule \in Nat \ {0} /\ 8 * Granule <= WordSize /\ WordSize \in Nat
    BY Constants
  <2>2. PICK twice \in PowersOfTwo : twice = 2 * Granule
    BY <2>1, DoublePower, WordAssumption
  <2>3. PICK fourfold \in PowersOfTwo : fourfold = 2 * twice
    BY <2>1, <2>2, DoublePower
  <2>4. PICK eightfold \in PowersOfTwo : eightfold = 2 * fourfold
    BY <2>1, <2>2, <2>3, DoublePower
  <2> QED
    BY <2>1, <2>2, <2>3, <2>4
<1>4. P \in PowersOfTwo /\ P \in Nat \ {0} /\ 8 * Granule <= P /\ r.bytes <= P
  <2>1. CeilingPower(r.bytes) \in Nat \ {0}
    BY <1>2, Constants
  <2>2. P = IF CeilingPower(r.bytes) < 8 * Granule THEN 8 * Granule ELSE CeilingPower(r.bytes)
    BY DEF PowerSize
  <2> QED
    BY <1>1, <1>2, <1>3, <2>1, <2>2
<1> HIDE DEF P
<1>5. P % (8 * Granule) = 0
  BY <1>3, <1>4, WordAssumption
<1>6. PICK k \in Nat : P = (8 * Granule) * k
  BY <1>3, <1>4, <1>5, ExactQuotient
<1>7. P = 8 * (Granule * k) /\ Granule * k \in Nat
  BY <1>3, <1>6
<1>8. P \div 8 = Granule * k
  BY <1>7, Multiple
<1>9. Granule * k # 0
  BY <1>4, <1>7
<1> QED
  BY <1>4, <1>7, <1>8, <1>9 DEF P

(* Consecutive intervals of the same length make one.                      *)
LEMMA ConsecutiveIntervals ==
    ASSUME NEW b \in Nat, NEW s \in Nat \ {0}, NEW n \in 0 .. 8
    PROVE  UNION {b + i * s .. b + (i + 1) * s - 1 : i \in {j \in 0 .. 7 : j < n}}
             = b .. b + n * s - 1
<1> DEFINE Part(i) == b + i * s .. b + (i + 1) * s - 1
<1>1. ASSUME NEW i \in 0 .. 7, i < n, NEW x \in Part(i)
      PROVE  x \in b .. b + n * s - 1
  <2>1. i \in Nat /\ i + 1 \in Nat /\ n \in Nat /\ i + 1 <= n
    BY <1>1
  <2>2. (i + 1) * s <= n * s
    BY <2>1, ProductMonotonic
  <2>3. (i + 1) * s \in Nat /\ n * s \in Nat /\ i * s \in Nat
    BY <2>1
  <2> QED
    BY <1>1, <2>2, <2>3
<1>2. ASSUME NEW x \in b .. b + n * s - 1
      PROVE  \E i \in 0 .. 7 : i < n /\ x \in Part(i)
  <2> DEFINE i == (x - b) \div s
             m == (x - b) % s
  <2>1. x \in Nat /\ x - b \in Nat /\ n * s \in Nat /\ x - b < n * s
    BY <1>2
  <2>2. i \in Nat /\ m \in Nat /\ m < s /\ x - b = s * i + m
    BY <2>1, DivMod, DivNat
  <2> HIDE DEF i, m
  <2>3. i < n
    <3>1. CASE n <= i
      <4>1. n * s <= i * s
        BY <2>2, <3>1, ProductMonotonic
      <4>2. i * s = s * i /\ i * s \in Nat
        BY <2>2
      <4> QED
        BY <2>1, <2>2, <4>1, <4>2
    <3> QED
      BY <2>2, <3>1
  <2>4. i \in 0 .. 7
    BY <2>2, <2>3
  <2>5. i * s \in Nat /\ (i + 1) * s = i * s + s /\ s * i = i * s
    BY <2>2
  <2>6. x \in Part(i)
    BY <2>1, <2>2, <2>5
  <2> QED
    BY <2>3, <2>4, <2>6
<1> HIDE DEF Part
<1>3. UNION {Part(i) : i \in {j \in 0 .. 7 : j < n}} = b .. b + n * s - 1
  BY <1>1, <1>2
<1> QED
  BY <1>3 DEF Part

(* What build_entry makes of a request, when region_size is right.         *)
LEMMA FitEntryMaps ==
    ASSUME NEW r \in FitRequests, NEW e, e = FitEntry(r, PowerSize(r)), NaturallyAligned(r)
    PROVE  \E n \in 0 .. r.bytes :
             /\ r.bytes < n + SubregionBytes(e)
             /\ Mapped(e) = r.base .. r.base + n - 1
<1> DEFINE P == PowerSize(r)
           s == P \div 8
           N == r.bytes \div s
<1>1. r.base \in Nat /\ r.bytes \in Nat
  <2>1. r.base \in Addresses /\ r.bytes \in 2 .. WordSize \div 2 /\ WordSize \in Nat \ {0}
    BY Constants DEF FitRequests
  <2>2. WordSize \div 2 \in Nat
    BY <2>1, DivNat
  <2> QED
    BY <2>1, <2>2 DEF Addresses
<1>2. P \in Nat \ {0} /\ s \in Nat \ {0} /\ P = 8 * s /\ r.bytes <= P
  BY PowerSizeEighths
<1>3. e.base = r.base /\ e.size = P /\ e.srd = {i \in Subregions : i >= N}
  BY DEF FitEntry, NumSubregions
<1>4. r.base % P = 0
  BY DEF NaturallyAligned
<1> HIDE DEF P
<1>5. SubregionBytes(e) = s /\ RegionBytes(e) = P
  BY <1>2, <1>3 DEF SubregionBytes, RegionBytes
<1>6. RegionBase(e) = r.base
  BY <1>1, <1>2, <1>3, <1>4, <1>5 DEF RegionBase, AlignDown
<1> HIDE DEF s
<1>7. N \in Nat /\ N * s \in Nat /\ N * s <= r.bytes /\ r.bytes < N * s + s
  <2> DEFINE m == r.bytes % s
  <2>1. N \in Nat /\ m \in Nat /\ m < s /\ r.bytes = s * N + m
    BY <1>1, <1>2, DivMod, DivNat
  <2> HIDE DEF m, N
  <2>2. s * N = N * s /\ N * s \in Nat
    BY <1>2, <2>1
  <2> DEFINE p == N * s
  <2> HIDE DEF p
  <2>3. p \in Nat /\ r.bytes = p + m
    BY <2>1, <2>2 DEF p
  <2>4. p <= r.bytes /\ r.bytes < p + s
    BY <1>2, <2>1, <2>3
  <2> QED
    BY <2>1, <2>2, <2>4 DEF p
<1> HIDE DEF N
<1>8. N \in 0 .. 8
  <2>1. CASE 9 <= N
    <3>1. 9 * s <= N * s
      BY <1>2, <1>7, <2>1, ProductMonotonic
    <3> QED
      BY <1>1, <1>2, <1>7, <3>1
  <2> QED
    BY <1>7, <2>1
<1>9. Subregions \ e.srd = {j \in 0 .. 7 : j < N}
  BY <1>3, <1>7 DEF Subregions
<1>10. Mapped(e) = r.base .. r.base + N * s - 1
  <2>1. Mapped(e) = UNION {r.base + i * s .. r.base + (i + 1) * s - 1 :
                            i \in {j \in 0 .. 7 : j < N}}
    BY <1>5, <1>6, <1>9 DEF Mapped, Subregion
  <2> QED
    BY <1>1, <1>2, <1>8, <2>1, ConsecutiveIntervals
<1>11. N * s \in 0 .. r.bytes
  BY <1>1, <1>7
<1> QED
  BY <1>5, <1>7, <1>10, <1>11

(* Every entry that waits to be programmed was made of its request.        *)
BuiltInv ==
    \A t \in Threads : \A b \in built[t] :
        b.request \in FitRequests /\ b.entry = FitEntry(b.request, b.entry.size)

LEMMA BuiltNext == TypeInv /\ BuiltInv /\ [Next]_vars => BuiltInv'
<1> SUFFICES ASSUME TypeInv, BuiltInv, [Next]_vars PROVE BuiltInv'
  OBVIOUS
<1>0. \A t \in Threads : built[t] \subseteq [request : FitRequests, entry : Entries]
  BY DEF TypeInv, TypeOK
<1>1. CASE built' = built
  BY <1>1 DEF BuiltInv
<1>2. ASSUME NEW t \in Threads, Mask(t)
      PROVE  BuiltInv'
  <2>1. built' = [built EXCEPT ![t] = {}]
    BY <1>2 DEF Mask
  <2>2. \A u \in Threads : built'[u] \subseteq built[u]
    BY <2>1
  <2> QED
    BY <2>2 DEF BuiltInv
<1>3. ASSUME NEW t \in Threads, Build(t)
      PROVE  BuiltInv'
  <2>1. PICK r \in Requests, size \in Sizes :
          built' = [built EXCEPT ![t] = {[request |-> r, entry |-> FitEntry(r, size)]}]
    BY <1>3 DEF Build
  <2> DEFINE b == [request |-> r, entry |-> FitEntry(r, size)]
  <2>2. b.request \in FitRequests /\ b.entry = FitEntry(b.request, b.entry.size)
    BY ConfigureAssumption DEF FitEntry
  <2>3. \A u \in Threads : \A c \in built'[u] : c = b \/ c \in built[u]
    BY <2>1
  <2> HIDE DEF b
  <2> QED
    BY <2>2, <2>3 DEF BuiltInv
<1>4. [Next]_vars => built' = built \/ \E t \in Threads : Mask(t) \/ Build(t)
  <2>1. Boot \/ Switch \/ UNCHANGED vars => built' = built
    BY DEF Boot, Disable, ClrSelect, ClrRasr, LoadCall, CopyWord, NextBlock, Enable, Switch,
           vars, threadVars
  <2>2. ASSUME NEW t \in Threads, ThreadStep(t)
        PROVE  built' = built \/ Mask(t) \/ Build(t)
    BY <2>2 DEF ThreadStep, MaskByCaller, Call, Select, Clear, SetBase, SetSize, Unmask,
                RowSelect, RowBase, RowSize, RowEnd, threadVars
  <2> QED
    BY <2>1, <2>2 DEF Next
<1> QED
  BY <1>1, <1>2, <1>3, <1>4

(***************************************************************************)
(* mpu_configure_region maps nothing it was not asked to map, and all of   *)
(* the request but an end shorter than a subregion, for every naturally    *)
(* aligned request and every word size, as long as region_size, which the  *)
(* program leaves unset, is the size that was reckoned with.               *)
(***************************************************************************)
THEOREM FitIsSound == Spec => []FitMapsRequest
<1>1. Init => BuiltInv
  BY DEF Init, BuiltInv
<1>2. TypeInv /\ BuiltInv /\ [Next]_vars => BuiltInv'
  BY BuiltNext
<1>3. BuiltInv => FitMapsRequest
  <2> SUFFICES ASSUME BuiltInv, NEW t \in Threads, NEW b \in built[t],
                      NaturallyAligned(b.request), b.entry.size = PowerSize(b.request)
               PROVE  \E n \in 0 .. b.request.bytes :
                        /\ b.request.bytes < n + SubregionBytes(b.entry)
                        /\ Mapped(b.entry) = b.request.base .. b.request.base + n - 1
    BY DEF FitMapsRequest
  <2>1. b.request \in FitRequests /\ b.entry = FitEntry(b.request, PowerSize(b.request))
    BY DEF BuiltInv
  <2> QED
    BY <2>1, FitEntryMaps
<1> QED
  BY <1>1, <1>2, <1>3, TypeInit, TypeNext, PTL DEF Spec

==============================================================================
