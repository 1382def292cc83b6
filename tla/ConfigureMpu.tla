----------------------------- MODULE ConfigureMpu -----------------------------
(***************************************************************************)
(* The firmware's side of the MPU (configure_mpu.cpp over mpu_armv7.h and  *)
(* cpu_m7.h): Configure_MPU at start-up, then threads that call            *)
(* mpu_configure_region, mpu_clear_region and mpu_dump while the scheduler *)
(* switches between them.  One step per access to a register of the MPU.   *)
(*                                                                         *)
(* The RBAR and RASR of a region are not modelled bit by bit but by whose  *)
(* they are, which is what the properties are about.                       *)
(***************************************************************************)
EXTENDS RegionFit

CONSTANTS
    Threads,
    TableSize,      \* MPU_TABLE_SIZE: 15 in the code.
    Requests,       \* Arguments of mpu_configure_region.
    StackGuard,     \* configUSE_MPU_THREAD_STACK_GUARD.
    MaxCalls        \* Bound on the number of calls all threads make.

ASSUME ConfigureAssumption ==
    /\ TableSize \in 1 .. NumRegions - 1
    /\ Requests \subseteq FitRequests
    /\ StackGuard \in BOOLEAN
    /\ MaxCalls \in Nat

Regions == 0 .. NumRegions - 1

(* MPU_ENTRY_15_FOR_TESTING_PMON_CACHED_READS, and the guard's region.     *)
LastRegion == NumRegions - 1

(* MPU_TYPE_RALIASES: rows of registers a block can be copied to.          *)
Aliases == 4

(* Whose register contents are: an entry of mpuTable, the stack guard of a *)
(* thread, what a thread configured, zero, or what was there at reset.     *)
Contents ==
    ({"table"} \X (0 .. TableSize - 1)) \cup ({"guard", "config"} \X Threads)
        \cup {<<"zero", 0>>, <<"reset", 0>>}

Off == <<"zero", 0>>

VARIABLES
    rnr, rbar, rasr, enabled,   \* Registers of the MPU; CTRL.ENABLE.
    primask,                    \* 1: interrupts are masked.
    boot,       \* Place in Configure_MPU: what it does next, or "done".
    count,      \* Its loop variable, and cnt of ARM_MPU_Load.
    table,      \* The pointer of ARM_MPU_Load, as an index of mpuTable.
    word,       \* i of ARM_MPU_OrderedMemcpy.
    running,    \* The thread that has the processor.
    calls,      \* Calls so far.
    pc, task,   \* Place of each thread, and the function it is in.
    saved,      \* The member primask of its cpu_interrupt_disable_guard.
    built,      \* The entry mpu_configure_region has built, and for what:
                \* none or one.
    row, shown, \* Loop variable of mpu_dump; the registers it read last.
    own,        \* History: PRIMASK as the thread itself, between calls, set it.
    cut, rowCut \* History: a thread lost the processor while its guard object
                \* existed; in the middle of a row of mpu_dump.

registers == <<rnr, rbar, rasr, enabled>>
bootVars == <<boot, count, table, word>>
scheduler == <<running, calls>>
threadVars == <<pc, task, saved, built, row, shown>>
history == <<own, cut, rowCut>>
vars == <<registers, primask, bootVars, scheduler, threadVars, history>>

TypeOK ==
    /\ rnr \in Regions
    /\ rbar \in [Regions -> Contents]
    /\ rasr \in [Regions -> Contents]
    /\ enabled \in BOOLEAN /\ primask \in {0, 1}
    /\ boot \in {"disable", "select", "clear", "copy", "enable", "done"}
    /\ count \in 0 .. NumRegions /\ table \in 0 .. TableSize /\ word \in 0 .. 2 * Aliases
    /\ running \in Threads /\ calls \in 0 .. MaxCalls
    /\ pc \in [Threads -> {"idle", "build", "mask", "select", "clear", "base", "size",
                           "unmask", "rowSelect", "rowBase", "rowSize", "rowEnd"}]
    /\ task \in [Threads -> {"none", "configure", "clear", "dump"}]
    /\ saved \in [Threads -> {0, 1}]
    /\ \A t \in Threads : built[t] \subseteq [request : FitRequests, entry : Entries]
    /\ row \in [Threads -> 0 .. NumRegions]
    /\ shown \in [Threads -> Contents \X Contents]
    /\ own \in [Threads -> {0, 1}]
    /\ cut \in BOOLEAN /\ rowCut \in [Threads -> BOOLEAN]

Init ==
    /\ rnr = 0 /\ rbar = [r \in Regions |-> <<"reset", 0>>]
    /\ rasr = [r \in Regions |-> <<"reset", 0>>]
    /\ enabled \in BOOLEAN /\ primask = 0
    /\ boot = "disable" /\ count = 0 /\ table = 0 /\ word = 0
    /\ running \in Threads /\ calls = 0
    /\ pc = [t \in Threads |-> "idle"] /\ task = [t \in Threads |-> "none"]
    /\ saved = [t \in Threads |-> 0] /\ built = [t \in Threads |-> {}]
    /\ row = [t \in Threads |-> 0] /\ shown = [t \in Threads |-> <<Off, Off>>]
    /\ own = [t \in Threads |-> 0]
    /\ cut = FALSE /\ rowCut = [t \in Threads |-> FALSE]

------------------------------------------------------------------------------
(* The registers.  RBAR and RASR are those of the region selected by RNR;  *)
(* the RBARs written here have VALID set and so select their own region.   *)

WriteRNR(r) == rnr' = r /\ UNCHANGED <<rbar, rasr, enabled>>

WriteRBAR(r, contents) ==
    /\ rnr' = r
    /\ rbar' = [rbar EXCEPT ![r] = contents]
    /\ UNCHANGED <<rasr, enabled>>

WriteRASR(contents) ==
    /\ rasr' = [rasr EXCEPT ![rnr] = contents]
    /\ UNCHANGED <<rnr, rbar, enabled>>

------------------------------------------------------------------------------
(* Configure_MPU, before the scheduler is started.                         *)

Disable ==
    /\ boot = "disable"
    /\ enabled' = FALSE
    /\ boot' = "select" /\ count' = 0
    /\ UNCHANGED <<rnr, rbar, rasr, primask, table, word, scheduler, threadVars, history>>

ClrSelect ==
    /\ boot = "select" /\ count < NumRegions
    /\ WriteRNR(count)
    /\ boot' = "clear"
    /\ UNCHANGED <<primask, count, table, word, scheduler, threadVars, history>>

ClrRasr ==
    /\ boot = "clear"
    /\ WriteRASR(Off)
    /\ boot' = "select" /\ count' = count + 1
    /\ UNCHANGED <<primask, table, word, scheduler, threadVars, history>>

LoadCall ==
    /\ boot = "select" /\ count = NumRegions
    /\ boot' = "copy" /\ count' = TableSize /\ table' = 0 /\ word' = 0
    /\ UNCHANGED <<registers, primask, scheduler, threadVars, history>>

(* Variant: the blocks are one row too long for the registers.             *)
BlockRowsLong == IF count > Aliases + 1 THEN Aliases + 1 ELSE count

(* Rows of the block that is being copied.                                 *)
BlockRows == IF count > Aliases THEN Aliases ELSE count

CopyWord ==
    /\ boot = "copy" /\ word < 2 * BlockRows
    /\ LET e == table + word \div 2
       IN  IF word % 2 = 0 THEN WriteRBAR(e, <<"table", e>>)
           ELSE WriteRASR(<<"table", e>>)
    /\ word' = word + 1
    /\ UNCHANGED <<primask, boot, count, table, scheduler, threadVars, history>>

(* Variant: the last block is forgotten.                                   *)
MoreBlocksLow == count > 2 * Aliases

(* The condition of the while loop; the rest is copied behind it.          *)
MoreBlocks == count > Aliases

NextBlock ==
    /\ boot = "copy" /\ word = 2 * BlockRows
    /\ word' = 0
    /\ IF MoreBlocks
       THEN table' = table + Aliases /\ count' = count - Aliases /\ UNCHANGED boot
       ELSE boot' = "enable" /\ UNCHANGED <<table, count>>
    /\ UNCHANGED <<registers, primask, scheduler, threadVars, history>>

Enable ==
    /\ boot = "enable"
    /\ enabled' = TRUE
    /\ boot' = "done"
    /\ UNCHANGED <<rnr, rbar, rasr, primask, count, table, word, scheduler, threadVars,
                   history>>

Boot == Disable \/ ClrSelect \/ ClrRasr \/ LoadCall \/ CopyWord \/ NextBlock \/ Enable

------------------------------------------------------------------------------
(* The threads.                                                            *)

At(t, place) == boot = "done" /\ running = t /\ pc[t] = place

Go(t, place) == pc' = [pc EXCEPT ![t] = place]

(* A caller may have masked interrupts, or unmask them, on its own.        *)
MaskByCaller(t) ==
    /\ At(t, "idle")
    /\ primask' = 1 - primask
    /\ own' = [own EXCEPT ![t] = 1 - primask]
    /\ UNCHANGED <<registers, bootVars, scheduler, threadVars, cut, rowCut>>

Call(t, function) ==
    /\ At(t, "idle") /\ calls < MaxCalls
    /\ calls' = calls + 1
    /\ task' = [task EXCEPT ![t] = function]
    /\ Go(t, CASE function = "configure" -> "build" [] function = "clear" -> "mask"
               [] function = "dump" -> "rowSelect")
    /\ row' = [row EXCEPT ![t] = 0]
    /\ UNCHANGED <<registers, primask, bootVars, running, saved, built, shown, history>>

(* What SIZE can say: region_size_to_region_bits counts trailing zeros.    *)
Sizes == {0} \cup (PowersOfTwo \cap Addresses)

(* The do loop of mpu_configure_region makes one turn: MAX_ENTRIES is 1.   *)
Build(t) ==
    /\ At(t, "build")
    /\ \E r \in Requests, region_size \in Sizes :
            built' = [built EXCEPT ![t] =
                {[request |-> r, entry |-> FitEntry(r, region_size)]}]
    /\ Go(t, "mask")
    /\ UNCHANGED <<registers, primask, bootVars, scheduler, task, saved, row, shown, history>>

(* What arm_cpu_intr_disable writes to PRIMASK.  1 would mask interrupts.  *)
DisabledMask == 0

(* The constructor of cpu_interrupt_disable_guard.                         *)
Mask(t) ==
    /\ At(t, "mask")
    /\ saved' = [saved EXCEPT ![t] = primask]
    /\ primask' = DisabledMask
    /\ built' = [built EXCEPT ![t] = {}]
    /\ Go(t, "select")
    /\ UNCHANGED <<registers, bootVars, scheduler, task, row, shown, history>>

Select(t) ==
    /\ At(t, "select")
    /\ WriteRNR(LastRegion)
    /\ Go(t, "clear")
    /\ UNCHANGED <<primask, bootVars, scheduler, task, saved, built, row, shown, history>>

(* Variant: mpu_configure_region does not call ARM_MPU_ClrRegion.          *)
ClearForgotten(t) ==
    /\ At(t, "clear")
    /\ UNCHANGED registers
    /\ Go(t, IF task[t] = "configure" THEN "base" ELSE "unmask")
    /\ UNCHANGED <<primask, bootVars, scheduler, task, saved, built, row, shown, history>>

Clear(t) ==
    /\ At(t, "clear")
    /\ WriteRASR(Off)
    /\ Go(t, IF task[t] = "configure" THEN "base" ELSE "unmask")
    /\ UNCHANGED <<primask, bootVars, scheduler, task, saved, built, row, shown, history>>

SetBase(t) ==
    /\ At(t, "base")
    /\ WriteRBAR(LastRegion, <<"config", t>>)
    /\ Go(t, "size")
    /\ UNCHANGED <<primask, bootVars, scheduler, task, saved, built, row, shown, history>>

SetSize(t) ==
    /\ At(t, "size")
    /\ WriteRASR(<<"config", t>>)
    /\ Go(t, "unmask")
    /\ UNCHANGED <<primask, bootVars, scheduler, task, saved, built, row, shown, history>>

(* Variant: the destructor enables interrupts whatever they were before.   *)
RestoredMaskNone(t) == 0

RestoredMask(t) == saved[t]

(* The destructor of the guard object, and the return.                     *)
Unmask(t) ==
    /\ At(t, "unmask")
    /\ primask' = RestoredMask(t)
    /\ Go(t, "idle")
    /\ task' = [task EXCEPT ![t] = "none"]
    /\ UNCHANGED <<registers, bootVars, scheduler, saved, built, row, shown, history>>

(* Variant: regions counted from 1.                                        *)
RowRegionLate(t) == row[t] + 1

RowRegion(t) == row[t]

RowSelect(t) ==
    /\ At(t, "rowSelect")
    /\ WriteRNR(RowRegion(t))
    /\ Go(t, "rowBase")
    /\ rowCut' = [rowCut EXCEPT ![t] = FALSE]
    /\ UNCHANGED <<primask, bootVars, scheduler, task, saved, built, row, shown, own, cut>>

RowBase(t) ==
    /\ At(t, "rowBase")
    /\ shown' = [shown EXCEPT ![t][1] = rbar[rnr]]
    /\ Go(t, "rowSize")
    /\ UNCHANGED <<registers, primask, bootVars, scheduler, task, saved, built, row, history>>

RowSize(t) ==
    /\ At(t, "rowSize")
    /\ shown' = [shown EXCEPT ![t][2] = rasr[rnr]]
    /\ Go(t, "rowEnd")
    /\ UNCHANGED <<registers, primask, bootVars, scheduler, task, saved, built, row, history>>

(* The end of the loop over the regions MPU_TYPE tells, or of the dump.    *)
RowEnd(t) ==
    /\ At(t, "rowEnd")
    /\ row' = [row EXCEPT ![t] = @ + 1]
    /\ Go(t, IF row[t] + 1 < NumRegions THEN "rowSelect" ELSE "idle")
    /\ task' = [task EXCEPT ![t] = IF row[t] + 1 < NumRegions THEN @ ELSE "none"]
    /\ shown' = [shown EXCEPT ![t] = <<Off, Off>>]
    /\ UNCHANGED <<registers, primask, bootVars, scheduler, saved, built, history>>

Guarded(t) == pc[t] \in {"select", "clear", "base", "size", "unmask"}

(* Variant: the scheduler gives RNR back as it found it.                   *)
ApplyGuardAside(t) ==
    IF StackGuard
    THEN /\ rbar' = [rbar EXCEPT ![LastRegion] = <<"guard", t>>]
         /\ rasr' = [rasr EXCEPT ![LastRegion] = <<"guard", t>>]
         /\ UNCHANGED <<rnr, enabled>>
    ELSE UNCHANGED registers

(* Variant: the guard is that of the thread that is switched from.         *)
ApplyGuardOfOld(t) ==
    IF StackGuard
    THEN /\ rnr' = LastRegion
         /\ rbar' = [rbar EXCEPT ![LastRegion] = <<"guard", running>>]
         /\ rasr' = [rasr EXCEPT ![LastRegion] = <<"guard", running>>]
         /\ UNCHANGED enabled
    ELSE UNCHANGED registers

(* The stack guard of the next thread, MPU_thread_guard[0], is written to  *)
(* the MPU, and selects its region (MPUThreadGuard_apply).                 *)
ApplyGuard(t) ==
    IF StackGuard
    THEN /\ rnr' = LastRegion
         /\ rbar' = [rbar EXCEPT ![LastRegion] = <<"guard", t>>]
         /\ rasr' = [rasr EXCEPT ![LastRegion] = <<"guard", t>>]
         /\ UNCHANGED enabled
    ELSE UNCHANGED registers

(* A context switch (vTaskSwitchContext): an exception, which PRIMASK can  *)
(* hold off.                                                               *)
Switch ==
    /\ boot = "done" /\ primask = 0
    /\ \E t \in Threads \ {running} :
        /\ running' = t
        /\ ApplyGuard(t)
    /\ cut' = (cut \/ Guarded(running))
    /\ rowCut' = [rowCut EXCEPT ![running] = TRUE]
    /\ UNCHANGED <<primask, bootVars, calls, threadVars, own>>

ThreadStep(t) ==
    \/ MaskByCaller(t) \/ \E f \in {"configure", "clear", "dump"} : Call(t, f)
    \/ Build(t) \/ Mask(t) \/ Select(t) \/ Clear(t) \/ SetBase(t) \/ SetSize(t)
    \/ Unmask(t) \/ RowSelect(t) \/ RowBase(t) \/ RowSize(t) \/ RowEnd(t)

Next == Boot \/ Switch \/ \E t \in Threads : ThreadStep(t)

Spec == Init /\ [][Next]_vars

------------------------------------------------------------------------------
Holds(r, contents) == rbar[r] = contents /\ rasr[r] = contents

TableIntact == \A r \in 0 .. TableSize - 1 : Holds(r, <<"table", r>>)

(* The memory map is in force only as a whole: not while Configure_MPU     *)
(* replaces it, and afterwards no region of mpuTable is anything else.     *)
(* Functions that write the last region only keep it so although they can  *)
(* be suspended between selecting it and writing it, and mpu_dump selects  *)
(* other regions: with the stack guard, every switch selects the last      *)
(* region again.                                                           *)
TableKept == enabled => boot = "disable" \/ (boot = "done" /\ TableIntact)

(* The last region, while it is enabled, has the base and the size of the  *)
(* same owner: "we disable interrupts and wait for all memory operations   *)
(* to complete" before it is reprogrammed.                                 *)
LastRegionWhole ==
    enabled /\ boot = "done" /\ rasr[LastRegion] # Off
        => rbar[LastRegion] = rasr[LastRegion]

(* What masking interrupts would be enough for: the last region is whole   *)
(* as long as no thread lost the processor in a critical section.          *)
MaskingSuffices == ~cut => LastRegionWhole

(* A thread that is in none of these functions finds PRIMASK as it set it  *)
(* itself, though each call changes it, and though other threads use it    *)
(* while this one is suspended in the middle of a call.                    *)
MaskRestored == \A t \in Threads : running = t /\ pc[t] = "idle" => primask = own[t]

(* mpu_dump shows what a region holds, both registers of the same region,  *)
(* if the thread did not lose the processor in the middle of it.           *)
RowWhole ==
    \A t \in Threads :
        pc[t] = "rowEnd" /\ ~rowCut[t] => shown[t] = <<rbar[row[t]], rasr[row[t]]>>

(* Whatever interrupts it, mpu_dump never prints a register of another     *)
(* region of the table under the number of a row: if the thread lost the   *)
(* processor, it reads the last region, which the switch back to it has    *)
(* selected, and not the one some other thread has selected meanwhile.     *)
RowNeverAnother ==
    \A t \in Threads : pc[t] = "rowEnd" =>
        \A k \in {1, 2} :
            shown[t][k][1] = "table" => shown[t][k] = <<"table", row[t]>>

(* What a row of mpu_dump is worth, interrupted or not.                    *)
RowShown == RowWhole /\ RowNeverAnother

(* The guard or the configured memory the last region holds is that of the *)
(* running thread, never what a suspended one left there, although calls   *)
(* that write it can be suspended between any two of their accesses.       *)
LastRegionOwn ==
    \A contents \in {rbar[LastRegion], rasr[LastRegion]} :
        contents[1] \in {"guard", "config"} => contents[2] = running

(* The entry mpu_configure_region makes maps nothing but what was asked    *)
(* for, from its start on, and falls short of it by less than a subregion, *)
(* provided that the start is naturally aligned and that region_size       *)
(* happens to be the size that was reckoned with.                          *)
FitMapsRequest ==
    \A b \in UNION {built[t] : t \in Threads} :
        LET r == b.request
            e == b.entry
        IN  NaturallyAligned(r) /\ e.size = PowerSize(r) =>
                \E n \in 0 .. r.bytes :
                    /\ r.bytes < n + SubregionBytes(e)
                    /\ Mapped(e) = r.base .. r.base + n - 1

(* "programs mpu entry 15 to be cached for addresses in                    *)
(* [base_address,base_address+size)": at least for requests that a region  *)
(* can be, naturally aligned and a whole number of subregions.             *)
ConfiguredAsDocumented ==
    \A b \in UNION {built[t] : t \in Threads} :
        LET r == b.request
        IN  NaturallyAligned(r) /\ r.bytes % (PowerSize(r) \div 8) = 0 =>
                Mapped(b.entry) = r.base .. r.base + r.bytes - 1

==============================================================================
