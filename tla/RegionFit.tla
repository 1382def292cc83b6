------------------------------ MODULE RegionFit ------------------------------
(***************************************************************************)
(* The older of the two ways to choose a region, of which                  *)
(* mpu_configure_region makes one entry: find_size_and_subregions          *)
(* (mpu_calculator.cpp) followed by build_entry.                           *)
(***************************************************************************)
EXTENDS MpuRegion

(***************************************************************************)
(* What the function can be asked for: a size for which the shift by       *)
(* 32 - clz(size - 1) is defined.                                          *)
(***************************************************************************)
FitRequests == [base : Addresses, bytes : 2 .. WordSize \div 2]

PowerSize(r) ==
    LET size == CeilingPower(r.bytes)
    IN  IF size < 8 * Granule THEN 8 * Granule ELSE size

(* Variant: the subregion that is not needed in full is enabled too.       *)
NumSubregionsRounded(r) ==
    (r.bytes + PowerSize(r) \div 8 - 1) \div (PowerSize(r) \div 8)

NumSubregions(r) == r.bytes \div (PowerSize(r) \div 8)

NextAddr(r) == Wrap(r.base + NumSubregions(r) * (PowerSize(r) \div 8))

(***************************************************************************)
(* The entry built for request r.  region_size is a member of the          *)
(* calculator that neither its constructor nor find_size_and_subregions    *)
(* sets: the SIZE field says whatever it happens to say.                   *)
(***************************************************************************)
FitEntry(r, region_size) ==
    [region |-> NumRegions - 1, base |-> r.base, size |-> region_size,
     srd |-> {i \in Subregions : i >= NumSubregions(r)}]

(* "assumes start_addr is naturally aligned"                               *)
NaturallyAligned(r) == r.base % PowerSize(r) = 0

==============================================================================
