------------------------------ MODULE MpuRegion ------------------------------
(***************************************************************************)
(* One entry of an MPU table (an RBAR/RASR pair) and the addresses the     *)
(* ARMv7-M MPU maps when the entry is loaded.  Attributes (XN, AP, TEX/S/C/B) *)
(* are passed through unchanged by the calculator and are left out.        *)
(***************************************************************************)
EXTENDS MpuWord

CONSTANT
    NumRegions      \* Values of the REGION field of RBAR: 16 in the code.

ASSUME RegionAssumption == NumRegions \in Nat \ {0}

Subregions == 0 .. 7

(***************************************************************************)
(* region: RBAR.REGION.   base: RBAR.ADDR.   size: 2^(RASR.SIZE + 1), where *)
(* 0 stands for SIZE = 31, the whole address space (region_size has        *)
(* wrapped).   srd: RASR.SRD, the subregions that are disabled.            *)
(***************************************************************************)
Entries == [region : 0 .. NumRegions - 1, base : Addresses, size : Addresses,
            srd : SUBSET Subregions]

(* Bytes of the region and of one of its subregions.                       *)
RegionBytes(e) == IF e.size = 0 THEN WordSize ELSE e.size
SubregionBytes(e) == RegionBytes(e) \div 8

(* The hardware ignores the address bits below the region's size.          *)
RegionBase(e) == AlignDown(e.base, RegionBytes(e))

(* The addresses of subregion i of entry e.                                *)
Subregion(e, i) ==
    RegionBase(e) + i * SubregionBytes(e) .. RegionBase(e) + (i + 1) * SubregionBytes(e) - 1

(* The addresses an entry maps: its enabled subregions.                    *)
Mapped(e) == UNION {Subregion(e, i) : i \in Subregions \ e.srd}

(* The addresses a table of entries maps.                                  *)
MappedBy(table) == UNION {Mapped(table[i]) : i \in DOMAIN table}

==============================================================================
