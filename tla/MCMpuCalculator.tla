--------------------------- MODULE MCMpuCalculator ---------------------------
(***************************************************************************)
(* Small address spaces for MpuCalculator.  As in the code, where they are *)
(* 2^32 and 32, WordSize and Granule are a power of 8 apart.               *)
(***************************************************************************)
EXTENDS MpuCalculator

(* Every start and end of a space of 128 addresses.                        *)
AllRequests == [start : Addresses, end : Addresses, number : {0}]

(* Short ranges of any alignment in the middle of a space of 256 addresses *)
(* and granules of 4.                                                      *)
UnalignedRequests == [start : 64 .. 79, end : 64 .. 127, number : {0}]

(* Well-posed ranges of a space of 2048 addresses and granules of 4, three *)
(* levels of regions deep: boundaries next to multiples of each region     *)
(* size, on both sides, ends with and without a partial granule, called    *)
(* with different region numbers.                                          *)
DeepStarts == {0, 4, 28, 32, 36, 60, 252, 256, 260, 292, 508, 516, 1020, 1252, 1500}
DeepEnds == {31, 34, 250, 255, 259, 287, 510, 511, 546, 1023, 1027, 1243, 1506,
             1755, 1787, 2014, 2015, 2043, 2047}

DeepRequests ==
    {r \in [start : DeepStarts, end : DeepEnds, number : {0, 1, 3, 4}] :
        WellPosed(r.start, r.end)}

MCPowersOfTwo == {1, 2, 4, 8, 16, 32, 64, 128, 256, 512, 1024, 2048} \cap (1 .. WordSize)
==============================================================================
