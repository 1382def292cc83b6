---------------------------- MODULE MCMpuDisplay -----------------------------
(***************************************************************************)
(* Small tables for MpuDisplay.                                            *)
(***************************************************************************)
EXTENDS MpuDisplay

(* Subregion masks that leave at most two runs: none disabled, the ends,   *)
(* the middle, all but two, all.                                           *)
Masks == {{}, {0}, {7}, {0, 7}, {3, 4}, {1, 2, 3, 5, 6, 7}, Subregions}

(* Aligned regions of every size, the whole space as size 0.               *)
Shapes ==
    {e \in [base : Addresses, size : {0} \cup PowersOfTwo, srd : Masks] :
        /\ e.size = 0 \/ (8 * Granule <= e.size /\ e.size < WordSize)
        /\ AlignDown(e.base, e.size) = e.base}

Numbered(shape, number) ==
    [region |-> number, base |-> shape.base, size |-> shape.size, srd |-> shape.srd]

(* Tables of up to two entries.                                            *)
PairTables ==
    {<<>>} \cup {<<Numbered(a, 0)>> : a \in Shapes}
           \cup {<<Numbered(a, 0), Numbered(b, 1)>> : a \in Shapes, b \in Shapes}

(* The same where no two ranges start at the same address, so that sorting *)
(* leaves no choice.                                                       *)
DistinctTables ==
    {t \in PairTables : \A r, s \in AllRanges(t) : r.start = s.start => r = s}

MCPowersOfTwo == {1, 2, 4, 8, 16, 32, 64, 128, 256, 512, 1024, 2048} \cap (1 .. WordSize)
==============================================================================
