--------------------------- MODULE MCDisjointRanges ---------------------------
(***************************************************************************)
(* Small scalars for DisjointRanges.                                       *)
(***************************************************************************)
EXTENDS DisjointRanges

CONSTANT MaxRanges      \* Bound on the length of a vector.

(* All vectors of up to MaxRanges ranges, but for the order of starts,     *)
(* which sorting brings about.  Ranges may be equal.                       *)
MCInputs ==
    {s \in UNION {[1 .. n -> RangeValues] : n \in 0 .. MaxRanges} : IsSorted(s)}
==============================================================================
