-------------------------- MODULE MCIntervalSearch ---------------------------
(***************************************************************************)
(* Small scalars for IntervalSearch.                                       *)
(***************************************************************************)
EXTENDS IntervalSearch, MCDisjointRanges
==============================================================================
