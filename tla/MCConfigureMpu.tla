---------------------------- MODULE MCConfigureMpu ----------------------------
(***************************************************************************)
(* A small MPU: the table is one row longer than the alias registers, so   *)
(* that it is copied in two blocks, and one region is left over.  Aligned  *)
(* and unaligned requests of an address space of 64, the smallest sizes,   *)
(* powers of two and their neighbours.                                     *)
(***************************************************************************)
EXTENDS ConfigureMpu

MCRequests == [base : {0, 20, 32}, bytes : {2, 15, 16, 18, 31}]

MCPowersOfTwo == {1, 2, 4, 8, 16, 32, 64}
==============================================================================
