------------------------------- MODULE MpuWord -------------------------------
(***************************************************************************)
(* Machine words of the target and the power-of-two arithmetic the MPU     *)
(* code is written with.  The code works on uint32_t; here the word is a   *)
(* parameter, so that TLC can exhaust a small one and a proof can speak of *)
(* all of them.                                                            *)
(***************************************************************************)
EXTENDS Integers

CONSTANTS
    WordSize,       \* Number of addresses: 2^32 in the code.
    Granule,        \* Smallest subregion the MPU offers: 32 bytes in the code.
    PowersOfTwo     \* {1, 2, 4, ..., WordSize}.

(***************************************************************************)
(* What is used of PowersOfTwo, stated without exponentiation: it is closed *)
(* under halving, larger members are multiples of smaller ones, every      *)
(* number up to the word size has a member in [x, 2x), and none is beyond  *)
(* the word size.                                                          *)
(* A region has 8 subregions, and the address space holds at least one     *)
(* region of 8 granules.                                                   *)
(***************************************************************************)
ASSUME WordAssumption ==
    /\ PowersOfTwo \subseteq Nat \ {0}
    /\ WordSize \in PowersOfTwo
    /\ Granule \in PowersOfTwo
    /\ 2 <= Granule
    /\ 8 * Granule <= WordSize
    /\ \A p \in PowersOfTwo \ {1} : p \div 2 \in PowersOfTwo /\ p = 2 * (p \div 2)
    /\ \A p, q \in PowersOfTwo : p <= q => q % p = 0
    /\ \A x \in 1..WordSize : \E p \in PowersOfTwo : x <= p /\ p < 2 * x
    /\ \A p \in PowersOfTwo : p <= WordSize

Addresses == 0 .. WordSize - 1

LastAddress == WordSize - 1

(* The value an expression of type uint32_t takes.                         *)
Wrap(x) == x % WordSize

(* x & ~(size - 1) for a power of two; size has wrapped to 0 when it stands *)
(* for the whole address space, and then ~(0 - 1) clears every bit.        *)
AlignDown(x, size) == IF size = 0 THEN 0 ELSE x - (x % size)

(* (x + size - 1) & ~(size - 1), including the wrap at the top of memory.  *)
AlignUp(x, size) == AlignDown(Wrap(x + size - 1), size)

(* 1 << (32 - __builtin_clz(x - 1)): the power of two at or above x.       *)
CeilingPower(x) == CHOOSE p \in PowersOfTwo : x <= p /\ p < 2 * x

==============================================================================
