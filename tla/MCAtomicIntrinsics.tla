-------------------------- MODULE MCAtomicIntrinsics --------------------------
(***************************************************************************)
(* A cell of three values.  Every comparison can succeed and fail, the     *)
(* decrement can wrap, and the cell can return to a value it had.          *)
(***************************************************************************)
EXTENDS AtomicIntrinsics

MCCalls ==
    {[op |-> "cmpxchg", old |-> 0, new |-> 2], [op |-> "cmpxchg", old |-> 2, new |-> 1],
     [op |-> "dec", old |-> 0, new |-> 0]}
==============================================================================
