------------------------------ MODULE AtomicCell ------------------------------
(***************************************************************************)
(* What atomic_cmpxchg and atomic_dec promise (atomic_intrinsics.h, the    *)
(* comments above them): each call takes effect at one instant between its *)
(* beginning and its end, and returns the value *ptr had at that instant.  *)
(***************************************************************************)
EXTENDS Integers

CONSTANTS
    Procs,          \* Threads and interrupt handlers.
    WordSize,       \* Number of values of *ptr: 2^32 in the code.
    Calls,          \* The calls that are made: [op, old, new], where op is
                    \* "cmpxchg", or "dec", which uses neither old nor new.
    NoValue         \* "Not yet known".

Words == 0 .. WordSize - 1

VARIABLES
    cell,           \* *ptr.
    call,           \* call[p]: the latest call of p.
    phase,          \* phase[p]: "idle", "pending" or "done".
    previous        \* previous[p]: the value to return, once it is known.

vars == <<cell, call, phase, previous>>

(* The value a call c leaves in a cell that holds v.                       *)
After(c, v) ==
    IF c.op = "dec" THEN (v - 1) % WordSize
    ELSE IF v = c.old THEN c.new ELSE v

Init ==
    /\ cell \in Words
    /\ call \in [Procs -> Calls]
    /\ phase = [p \in Procs |-> "idle"]
    /\ previous = [p \in Procs |-> NoValue]

Call(p) ==
    /\ phase[p] = "idle"
    /\ \E c \in Calls : call' = [call EXCEPT ![p] = c]
    /\ phase' = [phase EXCEPT ![p] = "pending"]
    /\ UNCHANGED <<cell, previous>>

TakeEffect(p) ==
    /\ phase[p] = "pending"
    /\ cell' = After(call[p], cell)
    /\ previous' = [previous EXCEPT ![p] = cell]
    /\ phase' = [phase EXCEPT ![p] = "done"]
    /\ UNCHANGED call

Return(p) ==
    /\ phase[p] = "done"
    /\ phase' = [phase EXCEPT ![p] = "idle"]
    /\ previous' = [previous EXCEPT ![p] = NoValue]
    /\ UNCHANGED <<cell, call>>

(* Somebody writes *ptr without these functions.                           *)
Write ==
    /\ cell' \in Words
    /\ UNCHANGED <<call, phase, previous>>

Next == Write \/ \E p \in Procs : Call(p) \/ TakeEffect(p) \/ Return(p)

Spec == Init /\ [][Next]_vars

==============================================================================
