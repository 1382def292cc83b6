--------------------------- MODULE AtomicIntrinsics ---------------------------
(***************************************************************************)
(* atomic_intrinsics.h: compare-exchange and decrement built from LDREX    *)
(* and STREX.  One step per access to *ptr.  The reservation LDREX makes   *)
(* is lost when *ptr is written by somebody else, and at any other time:   *)
(* an exception clears the monitor of the core.                            *)
(***************************************************************************)
EXTENDS Integers

CONSTANTS
    Procs,          \* Threads and interrupt handlers.
    WordSize,       \* Number of values of *ptr: 2^32 in the code.
    Calls,          \* The calls that are made, as in AtomicCell.
    NoValue

VARIABLES
    cell,           \* *ptr.
    call,           \* call[p]: the latest call of p.
    pc,             \* pc[p]: "idle", "load", "store" or "return".
    val,            \* val[p]: the local variable val.
    reserved        \* The processes whose STREX would succeed.

vars == <<cell, call, pc, val, reserved>>

Words == 0 .. WordSize - 1

CallType == [op : {"cmpxchg", "dec"}, old : Words, new : Words]

ASSUME IntrinsicsAssumption ==
    /\ WordSize \in Nat \ {0}
    /\ Calls \subseteq CallType
    /\ NoValue \notin Words

TypeOK ==
    /\ cell \in Words
    /\ call \in [Procs -> Calls]
    /\ pc \in [Procs -> {"idle", "load", "store", "return"}]
    /\ val \in [Procs -> Words]
    /\ reserved \subseteq Procs

Init ==
    /\ cell \in Words
    /\ call \in [Procs -> Calls]
    /\ pc = [p \in Procs |-> "idle"]
    /\ val = [p \in Procs |-> 0]
    /\ reserved = {}

Call(p) ==
    /\ pc[p] = "idle"
    /\ \E c \in Calls : call' = [call EXCEPT ![p] = c]
    /\ pc' = [pc EXCEPT ![p] = "load"]
    /\ UNCHANGED <<cell, val, reserved>>

(* Variant: the compare-exchange is tried whatever was read.               *)
GivesUpNever(c, v) == FALSE

(* The value read is not the one atomic_cmpxchg looks for.                 *)
GivesUp(c, v) == c.op = "cmpxchg" /\ v # c.old

(* atomic_LL, and the test of what it returns.                             *)
Load(p) ==
    /\ pc[p] = "load"
    /\ val' = [val EXCEPT ![p] = cell]
    /\ reserved' = reserved \cup {p}
    /\ pc' = [pc EXCEPT ![p] = IF GivesUp(call[p], cell) THEN "return" ELSE "store"]
    /\ UNCHANGED <<cell, call>>

(* Variant: the decrement is not reckoned in uint32_t.                     *)
NewValueSigned(c, v) == IF c.op = "dec" THEN v - 1 ELSE c.new

(* The second argument of atomic_SC.                                       *)
NewValue(c, v) == IF c.op = "dec" THEN (v - 1) % WordSize ELSE c.new

StoreSucceeds(p) ==
    /\ pc[p] = "store" /\ p \in reserved
    /\ cell' = NewValue(call[p], val[p])
    /\ reserved' = {}
    /\ pc' = [pc EXCEPT ![p] = "return"]
    /\ UNCHANGED <<call, val>>

(* Variants: the result of STREX is ignored; only STREX is tried again.    *)
AfterFailureReturn == "return"
AfterFailureStore == "store"

AfterFailure == "load"

StoreFails(p) ==
    /\ pc[p] = "store" /\ p \notin reserved
    /\ pc' = [pc EXCEPT ![p] = AfterFailure]
    /\ UNCHANGED <<cell, call, val, reserved>>

Return(p) ==
    /\ pc[p] = "return"
    /\ pc' = [pc EXCEPT ![p] = "idle"]
    /\ UNCHANGED <<cell, call, val, reserved>>

(* The hardware's part: a reservation is lost; *ptr is written by a plain  *)
(* store.                                                                  *)
Lose(p) ==
    /\ p \in reserved
    /\ reserved' = reserved \ {p}
    /\ UNCHANGED <<cell, call, pc, val>>

Write ==
    /\ cell' \in Words
    /\ reserved' = {}
    /\ UNCHANGED <<call, pc, val>>

Step(p) == Load(p) \/ StoreSucceeds(p) \/ StoreFails(p) \/ Return(p)

Disturbance == Write \/ \E p \in Procs : Lose(p)

Next == Disturbance \/ \E p \in Procs : Call(p) \/ Step(p)

Spec == Init /\ [][Next]_vars

(* A call that is made is carried on with: no thread is suspended for ever. *)
FairSpec == Spec /\ \A p \in Procs : WF_vars(Step(p))

------------------------------------------------------------------------------
(* A reservation that is still held between LDREX and STREX vouches for    *)
(* the value that was read, and for the comparison made with it.           *)
ReservationFresh ==
    \A p \in reserved :
        pc[p] = "store" =>
            /\ val[p] = cell
            /\ call[p].op = "cmpxchg" => val[p] = call[p].old

(* The functions are atomic: a call takes effect when its STREX succeeds,  *)
(* or when its LDREX reads a value that is not the one looked for, and     *)
(* returns the value the cell had then.                                    *)
Cell == INSTANCE AtomicCell WITH
    phase <- [p \in Procs |-> CASE pc[p] = "idle" -> "idle"
                                [] pc[p] = "return" -> "done"
                                [] OTHER -> "pending"],
    previous <- [p \in Procs |-> IF pc[p] = "return" THEN val[p] ELSE NoValue]

ImplementsCell == Cell!Spec

(* Lock freedom: once reservations are no longer lost to interrupts and    *)
(* plain stores, a call under way leads to the end of some call, though    *)
(* not necessarily of this one.                                            *)
LockFree ==
    <>[][~Disturbance]_vars =>
        \A p \in Procs : pc[p] # "idle" ~> \E q \in Procs : pc[q] = "return"

==============================================================================
