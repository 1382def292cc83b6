----------------------------- MODULE MpuCoverage -----------------------------
(***************************************************************************)
(* What build_best_mpu_entries promises, without regions, subregions or    *)
(* recursion: it maps more and more of a range, never an address outside   *)
(* it, and either completes with every whole granule mapped, or runs out   *)
(* of entries and gives some of the mapping up.                            *)
(***************************************************************************)
EXTENDS Integers

CONSTANTS
    Requests,                   \* The calls made.
    Permitted(_),               \* Addresses a request allows to be mapped.
    Required(_)                 \* Addresses it asks for.

VARIABLES request, mapped, status

vars == <<request, mapped, status>>

Init ==
    /\ request \in Requests
    /\ mapped = {}
    /\ status = "building"

(* One more entry is built: addresses are added, none is dropped.          *)
Extend ==
    /\ status = "building"
    /\ mapped \subseteq mapped' /\ mapped # mapped'
    /\ mapped' \subseteq Permitted(request)
    /\ UNCHANGED <<request, status>>

Complete ==
    /\ status = "building"
    /\ Required(request) \subseteq mapped
    /\ status' = "complete"
    /\ UNCHANGED <<request, mapped>>

(* Nothing is built for a request that is refused.                         *)
Refuse ==
    /\ status = "building" /\ mapped = {}
    /\ status' = "refused"
    /\ UNCHANGED <<request, mapped>>

(* A table is full; entries without room in the tables above are dropped,  *)
(* and nothing is built any more.                                          *)
Overflow ==
    /\ status \in {"building", "full"}
    /\ mapped' \subseteq mapped
    /\ status' = "full"
    /\ UNCHANGED request

Next == Extend \/ Complete \/ Refuse \/ Overflow

Settles == <>(status # "building")

Spec == Init /\ [][Next]_vars /\ Settles

==============================================================================
