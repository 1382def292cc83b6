------------------------- MODULE AtomicIntrinsicsProofs -------------------------
(***************************************************************************)
(* The functions of atomic_intrinsics.h are atomic, for any number of      *)
(* threads, any word size and any calls: AtomicIntrinsics implements       *)
(* AtomicCell.  The argument is ReservationFresh: what STREX stores was    *)
(* computed from the value that is still in memory.                        *)
(***************************************************************************)
EXTENDS AtomicIntrinsics, TLAPS

(* The value a call stores is a word.                                      *)
LEMMA NewValueIsWord ==
    ASSUME NEW c \in CallType, NEW v \in Words
    PROVE  NewValue(c, v) \in Words
<1>1. WordSize \in Nat /\ WordSize > 0
  BY IntrinsicsAssumption
<1>2. (v - 1) % WordSize \in 0 .. WordSize - 1
  BY <1>1 DEF Words
<1>3. c.new \in Words
  BY DEF CallType
<1> QED
  BY <1>2, <1>3 DEF NewValue, Words

(* Every variable keeps its type.                                          *)
THEOREM Types == Spec => []TypeOK
<1>1. Init => TypeOK
  <2> SUFFICES ASSUME Init PROVE TypeOK
    OBVIOUS
  <2>1. 0 \in Words
    BY IntrinsicsAssumption DEF Words
  <2> QED
    BY <2>1 DEF Init, TypeOK
<1>2. TypeOK /\ [Next]_vars => TypeOK'
  <2> SUFFICES ASSUME TypeOK, [Next]_vars PROVE TypeOK'
    OBVIOUS
  <2>1. ASSUME NEW p \in Procs, Call(p) PROVE TypeOK'
    BY <2>1 DEF Call, TypeOK
  <2>2. ASSUME NEW p \in Procs, Load(p) PROVE TypeOK'
    BY <2>2 DEF Load, TypeOK
  <2>3. ASSUME NEW p \in Procs, StoreSucceeds(p) PROVE TypeOK'
    <3>1. call[p] \in CallType /\ val[p] \in Words
      BY IntrinsicsAssumption DEF TypeOK
    <3>2. cell' \in Words
      BY <3>1, <2>3, NewValueIsWord DEF StoreSucceeds
    <3> QED
      BY <3>2, <2>3 DEF StoreSucceeds, TypeOK
  <2>4. ASSUME NEW p \in Procs, StoreFails(p) PROVE TypeOK'
    BY <2>4 DEF StoreFails, AfterFailure, TypeOK
  <2>5. ASSUME NEW p \in Procs, Return(p) PROVE TypeOK'
    BY <2>5 DEF Return, TypeOK
  <2>6. ASSUME NEW p \in Procs, Lose(p) PROVE TypeOK'
    BY <2>6 DEF Lose, TypeOK
  <2>7. CASE Write
    BY <2>7 DEF Write, TypeOK
  <2>8. CASE UNCHANGED vars
    BY <2>8 DEF vars, TypeOK
  <2> QED
    BY <2>1, <2>2, <2>3, <2>4, <2>5, <2>6, <2>7, <2>8 DEF Next, Step, Disturbance
<1> QED
  BY <1>1, <1>2, PTL DEF Spec

(* A reservation held between LDREX and STREX vouches for the value read.  *)
LEMMA FreshKept ==
    ASSUME TypeOK, ReservationFresh, [Next]_vars
    PROVE  ReservationFresh'
<1>1. ASSUME NEW p \in Procs, Call(p) PROVE ReservationFresh'
  BY <1>1 DEF Call, TypeOK, ReservationFresh
<1>2. ASSUME NEW p \in Procs, Load(p) PROVE ReservationFresh'
  <2> SUFFICES ASSUME NEW q \in reserved', pc'[q] = "store"
               PROVE  /\ val'[q] = cell'
                      /\ call'[q].op = "cmpxchg" => val'[q] = call'[q].old
    BY DEF ReservationFresh
  <2>1. CASE q = p
    BY <1>2, <2>1 DEF Load, GivesUp, TypeOK
  <2>2. CASE q # p
    BY <1>2, <2>2 DEF Load, TypeOK, ReservationFresh
  <2> QED
    BY <2>1, <2>2
<1>3. ASSUME NEW p \in Procs, StoreSucceeds(p) PROVE ReservationFresh'
  BY <1>3 DEF StoreSucceeds, ReservationFresh
<1>4. ASSUME NEW p \in Procs, StoreFails(p) PROVE ReservationFresh'
  BY <1>4 DEF StoreFails, AfterFailure, TypeOK, ReservationFresh
<1>5. ASSUME NEW p \in Procs, Return(p) PROVE ReservationFresh'
  BY <1>5 DEF Return, TypeOK, ReservationFresh
<1>6. ASSUME NEW p \in Procs, Lose(p) PROVE ReservationFresh'
  BY <1>6 DEF Lose, ReservationFresh
<1>7. CASE Write
  BY <1>7 DEF Write, ReservationFresh
<1>8. CASE UNCHANGED vars
  BY <1>8 DEF vars, ReservationFresh
<1> QED
  BY <1>1, <1>2, <1>3, <1>4, <1>5, <1>6, <1>7, <1>8 DEF Next, Step, Disturbance

(* The reservations vouch for the values read, in every reachable state.   *)
THEOREM ReservationsFresh == Spec => []ReservationFresh
<1>1. Init => ReservationFresh
  BY DEF Init, ReservationFresh
<1>2. TypeOK /\ ReservationFresh /\ [Next]_vars => ReservationFresh'
  BY FreshKept
<1> QED
  BY <1>1, <1>2, Types, PTL DEF Spec

------------------------------------------------------------------------------
(* The state of the abstract cell.                                         *)
Phase == [p \in Procs |-> CASE pc[p] = "idle" -> "idle"
                            [] pc[p] = "return" -> "done"
                            [] OTHER -> "pending"]
Previous == [p \in Procs |-> IF pc[p] = "return" THEN val[p] ELSE NoValue]

(* The steps of the call of one thread, seen from the cell: the phase and  *)
(* the value known change for that thread alone.                           *)
LEMMA PhaseStep ==
    ASSUME TypeOK, NEW p \in Procs,
           NEW s \in {"idle", "load", "store", "return"}, pc' = [pc EXCEPT ![p] = s],
           NEW v \in Words, val' = [val EXCEPT ![p] = v]
    PROVE  /\ Phase' = [Phase EXCEPT ![p] =
                            CASE s = "idle" -> "idle" [] s = "return" -> "done"
                              [] OTHER -> "pending"]
           /\ Previous' = [Previous EXCEPT ![p] = IF s = "return" THEN v ELSE NoValue]
<1>1. pc'[p] = s /\ val'[p] = v
  BY DEF TypeOK
<1>2. \A q \in Procs \ {p} : pc'[q] = pc[q] /\ val'[q] = val[q]
  BY DEF TypeOK
<1>3. Phase' = [Phase EXCEPT ![p] =
                    CASE s = "idle" -> "idle" [] s = "return" -> "done"
                      [] OTHER -> "pending"]
  BY <1>1, <1>2 DEF Phase
<1>4. Previous' = [Previous EXCEPT ![p] = IF s = "return" THEN v ELSE NoValue]
  BY <1>1, <1>2 DEF Previous
<1> QED
  BY <1>3, <1>4

(* The first state of a program is one of the cell.                        *)
LEMMA InitImplements == Init => Cell!Init
<1> SUFFICES ASSUME Init PROVE Cell!Init
  OBVIOUS
<1>1. \A p \in Procs : pc[p] = "idle"
  BY DEF Init
<1>2. Phase = [p \in Procs |-> "idle"]
  BY <1>1 DEF Phase
<1>3. Previous = [p \in Procs |-> NoValue]
  BY <1>1 DEF Previous
<1> QED
  BY <1>2, <1>3 DEF Init, Cell!Init, Cell!Words, Words, Phase, Previous

(* Every step of the program is one of the cell, or leaves it alone.       *)
LEMMA StepImplements ==
    ASSUME TypeOK, ReservationFresh, [Next]_vars
    PROVE  [Cell!Next]_(Cell!vars)
<1> USE DEF Phase, Previous
<1>1. ASSUME NEW p \in Procs, Call(p) PROVE Cell!Call(p)
  <2>1. val[p] \in Words /\ val' = [val EXCEPT ![p] = val[p]]
    BY <1>1 DEF Call, TypeOK
  <2>2. /\ Phase' = [Phase EXCEPT ![p] = "pending"]
        /\ Previous' = [Previous EXCEPT ![p] = NoValue]
    <3> HIDE DEF Phase, Previous
    <3> QED
      BY <1>1, <2>1, PhaseStep DEF Call
  <2>3. Phase[p] = "idle" /\ Previous[p] = NoValue
    BY <1>1 DEF Call
  <2>4. Previous' = Previous
    <3> HIDE DEF Phase
    <3> QED
      BY <2>2, <2>3
  <2> QED
    BY <1>1, <2>2, <2>3, <2>4 DEF Call, Cell!Call
<1>2. ASSUME NEW p \in Procs, Load(p) PROVE Cell!TakeEffect(p) \/ UNCHANGED Cell!vars
  <2>1. cell \in Words /\ val' = [val EXCEPT ![p] = cell]
    BY <1>2 DEF Load, TypeOK
  <2>2. Phase[p] = "pending" /\ Previous[p] = NoValue
    BY <1>2 DEF Load
  <2>3. CASE GivesUp(call[p], cell)
    <3>1. pc' = [pc EXCEPT ![p] = "return"]
      BY <1>2, <2>3 DEF Load
    <3>2. /\ Phase' = [Phase EXCEPT ![p] = "done"]
          /\ Previous' = [Previous EXCEPT ![p] = cell]
      <4> HIDE DEF Phase, Previous
      <4> QED
        BY <2>1, <3>1, PhaseStep
    <3>3. cell' = Cell!After(call[p], cell)
      BY <1>2, <2>3 DEF Load, GivesUp, Cell!After
    <3> QED
      BY <1>2, <2>2, <3>2, <3>3 DEF Load, Cell!TakeEffect
  <2>4. CASE ~GivesUp(call[p], cell)
    <3>1. pc' = [pc EXCEPT ![p] = "store"]
      BY <1>2, <2>4 DEF Load
    <3>2. /\ Phase' = [Phase EXCEPT ![p] = "pending"]
          /\ Previous' = [Previous EXCEPT ![p] = NoValue]
      <4> HIDE DEF Phase, Previous
      <4> QED
        BY <2>1, <3>1, PhaseStep
    <3>3. Phase' = Phase /\ Previous' = Previous
      BY <2>2, <3>2
    <3> QED
      BY <1>2, <3>3 DEF Load, Cell!vars
  <2> QED
    BY <2>3, <2>4
<1>3. ASSUME NEW p \in Procs, StoreSucceeds(p) PROVE Cell!TakeEffect(p)
  <2>1. val[p] = cell /\ (call[p].op = "cmpxchg" => val[p] = call[p].old)
    BY <1>3 DEF StoreSucceeds, ReservationFresh
  <2>2. val[p] \in Words /\ val' = [val EXCEPT ![p] = val[p]]
    BY <1>3 DEF StoreSucceeds, TypeOK
  <2>3. /\ Phase' = [Phase EXCEPT ![p] = "done"]
        /\ Previous' = [Previous EXCEPT ![p] = cell]
    <3> HIDE DEF Phase, Previous
    <3> QED
      BY <1>3, <2>1, <2>2, PhaseStep DEF StoreSucceeds
  <2>4. Phase[p] = "pending"
    BY <1>3 DEF StoreSucceeds
  <2>5. call[p].op \in {"cmpxchg", "dec"}
    BY IntrinsicsAssumption DEF TypeOK, CallType
  <2>6. cell' = Cell!After(call[p], cell)
    BY <1>3, <2>1, <2>5 DEF StoreSucceeds, NewValue, Cell!After
  <2> QED
    BY <1>3, <2>3, <2>4, <2>6 DEF StoreSucceeds, Cell!TakeEffect
<1>4. ASSUME NEW p \in Procs, StoreFails(p) PROVE UNCHANGED Cell!vars
  <2>1. val[p] \in Words /\ val' = [val EXCEPT ![p] = val[p]]
    BY <1>4 DEF StoreFails, TypeOK
  <2>2. /\ Phase' = [Phase EXCEPT ![p] = "pending"]
        /\ Previous' = [Previous EXCEPT ![p] = NoValue]
    <3> HIDE DEF Phase, Previous
    <3> QED
      BY <1>4, <2>1, PhaseStep DEF StoreFails, AfterFailure
  <2>3. Phase[p] = "pending" /\ Previous[p] = NoValue
    BY <1>4 DEF StoreFails
  <2>4. Phase' = Phase /\ Previous' = Previous
    BY <2>2, <2>3
  <2> QED
    BY <1>4, <2>4 DEF StoreFails, Cell!vars
<1>5. ASSUME NEW p \in Procs, Return(p) PROVE Cell!Return(p)
  <2>1. val[p] \in Words /\ val' = [val EXCEPT ![p] = val[p]]
    BY <1>5 DEF Return, TypeOK
  <2>2. /\ Phase' = [Phase EXCEPT ![p] = "idle"]
        /\ Previous' = [Previous EXCEPT ![p] = NoValue]
    <3> HIDE DEF Phase, Previous
    <3> QED
      BY <1>5, <2>1, PhaseStep DEF Return
  <2>3. Phase[p] = "done"
    BY <1>5 DEF Return
  <2> QED
    BY <1>5, <2>2, <2>3 DEF Return, Cell!Return
<1>6. ASSUME NEW p \in Procs, Lose(p) PROVE UNCHANGED Cell!vars
  BY <1>6 DEF Lose, Cell!vars
<1>7. ASSUME Write PROVE Cell!Write
  BY <1>7 DEF Write, Cell!Write, Cell!Words, Words
<1>8. ASSUME UNCHANGED vars PROVE UNCHANGED Cell!vars
  BY <1>8 DEF vars, Cell!vars
<1> QED
  BY <1>1, <1>2, <1>3, <1>4, <1>5, <1>6, <1>7, <1>8
  DEF Next, Step, Disturbance, Cell!Next

(* atomic_cmpxchg and atomic_dec take effect at one instant and return the *)
(* value of that instant, however calls, interrupts and plain stores are   *)
(* interleaved.                                                            *)
THEOREM CellImplemented == Spec => ImplementsCell
<1>1. Init => Cell!Init
  BY InitImplements
<1>2. TypeOK /\ ReservationFresh /\ [Next]_vars => [Cell!Next]_(Cell!vars)
  BY StepImplements
<1> QED
  BY <1>1, <1>2, Types, ReservationsFresh, PTL DEF Spec, ImplementsCell, Cell!Spec

==============================================================================
