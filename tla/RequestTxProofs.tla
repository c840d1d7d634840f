-------------------------- MODULE RequestTxProofs ---------------------------
(* Proofs about RequestTx: any messages, any number of concurrent          *)
(* deliveries, any windows that keep the margin of MarginAssumption.       *)
EXTENDS RequestTx, TLAPS

Held == {"recorded", "handled", "doomed"}

(* What a delivery in flight knows: it passed the check of its timestamp,  *)
(* not longer ago than a function may live, and its transaction is dated   *)
(* no earlier than its timestamp by more than the clocks differ.           *)
DeliveriesAreTimely ==
    \A d \in Deliveries : pc[d] # "idle" =>
        /\ msg[d] \in Messages
        /\ seen[d] <= stamp[msg[d]] + Window
        /\ clock <= seen[d] + Life
        /\ stamp[msg[d]] <= clock + Skew
        /\ pc[d] # "signed" => stamp[msg[d]] <= began[d] + Skew

(* The constraint: of the deliveries with one key one has inserted, and it *)
(* found no committed row.                                                 *)
KeysAreExclusive ==
    \A d \in Deliveries : pc[d] \in Held =>
        /\ ~Recorded(msg[d])
        /\ \A c \in Deliveries : pc[c] \in Held /\ SameKey(msg[c], msg[d]) => c = d

(* A message that took effect has its nonce, or is too old for any         *)
(* delivery, checked already or yet to be.                                 *)
EffectsAreRemembered ==
    \A m \in Messages : effects[m] # 0 =>
        \/ \E n \in nonces : /\ n.stamp = stamp[m] /\ n.body = body[m]
                             /\ stamp[m] <= n.at + Skew
        \/ clock > stamp[m] + Window + Life

(* Every nonce stands for a message that took effect.                      *)
NoncesAreBacked ==
    \A n \in nonces : \E m \in Messages :
        n.stamp = stamp[m] /\ n.body = body[m] /\ effects[m] > 0

IInv ==
    /\ TypeOK
    /\ DeliveriesAreTimely
    /\ KeysAreExclusive
    /\ EffectsAreRemembered
    /\ NoncesAreBacked
    /\ RefusalIsBacked

-----------------------------------------------------------------------------
LEMMA InitInv == Init => IInv
BY MarginAssumption
   DEF Init, IInv, TypeOK, DeliveriesAreTimely, KeysAreExclusive, Held,
       EffectsAreRemembered, NoncesAreBacked, RefusalIsBacked

(* A delivery that is about to commit is the first of its message to do so.*)
LEMMA FirstCommit ==
    ASSUME IInv, NEW d \in Deliveries, pc[d] \in Held
    PROVE  msg[d] \in Messages /\ effects[msg[d]] = 0
<1>1. msg[d] \in Messages
  BY DEF IInv, DeliveriesAreTimely, Held
<1>2. ~Recorded(msg[d])
  BY DEF IInv, KeysAreExclusive
<1>3. ~(clock > stamp[msg[d]] + Window + Life)
  <2>1. clock <= seen[d] + Life /\ seen[d] <= stamp[msg[d]] + Window
    BY DEF IInv, DeliveriesAreTimely, Held
  <2>2. clock \in Nat /\ seen[d] \in Nat /\ stamp[msg[d]] \in Nat
    BY <1>1 DEF IInv, TypeOK
  <2>3. QED
    BY <2>1, <2>2, MarginAssumption
<1>4. QED
  BY <1>1, <1>2, <1>3 DEF IInv, EffectsAreRemembered, Recorded

LEMMA StepInv == IInv /\ [Next]_vars => IInv'
<1> SUFFICES ASSUME IInv, [Next]_vars PROVE IInv'
  OBVIOUS
<1> USE MarginAssumption, NobodyAssumption
    DEF IInv, TypeOK, DeliveriesAreTimely, KeysAreExclusive, Held,
        EffectsAreRemembered, NoncesAreBacked, RefusalIsBacked,
        Recorded, SameKey, KeyIsHeld, HoldsKey, Goto, Leave, signed
<1>1. CASE Tick
  BY <1>1 DEF Tick
<1>2. CASE Sweep
  BY <1>2 DEF Sweep
<1>3. ASSUME NEW d \in Deliveries, NEW m \in Messages, Authenticate(d, m) PROVE IInv'
  BY <1>3 DEF Authenticate, Fresh
<1>4. ASSUME NEW d \in Deliveries, BeginTx(d) PROVE IInv'
  BY <1>4 DEF BeginTx
<1>5. ASSUME NEW d \in Deliveries, RecordNonce(d) PROVE IInv'
  BY <1>5 DEF RecordNonce
<1>6. ASSUME NEW d \in Deliveries, RefuseReplay(d) PROVE IInv'
  BY <1>6 DEF RefuseReplay
<1>7. ASSUME NEW d \in Deliveries, Handle(d) PROVE IInv'
  BY <1>7 DEF Handle
<1>8. ASSUME NEW d \in Deliveries, Release(d) PROVE IInv'
  <2>1. TypeOK'
    BY <1>8, FirstCommit DEF Release
  <2>2. DeliveriesAreTimely'
    BY <1>8, FirstCommit DEF Release
  <2>3. KeysAreExclusive'
    BY <1>8, FirstCommit DEF Release
  <2>4. EffectsAreRemembered'
    <3> DEFINE new == [stamp |-> stamp[msg[d]], body |-> body[msg[d]], at |-> began[d]]
    <3>1. /\ nonces' = nonces \cup {new}
          /\ effects' = [effects EXCEPT ![msg[d]] = @ + 1]
          /\ UNCHANGED <<clock, stamp, body>>
      BY <1>8 DEF Release
    <3>2. stamp[msg[d]] <= new.at + Skew
      BY <1>8 DEF Release
    <3> HIDE DEF new
    <3>3. ASSUME NEW m \in Messages, m # msg[d], effects'[m] # 0
          PROVE  \/ \E n \in nonces : /\ n.stamp = stamp[m] /\ n.body = body[m]
                                       /\ stamp[m] <= n.at + Skew
                 \/ clock > stamp[m] + Window + Life
      BY <3>1, <3>3
    <3>4. new.stamp = stamp[msg[d]] /\ new.body = body[msg[d]]
      BY DEF new
    <3>5. QED
      BY <3>1, <3>2, <3>3, <3>4
  <2>5. NoncesAreBacked'
    BY <1>8, FirstCommit DEF Release
  <2>6. RefusalIsBacked'
    BY <1>8, FirstCommit DEF Release
  <2>7. QED
    BY <2>1, <2>2, <2>3, <2>4, <2>5, <2>6
<1>9. ASSUME NEW d \in Deliveries, Drop(d) PROVE IInv'
  BY <1>9 DEF Drop
<1>10. CASE UNCHANGED vars
  BY <1>10 DEF vars
<1>11. QED
  BY <1>1, <1>2, <1>3, <1>4, <1>5, <1>6, <1>7, <1>8, <1>9, <1>10 DEF Next

LEMMA Invariant == Spec => []IInv
BY InitInv, StepInv, PTL DEF Spec

(* Every reachable state of the pipeline is well typed.                    *)
THEOREM TypeCorrect == Spec => []TypeOK
<1>1. IInv => TypeOK
  BY DEF IInv
<1>2. QED
  BY <1>1, Invariant, PTL

(* No delivery is refused because of one that left nothing behind.         *)
THEOREM RefusalsAreBacked == Spec => []RefusalIsBacked
<1>1. IInv => RefusalIsBacked
  BY DEF IInv
<1>2. QED
  BY <1>1, Invariant, PTL

(* The pipeline implements the promise: every step of it commits the       *)
(* writes of one message for the first time, or of none.                   *)
THEOREM Refinement == Spec => TakesEffectAtMostOnce
<1>1. Init => Once!Init
  BY DEF Init, Once!Init
<1>2. IInv /\ [Next]_vars => [Once!Next]_effects
  <2> SUFFICES ASSUME IInv, [Next]_vars, effects' # effects
               PROVE  \E m \in Messages : Once!Commit(m)
    BY DEF Once!Next
  <2>1. PICK d \in Deliveries : Release(d)
    BY DEF Next, vars, Tick, Sweep, Authenticate, BeginTx, RecordNonce, RefuseReplay,
           Handle, Drop
  <2>2. msg[d] \in Messages /\ effects[msg[d]] = 0
    BY <2>1, FirstCommit DEF Release, Held
  <2>3. Once!Commit(msg[d])
    BY <2>1, <2>2 DEF Release, Once!Commit, IInv, TypeOK
  <2>4. QED
    BY <2>2, <2>3
<1>3. QED
  BY <1>1, <1>2, Invariant, PTL DEF Spec, TakesEffectAtMostOnce, Once!Spec
=============================================================================
