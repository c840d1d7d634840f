----------------------------- MODULE RequestTx ------------------------------
(***************************************************************************)
(* The chain every /api request of one tenant passes (app.ts): the signed  *)
(* timestamp is checked (middleware/hubspot-signature.ts), the tenant is   *)
(* looked up, one transaction is opened (lib/tenant-tx.ts), the nonce is   *)
(* recorded in it (middleware/nonce.ts, lib/replay-nonce.ts), the handler  *)
(* runs and the transaction ends. A signed request may be delivered again, *)
(* at once or later, to any instance; a scheduled sweep removes old nonces.*)
(* Time is counted in minutes, on one clock for the API and for Postgres.  *)
(***************************************************************************)
EXTENDS Naturals

CONSTANTS Messages,    \* signed requests of the tenant
          Deliveries,  \* slots for concurrent deliveries, over all instances
          Bodies,      \* digests of request bodies
          Nobody,      \* no transaction, or no message
          Window,      \* MAX_TIMESTAMP_SKEW_MS
          Keep,        \* maxAgeMinutes of sweepExpiredNonces
          Skew,        \* how far ahead of ours HubSpot's clock may be
          Life,        \* how long a function may run before it is killed
          MaxClock     \* bound: how many minutes pass

(* The sweep keeps a nonce for as long as a delivery of the request it     *)
(* stands for may still be waiting to insert it.                           *)
ASSUME MarginAssumption ==
    /\ Window \in Nat /\ Keep \in Nat /\ Skew \in Nat /\ Life \in Nat
    /\ Skew + Window + Life <= Keep
ASSUME NobodyAssumption == Nobody \notin Deliveries \cup Messages

VARIABLES
    clock,    \* minutes
    stamp,    \* the timestamp each message is signed with
    body,     \* the digest of its body
    nonces,   \* committed rows of signed_request_nonce, with created_at
    pc,       \* where each delivery is
    msg,      \* the message it carries
    seen,     \* when its timestamp was checked
    began,    \* when its transaction began: Postgres now()
    effects   \* history: commits of each message's writes

vars == <<clock, stamp, body, nonces, pc, msg, seen, began, effects>>

signed == <<stamp, body>>

Init ==
    /\ clock = Skew
    /\ stamp \in [Messages -> 0..MaxClock]
    /\ body \in [Messages -> Bodies]
    /\ nonces = {}
    /\ pc = [d \in Deliveries |-> "idle"]
    /\ msg = [d \in Deliveries |-> Nobody]
    /\ seen = [d \in Deliveries |-> 0]
    /\ began = [d \in Deliveries |-> 0]
    /\ effects = [m \in Messages |-> 0]

Goto(d, l) == pc' = [pc EXCEPT ![d] = l]

(* A minute passes. A function past its maximum duration has been killed.  *)
Tick ==
    /\ clock < MaxClock
    /\ \A d \in Deliveries : pc[d] # "idle" => clock < seen[d] + Life
    /\ clock' = clock + 1
    /\ UNCHANGED <<signed, nonces, pc, msg, seen, began, effects>>

(* |now - timestamp| <= Window                                             *)
Fresh(m) == clock <= stamp[m] + Window /\ stamp[m] <= clock + Window

(* Mutant: a request is fresh for as long as its nonce is kept.            *)
AuthenticateLate(d, m) ==
    /\ pc[d] = "idle"
    /\ stamp[m] <= clock + Skew
    /\ clock <= stamp[m] + Keep
    /\ msg' = [msg EXCEPT ![d] = m]
    /\ seen' = [seen EXCEPT ![d] = clock]
    /\ Goto(d, "signed")
    /\ UNCHANGED <<clock, signed, nonces, began, effects>>

(* A delivery of m, sent when HubSpot's clock showed its timestamp, passes *)
(* the signature middleware. A stale one is answered 401 at once.          *)
Authenticate(d, m) ==
    /\ pc[d] = "idle"
    /\ stamp[m] <= clock + Skew
    /\ Fresh(m)
    /\ msg' = [msg EXCEPT ![d] = m]
    /\ seen' = [seen EXCEPT ![d] = clock]
    /\ Goto(d, "signed")
    /\ UNCHANGED <<clock, signed, nonces, began, effects>>

(* withTenantTxHandle: BEGIN, set_config.                                  *)
BeginTx(d) ==
    /\ pc[d] = "signed"
    /\ began' = [began EXCEPT ![d] = clock]
    /\ Goto(d, "open")
    /\ UNCHANGED <<clock, signed, nonces, msg, seen, effects>>

(* The primary key: timestamp and body, not the method nor the URL.        *)
SameKey(m, n) == stamp[m] = stamp[n] /\ body[m] = body[n]

(* A row with m's key is committed; another transaction has inserted one.  *)
Recorded(m) == \E n \in nonces : n.stamp = stamp[m] /\ n.body = body[m]
HoldsKey(d, m) == pc[d] \in {"recorded", "handled", "doomed"} /\ SameKey(msg[d], m)
KeyIsHeld(m) == \E d \in Deliveries : HoldsKey(d, m)

(* Mutant: the nonce is looked up, then inserted without a constraint.     *)
RecordNonceUnlocked(d) ==
    /\ pc[d] = "open"
    /\ ~Recorded(msg[d])
    /\ Goto(d, "recorded")
    /\ UNCHANGED <<clock, signed, nonces, msg, seen, began, effects>>

(* INSERT ... ON CONFLICT DO NOTHING waits for a transaction that has      *)
(* inserted the same key, and inserts only if no such row is committed.    *)
RecordNonce(d) ==
    /\ pc[d] = "open"
    /\ ~KeyIsHeld(msg[d])
    /\ ~Recorded(msg[d])
    /\ Goto(d, "recorded")
    /\ UNCHANGED <<clock, signed, nonces, msg, seen, began, effects>>

(* Mutant: a key that another transaction holds is refused at once.        *)
RefuseReplayEager(d) ==
    /\ pc[d] = "open"
    /\ Recorded(msg[d]) \/ KeyIsHeld(msg[d])
    /\ Goto(d, "refused")
    /\ UNCHANGED <<clock, signed, nonces, msg, seen, began, effects>>

(* No row returned: 401 replay_detected, the handler does not run.         *)
RefuseReplay(d) ==
    /\ pc[d] = "open"
    /\ ~KeyIsHeld(msg[d])
    /\ Recorded(msg[d])
    /\ Goto(d, "refused")
    /\ UNCHANGED <<clock, signed, nonces, msg, seen, began, effects>>

(* The handler returns or throws: either way next() resolves. A statement  *)
(* that failed has doomed the transaction.                                 *)
Handle(d) ==
    /\ pc[d] = "recorded"
    /\ \/ Goto(d, "handled")
       \/ Goto(d, "doomed")
    /\ UNCHANGED <<clock, signed, nonces, msg, seen, began, effects>>

Leave(d) ==
    /\ Goto(d, "idle")
    /\ msg' = [msg EXCEPT ![d] = Nobody]
    /\ seen' = [seen EXCEPT ![d] = 0]
    /\ began' = [began EXCEPT ![d] = 0]

(* handle.release() commits the nonce together with the handler's writes.  *)
Release(d) ==
    /\ pc[d] = "handled"
    /\ nonces' = nonces \cup {[stamp |-> stamp[msg[d]], body |-> body[msg[d]],
                               at |-> began[d]]}
    /\ effects' = [effects EXCEPT ![msg[d]] = @ + 1]
    /\ Leave(d)
    /\ UNCHANGED <<clock, signed>>

(* A delivery that leaves nothing behind: no active tenant, a refused      *)
(* replay, a failed commit, an abort, a killed function.                   *)
Drop(d) ==
    /\ pc[d] # "idle"
    /\ Leave(d)
    /\ UNCHANGED <<clock, signed, nonces, effects>>

(* sweepExpiredNonces: created_at < now() - maxAgeMinutes.                 *)
Sweep ==
    /\ nonces' = {n \in nonces : n.at + Keep >= clock}
    /\ UNCHANGED <<clock, signed, pc, msg, seen, began, effects>>

Next ==
    \/ Tick
    \/ Sweep
    \/ \E d \in Deliveries :
         \/ \E m \in Messages : Authenticate(d, m)
         \/ BeginTx(d) \/ RecordNonce(d) \/ RefuseReplay(d)
         \/ Handle(d) \/ Release(d) \/ Drop(d)

Spec == Init /\ [][Next]_vars

-----------------------------------------------------------------------------
(* Properties                                                              *)

(* Every variable holds a value of its type.                               *)
TypeOK ==
    /\ clock \in Nat
    /\ stamp \in [Messages -> Nat]
    /\ body \in [Messages -> Bodies]
    /\ nonces \subseteq [stamp : Nat, body : Bodies, at : Nat]
    /\ pc \in [Deliveries -> {"idle", "signed", "open", "recorded", "refused",
                             "handled", "doomed"}]
    /\ msg \in [Deliveries -> Messages \cup {Nobody}]
    /\ seen \in [Deliveries -> Nat]
    /\ began \in [Deliveries -> Nat]
    /\ effects \in [Messages -> Nat]

(* However often a signed request is delivered, at once or minutes apart,  *)
(* and whenever the sweep runs, its writes are committed at most once.     *)
Once == INSTANCE AtMostOnce WITH Messages <- Messages, effects <- effects
TakesEffectAtMostOnce == Once!Spec

(* A delivery is refused as a replay only when one with its timestamp and  *)
(* body has been committed, never because of one that was rolled back.     *)
RefusalIsBacked ==
    \A d \in Deliveries : pc[d] = "refused" =>
        \E m \in Messages : SameKey(m, msg[d]) /\ effects[m] > 0
=============================================================================
