------------------------ MODULE TenantLifecycleProofs ------------------------
(* Proofs about TenantLifecycle for any sets of slots and any bounds.      *)
EXTENDS TenantLifecycle, TLAPS

(* A transaction that has written the oauth row found it committed.        *)
LockedRowExists == lockO # Nobody => oauth # NoToken

(* Every token descends from an install HubSpot granted.                   *)
Real(t) == t = NoToken \/ t.install \in 1..installs

TokensAreReal ==
    /\ Real(grant) /\ Real(oauth) /\ Real(newO)
    /\ \A a \in Agents : Real(tok[a])

(* No copy of a token of the live install is newer than the live one.      *)
GrantIsNewest ==
    /\ \A t \in {oauth, newO} : t.install = grant.install => t.serial <= grant.serial
    /\ \A a \in Agents : tok[a].install = grant.install => tok[a].serial <= grant.serial

(* An agent that was just issued a token and has not written it yet.       *)
Minted(a) == pc[a] \in {"upsert", "store", "persist"}

(* It is the only one to know that token: every other copy of a token of   *)
(* that install is older, and HubSpot has issued nothing after it.         *)
MintedIsExclusive ==
    \A a \in Agents : Minted(a) =>
        /\ tok[a] # NoToken
        /\ grant.install = tok[a].install => grant = tok[a]
        /\ \A t \in {oauth, newO} : t.install = tok[a].install => t.serial < tok[a].serial
        /\ \A b \in Agents \ {a} :
              tok[b].install = tok[a].install => tok[b].serial < tok[a].serial

RefreshHasToken == \A r \in Requests : pc[r] = "refresh" => tok[r] # NoToken

(* What a transaction is about to commit is no older than the row.         *)
DirtyIsNewer ==
    lockO # Nobody /\ newO # NoToken /\ newO.install = oauth.install
        => newO.serial >= oauth.serial

IInv ==
    /\ TypeOK
    /\ LockedRowExists
    /\ TokensAreReal
    /\ GrantIsNewest
    /\ MintedIsExclusive
    /\ RefreshHasToken
    /\ DirtyIsNewer

-----------------------------------------------------------------------------
(* Type correctness.                                                       *)
LEMMA InitType == Init => TypeOK
BY DEF Init, TypeOK, Token, NoToken, NoEvent

LEMMA RotateType ==
    ASSUME grant \in Token, NEW r, Rotate(r)
    PROVE  grant' \in Token /\ grant'.install = grant.install
                            /\ grant'.serial = grant.serial + 1
BY DEF Rotate, Token

LEMMA StepType == TypeOK /\ [Next]_vars => TypeOK'
<1> SUFFICES ASSUME TypeOK, [Next]_vars PROVE TypeOK'
  OBVIOUS
<1> USE DEF TypeOK, Token, NoToken, Event, NoEvent, Agents, Goto, Hold, View,
            Release, Publish, Acknowledge, RollbackHook,
            hubspot, committed, locks
<1>1. CASE Uninstall
  BY <1>1 DEF Uninstall
<1>2. ASSUME NEW c \in Callbacks, Exchange(c) PROVE TypeOK'
  BY <1>2 DEF Exchange
<1>3. ASSUME NEW c \in Callbacks, UpsertTenant(c) PROVE TypeOK'
  BY <1>3 DEF UpsertTenant
<1>4. ASSUME NEW c \in Callbacks, StoreTokens(c) PROVE TypeOK'
  BY <1>4 DEF StoreTokens
<1>5. ASSUME NEW c \in Callbacks, FailCallback(c) PROVE TypeOK'
  BY <1>5 DEF FailCallback
<1>6. ASSUME NEW h \in Hooks, NEW e \in events, IgnoreEvent(h, e) PROVE TypeOK'
  BY <1>6 DEF IgnoreEvent
<1>7. ASSUME NEW h \in Hooks, NEW e \in events, ApplyInstall(h, e) PROVE TypeOK'
  BY <1>7 DEF ApplyInstall
<1>8. ASSUME NEW h \in Hooks, NEW e \in events, BeginUninstall(h, e) PROVE TypeOK'
  BY <1>8 DEF BeginUninstall
<1>9. ASSUME NEW h \in Hooks, CommitUninstall(h) PROVE TypeOK'
  BY <1>9 DEF CommitUninstall
<1>10. ASSUME NEW h \in Hooks, FailHook(h) PROVE TypeOK'
  BY <1>10 DEF FailHook
<1>11. ASSUME NEW h \in Hooks, DeadlockHook(h) PROVE TypeOK'
  BY <1>11 DEF DeadlockHook
<1>12. ASSUME NEW x \in Requests \cup Hooks, DeactivateUpdate(x) PROVE TypeOK'
  BY <1>12 DEF DeactivateUpdate
<1>13. ASSUME NEW x \in Requests \cup Hooks, DeactivateDelete(x) PROVE TypeOK'
  BY <1>13 DEF DeactivateDelete
<1>14. ASSUME NEW r \in Requests, Admit(r) PROVE TypeOK'
  BY <1>14 DEF Admit
<1>15. ASSUME NEW r \in Requests, BeginRefresh(r) PROVE TypeOK'
  BY <1>15 DEF BeginRefresh
<1>16. ASSUME NEW r \in Requests, RefreshOk(r) PROVE TypeOK'
  BY <1>16, RotateType DEF RefreshOk
<1>17. ASSUME NEW r \in Requests, RefreshLost(r) PROVE TypeOK'
  BY <1>17, RotateType DEF RefreshLost
<1>18. ASSUME NEW r \in Requests, RefreshError(r) PROVE TypeOK'
  BY <1>18 DEF RefreshError
<1>19. ASSUME NEW r \in Requests, RefreshRefused(r) PROVE TypeOK'
  BY <1>19 DEF RefreshRefused
<1>20. ASSUME NEW r \in Requests, PersistRotation(r) PROVE TypeOK'
  BY <1>20 DEF PersistRotation
<1>21. ASSUME NEW r \in Requests, RereadAfterRefusal(r) PROVE TypeOK'
  BY <1>21 DEF RereadAfterRefusal
<1>22. ASSUME NEW r \in Requests, DeadlockVictim(r) PROVE TypeOK'
  BY <1>22 DEF DeadlockVictim
<1>23. ASSUME NEW r \in Requests, Finish(r) PROVE TypeOK'
  BY <1>23 DEF Finish
<1>24. ASSUME NEW r \in Requests, Abort(r) PROVE TypeOK'
  BY <1>24 DEF Abort
<1>25. CASE UNCHANGED vars
  BY <1>25 DEF vars
<1>26. QED
  BY <1>1, <1>2, <1>3, <1>4, <1>5, <1>6, <1>7, <1>8, <1>9, <1>10,
     <1>11, <1>12, <1>13, <1>14, <1>15, <1>16, <1>17, <1>18, <1>19, <1>20, <1>21,
     <1>22, <1>23, <1>24, <1>25
     DEF Next, CallbackStep, HookStep, RequestStep

(* Every reachable state of the lifecycle is well typed, for any number of *)
(* requests, webhook deliveries and OAuth callbacks in flight.             *)
THEOREM TypeCorrect == Spec => []TypeOK
BY InitType, StepType, PTL DEF Spec
-----------------------------------------------------------------------------
(* The inductive invariant. Most actions do one of two things to the       *)
(* tokens: an agent moves on, keeping or dropping the token in its memory, *)
(* or a transaction ends.                                                  *)
MovesOn(a) ==
    /\ UNCHANGED <<grant, installs, oauth, lockO, newO>>
    /\ \E l \in {"idle", "run", "refused", "store", "deactT", "deactO"},
          t \in {tok[a], NoToken} :
         /\ pc' = [pc EXCEPT ![a] = l]
         /\ tok' = [tok EXCEPT ![a] = t]
         /\ l = "store" => pc[a] = "upsert" /\ t = tok[a]

Ends(x) ==
    /\ UNCHANGED <<grant, installs>>
    /\ oauth' \in {oauth, View(x)}
    /\ Release(x)
    /\ pc' = [pc EXCEPT ![x] = "idle"]
    /\ \E t \in {tok[x], NoToken} : tok' = [tok EXCEPT ![x] = t]

LEMMA MovesOnActions ==
    ASSUME TypeOK
    PROVE  /\ \A c \in Callbacks : UpsertTenant(c) \/ FailCallback(c) => MovesOn(c)
           /\ \A r \in Requests :
                \/ Admit(r) \/ RefreshError(r) \/ RefreshRefused(r)
                \/ RereadAfterRefusal(r) \/ DeadlockVictim(r)
                => MovesOn(r)
           /\ \A x \in Requests \cup Hooks : DeactivateUpdate(x) => MovesOn(x)
           /\ \A h \in Hooks, e \in events : BeginUninstall(h, e) => MovesOn(h)
<1> USE DEF TypeOK, MovesOn, Goto, Hold, hubspot, committed, locks, Agents
<1>1. \A c \in Callbacks : UpsertTenant(c) \/ FailCallback(c) => MovesOn(c)
  BY DEF UpsertTenant, FailCallback
<1>2. ASSUME NEW r \in Requests PROVE Admit(r) \/ RefreshError(r) => MovesOn(r)
  BY DEF Admit, RefreshError
<1>3. ASSUME NEW r \in Requests
      PROVE RefreshRefused(r) \/ RereadAfterRefusal(r) => MovesOn(r)
  BY DEF RefreshRefused, RereadAfterRefusal
<1>4. ASSUME NEW r \in Requests PROVE DeadlockVictim(r) => MovesOn(r)
  BY DEF DeadlockVictim
<1>5. \A x \in Requests \cup Hooks : DeactivateUpdate(x) => MovesOn(x)
  BY DEF DeactivateUpdate
<1>6. \A h \in Hooks, e \in events : BeginUninstall(h, e) => MovesOn(h)
  BY DEF BeginUninstall
<1>7. QED
  BY <1>1, <1>2, <1>3, <1>4, <1>5, <1>6

LEMMA EndsActions ==
    ASSUME TypeOK
    PROVE  /\ \A h \in Hooks :
                CommitUninstall(h) \/ FailHook(h) \/ DeadlockHook(h) => Ends(h)
           /\ \A r \in Requests : Finish(r) \/ Abort(r) => Ends(r)
<1> USE DEF TypeOK, Ends, Goto, Hold, Publish, View, hubspot, committed, Agents
<1>1. \A h \in Hooks : CommitUninstall(h) \/ FailHook(h) \/ DeadlockHook(h) => Ends(h)
  BY DEF CommitUninstall, FailHook, DeadlockHook, RollbackHook
<1>2. \A r \in Requests : Finish(r) \/ Abort(r) => Ends(r)
  BY DEF Finish, Abort
<1>3. QED
  BY <1>1, <1>2

(* The part of the invariant that is about tokens.                         *)
TokenInv ==
    /\ LockedRowExists
    /\ TokensAreReal
    /\ GrantIsNewest
    /\ MintedIsExclusive
    /\ RefreshHasToken
    /\ DirtyIsNewer

LEMMA MovesOnTokens ==
    ASSUME IInv, TypeOK', NEW a \in Agents, MovesOn(a)
    PROVE  TokenInv'
<1> USE DEF IInv, TypeOK, Token, NoToken, Agents, MovesOn
<1>1. LockedRowExists'
  BY DEF LockedRowExists
<1>2. TokensAreReal'
  BY DEF TokensAreReal, Real
<1>3. GrantIsNewest'
  BY DEF GrantIsNewest
<1>4. MintedIsExclusive'
  BY DEF MintedIsExclusive, Minted
<1>5. RefreshHasToken'
  BY DEF RefreshHasToken
<1>6. DirtyIsNewer'
  BY DEF DirtyIsNewer
<1>7. QED
  BY <1>1, <1>2, <1>3, <1>4, <1>5, <1>6 DEF TokenInv

LEMMA EndsTokens ==
    ASSUME IInv, TypeOK', NEW x \in Requests \cup Hooks, Ends(x)
    PROVE  TokenInv'
<1> USE DEF IInv, TypeOK, Token, NoToken, Agents, Ends, Release, View
<1>1. LockedRowExists'
  BY DEF LockedRowExists
<1>2. TokensAreReal'
  BY DEF TokensAreReal, Real
<1>3. GrantIsNewest'
  BY DEF GrantIsNewest
<1>4. MintedIsExclusive'
  BY DEF MintedIsExclusive, Minted
<1>5. RefreshHasToken'
  BY DEF RefreshHasToken
<1>6. DirtyIsNewer'
  BY DEF DirtyIsNewer
<1>7. QED
  BY <1>1, <1>2, <1>3, <1>4, <1>5, <1>6 DEF TokenInv

(* The token of a new install is like no other token.                      *)
LEMMA ExchangeTokens ==
    ASSUME IInv, TypeOK', NEW c \in Callbacks, Exchange(c)
    PROVE  TokenInv'
<1> USE DEF IInv, TypeOK, Token, NoToken, Agents, Exchange, Goto, Hold, committed, locks
<1>1. LockedRowExists'
  BY DEF LockedRowExists
<1>2. TokensAreReal'
  BY DEF TokensAreReal, Real
<1>3. GrantIsNewest'
  BY DEF GrantIsNewest, TokensAreReal, Real
<1>4. MintedIsExclusive'
  BY DEF MintedIsExclusive, Minted, TokensAreReal, Real
<1>5. RefreshHasToken'
  BY DEF RefreshHasToken
<1>6. DirtyIsNewer'
  BY DEF DirtyIsNewer
<1>7. QED
  BY <1>1, <1>2, <1>3, <1>4, <1>5, <1>6 DEF TokenInv

LEMMA StoreTokensTokens ==
    ASSUME IInv, TypeOK', NEW c \in Callbacks, StoreTokens(c)
    PROVE  TokenInv'
<1> USE DEF IInv, TypeOK, Token, NoToken, Agents, StoreTokens, FreeO, Goto, Hold, hubspot, locks
<1>1. LockedRowExists'
  BY AgentsAssumption DEF LockedRowExists
<1>2. TokensAreReal'
  BY DEF TokensAreReal, Real
<1>3. GrantIsNewest'
  BY DEF GrantIsNewest
<1>4. MintedIsExclusive'
  BY DEF MintedIsExclusive, Minted
<1>5. RefreshHasToken'
  BY DEF RefreshHasToken
<1>6. DirtyIsNewer'
  BY AgentsAssumption DEF DirtyIsNewer
<1>7. QED
  BY <1>1, <1>2, <1>3, <1>4, <1>5, <1>6 DEF TokenInv

LEMMA BeginRefreshTokens ==
    ASSUME IInv, TypeOK', NEW r \in Requests, BeginRefresh(r)
    PROVE  TokenInv'
<1> USE DEF IInv, TypeOK, Token, NoToken, Agents, BeginRefresh, View, Goto, Hold, hubspot, committed, locks
<1>1. LockedRowExists'
  BY DEF LockedRowExists
<1>2. TokensAreReal'
  BY DEF TokensAreReal, Real
<1>3. GrantIsNewest'
  BY DEF GrantIsNewest
<1>4. MintedIsExclusive'
  BY DEF MintedIsExclusive, Minted
<1>5. RefreshHasToken'
  BY DEF RefreshHasToken
<1>6. DirtyIsNewer'
  BY DEF DirtyIsNewer
<1>7. QED
  BY <1>1, <1>2, <1>3, <1>4, <1>5, <1>6 DEF TokenInv

LEMMA RefreshOkTokens ==
    ASSUME IInv, TypeOK', NEW r \in Requests, RefreshOk(r)
    PROVE  TokenInv'
<1> USE DEF IInv, TypeOK, Token, NoToken, Agents, RefreshOk, Goto, Hold, committed, locks
<1>1. LockedRowExists'
  BY DEF LockedRowExists
<1>2. TokensAreReal'
  BY RotateType DEF TokensAreReal, Real, Rotate, RefreshHasToken
<1>3. GrantIsNewest'
  BY RotateType DEF GrantIsNewest, Rotate
<1>4. MintedIsExclusive'
  BY RotateType DEF MintedIsExclusive, Minted, Rotate, GrantIsNewest, RefreshHasToken, TokensAreReal, Real
<1>5. RefreshHasToken'
  BY DEF RefreshHasToken
<1>6. DirtyIsNewer'
  BY DEF DirtyIsNewer
<1>7. QED
  BY <1>1, <1>2, <1>3, <1>4, <1>5, <1>6 DEF TokenInv

LEMMA RefreshLostTokens ==
    ASSUME IInv, TypeOK', NEW r \in Requests, RefreshLost(r)
    PROVE  TokenInv'
<1> USE DEF IInv, TypeOK, Token, NoToken, Agents, RefreshLost, Goto, Hold, committed, locks
<1>1. LockedRowExists'
  BY DEF LockedRowExists
<1>2. TokensAreReal'
  BY RotateType DEF TokensAreReal, Real, Rotate, RefreshHasToken
<1>3. GrantIsNewest'
  BY RotateType DEF GrantIsNewest, Rotate
<1>4. MintedIsExclusive'
  BY RotateType DEF MintedIsExclusive, Minted, Rotate, GrantIsNewest, RefreshHasToken, TokensAreReal, Real
<1>5. RefreshHasToken'
  BY DEF RefreshHasToken
<1>6. DirtyIsNewer'
  BY DEF DirtyIsNewer
<1>7. QED
  BY <1>1, <1>2, <1>3, <1>4, <1>5, <1>6 DEF TokenInv

LEMMA PersistRotationTokens ==
    ASSUME IInv, TypeOK', NEW r \in Requests, PersistRotation(r)
    PROVE  TokenInv'
<1> USE DEF IInv, TypeOK, Token, NoToken, Agents, PersistRotation, FreeO, View, Goto, Hold, hubspot, committed
<1>1. LockedRowExists'
  BY DEF LockedRowExists
<1>2. TokensAreReal'
  BY DEF TokensAreReal, Real
<1>3. GrantIsNewest'
  BY DEF GrantIsNewest
<1>4. MintedIsExclusive'
  BY DEF MintedIsExclusive, Minted
<1>5. RefreshHasToken'
  BY DEF RefreshHasToken
<1>6. DirtyIsNewer'
  BY DEF DirtyIsNewer, MintedIsExclusive, Minted
<1>7. QED
  BY <1>1, <1>2, <1>3, <1>4, <1>5, <1>6 DEF TokenInv

LEMMA DeactivateDeleteTokens ==
    ASSUME IInv, TypeOK', NEW x \in Requests \cup Hooks, DeactivateDelete(x)
    PROVE  TokenInv'
<1> USE DEF IInv, TypeOK, Token, NoToken, Agents, DeactivateDelete, FreeO, View, Goto, Hold, hubspot, committed
<1>1. LockedRowExists'
  BY DEF LockedRowExists
<1>2. TokensAreReal'
  BY DEF TokensAreReal, Real
<1>3. GrantIsNewest'
  BY DEF GrantIsNewest
<1>4. MintedIsExclusive'
  BY DEF MintedIsExclusive, Minted
<1>5. RefreshHasToken'
  BY DEF RefreshHasToken
<1>6. DirtyIsNewer'
  BY DEF DirtyIsNewer
<1>7. QED
  BY <1>1, <1>2, <1>3, <1>4, <1>5, <1>6 DEF TokenInv

LEMMA InitIInv == Init => IInv
<1> SUFFICES ASSUME Init PROVE IInv
  OBVIOUS
<1>1. TypeOK
  BY InitType
<1>2. QED
  BY <1>1 DEF Init, IInv, LockedRowExists, TokensAreReal, Real, GrantIsNewest,
              MintedIsExclusive, Minted, RefreshHasToken, DirtyIsNewer, NoToken, Agents

LEMMA StepIInv == IInv /\ [Next]_vars => IInv'
<1> SUFFICES ASSUME IInv, [Next]_vars PROVE TokenInv'
  BY StepType DEF IInv, TokenInv
<1>t. TypeOK'
  BY StepType DEF IInv
<1> USE DEF IInv
<1>1. CASE Uninstall
  BY <1>1, <1>t DEF Uninstall, TokenInv, LockedRowExists, TokensAreReal, Real, GrantIsNewest,
     MintedIsExclusive, Minted, RefreshHasToken, DirtyIsNewer, NoToken, Token, TypeOK, committed, locks
<1>2. ASSUME NEW c \in Callbacks, CallbackStep(c) PROVE TokenInv'
  BY <1>2, <1>t, ExchangeTokens, MovesOnActions, MovesOnTokens, StoreTokensTokens
     DEF CallbackStep, Agents
<1>3. ASSUME NEW h \in Hooks, HookStep(h) PROVE TokenInv'
  <2>1. ASSUME NEW e \in events, IgnoreEvent(h, e) \/ ApplyInstall(h, e) PROVE TokenInv'
    BY <2>1 DEF IgnoreEvent, ApplyInstall, TokenInv, LockedRowExists, TokensAreReal, Real,
       GrantIsNewest, MintedIsExclusive, Minted, RefreshHasToken, DirtyIsNewer, committed, locks
  <2>2. CASE DeactivateDelete(h)
    BY <2>2, <1>t, DeactivateDeleteTokens
  <2>3. QED
    BY <1>3, <1>t, <2>1, <2>2, MovesOnActions, MovesOnTokens, EndsActions, EndsTokens
       DEF HookStep, Agents
<1>4. ASSUME NEW r \in Requests, RequestStep(r) PROVE TokenInv'
  <2>1. CASE MovesOn(r)
    BY <2>1, <1>t, MovesOnTokens DEF Agents
  <2>2. CASE Ends(r)
    BY <2>2, <1>t, EndsTokens
  <2>3. CASE BeginRefresh(r) \/ RefreshOk(r) \/ RefreshLost(r)
    BY <2>3, <1>t, BeginRefreshTokens, RefreshOkTokens, RefreshLostTokens
  <2>4. CASE PersistRotation(r) \/ DeactivateDelete(r)
    BY <2>4, <1>t, PersistRotationTokens, DeactivateDeleteTokens
  <2>5. QED
    BY <1>4, <2>1, <2>2, <2>3, <2>4, MovesOnActions, EndsActions DEF RequestStep
<1>5. CASE UNCHANGED vars
  BY <1>5 DEF vars, TokenInv, LockedRowExists, TokensAreReal, Real, GrantIsNewest,
     MintedIsExclusive, Minted, RefreshHasToken, DirtyIsNewer
<1>6. QED
  BY <1>1, <1>2, <1>3, <1>4, <1>5 DEF Next

(* The invariant the action properties below rest on.                      *)
THEOREM Invariance == Spec => []IInv
BY InitIInv, StepIInv, PTL DEF Spec

(* The only steps that write the committed oauth row.                      *)
LEMMA RowWriters ==
    ASSUME IInv, [Next]_vars
    PROVE  \/ oauth' = oauth
           \/ lockO # Nobody /\ oauth' = newO
           \/ \E c \in Callbacks : pc[c] = "store" /\ oauth' = tok[c]
<1> USE DEF IInv, committed
<1>1. CASE Uninstall
  BY <1>1 DEF Uninstall
<1>2. ASSUME NEW c \in Callbacks, CallbackStep(c)
      PROVE  oauth' = oauth \/ (pc[c] = "store" /\ oauth' = tok[c])
  BY <1>2 DEF CallbackStep, Exchange, UpsertTenant, StoreTokens, FailCallback
<1>3. ASSUME NEW x \in Requests \cup Hooks, Ends(x)
      PROVE  oauth' = oauth \/ (lockO # Nobody /\ oauth' = newO)
  BY <1>3, AgentsAssumption DEF Ends, View, Agents
<1>4. ASSUME NEW h \in Hooks, HookStep(h) PROVE oauth' = oauth \/ Ends(h)
  BY <1>4, EndsActions DEF HookStep, IgnoreEvent, ApplyInstall, BeginUninstall,
     DeactivateUpdate, DeactivateDelete
<1>5. ASSUME NEW r \in Requests, RequestStep(r) PROVE oauth' = oauth \/ Ends(r)
  BY <1>5, EndsActions DEF RequestStep, Admit, BeginRefresh, RefreshOk, RefreshLost,
     RefreshError, RefreshRefused, PersistRotation, RereadAfterRefusal,
     DeactivateUpdate, DeactivateDelete, DeadlockVictim
<1>6. CASE UNCHANGED vars
  BY <1>6 DEF vars
<1>7. QED
  BY <1>1, <1>2, <1>3, <1>4, <1>5, <1>6 DEF Next

(* A refresh in flight never writes back credentials that were deleted:    *)
(* for any number of requests, webhooks and callbacks in flight.           *)
THEOREM NoResurrection == Spec => RefreshNeverResurrects
<1>1. IInv /\ [Next]_vars
        => [oauth = NoToken /\ oauth' # NoToken =>
              \E c \in Callbacks : pc[c] = "store" /\ oauth' = tok[c]]_vars
  BY RowWriters DEF IInv, LockedRowExists
<1>2. QED
  BY <1>1, Invariance, PTL DEF Spec, RefreshNeverResurrects

(* The stored token of an install never moves back along its chain of      *)
(* rotations, for any number of requests, webhooks and callbacks.          *)
THEOREM NoRegression == Spec => NoTokenRegression
<1>1. IInv /\ [Next]_vars
        => [oauth' # NoToken /\ oauth'.install = oauth.install
              => oauth'.serial >= oauth.serial]_vars
  <2> SUFFICES ASSUME IInv, [Next]_vars, oauth' # NoToken, oauth'.install = oauth.install
               PROVE  oauth'.serial >= oauth.serial
    OBVIOUS
  <2> USE DEF IInv, TypeOK, Token
  <2>1. CASE oauth' = oauth
    BY <2>1
  <2>2. CASE lockO # Nobody /\ oauth' = newO
    BY <2>2 DEF DirtyIsNewer
  <2>3. ASSUME NEW c \in Callbacks, pc[c] = "store" /\ oauth' = tok[c]
        PROVE  oauth'.serial >= oauth.serial
    BY <2>3 DEF MintedIsExclusive, Minted, Agents
  <2>4. QED
    BY <2>1, <2>2, <2>3, RowWriters
<1>2. QED
  BY <1>1, Invariance, PTL DEF Spec, NoTokenRegression

-----------------------------------------------------------------------------
(* Orderly histories: the invariant OrderlyTenantStaysActive rests on.     *)

(* A request that has presented a refresh token and not written the answer.*)
Presenting(r) == pc[r] \in {"refresh", "persist"}

(* The oauth row as the transaction that writes it, if any, leaves it.     *)
Newest == IF lockO = Nobody THEN oauth ELSE newO

(* A request that still holds a lock of deactivateTenant is inside it, or  *)
(* has gone through it.                                                    *)
LocksAreKept ==
    /\ \A r \in Requests : lockT = r => pc[r] = "deactO" \/ r \in gone
    /\ \A r \in Requests : lockO = r /\ newO = NoToken => r \in gone

(* One agent at a time holds a token that is about to be stored; while it  *)
(* is a callback there is no row at all.                                   *)
OneAtATime ==
    /\ \A q, r \in Requests : Presenting(q) /\ Presenting(r) => q = r
    /\ \A c \in Callbacks : pc[c] # "idle" =>
          /\ oauth = NoToken /\ lockO = Nobody
          /\ \A r \in Requests : ~Presenting(r)
          /\ \A d \in Callbacks : pc[d] # "idle" => d = c

(* While the grant stands, that token is the one HubSpot honours,          *)
HoldersHoldGrant ==
    /\ \A r \in Requests : Presenting(r) => tok[r] = grant
    /\ \A c \in Callbacks : pc[c] # "idle" => tok[c] = grant

(* no request was refused,                                                 *)
NobodyRefused ==
    \A r \in Requests : pc[r] \notin {"refused", "deactT", "deactO"} /\ r \notin gone

(* and unless a rotation is yet to be stored the row holds it, whether the *)
(* webhook that is deleting the row commits or not.                        *)
RowHoldsGrant ==
    (\A r \in Requests : pc[r] # "persist") =>
        /\ Newest \in {NoToken, grant}
        /\ lockO \in Hooks => oauth \in {NoToken, grant}

GrantIsHeld == HoldersHoldGrant /\ NobodyRefused /\ RowHoldsGrant

(* What an orderly history leads to: the two halves belong together, since *)
(* the grant is held only as long as one agent at a time handles it.       *)
OneHolder == OneAtATime /\ (grant # NoToken => GrantIsHeld)

OrderlyInv == LocksAreKept /\ (orderly => OneHolder)

LEMMA InitOrderly == Init => OrderlyInv
BY AgentsAssumption DEF Init, OrderlyInv, OneHolder, LocksAreKept, OneAtATime, GrantIsHeld, HoldersHoldGrant,
   NobodyRefused, RowHoldsGrant, Newest, Presenting, Agents

(* A history that is orderly after a step was orderly before it.           *)
LEMMA OrderlyBefore ==
    ASSUME TypeOK, [Next]_vars, orderly'
    PROVE  orderly
<1> USE DEF TypeOK
<1>1. CASE Uninstall
  BY <1>1 DEF Uninstall
<1>2. ASSUME NEW c \in Callbacks, CallbackStep(c) PROVE orderly
  BY <1>2 DEF CallbackStep, Exchange, UpsertTenant, StoreTokens, FailCallback
<1>3. ASSUME NEW h \in Hooks, HookStep(h) PROVE orderly
  BY <1>3 DEF HookStep, IgnoreEvent, ApplyInstall, BeginUninstall, DeactivateUpdate,
     DeactivateDelete, CommitUninstall, FailHook, DeadlockHook, RollbackHook
<1>4. ASSUME NEW r \in Requests, RequestStep(r) PROVE orderly
  BY <1>4 DEF RequestStep, Admit, BeginRefresh, RefreshOk, RefreshLost,
     RefreshError, RefreshRefused, PersistRotation, RereadAfterRefusal,
     DeactivateUpdate, DeactivateDelete, DeadlockVictim, Finish, Abort
<1>5. CASE UNCHANGED vars
  BY <1>5 DEF vars
<1>6. QED
  BY <1>1, <1>2, <1>3, <1>4, <1>5 DEF Next

LEMMA CallbackLocks ==
    ASSUME TypeOK, LocksAreKept, NEW c \in Callbacks, CallbackStep(c)
    PROVE  LocksAreKept'
BY AgentsAssumption DEF TypeOK, LocksAreKept, CallbackStep, Exchange, UpsertTenant, StoreTokens,
   FailCallback, Goto, locks, committed, Agents

LEMMA HookLocks ==
    ASSUME TypeOK, LocksAreKept, NEW h \in Hooks, HookStep(h)
    PROVE  LocksAreKept'
<1> USE AgentsAssumption DEF TypeOK, LocksAreKept, Goto, locks, committed, Agents
<1>1. ASSUME NEW e \in events, IgnoreEvent(h, e) \/ ApplyInstall(h, e) \/ BeginUninstall(h, e)
      PROVE  LocksAreKept'
  BY <1>1 DEF IgnoreEvent, ApplyInstall, BeginUninstall
<1>2. CASE DeactivateUpdate(h)
  BY <1>2 DEF DeactivateUpdate
<1>3. CASE DeactivateDelete(h)
  BY <1>3 DEF DeactivateDelete
<1>4. CASE CommitUninstall(h) \/ FailHook(h) \/ DeadlockHook(h)
  BY <1>4 DEF CommitUninstall, FailHook, DeadlockHook, RollbackHook, Release
<1>5. QED
  BY <1>1, <1>2, <1>3, <1>4, HookStep(h) DEF HookStep

LEMMA RequestLocks ==
    ASSUME IInv, LocksAreKept, NEW r \in Requests, RequestStep(r)
    PROVE  LocksAreKept'
<1> USE AgentsAssumption DEF IInv, TypeOK, LocksAreKept, Goto, locks, committed, Agents
<1>1. CASE Admit(r) \/ BeginRefresh(r) \/ RefreshOk(r) \/ RefreshLost(r) \/ RefreshError(r)
  BY <1>1 DEF Admit, BeginRefresh, RefreshOk, RefreshLost, RefreshError
<1>2. CASE RefreshRefused(r) \/ RereadAfterRefusal(r)
  BY <1>2 DEF RefreshRefused, RereadAfterRefusal
<1>3. CASE PersistRotation(r)
  BY <1>3 DEF PersistRotation, MintedIsExclusive, Minted
<1>4. CASE DeactivateUpdate(r)
  BY <1>4 DEF DeactivateUpdate
<1>5. CASE DeactivateDelete(r)
  BY <1>5 DEF DeactivateDelete
<1>6. CASE DeadlockVictim(r)
  BY <1>6 DEF DeadlockVictim
<1>7. CASE Finish(r) \/ Abort(r)
  BY <1>7 DEF Finish, Abort, Release
<1>8. QED
  BY <1>1, <1>2, <1>3, <1>4, <1>5, <1>6, <1>7, RequestStep(r) DEF RequestStep

LEMMA CallbackOrderly ==
    ASSUME IInv, TypeOK', OneHolder, orderly, orderly', NEW c \in Callbacks, CallbackStep(c)
    PROVE  OneHolder'
<1> USE AgentsAssumption DEF IInv, TypeOK, OneHolder, OneAtATime, GrantIsHeld, HoldersHoldGrant,
        NobodyRefused, RowHoldsGrant, Newest, Presenting, Goto, Hold, locks, committed, hubspot, Agents
<1>1. CASE Exchange(c)
  BY <1>1 DEF Exchange, Refreshing
<1>2. CASE UpsertTenant(c)
  BY <1>2 DEF UpsertTenant
<1>3. CASE StoreTokens(c)
  BY <1>3 DEF StoreTokens
<1>4. CASE FailCallback(c)
  BY <1>4 DEF FailCallback
<1>5. QED
  BY <1>1, <1>2, <1>3, <1>4, CallbackStep(c) DEF CallbackStep

LEMMA HookOrderly ==
    ASSUME IInv, TypeOK', OneHolder, NEW h \in Hooks, HookStep(h)
    PROVE  OneHolder'
<1> USE AgentsAssumption DEF IInv, TypeOK, OneHolder, OneAtATime, GrantIsHeld, HoldersHoldGrant,
        NobodyRefused, RowHoldsGrant, Newest, Presenting, Goto, Hold, locks, committed, hubspot, Agents
<1>1. ASSUME NEW e \in events, IgnoreEvent(h, e) \/ ApplyInstall(h, e) \/ BeginUninstall(h, e)
      PROVE  OneHolder'
  BY <1>1 DEF IgnoreEvent, ApplyInstall, BeginUninstall
<1>2. CASE DeactivateUpdate(h)
  BY <1>2 DEF DeactivateUpdate
<1>3. CASE DeactivateDelete(h)
  BY <1>3 DEF DeactivateDelete, View, FreeO
<1>4. CASE CommitUninstall(h) \/ FailHook(h) \/ DeadlockHook(h)
  BY <1>4 DEF CommitUninstall, FailHook, DeadlockHook, RollbackHook, Release, Publish, View
<1>5. QED
  BY <1>1, <1>2, <1>3, <1>4, HookStep(h) DEF HookStep

LEMMA RequestOrderly ==
    ASSUME IInv, TypeOK', OneHolder, LocksAreKept, orderly, orderly',
           NEW r \in Requests, RequestStep(r)
    PROVE  OneHolder'
<1> USE AgentsAssumption DEF IInv, TypeOK, OneHolder, OneAtATime, GrantIsHeld, HoldersHoldGrant,
        NobodyRefused, RowHoldsGrant, Newest, Presenting, Goto, Hold, locks, committed, hubspot, Agents
<1>1. CASE Admit(r)
  BY <1>1 DEF Admit
<1>2. CASE BeginRefresh(r)
  <2>f. FreeO(r) /\ (\A q \in Requests \ {r} : ~Presenting(q))
    BY <1>2 DEF BeginRefresh
  <2>v. View(r) = Newest
    BY <2>f DEF View, FreeO
  <2>1. /\ pc' = [pc EXCEPT ![r] = "refresh"] /\ tok' = [tok EXCEPT ![r] = Newest]
        /\ Newest # NoToken /\ pc[r] = "run"
        /\ UNCHANGED <<grant, oauth, lockO, newO, gone>>
    BY <1>2, <2>v DEF BeginRefresh
  <2>2. \A c \in Callbacks : pc[c] = "idle"
    BY <2>1
  <2>3. OneAtATime'
    BY <2>f, <2>1, <2>2
  <2>4. grant # NoToken => Newest = grant
    BY <2>f, <2>1
  <2>5. (grant # NoToken => GrantIsHeld)'
    BY <2>f, <2>1, <2>2, <2>4
  <2>6. QED
    BY <2>3, <2>5
<1>3. CASE RefreshOk(r)
  BY <1>3 DEF RefreshOk, Rotate, RefreshHasToken
<1>4. CASE RefreshLost(r)
  BY <1>4 DEF RefreshLost
<1>5. CASE RefreshError(r)
  BY <1>5 DEF RefreshError
<1>6. CASE RefreshRefused(r)
  BY <1>6 DEF RefreshRefused
<1>7. CASE PersistRotation(r)
  BY <1>7 DEF PersistRotation, View, FreeO
<1>8. CASE RereadAfterRefusal(r)
  BY <1>8 DEF RereadAfterRefusal
<1>9. CASE DeactivateUpdate(r)
  BY <1>9 DEF DeactivateUpdate
<1>10. CASE DeactivateDelete(r)
  BY <1>10 DEF DeactivateDelete, View, FreeO
<1>11. CASE DeadlockVictim(r)
  BY <1>11 DEF DeadlockVictim, Deadlocked
<1>12. CASE Finish(r)
  BY <1>12 DEF Finish, Release, Publish, View
<1>13. CASE Abort(r)
  BY <1>13 DEF Abort, Release, LocksAreKept
<1>14. QED
  BY <1>1, <1>2, <1>3, <1>4, <1>5, <1>6, <1>7, <1>8, <1>9, <1>10, <1>11, <1>12, <1>13,
     RequestStep(r) DEF RequestStep

LEMMA StepOrderly == IInv /\ OrderlyInv /\ [Next]_vars => OrderlyInv'
<1> SUFFICES ASSUME IInv, OrderlyInv, [Next]_vars
             PROVE  LocksAreKept' /\ (orderly' => OneHolder')
  BY DEF OrderlyInv
<1>1. TypeOK /\ TypeOK' /\ LocksAreKept
  BY StepType DEF IInv, OrderlyInv
<1>2. orderly' => orderly /\ OneHolder
  BY <1>1, OrderlyBefore DEF OrderlyInv
<1>3. CASE Uninstall
  BY <1>2, <1>3, <1>1 DEF Uninstall, LocksAreKept, OneHolder, OneAtATime, Presenting, committed, locks
<1>4. ASSUME NEW c \in Callbacks, CallbackStep(c)
      PROVE  LocksAreKept' /\ (orderly' => OneHolder')
  BY <1>1, <1>2, <1>4, CallbackLocks, CallbackOrderly
<1>5. ASSUME NEW h \in Hooks, HookStep(h)
      PROVE  LocksAreKept' /\ (orderly' => OneHolder')
  BY <1>1, <1>2, <1>5, HookLocks, HookOrderly
<1>6. ASSUME NEW r \in Requests, RequestStep(r)
      PROVE  LocksAreKept' /\ (orderly' => OneHolder')
  BY <1>1, <1>2, <1>6, RequestLocks, RequestOrderly
<1>7. CASE UNCHANGED vars
  BY <1>1, <1>2, <1>7 DEF vars, LocksAreKept, OneHolder, OneAtATime, GrantIsHeld, HoldersHoldGrant,
     NobodyRefused, RowHoldsGrant, Newest, Presenting
<1>8. QED
  BY <1>3, <1>4, <1>5, <1>6, <1>7 DEF Next

(* Only the end of the transaction that has deactivated the tenants row    *)
(* makes the tenant inactive.                                              *)
LEMMA TenantWriters ==
    ASSUME TypeOK, Next, lockT \in Requests, tenant = "active", tenant' = "inactive"
    PROVE  Finish(lockT)
<1> USE DEF TypeOK, hubspot, committed
<1>1. CASE Uninstall
  BY <1>1 DEF Uninstall
<1>2. ASSUME NEW c \in Callbacks, CallbackStep(c) PROVE FALSE
  BY <1>2 DEF CallbackStep, Exchange, UpsertTenant, StoreTokens, FailCallback
<1>3. ASSUME NEW h \in Hooks, HookStep(h) PROVE FALSE
  BY <1>3, AgentsAssumption DEF HookStep, IgnoreEvent, ApplyInstall, BeginUninstall, DeactivateUpdate,
     DeactivateDelete, CommitUninstall, FailHook, DeadlockHook, RollbackHook, Publish
<1>4. ASSUME NEW r \in Requests, RequestStep(r) PROVE Finish(lockT)
  BY <1>4 DEF RequestStep, Admit, BeginRefresh, RefreshOk, RefreshLost,
     RefreshError, RefreshRefused, PersistRotation, RereadAfterRefusal,
     DeactivateUpdate, DeactivateDelete, DeadlockVictim, Abort, Finish, Publish
<1>5. QED
  BY <1>1, <1>2, <1>3, <1>4 DEF Next

(* In a history where no refresh raced another or lost its result, no      *)
(* request deactivates a tenant whose app is still installed: for any      *)
(* number of requests, webhooks and callbacks in flight.                   *)
THEOREM OrderlyStaysActive == Spec => OrderlyTenantStaysActive
<1>1. OrderlyInv /\ IInv /\ [Next]_vars
        => [orderly /\ lockT \in Requests /\ tenant = "active" /\ tenant' = "inactive"
              => grant = NoToken]_vars
  <2> SUFFICES ASSUME OrderlyInv, TypeOK, Next, orderly, lockT \in Requests,
                      tenant = "active", tenant' = "inactive"
               PROVE  grant = NoToken
    BY DEF IInv
  <2>1. pc[lockT] = "run"
    BY TenantWriters DEF Finish
  <2>2. lockT \in gone
    BY <2>1 DEF OrderlyInv, LocksAreKept
  <2>3. QED
    BY <2>2 DEF OrderlyInv, OneHolder, GrantIsHeld, NobodyRefused
<1>2. QED
  BY <1>1, InitOrderly, StepOrderly, Invariance, PTL DEF Spec, OrderlyTenantStaysActive
=============================================================================
