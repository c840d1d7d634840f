----------------------------- MODULE Eligibility -----------------------------
(***************************************************************************)
(* The gate of a snapshot (services/eligibility.ts) for one company of one *)
(* tenant: is the HubSpot property the tenant has named "true"?  Checks    *)
(* overlap and share two process-wide caches, of the property's name and   *)
(* of the verdict by each property; both are read and written on either    *)
(* side of a wait.  Meanwhile the tenant edits the company and the name,   *)
(* HubSpot or the database may fail, and the process may restart.  A tick  *)
(* of the clock is a part of the caches' five minutes.                     *)
(***************************************************************************)
EXTENDS Integers

CONSTANTS Checks,            \* slots for overlapping checks
          Properties,        \* names of HubSpot company properties
          DefaultProperty,   \* hs_is_target_account
          NotCached,         \* nothing cached
          Ttl,               \* ticks in five minutes
          MaxTime,           \* bound: the last tick
          MaxEdits           \* bound: edits of the company and the settings

ASSUME PropertiesAssumption == DefaultProperty \in Properties
ASSUME NotCachedAssumption ==
    /\ NotCached \notin [name : Properties, until : Nat]
    /\ NotCached \notin [verdict : {"eligible", "ineligible", "unconfigured"},
                    until : Nat]
ASSUME BoundsAssumption ==
    /\ Ttl \in Nat \ {0}
    /\ MaxTime \in Nat
    /\ MaxEdits \in Nat

VARIABLES
    now,          \* the process's clock
    target,       \* HubSpot's value of each property: is it "true"?
    configured,   \* the property the tenant's settings name
    edits,        \* edits so far
    nameCache,    \* propertyNameCache: [name, until] or NotCached
    cache,        \* the result cached for each property: [verdict, until]
    check,        \* the checks: [pc, began, name, read, verdict], the
                  \* time read at the start, the property it goes by,
                  \* whether it has read that name itself, the verdict
    lastTarget,   \* history: when each property was last "true"
    lastNamed     \* history: when each property was last configured

tenant == <<target, configured, edits, lastTarget, lastNamed>>
vars == <<now, tenant, nameCache, cache, check>>

Verdicts == {"eligible", "ineligible", "unconfigured"}

Idle == [pc |-> "idle"]

Init ==
    /\ now = 0
    /\ target \in [Properties -> BOOLEAN]
    /\ configured \in Properties
    /\ edits = 0
    /\ nameCache = NotCached
    /\ cache = [p \in Properties |-> NotCached]
    /\ check = [c \in Checks |-> Idle]
    /\ lastTarget = [p \in Properties |-> IF target[p] THEN 0 ELSE -Ttl]
    /\ lastNamed = [p \in Properties |-> IF p = configured THEN 0 ELSE -Ttl]

-----------------------------------------------------------------------------
Current(entry, time) == entry # NotCached /\ entry.until > time

(* checkEligibility reads the clock, and resolvePropertyName takes the name *)
(* cached or asks for the settings.                                        *)
Begin(c) ==
    /\ check[c].pc = "idle"
    /\ check' = [check EXCEPT ![c] =
                    IF Current(nameCache, now)
                    THEN [pc |-> "lookup", began |-> now,
                          name |-> nameCache.name, read |-> FALSE]
                    ELSE [pc |-> "resolve", began |-> now]]
    /\ UNCHANGED <<now, tenant, nameCache, cache>>

Resolved(c, name, read) == [pc |-> "lookup", began |-> check[c].began,
                            name |-> name, read |-> read]

(* The settings are read; if that fails, the default is the name.          *)
Resolve(c) ==
    /\ check[c].pc = "resolve"
    /\ check' \in {[check EXCEPT ![c] = Resolved(c, configured, TRUE)],
                   [check EXCEPT ![c] = Resolved(c, DefaultProperty, FALSE)]}
    /\ UNCHANGED <<now, tenant, nameCache, cache>>

Decided(c, verdict) == [pc |-> "done", began |-> check[c].began,
                        name |-> check[c].name, verdict |-> verdict]

(* Mutant: the clock read when the answer arrives counts.                  *)
ExpiryOnArrival(c) == now + Ttl

(* The clock read at the start counts, however long the waits have been.   *)
Expiry(c) == check[c].began + Ttl

(* Mutant: each use of the cached name renews it.                          *)
LookupRenews(c) ==
    /\ check[c].pc = "lookup"
    /\ nameCache' = [name |-> check[c].name, until |-> Expiry(c)]
    /\ LET entry == cache[check[c].name]
       IN  check' = [check EXCEPT ![c] =
                        IF Current(entry, @.began)
                        THEN Decided(c, entry.verdict)
                        ELSE [pc |-> "ask", began |-> @.began, name |-> @.name]]
    /\ UNCHANGED <<now, tenant, cache>>

(* The answer arrives and is cached, the verdict cached for it is taken.   *)
Lookup(c) ==
    /\ check[c].pc = "lookup"
    /\ nameCache' = IF check[c].read
                    THEN [name |-> check[c].name, until |-> Expiry(c)]
                    ELSE nameCache
    /\ LET entry == cache[check[c].name]
       IN  check' = [check EXCEPT ![c] =
                        IF Current(entry, @.began)
                        THEN Decided(c, entry.verdict)
                        ELSE [pc |-> "ask", began |-> @.began, name |-> @.name]]
    /\ UNCHANGED <<now, tenant, cache>>

(* HubSpot answers with the property's value; an error, a value that is    *)
(* neither true nor false, or access revoked count as unconfigured.        *)
Ask(c) ==
    /\ check[c].pc = "ask"
    /\ \E verdict \in {"unconfigured",
                       IF target[check[c].name] THEN "eligible"
                                                ELSE "ineligible"} :
          check' = [check EXCEPT ![c] =
                       [Decided(c, verdict) EXCEPT !.pc = "store"]]
    /\ UNCHANGED <<now, tenant, nameCache, cache>>

(* The answer arrives and is cached over whatever was cached meanwhile.    *)
Store(c) ==
    /\ check[c].pc = "store"
    /\ cache' = [cache EXCEPT ![check[c].name] =
                    [verdict |-> check[c].verdict, until |-> Expiry(c)]]
    /\ check' = [check EXCEPT ![c].pc = "done"]
    /\ UNCHANGED <<now, tenant, nameCache>>

(* The assembler takes the verdict.                                        *)
Return(c) ==
    /\ check[c].pc = "done"
    /\ check' = [check EXCEPT ![c] = Idle]
    /\ UNCHANGED <<now, tenant, nameCache, cache>>

(* The process ends, with its checks and its caches.                       *)
Restart ==
    /\ nameCache' = NotCached
    /\ cache' = [p \in Properties |-> NotCached]
    /\ check' = [c \in Checks |-> Idle]
    /\ UNCHANGED <<now, tenant>>

-----------------------------------------------------------------------------
(* The company's property is edited in HubSpot.                            *)
Retarget(p) ==
    /\ edits < MaxEdits
    /\ edits' = edits + 1
    /\ target' = [target EXCEPT ![p] = ~ @]
    /\ lastTarget' = [lastTarget EXCEPT ![p] = now]
    /\ UNCHANGED <<now, configured, lastNamed, nameCache, cache, check>>

(* The settings name another property.                                     *)
Rename(p) ==
    /\ edits < MaxEdits
    /\ edits' = edits + 1
    /\ configured' = p
    /\ lastNamed' = [lastNamed EXCEPT ![configured] = now, ![p] = now]
    /\ UNCHANGED <<now, target, lastTarget, nameCache, cache, check>>

Tick ==
    /\ now < MaxTime
    /\ now' = now + 1
    /\ lastTarget' = [p \in Properties |-> IF target[p] THEN now'
                                           ELSE lastTarget[p]]
    /\ lastNamed' = [lastNamed EXCEPT ![configured] = now']
    /\ UNCHANGED <<target, configured, edits, nameCache, cache, check>>

Next ==
    \/ \E c \in Checks :
          Begin(c) \/ Resolve(c) \/ Lookup(c) \/ Ask(c) \/ Store(c) \/ Return(c)
    \/ \E p \in Properties : Retarget(p) \/ Rename(p)
    \/ Tick
    \/ Restart

Spec == Init /\ [][Next]_vars

-----------------------------------------------------------------------------
TypeOK ==
    /\ now \in 0 .. MaxTime
    /\ target \in [Properties -> BOOLEAN]
    /\ configured \in Properties
    /\ edits \in 0 .. MaxEdits
    /\ nameCache \in [name : Properties, until : Nat] \cup {NotCached}
    /\ cache \in [Properties -> [verdict : Verdicts, until : Nat] \cup {NotCached}]
    /\ check \in [Checks ->
          {Idle}
          \cup [pc : {"resolve"}, began : 0 .. MaxTime]
          \cup [pc : {"lookup"}, began : 0 .. MaxTime, name : Properties,
                read : BOOLEAN]
          \cup [pc : {"ask"}, began : 0 .. MaxTime, name : Properties]
          \cup [pc : {"store", "done"}, began : 0 .. MaxTime,
                name : Properties, verdict : Verdicts]]
    /\ lastTarget \in [Properties -> Int]
    /\ lastNamed \in [Properties -> Int]

(* A check calls a company eligible only if it was a target less than five *)
(* minutes before the check began: however checks overlap, an answer that  *)
(* arrives late, over a newer one, does not outlive the reading it is of   *)
(* (checkEligibility's cache).                                             *)
EligibleRecently ==
    \A c \in Checks :
        check[c].pc = "done" /\ check[c].verdict = "eligible" =>
            lastTarget[check[c].name] > check[c].began - Ttl

(* A check goes by a property the settings named less than five minutes    *)
(* before it began, or by the default one, which it falls back on when the *)
(* settings cannot be read: the delays of the two caches do not add up,    *)
(* since a verdict is cached under the property it is of                   *)
(* (resolvePropertyName, buildCacheKey).                                   *)
NamedRecently ==
    \A c \in Checks :
        check[c].pc \notin {"idle", "resolve"} =>
            \/ lastNamed[check[c].name] > check[c].began - Ttl
            \/ check[c].name = DefaultProperty
=============================================================================
