-------------------------- MODULE ProviderSettings --------------------------
(***************************************************************************)
(* The API key of one tenant's signal provider, a column of its row of     *)
(* `provider_config`: the saves of PUT /api/settings, each in a READ       *)
(* COMMITTED transaction of its own (lib/settings-service.ts), and the     *)
(* cache every API instance keeps in its process (lib/config-resolver.ts,  *)
(* lib/cache-adapter.ts). The other columns of the row are merged by a     *)
(* save in the same way as the key. Time is counted in minutes.            *)
(***************************************************************************)
EXTENDS Naturals

CONSTANTS Instances,   \* processes of the API
          Saves,       \* slots for concurrent PUT /api/settings
          Loads,       \* slots for concurrent calls of getProviderConfig
          Keys,        \* API keys a user may enter
          NoKey,       \* no key stored
          Same,        \* a save that does not mention the key
          Nobody,      \* no transaction, or no instance
          TTL,         \* CONFIG_RESOLVER_CACHE_TTL_MS
          MaxClock     \* bound: how many minutes pass

ASSUME TTLAssumption == TTL \in Nat
ASSUME NobodyAssumption == Nobody \notin Saves \cup Instances
ASSUME AgentsAssumption == Saves \cap Loads = {}

Values == Keys \cup {NoKey}

VARIABLES
    clock,    \* minutes
    key,      \* the committed key
    writer,   \* the save whose transaction has written the row
    cache,    \* the entry of each instance
    pc,       \* where each save and each load is
    at,       \* the instance it runs on
    want,     \* what each save asks for: a key, NoKey (clearApiKey), Same
    val,      \* the key each save read and then wrote, each load fetched
    took,     \* when each load took its clock
    current,  \* history: when each key that was ever committed last was so
    last,     \* history: the instance of the last committed save
    raced,    \* history: instances where a load overlapped a save's end
    chosen,   \* history: the key last asked for by a committed save
    overlap   \* history: two saves have overlapped

vars == <<clock, key, writer, cache, pc, at, want, val, took, current, last,
          raced, chosen, overlap>>

row == <<key, writer>>
history == <<current, last, raced, chosen, overlap>>

Entry == [key : Values, until : Nat]
Miss == [key |-> NoKey, until |-> 0]

Init ==
    /\ clock = 0
    /\ key \in Values
    /\ writer = Nobody
    /\ cache = [i \in Instances |-> Miss]
    /\ pc = [a \in Saves \cup Loads |-> "idle"]
    /\ at = [a \in Saves \cup Loads |-> Nobody]
    /\ want = [s \in Saves |-> Same]
    /\ val = [a \in Saves \cup Loads |-> NoKey]
    /\ took = [q \in Loads |-> 0]
    /\ current = [k \in {key} |-> 0]
    /\ last = Nobody
    /\ raced = {}
    /\ chosen = key
    /\ overlap = FALSE

Goto(a, l) == pc' = [pc EXCEPT ![a] = l]

(* Key k is the committed one at time t.                                   *)
Stamp(k, t) ==
    current' = [v \in DOMAIN current \cup {k} |-> IF v = k THEN t ELSE current[v]]

(* A save on instance i has dropped i's entry and not yet committed.       *)
Ending(i) == \E s \in Saves : pc[s] = "invalidated" /\ at[s] = i
Loading(i) == \E q \in Loads : pc[q] # "idle" /\ at[q] = i

(* A minute passes. An expired entry reads as a miss, so it is forgotten.  *)
Tick ==
    /\ clock < MaxClock
    /\ clock' = clock + 1
    /\ cache' = [i \in Instances |-> IF cache[i].until > clock + 1 THEN cache[i] ELSE Miss]
    /\ Stamp(key, clock + 1)
    /\ UNCHANGED <<row, pc, at, want, val, took, last, raced, chosen, overlap>>

-----------------------------------------------------------------------------
(* getProviderConfig                                                       *)

(* readCache: an entry is served until its time has come.                  *)
Live(i) == cache[i].until > clock

Begin(q, i) ==
    /\ at' = [at EXCEPT ![q] = i]
    /\ took' = [took EXCEPT ![q] = clock]
    /\ raced' = IF Ending(i) THEN raced \cup {i} ELSE raced
    /\ UNCHANGED <<clock, row, cache, want, val, current, last, chosen, overlap>>

(* A miss: the SELECT goes out. A hit returns the entry, changing nothing. *)
Load(q, i) ==
    /\ pc[q] = "idle"
    /\ ~Live(i)
    /\ Goto(q, "select")
    /\ Begin(q, i)

(* The SELECT runs, on committed rows: no save reads through the cache.    *)
Fetch(q) ==
    /\ pc[q] = "select"
    /\ val' = [val EXCEPT ![q] = key]
    /\ Goto(q, "fetched")
    /\ UNCHANGED <<clock, row, cache, at, want, took, history>>

Leave(a) ==
    /\ Goto(a, "idle")
    /\ at' = [at EXCEPT ![a] = Nobody]
    /\ val' = [val EXCEPT ![a] = NoKey]

(* Mutant: the expiry is counted from the write, not from the call.        *)
StoreLateClock(q) ==
    /\ pc[q] = "fetched"
    /\ cache' = [cache EXCEPT ![at[q]] = [key |-> val[q], until |-> clock + TTL]]
    /\ Leave(q)
    /\ took' = [took EXCEPT ![q] = 0]
    /\ UNCHANGED <<clock, row, want, history>>

(* writeCache, with the clock the call took before its SELECT.             *)
Store(q) ==
    /\ pc[q] = "fetched"
    /\ cache' = [cache EXCEPT ![at[q]] = [key |-> val[q], until |-> took[q] + TTL]]
    /\ Leave(q)
    /\ took' = [took EXCEPT ![q] = 0]
    /\ UNCHANGED <<clock, row, want, history>>

(* The SELECT or the decryption fails, or the instance is recycled.        *)
FailLoad(q) ==
    /\ pc[q] # "idle"
    /\ Leave(q)
    /\ took' = [took EXCEPT ![q] = 0]
    /\ UNCHANGED <<clock, row, cache, want, history>>

(* The entry goes although no save ran: deactivateTenant, reactivateTenant,*)
(* a recycled instance.                                                    *)
Flush(i) ==
    /\ cache' = [cache EXCEPT ![i] = Miss]
    /\ UNCHANGED <<clock, row, pc, at, want, val, took, history>>

-----------------------------------------------------------------------------
(* PUT /api/settings                                                       *)

(* updateSettings reads the rows it is going to merge the update into.     *)
ReadRow(s, i, w) ==
    /\ pc[s] = "idle"
    /\ Goto(s, "merge")
    /\ at' = [at EXCEPT ![s] = i]
    /\ want' = [want EXCEPT ![s] = w]
    /\ val' = [val EXCEPT ![s] = key]
    /\ overlap' = (overlap \/ \E r \in Saves : pc[r] # "idle")
    /\ UNCHANGED <<clock, row, cache, took, current, last, raced, chosen>>

(* Mutant: a key that is not mentioned is cleared.                         *)
MergedDropped(s) == IF want[s] = Same THEN NoKey ELSE want[s]

(* clearApiKey deletes, apiKey replaces, otherwise the key that was read.  *)
Merged(s) == IF want[s] = Same THEN val[s] ELSE want[s]

(* The upsert writes every column; it waits for another writer of the row. *)
Upsert(s) ==
    /\ pc[s] = "merge"
    /\ writer = Nobody
    /\ writer' = s
    /\ val' = [val EXCEPT ![s] = Merged(s)]
    /\ Goto(s, "upserted")
    /\ UNCHANGED <<clock, key, cache, at, want, took, history>>

(* Mutant: the tenant's entry stays.                                       *)
InvalidateNothing(s) ==
    /\ pc[s] = "upserted"
    /\ Goto(s, "invalidated")
    /\ raced' = IF Loading(at[s]) THEN raced \cup {at[s]} ELSE raced
    /\ UNCHANGED <<clock, row, cache, at, want, val, took, current, last, chosen, overlap>>

(* invalidateTenantConfig: on this instance, before the request commits.   *)
Invalidate(s) ==
    /\ pc[s] = "upserted"
    /\ cache' = [cache EXCEPT ![at[s]] = Miss]
    /\ Goto(s, "invalidated")
    /\ raced' = IF Loading(at[s]) THEN raced \cup {at[s]} ELSE raced
    /\ UNCHANGED <<clock, row, at, want, val, took, current, last, chosen, overlap>>

(* handle.release() commits.                                               *)
Commit(s) ==
    /\ pc[s] = "invalidated"
    /\ key' = val[s]
    /\ writer' = Nobody
    /\ Stamp(val[s], clock)
    /\ last' = at[s]
    /\ chosen' = IF want[s] = Same THEN chosen ELSE want[s]
    /\ Leave(s)
    /\ want' = [want EXCEPT ![s] = Same]
    /\ UNCHANGED <<clock, cache, took, raced, overlap>>

(* A validation error, a failed statement or commit, a killed function.    *)
Rollback(s) ==
    /\ pc[s] # "idle"
    /\ writer' = IF writer = s THEN Nobody ELSE writer
    /\ Leave(s)
    /\ want' = [want EXCEPT ![s] = Same]
    /\ UNCHANGED <<clock, key, cache, took, history>>

-----------------------------------------------------------------------------
LoadStep(q) ==
    \/ \E i \in Instances : Load(q, i)
    \/ Fetch(q) \/ Store(q) \/ FailLoad(q)

SaveStep(s) ==
    \/ \E i \in Instances, w \in Values \cup {Same} : ReadRow(s, i, w)
    \/ Upsert(s) \/ Invalidate(s) \/ Commit(s) \/ Rollback(s)

Next ==
    \/ Tick
    \/ \E i \in Instances : Flush(i)
    \/ \E q \in Loads : LoadStep(q)
    \/ \E s \in Saves : SaveStep(s)

Spec == Init /\ [][Next]_vars

-----------------------------------------------------------------------------
(* Properties                                                              *)

(* Every variable holds a value of its type.                               *)
TypeOK ==
    /\ clock \in Nat
    /\ key \in Values
    /\ writer \in Saves \cup {Nobody}
    /\ cache \in [Instances -> Entry]
    /\ pc \in [Saves \cup Loads -> {"idle", "select", "fetched", "merge",
                                   "upserted", "invalidated"}]
    /\ at \in [Saves \cup Loads -> Instances \cup {Nobody}]
    /\ want \in [Saves -> Values \cup {Same}]
    /\ val \in [Saves \cup Loads -> Values]
    /\ took \in [Loads -> Nat]
    /\ DOMAIN current \subseteq Values
    /\ \A k \in DOMAIN current : current[k] \in Nat
    /\ last \in Instances \cup {Nobody}
    /\ raced \subseteq Instances
    /\ chosen \in Values
    /\ overlap \in BOOLEAN

(* No instance ever serves a key of a save that was rolled back, nor one   *)
(* that stopped being the committed key a TTL ago or more: not when the    *)
(* save ran on another instance, nor when a slow load stored its entry     *)
(* after the save had dropped it.                                          *)
CachedWasCurrent ==
    \A i \in Instances : Live(i) =>
        /\ cache[i].key \in DOMAIN current
        /\ clock < current[cache[i].key] + TTL

(* The instance that ran the last save serves the saved key at once, unless*)
(* a load on it overlapped the end of a save: the entry goes before the    *)
(* commit, and a load in that gap may put the old key back.                *)
SavedKeyIsServed ==
    last # Nobody /\ last \notin raced /\ Live(last) => cache[last].key = key

(* As long as no two saves overlapped, the committed key is the one a user *)
(* last asked for, however many saves of other fields came after it and    *)
(* however many were rolled back.                                          *)
SaveOfOtherFieldsKeepsKey == ~overlap => key = chosen
=============================================================================
