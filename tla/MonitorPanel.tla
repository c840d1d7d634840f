---------------------------- MODULE MonitorPanel ----------------------------
(***************************************************************************)
(* The Trigify section of the settings page (trigify-settings.tsx) and its *)
(* fetchers (trigify-api-fetcher.ts), composed with the spend gate it      *)
(* drives: each of the page's requests is a request of MonitorSpend, which *)
(* runs on when the page gives up on it.  One page, during one day.        *)
(* What the form holds matters only when it is previewed, and a plan only  *)
(* when it offers its confirmation, so neither the draft nor other plans   *)
(* are state; that usage could not be read only disables a button.         *)
(***************************************************************************)
EXTENDS MonitorSpend

CONSTANTS Loads,       \* slots for reads of the list under way
          MaxClicks    \* bound: how often the user confirms

VARIABLES
    list,       \* the status of each row listed, "none" if it is not; or Unread
    plan,       \* the target whose plan offers to spend a credit, or Nobody
    does,       \* what each slot's request is: the route it calls
    asks,       \* the target the page sent it with
    reply,      \* what its handler has decided to answer
    waiting,    \* requests whose answer the page still wants
    loads,      \* reads of the list: who waits for each, and what was read
    clicks,     \* history: confirmations of each target's spend
    calm,       \* history: no lost answer or charge, no deletion so far
    inOrder     \* history: no lost answer, no two reads of the list at once

wire == <<does, asks, reply, waiting>>
notes == <<clicks, calm, inOrder>>
panel == <<list, plan, wire, loads, notes>>

Nothing == [t \in Targets |-> "none"]
Unread == [t \in Targets |-> "unread"]   \* not loaded yet, or not connected
NoLoad == [by |-> "none", read |-> FALSE, rows |-> Nothing]

(* The page mounts and fetches the connection.                             *)
PanelInit ==
    /\ Init
    /\ list = Unread
    /\ plan = Nobody
    /\ does = [r \in Requests |-> "none"]
    /\ asks = [r \in Requests |-> Nobody]
    /\ reply = [r \in Requests |-> "none"]
    /\ waiting = {}
    /\ \E l \in Loads : loads = [[k \in Loads |-> NoLoad] EXCEPT ![l].by = "page"]
    /\ clicks = [t \in Targets |-> 0]
    /\ calm = TRUE
    /\ inOrder = TRUE

Previewing == \E r \in waiting : does[r] = "preview"

(* setSubscribing(false) comes after the reload that a creation waits for. *)
Subscribing ==
    \/ \E r \in waiting : does[r] = "subscribe"
    \/ \E l \in Loads : loads[l].by = "subscribe"

-----------------------------------------------------------------------------
(* What the user does                                                      *)

(* The slots that stay in use; the others are forgotten.                   *)
Keep(held) ==
    /\ does' = [r \in Requests |-> IF r \in held THEN does[r] ELSE "none"]
    /\ asks' = [r \in Requests |-> IF r \in held THEN asks[r] ELSE Nobody]

(* A request leaves the page and its handler's transaction opens.          *)
Send(what, t) ==
    \E r \in Requests :
        /\ does[r] = "none"
        /\ Begin(r, t)
        /\ does' = [does EXCEPT ![r] = what]
        /\ asks' = [asks EXCEPT ![r] = t]
        /\ reply' = [reply EXCEPT ![r] = "none"]
        /\ waiting' = waiting \cup {r}

(* Mutant: the preview confirms.                                           *)
PreviewConfirms(t) ==
    /\ list # Unread
    /\ ~Previewing
    /\ plan' = Nobody
    /\ Send("subscribe", t)
    /\ UNCHANGED <<list, loads, notes>>

(* runPreview: the plan shown goes, and the form's target is sent, without *)
(* a confirm. It may run while a subscribe is under way.                   *)
Preview(t) ==
    /\ list # Unread
    /\ ~Previewing
    /\ plan' = Nobody
    /\ Send("preview", t)
    /\ UNCHANGED <<list, loads, notes>>

Clicked == {c \in Targets \X (1 .. MaxClicks) : c[2] <= clicks[c[1]]}
Confirmable == plan # Nobody /\ Cardinality(Clicked) < MaxClicks

(* Mutant: the button is not disabled while a subscribe is under way.      *)
ConfirmAgain ==
    /\ Confirmable
    /\ Send("subscribe", plan)
    /\ clicks' = [clicks EXCEPT ![plan] = @ + 1]
    /\ UNCHANGED <<list, plan, loads, calm, inOrder>>

(* confirmSpend buys what the plan shown says, whatever the form says now. *)
Confirm ==
    /\ Confirmable
    /\ ~Subscribing
    /\ Send("subscribe", plan)
    /\ clicks' = [clicks EXCEPT ![plan] = @ + 1]
    /\ UNCHANGED <<list, plan, loads, calm, inOrder>>

(* onPause and onDelete, where the listed row's status enables them.       *)
Change(t, s) ==
    /\ list[t] \in (IF s = "paused" THEN {"active"} ELSE {"active", "paused"})
    /\ Send(s, t)
    /\ UNCHANGED <<list, plan, loads, notes>>

-----------------------------------------------------------------------------
(* What the server does with a request, and what it will answer            *)

Answer(r, a) == reply' = [reply EXCEPT ![r] = IF r \in waiting THEN a ELSE @]

(* A preview ends with its plan, a confirmed subscribe on a duplicate.     *)
(* Either may end early: no key, no such type, settings that fail to read. *)
Planned(r) ==
    /\ does[r] \in {"preview", "subscribe"}
    /\ Plan(r)
    /\ \/ /\ does[r] = "preview"
          /\ pc'[r] = "done"
          /\ Answer(r, IF Duplicate(on[r]) THEN "refused" ELSE "offered")
       \/ /\ does[r] = "subscribe"
          /\ IF Duplicate(on[r]) THEN pc'[r] = "done" /\ Answer(r, "refused")
                                 ELSE pc'[r] = "planned" /\ UNCHANGED reply
       \/ pc'[r] = "done" /\ Answer(r, "error")
    /\ UNCHANGED calm

Budgeted(r) ==
    /\ CountDaily(r) \/ CountMonthly(r)
    /\ IF pc'[r] = "done" THEN Answer(r, "refused") ELSE UNCHANGED reply
    /\ UNCHANGED calm

Charged(r) ==
    \/ Charge(r) /\ UNCHANGED <<reply, calm>>
    \/ ChargeLost(r) /\ Answer(r, "error") /\ calm' = FALSE
    \/ ChargeRefused(r) /\ Answer(r, "error") /\ UNCHANGED calm

(* The route answers a lost race for the row as one that spent nothing.    *)
Recorded(r) ==
    /\ \/ Insert(r) /\ Answer(r, "created")
       \/ InsertRefused(r) /\ Answer(r, "refused")
    /\ UNCHANGED calm

Changed(r) ==
    /\ does[r] \in {"paused", "deleted"}
    /\ \/ SetStatus(r, does[r]) /\ Answer(r, "ok") /\ calm' = (calm /\ does[r] # "deleted")
       \/ StatusNotFound(r) /\ Answer(r, "error") /\ UNCHANGED calm

(* Mutant: a failed commit is answered like a good one.                    *)
EndedAnyway(r) ==
    /\ \/ Finish(r) /\ UNCHANGED <<reply, calm>>
       \/ Rollback(r) /\ pc[r] \in {"inserted", "failed"} /\ UNCHANGED <<reply, calm>>
       \/ Rollback(r) /\ pc[r] \notin {"inserted", "failed"} /\ Answer(r, "error") /\ calm' = FALSE
    /\ Keep({k \in Requests : k \in waiting \/ (k # r /\ pc[k] # "idle")})
    /\ UNCHANGED waiting

(* The transaction ends and the answer leaves; a slot nobody waits for is  *)
(* free. The rollback of a doomed transaction leaves the answer as it was. *)
Ended(r) ==
    /\ \/ Finish(r) /\ UNCHANGED <<reply, calm>>
       \/ Rollback(r) /\ pc[r] = "failed" /\ UNCHANGED reply /\ calm' = FALSE
       \/ /\ Rollback(r)
          /\ Answer(r, "error")
          /\ calm' = (calm /\ pc[r] \notin {"charged", "inserted", "failed"})
    /\ Keep({k \in Requests : k \in waiting \/ (k # r /\ pc[k] # "idle")})
    /\ UNCHANGED waiting

Serve(r) ==
    /\ \/ /\ Planned(r) \/ Budgeted(r) \/ Charged(r) \/ Recorded(r) \/ Changed(r)
          /\ UNCHANGED <<does, asks, waiting>>
       \/ Ended(r)
    /\ UNCHANGED <<list, plan, loads, clicks, inOrder>>

-----------------------------------------------------------------------------
(* What the page does with the answers                                     *)

(* reload; the reads of the list are not ordered.                          *)
Reload(by) ==
    \E l \in Loads :
        /\ loads[l] = NoLoad
        /\ loads' = [loads EXCEPT ![l].by = by]
        /\ inOrder' = (inOrder /\ \A k \in Loads : loads[k] = NoLoad)

(* The page stops waiting for the request.                                 *)
Forget(r) ==
    /\ r \in waiting
    /\ waiting' = waiting \ {r}
    /\ reply' = [reply EXCEPT ![r] = "none"]
    /\ Keep({k \in Requests : k \in waiting \ {r} \/ pc[k] # "idle"})
    /\ UNCHANGED vars

(* runPreview's end: the plan is shown, or an error.                       *)
ReceivePlan(r) ==
    /\ does[r] = "preview"
    /\ plan' = IF reply[r] = "error" THEN plan
               ELSE IF reply[r] = "offered" THEN asks[r] ELSE Nobody
    /\ UNCHANGED <<loads, inOrder>>

(* confirmSpend's end: an error keeps the plan, which can be confirmed     *)
(* again; a result drops it, and a new monitor has the list read.          *)
ReceiveResult(r) ==
    /\ does[r] = "subscribe"
    /\ plan' = IF reply[r] = "error" THEN plan ELSE Nobody
    /\ IF reply[r] = "created" THEN Reload("subscribe") ELSE UNCHANGED <<loads, inOrder>>

(* Mutant: the list is not read again.                                     *)
ReceiveChangeUnread(r) ==
    /\ does[r] \in {"paused", "deleted"}
    /\ UNCHANGED <<plan, loads, inOrder>>

ReceiveChange(r) ==
    /\ does[r] \in {"paused", "deleted"}
    /\ IF reply[r] = "ok" THEN Reload("page") ELSE UNCHANGED <<loads, inOrder>>
    /\ UNCHANGED plan

Receive(r) ==
    /\ Forget(r)
    /\ pc[r] = "idle"
    /\ ReceivePlan(r) \/ ReceiveResult(r) \/ ReceiveChange(r)
    /\ UNCHANGED <<list, clicks, calm>>

(* The answer is lost or late: the fetch rejects, the server runs on.      *)
GiveUp(r) ==
    /\ Forget(r)
    /\ calm' = FALSE
    /\ inOrder' = FALSE
    /\ UNCHANGED <<list, plan, loads, clicks>>

(* GET / reads the committed rows.                                         *)
ReadList(l) ==
    /\ loads[l].by # "none"
    /\ ~loads[l].read
    /\ loads' = [loads EXCEPT ![l].read = TRUE, ![l].rows = status]
    /\ UNCHANGED <<vars, list, plan, wire, notes>>

(* The list arrives, or the fetch fails: no monitors, and no preview.      *)
ShowList(l) ==
    /\ loads[l].by # "none"
    /\ \/ loads[l].read /\ list' = loads[l].rows
       \/ list' = Unread
    /\ loads' = [loads EXCEPT ![l] = NoLoad]
    /\ UNCHANGED <<vars, plan, wire, notes>>

-----------------------------------------------------------------------------
PanelNext ==
    \/ \E t \in Targets : Preview(t)
    \/ Confirm
    \/ \E t \in Targets, s \in {"paused", "deleted"} : Change(t, s)
    \/ \E r \in Requests : Serve(r)
    \/ \E r \in Requests : Receive(r)
    \/ \E r \in Requests : GiveUp(r)
    \/ \E l \in Loads : ReadList(l)
    \/ \E l \in Loads : ShowList(l)

PanelSpec == PanelInit /\ [][PanelNext]_<<vars, panel>>

-----------------------------------------------------------------------------
(* Properties                                                              *)

(* Every variable of the page holds a value of its type.                   *)
PanelTypeOK ==
    LET Rows == [Targets -> {"none", "active", "paused", "deleted"}]
    IN  /\ list \in Rows \cup {Unread}
        /\ plan \in Targets \cup {Nobody}
        /\ does \in [Requests -> {"none", "preview", "subscribe", "paused", "deleted"}]
        /\ asks \in [Requests -> Targets \cup {Nobody}]
        /\ reply \in [Requests -> {"none", "error", "offered", "refused", "created", "ok"}]
        /\ waiting \subseteq Requests
        /\ loads \in [Loads -> [by : {"none", "page", "subscribe"},
                                read : BOOLEAN, rows : Rows]]
        /\ clicks \in [Targets -> Nat]
        /\ calm \in BOOLEAN
        /\ inOrder \in BOOLEAN

(* The spend discipline of trigify-settings.tsx: each credit charged for a *)
(* target answers a click on a plan that named that target and its price,  *)
(* whatever was edited, previewed, lost or given up on in between.         *)
EveryCreditConfirmed == \A t \in Targets : spent[t] <= clicks[t]

(* As long as no answer and no charge is lost and nothing is deleted, a    *)
(* page pays for a target once, however its previews, confirmations and    *)
(* pauses overlap and however old the plan it confirms.                    *)
CalmPagePaysOnce == calm => \A t \in Targets : spent[t] <= 1

(* The page never announces a monitor whose row was rolled back.           *)
CreatedIsTrue ==
    \A r \in waiting : pc[r] = "idle" /\ reply[r] = "created" => status[asks[r]] # "none"

(* When nothing is under way, no answer was lost and no two reads of the   *)
(* list overlapped, the list shown is the ledger, or none for a read that  *)
(* failed.                                                                 *)
ListIsCurrent ==
    inOrder /\ waiting = {} /\ (\A l \in Loads : loads[l] = NoLoad)
        => list \in {Unread, status}
=============================================================================
