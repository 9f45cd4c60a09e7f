------------------------------ MODULE Webhooks ------------------------------
(***************************************************************************)
(* Outgoing webhooks.  Every audited change that has a category runs the   *)
(* audit hook: a gate, the number of enabled webhooks as last counted, says*)
(* whether to bother; behind it a goroutine of its own lists the enabled   *)
(* webhooks and sends the event to each in turn, all within one budget of  *)
(* time.  Edits of the webhooks are audited themselves and then count the  *)
(* gate anew, by two statements that nothing orders against another edit's.*)
(*                                                                         *)
(* A webhook's name, address and secret are its version, one more with     *)
(* every edit.  Time is the number of sends that may still time out.  The  *)
(* log of deliveries, which nothing acts on, is left out.                  *)
(***************************************************************************)
EXTENDS Naturals, FiniteSets

CONSTANTS
  Hooks,       \* identifiers of webhooks
  Subjects,    \* categories of events
  Subscriptions, \* lists of categories a webhook may be subscribed to
  Editors,     \* concurrent requests that edit webhooks
  MaxEvents,   \* bound on the audited events
  MaxEdits,    \* bound on the edits
  MaxCrashes,  \* bound on restarts and failed statements
  Budget       \* sends that may time out before the goroutine's deadline passes

ASSUME WebhooksAssumption ==
  /\ MaxEvents \in Nat /\ MaxEdits \in Nat /\ MaxCrashes \in Nat
  /\ Budget \in Nat /\ IsFiniteSet(Hooks)
  /\ Subscriptions \subseteq SUBSET Subjects /\ {} \in Subscriptions

Events == 1 .. MaxEvents

VARIABLES
  hook,      \* hook[w]: row w of webhooks
  gate,      \* Dispatcher.active
  editor,    \* editor[r]: the handler serving request r
  event,     \* event[e]: audited event e and the goroutine that delivers it
  audited,   \* events so far
  edits,     \* edits so far
  crashes,   \* restarts and failed statements so far
  sent,      \* the POST requests made
  staleGate, \* history: crossed refreshes, or a failed read-back or count, left the gate behind
  missed     \* history: events that found the gate closed for a reason other than no webhook

hookVars == <<hook, gate, editor, event, audited, edits, crashes, sent, staleGate, missed>>

-----------------------------------------------------------------------------
Webhook == [row : {"unused", "live", "deleted"}, on : BOOLEAN, subs : Subscriptions, ver : 0 .. MaxEdits]
Resting == [at |-> "idle", wrote |-> {}, n |-> 0, crossed |-> FALSE]
NoEvent == [at |-> "none", subject |-> "none", left |-> 0, todo |-> {}, starved |-> FALSE,
            when |-> 0, owed |-> {}]

\* An empty subscription means every category.
matches(subs, subject) == subs = {} \/ subject \in subs

Enabled == {w \in Hooks : hook[w].row = "live" /\ hook[w].on}
CountEnabledWebhooks == Cardinality(Enabled)

Listed(W) == {[to |-> w, ver |-> hook[w].ver, subs |-> hook[w].subs] : w \in W}
ListEnabledWebhooks == Listed(Enabled)

-----------------------------------------------------------------------------
(* The audit hook runs inside CreateAuditLog.  owed and when are histories:*)
(* whom the event is due to and how many edits came before it.             *)
Editing == \E r \in Editors : editor[r].at # "idle"

AuditHook(subject) ==
  LET e    == audited + 1
      owed == {s \in ListEnabledWebhooks : matches(s.subs, subject)}
  IN
  /\ audited < MaxEvents /\ audited' = e
  /\ event' = [event EXCEPT ![e] = [NoEvent EXCEPT !.at = IF gate > 0 THEN "list" ELSE "skipped",
                                                   !.subject = subject, !.left = Budget, !.owed = owed, !.when = edits]]
  /\ missed' = IF gate = 0 /\ (Editing \/ staleGate) THEN missed \cup {e} ELSE missed

\* Any other audited change.
CreateAuditLog(subject) ==
  AuditHook(subject) /\ UNCHANGED <<hook, gate, editor, edits, crashes, sent, staleGate>>

-----------------------------------------------------------------------------
(* Edits: the row and, unless it was removed, its read-back; the audit     *)
(* entry, the count, the gate.                                             *)
AfterWrite(w, row) ==
  IF row.row = "live" THEN [Resting EXCEPT !.at = "read", !.wrote = {w}] ELSE [Resting EXCEPT !.at = "audit"]

Written(r, w, row) ==
  /\ editor[r].at = "idle" /\ edits < MaxEdits /\ edits' = edits + 1
  /\ hook' = [hook EXCEPT ![w] = row]
  /\ editor' = [q \in Editors |-> IF q = r THEN AfterWrite(w, row)
                                  ELSE [editor[q] EXCEPT !.crossed = (@ \/ editor[q].at = "store")]]
  /\ UNCHANGED <<gate, event, audited, crashes, sent, staleGate, missed>>

webhookCreate(r) ==
  \E w \in Hooks, on \in BOOLEAN, subs \in Subscriptions :
    /\ hook[w].row = "unused"
    /\ Written(r, w, [row |-> "live", on |-> on, subs |-> subs, ver |-> edits + 1])

webhookUpdate(r) ==
  \E w \in Hooks, on \in BOOLEAN, subs \in Subscriptions :
    /\ hook[w].row = "live"
    /\ Written(r, w, [row |-> "live", on |-> on, subs |-> subs, ver |-> edits + 1])

webhookDelete(r) ==
  \E w \in Hooks :
    /\ hook[w].row = "live"
    /\ Written(r, w, [row |-> "deleted", on |-> FALSE, subs |-> {}, ver |-> edits + 1])

\* CreateWebhook and UpdateWebhook end with GetWebhook.  If the row is gone again, the
\* handler answers with an error and neither audits nor counts.
GetWebhook(r) ==
  \E w \in editor[r].wrote :
    /\ editor[r].at = "read"
    /\ editor' = [editor EXCEPT ![r] = IF hook[w].row = "live" THEN [Resting EXCEPT !.at = "audit"] ELSE Resting]
    /\ UNCHANGED <<hook, gate, event, audited, edits, crashes, sent, staleGate, missed>>

\* It does the same when the read fails, with the edit in place.
GetWebhookFails(r) ==
  /\ editor[r].at = "read" /\ crashes < MaxCrashes /\ crashes' = crashes + 1
  /\ staleGate' = TRUE
  /\ editor' = [editor EXCEPT ![r] = Resting]
  /\ UNCHANGED <<hook, gate, event, audited, edits, sent, missed>>

AuditEdit(r) ==
  /\ editor[r].at = "audit"
  /\ AuditHook("security")
  /\ editor' = [editor EXCEPT ![r].at = "count"]
  /\ UNCHANGED <<hook, gate, edits, crashes, sent, staleGate>>

\* An audit entry that cannot be written is logged; no hook runs.
AuditEditFails(r) ==
  /\ editor[r].at = "audit" /\ crashes < MaxCrashes /\ crashes' = crashes + 1
  /\ editor' = [editor EXCEPT ![r].at = "count"]
  /\ UNCHANGED <<hook, gate, event, audited, edits, sent, staleGate, missed>>

RefreshCount(r) ==
  /\ editor[r].at = "count"
  /\ editor' = [editor EXCEPT ![r].at = "store", ![r].n = CountEnabledWebhooks]
  /\ UNCHANGED <<hook, gate, event, audited, edits, crashes, sent, staleGate, missed>>

\* Mutant: the gate is opened and never closed, or the other way round.
RefreshAddsNothing(r) ==
  /\ editor[r].at = "store"
  /\ gate' = IF editor[r].n < gate THEN editor[r].n ELSE gate
  /\ staleGate' = editor[r].crossed
  /\ editor' = [editor EXCEPT ![r] = Resting]
  /\ UNCHANGED <<hook, event, audited, edits, crashes, sent, missed>>

RefreshStore(r) ==
  /\ editor[r].at = "store"
  /\ gate' = editor[r].n
  /\ staleGate' = editor[r].crossed
  /\ editor' = [editor EXCEPT ![r] = Resting]
  /\ UNCHANGED <<hook, event, audited, edits, crashes, sent, missed>>

\* The count fails, is logged, and the gate stays as it was.
RefreshFails(r) ==
  /\ editor[r].at = "count" /\ crashes < MaxCrashes /\ crashes' = crashes + 1
  /\ staleGate' = TRUE
  /\ editor' = [editor EXCEPT ![r] = Resting]
  /\ UNCHANGED <<hook, gate, event, audited, edits, sent, missed>>

\* A test goes to one webhook, enabled or not, within the request and its time; the
\* audit entry that follows is one of CreateAuditLog's.
TestDeliver ==
  \E w \in Hooks :
    LET s == [to |-> w, ver |-> hook[w].ver, subs |-> hook[w].subs] IN
    /\ hook[w].row = "live"
    /\ audited < MaxEvents /\ audited' = audited + 1
    /\ event' = [event EXCEPT ![audited + 1] = [NoEvent EXCEPT !.at = "send", !.subject = "test", !.left = Budget + 1,
                                                 !.todo = {s}, !.owed = {s}, !.when = edits]]
    /\ UNCHANGED <<hook, gate, editor, edits, crashes, sent, staleGate, missed>>

-----------------------------------------------------------------------------
(* The goroutine of an event.                                              *)
\* Mutant: an empty subscription matches nothing.
RecipientsByName(e) == {s \in ListEnabledWebhooks : event[e].subject \in s.subs}
\* Mutant: webhooks that are switched off are listed too.
RecipientsOff(e) == {s \in Listed({w \in Hooks : hook[w].row = "live"}) : matches(s.subs, event[e].subject)}
\* The enabled webhooks that subscribe to the event's category.
Recipients(e) == {s \in ListEnabledWebhooks : matches(s.subs, event[e].subject)}

deliver(e) ==
  /\ event[e].at = "list"
  /\ event' = [event EXCEPT ![e].at = "send", ![e].todo = Recipients(e)]
  /\ UNCHANGED <<hook, gate, editor, audited, edits, crashes, sent, staleGate, missed>>

\* The list cannot be read: logged, and the event is dropped.
deliverFails(e) ==
  /\ event[e].at = "list" /\ crashes < MaxCrashes /\ crashes' = crashes + 1
  /\ event' = [event EXCEPT ![e].at = "dropped"]
  /\ UNCHANGED <<hook, gate, editor, audited, edits, sent, staleGate, missed>>

\* A POST that answers, or one that times out and uses up time.
send(e) ==
  \E s \in event[e].todo, slow \in BOOLEAN :
    /\ event[e].at = "send" /\ event[e].left > 0
    /\ sent' = sent \cup {[event |-> e, to |-> s.to, ver |-> s.ver]}
    /\ event' = [event EXCEPT ![e].todo = @ \ {s}, ![e].left = IF slow THEN @ - 1 ELSE @]
    /\ UNCHANGED <<hook, gate, editor, audited, edits, crashes, staleGate, missed>>

\* No time is left: the remaining requests fail before they are made.
sendExpired(e) ==
  /\ event[e].at = "send" /\ event[e].left = 0 /\ event[e].todo # {}
  /\ event' = [event EXCEPT ![e].todo = {}, ![e].starved = TRUE]
  /\ UNCHANGED <<hook, gate, editor, audited, edits, crashes, sent, staleGate, missed>>

Delivered(e) == event[e].at = "send" /\ event[e].todo = {}

\* The process dies; a start-up counts the gate, or fails to.
HookRestart ==
  /\ crashes < MaxCrashes /\ crashes' = crashes + 1
  /\ editor' = [r \in Editors |-> Resting]
  /\ event' = [e \in Events |-> IF event[e].at \in {"none", "skipped", "dropped"} \/ Delivered(e) THEN event[e]
                                ELSE [event[e] EXCEPT !.at = "lost"]]
  /\ \/ gate' = CountEnabledWebhooks /\ staleGate' = FALSE
     \/ gate' = 0 /\ staleGate' = TRUE
  /\ UNCHANGED <<hook, audited, edits, sent, missed>>

-----------------------------------------------------------------------------
\* No webhook, or all of them enabled for everything; the gate as start-up counts it.
HookInit ==
  /\ \E live \in BOOLEAN :
       hook = [w \in Hooks |-> [row |-> IF live THEN "live" ELSE "unused", on |-> live, subs |-> {}, ver |-> 0]]
  /\ gate = CountEnabledWebhooks
  /\ editor = [r \in Editors |-> Resting]
  /\ event = [e \in Events |-> NoEvent]
  /\ audited = 0 /\ edits = 0 /\ crashes = 0
  /\ sent = {} /\ staleGate = FALSE /\ missed = {}

Goroutine(e) == deliver(e) \/ deliverFails(e) \/ send(e) \/ sendExpired(e)

HookNext ==
  \/ \E subject \in Subjects : CreateAuditLog(subject)
  \/ \E r \in Editors :
       \/ webhookCreate(r) \/ webhookUpdate(r) \/ webhookDelete(r)
       \/ GetWebhook(r) \/ GetWebhookFails(r) \/ AuditEdit(r) \/ AuditEditFails(r)
       \/ RefreshCount(r) \/ RefreshStore(r) \/ RefreshFails(r)
  \/ \E e \in Events : Goroutine(e)
  \/ TestDeliver
  \/ HookRestart

-----------------------------------------------------------------------------
(* Properties.                                                             *)

\* With no edit under way, the gate is open exactly when some webhook is enabled,
\* unless the refreshes of two edits crossed, a count failed, or an edit was not
\* counted because its row could not be read back (store/webhooks.go:86, 107).  An
\* edit that does not count because another removed its row leaves that to the other.
GateCurrent == ~ Editing /\ ~ staleGate => (gate > 0 <=> Enabled # {})

\* An event reaches every webhook that was enabled for it when it was audited and
\* has not been edited since, unless the gate was behind, the webhooks could not be
\* listed (webhook.go:209-213), time ran out or the process died.
EventReachesSubscribers ==
  \A e \in Events :
    (event[e].at = "skipped" \/ Delivered(e)) /\ e \notin missed /\ ~ event[e].starved =>
      \A s \in event[e].owed :
        \/ [event |-> e, to |-> s.to, ver |-> s.ver] \in sent
        \/ hook[s.to].ver # s.ver

\* No event is sent to a webhook as it was before an edit that the event followed:
\* what comes after a webhook is switched off or removed is not sent to it.
SendsCurrent ==
  \A p \in sent : \/ p.ver > event[p.event].when
                  \/ \E s \in event[p.event].owed : s.to = p.to /\ s.ver = p.ver
=============================================================================
