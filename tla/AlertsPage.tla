------------------------------- MODULE AlertsPage -------------------------------
(***************************************************************************)
(* The page of the alert rules and the webhook in the browser, and the     *)
(* handlers that answer it.                                                *)
(*                                                                         *)
(* While a load is on its way the page shows nothing else, so no change    *)
(* begins then; but a change that began before may cross it, and two       *)
(* changes of one rule may cross each other: PATCH and PUT read, merge and *)
(* write without a transaction.  A request outlives the page that made it. *)
(***************************************************************************)
EXTENDS Naturals, FiniteSets, Sequences

CONSTANTS
    MaxRules,        \* bound: ids given out
    Configs,         \* what a rule watches
    Urls, Secrets,   \* of the webhook
    Requests,        \* slots for requests in flight
    MaxClicks,       \* bound: clicks of the user
    Mask,            \* maskedHeaderValue
    Nil

RuleIds == 1..MaxRules
Hook == 0            \* stands for the row of the webhook
Keys == RuleIds \cup {Hook}

ASSUME PageAssumption ==
    /\ MaxRules \in Nat \ {0} /\ MaxClicks \in Nat
    /\ Mask \notin Secrets /\ Nil \notin Secrets \cup Configs \cup {Mask}
    /\ Nil \notin [config : Configs, enabled : BOOLEAN]
    /\ Nil \notin [url : Urls, header : Secrets \cup {Mask, Nil}]
    /\ Nil \notin Keys \cup [RuleIds -> Seq([config : Configs, enabled : BOOLEAN])]

VARIABLES
    table,           \* alert_rules
    lastId,          \* its AUTOINCREMENT
    stored,          \* the row of webhook_configs
    requests,
    mounted, loading,
    rules,           \* what the page lists under each id
    editing, savingRule, deleting, webhook, savingWebhook,
    doubt,           \* history: rows of which a change crossed a load or another
                     \* change, or was made but not answered, since the last load
    clicks

backend == <<table, lastId, stored>>
form == <<editing, savingRule>>
hookForm == <<webhook, savingWebhook>>
vars == <<backend, requests, mounted, loading, rules, form, deleting, hookForm,
          doubt, clicks>>

Settings == [config : Configs, enabled : BOOLEAN]
DefaultWebhook == [url |-> Nil, header |-> Nil]

\* The rows in the order of their ids, which no property is about: of each id
\* the one row there is, or none.
Rows == [r \in RuleIds |-> IF table[r] = Nil THEN <<>> ELSE <<table[r]>>]
NoRules == [r \in RuleIds |-> <<>>]

(***************************************************************************)
(* Requests.  A change names the row it is for, once that is known.        *)
(***************************************************************************)
Ask(kind, target, input, sure) ==
    [kind |-> kind, target |-> target, input |-> input, stage |-> "sent",
     rules |-> Nil, webhook |-> Nil, sure |-> sure, current |-> kind # "none"]
Free == Ask("none", Nil, Nil, {})
SaveKinds == {"create", "save"}
PatchKinds == {"save", "toggle"}
ChangeKinds == {"create", "save", "toggle", "delete", "webhook"}
Idle == {q \in Requests : requests[q].kind = "none"}
Slot == CHOOSE q \in Idle : TRUE
Is(q, kinds, stage) == requests[q].kind \in kinds /\ requests[q].stage = stage
Without(q) == [requests EXCEPT ![q] = Free]
Changing(k) ==
    \E q \in Requests : requests[q].kind \in ChangeKinds /\ requests[q].target = k

\* A change of row k, or of a row yet to be made, is sent.
Send(kind, k, input) ==
    /\ Idle # {}
    /\ requests' = [requests EXCEPT ![Slot] = Ask(kind, k, input, {})]
    /\ doubt' = doubt \cup {j \in Keys : j = k /\ Changing(j)}

Spend == clicks < MaxClicks /\ clicks' = clicks + 1
Backstage == UNCHANGED <<mounted, loading, rules, form, deleting, hookForm, clicks>>

(***************************************************************************)
(* Loading.                                                                *)
(***************************************************************************)
\* What the answer will be right about.  A row still to be made may get into it
\* and come a second time.
Undisturbed ==
    {k \in Keys : /\ ~Changing(k)
                  /\ k > lastId => \A q \in Requests : requests[q].kind # "create"}

BeginLoad ==
    /\ Idle # {}
    /\ requests' = [requests EXCEPT ![Slot] = Ask("load", Nil, Nil, Undisturbed)]
    /\ loading' = TRUE

Blank ==
    /\ rules' = NoRules /\ editing' = Nil /\ savingRule' = FALSE /\ deleting' = Nil
    /\ webhook' = DefaultWebhook /\ savingWebhook' = FALSE

Init ==
    /\ lastId \in 0..1
    /\ \E c \in Configs :
         table = [r \in RuleIds |-> IF r <= lastId THEN [config |-> c, enabled |-> TRUE]
                                    ELSE Nil]
    /\ stored \in {Nil} \cup [url : Urls, header : Secrets]
    /\ requests = [q \in Requests |-> Free]
    /\ mounted = FALSE /\ loading = TRUE
    /\ rules = NoRules /\ editing = Nil /\ savingRule = FALSE /\ deleting = Nil
    /\ webhook = DefaultWebhook /\ savingWebhook = FALSE
    /\ doubt = Keys /\ clicks = 0

Mount ==
    /\ Spend /\ ~mounted
    /\ mounted' = TRUE /\ Blank /\ BeginLoad
    /\ doubt' = Keys
    /\ UNCHANGED backend

\* What is under way is answered to nobody.
Leave ==
    /\ Spend /\ mounted
    /\ mounted' = FALSE /\ loading' = TRUE /\ Blank
    /\ requests' = [q \in Requests |-> IF requests[q].kind = "load" THEN Free
                                       ELSE [requests[q] EXCEPT !.current = FALSE]]
    /\ UNCHANGED <<backend, doubt>>

Shown == mounted /\ ~loading

Refresh ==
    /\ Spend /\ Shown /\ BeginLoad
    /\ UNCHANGED <<backend, mounted, rules, form, deleting, hookForm, doubt>>

maskWebhookHeaders(w) ==
    IF w = Nil THEN DefaultWebhook
    ELSE [w EXCEPT !.header = IF @ = Nil THEN Nil ELSE Mask]

ListRules(q) ==
    /\ Is(q, {"load"}, "sent") /\ requests[q].rules = Nil
    /\ requests' = [requests EXCEPT ![q].rules = Rows]
    /\ UNCHANGED <<backend, doubt>> /\ Backstage

GetWebhook(q) ==
    /\ Is(q, {"load"}, "sent") /\ requests[q].webhook = Nil
    /\ requests' = [requests EXCEPT ![q].webhook = maskWebhookHeaders(stored)]
    /\ UNCHANGED <<backend, doubt>> /\ Backstage

LoadArrives(q) ==
    /\ Is(q, {"load"}, "sent") /\ requests[q].rules # Nil /\ requests[q].webhook # Nil
    /\ loading' = FALSE
    /\ rules' = requests[q].rules /\ webhook' = requests[q].webhook
    /\ doubt' = Keys \ requests[q].sure
    /\ requests' = Without(q)
    /\ UNCHANGED <<backend, mounted, form, deleting, savingWebhook, clicks>>

(***************************************************************************)
(* The rules: what the user asks for.                                      *)
(***************************************************************************)
\* AlertRuleForm: a new rule, or all the settings of the one being edited.
SubmitRule(settings) ==
    /\ Spend /\ Shown /\ ~savingRule
    /\ IF editing = Nil THEN Send("create", Nil, settings)
                        ELSE Send("save", editing, settings)
    /\ savingRule' = TRUE
    /\ UNCHANGED <<backend, mounted, loading, rules, editing, deleting, hookForm>>

Listed ==
    {row \in [id : RuleIds, settings : Settings] :
        Shown /\ \E i \in DOMAIN rules[row.id] : rules[row.id][i] = row.settings}

\* The switch of a row is never disabled.
toggleRule(row) ==
    /\ Spend
    /\ Send("toggle", row.id, [config |-> Nil, enabled |-> ~row.settings.enabled])
    /\ UNCHANGED <<backend, mounted, loading, rules, form, deleting, hookForm>>

Edit(row) ==
    /\ Spend /\ editing' = row.id
    /\ UNCHANGED <<backend, requests, mounted, loading, rules, savingRule, deleting,
                   hookForm, doubt>>

CancelEdit ==
    /\ Spend /\ Shown /\ editing # Nil /\ ~savingRule
    /\ editing' = Nil
    /\ UNCHANGED <<backend, requests, mounted, loading, rules, savingRule, deleting,
                   hookForm, doubt>>

AskDelete(row) ==
    /\ Spend /\ deleting' = row.id
    /\ UNCHANGED <<backend, requests, mounted, loading, rules, form, hookForm, doubt>>

CancelDelete(row) ==
    /\ Spend /\ deleting = row.id /\ deleting' = Nil
    /\ UNCHANGED <<backend, requests, mounted, loading, rules, form, hookForm, doubt>>

\* deleteRule remembers the rule that was being edited when it was called.
ConfirmDelete(row) ==
    /\ Spend /\ deleting = row.id
    /\ Send("delete", row.id, editing)
    /\ UNCHANGED <<backend, mounted, loading, rules, form, deleting, hookForm>>

(***************************************************************************)
(* The rules: the handlers.                                                *)
(***************************************************************************)
CreateRule(q) ==
    /\ Is(q, {"create"}, "sent") /\ lastId < MaxRules
    /\ lastId' = lastId + 1
    /\ table' = [table EXCEPT ![lastId'] = requests[q].input]
    /\ requests' = [requests EXCEPT ![q].stage = "done", ![q].target = lastId']
    /\ UNCHANGED <<stored, doubt>> /\ Backstage

applyRuleUpdate(current, update) ==
    [update EXCEPT !.config = IF @ = Nil THEN current.config ELSE @]

\* UpdateRule reads the row, and writes all of its columns some time later.
ReadRule(q) ==
    /\ Is(q, PatchKinds, "sent") /\ table[requests[q].target] # Nil
    /\ requests' = [requests EXCEPT ![q].stage = "read",
         ![q].input = applyRuleUpdate(table[requests[q].target], @)]
    /\ UNCHANGED <<backend, doubt>> /\ Backstage

UpdateRule(q) ==
    /\ Is(q, PatchKinds, "read") /\ table[requests[q].target] # Nil
    /\ table' = [table EXCEPT ![requests[q].target] = requests[q].input]
    /\ requests' = [requests EXCEPT ![q].stage = "done"]
    /\ UNCHANGED <<lastId, stored, doubt>> /\ Backstage

DeleteRule(q) ==
    /\ Is(q, {"delete"}, "sent") /\ table[requests[q].target] # Nil
    /\ table' = [table EXCEPT ![requests[q].target] = Nil]
    /\ requests' = [requests EXCEPT ![q].stage = "done"]
    /\ UNCHANGED <<lastId, stored, doubt>> /\ Backstage

(***************************************************************************)
(* The rules: the answers.                                                 *)
(***************************************************************************)
Replaced(q) ==
    [rules EXCEPT ![requests[q].target] = [i \in DOMAIN @ |-> requests[q].input]]
Appended(q) ==
    [rules EXCEPT ![requests[q].target] = Append(@, requests[q].input)]

\* Variant: what is being edited when the answer arrives decides.
SaveArrivesLate(q) ==
    /\ Is(q, SaveKinds, "done")
    /\ IF requests[q].current
       THEN /\ rules' = IF editing # Nil THEN Replaced(q) ELSE Appended(q)
            /\ editing' = Nil /\ savingRule' = FALSE
       ELSE UNCHANGED <<rules, form>>
    /\ requests' = Without(q)
    /\ UNCHANGED <<backend, mounted, loading, deleting, hookForm, doubt, clicks>>

SaveArrives(q) ==
    /\ Is(q, SaveKinds, "done")
    /\ IF requests[q].current
       THEN /\ rules' = IF requests[q].kind = "save" THEN Replaced(q)
                                                    ELSE Appended(q)
            /\ editing' = Nil /\ savingRule' = FALSE
       ELSE UNCHANGED <<rules, form>>
    /\ requests' = Without(q)
    /\ UNCHANGED <<backend, mounted, loading, deleting, hookForm, doubt, clicks>>

ToggleArrives(q) ==
    /\ Is(q, {"toggle"}, "done")
    /\ rules' = IF requests[q].current THEN Replaced(q) ELSE rules
    /\ requests' = Without(q)
    /\ UNCHANGED <<backend, mounted, loading, form, deleting, hookForm, doubt, clicks>>

DeleteArrives(q) ==
    /\ Is(q, {"delete"}, "done")
    /\ LET r == requests[q].target IN
       IF requests[q].current
       THEN /\ rules' = [rules EXCEPT ![r] = <<>>]
            /\ deleting' = Nil
            /\ editing' = IF requests[q].input = r THEN Nil ELSE editing
       ELSE UNCHANGED <<rules, deleting, editing>>
    /\ requests' = Without(q)
    /\ UNCHANGED <<backend, mounted, loading, savingRule, hookForm, doubt, clicks>>

(***************************************************************************)
(* The webhook.  A header shows its mask until the user types another.     *)
(***************************************************************************)
SubmitWebhook(url, header) ==
    /\ Spend /\ Shown /\ ~savingWebhook
    /\ header = Mask => webhook.header = Mask
    /\ Send("webhook", Hook, [url |-> url, header |-> header])
    /\ savingWebhook' = TRUE
    /\ UNCHANGED <<backend, mounted, loading, rules, form, deleting, webhook>>

\* Variant: the mask is taken for a value.
restoreNothing(input, current) == input

restoreMaskedHeaders(input, current) ==
    IF input.header = Mask /\ current # Nil /\ current.header # Nil
    THEN [input EXCEPT !.header = current.header] ELSE input

ReadWebhook(q) ==
    /\ Is(q, {"webhook"}, "sent")
    /\ requests' = [requests EXCEPT ![q].stage = "read",
         ![q].webhook = restoreMaskedHeaders(requests[q].input, stored)]
    /\ UNCHANGED <<backend, doubt>> /\ Backstage

PutWebhook(q) ==
    /\ Is(q, {"webhook"}, "read")
    /\ stored' = requests[q].webhook
    /\ requests' = [requests EXCEPT ![q].stage = "done"]
    /\ UNCHANGED <<table, lastId, doubt>> /\ Backstage

WebhookArrives(q) ==
    /\ Is(q, {"webhook"}, "done")
    /\ IF requests[q].current
       THEN webhook' = maskWebhookHeaders(requests[q].webhook) /\ savingWebhook' = FALSE
       ELSE UNCHANGED hookForm
    /\ requests' = Without(q)
    /\ UNCHANGED <<backend, mounted, loading, rules, form, deleting, doubt, clicks>>

(***************************************************************************)
(* Failures: the handler refuses, or the connection breaks before or after *)
(* the row was written; what was not written then never is.                *)
(***************************************************************************)
\* Variant: only an answer ends the wait.
FailsQuietly(q) ==
    /\ requests[q].kind # "none"
    /\ doubt' = IF requests[q].stage = "done" THEN doubt \cup {requests[q].target}
                                              ELSE doubt
    /\ requests' = Without(q)
    /\ UNCHANGED <<backend, mounted, loading, rules, form, deleting, hookForm, clicks>>

Fails(q) ==
    /\ requests[q].kind # "none"
    /\ LET Mine(kinds) == requests[q].current /\ requests[q].kind \in kinds IN
       /\ loading' = (loading /\ ~Mine({"load"}))
       /\ savingRule' = (savingRule /\ ~Mine(SaveKinds))
       /\ savingWebhook' = (savingWebhook /\ ~Mine({"webhook"}))
    /\ doubt' = IF requests[q].stage = "done" THEN doubt \cup {requests[q].target}
                                              ELSE doubt
    /\ requests' = Without(q)
    /\ UNCHANGED <<backend, mounted, rules, editing, deleting, webhook, clicks>>

User ==
    \/ Mount \/ Leave \/ Refresh \/ CancelEdit
    \/ \E settings \in Settings : SubmitRule(settings)
    \/ \E row \in Listed : toggleRule(row) \/ Edit(row) \/ AskDelete(row)
                           \/ CancelDelete(row) \/ ConfirmDelete(row)
    \/ \E url \in Urls, header \in Secrets \cup {Mask, Nil} : SubmitWebhook(url, header)
Handles(q) ==
    \/ ListRules(q) \/ GetWebhook(q) \/ CreateRule(q) \/ ReadRule(q) \/ UpdateRule(q)
    \/ DeleteRule(q) \/ ReadWebhook(q) \/ PutWebhook(q)
Answers(q) ==
    \/ LoadArrives(q) \/ SaveArrives(q) \/ ToggleArrives(q) \/ DeleteArrives(q)
    \/ WebhookArrives(q) \/ Fails(q)
Next == User \/ \E q \in Requests : Handles(q) \/ Answers(q)

Spec == Init /\ [][Next]_vars

(***************************************************************************)
(* Properties.                                                             *)
(***************************************************************************)
\* A rule that no change is under way for is on the page once, as it is in the
\* table, or on neither, unless a change of it crossed a load or another change,
\* or was made without an answer, since the page was last loaded
\* (AlertsPage.tsx:64-97).
RulesAgree ==
    Shown => \A r \in RuleIds \ doubt : ~Changing(r) => rules[r] = Rows[r]

\* A webhook that is saved without touching its header keeps the header's value
\* that the page was never told (handler.go:166), under the same proviso.
Untouched(q) == Is(q, {"webhook"}, "read") /\ requests[q].input.header = Mask
SecretKept ==
    [][\A q \in Requests :
         Untouched(q) /\ stored' = requests[q].webhook /\ stored' # stored /\ Hook \notin doubt
           => stored # Nil /\ stored'.header = stored.header]_vars

\* A page that waits has asked, and a page that has asked for something it may
\* ask for only once waits: no failure, refresh or answer to an earlier instance
\* of the page leaves its buttons off or on (AlertsPage.tsx:57-59, 74-76, 103-105).
Asked(kinds) == \E q \in Requests : requests[q].current /\ requests[q].kind \in kinds
WaitsHonest ==
    mounted => /\ loading <=> Asked({"load"})
               /\ savingRule <=> Asked(SaveKinds)
               /\ savingWebhook <=> Asked({"webhook"})
================================================================================
