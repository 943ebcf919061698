---------------------------- MODULE AlertsPageProofs ----------------------------
(***************************************************************************)
(* The page of the alert rules, for every set of rules, requests, settings *)
(* and secrets: when it waits, when it shows what is stored, and what a    *)
(* save that was never told the webhook's header does to it.               *)
(***************************************************************************)
EXTENDS AlertsPage, TLAPS

-------------------------------------------------------------------------------
(* Types.                                                                  *)

Kinds == ChangeKinds \cup {"load", "none"}
Hooks == [url : Urls, header : Secrets \cup {Mask, Nil}]
Partial == [config : Configs \cup {Nil}, enabled : BOOLEAN]
Lists == [RuleIds -> Seq(Settings)]
Ids == 1..lastId

Request ==
    [kind : Kinds, target : Keys \cup {Nil},
     input : {Nil} \cup RuleIds \cup Partial \cup Hooks,
     stage : {"sent", "read", "done"},
     rules : Lists \cup {Nil}, webhook : Hooks \cup {DefaultWebhook, Nil},
     sure : SUBSET Keys, current : BOOLEAN]

TypeOK ==
    /\ lastId \in 0..MaxRules
    /\ table \in [RuleIds -> Settings \cup {Nil}]
    /\ stored \in Hooks \cup {Nil}
    /\ requests \in [Requests -> Request]
    /\ mounted \in BOOLEAN /\ loading \in BOOLEAN
    /\ savingRule \in BOOLEAN /\ savingWebhook \in BOOLEAN
    /\ rules \in Lists
    /\ webhook \in Hooks \cup {DefaultWebhook}
    /\ doubt \subseteq Keys

\* Nothing is named that was not given an id.
Given ==
    /\ editing \in Ids \cup {Nil} /\ deleting \in Ids \cup {Nil}
    /\ \A r \in RuleIds \ Ids : table[r] = Nil /\ rules[r] = <<>>
    /\ \A q \in Requests : requests[q].rules # Nil =>
         \A r \in RuleIds \ Ids : requests[q].rules[r] = <<>>

\* What a request of each kind is, at each stage.
Shaped(q) ==
    LET k == requests[q].kind
        target == requests[q].target
        input == requests[q].input
        stage == requests[q].stage
    IN  /\ k \in {"none", "load"} => target = Nil /\ stage = "sent"
        /\ k = "create" =>
             /\ input \in Settings /\ stage \in {"sent", "done"}
             /\ IF stage = "sent" THEN target = Nil ELSE target \in Ids
        /\ k \in PatchKinds =>
             /\ target \in Ids /\ input \in Partial
             /\ stage # "sent" => input \in Settings
        /\ k = "delete" => target \in Ids /\ stage \in {"sent", "done"}
        /\ k = "webhook" =>
             /\ target = Hook /\ input \in Hooks
             /\ stage # "sent" => requests[q].webhook \in Hooks

Typed == TypeOK /\ Given /\ \A q \in Requests : Shaped(q)

-------------------------------------------------------------------------------
(* Waiting.                                                                *)

\* An instance of the page that is gone has no load, and none of its requests
\* is answered to another.
Current ==
    \A q \in Requests :
        /\ requests[q].kind = "none" => ~requests[q].current
        /\ requests[q].kind = "load" => requests[q].current
        /\ requests[q].current => mounted

Once == {{"load"}, SaveKinds, {"webhook"}}
AskedOnce ==
    \A kinds \in Once : \A p, q \in Requests :
        /\ requests[p].current /\ requests[p].kind \in kinds
        /\ requests[q].current /\ requests[q].kind \in kinds
        => p = q

WaitInv == WaitsHonest /\ Current /\ AskedOnce

-------------------------------------------------------------------------------
(* Doubt.                                                                  *)

Changes(q, k) == requests[q].kind \in ChangeKinds /\ requests[q].target = k
Creates(q) == requests[q].kind = "create"

\* A row beyond doubt is being changed by one request at most, which this
\* instance of the page has sent; so has it sent what may yet make the row.
Certain ==
    \A k \in Keys \ doubt :
        /\ \A p, q \in Requests : Changes(p, k) /\ Changes(q, k) => p = q
        /\ mounted => \A q \in Requests :
             Changes(q, k) \/ (k > lastId /\ Creates(q)) => requests[q].current

\* No change of a row that a load is sure of is under way before it arrives.
SureLoad(q) ==
    requests[q].kind = "load" => \A k \in requests[q].sure :
        /\ ~Changing(k)
        /\ k > lastId => \A p \in Requests : ~Creates(p)
        /\ k \in RuleIds /\ requests[q].rules # Nil => requests[q].rules[k] = Rows[k]
        /\ k = Hook /\ requests[q].webhook # Nil =>
             requests[q].webhook = maskWebhookHeaders(stored)

\* The page shows the row, until the change of it has been made; then the
\* answer brings what the row has become.
RuleInv(r) ==
    mounted /\ r \notin doubt =>
        /\ ~Changing(r) => rules[r] = Rows[r]
        /\ \A q \in Requests : Changes(q, r) =>
             /\ requests[q].stage # "done" => rules[r] = Rows[r]
             /\ Is(q, {"delete"}, "done") => table[r] = Nil
             /\ Is(q, {"create"}, "done") =>
                  rules[r] = <<>> /\ table[r] = requests[q].input
             /\ Is(q, PatchKinds, "done") =>
                  Len(rules[r]) = 1 /\ table[r] = requests[q].input

\* The mask on the page, or in a request, stands for the header stored.
Masked == stored # Nil /\ stored.header # Nil
HookInv ==
    Hook \notin doubt =>
        /\ mounted /\ ~Changing(Hook) => webhook = maskWebhookHeaders(stored)
        /\ \A q \in Requests : requests[q].kind = "webhook" =>
             IF requests[q].stage = "done" THEN requests[q].webhook = stored
             ELSE /\ mounted => webhook = maskWebhookHeaders(stored)
                  /\ requests[q].input.header = Mask => Masked
                  /\ requests[q].stage = "read" => requests[q].webhook =
                       restoreMaskedHeaders(requests[q].input, stored)

AgreementInv ==
    /\ Certain
    /\ \A q \in Requests : SureLoad(q)
    /\ \A r \in RuleIds : RuleInv(r)
    /\ HookInv

-------------------------------------------------------------------------------
(* Types are kept.                                                         *)

LEMMA SlotIdle ==
  ASSUME Idle # {}
  PROVE  Slot \in Requests /\ requests[Slot].kind = "none"
  BY DEF Slot, Idle

LEMMA NilIsNothing ==
  /\ Nil \notin Settings /\ Nil \notin Hooks /\ Nil \notin Lists
  /\ Nil \notin Keys /\ Nil \notin Configs /\ Nil # Mask /\ Nil \notin Secrets
  BY PageAssumption DEF Settings, Hooks, Lists

LEMMA IdsAreKeys ==
  ASSUME TypeOK
  PROVE  /\ Ids \subseteq RuleIds /\ RuleIds \subseteq Keys /\ Hook \in Keys
         /\ Hook \notin RuleIds /\ lastId \in Nat /\ MaxRules \in Nat
         /\ \A k \in Keys : k \in Nat /\ (k > lastId <=> k \notin Ids \cup {Hook})
<1>1. MaxRules \in Nat /\ lastId \in Nat /\ lastId <= MaxRules
  BY PageAssumption DEF TypeOK
<1> QED
  BY <1>1 DEF Ids, RuleIds, Keys, Hook

\* A request in a slot that was free.
Began(slot, rec) ==
    /\ slot \in Requests /\ requests[slot].kind = "none"
    /\ requests' = [requests EXCEPT ![slot] = rec]

LEMMA SendBegins ==
  ASSUME NEW kind, NEW k, NEW input, Send(kind, k, input)
  PROVE  /\ Began(Slot, Ask(kind, k, input, {}))
         /\ doubt' = doubt \cup {j \in Keys : j = k /\ Changing(j)}
  BY SlotIdle, Zenon DEF Send, Began

LEMMA LoadBegins ==
  ASSUME BeginLoad
  PROVE  Began(Slot, Ask("load", Nil, Nil, Undisturbed)) /\ loading' = TRUE
  BY SlotIdle, Zenon DEF BeginLoad, Began

LEMMA BeganTyped ==
  ASSUME NEW slot, NEW rec \in Request, Began(slot, rec), TypeOK
  PROVE  /\ requests' \in [Requests -> Request]
         /\ requests'[slot] = rec
         /\ \A p \in Requests : p # slot => requests'[p] = requests[p]
  BY DEF Began, TypeOK

LEMMA FreeTyped == Free \in Request /\ Free.kind = "none" /\ ~Free.current
<1>1. {} \in SUBSET Keys
  OBVIOUS
<1> QED
  BY <1>1 DEF Free, Ask, Request, Kinds

\* The end of a request.
LEMMA WithoutTyped ==
  ASSUME NEW q \in Requests, TypeOK, requests' = Without(q)
  PROVE  /\ requests' \in [Requests -> Request]
         /\ requests'[q] = Free
         /\ \A p \in Requests : p # q => requests'[p] = requests[p]
  BY FreeTyped DEF Without, TypeOK

LEMMA ShapedKept ==
  ASSUME NEW p \in Requests, Shaped(p), requests'[p] = requests[p], Ids \subseteq Ids'
  PROVE  Shaped(p)'
  BY DEF Shaped

LEMMA ShapedFree ==
  ASSUME NEW p \in Requests, requests'[p] = Free
  PROVE  Shaped(p)'
  BY DEF Shaped, Free, Ask, PatchKinds

\* The steps of the page that begin no request.
LEMMA SettingTyped ==
  ASSUME Typed, UNCHANGED <<backend, requests, mounted, loading, rules, savingRule,
                            hookForm, doubt>>,
         editing' \in Ids \cup {Nil}, deleting' \in Ids \cup {Nil}
  PROVE  Typed'
<1> USE DEF Typed, backend, hookForm
<1>1. TypeOK'
  BY DEF TypeOK
<1>2. Given'
  BY DEF Given, Ids
<1>3. \A q \in Requests : Shaped(q)'
  BY DEF Shaped, Ids
<1> QED
  BY <1>1, <1>2, <1>3

\* The steps that begin a change.
LEMMA SendTyped ==
  ASSUME Typed, NEW kind \in ChangeKinds, NEW k, NEW input, Send(kind, k, input),
         UNCHANGED <<backend, mounted, loading, rules, editing, deleting, webhook>>,
         savingRule' \in BOOLEAN, savingWebhook' \in BOOLEAN,
         kind = "create" => k = Nil /\ input \in Settings,
         kind \in PatchKinds => k \in Ids /\ input \in Partial,
         kind = "delete" => k \in Ids /\ input \in Ids \cup {Nil},
         kind = "webhook" => k = Hook /\ input \in Hooks
  PROVE  Typed'
<1> DEFINE rec == Ask(kind, k, input, {})
<1> USE DEF Typed, backend
<1>1. PICK slot \in Requests : Began(slot, rec) /\ doubt' \subseteq Keys
  BY SendBegins DEF TypeOK, Began
<1>2. /\ k \in Keys \cup {Nil}
      /\ input \in {Nil} \cup RuleIds \cup Partial \cup Hooks
  <2>1. Settings \subseteq Partial /\ Ids \subseteq RuleIds /\ Ids \subseteq Keys /\ Hook \in Keys
    BY IdsAreKeys DEF Settings, Partial
  <2>2. kind = "create" \/ kind \in PatchKinds \/ kind = "delete" \/ kind = "webhook"
    BY DEF ChangeKinds, PatchKinds
  <2> QED
    BY <2>1, <2>2
<1>3. rec \in Request
  BY <1>2 DEF Ask, Request, Kinds, ChangeKinds
<1> HIDE DEF rec
<1>4. /\ requests' \in [Requests -> Request] /\ slot \in Requests
      /\ requests'[slot] = rec
      /\ \A p \in Requests : p # slot => requests'[p] = requests[p]
  BY <1>1, <1>3, BeganTyped DEF Began
<1>5. Shaped(slot)'
  <2>1. Ids' = Ids
    BY DEF Ids
  <2>2. /\ rec.kind = kind /\ rec.target = k /\ rec.input = input
        /\ rec.stage = "sent"
    BY DEF rec, Ask
  <2>3. /\ kind \notin {"none", "load"}
        /\ kind = "create" => kind \notin PatchKinds
        /\ kind \in PatchKinds => kind \notin {"create", "delete", "webhook"}
    BY DEF ChangeKinds, PatchKinds
  <2> QED
    BY <1>4, <2>1, <2>2, <2>3 DEF Shaped
<1>6. ASSUME NEW p \in Requests PROVE Shaped(p)'
  <2>1. Ids \subseteq Ids'
    BY DEF Ids
  <2>2. CASE p = slot
    BY <1>5, <2>2
  <2>3. CASE p # slot
    BY <1>4, <2>1, <2>3, ShapedKept
  <2> QED
    BY <2>2, <2>3
<1>7. TypeOK'
  BY <1>1, <1>4 DEF TypeOK
<1>8. Given'
  BY <1>4 DEF Given, Ids, rec, Ask
<1> QED
  BY <1>6, <1>7, <1>8

\* The steps that end a request.
LEMMA EndTyped ==
  ASSUME Typed, NEW q \in Requests, requests' = Without(q), UNCHANGED <<backend, mounted>>,
         loading' \in BOOLEAN, savingRule' \in BOOLEAN, savingWebhook' \in BOOLEAN,
         rules' \in Lists, \A r \in RuleIds \ Ids : rules'[r] = <<>>,
         editing' \in Ids \cup {Nil}, deleting' \in Ids \cup {Nil},
         webhook' \in Hooks \cup {DefaultWebhook}, doubt' \subseteq Keys
  PROVE  Typed'
<1> USE DEF Typed, backend
<1>1. /\ requests' \in [Requests -> Request]
      /\ requests'[q] = Free
      /\ \A p \in Requests : p # q => requests'[p] = requests[p]
  BY WithoutTyped
<1>2. Ids' = Ids
  BY DEF Ids
<1>3. \A p \in Requests : Shaped(p)'
  BY <1>1, <1>2, ShapedKept, ShapedFree
<1>4. TypeOK'
  BY <1>1 DEF TypeOK
<1>5. Given'
  BY <1>1, <1>2 DEF Given, Free, Ask
<1> QED
  BY <1>3, <1>4, <1>5

\* The steps of a handler.
LEMMA HandlerTyped ==
  ASSUME Typed, NEW q \in Requests, NEW rec \in Request,
         requests' = [requests EXCEPT ![q] = rec], Backstage, UNCHANGED doubt,
         lastId' \in lastId .. MaxRules,
         table' \in [RuleIds -> Settings \cup {Nil}],
         \A r \in RuleIds : r > lastId' => table'[r] = Nil,
         stored' \in Hooks \cup {Nil},
         rec.rules # Nil => \A r \in RuleIds \ Ids : rec.rules[r] = <<>>,
         Shaped(q)'
  PROVE  Typed'
<1> USE DEF Typed, Backstage, form, hookForm
<1>1. /\ requests' \in [Requests -> Request]
      /\ requests'[q] = rec
      /\ \A p \in Requests : p # q => requests'[p] = requests[p]
  BY DEF TypeOK
<1>2. /\ lastId \in Nat /\ MaxRules \in Nat /\ lastId' \in 0..MaxRules
      /\ Ids \subseteq Ids' /\ \A r \in RuleIds \ Ids' : r > lastId'
  BY PageAssumption DEF TypeOK, Ids, RuleIds
<1>3. \A p \in Requests : Shaped(p)'
  BY <1>1, <1>2, ShapedKept
<1>4. TypeOK'
  BY <1>1, <1>2 DEF TypeOK
<1>5. Given'
  BY <1>1, <1>2 DEF Given
<1> QED
  BY <1>3, <1>4, <1>5

\* The steps that begin a load.
LEMMA LoadTyped ==
  ASSUME Typed, BeginLoad, UNCHANGED backend,
         mounted' \in BOOLEAN, savingRule' \in BOOLEAN, savingWebhook' \in BOOLEAN,
         rules' \in Lists, \A r \in RuleIds \ Ids : rules'[r] = <<>>,
         editing' \in Ids \cup {Nil}, deleting' \in Ids \cup {Nil},
         webhook' \in Hooks \cup {DefaultWebhook}, doubt' \subseteq Keys
  PROVE  Typed'
<1> USE DEF Typed, backend
<1>1. PICK rec \in Request : rec = Ask("load", Nil, Nil, Undisturbed)
  <2>1. Undisturbed \in SUBSET Keys
    BY Zenon DEF Undisturbed
  <2> HIDE DEF Typed
  <2>2. Ask("load", Nil, Nil, Undisturbed) \in Request
    BY <2>1 DEF Ask, Request, Kinds
  <2> QED
    BY <2>2
<1>2. PICK slot \in Requests : Began(slot, rec) /\ loading' = TRUE
  BY <1>1, LoadBegins DEF Began
<1>3. /\ requests' \in [Requests -> Request]
      /\ requests'[slot] = rec
      /\ \A p \in Requests : p # slot => requests'[p] = requests[p]
  BY <1>2, BeganTyped
<1>4. Ids' = Ids
  BY DEF Ids
<1>5. /\ rec.kind = "load" /\ rec.target = Nil /\ rec.stage = "sent" /\ rec.rules = Nil
  BY <1>1 DEF Ask
<1>6. Shaped(slot)'
  BY <1>3, <1>5 DEF Shaped, PatchKinds
<1>7. \A p \in Requests : Shaped(p)'
  BY <1>3, <1>4, <1>6, ShapedKept
<1>8. TypeOK'
  BY <1>2, <1>3 DEF TypeOK
<1>9. Given'
  BY <1>3, <1>4, <1>5 DEF Given
<1> QED
  BY <1>7, <1>8, <1>9

LEMMA ListedGiven ==
  ASSUME Typed, NEW row \in Listed
  PROVE  row.id \in Ids /\ row.settings \in Settings /\ row.settings.enabled \in BOOLEAN
         /\ Shown
<1>1. /\ row.id \in RuleIds /\ row.settings \in Settings /\ Shown
      /\ \E i \in DOMAIN rules[row.id] : TRUE
  BY DEF Listed
<1>2. rules[row.id] # <<>>
  BY <1>1
<1> QED
  BY <1>1, <1>2 DEF Typed, Given, Settings

LEMMA ListsTyped ==
  ASSUME NEW list \in Lists, NEW r \in RuleIds, NEW s \in Settings
  PROVE  /\ [list EXCEPT ![r] = Append(@, s)] \in Lists
         /\ [list EXCEPT ![r] = [i \in DOMAIN @ |-> s]] \in Lists
         /\ [list EXCEPT ![r] = <<>>] \in Lists
<1>1. list[r] \in Seq(Settings)
  BY DEF Lists
<1>2. /\ Append(list[r], s) \in Seq(Settings)
      /\ <<>> \in Seq(Settings)
  BY <1>1
<1>3. [i \in DOMAIN list[r] |-> s] \in Seq(Settings)
  <2>1. DOMAIN list[r] = 1..Len(list[r]) /\ Len(list[r]) \in Nat
    BY <1>1
  <2> QED
    BY <2>1
<1> QED
  BY <1>2, <1>3, Zenon DEF Lists

LEMMA TypedInit == Init => Typed
<1> SUFFICES ASSUME Init PROVE Typed
  OBVIOUS
<1> USE DEF Init
<1>1. /\ MaxRules \in Nat \ {0} /\ lastId \in 0..MaxRules
  BY PageAssumption
<1>2. table \in [RuleIds -> Settings \cup {Nil}] /\ \A r \in RuleIds \ Ids : table[r] = Nil
  <2>1. PICK c \in Configs :
          table = [r \in RuleIds |-> IF r <= lastId THEN [config |-> c, enabled |-> TRUE]
                                     ELSE Nil]
    OBVIOUS
  <2>2. [config |-> c, enabled |-> TRUE] \in Settings
    BY DEF Settings
  <2> HIDE DEF Init
  <2>3. table \in [RuleIds -> Settings \cup {Nil}]
    BY <2>1, <2>2
  <2>4. ASSUME NEW r \in RuleIds \ Ids PROVE table[r] = Nil
    <3>1. ~(r <= lastId)
      BY <1>1 DEF RuleIds, Ids
    <3> QED
      BY <2>1, <3>1
  <2> QED
    BY <2>3, <2>4
<1>3. stored \in Hooks \cup {Nil}
  BY DEF Hooks
<1>4. rules \in Lists /\ \A r \in RuleIds : rules[r] = <<>>
  BY DEF NoRules, Lists
<1>5. requests \in [Requests -> Request] /\ \A q \in Requests : requests[q] = Free
  BY FreeTyped
<1>6. TypeOK
  BY <1>1, <1>2, <1>3, <1>4, <1>5 DEF TypeOK
<1>7. Given
  BY <1>2, <1>4, <1>5 DEF Given, Free, Ask
<1>8. \A q \in Requests : Shaped(q)
  BY <1>5 DEF Shaped, Free, Ask, PatchKinds
<1> QED
  BY <1>6, <1>7, <1>8 DEF Typed

-------------------------------------------------------------------------------
(* Types are kept by every step.                                           *)

LEMMA PageTyped ==
  ASSUME Typed, Mount \/ Leave \/ Refresh \/ CancelEdit
  PROVE  Typed'
<1>0. TypeOK /\ Given /\ \A q \in Requests : Shaped(q)
  BY DEF Typed
<1>1. /\ NoRules \in Lists /\ \A r \in RuleIds \ Ids : NoRules[r] = <<>>
  BY DEF NoRules, Lists
<1>2. CASE Mount
  <2>1. /\ BeginLoad /\ UNCHANGED backend /\ mounted' = TRUE /\ doubt' = Keys
        /\ rules' = NoRules /\ editing' = Nil /\ savingRule' = FALSE /\ deleting' = Nil
        /\ webhook' = DefaultWebhook /\ savingWebhook' = FALSE
    BY <1>2 DEF Mount, Blank
  <2> QED
    BY <1>1, <2>1, LoadTyped
<1>3. CASE Refresh
  <2>1. BeginLoad /\ UNCHANGED <<backend, mounted, rules, form, deleting, hookForm, doubt>>
    BY <1>3 DEF Refresh
  <2> QED
    BY <1>0, <2>1, LoadTyped DEF TypeOK, Given, form, hookForm
<1>4. CASE CancelEdit
  BY <1>0, <1>4, SettingTyped DEF CancelEdit, Given
<1>5. CASE Leave
  <2>1. /\ mounted' = FALSE /\ loading' = TRUE /\ UNCHANGED <<backend, doubt>>
        /\ rules' = NoRules /\ editing' = Nil /\ savingRule' = FALSE /\ deleting' = Nil
        /\ webhook' = DefaultWebhook /\ savingWebhook' = FALSE
    BY <1>5 DEF Leave, Blank
  <2>2. requests' = [q \in Requests |-> IF requests[q].kind = "load" THEN Free
                                        ELSE [requests[q] EXCEPT !.current = FALSE]]
    BY <1>5 DEF Leave
  <2>3. ASSUME NEW q \in Requests
        PROVE  /\ requests'[q] \in Request /\ Shaped(q)'
               /\ requests'[q].rules # Nil => requests'[q].rules = requests[q].rules
    <3>1. requests[q] \in Request
      BY <1>0 DEF TypeOK
    <3>2. CASE requests[q].kind = "load"
      <4>1. requests'[q] = Free
        BY <2>2, <3>2
      <4> QED
        BY <4>1, FreeTyped, ShapedFree DEF Free, Ask
    <3>3. CASE requests[q].kind # "load"
      <4>1. requests'[q] = [requests[q] EXCEPT !.current = FALSE]
        BY <2>2, <3>3
      <4>2. requests'[q] \in Request
        BY <3>1, <4>1 DEF Request
      <4>3. /\ requests'[q].kind = requests[q].kind
            /\ requests'[q].target = requests[q].target
            /\ requests'[q].input = requests[q].input
            /\ requests'[q].stage = requests[q].stage
            /\ requests'[q].rules = requests[q].rules
            /\ requests'[q].webhook = requests[q].webhook
        BY <3>1, <4>1 DEF Request
      <4>4. Ids' = Ids
        BY <2>1 DEF backend, Ids
      <4>5. Shaped(q)'
        BY <1>0, <4>3, <4>4 DEF Shaped
      <4> QED
        BY <4>2, <4>3, <4>5
    <3> QED
      BY <3>2, <3>3
  <2>4. requests' \in [Requests -> Request]
    BY <2>2, <2>3
  <2>5. TypeOK'
    BY <1>0, <1>1, <2>1, <2>4 DEF TypeOK, backend
  <2>6. Given'
    BY <1>0, <1>1, <2>1, <2>3 DEF Given, backend, Ids
  <2> QED
    BY <2>3, <2>5, <2>6 DEF Typed
<1> QED
  BY <1>2, <1>3, <1>4, <1>5

LEMMA RowsTyped ==
  ASSUME Typed, NEW row \in Listed,
         toggleRule(row) \/ Edit(row) \/ AskDelete(row) \/ CancelDelete(row)
                         \/ ConfirmDelete(row)
  PROVE  Typed'
<1>0. TypeOK /\ Given
  BY DEF Typed
<1>1. row.id \in Ids /\ row.settings \in Settings /\ row.settings.enabled \in BOOLEAN
  BY ListedGiven
<1>2. CASE toggleRule(row)
  <2> DEFINE update == [config |-> Nil, enabled |-> ~row.settings.enabled]
  <2>1. /\ Send("toggle", row.id, update)
        /\ UNCHANGED <<backend, mounted, loading, rules, form, deleting, hookForm>>
    BY <1>2 DEF toggleRule
  <2>2. update \in Partial
    BY <1>1 DEF Partial
  <2> HIDE DEF update
  <2>3. "toggle" \in ChangeKinds /\ "toggle" \in PatchKinds
    BY DEF ChangeKinds, PatchKinds
  <2> QED
    BY <1>0, <1>1, <2>1, <2>2, <2>3, SendTyped DEF form, hookForm, TypeOK
<1>3. CASE Edit(row)
  BY <1>0, <1>1, <1>3, SettingTyped DEF Edit, Given
<1>4. CASE AskDelete(row)
  BY <1>0, <1>1, <1>4, SettingTyped DEF AskDelete, Given, form
<1>5. CASE CancelDelete(row)
  BY <1>0, <1>1, <1>5, SettingTyped DEF CancelDelete, Given, form
<1>6. CASE ConfirmDelete(row)
  <2>1. /\ Send("delete", row.id, editing)
        /\ UNCHANGED <<backend, mounted, loading, rules, form, deleting, hookForm>>
    BY <1>6 DEF ConfirmDelete
  <2>2. "delete" \in ChangeKinds /\ "delete" \notin PatchKinds
    BY DEF ChangeKinds, PatchKinds
  <2>3. editing \in Ids \cup {Nil}
    BY <1>0 DEF Given
  <2> QED
    BY <1>0, <1>1, <2>1, <2>2, <2>3, SendTyped DEF form, hookForm, TypeOK
<1> QED
  BY <1>2, <1>3, <1>4, <1>5, <1>6

LEMMA SubmitsTyped ==
  ASSUME Typed,
         \/ \E settings \in Settings : SubmitRule(settings)
         \/ \E url \in Urls, header \in Secrets \cup {Mask, Nil} : SubmitWebhook(url, header)
  PROVE  Typed'
<1>0. TypeOK /\ Given
  BY DEF Typed
<1>1. /\ {"create", "save", "webhook"} \subseteq ChangeKinds /\ "save" \in PatchKinds
      /\ "create" \notin PatchKinds /\ "webhook" \notin PatchKinds
  BY DEF ChangeKinds, PatchKinds
<1>2. ASSUME NEW settings \in Settings, SubmitRule(settings) PROVE Typed'
  <2>1. /\ savingRule' = TRUE
        /\ UNCHANGED <<backend, mounted, loading, rules, editing, deleting, hookForm>>
    BY <1>2 DEF SubmitRule
  <2>2. settings \in Partial
    BY DEF Settings, Partial
  <2>3. CASE editing = Nil
    <3>1. Send("create", Nil, settings)
      BY <1>2, <2>3 DEF SubmitRule
    <3> QED
      BY <1>0, <1>1, <2>1, <3>1, SendTyped DEF hookForm, TypeOK
  <2>4. CASE editing # Nil
    <3>1. Send("save", editing, settings) /\ editing \in Ids
      BY <1>0, <1>2, <2>4 DEF SubmitRule, Given
    <3> QED
      BY <1>0, <1>1, <2>1, <2>2, <3>1, SendTyped DEF hookForm, TypeOK
  <2> QED
    BY <2>3, <2>4
<1>3. ASSUME NEW url \in Urls, NEW header \in Secrets \cup {Mask, Nil},
             SubmitWebhook(url, header)
      PROVE  Typed'
  <2> DEFINE input == [url |-> url, header |-> header]
  <2>1. /\ Send("webhook", Hook, input) /\ savingWebhook' = TRUE
        /\ UNCHANGED <<backend, mounted, loading, rules, form, deleting, webhook>>
    BY <1>3 DEF SubmitWebhook
  <2>2. input \in Hooks
    BY DEF Hooks
  <2> HIDE DEF input
  <2> QED
    BY <1>0, <1>1, <2>1, <2>2, SendTyped DEF form, TypeOK
<1> QED
  BY <1>2, <1>3

\* A handler changes nothing of its request but what it says.
LEMMA FieldsTyped ==
  ASSUME NEW rec \in Request, NEW stage \in {"sent", "read", "done"},
         NEW target \in Keys \cup {Nil},
         NEW input \in {Nil} \cup RuleIds \cup Partial \cup Hooks,
         NEW list \in Lists \cup {Nil}, NEW hook \in Hooks \cup {DefaultWebhook, Nil}
  PROVE  /\ [rec EXCEPT !.rules = list] \in Request
         /\ [rec EXCEPT !.webhook = hook] \in Request
         /\ [rec EXCEPT !.stage = stage] \in Request
         /\ [rec EXCEPT !.stage = stage, !.target = target] \in Request
         /\ [rec EXCEPT !.stage = stage, !.input = input] \in Request
         /\ [rec EXCEPT !.stage = stage, !.webhook = hook] \in Request
<1>1. [rec EXCEPT !.rules = list] \in Request
  BY DEF Request
<1>2. [rec EXCEPT !.webhook = hook] \in Request
  BY DEF Request
<1>3. [rec EXCEPT !.stage = stage] \in Request
  BY DEF Request
<1>4. [rec EXCEPT !.stage = stage, !.target = target] \in Request
  BY DEF Request
<1>5. [rec EXCEPT !.stage = stage, !.input = input] \in Request
  BY DEF Request
<1>6. [rec EXCEPT !.stage = stage, !.webhook = hook] \in Request
  BY DEF Request
<1> QED
  BY <1>1, <1>2, <1>3, <1>4, <1>5, <1>6

LEMMA MaskTyped ==
  ASSUME NEW w \in Hooks \cup {DefaultWebhook, Nil}
  PROVE  maskWebhookHeaders(w) \in Hooks \cup {DefaultWebhook}
<1>1. CASE w = Nil
  BY <1>1 DEF maskWebhookHeaders
<1>2. CASE w = DefaultWebhook /\ w # Nil
  BY <1>2 DEF maskWebhookHeaders, DefaultWebhook
<1>3. CASE w \in Hooks
  BY <1>3, NilIsNothing DEF maskWebhookHeaders, Hooks
<1> QED
  BY <1>1, <1>2, <1>3

LEMMA RestoreTyped ==
  ASSUME NEW input \in Hooks, NEW w \in Hooks \cup {Nil}
  PROVE  restoreMaskedHeaders(input, w) \in Hooks
<1>1. CASE input.header = Mask /\ w # Nil /\ w.header # Nil
  BY <1>1 DEF restoreMaskedHeaders, Hooks
<1>2. CASE ~(input.header = Mask /\ w # Nil /\ w.header # Nil)
  BY <1>2 DEF restoreMaskedHeaders
<1> QED
  BY <1>1, <1>2

LEMMA UpdateTyped ==
  ASSUME NEW current \in Settings, NEW update \in Partial
  PROVE  applyRuleUpdate(current, update) \in Settings
  BY DEF applyRuleUpdate, Settings, Partial

LEMMA ListingTyped ==
  ASSUME Typed, NEW q \in Requests, ListRules(q) \/ GetWebhook(q)
  PROVE  Typed'
<1>0. TypeOK /\ Given /\ Shaped(q) /\ requests[q] \in Request
  BY DEF Typed, TypeOK
<1>1. lastId \in Nat /\ MaxRules \in Nat /\ lastId \in lastId..MaxRules
      /\ \A r \in RuleIds : r > lastId => table[r] = Nil
  <2>1. MaxRules \in Nat /\ lastId \in 0..MaxRules
    BY <1>0, PageAssumption DEF TypeOK
  <2>2. \A r \in RuleIds : r > lastId => r \in RuleIds \ Ids
    BY <2>1 DEF RuleIds, Ids
  <2> QED
    BY <1>0, <2>1, <2>2 DEF Given
<1>2. CASE ListRules(q)
  <2>1. /\ requests' = [requests EXCEPT ![q] = [requests[q] EXCEPT !.rules = Rows]]
        /\ requests[q].kind = "load" /\ requests[q].stage = "sent"
        /\ UNCHANGED <<backend, doubt>> /\ Backstage
    BY <1>2 DEF ListRules, Is
  <2>2. Rows \in Lists
    BY <1>0 DEF Rows, Lists, TypeOK
  <2>3. \A r \in RuleIds \ Ids : Rows[r] = <<>>
    BY <1>0 DEF Rows, Given
  <2>4. PICK rec \in Request : rec = [requests[q] EXCEPT !.rules = Rows]
    BY <1>0, <2>2, FieldsTyped
  <2>5. /\ rec.kind = "load" /\ rec.target = requests[q].target
        /\ rec.stage = "sent" /\ rec.rules = Rows
    BY <1>0, <2>1, <2>4 DEF Request
  <2>6. requests'[q] = rec
    BY <1>0, <2>1, <2>4 DEF TypeOK
  <2>7. Shaped(q)'
    BY <1>0, <2>1, <2>5, <2>6 DEF Shaped, PatchKinds
  <2> QED
    BY <1>0, <1>1, <2>1, <2>3, <2>4, <2>5, <2>7, HandlerTyped DEF TypeOK, backend
<1>3. CASE GetWebhook(q)
  <2>1. /\ requests' = [requests EXCEPT ![q] =
                          [requests[q] EXCEPT !.webhook = maskWebhookHeaders(stored)]]
        /\ requests[q].kind = "load" /\ requests[q].stage = "sent"
        /\ UNCHANGED <<backend, doubt>> /\ Backstage
    BY <1>3 DEF GetWebhook, Is
  <2>2. maskWebhookHeaders(stored) \in Hooks \cup {DefaultWebhook}
    BY <1>0, MaskTyped DEF TypeOK
  <2>4. PICK rec \in Request : rec = [requests[q] EXCEPT !.webhook = maskWebhookHeaders(stored)]
    BY <1>0, <2>2, FieldsTyped
  <2>5. /\ rec.kind = "load" /\ rec.target = requests[q].target
        /\ rec.stage = "sent" /\ rec.rules = requests[q].rules
    BY <1>0, <2>1, <2>4 DEF Request
  <2>6. requests'[q] = rec
    BY <1>0, <2>1, <2>4 DEF TypeOK
  <2>7. Shaped(q)'
    BY <1>0, <2>1, <2>5, <2>6 DEF Shaped, PatchKinds
  <2>8. rec.rules # Nil => \A r \in RuleIds \ Ids : rec.rules[r] = <<>>
    BY <1>0, <2>5 DEF Given
  <2> QED
    BY <1>0, <1>1, <2>1, <2>4, <2>7, <2>8, HandlerTyped DEF TypeOK, backend
<1> QED
  BY <1>2, <1>3

LEMMA RuleHandlersTyped ==
  ASSUME Typed, NEW q \in Requests,
         CreateRule(q) \/ ReadRule(q) \/ UpdateRule(q) \/ DeleteRule(q)
  PROVE  Typed'
<1>0. TypeOK /\ Given /\ Shaped(q) /\ requests[q] \in Request
  BY DEF Typed, TypeOK
<1>1. MaxRules \in Nat /\ lastId \in Nat /\ lastId <= MaxRules /\ lastId \in lastId..MaxRules
  BY <1>0, PageAssumption DEF TypeOK
<1>2. /\ \A r \in RuleIds : r > lastId => table[r] = Nil
      /\ Ids \subseteq RuleIds /\ RuleIds \subseteq Keys
      /\ \A r \in Ids : ~(r > lastId)
      /\ \A r \in RuleIds \ Ids : r > lastId
  <2>1. \A r \in RuleIds : r > lastId <=> r \notin Ids
    BY <1>1 DEF RuleIds, Ids
  <2> QED
    BY <1>0, <1>1, <2>1, IdsAreKeys DEF Given
<1>3. /\ requests[q].rules # Nil => \A r \in RuleIds \ Ids : requests[q].rules[r] = <<>>
      /\ table \in [RuleIds -> Settings \cup {Nil}]
      /\ stored \in Hooks \cup {Nil}
      /\ requests \in [Requests -> Request]
      /\ Settings \subseteq Partial
  BY <1>0 DEF Given, TypeOK, Settings, Partial
<1>4. CASE CreateRule(q)
  <2> DEFINE n == lastId + 1
  <2>1. /\ requests[q].kind = "create" /\ requests[q].stage = "sent" /\ lastId < MaxRules
        /\ lastId' = n
        /\ table' = [table EXCEPT ![n] = requests[q].input]
        /\ requests' = [requests EXCEPT ![q] =
                          [requests[q] EXCEPT !.stage = "done", !.target = n]]
        /\ stored' = stored /\ UNCHANGED doubt /\ Backstage
    BY <1>4 DEF CreateRule, Is
  <2>2. /\ n \in RuleIds /\ n \in Keys /\ lastId' \in lastId..MaxRules /\ n \in Ids'
        /\ \A r \in RuleIds : r > lastId' => r # n /\ r > lastId
    BY <1>1, <2>1 DEF RuleIds, Keys, Ids
  <2>3. requests[q].input \in Settings
    BY <1>0, <2>1 DEF Shaped
  <2>4. PICK rec \in Request : rec = [requests[q] EXCEPT !.stage = "done", !.target = n]
    BY <1>0, <2>2, FieldsTyped
  <2>5. /\ rec.kind = "create" /\ rec.target = n /\ rec.input = requests[q].input
        /\ rec.stage = "done" /\ rec.rules = requests[q].rules
    BY <1>0, <2>1, <2>4 DEF Request
  <2>6. requests'[q] = rec
    BY <1>3, <2>1, <2>4
  <2> HIDE DEF n
  <2>7. Shaped(q)'
    BY <2>2, <2>3, <2>5, <2>6 DEF Shaped, PatchKinds
  <2>8. table' \in [RuleIds -> Settings \cup {Nil}]
    BY <1>3, <2>1, <2>3
  <2>9. \A r \in RuleIds : r > lastId' => table'[r] = Nil
    BY <1>2, <1>3, <2>1, <2>2
  <2>10. stored' \in Hooks \cup {Nil}
    BY <1>3, <2>1
  <2>11. rec.rules # Nil => \A r \in RuleIds \ Ids : rec.rules[r] = <<>>
    BY <1>3, <2>5
  <2> QED
    BY <2>1, <2>2, <2>4, <2>7, <2>8, <2>9, <2>10, <2>11, HandlerTyped
<1>5. CASE ReadRule(q)
  <2> DEFINE read == applyRuleUpdate(table[requests[q].target], requests[q].input)
  <2>1. /\ requests[q].kind \in PatchKinds /\ table[requests[q].target] # Nil
        /\ requests' = [requests EXCEPT ![q] =
                          [requests[q] EXCEPT !.stage = "read", !.input = read]]
        /\ UNCHANGED <<backend, doubt>> /\ Backstage
    BY <1>5 DEF ReadRule, Is
  <2>2. requests[q].target \in Ids /\ requests[q].input \in Partial
    BY <1>0, <2>1 DEF Shaped
  <2>3. table[requests[q].target] \in Settings
    BY <1>2, <1>3, <2>1, <2>2
  <2>4. read \in Settings
    BY <2>2, <2>3, UpdateTyped
  <2> HIDE DEF read
  <2>5. PICK rec \in Request : rec = [requests[q] EXCEPT !.stage = "read", !.input = read]
    BY <1>0, <1>3, <2>4, FieldsTyped
  <2>6. /\ rec.kind = requests[q].kind /\ rec.target = requests[q].target
        /\ rec.input = read /\ rec.stage = "read" /\ rec.rules = requests[q].rules
    BY <1>0, <2>5 DEF Request
  <2>7. requests'[q] = rec
    BY <1>3, <2>1, <2>5
  <2>8. Ids' = Ids
    BY <2>1 DEF backend, Ids
  <2>9. Shaped(q)'
    BY <1>3, <2>1, <2>2, <2>4, <2>6, <2>7, <2>8 DEF Shaped, PatchKinds
  <2> QED
    BY <1>1, <1>2, <1>3, <2>1, <2>5, <2>6, <2>9, HandlerTyped DEF backend
<1>6. CASE UpdateRule(q)
  <2>1. /\ requests[q].kind \in PatchKinds /\ requests[q].stage = "read"
        /\ table' = [table EXCEPT ![requests[q].target] = requests[q].input]
        /\ requests' = [requests EXCEPT ![q] = [requests[q] EXCEPT !.stage = "done"]]
        /\ lastId' = lastId /\ stored' = stored /\ UNCHANGED doubt /\ Backstage
    BY <1>6 DEF UpdateRule, Is
  <2>2. requests[q].target \in Ids /\ requests[q].input \in Settings
    BY <1>0, <2>1 DEF Shaped
  <2>3. PICK rec \in Request : rec = [requests[q] EXCEPT !.stage = "done"]
    BY <1>0, FieldsTyped
  <2>4. /\ rec.kind = requests[q].kind /\ rec.target = requests[q].target
        /\ rec.input = requests[q].input /\ rec.stage = "done"
        /\ rec.rules = requests[q].rules
    BY <1>0, <2>3 DEF Request
  <2>5. requests'[q] = rec
    BY <1>3, <2>1, <2>3
  <2>6. Ids' = Ids
    BY <2>1 DEF Ids
  <2>7. Shaped(q)'
    BY <1>3, <2>1, <2>2, <2>4, <2>5, <2>6 DEF Shaped, PatchKinds
  <2>8. table' \in [RuleIds -> Settings \cup {Nil}]
    BY <1>2, <1>3, <2>1, <2>2
  <2>9. \A r \in RuleIds : r > lastId' => table'[r] = Nil
    BY <1>2, <1>3, <2>1, <2>2
  <2> QED
    BY <1>1, <1>3, <2>1, <2>3, <2>4, <2>7, <2>8, <2>9, HandlerTyped
<1>7. CASE DeleteRule(q)
  <2>1. /\ requests[q].kind = "delete" /\ requests[q].stage = "sent"
        /\ table' = [table EXCEPT ![requests[q].target] = Nil]
        /\ requests' = [requests EXCEPT ![q] = [requests[q] EXCEPT !.stage = "done"]]
        /\ lastId' = lastId /\ stored' = stored /\ UNCHANGED doubt /\ Backstage
    BY <1>7 DEF DeleteRule, Is
  <2>2. requests[q].target \in Ids
    BY <1>0, <2>1 DEF Shaped
  <2>3. PICK rec \in Request : rec = [requests[q] EXCEPT !.stage = "done"]
    BY <1>0, FieldsTyped
  <2>4. /\ rec.kind = "delete" /\ rec.target = requests[q].target
        /\ rec.stage = "done" /\ rec.rules = requests[q].rules
    BY <1>0, <2>1, <2>3 DEF Request
  <2>5. requests'[q] = rec
    BY <1>3, <2>1, <2>3
  <2>6. Ids' = Ids
    BY <2>1 DEF Ids
  <2>7. Shaped(q)'
    BY <2>2, <2>4, <2>5, <2>6 DEF Shaped, PatchKinds
  <2>8. table' \in [RuleIds -> Settings \cup {Nil}]
    BY <1>2, <1>3, <2>1, <2>2
  <2>9. \A r \in RuleIds : r > lastId' => table'[r] = Nil
    BY <1>2, <1>3, <2>1, <2>2
  <2> QED
    BY <1>1, <1>3, <2>1, <2>3, <2>4, <2>7, <2>8, <2>9, HandlerTyped
<1> QED
  BY <1>4, <1>5, <1>6, <1>7

LEMMA HookHandlersTyped ==
  ASSUME Typed, NEW q \in Requests, ReadWebhook(q) \/ PutWebhook(q)
  PROVE  Typed'
<1>0. TypeOK /\ Given /\ Shaped(q) /\ requests[q] \in Request
  BY DEF Typed, TypeOK
<1>1. MaxRules \in Nat /\ lastId \in Nat /\ lastId <= MaxRules /\ lastId \in lastId..MaxRules
      /\ \A r \in RuleIds : r > lastId => table[r] = Nil
  <2>1. MaxRules \in Nat /\ lastId \in 0..MaxRules
    BY <1>0, PageAssumption DEF TypeOK
  <2>2. \A r \in RuleIds : r > lastId => r \in RuleIds \ Ids
    BY <2>1 DEF RuleIds, Ids
  <2> QED
    BY <1>0, <2>1, <2>2 DEF Given
<1>2. /\ requests[q].rules # Nil => \A r \in RuleIds \ Ids : requests[q].rules[r] = <<>>
      /\ table \in [RuleIds -> Settings \cup {Nil}]
      /\ stored \in Hooks \cup {Nil}
      /\ requests \in [Requests -> Request]
  BY <1>0 DEF Given, TypeOK
<1>3. CASE ReadWebhook(q)
  <2> DEFINE read == restoreMaskedHeaders(requests[q].input, stored)
  <2>1. /\ requests[q].kind = "webhook"
        /\ requests' = [requests EXCEPT ![q] =
                          [requests[q] EXCEPT !.stage = "read", !.webhook = read]]
        /\ UNCHANGED <<backend, doubt>> /\ Backstage
    BY <1>3 DEF ReadWebhook, Is
  <2>2. requests[q].target = Hook /\ requests[q].input \in Hooks
    BY <1>0, <2>1 DEF Shaped
  <2>3. read \in Hooks
    BY <1>2, <2>2, RestoreTyped
  <2> HIDE DEF read
  <2>4. PICK rec \in Request : rec = [requests[q] EXCEPT !.stage = "read", !.webhook = read]
    BY <1>0, <2>3, FieldsTyped
  <2>5. /\ rec.kind = "webhook" /\ rec.target = Hook
        /\ rec.input = requests[q].input /\ rec.stage = "read" /\ rec.webhook = read
        /\ rec.rules = requests[q].rules
    BY <1>0, <2>1, <2>2, <2>4 DEF Request
  <2>6. requests'[q] = rec
    BY <1>2, <2>1, <2>4
  <2>7. Shaped(q)'
    BY <2>2, <2>3, <2>5, <2>6 DEF Shaped, PatchKinds, Hooks
  <2> QED
    BY <1>1, <1>2, <2>1, <2>4, <2>5, <2>7, HandlerTyped DEF backend
<1>4. CASE PutWebhook(q)
  <2>1. /\ requests[q].kind = "webhook" /\ requests[q].stage = "read"
        /\ stored' = requests[q].webhook
        /\ requests' = [requests EXCEPT ![q] = [requests[q] EXCEPT !.stage = "done"]]
        /\ table' = table /\ lastId' = lastId /\ UNCHANGED doubt /\ Backstage
    BY <1>4 DEF PutWebhook, Is
  <2>2. /\ requests[q].target = Hook /\ requests[q].input \in Hooks
        /\ requests[q].webhook \in Hooks
    BY <1>0, <2>1 DEF Shaped
  <2>4. PICK rec \in Request : rec = [requests[q] EXCEPT !.stage = "done"]
    BY <1>0, FieldsTyped
  <2>5. /\ rec.kind = "webhook" /\ rec.target = Hook
        /\ rec.input = requests[q].input /\ rec.stage = "done"
        /\ rec.webhook = requests[q].webhook /\ rec.rules = requests[q].rules
    BY <1>0, <2>1, <2>2, <2>4 DEF Request
  <2>6. requests'[q] = rec
    BY <1>2, <2>1, <2>4
  <2>7. Shaped(q)'
    BY <2>2, <2>5, <2>6 DEF Shaped, PatchKinds
  <2> QED
    BY <1>1, <1>2, <2>1, <2>2, <2>4, <2>5, <2>7, HandlerTyped
<1> QED
  BY <1>3, <1>4

LEMMA AnswersTyped ==
  ASSUME Typed, NEW q \in Requests, Answers(q)
  PROVE  Typed'
<1>0. TypeOK /\ Given /\ Shaped(q) /\ requests[q] \in Request
  BY DEF Typed, TypeOK
<1>1. /\ editing \in Ids \cup {Nil} /\ deleting \in Ids \cup {Nil}
      /\ \A r \in RuleIds \ Ids : rules[r] = <<>>
      /\ rules \in Lists
      /\ loading \in BOOLEAN /\ savingRule \in BOOLEAN /\ savingWebhook \in BOOLEAN
      /\ webhook \in Hooks \cup {DefaultWebhook} /\ doubt \subseteq Keys
      /\ Ids \subseteq RuleIds /\ Ids \subseteq Keys /\ Hook \in Keys
  BY <1>0, IdsAreKeys DEF TypeOK, Given
<1>2. ASSUME requests[q].target \in Ids, requests[q].input \in Settings
      PROVE  /\ Replaced(q) \in Lists /\ Appended(q) \in Lists
             /\ \A r \in RuleIds \ Ids : Replaced(q)[r] = <<>> /\ Appended(q)[r] = <<>>
  <2>1. Replaced(q) \in Lists /\ Appended(q) \in Lists
    BY <1>1, <1>2, ListsTyped DEF Replaced, Appended
  <2>2. \A r \in RuleIds \ Ids : Replaced(q)[r] = rules[r] /\ Appended(q)[r] = rules[r]
    BY <1>1, <1>2 DEF Replaced, Appended, Lists
  <2> QED
    BY <1>1, <2>1, <2>2
<1>3. CASE LoadArrives(q)
  <2>1. /\ requests[q].rules # Nil /\ requests[q].webhook # Nil
        /\ loading' = FALSE
        /\ rules' = requests[q].rules /\ webhook' = requests[q].webhook
        /\ doubt' = Keys \ requests[q].sure
        /\ requests' = Without(q)
        /\ UNCHANGED <<backend, mounted, form, deleting, savingWebhook>>
    BY <1>3 DEF LoadArrives
  <2>2. rules' \in Lists /\ webhook' \in Hooks \cup {DefaultWebhook}
    BY <1>0, <2>1 DEF Request
  <2>3. \A r \in RuleIds \ Ids : rules'[r] = <<>>
    BY <1>0, <2>1 DEF Given
  <2> QED
    BY <1>1, <2>1, <2>2, <2>3, EndTyped DEF form
<1>4. CASE SaveArrives(q)
  <2>1. /\ requests[q].kind \in SaveKinds /\ requests[q].stage = "done"
        /\ requests' = Without(q)
        /\ UNCHANGED <<backend, mounted, loading, deleting, hookForm, doubt>>
        /\ \/ /\ rules' = Replaced(q) \/ rules' = Appended(q)
              /\ editing' = Nil /\ savingRule' = FALSE
           \/ UNCHANGED <<rules, form>>
    BY <1>4 DEF SaveArrives, Is
  <2>2. requests[q].target \in Ids /\ requests[q].input \in Settings
    BY <1>0, <2>1 DEF Shaped, SaveKinds, PatchKinds
  <2>3. /\ rules' \in Lists /\ \A r \in RuleIds \ Ids : rules'[r] = <<>>
        /\ editing' \in Ids \cup {Nil} /\ savingRule' \in BOOLEAN
    BY <1>1, <1>2, <2>1, <2>2 DEF form
  <2> QED
    BY <1>1, <2>1, <2>3, EndTyped DEF hookForm
<1>5. CASE ToggleArrives(q)
  <2>1. /\ requests[q].kind = "toggle" /\ requests[q].stage = "done"
        /\ requests' = Without(q)
        /\ UNCHANGED <<backend, mounted, loading, form, deleting, hookForm, doubt>>
        /\ rules' = Replaced(q) \/ rules' = rules
    BY <1>5 DEF ToggleArrives, Is
  <2>2. requests[q].target \in Ids /\ requests[q].input \in Settings
    BY <1>0, <2>1 DEF Shaped, PatchKinds
  <2>3. /\ rules' \in Lists /\ \A r \in RuleIds \ Ids : rules'[r] = <<>>
    BY <1>1, <1>2, <2>1, <2>2
  <2> QED
    BY <1>1, <2>1, <2>3, EndTyped DEF form, hookForm
<1>6. CASE DeleteArrives(q)
  <2>1. /\ requests[q].kind = "delete" /\ requests[q].stage = "done"
        /\ requests' = Without(q)
        /\ UNCHANGED <<backend, mounted, loading, savingRule, hookForm, doubt>>
        /\ \/ /\ rules' = [rules EXCEPT ![requests[q].target] = <<>>]
              /\ deleting' = Nil
              /\ editing' = Nil \/ editing' = editing
           \/ UNCHANGED <<rules, deleting, editing>>
    BY <1>6 DEF DeleteArrives, Is
  <2>2. requests[q].target \in Ids
    BY <1>0, <2>1 DEF Shaped
  <2>3. [rules EXCEPT ![requests[q].target] = <<>>] \in Lists
    <3>1. <<>> \in Seq(Settings)
      OBVIOUS
    <3> QED
      BY <1>1, <2>2, <3>1, Zenon DEF Lists
  <2>4. /\ rules' \in Lists /\ \A r \in RuleIds \ Ids : rules'[r] = <<>>
        /\ editing' \in Ids \cup {Nil} /\ deleting' \in Ids \cup {Nil}
    BY <1>1, <2>1, <2>2, <2>3 DEF Lists
  <2> QED
    BY <1>1, <2>1, <2>4, EndTyped DEF hookForm
<1>7. CASE WebhookArrives(q)
  <2>1. /\ requests[q].kind = "webhook"
        /\ requests' = Without(q)
        /\ UNCHANGED <<backend, mounted, loading, rules, form, deleting, doubt>>
        /\ \/ /\ webhook' = maskWebhookHeaders(requests[q].webhook)
              /\ savingWebhook' = FALSE
           \/ UNCHANGED hookForm
    BY <1>7 DEF WebhookArrives, Is
  <2>2. requests[q].webhook \in Hooks \cup {DefaultWebhook, Nil}
    BY <1>0 DEF Request
  <2>3. webhook' \in Hooks \cup {DefaultWebhook} /\ savingWebhook' \in BOOLEAN
    BY <1>1, <2>1, <2>2, MaskTyped DEF hookForm
  <2> QED
    BY <1>1, <2>1, <2>3, EndTyped DEF form
<1>8. CASE Fails(q)
  <2>1. /\ requests' = Without(q)
        /\ loading' \in BOOLEAN /\ savingRule' \in BOOLEAN /\ savingWebhook' \in BOOLEAN
        /\ UNCHANGED <<backend, mounted, rules, editing, deleting, webhook>>
        /\ \/ requests[q].stage = "done" /\ doubt' = doubt \cup {requests[q].target}
           \/ doubt' = doubt
    BY <1>8 DEF Fails
  <2>2. requests[q].stage = "done" => requests[q].target \in Keys
    <3>1. requests[q].kind \in {"none", "load", "create", "delete", "webhook"} \cup PatchKinds
      BY <1>0 DEF Request, Kinds, ChangeKinds, PatchKinds
    <3> QED
      BY <1>0, <1>1, <3>1 DEF Shaped
  <2>3. doubt' \subseteq Keys
    BY <1>1, <2>1, <2>2
  <2> QED
    BY <1>1, <2>1, <2>3, EndTyped
<1> QED
  BY <1>3, <1>4, <1>5, <1>6, <1>7, <1>8 DEF Answers

LEMMA TypedStep == Typed /\ [Next]_vars => Typed'
<1> SUFFICES ASSUME Typed, [Next]_vars PROVE Typed'
  OBVIOUS
<1>1. CASE User
  <2>1. ASSUME NEW row \in Listed,
               toggleRule(row) \/ Edit(row) \/ AskDelete(row) \/ CancelDelete(row)
                               \/ ConfirmDelete(row)
        PROVE  Typed'
    BY <2>1, RowsTyped
  <2> QED
    BY <1>1, <2>1, PageTyped, SubmitsTyped DEF User
<1>2. ASSUME NEW q \in Requests, Handles(q) PROVE Typed'
  BY <1>2, ListingTyped, RuleHandlersTyped, HookHandlersTyped DEF Handles
<1>3. ASSUME NEW q \in Requests, Answers(q) PROVE Typed'
  BY <1>3, AnswersTyped
<1>4. CASE UNCHANGED vars
  <2>1. TypeOK' /\ Given'
    BY <1>4 DEF Typed, TypeOK, Given, Ids, vars, backend, form, hookForm
  <2>2. \A q \in Requests : Shaped(q)'
    BY <1>4 DEF Typed, Shaped, Ids, vars, backend
  <2> QED
    BY <2>1, <2>2 DEF Typed
<1> QED
  BY <1>1, <1>2, <1>3, <1>4 DEF Next

LEMMA TypedAlways == Spec => []Typed
<1> QED
  BY TypedInit, TypedStep, PTL DEF Spec

-------------------------------------------------------------------------------
(* A page waits for what it has asked.                                     *)

LEMMA OnceKinds ==
  /\ \A kinds \in Once : "none" \notin kinds
  /\ {"load"} \in Once /\ SaveKinds \in Once /\ {"webhook"} \in Once
  BY DEF Once, SaveKinds

\* The handlers are not seen by the page.
LEMMA WaitStill ==
  ASSUME WaitInv, UNCHANGED <<mounted, loading, savingRule, savingWebhook>>,
         \A q \in Requests : /\ requests'[q].kind = requests[q].kind
                             /\ requests'[q].current = requests[q].current
  PROVE  WaitInv'
<1>1. \A kinds : Asked(kinds)' <=> Asked(kinds)
  BY DEF Asked
<1>2. WaitsHonest'
  BY <1>1 DEF WaitInv, WaitsHonest
<1>3. Current'
  BY DEF WaitInv, Current
<1>4. AskedOnce'
  BY DEF WaitInv, AskedOnce
<1> QED
  BY <1>2, <1>3, <1>4 DEF WaitInv

\* A request in a slot that was free: nobody waits for it already.
LEMMA WaitBegan ==
  ASSUME WaitInv, TypeOK, NEW slot \in Requests, NEW rec \in Request, Began(slot, rec),
         mounted, mounted', rec.current, rec.kind # "none",
         loading' <=> loading \/ rec.kind = "load",
         savingRule' <=> savingRule \/ rec.kind \in SaveKinds,
         savingWebhook' <=> savingWebhook \/ rec.kind = "webhook",
         rec.kind = "load" => ~loading, rec.kind \in SaveKinds => ~savingRule,
         rec.kind = "webhook" => ~savingWebhook
  PROVE  WaitInv'
<1>1. /\ requests'[slot] = rec
      /\ \A p \in Requests : p # slot => requests'[p] = requests[p]
      /\ ~requests[slot].current
  BY BeganTyped DEF Began, WaitInv, Current
<1>2. ASSUME NEW kinds
      PROVE  Asked(kinds)' <=> Asked(kinds) \/ rec.kind \in kinds
  BY <1>1 DEF Asked
<1>3. /\ loading <=> Asked({"load"})
      /\ savingRule <=> Asked(SaveKinds)
      /\ savingWebhook <=> Asked({"webhook"})
  BY DEF WaitInv, WaitsHonest
<1>4. WaitsHonest'
  <2>1. loading' <=> Asked({"load"})'
    BY <1>2, <1>3
  <2>2. savingRule' <=> Asked(SaveKinds)'
    BY <1>2, <1>3
  <2>3. savingWebhook' <=> Asked({"webhook"})'
    BY <1>2, <1>3
  <2> QED
    BY <2>1, <2>2, <2>3, Zenon DEF WaitsHonest
<1>5. Current'
  BY <1>1 DEF WaitInv, Current
<1>6. AskedOnce'
  <2>1. SUFFICES ASSUME NEW kinds \in Once, NEW p \in Requests, NEW q \in Requests,
                        requests'[p].current, requests'[p].kind \in kinds,
                        requests'[q].current, requests'[q].kind \in kinds
                 PROVE  p = q
    BY DEF AskedOnce
  <2>2. rec.kind \in kinds => ~Asked(kinds)
    BY <1>3 DEF Once
  <2>3. CASE p # slot /\ q # slot
    BY <1>1, <2>1, <2>3 DEF WaitInv, AskedOnce
  <2>4. CASE p = slot \/ q = slot
    <3>1. ~Asked(kinds)
      BY <1>1, <2>1, <2>2, <2>4
    <3> QED
      BY <1>1, <2>1, <2>4, <3>1 DEF Asked
  <2> QED
    BY <2>3, <2>4
<1> QED
  BY <1>4, <1>5, <1>6 DEF WaitInv

\* The end of a request ends the wait for it.
LEMMA WaitEnded ==
  ASSUME WaitInv, TypeOK, NEW q \in Requests, requests' = Without(q), mounted' = mounted,
         loading' <=> loading /\ ~(requests[q].current /\ requests[q].kind = "load"),
         savingRule' <=> savingRule /\ ~(requests[q].current /\ requests[q].kind \in SaveKinds),
         savingWebhook' <=>
           savingWebhook /\ ~(requests[q].current /\ requests[q].kind = "webhook")
  PROVE  WaitInv'
<1>1. /\ requests'[q].kind = "none" /\ ~requests'[q].current
      /\ \A p \in Requests : p # q => requests'[p] = requests[p]
  BY WithoutTyped, FreeTyped
<1>2. ASSUME NEW kinds \in Once
      PROVE  Asked(kinds)' <=>
               Asked(kinds) /\ ~(requests[q].current /\ requests[q].kind \in kinds)
  <2>1. "none" \notin kinds
    BY OnceKinds
  <2>2. \A p \in Requests : requests[p].current /\ requests[p].kind \in kinds
                            /\ requests[q].current /\ requests[q].kind \in kinds => p = q
    BY DEF WaitInv, AskedOnce
  <2> QED
    BY <1>1, <2>1, <2>2 DEF Asked
<1>3. WaitsHonest'
  <2>1. SUFFICES ASSUME mounted PROVE WaitsHonest'
    BY DEF WaitsHonest
  <2>2. /\ loading <=> Asked({"load"})
        /\ savingRule <=> Asked(SaveKinds)
        /\ savingWebhook <=> Asked({"webhook"})
    BY <2>1 DEF WaitInv, WaitsHonest
  <2>3. loading' <=> Asked({"load"})'
    BY <1>2, <2>2, OnceKinds
  <2>4. savingRule' <=> Asked(SaveKinds)'
    BY <1>2, <2>2, OnceKinds
  <2>5. savingWebhook' <=> Asked({"webhook"})'
    BY <1>2, <2>2, OnceKinds
  <2> QED
    BY <2>3, <2>4, <2>5, Zenon DEF WaitsHonest
<1>4. Current'
  BY <1>1 DEF WaitInv, Current
<1>5. AskedOnce'
  BY <1>1, OnceKinds DEF WaitInv, AskedOnce
<1> QED
  BY <1>3, <1>4, <1>5 DEF WaitInv

LEMMA WaitInit == Init => WaitInv
<1> SUFFICES ASSUME Init PROVE WaitInv
  OBVIOUS
<1>1. ~mounted /\ \A q \in Requests : requests[q].kind = "none" /\ ~requests[q].current
  BY FreeTyped DEF Init
<1> QED
  BY <1>1 DEF WaitInv, WaitsHonest, Current, AskedOnce

LEMMA WaitPage ==
  ASSUME WaitInv, Typed, Mount \/ Leave \/ Refresh \/ CancelEdit
  PROVE  WaitInv'
<1>0. TypeOK /\ \A q \in Requests : requests[q] \in Request
  BY DEF Typed, TypeOK
<1>1. CASE CancelEdit
  BY <1>1, WaitStill DEF CancelEdit, hookForm
<1>2. CASE Leave
  <2>1. /\ mounted' = FALSE
        /\ requests' = [q \in Requests |-> IF requests[q].kind = "load" THEN Free
                                           ELSE [requests[q] EXCEPT !.current = FALSE]]
    BY <1>2 DEF Leave
  <2>2. ASSUME NEW q \in Requests
        PROVE  ~requests'[q].current /\ requests'[q].kind # "load"
    <3>1. CASE requests[q].kind = "load"
      BY <2>1, <3>1, FreeTyped
    <3>2. CASE requests[q].kind # "load"
      BY <1>0, <2>1, <3>2 DEF Request
    <3> QED
      BY <3>1, <3>2
  <2>3. Current' /\ AskedOnce' /\ WaitsHonest'
    BY <2>1, <2>2 DEF Current, AskedOnce, WaitsHonest
  <2> QED
    BY <2>3 DEF WaitInv
<1>3. CASE Refresh \/ Mount
  <2>1. PICK rec \in Request : rec = Ask("load", Nil, Nil, Undisturbed)
    <3>1. Undisturbed \in SUBSET Keys
      BY Zenon DEF Undisturbed
    <3>2. Ask("load", Nil, Nil, Undisturbed) \in Request
      BY <3>1 DEF Ask, Request, Kinds
    <3> QED
      BY <3>2
  <2>2. PICK slot \in Requests : Began(slot, rec) /\ loading' = TRUE
    BY <1>3, <2>1, LoadBegins DEF Began, Refresh, Mount
  <2>3. rec.kind = "load" /\ rec.current = TRUE
    BY <2>1 DEF Ask
  <2>4. CASE Refresh
    BY <1>0, <2>2, <2>3, <2>4, WaitBegan DEF Refresh, Shown, form, hookForm, SaveKinds
  <2>5. CASE Mount
    <3>1. /\ mounted' = TRUE /\ savingRule' = FALSE /\ savingWebhook' = FALSE
          /\ ~mounted
      BY <2>5 DEF Mount, Blank
    <3>2. /\ requests'[slot] = rec
          /\ \A p \in Requests : p # slot => requests'[p] = requests[p]
      BY <1>0, <2>2, BeganTyped
    <3>3. \A p \in Requests : ~requests[p].current /\ requests[p].kind # "load"
      BY <3>1 DEF WaitInv, Current
    <3>4. Current' /\ AskedOnce'
      BY <2>3, <3>1, <3>2, <3>3 DEF Current, AskedOnce
    <3>5. /\ Asked({"load"})' /\ ~Asked(SaveKinds)' /\ ~Asked({"webhook"})'
      BY <2>3, <3>2, <3>3 DEF Asked, SaveKinds
    <3>6. WaitsHonest'
      BY <2>2, <3>1, <3>5, Zenon DEF WaitsHonest
    <3> QED
      BY <3>4, <3>6 DEF WaitInv
  <2> QED
    BY <1>3, <2>4, <2>5
<1> QED
  BY <1>1, <1>2, <1>3

\* Sending a change.
LEMMA WaitSend ==
  ASSUME WaitInv, Typed, NEW kind \in ChangeKinds, NEW k, NEW input, Send(kind, k, input),
         k \in Keys \cup {Nil}, input \in {Nil} \cup RuleIds \cup Partial \cup Hooks,
         mounted, UNCHANGED <<mounted, loading>>,
         savingRule' <=> savingRule \/ kind \in SaveKinds,
         savingWebhook' <=> savingWebhook \/ kind = "webhook",
         kind \in SaveKinds => ~savingRule, kind = "webhook" => ~savingWebhook
  PROVE  WaitInv'
<1>1. PICK rec \in Request : rec = Ask(kind, k, input, {})
  <2>1. Ask(kind, k, input, {}) \in Request
    BY DEF Ask, Request, Kinds, ChangeKinds
  <2> QED
    BY <2>1
<1>2. PICK slot \in Requests : Began(slot, rec)
  BY <1>1, SendBegins DEF Began
<1>3. kind \notin {"none", "load"}
  BY DEF ChangeKinds
<1>4. rec.kind = kind /\ rec.current
  BY <1>1, <1>3 DEF Ask
<1> QED
  BY <1>2, <1>3, <1>4, WaitBegan DEF Typed

LEMMA WaitRows ==
  ASSUME WaitInv, Typed, NEW row \in Listed,
         toggleRule(row) \/ Edit(row) \/ AskDelete(row) \/ CancelDelete(row)
                         \/ ConfirmDelete(row)
  PROVE  WaitInv'
<1>0. TypeOK /\ Given
  BY DEF Typed
<1>1. /\ row.id \in Ids /\ row.settings.enabled \in BOOLEAN /\ mounted
      /\ Ids \subseteq RuleIds /\ Ids \subseteq Keys
      /\ {"toggle", "delete"} \subseteq ChangeKinds
      /\ "toggle" \notin SaveKinds /\ "delete" \notin SaveKinds
  BY <1>0, ListedGiven, IdsAreKeys DEF Shown, ChangeKinds, SaveKinds
<1>2. CASE toggleRule(row)
  <2> DEFINE update == [config |-> Nil, enabled |-> ~row.settings.enabled]
  <2>1. /\ Send("toggle", row.id, update)
        /\ UNCHANGED <<mounted, loading, form, hookForm>>
    BY <1>2 DEF toggleRule
  <2>2. update \in Partial
    BY <1>1 DEF Partial
  <2> HIDE DEF update
  <2> QED
    BY <1>0, <1>1, <2>1, <2>2, WaitSend DEF form, hookForm
<1>3. CASE ConfirmDelete(row)
  <2>1. /\ Send("delete", row.id, editing)
        /\ UNCHANGED <<mounted, loading, form, hookForm>>
    BY <1>3 DEF ConfirmDelete
  <2>2. editing \in {Nil} \cup RuleIds
    BY <1>0, <1>1 DEF Given
  <2> QED
    BY <1>0, <1>1, <2>1, <2>2, WaitSend DEF form, hookForm
<1>4. CASE Edit(row) \/ AskDelete(row) \/ CancelDelete(row)
  BY <1>4, WaitStill DEF Edit, AskDelete, CancelDelete, form, hookForm
<1> QED
  BY <1>2, <1>3, <1>4

LEMMA WaitSubmits ==
  ASSUME WaitInv, Typed,
         \/ \E settings \in Settings : SubmitRule(settings)
         \/ \E url \in Urls, header \in Secrets \cup {Mask, Nil} : SubmitWebhook(url, header)
  PROVE  WaitInv'
<1>0. TypeOK /\ Given
  BY DEF Typed
<1>1. /\ {"create", "save", "webhook"} \subseteq ChangeKinds
      /\ "create" \in SaveKinds /\ "save" \in SaveKinds /\ "webhook" \notin SaveKinds
      /\ Ids \subseteq Keys /\ Hook \in Keys /\ savingRule \in BOOLEAN
      /\ savingWebhook \in BOOLEAN
  BY <1>0, IdsAreKeys DEF ChangeKinds, SaveKinds, TypeOK
<1>2. ASSUME NEW settings \in Settings, SubmitRule(settings) PROVE WaitInv'
  <2>1. /\ savingRule' = TRUE /\ ~savingRule /\ mounted
        /\ UNCHANGED <<mounted, loading, hookForm>>
    BY <1>2 DEF SubmitRule, Shown
  <2>2. settings \in Partial
    BY DEF Settings, Partial
  <2>3. CASE editing = Nil
    <3>1. Send("create", Nil, settings)
      BY <1>2, <2>3 DEF SubmitRule
    <3> QED
      BY <1>0, <1>1, <2>1, <2>2, <3>1, WaitSend DEF hookForm
  <2>4. CASE editing # Nil
    <3>1. Send("save", editing, settings) /\ editing \in Ids
      BY <1>0, <1>2, <2>4 DEF SubmitRule, Given
    <3> QED
      BY <1>0, <1>1, <2>1, <2>2, <3>1, WaitSend DEF hookForm
  <2> QED
    BY <2>3, <2>4
<1>3. ASSUME NEW url \in Urls, NEW header \in Secrets \cup {Mask, Nil},
             SubmitWebhook(url, header)
      PROVE  WaitInv'
  <2> DEFINE input == [url |-> url, header |-> header]
  <2>1. /\ Send("webhook", Hook, input) /\ savingWebhook' = TRUE /\ ~savingWebhook
        /\ UNCHANGED <<mounted, loading, form>> /\ mounted
    BY <1>3 DEF SubmitWebhook, Shown
  <2>2. input \in Hooks
    BY DEF Hooks
  <2> HIDE DEF input
  <2> QED
    BY <1>0, <1>1, <2>1, <2>2, WaitSend DEF form
<1> QED
  BY <1>2, <1>3

\* What no handler touches.
LEMMA HandlersQuiet ==
  ASSUME Typed, NEW q \in Requests, Handles(q)
  PROVE  /\ UNCHANGED <<mounted, loading, rules, editing, savingRule, deleting, webhook,
                        savingWebhook, doubt>>
         /\ \A p \in Requests : /\ requests'[p].kind = requests[p].kind
                                /\ requests'[p].current = requests[p].current
                                /\ requests'[p].sure = requests[p].sure
                                /\ p # q => requests'[p] = requests[p]
<1>1. requests \in [Requests -> Request]
  BY DEF Typed, TypeOK
<1>2. Backstage /\ doubt' = doubt
  BY DEF Handles, ListRules, GetWebhook, CreateRule, ReadRule, UpdateRule, DeleteRule,
         ReadWebhook, PutWebhook
<1>3. ASSUME NEW p \in Requests
      PROVE  /\ requests'[p].kind = requests[p].kind
             /\ requests'[p].current = requests[p].current
             /\ requests'[p].sure = requests[p].sure
             /\ p # q => requests'[p] = requests[p]
  <2>0. requests[p] \in Request
    BY <1>1
  <2>1. CASE p # q
    BY <1>1, <2>1 DEF Handles, ListRules, GetWebhook, CreateRule, ReadRule, UpdateRule,
       DeleteRule, ReadWebhook, PutWebhook
  <2>2. CASE p = q
    <3>1. CASE ListRules(q)
      BY <1>1, <2>0, <2>2, <3>1 DEF ListRules, Request
    <3>2. CASE GetWebhook(q)
      BY <1>1, <2>0, <2>2, <3>2 DEF GetWebhook, Request
    <3>3. CASE CreateRule(q)
      BY <1>1, <2>0, <2>2, <3>3 DEF CreateRule, Request
    <3>4. CASE ReadRule(q)
      BY <1>1, <2>0, <2>2, <3>4 DEF ReadRule, Request
    <3>5. CASE UpdateRule(q) \/ DeleteRule(q) \/ PutWebhook(q)
      BY <1>1, <2>0, <2>2, <3>5 DEF UpdateRule, DeleteRule, PutWebhook, Request
    <3>6. CASE ReadWebhook(q)
      BY <1>1, <2>0, <2>2, <3>6 DEF ReadWebhook, Request
    <3> QED
      BY <3>1, <3>2, <3>3, <3>4, <3>5, <3>6 DEF Handles
  <2> QED
    BY <2>1, <2>2
<1> QED
  BY <1>2, <1>3 DEF Backstage, form, hookForm

LEMMA WaitAnswers ==
  ASSUME WaitInv, Typed, NEW q \in Requests, Answers(q)
  PROVE  WaitInv'
<1>0. /\ TypeOK
      /\ loading \in BOOLEAN /\ savingRule \in BOOLEAN /\ savingWebhook \in BOOLEAN
      /\ requests[q].current \in BOOLEAN
      /\ requests[q].kind = "load" => requests[q].current
      /\ {"load", "webhook", "toggle", "delete"} \cap SaveKinds = {}
      /\ "load" \notin SaveKinds /\ "webhook" \notin SaveKinds
  BY DEF Typed, TypeOK, Request, WaitInv, Current, SaveKinds
<1>1. requests' = Without(q) /\ mounted' = mounted
  BY DEF Answers, LoadArrives, SaveArrives, ToggleArrives, DeleteArrives, WebhookArrives,
         Fails
<1>2. /\ loading' <=> loading /\ ~(requests[q].current /\ requests[q].kind = "load")
      /\ savingRule' <=> savingRule /\ ~(requests[q].current /\ requests[q].kind \in SaveKinds)
      /\ savingWebhook' <=>
           savingWebhook /\ ~(requests[q].current /\ requests[q].kind = "webhook")
  <2>1. CASE LoadArrives(q)
    BY <1>0, <2>1 DEF LoadArrives, Is, form
  <2>2. CASE SaveArrives(q)
    BY <1>0, <2>2 DEF SaveArrives, Is, form, hookForm
  <2>3. CASE ToggleArrives(q)
    BY <1>0, <2>3 DEF ToggleArrives, Is, form, hookForm
  <2>4. CASE DeleteArrives(q)
    BY <1>0, <2>4 DEF DeleteArrives, Is, hookForm
  <2>5. CASE WebhookArrives(q)
    BY <1>0, <2>5 DEF WebhookArrives, Is, form, hookForm
  <2>6. CASE Fails(q)
    BY <1>0, <2>6 DEF Fails
  <2> QED
    BY <2>1, <2>2, <2>3, <2>4, <2>5, <2>6 DEF Answers
<1> QED
  BY <1>0, <1>1, <1>2, WaitEnded

LEMMA WaitStep == Typed /\ WaitInv /\ [Next]_vars => WaitInv'
<1> SUFFICES ASSUME Typed, WaitInv, [Next]_vars PROVE WaitInv'
  OBVIOUS
<1>1. CASE User
  <2>1. ASSUME NEW row \in Listed,
               toggleRule(row) \/ Edit(row) \/ AskDelete(row) \/ CancelDelete(row)
                               \/ ConfirmDelete(row)
        PROVE  WaitInv'
    BY <2>1, WaitRows
  <2> QED
    BY <1>1, <2>1, WaitPage, WaitSubmits DEF User
<1>2. ASSUME NEW q \in Requests, Handles(q) PROVE WaitInv'
  BY <1>2, HandlersQuiet, WaitStill
<1>3. ASSUME NEW q \in Requests, Answers(q) PROVE WaitInv'
  BY <1>3, WaitAnswers
<1>4. CASE UNCHANGED vars
  BY <1>4, WaitStill DEF vars, form, hookForm
<1> QED
  BY <1>1, <1>2, <1>3, <1>4 DEF Next

\* A page that waits has asked, and what may be asked for only once is waited
\* for (AlertsPage.tsx:57-59, 74-76, 103-105): no answer, failure, refresh or
\* return to the page makes its buttons disagree with the requests.
THEOREM WaitsHonestHolds == Spec => []WaitsHonest
<1>1. WaitInv => WaitsHonest
  BY DEF WaitInv
<1> QED
  BY <1>1, WaitInit, WaitStep, TypedAlways, PTL DEF Spec

-------------------------------------------------------------------------------
(* What keeps the agreement.                                               *)

LEMMA ChangingIs ==
  ASSUME NEW k
  PROVE  /\ Changing(k) <=> \E q \in Requests : Changes(q, k)
         /\ Changing(k)' <=> \E q \in Requests : Changes(q, k)'
  BY DEF Changing, Changes

\* No change begins, and the ids given out stay given.
NoneBegins ==
    /\ \A p \in Requests, k \in Keys : Changes(p, k)' => Changes(p, k)
    /\ \A p \in Requests : Creates(p)' => Creates(p)
    /\ \A k \in Keys : k > lastId' => k > lastId

LEMMA CertainKept ==
  ASSUME Certain, NoneBegins, doubt \subseteq doubt', mounted' => mounted,
         \A p \in Requests : mounted' /\ requests[p].current =>
             requests'[p].current \/ ~(requests'[p].kind \in ChangeKinds)
  PROVE  Certain'
<1>1. SUFFICES ASSUME NEW k \in Keys, k \notin doubt'
               PROVE  /\ \A p, q \in Requests : Changes(p, k)' /\ Changes(q, k)' => p = q
                      /\ mounted' => \A q \in Requests :
                           Changes(q, k)' \/ (k > lastId' /\ Creates(q)') => requests'[q].current
  BY DEF Certain
<1>2. /\ \A p, q \in Requests : Changes(p, k) /\ Changes(q, k) => p = q
      /\ mounted => \A q \in Requests :
           Changes(q, k) \/ (k > lastId /\ Creates(q)) => requests[q].current
  BY <1>1 DEF Certain
<1>3. /\ \A p \in Requests : Changes(p, k)' => Changes(p, k)
      /\ \A p \in Requests : Creates(p)' => Creates(p)
      /\ k > lastId' => k > lastId
  BY DEF NoneBegins
<1>4. \A q \in Requests : Changes(q, k)' \/ Creates(q)' => requests'[q].kind \in ChangeKinds
  BY DEF Changes, Creates, ChangeKinds
<1> QED
  BY <1>2, <1>3, <1>4

LEMMA SureKept ==
  ASSUME TypeOK, NEW q \in Requests, SureLoad(q), NoneBegins,
         requests'[q] = requests[q],
         \A k \in RuleIds : k \in requests[q].sure => table'[k] = table[k],
         Hook \in requests[q].sure => stored' = stored
  PROVE  SureLoad(q)'
<1>1. SUFFICES ASSUME requests[q].kind = "load", NEW k \in requests[q].sure
      PROVE  /\ ~Changing(k)'
             /\ k > lastId' => \A p \in Requests : ~Creates(p)'
             /\ k \in RuleIds /\ requests[q].rules # Nil => requests[q].rules[k] = Rows'[k]
             /\ k = Hook /\ requests[q].webhook # Nil =>
                  requests[q].webhook = maskWebhookHeaders(stored)'
  BY DEF SureLoad
<1>2. k \in Keys
  BY DEF TypeOK, Request
<1>3. /\ ~Changing(k)
      /\ k > lastId => \A p \in Requests : ~Creates(p)
      /\ k \in RuleIds /\ requests[q].rules # Nil => requests[q].rules[k] = Rows[k]
      /\ k = Hook /\ requests[q].webhook # Nil =>
           requests[q].webhook = maskWebhookHeaders(stored)
  BY <1>1 DEF SureLoad
<1>4. ~Changing(k)'
  BY <1>2, <1>3, ChangingIs DEF NoneBegins
<1>5. k > lastId' => \A p \in Requests : ~Creates(p)'
  BY <1>2, <1>3 DEF NoneBegins
<1>6. k \in RuleIds => Rows'[k] = Rows[k]
  BY DEF Rows
<1>7. k = Hook => maskWebhookHeaders(stored)' = maskWebhookHeaders(stored)
  BY DEF maskWebhookHeaders
<1> QED
  BY <1>3, <1>4, <1>5, <1>6, <1>7

LEMMA RuleKept ==
  ASSUME NEW r \in RuleIds, RuleInv(r), doubt \subseteq doubt', mounted' => mounted,
         mounted' => table'[r] = table[r] /\ rules'[r] = rules[r],
         \A p \in Requests :
             /\ Changes(p, r)' <=> Changes(p, r)
             /\ Changes(p, r) => /\ requests'[p].kind = requests[p].kind
                                 /\ requests'[p].stage = requests[p].stage
                                 /\ requests'[p].input = requests[p].input
  PROVE  RuleInv(r)'
<1>1. Changing(r)' <=> Changing(r)
  BY ChangingIs
<1>2. mounted' => Rows'[r] = Rows[r]
  BY DEF Rows
<1>3. SUFFICES ASSUME mounted', r \notin doubt' PROVE RuleInv(r)'
  BY DEF RuleInv
<1>4. /\ ~Changing(r) => rules[r] = Rows[r]
      /\ \A q \in Requests : Changes(q, r) =>
           /\ requests[q].stage # "done" => rules[r] = Rows[r]
           /\ Is(q, {"delete"}, "done") => table[r] = Nil
           /\ Is(q, {"create"}, "done") =>
                rules[r] = <<>> /\ table[r] = requests[q].input
           /\ Is(q, PatchKinds, "done") =>
                Len(rules[r]) = 1 /\ table[r] = requests[q].input
  BY <1>3 DEF RuleInv
<1> QED
  BY <1>1, <1>2, <1>3, <1>4 DEF RuleInv, Is

LEMMA HookKept ==
  ASSUME HookInv, doubt \subseteq doubt', mounted' => mounted,
         stored' = stored, mounted' => webhook' = webhook,
         \A p \in Requests :
             /\ Changes(p, Hook)' <=> Changes(p, Hook)
             /\ requests'[p].kind = "webhook" <=> requests[p].kind = "webhook"
             /\ requests[p].kind = "webhook" => /\ requests'[p].stage = requests[p].stage
                                                /\ requests'[p].input = requests[p].input
                                                /\ requests'[p].webhook = requests[p].webhook
  PROVE  HookInv'
<1>1. Changing(Hook)' <=> Changing(Hook)
  BY ChangingIs
<1>2. /\ maskWebhookHeaders(stored)' = maskWebhookHeaders(stored)
      /\ Masked' <=> Masked
      /\ \A input : restoreMaskedHeaders(input, stored)' = restoreMaskedHeaders(input, stored)
  BY DEF maskWebhookHeaders, Masked, restoreMaskedHeaders
<1>3. SUFFICES ASSUME Hook \notin doubt' PROVE HookInv'
  BY DEF HookInv
<1>4. /\ mounted' /\ ~Changing(Hook)' => webhook' = maskWebhookHeaders(stored)
      /\ \A q \in Requests : requests'[q].kind = "webhook" =>
           IF requests'[q].stage = "done" THEN requests'[q].webhook = stored'
           ELSE /\ mounted' => webhook' = maskWebhookHeaders(stored)
                /\ requests'[q].input.header = Mask => Masked
                /\ requests'[q].stage = "read" => requests'[q].webhook =
                     restoreMaskedHeaders(requests'[q].input, stored')
  BY <1>1, <1>3 DEF HookInv
<1> QED
  BY <1>2, <1>3, <1>4 DEF HookInv

-------------------------------------------------------------------------------
(* The agreement: what the user does.                                      *)

LEMMA AgreeInit == Init => AgreementInv
<1> SUFFICES ASSUME Init PROVE AgreementInv
  OBVIOUS
<1>1. /\ doubt = Keys /\ ~mounted
      /\ \A q \in Requests : requests[q].kind = "none"
  BY FreeTyped DEF Init
<1>2. \A r \in RuleIds : r \in doubt
  BY <1>1 DEF Keys
<1>3. Hook \in doubt
  BY <1>1 DEF Keys
<1> QED
  BY <1>1, <1>2, <1>3 DEF AgreementInv, Certain, SureLoad, RuleInv, HookInv

LEMMA AgreeStill ==
  ASSUME AgreementInv, TypeOK, UNCHANGED <<backend, requests, rules, webhook, mounted, doubt>>
  PROVE  AgreementInv'
<1>1. NoneBegins
  BY DEF NoneBegins, Changes, Creates, backend
<1>2. Certain'
  BY <1>1, CertainKept DEF AgreementInv
<1>3. \A q \in Requests : SureLoad(q)'
  BY <1>1, SureKept DEF AgreementInv, backend
<1>4. \A p \in Requests : \A k : Changes(p, k)' <=> Changes(p, k)
  BY DEF Changes
<1>5. ASSUME NEW r \in RuleIds PROVE RuleInv(r)'
  BY <1>4, RuleKept DEF AgreementInv, backend
<1>6. HookInv'
  BY <1>4, HookKept DEF AgreementInv, backend
<1> QED
  BY <1>2, <1>3, <1>5, <1>6 DEF AgreementInv

\* A load disturbs nothing, and is sure of what nothing disturbs.
LEMMA LoadChangesNothing ==
  ASSUME TypeOK, BeginLoad, UNCHANGED backend
  PROVE  /\ NoneBegins
         /\ \A p \in Requests : \A k : Changes(p, k)' <=> Changes(p, k)
         /\ \A p \in Requests : Changes(p, Hook) => requests'[p] = requests[p]
         /\ \A p \in Requests : /\ requests[p].kind \in ChangeKinds => requests'[p] = requests[p]
                                /\ requests'[p].kind \in ChangeKinds => requests'[p] = requests[p]
                                /\ requests[p].kind # "none" => requests'[p] = requests[p]
         /\ \E slot \in Requests :
              /\ \A p \in Requests : p # slot => requests'[p] = requests[p]
              /\ requests'[slot] = Ask("load", Nil, Nil, Undisturbed)
<1>1. PICK rec \in Request : rec = Ask("load", Nil, Nil, Undisturbed)
  <2>1. Undisturbed \in SUBSET Keys
    BY Zenon DEF Undisturbed
  <2>2. Ask("load", Nil, Nil, Undisturbed) \in Request
    BY <2>1 DEF Ask, Request, Kinds
  <2> QED
    BY <2>2
<1>2. PICK slot \in Requests : Began(slot, rec)
  BY <1>1, LoadBegins DEF Began
<1>3. /\ requests'[slot] = rec /\ requests[slot].kind = "none" /\ rec.kind = "load"
      /\ \A p \in Requests : p # slot => requests'[p] = requests[p]
  BY <1>1, <1>2, BeganTyped DEF Began, Ask
<1>4. \A p \in Requests : \A k : Changes(p, k)' <=> Changes(p, k)
  BY <1>3 DEF Changes, ChangeKinds
<1>5. \A p \in Requests : Creates(p)' <=> Creates(p)
  BY <1>3 DEF Creates
<1>6. NoneBegins
  BY <1>4, <1>5 DEF NoneBegins, backend
<1>7. \A p \in Requests : /\ requests[p].kind \in ChangeKinds => requests'[p] = requests[p]
                          /\ requests'[p].kind \in ChangeKinds => requests'[p] = requests[p]
                          /\ requests[p].kind # "none" => requests'[p] = requests[p]
  BY <1>3 DEF ChangeKinds
<1>8. \A p \in Requests : Changes(p, Hook) => requests'[p] = requests[p]
  BY <1>7 DEF Changes
<1> QED
  BY <1>1, <1>3, <1>4, <1>6, <1>7, <1>8

LEMMA LoadIsSure ==
  ASSUME AgreementInv, TypeOK, BeginLoad, UNCHANGED backend, NEW q \in Requests
  PROVE  SureLoad(q)'
<1>1. PICK slot \in Requests :
         /\ \A p \in Requests : p # slot => requests'[p] = requests[p]
         /\ requests'[slot] = Ask("load", Nil, Nil, Undisturbed)
  BY LoadChangesNothing
<1>2. NoneBegins /\ table' = table /\ stored' = stored /\ lastId' = lastId
  BY LoadChangesNothing DEF backend
<1>3. CASE q # slot
  BY <1>1, <1>2, <1>3, SureKept DEF AgreementInv
<1>4. CASE q = slot
  <2>1. /\ requests'[q].sure = Undisturbed /\ requests'[q].rules = Nil
        /\ requests'[q].webhook = Nil
    BY <1>1, <1>4 DEF Ask
  <2>2. ASSUME NEW k \in Undisturbed
        PROVE  ~Changing(k)' /\ (k > lastId' => \A p \in Requests : ~Creates(p)')
    <3>1. k \in Keys /\ ~Changing(k) /\ (k > lastId => \A p \in Requests : ~Creates(p))
      BY DEF Undisturbed, Creates
    <3> QED
      BY <1>2, <3>1, ChangingIs DEF NoneBegins
  <2> QED
    BY <2>1, <2>2 DEF SureLoad
<1> QED
  BY <1>3, <1>4

LEMMA AgreePage ==
  ASSUME AgreementInv, Typed, Mount \/ Leave \/ Refresh \/ CancelEdit
  PROVE  AgreementInv'
<1>0. TypeOK /\ \A q \in Requests : requests[q] \in Request
  BY DEF Typed, TypeOK
<1>1. CASE CancelEdit
  BY <1>0, <1>1, AgreeStill DEF CancelEdit, hookForm
<1>2. CASE Mount
  <2>1. doubt' = Keys /\ BeginLoad /\ UNCHANGED backend
    BY <1>2 DEF Mount
  <2>2. \A r \in RuleIds : r \in doubt'
    BY <2>1 DEF Keys
  <2>3. Hook \in doubt'
    BY <2>1 DEF Keys
  <2>4. Certain' /\ HookInv' /\ \A r \in RuleIds : RuleInv(r)'
    BY <2>1, <2>2, <2>3 DEF Certain, HookInv, RuleInv
  <2> QED
    BY <1>0, <2>1, <2>4, LoadIsSure DEF AgreementInv
<1>3. CASE Refresh
  <2>1. /\ BeginLoad
        /\ UNCHANGED <<backend, mounted, rules, webhook, doubt>>
    BY <1>3 DEF Refresh, hookForm
  <2>2. /\ NoneBegins
        /\ \A p \in Requests : \A k : Changes(p, k)' <=> Changes(p, k)
        /\ \A p \in Requests : /\ requests[p].kind \in ChangeKinds => requests'[p] = requests[p]
                               /\ requests'[p].kind \in ChangeKinds => requests'[p] = requests[p]
                               /\ requests[p].kind # "none" => requests'[p] = requests[p]
    BY <1>0, <2>1, LoadChangesNothing
  <2>3. Certain'
    BY <2>1, <2>2, CertainKept DEF AgreementInv
  <2>4. \A q \in Requests : SureLoad(q)'
    BY <1>0, <2>1, LoadIsSure
  <2>5. ASSUME NEW r \in RuleIds PROVE RuleInv(r)'
    <3>1. \A p \in Requests : Changes(p, r) => requests'[p] = requests[p]
      BY <2>2 DEF Changes
    <3> QED
      BY <2>1, <2>2, <3>1, RuleKept DEF AgreementInv, backend
  <2>6. HookInv'
    <3>1. "webhook" \in ChangeKinds
      BY DEF ChangeKinds
    <3>2. \A p \in Requests :
             /\ requests'[p].kind = "webhook" <=> requests[p].kind = "webhook"
             /\ requests[p].kind = "webhook" => requests'[p] = requests[p]
      BY <2>2, <3>1
    <3> QED
      BY <2>1, <2>2, <3>2, HookKept DEF AgreementInv, backend
  <2> QED
    BY <2>3, <2>4, <2>5, <2>6 DEF AgreementInv
<1>4. CASE Leave
  <2>1. /\ mounted' = FALSE /\ UNCHANGED <<backend, doubt>>
        /\ requests' = [q \in Requests |-> IF requests[q].kind = "load" THEN Free
                                           ELSE [requests[q] EXCEPT !.current = FALSE]]
    BY <1>4 DEF Leave
  <2>2. ASSUME NEW q \in Requests
        PROVE  /\ requests'[q].kind # "load"
               /\ requests'[q].kind = IF requests[q].kind = "load" THEN "none"
                                      ELSE requests[q].kind
               /\ requests[q].kind # "load" =>
                    /\ requests'[q].target = requests[q].target
                    /\ requests'[q].stage = requests[q].stage
                    /\ requests'[q].input = requests[q].input
                    /\ requests'[q].webhook = requests[q].webhook
    <3>1. CASE requests[q].kind = "load"
      BY <2>1, <3>1, FreeTyped
    <3>2. CASE requests[q].kind # "load"
      BY <1>0, <2>1, <3>2 DEF Request
    <3> QED
      BY <3>1, <3>2
  <2>3. \A p \in Requests : \A k : Changes(p, k)' <=> Changes(p, k)
    BY <2>2 DEF Changes, ChangeKinds
  <2>4. \A p \in Requests : Creates(p)' <=> Creates(p)
    BY <2>2 DEF Creates
  <2>5. NoneBegins
    BY <2>1, <2>3, <2>4 DEF NoneBegins, backend
  <2>6. Certain'
    BY <2>1, <2>5, CertainKept DEF AgreementInv
  <2>7. \A q \in Requests : SureLoad(q)'
    BY <2>2 DEF SureLoad
  <2>8. ASSUME NEW r \in RuleIds PROVE RuleInv(r)'
    BY <2>1 DEF RuleInv
  <2>9. HookInv'
    BY <2>1, <2>2, <2>3, HookKept DEF AgreementInv, backend
  <2> QED
    BY <2>6, <2>7, <2>8, <2>9 DEF AgreementInv
<1> QED
  BY <1>1, <1>2, <1>3, <1>4

\* A change is sent only while no load is under way, and of a row that another
\* change is under way for it leaves doubt.
LEMMA AgreeSend ==
  ASSUME AgreementInv, WaitInv, Typed, Shown,
         NEW kind \in ChangeKinds, NEW k \in Keys \cup {Nil},
         NEW input \in {Nil} \cup RuleIds \cup Partial \cup Hooks, Send(kind, k, input),
         kind = "webhook" <=> k = Hook,
         kind = "webhook" => (input.header = Mask => webhook.header = Mask),
         UNCHANGED <<backend, mounted, rules, webhook>>
  PROVE  AgreementInv'
<1>0. TypeOK /\ mounted /\ doubt \subseteq doubt' /\ webhook \in Hooks \cup {DefaultWebhook}
      /\ doubt' = doubt \cup {j \in Keys : j = k /\ Changing(j)}
  BY SendBegins DEF Typed, TypeOK, Shown
<1>1. PICK rec \in Request : rec = Ask(kind, k, input, {})
  <2>1. Ask(kind, k, input, {}) \in Request
    BY DEF Ask, Request, Kinds, ChangeKinds
  <2> QED
    BY <2>1
<1>2. PICK slot \in Requests : Began(slot, rec)
  BY <1>1, SendBegins DEF Began
<1>3. /\ requests'[slot] = rec /\ requests[slot].kind = "none"
      /\ \A p \in Requests : p # slot => requests'[p] = requests[p]
  BY <1>0, <1>2, BeganTyped DEF Began
<1>4. /\ rec.kind = kind /\ rec.target = k /\ rec.input = input /\ rec.stage = "sent"
      /\ rec.current = TRUE /\ kind \notin {"none", "load"} /\ "none" \notin ChangeKinds
  BY <1>1 DEF Ask, ChangeKinds
<1>5. \A p \in Requests : requests'[p].kind # "load"
  <2>1. ~Asked({"load"})
    BY <1>0 DEF WaitInv, WaitsHonest, Shown
  <2>2. \A p \in Requests : requests[p].kind # "load"
    BY <2>1 DEF WaitInv, Current, Asked
  <2> QED
    BY <1>3, <1>4, <2>2
<1>6. ASSUME NEW j, NEW p \in Requests
      PROVE  /\ p # slot => (Changes(p, j)' <=> Changes(p, j))
             /\ Changes(slot, j)' <=> j = k
             /\ ~Changes(slot, j)
  BY <1>3, <1>4 DEF Changes
<1>7. ASSUME NEW j \in Keys, j \notin doubt' PROVE j \notin doubt /\ (j = k => ~Changing(j))
  BY <1>0, <1>7
<1>8. Certain'
  <2>1. SUFFICES ASSUME NEW j \in Keys, j \notin doubt'
                 PROVE  /\ \A p, q \in Requests : Changes(p, j)' /\ Changes(q, j)' => p = q
                        /\ mounted' => \A q \in Requests :
                             Changes(q, j)' \/ (j > lastId' /\ Creates(q)') =>
                               requests'[q].current
    BY DEF Certain
  <2>2. /\ \A p, q \in Requests : Changes(p, j) /\ Changes(q, j) => p = q
        /\ \A q \in Requests : Changes(q, j) \/ (j > lastId /\ Creates(q)) =>
             requests[q].current
        /\ j = k => \A p \in Requests : ~Changes(p, j)
    BY <1>0, <1>7, <2>1, ChangingIs DEF AgreementInv, Certain
  <2>3. \A p, q \in Requests : Changes(p, j)' /\ Changes(q, j)' => p = q
    BY <1>6, <2>2
  <2>4. ASSUME NEW q \in Requests, Changes(q, j)' \/ (j > lastId' /\ Creates(q)')
        PROVE  requests'[q].current
    <3>1. CASE q = slot
      BY <1>3, <1>4, <3>1
    <3>2. CASE q # slot
      <4>1. Creates(q)' => Creates(q)
        BY <1>3, <3>2 DEF Creates
      <4> QED
        BY <1>3, <1>6, <2>2, <2>4, <3>2, <4>1 DEF backend
    <3> QED
      BY <3>1, <3>2
  <2> QED
    BY <2>3, <2>4
<1>9. \A q \in Requests : SureLoad(q)'
  BY <1>5 DEF SureLoad
<1>10. ASSUME NEW r \in RuleIds PROVE RuleInv(r)'
  <2>1. CASE r # k
    BY <1>0, <1>3, <1>6, <2>1, RuleKept DEF AgreementInv, backend
  <2>2. CASE r = k
    <3>1. SUFFICES ASSUME r \notin doubt' PROVE RuleInv(r)'
      BY DEF RuleInv
    <3>2. r \in Keys
      BY <1>0, IdsAreKeys
    <3>3. r \notin doubt /\ ~Changing(r)
      BY <1>7, <2>2, <3>1, <3>2
    <3>4. rules[r] = Rows[r] /\ Rows'[r] = Rows[r] /\ rules'[r] = rules[r]
      BY <1>0, <3>3 DEF AgreementInv, RuleInv, Rows, backend
    <3>5. \A q \in Requests : Changes(q, r)' => q = slot
      BY <1>6, <3>3, ChangingIs
    <3>6. \A q \in Requests : Changes(q, r)' => requests'[q].stage # "done"
      BY <1>3, <1>4, <3>5
    <3>7. rules'[r] = Rows'[r]
      BY <3>4
    <3> QED
      BY <3>6, <3>7 DEF RuleInv, Is
  <2> QED
    BY <2>1, <2>2
<1>11. HookInv'
  <2>1. CASE kind # "webhook"
    <3>1. \A p \in Requests :
             /\ Changes(p, Hook)' <=> Changes(p, Hook)
             /\ requests'[p].kind = "webhook" <=> requests[p].kind = "webhook"
             /\ requests[p].kind = "webhook" => requests'[p] = requests[p]
      BY <1>3, <1>4, <1>6, <2>1
    <3> QED
      BY <1>0, <3>1, HookKept DEF AgreementInv, backend
  <2>2. CASE kind = "webhook"
    <3>1. SUFFICES ASSUME Hook \notin doubt' PROVE HookInv'
      BY DEF HookInv
    <3>2. Hook \in Keys /\ k = Hook
      BY <1>0, <2>2, IdsAreKeys
    <3>3. Hook \notin doubt /\ ~Changing(Hook)
      BY <1>7, <3>1, <3>2
    <3>4. webhook = maskWebhookHeaders(stored)
      BY <1>0, <3>3 DEF AgreementInv, HookInv
    <3>5. webhook' = maskWebhookHeaders(stored)' /\ (Masked <=> Masked')
      BY <3>4 DEF backend, Masked, maskWebhookHeaders
    <3>6. input.header = Mask => Masked
      BY <2>2, <3>4, NilIsNothing DEF maskWebhookHeaders, Masked, DefaultWebhook
    <3>7. ASSUME NEW q \in Requests, requests'[q].kind = "webhook" PROVE q = slot
      <4>1. requests[q].kind = "webhook" => Changes(q, Hook)
        BY DEF Typed, Shaped, Changes, ChangeKinds
      <4> QED
        BY <1>3, <3>3, <3>7, <4>1, ChangingIs
    <3>8. Changing(Hook)'
      BY <1>6, <3>2, ChangingIs
    <3> QED
      BY <1>3, <1>4, <3>5, <3>6, <3>7, <3>8 DEF HookInv
  <2> QED
    BY <2>1, <2>2
<1> QED
  BY <1>8, <1>9, <1>10, <1>11 DEF AgreementInv

LEMMA AgreeRows ==
  ASSUME AgreementInv, WaitInv, Typed, NEW row \in Listed,
         toggleRule(row) \/ Edit(row) \/ AskDelete(row) \/ CancelDelete(row)
                         \/ ConfirmDelete(row)
  PROVE  AgreementInv'
<1>0. TypeOK /\ Given
  BY DEF Typed
<1>1. /\ row.id \in Ids /\ row.settings.enabled \in BOOLEAN /\ Shown
      /\ Ids \subseteq RuleIds /\ Ids \subseteq Keys /\ Hook \notin RuleIds
      /\ {"toggle", "delete"} \subseteq ChangeKinds
  BY <1>0, ListedGiven, IdsAreKeys DEF ChangeKinds
<1>2. CASE toggleRule(row)
  <2> DEFINE update == [config |-> Nil, enabled |-> ~row.settings.enabled]
  <2>1. /\ Send("toggle", row.id, update)
        /\ UNCHANGED <<backend, mounted, rules, hookForm>>
    BY <1>2 DEF toggleRule
  <2>2. update \in Partial
    BY <1>1 DEF Partial
  <2> HIDE DEF update
  <2> QED
    BY <1>0, <1>1, <2>1, <2>2, AgreeSend DEF hookForm
<1>3. CASE ConfirmDelete(row)
  <2>1. /\ Send("delete", row.id, editing)
        /\ UNCHANGED <<backend, mounted, rules, hookForm>>
    BY <1>3 DEF ConfirmDelete
  <2>2. editing \in {Nil} \cup RuleIds
    BY <1>0, <1>1 DEF Given
  <2> QED
    BY <1>0, <1>1, <2>1, <2>2, AgreeSend DEF hookForm
<1>4. CASE Edit(row) \/ AskDelete(row) \/ CancelDelete(row)
  BY <1>0, <1>4, AgreeStill DEF Edit, AskDelete, CancelDelete, form, hookForm
<1> QED
  BY <1>2, <1>3, <1>4

LEMMA AgreeSubmits ==
  ASSUME AgreementInv, WaitInv, Typed,
         \/ \E settings \in Settings : SubmitRule(settings)
         \/ \E url \in Urls, header \in Secrets \cup {Mask, Nil} : SubmitWebhook(url, header)
  PROVE  AgreementInv'
<1>0. TypeOK /\ Given
  BY DEF Typed
<1>1. /\ {"create", "save", "webhook"} \subseteq ChangeKinds
      /\ Ids \subseteq Keys /\ Hook \in Keys /\ Hook \notin Ids /\ Nil # Hook
  BY <1>0, IdsAreKeys, NilIsNothing DEF ChangeKinds
<1>2. ASSUME NEW settings \in Settings, SubmitRule(settings) PROVE AgreementInv'
  <2>1. Shown /\ UNCHANGED <<backend, mounted, rules, hookForm>>
    BY <1>2 DEF SubmitRule
  <2>2. settings \in Partial
    BY DEF Settings, Partial
  <2>3. CASE editing = Nil
    <3>1. Send("create", Nil, settings)
      BY <1>2, <2>3 DEF SubmitRule
    <3> QED
      BY <1>0, <1>1, <2>1, <2>2, <3>1, AgreeSend DEF hookForm
  <2>4. CASE editing # Nil
    <3>1. Send("save", editing, settings) /\ editing \in Ids
      BY <1>0, <1>2, <2>4 DEF SubmitRule, Given
    <3> QED
      BY <1>0, <1>1, <2>1, <2>2, <3>1, AgreeSend DEF hookForm
  <2> QED
    BY <2>3, <2>4
<1>3. ASSUME NEW url \in Urls, NEW header \in Secrets \cup {Mask, Nil},
             SubmitWebhook(url, header)
      PROVE  AgreementInv'
  <2> DEFINE input == [url |-> url, header |-> header]
  <2>1. /\ Send("webhook", Hook, input) /\ Shown
        /\ UNCHANGED <<backend, mounted, rules, webhook>>
        /\ header = Mask => webhook.header = Mask
    BY <1>3 DEF SubmitWebhook
  <2>2. input \in Hooks /\ input.header = header
    BY DEF Hooks
  <2> HIDE DEF input
  <2> QED
    BY <1>1, <2>1, <2>2, AgreeSend
<1> QED
  BY <1>2, <1>3

-------------------------------------------------------------------------------
(* The agreement: what the handlers do.                                    *)

\* A request that changes the webhook is known by its row as by its kind.
LEMMA HookRequests ==
  ASSUME Typed, NEW q \in Requests
  PROVE  /\ requests[q].kind = "webhook" <=> Changes(q, Hook)
         /\ requests[q].kind \in {"none", "load"} => \A k : ~Changes(q, k)
         /\ requests[q].kind \in PatchKinds \cup {"delete"} =>
              /\ requests[q].target \in Ids /\ requests[q].target \in RuleIds
              /\ \A k : Changes(q, k) <=> k = requests[q].target
         /\ Creates(q) => \A k \in Keys : Changes(q, k) => k \in Ids
<1>1. /\ Ids \subseteq RuleIds /\ Hook \notin RuleIds
      /\ "webhook" \in ChangeKinds /\ "none" \notin ChangeKinds /\ "load" \notin ChangeKinds
      /\ PatchKinds \subseteq ChangeKinds /\ "delete" \in ChangeKinds
      /\ ChangeKinds = {"create", "delete", "webhook"} \cup PatchKinds
      /\ Nil # Hook /\ Nil \notin Keys
  BY IdsAreKeys, NilIsNothing DEF Typed, ChangeKinds, PatchKinds
<1>2. Shaped(q)
  BY DEF Typed
<1>3. requests[q].kind \in PatchKinds \cup {"delete"} => requests[q].target \in Ids
  BY <1>2 DEF Shaped
<1>4. requests[q].kind = "create" => requests[q].target \in Ids \cup {Nil}
  BY <1>2 DEF Shaped
<1>5. requests[q].kind = "webhook" => requests[q].target = Hook
  BY <1>2 DEF Shaped
<1> QED
  BY <1>1, <1>3, <1>4, <1>5 DEF Changes, Creates

LEMMA HandlerKeeps ==
  ASSUME AgreementInv, Typed, NEW q \in Requests, Handles(q),
         requests'[q].target = requests[q].target, lastId' = lastId
  PROVE  /\ NoneBegins /\ Certain'
         /\ \A p \in Requests : \A k : Changes(p, k)' <=> Changes(p, k)
<1>1. \A p \in Requests : \A k : Changes(p, k)' <=> Changes(p, k)
  BY HandlersQuiet DEF Changes
<1>2. \A p \in Requests : Creates(p)' <=> Creates(p)
  BY HandlersQuiet DEF Creates
<1>3. NoneBegins
  BY <1>1, <1>2 DEF NoneBegins
<1>4. Certain'
  BY <1>3, HandlersQuiet, CertainKept DEF AgreementInv
<1> QED
  BY <1>1, <1>3, <1>4

LEMMA AgreeListing ==
  ASSUME AgreementInv, Typed, NEW q \in Requests, ListRules(q) \/ GetWebhook(q)
  PROVE  AgreementInv'
<1>0. TypeOK /\ requests \in [Requests -> Request] /\ requests[q] \in Request
  BY DEF Typed, TypeOK
<1>1. Handles(q) /\ UNCHANGED <<table, stored, lastId>> /\ requests[q].kind = "load"
  BY DEF Handles, ListRules, GetWebhook, backend, Is
<1>2. /\ UNCHANGED <<mounted, rules, webhook, doubt>>
      /\ \A p \in Requests : /\ requests'[p].kind = requests[p].kind
                             /\ p # q => requests'[p] = requests[p]
      /\ requests'[q].sure = requests[q].sure
  BY <1>1, HandlersQuiet
<1>3. /\ requests'[q].target = requests[q].target
      /\ requests'[q].rules = requests[q].rules \/ requests'[q].rules = Rows
      /\ requests'[q].webhook = requests[q].webhook
           \/ requests'[q].webhook = maskWebhookHeaders(stored)
  <2>1. CASE ListRules(q)
    BY <1>0, <2>1 DEF ListRules, Request
  <2>2. CASE GetWebhook(q)
    BY <1>0, <2>2 DEF GetWebhook, Request
  <2> QED
    BY <2>1, <2>2
<1>4. /\ NoneBegins /\ Certain'
      /\ \A p \in Requests : \A k : Changes(p, k)' <=> Changes(p, k)
  BY <1>1, <1>3, HandlerKeeps
<1>5. \A k : ~Changes(q, k)
  BY <1>1, HookRequests
<1>6. ASSUME NEW p \in Requests PROVE SureLoad(p)'
  <2>1. CASE p # q
    BY <1>0, <1>1, <1>2, <1>4, <2>1, SureKept DEF AgreementInv
  <2>2. CASE p = q
    <3>1. ASSUME NEW k \in requests[q].sure
          PROVE  /\ ~Changing(k)'
                 /\ k > lastId' => \A x \in Requests : ~Creates(x)'
                 /\ k \in RuleIds /\ requests'[q].rules # Nil =>
                      requests'[q].rules[k] = Rows'[k]
                 /\ k = Hook /\ requests'[q].webhook # Nil =>
                      requests'[q].webhook = maskWebhookHeaders(stored)'
      <4>1. k \in Keys
        BY <1>0 DEF Request
      <4>2. /\ ~Changing(k)
            /\ k > lastId => \A x \in Requests : ~Creates(x)
            /\ k \in RuleIds /\ requests[q].rules # Nil => requests[q].rules[k] = Rows[k]
            /\ k = Hook /\ requests[q].webhook # Nil =>
                 requests[q].webhook = maskWebhookHeaders(stored)
        BY <1>1 DEF AgreementInv, SureLoad
      <4>3. Rows' = Rows /\ maskWebhookHeaders(stored)' = maskWebhookHeaders(stored)
        BY <1>1 DEF Rows, maskWebhookHeaders
      <4>4. ~Changing(k)'
        BY <1>4, <4>2, ChangingIs
      <4>5. k > lastId' => \A x \in Requests : ~Creates(x)'
        BY <1>1, <1>4, <4>2 DEF NoneBegins
      <4> QED
        BY <1>3, <4>2, <4>3, <4>4, <4>5
    <3> QED
      BY <1>2, <2>2, <3>1 DEF SureLoad
  <2> QED
    BY <2>1, <2>2
<1>7. ASSUME NEW r \in RuleIds PROVE RuleInv(r)'
  BY <1>1, <1>2, <1>4, <1>5, RuleKept DEF AgreementInv
<1>8. HookInv'
  BY <1>1, <1>2, <1>4, HookKept DEF AgreementInv
<1> QED
  BY <1>4, <1>6, <1>7, <1>8 DEF AgreementInv

\* The row a change is for is beyond doubt only if the page shows it.
LEMMA AgreeRuleHandlers ==
  ASSUME AgreementInv, Typed, NEW q \in Requests,
         ReadRule(q) \/ UpdateRule(q) \/ DeleteRule(q)
  PROVE  AgreementInv'
<1>t. PICK t \in RuleIds : t = requests[q].target
  BY HookRequests DEF ReadRule, UpdateRule, DeleteRule, Is
<1>0. /\ TypeOK /\ requests \in [Requests -> Request] /\ requests[q] \in Request
      /\ table \in [RuleIds -> Settings \cup {Nil}]
  BY DEF Typed, TypeOK
<1>1. /\ Handles(q) /\ UNCHANGED <<stored, lastId>> /\ table[t] # Nil
      /\ requests[q].stage # "done"
      /\ requests[q].kind \in PatchKinds \cup {"delete"}
      /\ \A r \in RuleIds : r # t => table'[r] = table[r]
  BY <1>0, <1>t DEF Handles, ReadRule, UpdateRule, DeleteRule, backend, Is
<1>2. /\ UNCHANGED <<mounted, rules, webhook, doubt>>
      /\ \A p \in Requests : /\ requests'[p].kind = requests[p].kind
                             /\ p # q => requests'[p] = requests[p]
  BY <1>1, HandlersQuiet
<1>3. /\ requests'[q].target = t
      /\ \/ requests'[q].stage = "read" /\ table'[t] = table[t]
         \/ /\ requests'[q].stage = "done" /\ requests[q].kind = "delete"
            /\ table'[t] = Nil
         \/ /\ requests'[q].stage = "done" /\ requests[q].kind \in PatchKinds
            /\ table'[t] = requests'[q].input
  <2>2. CASE ReadRule(q)
    BY <1>0, <1>t, <2>2 DEF ReadRule, Request, backend
  <2>3. CASE UpdateRule(q)
    BY <1>0, <1>t, <2>3 DEF UpdateRule, Request, Is
  <2>4. CASE DeleteRule(q)
    BY <1>0, <1>t, <2>4 DEF DeleteRule, Request, Is
  <2> QED
    BY <2>2, <2>3, <2>4
<1>4. /\ NoneBegins /\ Certain'
      /\ \A p \in Requests : \A k : Changes(p, k)' <=> Changes(p, k)
  BY <1>1, <1>3, <1>t, HandlerKeeps
<1>5. /\ \A k : Changes(q, k) <=> k = t
      /\ t \in RuleIds /\ t \in Keys /\ t # Hook
      /\ requests[q].kind \notin {"webhook", "load"}
  <2>1. {"webhook", "load"} \cap (PatchKinds \cup {"delete"}) = {}
    BY DEF PatchKinds
  <2> QED
    BY <1>0, <1>1, <1>t, <2>1, HookRequests, IdsAreKeys
<1>6. ASSUME NEW p \in Requests PROVE SureLoad(p)'
  <2>1. CASE p # q
    <3>1. requests[p].kind = "load" => \A k \in requests[p].sure : ~Changing(k)
      BY DEF AgreementInv, SureLoad
    <3>2. requests[p].kind = "load" => t \notin requests[p].sure
      BY <1>5, <3>1, ChangingIs
    <3>3. CASE requests[p].kind = "load"
      BY <1>0, <1>1, <1>2, <1>4, <2>1, <3>2, <3>3, SureKept DEF AgreementInv
    <3>4. CASE requests[p].kind # "load"
      BY <1>2, <3>4 DEF SureLoad
    <3> QED
      BY <3>3, <3>4
  <2>2. CASE p = q
    BY <1>2, <1>5, <2>2 DEF SureLoad
  <2> QED
    BY <2>1, <2>2
<1>7. ASSUME NEW r \in RuleIds PROVE RuleInv(r)'
  <2>1. CASE r # t
    <3>1. \A p \in Requests : Changes(p, r) => requests'[p] = requests[p]
      BY <1>2, <1>5, <2>1
    <3> QED
      BY <1>1, <1>2, <1>4, <2>1, <3>1, RuleKept DEF AgreementInv
  <2>2. CASE r = t
    <3>1. SUFFICES ASSUME mounted, t \notin doubt PROVE RuleInv(t)'
      BY <1>2, <2>2 DEF RuleInv
    <3>2. rules[t] = Rows[t]
      BY <1>1, <1>5, <3>1 DEF AgreementInv, RuleInv
    <3>3. \A p \in Requests : Changes(p, t)' => p = q
      BY <1>4, <1>5, <3>1 DEF AgreementInv, Certain
    <3>4. Changing(t)'
      BY <1>4, <1>5, ChangingIs
    <3>5. rules' = rules /\ Rows[t] = <<table[t]>> /\ Len(rules[t]) = 1
      BY <1>1, <1>2, <1>5, <3>2 DEF Rows
    <3>6. table'[t] = table[t] => Rows'[t] = Rows[t]
      BY <1>5 DEF Rows
    <3>7. /\ requests'[q].stage # "done" => rules'[t] = Rows'[t]
          /\ Is(q, {"delete"}, "done")' => table'[t] = Nil
          /\ ~Is(q, {"create"}, "done")'
          /\ Is(q, PatchKinds, "done")' =>
               Len(rules'[t]) = 1 /\ table'[t] = requests'[q].input
      BY <1>1, <1>2, <1>3, <3>2, <3>5, <3>6 DEF Is, PatchKinds
    <3> QED
      BY <3>3, <3>4, <3>7 DEF RuleInv
  <2> QED
    BY <2>1, <2>2
<1>8. HookInv'
  <2>1. \A p \in Requests : requests[p].kind = "webhook" => requests'[p] = requests[p]
    BY <1>2, <1>5
  <2> QED
    BY <1>1, <1>2, <1>4, <2>1, HookKept DEF AgreementInv
<1> QED
  BY <1>4, <1>6, <1>7, <1>8 DEF AgreementInv

LEMMA AgreeCreate ==
  ASSUME AgreementInv, Typed, NEW q \in Requests, CreateRule(q)
  PROVE  AgreementInv'
<1>0. /\ TypeOK /\ requests \in [Requests -> Request] /\ requests[q] \in Request
      /\ table \in [RuleIds -> Settings \cup {Nil}] /\ Given
  BY DEF Typed, TypeOK
<1>1. PICK n \in RuleIds : n = lastId + 1
  <2>1. lastId \in Nat /\ MaxRules \in Nat /\ lastId < MaxRules
    BY <1>0, IdsAreKeys DEF CreateRule
  <2> QED
    BY <2>1 DEF RuleIds
<1>2. /\ Handles(q) /\ stored' = stored /\ lastId' = n
      /\ requests[q].kind = "create" /\ requests[q].stage = "sent"
      /\ table' = [table EXCEPT ![n] = requests[q].input]
  BY <1>1 DEF Handles, CreateRule, Is
<1>3. /\ UNCHANGED <<mounted, rules, webhook, doubt>>
      /\ \A p \in Requests : /\ requests'[p].kind = requests[p].kind
                             /\ requests'[p].current = requests[p].current
                             /\ p # q => requests'[p] = requests[p]
  BY <1>2, HandlersQuiet
<1>4. /\ requests'[q].target = n /\ requests'[q].stage = "done"
      /\ requests'[q].input = requests[q].input
  BY <1>0, <1>1 DEF CreateRule, Request
<1>5. /\ n \notin Ids /\ n \in Keys /\ n > lastId /\ n # Hook /\ lastId \in Nat
      /\ \A k \in Keys : k > lastId' => k > lastId /\ k # n
  <2>1. lastId \in Nat /\ n = lastId + 1 /\ n \in Keys /\ n # Hook
    BY <1>0, <1>1, IdsAreKeys
  <2>2. \A k \in Keys : k \in Nat
    BY <1>0, IdsAreKeys
  <2> QED
    BY <1>2, <2>1, <2>2 DEF Ids
<1>6. /\ table'[n] = requests[q].input
      /\ \A r \in RuleIds : r # n => table'[r] = table[r]
  BY <1>0, <1>2
<1>7. /\ Shaped(q) /\ requests[q].target = Nil
  BY <1>2 DEF Typed, Shaped
<1>8. /\ \A k \in Keys : ~Changes(q, k)
      /\ \A k : Changes(q, k)' <=> k = n
      /\ \A p \in Requests : p # q => \A k : Changes(p, k)' <=> Changes(p, k)
      /\ \A p \in Requests : ~Changes(p, n)
      /\ \A p \in Requests : Creates(p)' <=> Creates(p)
  <2>1. \A k \in Keys : ~Changes(q, k)
    BY <1>7, NilIsNothing DEF Changes
  <2>2. \A k : Changes(q, k)' <=> k = n
    BY <1>2, <1>3, <1>4 DEF Changes, ChangeKinds
  <2>3. \A p \in Requests : p # q => \A k : Changes(p, k)' <=> Changes(p, k)
    BY <1>3 DEF Changes
  <2>4. \A p \in Requests : ~Changes(p, n)
    <3>1. ASSUME NEW p \in Requests, Changes(p, n) PROVE FALSE
      <4>1. requests[p].kind \in {"create", "webhook", "delete"} \cup PatchKinds
        BY <3>1 DEF Changes, ChangeKinds, PatchKinds
      <4>2. CASE requests[p].kind = "create"
        BY <1>5, <3>1, <4>2, HookRequests DEF Creates
      <4>3. CASE requests[p].kind = "webhook"
        BY <1>5, <3>1, <4>3 DEF Typed, Shaped, Changes
      <4>4. CASE requests[p].kind \in {"delete"} \cup PatchKinds
        BY <1>5, <3>1, <4>4, HookRequests
      <4> QED
        BY <4>1, <4>2, <4>3, <4>4
    <3> QED
      BY <3>1
  <2>5. \A p \in Requests : Creates(p)' <=> Creates(p)
    BY <1>3 DEF Creates
  <2> QED
    BY <2>1, <2>2, <2>3, <2>4, <2>5
<1>9. Certain'
  <2>1. SUFFICES ASSUME NEW k \in Keys, k \notin doubt'
                 PROVE  /\ \A x, y \in Requests : Changes(x, k)' /\ Changes(y, k)' => x = y
                        /\ mounted' => \A x \in Requests :
                             Changes(x, k)' \/ (k > lastId' /\ Creates(x)') =>
                               requests'[x].current
    BY DEF Certain
  <2>2. /\ \A x, y \in Requests : Changes(x, k) /\ Changes(y, k) => x = y
        /\ mounted => \A x \in Requests :
             Changes(x, k) \/ (k > lastId /\ Creates(x)) => requests[x].current
    BY <1>3, <2>1 DEF AgreementInv, Certain
  <2>3. Creates(q)
    BY <1>2 DEF Creates
  <2> QED
    BY <1>3, <1>5, <1>8, <2>2, <2>3
<1>10. ASSUME NEW p \in Requests PROVE SureLoad(p)'
  <2>1. CASE p # q /\ requests[p].kind = "load"
    <3>1. requests'[p] = requests[p]
      BY <1>3, <2>1
    <3>2. ASSUME NEW k \in requests[p].sure
          PROVE  /\ ~Changing(k)'
                 /\ k > lastId' => \A x \in Requests : ~Creates(x)'
                 /\ k \in RuleIds /\ requests[p].rules # Nil =>
                      requests[p].rules[k] = Rows'[k]
                 /\ k = Hook /\ requests[p].webhook # Nil =>
                      requests[p].webhook = maskWebhookHeaders(stored)'
      <4>1. k \in Keys
        BY <1>0 DEF Request
      <4>2. /\ ~Changing(k)
            /\ k > lastId => \A x \in Requests : ~Creates(x)
            /\ k \in RuleIds /\ requests[p].rules # Nil => requests[p].rules[k] = Rows[k]
            /\ k = Hook /\ requests[p].webhook # Nil =>
                 requests[p].webhook = maskWebhookHeaders(stored)
        BY <2>1 DEF AgreementInv, SureLoad
      <4>3. k # n
        BY <1>2, <1>5, <4>2 DEF Creates
      <4>4. /\ k \in RuleIds => Rows'[k] = Rows[k]
            /\ maskWebhookHeaders(stored)' = maskWebhookHeaders(stored)
        BY <1>2, <1>6, <4>3 DEF Rows, maskWebhookHeaders
      <4>5. ~Changing(k)'
        BY <1>8, <4>2, <4>3, ChangingIs
      <4>6. k > lastId' => \A x \in Requests : ~Creates(x)'
        BY <1>5, <1>8, <4>1, <4>2
      <4> QED
        BY <4>2, <4>4, <4>5, <4>6
    <3> QED
      BY <3>1, <3>2 DEF SureLoad
  <2>2. CASE p = q \/ requests[p].kind # "load"
    BY <1>2, <1>3, <2>2 DEF SureLoad
  <2> QED
    BY <2>1, <2>2
<1>11. ASSUME NEW r \in RuleIds PROVE RuleInv(r)'
  <2>0. r \in Keys
    BY <1>0, IdsAreKeys
  <2>1. CASE r # n
    <3>1. \A p \in Requests : Changes(p, r)' <=> Changes(p, r)
      BY <1>8, <2>0, <2>1
    <3>2. \A p \in Requests : Changes(p, r) => requests'[p] = requests[p]
      BY <1>3, <1>8, <2>0
    <3> QED
      BY <1>3, <1>6, <2>1, <3>1, <3>2, RuleKept DEF AgreementInv
  <2>2. CASE r = n
    <3>1. rules'[n] = <<>>
      BY <1>0, <1>3, <1>5 DEF Given
    <3>2. \A p \in Requests : Changes(p, n)' => p = q
      BY <1>8
    <3>3. Changing(n)'
      BY <1>8, ChangingIs
    <3>4. /\ requests'[q].stage = "done" /\ requests'[q].kind = "create"
          /\ "create" \notin PatchKinds /\ table'[n] = requests'[q].input
      BY <1>2, <1>3, <1>4, <1>6 DEF PatchKinds
    <3> QED
      BY <2>2, <3>1, <3>2, <3>3, <3>4 DEF RuleInv, Is
  <2> QED
    BY <2>1, <2>2
<1>12. HookInv'
  <2>1. \A p \in Requests : Changes(p, Hook)' <=> Changes(p, Hook)
    <3>1. Hook \in Keys
      BY <1>0, IdsAreKeys
    <3> QED
      BY <1>5, <1>8, <3>1
  <2>2. \A p \in Requests : requests[p].kind = "webhook" => requests'[p] = requests[p]
    BY <1>2, <1>3
  <2> QED
    BY <1>2, <1>3, <2>1, <2>2, HookKept DEF AgreementInv
<1> QED
  BY <1>9, <1>10, <1>11, <1>12 DEF AgreementInv

LEMMA AgreeHookHandlers ==
  ASSUME AgreementInv, Typed, NEW q \in Requests, ReadWebhook(q) \/ PutWebhook(q)
  PROVE  AgreementInv'
<1>0. /\ TypeOK /\ requests \in [Requests -> Request] /\ requests[q] \in Request
  BY DEF Typed, TypeOK
<1>1. /\ Handles(q) /\ UNCHANGED <<table, lastId>> /\ requests[q].kind = "webhook"
      /\ requests[q].stage # "done"
  BY DEF Handles, ReadWebhook, PutWebhook, backend, Is
<1>2. /\ UNCHANGED <<mounted, rules, webhook, doubt>>
      /\ \A p \in Requests : /\ requests'[p].kind = requests[p].kind
                             /\ p # q => requests'[p] = requests[p]
  BY <1>1, HandlersQuiet
<1>3. /\ requests'[q].target = requests[q].target /\ requests'[q].input = requests[q].input
      /\ \/ /\ requests'[q].stage = "read" /\ stored' = stored
            /\ requests'[q].webhook = restoreMaskedHeaders(requests[q].input, stored)
         \/ requests'[q].stage = "done" /\ requests'[q].webhook = stored'
  <2>1. CASE ReadWebhook(q)
    BY <1>0, <2>1 DEF ReadWebhook, Request, backend
  <2>2. CASE PutWebhook(q)
    BY <1>0, <2>2 DEF PutWebhook, Request
  <2> QED
    BY <2>1, <2>2
<1>4. /\ NoneBegins /\ Certain'
      /\ \A p \in Requests : \A k : Changes(p, k)' <=> Changes(p, k)
  BY <1>1, <1>3, HandlerKeeps
<1>5. Changes(q, Hook) /\ Hook \in Keys
  BY <1>0, <1>1, HookRequests, IdsAreKeys
<1>6. ASSUME NEW p \in Requests PROVE SureLoad(p)'
  <2>1. CASE p # q /\ requests[p].kind = "load"
    <3>1. Hook \notin requests[p].sure
      BY <1>5, <2>1, ChangingIs DEF AgreementInv, SureLoad
    <3> QED
      BY <1>0, <1>1, <1>2, <1>4, <2>1, <3>1, SureKept DEF AgreementInv
  <2>2. CASE p = q \/ requests[p].kind # "load"
    BY <1>1, <1>2, <2>2 DEF SureLoad
  <2> QED
    BY <2>1, <2>2
<1>7. ASSUME NEW r \in RuleIds PROVE RuleInv(r)'
  <2>1. ~Changes(q, r)
    BY <1>0, <1>5, IdsAreKeys DEF Changes
  <2>2. \A p \in Requests : Changes(p, r) => requests'[p] = requests[p]
    BY <1>2, <2>1
  <2> QED
    BY <1>1, <1>2, <1>4, <2>2, RuleKept DEF AgreementInv
<1>8. HookInv'
  <2>1. SUFFICES ASSUME Hook \notin doubt PROVE HookInv'
    BY <1>2 DEF HookInv
  <2>2. \A p \in Requests : requests'[p].kind = "webhook" => p = q
    BY <1>2, <1>5, <2>1, HookRequests DEF AgreementInv, Certain
  <2>3. Changing(Hook)'
    BY <1>4, <1>5, ChangingIs
  <2>4. /\ mounted => webhook = maskWebhookHeaders(stored)
        /\ requests[q].input.header = Mask => Masked
    BY <1>1, <2>1 DEF AgreementInv, HookInv
  <2>5. CASE requests'[q].stage = "read" /\ stored' = stored
    <3>1. /\ maskWebhookHeaders(stored)' = maskWebhookHeaders(stored)
          /\ Masked' <=> Masked
          /\ restoreMaskedHeaders(requests'[q].input, stored')
               = restoreMaskedHeaders(requests[q].input, stored)
      BY <1>3, <2>5 DEF maskWebhookHeaders, Masked, restoreMaskedHeaders
    <3> QED
      BY <1>2, <1>3, <2>2, <2>3, <2>4, <2>5, <3>1 DEF HookInv
  <2>6. CASE requests'[q].stage = "done" /\ requests'[q].webhook = stored'
    BY <2>2, <2>3, <2>6 DEF HookInv
  <2> QED
    BY <1>3, <2>5, <2>6
<1> QED
  BY <1>4, <1>6, <1>7, <1>8 DEF AgreementInv

-------------------------------------------------------------------------------
(* The agreement: the answers.                                             *)

LEMMA EndBegins ==
  ASSUME TypeOK, NEW q \in Requests, requests' = Without(q), lastId' = lastId
  PROVE  /\ NoneBegins
         /\ \A k : ~Changes(q, k)'
         /\ \A p \in Requests : p # q => /\ requests'[p] = requests[p]
                                         /\ \A k : Changes(p, k)' <=> Changes(p, k)
         /\ requests'[q].kind = "none"
<1>1. /\ requests'[q].kind = "none"
      /\ \A p \in Requests : p # q => requests'[p] = requests[p]
  BY WithoutTyped, FreeTyped
<1>2. \A k : ~Changes(q, k)'
  BY <1>1 DEF Changes, ChangeKinds
<1>3. \A p \in Requests : p # q => \A k : Changes(p, k)' <=> Changes(p, k)
  BY <1>1 DEF Changes
<1>4. \A p \in Requests : Creates(p)' => Creates(p)
  BY <1>1 DEF Creates
<1> QED
  BY <1>1, <1>2, <1>3, <1>4 DEF NoneBegins

\* An answer, or a failure, leaves the page right about the row of the change.
LEMMA AgreeEnd ==
  ASSUME AgreementInv, Typed, NEW q \in Requests, requests' = Without(q),
         UNCHANGED <<backend, mounted>>, doubt \subseteq doubt',
         \A r \in RuleIds : mounted /\ r \notin doubt' =>
             rules'[r] = IF Changes(q, r) THEN Rows[r] ELSE rules[r],
         mounted /\ Hook \notin doubt' =>
             webhook' = IF Changes(q, Hook) THEN maskWebhookHeaders(stored) ELSE webhook
  PROVE  AgreementInv'
<1>0. TypeOK /\ table' = table /\ stored' = stored /\ lastId' = lastId /\ mounted' = mounted
  BY DEF Typed, backend
<1>1. /\ NoneBegins
      /\ \A k : ~Changes(q, k)'
      /\ \A p \in Requests : p # q => /\ requests'[p] = requests[p]
                                      /\ \A k : Changes(p, k)' <=> Changes(p, k)
      /\ requests'[q].kind = "none"
  BY <1>0, EndBegins
<1>2. Certain'
  BY <1>0, <1>1, CertainKept DEF AgreementInv, ChangeKinds
<1>3. ASSUME NEW p \in Requests PROVE SureLoad(p)'
  <2>1. CASE p # q
    BY <1>0, <1>1, <2>1, SureKept DEF AgreementInv
  <2>2. CASE p = q
    BY <1>1, <2>2 DEF SureLoad
  <2> QED
    BY <2>1, <2>2
<1>4. ASSUME NEW r \in RuleIds PROVE RuleInv(r)'
  <2>1. SUFFICES ASSUME mounted, r \notin doubt' PROVE RuleInv(r)'
    BY <1>0 DEF RuleInv
  <2>2. rules'[r] = IF Changes(q, r) THEN Rows[r] ELSE rules[r]
    BY <2>1
  <2>3. Rows'[r] = Rows[r] /\ r \in Keys
    BY <1>0, IdsAreKeys DEF Rows
  <2>4. CASE Changes(q, r)
    <3>1. \A p \in Requests : ~Changes(p, r)'
      BY <1>1, <2>1, <2>3, <2>4 DEF AgreementInv, Certain
    <3> QED
      BY <2>2, <2>3, <2>4, <3>1 DEF RuleInv
  <2>5. CASE ~Changes(q, r)
    BY <1>0, <1>1, <2>2, <2>5, RuleKept DEF AgreementInv
  <2> QED
    BY <2>4, <2>5
<1>5. HookInv'
  <2>1. SUFFICES ASSUME Hook \notin doubt' PROVE HookInv'
    BY DEF HookInv
  <2>2. mounted => webhook' = IF Changes(q, Hook) THEN maskWebhookHeaders(stored) ELSE webhook
    BY <2>1
  <2>3. maskWebhookHeaders(stored)' = maskWebhookHeaders(stored) /\ Hook \in Keys
    BY <1>0, IdsAreKeys DEF maskWebhookHeaders
  <2>4. CASE Changes(q, Hook)
    <3>1. \A p \in Requests : ~Changes(p, Hook)'
      BY <1>1, <2>1, <2>3, <2>4 DEF AgreementInv, Certain
    <3>2. \A p \in Requests : requests'[p].kind # "webhook"
      <4>1. \A p \in Requests : p # q => (requests'[p].kind = "webhook" => Changes(p, Hook)')
        BY <1>1, HookRequests
      <4> QED
        BY <1>1, <3>1, <4>1
    <3> QED
      BY <1>0, <2>2, <2>3, <2>4, <3>2 DEF HookInv
  <2>5. CASE ~Changes(q, Hook)
    <3>1. requests[q].kind # "webhook"
      BY <2>5, HookRequests
    <3> QED
      BY <1>0, <1>1, <2>2, <2>5, <3>1, HookKept DEF AgreementInv
  <2> QED
    BY <2>4, <2>5
<1> QED
  BY <1>2, <1>3, <1>4, <1>5 DEF AgreementInv

LEMMA AgreeLoaded ==
  ASSUME AgreementInv, Typed, NEW q \in Requests, LoadArrives(q)
  PROVE  AgreementInv'
<1>0. /\ TypeOK /\ requests[q] \in Request /\ UNCHANGED <<backend, mounted>>
      /\ requests[q].kind = "load" /\ requests[q].rules # Nil /\ requests[q].webhook # Nil
      /\ rules' = requests[q].rules /\ webhook' = requests[q].webhook
      /\ doubt' = Keys \ requests[q].sure /\ requests' = Without(q)
      /\ table' = table /\ stored' = stored /\ lastId' = lastId
  BY DEF Typed, TypeOK, LoadArrives, Is, backend
<1>1. /\ NoneBegins
      /\ \A k : ~Changes(q, k)'
      /\ \A p \in Requests : p # q => /\ requests'[p] = requests[p]
                                      /\ \A k : Changes(p, k)' <=> Changes(p, k)
      /\ requests'[q].kind = "none"
  BY <1>0, EndBegins
<1>2. ASSUME NEW k \in Keys, k \notin doubt'
      PROVE  /\ \A p \in Requests : ~Changes(p, k)'
             /\ k > lastId' => \A p \in Requests : ~Creates(p)'
             /\ k \in RuleIds => rules'[k] = Rows'[k]
             /\ k = Hook => webhook' = maskWebhookHeaders(stored)'
  <2>1. k \in requests[q].sure
    BY <1>0, <1>2
  <2>2. /\ ~Changing(k)
        /\ k > lastId => \A p \in Requests : ~Creates(p)
        /\ k \in RuleIds /\ requests[q].rules # Nil => requests[q].rules[k] = Rows[k]
        /\ k = Hook /\ requests[q].webhook # Nil =>
             requests[q].webhook = maskWebhookHeaders(stored)
    BY <1>0, <2>1 DEF AgreementInv, SureLoad
  <2>3. /\ Rows' = Rows /\ maskWebhookHeaders(stored)' = maskWebhookHeaders(stored)
    BY <1>0 DEF Rows, maskWebhookHeaders
  <2>4. \A p \in Requests : ~Changes(p, k)'
    BY <1>1, <2>2, ChangingIs DEF NoneBegins
  <2>5. k > lastId' => \A p \in Requests : ~Creates(p)'
    BY <1>0, <1>1, <2>2 DEF NoneBegins
  <2> QED
    BY <1>0, <2>2, <2>3, <2>4, <2>5
<1>3. Certain'
  BY <1>2 DEF Certain
<1>4. ASSUME NEW p \in Requests PROVE SureLoad(p)'
  <2>1. CASE p # q
    BY <1>0, <1>1, <2>1, SureKept DEF AgreementInv
  <2>2. CASE p = q
    BY <1>1, <2>2 DEF SureLoad
  <2> QED
    BY <2>1, <2>2
<1>5. ASSUME NEW r \in RuleIds PROVE RuleInv(r)'
  <2>1. r \in Keys
    BY <1>0, IdsAreKeys
  <2>2. SUFFICES ASSUME r \notin doubt' PROVE RuleInv(r)'
    BY DEF RuleInv
  <2>3. (\A p \in Requests : ~Changes(p, r)') /\ rules'[r] = Rows'[r]
    BY <1>2, <2>1, <2>2
  <2> QED
    BY <2>3 DEF RuleInv
<1>6. HookInv'
  <2>1. SUFFICES ASSUME Hook \notin doubt' PROVE HookInv'
    BY DEF HookInv
  <2>2. (\A p \in Requests : ~Changes(p, Hook)') /\ webhook' = maskWebhookHeaders(stored)'
    BY <1>0, <1>2, <2>1, IdsAreKeys
  <2>3. \A p \in Requests : requests'[p].kind # "webhook"
    <3>1. \A p \in Requests : p # q => (requests'[p].kind = "webhook" => Changes(p, Hook)')
      BY <1>1, HookRequests
    <3> QED
      BY <1>1, <2>2, <3>1
  <2> QED
    BY <2>2, <2>3 DEF HookInv
<1> QED
  BY <1>3, <1>4, <1>5, <1>6 DEF AgreementInv

\* What a change beyond doubt has come to, when its answer is on the way.
LEMMA AnswerDue ==
  ASSUME AgreementInv, Typed, mounted, NEW q \in Requests, NEW r \in RuleIds,
         r \notin doubt, Changes(q, r)
  PROVE  /\ requests[q].current /\ r = requests[q].target /\ rules[r] \in Seq(Settings)
         /\ requests[q].stage # "done" => rules[r] = Rows[r]
         /\ Is(q, {"delete"}, "done") => Rows[r] = <<>>
         /\ Is(q, {"create"}, "done") =>
              rules[r] = <<>> /\ Rows[r] = <<requests[q].input>>
         /\ Is(q, PatchKinds, "done") =>
              Len(rules[r]) = 1 /\ Rows[r] = <<requests[q].input>>
<1>1. r \in Keys /\ TypeOK /\ rules[r] \in Seq(Settings)
  BY IdsAreKeys DEF Typed, TypeOK, Lists
<1>2. requests[q].current
  BY <1>1 DEF AgreementInv, Certain
<1>3. r = requests[q].target
  BY DEF Changes
<1>4. /\ requests[q].stage # "done" => rules[r] = Rows[r]
      /\ Is(q, {"delete"}, "done") => table[r] = Nil
      /\ Is(q, {"create"}, "done") => rules[r] = <<>> /\ table[r] = requests[q].input
      /\ Is(q, PatchKinds, "done") => Len(rules[r]) = 1 /\ table[r] = requests[q].input
  BY DEF AgreementInv, RuleInv
<1>5. Is(q, {"create"} \cup PatchKinds, "done") => requests[q].input # Nil
  <2>1. Is(q, {"create"} \cup PatchKinds, "done") => requests[q].input \in Settings
    BY DEF Typed, Shaped, Is
  <2> QED
    BY <2>1, NilIsNothing
<1>6. /\ table[r] = Nil => Rows[r] = <<>>
      /\ table[r] # Nil => Rows[r] = <<table[r]>>
  BY DEF Rows
<1> QED
  BY <1>1, <1>2, <1>3, <1>4, <1>5, <1>6 DEF Is

LEMMA AgreeSaved ==
  ASSUME AgreementInv, Typed, NEW q \in Requests,
         SaveArrives(q) \/ ToggleArrives(q) \/ DeleteArrives(q)
  PROVE  AgreementInv'
<1>0. /\ TypeOK /\ rules \in Lists /\ requests' = Without(q)
      /\ UNCHANGED <<backend, mounted, doubt, webhook>>
      /\ requests[q].stage = "done"
      /\ requests[q].kind \in {"create", "save", "toggle", "delete"}
  BY DEF Typed, TypeOK, SaveArrives, ToggleArrives, DeleteArrives, Is, SaveKinds, hookForm
<1>1. ~Changes(q, Hook)
  BY <1>0, HookRequests
<1>2. ASSUME NEW r \in RuleIds, mounted, r \notin doubt'
      PROVE  rules'[r] = IF Changes(q, r) THEN Rows[r] ELSE rules[r]
  <2>0. requests[q].target = r => Changes(q, r)
    BY <1>0 DEF Changes, ChangeKinds
  <2>1. CASE ~Changes(q, r)
    <3>1. requests[q].target # r
      BY <2>0, <2>1
    <3> QED
      BY <1>0, <2>1, <3>1 DEF SaveArrives, ToggleArrives, DeleteArrives, Replaced, Appended,
         Lists
  <2>2. CASE Changes(q, r)
    <3>1. /\ requests[q].current /\ r = requests[q].target /\ rules[r] \in Seq(Settings)
          /\ Is(q, {"delete"}, "done") => Rows[r] = <<>>
          /\ Is(q, {"create"}, "done") =>
               rules[r] = <<>> /\ Rows[r] = <<requests[q].input>>
          /\ Is(q, PatchKinds, "done") =>
               Len(rules[r]) = 1 /\ Rows[r] = <<requests[q].input>>
      BY <1>0, <1>2, <2>2, AnswerDue
    <3>2. CASE requests[q].kind = "create"
      <4>1. rules' = Appended(q)
        BY <3>1, <3>2 DEF SaveArrives, ToggleArrives, DeleteArrives, Is
      <4>2. rules'[r] = Append(rules[r], requests[q].input)
        BY <1>0, <3>1, <4>1 DEF Appended, Lists
      <4>3. rules[r] = <<>> /\ Rows[r] = <<requests[q].input>>
        BY <1>0, <3>1, <3>2 DEF Is
      <4>4. Append(<<>>, requests[q].input) = <<requests[q].input>>
        OBVIOUS
      <4> QED
        BY <2>2, <4>2, <4>3, <4>4
    <3>3. CASE requests[q].kind \in PatchKinds
      <4>1. rules' = Replaced(q)
        BY <3>1, <3>3 DEF SaveArrives, ToggleArrives, DeleteArrives, Is, PatchKinds, SaveKinds
      <4>2. rules'[r] = [i \in DOMAIN rules[r] |-> requests[q].input]
        BY <1>0, <3>1, <4>1 DEF Replaced, Lists
      <4>3. Len(rules[r]) = 1 /\ Rows[r] = <<requests[q].input>>
        BY <1>0, <3>1, <3>3 DEF Is
      <4>4. DOMAIN rules[r] = 1..1
        BY <3>1, <4>3
      <4>5. [i \in 1..1 |-> requests[q].input] = <<requests[q].input>>
        OBVIOUS
      <4> QED
        BY <2>2, <4>2, <4>3, <4>4, <4>5
    <3>4. CASE requests[q].kind = "delete"
      <4>1. rules' = [rules EXCEPT ![requests[q].target] = <<>>]
        BY <3>1, <3>4 DEF SaveArrives, ToggleArrives, DeleteArrives, Is, SaveKinds
      <4>2. rules'[r] = <<>> /\ Rows[r] = <<>>
        BY <1>0, <3>1, <3>4, <4>1 DEF Lists, Is
      <4> QED
        BY <2>2, <4>2
    <3> QED
      BY <1>0, <3>2, <3>3, <3>4 DEF PatchKinds
  <2> QED
    BY <2>1, <2>2
<1> QED
  BY <1>0, <1>1, <1>2, AgreeEnd

LEMMA AgreeHookSaved ==
  ASSUME AgreementInv, Typed, NEW q \in Requests, WebhookArrives(q)
  PROVE  AgreementInv'
<1>0. /\ TypeOK /\ requests' = Without(q) /\ UNCHANGED <<backend, mounted, doubt, rules>>
      /\ requests[q].kind = "webhook" /\ requests[q].stage = "done"
  BY DEF Typed, WebhookArrives, Is
<1>1. Changes(q, Hook) /\ Hook \in Keys /\ \A r \in RuleIds : ~Changes(q, r)
  BY <1>0, HookRequests, IdsAreKeys DEF Changes
<1>2. ASSUME mounted, Hook \notin doubt PROVE webhook' = maskWebhookHeaders(stored)
  <2>1. requests[q].current
    BY <1>1, <1>2 DEF AgreementInv, Certain
  <2>2. requests[q].webhook = stored
    BY <1>0, <1>2 DEF AgreementInv, HookInv
  <2> QED
    BY <2>1, <2>2 DEF WebhookArrives
<1> QED
  BY <1>0, <1>1, <1>2, AgreeEnd

LEMMA AgreeFails ==
  ASSUME AgreementInv, Typed, NEW q \in Requests, Fails(q)
  PROVE  AgreementInv'
<1>0. /\ TypeOK /\ requests' = Without(q)
      /\ UNCHANGED <<backend, mounted, rules, webhook>>
      /\ doubt' = IF requests[q].stage = "done" THEN doubt \cup {requests[q].target}
                                                ELSE doubt
  BY DEF Typed, Fails
<1>1. ASSUME NEW r \in RuleIds, mounted, r \notin doubt', Changes(q, r)
      PROVE  rules[r] = Rows[r]
  <2>1. r \notin doubt /\ requests[q].stage # "done"
    BY <1>0, <1>1 DEF Changes
  <2> QED
    BY <1>1, <2>1, AnswerDue
<1>2. ASSUME mounted, Hook \notin doubt', Changes(q, Hook)
      PROVE  webhook = maskWebhookHeaders(stored)
  <2>1. Hook \notin doubt /\ requests[q].stage # "done" /\ requests[q].kind = "webhook"
    BY <1>0, <1>2, HookRequests DEF Changes
  <2> QED
    BY <1>2, <2>1 DEF AgreementInv, HookInv
<1> QED
  BY <1>0, <1>1, <1>2, AgreeEnd

-------------------------------------------------------------------------------
(* The page and the table.                                                 *)

LEMMA AgreeStep == Typed /\ WaitInv /\ AgreementInv /\ [Next]_vars => AgreementInv'
<1> SUFFICES ASSUME Typed, WaitInv, AgreementInv, [Next]_vars PROVE AgreementInv'
  OBVIOUS
<1>1. CASE User
  <2>1. ASSUME NEW row \in Listed,
               toggleRule(row) \/ Edit(row) \/ AskDelete(row) \/ CancelDelete(row)
                               \/ ConfirmDelete(row)
        PROVE  AgreementInv'
    BY <2>1, AgreeRows
  <2> QED
    BY <1>1, <2>1, AgreePage, AgreeSubmits DEF User
<1>2. ASSUME NEW q \in Requests, Handles(q) PROVE AgreementInv'
  BY <1>2, AgreeListing, AgreeRuleHandlers, AgreeCreate, AgreeHookHandlers DEF Handles
<1>3. ASSUME NEW q \in Requests, Answers(q) PROVE AgreementInv'
  BY <1>3, AgreeLoaded, AgreeSaved, AgreeHookSaved, AgreeFails DEF Answers
<1>4. CASE UNCHANGED vars
  BY <1>4, AgreeStill DEF vars, hookForm, Typed
<1> QED
  BY <1>1, <1>2, <1>3, <1>4 DEF Next

\* The three invariants together are inductive.
THEOREM Invariant == Spec => [](Typed /\ WaitInv /\ AgreementInv)
<1>1. Init => WaitInv /\ AgreementInv
  BY WaitInit, AgreeInit
<1>2. Typed /\ WaitInv /\ AgreementInv /\ [Next]_vars => WaitInv' /\ AgreementInv'
  BY WaitStep, AgreeStep
<1> QED
  BY <1>1, <1>2, TypedAlways, PTL DEF Spec

\* A rule that no change is under way for is on the page once, as it is in the
\* table, or on neither (AlertsPage.tsx:64-97), unless a change of it crossed a
\* load or another change, or was made without an answer, since the last load.
THEOREM RulesAgreeHolds == Spec => []RulesAgree
<1>1. AgreementInv => RulesAgree
  <2>1. SUFFICES ASSUME AgreementInv, Shown, NEW r \in RuleIds \ doubt, ~Changing(r)
                 PROVE  rules[r] = Rows[r]
    BY DEF RulesAgree
  <2> QED
    BY <2>1 DEF AgreementInv, RuleInv, Shown
<1> QED
  BY <1>1, Invariant, PTL

\* A webhook saved with the mask of its header keeps the header that the page was
\* never told (handler.go:166), unless it was saved twice at once or without an
\* answer since the last load.
THEOREM SecretKeptHolds == Spec => SecretKept
<1>1. ASSUME AgreementInv, Typed, [Next]_vars, NEW q \in Requests, Untouched(q),
             stored' = requests[q].webhook, stored' # stored, Hook \notin doubt
      PROVE  stored # Nil /\ stored'.header = stored.header
  <2>1. /\ requests[q].kind = "webhook" /\ requests[q].stage = "read"
        /\ requests[q].input.header = Mask
    BY <1>1 DEF Untouched, Is
  <2>2. /\ Masked
        /\ requests[q].webhook = restoreMaskedHeaders(requests[q].input, stored)
    BY <1>1, <2>1 DEF AgreementInv, HookInv
  <2>3. requests[q].input \in Hooks
    BY <1>1, <2>1 DEF Typed, Shaped
  <2>4. requests[q].webhook = [requests[q].input EXCEPT !.header = stored.header]
    BY <2>1, <2>2 DEF restoreMaskedHeaders, Masked
  <2>5. requests[q].webhook.header = stored.header
    BY <2>3, <2>4 DEF Hooks
  <2> QED
    BY <1>1, <2>2, <2>5 DEF Masked
<1>2. Typed /\ AgreementInv /\ [Next]_vars =>
        [\A q \in Requests :
           Untouched(q) /\ stored' = requests[q].webhook /\ stored' # stored /\ Hook \notin doubt
             => stored # Nil /\ stored'.header = stored.header]_vars
  BY <1>1
<1> QED
  BY <1>2, Invariant, PTL DEF Spec, SecretKept
================================================================================
