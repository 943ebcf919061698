------------------------------ MODULE AlertEval -------------------------------
(***************************************************************************)
(* The alert evaluator: its bounded queue, the compensation timers a full  *)
(* queue starts, the goroutine that evaluates one live event after         *)
(* another, and the tables of internal/alerting it shares with the         *)
(* handlers that edit rules.                                               *)
(*                                                                         *)
(* The live coordinator is the environment: it changes a snapshot and then *)
(* submits the event, one publication at a time, as its mutex has it.  A   *)
(* timer's callback reads the snapshot, sends it, and drops its mark in    *)
(* three steps, for it holds no lock across them.                          *)
(***************************************************************************)
EXTENDS AlertRules, Sequences, FiniteSets

CONSTANTS Servers,
          Rules,          \* ids AUTOINCREMENT can hand out, ascending
          Settings,       \* what an administrator may give a rule
          QueueCapacity,  \* evaluationQueueCapacity
          Hazards,        \* which of "edit", "delete", "fault", "crash" happen
          MaxSeq,         \* id -> bound on the changes of its snapshot
          MaxTime         \* bound on the clock

Rule  == [server: Servers, metric: {"offline", "usage"}, hold: Nat,
          repeat: Nat, enabled: BOOLEAN]
Event == [type: {"snapshot.updated", "snapshot.offline"}, server: Servers,
          snapshot: Snapshot]
Row   == [status: Status, server: Servers, startedAt: Nat, endedAt: Instant]
\* What AlertCycle sees of a row.
Episode == [status: Status, startedAt: Nat]
Timer == [pc: {"off", "armed", "read", "sent", "full"},
          snapshot: Snapshot \cup {Nil}]

\* normalizeRule gives an offline rule no duration.
ASSUME AlertAssumption ==
    /\ Rules \subseteq Nat
    /\ Settings \subseteq Rule
    /\ \A x \in Settings : x.metric = "offline" => x.hold = 0
    /\ QueueCapacity \in Nat \ {0}
    /\ Nil \notin Nat \cup Rule \cup State \cup Event \cup Row \cup Episode
                 \cup Snapshot \cup Servers

VARIABLES
    \* the coordinator and the snapshot store (external)
    store,      \* id -> snapshot or Nil
    submits,    \* events changed in the store and not yet submitted
    \* the evaluator's memory
    queue,
    pending,    \* servers marked as having a compensation
    refused,    \* server whose Submit found the queue full, or Nil
    timer,      \* id -> the timer scheduleLatest started and its callback
    rearming,   \* id -> callbacks that dropped their mark to schedule again
    worker,     \* the goroutine in Run and its local variables
    \* the database
    servers,    \* ids of the rows of servers
    rules,      \* alert_rules: id -> row or Nil
    used,       \* ids ever handed out (sqlite_sequence)
    states,     \* alert_states: id -> row or Nil
    last,       \* the last row of alert_events written for the rule, or Nil
    \* the clock, and history
    now,
    taken,      \* id -> seq of the last snapshot taken from the queue
    since,      \* id -> start of the unbroken run of breaches stored, or Nil
    notices,    \* id -> notifications since its alert last began
    edited      \* id -> when the rule was last created or updated

liveVars == <<store, submits>>
evalVars == <<queue, pending, refused, timer, rearming>>
dbVars   == <<servers, rules, used, states, last>>
histVars == <<since, notices, edited>>
vars == <<store, submits, queue, pending, refused, timer, rearming, worker,
          servers, rules, used, states, last, now, taken, since, notices,
          edited>>

Off  == [pc |-> "off", snapshot |-> Nil]
Idle == [pc |-> "idle", event |-> Nil, rules |-> [r \in Rules |-> Nil]]

Init ==
    /\ store = [s \in Servers |-> Nil]
    /\ submits = {}
    /\ queue = <<>>
    /\ pending = {}
    /\ refused = Nil
    /\ timer = [s \in Servers |-> Off]
    /\ rearming = [s \in Servers |-> 0]
    /\ worker = Idle
    /\ servers = Servers
    /\ rules = [r \in Rules |-> Nil]
    /\ used = {}
    /\ states = [r \in Rules |-> Nil]
    /\ last = [r \in Rules |-> Nil]
    /\ now = 0
    /\ taken = [s \in Servers |-> 0]
    /\ since = [r \in Rules |-> Nil]
    /\ notices = [r \in Rules |-> 0]
    /\ edited = [r \in Rules |-> 0]

-------------------------------------------------------------------------------
(* The coordinator: a report or a sweep changes the store under its mutex
   and publishes what changed before it lets the next one in.              *)

Publishing == submits # {} \/ refused # Nil

SeqOf(s) == IF store[s] = Nil THEN taken[s] ELSE store[s].seq

Published(type, s, snapshot) ==
    [type |-> type, server |-> s, snapshot |-> snapshot]

Report(s, high) ==
    /\ ~Publishing
    /\ s \in servers
    /\ SeqOf(s) < MaxSeq[s]
    /\ LET x == [online |-> TRUE, high |-> high, seq |-> SeqOf(s) + 1]
       IN  /\ store' = [store EXCEPT ![s] = x]
           /\ submits' = {Published("snapshot.updated", s, x)}
    /\ UNCHANGED <<evalVars, worker, dbVars, now, taken, histVars>>

\* MarkOffline takes every expired server at once; Sweep then publishes them
\* one by one, in the order of a map.
Sweep(expired) ==
    /\ ~Publishing
    /\ expired # {}
    /\ \A s \in expired : /\ store[s] # Nil
                          /\ store[s].online
                          /\ store[s].seq < MaxSeq[s]
    /\ store' = [s \in Servers |->
         IF s \in expired
         THEN [online |-> FALSE, high |-> store[s].high,
               seq |-> store[s].seq + 1]
         ELSE store[s]]
    /\ submits' = {Published("snapshot.offline", s, store'[s]) : s \in expired}
    /\ UNCHANGED <<evalVars, worker, dbVars, now, taken, histVars>>

-------------------------------------------------------------------------------
(* Submit and scheduleLatest.                                              *)

Submit(event) ==
    /\ refused = Nil
    /\ event \in submits
    /\ submits' = submits \ {event}
    /\ IF Len(queue) < QueueCapacity
       THEN queue' = Append(queue, event) /\ UNCHANGED refused
       ELSE refused' = event.server /\ UNCHANGED queue
    /\ UNCHANGED <<store, pending, timer, rearming, worker, dbVars, now,
                   taken, histVars>>

\* scheduleLatest: marks the server and starts its timer, unless marked.
Schedule(s) ==
    IF s \in pending
    THEN UNCHANGED <<pending, timer>>
    ELSE /\ pending' = pending \cup {s}
         /\ timer' = [timer EXCEPT ![s].pc = "armed"]

Refuse ==
    /\ refused # Nil
    /\ Schedule(refused)
    /\ refused' = Nil
    /\ UNCHANGED <<liveVars, queue, rearming, worker, dbVars, now, taken,
                   histVars>>

\* The callback: snapshots.Get.
TimerReads(s) ==
    /\ timer[s].pc = "armed"
    /\ timer' = [timer EXCEPT ![s] =
         [pc |-> IF store[s] = Nil THEN "sent" ELSE "read",
          snapshot |-> store[s]]]
    /\ UNCHANGED <<liveVars, queue, pending, refused, rearming, worker,
                   dbVars, now, taken, histVars>>

\* The callback's own select: it always sends a "snapshot.updated".
TimerSends(s) ==
    /\ timer[s].pc = "read"
    /\ IF Len(queue) < QueueCapacity
       THEN /\ queue' = Append(queue,
                 Published("snapshot.updated", s, timer[s].snapshot))
            /\ timer' = [timer EXCEPT ![s] = [Off EXCEPT !.pc = "sent"]]
       ELSE /\ timer' = [timer EXCEPT ![s] = [Off EXCEPT !.pc = "full"]]
            /\ UNCHANGED queue
    /\ UNCHANGED <<liveVars, pending, refused, rearming, worker, dbVars, now,
                   taken, histVars>>

\* Variant: only the callback that found the queue full drops the mark.
TimerUnmarksFull(s) ==
    /\ timer[s].pc \in {"sent", "full"}
    /\ pending' = IF timer[s].pc = "full" THEN pending \ {s} ELSE pending
    /\ timer' = [timer EXCEPT ![s] = Off]
    /\ rearming' = [rearming EXCEPT
         ![s] = IF timer[s].pc = "full" THEN @ + 1 ELSE @]
    /\ UNCHANGED <<liveVars, queue, refused, worker, dbVars, now, taken,
                   histVars>>

\* Variant: a callback that found the queue full gives up.
TimerGivesUp(s) ==
    /\ timer[s].pc \in {"sent", "full"}
    /\ pending' = pending \ {s}
    /\ timer' = [timer EXCEPT ![s] = Off]
    /\ UNCHANGED <<liveVars, queue, refused, rearming, worker, dbVars, now,
                   taken, histVars>>

\* The mark is dropped; a callback that found the queue full will schedule.
TimerUnmarks(s) ==
    /\ timer[s].pc \in {"sent", "full"}
    /\ pending' = pending \ {s}
    /\ timer' = [timer EXCEPT ![s] = Off]
    /\ rearming' = [rearming EXCEPT
         ![s] = IF timer[s].pc = "full" THEN @ + 1 ELSE @]
    /\ UNCHANGED <<liveVars, queue, refused, worker, dbVars, now, taken,
                   histVars>>

TimerRearms(s) ==
    /\ rearming[s] > 0
    /\ Schedule(s)
    /\ rearming' = [rearming EXCEPT ![s] = @ - 1]
    /\ UNCHANGED <<liveVars, queue, refused, worker, dbVars, now, taken,
                   histVars>>

-------------------------------------------------------------------------------
(* Run and EvaluateNow.  Only this goroutine writes states and events, so
   reading a rule's state, evaluating it and the transaction that stores
   the outcome are one step: a rule deleted in between fails the
   transaction's foreign key, as one deleted before does.                  *)

Take ==
    /\ worker.pc = "idle"
    /\ queue # <<>>
    /\ worker' = [worker EXCEPT !.pc = "list", !.event = Head(queue)]
    /\ queue' = Tail(queue)
    /\ taken' = [taken EXCEPT ![Head(queue).server] = Head(queue).snapshot.seq]
    /\ UNCHANGED <<liveVars, pending, refused, timer, rearming, dbVars, now,
                   histVars>>

\* Variant: rules are evaluated on reports alone.
ConcernsReports(event, rule) ==
    /\ rule # Nil
    /\ rule.server = event.server
    /\ rule.enabled
    /\ event.type = "snapshot.updated"

\* The rules this event is for: enabled, of its server, and of a metric the
\* event's type does not exclude.
Concerns(event, rule) ==
    /\ rule # Nil
    /\ rule.server = event.server
    /\ rule.enabled
    /\ event.type = "snapshot.offline" => rule.metric = "offline"

ListRules ==
    /\ worker.pc = "list"
    /\ worker' = [worker EXCEPT
         !.pc = "rule",
         !.rules = [r \in Rules |->
             IF Concerns(worker.event, rules[r]) THEN rules[r] ELSE Nil]]
    /\ UNCHANGED <<liveVars, evalVars, dbVars, now, taken, histVars>>

ListRulesFails ==
    /\ "fault" \in Hazards
    /\ worker.pc = "list"
    /\ worker' = Idle
    /\ UNCHANGED <<liveVars, evalVars, dbVars, now, taken, histVars>>

\* ORDER BY id ASC
NextRule(r) ==
    /\ worker.rules[r] # Nil
    /\ \A q \in Rules : worker.rules[q] # Nil => r <= q

StateOf(r) == IF states[r] = Nil THEN NoState ELSE states[r]

Outcome(r) ==
    LET rule == worker.rules[r]
    IN  Evaluate(StateOf(r), Breached(worker.event.snapshot, rule),
                 HoldOf(rule), rule.repeat, now)

\* Variant: no transaction; the event row may be lost after the state.
SaveApart(r) ==
    LET rule == worker.rules[r]
        out  == Outcome(r)
    IN  /\ states' = [states EXCEPT ![r] = out.state]
        /\ \/ UNCHANGED last
           \/ /\ out.notify
              /\ last' = [last EXCEPT ![r] = EventFor(rule,
                   worker.event.server, out.state, now)]
        /\ UNCHANGED <<since, notices>>

\* SaveStateAndEvent: the state and the event row, in one transaction.
Save(r) ==
    LET rule == worker.rules[r]
        out  == Outcome(r)
    IN  /\ states' = [states EXCEPT ![r] = out.state]
        /\ last' = IF out.notify
                   THEN [last EXCEPT ![r] = EventFor(rule, worker.event.server,
                                                     out.state, now)]
                   ELSE last
        /\ since' = [since EXCEPT ![r] =
             IF ~Breached(worker.event.snapshot, rule) THEN Nil
             ELSE IF @ = Nil THEN now ELSE @]
        /\ notices' = [notices EXCEPT ![r] =
             IF ~out.notify THEN @
             ELSE IF StateOf(r).status = "firing" THEN @ + 1 ELSE 1]

EvaluateRule(r) ==
    /\ worker.pc = "rule"
    /\ NextRule(r)
    /\ rules[r] # Nil
    /\ Save(r)
    /\ worker' = IF Outcome(r).notify
                 THEN [worker EXCEPT !.pc = "deliver"]
                 ELSE [worker EXCEPT !.rules[r] = Nil]
    /\ UNCHANGED <<liveVars, evalVars, servers, rules, used, now, taken, edited>>

\* The rule is gone, or one of the statements fails: it is logged.
EvaluateRuleFails(r) ==
    /\ worker.pc = "rule"
    /\ NextRule(r)
    /\ rules[r] = Nil \/ "fault" \in Hazards
    /\ worker' = [worker EXCEPT !.rules[r] = Nil]
    /\ UNCHANGED <<liveVars, evalVars, dbVars, now, taken, histVars>>

\* enqueueDelivery: whatever becomes of it, the next rule follows.
EnqueueDelivery(r) ==
    /\ worker.pc = "deliver"
    /\ NextRule(r)
    /\ worker' = [worker EXCEPT !.pc = "rule", !.rules[r] = Nil]
    /\ UNCHANGED <<liveVars, evalVars, dbVars, now, taken, histVars>>

Evaluated ==
    /\ worker.pc = "rule"
    /\ \A r \in Rules : worker.rules[r] = Nil
    /\ worker' = Idle
    /\ UNCHANGED <<liveVars, evalVars, dbVars, now, taken, histVars>>

-------------------------------------------------------------------------------
(* The handlers of internal/alerting, and the deletion of a server.        *)

CreateRule(rule) ==
    /\ rule.server \in servers
    /\ \E r \in Rules \ used :
         /\ \A q \in used : q < r
         /\ rules' = [rules EXCEPT ![r] = rule]
         /\ used' = used \cup {r}
         /\ edited' = [edited EXCEPT ![r] = now]
    /\ UNCHANGED <<liveVars, evalVars, worker, servers, states, last, now,
                   taken, since, notices>>

UpdateRule(r, rule) ==
    /\ "edit" \in Hazards
    /\ rules[r] \notin {Nil, rule}
    /\ rule.server \in servers
    /\ rules' = [rules EXCEPT ![r] = rule]
    /\ edited' = [edited EXCEPT ![r] = now]
    /\ UNCHANGED <<liveVars, evalVars, worker, servers, used, states, last, now,
                   taken, since, notices>>

\* ON DELETE CASCADE
DropRules(gone) ==
    LET cleared(f) == [r \in Rules |-> IF r \in gone THEN Nil ELSE f[r]]
    IN  /\ rules' = cleared(rules)
        /\ states' = cleared(states)
        /\ last' = cleared(last)
        /\ since' = cleared(since)

DeleteRule(r) ==
    /\ "delete" \in Hazards
    /\ rules[r] # Nil
    /\ DropRules({r})
    /\ UNCHANGED <<liveVars, evalVars, worker, servers, used, now, taken,
                   notices, edited>>

\* Under the coordinator's mutex: the row with all that refers to it, and
\* then the snapshot.  Events in the queue and timers stay.
DeleteServer(s) ==
    /\ "delete" \in Hazards
    /\ ~Publishing
    /\ s \in servers
    /\ servers' = servers \ {s}
    /\ DropRules({r \in Rules : rules[r] # Nil /\ rules[r].server = s})
    /\ store' = [store EXCEPT ![s] = Nil]
    /\ UNCHANGED <<submits, evalVars, worker, used, now, taken, notices,
                   edited>>

Tick ==
    /\ now < MaxTime
    /\ now' = now + 1
    /\ UNCHANGED <<liveVars, evalVars, worker, dbVars, taken, histVars>>

\* The process dies and starts again over the same database.
Restart ==
    /\ "crash" \in Hazards
    /\ store' = [s \in Servers |-> Nil]
    /\ submits' = {}
    /\ queue' = <<>>
    /\ pending' = {}
    /\ refused' = Nil
    /\ timer' = [s \in Servers |-> Off]
    /\ rearming' = [s \in Servers |-> 0]
    /\ worker' = Idle
    /\ UNCHANGED <<dbVars, now, taken, histVars>>

Worker ==
    \/ Take \/ ListRules \/ ListRulesFails \/ Evaluated
    \/ \E r \in Rules : EvaluateRule(r) \/ EvaluateRuleFails(r)
                        \/ EnqueueDelivery(r)

Callback(s) ==
    TimerReads(s) \/ TimerSends(s) \/ TimerUnmarks(s) \/ TimerRearms(s)

Publish == Refuse \/ \E event \in submits : Submit(event)

Next ==
    \/ \E s \in Servers, high \in BOOLEAN : Report(s, high)
    \/ \E expired \in SUBSET Servers : Sweep(expired)
    \/ Publish
    \/ \E s \in Servers : Callback(s)
    \/ Worker
    \/ \E rule \in Settings : CreateRule(rule)
    \/ \E r \in Rules, rule \in Settings : UpdateRule(r, rule)
    \/ \E r \in Rules : DeleteRule(r)
    \/ \E s \in Servers : DeleteServer(s)
    \/ Tick
    \/ Restart

Spec == Init /\ [][Next]_vars

\* The runtime runs every goroutine that can run: a publisher, a timer's
\* callback, the evaluator.  No report, edit, fault or crash is owed.
FairSpec ==
    /\ Spec
    /\ WF_vars(Publish)
    /\ WF_vars(Worker)
    /\ \A s \in Servers : WF_vars(Callback(s))

-------------------------------------------------------------------------------
(* Properties.                                                             *)

\* Every variable has its type (state rows, timers, the worker's locals of
\* evaluator.go), and the queue never exceeds its channel's capacity.
TypeOK ==
    /\ store \in [Servers -> Snapshot \cup {Nil}]
    /\ submits \subseteq Event
    /\ queue \in Seq(Event) /\ Len(queue) <= QueueCapacity
    /\ pending \subseteq Servers
    /\ refused \in Servers \cup {Nil}
    /\ timer \in [Servers -> Timer]
    /\ rearming \in [Servers -> Nat]
    /\ worker \in [pc: {"idle", "list", "rule", "deliver"},
                   event: Event \cup {Nil}, rules: [Rules -> Rule \cup {Nil}]]
    /\ servers \subseteq Servers
    /\ rules \in [Rules -> Rule \cup {Nil}]
    /\ used \subseteq Rules
    /\ states \in [Rules -> State \cup {Nil}]
    /\ last \in [Rules -> Row \cup {Nil}]
    /\ now \in Nat
    /\ taken \in [Servers -> Nat]
    /\ since \in [Rules -> Instant]
    /\ notices \in [Rules -> Nat]
    /\ edited \in [Rules -> Nat]

\* A server is marked exactly while a timer or its callback will drop the
\* mark (scheduleLatest): no mark is left behind to refuse every later
\* compensation, and no second timer runs for a marked server.
MarkedWhileTimed == pending = {s \in Servers : timer[s].pc # "off"}

Firing(r) == states[r] # Nil /\ states[r].status = "firing"

\* EvaluateNow and Evaluate: an alert begins only if every evaluation stored
\* for the rule over the whole of its duration was a breach, across
\* restarts, failed writes, edits and a server that stopped reporting.
FiresAfterHold ==
    [][\A r \in Rules :
         ~Firing(r) /\ Firing(r)' =>
            /\ since'[r] # Nil
            /\ now - since'[r] >= HoldOf(worker.rules[r])]_vars

\* While a rule is not edited its alert is notified once, and again only as
\* often as its repeat interval allows (Evaluate and the stored
\* last_notified_at), whatever crashes and events come in between.
RemindersSpaced ==
    \A r \in Rules :
        Firing(r) /\ rules[r] # Nil /\ edited[r] < states[r].firingSince =>
            IF rules[r].repeat = 0
            THEN notices[r] = 1
            ELSE (notices[r] - 1) * rules[r].repeat
                     <= now - states[r].firingSince

Quiet ==
    /\ ~Publishing
    /\ queue = <<>>
    /\ worker = Idle
    /\ \A s \in Servers : timer[s] = Off /\ rearming[s] = 0

\* Submit, Run and EvaluateNow keep the order of the store's changes: when
\* all is quiet, and the snapshot evaluated last is the latest one, an offline
\* rule evaluated before fires exactly while its server is offline, whether
\* its events or a compensation brought the news.  Without faults or edits.
OfflineRuleAgrees ==
    Quiet => \A r \in Rules :
        /\ states[r] # Nil
        /\ rules[r].metric = "offline"
        /\ rules[r].enabled
        /\ store[rules[r].server] # Nil
        /\ taken[rules[r].server] = store[rules[r].server].seq
        => (Firing(r) <=> ~store[rules[r].server].online)


\* A publication that finds the queue full and its server unmarked is
\* followed by an evaluation of that server (scheduleLatest, its callback,
\* and the callback that schedules again when it too finds the queue full),
\* unless the server is deleted.
RefusedIsEvaluated ==
    \A s \in Servers :
        refused = s /\ s \notin pending ~>
            \/ worker.pc = "list" /\ worker.event.server = s
            \/ s \notin servers

\* Each rule's states and notifications form the episodes of AlertCycle.
Cycle == INSTANCE AlertCycle WITH
    alerting <- {r \in Rules : Firing(r)},
    episode  <- [r \in Rules |->
        IF last[r] = Nil THEN Nil
        ELSE [status |-> last[r].status, startedAt |-> last[r].startedAt]]

\* The evaluator and its transaction implement the episodes of AlertCycle.
ImplementsCycle == Cycle!Spec
===============================================================================
