------------------------------ MODULE AlertProofs -----------------------------
(***************************************************************************)
(* Proofs about the alert evaluator: its types, the marks of its timers,   *)
(* the duration an alert needs, that it implements AlertCycle, the spacing *)
(* of its reminders, and the agreement of offline rules with their server. *)
(***************************************************************************)
EXTENDS AlertEval, TLAPS

-------------------------------------------------------------------------------
(* The pure state machine.                                                 *)

\* Evaluate returns a state and a flag.
LEMMA EvaluateType ==
    ASSUME NEW state \in State, NEW breached \in BOOLEAN, NEW hold \in Nat,
           NEW repeat \in Nat, NEW t \in Nat
    PROVE  /\ Evaluate(state, breached, hold, repeat, t).state \in State
           /\ Evaluate(state, breached, hold, repeat, t).notify \in BOOLEAN
<1>1. CASE state.status \in {"pending", "firing"}
  BY <1>1 DEF Evaluate, State, Status, Instant, Calmed, ReminderDue
<1>2. CASE state.status \in {"normal", "recovered"} /\ ~breached
  BY <1>2 DEF Evaluate, State, Status, Instant, Calmed, ReminderDue
<1>3. CASE state.status \in {"normal", "recovered"} /\ breached
  <2>1. CASE hold = 0
    <3>1. Evaluate(state, breached, hold, repeat, t) =
            [state  |-> [status |-> "firing", pendingSince |-> Nil,
                         firingSince |-> t, notifiedAt |-> t],
             notify |-> TRUE]
      BY <1>3, <2>1 DEF Evaluate
    <3>2. QED
      BY <3>1 DEF State, Status, Instant
  <2>2. CASE hold > 0
    BY <1>3, <2>2 DEF Evaluate, State, Status, Instant, Calmed, ReminderDue
  <2>3. QED
    BY <2>1, <2>2
<1>4. QED
  BY <1>1, <1>2, <1>3 DEF State, Status

\* What an evaluation does to an episode: it opens one at t, closes one and
\* keeps its beginning, or lets it be; only an alert that opens, closes or
\* goes on is notified.
LEMMA EvaluateEpisode ==
    ASSUME NEW state \in State, NEW breached \in BOOLEAN, NEW hold \in Nat,
           NEW repeat \in Nat, NEW t \in Nat,
           state.status = "firing" => state.firingSince \in Nat,
           Nil \notin Nat,
           NEW out, out = Evaluate(state, breached, hold, repeat, t)
    PROVE  /\ state.status # "firing" /\ out.state.status = "firing" =>
                 out.notify /\ out.state.firingSince = t
           /\ state.status = "firing" /\ out.state.status # "firing" =>
                 /\ out.notify
                 /\ out.state.status = "recovered"
                 /\ out.state.firingSince = state.firingSince
           /\ state.status = "firing" /\ out.state.status = "firing" =>
                 out.state.firingSince = state.firingSince
           /\ state.status # "firing" /\ out.state.status # "firing" =>
                 ~out.notify
<1> USE DEF Evaluate, State, Status, Instant, Calmed, ReminderDue
<1>1. CASE state.status = "normal"
  BY <1>1
<1>2. CASE state.status = "pending"
  BY <1>2
<1>3. CASE state.status = "firing"
  BY <1>3
<1>4. CASE state.status = "recovered"
  BY <1>4
<1>5. QED
  BY <1>1, <1>2, <1>3, <1>4

\* Only a breach makes a rule pending or firing.  A rule becomes pending at
\* t, stays pending since the same instant, and fires when it has been
\* pending for the duration or there is none.
LEMMA EvaluateHold ==
    ASSUME NEW state \in State, NEW breached \in BOOLEAN, NEW hold \in Nat,
           NEW repeat \in Nat, NEW t \in Nat,
           state.status = "pending" => state.pendingSince \in Nat,
           Nil \notin Nat,
           NEW out, out = Evaluate(state, breached, hold, repeat, t)
    PROVE  /\ out.state.status \in {"pending", "firing"} => breached
           /\ out.state.status = "pending" =>
                 IF state.status = "pending"
                 THEN out.state.pendingSince = state.pendingSince
                 ELSE out.state.pendingSince = t
           /\ state.status # "firing" /\ out.state.status = "firing" =>
                 \/ hold = 0
                 \/ /\ state.status = "pending"
                    /\ t - state.pendingSince >= hold
  BY DEF Evaluate, State, Status, Instant, Calmed, ReminderDue

-------------------------------------------------------------------------------
(* Types.                                                                  *)

\* A callback that goes on to send has a snapshot, and a worker that is not
\* idle an event: neither sends nor evaluates the zero value.
Carried ==
    /\ \A s \in Servers : timer[s].pc = "read" => timer[s].snapshot # Nil
    /\ worker.pc # "idle" => worker.event # Nil

Typed == TypeOK /\ Carried

\* The outcome of an evaluation by the worker is well typed.
LEMMA OutcomeType ==
    ASSUME Typed, NEW r \in Rules, worker.rules[r] # Nil, worker.pc # "idle"
    PROVE  /\ StateOf(r) \in State
           /\ HoldOf(worker.rules[r]) \in Nat
           /\ worker.rules[r].repeat \in Nat
           /\ Breached(worker.event.snapshot, worker.rules[r]) \in BOOLEAN
           /\ worker.event.server \in Servers
           /\ Outcome(r).state \in State
           /\ Outcome(r).notify \in BOOLEAN
<1>1. worker.rules[r] \in Rule /\ worker.event \in Event /\ now \in Nat
  BY DEF Typed, TypeOK, Carried
<1>2. StateOf(r) \in State
  BY DEF Typed, TypeOK, StateOf, NoState, State, Status, Instant
<1>3. HoldOf(worker.rules[r]) \in Nat /\ worker.rules[r].repeat \in Nat
  BY <1>1 DEF HoldOf, Rule
<1>4. Breached(worker.event.snapshot, worker.rules[r]) \in BOOLEAN
  BY <1>1 DEF Breached, Event, Snapshot
<1>5. QED
  BY <1>1, <1>2, <1>3, <1>4, EvaluateType DEF Outcome, Event

\* scheduleLatest keeps the marks and the timers well typed.
LEMMA ScheduleType ==
    ASSUME Typed, NEW s \in Servers, Schedule(s)
    PROVE  /\ pending' \subseteq Servers
           /\ timer' \in [Servers -> Timer]
           /\ \A q \in Servers : timer'[q].pc = "read" =>
                                  timer'[q].snapshot # Nil
<1>1. [timer[s] EXCEPT !.pc = "armed"] \in Timer
  <2>1. timer[s] \in Timer
    BY DEF Typed, TypeOK
  <2>2. QED
    BY <2>1 DEF Timer
<1>2. CASE s \in pending
  BY <1>2 DEF Schedule, Typed, TypeOK, Carried
<1>3. CASE s \notin pending
  <2>1. timer' = [timer EXCEPT ![s] = [timer[s] EXCEPT !.pc = "armed"]]
    BY <1>3 DEF Schedule, Typed, TypeOK
  <2>2. [timer[s] EXCEPT !.pc = "armed"].pc = "armed"
    BY DEF Typed, TypeOK, Timer
  <2>3. QED
    BY <1>1, <1>3, <2>1, <2>2 DEF Schedule, Typed, TypeOK, Carried
<1>4. QED
  BY <1>2, <1>3

\* A cascade keeps the tables well typed.
LEMMA DropType ==
    ASSUME TypeOK, NEW gone, DropRules(gone)
    PROVE  /\ rules' \in [Rules -> Rule \cup {Nil}]
           /\ states' \in [Rules -> State \cup {Nil}]
           /\ last' \in [Rules -> Row \cup {Nil}]
           /\ since' \in [Rules -> Instant]
  BY DEF DropRules, TypeOK, Instant

\* The initial state is well typed.
LEMMA InitTyped == Init => Typed
  BY AlertAssumption DEF Init, Typed, TypeOK, Carried, Off, Idle, Timer,
                         Instant

\* Every step keeps the types.
LEMMA NextTyped == Typed /\ [Next]_vars => Typed'
<1> SUFFICES ASSUME Typed, [Next]_vars
             PROVE  Typed'
  OBVIOUS
<1> USE AlertAssumption DEF Typed
<1>1. ASSUME NEW s \in Servers, NEW high \in BOOLEAN, Report(s, high)
      PROVE  Typed'
  <2> DEFINE x == [online |-> TRUE, high |-> high, seq |-> SeqOf(s) + 1]
  <2>1. SeqOf(s) \in Nat
    BY DEF SeqOf, TypeOK, Snapshot
  <2>2. x \in Snapshot
    BY <2>1 DEF Snapshot
  <2>3. Published("snapshot.updated", s, x) \in Event
    BY <2>2 DEF Published, Event
  <2>4. QED
    BY <1>1, <2>2, <2>3 DEF Report, TypeOK, Carried, liveVars, evalVars, dbVars, histVars
<1>2. ASSUME NEW expired \in SUBSET Servers, Sweep(expired)
      PROVE  Typed'
  <2>1. \A s \in expired :
          /\ s \in Servers
          /\ [online |-> FALSE, high |-> store[s].high,
              seq |-> store[s].seq + 1] \in Snapshot
    <3>1. \A s \in expired : s \in Servers /\ store[s] \in Snapshot
      BY <1>2 DEF Sweep, TypeOK
    <3>2. QED
      BY <3>1 DEF Snapshot
  <2>2. store' \in [Servers -> Snapshot \cup {Nil}]
    BY <1>2, <2>1 DEF Sweep, TypeOK
  <2>3. \A s \in expired : store'[s] \in Snapshot
    BY <1>2, <2>1 DEF Sweep
  <2>4. submits' \subseteq Event
    <3>1. \A s \in expired :
            Published("snapshot.offline", s, store'[s]) \in Event
      BY <2>1, <2>3 DEF Published, Event
    <3>2. QED
      BY <1>2, <3>1 DEF Sweep
  <2>5. QED
    BY <1>2, <2>2, <2>4 DEF Sweep, TypeOK, Carried, liveVars, evalVars, dbVars, histVars
<1>3. ASSUME NEW event \in submits, Submit(event)
      PROVE  Typed'
  <2>1. event \in Event /\ event.server \in Servers
    BY DEF TypeOK, Event
  <2>2. /\ Append(queue, event) \in Seq(Event)
        /\ Len(Append(queue, event)) = Len(queue) + 1
        /\ Len(queue) \in Nat
    BY <2>1 DEF TypeOK
  <2>3. CASE Len(queue) < QueueCapacity
    <3>1. queue' = Append(queue, event) /\ UNCHANGED refused
      BY <1>3, <2>3 DEF Submit
    <3>2. queue' \in Seq(Event) /\ Len(queue') <= QueueCapacity
      BY <2>2, <2>3, <3>1
    <3>3. QED
      BY <1>3, <3>1, <3>2 DEF Submit, TypeOK, Carried, liveVars, dbVars,
                              histVars
  <2>4. CASE ~(Len(queue) < QueueCapacity)
    BY <1>3, <2>1, <2>4 DEF Submit, TypeOK, Carried, liveVars, evalVars,
                            dbVars, histVars
  <2>5. QED
    BY <2>3, <2>4
<1>4. ASSUME Refuse
      PROVE  Typed'
  <2>1. refused \in Servers
    BY <1>4 DEF Refuse, TypeOK
  <2>2. QED
    BY <1>4, <2>1, ScheduleType DEF Refuse, TypeOK, Carried, liveVars, evalVars, dbVars, histVars
<1>5. ASSUME NEW s \in Servers, TimerReads(s)
      PROVE  Typed'
  BY <1>5 DEF TypeOK, Carried, liveVars, evalVars, dbVars, histVars, TimerReads, Timer
<1>6. ASSUME NEW s \in Servers, TimerSends(s)
      PROVE  Typed'
  <2>1. timer[s].snapshot \in Snapshot
    BY <1>6 DEF TimerSends, TypeOK, Carried, Timer
  <2> DEFINE event == Published("snapshot.updated", s, timer[s].snapshot)
  <2>2. event \in Event
    BY <2>1 DEF Published, Event
  <2>3. /\ Append(queue, event) \in Seq(Event)
        /\ Len(Append(queue, event)) = Len(queue) + 1
        /\ Len(queue) \in Nat
    BY <2>2 DEF TypeOK
  <2>4. /\ queue' \in Seq(Event)
        /\ Len(queue') <= QueueCapacity
    <3>1. CASE Len(queue) < QueueCapacity
      <4>1. queue' = Append(queue, event)
        BY <1>6, <3>1 DEF TimerSends
      <4>2. QED
        BY <2>3, <3>1, <4>1
    <3>2. CASE ~(Len(queue) < QueueCapacity)
      BY <1>6, <3>2 DEF TimerSends, TypeOK
    <3>3. QED
      BY <3>1, <3>2
  <2>5. \A x \in {"sent", "full"} : [Off EXCEPT !.pc = x] =
                                        [pc |-> x, snapshot |-> Nil]
    BY DEF Off
  <2>6. /\ timer' \in [Servers -> Timer]
        /\ \A q \in Servers : timer'[q].pc = "read" =>
                               timer'[q].snapshot # Nil
    <3>1. PICK x \in {"sent", "full"} :
            timer' = [timer EXCEPT ![s] = [pc |-> x, snapshot |-> Nil]]
      BY <1>6, <2>5 DEF TimerSends
    <3>2. [pc |-> x, snapshot |-> Nil] \in Timer
      BY DEF Timer
    <3>3. QED
      BY <3>1, <3>2 DEF TypeOK, Carried
  <2>7. QED
    BY <1>6, <2>4, <2>6 DEF TimerSends, TypeOK, Carried, liveVars, evalVars, dbVars, histVars
<1>7. ASSUME NEW s \in Servers, TimerUnmarks(s)
      PROVE  Typed'
  <2>1. Off \in Timer /\ Off.pc # "read"
    BY DEF Off, Timer
  <2>2. timer' = [timer EXCEPT ![s] = Off] /\ pending' \subseteq pending
    BY <1>7 DEF TimerUnmarks
  <2>3. timer' \in [Servers -> Timer]
    BY <2>1, <2>2 DEF TypeOK
  <2>4. \A q \in Servers : timer'[q].pc = "read" => timer'[q].snapshot # Nil
    BY <2>1, <2>2 DEF TypeOK, Carried
  <2>5. rearming' \in [Servers -> Nat]
    BY <1>7 DEF TimerUnmarks, TypeOK
  <2>6. QED
    BY <1>7, <2>2, <2>3, <2>4, <2>5
       DEF TimerUnmarks, TypeOK, Carried, liveVars, dbVars, histVars
<1>8. ASSUME NEW s \in Servers, TimerRearms(s)
      PROVE  Typed'
  <2>1. rearming' \in [Servers -> Nat]
    BY <1>8 DEF TimerRearms, TypeOK
  <2>2. QED
    BY <1>8, <2>1, ScheduleType DEF TimerRearms, TypeOK, Carried, liveVars, evalVars, dbVars, histVars
<1>9. ASSUME Take
      PROVE  Typed'
  <2>1. /\ Head(queue) \in Event
        /\ Tail(queue) \in Seq(Event)
        /\ Len(Tail(queue)) <= QueueCapacity
    BY <1>9 DEF Take, TypeOK
  <2>2. Head(queue) # Nil /\ Head(queue).snapshot.seq \in Nat
    BY <2>1 DEF Event, Snapshot
  <2>3. worker' = [worker EXCEPT !.pc = "list", !.event = Head(queue)]
    BY <1>9 DEF Take
  <2>4. /\ worker' \in [pc: {"idle", "list", "rule", "deliver"},
                       event: Event \cup {Nil},
                       rules: [Rules -> Rule \cup {Nil}]]
        /\ worker'.event # Nil
    BY <2>1, <2>2, <2>3 DEF TypeOK
  <2>5. QED
    BY <1>9, <2>1, <2>2, <2>4 DEF Take, TypeOK, Carried, liveVars, evalVars, dbVars, histVars
<1>10. ASSUME ListRules
      PROVE  Typed'
  BY <1>10 DEF TypeOK, Carried, liveVars, evalVars, dbVars, histVars, ListRules
<1>11. ASSUME ListRulesFails
      PROVE  Typed'
  BY <1>11 DEF TypeOK, Carried, liveVars, evalVars, dbVars, histVars, ListRulesFails, Idle
<1>12. ASSUME Evaluated
      PROVE  Typed'
  BY <1>12 DEF TypeOK, Carried, liveVars, evalVars, dbVars, histVars, Evaluated, Idle
<1>13. ASSUME NEW r \in Rules, EvaluateRule(r)
      PROVE  Typed'
  <2>1. /\ worker.rules[r] # Nil /\ worker.pc = "rule"
        /\ rules[r] # Nil
    BY <1>13 DEF EvaluateRule, NextRule
  <2>2. last' \in [Rules -> Row \cup {Nil}]
    BY <1>13, <2>1, OutcomeType
       DEF EvaluateRule, Save, EventFor, Row, State, Instant, TypeOK
  <2>3. states' \in [Rules -> State \cup {Nil}]
    BY <1>13, <2>1, OutcomeType DEF EvaluateRule, Save, TypeOK
  <2>4. since' \in [Rules -> Instant] /\ notices' \in [Rules -> Nat]
    BY <1>13, <2>1 DEF EvaluateRule, Save, Instant, TypeOK
  <2>5. QED
    BY <1>13, <2>1, <2>2, <2>3, <2>4
       DEF EvaluateRule, TypeOK, Carried, liveVars, evalVars
<1>14. ASSUME NEW r \in Rules, EvaluateRuleFails(r)
      PROVE  Typed'
  BY <1>14 DEF TypeOK, Carried, liveVars, evalVars, dbVars, histVars, EvaluateRuleFails
<1>15. ASSUME NEW r \in Rules, EnqueueDelivery(r)
      PROVE  Typed'
  BY <1>15 DEF TypeOK, Carried, liveVars, evalVars, dbVars, histVars, EnqueueDelivery
<1>16. ASSUME NEW rule \in Settings, CreateRule(rule)
      PROVE  Typed'
  <2>1. PICK r \in Rules \ used :
          /\ rules' = [rules EXCEPT ![r] = rule]
          /\ used' = used \cup {r}
          /\ edited' = [edited EXCEPT ![r] = now]
    BY <1>16 DEF CreateRule
  <2>2. rule \in Rule
    OBVIOUS
  <2>3. QED
    BY <1>16, <2>1, <2>2, ZenonT(60) DEF CreateRule, TypeOK, Carried, liveVars, evalVars, dbVars, histVars
<1>17. ASSUME NEW r \in Rules, NEW rule \in Settings, UpdateRule(r, rule)
      PROVE  Typed'
  BY <1>17 DEF TypeOK, Carried, liveVars, evalVars, dbVars, histVars, UpdateRule
<1>18. ASSUME NEW r \in Rules, DeleteRule(r)
      PROVE  Typed'
  <2>1. DropRules({r})
    BY <1>18 DEF DeleteRule
  <2>2. QED
    BY <1>18, <2>1, DropType DEF DeleteRule, TypeOK, Carried, liveVars, evalVars, dbVars, histVars
<1>19. ASSUME NEW s \in Servers, DeleteServer(s)
      PROVE  Typed'
  <2>1. PICK gone \in SUBSET Rules : DropRules(gone)
    BY <1>19 DEF DeleteServer
  <2>2. QED
    BY <1>19, <2>1, DropType DEF DeleteServer, TypeOK, Carried, liveVars, evalVars, dbVars, histVars
<1>20. ASSUME Tick
      PROVE  Typed'
  BY <1>20, SMTT(30) DEF TypeOK, Carried, liveVars, evalVars, dbVars, histVars, Tick
<1>21. ASSUME Restart
      PROVE  Typed'
  BY <1>21 DEF TypeOK, Carried, liveVars, evalVars, dbVars, histVars, Restart, Off, Idle, Timer
<1>22. CASE UNCHANGED vars
  BY <1>22 DEF TypeOK, Carried, vars
<1>23. QED
  BY <1>1, <1>2, <1>3, <1>4, <1>5, <1>6, <1>7, <1>8, <1>9, <1>10, <1>11, <1>12, <1>13, <1>14, <1>15, <1>16, <1>17, <1>18, <1>19, <1>20, <1>21, <1>22 DEF Next, Publish, Callback, Worker

\* Every reachable state of the evaluator is well typed.
THEOREM TypeCorrect == Spec => []TypeOK
<1>1. Typed => TypeOK
  BY DEF Typed
<1>2. QED
  BY InitTyped, NextTyped, <1>1, PTL DEF Spec

-------------------------------------------------------------------------------
(* The marks of the compensation timers.                                   *)

\* A timer that is started is marked, and one that runs is not restarted.
LEMMA ScheduleMarks ==
    ASSUME Typed, MarkedWhileTimed, NEW s \in Servers, Schedule(s)
    PROVE  MarkedWhileTimed'
<1>1. CASE s \in pending
  BY <1>1 DEF Schedule, MarkedWhileTimed
<1>2. CASE s \notin pending
  <2>1. /\ pending' = pending \cup {s}
        /\ \A q \in Servers :
             timer'[q].pc = IF q = s THEN "armed" ELSE timer[q].pc
    BY <1>2 DEF Schedule, Typed, TypeOK, Timer
  <2>2. QED
    BY <2>1 DEF MarkedWhileTimed
<1>3. QED
  BY <1>1, <1>2

\* scheduleLatest and its callback: a server is marked exactly while a timer
\* or its callback will drop the mark.
THEOREM MarkedWhileTimedHolds == Spec => []MarkedWhileTimed
<1>1. Init => MarkedWhileTimed
  BY DEF Init, MarkedWhileTimed, Off
<1>2. Typed /\ MarkedWhileTimed /\ [Next]_vars => MarkedWhileTimed'
  <2> SUFFICES ASSUME Typed, MarkedWhileTimed, [Next]_vars
               PROVE  MarkedWhileTimed'
    OBVIOUS
  <2>1. CASE UNCHANGED <<pending, timer>>
    BY <2>1 DEF MarkedWhileTimed
  <2>2. CASE Refuse
    <3>1. refused \in Servers
      BY <2>2 DEF Refuse, Typed, TypeOK
    <3>2. QED
      BY <2>2, <3>1, ScheduleMarks DEF Refuse
  <2>3. ASSUME NEW s \in Servers, TimerRearms(s)
        PROVE  MarkedWhileTimed'
    BY <2>3, ScheduleMarks DEF TimerRearms
  <2>4. ASSUME NEW s \in Servers, TimerReads(s) \/ TimerSends(s)
        PROVE  MarkedWhileTimed'
    <3>1. /\ pending' = pending
          /\ timer[s].pc # "off" /\ timer'[s].pc # "off"
          /\ \A q \in Servers \ {s} : timer'[q] = timer[q]
      BY <2>4 DEF TimerReads, TimerSends, Typed, TypeOK, Timer, Off
    <3>2. QED
      BY <3>1 DEF MarkedWhileTimed
  <2>5. ASSUME NEW s \in Servers, TimerUnmarks(s)
        PROVE  MarkedWhileTimed'
    <3>1. /\ pending' = pending \ {s}
          /\ timer'[s].pc = "off"
          /\ \A q \in Servers \ {s} : timer'[q] = timer[q]
      BY <2>5 DEF TimerUnmarks, Typed, TypeOK, Off
    <3>2. QED
      BY <3>1 DEF MarkedWhileTimed
  <2>6. CASE Restart
    BY <2>6 DEF Restart, MarkedWhileTimed, Off
  <2>7. QED
    BY <2>1, <2>2, <2>3, <2>4, <2>5, <2>6
       DEF Next, Publish, Callback, Worker, vars, evalVars, Report, Sweep,
           Submit, Take, ListRules, ListRulesFails, Evaluated, EvaluateRule,
           EvaluateRuleFails, EnqueueDelivery, CreateRule, UpdateRule,
           DeleteRule, DeleteServer, Tick
<1>3. QED
  BY <1>1, <1>2, InitTyped, NextTyped, PTL DEF Spec

-------------------------------------------------------------------------------
(* Episodes.                                                               *)

\* The stored state and the stored events agree: a firing rule's last event
\* is a firing one, with the same beginning.
EpisodeKnown ==
    \A r \in Rules : Firing(r) =>
        /\ last[r] # Nil
        /\ last[r].status = "firing"
        /\ last[r].startedAt = states[r].firingSince

\* A pending rule has been pending since a run of breaches began or later.
HoldKnown ==
    \A r \in Rules :
        /\ since[r] # Nil => since[r] <= now
        /\ states[r] # Nil /\ states[r].status = "pending" =>
              /\ states[r].pendingSince \in Nat
              /\ since[r] # Nil
              /\ since[r] <= states[r].pendingSince

AlertInv == Typed /\ EpisodeKnown /\ HoldKnown

\* Everything but an evaluation, a deletion and the clock leaves the states,
\* the events and the runs of breaches alone.
LEMMA NextStores ==
    ASSUME [Next]_vars
    PROVE  \/ UNCHANGED <<states, last, since, now>>
           \/ \E r \in Rules : EvaluateRule(r)
           \/ \E gone \in SUBSET Rules : DropRules(gone) /\ UNCHANGED now
           \/ Tick
<1>1. ASSUME NEW r \in Rules, DeleteRule(r)
      PROVE  \E gone \in SUBSET Rules : DropRules(gone) /\ UNCHANGED now
  BY <1>1 DEF DeleteRule
<1>2. ASSUME NEW s \in Servers, DeleteServer(s)
      PROVE  \E gone \in SUBSET Rules : DropRules(gone) /\ UNCHANGED now
  BY <1>2 DEF DeleteServer
<1>3. QED
  BY <1>1, <1>2
     DEF Next, Publish, Callback, Worker, vars, dbVars, histVars, Report,
         Sweep, Submit, Refuse, TimerReads, TimerSends, TimerUnmarks,
         TimerRearms, Take, ListRules, ListRulesFails, Evaluated,
         EvaluateRuleFails, EnqueueDelivery, CreateRule, UpdateRule, Restart

\* What one evaluation does to the rule it is for and to the others.
LEMMA EvaluateRuleStep ==
    ASSUME AlertInv, NEW r \in Rules, EvaluateRule(r)
    PROVE  /\ worker.rules[r] # Nil /\ worker.pc # "idle"
           /\ states'[r] = Outcome(r).state
           /\ last'[r] = IF Outcome(r).notify
                         THEN EventFor(worker.rules[r], worker.event.server,
                                       Outcome(r).state, now)
                         ELSE last[r]
           /\ since'[r] =
                IF ~Breached(worker.event.snapshot, worker.rules[r]) THEN Nil
                ELSE IF since[r] = Nil THEN now ELSE since[r]
           /\ \A q \in Rules \ {r} : /\ states'[q] = states[q]
                                     /\ last'[q] = last[q]
                                     /\ since'[q] = since[q]
           /\ now' = now
  BY DEF AlertInv, Typed, TypeOK, EvaluateRule, Save, NextRule

\* An evaluation opens, closes or continues the episode of its rule.
LEMMA EvaluateRuleEpisode ==
    ASSUME AlertInv, NEW r \in Rules, EvaluateRule(r)
    PROVE  /\ ~Firing(r) /\ Firing(r)' =>
                 /\ last'[r] # Nil
                 /\ last'[r].status = "firing"
                 /\ last'[r].startedAt = now
                 /\ states'[r].firingSince = now
           /\ Firing(r) /\ ~Firing(r)' =>
                 /\ last'[r] # Nil
                 /\ last'[r].status = "recovered"
                 /\ last'[r].startedAt = last[r].startedAt
           /\ Firing(r) /\ Firing(r)' =>
                 /\ last'[r] # Nil
                 /\ last'[r].status = "firing"
                 /\ last'[r].startedAt = last[r].startedAt
                 /\ states'[r].firingSince = states[r].firingSince
           /\ ~Firing(r) /\ ~Firing(r)' => last'[r] = last[r]
<1>1. /\ StateOf(r) \in State
      /\ HoldOf(worker.rules[r]) \in Nat
      /\ worker.rules[r].repeat \in Nat
      /\ Breached(worker.event.snapshot, worker.rules[r]) \in BOOLEAN
      /\ Outcome(r).state \in State
      /\ Outcome(r).notify \in BOOLEAN
      /\ now \in Nat
      /\ worker.rules[r] # Nil /\ worker.pc # "idle"
  BY EvaluateRuleStep, OutcomeType DEF AlertInv, Typed, TypeOK
<1>2. StateOf(r).status = "firing" <=> Firing(r)
  BY DEF StateOf, Firing, NoState
<1>3. Outcome(r).state.status = "firing" <=> Firing(r)'
  <2>1. Outcome(r).state # Nil
    BY <1>1, AlertAssumption
  <2>2. QED
    BY <2>1, EvaluateRuleStep DEF Firing
<1>4. Firing(r) => /\ StateOf(r) = states[r]
                   /\ last[r] # Nil
                   /\ last[r].status = "firing"
                   /\ last[r].startedAt = StateOf(r).firingSince
                   /\ StateOf(r).firingSince \in Nat
  BY DEF AlertInv, EpisodeKnown, Firing, StateOf, Typed, TypeOK, Row
<1>5. /\ ~Firing(r) /\ Firing(r)' =>
            Outcome(r).notify /\ Outcome(r).state.firingSince = now
      /\ Firing(r) /\ ~Firing(r)' =>
            /\ Outcome(r).notify
            /\ Outcome(r).state.status = "recovered"
            /\ Outcome(r).state.firingSince = StateOf(r).firingSince
      /\ Firing(r) /\ Firing(r)' =>
            Outcome(r).state.firingSince = StateOf(r).firingSince
      /\ ~Firing(r) /\ ~Firing(r)' => ~Outcome(r).notify
  BY <1>1, <1>2, <1>3, <1>4, EvaluateEpisode, AlertAssumption DEF Outcome
<1> DEFINE row == EventFor(worker.rules[r], worker.event.server,
                           Outcome(r).state, now)
<1>6. /\ row # Nil
      /\ row.status = Outcome(r).state.status
      /\ Outcome(r).state.firingSince # Nil =>
            row.startedAt = Outcome(r).state.firingSince
  <2>1. row \in Row
    BY <1>1, OutcomeType DEF EventFor, Row, State, Instant, AlertInv
  <2>2. QED
    BY <2>1, AlertAssumption DEF EventFor
<1>7. /\ states'[r] = Outcome(r).state
      /\ last'[r] = IF Outcome(r).notify THEN row ELSE last[r]
  BY EvaluateRuleStep
<1> HIDE DEF row
<1>8. now # Nil /\ (Firing(r) => StateOf(r).firingSince # Nil)
  BY <1>1, <1>4, AlertAssumption
<1>9. QED
  BY <1>3, <1>4, <1>5, <1>6, <1>7, <1>8

\* An evaluation keeps the run of breaches behind a pending rule.
LEMMA EvaluateRuleHold ==
    ASSUME AlertInv, NEW r \in Rules, EvaluateRule(r)
    PROVE  /\ since'[r] # Nil => since'[r] <= now
           /\ states'[r].status = "pending" =>
                 /\ states'[r].pendingSince \in Nat
                 /\ since'[r] # Nil
                 /\ since'[r] <= states'[r].pendingSince
           /\ ~Firing(r) /\ Firing(r)' =>
                 /\ since'[r] # Nil
                 /\ now - since'[r] >= HoldOf(worker.rules[r])
<1>1. /\ StateOf(r) \in State
      /\ HoldOf(worker.rules[r]) \in Nat
      /\ worker.rules[r].repeat \in Nat
      /\ Breached(worker.event.snapshot, worker.rules[r]) \in BOOLEAN
      /\ now \in Nat
      /\ since[r] \in Nat \cup {Nil}
  BY EvaluateRuleStep, OutcomeType DEF AlertInv, Typed, TypeOK, Instant
<1>2. StateOf(r).status = "pending" =>
        /\ StateOf(r).pendingSince \in Nat
        /\ since[r] # Nil
        /\ since[r] <= StateOf(r).pendingSince
  BY DEF AlertInv, HoldKnown, StateOf, NoState
<1>3. since[r] # Nil => since[r] <= now
  BY DEF AlertInv, HoldKnown
<1>4. /\ Outcome(r).state.status \in {"pending", "firing"} =>
            Breached(worker.event.snapshot, worker.rules[r])
      /\ Outcome(r).state.status = "pending" =>
            IF StateOf(r).status = "pending"
            THEN Outcome(r).state.pendingSince = StateOf(r).pendingSince
            ELSE Outcome(r).state.pendingSince = now
      /\ StateOf(r).status # "firing" /\ Outcome(r).state.status = "firing" =>
            \/ HoldOf(worker.rules[r]) = 0
            \/ /\ StateOf(r).status = "pending"
               /\ now - StateOf(r).pendingSince >= HoldOf(worker.rules[r])
  <2>1. StateOf(r).status = "pending" => StateOf(r).pendingSince \in Nat
    BY <1>2
  <2>2. Nil \notin Nat
    BY AlertAssumption
  <2>3. Outcome(r) =
          Evaluate(StateOf(r), Breached(worker.event.snapshot, worker.rules[r]),
                   HoldOf(worker.rules[r]), worker.rules[r].repeat, now)
    BY DEF Outcome
  <2>4. QED
    BY <1>1, <2>1, <2>2, <2>3, EvaluateHold
<1>5. /\ states'[r] = Outcome(r).state
      /\ since'[r] =
           IF ~Breached(worker.event.snapshot, worker.rules[r]) THEN Nil
           ELSE IF since[r] = Nil THEN now ELSE since[r]
  BY EvaluateRuleStep
<1>6. Nil \notin Nat
  BY AlertAssumption
<1>7. /\ Firing(r)' => Outcome(r).state.status = "firing"
      /\ StateOf(r).status = "firing" => Firing(r)
  BY <1>5 DEF Firing, StateOf, NoState
<1>8. QED
  BY <1>1, <1>2, <1>3, <1>4, <1>5, <1>6, <1>7

\* A cascade forgets a rule or leaves it as it was.
LEMMA DropRulesStep ==
    ASSUME Typed, NEW gone \in SUBSET Rules, DropRules(gone)
    PROVE  \A r \in Rules :
             IF r \in gone
             THEN states'[r] = Nil /\ last'[r] = Nil /\ since'[r] = Nil
             ELSE /\ states'[r] = states[r]
                  /\ last'[r] = last[r]
                  /\ since'[r] = since[r]
  BY DEF DropRules

\* The invariant holds initially.
LEMMA InitAlert == Init => AlertInv
  BY InitTyped DEF Init, AlertInv, EpisodeKnown, HoldKnown, Firing

\* Every step keeps the invariant.
LEMMA NextAlert == AlertInv /\ [Next]_vars => AlertInv'
<1> SUFFICES ASSUME AlertInv, [Next]_vars
             PROVE  AlertInv'
  OBVIOUS
<1>1. Typed'
  BY NextTyped DEF AlertInv
<1>2. CASE UNCHANGED <<states, last, since, now>>
  BY <1>1, <1>2 DEF AlertInv, EpisodeKnown, HoldKnown, Firing
<1>3. ASSUME NEW r \in Rules, EvaluateRule(r)
      PROVE  EpisodeKnown' /\ HoldKnown'
  <2>1. \A q \in Rules \ {r} : /\ states'[q] = states[q]
                               /\ last'[q] = last[q]
                               /\ since'[q] = since[q]
    BY <1>3, EvaluateRuleStep
  <2>2. now' = now
    BY <1>3, EvaluateRuleStep
  <2>3. EpisodeKnown'
    BY <1>3, <2>1, EvaluateRuleEpisode DEF AlertInv, EpisodeKnown, Firing
  <2>4. HoldKnown'
    BY <1>3, <2>1, <2>2, EvaluateRuleHold DEF AlertInv, HoldKnown
  <2>5. QED
    BY <2>3, <2>4
<1>4. ASSUME NEW gone \in SUBSET Rules, DropRules(gone), UNCHANGED now
      PROVE  EpisodeKnown' /\ HoldKnown'
  BY <1>4, DropRulesStep DEF AlertInv, EpisodeKnown, HoldKnown, Firing
<1>5. CASE Tick
  <2>1. /\ UNCHANGED <<states, last, since>>
        /\ now' = now + 1 /\ now \in Nat
        /\ \A r \in Rules : since[r] \in Nat \cup {Nil}
    BY <1>5 DEF Tick, dbVars, histVars, AlertInv, Typed, TypeOK, Instant
  <2>2. EpisodeKnown'
    BY <2>1 DEF AlertInv, EpisodeKnown, Firing
  <2>3. HoldKnown'
    BY <2>1 DEF AlertInv, HoldKnown
  <2>4. QED
    BY <1>1, <2>2, <2>3 DEF AlertInv
<1>6. QED
  BY <1>1, <1>2, <1>3, <1>4, <1>5, NextStores DEF AlertInv

\* EvaluateNow and Evaluate: an alert begins only after an unbroken run of
\* stored breaches as long as the rule's duration.
THEOREM FiresAfterHoldHolds == Spec => FiresAfterHold
<1>1. ASSUME AlertInv, [Next]_vars, NEW r \in Rules, ~Firing(r), Firing(r)'
      PROVE  since'[r] # Nil /\ now - since'[r] >= HoldOf(worker.rules[r])
  <2>1. CASE UNCHANGED <<states, last, since, now>>
    BY <1>1, <2>1 DEF Firing
  <2>2. ASSUME NEW q \in Rules, EvaluateRule(q)
        PROVE  since'[r] # Nil /\ now - since'[r] >= HoldOf(worker.rules[r])
    <3>1. q = r
      BY <1>1, <2>2, EvaluateRuleStep DEF Firing
    <3>2. QED
      BY <1>1, <2>2, <3>1, EvaluateRuleHold
  <2>3. ASSUME NEW gone \in SUBSET Rules, DropRules(gone)
        PROVE  FALSE
    BY <1>1, <2>3, DropRulesStep DEF Firing, AlertInv
  <2>4. CASE Tick
    BY <1>1, <2>4 DEF Tick, dbVars, Firing
  <2>5. QED
    BY <1>1, <2>1, <2>2, <2>3, <2>4, NextStores
<1>2. AlertInv /\ [Next]_vars =>
        [\A r \in Rules :
           ~Firing(r) /\ Firing(r)' =>
              /\ since'[r] # Nil
              /\ now - since'[r] >= HoldOf(worker.rules[r])]_vars
  BY <1>1
<1>3. QED
  BY <1>2, InitAlert, NextAlert, PTL DEF Spec, FiresAfterHold

-------------------------------------------------------------------------------
(* The evaluator implements the episodes of AlertCycle.                    *)

\* EvaluateNow, SaveStateAndEvent and the cascades: notifications come in
\* episodes of one beginning and one recovery.
THEOREM ImplementsCycleHolds == Spec => ImplementsCycle
<1>1. Init => Cycle!Init
  BY DEF Init, Cycle!Init, Firing
<1>2. AlertInv /\ [Next]_vars => [Cycle!Next]_Cycle!cycleVars
  <2> SUFFICES ASSUME AlertInv, [Next]_vars
               PROVE  [Cycle!Next]_Cycle!cycleVars
    OBVIOUS
  <2> DEFINE alerting == {r \in Rules : Firing(r)}
             episodeOf(row) ==
                 IF row = Nil THEN Nil
                 ELSE [status |-> row.status, startedAt |-> row.startedAt]
             episode == [r \in Rules |-> episodeOf(last[r])]
  <2>1. CASE UNCHANGED <<states, last>>
    BY <2>1 DEF Firing, Cycle!cycleVars
  <2>2. ASSUME NEW r \in Rules, EvaluateRule(r)
        PROVE  Cycle!Next \/ UNCHANGED Cycle!cycleVars
    <3>1. \A q \in Rules \ {r} : /\ Firing(q)' <=> Firing(q)
                                 /\ last'[q] = last[q]
      BY <2>2, EvaluateRuleStep DEF Firing
    <3>2. CASE ~Firing(r) /\ Firing(r)'
      <4>1. /\ last'[r] # Nil
            /\ last'[r].status = "firing"
            /\ last'[r].startedAt \in Nat
        BY <2>2, <3>2, EvaluateRuleEpisode DEF AlertInv, Typed, TypeOK
      <4>2. alerting' = alerting \cup {r}
        BY <3>1, <3>2
      <4>3. episode' = [episode EXCEPT ![r] = episode'[r]]
        BY <3>1
      <4>4. /\ episode'[r] = [status |-> last'[r].status,
                              startedAt |-> last'[r].startedAt]
            /\ episode'[r] # Nil
        <5>1. /\ last'[r].status \in Status
              /\ [status |-> last'[r].status,
                  startedAt |-> last'[r].startedAt] \in Episode
          BY <4>1 DEF Episode, Status
        <5>2. QED
          BY <4>1, <5>1, AlertAssumption
      <4>5. Cycle!Open(r)
        BY <3>2, <4>1, <4>2, <4>3, <4>4 DEF Cycle!Open
      <4>6. QED
        BY <4>5 DEF Cycle!Next
    <3>3. CASE Firing(r) /\ ~Firing(r)'
      <4>1. /\ last'[r] # Nil
            /\ last'[r].status = "recovered"
            /\ last'[r].startedAt = last[r].startedAt
            /\ last[r] # Nil
        BY <2>2, <3>3, EvaluateRuleEpisode DEF AlertInv, EpisodeKnown
      <4>2. alerting' = alerting \ {r}
        BY <3>1, <3>3
      <4>3. episode' = [episode EXCEPT ![r] =
              [status |-> "recovered", startedAt |-> episode[r].startedAt]]
        BY <3>1, <4>1
      <4>4. Cycle!Close(r)
        BY <3>3, <4>2, <4>3 DEF Cycle!Close
      <4>5. QED
        BY <4>4 DEF Cycle!Next
    <3>4. CASE Firing(r) <=> Firing(r)'
      <4>1. episodeOf(last'[r]) = episodeOf(last[r])
        BY <2>2, <3>4, EvaluateRuleEpisode DEF AlertInv, EpisodeKnown
      <4>2. alerting' = alerting /\ episode' = episode
        BY <3>1, <3>4, <4>1
      <4>3. QED
        BY <4>2 DEF Cycle!cycleVars
    <3>5. QED
      BY <3>2, <3>3, <3>4
  <2>3. ASSUME NEW gone \in SUBSET Rules, DropRules(gone)
        PROVE  Cycle!Next
    <3>1. alerting' = alerting \ gone
      BY <2>3, DropRulesStep DEF Firing, AlertInv
    <3>2. episode' = [r \in Rules |-> IF r \in gone THEN Nil ELSE episode[r]]
      BY <2>3, DropRulesStep DEF AlertInv
    <3>3. Cycle!Forget(gone)
      BY <3>1, <3>2 DEF Cycle!Forget
    <3>4. QED
      BY <3>3 DEF Cycle!Next
  <2>4. CASE Tick
    BY <2>1, <2>4 DEF Tick, dbVars
  <2>5. QED
    BY <2>1, <2>2, <2>3, <2>4, NextStores
<1>3. QED
  BY <1>1, <1>2, InitAlert, NextAlert, PTL DEF Spec, ImplementsCycle, Cycle!Spec

-------------------------------------------------------------------------------
(* Reminders.                                                              *)

\* Rules the evaluator has listed and not yet evaluated for its event.
Remaining(r) ==
    /\ worker.pc \in {"rule", "deliver"}
    /\ worker.rules[r] # Nil
    /\ ~(worker.pc = "deliver" /\ NextRule(r))

\* An id is never handed out twice, so neither a state nor a listed rule
\* outlives its row to meet another one.
IdsKnown ==
    \A r \in Rules :
        /\ rules[r] # Nil \/ worker.rules[r] # Nil => r \in used
        /\ states[r] # Nil => rules[r] # Nil

\* A firing rule knows when it began and was last notified, and if it has not
\* been edited since, its notifications are counted up to the last one.  A
\* rule edited while the evaluator holds its old row was edited after its
\* alert began.
NotifiedKnown ==
    \A r \in Rules :
        /\ edited[r] <= now
        /\ Firing(r) =>
              /\ states[r].firingSince \in Nat /\ states[r].notifiedAt \in Nat
              /\ states[r].firingSince <= states[r].notifiedAt
              /\ states[r].notifiedAt <= now
        /\ Firing(r) /\ edited[r] < states[r].firingSince =>
              IF rules[r].repeat = 0
              THEN notices[r] = 1
              ELSE /\ notices[r] >= 1
                   /\ (notices[r] - 1) * rules[r].repeat
                         <= states[r].notifiedAt - states[r].firingSince
        /\ Remaining(r) /\ Firing(r) /\ worker.rules[r] # rules[r] =>
              states[r].firingSince <= edited[r]

\* What one evaluation does to the instant of the last notification.
LEMMA EvaluateNotice ==
    ASSUME NEW state \in State, NEW breached \in BOOLEAN, NEW hold \in Nat,
           NEW repeat \in Nat, NEW t \in Nat,
           state.status = "firing" =>
              state.firingSince \in Nat /\ state.notifiedAt \in Nat,
           Nil \notin Nat,
           NEW out, out = Evaluate(state, breached, hold, repeat, t)
    PROVE  /\ state.status # "firing" /\ out.state.status = "firing" =>
                 /\ out.notify
                 /\ out.state.firingSince = t /\ out.state.notifiedAt = t
           /\ state.status = "firing" /\ out.state.status = "firing" =>
                 /\ out.state.firingSince = state.firingSince
                 /\ IF out.notify
                    THEN /\ repeat > 0 /\ t - state.notifiedAt >= repeat
                         /\ out.state.notifiedAt = t
                    ELSE out.state.notifiedAt = state.notifiedAt
<1> USE DEF Evaluate, State, Status, Instant, Calmed, ReminderDue
<1>1. CASE state.status = "normal"
  BY <1>1
<1>2. CASE state.status = "pending"
  BY <1>2
<1>3. CASE state.status = "firing"
  BY <1>3
<1>4. CASE state.status = "recovered"
  BY <1>4
<1>5. QED
  BY <1>1, <1>2, <1>3, <1>4

\* Two rules cannot both be the next one.
LEMMA NextRuleUnique ==
    ASSUME NEW r \in Rules, NEW q \in Rules, NextRule(r), NextRule(q)
    PROVE  r = q
  BY AlertAssumption DEF NextRule

\* The evaluator evaluates what it listed, once.
LEMMA RemainingStep ==
    ASSUME Typed, [Next]_vars
    PROVE  /\ \A q \in Rules :
                worker'.rules[q] \in {Nil, worker.rules[q], rules[q]}
           /\ \A q \in Rules : Remaining(q)' =>
                \/ Remaining(q) /\ worker'.rules[q] = worker.rules[q]
                \/ ListRules /\ worker'.rules[q] = rules[q]
<1> DEFINE Kept ==
      /\ \A q \in Rules :
           worker'.rules[q] \in {Nil, worker.rules[q], rules[q]}
      /\ \A q \in Rules : Remaining(q)' =>
           \/ Remaining(q) /\ worker'.rules[q] = worker.rules[q]
           \/ ListRules /\ worker'.rules[q] = rules[q]
<1> SUFFICES Kept
  OBVIOUS
<1>1. /\ worker \in [pc: {"idle", "list", "rule", "deliver"},
                    event: Event \cup {Nil}, rules: [Rules -> Rule \cup {Nil}]]
      /\ Rules \subseteq Nat
  BY AlertAssumption DEF Typed, TypeOK
<1>2. CASE UNCHANGED worker
  BY <1>2 DEF Remaining, NextRule
<1>3. CASE worker' = Idle
  BY <1>3 DEF Remaining, Idle
<1>4. CASE Take
  <2>1. worker' = [worker EXCEPT !.pc = "list", !.event = Head(queue)]
    BY <1>4 DEF Take
  <2> QED
    BY <1>1, <2>1 DEF Remaining
<1>5. CASE ListRules
  <2>1. \A q \in Rules : worker'.rules[q] \in {Nil, rules[q]}
    BY <1>1, <1>5 DEF ListRules
  <2> QED
    BY <1>5, <2>1 DEF Remaining
<1>6. ASSUME NEW r \in Rules, EvaluateRule(r) \/ EvaluateRuleFails(r)
      PROVE  Kept
  <2>1. worker.pc = "rule"
    BY <1>6 DEF EvaluateRule, EvaluateRuleFails
  <2>2. CASE worker' = [worker EXCEPT !.pc = "deliver"]
    BY <1>1, <2>1, <2>2 DEF Remaining
  <2>3. CASE worker' = [worker EXCEPT !.rules[r] = Nil]
    <3>1. /\ worker'.pc = "rule"
          /\ \A q \in Rules : worker'.rules[q] = IF q = r THEN Nil ELSE worker.rules[q]
      BY <1>1, <2>1, <2>3
    <3> QED
      BY <2>1, <3>1 DEF Remaining
  <2> QED
    BY <1>6, <2>2, <2>3 DEF EvaluateRule, EvaluateRuleFails
<1>7. ASSUME NEW r \in Rules, EnqueueDelivery(r)
      PROVE  Kept
  <2>1. /\ worker.pc = "deliver" /\ NextRule(r)
        /\ worker' = [worker EXCEPT !.pc = "rule", !.rules[r] = Nil]
    BY <1>7 DEF EnqueueDelivery
  <2>2. /\ worker'.pc = "rule"
        /\ \A q \in Rules : worker'.rules[q] = IF q = r THEN Nil ELSE worker.rules[q]
    BY <1>1, <2>1
  <2>3. \A q \in Rules : q # r => ~NextRule(q)
    BY <2>1, NextRuleUnique
  <2> QED
    BY <2>1, <2>2, <2>3 DEF Remaining
<1> HIDE DEF Kept
<1> QED
  BY <1>2, <1>3, <1>4, <1>5, <1>6, <1>7
     DEF Next, Publish, Callback, Worker, vars, Report, Sweep, Submit, Refuse,
         TimerReads, TimerSends, TimerUnmarks, TimerRearms, ListRulesFails,
         Evaluated, CreateRule, UpdateRule, DeleteRule, DeleteServer, Tick, Restart

\* A rule that is evaluated was remaining and is no longer.
LEMMA EvaluatedIsDone ==
    ASSUME Typed, NEW r \in Rules, EvaluateRule(r)
    PROVE  Remaining(r) /\ ~Remaining(r)'
<1>1. /\ worker \in [pc: {"idle", "list", "rule", "deliver"},
                    event: Event \cup {Nil}, rules: [Rules -> Rule \cup {Nil}]]
      /\ worker.pc = "rule" /\ NextRule(r)
  BY DEF Typed, TypeOK, EvaluateRule
<1>2. CASE worker' = [worker EXCEPT !.pc = "deliver"]
  <2>1. worker'.pc = "deliver" /\ worker'.rules = worker.rules
    BY <1>1, <1>2
  <2> QED
    BY <1>1, <2>1 DEF Remaining, NextRule
<1>3. CASE worker' = [worker EXCEPT !.rules[r] = Nil]
  <2>1. worker'.rules[r] = Nil
    BY <1>1, <1>3
  <2> QED
    BY <1>1, <2>1 DEF Remaining, NextRule
<1> QED
  BY <1>2, <1>3 DEF EvaluateRule

\* The tables change by an evaluation, a cascade, an edit or not at all.
LEMMA NextTables ==
    ASSUME [Next]_vars
    PROVE  \/ UNCHANGED <<states, rules, used, notices, edited, now>>
           \/ \E r \in Rules : EvaluateRule(r)
           \/ \E gone \in SUBSET Rules :
                DropRules(gone) /\ UNCHANGED <<used, notices, edited, now, worker>>
           \/ \E rule \in Settings : CreateRule(rule)
           \/ \E r \in Rules, rule \in Settings : UpdateRule(r, rule)
           \/ Tick
<1>1. ASSUME NEW r \in Rules, DeleteRule(r)
      PROVE  \E gone \in SUBSET Rules :
               DropRules(gone) /\ UNCHANGED <<used, notices, edited, now, worker>>
  BY <1>1 DEF DeleteRule
<1>2. ASSUME NEW s \in Servers, DeleteServer(s)
      PROVE  \E gone \in SUBSET Rules :
               DropRules(gone) /\ UNCHANGED <<used, notices, edited, now, worker>>
  BY <1>2 DEF DeleteServer
<1> QED
  BY <1>1, <1>2
     DEF Next, Publish, Callback, Worker, vars, dbVars, histVars, Report,
         Sweep, Submit, Refuse, TimerReads, TimerSends, TimerUnmarks,
         TimerRearms, Take, ListRules, ListRulesFails, Evaluated,
         EvaluateRuleFails, EnqueueDelivery, Restart

LEMMA IdsKept ==
    ASSUME Typed, IdsKnown, [Next]_vars
    PROVE  IdsKnown'
<1>1. \A q \in Rules : worker'.rules[q] \in {Nil, worker.rules[q], rules[q]}
  BY RemainingStep
<1>2. CASE UNCHANGED <<states, rules, used>>
  BY <1>1, <1>2 DEF IdsKnown
<1>3. ASSUME NEW r \in Rules, EvaluateRule(r)
      PROVE  IdsKnown'
  <2>1. /\ UNCHANGED <<rules, used>> /\ rules[r] # Nil
        /\ \A q \in Rules \ {r} : states'[q] = states[q]
    BY <1>3 DEF EvaluateRule, Save, Typed, TypeOK
  <2> QED
    BY <1>1, <2>1 DEF IdsKnown
<1>4. ASSUME NEW gone \in SUBSET Rules, DropRules(gone), UNCHANGED <<used, worker>>
      PROVE  IdsKnown'
  BY <1>4 DEF IdsKnown, DropRules
<1>5. ASSUME NEW rule \in Settings, CreateRule(rule)
      PROVE  IdsKnown'
  <2>1. PICK r \in Rules \ used : /\ rules' = [rules EXCEPT ![r] = rule]
                                  /\ used' = used \cup {r}
    BY <1>5 DEF CreateRule
  <2>2. UNCHANGED <<states, worker>> /\ rule # Nil
    BY <1>5, AlertAssumption DEF CreateRule
  <2> QED
    BY <2>1, <2>2 DEF IdsKnown, Typed, TypeOK
<1>6. ASSUME NEW r \in Rules, NEW rule \in Settings, UpdateRule(r, rule)
      PROVE  IdsKnown'
  <2>1. /\ rules' = [rules EXCEPT ![r] = rule] /\ rules[r] # Nil
        /\ UNCHANGED <<states, worker, used>> /\ rule # Nil
    BY <1>6, AlertAssumption DEF UpdateRule
  <2> QED
    BY <2>1 DEF IdsKnown, Typed, TypeOK
<1>7. CASE Tick
  BY <1>2, <1>7 DEF Tick, dbVars
<1> QED
  BY <1>2, <1>3, <1>4, <1>5, <1>6, <1>7, NextTables

\* What one evaluation does to a firing rule and to its notifications.
LEMMA EvaluateRuleNotices ==
    ASSUME AlertInv, IdsKnown, NotifiedKnown, NEW r \in Rules, EvaluateRule(r)
    PROVE  /\ Firing(r)' =>
                 /\ states'[r].firingSince \in Nat /\ states'[r].notifiedAt \in Nat
                 /\ states'[r].firingSince <= states'[r].notifiedAt
                 /\ states'[r].notifiedAt <= now
           /\ Firing(r)' /\ edited[r] < states'[r].firingSince =>
                 IF rules[r].repeat = 0
                 THEN notices'[r] = 1
                 ELSE /\ notices'[r] >= 1
                      /\ (notices'[r] - 1) * rules[r].repeat
                            <= states'[r].notifiedAt - states'[r].firingSince
<1>1. /\ StateOf(r) \in State
      /\ HoldOf(worker.rules[r]) \in Nat
      /\ worker.rules[r].repeat \in Nat
      /\ Breached(worker.event.snapshot, worker.rules[r]) \in BOOLEAN
      /\ Outcome(r).state \in State
      /\ Outcome(r).notify \in BOOLEAN
      /\ now \in Nat /\ notices[r] \in Nat /\ edited[r] \in Nat
  BY EvaluateRuleStep, OutcomeType DEF AlertInv, Typed, TypeOK
<1>2. /\ rules[r] # Nil /\ rules[r] \in Rule /\ rules[r].repeat \in Nat
      /\ states'[r] = Outcome(r).state
      /\ notices'[r] = IF ~Outcome(r).notify THEN notices[r]
                       ELSE IF StateOf(r).status = "firing" THEN notices[r] + 1 ELSE 1
  BY DEF AlertInv, Typed, TypeOK, EvaluateRule, Save, Rule
<1>3. /\ StateOf(r).status = "firing" <=> Firing(r)
      /\ Firing(r) => StateOf(r) = states[r]
  BY DEF StateOf, Firing, NoState
<1>4. Firing(r)' => Outcome(r).state.status = "firing"
  BY <1>2 DEF Firing
<1>5. Firing(r) => /\ states[r].firingSince \in Nat /\ states[r].notifiedAt \in Nat
                   /\ states[r].firingSince <= states[r].notifiedAt
                   /\ states[r].notifiedAt <= now
  BY DEF NotifiedKnown
<1>6. /\ StateOf(r).status # "firing" /\ Outcome(r).state.status = "firing" =>
            /\ Outcome(r).notify
            /\ Outcome(r).state.firingSince = now /\ Outcome(r).state.notifiedAt = now
      /\ StateOf(r).status = "firing" /\ Outcome(r).state.status = "firing" =>
            /\ Outcome(r).state.firingSince = StateOf(r).firingSince
            /\ IF Outcome(r).notify
               THEN /\ worker.rules[r].repeat > 0
                    /\ now - StateOf(r).notifiedAt >= worker.rules[r].repeat
                    /\ Outcome(r).state.notifiedAt = now
               ELSE Outcome(r).state.notifiedAt = StateOf(r).notifiedAt
  <2>1. Nil \notin Nat
    BY AlertAssumption
  <2>2. Outcome(r) =
          Evaluate(StateOf(r), Breached(worker.event.snapshot, worker.rules[r]),
                   HoldOf(worker.rules[r]), worker.rules[r].repeat, now)
    BY DEF Outcome
  <2>3. StateOf(r).status = "firing" =>
          StateOf(r).firingSince \in Nat /\ StateOf(r).notifiedAt \in Nat
    BY <1>3, <1>5
  <2> DEFINE state == StateOf(r)
             breached == Breached(worker.event.snapshot, worker.rules[r])
             hold == HoldOf(worker.rules[r])
             repeat == worker.rules[r].repeat
             out == Outcome(r)
  <2>4. /\ state \in State /\ breached \in BOOLEAN /\ hold \in Nat /\ repeat \in Nat
        /\ now \in Nat /\ out = Evaluate(state, breached, hold, repeat, now)
        /\ state.status = "firing" =>
             state.firingSince \in Nat /\ state.notifiedAt \in Nat
    BY <1>1, <2>2, <2>3
  <2> HIDE DEF state, breached, hold, repeat, out
  <2>5. /\ state.status # "firing" /\ out.state.status = "firing" =>
              /\ out.notify
              /\ out.state.firingSince = now /\ out.state.notifiedAt = now
        /\ state.status = "firing" /\ out.state.status = "firing" =>
              /\ out.state.firingSince = state.firingSince
              /\ IF out.notify
                 THEN /\ repeat > 0 /\ now - state.notifiedAt >= repeat
                      /\ out.state.notifiedAt = now
                 ELSE out.state.notifiedAt = state.notifiedAt
    BY <2>1, <2>4, EvaluateNotice
  <2> QED
    BY <2>5 DEF state, breached, hold, repeat, out
<1>7. CASE ~Firing(r)
  <2>1. Firing(r)' => /\ notices'[r] = 1 /\ states'[r].firingSince = now
                      /\ states'[r].notifiedAt = now
    BY <1>2, <1>3, <1>4, <1>6, <1>7
  <2>2. (1 - 1) * rules[r].repeat = 0
    BY <1>2
  <2> QED
    BY <1>1, <2>1, <2>2
<1>8. CASE Firing(r)
  <2>1. SUFFICES ASSUME Firing(r)'
                 PROVE  /\ states'[r].firingSince \in Nat /\ states'[r].notifiedAt \in Nat
                        /\ states'[r].firingSince <= states'[r].notifiedAt
                        /\ states'[r].notifiedAt <= now
                        /\ edited[r] < states'[r].firingSince =>
                             IF rules[r].repeat = 0
                             THEN notices'[r] = 1
                             ELSE /\ notices'[r] >= 1
                                  /\ (notices'[r] - 1) * rules[r].repeat
                                        <= states'[r].notifiedAt - states'[r].firingSince
    OBVIOUS
  <2>2. /\ states'[r].firingSince = states[r].firingSince
        /\ \/ Outcome(r).notify /\ states'[r].notifiedAt = now
              /\ notices'[r] = notices[r] + 1 /\ worker.rules[r].repeat > 0
              /\ now - states[r].notifiedAt >= worker.rules[r].repeat
           \/ states'[r].notifiedAt = states[r].notifiedAt
              /\ notices'[r] = notices[r]
    BY <1>2, <1>3, <1>4, <1>6, <1>8, <2>1
  <2>3. /\ states'[r].firingSince \in Nat /\ states'[r].notifiedAt \in Nat
        /\ states'[r].firingSince <= states'[r].notifiedAt
        /\ states'[r].notifiedAt <= now
    BY <1>1, <1>5, <1>8, <2>2
  <2>4. ASSUME edited[r] < states[r].firingSince
        PROVE  IF rules[r].repeat = 0
               THEN notices'[r] = 1
               ELSE /\ notices'[r] >= 1
                    /\ (notices'[r] - 1) * rules[r].repeat
                          <= states'[r].notifiedAt - states'[r].firingSince
    <3>1. worker.rules[r] = rules[r]
      <4>1. Remaining(r)
        BY EvaluatedIsDone DEF AlertInv
      <4>2. ~(states[r].firingSince <= edited[r])
        BY <1>1, <1>5, <1>8, <2>4
      <4> QED
        BY <1>8, <4>1, <4>2 DEF NotifiedKnown
    <3>2. IF rules[r].repeat = 0
          THEN notices[r] = 1
          ELSE /\ notices[r] >= 1
               /\ (notices[r] - 1) * rules[r].repeat
                     <= states[r].notifiedAt - states[r].firingSince
      BY <1>8, <2>4 DEF NotifiedKnown
    <3>3. CASE notices'[r] = notices[r] /\ states'[r].notifiedAt = states[r].notifiedAt
      BY <2>2, <3>2, <3>3
    <3>4. CASE /\ states'[r].notifiedAt = now /\ notices'[r] = notices[r] + 1
               /\ worker.rules[r].repeat > 0
               /\ now - states[r].notifiedAt >= worker.rules[r].repeat
      <4> DEFINE n == notices[r]
                 w == rules[r].repeat
      <4>1. n \in Nat /\ w \in Nat /\ w > 0
        BY <1>1, <1>2, <3>1, <3>4
      <4>2. (n - 1) * w <= states[r].notifiedAt - states[r].firingSince /\ n >= 1
        BY <3>2, <4>1
      <4>3. (n + 1 - 1) * w = (n - 1) * w + w
        <5> HIDE DEF n, w
        <5> QED
          BY <4>1
      <4>4. (n - 1) * w \in Int
        BY <4>1
      <4> QED
        BY <1>1, <1>5, <1>8, <2>2, <3>1, <3>4, <4>1, <4>2, <4>3, <4>4
    <3> QED
      BY <2>2, <3>3, <3>4
  <2> QED
    BY <2>2, <2>3, <2>4
<1> QED
  BY <1>7, <1>8

LEMMA NotifiedKept ==
    ASSUME AlertInv, IdsKnown, NotifiedKnown, [Next]_vars
    PROVE  NotifiedKnown'
<1> DEFINE FirstTwo(r) ==
      /\ edited[r] <= now
      /\ Firing(r) => /\ states[r].firingSince \in Nat /\ states[r].notifiedAt \in Nat
                      /\ states[r].firingSince <= states[r].notifiedAt
                      /\ states[r].notifiedAt <= now
      /\ Firing(r) /\ edited[r] < states[r].firingSince =>
            IF rules[r].repeat = 0
            THEN notices[r] = 1
            ELSE /\ notices[r] >= 1
                 /\ (notices[r] - 1) * rules[r].repeat
                       <= states[r].notifiedAt - states[r].firingSince
<1>1. /\ now \in Nat /\ \A r \in Rules : edited[r] \in Nat
      /\ rules \in [Rules -> Rule \cup {Nil}] /\ edited \in [Rules -> Nat]
      /\ states \in [Rules -> State \cup {Nil}]
  BY DEF AlertInv, Typed, TypeOK
<1>2. \A q \in Rules : Remaining(q)' =>
        \/ Remaining(q) /\ worker'.rules[q] = worker.rules[q]
        \/ worker'.rules[q] = rules[q]
  BY RemainingStep DEF AlertInv
<1>3. CASE UNCHANGED <<states, rules, used, notices, edited, now>>
  BY <1>2, <1>3 DEF NotifiedKnown, Firing
<1>4. ASSUME NEW r \in Rules, EvaluateRule(r)
      PROVE  NotifiedKnown'
  <2>1. /\ UNCHANGED <<rules, edited, now>>
        /\ \A q \in Rules \ {r} : states'[q] = states[q] /\ notices'[q] = notices[q]
    BY <1>4 DEF EvaluateRule, Save, AlertInv, Typed, TypeOK
  <2>2. FirstTwo(r)' /\ ~Remaining(r)'
    BY <1>4, <2>1, EvaluateRuleNotices, EvaluatedIsDone DEF AlertInv, NotifiedKnown
  <2>3. ASSUME NEW q \in Rules, q # r
        PROVE  /\ Firing(q)' <=> Firing(q)
               /\ states'[q] = states[q] /\ notices'[q] = notices[q]
    BY <2>1, <2>3 DEF Firing
  <2> QED
    BY <1>2, <2>1, <2>2, <2>3 DEF NotifiedKnown
<1>5. ASSUME NEW gone \in SUBSET Rules, DropRules(gone),
             UNCHANGED <<used, notices, edited, now, worker>>
      PROVE  NotifiedKnown'
  <2>1. \A r \in Rules : \/ states'[r] = Nil
                         \/ states'[r] = states[r] /\ rules'[r] = rules[r]
    BY <1>5 DEF DropRules
  <2>2. \A r \in Rules : Remaining(r)' <=> Remaining(r)
    BY <1>5 DEF Remaining, NextRule
  <2> QED
    BY <1>5, <2>1, <2>2 DEF NotifiedKnown, Firing
<1>6. ASSUME NEW r \in Rules, NEW rule, rules' = [rules EXCEPT ![r] = rule],
             edited' = [edited EXCEPT ![r] = now],
             UNCHANGED <<states, notices, now, worker>>
      PROVE  NotifiedKnown'
  <2>1. \A q \in Rules : /\ Remaining(q)' <=> Remaining(q)
                         /\ Firing(q)' <=> Firing(q)
    BY <1>6 DEF Remaining, NextRule, Firing
  <2>2. /\ edited'[r] = now /\ rules'[r] = rule
        /\ \A q \in Rules \ {r} : edited'[q] = edited[q] /\ rules'[q] = rules[q]
    BY <1>1, <1>6
  <2>3. Firing(r) => states[r].firingSince <= now /\ states[r].firingSince \in Nat
    BY <1>1 DEF NotifiedKnown
  <2> QED
    BY <1>1, <1>6, <2>1, <2>2, <2>3 DEF NotifiedKnown
<1>7. CASE Tick
  <2>1. /\ now' = now + 1 /\ UNCHANGED <<states, rules, notices, edited, worker>>
    BY <1>7 DEF Tick, dbVars, histVars
  <2>2. \A q \in Rules : /\ Remaining(q)' <=> Remaining(q)
                         /\ Firing(q)' <=> Firing(q)
    BY <2>1 DEF Remaining, NextRule, Firing
  <2> QED
    BY <1>1, <2>1, <2>2 DEF NotifiedKnown
<1>8. ASSUME NEW rule \in Settings, CreateRule(rule)
      PROVE  NotifiedKnown'
  BY <1>6, <1>8 DEF CreateRule
<1>9. ASSUME NEW r \in Rules, NEW rule \in Settings, UpdateRule(r, rule)
      PROVE  NotifiedKnown'
  BY <1>6, <1>9 DEF UpdateRule
<1> QED
  BY <1>3, <1>4, <1>5, <1>7, <1>8, <1>9, NextTables

\* Evaluate, SaveStateAndEvent and the stored last_notified_at: an alert that
\* is not edited is notified once, or as often as its interval allows, across
\* restarts, failed writes and events evaluated twice (evaluator.go:256-341).
THEOREM RemindersSpacedHolds == Spec => []RemindersSpaced
<1> DEFINE IInv == AlertInv /\ IdsKnown /\ NotifiedKnown
<1>1. Init => IInv
  <2>1. Init => IdsKnown
    BY DEF Init, IdsKnown, Idle
  <2>2. Init => NotifiedKnown
    BY DEF Init, NotifiedKnown, Firing, Remaining, Idle
  <2> QED
    BY <2>1, <2>2, InitAlert
<1>2. IInv /\ [Next]_vars => IInv'
  BY NextAlert, IdsKept, NotifiedKept DEF AlertInv
<1>3. IInv => RemindersSpaced
  <2>1. SUFFICES ASSUME IInv, NEW r \in Rules, Firing(r), rules[r] # Nil,
                        edited[r] < states[r].firingSince
                 PROVE  IF rules[r].repeat = 0
                        THEN notices[r] = 1
                        ELSE (notices[r] - 1) * rules[r].repeat
                                <= now - states[r].firingSince
    BY DEF RemindersSpaced
  <2>2. /\ states[r].firingSince \in Nat /\ states[r].notifiedAt \in Nat
        /\ states[r].notifiedAt <= now /\ now \in Nat
        /\ notices[r] \in Nat /\ rules[r].repeat \in Nat
    BY <2>1 DEF NotifiedKnown, AlertInv, Typed, TypeOK, Rule
  <2>3. (notices[r] - 1) * rules[r].repeat \in Int
    BY <2>2
  <2> QED
    BY <2>1, <2>2, <2>3 DEF NotifiedKnown
<1> QED
  BY <1>1, <1>2, <1>3, PTL DEF Spec

-------------------------------------------------------------------------------
(* What an offline rule says of its server.                                *)

\* The snapshot x of s, wherever it is on its way to the evaluator, is the
\* stored one or an earlier one.
Earlier(s, x) ==
    s \in servers =>
       /\ store[s] # Nil
       /\ x.seq <= store[s].seq
       /\ x.seq = store[s].seq => x.online = store[s].online

OnTheWay ==
    /\ \A s \in Servers : store[s] # Nil => s \in servers /\ taken[s] <= store[s].seq
    /\ \A event \in submits : Earlier(event.server, event.snapshot)
    /\ \A i \in 1 .. Len(queue) : Earlier(queue[i].server, queue[i].snapshot)
    /\ \A s \in Servers : timer[s].snapshot # Nil => Earlier(s, timer[s].snapshot)
    /\ worker.event # Nil =>
          /\ Earlier(worker.event.server, worker.event.snapshot)
          /\ taken[worker.event.server] = worker.event.snapshot.seq

\* The evaluator works on the rules as they are, and none of another server.
ListedAsStored ==
    \A r \in Rules : worker.rules[r] # Nil =>
        /\ rules[r] \in {Nil, worker.rules[r]}
        /\ worker.pc \in {"rule", "deliver"}
        /\ worker.event.server = worker.rules[r].server

\* The evaluation of r for the event taken is still to come.
ToEvaluate(r) ==
    \/ Remaining(r)
    \/ worker.pc = "list" /\ worker.event.server = rules[r].server

\* An offline rule that has a state for the stored snapshot agrees with it.
Agrees(r) ==
    states[r] # Nil /\ rules[r].metric = "offline" =>
       /\ states[r].status # "pending"
       /\ /\ rules[r].enabled
          /\ store[rules[r].server] # Nil
          /\ taken[rules[r].server] = store[rules[r].server].seq
          /\ ~ToEvaluate(r)
          => (Firing(r) <=> ~store[rules[r].server].online)

AgreementInv == OnTheWay /\ ListedAsStored /\ \A r \in Rules : Agrees(r)

\* The same of the snapshots stored after a step.
EarlierNext(s, x) ==
    s \in servers' =>
       /\ store'[s] # Nil
       /\ x.seq <= store'[s].seq
       /\ x.seq = store'[s].seq => x.online = store'[s].online

\* OnTheWay after a step, part by part.
LEMMA OnTheWayNext ==
    ASSUME /\ \A s \in Servers : store'[s] # Nil =>
                s \in servers' /\ taken'[s] <= store'[s].seq
           /\ \A event \in submits' : EarlierNext(event.server, event.snapshot)
           /\ \A i \in 1 .. Len(queue') :
                EarlierNext(queue'[i].server, queue'[i].snapshot)
           /\ \A s \in Servers : timer'[s].snapshot # Nil =>
                EarlierNext(s, timer'[s].snapshot)
           /\ worker'.event # Nil =>
                /\ EarlierNext(worker'.event.server, worker'.event.snapshot)
                /\ taken'[worker'.event.server] = worker'.event.snapshot.seq
    PROVE  OnTheWay'
  BY DEF OnTheWay, Earlier, EarlierNext

LEMMA InFlight ==
    ASSUME TypeOK
    PROVE  /\ \A event \in submits : event.server \in Servers
           /\ \A i \in 1 .. Len(queue) : queue[i].server \in Servers
           /\ worker.event # Nil => worker.event.server \in Servers
           /\ \A s \in Servers : store[s] # Nil =>
                store[s] \in Snapshot /\ store[s].seq \in Nat
           /\ \A event \in submits : event.snapshot.seq \in Nat
           /\ \A i \in 1 .. Len(queue) : queue[i].snapshot.seq \in Nat
           /\ worker.event # Nil => worker.event.snapshot.seq \in Nat
           /\ \A s \in Servers : timer[s].snapshot # Nil => timer[s].snapshot.seq \in Nat
<1>1. /\ submits \subseteq Event /\ queue \in Seq(Event)
      /\ worker.event \in Event \cup {Nil}
      /\ store \in [Servers -> Snapshot \cup {Nil}]
      /\ \A s \in Servers : timer[s].snapshot \in Snapshot \cup {Nil}
  BY DEF TypeOK, Timer
<1>2. \A i \in 1 .. Len(queue) : queue[i] \in Event
  BY <1>1
<1>3. \A event \in Event : event.server \in Servers /\ event.snapshot.seq \in Nat
  BY DEF Event, Snapshot
<1> QED
  BY <1>1, <1>2, <1>3 DEF Snapshot

\* A report or a sweep: the snapshots of S move on while nothing is published.
LEMMA StoreMovesOn ==
    ASSUME Typed, OnTheWay, ~Publishing, NEW S \in SUBSET Servers, S \subseteq servers,
           \A s \in S : /\ store'[s] # Nil /\ store'[s] \in Snapshot
                        /\ store'[s].seq = SeqOf(s) + 1,
           \A s \in Servers \ S : store'[s] = store[s],
           \A event \in submits' : /\ event.server \in S
                                   /\ event.snapshot = store'[event.server],
           UNCHANGED <<servers, evalVars, worker, taken>>
    PROVE  OnTheWay' /\ \A s \in S : taken[s] < store'[s].seq
<1> USE DEF Typed
<1>1. /\ taken \in [Servers -> Nat] /\ \A s \in Servers : SeqOf(s) \in Nat
  BY InFlight DEF TypeOK, SeqOf
<1>2. \A s \in S : taken[s] < store'[s].seq
  BY <1>1 DEF OnTheWay, SeqOf
<1>3. ASSUME NEW s \in Servers, NEW x, x.seq \in Nat, Earlier(s, x)
      PROVE  EarlierNext(s, x)
  <2>1. CASE s \in S
    <3>1. store[s] # Nil /\ x.seq <= store[s].seq /\ store'[s].seq = store[s].seq + 1
          /\ store[s].seq \in Nat /\ store'[s] # Nil
      BY <1>3, <2>1, InFlight DEF Earlier, SeqOf
    <3>2. x.seq <= store'[s].seq /\ x.seq # store'[s].seq
      BY <1>3, <3>1
    <3> QED
      BY <3>1, <3>2 DEF EarlierNext
  <2>2. CASE s \notin S
    BY <1>3, <2>2 DEF Earlier, EarlierNext
  <2> QED
    BY <2>1, <2>2
<1>4. \A event \in submits' : EarlierNext(event.server, event.snapshot)
  <2>1. SUFFICES ASSUME NEW event \in submits'
                 PROVE  EarlierNext(event.server, event.snapshot)
    OBVIOUS
  <2>2. /\ event.server \in S /\ event.snapshot = store'[event.server]
        /\ store'[event.server] # Nil /\ store'[event.server].seq \in Nat
    BY DEF Snapshot
  <2> QED
    BY <2>2 DEF EarlierNext
<1>5. \A s \in Servers : store'[s] # Nil => s \in servers' /\ taken'[s] <= store'[s].seq
  BY <1>1, <1>2 DEF OnTheWay, Snapshot
<1>6. \A i \in 1 .. Len(queue') : EarlierNext(queue'[i].server, queue'[i].snapshot)
  <2>1. UNCHANGED queue
    BY DEF evalVars
  <2> QED
    BY <1>3, <2>1, InFlight DEF OnTheWay
<1>7. \A s \in Servers : timer'[s].snapshot # Nil => EarlierNext(s, timer'[s].snapshot)
  <2>1. UNCHANGED timer
    BY DEF evalVars
  <2> QED
    BY <1>3, <2>1, InFlight DEF OnTheWay
<1>8. worker'.event # Nil =>
          /\ EarlierNext(worker'.event.server, worker'.event.snapshot)
          /\ taken'[worker'.event.server] = worker'.event.snapshot.seq
  BY <1>3, InFlight DEF OnTheWay
<1>9. OnTheWay'
  BY <1>4, <1>5, <1>6, <1>7, <1>8, OnTheWayNext
<1> QED
  BY <1>2, <1>9

\* The other steps move what is on the way and store nothing, or forget.
LEMMA OnTheWayKept ==
    ASSUME Typed, OnTheWay, [Next]_vars
    PROVE  OnTheWay'
<1> USE DEF Typed
<1>1. /\ queue \in Seq(Event) /\ submits \subseteq Event
      /\ taken \in [Servers -> Nat]
      /\ worker \in [pc: {"idle", "list", "rule", "deliver"},
                    event: Event \cup {Nil}, rules: [Rules -> Rule \cup {Nil}]]
      /\ timer \in [Servers -> Timer]
      /\ store \in [Servers -> Snapshot \cup {Nil}] /\ servers \subseteq Servers
  BY DEF TypeOK
<1>2. ASSUME UNCHANGED <<store, servers, taken>>,
             submits' \subseteq submits,
             \A i \in 1 .. Len(queue') :
               \/ \E j \in 1 .. Len(queue) : queue'[i] = queue[j]
               \/ queue'[i] \in submits
               \/ \E s \in Servers : /\ timer[s].snapshot # Nil
                                     /\ queue'[i].server = s
                                     /\ queue'[i].snapshot = timer[s].snapshot,
             \A s \in Servers : timer'[s].snapshot \in {Nil, timer[s].snapshot, store[s]},
             worker'.event \in {Nil, worker.event}
      PROVE  OnTheWay'
  <2>1. \A s, x : Earlier(s, x) => EarlierNext(s, x)
    BY <1>2 DEF Earlier, EarlierNext
  <2>2. \A i \in 1 .. Len(queue') :
          EarlierNext(queue'[i].server, queue'[i].snapshot)
    BY <1>2, <2>1 DEF OnTheWay
  <2>3. ASSUME NEW s \in Servers, timer'[s].snapshot # Nil
        PROVE  EarlierNext(s, timer'[s].snapshot)
    <3>1. CASE timer'[s].snapshot = timer[s].snapshot
      BY <2>1, <2>3, <3>1 DEF OnTheWay
    <3>2. CASE timer'[s].snapshot = store[s]
      <4>1. store[s].seq \in Nat
        BY <2>3, <3>2, InFlight
      <4> QED
        BY <1>2, <2>3, <3>2, <4>1 DEF EarlierNext
    <3> QED
      BY <1>2, <2>3, <3>1, <3>2
  <2>4. \A event \in submits' : EarlierNext(event.server, event.snapshot)
    BY <1>2, <2>1 DEF OnTheWay
  <2>5. worker'.event # Nil =>
          /\ EarlierNext(worker'.event.server, worker'.event.snapshot)
          /\ taken'[worker'.event.server] = worker'.event.snapshot.seq
    BY <1>2, <2>1 DEF OnTheWay
  <2>6. \A s \in Servers : store'[s] # Nil => s \in servers' /\ taken'[s] <= store'[s].seq
    BY <1>2 DEF OnTheWay
  <2> QED
    BY <2>2, <2>3, <2>4, <2>5, <2>6, OnTheWayNext
<1>3. ASSUME NEW s \in Servers, NEW high \in BOOLEAN, Report(s, high)
      PROVE  OnTheWay'
  <2> DEFINE x == [online |-> TRUE, high |-> high, seq |-> SeqOf(s) + 1]
  <2>1. SeqOf(s) \in Nat
    BY InFlight, <1>1 DEF SeqOf
  <2>2. x \in Snapshot /\ x # Nil /\ x.seq = SeqOf(s) + 1
    <3>1. x \in Snapshot /\ x.seq = SeqOf(s) + 1
      BY <2>1 DEF Snapshot
    <3> HIDE DEF x
    <3> QED
      BY <3>1, AlertAssumption
  <2>3. /\ store' = [store EXCEPT ![s] = x]
        /\ submits' = {Published("snapshot.updated", s, x)}
        /\ ~Publishing /\ s \in servers
        /\ UNCHANGED <<servers, evalVars, worker, taken>>
    BY <1>3 DEF Report, dbVars
  <2> HIDE DEF x
  <2>4. \A event \in submits' : event.server = s /\ event.snapshot = x
    BY <2>3 DEF Published
  <2>5. store'[s] = x /\ \A q \in Servers \ {s} : store'[q] = store[q]
    BY <1>1, <2>3
  <2> DEFINE S == {s}
  <2>6. /\ S \in SUBSET Servers /\ S \subseteq servers
        /\ \A q \in S : /\ store'[q] # Nil /\ store'[q] \in Snapshot
                        /\ store'[q].seq = SeqOf(q) + 1
        /\ \A q \in Servers \ S : store'[q] = store[q]
        /\ \A event \in submits' : /\ event.server \in S
                                   /\ event.snapshot = store'[event.server]
    BY <2>2, <2>3, <2>4, <2>5
  <2> HIDE DEF S
  <2> QED
    BY <2>3, <2>6, StoreMovesOn
<1>4. ASSUME NEW expired \in SUBSET Servers, Sweep(expired)
      PROVE  OnTheWay'
  <2>1. /\ ~Publishing
        /\ \A s \in expired : store[s] # Nil
        /\ \A s \in Servers : store'[s] =
             IF s \in expired
             THEN [online |-> FALSE, high |-> store[s].high, seq |-> store[s].seq + 1]
             ELSE store[s]
        /\ submits' = {Published("snapshot.offline", s, store'[s]) : s \in expired}
        /\ UNCHANGED <<servers, evalVars, worker, taken>>
    BY <1>4 DEF Sweep, dbVars
  <2>2. \A s \in expired : /\ store'[s] # Nil /\ store'[s] \in Snapshot
                           /\ store'[s].seq = SeqOf(s) + 1
    <3>1. SUFFICES ASSUME NEW s \in expired
                   PROVE  /\ store'[s] # Nil /\ store'[s] \in Snapshot
                          /\ store'[s].seq = SeqOf(s) + 1
      OBVIOUS
    <3>2. store[s] \in Snapshot /\ store[s] # Nil
      BY <1>1, <2>1
    <3>3. store'[s] = [online |-> FALSE, high |-> store[s].high, seq |-> store[s].seq + 1]
      BY <2>1
    <3>4. store'[s] \in Snapshot /\ store'[s].seq = store[s].seq + 1
      BY <3>2, <3>3 DEF Snapshot
    <3> QED
      BY <3>2, <3>4, AlertAssumption DEF SeqOf
  <2>3. \A event \in submits' : /\ event.server \in expired
                                /\ event.snapshot = store'[event.server]
    BY <2>1 DEF Published
  <2>4. expired \subseteq servers
    BY <2>1 DEF OnTheWay
  <2> QED
    BY <2>1, <2>2, <2>3, <2>4, StoreMovesOn
<1>5. ASSUME NEW event \in submits, Submit(event)
      PROVE  OnTheWay'
  <2>1. /\ UNCHANGED <<store, servers, taken, timer, worker>>
        /\ submits' \subseteq submits
        /\ queue' = Append(queue, event) \/ queue' = queue
    BY <1>5 DEF Submit, dbVars
  <2>2. event \in Event
    BY <1>1
  <2>3. \A i \in 1 .. Len(queue') :
          \/ \E j \in 1 .. Len(queue) : queue'[i] = queue[j]
          \/ queue'[i] \in submits
    BY <1>1, <2>1, <2>2
  <2> QED
    BY <1>2, <2>1, <2>3
<1>6. ASSUME NEW s \in Servers, TimerSends(s)
      PROVE  OnTheWay'
  <2> DEFINE event == Published("snapshot.updated", s, timer[s].snapshot)
  <2>1. /\ UNCHANGED <<store, servers, taken, submits, worker>>
        /\ timer[s].pc = "read"
        /\ queue' = Append(queue, event) \/ queue' = queue
        /\ \E x \in {"sent", "full"} : timer' = [timer EXCEPT ![s] = [Off EXCEPT !.pc = x]]
    BY <1>6 DEF TimerSends, dbVars, liveVars
  <2>2. timer[s].snapshot \in Snapshot /\ timer[s].snapshot # Nil
    BY <1>1, <2>1 DEF Carried, Timer
  <2>3. event \in Event /\ event.server = s /\ event.snapshot = timer[s].snapshot
    BY <2>2 DEF Published, Event
  <2> HIDE DEF event
  <2>4. \A i \in 1 .. Len(queue') :
          \/ \E j \in 1 .. Len(queue) : queue'[i] = queue[j]
          \/ queue'[i] = event
    BY <1>1, <2>1, <2>3
  <2>5. \A q \in Servers : timer'[q].snapshot \in {Nil, timer[q].snapshot}
    BY <1>1, <2>1 DEF Off
  <2> QED
    BY <1>2, <2>1, <2>2, <2>3, <2>4, <2>5
<1>7. ASSUME UNCHANGED <<store, servers, taken, queue, worker>>, submits' = submits,
             NEW s \in Servers,
             \/ UNCHANGED timer
             \/ timer' = [timer EXCEPT ![s].pc = "armed"]
             \/ timer' = [timer EXCEPT ![s] = Off]
             \/ \E c : timer' = [timer EXCEPT ![s] = [pc |-> c, snapshot |-> store[s]]]
      PROVE  OnTheWay'
  <2>1. \A q \in Servers : timer'[q].snapshot \in {Nil, timer[q].snapshot, store[q]}
    <3>1. CASE timer' = [timer EXCEPT ![s].pc = "armed"]
      <4>1. timer[s] \in Timer
        BY <1>1
      <4>2. [timer[s] EXCEPT !.pc = "armed"].snapshot = timer[s].snapshot
        BY <4>1 DEF Timer
      <4>3. timer' = [timer EXCEPT ![s] = [timer[s] EXCEPT !.pc = "armed"]]
        BY <1>1, <3>1
      <4> QED
        BY <1>1, <4>2, <4>3
    <3>2. CASE timer' = [timer EXCEPT ![s] = Off]
      BY <1>1, <3>2 DEF Off
    <3>3. CASE \E c : timer' = [timer EXCEPT ![s] = [pc |-> c, snapshot |-> store[s]]]
      BY <1>1, <3>3
    <3> QED
      BY <1>7, <3>1, <3>2, <3>3
  <2> QED
    BY <1>2, <1>7, <2>1
<1>8. CASE Refuse
  <2>1. refused \in Servers
    BY <1>8 DEF Refuse, TypeOK
  <2> QED
    BY <1>7, <1>8, <2>1 DEF Refuse, Schedule, liveVars, dbVars
<1>9. ASSUME NEW s \in Servers, TimerReads(s) \/ TimerUnmarks(s) \/ TimerRearms(s)
      PROVE  OnTheWay'
  BY <1>7, <1>9 DEF TimerReads, TimerUnmarks, TimerRearms, Schedule, liveVars, dbVars
<1>10. CASE Take
  <2> DEFINE event == Head(queue)
  <2>1. /\ queue # <<>> /\ queue' = Tail(queue)
        /\ worker' = [worker EXCEPT !.pc = "list", !.event = event]
        /\ taken' = [taken EXCEPT ![event.server] = event.snapshot.seq]
        /\ UNCHANGED <<store, submits, servers, timer>>
    BY <1>10 DEF Take, liveVars, dbVars
  <2>2. /\ 1 \in 1 .. Len(queue) /\ event = queue[1]
        /\ \A i \in 1 .. Len(queue') : i + 1 \in 1 .. Len(queue) /\ queue'[i] = queue[i + 1]
    BY <1>1, <2>1
  <2>3. event.server \in Servers /\ Earlier(event.server, event.snapshot)
    BY <2>2, InFlight DEF OnTheWay
  <2> HIDE DEF event
  <2>4. /\ worker'.event = event /\ taken'[event.server] = event.snapshot.seq
        /\ \A s \in Servers : s # event.server => taken'[s] = taken[s]
    BY <1>1, <2>1, <2>3
  <2>5. \A s, x : Earlier(s, x) => EarlierNext(s, x)
    BY <2>1 DEF Earlier, EarlierNext
  <2>6. \A s \in Servers : store'[s] # Nil => s \in servers' /\ taken'[s] <= store'[s].seq
    BY <2>1, <2>3, <2>4 DEF OnTheWay, Earlier
  <2>7. \A i \in 1 .. Len(queue') : EarlierNext(queue'[i].server, queue'[i].snapshot)
    BY <2>2, <2>5 DEF OnTheWay
  <2>8. \A s \in Servers : timer'[s].snapshot # Nil => EarlierNext(s, timer'[s].snapshot)
    BY <2>1, <2>5 DEF OnTheWay
  <2>9. \A x \in submits' : EarlierNext(x.server, x.snapshot)
    BY <2>1, <2>5 DEF OnTheWay
  <2> QED
    BY <2>3, <2>4, <2>5, <2>6, <2>7, <2>8, <2>9, OnTheWayNext
<1>11. ASSUME UNCHANGED <<store, servers, taken, queue, timer, submits>>,
              worker'.event \in {Nil, worker.event}
       PROVE  OnTheWay'
  BY <1>2, <1>11
<1>12. CASE ListRules \/ ListRulesFails \/ Evaluated
  <2>1. worker'.event \in {Nil, worker.event}
    <3>1. CASE ListRules
      <4>1. \E p, t : worker' = [worker EXCEPT !.pc = p, !.rules = t]
        BY <3>1 DEF ListRules
      <4> QED
        BY <1>1, <4>1
    <3>2. CASE ListRulesFails \/ Evaluated
      BY <3>2 DEF ListRulesFails, Evaluated, Idle
    <3> QED
      BY <1>12, <3>1, <3>2
  <2> QED
    BY <1>11, <1>12, <2>1
       DEF ListRules, ListRulesFails, Evaluated, liveVars, evalVars, dbVars
<1>13. ASSUME NEW r \in Rules, EvaluateRule(r) \/ EvaluateRuleFails(r) \/ EnqueueDelivery(r)
       PROVE  OnTheWay'
  <2>1. worker'.event = worker.event
    BY <1>1, <1>13 DEF EvaluateRule, EvaluateRuleFails, EnqueueDelivery
  <2> QED
    BY <1>11, <1>13, <2>1
       DEF EvaluateRule, EvaluateRuleFails, EnqueueDelivery, liveVars, evalVars, dbVars
<1>14. CASE \/ \E rule \in Settings : CreateRule(rule)
            \/ \E r \in Rules, rule \in Settings : UpdateRule(r, rule)
            \/ \E r \in Rules : DeleteRule(r)
            \/ Tick
  BY <1>11, <1>14 DEF CreateRule, UpdateRule, DeleteRule, Tick, liveVars, evalVars, dbVars
<1>15. ASSUME NEW s \in Servers, DeleteServer(s)
       PROVE  OnTheWay'
  <2>1. /\ servers' = servers \ {s} /\ store' = [store EXCEPT ![s] = Nil]
        /\ UNCHANGED <<submits, queue, timer, worker, taken>>
    BY <1>15 DEF DeleteServer, evalVars
  <2>2. /\ store'[s] = Nil /\ \A q \in Servers \ {s} : store'[q] = store[q]
    BY <1>1, <2>1
  <2>3. \A q \in Servers : \A x : Earlier(q, x) => EarlierNext(q, x)
    BY <2>1, <2>2 DEF Earlier, EarlierNext
  <2>4. \A q \in Servers : store'[q] # Nil => q \in servers' /\ taken'[q] <= store'[q].seq
    BY <2>1, <2>2 DEF OnTheWay
  <2>5. \A i \in 1 .. Len(queue') : EarlierNext(queue'[i].server, queue'[i].snapshot)
    BY <2>1, <2>3, InFlight DEF OnTheWay
  <2>6. \A q \in Servers : timer'[q].snapshot # Nil => EarlierNext(q, timer'[q].snapshot)
    BY <2>1, <2>3 DEF OnTheWay
  <2>7. \A x \in submits' : EarlierNext(x.server, x.snapshot)
    BY <2>1, <2>3, InFlight DEF OnTheWay
  <2>8. worker'.event # Nil =>
          /\ EarlierNext(worker'.event.server, worker'.event.snapshot)
          /\ taken'[worker'.event.server] = worker'.event.snapshot.seq
    BY <2>1, <2>3, InFlight DEF OnTheWay
  <2> QED
    BY <2>4, <2>5, <2>6, <2>7, <2>8, OnTheWayNext
<1>16. CASE Restart
  <2>1. /\ \A s \in Servers : store'[s] = Nil /\ timer'[s].snapshot = Nil
        /\ submits' = {} /\ queue' = <<>> /\ Len(queue') = 0
        /\ worker'.event = Nil
    BY <1>16 DEF Restart, Off, Idle
  <2> QED
    BY <2>1, OnTheWayNext
<1>17. CASE UNCHANGED vars
  BY <1>11, <1>17 DEF vars
<1> QED
  BY <1>3, <1>4, <1>5, <1>6, <1>8, <1>9, <1>10, <1>12, <1>13, <1>14, <1>15, <1>16,
     <1>17 DEF Next, Publish, Callback, Worker

\* Every statement succeeds and no rule is edited: rules are created and
\* deleted, servers deleted, the process restarted.
Undisturbed == "edit" \notin Hazards /\ "fault" \notin Hazards

\* An evaluation of a rule without a duration decides.
LEMMA EvaluateAtOnce ==
    ASSUME NEW state \in State, NEW breached \in BOOLEAN, NEW repeat \in Nat,
           NEW t \in Nat, state.status # "pending",
           NEW out, out = Evaluate(state, breached, 0, repeat, t)
    PROVE  /\ out.state.status # "pending"
           /\ out.state.status = "firing" <=> breached
<1> USE DEF Evaluate, State, Status, Instant, Calmed, ReminderDue
<1>1. CASE state.status = "normal"
  BY <1>1
<1>2. CASE state.status = "firing"
  BY <1>2
<1>3. CASE state.status = "recovered"
  BY <1>3
<1> QED
  BY <1>1, <1>2, <1>3

LEMMA ListedKept ==
    ASSUME Typed, IdsKnown, ListedAsStored, Undisturbed, [Next]_vars
    PROVE  ListedAsStored'
<1>1. /\ worker \in [pc: {"idle", "list", "rule", "deliver"},
                    event: Event \cup {Nil}, rules: [Rules -> Rule \cup {Nil}]]
      /\ rules \in [Rules -> Rule \cup {Nil}]
  BY DEF Typed, TypeOK
<1>2. ASSUME worker' = Idle
      PROVE  ListedAsStored'
  BY <1>2 DEF ListedAsStored, Idle
<1>3. CASE Take
  <2>1. /\ worker.pc = "idle"
        /\ worker' = [worker EXCEPT !.pc = "list", !.event = Head(queue)]
    BY <1>3 DEF Take
  <2>2. \A r \in Rules : worker'.rules[r] = worker.rules[r] /\ worker.rules[r] = Nil
    BY <1>1, <2>1 DEF ListedAsStored
  <2> QED
    BY <2>2 DEF ListedAsStored
<1>4. CASE ListRules
  <2>1. /\ worker'.pc = "rule" /\ worker'.event = worker.event
        /\ \A r \in Rules : worker'.rules[r] =
             IF Concerns(worker.event, rules[r]) THEN rules[r] ELSE Nil
        /\ UNCHANGED rules
    BY <1>1, <1>4 DEF ListRules, dbVars
  <2> QED
    BY <2>1 DEF ListedAsStored, Concerns
<1>5. ASSUME UNCHANGED rules, worker'.event = worker.event,
             worker'.pc \in {"rule", "deliver"},
             \A r \in Rules : worker'.rules[r] \in {Nil, worker.rules[r]}
      PROVE  ListedAsStored'
  BY <1>5 DEF ListedAsStored
<1>6. ASSUME NEW r \in Rules, EvaluateRule(r) \/ EvaluateRuleFails(r) \/ EnqueueDelivery(r)
      PROVE  ListedAsStored'
  <2>1. /\ worker'.event = worker.event /\ worker'.pc \in {"rule", "deliver"}
        /\ \A q \in Rules : worker'.rules[q] \in {Nil, worker.rules[q]}
    <3>1. CASE worker' = [worker EXCEPT !.pc = "deliver"]
      BY <1>1, <3>1
    <3>2. CASE /\ worker.pc \in {"rule", "deliver"}
               /\ worker' = [worker EXCEPT !.rules[r] = Nil]
      BY <1>1, <3>2
    <3>3. CASE worker' = [worker EXCEPT !.pc = "rule", !.rules[r] = Nil]
      BY <1>1, <3>3
    <3> QED
      BY <1>6, <3>1, <3>2, <3>3 DEF EvaluateRule, EvaluateRuleFails, EnqueueDelivery
  <2>2. UNCHANGED rules
    BY <1>6 DEF EvaluateRule, EvaluateRuleFails, EnqueueDelivery, dbVars
  <2> QED
    BY <1>5, <2>1, <2>2
<1>7. ASSUME UNCHANGED worker,
             \A r \in Rules : rules'[r] \in {Nil, rules[r]} \/ worker.rules[r] = Nil
      PROVE  ListedAsStored'
  BY <1>7 DEF ListedAsStored
<1>8. ASSUME NEW rule \in Settings, CreateRule(rule)
      PROVE  ListedAsStored'
  <2>1. PICK r \in Rules \ used : rules' = [rules EXCEPT ![r] = rule]
    BY <1>8 DEF CreateRule
  <2>2. worker.rules[r] = Nil
    BY DEF IdsKnown
  <2> QED
    BY <1>1, <1>7, <1>8, <2>1, <2>2 DEF CreateRule
<1>9. ASSUME NEW gone, DropRules(gone), UNCHANGED worker
      PROVE  ListedAsStored'
  BY <1>7, <1>9 DEF DropRules
<1>10. (\E r \in Rules : DeleteRule(r)) \/ (\E s \in Servers : DeleteServer(s))
         => ListedAsStored'
  BY <1>9 DEF DeleteRule, DeleteServer
<1>11. UNCHANGED <<worker, rules>> => ListedAsStored'
  BY <1>7
<1> QED
  BY <1>2, <1>3, <1>4, <1>6, <1>8, <1>10, <1>11
     DEF Undisturbed, Next, Publish, Callback, Worker, vars, dbVars, Report,
         Sweep, Submit, Refuse, TimerReads, TimerSends, TimerUnmarks,
         TimerRearms, ListRulesFails, Evaluated, UpdateRule, Tick, Restart

\* A report or a sweep makes every rule of its server wait for an evaluation.
LEMMA StoreMovesAgree ==
    ASSUME Typed, IdsKnown, OnTheWay, NEW r \in Rules, Agrees(r), ~Publishing,
           \/ \E s \in Servers, high \in BOOLEAN : Report(s, high)
           \/ \E expired \in SUBSET Servers : Sweep(expired)
    PROVE  Agrees(r)'
<1>1. /\ UNCHANGED <<states, rules, taken, worker>>
      /\ \A s \in Servers :
           store'[s] = store[s] \/ (store'[s] # Nil /\ store'[s].seq # taken[s])
  <2>1. /\ store \in [Servers -> Snapshot \cup {Nil}] /\ taken \in [Servers -> Nat]
        /\ \A s \in Servers : SeqOf(s) \in Nat
    BY InFlight DEF Typed, TypeOK, SeqOf
  <2>2. \A s \in Servers : taken[s] <= SeqOf(s)
    BY <2>1 DEF OnTheWay, SeqOf
  <2>3. ASSUME NEW s \in Servers, NEW high \in BOOLEAN, Report(s, high)
        PROVE  \A q \in Servers :
                 store'[q] = store[q] \/ (store'[q] # Nil /\ store'[q].seq # taken[q])
    <3> DEFINE x == [online |-> TRUE, high |-> high, seq |-> SeqOf(s) + 1]
    <3>1. store' = [store EXCEPT ![s] = x]
      BY <2>3 DEF Report
    <3>2. x \in Snapshot /\ x.seq = SeqOf(s) + 1
      BY <2>1 DEF Snapshot
    <3> HIDE DEF x
    <3>3. x # Nil /\ x.seq # taken[s]
      BY <2>1, <2>2, <3>2, AlertAssumption
    <3> QED
      BY <2>1, <3>1, <3>3
  <2>4. ASSUME NEW expired \in SUBSET Servers, Sweep(expired)
        PROVE  \A q \in Servers :
                 store'[q] = store[q] \/ (store'[q] # Nil /\ store'[q].seq # taken[q])
    <3>1. SUFFICES ASSUME NEW q \in expired
                   PROVE  store'[q] # Nil /\ store'[q].seq # taken[q]
      BY <2>4 DEF Sweep
    <3> DEFINE x == [online |-> FALSE, high |-> store[q].high, seq |-> store[q].seq + 1]
    <3>2. store'[q] = x /\ store[q] # Nil /\ store[q] \in Snapshot
      BY <2>1, <2>4 DEF Sweep
    <3>3. x \in Snapshot /\ x.seq = store[q].seq + 1 /\ store[q].seq \in Nat
      BY <3>2 DEF Snapshot
    <3> HIDE DEF x
    <3>4. x # Nil /\ x.seq # taken[q]
      BY <2>1, <3>2, <3>3, AlertAssumption DEF OnTheWay
    <3> QED
      BY <3>2, <3>4
  <2> QED
    BY <2>3, <2>4 DEF Report, Sweep, dbVars
<1>2. ToEvaluate(r)' <=> ToEvaluate(r)
  BY <1>1 DEF ToEvaluate, Remaining, NextRule
<1>3. states[r] # Nil => rules[r].server \in Servers
  BY DEF IdsKnown, Typed, TypeOK, Rule
<1> QED
  BY <1>1, <1>2, <1>3 DEF Agrees, Firing

\* The tables, the store and what was taken stay: no evaluation is forgotten.
LEMMA WaitingAgrees ==
    ASSUME NEW r \in Rules, Agrees(r),
           UNCHANGED <<states, rules, store, taken>>,
           states[r] # Nil /\ rules[r].metric = "offline" /\ rules[r].enabled
             /\ ToEvaluate(r) => ToEvaluate(r)'
    PROVE  Agrees(r)'
  BY DEF Agrees, Firing

LEMMA AgreesKept ==
    ASSUME Typed, IdsKnown, AgreementInv, Undisturbed, [Next]_vars, NEW r \in Rules
    PROVE  Agrees(r)'
<1> USE DEF AgreementInv
<1>1. /\ worker \in [pc: {"idle", "list", "rule", "deliver"},
                    event: Event \cup {Nil}, rules: [Rules -> Rule \cup {Nil}]]
      /\ rules \in [Rules -> Rule \cup {Nil}] /\ states \in [Rules -> State \cup {Nil}]
      /\ store \in [Servers -> Snapshot \cup {Nil}] /\ taken \in [Servers -> Nat]
      /\ queue \in Seq(Event)
  BY DEF Typed, TypeOK
<1>2. states[r] # Nil => /\ rules[r] # Nil /\ rules[r] \in Rule
                         /\ rules[r].server \in Servers
  BY <1>1 DEF IdsKnown, Rule
<1>3. ASSUME UNCHANGED <<states, rules, store, taken, worker>>
      PROVE  Agrees(r)'
  BY <1>3, WaitingAgrees DEF ToEvaluate, Remaining, NextRule
<1>4. CASE \/ \E s \in Servers, high \in BOOLEAN : Report(s, high)
           \/ \E expired \in SUBSET Servers : Sweep(expired)
  <2>1. ~Publishing
    BY <1>4 DEF Report, Sweep
  <2> QED
    BY <1>4, <2>1, StoreMovesAgree
<1>5. CASE Take
  <2>1. /\ worker.pc = "idle" /\ queue # <<>>
        /\ worker' = [worker EXCEPT !.pc = "list", !.event = Head(queue)]
        /\ taken' = [taken EXCEPT ![Head(queue).server] = Head(queue).snapshot.seq]
        /\ UNCHANGED <<states, rules, store>>
    BY <1>5 DEF Take, liveVars, dbVars
  <2>2. worker'.pc = "list" /\ worker'.event = Head(queue) /\ ~ToEvaluate(r)
    BY <1>1, <2>1 DEF ToEvaluate, Remaining
  <2>3. CASE rules[r].server = Head(queue).server
    <3>1. ToEvaluate(r)'
      BY <2>1, <2>2, <2>3 DEF ToEvaluate
    <3> QED
      BY <2>1, <3>1 DEF Agrees, Firing
  <2>4. CASE rules[r].server # Head(queue).server
    <3>1. states[r] # Nil => taken'[rules[r].server] = taken[rules[r].server]
      BY <1>1, <1>2, <2>1, <2>4
    <3> QED
      BY <2>1, <2>2, <3>1 DEF Agrees, Firing
  <2> QED
    BY <2>3, <2>4
<1>6. CASE ListRules
  <2>1. /\ worker.pc = "list" /\ worker'.pc = "rule"
        /\ worker'.rules[r] = IF Concerns(worker.event, rules[r]) THEN rules[r] ELSE Nil
        /\ UNCHANGED <<states, rules, store, taken>>
    BY <1>1, <1>6 DEF ListRules, liveVars, dbVars
  <2>2. states[r] # Nil /\ rules[r].metric = "offline" /\ rules[r].enabled
          /\ ToEvaluate(r) => ToEvaluate(r)'
    BY <1>2, <2>1 DEF ToEvaluate, Remaining, Concerns
  <2> QED
    BY <2>1, <2>2, WaitingAgrees
<1>7. CASE Evaluated
  <2>1. ~ToEvaluate(r) /\ UNCHANGED <<states, rules, store, taken>>
    BY <1>7 DEF Evaluated, ToEvaluate, Remaining, liveVars, dbVars
  <2> QED
    BY <2>1, WaitingAgrees
<1>8. ASSUME NEW q \in Rules, EvaluateRuleFails(q)
      PROVE  Agrees(r)'
  <2>1. /\ worker.pc = "rule" /\ rules[q] = Nil
        /\ worker' = [worker EXCEPT !.rules[q] = Nil]
        /\ UNCHANGED <<states, rules, store, taken>>
    BY <1>8 DEF EvaluateRuleFails, Undisturbed, liveVars, dbVars
  <2>2. q # r => worker'.rules[r] = worker.rules[r] /\ worker'.pc = "rule"
    BY <1>1, <2>1
  <2>3. states[r] # Nil /\ ToEvaluate(r) => ToEvaluate(r)'
    BY <1>2, <2>1, <2>2 DEF ToEvaluate, Remaining
  <2> QED
    BY <2>1, <2>3, WaitingAgrees
<1>9. ASSUME NEW q \in Rules, EnqueueDelivery(q)
      PROVE  Agrees(r)'
  <2>1. /\ worker.pc = "deliver" /\ NextRule(q)
        /\ worker' = [worker EXCEPT !.pc = "rule", !.rules[q] = Nil]
        /\ UNCHANGED <<states, rules, store, taken>>
    BY <1>9 DEF EnqueueDelivery, liveVars, dbVars
  <2>2. q # r => worker'.rules[r] = worker.rules[r] /\ worker'.pc = "rule"
    BY <1>1, <2>1
  <2>3. ToEvaluate(r) => ToEvaluate(r)'
    BY <2>1, <2>2 DEF ToEvaluate, Remaining
  <2> QED
    BY <2>1, <2>3, WaitingAgrees
<1>10. ASSUME NEW q \in Rules, EvaluateRule(q), q # r
       PROVE  Agrees(r)'
  <2>1. /\ worker.pc = "rule" /\ NextRule(q)
        /\ states'[r] = states[r] /\ UNCHANGED <<rules, store, taken>>
        /\ \/ worker' = [worker EXCEPT !.pc = "deliver"]
           \/ worker' = [worker EXCEPT !.rules[q] = Nil]
    BY <1>1, <1>10 DEF EvaluateRule, Save, liveVars, dbVars
  <2>2. ~NextRule(r)
    BY <1>10, <2>1, NextRuleUnique
  <2>3. ToEvaluate(r) => ToEvaluate(r)'
    <3>1. CASE worker' = [worker EXCEPT !.pc = "deliver"]
      <4>1. worker'.pc = "deliver" /\ worker'.rules = worker.rules
        BY <1>1, <3>1
      <4> QED
        BY <2>1, <2>2, <4>1 DEF ToEvaluate, Remaining, NextRule
    <3>2. CASE worker' = [worker EXCEPT !.rules[q] = Nil]
      <4>1. worker'.pc = "rule" /\ worker'.rules[r] = worker.rules[r]
        BY <1>1, <1>10, <2>1, <3>2
      <4> QED
        BY <2>1, <4>1 DEF ToEvaluate, Remaining
    <3> QED
      BY <2>1, <3>1, <3>2
  <2> QED
    BY <2>1, <2>3 DEF Agrees, Firing
<1>11. ASSUME EvaluateRule(r)
       PROVE  Agrees(r)'
  <2>1. /\ worker.rules[r] # Nil /\ worker.pc = "rule" /\ rules[r] # Nil
        /\ states'[r] = Outcome(r).state
        /\ UNCHANGED <<rules, store, taken>>
    BY <1>1, <1>11 DEF EvaluateRule, Save, NextRule, liveVars
  <2>2. /\ worker.rules[r] = rules[r]
        /\ worker.event # Nil /\ worker.event.server = rules[r].server
    BY <2>1 DEF ListedAsStored, Typed, Carried
  <2>3. CASE rules[r].metric = "offline"
    <3>1. /\ StateOf(r) \in State /\ rules[r].repeat \in Nat /\ now \in Nat
          /\ Breached(worker.event.snapshot, rules[r]) \in BOOLEAN
          /\ Outcome(r).state \in State
      BY <2>1, <2>2, OutcomeType DEF Typed, TypeOK
    <3>2. StateOf(r).status # "pending"
      BY <2>3 DEF Agrees, StateOf, NoState
    <3>3. /\ Outcome(r).state.status # "pending"
          /\ Outcome(r).state.status = "firing" <=> ~worker.event.snapshot.online
      <4>1. Outcome(r) = Evaluate(StateOf(r), Breached(worker.event.snapshot, rules[r]),
                                  0, rules[r].repeat, now)
        BY <2>2, <2>3 DEF Outcome, HoldOf
      <4>2. Breached(worker.event.snapshot, rules[r]) <=> ~worker.event.snapshot.online
        BY <2>3 DEF Breached
      <4> QED
        BY <3>1, <3>2, <4>1, <4>2, EvaluateAtOnce
    <3>4. states'[r] # Nil /\ (Firing(r)' <=> Outcome(r).state.status = "firing")
      BY <2>1, <3>1, AlertAssumption DEF Firing
    <3>5. ASSUME store[rules[r].server] # Nil,
                 taken[rules[r].server] = store[rules[r].server].seq
          PROVE  worker.event.snapshot.online = store[rules[r].server].online
      <4>1. rules[r].server \in Servers
        BY <1>1, <2>1 DEF Rule
      <4> QED
        BY <2>2, <3>5, <4>1 DEF OnTheWay, Earlier
    <3> QED
      BY <2>1, <3>3, <3>4, <3>5 DEF Agrees
  <2>4. CASE rules[r].metric # "offline"
    BY <2>1, <2>4 DEF Agrees
  <2> QED
    BY <2>3, <2>4
<1>12. ASSUME NEW rule \in Settings, CreateRule(rule)
       PROVE  Agrees(r)'
  <2>1. PICK q \in Rules \ used : rules' = [rules EXCEPT ![q] = rule]
    BY <1>12 DEF CreateRule
  <2>2. UNCHANGED <<states, store, taken, worker>>
    BY <1>12 DEF CreateRule, liveVars
  <2>3. CASE q = r
    <3>1. states'[r] = Nil
      BY <2>1, <2>2, <2>3 DEF IdsKnown
    <3> QED
      BY <3>1 DEF Agrees
  <2>4. CASE q # r
    <3>1. rules'[r] = rules[r]
      BY <1>1, <2>1, <2>4
    <3>2. ToEvaluate(r)' <=> ToEvaluate(r)
      BY <2>2, <3>1 DEF ToEvaluate, Remaining, NextRule
    <3> QED
      BY <2>2, <3>1, <3>2 DEF Agrees, Firing
  <2> QED
    BY <2>3, <2>4
<1>13. ASSUME NEW gone, DropRules(gone), UNCHANGED <<worker, taken>>,
              r \in gone \/ store'[rules[r].server] = store[rules[r].server]
       PROVE  Agrees(r)'
  <2>1. CASE r \in gone
    <3>1. states'[r] = Nil
      BY <1>13, <2>1 DEF DropRules
    <3> QED
      BY <3>1 DEF Agrees
  <2>2. CASE r \notin gone
    <3>1. states'[r] = states[r] /\ rules'[r] = rules[r]
      BY <1>13, <2>2 DEF DropRules
    <3>2. ToEvaluate(r)' <=> ToEvaluate(r)
      BY <1>13, <3>1 DEF ToEvaluate, Remaining, NextRule
    <3> QED
      BY <1>13, <2>2, <3>1, <3>2 DEF Agrees, Firing
  <2> QED
    BY <2>1, <2>2
<1>14. ASSUME NEW q \in Rules, DeleteRule(q)
       PROVE  Agrees(r)'
  BY <1>13, <1>14 DEF DeleteRule, liveVars
<1>15. ASSUME NEW s \in Servers, DeleteServer(s)
       PROVE  Agrees(r)'
  <2> DEFINE gone == {q \in Rules : rules[q] # Nil /\ rules[q].server = s}
  <2>1. /\ DropRules(gone) /\ UNCHANGED <<worker, taken>>
        /\ store' = [store EXCEPT ![s] = Nil]
    BY <1>15 DEF DeleteServer
  <2>2. CASE states[r] = Nil
    <3>1. states'[r] = Nil
      BY <2>1, <2>2 DEF DropRules
    <3> QED
      BY <3>1 DEF Agrees
  <2>3. CASE states[r] # Nil
    <3>1. r \in gone \/ store'[rules[r].server] = store[rules[r].server]
      BY <1>1, <1>2, <2>1, <2>3
    <3> HIDE DEF gone
    <3> QED
      BY <1>13, <2>1, <3>1
  <2> QED
    BY <2>2, <2>3
<1>16. CASE Restart
  <2>1. /\ \A s \in Servers : store'[s] = Nil
        /\ UNCHANGED <<states, rules>>
    BY <1>16 DEF Restart, dbVars
  <2> QED
    BY <1>2, <2>1 DEF Agrees
<1> QED
  BY <1>3, <1>4, <1>5, <1>6, <1>7, <1>8, <1>9, <1>10, <1>11, <1>12, <1>14, <1>15, <1>16
     DEF Undisturbed, Next, Publish, Callback, Worker, vars, liveVars, dbVars,
         Submit, Refuse, TimerReads, TimerSends, TimerUnmarks, TimerRearms,
         ListRulesFails, UpdateRule, Tick

\* Submit, scheduleLatest, Run and EvaluateNow: an offline rule that has been
\* evaluated for the stored snapshot fires exactly while its server is
\* offline, whichever of its events were refused, compensated or overtaken, and
\* across restarts, as long as no statement fails and no rule is edited
\* (evaluator.go:62-207).
THEOREM OfflineRuleAgreesHolds ==
    ASSUME Undisturbed PROVE Spec => []OfflineRuleAgrees
<1> DEFINE IInv == Typed /\ IdsKnown /\ AgreementInv
<1>1. Init => IInv
  <2>1. Init => IdsKnown
    BY DEF Init, IdsKnown, Idle
  <2>2. Init => AgreementInv
    <3>1. SUFFICES ASSUME Init PROVE AgreementInv
      OBVIOUS
    <3>2. /\ \A s \in Servers : store[s] = Nil /\ timer[s].snapshot = Nil
          /\ submits = {} /\ Len(queue) = 0 /\ worker.event = Nil
          /\ \A r \in Rules : worker.rules[r] = Nil /\ states[r] = Nil
      BY <3>1 DEF Init, Off, Idle
    <3> QED
      BY <3>2 DEF AgreementInv, OnTheWay, ListedAsStored, Agrees
  <2> QED
    BY <2>1, <2>2, InitTyped
<1>2. IInv /\ [Next]_vars => IInv'
  BY NextTyped, IdsKept, OnTheWayKept, ListedKept, AgreesKept DEF AgreementInv
<1>3. IInv => OfflineRuleAgrees
  <2>1. SUFFICES ASSUME IInv, Quiet, NEW r \in Rules
                 PROVE  /\ states[r] # Nil
                        /\ rules[r].metric = "offline"
                        /\ rules[r].enabled
                        /\ store[rules[r].server] # Nil
                        /\ taken[rules[r].server] = store[rules[r].server].seq
                        => (Firing(r) <=> ~store[rules[r].server].online)
    BY DEF OfflineRuleAgrees
  <2>2. ~ToEvaluate(r)
    BY <2>1 DEF Quiet, Idle, ToEvaluate, Remaining
  <2> QED
    BY <2>1, <2>2 DEF AgreementInv, Agrees
<1> QED
  BY <1>1, <1>2, <1>3, PTL DEF Spec
===============================================================================
