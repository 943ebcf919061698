------------------------------ MODULE AlertRules ------------------------------
(***************************************************************************)
(* The pure part of internal/alerting: what a rule measures in a snapshot, *)
(* the four-state machine that one evaluation advances, and the event row  *)
(* a notification leaves.  A measured value is abstracted to whether it    *)
(* passes the rule's threshold: that is all Evaluate looks at.             *)
(***************************************************************************)
EXTENDS Integers

CONSTANT Nil   \* no row, no instant, no snapshot

Status   == {"normal", "pending", "firing", "recovered"}
Instant  == Nat \cup {Nil}
State    == [status: Status, pendingSince: Instant, firingSince: Instant,
             notifiedAt: Instant]
Snapshot == [online: BOOLEAN, high: BOOLEAN, seq: Nat]

NoState == [status |-> "normal", pendingSince |-> Nil, firingSince |-> Nil,
            notifiedAt |-> Nil]

\* breached(MetricValue(snapshot, metric), rule).  An offline rule measures
\* the online flag and every other metric the last report, whether the
\* server is online or not.
Breached(snapshot, rule) ==
    IF rule.metric = "offline" THEN ~snapshot.online ELSE snapshot.high

\* durationForRule
HoldOf(rule) == IF rule.metric = "offline" THEN 0 ELSE rule.hold

\* Variant: a pending rule ignores a healthy value.
CalmedUnlessPending(state) ==
    IF state.status = "pending" THEN state
    ELSE [state EXCEPT !.status = "normal", !.pendingSince = Nil,
                       !.firingSince = Nil]

\* A healthy value ends whatever was pending or recovered.
Calmed(state) ==
    [state EXCEPT !.status = "normal", !.pendingSince = Nil,
                  !.firingSince = Nil]

\* Variant: repeat_seconds = 0 is an interval like any other.
ReminderDueAtZero(state, repeat, t) ==
    \/ state.notifiedAt = Nil
    \/ t - state.notifiedAt >= repeat

\* A firing rule is notified again: never by default.
ReminderDue(state, repeat, t) ==
    /\ repeat > 0
    /\ \/ state.notifiedAt = Nil
       \/ t - state.notifiedAt >= repeat

\* Evaluate: the state an evaluation at t leaves, and whether it notifies.
Evaluate(state, breached, hold, repeat, t) ==
    LET quiet(s)  == [state |-> s, notify |-> FALSE]
        notify(s) == [state |-> s, notify |-> TRUE]
        fresh  == state.status \in {"normal", "recovered"}
        waited == /\ state.pendingSince # Nil
                  /\ t - state.pendingSince >= hold
        remind == ReminderDue(state, repeat, t)
    IN  CASE ~breached /\ state.status = "firing" ->
               notify([state EXCEPT !.status = "recovered",
                                    !.pendingSince = Nil, !.notifiedAt = t])
          [] ~breached /\ state.status = "normal" -> quiet(state)
          [] ~breached /\ state.status \in {"pending", "recovered"} ->
               quiet(Calmed(state))
          [] breached /\ fresh /\ hold <= 0 ->
               notify([status |-> "firing", pendingSince |-> Nil,
                       firingSince |-> t, notifiedAt |-> t])
          [] breached /\ fresh /\ hold > 0 ->
               quiet([status |-> "pending", pendingSince |-> t,
                      firingSince |-> Nil,
                      notifiedAt |-> IF state.status = "recovered"
                                     THEN Nil ELSE state.notifiedAt])
          [] breached /\ state.status = "pending" /\ waited ->
               notify([state EXCEPT !.status = "firing", !.firingSince = t,
                                    !.notifiedAt = t])
          [] breached /\ state.status = "pending" /\ ~waited ->
               quiet([state EXCEPT
                        !.pendingSince = IF @ = Nil THEN t ELSE @])
          [] breached /\ state.status = "firing" /\ remind ->
               notify([state EXCEPT !.notifiedAt = t,
                        !.firingSince = IF @ = Nil THEN t ELSE @])
          [] breached /\ state.status = "firing" /\ ~remind ->
               quiet([state EXCEPT
                        !.firingSince = IF @ = Nil THEN t ELSE @])

\* eventFor: the row a notifying evaluation at t writes.
EventFor(rule, server, state, t) ==
    [status    |-> state.status,
     server    |-> server,
     startedAt |-> IF state.firingSince = Nil THEN t ELSE state.firingSince,
     endedAt   |-> IF state.status = "recovered" THEN t ELSE Nil]
===============================================================================
