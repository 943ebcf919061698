------------------------------- MODULE Dispatch -------------------------------
(***************************************************************************)
(* The webhook dispatcher: a bounded queue of delivery jobs, the workers   *)
(* that render a job's body once and try it with growing delays, the       *)
(* handler that sends a test through the same code, and the table of       *)
(* attempts.                                                               *)
(*                                                                         *)
(* The evaluator that stores events and offers their jobs, the endpoint    *)
(* that answers and the deletion of events are the environment.  A result  *)
(* is abstracted to whether Success() holds: a response lost or timed out  *)
(* is a failure, whatever the endpoint made of the request.                *)
(***************************************************************************)
EXTENDS Naturals, Sequences, FiniteSets

CONSTANTS Events,         \* ids of rows of alert_events
          Tests,          \* requests to POST /api/webhook/test
          Workers,        \* deliveryWorkerCount goroutines
          QueueCapacity,  \* deliveryQueueCapacity
          MaxAttempts,    \* len(delays)
          Hazards,        \* which of "cancel", "fault", "delete", "crash"
          Nil

ASSUME DispatchAssumption ==
    /\ QueueCapacity \in Nat \ {0}
    /\ MaxAttempts \in Nat \ {0}
    /\ Workers \cap Tests = {} /\ Events \cap Tests = {}
    /\ Nil \notin Events \cup Tests

VARIABLES
    rows,       \* events in alert_events
    stored,     \* events ever stored
    offered,    \* events whose enqueueDelivery has returned
    queue,      \* Dispatcher.queue
    task,       \* the goroutines that run dispatch and their local variables
    cancelled,  \* contexts that are done: the workers' one, or a test's own
    attempts,   \* webhook_attempts, by the event or the test they are for
    sends       \* history: the results of the requests made, by the same

vars == <<rows, stored, offered, queue, task, cancelled, attempts, sends>>

Jobs    == Events \cup Tests
Tasks   == Workers \cup Tests
Attempt == [n: 1..MaxAttempts, success: BOOLEAN]
Task    == [pc: {"idle", "render", "send", "record", "sleep", "done"},
            job: Jobs \cup {Nil}, n: 1..MaxAttempts, success: BOOLEAN]

Idle == [pc |-> "idle", job |-> Nil, n |-> 1, success |-> FALSE]
Done == [Idle EXCEPT !.pc = "done"]

\* The workers share one context, and each test has its request's.
Live(a) == IF a \in Workers THEN cancelled \cap Workers = {}
                            ELSE a \notin cancelled

Init ==
    /\ rows = {}
    /\ stored = {}
    /\ offered = {}
    /\ queue = <<>>
    /\ task = [a \in Tasks |-> Idle]
    /\ cancelled = {}
    /\ attempts = [j \in Jobs |-> <<>>]
    /\ sends = [j \in Jobs |-> <<>>]

-------------------------------------------------------------------------------
(* The evaluator: SaveStateAndEvent, then enqueueDelivery.                 *)

StoreEvent(e) ==
    /\ e \notin stored
    /\ stored = offered
    /\ rows' = rows \cup {e}
    /\ stored' = stored \cup {e}
    /\ UNCHANGED <<offered, queue, task, cancelled, attempts, sends>>

Enqueue(e) ==
    /\ e \in stored \ offered
    /\ Len(queue) < QueueCapacity
    /\ queue' = Append(queue, e)
    /\ offered' = offered \cup {e}
    /\ UNCHANGED <<rows, stored, task, cancelled, attempts, sends>>

\* No webhook, a disabled one, or ErrQueueFull: the event keeps no attempt.
EnqueueSkips(e) ==
    /\ e \in stored \ offered
    /\ offered' = offered \cup {e}
    /\ UNCHANGED <<rows, stored, queue, task, cancelled, attempts, sends>>

\* The event's rule or server is deleted: its attempts cascade.
DeleteEvent(e) ==
    /\ "delete" \in Hazards
    /\ e \in rows
    /\ rows' = rows \ {e}
    /\ attempts' = [attempts EXCEPT ![e] = <<>>]
    /\ UNCHANGED <<stored, offered, queue, task, cancelled, sends>>

-------------------------------------------------------------------------------
(* Run: each worker selects between its context and the queue.  When both
   are ready either may be taken.                                          *)

Take(w) ==
    /\ task[w].pc = "idle"
    /\ queue # <<>>
    /\ task' = [task EXCEPT
         ![w] = [Idle EXCEPT !.pc = "render", !.job = Head(queue)]]
    /\ queue' = Tail(queue)
    /\ UNCHANGED <<rows, stored, offered, cancelled, attempts, sends>>

\* Variant: a worker that finds the queue empty returns.
ExitWhenEmpty(w) ==
    /\ task[w].pc = "idle"
    /\ queue = <<>> \/ ~Live(w)
    /\ task' = [task EXCEPT ![w] = Done]
    /\ UNCHANGED <<rows, stored, offered, queue, cancelled, attempts, sends>>

Exit(w) ==
    /\ task[w].pc = "idle"
    /\ ~Live(w)
    /\ task' = [task EXCEPT ![w] = Done]
    /\ UNCHANGED <<rows, stored, offered, queue, cancelled, attempts, sends>>

\* TestWebhook: DispatchNow on the handler's own goroutine.
TestWebhook(t) ==
    /\ task[t].pc = "idle"
    /\ task' = [task EXCEPT ![t] = [Idle EXCEPT !.pc = "render", !.job = t]]
    /\ UNCHANGED <<rows, stored, offered, queue, cancelled, attempts, sends>>

-------------------------------------------------------------------------------
(* dispatch.                                                               *)

\* What the goroutine goes back to when dispatch returns.
Returned(a) == IF a \in Workers THEN Idle ELSE Done

\* RecordAttempt runs under the task's context; an event's attempt refers to
\* the event's row.
Recordable(a) == Live(a) /\ task[a].job \in rows \cup Tests

Kept(a, attempt) ==
    attempts' = [attempts EXCEPT ![task[a].job] = Append(@, attempt)]

\* RecordAttempt stores the attempt, or fails, which changes nothing and
\* stops nothing.
Recorded(a, attempt) ==
    \/ Recordable(a) /\ Kept(a, attempt)
    \/ (~Recordable(a) \/ "fault" \in Hazards) /\ UNCHANGED attempts

Render(a) ==
    /\ task[a].pc = "render"
    /\ task' = [task EXCEPT ![a].pc = "send"]
    /\ UNCHANGED <<rows, stored, offered, queue, cancelled, attempts, sends>>

\* A template that does not render is one failed attempt.
RenderFails(a) ==
    /\ task[a].pc = "render"
    /\ Recorded(a, [n |-> 1, success |-> FALSE])
    /\ task' = [task EXCEPT ![a] = Returned(a)]
    /\ UNCHANGED <<rows, stored, offered, queue, cancelled, sends>>

\* client.Send: under a context that is done it fails without a request.
Send(a) ==
    /\ task[a].pc = "send"
    /\ \E success \in IF Live(a) THEN BOOLEAN ELSE {FALSE} :
         /\ task' = [task EXCEPT ![a].pc = "record", ![a].success = success]
         /\ sends' = IF Live(a)
                     THEN [sends EXCEPT ![task[a].job] =
                            Append(@, [n |-> task[a].n, success |-> success])]
                     ELSE sends
    /\ UNCHANGED <<rows, stored, offered, queue, cancelled, attempts>>

\* Variant: the result of the attempt does not end the loop.
AfterAttemptGoesOn(a) ==
    IF task[a].n = MaxAttempts
    THEN Returned(a)
    ELSE [task[a] EXCEPT !.pc = "sleep"]

\* The loop over the delays ends with a success or with the last delay.
AfterAttempt(a) ==
    IF task[a].success \/ task[a].n = MaxAttempts
    THEN Returned(a)
    ELSE [task[a] EXCEPT !.pc = "sleep"]

\* Variant: every attempt is recorded under the number of the next one.
RecordLate(a) ==
    /\ task[a].pc = "record"
    /\ Recorded(a, [n |-> IF task[a].n < MaxAttempts THEN task[a].n + 1
                          ELSE task[a].n,
                    success |-> task[a].success])
    /\ task' = [task EXCEPT ![a] = AfterAttempt(a)]
    /\ UNCHANGED <<rows, stored, offered, queue, cancelled, sends>>

Record(a) ==
    /\ task[a].pc = "record"
    /\ Recorded(a, [n |-> task[a].n, success |-> task[a].success])
    /\ task' = [task EXCEPT ![a] = AfterAttempt(a)]
    /\ UNCHANGED <<rows, stored, offered, queue, cancelled, sends>>

\* sleepContext returns nil: the timer fired, the context done or not.
Wake(a) ==
    /\ task[a].pc = "sleep"
    /\ task' = [task EXCEPT ![a].pc = "send", ![a].n = @ + 1]
    /\ UNCHANGED <<rows, stored, offered, queue, cancelled, attempts, sends>>

\* sleepContext returns an error: the context was done.
WakeCancelled(a) ==
    /\ task[a].pc = "sleep"
    /\ ~Live(a)
    /\ task' = [task EXCEPT ![a] = Returned(a)]
    /\ UNCHANGED <<rows, stored, offered, queue, cancelled, attempts, sends>>

-------------------------------------------------------------------------------
\* Application.Close cancels the workers' context.
CancelWorkers ==
    /\ "cancel" \in Hazards
    /\ Workers \cap cancelled = {}
    /\ cancelled' = cancelled \cup Workers
    /\ UNCHANGED <<rows, stored, offered, queue, task, attempts, sends>>

\* The administrator's browser gives up its request.
CancelTest(t) ==
    /\ "cancel" \in Hazards
    /\ task[t].pc \notin {"idle", "done"}
    /\ t \notin cancelled
    /\ cancelled' = cancelled \cup {t}
    /\ UNCHANGED <<rows, stored, offered, queue, task, attempts, sends>>

\* The process dies and starts again: queue and goroutines are lost.
Restart ==
    /\ "crash" \in Hazards
    /\ offered' = stored
    /\ queue' = <<>>
    /\ task' = [a \in Tasks |->
         IF a \in Workers \/ task[a].pc = "idle" THEN Idle ELSE Done]
    /\ cancelled' = {}
    /\ UNCHANGED <<rows, stored, attempts, sends>>

Step(a) == \/ Render(a) \/ RenderFails(a) \/ Send(a) \/ Record(a)
           \/ Wake(a) \/ WakeCancelled(a)

Next ==
    \/ \E e \in Events : \/ StoreEvent(e) \/ Enqueue(e) \/ EnqueueSkips(e)
                         \/ DeleteEvent(e)
    \/ \E w \in Workers : Take(w) \/ Exit(w)
    \/ \E t \in Tests : TestWebhook(t) \/ CancelTest(t)
    \/ \E a \in Tasks : Step(a)
    \/ CancelWorkers
    \/ Restart

Spec == Init /\ [][Next]_vars

\* Goroutines that can run do run; the client's 10 second timeout and the
\* two delays bound every step that waits.
FairSpec ==
    /\ Spec
    /\ \A a \in Tasks : WF_vars(Step(a))
    /\ \A w \in Workers : WF_vars(Take(w) \/ Exit(w))

-------------------------------------------------------------------------------
(* Properties.                                                             *)

\* Every variable has its type, and the queue stays within its channel.
TypeOK ==
    /\ rows \subseteq Events
    /\ stored \subseteq Events
    /\ offered \subseteq Events
    /\ queue \in Seq(Events) /\ Len(queue) <= QueueCapacity
    /\ task \in [Tasks -> Task]
    /\ cancelled \subseteq Tasks
    /\ attempts \in [Jobs -> Seq(Attempt)]
    /\ sends \in [Jobs -> Seq(Attempt)]

\* dispatch and Run: however two workers, failed writes and restarts
\* interleave, a job's requests are numbered from one without a gap, at most
\* MaxAttempts are made, and none after one that succeeded.
RequestsInOrder ==
    \A j \in Jobs : \A i \in 1..Len(sends[j]) :
        /\ sends[j][i].n = i
        /\ sends[j][i].success => i = Len(sends[j])

\* RecordAttempt tells the truth: a recorded attempt is the result of the
\* request of that number, or the one failure of a template that did not
\* render; no number is recorded twice and the order is that of the requests.
RecordsAreRequests ==
    \A j \in Jobs :
        /\ \A i \in 1..Len(attempts[j]) :
             \/ \E k \in 1..Len(sends[j]) : attempts[j][i] = sends[j][k]
             \/ /\ sends[j] = <<>>
                /\ attempts[j] = <<[n |-> 1, success |-> FALSE]>>
        /\ \A i, k \in 1..Len(attempts[j]) :
             i < k => attempts[j][i].n < attempts[j][k].n

Holding(j) == {a \in Tasks : task[a].job = j}
Queued(j)  == {i \in 1..Len(queue) : queue[i] = j}

\* Run and dispatch: a queued job is over at some time, however many of its
\* requests fail or cannot be recorded, unless the workers are told to stop
\* (or the process dies, which empties the queue).
QueuedIsTried ==
    \A e \in Events :
        Queued(e) # {} ~>
            \/ Workers \subseteq cancelled
            \/ Holding(e) = {} /\ Queued(e) = {}
===============================================================================
