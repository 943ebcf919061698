---------------------------- MODULE DispatchProofs ----------------------------
(***************************************************************************)
(* Proofs about the webhook dispatcher: its requests come in order and its *)
(* records are its requests, for any number of workers, events and tests,  *)
(* any queue and any number of attempts.                                   *)
(*                                                                         *)
(* The argument: a job is in one place, waiting to be offered, queued, in  *)
(* the hands of one goroutine, or over; so the goroutine that holds it     *)
(* knows how many requests were made for it.  That is exact as long as the *)
(* goroutine's context lives, and a context that is done stays done until  *)
(* the process ends.                                                       *)
(***************************************************************************)
EXTENDS Dispatch, TLAPS

\* Every job is in one place.
Owned ==
    /\ \A w \in Workers : task[w].job \in Events \cup {Nil}
    /\ \A t \in Tests : task[t].job \in {t, Nil}
    /\ \A a \in Tasks : task[a].job = Nil <=> task[a].pc \in {"idle", "done"}
    /\ \A a, b \in Tasks : task[a].job = task[b].job /\ task[a].job # Nil => a = b
    /\ \A a \in Tasks : task[a].job \in Events => task[a].job \in offered
    /\ \A i, k \in 1..Len(queue) : queue[i] = queue[k] => i = k
    /\ \A i \in 1..Len(queue) :
          queue[i] \in offered /\ \A a \in Tasks : task[a].job # queue[i]
    /\ offered \subseteq stored

\* A job that no goroutine has taken up yet, or whose body is being rendered.
Fresh(j) ==
    \/ j \in Events /\ j \notin offered
    \/ \E i \in 1..Len(queue) : queue[i] = j
    \/ j \in Tests /\ task[j].pc = "idle"
    \/ \E a \in Tasks : task[a].job = j /\ task[a].pc = "render"

Untouched ==
    \A j \in Jobs : Fresh(j) => sends[j] = <<>> /\ attempts[j] = <<>>

\* The requests the goroutine's loop has come to, when its context lives.
Made(a) == IF task[a].pc = "send" THEN task[a].n - 1 ELSE task[a].n

\* What a goroutine inside the loop knows of its job.
InLoop(a) ==
    LET j == task[a].job IN
      /\ Len(sends[j]) <= Made(a)
      /\ Live(a) => Len(sends[j]) = Made(a)
      /\ Live(a) /\ task[a].pc = "record" =>
            sends[j][task[a].n] = [n |-> task[a].n, success |-> task[a].success]
      /\ \A i \in 1..Len(sends[j]) :
            sends[j][i].success => task[a].pc = "record" /\ task[a].success
      /\ \A i \in 1..Len(attempts[j]) :
            /\ attempts[j][i].n <= task[a].n
            /\ attempts[j][i].n = task[a].n => task[a].pc = "sleep"
            /\ \E k \in 1..Len(sends[j]) : attempts[j][i] = sends[j][k]
      /\ task[a].pc = "sleep" => task[a].n < MaxAttempts

Looping(a) == task[a].pc \in {"send", "record", "sleep"}

Progress ==
    \A a \in Tasks : /\ Looping(a) => InLoop(a)
                     /\ task[a].pc = "render" => task[a].n = 1

IInv == /\ TypeOK /\ Owned /\ Untouched /\ Progress
        /\ RequestsInOrder /\ RecordsAreRequests

-------------------------------------------------------------------------------
(* What a step of dispatch changes.                                        *)

\* Idle and Done are states of a goroutine without a job.
LEMMA IdleType ==
    /\ Idle \in Task /\ Done \in Task
    /\ Idle.job = Nil /\ Idle.pc = "idle"
    /\ Done.job = Nil /\ Done.pc = "done"
<1>1. 1 \in 1..MaxAttempts
  BY DispatchAssumption
<1>2. Idle \in Task /\ Idle.job = Nil /\ Idle.pc = "idle"
  BY <1>1 DEF Idle, Task
<1>3. Done \in Task /\ Done.job = Nil /\ Done.pc = "done"
  BY <1>1 DEF Done, Idle, Task
<1>4. QED
  BY <1>2, <1>3

\* A step of dispatch concerns one goroutine and its job.
LEMMA StepFrame ==
    ASSUME TypeOK, Owned, NEW a \in Tasks, Step(a)
    PROVE  /\ UNCHANGED <<rows, stored, offered, queue, cancelled>>
           /\ task[a].pc \notin {"idle", "done"} /\ task[a].job \in Jobs
           /\ \A b \in Tasks \ {a} : task'[b] = task[b]
           /\ \/ task'[a] = Returned(a)
              \/ /\ task'[a].job = task[a].job
                 /\ task'[a].pc \in {"send", "record", "sleep"}
           /\ \A j \in Jobs \ {task[a].job} :
                 sends'[j] = sends[j] /\ attempts'[j] = attempts[j]
<1>1. task \in [Tasks -> Task] /\ task[a] \in Task
  BY DEF TypeOK
<1>2. UNCHANGED <<rows, stored, offered, queue, cancelled>>
  BY DEF Step, Render, RenderFails, Send, Record, Wake, WakeCancelled
<1>3. task[a].pc \in {"render", "send", "record", "sleep"}
  BY DEF Step, Render, RenderFails, Send, Record, Wake, WakeCancelled
<1>4. task[a].job \in Jobs
  BY <1>1, <1>3 DEF Owned, Task
<1>5. \A b \in Tasks \ {a} : task'[b] = task[b]
  BY <1>1 DEF Step, Render, RenderFails, Send, Record, Wake, WakeCancelled
<1>6. \/ task'[a] = Returned(a)
      \/ /\ task'[a].job = task[a].job
         /\ task'[a].pc \in {"send", "record", "sleep"}
  <2>1. CASE Render(a) \/ Wake(a)
    BY <1>1, <2>1 DEF Render, Wake, Task
  <2>2. CASE RenderFails(a) \/ WakeCancelled(a)
    BY <1>1, <2>2 DEF RenderFails, WakeCancelled
  <2>3. CASE Send(a)
    BY <1>1, <2>3 DEF Send, Task
  <2>4. CASE Record(a)
    BY <1>1, <2>4 DEF Record, AfterAttempt, Task
  <2>5. QED
    BY <2>1, <2>2, <2>3, <2>4 DEF Step
<1>7. \A j \in Jobs \ {task[a].job} :
         sends'[j] = sends[j] /\ attempts'[j] = attempts[j]
  BY DEF TypeOK, Step, Render, RenderFails, Send, Record, Wake, WakeCancelled,
         Recorded, Kept
<1>8. QED
  BY <1>2, <1>3, <1>4, <1>5, <1>6, <1>7

-------------------------------------------------------------------------------
(* Types.                                                                  *)

\* A sequence stays one when something of its type is appended.
LEMMA AppendType ==
    ASSUME NEW S, NEW s \in Seq(S), NEW e \in S
    PROVE  Append(s, e) \in Seq(S) /\ <<>> \in Seq(S)
  OBVIOUS

\* The variables are well typed in the beginning.
LEMMA TypeInit == Init => TypeOK
<1> SUFFICES ASSUME Init PROVE TypeOK
  OBVIOUS
<1>1. queue \in Seq(Events) /\ Len(queue) <= QueueCapacity
  BY DispatchAssumption DEF Init
<1>2. task \in [Tasks -> Task]
  BY IdleType DEF Init
<1>3. <<>> \in Seq(Attempt)
  OBVIOUS
<1>4. attempts \in [Jobs -> Seq(Attempt)] /\ sends \in [Jobs -> Seq(Attempt)]
  BY <1>3 DEF Init
<1>5. QED
  BY <1>1, <1>2, <1>4 DEF Init, TypeOK

\* Every step keeps the variables well typed.
LEMMA TypeStep == TypeOK /\ Progress /\ [Next]_vars => TypeOK'
<1> SUFFICES ASSUME TypeOK, Progress, [Next]_vars PROVE TypeOK'
  OBVIOUS
<1> USE DEF TypeOK
<1>1. MaxAttempts \in Nat \ {0} /\ QueueCapacity \in Nat
  BY DispatchAssumption
<1>2. ASSUME NEW e \in Events,
             StoreEvent(e) \/ Enqueue(e) \/ EnqueueSkips(e) \/ DeleteEvent(e)
      PROVE  TypeOK'
  <2>1. CASE StoreEvent(e)
    BY <2>1 DEF StoreEvent
  <2>2. CASE Enqueue(e)
    <3>1. queue' \in Seq(Events) /\ Len(queue') <= QueueCapacity
      BY <1>1, <2>2 DEF Enqueue
    <3>2. QED
      BY <2>2, <3>1 DEF Enqueue
  <2>3. CASE EnqueueSkips(e)
    BY <2>3 DEF EnqueueSkips
  <2>4. CASE DeleteEvent(e)
    <3>1. <<>> \in Seq(Attempt)
      OBVIOUS
    <3>2. attempts' \in [Jobs -> Seq(Attempt)]
      BY <2>4, <3>1 DEF DeleteEvent
    <3>3. QED
      BY <2>4, <3>2 DEF DeleteEvent
  <2>5. QED
    BY <1>2, <2>1, <2>2, <2>3, <2>4
<1>3. ASSUME NEW w \in Workers, Take(w) \/ Exit(w) PROVE TypeOK'
  <2>1. CASE Take(w)
    <3>1. /\ Head(queue) \in Events /\ Tail(queue) \in Seq(Events)
          /\ Len(Tail(queue)) <= QueueCapacity
      BY <1>1, <2>1 DEF Take
    <3>2. [Idle EXCEPT !.pc = "render", !.job = Head(queue)] \in Task
      BY <3>1, IdleType DEF Task, Jobs
    <3>3. QED
      BY <2>1, <3>1, <3>2 DEF Take
  <2>2. CASE Exit(w)
    BY <2>2, IdleType DEF Exit
  <2>3. QED
    BY <1>3, <2>1, <2>2
<1>4. ASSUME NEW t \in Tests, TestWebhook(t) \/ CancelTest(t) PROVE TypeOK'
  <2>1. [Idle EXCEPT !.pc = "render", !.job = t] \in Task
    BY IdleType DEF Task, Jobs
  <2>2. QED
    BY <1>4, <2>1 DEF TestWebhook, CancelTest, Tasks
<1>5. ASSUME NEW a \in Tasks, Step(a) PROVE TypeOK'
  <2>1. task[a] \in Task /\ Returned(a) \in Task
    BY IdleType DEF Returned
  <2>2. ASSUME NEW attempt \in Attempt, Recorded(a, attempt)
        PROVE  attempts' \in [Jobs -> Seq(Attempt)]
    <3>1. CASE task[a].job \in Jobs
      <4>1. Append(attempts[task[a].job], attempt) \in Seq(Attempt)
        BY <2>2, <3>1, AppendType
      <4>2. QED
        BY <2>2, <4>1 DEF Recorded, Kept
    <3>2. CASE task[a].job \notin Jobs
      BY <2>2, <3>2 DEF Recorded, Kept
    <3>3. QED
      BY <3>1, <3>2
  <2>3. CASE Render(a)
    BY <2>1, <2>3 DEF Render, Task
  <2>4. CASE RenderFails(a)
    <3>1. [n |-> 1, success |-> FALSE] \in Attempt
      BY <1>1 DEF Attempt
    <3>2. QED
      BY <2>1, <2>2, <2>4, <3>1 DEF RenderFails
  <2>5. CASE Send(a)
    <3>1. PICK success \in BOOLEAN :
            /\ task' = [task EXCEPT ![a].pc = "record", ![a].success = success]
            /\ sends' = IF Live(a)
                        THEN [sends EXCEPT ![task[a].job] =
                               Append(@, [n |-> task[a].n, success |-> success])]
                        ELSE sends
      BY <2>5 DEF Send
    <3>2. task' \in [Tasks -> Task]
      BY <2>1, <3>1 DEF Task
    <3>3. [n |-> task[a].n, success |-> success] \in Attempt
      BY <2>1 DEF Task, Attempt
    <3>4. sends' \in [Jobs -> Seq(Attempt)]
      <4>1. CASE task[a].job \in Jobs
        <5>1. Append(sends[task[a].job],
                     [n |-> task[a].n, success |-> success]) \in Seq(Attempt)
          BY <3>3, <4>1, AppendType
        <5>2. QED
          BY <3>1, <5>1
      <4>2. CASE task[a].job \notin Jobs
        BY <3>1, <4>2
      <4>3. QED
        BY <4>1, <4>2
    <3>5. QED
      BY <2>5, <3>2, <3>4 DEF Send
  <2>6. CASE Record(a)
    <3>1. [n |-> task[a].n, success |-> task[a].success] \in Attempt
      BY <2>1 DEF Task, Attempt
    <3>2. AfterAttempt(a) \in Task
      BY <2>1 DEF AfterAttempt, Task
    <3>3. QED
      BY <2>2, <2>6, <3>1, <3>2 DEF Record
  <2>7. CASE Wake(a)
    <3>1. task[a].n < MaxAttempts /\ task[a].n \in 1..MaxAttempts
      BY <2>1, <2>7 DEF Wake, Progress, Looping, InLoop, Task
    <3>2. task[a].n + 1 \in 1..MaxAttempts
      BY <1>1, <3>1
    <3>3. [task[a] EXCEPT !.pc = "send", !.n = @ + 1] \in Task
      BY <2>1, <3>2 DEF Task
    <3>4. task' \in [Tasks -> Task]
      BY <2>7, <3>3 DEF Wake
    <3>5. QED
      BY <2>7, <3>4 DEF Wake
  <2>8. CASE WakeCancelled(a)
    BY <2>1, <2>8 DEF WakeCancelled
  <2>9. QED
    BY <1>5, <2>3, <2>4, <2>5, <2>6, <2>7, <2>8 DEF Step
<1>6. CASE CancelWorkers
  BY <1>6 DEF CancelWorkers, Tasks
<1>7. CASE Restart
  <2>1. queue' \in Seq(Events) /\ Len(queue') <= QueueCapacity
    BY <1>1, <1>7 DEF Restart
  <2>2. task' \in [Tasks -> Task]
    BY <1>7, IdleType DEF Restart
  <2>3. QED
    BY <1>7, <2>1, <2>2 DEF Restart
<1>8. CASE UNCHANGED vars
  BY <1>8 DEF vars
<1>9. QED
  BY <1>2, <1>3, <1>4, <1>5, <1>6, <1>7, <1>8 DEF Next

-------------------------------------------------------------------------------
(* One place for every job.                                                *)

\* No two goroutines hold the same job.
LEMMA OneHolder ==
    ASSUME Owned, NEW a \in Tasks, NEW b \in Tasks,
           task[a].job = task[b].job, task[a].job # Nil
    PROVE  a = b
  BY DEF Owned

\* No goroutine holds a job of the queue, and every one of those was offered.
LEMMA NotQueued ==
    ASSUME Owned, NEW i \in 1..Len(queue)
    PROVE  queue[i] \in offered /\ \A a \in Tasks : task[a].job # queue[i]
  BY DEF Owned

\* Every job stays in one place.
LEMMA OwnedStep ==
    ASSUME TypeOK, TypeOK', Owned, [Next]_vars
    PROVE  Owned'
<1>1. ASSUME NEW e \in Events,
             StoreEvent(e) \/ Enqueue(e) \/ EnqueueSkips(e) \/ DeleteEvent(e)
      PROVE  Owned'
  <2>1. task' = task
    BY <1>1 DEF StoreEvent, Enqueue, EnqueueSkips, DeleteEvent
  <2>2. CASE StoreEvent(e) \/ EnqueueSkips(e) \/ DeleteEvent(e)
    BY <2>1, <2>2 DEF StoreEvent, EnqueueSkips, DeleteEvent, Owned
  <2>3. CASE Enqueue(e)
    <3>1. /\ e \in stored /\ e \notin offered
          /\ queue' = Append(queue, e) /\ offered' = offered \cup {e}
          /\ stored' = stored
      BY <2>3 DEF Enqueue
    <3>2. queue \in Seq(Events)
      BY DEF TypeOK
    <3>3. /\ Len(queue') = Len(queue) + 1
          /\ \A i \in 1..Len(queue') :
                \/ i \in 1..Len(queue) /\ queue'[i] = queue[i]
                \/ i = Len(queue) + 1 /\ queue'[i] = e
      BY <3>1, <3>2
    <3>4. \A i \in 1..Len(queue) : queue[i] # e
      BY <3>1 DEF Owned
    <3>5. \A a \in Tasks : task[a].job # e
      BY <3>1 DEF Owned
    <3>6. \A i, k \in 1..Len(queue') : queue'[i] = queue'[k] => i = k
      BY <3>3, <3>4 DEF Owned
    <3>7. \A i \in 1..Len(queue') : 
            queue'[i] \in offered' /\ \A a \in Tasks : task'[a].job # queue'[i]
      BY <2>1, <3>1, <3>3, <3>5 DEF Owned
    <3>8. QED
      BY <2>1, <3>1, <3>6, <3>7 DEF Owned
  <2>4. QED
    BY <1>1, <2>2, <2>3
<1>2. ASSUME NEW w \in Workers, Take(w) PROVE Owned'
  <2>1. /\ queue # <<>> /\ queue' = Tail(queue) /\ UNCHANGED <<stored, offered>>
        /\ task' = [task EXCEPT
             ![w] = [Idle EXCEPT !.pc = "render", !.job = Head(queue)]]
    BY <1>2 DEF Take
  <2>2. queue \in Seq(Events) /\ w \in Tasks /\ w \notin Tests
    BY DispatchAssumption DEF TypeOK, Tasks
  <2>3. /\ Len(queue') = Len(queue) - 1 /\ Len(queue) \in Nat \ {0}
        /\ \A i \in 1..Len(queue') : queue'[i] = queue[i + 1]
        /\ Head(queue) = queue[1] /\ queue[1] \in Events
    BY <2>1, <2>2
  <2>4. /\ task'[w].job = queue[1] /\ task'[w].pc = "render"
        /\ \A a \in Tasks \ {w} : task'[a] = task[a]
    BY <2>1, <2>2, <2>3, IdleType DEF TypeOK, Task
  <2>5. queue[1] # Nil /\ queue[1] \in offered /\ \A a \in Tasks : task[a].job # queue[1]
    BY <2>3, DispatchAssumption DEF Owned
  <2>6. \A i \in 1..Len(queue') : queue'[i] # queue[1]
    BY <2>3 DEF Owned
  <2>7. /\ \A v \in Workers : task'[v].job \in Events \cup {Nil}
        /\ \A t \in Tests : task'[t].job \in {t, Nil}
        /\ \A a \in Tasks : task'[a].job = Nil <=> task'[a].pc \in {"idle", "done"}
    BY <2>2, <2>3, <2>4, <2>5 DEF Owned, Tasks
  <2>8. \A a, b \in Tasks : task'[a].job = task'[b].job /\ task'[a].job # Nil => a = b
    BY <2>4, <2>5 DEF Owned
  <2>9. \A a \in Tasks : task'[a].job \in Events => task'[a].job \in offered
    BY <2>4, <2>5 DEF Owned
  <2>10. \A i, k \in 1..Len(queue') : queue'[i] = queue'[k] => i = k
    BY <2>3 DEF Owned
  <2>11. \A i \in 1..Len(queue') :
            queue'[i] \in offered /\ \A a \in Tasks : task'[a].job # queue'[i]
    BY <2>3, <2>4, <2>6, SMTT(30) DEF Owned
  <2>12. QED
    BY <2>1, <2>7, <2>8, <2>9, <2>10, <2>11 DEF Owned
<1>3. ASSUME NEW w \in Workers, Exit(w) PROVE Owned'
  <2>1. /\ UNCHANGED <<stored, offered, queue>> /\ task'[w] = Done
        /\ \A a \in Tasks \ {w} : task'[a] = task[a]
    BY <1>3 DEF Exit, TypeOK, Tasks
  <2>2. w \in Tasks /\ w \notin Tests
    BY DispatchAssumption DEF Tasks
  <2>3. task'[w].job = Nil /\ task'[w].pc = "done"
    BY <2>1, IdleType
  <2>4. /\ \A v \in Workers : task'[v].job \in Events \cup {Nil}
        /\ \A t \in Tests : task'[t].job \in {t, Nil}
        /\ \A a \in Tasks : task'[a].job = Nil <=> task'[a].pc \in {"idle", "done"}
    BY <2>1, <2>2, <2>3 DEF Owned, Tasks
  <2>5. \A a, b \in Tasks : task'[a].job = task'[b].job /\ task'[a].job # Nil => a = b
    BY <2>1, <2>3, OneHolder
  <2>6. \A a \in Tasks : task'[a].job \in Events => task'[a].job \in offered
    BY <2>1, <2>3, DispatchAssumption DEF Owned
  <2>7. \A i \in 1..Len(queue) :
            queue[i] \in offered /\ \A a \in Tasks : task'[a].job # queue[i]
    <3>1. \A i \in 1..Len(queue) : queue[i] \in Events
      BY DEF TypeOK
    <3>2. Nil \notin Events
      BY DispatchAssumption
    <3>3. QED
      BY <2>1, <2>3, <3>1, <3>2, NotQueued
  <2>8. QED
    BY <2>1, <2>4, <2>5, <2>6, <2>7 DEF Owned
<1>4. ASSUME NEW t \in Tests, TestWebhook(t) PROVE Owned'
  <2>1. /\ UNCHANGED <<stored, offered, queue>> /\ t \in Tasks /\ t \notin Workers
        /\ task'[t] = [Idle EXCEPT !.pc = "render", !.job = t]
        /\ \A a \in Tasks \ {t} : task'[a] = task[a]
    BY <1>4, DispatchAssumption DEF TestWebhook, TypeOK, Tasks
  <2>2. task'[t].job = t /\ task'[t].pc = "render"
    BY <2>1, IdleType DEF Task
  <2>3. t # Nil /\ t \notin Events
    BY DispatchAssumption
  <2>4. \A a \in Tasks : task[a].job # t
    <3>1. task[t].job = Nil
      BY <1>4, <2>1 DEF TestWebhook, Owned
    <3>2. QED
      BY <2>3, <3>1 DEF Owned, Tasks
  <2>5. \A i \in 1..Len(queue) : queue[i] # t
    BY <2>3 DEF TypeOK
  <2>6. /\ \A v \in Workers : task'[v].job \in Events \cup {Nil}
        /\ \A u \in Tests : task'[u].job \in {u, Nil}
        /\ \A a \in Tasks : task'[a].job = Nil <=> task'[a].pc \in {"idle", "done"}
    BY <2>1, <2>2, <2>3, ZenonT(60) DEF Owned, Tasks
  <2>7. \A a, b \in Tasks : task'[a].job = task'[b].job /\ task'[a].job # Nil => a = b
    BY <2>1, <2>2, <2>4, OneHolder
  <2>8. \A a \in Tasks : task'[a].job \in Events => task'[a].job \in offered
    <3>1. \A a \in Tasks : task[a].job \in Events => task[a].job \in offered
      BY DEF Owned
    <3>2. QED
      BY <2>1, <2>2, <2>3, <3>1
  <2>9. \A i \in 1..Len(queue) :
            queue[i] \in offered /\ \A a \in Tasks : task'[a].job # queue[i]
    BY <2>1, <2>2, <2>5, NotQueued
  <2>10. QED
    BY <2>1, <2>6, <2>7, <2>8, <2>9 DEF Owned
<1>5. ASSUME NEW a \in Tasks, Step(a) PROVE Owned'
  <2>1. /\ UNCHANGED <<stored, offered, queue>>
        /\ \A b \in Tasks \ {a} : task'[b] = task[b]
        /\ task[a].job \in Jobs
        /\ \/ task'[a].job = Nil /\ task'[a].pc \in {"idle", "done"}
           \/ /\ task'[a].job = task[a].job
              /\ task'[a].pc \notin {"idle", "done"}
    BY <1>5, StepFrame, IdleType DEF Returned
  <2>2. task[a].job # Nil
    BY <2>1, DispatchAssumption DEF Jobs
  <2>3. /\ \A v \in Workers : task'[v].job \in Events \cup {Nil}
        /\ \A u \in Tests : task'[u].job \in {u, Nil}
    BY <2>1 DEF Owned, Tasks
  <2>4. \A b \in Tasks : task'[b].job = Nil <=> task'[b].pc \in {"idle", "done"}
    BY <2>1, <2>2 DEF Owned
  <2>5. \A b, c \in Tasks : task'[b].job = task'[c].job /\ task'[b].job # Nil => b = c
    BY <2>1 DEF Owned
  <2>6. /\ \A b \in Tasks : task'[b].job \in Events => task'[b].job \in offered
        /\ \A i \in 1..Len(queue) : \A b \in Tasks : task'[b].job # queue[i]
    <3>1. \A i \in 1..Len(queue) : queue[i] \in Events
      BY DEF TypeOK
    <3>2. Nil \notin Events
      BY DispatchAssumption
    <3>3. \A i \in 1..Len(queue) : \A b \in Tasks : task'[b].job # queue[i]
      BY <2>1, <3>1, <3>2, NotQueued
    <3>4. \A b \in Tasks : task'[b].job \in Events => task'[b].job \in offered
      BY <2>1, <3>2 DEF Owned
    <3>5. QED
      BY <3>3, <3>4
  <2>7. QED
    BY <2>1, <2>3, <2>4, <2>5, <2>6 DEF Owned
<1>6. CASE Restart
  <2>1. /\ queue' = <<>> /\ offered' = stored /\ stored' = stored
        /\ \A a \in Tasks : task'[a].job = Nil /\ task'[a].pc \in {"idle", "done"}
    BY <1>6, IdleType DEF Restart
  <2>2. Nil \notin Events
    BY DispatchAssumption
  <2>3. QED
    BY <2>1, <2>2 DEF Owned, Tasks
<1>7. CASE UNCHANGED <<stored, offered, queue, task>>
  BY <1>7 DEF Owned
<1>8. QED
  BY <1>1, <1>2, <1>3, <1>4, <1>5, <1>6, <1>7
     DEF Next, vars, CancelTest, CancelWorkers

-------------------------------------------------------------------------------
(* What no goroutine has taken up was not requested.                       *)

\* Nothing is requested or recorded of a job before its body is rendered.
LEMMA UntouchedStep ==
    ASSUME TypeOK, Owned, Untouched, [Next]_vars
    PROVE  Untouched'
<1> SUFFICES ASSUME NEW j \in Jobs, Fresh(j)'
             PROVE  sends'[j] = <<>> /\ attempts'[j] = <<>>
  BY DEF Untouched
<1> DEFINE Goal == sends'[j] = <<>> /\ attempts'[j] = <<>>
<1>1. ASSUME Fresh(j), sends'[j] = sends[j], attempts'[j] \in {attempts[j], <<>>}
      PROVE  Goal
  BY <1>1 DEF Untouched
<1>2. ASSUME NEW e \in Events, StoreEvent(e) \/ EnqueueSkips(e) \/ DeleteEvent(e)
      PROVE  Goal
  <2>1. Fresh(j)
    BY <1>2 DEF StoreEvent, EnqueueSkips, DeleteEvent, Fresh
  <2>2. sends'[j] = sends[j] /\ attempts'[j] \in {attempts[j], <<>>}
    BY <1>2 DEF StoreEvent, EnqueueSkips, DeleteEvent, TypeOK
  <2>3. QED
    BY <1>1, <2>1, <2>2
<1>3. ASSUME NEW e \in Events, Enqueue(e) PROVE Goal
  <2>1. /\ queue' = Append(queue, e) /\ e \notin offered /\ task' = task
        /\ offered' = offered \cup {e} /\ queue \in Seq(Events)
    BY <1>3 DEF Enqueue, TypeOK
  <2>2. \A i \in 1..Len(queue') :
          \/ queue'[i] = e
          \/ i \in 1..Len(queue) /\ queue'[i] = queue[i]
    BY <2>1
  <2>3. Fresh(j)
    BY <2>1, <2>2 DEF Fresh
  <2>4. QED
    BY <1>1, <1>3, <2>3 DEF Enqueue
<1>4. ASSUME NEW w \in Workers, Take(w) PROVE Goal
  <2>1. /\ queue # <<>> /\ queue' = Tail(queue) /\ queue \in Seq(Events)
        /\ task' = [task EXCEPT
             ![w] = [Idle EXCEPT !.pc = "render", !.job = Head(queue)]]
        /\ UNCHANGED <<offered, sends, attempts>>
    BY <1>4 DEF Take, TypeOK
  <2>2. /\ \A i \in 1..Len(queue') : i + 1 \in 1..Len(queue) /\ queue'[i] = queue[i + 1]
        /\ 1 \in 1..Len(queue) /\ Head(queue) = queue[1]
    BY <2>1
  <2>3. w \in Tasks /\ w \notin Tests
    BY DispatchAssumption DEF Tasks
  <2>4. \A a \in Tasks \ {w} : task'[a] = task[a]
    BY <2>1 DEF TypeOK
  <2>5. task'[w].job = queue[1]
    BY <2>1, <2>2, <2>3, IdleType DEF TypeOK, Task
  <2>6. Fresh(j)
    BY <2>1, <2>2, <2>3, <2>4, <2>5 DEF Fresh, Tasks
  <2>7. QED
    BY <1>1, <2>1, <2>6
<1>5. ASSUME NEW w \in Workers, Exit(w) PROVE Goal
  <2>1. /\ UNCHANGED <<offered, queue, sends, attempts>>
        /\ \A a \in Tasks \ {w} : task'[a] = task[a]
        /\ w \in Tasks /\ w \notin Tests /\ task'[w].pc = "done"
    BY <1>5, IdleType, DispatchAssumption DEF Exit, TypeOK, Tasks
  <2>2. Fresh(j)
    BY <2>1 DEF Fresh, Tasks
  <2>3. QED
    BY <1>1, <2>1, <2>2
<1>6. ASSUME NEW t \in Tests, TestWebhook(t) PROVE Goal
  <2>1. /\ UNCHANGED <<offered, queue, sends, attempts>>
        /\ task' = [task EXCEPT ![t] = [Idle EXCEPT !.pc = "render", !.job = t]]
        /\ t \in Tasks /\ task[t].pc = "idle"
    BY <1>6 DEF TestWebhook, Tasks
  <2>2. /\ task'[t].job = t /\ task'[t].pc = "render"
        /\ \A a \in Tasks \ {t} : task'[a] = task[a]
    BY <2>1, IdleType DEF TypeOK, Task
  <2>3. Fresh(j)
    BY <2>1, <2>2 DEF Fresh, Tasks
  <2>4. QED
    BY <1>1, <2>1, <2>3
<1>7. ASSUME NEW a \in Tasks, Step(a) PROVE Goal
  <2>1. /\ UNCHANGED <<offered, queue>>
        /\ task[a].pc # "idle" /\ task[a].job \in Jobs /\ task[a].job # Nil
        /\ \A b \in Tasks \ {a} : task'[b] = task[b]
        /\ task'[a].pc # "render" /\ (a \in Tests => task'[a].pc # "idle")
    BY <1>7, StepFrame, IdleType, DispatchAssumption DEF Returned, Jobs
  <2>2. j # task[a].job
    <3>1. SUFFICES ASSUME j = task[a].job PROVE FALSE
      OBVIOUS
    <3>2. \A b \in Tasks \ {a} : task[b].job # j
      BY <2>1, <3>1, OneHolder
    <3>3. ~ \E b \in Tasks : task'[b].job = j /\ task'[b].pc = "render"
      BY <2>1, <3>2
    <3>4. ~ \E i \in 1..Len(queue') : queue'[i] = j
      BY <2>1, <3>1, NotQueued
    <3>5. j \in Events => j \in offered'
      BY <2>1, <3>1 DEF Owned
    <3>6. j \in Tests => j = a
      BY <3>1, <2>1, DispatchAssumption DEF Owned, Tasks
    <3>7. ~(j \in Tests /\ task'[j].pc = "idle")
      BY <2>1, <3>6
    <3>8. QED
      BY <3>3, <3>4, <3>5, <3>7 DEF Fresh
  <2>3. sends'[j] = sends[j] /\ attempts'[j] = attempts[j]
    BY <1>7, <2>2, StepFrame
  <2>4. Fresh(j)
    BY <2>1 DEF Fresh, Tasks
  <2>5. QED
    BY <1>1, <2>3, <2>4
<1>8. CASE Restart
  <2>1. /\ queue' = <<>> /\ offered' = stored /\ UNCHANGED <<sends, attempts>>
        /\ \A a \in Tasks : task'[a].pc # "render"
        /\ \A t \in Tests : task'[t].pc = "idle" => task[t].pc = "idle"
    <3>1. \A a \in Tasks : task'[a] = IF a \in Workers \/ task[a].pc = "idle"
                                     THEN Idle ELSE Done
      BY <1>8 DEF Restart
    <3>2. \A a \in Tasks : task'[a].pc # "render"
      BY <3>1, IdleType
    <3>3. ASSUME NEW t \in Tests, task'[t].pc = "idle" PROVE task[t].pc = "idle"
      <4>1. t \in Tasks /\ t \notin Workers
        BY DispatchAssumption DEF Tasks
      <4>2. QED
        BY <3>1, <3>3, <4>1, IdleType
    <3>4. QED
      BY <1>8, <3>2, <3>3 DEF Restart
  <2>2. Fresh(j)
    BY <2>1 DEF Fresh, Owned
  <2>3. QED
    BY <1>1, <2>1, <2>2
<1>9. CASE UNCHANGED <<offered, queue, task, sends, attempts>>
  BY <1>1, <1>9 DEF Fresh
<1>10. QED
  BY <1>2, <1>3, <1>4, <1>5, <1>6, <1>7, <1>8, <1>9
     DEF Next, vars, CancelTest, CancelWorkers


-------------------------------------------------------------------------------
(* What a goroutine in the loop knows of its job.                          *)

\* It goes on knowing it while others act.
LEMMA InLoopKept ==
    ASSUME NEW a \in Tasks, InLoop(a), task'[a] = task[a],
           sends'[task[a].job] = sends[task[a].job],
           attempts'[task[a].job] \in {attempts[task[a].job], <<>>},
           Live(a)' => Live(a)
    PROVE  InLoop(a)'
<1> DEFINE j == task[a].job
<1>1. Made(a)' = Made(a) /\ j' = j
  BY DEF Made
<1>2. \A i \in 1..Len(attempts'[j]) : i \in 1..Len(attempts[j]) /\ attempts'[j][i] = attempts[j][i]
  OBVIOUS
<1>3. Len(sends'[j]) = Len(sends[j]) /\ sends'[j] = sends[j]
  OBVIOUS
<1>4. QED
  BY <1>1, <1>2, <1>3 DEF InLoop

\* The goroutine that makes the step knows its job afterwards.
LEMMA InLoopStep ==
    ASSUME TypeOK, Owned, Untouched, Progress, NEW a \in Tasks, Step(a), Looping(a)'
    PROVE  InLoop(a)'
<1> DEFINE j == task[a].job
<1>1. /\ task[a] \in Task /\ task'[a].job = j /\ j \in Jobs
      /\ sends[j] \in Seq(Attempt) /\ attempts[j] \in Seq(Attempt)
  BY StepFrame, IdleType DEF Looping, Returned, TypeOK
<1>2. task[a].n \in Nat \ {0} /\ MaxAttempts \in Nat
  BY <1>1, DispatchAssumption DEF Task
<1>3. Live(a)' = Live(a)
  BY StepFrame DEF Live
<1>4. CASE Render(a)
  <2>1. /\ task[a].n = 1 /\ task'[a].n = 1 /\ task'[a].pc = "send"
        /\ sends' = sends /\ attempts' = attempts
    BY <1>1, <1>4 DEF Render, Progress, TypeOK, Task
  <2>2. sends[j] = <<>> /\ attempts[j] = <<>>
    BY <1>1, <1>4 DEF Render, Untouched, Fresh
  <2>3. Made(a)' = 0
    BY <2>1 DEF Made
  <2>4. QED
    BY <1>1, <2>1, <2>2, <2>3 DEF InLoop
<1>5. CASE RenderFails(a) \/ WakeCancelled(a)
  <2>1. task'[a] = Returned(a)
    BY <1>5 DEF RenderFails, WakeCancelled, TypeOK
  <2>2. QED
    BY <2>1, IdleType DEF Looping, Returned
<1>6. CASE Send(a)
  <2>1. InLoop(a) /\ task[a].pc = "send" /\ attempts' = attempts
    BY <1>6 DEF Send, Progress, Looping
  <2>2. PICK success \in BOOLEAN :
          /\ task' = [task EXCEPT ![a].pc = "record", ![a].success = success]
          /\ sends' = IF Live(a)
                      THEN [sends EXCEPT ![j] =
                             Append(@, [n |-> task[a].n, success |-> success])]
                      ELSE sends
    BY <1>6 DEF Send
  <2>3. task'[a].pc = "record" /\ task'[a].success = success /\ task'[a].n = task[a].n
    BY <1>1, <2>2 DEF TypeOK, Task
  <2>4. Made(a)' = task[a].n /\ Made(a) = task[a].n - 1
    BY <2>1, <2>3 DEF Made
  <2>5. \A i \in 1..Len(sends[j]) : ~ sends[j][i].success
    BY <2>1 DEF InLoop
  <2>6. \A i \in 1..Len(attempts[j]) :
          /\ attempts[j][i].n <= task[a].n /\ attempts[j][i].n # task[a].n
          /\ \E k \in 1..Len(sends[j]) : attempts[j][i] = sends[j][k]
    BY <2>1 DEF InLoop
  <2>7. CASE Live(a)
    <3> DEFINE made == [n |-> task[a].n, success |-> success]
    <3>1. sends'[j] = Append(sends[j], made)
      BY <1>1, <2>2, <2>7 DEF TypeOK
    <3>2. Len(sends[j]) = task[a].n - 1
      BY <2>1, <2>4, <2>7 DEF InLoop
    <3>3. made.success = success /\ made.n = task[a].n
      OBVIOUS
    <3> HIDE DEF made
    <3>4. /\ Len(sends'[j]) = task[a].n
          /\ sends'[j][task[a].n] = made
          /\ \A i \in 1..Len(sends[j]) :
                i \in 1..Len(sends'[j]) /\ sends'[j][i] = sends[j][i]
          /\ \A i \in 1..Len(sends'[j]) :
                i \in 1..Len(sends[j]) \/ sends'[j][i] = made
      BY <1>1, <1>2, <3>1, <3>2, SMTT(30)
    <3>5. \A i \in 1..Len(sends'[j]) : sends'[j][i].success => success
      BY <2>5, <3>3, <3>4
    <3>6. \A i \in 1..Len(attempts[j]) :
            /\ attempts[j][i].n <= task[a].n /\ attempts[j][i].n # task[a].n
            /\ \E k \in 1..Len(sends'[j]) : attempts[j][i] = sends'[j][k]
      BY <2>6, <3>4
    <3>7. sends'[j][task[a].n] = [n |-> task[a].n, success |-> success]
      BY <3>4 DEF made
    <3>8. Len(sends'[j]) <= Made(a)' /\ Len(sends'[j]) = Made(a)'
      BY <1>2, <2>4, <3>4
    <3>9. sends'[j][task'[a].n] = [n |-> task'[a].n, success |-> task'[a].success]
      BY <2>3, <3>7
    <3>10. \A i \in 1..Len(attempts'[j]) :
             /\ attempts'[j][i].n <= task'[a].n /\ attempts'[j][i].n # task'[a].n
             /\ \E k \in 1..Len(sends'[j]) : attempts'[j][i] = sends'[j][k]
      BY <2>1, <2>3, <3>6
    <3>11. \A i \in 1..Len(sends'[j]) :
             sends'[j][i].success => task'[a].pc = "record" /\ task'[a].success
      BY <2>3, <3>5
    <3>12. task'[a].job = j /\ task'[a].pc # "sleep"
      BY <1>1, <2>3
    <3> HIDE DEF j
    <3>13. QED
      BY <3>8, <3>9, <3>10, <3>11, <3>12 DEF InLoop
  <2>8. CASE ~Live(a)
    <3>1. sends' = sends /\ Len(sends[j]) \in Nat
      BY <1>1, <2>2, <2>8
    <3>2. Len(sends[j]) <= Made(a)'
      BY <1>2, <2>1, <2>4, <3>1 DEF InLoop
    <3>3. QED
      BY <1>1, <1>3, <2>1, <2>3, <2>5, <2>6, <2>8, <3>1, <3>2 DEF InLoop
  <2>9. QED
    BY <2>7, <2>8
<1>7. CASE Record(a)
  <2>1. InLoop(a) /\ task[a].pc = "record" /\ sends' = sends
    BY <1>7 DEF Record, Progress, Looping
  <2>2. task'[a] = AfterAttempt(a)
    BY <1>7 DEF Record, TypeOK
  <2>3. /\ task'[a].pc = "sleep" /\ task'[a].n = task[a].n /\ ~task[a].success
        /\ task[a].n # MaxAttempts
    BY <1>1, <2>2, IdleType DEF AfterAttempt, Returned, Looping, Task
  <2>4. task[a].n < MaxAttempts
    BY <1>1, <1>2, <2>3 DEF Task
  <2>5. Made(a)' = Made(a)
    BY <2>1, <2>3 DEF Made
  <2>6. \A i \in 1..Len(sends[j]) : ~ sends[j][i].success
    BY <2>1, <2>3 DEF InLoop
  <2>7. \A i \in 1..Len(attempts[j]) :
          /\ attempts[j][i].n <= task[a].n
          /\ \E k \in 1..Len(sends[j]) : attempts[j][i] = sends[j][k]
    BY <2>1 DEF InLoop
  <2>8. \A i \in 1..Len(attempts'[j]) :
          /\ attempts'[j][i].n <= task[a].n
          /\ \E k \in 1..Len(sends[j]) : attempts'[j][i] = sends[j][k]
    <3> DEFINE kept == [n |-> task[a].n, success |-> task[a].success]
    <3>1. CASE attempts' = attempts
      BY <2>7, <3>1
    <3>2. CASE Live(a) /\ attempts'[j] = Append(attempts[j], kept)
      <4>1. sends[j][task[a].n] = kept /\ task[a].n \in 1..Len(sends[j])
        BY <1>1, <1>2, <2>1, <3>2 DEF InLoop, Made
      <4>2. kept.n = task[a].n
        OBVIOUS
      <4> HIDE DEF kept
      <4>3. \A i \in 1..Len(attempts'[j]) :
              \/ i \in 1..Len(attempts[j]) /\ attempts'[j][i] = attempts[j][i]
              \/ attempts'[j][i] = kept
        BY <1>1, <3>2
      <4>4. kept.n <= task[a].n /\ \E k \in 1..Len(sends[j]) : kept = sends[j][k]
        BY <1>2, <4>1, <4>2
      <4>5. ASSUME NEW i \in 1..Len(attempts'[j])
            PROVE  /\ attempts'[j][i].n <= task[a].n
                   /\ \E k \in 1..Len(sends[j]) : attempts'[j][i] = sends[j][k]
        <5>1. CASE attempts'[j][i] = kept
          BY <4>4, <5>1
        <5>2. CASE i \in 1..Len(attempts[j]) /\ attempts'[j][i] = attempts[j][i]
          BY <2>7, <5>2
        <5>3. QED
          BY <4>3, <5>1, <5>2
      <4>6. QED
        BY <4>5
    <3>3. QED
      BY <1>1, <1>7, <3>1, <3>2 DEF Record, Recorded, Recordable, Kept, TypeOK
  <2>9. QED
    BY <1>1, <1>3, <2>1, <2>3, <2>4, <2>5, <2>6, <2>8 DEF InLoop
<1>8. CASE Wake(a)
  <2>1. /\ InLoop(a) /\ task[a].pc = "sleep" /\ sends' = sends /\ attempts' = attempts
        /\ task' = [task EXCEPT ![a].pc = "send", ![a].n = @ + 1]
    BY <1>8 DEF Wake, Progress, Looping
  <2>2. task'[a].pc = "send" /\ task'[a].n = task[a].n + 1
    BY <1>1, <2>1 DEF TypeOK, Task
  <2>3. Made(a)' = Made(a)
    BY <1>2, <2>1, <2>2 DEF Made
  <2>4. \A i \in 1..Len(attempts[j]) : attempts[j][i].n \in Nat
    <3>1. \A i \in 1..Len(attempts[j]) : attempts[j][i] \in Attempt
      BY <1>1
    <3>2. QED
      BY <1>2, <3>1 DEF Attempt
  <2>5. \A i \in 1..Len(attempts[j]) :
          attempts[j][i].n <= task'[a].n /\ attempts[j][i].n # task'[a].n
    <3>1. \A i \in 1..Len(attempts[j]) : attempts[j][i].n <= task[a].n
      BY <2>1 DEF InLoop
    <3>2. QED
      BY <1>2, <2>2, <2>4, <3>1
  <2>6. /\ Len(sends[j]) <= Made(a)
        /\ Live(a) => Len(sends[j]) = Made(a)
        /\ \A i \in 1..Len(sends[j]) : ~ sends[j][i].success
        /\ \A i \in 1..Len(attempts[j]) :
             \E k \in 1..Len(sends[j]) : attempts[j][i] = sends[j][k]
    BY <2>1 DEF InLoop
  <2>7. sends' = sends /\ attempts' = attempts /\ task'[a].job = task[a].job
    BY <1>1, <2>1
  <2>8. \A i \in 1..Len(attempts[j]) :
          /\ attempts[j][i].n <= task'[a].n
          /\ attempts[j][i].n = task'[a].n => task'[a].pc = "sleep"
          /\ \E k \in 1..Len(sends[j]) : attempts[j][i] = sends[j][k]
    BY <2>5, <2>6
  <2>9. QED
    BY <1>3, <2>2, <2>3, <2>6, <2>7, <2>8 DEF InLoop
<1>9. QED
  BY <1>4, <1>5, <1>6, <1>7, <1>8 DEF Step

\* A context that is done stays done, unless the process ends.
LEMMA LiveStep ==
    ASSUME [Next]_vars, ~Restart, NEW a \in Tasks, Live(a)'
    PROVE  Live(a)
<1>1. cancelled \subseteq cancelled'
  BY DEF Next, vars, Step, StoreEvent, Enqueue, EnqueueSkips, DeleteEvent, Take, Exit,
         TestWebhook, CancelTest, Render, RenderFails, Send, Record, Wake,
         WakeCancelled, CancelWorkers
<1>2. QED
  BY <1>1 DEF Live

\* Every goroutine goes on knowing its job.
LEMMA ProgressStep ==
    ASSUME TypeOK, Owned, Untouched, Progress, [Next]_vars
    PROVE  Progress'
<1> SUFFICES ASSUME NEW b \in Tasks
             PROVE  /\ Looping(b)' => InLoop(b)'
                    /\ task'[b].pc = "render" => task'[b].n = 1
  BY DEF Progress
<1> DEFINE Goal == /\ Looping(b)' => InLoop(b)'
                   /\ task'[b].pc = "render" => task'[b].n = 1
<1>1. CASE Restart
  <2>1. task'[b] = Idle \/ task'[b] = Done
    BY <1>1 DEF Restart
  <2>2. QED
    BY <2>1, IdleType DEF Looping
<1>2. ASSUME ~Restart, task'[b] = task[b],
             task[b].job \in Jobs =>
               /\ sends'[task[b].job] = sends[task[b].job]
               /\ attempts'[task[b].job] \in {attempts[task[b].job], <<>>}
      PROVE  Goal
  <2>1. task'[b].pc = "render" => task'[b].n = 1
    BY <1>2 DEF Progress
  <2>2. ASSUME Looping(b)' PROVE InLoop(b)'
    <3>1. Looping(b) /\ InLoop(b)
      BY <1>2, <2>2 DEF Looping, Progress
    <3>2. task[b].job \in Jobs
      BY <3>1 DEF Looping, Owned, TypeOK, Task
    <3>3. Live(b)' => Live(b)
      BY <1>2, LiveStep
    <3>4. QED
      BY <1>2, <3>1, <3>2, <3>3, InLoopKept
  <2>3. QED
    BY <2>1, <2>2
<1>3. ASSUME NEW e \in Events, ~Restart,
             StoreEvent(e) \/ Enqueue(e) \/ EnqueueSkips(e) \/ DeleteEvent(e)
      PROVE  Goal
  <2>1. /\ task' = task /\ sends' = sends
        /\ \A j \in Jobs : attempts'[j] \in {attempts[j], <<>>}
    BY <1>3 DEF StoreEvent, Enqueue, EnqueueSkips, DeleteEvent, TypeOK
  <2>2. QED
    BY <1>2, <1>3, <2>1
<1>4. ASSUME NEW w \in Workers, ~Restart, Take(w) \/ Exit(w) PROVE Goal
  <2>1. sends' = sends /\ attempts' = attempts /\ w \in Tasks
    BY <1>4 DEF Take, Exit, Tasks
  <2>2. CASE b = w
    <3>1. \/ task'[w] = [Idle EXCEPT !.pc = "render", !.job = Head(queue)]
          \/ task'[w] = Done
      BY <1>4, <2>1 DEF Take, Exit, TypeOK
    <3>2. Idle.n = 1
      BY DEF Idle
    <3>3. task'[b].pc \in {"render", "done"} /\ (task'[b].pc = "render" => task'[b].n = 1)
      BY <2>2, <3>1, <3>2, IdleType DEF Idle, Done
    <3>4. QED
      BY <3>3 DEF Looping
  <2>3. CASE b # w
    <3>1. task'[b] = task[b]
      BY <1>4, <2>3 DEF Take, Exit, TypeOK
    <3>2. QED
      BY <1>2, <1>4, <2>1, <3>1
  <2>4. QED
    BY <2>2, <2>3
<1>5. ASSUME NEW t \in Tests, ~Restart, TestWebhook(t) PROVE Goal
  <2>1. sends' = sends /\ attempts' = attempts /\ t \in Tasks
    BY <1>5 DEF TestWebhook, Tasks
  <2>2. CASE b = t
    <3>1. task'[t] = [Idle EXCEPT !.pc = "render", !.job = t]
      BY <1>5, <2>1 DEF TestWebhook, TypeOK
    <3>2. task'[b].pc = "render" /\ task'[b].n = 1
      BY <2>2, <3>1 DEF Idle
    <3>3. QED
      BY <3>2 DEF Looping
  <2>3. CASE b # t
    <3>1. task'[b] = task[b]
      BY <1>5, <2>3 DEF TestWebhook, TypeOK
    <3>2. QED
      BY <1>2, <1>5, <2>1, <3>1
  <2>4. QED
    BY <2>2, <2>3
<1>6. ASSUME NEW a \in Tasks, ~Restart, Step(a) PROVE Goal
  <2>1. CASE b = a
    <3>1. task'[a].pc # "render"
      BY <1>6, StepFrame, IdleType DEF Returned
    <3>2. QED
      BY <1>6, <2>1, <3>1, InLoopStep
  <2>2. CASE b # a
    <3>1. task'[b] = task[b] /\ task[a].job \in Jobs
      BY <1>6, <2>2, StepFrame
    <3>2. task[b].job \in Jobs => task[b].job # task[a].job
      BY <2>2, <3>1, OneHolder, DispatchAssumption DEF Jobs
    <3>3. QED
      BY <1>2, <1>6, <3>1, <3>2, StepFrame
  <2>3. QED
    BY <2>1, <2>2
<1>7. ASSUME ~Restart, UNCHANGED <<task, sends, attempts>> PROVE Goal
  BY <1>2, <1>7
<1>8. QED
  BY <1>1, <1>3, <1>4, <1>5, <1>6, <1>7 DEF Next, vars, CancelTest, CancelWorkers

-------------------------------------------------------------------------------
(* Requests in order, and records that are requests.                       *)

\* Only a request changes the history of requests, by one at its end.
LEMMA SendsStep ==
    ASSUME TypeOK, Owned, [Next]_vars, NEW j \in Jobs
    PROVE  \/ sends'[j] = sends[j]
           \/ \E a \in Tasks, success \in BOOLEAN :
                /\ Send(a) /\ Live(a) /\ task[a].job = j
                /\ sends'[j] = Append(sends[j], [n |-> task[a].n, success |-> success])
<1>1. ASSUME NEW a \in Tasks, Send(a)
      PROVE  \/ sends'[j] = sends[j]
             \/ \E success \in BOOLEAN :
                  /\ Live(a) /\ task[a].job = j
                  /\ sends'[j] = Append(sends[j], [n |-> task[a].n, success |-> success])
  BY <1>1 DEF Send, TypeOK
<1>2. CASE UNCHANGED sends
  BY <1>2
<1>3. QED
  BY <1>1, <1>2
     DEF Next, vars, Step, StoreEvent, Enqueue, EnqueueSkips, DeleteEvent, Take, Exit,
         TestWebhook, CancelTest, Render, RenderFails, Record, Wake, WakeCancelled,
         CancelWorkers, Restart

\* A request has the next number, and none succeeded before it.
LEMMA RequestsStep ==
    ASSUME TypeOK, Owned, Progress, RequestsInOrder, [Next]_vars
    PROVE  RequestsInOrder'
<1> SUFFICES ASSUME NEW j \in Jobs, NEW i \in 1..Len(sends'[j])
             PROVE  /\ sends'[j][i].n = i
                    /\ sends'[j][i].success => i = Len(sends'[j])
  BY DEF RequestsInOrder
<1>1. CASE sends'[j] = sends[j]
  BY <1>1 DEF RequestsInOrder
<1>2. ASSUME NEW a \in Tasks, NEW success \in BOOLEAN,
             Send(a), Live(a), task[a].job = j,
             sends'[j] = Append(sends[j], [n |-> task[a].n, success |-> success])
      PROVE  /\ sends'[j][i].n = i
             /\ sends'[j][i].success => i = Len(sends'[j])
  <2>1. sends[j] \in Seq(Attempt) /\ task[a].n \in Nat
    BY <1>2, DispatchAssumption DEF TypeOK, Task
  <2>2. task[a].pc = "send" /\ InLoop(a)
    BY <1>2 DEF Send, Progress, Looping
  <2>3. Len(sends[j]) = task[a].n - 1
    BY <1>2, <2>2 DEF InLoop, Made
  <2>4. \A k \in 1..Len(sends[j]) : sends[j][k].n = k /\ ~sends[j][k].success
    BY <1>2, <2>2 DEF InLoop, RequestsInOrder
  <2>5. /\ Len(sends'[j]) = task[a].n
        /\ \/ i \in 1..Len(sends[j]) /\ sends'[j][i] = sends[j][i]
           \/ i = task[a].n /\ sends'[j][i] = [n |-> task[a].n, success |-> success]
    BY <1>2, <2>1, <2>3
  <2>6. QED
    BY <2>4, <2>5
<1>3. QED
  BY <1>1, <1>2, SendsStep

\* What is recorded of a job: results of its requests in order, or the one
\* failure of its template.
Truthful(made, kept) ==
    /\ \A i \in 1..Len(kept) :
         \/ \E k \in 1..Len(made) : kept[i] = made[k]
         \/ made = <<>> /\ kept = <<[n |-> 1, success |-> FALSE]>>
    /\ \A i, k \in 1..Len(kept) : i < k => kept[i].n < kept[k].n

\* A record tells the truth, and requests that follow do not change that.
LEMMA RecordsStep ==
    ASSUME TypeOK, Owned, Untouched, Progress, RecordsAreRequests, [Next]_vars
    PROVE  RecordsAreRequests'
<1> SUFFICES ASSUME NEW j \in Jobs PROVE Truthful(sends'[j], attempts'[j])
  BY DEF RecordsAreRequests, Truthful
<1>1. Truthful(sends[j], attempts[j])
  BY DEF RecordsAreRequests, Truthful
<1>2. ASSUME NEW a \in Tasks, Send(a), task[a].job = j
      PROVE  Truthful(sends'[j], attempts'[j])
  <2>1. task[a].pc = "send" /\ InLoop(a) /\ attempts' = attempts
    BY <1>2 DEF Send, Progress, Looping
  <2>2. \A i \in 1..Len(attempts[j]) : \E k \in 1..Len(sends[j]) : attempts[j][i] = sends[j][k]
    BY <1>2, <2>1 DEF InLoop
  <2>3. \A k \in 1..Len(sends[j]) : k \in 1..Len(sends'[j]) /\ sends'[j][k] = sends[j][k]
    <3>1. \/ sends'[j] = sends[j]
          \/ \E e : sends'[j] = Append(sends[j], e)
      BY SendsStep
    <3>2. sends[j] \in Seq(Attempt)
      BY DEF TypeOK
    <3>3. ASSUME NEW e, sends'[j] = Append(sends[j], e), NEW k \in 1..Len(sends[j])
          PROVE  k \in 1..Len(sends'[j]) /\ sends'[j][k] = sends[j][k]
      BY <3>2, <3>3
    <3>4. QED
      BY <3>1, <3>3
  <2>4. QED
    BY <1>1, <2>1, <2>2, <2>3 DEF Truthful
<1>3. ASSUME NEW a \in Tasks, RenderFails(a), task[a].job = j
      PROVE  Truthful(sends'[j], attempts'[j])
  <2>1. sends[j] = <<>> /\ attempts[j] = <<>> /\ sends' = sends
    BY <1>3 DEF RenderFails, Untouched, Fresh
  <2>2. \/ attempts'[j] = <<>>
        \/ attempts'[j] = Append(<<>>, [n |-> 1, success |-> FALSE])
    BY <1>3, <2>1 DEF RenderFails, Recorded, Kept, TypeOK
  <2>3. \/ attempts'[j] = <<>>
        \/ attempts'[j] = <<[n |-> 1, success |-> FALSE]>>
    BY <2>2
  <2>4. QED
    BY <2>1, <2>3 DEF Truthful
<1>4. ASSUME NEW a \in Tasks, Record(a), task[a].job = j
      PROVE  Truthful(sends'[j], attempts'[j])
  <2> DEFINE kept == [n |-> task[a].n, success |-> task[a].success]
  <2>1. InLoop(a) /\ task[a].pc = "record" /\ sends' = sends
    BY <1>4 DEF Record, Progress, Looping
  <2>2. \A i \in 1..Len(attempts[j]) :
          /\ attempts[j][i].n < task[a].n
          /\ \E k \in 1..Len(sends[j]) : attempts[j][i] = sends[j][k]
    <3>1. \A i \in 1..Len(attempts[j]) : attempts[j][i] \in Attempt
      BY DEF TypeOK
    <3>2. \A i \in 1..Len(attempts[j]) : attempts[j][i].n \in Nat
      BY <3>1, DispatchAssumption DEF Attempt
    <3>3. task[a].n \in Nat
      BY DispatchAssumption DEF TypeOK, Task
    <3>4. QED
      BY <1>4, <2>1, <3>2, <3>3 DEF InLoop
  <2>3. attempts'[j] = attempts[j] \/ (Live(a) /\ attempts'[j] = Append(attempts[j], kept))
    BY <1>4 DEF Record, Recorded, Recordable, Kept, TypeOK
  <2>4. CASE Live(a) /\ attempts'[j] = Append(attempts[j], kept)
    <3>1. attempts[j] \in Seq(Attempt) /\ task[a].n \in Nat \ {0}
      BY DispatchAssumption DEF TypeOK, Task
    <3>2. sends[j][task[a].n] = kept /\ task[a].n \in 1..Len(sends[j])
      BY <1>4, <2>1, <2>4, <3>1 DEF InLoop, Made
    <3>3. kept.n = task[a].n
      OBVIOUS
    <3> HIDE DEF kept
    <3>4. /\ Len(attempts'[j]) = Len(attempts[j]) + 1 /\ Len(attempts[j]) \in Nat
          /\ \A i \in 1..Len(attempts'[j]) :
               \/ i \in 1..Len(attempts[j]) /\ attempts'[j][i] = attempts[j][i]
               \/ i = Len(attempts[j]) + 1 /\ attempts'[j][i] = kept
      BY <2>4, <3>1
    <3>5. \A i \in 1..Len(attempts'[j]) : \E k \in 1..Len(sends[j]) : attempts'[j][i] = sends[j][k]
      BY <2>2, <3>2, <3>4
    <3>6. \A i, k \in 1..Len(attempts[j]) : i < k => attempts[j][i].n < attempts[j][k].n
      BY <1>1 DEF Truthful
    <3>7. \A i, k \in 1..Len(attempts'[j]) : i < k => attempts'[j][i].n < attempts'[j][k].n
      <4>1. SUFFICES ASSUME NEW i \in 1..Len(attempts'[j]),
                            NEW k \in 1..Len(attempts'[j]), i < k
                     PROVE  attempts'[j][i].n < attempts'[j][k].n
        OBVIOUS
      <4>2. i \in 1..Len(attempts[j]) /\ attempts'[j][i] = attempts[j][i]
        BY <3>4, <4>1
      <4>3. CASE k \in 1..Len(attempts[j]) /\ attempts'[j][k] = attempts[j][k]
        BY <3>6, <4>1, <4>2, <4>3
      <4>4. CASE attempts'[j][k] = kept
        BY <2>2, <3>3, <4>2, <4>4
      <4>5. QED
        BY <3>4, <4>1, <4>3, <4>4
    <3>8. QED
      BY <2>1, <3>5, <3>7 DEF Truthful
  <2>5. QED
    BY <1>1, <2>1, <2>3, <2>4
<1>5. ASSUME sends'[j] = sends[j], attempts'[j] \in {attempts[j], <<>>}
      PROVE  Truthful(sends'[j], attempts'[j])
  <2>1. CASE attempts'[j] = attempts[j]
    BY <1>1, <1>5, <2>1
  <2>2. CASE attempts'[j] = <<>>
    <3>1. 1..Len(attempts'[j]) = {}
      BY <2>2
    <3>2. QED
      BY <3>1 DEF Truthful
  <2>3. QED
    BY <1>5, <2>1, <2>2
<1>6. ASSUME NEW a \in Tasks, Step(a) PROVE Truthful(sends'[j], attempts'[j])
  <2>1. CASE task[a].job # j
    BY <1>5, <1>6, <2>1, StepFrame
  <2>2. CASE Render(a) \/ Wake(a) \/ WakeCancelled(a)
    BY <1>5, <2>2 DEF Render, Wake, WakeCancelled
  <2>3. QED
    BY <1>2, <1>3, <1>4, <1>6, <2>1, <2>2 DEF Step
<1>7. ASSUME NEW e \in Events, DeleteEvent(e) PROVE Truthful(sends'[j], attempts'[j])
  BY <1>5, <1>7 DEF DeleteEvent, TypeOK
<1>8. CASE UNCHANGED <<sends, attempts>>
  BY <1>5, <1>8
<1>9. QED
  BY <1>6, <1>7, <1>8
     DEF Next, vars, StoreEvent, Enqueue, EnqueueSkips, Take, Exit, TestWebhook,
         CancelTest, CancelWorkers, Restart

-------------------------------------------------------------------------------
(* Theorems.                                                               *)

\* The invariant holds in the beginning.
LEMMA InvInit == Init => IInv
<1> SUFFICES ASSUME Init PROVE IInv
  OBVIOUS
<1>1. TypeOK
  BY TypeInit
<1>2. \A a \in Tasks : task[a].job = Nil /\ task[a].pc = "idle"
  BY IdleType DEF Init
<1>3. queue = <<>> /\ Len(queue) = 0 /\ offered = {} /\ stored = {}
  BY DEF Init
<1>4. Owned
  BY <1>2, <1>3, DispatchAssumption DEF Owned, Tasks
<1>5. \A j \in Jobs : sends[j] = <<>> /\ attempts[j] = <<>>
  BY DEF Init
<1>6. Untouched /\ Progress /\ RequestsInOrder /\ RecordsAreRequests
  BY <1>2, <1>5 DEF Untouched, Progress, Looping, RequestsInOrder, RecordsAreRequests
<1>7. QED
  BY <1>1, <1>4, <1>6 DEF IInv

\* Every step keeps the invariant.
LEMMA InvStep == IInv /\ [Next]_vars => IInv'
<1> SUFFICES ASSUME IInv, [Next]_vars PROVE IInv'
  OBVIOUS
<1>1. TypeOK'
  BY TypeStep DEF IInv
<1>2. QED
  BY <1>1, OwnedStep, UntouchedStep, ProgressStep, RequestsStep, RecordsStep DEF IInv

\* The inductive invariant holds.
THEOREM Invariant == Spec => []IInv
  BY InvInit, InvStep, PTL DEF Spec

\* The variables keep their types and the queue its bound, whatever the sizes.
THEOREM TypeCorrect == Spec => []TypeOK
  BY Invariant, PTL DEF IInv

\* A job's requests are numbered without a gap, and none follows a success.
THEOREM RequestsInOrderHolds == Spec => []RequestsInOrder
  BY Invariant, PTL DEF IInv

\* What is recorded is what was requested, once and in order.
THEOREM RecordsAreRequestsHolds == Spec => []RecordsAreRequests
  BY Invariant, PTL DEF IInv
===============================================================================
