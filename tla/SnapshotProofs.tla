---------------------------- MODULE SnapshotProofs ----------------------------
(***************************************************************************)
(* WebSnapshots for any number of servers and of requests in flight.       *)
(***************************************************************************)
EXTENDS WebSnapshots, TLAPS

Active(r) == requests[r].phase # "idle"

\* No event and no answer is ahead of the backend, and no answer that the page
\* will take from the request is behind an event dispatched before.
Ordered ==
    /\ \A s \in Servers : heard[s] # Nil => heard[s] <= version[s]
    /\ \A i \in 1 .. Len(queue) : queue[i].version <= version[queue[i].server]
    /\ \A r \in Requests, s \in Servers :
         /\ requests[r].answer[s] # Nil /\ heard[s] # Nil
         /\ s \notin requests[r].newer
         => requests[r].answer[s] >= heard[s]

\* What the latest request must keep is there to be kept.
NewerShown ==
    latest \in Requests => \A s \in requests[latest].newer : shown[s] # Nil

\* Who wrote the text of the error.
Explained ==
    /\ error = "connection" => connectionFailed
    /\ mounted /\ loadStatus = "error" =>
         error # Nil \/ (latest \in Requests /\ Active(latest))

IInv == TypeOK /\ Ordered /\ NeverBehindEvents /\ NewerShown /\ Explained

USE NilAssumption DEF server, connection, page, live, history

LEMMA QueuedEvents ==
    ASSUME TypeOK, NEW i \in 1 .. Len(queue)
    PROVE  /\ queue[i] \in Events
           /\ queue[i].server \in Servers /\ queue[i].version \in Nat
<1>1. queue \in Seq(Events)
  BY DEF TypeOK
<1>2. queue[i] \in Events
  BY <1>1
<1> QED
  BY <1>2 DEF Events

LEMMA FreshRequests ==
    /\ NoRequest \in RequestStates /\ NewRequest \in RequestStates
    /\ \A s \in Servers : NoRequest.answer[s] = Nil /\ NewRequest.answer[s] = Nil
    /\ NoRequest.newer = {} /\ NewRequest.newer = {}
    /\ NoRequest.phase = "idle" /\ NewRequest.phase = "sent"
  BY DEF NoRequest, NewRequest, RequestStates, Statuses

LEMMA InitIInv ==
    ASSUME Init PROVE IInv
<1>1. requests \in [Requests -> RequestStates]
  BY FreshRequests DEF Init
<1>2. queue = <<>> /\ queue \in Seq(Events) /\ Len(queue) = 0
  BY DEF Init
<1>3. TypeOK
  BY <1>1, <1>2 DEF Init, TypeOK, Statuses
<1>4. Ordered /\ NeverBehindEvents /\ NewerShown /\ Explained
  BY <1>2 DEF Init, Ordered, NeverBehindEvents, NewerShown, Explained
<1> QED
  BY <1>3, <1>4 DEF IInv

\* Versions only grow.
LEMMA Grows ==
    ASSUME TypeOK, NEW S \in SUBSET Servers, NewStatus(S)
    PROVE  /\ version' \in [Servers -> Nat]
           /\ \A s \in Servers : version'[s] >= version[s]
  BY DEF TypeOK, NewStatus

\* A change of the backend that publishes nothing.
LEMMA SilentKeeps ==
    ASSUME IInv, NEW S \in SUBSET Servers, NewStatus(S),
           registered' \subseteq Servers,
           stream' \in {"closed", "connecting", "subscribed", "open", "lost"},
           UNCHANGED <<queue, requests, latest, page, live, history>>
    PROVE  IInv'
<1>1. TypeOK /\ version' \in [Servers -> Nat]
      /\ \A s \in Servers : version'[s] >= version[s]
  BY Grows DEF IInv
<1>2. TypeOK'
  BY <1>1 DEF TypeOK
<1>3. Ordered'
  <2>1. \A i \in 1 .. Len(queue) :
          queue[i].server \in Servers /\ queue[i].version \in Nat
    BY <1>1, QueuedEvents
  <2>2. \A s \in Servers : heard[s] \in Nat \cup {Nil} /\ version[s] \in Nat
    BY <1>1 DEF TypeOK, Statuses
  <2>3. \A s \in Servers : version'[s] \in Nat
    BY <1>1
  <2> QED
    BY <1>1, <2>1, <2>2, <2>3 DEF IInv, Ordered
<1>4. NeverBehindEvents' /\ NewerShown' /\ Explained'
  BY DEF IInv, NeverBehindEvents, NewerShown, Explained, Active
<1> QED
  BY <1>2, <1>3, <1>4 DEF IInv

LEMMA PublishKeeps ==
    ASSUME IInv, NEW s \in Servers, Publish(s) PROVE IInv'
<1> DEFINE event == [server |-> s, version |-> version[s] + 1]
<1>1. /\ TypeOK /\ version' \in [Servers -> Nat]
      /\ \A t \in Servers : version'[t] >= version[t]
      /\ version'[s] = version[s] + 1
  BY Grows DEF IInv, Publish, NewStatus, TypeOK
<1>2. queue' = queue \/ queue' = Append(queue, event)
  BY DEF Publish
<1>3. event \in Events /\ queue \in Seq(Events)
  BY <1>1 DEF TypeOK, Events
<1>4. TypeOK'
  <2>1. queue' \in Seq(Events)
    <3> HIDE DEF event
    <3> QED
      BY <1>2, <1>3
  <2> QED
    BY <1>1, <2>1 DEF TypeOK, Publish
<1>5. \A i \in 1 .. Len(queue)' : queue'[i].version <= version'[queue'[i].server]
  <2>1. \A i \in 1 .. Len(queue) :
          queue[i].server \in Servers /\ queue[i].version \in Nat
    BY <1>1, QueuedEvents
  <2>2. \A i \in 1 .. Len(queue) : queue[i].version <= version'[queue[i].server]
    BY <1>1, <2>1 DEF IInv, Ordered, TypeOK
  <2>3. CASE queue' = queue
    BY <2>2, <2>3
  <2>4. CASE queue' = Append(queue, event)
    BY <1>1, <1>3, <2>2, <2>4 DEF TypeOK
  <2> QED
    BY <1>2, <2>3, <2>4
<1>6. Ordered'
  <2>1. \A t \in Servers : /\ heard[t] \in Nat \cup {Nil}
                          /\ version[t] \in Nat /\ version'[t] \in Nat
    BY <1>1 DEF TypeOK, Statuses
  <2>2. UNCHANGED <<heard, requests>>
    BY DEF Publish
  <2> QED
    BY <1>1, <1>5, <2>1, <2>2 DEF IInv, Ordered
<1>7. NeverBehindEvents' /\ NewerShown' /\ Explained'
  BY DEF IInv, NeverBehindEvents, NewerShown, Explained, Active, Publish
<1> QED
  BY <1>4, <1>6, <1>7 DEF IInv

\* What the invariant says of the requests.
RequestsOK ==
    /\ requests \in [Requests -> RequestStates]
    /\ \A r \in Requests, s \in Servers :
         /\ requests[r].answer[s] # Nil /\ heard[s] # Nil
         /\ s \notin requests[r].newer
         => requests[r].answer[s] >= heard[s]

\* A step of the backend's answers.
LEMMA RequestsKeep ==
    ASSUME IInv, RequestsOK', UNCHANGED <<server, connection, latest, page, live, history>>,
           \A q \in Requests : /\ requests'[q].newer = requests[q].newer
                              /\ (requests'[q].phase = "idle" <=>
                                    requests[q].phase = "idle")
    PROVE  IInv'
<1>1. TypeOK'
  BY DEF IInv, TypeOK, RequestsOK
<1>2. Ordered'
  BY DEF IInv, Ordered, RequestsOK
<1>3. NeverBehindEvents' /\ NewerShown'
  BY DEF IInv, NeverBehindEvents, NewerShown
<1>4. Explained'
  <2>1. latest' = latest /\ UNCHANGED <<mounted, loadStatus, error, connectionFailed>>
    OBVIOUS
  <2>2. latest \in Requests =>
          (requests'[latest].phase = "idle" <=> requests[latest].phase = "idle")
    OBVIOUS
  <2> QED
    BY <2>1, <2>2 DEF IInv, Explained, Active
<1> QED
  BY <1>1, <1>2, <1>3, <1>4 DEF IInv

LEMMA ListRowsKeeps ==
    ASSUME IInv, NEW r \in Requests, ListRows(r) PROVE IInv'
<1>1. /\ requests \in [Requests -> RequestStates] /\ registered \subseteq Servers
      /\ requests' = [requests EXCEPT ![r].phase = "listed",
                                      ![r].listed = registered]
      /\ requests[r].phase = "sent"
  BY DEF IInv, TypeOK, ListRows
<1>2. requests' \in [Requests -> RequestStates]
  BY <1>1 DEF RequestStates
<1>3. \A q \in Requests : /\ requests'[q].newer = requests[q].newer
                          /\ requests'[q].answer = requests[q].answer
                          /\ (requests'[q].phase = "idle" <=>
                                requests[q].phase = "idle")
  BY <1>1 DEF RequestStates
<1>4. RequestsOK'
  BY <1>2, <1>3 DEF IInv, Ordered, RequestsOK, ListRows
<1> QED
  BY <1>3, <1>4, RequestsKeep DEF ListRows

LEMMA ReadSnapshotKeeps ==
    ASSUME IInv, NEW r \in Requests, NEW s \in Servers, ReadSnapshot(r, s)
    PROVE  IInv'
<1>1. /\ requests \in [Requests -> RequestStates] /\ version[s] \in Nat
      /\ requests' = [requests EXCEPT ![r].answer[s] = version[s]]
      /\ heard[s] \in Nat \cup {Nil}
  BY DEF IInv, TypeOK, ReadSnapshot, Statuses
<1>2. requests[r] \in RequestStates
  BY <1>1
<1>3. requests' = [requests EXCEPT ![r] =
                     [requests[r] EXCEPT !.answer =
                        [requests[r].answer EXCEPT ![s] = version[s]]]]
  BY <1>1, <1>2 DEF RequestStates
<1>4. requests' \in [Requests -> RequestStates]
  <2>1. [requests[r].answer EXCEPT ![s] = version[s]] \in Statuses
    BY <1>1, <1>2 DEF RequestStates, Statuses
  <2>2. [requests[r] EXCEPT !.answer =
           [requests[r].answer EXCEPT ![s] = version[s]]] \in RequestStates
    BY <1>2, <2>1 DEF RequestStates
  <2> QED
    BY <1>1, <1>3, <2>2
<1>5. \A q \in Requests : /\ requests'[q].newer = requests[q].newer
                          /\ (requests'[q].phase = "idle" <=>
                                requests[q].phase = "idle")
  BY <1>1, <1>2, <1>3 DEF RequestStates
<1>6. \A q \in Requests, t \in Servers :
        \/ requests'[q].answer[t] = requests[q].answer[t]
        \/ t = s /\ requests'[q].answer[t] = version[s]
  BY <1>1, <1>2, <1>3 DEF RequestStates, Statuses
<1>7. heard[s] # Nil => version[s] >= heard[s]
  BY <1>1 DEF IInv, Ordered
<1>8. RequestsOK'
  <2>1. UNCHANGED heard
    BY DEF ReadSnapshot
  <2> QED
    BY <1>4, <1>5, <1>6, <1>7, <2>1 DEF IInv, Ordered, RequestsOK
<1> QED
  BY <1>5, <1>8, RequestsKeep DEF ReadSnapshot

\* A request that ends.
LEMMA EndedRequest ==
    ASSUME IInv, NEW r \in Requests, requests' = [requests EXCEPT ![r] = NoRequest],
           UNCHANGED <<server, connection, latest, mounted, live, history>>
    PROVE  /\ requests' \in [Requests -> RequestStates]
           /\ \A q \in Requests : q # r => requests'[q] = requests[q]
           /\ requests'[r].newer = {} /\ requests'[r].phase = "idle"
           /\ Ordered'
<1>1. /\ requests \in [Requests -> RequestStates]
      /\ requests' \in [Requests -> RequestStates]
      /\ \A q \in Requests : q # r => requests'[q] = requests[q]
      /\ requests'[r] = NoRequest
  BY FreshRequests DEF IInv, TypeOK
<1>2. \A q \in Requests, s \in Servers :
        (/\ requests'[q].answer[s] # Nil /\ heard'[s] # Nil
         /\ s \notin requests'[q].newer)
        => requests'[q].answer[s] >= heard'[s]
  <2>1. SUFFICES ASSUME NEW q \in Requests, NEW s \in Servers,
                        requests'[q].answer[s] # Nil, heard[s] # Nil,
                        s \notin requests'[q].newer
                 PROVE  requests'[q].answer[s] >= heard[s]
    OBVIOUS
  <2>2. q # r
    BY <1>1, <2>1, FreshRequests
  <2> QED
    BY <1>1, <2>1, <2>2 DEF IInv, Ordered
<1>3. Ordered'
  <2>1. UNCHANGED <<heard, version, queue>>
    OBVIOUS
  <2> QED
    BY <1>2, <2>1 DEF IInv, Ordered
<1> QED
  BY <1>1, <1>3, FreshRequests

LEMMA ArriveKeeps ==
    ASSUME IInv, NEW r \in Requests, Arrive(r) PROVE IInv'
<1>1. /\ UNCHANGED <<server, connection, latest, mounted, live, history>>
      /\ requests' = [requests EXCEPT ![r] = NoRequest]
  BY DEF Arrive
<1>2. /\ requests' \in [Requests -> RequestStates]
      /\ \A q \in Requests : q # r => requests'[q] = requests[q]
      /\ requests'[r].newer = {} /\ requests'[r].phase = "idle"
      /\ Ordered'
  BY <1>1, EndedRequest
<1>3. /\ shown \in Statuses /\ heard \in Statuses
      /\ requests[r].answer \in Statuses /\ requests[r].newer \in SUBSET Servers
  BY DEF IInv, TypeOK, RequestStates
<1>4. CASE Current(r) /\ loadStatus' = "success"
  <2>1. /\ shown' = reconcileFetch(requests[r].answer, requests[r].newer)
        /\ loadStatus' = "success" /\ requestError' = FALSE
        /\ error' = IF error = "connection" THEN error ELSE Nil
    BY <1>4 DEF Arrive
  <2>2. shown' \in Statuses
    BY <1>3, <2>1 DEF reconcileFetch, Statuses
  <2>3. TypeOK'
    BY <1>1, <1>2, <2>1, <2>2 DEF IInv, TypeOK
  <2>4. latest = r /\ latest' = r
    BY <1>1, <1>4 DEF Current
  <2>5. NeverBehindEvents'
    <3>1. SUFFICES ASSUME NEW s \in Servers, shown'[s] # Nil, heard[s] # Nil
                   PROVE  shown'[s] >= heard[s]
      BY <1>1 DEF NeverBehindEvents
    <3>2. CASE s \in requests[r].newer
      <4>1. shown[s] # Nil
        BY <2>4, <3>2 DEF IInv, NewerShown
      <4>2. shown'[s] = shown[s]
        BY <2>1, <3>2, <4>1 DEF reconcileFetch
      <4> QED
        BY <3>1, <4>1, <4>2 DEF IInv, NeverBehindEvents
    <3>3. CASE s \notin requests[r].newer
      <4>1. shown'[s] = requests[r].answer[s]
        BY <2>1, <3>3 DEF reconcileFetch
      <4> QED
        BY <3>1, <3>3, <4>1 DEF IInv, Ordered
    <3> QED
      BY <3>2, <3>3
  <2>6. NewerShown'
    BY <1>2, <2>4 DEF NewerShown
  <2>7. Explained'
    BY <1>1, <2>1 DEF IInv, Explained
  <2> QED
    BY <1>2, <2>3, <2>5, <2>6, <2>7 DEF IInv
<1>5. CASE ~Current(r) /\ UNCHANGED <<loadStatus, shown, requestError, error>>
  <2>1. TypeOK'
    BY <1>1, <1>2, <1>5 DEF IInv, TypeOK
  <2>2. NeverBehindEvents'
    BY <1>1, <1>5 DEF IInv, NeverBehindEvents
  <2>3. NewerShown'
    <3>1. latest \in Requests => requests'[latest].newer \subseteq requests[latest].newer
      BY <1>2
    <3> QED
      BY <1>1, <1>5, <3>1 DEF IInv, NewerShown
  <2>4. Explained'
    <3>1. mounted /\ latest \in Requests => requests'[latest] = requests[latest]
      BY <1>2, <1>5 DEF Current
    <3> QED
      BY <1>1, <1>5, <3>1 DEF IInv, Explained, Active
  <2> QED
    BY <1>2, <2>1, <2>2, <2>3, <2>4 DEF IInv
<1> QED
  BY <1>4, <1>5 DEF Arrive

LEMMA FailKeeps ==
    ASSUME IInv, NEW r \in Requests, Fail(r) PROVE IInv'
<1>1. /\ UNCHANGED <<server, connection, latest, mounted, shown, live, history>>
      /\ requests' = [requests EXCEPT ![r] = NoRequest]
  BY DEF Fail
<1>2. /\ requests' \in [Requests -> RequestStates]
      /\ \A q \in Requests : q # r => requests'[q] = requests[q]
      /\ requests'[r].newer = {} /\ requests'[r].phase = "idle"
      /\ Ordered'
  BY <1>1, EndedRequest
<1>3. \/ Current(r) /\ error' = "request" /\ requestError' = TRUE
         /\ loadStatus' \in {"success", "error"}
      \/ ~Current(r) /\ UNCHANGED <<loadStatus, requestError, error>>
  BY DEF Fail
<1>4. TypeOK'
  BY <1>1, <1>2, <1>3, ZenonT(60) DEF IInv, TypeOK
<1>5. NeverBehindEvents'
  BY <1>1 DEF IInv, NeverBehindEvents
<1>6. NewerShown'
  <2>1. latest \in Requests => requests'[latest].newer \subseteq requests[latest].newer
    BY <1>2
  <2> QED
    BY <1>1, <2>1 DEF IInv, NewerShown
<1>7. Explained'
  <2>1. CASE Current(r) /\ error' = "request"
    BY <1>1, <2>1 DEF Explained
  <2>2. CASE ~Current(r) /\ UNCHANGED <<loadStatus, requestError, error>>
    <3>1. mounted /\ latest \in Requests => requests'[latest] = requests[latest]
      BY <1>2, <2>2 DEF Current
    <3> QED
      BY <1>1, <2>2, <3>1 DEF IInv, Explained, Active
  <2> QED
    BY <1>3, <2>1, <2>2
<1> QED
  BY <1>2, <1>4, <1>5, <1>6, <1>7 DEF IInv

\* A request that begins.
LEMMA NewRequestKeeps ==
    ASSUME IInv, BeginRefresh, UNCHANGED <<heard, version, queue, shown>>
    PROVE  /\ requests' \in [Requests -> RequestStates]
           /\ latest' \in Requests /\ requests'[latest'].phase = "sent"
           /\ Ordered' /\ NewerShown'
<1>1. PICK r \in Idle : requests' = [requests EXCEPT ![r] = NewRequest] /\ latest' = r
  BY DEF BeginRefresh
<1>2. /\ r \in Requests
      /\ requests' \in [Requests -> RequestStates]
      /\ \A q \in Requests : q # r => requests'[q] = requests[q]
      /\ requests'[r] = NewRequest
  BY <1>1, FreshRequests DEF IInv, TypeOK, Idle
<1>3. \A q \in Requests, s \in Servers :
        (/\ requests'[q].answer[s] # Nil /\ heard[s] # Nil
         /\ s \notin requests'[q].newer)
        => requests'[q].answer[s] >= heard[s]
  BY <1>2, FreshRequests DEF IInv, Ordered
<1>4. Ordered'
  BY <1>3 DEF IInv, Ordered
<1>5. NewerShown'
  BY <1>1, <1>2, FreshRequests DEF NewerShown
<1> QED
  BY <1>1, <1>2, <1>4, <1>5, FreshRequests

LEMMA SubscribeKeeps ==
    ASSUME IInv, Subscribe PROVE IInv'
<1>1. UNCHANGED <<server, queue, requests, latest, page, live, history>>
      /\ stream' = "subscribed"
  BY DEF Subscribe
<1>2. TypeOK'
  BY <1>1 DEF IInv, TypeOK
<1>3. Ordered' /\ NeverBehindEvents' /\ NewerShown' /\ Explained'
  BY <1>1 DEF IInv, Ordered, NeverBehindEvents, NewerShown, Explained, Active
<1> QED
  BY <1>2, <1>3 DEF IInv

LEMMA OpenKeeps ==
    ASSUME IInv, Open PROVE IInv'
<1>1. /\ UNCHANGED <<server, queue, mounted, shown, loadStatus, requestError, history>>
      /\ stream' = "open" /\ liveConnected' = TRUE
      /\ connectionFailed' = FALSE /\ opened' = TRUE
      /\ error' = IF error = "connection" THEN Nil ELSE error
  BY DEF Open
<1>2. NeverBehindEvents'
  BY <1>1 DEF IInv, NeverBehindEvents
<1>3. CASE BeginRefresh
  <2>1. /\ requests' \in [Requests -> RequestStates]
        /\ latest' \in Requests /\ requests'[latest'].phase = "sent"
        /\ Ordered' /\ NewerShown'
    BY <1>1, <1>3, NewRequestKeeps
  <2>2. TypeOK'
    BY <1>1, <2>1 DEF IInv, TypeOK
  <2>3. Explained'
    BY <1>1, <2>1 DEF Explained, Active
  <2> QED
    BY <1>2, <2>1, <2>2, <2>3 DEF IInv
<1>4. CASE ~connectionFailed /\ UNCHANGED <<requests, latest>>
  <2>1. error # "connection" /\ UNCHANGED error
    BY <1>1, <1>4 DEF IInv, Explained
  <2>2. TypeOK'
    BY <1>1, <1>4, <2>1 DEF IInv, TypeOK
  <2>3. Ordered' /\ NewerShown' /\ Explained'
    BY <1>1, <1>4, <2>1 DEF IInv, Ordered, NewerShown, Explained, Active
  <2> QED
    BY <1>2, <2>2, <2>3 DEF IInv
<1> QED
  BY <1>3, <1>4 DEF Open

LEMMA LoseKeeps ==
    ASSUME IInv, Lose PROVE IInv'
<1>1. UNCHANGED <<server, queue, requests, latest, page, live, history>>
      /\ stream' = "lost"
  BY DEF Lose
<1>2. TypeOK'
  BY <1>1 DEF IInv, TypeOK
<1>3. Ordered' /\ NeverBehindEvents' /\ NewerShown' /\ Explained'
  BY <1>1 DEF IInv, Ordered, NeverBehindEvents, NewerShown, Explained, Active
<1> QED
  BY <1>2, <1>3 DEF IInv

LEMMA ErrorKeeps ==
    ASSUME IInv, Error PROVE IInv'
<1>1. /\ UNCHANGED <<server, requests, latest, mounted, shown, loadStatus,
                     requestError, opened, heard>>
      /\ stream' \in {"connecting", "closed"} /\ queue' = <<>>
      /\ liveConnected' = FALSE /\ connectionFailed' = TRUE
      /\ error' = "connection" /\ interrupted' = TRUE
  BY DEF Error
<1>2. queue' \in Seq(Events) /\ Len(queue') = 0
  BY <1>1
<1>3. TypeOK'
  BY <1>1, <1>2 DEF IInv, TypeOK
<1>4. Ordered' /\ NeverBehindEvents' /\ NewerShown' /\ Explained'
  BY <1>1, <1>2 DEF IInv, Ordered, NeverBehindEvents, NewerShown, Explained
<1> QED
  BY <1>3, <1>4 DEF IInv

LEMMA HandleSnapshotKeeps ==
    ASSUME IInv, HandleSnapshot PROVE IInv'
<1> DEFINE event == Head(queue)
           Marked(r) == [requests[r] EXCEPT !.newer = @ \cup {event.server}]
<1>1. /\ queue \in Seq(Events) /\ queue # <<>>
      /\ requests \in [Requests -> RequestStates]
      /\ shown \in Statuses /\ heard \in Statuses
      /\ version \in [Servers -> Nat]
  BY DEF IInv, TypeOK, HandleSnapshot
<1>2. event = queue[1] /\ 1 \in 1 .. Len(queue)
  BY <1>1
<1>3. event.server \in Servers /\ event.version \in Nat
  BY <1>2, QueuedEvents DEF IInv
<1>4. /\ shown' = [shown EXCEPT ![event.server] = event.version]
      /\ heard' = [heard EXCEPT ![event.server] = event.version]
      /\ requests' = [r \in Requests |-> IF r \in Idle THEN NoRequest ELSE Marked(r)]
      /\ queue' = Tail(queue)
      /\ UNCHANGED <<server, stream, latest, mounted, loadStatus, requestError,
                     error, live, interrupted>>
  BY DEF HandleSnapshot
<1>5. event.version <= version[event.server]
  BY <1>2 DEF IInv, Ordered
<1> HIDE DEF event
<1>6. \A r \in Requests :
        /\ Marked(r) \in RequestStates
        /\ Marked(r).answer = requests[r].answer
        /\ Marked(r).phase = requests[r].phase
        /\ Marked(r).newer = requests[r].newer \cup {event.server}
  BY <1>1, <1>3 DEF RequestStates
<1>7. \A r \in Requests :
        /\ requests'[r] \in RequestStates
        /\ requests'[r].phase = requests[r].phase
        /\ \/ r \in Idle /\ requests'[r].newer = {}
              /\ \A s \in Servers : requests'[r].answer[s] = Nil
           \/ /\ requests'[r].answer = requests[r].answer
              /\ requests'[r].newer = requests[r].newer \cup {event.server}
  <2>1. SUFFICES ASSUME NEW r \in Requests
                 PROVE  /\ requests'[r] \in RequestStates
                        /\ requests'[r].phase = requests[r].phase
                        /\ \/ r \in Idle /\ requests'[r].newer = {}
                              /\ \A s \in Servers : requests'[r].answer[s] = Nil
                           \/ /\ requests'[r].answer = requests[r].answer
                              /\ requests'[r].newer = requests[r].newer \cup {event.server}
    OBVIOUS
  <2>2. CASE r \in Idle
    BY <1>4, <2>1, <2>2, FreshRequests DEF Idle
  <2>3. CASE r \notin Idle
    <3>1. requests'[r] = Marked(r)
      BY <1>4, <2>1, <2>3
    <3> HIDE DEF Marked
    <3> QED
      BY <1>6, <2>1, <3>1
  <2> QED
    BY <2>2, <2>3
<1>8. requests' \in [Requests -> RequestStates]
  BY <1>4, <1>7
<1>9. /\ shown' \in Statuses /\ heard' \in Statuses
      /\ shown'[event.server] = event.version /\ heard'[event.server] = event.version
      /\ \A s \in Servers : s # event.server =>
           shown'[s] = shown[s] /\ heard'[s] = heard[s]
  BY <1>1, <1>3, <1>4 DEF Statuses
<1>10. queue' \in Seq(Events) /\ Len(queue') = Len(queue) - 1
       /\ \A i \in 1 .. Len(queue') : queue'[i] = queue[i + 1] /\ i + 1 \in 1 .. Len(queue)
  BY <1>1, <1>4
<1>11. TypeOK'
  BY <1>4, <1>8, <1>9, <1>10, SMTT(30) DEF IInv, TypeOK
<1>12. \A r \in Requests, s \in Servers :
         (/\ requests'[r].answer[s] # Nil /\ heard'[s] # Nil
          /\ s \notin requests'[r].newer)
         => requests'[r].answer[s] >= heard'[s]
  BY <1>7, <1>9 DEF IInv, Ordered
<1>13. Ordered'
  <2>1. \A s \in Servers : heard'[s] # Nil => heard'[s] <= version'[s]
    BY <1>3, <1>4, <1>5, <1>9 DEF IInv, Ordered
  <2>2. \A i \in 1 .. Len(queue') : queue'[i].version <= version'[queue'[i].server]
    BY <1>4, <1>10 DEF IInv, Ordered
  <2> QED
    BY <1>12, <2>1, <2>2 DEF Ordered
<1>14. NeverBehindEvents'
  BY <1>3, <1>9 DEF IInv, NeverBehindEvents
<1>15. NewerShown'
  <2>1. SUFFICES ASSUME latest' \in Requests, NEW s \in requests'[latest'].newer
                 PROVE  shown'[s] # Nil
    BY DEF NewerShown
  <2>2. latest' = latest /\ s \in requests[latest].newer \cup {event.server}
    BY <1>4, <1>7, <2>1
  <2>3. CASE s = event.server
    BY <1>3, <1>9, <2>3
  <2>4. CASE s # event.server
    <3>1. shown[s] # Nil
      BY <2>1, <2>2, <2>4 DEF IInv, NewerShown
    <3>2. s \in Servers
      BY <1>1, <2>1, <2>2, <1>8, <1>7 DEF RequestStates
    <3> QED
      BY <1>9, <2>4, <3>1, <3>2
  <2> QED
    BY <2>3, <2>4
<1>16. Explained'
  <2>1. latest \in Requests => requests'[latest].phase = requests[latest].phase
    BY <1>7
  <2> QED
    BY <1>4, <2>1 DEF IInv, Explained, Active
<1> QED
  BY <1>11, <1>13, <1>14, <1>15, <1>16 DEF IInv

LEMMA RetryKeeps ==
    ASSUME IInv, Retry PROVE IInv'
<1>1. BeginRefresh /\ UNCHANGED <<server, connection, page, live, history>>
  BY DEF Retry
<1>2. /\ requests' \in [Requests -> RequestStates]
      /\ latest' \in Requests /\ requests'[latest'].phase = "sent"
      /\ Ordered' /\ NewerShown'
  BY <1>1, NewRequestKeeps
<1>3. TypeOK'
  BY <1>1, <1>2 DEF IInv, TypeOK
<1>4. NeverBehindEvents' /\ Explained'
  BY <1>1, <1>2 DEF IInv, NeverBehindEvents, Explained, Active
<1> QED
  BY <1>2, <1>3, <1>4 DEF IInv

LEMMA BlankPage ==
    ASSUME IInv, Blank, requests' \in [Requests -> RequestStates],
           latest' \in Requests \cup {Nil},
           latest' \in Requests => requests'[latest'].newer = {},
           stream' \in {"connecting", "closed"},
           mounted' \in BOOLEAN, UNCHANGED server
    PROVE  IInv'
<1>1. /\ shown' = [s \in Servers |-> Nil] /\ heard' = [s \in Servers |-> Nil]
      /\ loadStatus' = "pending" /\ requestError' = FALSE /\ error' = Nil
      /\ liveConnected' = FALSE /\ connectionFailed' = FALSE /\ opened' = FALSE
      /\ interrupted' = FALSE /\ queue' = <<>>
  BY DEF Blank
<1>2. /\ queue' \in Seq(Events) /\ Len(queue') = 0
      /\ \A s \in Servers : heard'[s] = Nil /\ shown'[s] = Nil
      /\ shown' \in Statuses /\ heard' \in Statuses
  BY <1>1 DEF Statuses
<1>3. TypeOK'
  BY <1>1, <1>2 DEF IInv, TypeOK
<1>4. Ordered'
  BY <1>2 DEF Ordered
<1>5. NeverBehindEvents'
  BY <1>2 DEF NeverBehindEvents
<1>6. NewerShown' /\ Explained'
  BY <1>1 DEF NewerShown, Explained
<1> QED
  BY <1>3, <1>4, <1>5, <1>6 DEF IInv

LEMMA MountKeeps ==
    ASSUME IInv, Mount PROVE IInv'
<1>1. PICK r \in Idle : requests' = [requests EXCEPT ![r] = NewRequest] /\ latest' = r
  BY DEF Mount, BeginRefresh
<1>2. r \in Requests /\ requests' \in [Requests -> RequestStates]
      /\ requests'[r].newer = {}
  BY <1>1, FreshRequests DEF IInv, TypeOK, Idle
<1> QED
  BY <1>1, <1>2, BlankPage DEF Mount

LEMMA UnmountKeeps ==
    ASSUME IInv, Unmount PROVE IInv'
<1>1. requests' \in [Requests -> RequestStates]
  BY FreshRequests DEF Unmount
<1>2. latest' = Nil
  BY DEF Unmount
<1> QED
  BY <1>1, <1>2, BlankPage DEF Unmount

LEMMA Invariant ==
    Spec => []IInv
<1>1. Init => IInv
  BY InitIInv
<1>2. ASSUME IInv, Next PROVE IInv'
  <2>1. ASSUME NEW s \in Servers, Publish(s) PROVE IInv'
    BY <1>2, <2>1, PublishKeeps
  <2>2. ASSUME NEW s \in Servers, Create(s) PROVE IInv'
    <3>1. stream' \in {"closed", "connecting", "subscribed", "open", "lost"}
          /\ registered' \subseteq Servers
      BY <1>2, <2>2 DEF IInv, TypeOK, Create
    <3> QED
      BY <1>2, <2>2, <3>1, SilentKeeps DEF Create
  <2>3. ASSUME NEW s \in Servers, Delete(s) PROVE IInv'
    <3>1. stream' \in {"closed", "connecting", "subscribed", "open", "lost"}
          /\ registered' \subseteq Servers
      BY <1>2, <2>3 DEF IInv, TypeOK, Delete
    <3> QED
      BY <1>2, <2>3, <3>1, SilentKeeps DEF Delete
  <2>4. CASE Restart
    <3>1. stream' \in {"closed", "connecting", "subscribed", "open", "lost"}
          /\ registered \subseteq Servers /\ registered' = registered
      BY <1>2, <2>4 DEF IInv, TypeOK, Restart
    <3> QED
      BY <1>2, <2>4, <3>1, SilentKeeps DEF Restart
  <2>5. ASSUME NEW r \in Requests, ListRows(r) PROVE IInv'
    BY <1>2, <2>5, ListRowsKeeps
  <2>6. ASSUME NEW r \in Requests, NEW s \in Servers, ReadSnapshot(r, s) PROVE IInv'
    BY <1>2, <2>6, ReadSnapshotKeeps
  <2>7. ASSUME NEW r \in Requests, Arrive(r) PROVE IInv'
    BY <1>2, <2>7, ArriveKeeps
  <2>8. ASSUME NEW r \in Requests, Fail(r) PROVE IInv'
    BY <1>2, <2>8, FailKeeps
  <2>9. CASE Subscribe \/ Open \/ Lose \/ Error \/ HandleSnapshot
    BY <1>2, <2>9, SubscribeKeeps, OpenKeeps, LoseKeeps, ErrorKeeps,
       HandleSnapshotKeeps
  <2>10. CASE Retry \/ Mount \/ Unmount
    BY <1>2, <2>10, RetryKeeps, MountKeeps, UnmountKeeps
  <2> QED
    BY <1>2, <2>1, <2>2, <2>3, <2>4, <2>5, <2>6, <2>7, <2>8, <2>9, <2>10
    DEF Next, Backend, Answering
<1>3. ASSUME IInv, UNCHANGED vars PROVE IInv'
  <2>1. UNCHANGED <<server, connection, requests, latest, page, live, history>>
    BY <1>3 DEF vars
  <2>2. TypeOK'
    BY <1>3, <2>1 DEF IInv, TypeOK
  <2>3. Ordered' /\ NeverBehindEvents' /\ NewerShown' /\ Explained'
    BY <1>3, <2>1 DEF IInv, Ordered, NeverBehindEvents, NewerShown, Explained, Active
  <2> QED
    BY <2>2, <2>3 DEF IInv
<1> QED
  BY <1>1, <1>2, <1>3, PTL DEF Spec

\* The page, its requests in flight and the stream's queue keep their types
\* (useServerSnapshots.ts:79-202).
THEOREM TypeCorrect == Spec => []TypeOK
<1>1. IInv => TypeOK
  BY DEF IInv
<1> QED
  BY <1>1, Invariant, PTL

\* No answer takes the page behind an event it has shown, for any number of
\* overlapping requests (useServerSnapshots.ts:33-61).
THEOREM NeverBehindEventsHolds == Spec => []NeverBehindEvents
<1>1. IInv => NeverBehindEvents
  BY DEF IInv
<1> QED
  BY <1>1, Invariant, PTL

\* A page that failed to load says why or is loading again, whatever the
\* stream's handlers write over the text (useServerSnapshots.ts:135-193).
THEOREM FailureExplainedHolds == Spec => []FailureExplained
<1>1. IInv => FailureExplained
  BY DEF IInv, Explained, FailureExplained, InitialError, Active
<1> QED
  BY <1>1, Invariant, PTL

(***************************************************************************)
(* After a failure the page is brought up to date by the request made when *)
(* the stream reopens and by the events of the queue, together.            *)
(***************************************************************************)
Queued(s) == \E i \in 1 .. Len(queue) : queue[i].server = s

\* Nothing is known of a server that was never created.
Unborn == \A s \in Servers : s \notin registered /\ version[s] = 0 =>
    /\ shown[s] = Nil /\ ~Queued(s)
    /\ \A r \in Requests : /\ requests[r].answer[s] = Nil
                           /\ s \notin requests[r].listed
                           /\ s \notin requests[r].newer

\* A stream that is subscribed has the last status of a server last.
LastQueued ==
    /\ stream = "connecting" => queue = <<>>
    /\ stream \in {"subscribed", "open"} =>
         \A i \in 1 .. Len(queue) :
           /\ queue[i].server \in registered
           /\ \A j \in i + 1 .. Len(queue) : queue[j].server # queue[i].server
           => queue[i].version = version[queue[i].server]

Refetched == interrupted => opened \/ connectionFailed
Asked == mounted => latest \in Requests

\* What the page shows, or will show when the latest answer arrives, is
\* current for every server without an event in the queue.
UpToDateFor(s) ==
    IF Active(latest)
    THEN IF s \in requests[latest].newer THEN shown[s] = version[s]
         ELSE requests[latest].answer[s] \in {Nil, version[s]}
    ELSE requestError \/ shown[s] \in {Nil, version[s]}
UpToDate ==
    mounted /\ interrupted /\ stream = "open" =>
      \A s \in registered : ~Queued(s) => UpToDateFor(s)

QuietInv == Unborn /\ LastQueued /\ Refetched /\ Asked /\ UpToDate

LEMMA PublishStaysQuiet ==
    ASSUME IInv, QuietInv, NEW s \in Servers, Publish(s) PROVE QuietInv'
<1> DEFINE event == [server |-> s, version |-> version[s] + 1]
<1>1. /\ version \in [Servers -> Nat] /\ queue \in Seq(Events)
      /\ registered \subseteq Servers
  BY DEF IInv, TypeOK
<1>2. /\ s \in registered
      /\ version'[s] = version[s] + 1
      /\ \A t \in Servers : t # s => version'[t] = version[t]
      /\ queue' = IF stream \in {"subscribed", "open"} THEN Append(queue, event)
                                                       ELSE queue
      /\ UNCHANGED <<registered, stream, requests, latest, page, live, history>>
  BY <1>1 DEF Publish, NewStatus
<1>3. \A i \in 1 .. Len(queue) : queue[i].server \in Servers
  BY QueuedEvents DEF IInv
<1>4. event.server = s /\ event.version = version'[s] /\ event \in Events
  BY <1>1, <1>2 DEF Events
<1> HIDE DEF event
<1>5. CASE stream \in {"subscribed", "open"}
  <2>1. /\ Len(queue') = Len(queue) + 1 /\ Len(queue) \in Nat
        /\ \A i \in 1 .. Len(queue) : queue'[i] = queue[i]
        /\ queue'[Len(queue) + 1] = event
    BY <1>1, <1>2, <1>4, <1>5
  <2>2. Queued(s)'
    <3>1. Len(queue) + 1 \in 1 .. Len(queue')
      BY <2>1
    <3> QED
      BY <1>4, <2>1, <3>1 DEF Queued
  <2>3. ASSUME NEW t \in Servers, t # s PROVE Queued(t)' <=> Queued(t)
    <3>1. \A i \in 1 .. Len(queue') :
            i \in 1 .. Len(queue) \/ i = Len(queue) + 1
      BY <2>1
    <3>2. \A i \in 1 .. Len(queue) : i \in 1 .. Len(queue')
      BY <2>1
    <3> QED
      BY <1>4, <2>1, <2>3, <3>1, <3>2 DEF Queued
  <2>4. Unborn'
    BY <1>2, <2>3 DEF QuietInv, Unborn
  <2>5. LastQueued'
    <3>1. SUFFICES
            ASSUME NEW i \in 1 .. Len(queue'), queue'[i].server \in registered,
                   \A j \in i + 1 .. Len(queue') : queue'[j].server # queue'[i].server
            PROVE  queue'[i].version = version'[queue'[i].server]
      BY <1>2, <1>5 DEF LastQueued
    <3>2. CASE i = Len(queue) + 1
      BY <1>4, <2>1, <3>2
    <3>3. CASE i # Len(queue) + 1
      <4>1. i \in 1 .. Len(queue) /\ Len(queue) + 1 \in i + 1 .. Len(queue')
        BY <2>1, <3>3
      <4>2. queue[i].server # s
        BY <1>4, <2>1, <3>1, <4>1
      <4>3. \A j \in i + 1 .. Len(queue) : /\ j \in i + 1 .. Len(queue')
                                           /\ j \in 1 .. Len(queue)
        BY <2>1, <4>1
      <4>4. \A j \in i + 1 .. Len(queue) : queue[j].server # queue[i].server
        BY <2>1, <3>1, <4>1, <4>3
      <4>5. queue[i].server \in registered
        BY <2>1, <3>1, <4>1
      <4>6. queue[i].version = version[queue[i].server]
        BY <1>5, <4>1, <4>4, <4>5 DEF QuietInv, LastQueued
      <4> QED
        BY <1>2, <1>3, <2>1, <4>1, <4>2, <4>6
    <3> QED
      BY <3>2, <3>3
  <2>6. UpToDate'
    <3>1. SUFFICES ASSUME mounted, interrupted, stream = "open",
                          NEW t \in registered, ~Queued(t)'
                   PROVE  UpToDateFor(t)'
      BY <1>2 DEF UpToDate
    <3>2. t # s /\ t \in Servers
      BY <1>1, <2>2, <3>1
    <3>3. UpToDateFor(t)
      BY <2>3, <3>1, <3>2 DEF QuietInv, UpToDate
    <3> QED
      BY <1>2, <3>2, <3>3 DEF UpToDateFor, Active
  <2> QED
    BY <1>2, <2>4, <2>5, <2>6 DEF QuietInv, Refetched, Asked
<1>6. CASE stream \notin {"subscribed", "open"}
  <2>1. queue' = queue
    BY <1>2, <1>6
  <2>2. Unborn'
    BY <1>2, <2>1 DEF QuietInv, Unborn, Queued
  <2>3. LastQueued'
    BY <1>2, <1>6, <2>1 DEF QuietInv, LastQueued
  <2> QED
    BY <1>2, <1>6, <2>2, <2>3 DEF QuietInv, Refetched, Asked, UpToDate
<1> QED
  BY <1>5, <1>6

LEMMA CreateStaysQuiet ==
    ASSUME IInv, QuietInv, NEW s \in Servers, Create(s) PROVE QuietInv'
<1>1. version \in [Servers -> Nat] /\ registered \subseteq Servers
  BY DEF IInv, TypeOK
<1>2. /\ s \notin registered /\ version[s] = 0
      /\ registered' = registered \cup {s}
      /\ version'[s] = 1 /\ \A t \in Servers : t # s => version'[t] = version[t]
      /\ UNCHANGED <<stream, queue, requests, latest, mounted, shown, requestError,
                     live, history>>
  BY <1>1 DEF Create, NewStatus
<1>3. /\ shown[s] = Nil /\ ~Queued(s)
      /\ \A r \in Requests : /\ requests[r].answer[s] = Nil
                             /\ s \notin requests[r].listed
                             /\ s \notin requests[r].newer
  BY <1>2 DEF QuietInv, Unborn
<1>4. \A t \in Servers : Queued(t)' <=> Queued(t)
  BY <1>2 DEF Queued
<1>5. Unborn'
  BY <1>1, <1>2, <1>4 DEF QuietInv, Unborn
<1>6. LastQueued'
  <2>1. \A i \in 1 .. Len(queue) : queue[i].server # s /\ queue[i].server \in Servers
    BY <1>3, QueuedEvents DEF Queued, IInv
  <2> QED
    BY <1>2, <2>1 DEF QuietInv, LastQueued
<1>7. UpToDate'
  <2>1. SUFFICES ASSUME mounted, interrupted, stream = "open",
                        NEW t \in registered \cup {s}, ~Queued(t)
                 PROVE  UpToDateFor(t)'
    BY <1>1, <1>2, <1>4 DEF UpToDate
  <2>2. latest \in Requests
    BY <2>1 DEF QuietInv, Asked
  <2>3. CASE t = s
    BY <1>2, <1>3, <2>2, <2>3 DEF UpToDateFor, Active
  <2>4. CASE t # s
    <3>1. UpToDateFor(t)
      BY <2>1, <2>4 DEF QuietInv, UpToDate
    <3> QED
      BY <1>1, <1>2, <2>4, <3>1 DEF UpToDateFor, Active
  <2> QED
    BY <2>3, <2>4
<1> QED
  BY <1>2, <1>5, <1>6, <1>7 DEF QuietInv, Refetched, Asked

LEMMA DeleteStaysQuiet ==
    ASSUME IInv, QuietInv, NEW s \in Servers, Delete(s) PROVE QuietInv'
<1>1. version \in [Servers -> Nat] /\ registered \subseteq Servers
  BY DEF IInv, TypeOK
<1>2. /\ registered' = registered \ {s}
      /\ version'[s] = version[s] + 1
      /\ \A t \in Servers : t # s => version'[t] = version[t]
      /\ UNCHANGED <<stream, queue, requests, latest, mounted, shown, requestError,
                     live, history>>
  BY <1>1 DEF Delete, NewStatus
<1>3. \A t \in Servers : Queued(t)' <=> Queued(t)
  BY <1>2 DEF Queued
<1>4. Unborn'
  <2>1. version'[s] # 0
    BY <1>1, <1>2
  <2> QED
    BY <1>2, <1>3, <2>1 DEF QuietInv, Unborn
<1>5. LastQueued'
  BY <1>1, <1>2 DEF QuietInv, LastQueued
<1>6. UpToDate'
  <2>1. SUFFICES ASSUME mounted, interrupted, stream = "open",
                        NEW t \in registered \ {s}, ~Queued(t)
                 PROVE  UpToDateFor(t)'
    BY <1>1, <1>2, <1>3 DEF UpToDate
  <2>2. UpToDateFor(t)
    BY <2>1 DEF QuietInv, UpToDate
  <2> QED
    BY <1>1, <1>2, <2>1, <2>2 DEF UpToDateFor, Active
<1> QED
  BY <1>2, <1>4, <1>5, <1>6 DEF QuietInv, Refetched, Asked

\* The stream is not open, what it had queued stays and the page is untouched.
LEMMA BrokenStaysQuiet ==
    ASSUME QuietInv, stream' \notin {"subscribed", "open"},
           stream' = "connecting" => stream = "connecting",
           \A s \in Servers : s \notin registered => version'[s] = version[s],
           UNCHANGED <<registered, queue, requests, latest, page, live, history>>
    PROVE  QuietInv'
<1>1. Unborn'
  BY DEF QuietInv, Unborn, Queued
<1>2. LastQueued'
  BY DEF QuietInv, LastQueued
<1>3. Refetched' /\ Asked' /\ UpToDate'
  BY DEF QuietInv, Refetched, Asked, UpToDate
<1> QED
  BY <1>1, <1>2, <1>3 DEF QuietInv

LEMMA RestartStaysQuiet ==
    ASSUME IInv, QuietInv, Restart \/ Lose PROVE QuietInv'
<1>1. /\ stream' \notin {"subscribed", "open"}
      /\ stream' = "connecting" => stream = "connecting"
      /\ UNCHANGED <<registered, queue, requests, latest, page, live, history>>
  BY DEF Restart, Lose
<1>2. \A s \in Servers : s \notin registered => version'[s] = version[s]
  BY DEF Restart, Lose, NewStatus
<1> QED
  BY <1>1, <1>2, BrokenStaysQuiet

\* The backend's part of a request.
LEMMA AnsweringStaysQuiet ==
    ASSUME IInv, QuietInv,
           UNCHANGED <<server, connection, latest, page, live, history>>,
           \A q \in Requests :
             /\ requests'[q].newer = requests[q].newer
             /\ requests'[q].phase = "idle" <=> requests[q].phase = "idle"
             /\ \A s \in Servers :
                  \/ requests'[q].answer[s] = requests[q].answer[s]
                  \/ s \in requests[q].listed /\ requests'[q].answer[s] = version[s]
             /\ requests'[q].listed \in {requests[q].listed, registered}
    PROVE  QuietInv'
<1>1. Unborn'
  <2>1. SUFFICES ASSUME NEW s \in Servers, s \notin registered, version[s] = 0
                 PROVE  /\ shown[s] = Nil /\ ~Queued(s)'
                        /\ \A r \in Requests : /\ requests'[r].answer[s] = Nil
                                               /\ s \notin requests'[r].listed
                                               /\ s \notin requests'[r].newer
    BY DEF Unborn
  <2>2. /\ shown[s] = Nil /\ ~Queued(s)
        /\ \A r \in Requests : /\ requests[r].answer[s] = Nil
                               /\ s \notin requests[r].listed
                               /\ s \notin requests[r].newer
    BY <2>1 DEF QuietInv, Unborn
  <2>3. ~Queued(s)'
    BY <2>2 DEF Queued
  <2> QED
    BY <2>1, <2>2, <2>3
<1>2. LastQueued' /\ Refetched' /\ Asked'
  BY DEF QuietInv, LastQueued, Refetched, Asked
<1>3. UpToDate'
  <2>1. SUFFICES ASSUME mounted, interrupted, stream = "open",
                        NEW s \in registered, ~Queued(s)'
                 PROVE  UpToDateFor(s)'
    BY DEF UpToDate
  <2>2. UpToDateFor(s)
    BY <2>1 DEF QuietInv, UpToDate, Queued
  <2>3. latest \in Requests /\ s \in Servers
    BY <2>1 DEF QuietInv, Asked, IInv, TypeOK
  <2> QED
    BY <2>2, <2>3 DEF UpToDateFor, Active
<1> QED
  BY <1>1, <1>2, <1>3 DEF QuietInv

LEMMA ListRowsStaysQuiet ==
    ASSUME IInv, QuietInv, NEW r \in Requests, ListRows(r) PROVE QuietInv'
<1>1. /\ requests \in [Requests -> RequestStates] /\ registered \subseteq Servers
      /\ requests' = [requests EXCEPT ![r].phase = "listed",
                                      ![r].listed = registered]
      /\ requests[r].phase = "sent"
  BY DEF IInv, TypeOK, ListRows
<1>2. \A q \in Requests : /\ requests'[q].newer = requests[q].newer
                          /\ requests'[q].answer = requests[q].answer
                          /\ (requests'[q].phase = "idle" <=>
                                requests[q].phase = "idle")
                          /\ requests'[q].listed \in {requests[q].listed, registered}
  BY <1>1 DEF RequestStates
<1> QED
  BY <1>2, AnsweringStaysQuiet DEF ListRows

LEMMA ReadSnapshotStaysQuiet ==
    ASSUME IInv, QuietInv, NEW r \in Requests, NEW s \in Servers, ReadSnapshot(r, s)
    PROVE  QuietInv'
<1>1. /\ requests \in [Requests -> RequestStates]
      /\ s \in requests[r].listed
      /\ requests' = [requests EXCEPT ![r].answer[s] = version[s]]
  BY DEF IInv, TypeOK, ReadSnapshot
<1>2. \A q \in Requests : requests[q] \in RequestStates
  BY <1>1
<1>3. \A q \in Requests :
        /\ requests'[q].newer = requests[q].newer
        /\ requests'[q].phase = requests[q].phase
        /\ requests'[q].listed = requests[q].listed
  BY <1>1, <1>2 DEF RequestStates
<1>4. \A q \in Requests, t \in Servers :
        \/ requests'[q].answer[t] = requests[q].answer[t]
        \/ t \in requests[q].listed /\ requests'[q].answer[t] = version[t]
  BY <1>1, <1>2 DEF RequestStates, Statuses
<1> QED
  BY <1>3, <1>4, AnsweringStaysQuiet DEF ReadSnapshot

LEMMA ArriveStaysQuiet ==
    ASSUME IInv, QuietInv, NEW r \in Requests, Arrive(r) PROVE QuietInv'
<1>1. /\ requests \in [Requests -> RequestStates] /\ registered \subseteq Servers
      /\ version \in [Servers -> Nat]
  BY DEF IInv, TypeOK
<1>2. /\ UNCHANGED <<server, connection, latest, mounted, live, history>>
      /\ requests[r].phase = "listed"
      /\ requests' = [requests EXCEPT ![r] = NoRequest]
  BY DEF Arrive
<1>3. /\ \A q \in Requests : q # r => requests'[q] = requests[q]
      /\ requests'[r] = NoRequest
  BY <1>1, <1>2
<1>4. \A s \in Servers : Queued(s)' <=> Queued(s)
  BY <1>2 DEF Queued
<1>5. \A s \in Servers : s \notin registered /\ version[s] = 0 =>
        \A q \in Requests : /\ requests'[q].answer[s] = Nil
                            /\ s \notin requests'[q].listed
                            /\ s \notin requests'[q].newer
  <2>1. NoRequest.listed = {}
    BY DEF NoRequest
  <2> QED
    BY <1>3, <2>1, FreshRequests DEF QuietInv, Unborn
<1>6. LastQueued' /\ Refetched' /\ Asked'
  BY <1>2 DEF QuietInv, LastQueued, Refetched, Asked
<1>7. CASE Current(r)
  <2>1. /\ shown' = reconcileFetch(requests[r].answer, requests[r].newer)
        /\ latest = r
    BY <1>7 DEF Arrive, Current
  <2>2. \A s \in Servers :
          \/ s \in requests[r].newer /\ shown[s] # Nil /\ shown'[s] = shown[s]
          \/ s \notin requests[r].newer /\ shown'[s] = requests[r].answer[s]
    BY <2>1 DEF reconcileFetch, IInv, NewerShown
  <2>3. Unborn'
    BY <1>2, <1>4, <1>5, <2>2 DEF QuietInv, Unborn
  <2>4. UpToDate'
    <3>1. SUFFICES ASSUME mounted, interrupted, stream = "open",
                          NEW s \in registered, ~Queued(s)
                   PROVE  UpToDateFor(s)'
      BY <1>1, <1>2, <1>4 DEF UpToDate
    <3>2. UpToDateFor(s) /\ Active(latest)
      BY <1>2, <2>1, <3>1 DEF QuietInv, UpToDate, Active
    <3>3. shown'[s] \in {Nil, version[s]}
      BY <1>1, <2>1, <2>2, <3>1, <3>2 DEF UpToDateFor
    <3>4. ~Active(latest)'
      BY <1>2, <1>3, <2>1, FreshRequests DEF Active
    <3> QED
      BY <1>2, <3>3, <3>4 DEF UpToDateFor
  <2> QED
    BY <1>6, <2>3, <2>4 DEF QuietInv
<1>8. CASE ~Current(r) /\ UNCHANGED <<shown, requestError>>
  <2>1. Unborn'
    BY <1>2, <1>4, <1>5, <1>8 DEF QuietInv, Unborn
  <2>2. UpToDate'
    <3>1. SUFFICES ASSUME mounted, interrupted, stream = "open",
                          NEW s \in registered, ~Queued(s)
                   PROVE  UpToDateFor(s)'
      BY <1>1, <1>2, <1>4 DEF UpToDate
    <3>2. UpToDateFor(s)
      BY <3>1 DEF QuietInv, UpToDate
    <3>3. latest \in Requests /\ requests'[latest] = requests[latest]
      BY <1>3, <1>8, <3>1 DEF QuietInv, Asked, Current
    <3> QED
      BY <1>2, <1>8, <3>2, <3>3 DEF UpToDateFor, Active
  <2> QED
    BY <1>6, <2>1, <2>2 DEF QuietInv
<1> QED
  BY <1>7, <1>8 DEF Arrive

LEMMA FailStaysQuiet ==
    ASSUME IInv, QuietInv, NEW r \in Requests, Fail(r) PROVE QuietInv'
<1>1. /\ requests \in [Requests -> RequestStates] /\ registered \subseteq Servers
  BY DEF IInv, TypeOK
<1>2. /\ UNCHANGED <<server, connection, latest, mounted, shown, live, history>>
      /\ requests' = [requests EXCEPT ![r] = NoRequest]
  BY DEF Fail
<1>3. /\ \A q \in Requests : q # r => requests'[q] = requests[q]
      /\ requests'[r] = NoRequest
  BY <1>1, <1>2
<1>4. \A s \in Servers : Queued(s)' <=> Queued(s)
  BY <1>2 DEF Queued
<1>5. Unborn'
  <2>1. NoRequest.listed = {}
    BY DEF NoRequest
  <2> QED
    BY <1>2, <1>3, <1>4, <2>1, FreshRequests DEF QuietInv, Unborn
<1>6. LastQueued' /\ Refetched' /\ Asked'
  BY <1>2 DEF QuietInv, LastQueued, Refetched, Asked
<1>7. UpToDate'
  <2>1. SUFFICES ASSUME mounted, interrupted, stream = "open",
                        NEW s \in registered, ~Queued(s)
                 PROVE  UpToDateFor(s)'
    BY <1>1, <1>2, <1>4 DEF UpToDate
  <2>2. CASE Current(r)
    <3>1. requestError' /\ latest = r
      BY <2>2 DEF Fail, Current
    <3>2. ~Active(latest)'
      BY <1>2, <1>3, <3>1, FreshRequests DEF Active
    <3> QED
      BY <3>1, <3>2 DEF UpToDateFor
  <2>3. CASE ~Current(r)
    <3>1. UpToDateFor(s)
      BY <2>1 DEF QuietInv, UpToDate
    <3>2. latest \in Requests /\ requests'[latest] = requests[latest]
      BY <1>3, <2>1, <2>3 DEF QuietInv, Asked, Current
    <3>3. UNCHANGED requestError
      BY <2>3 DEF Fail
    <3> QED
      BY <1>2, <3>1, <3>2, <3>3 DEF UpToDateFor, Active
  <2> QED
    BY <2>2, <2>3
<1> QED
  BY <1>5, <1>6, <1>7 DEF QuietInv

LEMMA SubscribeStaysQuiet ==
    ASSUME IInv, QuietInv, Subscribe PROVE QuietInv'
<1>1. /\ stream = "connecting" /\ stream' = "subscribed"
      /\ UNCHANGED <<server, queue, requests, latest, page, live, history>>
  BY DEF Subscribe
<1>2. Unborn'
  BY <1>1 DEF QuietInv, Unborn, Queued
<1>3. LastQueued'
  <2>1. queue' = <<>> /\ Len(queue') = 0
    BY <1>1 DEF QuietInv, LastQueued
  <2> QED
    BY <1>1, <2>1 DEF LastQueued
<1> QED
  BY <1>1, <1>2, <1>3 DEF QuietInv, Refetched, Asked, UpToDate

\* A request that begins is told nothing yet.
LEMMA BeginIsQuiet ==
    ASSUME IInv, BeginRefresh
    PROVE  /\ latest' \in Requests /\ Active(latest)'
           /\ requests'[latest'].newer = {}
           /\ \A s \in Servers : requests'[latest'].answer[s] = Nil
           /\ \A q \in Requests : \/ requests'[q] = requests[q]
                                  \/ requests'[q] = NewRequest
<1>1. PICK r \in Idle : requests' = [requests EXCEPT ![r] = NewRequest] /\ latest' = r
  BY DEF BeginRefresh
<1>2. /\ r \in Requests /\ requests'[r] = NewRequest
      /\ \A q \in Requests : q # r => requests'[q] = requests[q]
  BY <1>1 DEF IInv, TypeOK, Idle
<1> QED
  BY <1>1, <1>2, FreshRequests DEF Active

LEMMA BeginStaysQuiet ==
    ASSUME IInv, QuietInv, BeginRefresh,
           UNCHANGED <<server, queue, shown, mounted, history>>
    PROVE  Unborn' /\ Asked' /\ UpToDate'
<1>1. /\ latest' \in Requests /\ Active(latest)'
      /\ requests'[latest'].newer = {}
      /\ \A s \in Servers : requests'[latest'].answer[s] = Nil
      /\ \A q \in Requests : requests'[q] = requests[q] \/ requests'[q] = NewRequest
  BY BeginIsQuiet
<1>2. NewRequest.listed = {}
  BY DEF NewRequest, NoRequest
<1>3. Unborn'
  BY <1>1, <1>2, FreshRequests DEF QuietInv, Unborn, Queued
<1>4. UpToDate'
  <2>1. registered \subseteq Servers
    BY DEF IInv, TypeOK
  <2> QED
    BY <1>1, <2>1 DEF UpToDate, UpToDateFor
<1> QED
  BY <1>1, <1>3, <1>4 DEF Asked

LEMMA OpenStaysQuiet ==
    ASSUME IInv, QuietInv, Open PROVE QuietInv'
<1>1. /\ UNCHANGED <<server, queue, mounted, shown, history>>
      /\ stream = "subscribed" /\ stream' = "open" /\ opened' = TRUE
  BY DEF Open
<1>2. LastQueued' /\ Refetched'
  BY <1>1 DEF QuietInv, LastQueued, Refetched
<1>3. CASE BeginRefresh
  BY <1>1, <1>2, <1>3, BeginStaysQuiet DEF QuietInv
<1>4. CASE ~(opened \/ connectionFailed) /\ UNCHANGED <<requests, latest>>
  <2>1. ~interrupted'
    BY <1>1, <1>4 DEF QuietInv, Refetched
  <2>2. Unborn' /\ Asked'
    BY <1>1, <1>4 DEF QuietInv, Unborn, Queued, Asked
  <2> QED
    BY <1>2, <2>1, <2>2 DEF QuietInv, UpToDate
<1> QED
  BY <1>3, <1>4 DEF Open

LEMMA RetryStaysQuiet ==
    ASSUME IInv, QuietInv, Retry PROVE QuietInv'
<1>1. BeginRefresh /\ UNCHANGED <<server, connection, page, live, history>>
  BY DEF Retry
<1>2. LastQueued' /\ Refetched'
  BY <1>1 DEF QuietInv, LastQueued, Refetched
<1> QED
  BY <1>1, <1>2, BeginStaysQuiet DEF QuietInv

LEMMA ErrorStaysQuiet ==
    ASSUME IInv, QuietInv, Error PROVE QuietInv'
<1>1. /\ UNCHANGED <<server, requests, latest, mounted, shown>>
      /\ stream' \in {"connecting", "closed"} /\ queue' = <<>>
      /\ connectionFailed' = TRUE
  BY DEF Error
<1>2. Len(queue') = 0
  BY <1>1
<1>3. Unborn'
  BY <1>1, <1>2 DEF QuietInv, Unborn, Queued
<1> QED
  BY <1>1, <1>3 DEF QuietInv, LastQueued, Refetched, Asked, UpToDate

LEMMA HandleSnapshotStaysQuiet ==
    ASSUME IInv, QuietInv, HandleSnapshot PROVE QuietInv'
<1> DEFINE event == Head(queue)
           Marked(r) == [requests[r] EXCEPT !.newer = @ \cup {event.server}]
<1>1. /\ queue \in Seq(Events) /\ queue # <<>>
      /\ requests \in [Requests -> RequestStates]
      /\ shown \in Statuses /\ registered \subseteq Servers
  BY DEF IInv, TypeOK, HandleSnapshot
<1>2. event = queue[1] /\ 1 \in 1 .. Len(queue)
  BY <1>1
<1>3. event.server \in Servers /\ Queued(event.server)
  BY <1>2, QueuedEvents DEF IInv, Queued
<1>4. /\ shown' = [shown EXCEPT ![event.server] = event.version]
      /\ requests' = [r \in Requests |-> IF r \in Idle THEN NoRequest ELSE Marked(r)]
      /\ queue' = Tail(queue)
      /\ UNCHANGED <<server, stream, latest, mounted, requestError, live, interrupted>>
      /\ stream \in {"open", "lost"}
  BY DEF HandleSnapshot
<1>5. /\ Len(queue') = Len(queue) - 1 /\ Len(queue) \in Nat
      /\ \A i \in 1 .. Len(queue') : queue'[i] = queue[i + 1] /\ i + 1 \in 1 .. Len(queue)
  BY <1>1, <1>4
<1> HIDE DEF event
<1>6. /\ shown'[event.server] = event.version
      /\ \A s \in Servers : s # event.server => shown'[s] = shown[s]
  BY <1>1, <1>3, <1>4 DEF Statuses
<1>7. \A r \in Requests :
        \/ r \in Idle /\ requests'[r] = NoRequest
        \/ /\ r \notin Idle
           /\ requests'[r].phase = requests[r].phase
           /\ requests'[r].answer = requests[r].answer
           /\ requests'[r].listed = requests[r].listed
           /\ requests'[r].newer = requests[r].newer \cup {event.server}
  <2>1. SUFFICES ASSUME NEW r \in Requests, r \notin Idle
                 PROVE  /\ requests'[r].phase = requests[r].phase
                        /\ requests'[r].answer = requests[r].answer
                        /\ requests'[r].listed = requests[r].listed
                        /\ requests'[r].newer = requests[r].newer \cup {event.server}
    BY <1>4
  <2>2. requests'[r] = Marked(r)
    BY <1>4, <2>1
  <2>3. requests[r] \in RequestStates
    BY <1>1
  <2> QED
    BY <2>2, <2>3 DEF RequestStates
<1>8. \A s \in Servers : /\ Queued(s)' => Queued(s)
                         /\ s # event.server /\ Queued(s) => Queued(s)'
  <2>1. ASSUME NEW s \in Servers, Queued(s)' PROVE Queued(s)
    BY <1>5, <2>1 DEF Queued
  <2>2. ASSUME NEW s \in Servers, s # event.server, Queued(s) PROVE Queued(s)'
    <3>1. PICK i \in 1 .. Len(queue) : queue[i].server = s
      BY <2>2 DEF Queued
    <3>2. i # 1
      BY <1>2, <2>2, <3>1
    <3>3. i - 1 \in 1 .. Len(queue') /\ queue'[i - 1] = queue[i]
      BY <1>5, <3>1, <3>2
    <3> QED
      BY <3>1, <3>3 DEF Queued
  <2> QED
    BY <2>1, <2>2
<1>9. Unborn'
  <2>1. SUFFICES ASSUME NEW s \in Servers, s \notin registered, version[s] = 0
                 PROVE  /\ shown'[s] = Nil /\ ~Queued(s)'
                        /\ \A r \in Requests : /\ requests'[r].answer[s] = Nil
                                               /\ s \notin requests'[r].listed
                                               /\ s \notin requests'[r].newer
    BY <1>4 DEF Unborn
  <2>2. /\ shown[s] = Nil /\ ~Queued(s)
        /\ \A r \in Requests : /\ requests[r].answer[s] = Nil
                               /\ s \notin requests[r].listed
                               /\ s \notin requests[r].newer
    BY <2>1 DEF QuietInv, Unborn
  <2>3. s # event.server
    BY <1>3, <2>2
  <2>4. NoRequest.listed = {}
    BY DEF NoRequest
  <2> QED
    BY <1>6, <1>7, <1>8, <2>2, <2>3, <2>4, FreshRequests
<1>10. LastQueued'
  <2>1. SUFFICES
          ASSUME stream = "open",
                 NEW i \in 1 .. Len(queue'), queue'[i].server \in registered,
                 \A j \in i + 1 .. Len(queue') : queue'[j].server # queue'[i].server
          PROVE  queue'[i].version = version[queue'[i].server]
    BY <1>4 DEF LastQueued
  <2>2. i + 1 \in 1 .. Len(queue) /\ queue'[i] = queue[i + 1]
    BY <1>5
  <2>3. \A j \in (i + 1) + 1 .. Len(queue) :
          queue[j].server # queue[i + 1].server
    <3>1. SUFFICES ASSUME NEW j \in (i + 1) + 1 .. Len(queue)
                   PROVE  queue[j].server # queue[i + 1].server
      OBVIOUS
    <3>2. /\ j - 1 \in i + 1 .. Len(queue') /\ j - 1 \in 1 .. Len(queue')
          /\ queue'[j - 1] = queue[j]
      BY <1>5
    <3> QED
      BY <2>1, <2>2, <3>2
  <2> QED
    BY <2>1, <2>2, <2>3 DEF QuietInv, LastQueued
<1>11. UpToDate'
  <2>1. SUFFICES ASSUME mounted, interrupted, stream = "open",
                        NEW s \in registered, ~Queued(s)'
                 PROVE  UpToDateFor(s)'
    BY <1>4 DEF UpToDate
  <2>2. latest \in Requests /\ s \in Servers
    BY <1>1, <2>1 DEF QuietInv, Asked
  <2>3. Active(latest)' <=> latest \notin Idle
    BY <1>4, <1>7, <2>2, FreshRequests DEF Active, Idle
  <2>4. CASE s = event.server
    <3>1. \A j \in 1 + 1 .. Len(queue) : queue[j].server # queue[1].server
      <4>1. SUFFICES ASSUME NEW j \in 1 + 1 .. Len(queue)
                     PROVE  queue[j].server # s
        BY <1>2, <2>4
      <4>2. j - 1 \in 1 .. Len(queue') /\ queue'[j - 1] = queue[j]
        BY <1>5
      <4> QED
        BY <2>1, <4>2 DEF Queued
    <3>2. shown'[s] = version[s]
      BY <1>2, <1>6, <2>1, <2>4, <3>1 DEF QuietInv, LastQueued
    <3>3. latest \notin Idle => s \in requests'[latest].newer
      BY <1>7, <2>2, <2>4
    <3> QED
      BY <1>4, <2>3, <3>2, <3>3 DEF UpToDateFor
  <2>5. CASE s # event.server
    <3>1. UpToDateFor(s)
      BY <1>8, <2>1, <2>2, <2>5 DEF QuietInv, UpToDate
    <3>2. Active(latest) <=> latest \notin Idle
      BY <2>2 DEF Active, Idle
    <3>3. latest \notin Idle =>
            /\ s \in requests'[latest].newer <=> s \in requests[latest].newer
            /\ requests'[latest].answer = requests[latest].answer
      BY <1>7, <2>2, <2>5
    <3> QED
      BY <1>4, <1>6, <2>2, <2>3, <2>5, <3>1, <3>2, <3>3 DEF UpToDateFor
  <2> QED
    BY <2>4, <2>5
<1>12. Refetched' /\ Asked'
  BY <1>4 DEF QuietInv, Refetched, Asked
<1> QED
  BY <1>9, <1>10, <1>11, <1>12 DEF QuietInv

LEMMA BlankIsQuiet ==
    ASSUME Blank, stream' \in {"connecting", "closed"},
           mounted' => latest' \in Requests,
           \A r \in Requests, s \in Servers :
             s \notin registered' /\ version'[s] = 0 =>
               /\ requests'[r].answer[s] = Nil
               /\ s \notin requests'[r].listed /\ s \notin requests'[r].newer
    PROVE  QuietInv'
<1>1. /\ \A s \in Servers : shown'[s] = Nil
      /\ interrupted' = FALSE /\ queue' = <<>> /\ Len(queue') = 0
  BY DEF Blank
<1>2. Unborn'
  BY <1>1 DEF Unborn, Queued
<1> QED
  BY <1>1, <1>2 DEF QuietInv, LastQueued, Refetched, Asked, UpToDate

LEMMA MountStaysQuiet ==
    ASSUME IInv, QuietInv, Mount PROVE QuietInv'
<1>1. /\ latest' \in Requests
      /\ \A q \in Requests : requests'[q] = requests[q] \/ requests'[q] = NewRequest
  BY BeginIsQuiet DEF Mount
<1>2. NewRequest.listed = {}
  BY DEF NewRequest, NoRequest
<1>3. \A r \in Requests, s \in Servers :
        s \notin registered' /\ version'[s] = 0 =>
          /\ requests'[r].answer[s] = Nil
          /\ s \notin requests'[r].listed /\ s \notin requests'[r].newer
  BY <1>1, <1>2, FreshRequests DEF QuietInv, Unborn, Mount
<1> QED
  BY <1>1, <1>3, BlankIsQuiet DEF Mount

LEMMA UnmountStaysQuiet ==
    ASSUME IInv, QuietInv, Unmount PROVE QuietInv'
<1>1. /\ requests' = [r \in Requests |-> NoRequest] /\ mounted' = FALSE
      /\ Blank /\ stream' = "closed"
  BY DEF Unmount
<1>2. NoRequest.listed = {}
  BY DEF NoRequest
<1> QED
  BY <1>1, <1>2, FreshRequests, BlankIsQuiet

LEMMA QuietInvariant ==
    Spec => []QuietInv
<1>1. Init => QuietInv
  <2>1. SUFFICES ASSUME Init PROVE QuietInv
    OBVIOUS
  <2>2. /\ \A s \in Servers : shown[s] = Nil
        /\ \A r \in Requests : requests[r] = NoRequest
        /\ Len(queue) = 0 /\ queue = <<>> /\ stream = "closed"
        /\ interrupted = FALSE /\ mounted = FALSE
    BY <2>1 DEF Init
  <2>3. NoRequest.listed = {}
    BY DEF NoRequest
  <2>4. Unborn
    BY <2>2, <2>3, FreshRequests DEF Unborn, Queued
  <2> QED
    BY <2>2, <2>4 DEF QuietInv, LastQueued, Refetched, Asked, UpToDate
<1>2. ASSUME IInv, QuietInv, Next PROVE QuietInv'
  <2>1. ASSUME NEW s \in Servers, Publish(s) \/ Create(s) \/ Delete(s) PROVE QuietInv'
    BY <1>2, <2>1, PublishStaysQuiet, CreateStaysQuiet, DeleteStaysQuiet
  <2>2. CASE Restart \/ Lose
    BY <1>2, <2>2, RestartStaysQuiet
  <2>3. ASSUME NEW r \in Requests, ListRows(r) \/ Arrive(r) \/ Fail(r) PROVE QuietInv'
    BY <1>2, <2>3, ListRowsStaysQuiet, ArriveStaysQuiet, FailStaysQuiet
  <2>4. ASSUME NEW r \in Requests, NEW s \in Servers, ReadSnapshot(r, s) PROVE QuietInv'
    BY <1>2, <2>4, ReadSnapshotStaysQuiet
  <2>5. CASE Subscribe \/ Open \/ Error \/ HandleSnapshot
    BY <1>2, <2>5, SubscribeStaysQuiet, OpenStaysQuiet, ErrorStaysQuiet,
       HandleSnapshotStaysQuiet
  <2>6. CASE Retry \/ Mount \/ Unmount
    BY <1>2, <2>6, RetryStaysQuiet, MountStaysQuiet, UnmountStaysQuiet
  <2> QED
    BY <1>2, <2>1, <2>2, <2>3, <2>4, <2>5, <2>6 DEF Next, Backend, Answering
<1>3. ASSUME QuietInv, UNCHANGED vars PROVE QuietInv'
  BY <1>3 DEF vars, QuietInv, Unborn, Queued, LastQueued, Refetched, Asked,
              UpToDate, UpToDateFor, Active
<1> QED
  BY <1>1, <1>2, <1>3, Invariant, PTL DEF Spec

\* Once the stream has failed and reopened, what a quiet page shows is current:
\* the request of the reopening and the events published since then leave no
\* change of any server untold, however many requests overlap and whatever was
\* lost before (useServerSnapshots.ts:63-95, 144-196).
THEOREM QuietIsCurrentHolds == Spec => []QuietIsCurrent
<1>1. IInv /\ QuietInv => QuietIsCurrent
  <2>1. SUFFICES ASSUME IInv, QuietInv, mounted, interrupted, stream = "open",
                        queue = <<>>, ~requestError,
                        latest \in Requests => requests[latest].phase = "idle",
                        NEW s \in registered, shown[s] # Nil
                 PROVE  shown[s] = version[s]
    BY DEF QuietIsCurrent
  <2>2. ~Active(latest)
    BY <2>1 DEF QuietInv, Asked, Active
  <2>3. ~Queued(s)
    <3>1. Len(queue) = 0
      BY <2>1
    <3> QED
      BY <3>1 DEF Queued
  <2> QED
    BY <2>1, <2>2, <2>3 DEF QuietInv, UpToDate, UpToDateFor
<1> QED
  BY <1>1, Invariant, QuietInvariant, PTL
===============================================================================
