----------------------------- MODULE WebSnapshots -----------------------------
(***************************************************************************)
(* The overview page's copy of the servers' statuses                       *)
(* (useServerSnapshots): answers of GET /api/servers/status and events of  *)
(* the stream /api/live, both of which may be late, lost or refused.       *)
(*                                                                         *)
(* A status is its place in the history of the server's statuses.  The     *)
(* backend is what the browser sees of module Live: a report or a sweep    *)
(* makes a new status and publishes it, a restart makes all statuses empty *)
(* and publishes nothing.  Names and the drop of events by a full channel  *)
(* are Live's subject.                                                     *)
(***************************************************************************)
EXTENDS Naturals, Sequences, FiniteSets

CONSTANTS
    Servers,
    Requests,        \* slots for status requests in flight
    MaxVersion,      \* bound: statuses of a server
    MaxTroubles,     \* bound: connection failures, restarts, clicks, visits
    Nil

ASSUME NilAssumption ==
    Nil \notin Nat /\ Nil \notin Requests /\ Nil \notin {"request", "connection"}
ASSUME BoundsAssumption == MaxVersion \in Nat /\ MaxTroubles \in Nat

VARIABLES
    registered,      \* the rows of the servers table
    version,         \* the current status of every server
    stream,          \* the connection of the EventSource
    queue,           \* events published to it and not yet dispatched
    requests, latest,
    mounted,
    shown,           \* snapshots, as a map by serverId
    loadStatus, requestError, error,
    liveConnected, connectionFailed, opened,
    heard,           \* history: the last event dispatched for each server
    interrupted,     \* history: the stream has failed since the page opened
    troubles

server == <<registered, version>>
connection == <<stream, queue>>
page == <<mounted, shown, loadStatus, requestError, error>>
live == <<liveConnected, connectionFailed, opened>>
history == <<heard, interrupted>>
vars == <<server, connection, requests, latest, page, live, history, troubles>>

NoRequest == [phase |-> "idle", listed |-> {}, newer |-> {},
              answer |-> [s \in Servers |-> Nil]]
NewRequest == [NoRequest EXCEPT !.phase = "sent"]
Idle == {r \in Requests : requests[r].phase = "idle"}
Spend == troubles < MaxTroubles /\ troubles' = troubles + 1

Blank ==
    /\ shown' = [s \in Servers |-> Nil]
    /\ loadStatus' = "pending" /\ requestError' = FALSE /\ error' = Nil
    /\ liveConnected' = FALSE /\ connectionFailed' = FALSE /\ opened' = FALSE
    /\ heard' = [s \in Servers |-> Nil] /\ interrupted' = FALSE
    /\ queue' = <<>>

Init ==
    /\ registered \in SUBSET Servers
    /\ version = [s \in Servers |-> 0]
    /\ stream = "closed" /\ queue = <<>>
    /\ requests = [r \in Requests |-> NoRequest] /\ latest = Nil
    /\ mounted = FALSE
    /\ shown = [s \in Servers |-> Nil]
    /\ loadStatus = "pending" /\ requestError = FALSE /\ error = Nil
    /\ liveConnected = FALSE /\ connectionFailed = FALSE /\ opened = FALSE
    /\ heard = [s \in Servers |-> Nil] /\ interrupted = FALSE
    /\ troubles = 0

(***************************************************************************)
(* The backend.                                                            *)
(***************************************************************************)
NewStatus(S) ==
    /\ \A s \in S : version[s] < MaxVersion
    /\ version' = [s \in Servers |-> IF s \in S THEN version[s] + 1
                                               ELSE version[s]]

\* Accept and Sweep: the status is published to the streams subscribed.
Publish(s) ==
    /\ s \in registered
    /\ NewStatus({s})
    /\ queue' = IF stream \in {"subscribed", "open"}
                THEN Append(queue, [server |-> s, version |-> version[s] + 1])
                ELSE queue
    /\ UNCHANGED <<registered, stream, requests, latest, page, live, history,
                   troubles>>

Create(s) ==
    /\ s \notin registered /\ version[s] = 0
    /\ registered' = registered \cup {s}
    /\ NewStatus({s})
    /\ UNCHANGED <<connection, requests, latest, page, live, history, troubles>>

\* Nothing is published; events already queued stay queued.
Delete(s) ==
    /\ s \in registered
    /\ registered' = registered \ {s}
    /\ NewStatus({s})
    /\ UNCHANGED <<connection, requests, latest, page, live, history, troubles>>

\* The store is empty again; the browser learns of it from its connections.
Restart ==
    /\ Spend /\ NewStatus(registered)
    /\ stream' = IF stream \in {"subscribed", "open"} THEN "lost" ELSE stream
    /\ UNCHANGED <<registered, queue, requests, latest, page, live, history>>

\* ListStatus reads the rows first and every snapshot later.
ListRows(r) ==
    /\ requests[r].phase = "sent"
    /\ requests' = [requests EXCEPT ![r].phase = "listed",
                                    ![r].listed = registered]
    /\ UNCHANGED <<server, connection, latest, page, live, history, troubles>>

ReadSnapshot(r, s) ==
    /\ requests[r].phase = "listed"
    /\ s \in requests[r].listed /\ requests[r].answer[s] = Nil
    /\ requests' = [requests EXCEPT ![r].answer[s] = version[s]]
    /\ UNCHANGED <<server, connection, latest, page, live, history, troubles>>

(***************************************************************************)
(* Requests of the page.  A request remembers the servers that had an      *)
(* event since it was started (newer), which is what the revisions of the  *)
(* code tell; it is aside when a later one was started.                    *)
(***************************************************************************)
BeginRefresh ==
    \E r \in Idle :
      /\ requests' = [requests EXCEPT ![r] = NewRequest]
      /\ latest' = r

Current(r) == mounted /\ latest = r

\* Variant: the answer replaces what is shown.
replaceFetch(answer, newer) == answer

\* For every server the answer or, where an event is newer, what is shown.
reconcileFetch(answer, newer) ==
    [s \in Servers |->
       IF s \in newer /\ shown[s] # Nil THEN shown[s] ELSE answer[s]]

Arrive(r) ==
    /\ requests[r].phase = "listed"
    /\ \A s \in requests[r].listed : requests[r].answer[s] # Nil
    /\ requests' = [requests EXCEPT ![r] = NoRequest]
    /\ \/ /\ Current(r)
          /\ loadStatus' = "success"
          /\ shown' = reconcileFetch(requests[r].answer, requests[r].newer)
          /\ requestError' = FALSE
          /\ error' = IF error = "connection" THEN error ELSE Nil
       \/ ~Current(r) /\ UNCHANGED <<loadStatus, shown, requestError, error>>
    /\ UNCHANGED <<server, connection, latest, mounted, live, history, troubles>>

\* Variant: a failure is told and the load remains pending.
FailQuietly(r) ==
    /\ requests[r].phase # "idle"
    /\ requests' = [requests EXCEPT ![r] = NoRequest]
    /\ IF Current(r) THEN requestError' = TRUE /\ error' = "request"
                     ELSE UNCHANGED <<requestError, error>>
    /\ UNCHANGED <<server, connection, latest, mounted, shown, loadStatus, live,
                   history, troubles>>

Fail(r) ==
    /\ requests[r].phase # "idle"
    /\ requests' = [requests EXCEPT ![r] = NoRequest]
    /\ \/ /\ Current(r)
          /\ loadStatus' = IF loadStatus = "success" THEN "success" ELSE "error"
          /\ requestError' = TRUE /\ error' = "request"
       \/ ~Current(r) /\ UNCHANGED <<loadStatus, requestError, error>>
    /\ UNCHANGED <<server, connection, latest, mounted, shown, live, history,
                   troubles>>

(***************************************************************************)
(* The stream.  EventSource reconnects by itself after a broken connection *)
(* and gives up when the answer is no event stream (a session that ended). *)
(***************************************************************************)
Subscribe ==
    /\ stream = "connecting" /\ stream' = "subscribed"
    /\ UNCHANGED <<server, queue, requests, latest, page, live, history, troubles>>

\* Variant: the stream that reopens fetches only if it had been open before.
OpenWithoutFetch ==
    /\ stream = "subscribed" /\ stream' = "open"
    /\ liveConnected' = TRUE /\ connectionFailed' = FALSE /\ opened' = TRUE
    /\ error' = IF error = "connection" THEN Nil ELSE error
    /\ IF opened THEN BeginRefresh ELSE UNCHANGED <<requests, latest>>
    /\ UNCHANGED <<server, queue, mounted, shown, loadStatus, requestError,
                   history, troubles>>

\* Variant: opening clears every message.
OpenClearsError ==
    /\ stream = "subscribed" /\ stream' = "open"
    /\ liveConnected' = TRUE /\ connectionFailed' = FALSE /\ opened' = TRUE
    /\ error' = Nil
    /\ IF opened \/ connectionFailed THEN BeginRefresh
                                     ELSE UNCHANGED <<requests, latest>>
    /\ UNCHANGED <<server, queue, mounted, shown, loadStatus, requestError,
                   history, troubles>>

\* source.onopen; it fetches again after any earlier opening or failure.
Open ==
    /\ stream = "subscribed" /\ stream' = "open"
    /\ liveConnected' = TRUE /\ connectionFailed' = FALSE /\ opened' = TRUE
    /\ error' = IF error = "connection" THEN Nil ELSE error
    /\ IF opened \/ connectionFailed THEN BeginRefresh
                                     ELSE UNCHANGED <<requests, latest>>
    /\ UNCHANGED <<server, queue, mounted, shown, loadStatus, requestError,
                   history, troubles>>

\* The connection dies and nothing tells the browser for a while.
Lose ==
    /\ Spend
    /\ stream \in {"subscribed", "open"} /\ stream' = "lost"
    /\ UNCHANGED <<server, queue, requests, latest, page, live, history>>

\* source.onerror, with the state EventSource is left in.
Error ==
    /\ stream \in {"connecting", "subscribed", "open", "lost"}
    /\ stream = "lost" \/ troubles < MaxTroubles
    /\ troubles' = IF stream = "lost" THEN troubles ELSE troubles + 1
    /\ stream' \in {"connecting", "closed"}
    /\ queue' = <<>>
    /\ liveConnected' = FALSE /\ connectionFailed' = TRUE
    /\ error' = "connection"
    /\ interrupted' = TRUE
    /\ UNCHANGED <<server, requests, latest, mounted, shown, loadStatus,
                   requestError, opened, heard>>

\* handleSnapshot and mergeSnapshot: the first event of the queue.
HandleSnapshot ==
    /\ stream \in {"open", "lost"} /\ queue # <<>>
    /\ LET event == Head(queue) IN
         /\ shown' = [shown EXCEPT ![event.server] = event.version]
         /\ heard' = [heard EXCEPT ![event.server] = event.version]
         /\ requests' = [r \in Requests |->
              IF r \in Idle THEN NoRequest
              ELSE [requests[r] EXCEPT !.newer = @ \cup {event.server}]]
    /\ queue' = Tail(queue)
    /\ UNCHANGED <<server, stream, latest, mounted, loadStatus, requestError,
                   error, live, interrupted, troubles>>

(***************************************************************************)
(* The page.                                                               *)
(***************************************************************************)
Nothing == \A s \in Servers : shown[s] = Nil
InitialLoading == Nothing /\ loadStatus = "pending"
InitialError == Nothing /\ loadStatus = "error"
CurrentErrorNotice ==
    /\ connectionFailed \/ requestError
    /\ ~Nothing \/ loadStatus = "success"

\* The buttons of the notice and of the page that could not be loaded.
Retry ==
    /\ mounted /\ (InitialError \/ CurrentErrorNotice)
    /\ Spend
    /\ BeginRefresh
    /\ UNCHANGED <<server, connection, page, live, history>>

\* The effect of mounting: a first fetch and a new EventSource.
Mount ==
    /\ ~mounted /\ mounted' = TRUE
    /\ Blank /\ BeginRefresh
    /\ stream' = "connecting"
    /\ UNCHANGED <<server, troubles>>

\* Its clean-up: the stream is closed and what is in flight is aborted.
Unmount ==
    /\ mounted /\ mounted' = FALSE
    /\ Spend /\ Blank
    /\ stream' = "closed"
    /\ requests' = [r \in Requests |-> NoRequest] /\ latest' = Nil
    /\ UNCHANGED server

Backend ==
    \/ \E s \in Servers : Publish(s) \/ Create(s) \/ Delete(s)
    \/ Restart
Answering == \E r \in Requests : ListRows(r) \/ \E s \in Servers : ReadSnapshot(r, s)
Next ==
    \/ Backend \/ Answering
    \/ \E r \in Requests : Arrive(r) \/ Fail(r)
    \/ Subscribe \/ Open \/ Lose \/ Error \/ HandleSnapshot
    \/ Retry \/ Mount \/ Unmount

Spec == Init /\ [][Next]_vars

\* Every request is answered or fails, a connection that can be opened is, and
\* the event loop dispatches.
Fairness ==
    /\ \A r \in Requests :
         /\ WF_vars(ListRows(r)) /\ WF_vars(Arrive(r))
         /\ WF_vars(\E s \in Servers : ReadSnapshot(r, s))
    /\ WF_vars(Subscribe) /\ WF_vars(Open) /\ WF_vars(HandleSnapshot)
FairSpec == Spec /\ Fairness

(***************************************************************************)
(* Properties.                                                             *)
(***************************************************************************)
\* The variables keep their types.
Events == [server : Servers, version : Nat]
Statuses == [Servers -> Nat \cup {Nil}]
RequestStates == [phase : {"idle", "sent", "listed"}, listed : SUBSET Servers,
                  newer : SUBSET Servers, answer : Statuses]
TypeOK ==
    /\ registered \subseteq Servers /\ version \in [Servers -> Nat]
    /\ stream \in {"closed", "connecting", "subscribed", "open", "lost"}
    /\ queue \in Seq(Events)
    /\ requests \in [Requests -> RequestStates]
    /\ latest \in Requests \cup {Nil}
    /\ shown \in Statuses /\ heard \in Statuses
    /\ loadStatus \in {"pending", "success", "error"}
    /\ error \in {Nil, "request", "connection"}
    /\ mounted \in BOOLEAN /\ requestError \in BOOLEAN
    /\ liveConnected \in BOOLEAN /\ connectionFailed \in BOOLEAN
    /\ opened \in BOOLEAN /\ interrupted \in BOOLEAN

\* An answer never takes the page back behind an event it has already shown,
\* whichever of several requests it belongs to (useServerSnapshots.ts:48).
NeverBehindEvents ==
    \A s \in Servers :
      shown[s] # Nil /\ heard[s] # Nil => shown[s] >= heard[s]

\* After the stream has failed and reopened, a page that says it is connected
\* and reports no error shows the current status of every server it shows, as
\* soon as nothing is under way (useServerSnapshots.ts:180).
QuietIsCurrent ==
    /\ mounted /\ interrupted
    /\ stream = "open" /\ queue = <<>>
    /\ latest \in Requests => requests[latest].phase = "idle"
    /\ ~requestError
    => \A s \in registered : shown[s] # Nil => shown[s] = version[s]

\* The page that could not be loaded says why, unless it is trying again: the
\* stream's handlers overwrite and clear the same text (useServerSnapshots.ts:148,
\* 179, 193).
FailureExplained ==
    mounted /\ InitialError
      => error # Nil \/ (latest \in Requests /\ requests[latest].phase # "idle")

\* The first load comes to an end, whatever the stream does meanwhile.
LoadSettles == (mounted /\ InitialLoading) ~> ~(mounted /\ InitialLoading)
===============================================================================
