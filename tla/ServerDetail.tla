------------------------------ MODULE ServerDetail ------------------------------
(***************************************************************************)
(* The page of one server in the browser: ServerDetailPage, which loads    *)
(* the server's status once, and useHistory, which shows the history of    *)
(* the range that is selected, from a cache that outlives the page or from *)
(* a request.                                                              *)
(*                                                                         *)
(* A render comes before the effect that belongs to it: between the two,   *)
(* useHistory still has the state and the request of the key before.       *)
(* The clock of the browser may be set back.                               *)
(***************************************************************************)
EXTENDS Integers, FiniteSets

CONSTANTS
    Servers, Ranges,
    Requests,        \* slots for requests in flight
    TTL,             \* CACHE_TTL_MS, in ticks
    MaxClock,        \* bound on the clock
    MaxClicks,       \* bound: clicks of the user
    Nil

ASSUME DetailAssumption ==
    /\ TTL \in Nat \ {0} /\ MaxClock \in Nat /\ MaxClicks \in Nat
    /\ Nil \notin Servers \cup Ranges \cup (Servers \X Ranges)
    /\ Nil \notin [key : Servers \X Ranges, at : Int, points : BOOLEAN]

VARIABLES
    page,            \* the server whose page is mounted, or Nil
    range,           \* rangeSelection; Nil shows the live metrics
    status,          \* the page's snapshot, loading and error
    hook,            \* the state of useHistory
    effect,          \* the effect of useHistory has yet to run
    requests,
    historyCache,
    chunk,           \* the lazy module of the charts
    clock, clicks

detailVars == <<page, range, status, hook, effect, requests, historyCache, chunk,
                clock, clicks>>

Keys == Servers \X Ranges
Responses == [key : Keys, at : Int, points : BOOLEAN]
key == IF range = Nil THEN Nil ELSE <<page, range>>

NoRequest == [kind |-> "none", key |-> Nil, live |-> FALSE]
Idle == {q \in Requests : requests[q].kind = "none"}
Without(q) == [requests EXCEPT ![q] = NoRequest]

\* Requests that are aborted; their answers, if any, find the flag down.
Aborted(reqs, kind) ==
    [q \in Requests |-> IF reqs[q].kind = kind THEN [reqs[q] EXCEPT !.live = FALSE]
                                               ELSE reqs[q]]

Spend == clicks < MaxClicks /\ clicks' = clicks + 1

(***************************************************************************)
(* The cache.                                                              *)
(***************************************************************************)
\* Variant: an entry from the future is as good as any.
FreshInFuture(k) ==
    historyCache[k] # Nil /\ clock - historyCache[k].at < TTL

Fresh(k) ==
    historyCache[k] # Nil /\ clock - historyCache[k].at \in 0..TTL - 1

cachedHistory(k) == IF Fresh(k) THEN historyCache[k] ELSE Nil

\* Whoever looks at an entry that is no longer fresh deletes it.
Purged(k) == IF Fresh(k) THEN historyCache ELSE [historyCache EXCEPT ![k] = Nil]

(***************************************************************************)
(* What the page shows.                                                    *)
(***************************************************************************)
Quiet == [key |-> Nil, loading |-> FALSE, error |-> FALSE, data |-> Nil]
Loading(k) == [key |-> k, loading |-> TRUE, error |-> FALSE, data |-> Nil]
Loaded(k, data) == [key |-> k, loading |-> FALSE, error |-> FALSE, data |-> data]
Failed(k) == [key |-> k, loading |-> FALSE, error |-> TRUE, data |-> Nil]

\* Variant: the state is returned whatever key it belongs to.
historyOfAnyKey == IF range = Nil THEN Quiet ELSE hook

\* What useHistory returns.
history ==
    IF range = Nil THEN Quiet
    ELSE IF hook.key = key THEN hook
    ELSE IF Fresh(key) THEN Loaded(key, cachedHistory(key)) ELSE Loading(key)

StatusPanel ==
    IF status.snapshot THEN "snapshot"
    ELSE IF status.loading THEN "spinner"
    ELSE IF status.error THEN "error" ELSE "blank"

\* The lazy module keeps its failure until the document is loaded anew.
HistoryPanel ==
    IF range = Nil THEN "live"
    ELSE IF history.loading THEN "spinner"
    ELSE IF history.error THEN "error"
    ELSE IF history.data = Nil \/ ~history.data.points THEN "empty"
    ELSE CASE chunk = "absent" -> "preparing"
           [] chunk = "loaded" -> "charts"
           [] chunk = "failed" -> "chunk error"

(***************************************************************************)
(* Mounting, and the status of the server.                                 *)
(***************************************************************************)
StatusLoading == [snapshot |-> FALSE, loading |-> TRUE, error |-> FALSE]

\* A new instance of the page: no range is selected, the status is loaded.
MountDetail(s, reqs) ==
    /\ page' = s /\ range' = Nil /\ hook' = Quiet /\ effect' = FALSE
    /\ status' = StatusLoading
    /\ \E q \in {p \in Requests : reqs[p].kind = "none"} :
         requests' = [reqs EXCEPT ![q] =
                        [kind |-> "status", key |-> Nil, live |-> TRUE]]

UnmountDetail ==
    /\ page' = Nil /\ range' = Nil /\ hook' = Quiet /\ effect' = FALSE
    /\ status' = StatusLoading
    /\ requests' = Aborted(Aborted(requests, "status"), "history")

DetailInit ==
    /\ page = Nil /\ range = Nil /\ hook = Quiet /\ effect = FALSE
    /\ status = StatusLoading
    /\ requests = [q \in Requests |-> NoRequest]
    /\ historyCache = [k \in Keys |-> Nil]
    /\ chunk = "absent" /\ clock = 0 /\ clicks = 0

\* From another page, or from the page of another server by the history of the
\* browser.
OpenServer(s) ==
    /\ Spend /\ ~effect
    /\ page # s
    /\ MountDetail(s, Aborted(Aborted(requests, "status"), "history"))
    /\ UNCHANGED <<historyCache, chunk, clock>>

LeaveServer ==
    /\ Spend /\ ~effect
    /\ page # Nil /\ UnmountDetail
    /\ UNCHANGED <<historyCache, chunk, clock>>

StatusAnswers(q) ==
    /\ requests[q].kind = "status"
    /\ status' = IF requests[q].live
                 THEN [snapshot |-> TRUE, loading |-> FALSE, error |-> FALSE]
                 ELSE status
    /\ requests' = Without(q)
    /\ UNCHANGED <<page, range, hook, effect, historyCache, chunk, clock, clicks>>

StatusFails(q) ==
    /\ requests[q].kind = "status"
    /\ status' = IF requests[q].live
                 THEN [snapshot |-> FALSE, loading |-> FALSE, error |-> TRUE]
                 ELSE status
    /\ requests' = Without(q)
    /\ UNCHANGED <<page, range, hook, effect, historyCache, chunk, clock, clicks>>

\* The button of the page that could not load.
Reload ==
    /\ Spend
    /\ page # Nil /\ StatusPanel = "error"
    /\ status' = StatusLoading
    /\ \E q \in Idle :
         requests' = [requests EXCEPT ![q] =
                        [kind |-> "status", key |-> Nil, live |-> TRUE]]
    /\ UNCHANGED <<page, range, hook, effect, historyCache, chunk, clock>>

(***************************************************************************)
(* useHistory.  React runs what is left of an effect before it renders for *)
(* the next click.                                                         *)
(***************************************************************************)
Clickable == page # Nil /\ StatusPanel = "snapshot" /\ ~effect

\* RangeTabs; the render looks at the cache of the new key.
SelectRange(r) ==
    /\ Spend
    /\ Clickable /\ r # range
    /\ range' = r /\ effect' = TRUE
    /\ historyCache' = IF r = Nil THEN historyCache ELSE Purged(<<page, r>>)
    /\ UNCHANGED <<page, status, hook, requests, chunk, clock>>

retry ==
    /\ Spend
    /\ Clickable /\ HistoryPanel = "error"
    /\ historyCache' = [historyCache EXCEPT ![key] = Nil]
    /\ effect' = TRUE
    /\ UNCHANGED <<page, range, status, hook, requests, chunk, clock>>

\* The effect: the request of the key before is aborted by its cleanup.
RunEffect ==
    /\ effect /\ effect' = FALSE
    /\ LET before == Aborted(requests, "history") IN
       \/ /\ range = Nil /\ hook' = Quiet /\ requests' = before
          /\ UNCHANGED historyCache
       \/ /\ range # Nil /\ historyCache' = Purged(key)
          /\ \/ /\ Fresh(key) /\ hook' = Loaded(key, cachedHistory(key))
                /\ requests' = before
             \/ /\ ~Fresh(key) /\ hook' = Loading(key)
                /\ \E q \in Idle :
                     requests' = [before EXCEPT ![q] =
                                    [kind |-> "history", key |-> key, live |-> TRUE]]
    /\ UNCHANGED <<page, range, status, chunk, clock, clicks>>

\* Variant: an answer is taken whatever became of its request.
HistoryAnswersLate(q) ==
    /\ requests[q].kind = "history"
    /\ \E points \in BOOLEAN :
         LET k == requests[q].key
             data == [key |-> k, at |-> clock, points |-> points]
         IN /\ historyCache' = [historyCache EXCEPT ![k] = data]
            /\ hook' = Loaded(k, data)
    /\ requests' = Without(q)
    /\ UNCHANGED <<page, range, status, effect, chunk, clock, clicks>>

HistoryAnswers(q) ==
    /\ requests[q].kind = "history"
    /\ \E points \in BOOLEAN :
         LET k == requests[q].key
             data == [key |-> k, at |-> clock, points |-> points]
         IN IF requests[q].live
            THEN /\ historyCache' = [historyCache EXCEPT ![k] = data]
                 /\ hook' = Loaded(k, data)
            ELSE UNCHANGED <<historyCache, hook>>
    /\ requests' = Without(q)
    /\ UNCHANGED <<page, range, status, effect, chunk, clock, clicks>>

\* Variant: an answer that makes no sense is thrown away.
HistoryFailsQuietly(q) ==
    /\ requests[q].kind = "history"
    /\ requests' = Without(q)
    /\ UNCHANGED <<page, range, status, hook, effect, historyCache, chunk, clock,
                   clicks>>

\* The request fails, or isHistoryResponse refuses its answer.
HistoryFails(q) ==
    /\ requests[q].kind = "history"
    /\ hook' = IF requests[q].live THEN Failed(requests[q].key) ELSE hook
    /\ requests' = Without(q)
    /\ UNCHANGED <<page, range, status, effect, historyCache, chunk, clock, clicks>>

(***************************************************************************)
(* The charts are a chunk of their own, asked for when they are first      *)
(* rendered.                                                               *)
(***************************************************************************)
ShowsCharts == page # Nil /\ StatusPanel = "snapshot" /\ HistoryPanel = "preparing"

ChunkSettles ==
    /\ ShowsCharts
    /\ chunk' \in {"loaded", "failed"}
    /\ UNCHANGED <<page, range, status, hook, effect, requests, historyCache, clock,
                   clicks>>

\* The button of HistoricalChartErrorBoundary: the module's state is gone.
ReloadDocument ==
    /\ Spend
    /\ Clickable /\ HistoryPanel = "chunk error"
    /\ historyCache' = [k \in Keys |-> Nil] /\ chunk' = "absent"
    /\ MountDetail(page, [q \in Requests |-> NoRequest])
    /\ UNCHANGED clock

SetClock ==
    /\ clock' \in {clock - 1, clock + 1} \cap 0..MaxClock
    /\ UNCHANGED <<page, range, status, hook, effect, requests, historyCache, chunk,
                   clicks>>

DetailUser ==
    \/ \E s \in Servers : OpenServer(s)
    \/ LeaveServer \/ Reload \/ retry \/ ReloadDocument
    \/ \E r \in Ranges \cup {Nil} : SelectRange(r)
DetailAnswers(q) ==
    StatusAnswers(q) \/ StatusFails(q) \/ HistoryAnswers(q) \/ HistoryFails(q)
DetailNext ==
    \/ DetailUser \/ RunEffect \/ ChunkSettles \/ SetClock
    \/ \E q \in Requests : DetailAnswers(q)

\* React runs its effects, the browser ends every request and every import.
DetailFairness ==
    /\ WF_detailVars(RunEffect) /\ WF_detailVars(ChunkSettles)
    /\ \A q \in Requests : WF_detailVars(DetailAnswers(q))

DetailSpec == DetailInit /\ [][DetailNext]_detailVars
DetailFairSpec == DetailSpec /\ DetailFairness

(***************************************************************************)
(* Properties.                                                             *)
(***************************************************************************)
\* The variables keep their types.
HookStates == [key : Keys \cup {Nil}, loading : BOOLEAN, error : BOOLEAN,
               data : Responses \cup {Nil}]
DetailRequests == [kind : {"none", "status", "history"}, key : Keys \cup {Nil},
                   live : BOOLEAN]
DetailTypeOK ==
    /\ page \in Servers \cup {Nil} /\ range \in Ranges \cup {Nil}
    /\ page = Nil => range = Nil
    /\ status \in [snapshot : BOOLEAN, loading : BOOLEAN, error : BOOLEAN]
    /\ hook \in HookStates /\ effect \in BOOLEAN
    /\ requests \in [Requests -> DetailRequests]
    /\ historyCache \in [Keys -> Responses \cup {Nil}]
    /\ chunk \in {"absent", "loaded", "failed"}
    /\ clock \in Int /\ clicks \in Nat

\* The history on the page is the one of this server and this range, also while
\* the answer for another one is on its way or has just arrived
\* (useHistory.ts:134-212).
ShownBelongs == history.data # Nil => history.data.key = key

\* A page that says it is loading has asked for what it shows, or is about to:
\* no answer of an earlier key ends or revives the wait (useHistory.ts:155-185).
SpinnerHonest ==
    HistoryPanel = "spinner" =>
      \/ effect
      \/ \E q \in Requests : requests[q] = [kind |-> "history", key |-> key, live |-> TRUE]

\* What comes onto the page was asked for less than a minute before by the clock
\* of the browser, and never lies in its future (useHistory.ts:37-48).
ShownFresh ==
    [][history'.data # Nil /\ history'.data # history.data
         => clock' - history'.data.at \in 0..TTL - 1]_detailVars

\* Whatever is selected in whatever order, the page comes to show the state, a
\* chart, that there is nothing, or what went wrong.
Waiting ==
    page # Nil /\ (StatusPanel \in {"spinner", "blank"}
                   \/ HistoryPanel \in {"spinner", "preparing"})
WaitingEnds == Waiting ~> ~Waiting
================================================================================
