------------------------------ MODULE DetailProofs ------------------------------
(***************************************************************************)
(* The page of one server, for every set of servers, ranges and requests   *)
(* and every lifetime of the cache, and the lines of its charts, for a     *)
(* range and a budget of any size.                                         *)
(***************************************************************************)
EXTENDS ServerDetail, ChartSeries, FiniteSetTheorems, WellFoundedInduction,
        TLAPS

(***************************************************************************)
(* The inductive invariant.                                                *)
(***************************************************************************)
Awaits(q) == requests[q].kind = "history" /\ requests[q].live

\* What is kept under a key was answered for it, and a request has a key.
Labelled ==
    /\ hook.data # Nil => hook.data.key = hook.key
    /\ \A k \in Keys : historyCache[k] # Nil => historyCache[k].key = k
    /\ \A q \in Requests : requests[q].kind = "history" => requests[q].key \in Keys

\* Once the effect has run, the hook and its request have the key of the page;
\* until then both may be those of the key before.
InStep ==
    ~effect =>
      /\ range = Nil => hook = Quiet
      /\ range # Nil => hook.key = key
      /\ \A q \in Requests : Awaits(q) => range # Nil /\ requests[q].key = key
      /\ range # Nil /\ hook.loading => \E q \in Requests : Awaits(q)

IInv == DetailTypeOK /\ Labelled /\ InStep

LEMMA KeyType ==
    ASSUME DetailTypeOK, range # Nil PROVE key \in Keys /\ key = <<page, range>>
  BY DEF DetailTypeOK, Keys, key

LEMMA HookTypes ==
    /\ Quiet \in HookStates
    /\ \A k \in Keys :
         /\ Loading(k) \in HookStates /\ Failed(k) \in HookStates
         /\ \A data \in Responses : Loaded(k, data) \in HookStates
  BY DEF Quiet, Loading, Failed, Loaded, HookStates

LEMMA StatusTypes ==
    /\ StatusLoading \in [snapshot : BOOLEAN, loading : BOOLEAN, error : BOOLEAN]
    /\ [snapshot |-> TRUE, loading |-> FALSE, error |-> FALSE]
         \in [snapshot : BOOLEAN, loading : BOOLEAN, error : BOOLEAN]
    /\ [snapshot |-> FALSE, loading |-> FALSE, error |-> TRUE]
         \in [snapshot : BOOLEAN, loading : BOOLEAN, error : BOOLEAN]
  BY DEF StatusLoading

LEMMA RequestTypes ==
    /\ NoRequest \in DetailRequests
    /\ [kind |-> "status", key |-> Nil, live |-> TRUE] \in DetailRequests
    /\ \A k \in Keys : [kind |-> "history", key |-> k, live |-> TRUE] \in DetailRequests
  BY DEF NoRequest, DetailRequests

\* An abort takes the flag from the requests of its kind and changes nothing else.
LEMMA AbortedRequests ==
    ASSUME NEW reqs \in [Requests -> DetailRequests], NEW kind
    PROVE  /\ Aborted(reqs, kind) \in [Requests -> DetailRequests]
           /\ \A q \in Requests :
                /\ Aborted(reqs, kind)[q].kind = reqs[q].kind
                /\ Aborted(reqs, kind)[q].key = reqs[q].key
                /\ Aborted(reqs, kind)[q].live => reqs[q].live /\ reqs[q].kind # kind
<1>1. \A q \in Requests :
        [reqs[q] EXCEPT !.live = FALSE] \in DetailRequests
  BY DEF DetailRequests
<1> QED
  BY <1>1 DEF Aborted, DetailRequests

LEMMA WithoutRequest ==
    ASSUME DetailTypeOK, NEW q \in Requests
    PROVE  /\ Without(q) \in [Requests -> DetailRequests]
           /\ Without(q)[q] = NoRequest
           /\ \A p \in Requests \ {q} : Without(q)[p] = requests[p]
  BY RequestTypes DEF Without, DetailTypeOK

LEMMA PurgedCache ==
    ASSUME DetailTypeOK, Labelled, NEW k \in Keys
    PROVE  /\ Purged(k) \in [Keys -> Responses \cup {Nil}]
           /\ \A j \in Keys : Purged(k)[j] # Nil => Purged(k)[j] = historyCache[j]
<1>1. historyCache \in [Keys -> Responses \cup {Nil}]
  BY DEF DetailTypeOK
<1>2. Purged(k) \in {historyCache, [historyCache EXCEPT ![k] = Nil]}
  BY DEF Purged
<1> QED
  BY <1>1, <1>2

\* An entry that is fresh is an answer.
LEMMA FreshEntry ==
    ASSUME DetailTypeOK, NEW k \in Keys, Fresh(k)
    PROVE  cachedHistory(k) = historyCache[k] /\ historyCache[k] \in Responses
  BY DEF DetailTypeOK, Fresh, cachedHistory

LEMMA SpendTypes ==
    ASSUME DetailTypeOK, Spend PROVE clicks' \in Nat
<1>1. clicks \in Nat
  BY Zenon DEF DetailTypeOK
<1> QED
  BY <1>1 DEF Spend

LEMMA InitIInv ==
    ASSUME DetailInit PROVE IInv
<1>1. DetailTypeOK
  <2>1. StatusLoading \in [snapshot : BOOLEAN, loading : BOOLEAN, error : BOOLEAN]
    BY StatusTypes
  <2>2. /\ requests \in [Requests -> DetailRequests]
        /\ historyCache \in [Keys -> Responses \cup {Nil}]
    BY RequestTypes DEF DetailInit
  <2>3. clock \in Int /\ clicks \in Nat
    BY DEF DetailInit
  <2> QED
    BY <2>1, <2>2, <2>3, HookTypes, Zenon DEF DetailInit, DetailTypeOK
<1>2. Labelled
  BY DEF DetailInit, Labelled, Quiet, NoRequest
<1>3. InStep
  BY DEF DetailInit, InStep, Awaits, NoRequest
<1> QED
  BY <1>1, <1>2, <1>3 DEF IInv

(***************************************************************************)
(* Pages.                                                                  *)
(***************************************************************************)
\* A page without a range awaits no history.
LEMMA BlankKeeps ==
    ASSUME DetailTypeOK, page' \in Servers \cup {Nil}, range' = Nil, hook' = Quiet,
           effect' = FALSE, status' = StatusLoading,
           requests' \in [Requests -> DetailRequests],
           \A q \in Requests :
             ~Awaits(q)' /\ (requests'[q].kind = "history" => requests'[q].key \in Keys),
           historyCache' \in [Keys -> Responses \cup {Nil}],
           \A k \in Keys : historyCache'[k] # Nil => historyCache'[k].key = k,
           chunk' \in {"absent", "loaded", "failed"}, clicks' \in Nat, UNCHANGED clock
    PROVE  IInv'
<1>1. DetailTypeOK'
  BY HookTypes DEF DetailTypeOK, StatusLoading
<1>2. Labelled'
  BY DEF Labelled, Quiet
<1>3. InStep'
  BY DEF InStep
<1> QED
  BY <1>1, <1>2, <1>3 DEF IInv

LEMMA MountKeeps ==
    ASSUME IInv,
           (\E s \in Servers : OpenServer(s)) \/ LeaveServer \/ ReloadDocument
    PROVE  IInv'
<1>1. DetailTypeOK /\ Labelled /\ requests \in [Requests -> DetailRequests]
  BY DEF IInv, DetailTypeOK
<1>2. clicks' \in Nat /\ UNCHANGED clock
  <2>1. Spend /\ UNCHANGED clock
    BY Zenon DEF OpenServer, LeaveServer, ReloadDocument
  <2> QED
    BY <1>1, <2>1, SpendTypes
<1> DEFINE silent == Aborted(Aborted(requests, "status"), "history")
<1>3. /\ silent \in [Requests -> DetailRequests]
      /\ \A q \in Requests :
           silent[q].kind = "history" => ~silent[q].live /\ silent[q].key \in Keys
  <2> DEFINE first == Aborted(requests, "status")
  <2>1. /\ first \in [Requests -> DetailRequests]
        /\ \A q \in Requests :
             first[q].kind = requests[q].kind /\ first[q].key = requests[q].key
    BY <1>1, AbortedRequests
  <2> HIDE DEF first
  <2>2. /\ Aborted(first, "history") \in [Requests -> DetailRequests]
        /\ \A q \in Requests :
             /\ Aborted(first, "history")[q].kind = first[q].kind
             /\ Aborted(first, "history")[q].key = first[q].key
             /\ Aborted(first, "history")[q].live => first[q].kind # "history"
    BY <2>1, AbortedRequests
  <2> QED
    BY <1>1, <2>1, <2>2 DEF first, Labelled
<1>4. ASSUME NEW s \in Servers, NEW reqs \in [Requests -> DetailRequests],
             \A q \in Requests :
               reqs[q].kind = "history" => ~reqs[q].live /\ reqs[q].key \in Keys,
             MountDetail(s, reqs)
      PROVE  /\ page' \in Servers \cup {Nil} /\ range' = Nil /\ hook' = Quiet
             /\ effect' = FALSE /\ status' = StatusLoading
             /\ requests' \in [Requests -> DetailRequests]
             /\ \A q \in Requests :
                  ~Awaits(q)' /\ (requests'[q].kind = "history" => requests'[q].key \in Keys)
  <2>1. PICK q \in Requests :
          requests' = [reqs EXCEPT ![q] = [kind |-> "status", key |-> Nil, live |-> TRUE]]
    BY <1>4 DEF MountDetail
  <2>2. requests' \in [Requests -> DetailRequests]
    BY <2>1, RequestTypes
  <2>3. \A p \in Requests : requests'[p] = reqs[p] \/ requests'[p].kind = "status"
    BY <2>1
  <2> QED
    BY <1>4, <2>2, <2>3 DEF MountDetail, Awaits
<1>5. ASSUME NEW s \in Servers, OpenServer(s) PROVE IInv'
  <2>1. MountDetail(s, silent) /\ UNCHANGED <<historyCache, chunk>>
    BY <1>5 DEF OpenServer
  <2>2. /\ historyCache \in [Keys -> Responses \cup {Nil}]
        /\ \A k \in Keys : historyCache[k] # Nil => historyCache[k].key = k
        /\ chunk \in {"absent", "loaded", "failed"}
    BY <1>1 DEF DetailTypeOK, Labelled
  <2> HIDE DEF silent
  <2> QED
    BY <1>1, <1>2, <1>3, <1>4, <2>1, <2>2, BlankKeeps
<1>6. CASE LeaveServer
  BY <1>1, <1>2, <1>3, <1>6, BlankKeeps
  DEF LeaveServer, UnmountDetail, DetailTypeOK, Labelled, Awaits
<1>7. CASE ReloadDocument
  <2>1. page \in Servers /\ MountDetail(page, [q \in Requests |-> NoRequest])
    BY <1>1, <1>7 DEF ReloadDocument, Clickable, DetailTypeOK
  <2>2. [q \in Requests |-> NoRequest] \in [Requests -> DetailRequests]
        /\ \A q \in Requests : [p \in Requests |-> NoRequest][q].kind # "history"
    BY RequestTypes DEF NoRequest
  <2>3. /\ chunk' = "absent" /\ historyCache' = [k \in Keys |-> Nil]
    BY <1>7 DEF ReloadDocument
  <2> QED
    <3> DEFINE none == [q \in Requests |-> NoRequest]
    <3>1. none \in [Requests -> DetailRequests] /\ MountDetail(page, none)
          /\ \A q \in Requests : none[q].kind # "history"
      BY <2>1, <2>2
    <3>2. /\ historyCache' \in [Keys -> Responses \cup {Nil}]
          /\ \A k \in Keys : historyCache'[k] # Nil => historyCache'[k].key = k
          /\ chunk' \in {"absent", "loaded", "failed"}
      BY <2>3
    <3> HIDE DEF none
    <3> QED
      BY <1>1, <1>2, <1>4, <2>1, <3>1, <3>2, BlankKeeps
<1> QED
  BY <1>5, <1>6, <1>7

(***************************************************************************)
(* The status of the server, the charts and the clock leave the history    *)
(* alone.                                                                  *)
(***************************************************************************)
LEMMA HistoryRests ==
    ASSUME IInv, UNCHANGED <<page, range, hook, effect, historyCache>>,
           DetailTypeOK',
           \A q \in Requests :
             \/ requests'[q] = requests[q]
             \/ requests[q].kind # "history" /\ requests'[q].kind # "history"
    PROVE  IInv'
<1>1. \A q \in Requests : /\ Awaits(q)' <=> Awaits(q)
                          /\ Awaits(q)' => requests'[q] = requests[q]
  BY DEF Awaits
<1>2. InStep'
  BY <1>1 DEF IInv, InStep, key
<1> QED
  BY <1>2 DEF IInv, Labelled

LEMMA OthersKeep ==
    ASSUME IInv,
           \/ \E q \in Requests : StatusAnswers(q) \/ StatusFails(q)
           \/ Reload \/ ChunkSettles \/ SetClock
    PROVE  IInv'
<1>1. DetailTypeOK
  BY DEF IInv
<1>2. ASSUME NEW q \in Requests, StatusAnswers(q) \/ StatusFails(q) PROVE IInv'
  <2>1. /\ requests' = Without(q) /\ requests[q].kind = "status"
        /\ UNCHANGED <<page, range, hook, effect, historyCache, chunk, clock, clicks>>
    BY <1>2 DEF StatusAnswers, StatusFails
  <2>4. status' \in [snapshot : BOOLEAN, loading : BOOLEAN, error : BOOLEAN]
    <3>1. status \in [snapshot : BOOLEAN, loading : BOOLEAN, error : BOOLEAN]
      BY <1>1, Zenon DEF DetailTypeOK
    <3>2. \/ UNCHANGED status
          \/ status' = [snapshot |-> TRUE, loading |-> FALSE, error |-> FALSE]
          \/ status' = [snapshot |-> FALSE, loading |-> FALSE, error |-> TRUE]
      BY <1>2, Zenon DEF StatusAnswers, StatusFails
    <3>3. CASE UNCHANGED status
      BY <3>1, <3>3
    <3>4. CASE ~UNCHANGED status
      BY <3>2, <3>4, StatusTypes
    <3> QED
      BY <3>3, <3>4
  <2>2. DetailTypeOK'
    BY <1>1, <2>1, <2>4, WithoutRequest DEF DetailTypeOK
  <2>3. \A p \in Requests :
          \/ requests'[p] = requests[p]
          \/ requests[p].kind # "history" /\ requests'[p].kind # "history"
    BY <1>1, <2>1, WithoutRequest DEF NoRequest
  <2> QED
    BY <2>1, <2>2, <2>3, HistoryRests
<1>3. CASE Reload
  <2>1. PICK q \in Requests :
          /\ requests[q].kind = "none"
          /\ requests' = [requests EXCEPT ![q] =
                            [kind |-> "status", key |-> Nil, live |-> TRUE]]
    BY <1>3 DEF Reload, Idle
  <2>2. /\ status' = StatusLoading /\ clicks' \in Nat
        /\ UNCHANGED <<page, range, hook, effect, historyCache, chunk, clock>>
    BY <1>1, <1>3 DEF Reload, Spend, DetailTypeOK
  <2>3. DetailTypeOK'
    BY <1>1, <2>1, <2>2, RequestTypes, StatusTypes DEF DetailTypeOK
  <2>4. \A p \in Requests :
          \/ requests'[p] = requests[p]
          \/ requests[p].kind # "history" /\ requests'[p].kind # "history"
    BY <1>1, <2>1 DEF DetailTypeOK
  <2> QED
    BY <2>2, <2>3, <2>4, HistoryRests
<1>4. CASE ChunkSettles \/ SetClock
  <2>1. /\ UNCHANGED <<page, range, status, hook, effect, requests, historyCache, clicks>>
        /\ chunk' \in {"absent", "loaded", "failed"} /\ clock' \in Int
    BY <1>1, <1>4 DEF ChunkSettles, SetClock, DetailTypeOK
  <2>2. DetailTypeOK'
    BY <1>1, <2>1 DEF DetailTypeOK
  <2> QED
    BY <2>1, <2>2, HistoryRests
<1> QED
  BY <1>2, <1>3, <1>4

(***************************************************************************)
(* useHistory.                                                             *)
(***************************************************************************)
\* A click leaves the hook as it is until the effect runs.
LEMMA ClickKeeps ==
    ASSUME IInv, (\E r \in Ranges \cup {Nil} : SelectRange(r)) \/ retry
    PROVE  IInv'
<1>1. DetailTypeOK /\ Labelled
  BY DEF IInv
<1>2. /\ page # Nil /\ range' \in Ranges \cup {Nil} /\ effect' = TRUE
      /\ UNCHANGED <<page, status, hook, requests, chunk, clock>> /\ Spend
  <2>1. ASSUME NEW r \in Ranges \cup {Nil}, SelectRange(r)
        PROVE  /\ page # Nil /\ range' = r /\ effect' = TRUE
               /\ UNCHANGED <<page, status, hook, requests, chunk, clock>> /\ Spend
    BY <2>1, Zenon DEF SelectRange, Clickable
  <2>2. CASE retry
    BY <1>1, <2>2 DEF retry, Clickable, DetailTypeOK
  <2> QED
    BY <2>1, <2>2
<1>3. /\ historyCache' \in [Keys -> Responses \cup {Nil}]
      /\ \A k \in Keys : historyCache'[k] # Nil => historyCache'[k] = historyCache[k]
  <2>1. historyCache \in [Keys -> Responses \cup {Nil}] /\ page \in Servers \cup {Nil}
    BY <1>1, Zenon DEF DetailTypeOK
  <2>2. ASSUME NEW r \in Ranges \cup {Nil}, SelectRange(r)
        PROVE  /\ historyCache' \in [Keys -> Responses \cup {Nil}]
               /\ \A k \in Keys : historyCache'[k] # Nil => historyCache'[k] = historyCache[k]
    <3>1. CASE r = Nil
      BY <2>1, <2>2, <3>1 DEF SelectRange
    <3>2. CASE r # Nil
      <4>1. <<page, r>> \in Keys /\ historyCache' = Purged(<<page, r>>)
        BY <1>2, <2>1, <2>2, <3>2 DEF SelectRange, Keys
      <4> QED
        BY <1>1, <4>1, PurgedCache
    <3> QED
      BY <3>1, <3>2
  <2>3. CASE retry
    <3>1. historyCache' = [historyCache EXCEPT ![key] = Nil]
      BY <2>3 DEF retry
    <3> QED
      BY <2>1, <3>1
  <2> QED
    BY <2>2, <2>3
<1>4. clicks' \in Nat
  BY <1>1, <1>2, SpendTypes
<1>5. DetailTypeOK'
  BY <1>1, <1>2, <1>3, <1>4 DEF DetailTypeOK
<1>6. Labelled'
  BY <1>1, <1>2, <1>3 DEF Labelled
<1>7. InStep'
  BY <1>2 DEF InStep
<1> QED
  BY <1>5, <1>6, <1>7 DEF IInv

\* The effect brings the hook and its request to the key of the page.
LEMMA EffectKeeps ==
    ASSUME IInv, RunEffect PROVE IInv'
<1> DEFINE before == Aborted(requests, "history")
<1>1. /\ DetailTypeOK /\ Labelled /\ requests \in [Requests -> DetailRequests]
      /\ historyCache \in [Keys -> Responses \cup {Nil}]
  BY DEF IInv, DetailTypeOK
<1>2. /\ effect' = FALSE /\ UNCHANGED <<page, range, status, chunk, clock, clicks>>
      /\ key' = key
  BY DEF RunEffect, key
<1>3. /\ before \in [Requests -> DetailRequests]
      /\ \A q \in Requests :
           before[q].kind = "history" => ~before[q].live /\ before[q].key \in Keys
  BY <1>1, AbortedRequests DEF Labelled
<1> HIDE DEF before
<1>4. CASE range = Nil
  <2>1. hook' = Quiet /\ requests' = before /\ UNCHANGED historyCache
    BY <1>4 DEF RunEffect, before
  <2>2. \A q \in Requests : ~Awaits(q)'
    BY <1>3, <2>1 DEF Awaits
  <2>3. DetailTypeOK'
    BY <1>1, <1>2, <1>3, <2>1, HookTypes DEF DetailTypeOK
  <2>4. Labelled'
    BY <1>1, <1>3, <2>1 DEF Labelled, Quiet
  <2>5. InStep'
    BY <1>2, <1>4, <2>1, <2>2 DEF InStep
  <2> QED
    BY <2>3, <2>4, <2>5 DEF IInv
<1>5. CASE range # Nil /\ Fresh(key)
  <2>1. key \in Keys
    BY <1>1, <1>5, KeyType
  <2>2. /\ hook' = Loaded(key, historyCache[key]) /\ requests' = before
        /\ historyCache' = Purged(key) /\ historyCache[key] \in Responses
    BY <1>1, <1>5, <2>1, FreshEntry DEF RunEffect, before
  <2>3. \A q \in Requests : ~Awaits(q)'
    BY <1>3, <2>2 DEF Awaits
  <2>4. hook' \in HookStates /\ hook'.key = key /\ ~hook'.loading
        /\ hook'.data = historyCache[key]
    BY <2>1, <2>2, HookTypes DEF Loaded
  <2>5. /\ historyCache' \in [Keys -> Responses \cup {Nil}]
        /\ \A k \in Keys : historyCache'[k] # Nil => historyCache'[k] = historyCache[k]
    BY <1>1, <2>1, <2>2, PurgedCache
  <2>6. DetailTypeOK'
    BY <1>1, <1>2, <1>3, <2>2, <2>4, <2>5 DEF DetailTypeOK
  <2>7. Labelled'
    BY <1>1, <1>3, <2>1, <2>2, <2>4, <2>5 DEF Labelled
  <2>8. InStep'
    BY <1>2, <1>5, <2>3, <2>4 DEF InStep
  <2> QED
    BY <2>6, <2>7, <2>8 DEF IInv
<1>6. CASE range # Nil /\ ~Fresh(key)
  <2>1. key \in Keys
    BY <1>1, <1>6, KeyType
  <2>2. hook' = Loading(key) /\ historyCache' = Purged(key)
    BY <1>6 DEF RunEffect
  <2>3. PICK q \in Requests :
          requests' = [before EXCEPT ![q] =
                         [kind |-> "history", key |-> key, live |-> TRUE]]
    BY <1>6 DEF RunEffect, Idle, before
  <2>4. /\ requests' \in [Requests -> DetailRequests]
        /\ requests'[q].key = key /\ Awaits(q)'
        /\ \A p \in Requests \ {q} : ~Awaits(p)'
        /\ \A p \in Requests : requests'[p].kind = "history" => requests'[p].key \in Keys
    BY <1>3, <2>1, <2>3, RequestTypes DEF Awaits
  <2>5. hook' \in HookStates /\ hook'.key = key /\ hook'.data = Nil
    BY <2>1, <2>2, HookTypes DEF Loading
  <2>6. /\ historyCache' \in [Keys -> Responses \cup {Nil}]
        /\ \A k \in Keys : historyCache'[k] # Nil => historyCache'[k] = historyCache[k]
    BY <1>1, <2>1, <2>2, PurgedCache
  <2>7. DetailTypeOK'
    BY <1>1, <1>2, <2>4, <2>5, <2>6 DEF DetailTypeOK
  <2>8. Labelled'
    BY <1>1, <2>4, <2>5, <2>6 DEF Labelled
  <2>9. InStep'
    BY <1>2, <1>6, <2>4, <2>5 DEF InStep
  <2> QED
    BY <2>7, <2>8, <2>9 DEF IInv
<1> QED
  BY <1>4, <1>5, <1>6

\* An answer to the request of the key before comes before the effect, which
\* will not leave it there.
LEMMA HistoryKeeps ==
    ASSUME IInv, NEW q \in Requests, HistoryAnswers(q) \/ HistoryFails(q)
    PROVE  IInv'
<1> DEFINE k == requests[q].key
<1>1. /\ DetailTypeOK /\ Labelled
      /\ requests[q].kind = "history" /\ requests' = Without(q)
      /\ UNCHANGED <<page, range, status, effect, chunk, clock, clicks>>
      /\ key' = key
  BY DEF IInv, HistoryAnswers, HistoryFails, key
<1>2. /\ requests' \in [Requests -> DetailRequests]
      /\ ~Awaits(q)' /\ \A p \in Requests \ {q} : Awaits(p)' => Awaits(p) /\ requests'[p] = requests[p]
      /\ \A p \in Requests : Awaits(p) /\ p # q => Awaits(p)'
      /\ \A p \in Requests : requests'[p].kind = "history" => requests'[p].key \in Keys
  BY <1>1, WithoutRequest DEF Awaits, NoRequest, Labelled
<1>3. CASE ~requests[q].live
  <2>1. UNCHANGED <<hook, historyCache>>
    BY <1>3 DEF HistoryAnswers, HistoryFails
  <2>2. DetailTypeOK' /\ Labelled'
    BY <1>1, <1>2, <2>1 DEF DetailTypeOK, Labelled
  <2>3. ~Awaits(q)
    BY <1>3 DEF Awaits
  <2>4. InStep'
    BY <1>1, <1>2, <2>1, <2>3 DEF IInv, InStep
  <2> QED
    BY <2>2, <2>4 DEF IInv
<1>4. CASE requests[q].live
  <2>1. Awaits(q)
    BY <1>1, <1>4 DEF Awaits
  <2>2. k \in Keys
    BY <1>1 DEF Labelled
  <2>3. /\ historyCache' \in [Keys -> Responses \cup {Nil}]
        /\ \A j \in Keys : historyCache'[j] # Nil => historyCache'[j].key = j
        /\ hook' \in HookStates /\ hook'.key = k /\ ~hook'.loading
        /\ hook'.data # Nil => hook'.data.key = k
    <3>1. historyCache \in [Keys -> Responses \cup {Nil}] /\ clock \in Int
      BY <1>1, Zenon DEF DetailTypeOK
    <3>2. CASE HistoryFails(q)
      <4>1. hook' = Failed(k) /\ UNCHANGED historyCache
        BY <1>4, <3>2 DEF HistoryFails
      <4>2. hook' \in HookStates /\ hook'.key = k /\ ~hook'.loading /\ hook'.data = Nil
        BY <2>2, <4>1, HookTypes DEF Failed
      <4> QED
        BY <1>1, <3>1, <4>1, <4>2 DEF Labelled
    <3>3. CASE HistoryAnswers(q)
      <4>1. PICK data \in Responses :
              /\ data.key = k /\ hook' = Loaded(k, data)
              /\ historyCache' = [historyCache EXCEPT ![k] = data]
        <5>1. PICK points \in BOOLEAN :
                LET answer == [key |-> k, at |-> clock, points |-> points]
                IN /\ hook' = Loaded(k, answer)
                   /\ historyCache' = [historyCache EXCEPT ![k] = answer]
          BY <1>4, <3>3 DEF HistoryAnswers
        <5>2. [key |-> k, at |-> clock, points |-> points] \in Responses
          BY <2>2, <3>1 DEF Responses
        <5> QED
          BY <5>1, <5>2
      <4>2. /\ hook' \in HookStates /\ hook'.key = k /\ ~hook'.loading
            /\ hook'.data = data
        BY <2>2, <4>1, HookTypes DEF Loaded
      <4>3. /\ historyCache' \in [Keys -> Responses \cup {Nil}]
            /\ \A j \in Keys : historyCache'[j] # Nil => historyCache'[j].key = j
        BY <1>1, <2>2, <3>1, <4>1 DEF Labelled
      <4> QED
        BY <4>1, <4>2, <4>3
    <3> QED
      BY <3>2, <3>3
  <2>4. DetailTypeOK'
    BY <1>1, <1>2, <2>3 DEF DetailTypeOK
  <2>5. Labelled'
    BY <1>2, <2>3 DEF Labelled
  <2>6. InStep'
    BY <1>1, <1>2, <2>1, <2>3 DEF IInv, InStep
  <2> QED
    BY <2>4, <2>5, <2>6 DEF IInv
<1> QED
  BY <1>3, <1>4

LEMMA NextKeeps ==
    ASSUME IInv, [DetailNext]_detailVars PROVE IInv'
<1>1. CASE DetailUser
  BY <1>1, MountKeeps, OthersKeep, ClickKeeps DEF DetailUser
<1>2. CASE RunEffect \/ ChunkSettles \/ SetClock
  BY <1>2, EffectKeeps, OthersKeep
<1>3. ASSUME NEW q \in Requests, DetailAnswers(q) PROVE IInv'
  BY <1>3, OthersKeep, HistoryKeeps DEF DetailAnswers
<1>4. CASE UNCHANGED detailVars
  BY <1>4 DEF detailVars, IInv, DetailTypeOK, Labelled, InStep, Awaits, key
<1> QED
  BY <1>1, <1>2, <1>3, <1>4 DEF DetailNext

\* In every state the hook, its request and the cache belong together, and once
\* the effect has run they belong to what is selected (useHistory.ts:134-212).
THEOREM Invariant == DetailSpec => []IInv
<1>1. DetailInit => IInv
  BY InitIInv
<1>2. IInv /\ [DetailNext]_detailVars => IInv'
  BY NextKeeps
<1> QED
  BY <1>1, <1>2, PTL DEF DetailSpec

(***************************************************************************)
(* What the page shows.                                                    *)
(***************************************************************************)
\* The three sources of what useHistory returns.
LEMMA Sources ==
    \/ range = Nil /\ history = Quiet
    \/ range # Nil /\ hook.key = key /\ history = hook
    \/ /\ range # Nil /\ hook.key # key /\ Fresh(key)
       /\ history = Loaded(key, historyCache[key])
    \/ range # Nil /\ hook.key # key /\ history = Loading(key)
  BY DEF history, cachedHistory

LEMMA NothingYet ==
    ASSUME NEW k PROVE Quiet.data = Nil /\ Loading(k).data = Nil
  BY DEF Quiet, Loading

\* The history shown is the one of the server and the range that are selected
\* (useHistory.ts:134-212).
THEOREM ShownBelongsHolds == DetailSpec => []ShownBelongs
<1>1. IInv => ShownBelongs
  <2>1. SUFFICES ASSUME IInv, history.data # Nil PROVE history.data.key = key
    BY DEF ShownBelongs
  <2>2. CASE range # Nil /\ hook.key = key /\ history = hook
    BY <2>1, <2>2 DEF IInv, Labelled
  <2>3. CASE range # Nil /\ Fresh(key) /\ history = Loaded(key, historyCache[key])
    <3>1. key \in Keys
      BY <2>1, <2>3, KeyType DEF IInv
    <3> QED
      BY <2>1, <2>3, <3>1 DEF IInv, Labelled, Loaded
  <2>4. history # Quiet /\ history # Loading(key)
    BY <2>1, NothingYet
  <2> QED
    BY <2>1, <2>2, <2>3, <2>4, Sources
<1> QED
  BY <1>1, Invariant, PTL

\* A page that says it is loading has asked for what it shows, or is about to
\* (useHistory.ts:155-185).
THEOREM SpinnerHonestHolds == DetailSpec => []SpinnerHonest
<1>1. IInv => SpinnerHonest
  <2>1. SUFFICES ASSUME IInv, HistoryPanel = "spinner", ~effect
                 PROVE  \E q \in Requests :
                          requests[q] = [kind |-> "history", key |-> key, live |-> TRUE]
    BY DEF SpinnerHonest
  <2>2. range # Nil /\ history.loading
    <3>1. chunk \in {"absent", "loaded", "failed"}
      BY <2>1, Zenon DEF IInv, DetailTypeOK
    <3> QED
      BY <2>1, <3>1 DEF HistoryPanel
  <2>3. hook.key = key
    BY <2>1, <2>2 DEF IInv, InStep
  <2>4. hook.loading
    BY <2>1, <2>2, <2>3, Sources
  <2>5. PICK q \in Requests : Awaits(q) /\ requests[q].key = key
    BY <2>1, <2>2, <2>4 DEF IInv, InStep
  <2>6. requests[q] \in DetailRequests
    BY <2>1 DEF IInv, DetailTypeOK
  <2> QED
    BY <2>5, <2>6 DEF Awaits, DetailRequests
<1> QED
  BY <1>1, Invariant, PTL

\* Only three steps change the hook while the page of a range stays mounted.
LEMMA HookSteps ==
    ASSUME IInv, [DetailNext]_detailVars, range' # Nil, hook' # hook
    PROVE  RunEffect \/ \E q \in Requests : HistoryAnswers(q) \/ HistoryFails(q)
<1>1. ASSUME NEW s, NEW reqs, MountDetail(s, reqs) PROVE range' = Nil
  BY <1>1 DEF MountDetail
<1>2. ~(DetailUser \/ ChunkSettles \/ SetClock \/ UNCHANGED detailVars)
  BY <1>1 DEF DetailUser, OpenServer, LeaveServer, UnmountDetail, Reload, retry,
     ReloadDocument, SelectRange, ChunkSettles, SetClock, detailVars
<1>3. ~\E q \in Requests : StatusAnswers(q) \/ StatusFails(q)
  BY DEF StatusAnswers, StatusFails
<1> QED
  BY <1>2, <1>3 DEF DetailNext, DetailAnswers

\* Only a click changes the key of a page, and not before the effect has run.
LEMMA RangeSteps ==
    ASSUME IInv, [DetailNext]_detailVars, range' # Nil, ~UNCHANGED <<page, range>>
    PROVE  ~effect /\ page # Nil /\ UNCHANGED page /\ range' # range
<1>1. ASSUME NEW s, NEW reqs, MountDetail(s, reqs) PROVE range' = Nil
  BY <1>1 DEF MountDetail
<1>2. \E r \in Ranges \cup {Nil} : SelectRange(r)
  BY <1>1 DEF DetailNext, DetailUser, DetailAnswers, OpenServer, LeaveServer,
     UnmountDetail, Reload, retry, ReloadDocument, RunEffect, ChunkSettles, SetClock,
     StatusAnswers, StatusFails, HistoryAnswers, HistoryFails, detailVars
<1> QED
  BY <1>2, Zenon DEF SelectRange, Clickable

\* What comes onto the page has been asked for, or kept, for less than CACHE_TTL_MS
\* by the browser's clock, and is not from its future (useHistory.ts:37-48).
THEOREM ShownFreshHolds == DetailSpec => ShownFresh
<1> DEFINE Comes == history'.data # Nil /\ history'.data # history.data
           Recent == clock' - history'.data.at \in 0..TTL - 1
<1>1. ASSUME IInv, [DetailNext]_detailVars, Comes PROVE Recent
  <2>1. IInv' /\ DetailTypeOK /\ DetailTypeOK'
    BY <1>1, NextKeeps DEF IInv
  <2>2. \/ range' = Nil /\ history' = Quiet
        \/ range' # Nil /\ hook'.key = key' /\ history' = hook'
        \/ /\ range' # Nil /\ Fresh(key)'
           /\ history' = Loaded(key', historyCache'[key'])
        \/ range' # Nil /\ history' = Loading(key')
    BY DEF history, cachedHistory
  <2>3. history' # Quiet /\ history' # Loading(key')
    BY <1>1, NothingYet
  <2>4. CASE range' # Nil /\ Fresh(key)' /\ history' = Loaded(key', historyCache'[key'])
    BY <2>4 DEF Fresh, Loaded
  <2>5. CASE range' # Nil /\ hook'.key = key' /\ history' = hook'
    <3>1. CASE hook' # hook
      <4>1. clock \in Int /\ TTL \in Nat \ {0}
        BY <2>1, DetailAssumption, Zenon DEF DetailTypeOK
      <4>2. CASE RunEffect
        <5>1. range # Nil /\ UNCHANGED clock /\ key \in Keys
          BY <2>1, <2>5, <4>2, KeyType DEF RunEffect
        <5>2. hook' # Loading(key)
          BY <1>1, <2>5, NothingYet
        <5>3. Fresh(key) /\ hook' = Loaded(key, historyCache[key])
          BY <2>1, <4>2, <5>1, <5>2, FreshEntry DEF RunEffect
        <5> QED
          BY <2>5, <5>1, <5>3 DEF Fresh, Loaded
      <4>3. ASSUME NEW q \in Requests, HistoryAnswers(q) PROVE Recent
        <5>1. requests[q].live /\ UNCHANGED clock
          BY <3>1, <4>3 DEF HistoryAnswers
        <5>2. hook'.data.at = clock
          BY <4>3, <5>1 DEF HistoryAnswers, Loaded
        <5> QED
          BY <2>5, <4>1, <5>1, <5>2
      <4>4. ASSUME NEW q \in Requests, HistoryFails(q) PROVE Recent
        <5>1. hook' = Failed(requests[q].key)
          BY <3>1, <4>4 DEF HistoryFails
        <5> QED
          BY <1>1, <2>5, <5>1 DEF Failed
      <4> QED
        BY <1>1, <2>5, <3>1, <4>2, <4>3, <4>4, HookSteps
    <3>2. CASE UNCHANGED <<page, range, hook>>
      <4>1. range # Nil /\ hook.key = key
        BY <2>5, <3>2 DEF key
      <4> QED
        BY <1>1, <2>5, <3>2, <4>1, Sources
    <3>3. CASE UNCHANGED hook /\ ~UNCHANGED <<page, range>>
      <4>1. /\ ~effect /\ page # Nil /\ UNCHANGED page /\ range' # range
        BY <1>1, <2>5, <3>3, RangeSteps
      <4>2. range # Nil /\ hook.key = key
        <5>1. hook # Quiet
          BY <1>1, <2>5, <3>3, NothingYet
        <5> QED
          BY <1>1, <4>1, <5>1 DEF IInv, InStep
      <4>3. key' # key
        BY <2>5, <4>1, <4>2 DEF key
      <4> QED
        BY <2>5, <3>3, <4>2, <4>3
    <3> QED
      BY <3>1, <3>2, <3>3
  <2> QED
    BY <2>2, <2>3, <2>4, <2>5
<1>2. IInv /\ [DetailNext]_detailVars => [Comes => Recent]_detailVars
  BY <1>1
<1> QED
  BY <1>2, Invariant, PTL DEF DetailSpec, ShownFresh

(***************************************************************************)
(* The lines of a chart (ChartSeries).                                     *)
(***************************************************************************)

(***************************************************************************)
(* Buckets: the loops read every minute once.                              *)
(***************************************************************************)
Sizes ==
    /\ minuteCount \in Nat \ {0} /\ pointBudget \in Nat

Reading ==
    /\ index \in 0 .. minuteCount /\ bucketIndex \in 0 .. BucketCount
    /\ index < minuteCount => index >= BucketStart
    /\ ~Finished => index <= BucketEnd
    /\ Finished => index = minuteCount

LEMMA CeilingCovers ==
    ASSUME NEW n \in Nat \ {0}, NEW c \in Nat \ {0}
    PROVE  /\ (n + c - 1) \div c \in Nat \ {0}
           /\ c * ((n + c - 1) \div c) >= n
<1> DEFINE a == n + c - 1
           q == a \div c
<1>1. a \in Nat /\ a >= c
  OBVIOUS
<1>2. q \in Int /\ c * q <= a /\ a < c * q + c
  BY <1>1, SMT
<1>3. q > 0
  <2>1. SUFFICES ASSUME q <= 0 PROVE FALSE
    BY <1>2
  <2>2. c * q <= 0
    BY <1>2, <2>1, SMT
  <2> QED
    BY <1>1, <1>2, <2>2, SMT
<1>4. c * q >= n
  <2>1. c * q \in Int
    BY <1>2, SMT
  <2> HIDE DEF q
  <2> QED
    BY <1>1, <1>2, <2>1, SMT DEF a
<1> QED
  BY <1>2, <1>3, <1>4

\* The buckets cover the range.
LEMMA BucketsCover ==
    ASSUME Sizes
    PROVE  /\ BucketCount \in Nat \ {0} /\ BucketSize \in Nat \ {0}
           /\ BucketCount * BucketSize >= minuteCount
<1>1. BucketCount \in Nat \ {0}
  BY SMT DEF Sizes, BucketCount, Reduced, CandidatesPerBucket
<1>2. minuteCount \in Nat \ {0}
  BY DEF Sizes
<1> QED
  BY <1>1, <1>2, CeilingCovers DEF BucketSize

\* The end of one bucket is the start of the next.
LEMMA NextBucket ==
    ASSUME NEW b \in Nat, NEW size \in Nat
    PROVE  /\ (b + 1) * size = b * size + size
           /\ b * size \in Nat
  BY SMT

(***************************************************************************)
(* The inductive invariant.                                                *)
(***************************************************************************)
Counted ==
    /\ stats.count <= index
    /\ \A i \in Minutes : i >= index => ~Finite(i)

\* What the two variables of the gap logic remember of the minutes read.
Remembered ==
    /\ gapOpen => index > 0 /\ ~Finite(index - 1)
    /\ ~gapOpen => index = 0 \/ Finite(index - 1)
    /\ lastFiniteIndex = Gap => \A i \in 0 .. index - 1 : ~Finite(i)
    /\ lastFiniteIndex # Gap =>
         /\ lastFiniteIndex < index /\ Finite(lastFiniteIndex)
         /\ \A i \in 0 .. index - 1 : i > lastFiniteIndex => ~Finite(i)

\* Between a finite and a missing minute, in either order, a minute is kept
\* behind the first; before a missing one it is not that minute itself.
Separated ==
  /\ 0 \in candidates /\ minuteCount - 1 \in candidates
  /\ \A i, j \in 0 .. index - 1 :
      i < j /\ (Finite(i) <=> ~Finite(j)) =>
        /\ \E k \in candidates : i < k /\ k <= j
        /\ Finite(i) => \E k \in candidates : i <= k /\ k < j

InBucket(i) == i >= BucketStart /\ i < index

\* The extremes of the bucket being read, and of those already closed.
Extremes ==
    /\ ~Reduced => candidates = Minutes
    /\ \A i \in Minutes : InBucket(i) /\ Finite(i) =>
         bucket.minimum # Gap /\ bucket.maximum # Gap
    /\ bucket.minimum # Gap =>
         /\ InBucket(bucket.minimum) /\ Finite(bucket.minimum)
         /\ \A i \in Minutes : InBucket(i) /\ Finite(i) =>
              record[bucket.minimum] <= record[i]
    /\ bucket.maximum # Gap =>
         /\ InBucket(bucket.maximum) /\ Finite(bucket.maximum)
         /\ \A i \in Minutes : InBucket(i) /\ Finite(i) =>
              record[bucket.maximum] >= record[i]
    /\ Reduced => \A i \in Minutes :
         i < BucketStart /\ i < index /\ Finite(i) => KeptNear(i)

ChartInv == TypeOK /\ Reading /\ Counted /\ Remembered /\ Separated /\ Extremes

\* A set of natural numbers that is not empty has a least and, if it is
\* bounded, a greatest element.
LEMMA Least ==
    ASSUME NEW T \in SUBSET Nat, T # {}
    PROVE  \E x \in T : \A y \in T : x <= y
<1>1. T \subseteq Nat
  OBVIOUS
<1>2. PICK x \in T : \A y \in T : ~(<<y, x>> \in OpToRel(<, Nat))
  <2> DEFINE less == OpToRel(<, Nat)
  <2>1. IsWellFoundedOn(less, Nat)
    BY NatLessThanWellFounded
  <2> HIDE DEF less
  <2>2. \E x \in T : \A y \in T : ~(<<y, x>> \in less)
    BY <1>1, <2>1, WFMin
  <2> QED
    BY <2>2 DEF less
<1>3. \A y \in T : ~(y < x)
  BY <1>1, <1>2 DEF OpToRel
<1> QED
  BY <1>1, <1>3

LEMMA Greatest ==
    ASSUME NEW T \in SUBSET Nat, T # {}, NEW n \in Nat, \A x \in T : x <= n
    PROVE  \E x \in T : \A y \in T : y <= x
<1> DEFINE below == {n - x : x \in T}
<1>1. below \in SUBSET Nat /\ below # {}
  <2>1. \A x \in T : n - x \in Nat
    OBVIOUS
  <2> QED
    BY <2>1
<1>2. PICK d \in below : \A e \in below : d <= e
  BY <1>1, Least
<1>3. PICK x \in T : d = n - x
  BY <1>2
<1>4. \A y \in T : n - x <= n - y
  BY <1>2, <1>3
<1> HIDE DEF below
<1> QED
  BY <1>4

LEMMA TypeGivesSizes ==
    ASSUME TypeOK PROVE Sizes
  BY RangeAssumption DEF TypeOK, Sizes

\* The plan of the buckets is fixed when the loop starts.
LEMMA PlanFixed ==
    ASSUME UNCHANGED <<minuteCount, pointBudget>>
    PROVE  /\ Minutes' = Minutes /\ Reduced' = Reduced /\ Sizes' = Sizes
           /\ BucketCount' = BucketCount /\ BucketSize' = BucketSize
  BY DEF Minutes, Reduced, Sizes, BucketCount, BucketSize

\* While a bucket is read, so are its ends.
LEMMA BucketFixed ==
    ASSUME UNCHANGED <<minuteCount, pointBudget, bucketIndex>>
    PROVE  /\ BucketStart' = BucketStart /\ BucketEnd' = BucketEnd
           /\ Finished' = Finished
  BY PlanFixed DEF BucketStart, BucketEnd, Finished

LEMMA BucketBounds ==
    ASSUME TypeOK
    PROVE  /\ BucketStart \in Nat /\ BucketSize \in Nat \ {0}
           /\ BucketCount \in Nat \ {0} /\ minuteCount \in Nat \ {0}
           /\ BucketEnd \in Nat /\ BucketEnd <= minuteCount
           /\ BucketEnd <= BucketStart + BucketSize
<1>1. /\ BucketSize \in Nat \ {0} /\ BucketCount \in Nat \ {0}
      /\ minuteCount \in Nat \ {0}
  BY TypeGivesSizes, BucketsCover DEF Sizes
<1>2. bucketIndex \in Nat
  BY <1>1 DEF TypeOK
<1>3. BucketStart \in Nat
  BY <1>1, <1>2, NextBucket DEF BucketStart
<1> QED
  BY <1>1, <1>3 DEF BucketEnd

LEMMA InitChartInv ==
    ASSUME Init PROVE ChartInv
<1>1. minuteCount \in Nat \ {0}
  BY RangeAssumption DEF Init
<1>2. pointBudget \in Nat
  <2>1. PICK w \in Widths : pointBudget = chartPointBudget(w)
    BY DEF Init
  <2> DEFINE safe == IF w > 0 THEN w ELSE DefaultChartWidth
  <2>2. safe \in Nat /\ PointsPerPixel \in Nat
    BY RangeAssumption
  <2>3. safe * PointsPerPixel \in Nat
    <3> HIDE DEF safe
    <3> QED BY <2>2, SMT
  <2> QED
    BY <2>1, <2>3, RangeAssumption DEF chartPointBudget
<1>3. Sizes
  BY <1>1, <1>2 DEF Sizes
<1>4. BucketCount \in Nat \ {0} /\ BucketSize \in Nat \ {0}
  BY <1>3, BucketsCover
<1>5. BucketStart = 0
  BY <1>4, NextBucket DEF BucketStart, Init
<1>6. TypeOK
  <2>1. candidates \subseteq Minutes
    BY <1>1 DEF Init, Minutes
  <2>2. record \in [Minutes -> Values \cup {Gap}]
    BY DEF Init
  <2>3. stats \in [sum : Int, count : 0 .. minuteCount,
                  maximum : Values \cup {Gap}, current : Values \cup {Gap}]
    BY <1>1 DEF Init
  <2>4. bucket \in [first : Minutes \cup {Gap}, last : Minutes \cup {Gap},
                   minimum : Minutes \cup {Gap}, maximum : Minutes \cup {Gap}]
    BY DEF Init, EmptyBucket
  <2>5. index \in 0 .. minuteCount /\ bucketIndex \in 0 .. BucketCount
    BY <1>1, <1>4 DEF Init
  <2>6. minuteCount \in MinuteCounts /\ gapOpen \in BOOLEAN
        /\ lastFiniteIndex \in Minutes \cup {Gap}
    BY DEF Init
  <2> QED
    BY <1>2, <2>1, <2>2, <2>3, <2>4, <2>5, <2>6 DEF TypeOK
<1>7. Reading
  BY <1>1, <1>4, <1>5 DEF Init, Reading, Finished, BucketEnd
<1>8. Counted /\ Remembered /\ Separated
  BY <1>1 DEF Init, Counted, Remembered, Separated, Finite, Minutes
<1>9. Extremes
  BY <1>1, <1>5 DEF Init, Extremes, EmptyBucket, InBucket, Minutes
<1> QED
  BY <1>6, <1>7, <1>8, <1>9 DEF ChartInv

LEMMA MissingMinuteKeeps ==
    ASSUME ChartInv, MissingMinute PROVE ChartInv'
<1> USE DEF MissingMinute
<1>1. /\ UNCHANGED <<minuteCount, pointBudget, record, bucketIndex, bucket>>
      /\ Minutes' = Minutes /\ Reduced' = Reduced
      /\ BucketCount' = BucketCount /\ BucketSize' = BucketSize
      /\ BucketStart' = BucketStart /\ BucketEnd' = BucketEnd
      /\ Finished' = Finished
  BY PlanFixed, BucketFixed
<1>2. TypeOK /\ Reading /\ Counted /\ Remembered /\ Separated /\ Extremes
  BY DEF ChartInv
<1>3. /\ BucketStart \in Nat /\ BucketSize \in Nat /\ minuteCount \in Nat
      /\ BucketEnd \in Nat /\ BucketEnd <= minuteCount
  BY <1>2, BucketBounds
<1>4. index \in Minutes /\ ~Finite(index)
  BY <1>2, <1>3 DEF TypeOK, Minutes, Counted, Reading
<1>5. TypeOK'
  <2>1. candidates' \subseteq Minutes
    BY <1>2, <1>4 DEF TypeOK
  <2>2. index' \in 0 .. minuteCount
    BY <1>3, <1>4 DEF Minutes
  <2> QED
    BY <1>1, <1>2, <2>1, <2>2 DEF TypeOK
<1>6. Reading'
  BY <1>1, <1>2, <1>3, <1>4 DEF Reading, Minutes
<1>7. Counted'
  BY <1>1, <1>2, <1>3, <1>4 DEF Counted, TypeOK, Finite, Minutes
<1>8. Remembered'
  BY <1>1, <1>2, <1>3, <1>4 DEF Remembered, TypeOK, Finite, Minutes
<1>9. Separated'
  <2>1. SUFFICES ASSUME NEW i \in 0 .. index, NEW j \in 0 .. index,
                        i < j, (Finite(i) <=> ~Finite(j))
                 PROVE  /\ \E k \in candidates' : i < k /\ k <= j
                        /\ Finite(i) => \E k \in candidates' : i <= k /\ k < j
    BY <1>1, <1>2, <1>4 DEF Separated, Finite, Minutes, TypeOK
  <2>2. CASE j < index
    BY <1>2, <2>1, <2>2, <1>4 DEF Separated, TypeOK, Minutes
  <2>3. CASE j = index /\ gapOpen
    \* The gap was met before: the minute before this one separates too.
    <3>1. index - 1 \in 0 .. index - 1 /\ ~Finite(index - 1)
      BY <1>2, <2>3, <1>4 DEF Remembered, Minutes, TypeOK
    <3>2. Finite(i) /\ i < index - 1 /\ i \in 0 .. index - 1
      BY <1>4, <2>1, <2>3, <3>1 DEF Minutes
    <3>3. /\ \E k \in candidates : i < k /\ k <= index - 1
          /\ \E k \in candidates : i <= k /\ k < index - 1
      BY <1>2, <3>1, <3>2 DEF Separated
    <3> QED
      BY <1>2, <1>4, <2>3, <3>3 DEF TypeOK, Minutes
  <2>4. CASE j = index /\ ~gapOpen
    \* The gap begins: its first minute and the last finite one are kept.
    <3>1. Finite(i) /\ i \in 0 .. index - 1
      BY <1>4, <2>1, <2>4 DEF Minutes
    <3>2. lastFiniteIndex # Gap /\ lastFiniteIndex \in Minutes
      BY <1>2, <3>1 DEF Remembered, TypeOK
    <3>3. i <= lastFiniteIndex /\ lastFiniteIndex < index
      BY <1>2, <1>4, <3>1, <3>2 DEF Remembered, Minutes
    <3>4. index \in candidates' /\ lastFiniteIndex \in candidates'
      BY <2>4, <3>2, <1>4, ValuesAssumption DEF Minutes
    <3> QED
      BY <2>1, <2>4, <3>3, <3>4
  <2> QED
    BY <2>1, <2>2, <2>3, <2>4, <1>4 DEF Minutes
<1>10. Extremes'
  <2>1. \A i \in Minutes : KeptNear(i) => KeptNear(i)'
    BY <1>1 DEF KeptNear, Finite
  <2>2. \A i \in Minutes : Finite(i) => (InBucket(i)' <=> InBucket(i))
    BY <1>1, <1>2, <1>4 DEF InBucket, Minutes, TypeOK
  <2>3. \A i \in Minutes : Finite(i) /\ i < index' => i < index
    BY <1>4 DEF Minutes
  <2>4. ~Reduced => candidates' = Minutes
    BY <1>2, <1>4, <1>5, <1>1 DEF Extremes, TypeOK
  <2>5. \A i : Finite(i)' <=> Finite(i)
    BY <1>1 DEF Finite
  <2>6. /\ bucket.minimum \in Minutes \cup {Gap}
        /\ bucket.maximum \in Minutes \cup {Gap}
    BY <1>2 DEF TypeOK
  <2> QED
    BY <1>1, <1>2, <2>1, <2>2, <2>3, <2>4, <2>5, <2>6 DEF Extremes
<1> QED
  BY <1>5, <1>6, <1>7, <1>8, <1>9, <1>10 DEF ChartInv

LEMMA FiniteMinuteKeeps ==
    ASSUME ChartInv, FiniteMinute PROVE ChartInv'
<1>1. PICK value \in Values :
        /\ record' = [record EXCEPT ![index] = value]
        /\ bucket' = Extended(value)
        /\ stats' = Accumulated(value)
  BY DEF FiniteMinute
<1>2. TypeOK /\ Reading /\ Counted /\ Remembered /\ Separated /\ Extremes
  BY DEF ChartInv
<1>3. /\ BucketStart \in Nat /\ BucketSize \in Nat /\ minuteCount \in Nat
      /\ BucketEnd \in Nat /\ BucketEnd <= minuteCount
  BY <1>2, BucketBounds
<1>4. /\ ~Finished /\ index < BucketEnd /\ index' = index + 1
      /\ candidates' = candidates \cup (IF gapOpen THEN {index} ELSE {})
      /\ gapOpen' = FALSE /\ lastFiniteIndex' = index
      /\ UNCHANGED <<minuteCount, pointBudget, bucketIndex>>
  BY DEF FiniteMinute
<1>5. /\ Minutes' = Minutes /\ Reduced' = Reduced
      /\ BucketCount' = BucketCount /\ BucketSize' = BucketSize
      /\ BucketStart' = BucketStart /\ BucketEnd' = BucketEnd
      /\ Finished' = Finished
  BY <1>4, PlanFixed, BucketFixed
<1>6. index \in Minutes /\ ~Finite(index) /\ index >= BucketStart
  BY <1>2, <1>3, <1>4 DEF TypeOK, Minutes, Counted, Reading
<1>7. value \in Int /\ value # Gap
  BY ValuesAssumption
<1>8. /\ record'[index] = value
      /\ \A i \in Minutes : i # index => record'[i] = record[i]
      /\ \A i \in Minutes : Finite(i)' <=> (i = index \/ Finite(i))
  <2>1. record' = [i \in Minutes |-> IF i = index THEN value ELSE record[i]]
    BY <1>1, <1>2 DEF TypeOK
  <2> QED
    BY <2>1, <1>6, <1>7 DEF Finite
<1>9. TypeOK'
  <2>1. record' \in [Minutes -> Values \cup {Gap}]
    BY <1>1, <1>2 DEF TypeOK
  <2>2. bucket' \in [first : Minutes \cup {Gap}, last : Minutes \cup {Gap},
                    minimum : Minutes \cup {Gap}, maximum : Minutes \cup {Gap}]
    BY <1>1, <1>2, <1>6 DEF TypeOK, Extended
  <2>3. stats' \in [sum : Int, count : 0 .. minuteCount,
                   maximum : Values \cup {Gap}, current : Values \cup {Gap}]
    BY <1>1, <1>2, <1>3, <1>6, <1>7
    DEF TypeOK, Accumulated, Counted, Minutes
  <2>4. candidates' \subseteq Minutes /\ index' \in 0 .. minuteCount
    BY <1>2, <1>4, <1>6, <1>3 DEF TypeOK, Minutes
  <2> QED
    BY <1>2, <1>4, <1>5, <1>6, <2>1, <2>2, <2>3, <2>4 DEF TypeOK
<1>10. Reading'
  BY <1>2, <1>3, <1>4, <1>5, <1>6 DEF Reading, Minutes
<1>11. Counted'
  BY <1>1, <1>2, <1>4, <1>5, <1>6, <1>8
  DEF Counted, Accumulated, TypeOK, Minutes
<1>12. Remembered'
  BY <1>2, <1>4, <1>5, <1>6, <1>7, <1>8, ValuesAssumption
  DEF Remembered, Minutes
<1>13. Separated'
  <2>1. SUFFICES ASSUME NEW i \in 0 .. index, NEW j \in 0 .. index,
                        i < j, (Finite(i)' <=> ~Finite(j)')
                 PROVE  /\ \E k \in candidates' : i < k /\ k <= j
                        /\ Finite(i)' => \E k \in candidates' : i <= k /\ k < j
    <3>1. 0 \in candidates' /\ minuteCount' - 1 \in candidates'
      BY <1>2, <1>4 DEF Separated
    <3>2. index \in Nat /\ index' - 1 = index
      BY <1>3, <1>4, <1>6 DEF Minutes
    <3> QED
      BY <3>1, <3>2, <2>1 DEF Separated
  <2>2. /\ i \in 0 .. index - 1 /\ i \in Minutes /\ j \in Minutes
        /\ (Finite(i)' <=> Finite(i))
    BY <2>1, <1>3, <1>6, <1>8 DEF Minutes
  <2>3. CASE j < index
    <3>1. /\ i \in 0 .. index - 1 /\ j \in 0 .. index - 1
          /\ (Finite(j)' <=> Finite(j))
      BY <1>3, <1>6, <1>8, <2>1, <2>2, <2>3 DEF Minutes
    <3>2. /\ \E k \in candidates : i < k /\ k <= j
          /\ Finite(i) => \E k \in candidates : i <= k /\ k < j
      BY <1>2, <2>1, <2>2, <3>1 DEF Separated
    <3> QED
      BY <1>4, <2>2, <3>2
  <2>4. CASE j = index
    <3>1. ~Finite(i)
      BY <1>8, <2>1, <2>2, <2>4
    <3>2. CASE gapOpen
      BY <1>4, <2>1, <2>2, <2>4, <3>1, <3>2
    <3>3. CASE ~gapOpen
      \* The run goes on: its start separates it from the gap.
      <4>1. index - 1 \in 0 .. index - 1 /\ Finite(index - 1)
        BY <1>2, <1>6, <2>2, <3>3 DEF Remembered, Minutes
      <4>2. i < index - 1
        BY <3>1, <4>1, <2>2
      <4>3. \E k \in candidates : i < k /\ k <= index - 1
        BY <1>2, <2>2, <3>1, <4>1, <4>2 DEF Separated
      <4> QED
        BY <1>2, <1>4, <1>6, <2>2, <2>4, <3>1, <4>3 DEF TypeOK, Minutes
    <3> QED
      BY <3>2, <3>3
  <2> QED
    BY <2>1, <2>3, <2>4, <1>6 DEF Minutes
<1>14. Extremes'
  <2>1. \A i \in Minutes : Finite(i) /\ KeptNear(i) => KeptNear(i)'
    <3>1. candidates \subseteq candidates' /\ candidates \subseteq Minutes
      BY <1>2, <1>4 DEF TypeOK
    <3>2. \A k \in candidates : Finite(k) => k # index
      BY <1>6
    <3> QED
      BY <1>5, <1>6, <1>8, <3>1, <3>2 DEF KeptNear
  <2>2. \A i \in Minutes : InBucket(i)' <=> (InBucket(i) \/ i = index)
    BY <1>2, <1>3, <1>4, <1>5, <1>6 DEF InBucket, Minutes
  <2>3. \A i \in Minutes : Finite(i) => record[i] \in Int
    BY <1>2, ValuesAssumption DEF TypeOK, Finite
  <2>4. /\ bucket'.minimum = IF bucket.minimum = Gap THEN index
                            ELSE IF value < record[bucket.minimum] THEN index
                            ELSE bucket.minimum
        /\ bucket'.maximum = IF bucket.maximum = Gap THEN index
                            ELSE IF value > record[bucket.maximum] THEN index
                            ELSE bucket.maximum
        /\ bucket.minimum \in Minutes \cup {Gap}
        /\ bucket.maximum \in Minutes \cup {Gap}
    BY <1>1, <1>2 DEF Extended, TypeOK
  <2>5. index # Gap /\ index \in Minutes
    BY <1>6, <1>3, ValuesAssumption DEF Minutes
  <2>6. /\ bucket'.minimum # Gap
        /\ BucketStart <= bucket'.minimum /\ bucket'.minimum < index'
        /\ record'[bucket'.minimum] # Gap
        /\ \A i \in Minutes : InBucket(i)' /\ Finite(i)' =>
             record'[bucket'.minimum] <= record'[i]
    BY <1>2, <1>3, <1>4, <1>6, <1>7, <1>8, <2>2, <2>3, <2>4, <2>5
    DEF Extremes, InBucket, Finite, Minutes
  <2>7. /\ bucket'.maximum # Gap
        /\ BucketStart <= bucket'.maximum /\ bucket'.maximum < index'
        /\ record'[bucket'.maximum] # Gap
        /\ \A i \in Minutes : InBucket(i)' /\ Finite(i)' =>
             record'[bucket'.maximum] >= record'[i]
    BY <1>2, <1>3, <1>4, <1>6, <1>7, <1>8, <2>2, <2>3, <2>4, <2>5, SMTT(30)
    DEF Extremes, InBucket, Finite, Minutes
  <2>8. Reduced => \A i \in Minutes :
          i < BucketStart /\ i < index' /\ Finite(i)' => KeptNear(i)'
    BY <1>2, <1>3, <1>4, <1>6, <1>8, <2>1 DEF Extremes, Minutes
  <2>9. ~Reduced => candidates' = Minutes
    BY <1>2, <1>4, <1>6 DEF Extremes
  <2> QED
    BY <1>5, <2>6, <2>7, <2>8, <2>9 DEF Extremes, InBucket, Finite
<1> QED
  BY <1>9, <1>10, <1>11, <1>12, <1>13, <1>14 DEF ChartInv

LEMMA CloseBucketKeeps ==
    ASSUME ChartInv, CloseBucket PROVE ChartInv'
<1> USE DEF CloseBucket
<1>1. TypeOK /\ Reading /\ Counted /\ Remembered /\ Separated /\ Extremes
  BY DEF ChartInv
<1>2. /\ BucketStart \in Nat /\ BucketSize \in Nat \ {0}
      /\ BucketCount \in Nat \ {0} /\ minuteCount \in Nat \ {0}
      /\ index \in Nat /\ bucketIndex \in Nat
  BY <1>1, BucketBounds DEF TypeOK
<1>3. index = BucketEnd /\ index <= BucketStart + BucketSize
  BY <1>1, <1>2, BucketBounds DEF Reading
<1>4. /\ Minutes' = Minutes /\ Reduced' = Reduced
      /\ BucketCount' = BucketCount /\ BucketSize' = BucketSize
  BY PlanFixed
<1>5. BucketStart' = BucketStart + BucketSize /\ BucketStart' \in Nat
  <2>1. BucketStart' = (bucketIndex + 1) * BucketSize
    BY <1>4 DEF BucketStart
  <2> QED
    BY <2>1, <1>2, NextBucket DEF BucketStart
<1>6. \A i : Finite(i)' <=> Finite(i)
  BY DEF Finite
<1>7. candidates \subseteq candidates' /\ candidates' \subseteq Minutes
  BY <1>1 DEF TypeOK, addBucketCandidates
<1>8. TypeOK'
  <2>1. bucketIndex' \in 0 .. BucketCount
    BY <1>1, <1>2 DEF TypeOK, Finished
  <2> QED
    BY <1>1, <1>4, <1>7, <2>1 DEF TypeOK, EmptyBucket
<1>9. Reading'
  <2>1. index < minuteCount => index >= BucketStart'
    BY <1>2, <1>3, <1>5 DEF BucketEnd
  <2>2. BucketEnd' = IF BucketStart' + BucketSize > minuteCount
                     THEN minuteCount ELSE BucketStart' + BucketSize
    BY <1>4 DEF BucketEnd
  <2>3. index <= BucketEnd'
    BY <1>1, <1>2, <1>3, <1>5, <2>2 DEF TypeOK
  <2>4. CASE bucketIndex + 1 = BucketCount
    <3>1. BucketStart' = BucketCount * BucketSize
      BY <2>4, <1>4 DEF BucketStart
    <3>2. BucketStart' >= minuteCount
      BY <3>1, <1>1, TypeGivesSizes, BucketsCover
    <3>3. index = minuteCount
      BY <1>2, <1>3, <1>5, <3>2 DEF BucketEnd
    <3> QED
      BY <1>2, <1>4, <1>8, <2>1, <2>3, <3>3 DEF Reading, TypeOK
  <2>5. CASE bucketIndex + 1 # BucketCount
    BY <1>1, <1>4, <1>8, <2>1, <2>3, <2>5 DEF Reading, TypeOK, Finished
  <2> QED
    BY <2>4, <2>5
<1>10. Counted' /\ Remembered'
  BY <1>1, <1>4, <1>6 DEF Counted, Remembered
<1>11. Separated'
  BY <1>1, <1>6, <1>7 DEF Separated
<1>12. Extremes'
  <2>1. \A i \in Minutes : ~InBucket(i)'
    BY <1>2, <1>3, <1>5 DEF InBucket, Minutes
  <2>2. ~Reduced => candidates' = Minutes
    BY <1>1 DEF Extremes
  <2>3. ASSUME Reduced, NEW i \in Minutes, i < BucketStart', i < index,
               Finite(i)
        PROVE  KeptNear(i)'
    <3>1. CASE i < BucketStart
      <4>1. KeptNear(i)
        BY <1>1, <2>3, <3>1 DEF Extremes
      <4> QED
        BY <4>1, <1>4, <1>6, <1>7 DEF KeptNear
    <3>2. CASE i >= BucketStart
      <4>1. InBucket(i)
        BY <2>3, <3>2 DEF InBucket
      <4>2. bucket.minimum # Gap /\ bucket.maximum # Gap
        BY <1>1, <2>3, <4>1 DEF Extremes
      <4>3. bucket.minimum \in candidates' /\ bucket.maximum \in candidates'
        BY <2>3, <4>2 DEF addBucketCandidates
      <4>4. \A k \in Minutes : InBucket(k) =>
              k - i < BucketSize /\ i - k < BucketSize
        BY <1>2, <1>3, <3>2, <2>3 DEF InBucket, Minutes
      <4>5. bucket.minimum \in Minutes /\ bucket.maximum \in Minutes
        BY <1>1, <4>2 DEF TypeOK
      <4>6. /\ InBucket(bucket.minimum) /\ Finite(bucket.minimum)
            /\ record[bucket.minimum] <= record[i]
        BY <1>1, <2>3, <4>1, <4>2 DEF Extremes
      <4>7. /\ InBucket(bucket.maximum) /\ Finite(bucket.maximum)
            /\ record[bucket.maximum] >= record[i]
        BY <1>1, <2>3, <4>1, <4>2 DEF Extremes
      <4> QED
        BY <1>4, <1>6, <4>3, <4>4, <4>5, <4>6, <4>7 DEF KeptNear
    <3> QED
      BY <3>1, <3>2, <1>2, <2>3 DEF Minutes
  <2> QED
    BY <1>4, <1>6, <2>1, <2>2, <2>3 DEF Extremes, EmptyBucket
<1> QED
  BY <1>8, <1>9, <1>10, <1>11, <1>12 DEF ChartInv

LEMMA ChartInductive ==
    ASSUME ChartInv, [Next]_vars PROVE ChartInv'
<1>1. ASSUME UNCHANGED vars PROVE ChartInv'
  BY <1>1 DEF ChartInv, TypeOK, Reading, Counted, Remembered, Separated, Extremes,
     Minutes, Finite, InBucket, KeptNear, BucketStart, BucketEnd, BucketSize,
     BucketCount, Reduced, Finished, vars
<1> QED
  BY <1>1, MissingMinuteKeeps, FiniteMinuteKeeps, CloseBucketKeeps DEF Next

LEMMA ChartInvariant == Spec => []ChartInv
  BY InitChartInv, ChartInductive, PTL DEF Spec

(***************************************************************************)
(* Theorems.                                                               *)
(***************************************************************************)
\* The loop keeps its types and reads no minute beyond the range.
THEOREM ChartTypeCorrect == Spec => []TypeOK
<1>1. ChartInv => TypeOK
  BY DEF ChartInv
<1> QED
  BY ChartInvariant, <1>1, PTL

\* A line of any length, reduced to any budget, is broken exactly where
\* minutes are missing, and its isolated points are the isolated minutes.
THEOREM BreaksExactlyHolds == Spec => []BreaksExactly
<1>1. ASSUME ChartInv, Finished,
             NEW i \in candidates, NEW j \in candidates, Neighbours(i, j)
      PROVE  /\ \A k \in i .. j : (Finite(i) /\ Finite(j)) => Finite(k)
             /\ Finite(i) => (Finite(j) <=> Finite(i + 1))
             /\ Finite(j) => (Finite(i) <=> Finite(j - 1))
  <2>1. /\ TypeOK /\ Separated /\ index = minuteCount /\ minuteCount \in Nat
        /\ index \in Nat
    BY <1>1, BucketBounds DEF ChartInv, Reading
  <2>2. /\ i \in 0 .. index - 1 /\ j \in 0 .. index - 1 /\ i < j
        /\ i \in Int /\ j \in Int
        /\ \A k \in candidates : ~(i < k /\ k < j)
    BY <1>1, <2>1 DEF TypeOK, Minutes, Neighbours
  <2>3. ASSUME NEW k \in 0 .. index - 1, i < k, k < j, Finite(i) PROVE Finite(k)
    BY <2>1, <2>2, <2>3 DEF Separated, TypeOK, Minutes
  <2>4. ASSUME NEW k \in 0 .. index - 1, i < k, k < j, Finite(k) PROVE Finite(i)
    BY <2>1, <2>2, <2>4 DEF Separated, TypeOK, Minutes
  <2>5. ASSUME NEW k \in 0 .. index - 1, i < k, k < j, Finite(k) PROVE Finite(j)
    BY <2>1, <2>2, <2>5 DEF Separated, TypeOK, Minutes
  <2>6. ASSUME NEW k \in i .. j, Finite(i), Finite(j) PROVE Finite(k)
    <3>1. CASE k = i \/ k = j
      BY <2>6, <3>1
    <3>2. CASE k # i /\ k # j
      <4>1. k \in 0 .. index - 1 /\ i < k /\ k < j
        BY <2>1, <2>2, <3>2
      <4> QED
        BY <2>3, <2>6, <4>1
    <3> QED
      BY <3>1, <3>2
  <2>7. CASE j = i + 1
    BY <2>2, <2>6, <2>7
  <2>8. CASE j # i + 1
    <3>1. /\ i + 1 \in 0 .. index - 1 /\ i < i + 1 /\ i + 1 < j
          /\ j - 1 \in 0 .. index - 1 /\ i < j - 1 /\ j - 1 < j
      BY <2>1, <2>2, <2>8
    <3>2. Finite(i) => Finite(i + 1) /\ Finite(j - 1)
      BY <3>1, <2>3
    <3>3. Finite(j - 1) => Finite(i)
      BY <3>1, <2>4
    <3>4. Finite(i + 1) => Finite(j)
      BY <3>1, <2>5
    <3> QED
      BY <2>6, <3>2, <3>3, <3>4
  <2> QED
    BY <2>7, <2>8
<1>2. ASSUME ChartInv, Finished, NEW i \in candidates
      PROVE  IsolatedPoint(i) <=>
               /\ Finite(i)
               /\ i > 0 => ~Finite(i - 1)
               /\ i < minuteCount - 1 => ~Finite(i + 1)
  <2>1. /\ TypeOK /\ Separated /\ minuteCount \in Nat
        /\ candidates \subseteq 0 .. minuteCount - 1
    BY <1>2, BucketBounds DEF ChartInv, TypeOK, Minutes
  <2>2. ASSUME i > 0 PROVE \E j \in candidates : Neighbours(j, i)
    <3> DEFINE T == {k \in candidates : k < i}
    <3>1. T \in SUBSET Nat /\ \A x \in T : x <= minuteCount
      <4>1. \A k \in candidates : k \in Nat /\ k <= minuteCount
        BY <2>1
      <4> QED
        BY <4>1, Zenon
    <3>4. 0 \in T
      BY <2>1, <2>2 DEF Separated
    <3>2. \E j \in T : \A k \in T : k <= j
      <4> HIDE DEF T
      <4> QED
        BY <2>1, <3>1, <3>4, Greatest
    <3>3. PICK j \in T : \A k \in T : k <= j
      BY <3>2
    <3>5. j \in candidates /\ j < i /\ \A k \in candidates : ~(j < k /\ k < i)
      BY <2>1, <3>3
    <3> QED
      BY <3>5 DEF Neighbours
  <2>3. ASSUME i < minuteCount - 1 PROVE \E j \in candidates : Neighbours(i, j)
    <3> DEFINE T == {k \in candidates : i < k}
    <3>1. T \in SUBSET Nat
      <4>1. \A k \in candidates : k \in Nat
        BY <2>1
      <4> QED
        BY <4>1, Zenon
    <3>4. minuteCount - 1 \in T
      BY <2>1, <2>3 DEF Separated
    <3>5. \E j \in T : \A k \in T : j <= k
      <4> HIDE DEF T
      <4> QED
        BY <3>1, <3>4, Least
    <3>2. PICK j \in T : \A k \in T : j <= k
      BY <3>5
    <3>3. j \in candidates /\ i < j /\ \A k \in candidates : ~(i < k /\ k < j)
      BY <2>1, <3>2
    <3> QED
      BY <3>3 DEF Neighbours
  <2>4. ASSUME NEW j \in candidates, Neighbours(j, i), Finite(i)
        PROVE  i > 0 /\ (Finite(j) <=> Finite(i - 1))
    BY <1>1, <1>2, <2>1, <2>4 DEF Neighbours
  <2>5. ASSUME NEW j \in candidates, Neighbours(i, j), Finite(i)
        PROVE  i < minuteCount - 1 /\ (Finite(j) <=> Finite(i + 1))
    BY <1>1, <1>2, <2>1, <2>5 DEF Neighbours
  <2> QED
    BY <2>2, <2>3, <2>4, <2>5 DEF IsolatedPoint
<1>3. ChartInv => BreaksExactly
  BY <1>1, <1>2 DEF BreaksExactly
<1> QED
  BY ChartInvariant, <1>3, PTL

\* No peak and no dip of a line of any length is lost.
THEOREM PeaksKeptHolds == Spec => []PeaksKept
<1>1. ASSUME ChartInv, Finished, NEW i \in Minutes, Finite(i) PROVE KeptNear(i)
  <2>1. index = minuteCount /\ TypeOK /\ Extremes
    BY <1>1 DEF ChartInv, Reading
  <2>2. i < index /\ i < BucketStart
    BY <1>1, <2>1, BucketBounds, TypeGivesSizes, BucketsCover
    DEF Minutes, BucketStart, Finished
  <2>3. CASE Reduced
    BY <1>1, <2>1, <2>2, <2>3 DEF Extremes
  <2>4. CASE ~Reduced
    \* Every minute is a point.
    <3>1. i \in candidates
      BY <1>1, <2>1, <2>4 DEF Extremes
    <3>2. record[i] \in Int
      BY <1>1, <2>1, ValuesAssumption DEF TypeOK, Finite
    <3>3. BucketSize \in Nat \ {0} /\ i \in Int
      BY <2>1, <1>1, BucketBounds DEF Minutes
    <3> QED
      BY <1>1, <3>1, <3>2, <3>3 DEF KeptNear
  <2> QED
    BY <2>3, <2>4
<1>2. ChartInv => PeaksKept
  BY <1>1 DEF PeaksKept
<1> QED
  BY ChartInvariant, <1>2, PTL

(***************************************************************************)
(* The number of points.                                                   *)
(***************************************************************************)
\* The runs that have begun among the first n minutes of the range.
GapRunsTo(n) == {i \in 0 .. n - 1 : ~Finite(i) /\ (i > 0 => Finite(i - 1))}
FiniteRunsTo(n) == {i \in 0 .. n - 1 : Finite(i) /\ (i > 0 => ~Finite(i - 1))}

\* Two minutes are kept of a run of values, one of a gap, four of a bucket and
\* the ends of the range.  The end of the run being read is still to come.
PointsInv ==
    Reduced =>
      Cardinality(candidates)
          + (IF index > 0 /\ ~gapOpen THEN 1 ELSE 0)
        <= CandidatesPerBucket * bucketIndex + 2
             + Cardinality(GapRunsTo(index))
             + 2 * Cardinality(FiniteRunsTo(index))

\* Room enough for one bucket, whatever the width.
BudgetInv == pointBudget >= CandidatesPerBucket + 2

LEMMA RunsFinite ==
    ASSUME NEW n \in Nat
    PROVE  /\ IsFiniteSet(GapRunsTo(n)) /\ Cardinality(GapRunsTo(n)) \in Nat
           /\ IsFiniteSet(FiniteRunsTo(n)) /\ Cardinality(FiniteRunsTo(n)) \in Nat
<1>1. IsFiniteSet(0 .. n - 1)
  BY FS_Interval
<1>2. GapRunsTo(n) \in SUBSET (0 .. n - 1) /\ FiniteRunsTo(n) \in SUBSET (0 .. n - 1)
  BY DEF GapRunsTo, FiniteRunsTo
<1> QED
  BY <1>1, <1>2, FS_Subset, FS_CardinalityType

LEMMA CandidatesFinite ==
    ASSUME TypeOK
    PROVE  IsFiniteSet(candidates) /\ Cardinality(candidates) \in Nat
<1>1. minuteCount \in Nat
  BY BucketBounds
<1>2. IsFiniteSet(Minutes)
  BY <1>1, FS_Interval DEF Minutes
<1> QED
  BY <1>2, FS_Subset, FS_CardinalityType DEF TypeOK


LEMMA AddOne ==
    ASSUME NEW S, IsFiniteSet(S), NEW a
    PROVE  /\ IsFiniteSet(S \cup {a}) /\ Cardinality(S \cup {a}) \in Nat
           /\ Cardinality(S) \in Nat
           /\ Cardinality(S \cup {a}) <= Cardinality(S) + 1
           /\ a \notin S => Cardinality(S \cup {a}) = Cardinality(S) + 1
<1>1. IsFiniteSet(S \cup {a}) /\ Cardinality(S) \in Nat
  BY FS_AddElement, FS_CardinalityType
<1>2. Cardinality(S \cup {a}) = IF a \in S THEN Cardinality(S) ELSE Cardinality(S) + 1
  BY FS_AddElement
<1> QED
  BY <1>1, <1>2

LEMMA AddTwo ==
    ASSUME NEW S, IsFiniteSet(S), NEW a, NEW b
    PROVE  /\ IsFiniteSet(S \cup {a, b}) /\ Cardinality(S \cup {a, b}) \in Nat
           /\ Cardinality(S \cup {a, b}) <= Cardinality(S) + 2
<1> DEFINE T == S \cup {a}
<1>1. /\ IsFiniteSet(T) /\ Cardinality(S) \in Nat /\ Cardinality(T) \in Nat
      /\ Cardinality(T) <= Cardinality(S) + 1
  BY AddOne
<1>2. S \cup {a, b} = T \cup {b}
  OBVIOUS
<1> HIDE DEF T
<1>3. /\ IsFiniteSet(T \cup {b}) /\ Cardinality(T \cup {b}) \in Nat
      /\ Cardinality(T \cup {b}) <= Cardinality(T) + 1
  BY <1>1, AddOne
<1> QED
  BY <1>1, <1>2, <1>3

\* Reading a minute leaves the runs that began before it.
LEMMA RunsStep ==
    ASSUME index \in Nat, index' = index + 1,
           \A i \in 0 .. index - 1 : record'[i] = record[i]
    PROVE  /\ record'[index] = Gap =>
                /\ FiniteRunsTo(index)' = FiniteRunsTo(index)
                /\ GapRunsTo(index)' =
                     IF index > 0 => Finite(index - 1)
                     THEN GapRunsTo(index) \cup {index} ELSE GapRunsTo(index)
           /\ record'[index] # Gap =>
                /\ GapRunsTo(index)' = GapRunsTo(index)
                /\ FiniteRunsTo(index)' =
                     IF index > 0 => ~Finite(index - 1)
                     THEN FiniteRunsTo(index) \cup {index} ELSE FiniteRunsTo(index)
<1>1. index' - 1 = index /\ 0 .. index' - 1 = (0 .. index - 1) \cup {index}
  OBVIOUS
<1>2. \A i \in 0 .. index : i > 0 => i - 1 \in 0 .. index - 1
  OBVIOUS
<1> DEFINE begins(i) == i > 0 => Finite(i - 1)
           ends(i) == i > 0 => ~Finite(i - 1)
<1>3. /\ GapRunsTo(index)' = {i \in 0 .. index' - 1 : record'[i] = Gap /\ begins(i)}
      /\ FiniteRunsTo(index)' = {i \in 0 .. index' - 1 : record'[i] # Gap /\ ends(i)}
  BY <1>1, <1>2 DEF GapRunsTo, FiniteRunsTo, Finite
<1>4. /\ GapRunsTo(index) = {i \in 0 .. index - 1 : record'[i] = Gap /\ begins(i)}
      /\ FiniteRunsTo(index) = {i \in 0 .. index - 1 : record'[i] # Gap /\ ends(i)}
  BY DEF GapRunsTo, FiniteRunsTo, Finite
<1> HIDE DEF begins, ends
<1>5. ASSUME record'[index] = Gap
      PROVE  /\ FiniteRunsTo(index)' = FiniteRunsTo(index)
             /\ GapRunsTo(index)' =
                  IF begins(index) THEN GapRunsTo(index) \cup {index}
                  ELSE GapRunsTo(index)
  <2>1. FiniteRunsTo(index)' = FiniteRunsTo(index)
    BY <1>1, <1>3, <1>4, <1>5
  <2>2. CASE begins(index)
    BY <1>1, <1>3, <1>4, <1>5, <2>1, <2>2
  <2>3. CASE ~begins(index)
    BY <1>1, <1>3, <1>4, <1>5, <2>1, <2>3
  <2> QED
    BY <2>2, <2>3
<1>6. ASSUME record'[index] # Gap
      PROVE  /\ GapRunsTo(index)' = GapRunsTo(index)
             /\ FiniteRunsTo(index)' =
                  IF ends(index) THEN FiniteRunsTo(index) \cup {index}
                  ELSE FiniteRunsTo(index)
  <2>1. GapRunsTo(index)' = GapRunsTo(index)
    BY <1>1, <1>3, <1>4, <1>6
  <2>2. CASE ends(index)
    BY <1>1, <1>3, <1>4, <1>6, <2>1, <2>2
  <2>3. CASE ~ends(index)
    BY <1>1, <1>3, <1>4, <1>6, <2>1, <2>3
  <2> QED
    BY <2>2, <2>3
<1> QED
  BY <1>5, <1>6 DEF begins, ends

\* The minute being read begins no run counted before.
LEMMA NewRun ==
    ASSUME NEW n \in Nat
    PROVE  /\ n \notin GapRunsTo(n) /\ n \notin FiniteRunsTo(n)
           /\ Cardinality(GapRunsTo(n) \cup {n}) = Cardinality(GapRunsTo(n)) + 1
           /\ Cardinality(FiniteRunsTo(n) \cup {n})
                = Cardinality(FiniteRunsTo(n)) + 1
<1>1. n \notin GapRunsTo(n) /\ n \notin FiniteRunsTo(n)
  BY DEF GapRunsTo, FiniteRunsTo
<1> QED
  BY <1>1, RunsFinite, AddOne

LEMMA PointsMissing ==
    ASSUME ChartInv, PointsInv, MissingMinute
    PROVE  PointsInv'
<1> DEFINE G == Cardinality(GapRunsTo(index))
           R == Cardinality(FiniteRunsTo(index))
           P == Cardinality(candidates)
           B == CandidatesPerBucket * bucketIndex
<1>1. /\ TypeOK /\ Remembered
      /\ index \in Nat /\ ~Finite(index) /\ bucketIndex \in Nat
  BY BucketBounds DEF ChartInv, TypeOK, Reading, Counted, MissingMinute, Minutes
<1>2. /\ index' = index + 1 /\ record' = record /\ gapOpen' = TRUE
      /\ candidates' = candidates \cup
           (IF gapOpen THEN {} ELSE {index, lastFiniteIndex} \ {Gap})
      /\ UNCHANGED <<minuteCount, pointBudget, bucketIndex>>
  BY DEF MissingMinute
<1>3. Reduced' = Reduced
  BY <1>2, PlanFixed
<1>4. /\ IsFiniteSet(candidates) /\ P \in Nat /\ G \in Nat /\ R \in Nat
  BY <1>1, CandidatesFinite, RunsFinite
<1>5. record'[index] = Gap
  BY <1>1, <1>2 DEF Finite
<1>6. /\ FiniteRunsTo(index)' = FiniteRunsTo(index)
      /\ GapRunsTo(index)' = IF index > 0 => Finite(index - 1)
                             THEN GapRunsTo(index) \cup {index} ELSE GapRunsTo(index)
  BY <1>1, <1>2, <1>5, RunsStep
<1>7. index > 0 /\ gapOpen => ~Finite(index - 1)
  BY <1>1 DEF Remembered
<1>8. CASE gapOpen
  <2>1. candidates' = candidates /\ index > 0
    BY <1>1, <1>2, <1>8 DEF Remembered
  <2>2. GapRunsTo(index)' = GapRunsTo(index)
    BY <1>6, <1>7, <1>8, <2>1
  <2> QED
    BY <1>2, <1>3, <1>6, <1>8, <2>1, <2>2 DEF PointsInv
<1>9. CASE ~gapOpen
  <2>1. GapRunsTo(index)' = GapRunsTo(index) \cup {index}
    BY <1>1, <1>6, <1>9 DEF Remembered
  <2>2. Cardinality(GapRunsTo(index)') = G + 1
    BY <1>1, <2>1, NewRun
  <2>3. /\ Cardinality(candidates') \in Nat
        /\ Cardinality(candidates') <= P + (IF index > 0 THEN 2 ELSE 1)
    <3>1. CASE index > 0
      <4>1. lastFiniteIndex # Gap
        <5>1. index - 1 \in 0 .. index - 1 /\ Finite(index - 1)
          BY <1>1, <1>9, <3>1 DEF Remembered
        <5> QED
          BY <1>1, <5>1 DEF Remembered
      <4>2. candidates' = candidates \cup {index, lastFiniteIndex}
        BY <1>1, <1>2, <1>9, <4>1, ValuesAssumption
      <4> QED
        BY <1>4, <3>1, <4>2, AddTwo
    <3>2. CASE index = 0
      <4>1. lastFiniteIndex = Gap
        <5>1. lastFiniteIndex \in Minutes \cup {Gap}
          BY <1>1 DEF TypeOK
        <5>2. \A i \in Minutes : ~(i < 0)
          BY DEF Minutes
        <5> QED
          BY <1>1, <3>2, <5>1, <5>2 DEF Remembered
      <4>2. candidates' = candidates \cup {index}
        BY <1>1, <1>2, <1>9, <4>1, ValuesAssumption
      <4> QED
        BY <1>4, <3>2, <4>2, AddOne
    <3> QED
      BY <1>1, <3>1, <3>2
  <2>4. SUFFICES ASSUME Reduced
                 PROVE  Cardinality(candidates') <= B + 2 + (G + 1) + 2 * R
    BY <1>2, <1>3, <1>4, <1>6, <2>2, <2>3 DEF PointsInv, CandidatesPerBucket
  <2>5. P + (IF index > 0 THEN 1 ELSE 0) <= B + 2 + G + 2 * R
    BY <1>9, <2>4 DEF PointsInv
  <2>6. B \in Nat
    BY <1>1 DEF CandidatesPerBucket
  <2> HIDE DEF B, G, R, P
  <2> QED
    BY <1>4, <2>3, <2>5, <2>6
<1> QED
  BY <1>8, <1>9

LEMMA PointsFinite ==
    ASSUME ChartInv, PointsInv, FiniteMinute
    PROVE  PointsInv'
<1> DEFINE G == Cardinality(GapRunsTo(index))
           R == Cardinality(FiniteRunsTo(index))
           P == Cardinality(candidates)
           B == CandidatesPerBucket * bucketIndex
<1>1. /\ TypeOK /\ Remembered
      /\ index \in Nat /\ index \in Minutes /\ bucketIndex \in Nat
  BY BucketBounds DEF ChartInv, TypeOK, Reading, FiniteMinute, Minutes
<1>2. PICK value \in Values : record' = [record EXCEPT ![index] = value]
  BY DEF FiniteMinute
<1>3. /\ index' = index + 1 /\ gapOpen' = FALSE
      /\ candidates' = candidates \cup (IF gapOpen THEN {index} ELSE {})
      /\ UNCHANGED <<minuteCount, pointBudget, bucketIndex>>
  BY DEF FiniteMinute
<1>4. Reduced' = Reduced
  BY <1>3, PlanFixed
<1>5. /\ IsFiniteSet(candidates) /\ P \in Nat /\ G \in Nat /\ R \in Nat
  BY <1>1, CandidatesFinite, RunsFinite
<1>6. /\ record'[index] # Gap
      /\ \A i \in 0 .. index - 1 : record'[i] = record[i]
  <2>1. DOMAIN record = Minutes /\ value # Gap
    BY <1>1, ValuesAssumption DEF TypeOK
  <2>2. \A i \in 0 .. index - 1 : i # index
    BY <1>1
  <2> QED
    BY <1>1, <1>2, <2>1, <2>2
<1>7. /\ GapRunsTo(index)' = GapRunsTo(index)
      /\ FiniteRunsTo(index)' =
           IF index > 0 => ~Finite(index - 1)
           THEN FiniteRunsTo(index) \cup {index} ELSE FiniteRunsTo(index)
  BY <1>1, <1>3, <1>6, RunsStep
<1>8. Cardinality(FiniteRunsTo(index)') = R + 1 \/ (index > 0 /\ Finite(index - 1)
        /\ Cardinality(FiniteRunsTo(index)') = R)
  BY <1>1, <1>7, NewRun
<1>9. B \in Nat
  BY <1>1 DEF CandidatesPerBucket
<1>10. SUFFICES ASSUME Reduced
                PROVE  Cardinality(candidates') + 1
                         <= B + 2 + G + 2 * Cardinality(FiniteRunsTo(index)')
  <2>1. index' > 0
    BY <1>1, <1>3
  <2> QED
    BY <1>3, <1>4, <1>7, <1>10, <2>1 DEF PointsInv
<1>11. P + (IF index > 0 /\ ~gapOpen THEN 1 ELSE 0) <= B + 2 + G + 2 * R
  BY <1>10 DEF PointsInv
<1>12. CASE gapOpen
  <2>1. index > 0 /\ ~Finite(index - 1)
    BY <1>1, <1>12 DEF Remembered
  <2>2. /\ Cardinality(candidates') \in Nat /\ Cardinality(candidates') <= P + 1
    BY <1>3, <1>5, <1>12, AddOne
  <2>3. Cardinality(FiniteRunsTo(index)') = R + 1
    BY <1>8, <2>1
  <2> HIDE DEF B, G, R, P
  <2> QED
    BY <1>5, <1>9, <1>11, <1>12, <2>2, <2>3
<1>13. CASE ~gapOpen
  <2>1. Cardinality(candidates') = P
    BY <1>3, <1>13
  <2>2. CASE index > 0
    <3> HIDE DEF B, G, R, P
    <3> QED
      BY <1>5, <1>8, <1>9, <1>11, <1>13, <2>1, <2>2
  <2>3. CASE index = 0
    <3>1. Cardinality(FiniteRunsTo(index)') = R + 1
      BY <1>8, <2>3
    <3> HIDE DEF B, G, R, P
    <3> QED
      BY <1>5, <1>9, <1>11, <2>1, <2>3, <3>1
  <2> QED
    BY <1>1, <2>2, <2>3
<1> QED
  BY <1>12, <1>13

LEMMA PointsClose ==
    ASSUME ChartInv, PointsInv, CloseBucket
    PROVE  PointsInv'
<1> DEFINE S == candidates \cup {bucket.first, bucket.last}
           T == S \cup {bucket.minimum, bucket.maximum}
<1>1. /\ TypeOK /\ index \in Nat /\ bucketIndex \in Nat
  BY BucketBounds DEF ChartInv, TypeOK
<1>2. /\ bucketIndex' = bucketIndex + 1
      /\ candidates' = IF Reduced THEN addBucketCandidates ELSE candidates
      /\ UNCHANGED <<minuteCount, pointBudget, record, index, gapOpen>>
  BY DEF CloseBucket
<1>3. Reduced' = Reduced
  BY <1>2, PlanFixed
<1>4. GapRunsTo(index)' = GapRunsTo(index) /\ FiniteRunsTo(index)' = FiniteRunsTo(index)
  BY <1>2 DEF GapRunsTo, FiniteRunsTo, Finite
<1>5. /\ IsFiniteSet(candidates) /\ Cardinality(candidates) \in Nat
      /\ Cardinality(GapRunsTo(index)) \in Nat /\ Cardinality(FiniteRunsTo(index)) \in Nat
  BY <1>1, CandidatesFinite, RunsFinite
<1>6. SUFFICES ASSUME Reduced
               PROVE  Cardinality(candidates') \in Nat
                      /\ Cardinality(candidates') <= Cardinality(candidates) + 4
  BY <1>1, <1>2, <1>3, <1>4, <1>5 DEF PointsInv, CandidatesPerBucket
<1>7. /\ IsFiniteSet(S) /\ Cardinality(S) \in Nat
      /\ Cardinality(S) <= Cardinality(candidates) + 2
  BY <1>5, AddTwo
<1>8. candidates' \in SUBSET T
  BY <1>2, <1>6 DEF addBucketCandidates
<1>9. /\ IsFiniteSet(T) /\ Cardinality(T) \in Nat /\ Cardinality(T) <= Cardinality(S) + 2
  <2> HIDE DEF S
  <2> QED
    BY <1>7, AddTwo
<1> HIDE DEF S, T
<1>10. IsFiniteSet(candidates') /\ Cardinality(candidates') <= Cardinality(T)
  BY <1>8, <1>9, FS_Subset
<1>11. Cardinality(candidates') \in Nat
  BY <1>10, FS_CardinalityType
<1> QED
  BY <1>5, <1>7, <1>9, <1>10, <1>11

LEMMA InitPoints ==
    ASSUME Init PROVE PointsInv /\ BudgetInv
<1>1. ChartInv
  BY InitChartInv
<1>2. PointsInv
  <2>1. SUFFICES ASSUME Reduced PROVE Cardinality(candidates) <= 2
    <3>1. index = 0 /\ bucketIndex = 0 /\ 0 \in Nat
      BY DEF Init
    <3>2. /\ Cardinality(GapRunsTo(index)) \in Nat
          /\ Cardinality(FiniteRunsTo(index)) \in Nat
          /\ Cardinality(candidates) \in Nat
      BY <1>1, <3>1, RunsFinite, CandidatesFinite DEF ChartInv
    <3> QED
      BY <2>1, <3>1, <3>2 DEF PointsInv, CandidatesPerBucket
  <2>2. candidates = {} \cup {0, minuteCount - 1}
    BY <2>1 DEF Init
  <2>3. Cardinality({} \cup {0, minuteCount - 1}) <= Cardinality({}) + 2
    BY FS_EmptySet, AddTwo, Zenon
  <2> QED
    BY <2>2, <2>3, FS_EmptySet
<1>3. BudgetInv
  <2>1. PICK w \in Widths : pointBudget = chartPointBudget(w)
    BY DEF Init
  <2> DEFINE safe == IF w > 0 THEN w ELSE DefaultChartWidth
  <2>2. safe \in Nat /\ PointsPerPixel \in Nat
    BY RangeAssumption
  <2>3. safe * PointsPerPixel \in Nat
    <3> HIDE DEF safe
    <3> QED BY <2>2, SMT
  <2>4. MinPointBudget \in Nat /\ MaxPointBudget \in Nat
    BY RangeAssumption
  <2>5. pointBudget >= MinPointBudget
    BY <2>1, <2>3, <2>4, BudgetAssumption DEF chartPointBudget
  <2>6. pointBudget \in Nat
    BY <1>1 DEF ChartInv, TypeOK
  <2> QED
    BY <2>4, <2>5, <2>6, BudgetAssumption DEF BudgetInv, CandidatesPerBucket
<1> QED
  BY <1>2, <1>3

\* A reduced line has no more points than the comment at chartSeries.ts:165
\* derives: four of each bucket, the ends of the range, one of each gap and two
\* of each run of values; and the buckets are within the budget of the width.
THEOREM WithinBudgetHolds == Spec => []WithinBudget
<1> DEFINE Points == ChartInv /\ PointsInv /\ BudgetInv
<1>1. Init => Points
  BY InitChartInv, InitPoints
<1>2. Points /\ [Next]_vars => Points'
  <2> SUFFICES ASSUME Points, [Next]_vars PROVE Points'
    OBVIOUS
  <2>1. ChartInv'
    BY ChartInductive
  <2>2. BudgetInv'
    BY DEF BudgetInv, Next, MissingMinute, FiniteMinute, CloseBucket, vars
  <2>3. UNCHANGED vars => PointsInv'
    BY DEF PointsInv, Reduced, GapRunsTo, FiniteRunsTo, Finite, vars
  <2> QED
    BY <2>1, <2>2, <2>3, PointsMissing, PointsFinite, PointsClose DEF Next
<1>3. Points => WithinBudget
  <2> SUFFICES ASSUME Points, Finished, Reduced
               PROVE  LET points == Cardinality(candidates)
                          runs == Cardinality(GapRuns) + 2 * Cardinality(FiniteRuns)
                      IN /\ points <= CandidatesPerBucket * BucketCount + 2 + runs
                         /\ points <= pointBudget + runs
    BY DEF WithinBudget
  <2>1. /\ TypeOK /\ index = minuteCount /\ index \in Nat
        /\ bucketIndex = BucketCount /\ BucketCount \in Nat /\ pointBudget \in Nat
    BY BucketBounds DEF ChartInv, TypeOK, Reading, Finished
  <2>2. GapRuns = GapRunsTo(index) /\ FiniteRuns = FiniteRunsTo(index)
    BY <2>1 DEF GapRuns, GapRunsTo, FiniteRuns, FiniteRunsTo, Minutes
  <2>3. /\ Cardinality(candidates) \in Nat
        /\ Cardinality(GapRuns) \in Nat /\ Cardinality(FiniteRuns) \in Nat
    BY <2>1, <2>2, CandidatesFinite, RunsFinite
  <2>4. CandidatesPerBucket * BucketCount + 2 <= pointBudget
    BY <2>1 DEF BudgetInv, BucketCount, CandidatesPerBucket
  <2>5. Cardinality(candidates) <= CandidatesPerBucket * BucketCount + 2
          + Cardinality(GapRuns) + 2 * Cardinality(FiniteRuns)
    BY <2>1, <2>2, <2>3 DEF PointsInv, CandidatesPerBucket
  <2> QED
    BY <2>1, <2>3, <2>4, <2>5 DEF CandidatesPerBucket
<1> QED
  BY <1>1, <1>2, <1>3, PTL DEF Spec
================================================================================
