----------------------------- MODULE ConsoleProofs -----------------------------
(***************************************************************************)
(* The one-time token, the list of the servers and the administrator, for  *)
(* any number of servers, requests, visits and browsers.                   *)
(***************************************************************************)
EXTENDS Console, FiniteSetTheorems, TLAPS

\* A token on its way to the browser is the one its server has.
Delivering ==
    \A r \in Requests :
      InFlight(r, TokenKinds) /\ requests[r].stage = "done" =>
        /\ requests[r].server \in Servers /\ requests[r].name \in Names
        /\ \/ rows[requests[r].server] = Nil
           \/ tokenOf[requests[r].server] = requests[r].token

\* What a request in flight knows of its server.
Aimed ==
    \A r \in Requests :
      /\ InFlight(r, RowKinds) => requests[r].server \in Servers
      /\ InFlight(r, {"create", "rename", "rotate"}) => requests[r].name \in Names

\* A deleted row stays away, since no id is given out twice.
GoneForGood ==
    /\ \A s \in Servers : rows[s] # Nil => s \in given
    /\ \A r \in Requests :
         InFlight(r, {"delete"}) /\ requests[r].stage = "done" =>
           requests[r].server \in given /\ rows[requests[r].server] = Nil

IInv ==
    /\ AdminTypeOK /\ LockExact
    /\ Delivering /\ Aimed /\ GoneForGood /\ TokenIsCurrent

USE DEF backend, lock, controls, collection

(***************************************************************************)
(* Requests.                                                               *)
(***************************************************************************)
Kinds == RowKinds \cup {"none", "list", "create"}

LEMMA FreshRequests ==
    /\ Empty \in Tables
    /\ NoRequest \in RequestStates /\ NoRequest.kind = "none"
    /\ \A kind \in Kinds :
         /\ NewRequest(kind) \in RequestStates
         /\ NewRequest(kind).kind = kind /\ NewRequest(kind).stage = "sent"
         /\ \A s \in Servers :
              /\ RowRequest(kind, s) \in RequestStates
              /\ RowRequest(kind, s).kind = kind /\ RowRequest(kind, s).server = s
              /\ RowRequest(kind, s).stage = "sent"
  BY ZenonT(60) DEF Empty, Tables, NoRequest, NewRequest, RowRequest, RequestStates, Kinds, RowKinds

Same(p, n) ==
    /\ n.kind = p.kind /\ n.server = p.server /\ n.name = p.name
    /\ n.stage = p.stage /\ n.token = p.token

\* A request that goes on, ends as no token request would, or begins as none.
Quiet(p, n) ==
    \/ Same(p, n)
    \/ /\ p.kind \notin TokenKinds
       /\ \/ n.kind \in {"none", "list"}
          \/ /\ n.kind \in {"rename", "toggle", "delete"}
             /\ n.stage = "sent" /\ n.server \in Servers
             /\ n.kind = "rename" => n.name \in Names

\* The three flags do not touch the rest of a request.
LEMMA Flags ==
    ASSUME NEW p \in RequestStates, NEW b \in BOOLEAN
    PROVE  /\ [p EXCEPT !.current = b] \in RequestStates
           /\ Same(p, [p EXCEPT !.current = b])
           /\ [p EXCEPT !.superseded = b] \in RequestStates
           /\ Same(p, [p EXCEPT !.superseded = b])
           /\ [p EXCEPT !.overtaken = b] \in RequestStates
           /\ Same(p, [p EXCEPT !.overtaken = b])
           /\ p.superseded \in BOOLEAN /\ p.overtaken \in BOOLEAN
  BY DEF RequestStates, Same

LEMMA OvertakenRequests ==
    ASSUME NEW reqs \in [Requests -> RequestStates]
    PROVE  /\ Overtaken(reqs) \in [Requests -> RequestStates]
           /\ \A q \in Requests : Same(reqs[q], Overtaken(reqs)[q])
<1>1. SUFFICES ASSUME NEW q \in Requests
               PROVE  /\ Overtaken(reqs)[q] \in RequestStates
                      /\ Same(reqs[q], Overtaken(reqs)[q])
  BY DEF Overtaken
<1>2. PICK b \in BOOLEAN : Overtaken(reqs)[q] = [reqs[q] EXCEPT !.overtaken = b]
  <2>1. reqs[q].overtaken \in BOOLEAN
    BY Flags
  <2> QED
    BY <2>1 DEF Overtaken
<1>3. reqs[q] \in RequestStates
  OBVIOUS
<1> QED
  BY <1>2, <1>3, Flags

LEMMA OrphanedRequests ==
    ASSUME NEW reqs \in [Requests -> RequestStates]
    PROVE  /\ Orphaned(reqs) \in [Requests -> RequestStates]
           /\ \A q \in Requests :
                \/ Same(reqs[q], Orphaned(reqs)[q])
                \/ reqs[q].kind = "list" /\ Orphaned(reqs)[q].kind = "none"
<1>1. SUFFICES ASSUME NEW q \in Requests
               PROVE  /\ Orphaned(reqs)[q] \in RequestStates
                      /\ \/ Same(reqs[q], Orphaned(reqs)[q])
                         \/ reqs[q].kind = "list" /\ Orphaned(reqs)[q].kind = "none"
  BY DEF Orphaned
<1>2. CASE reqs[q].kind = "list"
  BY <1>2, FreshRequests DEF Orphaned
<1>3. CASE reqs[q].kind # "list"
  <2>1. Orphaned(reqs)[q] = [reqs[q] EXCEPT !.current = FALSE]
    BY <1>3 DEF Orphaned
  <2> QED
    BY <2>1, Flags
<1> QED
  BY <1>2, <1>3

LEMMA WithoutRequest ==
    ASSUME NEW r \in Requests, requests \in [Requests -> RequestStates]
    PROVE  /\ Without(r) \in [Requests -> RequestStates]
           /\ Without(r)[r].kind = "none"
           /\ \A q \in Requests : q # r => Without(r)[q] = requests[q]
  BY FreshRequests DEF Without

LEMMA MountedPage ==
    ASSUME NEW reqs \in [Requests -> RequestStates], MountPage(reqs)
    PROVE  /\ requests' \in [Requests -> RequestStates]
           /\ \A q \in Requests :
                \/ Same(reqs[q], requests'[q])
                \/ reqs[q].kind \in {"none", "list"} /\ requests'[q].kind \in {"none", "list"}
           /\ path' = "servers" /\ BlankPage
<1>1. PICK r \in Requests :
        /\ Orphaned(reqs)[r].kind = "none"
        /\ requests' = [Orphaned(reqs) EXCEPT ![r] = NewRequest("list")]
  BY DEF MountPage
<1>2. /\ Orphaned(reqs) \in [Requests -> RequestStates]
      /\ \A q \in Requests :
           \/ Same(reqs[q], Orphaned(reqs)[q])
           \/ reqs[q].kind = "list" /\ Orphaned(reqs)[q].kind = "none"
  BY OrphanedRequests
<1>3. NewRequest("list") \in RequestStates /\ NewRequest("list").kind = "list"
  BY FreshRequests DEF Kinds
<1>4. /\ requests' \in [Requests -> RequestStates]
      /\ requests'[r] = NewRequest("list")
      /\ \A q \in Requests : q # r => requests'[q] = Orphaned(reqs)[q]
  BY <1>1, <1>2, <1>3
<1>5. reqs[r].kind \in {"none", "list"}
  BY <1>1, <1>2 DEF Same
<1> QED
  BY <1>2, <1>3, <1>4, <1>5 DEF MountPage

LEMMA BlankTypes ==
    ASSUME BlankPage
    PROVE  /\ showCreate' \in BOOLEAN /\ creating' \in BOOLEAN
           /\ editingId' = Nil /\ confirmation' = Nil
           /\ servers' \in Tables /\ loadState' = "loading"
           /\ pendingByServer' \in [Servers -> RowKinds \cup {Nil}]
  BY FreshRequests DEF BlankPage, Empty

\* What a step must show when it touches neither rows nor tokens.
LEMMA QuietKeeps ==
    ASSUME IInv, \A q \in Requests : Quiet(requests[q], requests'[q]),
           UNCHANGED <<backend, oneTimeToken, tokenRequestPending, tokenRef,
                       tokenLockRef>>
    PROVE  LockExact' /\ Delivering' /\ Aimed' /\ GoneForGood' /\ TokenIsCurrent'
<1>1. \A q \in Requests :
        /\ requests'[q].kind \in TokenKinds <=> requests[q].kind \in TokenKinds
        /\ requests'[q].kind \in TokenKinds => Same(requests[q], requests'[q])
  BY DEF Quiet, Same, TokenKinds
<1>2. LockExact'
  BY <1>1 DEF IInv, LockExact, InFlight, tokenLocked
<1>3. Delivering'
  BY <1>1 DEF IInv, Delivering, InFlight, Same
<1>4. Aimed'
  BY <1>1 DEF IInv, Aimed, InFlight, Same, Quiet, RowKinds, TokenKinds
<1>5. GoneForGood'
  <2>1. \A q \in Requests :
          requests'[q].kind = "delete" /\ requests'[q].stage = "done" =>
            Same(requests[q], requests'[q])
    BY DEF Quiet
  <2> QED
    BY <2>1 DEF IInv, GoneForGood, InFlight, Same
<1>6. TokenIsCurrent'
  BY DEF IInv, TokenIsCurrent
<1> QED
  BY <1>2, <1>3, <1>4, <1>5, <1>6

(***************************************************************************)
(* Steps that touch neither rows nor tokens.                               *)
(***************************************************************************)
LEMMA InitIInv ==
    ASSUME AdminInit PROVE IInv
<1>1. requests \in [Requests -> RequestStates]
      /\ \A r \in Requests : requests[r].kind \in {"none", "list"}
  BY FreshRequests DEF AdminInit, Kinds
<1>2. rows \in Tables /\ \A s \in Servers : rows[s] # Nil => s \in given
  BY DEF AdminInit, Tables, Records
<1>3. AdminTypeOK
  BY <1>1, <1>2, FreshRequests DEF AdminInit, AdminTypeOK, Empty
<1>4. LockExact /\ Delivering /\ Aimed /\ GoneForGood /\ TokenIsCurrent
  BY <1>1, <1>2
  DEF AdminInit, LockExact, Delivering, Aimed, GoneForGood, TokenIsCurrent,
      InFlight, TokenKinds, RowKinds, tokenLocked
<1> QED
  BY <1>3, <1>4 DEF IInv

LEMMA NavigateKeeps ==
    ASSUME IInv, Navigate \/ ReturnFromError PROVE IInv'
<1>1. requests \in [Requests -> RequestStates]
  BY DEF IInv, AdminTypeOK
<1>2. /\ UNCHANGED <<backend, oneTimeToken, tokenRequestPending,
                     tokenRequestServerId, tokenRef, tokenLockRef, missed>>
      /\ tokenRequestError' \in BOOLEAN /\ ops' \in Nat
  <2>1. tokenRequestError \in BOOLEAN /\ ops \in Nat
    BY DEF IInv, AdminTypeOK
  <2>2. ops' \in Nat
    BY <2>1 DEF Navigate, ReturnFromError, Spend
  <2>3. CASE Navigate
    BY <2>1, <2>2, <2>3, Zenon DEF Navigate
  <2>4. CASE ReturnFromError
    BY <2>1, <2>2, <2>4, Zenon DEF ReturnFromError
  <2> QED
    BY <2>3, <2>4
<1>3. /\ requests' \in [Requests -> RequestStates]
      /\ \A q \in Requests : Quiet(requests[q], requests'[q])
      /\ path' \in {"servers", "other"} /\ BlankPage
  <2>1. CASE MountPage(requests)
    BY <1>1, <2>1, MountedPage DEF Quiet, TokenKinds
  <2>2. CASE path' = "other" /\ BlankPage /\ requests' = Orphaned(requests)
    BY <1>1, <2>2, OrphanedRequests DEF Quiet, TokenKinds
  <2> QED
    BY <2>1, <2>2 DEF Navigate, ReturnFromError
<1>4. AdminTypeOK'
  <2>1. /\ showCreate' \in BOOLEAN /\ creating' \in BOOLEAN
        /\ editingId' = Nil /\ confirmation' = Nil
        /\ servers' \in Tables /\ loadState' = "loading"
        /\ pendingByServer' \in [Servers -> RowKinds \cup {Nil}]
    BY <1>3, BlankTypes
  <2> QED
    BY <1>2, <1>3, <2>1 DEF IInv, AdminTypeOK
<1>5. LockExact' /\ Delivering' /\ Aimed' /\ GoneForGood' /\ TokenIsCurrent'
  BY <1>2, <1>3, QuietKeeps
<1> QED
  BY <1>4, <1>5 DEF IInv

\* Forms and confirmations.
LEMMA ClicksKeep ==
    ASSUME IInv,
           \/ AddServer \/ CancelCreate
           \/ \E s \in Servers : beginRename(s) \/ Cancel(s)
           \/ \E s \in Servers, action \in {"delete", "rotate"} : Ask(s, action)
    PROVE  IInv'
<1> DEFINE Clicked ==
      /\ UNCHANGED <<backend, requests, path, lock, creating, collection, missed>>
      /\ ops' \in Nat
      /\ showCreate' \in BOOLEAN /\ editingId' \in Servers \cup {Nil}
      /\ confirmation' \in Confirmations \cup {Nil}
<1>1. Clicked
  <2>1. /\ ops \in Nat /\ showCreate \in BOOLEAN
        /\ editingId \in Servers \cup {Nil}
        /\ confirmation \in Confirmations \cup {Nil}
    BY DEF IInv, AdminTypeOK
  <2>2. CASE AddServer \/ CancelCreate
    <3>1. ops' \in Nat
      BY <2>1, <2>2 DEF AddServer, CancelCreate, Spend
    <3>2. showCreate' \in BOOLEAN
      BY <2>1, <2>2, Zenon DEF AddServer, CancelCreate
    <3> QED
      BY <2>1, <2>2, <3>1, <3>2, Zenon DEF AddServer, CancelCreate
  <2>3. ASSUME NEW s \in Servers, beginRename(s) \/ Cancel(s)
        PROVE  Clicked
    BY <2>1, <2>3 DEF beginRename, Cancel, Spend
  <2>4. ASSUME NEW s \in Servers, NEW action \in {"delete", "rotate"}, Ask(s, action)
        PROVE  Clicked
    <3>1. [server |-> s, action |-> action] \in Confirmations
      BY <2>4 DEF Confirmations
    <3> QED
      BY <2>1, <2>4, <3>1 DEF Ask, Spend
  <2> QED
    BY <2>2, <2>3, <2>4
<1>2. AdminTypeOK'
  BY <1>1 DEF IInv, AdminTypeOK
<1>3. \A q \in Requests : Quiet(requests[q], requests'[q])
  BY <1>1 DEF Quiet, Same
<1> QED
  BY <1>1, <1>2, <1>3, QuietKeeps DEF IInv

LEMMA ReloadKeeps ==
    ASSUME IInv, loadServers PROVE IInv'
<1>1. requests \in [Requests -> RequestStates]
  BY DEF IInv, AdminTypeOK
<1>2. PICK r \in Idle :
        requests' = [q \in Requests |->
          IF q = r THEN NewRequest("list")
          ELSE [requests[q] EXCEPT !.superseded = @ \/ requests[q].kind = "list"]]
  BY DEF loadServers
<1>3. \A q \in Requests :
        /\ requests'[q] \in RequestStates
        /\ Quiet(requests[q], requests'[q])
  <2>1. SUFFICES ASSUME NEW q \in Requests
                 PROVE  /\ requests'[q] \in RequestStates
                        /\ Quiet(requests[q], requests'[q])
    OBVIOUS
  <2>2. CASE q = r
    BY <1>2, <2>2, FreshRequests DEF Idle, Quiet, TokenKinds, Kinds
  <2>3. CASE q # r
    <3>1. requests[q].superseded \in BOOLEAN
      BY <1>1, Flags
    <3>2. PICK b \in BOOLEAN : requests'[q] = [requests[q] EXCEPT !.superseded = b]
      BY <1>2, <2>3, <3>1
    <3>3. requests[q] \in RequestStates
      BY <1>1
    <3>4. requests'[q] \in RequestStates /\ Same(requests[q], requests'[q])
      BY <3>2, <3>3, Flags
    <3> QED
      BY <3>4 DEF Quiet
  <2> QED
    BY <2>2, <2>3
<1>4. requests' \in [Requests -> RequestStates]
  BY <1>2, <1>3
<1>5. AdminTypeOK'
  BY <1>4 DEF IInv, AdminTypeOK, loadServers, Spend
<1> QED
  BY <1>3, <1>5, QuietKeeps DEF IInv, loadServers

(***************************************************************************)
(* Rows.                                                                   *)
(***************************************************************************)
LEMMA BegunRow ==
    ASSUME IInv, NEW s \in Servers, NEW request \in RequestStates,
           request.kind \in RowKinds, BeginRow(s, request)
    PROVE  /\ requests' \in [Requests -> RequestStates]
           /\ \E r \in Idle :
                /\ requests'[r] = request
                /\ \A q \in Requests \ {r} : Same(requests[q], requests'[q])
           /\ pendingByServer' \in [Servers -> RowKinds \cup {Nil}]
           /\ UNCHANGED <<servers, loadState>>
<1> DEFINE Marked ==
      [q \in Requests |->
         [requests[q] EXCEPT
            !.superseded = @ \/ (/\ InFlight(q, RowKinds)
                                 /\ requests[q].current
                                 /\ requests[q].server = s)]]
<1>1. requests \in [Requests -> RequestStates]
  BY DEF IInv, AdminTypeOK
<1>2. \A q \in Requests :
        Marked[q] \in RequestStates /\ Same(requests[q], Marked[q])
  <2>1. SUFFICES ASSUME NEW q \in Requests
                 PROVE  Marked[q] \in RequestStates /\ Same(requests[q], Marked[q])
    OBVIOUS
  <2>2. requests[q].superseded \in BOOLEAN /\ requests[q] \in RequestStates
    BY <1>1, Flags
  <2>3. PICK b \in BOOLEAN : Marked[q] = [requests[q] EXCEPT !.superseded = b]
    BY <2>2
  <2> QED
    BY <2>2, <2>3, Flags
<1>3. Marked \in [Requests -> RequestStates]
  BY <1>2
<1> HIDE DEF Marked
<1>4. PICK r \in Idle : requests' = [Overtaken(Marked) EXCEPT ![r] = request]
  BY DEF BeginRow, Marked
<1>5. /\ Overtaken(Marked) \in [Requests -> RequestStates]
      /\ \A q \in Requests : Same(Marked[q], Overtaken(Marked)[q])
  BY <1>3, OvertakenRequests
<1>6. r \in Requests
  BY DEF Idle
<1>7. /\ requests' \in [Requests -> RequestStates]
      /\ requests'[r] = request
      /\ \A q \in Requests \ {r} : requests'[q] = Overtaken(Marked)[q]
  BY <1>4, <1>5, <1>6
<1>8. \A q \in Requests \ {r} : Same(requests[q], requests'[q])
  BY <1>2, <1>5, <1>7 DEF Same
<1>9. pendingByServer' \in [Servers -> RowKinds \cup {Nil}]
  BY DEF BeginRow, IInv, AdminTypeOK
<1> QED
  BY <1>7, <1>8, <1>9 DEF BeginRow

LEMMA RowStartsKeep ==
    ASSUME IInv, NEW s \in Servers,
           \/ \E n \in Names : rename(s, n)
           \/ toggle(s) \/ remove(s)
    PROVE  IInv'
<1> DEFINE Begins(request) ==
      /\ request.kind \in {"rename", "toggle", "delete"}
      /\ request.stage = "sent" /\ request.server = s
      /\ request.kind = "rename" => request.name \in Names
      /\ BeginRow(s, request)
<1>1. PICK request \in RequestStates : Begins(request)
  <2>1. \A kind \in RowKinds :
          /\ RowRequest(kind, s) \in RequestStates
          /\ RowRequest(kind, s).kind = kind
          /\ RowRequest(kind, s).server = s
          /\ RowRequest(kind, s).stage = "sent"
    BY FreshRequests DEF Kinds
  <2>2. ASSUME NEW n \in Names, rename(s, n)
        PROVE  \E request \in RequestStates : Begins(request)
    <3>1. LET request == [RowRequest("rename", s) EXCEPT !.name = n] IN
          request \in RequestStates /\ Begins(request)
      BY <2>1, <2>2 DEF rename, RequestStates, RowKinds
    <3> QED
      BY <3>1, Zenon
  <2>3. ASSUME toggle(s)
        PROVE  \E request \in RequestStates : Begins(request)
    <3>1. PICK b \in BOOLEAN : b = ~servers[s].enabled
      OBVIOUS
    <3>2. LET request == [RowRequest("toggle", s) EXCEPT !.enabled = b] IN
          request \in RequestStates /\ Begins(request)
      <4>1. BeginRow(s, [RowRequest("toggle", s) EXCEPT !.enabled = b])
        BY <2>3, <3>1, Zenon DEF toggle
      <4> HIDE DEF BeginRow
      <4> QED
        BY <2>1, <4>1 DEF RequestStates, RowKinds
    <3> QED
      BY <3>2, Zenon
  <2>4. ASSUME remove(s)
        PROVE  \E request \in RequestStates : Begins(request)
    <3>1. RowRequest("delete", s) \in RequestStates /\ Begins(RowRequest("delete", s))
      BY <2>1, <2>4 DEF remove, RowKinds
    <3> QED
      BY <3>1, Zenon
  <2> HIDE DEF Begins
  <2> QED
    BY <2>2, <2>3, <2>4
<1>2. /\ requests' \in [Requests -> RequestStates]
      /\ \E r \in Idle :
           /\ requests'[r] = request
           /\ \A q \in Requests \ {r} : Same(requests[q], requests'[q])
      /\ pendingByServer' \in [Servers -> RowKinds \cup {Nil}]
      /\ UNCHANGED <<servers, loadState>>
  BY <1>1, BegunRow DEF RowKinds
<1>3. \A q \in Requests : Quiet(requests[q], requests'[q])
  BY <1>1, <1>2 DEF Idle, Quiet, TokenKinds
<1>4. UNCHANGED <<backend, path, lock, showCreate, creating, editingId,
                  confirmation, missed>>
  BY DEF rename, toggle, remove
<1>5. ops' \in Nat
  <2>1. ops \in Nat
    BY DEF IInv, AdminTypeOK
  <2>2. Spend
    BY Zenon DEF rename, toggle, remove
  <2> QED
    BY <2>1, <2>2 DEF Spend
<1>6. AdminTypeOK'
  BY <1>2, <1>4, <1>5 DEF IInv, AdminTypeOK
<1> QED
  BY <1>3, <1>4, <1>6, QuietKeeps DEF IInv

LEMMA ListsKeep ==
    ASSUME IInv, NEW r \in Requests, ReadList(r) \/ ListArrives(r) \/ ListFails(r)
    PROVE  IInv'
<1>1. requests \in [Requests -> RequestStates] /\ requests[r].kind = "list"
  BY DEF IInv, AdminTypeOK, ReadList, ListArrives, ListFails, Sent, Answered, InFlight
<1>2. /\ requests' \in [Requests -> RequestStates]
      /\ requests'[r].kind \in {"none", "list"}
      /\ \A q \in Requests \ {r} : requests'[q] = requests[q]
  <2>1. CASE ReadList(r)
    <3>1. rows \in Tables
      BY DEF IInv, AdminTypeOK
    <3>2. requests' = [requests EXCEPT ![r] =
                         [[requests[r] EXCEPT !.stage = "done"] EXCEPT !.answer = rows]]
      BY <1>1, <2>1 DEF ReadList
    <3>3. requests[r] \in RequestStates
      BY <1>1
    <3>4. [[requests[r] EXCEPT !.stage = "done"] EXCEPT !.answer = rows] \in
            {q \in RequestStates : q.kind = requests[r].kind}
      BY <3>1, <3>3 DEF RequestStates
    <3> QED
      BY <1>1, <3>2, <3>4
  <2>2. CASE requests' = Without(r)
    BY <1>1, <2>2, WithoutRequest
  <2> QED
    BY <2>1, <2>2 DEF ListArrives, ListFails
<1>3. \A q \in Requests : Quiet(requests[q], requests'[q])
  BY <1>1, <1>2 DEF Quiet, Same, TokenKinds
<1>4. /\ UNCHANGED <<backend, path, lock, controls, pendingByServer, ops>>
      /\ missed' \subseteq {"orphaned", "lost"}
      /\ loadState' \in {"loading", "success", "error"} /\ servers' \in Tables
  <2>1. /\ missed \subseteq {"orphaned", "lost"}
        /\ loadState \in {"loading", "success", "error"} /\ servers \in Tables
    BY DEF IInv, AdminTypeOK
  <2>2. CASE ReadList(r)
    BY <2>1, <2>2 DEF ReadList
  <2>3. CASE ListArrives(r)
    <3>1. requests[r].answer \in Tables
      BY <1>1 DEF RequestStates
    <3> QED
      BY <2>1, <2>3, <3>1 DEF ListArrives
  <2>4. CASE ListFails(r)
    BY <2>1, <2>4 DEF ListFails
  <2> QED
    BY <2>2, <2>3, <2>4
<1>5. AdminTypeOK'
  BY <1>2, <1>4 DEF IInv, AdminTypeOK
<1> QED
  BY <1>3, <1>4, <1>5, QuietKeeps DEF IInv

\* A request that is over, of whatever kind it was.
Over(r) ==
    /\ requests' \in [Requests -> RequestStates]
    /\ requests'[r].kind = "none"
    /\ \A q \in Requests \ {r} : Same(requests[q], requests'[q])

LEMMA FinishedRow ==
    ASSUME IInv, NEW r \in Requests, requests[r].kind \in RowKinds, FinishRow(r)
    PROVE  Over(r) /\ pendingByServer' \in [Servers -> RowKinds \cup {Nil}]
<1>1. requests \in [Requests -> RequestStates] /\ requests[r].server \in Servers
  BY DEF IInv, AdminTypeOK, Aimed, InFlight
<1>2. /\ Without(r) \in [Requests -> RequestStates]
      /\ Without(r)[r].kind = "none"
      /\ \A q \in Requests : q # r => Without(r)[q] = requests[q]
  BY <1>1, WithoutRequest
<1>3. /\ Overtaken(Without(r)) \in [Requests -> RequestStates]
      /\ \A q \in Requests : Same(Without(r)[q], Overtaken(Without(r))[q])
  BY <1>2, OvertakenRequests
<1>4. requests' = Without(r) \/ requests' = Overtaken(Without(r))
  BY DEF FinishRow
<1>5. Over(r)
  BY <1>2, <1>3, <1>4 DEF Over, Same
<1>6. pendingByServer' \in [Servers -> RowKinds \cup {Nil}]
  <2>1. pendingByServer \in [Servers -> RowKinds \cup {Nil}]
    BY DEF IInv, AdminTypeOK
  <2> QED
    BY <1>1, <2>1 DEF FinishRow
<1> QED
  BY <1>5, <1>6

LEMMA RowEndsKeep ==
    ASSUME IInv, NEW r \in Requests, ToggleArrives(r) \/ RowFails(r)
    PROVE  IInv'
<1>1. requests \in [Requests -> RequestStates]
      /\ requests[r].kind \in {"rename", "toggle", "delete"}
      /\ requests[r].server \in Servers
  BY DEF IInv, AdminTypeOK, Aimed, ToggleArrives, RowFails, Answered, InFlight, RowKinds
<1>2. Over(r) /\ pendingByServer' \in [Servers -> RowKinds \cup {Nil}]
  <2>1. CASE ToggleArrives(r)
    BY <1>1, <2>1, FinishedRow DEF ToggleArrives, RowKinds
  <2>2. CASE RowFails(r)
    <3>1. Over(r)
      BY <1>1, <2>2, WithoutRequest DEF RowFails, Over, Same
    <3>2. pendingByServer \in [Servers -> RowKinds \cup {Nil}]
      BY DEF IInv, AdminTypeOK
    <3> QED
      BY <1>1, <2>2, <3>1, <3>2 DEF RowFails
  <2> QED
    BY <2>1, <2>2
<1>3. \A q \in Requests : Quiet(requests[q], requests'[q])
  BY <1>1, <1>2 DEF Over, Quiet, TokenKinds
<1>4. servers' \in Tables /\ missed' \subseteq {"orphaned", "lost"}
  <2>1. servers \in Tables /\ missed \subseteq {"orphaned", "lost"}
        /\ requests[r].answer \in Tables
    BY <1>1 DEF IInv, AdminTypeOK, RequestStates
  <2>2. Replaced(r) \in Tables
    BY <1>1, <2>1 DEF Replaced, Tables
  <2> QED
    BY <2>1, <2>2 DEF ToggleArrives, RowFails, LostBy
<1>5. UNCHANGED <<backend, path, lock, showCreate, creating, editingId, loadState, ops>>
      /\ UNCHANGED confirmation
  BY DEF ToggleArrives, RowFails
<1>6. AdminTypeOK'
  BY <1>2, <1>4, <1>5 DEF IInv, AdminTypeOK, Over
<1> QED
  BY <1>3, <1>5, <1>6, QuietKeeps DEF IInv

(***************************************************************************)
(* A token request begins: the lock was free, so it is the only one.       *)
(***************************************************************************)
LEMMA StartKeeps ==
    ASSUME IInv, NEW s, startTokenRequest(s), UNCHANGED backend,
           NEW r \in Requests, requests[r].kind = "none",
           requests'[r].kind \in TokenKinds, requests'[r].stage = "sent",
           requests'[r].name \in Names,
           requests'[r].kind = "rotate" => requests'[r].server \in Servers,
           \A q \in Requests \ {r} : Same(requests[q], requests'[q])
    PROVE  LockExact' /\ Delivering' /\ Aimed' /\ GoneForGood' /\ TokenIsCurrent'
<1>1. \A q \in Requests \ {r} : requests'[q].kind = requests[q].kind
  BY DEF Same
<1>2. oneTimeToken = Nil /\ \A q \in Requests : requests[q].kind \notin TokenKinds
  BY DEF IInv, LockExact, startTokenRequest, tokenLocked, InFlight
<1>3. LockExact'
  <2>1. /\ tokenRef' = oneTimeToken' /\ oneTimeToken' = Nil
        /\ tokenLockRef' = TRUE /\ tokenRequestPending' = TRUE
    BY <1>2 DEF IInv, LockExact, startTokenRequest
  <2> QED
    BY <1>1, <1>2, <2>1, Zenon DEF LockExact, InFlight, tokenLocked
<1>4. Delivering'
  BY <1>1, <1>2 DEF Delivering, InFlight
<1>5. Aimed'
  BY DEF IInv, Aimed, InFlight, Same, RowKinds, TokenKinds
<1>6. GoneForGood'
  BY DEF IInv, GoneForGood, InFlight, Same
<1>7. TokenIsCurrent'
  BY <1>2 DEF TokenIsCurrent, startTokenRequest
<1> QED
  BY <1>3, <1>4, <1>5, <1>6, <1>7

LEMMA CreateKeeps ==
    ASSUME IInv, NEW n \in Names, create(n) PROVE IInv'
<1>1. requests \in [Requests -> RequestStates]
  BY DEF IInv, AdminTypeOK
<1>2. PICK r \in Idle :
        requests' = [requests EXCEPT ![r] = [NewRequest("create") EXCEPT !.name = n]]
  BY DEF create
<1>3. [NewRequest("create") EXCEPT !.name = n] \in
         {q \in RequestStates : q.kind = "create" /\ q.stage = "sent" /\ q.name = n}
  BY FreshRequests DEF Kinds, RequestStates
<1>4. /\ r \in Requests /\ requests[r].kind = "none"
      /\ requests' \in [Requests -> RequestStates]
      /\ requests'[r].kind = "create" /\ requests'[r].stage = "sent"
      /\ requests'[r].name = n
      /\ \A q \in Requests \ {r} : Same(requests[q], requests'[q])
  BY <1>1, <1>2, <1>3 DEF Idle, Same
<1>5. startTokenRequest(Nil) /\ creating' = TRUE
      /\ UNCHANGED <<backend, path, showCreate, editingId, confirmation,
                     collection, missed>>
  BY Zenon DEF create
<1>6. LockExact' /\ Delivering' /\ Aimed' /\ GoneForGood' /\ TokenIsCurrent'
  BY <1>4, <1>5, StartKeeps DEF TokenKinds
<1>7. ops' \in Nat
  <2>1. ops \in Nat
    BY DEF IInv, AdminTypeOK
  <2>2. Spend
    BY Zenon DEF create
  <2> QED
    BY <2>1, <2>2 DEF Spend
<1>8. AdminTypeOK'
  BY <1>4, <1>5, <1>7 DEF IInv, AdminTypeOK, startTokenRequest
<1> QED
  BY <1>6, <1>8 DEF IInv

LEMMA RotateKeeps ==
    ASSUME IInv, NEW s \in Servers, rotate(s) PROVE IInv'
<1> DEFINE request == [RowRequest("rotate", s) EXCEPT !.name = servers[s].name]
<1>1. /\ startTokenRequest(s) /\ BeginRow(s, request) /\ Listed(s)
      /\ UNCHANGED <<backend, path, showCreate, creating, editingId,
                     confirmation, missed>>
  BY Zenon DEF rotate, Confirming, RowEnabled
<1>2. servers[s].name \in Names
  BY <1>1 DEF Listed, IInv, AdminTypeOK, Tables, Records
<1>3. /\ RowRequest("rotate", s) \in RequestStates
      /\ RowRequest("rotate", s).kind = "rotate"
      /\ RowRequest("rotate", s).server = s
      /\ RowRequest("rotate", s).stage = "sent"
  BY FreshRequests DEF Kinds, RowKinds
<1>4. /\ request \in RequestStates /\ request.kind = "rotate"
      /\ request.stage = "sent" /\ request.server = s /\ request.name \in Names
  BY <1>2, <1>3 DEF RequestStates
<1> HIDE DEF request
<1>5. PICK r \in Idle :
        /\ requests' \in [Requests -> RequestStates]
        /\ requests'[r] = request
        /\ \A q \in Requests \ {r} : Same(requests[q], requests'[q])
        /\ pendingByServer' \in [Servers -> RowKinds \cup {Nil}]
        /\ UNCHANGED <<servers, loadState>>
  BY <1>1, <1>4, BegunRow DEF RowKinds
<1>6. LockExact' /\ Delivering' /\ Aimed' /\ GoneForGood' /\ TokenIsCurrent'
  BY <1>1, <1>4, <1>5, StartKeeps DEF TokenKinds, Idle
<1>7. ops' \in Nat
  <2>1. ops \in Nat
    BY DEF IInv, AdminTypeOK
  <2>2. Spend
    BY Zenon DEF rotate
  <2> QED
    BY <2>1, <2>2 DEF Spend
<1>8. AdminTypeOK'
  BY <1>1, <1>5, <1>7 DEF IInv, AdminTypeOK, startTokenRequest
<1> QED
  BY <1>6, <1>8 DEF IInv

(***************************************************************************)
(* A token request ends: its token is published, or the lock is given back.*)
(***************************************************************************)
LEMMA FailKeeps ==
    ASSUME IInv, failTokenRequest, UNCHANGED backend,
           NEW r \in Requests, requests[r].kind \in TokenKinds, Over(r)
    PROVE  LockExact' /\ Delivering' /\ Aimed' /\ GoneForGood' /\ TokenIsCurrent'
<1>1. /\ requests'[r].kind = "none"
      /\ \A q \in Requests \ {r} : Same(requests[q], requests'[q])
  BY DEF Over
<1>2. \A q \in Requests : requests'[q].kind \notin TokenKinds
  BY <1>1 DEF IInv, LockExact, InFlight, Same, TokenKinds
<1>3. LockExact'
  <2>1. tokenRef = oneTimeToken
    BY DEF IInv, LockExact
  <2> QED
    BY <1>2, <2>1, Zenon DEF failTokenRequest, LockExact, InFlight, tokenLocked
<1>4. Delivering'
  BY <1>2 DEF Delivering, InFlight
<1>5. Aimed'
  BY <1>1 DEF IInv, Aimed, InFlight, Same, RowKinds
<1>6. GoneForGood'
  BY <1>1 DEF IInv, GoneForGood, InFlight, Same
<1>7. TokenIsCurrent'
  BY DEF IInv, TokenIsCurrent, failTokenRequest
<1> QED
  BY <1>3, <1>4, <1>5, <1>6, <1>7

LEMMA PublishKeeps ==
    ASSUME IInv, NEW r \in Requests, requests[r].kind \in TokenKinds,
           requests[r].stage = "done",
           publishToken(r, requests[r].server, requests[r].name, requests[r].token),
           UNCHANGED <<backend, missed, ops>>
    PROVE  IInv'
<1>1. requests \in [Requests -> RequestStates] /\ requests[r].token \in Nat
  BY DEF IInv, AdminTypeOK, RequestStates
<1>2. /\ requests[r].server \in Servers /\ requests[r].name \in Names
      /\ \/ rows[requests[r].server] = Nil
         \/ tokenOf[requests[r].server] = requests[r].token
  BY DEF IInv, Delivering, InFlight
<1>3. /\ Without(r) \in [Requests -> RequestStates]
      /\ Without(r)[r].kind = "none"
      /\ \A q \in Requests : q # r => Without(r)[q] = requests[q]
  BY <1>1, WithoutRequest
<1>4. /\ requests' \in [Requests -> RequestStates]
      /\ \A q \in Requests :
           \/ Same(Without(r)[q], requests'[q])
           \/ /\ Without(r)[q].kind \in {"none", "list"}
              /\ requests'[q].kind \in {"none", "list"}
      /\ path' = "servers" /\ BlankPage
  BY <1>3, MountedPage DEF publishToken
<1>5. \A q \in Requests :
        \/ q # r /\ Same(requests[q], requests'[q])
        \/ requests'[q].kind \in {"none", "list"}
  BY <1>3, <1>4 DEF Same
<1>6. \A q \in Requests : requests'[q].kind \notin TokenKinds
  BY <1>5 DEF IInv, LockExact, InFlight, Same, TokenKinds
<1>7. LockExact'
  <2>1. oneTimeToken' # Nil /\ oneTimeToken' \in OneTimeTokens
    BY <1>1, <1>2, AdminNil DEF publishToken, OneTimeTokens
  <2>2. /\ tokenRef' = oneTimeToken' /\ tokenLockRef' = TRUE
        /\ tokenRequestPending' = FALSE
    BY DEF publishToken
  <2> QED
    BY <1>6, <2>1, <2>2, Zenon DEF LockExact, InFlight, tokenLocked
<1>8. Delivering'
  BY <1>6 DEF Delivering, InFlight
<1>9. Aimed'
  BY <1>5 DEF IInv, Aimed, InFlight, Same, RowKinds
<1>10. GoneForGood'
  BY <1>5 DEF IInv, GoneForGood, InFlight, Same
<1>11. TokenIsCurrent'
  BY <1>2 DEF TokenIsCurrent, publishToken
<1>12. AdminTypeOK'
  <2>1. oneTimeToken' \in OneTimeTokens
    BY <1>1, <1>2 DEF publishToken, OneTimeTokens
  <2>2. /\ showCreate' \in BOOLEAN /\ creating' \in BOOLEAN
        /\ editingId' = Nil /\ confirmation' = Nil
        /\ servers' \in Tables /\ loadState' = "loading"
        /\ pendingByServer' \in [Servers -> RowKinds \cup {Nil}]
    BY <1>4, BlankTypes
  <2> QED
    BY <1>4, <2>1, <2>2 DEF IInv, AdminTypeOK, publishToken
<1> QED
  BY <1>7, <1>8, <1>9, <1>10, <1>11, <1>12 DEF IInv

LEMMA TokenEndsKeep ==
    ASSUME IInv, NEW r \in Requests,
           CreateArrives(r) \/ RotateArrives(r) \/ CreateFails(r) \/ RotateFails(r)
    PROVE  IInv'
<1>1. /\ requests \in [Requests -> RequestStates] /\ requests[r].kind \in TokenKinds
      /\ requests[r].kind = "rotate" => requests[r].server \in Servers
  BY DEF IInv, AdminTypeOK, Aimed, CreateArrives, RotateArrives, CreateFails,
         RotateFails, Answered, InFlight, TokenKinds, RowKinds
<1>2. CASE CreateArrives(r)
  BY <1>1, <1>2, PublishKeeps DEF CreateArrives, Answered
<1>3. CASE RotateArrives(r) /\ Applied(r)
  BY <1>1, <1>3, PublishKeeps DEF RotateArrives, Answered
<1> DEFINE Failed ==
      /\ failTokenRequest /\ Over(r)
      /\ UNCHANGED <<backend, path, showCreate, editingId, servers, loadState, ops>>
      /\ creating' \in BOOLEAN /\ confirmation' = confirmation
      /\ pendingByServer' \in [Servers -> RowKinds \cup {Nil}]
      /\ missed' \subseteq {"orphaned", "lost"}
<1>4. ASSUME Failed PROVE IInv'
  <2>1. LockExact' /\ Delivering' /\ Aimed' /\ GoneForGood' /\ TokenIsCurrent'
    BY <1>1, <1>4, FailKeeps
  <2>2. AdminTypeOK'
    <3>1. tokenLockRef' \in BOOLEAN
      BY <1>4, Zenon DEF failTokenRequest
    <3> QED
      BY <1>4, <3>1 DEF IInv, AdminTypeOK, failTokenRequest, Over
  <2> QED
    BY <2>1, <2>2 DEF IInv
<1>5. Over(r) \/ requests' # Without(r)
  BY <1>1, WithoutRequest DEF Over, Same
<1>6. /\ pendingByServer \in [Servers -> RowKinds \cup {Nil}]
      /\ missed \subseteq {"orphaned", "lost"}
  BY DEF IInv, AdminTypeOK
<1>7. creating \in BOOLEAN
  BY DEF IInv, AdminTypeOK
<1>8. CASE RotateArrives(r) /\ ~Applied(r)
  <2>1. requests[r].kind = "rotate"
    BY <1>8 DEF RotateArrives, Answered
  <2>2. /\ failTokenRequest /\ FinishRow(r)
        /\ UNCHANGED <<backend, missed, ops, path, controls, servers, loadState>>
    BY <1>8, Zenon DEF RotateArrives
  <2> QED
    BY <2>1, <2>2, <1>1, <1>4, <1>6, <1>7, FinishedRow DEF RowKinds
<1>9. CASE CreateFails(r)
  <2>1. creating' \in BOOLEAN
    BY <1>7, <1>9, Zenon DEF CreateFails
  <2>2. Failed
    BY <1>5, <1>6, <1>9, <2>1 DEF CreateFails, LostBy
  <2> QED
    BY <1>4, <2>2
<1>10. CASE RotateFails(r)
  <2>1. requests[r].server \in Servers
    BY <1>1, <1>10 DEF RotateFails, InFlight
  <2>2. Failed
    BY <1>5, <1>6, <1>7, <1>10, <2>1 DEF RotateFails, LostBy
  <2> QED
    BY <1>4, <2>2
<1> QED
  BY <1>2, <1>3, <1>8, <1>9, <1>10

(***************************************************************************)
(* Answers that concern a token that is shown.                             *)
(***************************************************************************)
LEMMA RenamedKeeps ==
    ASSUME IInv, NEW r \in Requests, RenameArrives(r) PROVE IInv'
<1>1. requests \in [Requests -> RequestStates] /\ requests[r].kind = "rename"
      /\ requests[r].server \in Servers /\ requests[r].name \in Names
  BY DEF IInv, AdminTypeOK, Aimed, RenameArrives, Answered, InFlight, RowKinds
<1>2. Over(r) /\ pendingByServer' \in [Servers -> RowKinds \cup {Nil}]
  BY <1>1, FinishedRow DEF RenameArrives, RowKinds
<1>3. UNCHANGED <<backend, path, tokenRequestPending, tokenRequestServerId,
                  tokenRequestError, showCreate, creating, confirmation,
                  loadState, missed, ops>>
  BY Zenon DEF RenameArrives
<1>4. /\ tokenRef' = oneTimeToken' /\ UNCHANGED tokenLockRef
      /\ oneTimeToken' \in OneTimeTokens \cup {Nil}
      /\ oneTimeToken' = Nil <=> oneTimeToken = Nil
      /\ oneTimeToken # Nil => /\ oneTimeToken'.server = oneTimeToken.server
                               /\ oneTimeToken'.token = oneTimeToken.token
  <2>1. tokenRef = oneTimeToken /\ oneTimeToken \in OneTimeTokens \cup {Nil}
    BY DEF IInv, LockExact, AdminTypeOK
  <2>2. CASE TokenUnchanged
    BY <2>1, <2>2 DEF TokenUnchanged
  <2>3. CASE /\ OfToken(requests[r].server)
             /\ oneTimeToken' = [oneTimeToken EXCEPT !.name = requests[r].name]
             /\ tokenRef' = oneTimeToken' /\ UNCHANGED tokenLockRef
    <3>1. oneTimeToken' \in OneTimeTokens /\ oneTimeToken # Nil
      BY <1>1, <2>1, <2>3 DEF OfToken, OneTimeTokens
    <3>2. oneTimeToken' # Nil
      BY <3>1, AdminNil DEF OneTimeTokens
    <3>3. oneTimeToken'.server = oneTimeToken.server
          /\ oneTimeToken'.token = oneTimeToken.token
      BY <2>1, <2>3, <3>1 DEF OneTimeTokens
    <3> QED
      BY <2>3, <3>1, <3>2, <3>3
  <2> QED
    BY <2>2, <2>3 DEF RenameArrives, renameTokenServer
<1>5. AdminTypeOK'
  <2>1. /\ editingId \in Servers \cup {Nil} /\ servers \in Tables
        /\ requests[r].answer \in Tables
    BY <1>1 DEF IInv, AdminTypeOK, RequestStates
  <2>2. Replaced(r) \in Tables
    BY <1>1, <2>1 DEF Replaced, Tables
  <2>3. editingId' \in Servers \cup {Nil} /\ servers' \in Tables
    BY <2>1, <2>2 DEF RenameArrives
  <2> QED
    BY <1>2, <1>3, <1>4, <2>3 DEF IInv, AdminTypeOK, Over
<1>6. \A q \in Requests : Quiet(requests[q], requests'[q])
  BY <1>1, <1>2 DEF Over, Quiet, TokenKinds
<1>7. \A q \in Requests :
        /\ requests'[q].kind \in TokenKinds <=> requests[q].kind \in TokenKinds
        /\ requests'[q].kind \in TokenKinds => Same(requests[q], requests'[q])
  BY <1>6 DEF Quiet, Same, TokenKinds
<1>8. LockExact'
  <2>1. tokenRequestPending' <=> \E q \in Requests : requests'[q].kind \in TokenKinds
    BY <1>3, <1>7 DEF IInv, LockExact, InFlight
  <2>2. tokenLockRef' = (tokenRequestPending' \/ oneTimeToken' # Nil)
        /\ ~(tokenRequestPending' /\ oneTimeToken' # Nil)
    BY <1>3, <1>4 DEF IInv, LockExact, tokenLocked
  <2>3. \A p, q \in Requests :
          requests'[p].kind \in TokenKinds /\ requests'[q].kind \in TokenKinds => p = q
    BY <1>7 DEF IInv, LockExact, InFlight
  <2> QED
    BY <1>4, <2>1, <2>2, <2>3 DEF LockExact, tokenLocked, InFlight
<1>9. Delivering' /\ GoneForGood'
  BY <1>2, <1>3 DEF IInv, Delivering, GoneForGood, Over, Same, InFlight, TokenKinds
<1>10. Aimed'
  BY <1>2 DEF IInv, Aimed, Over, Same, InFlight, RowKinds
<1>11. TokenIsCurrent'
  BY <1>3, <1>4 DEF IInv, TokenIsCurrent
<1> QED
  BY <1>5, <1>8, <1>9, <1>10, <1>11 DEF IInv

\* A token that is shown is alone, so taking it away frees the lock.
TakenAway ==
    oneTimeToken # Nil /\ oneTimeToken' = Nil /\ tokenRef' = Nil /\ tokenLockRef' = FALSE

LEMMA TakenAwayKeeps ==
    ASSUME IInv, \A q \in Requests : Quiet(requests[q], requests'[q]),
           TakenAway, UNCHANGED <<backend, tokenRequestPending>>
    PROVE  LockExact' /\ Delivering' /\ Aimed' /\ GoneForGood' /\ TokenIsCurrent'
<1>1. tokenRequestPending' = FALSE /\ \A q \in Requests : requests[q].kind \notin TokenKinds
  <2>1. ~tokenRequestPending /\ tokenRequestPending \in BOOLEAN
    BY DEF IInv, LockExact, TakenAway, AdminTypeOK
  <2> QED
    BY <2>1 DEF IInv, LockExact, InFlight
<1>2. \A q \in Requests : requests'[q].kind \notin TokenKinds
  BY <1>1 DEF Quiet, Same, TokenKinds
<1>3. LockExact'
  BY <1>1, <1>2, Zenon DEF LockExact, TakenAway, InFlight, tokenLocked
<1>4. Delivering'
  BY <1>2 DEF Delivering, InFlight
<1>5. Aimed'
  BY DEF IInv, Aimed, InFlight, Same, Quiet, RowKinds, TokenKinds
<1>6. GoneForGood'
  <2>1. \A q \in Requests :
          requests'[q].kind = "delete" /\ requests'[q].stage = "done" =>
            Same(requests[q], requests'[q])
    BY DEF Quiet
  <2> QED
    BY <2>1 DEF IInv, GoneForGood, InFlight, Same
<1>7. TokenIsCurrent'
  BY DEF TokenIsCurrent, TakenAway
<1> QED
  BY <1>3, <1>4, <1>5, <1>6, <1>7

LEMMA ClearKeeps ==
    ASSUME IInv, clearToken PROVE IInv'
<1>1. /\ TakenAway
      /\ UNCHANGED <<backend, requests, path, tokenRequestPending,
                     tokenRequestServerId, tokenRequestError, controls,
                     collection, missed>>
  BY Zenon DEF clearToken, TakenAway
<1>2. \A q \in Requests : Quiet(requests[q], requests'[q])
  BY <1>1 DEF Quiet, Same
<1>3. ops' \in Nat
  <2>1. ops \in Nat
    BY DEF IInv, AdminTypeOK
  <2>2. Spend
    BY Zenon DEF clearToken
  <2> QED
    BY <2>1, <2>2 DEF Spend
<1>4. AdminTypeOK'
  BY <1>1, <1>3 DEF IInv, AdminTypeOK, TakenAway
<1>5. LockExact' /\ Delivering' /\ Aimed' /\ GoneForGood' /\ TokenIsCurrent'
  BY <1>1, <1>2, TakenAwayKeeps
<1> QED
  BY <1>4, <1>5 DEF IInv

LEMMA DeletedKeeps ==
    ASSUME IInv, NEW r \in Requests, DeleteArrives(r) PROVE IInv'
<1>1. requests \in [Requests -> RequestStates] /\ requests[r].kind = "delete"
      /\ requests[r].server \in Servers
  BY DEF IInv, AdminTypeOK, Aimed, DeleteArrives, Answered, InFlight, RowKinds
<1>2. Over(r) /\ pendingByServer' \in [Servers -> RowKinds \cup {Nil}]
  BY <1>1, FinishedRow DEF DeleteArrives, RowKinds
<1>3. UNCHANGED <<backend, path, tokenRequestPending, tokenRequestServerId,
                  tokenRequestError, showCreate, creating, editingId,
                  loadState, missed, ops>>
  BY Zenon DEF DeleteArrives
<1>4. TakenAway \/ TokenUnchanged
  BY Zenon DEF DeleteArrives, clearTokenForDeletedServer, TakenAway, OfToken
<1>5. AdminTypeOK'
  <2>1. confirmation \in Confirmations \cup {Nil} /\ servers \in Tables
    BY DEF IInv, AdminTypeOK
  <2>2. confirmation' \in Confirmations \cup {Nil} /\ servers' \in Tables
    BY <1>1, <2>1 DEF DeleteArrives, Tables
  <2>3. /\ oneTimeToken' \in OneTimeTokens \cup {Nil}
        /\ tokenRef' \in OneTimeTokens \cup {Nil} /\ tokenLockRef' \in BOOLEAN
    BY <1>4 DEF IInv, AdminTypeOK, TakenAway, TokenUnchanged
  <2> QED
    BY <1>2, <1>3, <2>2, <2>3 DEF IInv, AdminTypeOK, Over
<1>6. \A q \in Requests : Quiet(requests[q], requests'[q])
  BY <1>1, <1>2 DEF Over, Quiet, TokenKinds
<1>7. LockExact' /\ Delivering' /\ Aimed' /\ GoneForGood' /\ TokenIsCurrent'
  <2>1. CASE TakenAway
    BY <1>3, <1>6, <2>1, TakenAwayKeeps
  <2>2. CASE TokenUnchanged
    BY <1>3, <1>6, <2>2, QuietKeeps DEF TokenUnchanged
  <2> QED
    BY <1>4, <2>1, <2>2
<1> QED
  BY <1>5, <1>7 DEF IInv

(***************************************************************************)
(* Commits.                                                                *)
(***************************************************************************)
Committed(r, s, n) ==
    /\ requests' \in [Requests -> RequestStates]
    /\ requests'[r].kind = requests[r].kind /\ requests'[r].stage = "done"
    /\ requests'[r].server = s /\ requests'[r].name = n
    /\ \A q \in Requests \ {r} : requests'[q] = requests[q]

LEMMA CommitCreateKeeps ==
    ASSUME IInv, NEW r \in Requests, CommitCreate(r) PROVE IInv'
<1> DEFINE row == [name |-> requests[r].name, enabled |-> TRUE]
<1>1. PICK s \in Servers \ given :
        /\ given' = given \cup {s} /\ tokens' = tokens + 1
        /\ rows' = [rows EXCEPT ![s] = row]
        /\ tokenOf' = [tokenOf EXCEPT ![s] = tokens + 1]
        /\ requests' = [requests EXCEPT
                          ![r].stage = "done", ![r].server = s,
                          ![r].answer[s] = row, ![r].token = tokens + 1]
  BY DEF CommitCreate
<1>2. /\ requests \in [Requests -> RequestStates] /\ tokens \in Nat
      /\ requests[r].kind = "create" /\ requests[r].name \in Names
      /\ rows \in Tables /\ tokenOf \in [Servers -> Nat] /\ given \subseteq Servers
  BY DEF IInv, AdminTypeOK, CommitCreate, Sent, Aimed, InFlight
<1>3. row \in Records
  BY <1>2 DEF Records
<1> HIDE DEF row
<1> DEFINE answered == [requests[r].answer EXCEPT ![s] = row]
<1>4. Committed(r, s, requests[r].name) /\ requests'[r].token = tokens + 1
  <2>1. requests[r] \in RequestStates /\ requests[r].answer \in Tables
    BY <1>2 DEF RequestStates
  <2>2. answered \in Tables
    BY <1>3, <2>1 DEF Tables
  <2>3. requests' = [requests EXCEPT ![r] =
                       [[[[requests[r] EXCEPT !.stage = "done"] EXCEPT !.server = s]
                          EXCEPT !.answer = answered] EXCEPT !.token = tokens + 1]]
    BY <1>1, <1>2, <2>1 DEF RequestStates
  <2> HIDE DEF answered
  <2>4. tokens + 1 \in Nat
    BY <1>2
  <2> DEFINE next == [[[[requests[r] EXCEPT !.stage = "done"] EXCEPT !.server = s]
                         EXCEPT !.answer = answered] EXCEPT !.token = tokens + 1]
  <2>5. /\ next \in RequestStates
        /\ next.kind = requests[r].kind /\ next.stage = "done"
        /\ next.server = s /\ next.name = requests[r].name
        /\ next.token = tokens + 1
    BY <2>1, <2>2, <2>4 DEF RequestStates
  <2> HIDE DEF next
  <2>6. requests' = [requests EXCEPT ![r] = next]
    BY <2>3 DEF next
  <2> QED
    BY <1>2, <2>5, <2>6 DEF Committed
<1>5. oneTimeToken = Nil
      /\ \A q \in Requests \ {r} : requests[q].kind \notin TokenKinds
  BY <1>2 DEF IInv, LockExact, InFlight, TokenKinds
<1>6. UNCHANGED <<path, lock, controls, collection, missed, ops>>
  BY DEF CommitCreate
<1>7. AdminTypeOK'
  <2>1. rows' \in Tables /\ tokenOf' \in [Servers -> Nat] /\ tokens' \in Nat
        /\ given' \subseteq Servers
    BY <1>1, <1>2, <1>3 DEF Tables
  <2> QED
    BY <1>4, <1>6, <2>1 DEF IInv, AdminTypeOK, Committed
<1>8. \A q \in Requests : requests'[q].kind = requests[q].kind
  BY <1>4 DEF Committed
<1>9. LockExact'
  BY <1>6, <1>8 DEF IInv, LockExact, InFlight, tokenLocked
<1>10. Delivering'
  BY <1>1, <1>2, <1>4, <1>5 DEF Delivering, InFlight, Committed
<1>11. Aimed'
  BY <1>2, <1>4 DEF IInv, Aimed, InFlight, Committed, RowKinds
<1>12. GoneForGood'
  BY <1>1, <1>2, <1>4 DEF IInv, GoneForGood, InFlight, Committed, Tables
<1>13. TokenIsCurrent'
  BY <1>5, <1>6 DEF TokenIsCurrent
<1> QED
  BY <1>7, <1>9, <1>10, <1>11, <1>12, <1>13 DEF IInv

LEMMA CommitRotateKeeps ==
    ASSUME IInv, NEW r \in Requests, CommitRotate(r) PROVE IInv'
<1> DEFINE s == requests[r].server
<1>1. /\ requests \in [Requests -> RequestStates] /\ tokens \in Nat
      /\ requests[r].kind = "rotate" /\ requests[r].name \in Names /\ s \in Servers
      /\ rows \in Tables /\ tokenOf \in [Servers -> Nat] /\ given \subseteq Servers
  BY DEF IInv, AdminTypeOK, CommitRotate, Sent, Aimed, InFlight, RowKinds
<1>2. /\ rows[s] # Nil /\ tokens' = tokens + 1
      /\ tokenOf' = [tokenOf EXCEPT ![s] = tokens + 1]
      /\ requests' = [requests EXCEPT ![r].stage = "done", ![r].answer[s] = rows[s],
                                      ![r].token = tokens + 1]
  BY DEF CommitRotate
<1> DEFINE answered == [requests[r].answer EXCEPT ![s] = rows[s]]
<1>3. Committed(r, s, requests[r].name) /\ requests'[r].token = tokens + 1
  <2>1. requests[r] \in RequestStates /\ requests[r].answer \in Tables
    BY <1>1 DEF RequestStates
  <2>2. answered \in Tables
    BY <1>1, <2>1 DEF Tables
  <2> DEFINE next == [[[requests[r] EXCEPT !.stage = "done"]
                         EXCEPT !.answer = answered] EXCEPT !.token = tokens + 1]
  <2>3. requests' = [requests EXCEPT ![r] = next]
    BY <1>1, <1>2, <2>1 DEF RequestStates
  <2> HIDE DEF answered
  <2>4. tokens + 1 \in Nat
    BY <1>1
  <2>5. /\ next \in RequestStates
        /\ next.kind = requests[r].kind /\ next.stage = "done"
        /\ next.server = s /\ next.name = requests[r].name
        /\ next.token = tokens + 1
    BY <2>1, <2>2, <2>4 DEF RequestStates
  <2> HIDE DEF next
  <2> QED
    BY <1>1, <2>3, <2>5 DEF Committed
<1>4. oneTimeToken = Nil
      /\ \A q \in Requests \ {r} : requests[q].kind \notin TokenKinds
  BY <1>1 DEF IInv, LockExact, InFlight, TokenKinds
<1>5. UNCHANGED <<rows, given, path, lock, controls, collection, missed, ops>>
  BY DEF CommitRotate
<1>6. AdminTypeOK'
  <2>1. tokenOf' \in [Servers -> Nat] /\ tokens' \in Nat
    BY <1>1, <1>2
  <2> QED
    BY <1>3, <1>5, <2>1 DEF IInv, AdminTypeOK, Committed
<1>7. \A q \in Requests : requests'[q].kind = requests[q].kind
  BY <1>3 DEF Committed
<1>8. LockExact'
  BY <1>5, <1>7 DEF IInv, LockExact, InFlight, tokenLocked
<1>9. Delivering'
  BY <1>1, <1>2, <1>3, <1>4 DEF Delivering, InFlight, Committed
<1>10. Aimed'
  BY <1>1, <1>3 DEF IInv, Aimed, InFlight, Committed
<1>11. GoneForGood'
  BY <1>1, <1>3, <1>5 DEF IInv, GoneForGood, InFlight, Committed
<1>12. TokenIsCurrent'
  BY <1>4, <1>5 DEF TokenIsCurrent
<1> QED
  BY <1>6, <1>8, <1>9, <1>10, <1>11, <1>12 DEF IInv

LEMMA CommitDeleteKeeps ==
    ASSUME IInv, NEW r \in Requests, CommitDelete(r) PROVE IInv'
<1> DEFINE s == requests[r].server
<1>1. /\ requests \in [Requests -> RequestStates] /\ requests[r].kind = "delete"
      /\ s \in Servers /\ rows \in Tables /\ missed \subseteq {"orphaned", "lost"}
  BY DEF IInv, AdminTypeOK, CommitDelete, Sent, Aimed, InFlight, RowKinds
<1>2. /\ rows[s] # Nil /\ rows' = [rows EXCEPT ![s] = Nil]
      /\ requests' = [requests EXCEPT ![r].stage = "done"]
      /\ UNCHANGED <<tokenOf, given, tokens, path, lock, controls, collection, ops>>
  BY DEF CommitDelete
<1>3. Committed(r, s, requests[r].name)
  <2>1. requests[r] \in RequestStates
    BY <1>1
  <2>2. [requests[r] EXCEPT !.stage = "done"] \in RequestStates
    BY <2>1 DEF RequestStates
  <2> QED
    BY <1>1, <1>2, <2>1, <2>2 DEF Committed, RequestStates
<1>4. AdminTypeOK'
  <2>1. rows' \in Tables
    BY <1>1, <1>2 DEF Tables
  <2>2. missed' \subseteq {"orphaned", "lost"}
    BY <1>1 DEF CommitDelete, MissedBy
  <2> QED
    BY <1>2, <1>3, <2>1, <2>2 DEF IInv, AdminTypeOK, Committed
<1>5. \A q \in Requests : requests'[q].kind = requests[q].kind
  BY <1>3 DEF Committed
<1>6. LockExact'
  BY <1>2, <1>5 DEF IInv, LockExact, InFlight, tokenLocked
<1>7. \A t \in Servers : rows'[t] = Nil \/ rows'[t] = rows[t]
  <2>1. rows \in [Servers -> Records \cup {Nil}]
    BY <1>1 DEF Tables
  <2> QED
    BY <1>1, <1>2, <2>1
<1>8. rows'[s] = Nil
  BY <1>1, <1>2 DEF Tables
<1>9. Delivering'
  BY <1>1, <1>2, <1>3, <1>7 DEF IInv, Delivering, InFlight, Committed, TokenKinds
<1>10. Aimed'
  BY <1>1, <1>3 DEF IInv, Aimed, InFlight, Committed
<1>11. GoneForGood'
  <2>1. \A t \in Servers : rows'[t] # Nil => t \in given'
    BY <1>2, <1>7 DEF IInv, GoneForGood
  <2>2. s \in given'
    BY <1>1, <1>2 DEF IInv, GoneForGood
  <2>3. ASSUME NEW q \in Requests, requests'[q].kind = "delete",
               requests'[q].stage = "done"
        PROVE  requests'[q].server \in given' /\ rows'[requests'[q].server] = Nil
    <3>1. CASE q = r
      BY <1>3, <1>8, <2>2, <3>1 DEF Committed
    <3>2. CASE q # r
      <4>1. requests[q].server \in given /\ rows[requests[q].server] = Nil
            /\ requests'[q] = requests[q]
        BY <1>3, <2>3, <3>2 DEF IInv, GoneForGood, InFlight, Committed
      <4>2. requests[q].server \in Servers
        BY <4>1 DEF IInv, AdminTypeOK
      <4> QED
        BY <1>2, <1>7, <4>1, <4>2
    <3> QED
      BY <3>1, <3>2
  <2> QED
    BY <2>1, <2>3 DEF GoneForGood, InFlight
<1>12. TokenIsCurrent'
  <2>1. ASSUME oneTimeToken # Nil PROVE oneTimeToken.server \in Servers
    BY <2>1 DEF IInv, AdminTypeOK, OneTimeTokens
  <2> QED
    BY <1>2, <1>7, <2>1 DEF IInv, TokenIsCurrent
<1> QED
  BY <1>4, <1>6, <1>9, <1>10, <1>11, <1>12 DEF IInv

LEMMA CommitUpdateKeeps ==
    ASSUME IInv, NEW r \in Requests, CommitUpdate(r) PROVE IInv'
<1> DEFINE s == requests[r].server
<1>1. /\ requests \in [Requests -> RequestStates]
      /\ requests[r].kind \in {"rename", "toggle"}
      /\ requests[r].kind = "rename" => requests[r].name \in Names
      /\ s \in Servers /\ rows \in Tables /\ missed \subseteq {"orphaned", "lost"}
  BY DEF IInv, AdminTypeOK, CommitUpdate, Sent, Aimed, InFlight, RowKinds
<1>2. /\ rows[s] # Nil /\ rows' = [rows EXCEPT ![s] = Updated(r)]
      /\ requests' = [requests EXCEPT ![r].stage = "done", ![r].answer[s] = Updated(r)]
      /\ UNCHANGED <<tokenOf, given, tokens, path, lock, controls, collection, ops>>
  BY DEF CommitUpdate
<1>3. Updated(r) \in Records
  <2>1. rows[s] \in Records /\ requests[r].enabled \in BOOLEAN
    BY <1>1, <1>2 DEF Tables, RequestStates
  <2> QED
    BY <1>1, <2>1 DEF Updated, Records
<1> DEFINE answered == [requests[r].answer EXCEPT ![s] = Updated(r)]
<1>4. Committed(r, s, requests[r].name)
  <2>1. requests[r] \in RequestStates /\ requests[r].answer \in Tables
    BY <1>1 DEF RequestStates
  <2>2. answered \in Tables
    BY <1>1, <1>3, <2>1 DEF Tables
  <2> DEFINE next == [[requests[r] EXCEPT !.stage = "done"] EXCEPT !.answer = answered]
  <2>3. requests' = [requests EXCEPT ![r] = next]
    BY <1>1, <1>2, <2>1 DEF RequestStates
  <2> HIDE DEF answered
  <2>4. /\ next \in RequestStates
        /\ next.kind = requests[r].kind /\ next.stage = "done"
        /\ next.server = s /\ next.name = requests[r].name
    BY <2>1, <2>2 DEF RequestStates
  <2> HIDE DEF next
  <2> QED
    BY <1>1, <2>3, <2>4 DEF Committed
<1>5. AdminTypeOK'
  <2>1. rows' \in Tables
    BY <1>1, <1>2, <1>3 DEF Tables
  <2>2. missed' \subseteq {"orphaned", "lost"}
    BY <1>1 DEF CommitUpdate, MissedBy
  <2> QED
    BY <1>2, <1>4, <2>1, <2>2 DEF IInv, AdminTypeOK, Committed
<1>6. \A q \in Requests : requests'[q].kind = requests[q].kind
  BY <1>4 DEF Committed
<1>7. LockExact'
  BY <1>2, <1>6 DEF IInv, LockExact, InFlight, tokenLocked
<1>8. \A t \in Servers : rows[t] = Nil => rows'[t] = Nil
  BY <1>1, <1>2 DEF Tables
<1>9. \A t \in Servers : rows'[t] # Nil => rows[t] # Nil
  BY <1>8
<1>10. Delivering'
  BY <1>1, <1>2, <1>4, <1>8 DEF IInv, Delivering, InFlight, Committed, TokenKinds
<1>11. Aimed'
  <2>1. /\ requests'[r].server \in Servers
        /\ requests'[r].kind = "rename" => requests'[r].name \in Names
        /\ requests'[r].kind \notin {"create", "rotate"}
    BY <1>1, <1>4 DEF Committed
  <2>2. \A q \in Requests \ {r} : requests'[q] = requests[q]
    BY <1>4 DEF Committed
  <2> QED
    BY <2>1, <2>2 DEF IInv, Aimed, InFlight
<1>12. GoneForGood'
  <2>1. \A q \in Requests :
          requests'[q].kind = "delete" => requests'[q] = requests[q]
    BY <1>1, <1>4 DEF Committed
  <2> QED
    BY <1>2, <1>8, <1>9, <2>1 DEF IInv, AdminTypeOK, GoneForGood, InFlight
<1>13. TokenIsCurrent'
  <2>1. ASSUME oneTimeToken # Nil PROVE oneTimeToken.server \in Servers
    BY <2>1 DEF IInv, AdminTypeOK, OneTimeTokens
  <2> QED
    BY <1>2, <1>9, <2>1 DEF IInv, TokenIsCurrent
<1> QED
  BY <1>5, <1>7, <1>10, <1>11, <1>12, <1>13 DEF IInv

(***************************************************************************)
(* The console as a whole.                                                 *)
(***************************************************************************)
LEMMA AdminKeeps ==
    ASSUME IInv, AdminNext PROVE IInv'
<1>1. CASE User
  <2>1. CASE Navigate \/ ReturnFromError \/ loadServers \/ clearToken
    BY <2>1, NavigateKeeps, ReloadKeeps, ClearKeeps
  <2>2. CASE AddServer \/ CancelCreate
    BY <2>2, ClicksKeep
  <2>3. ASSUME NEW n \in Names, create(n) PROVE IInv'
    BY <2>3, CreateKeeps
  <2>4. ASSUME NEW s \in Servers,
               \/ beginRename(s) \/ Cancel(s)
               \/ \E action \in {"delete", "rotate"} : Ask(s, action)
        PROVE  IInv'
    BY <2>4, ClicksKeep
  <2>5. ASSUME NEW s \in Servers,
               (\E n \in Names : rename(s, n)) \/ toggle(s) \/ remove(s)
        PROVE  IInv'
    BY <2>5, RowStartsKeep
  <2>6. ASSUME NEW s \in Servers, rotate(s) PROVE IInv'
    BY <2>6, RotateKeeps
  <2> QED
    BY <1>1, <2>1, <2>2, <2>3, <2>4, <2>5, <2>6 DEF User
<1>2. ASSUME NEW r \in Requests, Handlers(r) PROVE IInv'
  BY <1>2, ListsKeep, CommitCreateKeeps, CommitUpdateKeeps, CommitDeleteKeeps,
     CommitRotateKeeps DEF Handlers
<1>3. ASSUME NEW r \in Requests, Answers(r) PROVE IInv'
  BY <1>3, ListsKeep, TokenEndsKeep, RenamedKeeps, RowEndsKeep, DeletedKeeps
  DEF Answers
<1>4. ASSUME NEW r \in Requests, Failures(r) PROVE IInv'
  BY <1>4, ListsKeep, TokenEndsKeep, RowEndsKeep DEF Failures
<1> QED
  BY <1>1, <1>2, <1>3, <1>4 DEF AdminNext

\* A step of the front door leaves what the invariant speaks of.
LEMMA IdleKeeps ==
    ASSUME IInv, UNCHANGED adminVars PROVE IInv'
<1>1. AdminTypeOK'
  BY DEF IInv, AdminTypeOK, adminVars
<1>2. LockExact' /\ TokenIsCurrent'
  BY DEF IInv, LockExact, TokenIsCurrent, adminVars, InFlight, tokenLocked
<1>3. Delivering' /\ Aimed' /\ GoneForGood'
  BY DEF IInv, Delivering, Aimed, GoneForGood, adminVars, InFlight
<1> QED
  BY <1>1, <1>2, <1>3 DEF IInv

\* The invariant of the console (App.tsx:42-208, ServersPage.tsx:54-244).
THEOREM Invariant == Spec => []IInv
<1>1. Init => IInv
  BY InitIInv DEF Init
<1>2. IInv /\ [App]_vars => IInv'
  BY AdminKeeps, IdleKeeps DEF App, vars
<1> QED
  BY <1>1, <1>2, PTL DEF Spec

\* The lock is held exactly while one token is awaited or unsaved
\* (App.tsx:77-121).
THEOREM LockExactHolds == Spec => []LockExact
<1>1. IInv => LockExact
  BY DEF IInv
<1> QED
  BY <1>1, Invariant, PTL

\* The token on the page is the one whose hash the server's row keeps
\* (App.tsx:95-132, service.go:196-217).
THEOREM TokenIsCurrentHolds == Spec => []TokenIsCurrent
<1>1. IInv => TokenIsCurrent
  BY DEF IInv
<1> QED
  BY <1>1, Invariant, PTL

SameToken ==
    /\ oneTimeToken' # Nil /\ oneTimeToken'.server = oneTimeToken.server
    /\ oneTimeToken'.token = oneTimeToken.token
TokenStep == SameToken \/ clearToken \/ rows[oneTimeToken.server] = Nil

LEMMA AnswersKeepToken ==
    ASSUME IInv, oneTimeToken # Nil, NEW r \in Requests, Answers(r)
    PROVE  TokenStep
<1>1. CASE ListArrives(r) \/ ToggleArrives(r)
  BY <1>1 DEF ListArrives, ToggleArrives, TokenStep, SameToken
<1>2. CASE CreateArrives(r) \/ RotateArrives(r)
  <2>1. tokenRequestPending
    BY <1>2 DEF IInv, LockExact, InFlight, TokenKinds, CreateArrives,
                RotateArrives, Answered
  <2> QED
    BY <2>1 DEF IInv, LockExact
<1>3. CASE RenameArrives(r)
  <2>1. requests[r].name \in Names
    BY <1>3 DEF IInv, Aimed, RenameArrives, Answered, InFlight
  <2>2. oneTimeToken \in OneTimeTokens
    BY DEF IInv, AdminTypeOK
  <2>3. CASE oneTimeToken' = [oneTimeToken EXCEPT !.name = requests[r].name]
    <3>1. oneTimeToken' \in OneTimeTokens
      BY <2>1, <2>2, <2>3 DEF OneTimeTokens
    <3>2. oneTimeToken' # Nil
      BY <3>1, AdminNil DEF OneTimeTokens
    <3> QED
      BY <2>2, <2>3, <3>2 DEF OneTimeTokens, TokenStep, SameToken
  <2>4. CASE oneTimeToken' = oneTimeToken
    BY <2>4 DEF TokenStep, SameToken
  <2> QED
    BY <1>3, <2>3, <2>4, Zenon DEF RenameArrives, renameTokenServer, TokenUnchanged
<1>4. CASE DeleteArrives(r)
  <2>1. rows[requests[r].server] = Nil
    BY <1>4 DEF IInv, GoneForGood, DeleteArrives, Answered, InFlight
  <2>2. CASE OfToken(requests[r].server)
    BY <2>1, <2>2 DEF OfToken, TokenStep
  <2>3. CASE TokenUnchanged
    BY <2>3 DEF TokenUnchanged, TokenStep, SameToken
  <2> QED
    BY <1>4, <2>2, <2>3, Zenon DEF DeleteArrives, clearTokenForDeletedServer
<1> QED
  BY <1>1, <1>2, <1>3, <1>4 DEF Answers

LEMMA OthersKeepToken ==
    ASSUME oneTimeToken # Nil,
           \/ User \/ UNCHANGED adminVars
           \/ \E r \in Requests : Handlers(r) \/ Failures(r)
    PROVE  TokenStep
<1>1. CASE clearToken
  BY <1>1 DEF TokenStep
<1>2. CASE oneTimeToken' = oneTimeToken
  BY <1>2 DEF TokenStep, SameToken
<1>3. CASE UNCHANGED adminVars
  BY <1>2, <1>3 DEF adminVars
<1>4. ASSUME User, ~clearToken PROVE oneTimeToken' = oneTimeToken
  <2>1. CASE Navigate \/ ReturnFromError \/ loadServers \/ AddServer \/ CancelCreate
    BY <2>1, Zenon DEF Navigate, ReturnFromError, loadServers, AddServer, CancelCreate
  <2>2. ASSUME NEW n \in Names, create(n) PROVE oneTimeToken' = oneTimeToken
    BY <2>2, Zenon DEF create, startTokenRequest
  <2>3. ASSUME NEW s \in Servers, beginRename(s) \/ Cancel(s) \/ toggle(s) \/ remove(s)
        PROVE  oneTimeToken' = oneTimeToken
    BY <2>3, Zenon DEF beginRename, Cancel, toggle, remove
  <2>4. ASSUME NEW s \in Servers, NEW n \in Names, rename(s, n)
        PROVE  oneTimeToken' = oneTimeToken
    BY <2>4, Zenon DEF rename
  <2>5. ASSUME NEW s \in Servers, NEW action \in {"delete", "rotate"}, Ask(s, action)
        PROVE  oneTimeToken' = oneTimeToken
    BY <2>5, Zenon DEF Ask
  <2>6. ASSUME NEW s \in Servers, rotate(s) PROVE oneTimeToken' = oneTimeToken
    BY <2>6, Zenon DEF rotate, startTokenRequest
  <2> QED
    BY <1>4, <2>1, <2>2, <2>3, <2>4, <2>5, <2>6 DEF User
<1>5. ASSUME NEW r \in Requests, Handlers(r) PROVE oneTimeToken' = oneTimeToken
  BY <1>5, Zenon DEF Handlers, ReadList, CommitCreate, CommitUpdate, CommitDelete,
                     CommitRotate
<1>6. ASSUME NEW r \in Requests, Failures(r) PROVE oneTimeToken' = oneTimeToken
  BY <1>6, Zenon DEF Failures, ListFails, CreateFails, RowFails, RotateFails,
                     failTokenRequest
<1> QED
  BY <1>1, <1>2, <1>3, <1>4, <1>5, <1>6

\* A token leaves the page only when it is saved or its server is deleted
\* (App.tsx:106-121).
THEOREM TokenKeptHolds == Spec => TokenKept
<1>1. ASSUME IInv, [App]_vars, oneTimeToken # Nil
      PROVE  TokenStep
  <2>1. User \/ UNCHANGED adminVars
        \/ (\E r \in Requests : Handlers(r) \/ Failures(r))
        \/ \E r \in Requests : Answers(r)
    BY <1>1 DEF App, vars, AdminNext
  <2> QED
    BY <1>1, <2>1, AnswersKeepToken, OthersKeepToken
<1>2. IInv /\ [App]_vars =>
        [oneTimeToken # Nil =>
           \/ oneTimeToken' # Nil /\ oneTimeToken'.server = oneTimeToken.server
              /\ oneTimeToken'.token = oneTimeToken.token
           \/ clearToken
           \/ rows[oneTimeToken.server] = Nil]_adminVars
  BY <1>1 DEF TokenStep, SameToken
<1> QED
  BY <1>2, Invariant, PTL DEF Spec, TokenKept

(***************************************************************************)
(* The list of the servers.                                                *)
(***************************************************************************)
\* A change of a row whose answer the page that is mounted awaits.
Change(r) == InFlight(r, RowKinds) /\ requests[r].current

\* A list is awaited only while the page shows that it loads, and alone.
OneList ==
    /\ \A r \in Requests :
         InFlight(r, {"list"}) =>
           path = "servers" /\ loadState = "loading" /\ requests[r].current
    /\ \A q, r \in Requests : InFlight(q, {"list"}) /\ InFlight(r, {"list"}) => q = r

\* So no generation and no revision is ever found to be old.
NeverLate ==
    \A r \in Requests : ~requests[r].superseded /\ ~requests[r].overtaken

\* A row that is being changed is listed, and being changed once.
OneChange ==
    /\ \A r \in Requests :
         Change(r) =>
           /\ path = "servers" /\ loadState = "success"
           /\ servers[requests[r].server] # Nil
           /\ pendingByServer[requests[r].server] # Nil
    /\ \A q, r \in Requests :
         Change(q) /\ Change(r) /\ requests[q].server = requests[r].server => q = r

\* The answer that will replace a row.
RightAnswers ==
    \A r \in Requests :
      Change(r) /\ InFlight(r, {"rename", "toggle"}) /\ requests[r].stage = "done" =>
        /\ requests[r].answer[requests[r].server] # Nil
        /\ missed = {} =>
             requests[r].answer[requests[r].server] = rows[requests[r].server]

\* An answer on its way accounts for row s.
Awaited(s) ==
    \E r \in Requests :
      /\ requests[r].stage = "done" /\ requests[r].server = s
      /\ \/ InFlight(r, {"create"})
         \/ InFlight(r, {"rename", "toggle", "delete"}) /\ requests[r].current

Accounted ==
    missed = {} =>
      /\ path = "servers" /\ loadState = "success" =>
           \A s \in Servers : servers[s] = rows[s] \/ Awaited(s)
      /\ \A r \in Requests :
           InFlight(r, {"list"}) /\ requests[r].stage = "done" =>
             \A s \in Servers : requests[r].answer[s] = rows[s] \/ Awaited(s)

ListInv == OneList /\ NeverLate /\ OneChange /\ RightAnswers /\ Accounted

\* A request of which nothing changes that the list depends on.
Alike(p, n) ==
    /\ n.kind = p.kind /\ n.server = p.server /\ n.stage = p.stage
    /\ n.answer = p.answer /\ n.current = p.current
    /\ n.superseded = p.superseded /\ n.overtaken = p.overtaken

LEMMA ListInit ==
    ASSUME AdminInit PROVE ListInv
<1>1. \A r \in Requests :
        /\ requests[r].kind \in {"none", "list"} /\ requests[r].stage = "sent"
        /\ requests[r].kind = "list" => path = "servers" /\ requests[r].current
        /\ ~requests[r].superseded /\ ~requests[r].overtaken
  <2>1. /\ NoRequest.kind = "none" /\ NoRequest.stage = "sent"
        /\ ~NoRequest.superseded /\ ~NoRequest.overtaken
        /\ NewRequest("list").kind = "list" /\ NewRequest("list").stage = "sent"
        /\ NewRequest("list").current
        /\ ~NewRequest("list").superseded /\ ~NewRequest("list").overtaken
    BY DEF NoRequest, NewRequest
  <2>2. CASE requests = [r \in Requests |-> NoRequest]
    BY <2>1, <2>2
  <2>3. ASSUME path = "servers", NEW first \in Requests,
               requests = [r \in Requests |->
                             IF r = first THEN NewRequest("list") ELSE NoRequest]
        PROVE  \A r \in Requests :
                 /\ requests[r].kind \in {"none", "list"} /\ requests[r].stage = "sent"
                 /\ requests[r].kind = "list" => path = "servers" /\ requests[r].current
                 /\ ~requests[r].superseded /\ ~requests[r].overtaken
    BY <2>1, <2>3
  <2> QED
    BY <2>2, <2>3 DEF AdminInit
<1>2. \A q, r \in Requests : InFlight(q, {"list"}) /\ InFlight(r, {"list"}) => q = r
  BY DEF AdminInit, InFlight, NoRequest
<1>3. loadState = "loading"
  BY DEF AdminInit
<1> QED
  BY <1>1, <1>2, <1>3
  DEF ListInv, OneList, NeverLate, OneChange, RightAnswers, Accounted, Change,
      InFlight, RowKinds

\* Steps of which the list and the rows take no notice.
LEMMA ListRests ==
    ASSUME ListInv, UNCHANGED <<rows, requests, path, servers, loadState,
                                pendingByServer, missed>>
    PROVE  ListInv'
  BY DEF ListInv, OneList, NeverLate, OneChange, RightAnswers, Accounted, Awaited,
     Change, InFlight

LEMMA OrphanedFields ==
    ASSUME NEW reqs \in [Requests -> RequestStates], NEW q \in Requests
    PROVE  /\ Orphaned(reqs)[q].kind # "list"
           /\ Orphaned(reqs)[q].superseded => reqs[q].superseded
           /\ Orphaned(reqs)[q].overtaken => reqs[q].overtaken
           /\ ~Orphaned(reqs)[q].current
           /\ Orphaned(reqs)[q].stage \in {"sent", "done"}
<1>1. reqs[q] \in RequestStates
  OBVIOUS
<1>2. CASE reqs[q].kind = "list"
  BY <1>1, <1>2 DEF Orphaned, NoRequest
<1>3. CASE reqs[q].kind # "list"
  <2>1. Orphaned(reqs)[q] = [reqs[q] EXCEPT !.current = FALSE]
    BY <1>3 DEF Orphaned
  <2> QED
    BY <1>1, <1>3, <2>1 DEF RequestStates
<1> QED
  BY <1>2, <1>3

\* A page that is mounted awaits one list and nothing else.
LEMMA ListMounted ==
    ASSUME NEW reqs \in [Requests -> RequestStates],
           \A q \in Requests : ~reqs[q].superseded /\ ~reqs[q].overtaken,
           MountPage(reqs)
    PROVE  ListInv'
<1>1. PICK r \in Requests : requests' = [Orphaned(reqs) EXCEPT ![r] = NewRequest("list")]
  BY DEF MountPage
<1>2. Orphaned(reqs) \in [Requests -> RequestStates]
  BY OrphanedRequests
<1>3. \A q \in Requests \ {r} :
        /\ requests'[q].kind # "list" /\ ~requests'[q].current
        /\ ~requests'[q].superseded /\ ~requests'[q].overtaken
  BY <1>1, <1>2, OrphanedFields
<1>4. /\ requests'[r].kind = "list" /\ requests'[r].stage = "sent"
      /\ requests'[r].current
      /\ ~requests'[r].superseded /\ ~requests'[r].overtaken
  BY <1>1, <1>2 DEF NewRequest, NoRequest
<1>5. path' = "servers" /\ loadState' = "loading"
  BY DEF MountPage, BlankPage
<1>6. OneList' /\ NeverLate'
  BY <1>3, <1>4, <1>5 DEF OneList, NeverLate, InFlight
<1>7. \A q \in Requests : ~Change(q)'
  BY <1>3, <1>4 DEF Change, InFlight, RowKinds
<1>8. OneChange' /\ RightAnswers'
  BY <1>7 DEF OneChange, RightAnswers
<1>9. Accounted'
  BY <1>3, <1>4, <1>5 DEF Accounted, InFlight
<1> QED
  BY <1>6, <1>8, <1>9 DEF ListInv

LEMMA ListVisits ==
    ASSUME IInv, ListInv, Navigate \/ ReturnFromError PROVE ListInv'
<1>1. requests \in [Requests -> RequestStates]
  BY DEF IInv, AdminTypeOK
<1>2. \A q \in Requests : ~requests[q].superseded /\ ~requests[q].overtaken
  BY DEF ListInv, NeverLate
<1>3. CASE MountPage(requests)
  BY <1>1, <1>2, <1>3, ListMounted
<1>4. ASSUME path' = "other", requests' = Orphaned(requests) PROVE ListInv'
  <2>1. \A q \in Requests :
          /\ requests'[q].kind # "list" /\ ~requests'[q].current
          /\ ~requests'[q].superseded /\ ~requests'[q].overtaken
    BY <1>1, <1>2, <1>4, OrphanedFields
  <2> QED
    BY <1>4, <2>1
    DEF ListInv, OneList, NeverLate, OneChange, RightAnswers, Accounted, Change,
        InFlight
<1> QED
  BY <1>3, <1>4 DEF Navigate, ReturnFromError

\* A request that is over, of whatever kind it was; the others go on.
Gone(r) ==
    /\ requests'[r].kind = "none"
    /\ ~requests'[r].superseded /\ ~requests'[r].overtaken
    /\ \A q \in Requests \ {r} : Alike(requests[q], requests'[q])

LEMMA WithoutGone ==
    ASSUME requests \in [Requests -> RequestStates], NEW r \in Requests,
           requests' = Without(r)
    PROVE  Gone(r)
<1>1. requests'[r] = NoRequest /\ \A q \in Requests \ {r} : requests'[q] = requests[q]
  BY DEF Without
<1> QED
  BY <1>1 DEF Gone, Alike, NoRequest

\* What finishServerRequest does where no list is awaited.
LEMMA FinishedGone ==
    ASSUME IInv, ListInv, NEW r \in Requests, InFlight(r, RowKinds), FinishRow(r)
    PROVE  Gone(r)
<1>1. requests \in [Requests -> RequestStates]
  BY DEF IInv, AdminTypeOK
<1>2. CASE requests' = Without(r)
  BY <1>1, <1>2, WithoutGone
<1>3. CASE Heard(r) /\ requests' = Overtaken(Without(r))
  <2>1. Without(r)[r] = NoRequest /\ \A q \in Requests \ {r} : Without(r)[q] = requests[q]
    BY <1>1 DEF Without
  <2>2. \A q \in Requests : ~InFlight(q, {"list"})
    BY <1>3 DEF ListInv, OneList, OneChange, Change, Heard
  <2>3. \A q \in Requests :
          /\ Overtaken(Without(r))[q] = [Without(r)[q] EXCEPT
                 !.overtaken = @ \/ Without(r)[q].kind = "list"]
    BY DEF Overtaken
  <2>4. requests'[r].kind = "none" /\ ~requests'[r].superseded /\ ~requests'[r].overtaken
    <3>1. requests'[r] = [NoRequest EXCEPT !.overtaken = @ \/ NoRequest.kind = "list"]
      BY <1>3, <2>1, <2>3
    <3> QED
      BY <3>1 DEF NoRequest
  <2>5. ASSUME NEW q \in Requests \ {r} PROVE Alike(requests[q], requests'[q])
    <3>1. requests[q].kind # "list" /\ requests[q].overtaken = FALSE
          /\ requests[q] \in RequestStates
      BY <1>1, <2>2 DEF ListInv, NeverLate, InFlight, RequestStates
    <3>2. requests'[q] = [requests[q] EXCEPT !.overtaken = @ \/ requests[q].kind = "list"]
      BY <1>3, <2>1, <2>3
    <3>3. PICK b \in BOOLEAN : b = FALSE /\ requests'[q] = [requests[q] EXCEPT !.overtaken = b]
      BY <3>1, <3>2
    <3> QED
      BY <3>1, <3>3 DEF Alike, RequestStates
  <2> QED
    BY <2>4, <2>5 DEF Gone
<1> QED
  BY <1>2, <1>3 DEF FinishRow

\* What must be shown of the end of a change: its answer has given the row what
\* the table has, or was lost.
LEMMA ListChanged ==
    ASSUME IInv, ListInv, NEW r \in Requests, InFlight(r, RowKinds), Gone(r),
           UNCHANGED <<rows, path, loadState>>,
           pendingByServer' = IF requests[r].current
                              THEN [pendingByServer EXCEPT ![requests[r].server] = Nil]
                              ELSE pendingByServer,
           \/ /\ requests[r].stage = "done" /\ UNCHANGED missed
              /\ \/ ~requests[r].current /\ UNCHANGED servers
                 \/ /\ requests[r].current
                    /\ \E v : /\ servers' = [servers EXCEPT ![requests[r].server] = v]
                              /\ missed = {} => v = rows[requests[r].server]
           \/ /\ UNCHANGED servers
              /\ IF requests[r].stage = "done" THEN missed' # {} ELSE UNCHANGED missed
    PROVE  ListInv'
<1> DEFINE s == requests[r].server
<1>1. s \in Servers /\ requests[r].kind \in RowKinds
      /\ servers \in [Servers -> Records \cup {Nil}]
      /\ pendingByServer \in [Servers -> RowKinds \cup {Nil}]
  BY DEF IInv, AdminTypeOK, Aimed, Tables, InFlight
<1>2. \A q \in Requests : requests'[q].kind # "none" =>
        q # r /\ Alike(requests[q], requests'[q])
  BY DEF Gone
<1>3. OneList'
  BY <1>2 DEF ListInv, OneList, InFlight, Alike
<1>4. NeverLate'
  BY DEF ListInv, NeverLate, Gone, Alike
<1>5. \A q \in Requests : Change(q)' => q # r /\ Change(q) /\ Alike(requests[q], requests'[q])
  BY <1>2 DEF Change, InFlight, Alike, RowKinds
<1>6. \A q \in Requests : Change(q)' /\ requests[r].current => requests[q].server # s
  BY <1>5 DEF ListInv, OneChange, Change
<1>7. \A u \in Servers : u # s \/ ~requests[r].current =>
        servers'[u] = servers[u] /\ pendingByServer'[u] = pendingByServer[u]
  BY <1>1
<1>8. OneChange'
  <2>1. ASSUME NEW q \in Requests, Change(q)'
        PROVE  /\ path' = "servers" /\ loadState' = "success"
               /\ servers'[requests'[q].server] # Nil
               /\ pendingByServer'[requests'[q].server] # Nil
    <3>1. requests'[q].server = requests[q].server /\ requests[q].server \in Servers
      BY <1>5, <2>1 DEF Alike, Change, IInv, Aimed
    <3>2. servers'[requests[q].server] = servers[requests[q].server]
          /\ pendingByServer'[requests[q].server] = pendingByServer[requests[q].server]
      BY <1>6, <1>7, <2>1, <3>1
    <3> QED
      BY <1>5, <2>1, <3>1, <3>2 DEF ListInv, OneChange
  <2> QED
    BY <1>5, <2>1 DEF ListInv, OneChange, Alike
<1>9. RightAnswers'
  BY <1>2, <1>5 DEF ListInv, RightAnswers, InFlight, Alike
<1>10. Accounted'
  <2>1. SUFFICES ASSUME missed' = {} PROVE Accounted'
    BY DEF Accounted
  <2>2. missed = {}
    BY <2>1
  <2>3. ASSUME NEW u \in Servers, Awaited(u), u # s \/ ~requests[r].current \/ requests[r].stage = "sent"
        PROVE  Awaited(u)'
    BY <1>1, <1>2, <2>3 DEF Awaited, InFlight, Alike, RowKinds, Gone
  <2>4. ASSUME path' = "servers", loadState' = "success", NEW u \in Servers
        PROVE  servers'[u] = rows'[u] \/ Awaited(u)'
    <3>1. servers[u] = rows[u] \/ Awaited(u)
      BY <2>2, <2>4 DEF ListInv, Accounted
    <3>2. CASE u = s /\ requests[r].current /\ requests[r].stage = "done"
      BY <1>1, <2>1, <2>2, <3>2
    <3>3. CASE u # s \/ ~requests[r].current \/ requests[r].stage # "done"
      <4>1. requests[r].stage \in {"sent", "done"}
        BY DEF IInv, AdminTypeOK, RequestStates
      <4>2. servers'[u] = servers[u]
        BY <1>7, <3>3
      <4> QED
        BY <2>3, <3>1, <3>3, <4>1, <4>2
    <3> QED
      BY <3>2, <3>3
  <2>5. ASSUME NEW q \in Requests, InFlight(q, {"list"})', requests'[q].stage = "done",
               NEW u \in Servers
        PROVE  requests'[q].answer[u] = rows'[u] \/ Awaited(u)'
    <3>1. Alike(requests[q], requests'[q]) /\ InFlight(q, {"list"})
      BY <1>2, <2>5 DEF InFlight, Alike
    <3>2. requests[q].answer[u] = rows[u] \/ Awaited(u)
      BY <2>2, <2>5, <3>1 DEF ListInv, Accounted, Alike
    <3>3. ~requests[r].current
      BY <3>1 DEF ListInv, OneList, OneChange, Change, InFlight
    <3> QED
      BY <2>3, <3>1, <3>2, <3>3 DEF Alike
  <2> QED
    BY <2>4, <2>5 DEF Accounted
<1> QED
  BY <1>3, <1>4, <1>8, <1>9, <1>10 DEF ListInv

LEMMA ListAnswered ==
    ASSUME IInv, ListInv, NEW r \in Requests,
           \/ RenameArrives(r) \/ ToggleArrives(r) \/ DeleteArrives(r)
           \/ RowFails(r) \/ RotateFails(r)
    PROVE  ListInv'
<1> DEFINE s == requests[r].server
<1>1. /\ requests \in [Requests -> RequestStates] /\ InFlight(r, RowKinds)
      /\ requests[r].stage \in {"sent", "done"}
  BY DEF IInv, AdminTypeOK, RequestStates, RenameArrives, ToggleArrives,
     DeleteArrives, RowFails, RotateFails, Answered, InFlight, RowKinds
<1>2. Heard(r) <=> requests[r].current
  BY DEF ListInv, NeverLate, Heard, Applied
<1>3. /\ UNCHANGED <<rows, path, loadState>>
      /\ pendingByServer' = IF requests[r].current
                            THEN [pendingByServer EXCEPT ![s] = Nil]
                            ELSE pendingByServer
  BY <1>2 DEF RenameArrives, ToggleArrives, DeleteArrives, RowFails, RotateFails,
     FinishRow
<1>4. CASE RowFails(r) \/ RotateFails(r)
  <2>1. Gone(r)
    BY <1>1, <1>4, WithoutGone DEF RowFails, RotateFails
  <2>2. UNCHANGED servers
        /\ IF requests[r].stage = "done" THEN missed' # {} ELSE UNCHANGED missed
    BY <1>4 DEF RowFails, RotateFails, LostBy
  <2> QED
    BY <1>1, <1>3, <2>1, <2>2, ListChanged
<1>5. CASE RenameArrives(r) \/ ToggleArrives(r)
  <2>1. Gone(r)
    BY <1>1, <1>5, FinishedGone DEF RenameArrives, ToggleArrives
  <2>2. /\ requests[r].stage = "done" /\ UNCHANGED missed
        /\ InFlight(r, {"rename", "toggle"}) /\ servers' = Replaced(r)
    BY <1>5 DEF RenameArrives, ToggleArrives, Answered, InFlight
  <2>3. CASE requests[r].current
    <3>1. servers[s] # Nil
      BY <1>1, <2>3 DEF ListInv, OneChange, Change
    <3>2. servers' = [servers EXCEPT ![s] = requests[r].answer[s]]
      BY <1>2, <2>2, <2>3, <3>1 DEF Replaced
    <3>3. missed = {} => requests[r].answer[s] = rows[s]
      BY <1>1, <2>2, <2>3 DEF ListInv, RightAnswers, Change
    <3> QED
      BY <1>1, <1>3, <2>1, <2>2, <2>3, <3>2, <3>3, ListChanged
  <2>4. CASE ~requests[r].current
    <3>1. UNCHANGED servers
      BY <1>2, <2>2, <2>4 DEF Replaced
    <3> QED
      BY <1>1, <1>3, <2>1, <2>2, <2>4, <3>1, ListChanged
  <2> QED
    BY <2>3, <2>4
<1>6. CASE DeleteArrives(r)
  <2>1. Gone(r)
    BY <1>1, <1>6, FinishedGone DEF DeleteArrives
  <2>2. /\ requests[r].stage = "done" /\ UNCHANGED missed
        /\ IF requests[r].current THEN servers' = [servers EXCEPT ![s] = Nil]
                                  ELSE UNCHANGED servers
    BY <1>2, <1>6 DEF DeleteArrives, Answered
  <2>3. rows[s] = Nil
    BY <1>6, <2>2 DEF IInv, GoneForGood, DeleteArrives, Answered, InFlight
  <2> QED
    BY <1>1, <1>3, <2>1, <2>2, <2>3, ListChanged
<1> QED
  BY <1>4, <1>5, <1>6

\* A token comes with a page that loads its list anew.
LEMMA ListTokens ==
    ASSUME IInv, ListInv, NEW r \in Requests, CreateArrives(r) \/ RotateArrives(r)
    PROVE  ListInv'
<1>1. requests \in [Requests -> RequestStates]
  BY DEF IInv, AdminTypeOK
<1>2. Without(r) \in [Requests -> RequestStates]
  BY <1>1, WithoutRequest
<1>3. \A q \in Requests : ~Without(r)[q].superseded /\ ~Without(r)[q].overtaken
  BY <1>1 DEF ListInv, NeverLate, Without, NoRequest
<1>4. MountPage(Without(r))
  BY DEF CreateArrives, RotateArrives, publishToken, ListInv, NeverLate, Applied
<1> QED
  BY <1>2, <1>3, <1>4, ListMounted

LEMMA ListUncreated ==
    ASSUME IInv, ListInv, NEW r \in Requests, CreateFails(r)
    PROVE  ListInv'
<1>1. requests \in [Requests -> RequestStates] /\ requests[r].kind = "create"
      /\ requests[r].stage \in {"sent", "done"}
  BY DEF IInv, AdminTypeOK, RequestStates, CreateFails, InFlight
<1>2. Gone(r) /\ UNCHANGED <<rows, path, servers, loadState, pendingByServer>>
  BY <1>1, WithoutGone DEF CreateFails
<1>3. \A q \in Requests : requests'[q].kind # "none" =>
        q # r /\ Alike(requests[q], requests'[q])
  BY <1>2 DEF Gone
<1>4. missed' = {} => missed = {} /\ requests[r].stage = "sent"
  BY <1>1 DEF CreateFails, LostBy
<1>5. \A q \in Requests : Change(q)' => Change(q) /\ Alike(requests[q], requests'[q])
  BY <1>3 DEF Change, InFlight, Alike, RowKinds
<1>6. OneList' /\ NeverLate'
  BY <1>2, <1>3 DEF ListInv, OneList, NeverLate, Gone, InFlight, Alike
<1>7. OneChange'
  BY <1>2, <1>5 DEF ListInv, OneChange, Alike
<1>8. RightAnswers'
  BY <1>2, <1>4, <1>5 DEF ListInv, RightAnswers, InFlight, Alike
<1>9. missed' = {} => \A s \in Servers : Awaited(s) => Awaited(s)'
  BY <1>2, <1>4 DEF Awaited, InFlight, Alike, Gone
<1>10. Accounted'
  BY <1>2, <1>3, <1>4, <1>9 DEF ListInv, Accounted, InFlight, Alike
<1> QED
  BY <1>6, <1>7, <1>8, <1>10 DEF ListInv

LEMMA ListReads ==
    ASSUME IInv, ListInv, NEW r \in Requests, ListArrives(r) \/ ListFails(r)
    PROVE  ListInv'
<1>1. /\ requests \in [Requests -> RequestStates] /\ InFlight(r, {"list"})
      /\ requests' = Without(r)
      /\ UNCHANGED <<rows, path, pendingByServer, missed>>
  BY DEF IInv, AdminTypeOK, ListArrives, ListFails, Answered, InFlight
<1>2. Gone(r)
  BY <1>1, WithoutGone
<1>3. \A q \in Requests : requests'[q].kind # "none" =>
        q # r /\ Alike(requests[q], requests'[q])
  BY <1>2 DEF Gone
<1>4. \A q \in Requests : ~InFlight(q, {"list"})' /\ ~Change(q)'
  BY <1>1, <1>3 DEF ListInv, OneList, OneChange, Change, InFlight, Alike, RowKinds
<1>5. OneList' /\ NeverLate' /\ OneChange' /\ RightAnswers'
  BY <1>2, <1>4 DEF ListInv, OneList, NeverLate, OneChange, RightAnswers, Gone, Alike
<1>6. \A s \in Servers : Awaited(s) => Awaited(s)'
  BY <1>1, <1>2 DEF Awaited, InFlight, Alike, Gone
<1>7. CASE ListArrives(r)
  <2>1. requests[r].stage = "done" /\ servers' = requests[r].answer
    BY <1>1, <1>7 DEF ListArrives, Answered, Heard, Applied, ListInv, NeverLate, OneList
  <2> QED
    BY <1>1, <1>4, <1>5, <1>6, <2>1 DEF ListInv, Accounted
<1>8. CASE ListFails(r)
  <2>1. loadState' = "error"
    BY <1>1, <1>8 DEF ListFails, Heard, Applied, ListInv, NeverLate, OneList
  <2> QED
    BY <1>4, <1>5, <2>1 DEF ListInv, Accounted
<1> QED
  BY <1>7, <1>8

\* A list that is read is what the table has.
LEMMA ListRead ==
    ASSUME IInv, ListInv, NEW r \in Requests, ReadList(r)
    PROVE  ListInv'
<1>1. /\ requests \in [Requests -> RequestStates] /\ InFlight(r, {"list"})
      /\ requests' = [requests EXCEPT ![r].stage = "done", ![r].answer = rows]
      /\ UNCHANGED <<rows, path, servers, loadState, pendingByServer>>
  BY DEF IInv, AdminTypeOK, ReadList, Sent, InFlight
<1>2. /\ requests'[r].kind = "list" /\ requests'[r].answer = rows
      /\ requests'[r].current = requests[r].current
      /\ requests'[r].superseded = requests[r].superseded
      /\ requests'[r].overtaken = requests[r].overtaken
      /\ \A q \in Requests \ {r} : requests'[q] = requests[q]
  BY <1>1 DEF RequestStates, InFlight
<1>3. loadState = "loading" /\ \A q \in Requests : ~Change(q)
  BY <1>1 DEF ListInv, OneList, OneChange
<1>4. \A q \in Requests : ~Change(q)'
  BY <1>2, <1>3 DEF Change, InFlight, RowKinds
<1>5. OneList' /\ NeverLate'
  BY <1>1, <1>2 DEF ListInv, OneList, NeverLate, InFlight
<1>6. OneChange' /\ RightAnswers'
  BY <1>4 DEF OneChange, RightAnswers
<1>7. Accounted'
  <2>1. \A q \in Requests : InFlight(q, {"list"})' => q = r
    BY <1>1, <1>2, <1>5 DEF OneList, InFlight
  <2> QED
    BY <1>1, <1>2, <1>3, <2>1 DEF Accounted
<1> QED
  BY <1>5, <1>6, <1>7 DEF ListInv

LEMMA ListReloads ==
    ASSUME IInv, ListInv, loadServers
    PROVE  ListInv'
<1>1. /\ requests \in [Requests -> RequestStates]
      /\ path = "servers" /\ loadState = "error" /\ loadState' = "loading"
      /\ UNCHANGED <<rows, path, servers, pendingByServer, missed>>
  BY DEF IInv, AdminTypeOK, loadServers, managementPath
<1>2. \A q \in Requests : ~InFlight(q, {"list"}) /\ ~Change(q)
  BY <1>1 DEF ListInv, OneList, OneChange
<1>3. PICK r \in Idle :
        requests' = [q \in Requests |->
           IF q = r THEN NewRequest("list")
           ELSE [requests[q] EXCEPT
                   !.superseded = @ \/ requests[q].kind = "list"]]
  BY DEF loadServers
<1>4. /\ r \in Requests /\ requests'[r].kind = "list" /\ requests'[r].current
      /\ requests'[r].stage = "sent"
      /\ ~requests'[r].superseded /\ ~requests'[r].overtaken
  BY <1>3 DEF Idle, NewRequest, NoRequest
<1>5. ASSUME NEW q \in Requests \ {r} PROVE Alike(requests[q], requests'[q])
  <2>1. requests[q].kind # "list" /\ requests[q].superseded = FALSE
        /\ requests[q] \in RequestStates
    BY <1>1, <1>2 DEF ListInv, NeverLate, InFlight, RequestStates
  <2>2. PICK b \in BOOLEAN :
          b = FALSE /\ requests'[q] = [requests[q] EXCEPT !.superseded = b]
    BY <1>3, <2>1
  <2> QED
    BY <2>1, <2>2 DEF Alike, RequestStates
<1>6. \A q \in Requests : ~Change(q)' /\ (InFlight(q, {"list"})' => q = r)
  BY <1>2, <1>4, <1>5 DEF Change, InFlight, RowKinds, Alike
<1>7. OneList' /\ NeverLate'
  BY <1>1, <1>4, <1>5, <1>6 DEF ListInv, OneList, NeverLate, Alike
<1>8. OneChange' /\ RightAnswers'
  BY <1>6 DEF OneChange, RightAnswers
<1>9. Accounted'
  BY <1>1, <1>4, <1>6 DEF Accounted
<1> QED
  BY <1>7, <1>8, <1>9 DEF ListInv

\* A change that begins is the only one of its row.
LEMMA ListBegun ==
    ASSUME IInv, ListInv, NEW s \in Servers, NEW request \in RequestStates,
           request.kind \in RowKinds, request.stage = "sent", request.server = s,
           request.current, ~request.superseded, ~request.overtaken,
           RowEnabled(s), BeginRow(s, request), UNCHANGED <<rows, path, missed>>
    PROVE  ListInv'
<1> DEFINE Mark(q) == /\ InFlight(q, RowKinds)
                      /\ requests[q].current
                      /\ requests[q].server = s
           Marked == [q \in Requests |->
                        [requests[q] EXCEPT !.superseded = @ \/ Mark(q)]]
<1>1. /\ requests \in [Requests -> RequestStates]
      /\ pendingByServer \in [Servers -> RowKinds \cup {Nil}]
      /\ path = "servers" /\ loadState = "success"
      /\ servers[s] # Nil /\ pendingByServer[s] = Nil
  BY DEF IInv, AdminTypeOK, RowEnabled, RowBusy, Listed, managementPath
<1>2. \A q \in Requests : ~InFlight(q, {"list"}) /\ ~Mark(q)
  BY <1>1 DEF ListInv, OneList, OneChange, Change
<1>3. \A q \in Requests : Marked[q] \in RequestStates /\ Marked[q] = requests[q]
  <2>1. SUFFICES ASSUME NEW q \in Requests
                 PROVE  Marked[q] \in RequestStates /\ Marked[q] = requests[q]
    OBVIOUS
  <2>2. requests[q] \in RequestStates /\ requests[q].superseded = FALSE /\ ~Mark(q)
    BY <1>1, <1>2 DEF ListInv, NeverLate, RequestStates
  <2>3. PICK b \in BOOLEAN :
          b = FALSE /\ Marked[q] = [requests[q] EXCEPT !.superseded = b]
    BY <2>2
  <2> QED
    BY <2>2, <2>3 DEF RequestStates
<1>4. Marked = requests
  BY <1>1, <1>3
<1>5. Overtaken(requests) \in [Requests -> RequestStates]
      /\ \A q \in Requests : Alike(requests[q], Overtaken(requests)[q])
  <2>1. ASSUME NEW q \in Requests PROVE Alike(requests[q], Overtaken(requests)[q])
    <3>1. requests[q].kind # "list" /\ requests[q].overtaken = FALSE
          /\ requests[q] \in RequestStates
      BY <1>1, <1>2 DEF ListInv, NeverLate, InFlight, RequestStates
    <3>2. PICK b \in BOOLEAN :
            b = FALSE /\ Overtaken(requests)[q] = [requests[q] EXCEPT !.overtaken = b]
      BY <3>1 DEF Overtaken
    <3> QED
      BY <3>1, <3>2 DEF Alike, RequestStates
  <2> QED
    BY <1>1, <2>1, OvertakenRequests
<1>6. PICK r \in Idle : requests' = [Overtaken(requests) EXCEPT ![r] = request]
  <2>1. \E r \in Idle : requests' = [Overtaken(Marked) EXCEPT ![r] = request]
    BY DEF BeginRow
  <2> QED
    BY <1>4, <2>1
<1> HIDE DEF Mark, Marked
<1>7. /\ r \in Requests /\ requests[r].kind = "none" /\ requests'[r] = request
      /\ \A q \in Requests \ {r} : Alike(requests[q], requests'[q])
  BY <1>5, <1>6 DEF Idle
<1>8. /\ UNCHANGED <<servers, loadState>>
      /\ pendingByServer' = [pendingByServer EXCEPT ![s] = request.kind]
  BY DEF BeginRow
<1>9. \A q \in Requests \ {r} : /\ InFlight(q, {"list"})' <=> InFlight(q, {"list"})
                                /\ Change(q)' <=> Change(q)
  BY <1>7 DEF Change, InFlight, Alike
<1>10. OneList' /\ NeverLate'
  BY <1>2, <1>7, <1>9 DEF ListInv, OneList, NeverLate, InFlight, Alike, RowKinds
<1>11. OneChange'
  <2>1. ASSUME NEW q \in Requests, Change(q)'
        PROVE  /\ servers[requests'[q].server] # Nil
               /\ pendingByServer'[requests'[q].server] # Nil
    <3>1. CASE q = r
      BY <1>1, <1>7, <1>8, <3>1, AdminNil DEF RowKinds
    <3>2. CASE q # r
      <4>1. requests'[q].server \in Servers /\ Change(q)
            /\ requests'[q].server = requests[q].server
        BY <1>7, <1>9, <2>1, <3>2 DEF Alike, Change, IInv, Aimed
      <4>2. requests[q].server # s
        BY <1>1, <4>1 DEF ListInv, OneChange
      <4> QED
        BY <1>1, <1>8, <4>1, <4>2 DEF ListInv, OneChange
    <3> QED
      BY <3>1, <3>2
  <2>2. ASSUME NEW q \in Requests, NEW p \in Requests, Change(q)', Change(p)',
               requests'[q].server = requests'[p].server
        PROVE  q = p
    <3>1. \A u \in Requests \ {r} : Change(u) => requests'[u].server # s
      BY <1>1, <1>7 DEF ListInv, OneChange, Alike
    <3> QED
      BY <1>7, <1>9, <2>2, <3>1 DEF ListInv, OneChange, Alike
  <2> QED
    BY <1>1, <1>8, <2>1, <2>2 DEF OneChange
<1>12. RightAnswers'
  BY <1>7, <1>9 DEF ListInv, RightAnswers, InFlight, Alike
<1>13. \A u \in Servers : Awaited(u) => Awaited(u)'
  BY <1>7 DEF Awaited, InFlight, Alike
<1>14. Accounted'
  BY <1>1, <1>2, <1>7, <1>8, <1>9, <1>10, <1>13 DEF ListInv, Accounted, InFlight, RowKinds
<1> QED
  BY <1>10, <1>11, <1>12, <1>14 DEF ListInv

LEMMA ListStarts ==
    ASSUME IInv, ListInv, NEW s \in Servers,
           (\E n \in Names : rename(s, n)) \/ toggle(s) \/ remove(s) \/ rotate(s)
    PROVE  ListInv'
<1> DEFINE Good(request) ==
      /\ request.kind \in RowKinds /\ request.stage = "sent" /\ request.server = s
      /\ request.current /\ ~request.superseded /\ ~request.overtaken
      /\ BeginRow(s, request)
<1>1. \A kind \in RowKinds :
        LET n == RowRequest(kind, s) IN
          /\ n \in RequestStates /\ n.kind = kind /\ n.server = s
          /\ n.stage = "sent" /\ n.current /\ ~n.superseded /\ ~n.overtaken
  BY FreshRequests DEF Kinds, RowRequest, NewRequest, NoRequest
<1>2. ASSUME NEW n \in Names, NEW kind \in RowKinds,
             BeginRow(s, [RowRequest(kind, s) EXCEPT !.name = n])
      PROVE  \E request \in RequestStates : Good(request)
  <2>1. LET request == [RowRequest(kind, s) EXCEPT !.name = n] IN
          request \in RequestStates /\ Good(request)
    <3> HIDE DEF BeginRow
    <3> QED
      BY <1>1, <1>2 DEF RequestStates
  <2> QED
    BY <2>1, Zenon
<1>3. ASSUME NEW b \in BOOLEAN,
             BeginRow(s, [RowRequest("toggle", s) EXCEPT !.enabled = b])
      PROVE  \E request \in RequestStates : Good(request)
  <2>1. LET request == [RowRequest("toggle", s) EXCEPT !.enabled = b] IN
          request \in RequestStates /\ Good(request)
    <3> HIDE DEF BeginRow
    <3> QED
      BY <1>1, <1>3 DEF RequestStates, RowKinds
  <2> QED
    BY <2>1, Zenon
<1>4. ASSUME BeginRow(s, RowRequest("delete", s))
      PROVE  \E request \in RequestStates : Good(request)
  <2> HIDE DEF BeginRow
  <2> QED
    BY <1>1, <1>4 DEF RowKinds
<1>5. RowEnabled(s) /\ UNCHANGED <<rows, path, missed>>
  BY DEF rename, toggle, remove, rotate, RowButtons, Confirming
<1>6. servers[s] \in Records
  BY <1>5 DEF RowEnabled, Listed, IInv, AdminTypeOK, Tables
<1>7. \E request \in RequestStates : Good(request)
  <2>1. CASE \E n \in Names : rename(s, n)
    BY <1>2, <2>1 DEF rename, RowKinds
  <2>2. CASE toggle(s)
    <3>1. PICK b \in BOOLEAN : b = ~servers[s].enabled
      OBVIOUS
    <3>2. BeginRow(s, [RowRequest("toggle", s) EXCEPT !.enabled = b])
      BY <2>2, <3>1, Zenon DEF toggle
    <3> QED
      BY <1>3, <3>2
  <2>3. CASE remove(s)
    BY <1>4, <2>3 DEF remove
  <2>4. CASE rotate(s)
    <3>1. servers[s].name \in Names
      BY <1>6 DEF Records
    <3>2. BeginRow(s, [RowRequest("rotate", s) EXCEPT !.name = servers[s].name])
      BY <2>4, Zenon DEF rotate
    <3> QED
      BY <1>2, <3>1, <3>2 DEF RowKinds
  <2> HIDE DEF Good
  <2> QED
    BY <2>1, <2>2, <2>3, <2>4
<1> QED
  BY <1>5, <1>7, ListBegun

LEMMA ListCreates ==
    ASSUME IInv, ListInv, NEW n \in Names, create(n)
    PROVE  ListInv'
<1>1. PICK r \in Idle :
        requests' = [requests EXCEPT ![r] = [NewRequest("create") EXCEPT !.name = n]]
  BY DEF create
<1>2. requests \in [Requests -> RequestStates]
  BY DEF IInv, AdminTypeOK
<1>3. /\ r \in Requests /\ requests[r].kind = "none"
      /\ requests'[r].kind = "create" /\ requests'[r].stage = "sent"
      /\ ~requests'[r].superseded /\ ~requests'[r].overtaken
      /\ \A q \in Requests \ {r} : requests'[q] = requests[q]
  BY <1>1, <1>2 DEF Idle, NewRequest, NoRequest
<1>4. UNCHANGED <<rows, path, servers, loadState, pendingByServer, missed>>
  BY DEF create
<1>5. \A q \in Requests : /\ InFlight(q, {"list"})' => q # r /\ InFlight(q, {"list"})
                          /\ Change(q)' => q # r /\ Change(q)
  BY <1>3 DEF Change, InFlight, RowKinds
<1>6. OneList' /\ NeverLate' /\ OneChange'
  BY <1>3, <1>4, <1>5 DEF ListInv, OneList, NeverLate, OneChange
<1>7. RightAnswers'
  BY <1>3, <1>4, <1>5 DEF ListInv, RightAnswers, InFlight
<1>8. \A u \in Servers : Awaited(u) => Awaited(u)'
  BY <1>3 DEF Awaited, InFlight
<1>9. Accounted'
  BY <1>3, <1>4, <1>5, <1>8 DEF ListInv, Accounted
<1> QED
  BY <1>6, <1>7, <1>9 DEF ListInv

\* A handler that commits leaves the requests as the page knows them.
LEMMA ListCommitted ==
    ASSUME IInv, ListInv, NEW r \in Requests,
           requests[r].kind # "list", requests'[r].kind = requests[r].kind,
           requests'[r].server = requests[r].server \/ requests[r].kind = "create",
           requests'[r].current = requests[r].current,
           requests'[r].superseded = requests[r].superseded,
           requests'[r].overtaken = requests[r].overtaken,
           \A q \in Requests \ {r} : requests'[q] = requests[q],
           UNCHANGED <<path, servers, loadState, pendingByServer>>
    PROVE  /\ OneList' /\ NeverLate' /\ OneChange'
           /\ \A q \in Requests : /\ InFlight(q, {"list"})' => q # r /\ InFlight(q, {"list"})
                                  /\ Change(q)' <=> Change(q)
           /\ requests[r].stage = "sent" =>
                \A s \in Servers : Awaited(s) => Awaited(s)'
<1>1. \A q \in Requests : /\ InFlight(q, {"list"})' => q # r /\ InFlight(q, {"list"})
                          /\ Change(q)' <=> Change(q)
  BY DEF Change, InFlight
<1>2. OneList' /\ NeverLate'
  BY <1>1 DEF ListInv, OneList, NeverLate
<1>3. \A q \in Requests : Change(q) => requests'[q].server = requests[q].server
  BY DEF Change, InFlight, RowKinds
<1>4. OneChange'
  BY <1>1, <1>3 DEF ListInv, OneChange
<1>5. requests[r].stage = "sent" => \A s \in Servers : Awaited(s) => Awaited(s)'
  BY DEF Awaited, InFlight
<1> QED
  BY <1>1, <1>2, <1>4, <1>5

LEMMA ListCreated ==
    ASSUME IInv, ListInv, NEW r \in Requests, CommitCreate(r)
    PROVE  ListInv'
<1>1. PICK s \in Servers \ given :
        LET row == [name |-> requests[r].name, enabled |-> TRUE] IN
        /\ rows' = [rows EXCEPT ![s] = row]
        /\ requests' = [requests EXCEPT
                          ![r].stage = "done", ![r].server = s,
                          ![r].answer[s] = row, ![r].token = tokens + 1]
  BY DEF CommitCreate
<1>2. /\ requests \in [Requests -> RequestStates] /\ rows \in Tables
      /\ requests[r].kind = "create" /\ requests[r].stage = "sent"
      /\ UNCHANGED <<path, servers, loadState, pendingByServer, missed>>
  BY DEF IInv, AdminTypeOK, CommitCreate, Sent
<1>3. /\ requests'[r].kind = "create" /\ requests'[r].stage = "done"
      /\ requests'[r].server = s
      /\ requests'[r].current = requests[r].current
      /\ requests'[r].superseded = requests[r].superseded
      /\ requests'[r].overtaken = requests[r].overtaken
      /\ \A q \in Requests \ {r} : requests'[q] = requests[q]
  BY <1>1, <1>2 DEF RequestStates
<1>4. rows[s] = Nil /\ \A u \in Servers \ {s} : rows'[u] = rows[u]
  BY <1>1, <1>2 DEF IInv, GoneForGood, Tables
<1>5. OneList' /\ NeverLate' /\ OneChange'
      /\ \A q \in Requests : /\ InFlight(q, {"list"})' => q # r /\ InFlight(q, {"list"})
                             /\ Change(q)' <=> Change(q)
      /\ \A u \in Servers : Awaited(u) => Awaited(u)'
  BY <1>2, <1>3, ListCommitted
<1>6. RightAnswers'
  <2>1. SUFFICES ASSUME NEW q \in Requests, Change(q)', InFlight(q, {"rename", "toggle"})',
                        requests'[q].stage = "done"
                 PROVE  /\ requests'[q].answer[requests'[q].server] # Nil
                        /\ missed' = {} =>
                             requests'[q].answer[requests'[q].server]
                               = rows'[requests'[q].server]
    BY DEF RightAnswers
  <2>2. q # r /\ requests'[q] = requests[q] /\ Change(q) /\ InFlight(q, {"rename", "toggle"})
    BY <1>3, <1>5, <2>1 DEF InFlight
  <2>3. requests[q].server \in Servers
    BY <2>2 DEF IInv, Aimed, Change
  <2>4. /\ requests[q].answer[requests[q].server] # Nil
        /\ missed = {} => requests[q].answer[requests[q].server] = rows[requests[q].server]
    BY <2>1, <2>2 DEF ListInv, RightAnswers
  <2> QED
    BY <1>2, <1>4, <2>2, <2>3, <2>4
<1>7. Awaited(s)'
  BY <1>3 DEF Awaited, InFlight
<1>8. Accounted'
  BY <1>2, <1>3, <1>4, <1>5, <1>7 DEF ListInv, Accounted
<1> QED
  BY <1>5, <1>6, <1>8 DEF ListInv

LEMMA ListUpdated ==
    ASSUME IInv, ListInv, NEW r \in Requests, CommitUpdate(r) \/ CommitDelete(r)
    PROVE  ListInv'
<1> DEFINE s == requests[r].server
<1>1. /\ requests \in [Requests -> RequestStates] /\ rows \in Tables
      /\ InFlight(r, {"rename", "toggle", "delete"}) /\ requests[r].stage = "sent"
      /\ s \in Servers
      /\ UNCHANGED <<path, servers, loadState, pendingByServer>>
      /\ missed' = IF requests[r].current THEN missed ELSE missed \cup {"orphaned"}
  BY DEF IInv, AdminTypeOK, Aimed, CommitUpdate, CommitDelete, Sent, InFlight,
     MissedBy, Orphan, RowKinds
<1>2. /\ requests'[r].kind = requests[r].kind /\ requests'[r].stage = "done"
      /\ requests'[r].server = s
      /\ requests'[r].current = requests[r].current
      /\ requests'[r].superseded = requests[r].superseded
      /\ requests'[r].overtaken = requests[r].overtaken
      /\ \A q \in Requests \ {r} : requests'[q] = requests[q]
  BY <1>1 DEF CommitUpdate, CommitDelete, RequestStates
<1>3. \A u \in Servers \ {s} : rows'[u] = rows[u]
  BY <1>1 DEF CommitUpdate, CommitDelete, Tables
<1>4. OneList' /\ NeverLate' /\ OneChange'
      /\ \A q \in Requests : /\ InFlight(q, {"list"})' => q # r /\ InFlight(q, {"list"})
                             /\ Change(q)' <=> Change(q)
      /\ \A u \in Servers : Awaited(u) => Awaited(u)'
  BY <1>1, <1>2, ListCommitted DEF InFlight
<1>5. InFlight(r, {"rename", "toggle"}) =>
        requests'[r].answer[s] # Nil /\ requests'[r].answer[s] = rows'[s]
  <2>1. SUFFICES ASSUME InFlight(r, {"rename", "toggle"})
                 PROVE  requests'[r].answer[s] # Nil /\ requests'[r].answer[s] = rows'[s]
    OBVIOUS
  <2>2. /\ rows[s] # Nil /\ rows' = [rows EXCEPT ![s] = Updated(r)]
        /\ requests' = [requests EXCEPT ![r].stage = "done", ![r].answer[s] = Updated(r)]
    BY <2>1 DEF CommitUpdate, CommitDelete, Sent, InFlight
  <2>3. rows[s] \in Records
    BY <1>1, <2>2 DEF Tables
  <2>4. Updated(r) \in Records
    <3>1. /\ requests[r].enabled \in BOOLEAN
          /\ requests[r].kind = "rename" => requests[r].name \in Names
      BY <1>1 DEF RequestStates, IInv, Aimed, InFlight
    <3> QED
      BY <2>3, <3>1 DEF Updated, Records
  <2>5. Updated(r) # Nil
    BY <2>4, AdminNil DEF Records
  <2>6. requests'[r].answer[s] = Updated(r) /\ rows'[s] = Updated(r)
    BY <1>1, <2>2 DEF RequestStates, Tables
  <2> QED
    BY <2>5, <2>6
<1>6. RightAnswers'
  <2>1. SUFFICES ASSUME NEW q \in Requests, Change(q)', InFlight(q, {"rename", "toggle"})',
                        requests'[q].stage = "done"
                 PROVE  /\ requests'[q].answer[requests'[q].server] # Nil
                        /\ missed' = {} =>
                             requests'[q].answer[requests'[q].server]
                               = rows'[requests'[q].server]
    BY DEF RightAnswers
  <2>2. CASE q = r
    BY <1>2, <1>5, <2>1, <2>2 DEF InFlight
  <2>3. CASE q # r
    <3>1. requests'[q] = requests[q] /\ Change(q) /\ InFlight(q, {"rename", "toggle"})
          /\ requests[q].server \in Servers
      BY <1>2, <1>4, <2>1, <2>3 DEF InFlight, IInv, Aimed, Change
    <3>2. /\ requests[q].answer[requests[q].server] # Nil
          /\ missed = {} => requests[q].answer[requests[q].server] = rows[requests[q].server]
      BY <2>1, <3>1 DEF ListInv, RightAnswers
    <3>3. missed' = {} => missed = {} /\ requests[q].server # s
      <4>1. ASSUME missed' = {} PROVE missed = {} /\ Change(r)
        BY <1>1, <4>1 DEF Change, InFlight, RowKinds
      <4> QED
        BY <2>3, <3>1, <4>1 DEF ListInv, OneChange
    <3> QED
      BY <1>3, <3>1, <3>2, <3>3
  <2> QED
    BY <2>2, <2>3
<1>7. Accounted'
  <2>1. SUFFICES ASSUME missed' = {} PROVE Accounted'
    BY DEF Accounted
  <2>2. requests[r].current /\ missed = {} /\ Change(r)
    BY <1>1, <2>1 DEF Change, InFlight, RowKinds
  <2>3. \A q \in Requests : ~InFlight(q, {"list"})
    BY <2>2 DEF ListInv, OneList, OneChange
  <2>4. \A u \in Servers : u = s => Awaited(u)'
    BY <1>1, <1>2, <2>2 DEF Awaited, InFlight
  <2>5. \A q \in Requests : ~InFlight(q, {"list"})'
    BY <1>4, <2>3
  <2>6. ASSUME path' = "servers", loadState' = "success", NEW u \in Servers
        PROVE  servers'[u] = rows'[u] \/ Awaited(u)'
    <3>1. servers[u] = rows[u] \/ Awaited(u)
      BY <1>1, <2>2, <2>6 DEF ListInv, Accounted
    <3>2. CASE u = s
      BY <2>4, <3>2
    <3>3. CASE u # s
      <4>1. servers' = servers /\ rows'[u] = rows[u]
        BY <1>1, <1>3, <3>3
      <4>2. Awaited(u) => Awaited(u)'
        BY <1>4
      <4> QED
        BY <3>1, <4>1, <4>2
    <3> QED
      BY <3>2, <3>3
  <2> QED
    BY <2>5, <2>6 DEF Accounted
<1> QED
  BY <1>4, <1>6, <1>7 DEF ListInv

LEMMA ListRotated ==
    ASSUME IInv, ListInv, NEW r \in Requests, CommitRotate(r)
    PROVE  ListInv'
<1>1. /\ requests \in [Requests -> RequestStates]
      /\ requests[r].kind = "rotate" /\ requests[r].stage = "sent"
      /\ UNCHANGED <<rows, path, servers, loadState, pendingByServer, missed>>
  BY DEF IInv, AdminTypeOK, CommitRotate, Sent
<1>2. /\ requests'[r].kind = "rotate"
      /\ requests'[r].server = requests[r].server
      /\ requests'[r].current = requests[r].current
      /\ requests'[r].superseded = requests[r].superseded
      /\ requests'[r].overtaken = requests[r].overtaken
      /\ \A q \in Requests \ {r} : requests'[q] = requests[q]
  BY <1>1 DEF CommitRotate, RequestStates
<1>3. OneList' /\ NeverLate' /\ OneChange'
      /\ \A q \in Requests : /\ InFlight(q, {"list"})' => q # r /\ InFlight(q, {"list"})
                             /\ Change(q)' <=> Change(q)
      /\ \A u \in Servers : Awaited(u) => Awaited(u)'
  BY <1>1, <1>2, ListCommitted
<1>4. RightAnswers'
  BY <1>1, <1>2, <1>3 DEF ListInv, RightAnswers, InFlight
<1>5. Accounted'
  BY <1>1, <1>2, <1>3 DEF ListInv, Accounted
<1> QED
  BY <1>3, <1>4, <1>5 DEF ListInv

LEMMA ListKeeps ==
    ASSUME IInv, ListInv, AdminNext PROVE ListInv'
<1>1. CASE User
  <2>1. CASE Navigate \/ ReturnFromError
    BY <2>1, ListVisits
  <2>2. CASE loadServers
    BY <2>2, ListReloads
  <2>3. CASE clearToken \/ AddServer \/ CancelCreate
    BY <2>3, ListRests DEF clearToken, AddServer, CancelCreate
  <2>4. ASSUME NEW n \in Names, create(n) PROVE ListInv'
    BY <2>4, ListCreates
  <2>5. ASSUME NEW s \in Servers,
               \/ beginRename(s) \/ Cancel(s)
               \/ \E action \in {"delete", "rotate"} : Ask(s, action)
        PROVE  ListInv'
    BY <2>5, ListRests DEF beginRename, Cancel, Ask
  <2>6. ASSUME NEW s \in Servers,
               (\E n \in Names : rename(s, n)) \/ toggle(s) \/ remove(s) \/ rotate(s)
        PROVE  ListInv'
    BY <2>6, ListStarts
  <2> QED
    BY <1>1, <2>1, <2>2, <2>3, <2>4, <2>5, <2>6 DEF User
<1>2. ASSUME NEW r \in Requests, Handlers(r) PROVE ListInv'
  BY <1>2, ListRead, ListCreated, ListUpdated, ListRotated DEF Handlers
<1>3. ASSUME NEW r \in Requests, Answers(r) PROVE ListInv'
  BY <1>3, ListReads, ListTokens, ListAnswered DEF Answers
<1>4. ASSUME NEW r \in Requests, Failures(r) PROVE ListInv'
  BY <1>4, ListReads, ListUncreated, ListAnswered DEF Failures
<1> QED
  BY <1>1, <1>2, <1>3, <1>4 DEF AdminNext

\* What the page awaits and shows, in every state: a list is awaited alone, a row
\* is changed once at a time, no answer comes after a newer request of its row
\* was begun, and what the list does not yet show is on its way
\* (useServerCollection.ts:36-139).
THEOREM ListInvariant == Spec => []ListInv
<1>1. Init => ListInv
  BY ListInit DEF Init
<1>2. IInv /\ ListInv /\ [App]_vars => ListInv'
  <2>1. SUFFICES ASSUME IInv, ListInv, UNCHANGED adminVars PROVE ListInv'
    BY ListKeeps DEF App, vars
  <2> QED
    BY <2>1, ListRests DEF adminVars
<1> QED
  BY <1>1, <1>2, Invariant, PTL DEF Spec

\* A loaded list with no answer on its way is the table, unless a row changed
\* for a page that is gone or with an answer that was lost
\* (useServerCollection.ts:36-139, ServersPage.tsx:54-244).
THEOREM ListAgreesHolds == Spec => []ListAgrees
<1>1. IInv /\ ListInv => ListAgrees
  <2>1. SUFFICES ASSUME IInv, ListInv, Settled, missed = {} PROVE servers = rows
    BY DEF ListAgrees
  <2>2. \A s \in Servers : ~Awaited(s)
    BY <2>1 DEF Settled, Awaited
  <2>3. \A s \in Servers : servers[s] = rows[s]
    BY <2>1, <2>2 DEF ListInv, Accounted, Settled, managementPath
  <2> QED
    BY <2>1, <2>3 DEF IInv, AdminTypeOK, Tables
<1> QED
  BY <1>1, Invariant, ListInvariant, PTL

(***************************************************************************)
(* The door: the rows of the admins table.                                 *)
(***************************************************************************)
\* One row at most, and whoever was told so made it.
AdministratorInv ==
    /\ administrators \subseteq Browsers
    /\ \A a, b \in administrators : a = b
    /\ setups \in [Browsers -> {"none", "posted", "checked", "created", "refused"}]
    /\ \A b \in Browsers : setups[b] = "created" => b \in administrators

LEMMA AdministratorInit ==
    ASSUME SessionInit PROVE AdministratorInv
  BY DEF SessionInit, AdministratorInv

LEMMA SetupSteps ==
    ASSUME AdministratorInv, SessionNext PROVE AdministratorInv'
<1> USE DEF AdministratorInv, accounts
<1>1. ASSUME NEW b \in Browsers, CheckRequired(b) PROVE AdministratorInv'
  BY <1>1 DEF CheckRequired
<1>2. ASSUME NEW b \in Browsers, InsertAdmin(b) PROVE AdministratorInv'
  BY <1>2 DEF InsertAdmin
<1>3. ASSUME NEW b \in Browsers, OtherPosts(b) PROVE AdministratorInv'
  BY <1>3 DEF OtherPosts, Post
<1>4. CASE SubmitSetup
  BY <1>4, TabAssumption DEF SubmitSetup, Post
<1>5. CASE SetupFails
  BY <1>5, TabAssumption DEF SetupFails
<1>6. CASE UNCHANGED accounts
  BY <1>6
<1>7. \/ \E b \in Browsers : CheckRequired(b) \/ InsertAdmin(b) \/ OtherPosts(b)
      \/ SubmitSetup \/ SetupFails \/ UNCHANGED accounts
  BY DEF SessionNext, ResolveStatus, ResolveMe, ResolveFails, RetryGate,
     SetupAnswered, SubmitLogin, LoginAnswered, SessionEnds
<1> QED
  BY <1>1, <1>2, <1>3, <1>4, <1>5, <1>6, <1>7

\* However many browsers set up a fresh installation at once, the table keeps one
\* row and nobody else is told of success (auth/service.go:49).
THEOREM OneAdministratorHolds == Spec => []OneAdministrator
<1>1. Init => AdministratorInv
  BY AdministratorInit DEF Init
<1>2. AdministratorInv /\ [App]_vars => AdministratorInv'
  <2>1. SUFFICES ASSUME AdministratorInv, UNCHANGED sessionVars PROVE AdministratorInv'
    BY SetupSteps DEF App, vars
  <2> QED
    BY <2>1 DEF sessionVars, accounts, AdministratorInv
<1>3. AdministratorInv => OneAdministrator
  <2>1. SUFFICES ASSUME AdministratorInv PROVE Cardinality(administrators) <= 1
    BY DEF AdministratorInv, OneAdministrator
  <2>2. CASE administrators = {}
    BY <2>2, FS_EmptySet
  <2>3. ASSUME NEW b \in administrators PROVE Cardinality(administrators) <= 1
    <3>1. administrators = {b}
      BY <2>1 DEF AdministratorInv
    <3>2. Cardinality({b}) = 1
      BY FS_Singleton
    <3> QED
      BY <3>1, <3>2
  <2> QED
    BY <2>2, <2>3
<1> QED
  BY <1>1, <1>2, <1>3, PTL DEF Spec
================================================================================
