------------------------------ MODULE ServerAdmin ------------------------------
(***************************************************************************)
(* Management of the servers in the browser: DashboardRouter, which keeps  *)
(* the one-time token, ServersPage, which may be left and mounted again at *)
(* any time, useServerCollection, its list, and the rows of the backend.   *)
(*                                                                         *)
(* A request outlives the page that made it.  Its answer may be refused or *)
(* lost; a backend whose client is gone drops what it has not committed.   *)
(***************************************************************************)
EXTENDS Naturals, FiniteSets

CONSTANTS
    Servers,         \* the ids that can be given out
    Names,
    Requests,        \* slots for requests in flight
    MaxTokens,       \* bound: tokens made
    MaxOps,          \* bound: clicks of the user
    Nil

ASSUME AdminNil ==
    /\ Nil \notin Servers \cup Names \cup {"rename", "toggle", "delete", "rotate"}
    /\ Nil \notin [name : Names, enabled : BOOLEAN]
    /\ Nil \notin [server : Servers, name : Names, token : Nat]
ASSUME AdminBounds == MaxTokens \in Nat /\ MaxOps \in Nat

VARIABLES
    rows,            \* the servers table
    tokenOf,         \* the token whose hash is in each row
    given,           \* the ids of AUTOINCREMENT
    tokens,          \* tokens made
    requests,
    path,
    oneTimeToken, tokenRequestPending, tokenRequestServerId, tokenRequestError,
    tokenRef, tokenLockRef,
    showCreate, creating, editingId, confirmation,
    servers, loadState, pendingByServer,
    missed,          \* history: how rows changed since the list was read without
                     \* the page hearing of it
    ops

backend == <<rows, tokenOf, given, tokens>>
lock == <<oneTimeToken, tokenRequestPending, tokenRequestServerId,
          tokenRequestError, tokenRef, tokenLockRef>>
controls == <<showCreate, creating, editingId, confirmation>>
collection == <<servers, loadState, pendingByServer>>
adminVars == <<backend, requests, path, lock, controls, collection, missed, ops>>

Records == [name : Names, enabled : BOOLEAN]
Tables == [Servers -> Records \cup {Nil}]
OneTimeTokens == [server : Servers, name : Names, token : Nat]
Empty == [s \in Servers |-> Nil]

(***************************************************************************)
(* A request of the page that is mounted is current; it is superseded when *)
(* a newer one was begun for its row, and a list is overtaken when a row   *)
(* was changed since (the generations and mutationRevision).               *)
(***************************************************************************)
NoRequest == [kind |-> "none", server |-> Nil, name |-> Nil, enabled |-> FALSE,
              stage |-> "sent", answer |-> Empty, token |-> 0,
              current |-> FALSE, superseded |-> FALSE, overtaken |-> FALSE]
NewRequest(kind) == [NoRequest EXCEPT !.kind = kind, !.current = TRUE]
RowKinds == {"rename", "toggle", "delete", "rotate"}
TokenKinds == {"create", "rotate"}
InFlight(r, kinds) == requests[r].kind \in kinds
Idle == {r \in Requests : requests[r].kind = "none"}
Answered(r, kind) == requests[r].kind = kind /\ requests[r].stage = "done"
Without(r) == [requests EXCEPT ![r] = NoRequest]
Applied(r) == ~requests[r].superseded
Heard(r) == requests[r].current /\ Applied(r)

\* mutationRevision changes while lists are on their way.
Overtaken(reqs) ==
    [q \in Requests |-> [reqs[q] EXCEPT !.overtaken = @ \/ reqs[q].kind = "list"]]

Spend == ops < MaxOps /\ ops' = ops + 1

(***************************************************************************)
(* Pages.                                                                  *)
(***************************************************************************)
managementPath == path = "servers"

\* A page without state.
BlankPage ==
    /\ showCreate' = FALSE /\ creating' = FALSE /\ editingId' = Nil
    /\ confirmation' = Nil
    /\ servers' = Empty /\ loadState' = "loading" /\ pendingByServer' = Empty

\* The requests of the page that goes run on without it; a list would only be
\* dropped when it arrives.
Orphaned(reqs) ==
    [q \in Requests |-> IF reqs[q].kind = "list" THEN NoRequest
                        ELSE [reqs[q] EXCEPT !.current = FALSE]]

\* A new instance of ServersPage and the list it loads.
MountPage(reqs) ==
    /\ path' = "servers" /\ BlankPage
    /\ \E r \in Requests :
         /\ Orphaned(reqs)[r].kind = "none"
         /\ requests' = [Orphaned(reqs) EXCEPT ![r] = NewRequest("list")]

\* The router as it mounts, at the address the user opened.
AdminInit ==
    /\ given \in SUBSET Servers
    /\ \E n \in Names :
         rows = [s \in Servers |->
                   IF s \in given THEN [name |-> n, enabled |-> TRUE] ELSE Nil]
    /\ tokenOf = [s \in Servers |-> 0] /\ tokens = 0
    /\ \/ path = "other" /\ requests = [r \in Requests |-> NoRequest]
       \/ /\ path = "servers"
          /\ \E first \in Requests :
               requests = [r \in Requests |->
                             IF r = first THEN NewRequest("list") ELSE NoRequest]
    /\ oneTimeToken = Nil /\ tokenRequestPending = FALSE
    /\ tokenRequestServerId = Nil /\ tokenRequestError = FALSE
    /\ tokenRef = Nil /\ tokenLockRef = FALSE
    /\ showCreate = FALSE /\ creating = FALSE /\ editingId = Nil
    /\ confirmation = Nil
    /\ servers = Empty /\ loadState = "loading" /\ pendingByServer = Empty
    /\ missed = {} /\ ops = 0

\* Variant: leaving the page gives the lock back.
NavigateReleasing ==
    /\ Spend
    /\ \/ path = "other" /\ MountPage(requests)
       \/ path = "servers" /\ path' = "other" /\ BlankPage
          /\ requests' = Orphaned(requests)
    /\ tokenRequestPending' = FALSE /\ tokenRequestServerId' = Nil
    /\ tokenLockRef' = (tokenRef # Nil)
    /\ UNCHANGED <<backend, oneTimeToken, tokenRequestError, tokenRef, missed>>

\* navigate and popstate.
Navigate ==
    /\ Spend
    /\ \/ path = "other" /\ MountPage(requests)
       \/ path = "servers" /\ path' = "other" /\ BlankPage
          /\ requests' = Orphaned(requests)
    /\ UNCHANGED <<backend, lock, missed>>

\* The button of the message that a token request failed.
ReturnFromError ==
    /\ Spend
    /\ ~managementPath /\ tokenRequestError
    /\ MountPage(requests)
    /\ tokenRequestError' = FALSE
    /\ UNCHANGED <<backend, oneTimeToken, tokenRequestPending,
                   tokenRequestServerId, tokenRef, tokenLockRef, missed>>

(***************************************************************************)
(* The token: one request or one token unsaved at a time.                  *)
(***************************************************************************)
tokenLocked == tokenRequestPending \/ oneTimeToken # Nil

startTokenRequest(s) ==
    /\ ~tokenLockRef
    /\ tokenLockRef' = TRUE
    /\ tokenRequestError' = FALSE /\ tokenRequestPending' = TRUE
    /\ tokenRequestServerId' = s
    /\ UNCHANGED <<oneTimeToken, tokenRef>>

failTokenRequest ==
    /\ tokenRequestPending' = FALSE /\ tokenRequestServerId' = Nil
    /\ tokenRequestError' = TRUE
    /\ tokenLockRef' = (tokenRef # Nil)
    /\ UNCHANGED <<oneTimeToken, tokenRef>>

\* The page is mounted anew, wherever the user is.
publishToken(r, s, name, token) ==
    /\ tokenRef' = [server |-> s, name |-> name, token |-> token]
    /\ oneTimeToken' = tokenRef' /\ tokenLockRef' = TRUE
    /\ tokenRequestPending' = FALSE /\ tokenRequestServerId' = Nil
    /\ tokenRequestError' = FALSE
    /\ MountPage(Without(r))

\* The user has saved the token.
clearToken ==
    /\ Spend
    /\ managementPath /\ oneTimeToken # Nil
    /\ oneTimeToken' = Nil /\ tokenRef' = Nil /\ tokenLockRef' = FALSE
    /\ UNCHANGED <<backend, requests, path, tokenRequestPending,
                   tokenRequestServerId, tokenRequestError, controls, collection,
                   missed>>

TokenUnchanged == UNCHANGED <<oneTimeToken, tokenRef, tokenLockRef>>
OfToken(s) == oneTimeToken # Nil /\ oneTimeToken.server = s

\* Variant: the deletion of any server takes the token away.
clearTokenOfAnyServer(s) ==
    oneTimeToken' = Nil /\ tokenRef' = Nil /\ tokenLockRef' = FALSE

clearTokenForDeletedServer(s) ==
    \/ OfToken(s) /\ oneTimeToken' = Nil /\ tokenRef' = Nil /\ tokenLockRef' = FALSE
    \/ ~OfToken(s) /\ TokenUnchanged

renameTokenServer(s, name) ==
    \/ /\ OfToken(s)
       /\ oneTimeToken' = [oneTimeToken EXCEPT !.name = name]
       /\ tokenRef' = oneTimeToken' /\ UNCHANGED tokenLockRef
    \/ ~OfToken(s) /\ TokenUnchanged

(***************************************************************************)
(* The backend's handlers.                                                 *)
(***************************************************************************)
Sent(r, kind) == requests[r].kind = kind /\ requests[r].stage = "sent"
Orphan(r) == ~requests[r].current
MissedBy(r) == missed' = IF Orphan(r) THEN missed \cup {"orphaned"} ELSE missed

ReadList(r) ==
    /\ Sent(r, "list")
    /\ requests' = [requests EXCEPT ![r].stage = "done", ![r].answer = rows]
    /\ missed' = IF Orphan(r) THEN missed ELSE {}
    /\ UNCHANGED <<backend, path, lock, controls, collection, ops>>

CommitCreate(r) ==
    /\ Sent(r, "create") /\ tokens < MaxTokens
    /\ \E s \in Servers \ given :
         LET row == [name |-> requests[r].name, enabled |-> TRUE] IN
         /\ given' = given \cup {s} /\ tokens' = tokens + 1
         /\ rows' = [rows EXCEPT ![s] = row]
         /\ tokenOf' = [tokenOf EXCEPT ![s] = tokens + 1]
         /\ requests' = [requests EXCEPT
                           ![r].stage = "done", ![r].server = s,
                           ![r].answer[s] = row, ![r].token = tokens + 1]
    /\ UNCHANGED <<path, lock, controls, collection, missed, ops>>

\* Variant: the new token is never stored.
RotateWithoutCommit(r) ==
    /\ Sent(r, "rotate") /\ tokens < MaxTokens
    /\ rows[requests[r].server] # Nil
    /\ tokens' = tokens + 1
    /\ requests' = [requests EXCEPT ![r].stage = "done",
                                    ![r].answer[requests[r].server] =
                                       rows[requests[r].server],
                                    ![r].token = tokens + 1]
    /\ UNCHANGED <<rows, tokenOf, given, path, lock, controls, collection,
                   missed, ops>>

\* Update writes the one column it is given; no row is an answer 404.
Updated(r) ==
    LET row == rows[requests[r].server] IN
    IF requests[r].kind = "rename" THEN [row EXCEPT !.name = requests[r].name]
                                   ELSE [row EXCEPT !.enabled = requests[r].enabled]

CommitUpdate(r) ==
    /\ Sent(r, "rename") \/ Sent(r, "toggle")
    /\ LET s == requests[r].server IN
         /\ rows[s] # Nil
         /\ rows' = [rows EXCEPT ![s] = Updated(r)]
         /\ requests' = [requests EXCEPT ![r].stage = "done",
                                         ![r].answer[s] = Updated(r)]
    /\ MissedBy(r)
    /\ UNCHANGED <<tokenOf, given, tokens, path, lock, controls, collection, ops>>

CommitDelete(r) ==
    /\ Sent(r, "delete")
    /\ LET s == requests[r].server IN
         /\ rows[s] # Nil
         /\ rows' = [rows EXCEPT ![s] = Nil]
    /\ requests' = [requests EXCEPT ![r].stage = "done"]
    /\ MissedBy(r)
    /\ UNCHANGED <<tokenOf, given, tokens, path, lock, controls, collection, ops>>

CommitRotate(r) ==
    /\ Sent(r, "rotate") /\ tokens < MaxTokens
    /\ LET s == requests[r].server IN
         /\ rows[s] # Nil
         /\ tokens' = tokens + 1
         /\ tokenOf' = [tokenOf EXCEPT ![s] = tokens + 1]
         /\ requests' = [requests EXCEPT ![r].stage = "done",
                                         ![r].answer[s] = rows[s],
                                         ![r].token = tokens + 1]
    /\ UNCHANGED <<rows, given, path, lock, controls, collection, missed, ops>>

(***************************************************************************)
(* The list.                                                               *)
(***************************************************************************)
ListArrives(r) ==
    /\ Answered(r, "list")
    /\ requests' = Without(r)
    /\ IF Heard(r)
       THEN /\ loadState' = "success"
            /\ servers' = IF requests[r].overtaken THEN servers
                                                   ELSE requests[r].answer
       ELSE UNCHANGED <<loadState, servers>>
    /\ UNCHANGED <<backend, path, lock, controls, pendingByServer, missed, ops>>

ListFails(r) ==
    /\ InFlight(r, {"list"})
    /\ requests' = Without(r)
    /\ loadState' = IF Heard(r) THEN "error" ELSE loadState
    /\ UNCHANGED <<backend, path, lock, controls, servers, pendingByServer,
                   missed, ops>>

\* The button of the page that could not load.
loadServers ==
    /\ Spend
    /\ managementPath /\ loadState = "error"
    /\ \E r \in Idle :
         requests' = [q \in Requests |->
           IF q = r THEN NewRequest("list")
           ELSE [requests[q] EXCEPT
                   !.superseded = @ \/ requests[q].kind = "list"]]
    /\ loadState' = "loading"
    /\ UNCHANGED <<backend, path, lock, controls, servers, pendingByServer, missed>>

(***************************************************************************)
(* Creation.                                                               *)
(***************************************************************************)
CreateEnabled == managementPath /\ ~creating /\ loadState # "loading" /\ ~tokenLocked

AddServer ==
    /\ Spend
    /\ CreateEnabled
    /\ showCreate' = ~showCreate
    /\ UNCHANGED <<backend, requests, path, lock, creating, editingId,
                   confirmation, collection, missed>>

CancelCreate ==
    /\ Spend
    /\ CreateEnabled /\ showCreate /\ showCreate' = FALSE
    /\ UNCHANGED <<backend, requests, path, lock, creating, editingId,
                   confirmation, collection, missed>>

create(name) ==
    /\ Spend
    /\ CreateEnabled /\ showCreate
    /\ startTokenRequest(Nil)
    /\ creating' = TRUE
    /\ \E r \in Idle :
         requests' = [requests EXCEPT
                        ![r] = [NewRequest("create") EXCEPT !.name = name]]
    /\ UNCHANGED <<backend, path, showCreate, editingId, confirmation,
                   collection, missed>>

\* addServer goes with the page that publishToken replaces.
CreateArrives(r) ==
    /\ Answered(r, "create")
    /\ publishToken(r, requests[r].server, requests[r].name, requests[r].token)
    /\ UNCHANGED <<backend, missed, ops>>

\* What was committed although its answer is lost.
LostBy(r) == missed' = IF requests[r].stage = "done" THEN missed \cup {"lost"} ELSE missed

CreateFails(r) ==
    /\ InFlight(r, {"create"})
    /\ failTokenRequest
    /\ requests' = Without(r)
    /\ creating' = (creating /\ ~requests[r].current)
    /\ LostBy(r)
    /\ UNCHANGED <<backend, path, showCreate, editingId, confirmation,
                   collection, ops>>

(***************************************************************************)
(* Rows.  Their buttons rest while a request of the row is under way.      *)
(***************************************************************************)
Listed(s) == managementPath /\ loadState = "success" /\ servers[s] # Nil
RowBusy(s) ==
    pendingByServer[s] # Nil \/ (tokenRequestPending /\ tokenRequestServerId = s)
RowEnabled(s) == Listed(s) /\ ~RowBusy(s)
RowButtons(s) == RowEnabled(s) /\ editingId # s
Confirming(s, action) ==
    /\ RowEnabled(s) /\ confirmation = [server |-> s, action |-> action]
    /\ action = "rotate" => ~tokenLocked

\* What beginRename and the buttons for deletion and rotation open.
beginRename(s) ==
    /\ Spend
    /\ RowButtons(s)
    /\ editingId' = s /\ confirmation' = Nil
    /\ UNCHANGED <<backend, requests, path, lock, showCreate, creating,
                   collection, missed>>

Ask(s, action) ==
    /\ Spend
    /\ RowButtons(s) /\ action = "rotate" => ~tokenLocked
    /\ confirmation' = [server |-> s, action |-> action]
    /\ UNCHANGED <<backend, requests, path, lock, showCreate, creating,
                   editingId, collection, missed>>

Cancel(s) ==
    /\ Spend
    /\ RowEnabled(s)
    /\ \/ editingId = s /\ editingId' = Nil /\ UNCHANGED confirmation
       \/ /\ confirmation # Nil /\ confirmation.server = s
          /\ confirmation' = Nil /\ UNCHANGED editingId
    /\ UNCHANGED <<backend, requests, path, lock, showCreate, creating,
                   collection, missed>>

\* beginServerRequest.
BeginRow(s, request) ==
    /\ \E r \in Idle :
         requests' = [Overtaken([q \in Requests |->
                        [requests[q] EXCEPT
                           !.superseded = @ \/ (/\ InFlight(q, RowKinds)
                                                /\ requests[q].current
                                                /\ requests[q].server = s)]])
                      EXCEPT ![r] = request]
    /\ pendingByServer' = [pendingByServer EXCEPT ![s] = request.kind]
    /\ UNCHANGED <<servers, loadState>>

RowRequest(kind, s) == [NewRequest(kind) EXCEPT !.server = s]

rename(s, name) ==
    /\ Spend
    /\ RowEnabled(s) /\ editingId = s /\ name # servers[s].name
    /\ BeginRow(s, [RowRequest("rename", s) EXCEPT !.name = name])
    /\ UNCHANGED <<backend, path, lock, showCreate, creating, editingId,
                   confirmation, missed>>

toggle(s) ==
    /\ Spend
    /\ RowButtons(s)
    /\ BeginRow(s, [RowRequest("toggle", s) EXCEPT !.enabled = ~servers[s].enabled])
    /\ UNCHANGED <<backend, path, lock, showCreate, creating, editingId,
                   confirmation, missed>>

remove(s) ==
    /\ Spend
    /\ Confirming(s, "delete")
    /\ BeginRow(s, RowRequest("delete", s))
    /\ UNCHANGED <<backend, path, lock, showCreate, creating, editingId,
                   confirmation, missed>>

rotate(s) ==
    /\ Spend
    /\ Confirming(s, "rotate")
    /\ startTokenRequest(s)
    /\ BeginRow(s, [RowRequest("rotate", s) EXCEPT !.name = servers[s].name])
    /\ UNCHANGED <<backend, path, showCreate, creating, editingId,
                   confirmation, missed>>

\* finishServerRequest.
FinishRow(r) ==
    /\ requests' = IF Heard(r) /\ requests[r].stage = "done"
                   THEN Overtaken(Without(r)) ELSE Without(r)
    /\ pendingByServer' = IF Heard(r)
                          THEN [pendingByServer EXCEPT ![requests[r].server] = Nil]
                          ELSE pendingByServer

\* Variant: the answer to a page that is gone changes the list too.
ReplacedByOrphan(r) ==
    LET s == requests[r].server IN
    IF Applied(r) /\ servers[s] # Nil
    THEN [servers EXCEPT ![s] = requests[r].answer[s]] ELSE servers

\* replaceServer.
Replaced(r) ==
    LET s == requests[r].server IN
    IF Heard(r) /\ servers[s] # Nil
    THEN [servers EXCEPT ![s] = requests[r].answer[s]] ELSE servers

RenameArrives(r) ==
    /\ Answered(r, "rename")
    /\ FinishRow(r) /\ servers' = Replaced(r)
    /\ IF Applied(r) THEN renameTokenServer(requests[r].server, requests[r].name)
                     ELSE TokenUnchanged
    /\ editingId' = IF Heard(r) THEN Nil ELSE editingId
    /\ UNCHANGED <<backend, path, tokenRequestPending, tokenRequestServerId,
                   tokenRequestError, showCreate, creating, confirmation,
                   loadState, missed, ops>>

ToggleArrives(r) ==
    /\ Answered(r, "toggle")
    /\ FinishRow(r) /\ servers' = Replaced(r)
    /\ UNCHANGED <<backend, path, lock, controls, loadState, missed, ops>>

DeleteArrives(r) ==
    /\ Answered(r, "delete")
    /\ FinishRow(r)
    /\ servers' = IF Heard(r) THEN [servers EXCEPT ![requests[r].server] = Nil]
                              ELSE servers
    /\ IF Applied(r) THEN clearTokenForDeletedServer(requests[r].server)
                     ELSE TokenUnchanged
    /\ confirmation' = IF Heard(r) THEN Nil ELSE confirmation
    /\ UNCHANGED <<backend, path, tokenRequestPending, tokenRequestServerId,
                   tokenRequestError, showCreate, creating, editingId,
                   loadState, missed, ops>>

\* A rotation that is superseded gives its lock back; its token is lost.
RotateArrives(r) ==
    /\ Answered(r, "rotate")
    /\ IF Applied(r)
       THEN publishToken(r, requests[r].server, requests[r].name, requests[r].token)
       ELSE /\ failTokenRequest /\ FinishRow(r)
            /\ UNCHANGED <<path, controls, servers, loadState>>
    /\ UNCHANGED <<backend, missed, ops>>

\* The request is refused or its answer is lost.
RowFails(r) ==
    /\ InFlight(r, {"rename", "toggle", "delete"})
    /\ requests' = Without(r)
    /\ pendingByServer' = IF Heard(r)
                          THEN [pendingByServer EXCEPT ![requests[r].server] = Nil]
                          ELSE pendingByServer
    /\ LostBy(r)
    /\ UNCHANGED <<backend, path, lock, showCreate, creating, editingId,
                   confirmation, servers, loadState, ops>>

RotateFails(r) ==
    /\ InFlight(r, {"rotate"})
    /\ failTokenRequest
    /\ requests' = Without(r)
    /\ pendingByServer' = IF Heard(r)
                          THEN [pendingByServer EXCEPT ![requests[r].server] = Nil]
                          ELSE pendingByServer
    /\ LostBy(r)
    /\ UNCHANGED <<backend, path, showCreate, creating, editingId,
                   confirmation, servers, loadState, ops>>

User ==
    \/ Navigate \/ ReturnFromError \/ loadServers \/ clearToken
    \/ AddServer \/ CancelCreate \/ \E n \in Names : create(n)
    \/ \E s \in Servers :
         \/ beginRename(s) \/ Cancel(s) \/ \E n \in Names : rename(s, n)
         \/ \E action \in {"delete", "rotate"} : Ask(s, action)
         \/ toggle(s) \/ remove(s) \/ rotate(s)
Handlers(r) ==
    \/ ReadList(r) \/ CommitCreate(r) \/ CommitUpdate(r)
    \/ CommitDelete(r) \/ CommitRotate(r)
Answers(r) ==
    \/ ListArrives(r) \/ CreateArrives(r) \/ RenameArrives(r)
    \/ ToggleArrives(r) \/ DeleteArrives(r) \/ RotateArrives(r)
Failures(r) == ListFails(r) \/ CreateFails(r) \/ RowFails(r) \/ RotateFails(r)
AdminNext == User \/ \E r \in Requests : Handlers(r) \/ Answers(r) \/ Failures(r)

(***************************************************************************)
(* Properties.                                                             *)
(***************************************************************************)
\* The variables keep their types.
RequestStates ==
    [kind : RowKinds \cup {"none", "list", "create"}, server : Servers \cup {Nil},
     name : Names \cup {Nil}, enabled : BOOLEAN, stage : {"sent", "done"},
     answer : Tables, token : Nat,
     current : BOOLEAN, superseded : BOOLEAN, overtaken : BOOLEAN]
Confirmations == [server : Servers, action : {"delete", "rotate"}]
AdminTypeOK ==
    /\ rows \in Tables /\ tokenOf \in [Servers -> Nat]
    /\ given \subseteq Servers /\ tokens \in Nat
    /\ requests \in [Requests -> RequestStates]
    /\ path \in {"servers", "other"}
    /\ oneTimeToken \in OneTimeTokens \cup {Nil} /\ tokenRef \in OneTimeTokens \cup {Nil}
    /\ tokenRequestPending \in BOOLEAN /\ tokenRequestError \in BOOLEAN
    /\ tokenRequestServerId \in Servers \cup {Nil} /\ tokenLockRef \in BOOLEAN
    /\ showCreate \in BOOLEAN /\ creating \in BOOLEAN
    /\ editingId \in Servers \cup {Nil}
    /\ confirmation \in Confirmations \cup {Nil}
    /\ servers \in Tables /\ loadState \in {"loading", "success", "error"}
    /\ pendingByServer \in [Servers -> RowKinds \cup {Nil}]
    /\ missed \subseteq {"orphaned", "lost"} /\ ops \in Nat

\* The lock is held exactly while a token is awaited or unsaved, by one request,
\* on whichever page the user is meanwhile (App.tsx:77-121): else the console
\* could make no token any more, or two that replace each other.
LockExact ==
    /\ tokenRef = oneTimeToken
    /\ tokenLockRef = tokenLocked
    /\ ~(tokenRequestPending /\ oneTimeToken # Nil)
    /\ tokenRequestPending <=> \E r \in Requests : InFlight(r, TokenKinds)
    /\ \A q, r \in Requests :
         InFlight(q, TokenKinds) /\ InFlight(r, TokenKinds) => q = r

\* The token the user is told to save is the one the server has.
TokenIsCurrent ==
    oneTimeToken # Nil /\ rows[oneTimeToken.server] # Nil
      => tokenOf[oneTimeToken.server] = oneTimeToken.token

\* A token goes only when the user has saved it or when its own server has been
\* deleted, whatever late answers arrive (App.tsx:112).
TokenKept ==
    [][oneTimeToken # Nil =>
         \/ oneTimeToken' # Nil /\ oneTimeToken'.server = oneTimeToken.server
            /\ oneTimeToken'.token = oneTimeToken.token
         \/ clearToken
         \/ rows[oneTimeToken.server] = Nil]_adminVars

\* A list that is loaded, with no answer on its way, is the table, unless a row
\* changed for a page that is gone or with an answer that was lost: neither a
\* list nor an answer overwrites what came later (useServerCollection.ts:36-139).
Settled ==
    managementPath /\ loadState = "success"
    /\ \A r \in Requests : requests[r].stage = "sent"
ListAgrees == Settled /\ missed = {} => servers = rows
================================================================================
