--------------------------------- MODULE Live ---------------------------------
(***************************************************************************)
(* The live path of the probe server: the server registry in the database, *)
(* the ingest handler, the coordinator and its mutex, the in-memory        *)
(* snapshot store, the offline sweeper, and the hub that feeds the SSE     *)
(* streams.                                                                *)
(*                                                                         *)
(* Handlers run concurrently.  A step of the model is what a goroutine     *)
(* does between two points where another one can be observed to act: a     *)
(* statement on the single database connection, a critical section of the  *)
(* store or of one subscriber channel.  The coordinator's mutex is held    *)
(* across several such steps; mu says how far its holder has come.  A      *)
(* request that is refused, or fails, before it has changed anything       *)
(* leaves the state as it was, so only its return to idle is a step.       *)
(***************************************************************************)
EXTENDS Integers, Sequences, FiniteSets

CONSTANTS Servers,            \* ids AUTOINCREMENT can hand out
          Tokens,             \* agent tokens crypto/rand can produce
          Names,              \* server names
          Requests,           \* ingest requests in flight at once
          Clients,            \* SSE streams
          MaxServers,         \* servers.maxServers
          SubscriberCapacity, \* live.subscriberCapacity
          OfflineAfter,       \* live.offlineAfter, in ticks of the clock
          MaxTime,            \* bound on the clock, for model checking only
          Nil                 \* no row, no snapshot, no event, no holder

ASSUME LiveAssumption ==
    /\ MaxServers \in Nat \ {0}
    /\ SubscriberCapacity \in Nat \ {0}
    /\ OfflineAfter \in Nat \ {0}
    /\ MaxTime \in Nat
    /\ Names # {}

VARIABLES
    \* the database: one row per registered server
    registry,      \* id -> row or Nil
    usedServers,   \* ids ever handed out (sqlite_sequence)
    usedTokens,    \* tokens ever generated
    \* the coordinator and what its mutex protects
    mu,            \* "free", or how far the holder has come
    job,           \* the holder's local variables
    store,         \* live.Store: id -> snapshot or Nil
    buckets,       \* servers with a minute bucket in history.Aggregator
    \* the ingest handlers and the sweeper
    req,           \* one record per ingest request
    sweepAt,       \* when the tick now being swept fired, or Nil
    now,           \* the process's monotonic clock
    \* the hub
    hubClosed,
    subs,          \* one record per SSE stream
    fan,           \* subscribers Publish has still to serve
    full,          \* the subscriber whose channel Publish found full, or Nil
    \* history: what was handed to the hub and to the observers
    pub,           \* id -> the last event published for it, or Nil
    newest         \* the server of the last event published, or Nil

dbVars    == <<registry, usedServers, usedTokens>>
hubVars   == <<hubClosed, subs, fan, full, pub, newest>>
otherVars == <<req, sweepAt, now>>
vars == <<registry, usedServers, usedTokens, mu, job, store, buckets,
          req, sweepAt, now, hubClosed, subs, fan, full, pub, newest>>

-------------------------------------------------------------------------------
Row      == [name: Names, enabled: BOOLEAN, token: Tokens]
Snapshot == [name: Names, online: BOOLEAN, at: Nat]
Event    == [type: {"snapshot.updated", "snapshot.offline"},
             server: Servers, snapshot: Snapshot]

ASSUME NilAssumption ==
    /\ Nil \notin Row
    /\ Nil \notin Snapshot
    /\ Nil \notin Event
    /\ Nil \notin Nat
    /\ Nil \notin Servers \cup Clients \cup Requests \cup Names

Phase   == {"free", "authenticated", "upserted", "published", "marked",
            "updated", "deleted"}
Job     == [req: Requests \cup {Nil}, server: Servers \cup {Nil},
            name: Names \cup {Nil}, pending: SUBSET Servers]
Request == [pc: {"idle", "authed", "received", "accepting"},
            token: Tokens \cup {Nil}, at: Nat]
Stream  == [state: {"none", "open", "closed"}, queue: Seq(Event),
            heard: [Servers -> Event \cup {Nil}], live: BOOLEAN]

NoJob     == [req |-> Nil, server |-> Nil, name |-> Nil, pending |-> {}]
Idle      == [pc |-> "idle", token |-> Nil, at |-> 0]
NoStream  == [state |-> "none", queue |-> <<>>,
              heard |-> [s \in Servers |-> Nil], live |-> FALSE]

Registered == {s \in Servers : registry[s] # Nil}

\* Variant: the enabled flag is not looked at.
AuthenticatesDisabled(t, s) ==
    /\ registry[s] # Nil
    /\ registry[s].token = t

\* AuthenticateToken returns row s: the token is s's and s is enabled.
Authenticates(t, s) ==
    /\ registry[s] # Nil
    /\ registry[s].token = t
    /\ registry[s].enabled

Init ==
    /\ registry = [s \in Servers |-> Nil]
    /\ usedServers = {}
    /\ usedTokens = {}
    /\ mu = "free"
    /\ job = NoJob
    /\ store = [s \in Servers |-> Nil]
    /\ buckets = {}
    /\ req = [r \in Requests |-> Idle]
    /\ sweepAt = Nil
    /\ now = 0
    /\ hubClosed = FALSE
    /\ subs = [c \in Clients |-> NoStream]
    /\ fan = {}
    /\ full = Nil
    /\ pub = [s \in Servers |-> Nil]
    /\ newest = Nil

-------------------------------------------------------------------------------
(* The registry.  Create and RotateToken are transactions of their own that
   never take the coordinator's mutex; Update and Delete run under it.      *)

Create(n) ==
    /\ Cardinality(Registered) < MaxServers
    /\ \E s \in Servers \ usedServers, t \in Tokens \ usedTokens :
         /\ registry' = [registry EXCEPT
              ![s] = [name |-> n, enabled |-> TRUE, token |-> t]]
         /\ usedServers' = usedServers \cup {s}
         /\ usedTokens' = usedTokens \cup {t}
    /\ UNCHANGED <<mu, job, store, buckets, otherVars, hubVars>>

RotateToken(s) ==
    /\ registry[s] # Nil
    /\ \E t \in Tokens \ usedTokens :
         /\ registry' = [registry EXCEPT ![s].token = t]
         /\ usedTokens' = usedTokens \cup {t}
    /\ UNCHANGED <<usedServers, mu, job, store, buckets, otherVars, hubVars>>

\* Variant: the row is written without the coordinator.
UpdateRowUnlocked(s, n, e) ==
    /\ registry[s] # Nil
    /\ registry' = [registry EXCEPT ![s].name = n, ![s].enabled = e]
    /\ UNCHANGED <<usedServers, usedTokens, mu, job, store, buckets,
                   otherVars, hubVars>>

\* ReconcileUpdate, first half: lock, then the UPDATE ... RETURNING statement.
\* A name or flag that the request leaves out keeps its value.
UpdateRow(s, n, e) ==
    /\ mu = "free"
    /\ registry[s] # Nil
    /\ registry' = [registry EXCEPT ![s].name = n, ![s].enabled = e]
    /\ mu' = "updated"
    /\ job' = [NoJob EXCEPT !.server = s, !.name = n]
    /\ UNCHANGED <<usedServers, usedTokens, store, buckets, otherVars, hubVars>>

\* ReconcileUpdate, second half: rename the snapshot if there is one, unlock.
RenameSnapshot ==
    /\ mu = "updated"
    /\ store' = IF store[job.server] = Nil THEN store
                ELSE [store EXCEPT ![job.server].name = job.name]
    /\ mu' = "free"
    /\ job' = NoJob
    /\ UNCHANGED <<dbVars, buckets, otherVars, hubVars>>

\* Variant: the row, the snapshot and the buckets go without the mutex.
DeleteRowUnlocked(s) ==
    /\ registry[s] # Nil
    /\ registry' = [registry EXCEPT ![s] = Nil]
    /\ store' = [store EXCEPT ![s] = Nil]
    /\ buckets' = buckets \ {s}
    /\ UNCHANGED <<usedServers, usedTokens, mu, job, otherVars, hubVars>>

\* ReconcileDelete, first half: lock, then the DELETE statement.
DeleteRow(s) ==
    /\ mu = "free"
    /\ registry[s] # Nil
    /\ registry' = [registry EXCEPT ![s] = Nil]
    /\ mu' = "deleted"
    /\ job' = [NoJob EXCEPT !.server = s]
    /\ UNCHANGED <<usedServers, usedTokens, store, buckets, otherVars, hubVars>>

\* ReconcileDelete, second half: forget the snapshot and the minute buckets.
ForgetServer ==
    /\ mu = "deleted"
    /\ store' = [store EXCEPT ![job.server] = Nil]
    /\ buckets' = buckets \ {job.server}
    /\ mu' = "free"
    /\ job' = NoJob
    /\ UNCHANGED <<dbVars, otherVars, hubVars>>

-------------------------------------------------------------------------------
(* The hub.  Publish holds hub.mu while it serves the subscribers one after
   the other (fan # {}); Subscribe, cancel and Close wait for it.  A stream's
   own goroutine receives from its channel without hub.mu, so it may take an
   event between Publish finding the channel full and making room in it.    *)

OpenStreams == {c \in Clients : subs[c].state = "open"}

StartPublish(event) ==
    /\ pub' = [pub EXCEPT ![event.server] = event]
    /\ newest' = event.server
    /\ fan' = IF hubClosed THEN {} ELSE OpenStreams
    /\ full' = Nil
    /\ UNCHANGED <<hubClosed, subs>>

\* Publish to c: the send succeeds at once, there is room.
FanOut(c) ==
    /\ c \in fan
    /\ full = Nil
    /\ Len(subs[c].queue) < SubscriberCapacity
    /\ subs' = [subs EXCEPT ![c].queue = Append(@, pub[newest]),
                            ![c].live = TRUE]
    /\ fan' = fan \ {c}
    /\ UNCHANGED <<dbVars, mu, job, store, buckets, otherVars,
                   hubClosed, full, pub, newest>>

\* Variant: a plain send, which waits for the client.
FanFullBlocks(c) ==
    /\ c \in fan
    /\ Len(subs[c].queue) < 0
    /\ UNCHANGED vars

\* Publish to c: the channel is full.
FanFull(c) ==
    /\ c \in fan
    /\ full = Nil
    /\ Len(subs[c].queue) >= SubscriberCapacity
    /\ full' = c
    /\ UNCHANGED <<dbVars, mu, job, store, buckets, otherVars,
                   hubClosed, subs, fan, pub, newest>>

\* Variant: the new event is dropped, not the oldest one.
FanEvictNewest(c) ==
    /\ full = c
    /\ subs' = [subs EXCEPT ![c].live = TRUE]
    /\ fan' = fan \ {c}
    /\ full' = Nil
    /\ UNCHANGED <<dbVars, mu, job, store, buckets, otherVars,
                   hubClosed, pub, newest>>

\* Publish to c, having found it full: drop what is oldest now, then send.
FanEvict(c) ==
    /\ full = c
    /\ subs' = [subs EXCEPT
         ![c].queue = Append(IF @ = <<>> THEN @ ELSE Tail(@), pub[newest]),
         ![c].live = TRUE]
    /\ fan' = fan \ {c}
    /\ full' = Nil
    /\ UNCHANGED <<dbVars, mu, job, store, buckets, otherVars,
                   hubClosed, pub, newest>>

Subscribe(c) ==
    /\ fan = {}
    /\ ~hubClosed
    /\ subs[c].state = "none"
    /\ subs' = [subs EXCEPT ![c] = [NoStream EXCEPT !.state = "open"]]
    /\ UNCHANGED <<dbVars, mu, job, store, buckets, otherVars,
                   hubClosed, fan, full, pub, newest>>

\* The SSE loop writes the next event to its client; a closed channel is
\* drained before the loop sees that it is closed.
Deliver(c) ==
    /\ subs[c].queue # <<>>
    /\ subs' = [subs EXCEPT
         ![c].queue = Tail(@),
         ![c].heard = [@ EXCEPT ![Head(subs[c].queue).server]
                                   = Head(subs[c].queue)]]
    /\ UNCHANGED <<dbVars, mu, job, store, buckets, otherVars,
                   hubClosed, fan, full, pub, newest>>

\* The loop ends: its client went away, or its channel is closed and empty.
EndStream(c) ==
    /\ \/ subs[c].state = "open" /\ fan = {}
       \/ subs[c].state = "closed"
    /\ subs' = [subs EXCEPT ![c] = NoStream]
    /\ UNCHANGED <<dbVars, mu, job, store, buckets, otherVars,
                   hubClosed, fan, full, pub, newest>>

CloseHub ==
    /\ fan = {}
    /\ ~hubClosed
    /\ hubClosed' = TRUE
    /\ subs' = [c \in Clients |->
         IF subs[c].state = "open" THEN [subs[c] EXCEPT !.state = "closed"]
         ELSE subs[c]]
    /\ UNCHANGED <<dbVars, mu, job, store, buckets, otherVars,
                   fan, full, pub, newest>>

-------------------------------------------------------------------------------
(* Ingestion.  The token is checked once before the body is read, and again
   under the coordinator's mutex.                                           *)

IngestAuthenticate(r, t) ==
    /\ req[r].pc = "idle"
    /\ \E s \in Servers : Authenticates(t, s)
    /\ req' = [req EXCEPT ![r] = [pc |-> "authed", token |-> t, at |-> 0]]
    /\ UNCHANGED <<dbVars, mu, job, store, buckets, sweepAt, now, hubVars>>

\* The body is decoded and valid: note the time, go and wait for the mutex.
IngestReceive(r) ==
    /\ req[r].pc = "authed"
    /\ req' = [req EXCEPT ![r].pc = "received", ![r].at = now]
    /\ UNCHANGED <<dbVars, mu, job, store, buckets, sweepAt, now, hubVars>>

\* A bad body, a client that went away, or Accept refusing the token.
IngestFail(r) ==
    /\ req[r].pc \in {"authed", "received"}
    /\ req' = [req EXCEPT ![r] = Idle]
    /\ UNCHANGED <<dbVars, mu, job, store, buckets, sweepAt, now, hubVars>>

\* Accept: lock and look the token up again.
AcceptAuthenticate(r, s) ==
    /\ mu = "free"
    /\ req[r].pc = "received"
    /\ Authenticates(req[r].token, s)
    /\ mu' = "authenticated"
    /\ job' = [NoJob EXCEPT !.req = r, !.server = s, !.name = registry[s].name]
    /\ req' = [req EXCEPT ![r].pc = "accepting"]
    /\ UNCHANGED <<dbVars, store, buckets, sweepAt, now, hubVars>>

\* Accept: UpdateAgentVersion returns an error, unlock.
AcceptFail ==
    /\ mu = "authenticated"
    /\ mu' = "free"
    /\ job' = NoJob
    /\ req' = [req EXCEPT ![job.req] = Idle]
    /\ UNCHANGED <<dbVars, store, buckets, sweepAt, now, hubVars>>

\* Accept: the version is written, the snapshot replaced.
AcceptUpsert ==
    /\ mu = "authenticated"
    /\ store' = [store EXCEPT ![job.server] =
         [name |-> job.name, online |-> TRUE, at |-> req[job.req].at]]
    /\ mu' = "upserted"
    /\ UNCHANGED <<dbVars, job, buckets, otherVars, hubVars>>

AcceptPublish ==
    /\ mu = "upserted"
    /\ StartPublish([type |-> "snapshot.updated", server |-> job.server,
                     snapshot |-> store[job.server]])
    /\ mu' = "published"
    /\ UNCHANGED <<dbVars, job, store, buckets, otherVars>>

\* Accept: hand the report to history, unlock, answer 204.
AcceptHistory ==
    /\ mu = "published"
    /\ fan = {}
    /\ buckets' = buckets \cup {job.server}
    /\ mu' = "free"
    /\ job' = NoJob
    /\ req' = [req EXCEPT ![job.req] = Idle]
    /\ UNCHANGED <<dbVars, store, sweepAt, now, hubVars>>

\* The aggregator has written and dropped the last bucket of s.
FlushBuckets(s) ==
    /\ s \in buckets
    /\ buckets' = buckets \ {s}
    /\ UNCHANGED <<dbVars, mu, job, store, otherVars, hubVars>>

-------------------------------------------------------------------------------
(* The sweeper. *)

\* The 5-second tick: the cutoff is taken before the mutex.
SweepTick ==
    /\ sweepAt = Nil
    /\ mu # "marked"
    /\ sweepAt' = now
    /\ UNCHANGED <<dbVars, mu, job, store, buckets, req, now, hubVars>>

\* Variant: snapshots that are offline already are swept again.
ExpiredAgain(s, t) ==
    /\ store[s] # Nil
    /\ store[s].at + OfflineAfter < t

Expired(s, t) ==
    /\ store[s] # Nil
    /\ store[s].online
    /\ store[s].at + OfflineAfter < t

\* Sweep: lock and mark every expired snapshot offline in one pass.
SweepMark ==
    /\ mu = "free"
    /\ sweepAt # Nil
    /\ LET changed == {s \in Servers : Expired(s, sweepAt)}
       IN  /\ store' = [s \in Servers |->
                IF s \in changed THEN [store[s] EXCEPT !.online = FALSE]
                ELSE store[s]]
           /\ mu' = IF changed = {} THEN "free" ELSE "marked"
           /\ job' = [NoJob EXCEPT !.pending = changed]
    /\ sweepAt' = Nil
    /\ UNCHANGED <<dbVars, buckets, req, now, hubVars>>

\* Sweep: publish the changes one by one, in map order.
SweepPublish(s) ==
    /\ mu = "marked"
    /\ fan = {}
    /\ s \in job.pending
    /\ StartPublish([type |-> "snapshot.offline", server |-> s,
                     snapshot |-> store[s]])
    /\ job' = [job EXCEPT !.pending = @ \ {s}]
    /\ UNCHANGED <<dbVars, mu, store, buckets, otherVars>>

\* Variant: unlock after the first event.
SweepDoneEarly ==
    /\ mu = "marked"
    /\ fan = {}
    /\ mu' = "free"
    /\ job' = NoJob
    /\ UNCHANGED <<dbVars, store, buckets, otherVars, hubVars>>

\* Sweep: everything is published, unlock.
SweepDone ==
    /\ mu = "marked"
    /\ fan = {}
    /\ job.pending = {}
    /\ mu' = "free"
    /\ job' = NoJob
    /\ UNCHANGED <<dbVars, store, buckets, otherVars, hubVars>>

-------------------------------------------------------------------------------
Tick ==
    /\ now < MaxTime
    /\ now' = now + 1
    /\ UNCHANGED <<dbVars, mu, job, store, buckets, req, sweepAt, hubVars>>

\* The process ends, by a shutdown or a crash at any point, and a new one
\* starts on the same database file.
Restart ==
    /\ mu' = "free"
    /\ job' = NoJob
    /\ store' = [s \in Servers |-> Nil]
    /\ buckets' = {}
    /\ req' = [r \in Requests |-> Idle]
    /\ sweepAt' = Nil
    /\ hubClosed' = FALSE
    /\ subs' = [c \in Clients |-> NoStream]
    /\ fan' = {}
    /\ full' = Nil
    /\ pub' = [s \in Servers |-> Nil]
    /\ newest' = Nil
    /\ UNCHANGED <<dbVars, now>>

\* Steps the holder of the mutex takes, or its call to hub.Publish.
HolderStep ==
    \/ RenameSnapshot \/ ForgetServer
    \/ AcceptFail \/ AcceptUpsert \/ AcceptPublish \/ AcceptHistory
    \/ \E s \in Servers : SweepPublish(s)
    \/ SweepDone
    \/ \E c \in Clients : FanOut(c) \/ FanFull(c) \/ FanEvict(c)

Next ==
    \/ \E n \in Names : Create(n)
    \/ \E s \in Servers : RotateToken(s) \/ DeleteRow(s) \/ FlushBuckets(s)
    \/ \E s \in Servers, n \in Names, e \in BOOLEAN : UpdateRow(s, n, e)
    \/ \E r \in Requests, t \in Tokens : IngestAuthenticate(r, t)
    \/ \E r \in Requests : IngestReceive(r) \/ IngestFail(r)
    \/ \E r \in Requests, s \in Servers : AcceptAuthenticate(r, s)
    \/ HolderStep
    \/ SweepTick \/ SweepMark
    \/ \E c \in Clients : Subscribe(c) \/ Deliver(c) \/ EndStream(c)
    \/ CloseHub
    \/ Tick
    \/ Restart

Spec == Init /\ [][Next]_vars

\* The goroutine that holds the mutex runs on; the sweeper's ticker fires; a
\* goroutine that waits for a sync.Mutex gets it (starvation mode hands the
\* mutex to the longest waiter).  Administrators, agents, SSE clients and the
\* clock owe nothing.
Fairness ==
    /\ WF_vars(HolderStep)
    /\ WF_vars(SweepTick)
    /\ SF_vars(SweepMark)

FairSpec == Spec /\ Fairness
-------------------------------------------------------------------------------
TypeOK ==
    /\ registry \in [Servers -> Row \cup {Nil}]
    /\ usedServers \subseteq Servers
    /\ usedTokens \subseteq Tokens
    /\ mu \in Phase
    /\ job \in Job
    /\ store \in [Servers -> Snapshot \cup {Nil}]
    /\ buckets \subseteq Servers
    /\ req \in [Requests -> Request]
    /\ sweepAt \in Nat \cup {Nil}
    /\ now \in Nat
    /\ hubClosed \in BOOLEAN
    /\ subs \in [Clients -> Stream]
    /\ fan \subseteq Clients
    /\ full \in Clients \cup {Nil}
    /\ pub \in [Servers -> Event \cup {Nil}]
    /\ newest \in Servers \cup {Nil}
    /\ \A c \in Clients : Len(subs[c].queue) <= SubscriberCapacity

\* Deleting a server leaves nothing of it behind, whatever ingest requests
\* were in flight: once the delete has let go of the mutex no snapshot and no
\* minute bucket exists for an id that has no row (ReconcileDelete, Accept).
NoGhost ==
    \A s \in Servers :
        /\ registry[s] = Nil
        /\ ~(mu = "deleted" /\ job.server = s)
        => store[s] = Nil /\ s \notin buckets

\* A rename never gets lost against a report that is being accepted: outside
\* the rename itself a snapshot carries the registered name, so an offline
\* event published later names the server correctly (ReconcileUpdate).
NamesAgree ==
    \A s \in Servers :
        /\ store[s] # Nil
        /\ registry[s] # Nil
        /\ ~(mu = "updated" /\ job.server = s)
        => store[s].name = registry[s].name

\* Events leave in the order in which the store changes: when the mutex is
\* free, the last event published for a server tells what its snapshot says.
\* A delayed offline event after a newer online one would break it (publish).
PublishedMatchesStore ==
    mu = "free" =>
        \A s \in Servers : store[s] # Nil =>
            /\ pub[s] # Nil
            /\ pub[s].snapshot.online = store[s].online
            /\ pub[s].snapshot.at = store[s].at
            /\ (pub[s].type = "snapshot.updated") = store[s].online

\* A sweep announces transitions: what it is about to publish as offline was
\* last published as online, with the same report, and that report has been
\* silent for longer than OfflineAfter (MarkOffline, Sweep).
OfflineIsTransition ==
    mu = "marked" =>
        \A s \in job.pending :
            /\ store[s] # Nil
            /\ ~store[s].online
            /\ store[s].at + OfflineAfter < now
            /\ pub[s] # Nil
            /\ pub[s].type = "snapshot.updated"
            /\ pub[s].snapshot.at = store[s].at

\* What a stream will have told its client about server s once it is drained.
InQueue(c, s) == {i \in 1..Len(subs[c].queue) : subs[c].queue[i].server = s}
LatestFor(c, s) ==
    IF InQueue(c, s) = {} THEN subs[c].heard[s]
    ELSE subs[c].queue[CHOOSE i \in InQueue(c, s) :
                           \A j \in InQueue(c, s) : j <= i]

\* Overflow never costs the newest event: a stream that Publish has served
\* has heard, or still has in its channel, the last event published, even
\* when its client reads while Publish makes room (Hub.Publish).
NewestKept ==
    \A c \in Clients :
        subs[c].state = "open" /\ subs[c].live /\ c \notin fan
        => LatestFor(c, newest) = pub[newest]

\* A report replaces a snapshot only while its server is registered and
\* enabled: a request that was authenticated before the server was disabled
\* or deleted changes nothing afterwards (Accept's second authentication).
Reported(s) ==
    /\ store'[s] # Nil
    /\ store'[s].online
    /\ \/ store[s] = Nil
       \/ ~store[s].online
       \/ store'[s].at # store[s].at
SilentWhileDisabled ==
    [][\A s \in Servers : Reported(s) =>
          registry[s] # Nil /\ registry[s].enabled]_vars

\* A server that falls silent does not stay online: the sweeper marks it
\* offline unless it reports again, is deleted, or the process restarts.
SilentServer(s) ==
    /\ store[s] # Nil
    /\ store[s].online
    /\ now > store[s].at + OfflineAfter
SilentGoesOffline == \A s \in Servers : SilentServer(s) ~> ~SilentServer(s)

\* What GET /api/servers/status answers for each id: the row's name and flag,
\* the snapshot's verdict and time (Handler.snapshotFor).
Seen(s) == CASE store[s] = Nil -> "never"
             [] store[s] # Nil /\ store[s].online -> "online"
             [] store[s] # Nil /\ ~store[s].online -> "offline"
SeenAt(s) == IF store[s] = Nil THEN 0 ELSE store[s].at
StatusView ==
    [s \in Servers |->
        IF registry[s] = Nil THEN [seen |-> "absent"]
        ELSE [seen |-> Seen(s), name |-> registry[s].name,
              enabled |-> registry[s].enabled, at |-> SeenAt(s)]]

Status == INSTANCE LiveStatus WITH status <- StatusView

\* Coordinator, store and database implement the atomic status of LiveStatus:
\* each handler takes effect in one of its steps, the others change nothing a
\* status read can see.
ImplementsStatus == Status!StatusSpec
===============================================================================
