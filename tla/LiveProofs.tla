------------------------------ MODULE LiveProofs ------------------------------
(***************************************************************************)
(* Proofs about Live for every set of servers, tokens, requests and        *)
(* streams, every capacity and every timeout.                              *)
(***************************************************************************)
EXTENDS Live, TLAPS

-------------------------------------------------------------------------------
(* The inductive invariant.  The properties speak of moments when the mutex is
   free; LockInv and PubInv say what its holder has established on the way.  *)

Accepting == {"authenticated", "upserted", "published"}

\* What the holder knows of its server, and nobody can change meanwhile.
LockInv ==
    /\ mu \in Accepting =>
         /\ job.req \in Requests
         /\ job.server \in Servers
         /\ job.name \in Names
         /\ registry[job.server] # Nil
         /\ registry[job.server].enabled
         /\ registry[job.server].name = job.name
    /\ mu \in {"upserted", "published"} =>
         /\ store[job.server] # Nil
         /\ store[job.server].online
    /\ mu = "updated" =>
         /\ job.server \in Servers
         /\ job.name \in Names
         /\ registry[job.server] # Nil
         /\ registry[job.server].name = job.name
    /\ mu = "deleted" =>
         /\ job.server \in usedServers
         /\ registry[job.server] = Nil

\* A registered id has been handed out, so Create never hands it out again.
UsedInv == \A s \in Servers : registry[s] # Nil => s \in usedServers

\* While Publish is serving subscribers there is an event to send.
FanInv ==
    /\ fan # {} => newest # Nil /\ pub[newest] # Nil
    /\ full # Nil => full \in fan

\* The clock is ahead of every time taken from it.
ClockInv ==
    /\ sweepAt # Nil => sweepAt <= now
    /\ \A r \in Requests : req[r].at <= now
    /\ \A s \in Servers : store[s] # Nil => store[s].at <= now

\* The snapshot of s and the last event published for s agree, except for a
\* change that the holder is about to publish.
Unpublished(s) ==
    \/ mu = "upserted" /\ s = job.server
    \/ mu = "marked" /\ s \in job.pending
PubInv ==
    \A s \in Servers : store[s] # Nil /\ ~Unpublished(s) =>
        /\ pub[s] # Nil
        /\ pub[s].snapshot.online = store[s].online
        /\ pub[s].snapshot.at = store[s].at
        /\ (pub[s].type = "snapshot.updated") = store[s].online

IInv ==
    /\ TypeOK
    /\ LockInv
    /\ UsedInv
    /\ FanInv
    /\ ClockInv
    /\ NoGhost
    /\ NamesAgree
    /\ PubInv
    /\ OfflineIsTransition

-------------------------------------------------------------------------------
LEMMA NoStreamType == NoStream \in Stream /\ NoStream.queue = <<>>
<1>1. <<>> \in Seq(Event)
  OBVIOUS
<1> QED
  BY <1>1 DEF NoStream, Stream

LEMMA InitInductive == Init => IInv
<1> SUFFICES ASSUME Init PROVE IInv
  OBVIOUS
<1>1. TypeOK
  <2>1. /\ subs \in [Clients -> Stream]
        /\ \A c \in Clients : Len(subs[c].queue) <= SubscriberCapacity
    BY NoStreamType, LiveAssumption DEF Init
  <2>2. job \in Job /\ mu \in Phase /\ req \in [Requests -> Request]
    BY DEF Init, Job, NoJob, Phase, Request, Idle
  <2> QED
    BY <2>1, <2>2 DEF TypeOK, Init
<1>2. LockInv /\ UsedInv /\ FanInv
  BY DEF Init, LockInv, Accepting, UsedInv, FanInv
<1>3. ClockInv /\ NoGhost /\ NamesAgree /\ PubInv /\ OfflineIsTransition
  BY DEF Init, ClockInv, NoGhost, NamesAgree, PubInv, OfflineIsTransition, Idle
<1> QED
  BY <1>1, <1>2, <1>3 DEF IInv

-------------------------------------------------------------------------------
(* One lemma per action. *)

\* A new server gets an id that was never used.
LEMMA CreateInductive ==
  ASSUME NEW n \in Names, IInv, Create(n)
  PROVE  IInv'
<1> USE DEF IInv
<1>1. TypeOK'
  <2>1. PICK s \in Servers, t \in Tokens :
          /\ registry' = [registry EXCEPT
               ![s] = [name |-> n, enabled |-> TRUE, token |-> t]]
          /\ usedServers' = usedServers \cup {s}
          /\ usedTokens' = usedTokens \cup {t}
    BY DEF Create
  <2>2. [name |-> n, enabled |-> TRUE, token |-> t] \in Row
    BY DEF Row
  <2>3. registry' \in [Servers -> Row \cup {Nil}]
    BY <2>1, <2>2 DEF TypeOK
  <2>4. usedServers' \subseteq Servers /\ usedTokens' \subseteq Tokens
    BY <2>1 DEF TypeOK
  <2> QED
    BY <2>3, <2>4 DEF TypeOK, Create, otherVars, hubVars
<1>2. LockInv'
  BY DEF LockInv, Accepting, Create, Registered, hubVars, otherVars, TypeOK,
         UsedInv
<1>3. NoGhost'
  BY DEF NoGhost, Create, Registered, hubVars, otherVars, TypeOK, LockInv,
         Accepting, UsedInv
<1>4. NamesAgree'
  BY DEF NamesAgree, Create, Registered, hubVars, otherVars, TypeOK,
         LockInv, Accepting, UsedInv, FanInv, ClockInv, NoGhost, PubInv,
         Unpublished, OfflineIsTransition
<1>5. UsedInv' /\ FanInv' /\ ClockInv' /\ PubInv' /\
      OfflineIsTransition'
  BY DEF UsedInv, Create, Registered, hubVars, otherVars, FanInv, ClockInv,
         PubInv, Unpublished, OfflineIsTransition
<1> QED
  BY <1>1, <1>2, <1>3, <1>4, <1>5

\* A new token.
LEMMA RotateTokenInductive ==
  ASSUME NEW s \in Servers, IInv, RotateToken(s)
  PROVE  IInv'
<1> USE DEF IInv
<1>1. TypeOK'
  <2>1. PICK t \in Tokens : /\ registry' = [registry EXCEPT ![s].token = t]
                          /\ usedTokens' = usedTokens \cup {t}
    BY DEF RotateToken
  <2>2. registry[s] \in Row
    BY DEF TypeOK, RotateToken
  <2>3. [registry[s] EXCEPT !.token = t] \in Row
    BY <2>2 DEF Row
  <2>4. registry' \in [Servers -> Row \cup {Nil}]
    BY <2>1, <2>3 DEF TypeOK
  <2> QED
    BY <2>1, <2>4 DEF TypeOK, RotateToken, otherVars, hubVars
<1>2. LockInv'
  BY LiveAssumption, NilAssumption DEF LockInv, Accepting, RotateToken,
         hubVars, otherVars, TypeOK, UsedInv, FanInv, ClockInv, NoGhost,
         NamesAgree, PubInv, Unpublished, OfflineIsTransition, Snapshot,
         Event, Row, Job, Phase
<1>3. NoGhost'
  BY LiveAssumption, NilAssumption DEF NoGhost, RotateToken, hubVars,
         otherVars, TypeOK, LockInv, Accepting, UsedInv, FanInv, ClockInv,
         NamesAgree, PubInv, Unpublished, OfflineIsTransition, Snapshot,
         Event, Row, Job, Phase
<1>4. UsedInv' /\ FanInv' /\ ClockInv' /\ NamesAgree' /\ PubInv' /\
      OfflineIsTransition'
  BY DEF UsedInv, RotateToken, hubVars, otherVars, FanInv, ClockInv,
         NamesAgree, PubInv, Unpublished, OfflineIsTransition
<1> QED
  BY <1>1, <1>2, <1>3, <1>4

\* The row changes under the mutex.
LEMMA UpdateRowInductive ==
  ASSUME NEW s \in Servers, NEW n \in Names, NEW e \in BOOLEAN, IInv, UpdateRow(s, n, e)
  PROVE  IInv'
<1> USE DEF IInv
<1>1. TypeOK'
  <2>1. registry[s] \in Row
    BY DEF TypeOK, UpdateRow
  <2>2. [registry[s] EXCEPT !.name = n, !.enabled = e] \in Row
    BY <2>1 DEF Row
  <2>3. registry' \in [Servers -> Row \cup {Nil}]
    BY <2>2 DEF TypeOK, UpdateRow
  <2>4. job' \in Job /\ mu' \in Phase
    BY DEF UpdateRow, Job, NoJob, Phase
  <2> QED
    BY <2>3, <2>4 DEF TypeOK, UpdateRow, otherVars, hubVars
<1>2. LockInv'
  <2>1. registry[s] \in Row
    BY DEF TypeOK, UpdateRow
  <2>2. [registry[s] EXCEPT !.name = n, !.enabled = e] \in Row
    BY <2>1 DEF Row
  <2>3. registry'[s] # Nil /\ registry'[s].name = n
    BY <2>1, <2>2, NilAssumption DEF TypeOK, UpdateRow, Row
  <2>4. mu' = "updated" /\ job'.server = s /\ job'.name = n
    BY DEF UpdateRow, NoJob
  <2> QED
    BY <2>3, <2>4 DEF LockInv, Accepting
<1>3. UsedInv'
  BY DEF UsedInv, UpdateRow, NoJob, hubVars, otherVars, TypeOK
<1>4. NoGhost'
  BY LiveAssumption, NilAssumption DEF NoGhost, UpdateRow, NoJob, hubVars,
         otherVars, TypeOK, LockInv, Accepting, UsedInv, FanInv, ClockInv,
         NamesAgree, PubInv, Unpublished, OfflineIsTransition, Snapshot,
         Event, Row, Job, Phase
<1>5. NamesAgree'
  BY DEF NamesAgree, UpdateRow, NoJob, hubVars, otherVars, TypeOK
<1>6. FanInv' /\ ClockInv' /\ PubInv' /\ OfflineIsTransition'
  BY DEF FanInv, UpdateRow, NoJob, hubVars, otherVars, ClockInv, PubInv,
         Unpublished, OfflineIsTransition
<1> QED
  BY <1>1, <1>2, <1>3, <1>4, <1>5, <1>6

\* The snapshot follows its row.
LEMMA RenameSnapshotInductive ==
  ASSUME IInv, RenameSnapshot
  PROVE  IInv'
<1> USE DEF IInv
<1>1. TypeOK'
  <2>1. job.server \in Servers /\ job.name \in Names
    BY DEF RenameSnapshot, LockInv
  <2>2. CASE store[job.server] = Nil
    BY <2>2 DEF TypeOK, RenameSnapshot, Job, NoJob, Phase,
                dbVars, otherVars, hubVars
  <2>3. CASE store[job.server] # Nil
    <3>1. [store[job.server] EXCEPT !.name = job.name] \in Snapshot
      BY <2>1, <2>3 DEF TypeOK, Snapshot
    <3>2. store' \in [Servers -> Snapshot \cup {Nil}]
      BY <3>1, <2>3 DEF TypeOK, RenameSnapshot
    <3> QED
      BY <3>2 DEF TypeOK, RenameSnapshot, Job, NoJob, Phase,
                  dbVars, otherVars, hubVars
  <2> QED
    BY <2>2, <2>3
<1>2. NamesAgree'
  BY DEF NamesAgree, RenameSnapshot, NoJob, dbVars, hubVars, otherVars,
         TypeOK, LockInv, Accepting, UsedInv
<1>3. LockInv' /\ UsedInv' /\ FanInv' /\ ClockInv' /\ NoGhost' /\
      PubInv' /\ OfflineIsTransition'
  BY DEF LockInv, Accepting, RenameSnapshot, NoJob, dbVars, hubVars,
         otherVars, UsedInv, FanInv, ClockInv, NoGhost, PubInv, Unpublished,
         OfflineIsTransition
<1> QED
  BY <1>1, <1>2, <1>3

\* The row is deleted under the mutex.
LEMMA DeleteRowInductive ==
  ASSUME NEW s \in Servers, IInv, DeleteRow(s)
  PROVE  IInv'
<1> USE DEF IInv
<1>1. TypeOK'
  BY LiveAssumption, NilAssumption DEF TypeOK, DeleteRow, NoJob, hubVars,
         otherVars, Event, Job, Phase, Request, Row, Snapshot, Stream
<1>2. LockInv'
  BY DEF LockInv, Accepting, DeleteRow, NoJob, hubVars, otherVars, TypeOK,
         UsedInv
<1>3. UsedInv' /\ FanInv' /\ ClockInv' /\ NoGhost' /\ NamesAgree' /\
      PubInv' /\ OfflineIsTransition'
  BY DEF UsedInv, DeleteRow, NoJob, hubVars, otherVars, FanInv, ClockInv,
         NoGhost, NamesAgree, PubInv, Unpublished, OfflineIsTransition
<1> QED
  BY <1>1, <1>2, <1>3

\* Snapshot and buckets follow the row.
LEMMA ForgetServerInductive ==
  ASSUME IInv, ForgetServer
  PROVE  IInv'
<1> USE DEF IInv
<1>1. TypeOK'
  BY LiveAssumption, NilAssumption DEF TypeOK, ForgetServer, NoJob, dbVars,
         hubVars, otherVars, Event, Job, Phase, Request, Row, Snapshot,
         Stream
<1>2. NoGhost'
  BY DEF NoGhost, ForgetServer, NoJob, dbVars, hubVars, otherVars, TypeOK
<1>3. LockInv' /\ UsedInv' /\ FanInv' /\ ClockInv' /\ NamesAgree' /\
      PubInv' /\ OfflineIsTransition'
  BY DEF LockInv, Accepting, ForgetServer, NoJob, dbVars, hubVars,
         otherVars, UsedInv, FanInv, ClockInv, NamesAgree, PubInv,
         Unpublished, OfflineIsTransition
<1> QED
  BY <1>1, <1>2, <1>3

\* Publish sends to a channel with room.
LEMMA FanOutInductive ==
  ASSUME NEW c \in Clients, IInv, FanOut(c)
  PROVE  IInv'
<1> USE DEF IInv
<1>1. TypeOK'
  <2> DEFINE q == Append(subs[c].queue, pub[newest])
             new == [subs[c] EXCEPT !.queue = q, !.live = TRUE]
  <2>1. /\ subs[c] \in Stream
        /\ subs[c].queue \in Seq(Event)
        /\ pub[newest] \in Event
    BY DEF TypeOK, FanOut, FanInv, Stream
  <2>2. q \in Seq(Event) /\ Len(q) <= SubscriberCapacity
    BY <2>1, LiveAssumption DEF FanOut
  <2>3. subs' = [subs EXCEPT ![c] = new]
    BY DEF FanOut, TypeOK
  <2>4. new \in Stream /\ new.queue = q
    BY <2>1, <2>2 DEF Stream
  <2>5. subs' \in [Clients -> Stream]
    BY <2>3, <2>4 DEF TypeOK
  <2>6. \A d \in Clients : Len(subs'[d].queue) <= SubscriberCapacity
    BY <2>2, <2>3, <2>4 DEF TypeOK
  <2> QED
    BY <2>5, <2>6 DEF TypeOK, FanOut, dbVars, otherVars
<1>2. LockInv' /\ UsedInv' /\ FanInv' /\ ClockInv' /\ NoGhost' /\
      NamesAgree' /\ PubInv' /\ OfflineIsTransition'
  BY DEF LockInv, Accepting, FanOut, dbVars, otherVars, UsedInv, FanInv,
         ClockInv, NoGhost, NamesAgree, PubInv, Unpublished,
         OfflineIsTransition
<1> QED
  BY <1>1, <1>2

\* Publish finds a channel full.
LEMMA FanFullInductive ==
  ASSUME NEW c \in Clients, IInv, FanFull(c)
  PROVE  IInv'
<1> USE DEF IInv
<1>1. TypeOK' /\ LockInv' /\ UsedInv' /\ FanInv' /\ ClockInv' /\
      NoGhost' /\ NamesAgree' /\ PubInv' /\ OfflineIsTransition'
  BY DEF TypeOK, FanFull, dbVars, otherVars, LockInv, Accepting, UsedInv,
         FanInv, ClockInv, NoGhost, NamesAgree, PubInv, Unpublished,
         OfflineIsTransition
<1> QED
  BY <1>1

\* Publish makes room and sends.
LEMMA FanEvictInductive ==
  ASSUME NEW c \in Clients, IInv, FanEvict(c)
  PROVE  IInv'
<1> USE DEF IInv
<1>1. TypeOK'
  <2> DEFINE old == subs[c].queue
             rest == IF old = <<>> THEN old ELSE Tail(old)
             q == Append(rest, pub[newest])
             new == [subs[c] EXCEPT !.queue = q, !.live = TRUE]
  <2>1. subs[c] \in Stream /\ old \in Seq(Event) /\ pub[newest] \in Event
    BY NilAssumption DEF TypeOK, FanEvict, FanInv, Stream
  <2>2. rest \in Seq(Event) /\ Len(rest) < SubscriberCapacity
    <3>1. CASE old = <<>>
      BY <3>1, <2>1, LiveAssumption
    <3>2. CASE old # <<>>
      <4>1. Tail(old) \in Seq(Event) /\ Len(Tail(old)) = Len(old) - 1
        BY <3>2, <2>1
      <4>2. Len(old) \in Nat /\ Len(old) <= SubscriberCapacity
        BY <2>1 DEF TypeOK
      <4> QED
        BY <4>1, <4>2, <3>2, LiveAssumption
    <3> QED
      BY <3>1, <3>2
  <2>3. q \in Seq(Event) /\ Len(q) <= SubscriberCapacity
    BY <2>1, <2>2, LiveAssumption
  <2>4. subs' = [subs EXCEPT ![c] = new]
    BY DEF FanEvict, TypeOK
  <2> HIDE DEF q
  <2>5. new \in Stream /\ new.queue = q
    BY <2>1, <2>3 DEF Stream
  <2>6. subs' \in [Clients -> Stream]
    BY <2>4, <2>5 DEF TypeOK
  <2>7. \A d \in Clients : Len(subs'[d].queue) <= SubscriberCapacity
    BY <2>3, <2>4, <2>5 DEF TypeOK
  <2> QED
    BY <2>6, <2>7 DEF TypeOK, FanEvict, dbVars, otherVars
<1>2. LockInv' /\ UsedInv' /\ FanInv' /\ ClockInv' /\ NoGhost' /\
      NamesAgree' /\ PubInv' /\ OfflineIsTransition'
  BY DEF LockInv, Accepting, FanEvict, dbVars, otherVars, UsedInv, FanInv,
         ClockInv, NoGhost, NamesAgree, PubInv, Unpublished,
         OfflineIsTransition
<1> QED
  BY <1>1, <1>2

\* A stream opens.
LEMMA SubscribeInductive ==
  ASSUME NEW c \in Clients, IInv, Subscribe(c)
  PROVE  IInv'
<1> USE DEF IInv
<1>1. TypeOK'
  <2>1. /\ [NoStream EXCEPT !.state = "open"] \in Stream
        /\ [NoStream EXCEPT !.state = "open"].queue = <<>>
    BY NoStreamType DEF Stream
  <2>2. subs' \in [Clients -> Stream]
    BY <2>1 DEF TypeOK, Subscribe
  <2>3. \A d \in Clients : Len(subs'[d].queue) <= SubscriberCapacity
    BY <2>1, LiveAssumption DEF TypeOK, Subscribe
  <2> QED
    BY <2>2, <2>3 DEF TypeOK, Subscribe, dbVars, otherVars
<1>2. LockInv' /\ UsedInv' /\ FanInv' /\ ClockInv' /\ NoGhost' /\
      NamesAgree' /\ PubInv' /\ OfflineIsTransition'
  BY DEF LockInv, Accepting, Subscribe, NoStream, dbVars, otherVars,
         UsedInv, FanInv, ClockInv, NoGhost, NamesAgree, PubInv,
         Unpublished, OfflineIsTransition
<1> QED
  BY <1>1, <1>2

\* A stream writes an event.
LEMMA DeliverInductive ==
  ASSUME NEW c \in Clients, IInv, Deliver(c)
  PROVE  IInv'
<1> USE DEF IInv
<1>1. TypeOK'
  <2> DEFINE old == subs[c].queue
             new == [subs[c] EXCEPT
                       !.queue = Tail(old),
                       !.heard = [@ EXCEPT ![Head(old).server] = Head(old)]]
  <2>1. subs[c] \in Stream /\ old \in Seq(Event) /\ old # <<>>
    BY DEF TypeOK, Deliver, Stream
  <2>2. /\ Head(old) \in Event
        /\ Tail(old) \in Seq(Event)
        /\ Len(Tail(old)) = Len(old) - 1
    BY <2>1
  <2>3. [subs[c].heard EXCEPT ![Head(old).server] = Head(old)]
          \in [Servers -> Event \cup {Nil}]
    BY <2>1, <2>2 DEF Stream
  <2>4. new \in Stream /\ new.queue = Tail(old)
    BY <2>1, <2>2, <2>3 DEF Stream
  <2>5. subs' = [subs EXCEPT ![c] = new]
    BY DEF Deliver, TypeOK
  <2> HIDE DEF new
  <2>6. subs' \in [Clients -> Stream]
    BY <2>4, <2>5 DEF TypeOK
  <2>7. ASSUME NEW d \in Clients
        PROVE  Len(subs'[d].queue) <= SubscriberCapacity
    <3>1. CASE d = c
      <4>1. subs'[d].queue = Tail(old)
        BY <3>1, <2>4, <2>5 DEF TypeOK
      <4>2. Len(old) \in Nat /\ Len(old) <= SubscriberCapacity
        BY <2>1 DEF TypeOK
      <4> QED
        BY <4>1, <4>2, <2>2, LiveAssumption
    <3>2. CASE d # c
      BY <3>2, <2>5 DEF TypeOK
    <3> QED
      BY <3>1, <3>2
  <2> QED
    BY <2>6, <2>7 DEF TypeOK, Deliver, dbVars, otherVars
<1>2. LockInv' /\ UsedInv' /\ FanInv' /\ ClockInv' /\ NoGhost' /\
      NamesAgree' /\ PubInv' /\ OfflineIsTransition'
  BY DEF LockInv, Accepting, Deliver, dbVars, otherVars, UsedInv, FanInv,
         ClockInv, NoGhost, NamesAgree, PubInv, Unpublished,
         OfflineIsTransition
<1> QED
  BY <1>1, <1>2

\* A stream ends.
LEMMA EndStreamInductive ==
  ASSUME NEW c \in Clients, IInv, EndStream(c)
  PROVE  IInv'
<1> USE DEF IInv
<1>1. TypeOK'
  <2>1. subs' \in [Clients -> Stream]
    BY NoStreamType DEF TypeOK, EndStream
  <2>2. \A d \in Clients : Len(subs'[d].queue) <= SubscriberCapacity
    BY NoStreamType, LiveAssumption DEF TypeOK, EndStream
  <2> QED
    BY <2>1, <2>2 DEF TypeOK, EndStream, dbVars, otherVars
<1>2. LockInv' /\ UsedInv' /\ FanInv' /\ ClockInv' /\ NoGhost' /\
      NamesAgree' /\ PubInv' /\ OfflineIsTransition'
  BY DEF LockInv, Accepting, EndStream, NoStream, dbVars, otherVars,
         UsedInv, FanInv, ClockInv, NoGhost, NamesAgree, PubInv,
         Unpublished, OfflineIsTransition
<1> QED
  BY <1>1, <1>2

\* The hub closes.
LEMMA CloseHubInductive ==
  ASSUME IInv, CloseHub
  PROVE  IInv'
<1> USE DEF IInv
<1>1. TypeOK'
  <2>1. ASSUME NEW d \in Clients
        PROVE  subs'[d] \in Stream /\ Len(subs'[d].queue) <= SubscriberCapacity
    BY DEF TypeOK, CloseHub, Stream
  <2>2. subs' \in [Clients -> Stream]
    BY <2>1 DEF CloseHub
  <2> QED
    BY <2>1, <2>2 DEF TypeOK, CloseHub, dbVars, otherVars
<1>2. LockInv' /\ UsedInv' /\ FanInv' /\ ClockInv' /\ NoGhost' /\
      NamesAgree' /\ PubInv' /\ OfflineIsTransition'
  BY DEF LockInv, Accepting, CloseHub, dbVars, otherVars, UsedInv, FanInv,
         ClockInv, NoGhost, NamesAgree, PubInv, Unpublished,
         OfflineIsTransition
<1> QED
  BY <1>1, <1>2

\* First authentication.
LEMMA IngestAuthenticateInductive ==
  ASSUME NEW r \in Requests, NEW t \in Tokens, IInv, IngestAuthenticate(r, t)
  PROVE  IInv'
<1> USE DEF IInv
<1>1. TypeOK'
  BY LiveAssumption, NilAssumption, ZenonT(60) DEF TypeOK, IngestAuthenticate,
         Authenticates, dbVars, hubVars, Event, Job, Phase, Request, Row,
         Snapshot, Stream
<1>2. ClockInv'
  BY DEF ClockInv, IngestAuthenticate, Authenticates, dbVars, hubVars,
         TypeOK
<1>3. LockInv' /\ UsedInv' /\ FanInv' /\ NoGhost' /\ NamesAgree' /\
      PubInv' /\ OfflineIsTransition'
  BY DEF LockInv, Accepting, IngestAuthenticate, Authenticates, dbVars,
         hubVars, UsedInv, FanInv, NoGhost, NamesAgree, PubInv, Unpublished,
         OfflineIsTransition
<1> QED
  BY <1>1, <1>2, <1>3

\* The report is complete.
LEMMA IngestReceiveInductive ==
  ASSUME NEW r \in Requests, IInv, IngestReceive(r)
  PROVE  IInv'
<1> USE DEF IInv
<1>1. TypeOK'
  <2>1. [req[r] EXCEPT !.pc = "received", !.at = now] \in Request
    BY DEF TypeOK, Request
  <2>2. req' \in [Requests -> Request]
    BY <2>1 DEF TypeOK, IngestReceive
  <2> QED
    BY <2>2 DEF TypeOK, IngestReceive, dbVars, hubVars
<1>2. ClockInv'
  BY DEF ClockInv, IngestReceive, dbVars, hubVars, TypeOK
<1>3. LockInv' /\ UsedInv' /\ FanInv' /\ NoGhost' /\ NamesAgree' /\
      PubInv' /\ OfflineIsTransition'
  BY DEF LockInv, Accepting, IngestReceive, dbVars, hubVars, UsedInv,
         FanInv, NoGhost, NamesAgree, PubInv, Unpublished,
         OfflineIsTransition
<1> QED
  BY <1>1, <1>2, <1>3

\* The request is refused.
LEMMA IngestFailInductive ==
  ASSUME NEW r \in Requests, IInv, IngestFail(r)
  PROVE  IInv'
<1> USE DEF IInv
<1>1. TypeOK'
  BY LiveAssumption, NilAssumption, ZenonT(60) DEF TypeOK, IngestFail, Idle, dbVars,
         hubVars, Event, Job, Phase, Request, Row, Snapshot, Stream
<1>2. ClockInv'
  BY DEF ClockInv, IngestFail, Idle, dbVars, hubVars, TypeOK
<1>3. LockInv' /\ UsedInv' /\ FanInv' /\ NoGhost' /\ NamesAgree' /\
      PubInv' /\ OfflineIsTransition'
  BY DEF LockInv, Accepting, IngestFail, Idle, dbVars, hubVars, UsedInv,
         FanInv, NoGhost, NamesAgree, PubInv, Unpublished,
         OfflineIsTransition
<1> QED
  BY <1>1, <1>2, <1>3

\* Second authentication, under the mutex.
LEMMA AcceptAuthenticateInductive ==
  ASSUME NEW r \in Requests, NEW s \in Servers, IInv, AcceptAuthenticate(r, s)
  PROVE  IInv'
<1> USE DEF IInv
<1>1. TypeOK'
  <2>1. registry[s] \in Row /\ registry[s].name \in Names
    BY DEF AcceptAuthenticate, Authenticates, TypeOK, Row
  <2>2. job' \in Job /\ mu' \in Phase
    BY <2>1 DEF AcceptAuthenticate, Job, NoJob, Phase
  <2>3. [req[r] EXCEPT !.pc = "accepting"] \in Request
    BY DEF TypeOK, Request
  <2>4. req' \in [Requests -> Request]
    BY <2>3 DEF TypeOK, AcceptAuthenticate
  <2> QED
    BY <2>2, <2>4 DEF TypeOK, AcceptAuthenticate, dbVars, hubVars
<1>2. LockInv'
  BY LiveAssumption, NilAssumption DEF LockInv, Accepting,
         AcceptAuthenticate, Authenticates, NoJob, dbVars, hubVars, TypeOK,
         UsedInv, FanInv, ClockInv, NoGhost, NamesAgree, PubInv,
         Unpublished, OfflineIsTransition, Snapshot, Event, Row, Job, Phase
<1>3. UsedInv' /\ FanInv' /\ ClockInv' /\ NoGhost' /\ NamesAgree' /\
      PubInv' /\ OfflineIsTransition'
  BY DEF UsedInv, AcceptAuthenticate, Authenticates, NoJob, dbVars, hubVars,
         FanInv, ClockInv, NoGhost, NamesAgree, PubInv, Unpublished,
         OfflineIsTransition
<1> QED
  BY <1>1, <1>2, <1>3

\* The version cannot be written.
LEMMA AcceptFailInductive ==
  ASSUME IInv, AcceptFail
  PROVE  IInv'
<1> USE DEF IInv
<1>1. TypeOK'
  BY LiveAssumption, NilAssumption DEF TypeOK, AcceptFail, Idle, NoJob,
         dbVars, hubVars, Event, Job, Phase, Request, Row, Snapshot, Stream
<1>2. ClockInv'
  BY DEF ClockInv, AcceptFail, Idle, NoJob, dbVars, hubVars, TypeOK
<1>3. LockInv' /\ UsedInv' /\ FanInv' /\ NoGhost' /\ NamesAgree' /\
      PubInv' /\ OfflineIsTransition'
  BY DEF LockInv, Accepting, AcceptFail, Idle, NoJob, dbVars, hubVars,
         UsedInv, FanInv, NoGhost, NamesAgree, PubInv, Unpublished,
         OfflineIsTransition
<1> QED
  BY <1>1, <1>2, <1>3

\* The snapshot is replaced.
LEMMA AcceptUpsertInductive ==
  ASSUME IInv, AcceptUpsert
  PROVE  IInv'
<1> USE DEF IInv
<1>1. TypeOK'
  BY LiveAssumption, NilAssumption DEF TypeOK, AcceptUpsert, dbVars,
         hubVars, otherVars, Event, Job, Phase, Request, Row, Snapshot,
         Stream, LockInv, Accepting, UsedInv
<1>2. LockInv'
  <2> DEFINE new == [name |-> job.name, online |-> TRUE,
                     at |-> req[job.req].at]
  <2>1. job.req \in Requests /\ job.server \in Servers /\ job.name \in Names
    BY DEF LockInv, AcceptUpsert, Accepting
  <2>2. new \in Snapshot
    BY <2>1 DEF TypeOK, Request, Snapshot
  <2>3. store'[job.server] = new
    BY <2>1 DEF TypeOK, AcceptUpsert
  <2>4. store'[job.server] # Nil
    BY <2>2, <2>3, NilAssumption
  <2>5. store'[job.server].online
    BY <2>3
  <2> QED
    BY <2>4, <2>5 DEF LockInv, AcceptUpsert, Accepting, dbVars
<1>3. ClockInv'
  BY DEF ClockInv, AcceptUpsert, dbVars, hubVars, otherVars, TypeOK,
         LockInv, Accepting, UsedInv
<1>4. NoGhost'
  BY DEF NoGhost, AcceptUpsert, dbVars, hubVars, otherVars, TypeOK, LockInv,
         Accepting, UsedInv
<1>5. NamesAgree'
  BY DEF NamesAgree, AcceptUpsert, dbVars, hubVars, otherVars, TypeOK,
         LockInv, Accepting, UsedInv
<1>6. PubInv'
  BY DEF PubInv, Unpublished, AcceptUpsert, dbVars, hubVars, otherVars,
         TypeOK
<1>7. UsedInv' /\ FanInv' /\ OfflineIsTransition'
  BY DEF UsedInv, AcceptUpsert, dbVars, hubVars, otherVars, FanInv,
         OfflineIsTransition
<1> QED
  BY <1>1, <1>2, <1>3, <1>4, <1>5, <1>6, <1>7

\* The update is published.
LEMMA AcceptPublishInductive ==
  ASSUME IInv, AcceptPublish
  PROVE  IInv'
<1> USE DEF IInv
<1>1. TypeOK'
  <2>1. job.server \in Servers /\ store[job.server] \in Snapshot
    BY DEF LockInv, AcceptPublish, Accepting, TypeOK
  <2>2. [type |-> "snapshot.updated", server |-> job.server,
         snapshot |-> store[job.server]] \in Event
    BY <2>1 DEF Event
  <2>3. pub' \in [Servers -> Event \cup {Nil}] /\ newest' \in Servers
    BY <2>1, <2>2 DEF TypeOK, AcceptPublish, StartPublish
  <2>4. fan' \subseteq Clients /\ full' \in Clients \cup {Nil} /\ mu' \in Phase
    BY DEF AcceptPublish, StartPublish, OpenStreams, Phase
  <2> QED
    BY <2>3, <2>4 DEF TypeOK, AcceptPublish, StartPublish, dbVars, otherVars
<1>2. FanInv'
  BY LiveAssumption, NilAssumption DEF FanInv, AcceptPublish, StartPublish,
         dbVars, otherVars, TypeOK, LockInv, Accepting, UsedInv, ClockInv,
         NoGhost, NamesAgree, PubInv, Unpublished, OfflineIsTransition,
         Snapshot, Event, Row, Job, Phase
<1>3. PubInv'
  BY LiveAssumption, NilAssumption DEF PubInv, Unpublished, AcceptPublish,
         StartPublish, dbVars, otherVars, TypeOK, LockInv, Accepting,
         UsedInv, FanInv, ClockInv, NoGhost, NamesAgree,
         OfflineIsTransition, Snapshot, Event, Row, Job, Phase
<1>4. LockInv' /\ UsedInv' /\ ClockInv' /\ NoGhost' /\ NamesAgree' /\
      OfflineIsTransition'
  BY DEF LockInv, Accepting, AcceptPublish, StartPublish, dbVars, otherVars,
         UsedInv, ClockInv, NoGhost, NamesAgree, OfflineIsTransition
<1> QED
  BY <1>1, <1>2, <1>3, <1>4

\* History takes the report.
LEMMA AcceptHistoryInductive ==
  ASSUME IInv, AcceptHistory
  PROVE  IInv'
<1> USE DEF IInv
<1>1. TypeOK'
  BY LiveAssumption, NilAssumption, ZenonT(60) DEF TypeOK, AcceptHistory, Idle, NoJob,
         dbVars, hubVars, Event, Job, Phase, Request, Row, Snapshot, Stream,
         LockInv, Accepting, UsedInv
<1>2. ClockInv'
  BY DEF ClockInv, AcceptHistory, Idle, NoJob, dbVars, hubVars, TypeOK
<1>3. NoGhost'
  BY DEF NoGhost, AcceptHistory, Idle, NoJob, dbVars, hubVars, TypeOK,
         LockInv, Accepting, UsedInv
<1>4. LockInv' /\ UsedInv' /\ FanInv' /\ NamesAgree' /\ PubInv' /\
      OfflineIsTransition'
  BY DEF LockInv, Accepting, AcceptHistory, Idle, NoJob, dbVars, hubVars,
         UsedInv, FanInv, NamesAgree, PubInv, Unpublished,
         OfflineIsTransition
<1> QED
  BY <1>1, <1>2, <1>3, <1>4

\* A bucket is flushed.
LEMMA FlushBucketsInductive ==
  ASSUME NEW s \in Servers, IInv, FlushBuckets(s)
  PROVE  IInv'
<1> USE DEF IInv
<1>1. TypeOK' /\ LockInv' /\ UsedInv' /\ FanInv' /\ ClockInv' /\
      NoGhost' /\ NamesAgree' /\ PubInv' /\ OfflineIsTransition'
  BY DEF TypeOK, FlushBuckets, dbVars, hubVars, otherVars, LockInv,
         Accepting, UsedInv, FanInv, ClockInv, NoGhost, NamesAgree, PubInv,
         Unpublished, OfflineIsTransition
<1> QED
  BY <1>1

\* The ticker fires.
LEMMA SweepTickInductive ==
  ASSUME IInv, SweepTick
  PROVE  IInv'
<1> USE DEF IInv
<1>1. ClockInv'
  BY DEF ClockInv, SweepTick, dbVars, hubVars, TypeOK
<1>2. TypeOK' /\ LockInv' /\ UsedInv' /\ FanInv' /\ NoGhost' /\
      NamesAgree' /\ PubInv' /\ OfflineIsTransition'
  BY DEF TypeOK, SweepTick, dbVars, hubVars, LockInv, Accepting, UsedInv,
         FanInv, NoGhost, NamesAgree, PubInv, Unpublished,
         OfflineIsTransition
<1> QED
  BY <1>1, <1>2

\* Expired snapshots go offline.
LEMMA SweepMarkInductive ==
  ASSUME IInv, SweepMark
  PROVE  IInv'
<1> USE DEF IInv
<1>1. TypeOK'
  <2>1. ASSUME NEW s \in Servers
        PROVE  store'[s] \in Snapshot \cup {Nil}
    BY DEF TypeOK, SweepMark, Snapshot, Expired
  <2>2. store' \in [Servers -> Snapshot \cup {Nil}]
    BY <2>1 DEF SweepMark
  <2>3. job' \in Job /\ mu' \in Phase
    BY DEF SweepMark, Job, NoJob, Phase
  <2> QED
    BY <2>2, <2>3 DEF TypeOK, SweepMark, dbVars, hubVars
<1>2. ClockInv'
  BY DEF ClockInv, SweepMark, Expired, NoJob, dbVars, hubVars
<1>3. NoGhost'
  BY DEF NoGhost, SweepMark, Expired, NoJob, dbVars, hubVars
<1>4. NamesAgree'
  BY DEF NamesAgree, SweepMark, Expired, NoJob, dbVars, hubVars
<1>5. PubInv'
  BY DEF PubInv, Unpublished, SweepMark, Expired, NoJob, dbVars, hubVars
<1>6. OfflineIsTransition'
  <2> SUFFICES ASSUME NEW s \in Servers, mu' = "marked", s \in job'.pending
               PROVE  /\ store'[s] # Nil
                      /\ ~store'[s].online
                      /\ store'[s].at + OfflineAfter < now'
                      /\ pub'[s] # Nil
                      /\ pub'[s].type = "snapshot.updated"
                      /\ pub'[s].snapshot.at = store'[s].at
    BY DEF OfflineIsTransition, SweepMark, NoJob
  <2>1. /\ Expired(s, sweepAt)
        /\ store'[s] = [store[s] EXCEPT !.online = FALSE]
    BY DEF SweepMark, NoJob
  <2>2. store[s] \in Snapshot
    BY <2>1 DEF TypeOK, Expired
  <2>3. store'[s] \in Snapshot /\ ~store'[s].online /\ store'[s].at = store[s].at
    BY <2>1, <2>2 DEF Snapshot
  <2>4. store[s].at + OfflineAfter < now
    BY <2>1, <2>2, LiveAssumption, NilAssumption
       DEF TypeOK, ClockInv, Expired, SweepMark, Snapshot
  <2>5. /\ pub[s] # Nil
        /\ pub[s].type = "snapshot.updated"
        /\ pub[s].snapshot.at = store[s].at
    BY <2>1 DEF PubInv, Unpublished, Expired, SweepMark
  <2> QED
    BY <2>3, <2>4, <2>5, NilAssumption DEF SweepMark, hubVars
<1>7. LockInv' /\ UsedInv' /\ FanInv'
  BY DEF LockInv, Accepting, SweepMark, Expired, NoJob, dbVars, hubVars,
         UsedInv, FanInv
<1> QED
  BY <1>1, <1>2, <1>3, <1>4, <1>5, <1>6, <1>7

\* One offline event.
LEMMA SweepPublishInductive ==
  ASSUME NEW s \in Servers, IInv, SweepPublish(s)
  PROVE  IInv'
<1> USE DEF IInv
<1>1. TypeOK'
  <2>1. store[s] \in Snapshot
    BY DEF OfflineIsTransition, SweepPublish, TypeOK
  <2>2. [type |-> "snapshot.offline", server |-> s, snapshot |-> store[s]]
          \in Event
    BY <2>1 DEF Event
  <2>3. pub' \in [Servers -> Event \cup {Nil}] /\ newest' \in Servers
    BY <2>1, <2>2 DEF TypeOK, SweepPublish, StartPublish
  <2>4. fan' \subseteq Clients /\ full' \in Clients \cup {Nil} /\ job' \in Job
    BY DEF SweepPublish, StartPublish, OpenStreams, Job, TypeOK
  <2> QED
    BY <2>3, <2>4 DEF TypeOK, SweepPublish, StartPublish, dbVars, otherVars
<1>2. FanInv'
  BY LiveAssumption, NilAssumption DEF FanInv, SweepPublish, StartPublish,
         dbVars, otherVars, TypeOK, LockInv, Accepting, UsedInv, ClockInv,
         NoGhost, NamesAgree, PubInv, Unpublished, OfflineIsTransition,
         Snapshot, Event, Row, Job, Phase
<1>3. PubInv'
  BY LiveAssumption, NilAssumption DEF PubInv, Unpublished, SweepPublish,
         StartPublish, dbVars, otherVars, TypeOK, LockInv, Accepting,
         UsedInv, FanInv, ClockInv, NoGhost, NamesAgree,
         OfflineIsTransition, Snapshot, Event, Row, Job, Phase
<1>4. LockInv' /\ UsedInv' /\ ClockInv' /\ NoGhost' /\ NamesAgree' /\
      OfflineIsTransition'
  BY DEF LockInv, Accepting, SweepPublish, StartPublish, dbVars, otherVars,
         UsedInv, ClockInv, NoGhost, NamesAgree, OfflineIsTransition
<1> QED
  BY <1>1, <1>2, <1>3, <1>4

\* The sweep ends.
LEMMA SweepDoneInductive ==
  ASSUME IInv, SweepDone
  PROVE  IInv'
<1> USE DEF IInv
<1>1. TypeOK'
  BY LiveAssumption, NilAssumption DEF TypeOK, SweepDone, NoJob, dbVars,
         hubVars, otherVars, Event, Job, Phase, Request, Row, Snapshot,
         Stream
<1>2. LockInv' /\ UsedInv' /\ FanInv' /\ ClockInv' /\ NoGhost' /\
      NamesAgree' /\ PubInv' /\ OfflineIsTransition'
  BY DEF LockInv, Accepting, SweepDone, NoJob, dbVars, hubVars, otherVars,
         UsedInv, FanInv, ClockInv, NoGhost, NamesAgree, PubInv,
         Unpublished, OfflineIsTransition
<1> QED
  BY <1>1, <1>2

\* Time passes.
LEMMA TickInductive ==
  ASSUME IInv, Tick
  PROVE  IInv'
<1> USE DEF IInv
<1>1. ClockInv'
  <2>1. now \in Nat /\ now' = now + 1 /\ UNCHANGED <<req, store, sweepAt>>
    BY DEF TypeOK, Tick
  <2>2. \A r \in Requests : req[r].at \in Nat
    BY DEF TypeOK, Request
  <2>3. \A s \in Servers : store[s] # Nil => store[s].at \in Nat
    BY DEF TypeOK, Snapshot
  <2> QED
    BY <2>1, <2>2, <2>3 DEF TypeOK, ClockInv
<1>2. OfflineIsTransition'
  BY LiveAssumption, NilAssumption DEF OfflineIsTransition, Tick, dbVars,
         hubVars, TypeOK, LockInv, Accepting, UsedInv, FanInv, ClockInv,
         NoGhost, NamesAgree, PubInv, Unpublished, Snapshot, Event, Row,
         Job, Phase
<1>3. TypeOK' /\ LockInv' /\ UsedInv' /\ FanInv' /\ NoGhost' /\
      NamesAgree' /\ PubInv'
  BY DEF TypeOK, Tick, dbVars, hubVars, LockInv, Accepting, UsedInv, FanInv,
         NoGhost, NamesAgree, PubInv, Unpublished
<1> QED
  BY <1>1, <1>2, <1>3

\* A new process.
LEMMA RestartInductive ==
  ASSUME IInv, Restart
  PROVE  IInv'
<1> USE DEF IInv
<1>1. TypeOK'
  <2>1. /\ subs' \in [Clients -> Stream]
        /\ \A d \in Clients : Len(subs'[d].queue) <= SubscriberCapacity
    BY NoStreamType, LiveAssumption DEF Restart
  <2>2. job' \in Job /\ mu' \in Phase /\ req' \in [Requests -> Request]
    BY DEF Restart, Job, NoJob, Phase, Request, Idle
  <2> QED
    BY <2>1, <2>2 DEF TypeOK, Restart, dbVars
<1>2. ClockInv'
  BY DEF ClockInv, Restart, Idle, NoJob, NoStream, dbVars, TypeOK
<1>3. LockInv' /\ UsedInv' /\ FanInv' /\ NoGhost' /\ NamesAgree' /\
      PubInv' /\ OfflineIsTransition'
  BY DEF LockInv, Accepting, Restart, Idle, NoJob, NoStream, dbVars,
         UsedInv, FanInv, NoGhost, NamesAgree, PubInv, Unpublished,
         OfflineIsTransition
<1> QED
  BY <1>1, <1>2, <1>3

-------------------------------------------------------------------------------
LEMMA NextInductive == IInv /\ [Next]_vars => IInv'
<1> SUFFICES ASSUME IInv, [Next]_vars PROVE IInv'
  OBVIOUS
<1>1. CASE HolderStep
  BY <1>1, RenameSnapshotInductive, ForgetServerInductive, AcceptFailInductive,
     AcceptUpsertInductive, AcceptPublishInductive, AcceptHistoryInductive,
     SweepPublishInductive, SweepDoneInductive, FanOutInductive,
     FanFullInductive, FanEvictInductive
     DEF HolderStep
<1>2. CASE UNCHANGED vars
  BY <1>2 DEF vars, IInv, TypeOK, LockInv, Accepting, UsedInv, FanInv, ClockInv,
     NoGhost, NamesAgree, PubInv, Unpublished, OfflineIsTransition
<1>3. CASE Next /\ ~HolderStep
  BY <1>3, CreateInductive, RotateTokenInductive, UpdateRowInductive,
     DeleteRowInductive, SubscribeInductive, DeliverInductive,
     EndStreamInductive, CloseHubInductive, IngestAuthenticateInductive,
     IngestReceiveInductive, IngestFailInductive, AcceptAuthenticateInductive,
     FlushBucketsInductive, SweepTickInductive, SweepMarkInductive,
     TickInductive, RestartInductive
     DEF Next
<1> QED
  BY <1>1, <1>2, <1>3

LEMMA Invariance == Spec => []IInv
  BY InitInductive, NextInductive, PTL DEF Spec

-------------------------------------------------------------------------------
\* Every variable keeps its type, and no stream's channel ever holds more than
\* its capacity (hub.go).
THEOREM TypeCorrect == Spec => []TypeOK
<1>1. IInv => TypeOK
  BY DEF IInv
<1> QED
  BY <1>1, Invariance, PTL

\* A deleted server leaves no snapshot and no bucket behind, for any number of
\* ingest requests in flight (Coordinator.ReconcileDelete and Accept).
THEOREM NoGhostHolds == Spec => []NoGhost
<1>1. IInv => NoGhost
  BY DEF IInv
<1> QED
  BY <1>1, Invariance, PTL

\* A snapshot carries the registered name whenever no rename is under way
\* (Coordinator.ReconcileUpdate and Accept).
THEOREM NamesAgreeHolds == Spec => []NamesAgree
<1>1. IInv => NamesAgree
  BY DEF IInv
<1> QED
  BY <1>1, Invariance, PTL

\* With the mutex free, the last event published for a server is what the
\* store says of it (Coordinator.publish under mu).
THEOREM PublishedMatchesStoreHolds == Spec => []PublishedMatchesStore
<1>1. IInv => PublishedMatchesStore
  BY DEF IInv, PubInv, Unpublished, PublishedMatchesStore
<1> QED
  BY <1>1, Invariance, PTL

\* A sweep only announces online-to-offline transitions of servers that have
\* been silent for too long (Store.MarkOffline, Coordinator.Sweep).
THEOREM OfflineIsTransitionHolds == Spec => []OfflineIsTransition
<1>1. IInv => OfflineIsTransition
  BY DEF IInv
<1> QED
  BY <1>1, Invariance, PTL

-------------------------------------------------------------------------------
\* What every step of the system does to the store, as far as reports are
\* concerned: only AcceptUpsert brings one in, for a server whose row the
\* holder of the mutex has just found enabled.
LEMMA NextSilent ==
  ASSUME IInv, [Next]_vars, NEW s \in Servers, Reported(s)
  PROVE  registry[s] # Nil /\ registry[s].enabled
<1>1. store' # store
  BY DEF Reported
<1>2. CASE AcceptUpsert
  <2>1. s = job.server
    BY <1>2 DEF AcceptUpsert, Reported, IInv, TypeOK
  <2> QED
    BY <1>2, <2>1 DEF AcceptUpsert, IInv, LockInv, Accepting
<1>3. CASE RenameSnapshot
  <2>1. store[s] # Nil /\ store'[s].at = store[s].at
          /\ store'[s].online = store[s].online
    BY <1>3 DEF RenameSnapshot, Reported, IInv, TypeOK, LockInv, Snapshot
  <2> QED
    BY <2>1 DEF Reported, IInv, TypeOK, Snapshot
<1>4. CASE ForgetServer
  BY <1>4 DEF ForgetServer, Reported, IInv, TypeOK
<1>5. CASE SweepMark
  BY <1>5 DEF SweepMark, Reported, Expired, IInv, TypeOK, Snapshot
<1>6. CASE Restart
  BY <1>6 DEF Restart, Reported
<1>7. AcceptUpsert \/ RenameSnapshot \/ ForgetServer \/ SweepMark \/ Restart
  BY <1>1 DEF Next, HolderStep, vars, dbVars, otherVars, hubVars,
     Create, RotateToken, UpdateRow, DeleteRow, FanOut, FanFull, FanEvict,
     Subscribe, Deliver, EndStream, CloseHub, IngestAuthenticate,
     IngestReceive, IngestFail, AcceptAuthenticate, AcceptFail, AcceptPublish,
     AcceptHistory, FlushBuckets, SweepTick, SweepPublish, SweepDone, Tick
<1> QED
  BY <1>2, <1>3, <1>4, <1>5, <1>6, <1>7

\* No report takes effect for a server that is disabled or deleted
\* (Coordinator.Accept authenticates under the mutex, Update and Delete hold it).
THEOREM SilentWhileDisabledHolds == Spec => SilentWhileDisabled
<1>1. IInv /\ [Next]_vars =>
        [\A s \in Servers : Reported(s) =>
            registry[s] # Nil /\ registry[s].enabled]_vars
  BY NextSilent
<1> QED
  BY <1>1, Invariance, PTL DEF Spec, SilentWhileDisabled

-------------------------------------------------------------------------------
(* The refinement.  A status read changes at five steps only: Create,
   UpdateRow, DeleteRow, AcceptUpsert and SweepMark, and at a restart.      *)

\* A step that changes what is read of server s only.
LEMMA ViewExcept ==
  ASSUME NEW s \in Servers, NEW v, StatusView'[s] = v,
         \A u \in Servers \ {s} : StatusView'[u] = StatusView[u]
  PROVE  StatusView' = [StatusView EXCEPT ![s] = v]
<1>1. /\ StatusView = [u \in Servers |-> StatusView[u]]
      /\ StatusView' = [u \in Servers |-> StatusView'[u]]
  BY DEF StatusView
<1> QED
  BY <1>1

\* What is read of a registered server, before and after a step.
LEMMA ViewOf ==
  ASSUME NEW s \in Servers, registry[s] # Nil
  PROVE  StatusView[s] = [seen |-> Seen(s), name |-> registry[s].name,
                          enabled |-> registry[s].enabled, at |-> SeenAt(s)]
  BY DEF StatusView

LEMMA ViewOfNext ==
  ASSUME NEW s \in Servers, registry'[s] # Nil
  PROVE  StatusView'[s] = [seen |-> Seen(s)', name |-> registry'[s].name,
                           enabled |-> registry'[s].enabled, at |-> SeenAt(s)']
  BY DEF StatusView

\* A server whose row and snapshot a step leaves alone reads as before.
LEMMA ViewKept ==
  ASSUME NEW s \in Servers, registry'[s] = registry[s], store'[s] = store[s]
  PROVE  StatusView'[s] = StatusView[s]
  BY DEF StatusView, Seen, SeenAt

\* A report is accepted when its snapshot is stored.
LEMMA UpsertReports ==
  ASSUME IInv, AcceptUpsert
  PROVE  \E s \in Servers, t \in 0..now : Status!Report(s, t)
<1>1. PICK s \in Servers : s = job.server
  BY DEF AcceptUpsert, IInv, LockInv, Accepting
<1>2. registry[s] \in Row /\ registry[s] # Nil /\ registry[s].enabled
  BY <1>1 DEF AcceptUpsert, IInv, LockInv, Accepting, TypeOK
<1>3. PICK t \in 0..now : t = req[job.req].at
  BY DEF AcceptUpsert, IInv, LockInv, Accepting, TypeOK, ClockInv, Request
<1>4. /\ store' = [store EXCEPT ![s] =
                     [name |-> job.name, online |-> TRUE, at |-> t]]
      /\ registry' = registry
      /\ now' = now
  BY <1>1, <1>3 DEF AcceptUpsert, dbVars, otherVars
<1>5. [name |-> job.name, online |-> TRUE, at |-> t] # Nil
  <2>1. [name |-> job.name, online |-> TRUE, at |-> t] \in Snapshot
    BY <1>3 DEF AcceptUpsert, IInv, LockInv, Accepting, Snapshot
  <2> QED
    BY <2>1, NilAssumption
<1>6. StatusView[s] # [seen |-> "absent"] /\ StatusView[s].enabled
  BY <1>1, <1>2 DEF StatusView
<1>7. StatusView' = [StatusView EXCEPT
                       ![s] = [seen |-> "online", name |-> StatusView[s].name,
                               enabled |-> StatusView[s].enabled, at |-> t]]
  <2>1. \A u \in Servers \ {s} : StatusView'[u] = StatusView[u]
    BY <1>1, <1>4, ViewKept DEF IInv, TypeOK
  <2>2. store'[s] = [name |-> job.name, online |-> TRUE, at |-> t]
    BY <1>1, <1>4 DEF IInv, TypeOK
  <2>3. Seen(s)' = "online" /\ SeenAt(s)' = t
    BY <2>2, <1>5 DEF Seen, SeenAt
  <2>4. StatusView'[s] = [seen |-> "online", name |-> StatusView[s].name,
                          enabled |-> StatusView[s].enabled, at |-> t]
    <3>1. StatusView[s].name = registry[s].name
            /\ StatusView[s].enabled = registry[s].enabled
      BY <1>2 DEF StatusView
    <3>2. StatusView'[s] = [seen |-> Seen(s)', name |-> registry'[s].name,
                            enabled |-> registry'[s].enabled, at |-> SeenAt(s)']
      BY <1>2, <1>4 DEF StatusView
    <3> QED
      BY <1>4, <2>3, <3>1, <3>2
  <2> DEFINE v == [seen |-> "online", name |-> StatusView[s].name,
                   enabled |-> StatusView[s].enabled, at |-> t]
  <2>5. StatusView'[s] = v
    BY <2>4
  <2> HIDE DEF v
  <2>6. StatusView' = [StatusView EXCEPT ![s] = v]
    BY <2>1, <2>5, ViewExcept
  <2> QED
    BY <2>6 DEF v
<1>8. Status!Report(s, t)
  BY <1>1, <1>4, <1>6, <1>7 DEF Status!Report, Status!Absent
<1> QED
  BY <1>1, <1>3, <1>8

\* A new id was never used: nothing of an earlier server can be read there.
LEMMA CreateRegisters ==
  ASSUME IInv, NEW n \in Names, Create(n)
  PROVE  \E s \in Servers : Status!Register(s, n)
<1>1. PICK s \in Servers \ usedServers, t \in Tokens :
        registry' = [registry EXCEPT
          ![s] = [name |-> n, enabled |-> TRUE, token |-> t]]
  BY DEF Create
<1>2. store' = store /\ now' = now
  BY DEF Create, otherVars
<1>3. registry[s] = Nil /\ store[s] = Nil
  BY <1>1 DEF IInv, UsedInv, NoGhost, LockInv
<1>4. registry'[s] = [name |-> n, enabled |-> TRUE, token |-> t]
        /\ registry'[s] # Nil
  <2>1. [name |-> n, enabled |-> TRUE, token |-> t] \in Row
    BY DEF Row
  <2> QED
    BY <1>1, <2>1, NilAssumption DEF IInv, TypeOK
<1> DEFINE v == [seen |-> "never", name |-> n, enabled |-> TRUE, at |-> 0]
<1>5. StatusView'[s] = v
  <2>1. Seen(s)' = "never" /\ SeenAt(s)' = 0
    BY <1>2, <1>3 DEF Seen, SeenAt
  <2>2. StatusView'[s] = [seen |-> Seen(s)', name |-> registry'[s].name,
                          enabled |-> registry'[s].enabled, at |-> SeenAt(s)']
    BY <1>4 DEF StatusView
  <2> QED
    BY <1>4, <2>1, <2>2
<1> HIDE DEF v
<1>6. \A u \in Servers \ {s} : StatusView'[u] = StatusView[u]
  BY <1>1, <1>2, ViewKept DEF IInv, TypeOK
<1>7. StatusView' = [StatusView EXCEPT ![s] = v]
  BY <1>5, <1>6, ViewExcept
<1>8. StatusView[s] = [seen |-> "absent"]
  BY <1>3 DEF StatusView
<1> QED
  BY <1>2, <1>7, <1>8 DEF Status!Register, Status!Absent, v

\* The UPDATE statement is where a rename or a new flag can first be read.
LEMMA UpdateEdits ==
  ASSUME IInv, NEW s \in Servers, NEW n \in Names, NEW e \in BOOLEAN,
         UpdateRow(s, n, e)
  PROVE  Status!Edit(s, n, e)
<1>1. store' = store /\ now' = now /\ registry[s] \in Row /\ registry[s] # Nil
  BY DEF UpdateRow, otherVars, IInv, TypeOK
<1>2. /\ registry'[s] # Nil
      /\ registry'[s].name = n
      /\ registry'[s].enabled = e
  <2>1. [registry[s] EXCEPT !.name = n, !.enabled = e] \in Row
    BY <1>1 DEF Row
  <2>2. registry'[s] # Nil /\ registry'[s].name = n
    BY <1>1, <2>1, NilAssumption DEF UpdateRow, IInv, TypeOK, Row
  <2>3. registry'[s].enabled = e
    BY <1>1, <2>1, NilAssumption DEF UpdateRow, IInv, TypeOK, Row
  <2> QED
    BY <2>2, <2>3
<1>3. \A u \in Servers \ {s} : registry'[u] = registry[u]
  BY DEF UpdateRow, IInv, TypeOK
<1> DEFINE v == [seen |-> Seen(s), name |-> n, enabled |-> e, at |-> SeenAt(s)]
<1>4. StatusView'[s] = v
  <2>1. Seen(s)' = Seen(s) /\ SeenAt(s)' = SeenAt(s)
    BY <1>1 DEF Seen, SeenAt
  <2>2. StatusView'[s] = [seen |-> Seen(s)', name |-> registry'[s].name,
                          enabled |-> registry'[s].enabled, at |-> SeenAt(s)']
    BY <1>2 DEF StatusView
  <2> QED
    BY <1>2, <2>1, <2>2
<1>5. v = [seen |-> StatusView[s].seen, name |-> n, enabled |-> e,
           at |-> StatusView[s].at] /\ StatusView[s] # [seen |-> "absent"]
  <2>1. StatusView[s] = [seen |-> Seen(s), name |-> registry[s].name,
                         enabled |-> registry[s].enabled, at |-> SeenAt(s)]
    BY <1>1 DEF StatusView
  <2> QED
    BY <2>1
<1> HIDE DEF v
<1>6. \A u \in Servers \ {s} : StatusView'[u] = StatusView[u]
  BY <1>1, <1>3, ViewKept
<1>7. StatusView' = [StatusView EXCEPT ![s] = v]
  BY <1>4, <1>6, ViewExcept
<1> QED
  BY <1>1, <1>5, <1>7 DEF Status!Edit, Status!Absent

\* The DELETE statement is where the server disappears from every answer.
LEMMA DeleteRemoves ==
  ASSUME IInv, NEW s \in Servers, DeleteRow(s)
  PROVE  Status!Remove(s)
<1>1. /\ store' = store /\ now' = now
      /\ registry' = [registry EXCEPT ![s] = Nil] /\ registry[s] # Nil
  BY DEF DeleteRow, otherVars
<1> DEFINE v == [seen |-> "absent"]
<1>2. StatusView'[s] = v
  BY <1>1 DEF StatusView, IInv, TypeOK
<1>3. StatusView[s] # v
  <2>1. StatusView[s] = [seen |-> Seen(s), name |-> registry[s].name,
                         enabled |-> registry[s].enabled, at |-> SeenAt(s)]
    BY <1>1 DEF StatusView
  <2> QED
    BY <2>1
<1>4. \A u \in Servers \ {s} : StatusView'[u] = StatusView[u]
  BY <1>1, ViewKept DEF IInv, TypeOK
<1> HIDE DEF v
<1>5. StatusView' = [StatusView EXCEPT ![s] = v]
  BY <1>2, <1>4, ViewExcept
<1> QED
  BY <1>1, <1>3, <1>5 DEF Status!Remove, Status!Absent, v

\* A sweep takes every expired server offline in one step.
LEMMA SweepExpires ==
  ASSUME IInv, SweepMark
  PROVE  \E S \in SUBSET Servers : Status!Expire(S)
<1> DEFINE S == {s \in Servers : Expired(s, sweepAt) /\ registry[s] # Nil}
<1>1. now' = now /\ registry' = registry /\ mu = "free"
  BY DEF SweepMark, dbVars
<1>2. sweepAt \in Nat /\ sweepAt <= now /\ now \in Nat /\ OfflineAfter \in Nat
  BY LiveAssumption DEF SweepMark, IInv, ClockInv, TypeOK
<1>3. ASSUME NEW s \in Servers
      PROVE  store'[s] = IF Expired(s, sweepAt)
                         THEN [store[s] EXCEPT !.online = FALSE] ELSE store[s]
  BY DEF SweepMark
<1>4. ASSUME NEW s \in S
      PROVE  /\ StatusView[s].seen = "online"
             /\ StatusView[s].at + OfflineAfter < now
             /\ StatusView'[s] = [seen |-> "offline", name |-> StatusView[s].name,
                                  enabled |-> StatusView[s].enabled,
                                  at |-> StatusView[s].at]
  <2>1. /\ store[s] \in Snapshot /\ store[s] # Nil /\ store[s].online
        /\ store[s].at + OfflineAfter < sweepAt /\ registry[s] # Nil
    BY DEF Expired, IInv, TypeOK
  <2>2. Seen(s) = "online" /\ SeenAt(s) = store[s].at
    BY <2>1 DEF Seen, SeenAt
  <2>3. StatusView[s] = [seen |-> Seen(s), name |-> registry[s].name,
                         enabled |-> registry[s].enabled, at |-> SeenAt(s)]
    BY <2>1 DEF StatusView
  <2>4. /\ store'[s] # Nil /\ ~store'[s].online /\ store'[s].at = store[s].at
    <3>1. store'[s] = [store[s] EXCEPT !.online = FALSE]
      BY <1>3
    <3>2. store'[s] \in Snapshot
      BY <3>1, <2>1 DEF Snapshot
    <3> QED
      BY <3>1, <3>2, <2>1, NilAssumption DEF Snapshot
  <2>5. Seen(s)' = "offline" /\ SeenAt(s)' = store[s].at
    BY <2>4 DEF Seen, SeenAt
  <2>6. StatusView'[s] = [seen |-> Seen(s)', name |-> registry'[s].name,
                          enabled |-> registry'[s].enabled, at |-> SeenAt(s)']
    BY <1>1, <2>1 DEF StatusView
  <2>7. store[s].at \in Nat
    BY <2>1 DEF Snapshot
  <2> QED
    BY <1>1, <1>2, <2>1, <2>2, <2>3, <2>5, <2>6, <2>7
<1>5. ASSUME NEW s \in Servers \ S
      PROVE  StatusView'[s] = StatusView[s]
  <2>1. CASE registry[s] = Nil
    BY <1>1, <2>1 DEF StatusView
  <2>2. CASE registry[s] # Nil
    BY <1>1, <1>3, <2>2, ViewKept
  <2> QED
    BY <2>1, <2>2
<1> HIDE DEF S
<1>6. S \in SUBSET Servers
  BY DEF S
<1>7. StatusView' = [s \in Servers |->
         IF s \in S THEN [seen |-> "offline", name |-> StatusView[s].name,
                          enabled |-> StatusView[s].enabled,
                          at |-> StatusView[s].at]
         ELSE StatusView[s]]
  <2>1. StatusView' = [u \in Servers |-> StatusView'[u]]
    BY DEF StatusView
  <2> QED
    BY <1>4, <1>5, <1>6, <2>1
<1> QED
  BY <1>1, <1>4, <1>6, <1>7 DEF Status!Expire

\* A restart forgets what was heard and keeps the registry.
LEMMA RestartForgets ==
  ASSUME IInv, Restart
  PROVE  Status!Forget
<1>1. now' = now /\ registry' = registry
        /\ \A s \in Servers : store'[s] = Nil
  BY DEF Restart, dbVars
<1>2. ASSUME NEW s \in Servers
      PROVE  StatusView'[s] = IF StatusView[s] = [seen |-> "absent"]
                              THEN [seen |-> "absent"]
                              ELSE [seen |-> "never", name |-> StatusView[s].name,
                                    enabled |-> StatusView[s].enabled, at |-> 0]
  <2>1. CASE registry[s] = Nil
    BY <1>1, <2>1 DEF StatusView
  <2>2. CASE registry[s] # Nil
    <3>1. StatusView[s] = [seen |-> Seen(s), name |-> registry[s].name,
                           enabled |-> registry[s].enabled, at |-> SeenAt(s)]
      BY <2>2 DEF StatusView
    <3>2. StatusView[s] # [seen |-> "absent"]
      BY <3>1
    <3>3. Seen(s)' = "never" /\ SeenAt(s)' = 0
      BY <1>1 DEF Seen, SeenAt
    <3>4. StatusView'[s] = [seen |-> Seen(s)', name |-> registry'[s].name,
                            enabled |-> registry'[s].enabled, at |-> SeenAt(s)']
      BY <1>1, <2>2 DEF StatusView
    <3> QED
      BY <1>1, <3>1, <3>2, <3>3, <3>4
  <2> QED
    BY <2>1, <2>2
<1>3. StatusView' = [u \in Servers |-> StatusView'[u]]
  BY DEF StatusView
<1> QED
  BY <1>1, <1>2, <1>3 DEF Status!Forget, Status!Absent

\* The second halves of a rename and of a delete, and everything the hub and
\* the ingest handlers do on the way, cannot be told from a status read.
LEMMA RenameStutters ==
  ASSUME IInv, RenameSnapshot
  PROVE  StatusView' = StatusView /\ now' = now
<1>1. registry' = registry /\ now' = now
  BY DEF RenameSnapshot, dbVars, otherVars
<1>2. ASSUME NEW s \in Servers
      PROVE  Seen(s)' = Seen(s) /\ SeenAt(s)' = SeenAt(s)
  <2>1. CASE s # job.server \/ store[s] = Nil
    <3>1. store'[s] = store[s]
      BY <2>1 DEF RenameSnapshot, IInv, TypeOK
    <3> QED
      BY <3>1 DEF Seen, SeenAt
  <2>2. CASE s = job.server /\ store[s] # Nil
    <3>1. store[s] \in Snapshot /\ job.name \in Names
      BY <2>2 DEF RenameSnapshot, IInv, TypeOK, LockInv
    <3>2. store'[s] = [store[s] EXCEPT !.name = job.name]
      BY <2>2 DEF RenameSnapshot, IInv, TypeOK
    <3>3. store'[s] \in Snapshot /\ store'[s].at = store[s].at
            /\ store'[s].online = store[s].online
      BY <3>1, <3>2 DEF Snapshot
    <3>4. store'[s] # Nil
      BY <3>3, NilAssumption
    <3> QED
      BY <2>2, <3>3, <3>4 DEF Seen, SeenAt
  <2> QED
    BY <2>1, <2>2
<1> QED
  BY <1>1, <1>2 DEF StatusView

LEMMA ForgetStutters ==
  ASSUME IInv, ForgetServer
  PROVE  StatusView' = StatusView /\ now' = now
<1>1. registry' = registry /\ now' = now /\ registry[job.server] = Nil
  BY DEF ForgetServer, dbVars, otherVars, IInv, LockInv
<1>2. ASSUME NEW s \in Servers, s # job.server
      PROVE  Seen(s)' = Seen(s) /\ SeenAt(s)' = SeenAt(s)
  BY <1>2 DEF ForgetServer, IInv, TypeOK, Seen, SeenAt
<1> QED
  BY <1>1, <1>2 DEF StatusView

LEMMA RotateStutters ==
  ASSUME IInv, NEW s \in Servers, RotateToken(s)
  PROVE  StatusView' = StatusView /\ now' = now
<1>1. store' = store /\ now' = now
  BY DEF RotateToken, otherVars
<1>2. PICK t \in Tokens : registry' = [registry EXCEPT ![s].token = t]
  BY DEF RotateToken
<1>3. registry[s] \in Row /\ registry[s] # Nil
  BY DEF RotateToken, IInv, TypeOK
<1>4. /\ registry'[s] # Nil
      /\ registry'[s].name = registry[s].name
      /\ registry'[s].enabled = registry[s].enabled
  <2>1. registry'[s] = [registry[s] EXCEPT !.token = t]
    BY <1>2 DEF IInv, TypeOK
  <2>2. registry'[s] \in Row
    BY <2>1, <1>3 DEF Row
  <2> QED
    BY <2>1, <2>2, <1>3, NilAssumption DEF Row
<1>5. \A u \in Servers \ {s} : registry'[u] = registry[u]
  BY <1>2 DEF IInv, TypeOK
<1> QED
  BY <1>1, <1>3, <1>4, <1>5 DEF StatusView, Seen, SeenAt

-------------------------------------------------------------------------------
\* Initially nothing is registered.
LEMMA InitMaps == Init => Status!StatusInit
BY DEF Init, Status!StatusInit, Status!Absent, StatusView

\* Every step of the system is a step of LiveStatus or invisible to it.
LEMMA NextMaps ==
  IInv /\ [Next]_vars => [Status!StatusNext]_(Status!statusVars)
<1> SUFFICES ASSUME IInv, [Next]_vars
             PROVE  Status!StatusNext \/ (StatusView' = StatusView /\ now' = now)
  BY DEF Status!statusVars
<1>1. CASE \E n \in Names : Create(n)
  BY <1>1, CreateRegisters DEF Status!StatusNext
<1>2. CASE \E s \in Servers, n \in Names, e \in BOOLEAN : UpdateRow(s, n, e)
  BY <1>2, UpdateEdits DEF Status!StatusNext
<1>3. CASE \E s \in Servers : DeleteRow(s)
  BY <1>3, DeleteRemoves DEF Status!StatusNext
<1>4. CASE AcceptUpsert
  BY <1>4, UpsertReports DEF Status!StatusNext
<1>5. CASE SweepMark
  BY <1>5, SweepExpires DEF Status!StatusNext
<1>6. CASE Restart
  BY <1>6, RestartForgets DEF Status!StatusNext
<1>7. CASE Tick
  <2>1. now' = now + 1 /\ registry' = registry /\ store' = store
    BY <1>7 DEF Tick, dbVars
  <2> QED
    BY <2>1 DEF Status!StatusNext, Status!Advance, StatusView, Seen, SeenAt
<1>8. CASE RenameSnapshot \/ ForgetServer \/ \E s \in Servers : RotateToken(s)
  BY <1>8, RenameStutters, ForgetStutters, RotateStutters
<1>9. CASE registry' = registry /\ store' = store /\ now' = now
  BY <1>9 DEF StatusView, Seen, SeenAt
<1>10. \/ \E n \in Names : Create(n)
       \/ \E s \in Servers, n \in Names, e \in BOOLEAN : UpdateRow(s, n, e)
       \/ \E s \in Servers : DeleteRow(s) \/ RotateToken(s)
       \/ AcceptUpsert \/ SweepMark \/ Restart \/ Tick
       \/ RenameSnapshot \/ ForgetServer
       \/ registry' = registry /\ store' = store /\ now' = now
  BY DEF Next, HolderStep, vars, dbVars, otherVars, FanOut, FanFull, FanEvict,
     Subscribe, Deliver, EndStream, CloseHub, IngestAuthenticate,
     IngestReceive, IngestFail, AcceptAuthenticate, AcceptFail, AcceptPublish,
     AcceptHistory, FlushBuckets, SweepTick, SweepPublish, SweepDone
<1> QED
  BY <1>1, <1>2, <1>3, <1>4, <1>5, <1>6, <1>7, <1>8, <1>9, <1>10

\* The live subsystem implements the atomic status of LiveStatus: whatever the
\* interleaving, a status read sees one handler at a time take effect.
THEOREM ImplementsStatusHolds == Spec => ImplementsStatus
BY InitMaps, NextMaps, Invariance, PTL
   DEF Spec, ImplementsStatus, Status!StatusSpec

-------------------------------------------------------------------------------
(* Overflow keeps the newest event.                                        *)

\* The last event published is the last of its server in the channel of c, or
\* the last its client heard of that server.
Served(c) ==
    LET queue == subs[c].queue
    IN  \/ \E i \in 1 .. Len(queue) :
             /\ queue[i] = pub[newest]
             /\ \A j \in i + 1 .. Len(queue) : queue[j].server # newest
        \/ /\ \A j \in 1 .. Len(queue) : queue[j].server # newest
           /\ subs[c].heard[newest] = pub[newest]

StreamInv ==
    /\ \A c \in Clients : hubClosed => subs[c].state # "open"
    /\ \A s \in Servers : pub[s] # Nil => pub[s].server = s
    /\ \A c \in Clients : subs[c].live => newest # Nil /\ pub[newest] # Nil
    /\ \A c \in Clients :
         subs[c].state = "open" /\ subs[c].live /\ c \notin fan => Served(c)

\* LatestFor is what Served says it is.
LEMMA ServedIsLatest ==
  ASSUME NEW c \in Clients, TypeOK, StreamInv, Served(c), subs[c].live
  PROVE  LatestFor(c, newest) = pub[newest]
<1> DEFINE queue == subs[c].queue
<1>1. pub[newest].server = newest
  BY DEF StreamInv, TypeOK
<1>2. queue \in Seq(Event) /\ Len(queue) \in Nat
  BY DEF TypeOK, Stream
<1>3. ASSUME NEW i \in 1 .. Len(queue), queue[i] = pub[newest],
             \A j \in i + 1 .. Len(queue) : queue[j].server # newest
      PROVE  LatestFor(c, newest) = pub[newest]
  <2>1. i \in InQueue(c, newest)
    BY <1>1, <1>3 DEF InQueue
  <2>2. \A j \in InQueue(c, newest) : j <= i
    BY <1>2, <1>3 DEF InQueue
  <2>3. \A k \in InQueue(c, newest) :
          (\A j \in InQueue(c, newest) : j <= k) => k = i
    BY <1>2, <2>1, <2>2 DEF InQueue
  <2>4. (CHOOSE k \in InQueue(c, newest) : \A j \in InQueue(c, newest) : j <= k) = i
    BY <2>1, <2>2, <2>3
  <2> QED
    BY <1>3, <2>1, <2>4 DEF LatestFor
<1>4. CASE /\ \A j \in 1 .. Len(queue) : queue[j].server # newest
           /\ subs[c].heard[newest] = pub[newest]
  <2>1. InQueue(c, newest) = {}
    BY <1>4 DEF InQueue
  <2> QED
    BY <1>4, <2>1 DEF LatestFor
<1> QED
  BY <1>3, <1>4 DEF Served

\* Publish has sent the event to c: its channel ends with it.
LEMMA SentIsServed ==
  ASSUME NEW c \in Clients, NEW rest \in Seq(Event), pub[newest] \in Event,
         subs'[c].queue = Append(rest, pub[newest]), UNCHANGED <<pub, newest>>
  PROVE  Served(c)'
<1> DEFINE n == Len(rest) + 1
<1>1. /\ Len(subs'[c].queue) = n /\ n \in 1 .. n
      /\ subs'[c].queue[n] = pub[newest]
  <2>1. Len(rest) \in Nat
    OBVIOUS
  <2> QED
    BY <2>1
<1>2. \A j \in n + 1 .. n : FALSE
  <2>1. n \in Nat
    OBVIOUS
  <2> QED
    BY <2>1
<1> HIDE DEF n
<1> QED
  BY <1>1, <1>2 DEF Served

\* A client that reads learns what its channel held.
LEMMA DeliveredIsServed ==
  ASSUME NEW c \in Clients, IInv, StreamInv, Served(c), subs[c].live, Deliver(c)
  PROVE  Served(c)'
<1> DEFINE queue == subs[c].queue
           head == Head(queue)
           heard == [subs[c].heard EXCEPT ![head.server] = head]
<1>1. /\ subs \in [Clients -> Stream] /\ subs[c] \in Stream
      /\ queue \in Seq(Event) /\ queue # <<>>
      /\ subs[c].heard \in [Servers -> Event \cup {Nil}]
  BY DEF IInv, TypeOK, Deliver, Stream
<1>2. /\ subs'[c].queue = Tail(queue) /\ subs'[c].heard = heard
      /\ UNCHANGED <<pub, newest>>
  <2>1. subs'[c] = [subs[c] EXCEPT !.queue = Tail(queue), !.heard = heard]
    BY <1>1 DEF Deliver
  <2> QED
    BY <1>1, <2>1 DEF Deliver, Stream
<1>3. /\ newest \in Servers /\ pub[newest].server = newest
      /\ head = queue[1] /\ 1 \in 1 .. Len(queue) /\ head.server \in Servers
  <2>1. newest \in Servers /\ pub[newest].server = newest
    BY DEF StreamInv, IInv, TypeOK
  <2>2. head = queue[1] /\ 1 \in 1 .. Len(queue) /\ head \in Event
    BY <1>1
  <2> QED
    BY <2>1, <2>2 DEF Event
<1>4. /\ Len(Tail(queue)) = Len(queue) - 1 /\ Len(queue) \in Nat
      /\ \A i \in 1 .. Len(Tail(queue)) : Tail(queue)[i] = queue[i + 1]
  BY <1>1
<1>5. /\ heard[head.server] = head
      /\ head.server # newest => heard[newest] = subs[c].heard[newest]
  BY <1>1, <1>3
<1> HIDE DEF queue, head, heard
<1>6. ASSUME NEW i \in 1 .. Len(queue), queue[i] = pub[newest],
             \A j \in i + 1 .. Len(queue) : queue[j].server # newest
      PROVE  Served(c)'
  <2>1. \A k \in 1 .. Len(Tail(queue)) : k + 1 \in 1 .. Len(queue)
    BY <1>4
  <2>2. CASE i = 1
    <3>1. \A k \in 1 .. Len(Tail(queue)) : k + 1 \in i + 1 .. Len(queue)
      BY <1>4, <2>2
    <3>2. \A k \in 1 .. Len(Tail(queue)) : Tail(queue)[k].server # newest
      BY <1>4, <1>6, <3>1
    <3>3. heard[newest] = pub[newest]
      BY <1>3, <1>5, <1>6, <2>2
    <3> QED
      BY <1>2, <3>2, <3>3 DEF Served
  <2>3. CASE i # 1
    <3>1. i - 1 \in 1 .. Len(Tail(queue)) /\ Tail(queue)[i - 1] = pub[newest]
      BY <1>4, <1>6, <2>3
    <3>2. \A k \in (i - 1) + 1 .. Len(Tail(queue)) :
            k \in 1 .. Len(Tail(queue)) /\ k + 1 \in i + 1 .. Len(queue)
      BY <1>4, <3>1
    <3>3. \A k \in (i - 1) + 1 .. Len(Tail(queue)) : Tail(queue)[k].server # newest
      BY <1>4, <1>6, <3>2
    <3> QED
      BY <1>2, <3>1, <3>3 DEF Served
  <2> QED
    BY <2>2, <2>3
<1>7. CASE /\ \A j \in 1 .. Len(queue) : queue[j].server # newest
           /\ subs[c].heard[newest] = pub[newest]
  <2>1. \A k \in 1 .. Len(Tail(queue)) : k + 1 \in 1 .. Len(queue)
    BY <1>4
  <2>2. \A k \in 1 .. Len(Tail(queue)) : Tail(queue)[k].server # newest
    BY <1>4, <1>7, <2>1
  <2>3. heard[newest] = pub[newest]
    BY <1>3, <1>5, <1>7
  <2> QED
    BY <1>2, <2>2, <2>3 DEF Served
<1> QED
  BY <1>6, <1>7 DEF Served, queue

\* A step that serves, reads or ends one stream.
LEMMA OneStream ==
  ASSUME NEW c \in Clients, IInv, StreamInv,
         UNCHANGED <<hubClosed, pub, newest>>,
         \A d \in Clients \ {c} : subs'[d] = subs[d],
         fan \ {c} \subseteq fan',
         subs'[c].state = "open" => ~hubClosed,
         subs'[c].live => newest # Nil /\ pub[newest] # Nil,
         subs'[c].state = "open" /\ subs'[c].live /\ c \notin fan' => Served(c)'
  PROVE  StreamInv'
<1>1. ASSUME NEW d \in Clients \ {c}
      PROVE  Served(d)' <=> Served(d)
  <2>1. subs'[d] = subs[d] /\ pub' = pub /\ newest' = newest
    OBVIOUS
  <2> QED
    BY <2>1, Zenon DEF Served
<1>2. ASSUME NEW d \in Clients
      PROVE  /\ subs'[d].state = "open" => ~hubClosed'
             /\ subs'[d].live => newest' # Nil /\ pub'[newest'] # Nil
             /\ subs'[d].state = "open" /\ subs'[d].live /\ d \notin fan' => Served(d)'
  <2>1. CASE d = c
    BY <2>1
  <2>2. CASE d # c
    <3>1. /\ subs'[d] = subs[d] /\ (d \notin fan' => d \notin fan)
          /\ Served(d)' <=> Served(d)
      BY <1>1, <2>2
    <3>2. /\ subs[d].state = "open" => ~hubClosed
          /\ subs[d].live => newest # Nil /\ pub[newest] # Nil
          /\ subs[d].state = "open" /\ subs[d].live /\ d \notin fan => Served(d)
      BY DEF StreamInv
    <3> QED
      BY <3>1, <3>2
  <2> QED
    BY <2>1, <2>2
<1> QED
  BY <1>2 DEF StreamInv

LEMMA StreamsKept ==
  ASSUME IInv, StreamInv, [Next]_vars
  PROVE  StreamInv'
<1>1. subs \in [Clients -> Stream]
  BY DEF IInv, TypeOK
<1>2. ASSUME NEW c \in Clients, FanOut(c) \/ FanEvict(c)
      PROVE  StreamInv'
  <2>1. newest # Nil /\ pub[newest] # Nil /\ pub[newest] \in Event
    <3>1. fan # {}
      BY <1>2, NilAssumption DEF FanOut, FanEvict, IInv, FanInv
    <3> QED
      BY <3>1 DEF IInv, FanInv, TypeOK
  <2>2. PICK rest \in Seq(Event) :
          subs' = [subs EXCEPT ![c].queue = Append(rest, pub[newest]), ![c].live = TRUE]
    <3>1. subs[c].queue \in Seq(Event)
      BY <1>1 DEF Stream
    <3>2. CASE FanOut(c)
      BY <3>1, <3>2 DEF FanOut
    <3>3. CASE FanEvict(c)
      <4> DEFINE q == subs[c].queue
                 rest == IF q = <<>> THEN q ELSE Tail(q)
      <4>1. rest \in Seq(Event)
        BY <3>1
      <4>2. subs' = [subs EXCEPT ![c].queue = Append(rest, pub[newest]), ![c].live = TRUE]
        BY <1>1, <3>3 DEF FanEvict
      <4> QED
        BY <4>1, <4>2
    <3> QED
      BY <1>2, <3>2, <3>3
  <2>3. /\ subs'[c].queue = Append(rest, pub[newest])
        /\ subs'[c].state = subs[c].state
        /\ \A d \in Clients \ {c} : subs'[d] = subs[d]
    BY <1>1, <2>2 DEF Stream
  <2>4. /\ UNCHANGED <<hubClosed, pub, newest>> /\ fan' = fan \ {c}
    BY <1>2 DEF FanOut, FanEvict
  <2>5. Served(c)'
    BY <2>1, <2>3, <2>4, SentIsServed
  <2> QED
    BY <2>1, <2>3, <2>4, <2>5, OneStream DEF StreamInv
<1>3. ASSUME NEW c \in Clients, Deliver(c)
      PROVE  StreamInv'
  <2>1. /\ subs'[c].state = subs[c].state /\ subs'[c].live = subs[c].live
        /\ \A d \in Clients \ {c} : subs'[d] = subs[d]
        /\ UNCHANGED <<hubClosed, pub, newest, fan>>
    <3>1. \E q, h : subs' = [subs EXCEPT ![c].queue = q, ![c].heard = h]
      BY <1>1, <1>3 DEF Deliver, Stream
    <3> QED
      BY <1>1, <1>3, <3>1 DEF Deliver, Stream
  <2>2. subs[c].state = "open" /\ subs[c].live /\ c \notin fan => Served(c)'
    BY <1>3, DeliveredIsServed DEF StreamInv
  <2> QED
    BY <2>1, <2>2, OneStream DEF StreamInv
<1>4. ASSUME NEW c \in Clients, Subscribe(c) \/ EndStream(c)
      PROVE  StreamInv'
  <2>1. /\ subs'[c].live = FALSE
        /\ subs'[c].state = "open" => ~hubClosed
        /\ \A d \in Clients \ {c} : subs'[d] = subs[d]
        /\ UNCHANGED <<hubClosed, pub, newest, fan>>
    <3>1. CASE Subscribe(c)
      BY <1>1, <3>1 DEF Subscribe, NoStream
    <3>2. CASE EndStream(c)
      BY <1>1, <3>2 DEF EndStream, NoStream
    <3> QED
      BY <1>4, <3>1, <3>2
  <2> QED
    BY <2>1, OneStream
<1>5. CASE CloseHub
  <2>1. \A c \in Clients : /\ subs'[c].state # "open"
                           /\ subs'[c].live = subs[c].live
    <3>1. SUFFICES ASSUME NEW c \in Clients
                   PROVE  subs'[c].state # "open" /\ subs'[c].live = subs[c].live
      OBVIOUS
    <3>2. subs[c] \in Stream
      BY <1>1
    <3> QED
      BY <1>5, <3>2 DEF CloseHub, Stream
  <2>2. UNCHANGED <<pub, newest>>
    BY <1>5 DEF CloseHub
  <2> QED
    BY <2>1, <2>2 DEF StreamInv
<1>6. ASSUME NEW event \in Event, StartPublish(event)
      PROVE  StreamInv'
  <2>1. /\ event # Nil /\ event.server \in Servers /\ event.server # Nil
    BY NilAssumption DEF Event
  <2>2. /\ pub' = [pub EXCEPT ![event.server] = event]
        /\ newest' = event.server /\ UNCHANGED <<hubClosed, subs>>
        /\ fan' = IF hubClosed THEN {} ELSE OpenStreams
    BY <1>6 DEF StartPublish
  <2>3. /\ pub'[event.server] = event
        /\ \A s \in Servers : s # event.server => pub'[s] = pub[s]
    BY <2>1, <2>2 DEF IInv, TypeOK
  <2>4. \A c \in Clients : subs[c].state = "open" => c \in fan'
    BY <2>2 DEF OpenStreams, StreamInv
  <2> QED
    BY <2>1, <2>2, <2>3, <2>4 DEF StreamInv
<1>7. CASE AcceptPublish
  <2> DEFINE event == [type |-> "snapshot.updated", server |-> job.server,
                       snapshot |-> store[job.server]]
  <2>1. job.server \in Servers /\ store[job.server] \in Snapshot
    BY <1>7 DEF AcceptPublish, IInv, LockInv, Accepting, TypeOK
  <2>2. event \in Event
    BY <2>1 DEF Event
  <2> QED
    BY <1>6, <1>7, <2>2 DEF AcceptPublish
<1>8. ASSUME NEW s \in Servers, SweepPublish(s)
      PROVE  StreamInv'
  <2> DEFINE event == [type |-> "snapshot.offline", server |-> s, snapshot |-> store[s]]
  <2>1. store[s] \in Snapshot
    BY <1>8 DEF SweepPublish, IInv, OfflineIsTransition, TypeOK
  <2>2. event \in Event
    BY <2>1 DEF Event
  <2> QED
    BY <1>6, <1>8, <2>2 DEF SweepPublish
<1>9. CASE Restart
  <2>1. /\ \A c \in Clients : subs'[c] = NoStream
        /\ \A s \in Servers : pub'[s] = Nil
    BY <1>9 DEF Restart
  <2> QED
    BY <2>1 DEF StreamInv, NoStream
<1>10. UNCHANGED <<hubClosed, subs, fan, pub, newest>> => StreamInv'
  BY DEF StreamInv, Served
<1> QED
  BY <1>2, <1>3, <1>4, <1>5, <1>7, <1>8, <1>9, <1>10
     DEF Next, HolderStep, vars, dbVars, hubVars, otherVars, Create, RotateToken,
         DeleteRow, FlushBuckets, UpdateRow, IngestAuthenticate, IngestReceive,
         IngestFail, AcceptAuthenticate, RenameSnapshot, ForgetServer, AcceptFail,
         AcceptUpsert, AcceptHistory, SweepDone, FanFull, SweepTick, SweepMark, Tick

\* Hub.Publish: a stream that has been served, whose client reads while Publish
\* makes room, has heard or still has in its channel the last event published
\* (hub.go:52-78).
THEOREM NewestKeptHolds == Spec => []NewestKept
<1>1. Init => StreamInv
  BY DEF Init, StreamInv, NoStream
<1>2. IInv /\ StreamInv /\ [Next]_vars => StreamInv'
  BY StreamsKept
<1>3. IInv /\ StreamInv => NewestKept
  BY ServedIsLatest DEF NewestKept, StreamInv, IInv
<1> QED
  BY <1>1, <1>2, <1>3, Invariance, PTL DEF Spec
===============================================================================
