-------------------------------- MODULE History --------------------------------
(***************************************************************************)
(* Minute history: the aggregator's buckets in memory, the background job  *)
(* that writes completed minutes to the table metric_minutes and deletes   *)
(* old ones, and the paged query behind /api/servers/{id}/history.         *)
(*                                                                         *)
(* Reports reach the aggregator under the coordinator's mutex (module      *)
(* Live), stamped with the time at which the ingest handler received them  *)
(* before it asked for the mutex; they may arrive out of order and after   *)
(* their minute is over.  The job holds the aggregator's own mutex only    *)
(* while it copies the buckets and while it settles one, never during a    *)
(* database write, so reports come in between its steps.                   *)
(*                                                                         *)
(* A report is its number and its time; a bucket and a row are the reports *)
(* they are computed from (averages and maxima are functions of that set)  *)
(* and the report that supplied the last values.                           *)
(***************************************************************************)
EXTENDS Integers, Sequences, FiniteSets, SequencesExt

CONSTANTS Servers,          \* server ids
          MinuteTicks,      \* ticks of the clock in a minute
          RetentionMinutes, \* historyRetention, in minutes
          Ranges,           \* historyDuration: ranges a query may ask for
          PageRows,         \* historyQueryPageRows
          MaxRows,          \* maxHistoryQueryRows
          MaxTime,          \* bound on the clock
          MaxReports,       \* bound on the number of reports
          Nil               \* no bucket, no row, no candidate, no server

ASSUME HistoryAssumption ==
    /\ MinuteTicks \in Nat \ {0}
    /\ RetentionMinutes \in Nat
    /\ Ranges \subseteq 0..RetentionMinutes
    /\ PageRows \in Nat \ {0}
    /\ MaxRows \in Nat \ {0} /\ RetentionMinutes < MaxRows \* 43200 and 43201
    /\ MaxTime \in Nat
    /\ MaxReports \in Nat

VARIABLES registered,  \* rows of the table servers
          deleting,    \* the server whose delete holds the mutex, or Nil
          received,    \* reports waiting for the coordinator's mutex
          count,       \* reports received so far
          buckets,     \* Aggregator.buckets: key -> bucket or Nil
          rows,        \* metric_minutes: key -> record or Nil
          job,         \* the goroutine of Jobs.Run
          query,       \* one reader of the history
          now

vars == <<registered, deleting, received, count, buckets, rows, job, query, now>>

-------------------------------------------------------------------------------
Minute(t) == t \div MinuteTicks
Minutes == 0..Minute(MaxTime)
Key     == [server: Servers, minute: Minutes]
Report  == [n: 1..MaxReports, server: Servers, at: 0..MaxTime]
Record  == [samples: SUBSET Report, last: Report]

\* first identifies the bucket (the pointer the job compares): no two buckets
\* begin with the same report.
Bucket    == [first: 1..MaxReports, revision: Nat \ {0}, record: Record]
Candidate == [key: Key, first: 1..MaxReports, revision: Nat \ {0},
              record: Record]

ASSUME NilAssumption ==
    Nil \notin Bucket \cup Candidate \cup Record \cup Servers

KeyOf(r) == [server |-> r.server, minute |-> Minute(r.at)]

JobPC == {"start", "retention", "idle", "boundary", "flushing", "settling",
          "stopped"}
\* retain is the cutoff of DeleteBefore, before the boundary of FlushBefore,
\* todo the candidates still to be written, current the one just written
\* (settling), ok whether that write succeeded, stop whether ctx is cancelled,
\* last whether this is the flush on shutdown.
Job == [pc: JobPC, retain: Int, before: Nat, todo: SUBSET Candidate,
        current: Candidate \cup {Nil}, ok: BOOLEAN, stop: BOOLEAN,
        last: BOOLEAN]
StartJob == [pc |-> "start", retain |-> 0, before |-> 0, todo |-> {},
             current |-> Nil, ok |-> FALSE, stop |-> FALSE, last |-> FALSE]

\* answer lists the minutes of the records read so far; kept the minutes that
\* had a row when the query began and have had one ever since.
NoQuery == [pc |-> "idle", server |-> Nil, from |-> 0, to |-> 0,
            answer |-> <<>>, kept |-> {}]

\* Ids are never used again, so a server may as well exist from the beginning.
Init ==
    /\ registered = Servers
    /\ deleting = Nil
    /\ received = {}
    /\ count = 0
    /\ buckets = [k \in Key |-> Nil]
    /\ rows = [k \in Key |-> Nil]
    /\ job = StartJob
    /\ query = NoQuery
    /\ now = 0

-------------------------------------------------------------------------------
(* Reports and deletes. *)

\* The ingest handler has decoded a report of s and notes the time.
Receive(s) ==
    /\ count < MaxReports
    /\ count' = count + 1
    /\ received' = received \cup {[n |-> count + 1, server |-> s, at |-> now]}
    /\ UNCHANGED <<registered, deleting, buckets, rows, job, query, now>>

\* The bucket after report r was added to it, or to a new one: the last values
\* stay with the report received last.
Added(bucket, r) ==
    IF bucket = Nil
    THEN [first |-> r.n, revision |-> 1,
          record |-> [samples |-> {r}, last |-> r]]
    ELSE [first |-> bucket.first, revision |-> bucket.revision + 1,
          record |-> [samples |-> bucket.record.samples \cup {r},
                      last |-> IF r.at < bucket.record.last.at
                               THEN bucket.record.last ELSE r]]

\* Variant: the token is not looked up again under the mutex.
AcceptUnchecked(r) ==
    /\ r \in received
    /\ deleting = Nil
    /\ received' = received \ {r}
    /\ buckets' = [buckets EXCEPT ![KeyOf(r)] = Added(@, r)]
    /\ UNCHANGED <<registered, deleting, count, rows, job, query, now>>

\* Coordinator.Accept has found the server registered and hands the report on.
Accept(r) ==
    /\ r \in received
    /\ deleting = Nil
    /\ r.server \in registered
    /\ received' = received \ {r}
    /\ buckets' = [buckets EXCEPT ![KeyOf(r)] = Added(@, r)]
    /\ UNCHANGED <<registered, deleting, count, rows, job, query, now>>

\* Coordinator.Accept refuses the report: no such server or token any more, a
\* client that has gone away, a failed statement.
Refuse(r) ==
    /\ r \in received
    /\ deleting = Nil
    /\ received' = received \ {r}
    /\ UNCHANGED <<registered, deleting, count, buckets, rows, job, query, now>>

\* The query's minutes that still have their row.
Keep(q, left) == [q EXCEPT !.kept = {m \in @ :
                     left[[server |-> q.server, minute |-> m]] # Nil}]

\* ReconcileDelete: the row of the server goes, and by the foreign key its
\* minutes with it; the mutex stays held.
DeleteRow(s) ==
    /\ deleting = Nil
    /\ s \in registered
    /\ registered' = registered \ {s}
    /\ rows' = [k \in Key |-> IF k.server = s THEN Nil ELSE rows[k]]
    /\ query' = IF query.pc = "reading" THEN Keep(query, rows') ELSE query
    /\ deleting' = s
    /\ UNCHANGED <<received, count, buckets, job, now>>

\* ReconcileDelete: Aggregator.RemoveServer, unlock.
RemoveServer ==
    /\ deleting # Nil
    /\ buckets' = [k \in Key |-> IF k.server = deleting THEN Nil ELSE buckets[k]]
    /\ deleting' = Nil
    /\ UNCHANGED <<registered, received, count, rows, job, query, now>>

-------------------------------------------------------------------------------
(* Jobs.Run: one goroutine, so no two flushes overlap and the flush gate is
   always free.                                                             *)

\* At the start and at every retention tick: compute the cutoff.
RetentionTick ==
    /\ job.pc \in {"start", "idle"}
    /\ job' = [job EXCEPT !.pc = "retention",
                          !.retain = Minute(now) - RetentionMinutes]
    /\ UNCHANGED <<registered, deleting, received, count, buckets, rows,
                   query, now>>

\* Variant: the row at the cutoff goes too.
DeleteBeforeInclusive(cutoff) ==
    [k \in Key |-> IF k.minute <= cutoff THEN Nil ELSE rows[k]]

\* DELETE FROM metric_minutes WHERE minute_unix < cutoff
DeleteBefore(cutoff) ==
    [k \in Key |-> IF k.minute < cutoff THEN Nil ELSE rows[k]]

\* runRetention: the statement succeeds, or fails and is only logged; with ctx
\* cancelled it always fails.
RunRetention ==
    /\ job.pc = "retention"
    /\ \/ ~job.stop /\ rows' = DeleteBefore(job.retain)
       \/ rows' = rows
    /\ query' = IF query.pc = "reading" THEN Keep(query, rows') ELSE query
    /\ job' = [job EXCEPT !.pc = "idle"]
    /\ UNCHANGED <<registered, deleting, received, count, buckets, now>>

\* flush: the boundary is taken before the aggregator's mutex.  With ctx
\* cancelled only the flush on shutdown is left to do.
FlushTick ==
    /\ job.pc = "idle"
    /\ job' = [job EXCEPT !.pc = "boundary", !.before = Minute(now),
                          !.last = job.stop]
    /\ UNCHANGED <<registered, deleting, received, count, buckets, rows,
                   query, now>>

\* Variant: the running minute is flushed too.
CompletedInclusive(k, boundary) == buckets[k] # Nil /\ k.minute <= boundary

Completed(k, boundary) == buckets[k] # Nil /\ k.minute < boundary

\* FlushBefore, under the aggregator's mutex: copy every completed bucket.
\* The copies are written in order of server and minute; any order here.
FlushSelect ==
    /\ job.pc = "boundary"
    /\ job' = [job EXCEPT !.pc = "flushing",
         !.todo = {[key |-> k, first |-> buckets[k].first,
                    revision |-> buckets[k].revision,
                    record |-> buckets[k].record] :
                      k \in {x \in Key : Completed(x, job.before)}}]
    /\ UNCHANGED <<registered, deleting, received, count, buckets, rows,
                   query, now>>

\* UpsertMinute succeeds: the server still exists, its context is alive, the row
\* is inserted or replaced.
WriteRow(c) ==
    /\ job.pc = "flushing"
    /\ c \in job.todo
    /\ job.stop => job.last
    /\ c.key.server \in registered
    /\ rows' = [rows EXCEPT ![c.key] = c.record]
    /\ job' = [job EXCEPT !.pc = "settling", !.todo = @ \ {c},
                          !.current = c, !.ok = TRUE]
    /\ UNCHANGED <<registered, deleting, received, count, buckets, query, now>>

\* UpsertMinute fails: the foreign key, a cancelled or timed out context, the
\* database.
WriteFails(c) ==
    /\ job.pc = "flushing"
    /\ c \in job.todo
    /\ job' = [job EXCEPT !.pc = "settling", !.todo = @ \ {c},
                          !.current = c, !.ok = FALSE]
    /\ UNCHANGED <<registered, deleting, received, count, buckets, rows,
                   query, now>>

\* Variant: a bucket that has grown meanwhile is dropped all the same.
SettledAnyway(c) ==
    /\ job.ok
    /\ buckets[c.key] # Nil
    /\ buckets[c.key].first = c.first

\* Written, and nothing has been added to the bucket since it was copied.
Settled(c) ==
    /\ job.ok
    /\ buckets[c.key] # Nil
    /\ buckets[c.key].first = c.first
    /\ buckets[c.key].revision = c.revision

\* FlushBefore, after a write, under the aggregator's mutex.
Settle ==
    /\ job.pc = "settling"
    /\ LET c == job.current IN
         buckets' = IF Settled(c) THEN [buckets EXCEPT ![c.key] = Nil]
                    ELSE buckets
    /\ job' = [job EXCEPT !.pc = "flushing", !.current = Nil, !.ok = FALSE]
    /\ UNCHANGED <<registered, deleting, received, count, rows, query, now>>

FlushDone ==
    /\ job.pc = "flushing"
    /\ job.todo = {}
    /\ job' = [job EXCEPT !.pc = IF job.last THEN "stopped" ELSE "idle"]
    /\ UNCHANGED <<registered, deleting, received, count, buckets, rows,
                   query, now>>

\* Application.Close cancels the context of the background jobs.
Stop ==
    /\ ~job.stop
    /\ job' = [job EXCEPT !.stop = TRUE]
    /\ UNCHANGED <<registered, deleting, received, count, buckets, rows,
                   query, now>>

\* The process ends, shut down or killed, and starts again on the same file.
Restart ==
    /\ deleting' = Nil
    /\ received' = {}
    /\ buckets' = [k \in Key |-> Nil]
    /\ job' = StartJob
    /\ query' = NoQuery
    /\ UNCHANGED <<registered, count, rows, now>>

-------------------------------------------------------------------------------
(* The query.  Each page is a statement of its own; rows come and go between
   two pages.                                                               *)

RowsOf(s) == {m \in Minutes : rows[[server |-> s, minute |-> m]] # Nil}

\* Handler.Get: the server exists, the range ends with the current minute.
QueryStart(s, range) ==
    /\ query.pc = "idle"
    /\ s \in registered
    /\ LET to == Minute(now)
           from == Minute(now) - range
       IN query' = [pc |-> "reading", server |-> s, from |-> from, to |-> to,
                    answer |-> <<>>, kept |-> RowsOf(s) \cap from..to]
    /\ UNCHANGED <<registered, deleting, received, count, buckets, rows, job, now>>

\* Variant: the next page skips as many rows as were read (LIMIT OFFSET).
AfterOffset(q) ==
    {m \in RowsOf(q.server) \cap q.from..q.to :
        Cardinality({x \in RowsOf(q.server) \cap q.from..q.to : x < m})
            >= Len(q.answer)}

\* Rows of the range behind the last one read.
After(q) ==
    {m \in RowsOf(q.server) \cap q.from..q.to :
        q.answer # <<>> => m > Last(q.answer)}

\* ORDER BY minute_unix: the minutes of a set, in order.
Ascending(S) ==
    CHOOSE f \in [1..Cardinality(S) -> S] :
        \A i, j \in 1..Cardinality(S) : i < j => f[i] < f[j]

\* LIMIT n: the first minutes of a set, in order.
FirstMinutes(S, n) ==
    SubSeq(Ascending(S), 1, IF n < Cardinality(S) THEN n ELSE Cardinality(S))

PageLimit(q) ==
    IF PageRows < MaxRows - Len(q.answer) THEN PageRows
    ELSE MaxRows - Len(q.answer)

QueryPage ==
    /\ query.pc = "reading"
    /\ LET limit == PageLimit(query)
           page  == FirstMinutes(After(query), limit)
           whole == query.answer \o page
       IN  query' = [query EXCEPT !.answer = whole,
             !.pc = IF Len(page) < limit \/ Len(whole) = MaxRows
                    THEN "answered" ELSE "reading"]
    /\ UNCHANGED <<registered, deleting, received, count, buckets, rows, job, now>>

\* The answer is sent, or a statement failed, or the client went away.
QueryEnd ==
    /\ query.pc # "idle"
    /\ query' = NoQuery
    /\ UNCHANGED <<registered, deleting, received, count, buckets, rows, job, now>>

-------------------------------------------------------------------------------
Tick ==
    /\ now < MaxTime
    /\ now' = now + 1
    /\ UNCHANGED <<registered, deleting, received, count, buckets, rows, job, query>>

JobStep ==
    \/ RunRetention \/ FlushTick \/ FlushSelect \/ Settle \/ FlushDone
    \/ \E c \in job.todo : WriteRow(c) \/ WriteFails(c)

Next ==
    \/ \E s \in Servers : Receive(s) \/ DeleteRow(s)
    \/ \E r \in received : Accept(r) \/ Refuse(r)
    \/ RemoveServer
    \/ RetentionTick
    \/ JobStep
    \/ Stop
    \/ Restart
    \/ \E s \in Servers, range \in Ranges : QueryStart(s, range)
    \/ QueryPage \/ QueryEnd
    \/ Tick

Spec == Init /\ [][Next]_vars

-------------------------------------------------------------------------------
TypeOK ==
    /\ registered \subseteq Servers
    /\ deleting \in Servers \cup {Nil}
    /\ received \subseteq Report
    /\ count \in 0..MaxReports
    /\ buckets \in [Key -> Bucket \cup {Nil}]
    /\ rows \in [Key -> Record \cup {Nil}]
    /\ job \in Job
    /\ job.pc = "settling" => job.current # Nil
    /\ now \in 0..MaxTime

\* A report that comes in while its minute is being written is not lost: the
\* bucket is dropped only when the row holds every report the bucket holds,
\* or the server is deleted, or the process ends (FlushBefore's revision).
DroppedWhenStored ==
    [][\A k \in Key :
          buckets[k] # Nil /\ buckets'[k] = Nil =>
            \/ rows[k] # Nil /\ rows[k].samples = buckets[k].record.samples
            \/ k.server \notin registered
            \/ Restart]_vars

\* The totals of a minute are those of the report received last in it, also
\* when reports overtake each other on the way to the mutex (Accumulator.add).
LatestTotals ==
    \A k \in Key :
        /\ buckets[k] # Nil => \A r \in buckets[k].record.samples :
                                   r.at <= buckets[k].record.last.at
        /\ rows[k] # Nil => \A r \in rows[k].samples : r.at <= rows[k].last.at

\* Only completed minutes are stored, by the flush on shutdown too: a row is
\* never the first half of a minute that goes on after a restart.
WholeMinutes == \A k \in Key : rows[k] # Nil => k.minute < Minute(now)

\* Nothing outlives its server: no row without a server, and after the delete
\* no bucket that could be written or counted again (RemoveServer).
NoOrphans ==
    \A k \in Key : k.server \notin registered =>
        /\ rows[k] = Nil
        /\ deleting # k.server => buckets[k] = Nil

\* Retention removes no row that the longest query, asked now, would show.
WindowKept ==
    [][\A k \in Key : rows[k] # Nil /\ rows'[k] = Nil =>
          \/ k.server \notin registered'
          \/ k.minute < Minute(now) - RetentionMinutes]_vars

\* A query that is read page by page while rows are written and deleted
\* answers with each minute once, in order, inside its range, and leaves out no
\* row that was there all along, not even at the row limit (Store.Query).
AnswerComplete ==
    /\ \A i, j \in 1..Len(query.answer) :
           i < j => query.answer[i] < query.answer[j]
    /\ \A i \in 1..Len(query.answer) :
           query.answer[i] \in query.from..query.to
    /\ query.pc = "answered" =>
           \A m \in query.kept : \E i \in 1..Len(query.answer) :
               query.answer[i] = m
===============================================================================
