----------------------------- MODULE HistoryProofs -----------------------------
(***************************************************************************)
(* Proofs about the minute history: types, totals, whole minutes, no row   *)
(* without its server, no report lost by a flush, the window that          *)
(* retention leaves alone, and complete answers of the paged query, for    *)
(* any retention, any page and any number of servers, reports and ticks.   *)
(***************************************************************************)
EXTENDS History, FiniteSetTheorems, WellFoundedInduction, TLAPS

\* Time goes on, and so do the minutes.
LEMMA MinuteMonotone ==
    ASSUME NEW a \in Nat, NEW b \in Nat, a <= b
    PROVE  /\ Minute(a) \in Nat /\ Minute(b) \in Nat
           /\ Minute(a) <= Minute(b)
  BY HistoryAssumption, SMT DEF Minute

-------------------------------------------------------------------------------
(* Types.                                                                  *)

\* A report belongs to a key of the table.
LEMMA KeyType ==
    ASSUME NEW r \in Report
    PROVE  KeyOf(r) \in Key
<1>1. r.at \in Nat /\ r.at <= MaxTime /\ MaxTime \in Nat
  BY HistoryAssumption DEF Report
<1>2. QED
  BY <1>1, MinuteMonotone DEF KeyOf, Key, Minutes, Report

\* A report makes a bucket of a bucket or of none.
LEMMA AddedType ==
    ASSUME NEW bucket \in Bucket \cup {Nil}, NEW r \in Report
    PROVE  Added(bucket, r) \in Bucket
  BY NilAssumption DEF Added, Bucket, Record, Report

\* The variables are well typed in the beginning.
LEMMA TypeInit == Init => TypeOK
<1> SUFFICES ASSUME Init PROVE TypeOK
  OBVIOUS
<1>1. StartJob \in Job
  BY DEF StartJob, Job, JobPC
<1>2. 0 \in 0..MaxReports /\ 0 \in 0..MaxTime
  BY HistoryAssumption
<1>3. QED
  BY <1>1, <1>2 DEF Init, TypeOK, StartJob

\* Every step keeps the variables well typed.
LEMMA TypeStep == TypeOK /\ [Next]_vars => TypeOK'
<1> SUFFICES ASSUME TypeOK, [Next]_vars PROVE TypeOK'
  OBVIOUS
<1> USE DEF TypeOK
<1>1. ASSUME NEW s \in Servers, Receive(s) PROVE TypeOK'
  <2>1. [n |-> count + 1, server |-> s, at |-> now] \in Report
    BY <1>1, HistoryAssumption DEF Receive, Report
  <2>2. QED
    BY <1>1, <2>1, HistoryAssumption DEF Receive
<1>2. ASSUME NEW s \in Servers, DeleteRow(s) PROVE TypeOK'
  BY <1>2 DEF DeleteRow
<1>3. ASSUME NEW r \in received, Accept(r) PROVE TypeOK'
  <2>1. r \in Report /\ KeyOf(r) \in Key
    BY KeyType
  <2>2. Added(buckets[KeyOf(r)], r) \in Bucket
    BY <2>1, AddedType
  <2>3. QED
    BY <1>3, <2>2 DEF Accept
<1>4. ASSUME NEW r \in received, Refuse(r) PROVE TypeOK'
  BY <1>4 DEF Refuse
<1>5. CASE RemoveServer
  BY <1>5 DEF RemoveServer
<1>6. CASE RetentionTick
  <2>1. Minute(now) \in Int /\ Minute(now) - RetentionMinutes \in Int
    BY MinuteMonotone, HistoryAssumption
  <2>2. QED
    BY <1>6, <2>1 DEF RetentionTick, Job, JobPC
<1>7. CASE RunRetention
  <2>1. rows' \in [Key -> Record \cup {Nil}]
    BY <1>7 DEF RunRetention, DeleteBefore
  <2>2. job' \in Job /\ job'.pc = "idle"
    BY <1>7 DEF RunRetention, Job, JobPC
  <2>3. QED
    BY <1>7, <2>1, <2>2 DEF RunRetention
<1>8. CASE FlushTick
  <2>1. Minute(now) \in Nat
    BY MinuteMonotone, HistoryAssumption
  <2>2. QED
    BY <1>8, <2>1 DEF FlushTick, Job, JobPC
<1>9. CASE FlushSelect
  <2> DEFINE copies == {[key |-> k, first |-> buckets[k].first,
                         revision |-> buckets[k].revision,
                         record |-> buckets[k].record] :
                           k \in {x \in Key : Completed(x, job.before)}}
  <2>1. copies \subseteq Candidate
    BY DEF Completed, Candidate, Bucket
  <2>2. job' = [job EXCEPT !.pc = "flushing", !.todo = copies]
    BY <1>9 DEF FlushSelect
  <2> HIDE DEF copies
  <2>3. job' \in Job /\ job'.pc = "flushing"
    BY <2>1, <2>2 DEF Job, JobPC
  <2>4. QED
    BY <1>9, <2>3 DEF FlushSelect
<1>10. ASSUME NEW c \in job.todo, WriteRow(c) PROVE TypeOK'
  <2>1. c \in Candidate /\ c # Nil
    BY NilAssumption DEF Job
  <2>2. rows' \in [Key -> Record \cup {Nil}]
    BY <1>10, <2>1 DEF WriteRow, Candidate
  <2>3. job' \in Job /\ job'.current # Nil
    BY <1>10, <2>1 DEF WriteRow, Job, JobPC
  <2>4. QED
    BY <1>10, <2>2, <2>3 DEF WriteRow
<1>11. ASSUME NEW c \in job.todo, WriteFails(c) PROVE TypeOK'
  <2>1. c \in Candidate /\ c # Nil
    BY NilAssumption DEF Job
  <2>2. job' \in Job /\ job'.current # Nil
    BY <1>11, <2>1 DEF WriteFails, Job, JobPC
  <2>3. QED
    BY <1>11, <2>2 DEF WriteFails
<1>12. CASE Settle
  <2>1. job' \in Job /\ job'.pc = "flushing"
    BY <1>12 DEF Settle, Job, JobPC
  <2>2. buckets' \in [Key -> Bucket \cup {Nil}]
    BY <1>12 DEF Settle
  <2>3. QED
    BY <1>12, <2>1, <2>2 DEF Settle
<1>13. CASE FlushDone
  <2>1. job' \in Job /\ job'.pc # "settling"
    BY <1>13 DEF FlushDone, Job, JobPC
  <2>2. QED
    BY <1>13, <2>1 DEF FlushDone
<1>14. CASE Stop
  <2>1. job' \in Job /\ job'.pc = job.pc /\ job'.current = job.current
    BY <1>14 DEF Stop, Job
  <2>2. QED
    BY <1>14, <2>1 DEF Stop
<1>15. CASE Restart
  <2>1. StartJob \in Job /\ StartJob.pc # "settling"
    BY DEF StartJob, Job, JobPC
  <2>2. QED
    BY <1>15, <2>1 DEF Restart
<1>16. CASE Tick
  BY <1>16, HistoryAssumption DEF Tick
<1>17. CASE UNCHANGED <<registered, deleting, received, count, buckets, rows, job, now>>
  BY <1>17
<1>18. QED
  BY <1>1, <1>2, <1>3, <1>4, <1>5, <1>6, <1>7, <1>8, <1>9, <1>10, <1>11, <1>12,
     <1>13, <1>14, <1>15, <1>16, <1>17
     DEF Next, JobStep, vars, QueryStart, QueryPage, QueryEnd

\* The variables keep their types, whatever the constants.
THEOREM TypeCorrect == Spec => []TypeOK
  BY TypeInit, TypeStep, PTL DEF Spec

-------------------------------------------------------------------------------
(* What a step does to the copies of a flush, to a bucket and to a row.    *)

\* The copies of buckets a flush still has to write or to settle.
Copies == job.todo \cup ({job.current} \ {Nil})

\* A flush holds copies only while it runs; they are of minutes before its
\* boundary, which is in the past, as is the cutoff of retention.
Boundaries ==
    /\ job.before <= Minute(now)
    /\ job.pc = "retention" => job.retain + RetentionMinutes <= Minute(now)
    /\ \A c \in Copies : c.key.minute < job.before
    /\ job.pc \notin {"flushing", "settling"} => job.todo = {}
    /\ job.pc # "settling" => job.current = Nil

CopyOf(k) == [key |-> k, first |-> buckets[k].first,
              revision |-> buckets[k].revision, record |-> buckets[k].record]

\* A write takes its copy from those to do and makes it the current one.
LEMMA WriteStep ==
    ASSUME TypeOK, NEW c \in job.todo, WriteRow(c) \/ WriteFails(c)
    PROVE  /\ job'.todo = job.todo \ {c} /\ job'.current = c
           /\ job'.before = job.before /\ job'.pc = "settling"
           /\ Copies' \subseteq Copies
<1>1. job \in Job
  BY DEF TypeOK
<1>2. CASE WriteRow(c)
  <2>1. /\ job'.todo = job.todo \ {c} /\ job'.current = c
        /\ job'.before = job.before /\ job'.pc = "settling"
    BY <1>1, <1>2 DEF WriteRow, Job
  <2>2. QED
    BY <2>1 DEF Copies
<1>3. CASE WriteFails(c)
  <2>1. /\ job'.todo = job.todo \ {c} /\ job'.current = c
        /\ job'.before = job.before /\ job'.pc = "settling"
    BY <1>1, <1>3 DEF WriteFails, Job
  <2>2. QED
    BY <2>1 DEF Copies
<1>4. QED
  BY <1>2, <1>3

\* A flush begins with copies of buckets; otherwise copies only go away.
LEMMA CopiesStep ==
    ASSUME TypeOK, Boundaries, [Next]_vars
    PROVE  \/ Copies' \subseteq Copies
           \/ /\ FlushSelect
              /\ \A c \in Copies' : \E k \in Key :
                   Completed(k, job.before) /\ c = CopyOf(k)
<1>1. ASSUME NEW c \in job.todo, WriteRow(c) \/ WriteFails(c)
      PROVE  Copies' \subseteq Copies
  BY <1>1, WriteStep
<1>2. CASE Settle
  BY <1>2 DEF Settle, Copies, TypeOK, Job
<1>3. CASE Restart
  BY <1>3 DEF Restart, StartJob, Copies
<1>4. CASE FlushSelect
  BY <1>4 DEF FlushSelect, Copies, TypeOK, Job, Boundaries, CopyOf
<1>5. CASE RetentionTick \/ RunRetention \/ FlushTick \/ FlushDone \/ Stop
  BY <1>5, ZenonT(60) DEF RetentionTick, RunRetention, FlushTick, FlushDone, Stop, Copies,
              TypeOK, Job
<1>6. CASE UNCHANGED job
  BY <1>6 DEF Copies
<1>7. QED
  BY <1>1, <1>2, <1>3, <1>4, <1>5, <1>6
     DEF Next, JobStep, vars, Receive, DeleteRow, Accept, Refuse, RemoveServer,
         QueryStart, QueryPage, QueryEnd, Tick

\* A bucket stays as it is, goes, or takes a report in.
LEMMA BucketStep ==
    ASSUME TypeOK, [Next]_vars, NEW k \in Key
    PROVE  \/ buckets'[k] = buckets[k]
           \/ buckets'[k] = Nil
           \/ \E r \in received : /\ Accept(r) /\ k = KeyOf(r)
                                  /\ buckets'[k] = Added(buckets[k], r)
<1>1. ASSUME NEW r \in received, Accept(r)
      PROVE  \/ buckets'[k] = buckets[k]
             \/ k = KeyOf(r) /\ buckets'[k] = Added(buckets[k], r)
  BY <1>1 DEF Accept, TypeOK
<1>2. CASE RemoveServer \/ Restart
  BY <1>2 DEF RemoveServer, Restart
<1>3. CASE Settle
  BY <1>3 DEF Settle, TypeOK
<1>4. CASE UNCHANGED buckets
  BY <1>4
<1>5. QED
  BY <1>1, <1>2, <1>3, <1>4
     DEF Next, JobStep, vars, Receive, DeleteRow, Refuse, RetentionTick,
         RunRetention, FlushTick, FlushSelect, WriteRow, WriteFails, FlushDone,
         Stop, QueryStart, QueryPage, QueryEnd, Tick

\* A row stays as it is, goes with its server or by retention, or is written.
LEMMA RowStep ==
    ASSUME TypeOK, [Next]_vars, NEW k \in Key
    PROVE  \/ rows'[k] = rows[k]
           \/ rows'[k] = Nil /\ DeleteRow(k.server)
           \/ rows'[k] = Nil /\ RunRetention /\ k.minute < job.retain
           \/ \E c \in job.todo : WriteRow(c) /\ c.key = k /\ rows'[k] = c.record
<1>1. ASSUME NEW c \in job.todo, WriteRow(c)
      PROVE  \/ rows'[k] = rows[k]
             \/ c.key = k /\ rows'[k] = c.record
  BY <1>1 DEF WriteRow, TypeOK
<1>2. ASSUME NEW s \in Servers, DeleteRow(s)
      PROVE  \/ rows'[k] = rows[k]
             \/ rows'[k] = Nil /\ s = k.server
  BY <1>2 DEF DeleteRow
<1>3. CASE RunRetention
  BY <1>3 DEF RunRetention, DeleteBefore
<1>4. CASE UNCHANGED rows
  BY <1>4
<1>5. QED
  BY <1>1, <1>2, <1>3, <1>4
     DEF Next, JobStep, vars, Receive, Accept, Refuse, RemoveServer, RetentionTick,
         FlushTick, FlushSelect, WriteFails, Settle, FlushDone, Stop, Restart,
         QueryStart, QueryPage, QueryEnd, Tick

-------------------------------------------------------------------------------
(* Boundaries.                                                             *)

\* Every step keeps the copies behind the boundary and the boundary in the past.
LEMMA BoundariesStep ==
    ASSUME TypeOK, TypeOK', Boundaries, [Next]_vars
    PROVE  Boundaries'
<1> DEFINE m == Minute(now)
           m2 == Minute(now)'
<1>1. m \in Nat /\ m2 \in Nat /\ m <= m2
  <2>1. now \in Nat /\ now' \in Nat
    BY HistoryAssumption DEF TypeOK
  <2>2. now' = now \/ now' = now + 1
    BY DEF Next, JobStep, vars, Receive, Accept, Refuse, DeleteRow, RemoveServer,
         RetentionTick, RunRetention, FlushTick, FlushSelect, WriteRow, WriteFails,
         Settle, FlushDone, Stop, Restart, QueryStart, QueryPage, QueryEnd, Tick
  <2>3. Minute(now)' = Minute(now')
    BY DEF Minute
  <2>4. QED
    BY <2>1, <2>2, <2>3, MinuteMonotone DEF m, m2
<1>2. job \in Job /\ job' \in Job /\ RetentionMinutes \in Nat
  BY HistoryAssumption DEF TypeOK
<1> HIDE DEF m, m2
<1>3. CASE RetentionTick
  <2>1. job' = [job EXCEPT !.pc = "retention", !.retain = m - RetentionMinutes]
    BY <1>3 DEF RetentionTick, m
  <2>2. job'.retain + RetentionMinutes <= m2
    BY <1>1, <1>2, <2>1 DEF Job
  <2>3. QED
    BY <1>1, <1>2, <1>3, <2>1, <2>2 DEF RetentionTick, Boundaries, Copies, Job, m, m2
<1>4. CASE FlushTick
  <2>1. job' = [job EXCEPT !.pc = "boundary", !.before = m, !.last = job.stop]
    BY <1>4 DEF FlushTick, m
  <2>2. Copies' = {}
    BY <1>2, <1>4, <2>1 DEF FlushTick, Boundaries, Copies, Job
  <2>3. QED
    BY <1>1, <1>2, <1>4, <2>1, <2>2 DEF FlushTick, Boundaries, Job, m, m2
<1>5. CASE FlushSelect
  <2>1. \A c \in Copies' : c.key.minute < job.before
    BY <1>5, CopiesStep DEF Completed, CopyOf, Boundaries
  <2>2. /\ job'.before = job.before /\ job'.pc = "flushing"
        /\ job'.current = job.current
    BY <1>2, <1>5 DEF FlushSelect, Job
  <2>3. job.current = Nil
    BY <1>5 DEF FlushSelect, Boundaries
  <2>4. QED
    BY <1>1, <1>2, <2>1, <2>2, <2>3 DEF Boundaries, Job, m, m2
<1>6. ASSUME NEW c \in job.todo, WriteRow(c) \/ WriteFails(c) PROVE Boundaries'
  <2>1. Copies' \subseteq Copies
    BY <1>6, WriteStep
  <2>2. job'.before = job.before /\ job'.pc = "settling"
    BY <1>6, WriteStep
  <2>3. QED
    BY <1>1, <1>2, <2>1, <2>2 DEF Boundaries, Job, m, m2
<1>7. CASE Settle
  <2>1. Copies' \subseteq Copies
    BY <1>7 DEF Settle, Copies, TypeOK, Job
  <2>2. job'.before = job.before /\ job'.pc = "flushing" /\ job'.current = Nil
    BY <1>2, <1>7 DEF Settle, Job
  <2>3. QED
    BY <1>1, <1>2, <2>1, <2>2 DEF Boundaries, Job, m, m2
<1>8. CASE RunRetention \/ FlushDone
  <2>1. Copies' = {} /\ job'.todo = {} /\ job'.current = Nil
    BY <1>2, <1>8 DEF RunRetention, FlushDone, Boundaries, Copies, Job
  <2>2. job'.before = job.before /\ job'.pc # "retention"
    BY <1>2, <1>8 DEF RunRetention, FlushDone, Job
  <2>3. QED
    BY <1>1, <1>2, <2>1, <2>2 DEF Boundaries, Job, m, m2
<1>9. CASE Stop
  <2>1. /\ job'.pc = job.pc /\ job'.before = job.before /\ job'.retain = job.retain
        /\ job'.todo = job.todo /\ job'.current = job.current
    BY <1>2, <1>9 DEF Stop, Job
  <2>2. Copies' = Copies
    BY <2>1 DEF Copies
  <2>3. QED
    BY <1>1, <1>2, <2>1, <2>2 DEF Boundaries, Job, m, m2
<1>10. CASE Restart
  BY <1>1, <1>10 DEF Restart, StartJob, Boundaries, Copies, m2
<1>11. CASE UNCHANGED job
  <2>1. Copies' = Copies
    BY <1>11 DEF Copies
  <2>2. QED
    BY <1>1, <1>2, <1>11, <2>1 DEF Boundaries, Job, m, m2
<1>12. QED
  BY <1>3, <1>4, <1>5, <1>6, <1>7, <1>8, <1>9, <1>10, <1>11
     DEF Next, JobStep, vars, Receive, DeleteRow, Accept, Refuse, RemoveServer,
         QueryStart, QueryPage, QueryEnd, Tick

-------------------------------------------------------------------------------
(* A flush loses no report.                                                *)

\* No two reports in flight, and no report in flight and a bucket or a copy
\* begun with another, have the same number.
Numbered ==
    /\ \A r \in received : r.n <= count
    /\ \A r1, r2 \in received : r1.n = r2.n => r1 = r2
    /\ \A k \in Key : buckets[k] # Nil =>
          buckets[k].first <= count /\ \A r \in received : r.n # buckets[k].first
    /\ \A c \in Copies :
          c.first <= count /\ \A r \in received : r.n # c.first

\* A bucket that a copy was made of is ahead of the copy or equal to it.
Copied ==
    \A c \in Copies :
        buckets[c.key] # Nil /\ buckets[c.key].first = c.first =>
            /\ c.revision <= buckets[c.key].revision
            /\ c.revision = buckets[c.key].revision => c.record = buckets[c.key].record

\* What was written is in the table, or its server is gone.
Written ==
    job.pc = "settling" /\ job.ok =>
        \/ rows[job.current.key] = job.current.record
        \/ job.current.key.server \notin registered

\* Copies are candidates, and their keys are keys.
LEMMA CopiesType ==
    ASSUME TypeOK, NEW c \in Copies
    PROVE  c \in Candidate /\ c.key \in Key
  BY DEF TypeOK, Job, Copies, Candidate

\* Reports in flight only get fewer, but for one with a new number.
LEMMA ReceivedStep ==
    ASSUME TypeOK, [Next]_vars
    PROVE  \/ received' \subseteq received /\ count' = count
           \/ \E r : /\ received' = received \cup {r} /\ count' = count + 1
                     /\ r.n = count + 1 /\ buckets' = buckets
<1>1. ASSUME NEW s \in Servers, Receive(s)
      PROVE  \E r : /\ received' = received \cup {r} /\ count' = count + 1
                    /\ r.n = count + 1 /\ buckets' = buckets
  BY <1>1 DEF Receive
<1>2. ASSUME ~ \E s \in Servers : Receive(s)
      PROVE  received' \subseteq received /\ count' = count
  BY <1>2 DEF Next, JobStep, vars, Accept, Refuse, DeleteRow, RemoveServer,
       RetentionTick, RunRetention, FlushTick, FlushSelect, WriteRow, WriteFails,
       Settle, FlushDone, Stop, Restart, QueryStart, QueryPage, QueryEnd, Tick
<1>3. QED
  BY <1>1, <1>2

\* Every step keeps the numbers of reports, buckets and copies apart.
LEMMA NumberedStep ==
    ASSUME TypeOK, TypeOK', Boundaries, Numbered, [Next]_vars
    PROVE  Numbered'
<1> USE DEF Numbered
<1>1. count \in Nat /\ count' \in Nat
  BY HistoryAssumption DEF TypeOK
<1>2. \A r \in received : r \in Report /\ r.n \in Nat
  BY HistoryAssumption DEF TypeOK, Report
<1>3. \A k \in Key : buckets[k] # Nil => buckets[k].first \in Nat
  BY DEF TypeOK, Bucket
<1>4. \A c \in Copies : c.first \in Nat
  BY CopiesType DEF Candidate
<1>5. \A r \in received' : r.n <= count'
  BY <1>1, <1>2, ReceivedStep
<1>6. \A r1, r2 \in received' : r1.n = r2.n => r1 = r2
  BY <1>1, <1>2, ReceivedStep
<1>7. ASSUME NEW k \in Key, buckets'[k] # Nil
      PROVE  /\ buckets'[k].first <= count'
             /\ \A r \in received' : r.n # buckets'[k].first
  <2>1. CASE buckets'[k] = buckets[k]
    BY <1>1, <1>2, <1>3, <1>7, <2>1, ReceivedStep
  <2>2. ASSUME NEW r \in received, Accept(r), buckets'[k] = Added(buckets[k], r)
        PROVE  /\ buckets'[k].first <= count'
               /\ \A q \in received' : q.n # buckets'[k].first
    <3>1. received' = received \ {r} /\ count' = count
      BY <2>2 DEF Accept
    <3>2. CASE buckets[k] = Nil
      <4>1. buckets'[k].first = r.n
        BY <2>2, <3>2 DEF Added
      <4>2. QED
        BY <1>2, <3>1, <4>1
    <3>3. CASE buckets[k] # Nil
      <4>1. buckets'[k].first = buckets[k].first
        BY <2>2, <3>3 DEF Added
      <4>2. QED
        BY <1>3, <3>1, <3>3, <4>1
    <3>4. QED
      BY <3>2, <3>3
  <2>3. QED
    BY <1>7, <2>1, <2>2, BucketStep
<1>8. ASSUME NEW c \in Copies'
      PROVE  c.first <= count' /\ \A r \in received' : r.n # c.first
  <2>1. CASE c \in Copies
    BY <1>1, <1>2, <1>4, <2>1, ReceivedStep
  <2>2. ASSUME FlushSelect, NEW k \in Key, Completed(k, job.before), c = CopyOf(k)
        PROVE  c.first <= count' /\ \A r \in received' : r.n # c.first
    <3>1. buckets[k] # Nil /\ c.first = buckets[k].first
      BY <2>2 DEF Completed, CopyOf
    <3>2. received' = received /\ count' = count
      BY <2>2 DEF FlushSelect
    <3>3. QED
      BY <3>1, <3>2
  <2>3. QED
    BY <2>1, <2>2, CopiesStep
<1>9. QED
  BY <1>5, <1>6, <1>7, <1>8

\* A bucket that is ahead of its copy stays ahead of it.
LEMMA CopiedStep ==
    ASSUME TypeOK, Boundaries, Numbered, Copied, [Next]_vars
    PROVE  Copied'
<1> SUFFICES ASSUME NEW c \in Copies', buckets'[c.key] # Nil,
                    buckets'[c.key].first = c.first
             PROVE  /\ c.revision <= buckets'[c.key].revision
                    /\ c.revision = buckets'[c.key].revision =>
                         c.record = buckets'[c.key].record
  BY DEF Copied
<1>1. ASSUME FlushSelect, NEW k \in Key, Completed(k, job.before), c = CopyOf(k)
      PROVE  /\ c.revision <= buckets'[c.key].revision
             /\ c.revision = buckets'[c.key].revision =>
                  c.record = buckets'[c.key].record
  <2>1. buckets' = buckets /\ buckets[k] \in Bucket
    BY <1>1 DEF FlushSelect, Completed, TypeOK
  <2>2. c.key = k /\ c.revision = buckets[k].revision /\ c.record = buckets[k].record
    BY <1>1 DEF CopyOf
  <2>3. buckets[k].revision <= buckets[k].revision
    BY <2>1 DEF Bucket
  <2>4. QED
    BY <2>1, <2>2, <2>3
<1>2. ASSUME c \in Copies
      PROVE  /\ c.revision <= buckets'[c.key].revision
             /\ c.revision = buckets'[c.key].revision =>
                  c.record = buckets'[c.key].record
  <2>1. c \in Candidate /\ c.key \in Key
    BY <1>2, CopiesType
  <2>2. CASE buckets'[c.key] = buckets[c.key]
    BY <1>2, <2>2 DEF Copied
  <2>3. ASSUME NEW r \in received, buckets'[c.key] = Added(buckets[c.key], r)
        PROVE  /\ c.revision <= buckets'[c.key].revision
               /\ c.revision = buckets'[c.key].revision =>
                    c.record = buckets'[c.key].record
    <3>1. CASE buckets[c.key] = Nil
      <4>1. buckets'[c.key].first = r.n
        BY <2>3, <3>1 DEF Added
      <4>2. QED
        BY <1>2, <4>1 DEF Numbered
    <3>2. CASE buckets[c.key] # Nil
      <4>1. /\ buckets'[c.key].first = buckets[c.key].first
            /\ buckets'[c.key].revision = buckets[c.key].revision + 1
        BY <2>3, <3>2 DEF Added
      <4>2. c.revision \in Nat /\ buckets[c.key].revision \in Nat
        BY <2>1, <3>2 DEF TypeOK, Bucket, Candidate
      <4>3. c.revision <= buckets[c.key].revision
        BY <1>2, <3>2, <4>1 DEF Copied
      <4>4. QED
        BY <4>1, <4>2, <4>3
    <3>3. QED
      BY <3>1, <3>2
  <2>4. QED
    BY <2>1, <2>2, <2>3, BucketStep
<1>3. QED
  BY <1>1, <1>2, CopiesStep

\* What was written stays written until the flush settles it.
LEMMA WrittenStep ==
    ASSUME TypeOK, Boundaries, Written, [Next]_vars
    PROVE  Written'
<1>1. ASSUME NEW c \in job.todo, WriteRow(c) PROVE Written'
  <2>1. job'.current = c /\ c.key \in Key
    BY <1>1, WriteStep, CopiesType DEF Copies
  <2>2. rows'[c.key] = c.record
    BY <1>1, <2>1 DEF WriteRow, TypeOK
  <2>3. QED
    BY <2>1, <2>2 DEF Written
<1>2. ASSUME NEW c \in job.todo, WriteFails(c) PROVE Written'
  BY <1>2 DEF WriteFails, Written, TypeOK, Job
<1>3. ASSUME NEW s \in Servers, DeleteRow(s), job.pc = "settling" PROVE Written'
  <2>1. job' = job /\ job.current \in Copies
    BY <1>3 DEF DeleteRow, Copies, TypeOK
  <2>2. job.current.key \in Key
    BY <2>1, CopiesType
  <2>3. /\ registered' = registered \ {s}
        /\ rows'[job.current.key] = IF job.current.key.server = s THEN Nil
                                    ELSE rows[job.current.key]
    BY <1>3, <2>2 DEF DeleteRow
  <2>4. CASE job.current.key.server = s
    BY <2>1, <2>3, <2>4 DEF Written
  <2>5. CASE job.current.key.server # s
    <3>1. rows'[job'.current.key] = rows[job.current.key]
      BY <2>1, <2>3, <2>5
    <3>2. job'.current = job.current /\ job'.ok = job.ok
      BY <2>1
    <3>3. CASE job.ok
      <4>1. \/ rows[job.current.key] = job.current.record
            \/ job.current.key.server \notin registered
        BY <1>3, <3>3 DEF Written
      <4>2. \/ rows'[job'.current.key] = job'.current.record
            \/ job'.current.key.server \notin registered'
        BY <2>3, <3>1, <3>2, <4>1
      <4>3. QED
        BY <4>2 DEF Written
    <3>4. CASE ~job.ok
      BY <3>2, <3>4 DEF Written
    <3>5. QED
      BY <3>3, <3>4
  <2>6. QED
    BY <2>4, <2>5
<1>4. CASE Stop
  BY <1>4 DEF Stop, Written, TypeOK, Job
<1>5. CASE job'.pc # "settling"
  BY <1>5 DEF Written
<1>6. CASE UNCHANGED <<job, rows, registered>>
  BY <1>6 DEF Written
<1>7. CASE RetentionTick \/ RunRetention \/ FlushTick \/ FlushSelect \/ Settle \/ FlushDone \/ Restart
  <2>1. job \in Job
    BY DEF TypeOK
  <2>2. CASE RetentionTick \/ FlushTick \/ FlushSelect
    BY <1>5, <2>1, <2>2 DEF RetentionTick, FlushTick, FlushSelect, Job
  <2>3. CASE RunRetention \/ Settle \/ FlushDone
    BY <1>5, <2>1, <2>3 DEF RunRetention, Settle, FlushDone, Job
  <2>4. CASE Restart
    BY <1>5, <2>4 DEF Restart, StartJob
  <2>5. QED
    BY <1>7, <2>2, <2>3, <2>4
<1>8. ASSUME NEW s \in Servers, DeleteRow(s) PROVE Written'
  BY <1>3, <1>5, <1>8 DEF DeleteRow
<1>9. QED
  BY <1>1, <1>2, <1>4, <1>6, <1>7, <1>8
     DEF Next, JobStep, vars, Receive, Accept, Refuse, RemoveServer, QueryStart,
         QueryPage, QueryEnd, Tick

-------------------------------------------------------------------------------
(* Totals, whole minutes, no orphans.                                      *)

\* The last values of a record are those of the report received last.
Latest(record) ==
    \A r \in record.samples : r.at <= record.last.at

CopiesLatest == \A c \in Copies : Latest(c.record)

\* A report that is added keeps the last values those of the latest.
LEMMA AddedLatest ==
    ASSUME NEW bucket \in Bucket \cup {Nil}, NEW r \in Report,
           bucket # Nil => Latest(bucket.record)
    PROVE  Latest(Added(bucket, r).record)
<1>1. r.at \in Nat
  BY HistoryAssumption DEF Report
<1>2. CASE bucket = Nil
  BY <1>1, <1>2 DEF Added, Latest
<1>3. CASE bucket # Nil
  <2>1. /\ bucket.record.last.at \in Nat
        /\ \A x \in bucket.record.samples : x.at \in Nat /\ x.at <= bucket.record.last.at
    BY <1>3, HistoryAssumption DEF Bucket, Record, Report, Latest
  <2>2. Added(bucket, r).record =
          [samples |-> bucket.record.samples \cup {r},
           last |-> IF r.at < bucket.record.last.at THEN bucket.record.last ELSE r]
    BY <1>3 DEF Added
  <2>3. QED
    BY <1>1, <2>1, <2>2 DEF Latest
<1>4. QED
  BY <1>2, <1>3

\* Every step keeps the totals of a minute those of its latest report.
LEMMA LatestStep ==
    ASSUME TypeOK, Boundaries, LatestTotals, CopiesLatest, [Next]_vars
    PROVE  LatestTotals' /\ CopiesLatest'
<1>1. ASSUME NEW k \in Key, buckets'[k] # Nil PROVE Latest(buckets'[k].record)
  <2>1. buckets[k] \in Bucket \cup {Nil} /\ received \subseteq Report
    BY DEF TypeOK
  <2>2. buckets[k] # Nil => Latest(buckets[k].record)
    BY DEF LatestTotals, Latest
  <2>3. QED
    BY <1>1, <2>1, <2>2, BucketStep, AddedLatest
<1>2. ASSUME NEW c \in Copies' PROVE Latest(c.record)
  <2>1. ASSUME NEW k \in Key, Completed(k, job.before), c = CopyOf(k)
        PROVE  Latest(c.record)
    BY <2>1 DEF Completed, CopyOf, LatestTotals, Latest
  <2>2. QED
    BY <1>2, <2>1, CopiesStep DEF CopiesLatest
<1>3. ASSUME NEW k \in Key, rows'[k] # Nil PROVE Latest(rows'[k])
  <2>1. CASE rows'[k] = rows[k]
    BY <1>3, <2>1 DEF LatestTotals, Latest
  <2>2. ASSUME NEW c \in job.todo, rows'[k] = c.record PROVE Latest(rows'[k])
    BY <2>2 DEF CopiesLatest, Copies
  <2>3. QED
    BY <1>3, <2>1, <2>2, RowStep
<1>4. LatestTotals'
  BY <1>1, <1>3 DEF LatestTotals, Latest
<1>5. CopiesLatest'
  BY <1>2 DEF CopiesLatest, Latest
<1>6. QED
  BY <1>4, <1>5

\* No step stores a minute that is not over.
LEMMA WholeMinutesStep ==
    ASSUME TypeOK, TypeOK', Boundaries, WholeMinutes, [Next]_vars
    PROVE  WholeMinutes'
<1> DEFINE m == Minute(now)
           m2 == Minute(now)'
<1>1. m \in Nat /\ m2 \in Nat /\ m <= m2
  <2>1. now \in Nat /\ now' \in Nat
    BY HistoryAssumption DEF TypeOK
  <2>2. now' = now \/ now' = now + 1
    BY DEF Next, JobStep, vars, Receive, Accept, Refuse, DeleteRow, RemoveServer,
         RetentionTick, RunRetention, FlushTick, FlushSelect, WriteRow, WriteFails,
         Settle, FlushDone, Stop, Restart, QueryStart, QueryPage, QueryEnd, Tick
  <2>3. QED
    BY <2>1, <2>2, MinuteMonotone DEF Minute
<1>2. job.before \in Nat /\ job.before <= m
  BY DEF TypeOK, Job, Boundaries
<1>3. \A k \in Key : k.minute \in Nat
  <2>1. Minute(MaxTime) \in Nat
    BY HistoryAssumption, MinuteMonotone
  <2>2. QED
    BY <2>1 DEF Key, Minutes
<1>4. \A k \in Key : rows[k] # Nil => k.minute < m
  BY DEF WholeMinutes
<1> HIDE DEF m, m2
<1>5. ASSUME NEW k \in Key, rows'[k] # Nil PROVE k.minute < m2
  <2>1. CASE rows'[k] = rows[k]
    BY <1>1, <1>3, <1>4, <1>5, <2>1
  <2>2. ASSUME NEW c \in job.todo, c.key = k PROVE k.minute < m2
    <3>1. k.minute < job.before
      BY <2>2 DEF Boundaries, Copies
    <3>2. QED
      BY <1>1, <1>2, <1>3, <3>1
  <2>3. QED
    BY <1>5, <2>1, <2>2, RowStep
<1>6. QED
  BY <1>5 DEF WholeMinutes, m2

\* No step leaves a row or a bucket behind a deleted server.
LEMMA NoOrphansStep ==
    ASSUME TypeOK, NoOrphans, [Next]_vars
    PROVE  NoOrphans'
<1>1. ASSUME NEW s \in Servers, DeleteRow(s) PROVE NoOrphans'
  <2>1. s \in registered /\ registered' = registered \ {s} /\ deleting = Nil
    BY <1>1 DEF DeleteRow
  <2>2. deleting' = s /\ buckets' = buckets
    BY <1>1 DEF DeleteRow
  <2>3. \A k \in Key : rows'[k] = IF k.server = s THEN Nil ELSE rows[k]
    BY <1>1 DEF DeleteRow
  <2>4. \A k \in Key : k.server \in Servers /\ k.server # Nil
    BY NilAssumption DEF Key
  <2>5. QED
    BY <2>1, <2>2, <2>3, <2>4 DEF NoOrphans
<1>2. CASE RemoveServer
  BY <1>2 DEF RemoveServer, NoOrphans, TypeOK
<1>3. CASE Restart
  BY <1>3 DEF Restart, NoOrphans, TypeOK
<1>4. ASSUME NEW r \in received, Accept(r) PROVE NoOrphans'
  <2>1. KeyOf(r).server \in registered /\ KeyOf(r) \in Key
    BY <1>4, KeyType DEF Accept, KeyOf, TypeOK
  <2>2. QED
    BY <1>4, <2>1 DEF Accept, NoOrphans, TypeOK
<1>5. ASSUME NEW c \in job.todo, WriteRow(c) PROVE NoOrphans'
  BY <1>5 DEF WriteRow, NoOrphans, TypeOK
<1>6. CASE RunRetention
  BY <1>6 DEF RunRetention, DeleteBefore, NoOrphans, TypeOK
<1>7. CASE Settle
  BY <1>7 DEF Settle, NoOrphans, TypeOK
<1>8. CASE UNCHANGED <<registered, deleting, buckets, rows>>
  BY <1>8 DEF NoOrphans
<1>9. QED
  BY <1>1, <1>2, <1>3, <1>4, <1>5, <1>6, <1>7, <1>8
     DEF Next, JobStep, vars, Receive, Refuse, RetentionTick, FlushTick, FlushSelect,
         WriteFails, FlushDone, Stop, QueryStart, QueryPage, QueryEnd, Tick

\* The server whose delete holds the mutex has lost its row.
DeletingGone == deleting # Nil => deleting \notin registered

\* The mutex stays with a delete only after its row has gone.
LEMMA DeletingGoneStep ==
    ASSUME TypeOK, DeletingGone, [Next]_vars
    PROVE  DeletingGone'
<1>1. ASSUME NEW s \in Servers, DeleteRow(s) PROVE DeletingGone'
  BY <1>1 DEF DeleteRow, DeletingGone
<1>2. CASE RemoveServer \/ Restart
  BY <1>2 DEF RemoveServer, Restart, DeletingGone
<1>3. CASE UNCHANGED <<registered, deleting>>
  BY <1>3 DEF DeletingGone
<1>4. QED
  BY <1>1, <1>2, <1>3
     DEF Next, JobStep, vars, Receive, Accept, Refuse, RetentionTick, RunRetention,
         FlushTick, FlushSelect, WriteRow, WriteFails, Settle, FlushDone, Stop,
         QueryStart, QueryPage, QueryEnd, Tick

-------------------------------------------------------------------------------
(* Theorems.                                                               *)

IInv == /\ TypeOK /\ Boundaries /\ Numbered /\ Copied /\ Written
        /\ LatestTotals /\ CopiesLatest /\ WholeMinutes /\ NoOrphans
        /\ DeletingGone

\* The invariant holds in the beginning.
LEMMA InvInit == Init => IInv
<1> SUFFICES ASSUME Init PROVE IInv
  OBVIOUS
<1>1. TypeOK
  BY TypeInit
<1>2. Minute(0) \in Nat
  BY MinuteMonotone
<1>3. Copies = {} /\ job.pc = "start"
  BY DEF Init, StartJob, Copies
<1>4. Boundaries
  BY <1>2, <1>3 DEF Init, StartJob, Boundaries
<1>5. Numbered /\ Copied /\ Written /\ CopiesLatest
  BY <1>3 DEF Init, Numbered, Copied, Written, CopiesLatest
<1>6. LatestTotals /\ WholeMinutes
  BY DEF Init, LatestTotals, WholeMinutes
<1>7. NoOrphans /\ DeletingGone
  BY DEF Init, NoOrphans, DeletingGone, Key
<1>8. QED
  BY <1>1, <1>4, <1>5, <1>6, <1>7 DEF IInv

\* Every step keeps the invariant.
LEMMA InvStep == IInv /\ [Next]_vars => IInv'
<1> SUFFICES ASSUME IInv, [Next]_vars PROVE IInv'
  OBVIOUS
<1>1. TypeOK'
  BY TypeStep DEF IInv
<1>2. QED
  BY <1>1, BoundariesStep, NumberedStep, CopiedStep, WrittenStep, LatestStep,
     WholeMinutesStep, NoOrphansStep, DeletingGoneStep DEF IInv

\* The inductive invariant holds.
THEOREM Invariant == Spec => []IInv
  BY InvInit, InvStep, PTL DEF Spec

\* The totals of a minute are those of the report received last in it.
THEOREM LatestTotalsHolds == Spec => []LatestTotals
  BY Invariant, PTL DEF IInv

\* Only completed minutes are stored.
THEOREM WholeMinutesHolds == Spec => []WholeMinutes
  BY Invariant, PTL DEF IInv

\* Nothing outlives its server.
THEOREM NoOrphansHolds == Spec => []NoOrphans
  BY Invariant, PTL DEF IInv

\* A report that comes in while its minute is written is not lost.
THEOREM DroppedWhenStoredHolds == Spec => DroppedWhenStored
<1>1. ASSUME IInv, [Next]_vars, NEW k \in Key, buckets[k] # Nil, buckets'[k] = Nil
      PROVE  \/ rows[k] # Nil /\ rows[k].samples = buckets[k].record.samples
             \/ k.server \notin registered
             \/ Restart
  <2>1. CASE RemoveServer
    <3>1. k.server = deleting /\ deleting # Nil
      BY <1>1, <2>1 DEF RemoveServer
    <3>2. QED
      BY <1>1, <3>1 DEF IInv, DeletingGone
  <2>2. CASE Settle
    <3> DEFINE c == job.current
    <3>1. job.pc = "settling" /\ c # Nil /\ c \in Copies
      BY <1>1, <2>2 DEF Settle, IInv, TypeOK, Copies
    <3>2. c \in Candidate /\ c.key \in Key
      BY <1>1, <3>1, CopiesType DEF IInv
    <3>3. buckets' = IF Settled(c) THEN [buckets EXCEPT ![c.key] = Nil] ELSE buckets
      BY <2>2 DEF Settle
    <3> HIDE DEF c
    <3>4. Settled(c) /\ c.key = k
      BY <1>1, <3>2, <3>3 DEF IInv, TypeOK
    <3>5. buckets[k].first = c.first /\ buckets[k].revision = c.revision /\ job.ok
      BY <3>4 DEF Settled
    <3>6. c.record = buckets[k].record
      BY <1>1, <3>1, <3>4, <3>5 DEF IInv, Copied
    <3>7. c.record \in Record /\ c.record # Nil
      BY <3>2, NilAssumption DEF Candidate
    <3>8. rows[k] = c.record \/ k.server \notin registered
      BY <1>1, <3>1, <3>4, <3>5 DEF IInv, Written, c
    <3>9. QED
      BY <3>6, <3>7, <3>8
  <2>3. ASSUME NEW r \in received, Accept(r) PROVE FALSE
    <3>1. r \in Report /\ KeyOf(r) \in Key
      BY <1>1, KeyType DEF IInv, TypeOK
    <3>2. Added(buckets[KeyOf(r)], r) # Nil
      BY <1>1, <3>1, AddedType, NilAssumption DEF IInv, TypeOK
    <3>3. QED
      BY <1>1, <2>3, <3>1, <3>2 DEF Accept, IInv, TypeOK
  <2>4. CASE UNCHANGED buckets
    BY <1>1, <2>4
  <2>5. CASE Restart
    BY <2>5
  <2>6. QED
    BY <1>1, <2>1, <2>2, <2>3, <2>4, <2>5
     DEF Next, JobStep, vars, Receive, DeleteRow, Refuse, RetentionTick,
         RunRetention, FlushTick, FlushSelect, WriteRow, WriteFails, FlushDone,
         Stop, QueryStart, QueryPage, QueryEnd, Tick
<1>2. IInv /\ [Next]_vars =>
          \A k \in Key :
            buckets[k] # Nil /\ buckets'[k] = Nil =>
              \/ rows[k] # Nil /\ rows[k].samples = buckets[k].record.samples
              \/ k.server \notin registered
              \/ Restart
  BY <1>1
<1>3. QED
  BY <1>2, Invariant, PTL DEF DroppedWhenStored, Spec

\* Retention removes no row that the longest query would show.
THEOREM WindowKeptHolds == Spec => WindowKept
<1>1. ASSUME IInv, [Next]_vars, NEW k \in Key, rows[k] # Nil, rows'[k] = Nil
      PROVE  \/ k.server \notin registered'
             \/ k.minute < Minute(now) - RetentionMinutes
  <2>1. CASE DeleteRow(k.server)
    BY <2>1 DEF DeleteRow
  <2>2. CASE RunRetention /\ k.minute < job.retain
    <3>1. job.retain \in Int /\ RetentionMinutes \in Int
      BY <1>1, HistoryAssumption DEF IInv, TypeOK, Job
    <3>2. job.retain + RetentionMinutes <= Minute(now)
      BY <1>1, <2>2 DEF RunRetention, IInv, Boundaries
    <3>3. k.minute \in Int
      BY HistoryAssumption, MinuteMonotone DEF Key, Minutes
    <3>4. Minute(now) \in Int
      BY <1>1, HistoryAssumption, MinuteMonotone DEF IInv, TypeOK
    <3>5. QED
      BY <2>2, <3>1, <3>2, <3>3, <3>4
  <2>3. ASSUME NEW c \in job.todo, rows'[k] = c.record PROVE FALSE
    <3>1. c.record \in Record
      BY <1>1 DEF IInv, TypeOK, Job, Candidate
    <3>2. QED
      BY <1>1, <2>3, <3>1, NilAssumption
  <2>4. QED
    BY <1>1, <2>1, <2>2, <2>3, RowStep DEF IInv
<1>2. IInv /\ [Next]_vars =>
          \A k \in Key : rows[k] # Nil /\ rows'[k] = Nil =>
            \/ k.server \notin registered'
            \/ k.minute < Minute(now) - RetentionMinutes
  BY <1>1
<1>3. QED
  BY <1>2, Invariant, PTL DEF WindowKept, Spec

-------------------------------------------------------------------------------
(* The pages of a query.                                                   *)

\* A set of natural numbers that is not empty has a least and, if it is
\* bounded, a greatest element.
LEMMA Least ==
    ASSUME NEW T \in SUBSET Nat, T # {}
    PROVE  \E x \in T : \A y \in T : x <= y
<1>1. T \subseteq Nat
  OBVIOUS
<1>2. PICK x \in T : \A y \in T : ~(<<y, x>> \in OpToRel(<, Nat))
  <2> DEFINE less == OpToRel(<, Nat)
  <2>1. IsWellFoundedOn(less, Nat)
    BY NatLessThanWellFounded
  <2> HIDE DEF less
  <2>2. \E x \in T : \A y \in T : ~(<<y, x>> \in less)
    BY <1>1, <2>1, WFMin
  <2> QED
    BY <2>2 DEF less
<1>3. \A y \in T : ~(y < x)
  BY <1>1, <1>2 DEF OpToRel
<1> QED
  BY <1>1, <1>3

LEMMA Greatest ==
    ASSUME NEW T \in SUBSET Nat, T # {}, NEW n \in Nat, \A x \in T : x <= n
    PROVE  \E x \in T : \A y \in T : y <= x
<1> DEFINE below == {n - x : x \in T}
<1>1. below \in SUBSET Nat /\ below # {}
  <2>1. \A x \in T : n - x \in Nat
    OBVIOUS
  <2> QED
    BY <2>1
<1>2. PICK d \in below : \A e \in below : d <= e
  BY <1>1, Least
<1>3. PICK x \in T : d = n - x
  BY <1>2
<1>4. \A y \in T : n - x <= n - y
  BY <1>2, <1>3
<1> HIDE DEF below
<1> QED
  BY <1>4

Increasing(f, n) == \A i, j \in 1..n : i < j => f[i] < f[j]

LEMMA MinutesFinite ==
    ASSUME NEW S \in SUBSET Minutes
    PROVE  /\ IsFiniteSet(S) /\ Cardinality(S) \in Nat
           /\ S \in SUBSET Nat /\ \A m \in S : m <= Minute(MaxTime)
           /\ Minute(MaxTime) \in Nat
<1>1. Minute(MaxTime) \in Nat
  BY HistoryAssumption, MinuteMonotone
<1>2. IsFiniteSet(Minutes)
  BY <1>1, FS_Interval DEF Minutes
<1>3. IsFiniteSet(S) /\ Cardinality(S) \in Nat
  BY <1>2, FS_Subset, FS_CardinalityType
<1>4. S \in SUBSET Nat /\ \A m \in S : m <= Minute(MaxTime)
  BY <1>1 DEF Minutes
<1> QED
  BY <1>1, <1>3, <1>4

\* Every set of minutes can be put in order: otherwise take one of the least
\* size that cannot, and put its greatest minute behind the others.
LEMMA OrderExists ==
    ASSUME NEW S \in SUBSET Minutes
    PROVE  \E f \in [1..Cardinality(S) -> S] : Increasing(f, Cardinality(S))
<1> DEFINE Orderly(T) == \E f \in [1..Cardinality(T) -> T] :
                            Increasing(f, Cardinality(T))
           bad == {n \in Nat : \E T \in SUBSET Minutes :
                                  Cardinality(T) = n /\ ~Orderly(T)}
<1>1. SUFFICES ASSUME bad # {} PROVE FALSE
  <2>1. Cardinality(S) \in Nat
    BY MinutesFinite
  <2> QED
    BY <1>1, <2>1
<1>2. bad \in SUBSET Nat
  OBVIOUS
<1>3. PICK n \in bad : \A k \in bad : n <= k
  <2> HIDE DEF bad
  <2> QED
    BY <1>1, <1>2, Least
<1>4. PICK T \in SUBSET Minutes : Cardinality(T) = n /\ ~Orderly(T)
  BY <1>3
<1>5. /\ IsFiniteSet(T) /\ n \in Nat
      /\ T \in SUBSET Nat /\ \A m \in T : m <= Minute(MaxTime)
      /\ Minute(MaxTime) \in Nat
  BY <1>4, MinutesFinite
<1>6. CASE T = {}
  <2>1. n = 0
    BY <1>4, <1>6, FS_EmptySet
  <2> DEFINE f == [i \in 1..n |-> 0]
  <2>2. f \in [1..n -> T] /\ Increasing(f, n)
    BY <2>1 DEF Increasing
  <2> QED
    BY <1>4, <2>2
<1>7. CASE T # {}
  <2>1. PICK g \in T : \A y \in T : y <= g
    BY <1>5, <1>7, Greatest
  <2> DEFINE U == T \ {g}
  <2>2. U \in SUBSET Minutes /\ Cardinality(U) = n - 1
    BY <1>4, <1>5, FS_RemoveElement
  <2>3. n - 1 \in Nat
    BY <2>2, MinutesFinite
  <2>4. n - 1 \notin bad
    BY <1>3, <1>5, <2>3
  <2>5. Orderly(U)
    BY <2>2, <2>3, <2>4
  <2>6. PICK f \in [1..n - 1 -> U] : Increasing(f, n - 1)
    BY <2>2, <2>5
  <2> DEFINE h == [i \in 1..n |-> IF i = n THEN g ELSE f[i]]
  <2>7. \A i \in 1..n : i # n => i \in 1..n - 1 /\ f[i] \in U
    BY <1>5, <2>6
  <2>8. h \in [1..n -> T]
    BY <2>7
  <2>9. Increasing(h, n)
    <3> SUFFICES ASSUME NEW i \in 1..n, NEW j \in 1..n, i < j
                 PROVE  h[i] < h[j]
      BY DEF Increasing
    <3>1. i # n /\ i \in 1..n - 1 /\ f[i] \in U
      BY <1>5, <2>7
    <3>2. CASE j = n
      <4>1. f[i] <= g /\ f[i] # g /\ f[i] \in Nat /\ g \in Nat
        BY <1>5, <2>1, <3>1
      <4> QED
        BY <3>1, <3>2, <4>1
    <3>3. CASE j # n
      BY <2>6, <2>7, <3>1, <3>3 DEF Increasing
    <3> QED
      BY <3>2, <3>3
  <2> QED
    BY <1>4, <2>8, <2>9
<1> QED
  BY <1>6, <1>7

\* A sequence that increases within a set of its own size has all of it.
LEMMA IncreasingCovers ==
    ASSUME NEW T \in SUBSET Int, IsFiniteSet(T), NEW n \in Nat,
           Cardinality(T) <= n,
           NEW f \in [1..n -> T], Increasing(f, n)
    PROVE  Cardinality(T) = n /\ \A x \in T : \E i \in 1..n : f[i] = x
<1>1. \A i, j \in 1..n : i # j => f[i] # f[j]
  <2> SUFFICES ASSUME NEW i \in 1..n, NEW j \in 1..n, i # j PROVE f[i] # f[j]
    OBVIOUS
  <2>1. f[i] \in Int /\ f[j] \in Int
    OBVIOUS
  <2>2. i < j \/ j < i
    OBVIOUS
  <2> QED
    BY <2>1, <2>2 DEF Increasing
<1>2. f \in Injection(1..n, T)
  BY <1>1 DEF Injection, IsInjective
<1>3. IsFiniteSet(1..n) /\ Cardinality(1..n) = n
  <2>1. IsFiniteSet(1..n) /\ Cardinality(1..n) = IF 1 > n THEN 0 ELSE n - 1 + 1
    BY FS_Interval
  <2> QED
    BY <2>1
<1>4. /\ Cardinality(1..n) <= Cardinality(T)
      /\ Cardinality(1..n) = Cardinality(T) <=> f \in Surjection(1..n, T)
  BY <1>2, FS_Injection
<1>5. Cardinality(T) = n
  BY <1>3, <1>4, FS_CardinalityType
<1>6. f \in Surjection(1..n, T)
  BY <1>3, <1>4, <1>5
<1> QED
  BY <1>5, <1>6 DEF Surjection

\* A page is the first minutes of the set, in order, and all of them unless
\* the limit is reached.
LEMMA PageOf ==
    ASSUME NEW S \in SUBSET Minutes, NEW n \in Nat
    PROVE  LET page == FirstMinutes(S, n)
           IN  /\ page \in Seq(S) /\ Len(page) <= n
               /\ Increasing(page, Len(page))
               /\ \A m \in S : \/ \E i \in 1..Len(page) : page[i] = m
                               \/ /\ Len(page) = n
                                  /\ \A i \in 1..Len(page) : page[i] < m
<1> DEFINE c == Cardinality(S)
           all == Ascending(S)
           k == IF n < c THEN n ELSE c
           page == FirstMinutes(S, n)
<1>1. c \in Nat /\ IsFiniteSet(S) /\ S \in SUBSET Int
  BY MinutesFinite
<1>2. all \in [1..c -> S] /\ Increasing(all, c)
  <2>1. \E f \in [1..c -> S] : \A i, j \in 1..c : i < j => f[i] < f[j]
    BY OrderExists DEF Increasing
  <2> QED
    BY <2>1 DEF Ascending, Increasing
<1>3. \A m \in S : \E i \in 1..c : all[i] = m
  <2> HIDE DEF c, all
  <2>1. Cardinality(S) <= c
    BY <1>1 DEF c
  <2> QED
    BY <1>1, <1>2, <2>1, IncreasingCovers
<1>4. page = SubSeq(all, 1, k)
  BY DEF FirstMinutes
<1> HIDE DEF all, page, c
<1>5. all \in Seq(S) /\ Len(all) = c
  BY <1>1, <1>2
<1>6. k \in Nat /\ k <= c /\ k <= n /\ (k = n \/ k = c)
  BY <1>1
<1> HIDE DEF k
<1>7. /\ page \in Seq(S) /\ Len(page) = k
      /\ \A i \in 1..k : page[i] = all[i]
  BY <1>1, <1>4, <1>5, <1>6
<1>8. \A i \in 1..k : i \in 1..c
  BY <1>1, <1>6
<1>9. Increasing(page, k)
  BY <1>2, <1>7, <1>8 DEF Increasing
<1>10. ASSUME NEW m \in S
       PROVE  \/ \E i \in 1..k : page[i] = m
              \/ k = n /\ \A i \in 1..k : page[i] < m
  <2>1. PICK j \in 1..c : all[j] = m
    BY <1>3
  <2>2. CASE j \in 1..k
    BY <1>7, <2>1, <2>2
  <2>3. CASE j \notin 1..k
    <3>1. j > k /\ k = n
      BY <1>1, <1>6, <2>3
    <3>2. \A i \in 1..k : i < j
      BY <1>6, <3>1
    <3> QED
      BY <1>2, <1>7, <1>8, <2>1, <3>1, <3>2 DEF Increasing
  <2> QED
    BY <2>2, <2>3
<1> QED
  BY <1>6, <1>7, <1>9, <1>10 DEF page

(* What a reader knows of the rows that were there all along: they are still
   there, and are in its answer or behind all of it.                       *)
Found(m) == \E i \in 1..Len(query.answer) : query.answer[i] = m
Ahead(m) == \A i \in 1..Len(query.answer) : query.answer[i] < m

Query == [pc : {"idle", "reading", "answered"}, server : Servers \cup {Nil},
          from : Int, to : Int, answer : Seq(Minutes), kept : SUBSET Minutes]

QueryInv ==
    /\ query \in Query
    /\ query.to - query.from < MaxRows
    /\ query.kept \subseteq query.from..query.to
    /\ Increasing(query.answer, Len(query.answer))
    /\ \A i \in 1..Len(query.answer) : query.answer[i] \in query.from..query.to
    /\ query.pc = "reading" =>
           /\ query.server \in Servers
           /\ Len(query.answer) < MaxRows
           /\ \A m \in query.kept :
                  /\ rows[[server |-> query.server, minute |-> m]] # Nil
                  /\ Found(m) \/ Ahead(m)
    /\ query.pc = "answered" => \A m \in query.kept : Found(m)

LEMMA NoQueryInv ==
    ASSUME query' = NoQuery
    PROVE  QueryInv'
<1>1. <<>> \in Seq(Minutes) /\ Len(<<>>) = 0
  OBVIOUS
<1>2. NoQuery \in Query
  BY <1>1 DEF NoQuery, Query
<1> QED
  BY <1>1, <1>2, HistoryAssumption DEF QueryInv, NoQuery, Increasing, Found

\* Rows that go while a query reads are no longer expected of it.
LEMMA KeepInv ==
    ASSUME TypeOK, QueryInv,
           query' = IF query.pc = "reading" THEN Keep(query, rows') ELSE query
    PROVE  QueryInv'
<1>1. CASE query.pc # "reading"
  BY <1>1 DEF QueryInv, Found, Increasing
<1>2. CASE query.pc = "reading"
  <2> DEFINE left == {m \in query.kept :
                        rows'[[server |-> query.server, minute |-> m]] # Nil}
  <2>1. query' = [query EXCEPT !.kept = left]
    BY <1>2 DEF Keep
  <2>2. /\ query'.pc = query.pc /\ query'.answer = query.answer
        /\ query'.from = query.from /\ query'.to = query.to
        /\ query'.server = query.server /\ query'.kept = left
    BY <2>1 DEF QueryInv, Query
  <2>3. query' \in Query
    BY <2>1 DEF QueryInv, Query
  <2>4. /\ query'.kept \subseteq query.kept
        /\ \A m \in query'.kept :
              rows'[[server |-> query.server, minute |-> m]] # Nil
    BY <2>2
  <2> HIDE DEF left
  <2> QED
    BY <1>2, <2>2, <2>3, <2>4 DEF QueryInv, Found, Ahead, Increasing
<1> QED
  BY <1>1, <1>2

\* A query begins.
LEMMA QueryStartInv ==
    ASSUME TypeOK, NEW s \in Servers, NEW range \in Ranges, QueryStart(s, range)
    PROVE  QueryInv'
<1> DEFINE to == Minute(now)
           from == Minute(now) - range
           kept == RowsOf(s) \cap from..to
<1>1. to \in Nat /\ range \in Nat /\ range < MaxRows /\ MaxRows \in Nat
  BY MinuteMonotone, HistoryAssumption DEF TypeOK
<1>2. /\ query'.pc = "reading" /\ query'.server = s
      /\ query'.from = from /\ query'.to = to
      /\ query'.answer = <<>> /\ query'.kept = kept /\ rows' = rows
      /\ query' = [pc |-> "reading", server |-> s, from |-> from, to |-> to,
                   answer |-> <<>>, kept |-> kept]
  BY DEF QueryStart
<1>3. /\ kept \in SUBSET Minutes /\ kept \subseteq from..to
      /\ \A m \in kept : rows[[server |-> s, minute |-> m]] # Nil
  BY DEF RowsOf
<1>4. from \in Int /\ to - from < MaxRows
  BY <1>1
<1>5. <<>> \in Seq(Minutes) /\ Len(<<>>) = 0
  OBVIOUS
<1> HIDE DEF from, to, kept
<1>6. query' \in Query
  BY <1>1, <1>2, <1>3, <1>4, <1>5 DEF Query
<1> QED
  BY <1>1, <1>2, <1>3, <1>4, <1>5, <1>6 DEF QueryInv, Increasing, Found, Ahead

\* A page is read.
LEMMA QueryPageInv ==
    ASSUME TypeOK, QueryInv, QueryPage
    PROVE  QueryInv'
<1> DEFINE answer == query.answer
           limit == PageLimit(query)
           S == After(query)
           page == FirstMinutes(S, limit)
           whole == answer \o page
<1>1. /\ query.pc = "reading" /\ rows' = rows
      /\ query' = [query EXCEPT !.answer = whole,
           !.pc = IF Len(page) < limit \/ Len(whole) = MaxRows
                  THEN "answered" ELSE "reading"]
  BY DEF QueryPage
<1>2. /\ answer \in Seq(Minutes) /\ Len(answer) \in Nat /\ Len(answer) < MaxRows
      /\ \A i \in 1..Len(answer) : answer[i] \in query.from..query.to
      /\ Increasing(answer, Len(answer))
      /\ query.from \in Int /\ query.to \in Int
      /\ query.to - query.from < MaxRows
      /\ query.server \in Servers
      /\ query.kept \subseteq Minutes /\ query.kept \subseteq query.from..query.to
  BY <1>1 DEF QueryInv, Query
<1>3. limit \in Nat \ {0} /\ limit <= MaxRows - Len(answer) /\ MaxRows \in Nat
  <2>1. MaxRows \in Nat /\ PageRows \in Nat \ {0}
    BY HistoryAssumption
  <2>2. limit = IF PageRows < MaxRows - Len(answer) THEN PageRows
                ELSE MaxRows - Len(answer)
    BY DEF PageLimit
  <2>3. Len(answer) \in Nat /\ Len(answer) < MaxRows
    BY <1>2
  <2> HIDE DEF answer, limit
  <2> QED
    BY <2>1, <2>2, <2>3
<1>4. /\ S \in SUBSET Minutes
      /\ \A m \in S : m \in query.from..query.to
      /\ answer # <<>> => \A m \in S : m > Last(answer)
  BY DEF After, RowsOf
<1>5. \A m \in Minutes : m \in Nat
  BY DEF Minutes
<1>6. \A m \in S : \A i \in 1..Len(answer) : answer[i] < m
  <2> SUFFICES ASSUME NEW m \in S, NEW i \in 1..Len(answer)
               PROVE  answer[i] < m
    OBVIOUS
  <2>1. Len(answer) \in 1..Len(answer) /\ answer # <<>>
    BY <1>2
  <2>2. answer[Len(answer)] < m
    BY <1>4, <2>1 DEF Last
  <2>3. answer[i] <= answer[Len(answer)]
    <3>1. answer[i] \in Nat
      BY <1>2, <1>5
    <3>2. i = Len(answer) \/ i < Len(answer)
      BY <1>2
    <3> QED
      BY <1>2, <2>1, <3>1, <3>2 DEF Increasing
  <2>4. answer[i] \in Nat /\ answer[Len(answer)] \in Nat /\ m \in Nat
    BY <1>2, <1>4, <1>5, <2>1
  <2> QED
    BY <2>2, <2>3, <2>4
<1>7. /\ page \in Seq(S) /\ Len(page) <= limit
      /\ Increasing(page, Len(page))
      /\ \A m \in S : \/ \E i \in 1..Len(page) : page[i] = m
                      \/ /\ Len(page) = limit
                         /\ \A i \in 1..Len(page) : page[i] < m
  <2> HIDE DEF S, limit
  <2> QED
    BY <1>3, <1>4, PageOf
<1>8. /\ query'.pc = IF Len(page) < limit \/ Len(whole) = MaxRows
                     THEN "answered" ELSE "reading"
      /\ query'.answer = whole
      /\ query'.from = query.from /\ query'.to = query.to
      /\ query'.server = query.server /\ query'.kept = query.kept
  BY <1>1 DEF QueryInv, Query
<1>9. \A m \in query.kept : (\E i \in 1..Len(answer) : answer[i] = m) \/ m \in S
  <2> SUFFICES ASSUME NEW m \in query.kept,
                      ~ \E i \in 1..Len(answer) : answer[i] = m
               PROVE  m \in S
    OBVIOUS
  <2>1. /\ rows[[server |-> query.server, minute |-> m]] # Nil
        /\ \A i \in 1..Len(answer) : answer[i] < m
    BY <1>1 DEF QueryInv, Found, Ahead
  <2>2. m \in RowsOf(query.server) \cap query.from..query.to
    BY <1>2, <2>1 DEF RowsOf
  <2>3. answer # <<>> => m > Last(answer)
    <3> SUFFICES ASSUME answer # <<>> PROVE m > Last(answer)
      OBVIOUS
    <3>1. Len(answer) \in 1..Len(answer)
      BY <1>2
    <3>2. answer[Len(answer)] \in Nat /\ m \in Nat
      BY <1>2, <1>5, <3>1
    <3> QED
      BY <2>1, <3>1, <3>2 DEF Last
  <2> QED
    BY <2>2, <2>3 DEF After
<1> HIDE DEF S, limit, page, answer
<1>10. /\ whole \in Seq(Minutes) /\ Len(whole) = Len(answer) + Len(page)
       /\ Len(page) \in Nat
       /\ \A i \in 1..Len(answer) : whole[i] = answer[i]
       /\ \A i \in 1..Len(page) : whole[Len(answer) + i] = page[i]
       /\ \A i \in 1..Len(page) : page[i] \in S
  <2>1. page \in Seq(Minutes)
    BY <1>4, <1>7
  <2> QED
    BY <1>2, <1>7, <2>1
<1> HIDE DEF whole
<1>11. \A k \in 1..Len(whole) :
          \/ k \in 1..Len(answer)
          \/ k - Len(answer) \in 1..Len(page) /\ k = Len(answer) + (k - Len(answer))
  BY <1>2, <1>10
<1>12. Increasing(whole, Len(whole))
  <2> SUFFICES ASSUME NEW i \in 1..Len(whole), NEW j \in 1..Len(whole), i < j
               PROVE  whole[i] < whole[j]
    BY DEF Increasing
  <2>1. CASE j \in 1..Len(answer)
    <3>1. i \in 1..Len(answer)
      BY <1>2, <2>1
    <3> QED
      BY <1>2, <1>10, <2>1, <3>1 DEF Increasing
  <2>2. CASE j \notin 1..Len(answer)
    <3> DEFINE b == j - Len(answer)
    <3>1. b \in 1..Len(page) /\ whole[j] = page[b] /\ page[b] \in S
      BY <1>10, <1>11, <2>2
    <3>2. CASE i \in 1..Len(answer)
      BY <1>6, <1>10, <3>1, <3>2
    <3>3. CASE i \notin 1..Len(answer)
      <4> DEFINE a == i - Len(answer)
      <4>1. a \in 1..Len(page) /\ whole[i] = page[a]
        BY <1>10, <1>11, <3>3
      <4>2. a < b
        BY <1>2
      <4> QED
        BY <1>7, <3>1, <4>1, <4>2 DEF Increasing
    <3> QED
      BY <3>2, <3>3
  <2> QED
    BY <2>1, <2>2
<1>13. \A k \in 1..Len(whole) : whole[k] \in query.from..query.to
  BY <1>2, <1>4, <1>10, <1>11
<1>14. Len(whole) <= MaxRows
  BY <1>2, <1>3, <1>7, <1>10
<1>15. ASSUME NEW m \in query.kept
       PROVE  \/ \E k \in 1..Len(whole) : whole[k] = m
              \/ Len(page) = limit /\ \A k \in 1..Len(whole) : whole[k] < m
  <2>1. CASE \E i \in 1..Len(answer) : answer[i] = m
    <3>1. PICK i \in 1..Len(answer) : answer[i] = m
      BY <2>1
    <3>2. i \in 1..Len(whole)
      BY <1>2, <1>10
    <3> QED
      BY <1>10, <3>1, <3>2
  <2>2. CASE m \in S
    <3>1. CASE \E i \in 1..Len(page) : page[i] = m
      <4>1. PICK i \in 1..Len(page) : page[i] = m
        BY <3>1
      <4>2. Len(answer) + i \in 1..Len(whole)
        BY <1>2, <1>10
      <4> QED
        BY <1>10, <4>1, <4>2
    <3>2. CASE Len(page) = limit /\ \A i \in 1..Len(page) : page[i] < m
      BY <1>6, <1>10, <1>11, <2>2, <3>2
    <3> QED
      BY <1>7, <2>2, <3>1, <3>2
  <2> QED
    BY <1>9, <2>1, <2>2
\* At the row limit the answer has every minute of the range.
<1>16. ASSUME Len(whole) = MaxRows, NEW m \in query.kept
       PROVE  \E k \in 1..Len(whole) : whole[k] = m
  <2> DEFINE T == query.from..query.to
             n == Len(whole)
  <2>1. T \in SUBSET Int /\ IsFiniteSet(T) /\ n \in Nat /\ m \in T
    <3>1. m \in T /\ T \in SUBSET Int
      BY <1>2, <1>16
    <3>2. IsFiniteSet(T)
      BY <1>2, FS_Interval
    <3>3. n \in Nat
      BY <1>3, <1>16
    <3> QED
      BY <3>1, <3>2, <3>3
  <2>2. Cardinality(T) <= n
    <3>1. Cardinality(T) = IF query.from > query.to THEN 0
                           ELSE query.to - query.from + 1
      BY <1>2, FS_Interval
    <3> QED
      BY <1>2, <1>3, <1>16, <3>1
  <2>3. whole \in [1..n -> T]
    BY <1>10, <1>13
  <2> HIDE DEF T, n
  <2>4. \A x \in T : \E i \in 1..n : whole[i] = x
    BY <1>12, <2>1, <2>2, <2>3, IncreasingCovers DEF n
  <2> QED
    BY <2>1, <2>4 DEF n
<1>17. query'.pc = "answered" => \A m \in query.kept :
          \E k \in 1..Len(whole) : whole[k] = m
  <2>1. Len(page) \in Nat /\ limit \in Nat
    BY <1>3, <1>10
  <2>2. Len(page) < limit => Len(page) # limit
    BY <2>1
  <2> QED
    BY <1>8, <1>15, <1>16, <2>2
<1>18. query'.pc = "reading" => Len(whole) < MaxRows
  <2>1. Len(whole) \in Nat
    BY <1>2, <1>10
  <2> QED
    BY <1>3, <1>8, <1>14, <2>1
<1>19. query' \in Query
  BY <1>2, <1>8, <1>10, <1>1 DEF QueryInv, Query
<1>20. ASSUME NEW m \in query'.kept, query'.pc = "reading"
       PROVE  /\ rows'[[server |-> query'.server, minute |-> m]] # Nil
              /\ Found(m)' \/ Ahead(m)'
  <2>1. rows[[server |-> query.server, minute |-> m]] # Nil
    BY <1>1, <1>8, <1>20 DEF QueryInv
  <2>2. Found(m)' \/ Ahead(m)'
    BY <1>8, <1>15, <1>20 DEF Found, Ahead
  <2> QED
    BY <1>1, <1>8, <2>1, <2>2
<1>21. ASSUME NEW m \in query'.kept, query'.pc = "answered"
       PROVE  Found(m)'
  BY <1>8, <1>17, <1>21 DEF Found
<1> QED
  BY <1>2, <1>8, <1>12, <1>13, <1>18, <1>19, <1>20, <1>21 DEF QueryInv

LEMMA QueryStep == TypeOK /\ QueryInv /\ [Next]_vars => QueryInv'
<1> SUFFICES ASSUME TypeOK, QueryInv, [Next]_vars PROVE QueryInv'
  OBVIOUS
<1>1. UNCHANGED <<rows, query>> => QueryInv'
  BY DEF QueryInv, Found, Ahead, Increasing
<1>2. ASSUME NEW c \in job.todo, WriteRow(c) PROVE QueryInv'
  <2>1. c.record # Nil /\ UNCHANGED query
    BY <1>2, NilAssumption DEF WriteRow, TypeOK, Job, Candidate
  <2>2. \A k \in Key : rows[k] # Nil => rows'[k] # Nil
    BY <1>2, <2>1 DEF WriteRow, TypeOK
  <2>3. query.pc = "reading" => \A m \in query.kept :
          [server |-> query.server, minute |-> m] \in Key
    BY DEF QueryInv, Query, Key
  <2> QED
    BY <2>1, <2>2, <2>3 DEF QueryInv, Found, Ahead, Increasing
<1>3. ASSUME NEW s \in Servers, DeleteRow(s) PROVE QueryInv'
  BY <1>3, KeepInv DEF DeleteRow
<1>4. CASE RunRetention
  BY <1>4, KeepInv DEF RunRetention
<1>5. CASE QueryPage
  BY <1>5, QueryPageInv
<1>6. ASSUME NEW s \in Servers, NEW range \in Ranges, QueryStart(s, range)
      PROVE  QueryInv'
  BY <1>6, QueryStartInv
<1>7. CASE QueryEnd \/ Restart
  BY <1>7, NoQueryInv DEF QueryEnd, Restart
<1> QED
  BY <1>1, <1>2, <1>3, <1>4, <1>5, <1>6, <1>7
     DEF Next, JobStep, vars, Receive, Accept, Refuse, RemoveServer,
         RetentionTick, FlushTick, FlushSelect, WriteFails, Settle, FlushDone,
         Stop, Tick

\* Store.Query: a history that is read in pages of any size, while rows are
\* written and deleted between them, lists every minute once, in order, within
\* its range, and leaves out no row that was there all along, not even when it
\* ends at the row limit (store.go:69-108).
THEOREM AnswerCompleteHolds == Spec => []AnswerComplete
<1>1. Init => QueryInv
  <2>1. <<>> \in Seq(Minutes) /\ Len(<<>>) = 0
    OBVIOUS
  <2> QED
    BY <2>1, HistoryAssumption DEF Init, QueryInv, Query, NoQuery, Increasing,
       Found
<1>2. QueryInv => AnswerComplete
  BY DEF QueryInv, AnswerComplete, Increasing, Found
<1> QED
  BY <1>1, <1>2, TypeInit, TypeStep, QueryStep, PTL DEF Spec
===============================================================================
