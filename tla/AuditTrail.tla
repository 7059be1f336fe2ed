----------------------------- MODULE AuditTrail -----------------------------
(***************************************************************************)
(* How an audit event reaches the audit table (internal/api/reports.go and *)
(* internal/api/audit_retry.go): two attempts to save it, then a line in   *)
(* the retry file, which a flusher goroutine saves again until it works.   *)
(*                                                                         *)
(* The flusher and the requests share the file under auditRetryMu, which   *)
(* a flush holds from its read to its rewrite.  The table is PostgreSQL's  *)
(* (external): the event id is its primary key, and a call that reports an *)
(* error may have inserted the row.  The file survives the process.        *)
(***************************************************************************)
EXTENDS Naturals, Sequences

CONSTANTS Events,      \* audit events, each recorded at most once
          MaxOutages,  \* bound on save calls that fail
          MaxStarts,   \* bound on starts of the process
          DiskFaults,  \* BOOLEAN: may writes to the file fail or fall short?
          Crashes      \* BOOLEAN: may the process die at any step?

ASSUME AuditAssumption ==
  /\ MaxOutages \in Nat /\ MaxStarts \in Nat \ {0}
  /\ {DiskFaults, Crashes} \subseteq BOOLEAN
  /\ "bad" \notin Events

VARIABLES
  mode,     \* process: "up", "stopping", "stopped" (flusher waited for), "down"
  starts,   \* starts of the process so far
  rows,     \* the audit table
  outages,  \* save calls that failed so far
  file,     \* lines of the retry file; "bad" cannot be parsed
  torn,     \* the last line lacks its newline
  pc,       \* where the recording of each event is
  flusher,  \* the flusher goroutine; "off" until the first event is queued
  last,     \* the flush in progress is the one of the shutdown
  left,     \* lines the flush has not tried
  failed,   \* lines it could not save
  cut       \* events whose line a short or interrupted write damaged (history)

table == <<rows, outages>>
disk == <<file, torn, cut>>
flush == <<flusher, last, left, failed>>
avars == <<mode, starts, table, disk, pc, flush>>

InLines(s) == {s[i] : i \in 1..Len(s)} \cap Events

AInit ==
  /\ mode = "up" /\ starts = 1
  /\ rows = {} /\ outages = 0
  /\ file = <<>> /\ torn = FALSE /\ cut = {}
  /\ pc = [e \in Events |-> "new"]
  /\ flusher = "off" /\ last = FALSE /\ left = <<>> /\ failed = <<>>

-----------------------------------------------------------------------------
\* SaveAuditEvent of the PostgreSQL store.

Inserted(e) == e \notin rows /\ rows' = rows \cup {e} /\ UNCHANGED outages

\* The database is away, or away before it could answer.
Outage(e) ==
  /\ outages < MaxOutages /\ outages' = outages + 1
  /\ rows' \in {rows, rows \cup {e}}

DuplicateKey(e) == e \in rows /\ UNCHANGED table

-----------------------------------------------------------------------------
\* recordAuditEvent and persistAuditEvent.

Goto(e, l) == pc' = [pc EXCEPT ![e] = l]

Record(e) ==
  /\ mode # "down" /\ pc[e] = "new"
  /\ Goto(e, "save")
  /\ UNCHANGED <<mode, starts, table, disk, flush>>

PersistSaves(e) ==
  /\ mode # "down" /\ pc[e] \in {"save", "retry"}
  /\ Inserted(e) /\ Goto(e, "recorded")
  /\ UNCHANGED <<mode, starts, disk, flush>>

\* The context of a background recorder ends with the shutdown.
PersistFails(e) ==
  /\ mode # "down" /\ pc[e] \in {"save", "retry"}
  /\ Outage(e) \/ DuplicateKey(e) \/ (mode # "up" /\ UNCHANGED table)
  /\ Goto(e, IF pc[e] = "save" THEN "retry" ELSE "queue")
  /\ UNCHANGED <<mode, starts, disk, flush>>

Flushing == flusher \in {"scan", "rewrite"}

\* What appending line l makes of the file: it continues a torn line.
Appended(l) == IF torn THEN [file EXCEPT ![Len(file)] = "bad"] ELSE Append(file, l)

\* Mutant: the append does not take auditRetryMu.
QueueUnlocked(e) ==
  /\ mode # "down" /\ pc[e] = "queue"
  /\ file' = Appended(e) /\ torn' = FALSE
  /\ cut' = IF torn THEN cut \cup {e} ELSE cut
  /\ flusher' = IF flusher = "off" THEN "wait" ELSE flusher
  /\ Goto(e, "recorded")
  /\ UNCHANGED <<mode, starts, table, last, left, failed>>

\* Mutant: the flusher is not started.
QueueOnly(e) ==
  /\ mode # "down" /\ pc[e] = "queue" /\ ~Flushing
  /\ file' = Appended(e) /\ torn' = FALSE
  /\ cut' = IF torn THEN cut \cup {e} ELSE cut
  /\ Goto(e, "recorded")
  /\ UNCHANGED <<mode, starts, table, flush>>

\* queueAuditRetryEvent.  auditFlusherOnce starts the flusher once in a
\* process, also when the shutdown has begun.
Queue(e) ==
  /\ mode # "down" /\ pc[e] = "queue" /\ ~Flushing
  /\ file' = Appended(e) /\ torn' = FALSE
  /\ cut' = IF torn THEN cut \cup {e} ELSE cut
  /\ flusher' = IF flusher = "off" THEN "wait" ELSE flusher
  /\ Goto(e, "recorded")
  /\ UNCHANGED <<mode, starts, table, last, left, failed>>

\* The caller gets an error; a write that fell short leaves part of the line,
\* one whose close fails may leave all of it.
QueueFails(e) ==
  /\ DiskFaults /\ mode # "down" /\ pc[e] = "queue" /\ ~Flushing
  /\ \/ UNCHANGED <<file, torn>>
     \/ file' = Appended("bad") /\ torn' = TRUE
     \/ ~torn /\ file' = Appended(e) /\ UNCHANGED torn
  /\ Goto(e, "lost")
  /\ UNCHANGED <<mode, starts, table, cut, flush>>

-----------------------------------------------------------------------------
\* The flusher: a tick, a signal or the shutdown starts flushAuditRetryQueue.

FlushBegins ==
  /\ mode # "down" /\ flusher = "wait" /\ file # <<>>
  /\ flusher' = "scan" /\ left' = file /\ failed' = <<>>
  /\ last' \in IF mode = "up" THEN {FALSE} ELSE BOOLEAN
  /\ UNCHANGED <<mode, starts, table, disk, pc>>

\* The shutdown finds no file.
FlusherExits ==
  /\ mode \in {"stopping", "stopped"} /\ flusher = "wait" /\ file = <<>>
  /\ flusher' = "ended"
  /\ UNCHANGED <<mode, starts, table, disk, pc, last, left, failed>>

\* A line that cannot be parsed is dropped, one that cannot be saved kept.
FlushSaves ==
  /\ mode # "down" /\ flusher = "scan" /\ left # <<>>
  /\ left' = Tail(left)
  /\ \/ Head(left) \notin Events /\ UNCHANGED <<table, failed>>
     \/ Head(left) \in Events /\ Inserted(Head(left)) /\ UNCHANGED failed
     \/ /\ Head(left) \in Events
        /\ Outage(Head(left)) \/ DuplicateKey(Head(left))
        /\ failed' = Append(failed, Head(left))
  /\ UNCHANGED <<mode, starts, disk, pc, flusher, last>>

FlushOver == flusher' = IF last THEN "ended" ELSE "wait"

\* Everything was saved: the file is removed.
FlushRemoves ==
  /\ mode # "down" /\ flusher = "scan" /\ left = <<>> /\ failed = <<>>
  /\ file' = <<>> /\ torn' = FALSE
  /\ FlushOver
  /\ UNCHANGED <<mode, starts, table, cut, pc, last, left, failed>>

\* The file is opened for the rewrite, which empties it ...
FlushTruncates ==
  /\ mode # "down" /\ flusher = "scan" /\ left = <<>> /\ failed # <<>>
  /\ file' = <<>> /\ torn' = FALSE
  /\ flusher' = "rewrite"
  /\ UNCHANGED <<mode, starts, table, cut, pc, last, left, failed>>

\* ... and the lines that failed are written back.
FlushRewrites ==
  /\ mode # "down" /\ flusher = "rewrite"
  /\ file' = failed
  /\ FlushOver
  /\ UNCHANGED <<mode, starts, table, torn, cut, pc, last, left, failed>>

\* The removal or the opening fails, or the rewrite falls short after n lines.
FlushFails ==
  /\ DiskFaults /\ mode # "down"
  /\ \/ flusher = "scan" /\ left = <<>> /\ UNCHANGED disk
     \/ /\ flusher = "rewrite"
        /\ \E n \in 0..(Len(failed) - 1), t \in BOOLEAN :
             /\ file' = SubSeq(failed, 1, n) \o IF t THEN <<"bad">> ELSE <<>>
             /\ torn' = t
             /\ cut' = cut \cup InLines(SubSeq(failed, n + 1, Len(failed)))
  /\ FlushOver
  /\ UNCHANGED <<mode, starts, table, pc, last, left, failed>>

-----------------------------------------------------------------------------
\* The process.

\* cancelBackgroundTasks cancels the background context and waits for the
\* flusher; requests go on until the HTTP server has shut down.
Stop ==
  /\ mode = "up"
  /\ mode' = "stopping"
  /\ UNCHANGED <<starts, table, disk, pc, flush>>

FlusherWaitedFor ==
  /\ mode = "stopping" /\ flusher \in {"off", "ended"}
  /\ mode' = "stopped"
  /\ UNCHANGED <<starts, table, disk, pc, flush>>

\* Nobody waits for the recorders that are under way.
ProcessEnds ==
  /\ mode = "stopped" \/ (Crashes /\ mode # "down")
  /\ mode' = "down"
  /\ pc' = [e \in Events |->
              CASE pc[e] \in {"recorded", "earlier"} -> "earlier"
                [] pc[e] = "new" -> "new"
                [] OTHER -> "lost"]
  /\ cut' = IF flusher = "rewrite" THEN cut \cup InLines(failed) ELSE cut
  /\ flusher' = "off" /\ last' = FALSE /\ left' = <<>> /\ failed' = <<>>
  /\ UNCHANGED <<starts, table, file, torn>>

Restart ==
  /\ mode = "down" /\ starts < MaxStarts
  /\ mode' = "up" /\ starts' = starts + 1
  /\ UNCHANGED <<table, disk, pc, flush>>

-----------------------------------------------------------------------------
RecorderStep(e) ==
  PersistSaves(e) \/ PersistFails(e) \/ Queue(e) \/ QueueFails(e)

FlusherStep ==
  \/ FlushBegins \/ FlusherExits \/ FlushSaves \/ FlushRemoves
  \/ FlushTruncates \/ FlushRewrites \/ FlushFails

ANext ==
  \/ \E e \in Events : Record(e) \/ RecorderStep(e)
  \/ FlusherStep
  \/ Stop \/ FlusherWaitedFor \/ ProcessEnds \/ Restart

\* Goroutines run; the ticker wakes the flusher; the disk does not fail for
\* ever; a select that finds the shutdown among its ready cases takes it some
\* time, since Go chooses among them at random.
AFairness ==
  /\ \A e \in Events : WF_avars(RecorderStep(e))
  /\ WF_avars(FlusherStep) /\ WF_avars(FlusherWaitedFor)
  /\ SF_avars(FlushRemoves) /\ SF_avars(FlushRewrites) /\ SF_avars(FlushTruncates)
  /\ SF_avars(FlushBegins /\ last')

ASpec == AInit /\ [][ANext]_avars

AFairSpec == ASpec /\ AFairness

-----------------------------------------------------------------------------
\* Properties.

\* Types of the audit state: a recording makes two attempts and then queues,
\* and only a file with lines in it can end in a torn one.
ATypeOK ==
  /\ mode \in {"up", "stopping", "stopped", "down"} /\ starts \in 1..MaxStarts
  /\ rows \subseteq Events /\ outages \in 0..MaxOutages
  /\ file \in Seq(Events \cup {"bad"}) /\ torn \in BOOLEAN /\ cut \subseteq Events
  /\ pc \in [Events -> {"new", "save", "retry", "queue", "recorded", "earlier", "lost"}]
  /\ flusher \in {"off", "wait", "scan", "rewrite", "ended"} /\ last \in BOOLEAN
  /\ left \in Seq(Events \cup {"bad"}) /\ failed \in Seq(Events)
  /\ torn => file # <<>>

\* An event whose recording was reported as done is in the table, in the file
\* or in the hands of a flush that is rewriting the file, through outages,
\* shutdowns, crashes and restarts.  The only way to lose it is a write to the
\* file that falls short or is interrupted.
RecordedIsKept ==
  \A e \in Events :
    pc[e] \in {"recorded", "earlier"} /\ e \notin cut =>
      \/ e \in rows
      \/ e \in InLines(file)
      \/ flusher = "rewrite" /\ e \in InLines(failed)

\* recordAuditEvent keeps its word: no event that it reported as recorded is lost
\* between table, retry file and flush, except by a damaged write of the file.
RecordedEventsAreKept ==
  /\ ATypeOK
  /\ RecordedIsKept

\* While the process that recorded an event is up, the event gets into the
\* table once the outage is over.
RecordedIsStored ==
  \A e \in Events :
    (mode = "up" /\ pc[e] = "recorded") ~> (e \in rows \/ e \in cut \/ mode # "up")

\* A shutdown ends: waiting for the flusher does not hang on the file's lock,
\* a failing table or a file that cannot be emptied.
ShutdownWaitEnds == (mode = "stopping") ~> (mode # "stopping")

\* The flusher gets its work done: recorded events reach the table after an outage,
\* and a shutdown is not held up by it.
AuditProgress ==
  /\ RecordedIsStored
  /\ ShutdownWaitEnds
=============================================================================
