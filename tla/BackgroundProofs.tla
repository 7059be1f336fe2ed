------------------------- MODULE BackgroundProofs --------------------------
(***************************************************************************)
(* Proofs about what the server does beside its requests: AuditTrail, for  *)
(* every set of events and any number of outages and restarts, and         *)
(* DiscoveryCalls, for every set of jobs, sources and endpoints and every   *)
(* threshold, window and open time of a circuit.                           *)
(***************************************************************************)
EXTENDS AuditTrail, DiscoveryCalls, SequenceTheorems, FiniteSetTheorems, TLAPS

-----------------------------------------------------------------------------
\* The retry file of the audit trail.

Lines == Events \cup {"bad"}

\* A torn line cannot be parsed, so the line that continues it spoils no event; a
\* flush knows what becomes of every line of the file it read, and the file stays
\* empty between the truncation and the rewrite.
FileInv ==
  /\ torn => file[Len(file)] = "bad"
  /\ flusher = "scan" => InLines(file) \subseteq rows \cup InLines(left) \cup InLines(failed)
  /\ flusher = "rewrite" => file = <<>> /\ ~torn

AuditInv == ATypeOK /\ RecordedIsKept /\ FileInv

\* The events of the lines.
LEMMA LineOf ==
  ASSUME NEW s, NEW e
  PROVE  e \in InLines(s) <=> e \in Events /\ \E i \in 1..Len(s) : s[i] = e
BY DEF InLines

\* An empty file has none.
LEMMA NoLines == InLines(<<>>) = {}
BY DEF InLines

\* A line that is appended to a file is added to its lines.
LEMMA AppendedLine ==
  ASSUME NEW s \in Seq(Lines), NEW l \in Lines
  PROVE  /\ Append(s, l) \in Seq(Lines) /\ Append(s, l) # <<>>
         /\ Append(s, l)[Len(Append(s, l))] = l
         /\ InLines(s) \subseteq InLines(Append(s, l))
         /\ l \in Events => l \in InLines(Append(s, l))
BY DEF InLines

\* A line that continues one that cannot be parsed leaves the others alone.
LEMMA ContinuedLine ==
  ASSUME NEW s \in Seq(Lines), s # <<>>, s[Len(s)] = "bad"
  PROVE  /\ [s EXCEPT ![Len(s)] = "bad"] \in Seq(Lines)
         /\ [s EXCEPT ![Len(s)] = "bad"] = s
<1>1. Len(s) \in 1..Len(s) /\ DOMAIN s = 1..Len(s) /\ s = [i \in 1..Len(s) |-> s[i]]
  OBVIOUS
<1>2. [s EXCEPT ![Len(s)] = "bad"] = s
  BY <1>1
<1> QED BY <1>2

\* The first line and the others are all.
LEMMA FirstLine ==
  ASSUME NEW s \in Seq(Lines), s # <<>>
  PROVE  /\ Head(s) \in Lines /\ Tail(s) \in Seq(Lines)
         /\ InLines(s) \subseteq InLines(Tail(s)) \cup {Head(s)}
<1>1. Head(s) = s[1] /\ Len(Tail(s)) = Len(s) - 1 /\ Head(s) \in Lines /\ Tail(s) \in Seq(Lines)
  OBVIOUS
<1>2. ASSUME NEW i \in 2..Len(s)
      PROVE  i - 1 \in 1..Len(Tail(s)) /\ Tail(s)[i - 1] = s[i]
  BY <1>1, <1>2
<1>3. ASSUME NEW e \in InLines(s), e # Head(s) PROVE e \in InLines(Tail(s))
  <2>1. PICK i \in 1..Len(s) : s[i] = e
    BY <1>3, LineOf
  <2>2. i \in 2..Len(s)
    BY <1>1, <1>3, <2>1
  <2> QED BY <1>2, <1>3, <2>1, <2>2, LineOf
<1> QED BY <1>1, <1>3

\* What a rewrite that falls short has written and what it has not are all.
LEMMA CutLines ==
  ASSUME NEW s \in Seq(Events), NEW n \in 0..(Len(s) - 1), NEW t \in BOOLEAN
  PROVE  LET f == SubSeq(s, 1, n) \o (IF t THEN <<"bad">> ELSE <<>>) IN
         /\ f \in Seq(Lines) /\ (t => f # <<>> /\ f[Len(f)] = "bad")
         /\ InLines(s) \subseteq InLines(f) \cup InLines(SubSeq(s, n + 1, Len(s)))
<1> DEFINE a == SubSeq(s, 1, n)
           b == SubSeq(s, n + 1, Len(s))
           f == a \o (IF t THEN <<"bad">> ELSE <<>>)
<1>0. s \in Seq(Lines) /\ n \in Nat /\ n <= Len(s)
  BY DEF Lines
<1>1. /\ a \in Seq(Lines) /\ Len(a) = n /\ \A i \in 1..n : a[i] = s[i]
  <2>1. Len(s) \in Nat /\ 1 \in Int /\ n \in Int /\ \A i \in 1..n : s[i] \in Lines
    BY <1>0
  <2>2. /\ a \in Seq(Lines) /\ Len(a) = IF 1 <= n THEN n - 1 + 1 ELSE 0
        /\ \A i \in 1..(n - 1 + 1) : a[i] = s[1 + i - 1]
    BY <1>0, <2>1, SubSeqProperties
  <2> HIDE DEF a
  <2> QED BY <1>0, <2>2
<1>2. Len(b) = Len(s) - n /\ \A i \in 1..(Len(s) - n) : b[i] = s[n + i]
  <2>1. Len(s) \in Int /\ n + 1 \in Int /\ n + 1 <= Len(s) /\ \A i \in (n + 1)..Len(s) : s[i] \in Lines
    BY <1>0
  <2>2. /\ Len(b) = IF n + 1 <= Len(s) THEN Len(s) - (n + 1) + 1 ELSE 0
        /\ \A i \in 1..(Len(s) - (n + 1) + 1) : b[i] = s[(n + 1) + i - 1]
    BY <2>1, SubSeqProperties
  <2> HIDE DEF b
  <2> QED BY <1>0, <2>1, <2>2
<1>3. (IF t THEN <<"bad">> ELSE <<>>) \in Seq(Lines)
  <2>1. <<"bad">> \in Seq(Lines) /\ <<>> \in Seq(Lines)
    BY DEF Lines
  <2> QED BY <2>1, Zenon
<1> HIDE DEF a, b
<1>4. f \in Seq(Lines) /\ (t => Len(f) = n + 1 /\ f[n + 1] = "bad") /\ \A i \in 1..n : i <= Len(f) /\ f[i] = s[i]
  <2>1. CASE t
    BY <1>1, <1>3, <2>1
  <2>2. CASE ~t
    BY <1>1, <1>3, <2>2
  <2> QED BY <2>1, <2>2
<1>5. Len(f) \in Nat
  BY <1>4
<1> HIDE DEF f
<1>6. ASSUME NEW e \in InLines(s) PROVE e \in InLines(f) \cup InLines(b)
  <2>1. PICK i \in 1..Len(s) : s[i] = e
    BY <1>6, LineOf
  <2>2. CASE i <= n
    BY <1>4, <1>5, <1>6, <2>1, <2>2, LineOf
  <2>3. CASE i > n
    <3>1. i - n \in 1..Len(b) /\ b[i - n] = e
      BY <1>2, <2>1, <2>3
    <3> QED BY <1>6, <3>1, LineOf
  <2> QED BY <2>1, <2>2, <2>3
<1>7. t => f # <<>> /\ f[Len(f)] = "bad"
  BY <1>4
<1> QED BY <1>4, <1>6, <1>7 DEF f, b, a

-----------------------------------------------------------------------------
\* Nothing was recorded initially.
LEMMA AuditInit == AInit => AuditInv
<1> SUFFICES ASSUME AInit PROVE AuditInv
  OBVIOUS
<1>1. ATypeOK
  <2>1. file \in Seq(Events \cup {"bad"}) /\ left \in Seq(Events \cup {"bad"}) /\ failed \in Seq(Events)
    BY DEF AInit
  <2>2. MaxStarts >= 1 /\ MaxStarts \in Nat /\ MaxOutages \in Nat
    BY AuditAssumption
  <2>3. starts \in 1..MaxStarts /\ outages \in 0..MaxOutages /\ ~torn
    BY <2>2 DEF AInit
  <2>4. pc \in [Events -> {"new", "save", "retry", "queue", "recorded", "earlier", "lost"}]
    BY DEF AInit
  <2>5. torn \in BOOLEAN /\ last \in BOOLEAN
    BY DEF AInit
  <2>6. rows \subseteq Events /\ cut \subseteq Events /\ mode = "up" /\ flusher = "off"
    BY DEF AInit
  <2> QED BY <2>1, <2>3, <2>4, <2>5, <2>6 DEF ATypeOK
<1>2. RecordedIsKept
  BY DEF AInit, RecordedIsKept
<1>3. FileInv
  BY DEF AInit, FileInv
<1> QED BY <1>1, <1>2, <1>3 DEF AuditInv

\* A recorder keeps the invariant: it saves its event, or appends a line to a file
\* that no flush works on.
LEMMA RecorderKeeps ==
  ASSUME AuditInv, NEW e \in Events, Record(e) \/ RecorderStep(e)
  PROVE  AuditInv'
<1> USE DEF AuditInv
<1>0. "bad" \notin Events /\ MaxOutages \in Nat /\ Lines = Events \cup {"bad"}
  BY AuditAssumption DEF Lines
<1>1. CASE Record(e)
  BY <1>0, <1>1 DEF Record, Goto, table, disk, flush, ATypeOK, RecordedIsKept, FileInv
<1>2. CASE PersistSaves(e)
  BY <1>0, <1>2 DEF PersistSaves, Inserted, Goto, table, disk, flush, ATypeOK, RecordedIsKept, FileInv
<1>3. CASE PersistFails(e)
  BY <1>0, <1>3 DEF PersistFails, Outage, DuplicateKey, Goto, table, disk, flush, ATypeOK,
                    RecordedIsKept, FileInv
<1>4. ASSUME ~torn, NEW l \in Lines
      PROVE  /\ Appended(l) \in Seq(Lines) /\ Appended(l) # <<>>
             /\ Appended(l)[Len(Appended(l))] = l
             /\ InLines(file) \subseteq InLines(Appended(l))
             /\ l \in Events => l \in InLines(Appended(l))
  BY <1>0, <1>4, AppendedLine DEF Appended, ATypeOK
<1>5. ASSUME torn, NEW l
      PROVE  Appended(l) = file
  BY <1>0, <1>5, ContinuedLine DEF Appended, ATypeOK, FileInv
<1>6. CASE Queue(e)
  <2>1. /\ file' = Appended(e) /\ ~torn' /\ cut' = IF torn THEN cut \cup {e} ELSE cut
        /\ pc' = [pc EXCEPT ![e] = "recorded"] /\ flusher \notin {"scan", "rewrite"}
        /\ flusher' = IF flusher = "off" THEN "wait" ELSE flusher
        /\ UNCHANGED <<mode, starts, rows, outages, last, left, failed>>
    BY <1>6 DEF Queue, Goto, Flushing, table
  <2>2. torn' = FALSE
    BY <1>6 DEF Queue
  <2>3. file' \in Seq(Lines) /\ InLines(file) \subseteq InLines(file)' /\ (e \in InLines(file)' \/ e \in cut')
    <3>1. CASE torn
      BY <1>5, <2>1, <3>1, <1>0 DEF ATypeOK
    <3>2. CASE ~torn
      BY <1>4, <2>1, <3>2, <1>0
    <3> QED BY <3>1, <3>2
  <2>4. ATypeOK'
    BY <1>0, <2>1, <2>2, <2>3 DEF ATypeOK
  <2>5. RecordedIsKept'
    BY <1>0, <2>1, <2>3 DEF ATypeOK, RecordedIsKept
  <2>6. FileInv'
    BY <1>0, <2>1, <2>2 DEF ATypeOK, FileInv
  <2> QED BY <2>4, <2>5, <2>6
<1>7. CASE QueueFails(e)
  <2>1. /\ pc' = [pc EXCEPT ![e] = "lost"] /\ flusher \notin {"scan", "rewrite"}
        /\ UNCHANGED <<mode, starts, rows, outages, cut, flusher, last, left, failed>>
    BY <1>7 DEF QueueFails, Goto, Flushing, table, flush
  <2>2. /\ file' \in Seq(Lines) /\ InLines(file) \subseteq InLines(file)' /\ torn' \in BOOLEAN
        /\ torn' => file' # <<>> /\ file'[Len(file')] = "bad"
    <3>1. CASE UNCHANGED <<file, torn>>
      BY <1>0, <3>1 DEF ATypeOK, FileInv
    <3>2. CASE file' = Appended("bad") /\ torn' = TRUE /\ torn
      BY <1>0, <1>5, <3>2 DEF ATypeOK, FileInv
    <3>3. CASE file' = Appended("bad") /\ torn' = TRUE /\ ~torn
      BY <1>0, <1>4, <3>3 DEF ATypeOK
    <3>4. CASE ~torn /\ file' = Appended(e) /\ torn' = torn
      BY <1>0, <1>4, <3>4 DEF ATypeOK
    <3> QED BY <1>7, <3>1, <3>2, <3>3, <3>4 DEF QueueFails
  <2>4. ATypeOK'
    BY <1>0, <2>1, <2>2 DEF ATypeOK
  <2>5. RecordedIsKept'
    BY <1>0, <2>1, <2>2 DEF ATypeOK, RecordedIsKept
  <2>6. FileInv'
    BY <1>0, <2>1, <2>2 DEF ATypeOK, FileInv
  <2> QED BY <2>4, <2>5, <2>6
<1> QED BY <1>1, <1>2, <1>3, <1>6, <1>7 DEF RecorderStep

\* So does the flusher: a line leaves the file when its event is in the table, or
\* when the flush is going to write it back.
LEMMA FlusherKeeps ==
  ASSUME AuditInv, FlusherStep
  PROVE  AuditInv'
<1> USE DEF AuditInv
<1>0. "bad" \notin Events /\ MaxOutages \in Nat /\ Lines = Events \cup {"bad"}
  BY AuditAssumption DEF Lines
<1>1. CASE FlushBegins
  <2>1. failed' = <<>> /\ left' = file /\ last' \in BOOLEAN
    BY <1>1 DEF FlushBegins
  <2>2. ATypeOK'
    BY <1>0, <1>1, <2>1 DEF FlushBegins, table, disk, ATypeOK
  <2>3. RecordedIsKept'
    BY <1>0, <1>1 DEF FlushBegins, table, disk, ATypeOK, RecordedIsKept
  <2>4. FileInv'
    BY <1>0, <1>1 DEF FlushBegins, table, disk, ATypeOK, FileInv
  <2> QED BY <2>2, <2>3, <2>4
<1>2. CASE FlusherExits
  BY <1>0, <1>2 DEF FlusherExits, table, disk, ATypeOK, RecordedIsKept, FileInv
<1>3. CASE FlushSaves
  <2> DEFINE h == Head(left)
  <2>1. /\ left' = Tail(left) /\ flusher = "scan"
        /\ UNCHANGED <<mode, starts, file, torn, cut, pc, flusher, last>>
    BY <1>3 DEF FlushSaves, disk
  <2>2. h \in Lines /\ left' \in Seq(Lines) /\ InLines(left) \subseteq InLines(left') \cup {h}
    BY <1>0, <1>3, FirstLine DEF FlushSaves, ATypeOK
  <2>3. /\ rows \subseteq rows' /\ rows' \subseteq Events /\ outages' \in 0..MaxOutages
        /\ failed' \in Seq(Events) /\ InLines(failed) \subseteq InLines(failed')
        /\ h \in Events => h \in rows' \/ h \in InLines(failed')
    <3>1. CASE h \notin Events /\ UNCHANGED <<table, failed>>
      BY <3>1 DEF table, ATypeOK
    <3>2. CASE h \in Events /\ Inserted(h) /\ UNCHANGED failed
      BY <3>2 DEF Inserted, ATypeOK
    <3>3. CASE h \in Events /\ (Outage(h) \/ DuplicateKey(h)) /\ failed' = Append(failed, h)
      <4>1. failed \in Seq(Events) /\ failed \in Seq(Lines)
        BY <1>0 DEF ATypeOK
      <4>2. /\ failed' \in Seq(Events)
            /\ InLines(failed) \subseteq InLines(failed') /\ h \in InLines(failed')
        BY <3>3, <4>1, <2>2, AppendedLine
      <4>3. /\ rows \subseteq rows' /\ rows' \subseteq Events /\ outages' \in 0..MaxOutages
        BY <1>0, <3>3 DEF Outage, DuplicateKey, table, ATypeOK
      <4> QED BY <4>2, <4>3
    <3> QED BY <1>3, <3>1, <3>2, <3>3 DEF FlushSaves
  <2> HIDE DEF h
  <2>4. ATypeOK'
    BY <1>0, <2>1, <2>2, <2>3 DEF ATypeOK
  <2>5. RecordedIsKept'
    BY <2>1, <2>3 DEF RecordedIsKept, InLines
  <2>6. InLines(file) \subseteq Events
    BY DEF InLines
  <2>7. InLines(file) \subseteq rows' \cup InLines(left') \cup InLines(failed')
    BY <2>1, <2>2, <2>3, <2>6 DEF FileInv
  <2>8. FileInv'
    BY <2>1, <2>7 DEF FileInv
  <2> QED BY <2>4, <2>5, <2>8
<1>4. CASE FlushRemoves
  <2>1. ATypeOK'
    BY <1>0, <1>4 DEF FlushRemoves, FlushOver, table, ATypeOK
  <2>2. InLines(file) \subseteq rows
    BY <1>4, NoLines DEF FlushRemoves, FileInv
  <2>3. RecordedIsKept'
    BY <1>4, <2>2 DEF FlushRemoves, FlushOver, table, RecordedIsKept
  <2>4. FileInv'
    BY <1>4 DEF FlushRemoves, FlushOver, FileInv
  <2> QED BY <2>1, <2>3, <2>4
<1>5. CASE FlushTruncates
  <2>1. ATypeOK'
    BY <1>0, <1>5 DEF FlushTruncates, table, ATypeOK
  <2>2. InLines(file) \subseteq rows \cup InLines(failed)
    BY <1>5, NoLines DEF FlushTruncates, FileInv
  <2>3. RecordedIsKept'
    BY <1>5, <2>2 DEF FlushTruncates, table, RecordedIsKept
  <2>4. FileInv'
    BY <1>5 DEF FlushTruncates, FileInv
  <2> QED BY <2>1, <2>3, <2>4
<1>6. CASE FlushRewrites
  <2>1. ATypeOK'
    BY <1>0, <1>6 DEF FlushRewrites, FlushOver, table, ATypeOK, FileInv
  <2>2. InLines(file) = {}
    BY <1>6, NoLines DEF FlushRewrites, FileInv
  <2>3. RecordedIsKept'
    BY <1>6, <2>2 DEF FlushRewrites, FlushOver, table, RecordedIsKept
  <2>4. FileInv'
    BY <1>6 DEF FlushRewrites, FlushOver, FileInv
  <2> QED BY <2>1, <2>3, <2>4
<1>7. CASE FlushFails
  <2>0. /\ flusher' = IF last THEN "ended" ELSE "wait"
        /\ UNCHANGED <<mode, starts, rows, outages, pc, last, left, failed>>
    BY <1>7 DEF FlushFails, FlushOver, table
  <2>1. CASE flusher = "scan" /\ UNCHANGED disk
    BY <1>0, <2>0, <2>1 DEF disk, ATypeOK, RecordedIsKept, FileInv
  <2>2. CASE flusher = "rewrite"
    <3>1. PICK n \in 0..(Len(failed) - 1), t \in BOOLEAN :
             /\ file' = SubSeq(failed, 1, n) \o IF t THEN <<"bad">> ELSE <<>>
             /\ torn' = t
             /\ cut' = cut \cup InLines(SubSeq(failed, n + 1, Len(failed)))
      BY <1>7, <2>2 DEF FlushFails
    <3>2. /\ file' \in Seq(Lines) /\ (torn' => file' # <<>> /\ file'[Len(file')] = "bad")
          /\ InLines(failed) \subseteq InLines(file') \cup cut'
      BY <3>1, CutLines DEF ATypeOK
    <3>3. cut \subseteq cut' /\ cut' \subseteq Events /\ torn' \in BOOLEAN
      BY <3>1 DEF InLines, ATypeOK
    <3>4. InLines(file) = {}
      BY <2>2, NoLines DEF FileInv
    <3>5. ATypeOK'
      BY <1>0, <2>0, <3>2, <3>3 DEF ATypeOK
    <3>6. RecordedIsKept'
      BY <2>0, <3>2, <3>3, <3>4 DEF RecordedIsKept, InLines
    <3>7. FileInv'
      BY <2>0, <3>2 DEF FileInv
    <3> QED BY <3>5, <3>6, <3>7
  <2> QED BY <1>7, <2>1, <2>2 DEF FlushFails
<1> QED BY <1>1, <1>2, <1>3, <1>4, <1>5, <1>6, <1>7 DEF FlusherStep

\* And so do the end and the start of the process, which keep table and file.
LEMMA ProcessKeeps ==
  ASSUME AuditInv, Stop \/ FlusherWaitedFor \/ ProcessEnds \/ Restart
  PROVE  AuditInv'
<1> USE DEF AuditInv
<1>1. CASE Stop
  BY <1>1 DEF Stop, table, disk, flush, ATypeOK, RecordedIsKept, FileInv
<1>2. CASE FlusherWaitedFor
  BY <1>2 DEF FlusherWaitedFor, table, disk, flush, ATypeOK, RecordedIsKept, FileInv
<1>3. CASE ProcessEnds
  <2>1. /\ mode' = "down" /\ flusher' = "off" /\ last' = FALSE /\ left' = <<>> /\ failed' = <<>>
        /\ cut' = IF flusher = "rewrite" THEN cut \cup InLines(failed) ELSE cut
        /\ UNCHANGED <<starts, rows, outages, file, torn>>
    BY <1>3 DEF ProcessEnds, table
  <2>2. InLines(failed) \subseteq Events
    BY DEF InLines
  <2>3. /\ pc' \in [Events -> {"new", "save", "retry", "queue", "recorded", "earlier", "lost"}]
        /\ \A e \in Events : pc'[e] \in {"recorded", "earlier"} => pc[e] \in {"recorded", "earlier"}
    BY <1>3 DEF ProcessEnds, ATypeOK
  <2>4. ATypeOK'
    <3>1. <<>> \in Seq(Events \cup {"bad"}) /\ <<>> \in Seq(Events)
      OBVIOUS
    <3> QED BY <2>1, <2>2, <2>3, <3>1 DEF ATypeOK
  <2>5. RecordedIsKept'
    BY <2>1, <2>3 DEF RecordedIsKept
  <2>6. FileInv'
    BY <2>1 DEF FileInv
  <2> QED BY <2>4, <2>5, <2>6
<1>4. CASE Restart
  BY <1>4, AuditAssumption DEF Restart, table, disk, flush, ATypeOK, RecordedIsKept, FileInv
<1> QED BY <1>1, <1>2, <1>3, <1>4

\* For every set of events and any number of outages and restarts: an event that
\* was reported as recorded is in the table or in the file, or a flush is about to
\* write it back, unless a write of the file was damaged.
THEOREM RecordedEventsKept == ASpec => []RecordedEventsAreKept
<1>1. AuditInv => RecordedEventsAreKept
  BY DEF AuditInv, RecordedEventsAreKept
<1>2. ASSUME AuditInv, [ANext]_avars
      PROVE  AuditInv'
  <2>1. CASE ANext
    BY <1>2, <2>1, RecorderKeeps, FlusherKeeps, ProcessKeeps DEF ANext
  <2>2. CASE UNCHANGED avars
    BY <1>2, <2>2 DEF avars, table, disk, flush, AuditInv, ATypeOK, RecordedIsKept, FileInv
  <2> QED BY <1>2, <2>1, <2>2
<1> QED BY <1>1, <1>2, AuditInit, PTL DEF ASpec

-----------------------------------------------------------------------------
\* The circuits of DiscoveryCalls.

\* A circuit has finitely many failures, none as old as the window, and is only
\* closed while they are below the threshold.
CircuitOK(e) ==
  LET c == circuit[e] IN
  /\ c = [state |-> c.state, failures |-> c.failures, left |-> c.left]
  /\ c.state \in CircuitStates /\ c.left \in 0 .. OpenDuration
  /\ c.failures \subseteq [age : 0 .. FailureWindow - 1, nth : Nat] /\ IsFiniteSet(c.failures)
  /\ c.state = "closed" => Cardinality(c.failures) < FailureThreshold

CircuitInv ==
  /\ circuit = [e \in Endpoints |-> circuit[e]]
  /\ \A e \in Endpoints : CircuitOK(e)

\* The constants.
LEMMA DiscoveryConstants ==
  /\ FailureThreshold \in Nat /\ FailureThreshold > 0
  /\ FailureWindow \in Nat /\ FailureWindow > 0
  /\ OpenDuration \in Nat /\ OpenDuration > 0
  /\ \A s \in Sources : EndpointOf[s] \in Endpoints
  /\ \A j \in Jobs : SourceOrder[j] \in Seq(Sources) /\ SourcesOf(j) \subseteq Sources
BY DiscoveryAssumption DEF SourcesOf

\* A circuit that is replaced by one that is in order leaves all in order.
LEMMA CircuitReplaced ==
  ASSUME CircuitInv, NEW e \in Endpoints, NEW toState \in CircuitStates, NEW rest \in 0 .. OpenDuration,
         NEW fs \in SUBSET [age : 0 .. FailureWindow - 1, nth : Nat], IsFiniteSet(fs),
         toState = "closed" => Cardinality(fs) < FailureThreshold,
         circuit' = [circuit EXCEPT ![e] = [state |-> toState, failures |-> fs, left |-> rest]]
  PROVE  CircuitInv'
<1> DEFINE new == [state |-> toState, failures |-> fs, left |-> rest]
<1>1. circuit = [f \in Endpoints |-> circuit[f]]
  BY DEF CircuitInv
<1>2. circuit' = [f \in Endpoints |-> IF f = e THEN new ELSE circuit[f]]
  BY <1>1
<1>3. circuit' = [f \in Endpoints |-> circuit'[f]]
  BY <1>2
<1>4. ASSUME NEW f \in Endpoints PROVE CircuitOK(f)'
  <2>1. CASE f = e
    <3>1. circuit'[f] = [state |-> toState, failures |-> fs, left |-> rest]
      BY <1>2, <2>1
    <3> QED BY <3>1 DEF CircuitOK
  <2>2. CASE f # e
    <3>1. circuit'[f] = circuit[f] /\ CircuitOK(f)
      BY <1>2, <2>2 DEF CircuitInv
    <3> QED BY <3>1 DEF CircuitOK
  <2> QED BY <2>1, <2>2
<1> QED BY <1>3, <1>4 DEF CircuitInv

\* allow leaves the circuit in order.
LEMMA AllowKeeps ==
  ASSUME CircuitInv, NEW e \in Endpoints, circuit' = [circuit EXCEPT ![e] = allow(e).circuit]
  PROVE  CircuitInv'
<1> DEFINE c == circuit[e]
<1>1. /\ c = [state |-> c.state, failures |-> c.failures, left |-> c.left]
      /\ c.state \in CircuitStates /\ c.left \in 0 .. OpenDuration
      /\ c.failures \in SUBSET [age : 0 .. FailureWindow - 1, nth : Nat] /\ IsFiniteSet(c.failures)
      /\ c.state = "closed" => Cardinality(c.failures) < FailureThreshold
  BY DEF CircuitInv, CircuitOK
<1>2. CASE c.state = "open" /\ ~(c.left > 0)
  <2>1. allow(e).circuit = [c EXCEPT !.state = "half-open"]
    BY <1>1, <1>2 DEF allow
  <2>2. [c EXCEPT !.state = "half-open"] =
          [state |-> "half-open", failures |-> c.failures, left |-> c.left]
    BY <1>1
  <2>3. circuit' = [circuit EXCEPT ![e] =
          [state |-> "half-open", failures |-> c.failures, left |-> c.left]]
    BY <2>1, <2>2
  <2>4. "half-open" \in CircuitStates /\ "half-open" # "closed"
    BY DEF CircuitStates
  <2> HIDE DEF c
  <2> QED BY <1>1, <2>3, <2>4, CircuitReplaced
<1>3. CASE ~(c.state = "open" /\ ~(c.left > 0))
  <2>1. allow(e).circuit = c
    <3>1. CASE c.state = "open" /\ c.left > 0
      BY <1>1, <3>1 DEF allow
    <3>2. CASE c.state # "open"
      BY <3>2 DEF allow
    <3> QED BY <1>3, <3>1, <3>2
  <2>2. circuit' = circuit
    BY <2>1 DEF CircuitInv
  <2> QED BY <2>2 DEF CircuitInv, CircuitOK
<1> QED BY <1>2, <1>3

\* A success closes the circuit and leaves it without failures.
LEMMA SuccessKeeps ==
  ASSUME CircuitInv, NEW e \in Endpoints, recordSuccess(e)
  PROVE  CircuitInv'
<1> DEFINE c == circuit[e]
<1>1. c.left \in 0 .. OpenDuration
  BY DEF CircuitInv, CircuitOK
<1>2. circuit' = [circuit EXCEPT ![e] = [state |-> "closed", failures |-> {}, left |-> c.left]]
  BY DEF recordSuccess, CircuitInv
<1>3. IsFiniteSet({}) /\ Cardinality({}) = 0
  BY FS_EmptySet
<1> QED BY <1>1, <1>2, <1>3, DiscoveryConstants, CircuitReplaced DEF CircuitStates

\* A failure that leaves the circuit closed has not reached the threshold.
LEMMA FailureKeeps ==
  ASSUME CircuitInv, NEW e \in Endpoints, recordFailure(e)
  PROVE  CircuitInv'
<1> DEFINE c == circuit[e]
           all == c.failures \cup {Failure(e)}
           now0 == {f \in c.failures : f.age = 0}
<1>1. /\ c = [state |-> c.state, failures |-> c.failures, left |-> c.left]
      /\ c.state \in CircuitStates /\ c.left \in 0 .. OpenDuration
      /\ c.failures \in SUBSET [age : 0 .. FailureWindow - 1, nth : Nat] /\ IsFiniteSet(c.failures)
  BY DEF CircuitInv, CircuitOK
<1>2. Cardinality(now0) \in Nat
  BY <1>1, FS_Subset, FS_CardinalityType
<1>3. Failure(e) \in [age : 0 .. FailureWindow - 1, nth : Nat]
  BY <1>2, DiscoveryConstants DEF Failure
<1>4. all \in SUBSET [age : 0 .. FailureWindow - 1, nth : Nat]
  BY <1>1, <1>3
<1>5. IsFiniteSet(all) /\ Cardinality(all) \in Nat
  BY <1>1, FS_AddElement, FS_CardinalityType
<1>6. circuit' = [circuit EXCEPT ![e] =
        IF c.state = "half-open" \/ Cardinality(all) >= FailureThreshold
        THEN [state |-> "open", failures |-> all, left |-> OpenDuration]
        ELSE [c EXCEPT !.failures = all]]
  BY DEF recordFailure, CircuitInv
<1>7. [c EXCEPT !.failures = all] = [state |-> c.state, failures |-> all, left |-> c.left]
  BY <1>1
<1> HIDE DEF all
<1>8. CASE c.state = "half-open" \/ Cardinality(all) >= FailureThreshold
  <2>1. circuit' = [circuit EXCEPT ![e] =
                      [state |-> "open", failures |-> all, left |-> OpenDuration]]
    BY <1>6, <1>8
  <2>2. OpenDuration \in 0 .. OpenDuration /\ "open" \in CircuitStates
    BY DiscoveryConstants DEF CircuitStates
  <2> QED BY <1>4, <1>5, <2>1, <2>2, CircuitReplaced
<1>9. CASE ~(c.state = "half-open" \/ Cardinality(all) >= FailureThreshold)
  <2>1. circuit' = [circuit EXCEPT ![e] = [state |-> c.state, failures |-> all, left |-> c.left]]
    BY <1>6, <1>7, <1>9
  <2>2. Cardinality(all) < FailureThreshold
    BY <1>5, <1>9, DiscoveryConstants
  <2> HIDE DEF c
  <2> QED BY <1>1, <1>4, <1>5, <2>1, <2>2, CircuitReplaced
<1> QED BY <1>8, <1>9

\* Time makes failures older and drops those that are past the window; it adds none.
LEMMA PruneFacts ==
  ASSUME NEW F \in SUBSET [age : 0 .. FailureWindow - 1, nth : Nat], IsFiniteSet(F)
  PROVE  /\ pruneFailures(F) \in SUBSET [age : 0 .. FailureWindow - 1, nth : Nat]
         /\ IsFiniteSet(pruneFailures(F)) /\ Cardinality(pruneFailures(F)) <= Cardinality(F)
         /\ Cardinality(F) \in Nat /\ Cardinality(pruneFailures(F)) \in Nat
<1> DEFINE kept == {f \in F : f.age + 1 < FailureWindow}
<1>1. IsFiniteSet(kept) /\ Cardinality(kept) <= Cardinality(F)
  BY FS_Subset
<1>2. IsFiniteSet(pruneFailures(F)) /\ Cardinality(pruneFailures(F)) <= Cardinality(kept)
  <2> DEFINE age == [f \in kept |-> Aged(f)]
  <2>1. age \in Surjection(kept, pruneFailures(F))
    BY DEF pruneFailures, Surjection
  <2> HIDE DEF kept, age
  <2> QED BY <1>1, <2>1, FS_Surjection
<1>3. ASSUME NEW f \in kept PROVE Aged(f) \in [age : 0 .. FailureWindow - 1, nth : Nat]
  <2>1. f \in [age : 0 .. FailureWindow - 1, nth : Nat] /\ f.age + 1 < FailureWindow
    BY <1>3
  <2>2. f.age + 1 \in 0 .. FailureWindow - 1
    BY <2>1, DiscoveryConstants
  <2> QED BY <2>1, <2>2 DEF Aged
<1>4. Cardinality(F) \in Nat /\ Cardinality(kept) \in Nat /\ Cardinality(pruneFailures(F)) \in Nat
  BY <1>1, <1>2, FS_CardinalityType
<1>5. pruneFailures(F) = {Aged(f) : f \in kept}
  BY DEF pruneFailures
<1> HIDE DEF kept
<1> QED BY <1>1, <1>2, <1>3, <1>4, <1>5

\* So the circuits stay in order.
LEMMA TickKeeps ==
  ASSUME CircuitInv, Tick
  PROVE  CircuitInv'
<1>1. circuit' = [e \in Endpoints |->
          [circuit[e] EXCEPT !.failures = pruneFailures(circuit[e].failures),
                             !.left = IF circuit[e].left > 0 THEN circuit[e].left - 1 ELSE 0]]
  BY DEF Tick
<1>2. circuit' = [e \in Endpoints |-> circuit'[e]]
  BY <1>1
<1>3. ASSUME NEW e \in Endpoints PROVE CircuitOK(e)'
  <2> DEFINE c == circuit[e]
             left1 == IF c.left > 0 THEN c.left - 1 ELSE 0
  <2>1. /\ c = [state |-> c.state, failures |-> c.failures, left |-> c.left]
        /\ c.state \in CircuitStates /\ c.left \in 0 .. OpenDuration
        /\ c.failures \in SUBSET [age : 0 .. FailureWindow - 1, nth : Nat] /\ IsFiniteSet(c.failures)
        /\ c.state = "closed" => Cardinality(c.failures) < FailureThreshold
    BY DEF CircuitInv, CircuitOK
  <2>2. circuit'[e] = [state |-> c.state, failures |-> pruneFailures(c.failures), left |-> left1]
    BY <1>1, <2>1
  <2>3. left1 \in 0 .. OpenDuration
    BY <2>1, DiscoveryConstants
  <2>4. /\ pruneFailures(c.failures) \in SUBSET [age : 0 .. FailureWindow - 1, nth : Nat]
        /\ IsFiniteSet(pruneFailures(c.failures))
        /\ Cardinality(pruneFailures(c.failures)) <= Cardinality(c.failures)
        /\ Cardinality(c.failures) \in Nat /\ Cardinality(pruneFailures(c.failures)) \in Nat
    BY <2>1, PruneFacts
  <2>5. c.state = "closed" => Cardinality(pruneFailures(c.failures)) < FailureThreshold
    BY <2>1, <2>4, DiscoveryConstants
  <2> HIDE DEF c, left1
  <2> QED BY <2>1, <2>2, <2>3, <2>4, <2>5 DEF CircuitOK
<1> QED BY <1>2, <1>3 DEF CircuitInv

-----------------------------------------------------------------------------
\* The jobs of DiscoveryCalls.

CallSteps == {"none", "connect", "connecting", "discover", "discovering", "close", "done"}

\* The variables of a job and of its goroutines.
JobsType ==
  /\ job \in [Jobs -> [step : {"idle", "build", "run", "save"}, next : Nat \ {0}]]
  /\ call = [j \in Jobs |-> call[j]]
  /\ \A j \in Jobs : call[j] \in [SourcesOf(j) -> [step : CallSteps, probe : BOOLEAN]]
  /\ results \in [Jobs -> SUBSET Sources] /\ saved \in [Jobs -> SUBSET Sources]
  /\ errs \in [Jobs -> BOOLEAN]
  /\ outcome \in [Jobs -> {"none", "failed", "succeeded"}]

\* A goroutine that is about to end has put its source into the results or has
\* recorded an error; so when all have ended without error, every source has a
\* result.  A job has no outcome before its end, and its goroutines live in RunAll.
JobOK(j) ==
  /\ results[j] \subseteq SourcesOf(j) /\ saved[j] \subseteq results[j]
  /\ job[j].step # "run" => call[j] = [s \in SourcesOf(j) |-> NoCall]
  /\ \A s \in SourcesOf(j) : call[j][s].step \in {"close", "done"} => s \in results[j] \/ errs[j]
  /\ job[j].step = "save" /\ ~errs[j] => results[j] = SourcesOf(j)
  /\ job[j].step # "idle" => outcome[j] = "none"
  /\ outcome[j] = "succeeded" => saved[j] = SourcesOf(j)

JobsInv == JobsType /\ \A j \in Jobs : JobOK(j)

\* No job has started initially.
LEMMA DiscoveryInit == DInit => CircuitInv /\ JobsInv
<1> SUFFICES ASSUME DInit PROVE CircuitInv /\ JobsInv
  OBVIOUS
<1>1. ASSUME NEW e \in Endpoints PROVE CircuitOK(e)
  <2>1. circuit[e] = [state |-> "closed", failures |-> {}, left |-> 0]
    BY DEF DInit
  <2>2. IsFiniteSet({}) /\ Cardinality({}) = 0 /\ 0 \in 0 .. OpenDuration /\ 0 < FailureThreshold
    BY FS_EmptySet, DiscoveryConstants
  <2> QED BY <2>1, <2>2 DEF CircuitOK, CircuitStates
<1>2. circuit = [e \in Endpoints |-> circuit[e]]
  BY DEF DInit
<1>3. JobsType
  BY DEF DInit, JobsType, NoCall, CallSteps
<1>4. \A j \in Jobs : JobOK(j)
  BY DEF DInit, JobOK, NoCall
<1> QED BY <1>1, <1>2, <1>3, <1>4 DEF CircuitInv, JobsInv

\* What belongs to job j is all that a step has changed.
OnlyJob(j) ==
  /\ job' = [job EXCEPT ![j] = job'[j]] /\ call' = [call EXCEPT ![j] = call'[j]]
  /\ results' = [results EXCEPT ![j] = results'[j]] /\ saved' = [saved EXCEPT ![j] = saved'[j]]
  /\ errs' = [errs EXCEPT ![j] = errs'[j]] /\ outcome' = [outcome EXCEPT ![j] = outcome'[j]]

\* A step of job j that leaves it in order keeps the others.
LEMMA JobReplaced ==
  ASSUME JobsInv, NEW j \in Jobs, OnlyJob(j),
         job'[j] \in [step : {"idle", "build", "run", "save"}, next : Nat \ {0}],
         call'[j] \in [SourcesOf(j) -> [step : CallSteps, probe : BOOLEAN]],
         errs'[j] \in BOOLEAN, outcome'[j] \in {"none", "failed", "succeeded"},
         JobOK(j)'
  PROVE  JobsInv'
<1>0. JobsType /\ SourcesOf(j) \subseteq Sources
  BY DiscoveryConstants DEF JobsInv
<1>1. \A k \in Jobs \ {j} :
        /\ job'[k] = job[k] /\ call'[k] = call[k] /\ results'[k] = results[k]
        /\ saved'[k] = saved[k] /\ errs'[k] = errs[k] /\ outcome'[k] = outcome[k]
  BY <1>0 DEF JobsType, OnlyJob
<1>2. call' = [k \in Jobs |-> call'[k]]
  BY <1>0 DEF JobsType, OnlyJob
<1>3. JobsType'
  <2>1. \A k \in Jobs : call'[k] \in [SourcesOf(k) -> [step : CallSteps, probe : BOOLEAN]]
    BY <1>0, <1>1 DEF JobsType
  <2>2. job' \in [Jobs -> [step : {"idle", "build", "run", "save"}, next : Nat \ {0}]]
    BY <1>0 DEF JobsType, OnlyJob
  <2>3. results'[j] \in SUBSET Sources /\ saved'[j] \in SUBSET Sources
    BY <1>0 DEF JobOK
  <2>4. /\ results' \in [Jobs -> SUBSET Sources] /\ saved' \in [Jobs -> SUBSET Sources]
        /\ errs' \in [Jobs -> BOOLEAN] /\ outcome' \in [Jobs -> {"none", "failed", "succeeded"}]
    BY <1>0, <2>3 DEF JobsType, OnlyJob
  <2> QED BY <1>2, <2>1, <2>2, <2>4 DEF JobsType
<1>4. ASSUME NEW k \in Jobs PROVE JobOK(k)'
  <2>1. CASE k = j
    BY <2>1
  <2>2. CASE k # j
    BY <1>1, <2>2 DEF JobOK, JobsInv
  <2> QED BY <2>1, <2>2
<1> QED BY <1>3, <1>4 DEF JobsInv

\* What is known of job j before a step.
LEMMA JobFacts ==
  ASSUME JobsInv, NEW j \in Jobs
  PROVE  /\ job[j] \in [step : {"idle", "build", "run", "save"}, next : Nat \ {0}]
         /\ call[j] \in [SourcesOf(j) -> [step : CallSteps, probe : BOOLEAN]]
         /\ results[j] \in SUBSET SourcesOf(j) /\ saved[j] \in SUBSET results[j]
         /\ errs[j] \in BOOLEAN /\ outcome[j] \in {"none", "failed", "succeeded"}
         /\ JobOK(j)
         /\ job = [job EXCEPT ![j] = job[j]] /\ call = [call EXCEPT ![j] = call[j]]
         /\ results = [results EXCEPT ![j] = results[j]] /\ saved = [saved EXCEPT ![j] = saved[j]]
         /\ errs = [errs EXCEPT ![j] = errs[j]] /\ outcome = [outcome EXCEPT ![j] = outcome[j]]
<1>1. JobOK(j) /\ JobsType
  BY DEF JobsInv
<1>2. /\ job[j] \in [step : {"idle", "build", "run", "save"}, next : Nat \ {0}]
      /\ call[j] \in [SourcesOf(j) -> [step : CallSteps, probe : BOOLEAN]]
      /\ errs[j] \in BOOLEAN /\ outcome[j] \in {"none", "failed", "succeeded"}
  BY <1>1 DEF JobsType
<1>3. /\ job = [job EXCEPT ![j] = job[j]] /\ call = [call EXCEPT ![j] = call[j]]
      /\ results = [results EXCEPT ![j] = results[j]] /\ saved = [saved EXCEPT ![j] = saved[j]]
      /\ errs = [errs EXCEPT ![j] = errs[j]] /\ outcome = [outcome EXCEPT ![j] = outcome[j]]
  BY <1>1 DEF JobsType
<1> QED BY <1>1, <1>2, <1>3 DEF JobOK

\* A goroutine's step keeps the job if it ends its work only with a result or an
\* error.
LEMMA GoroutineKeeps ==
  ASSUME JobsInv, NEW j \in Jobs, NEW s \in SourcesOf(j), call[j][s].step # "none",
         NEW c \in [step : CallSteps, probe : BOOLEAN],
         call' = [call EXCEPT ![j][s] = c],
         NEW rs \in {results[j], results[j] \cup {s}}, NEW er \in BOOLEAN, errs[j] => er,
         results' = [results EXCEPT ![j] = rs], errs' = [errs EXCEPT ![j] = er],
         c.step \in {"close", "done"} => s \in rs \/ er,
         UNCHANGED <<job, saved, outcome>>
  PROVE  JobsInv'
<1>1. job[j].step = "run" /\ JobOK(j)
  <2>1. JobOK(j)
    BY JobFacts
  <2>2. job[j].step # "run" => call[j][s] = NoCall
    BY <2>1 DEF JobOK
  <2> QED BY <2>1, <2>2 DEF NoCall
<1> DEFINE cl == [call[j] EXCEPT ![s] = c]
<1>2. cl \in [SourcesOf(j) -> [step : CallSteps, probe : BOOLEAN]]
  BY JobFacts
<1>3. call' = [call EXCEPT ![j] = cl]
  BY JobFacts
<1>4. ASSUME NEW u \in SourcesOf(j), cl[u].step \in {"close", "done"} PROVE u \in rs \/ er
  <2>1. CASE u = s
    <3>1. cl[u] = c
      BY <2>1, JobFacts
    <3> QED BY <1>4, <2>1, <3>1
  <2>2. CASE u # s
    <3>1. cl[u] = call[j][u]
      BY <2>2, JobFacts
    <3>2. u \in results[j] \/ errs[j]
      BY <1>1, <1>4, <3>1 DEF JobOK
    <3> QED BY <3>2
  <2> QED BY <2>1, <2>2
<1> HIDE DEF cl
<1>5. /\ call'[j] = cl /\ results'[j] = rs /\ errs'[j] = er
      /\ job'[j] = job[j] /\ saved'[j] = saved[j] /\ outcome'[j] = outcome[j]
  BY <1>3 DEF JobsInv, JobsType
<1>6. OnlyJob(j)
  BY <1>3, <1>5, JobFacts DEF OnlyJob
<1>7. JobOK(j)'
  BY <1>1, <1>4, <1>5 DEF JobOK
<1>8. /\ job'[j] \in [step : {"idle", "build", "run", "save"}, next : Nat \ {0}]
      /\ errs'[j] \in BOOLEAN /\ outcome'[j] \in {"none", "failed", "succeeded"}
  BY <1>5, JobFacts
<1> QED BY <1>2, <1>5, <1>6, <1>7, <1>8, JobReplaced

\* Moving a goroutine to another step.
LEMMA SetStepIs ==
  ASSUME JobsInv, NEW j \in Jobs, NEW s \in SourcesOf(j), NEW step \in CallSteps, SetStep(j, s, step)
  PROVE  /\ call' = [call EXCEPT ![j][s] = [step |-> step, probe |-> call[j][s].probe]]
         /\ [step |-> step, probe |-> call[j][s].probe] \in [step : CallSteps, probe : BOOLEAN]
<1>1. call[j] \in [SourcesOf(j) -> [step : CallSteps, probe : BOOLEAN]] /\ call = [k \in Jobs |-> call[k]]
  BY DEF JobsInv, JobsType
<1>2. call[j][s] \in [step : CallSteps, probe : BOOLEAN]
  BY <1>1
<1>3. [call[j][s] EXCEPT !.step = step] = [step |-> step, probe |-> call[j][s].probe]
  BY <1>2
<1>4. call' = [call EXCEPT ![j][s] = [call[j][s] EXCEPT !.step = step]]
  BY <1>1 DEF SetStep
<1> QED BY <1>2, <1>3, <1>4

\* A goroutine that asks its circuit is admitted or records an error.
LEMMA AskKeeps ==
  ASSUME CircuitInv, JobsInv, NEW j \in Jobs, NEW s \in SourcesOf(j),
         NEW from \in CallSteps \ {"none"}, NEW admitted \in {"connecting", "discovering"},
         NEW refused \in {"close", "done"}, Ask(j, s, from, admitted, refused)
  PROVE  CircuitInv' /\ JobsInv'
<1> DEFINE e == EndpointOf[s]
           a == allow(e)
<1>0. e \in Endpoints
  BY DiscoveryConstants
<1>1. call[j][s].step # "none" /\ UNCHANGED <<results, job, saved, outcome>>
  BY DEF Ask, StepOf, Rest
<1>2. CircuitInv'
  <2>1. circuit' = [circuit EXCEPT ![e] = allow(e).circuit]
    BY DEF Ask
  <2> QED BY <1>0, <2>1, AllowKeeps
<1>3. results' = [results EXCEPT ![j] = results[j]]
  BY <1>1, JobFacts
<1>4. CASE a.refused
  <2>1. SetStep(j, s, refused) /\ errs' = [errs EXCEPT ![j] = TRUE]
    BY <1>4 DEF Ask, Error
  <2>2. refused \in CallSteps
    BY DEF CallSteps
  <2>3. /\ call' = [call EXCEPT ![j][s] = [step |-> refused, probe |-> call[j][s].probe]]
        /\ [step |-> refused, probe |-> call[j][s].probe] \in [step : CallSteps, probe : BOOLEAN]
    BY <2>1, <2>2, SetStepIs
  <2>4. JobsInv'
    BY <1>1, <1>3, <2>1, <2>3, GoroutineKeeps
  <2> QED BY <1>2, <2>4
<1>5. CASE ~a.refused
  <2> DEFINE c == [step |-> admitted, probe |-> call[j][s].probe \/ a.probe]
  <2>1. call' = [call EXCEPT ![j][s] = c] /\ UNCHANGED errs
    BY <1>5, JobFacts DEF Ask
  <2>2. c \in [step : CallSteps, probe : BOOLEAN]
    BY DEF CallSteps
  <2>3. c.step \notin {"close", "done"}
    OBVIOUS
  <2>4. errs' = [errs EXCEPT ![j] = errs[j]] /\ errs[j] \in BOOLEAN
    BY <2>1, JobFacts
  <2> HIDE DEF c
  <2>5. JobsInv'
    BY <1>1, <1>3, <2>1, <2>2, <2>3, <2>4, GoroutineKeeps
  <2> QED BY <1>2, <2>5
<1> QED BY <1>4, <1>5

\* Every step of a goroutine keeps circuits and jobs in order.
LEMMA SourceKeeps ==
  ASSUME CircuitInv, JobsInv, NEW j \in Jobs, NEW s \in SourcesOf(j), SourceStep(j, s)
  PROVE  CircuitInv' /\ JobsInv'
<1> DEFINE e == EndpointOf[s]
<1>0. e \in Endpoints
  BY DiscoveryConstants
<1>1. CASE AskConnect(j, s)
  <2>1. "connect" \in CallSteps \ {"none"}
    BY DEF CallSteps
  <2> QED BY <1>1, <2>1, AskKeeps DEF AskConnect
<1>2. CASE AskDiscover(j, s)
  <2>1. "discover" \in CallSteps \ {"none"}
    BY DEF CallSteps
  <2> QED BY <1>2, <2>1, AskKeeps DEF AskDiscover
<1> DEFINE Moved(to) == [step |-> to, probe |-> call[j][s].probe]
<1>3. /\ errs = [errs EXCEPT ![j] = errs[j]] /\ errs[j] \in BOOLEAN
      /\ results = [results EXCEPT ![j] = results[j]]
  BY JobFacts
<1>4. ASSUME NEW to \in {"done", "close", "discover"}, SetStep(j, s, to), call[j][s].step # "none",
             UNCHANGED results, Rest,
             \/ Error(j)
             \/ to = "discover" /\ UNCHANGED errs
             \/ call[j][s].step = "close" /\ UNCHANGED errs
      PROVE  JobsInv'
  <2>1. /\ call' = [call EXCEPT ![j][s] = Moved(to)]
        /\ Moved(to) \in [step : CallSteps, probe : BOOLEAN] /\ Moved(to).step = to
    BY <1>4, SetStepIs DEF CallSteps
  <2> HIDE DEF Moved
  <2>2. UNCHANGED <<job, saved, outcome>> /\ results' = [results EXCEPT ![j] = results[j]]
    BY <1>3, <1>4 DEF Rest
  <2>3. CASE Error(j)
    <3>1. errs' = [errs EXCEPT ![j] = TRUE]
      BY <2>3 DEF Error
    <3> QED BY <1>4, <2>1, <2>2, <3>1, GoroutineKeeps
  <2>4. CASE UNCHANGED errs /\ (to = "discover" \/ call[j][s].step = "close")
    <3>1. errs' = [errs EXCEPT ![j] = errs[j]]
      BY <1>3, <2>4
    <3>2. to \in {"close", "done"} => s \in results[j] \/ errs[j]
      BY <2>4, JobFacts DEF JobOK
    <3> QED BY <1>3, <1>4, <2>1, <2>2, <3>1, <3>2, GoroutineKeeps
  <2> QED BY <1>4, <2>3, <2>4
<1>5. CASE ConnectFails(j, s)
  <2>1. JobsInv'
    BY <1>4, <1>5 DEF ConnectFails, StepOf
  <2> QED BY <1>0, <1>5, <2>1, FailureKeeps DEF ConnectFails
<1>6. CASE Connected(j, s)
  <2>1. JobsInv'
    BY <1>4, <1>6 DEF Connected, StepOf
  <2>2. CASE UNCHANGED circuit
    BY <2>1, <2>2 DEF CircuitInv, CircuitOK
  <2>3. CASE recordSuccess(e)
    BY <1>0, <2>1, <2>3, SuccessKeeps
  <2> QED BY <1>6, <2>2, <2>3 DEF Connected
<1>7. CASE DiscoverFails(j, s)
  <2>1. JobsInv'
    BY <1>4, <1>7 DEF DiscoverFails, StepOf
  <2> QED BY <1>0, <1>7, <2>1, FailureKeeps DEF DiscoverFails
<1>8. CASE Discovered(j, s)
  <2>1. CircuitInv'
    BY <1>0, <1>8, SuccessKeeps DEF Discovered
  <2> DEFINE c == [step |-> "close", probe |-> FALSE]
             rs == results[j] \cup {s}
  <2>2. /\ call[j][s].step # "none" /\ call' = [call EXCEPT ![j][s] = c]
        /\ UNCHANGED <<errs, job, saved, outcome>>
    BY <1>8 DEF Discovered, StepOf, Rest
  <2>3. results' = [results EXCEPT ![j] = rs]
    BY <1>8, JobFacts DEF Discovered
  <2>4. c \in [step : CallSteps, probe : BOOLEAN] /\ s \in rs /\ rs \in {results[j], results[j] \cup {s}}
    BY DEF CallSteps
  <2>5. errs' = [errs EXCEPT ![j] = errs[j]]
    BY <1>3, <2>2
  <2> DEFINE er == errs[j]
  <2>6. er \in BOOLEAN /\ (errs[j] => er) /\ errs' = [errs EXCEPT ![j] = er]
        /\ (c.step \in {"close", "done"} => s \in rs \/ er)
    BY <1>3, <2>4, <2>5
  <2> HIDE DEF c
  <2>7. JobsInv'
    BY <2>2, <2>3, <2>4, <2>6, GoroutineKeeps
  <2> QED BY <2>1, <2>7
<1>9. CASE CloseSource(j, s)
  <2>1. JobsInv'
    BY <1>4, <1>9 DEF CloseSource, StepOf
  <2>2. circuit' = circuit
    BY <1>9 DEF CloseSource
  <2> QED BY <2>1, <2>2 DEF CircuitInv, CircuitOK
<1> QED BY <1>1, <1>2, <1>5, <1>6, <1>7, <1>8, <1>9 DEF SourceStep

\* So do the steps of the job itself.
LEMMA JobKeeps ==
  ASSUME CircuitInv, JobsInv, NEW j \in Jobs,
         \/ BeginJob(j) \/ buildConnector(j) \/ RunAll(j) \/ Wait(j) \/ SaveResult(j)
         \/ UpdateDocument(j)
  PROVE  CircuitInv' /\ JobsInv'
<1>0. JobOK(j) /\ JobsType
  BY DEF JobsInv
<1>8. /\ job[j] \in [step : {"idle", "build", "run", "save"}, next : Nat \ {0}]
      /\ call[j] \in [SourcesOf(j) -> [step : CallSteps, probe : BOOLEAN]]
      /\ errs[j] \in BOOLEAN /\ outcome[j] \in {"none", "failed", "succeeded"}
  BY JobFacts
<1>9. [s \in SourcesOf(j) |-> NoCall] \in [SourcesOf(j) -> [step : CallSteps, probe : BOOLEAN]]
  BY DEF NoCall, CallSteps
<1>10. ASSUME circuit' = circuit PROVE CircuitInv'
  BY <1>10 DEF CircuitInv, CircuitOK
<1>1. CASE BeginJob(j)
  <2>1. /\ job'[j] = [step |-> "build", next |-> 1] /\ call'[j] = [s \in SourcesOf(j) |-> NoCall]
        /\ results'[j] = {} /\ errs'[j] = FALSE /\ saved'[j] = {} /\ outcome'[j] = "none"
        /\ circuit' = circuit
    BY <1>0, <1>1 DEF BeginJob, JobsType
  <2>2. OnlyJob(j)
    BY <1>1, <2>1 DEF BeginJob, OnlyJob
  <2>3. JobOK(j)'
    BY <2>1 DEF JobOK, NoCall
  <2>4. /\ job'[j] \in [step : {"idle", "build", "run", "save"}, next : Nat \ {0}]
        /\ errs'[j] \in BOOLEAN /\ outcome'[j] \in {"none", "failed", "succeeded"}
        /\ call'[j] \in [SourcesOf(j) -> [step : CallSteps, probe : BOOLEAN]]
    <3>1. job'[j] \in [step : {"idle", "build", "run", "save"}, next : Nat \ {0}]
      BY <2>1
    <3>2. errs'[j] \in BOOLEAN /\ outcome'[j] \in {"none", "failed", "succeeded"}
      BY <2>1
    <3>3. call'[j] \in [SourcesOf(j) -> [step : CallSteps, probe : BOOLEAN]]
      BY <1>9, <2>1
    <3> QED BY <3>1, <3>2, <3>3
  <2>5. JobsInv'
    BY <2>2, <2>3, <2>4, JobReplaced
  <2> QED BY <1>10, <2>1, <2>5
<1>2. CASE buildConnector(j)
  <2> DEFINE e == EndpointOf[SourceOrder[j][job[j].next]]
  <2>1. job[j].next \in 1 .. Len(SourceOrder[j]) /\ job[j].step = "build"
    <3>1. Len(SourceOrder[j]) \in Nat
      BY DiscoveryConstants
    <3>2. job[j].step = "build" /\ job[j].next <= Len(SourceOrder[j])
      BY <1>2 DEF buildConnector
    <3>3. job[j].next \in Nat \ {0}
      BY <1>8
    <3> QED BY <3>1, <3>2, <3>3
  <2>2. e \in Endpoints
    BY <2>1, DiscoveryConstants
  <2>3. circuit' = [circuit EXCEPT ![e] = allow(e).circuit]
    BY <1>2 DEF buildConnector
  <2>4. CircuitInv'
    BY <2>2, <2>3, AllowKeeps
  <2>5. UNCHANGED <<call, results, errs, saved>>
    BY <1>2 DEF buildConnector
  <2>6. CASE allow(e).refused
    <3>1. /\ job' = [job EXCEPT ![j].step = "idle"] /\ outcome' = [outcome EXCEPT ![j] = "failed"]
      BY <1>2, <2>6 DEF buildConnector, EndJob
    <3>2. job'[j] = [step |-> "idle", next |-> job[j].next] /\ outcome'[j] = "failed"
      BY <1>0, <1>8, <3>1 DEF JobsType
    <3>3. OnlyJob(j)
      BY <1>0, <2>5, <3>1, <3>2, JobFacts DEF OnlyJob, JobsType
    <3>4. JobOK(j)'
      BY <1>0, <2>1, <2>5, <3>2 DEF JobOK
    <3>5. JobsInv'
      BY <1>8, <2>5, <3>2, <3>3, <3>4, JobReplaced
    <3> QED BY <2>4, <3>5
  <2>7. CASE ~allow(e).refused
    <3>1. job' = [job EXCEPT ![j].next = job[j].next + 1] /\ outcome' = outcome
      BY <1>0, <1>2, <2>7 DEF buildConnector, JobsType
    <3>2. job'[j] = [step |-> "build", next |-> job[j].next + 1]
      BY <1>0, <1>8, <2>1, <3>1 DEF JobsType
    <3>3. OnlyJob(j)
      BY <1>0, <2>5, <3>1, <3>2, JobFacts DEF OnlyJob, JobsType
    <3>4. JobOK(j)'
      BY <1>0, <2>1, <2>5, <3>1, <3>2 DEF JobOK
    <3>5. job'[j] \in [step : {"idle", "build", "run", "save"}, next : Nat \ {0}]
      BY <1>8, <3>2
    <3>6. JobsInv'
      BY <1>8, <2>5, <3>1, <3>3, <3>4, <3>5, JobReplaced
    <3> QED BY <2>4, <3>6
  <2> QED BY <2>6, <2>7
<1>3. CASE RunAll(j)
  <2>1. /\ job[j].step = "build" /\ job' = [job EXCEPT ![j].step = "run"]
        /\ call' = [call EXCEPT ![j] = [s \in SourcesOf(j) |-> [step |-> "connect", probe |-> FALSE]]]
        /\ UNCHANGED <<circuit, results, errs, saved, outcome>>
    BY <1>3 DEF RunAll
  <2>2. /\ job'[j] = [step |-> "run", next |-> job[j].next]
        /\ call'[j] = [s \in SourcesOf(j) |-> [step |-> "connect", probe |-> FALSE]]
    BY <1>0, <1>8, <2>1 DEF JobsType
  <2>3. OnlyJob(j)
    BY <1>0, <2>1, <2>2, JobFacts DEF OnlyJob, JobsType
  <2>4. JobOK(j)'
    BY <1>0, <2>1, <2>2 DEF JobOK
  <2>5. call'[j] \in [SourcesOf(j) -> [step : CallSteps, probe : BOOLEAN]]
    BY <2>2 DEF CallSteps
  <2>6. JobsInv'
    BY <1>8, <2>1, <2>2, <2>3, <2>4, <2>5, JobReplaced
  <2> QED BY <1>10, <2>1, <2>6
<1>4. CASE Wait(j)
  <2>1. /\ job[j].step = "run" /\ job' = [job EXCEPT ![j].step = "save"]
        /\ call' = [call EXCEPT ![j] = [s \in SourcesOf(j) |-> NoCall]]
        /\ \A s \in SourcesOf(j) : call[j][s].step = "done"
        /\ UNCHANGED <<circuit, results, errs, saved, outcome>>
    BY <1>4 DEF Wait, StepOf
  <2>2. /\ job'[j] = [step |-> "save", next |-> job[j].next]
        /\ call'[j] = [s \in SourcesOf(j) |-> NoCall]
    BY <1>0, <1>8, <2>1 DEF JobsType
  <2>3. OnlyJob(j)
    BY <1>0, <2>1, <2>2, JobFacts DEF OnlyJob, JobsType
  <2>4. ~errs[j] => results[j] = SourcesOf(j)
    BY <1>0, <2>1 DEF JobOK
  <2>5. JobOK(j)'
    BY <1>0, <2>1, <2>2, <2>4 DEF JobOK, NoCall
  <2>6. JobsInv'
    BY <1>8, <1>9, <2>1, <2>2, <2>3, <2>5, JobReplaced
  <2> QED BY <1>10, <2>1, <2>6
<1>5. ASSUME NEW oc \in {"failed", "succeeded"}, EndJob(j, oc), job[j].step # "run",
             UNCHANGED <<call, results, errs, saved>>, oc = "succeeded" => saved[j] = SourcesOf(j)
      PROVE  JobsInv'
  <2>1. job' = [job EXCEPT ![j].step = "idle"] /\ outcome' = [outcome EXCEPT ![j] = oc]
    BY <1>5 DEF EndJob
  <2>2. job'[j] = [step |-> "idle", next |-> job[j].next] /\ outcome'[j] = oc
    BY <1>0, <1>8, <2>1 DEF JobsType
  <2>3. OnlyJob(j)
    BY <1>0, <1>5, <2>1, <2>2, JobFacts DEF OnlyJob, JobsType
  <2>4. JobOK(j)'
    BY <1>0, <1>5, <2>2 DEF JobOK
  <2> QED BY <1>8, <1>5, <2>2, <2>3, <2>4, JobReplaced
<1>6. CASE SaveResult(j)
  <2>1. job[j].step = "save" /\ UNCHANGED <<circuit, call, results, errs>>
    BY <1>6 DEF SaveResult
  <2>2. CASE EndJob(j, "failed") /\ UNCHANGED saved
    BY <1>5, <1>10, <2>1, <2>2
  <2>3. ASSUME NEW s \in NextToSave(j), saved' = [saved EXCEPT ![j] = @ \cup {s}],
               UNCHANGED <<job, outcome>>
        PROVE  JobsInv'
    <3>1. s \in results[j]
      BY <2>3 DEF NextToSave
    <3>2. saved'[j] = saved[j] \cup {s}
      BY <1>0, <2>3 DEF JobsType
    <3>3. OnlyJob(j)
      BY <1>0, <2>1, <2>3, <3>2, JobFacts DEF OnlyJob, JobsType
    <3>4. JobOK(j)'
      BY <1>0, <2>1, <2>3, <3>1, <3>2 DEF JobOK
    <3> QED BY <1>8, <2>1, <2>3, <3>3, <3>4, JobReplaced
  <2> QED BY <1>6, <1>10, <2>1, <2>2, <2>3 DEF SaveResult
<1>7. CASE UpdateDocument(j)
  <2>1. /\ job[j].step = "save" /\ results[j] \subseteq saved[j]
        /\ UNCHANGED <<circuit, call, results, errs, saved>>
    BY <1>7 DEF UpdateDocument
  <2>2. PICK ok \in BOOLEAN : EndJob(j, IF ok /\ ~errs[j] THEN "succeeded" ELSE "failed")
    BY <1>7 DEF UpdateDocument
  <2>3. ~errs[j] => saved[j] = SourcesOf(j)
    BY <1>0, <2>1 DEF JobOK
  <2>4. JobsInv'
    <3>1. CASE ok /\ ~errs[j]
      <4>1. EndJob(j, "succeeded")
        BY <2>2, <3>1
      <4> QED BY <1>5, <2>1, <2>3, <3>1, <4>1
    <3>2. CASE ~(ok /\ ~errs[j])
      <4>1. EndJob(j, "failed")
        BY <2>2, <3>2
      <4> QED BY <1>5, <2>1, <4>1
    <3> QED BY <3>1, <3>2
  <2> QED BY <1>10, <2>1, <2>4
<1> QED BY <1>1, <1>2, <1>3, <1>4, <1>6, <1>7

\* For every set of jobs, sources and endpoints, and whatever the order in which
\* calls are admitted, fail and answer: a discovery that succeeded has saved every
\* source, RunAll leaves no goroutine behind, and a closed circuit is below its
\* threshold.
THEOREM DiscoveriesComplete == DSpec => []DiscoveryIsComplete
<1>1. CircuitInv /\ JobsInv => DiscoveryIsComplete
  <2> SUFFICES ASSUME CircuitInv, JobsInv PROVE DiscoveryIsComplete
    OBVIOUS
  <2>1. ASSUME NEW e \in Endpoints
        PROVE  /\ circuit[e].state \in CircuitStates
               /\ circuit[e].failures \subseteq [age : 0 .. FailureWindow - 1, nth : Nat]
               /\ circuit[e].left \in 0 .. OpenDuration
               /\ circuit[e].state = "closed" => Cardinality(circuit[e].failures) < FailureThreshold
    BY DEF CircuitInv, CircuitOK
  <2>2. ASSUME NEW j \in Jobs
        PROVE  /\ job[j].step \in {"idle", "build", "run", "save"}
               /\ saved[j] \subseteq results[j]
               /\ job[j].step # "run" => call[j] = [s \in SourcesOf(j) |-> NoCall]
               /\ outcome[j] = "succeeded" => saved[j] = SourcesOf(j)
    <3>1. JobOK(j) /\ job[j] \in [step : {"idle", "build", "run", "save"}, next : Nat \ {0}]
      BY JobFacts
    <3> QED BY <3>1 DEF JobOK
  <2>3. DTypeOK
    BY <2>1, <2>2 DEF DTypeOK
  <2>4. ClosedIsBelowThreshold /\ SucceededSavedAll
    BY <2>1, <2>2 DEF ClosedIsBelowThreshold, SucceededSavedAll
  <2> QED BY <2>3, <2>4 DEF DiscoveryIsComplete
<1>2. ASSUME CircuitInv, JobsInv, [DNext]_dvars
      PROVE  (CircuitInv /\ JobsInv)'
  <2>1. ASSUME NEW j \in Jobs, BeginJob(j) \/ JobStep(j) PROVE (CircuitInv /\ JobsInv)'
    BY <1>2, <2>1, JobKeeps, SourceKeeps DEF JobStep
  <2>2. ASSUME UNCHANGED <<job, call, results, errs, saved, outcome>> PROVE JobsInv'
    BY <1>2, <2>2 DEF JobsInv, JobsType, JobOK
  <2>3. CASE Tick
    <3>1. UNCHANGED <<job, call, results, errs, saved, outcome>>
      BY <2>3 DEF Tick, jobvars
    <3> QED BY <1>2, <2>2, <2>3, <3>1, TickKeeps
  <2>4. CASE Repair
    <3>1. UNCHANGED <<circuit, job, call, results, errs, saved, outcome>>
      BY <2>4 DEF Repair, jobvars
    <3>2. CircuitInv'
      BY <1>2, <3>1 DEF CircuitInv, CircuitOK
    <3> QED BY <2>2, <3>1, <3>2
  <2>5. CASE UNCHANGED dvars
    <3>1. UNCHANGED <<circuit, job, call, results, errs, saved, outcome>>
      BY <2>5 DEF dvars
    <3>2. CircuitInv'
      BY <1>2, <3>1 DEF CircuitInv, CircuitOK
    <3> QED BY <2>2, <3>1, <3>2
  <2> QED BY <1>2, <2>1, <2>3, <2>4, <2>5 DEF DNext
<1> QED BY <1>1, <1>2, DiscoveryInit, PTL DEF DSpec
=============================================================================
