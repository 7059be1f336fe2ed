------------------------ MODULE WarmMigrationProofs ------------------------
(***************************************************************************)
(* Proofs about WarmMigration for every block size, disk, number of sync   *)
(* rounds and of cutovers, with faults and crashes at every step: the      *)
(* stored progress is true, the target VM starts from a complete copy,     *)
(* a copy is never spoiled, and source and target run together only after  *)
(* the source was brought back.                                            *)
(***************************************************************************)
EXTENDS WarmMigration, SequenceTheorems, TLAPS

-----------------------------------------------------------------------------
\* Blocks and disks.

\* Offsets of blocks: products of a block's index and the block size.
LEMMA Offsets ==
  /\ BlockSize \in Nat /\ BlockSize > 0
  /\ \A b \in Nat : b * BlockSize \in Nat /\ (b + 1) * BlockSize = b * BlockSize + BlockSize
  /\ 0 * BlockSize = 0
  /\ \A b, c \in Nat : b < c => b * BlockSize + BlockSize <= c * BlockSize
<1>1. BlockSize \in Nat /\ BlockSize > 0
  BY WarmAssumption
<1>2. \A b \in Nat : b * BlockSize \in Nat /\ (b + 1) * BlockSize = b * BlockSize + BlockSize
  BY <1>1
<1>3. \A b, c \in Nat : b < c => b * BlockSize + BlockSize <= c * BlockSize
  <2> SUFFICES ASSUME NEW b \in Nat, NEW c \in Nat, b < c
               PROVE  b * BlockSize + BlockSize <= c * BlockSize
    OBVIOUS
  <2>1. PICK k \in Nat : c = b + 1 + k
    <3>1. c - b - 1 \in Nat /\ c = b + 1 + (c - b - 1)
      OBVIOUS
    <3> QED BY <3>1
  <2>2. (b + 1 + k) * BlockSize = b * BlockSize + BlockSize + k * BlockSize
    BY <1>1
  <2> QED BY <1>1, <1>2, <2>1, <2>2
<1> QED BY <1>1, <1>2, <1>3

\* blockCount: the last block begins inside the disk and ends at its end or later.
LEMMA BlockCountFacts ==
  ASSUME NEW n \in Nat
  PROVE  /\ BlockCount(n) \in Nat
         /\ BlockCount(n) * BlockSize >= n
         /\ BlockCount(n) * BlockSize < n + BlockSize
<1>1. BlockSize \in Nat /\ BlockSize > 0
  BY WarmAssumption
<1> DEFINE m == n + BlockSize - 1
           q == m \div BlockSize
           r == m % BlockSize
<1>2. m \in Nat
  BY <1>1
<1> HIDE DEF m
<1>3. q \in Nat /\ r \in 0..(BlockSize - 1) /\ m = BlockSize * q + r
  BY <1>1, <1>2
<1> HIDE DEF q, r
<1>4. q * BlockSize = BlockSize * q /\ q * BlockSize \in Nat
  BY <1>1, <1>3
<1>5. q * BlockSize >= n /\ q * BlockSize < n + BlockSize
  BY <1>1, <1>3, <1>4 DEF m
<1> QED BY <1>3, <1>5 DEF BlockCount, q, m

\* WriteAt within or at the end of a file: the cells replace what is there.
LEMMA WrittenFacts ==
  ASSUME NEW d \in Seq(Contents), NEW x \in Seq(Contents), NEW off \in Nat, off <= Len(d)
  PROVE  /\ Written(d, off, x) \in Seq(Contents)
         /\ Len(Written(d, off, x)) = IF off + Len(x) > Len(d) THEN off + Len(x) ELSE Len(d)
         /\ \A i \in 1..Len(Written(d, off, x)) :
              Written(d, off, x)[i] = IF i \in (off + 1)..(off + Len(x)) THEN x[i - off] ELSE d[i]
<1>1. Len(d) \in Nat /\ Len(x) \in Nat /\ d \in [1..Len(d) -> Contents] /\ x \in [1..Len(x) -> Contents]
  BY LenProperties
<1>2. CASE x = <<>>
  <2>1. Len(x) = 0 /\ Written(d, off, x) = d
    BY <1>2 DEF Written
  <2>2. ~(off + Len(x) > Len(d)) /\ \A i \in 1..Len(d) : i \notin (off + 1)..(off + Len(x))
    BY <1>1, <2>1
  <2> QED BY <2>1, <2>2
<1>3. CASE x # <<>>
  <2> DEFINE n == IF off + Len(x) > Len(d) THEN off + Len(x) ELSE Len(d)
             e(i) == IF i \in (off + 1)..(off + Len(x)) THEN x[i - off] ELSE d[i]
             w == [i \in 1..n |-> e(i)]
  <2>1. Written(d, off, x) = w
    BY <1>3 DEF Written
  <2>2. n \in Nat
    BY <1>1
  <2>3. \A i \in 1..n : e(i) \in Contents
    BY <1>1
  <2>4. w \in Seq(Contents)
    <3>1. w \in [1..n -> Contents]
      BY <2>3
    <3> HIDE DEF w, n
    <3> QED BY <2>2, <3>1, SeqDef
  <2>5. Len(w) = n
    <3> HIDE DEF e, n
    <3>1. DOMAIN w = 1..n /\ DOMAIN w = 1..Len(w) /\ Len(w) \in Nat
      BY <2>4, LenProperties
    <3> HIDE DEF w
    <3> QED BY <2>2, <3>1
  <2>6. \A i \in 1..n : w[i] = e(i)
    OBVIOUS
  <2> QED BY <2>1, <2>4, <2>5, <2>6
<1> QED BY <1>2, <1>3

\* The first k cells of a sequence.
LEMMA PrefixFacts ==
  ASSUME NEW x \in Seq(Contents), NEW k \in 0..Len(x)
  PROVE  /\ SubSeq(x, 1, k) \in Seq(Contents) /\ Len(SubSeq(x, 1, k)) = k
         /\ \A i \in 1..k : SubSeq(x, 1, k)[i] = x[i]
<1>1. Len(x) \in Nat /\ x \in [1..Len(x) -> Contents]
  BY LenProperties
<1>2. \A i \in 1..k : x[i] \in Contents
  BY <1>1
<1>3. 1 \in Int /\ k \in Int
  BY <1>1
<1>4. /\ SubSeq(x, 1, k) \in Seq(Contents)
      /\ Len(SubSeq(x, 1, k)) = IF 1 <= k THEN k - 1 + 1 ELSE 0
      /\ \A i \in 1..(k - 1 + 1) : SubSeq(x, 1, k)[i] = x[1 + i - 1]
  BY <1>2, <1>3, SubSeqProperties
<1> QED BY <1>1, <1>4

\* What is read at offset off, at most up to end or the end of the disk.
LEMMA ReadFacts ==
  ASSUME NEW d \in Seq(Contents), NEW off \in Nat, NEW n \in Nat
  PROVE  LET end == IF off + n <= Len(d) THEN off + n ELSE Len(d)
             x == SubSeq(d, off + 1, end)
         IN  /\ x \in Seq(Contents)
             /\ Len(x) = IF off <= end THEN end - off ELSE 0
             /\ \A i \in 1..Len(x) : x[i] = d[off + i]
<1> DEFINE end == IF off + n <= Len(d) THEN off + n ELSE Len(d)
           x == SubSeq(d, off + 1, end)
<1>1. Len(d) \in Nat /\ d \in [1..Len(d) -> Contents]
  BY LenProperties
<1>2. end \in Int /\ off + 1 \in Int /\ \A i \in (off + 1)..end : d[i] \in Contents
  BY <1>1
<1>3. end <= Len(d) /\ end \in Nat
  BY <1>1
<1> HIDE DEF end
<1>4. /\ x \in Seq(Contents)
      /\ Len(x) = IF off + 1 <= end THEN end - (off + 1) + 1 ELSE 0
      /\ \A i \in 1..(end - (off + 1) + 1) : x[i] = d[off + 1 + i - 1]
  BY <1>2, SubSeqProperties
<1>5. Len(x) = IF off <= end THEN end - off ELSE 0
  BY <1>3, <1>4
<1>6. \A i \in 1..Len(x) : x[i] = d[off + i]
  <2>1. ASSUME NEW i \in 1..Len(x) PROVE x[i] = d[off + i]
    <3>1. i \in 1..(end - (off + 1) + 1) /\ off + 1 + i - 1 = off + i
      BY <1>3, <1>5
    <3> QED BY <1>4, <3>1
  <2> QED BY <2>1
<1> QED BY <1>4, <1>5, <1>6 DEF end

\* readAtMost: a block holds BlockSize cells, or what is left of the disk.
LEMMA BlockFacts ==
  ASSUME NEW d \in Seq(Contents), NEW b \in Nat
  PROVE  /\ Block(d, b) \in Seq(Contents)
         /\ Len(Block(d, b)) = IF Len(d) <= b * BlockSize THEN 0
                               ELSE IF b * BlockSize + BlockSize <= Len(d) THEN BlockSize
                               ELSE Len(d) - b * BlockSize
         /\ \A i \in 1..Len(Block(d, b)) : Block(d, b)[i] = d[b * BlockSize + i]
<1> DEFINE off == b * BlockSize
           end == IF off + BlockSize <= Len(d) THEN off + BlockSize ELSE Len(d)
           x == SubSeq(d, off + 1, end)
<1>1. off \in Nat /\ (b + 1) * BlockSize = off + BlockSize /\ BlockSize \in Nat /\ BlockSize > 0
  BY Offsets
<1>2. Block(d, b) = x
  BY <1>1 DEF Block
<1> HIDE DEF off
<1>3. /\ x \in Seq(Contents)
      /\ Len(x) = IF off <= end THEN end - off ELSE 0
      /\ \A i \in 1..Len(x) : x[i] = d[off + i]
  BY <1>1, ReadFacts
<1>4. Len(d) \in Nat
  BY LenProperties
<1>5. Len(x) = IF Len(d) <= off THEN 0
               ELSE IF off + BlockSize <= Len(d) THEN BlockSize
               ELSE Len(d) - off
  BY <1>1, <1>3, <1>4
<1> QED BY <1>2, <1>3, <1>5 DEF off

-----------------------------------------------------------------------------
\* The cutover and the power of the VMs.

\* Types of what the cutover and the replicator's state are made of.
ControlType ==
  /\ power \in {"on", "off"}
  /\ rep \in ReplicatorType /\ saved \in ReplicatorType
  /\ pc \in {"idle", "copy", "sync", "point", "poweroff", "final", "create", "start", "boot"}
  /\ point \in {"none", "on", "off"}
  /\ vms \in 0..MaxCutovers /\ on \subseteq 1..vms
  /\ cuts \in 0..MaxCutovers /\ orig \in {"on", "off"}
  /\ verified \in BOOLEAN

\* A cutover is not verified while it runs, takes its recovery point before it
\* powers the source off, and runs the final sync and the target VM with the
\* source off.  It creates at most one VM.
CutoverOK ==
  /\ pc \in {"final", "create", "start", "boot"} => power = "off"
  /\ pc \in {"poweroff", "final", "create", "start", "boot"} => point \in {"on", "off"}
  /\ pc \in {"point", "poweroff"} => rep.rounds < MaxRounds
  /\ vms <= cuts /\ (pc \in {"point", "poweroff", "final", "create"} => vms < cuts)
  /\ pc \in {"start", "boot"} => vms > 0
  /\ pc \in {"point", "poweroff", "final", "create", "start", "boot"} => ~verified

\* The first cutover's recovery point has the power that the source had.
PointOK ==
  /\ cuts = 1 /\ pc = "point" => power = orig
  /\ cuts = 1 /\ orig = "on" /\ pc = "poweroff" => point = "on"
  /\ PoweredOffIsRecoverable

ControlInv == ControlType /\ CutoverOK /\ PointOK

\* The steps of a copy or a sync that goes on or ends leave the cutover alone.
LEMMA ControlFrame ==
  ASSUME ControlInv, UNCHANGED <<power, cutover, target>>, rep' \in ReplicatorType,
         saved' \in ReplicatorType,
         pc' \in {"idle", "copy", "sync"} \/ (pc' = pc /\ rep' = rep) \/ (pc = "final" /\ pc' = "create")
  PROVE  ControlInv'
<1>1. UNCHANGED <<power, point, cuts, orig, verified, vms, on>>
  BY DEF cutover, target
<1>2. ControlType'
  BY <1>1 DEF ControlInv, ControlType
<1>3. CutoverOK'
  BY <1>1 DEF ControlInv, CutoverOK
<1>4. PointOK'
  BY <1>1 DEF ControlInv, PointOK, PoweredOffIsRecoverable
<1> QED BY <1>2, <1>3, <1>4 DEF ControlInv

\* One more round.
LEMMA NextRound ==
  ASSUME NEW r \in ReplicatorType, r.rounds < MaxRounds,
         NEW phase \in {"incremental-sync", "final-sync"}
  PROVE  [r EXCEPT !.phase = phase, !.rounds = @ + 1] \in ReplicatorType
<1> DEFINE q == [r EXCEPT !.phase = phase]
<1>1. q \in ReplicatorType /\ q.rounds = r.rounds
  BY DEF ReplicatorType
<1>2. r.rounds + 1 \in 0..MaxRounds
  BY WarmAssumption DEF ReplicatorType
<1>3. [r EXCEPT !.phase = phase, !.rounds = @ + 1] = [q EXCEPT !.rounds = r.rounds + 1]
  OBVIOUS
<1> HIDE DEF q
<1>4. [q EXCEPT !.rounds = r.rounds + 1] \in ReplicatorType
  BY <1>1, <1>2 DEF ReplicatorType
<1> QED BY <1>3, <1>4

\* Every step of the replicator keeps the types of its state.
LEMMA ReplicatorTypes ==
  ASSUME WTypeOK, ReplicatorStep \/ GuestWrites \/ Crash
  PROVE  rep' \in ReplicatorType /\ saved' \in ReplicatorType
<1>1. /\ rep \in ReplicatorType /\ saved \in ReplicatorType /\ MaxRounds \in Nat
      /\ Len(tgt) \in Nat /\ Len(buf) \in Nat /\ Len(src) \in Nat
  BY LenProperties, WarmAssumption DEF WTypeOK
<1>2. NewReplicator \in ReplicatorType
  BY <1>1 DEF NewReplicator, ReplicatorType
<1>3. CASE StartInitialCopy
  BY <1>1, <1>3 DEF StartInitialCopy, ReplicatorType
<1>4. CASE CopyWrites
  BY <1>1, <1>4 DEF CopyWrites, ReplicatorType
<1>5. CASE RunIncrementalSync
  BY <1>1, <1>5, NextRound DEF RunIncrementalSync, BeginSync
<1>6. CASE CopyEnds \/ SyncFails \/ SyncEnds
  BY <1>1, <1>6 DEF CopyEnds, SyncFails, SyncEnds, Persist
<1>7. CASE CopyReads \/ CopyWriteFails \/ SyncReads \/ SyncWrites
  BY <1>1, <1>7 DEF CopyReads, CopyWriteFails, SyncReads, SyncWrites
<1>8. CASE LoadState \/ GuestWrites \/ Crash
  BY <1>1, <1>2, <1>8 DEF LoadState, GuestWrites, Crash, replicator
<1> QED BY <1>3, <1>4, <1>5, <1>6, <1>7, <1>8 DEF ReplicatorStep

\* Every step keeps the control invariant.
LEMMA ControlStep ==
  ASSUME WTypeOK, ControlInv, [WNext]_wvars
  PROVE  ControlInv'
<1>1. ControlType /\ CutoverOK /\ PointOK /\ MaxRounds \in Nat /\ MaxCutovers \in Nat
  BY WarmAssumption DEF ControlInv
<1>2. CASE ReplicatorStep
  <2>1. rep' \in ReplicatorType /\ saved' \in ReplicatorType
    BY <1>2, ReplicatorTypes
  <2>2. UNCHANGED <<power, cutover, target>>
    BY <1>2 DEF ReplicatorStep, StartInitialCopy, CopyReads, CopyWrites, CopyWriteFails, CopyEnds,
         RunIncrementalSync, SyncReads, SyncWrites, SyncFails, SyncEnds, LoadState
  <2>3. pc' \in {"idle", "copy", "sync"} \/ (pc' = pc /\ rep' = rep) \/ (pc = "final" /\ pc' = "create")
    BY <1>2 DEF ReplicatorStep, StartInitialCopy, CopyReads, CopyWrites, CopyWriteFails, CopyEnds,
         RunIncrementalSync, BeginSync, SyncReads, SyncWrites, SyncFails, SyncEnds, Syncing, LoadState
  <2> QED BY <2>1, <2>2, <2>3, ControlFrame
<1>3. CASE Crash \/ GuestWrites
  <2>1. rep' \in ReplicatorType /\ saved' \in ReplicatorType
    BY <1>3, ReplicatorTypes
  <2>2. UNCHANGED <<power, cutover, target>> /\ (pc' = "idle" \/ (pc' = pc /\ rep' = rep))
    BY <1>3 DEF Crash, GuestWrites, replicator
  <2> QED BY <2>1, <2>2, ControlFrame
<1>4. CASE UNCHANGED wvars
  <2>1. UNCHANGED <<power, cutover, target, rep, saved, pc>>
    BY <1>4 DEF wvars, replicator
  <2>2. rep' \in ReplicatorType /\ saved' \in ReplicatorType
    BY <1>1, <2>1 DEF ControlType
  <2> QED BY <2>1, <2>2, ControlFrame
<1>5. CASE OperatorPowersOn
  BY <1>1, <1>5 DEF OperatorPowersOn, ControlInv, ControlType, CutoverOK, PointOK,
       PoweredOffIsRecoverable, replicator, cutover, target
<1>6. CASE StartCutover
  <2>1. /\ pc = "idle" /\ pc' = "point" /\ cuts < MaxCutovers /\ cuts' = cuts + 1
        /\ rep' \in {rep, saved} /\ rep'.rounds < MaxRounds
        /\ orig' = IF cuts = 0 THEN power ELSE orig
        /\ UNCHANGED <<power, saved, point, vms, on>>
    BY <1>6 DEF StartCutover, target
  <2>2. verified' \in BOOLEAN /\ ~verified'
    BY <1>6 DEF StartCutover
  <2>3. ControlType'
    BY <1>1, <2>1, <2>2 DEF ControlType
  <2>4. CutoverOK'
    BY <1>1, <2>1, <2>2 DEF CutoverOK, ControlType
  <2>5. PointOK'
    BY <1>1, <2>1 DEF PointOK, PoweredOffIsRecoverable, ControlType
  <2> QED BY <2>3, <2>4, <2>5 DEF ControlInv
<1>7. CASE CutoverTakesPoint
  BY <1>1, <1>7 DEF CutoverTakesPoint, ControlInv, ControlType, CutoverOK, PointOK,
       PoweredOffIsRecoverable, replicator, target
<1>8. CASE CutoverPowersOff
  <2>1. /\ pc = "poweroff" /\ power' = "off" /\ pc' = "final"
        /\ rep' = [rep EXCEPT !.phase = "final-sync", !.rounds = @ + 1]
        /\ UNCHANGED <<saved, point, cuts, orig, verified, vms, on>>
    BY <1>8 DEF CutoverPowersOff, BeginSync, cutover, target
  <2>2. rep' \in ReplicatorType
    BY <1>1, <2>1, NextRound DEF ControlType, CutoverOK
  <2> QED BY <1>1, <2>1, <2>2 DEF ControlInv, ControlType, CutoverOK, PointOK, PoweredOffIsRecoverable
<1>9. CASE CutoverCreates
  BY <1>1, <1>9 DEF CutoverCreates, ControlInv, ControlType, CutoverOK, PointOK,
       PoweredOffIsRecoverable, replicator, cutover
<1>10. CASE CutoverStarts
  BY <1>1, <1>10 DEF CutoverStarts, ControlInv, ControlType, CutoverOK, PointOK,
       PoweredOffIsRecoverable, replicator, cutover
<1>11. CASE CutoverFails
  <2>1. /\ pc' = "idle" /\ UNCHANGED <<rep, saved, point, cuts, orig, verified, vms>>
        /\ \/ UNCHANGED <<power, on>>
           \/ pc = "poweroff" /\ power' = "off" /\ UNCHANGED on
           \/ pc = "start" /\ on' = on \cup {vms} /\ UNCHANGED power
    BY <1>11 DEF CutoverFails, replicator, cutover
  <2>2. ControlType'
    <3>1. pc = "start" => vms \in 1..vms
      BY <1>1 DEF ControlType, CutoverOK
    <3>2. on' \subseteq 1..vms
      BY <1>1, <2>1, <3>1 DEF ControlType
    <3> QED BY <1>1, <2>1, <3>2 DEF ControlType
  <2>3. CutoverOK'
    BY <1>1, <2>1 DEF CutoverOK
  <2>4. PointOK'
    BY <1>1, <2>1 DEF PointOK, PoweredOffIsRecoverable
  <2> QED BY <2>2, <2>3, <2>4 DEF ControlInv
<1>12. CASE CutoverVerified
  BY <1>1, <1>12 DEF CutoverVerified, ControlInv, ControlType, CutoverOK, PointOK,
       PoweredOffIsRecoverable, replicator, target
<1>13. CASE BootFails
  BY <1>1, <1>13 DEF BootFails, ControlInv, ControlType, CutoverOK, PointOK,
       PoweredOffIsRecoverable, replicator, cutover, target
<1> QED BY <1>2, <1>3, <1>4, <1>5, <1>6, <1>7, <1>8, <1>9, <1>10, <1>11, <1>12, <1>13
           DEF WNext, CutoverStep

-----------------------------------------------------------------------------
\* The disks.

\* Types of the disks and of the locals of a copy or a sync.
DataType ==
  /\ src \in Seq(Contents) /\ Len(src) \in 1..MaxSize
  /\ tgt \in Seq(Contents) /\ buf \in Seq(Contents)
  /\ pos \in Nat /\ blocks \in Nat /\ size \in Nat

\* The cells in the buffer are those of the source from offset off on.
Holds(off) == \A i \in 1..Len(buf) : buf[i] = src[off + i]

\* Only a copy or a sync has read something.
BufferOK == pc \notin {"copy", "sync", "final"} => buf = <<>>

\* A copy has written, and counted, all cells before its position, reads no
\* further than the source, and has read what is there unless a guest wrote.
CopyOK ==
  pc = "copy" =>
    /\ pos <= Len(tgt) /\ pos + Len(buf) <= Len(src)
    /\ power = "off" => Holds(pos)
    /\ rep.phase = "initial-copy" /\ rep.bytes = pos

\* So it is with a sync, block by block; every block but the last is whole.
SyncOK ==
  pc \in {"sync", "final"} =>
    /\ pos <= blocks /\ blocks * BlockSize < Len(src) + BlockSize
    /\ pos < blocks => pos * BlockSize <= Len(tgt)
    /\ buf # <<>> =>
         /\ pos < blocks /\ pos * BlockSize + Len(buf) <= Len(src)
         /\ pos + 1 < blocks => Len(buf) = BlockSize
         /\ power = "off" => Holds(pos * BlockSize)

\* The bytes that were reported or persisted are on the disk, and a file longer
\* than the source was truncated before they were.
ProgressOK ==
  /\ ProgressIsOnDisk
  /\ rep.phase = "initial-copy" \/ saved.phase = "initial-copy" => Len(tgt) <= Len(src)

\* The first n cells of the source are on the target.
Same(n) == \A i \in 1..Len(src) : i <= n => i <= Len(tgt) /\ tgt[i] = src[i]

\* The final sync leaves no cell behind that it has passed, and covers the disk.
FinalOK ==
  /\ pc = "final" =>
       /\ blocks * BlockSize >= Len(src) /\ Same(pos * BlockSize)
       /\ buf # <<>> => Len(buf) = BlockSize \/ pos * BlockSize + Len(buf) = Len(src)
  /\ pc \in {"create", "start"} => Same(Len(src))

DataInv == DataType /\ BufferOK /\ CopyOK /\ SyncOK /\ ProgressOK /\ FinalOK

WarmInv == ControlInv /\ DataInv

\* The parts of the invariant are the type invariant and more.
LEMMA WarmTypes ==
  ASSUME WarmInv
  PROVE  WTypeOK
BY DEF WarmInv, ControlInv, ControlType, DataInv, DataType, SyncOK, WTypeOK, Syncing

\* Lengths are numbers.
LEMMA Lengths ==
  ASSUME DataType
  PROVE  /\ Len(src) \in Nat /\ Len(src) > 0 /\ Len(tgt) \in Nat /\ Len(buf) \in Nat
         /\ buf = <<>> <=> Len(buf) = 0
<1>1. Len(src) \in Nat /\ Len(src) > 0 /\ Len(tgt) \in Nat /\ Len(buf) \in Nat
  BY LenProperties DEF DataType
<1>2. buf = <<>> <=> Len(buf) = 0
  BY EmptySeq DEF DataType
<1> QED BY <1>1, <1>2

\* Writing the first cells of the buffer at their place, wholly or not.
LEMMA WriteFacts ==
  ASSUME DataType, NEW off \in Nat, off <= Len(tgt), off + Len(buf) <= Len(src),
         NEW k \in 0..Len(buf), tgt' = Written(tgt, off, SubSeq(buf, 1, k))
  PROVE  /\ tgt' \in Seq(Contents) /\ Len(tgt') \in Nat
         /\ Len(tgt') >= Len(tgt) /\ Len(tgt') >= off + k
         /\ Len(tgt) <= Len(src) => Len(tgt') <= Len(src)
         /\ \A i \in 1..Len(tgt') :
              tgt'[i] = IF i \in (off + 1)..(off + k) THEN buf[i - off] ELSE tgt[i]
<1> DEFINE x == SubSeq(buf, 1, k)
<1>1. x \in Seq(Contents) /\ Len(x) = k /\ \A i \in 1..k : x[i] = buf[i]
  BY PrefixFacts DEF DataType
<1>2. tgt' = Written(tgt, off, x) /\ tgt \in Seq(Contents)
  BY DEF DataType
<1> HIDE DEF x
<1>3. /\ tgt' \in Seq(Contents)
      /\ Len(tgt') = IF off + Len(x) > Len(tgt) THEN off + Len(x) ELSE Len(tgt)
      /\ \A i \in 1..Len(tgt') :
           tgt'[i] = IF i \in (off + 1)..(off + Len(x)) THEN x[i - off] ELSE tgt[i]
  <2>1. /\ Written(tgt, off, x) \in Seq(Contents)
        /\ Len(Written(tgt, off, x)) = IF off + Len(x) > Len(tgt) THEN off + Len(x) ELSE Len(tgt)
        /\ \A i \in 1..Len(Written(tgt, off, x)) :
             Written(tgt, off, x)[i] = IF i \in (off + 1)..(off + Len(x)) THEN x[i - off] ELSE tgt[i]
    BY <1>1, <1>2, WrittenFacts
  <2> QED BY <1>2, <2>1, Zenon
<1>4. Len(src) \in Nat /\ Len(tgt) \in Nat /\ Len(buf) \in Nat /\ k \in Nat
  BY Lengths
<1>5. \A i \in 1..Len(tgt') :
        tgt'[i] = IF i \in (off + 1)..(off + k) THEN buf[i - off] ELSE tgt[i]
  <2>1. ASSUME NEW i \in 1..Len(tgt') PROVE i \in (off + 1)..(off + k) => i - off \in 1..k
    BY <1>4
  <2> QED BY <1>1, <1>3, <2>1
<1> QED BY <1>1, <1>3, <1>4, <1>5

\* A whole buffer.
LEMMA WholeBuffer ==
  ASSUME DataType
  PROVE  SubSeq(buf, 1, Len(buf)) = buf
<1>1. Len(buf) \in 0..Len(buf) /\ buf \in Seq(Contents)
  BY Lengths DEF DataType
<1>2. /\ SubSeq(buf, 1, Len(buf)) \in Seq(Contents) /\ Len(SubSeq(buf, 1, Len(buf))) = Len(buf)
      /\ \A i \in 1..Len(buf) : SubSeq(buf, 1, Len(buf))[i] = buf[i]
  BY <1>1, PrefixFacts
<1> QED BY <1>1, <1>2, SeqEqual

\* A call that ends: what was reported is still on the disk.
LEMMA EndFrame ==
  ASSUME DataInv, DataType', pc' = "idle", buf' = <<>>, src' = src,
         Len(tgt') >= Len(tgt), Len(tgt) <= Len(src) => Len(tgt') <= Len(src),
         rep' \in {rep, saved, NewReplicator}, saved' \in {saved, rep},
         rep \in ReplicatorType, saved \in ReplicatorType
  PROVE  DataInv'
<1>1. ProgressOK
  BY DEF DataInv
<1>2. rep.bytes \in Nat /\ saved.bytes \in Nat /\ NewReplicator.phase # "initial-copy"
  BY DEF ReplicatorType, NewReplicator
<1>3. Len(tgt) \in Nat /\ Len(tgt') \in Nat
  BY LenProperties DEF DataInv, DataType
<1>4. ProgressOK'
  BY <1>1, <1>2, <1>3 DEF ProgressOK, ProgressIsOnDisk
<1> QED BY <1>4 DEF DataInv, BufferOK, CopyOK, SyncOK, FinalOK

\* Disks, locals and what is stored are unchanged.
LEMMA DataFrame ==
  ASSUME DataInv, UNCHANGED <<disks, locals, saved>>,
         buf = <<>>, pc' \in {"idle", "point", "poweroff", "create", "start", "boot"},
         rep' \in {rep, saved}, pc' \in {"create", "start"} => Same(Len(src))
  PROVE  DataInv'
<1>1. UNCHANGED <<src, tgt, buf, pos, blocks, size, saved>>
  BY DEF disks, locals
<1>2. DataType' /\ BufferOK' /\ CopyOK' /\ SyncOK'
  BY <1>1 DEF DataInv, DataType, BufferOK, CopyOK, SyncOK
<1>3. ProgressOK'
  BY <1>1 DEF DataInv, ProgressOK, ProgressIsOnDisk
<1>4. FinalOK'
  BY <1>1 DEF FinalOK, Same
<1> QED BY <1>2, <1>3, <1>4 DEF DataInv

\* The steps of the cutover that leave the disks alone.
LEMMA CutoverData ==
  ASSUME WarmInv, CutoverStep, ~CutoverPowersOff
  PROVE  DataInv'
<1>1. ControlInv /\ DataInv
  BY DEF WarmInv
<1>2. UNCHANGED <<disks, locals, saved>> /\ rep' \in {rep, saved}
  BY DEF CutoverStep, StartCutover, CutoverTakesPoint, CutoverCreates, CutoverStarts,
         CutoverFails, CutoverVerified, BootFails, replicator
<1>3. /\ pc \in {"idle", "point", "poweroff", "create", "start", "boot"}
      /\ pc' \in {"idle", "point", "poweroff", "start", "boot"}
      /\ pc' = "start" => pc = "create"
  BY DEF CutoverStep, StartCutover, CutoverTakesPoint, CutoverCreates, CutoverStarts,
         CutoverFails, CutoverVerified, BootFails
<1>4. buf = <<>> /\ (pc = "create" => Same(Len(src)))
  BY <1>1, <1>3 DEF DataInv, BufferOK, FinalOK
<1> QED BY <1>1, <1>2, <1>3, <1>4, DataFrame

\* The guest writes while no final copy is being made.
LEMMA GuestData ==
  ASSUME WarmInv, GuestWrites
  PROVE  DataInv'
<1>1. ControlInv /\ DataInv /\ DataType
  BY DEF WarmInv, DataInv
<1>2. /\ power = "on" /\ UNCHANGED <<tgt, power, rep, saved, buf, pos, blocks, size, pc>>
  BY DEF GuestWrites, replicator, locals
<1>3. pc \notin {"final", "create", "start"}
  BY <1>1, <1>2 DEF ControlInv, CutoverOK
<1>4. src' \in Seq(Contents) /\ Len(src') \in 1..MaxSize /\ Len(src') >= Len(src)
  <2>1. ASSUME NEW i \in 1..Len(src), NEW c \in Contents, src' = [src EXCEPT ![i] = c]
        PROVE  src' \in Seq(Contents) /\ Len(src') = Len(src)
    BY <1>1, <2>1, ExceptSeq DEF DataType
  <2>2. ASSUME NEW c \in Contents, src' = Append(src, c)
        PROVE  src' \in Seq(Contents) /\ Len(src') = Len(src) + 1
    BY <1>1, <2>2, AppendProperties DEF DataType
  <2>3. \/ \E i \in 1..Len(src), c \in Contents : src' = [src EXCEPT ![i] = c]
        \/ Len(src) < MaxSize /\ \E c \in Contents : src' = Append(src, c)
    BY DEF GuestWrites
  <2>4. Len(src) \in 1..MaxSize /\ MaxSize \in Nat
    BY <1>1, WarmAssumption DEF DataType
  <2> QED BY <2>1, <2>2, <2>3, <2>4
<1>5. Len(src) \in Nat /\ Len(tgt) \in Nat /\ Len(buf) \in Nat /\ BlockSize \in Nat /\ Len(src') \in Nat
  BY <1>1, <1>4, Lengths, Offsets
<1>6. DataType' /\ BufferOK'
  BY <1>1, <1>2, <1>4 DEF DataType, DataInv, BufferOK
<1>7. CopyOK'
  BY <1>1, <1>2, <1>4, <1>5 DEF DataInv, DataType, CopyOK
<1>8. SyncOK'
  <2>1. PICK off, all \in Nat : off = pos * BlockSize /\ all = blocks * BlockSize
    BY <1>1, Offsets DEF DataType
  <2> QED BY <1>1, <1>2, <1>4, <1>5, <2>1 DEF DataInv, SyncOK
<1>9. ProgressOK'
  BY <1>1, <1>2, <1>4, <1>5 DEF DataInv, ProgressOK, ProgressIsOnDisk
<1>10. FinalOK'
  BY <1>2, <1>3 DEF FinalOK
<1> QED BY <1>6, <1>7, <1>8, <1>9, <1>10 DEF DataInv

\* StartInitialCopy resumes at the end of the target file or truncates it.
LEMMA StartCopyData ==
  ASSUME WarmInv, StartInitialCopy
  PROVE  DataInv'
<1>1. ControlInv /\ DataInv /\ DataType /\ BufferOK /\ ProgressOK
  BY DEF WarmInv, DataInv
<1>2. /\ Len(src) \in Nat /\ Len(tgt) \in Nat /\ rep \in ReplicatorType /\ saved \in ReplicatorType
  BY <1>1, Lengths DEF ControlInv, ControlType
<1>3. PICK off : off = IF Len(tgt) > Len(src) THEN 0 ELSE Len(tgt)
  OBVIOUS
<1>3a. /\ off \in 0..Len(tgt) /\ off <= Len(src)
       /\ tgt' = SubSeq(tgt, 1, off) /\ pos' = off
       /\ rep' = [rep EXCEPT !.phase = "initial-copy", !.bytes = off]
  <2>1. off \in 0..Len(tgt) /\ off <= Len(src)
    BY <1>2, <1>3
  <2> QED BY <1>3, <2>1 DEF StartInitialCopy
<1>4. pc' = "copy" /\ buf' = <<>> /\ UNCHANGED <<src, power, saved, blocks, size>>
  BY DEF StartInitialCopy
<1>5. tgt' \in Seq(Contents) /\ Len(tgt') = off
  BY <1>1, <1>3a, PrefixFacts DEF DataType
<1>6. rep'.phase = "initial-copy" /\ rep'.bytes = off
  BY <1>2, <1>3a DEF ReplicatorType
<1>7. DataType' /\ Len(buf') = 0
  BY <1>1, <1>2, <1>3, <1>3a, <1>4, <1>5, EmptySeq DEF DataType
<1>8. CopyOK'
  BY <1>2, <1>3, <1>3a, <1>4, <1>5, <1>6, <1>7 DEF CopyOK, Holds
<1>9. ProgressOK'
  <2>1. saved.bytes \in Nat
    BY <1>2 DEF ReplicatorType
  <2> QED BY <1>1, <1>2, <1>3, <1>3a, <1>4, <1>5, <1>6, <2>1 DEF ProgressOK, ProgressIsOnDisk
<1> QED BY <1>4, <1>7, <1>8, <1>9 DEF DataInv, BufferOK, SyncOK, FinalOK

\* A copy reads the next cells of the source.
LEMMA CopyReadsData ==
  ASSUME WarmInv, CopyReads
  PROVE  DataInv'
<1>1. DataInv /\ DataType /\ CopyOK /\ ProgressOK
  BY DEF WarmInv, DataInv
<1>2. /\ Len(src) \in Nat /\ pos \in Nat /\ BlockSize \in Nat /\ BlockSize > 0
      /\ src \in Seq(Contents)
  BY <1>1, Lengths, Offsets DEF DataType
<1>3. /\ pc = "copy" /\ pos < Len(src)
      /\ UNCHANGED <<src, tgt, power, rep, saved, pc, pos, blocks, size>>
  BY DEF CopyReads, disks
<1>4. /\ buf' \in Seq(Contents) /\ pos + Len(buf') <= Len(src)
      /\ \A i \in 1..Len(buf') : buf'[i] = src[pos + i]
  <2> DEFINE end == IF pos + BlockSize <= Len(src) THEN pos + BlockSize ELSE Len(src)
  <2>1. buf' = SubSeq(src, pos + 1, end)
    BY DEF CopyReads
  <2>2. LET x == SubSeq(src, pos + 1, end)
        IN  /\ x \in Seq(Contents)
            /\ Len(x) = IF pos <= end THEN end - pos ELSE 0
            /\ \A i \in 1..Len(x) : x[i] = src[pos + i]
    BY <1>2, ReadFacts
  <2>3. pos <= end /\ end <= Len(src) /\ end \in Nat
    BY <1>2, <1>3
  <2> HIDE DEF end
  <2> QED BY <1>2, <2>1, <2>2, <2>3
<1>5. DataType' /\ ProgressOK'
  BY <1>1, <1>3, <1>4 DEF DataType, ProgressOK, ProgressIsOnDisk
<1>6. CopyOK'
  BY <1>1, <1>3, <1>4 DEF CopyOK, Holds
<1> QED BY <1>3, <1>5, <1>6 DEF DataInv, BufferOK, SyncOK, FinalOK

\* It writes and counts them.
LEMMA CopyWritesData ==
  ASSUME WarmInv, CopyWrites
  PROVE  DataInv'
<1>1. ControlInv /\ DataInv /\ DataType /\ CopyOK /\ ProgressOK
  BY DEF WarmInv, DataInv
<1>2. /\ Len(src) \in Nat /\ Len(tgt) \in Nat /\ Len(buf) \in Nat /\ pos \in Nat
      /\ rep \in ReplicatorType /\ saved \in ReplicatorType
  BY <1>1, Lengths DEF DataType, ControlInv, ControlType
<1>3. /\ pc = "copy" /\ pc' = "copy" /\ UNCHANGED <<src, power, saved, blocks, size>>
      /\ tgt' = Written(tgt, pos, SubSeq(buf, 1, Len(buf)))
      /\ pos' = pos + Len(buf) /\ buf' = <<>>
      /\ rep' = [rep EXCEPT !.bytes = rep.bytes + Len(buf)]
  BY <1>1, WholeBuffer DEF CopyWrites
<1>4. pos <= Len(tgt) /\ pos + Len(buf) <= Len(src) /\ rep.phase = "initial-copy" /\ rep.bytes = pos
  BY <1>1, <1>3 DEF CopyOK
<1>5. /\ tgt' \in Seq(Contents) /\ Len(tgt') \in Nat /\ Len(tgt') >= Len(tgt)
      /\ Len(tgt') >= pos + Len(buf) /\ (Len(tgt) <= Len(src) => Len(tgt') <= Len(src))
  <2>1. Len(buf) \in 0..Len(buf)
    BY <1>2
  <2> QED BY <1>1, <1>2, <1>3, <1>4, <2>1, WriteFacts
<1>6. rep'.phase = "initial-copy" /\ rep'.bytes = pos + Len(buf)
  BY <1>2, <1>3, <1>4 DEF ReplicatorType
<1>7. DataType' /\ Len(buf') = 0
  BY <1>1, <1>2, <1>3, <1>5, EmptySeq DEF DataType
<1>8. CopyOK'
  BY <1>2, <1>3, <1>4, <1>5, <1>6, <1>7 DEF CopyOK, Holds
<1>9. ProgressOK'
  <2>1. saved.bytes \in Nat
    BY <1>2 DEF ReplicatorType
  <2> QED BY <1>1, <1>2, <1>3, <1>4, <1>5, <1>6, <2>1 DEF ProgressOK, ProgressIsOnDisk
<1> QED BY <1>3, <1>7, <1>8, <1>9 DEF DataInv, BufferOK, SyncOK, FinalOK

\* Where a write goes, and that its place is there: the step may be a copy's or a
\* sync's.
LEMMA WritePlace ==
  ASSUME DataInv, pc \in {"sync", "final"} => buf # <<>> \/ pos < blocks
  PROVE  LET off == IF pc = "copy" THEN pos ELSE pos * BlockSize
         IN  /\ off \in Nat
             /\ buf # <<>> => off <= Len(tgt) /\ off + Len(buf) <= Len(src)
             /\ power = "off" => Holds(off)
<1>1. DataType /\ CopyOK /\ SyncOK /\ BufferOK
  BY DEF DataInv
<1>2. pos * BlockSize \in Nat /\ pos \in Nat
  BY <1>1, Offsets DEF DataType
<1>3. buf = <<>> => \A off : Holds(off)
  <2>1. buf = <<>> => Len(buf) = 0
    BY <1>1, Lengths
  <2> QED BY <2>1 DEF Holds
<1>4. CASE pc = "copy"
  BY <1>1, <1>2, <1>4 DEF CopyOK
<1>5. CASE pc \in {"sync", "final"}
  BY <1>1, <1>2, <1>3, <1>5 DEF SyncOK
<1>6. CASE pc \notin {"copy", "sync", "final"}
  BY <1>1, <1>2, <1>3, <1>6 DEF BufferOK
<1> QED BY <1>4, <1>5, <1>6

\* A write that is cut off leaves the target no shorter and within the source.
LEMMA CutOffWrite ==
  ASSUME DataInv, NEW k \in 0..Len(buf),
         LET off == IF pc = "copy" THEN pos ELSE pos * BlockSize
         IN  tgt' = Written(tgt, off, SubSeq(buf, 1, k))
  PROVE  /\ tgt' \in Seq(Contents) /\ Len(tgt') >= Len(tgt)
         /\ Len(tgt) <= Len(src) => Len(tgt') <= Len(src)
<1>1. DataType
  BY DEF DataInv
<1>2. Len(buf) \in Nat /\ Len(tgt) \in Nat /\ tgt \in Seq(Contents) /\ (buf = <<>> <=> Len(buf) = 0)
  BY <1>1, Lengths DEF DataType
<1> PICK off : off = IF pc = "copy" THEN pos ELSE pos * BlockSize
  OBVIOUS
<1>3. CASE buf = <<>>
  <2>1. k = 0
    BY <1>2, <1>3
  <2>2. SubSeq(buf, 1, k) = <<>>
    BY <2>1, SubSeqEmpty
  <2>3. tgt' = tgt
    BY <2>2 DEF Written
  <2> QED BY <1>2, <2>3
<1>4. CASE buf # <<>>
  <2>1. off \in Nat /\ off <= Len(tgt) /\ off + Len(buf) <= Len(src)
    BY <1>4, WritePlace
  <2> QED BY <1>1, <2>1, WriteFacts
<1> QED BY <1>3, <1>4

\* The steps that end a call: it fails, dies, or is over.
LEMMA EndData ==
  ASSUME WarmInv,
         \/ CopyWriteFails \/ CopyEnds \/ SyncFails \/ (SyncEnds /\ pc' = "idle")
         \/ Crash \/ LoadState \/ OperatorPowersOn
  PROVE  DataInv'
<1>1. ControlInv /\ DataInv /\ DataType /\ BufferOK
  BY DEF WarmInv, DataInv
<1>2. /\ rep \in ReplicatorType /\ saved \in ReplicatorType /\ Len(buf) \in Nat /\ Len(tgt) \in Nat
      /\ buf = <<>> <=> Len(buf) = 0
  BY <1>1, Lengths DEF ControlInv, ControlType
<1>3. ASSUME NEW k \in 0..Len(buf),
             LET off == IF pc = "copy" THEN pos ELSE pos * BlockSize
             IN  tgt' = Written(tgt, off, SubSeq(buf, 1, k)),
             src' = src, Returns, pc' = "idle",
             rep' \in {rep, NewReplicator}, saved' \in {saved, rep}
      PROVE  DataInv'
  <2>1. /\ tgt' \in Seq(Contents) /\ Len(tgt') >= Len(tgt)
        /\ Len(tgt) <= Len(src) => Len(tgt') <= Len(src)
    BY <1>1, <1>3, CutOffWrite
  <2>2. DataType' /\ buf' = <<>>
    BY <1>1, <1>3, <2>1, EmptySeq DEF DataType, Returns
  <2> QED BY <1>1, <1>2, <1>3, <2>1, <2>2, EndFrame
<1>4. CASE CopyWriteFails
  <2>1. PICK k \in 0..(Len(buf) - 1) : tgt' = Written(tgt, pos, SubSeq(buf, 1, k))
    BY <1>4 DEF CopyWriteFails
  <2> QED BY <1>2, <1>3, <1>4, <2>1 DEF CopyWriteFails
<1>5. CASE SyncFails
  <2>1. PICK k \in 0..(IF buf = <<>> THEN 0 ELSE Len(buf) - 1) :
          tgt' = Written(tgt, pos * BlockSize, SubSeq(buf, 1, k))
    BY <1>5 DEF SyncFails
  <2>2. k \in 0..Len(buf) /\ pc # "copy"
    BY <1>2, <1>5 DEF SyncFails, Syncing
  <2>3. saved' \in {saved, rep} /\ src' = src /\ rep' = rep /\ Returns /\ pc' = "idle"
    BY <1>5 DEF SyncFails, Persist
  <2> QED BY <1>3, <2>1, <2>2, <2>3
<1>6. CASE Crash
  <2>1. PICK k \in 0..Len(buf) :
          tgt' = Written(tgt, IF pc = "copy" THEN pos ELSE pos * BlockSize, SubSeq(buf, 1, k))
    BY <1>6 DEF Crash
  <2> QED BY <1>3, <1>6, <2>1 DEF Crash
<1>7. CASE CopyEnds \/ (SyncEnds /\ pc' = "idle")
  <2>1. /\ UNCHANGED <<src, tgt, rep>> /\ Returns /\ pc' = "idle" /\ saved' \in {saved, rep}
    BY <1>7 DEF CopyEnds, SyncEnds, Persist, disks
  <2>2. DataType' /\ buf' = <<>>
    BY <1>1, <2>1, EmptySeq DEF DataType, Returns
  <2> QED BY <1>1, <1>2, <2>1, <2>2, EndFrame
<1>8. CASE LoadState \/ OperatorPowersOn
  <2>1. /\ UNCHANGED <<disks, locals, saved>> /\ rep' \in {rep, saved} /\ pc = "idle" /\ pc' = "idle"
    BY <1>8 DEF LoadState, OperatorPowersOn, replicator
  <2>2. buf = <<>>
    BY <1>1, <2>1 DEF BufferOK
  <2> QED BY <1>1, <2>1, <2>2, DataFrame
<1> QED BY <1>4, <1>5, <1>6, <1>7, <1>8

\* A sync begins: it has compared nothing yet and covers the source's blocks.
LEMMA BeginData ==
  ASSUME WarmInv, RunIncrementalSync \/ CutoverPowersOff
  PROVE  DataInv'
<1>1. ControlInv /\ DataInv /\ DataType /\ ProgressOK
  BY DEF WarmInv, DataInv
<1>2. /\ Len(src) \in Nat /\ Len(src) > 0 /\ Len(tgt) \in Nat /\ rep \in ReplicatorType
      /\ saved \in ReplicatorType
  BY <1>1, Lengths DEF ControlInv, ControlType
<1>3. /\ pc' \in {"sync", "final"} /\ pos' = 0 /\ buf' = <<>> /\ blocks' = BlockCount(Len(src))
      /\ size' = Len(tgt) /\ UNCHANGED <<src, tgt, saved>>
      /\ \E phase \in {"incremental-sync", "final-sync"} :
           rep' = [rep EXCEPT !.phase = phase, !.rounds = @ + 1]
  BY DEF RunIncrementalSync, CutoverPowersOff, BeginSync, disks
<1>4. rep'.phase # "initial-copy" /\ rep'.bytes = rep.bytes
  BY <1>2, <1>3 DEF ReplicatorType
<1>5. PICK n \in Nat : n = BlockCount(Len(src))
  BY <1>2, BlockCountFacts
<1>6. /\ n * BlockSize \in Nat /\ n * BlockSize >= Len(src) /\ n * BlockSize < Len(src) + BlockSize
      /\ 0 * BlockSize = 0 /\ blocks' = n
  BY <1>2, <1>3, <1>5, BlockCountFacts, Offsets
<1>7. DataType' /\ Len(buf') = 0
  BY <1>1, <1>2, <1>3, <1>5, EmptySeq DEF DataType
<1>8. SyncOK'
  BY <1>2, <1>3, <1>5, <1>6 DEF SyncOK
<1>9. ProgressOK'
  BY <1>1, <1>3, <1>4 DEF ProgressOK, ProgressIsOnDisk
<1>10. FinalOK'
  BY <1>2, <1>3, <1>6 DEF FinalOK, Same
<1> QED BY <1>3, <1>7, <1>8, <1>9, <1>10 DEF DataInv, BufferOK, CopyOK

\* Where a sync stands at a block: off and next are the offsets of this block and
\* of the next one.
LEMMA SyncPlace ==
  ASSUME WarmInv, Syncing, pos < blocks
  PROVE  \E off, next \in Nat :
           /\ off = pos * BlockSize /\ next = (pos + 1) * BlockSize
           /\ next = off + BlockSize /\ BlockSize \in Nat /\ BlockSize > 0
           /\ off < Len(src) /\ off <= Len(tgt)
           /\ pos + 1 < blocks => next < Len(src)
<1>1. DataType /\ SyncOK
  BY DEF WarmInv, DataInv
<1>2. /\ pos \in Nat /\ pos + 1 \in Nat /\ blocks \in Nat /\ Len(src) \in Nat /\ Len(tgt) \in Nat
  BY <1>1, Lengths DEF DataType
<1>3. PICK off, next, all \in Nat :
        off = pos * BlockSize /\ next = (pos + 1) * BlockSize /\ all = blocks * BlockSize
  BY <1>2, Offsets
<1>4. /\ next = off + BlockSize /\ BlockSize \in Nat /\ BlockSize > 0
      /\ off + BlockSize <= all /\ (pos + 1 < blocks => next + BlockSize <= all)
  BY <1>2, <1>3, Offsets
<1>5. all < Len(src) + BlockSize /\ off <= Len(tgt)
  BY <1>1, <1>3 DEF SyncOK, Syncing
<1>6. off < Len(src) /\ (pos + 1 < blocks => next < Len(src))
  BY <1>2, <1>3, <1>4, <1>5
<1> QED BY <1>3, <1>4, <1>5, <1>6

\* A block that differs is read; a block that holds the same is on the target.
LEMMA SyncReadsData ==
  ASSUME WarmInv, SyncReads
  PROVE  DataInv'
<1>1. DataInv /\ DataType /\ SyncOK /\ ProgressOK /\ FinalOK
  BY DEF WarmInv, DataInv
<1>2. /\ Syncing /\ buf = <<>> /\ pos < blocks
      /\ UNCHANGED <<src, tgt, power, rep, saved, pc, blocks, size>>
  BY DEF SyncReads, disks
<1>3. /\ Len(src) \in Nat /\ Len(tgt) \in Nat /\ pos \in Nat /\ blocks \in Nat
      /\ src \in Seq(Contents) /\ tgt \in Seq(Contents)
  BY <1>1, Lengths DEF DataType
<1>4. PICK off, next \in Nat :
        /\ off = pos * BlockSize /\ next = (pos + 1) * BlockSize
        /\ next = off + BlockSize /\ BlockSize \in Nat /\ BlockSize > 0
        /\ off < Len(src) /\ off <= Len(tgt)
        /\ pos + 1 < blocks => next < Len(src)
  BY <1>2, SyncPlace
<1>4a. /\ next = off + BlockSize /\ BlockSize \in Nat /\ BlockSize > 0
       /\ off < Len(src) /\ off <= Len(tgt) /\ (pos + 1 < blocks => next < Len(src))
  BY <1>4
<1>5. PICK x : x = Block(src, pos)
  OBVIOUS
<1>6. /\ x \in Seq(Contents) /\ \A i \in 1..Len(x) : x[i] = src[off + i]
      /\ Len(x) = IF next <= Len(src) THEN BlockSize ELSE Len(src) - off
  BY <1>3, <1>4, <1>5, BlockFacts
<1>7. Len(x) \in Nat /\ Len(x) > 0 /\ off + Len(x) <= Len(src) /\ x # <<>>
  <2>1. Len(x) \in Nat /\ Len(x) > 0 /\ off + Len(x) <= Len(src)
    BY <1>3, <1>4a, <1>6
  <2> QED BY <1>6, <2>1, EmptySeq
<1>8. ProgressOK' /\ BufferOK' /\ CopyOK'
  BY <1>1, <1>2 DEF ProgressOK, ProgressIsOnDisk, BufferOK, CopyOK, Syncing
<1>9. CASE Dirty(pos)
  <2>1. buf' = x /\ pos' = pos
    BY <1>5, <1>9 DEF SyncReads
  <2>2. DataType'
    BY <1>1, <1>2, <1>6, <2>1 DEF DataType
  <2>3. SyncOK'
    <3>1. pos + 1 < blocks => Len(x) = BlockSize
      BY <1>3, <1>4a, <1>6
    <3>2. Holds(off)'
      BY <1>2, <1>6, <2>1 DEF Holds
    <3>3. /\ pos' * BlockSize = off /\ blocks' * BlockSize = blocks * BlockSize
          /\ blocks * BlockSize < Len(src) + BlockSize
      BY <1>1, <1>2, <1>4, <2>1 DEF SyncOK, Syncing
    <3> QED BY <1>2, <1>3, <1>4, <1>7, <2>1, <3>1, <3>2, <3>3 DEF SyncOK
  <2>4. FinalOK'
    <3>1. pc = "final" => blocks' * BlockSize >= Len(src) /\ Same(off)'
      BY <1>1, <1>2, <1>4 DEF FinalOK, Same
    <3>2. Len(x) = BlockSize \/ off + Len(x) = Len(src)
      BY <1>3, <1>4a, <1>6
    <3>3. pos' * BlockSize = off /\ pc' = pc /\ src' = src /\ buf' = x
      BY <1>2, <1>4, <2>1
    <3> QED BY <1>2, <3>1, <3>2, <3>3 DEF FinalOK, Syncing
  <2> QED BY <1>8, <2>2, <2>3, <2>4 DEF DataInv
<1>10. CASE ~Dirty(pos)
  <2>1. pos' = pos + 1 /\ buf' = buf
    BY <1>10 DEF SyncReads
  <2>2. Block(tgt, pos) = x
    BY <1>5, <1>7, <1>10 DEF Dirty
  <2>3. /\ \A i \in 1..Len(x) : x[i] = tgt[off + i]
        /\ Len(x) = IF Len(tgt) <= off THEN 0 ELSE IF next <= Len(tgt) THEN BlockSize ELSE Len(tgt) - off
    BY <1>3, <1>4, <2>2, BlockFacts
  <2>4. off + Len(x) <= Len(tgt) /\ (pos + 1 < blocks => next <= Len(tgt))
    BY <1>3, <1>4a, <1>6, <1>7, <2>3
  <2>5. DataType' /\ pos' * BlockSize = next
    BY <1>1, <1>2, <1>3, <1>4, <2>1 DEF DataType
  <2>6. SyncOK'
    <3>1. pos + 1 <= blocks /\ blocks * BlockSize < Len(src) + BlockSize
      BY <1>1, <1>2, <1>3 DEF SyncOK, Syncing
    <3> QED BY <1>2, <1>3, <2>1, <2>4, <2>5, <3>1 DEF SyncOK
  <2>7. pc = "final" => Same(next)
    <3> SUFFICES ASSUME pc = "final", NEW i \in 1..Len(src), i <= next
                 PROVE  i <= Len(tgt) /\ tgt[i] = src[i]
      BY DEF Same
    <3>1. CASE i <= off
      BY <1>1, <1>4, <3>1 DEF FinalOK, Same
    <3>2. CASE i > off
      <4>1. i - off \in 1..Len(x) /\ off + (i - off) = i
        BY <1>3, <1>4a, <1>6, <3>2
      <4> QED BY <1>3, <1>6, <2>3, <2>4, <4>1
    <3> QED BY <1>3, <1>4, <3>1, <3>2
  <2>8. FinalOK'
    <3>1. pc = "final" => Same(next)'
      BY <1>2, <2>7 DEF Same
    <3> QED BY <1>1, <1>2, <2>1, <2>5, <3>1 DEF FinalOK, Syncing
  <2> QED BY <1>8, <2>5, <2>6, <2>8 DEF DataInv
<1> QED BY <1>9, <1>10

\* The block that differs is written at its place.
LEMMA SyncWritesData ==
  ASSUME WarmInv, SyncWrites
  PROVE  DataInv'
<1>1. ControlInv /\ DataInv /\ DataType /\ SyncOK /\ ProgressOK /\ FinalOK
  BY DEF WarmInv, DataInv
<1>2. /\ Syncing /\ buf # <<>> /\ tgt' = Written(tgt, pos * BlockSize, SubSeq(buf, 1, Len(buf)))
      /\ pos' = pos + 1 /\ buf' = <<>>
      /\ UNCHANGED <<src, power, rep, saved, pc, blocks, size>>
  BY <1>1, WholeBuffer DEF SyncWrites
<1>3. /\ Len(src) \in Nat /\ Len(tgt) \in Nat /\ Len(buf) \in Nat /\ pos \in Nat /\ blocks \in Nat
      /\ rep \in ReplicatorType /\ saved \in ReplicatorType
  BY <1>1, Lengths DEF DataType, ControlInv, ControlType
<1>4. pos < blocks
  BY <1>1, <1>2 DEF SyncOK, Syncing
<1>5. PICK off, next \in Nat :
        /\ off = pos * BlockSize /\ next = (pos + 1) * BlockSize
        /\ next = off + BlockSize /\ BlockSize \in Nat /\ BlockSize > 0
        /\ off < Len(src) /\ off <= Len(tgt)
        /\ pos + 1 < blocks => next < Len(src)
  BY <1>2, <1>4, SyncPlace
<1>6. /\ off + Len(buf) <= Len(src) /\ (pos + 1 < blocks => Len(buf) = BlockSize)
      /\ power = "off" => Holds(off)
      /\ blocks * BlockSize < Len(src) + BlockSize
  BY <1>1, <1>2, <1>5 DEF SyncOK, Syncing
<1>7. /\ tgt' \in Seq(Contents) /\ Len(tgt') \in Nat
      /\ Len(tgt') >= Len(tgt) /\ Len(tgt') >= off + Len(buf)
      /\ Len(tgt) <= Len(src) => Len(tgt') <= Len(src)
      /\ \A i \in 1..Len(tgt') :
           tgt'[i] = IF i \in (off + 1)..(off + Len(buf)) THEN buf[i - off] ELSE tgt[i]
  <2>1. Len(buf) \in 0..Len(buf)
    BY <1>3
  <2> QED BY <1>1, <1>2, <1>5, <1>6, <2>1, WriteFacts
<1>8. DataType' /\ Len(buf') = 0 /\ pos' * BlockSize = next
  BY <1>1, <1>2, <1>3, <1>5, <1>7, EmptySeq DEF DataType
<1>9. SyncOK'
  BY <1>2, <1>3, <1>4, <1>5, <1>6, <1>7, <1>8 DEF SyncOK
<1>10. ProgressOK'
  <2>1. rep.bytes \in Nat /\ saved.bytes \in Nat
    BY <1>3 DEF ReplicatorType
  <2> QED BY <1>1, <1>2, <1>3, <1>7, <2>1 DEF ProgressOK, ProgressIsOnDisk
<1>11. pc = "final" => Same(next)'
  <2> SUFFICES ASSUME pc = "final", NEW i \in 1..Len(src), i <= next
               PROVE  i <= Len(tgt') /\ tgt'[i] = src[i]
    BY <1>2 DEF Same
  <2>1. Holds(off) /\ (Len(buf) = BlockSize \/ off + Len(buf) = Len(src)) /\ Same(off)
    BY <1>1, <1>2, <1>5, <1>6 DEF ControlInv, CutoverOK, FinalOK
  <2>2. CASE i <= off
    <3>1. i <= Len(tgt) /\ tgt[i] = src[i]
      BY <2>1, <2>2 DEF Same
    <3>2. i \in 1..Len(tgt') /\ i \notin (off + 1)..(off + Len(buf))
      BY <1>3, <1>5, <1>7, <2>2, <3>1
    <3> QED BY <1>7, <3>1, <3>2
  <2>3. CASE i > off
    <3>1. i - off \in 1..Len(buf) /\ off + (i - off) = i
      BY <1>3, <1>5, <2>1, <2>3
    <3>2. i \in 1..Len(tgt') /\ i \in (off + 1)..(off + Len(buf))
      BY <1>3, <1>5, <1>7, <3>1
    <3>3. buf[i - off] = src[i]
      BY <2>1, <3>1 DEF Holds
    <3> QED BY <1>7, <3>2, <3>3
  <2> QED BY <1>3, <1>5, <2>2, <2>3
<1>12. FinalOK'
  BY <1>1, <1>2, <1>8, <1>11 DEF FinalOK, Syncing
<1> QED BY <1>2, <1>8, <1>9, <1>10, <1>12 DEF DataInv, BufferOK, CopyOK, Syncing

\* A final sync that is over has covered the disk.
LEMMA FinalSyncData ==
  ASSUME WarmInv, SyncEnds, pc' # "idle"
  PROVE  DataInv'
<1>1. ControlInv /\ DataInv /\ DataType /\ ProgressOK /\ FinalOK
  BY DEF WarmInv, DataInv
<1>2. /\ pc = "final" /\ pc' = "create" /\ pos = blocks /\ saved' = rep
      /\ UNCHANGED <<src, tgt, rep>> /\ buf' = <<>> /\ pos' = 0 /\ blocks' = 0 /\ size' = 0
  BY DEF SyncEnds, disks, Returns
<1>3. PICK all \in Nat : all = blocks * BlockSize
  BY <1>1, Offsets DEF DataType
<1>4. all >= Len(src) /\ Same(all) /\ Len(src) \in Nat
  BY <1>1, <1>2, <1>3, Lengths DEF FinalOK
<1>5. Same(Len(src))'
  <2>1. \A i \in 1..Len(src) : i <= all
    BY <1>3, <1>4
  <2> QED BY <1>2, <1>4, <2>1 DEF Same
<1>6. DataType' /\ ProgressOK'
  BY <1>1, <1>2, EmptySeq DEF DataType, ProgressOK, ProgressIsOnDisk
<1> QED BY <1>2, <1>5, <1>6 DEF DataInv, BufferOK, CopyOK, SyncOK, FinalOK

-----------------------------------------------------------------------------
\* The theorems.

\* The invariant holds in the initial states, whatever file the target path holds.
LEMMA WarmInit ==
  ASSUME WInit
  PROVE  WarmInv
<1>1. /\ src \in Disks /\ src # <<>> /\ power \in {"on", "off"}
      /\ tgt \in {[i \in 1..n |-> c] : n \in 0..(Len(src) + 1), c \in Contents}
      /\ rep = NewReplicator /\ saved = NewReplicator
      /\ pc = "idle" /\ buf = <<>> /\ pos = 0 /\ blocks = 0 /\ size = 0
      /\ point = "none" /\ vms = 0 /\ on = {} /\ cuts = 0 /\ orig = power
  BY DEF WInit
<1>2. verified \in BOOLEAN
  BY DEF WInit
<1>3. src \in Seq(Contents) /\ Len(src) \in 1..MaxSize
  <2>1. PICK n \in 0..MaxSize : src \in [1..n -> Contents]
    BY <1>1 DEF Disks
  <2>2. n \in Nat /\ MaxSize \in Nat
    BY WarmAssumption
  <2>3. src \in Seq(Contents)
    BY <2>1, <2>2, SeqDef
  <2>4. Len(src) = n
    <3>1. DOMAIN src = 1..n /\ DOMAIN src = 1..Len(src) /\ Len(src) \in Nat
      BY <2>1, <2>3, LenProperties
    <3> QED BY <2>2, <3>1
  <2>5. Len(src) # 0
    BY <1>1, <2>3, EmptySeq
  <2> QED BY <2>2, <2>3, <2>4, <2>5
<1>4. tgt \in Seq(Contents)
  <2>1. PICK n \in 0..(Len(src) + 1), c \in Contents : tgt = [i \in 1..n |-> c]
    BY <1>1
  <2>2. n \in Nat /\ tgt \in [1..n -> Contents]
    BY <1>3, <2>1
  <2> QED BY <2>2, SeqDef
<1>5. NewReplicator \in ReplicatorType /\ NewReplicator.phase = "none"
  BY WarmAssumption DEF NewReplicator, ReplicatorType
<1>6. ControlType
  BY <1>1, <1>2, <1>5, WarmAssumption DEF ControlType
<1>7. CutoverOK /\ PointOK
  BY <1>1 DEF CutoverOK, PointOK, PoweredOffIsRecoverable
<1>8. DataType
  BY <1>1, <1>3, <1>4, EmptySeq DEF DataType
<1>9. ProgressOK
  BY <1>1, <1>5 DEF ProgressOK, ProgressIsOnDisk
<1> QED BY <1>1, <1>6, <1>7, <1>8, <1>9
           DEF WarmInv, ControlInv, DataInv, BufferOK, CopyOK, SyncOK, FinalOK

\* Every step keeps the invariant.
LEMMA WarmStep ==
  ASSUME WarmInv, [WNext]_wvars
  PROVE  WarmInv'
<1>1. WTypeOK /\ ControlInv /\ DataInv
  BY WarmTypes DEF WarmInv
<1>2. ControlInv'
  BY <1>1, ControlStep
<1>3. DataInv'
  <2>1. CASE ReplicatorStep \/ Crash \/ OperatorPowersOn
    <3>1. CASE SyncEnds
      BY <3>1, EndData, FinalSyncData
    <3> QED BY <2>1, <3>1, StartCopyData, CopyReadsData, CopyWritesData, EndData, BeginData,
               SyncReadsData, SyncWritesData DEF ReplicatorStep
  <2>2. CASE CutoverStep
    BY <2>2, BeginData, CutoverData
  <2>3. CASE GuestWrites
    BY <2>3, GuestData
  <2>4. CASE UNCHANGED wvars
    <3>1. UNCHANGED <<src, tgt, power, rep, saved, pc, buf, pos, blocks, size>>
      BY <2>4 DEF wvars, disks, replicator, locals
    <3>2. DataType' /\ BufferOK' /\ ProgressOK'
      BY <1>1, <3>1 DEF DataInv, DataType, BufferOK, ProgressOK, ProgressIsOnDisk
    <3>3. CopyOK' /\ SyncOK'
      BY <1>1, <3>1 DEF DataInv, CopyOK, SyncOK, Holds
    <3>4. FinalOK'
      BY <1>1, <3>1 DEF DataInv, FinalOK, Same
    <3> QED BY <3>2, <3>3, <3>4 DEF DataInv
  <2> QED BY <2>1, <2>2, <2>3, <2>4 DEF WNext
<1> QED BY <1>2, <1>3 DEF WarmInv

\* The invariant of warm replication and cutover.
THEOREM WarmInvariant == WSpec => []WarmInv
<1>1. WInit => WarmInv
  BY WarmInit
<1>2. WarmInv /\ [WNext]_wvars => WarmInv'
  BY WarmStep
<1> QED BY <1>1, <1>2, PTL DEF WSpec

\* What StartInitialCopy, runSync and ExecuteCutover store for a restart or a
\* rollback is true: the bytes of the initial copy are in the target file, and the
\* recovery point knows that a source which the first cutover switched off was on.
THEOREM StoredProgressTrue == WSpec => []StoredProgressIsTrue
<1>1. WarmInv => StoredProgressIsTrue
  BY WarmTypes DEF WarmInv, ControlInv, PointOK, DataInv, ProgressOK, StoredProgressIsTrue
<1> QED BY <1>1, WarmInvariant, PTL

\* ExecuteCutover creates and starts the target VM on a disk that holds every cell
\* of the source.
THEOREM FinalCopyComplete == WSpec => []FinalCopyIsComplete
<1>1. WarmInv => FinalCopyIsComplete
  <2> SUFFICES ASSUME WarmInv, pc \in {"create", "start"}
               PROVE  Len(tgt) >= Len(src) /\ SubSeq(tgt, 1, Len(src)) = src
    BY DEF FinalCopyIsComplete
  <2>1. DataType /\ Same(Len(src))
    BY DEF WarmInv, DataInv, FinalOK
  <2>2. Len(src) \in Nat /\ Len(src) > 0 /\ Len(tgt) \in Nat
    BY <2>1, Lengths
  <2>3. Len(tgt) >= Len(src) /\ \A i \in 1..Len(src) : tgt[i] = src[i]
    <3>1. Len(src) \in 1..Len(src) /\ \A i \in 1..Len(src) : i <= Len(src)
      BY <2>2
    <3> QED BY <2>1, <2>2, <3>1 DEF Same
  <2>4. /\ SubSeq(tgt, 1, Len(src)) \in Seq(Contents) /\ Len(SubSeq(tgt, 1, Len(src))) = Len(src)
        /\ \A i \in 1..Len(src) : SubSeq(tgt, 1, Len(src))[i] = tgt[i]
    <3>1. Len(src) \in 0..Len(tgt) /\ tgt \in Seq(Contents)
      BY <2>1, <2>2, <2>3 DEF DataType
    <3> QED BY <3>1, PrefixFacts
  <2>5. src \in Seq(Contents)
    BY <2>1 DEF DataType
  <2> QED BY <2>3, <2>4, <2>5, SeqEqual
<1> QED BY <1>1, WarmInvariant, PTL

\* A write that goes to its place, wholly or not, spoils nothing when the buffer
\* holds what the source holds.
LEMMA WriteSpoilsNothing ==
  ASSUME WarmInv, power = "off", NEW k \in 0..Len(buf),
         LET off == IF pc = "copy" THEN pos ELSE pos * BlockSize
         IN  tgt' = Written(tgt, off, SubSeq(buf, 1, k)),
         NEW i \in 1..Len(tgt), tgt[i] = src[i]
  PROVE  i <= Len(tgt') /\ tgt'[i] = src[i]
<1>1. DataInv /\ DataType
  BY DEF WarmInv, DataInv
<1>2. Len(buf) \in Nat /\ Len(tgt) \in Nat /\ (buf = <<>> <=> Len(buf) = 0)
  BY <1>1, Lengths
<1> PICK off : off = IF pc = "copy" THEN pos ELSE pos * BlockSize
  OBVIOUS
<1>3. tgt' = Written(tgt, off, SubSeq(buf, 1, k))
  OBVIOUS
<1>4. CASE buf = <<>>
  <2>1. k = 0
    BY <1>2, <1>4
  <2>2. SubSeq(buf, 1, k) = <<>>
    BY <2>1, SubSeqEmpty
  <2>3. tgt' = tgt
    BY <1>3, <2>2 DEF Written
  <2> QED BY <1>2, <2>3
<1>5. CASE buf # <<>>
  <2>1. off \in Nat /\ off <= Len(tgt) /\ off + Len(buf) <= Len(src) /\ Holds(off)
    BY <1>1, <1>5, WritePlace
  <2>2. /\ Len(tgt') \in Nat /\ Len(tgt') >= Len(tgt)
        /\ \A j \in 1..Len(tgt') :
             tgt'[j] = IF j \in (off + 1)..(off + k) THEN buf[j - off] ELSE tgt[j]
    BY <1>1, <1>3, <2>1, WriteFacts
  <2>3. i \in 1..Len(tgt')
    BY <1>2, <2>2
  <2>4. CASE i \in (off + 1)..(off + k)
    <3>1. i - off \in 1..Len(buf) /\ off + (i - off) = i
      BY <1>2, <2>1, <2>4
    <3>2. buf[i - off] = src[i]
      BY <2>1, <3>1 DEF Holds
    <3> QED BY <2>2, <2>3, <2>4, <3>2
  <2>5. CASE i \notin (off + 1)..(off + k)
    BY <2>2, <2>3, <2>5
  <2> QED BY <2>4, <2>5
<1> QED BY <1>4, <1>5

\* While the source is off, no step of StartInitialCopy or runSync spoils a cell of
\* the target that agrees with the source, not even a write cut off by a crash.
THEOREM CopyNeverSpoiled == WSpec => CopyIsNeverSpoiled
<1>1. ASSUME WarmInv, [WNext]_wvars
      PROVE  [power = "off" /\ on = {} /\ Len(tgt) <= Len(src) =>
                \A i \in 1..Len(tgt) :
                  tgt[i] = src[i] => i <= Len(tgt') /\ tgt'[i] = src[i]]_wvars
  <2> SUFFICES ASSUME WNext, power = "off", Len(tgt) <= Len(src), NEW i \in 1..Len(tgt), tgt[i] = src[i]
               PROVE  i <= Len(tgt') /\ tgt'[i] = src[i]
    BY <1>1
  <2>1. DataInv /\ DataType /\ Len(buf) \in Nat /\ Len(tgt) \in Nat /\ Len(src) \in Nat
    BY <1>1, Lengths DEF WarmInv, DataInv
  <2>2. CASE tgt' = tgt
    BY <2>1, <2>2
  <2>3. CASE StartInitialCopy
    <3>1. tgt' = SubSeq(tgt, 1, Len(tgt))
      BY <2>1, <2>3 DEF StartInitialCopy
    <3>2. Len(tgt) \in 0..Len(tgt) /\ tgt \in Seq(Contents)
      BY <2>1 DEF DataType
    <3>3. Len(SubSeq(tgt, 1, Len(tgt))) = Len(tgt) /\ SubSeq(tgt, 1, Len(tgt))[i] = tgt[i]
      BY <3>2, PrefixFacts
    <3> QED BY <2>1, <3>1, <3>3
  <2>4. CASE CopyWrites \/ SyncWrites
    <3>1. Len(buf) \in 0..Len(buf) /\ SubSeq(buf, 1, Len(buf)) = buf
      BY <2>1, WholeBuffer
    <3>2. LET off == IF pc = "copy" THEN pos ELSE pos * BlockSize
          IN  tgt' = Written(tgt, off, SubSeq(buf, 1, Len(buf)))
      BY <2>4, <3>1 DEF CopyWrites, SyncWrites, Syncing
    <3> QED BY <1>1, <3>1, <3>2, WriteSpoilsNothing
  <2>5. CASE CopyWriteFails \/ SyncFails \/ Crash
    <3>1. PICK k \in 0..Len(buf) :
            LET off == IF pc = "copy" THEN pos ELSE pos * BlockSize
            IN  tgt' = Written(tgt, off, SubSeq(buf, 1, k))
      <4>1. CASE CopyWriteFails
        BY <2>1, <4>1 DEF CopyWriteFails
      <4>2. CASE SyncFails
        <5>1. PICK k \in 0..(IF buf = <<>> THEN 0 ELSE Len(buf) - 1) :
                tgt' = Written(tgt, pos * BlockSize, SubSeq(buf, 1, k))
          BY <4>2 DEF SyncFails
        <5>2. k \in 0..Len(buf) /\ pc # "copy"
          BY <2>1, <4>2 DEF SyncFails, Syncing
        <5> QED BY <5>1, <5>2
      <4>3. CASE Crash
        BY <4>3 DEF Crash
      <4> QED BY <2>5, <4>1, <4>2, <4>3
    <3> QED BY <1>1, <3>1, WriteSpoilsNothing
  <2>6. CASE \/ CopyReads \/ CopyEnds \/ RunIncrementalSync \/ SyncReads \/ SyncEnds \/ LoadState
             \/ GuestWrites \/ OperatorPowersOn
    <3>1. tgt' = tgt
      BY <2>6 DEF CopyReads, CopyEnds, RunIncrementalSync, SyncReads, SyncEnds, LoadState,
           GuestWrites, OperatorPowersOn, disks
    <3> QED BY <2>2, <3>1
  <2>7. CASE CutoverStep
    <3>1. tgt' = tgt
      BY <2>7 DEF CutoverStep, StartCutover, CutoverTakesPoint, CutoverPowersOff, CutoverCreates,
           CutoverStarts, CutoverFails, CutoverVerified, BootFails, disks
    <3> QED BY <2>2, <3>1
  <2> QED BY <2>3, <2>4, <2>5, <2>6, <2>7 DEF WNext, ReplicatorStep
<1> QED BY <1>1, WarmInvariant, PTL DEF WSpec, CopyIsNeverSpoiled

\* ExecuteCutover never starts a target VM beside a running source: both run only
\* from the source coming back after a cutover that was not verified.
THEOREM BothRunAfterRollback == WSpec => BothRunByRollback
<1>1. ASSUME WarmInv, [WNext]_wvars
      PROVE  [power' = "on" /\ on' # {} /\ ~(power = "on" /\ on # {}) =>
                power = "off" /\ pc' = "idle" /\ ~verified']_wvars
  <2> SUFFICES ASSUME WNext, power' = "on", on' # {}, ~(power = "on" /\ on # {})
               PROVE  power = "off" /\ pc' = "idle" /\ ~verified'
    BY <1>1
  <2>1. ControlInv /\ ControlType /\ CutoverOK
    BY <1>1 DEF WarmInv, ControlInv
  <2>2. CASE UNCHANGED <<power, on>>
    BY <2>2
  <2>3. CASE ReplicatorStep \/ Crash \/ GuestWrites
    <3>1. UNCHANGED <<power, on>>
      BY <2>3 DEF ReplicatorStep, StartInitialCopy, CopyReads, CopyWrites, CopyWriteFails, CopyEnds,
           RunIncrementalSync, SyncReads, SyncWrites, SyncFails, SyncEnds, LoadState, Crash,
           GuestWrites, target
    <3> QED BY <2>2, <3>1
  <2>4. CASE OperatorPowersOn
    BY <2>4 DEF OperatorPowersOn, cutover
  <2>5. CASE CutoverStep
    <3>1. CASE StartCutover \/ CutoverTakesPoint \/ CutoverCreates \/ CutoverVerified
      <4>1. UNCHANGED <<power, on>>
        BY <3>1 DEF StartCutover, CutoverTakesPoint, CutoverCreates, CutoverVerified, target
      <4> QED BY <2>2, <4>1
    <3>2. CASE CutoverPowersOff \/ CutoverStarts \/ CutoverFails
      BY <2>1, <3>2 DEF CutoverPowersOff, CutoverStarts, CutoverFails, CutoverOK
    <3>3. CASE BootFails
      BY <2>1, <3>3 DEF BootFails, CutoverOK, cutover
    <3> QED BY <2>5, <3>1, <3>2, <3>3 DEF CutoverStep
  <2> QED BY <2>3, <2>4, <2>5 DEF WNext
<1> QED BY <1>1, WarmInvariant, PTL DEF WSpec, BothRunByRollback

=============================================================================
