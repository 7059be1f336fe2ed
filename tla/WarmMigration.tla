---------------------------- MODULE WarmMigration ----------------------------
(***************************************************************************)
(* Warm migration of one VM with one disk: the replicator                  *)
(* (internal/migrate/replication.go), which copies and later synchronises  *)
(* the disk of a running VM, and the cutover (internal/migrate/cutover.go) *)
(* that powers the source off, synchronises a last time and starts the     *)
(* target VM.  Both are called one at a time, in any order, by a process   *)
(* that may die at any step.                                               *)
(*                                                                         *)
(* A disk is a sequence of cells; a block has BlockSize of them, so a disk *)
(* may end inside a block and a write may stop inside one.  The source's   *)
(* guest writes while its VM is on (external); what the target's guest     *)
(* does to its disk is not modelled.                                       *)
(***************************************************************************)
EXTENDS Naturals, Sequences

CONSTANTS BlockSize,     \* cells in a block
          MaxSize,       \* bound on the cells of the source disk
          Contents,      \* what a cell may hold
          MaxRounds,     \* bound on sync rounds of a replicator
          MaxCutovers,   \* bound on cutovers that are started
          AutoRollback,  \* plan option AutoRollbackOnFailure
          Faults         \* BOOLEAN: may calls, reads and writes fail?

ASSUME WarmAssumption ==
  /\ BlockSize \in Nat \ {0} /\ MaxSize \in Nat \ {0}
  /\ MaxRounds \in Nat /\ MaxCutovers \in Nat
  /\ {AutoRollback, Faults} \subseteq BOOLEAN

VARIABLES
  src, power,    \* the source disk and the power of the source VM
  tgt,           \* the target disk file
  rep, saved,    \* the replicator's state, and the one in the store
  pc,            \* where the call in progress is
  buf,           \* local: the cells read and not yet written
  pos,           \* local: cells copied, or blocks compared
  blocks, size,  \* local to a sync: source blocks and target cells at its start
  point,         \* power of the source in the recovery point
  vms, on,       \* number of target VMs created, and those that are on
  cuts, orig,    \* cutovers so far, power before the first (history)
  verified       \* BootVerified of the last cutover

disks == <<src, tgt>>
locals == <<buf, pos, blocks, size>>
replicator == <<rep, saved, locals>>
cutover == <<point, cuts, orig, verified>>
target == <<vms, on>>
wvars == <<disks, power, replicator, pc, cutover, target>>

\* The end of a call, and of its locals.
Returns == buf' = <<>> /\ pos' = 0 /\ blocks' = 0 /\ size' = 0

Disks == UNION {[1..n -> Contents] : n \in 0..MaxSize}

\* blockCount
BlockCount(n) == (n + BlockSize - 1) \div BlockSize

\* readAtMost: what block b of a disk holds; nothing past the end.
Block(disk, b) ==
  LET end == (b + 1) * BlockSize
  IN SubSeq(disk, b * BlockSize + 1, IF end <= Len(disk) THEN end ELSE Len(disk))

\* WriteAt: the cells replace what is there and may extend the file.
Written(disk, off, cells) ==
  IF cells = <<>> THEN disk ELSE
  [i \in 1..(IF off + Len(cells) > Len(disk) THEN off + Len(cells) ELSE Len(disk)) |->
     IF i \in (off + 1)..(off + Len(cells)) THEN cells[i - off] ELSE disk[i]]

\* NewReplicator
NewReplicator == [phase |-> "none", bytes |-> 0, rounds |-> 0]

\* The target path may hold an old file, also one longer than the source.
WInit ==
  /\ src \in Disks /\ src # <<>> /\ power \in {"on", "off"}
  /\ tgt \in {[i \in 1..n |-> c] : n \in 0..(Len(src) + 1), c \in Contents}
  /\ rep = NewReplicator /\ saved = NewReplicator
  /\ pc = "idle" /\ buf = <<>> /\ pos = 0 /\ blocks = 0 /\ size = 0
  /\ point = "none"
  /\ vms = 0 /\ on = {}
  /\ cuts = 0 /\ orig = power /\ verified = FALSE

-----------------------------------------------------------------------------
\* The guests and the operator.

GuestWrites ==
  /\ power = "on"
  /\ \/ \E i \in 1..Len(src), c \in Contents : src' = [src EXCEPT ![i] = c]
     \/ Len(src) < MaxSize /\ \E c \in Contents : src' = Append(src, c)
  /\ UNCHANGED <<tgt, power, replicator, pc, cutover, target>>

\* After a cutover that did not work the source is started by hand.
OperatorPowersOn ==
  /\ pc = "idle" /\ power = "off" /\ cuts > 0 /\ ~verified
  /\ power' = "on"
  /\ UNCHANGED <<disks, replicator, pc, cutover, target>>

-----------------------------------------------------------------------------
\* StartInitialCopy.

\* The size of the target file decides where the copy goes on; a file that is
\* longer than the source is truncated.
StartInitialCopy ==
  /\ pc = "idle"
  /\ LET offset == IF Len(tgt) > Len(src) THEN 0 ELSE Len(tgt)
     IN /\ tgt' = SubSeq(tgt, 1, offset)
        /\ pos' = offset
        /\ rep' = [rep EXCEPT !.phase = "initial-copy", !.bytes = offset]
  /\ pc' = "copy" /\ buf' = <<>>
  /\ UNCHANGED <<src, power, saved, blocks, size, cutover, target>>

\* sourceFile.Read: the next cells, at most a block of them.
CopyReads ==
  /\ pc = "copy" /\ buf = <<>> /\ pos < Len(src)
  /\ buf' = SubSeq(src, pos + 1, IF pos + BlockSize <= Len(src) THEN pos + BlockSize ELSE Len(src))
  /\ UNCHANGED <<disks, power, rep, saved, pc, pos, blocks, size, cutover, target>>

CopyWrites ==
  /\ pc = "copy" /\ buf # <<>>
  /\ tgt' = Written(tgt, pos, buf)
  /\ pos' = pos + Len(buf) /\ buf' = <<>>
  /\ rep' = [rep EXCEPT !.bytes = @ + Len(buf)]
  /\ UNCHANGED <<src, power, saved, pc, blocks, size, cutover, target>>

\* A write that fails may have written some cells; nothing is persisted.
CopyWriteFails ==
  /\ Faults /\ pc = "copy" /\ buf # <<>>
  /\ \E k \in 0..(Len(buf) - 1) : tgt' = Written(tgt, pos, SubSeq(buf, 1, k))
  /\ pc' = "idle" /\ Returns
  /\ UNCHANGED <<src, power, rep, saved, cutover, target>>

\* persist, with a fresh context when the caller's is cancelled; it may fail.
Persist(r) == saved' \in {r} \cup (IF Faults THEN {saved} ELSE {})

\* The copy reaches the end of the source; or it is cancelled or cannot read,
\* and persists how far it got.
CopyEnds ==
  /\ pc = "copy" /\ buf = <<>> /\ (Faults \/ pos = Len(src))
  /\ Persist(rep)
  /\ pc' = "idle" /\ Returns
  /\ UNCHANGED <<disks, power, rep, cutover, target>>

-----------------------------------------------------------------------------
\* runSync, for RunIncrementalSync and for the cutover's final sync.

Syncing == pc \in {"sync", "final"}

BeginSync(phase, l) ==
  /\ rep' = [rep EXCEPT !.phase = phase, !.rounds = @ + 1]
  /\ pos' = 0 /\ buf' = <<>> /\ blocks' = BlockCount(Len(src)) /\ size' = Len(tgt)
  /\ pc' = l

RunIncrementalSync ==
  /\ pc = "idle" /\ rep.rounds < MaxRounds
  /\ BeginSync("incremental-sync", "sync")
  /\ UNCHANGED <<disks, power, saved, cutover, target>>

\* A block past the end that the target had at the start counts as empty.
Dirty(b) == Block(src, b) # IF b * BlockSize < size THEN Block(tgt, b) ELSE <<>>

\* A block is read on both sides; one that holds the same is passed over.
SyncReads ==
  /\ Syncing /\ buf = <<>> /\ pos < blocks
  /\ IF Dirty(pos) THEN buf' = Block(src, pos) /\ UNCHANGED pos
                   ELSE pos' = pos + 1 /\ UNCHANGED buf
  /\ UNCHANGED <<disks, power, rep, saved, pc, blocks, size, cutover, target>>

\* Mutant: the index of the block is taken for its offset.
SyncWritesAtIndex ==
  /\ Syncing /\ buf # <<>>
  /\ tgt' = Written(tgt, pos, buf)
  /\ pos' = pos + 1 /\ buf' = <<>>
  /\ UNCHANGED <<src, power, rep, saved, pc, blocks, size, cutover, target>>

\* BytesCopied goes on counting; only progress messages read it from here on.
SyncWrites ==
  /\ Syncing /\ buf # <<>>
  /\ tgt' = Written(tgt, pos * BlockSize, buf)
  /\ pos' = pos + 1 /\ buf' = <<>>
  /\ UNCHANGED <<src, power, rep, saved, pc, blocks, size, cutover, target>>

\* A read fails, a write fails half way, or the context is cancelled: persist
\* and give up.
SyncFails ==
  /\ Faults /\ Syncing /\ pos < blocks
  /\ \E k \in 0..(IF buf = <<>> THEN 0 ELSE Len(buf) - 1) :
       tgt' = Written(tgt, pos * BlockSize, SubSeq(buf, 1, k))
  /\ Persist(rep)
  /\ pc' = "idle" /\ Returns
  /\ UNCHANGED <<src, power, rep, cutover, target>>

\* An incremental sync is over; a final sync is followed by the target VM.
SyncEnds ==
  /\ Syncing /\ pos = blocks
  /\ \/ saved' = rep /\ pc' = IF pc = "final" THEN "create" ELSE "idle"
     \/ Faults /\ UNCHANGED saved /\ pc' = "idle"
  /\ Returns
  /\ UNCHANGED <<disks, power, rep, cutover, target>>

-----------------------------------------------------------------------------
\* ExecuteCutover.

\* persistCutoverState.  The plan may hold a stored replication state.
StartCutover ==
  /\ pc = "idle" /\ cuts < MaxCutovers
  /\ rep' \in {rep, saved} /\ rep'.rounds < MaxRounds
  /\ cuts' = cuts + 1
  /\ orig' = IF cuts = 0 THEN power ELSE orig
  /\ verified' = FALSE
  /\ pc' = "point"
  /\ UNCHANGED <<disks, power, saved, locals, point, target>>

\* Mutant: a recovery point that cannot be written is only logged.
CutoverTakesPointMaybe ==
  /\ pc = "point"
  /\ point' \in {power, orig, point}
  /\ pc' = "poweroff"
  /\ UNCHANGED <<disks, power, replicator, cuts, orig, verified, target>>

\* CreateRecoveryPoint, from the source VM in the plan: as it is now, or as it
\* was discovered before the first cutover.
CutoverTakesPoint ==
  /\ pc = "point"
  /\ point' \in {power, orig}
  /\ pc' = "poweroff"
  /\ UNCHANGED <<disks, power, replicator, cuts, orig, verified, target>>

\* Mutant: the final sync runs before the source is powered off.
CutoverSyncsFirst ==
  /\ pc = "poweroff"
  /\ UNCHANGED power
  /\ BeginSync("final-sync", "final")
  /\ UNCHANGED <<disks, saved, cutover, target>>

CutoverPowersOff ==
  /\ pc = "poweroff"
  /\ power' = "off"
  /\ BeginSync("final-sync", "final")
  /\ UNCHANGED <<disks, saved, cutover, target>>

\* CreateVM, then ConfigureVMNetworks, of which no state is kept here.
CutoverCreates ==
  /\ pc = "create"
  /\ vms' = vms + 1
  /\ pc' = "start"
  /\ UNCHANGED <<disks, power, replicator, cutover, on>>

CutoverStarts ==
  /\ pc = "start"
  /\ on' = on \cup {vms}
  /\ pc' = "boot"
  /\ UNCHANGED <<disks, power, replicator, cutover, vms>>

\* A call of the cutover fails: it returns without a rollback.  A power-off
\* that reports an error may have worked, and so may a power-on.
CutoverFails ==
  /\ Faults /\ pc \in {"point", "poweroff", "create", "start"}
  /\ \/ UNCHANGED <<power, on>>
     \/ pc = "poweroff" /\ power' = "off" /\ UNCHANGED on
     \/ pc = "start" /\ on' = on \cup {vms} /\ UNCHANGED power
  /\ pc' = "idle"
  /\ UNCHANGED <<disks, replicator, cutover, vms>>

\* WaitForBoot succeeds.
CutoverVerified ==
  /\ pc = "boot"
  /\ verified' = TRUE /\ pc' = "idle"
  /\ UNCHANGED <<disks, power, replicator, point, cuts, orig, target>>

\* WaitForBoot fails.  The automatic rollback restores the source's power; its
\* recovery point is older than the target VM, which it leaves alone.  A
\* rollback that cannot restore the power reports its errors.
BootFails ==
  /\ Faults /\ pc = "boot"
  /\ IF AutoRollback THEN power' \in {power, point} ELSE UNCHANGED power
  /\ pc' = "idle"
  /\ UNCHANGED <<disks, replicator, cutover, target>>

-----------------------------------------------------------------------------
\* The process dies, perhaps in the middle of a write.
Crash ==
  /\ Faults
  /\ \E k \in 0..Len(buf) :
       tgt' = Written(tgt, IF pc = "copy" THEN pos ELSE pos * BlockSize, SubSeq(buf, 1, k))
  /\ rep' = NewReplicator /\ Returns /\ pc' = "idle"
  /\ UNCHANGED <<src, power, saved, cutover, target>>

LoadState ==
  /\ pc = "idle" /\ saved # NewReplicator
  /\ rep' = saved
  /\ UNCHANGED <<disks, power, saved, locals, pc, cutover, target>>

ReplicatorStep ==
  \/ StartInitialCopy \/ CopyReads \/ CopyWrites \/ CopyWriteFails \/ CopyEnds
  \/ RunIncrementalSync \/ SyncReads \/ SyncWrites \/ SyncFails \/ SyncEnds \/ LoadState

CutoverStep ==
  \/ StartCutover \/ CutoverTakesPoint \/ CutoverPowersOff \/ CutoverCreates
  \/ CutoverStarts \/ CutoverFails \/ CutoverVerified \/ BootFails

WNext ==
  \/ ReplicatorStep \/ CutoverStep \/ Crash
  \/ GuestWrites \/ OperatorPowersOn

WSpec == WInit /\ [][WNext]_wvars

-----------------------------------------------------------------------------
\* Properties.

ReplicatorType ==
  [phase: {"none", "initial-copy", "incremental-sync", "final-sync"},
   bytes: Nat, rounds: 0..MaxRounds]

\* Types of the warm migration's state: rounds stay within their bound, the
\* target file holds cells only, and only created VMs are on.
WTypeOK ==
  /\ src \in Seq(Contents) /\ Len(src) \in 1..MaxSize
  /\ tgt \in Seq(Contents) /\ power \in {"on", "off"}
  /\ rep \in ReplicatorType /\ saved \in ReplicatorType
  /\ pc \in {"idle", "copy", "sync", "point", "poweroff", "final", "create",
             "start", "boot"}
  /\ pos \in Nat /\ buf \in Seq(Contents) /\ blocks \in Nat /\ size \in Nat
  /\ Syncing => pos <= blocks
  /\ point \in {"none", "on", "off"}
  /\ vms \in 0..MaxCutovers /\ on \subseteq 1..vms
  /\ cuts \in 0..MaxCutovers /\ orig \in {"on", "off"}
  /\ verified \in BOOLEAN

\* When the target VM is created and started, its disk holds every
\* cell of the source: whatever the guest wrote during the copies, wherever
\* they were cut off and resumed, and whatever old file they began with.
\* (A VM that an earlier cutover left running writes to the same disk.)
FinalCopyIsComplete ==
  pc \in {"create", "start"} /\ on = {} =>
    Len(tgt) >= Len(src) /\ SubSeq(tgt, 1, Len(src)) = src

\* The bytes that the replicator reports and persists for the initial copy are
\* in the target file, through failed writes, crashes and resumptions.
ProgressIsOnDisk ==
  \A r \in {rep, saved} : r.phase = "initial-copy" => r.bytes <= Len(tgt)

\* While the source is off, as in the final sync, no step of a copy or a sync,
\* not even one cut off in the middle of a block, spoils a cell of the target
\* that already agrees with the source.
CopyIsNeverSpoiled ==
  [][power = "off" /\ on = {} /\ Len(tgt) <= Len(src) =>
       \A i \in 1..Len(tgt) :
         tgt[i] = src[i] => i <= Len(tgt') /\ tgt'[i] = src[i]]_wvars

\* The cutover never starts a target VM beside a running source, whatever failed,
\* died or was repeated before: that both run begins with the source coming back
\* after a cutover that was not verified, by its automatic rollback, which leaves
\* the target VM on, or by the operator.
BothRunByRollback ==
  [][power' = "on" /\ on' # {} /\ ~(power = "on" /\ on # {}) =>
       power = "off" /\ pc' = "idle" /\ ~verified']_wvars

\* A source VM that the first cutover powered off is on in the stored recovery
\* point, wherever that cutover failed or died, so that it can be brought back.
PoweredOffIsRecoverable ==
  cuts = 1 /\ orig = "on" /\ power = "off" => point = "on"

\* What is stored for a restart or a rollback is so: the bytes that the replicator
\* persists are on the disk, and the recovery point has the power of a source that
\* the cutover switched off.
StoredProgressIsTrue ==
  /\ WTypeOK
  /\ ProgressIsOnDisk
  /\ PoweredOffIsRecoverable

=============================================================================
