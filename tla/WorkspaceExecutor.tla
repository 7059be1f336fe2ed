-------------------------- MODULE WorkspaceExecutor --------------------------
(***************************************************************************)
(* The bounded executor that runs workspace jobs                           *)
(* (internal/api/workspace_executor.go).  Three kinds of goroutines meet   *)
(* on unbuffered channels: the callers of Enqueue (HTTP handlers and the   *)
(* start-up recovery), one dispatcher that owns the queue, and a fixed set *)
(* of workers.  A step of the model is one channel operation (a            *)
(* rendezvous is one step of both sides) together with the bookkeeping     *)
(* that follows it up to the next channel operation.                       *)
(*                                                                         *)
(* A task's release function (cancel its contexts, forget its cancel       *)
(* handle) is idempotent, so `released' is a set.                          *)
(***************************************************************************)
EXTENDS Naturals, Sequences, FiniteSets

CONSTANTS Tasks,     \* jobs, each handed to Enqueue at most once
          Tenants,   \* tenants that own jobs
          TenantOf,  \* TenantOf[t]: the tenant of job t, never empty
          Workers,   \* the worker goroutines
          None       \* no task / no worker

ASSUME ExecutorAssumption ==
  /\ IsFiniteSet(Tasks)
  /\ IsFiniteSet(Workers) /\ Workers # {}
  /\ TenantOf \in [Tasks -> Tenants]
  /\ None \notin Tasks /\ None \notin Workers

VARIABLES
  ctxDone,   \* the server context is cancelled: the executor must stop
  caller,    \* caller[t]: where the Enqueue call for t is, or how it returned
  expired,   \* tasks whose wait context is done: timed out, cancelled, returned
  released,  \* tasks whose release function has run
  disp,      \* where the dispatcher goroutine is
  queue,     \* admitted requests, oldest first (dispatcher-local)
  idle,      \* handles of workers that announced themselves (dispatcher-local)
  depth,     \* queuedByTenant: the count published for admission and metrics
  cur,       \* request the dispatcher received and is deciding on
  hand,      \* <<worker, task>> the dispatcher is handing over
  reply,     \* how the dispatcher answers cur: "ok" (nil) or "failed" (an error)
  after,     \* where the dispatcher continues once it has answered cur
  worker,    \* where each worker goroutine is
  wtask,     \* the task each worker holds
  ran        \* tasks whose run function has been called (history)

callerVars == <<caller, expired>>
dispVars == <<disp, queue, idle, depth, cur, hand, reply, after>>
workerVars == <<worker, wtask, ran>>
vars == <<ctxDone, callerVars, released, dispVars, workerVars>>

QueueCapacity == 2 * Cardinality(Workers)

\* maxTenantDepth: half the queue, and at least one
TenantShare ==
  IF QueueCapacity \div 2 > 0 THEN QueueCapacity \div 2 ELSE 1

Entries(q) == {q[i] : i \in 1..Len(q)}

NoHand == <<None, None>>

Init ==
  /\ ctxDone = FALSE
  /\ caller = [t \in Tasks |-> "idle"]
  /\ expired = {}
  /\ released = {}
  /\ disp = "loop"
  /\ queue = <<>>
  /\ idle = <<>>
  /\ depth = [tn \in Tenants |-> 0]
  /\ cur = None
  /\ hand = NoHand
  /\ reply = "failed"
  /\ after = "loop"
  /\ worker = [w \in Workers |-> "offering"]
  /\ wtask = [w \in Workers |-> None]
  /\ ran = {}

-----------------------------------------------------------------------------
\* The environment: the server shuts down, wait contexts end.

Shutdown ==
  /\ ~ctxDone
  /\ ctxDone' = TRUE
  /\ UNCHANGED <<callerVars, released, dispVars, workerVars>>

\* The enqueue timeout fires or the HTTP request behind the call is cancelled.
WaitExpires(t) ==
  /\ caller[t] \in {"sending", "waiting"}
  /\ t \notin expired
  /\ expired' = expired \cup {t}
  /\ UNCHANGED <<ctxDone, caller, released, dispVars, workerVars>>

-----------------------------------------------------------------------------
\* Callers: enqueueWorkspaceJob and Enqueue.

Enqueue(t) ==
  /\ caller[t] = "idle"
  /\ caller' = [caller EXCEPT ![t] = "sending"]
  /\ UNCHANGED <<ctxDone, expired, released, dispVars, workerVars>>

\* Either select of Enqueue takes a case other than the dispatcher's channel.
\* Returning cancels the wait context; enqueueWorkspaceJob then releases.
EnqueueFails(t) ==
  /\ caller[t] \in {"sending", "waiting"}
  /\ t \in expired \/ disp = "done"
  /\ caller' = [caller EXCEPT ![t] = "failed"]
  /\ expired' = expired \cup {t}
  /\ released' = released \cup {t}
  /\ UNCHANGED <<ctxDone, dispVars, workerVars>>

-----------------------------------------------------------------------------
\* Dispatcher.

\* Mutant: a request that leaves the queue stays counted.
DepthMinusForgotten(t) == depth

\* adjustTenantQueueDepth through removeQueuedRequest: never below zero.
DepthMinus(t) == [depth EXCEPT ![TenantOf[t]] = IF @ > 0 THEN @ - 1 ELSE 0]

DepthPlus(t) == [depth EXCEPT ![TenantOf[t]] = @ + 1]

TenantQueueLimitExceeded(tn) == depth[tn] + 1 > TenantShare

\* Mutant: the youngest request is taken.
TakeYoungest(w) ==
  /\ hand' = <<w, queue[Len(queue)]>>
  /\ queue' = SubSeq(queue, 1, Len(queue) - 1)
  /\ depth' = DepthMinus(queue[Len(queue)])
  /\ disp' = "assign"

\* Take the oldest request off the queue to hand it to worker w.
TakeOldest(w) ==
  /\ hand' = <<w, Head(queue)>>
  /\ queue' = Tail(queue)
  /\ depth' = DepthMinus(Head(queue))
  /\ disp' = "assign"

\* Loop head: an announced worker and a waiting request are matched first.
MatchIdle ==
  /\ disp = "loop" /\ idle # <<>> /\ queue # <<>>
  /\ TakeOldest(Head(idle))
  /\ idle' = Tail(idle)
  /\ UNCHANGED <<ctxDone, callerVars, released, cur, reply, after, workerVars>>

Selecting == disp = "loop" /\ (idle = <<>> \/ queue = <<>>)

SelectCtxDone ==
  /\ Selecting /\ ctxDone
  /\ disp' = "stop"
  /\ UNCHANGED <<ctxDone, callerVars, released, queue, idle, depth, cur, hand,
                 reply, after, workerVars>>

SelectWorkerReady(w) ==
  /\ Selecting /\ worker[w] = "offering"
  /\ idle' = Append(idle, w)
  /\ worker' = [worker EXCEPT ![w] = "idle"]
  /\ UNCHANGED <<ctxDone, callerVars, released, disp, queue, depth, cur, hand,
                 reply, after, wtask, ran>>

SelectEnqueue(t) ==
  /\ Selecting /\ caller[t] = "sending"
  /\ caller' = [caller EXCEPT ![t] = "waiting"]
  /\ cur' = t
  /\ disp' = "received"
  /\ UNCHANGED <<ctxDone, expired, released, queue, idle, depth, hand, reply,
                 after, workerVars>>

Answer(r, next) ==
  /\ disp' = "respond" /\ reply' = r /\ after' = next

\* The received request is refused at once (shutting down: the dispatcher
\* leaves the release to the caller; tenant over its share: it releases), or
\* goes on to wait for room in the queue.
Received ==
  /\ disp = "received"
  /\ \/ /\ ctxDone
        /\ Answer("failed", "stop")
        /\ UNCHANGED released
     \/ /\ ~ctxDone
        /\ TenantQueueLimitExceeded(TenantOf[cur])
        /\ Answer("failed", "loop")
        /\ released' = released \cup {cur}
     \/ /\ ~ctxDone
        /\ ~TenantQueueLimitExceeded(TenantOf[cur])
        /\ disp' = "room"
        /\ UNCHANGED <<released, reply, after>>
  /\ UNCHANGED <<ctxDone, callerVars, queue, idle, depth, cur, hand, workerVars>>

\* Inner loop while the queue is full.  Workers met here are not recorded in
\* `idle': each is given the oldest request directly.
FullWorkerReady(w) ==
  /\ disp = "room" /\ Len(queue) >= QueueCapacity
  /\ worker[w] = "offering"
  /\ worker' = [worker EXCEPT ![w] = "idle"]
  /\ TakeOldest(w)
  /\ UNCHANGED <<ctxDone, callerVars, released, idle, cur, reply, after, wtask, ran>>

\* The request's wait context or the server context ends, in the full-queue
\* select or at the two checks before admission.
RoomGivesUp ==
  /\ disp = "room"
  /\ \/ /\ ctxDone /\ (Len(queue) >= QueueCapacity \/ cur \notin expired)
        /\ Answer("failed", "stop")
     \/ cur \in expired /\ Answer("failed", "loop")
  /\ released' = released \cup {cur}
  /\ UNCHANGED <<ctxDone, callerVars, queue, idle, depth, cur, hand, workerVars>>

AdmitToQueue ==
  /\ disp = "room" /\ Len(queue) < QueueCapacity
  /\ cur \notin expired /\ ~ctxDone
  /\ queue' = Append(queue, cur)
  /\ depth' = DepthPlus(cur)
  /\ Answer("ok", "loop")
  /\ UNCHANGED <<ctxDone, callerVars, released, idle, cur, hand, workerVars>>

\* respond: the caller receives the answer and returns it.
RespondDelivered ==
  /\ disp = "respond" /\ caller[cur] = "waiting"
  /\ caller' = [caller EXCEPT ![cur] = reply]
  /\ expired' = expired \cup {cur}
  /\ released' = IF reply = "failed" THEN released \cup {cur} ELSE released
  /\ cur' = None
  /\ disp' = after
  /\ UNCHANGED <<ctxDone, queue, idle, depth, hand, reply, after, workerVars>>

\* Mutant: the late answer is dropped and the request stays admitted.
RespondExpiredKeeps ==
  /\ disp = "respond" /\ cur \in expired
  /\ cur' = None
  /\ disp' = after
  /\ UNCHANGED <<ctxDone, callerVars, released, queue, idle, depth, hand, reply,
                 after, workerVars>>

\* respond: the wait context is done first.  A request just admitted is taken
\* back out of the queue and released.
RespondExpired ==
  /\ disp = "respond" /\ cur \in expired
  /\ IF reply = "ok"
     THEN /\ queue' = SubSeq(queue, 1, Len(queue) - 1)
          /\ depth' = DepthMinus(queue[Len(queue)])
          /\ released' = released \cup {cur}
     ELSE UNCHANGED <<queue, depth, released>>
  /\ cur' = None
  /\ disp' = after
  /\ UNCHANGED <<ctxDone, callerVars, idle, hand, reply, after, workerVars>>

\* assignTask meets the worker at its task channel; the dispatcher goes on
\* with the request it holds, if it holds one.
AssignHandOver ==
  /\ disp = "assign" /\ worker[hand[1]] = "idle"
  /\ worker' = [worker EXCEPT ![hand[1]] = "got"]
  /\ wtask' = [wtask EXCEPT ![hand[1]] = hand[2]]
  /\ hand' = NoHand
  /\ disp' = IF cur = None THEN "loop" ELSE "room"
  /\ UNCHANGED <<ctxDone, callerVars, released, queue, idle, depth, cur, reply,
                 after, ran>>

\* assignTask sees the server context done or the worker gone: the task and
\* the request in hand, if any, are released and the dispatcher stops.
AssignFails ==
  /\ disp = "assign" /\ (ctxDone \/ worker[hand[1]] = "exited")
  /\ hand' = NoHand
  /\ released' = released \cup ({hand[2], cur} \ {None})
  /\ IF cur = None
     THEN disp' = "stop" /\ UNCHANGED <<reply, after>>
     ELSE Answer("failed", "stop")
  /\ UNCHANGED <<ctxDone, callerVars, queue, idle, depth, cur, workerVars>>

\* The queued copies have no result channel any more: nobody is answered.
RejectPending ==
  /\ disp = "stop"
  /\ released' = released \cup Entries(queue)
  /\ queue' = <<>>
  /\ depth' = [tn \in Tenants |-> 0]
  /\ disp' = "drain"
  /\ UNCHANGED <<ctxDone, callerVars, idle, cur, hand, reply, after, workerVars>>

DrainRequest(t) ==
  /\ disp = "drain" /\ caller[t] = "sending"
  /\ caller' = [caller EXCEPT ![t] = "waiting"]
  /\ cur' = t
  /\ released' = released \cup {t}
  /\ Answer("failed", "drain")
  /\ UNCHANGED <<ctxDone, expired, queue, idle, depth, hand, workerVars>>

\* The default case: a caller may still be on its way to its select.
DrainEnds ==
  /\ disp = "drain"
  /\ disp' = "done"
  /\ UNCHANGED <<ctxDone, callerVars, released, queue, idle, depth, cur, hand,
                 reply, after, workerVars>>

-----------------------------------------------------------------------------
\* Workers.

\* Mutant: an announced worker waits for a task only.
WorkerExitsOnlyOffering(w) ==
  /\ worker[w] = "offering" /\ ctxDone
  /\ worker' = [worker EXCEPT ![w] = "exited"]
  /\ UNCHANGED <<ctxDone, callerVars, released, dispVars, wtask, ran>>

\* ctx.Done in either select of worker.
WorkerExits(w) ==
  /\ worker[w] \in {"offering", "idle"} /\ ctxDone
  /\ worker' = [worker EXCEPT ![w] = "exited"]
  /\ UNCHANGED <<ctxDone, callerVars, released, dispVars, wtask, ran>>

\* The check between receiving a task and running it.
WorkerStarts(w) ==
  /\ worker[w] = "got"
  /\ IF ctxDone
     THEN /\ worker' = [worker EXCEPT ![w] = "exited"]
          /\ released' = released \cup {wtask[w]}
          /\ wtask' = [wtask EXCEPT ![w] = None]
          /\ UNCHANGED ran
     ELSE /\ worker' = [worker EXCEPT ![w] = "running"]
          /\ ran' = ran \cup {wtask[w]}
          /\ UNCHANGED <<released, wtask>>
  /\ UNCHANGED <<ctxDone, callerVars, dispVars>>

\* run returns, or panics and is recovered; the deferred cleanup releases.
WorkerFinishes(w) ==
  /\ worker[w] = "running"
  /\ worker' = [worker EXCEPT ![w] = IF ctxDone THEN "exited" ELSE "offering"]
  /\ released' = released \cup {wtask[w]}
  /\ wtask' = [wtask EXCEPT ![w] = None]
  /\ UNCHANGED <<ctxDone, callerVars, dispVars, ran>>

-----------------------------------------------------------------------------
CallerStep(t) == Enqueue(t) \/ EnqueueFails(t) \/ WaitExpires(t)

DispatcherMeetsCaller(t) == SelectEnqueue(t) \/ DrainRequest(t)

DispatcherMeetsWorker(w) == SelectWorkerReady(w) \/ FullWorkerReady(w)

DispatcherStep ==
  \/ MatchIdle \/ SelectCtxDone \/ Received \/ RoomGivesUp \/ AdmitToQueue
  \/ RespondDelivered \/ RespondExpired \/ AssignHandOver \/ AssignFails
  \/ RejectPending \/ DrainEnds

WorkerStep(w) == WorkerExits(w) \/ WorkerStarts(w) \/ WorkerFinishes(w)

Next ==
  \/ Shutdown
  \/ \E t \in Tasks : CallerStep(t) \/ DispatcherMeetsCaller(t)
  \/ \E w \in Workers : WorkerStep(w) \/ DispatcherMeetsWorker(w)
  \/ DispatcherStep

Spec == Init /\ [][Next]_vars

\* The Go scheduler runs every goroutine that can run, a select that stays
\* ready is taken, wait timers fire and a job's run function returns (its
\* context has a deadline).  Nothing forces a caller to arrive or the server
\* to shut down.
Fairness ==
  /\ WF_vars(DispatcherStep)
  /\ \A w \in Workers : WF_vars(WorkerStep(w)) /\ WF_vars(DispatcherMeetsWorker(w))
  /\ \A t \in Tasks : WF_vars(EnqueueFails(t)) /\ WF_vars(WaitExpires(t))

FairSpec == Spec /\ Fairness

-----------------------------------------------------------------------------
\* Properties.

Held == {hand[2]} \ {None}

AtWorkers == {wtask[w] : w \in Workers} \ {None}

\* Types of the executor's state: callers, dispatcher and workers are only at
\* the places the three goroutine functions have, and an answer is nil or an
\* error.
TypeOK ==
  /\ ctxDone \in BOOLEAN
  /\ caller \in [Tasks -> {"idle", "sending", "waiting", "ok", "failed"}]
  /\ expired \subseteq Tasks /\ released \subseteq Tasks /\ ran \subseteq Tasks
  /\ disp \in {"loop", "received", "room", "assign", "respond", "stop", "drain",
               "done"}
  /\ queue \in Seq(Tasks) /\ idle \in Seq(Workers)
  /\ depth \in [Tenants -> Nat]
  /\ cur \in Tasks \cup {None}
  /\ hand \in (Workers \X Tasks) \cup {NoHand}
  /\ reply \in {"ok", "failed"} /\ after \in {"loop", "stop", "drain"}
  /\ worker \in [Workers -> {"offering", "idle", "got", "running", "exited"}]
  /\ wtask \in [Workers -> Tasks \cup {None}]

\* A task sits in at most one place: no queue slot, hand-over or worker ever
\* shares one with another, so no interleaving of dispatcher and workers runs
\* a job twice or queues it again behind itself.
OneOwner ==
  /\ \A i, j \in 1..Len(queue) : queue[i] = queue[j] => i = j
  /\ Entries(queue) \cap (Held \cup AtWorkers) = {}
  /\ Held \cap AtWorkers = {}
  /\ \A v, w \in Workers : wtask[v] = wtask[w] /\ wtask[v] # None => v = w

\* queuedByTenant, the counter that admission and the metrics read, is the
\* number of the tenant's requests in the dispatcher's queue, whatever was
\* handed over, taken back or rejected in between.
DepthMatchesQueue ==
  \A tn \in Tenants :
    depth[tn] = Cardinality({t \in Entries(queue) : TenantOf[t] = tn})

\* The queue never outgrows its capacity and no tenant its share of it: the
\* share is checked before the wait for room and must still hold after it.
BoundsRespected ==
  /\ Len(queue) <= QueueCapacity
  /\ \A tn \in Tenants :
       Cardinality({t \in Entries(queue) : TenantOf[t] = tn}) <= TenantShare

\* A job whose Enqueue returned nil is waiting, on its way to a worker, with a
\* worker, or has been released: no shutdown path drops one and keeps its
\* contexts and its cancel handle alive.
AdmittedIsAccounted ==
  \A t \in Tasks :
    caller[t] = "ok" => t \in Entries(queue) \cup Held \cup AtWorkers \cup released

\* A job whose Enqueue returned an error never reaches a worker, however the
\* timeout of the call races the dispatcher's answer.
RefusedNeverRuns ==
  \A t \in Tasks :
    caller[t] = "failed" => t \notin ran \cup AtWorkers \cup Held

\* A worker only holds tasks that nobody has released yet: a job never starts
\* on contexts that its caller or the dispatcher has already cancelled.
HeldTaskIsLive == (Held \cup AtWorkers) \cap released = {}

\* While the dispatcher waits for room it only listens to newly announced
\* workers, so no worker announced earlier may be left idle by then: it would
\* not be woken while the queue is full.
FullQueueHasNoIdleWorker ==
  disp \in {"received", "room"} /\ queue # <<>> => idle = <<>>

\* Every Enqueue call ends, also when it races shutdown, a full queue or a
\* dispatcher that has already stopped: its caller is refused, or the job is
\* admitted and released when it has run or the executor has stopped.
EnqueueCompletes ==
  \A t \in Tasks :
    caller[t] = "sending" ~> caller[t] = "failed" \/ (caller[t] = "ok" /\ t \in released)

\* After the server context is cancelled the dispatcher closes `done' and
\* every worker goroutine exits: nobody waits on anybody forever.
ShutdownCompletes ==
  ctxDone ~> disp = "done" /\ \A w \in Workers : worker[w] = "exited"

\* What Enqueue, dispatcher and workers know of a task agrees at every step: it is in
\* one place at a time, one whose caller got nil is there or was released, one
\* whose caller got an error never reaches a worker, and what is held is not
\* released, however the timeout of a call races its admission and the shutdown.
TasksAreOwned ==
  /\ TypeOK
  /\ OneOwner
  /\ AdmittedIsAccounted
  /\ RefusedNeverRuns
  /\ HeldTaskIsLive

\* The counters that admission goes by are right: they match the queue, capacity
\* and shares hold although they are checked before the wait for room, and during
\* that wait no worker is forgotten on the idle list.
QueueIsCounted ==
  /\ DepthMatchesQueue
  /\ BoundsRespected
  /\ FullQueueHasNoIdleWorker

\* Nobody waits for ever: every Enqueue call and every admitted job comes to its
\* end, and after a shutdown the dispatcher and all workers do.
ExecutorProgress ==
  /\ EnqueueCompletes
  /\ ShutdownCompletes

-----------------------------------------------------------------------------
\* The executor implements JobQueue.  A request is admitted when its caller
\* is answered, and started when a worker receives it.

Unanswered == disp = "respond" /\ reply = "ok"

AbsWaiting ==
  IF Unanswered THEN SubSeq(queue, 1, Len(queue) - 1)
  ELSE IF disp = "assign" THEN <<hand[2]>> \o queue
  ELSE queue

AbsJob ==
  [t \in Tasks |->
     CASE caller[t] = "idle" -> "new"
       [] caller[t] \in {"sending", "waiting"} -> "submitted"
       [] caller[t] = "failed" -> "refused"
       [] caller[t] = "ok" /\ t \in Entries(AbsWaiting) -> "queued"
       [] caller[t] = "ok" /\ t \in AtWorkers \ Entries(AbsWaiting) -> "started"
       [] OTHER -> "settled"]

Abs == INSTANCE JobQueue WITH
         Capacity <- QueueCapacity, Share <- TenantShare,
         Slots <- Cardinality(Workers),
         job <- AbsJob, waiting <- AbsWaiting, closed <- ctxDone

\* Every behaviour of callers, dispatcher and workers is one of the FIFO that
\* JobQueue describes: bounded, tenant-fair, in admission order, at most once.
ImplementsJobQueue == Abs!QSpec
=============================================================================
