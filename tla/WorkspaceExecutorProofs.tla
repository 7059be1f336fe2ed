----------------------- MODULE WorkspaceExecutorProofs -----------------------
(***************************************************************************)
(* Proofs about WorkspaceExecutor for every finite set of jobs and of      *)
(* workers and every set of tenants: the types and the safety properties   *)
(* of the queue, the dispatcher and the workers, and the refinement of the *)
(* abstract queue that JobQueue describes.                                 *)
(***************************************************************************)
EXTENDS WorkspaceExecutor, FiniteSetTheorems, TLAPS

-----------------------------------------------------------------------------
\* Lemmas about the bounds and the queue.

\* A queue has room for at least one request, a tenant's share is not empty.
LEMMA BoundFacts ==
  /\ QueueCapacity \in Nat /\ QueueCapacity > 0
  /\ TenantShare \in Nat /\ TenantShare > 0
<1>1. Cardinality(Workers) \in Nat /\ Cardinality(Workers) # 0
  BY ExecutorAssumption, FS_CardinalityType, FS_EmptySet
<1>2. QueueCapacity \in Nat /\ QueueCapacity > 0
  BY <1>1 DEF QueueCapacity
<1> QED BY <1>2 DEF TenantShare

Distinct(q) == \A i, j \in 1..Len(q) : q[i] = q[j] => i = j

\* The entries of a queue of tasks are tasks.
LEMMA EntriesType ==
  ASSUME NEW q \in Seq(Tasks)
  PROVE  Entries(q) \subseteq Tasks
BY DEF Entries

\* removeQueuedRequest at index 0: the oldest request leaves the queue.
LEMMA TailFacts ==
  ASSUME NEW q \in Seq(Tasks), q # <<>>
  PROVE  /\ Head(q) \in Tasks
         /\ Tail(q) \in Seq(Tasks)
         /\ Len(Tail(q)) = Len(q) - 1
         /\ Entries(q) = Entries(Tail(q)) \cup {Head(q)}
         /\ Distinct(q) => Distinct(Tail(q)) /\ Head(q) \notin Entries(Tail(q))
<1>1. /\ Len(q) \in Nat /\ Len(q) >= 1
      /\ Tail(q) \in Seq(Tasks)
      /\ Len(Tail(q)) = Len(q) - 1
      /\ Head(q) = q[1] /\ Head(q) \in Tasks
      /\ \A i \in 1..(Len(q) - 1) : Tail(q)[i] = q[i + 1]
  OBVIOUS
<1>2. Entries(q) \subseteq Entries(Tail(q)) \cup {Head(q)}
  <2> SUFFICES ASSUME NEW i \in 1..Len(q), q[i] # Head(q)
               PROVE  q[i] \in Entries(Tail(q))
    BY DEF Entries
  <2>1. i - 1 \in 1..Len(Tail(q)) /\ q[i] = Tail(q)[i - 1]
    BY <1>1
  <2> QED BY <2>1 DEF Entries
<1>3. Entries(Tail(q)) \cup {Head(q)} \subseteq Entries(q)
  <2>1. Head(q) \in Entries(q)
    BY <1>1 DEF Entries
  <2>2. ASSUME NEW i \in 1..Len(Tail(q))
        PROVE  Tail(q)[i] \in Entries(q)
    <3>1. i + 1 \in 1..Len(q) /\ Tail(q)[i] = q[i + 1]
      BY <1>1
    <3> QED BY <3>1 DEF Entries
  <2> QED BY <2>1, <2>2 DEF Entries
<1>4. ASSUME Distinct(q)
      PROVE  Distinct(Tail(q)) /\ Head(q) \notin Entries(Tail(q))
  <2>1. ASSUME NEW i \in 1..Len(Tail(q)), NEW j \in 1..Len(Tail(q)),
               Tail(q)[i] = Tail(q)[j]
        PROVE  i = j
    <3>1. i + 1 \in 1..Len(q) /\ j + 1 \in 1..Len(q) /\ q[i + 1] = q[j + 1]
      BY <1>1, <2>1
    <3> QED BY <3>1, <1>4 DEF Distinct
  <2>2. ASSUME NEW i \in 1..Len(Tail(q)), Tail(q)[i] = Head(q)
        PROVE  FALSE
    <3>1. i + 1 \in 1..Len(q) /\ 1 \in 1..Len(q) /\ q[i + 1] = q[1]
      BY <1>1, <2>2
    <3>2. i + 1 = 1
      BY <3>1, <1>4 DEF Distinct
    <3> QED BY <3>2
  <2> QED BY <2>1, <2>2 DEF Distinct, Entries
<1> QED BY <1>1, <1>2, <1>3, <1>4

\* An admitted request joins the queue at its end.
LEMMA AppendFacts ==
  ASSUME NEW q \in Seq(Tasks), NEW t \in Tasks
  PROVE  /\ Append(q, t) \in Seq(Tasks)
         /\ Append(q, t) # <<>>
         /\ Len(Append(q, t)) = Len(q) + 1
         /\ Append(q, t)[Len(Append(q, t))] = t
         /\ Entries(Append(q, t)) = Entries(q) \cup {t}
         /\ Distinct(q) /\ t \notin Entries(q) => Distinct(Append(q, t))
<1>1. /\ Len(q) \in Nat
      /\ Append(q, t) \in Seq(Tasks)
      /\ Len(Append(q, t)) = Len(q) + 1
      /\ Append(q, t)[Len(q) + 1] = t
      /\ \A i \in 1..Len(q) : Append(q, t)[i] = q[i]
  OBVIOUS
<1>2. Entries(Append(q, t)) \subseteq Entries(q) \cup {t}
  <2> SUFFICES ASSUME NEW i \in 1..Len(Append(q, t)), Append(q, t)[i] # t
               PROVE  Append(q, t)[i] \in Entries(q)
    BY DEF Entries
  <2>1. i \in 1..Len(q) /\ Append(q, t)[i] = q[i]
    BY <1>1
  <2> QED BY <2>1 DEF Entries
<1>3. Entries(q) \cup {t} \subseteq Entries(Append(q, t))
  <2>1. t \in Entries(Append(q, t))
    BY <1>1 DEF Entries
  <2>2. ASSUME NEW i \in 1..Len(q)
        PROVE  q[i] \in Entries(Append(q, t))
    <3>1. i \in 1..Len(Append(q, t)) /\ q[i] = Append(q, t)[i]
      BY <1>1
    <3> QED BY <3>1 DEF Entries
  <2> QED BY <2>1, <2>2 DEF Entries
<1>4. ASSUME Distinct(q), t \notin Entries(q)
      PROVE  Distinct(Append(q, t))
  <2> SUFFICES ASSUME NEW i \in 1..(Len(q) + 1), NEW j \in 1..(Len(q) + 1),
                      Append(q, t)[i] = Append(q, t)[j]
               PROVE  i = j
    BY <1>1 DEF Distinct
  <2>1. CASE i \in 1..Len(q) /\ j \in 1..Len(q)
    BY <2>1, <1>1, <1>4 DEF Distinct
  <2>2. CASE i = Len(q) + 1 /\ j \in 1..Len(q)
    <3>1. q[j] = t
      BY <2>2, <1>1
    <3> QED BY <3>1, <2>2, <1>4 DEF Entries
  <2>3. CASE j = Len(q) + 1 /\ i \in 1..Len(q)
    <3>1. q[i] = t
      BY <2>3, <1>1
    <3> QED BY <3>1, <2>3, <1>4 DEF Entries
  <2>4. CASE i = Len(q) + 1 /\ j = Len(q) + 1
    BY <2>4
  <2> QED BY <1>1, <2>1, <2>2, <2>3, <2>4
<1>5. Append(q, t) # <<>>
  BY <1>1
<1> QED BY <1>1, <1>2, <1>3, <1>4, <1>5

WithoutLast(q) == SubSeq(q, 1, Len(q) - 1)

\* removeQueuedRequest at the last index: an admission is taken back.
LEMMA FrontFacts ==
  ASSUME NEW q \in Seq(Tasks), q # <<>>
  PROVE  /\ q[Len(q)] \in Tasks
         /\ WithoutLast(q) \in Seq(Tasks)
         /\ Len(WithoutLast(q)) = Len(q) - 1
         /\ Entries(q) = Entries(WithoutLast(q)) \cup {q[Len(q)]}
         /\ Distinct(q) => Distinct(WithoutLast(q)) /\ q[Len(q)] \notin Entries(WithoutLast(q))
<1>1. /\ Len(q) \in Nat /\ Len(q) >= 1 /\ Len(q) \in 1..Len(q)
      /\ WithoutLast(q) \in Seq(Tasks)
      /\ Len(WithoutLast(q)) = Len(q) - 1
      /\ q[Len(q)] \in Tasks
      /\ \A i \in 1..(Len(q) - 1) : WithoutLast(q)[i] = q[i]
  <2>1. Len(q) \in Nat /\ Len(q) >= 1 /\ Len(q) \in 1..Len(q) /\ q[Len(q)] \in Tasks
    OBVIOUS
  <2>2. WithoutLast(q) = [i \in 1..(Len(q) - 1) |-> q[i]]
    BY <2>1 DEF WithoutLast
  <2>3. /\ Len(WithoutLast(q)) = Len(q) - 1
        /\ \A i \in 1..(Len(q) - 1) : WithoutLast(q)[i] = q[i]
    BY <2>1, <2>2
  <2>4. WithoutLast(q) \in Seq(Tasks)
    BY <2>1, <2>2
  <2> QED BY <2>1, <2>3, <2>4
<1>2. Entries(q) \subseteq Entries(WithoutLast(q)) \cup {q[Len(q)]}
  <2> SUFFICES ASSUME NEW i \in 1..Len(q), q[i] # q[Len(q)]
               PROVE  q[i] \in Entries(WithoutLast(q))
    BY DEF Entries
  <2>1. i \in 1..Len(WithoutLast(q)) /\ q[i] = WithoutLast(q)[i]
    BY <1>1
  <2> QED BY <2>1 DEF Entries
<1>3. Entries(WithoutLast(q)) \cup {q[Len(q)]} \subseteq Entries(q)
  <2>1. q[Len(q)] \in Entries(q)
    BY <1>1 DEF Entries
  <2>2. ASSUME NEW i \in 1..Len(WithoutLast(q))
        PROVE  WithoutLast(q)[i] \in Entries(q)
    <3>1. i \in 1..Len(q) /\ WithoutLast(q)[i] = q[i]
      BY <1>1
    <3> QED BY <3>1 DEF Entries
  <2> QED BY <2>1, <2>2 DEF Entries
<1>4. ASSUME Distinct(q)
      PROVE  Distinct(WithoutLast(q)) /\ q[Len(q)] \notin Entries(WithoutLast(q))
  <2>1. ASSUME NEW i \in 1..Len(WithoutLast(q)), NEW j \in 1..Len(WithoutLast(q)),
               WithoutLast(q)[i] = WithoutLast(q)[j]
        PROVE  i = j
    <3>1. i \in 1..Len(q) /\ j \in 1..Len(q) /\ q[i] = q[j]
      BY <1>1, <2>1
    <3> QED BY <3>1, <1>4 DEF Distinct
  <2>2. ASSUME NEW i \in 1..Len(WithoutLast(q)), WithoutLast(q)[i] = q[Len(q)]
        PROVE  FALSE
    <3>1. i \in 1..Len(q) /\ Len(q) \in 1..Len(q) /\ q[i] = q[Len(q)] /\ i # Len(q)
      BY <1>1, <2>2
    <3> QED BY <3>1, <1>4 DEF Distinct
  <2> QED BY <2>1, <2>2 DEF Distinct, Entries
<1> QED BY <1>1, <1>2, <1>3, <1>4

-----------------------------------------------------------------------------
\* Types.

\* What each place of the dispatcher and the workers says about the request,
\* the hand-over and the task they hold.
Places ==
  /\ disp \in {"received", "room", "respond"} => cur \in Tasks
  /\ disp \in {"loop", "stop", "drain", "done"} => cur = None
  /\ IF disp = "assign" THEN hand \in Workers \X Tasks ELSE hand = NoHand
  /\ disp = "respond" /\ reply = "ok" =>
       after = "loop" /\ queue # <<>> /\ cur = queue[Len(queue)]
  /\ \A w \in Workers : worker[w] \in {"got", "running"} <=> wtask[w] # None

\* adjustTenantQueueDepth keeps the counters natural numbers.
LEMMA DepthFacts ==
  ASSUME NEW t \in Tasks, depth \in [Tenants -> Nat]
  PROVE  /\ DepthMinus(t) \in [Tenants -> Nat]
         /\ DepthPlus(t) \in [Tenants -> Nat]
BY ExecutorAssumption DEF DepthMinus, DepthPlus

\* The types and the places hold at the start.
LEMMA TypeInit == Init => TypeOK /\ Places
<1> SUFFICES ASSUME Init PROVE TypeOK /\ Places
  OBVIOUS
<1>1. <<>> \in Seq(Tasks) /\ <<>> \in Seq(Workers)
  OBVIOUS
<1>2. hand \in (Workers \X Tasks) \cup {NoHand}
  BY DEF Init
<1>3. TypeOK
  BY <1>1, <1>2 DEF Init, TypeOK
<1>4. Places
  BY DEF Init, Places
<1> QED BY <1>3, <1>4

\* The steps of callers and of the environment keep types and places.
LEMMA TypeCaller ==
  ASSUME TypeOK, Places,
         Shutdown \/ \E t \in Tasks : CallerStep(t) \/ DispatcherMeetsCaller(t)
  PROVE  TypeOK' /\ Places'
<1>1. CASE Shutdown
  BY <1>1 DEF Shutdown, TypeOK, Places, callerVars, dispVars, workerVars
<1>2. ASSUME NEW t \in Tasks, CallerStep(t)
      PROVE  TypeOK' /\ Places'
  BY <1>2 DEF CallerStep, Enqueue, EnqueueFails, WaitExpires, TypeOK, Places,
              callerVars, dispVars, workerVars
<1>3. ASSUME NEW t \in Tasks, SelectEnqueue(t)
      PROVE  TypeOK' /\ Places'
  BY <1>3 DEF SelectEnqueue, Selecting, TypeOK, Places, callerVars, workerVars
<1>4. ASSUME NEW t \in Tasks, DrainRequest(t)
      PROVE  TypeOK' /\ Places'
  BY <1>4 DEF DrainRequest, Answer, TypeOK, Places, callerVars, workerVars
<1> QED BY <1>1, <1>2, <1>3, <1>4 DEF DispatcherMeetsCaller

\* The oldest request is taken off a queue that is not empty.
LEMMA TypeTake ==
  ASSUME TypeOK, NEW w \in Workers, queue # <<>>, TakeOldest(w)
  PROVE  /\ queue' \in Seq(Tasks) /\ depth' \in [Tenants -> Nat]
         /\ hand' \in Workers \X Tasks /\ disp' = "assign"
BY TailFacts, DepthFacts DEF TypeOK, TakeOldest

\* A full queue is not empty.
LEMMA FullFacts ==
  ASSUME queue \in Seq(Tasks), Len(queue) >= QueueCapacity
  PROVE  queue # <<>>
BY BoundFacts

\* The steps of workers keep types and places.
LEMMA TypeWorker ==
  ASSUME TypeOK, Places, NEW w \in Workers, WorkerStep(w) \/ DispatcherMeetsWorker(w)
  PROVE  TypeOK' /\ Places'
<1> USE ExecutorAssumption
<1>1. CASE WorkerExits(w)
  BY <1>1 DEF WorkerExits, TypeOK, Places, callerVars, dispVars
<1>2. CASE WorkerStarts(w)
  <2>1. wtask[w] \in Tasks
    BY <1>2 DEF WorkerStarts, TypeOK, Places
  <2>2. CASE ctxDone
    BY <1>2, <2>1, <2>2 DEF WorkerStarts, TypeOK, Places, callerVars, dispVars
  <2>3. CASE ~ctxDone
    BY <1>2, <2>1, <2>3 DEF WorkerStarts, TypeOK, Places, callerVars, dispVars
  <2> QED BY <2>2, <2>3
<1>3. CASE WorkerFinishes(w)
  BY <1>3 DEF WorkerFinishes, TypeOK, Places, callerVars, dispVars
<1>4. CASE SelectWorkerReady(w)
  BY <1>4 DEF SelectWorkerReady, Selecting, TypeOK, Places, callerVars
<1>5. CASE FullWorkerReady(w)
  <2>1. queue # <<>>
    BY <1>5, FullFacts DEF FullWorkerReady, TypeOK
  <2>2. /\ queue' \in Seq(Tasks) /\ depth' \in [Tenants -> Nat]
        /\ hand' \in Workers \X Tasks /\ disp' = "assign"
    BY <1>5, <2>1, TypeTake DEF FullWorkerReady
  <2> QED BY <1>5, <2>2 DEF FullWorkerReady, TypeOK, Places, callerVars
<1> QED BY <1>1, <1>2, <1>3, <1>4, <1>5 DEF WorkerStep, DispatcherMeetsWorker

\* The dispatcher's own steps keep types and places.
LEMMA TypeDispatcher ==
  ASSUME TypeOK, Places, DispatcherStep
  PROVE  TypeOK' /\ Places'
<1> USE ExecutorAssumption
<1>1. CASE MatchIdle
  <2>1. Head(idle) \in Workers /\ Tail(idle) \in Seq(Workers) /\ queue # <<>>
    BY <1>1 DEF MatchIdle, TypeOK
  <2>2. /\ queue' \in Seq(Tasks) /\ depth' \in [Tenants -> Nat]
        /\ hand' \in Workers \X Tasks /\ disp' = "assign"
    BY <1>1, <2>1, TypeTake DEF MatchIdle
  <2> QED BY <1>1, <2>1, <2>2 DEF MatchIdle, TypeOK, Places, callerVars, workerVars
<1>2. CASE SelectCtxDone
  BY <1>2 DEF SelectCtxDone, Selecting, TypeOK, Places, callerVars, workerVars
<1>3. CASE Received
  BY <1>3 DEF Received, Answer, TypeOK, Places, callerVars, workerVars
<1>4. CASE RoomGivesUp
  BY <1>4 DEF RoomGivesUp, Answer, TypeOK, Places, callerVars, workerVars
<1>5. CASE AdmitToQueue
  <2>1. cur \in Tasks /\ disp = "room"
    BY <1>5 DEF AdmitToQueue, Places
  <2>2. /\ queue' \in Seq(Tasks) /\ queue' # <<>> /\ queue'[Len(queue')] = cur
        /\ depth' \in [Tenants -> Nat]
    BY <1>5, <2>1, AppendFacts, DepthFacts DEF AdmitToQueue, TypeOK
  <2> QED BY <1>5, <2>1, <2>2
          DEF AdmitToQueue, Answer, TypeOK, Places, callerVars, workerVars
<1>6. CASE RespondDelivered
  BY <1>6 DEF RespondDelivered, TypeOK, Places, workerVars
<1>7. CASE RespondExpired
  <2>1. queue' \in Seq(Tasks) /\ depth' \in [Tenants -> Nat]
    <3>1. CASE reply = "ok"
      <4>1. queue # <<>> /\ queue \in Seq(Tasks) /\ depth \in [Tenants -> Nat]
        BY <1>7, <3>1 DEF RespondExpired, TypeOK, Places
      <4>2. queue[Len(queue)] \in Tasks /\ WithoutLast(queue) \in Seq(Tasks)
        BY <4>1, FrontFacts
      <4> QED BY <1>7, <3>1, <4>1, <4>2, DepthFacts DEF RespondExpired, WithoutLast
    <3>2. CASE reply # "ok"
      BY <1>7, <3>2 DEF RespondExpired, TypeOK
    <3> QED BY <3>1, <3>2
  <2> QED BY <1>7, <2>1 DEF RespondExpired, TypeOK, Places, callerVars, workerVars
<1>8. CASE AssignHandOver
  BY <1>8 DEF AssignHandOver, TypeOK, Places, NoHand, callerVars
<1>9. CASE AssignFails
  BY <1>9 DEF AssignFails, Answer, TypeOK, Places, NoHand, callerVars, workerVars
<1>10. CASE RejectPending
  <2>1. Entries(queue) \subseteq Tasks /\ <<>> \in Seq(Tasks)
    BY EntriesType DEF TypeOK
  <2> QED BY <1>10, <2>1 DEF RejectPending, TypeOK, Places, callerVars, workerVars
<1>11. CASE DrainEnds
  BY <1>11 DEF DrainEnds, TypeOK, Places, callerVars, workerVars
<1> QED BY <1>1, <1>2, <1>3, <1>4, <1>5, <1>6, <1>7, <1>8, <1>9, <1>10, <1>11
        DEF DispatcherStep

\* Types and places together are inductive: a place decides what is held.
LEMMA TypeStep ==
  ASSUME TypeOK, Places, [Next]_vars
  PROVE  TypeOK' /\ Places'
<1>1. CASE UNCHANGED vars
  BY <1>1 DEF vars, callerVars, dispVars, workerVars, TypeOK, Places
<1> QED BY <1>1, TypeCaller, TypeWorker, TypeDispatcher DEF Next

\* Types and places hold in every state of the executor.
LEMMA TypesAndPlaces == Spec => [](TypeOK /\ Places)
<1>1. TypeOK /\ Places /\ [Next]_vars => (TypeOK /\ Places)'
  BY TypeStep
<1> QED BY TypeInit, <1>1, PTL DEF Spec

\* The state of callers, dispatcher and workers always has its type: no
\* interleaving takes a goroutine to a place, or hands it a task, that the
\* code of workspace_executor.go does not have.
THEOREM ExecutorTypes == Spec => []TypeOK
BY TypesAndPlaces, PTL

-----------------------------------------------------------------------------
\* Ownership: who may run or release a task.

\* A task whose caller was told "admitted" and which nobody has released.
Live(t) == caller[t] = "ok" /\ t \notin released

\* The request the dispatcher decides on has not been accepted, and if its
\* caller still waits only a refusal may have released it.
OwnCur ==
  cur \in Tasks =>
    /\ caller[cur] \in {"waiting", "failed"}
    /\ caller[cur] = "waiting" /\ cur \in released => disp = "respond" /\ reply = "failed"

OwnNew == \A t \in Tasks : caller[t] \in {"idle", "sending"} => t \notin released

\* A queued request is live, but for the one whose admission is unanswered.
OwnQueue ==
  /\ Distinct(queue)
  /\ \A t \in Entries(queue) : Live(t) \/ (Unanswered /\ t = cur)

OwnHand == disp = "assign" => Live(hand[2]) /\ hand[2] \notin Entries(queue)

OwnWorkers ==
  \A w \in Workers : wtask[w] # None =>
    /\ Live(wtask[w])
    /\ wtask[w] \notin Entries(queue)
    /\ disp = "assign" => wtask[w] # hand[2]
    /\ \A v \in Workers : wtask[v] = wtask[w] => v = w

OwnRan == \A t \in ran : caller[t] = "ok"

OwnAll ==
  \A t \in Tasks :
    Live(t) =>
      \/ t \in Entries(queue)
      \/ disp = "assign" /\ t = hand[2]
      \/ \E w \in Workers : t = wtask[w]

Ownership ==
  OwnCur /\ OwnNew /\ OwnQueue /\ OwnHand /\ OwnWorkers /\ OwnRan /\ OwnAll

\* Nothing is owned at the start.
LEMMA OwnInit == Init => Ownership
<1> SUFFICES ASSUME Init PROVE Ownership
  OBVIOUS
<1>1. Distinct(queue) /\ Entries(queue) = {}
  BY DEF Init, Distinct, Entries
<1> QED BY <1>1, ExecutorAssumption
        DEF Init, Ownership, OwnCur, OwnNew, OwnQueue, OwnHand, OwnWorkers, OwnRan,
            OwnAll, Live

\* A caller that arrives, gives up or is met by the dispatcher.
LEMMA OwnCaller ==
  ASSUME TypeOK, Places, Ownership,
         Shutdown \/ \E t \in Tasks : CallerStep(t) \/ DispatcherMeetsCaller(t)
  PROVE  Ownership'
<1> USE ExecutorAssumption
<1> USE DEF Ownership, OwnCur, OwnNew, OwnQueue, OwnHand, OwnWorkers, OwnRan,
            OwnAll, Live, Unanswered
<1>e. Entries(queue) \subseteq Tasks
  BY EntriesType DEF TypeOK
<1>1. CASE Shutdown
  BY <1>1 DEF Shutdown, callerVars, dispVars, workerVars
<1>2. ASSUME NEW t \in Tasks, Enqueue(t) \/ WaitExpires(t)
      PROVE  Ownership'
  BY <1>2, <1>e DEF Enqueue, WaitExpires, TypeOK, Places, callerVars, dispVars, workerVars
<1>3. ASSUME NEW t \in Tasks, EnqueueFails(t)
      PROVE  Ownership'
  BY <1>3, <1>e DEF EnqueueFails, TypeOK, Places, dispVars, workerVars
<1>4. ASSUME NEW t \in Tasks, SelectEnqueue(t)
      PROVE  Ownership'
  BY <1>4, <1>e DEF SelectEnqueue, Selecting, TypeOK, Places, workerVars
<1>5. ASSUME NEW t \in Tasks, DrainRequest(t)
      PROVE  Ownership'
  BY <1>5, <1>e DEF DrainRequest, Answer, TypeOK, Places, workerVars
<1> QED BY <1>1, <1>2, <1>3, <1>4, <1>5 DEF CallerStep, DispatcherMeetsCaller

\* Taking the oldest request moves it from the queue to the hand-over.
LEMMA OwnTake ==
  ASSUME TypeOK, Places, Ownership, disp \in {"loop", "room"}, queue # <<>>,
         NEW w \in Workers, TakeOldest(w), UNCHANGED <<caller, released, cur, wtask, ran>>
  PROVE  Ownership'
<1> USE ExecutorAssumption
<1> USE DEF Ownership, OwnCur, OwnNew, OwnQueue, OwnHand, OwnWorkers, OwnRan,
            OwnAll, Live, Unanswered
<1>1. /\ Entries(queue) \subseteq Tasks
      /\ Entries(queue) = Entries(queue') \cup {hand'[2]}
      /\ Distinct(queue') /\ hand'[2] \notin Entries(queue')
      /\ disp' = "assign"
  BY TailFacts, EntriesType DEF TakeOldest, TypeOK
<1> QED BY <1>1 DEF TypeOK, Places

\* Workers: a task moves to the worker that met the dispatcher, is released
\* when it has run.
LEMMA OwnWorker ==
  ASSUME TypeOK, Places, Ownership, NEW w \in Workers,
         WorkerStep(w) \/ DispatcherMeetsWorker(w)
  PROVE  Ownership'
<1> USE ExecutorAssumption
<1> USE DEF Ownership, OwnCur, OwnNew, OwnQueue, OwnHand, OwnWorkers, OwnRan,
            OwnAll, Live, Unanswered
<1>e. Entries(queue) \subseteq Tasks
  BY EntriesType DEF TypeOK
<1>1. CASE WorkerExits(w)
  BY <1>1, <1>e DEF WorkerExits, TypeOK, Places, callerVars, dispVars
<1>2. CASE WorkerStarts(w)
  <2>1. wtask[w] \in Tasks /\ wtask[w] # None
    BY <1>2 DEF WorkerStarts, TypeOK, Places
  <2>2. CASE ctxDone
    <3>1. /\ released' = released \cup {wtask[w]}
          /\ wtask' = [wtask EXCEPT ![w] = None]
          /\ UNCHANGED <<caller, disp, queue, cur, hand, reply, ran>>
      BY <1>2, <2>2 DEF WorkerStarts, callerVars, dispVars
    <3>2. OwnCur' /\ OwnNew' /\ OwnQueue' /\ OwnHand' /\ OwnRan'
      BY <3>1, <2>1, <1>e DEF TypeOK, Places
    <3>3. OwnWorkers'
      BY <3>1, <2>1, <1>e DEF TypeOK
    <3>4. OwnAll'
      BY <3>1, <2>1, <1>e DEF TypeOK
    <3> QED BY <3>2, <3>3, <3>4
  <2>3. CASE ~ctxDone
    BY <1>2, <1>e, <2>1, <2>3 DEF WorkerStarts, TypeOK, Places, callerVars, dispVars
  <2> QED BY <2>2, <2>3
<1>3. CASE WorkerFinishes(w)
  <2>1. wtask[w] \in Tasks /\ wtask[w] # None
    BY <1>3 DEF WorkerFinishes, TypeOK, Places
  <2> QED BY <1>3, <1>e, <2>1 DEF WorkerFinishes, TypeOK, Places, callerVars, dispVars
<1>4. CASE SelectWorkerReady(w)
  BY <1>4, <1>e DEF SelectWorkerReady, TypeOK, Places, callerVars
<1>5. CASE FullWorkerReady(w)
  BY <1>5, OwnTake, FullFacts DEF FullWorkerReady, TypeOK, callerVars
<1> QED BY <1>1, <1>2, <1>3, <1>4, <1>5 DEF WorkerStep, DispatcherMeetsWorker

\* The dispatcher's own steps.
LEMMA OwnDispatcher ==
  ASSUME TypeOK, Places, Ownership, DispatcherStep
  PROVE  Ownership'
<1> USE ExecutorAssumption
<1> USE DEF Ownership, OwnCur, OwnNew, OwnQueue, OwnHand, OwnWorkers, OwnRan,
            OwnAll, Live, Unanswered
<1>e. Entries(queue) \subseteq Tasks
  BY EntriesType DEF TypeOK
<1>1. CASE MatchIdle
  <2>1. Head(idle) \in Workers
    BY <1>1 DEF MatchIdle, TypeOK
  <2> QED BY <1>1, <2>1, OwnTake DEF MatchIdle, callerVars, workerVars
<1>2. CASE SelectCtxDone
  BY <1>2, <1>e DEF SelectCtxDone, Selecting, TypeOK, Places, callerVars, workerVars
<1>3. CASE Received
  BY <1>3, <1>e DEF Received, Answer, TypeOK, Places, callerVars, workerVars
<1>4. CASE RoomGivesUp
  BY <1>4, <1>e DEF RoomGivesUp, Answer, TypeOK, Places, callerVars, workerVars
<1>5. CASE AdmitToQueue
  <2>1. cur \in Tasks /\ disp = "room" /\ cur \notin Entries(queue)
    BY <1>5 DEF AdmitToQueue, Places
  <2>2. Distinct(queue') /\ Entries(queue') = Entries(queue) \cup {cur}
    BY <1>5, <2>1, AppendFacts DEF AdmitToQueue, TypeOK
  <2> QED BY <1>5, <1>e, <2>1, <2>2
          DEF AdmitToQueue, Answer, TypeOK, Places, callerVars, workerVars
<1>6. CASE RespondDelivered
  <2>1. /\ caller' = [caller EXCEPT ![cur] = reply] /\ caller[cur] = "waiting"
        /\ cur \in Tasks /\ cur' = None /\ disp = "respond"
        /\ disp' \in {"loop", "stop", "drain"}
        /\ UNCHANGED <<queue, hand, reply, wtask, ran>>
    BY <1>6 DEF RespondDelivered, TypeOK, Places, workerVars
  <2>2. CASE reply = "ok"
    <3>1. cur \in Entries(queue) /\ cur \notin released
      BY <2>1, <2>2 DEF Places, TypeOK, Entries
    <3>2. released' = released
      BY <1>6, <2>2 DEF RespondDelivered
    <3> QED BY <2>1, <2>2, <3>1, <3>2, <1>e DEF TypeOK
  <2>3. CASE reply = "failed"
    <3>1. released' = released \cup {cur}
      BY <1>6, <2>3 DEF RespondDelivered
    <3> QED BY <2>1, <2>3, <3>1, <1>e DEF TypeOK
  <2> QED BY <2>2, <2>3 DEF TypeOK
<1>7. CASE RespondExpired
  <2>1. CASE reply = "ok"
    <3>1. queue # <<>> /\ cur = queue[Len(queue)] /\ disp = "respond" /\ cur \in Tasks
      BY <1>7, <2>1 DEF RespondExpired, Places
    <3>2. /\ Distinct(queue') /\ cur \notin Entries(queue')
          /\ Entries(queue) = Entries(queue') \cup {cur}
      <4>1. queue' = WithoutLast(queue) /\ queue \in Seq(Tasks)
        BY <1>7, <2>1 DEF RespondExpired, TypeOK, WithoutLast
      <4> QED BY <4>1, <3>1, FrontFacts
    <3> QED BY <1>7, <2>1, <1>e, <3>1, <3>2
            DEF RespondExpired, TypeOK, Places, callerVars, workerVars
  <2>2. CASE reply # "ok"
    BY <1>7, <2>2, <1>e DEF RespondExpired, TypeOK, Places, callerVars, workerVars
  <2> QED BY <2>1, <2>2
<1>8. CASE AssignHandOver
  <2>1. hand \in Workers \X Tasks /\ disp = "assign" /\ wtask[hand[1]] = None
    BY <1>8 DEF AssignHandOver, TypeOK, Places
  <2> QED BY <1>8, <1>e, <2>1 DEF AssignHandOver, TypeOK, Places, callerVars
<1>9. CASE AssignFails
  <2>1. hand[2] \in Tasks /\ disp = "assign"
    BY <1>9 DEF AssignFails, Places
  <2> QED BY <1>9, <1>e, <2>1
          DEF AssignFails, Answer, TypeOK, Places, callerVars, workerVars
<1>10. CASE RejectPending
  <2>1. Distinct(queue') /\ Entries(queue') = {}
    BY <1>10 DEF RejectPending, Distinct, Entries
  <2> QED BY <1>10, <1>e, <2>1 DEF RejectPending, TypeOK, Places, callerVars, workerVars
<1>11. CASE DrainEnds
  BY <1>11, <1>e DEF DrainEnds, TypeOK, Places, callerVars, workerVars
<1> QED BY <1>1, <1>2, <1>3, <1>4, <1>5, <1>6, <1>7, <1>8, <1>9, <1>10, <1>11
        DEF DispatcherStep

\* Types, places and ownership are inductive together.
LEMMA OwnStep ==
  ASSUME TypeOK, Places, Ownership, [Next]_vars
  PROVE  Ownership'
<1>1. CASE UNCHANGED vars
  BY <1>1 DEF vars, callerVars, dispVars, workerVars, Ownership, OwnCur, OwnNew,
              OwnQueue, OwnHand, OwnWorkers, OwnRan, OwnAll, Live, Unanswered
<1> QED BY <1>1, OwnCaller, OwnWorker, OwnDispatcher DEF Next

\* Every state of the executor has its types, places and owners.
LEMMA OwnershipHolds == Spec => [](TypeOK /\ Places /\ Ownership)
<1>1. TypeOK /\ Places /\ Ownership /\ [Next]_vars => Ownership'
  BY OwnStep
<1> QED BY TypesAndPlaces, OwnInit, <1>1, PTL DEF Spec

\* What the worker goroutines and the hand-over hold, as sets.
LEMMA HoldersFacts ==
  ASSUME TypeOK, Places
  PROVE  /\ \A t \in Held : disp = "assign" /\ t = hand[2] /\ t \in Tasks
         /\ \A t \in AtWorkers : t # None /\ \E w \in Workers : t = wtask[w]
         /\ disp = "assign" => hand[2] \in Held
         /\ \A w \in Workers : wtask[w] # None => wtask[w] \in AtWorkers
BY ExecutorAssumption DEF TypeOK, Places, Held, AtWorkers, NoHand

\* No task is ever in two places: two queue slots, the queue and the
\* dispatcher's hand, a hand and a worker, or two workers.  So dispatch and
\* worker never run a job twice, for any number of workers.
THEOREM TasksHaveOneOwner == Spec => []OneOwner
<1>1. ASSUME TypeOK, Places, Ownership
      PROVE  OneOwner
  <2>1. \A i, j \in 1..Len(queue) : queue[i] = queue[j] => i = j
    BY <1>1 DEF Ownership, OwnQueue, Distinct
  <2>2. Entries(queue) \cap (Held \cup AtWorkers) = {}
    BY <1>1, HoldersFacts DEF Ownership, OwnHand, OwnWorkers
  <2>3. Held \cap AtWorkers = {}
    BY <1>1, HoldersFacts DEF Ownership, OwnWorkers
  <2>4. \A v, w \in Workers : wtask[v] = wtask[w] /\ wtask[v] # None => v = w
    BY <1>1 DEF Ownership, OwnWorkers
  <2> QED BY <2>1, <2>2, <2>3, <2>4 DEF OneOwner
<1> QED BY OwnershipHolds, <1>1, PTL

\* A job whose Enqueue returned an error has not been run and never reaches
\* a worker, however its timeout races the dispatcher's answer.
THEOREM RefusedJobsNeverRun == Spec => []RefusedNeverRuns
<1>1. ASSUME TypeOK, Places, Ownership
      PROVE  RefusedNeverRuns
  BY <1>1, HoldersFacts
     DEF RefusedNeverRuns, Ownership, OwnHand, OwnWorkers, OwnRan, Live
<1> QED BY OwnershipHolds, <1>1, PTL

\* A task on its way to a worker or with one has not been released: no job
\* runs on contexts that its caller or the dispatcher has cancelled.
THEOREM HeldTasksAreLive == Spec => []HeldTaskIsLive
<1>1. ASSUME TypeOK, Places, Ownership
      PROVE  HeldTaskIsLive
  BY <1>1, HoldersFacts DEF HeldTaskIsLive, Ownership, OwnHand, OwnWorkers, Live
<1> QED BY OwnershipHolds, <1>1, PTL

\* A job whose Enqueue returned nil is queued, held, with a worker or
\* released: no path of dispatch, assignTask or rejectPending drops one.
THEOREM AdmittedJobsAreAccounted == Spec => []AdmittedIsAccounted
<1>1. ASSUME TypeOK, Places, Ownership
      PROVE  AdmittedIsAccounted
  <2> SUFFICES ASSUME NEW t \in Tasks, caller[t] = "ok", t \notin released
               PROVE  t \in Entries(queue) \cup Held \cup AtWorkers
    BY DEF AdmittedIsAccounted
  <2>1. \/ t \in Entries(queue)
        \/ disp = "assign" /\ t = hand[2]
        \/ \E w \in Workers : t = wtask[w]
    BY <1>1 DEF Ownership, OwnAll, Live
  <2> QED BY <2>1, <1>1, HoldersFacts, ExecutorAssumption
<1> QED BY OwnershipHolds, <1>1, PTL

-----------------------------------------------------------------------------
\* Counting: the queue, the counters that are published, and their bounds.

OfTenant(S, tn) == {t \in S : TenantOf[t] = tn}

\* One task more or less counts for its own tenant only.
LEMMA CountAdd ==
  ASSUME NEW S \in SUBSET Tasks, NEW t \in Tasks, t \notin S, NEW tn
  PROVE  /\ Cardinality(OfTenant(S, tn)) \in Nat
         /\ Cardinality(OfTenant(S \cup {t}, tn)) =
              IF TenantOf[t] = tn THEN Cardinality(OfTenant(S, tn)) + 1
              ELSE Cardinality(OfTenant(S, tn))
<1>1. IsFiniteSet(OfTenant(S, tn))
  <2>1. OfTenant(S, tn) \in SUBSET Tasks
    BY DEF OfTenant
  <2> QED BY <2>1, ExecutorAssumption, FS_Subset
<1>2. Cardinality(OfTenant(S, tn)) \in Nat
  BY <1>1, FS_CardinalityType
<1>3. CASE TenantOf[t] = tn
  <2>1. OfTenant(S \cup {t}, tn) = OfTenant(S, tn) \cup {t} /\ t \notin OfTenant(S, tn)
    BY <1>3 DEF OfTenant
  <2> QED BY <1>1, <1>2, <1>3, <2>1, FS_AddElement
<1>4. CASE TenantOf[t] # tn
  <2>1. OfTenant(S \cup {t}, tn) = OfTenant(S, tn)
    BY <1>4 DEF OfTenant
  <2> QED BY <1>2, <1>4, <2>1
<1> QED BY <1>3, <1>4

\* The dispatcher has accepted cur within its tenant's share and waits for
\* room in the queue, or hands over a task to make some.
Deciding == disp = "room" \/ (disp = "assign" /\ cur \in Tasks)

DepthRight ==
  \A tn \in Tenants : depth[tn] = Cardinality(OfTenant(Entries(queue), tn))

Bounded ==
  /\ Len(queue) <= QueueCapacity
  /\ \A tn \in Tenants : depth[tn] <= TenantShare
  /\ Deciding => depth[TenantOf[cur]] + 1 <= TenantShare

\* Idle workers and queued requests do not meet while a request is decided.
NobodyIdle ==
  disp = "received" \/ Deciding => queue = <<>> \/ idle = <<>>

Counting == DepthRight /\ Bounded /\ NobodyIdle

\* An empty queue is counted right.
LEMMA CountInit == Init => Counting
<1> SUFFICES ASSUME Init PROVE Counting
  OBVIOUS
<1>1. Entries(queue) = {} /\ Len(queue) = 0
  BY DEF Init, Entries
<1>2. \A tn \in Tenants : Cardinality(OfTenant(Entries(queue), tn)) = 0
  BY <1>1, FS_EmptySet DEF OfTenant
<1>3. \A tn \in Tenants : depth[tn] = 0
  BY DEF Init
<1>4. DepthRight
  BY <1>2, <1>3 DEF DepthRight
<1>5. Bounded /\ NobodyIdle
  BY <1>1, <1>3, BoundFacts DEF Init, Bounded, NobodyIdle, Deciding
<1> QED BY <1>4, <1>5 DEF Counting

\* A task leaves the queue and the count of its tenant.
LEMMA CountRemoved ==
  ASSUME TypeOK, Counting, NEW t \in Tasks, queue' \in Seq(Tasks),
         Entries(queue) = Entries(queue') \cup {t}, t \notin Entries(queue'),
         Len(queue') = Len(queue) - 1, depth' = DepthMinus(t)
  PROVE  /\ DepthRight'
         /\ Len(queue') <= QueueCapacity
         /\ \A tn \in Tenants : depth'[tn] \in Nat /\ depth'[tn] <= depth[tn]
<1>1. Entries(queue') \in SUBSET Tasks
  BY EntriesType
<1>2. ASSUME NEW tn \in Tenants
      PROVE  /\ depth'[tn] = Cardinality(OfTenant(Entries(queue'), tn))
             /\ depth'[tn] \in Nat /\ depth'[tn] <= depth[tn]
  <2>1. /\ Cardinality(OfTenant(Entries(queue'), tn)) \in Nat
        /\ depth[tn] = IF TenantOf[t] = tn
                       THEN Cardinality(OfTenant(Entries(queue'), tn)) + 1
                       ELSE Cardinality(OfTenant(Entries(queue'), tn))
    BY <1>1, CountAdd DEF Counting, DepthRight
  <2> QED BY <2>1, ExecutorAssumption DEF DepthMinus, TypeOK
<1>3. Len(queue') <= QueueCapacity
  BY BoundFacts DEF Counting, Bounded, TypeOK
<1> QED BY <1>2, <1>3 DEF DepthRight

\* TakeOldest only makes room.
LEMMA CountTake ==
  ASSUME TypeOK, Places, Ownership, Counting, disp \in {"loop", "room"},
         queue # <<>>, NEW w \in Workers, TakeOldest(w), UNCHANGED cur,
         disp = "room" => UNCHANGED idle
  PROVE  Counting'
<1>1. /\ Head(queue) \in Tasks /\ queue' \in Seq(Tasks)
      /\ Entries(queue) = Entries(queue') \cup {Head(queue)}
      /\ Head(queue) \notin Entries(queue')
      /\ Len(queue') = Len(queue) - 1 /\ depth' = DepthMinus(Head(queue))
      /\ disp' = "assign"
  BY TailFacts DEF TakeOldest, TypeOK, Ownership, OwnQueue
<1>2. /\ DepthRight'
      /\ Len(queue') <= QueueCapacity
      /\ \A tn \in Tenants : depth'[tn] \in Nat /\ depth'[tn] <= depth[tn]
  BY <1>1, CountRemoved
<1>3. CASE disp = "loop"
  BY <1>1, <1>2, <1>3, ExecutorAssumption, BoundFacts
     DEF Counting, Bounded, NobodyIdle, Deciding, Places, TypeOK
<1>4. CASE disp = "room"
  <2>1. cur \in Tasks /\ idle = <<>> /\ TenantOf[cur] \in Tenants
    BY <1>4, ExecutorAssumption DEF Places, Counting, NobodyIdle, Deciding
  <2> QED BY <1>1, <1>2, <1>4, <2>1, BoundFacts
          DEF Counting, Bounded, NobodyIdle, Deciding, TypeOK
<1> QED BY <1>3, <1>4

\* The counters and the bounds survive every step: a request is admitted only
\* within the share it was checked against, and others can only leave meanwhile.
LEMMA CountStep ==
  ASSUME TypeOK, Places, Ownership, Counting, [Next]_vars
  PROVE  Counting'
<1> USE ExecutorAssumption, BoundFacts
<1> USE DEF Counting, DepthRight, Bounded, NobodyIdle, Deciding
<1>1. CASE UNCHANGED vars
  BY <1>1 DEF vars, dispVars
<1>2. CASE Shutdown
  BY <1>2 DEF Shutdown, dispVars
<1>3. ASSUME NEW t \in Tasks, CallerStep(t)
      PROVE  Counting'
  BY <1>3 DEF CallerStep, Enqueue, EnqueueFails, WaitExpires, dispVars
<1>4. ASSUME NEW t \in Tasks, DispatcherMeetsCaller(t)
      PROVE  Counting'
  BY <1>4 DEF DispatcherMeetsCaller, SelectEnqueue, Selecting, DrainRequest, Answer
<1>5. ASSUME NEW w \in Workers, WorkerStep(w)
      PROVE  Counting'
  BY <1>5 DEF WorkerStep, WorkerExits, WorkerStarts, WorkerFinishes, dispVars
<1>6. ASSUME NEW w \in Workers, SelectWorkerReady(w)
      PROVE  Counting'
  BY <1>6 DEF SelectWorkerReady, Selecting
<1>7. ASSUME NEW w \in Workers, FullWorkerReady(w)
      PROVE  Counting'
  BY <1>7, CountTake, FullFacts DEF FullWorkerReady, TypeOK
<1>8. CASE MatchIdle
  <2>1. Head(idle) \in Workers
    BY <1>8 DEF MatchIdle, TypeOK
  <2> QED BY <1>8, <2>1, CountTake DEF MatchIdle
<1>9. CASE SelectCtxDone \/ RoomGivesUp \/ AssignFails \/ DrainEnds
  BY <1>9 DEF SelectCtxDone, RoomGivesUp, AssignFails, DrainEnds, Answer, Places
<1>10. CASE Received
  BY <1>10 DEF Received, Answer, TenantQueueLimitExceeded, Places, TypeOK
<1>11. CASE AdmitToQueue
  <2>1. /\ cur \in Tasks /\ disp = "room" /\ disp' = "respond"
        /\ TenantOf[cur] \in Tenants
        /\ queue' = Append(queue, cur) /\ depth' = DepthPlus(cur)
        /\ Len(queue) < QueueCapacity
    BY <1>11 DEF AdmitToQueue, Answer, Places
  <2>2. cur \notin Entries(queue)
    BY <2>1 DEF Ownership, OwnCur, OwnQueue, Live, Unanswered
  <2>3. /\ Entries(queue') = Entries(queue) \cup {cur}
        /\ Len(queue') = Len(queue) + 1 /\ Len(queue) \in Nat
        /\ Entries(queue) \in SUBSET Tasks
    BY <2>1, AppendFacts, EntriesType DEF TypeOK
  <2>4. ASSUME NEW tn \in Tenants
        PROVE  /\ depth'[tn] = Cardinality(OfTenant(Entries(queue'), tn))
               /\ depth'[tn] <= TenantShare
    <3>1. /\ Cardinality(OfTenant(Entries(queue), tn)) \in Nat
          /\ Cardinality(OfTenant(Entries(queue'), tn)) =
               IF TenantOf[cur] = tn THEN Cardinality(OfTenant(Entries(queue), tn)) + 1
               ELSE Cardinality(OfTenant(Entries(queue), tn))
      BY <2>1, <2>2, <2>3, CountAdd
    <3> QED BY <2>1, <3>1 DEF DepthPlus, TypeOK
  <2>5. DepthRight'
    BY <2>4
  <2>6. Bounded' /\ NobodyIdle'
    BY <2>1, <2>3, <2>4
  <2> QED BY <2>5, <2>6
<1>12. CASE RespondDelivered
  BY <1>12 DEF RespondDelivered, TypeOK
<1>13. CASE RespondExpired
  <2>1. disp' \in {"loop", "stop", "drain"}
    BY <1>13 DEF RespondExpired, TypeOK
  <2>2. CASE reply = "ok"
    <3>1. /\ queue # <<>> /\ queue \in Seq(Tasks)
          /\ queue' = WithoutLast(queue) /\ depth' = DepthMinus(queue[Len(queue)])
      BY <1>13, <2>2 DEF RespondExpired, Places, TypeOK, WithoutLast
    <3>2. /\ queue[Len(queue)] \in Tasks /\ queue' \in Seq(Tasks)
          /\ Entries(queue) = Entries(queue') \cup {queue[Len(queue)]}
          /\ queue[Len(queue)] \notin Entries(queue')
          /\ Len(queue') = Len(queue) - 1
      BY <3>1, FrontFacts DEF Ownership, OwnQueue
    <3>3. /\ DepthRight'
          /\ Len(queue') <= QueueCapacity
          /\ \A tn \in Tenants : depth'[tn] \in Nat /\ depth'[tn] <= depth[tn]
      BY <3>1, <3>2, CountRemoved
    <3> QED BY <2>1, <3>3 DEF TypeOK
  <2>3. CASE reply # "ok"
    BY <1>13, <2>1, <2>3 DEF RespondExpired
  <2> QED BY <2>2, <2>3
<1>14. CASE AssignHandOver
  BY <1>14 DEF AssignHandOver, TypeOK, Places
<1>15. CASE RejectPending
  <2>1. Entries(queue') = {} /\ Len(queue') = 0
    BY <1>15 DEF RejectPending, Entries
  <2>2. \A tn \in Tenants : Cardinality(OfTenant(Entries(queue'), tn)) = 0
    BY <2>1, FS_EmptySet DEF OfTenant
  <2>3. (\A tn \in Tenants : depth'[tn] = 0) /\ disp' = "drain"
    BY <1>15 DEF RejectPending
  <2>4. DepthRight'
    BY <2>2, <2>3
  <2>5. Bounded' /\ NobodyIdle'
    BY <2>1, <2>3
  <2> QED BY <2>4, <2>5
<1> QED BY <1>1, <1>2, <1>3, <1>4, <1>5, <1>6, <1>7, <1>8, <1>9, <1>10, <1>11,
           <1>12, <1>13, <1>14, <1>15
        DEF Next, DispatcherMeetsWorker, DispatcherStep

\* The counters and the bounds hold in every state of the executor.
LEMMA CountingHolds == Spec => [](TypeOK /\ Counting)
<1>1. TypeOK /\ Places /\ Ownership /\ Counting /\ [Next]_vars => Counting'
  BY CountStep
<1> QED BY OwnershipHolds, CountInit, <1>1, PTL DEF Spec

\* queuedByTenant always equals the number of the tenant's requests in the
\* dispatcher's queue, so admission and the metrics read the truth.
THEOREM DepthsMatchQueue == Spec => []DepthMatchesQueue
<1>1. Counting => DepthMatchesQueue
  BY DEF Counting, DepthRight, DepthMatchesQueue, OfTenant
<1> QED BY CountingHolds, <1>1, PTL

\* The queue never outgrows its capacity and no tenant its share, though the
\* share is checked before the wait for room.
THEOREM QueueBoundsRespected == Spec => []BoundsRespected
<1>1. Counting => BoundsRespected
  BY DEF Counting, DepthRight, Bounded, BoundsRespected, OfTenant
<1> QED BY CountingHolds, <1>1, PTL

\* No announced worker is left idle while the dispatcher waits for room in a
\* full queue, where it listens to newly announced workers only.
THEOREM FullQueueLeavesNobodyIdle == Spec => []FullQueueHasNoIdleWorker
<1>1. Counting => FullQueueHasNoIdleWorker
  BY DEF Counting, NobodyIdle, Deciding, FullQueueHasNoIdleWorker
<1> QED BY CountingHolds, <1>1, PTL

\* For every number of workers, tasks and tenants: what Enqueue told its caller
\* agrees with the one place where the dispatcher and the workers have the task.
THEOREM TasksOwned == Spec => []TasksAreOwned
<1>1. TypeOK /\ OneOwner /\ AdmittedIsAccounted /\ RefusedNeverRuns /\ HeldTaskIsLive
        => TasksAreOwned
  BY DEF TasksAreOwned
<1> QED BY <1>1, ExecutorTypes, TasksHaveOneOwner, AdmittedJobsAreAccounted,
           RefusedJobsNeverRun, HeldTasksAreLive, PTL

\* For every number of workers, tasks and tenants: the counters of the dispatcher
\* match its queue, its bounds hold, and nobody idles while it waits for room.
THEOREM QueueCounted == Spec => []QueueIsCounted
<1>1. DepthMatchesQueue /\ BoundsRespected /\ FullQueueHasNoIdleWorker => QueueIsCounted
  BY DEF QueueIsCounted
<1> QED BY <1>1, DepthsMatchQueue, QueueBoundsRespected, FullQueueLeavesNobodyIdle, PTL

-----------------------------------------------------------------------------
\* Refinement: the executor implements JobQueue.

\* The dispatcher stops and a worker exits only after the server context ended.
Stopping ==
  /\ disp \in {"stop", "drain", "done"} => ctxDone
  /\ disp = "respond" /\ after \in {"stop", "drain"} => ctxDone
  /\ \A w \in Workers : worker[w] = "exited" => ctxDone

\* Every step keeps it so.
LEMMA StoppingStep ==
  ASSUME TypeOK, Places, Stopping, [Next]_vars
  PROVE  Stopping'
<1> USE DEF Stopping, TypeOK
<1>1. CASE UNCHANGED vars
  BY <1>1 DEF vars, dispVars, workerVars
<1>2. CASE Shutdown
  BY <1>2 DEF Shutdown
<1>3. ASSUME NEW t \in Tasks, CallerStep(t) \/ DispatcherMeetsCaller(t)
      PROVE  Stopping'
  BY <1>3 DEF CallerStep, Enqueue, EnqueueFails, WaitExpires, DispatcherMeetsCaller,
              SelectEnqueue, DrainRequest, Answer, dispVars, workerVars
<1>4. ASSUME NEW w \in Workers, WorkerStep(w) \/ DispatcherMeetsWorker(w)
      PROVE  Stopping'
  BY <1>4 DEF WorkerStep, WorkerExits, WorkerStarts, WorkerFinishes, DispatcherMeetsWorker,
              SelectWorkerReady, Selecting, FullWorkerReady, TakeOldest, dispVars
<1>5. CASE MatchIdle \/ SelectCtxDone \/ Received \/ RoomGivesUp \/ AdmitToQueue
  BY <1>5 DEF MatchIdle, TakeOldest, SelectCtxDone, Received, RoomGivesUp, AdmitToQueue,
              Answer, workerVars
<1>6. CASE RespondDelivered \/ RespondExpired
  BY <1>6 DEF RespondDelivered, RespondExpired, workerVars
<1>7. CASE AssignHandOver
  BY <1>7 DEF AssignHandOver
<1>8. CASE AssignFails
  <2>1. hand[1] \in Workers /\ disp = "assign"
    BY <1>8 DEF AssignFails, Places
  <2> QED BY <1>8, <2>1 DEF AssignFails, Answer, workerVars
<1>9. CASE RejectPending \/ DrainEnds
  BY <1>9 DEF RejectPending, DrainEnds, workerVars
<1> QED BY <1>1, <1>2, <1>3, <1>4, <1>5, <1>6, <1>7, <1>8, <1>9 DEF Next, DispatcherStep

\* All that the refinement relies on.
ExecutorInv == TypeOK /\ Places /\ Ownership /\ Counting /\ Stopping

\* It holds in every state of the executor.
LEMMA ExecutorInvHolds == Spec => []ExecutorInv
<1>1. Init => Stopping
  BY DEF Init, Stopping
<1>2. TypeOK /\ Places /\ Stopping /\ [Next]_vars => Stopping'
  BY StoppingStep
<1> QED BY OwnershipHolds, CountingHolds, <1>1, <1>2, PTL DEF Spec, ExecutorInv

\* The state of job t in the abstract queue, from how its Enqueue call stands,
\* the jobs that wait and the jobs that workers hold.
StatusOf(t, c, waits, works) ==
  IF c = "idle" THEN "new"
  ELSE IF c \in {"sending", "waiting"} THEN "submitted"
  ELSE IF c = "failed" THEN "refused"
  ELSE IF c = "ok" /\ t \in waits THEN "queued"
  ELSE IF c = "ok" /\ t \in works THEN "started"
  ELSE "settled"

\* The refinement mapping, before and after a step.
LEMMA JobFacts ==
  /\ AbsJob = [t \in Tasks |-> StatusOf(t, caller[t], Entries(AbsWaiting), AtWorkers)]
  /\ AbsJob' = [t \in Tasks |-> StatusOf(t, caller'[t], Entries(AbsWaiting'), AtWorkers')]
<1>1. ASSUME NEW t \in Tasks
      PROVE  AbsJob[t] = StatusOf(t, caller[t], Entries(AbsWaiting), AtWorkers)
  <2>1. CASE caller[t] \in {"idle", "sending", "waiting", "failed"}
    BY <2>1 DEF AbsJob, StatusOf, Entries
  <2>2. CASE caller[t] = "ok" /\ t \in Entries(AbsWaiting)
    BY <2>2 DEF AbsJob, StatusOf, Entries
  <2>3. CASE caller[t] = "ok" /\ t \notin Entries(AbsWaiting) /\ t \in AtWorkers
    BY <2>3 DEF AbsJob, StatusOf, Entries
  <2>4. CASE caller[t] = "ok" /\ t \notin Entries(AbsWaiting) /\ t \notin AtWorkers
    BY <2>4 DEF AbsJob, StatusOf, Entries
  <2>5. CASE caller[t] \notin {"idle", "sending", "waiting", "failed", "ok"}
    BY <2>5 DEF AbsJob, StatusOf, Entries
  <2> QED BY <2>1, <2>2, <2>3, <2>4, <2>5
<1>2. ASSUME NEW t \in Tasks
      PROVE  AbsJob'[t] = StatusOf(t, caller'[t], Entries(AbsWaiting'), AtWorkers')
  <2>1. CASE caller'[t] \in {"idle", "sending", "waiting", "failed"}
    BY <2>1 DEF AbsJob, StatusOf, Entries
  <2>2. CASE caller'[t] = "ok" /\ t \in Entries(AbsWaiting')
    BY <2>2 DEF AbsJob, StatusOf, Entries
  <2>3. CASE caller'[t] = "ok" /\ t \notin Entries(AbsWaiting') /\ t \in AtWorkers'
    BY <2>3 DEF AbsJob, StatusOf, Entries
  <2>4. CASE caller'[t] = "ok" /\ t \notin Entries(AbsWaiting') /\ t \notin AtWorkers'
    BY <2>4 DEF AbsJob, StatusOf, Entries
  <2>5. CASE caller'[t] \notin {"idle", "sending", "waiting", "failed", "ok"}
    BY <2>5 DEF AbsJob, StatusOf, Entries
  <2> QED BY <2>1, <2>2, <2>3, <2>4, <2>5
<1>3. AbsJob = [t \in Tasks |-> AbsJob[t]] /\ AbsJob' = [t \in Tasks |-> AbsJob'[t]]
  BY DEF AbsJob
<1> QED BY <1>1, <1>2, <1>3

\* A step that changes no caller's answer, no waiting job and no held job is
\* not seen in the abstract queue.
LEMMA Unseen ==
  ASSUME \A t \in Tasks :
           \/ caller'[t] = caller[t]
           \/ {caller[t], caller'[t]} \subseteq {"sending", "waiting"},
         AbsWaiting' = AbsWaiting, AtWorkers' = AtWorkers
  PROVE  AbsJob' = AbsJob
<1>1. ASSUME NEW t \in Tasks
      PROVE  StatusOf(t, caller'[t], Entries(AbsWaiting'), AtWorkers')
               = StatusOf(t, caller[t], Entries(AbsWaiting), AtWorkers)
  BY DEF StatusOf
<1> QED BY <1>1, JobFacts

\* A step that changes the state of job t only.
LEMMA SeenOnly ==
  ASSUME NEW t \in Tasks, NEW x,
         StatusOf(t, caller'[t], Entries(AbsWaiting'), AtWorkers') = x,
         \A u \in Tasks \ {t} :
           /\ caller'[u] = caller[u]
           /\ u \in Entries(AbsWaiting') <=> u \in Entries(AbsWaiting)
           /\ u \in AtWorkers' <=> u \in AtWorkers
  PROVE  AbsJob' = [AbsJob EXCEPT ![t] = x]
<1>1. ASSUME NEW u \in Tasks \ {t}
      PROVE  StatusOf(u, caller'[u], Entries(AbsWaiting'), AtWorkers')
               = StatusOf(u, caller[u], Entries(AbsWaiting), AtWorkers)
  BY <1>1 DEF StatusOf
<1> QED BY <1>1, JobFacts

\* The waiting jobs at the places of the dispatcher.
LEMMA WaitingFacts ==
  /\ disp \notin {"respond", "assign"} => AbsWaiting = queue
  /\ disp = "respond" /\ reply # "ok" => AbsWaiting = queue
  /\ disp = "respond" /\ reply = "ok" => AbsWaiting = WithoutLast(queue)
  /\ disp = "assign" => AbsWaiting = <<hand[2]>> \o queue
  /\ disp' \notin {"respond", "assign"} => AbsWaiting' = queue'
  /\ disp' = "respond" /\ reply' # "ok" => AbsWaiting' = queue'
  /\ disp' = "respond" /\ reply' = "ok" => AbsWaiting' = WithoutLast(queue')
  /\ disp' = "assign" => AbsWaiting' = <<hand'[2]>> \o queue'
BY DEF AbsWaiting, Unanswered, WithoutLast

\* A queue is its oldest request followed by the rest, and what precedes its
\* last request followed by that.
LEMMA QueueSplits ==
  ASSUME NEW q \in Seq(Tasks), NEW t \in Tasks
  PROVE  /\ Head(<<t>> \o q) = t /\ Tail(<<t>> \o q) = q /\ <<t>> \o q # <<>>
         /\ Entries(<<t>> \o q) = Entries(q) \cup {t}
         /\ q # <<>> => <<Head(q)>> \o Tail(q) = q
         /\ q # <<>> => Append(WithoutLast(q), q[Len(q)]) = q
         /\ WithoutLast(Append(q, t)) = q
<1>1. <<t>> \o q \in Seq(Tasks) /\ <<t>> \in Seq(Tasks)
  OBVIOUS
<1>2. Len(<<t>> \o q) = Len(q) + 1 /\ (<<t>> \o q)[1] = t
      /\ \A i \in 1..Len(q) : (<<t>> \o q)[i + 1] = q[i]
  BY <1>1
<1>3. Head(<<t>> \o q) = t /\ <<t>> \o q # <<>>
  BY <1>1, <1>2
<1>4. Tail(<<t>> \o q) = q
  BY <1>1, <1>2
<1>5. Entries(<<t>> \o q) = Entries(q) \cup {t}
  BY <1>1, <1>3, <1>4, TailFacts
<1>6. q # <<>> => <<Head(q)>> \o Tail(q) = q
  OBVIOUS
<1>7. q # <<>> => Append(WithoutLast(q), q[Len(q)]) = q
  BY DEF WithoutLast
<1>8. WithoutLast(Append(q, t)) = q
  BY DEF WithoutLast
<1> QED BY <1>3, <1>4, <1>5, <1>6, <1>7, <1>8

\* A step that leaves answers, waiting jobs, held jobs and the context alone.
LEMMA Stutters ==
  ASSUME \A t \in Tasks :
           \/ caller'[t] = caller[t]
           \/ {caller[t], caller'[t]} \subseteq {"sending", "waiting"},
         AbsWaiting' = AbsWaiting, wtask' = wtask, ctxDone' = ctxDone
  PROVE  UNCHANGED Abs!qvars
<1>1. AtWorkers' = AtWorkers
  BY DEF AtWorkers
<1> QED BY <1>1, Unseen DEF Abs!qvars

\* Callers and the environment: arriving is Submit, giving up is Refuse, the
\* end of the server context is Close.
LEMMA RefineCaller ==
  ASSUME ExecutorInv,
         Shutdown \/ \E t \in Tasks : CallerStep(t) \/ DispatcherMeetsCaller(t)
  PROVE  Abs!QNext \/ UNCHANGED Abs!qvars
<1> USE DEF callerVars, dispVars, workerVars
<1>t. TypeOK
  BY DEF ExecutorInv
<1>1. CASE Shutdown
  <2>1. ~ctxDone /\ ctxDone' = TRUE /\ UNCHANGED <<caller, disp, queue, hand, reply, wtask>>
    BY <1>1 DEF Shutdown
  <2>2. AbsWaiting' = AbsWaiting
    BY <2>1 DEF AbsWaiting, Unanswered
  <2>3. AbsJob' = AbsJob
    BY <2>1, <2>2, Unseen DEF AtWorkers
  <2> QED BY <2>1, <2>2, <2>3 DEF Abs!QNext, Abs!Close
<1>2. ASSUME NEW t \in Tasks, Enqueue(t) \/ EnqueueFails(t)
      PROVE  Abs!QNext
  <2> DEFINE x == IF caller[t] = "idle" THEN "sending" ELSE "failed"
  <2>1. /\ caller[t] \in {"idle", "sending", "waiting"} /\ caller' = [caller EXCEPT ![t] = x]
        /\ UNCHANGED <<ctxDone, disp, queue, hand, reply, wtask>>
    BY <1>2 DEF Enqueue, EnqueueFails
  <2>2. AbsWaiting' = AbsWaiting /\ AtWorkers' = AtWorkers
    BY <2>1 DEF AbsWaiting, Unanswered, AtWorkers
  <2>3. caller'[t] = x /\ \A u \in Tasks \ {t} : caller'[u] = caller[u]
    BY <1>t, <2>1 DEF TypeOK
  <2>4. CASE caller[t] = "idle"
    <3>1. AbsJob' = [AbsJob EXCEPT ![t] = "submitted"]
      BY <2>2, <2>3, <2>4, SeenOnly DEF StatusOf
    <3>2. AbsJob[t] = "new"
      BY <2>4, JobFacts DEF StatusOf
    <3> QED BY <2>1, <2>2, <3>1, <3>2 DEF Abs!QNext, Abs!Submit
  <2>5. CASE caller[t] \in {"sending", "waiting"}
    <3>1. AbsJob' = [AbsJob EXCEPT ![t] = "refused"]
      BY <2>2, <2>3, <2>5, SeenOnly DEF StatusOf
    <3>2. AbsJob[t] = "submitted"
      BY <2>5, JobFacts DEF StatusOf
    <3> QED BY <2>1, <2>2, <3>1, <3>2 DEF Abs!QNext, Abs!Refuse
  <2> QED BY <2>1, <2>4, <2>5
<1>3. ASSUME NEW t \in Tasks, WaitExpires(t) PROVE UNCHANGED Abs!qvars
  <2>1. UNCHANGED <<ctxDone, caller, disp, queue, hand, reply, wtask>>
    BY <1>3 DEF WaitExpires
  <2>2. AbsWaiting' = AbsWaiting
    BY <2>1 DEF AbsWaiting, Unanswered
  <2> QED BY <2>1, <2>2, Stutters
<1>4. ASSUME NEW t \in Tasks, DispatcherMeetsCaller(t) PROVE UNCHANGED Abs!qvars
  <2>1. /\ caller[t] = "sending" /\ caller' = [caller EXCEPT ![t] = "waiting"]
        /\ UNCHANGED <<ctxDone, queue, wtask>>
        /\ disp \in {"loop", "drain"} /\ disp' \in {"received", "respond"}
        /\ disp' = "respond" => reply' = "failed"
    BY <1>4 DEF DispatcherMeetsCaller, SelectEnqueue, Selecting, DrainRequest, Answer
  <2>2. AbsWaiting' = AbsWaiting
    BY <2>1, WaitingFacts
  <2>3. \A u \in Tasks : \/ caller'[u] = caller[u]
                         \/ {caller[u], caller'[u]} \subseteq {"sending", "waiting"}
    BY <1>t, <2>1 DEF TypeOK
  <2> QED BY <2>1, <2>2, <2>3, Stutters
<1> QED BY <1>1, <1>2, <1>3, <1>4 DEF CallerStep

\* A worker that ends or gives up its task finishes it in the abstract queue.
LEMMA RefineWorker ==
  ASSUME ExecutorInv, NEW w \in Workers, WorkerStep(w) \/ DispatcherMeetsWorker(w)
  PROVE  Abs!QNext \/ UNCHANGED Abs!qvars
<1> USE DEF callerVars, dispVars
<1>t. TypeOK /\ Places /\ Ownership
  BY DEF ExecutorInv
<1>1. CASE WorkerExits(w) \/ (WorkerStarts(w) /\ ~ctxDone) \/ SelectWorkerReady(w)
  <2>1. UNCHANGED <<ctxDone, caller, disp, queue, hand, reply, wtask>>
    BY <1>1 DEF WorkerExits, WorkerStarts, SelectWorkerReady
  <2>2. AbsWaiting' = AbsWaiting
    BY <2>1 DEF AbsWaiting, Unanswered
  <2> QED BY <2>1, <2>2, Stutters
<1>2. CASE (WorkerStarts(w) /\ ctxDone) \/ WorkerFinishes(w)
  <2> DEFINE t == wtask[w]
  <2>1. /\ worker[w] \in {"got", "running"} /\ wtask' = [wtask EXCEPT ![w] = None]
        /\ UNCHANGED <<ctxDone, caller, disp, queue, hand, reply>>
    BY <1>2 DEF WorkerStarts, WorkerFinishes
  <2>2. AbsWaiting' = AbsWaiting
    BY <2>1 DEF AbsWaiting, Unanswered
  <2>3. /\ t \in Tasks /\ t # None /\ caller[t] = "ok"
        /\ t \notin Entries(queue) /\ (disp = "assign" => t # hand[2])
        /\ \A v \in Workers : wtask[v] = t => v = w
    BY <1>t, <2>1 DEF TypeOK, Places, Ownership, OwnWorkers, Live
  <2>4. t \notin Entries(AbsWaiting)
    <3>1. CASE disp = "assign"
      <4>1. queue \in Seq(Tasks) /\ hand[2] \in Tasks /\ AbsWaiting = <<hand[2]>> \o queue
        BY <1>t, <3>1, WaitingFacts DEF TypeOK, Places
      <4>2. Entries(AbsWaiting) = Entries(queue) \cup {hand[2]}
        BY <4>1, QueueSplits
      <4> QED BY <2>3, <3>1, <4>2
    <3>2. CASE disp = "respond" /\ reply = "ok"
      BY <1>t, <2>3, <3>2, WaitingFacts, FrontFacts DEF TypeOK, Places
    <3>3. CASE disp # "assign" /\ ~(disp = "respond" /\ reply = "ok")
      BY <2>3, <3>3, WaitingFacts
    <3> QED BY <3>1, <3>2, <3>3
  <2>5. t \in AtWorkers /\ t \notin AtWorkers'
    BY <1>t, <2>1, <2>3 DEF TypeOK, AtWorkers
  <2>6. \A u \in Tasks \ {t} : u \in AtWorkers' <=> u \in AtWorkers
    BY <1>t, <2>1, ExecutorAssumption DEF TypeOK, AtWorkers
  <2> HIDE DEF t
  <2>7. AbsJob[t] = "started"
    BY <2>3, <2>4, <2>5, JobFacts DEF StatusOf
  <2>8. StatusOf(t, caller'[t], Entries(AbsWaiting'), AtWorkers') = "settled"
    BY <2>1, <2>2, <2>3, <2>4, <2>5 DEF StatusOf
  <2>9. AbsJob' = [AbsJob EXCEPT ![t] = "settled"]
    BY <2>1, <2>2, <2>3, <2>6, <2>8, SeenOnly
  <2> QED BY <2>1, <2>2, <2>3, <2>7, <2>9 DEF Abs!QNext, Abs!Finish
<1>3. CASE FullWorkerReady(w)
  <2>1. /\ disp = "room" /\ disp' = "assign" /\ queue \in Seq(Tasks) /\ queue # <<>>
        /\ hand' = <<w, Head(queue)>> /\ queue' = Tail(queue)
        /\ UNCHANGED <<ctxDone, caller, wtask>>
    BY <1>t, <1>3, FullFacts DEF FullWorkerReady, TakeOldest, TypeOK
  <2>2. AbsWaiting' = AbsWaiting
    BY <2>1, WaitingFacts, QueueSplits, TailFacts
  <2> QED BY <2>1, <2>2, Stutters
<1> QED BY <1>1, <1>2, <1>3 DEF WorkerStep, DispatcherMeetsWorker

\* While a worker holds no task, the other workers' tasks leave a slot free.
LEMMA SlotIsFree ==
  ASSUME TypeOK, NEW w \in Workers, wtask[w] = None
  PROVE  Cardinality(Abs!StartedJobs) < Cardinality(Workers)
<1> DEFINE S == Abs!StartedJobs
           T == Workers \ {w}
           f == [t \in S |-> CHOOSE v \in T : wtask[v] = t]
<1>1. \A t \in S : t \in AtWorkers
  BY JobFacts DEF Abs!StartedJobs, StatusOf
<1>2. \A t \in S : \E v \in T : wtask[v] = t
  BY <1>1 DEF AtWorkers
<1>3. \A t \in S : f[t] \in T /\ wtask[f[t]] = t
  BY <1>2
<1>4. f \in [S -> T] /\ \A a, b \in S : f[a] = f[b] => a = b
  BY <1>3
<1> HIDE DEF f
<1>5. f \in Injection(S, T)
  BY <1>4 DEF Injection, IsInjective
<1>6. IsFiniteSet(T) /\ Cardinality(T) = Cardinality(Workers) - 1
  BY ExecutorAssumption, FS_RemoveElement
<1>7. Cardinality(S) <= Cardinality(T)
  BY <1>5, <1>6, FS_Injection
<1>8. IsFiniteSet(S) /\ Cardinality(S) \in Nat /\ Cardinality(Workers) \in Nat
  BY <1>5, <1>6, ExecutorAssumption, FS_Injection, FS_CardinalityType
<1> QED BY <1>6, <1>7, <1>8

\* The share that was checked before the wait for room is free when the caller
\* is told that its job is admitted.
LEMMA ShareIsFree ==
  ASSUME ExecutorInv, disp = "respond", reply = "ok", cur \in Tasks
  PROVE  /\ Len(AbsWaiting) < QueueCapacity
         /\ Cardinality(Abs!QueuedOf(TenantOf[cur])) < TenantShare
<1> DEFINE tn == TenantOf[cur]
           W == Entries(WithoutLast(queue))
<1>1. /\ AbsWaiting = WithoutLast(queue) /\ queue \in Seq(Tasks) /\ queue # <<>>
      /\ cur = queue[Len(queue)] /\ tn \in Tenants
  BY WaitingFacts, ExecutorAssumption DEF ExecutorInv, TypeOK, Places
<1>2. /\ Len(AbsWaiting) = Len(queue) - 1 /\ Len(queue) \in Nat
      /\ Entries(queue) = W \cup {cur} /\ cur \notin W
      /\ WithoutLast(queue) \in Seq(Tasks)
  BY <1>1, FrontFacts DEF ExecutorInv, Ownership, OwnQueue
<1>3. W \in SUBSET Tasks
  BY <1>2, EntriesType
<1>4. Len(queue) <= QueueCapacity /\ depth[tn] <= TenantShare
      /\ depth[tn] = Cardinality(OfTenant(Entries(queue), tn))
  BY <1>1 DEF ExecutorInv, Counting, Bounded, DepthRight
<1>5. /\ Cardinality(OfTenant(W, tn)) \in Nat
      /\ Cardinality(OfTenant(Entries(queue), tn)) = Cardinality(OfTenant(W, tn)) + 1
  BY <1>2, <1>3, CountAdd
<1>6. Abs!QueuedOf(tn) \in SUBSET OfTenant(W, tn)
  BY <1>1, JobFacts DEF Abs!QueuedOf, OfTenant, StatusOf
<1>7. IsFiniteSet(OfTenant(W, tn))
  <2>1. OfTenant(W, tn) \in SUBSET Tasks
    BY <1>3 DEF OfTenant
  <2> QED BY <2>1, ExecutorAssumption, FS_Subset
<1>8. /\ Cardinality(Abs!QueuedOf(tn)) <= Cardinality(OfTenant(W, tn))
      /\ Cardinality(Abs!QueuedOf(tn)) \in Nat
  BY <1>6, <1>7, FS_Subset, FS_CardinalityType
<1> QED BY <1>2, <1>4, <1>5, <1>8, BoundFacts

\* The dispatcher's own steps: an answer admits or refuses, a hand-over starts
\* the oldest job or, after the context ended, drops it, and rejecting what is
\* pending drops the rest.  Its other steps are not seen.
LEMMA RefineDispatcher ==
  ASSUME ExecutorInv, DispatcherStep
  PROVE  Abs!QNext \/ UNCHANGED Abs!qvars
<1> USE DEF callerVars, workerVars
<1>t. /\ TypeOK /\ Places /\ Ownership /\ Stopping
      /\ queue \in Seq(Tasks) /\ Entries(queue) \subseteq Tasks
  BY EntriesType DEF ExecutorInv, TypeOK
<1>1. CASE MatchIdle
  <2>1. /\ disp = "loop" /\ disp' = "assign" /\ queue # <<>>
        /\ hand'[2] = Head(queue) /\ queue' = Tail(queue)
        /\ UNCHANGED <<ctxDone, caller, wtask>>
    BY <1>1 DEF MatchIdle, TakeOldest
  <2>2. AbsWaiting' = AbsWaiting
    BY <1>t, <2>1, WaitingFacts, QueueSplits, TailFacts
  <2> QED BY <2>1, <2>2, Stutters
<1>2. CASE SelectCtxDone \/ Received \/ RoomGivesUp \/ DrainEnds
  <2>1. /\ disp \in {"loop", "received", "room", "drain"}
        /\ disp' \in {"stop", "respond", "room", "done"}
        /\ disp' = "respond" => reply' = "failed"
        /\ UNCHANGED <<ctxDone, caller, queue, wtask>>
    BY <1>2 DEF SelectCtxDone, Selecting, Received, RoomGivesUp, DrainEnds, Answer
  <2>2. AbsWaiting' = AbsWaiting
    BY <2>1, WaitingFacts
  <2> QED BY <2>1, <2>2, Stutters
<1>3. CASE AdmitToQueue
  <2>1. /\ disp = "room" /\ cur \in Tasks /\ queue' = Append(queue, cur)
        /\ disp' = "respond" /\ reply' = "ok"
        /\ UNCHANGED <<ctxDone, caller, wtask>>
    BY <1>t, <1>3 DEF AdmitToQueue, Answer, Places
  <2>2. AbsWaiting' = AbsWaiting
    BY <1>t, <2>1, WaitingFacts, QueueSplits
  <2> QED BY <2>1, <2>2, Stutters
<1>4. CASE RespondDelivered
  <2>1. /\ disp = "respond" /\ cur \in Tasks /\ caller[cur] = "waiting"
        /\ caller' = [caller EXCEPT ![cur] = reply] /\ disp' = after
        /\ UNCHANGED <<ctxDone, queue, wtask>> /\ after \in {"loop", "stop", "drain"}
    BY <1>t, <1>4 DEF RespondDelivered, Places, TypeOK
  <2>2. AbsWaiting' = queue /\ AtWorkers' = AtWorkers
    BY <2>1, WaitingFacts DEF AtWorkers
  <2>3. caller'[cur] = reply /\ \A u \in Tasks \ {cur} : caller'[u] = caller[u]
    BY <1>t, <2>1 DEF TypeOK
  <2>4. AbsJob[cur] = "submitted"
    BY <2>1, JobFacts DEF StatusOf
  <2>5. CASE reply = "ok"
    <3>1. queue # <<>> /\ cur = queue[Len(queue)] /\ AbsWaiting = WithoutLast(queue)
      BY <1>t, <2>1, <2>5, WaitingFacts DEF Places
    <3>2. AbsWaiting' = Append(AbsWaiting, cur)
      BY <1>t, <2>1, <2>2, <3>1, QueueSplits
    <3>3. Entries(AbsWaiting') = Entries(AbsWaiting) \cup {cur}
      BY <1>t, <2>2, <3>1, FrontFacts
    <3>4. StatusOf(cur, caller'[cur], Entries(AbsWaiting'), AtWorkers') = "queued"
      BY <2>3, <2>5, <3>3 DEF StatusOf
    <3>5. AbsJob' = [AbsJob EXCEPT ![cur] = "queued"]
      BY <2>1, <2>2, <2>3, <3>3, <3>4, SeenOnly
    <3>6. /\ Len(AbsWaiting) < QueueCapacity
          /\ Cardinality(Abs!QueuedOf(TenantOf[cur])) < TenantShare
      BY <2>1, <2>5, ShareIsFree
    <3>7. Abs!Admit(cur)
      BY <2>1, <2>4, <3>2, <3>5, <3>6 DEF Abs!Admit, Abs!QueuedOf, Cardinality, Abs!Cardinality
    <3> QED BY <2>1, <3>7 DEF Abs!QNext
  <2>6. CASE reply = "failed"
    <3>1. AbsWaiting' = AbsWaiting
      BY <2>1, <2>2, <2>6, WaitingFacts
    <3>2. StatusOf(cur, caller'[cur], Entries(AbsWaiting'), AtWorkers') = "refused"
      BY <2>3, <2>6 DEF StatusOf
    <3>3. AbsJob' = [AbsJob EXCEPT ![cur] = "refused"]
      BY <2>1, <2>2, <2>3, <3>1, <3>2, SeenOnly
    <3> QED BY <2>1, <2>4, <3>1, <3>3 DEF Abs!QNext, Abs!Refuse
  <2> QED BY <1>t, <2>5, <2>6 DEF TypeOK
<1>5. CASE RespondExpired
  <2>1. /\ disp = "respond" /\ disp' = after /\ after \in {"loop", "stop", "drain"}
        /\ UNCHANGED <<ctxDone, caller, wtask>>
        /\ IF reply = "ok" THEN queue' = WithoutLast(queue) ELSE queue' = queue
    BY <1>t, <1>5 DEF RespondExpired, TypeOK, WithoutLast
  <2>2. AbsWaiting' = AbsWaiting
    BY <2>1, WaitingFacts
  <2> QED BY <2>1, <2>2, Stutters
<1>6. CASE AssignHandOver
  <2> DEFINE w == hand[1]
             t == hand[2]
  <2>1. /\ disp = "assign" /\ w \in Workers /\ t \in Tasks /\ worker[w] = "idle"
        /\ wtask' = [wtask EXCEPT ![w] = t] /\ disp' \in {"loop", "room"}
        /\ UNCHANGED <<ctxDone, caller, queue>>
    BY <1>t, <1>6 DEF AssignHandOver, Places
  <2>2. AbsWaiting = <<t>> \o queue /\ AbsWaiting' = queue
    BY <2>1, WaitingFacts
  <2>3. wtask[w] = None /\ caller[t] = "ok" /\ t \notin Entries(queue)
    BY <1>t, <2>1 DEF Places, Ownership, OwnHand, Live, TypeOK
  <2>4. t \in AtWorkers' /\ \A u \in Tasks \ {t} : u \in AtWorkers' <=> u \in AtWorkers
    BY <1>t, <2>1, <2>3, ExecutorAssumption DEF TypeOK, AtWorkers
  <2> HIDE DEF t, w
  <2>5. /\ AbsWaiting # <<>> /\ Head(AbsWaiting) = t /\ AbsWaiting' = Tail(AbsWaiting)
        /\ Entries(AbsWaiting) = Entries(AbsWaiting') \cup {t}
    BY <1>t, <2>1, <2>2, QueueSplits
  <2>6. StatusOf(t, caller'[t], Entries(AbsWaiting'), AtWorkers') = "started"
    BY <2>1, <2>2, <2>3, <2>4 DEF StatusOf
  <2>7. AbsJob' = [AbsJob EXCEPT ![t] = "started"]
    BY <2>1, <2>4, <2>5, <2>6, SeenOnly
  <2>8. Cardinality(Abs!StartedJobs) < Cardinality(Workers)
    BY <1>t, <2>1, <2>3, SlotIsFree
  <2>9. Abs!Start
    BY <2>1, <2>5, <2>7, <2>8 DEF Abs!Start, Abs!StartedJobs, Cardinality, Abs!Cardinality
  <2> QED BY <2>9 DEF Abs!QNext
<1>7. CASE AssignFails
  <2> DEFINE t == hand[2]
  <2>1. /\ disp = "assign" /\ hand[1] \in Workers /\ t \in Tasks
        /\ disp' \in {"stop", "respond"} /\ (disp' = "respond" => reply' = "failed")
        /\ UNCHANGED <<ctxDone, caller, queue, wtask>>
        /\ ctxDone \/ worker[hand[1]] = "exited"
    BY <1>t, <1>7 DEF AssignFails, Answer, Places
  <2>2. ctxDone
    BY <1>t, <2>1 DEF Stopping
  <2>3. AbsWaiting = <<t>> \o queue /\ AbsWaiting' = queue
    BY <2>1, WaitingFacts
  <2>4. /\ caller[t] = "ok" /\ t \notin Entries(queue) /\ AtWorkers' = AtWorkers
        /\ t \notin AtWorkers
    BY <1>t, <2>1 DEF Ownership, OwnHand, OwnWorkers, Live, AtWorkers
  <2> HIDE DEF t
  <2>5. /\ AbsWaiting # <<>> /\ Head(AbsWaiting) = t /\ AbsWaiting' = Tail(AbsWaiting)
        /\ Entries(AbsWaiting) = Entries(AbsWaiting') \cup {t}
    BY <1>t, <2>1, <2>3, QueueSplits
  <2>6. StatusOf(t, caller'[t], Entries(AbsWaiting'), AtWorkers') = "settled"
    BY <2>1, <2>3, <2>4 DEF StatusOf
  <2>7. AbsJob' = [AbsJob EXCEPT ![t] = "settled"]
    BY <2>1, <2>4, <2>5, <2>6, SeenOnly
  <2> QED BY <2>1, <2>2, <2>5, <2>7 DEF Abs!QNext, Abs!DropHead
<1>8. CASE RejectPending
  <2>1. /\ disp = "stop" /\ disp' = "drain" /\ queue' = <<>>
        /\ UNCHANGED <<ctxDone, caller, wtask>>
    BY <1>8 DEF RejectPending
  <2>2. ctxDone
    BY <1>t, <2>1 DEF Stopping
  <2>3. AbsWaiting = queue /\ AbsWaiting' = <<>> /\ AtWorkers' = AtWorkers
    BY <2>1, WaitingFacts DEF AtWorkers
  <2>4. Entries(AbsWaiting') = {}
    BY <2>3 DEF Entries
  <2>5. Entries(queue) \cap AtWorkers = {}
    BY <1>t, HoldersFacts DEF Ownership, OwnWorkers
  <2>6. ASSUME NEW t \in Tasks
        PROVE  StatusOf(t, caller'[t], Entries(AbsWaiting'), AtWorkers')
                 = IF AbsJob[t] = "queued" THEN "settled" ELSE AbsJob[t]
    BY <2>1, <2>3, <2>4, <2>5, JobFacts DEF StatusOf
  <2>7. AbsJob' = [t \in Tasks |-> IF AbsJob[t] = "queued" THEN "settled" ELSE AbsJob[t]]
    BY <2>6, JobFacts
  <2> QED BY <2>1, <2>2, <2>3, <2>7 DEF Abs!QNext, Abs!DropAll
<1> QED BY <1>1, <1>2, <1>3, <1>4, <1>5, <1>6, <1>7, <1>8 DEF DispatcherStep

\* For every finite set of jobs and of workers and every set of tenants, the
\* goroutines of workspace_executor.go implement the abstract queue: each step
\* is a step of JobQueue or is not seen in it.
THEOREM ExecutorImplementsJobQueue == Spec => ImplementsJobQueue
<1>1. Init => Abs!QInit
  <2> SUFFICES ASSUME Init PROVE Abs!QInit
    OBVIOUS
  <2>1. AbsWaiting = <<>> /\ ctxDone = FALSE
    BY WaitingFacts DEF Init
  <2>2. \A t \in Tasks : caller[t] = "idle"
    BY DEF Init
  <2>3. AbsJob = [t \in Tasks |-> "new"]
    BY <2>2, JobFacts DEF StatusOf
  <2> QED BY <2>1, <2>3 DEF Abs!QInit
<1>2. ExecutorInv /\ [Next]_vars => [Abs!QNext]_(Abs!qvars)
  <2> SUFFICES ASSUME ExecutorInv, [Next]_vars
               PROVE  Abs!QNext \/ UNCHANGED Abs!qvars
    OBVIOUS
  <2>1. CASE UNCHANGED vars
    <3>1. UNCHANGED <<ctxDone, caller, disp, queue, hand, reply, wtask>>
      BY <2>1 DEF vars, callerVars, dispVars, workerVars
    <3>2. AbsWaiting' = AbsWaiting
      BY <3>1 DEF AbsWaiting, Unanswered
    <3> QED BY <3>1, <3>2, Stutters
  <2> QED BY <2>1, RefineCaller, RefineWorker, RefineDispatcher DEF Next
<1> QED BY <1>1, <1>2, ExecutorInvHolds, PTL DEF Spec, ImplementsJobQueue, Abs!QSpec
=============================================================================
