--------------------------- MODULE DiscoveryCalls ---------------------------
(***************************************************************************)
(* Discovery of a workspace's sources (executeWorkspaceDiscoveryJob in       *)
(* internal/api/workspaces.go) through the discovery engine                 *)
(* (internal/discovery/engine.go) and the connector circuit breaker         *)
(* (internal/api/circuit_breaker.go): jobs that run at the same time, one   *)
(* goroutine per source in each, and one circuit per endpoint that all of    *)
(* them share.                                                              *)
(*                                                                         *)
(* Time is kept as what is left of an open circuit and as the age of a      *)
(* failure, so that behaviours are unbounded in a finite state space.       *)
(***************************************************************************)
EXTENDS Naturals, Sequences, FiniteSets

CONSTANTS Jobs,          \* discovery jobs of the job executor
          Sources,       \* source connections
          SourceOrder,   \* job -> the sources of its workspace, in their order
          Endpoints,
          EndpointOf,    \* source -> endpoint (two sources may share one)
          FailureThreshold, FailureWindow, OpenDuration

ASSUME DiscoveryAssumption ==
    /\ EndpointOf \in [Sources -> Endpoints]
    /\ SourceOrder \in [Jobs -> Seq(Sources)]
    /\ FailureThreshold \in Nat \ {0} /\ FailureWindow \in Nat \ {0}
    /\ OpenDuration \in Nat \ {0}

VARIABLES
    circuit,   \* endpoint -> state, its failures and their ages, time it stays open
    up,        \* the endpoints are repaired and answer from now on
    job,       \* job -> step, next source to build
    call,      \* job, source -> step of the goroutine, probe mode
    results,   \* job -> sources with a discovery result (e.results)
    errs,      \* job -> an error was recorded (errs)
    saved,     \* job -> sources whose snapshot it saved
    outcome    \* job -> how it ended the last time

dvars == <<circuit, up, job, call, results, errs, saved, outcome>>
jobvars == <<job, results, errs, saved, outcome>>

SourcesOf(j) == {SourceOrder[j][i] : i \in DOMAIN SourceOrder[j]}
NoCall == [step |-> "none", probe |-> FALSE]
StepOf(j, s) == call[j][s].step
SetStep(j, s, step) == call' = [call EXCEPT ![j][s].step = step]

-----------------------------------------------------------------------------
(* The circuit of an endpoint.                                              *)

\* Mutant: an open circuit never becomes half-open.
allowNever(e) ==
    IF circuit[e].state = "open"
    THEN [refused |-> TRUE, probe |-> FALSE, circuit |-> circuit[e]]
    ELSE [refused |-> FALSE, probe |-> circuit[e].state = "half-open", circuit |-> circuit[e]]

\* allow: an open circuit refuses until its time is over and is half-open from
\* then on; a half-open circuit lets every caller probe.
allow(e) ==
    LET c == circuit[e] IN
    CASE c.state = "open" /\ c.left > 0 ->
           [refused |-> TRUE, probe |-> FALSE, circuit |-> c]
      [] c.state = "open" /\ c.left = 0 ->
           [refused |-> FALSE, probe |-> TRUE, circuit |-> [c EXCEPT !.state = "half-open"]]
      [] OTHER ->
           [refused |-> FALSE, probe |-> c.state = "half-open", circuit |-> c]

\* recordSuccess: the failures are forgotten; whatever the state was (also for
\* a call that was admitted before the circuit opened), the circuit is closed.
recordSuccess(e) ==
    circuit' = [circuit EXCEPT ![e] = [state |-> "closed", failures |-> {}, left |-> @.left]]

\* Failures are told apart by their age and, of those of one moment, by a number.
Failure(e) == [age |-> 0, nth |-> Cardinality({f \in circuit[e].failures : f.age = 0})]

\* recordFailure: a failed probe, or the failure that reaches the threshold, opens
\* the circuit for its full time.
recordFailure(e) ==
    LET failures == circuit[e].failures \cup {Failure(e)} IN
    circuit' = [circuit EXCEPT ![e] =
        IF @.state = "half-open" \/ Cardinality(failures) >= FailureThreshold
        THEN [state |-> "open", failures |-> failures, left |-> OpenDuration]
        ELSE [@ EXCEPT !.failures = failures]]

\* Time passes.  pruneFailures drops a failure that is as old as the window
\* before anything reads the list.
Aged(f) == [f EXCEPT !.age = @ + 1]
pruneFailures(failures) == {Aged(f) : f \in {f \in failures : f.age + 1 < FailureWindow}}

Tick ==
    /\ circuit' = [e \in Endpoints |->
          [circuit[e] EXCEPT !.failures = pruneFailures(@),
                             !.left = IF @ > 0 THEN @ - 1 ELSE 0]]
    /\ UNCHANGED <<up, jobvars, call>>

\* External: the platforms behind the endpoints recover.
Repair == up' = TRUE /\ UNCHANGED <<circuit, jobvars, call>>

-----------------------------------------------------------------------------
(* executeWorkspaceDiscoveryJob, up to the run.                             *)

\* The job reads the document and builds a connector per source, in order.
BeginJob(j) ==
    /\ job[j].step = "idle"
    /\ job' = [job EXCEPT ![j] = [step |-> "build", next |-> 1]]
    /\ call' = [call EXCEPT ![j] = [s \in SourcesOf(j) |-> NoCall]]
    /\ results' = [results EXCEPT ![j] = {}] /\ errs' = [errs EXCEPT ![j] = FALSE]
    /\ saved' = [saved EXCEPT ![j] = {}] /\ outcome' = [outcome EXCEPT ![j] = "none"]
    /\ UNCHANGED <<circuit, up>>

EndJob(j, result) ==
    /\ job' = [job EXCEPT ![j].step = "idle"]
    /\ outcome' = [outcome EXCEPT ![j] = result]

\* buildConnector: CheckAvailability asks the circuit; one refused source ends
\* the job before any source is discovered.
buildConnector(j) ==
    /\ job[j].step = "build" /\ job[j].next <= Len(SourceOrder[j])
    /\ LET e == EndpointOf[SourceOrder[j][job[j].next]]
           a == allow(e)
       IN  /\ circuit' = [circuit EXCEPT ![e] = a.circuit]
           /\ IF a.refused
              THEN EndJob(j, "failed")
              ELSE job' = [job EXCEPT ![j].next = @ + 1] /\ UNCHANGED outcome
    /\ UNCHANGED <<up, call, results, errs, saved>>

\* RunAll starts a goroutine per source.
RunAll(j) ==
    /\ job[j].step = "build" /\ job[j].next > Len(SourceOrder[j])
    /\ job' = [job EXCEPT ![j].step = "run"]
    /\ call' = [call EXCEPT ![j] = [s \in SourcesOf(j) |-> [step |-> "connect", probe |-> FALSE]]]
    /\ UNCHANGED <<circuit, up, results, errs, saved, outcome>>

-----------------------------------------------------------------------------
(* One goroutine of RunAll, over a circuitBreakerConnector.                 *)

Error(j) == errs' = [errs EXCEPT ![j] = TRUE]
Rest == UNCHANGED <<up, job, saved, outcome>>

\* Mutant: a refused call is not reported as an error.
AskSilently(j, s, step, admitted, refused) ==
    /\ job[j].step = "run" /\ StepOf(j, s) = step
    /\ LET a == allow(EndpointOf[s]) IN
       /\ circuit' = [circuit EXCEPT ![EndpointOf[s]] = a.circuit]
       /\ call' = [call EXCEPT ![j][s] = [step |-> IF a.refused THEN refused ELSE admitted,
                                          probe |-> @.probe \/ a.probe]]
    /\ UNCHANGED <<results, errs>> /\ Rest

\* Connect and Discover ask the circuit; an admitted probe stays a probe.
Ask(j, s, step, admitted, refused) ==
    /\ job[j].step = "run" /\ StepOf(j, s) = step
    /\ LET a == allow(EndpointOf[s]) IN
       /\ circuit' = [circuit EXCEPT ![EndpointOf[s]] = a.circuit]
       /\ IF a.refused
          THEN SetStep(j, s, refused) /\ Error(j)
          ELSE /\ call' = [call EXCEPT ![j][s] = [step |-> admitted, probe |-> @.probe \/ a.probe]]
               /\ UNCHANGED errs
    /\ UNCHANGED results /\ Rest

AskConnect(j, s) == Ask(j, s, "connect", "connecting", "done")
AskDiscover(j, s) == Ask(j, s, "discover", "discovering", "close")

\* Mutant: a goroutine whose connection fails does not report back.
ConnectFailsHeld(j, s) ==
    /\ StepOf(j, s) = "connecting" /\ ~up
    /\ recordFailure(EndpointOf[s])
    /\ SetStep(j, s, "held") /\ Error(j)
    /\ UNCHANGED results /\ Rest

\* A call that fails counts against the endpoint; without a connection there is
\* nothing to close.
ConnectFails(j, s) ==
    /\ StepOf(j, s) = "connecting" /\ ~up
    /\ recordFailure(EndpointOf[s])
    /\ SetStep(j, s, "done") /\ Error(j)
    /\ UNCHANGED results /\ Rest

\* A connection that is not a probe already counts as a success.
Connected(j, s) ==
    /\ StepOf(j, s) = "connecting"
    /\ IF call[j][s].probe THEN UNCHANGED circuit ELSE recordSuccess(EndpointOf[s])
    /\ SetStep(j, s, "discover")
    /\ UNCHANGED <<results, errs>> /\ Rest

DiscoverFails(j, s) ==
    /\ StepOf(j, s) = "discovering" /\ ~up
    /\ recordFailure(EndpointOf[s])
    /\ SetStep(j, s, "close") /\ Error(j)
    /\ UNCHANGED results /\ Rest

Discovered(j, s) ==
    /\ StepOf(j, s) = "discovering"
    /\ recordSuccess(EndpointOf[s])
    /\ call' = [call EXCEPT ![j][s] = [step |-> "close", probe |-> FALSE]]
    /\ results' = [results EXCEPT ![j] = @ \cup {s}]
    /\ UNCHANGED errs /\ Rest

\* Close is not counted by the circuit; its error makes the run fail.
CloseSource(j, s) ==
    /\ StepOf(j, s) = "close"
    /\ SetStep(j, s, "done")
    /\ UNCHANGED errs \/ Error(j)
    /\ UNCHANGED <<circuit, results>> /\ Rest

SourceStep(j, s) ==
    \/ AskConnect(j, s) \/ ConnectFails(j, s) \/ Connected(j, s)
    \/ AskDiscover(j, s) \/ DiscoverFails(j, s) \/ Discovered(j, s)
    \/ CloseSource(j, s)

-----------------------------------------------------------------------------
(* wg.Wait, buildMergedResult and the rest of the job.                      *)

Wait(j) ==
    /\ job[j].step = "run"
    /\ \A s \in SourcesOf(j) : StepOf(j, s) = "done"
    /\ job' = [job EXCEPT ![j].step = "save"]
    /\ call' = [call EXCEPT ![j] = [s \in SourcesOf(j) |-> NoCall]]
    /\ UNCHANGED <<circuit, up, results, errs, saved, outcome>>

\* The first result in the order of RunAll that is not saved yet.
NextToSave(j) ==
    {SourceOrder[j][i] : i \in {i \in DOMAIN SourceOrder[j] :
        /\ SourceOrder[j][i] \in results[j] \ saved[j]
        /\ \A k \in 1 .. i - 1 : SourceOrder[j][k] \notin results[j] \ saved[j]}}

\* SaveDiscovery for every result, in the order of their names; an error ends
\* the job and keeps the snapshots that were saved.
SaveResult(j) ==
    /\ job[j].step = "save" /\ results[j] \ saved[j] # {}
    /\ \/ /\ \E s \in NextToSave(j) : saved' = [saved EXCEPT ![j] = @ \cup {s}]
          /\ UNCHANGED <<job, outcome>>
       \/ EndJob(j, "failed") /\ UNCHANGED saved
    /\ UNCHANGED <<circuit, up, call, results, errs>>

\* UpdateWorkspace with the snapshots; the errors of the run then fail the job.
UpdateDocument(j) ==
    /\ job[j].step = "save" /\ results[j] \subseteq saved[j]
    /\ \E ok \in BOOLEAN : EndJob(j, IF ok /\ ~errs[j] THEN "succeeded" ELSE "failed")
    /\ UNCHANGED <<circuit, up, call, results, errs, saved>>

JobStep(j) ==
    \/ buildConnector(j) \/ RunAll(j) \/ Wait(j) \/ SaveResult(j) \/ UpdateDocument(j)
    \/ \E s \in SourcesOf(j) : SourceStep(j, s)

DInit ==
    /\ circuit = [e \in Endpoints |-> [state |-> "closed", failures |-> {}, left |-> 0]]
    /\ up = FALSE
    /\ job = [j \in Jobs |-> [step |-> "idle", next |-> 1]]
    /\ call = [j \in Jobs |-> [s \in SourcesOf(j) |-> NoCall]]
    /\ results = [j \in Jobs |-> {}] /\ errs = [j \in Jobs |-> FALSE]
    /\ saved = [j \in Jobs |-> {}] /\ outcome = [j \in Jobs |-> "none"]

DNext ==
    \/ \E j \in Jobs : BeginJob(j) \/ JobStep(j)
    \/ Tick \/ Repair

\* Goroutines run and calls return (connectors have timeouts), time passes, and
\* operators start discoveries again and again.
DFairness ==
    /\ \A j \in Jobs : /\ WF_dvars(BeginJob(j))
                       /\ WF_dvars(JobStep(j))
                       /\ \A s \in SourcesOf(j) : WF_dvars(SourceStep(j, s))
    /\ WF_dvars(Tick)

DSpec == DInit /\ [][DNext]_dvars /\ DFairness

-----------------------------------------------------------------------------
(* Properties.                                                              *)

CircuitStates == {"closed", "open", "half-open"}
\* Circuits have one of their three states, only failures of the window are kept,
\* RunAll leaves no goroutine behind when it returns, and what a job saves is what
\* its engine found.
DTypeOK ==
    /\ \A e \in Endpoints : /\ circuit[e].state \in CircuitStates
                            /\ circuit[e].failures \subseteq [age : 0 .. FailureWindow - 1, nth : Nat]
                            /\ circuit[e].left \in 0 .. OpenDuration
    /\ \A j \in Jobs : /\ job[j].step \in {"idle", "build", "run", "save"}
                       /\ saved[j] \subseteq results[j]
                       /\ job[j].step # "run" => call[j] = [s \in SourcesOf(j) |-> NoCall]

\* A closed circuit has fewer failures in its window than the threshold,
\* whichever calls of several jobs fail and succeed in which order: recordFailure
\* opens it in the same critical section, and leaving the open state clears them.
ClosedIsBelowThreshold ==
    \A e \in Endpoints :
       circuit[e].state = "closed" => Cardinality(circuit[e].failures) < FailureThreshold

\* A discovery job that reports success has saved a snapshot of every source of
\* the workspace: no error of a goroutine gets lost and nothing is merged before
\* all of them are done.
SucceededSavedAll ==
    \A j \in Jobs : outcome[j] = "succeeded" => saved[j] = SourcesOf(j)

\* Goroutines, circuits and jobs agree: a discovery that succeeded has saved every
\* source, RunAll returns only when all its goroutines have, and a circuit that is
\* closed has not seen too many failures, in whatever order calls of several jobs
\* answer.
DiscoveryIsComplete ==
  /\ DTypeOK
  /\ ClosedIsBelowThreshold
  /\ SucceededSavedAll

\* Once the endpoints answer again, every circuit closes and stays closed,
\* although jobs that started earlier still report failures.
CircuitsRecover == up ~> [](\A e \in Endpoints : circuit[e].state = "closed")

\* RunAll ends: no refusal or failure leaves a goroutine that wg.Wait waits for.
RunsEnd == \A j \in Jobs : (job[j].step = "run") ~> (job[j].step # "run")
=============================================================================
