----------------------------- MODULE Lifecycle -----------------------------
(***************************************************************************)
(* Guidance for a fleet (internal/lifecycle): what its VMs cost on each      *)
(* platform, which policies they violate, how they drifted from a baseline,  *)
(* which placements are recommended (Generate), and what a move would do     *)
(* (Simulate, deriveWorkspaceReadiness).  An operator asks, the fleet goes on *)
(* changing, and the operator follows the advice later.  Amounts are whole   *)
(* numbers; memory and storage add to the cost the way CPUs do.              *)
(***************************************************************************)
EXTENDS Integers, FiniteSets, Functions

CONSTANTS VMs,          \* positions in the inventory, in its order
          Fleets,       \* fleets to start with: position -> VM or Absent
          Changes,      \* VMs that a change may put into a position
          IdChoices,    \* position -> key, which two VMs may share
          Profiles,     \* platform -> cost profile
          PolicySets,   \* policies: name, severity, field, operator, value
          Requests,     \* simulation requests: target, ids, whether all, waivers
          CPUThreshold, MaxChanges, Absent, AnyVM

\* The VMs that the fleet may hold, on the platforms that it may run on.
Seen == (Changes \cup UNION {{f[v] : v \in VMs} : f \in Fleets}) \ {Absent}
VmRecords == [platform : {vm.platform : vm \in Seen} \cup DOMAIN Profiles,
              cpu : Nat, tags : {vm.tags : vm \in Seen}]

ASSUME LifecycleAssumption ==
    /\ VMs \subseteq Nat /\ IsFiniteSet(VMs) /\ CPUThreshold \in Nat /\ MaxChanges \in Nat
    /\ \A p \in DOMAIN Profiles : /\ Profiles[p].cpu \in Nat /\ Profiles[p].license \in Nat
                                  /\ Profiles[p].support \in Nat
    /\ Seen \subseteq VmRecords /\ Absent \notin VmRecords
    /\ \A vm \in Seen : IsFiniteSet(DOMAIN vm.tags) /\ vm.tags = [k \in DOMAIN vm.tags |-> vm.tags[k]]
    /\ \A f \in Fleets : f = [v \in VMs |-> f[v]]

VARIABLES
    policies,    \* the policies of the engine
    ids,         \* position -> id of the VM (also its key and its name)
    fleet,       \* the latest inventory
    baseline,    \* a saved snapshot, or Absent
    guidance,    \* the last report of handleRemediation, or Absent
    touched,     \* history: positions that changed since
    simulation,  \* the last result of handleSimulation, or Absent
    changes      \* number of changes so far

lvars == <<policies, ids, fleet, baseline, guidance, touched, simulation, changes>>

Present(f) == {v \in VMs : f[v] # Absent}
Tag(tags, k) == IF k \in DOMAIN tags THEN tags[k] ELSE ""

-----------------------------------------------------------------------------
(* Cost.                                                                    *)

estimatedSockets(n) == IF n <= 0 THEN 1 ELSE (n + 7) \div 8
calculateLicenseCost(vm, profile) ==
    CASE profile.model = "per-socket" -> estimatedSockets(vm.cpu) * profile.license
      [] profile.model = "per-core" -> vm.cpu * profile.license
      [] profile.model = "per-vm" -> profile.license
      [] OTHER -> 0

Priced == DOMAIN Profiles
CalculateVMCost(vm, p) ==
    vm.cpu * Profiles[p].cpu + calculateLicenseCost(vm, Profiles[p]) + Profiles[p].support

\* CompareVM: the cheapest platforms (a map is searched, so any of them is taken)
\* and what a move there saves; a VM on a platform without a profile saves nothing.
Cheapest(vm) == {p \in Priced : \A q \in Priced : CalculateVMCost(vm, p) <= CalculateVMCost(vm, q)}
MonthlySavings(vm) ==
    IF vm.platform \notin Priced \/ Priced = {} THEN 0
    ELSE CalculateVMCost(vm, vm.platform) - CalculateVMCost(vm, CHOOSE p \in Cheapest(vm) : TRUE)

monthlyFleetCost(f) == SumFunction([v \in Present(f) |-> CalculateVMCost(f[v], f[v].platform)])

-----------------------------------------------------------------------------
(* Policies.                                                                *)

valueForField(vm, field) ==
    CASE field = "platform" -> vm.platform
      [] field = "cost" -> CalculateVMCost(vm, vm.platform)
      [] OTHER -> Tag(vm.tags, field)

\* A list is a set, and a pattern is the set of the values that it matches.
compareValues(current, operator, expected) ==
    CASE operator = "equals" -> current = expected
      [] operator = "not-equals" -> current # expected
      [] operator \in {"in", "matches"} -> current \in expected
      [] operator = "not-in" -> current \notin expected
      [] operator = "less-than" -> current < expected
      [] operator = "greater-than" -> current > expected

Operators == {"equals", "not-equals", "in", "matches", "not-in", "less-than", "greater-than"}

\* evaluateRule fails for the cost on a platform without a profile, for an operator it
\* does not know and for an order of words (the cost is the only number), and with it
\* fails the evaluation of the whole fleet.
RuleFails(vm, policy) ==
    \/ policy.field = "cost" /\ vm.platform \notin Priced
    \/ policy.operator \notin Operators
    \/ policy.operator \in {"less-than", "greater-than"} /\ policy.field # "cost"
EvaluationFails(f) == \E v \in Present(f), policy \in policies : RuleFails(f[v], policy)

matchingWaiver(policy, v, waivers) ==
    \E w \in waivers : w.policy = policy.name /\ ~w.expired /\ w.vm \in {AnyVM, ids[v]}

violates(vm, policy) == ~compareValues(valueForField(vm, policy.field), policy.operator, policy.value)
\* EvaluateWithWaivers: the violations that no waiver covers.
EvaluateWithWaivers(f, waivers) ==
    {x \in Present(f) \X policies : violates(f[x[1]], x[2]) /\ ~matchingWaiver(x[2], x[1], waivers)}
\* NonCompliantVMs counts keys, CompliantVMs the VMs that are left.
NonCompliantVMs(violations) == Cardinality({ids[x[1]] : x \in violations})
CompliantVMs(f, violations) ==
    LET left == Cardinality(Present(f)) - NonCompliantVMs(violations)
    IN  IF left < 0 THEN 0 ELSE left

Enforced(violations) == {x \in violations : x[2].severity = "enforce"}

-----------------------------------------------------------------------------
(* Drift.                                                                   *)

\* indexVMs: of several VMs with one key, the last one.
indexVMs(f) == [k \in {ids[v] : v \in Present(f)} |->
                  f[CHOOSE v \in Present(f) : ids[v] = k /\ \A u \in Present(f) : ids[u] = k => u <= v]]

\* mapsEqual looks the keys of one map up in the other, where a missing key reads
\* as the empty value.
mapsEqual(left, right) ==
    /\ Cardinality(DOMAIN left) = Cardinality(DOMAIN right)
    /\ \A k \in DOMAIN left : Tag(right, k) = left[k]

absInt(n) == IF n < 0 THEN -n ELSE n
compareVMs(old, new) ==
    (IF absInt(old.cpu - new.cpu) > CPUThreshold THEN {"cpu_count"} ELSE {})
    \cup (IF mapsEqual(old.tags, new.tags) THEN {} ELSE {"tags"})

\* Compare: added, removed and modified VMs by key, and the violations of today,
\* whatever waivers there are.
Compare(old, new) ==
    LET was == indexVMs(old)
        is == indexVMs(new)
        event(type, k, severity) == [type |-> type, key |-> k, severity |-> severity]
    IN  {event("added", k, "info") : k \in DOMAIN is \ DOMAIN was}
        \cup {event("removed", k, "critical") : k \in DOMAIN was \ DOMAIN is}
        \cup {event(x[2], x[1], IF x[2] = "tags" THEN "info" ELSE "warning") : x \in
                {x \in (DOMAIN is \cap DOMAIN was) \X {"cpu_count", "tags"} :
                   x[2] \in compareVMs(was[x[1]], is[x[1]])}}
        \cup {event("policy", ids[x[1]], x[2].severity) : x \in EvaluateWithWaivers(new, {})}

-----------------------------------------------------------------------------
(* Recommendations and simulations.                                         *)

\* Mutant: the policies see the VM where it is now.
placementAllowedNow(vm, p, v, waivers) ==
    Enforced(EvaluateWithWaivers([u \in VMs |-> IF u = v THEN vm ELSE Absent], waivers)) = {}

\* placementAllowed: the VM alone, on the other platform.
placementAllowed(vm, p, v, waivers) ==
    LET moved == [u \in VMs |-> IF u = v THEN [vm EXCEPT !.platform = p] ELSE Absent]
    IN  Enforced(EvaluateWithWaivers(moved, waivers)) = {}

\* The placements of Generate, for a choice among equally cheap platforms.
Placements(f, waivers, pick) ==
    {[vm |-> v, to |-> pick[v], saves |-> MonthlySavings(f[v])] : v \in
       {u \in Present(f) : /\ pick[u] # f[u].platform /\ MonthlySavings(f[u]) > 0
                           /\ placementAllowed(f[u], pick[u], u, waivers)}}
Picks(f) == {pick \in [Present(f) -> Priced] : \A v \in Present(f) : pick[v] \in Cheapest(f[v])}

\* addRecommendation keeps one of several that look the same: type, id, target and
\* summary (which names the policy, or the kind of drift).
Recommendations(violations, placements, events) ==
    {<<"policy", ids[x[1]], x[2].name>> : x \in violations}
    \cup {<<"placement", ids[x.vm], x.to>> : x \in placements}
    \cup {<<"drift", x.key, IF x.type \in {"cpu_count", "tags"} THEN "modified" ELSE x.type>> :
            x \in {e \in events : e.severity # "info"}}

\* selectedVMKeys: every VM with one of the ids.
Selected(f, req) == {v \in Present(f) : req.all \/ ids[v] \in req.ids}
MovedFleet(f, req) ==
    [v \in VMs |-> IF v \in Selected(f, req) THEN [f[v] EXCEPT !.platform = req.target] ELSE f[v]]

\* Simulate needs a scope that matches, and a price for every VM before and after.
SimulationFails(f, req) ==
    \/ ~req.all /\ Selected(f, req) = {}
    \/ \E v \in Present(f) : f[v].platform \notin Priced \/ MovedFleet(f, req)[v].platform \notin Priced

\* Mutant: only what was moved is looked at.
ReadinessOfSelected(moved, violations, open) ==
    IF \E x \in violations : x[2].severity = "enforce" /\ x[1] \in moved THEN "blocked"
    ELSE IF open # {} THEN "attention" ELSE "ready"

\* deriveWorkspaceReadiness: what the simulated fleet, all of it, leaves open.
deriveWorkspaceReadiness(moved, violations, open) ==
    IF Enforced(violations) # {} \/ moved = {} THEN "blocked"
    ELSE IF open # {} \/ violations # {} THEN "attention" ELSE "ready"

-----------------------------------------------------------------------------
(* Actions.  The operator works with the last answer: a simulation is looked at *)
(* right away, guidance is kept while the fleet changes.                     *)

\* External: a VM changes, appears or disappears; a discovery records it.
ChangeVM(v) ==
    /\ changes < MaxChanges /\ changes' = changes + 1
    /\ \E vm \in Changes \cup {Absent} :
         vm # fleet[v] /\ fleet' = [fleet EXCEPT ![v] = vm]
    /\ touched' = touched \cup {v}
    /\ simulation' = Absent /\ UNCHANGED <<policies, ids, baseline, guidance>>

SaveBaseline ==
    /\ baseline' = fleet
    /\ simulation' = Absent /\ UNCHANGED <<policies, ids, fleet, guidance, touched, changes>>

\* handleRemediation: no waivers; with a baseline, drift too.  Any failing rule
\* fails the request.
handleRemediation ==
    /\ ~EvaluationFails(fleet)
    /\ LET violations == EvaluateWithWaivers(fleet, {})
           events == IF baseline = Absent THEN {} ELSE Compare(baseline, fleet)
       IN  \E pick \in Picks(fleet) :
             guidance' = [placements |-> Placements(fleet, {}, pick), events |-> events,
                          compared |-> baseline, violations |-> violations,
                          open |-> Recommendations(violations, Placements(fleet, {}, pick), events),
                          compliant |-> CompliantVMs(fleet, violations)]
    /\ touched' = {} /\ simulation' = Absent
    /\ UNCHANGED <<policies, ids, fleet, baseline, changes>>

\* handleSimulation.
handleSimulation ==
    \E req \in Requests :
      /\ ~SimulationFails(fleet, req) /\ ~EvaluationFails(MovedFleet(fleet, req))
      /\ LET after == MovedFleet(fleet, req)
             violations == EvaluateWithWaivers(after, req.waivers)
         IN  \E pick \in Picks(after) :
             LET open == Recommendations(violations, Placements(after, req.waivers, pick), {})
             IN  simulation' = [req |-> req, before |-> fleet, after |-> after,
                                delta |-> monthlyFleetCost(after) - monthlyFleetCost(fleet),
                                readiness |-> deriveWorkspaceReadiness(Selected(fleet, req), violations, open)]
      /\ guidance' = Absent /\ touched' = {}
      /\ UNCHANGED <<policies, ids, fleet, baseline, changes>>

\* External: the operator moves a VM as the guidance says.
FollowPlacement(x) ==
    /\ fleet[x.vm] # Absent
    /\ fleet' = [fleet EXCEPT ![x.vm].platform = x.to]
    /\ guidance' = Absent /\ touched' = {} /\ simulation' = Absent
    /\ UNCHANGED <<policies, ids, baseline, changes>>

LInit ==
    /\ policies \in PolicySets /\ ids \in IdChoices /\ fleet \in Fleets
    /\ baseline = Absent /\ guidance = Absent /\ touched = {} /\ simulation = Absent /\ changes = 0

LNext ==
    \/ \E v \in VMs : ChangeVM(v)
    \/ SaveBaseline \/ handleRemediation \/ handleSimulation
    \/ guidance # Absent /\ \E x \in guidance.placements : FollowPlacement(x)

LSpec == LInit /\ [][LNext]_lvars

-----------------------------------------------------------------------------
(* Properties.                                                              *)

Unique == \A u, v \in VMs : ids[u] = ids[v] => u = v

\* A move that the guidance advises, made while the VM is still the one that was
\* looked at, lowers the cost of the fleet by exactly the savings it names, and the
\* VM breaks no enforced policy afterwards, whatever else changed in the fleet.
PlacementSaves ==
    [][\A x \in IF guidance = Absent THEN {} ELSE guidance.placements :
         (x.vm \notin touched /\ guidance' = Absent /\ fleet' # fleet /\ fleet'[x.vm] # fleet[x.vm]) =>
           /\ x.saves > 0 /\ fleet[x.vm].platform \in Priced
           /\ CalculateVMCost(fleet[x.vm], fleet[x.vm].platform)
                - CalculateVMCost(fleet'[x.vm], fleet'[x.vm].platform) = x.saves
           /\ \A policy \in policies : policy.severity = "enforce" => ~violates(fleet'[x.vm], policy)]_lvars

\* A drift report without an event, of VMs with keys of their own, means that the
\* fleet has the VMs of the baseline, with as many CPUs up to the threshold and with
\* the same tags, if no tag of the baseline is empty.
DriftIsSeen ==
    guidance # Absent /\ guidance.compared # Absent /\ guidance.events = {} /\ Unique /\ touched = {} =>
      /\ Present(fleet) = Present(guidance.compared)
      /\ \A v \in Present(fleet) :
           LET old == guidance.compared[v] IN
           /\ fleet[v].cpu - old.cpu \in -CPUThreshold .. CPUThreshold
           /\ (\A k \in DOMAIN old.tags : old.tags[k] # "") => fleet[v].tags = old.tags

\* The report counts as compliant the VMs that violate nothing, if their keys differ;
\* VMs that share a key make it count too many, never too few.
CountsAgree ==
    guidance # Absent /\ touched = {} =>
      LET clean == {v \in Present(fleet) : \A x \in guidance.violations : x[1] # v}
      IN  /\ guidance.compliant >= Cardinality(clean)
          /\ Unique => guidance.compliant = Cardinality(clean)

\* A simulation moves the VMs with the ids of the request, leaves the others alone,
\* names the sum of what each VM costs more, and calls the fleet ready only if
\* nothing in it violates a policy; an enforced policy that is violated anywhere in
\* the fleet blocks, moved or not.
SimulationPredicts ==
    simulation # Absent =>
      LET s == simulation
          violations == EvaluateWithWaivers(s.after, s.req.waivers)
      IN  /\ \A v \in Present(s.before) :
               IF s.req.all \/ ids[v] \in s.req.ids
               THEN s.after[v] = [s.before[v] EXCEPT !.platform = s.req.target]
               ELSE s.after[v] = s.before[v]
          /\ s.delta = SumFunction([v \in Present(s.before) |->
                                      CalculateVMCost(s.after[v], s.after[v].platform)
                                        - CalculateVMCost(s.before[v], s.before[v].platform)])
          /\ s.readiness = "ready" => violations = {}
          /\ Enforced(violations) # {} => s.readiness = "blocked"

\* Reports describe the fleet they were made for: drift that is not reported is not
\* there, compliance counts agree with the violations, and a simulation moves what
\* was selected and calls nothing ready that violates a policy.
GuidanceIsSound ==
  /\ DriftIsSeen
  /\ CountsAgree
  /\ SimulationPredicts
=============================================================================
