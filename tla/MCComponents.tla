--------------------------- MODULE MCComponents ---------------------------
(***************************************************************************)
(* Instances for TLC of components that share no state: the plugin host,     *)
(* backup portability, the local runtime, the server's start-up checks, the  *)
(* planning of waves, the lifecycle guidance and the workspace documents.  A *)
(* behaviour is one of the component that part names; the others rest in an  *)
(* initial state.  Writers of a document are interchangeable, and no checked *)
(* property is a liveness property.                                          *)
(***************************************************************************)
EXTENDS PluginHost, BackupPortability, LocalRuntime, ServerReadiness,
        ExecutionPlan, Lifecycle, WorkspaceDocuments, TLC

VARIABLE part
vars == <<part, pvars, bvars, rvars, qvars, epvars, lvars, wdvars>>

(* Plugins: two entries, the key of the second one names a built-in connector. *)
PKeys == [first |-> "p", second |-> "q"]
PFiles == {[platform |-> "p", min |-> <<1, 9, 0>>, max |-> <<2, 5, 9>>],
           [platform |-> "q", min |-> NoVersion, max |-> <<2, 6, 0>>],
           [platform |-> "q", min |-> <<2, 6, 1>>, max |-> NoVersion]}
PHost == <<2, 6, 0>>
Plain == [entry \in Entries |-> [spawned |-> TRUE, reports |-> KeyOf[entry], manifest |-> NoManifest]]

(* Backups: two workloads; two jobs protect the first one, and one repository   *)
(* is mapped to another.                                                        *)
BMoves == <<[source |-> "v", target |-> "x"], [source |-> "w", target |-> "y"]>>
BJobs == <<[name |-> "daily", vms |-> {"v"}, repo |-> "r1"],
           [name |-> "weekly", vms |-> {"v"}, repo |-> "r2"]>>
BRemap == [r2 |-> "r3"]

Laptop == [production |-> FALSE, loopback |-> TRUE, localRuntime |-> TRUE, remotePeer |-> FALSE,
           override |-> FALSE, adminKey |-> "none", tenantKey |-> "none", store |-> "memory",
           assets |-> TRUE, policies |-> TRUE, circuitOpen |-> FALSE]

(* Waves: three workloads, two of which share a name; two selectors with        *)
(* dependencies, and perhaps one for everything.                                *)
EPIds == [a |-> "1", b |-> "2", c |-> "3"]
EPNames == [a |-> "app", b |-> "db", c |-> "db"]
EPRank == [a |-> 1, b |-> 2, c |-> 2]
EPRefs == {"1", "2", "3", "app", "db", "gone"}
EPSelectors == [matches : {{"a"}, {"b"}, {"c"}, {"a", "b"}},
                deps : {{"1"}, {"2"}, {"3"}, {"db"}, {"gone"}, {"1", "app"}, {"2", "db"}}]
EPAll == [matches |-> {"a", "b", "c"}, deps |-> {}]
EPSpecs == [selectors : {{s, t} : s \in EPSelectors, t \in EPSelectors}
                        \cup {{s, t, EPAll} : s \in EPSelectors, t \in EPSelectors},
            size : {0, 1}, parallel : {2}]
EPIdle == [selectors |-> {[matches |-> {"a"}, deps |-> {"gone"}]}, size |-> 0, parallel |-> 2]

(* Lifecycle: two VMs, which may share a key; no profile for kvm, and a policy   *)
(* about the cost or none.                                                      *)
Vm(p, n, t) == [platform |-> p, cpu |-> n, tags |-> t]
NoTags == [k \in {} |-> ""]
LChanges == {Vm("vmware", 9, [env |-> "prod"]), Vm("nutanix", 1, [zone |-> "a"]),
             Vm("kvm", 9, [env |-> ""]), Vm("vmware", 1, [zone |-> "a"]), Vm("proxmox", 9, NoTags)}
LFleets == {<<Vm("vmware", 9, [env |-> "prod"]), Vm("vmware", 1, [env |-> ""])>>,
            <<Vm("kvm", 9, NoTags), Absent>>}
LIds == {<<"1", "2">>, <<"1", "1">>}
LProfiles == [vmware |-> [cpu |-> 3, model |-> "per-socket", license |-> 5, support |-> 1],
              proxmox |-> [cpu |-> 2, model |-> "per-core", license |-> 1, support |-> 0],
              nutanix |-> [cpu |-> 3, model |-> "per-vm", license |-> 0, support |-> 0]]
LPlacement == [name |-> "placement", severity |-> "enforce", field |-> "platform", operator |-> "not-in", value |-> {"nutanix"}]
LTagged == [name |-> "tagged", severity |-> "warn", field |-> "env", operator |-> "in", value |-> {"prod"}]
LBudget == [name |-> "budget", severity |-> "enforce", field |-> "cost", operator |-> "less-than", value |-> 30]
LHome == [name |-> "home", severity |-> "warn", field |-> "platform", operator |-> "equals", value |-> "vmware"]
LMistaken == [name |-> "mistaken", severity |-> "warn", field |-> "platform", operator |-> "less-than", value |-> 3]
LPolicies == {{LPlacement, LTagged}, {LPlacement, LBudget}, {LHome, LMistaken}}
LWaiver(policy, vm, expired) == [policy |-> policy, vm |-> vm, expired |-> expired]
LRequests ==
    [target : {"nutanix"}, ids : {{"1"}}, all : {FALSE},
     waivers : {{}, {LWaiver("placement", "1", FALSE)}, {LWaiver("placement", AnyVM, TRUE)}}]
    \cup [target : {"proxmox", "kvm"}, ids : {{"1"}}, all : {FALSE}, waivers : {{LWaiver("budget", AnyVM, FALSE)}}]
    \cup [target : {"proxmox"}, ids : {{}}, all : {TRUE, FALSE}, waivers : {{}}]

(* Documents: two source connections with one workload each.  The bodies of     *)
(* PATCH requests carry no snapshot ids of their own.                           *)
WDAddresses == [a |-> "x", b |-> "y"]
WDFound == [a |-> {"v"}, b |-> {"u"}]
WDCreated == {[sources |-> <<"a", "b">>, target |-> TRUE]}
WDPatches == {[sources |-> <<>>, target |-> FALSE],
              [settings |-> [required |-> TRUE, by |-> FALSE]],
              [settings |-> [required |-> TRUE, by |-> TRUE],
               approval |-> [status |-> "", synced |-> FALSE]]}
Interchangeable == Permutations(Writers)

Init ==
    /\ part \in {"plugins", "backups", "runtime", "readiness", "waves", "lifecycle", "documents"}
    /\ BInit /\ RInit /\ WDInit
    /\ IF part = "plugins" THEN TRUE ELSE setup = Plain
    /\ PInit
    /\ IF part = "readiness" THEN QInit ELSE env = Laptop /\ srv = "created" /\ changed = FALSE
    /\ IF part = "waves" THEN TRUE ELSE spec = EPIdle
    /\ EPInit
    /\ IF part = "lifecycle" THEN LInit
       ELSE /\ policies = {} /\ ids = <<"1", "2">> /\ fleet = <<Absent, Absent>>
            /\ baseline = Absent /\ guidance = Absent /\ touched = {} /\ simulation = Absent /\ changes = 0

Next ==
    \/ part = "plugins" /\ PNext /\ UNCHANGED <<part, bvars, rvars, qvars, epvars, lvars, wdvars>>
    \/ part = "backups" /\ BNext /\ UNCHANGED <<part, pvars, rvars, qvars, epvars, lvars, wdvars>>
    \/ part = "runtime" /\ RNext /\ UNCHANGED <<part, pvars, bvars, qvars, epvars, lvars, wdvars>>
    \/ part = "readiness" /\ QNext /\ UNCHANGED <<part, pvars, bvars, rvars, epvars, lvars, wdvars>>
    \/ part = "waves" /\ EPNext /\ UNCHANGED <<part, pvars, bvars, rvars, qvars, lvars, wdvars>>
    \/ part = "lifecycle" /\ LNext /\ UNCHANGED <<part, pvars, bvars, rvars, qvars, epvars, wdvars>>
    \/ part = "documents" /\ WDNext /\ UNCHANGED <<part, pvars, bvars, rvars, qvars, epvars, lvars>>

Spec == Init /\ [][Next]_vars
=============================================================================
