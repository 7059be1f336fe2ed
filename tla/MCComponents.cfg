SPECIFICATION Spec
CHECK_DEADLOCK FALSE
CONSTANTS
  Entries = {"first", "second"}
  KeyOf <- PKeys
  Platforms = {"p", "q"}
  BuiltIns = {"q"}
  Manifests <- PFiles
  HostVersion <- PHost
  Connectors = {"c1", "c2"}
  Mappings <- BMoves
  SourceJobs <- BJobs
  RepositoryOf <- BRemap
  MaxEdits = 1
  Commands = {"k1", "k2"}
  Pids = {"p1", "p2"}
  Workloads = {"a", "b", "c"}
  References <- EPRefs
  IdOf <- EPIds
  NameOf <- EPNames
  Rank <- EPRank
  Specs <- EPSpecs
  VMs = {1, 2}
  Fleets <- LFleets
  Changes <- LChanges
  IdChoices <- LIds
  Profiles <- LProfiles
  PolicySets <- LPolicies
  Requests <- LRequests
  CPUThreshold = 0
  MaxChanges = 1
  Absent = Absent
  AnyVM = AnyVM
  Writers = {w1, w2}
  None = None
  NoDoc = NoDoc
  Sources = {"a", "b"}
  AddressOf <- WDAddresses
  VmsOf <- WDFound
  Patches <- WDPatches
  Selections = {{}, {"u"}}
  MaxSnapshots = 3
  MaxPlans = 1
  MaxReports = 1
  MaxRequests = 4
  Bodies <- WDCreated
SYMMETRY Interchangeable
INVARIANTS
  
  
  
  ReadinessIsHonest
  WavesAreOrdered
  
  
PROPERTIES
  PlacementSaves
  LostUpdatesAreRaced
