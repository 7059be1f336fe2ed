SPECIFICATION DSpec
CONSTANTS
  east = east
  west = west
  site = site
  j1 = j1
  j2 = j2
  Jobs = {j1, j2}
  Sources = {east, west}
  SourceOrder <- Order
  Endpoints = {site}
  EndpointOf <- Shared
  FailureThreshold = 2
  FailureWindow = 2
  OpenDuration = 1
CHECK_DEADLOCK FALSE
INVARIANTS
  DiscoveryIsComplete
PROPERTIES
  
  RunsEnd
