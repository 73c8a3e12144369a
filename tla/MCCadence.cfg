CONSTANTS
  icmp = icmp
  https = https
  dns = dns
  gateway = gateway
  captive = captive
  path = path
  Kinds = {https, dns, icmp, path}
  Collectors = {https, dns, gateway, captive, path}
  Kind <- MCKind
  Cost <- MCCost
  Targets <- MCTargets
  Capacity <- MCCapacity
  Period <- MCPeriod
  Groups <- MCGroups
  Default <- MCDefault
  Files <- MCFiles
  Environments <- MCEnvironments
  Checked = {https, dns}
  Pulled = {path}
  Fallible = {path}
  Jitter = 34
  Cooldown = 2
  BackoffAfter = 2
  MaxBackoff = 2
  FailCap = 2
  Battery = {1}
  MaxTime = 4
SPECIFICATION CadenceSpec
INVARIANTS
  RateEnforced
  AtMostOneLateProbe
  AcceptedIsNotStarved
  SuspicionIsAnswered
