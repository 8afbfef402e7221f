SPECIFICATION DeploySpec
CONSTANTS
  Deployment = {v1, v2}
  NoDeployment = NoDeployment
  MaxStops = 0
  MaxBlips = 0
  MaxLostCommits = 0
  MaxDeaths = 0
INVARIANTS LiveServerIsKept
CHECK_DEADLOCK FALSE
