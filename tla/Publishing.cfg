SPECIFICATION PublishingSpec
CONSTANTS
  b1 = b1
  Deployment = {v1, v2}
  NoDeployment = NoDeployment
  MaxStops = 1
  MaxBlips = 1
  MaxLostCommits = 1
  MaxDeaths = 1
  SiteBuild = {b1, b2}
  NoBuild = NoBuild
  Domain = {x1}
  Default = Default
  NoRecord = NoRecord
  Handler = {h1, h2}
  MaxEdgeFaults = 1
INVARIANTS
  DeployTypeOK LiveIsWhole RestorableIsWhole FeePaidOnce
  EdgeTypeOK UndisturbedIsWanted
PROPERTIES
  DeadSitesReclaimed EdgeSettles
CHECK_DEADLOCK FALSE
