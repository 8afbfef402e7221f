SPECIFICATION RequestsSpec
CONSTANTS
  k1 = k1
  k2 = k2
  c1 = c1
  c2 = c2
  Ask = {q1}
  Secret = {q2}
  Answer = {yes, no}
  UserRequest = {r1, r2}
  Nothing = Nothing
  Patience = 2
  MaxQuestionFaults = 2
  ApiKey = {k1, k2, k3}
  Call = {c1, c2, c3}
  Streamed = {c1}
  MaxConcurrent = 1
  MaxConcurrentGlobal = 2
  Rpm = 1
  RpmWindow = 2
  MaxTime = 4
INVARIANTS
  QuestionTypeOK CancelReleasesRunner
  GatewayTypeOK SlotsMatchHolders RpmRespected
PROPERTIES
  RendezvousImplemented PauseShrinks EveryQuestionEnds DeliveredIsMetered
CHECK_DEADLOCK FALSE
