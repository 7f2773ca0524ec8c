SPECIFICATION FairSpec
CONSTANTS
  c1 = c1
  c2 = c2
  s1 = s1
  s2 = s2
  Clients <- OneClient
  Servers <- OneServer
  Created <- BothSides
  Cancellable <- FirstId
  Restarting <- NoServers
  MaxRetries = 1
  SyncSlots <- OneSlot
INVARIANTS
  EveryBookLegal
  MutexHeld
  OneAnswerAwaited
  BroadcastsRemainder
PROPERTIES
  EverySubmissionReturns
