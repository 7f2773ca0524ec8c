SPECIFICATION Spec
CONSTANTS
  c1 = c1
  c2 = c2
  s1 = s1
  s2 = s2
  Clients <- TwoClients
  Servers <- OneServer
  Created <- Equals
  Cancellable <- NoIds
  Restarting <- NoServers
  MaxRetries = 1
  SyncSlots <- OneSlot
INVARIANTS
  ServedOnce
