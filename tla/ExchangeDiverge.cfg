SPECIFICATION NetworkSpec
CONSTANTS
  c1 = c1
  c2 = c2
  s1 = s1
  s2 = s2
  Clients <- OneClient
  Servers <- TwoServers
  Created <- OneOrder
  Cancellable <- NoIds
  Restarting <- NoServers
  MaxRetries = 1
  SyncSlots <- OneSlot
PROPERTIES
  AllBooksAgree
