SPECIFICATION NetworkSpec
CONSTANTS
  c1 = c1
  c2 = c2
  s1 = s1
  s2 = s2
  Clients <- OneClient
  Servers <- OneServer
  Created <- BothSides
  Cancellable <- NoIds
  Restarting <- OneServer
  MaxRetries = 1
  SyncSlots <- TwoSlots
PROPERTIES
  AllBooksAgree
