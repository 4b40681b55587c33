SPECIFICATION Spec
CONSTANTS
  i1 = i1
  i2 = i2
  a1 = a1
  p1 = p1
  live = live
  gone = gone
  Nil = Nil
  Ip <- Ips
  Address <- AnAddress
  Port <- APort
  Server <- Servers
  Disposed <- Gone
  Asking <- Requests
INVARIANTS
  ListensAsAsked
  PreferredComesFirst
  NormalizedForGood
  GivenOptionsArrive
CHECK_DEADLOCK FALSE
