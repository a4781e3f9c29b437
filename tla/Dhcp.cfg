SPECIFICATION FairDhcpSpec
CONSTANTS
  Me = me
  Others = {you}
  s1 = s1
  s2 = s2
  a1 = a1
  a2 = a2
  Servers = {s1, s2}
  Pool <- MCPool
  Static = a1
  RX_MAX = 2
  OneTrouble = TRUE
INVARIANTS DhcpTypeOK OwnLease
PROPERTIES RequestEnds
CHECK_DEADLOCK FALSE
