SPECIFICATION FairSpec
CONSTANTS
  Clients = {a, b}
  MaxTraffic = 2
  MaxLost = 1
INVARIANT TrafficConserved
INVARIANT ReportedBehindUsed
INVARIANT EnabledAsFetched
PROPERTY TrafficReported
