SPECIFICATION FairSpec
CONSTANTS
  Endpoints = {e1, e2, e3}
  NoEndpoint = NoEndpoint
  MaxFailures = 2
INVARIANTS
  ConnectedIsSupervised
  OneSocket
PROPERTIES
  Recovers
