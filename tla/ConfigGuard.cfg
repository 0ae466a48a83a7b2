CONSTANTS
  n1 = n1
  n2 = n2
  Names = {n1, n2}
  KindOf <- TwoKinds
  RefsOf <- TwoRefs
  Service = Service
  Loopback = Loopback
  Outside = Outside
  Hosts = {Service, Loopback, Outside}
  Endpoints <- OneEndpoint
  Keystone <- TwoKeystones
  Faults = {"error", "crash"}
SPECIFICATION LiveSpec
INVARIANTS TypeOK GuardInv
PROPERTIES KeptForKnown ObjectDeletionEnds ConfigDeletionEnds TakenUp
