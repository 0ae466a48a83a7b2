CONSTANTS
  n1 = n1
  n2 = n2
  Names = {n1, n2}
  KindOf <- TwoKinds
  RefsOf <- TwoRefs
  Service = Service
  Loopback = Loopback
  Outside = Outside
  Hosts = {Service, Loopback, Outside}
  Endpoints <- SomeEndpoints
  Keystone <- TwoKeystones
  Faults = {}
SPECIFICATION Spec
PROPERTIES ConfigOutlivesUsers
