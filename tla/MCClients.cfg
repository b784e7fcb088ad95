SPECIFICATION Spec
CONSTANTS
  Services = {s1, s2}
SYMMETRY Perms
INVARIANTS
  DecodedAsEncoded
  HandshakeHonest
  IngestHonest
  OrderedContinues
  ServicesFound
  VersionsConsistent
PROPERTIES
  PoolConsistent
CHECK_DEADLOCK FALSE
