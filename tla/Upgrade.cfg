CONSTANTS
  Proc = {1, 2, 3}
  Nobody = Nobody
  Absent = Absent
  Empty = Empty
  Old = Old
  Id = {a}
  Initially = {a}
  Conn = {c1}
SPECIFICATION FairSpec
INVARIANTS
  PairUsable
  CommandsTakeEffect
  OneFamily
PROPERTIES
  ServiceGoesOn
  SuccessorServes
  ConnectionServed
CHECK_DEADLOCK FALSE
