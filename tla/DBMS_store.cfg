SPECIFICATION Spec
CONSTANTS
  Key = {k1, k2, k3}
  Value = {v1, v2}
  Lifetime = {1, 2}
  MaxNow = 2
  MaxLifetime = 2
  Absent = Absent
  Idle = Idle
INVARIANTS
  StoreTypeOK
  IndexMatchesMap
PROPERTY StoreIsExpiringMap
