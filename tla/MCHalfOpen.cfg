SPECIFICATION FairGuardSpec
CONSTANTS
  Callers = {c1, c2, c3}
  Tenants = {a, b}
  NoTenant = noTenant
  MaxPerTenant = 1
  MaxGlobal = 2
  MaxFailures = 2
  OpenTimeout = 2
  SuccessThreshold = 2
  CountCap = 2
PROPERTY HalfOpenResolves
