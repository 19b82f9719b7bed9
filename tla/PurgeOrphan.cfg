SPECIFICATION StoreSpec
CONSTANTS
  Sessions = {s1}
  Readers = {}
  MaxWrites = 1
  MaxRuns = 1
  MaxRestarts = 0
  TenantPurges = FALSE
INVARIANT NoFingerprintIsOrphaned
CHECK_DEADLOCK FALSE
