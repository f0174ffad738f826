SPECIFICATION AuditSpec
CONSTANTS
  MaxEntries = 4
  MaxDamage = 2
CHECK_DEADLOCK FALSE
INVARIANTS UndamagedVerifies GarblingDetected LostTailDetected
