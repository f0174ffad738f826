SPECIFICATION Spec
SYMMETRY Symmetry
CONSTANTS
  Requests = {r1, r2}
  MaxChanges = 2
  MaxSecrets = 2
  MaxSets = 2
  MaxStep = 2
  MaxPending = 1
INVARIANTS ChangeEndsOld CodesSpent RecoverySpent EnabledIsConfirmed
