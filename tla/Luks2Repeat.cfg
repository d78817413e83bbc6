SPECIFICATION Spec
CONSTANTS
  k1 = k1
  k2 = k2
  r1 = r1
  r2 = r2
  MaxSlot = 3
  Key <- MCKey
  RecoveryKey <- MCRecoveryKey
  NoKey = NoKey
PROPERTY ChangeCanBeRepeated
