SPECIFICATION Spec
CONSTANTS
  MaxPassphraseTries = 3
  MaxRecoveryKeyTries = 2
  MaxFailures = 2
INVARIANT CorrectPINSuffices
