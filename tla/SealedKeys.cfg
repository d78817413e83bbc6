CONSTANTS
  p1 = p1
  p2 = p2
  h1 = h1
  a1 = a1
  a2 = a2
  b1 = b1
  b2 = b2
  Path <- MCPath
  Handle <- MCHandle
  NullHandle = NullHandle
  AuthKey <- MCAuthKey
  Boot <- MCBoot
  Profile <- MCOneProfile
  MaxCount = 4
  Absent = Absent
  Torn = Torn
  Undefined = Undefined
  NoPolicy = NoPolicy
SPECIFICATION Spec
SYMMETRY Symmetry
INVARIANT TypeOK
INVARIANT NeverLockedOut
INVARIANT RevokedForever
INVARIANT OneConfirmedPolicy
PROPERTY FailedSealLeavesNothing
PROPERTY ImplementsRevocation
