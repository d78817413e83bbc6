SPECIFICATION Spec
INVARIANTS TypeOK SealedToTheSRK SecureConnectionVerified
PROPERTIES EnsureProvisionedHolds RefreshNeedsNoLockout LostSRKIsRestored
