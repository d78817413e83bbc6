CONSTANTS
  Instructions <- MCInstructions
  Profiles <- MCProfiles
  Zero <- MCZero
  Extended <- MCExtended
  TPMValue <- MCTPMValue
  Longest <- MCLongest
  LoadEvents <- MCLoadEvents
  Sigs <- MCSigs
  VendorCert <- MCVendorCert
  IsShim <- MCIsShim
  Trusts <- MCTrusts
  Layout <- MCLayout
  Requests <- MCRequests
SPECIFICATION BPSpec
INVARIANTS NeverPanics JoinedExactly StacksAligned ValuesAreTheMeaning DigestsExact EveryBootPermitted NothingElsePermitted RefusedExactly
