\* A renewal publishes content nobody approved.
SPECIFICATION Spec
CONSTANTS
  l1 = l1
  m1 = m1
  m2 = m2
  o1 = o1
  o2 = o2
  o3 = o3
  Listing <- OneListing
  Wanted <- Nothing
  Moderator <- OneModerator
  NoModerator = NoModerator
  ImagePolicy <- NoMinimum
  MaxImages = 0
  MaxRevision = 16
  MaxContent = 2
  MaxTime = 6
  OrderId <- ThreeOrders
  NoListing = NoListing
  Renewable <- OneListing
  Duration = 2
  Grace = 1
SYMMETRY Symmetry
INVARIANT RenewedContentReviewed
CHECK_DEADLOCK FALSE
