\* Two moderators with review forms of their own, a seller who edits text and images.
SPECIFICATION Spec
CONSTANTS
  l1 = l1
  m1 = m1
  m2 = m2
  o1 = o1
  o2 = o2
  o3 = o3
  Listing <- OneListing
  Wanted <- OneListing
  Moderator <- TwoModerators
  NoModerator = NoModerator
  ImagePolicy <- ZeroOrOneImage
  MaxImages = 2
  MaxRevision = 7
  MaxContent = 3
  MaxTime = 2
  OrderId <- OneOrder
  NoListing = NoListing
  Renewable <- Nothing
  Duration = 1
  Grace = 1
SYMMETRY Symmetry
INVARIANTS
  PublicContentReviewed
  AcceptedFormIsFresh
PROPERTIES
  PublishedWithApprovedImages
