\* Every component beside the lifecycle, one at a time, with its own small bounds.
SPECIFICATION SiteSpec
CONSTANTS
  \* Media: three uploads for two places (deaths: Liveness_union.cfg)
  Images = {i1, i2, i3}
  Videos = {}
  MaximumImages = 2
  Nobody = Nobody
  MaxDeaths = 0
  \* Accounts: three revisions, two reviewers
  Sellers = {s1}
  Reviewers = {r1, r2}
  Phones = {ph1}
  NoPhone = NoPhone
  MaxSubmissions = 3
  MaxChanges = 1
  \* Reports: three forms about two listings, of which a source may post one; two who triage
  Submissions = {f1, f2, f3}
  Subjects = {l1, l2}
  Sources = {a1}
  Texts = {t1, t2}
  Staff = {c1, c2}
  Free = Free
  SourceLimit = 1
  ListingLimit = 2
  MaxTriage = 2
  \* Storefront: terms of two days
  Term = 2
  Retention = 2
  Grace = 2
  Offsets = {1, 2}
  LastDay = 5
  \* Drafts: every kind of category, two tabs
  Drafted = {d1}
  Tabs = {b1, b2}
  Leaves = {"sedans", "houses", "apartments", "tractors", "pasture", "fencing", "cattle",
            "sofas", "ovens", "phones", "general"}
  Factual = {"phones"}
  NoPage = NoPage
  Unstable = {"tractors"}
  MaxTags = 1
  \* Browse
  Prices = {0, 1}
  Makes = {"m1"}
  \* LiveSearch: two requests of each form; any answer may be an error
  Words = {"w1"}
  Refused = {}
  Intents = {"wanted"}
  MaxRequests = 2
  \* Geography: two counties, two imports
  p1 = p1
  p2 = p2
  Places <- TwoPlaces
  StateFips <- OneState
  PlaceNames = {n1, n2}
  NoRow = NoRow
  Zips = {z1}
  MaxImports = 2
  \* CountyPicker: two states, two ZIP codes of one of them
  st1 = st1
  st2 = st2
  k1 = k1
  k2 = k2
  k3 = k3
  y1 = y1
  y2 = y2
  CountiesIn <- CountiesInTwo
  ZipCodes = {y1, y2}
  Crosswalk <- PairsOfTwo
  Unset = Unset
SYMMETRY StaffSymmetry
INVARIANTS
  SiteTypeOK
  SessionsTell
  ImagesWithinMaximum
  OrderNeverCollides
  PublicRevisionApproved
  LimitsKept
  TrailUnbroken
  PublicationDated
  SellerFeedExact
  SubmissionFindsDetails
  OneVertical
  PageLinksStay
  ChipRemovesOne
  BusyWhileAwaiting
  NamesLast
  VerifiedIsAccepted
PROPERTIES
  MediaFrozenInReview
  ReportsAboutPublished
  PublishedIsShown
  AnswersInOrder
  AsksWhatIsChosen
  ImportIsWhole
\* Uploads, forms and clicks may stop, and every bound is reached.
CHECK_DEADLOCK FALSE
