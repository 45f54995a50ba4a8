---------------------------- MODULE Pages_proofs -----------------------------
(***************************************************************************)
(* Proofs about the pages.  What they show: the dates of a publication and *)
(* the two selectors, for any term, retention, grace and reminders, and    *)
(* without a last day.  What they link to: the public directory, for any   *)
(* prices and any values of a typed filter.  What their scripts do: a      *)
(* listing form marked as verified is accepted, for any states, counties,  *)
(* ZIP codes and reference data; a search form asks what it shows, in      *)
(* order, and says that it is busy while it is, for any words, intents and *)
(* number of requests.                                                     *)
(***************************************************************************)
EXTENDS Storefront, Browse, CountyPicker, LiveSearch, FiniteSetTheorems, TLAPS

Dates ==
    /\ publishedAt \in Nat /\ firstPublishedAt \in Nat /\ expiry \in Nat
    /\ soldAt \in Nat /\ soldUntil \in Nat /\ lastSold \in Nat /\ firstShown \in Nat
    /\ today \in Nat \ {0}

\* No publication is dated in the future, and only a publication sets an expiry.
Published ==
    /\ (shelf = "published") <=> (publishedAt # 0)
    /\ firstPublishedAt = firstShown
    /\ publishedAt # 0 => firstPublishedAt \in 1 .. publishedAt
    /\ publishedAt <= today /\ firstPublishedAt <= today
    /\ expiry # 0 => firstPublishedAt # 0

\* The retention of a sold listing is what it was when it was sold, or has been cleared
\* after its end.
Retained ==
    shelf = "sold" =>
        /\ soldAt # 0
        /\ \/ soldUntil = lastSold + Retention
           \/ soldUntil = 0 /\ lastSold + Retention <= today

StorefrontInv == Dates /\ Published /\ Retained

\* A publication, with an expiry the row had or a later one.
LEMMA PublishingKeeps ==
    ASSUME StorefrontInv, NEW until \in Nat, ToPublished(until)
    PROVE  StorefrontInv' /\ today' = today /\ firstPublishedAt' # 0
<1>1. /\ shelf' = "published" /\ publishedAt' = today /\ expiry' = until /\ today' = today
      /\ firstPublishedAt' = IF firstPublishedAt = 0 THEN today ELSE firstPublishedAt
      /\ firstShown' = IF firstShown = 0 THEN today ELSE firstShown
      /\ UNCHANGED <<soldAt, soldUntil, lastSold>>
  BY DEF ToPublished, KeepFirst, Rest
<1>2. today \in Nat \ {0} /\ firstPublishedAt \in Nat /\ firstPublishedAt <= today /\ firstPublishedAt = firstShown
  BY DEF StorefrontInv, Dates, Published
<1>3. Dates' /\ firstPublishedAt' # 0
  BY <1>1, <1>2 DEF StorefrontInv, Dates
<1>4. Published' /\ Retained'
  BY <1>1, <1>2 DEF Published, Retained
<1>5. QED
  BY <1>1, <1>3, <1>4 DEF StorefrontInv

\* The three ways to publish.
LEMMA PublicationsKeep ==
    ASSUME StorefrontInv, PublishForTerm \/ PublishAsIs \/ RenewTerm
    PROVE  StorefrontInv' /\ (expiry' = 0 \/ expiry' > today' \/ (firstPublishedAt # 0 /\ expiry' = expiry))
<1>0. today \in Nat \ {0} /\ expiry \in Nat /\ Term \in Nat \ {0}
  BY StorefrontAssumption DEF StorefrontInv, Dates
<1>1. CASE PublishForTerm
  <2>1. ToPublished(today + Term) /\ today + Term \in Nat
    BY <1>0, <1>1 DEF PublishForTerm
  <2>2. QED
    BY <1>0, <2>1, PublishingKeeps DEF ToPublished, Rest
<1>2. CASE PublishAsIs
  <2>1. ToPublished(expiry)
    BY <1>2 DEF PublishAsIs
  <2>2. StorefrontInv' /\ expiry' = expiry
    BY <1>0, <2>1, PublishingKeeps DEF ToPublished
  <2>3. QED
    BY <2>2 DEF StorefrontInv, Published
<1>3. CASE RenewTerm
  <2>1. ToPublished(today + Term) /\ today + Term \in Nat
    BY <1>0, <1>3 DEF RenewTerm, RenewedUntil
  <2>2. QED
    BY <1>0, <2>1, PublishingKeeps DEF ToPublished, Rest
<1>4. QED
  BY <1>1, <1>2, <1>3

\* What takes a listing from buyers, and the clean-up of sold ones.
LEMMA WithdrawalsKeep ==
    ASSUME StorefrontInv, Withdraw \/ Sell \/ ExpireListings \/ ClearSold
    PROVE  StorefrontInv' /\ shelf' # "published"
<1> USE StorefrontAssumption DEF StorefrontInv, Dates, Published, Retained, Rest
<1>1. CASE Withdraw
  BY <1>1 DEF Withdraw, Unpublish
<1>2. CASE Sell
  BY <1>2 DEF Sell, Unpublish
<1>3. CASE ExpireListings
  BY <1>3 DEF ExpireListings, Unpublish
<1>4. CASE ClearSold
  BY <1>4 DEF ClearSold
<1>5. QED
  BY <1>1, <1>2, <1>3, <1>4

\* What leaves the row alone: reminders, locks, switches and the clock.
LEMMA ShelfKept ==
    ASSUME StorefrontInv,
           \/ ScheduleReminders \/ Hold \/ LetGo \/ ToggleAccount \/ ToggleReference \/ DayPasses
           \/ UNCHANGED storefrontVars
    PROVE  StorefrontInv' /\ publishedAt' = publishedAt
<1>1. UNCHANGED <<shelf, datesVars, firstShown, lastSold>> /\ (today' = today \/ today' = today + 1)
  BY DEF ScheduleReminders, Hold, LetGo, ToggleAccount, ToggleReference, DayPasses, Rest, storefrontVars
<1>2. QED
  BY <1>1, StorefrontAssumption DEF datesVars, StorefrontInv, Dates, Published, Retained

\* The dates stay consistent, whichever of the writers wrote them.
THEOREM DatesInvariant == StorefrontSpec => []StorefrontInv
<1>1. StorefrontInit => StorefrontInv
  BY DEF StorefrontInit, StorefrontInv, Dates, Published, Retained
<1>2. StorefrontInv /\ [StorefrontNext]_storefrontVars => StorefrontInv'
  BY PublicationsKeep, WithdrawalsKeep, ShelfKept DEF StorefrontNext
<1>3. QED
  BY <1>1, <1>2, PTL DEF StorefrontSpec

\* Exactly the published listings are dated, and the first date never moves.
THEOREM PublicationsAreDated == StorefrontSpec => []PublicationDated
<1>1. StorefrontInv => PublicationDated
  BY DEF StorefrontInv, Published, PublicationDated
<1>2. QED
  BY <1>1, DatesInvariant, PTL

\* The profile of a seller shows what browse shows, and sold listings for the retention.
THEOREM SellerFeedsAreExact == StorefrontSpec => []SellerFeedExact
<1>1. StorefrontInv => SellerFeedExact
  <2> SUFFICES ASSUME StorefrontInv PROVE SellerFeedExact
    OBVIOUS
  <2>1. CASE shelf = "sold"
    <3>1. (soldAt # 0 /\ soldUntil > today) <=> today < lastSold + Retention
      BY <2>1, StorefrontAssumption DEF StorefrontInv, Dates, Retained
    <3>2. QED
      BY <2>1, <3>1 DEF SellerFeedExact, InFeed, InBrowse
  <2>2. CASE shelf # "sold"
    BY <2>2 DEF SellerFeedExact, InFeed, InBrowse, Unexpired
  <2>3. QED
    BY <2>1, <2>2
<1>2. QED
  BY <1>1, DatesInvariant, PTL

\* A publication is seen, unless an approval without a paid order keeps a past expiry.
THEOREM PublicationsAreShown == StorefrontSpec => PublishedIsShown
<1>1. StorefrontInv /\ [StorefrontNext]_storefrontVars
        => [shelf' = "published" /\ publishedAt' # publishedAt =>
              \/ expiry' = 0 \/ expiry' > today'
              \/ (firstPublishedAt # 0 /\ expiry' = expiry)]_storefrontVars
  BY PublicationsKeep, WithdrawalsKeep, ShelfKept DEF StorefrontNext
<1>2. QED
  BY <1>1, DatesInvariant, PTL DEF StorefrontSpec, PublishedIsShown

-----------------------------------------------------------------------------
\* The public directory.

Keys == {"intent", "scope", "vertical", "category", "county", "minPrice", "maxPrice", "make", "sort",
         "state"}

LEMMA BlankValues ==
    /\ \A n \in Keys \ {"minPrice", "maxPrice"} : BlankOf(n) = ""
    /\ BlankOf("minPrice") = NoAmount /\ BlankOf("maxPrice") = NoAmount
    /\ NoAmount \notin Prices /\ BadAmount \notin Prices /\ NoAmount # BadAmount
<1>1. Prices \subseteq Nat
  BY BrowseAssumption
<1>2. NoAmount \notin Nat /\ BadAmount \notin Nat /\ NoAmount # BadAmount
  BY DEF NoAmount, BadAmount
<1>3. /\ \A n \in Keys \ {"minPrice", "maxPrice"} : BlankOf(n) = ""
      /\ BlankOf("minPrice") = NoAmount /\ BlankOf("maxPrice") = NoAmount
  BY DEF BlankOf, Keys
<1>4. QED
  BY <1>1, <1>2, <1>3

\* What the form reads of a query: the wanted directory puts its intent into it.
IsData(r, q, d) ==
    /\ DOMAIN d = Keys /\ \A n \in Keys : n # "intent" => d[n] = q[n]
    /\ r \in {"wanted", "wanted in state"} => d["intent"] = "wanted"
    /\ r \notin {"wanted", "wanted in state"} => d["intent"] = q["intent"]

LEMMA DataOf ==
    ASSUME NEW r, NEW q, DOMAIN q = Keys
    PROVE  IsData(r, q, Data(r, q))
BY DEF Data, Keys, IsData

\* What a link carries of a query d without errors, where some fields are left out.
IsLink(r, d, left, p) ==
    /\ DOMAIN p = Keys
    /\ \A n \in Keys : n \in Fields(r, d) /\ n \notin left /\ n # "scope" => p[n] = d[n]
    /\ \A n \in Keys : n \in left \/ n \notin Fields(r, d) => p[n] = BlankOf(n)
    /\ "scope" \in Fields(r, d) /\ "scope" \notin left => (p["scope"] = "county" <=> d["scope"] = "county")
    /\ p["scope"] \in {"", "county"}

LEMMA LinkOf ==
    ASSUME NEW r, NEW d, NEW left, DOMAIN d = Keys, Errors(r, d) = {}
    PROVE  IsLink(r, d, left, QueryParameters(r, d, left))
<1> DEFINE p == QueryParameters(r, d, left)
<1>1. DOMAIN p = Keys
  BY DEF QueryParameters
<1>2. \A n \in Keys : p[n] = IF n \in Fields(r, d) \ left /\ (n = "scope" => d.scope = "county")
                             THEN d[n] ELSE BlankOf(n)
  BY DEF QueryParameters
<1> HIDE DEF p
<1>3. "scope" \in Keys /\ BlankOf("scope") = ""
  BY DEF Keys, BlankOf
<1>4. p["scope"] \in {"", "county"}
  BY <1>2, <1>3
<1>5. "scope" \in Fields(r, d) /\ "scope" \notin left => (p["scope"] = "county" <=> d["scope"] = "county")
  BY <1>2, <1>3
<1>6. \A n \in Keys : n \in left \/ n \notin Fields(r, d) => p[n] = BlankOf(n)
  BY <1>2
<1>7. \A n \in Keys : n \in Fields(r, d) /\ n \notin left /\ n # "scope" => p[n] = d[n]
  BY <1>2
<1>8. IsLink(r, d, left, p)
  BY <1>1, <1>4, <1>5, <1>6, <1>7, Zenon DEF IsLink
<1>9. QED
  BY <1>8 DEF p

\* What the form has to find right.
Right(r, q) ==
    /\ q.intent # "bogus"
    /\ q.category # "" /\ q.vertical # "" => q.category \in CategoriesOf(q.vertical)
    /\ r # "county" => q.county \in CountiesOf(StateOf(r, q)) \cup {""}
    /\ q.maxPrice # BadAmount /\ ~ Inverted(q)

LEMMA NoErrors ==
    ASSUME NEW r, NEW q
    PROVE  Errors(r, q) = {} <=> Right(r, q)
<1> DEFINE Wrong(n) ==
       CASE n = "intent"   -> q.intent = "bogus"
         [] n = "category" -> /\ q.category # "" /\ q.vertical # ""
                              /\ q.category \notin CategoriesOf(q.vertical)
         [] n = "county"   -> q.county \notin CountiesOf(StateOf(r, q)) \cup {""}
         [] n = "maxPrice" -> q.maxPrice = BadAmount \/ Inverted(q)
         [] OTHER          -> FALSE
<1>1. Errors(r, q) = {n \in Fields(r, q) : Wrong(n)}
  BY DEF Errors
<1>2. /\ Wrong("intent") <=> q.intent = "bogus"
      /\ Wrong("category") <=> /\ q.category # "" /\ q.vertical # ""
                               /\ q.category \notin CategoriesOf(q.vertical)
      /\ Wrong("county") <=> q.county \notin CountiesOf(StateOf(r, q)) \cup {""}
      /\ Wrong("maxPrice") <=> q.maxPrice = BadAmount \/ Inverted(q)
      /\ \A n \in Fields(r, q) \ {"intent", "category", "county", "maxPrice"} : ~ Wrong(n)
  OBVIOUS
<1> HIDE DEF Wrong
<1>3. {"intent", "category", "maxPrice"} \subseteq Fields(r, q) /\ ("county" \in Fields(r, q) <=> r # "county")
  BY DEF Fields, TypedFields
<1>4. QED
  BY <1>1, <1>2, <1>3 DEF Right

\* Two queries that say the same of everything the results depend on.
SameFilters(r, p, q) ==
    /\ p.intent = q.intent /\ p.vertical = q.vertical /\ p.category = q.category
    /\ p.minPrice = q.minPrice /\ p.maxPrice = q.maxPrice /\ p.sort = q.sort
    /\ r # "county" => p.county = q.county
    /\ r = "county" => (p.scope = "county" <=> q.scope = "county")
    /\ q.vertical = "autos" => p.make = q.make

LEMMA SameMatches ==
    ASSUME NEW r, NEW p, NEW q, SameFilters(r, p, q), NEW ad
    PROVE  Matches(ad, r, p) <=> Matches(ad, r, q)
<1>1. MatchesTyped(ad, p) <=> MatchesTyped(ad, q)
  BY DEF SameFilters, MatchesTyped
<1>2. /\ p.intent = q.intent /\ p.vertical = q.vertical /\ p.category = q.category
      /\ p.minPrice = q.minPrice /\ p.maxPrice = q.maxPrice /\ p.sort = q.sort
      /\ r # "county" => p.county = q.county
  BY DEF SameFilters
<1>3. (r # "county" /\ p.county # "" => ad.county = p.county) <=> (r # "county" /\ q.county # "" => ad.county = q.county)
  BY <1>2
<1>4. QED
  BY <1>1, <1>2, <1>3, Zenon DEF Matches

LEMMA SameResults ==
    ASSUME NEW r, NEW q, NEW p, StateOf(r, p) = StateOf(r, q), Errors(r, Data(r, q)) = {},
           StateOf(r, Data(r, p)) = StateOf(r, Data(r, q)),
           SameFilters(r, Data(r, p), Data(r, q))
    PROVE  Errors(r, Data(r, p)) = {} /\ ResultsFor(r, p) = ResultsFor(r, q)
<1>1. \A ad : Matches(ad, r, Data(r, p)) <=> Matches(ad, r, Data(r, q))
  BY SameMatches
<1>2. Right(r, Data(r, p))
  <2>1. Right(r, Data(r, q))
    BY NoErrors
  <2>2. QED
    BY <2>1 DEF Right, SameFilters, Inverted
<1>3. Errors(r, Data(r, p)) = {}
  BY <1>2, NoErrors
<1>4. r = "county" => (Data(r, p).scope = "county" <=> Data(r, q).scope = "county")
  BY DEF SameFilters
<1>5. ResultsFor(r, p) = ResultsFor(r, q)
  BY <1>1, <1>3, <1>4 DEF ResultsFor
<1>6. QED
  BY <1>3, <1>5

LEMMA FieldsOf ==
    ASSUME NEW r, NEW d
    PROVE  /\ {"intent", "vertical", "category", "minPrice", "maxPrice", "sort"} \subseteq Fields(r, d)
           /\ "county" \in Fields(r, d) <=> r # "county"
           /\ "scope" \in Fields(r, d) <=> r = "county"
           /\ "make" \in Fields(r, d) <=> d.vertical = "autos"
           /\ "state" \notin Fields(r, d) /\ Fields(r, d) \subseteq Keys
BY DEF Fields, TypedFields, Keys

\* A link that leaves nothing out says all that the results depend on.
LEMMA NextFields ==
    ASSUME NEW r, NEW q, NEW d, NEW p, NEW e, q.state = "",
           IsData(r, q, d), IsLink(r, d, {}, p), IsData(r, p, e)
    PROVE  /\ p.state = "" /\ e.state = "" /\ d.state = ""
           /\ SameFilters(r, e, d)
<1>1. p["state"] = "" /\ e["state"] = "" /\ d["state"] = ""
  <2>1. "state" \in Keys /\ "state" # "intent" /\ BlankOf("state") = "" /\ "state" \notin Fields(r, d)
    BY FieldsOf, BlankValues DEF Keys
  <2>2. d["state"] = "" /\ p["state"] = ""
    BY <2>1 DEF IsData, IsLink
  <2>3. QED
    BY <2>1, <2>2 DEF IsData
<1>2. e["intent"] = d["intent"]
  BY FieldsOf DEF Keys, IsData, IsLink
<1>3. e["vertical"] = d["vertical"] /\ e["category"] = d["category"]
  BY FieldsOf DEF Keys, IsData, IsLink
<1>4. e["minPrice"] = d["minPrice"] /\ e["maxPrice"] = d["maxPrice"] /\ e["sort"] = d["sort"]
  BY FieldsOf DEF Keys, IsData, IsLink
<1>5. r # "county" => e["county"] = d["county"]
  BY FieldsOf DEF Keys, IsData, IsLink
<1>6. r = "county" => (e["scope"] = "county" <=> d["scope"] = "county")
  BY FieldsOf DEF Keys, IsData, IsLink
<1>7. d["vertical"] = "autos" => e["make"] = d["make"]
  BY FieldsOf DEF Keys, IsData, IsLink
<1>8. QED
  BY <1>1, <1>2, <1>3, <1>4, <1>5, <1>6, <1>7 DEF SameFilters

LEMMA NextResults ==
    ASSUME NEW r, NEW q, DOMAIN q = Keys, q.state = "", Errors(r, Data(r, q)) = {}
    PROVE  ResultsFor(r, QueryParameters(r, Data(r, q), {})) = ResultsFor(r, q)
<1>1. PICK d : d = Data(r, q)
  OBVIOUS
<1>2. PICK p : p = QueryParameters(r, d, {})
  OBVIOUS
<1>3. PICK e : e = Data(r, p)
  OBVIOUS
<1>4. IsData(r, q, d)
  BY <1>1, DataOf, Zenon
<1>5. DOMAIN d = Keys
  BY <1>4, Zenon DEF IsData
<1>6. IsLink(r, d, {}, p)
  BY <1>1, <1>2, <1>5, LinkOf, Zenon
<1>7. IsData(r, p, e)
  <2>1. DOMAIN p = Keys
    BY <1>6, Zenon DEF IsLink
  <2>2. QED
    BY <1>3, <2>1, DataOf, Zenon
<1>8. p.state = "" /\ e.state = "" /\ d.state = "" /\ SameFilters(r, e, d)
  BY <1>4, <1>6, <1>7, NextFields, Zenon
<1>9. StateOf(r, p) = "first" /\ StateOf(r, q) = "first" /\ StateOf(r, e) = "first" /\ StateOf(r, d) = "first"
  BY <1>8, Zenon DEF StateOf
<1>10. ResultsFor(r, p) = ResultsFor(r, q)
  BY <1>1, <1>3, <1>8, <1>9, SameResults, Zenon
<1>11. QED
  BY <1>1, <1>2, <1>10, Zenon

\* Every query of a visit has the keys the pages read.
DirectoryInv == DOMAIN query = Keys

THEOREM DirectoryInvariant == BrowseSpec => []DirectoryInv
<1>1. BrowseInit => DirectoryInv
  <2>1. \A scopes, counties, states : \A q \in QueriesOf(scopes, counties, states) : DOMAIN q = Keys
    BY DEF QueriesOf, Keys
  <2>2. QED
    BY <2>1, Zenon DEF BrowseInit, StateContext, CountyContext, InSearchOf, DirectoryInv
<1>2. DirectoryInv /\ [BrowseNext]_browseVars => DirectoryInv'
  <2> SUFFICES ASSUME DirectoryInv, [BrowseNext]_browseVars PROVE DirectoryInv'
    OBVIOUS
  <2>1. DOMAIN Shown = Keys
    BY DataOf, Zenon DEF Shown, IsData, DirectoryInv
  <2>2. \A left : DOMAIN QueryParameters(route, Shown, left) = Keys
    BY <2>1 DEF QueryParameters
  <2>3. DOMAIN Blank = Keys
    BY DEF Blank, DirectoryInv
  <2>4. QED
    BY <2>2, <2>3, Zenon
       DEF DirectoryInv, BrowseNext, TurnPage, RemoveChip, ResetFilters, ClearFilters, Follow,
           NextPageQuery, ChipQuery, ResetQuery, browseVars
<1>3. QED
  BY <1>1, <1>2, PTL DEF BrowseSpec

\* The next page continues the list that this page began, whatever the query and the
\* prices (locations/forms.py, query_parameters), but for the exceptions of the property.
THEOREM NextPageContinues == BrowseSpec => []PageLinksStay
<1>1. DirectoryInv => PageLinksStay
  BY NextResults, Zenon DEF DirectoryInv, PageLinksStay, Valid, Shown, NextPageQuery
<1>2. QED
  BY <1>1, DirectoryInvariant, PTL

\* What the page behind a chip reads: the field of the chip is blank, the others stay.
IsChip(r, d, n, e) ==
    /\ \A k \in Keys : k \in Fields(r, d) /\ k # n /\ k # "scope" => e[k] = d[k]
    /\ \A k \in Keys : k \notin Fields(r, d) => e[k] = BlankOf(k)
    /\ n # "intent" => e[n] = BlankOf(n)
    /\ n # "scope" /\ r = "county" => (e["scope"] = "county" <=> d["scope"] = "county")

LEMMA ChipFields ==
    ASSUME NEW r, NEW q, NEW d, NEW n \in Keys, NEW c, NEW e,
           IsData(r, q, d), IsLink(r, d, {n}, c), IsData(r, c, e)
    PROVE  IsChip(r, d, n, e)
<1>1. "intent" \in Fields(r, d) /\ ("scope" \in Fields(r, d) <=> r = "county") /\ "scope" \in Keys
  BY FieldsOf DEF Keys
<1>2. ASSUME NEW k \in Keys, k \in Fields(r, d), k # n, k # "scope" PROVE e[k] = d[k]
  <2>1. c[k] = d[k]
    BY <1>2 DEF IsLink
  <2>2. CASE k = "intent"
    BY <2>1, <2>2 DEF IsData
  <2>3. CASE k # "intent"
    BY <2>1, <2>3 DEF IsData
  <2>4. QED
    BY <2>2, <2>3
<1>3. ASSUME NEW k \in Keys, k \notin Fields(r, d) PROVE e[k] = BlankOf(k)
  <2>1. k # "intent" /\ c[k] = BlankOf(k)
    BY <1>1, <1>3 DEF IsLink
  <2>2. QED
    BY <2>1 DEF IsData
<1>4. n # "intent" => e[n] = BlankOf(n)
  BY DEF IsLink, IsData
<1>5. n # "scope" /\ r = "county" => (e["scope"] = "county" <=> d["scope"] = "county")
  BY <1>1 DEF IsLink, IsData
<1>6. QED
  BY <1>2, <1>3, <1>4, <1>5, Zenon DEF IsChip

\* The page behind a chip is right too, and an advertisement shown here is shown there.
IsWider(r, d, n, c, e) ==
    /\ Right(r, e) /\ c.state = "" /\ e.state = "" /\ d.state = ""
    /\ n # "intent" => /\ \A ad : Matches(ad, r, d) => Matches(ad, r, e)
                       /\ r = "county" /\ e.scope = "county" => d.scope = "county"

LEMMA ChipResults ==
    ASSUME NEW r, NEW q, NEW d, NEW n \in Keys, NEW c, NEW e, q.state = "",
           IsData(r, q, d), IsLink(r, d, {n}, c), IsData(r, c, e), Right(r, d)
    PROVE  IsWider(r, d, n, c, e)
<1>0. IsChip(r, d, n, e)
  BY ChipFields, Zenon
<1>1. c["state"] = "" /\ e["state"] = "" /\ d["state"] = ""
  <2>1. "state" \in Keys /\ "state" # "intent" /\ BlankOf("state") = "" /\ "state" \notin Fields(r, d)
    BY FieldsOf, BlankValues DEF Keys
  <2>2. d["state"] = "" /\ c["state"] = ""
    BY <2>1 DEF IsData, IsLink
  <2>3. QED
    BY <2>1, <2>2 DEF IsData
<1>2. StateOf(r, d) = "first" /\ StateOf(r, e) = "first"
  BY <1>1 DEF StateOf
<1>3. \A k \in Keys : k \in Fields(r, d) /\ k # "scope" /\ k # "intent" => e[k] = d[k] \/ (k = n /\ e[k] = BlankOf(k))
  BY <1>0 DEF IsChip
<1>4. /\ e["vertical"] \in {d["vertical"], ""} /\ e["category"] \in {d["category"], ""}
      /\ e["sort"] \in {d["sort"], ""} /\ (r # "county" => e["county"] \in {d["county"], ""})
  BY <1>3, FieldsOf, BlankValues DEF Keys
<1>5. /\ e["minPrice"] \in {d["minPrice"], NoAmount} /\ e["maxPrice"] \in {d["maxPrice"], NoAmount}
  BY <1>3, FieldsOf, BlankValues DEF Keys
<1>6. e["vertical"] = "autos" => e["make"] \in {d["make"], ""}
  <2>1. e["vertical"] = "autos" => d["vertical"] = "autos"
    BY <1>4
  <2>2. QED
    BY <1>3, <2>1, FieldsOf, BlankValues DEF Keys
<1>7. n # "intent" => e["intent"] = d["intent"]
  BY <1>0, FieldsOf DEF Keys, IsChip
<1>8. e["intent"] \in {d["intent"], "wanted", ""}
  <2>1. CASE n # "intent"
    BY <1>7, <2>1
  <2>2. CASE n = "intent"
    <3>1. c["intent"] = ""
      BY <2>2, BlankValues DEF IsLink, Keys
    <3>2. QED
      BY <3>1 DEF IsData
  <2>3. QED
    BY <2>1, <2>2
<1>9. r = "county" /\ e["scope"] = "county" => d["scope"] = "county"
  <2>1. CASE n = "scope"
    BY <1>0, <2>1, BlankValues DEF Keys, IsChip
  <2>2. CASE n # "scope"
    BY <1>0, <2>2 DEF IsChip
  <2>3. QED
    BY <2>1, <2>2
<1>10. Right(r, e)
  <2>1. e.intent # "bogus"
    BY <1>8 DEF Right
  <2>2. e.category # "" /\ e.vertical # "" => e.category \in CategoriesOf(e.vertical)
    BY <1>4 DEF Right
  <2>3. r # "county" => e.county \in CountiesOf(StateOf(r, e)) \cup {""}
    BY <1>2, <1>4 DEF Right
  <2>4. e.maxPrice # BadAmount
    BY <1>5, BlankValues DEF Right
  <2>5. ~ Inverted(e)
    BY <1>5, BlankValues DEF Right, Inverted
  <2>6. QED
    BY <2>1, <2>2, <2>3, <2>4, <2>5 DEF Right
<1>11. ASSUME n # "intent", NEW ad, Matches(ad, r, d) PROVE Matches(ad, r, e)
  <2>1. ad.intent = IF e.intent = "" THEN "offer" ELSE e.intent
    BY <1>7, <1>11 DEF Matches
  <2>2. r # "county" /\ e.county # "" => ad.county = e.county
    BY <1>4, <1>11 DEF Matches
  <2>3. /\ e.vertical # "" => ad.vertical = e.vertical
        /\ e.category # "" => ad.category = e.category
        /\ e.sort = "mileage" => ad.vertical = "autos"
    BY <1>4, <1>11 DEF Matches
  <2>4. /\ e.minPrice \in Prices => ad.price >= e.minPrice
        /\ e.maxPrice \in Prices => ad.price <= e.maxPrice
    BY <1>5, <1>11, BlankValues DEF Matches
  <2>5. MatchesTyped(ad, e)
    BY <1>4, <1>6, <1>11 DEF Matches, MatchesTyped
  <2>6. QED
    BY <2>1, <2>2, <2>3, <2>4, <2>5 DEF Matches
<1>12. QED
  BY <1>1, <1>9, <1>10, <1>11, Zenon DEF IsWider

\* What the form accepts on the page behind a chip, compared with what it accepted here.
IsOneLess(n, next, after) ==
    /\ n # "intent" => after[n] = BlankOf(n)
    /\ \A other \in Keys : next[other] # BlankOf(other) /\ other # n
          => after[other] = next[other] \/ (n = "vertical" /\ other = "make")

LEMMA ChipAfter ==
    ASSUME NEW r, NEW q, NEW d, NEW n \in Keys, NEW c, NEW e, NEW next, NEW after,
           IsData(r, q, d), IsLink(r, d, {n}, c), IsData(r, c, e),
           IsLink(r, d, {}, next), IsLink(r, e, {}, after)
    PROVE  IsOneLess(n, next, after)
<1>0. IsChip(r, d, n, e)
  BY ChipFields, Zenon
<1>1. ASSUME n # "intent" PROVE after[n] = BlankOf(n)
  <2>1. e[n] = BlankOf(n)
    BY <1>0, <1>1 DEF IsChip
  <2>2. CASE n = "scope"
    <3>1. e["scope"] # "county" /\ BlankOf(n) = ""
      BY <2>1, <2>2, BlankValues DEF Keys
    <3>2. CASE "scope" \in Fields(r, e)
      <4>1. after["scope"] # "county" /\ after["scope"] \in {"", "county"}
        BY <3>1, <3>2 DEF IsLink
      <4>2. QED
        BY <2>2, <3>1, <4>1
    <3>3. CASE "scope" \notin Fields(r, e)
      BY <2>2, <3>3 DEF IsLink
    <3>4. QED
      BY <3>2, <3>3
  <2>3. CASE n # "scope"
    BY <2>1, <2>3 DEF IsLink
  <2>4. QED
    BY <2>2, <2>3
<1>2. ASSUME NEW other \in Keys, next[other] # BlankOf(other), other # n,
             ~ (n = "vertical" /\ other = "make")
      PROVE  after[other] = next[other]
  <2>1. other \in Fields(r, d)
    BY <1>2 DEF IsLink
  <2>2. CASE other = "scope"
    <3>1. r = "county" /\ next["scope"] = "county" /\ d["scope"] = "county"
      BY <1>2, <2>1, <2>2, FieldsOf, BlankValues DEF IsLink, Keys
    <3>2. e["scope"] = "county"
      BY <1>0, <1>2, <2>2, <3>1 DEF IsChip
    <3>3. after["scope"] = "county"
      BY <3>1, <3>2, FieldsOf DEF IsLink
    <3>4. QED
      BY <2>2, <3>1, <3>3
  <2>3. CASE other # "scope"
    <3>1. next[other] = d[other] /\ e[other] = d[other]
      BY <1>0, <1>2, <2>1, <2>3 DEF IsChip, IsLink
    <3>2. other \in Fields(r, e)
      <4>1. CASE other = "make"
        <5>1. d["vertical"] = "autos" /\ n # "vertical"
          BY <1>2, <2>1, <4>1, FieldsOf
        <5>2. "vertical" \in Fields(r, d) /\ "vertical" \in Keys /\ "vertical" # "scope"
          BY FieldsOf DEF Keys
        <5>3. e["vertical"] = "autos"
          BY <1>0, <5>1, <5>2 DEF IsChip
        <5>4. QED
          BY <4>1, <5>3, FieldsOf
      <4>2. CASE other # "make"
        <5>1. other \in {"intent", "vertical", "category", "minPrice", "maxPrice", "sort", "county"}
          BY <2>1, <2>3, <4>2, FieldsOf DEF Keys
        <5>2. QED
          BY <2>1, <5>1, FieldsOf
      <4>3. QED
        BY <4>1, <4>2
    <3>3. after[other] = e[other]
      BY <2>3, <3>2 DEF IsLink
    <3>4. QED
      BY <3>1, <3>3
  <2>4. QED
    BY <2>2, <2>3
<1>3. QED
  BY <1>1, <1>2, Zenon DEF IsOneLess

\* One chip of a valid page, and all that is said of it.
IsChipPage(r, q, n, c, next, after) ==
    /\ DOMAIN q = Keys /\ q.state = "" /\ Errors(r, Data(r, q)) = {}
    /\ c = QueryParameters(r, Data(r, q), {n}) /\ next = QueryParameters(r, Data(r, q), {})
    /\ after = QueryParameters(r, Data(r, c), {})

LEMMA ChipOfPage ==
    ASSUME NEW r, NEW q, NEW n \in Keys, NEW c, NEW next, NEW after, IsChipPage(r, q, n, c, next, after)
    PROVE  IsOneLess(n, next, after) /\ (n # "intent" => ResultsFor(r, q) \subseteq ResultsFor(r, c))
<1>0. /\ DOMAIN q = Keys /\ q.state = "" /\ Errors(r, Data(r, q)) = {}
      /\ c = QueryParameters(r, Data(r, q), {n}) /\ next = QueryParameters(r, Data(r, q), {})
      /\ after = QueryParameters(r, Data(r, c), {})
  BY Zenon DEF IsChipPage
<1>1. PICK d : d = Data(r, q)
  OBVIOUS
<1>2. PICK e : e = Data(r, c)
  OBVIOUS
<1>3. IsData(r, q, d)
  BY <1>0, <1>1, DataOf, Zenon
<1>4. IsLink(r, d, {n}, c) /\ IsLink(r, d, {}, next)
  <2>1. DOMAIN d = Keys
    BY <1>3, Zenon DEF IsData
  <2>2. QED
    BY <1>0, <1>1, <2>1, LinkOf, Zenon
<1>5. IsData(r, c, e)
  <2>1. DOMAIN c = Keys
    BY <1>4, Zenon DEF IsLink
  <2>2. QED
    BY <1>2, <2>1, DataOf, Zenon
<1>6. Right(r, d)
  BY <1>0, <1>1, NoErrors, Zenon
<1>6a. IsWider(r, d, n, c, e)
  BY <1>0, <1>3, <1>4, <1>5, <1>6, ChipResults, Zenon
<1>7. /\ Right(r, e) /\ c.state = "" /\ e.state = "" /\ d.state = ""
      /\ n # "intent" => /\ \A ad : Matches(ad, r, d) => Matches(ad, r, e)
                         /\ r = "county" /\ e.scope = "county" => d.scope = "county"
  BY <1>6a, Zenon DEF IsWider
<1>8. Errors(r, e) = {} /\ Errors(r, d) = {}
  BY <1>6, <1>7, NoErrors, Zenon
<1>9. IsLink(r, e, {}, after)
  <2>1. DOMAIN e = Keys
    BY <1>5, Zenon DEF IsData
  <2>2. QED
    BY <1>0, <1>2, <1>8, <2>1, LinkOf, Zenon
<1>10. IsOneLess(n, next, after)
  BY <1>3, <1>4, <1>5, <1>9, ChipAfter, Zenon
<1>11. ASSUME n # "intent" PROVE ResultsFor(r, q) \subseteq ResultsFor(r, c)
  <2>1. StateOf(r, q) = "first" /\ StateOf(r, c) = "first"
    BY <1>0, <1>7, Zenon DEF StateOf
  <2>2. ResultsFor(r, q) = {ad \in {a \in Ads : a.state = StateOf(r, q)} :
                               /\ Matches(ad, r, d)
                               /\ r = "county" /\ d.scope = "county" => ad.county = "home" \/ ad.alsoHome}
    BY <1>1, <1>8, Zenon DEF ResultsFor
  <2>3. ResultsFor(r, c) = {ad \in {a \in Ads : a.state = StateOf(r, c)} :
                               /\ Matches(ad, r, e)
                               /\ r = "county" /\ e.scope = "county" => ad.county = "home" \/ ad.alsoHome}
    BY <1>2, <1>8, Zenon DEF ResultsFor
  <2>4. QED
    BY <1>7, <1>11, <2>1, <2>2, <2>3, Zenon
<1>12. QED
  BY <1>10, <1>11, Zenon

\* A chip takes its own filter away and no other, and shows more (locations/views.py and
\* forms.py, active filters), for any query that a visit can reach.
THEOREM ChipsRemoveOne == BrowseSpec => []ChipRemovesOne
<1>1. DirectoryInv => ChipRemovesOne
  <2> SUFFICES ASSUME DirectoryInv, Valid, query.state = "", NEW n \in Chips
               PROVE  LET after == QueryParameters(route, Data(route, ChipQuery(n)), {}) IN
                      /\ n # "intent" =>
                            /\ after[n] = BlankOf(n)
                            /\ ResultsFor(route, query) \subseteq ResultsFor(route, ChipQuery(n))
                      /\ \A other \in Chips \ {n} :
                            after[other] = NextPageQuery[other] \/ (n = "vertical" /\ other = "make")
    BY Zenon DEF ChipRemovesOne
  <2>1. DOMAIN query = Keys /\ Errors(route, Data(route, query)) = {}
    BY Zenon DEF DirectoryInv, Valid, Shown
  <2>2. \A k \in Chips : k \in Keys /\ NextPageQuery[k] # BlankOf(k)
    BY <2>1, Zenon DEF Chips
  <2>3. ChipQuery(n) = QueryParameters(route, Data(route, query), {n})
        /\ NextPageQuery = QueryParameters(route, Data(route, query), {})
    BY Zenon DEF ChipQuery, NextPageQuery, Shown
  <2> DEFINE after == QueryParameters(route, Data(route, ChipQuery(n)), {})
  <2>4. IsOneLess(n, NextPageQuery, after)
        /\ (n # "intent" => ResultsFor(route, query) \subseteq ResultsFor(route, ChipQuery(n)))
    <3>1. n \in Keys
      BY <2>2, Zenon
    <3>2. PICK q : q = query
      OBVIOUS
    <3>3. PICK c : c = ChipQuery(n)
      OBVIOUS
    <3>4. PICK next : next = NextPageQuery
      OBVIOUS
    <3>5. PICK last : last = QueryParameters(route, Data(route, c), {})
      OBVIOUS
    <3>6. IsChipPage(route, q, n, c, next, last)
      BY <2>1, <2>3, <3>2, <3>3, <3>4, <3>5, Zenon DEF IsChipPage
    <3>7. IsOneLess(n, next, last) /\ (n # "intent" => ResultsFor(route, q) \subseteq ResultsFor(route, c))
      BY <3>1, <3>6, ChipOfPage, Zenon
    <3>8. QED
      BY <3>2, <3>3, <3>4, <3>5, <3>7, Zenon
  <2>5. QED
    BY <2>2, <2>4, Zenon DEF IsOneLess
<1>2. QED
  BY <1>1, DirectoryInvariant, PTL

\* Types: a link holds values that could have been typed, or blanks.
IsTyped(e) ==
    /\ e.intent \in {"", "wanted", "bogus"} /\ e.scope \in {"", "county", "bogus"}
    /\ e.vertical \in Verticals \cup {""} /\ e.category \in Categories \cup {""}
    /\ e.county \in Counties \cup {""} /\ e.minPrice \in Prices \cup {NoAmount}
    /\ e.maxPrice \in Prices \cup {NoAmount, BadAmount} /\ e.make \in Makes \cup {""}
    /\ e.sort \in {"", "mileage"} /\ e.state \in {"", "second"}

LEMMA QueryParts ==
    ASSUME NEW q \in Queries
    PROVE  DOMAIN q = Keys /\ IsTyped(q)
<1>1. DOMAIN q = Keys
  BY DEF Queries, QueriesOf, Keys
<1>2. IsTyped(q)
  BY DEF Queries, QueriesOf, IsTyped
<1>3. QED
  BY <1>1, <1>2

LEMMA QueryFromParts ==
    ASSUME NEW e, e = [n \in Keys |-> e[n]], IsTyped(e)
    PROVE  e \in Queries
<1>1. e = [intent |-> e.intent, scope |-> e.scope, vertical |-> e.vertical, category |-> e.category,
           county |-> e.county, minPrice |-> e.minPrice, maxPrice |-> e.maxPrice, make |-> e.make,
           sort |-> e.sort, state |-> e.state]
  BY DEF Keys
<1>2. QED
  BY <1>1 DEF Queries, QueriesOf, IsTyped

\* A link of a query keeps some of its values and leaves the rest out.
LEMMA LinkType ==
    ASSUME NEW q \in Queries, NEW kept, NEW e, e = [n \in DOMAIN q |-> IF n \in kept THEN q[n] ELSE BlankOf(n)]
    PROVE  e \in Queries
<1>1. DOMAIN q = Keys
  BY QueryParts
<1>2. /\ q.intent \in {"", "wanted", "bogus"} /\ q.scope \in {"", "county", "bogus"}
      /\ q.vertical \in Verticals \cup {""} /\ q.category \in Categories \cup {""}
      /\ q.county \in Counties \cup {""} /\ q.minPrice \in Prices \cup {NoAmount}
      /\ q.maxPrice \in Prices \cup {NoAmount, BadAmount} /\ q.make \in Makes \cup {""}
      /\ q.sort \in {"", "mileage"} /\ q.state \in {"", "second"}
  BY QueryParts DEF IsTyped
<1>3. \A n \in Keys : e[n] \in {q[n], BlankOf(n)}
  BY <1>1
<1>4. /\ e.intent \in {"", "wanted", "bogus"} /\ e.scope \in {"", "county", "bogus"}
      /\ e.vertical \in Verticals \cup {""} /\ e.category \in Categories \cup {""}
      /\ e.county \in Counties \cup {""} /\ e.minPrice \in Prices \cup {NoAmount}
      /\ e.maxPrice \in Prices \cup {NoAmount, BadAmount} /\ e.make \in Makes \cup {""}
      /\ e.sort \in {"", "mileage"} /\ e.state \in {"", "second"}
  BY <1>2, <1>3 DEF Keys, BlankOf
<1>5. e = [n \in Keys |-> e[n]]
  BY <1>1
<1>6. QED
  BY <1>4, <1>5, QueryFromParts DEF IsTyped

LEMMA DataType ==
    ASSUME NEW r, NEW q \in Queries
    PROVE  Data(r, q) \in Queries
<1>1. CASE r \in {"wanted", "wanted in state"}
  <2>1. PICK e : e = [q EXCEPT !.intent = "wanted"]
    OBVIOUS
  <2>2. DOMAIN q = Keys /\ IsTyped(q)
    BY QueryParts
  <2>3. e = [n \in Keys |-> e[n]]
    BY <2>1, <2>2
  <2>4. e["intent"] = "wanted" /\ \A n \in Keys : n # "intent" => e[n] = q[n]
    BY <2>1, <2>2 DEF Keys
  <2>5. IsTyped(e)
    BY <2>2, <2>4 DEF IsTyped, Keys
  <2>6. QED
    BY <1>1, <2>1, <2>3, <2>5, QueryFromParts DEF Data
<1>2. CASE r \notin {"wanted", "wanted in state"}
  BY <1>2 DEF Data
<1>3. QED
  BY <1>1, <1>2

LEMMA BrowseTypeInit == BrowseInit => BrowseTypeOK
<1>1. ASSUME NEW scopes \in SUBSET {"", "county", "bogus"}, NEW counties \in SUBSET (Counties \cup {""}),
             NEW states \in SUBSET {"", "second"}
      PROVE  QueriesOf(scopes, counties, states) \subseteq Queries
  BY DEF Queries, QueriesOf
<1>2. QED
  BY <1>1 DEF BrowseInit, StateContext, CountyContext, InSearchOf, BrowseTypeOK

LEMMA BrowseTypeStep ==
    ASSUME BrowseTypeOK, [BrowseNext]_browseVars
    PROVE  BrowseTypeOK'
<1>1. PICK q \in Queries : q = Shown
  BY DataType DEF Shown, BrowseTypeOK
<1>2. ASSUME NEW left PROVE QueryParameters(route, Shown, left) \in Queries
  <2> DEFINE kept == {n \in DOMAIN q : /\ n \in Fields(route, q) \ (Errors(route, q) \cup left)
                                       /\ n = "scope" => q.scope = "county"}
  <2>1. QueryParameters(route, q, left) = [n \in DOMAIN q |-> IF n \in kept THEN q[n] ELSE BlankOf(n)]
    BY Zenon DEF QueryParameters
  <2> HIDE DEF kept
  <2>2. QED
    BY <1>1, <2>1, LinkType
<1>3. Blank \in Queries
  <2>1. PICK none : none = {}
    OBVIOUS
  <2>2. Blank = [n \in DOMAIN query |-> IF n \in none THEN query[n] ELSE BlankOf(n)]
    BY <2>1, Zenon DEF Blank
  <2>3. QED
    BY <2>2, LinkType DEF BrowseTypeOK
<1>4. QED
  BY <1>2, <1>3 DEF BrowseTypeOK, BrowseNext, TurnPage, RemoveChip, ResetFilters, ClearFilters, Follow,
       NextPageQuery, ChipQuery, ResetQuery, browseVars

-----------------------------------------------------------------------------
\* The counties of the listing form.

LoadType == [state : States, zip : ZipCodes \cup {Unset}, read : BOOLEAN,
             primary : AllCounties \cup {Unset}, nearby : SUBSET AllCounties]

\* The controls, as far as the argument needs them.
PickerTypes ==
    /\ state \in States \cup {Unset} /\ zip \in ZipCodes \cup {Unset}
    /\ primary \in AllCounties \cup {Unset} /\ nearby \subseteq AllCounties
    /\ nearbyOptions \subseteq AllCounties /\ options \subseteq AllCounties
    /\ loads \subseteq LoadType

\* What an abort leaves: one load, for the state chosen and, unless the code is being
\* typed, for the code of the form.
OneLoad ==
    /\ \A q, r \in loads : q = r
    /\ \A r \in loads : r.state = state /\ (r.zip = zip \/ zipTyped)

\* Nothing is both the primary county and a nearby one, on the form and in what a load
\* has read of it.
Distinct ==
    /\ primary # Unset => primary \notin nearby
    /\ \A r \in loads : r.primary # Unset => r.primary \notin r.nearby

\* Before a state is chosen there is nothing to choose from.
Unchosen == state = Unset => options = {} /\ primary = Unset

\* With nothing awaited, the marks are those of the state and the code on the form.
MarksCurrent ==
    loads = {} /\ ~ outdated /\ ~ zipTyped /\ state # Unset => marks = CountiesAnswer(state, zip)

PickerInv == PickerTypes /\ OneLoad /\ Distinct /\ Unchosen /\ MarksCurrent

\* Counties, states and the unset value are told apart.
LEMMA UnsetIsNone == Unset \notin AllCounties /\ Unset \notin States /\ OffersOf(Unset) = {}
BY CountyPickerAssumption DEF AllCounties, States, OffersOf

LEMMA OffersAreCounties == \A s \in States : OffersOf(s) \subseteq AllCounties
BY UnsetIsNone DEF OffersOf, AllCounties, States

\* A load begins with nothing read.
LEMMA NewLoad ==
    ASSUME NEW s \in States, NEW z \in ZipCodes \cup {Unset}
    PROVE  /\ LoadOf(s, z) \in LoadType
           /\ LoadOf(s, z).state = s /\ LoadOf(s, z).zip = z /\ LoadOf(s, z).primary = Unset
BY DEF LoadOf, LoadType

\* The controls of a page the server has rendered are consistent.
LEMMA PickerInitially == PickerInit => PickerInv
<1> SUFFICES ASSUME PickerInit PROVE PickerInv
  OBVIOUS
<1>1. CASE state = Unset
  <2>1. options = {} /\ loads = {} /\ primary = Unset /\ nearby = {} /\ nearbyOptions = {} /\ zip = Unset
    BY <1>1, UnsetIsNone DEF PickerInit, FirstLoad
  <2>2. QED
    BY <1>1, <2>1, UnsetIsNone DEF PickerInv, PickerTypes, OneLoad, Distinct, Unchosen, MarksCurrent
<1>2. CASE state # Unset
  <2>1. state \in States /\ zip \in ZipCodes /\ loads = {LoadOf(state, zip)}
    BY <1>2 DEF PickerInit, FirstLoad
  <2>2. Placeable(state, zip, primary, nearby) /\ options \subseteq AllCounties
    BY <1>2, <2>1, OffersAreCounties DEF PickerInit
  <2>3. PickerTypes
    BY <1>2, <2>1, <2>2, NewLoad DEF PickerInit, PickerTypes
  <2>4. primary \notin nearby
    BY <2>2 DEF Placeable
  <2>5. QED
    BY <1>2, <2>1, <2>3, <2>4, NewLoad DEF PickerInv, OneLoad, Distinct, Unchosen, MarksCurrent
<1>3. QED
  BY <1>1, <1>2

\* A load that begins takes the place of those under way.
LEMMA LoadingKeeps ==
    ASSUME PickerInv,
           NEW s \in States, state' = s, zip' = zip, StartLoad(s, zip),
           primary' \in AllCounties \cup {Unset}, nearby' \subseteq AllCounties,
           nearbyOptions' \subseteq AllCounties, options' \subseteq AllCounties,
           primary' # Unset => primary' \notin nearby'
    PROVE  PickerInv'
<1>1. loads' = {LoadOf(s, zip)}
  BY DEF StartLoad, LoadsAborted
<1>2. s # Unset /\ zip \in ZipCodes \cup {Unset}
  BY UnsetIsNone DEF PickerInv, PickerTypes
<1>3. PickerTypes'
  BY <1>1, <1>2, NewLoad DEF PickerTypes
<1>4. QED
  BY <1>1, <1>2, <1>3, NewLoad DEF PickerInv, OneLoad, Distinct, Unchosen, MarksCurrent

\* The seller changes the state or the code.
LEMMA PlaceKeeps ==
    ASSUME PickerInv, ZipChanges \/ (\E s \in States : ChooseState(s)) \/ (\E z \in ZipCodes \cup {Unset} : TypeZip(z))
    PROVE  PickerInv'
<1>1. CASE ZipChanges
  <2>1. CASE state = Unset
    <3>1. loads = {}
      BY <2>1, UnsetIsNone DEF PickerInv, PickerTypes, OneLoad, LoadType
    <3>2. QED
      BY <1>1, <2>1, <3>1 DEF ZipChanges, selectVars, PickerInv, PickerTypes, OneLoad, Distinct, Unchosen, MarksCurrent
  <2>2. CASE state # Unset
    <3>1. state \in States /\ StartLoad(state, zip)
      BY <1>1, <2>2 DEF ZipChanges, PickerInv, PickerTypes
    <3>2. QED
      BY <1>1, <3>1, LoadingKeeps DEF ZipChanges, selectVars, PickerInv, PickerTypes, Distinct
  <2>3. QED
    BY <2>1, <2>2
<1>2. ASSUME NEW s \in States, ChooseState(s) PROVE PickerInv'
  BY <1>2, LoadingKeeps DEF ChooseState, PickerInv, PickerTypes
<1>3. ASSUME NEW z \in ZipCodes \cup {Unset}, TypeZip(z) PROVE PickerInv'
  BY <1>3 DEF TypeZip, selectVars, PickerInv, PickerTypes, OneLoad, Distinct, Unchosen, MarksCurrent
<1>4. QED
  BY <1>1, <1>2, <1>3

\* The seller chooses counties, or searches for them.
LEMMA ChoosingKeeps ==
    ASSUME PickerInv,
           \/ TypeCounty \/ \E b \in Boxes : Search(b)
           \/ \E c \in AllCounties : SelectCounty(c) \/ SelectAdditionalCounty(c) \/ RemoveTag(c)
    PROVE  PickerInv'
<1> USE DEF PickerInv, PickerTypes, OneLoad, Distinct, Unchosen, MarksCurrent
<1>1. CASE TypeCounty
  BY <1>1 DEF TypeCounty, placeVars
<1>2. ASSUME NEW b \in Boxes, Search(b) PROVE PickerInv'
  BY <1>2 DEF Search, placeVars, selectVars
<1>3. ASSUME NEW c \in AllCounties, SelectCounty(c) PROVE PickerInv'
  BY <1>3 DEF SelectCounty, Offered, NearbyBeside, placeVars
<1>4. ASSUME NEW c \in AllCounties, SelectAdditionalCounty(c) PROVE PickerInv'
  BY <1>4 DEF SelectAdditionalCounty, placeVars
<1>5. ASSUME NEW c \in AllCounties, RemoveTag(c) PROVE PickerInv'
  BY <1>5 DEF RemoveTag, placeVars
<1>6. QED
  BY <1>1, <1>2, <1>3, <1>4, <1>5

\* An answer comes, in two parts, or does not.
LEMMA AnswersKeep ==
    ASSUME PickerInv, NEW r \in loads, LoadAnswered(r) \/ LoadRead(r) \/ LoadFails(r)
    PROVE  PickerInv'
<1>0. r \in LoadType /\ loads = {r} /\ r.state = state /\ state \in States
  BY DEF PickerInv, PickerTypes, OneLoad, LoadType
<1>1. CASE LoadAnswered(r)
  <2> DEFINE q == [r EXCEPT !.read = TRUE, !.primary = primary, !.nearby = nearby]
  <2>1. loads' = {q}
    BY <1>0, <1>1 DEF LoadAnswered
  <2>2. q \in LoadType /\ q.state = r.state /\ q.zip = r.zip /\ q.primary = primary /\ q.nearby = nearby
    BY <1>0 DEF LoadType, PickerInv, PickerTypes
  <2> HIDE DEF q
  <2>3. QED
    BY <1>0, <1>1, <2>1, <2>2 DEF LoadAnswered, placeVars, selectVars, PickerInv, PickerTypes, OneLoad, Distinct, Unchosen, MarksCurrent
<1>2. CASE LoadRead(r)
  <2>1. loads' = {} /\ state' = state /\ zip' = zip /\ zipTyped' = zipTyped
    BY <1>0, <1>2 DEF LoadRead, placeVars
  <2>2. options' \subseteq AllCounties /\ nearbyOptions' \subseteq AllCounties
    BY <1>0, <1>2, OffersAreCounties DEF LoadRead
  <2>3. primary' \in AllCounties \cup {Unset} /\ nearby' \subseteq AllCounties
    BY <1>2, <2>2 DEF LoadRead, Offered
  <2>4. primary' # Unset => primary' \notin nearby'
    BY <1>2 DEF LoadRead, Offered, PickerInv, Distinct
  <2>5. ~ zipTyped => marks' = CountiesAnswer(state, zip)
    BY <1>0, <1>2 DEF LoadRead, PickerInv, OneLoad
  <2>6. QED
    BY <1>0, <2>1, <2>2, <2>3, <2>4, <2>5, UnsetIsNone DEF PickerInv, PickerTypes, OneLoad, Distinct, Unchosen, MarksCurrent
<1>3. CASE LoadFails(r)
  BY <1>0, <1>3 DEF LoadFails, placeVars, selectVars, PickerInv, PickerTypes, OneLoad, Distinct, Unchosen, MarksCurrent
<1>4. QED
  BY <1>1, <1>2, <1>3

\* The form comes back from the server.
LEMMA PostKeeps ==
    ASSUME PickerInv, Post
    PROVE  PickerInv'
<1>1. primary' \in options' \cup {Unset} /\ nearby' = nearby \cap options' /\ (primary' # Unset => primary' = primary)
  BY DEF Post, Offered
<1>2. CASE state = Unset
  <2>1. options' = {} /\ loads' = {} /\ nearbyOptions' = {} /\ primary' = Unset /\ nearby' = {}
    BY <1>1, <1>2, UnsetIsNone DEF Post, FirstLoad, PickerInv, Unchosen
  <2>2. QED
    BY <1>2, <2>1 DEF Post, PickerInv, PickerTypes, OneLoad, Distinct, Unchosen, MarksCurrent
<1>3. CASE state # Unset
  <2>1. state \in States /\ loads' = {LoadOf(state, zip)}
    BY <1>3 DEF Post, FirstLoad, PickerInv, PickerTypes
  <2>2. options' \subseteq AllCounties /\ nearbyOptions' \subseteq AllCounties
    BY <2>1, OffersAreCounties DEF Post
  <2>3. PickerTypes'
    BY <1>1, <2>1, <2>2, NewLoad DEF Post, PickerInv, PickerTypes
  <2>4. QED
    BY <1>1, <1>3, <2>1, <2>3, NewLoad DEF Post, PickerInv, PickerTypes, OneLoad, Distinct, Unchosen, MarksCurrent
<1>4. QED
  BY <1>2, <1>3

LEMMA PickerStep ==
    ASSUME PickerInv, [PickerNext]_pickerVars
    PROVE  PickerInv'
<1>1. CASE UNCHANGED pickerVars
  BY <1>1 DEF pickerVars, placeVars, selectVars, PickerInv, PickerTypes, OneLoad, Distinct, Unchosen, MarksCurrent
<1>2. CASE PickerNext
  BY <1>2, PlaceKeeps, ChoosingKeeps, AnswersKeep, PostKeeps DEF PickerNext
<1>3. QED
  BY <1>1, <1>2

\* The inductive invariant: an abort leaves one load at most, for what the form says now,
\* so that the marks of a form that awaits nothing are those of its state and code.
THEOREM PickerInvariant == PickerSpec => []PickerInv
BY PickerInitially, PickerStep, PTL DEF PickerSpec

\* Types: the selects have selected only what they offer, and the marks and the results are
\* of counties.
ControlsTyped ==
    /\ zipTyped \in BOOLEAN /\ outdated \in BOOLEAN
    /\ primary \in options \cup {Unset} /\ nearby \subseteq nearbyOptions
    /\ DOMAIN marks \subseteq AllCounties /\ \A c \in DOMAIN marks : marks[c] \in BOOLEAN
    /\ found \in [Boxes -> SUBSET AllCounties]

FormInv == PickerInv /\ ControlsTyped

LEMMA FormInvInit == PickerInit => FormInv
<1> SUFFICES ASSUME PickerInit PROVE FormInv
  OBVIOUS
<1>1. found \in [Boxes -> SUBSET AllCounties]
  BY DEF PickerInit, NothingFound
<1>2. marks = <<>> /\ DOMAIN marks = {}
  BY DEF PickerInit
<1>3. primary \in options \cup {Unset} /\ nearby \subseteq nearbyOptions
  BY DEF PickerInit
<1>4. QED
  BY <1>1, <1>2, <1>3, PickerInitially DEF PickerInit, FormInv, ControlsTyped

\* The marks of an answer.
LEMMA AnswerTyped ==
    ASSUME NEW s \in States, NEW z, NEW m, m = CountiesAnswer(s, z)
    PROVE  DOMAIN m \subseteq AllCounties /\ \A c \in DOMAIN m : m[c] \in BOOLEAN
BY OffersAreCounties DEF CountiesAnswer

LEMMA ControlsStep ==
    ASSUME FormInv, [PickerNext]_pickerVars
    PROVE  ControlsTyped'
<1> USE DEF FormInv, ControlsTyped, placeVars, selectVars
<1>1. CASE ZipChanges
  BY <1>1 DEF ZipChanges, StartLoad
<1>2. CASE TypeCounty
  BY <1>2 DEF TypeCounty
<1>3. CASE Post
  <2>1. found' \in [Boxes -> SUBSET AllCounties]
    BY <1>3 DEF Post, NothingFound
  <2>2. marks' = <<>> /\ DOMAIN marks' = {}
    BY <1>3 DEF Post
  <2>3. QED
    BY <1>3, <2>1, <2>2 DEF Post, Offered
<1>4. ASSUME NEW s \in States, ChooseState(s) PROVE ControlsTyped'
  BY <1>4 DEF ChooseState, StartLoad
<1>5. ASSUME NEW z, TypeZip(z) PROVE ControlsTyped'
  BY <1>5 DEF TypeZip
<1>6. ASSUME NEW q \in loads, LoadAnswered(q) \/ LoadRead(q) \/ LoadFails(q) PROVE ControlsTyped'
  <2>1. CASE LoadAnswered(q)
    BY <2>1 DEF LoadAnswered
  <2>2. CASE LoadRead(q)
    <3>1. q.state \in States
      BY DEF PickerInv, PickerTypes, LoadType
    <3>2. DOMAIN marks' \subseteq AllCounties /\ \A c \in DOMAIN marks' : marks'[c] \in BOOLEAN
      BY <2>2, <3>1, AnswerTyped DEF LoadRead
    <3>3. QED
      BY <2>2, <3>2 DEF LoadRead, Offered
  <2>3. CASE LoadFails(q)
    BY <2>3 DEF LoadFails
  <2>4. QED
    BY <1>6, <2>1, <2>2, <2>3
<1>7. ASSUME NEW b \in Boxes, Search(b) PROVE ControlsTyped'
  <2>1. state \in States
    BY <1>7 DEF Search, PickerInv, PickerTypes
  <2>2. QED
    BY <1>7, <2>1, OffersAreCounties DEF Search
<1>8. ASSUME NEW c \in AllCounties, SelectCounty(c) \/ SelectAdditionalCounty(c) \/ RemoveTag(c) PROVE ControlsTyped'
  BY <1>8 DEF SelectCounty, SelectAdditionalCounty, RemoveTag, Offered, NearbyBeside
<1>9. CASE UNCHANGED pickerVars
  BY <1>9 DEF pickerVars
<1>10. QED
  BY <1>1, <1>2, <1>3, <1>4, <1>5, <1>6, <1>7, <1>8, <1>9 DEF PickerNext

LEMMA FormInvStep == ASSUME FormInv, [PickerNext]_pickerVars PROVE FormInv'
BY PickerStep, ControlsStep DEF FormInv

LEMMA FormInvTypes == ASSUME FormInv PROVE PickerTypeOK
<1>1. Cardinality(loads) <= 1
  <2>1. CASE loads = {}
    BY <2>1, FS_EmptySet
  <2>2. ASSUME NEW q \in loads PROVE Cardinality(loads) = 1
    <3>1. loads = {q}
      BY DEF FormInv, PickerInv, OneLoad
    <3>2. QED
      BY <3>1, FS_Singleton
  <2>3. QED
    BY <2>1, <2>2
<1>2. QED
  BY <1>1 DEF FormInv, ControlsTyped, PickerInv, PickerTypes, OneLoad, PickerTypeOK

\* The clean method accepts every form the script has marked as verified, whatever was
\* typed, chosen and answered before, and in whatever order.
THEOREM VerifiedFormsAreAccepted == PickerSpec => []VerifiedIsAccepted
<1>1. PickerInv => VerifiedIsAccepted
  <2> SUFFICES ASSUME PickerInv, loads = {}, ~ outdated, ~ zipTyped, primary # Unset,
                      \A c \in nearby \cup {primary} : SaysVerified(c)
               PROVE  Placeable(state, zip, primary, nearby)
    BY DEF VerifiedIsAccepted
  <2>1. state # Unset /\ marks = CountiesAnswer(state, zip)
    BY DEF PickerInv, Unchosen, MarksCurrent
  <2>2. \A c \in nearby \cup {primary} : c \in Candidates(zip, state)
    BY <2>1 DEF SaysVerified, CountiesAnswer
  <2>3. zip # Unset
    BY DEF SaysVerified
  <2>4. QED
    BY <2>1, <2>2, <2>3 DEF Placeable, PickerInv, Distinct
<1>2. QED
  BY <1>1, PickerInvariant, PTL

-----------------------------------------------------------------------------
\* The search forms.

Fetches == [url : Url, number : 1 .. MaxRequests, aborted : BOOLEAN]

SearchTypes ==
    /\ LiveTypeOK
    /\ requests \in [SearchForms -> SUBSET Fetches]
    /\ controller \in [SearchForms -> 0 .. MaxRequests]
    /\ answers \in [SearchForms -> Nat]
    /\ lastUrl \in [SearchForms -> Url \cup {NoUrl}] /\ region \in [SearchForms -> Url \cup {NoUrl}]
    /\ told \in [SearchForms -> {"", "loading"}]

\* Of the fetches of a form, only the one that the controller would abort is not aborted
\* yet, its answer is newer than what the region shows, and it is announced.
Awaiting(f) ==
    /\ \A r \in requests[f] : ~ r.aborted => r.number = controller[f] /\ answers[f] < r.number
    /\ \A r, s \in requests[f] : ~ r.aborted /\ ~ s.aborted => r = s
    /\ told[f] = "loading" <=> \E r \in requests[f] : ~ r.aborted

SearchInv == SearchTypes /\ \A f \in SearchForms : Awaiting(f)

LEMMA OfBothForms ==
    ASSUME NEW S, NEW a \in S, NEW b \in S
    PROVE  [market |-> a, browse |-> b] \in [SearchForms -> S]
<1>1. [market |-> a, browse |-> b] = [f \in SearchForms |-> IF f = "market" THEN a ELSE b]
  BY DEF SearchForms
<1>2. QED
  BY <1>1

LEMMA UrlAsked ==
    ASSUME SearchTypes, NEW f \in SearchForms, NEW i \in Intents \cup {"offer"}
    PROVE  FormUrl(f, i) \in Url
<1>1. FormAction(f) \in Url
  BY DEF FormAction, Finder, NoUrl, Url, SearchTypes, LiveTypeOK
<1>2. typed[f] \in Words \cup {""}
  BY DEF SearchTypes, LiveTypeOK
<1>3. QED
  BY <1>1, <1>2 DEF FormUrl, Url

LEMMA NumbersOf ==
    ASSUME SearchTypes, NEW f \in SearchForms
    PROVE  /\ MaxRequests \in Nat /\ controller[f] \in Nat /\ controller[f] <= MaxRequests
           /\ answers[f] \in Nat /\ answers[f] <= controller[f]
<1>1. MaxRequests \in Nat
  BY LiveSearchAssumption
<1>2. answers[f] \in 0 .. controller[f] /\ controller[f] \in 0 .. MaxRequests
  BY DEF SearchTypes, LiveTypeOK
<1>3. QED
  BY <1>1, <1>2

\* The asking half of an update: what was awaited is aborted, and nothing else is.
LEMMA AskStep ==
    ASSUME SearchInv, NEW f \in SearchForms, NEW i \in Intents \cup {"offer"}, Update(f, i),
           UNCHANGED <<lastUrl, region, answers>>
    PROVE  /\ requests' \in [SearchForms -> SUBSET Fetches]
           /\ controller' \in [SearchForms -> 0 .. MaxRequests]
           /\ told' \in [SearchForms -> {"", "loading"}]
           /\ \A g \in SearchForms : controller'[g] >= controller[g] /\ Awaiting(g)'
<1> DEFINE url == FormUrl(f, i)
<1>0. /\ requests \in [SearchForms -> SUBSET Fetches] /\ controller \in [SearchForms -> 0 .. MaxRequests]
      /\ told \in [SearchForms -> {"", "loading"}] /\ answers \in [SearchForms -> Nat]
      /\ answers[f] <= controller[f] /\ MaxRequests \in Nat
  <2>1. answers[f] \in 0 .. controller[f] /\ controller[f] \in 0 .. MaxRequests
    BY DEF SearchInv, SearchTypes, LiveTypeOK
  <2>2. MaxRequests \in Nat
    BY LiveSearchAssumption
  <2>3. answers[f] <= controller[f]
    BY <2>1, <2>2
  <2>4. QED
    BY <2>2, <2>3 DEF SearchInv, SearchTypes
<1>1. CASE UNCHANGED <<requests, controller, told>>
  <2>1. \A g \in SearchForms : controller[g] \in Nat
    BY NumbersOf DEF SearchInv
  <2>2. \A g \in SearchForms : controller'[g] >= controller[g]
    BY <1>1, <2>1
  <2>3. \A g \in SearchForms : Awaiting(g)'
    BY <1>1 DEF SearchInv, Awaiting
  <2>4. QED
    BY <1>0, <1>1, <2>2, <2>3
<1>2. CASE ~ UNCHANGED <<requests, controller, told>>
  <2> DEFINE new == [url |-> url, number |-> controller[f] + 1, aborted |-> FALSE]
  <2>1. /\ controller[f] < MaxRequests
        /\ requests' = [requests EXCEPT ![f] = Aborted(f) \cup {new}]
        /\ controller' = [controller EXCEPT ![f] = @ + 1]
        /\ told' = [told EXCEPT ![f] = "loading"]
    BY <1>2 DEF Update
  <2>2. controller[f] + 1 \in 1 .. MaxRequests /\ new \in Fetches
    <3>1. controller[f] + 1 \in 1 .. MaxRequests
      BY <2>1, NumbersOf DEF SearchInv
    <3>2. url \in Url
      BY UrlAsked DEF SearchInv
    <3>3. QED
      BY <3>1, <3>2, Zenon DEF Fetches
  <2>3. \A a \in Aborted(f) : a \in Fetches /\ a.aborted = TRUE
    <3>1. ASSUME NEW a \in Aborted(f) PROVE a \in Fetches /\ a.aborted = TRUE
      <4>1. PICK r \in requests[f] : a = [r EXCEPT !.aborted = @ \/ r.number = controller[f]]
        BY Zenon DEF Aborted
      <4>2. r \in Fetches /\ (r.aborted \/ r.number = controller[f]) = TRUE
        BY <1>0 DEF SearchInv, Awaiting
      <4>3. a = [r EXCEPT !.aborted = TRUE]
        BY <4>1, <4>2, Zenon
      <4>4. QED
        BY <4>2, <4>3 DEF Fetches
    <3>2. QED
      BY <3>1
  <2>4. requests' \in [SearchForms -> SUBSET Fetches]
    BY <1>0, <2>1, <2>2, <2>3
  <2>5. controller' \in [SearchForms -> 0 .. MaxRequests] /\ told' \in [SearchForms -> {"", "loading"}]
        /\ \A g \in SearchForms : controller'[g] >= controller[g]
    <3>1. controller' \in [SearchForms -> 0 .. MaxRequests]
      <4>1. controller[f] + 1 \in 0 .. MaxRequests
        BY <2>1, NumbersOf DEF SearchInv
      <4>2. QED
        BY <2>1, <4>1 DEF SearchInv, SearchTypes
    <3>2. \A g \in SearchForms : controller[g] \in Nat /\ controller'[g] = IF g = f THEN controller[g] + 1 ELSE controller[g]
      <4>1. controller' = [controller EXCEPT ![f] = controller[f] + 1] /\ DOMAIN controller = SearchForms
        BY <2>1 DEF SearchInv, SearchTypes
      <4>2. QED
        BY <4>1, NumbersOf DEF SearchInv
    <3>3. \A g \in SearchForms : controller'[g] >= controller[g]
      BY <3>2
    <3>4. told' \in [SearchForms -> {"", "loading"}]
      BY <1>0, <2>1
    <3>5. QED
      BY <3>1, <3>3, <3>4
  <2>6. ASSUME NEW g \in SearchForms PROVE Awaiting(g)'
    <3>1. CASE g = f
      <4>1. requests'[g] = Aborted(f) \cup {new} /\ controller'[g] = controller[f] + 1
            /\ told'[g] = "loading" /\ answers'[g] = answers[f] /\ ~ new.aborted /\ new.number = controller[f] + 1
        BY <1>0, <2>1, <3>1
      <4> HIDE DEF new
      <4>2. \A r \in requests'[g] : ~ r.aborted => r = new
        BY <2>3, <4>1
      <4>3. answers[f] < controller[f] + 1
        BY NumbersOf DEF SearchInv
      <4>4. QED
        BY <4>1, <4>2, <4>3 DEF Awaiting
    <3>2. CASE g # f
      <4>1. requests'[g] = requests[g] /\ controller'[g] = controller[g] /\ told'[g] = told[g]
            /\ answers'[g] = answers[g]
        BY <1>0, <2>1, <3>2
      <4>2. QED
        BY <4>1 DEF SearchInv, Awaiting
    <3>3. QED
      BY <3>1, <3>2
  <2>7. QED
    BY <2>4, <2>5, <2>6
<1>3. QED
  BY <1>1, <1>2

\* The answering half: the fetch that is continued was the one awaited, or aborted.
LEMMA AnswerStep ==
    ASSUME SearchInv, NEW f \in SearchForms, NEW r \in requests[f], Answered(f, r) \/ Fails(f, r)
    PROVE  SearchInv'
<1>0. /\ requests' = [requests EXCEPT ![f] = @ \ {r}] /\ told' = [told EXCEPT ![f] = Settled(f, r)]
      /\ UNCHANGED <<typed, chosen, timer, controller>>
  BY DEF Answered, Fails, Continue
<1>1. /\ requests \in [SearchForms -> SUBSET Fetches] /\ told \in [SearchForms -> {"", "loading"}]
      /\ r \in Fetches /\ r.url \in Url /\ lastUrl \in [SearchForms -> Url \cup {NoUrl}]
      /\ region \in [SearchForms -> Url \cup {NoUrl}] /\ answers \in [SearchForms -> Nat]
  <2>1. requests \in [SearchForms -> SUBSET Fetches] /\ told \in [SearchForms -> {"", "loading"}]
        /\ lastUrl \in [SearchForms -> Url \cup {NoUrl}]
        /\ region \in [SearchForms -> Url \cup {NoUrl}] /\ answers \in [SearchForms -> Nat]
    BY DEF SearchInv, SearchTypes
  <2>2. r \in Fetches
    BY <2>1
  <2>3. r.url \in Url
    BY <2>2 DEF Fetches
  <2>4. QED
    BY <2>1, <2>2, <2>3
<1>2. Settled(f, r) \in {"", "loading"}
  BY <1>1 DEF Settled
<1>3. UNCHANGED <<lastUrl, region, answers, address>>
      \/ /\ answers' = [answers EXCEPT ![f] = r.number] /\ lastUrl' = [lastUrl EXCEPT ![f] = r.url]
         /\ address' = r.url /\ r.number = controller[f] /\ ~ r.aborted
         /\ region' \in {[region EXCEPT ![f] = NoUrl], [region EXCEPT ![f] = r.url]}
  BY DEF Answered, Fails, SearchInv, Awaiting
<1>4. SearchTypes'
  <2>1. requests' \in [SearchForms -> SUBSET Fetches] /\ told' \in [SearchForms -> {"", "loading"}]
    BY <1>0, <1>1, <1>2
  <2>2. address' \in Url /\ lastUrl' \in [SearchForms -> Url \cup {NoUrl}]
        /\ region' \in [SearchForms -> Url \cup {NoUrl}]
    BY <1>1, <1>3 DEF SearchInv, SearchTypes, LiveTypeOK
  <2>3. answers' \in [SearchForms -> Nat] /\ \A g \in SearchForms : answers'[g] \in 0 .. controller[g]
    <3>1. \A g \in SearchForms : answers[g] \in Nat /\ answers[g] <= controller[g] /\ controller[g] \in Nat
      BY NumbersOf DEF SearchInv
    <3>2. \/ answers' = answers
          \/ answers' = [answers EXCEPT ![f] = controller[f]]
      BY <1>3
    <3>3. answers \in [SearchForms -> Nat]
      BY <1>1
    <3>4. \A g \in SearchForms : answers'[g] \in {answers[g], controller[g]}
      BY <3>2, <3>3
    <3>5. answers' \in [SearchForms -> Nat]
      BY <3>1, <3>2, <3>3
    <3>6. QED
      BY <3>1, <3>4, <3>5
  <2>4. LiveTypeOK'
    <3>1. ASSUME NEW g \in SearchForms
          PROVE  /\ requests'[g] \subseteq Fetches /\ controller'[g] \in 0 .. MaxRequests
                 /\ answers'[g] \in 0 .. controller'[g]
                 /\ lastUrl'[g] \in Url \cup {NoUrl} /\ region'[g] \in Url \cup {NoUrl}
                 /\ told'[g] \in {"", "loading"}
      <4>1. controller' = controller /\ controller[g] \in 0 .. MaxRequests
        BY <1>0 DEF SearchInv, SearchTypes
      <4>2. QED
        BY <2>1, <2>2, <2>3, <4>1, Zenon
    <3>2. typed' \in [SearchForms -> Words \cup {""}] /\ chosen' \in Intents \cup {"offer"}
          /\ timer' \subseteq SearchForms
      BY <1>0 DEF SearchInv, SearchTypes, LiveTypeOK
    <3>3. QED
      BY <2>2, <3>1, <3>2 DEF LiveTypeOK, Fetches
  <2>5. controller' \in [SearchForms -> 0 .. MaxRequests]
    BY <1>0 DEF SearchInv, SearchTypes
  <2>6. QED
    BY <2>1, <2>2, <2>3, <2>4, <2>5 DEF SearchTypes
<1>5. ASSUME NEW g \in SearchForms PROVE Awaiting(g)'
  <2>1. CASE g = f
    <3>1. requests'[f] = requests[f] \ {r} /\ told'[f] = Settled(f, r) /\ controller' = controller
      BY <1>0, <1>1
    <3>2. CASE r.aborted
      <4>1. told'[f] = told[f] /\ answers'[f] = answers[f]
        BY <1>3, <3>1, <3>2 DEF Settled
      <4>2. QED
        BY <2>1, <3>1, <3>2, <4>1 DEF SearchInv, Awaiting
    <3>3. CASE ~ r.aborted
      <4>1. told'[f] = "" /\ \A s \in requests'[f] : s.aborted
        BY <3>1, <3>3 DEF Settled, SearchInv, Awaiting
      <4>2. QED
        BY <2>1, <4>1 DEF Awaiting
    <3>4. QED
      BY <3>2, <3>3
  <2>2. CASE g # f
    <3>1. requests'[g] = requests[g] /\ told'[g] = told[g] /\ controller' = controller /\ answers'[g] = answers[g]
      BY <1>0, <1>1, <1>3, <2>2
    <3>2. QED
      BY <3>1 DEF SearchInv, Awaiting
  <2>3. QED
    BY <2>1, <2>2
<1>6. QED
  BY <1>4, <1>5 DEF SearchInv

LEMMA SearchStep ==
    ASSUME SearchInv, [LiveNext]_liveVars
    PROVE  SearchInv'
<1>1. ASSUME NEW f \in SearchForms, NEW i \in Intents \cup {"offer"}, Update(f, i),
             UNCHANGED <<lastUrl, region, answers, address, typed>>, chosen' \in Intents \cup {"offer"},
             timer' \subseteq SearchForms
      PROVE  SearchInv'
  <2>1. /\ requests' \in [SearchForms -> SUBSET Fetches] /\ controller' \in [SearchForms -> 0 .. MaxRequests]
        /\ told' \in [SearchForms -> {"", "loading"}]
        /\ \A g \in SearchForms : controller'[g] >= controller[g] /\ Awaiting(g)'
    BY <1>1, AskStep
  <2>2. \A g \in SearchForms : answers[g] \in 0 .. controller'[g]
    <3>1. \A g \in SearchForms : answers[g] \in Nat /\ answers[g] <= controller[g] /\ controller[g] \in Nat
      BY NumbersOf DEF SearchInv
    <3>2. \A g \in SearchForms : controller'[g] \in 0 .. MaxRequests /\ MaxRequests \in Nat
                                 /\ controller'[g] >= controller[g]
      BY <2>1, LiveSearchAssumption
    <3>3. QED
      BY <3>1, <3>2
  <2>3. SearchTypes'
    BY <1>1, <2>1, <2>2 DEF SearchInv, SearchTypes, LiveTypeOK, Fetches
  <2>4. QED
    BY <2>1, <2>3 DEF SearchInv
<1>2. CASE UNCHANGED <<lastUrl, region, answers, address, requests, controller, told>>
           /\ typed' \in [SearchForms -> Words \cup {""}] /\ chosen' = chosen /\ timer' \subseteq SearchForms
  BY <1>2 DEF SearchInv, SearchTypes, LiveTypeOK, Awaiting, Fetches
<1>3. ASSUME NEW f \in SearchForms, TimerFires(f) \/ Submit(f) PROVE SearchInv'
  <2>1. chosen \in Intents \cup {"offer"} /\ timer \subseteq SearchForms
    BY DEF SearchInv, SearchTypes, LiveTypeOK
  <2>2. QED
    BY <1>1, <1>3, <2>1 DEF TimerFires, Submit
<1>4. ASSUME NEW i \in Intents \cup {"offer"}, Choose(i) PROVE SearchInv'
  <2>1. timer \subseteq SearchForms /\ "browse" \in SearchForms
    BY DEF SearchInv, SearchTypes, LiveTypeOK, SearchForms
  <2>2. QED
    BY <1>1, <1>4, <2>1 DEF Choose
<1>5. ASSUME NEW f \in SearchForms, NEW word \in Words \cup {""}, Type(f, word) PROVE SearchInv'
  <2>1. typed' \in [SearchForms -> Words \cup {""}] /\ timer' \subseteq SearchForms
    BY <1>5 DEF Type, SearchInv, SearchTypes, LiveTypeOK
  <2>2. QED
    BY <1>2, <1>5, <2>1 DEF Type
<1>6. ASSUME NEW u \in Url, Load(u) PROVE SearchInv'
  <2>1. /\ typed' = [market |-> "", browse |-> u.q] /\ chosen' = IntentOf(u) /\ address' = u /\ timer' = {}
        /\ region' = [market |-> Finder, browse |-> u]
    BY <1>6 DEF Load
  <2>2. /\ requests' = [f \in SearchForms |-> {}] /\ lastUrl' = [f \in SearchForms |-> NoUrl]
        /\ answers' = [f \in SearchForms |-> 0] /\ told' = [f \in SearchForms |-> ""] /\ controller' = controller
    BY <1>6 DEF Load
  <2>3. typed' \in [SearchForms -> Words \cup {""}] /\ region' \in [SearchForms -> Url \cup {NoUrl}]
    <3>1. Finder \in Url /\ u.q \in Words \cup {""}
      BY DEF Url, Finder, NoUrl
    <3>2. QED
      BY <2>1, <3>1, OfBothForms
  <2>4. chosen' \in Intents \cup {"offer"}
    BY <2>1 DEF IntentOf, Url
  <2>5. \A f \in SearchForms : 0 \in 0 .. controller[f]
    BY NumbersOf DEF SearchInv
  <2>6. SearchTypes'
    <3>1. controller \in [SearchForms -> 0 .. MaxRequests] /\ controller' = controller
      BY <2>2 DEF SearchInv, SearchTypes
    <3>2. /\ requests' \in [SearchForms -> SUBSET Fetches] /\ answers' \in [SearchForms -> Nat]
          /\ lastUrl' \in [SearchForms -> Url \cup {NoUrl}] /\ told' \in [SearchForms -> {"", "loading"}]
      BY <2>2
    <3>3. \A f \in SearchForms : /\ requests'[f] = {} /\ controller'[f] \in 0 .. MaxRequests
                                  /\ answers'[f] \in 0 .. controller'[f] /\ lastUrl'[f] = NoUrl
                                  /\ told'[f] = "" /\ region'[f] \in Url \cup {NoUrl}
      BY <2>2, <2>3, <2>5, <3>1
    <3>4. address' \in Url /\ timer' \subseteq SearchForms
      BY <2>1
    <3>5. LiveTypeOK'
      BY <2>3, <2>4, <3>3, <3>4 DEF LiveTypeOK
    <3>6. controller' \in [SearchForms -> 0 .. MaxRequests]
      BY <3>1
    <3>7. QED
      BY <2>3, <3>2, <3>5, <3>6 DEF SearchTypes
  <2>7. \A f \in SearchForms : Awaiting(f)'
    BY <2>2 DEF Awaiting
  <2>8. QED
    BY <2>6, <2>7 DEF SearchInv
<1>7. CASE UNCHANGED liveVars
  BY <1>2, <1>7 DEF liveVars, SearchInv, SearchTypes, LiveTypeOK
<1>8. QED
  BY <1>3, <1>4, <1>5, <1>6, <1>7, AnswerStep DEF LiveNext

LEMMA SearchInit == LiveInit => SearchInv
<1> SUFFICES ASSUME LiveInit PROVE SearchInv
  OBVIOUS
<1>1. /\ address \in Url /\ typed = [market |-> "", browse |-> address.q] /\ chosen = IntentOf(address)
      /\ region = [market |-> Finder, browse |-> address]
  BY DEF LiveInit
<1>2. typed \in [SearchForms -> Words \cup {""}] /\ region \in [SearchForms -> Url \cup {NoUrl}]
  <2>1. Finder \in Url /\ address.q \in Words \cup {""}
    BY <1>1 DEF Url, Finder, NoUrl
  <2>2. QED
    BY <1>1, <2>1, OfBothForms
<1>3. chosen \in Intents \cup {"offer"}
  BY <1>1 DEF IntentOf, Url
<1>4. /\ requests = [f \in SearchForms |-> {}] /\ controller = [f \in SearchForms |-> 0]
      /\ lastUrl = [f \in SearchForms |-> NoUrl] /\ answers = [f \in SearchForms |-> 0]
      /\ told = [f \in SearchForms |-> ""] /\ timer = {}
  BY DEF LiveInit
<1>5. 0 \in 0 .. MaxRequests /\ 0 \in 0 .. 0 /\ 0 \in Nat
  <2>1. MaxRequests \in Nat
    BY LiveSearchAssumption
  <2>2. QED
    BY <2>1
<1>6. SearchTypes
  <2>1. \A f \in SearchForms : /\ requests[f] = {} /\ controller[f] \in 0 .. MaxRequests
                                /\ answers[f] \in 0 .. controller[f] /\ lastUrl[f] = NoUrl
                                /\ told[f] = "" /\ region[f] \in Url \cup {NoUrl}
    BY <1>2, <1>4, <1>5
  <2>2. LiveTypeOK
    BY <1>1, <1>2, <1>3, <1>4, <2>1 DEF LiveTypeOK
  <2>3. /\ requests \in [SearchForms -> SUBSET Fetches] /\ controller \in [SearchForms -> 0 .. MaxRequests]
        /\ lastUrl \in [SearchForms -> Url \cup {NoUrl}] /\ told \in [SearchForms -> {"", "loading"}]
        /\ answers \in [SearchForms -> Nat]
    BY <1>4, <1>5
  <2>4. QED
    BY <1>2, <2>2, <2>3 DEF SearchTypes
<1>7. \A f \in SearchForms : Awaiting(f)
  BY <1>4 DEF Awaiting
<1>8. QED
  BY <1>6, <1>7 DEF SearchInv

\* What a form awaits is the one fetch that is neither answered nor aborted, and its numbers
\* only grow (live-search.js, update).
THEOREM SearchInvariant == LiveSpec => []SearchInv
  BY SearchInit, SearchStep, PTL DEF LiveSpec

\* A form is announced as busy exactly while an answer is awaited that will be used: an
\* aborted fetch never clears the mark of its successor (live-search.js, finally).
THEOREM BusyExactly == LiveSpec => []BusyWhileAwaiting
<1>1. SearchInv => BusyWhileAwaiting
  BY DEF SearchInv, Awaiting, BusyWhileAwaiting
<1>2. QED
  BY <1>1, SearchInvariant, PTL

\* An answer is placed only when no newer one has been asked for, and no later answer has
\* been placed: what is covered is always older (live-search.js, update).
THEOREM PlacedInOrder == LiveSpec => AnswersInOrder
<1> DEFINE Step == \A f \in SearchForms : region'[f] # region[f] /\ answers'[f] # 0
                      => answers'[f] > answers[f] /\ answers'[f] = controller[f]
<1>1. SearchInv /\ [LiveNext]_liveVars => [Step]_liveVars
  <2> SUFFICES ASSUME SearchInv, LiveNext, NEW f \in SearchForms, region'[f] # region[f], answers'[f] # 0
               PROVE  answers'[f] > answers[f] /\ answers'[f] = controller[f]
    BY DEF liveVars
  <2>1. answers \in [SearchForms -> Nat] /\ region \in [SearchForms -> Url \cup {NoUrl}]
    BY DEF SearchInv, SearchTypes
  <2>2. \E g \in SearchForms : \E r \in requests[g] : Answered(g, r)
    <3>1. ASSUME NEW u \in Url, Load(u) PROVE FALSE
      BY <3>1 DEF Load
    <3>2. QED
      BY <3>1 DEF LiveNext, TimerFires, Submit, Choose, Type, Fails
  <2>3. PICK g \in SearchForms : \E r \in requests[g] : Answered(g, r)
    BY <2>2
  <2>4. PICK r \in requests[g] : Answered(g, r)
    BY <2>3
  <2>5. /\ ~ r.aborted /\ answers' = [answers EXCEPT ![g] = r.number]
        /\ \/ region' = [region EXCEPT ![g] = NoUrl]
           \/ region' = [region EXCEPT ![g] = r.url]
    BY <2>4 DEF Answered
  <2>6. g = f
    BY <2>1, <2>5
  <2>7. r.number = controller[f] /\ answers[f] < r.number
    BY <2>5, <2>6 DEF SearchInv, Awaiting
  <2>8. answers'[f] = controller[f] /\ controller[f] \in Nat /\ answers[f] \in Nat
    BY <2>1, <2>5, <2>6, <2>7, NumbersOf DEF SearchInv
  <2>9. QED
    BY <2>7, <2>8
<1>2. QED
  BY <1>1, SearchInvariant, PTL DEF LiveSpec, AnswersInOrder

\* The request an update adds is the address of the form, and every other one is aborted.
LEMMA RequestAsked ==
    ASSUME SearchInv, NEW f \in SearchForms, NEW i, Update(f, i),
           NEW g \in SearchForms, NEW r \in requests'[g] \ requests[g], ~ r.aborted
    PROVE  g = f /\ r.url = FormUrl(f, i) /\ (f = "market" => r.url.q # "")
<1>1. requests \in [SearchForms -> SUBSET Fetches]
  BY DEF SearchInv, SearchTypes
<1>2. ~ UNCHANGED requests
  OBVIOUS
<1> DEFINE new == [url |-> FormUrl(f, i), number |-> controller[f] + 1, aborted |-> FALSE]
<1>3. requests' = [requests EXCEPT ![f] = Aborted(f) \cup {new}]
      /\ (f = "market" => FormUrl(f, i).q # "")
  BY <1>2 DEF Update
<1>4. g = f /\ r \in Aborted(f) \cup {new}
  BY <1>1, <1>3
<1>5. r \notin Aborted(f)
  <2> SUFFICES ASSUME r \in Aborted(f) PROVE FALSE
    OBVIOUS
  <2>1. PICK s \in requests[f] : r = [s EXCEPT !.aborted = @ \/ s.number = controller[f]]
    BY Zenon DEF Aborted
  <2>2. s \in Fetches /\ (s.aborted \/ s.number = controller[f]) = TRUE
    BY <1>1 DEF SearchInv, Awaiting
  <2>3. r = [s EXCEPT !.aborted = TRUE]
    BY <2>1, <2>2, Zenon
  <2>4. QED
    BY <2>2, <2>3 DEF Fetches
<1>6. r = new /\ new.url = FormUrl(f, i)
  BY <1>4, <1>5
<1>7. QED
  BY <1>3, <1>4, <1>6, Zenon

\* The market finder asks for what has been typed into it, and for nothing else.
LEMMA FinderAsks ==
    ASSUME SearchTypes, NEW i \in Intents \cup {"offer"}
    PROVE  FormUrl("market", i) = [path |-> "/markets/", q |-> typed["market"], intent |-> "", page |-> ""]
<1> DEFINE u == FormUrl("market", i)
<1>1. u \in Url /\ typed["market"] \in Words \cup {""}
  BY UrlAsked DEF SearchTypes, LiveTypeOK, SearchForms
<1>2. u.path = "/markets/" /\ u.intent = "" /\ u.page = ""
  BY DEF FormUrl, FormAction, Finder, NoUrl
<1>3. u.q = typed["market"]
  BY DEF FormUrl, FormAction, Finder, NoUrl
<1> HIDE DEF u
<1>4. u = [path |-> "/markets/", q |-> typed["market"], intent |-> "", page |-> ""]
  BY <1>1, <1>2, <1>3 DEF Url
<1>5. QED
  BY <1>4 DEF u

\* The browse form asks the address of the document for what it says, and keeps of the
\* address what it says nothing of.
OfAddress(i, u) ==
    /\ u.path = address.path /\ u.page = ""
    /\ u.q = typed["browse"] \/ (typed["browse"] = "" /\ u.q = address.q)
    /\ IntentOf(u) = i \/ (i = "offer" /\ u.intent = address.intent)

LEMMA BrowseAsks ==
    ASSUME SearchTypes, NEW i \in Intents \cup {"offer"}, NEW u, u = FormUrl("browse", i)
    PROVE  OfAddress(i, u)
<1>1. address \in Url /\ typed["browse"] \in Words \cup {""}
  BY DEF SearchTypes, LiveTypeOK, SearchForms
<1>2. u = [address EXCEPT !.q = IF typed["browse"] # "" THEN typed["browse"] ELSE @,
                          !.intent = IF i # "offer" THEN i ELSE @, !.page = ""]
  BY DEF FormUrl, FormAction
<1>3. u.path = address.path /\ u.page = ""
  BY <1>1, <1>2 DEF Url
<1>4. u.q = typed["browse"] \/ (typed["browse"] = "" /\ u.q = address.q)
  BY <1>1, <1>2 DEF Url
<1>5. CASE i = "offer"
  <2>1. u.intent = address.intent
    BY <1>1, <1>2, <1>5 DEF Url
  <2>2. QED
    BY <1>3, <1>4, <1>5, <2>1 DEF OfAddress
<1>6. CASE i # "offer"
  <2>1. u.intent = i
    BY <1>1, <1>2, <1>6 DEF Url
  <2>2. i # ""
    BY <1>6, LiveSearchAssumption
  <2>3. IntentOf(u) = i
    BY <2>1, <2>2 DEF IntentOf
  <2>4. QED
    BY <1>3, <1>4, <2>3 DEF OfAddress
<1>7. QED
  BY <1>5, <1>6

\* What a form asks, of the state in which it asks.
AsksAs(f, u, t, c) ==
    \/ f = "market" /\ u = [path |-> "/markets/", q |-> t["market"], intent |-> "", page |-> ""]
    \/ f = "browse" /\ address.path = "/markets/"
    \/ /\ f = "browse" /\ u.path = "/page/" /\ u.page = ""
       /\ u.q = t["browse"] \/ (t["browse"] = "" /\ u.q = address.q)
       /\ IntentOf(u) = c \/ (c = "offer" /\ u.intent = address.intent)

LEMMA FormAsks ==
    ASSUME SearchTypes, NEW f \in SearchForms, NEW i \in Intents \cup {"offer"}
    PROVE  AsksAs(f, FormUrl(f, i), typed, i)
<1>1. CASE f = "market"
  BY <1>1, FinderAsks DEF AsksAs
<1>2. CASE f = "browse"
  <2>0. PICK u : u = FormUrl("browse", i)
    OBVIOUS
  <2>1. OfAddress(i, u)
    BY <2>0, BrowseAsks, Zenon
  <2>2. address.path = "/markets/" \/ address.path = "/page/"
    BY DEF SearchTypes, LiveTypeOK, Url
  <2>3. AsksAs("browse", u, typed, i)
    BY <2>1, <2>2 DEF AsksAs, OfAddress
  <2>4. QED
    BY <1>2, <2>0, <2>3
<1>3. QED
  BY <1>1, <1>2 DEF SearchForms

\* What the script asks is what the form would ask by itself, in every state, but for
\* the two deviations of the browse form that the property names (live-search.js, formUrl).
THEOREM AskedIsChosen == LiveSpec => AsksWhatIsChosen
<1> DEFINE Asked(f, r) ==
       \/ r.aborted
       \/ r.url = PlainUrl(f)'
       \/ f = "browse" /\ address.path = "/markets/"
       \/ /\ f = "browse" /\ r.url.path = "/page/" /\ r.url.page = ""
          /\ r.url.q = typed'[f] \/ (typed'[f] = "" /\ r.url.q = address.q)
          /\ IntentOf(r.url) = chosen' \/ (chosen' = "offer" /\ r.url.intent = address.intent)
<1>1. SearchInv /\ [LiveNext]_liveVars
         => [\A f \in SearchForms : \A r \in requests'[f] \ requests[f] : Asked(f, r)]_liveVars
  <2> SUFFICES ASSUME SearchInv, LiveNext, NEW g \in SearchForms, NEW r \in requests'[g] \ requests[g],
                      ~ r.aborted
               PROVE  Asked(g, r)
    OBVIOUS
  <2>1. requests \in [SearchForms -> SUBSET Fetches] /\ chosen \in Intents \cup {"offer"}
        /\ typed[g] \in Words \cup {""} /\ address \in Url
    BY DEF SearchInv, SearchTypes, LiveTypeOK
  <2>2. \E f \in SearchForms : Update(f, chosen') /\ typed' = typed /\ chosen' \in Intents \cup {"offer"}
    <3>1. ASSUME NEW f \in SearchForms, NEW s \in requests[f], Answered(f, s) \/ Fails(f, s) PROVE FALSE
      <4>1. requests' = [requests EXCEPT ![f] = requests[f] \ {s}]
        BY <3>1 DEF Answered, Fails, Continue
      <4>2. QED
        BY <2>1, <4>1
    <3>2. ASSUME NEW u \in Url, Load(u) PROVE FALSE
      BY <3>2 DEF Load
    <3>3. ASSUME NEW i \in Intents \cup {"offer"}, Choose(i)
          PROVE  Update("browse", chosen') /\ typed' = typed /\ chosen' \in Intents \cup {"offer"}
      <4>1. chosen' = i /\ Update("browse", i) /\ typed' = typed
        BY <3>3 DEF Choose
      <4>2. QED
        BY <4>1
    <3>4. ASSUME NEW f \in SearchForms, TimerFires(f) \/ Submit(f)
          PROVE  Update(f, chosen') /\ typed' = typed /\ chosen' \in Intents \cup {"offer"}
      <4>1. chosen' = chosen /\ Update(f, chosen) /\ typed' = typed
        BY <3>4 DEF TimerFires, Submit
      <4>2. QED
        BY <2>1, <4>1
    <3>5. ASSUME NEW f \in SearchForms, NEW word \in Words \cup {""}, Type(f, word) PROVE FALSE
      BY <3>5 DEF Type
    <3>6. "browse" \in SearchForms
      BY DEF SearchForms
    <3>7. QED
      BY <3>1, <3>2, <3>3, <3>4, <3>5, <3>6 DEF LiveNext
  <2>3. PICK f \in SearchForms :
           Update(f, chosen') /\ typed' = typed /\ chosen' \in Intents \cup {"offer"}
    BY <2>2
  <2>4. PICK i \in Intents \cup {"offer"} : i = chosen'
    BY <2>3
  <2>5. Update(f, i)
    BY <2>3, <2>4
  <2>6. g = f /\ r.url = FormUrl(g, i) /\ (g = "market" => r.url.q # "")
    BY <2>5, RequestAsked
  <2>7. AsksAs(g, r.url, typed, i)
    <3>1. SearchTypes
      BY DEF SearchInv
    <3>2. AsksAs(g, FormUrl(g, i), typed, i)
      BY <3>1, FormAsks, Zenon
    <3>3. QED
      BY <2>6, <3>2, Zenon
  <2>8. AsksAs(g, r.url, typed', chosen')
    BY <2>3, <2>4, <2>7, Zenon
  <2>9. CASE g = "market"
    <3>1. r.url = [path |-> "/markets/", q |-> typed'[g], intent |-> "", page |-> ""]
      BY <2>8, <2>9 DEF AsksAs
    <3>2. r.url = PlainUrl(g)'
      BY <2>9, <3>1 DEF PlainUrl
    <3>3. QED
      BY <3>2
  <2>10. CASE g = "browse"
    BY <2>8, <2>10, Zenon DEF AsksAs
  <2>11. QED
    BY <2>9, <2>10 DEF SearchForms
<1>2. QED
  BY <1>1, SearchInvariant, PTL DEF LiveSpec, AsksWhatIsChosen
=============================================================================
