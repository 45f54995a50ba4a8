------------------------------- MODULE Browse -------------------------------
(***************************************************************************)
(* A visit to the public directory: the pages of a state, of a county and  *)
(* the wanted directory (locations/views.py), the form that reads their    *)
(* query (locations/forms.py) and the links a page makes of what the form  *)
(* accepted.  A query is typed, posted or followed; the listings do not    *)
(* change meanwhile.  One text filter of one vertical stands for the typed *)
(* ones, one pair of bounds for the three, the wanted intent for "all".    *)
(***************************************************************************)
EXTENDS Integers

CONSTANTS
    Prices,     \* whole dollars
    Makes       \* values of a typed filter of the autos vertical

ASSUME BrowseAssumption == Prices \subseteq Nat /\ "" \notin Makes

VARIABLES
    route,      \* "state", "county", "wanted" or "wanted in state"
    query       \* request.GET, blank where the key is missing

browseVars == <<route, query>>

(***************************************************************************)
(* The directory: two states, the first by name with two counties.         *)
(***************************************************************************)

Verticals == {"autos", "farm"}
CategoriesOf(v) == IF v = "autos" THEN {"sedans"} ELSE {"tractors"}
Categories == UNION {CategoriesOf(v) : v \in Verticals}
CountiesOf(s) == IF s = "first" THEN {"home", "next"} ELSE {"far"}
Counties == UNION {CountiesOf(s) : s \in {"first", "second"}}

\* Every listing there could be, so that equal results mean equal filters.
Ads == {ad \in [intent : {"offer", "wanted"}, vertical : Verticals, category : Categories,
                state : {"first", "second"}, county : Counties, alsoHome : BOOLEAN,
                price : Prices, make : Makes \cup {""}] :
            /\ ad.category \in CategoriesOf(ad.vertical) /\ ad.county \in CountiesOf(ad.state)
            /\ ad.alsoHome => ad.county # "home"
            /\ ad.make # "" <=> ad.vertical = "autos"}

\* The keys the pages read; a price may be text that is no amount.
NoAmount == -1
BadAmount == -2
BlankOf(n) == IF n \in {"minPrice", "maxPrice"} THEN NoAmount ELSE ""
QueriesOf(scopes, counties, states) ==
    [intent : {"", "wanted", "bogus"}, scope : scopes, vertical : Verticals \cup {""},
     category : Categories \cup {""}, county : counties, minPrice : Prices \cup {NoAmount},
     maxPrice : Prices \cup {NoAmount, BadAmount}, make : Makes \cup {""}, sort : {"", "mileage"}, state : states]
Queries == QueriesOf({"", "county", "bogus"}, Counties \cup {""}, {"", "second"})

(***************************************************************************)
(* PublicBrowseForm.                                                       *)
(***************************************************************************)

\* get_active_state_by_slug, or what in_search_of makes of its "state" key.
StateOf(r, q) == IF r = "wanted" /\ q.state # "" THEN q.state ELSE "first"

\* The wanted directory overwrites the intent of the request.
Data(r, q) == IF r \in {"wanted", "wanted in state"} THEN [q EXCEPT !.intent = "wanted"] ELSE q

\* A typed filter is there when its vertical is selected.
TypedFields(q) == IF q.vertical = "autos" THEN {"make"} ELSE {}

\* A county page has a scope and no county filter.
Fields(r, q) ==
    {"intent", "vertical", "category", "minPrice", "maxPrice", "sort"}
        \cup (IF r = "county" THEN {"scope"} ELSE {"county"}) \cup TypedFields(q)

Inverted(q) == q.minPrice \in Prices /\ q.maxPrice \in Prices /\ q.minPrice > q.maxPrice

\* The fields that have an error.  An unknown scope is normalised instead; an unknown
\* intent is refused by its field before clean_intent could do the same.
Errors(r, q) ==
    {n \in Fields(r, q) :
        CASE n = "intent"   -> q.intent = "bogus"
          [] n = "category" -> /\ q.category # "" /\ q.vertical # ""
                               /\ q.category \notin CategoriesOf(q.vertical)
          [] n = "county"   -> q.county \notin CountiesOf(StateOf(r, q)) \cup {""}
          [] n = "maxPrice" -> q.maxPrice = BadAmount \/ Inverted(q)
          [] OTHER          -> FALSE}

BugScopeLost(r, q, excluded) ==
    [n \in DOMAIN q |-> IF n \in Fields(r, q) \ (Errors(r, q) \cup excluded \cup {"scope"})
                        THEN q[n] ELSE BlankOf(n)]

BugCategoryGoesToo(r, q, excluded) ==
    LET dropped == IF "vertical" \in excluded THEN excluded \cup {"category"} ELSE excluded IN
    [n \in DOMAIN q |-> IF /\ n \in Fields(r, q) \ (Errors(r, q) \cup dropped)
                           /\ n = "scope" => q.scope = "county"
                        THEN q[n] ELSE BlankOf(n)]

\* query_parameters: the fields without an error, excluded ones and defaults left out.
QueryParameters(r, q, excluded) ==
    [n \in DOMAIN q |-> IF /\ n \in Fields(r, q) \ (Errors(r, q) \cup excluded)
                           /\ n = "scope" => q.scope = "county"
                        THEN q[n] ELSE BlankOf(n)]

\* _apply_vertical_filters: the typed filters of the selected vertical alone.
MatchesTyped(ad, q) == q.vertical = "autos" /\ q.make # "" => ad.make = q.make

\* apply_public_filters.
Matches(ad, r, q) ==
    /\ ad.intent = IF q.intent = "" THEN "offer" ELSE q.intent
    /\ r # "county" /\ q.county # "" => ad.county = q.county
    /\ q.vertical # "" => ad.vertical = q.vertical
    /\ q.category # "" => ad.category = q.category
    /\ q.minPrice \in Prices => ad.price >= q.minPrice
    /\ q.maxPrice \in Prices => ad.price <= q.maxPrice
    /\ MatchesTyped(ad, q)
    /\ q.sort = "mileage" => ad.vertical = "autos"

\* _browse_context: with any error the page shows the whole state, on a county page too.
ResultsFor(r, raw) ==
    LET q == Data(r, raw)
        here == {ad \in Ads : ad.state = StateOf(r, raw)}
    IN  IF Errors(r, q) # {} THEN here
        ELSE {ad \in here : /\ Matches(ad, r, q)
                            /\ r = "county" /\ q.scope = "county"
                                  => ad.county = "home" \/ ad.alsoHome}

(***************************************************************************)
(* The links of a page.                                                    *)
(***************************************************************************)

Shown == Data(route, query)
Valid == Errors(route, Shown) = {}

\* The next page of the results; the page number is left out.
NextPageQuery == QueryParameters(route, Shown, {})

\* One chip for each parameter of a filter, whose link leaves that one out.
Chips == {n \in DOMAIN query : NextPageQuery[n] # BlankOf(n) /\ (n = "sort" => Shown.sort # "")}
ChipQuery(n) == QueryParameters(route, Shown, {n})

\* Reset keeps only the context of the page; Clear all is the route alone.
ResetQuery == QueryParameters(route, Shown, Fields(route, Shown) \ {"scope"})
Blank == [n \in DOMAIN query |-> BlankOf(n)]

\* The pages, each with the keys it reads.
StateContext == route = "state" /\ query \in QueriesOf({""}, Counties \cup {""}, {""})
CountyContext == route = "county" /\ query \in QueriesOf({"", "county", "bogus"}, {""}, {""})
InSearchOf ==
    \/ route = "wanted" /\ query \in QueriesOf({""}, Counties \cup {""}, {"", "second"})
    \/ route = "wanted in state" /\ query \in QueriesOf({""}, Counties \cup {""}, {""})

BrowseInit == StateContext \/ CountyContext \/ InSearchOf

Follow(q) == query' = q /\ UNCHANGED route

TurnPage == Follow(NextPageQuery)
RemoveChip(n) == n \in Chips /\ Follow(ChipQuery(n))
ResetFilters == Follow(ResetQuery)
ClearFilters == Follow(Blank)

BrowseNext == TurnPage \/ ResetFilters \/ ClearFilters \/ \E n \in DOMAIN query : RemoveChip(n)

BrowseSpec == BrowseInit /\ [][BrowseNext]_browseVars

(***************************************************************************)
(* Properties.                                                             *)
(***************************************************************************)

BrowseTypeOK ==
    route \in {"state", "county", "wanted", "wanted in state"} /\ query \in Queries

\* The next page continues the list that this page began: what the form accepted says all
\* that its results depend on (locations/forms.py:260).  Two exceptions: a page with errors,
\* which shows everything while its links keep what was right, and the wanted directory of
\* a state given by its key, which no link carries (locations/views.py:227).
PageLinksStay ==
    Valid /\ query.state = "" => ResultsFor(route, NextPageQuery) = ResultsFor(route, query)

\* Removing a chip shows what the page shows and more, except where another intent takes
\* the place of the one removed, takes that one filter away, and keeps every other but those
\* of the vertical that goes (docs/features/M10-BRAND-ACCESSIBILITY-SEO.md:156).
ChipRemovesOne ==
    Valid /\ query.state = "" => \A n \in Chips :
        LET after == QueryParameters(route, Data(route, ChipQuery(n)), {}) IN
        /\ n # "intent" =>
               /\ after[n] = BlankOf(n)
               /\ ResultsFor(route, query) \subseteq ResultsFor(route, ChipQuery(n))
        /\ \A other \in Chips \ {n} :
               after[other] = NextPageQuery[other] \/ (n = "vertical" /\ other = "make")

=============================================================================
