------------------------------- MODULE Drafts -------------------------------
(***************************************************************************)
(* The common row of a listing, its detail row and its controlled tags,    *)
(* as the two generations of draft pages write them: the unified pages     *)
(* (create_listing, edit_listing), which resolve a workflow from the       *)
(* category, and the pages of each kind, which are still routed.  The edit *)
(* page reads the listing and resolves its workflow before the service     *)
(* locks the row.                                                          *)
(***************************************************************************)
EXTENDS Naturals, FiniteSets

CONSTANTS
    Drafted,    \* listings
    Tabs,       \* edit pages a seller has posted and the server is handling
    Leaves,     \* slugs of the catalog's categories
    Factual,    \* those whose posting profile has a required field
    NoPage,     \* a tab without a page
    Unstable,   \* the leaves staff deactivate and reactivate here (any may be)
    MaxTags     \* bounds the tags beside the category (no counterpart in the code)

\* The catalog, by one category for each row of the workflow table that differs.
VerticalOf == [sedans |-> "autos", houses |-> "real-estate", apartments |-> "rentals",
               tractors |-> "farm-ranch", pasture |-> "farm-ranch", fencing |-> "farm-ranch",
               cattle |-> "livestock-animals", sofas |-> "home-garden", ovens |-> "appliances",
               phones |-> "electronics", general |-> "others"]

ASSUME DraftsAssumption ==
    /\ Leaves \subseteq DOMAIN VerticalOf /\ Leaves # {}
    /\ Factual \subseteq Leaves /\ Unstable \subseteq Leaves
    /\ NoPage \notin Drafted /\ MaxTags \in Nat

VARIABLES
    exists,     \* the listings created so far
    category, vertical, intent,     \* of Listing
    detail,     \* the detail rows that refer to the listing
    tagged,     \* the categories of its ListingCategoryTags
    shelfOf,     \* "draft", "published", or "away" where owners may not edit
    active,     \* the categories that are active leaves in an active vertical
    page        \* what edit_listing has read for each tab

draftsVars == <<exists, category, vertical, intent, detail, tagged, shelfOf, active, page>>

\* resolve_listing_workflow: the kind of detail row an active leaf calls for.
TypedWorkflow ==
    [v \in {"autos", "real-estate", "rentals", "livestock-animals", "home-garden", "appliances"} |->
        CASE v = "autos"             -> "auto"
          [] v = "real-estate"       -> "home"
          [] v = "rentals"           -> "rental"
          [] v = "livestock-animals" -> "livestock"
          [] OTHER                   -> "home_goods"]

Workflow(c, i) ==
    IF i = "wanted" THEN "generic"
    ELSE CASE c = "pasture"  -> "pasture"
           [] c = "tractors" -> "ag_equipment"
           [] OTHER          -> IF VerticalOf[c] \in DOMAIN TypedWorkflow
                                THEN TypedWorkflow[VerticalOf[c]] ELSE "generic"

\* The verticals in which the clean() of a detail model accepts its row.
Accepts == [auto |-> {"autos"}, home |-> {"real-estate"}, rental |-> {"rentals"},
            ag_equipment |-> {"farm-ranch"}, pasture |-> {"farm-ranch"},
            livestock |-> {"livestock-animals"}, home_goods |-> {"home-garden", "appliances"}]

Kinds == DOMAIN Accepts

DraftsInit ==
    /\ exists = {}
    /\ category = [l \in Drafted |-> CHOOSE c \in Leaves : TRUE]
    /\ vertical = [l \in Drafted |-> VerticalOf[category[l]]]
    /\ intent = [l \in Drafted |-> "offer"]
    /\ detail = [l \in Drafted |-> {}]
    /\ tagged = [l \in Drafted |-> {}]
    /\ shelfOf = [l \in Drafted |-> "draft"]
    /\ active = Leaves
    /\ page = [t \in Tabs |-> NoPage]

\* The leaves that the form of a typed kind offers.
FormOffers(v) == {c \in active : VerticalOf[c] = v}

\* The "Additional subcategories" that the taxonomy form offers beside a category.
TagChoices(c) == FormOffers(VerticalOf[c]) \ {c}

BugTagsOfAnyVertical(c, tags) == tags \cup {c} \subseteq active

\* _replace_listing_taxonomy_and_facts, with the full_clean of each tag.
Tagging(c, tags) == c \in active /\ tags \subseteq TagChoices(c)

\* A required fact of the category is there when its form was part of the page.
FactsGiven(c, asked) == c \in Factual => asked

\* _depublish_material_edit, at the end of every update.
DepublishEdited(l) == shelfOf' = [shelfOf EXCEPT ![l] = IF @ = "published" THEN "away" ELSE @]

Editable(l) == shelfOf[l] \in {"draft", "published"}

(***************************************************************************)
(* The services of the typed kinds.  Each is one transaction, and the      *)
(* full_clean of the listing and of its detail row holds in all of them.   *)
(***************************************************************************)

\* The listing and its one detail row; no tags yet.
Insert(l, c, i, row, tags) ==
    /\ l \notin exists /\ c \in active
    /\ exists' = exists \cup {l}
    /\ category' = [category EXCEPT ![l] = c]
    /\ vertical' = [vertical EXCEPT ![l] = VerticalOf[c]]
    /\ intent' = [intent EXCEPT ![l] = i]
    /\ detail' = [detail EXCEPT ![l] = {row}]
    /\ tagged' = [tagged EXCEPT ![l] = tags]
    /\ UNCHANGED <<shelfOf, active, page>>

\* A creation in the vertical v that the service names.
InsertIn(v, l, c, row, tags) == VerticalOf[c] = v /\ Insert(l, c, "offer", row, tags)

\* An update: the category may change within the vertical, the row is got or created,
\* the tags are left alone.
Rewrite(l, c, row) ==
    /\ l \in exists /\ Editable(l)
    /\ c \in active /\ VerticalOf[c] = vertical[l] /\ vertical[l] \in Accepts[row]
    /\ category' = [category EXCEPT ![l] = c]
    /\ detail' = [detail EXCEPT ![l] = @ \cup {row}]
    /\ DepublishEdited(l)
    /\ UNCHANGED <<exists, vertical, intent, tagged, active, page>>

RewriteIn(v, l, c, row) == vertical[l] = v /\ Rewrite(l, c, row)

CreateAutoDraft(l, c, tags) == InsertIn("autos", l, c, "auto", tags)
UpdateAutoDraft(l, c) == Rewrite(l, c, "auto")
CreateHomeDraft(l, c, tags) == InsertIn("real-estate", l, c, "home", tags)
UpdateHomeDraft(l, c) == RewriteIn("real-estate", l, c, "home")
CreateRentalDraft(l, c, tags) == InsertIn("rentals", l, c, "rental", tags)
UpdateRentalDraft(l, c) == RewriteIn("rentals", l, c, "rental")
CreateAgEquipmentDraft(l, c, tags) == InsertIn("farm-ranch", l, c, "ag_equipment", tags)
UpdateAgEquipmentDraft(l, c) == RewriteIn("farm-ranch", l, c, "ag_equipment")
CreateLivestockDraft(l, c, tags) == InsertIn("livestock-animals", l, c, "livestock", tags)
UpdateLivestockDraft(l, c) == RewriteIn("livestock-animals", l, c, "livestock")
CreatePastureDraft(l, c, tags) == InsertIn("farm-ranch", l, c, "pasture", tags)
UpdatePastureDraft(l, c) == RewriteIn("farm-ranch", l, c, "pasture")
CreateHomeGardenDraft(l, c, tags) == InsertIn("home-garden", l, c, "home_goods", tags)
UpdateHomeGardenDraft(l, c) == RewriteIn("home-garden", l, c, "home_goods")
CreateAppliancesDraft(l, c, tags) == InsertIn("appliances", l, c, "home_goods", tags)
UpdateAppliancesDraft(l, c) == RewriteIn("appliances", l, c, "home_goods")

\* The generic row refuses a category with a required fact that is missing.
CreateGenericDraft(l, c, tags) == Insert(l, c, "offer", "generic", tags)
CreateWantedDraft(l, c, tags) == FactsGiven(c, FALSE) /\ Insert(l, c, "wanted", "generic", tags)

(***************************************************************************)
(* The pages of each kind: create, and edit.                               *)
(***************************************************************************)

BugPageWithoutRow(l, row) == l \in exists

\* An edit page reads the detail row of its kind, which raises when there is none.
PageOpens(l, row) == l \in exists /\ row \in detail[l]

AutoPages(l, c) ==
    /\ c \in FormOffers("autos")
    /\ CreateAutoDraft(l, c, {}) \/ (PageOpens(l, "auto") /\ UpdateAutoDraft(l, c))
HomePages(l, c) ==
    CreateHomeDraft(l, c, {}) \/ (PageOpens(l, "home") /\ UpdateHomeDraft(l, c))
RentalPages(l, c) ==
    CreateRentalDraft(l, c, {}) \/ (PageOpens(l, "rental") /\ UpdateRentalDraft(l, c))
AgEquipmentPages(l, c) ==
    \/ CreateAgEquipmentDraft(l, c, {})
    \/ PageOpens(l, "ag_equipment") /\ UpdateAgEquipmentDraft(l, c)
LivestockPages(l, c) ==
    CreateLivestockDraft(l, c, {}) \/ (PageOpens(l, "livestock") /\ UpdateLivestockDraft(l, c))
PasturePages(l, c) ==
    CreatePastureDraft(l, c, {}) \/ (PageOpens(l, "pasture") /\ UpdatePastureDraft(l, c))
HomeGardenPages(l, c) ==
    \/ CreateHomeGardenDraft(l, c, {})
    \/ PageOpens(l, "home_goods") /\ UpdateHomeGardenDraft(l, c)
AppliancesPages(l, c) ==
    CreateAppliancesDraft(l, c, {}) \/ (PageOpens(l, "home_goods") /\ UpdateAppliancesDraft(l, c))

\* Its form offers every active leaf and asks for no facts.
GenericPage(l, c) == FactsGiven(c, FALSE) /\ CreateGenericDraft(l, c, {})

(***************************************************************************)
(* The unified pages.                                                      *)
(***************************************************************************)

\* _typed_forms_for_workflow: the form of "home_goods" offers home-garden leaves alone, so
\* no appliance is ever created or edited here.
TypedFormTakes(c, i) == Workflow(c, i) = "home_goods" => c \in FormOffers("home-garden")

\* create_unified_draft: the creator that the workflow names, then the tags.
CreateUnifiedDraft(l, c, tags) ==
    LET stored == tags \cup {c} IN
    /\ Tagging(c, tags)
    /\ CASE Workflow(c, "offer") = "auto"         -> CreateAutoDraft(l, c, stored)
         [] Workflow(c, "offer") = "home"         -> CreateHomeDraft(l, c, stored)
         [] Workflow(c, "offer") = "rental"       -> CreateRentalDraft(l, c, stored)
         [] Workflow(c, "offer") = "ag_equipment" -> CreateAgEquipmentDraft(l, c, stored)
         [] Workflow(c, "offer") = "livestock"    -> CreateLivestockDraft(l, c, stored)
         [] Workflow(c, "offer") = "pasture"      -> CreatePastureDraft(l, c, stored)
         [] Workflow(c, "offer") = "home_goods"   -> \/ CreateAppliancesDraft(l, c, stored)
                                                     \/ CreateHomeGardenDraft(l, c, stored)
         [] OTHER                                 -> CreateGenericDraft(l, c, stored)

\* create_listing: the page of an offer, and the page of a wanted post.
CreateListing(l, c, tags) ==
    \/ TypedFormTakes(c, "offer") /\ CreateUnifiedDraft(l, c, tags)
    \/ Tagging(c, tags) /\ CreateWantedDraft(l, c, tags \cup {c})

\* edit_listing: the workflow of what is read now; the page needs the row of its kind.
OpenUnified(t, l) ==
    /\ page[t] = NoPage /\ l \in exists /\ category[l] \in active
    /\ Workflow(category[l], intent[l]) \in detail[l]
    /\ TypedFormTakes(category[l], intent[l])
    /\ page' = [page EXCEPT ![t] = [listing |-> l, category |-> category[l],
                                    workflow |-> Workflow(category[l], intent[l])]]
    /\ UNCHANGED <<exists, category, vertical, intent, detail, tagged, shelfOf, active>>

\* update_unified_listing: the workflow is resolved again under the lock and must be
\* the same; the category written is the one that the page had read.
SaveUnified(t, tags) ==
    /\ page[t] # NoPage
    /\ LET l == page[t].listing
           c == page[t].category
       IN  /\ Editable(l)
           /\ category[l] \in active
           /\ Workflow(category[l], intent[l]) = page[t].workflow
           /\ page[t].workflow \in detail[l]
           /\ FactsGiven(c, intent[l] # "wanted")
           /\ Tagging(c, tags)
           /\ category' = [category EXCEPT ![l] = c]
           /\ vertical' = [vertical EXCEPT ![l] = VerticalOf[c]]
           /\ tagged' = [tagged EXCEPT ![l] = tags \cup {c}]
           /\ DepublishEdited(l)
    /\ page' = [page EXCEPT ![t] = NoPage]
    /\ UNCHANGED <<exists, intent, detail, active>>

\* "The listing workflow changed. Reload and retry.", or another check fails.
SaveFails(t) ==
    /\ page[t] # NoPage
    /\ page' = [page EXCEPT ![t] = NoPage]
    /\ UNCHANGED <<exists, category, vertical, intent, detail, tagged, shelfOf, active>>

\* _typed_details_for_listing: the row a submission validates.
SubmissionRow(l) ==
    IF intent[l] = "wanted" \/ "generic" \in detail[l] THEN "generic"
    ELSE IF vertical[l] = "farm-ranch"
         THEN IF "ag_equipment" \in detail[l] THEN "ag_equipment" ELSE "pasture"
    ELSE IF vertical[l] \in DOMAIN TypedWorkflow THEN TypedWorkflow[vertical[l]] ELSE "none"

\* Submission, review and the other steps of the lifecycle move the listing.
ShelfMoves(l, to) ==
    /\ l \in exists /\ shelfOf[l] # to
    /\ shelfOf[l] = "draft" => SubmissionRow(l) \in detail[l]
    /\ shelfOf' = [shelfOf EXCEPT ![l] = to]
    /\ UNCHANGED <<exists, category, vertical, intent, detail, tagged, active, page>>

\* Staff deactivate or reactivate a category.
ToggleLeaf(c) ==
    /\ active' = IF c \in active THEN active \ {c} ELSE active \cup {c}
    /\ UNCHANGED <<exists, category, vertical, intent, detail, tagged, shelfOf, page>>

TagSets == {tags \in SUBSET Leaves : Cardinality(tags) <= MaxTags}

DraftsNext ==
    \/ \E l \in Drafted, c \in Leaves :
          \/ AutoPages(l, c) \/ HomePages(l, c) \/ RentalPages(l, c) \/ AgEquipmentPages(l, c)
          \/ LivestockPages(l, c) \/ PasturePages(l, c) \/ HomeGardenPages(l, c)
          \/ AppliancesPages(l, c) \/ GenericPage(l, c)
          \/ \E tags \in TagSets : CreateListing(l, c, tags)
    \/ \E t \in Tabs : \/ SaveFails(t) \/ \E l \in Drafted : OpenUnified(t, l)
                       \/ \E tags \in TagSets : SaveUnified(t, tags)
    \/ \E l \in Drafted, to \in {"draft", "published", "away"} : ShelfMoves(l, to)
    \/ \E c \in Unstable : ToggleLeaf(c)

DraftsSpec == DraftsInit /\ [][DraftsNext]_draftsVars

(***************************************************************************)
(* Properties.                                                             *)
(***************************************************************************)

DraftsTypeOK ==
    /\ exists \subseteq Drafted /\ active \subseteq Leaves
    /\ category \in [Drafted -> Leaves]
    /\ vertical \in [Drafted -> {VerticalOf[c] : c \in Leaves}]
    /\ intent \in [Drafted -> {"offer", "wanted"}]
    /\ detail \in [Drafted -> SUBSET (Kinds \cup {"generic"})]
    /\ tagged \in [Drafted -> SUBSET Leaves]
    /\ shelfOf \in [Drafted -> {"draft", "published", "away"}]
    /\ page \in [Tabs -> {NoPage} \cup
                 [listing : Drafted, category : Leaves, workflow : Kinds \cup {"generic"}]]

\* Whatever pages of either generation write a listing, in whatever order, it keeps one
\* detail row, and that row is the one its submission will look for
\* (listings/services.py:499).
SubmissionFindsDetails == \A l \in exists : detail[l] = {SubmissionRow(l)}

\* The category, the tags and the vertical of a listing stay together, although a page
\* may save a category another page has changed since ("Controlled tags must use the
\* listing vertical.", listings/models.py:331).
OneVertical == \A l \in exists : \A c \in tagged[l] \cup {category[l]} :
                                    VerticalOf[c] = vertical[l]
=============================================================================
