----------------------------- MODULE Site_proofs ------------------------------
(***************************************************************************)
(* The types of the components that share no state, for any values of      *)
(* their constants: what each of them keeps in its rows, its forms and its *)
(* locks stays of its kind, alone and beside the others.                   *)
(***************************************************************************)
EXTENDS MCSite, Media_proofs, Pages_proofs, Sellers_proofs, Staff_proofs

\* Every date a writer sets is a day, and every reminder is of a term and an offset.
LEMMA StorefrontTypeInit == ASSUME StorefrontInit PROVE StorefrontTypeOK
<1>1. 0 \in Day /\ 1 \in 1 .. LastDay
  BY StorefrontAssumption DEF Day
<1>2. QED
  BY <1>1 DEF StorefrontInit, StorefrontTypeOK

LEMMA StorefrontTypeStep ==
    ASSUME StorefrontTypeOK, [StorefrontNext]_storefrontVars
    PROVE  StorefrontTypeOK'
<1> USE StorefrontAssumption
<1>0. /\ today \in 1 .. LastDay /\ today \in Day /\ today + Term \in Day /\ today + Retention \in Day
      /\ expiry \in Day /\ 0 \in Day
  BY DEF StorefrontTypeOK, Day
<1>1. ASSUME NEW until \in Day, ToPublished(until) PROVE StorefrontTypeOK'
  BY <1>0, <1>1 DEF ToPublished, KeepFirst, Rest, StorefrontTypeOK
<1>2. CASE PublishForTerm \/ PublishAsIs \/ RenewTerm
  BY <1>0, <1>1, <1>2 DEF PublishForTerm, PublishAsIs, RenewTerm, RenewedUntil
<1>3. CASE Withdraw \/ ExpireListings \/ ClearSold
  BY <1>0, <1>3 DEF Withdraw, ExpireListings, ClearSold, Unpublish, Rest, StorefrontTypeOK
<1>4. CASE Sell
  BY <1>0, <1>4 DEF Sell, Unpublish, Rest, StorefrontTypeOK
<1>5. CASE ScheduleReminders
  <2>1. DueReminders \subseteq Day \X Offsets
    BY <1>0 DEF DueReminders
  <2>2. reminders' \subseteq Day \X Offsets
    BY <1>5, <2>1 DEF ScheduleReminders, StorefrontTypeOK
  <2>3. QED
    BY <1>5, <2>2 DEF ScheduleReminders, Rest, datesVars, StorefrontTypeOK
<1>6. CASE Hold \/ LetGo \/ ToggleAccount \/ ToggleReference \/ UNCHANGED storefrontVars
  BY <1>6 DEF Hold, LetGo, ToggleAccount, ToggleReference, storefrontVars, datesVars, StorefrontTypeOK
<1>7. CASE DayPasses
  BY <1>0, <1>7 DEF DayPasses, datesVars, StorefrontTypeOK
<1>8. QED
  BY <1>2, <1>3, <1>4, <1>5, <1>6, <1>7 DEF StorefrontNext

-----------------------------------------------------------------------------
\* Each component's own invariant, where its types do not hold of themselves: an index is
\* in range because of what the rows it points into are, a lock is of its kind because of
\* who takes it.
SiteInv ==
    /\ part \in Parts
    /\ part = "media" => MediaInv
    /\ part = "accounts" => AccountsInv
    /\ part = "reports" => ReportsInv
    /\ part = "storefront" => StorefrontTypeOK
    /\ part = "drafts" => DraftsTypeOK
    /\ part = "browse" => BrowseTypeOK
    /\ part = "live" => SearchInv
    /\ part = "geography" => ImportInv
    /\ part = "picker" => FormInv

LEMMA SiteInvInit == SiteInit => SiteInv
<1> SUFFICES ASSUME SiteInit PROVE SiteInv
  OBVIOUS
<1>1. part = "browse" => BrowseInit
  BY DEF SiteInit
<1>2. QED
  BY <1>1, InitInv, AccountsInvInit, ReportsInvInit, StorefrontTypeInit, DraftsTypeInit, BrowseTypeInit,
     SearchInit, ImportInit, FormInvInit DEF SiteInit, SiteInv

\* A step of the whole is a step of the component that runs, or leaves it alone.
LEMMA StepOfPart ==
    ASSUME part \in Parts, [SiteNext]_siteVars
    PROVE  /\ part' = part
           /\ part = "media" => [MediaNext]_mediaVars
           /\ part = "accounts" => [AccountsNext]_accountVars
           /\ part = "reports" => [ReportsNext]_reportsVars
           /\ part = "storefront" => [StorefrontNext]_storefrontVars
           /\ part = "drafts" => [DraftsNext]_draftsVars
           /\ part = "browse" => [BrowseNext]_browseVars
           /\ part = "live" => [LiveNext]_liveVars
           /\ part = "geography" => [GeographyNext]_geographyVars
           /\ part = "picker" => [PickerNext]_pickerVars
<1>1. CASE UNCHANGED siteVars
  BY <1>1 DEF siteVars
<1>2. CASE SiteNext
  BY <1>2 DEF SiteNext, Only
<1>3. QED
  BY <1>1, <1>2

LEMMA SiteInvStep == SiteInv /\ [SiteNext]_siteVars => SiteInv'
<1> SUFFICES ASSUME SiteInv, [SiteNext]_siteVars PROVE SiteInv'
  OBVIOUS
<1>1. part \in Parts /\ part' = part
  BY StepOfPart DEF SiteInv
<1>2. part = "media" => MediaInv'
  BY StepOfPart, MediaStep DEF SiteInv
<1>3. part = "accounts" => AccountsInv'
  BY StepOfPart, AccountsInvStep DEF SiteInv
<1>4. part = "reports" => ReportsInv'
  BY StepOfPart, ReportsInvStep DEF SiteInv
<1>5. part = "storefront" => StorefrontTypeOK'
  BY StepOfPart, StorefrontTypeStep DEF SiteInv
<1>6. part = "drafts" => DraftsTypeOK'
  BY StepOfPart, DraftsTypeStep DEF SiteInv
<1>7. part = "browse" => BrowseTypeOK'
  BY StepOfPart, BrowseTypeStep DEF SiteInv
<1>8. part = "live" => SearchInv'
  BY StepOfPart, SearchStep DEF SiteInv
<1>9. part = "geography" => ImportInv'
  BY StepOfPart, ImportStep DEF SiteInv
<1>10. part = "picker" => FormInv'
  BY StepOfPart, FormInvStep DEF SiteInv
<1>11. QED
  BY <1>1, <1>2, <1>3, <1>4, <1>5, <1>6, <1>7, <1>8, <1>9, <1>10 DEF SiteInv

\* Whatever the component, its rows, forms, locks and histories stay of their kind, and
\* what belongs together stays together: the revision a profile shows is one it has
\* (review_seller_profile_revision), a lock is held by the request that is in a
\* transaction (_locked_owned_draft).
THEOREM SiteTypes == SiteSpec => []SiteTypeOK
<1>1. SiteInv => SiteTypeOK
  <2> SUFFICES ASSUME SiteInv PROVE SiteTypeOK
    OBVIOUS
  <2>1. MediaInv => MediaTypeOK
    BY DEF MediaInv, TypeInv
  <2>2. SearchInv => LiveTypeOK
    BY DEF SearchInv, SearchTypes
  <2>3. ImportInv => GeographyTypeOK
    BY DEF ImportInv
  <2>4. QED
    BY <2>1, <2>2, <2>3, AccountsInvTypes, ReportsInvTypes, FormInvTypes DEF SiteInv, SiteTypeOK
<1>2. QED
  BY <1>1, SiteInvInit, SiteInvStep, PTL DEF SiteSpec
=============================================================================
