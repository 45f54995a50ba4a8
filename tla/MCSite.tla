------------------------------- MODULE MCSite -------------------------------
(***************************************************************************)
(* Nine components that share no state, checked in one run: each          *)
(* behaviour is a behaviour of one of them, named by part, while the       *)
(* others rest in an initial state.                                        *)
(***************************************************************************)
EXTENDS Media, Accounts, Reports, Storefront, Drafts, Browse, LiveSearch, Geography,
        CountyPicker

VARIABLE part

siteVars == <<part, mediaVars, accountVars, reportsVars, storefrontVars, draftsVars, browseVars,
              liveVars, geographyVars, pickerVars>>

Parts == {"media", "accounts", "reports", "storefront", "drafts", "browse", "live", "geography",
          "picker"}

\* Where a component has several initial states, it rests in one of them.
SiteInit ==
    /\ part \in Parts
    /\ MediaInit /\ AccountsInit /\ ReportsInit /\ StorefrontInit /\ DraftsInit /\ GeographyInit
    /\ part # "live" => address = [NoUrl EXCEPT !.path = "/page/"]
    /\ LiveInit
    /\ part # "picker" => state = Unset
    /\ PickerInit
    /\ IF part = "browse" THEN BrowseInit
       ELSE /\ route = "wanted"
            /\ query = CHOOSE q \in QueriesOf({""}, {""}, {"second"}) :
                           \A n \in DOMAIN q \ {"state"} : q[n] = BlankOf(n)

\* The components but p rest.
Only(p) ==
    /\ part = p
    /\ UNCHANGED part
    /\ p # "media" => UNCHANGED mediaVars
    /\ p # "accounts" => UNCHANGED accountVars
    /\ p # "reports" => UNCHANGED reportsVars
    /\ p # "storefront" => UNCHANGED storefrontVars
    /\ p # "drafts" => UNCHANGED draftsVars
    /\ p # "browse" => UNCHANGED browseVars
    /\ p # "live" => UNCHANGED liveVars
    /\ p # "geography" => UNCHANGED geographyVars
    /\ p # "picker" => UNCHANGED pickerVars

SiteNext ==
    \/ Only("media") /\ MediaNext
    \/ Only("accounts") /\ AccountsNext
    \/ Only("reports") /\ ReportsNext
    \/ Only("storefront") /\ StorefrontNext
    \/ Only("drafts") /\ DraftsNext
    \/ Only("browse") /\ BrowseNext
    \/ Only("live") /\ LiveNext
    \/ Only("geography") /\ GeographyNext
    \/ Only("picker") /\ PickerNext

SiteSpec == SiteInit /\ [][SiteNext]_siteVars

\* The types of the component that runs, each of which also says which of its locks,
\* timers and histories belong together.
SiteTypeOK ==
    /\ part \in Parts
    /\ part = "media" => MediaTypeOK
    /\ part = "accounts" => AccountsTypeOK
    /\ part = "reports" => ReportsTypeOK
    /\ part = "storefront" => StorefrontTypeOK
    /\ part = "drafts" => DraftsTypeOK
    /\ part = "browse" => BrowseTypeOK
    /\ part = "live" => LiveTypeOK
    /\ part = "geography" => GeographyTypeOK
    /\ part = "picker" => PickerTypeOK

\* Those who triage reports are compared only for equality.
StaffSymmetry == Permutations(Staff)

CONSTANTS p1, p2, st1, st2, k1, k2, k3, y1, y2

\* Two counties of one state.
OneState == p1 :> 1 @@ p2 :> 1
TwoPlaces == {p1, p2}

\* A state of two counties and one of one; a ZIP code of two counties, and one of one.
CountiesInTwo == st1 :> {k1, k2} @@ st2 :> {k3}
PairsOfTwo == {<<y1, k1>>, <<y1, k2>>, <<y2, k1>>}
=============================================================================
