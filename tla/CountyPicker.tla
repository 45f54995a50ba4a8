---------------------------- MODULE CountyPicker ----------------------------
(***************************************************************************)
(* static/js/generic-listing.js on a listing form: a state, a ZIP code, a  *)
(* primary county and nearby ones.  The selects are filled by a load of    *)
(* the state's counties; two boxes search them by name.  What the server   *)
(* makes of the form is the clean method of GenericListingForm.  A county  *)
(* belongs to one state; names, the quote and the category are left out.   *)
(***************************************************************************)
EXTENDS Naturals, FiniteSets

CONSTANTS
    CountiesIn,     \* the active counties of each active state
    ZipCodes,       \* five-digit ZIP codes the seller may type
    Crosswalk,      \* the <<ZIP code, county>> pairs of the reference data
    Unset           \* nothing typed, chosen or asked

ASSUME CountyPickerAssumption ==
    /\ \A s, t \in DOMAIN CountiesIn : s # t => CountiesIn[s] \cap CountiesIn[t] = {}
    /\ Unset \notin DOMAIN CountiesIn \cup ZipCodes \cup UNION {CountiesIn[s] : s \in DOMAIN CountiesIn}

VARIABLES
    state, zip,     \* the values of the two controls
    zipTyped,       \* the ZIP was typed and has not fired its change event yet
    options,        \* the counties the primary select offers
    nearbyOptions,  \* the counties the nearby select offers
    primary, nearby,\* the selected options
    marks,          \* allCountiesData: is a county marked as verified, for those loaded
    loads,          \* the loads of counties that are not aborted
    outdated,       \* the last load failed: what was loaded is of an earlier one
    found           \* box -> its last results, kept when the list is closed

placeVars == <<state, zip, zipTyped>>
selectVars == <<options, nearbyOptions, primary, nearby, marks>>
pickerVars == <<placeVars, selectVars, loads, outdated, found>>

Boxes == {"primary", "nearby"}
States == DOMAIN CountiesIn
AllCounties == UNION {CountiesIn[s] : s \in States}
OffersOf(s) == IF s = Unset THEN {} ELSE CountiesIn[s]
LoadOf(s, z) == [state |-> s, zip |-> z, read |-> FALSE, primary |-> Unset, nearby |-> {}]
Offered(c, set) == IF c \in set THEN c ELSE Unset

\* zip_county_candidates.
Candidates(z, s) == {c \in OffersOf(s) : <<z, c>> \in Crosswalk}

\* generic_county_candidates without a query: every county of the state, each with its mark.
CountiesAnswer(s, z) == [c \in OffersOf(s) |-> c \in Candidates(z, s)]

\* GenericListingForm.clean on the counties, and the choices of its fields.
Placeable(s, z, c, others) ==
    /\ s # Unset /\ z # Unset
    /\ c \in Candidates(z, s)
    /\ others \subseteq Candidates(z, s) \ {c}

FirstLoad(s, z) == IF s = Unset THEN {} ELSE {LoadOf(s, z)}
NothingFound == [b \in Boxes |-> {}]

\* A new listing, or the edit of a saved one, as the server renders it: the script has
\* loaded nothing yet, and begins to.
PickerInit ==
    /\ state \in States \cup {Unset}
    /\ zip \in IF state = Unset THEN {Unset} ELSE ZipCodes
    /\ zipTyped = FALSE
    /\ options = OffersOf(state) /\ nearbyOptions = options
    /\ primary \in IF state = Unset THEN {Unset} ELSE options
    /\ nearby \in SUBSET options
    /\ state = Unset \/ Placeable(state, zip, primary, nearby)
    /\ marks = <<>>
    /\ loads = FirstLoad(state, zip) /\ outdated = FALSE
    /\ found = NothingFound

BugLoadsRace == loads

\* countyLoadRequest?.abort(): an aborted load ends without effect, also in its body.
LoadsAborted == {}

StartLoad(s, z) ==
    /\ loads' = LoadsAborted \cup {LoadOf(s, z)}
    /\ UNCHANGED outdated

\* The state picker, whose matches are those of any answer; a state that would clear a
\* placement is confirmed first.  The options of the primary select stay.
ChooseState(s) ==
    /\ s # state
    /\ state' = s
    /\ primary' = Unset /\ nearby' = {} /\ nearbyOptions' = {}
    /\ StartLoad(s, zip)
    /\ UNCHANGED <<zip, zipTyped, options, marks, found>>

TypeZip(z) ==
    /\ z # zip
    /\ zip' = z /\ zipTyped' = TRUE
    /\ UNCHANGED <<state, selectVars, loads, outdated, found>>

\* The change event; with no state there is nothing to load.
ZipChanges ==
    /\ zipTyped /\ zipTyped' = FALSE
    /\ IF state = Unset THEN UNCHANGED <<loads, outdated>> ELSE StartLoad(state, zip)
    /\ UNCHANGED <<state, zip, selectVars, found>>

\* The head of the answer: the selection is read before the body is awaited.
LoadAnswered(r) ==
    /\ r \in loads /\ ~ r.read
    /\ loads' = (loads \ {r}) \cup {[r EXCEPT !.read = TRUE, !.primary = primary, !.nearby = nearby]}
    /\ UNCHANGED <<placeVars, selectVars, outdated, found>>

\* What is not offered any more is not selected any more.
LoadRead(r) ==
    /\ r \in loads /\ r.read
    /\ options' = OffersOf(r.state) /\ nearbyOptions' = options'
    /\ primary' = Offered(r.primary, options')
    /\ nearby' = r.nearby \cap options'
    /\ marks' = CountiesAnswer(r.state, r.zip)
    /\ loads' = loads \ {r} /\ outdated' = FALSE
    /\ UNCHANGED <<placeVars, found>>

\* No network, an error status, or a body that breaks off: the marks stay as they were.
LoadFails(r) ==
    /\ r \in loads
    /\ loads' = loads \ {r} /\ outdated' = TRUE
    /\ UNCHANGED <<placeVars, selectVars, found>>

\* Typing in the box of the primary county undoes the choice.
TypeCounty ==
    /\ primary # Unset /\ primary' = Unset
    /\ UNCHANGED <<placeVars, options, nearbyOptions, nearby, marks, loads, outdated, found>>

\* searchCounties and searchAdditionalCounties, whose answer holds at most 20 of the names
\* that match.  A search is one step: the next one, or another state, aborts it.
Search(b) ==
    /\ state # Unset
    /\ \E matches \in SUBSET OffersOf(state) : found' = [found EXCEPT ![b] = matches]
    /\ UNCHANGED <<placeVars, selectVars, loads, outdated>>

\* The chosen county leaves the nearby ones.
NearbyBeside(c) == nearby \ {c}

\* A result is clicked, or Enter takes one, of a closed list too: its county is selected
\* if the select offers it, and nothing otherwise.
SelectCounty(c) ==
    /\ c \in found["primary"]
    /\ primary' = Offered(c, options)
    /\ nearby' = NearbyBeside(c)
    /\ UNCHANGED <<placeVars, options, nearbyOptions, marks, loads, outdated, found>>

SelectAdditionalCounty(c) ==
    /\ c \in found["nearby"] /\ c # primary /\ c \in nearbyOptions
    /\ nearby' = nearby \cup {c}
    /\ UNCHANGED <<placeVars, options, nearbyOptions, primary, marks, loads, outdated, found>>

\* The button of a tag; there are tags for the counties that are loaded.
RemoveTag(c) ==
    /\ c \in nearby \cap DOMAIN marks
    /\ nearby' = nearby \ {c}
    /\ UNCHANGED <<placeVars, options, nearbyOptions, primary, marks, loads, outdated, found>>

\* A form with errors, here or elsewhere, comes back as it was posted, and the script begins
\* anew; the fields take the state's counties only.
Post ==
    /\ options' = OffersOf(state) /\ nearbyOptions' = options'
    /\ primary' = Offered(primary, options') /\ nearby' = nearby \cap options'
    /\ marks' = <<>>
    /\ loads' = FirstLoad(state, zip) /\ outdated' = FALSE /\ zipTyped' = FALSE
    /\ found' = NothingFound
    /\ UNCHANGED <<state, zip>>

\* verificationText, of the primary county and of each tag.
SaysVerified(c) == zip # Unset /\ c \in DOMAIN marks /\ marks[c]

PickerNext ==
    \/ ZipChanges \/ TypeCounty \/ Post
    \/ \E s \in States : ChooseState(s)
    \/ \E z \in ZipCodes \cup {Unset} : TypeZip(z)
    \/ \E r \in loads : LoadAnswered(r) \/ LoadRead(r) \/ LoadFails(r)
    \/ \E b \in Boxes : Search(b)
    \/ \E c \in AllCounties : SelectCounty(c) \/ SelectAdditionalCounty(c) \/ RemoveTag(c)

PickerSpec == PickerInit /\ [][PickerNext]_pickerVars

-----------------------------------------------------------------------------
\* The controls hold what their columns allow; one load is awaited at a time, for the
\* state that is chosen; the nearby select offers no less than it has selected.
PickerTypeOK ==
    /\ state \in States \cup {Unset} /\ zip \in ZipCodes \cup {Unset}
    /\ zipTyped \in BOOLEAN /\ outdated \in BOOLEAN
    /\ options \subseteq AllCounties /\ nearbyOptions \subseteq AllCounties
    /\ primary \in options \cup {Unset} /\ nearby \subseteq nearbyOptions
    /\ DOMAIN marks \subseteq AllCounties /\ \A c \in DOMAIN marks : marks[c] \in BOOLEAN
    /\ Cardinality(loads) <= 1 /\ \A r \in loads : r.state = state
    /\ \A b \in Boxes : found[b] \subseteq AllCounties

\* A form whose every county is marked as verified for its ZIP code is accepted, whatever
\* states, codes, results and answers came before, unless a load is awaited or has failed
\* or the code is still being typed: an answer to an earlier code or state, or a county
\* selected twice, would let the marks say what the clean method denies.
VerifiedIsAccepted ==
    /\ loads = {} /\ ~ outdated /\ ~ zipTyped
    /\ primary # Unset /\ \A c \in nearby \cup {primary} : SaysVerified(c)
    => Placeable(state, zip, primary, nearby)
=============================================================================
