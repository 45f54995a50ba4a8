----------------------------- MODULE Accounts -----------------------------
(***************************************************************************)
(* Sellers' accounts and their public profiles (accounts/services.py,      *)
(* middleware.py, admin.py): who is let in, and which revision of a        *)
(* profile the public sees.  Staff review revisions one by one or by a     *)
(* bulk action of the admin site, whose selection is read before its       *)
(* reviews, each of which is a transaction of its own.                     *)
(***************************************************************************)
EXTENDS Naturals, Sequences, SequencesExt

CONSTANTS
    Sellers,        \* users with a seller profile
    Reviewers,      \* staff who may review revisions
    Phones,         \* the numbers a seller may enter
    NoPhone,        \* the empty phone
    MaxSubmissions, \* bounds the revisions of a seller (no counterpart in the code)
    MaxChanges      \* bounds the changes of account status (no counterpart)

ASSUME AccountsAssumption ==
    /\ NoPhone \notin Phones
    /\ MaxSubmissions \in Nat /\ MaxChanges \in Nat

VARIABLES
    account,    \* User.account_status
    enabled,    \* User.is_active
    inFlight,   \* sellers with a request that the middleware has let in
    revisions,  \* the statuses of each seller's revisions, oldest first
    current,    \* SellerProfile.current_approved_revision, 0 when NULL
    phone,      \* SellerProfile.phone
    verified,   \* phone_verification_state is VERIFIED
    bulk,       \* the bulk action each reviewer has running: an outcome, and the
                \* revisions, named by seller and number, it has not come to yet
    changes,
    decided     \* history: the revisions approved so far, in order of decision

profileVars == <<revisions, current, phone, verified>>
accountVars == <<account, enabled, inFlight, profileVars, bulk, changes, decided>>

AccountStatuses == {"active", "suspended", "closed"}

\* require_active_account, the login form and the middleware agree on this.
Eligible(s) == account[s] = "active" /\ enabled[s]

NoBulk == [outcome |-> "none", left |-> {}]

AccountsInit ==
    /\ account = [s \in Sellers |-> "active"]
    /\ enabled = [s \in Sellers |-> TRUE]
    /\ inFlight = {}
    /\ revisions = [s \in Sellers |-> <<>>]
    /\ current = [s \in Sellers |-> 0]
    /\ phone = [s \in Sellers |-> NoPhone]
    /\ verified = [s \in Sellers |-> FALSE]
    /\ bulk = [r \in Reviewers |-> NoBulk]
    /\ changes = 0
    /\ decided = [s \in Sellers |-> <<>>]

\* AccountStatusMiddleware: the user is read once, at the start of the request.
LetIn(s) ==
    /\ s \notin inFlight /\ Eligible(s)
    /\ inFlight' = inFlight \cup {s}
    /\ UNCHANGED <<account, enabled, profileVars, bulk, changes, decided>>

\* submit_seller_profile_revision.  It asks the user that the request holds, and
\* the phone is written whatever its verification state; the constraint of the
\* table refuses only an empty one.
SubmitRevision(s, p) ==
    /\ s \in inFlight /\ Len(revisions[s]) < MaxSubmissions
    /\ verified[s] => p # NoPhone
    /\ inFlight' = inFlight \ {s}
    /\ phone' = [phone EXCEPT ![s] = p]
    /\ revisions' = [revisions EXCEPT ![s] = Append(@, "pending")]
    /\ UNCHANGED <<account, enabled, current, verified, bulk, changes, decided>>

\* A request that ends otherwise: a page is read, or a check or constraint fails.
EndRequest(s) ==
    /\ s \in inFlight
    /\ inFlight' = inFlight \ {s}
    /\ UNCHANGED <<account, enabled, profileVars, bulk, changes, decided>>

\* The admin action reads the pending revisions of its selection.
SelectRevisions(r, s, chosen, outcome) ==
    /\ bulk[r] = NoBulk /\ chosen # {}
    /\ \A n \in chosen : revisions[s][n] = "pending"
    /\ bulk' = [bulk EXCEPT ![r] =
           [outcome |-> outcome, left |-> {s} \X chosen]]
    /\ UNCHANGED <<account, enabled, inFlight, profileVars, changes, decided>>

BugStillPending(s, n) == TRUE
StillPending(s, n) == revisions[s][n] = "pending"

\* A bulk action comes to the newest revision first.
Upcoming(r, s, n) == <<s, n>> \in bulk[r].left /\ \A p \in bulk[r].left : p[2] <= n

LeftAfter(r, reviewed) ==
    IF bulk[r].left = reviewed THEN NoBulk
    ELSE [outcome |-> bulk[r].outcome, left |-> bulk[r].left \ reviewed]

\* review_seller_profile_revision: the revision is locked and must still be pending.
ReviewNext(r) ==
    /\ \E s \in Sellers : \E n \in DOMAIN revisions[s] :
         /\ Upcoming(r, s, n) /\ StillPending(s, n)
         /\ revisions' = [revisions EXCEPT ![s][n] = bulk[r].outcome]
         /\ bulk' = [bulk EXCEPT ![r] = LeftAfter(r, {<<s, n>>})]
         /\ IF bulk[r].outcome = "approved"
            THEN /\ current' = [current EXCEPT ![s] = n]
                 /\ decided' = [decided EXCEPT ![s] = Append(@, n)]
            ELSE UNCHANGED <<current, decided>>
    /\ UNCHANGED <<account, enabled, inFlight, phone, verified, changes>>

\* A revision another reviewer has decided since raises: the rest of the
\* selection is not reviewed, and what was reviewed stays so.
AbandonBulk(r) ==
    /\ \E s \in Sellers : \E n \in DOMAIN revisions[s] :
           Upcoming(r, s, n) /\ ~ StillPending(s, n)
    /\ bulk' = [bulk EXCEPT ![r] = NoBulk]
    /\ UNCHANGED <<account, enabled, inFlight, profileVars, changes, decided>>

\* change_account_status: a status it already has changes nothing.
ChangeAccountStatus(s, to) ==
    /\ changes < MaxChanges /\ account[s] # to
    /\ account' = [account EXCEPT ![s] = to]
    /\ enabled' = [enabled EXCEPT ![s] = (to = "active")]
    /\ changes' = changes + 1
    /\ UNCHANGED <<inFlight, profileVars, bulk, decided>>

\* The user form of the admin site leaves is_active, not account_status, editable.
EditEnabled(s) ==
    /\ changes < MaxChanges
    /\ enabled' = [enabled EXCEPT ![s] = ~ @]
    /\ changes' = changes + 1
    /\ UNCHANGED <<account, inFlight, profileVars, bulk, decided>>

\* Staff set phone_verification_state in the admin site.
VerifyPhone(s) ==
    /\ phone[s] # NoPhone /\ ~ verified[s]
    /\ verified' = [verified EXCEPT ![s] = TRUE]
    /\ UNCHANGED <<account, enabled, inFlight, revisions, current, phone, bulk, changes,
                   decided>>

\* A request to the page of the seller's own profile.
SellerProfilePage(s) ==
    LetIn(s) \/ EndRequest(s) \/ \E p \in Phones \cup {NoPhone} : SubmitRevision(s, p)

\* The queue of the management console reviews one revision, found pending before.
ProfileReviewQueue(r, s, n, outcome) == SelectRevisions(r, s, {n}, outcome)

\* The admin site reviews what is selected there.
ReviewSelected(r, s, chosen, outcome) == SelectRevisions(r, s, chosen, outcome)

AccountsNext ==
    \/ \E s \in Sellers : \/ SellerProfilePage(s) \/ EditEnabled(s) \/ VerifyPhone(s)
                          \/ \E to \in AccountStatuses : ChangeAccountStatus(s, to)
    \/ \E r \in Reviewers : \/ ReviewNext(r) \/ AbandonBulk(r)
                            \/ \E s \in Sellers, outcome \in {"approved", "rejected"} :
                                  \/ \E n \in DOMAIN revisions[s] :
                                         ProfileReviewQueue(r, s, n, outcome)
                                  \/ \E chosen \in SUBSET DOMAIN revisions[s] :
                                         ReviewSelected(r, s, chosen, outcome)

AccountsSpec == AccountsInit /\ [][AccountsNext]_accountVars

\* public_seller_profile: what the public sees of a seller, 0 when nothing.
PublicRevision(s) == IF Eligible(s) THEN current[s] ELSE 0

(***************************************************************************)
(* Properties.                                                             *)
(***************************************************************************)

AccountsTypeOK ==
    /\ account \in [Sellers -> AccountStatuses]
    /\ enabled \in [Sellers -> BOOLEAN]
    /\ inFlight \subseteq Sellers
    /\ \A s \in Sellers : /\ revisions[s] \in Seq({"pending", "approved", "rejected"})
                          /\ current[s] \in 0 .. Len(revisions[s])
                          /\ ToSet(decided[s]) \subseteq DOMAIN revisions[s]
    /\ phone \in [Sellers -> Phones \cup {NoPhone}]
    /\ verified \in [Sellers -> BOOLEAN]
    /\ \A r \in Reviewers : \A p \in bulk[r].left : p[1] \in Sellers /\ p[2] \in DOMAIN revisions[p[1]]
    /\ changes \in 0 .. MaxChanges

\* The public sees the revision that was approved last, and no revision is decided
\* twice, whatever bulk actions overlap: a revision is locked and its status read
\* again before each review.
PublicRevisionApproved ==
    \A s \in Sellers :
        /\ IsInjective(decided[s])
        /\ current[s] = IF decided[s] = <<>> THEN 0 ELSE Last(decided[s])
        /\ \A n \in DOMAIN revisions[s] : revisions[s][n] = "approved" <=> n \in ToSet(decided[s])
=============================================================================
