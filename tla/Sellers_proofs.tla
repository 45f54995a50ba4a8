--------------------------- MODULE Sellers_proofs ----------------------------
(***************************************************************************)
(* Proofs about what sellers write, for any sellers, reviewers, listings   *)
(* and pages.  Profiles: whatever bulk actions overlap, the public sees    *)
(* the revision that was approved last.  Drafts: whatever pages of either  *)
(* generation write a listing, its one detail row is the one a submission  *)
(* looks for, and its category and tags are of its vertical.               *)
(***************************************************************************)
EXTENDS Accounts, Drafts, SequenceTheorems, TLAPS

RevisionStatus == {"pending", "approved", "rejected"}

\* The rows that the property reads, and what a bulk action holds of them: the numbers
\* in its selection are of revisions, since revisions are never deleted.
RowsTyped ==
    /\ revisions \in [Sellers -> Seq(RevisionStatus)]
    /\ current \in [Sellers -> Nat]
    /\ decided \in [Sellers -> Seq(Nat)]
    /\ bulk \in [Reviewers -> [outcome : {"none", "approved", "rejected"},
                               left : SUBSET (Sellers \X Nat)]]
    /\ \A r \in Reviewers : bulk[r].left # {} => bulk[r].outcome # "none"
    /\ \A s \in Sellers : ToSet(decided[s]) \subseteq DOMAIN revisions[s]

\* One number added at the end of a sequence without repetitions.
LEMMA NewNumberAppended ==
    ASSUME NEW s \in Seq(Nat), NEW n \in Nat, IsInjective(s), n \notin ToSet(s)
    PROVE  /\ Append(s, n) \in Seq(Nat) /\ Append(s, n) # <<>> /\ Last(Append(s, n)) = n
           /\ IsInjective(Append(s, n)) /\ ToSet(Append(s, n)) = ToSet(s) \cup {n}
<1>1. /\ Append(s, n) \in Seq(Nat) /\ Len(Append(s, n)) = Len(s) + 1 /\ Len(s) \in Nat
      /\ DOMAIN Append(s, n) = 1 .. Len(s) + 1 /\ DOMAIN s = 1 .. Len(s)
      /\ \A i \in 1 .. Len(s) : Append(s, n)[i] = s[i]
      /\ Append(s, n)[Len(s) + 1] = n
  BY AppendProperties, LenProperties
<1>2. Append(s, n) # <<>>
  BY <1>1
<1>3. Last(Append(s, n)) = n
  BY <1>1 DEF Last
<1>4. \A i \in 1 .. Len(s) : s[i] # n
  BY <1>1 DEF ToSet
<1>5. IsInjective(Append(s, n))
  <2> SUFFICES ASSUME NEW a \in 1 .. Len(s) + 1, NEW b \in 1 .. Len(s) + 1,
                      Append(s, n)[a] = Append(s, n)[b]
               PROVE  a = b
    BY <1>1 DEF IsInjective
  <2>1. CASE a \in 1 .. Len(s) /\ b \in 1 .. Len(s)
    BY <1>1, <2>1 DEF IsInjective
  <2>2. CASE a = Len(s) + 1 \/ b = Len(s) + 1
    BY <1>1, <1>4, <2>2
  <2>3. QED
    BY <1>1, <2>1, <2>2
<1>6. ToSet(Append(s, n)) = ToSet(s) \cup {n}
  <2>1. \A x : x \in ToSet(Append(s, n)) <=> \E i \in 1 .. Len(s) + 1 : Append(s, n)[i] = x
    BY <1>1 DEF ToSet
  <2>2. \A x : x \in ToSet(s) <=> \E i \in 1 .. Len(s) : s[i] = x
    BY <1>1 DEF ToSet
  <2>3. \A i : i \in 1 .. Len(s) + 1 <=> i \in 1 .. Len(s) \/ i = Len(s) + 1
    BY <1>1
  <2>4. QED
    BY <1>1, <2>1, <2>2, <2>3
<1>7. QED
  BY <1>1, <1>2, <1>3, <1>5, <1>6

ProfileInv == RowsTyped /\ PublicRevisionApproved

LEMMA ProfileInit == AccountsInit => ProfileInv
<1> SUFFICES ASSUME AccountsInit PROVE ProfileInv
  OBVIOUS
<1>1. IsInjective(<<>>) /\ ToSet(<<>>) = {}
  BY DEF IsInjective, ToSet
<1>2. RowsTyped
  BY <1>1 DEF AccountsInit, RowsTyped, NoBulk
<1>3. QED
  BY <1>1, <1>2 DEF AccountsInit, ProfileInv, PublicRevisionApproved

\* A seller's submission adds a revision that nobody has decided.
LEMMA SubmissionKeeps ==
    ASSUME ProfileInv, NEW s \in Sellers, NEW p, SubmitRevision(s, p)
    PROVE  ProfileInv'
<1>1. revisions' = [revisions EXCEPT ![s] = Append(@, "pending")] /\ UNCHANGED <<current, decided, bulk>>
  BY DEF SubmitRevision
<1>2. RowsTyped'
  <2>1. revisions' \in [Sellers -> Seq(RevisionStatus)]
    BY <1>1 DEF ProfileInv, RowsTyped, RevisionStatus
  <2>2. \A q \in Sellers : DOMAIN revisions[q] \subseteq DOMAIN revisions'[q]
    BY <1>1 DEF ProfileInv, RowsTyped
  <2>3. QED
    BY <1>1, <2>1, <2>2 DEF ProfileInv, RowsTyped
<1>3. ASSUME NEW q \in Sellers, NEW n \in DOMAIN revisions'[q]
      PROVE  revisions'[q][n] = "approved" <=> n \in ToSet(decided[q])
  <2>1. /\ revisions[q] \in Seq(RevisionStatus) /\ decided[q] \in Seq(Nat)
        /\ \A m \in DOMAIN revisions[q] : revisions[q][m] = "approved" <=> m \in ToSet(decided[q])
    BY DEF ProfileInv, RowsTyped, PublicRevisionApproved
  <2>2. CASE n \in DOMAIN revisions[q]
    <3>1. revisions'[q][n] = revisions[q][n]
      BY <1>1, <2>1, <2>2 DEF ProfileInv, RowsTyped
    <3>2. QED
      BY <2>1, <2>2, <3>1
  <2>3. CASE n \notin DOMAIN revisions[q]
    <3>1. revisions'[q][n] = "pending" /\ n = Len(revisions[q]) + 1
      BY <1>1, <1>3, <2>1, <2>3 DEF ProfileInv, RowsTyped
    <3>2. n \notin ToSet(decided[q])
      BY <2>3 DEF ProfileInv, RowsTyped
    <3>3. QED
      BY <3>1, <3>2
  <2>4. QED
    BY <2>2, <2>3
<1>4. QED
  BY <1>1, <1>2, <1>3 DEF ProfileInv, PublicRevisionApproved

\* A review decides a revision that is pending, and therefore in no history yet.
LEMMA ReviewKeeps ==
    ASSUME ProfileInv, NEW r \in Reviewers, ReviewNext(r)
    PROVE  ProfileInv'
<1> USE DEF ProfileInv
<1>1. PICK s \in Sellers, n \in Nat :
        /\ n \in DOMAIN revisions[s]
        /\ Upcoming(r, s, n) /\ revisions[s][n] = "pending"
        /\ revisions' = [revisions EXCEPT ![s][n] = bulk[r].outcome]
        /\ bulk' = [bulk EXCEPT ![r] = LeftAfter(r, {<<s, n>>})]
        /\ IF bulk[r].outcome = "approved"
           THEN /\ current' = [current EXCEPT ![s] = n]
                /\ decided' = [decided EXCEPT ![s] = Append(@, n)]
           ELSE UNCHANGED <<current, decided>>
  <2>1. \A q \in Sellers : DOMAIN revisions[q] \subseteq Nat
    BY DEF RowsTyped
  <2>2. QED
    BY <2>1, Zenon DEF ReviewNext, StillPending
<1>2. /\ revisions[s] \in Seq(RevisionStatus) /\ n \in Nat
      /\ decided[s] \in Seq(Nat) /\ bulk[r].outcome \in {"approved", "rejected"}
  BY <1>1 DEF RowsTyped, Upcoming
<1>3. /\ revisions' \in [Sellers -> Seq(RevisionStatus)]
      /\ \A q \in Sellers : DOMAIN revisions'[q] = DOMAIN revisions[q]
      /\ \A q \in Sellers \ {s} : revisions'[q] = revisions[q]
      /\ revisions'[s][n] = bulk[r].outcome
      /\ \A m \in DOMAIN revisions[s] \ {n} : revisions'[s][m] = revisions[s][m]
  BY <1>1, <1>2 DEF RowsTyped, RevisionStatus
<1>4. /\ bulk' \in [Reviewers -> [outcome : {"none", "approved", "rejected"}, left : SUBSET (Sellers \X Nat)]]
      /\ \A q \in Reviewers : bulk'[q].left # {} => bulk'[q].outcome # "none"
  <2>1. LeftAfter(r, {<<s, n>>}) \in [outcome : {"none", "approved", "rejected"}, left : SUBSET (Sellers \X Nat)]
    BY DEF RowsTyped, NoBulk, LeftAfter
  <2>2. LeftAfter(r, {<<s, n>>}).left # {} => LeftAfter(r, {<<s, n>>}).outcome # "none"
    BY DEF RowsTyped, NoBulk, LeftAfter
  <2>3. QED
    BY <1>1, <2>1, <2>2 DEF RowsTyped
<1>5. n \notin ToSet(decided[s]) /\ IsInjective(decided[s])
  BY <1>1 DEF PublicRevisionApproved
<1>6. CASE bulk[r].outcome = "approved"
  <2>1. /\ current' \in [Sellers -> Nat] /\ decided' \in [Sellers -> Seq(Nat)]
        /\ current'[s] = n /\ decided'[s] = Append(decided[s], n)
        /\ \A q \in Sellers \ {s} : current'[q] = current[q] /\ decided'[q] = decided[q]
    <3>1. current' = [current EXCEPT ![s] = n] /\ decided' = [decided EXCEPT ![s] = Append(@, n)]
      BY <1>1, <1>6
    <3>2. Append(decided[s], n) \in Seq(Nat)
      BY <1>2
    <3>3. QED
      BY <1>2, <3>1, <3>2 DEF RowsTyped
  <2>2. /\ decided'[s] # <<>> /\ Last(decided'[s]) = n /\ IsInjective(decided'[s])
        /\ ToSet(decided'[s]) = ToSet(decided[s]) \cup {n}
    <3>1. PICK former : former = decided[s]
      OBVIOUS
    <3>2. former \in Seq(Nat) /\ n \in Nat /\ IsInjective(former) /\ n \notin ToSet(former)
      BY <1>2, <1>5, <3>1
    <3>3. /\ Append(former, n) # <<>> /\ Last(Append(former, n)) = n
          /\ IsInjective(Append(former, n)) /\ ToSet(Append(former, n)) = ToSet(former) \cup {n}
      BY <3>2, NewNumberAppended
    <3>4. decided'[s] = Append(former, n)
      BY <2>1, <3>1
    <3>5. QED
      BY <3>1, <3>3, <3>4
  <2>3. RowsTyped'
    <3>1. n \in DOMAIN revisions[s]
      BY <1>1
    <3>2. ASSUME NEW q \in Sellers PROVE ToSet(decided'[q]) \subseteq DOMAIN revisions'[q]
      <4>1. CASE q = s
        BY <1>3, <2>2, <3>1, <4>1 DEF RowsTyped
      <4>2. CASE q # s
        BY <1>3, <2>1, <4>2 DEF RowsTyped
      <4>3. QED
        BY <4>1, <4>2
    <3>3. QED
      BY <1>3, <1>4, <2>1, <3>2 DEF RowsTyped
  <2>4. \A m \in DOMAIN revisions'[s] : revisions'[s][m] = "approved" <=> m \in ToSet(decided'[s])
    BY <1>3, <1>6, <2>2 DEF PublicRevisionApproved
  <2>5. ASSUME NEW q \in Sellers
        PROVE  /\ IsInjective(decided'[q])
               /\ current'[q] = IF decided'[q] = <<>> THEN 0 ELSE Last(decided'[q])
               /\ \A m \in DOMAIN revisions'[q] : revisions'[q][m] = "approved" <=> m \in ToSet(decided'[q])
    <3>1. CASE q = s
      BY <2>1, <2>2, <2>4, <3>1
    <3>2. CASE q # s
      <4>1. current'[q] = current[q] /\ decided'[q] = decided[q] /\ revisions'[q] = revisions[q]
        BY <1>3, <2>1, <3>2
      <4>2. QED
        BY <4>1 DEF PublicRevisionApproved
    <3>3. QED
      BY <3>1, <3>2
  <2>6. QED
    BY <2>3, <2>5 DEF PublicRevisionApproved
<1>7. CASE bulk[r].outcome = "rejected"
  <2>1. UNCHANGED <<current, decided>>
    BY <1>1, <1>7
  <2>2. RowsTyped'
    BY <1>3, <1>4, <2>1 DEF RowsTyped
  <2>3. \A m \in DOMAIN revisions'[s] : revisions'[s][m] = "approved" <=> m \in ToSet(decided[s])
    BY <1>3, <1>5, <1>7 DEF PublicRevisionApproved
  <2>4. QED
    BY <1>3, <2>1, <2>2, <2>3 DEF PublicRevisionApproved
<1>8. QED
  BY <1>2, <1>6, <1>7

\* What bulk actions begin with or leave undone changes no revision.
LEMMA SelectionKeeps ==
    ASSUME ProfileInv, NEW r \in Reviewers,
           \/ AbandonBulk(r)
           \/ \E s \in Sellers, outcome \in {"approved", "rejected"} :
                 \E chosen \in SUBSET DOMAIN revisions[s] : SelectRevisions(r, s, chosen, outcome)
    PROVE  ProfileInv'
<1> USE DEF ProfileInv
<1>1. UNCHANGED <<revisions, current, decided>>
  BY DEF AbandonBulk, SelectRevisions, profileVars
<1>2. /\ bulk' \in [Reviewers -> [outcome : {"none", "approved", "rejected"}, left : SUBSET (Sellers \X Nat)]]
      /\ \A q \in Reviewers : bulk'[q].left # {} => bulk'[q].outcome # "none"
  <2>1. CASE AbandonBulk(r)
    BY <2>1 DEF AbandonBulk, RowsTyped, NoBulk
  <2>2. ASSUME NEW s \in Sellers, NEW outcome \in {"approved", "rejected"},
               NEW chosen \in SUBSET DOMAIN revisions[s], SelectRevisions(r, s, chosen, outcome)
        PROVE  /\ bulk' \in [Reviewers -> [outcome : {"none", "approved", "rejected"}, left : SUBSET (Sellers \X Nat)]]
               /\ \A q \in Reviewers : bulk'[q].left # {} => bulk'[q].outcome # "none"
    <3>1. chosen \subseteq Nat
      BY DEF RowsTyped
    <3>2. [outcome |-> outcome, left |-> {s} \X chosen] \in
             [outcome : {"none", "approved", "rejected"}, left : SUBSET (Sellers \X Nat)]
      BY <3>1
    <3>3. bulk' = [bulk EXCEPT ![r] = [outcome |-> outcome, left |-> {s} \X chosen]]
      BY <2>2 DEF SelectRevisions
    <3>4. QED
      BY <3>2, <3>3 DEF RowsTyped
  <2>3. QED
    BY <2>1, <2>2
<1>3. QED
  BY <1>1, <1>2 DEF RowsTyped, PublicRevisionApproved

LEMMA ProfileStep ==
    ASSUME ProfileInv, [AccountsNext]_accountVars
    PROVE  ProfileInv'
<1>1. CASE UNCHANGED <<revisions, current, decided, bulk>>
  BY <1>1 DEF ProfileInv, RowsTyped, PublicRevisionApproved
<1>2. ASSUME NEW s \in Sellers,
             \/ SellerProfilePage(s) \/ EditEnabled(s) \/ VerifyPhone(s)
             \/ \E to \in AccountStatuses : ChangeAccountStatus(s, to)
      PROVE  ProfileInv'
  <2>1. CASE \E p \in Phones \cup {NoPhone} : SubmitRevision(s, p)
    BY <2>1, SubmissionKeeps
  <2>2. CASE LetIn(s) \/ EndRequest(s)
    BY <1>1, <2>2 DEF LetIn, EndRequest, profileVars
  <2>3. CASE EditEnabled(s) \/ VerifyPhone(s) \/ \E to \in AccountStatuses : ChangeAccountStatus(s, to)
    BY <1>1, <2>3 DEF EditEnabled, VerifyPhone, ChangeAccountStatus, profileVars
  <2>4. QED
    BY <1>2, <2>1, <2>2, <2>3 DEF SellerProfilePage
<1>3. ASSUME NEW r \in Reviewers, ReviewNext(r) \/ AbandonBulk(r)
      PROVE  ProfileInv'
  BY <1>3, ReviewKeeps, SelectionKeeps
<1>4. ASSUME NEW r \in Reviewers, NEW s \in Sellers, NEW outcome \in {"approved", "rejected"},
             \/ \E n \in DOMAIN revisions[s] : ProfileReviewQueue(r, s, n, outcome)
             \/ \E chosen \in SUBSET DOMAIN revisions[s] : ReviewSelected(r, s, chosen, outcome)
      PROVE  ProfileInv'
  <2>1. \E chosen \in SUBSET DOMAIN revisions[s] : SelectRevisions(r, s, chosen, outcome)
    BY <1>4, Zenon DEF ProfileReviewQueue, ReviewSelected
  <2>2. QED
    BY <2>1, SelectionKeeps
<1>5. CASE UNCHANGED accountVars
  BY <1>1, <1>5 DEF accountVars, profileVars
<1>6. QED
  BY <1>2, <1>3, <1>4, <1>5 DEF AccountsNext

\* The strengthening: the rows typed, and the property with the history it is told by.
THEOREM ProfileInvariant == AccountsSpec => []ProfileInv
BY ProfileInit, ProfileStep, PTL DEF AccountsSpec

\* The public sees the revision approved last, whatever bulk actions overlap
\* (review_seller_profile_revision).
THEOREM LastApprovalIsPublic == AccountsSpec => []PublicRevisionApproved
<1>1. ProfileInv => PublicRevisionApproved
  BY DEF ProfileInv
<1>2. QED
  BY <1>1, ProfileInvariant, PTL

\* Whoever has a bulk action running has selected revisions that exist.
SelectedExist == \A r \in Reviewers : \A p \in bulk[r].left :
                     p[1] \in Sellers /\ p[2] \in DOMAIN revisions[p[1]]

\* The switches and requests, of which the profiles say nothing.
AccountsTyped ==
    /\ account \in [Sellers -> AccountStatuses] /\ enabled \in [Sellers -> BOOLEAN]
    /\ inFlight \subseteq Sellers
    /\ phone \in [Sellers -> Phones \cup {NoPhone}] /\ verified \in [Sellers -> BOOLEAN]
    /\ changes \in 0 .. MaxChanges

AccountsInv == ProfileInv /\ SelectedExist /\ AccountsTyped

\* A revision is never deleted, and what a step adds to a selection is there when it does.
LEMMA SelectionsStep ==
    ASSUME ProfileInv, SelectedExist, [AccountsNext]_accountVars
    PROVE  SelectedExist'
<1>1. ASSUME NEW s \in Sellers, NEW p, SubmitRevision(s, p) PROVE SelectedExist'
  <2>1. \A q \in Sellers : DOMAIN revisions[q] \subseteq DOMAIN revisions'[q]
    BY <1>1 DEF SubmitRevision, ProfileInv, RowsTyped
  <2>2. QED
    BY <1>1, <2>1 DEF SubmitRevision, SelectedExist
<1>2. ASSUME NEW r \in Reviewers, ReviewNext(r) PROVE SelectedExist'
  <2>1. PICK s \in Sellers : \E n \in DOMAIN revisions[s] :
                               /\ revisions' = [revisions EXCEPT ![s][n] = bulk[r].outcome]
                               /\ bulk' = [bulk EXCEPT ![r] = LeftAfter(r, {<<s, n>>})]
    BY <1>2 DEF ReviewNext
  <2>2. \A q \in Sellers : DOMAIN revisions'[q] = DOMAIN revisions[q]
    BY <2>1 DEF ProfileInv, RowsTyped
  <2>3. \A q \in Reviewers : bulk'[q].left \subseteq bulk[q].left
    BY <2>1 DEF LeftAfter, NoBulk, ProfileInv, RowsTyped
  <2>4. QED
    BY <2>2, <2>3 DEF SelectedExist
<1>3. ASSUME NEW r \in Reviewers, AbandonBulk(r) PROVE SelectedExist'
  BY <1>3 DEF AbandonBulk, NoBulk, profileVars, SelectedExist, ProfileInv, RowsTyped
<1>4. ASSUME NEW r \in Reviewers, NEW s \in Sellers, NEW chosen \in SUBSET DOMAIN revisions[s], NEW outcome,
             SelectRevisions(r, s, chosen, outcome)
      PROVE  SelectedExist'
  BY <1>4 DEF SelectRevisions, profileVars, SelectedExist, ProfileInv, RowsTyped
<1>5. CASE UNCHANGED <<bulk, revisions>>
  BY <1>5 DEF SelectedExist
<1>6. ASSUME NEW s \in Sellers, \/ LetIn(s) \/ EndRequest(s) \/ EditEnabled(s) \/ VerifyPhone(s)
                               \/ \E to \in AccountStatuses : ChangeAccountStatus(s, to)
      PROVE  SelectedExist'
  BY <1>5, <1>6 DEF LetIn, EndRequest, EditEnabled, VerifyPhone, ChangeAccountStatus, profileVars
<1>7. ASSUME NEW r \in Reviewers, NEW s \in Sellers, NEW outcome,
             \/ \E n \in DOMAIN revisions[s] : ProfileReviewQueue(r, s, n, outcome)
             \/ \E chosen \in SUBSET DOMAIN revisions[s] : ReviewSelected(r, s, chosen, outcome)
      PROVE  SelectedExist'
  <2>1. \E chosen \in SUBSET DOMAIN revisions[s] : SelectRevisions(r, s, chosen, outcome)
    BY <1>7, Zenon DEF ProfileReviewQueue, ReviewSelected
  <2>2. QED
    BY <1>4, <2>1
<1>8. CASE UNCHANGED accountVars
  BY <1>5, <1>8 DEF accountVars, profileVars
<1>9. QED
  BY <1>1, <1>2, <1>3, <1>6, <1>7, <1>8 DEF AccountsNext, SellerProfilePage

LEMMA AccountsStep ==
    ASSUME AccountsTyped, [AccountsNext]_accountVars
    PROVE  AccountsTyped'
<1> USE AccountsAssumption DEF AccountsTyped
<1>1. ASSUME NEW s \in Sellers, \/ SellerProfilePage(s) \/ EditEnabled(s) \/ VerifyPhone(s)
                               \/ \E to \in AccountStatuses : ChangeAccountStatus(s, to)
      PROVE  AccountsTyped'
  <2>1. CASE LetIn(s) \/ EndRequest(s)
    BY <2>1 DEF LetIn, EndRequest, profileVars
  <2>2. ASSUME NEW p \in Phones \cup {NoPhone}, SubmitRevision(s, p) PROVE AccountsTyped'
    BY <2>2 DEF SubmitRevision
  <2>3. CASE EditEnabled(s) \/ VerifyPhone(s)
    <3>1. changes' \in 0 .. MaxChanges
      BY <2>3 DEF EditEnabled, VerifyPhone
    <3>2. enabled' \in [Sellers -> BOOLEAN] /\ verified' \in [Sellers -> BOOLEAN]
      BY <2>3, Zenon DEF EditEnabled, VerifyPhone, profileVars
    <3>3. QED
      BY <2>3, <3>1, <3>2 DEF EditEnabled, VerifyPhone, profileVars
  <2>4. ASSUME NEW to \in AccountStatuses, ChangeAccountStatus(s, to) PROVE AccountsTyped'
    BY <2>4 DEF ChangeAccountStatus, profileVars
  <2>5. QED
    BY <1>1, <2>1, <2>2, <2>3, <2>4 DEF SellerProfilePage
<1>2. ASSUME NEW r \in Reviewers, ReviewNext(r) \/ AbandonBulk(r) PROVE AccountsTyped'
  BY <1>2 DEF ReviewNext, AbandonBulk, profileVars
<1>3. ASSUME NEW r, NEW s, NEW outcome,
             \/ \E n \in DOMAIN revisions[s] : ProfileReviewQueue(r, s, n, outcome)
             \/ \E chosen \in SUBSET DOMAIN revisions[s] : ReviewSelected(r, s, chosen, outcome)
      PROVE  AccountsTyped'
  BY <1>3 DEF ProfileReviewQueue, ReviewSelected, SelectRevisions, profileVars
<1>4. CASE UNCHANGED accountVars
  BY <1>4 DEF accountVars, profileVars
<1>5. QED
  BY <1>1, <1>2, <1>3, <1>4 DEF AccountsNext

LEMMA AccountsInvInit == AccountsInit => AccountsInv
<1> SUFFICES ASSUME AccountsInit PROVE AccountsInv
  OBVIOUS
<1>1. SelectedExist
  BY DEF AccountsInit, SelectedExist, NoBulk
<1>2. AccountsTyped
  BY AccountsAssumption DEF AccountsInit, AccountsTyped, AccountStatuses
<1>3. QED
  BY <1>1, <1>2, ProfileInit DEF AccountsInv

LEMMA AccountsInvStep == ASSUME AccountsInv, [AccountsNext]_accountVars PROVE AccountsInv'
BY ProfileStep, SelectionsStep, AccountsStep DEF AccountsInv

LEMMA AccountsInvTypes == ASSUME AccountsInv PROVE AccountsTypeOK
<1> USE DEF AccountsInv, ProfileInv
<1>1. ASSUME NEW s \in Sellers PROVE current[s] \in 0 .. Len(revisions[s])
  <2>1. revisions[s] \in Seq(RevisionStatus) /\ decided[s] \in Seq(Nat) /\ ToSet(decided[s]) \subseteq 1 .. Len(revisions[s])
    BY DEF RowsTyped
  <2>2. decided[s] # <<>> => Last(decided[s]) \in ToSet(decided[s])
    BY <2>1 DEF Last, ToSet
  <2>3. QED
    BY <2>1, <2>2 DEF PublicRevisionApproved
<1>2. QED
  BY <1>1 DEF RowsTyped, RevisionStatus, SelectedExist, AccountsTyped, AccountsTypeOK

-----------------------------------------------------------------------------
\* Drafts.

\* The row of a typed kind is accepted in few verticals.
LEMMA AcceptedIn ==
    /\ Kinds = {"auto", "home", "rental", "ag_equipment", "pasture", "livestock", "home_goods"}
    /\ Accepts["auto"] = {"autos"} /\ Accepts["home"] = {"real-estate"}
    /\ Accepts["rental"] = {"rentals"} /\ Accepts["ag_equipment"] = {"farm-ranch"}
    /\ Accepts["pasture"] = {"farm-ranch"} /\ Accepts["livestock"] = {"livestock-animals"}
    /\ Accepts["home_goods"] = {"home-garden", "appliances"}
BY DEF Accepts, Kinds

\* The kind that the vertical calls for is one whose row it accepts.
LEMMA TypedRows ==
    /\ DOMAIN TypedWorkflow = {"autos", "rentals", "appliances", "real-estate", "livestock-animals", "home-garden"}
    /\ TypedWorkflow["autos"] = "auto" /\ TypedWorkflow["rentals"] = "rental"
    /\ TypedWorkflow["appliances"] = "home_goods" /\ TypedWorkflow["real-estate"] = "home"
    /\ TypedWorkflow["livestock-animals"] = "livestock" /\ TypedWorkflow["home-garden"] = "home_goods"
BY DEF TypedWorkflow

LEMMA WorkflowAccepts ==
    ASSUME NEW c \in Leaves, NEW i
    PROVE  /\ Workflow(c, i) \in Kinds \cup {"generic"}
           /\ Workflow(c, i) # "generic" => i # "wanted" /\ VerticalOf[c] \in Accepts[Workflow(c, i)]
<1>1. VerticalOf["pasture"] = "farm-ranch" /\ VerticalOf["tractors"] = "farm-ranch"
  BY DEF VerticalOf
<1>2. CASE i = "wanted"
  BY <1>2 DEF Workflow
<1>3. CASE i # "wanted" /\ c \in {"pasture", "tractors"}
  BY <1>1, <1>3, AcceptedIn DEF Workflow
<1>4. CASE i # "wanted" /\ c \notin {"pasture", "tractors"}
  <2>1. Workflow(c, i) = IF VerticalOf[c] \in DOMAIN TypedWorkflow THEN TypedWorkflow[VerticalOf[c]]
                         ELSE "generic"
    BY <1>4 DEF Workflow
  <2>2. QED
    BY <1>4, <2>1, TypedRows, AcceptedIn
<1>5. QED
  BY <1>2, <1>3, <1>4

Rows == Kinds \cup {"generic"}

\* What one detail row must be for the listing it belongs to.
RowFits(row, v, i) == row # "generic" => i # "wanted" /\ v \in Accepts[row]

DraftShapes ==
    /\ exists \subseteq Drafted /\ active \subseteq Leaves
    /\ DOMAIN category = Drafted /\ DOMAIN vertical = Drafted /\ DOMAIN intent = Drafted
    /\ DOMAIN detail = Drafted /\ DOMAIN tagged = Drafted /\ DOMAIN page = Tabs

\* A listing that exists has one detail row, and its rows agree about its vertical.
DraftKept(l) ==
    /\ category[l] \in Leaves /\ vertical[l] = VerticalOf[category[l]]
    /\ \A c \in tagged[l] : VerticalOf[c] = vertical[l]
    /\ \E row \in Rows : detail[l] = {row} /\ RowFits(row, vertical[l], intent[l])

\* A page that has been opened holds the workflow of the category it has read: the
\* intent of a listing never changes, so the category it saves calls for the same row.
PageRead(t) ==
    page[t] # NoPage => /\ page[t].listing \in exists /\ page[t].category \in Leaves
                        /\ page[t].workflow = Workflow(page[t].category, intent[page[t].listing])

DraftsInv ==
    /\ DraftShapes
    /\ \A l \in exists : DraftKept(l)
    /\ \A t \in Tabs : PageRead(t)

LEMMA InsertKeeps ==
    ASSUME DraftsInv, NEW l \in Drafted, NEW c \in Leaves, NEW i, NEW row \in Rows, NEW tags,
           Insert(l, c, i, row, tags), RowFits(row, VerticalOf[c], i),
           \A g \in tags : VerticalOf[g] = VerticalOf[c]
    PROVE  DraftsInv'
<1>1. /\ l \notin exists /\ exists' = exists \cup {l} /\ category' = [category EXCEPT ![l] = c]
      /\ vertical' = [vertical EXCEPT ![l] = VerticalOf[c]] /\ intent' = [intent EXCEPT ![l] = i]
      /\ detail' = [detail EXCEPT ![l] = {row}] /\ tagged' = [tagged EXCEPT ![l] = tags]
      /\ UNCHANGED <<active, page>>
  BY DEF Insert
<1>2. DraftShapes /\ DraftShapes'
  BY <1>1 DEF DraftsInv, DraftShapes
<1>3. ASSUME NEW k \in exists' PROVE DraftKept(k)'
  <2>1. CASE k = l
    <3>1. category'[l] = c /\ vertical'[l] = VerticalOf[c] /\ intent'[l] = i /\ detail'[l] = {row}
          /\ tagged'[l] = tags
      BY <1>1, <1>2 DEF DraftShapes
    <3>2. QED
      BY <2>1, <3>1 DEF DraftKept
  <2>2. CASE k # l
    <3>1. /\ k \in exists /\ category'[k] = category[k] /\ vertical'[k] = vertical[k]
          /\ intent'[k] = intent[k] /\ detail'[k] = detail[k] /\ tagged'[k] = tagged[k]
      BY <1>1, <1>2, <2>2 DEF DraftShapes
    <3>2. QED
      BY <3>1 DEF DraftsInv, DraftKept
  <2>3. QED
    BY <2>1, <2>2
<1>4. ASSUME NEW t \in Tabs PROVE PageRead(t)'
  <2>1. CASE page[t] # NoPage
    <3>1. PICK k \in exists : k = page[t].listing
      BY <2>1 DEF DraftsInv, PageRead
    <3>2. intent'[k] = intent[k] /\ k \in exists' /\ page'[t] = page[t]
      BY <1>1, <1>2, <3>1 DEF DraftShapes
    <3>3. page[t].category \in Leaves /\ page[t].workflow = Workflow(page[t].category, intent[k])
      BY <2>1, <3>1 DEF DraftsInv, PageRead
    <3>4. QED
      BY <3>1, <3>2, <3>3 DEF PageRead
  <2>2. CASE page[t] = NoPage
    BY <1>1, <2>2 DEF PageRead
  <2>3. QED
    BY <2>1, <2>2
<1>5. QED
  BY <1>2, <1>3, <1>4 DEF DraftsInv

\* A unified save rewrites the category, the vertical and the tags together.
LEMMA SaveKeeps ==
    ASSUME DraftsInv, NEW t \in Tabs, NEW tags, SaveUnified(t, tags)
    PROVE  DraftsInv'
<1>1. page[t] # NoPage /\ PageRead(t) /\ DraftShapes
  BY DEF SaveUnified, DraftsInv
<1>2. PICK l \in exists : l = page[t].listing
  BY <1>1 DEF PageRead
<1>3. PICK c \in Leaves : c = page[t].category
  BY <1>1 DEF PageRead
<1>4. PICK row : row = page[t].workflow
  OBVIOUS
<1>5. /\ row \in detail[l] /\ Tagging(c, tags)
      /\ category' = [category EXCEPT ![l] = c] /\ vertical' = [vertical EXCEPT ![l] = VerticalOf[c]]
      /\ tagged' = [tagged EXCEPT ![l] = tags \cup {c}] /\ page' = [page EXCEPT ![t] = NoPage]
      /\ UNCHANGED <<exists, intent, detail, active>>
  BY <1>2, <1>3, <1>4 DEF SaveUnified
<1>6. row = Workflow(c, intent[l])
  BY <1>1, <1>2, <1>3, <1>4 DEF PageRead
<1>7. row \in Rows /\ RowFits(row, VerticalOf[c], intent[l])
  BY <1>6, WorkflowAccepts DEF Rows, RowFits
<1>8. detail[l] = {row} /\ l \in Drafted
  BY <1>1, <1>5 DEF DraftsInv, DraftKept, DraftShapes
<1>9. \A g \in tags \cup {c} : VerticalOf[g] = VerticalOf[c]
  BY <1>5 DEF Tagging, TagChoices, FormOffers
<1>10. /\ category'[l] = c /\ vertical'[l] = VerticalOf[c] /\ tagged'[l] = tags \cup {c}
       /\ \A k \in exists \ {l} : category'[k] = category[k] /\ vertical'[k] = vertical[k]
                                  /\ tagged'[k] = tagged[k]
  BY <1>1, <1>5, <1>8 DEF DraftShapes
<1>11. DraftShapes'
  BY <1>1, <1>5 DEF DraftShapes
<1>12. ASSUME NEW k \in exists' PROVE DraftKept(k)'
  <2>1. CASE k = l
    <3>1. category'[k] = c /\ vertical'[k] = VerticalOf[c] /\ tagged'[k] = tags \cup {c}
          /\ detail'[k] = {row} /\ intent'[k] = intent[l]
      BY <1>5, <1>8, <1>10, <2>1
    <3>2. QED
      BY <1>7, <1>9, <2>1, <3>1 DEF DraftKept
  <2>2. CASE k # l
    <3>1. /\ k \in exists /\ category'[k] = category[k] /\ vertical'[k] = vertical[k]
          /\ intent'[k] = intent[k] /\ detail'[k] = detail[k] /\ tagged'[k] = tagged[k]
      BY <1>5, <1>10, <2>2
    <3>2. QED
      BY <3>1 DEF DraftsInv, DraftKept
  <2>3. QED
    BY <2>1, <2>2
<1>13. ASSUME NEW s \in Tabs PROVE PageRead(s)'
  <2>1. page'[s] = NoPage \/ page'[s] = page[s]
    BY <1>1, <1>5 DEF DraftShapes
  <2>2. QED
    BY <1>5, <2>1 DEF DraftsInv, PageRead
<1>14. QED
  BY <1>11, <1>12, <1>13 DEF DraftsInv

\* An update of a typed kind, from a page that has found the row of its kind.
LEMMA RewriteKeeps ==
    ASSUME DraftsInv, NEW l \in exists, NEW c \in Leaves, NEW row \in Kinds, row \in detail[l],
           Rewrite(l, c, row)
    PROVE  DraftsInv'
<1>1. /\ VerticalOf[c] = vertical[l] /\ vertical[l] \in Accepts[row] /\ category' = [category EXCEPT ![l] = c]
      /\ detail' = [detail EXCEPT ![l] = @ \cup {row}] /\ UNCHANGED <<exists, vertical, intent, tagged, active, page>>
  BY DEF Rewrite
<1>2. DraftShapes /\ DraftKept(l) /\ l \in Drafted
  BY DEF DraftsInv, DraftShapes
<1>3. row \in Rows /\ detail[l] = {row}
  BY <1>2 DEF Rows, DraftKept
<1>4. RowFits(row, VerticalOf[c], intent[l])
  <2>1. PICK found \in Rows : detail[l] = {found} /\ RowFits(found, vertical[l], intent[l])
    BY <1>2 DEF DraftKept
  <2>2. found = row
    BY <1>3, <2>1
  <2>3. QED
    BY <1>1, <2>1, <2>2
<1>5. /\ DOMAIN category' = Drafted /\ DOMAIN detail' = Drafted
      /\ category'[l] = c /\ detail'[l] = {row}
      /\ \A k \in exists \ {l} : category'[k] = category[k] /\ detail'[k] = detail[k]
  BY <1>1, <1>2, <1>3 DEF DraftShapes
<1>6. DraftShapes'
  BY <1>1, <1>2, <1>5 DEF DraftShapes
<1>7. ASSUME NEW k \in exists' PROVE DraftKept(k)'
  <2>1. CASE k = l
    BY <1>1, <1>2, <1>3, <1>4, <1>5, <2>1 DEF DraftKept
  <2>2. CASE k # l
    <3>1. category'[k] = category[k] /\ detail'[k] = detail[k] /\ k \in exists
      BY <1>1, <1>5, <2>2
    <3>2. QED
      BY <1>1, <3>1 DEF DraftsInv, DraftKept
  <2>3. QED
    BY <2>1, <2>2
<1>8. \A t \in Tabs : PageRead(t)'
  BY <1>1 DEF DraftsInv, PageRead
<1>9. QED
  BY <1>6, <1>7, <1>8 DEF DraftsInv

\* A row of each kind is inserted into a vertical that accepts it.
LEMMA InsertInKeeps ==
    ASSUME DraftsInv, NEW l \in Drafted, NEW c \in Leaves, NEW row \in Kinds, NEW tags, NEW v,
           v \in Accepts[row], InsertIn(v, l, c, row, tags),
           \A g \in tags : VerticalOf[g] = VerticalOf[c]
    PROVE  DraftsInv'
<1>1. Insert(l, c, "offer", row, tags) /\ VerticalOf[c] = v
  BY DEF InsertIn
<1>2. RowFits(row, VerticalOf[c], "offer") /\ row \in Rows
  BY <1>1 DEF RowFits, Rows
<1>3. QED
  BY <1>1, <1>2, InsertKeeps

LEMMA GenericKeeps ==
    ASSUME DraftsInv, NEW l \in Drafted, NEW c \in Leaves, NEW i, NEW tags,
           Insert(l, c, i, "generic", tags), \A g \in tags : VerticalOf[g] = VerticalOf[c]
    PROVE  DraftsInv'
<1>1. RowFits("generic", VerticalOf[c], i) /\ "generic" \in Rows
  BY DEF RowFits, Rows
<1>2. QED
  BY <1>1, InsertKeeps

\* The pages of each kind.
LEMMA PagesKeep ==
    ASSUME DraftsInv, NEW l \in Drafted, NEW c \in Leaves,
           \/ AutoPages(l, c) \/ HomePages(l, c) \/ RentalPages(l, c) \/ AgEquipmentPages(l, c)
           \/ LivestockPages(l, c) \/ PasturePages(l, c) \/ HomeGardenPages(l, c)
           \/ AppliancesPages(l, c) \/ GenericPage(l, c)
    PROVE  DraftsInv'
<1>1. ASSUME NEW row \in Kinds, PageOpens(l, row), Rewrite(l, c, row) PROVE DraftsInv'
  BY <1>1, RewriteKeeps DEF PageOpens
<1>2. ASSUME NEW row \in Kinds, NEW v \in Accepts[row], InsertIn(v, l, c, row, {}) PROVE DraftsInv'
  BY <1>2, InsertInKeeps
<1>3. CASE AutoPages(l, c)
  BY <1>1, <1>2, <1>3, AcceptedIn DEF AutoPages, CreateAutoDraft, UpdateAutoDraft
<1>4. CASE HomePages(l, c)
  BY <1>1, <1>2, <1>4, AcceptedIn DEF HomePages, CreateHomeDraft, UpdateHomeDraft, RewriteIn
<1>5. CASE RentalPages(l, c)
  BY <1>1, <1>2, <1>5, AcceptedIn DEF RentalPages, CreateRentalDraft, UpdateRentalDraft, RewriteIn
<1>6. CASE AgEquipmentPages(l, c)
  BY <1>1, <1>2, <1>6, AcceptedIn DEF AgEquipmentPages, CreateAgEquipmentDraft, UpdateAgEquipmentDraft, RewriteIn
<1>7. CASE LivestockPages(l, c)
  BY <1>1, <1>2, <1>7, AcceptedIn DEF LivestockPages, CreateLivestockDraft, UpdateLivestockDraft, RewriteIn
<1>8. CASE PasturePages(l, c)
  BY <1>1, <1>2, <1>8, AcceptedIn DEF PasturePages, CreatePastureDraft, UpdatePastureDraft, RewriteIn
<1>9. CASE HomeGardenPages(l, c)
  BY <1>1, <1>2, <1>9, AcceptedIn DEF HomeGardenPages, CreateHomeGardenDraft, UpdateHomeGardenDraft, RewriteIn
<1>10. CASE AppliancesPages(l, c)
  BY <1>1, <1>2, <1>10, AcceptedIn DEF AppliancesPages, CreateAppliancesDraft, UpdateAppliancesDraft, RewriteIn
<1>11. CASE GenericPage(l, c)
  BY <1>11, GenericKeeps DEF GenericPage, CreateGenericDraft
<1>12. QED
  BY <1>3, <1>4, <1>5, <1>6, <1>7, <1>8, <1>9, <1>10, <1>11

\* The unified page of a new listing, an offer or a wanted post.
LEMMA CreateKeeps ==
    ASSUME DraftsInv, NEW l \in Drafted, NEW c \in Leaves, NEW tags, CreateListing(l, c, tags)
    PROVE  DraftsInv'
<1> DEFINE stored == tags \cup {c}
<1>1. Tagging(c, tags)
  BY DEF CreateListing, CreateUnifiedDraft
<1>2. \A g \in stored : VerticalOf[g] = VerticalOf[c]
  BY <1>1 DEF Tagging, TagChoices, FormOffers
<1> HIDE DEF stored
<1>3. CASE CreateWantedDraft(l, c, stored)
  BY <1>2, <1>3, GenericKeeps DEF CreateWantedDraft
<1>4. CASE CreateUnifiedDraft(l, c, tags)
  <2>1. ASSUME NEW row \in Kinds, NEW v \in Accepts[row], InsertIn(v, l, c, row, stored) PROVE DraftsInv'
    BY <1>2, <2>1, InsertInKeeps
  <2>2. \/ CreateAutoDraft(l, c, stored) \/ CreateHomeDraft(l, c, stored)
        \/ CreateRentalDraft(l, c, stored) \/ CreateAgEquipmentDraft(l, c, stored)
        \/ CreateLivestockDraft(l, c, stored) \/ CreatePastureDraft(l, c, stored)
        \/ CreateAppliancesDraft(l, c, stored) \/ CreateHomeGardenDraft(l, c, stored)
        \/ CreateGenericDraft(l, c, stored)
    <3>1. Workflow(c, "offer") \in Kinds \cup {"generic"}
      BY WorkflowAccepts
    <3>2. QED
      BY <1>4, <3>1, AcceptedIn DEF CreateUnifiedDraft, stored
  <2>3. CASE CreateGenericDraft(l, c, stored)
    BY <1>2, <2>3, GenericKeeps DEF CreateGenericDraft
  <2>4. QED
    BY <2>1, <2>2, <2>3, AcceptedIn
       DEF CreateAutoDraft, CreateHomeDraft, CreateRentalDraft, CreateAgEquipmentDraft,
           CreateLivestockDraft, CreatePastureDraft, CreateAppliancesDraft, CreateHomeGardenDraft
<1>5. QED
  BY <1>3, <1>4 DEF CreateListing, stored

LEMMA OpenKeeps ==
    ASSUME DraftsInv, NEW t \in Tabs, NEW l \in Drafted, OpenUnified(t, l)
    PROVE  DraftsInv'
<1> DEFINE read == [listing |-> l, category |-> category[l], workflow |-> Workflow(category[l], intent[l])]
<1>1. /\ l \in exists /\ page' = [page EXCEPT ![t] = read]
      /\ UNCHANGED <<exists, category, vertical, intent, detail, tagged, active>>
  BY DEF OpenUnified
<1>2. DraftShapes /\ DraftShapes' /\ category[l] \in Leaves
  BY <1>1 DEF DraftsInv, DraftShapes, DraftKept
<1>3. read.listing = l /\ read.category = category[l] /\ read.workflow = Workflow(category[l], intent[l])
  OBVIOUS
<1> HIDE DEF read
<1>4. ASSUME NEW s \in Tabs PROVE PageRead(s)'
  <2>1. CASE s = t
    <3>1. page'[s] = read
      BY <1>1, <1>2, <2>1 DEF DraftShapes
    <3>2. PICK k : k = l
      OBVIOUS
    <3>3. intent'[k] = intent[k] /\ k \in exists' /\ page'[s].listing = k
      BY <1>1, <1>3, <3>1, <3>2
    <3>4. page'[s].category \in Leaves /\ page'[s].workflow = Workflow(page'[s].category, intent[k])
      BY <1>2, <1>3, <3>1, <3>2
    <3>5. QED
      BY <3>3, <3>4 DEF PageRead
  <2>2. CASE s # t
    <3>1. page'[s] = page[s]
      BY <1>1, <1>2, <2>2 DEF DraftShapes
    <3>2. QED
      BY <1>1, <3>1 DEF DraftsInv, PageRead
  <2>3. QED
    BY <2>1, <2>2
<1>5. \A k \in exists' : DraftKept(k)'
  BY <1>1 DEF DraftsInv, DraftKept
<1>6. QED
  BY <1>2, <1>4, <1>5 DEF DraftsInv

\* The steps that write no draft: a page given up, a move between shelves, a category
\* deactivated or reactivated.
LEMMA OthersKeep ==
    ASSUME DraftsInv, UNCHANGED <<exists, category, vertical, intent, detail, tagged>>,
           active' \subseteq Leaves,
           page' = page \/ \E t \in Tabs : page' = [page EXCEPT ![t] = NoPage]
    PROVE  DraftsInv'
<1>1. DraftShapes /\ DraftShapes'
  BY DEF DraftsInv, DraftShapes
<1>2. \A k \in exists' : DraftKept(k)'
  BY DEF DraftsInv, DraftKept
<1>3. ASSUME NEW s \in Tabs PROVE PageRead(s)'
  <2>1. page'[s] = NoPage \/ page'[s] = page[s]
    BY <1>1 DEF DraftShapes
  <2>2. QED
    BY <2>1 DEF DraftsInv, PageRead
<1>4. QED
  BY <1>1, <1>2, <1>3 DEF DraftsInv

\* The inductive invariant: every listing has the one row that its vertical and intent
\* accept, and every page holds a workflow that is still that of its listing.
THEOREM DraftsInvariant == DraftsSpec => []DraftsInv
<1>1. DraftsInit => DraftsInv
  BY DEF DraftsInit, DraftsInv, DraftShapes, PageRead
<1>2. DraftsInv /\ [DraftsNext]_draftsVars => DraftsInv'
  <2> SUFFICES ASSUME DraftsInv, [DraftsNext]_draftsVars PROVE DraftsInv'
    OBVIOUS
  <2>1. active \subseteq Leaves
    BY DEF DraftsInv, DraftShapes
  <2>2. CASE UNCHANGED draftsVars
    BY <2>1, <2>2, OthersKeep DEF draftsVars
  <2>3. ASSUME NEW t \in Tabs, SaveFails(t) PROVE DraftsInv'
    BY <2>1, <2>3, OthersKeep DEF SaveFails
  <2>4. ASSUME NEW l \in Drafted, NEW to, ShelfMoves(l, to) PROVE DraftsInv'
    BY <2>1, <2>4, OthersKeep DEF ShelfMoves
  <2>5. ASSUME NEW c \in Unstable, ToggleLeaf(c) PROVE DraftsInv'
    <3>1. active' \subseteq Leaves
      BY <2>1, <2>5, DraftsAssumption DEF ToggleLeaf
    <3>2. QED
      BY <2>5, <3>1, OthersKeep DEF ToggleLeaf
  <2>6. QED
    BY <2>2, <2>3, <2>4, <2>5, PagesKeep, CreateKeeps, OpenKeeps, SaveKeeps DEF DraftsNext
<1>3. QED
  BY <1>1, <1>2, PTL DEF DraftsSpec

\* Whatever pages of either generation write a listing, its one detail row is the one
\* that its submission validates (listings/services.py, _typed_details_for_listing).
THEOREM DetailsAreFound == DraftsSpec => []SubmissionFindsDetails
<1>1. DraftsInv => SubmissionFindsDetails
  <2> SUFFICES ASSUME DraftsInv, NEW l \in exists PROVE detail[l] = {SubmissionRow(l)}
    BY DEF SubmissionFindsDetails
  <2>1. PICK row \in Rows : detail[l] = {row} /\ RowFits(row, vertical[l], intent[l])
    BY DEF DraftsInv, DraftKept
  <2>2. CASE row = "generic"
    BY <2>1, <2>2 DEF SubmissionRow
  <2>3. CASE row # "generic"
    <3>1. row \in Kinds /\ intent[l] # "wanted" /\ vertical[l] \in Accepts[row]
      BY <2>1, <2>3 DEF Rows, RowFits
    <3>2. CASE row \in {"ag_equipment", "pasture"}
      <4>1. vertical[l] = "farm-ranch"
        BY <3>1, <3>2, AcceptedIn
      <4>2. QED
        BY <2>1, <2>3, <3>1, <3>2, <4>1 DEF SubmissionRow
    <3>3. CASE row \notin {"ag_equipment", "pasture"}
      <4>1. vertical[l] # "farm-ranch" /\ vertical[l] \in DOMAIN TypedWorkflow
            /\ TypedWorkflow[vertical[l]] = row
        BY <3>1, <3>3, AcceptedIn, TypedRows
      <4>2. QED
        BY <2>1, <2>3, <3>1, <4>1 DEF SubmissionRow
    <3>4. QED
      BY <3>2, <3>3
  <2>4. QED
    BY <2>2, <2>3
<1>2. QED
  BY <1>1, DraftsInvariant, PTL

\* The category and the tags of a listing are of its vertical, although a page may save
\* a category that another page has changed since (listings/models.py:331).
THEOREM VerticalsStayTogether == DraftsSpec => []OneVertical
<1>1. DraftsInv => OneVertical
  BY DEF DraftsInv, DraftKept, OneVertical
<1>2. QED
  BY <1>1, DraftsInvariant, PTL

\* Types.  A row that no page has created yet has a category too.
LEMMA DraftsTypeInit == DraftsInit => DraftsTypeOK
<1> SUFFICES ASSUME DraftsInit PROVE DraftsTypeOK
  OBVIOUS
<1>1. PICK first \in Leaves : first = CHOOSE c \in Leaves : TRUE
  BY DraftsAssumption
<1>2. category = [l \in Drafted |-> first] /\ vertical = [l \in Drafted |-> VerticalOf[first]]
  BY <1>1 DEF DraftsInit
<1>3. QED
  BY <1>2 DEF DraftsInit, DraftsTypeOK

LEMMA InsertType ==
    ASSUME DraftsTypeOK, NEW l \in Drafted, NEW c \in Leaves, NEW i \in {"offer", "wanted"}, NEW row \in Rows,
           NEW tags \in SUBSET Leaves, Insert(l, c, i, row, tags)
    PROVE  DraftsTypeOK'
BY DEF Insert, DraftsTypeOK, Rows

LEMMA RewriteType ==
    ASSUME DraftsTypeOK, NEW l \in Drafted, NEW c \in Leaves, NEW row \in Kinds, Rewrite(l, c, row)
    PROVE  DraftsTypeOK'
BY DEF Rewrite, DepublishEdited, DraftsTypeOK

LEMMA PagesType ==
    ASSUME DraftsTypeOK, NEW l \in Drafted, NEW c \in Leaves,
           \/ AutoPages(l, c) \/ HomePages(l, c) \/ RentalPages(l, c) \/ AgEquipmentPages(l, c)
           \/ LivestockPages(l, c) \/ PasturePages(l, c) \/ HomeGardenPages(l, c)
           \/ AppliancesPages(l, c) \/ GenericPage(l, c)
    PROVE  DraftsTypeOK'
<1>1. ASSUME NEW row \in Rows, Insert(l, c, "offer", row, {}) PROVE DraftsTypeOK'
  BY <1>1, InsertType
<1>2. ASSUME NEW row \in Kinds, NEW v, RewriteIn(v, l, c, row) \/ Rewrite(l, c, row) PROVE DraftsTypeOK'
  BY <1>2, RewriteType DEF RewriteIn
<1>3. ASSUME NEW row \in Kinds, NEW v, InsertIn(v, l, c, row, {}) PROVE DraftsTypeOK'
  BY <1>1, <1>3 DEF InsertIn, Rows
<1>4. CASE AutoPages(l, c) \/ HomePages(l, c) \/ RentalPages(l, c)
  BY <1>2, <1>3, <1>4, AcceptedIn
     DEF AutoPages, CreateAutoDraft, UpdateAutoDraft, HomePages, CreateHomeDraft, UpdateHomeDraft,
         RentalPages, CreateRentalDraft, UpdateRentalDraft
<1>5. CASE AgEquipmentPages(l, c) \/ LivestockPages(l, c) \/ PasturePages(l, c)
  BY <1>2, <1>3, <1>5, AcceptedIn
     DEF AgEquipmentPages, CreateAgEquipmentDraft, UpdateAgEquipmentDraft, LivestockPages, CreateLivestockDraft,
         UpdateLivestockDraft, PasturePages, CreatePastureDraft, UpdatePastureDraft
<1>6. CASE HomeGardenPages(l, c) \/ AppliancesPages(l, c)
  BY <1>2, <1>3, <1>6, AcceptedIn
     DEF HomeGardenPages, CreateHomeGardenDraft, UpdateHomeGardenDraft, AppliancesPages, CreateAppliancesDraft,
         UpdateAppliancesDraft
<1>7. CASE GenericPage(l, c)
  BY <1>1, <1>7 DEF GenericPage, CreateGenericDraft, Rows
<1>8. QED
  BY <1>4, <1>5, <1>6, <1>7

LEMMA CreateType ==
    ASSUME DraftsTypeOK, NEW l \in Drafted, NEW c \in Leaves, NEW tags \in TagSets, CreateListing(l, c, tags)
    PROVE  DraftsTypeOK'
<1>1. PICK stored \in SUBSET Leaves : stored = tags \cup {c}
  BY DEF TagSets
<1>2. ASSUME NEW row \in Rows, NEW i \in {"offer", "wanted"}, Insert(l, c, i, row, stored) PROVE DraftsTypeOK'
  BY <1>2, InsertType
<1>3. ASSUME NEW row \in Kinds, NEW v, InsertIn(v, l, c, row, stored) PROVE DraftsTypeOK'
  BY <1>2, <1>3 DEF InsertIn, Rows
<1>4. CASE CreateWantedDraft(l, c, stored) \/ CreateGenericDraft(l, c, stored)
  BY <1>2, <1>4 DEF CreateWantedDraft, CreateGenericDraft, Rows
<1>5. CASE \/ CreateAutoDraft(l, c, stored) \/ CreateHomeDraft(l, c, stored) \/ CreateRentalDraft(l, c, stored)
           \/ CreateAgEquipmentDraft(l, c, stored) \/ CreateLivestockDraft(l, c, stored)
           \/ CreatePastureDraft(l, c, stored) \/ CreateAppliancesDraft(l, c, stored)
           \/ CreateHomeGardenDraft(l, c, stored)
  BY <1>3, <1>5, AcceptedIn
     DEF CreateAutoDraft, CreateHomeDraft, CreateRentalDraft, CreateAgEquipmentDraft, CreateLivestockDraft,
         CreatePastureDraft, CreateAppliancesDraft, CreateHomeGardenDraft
<1>6. Workflow(c, "offer") \in Kinds \cup {"generic"}
  BY WorkflowAccepts
<1>7. QED
  BY <1>1, <1>4, <1>5, <1>6, AcceptedIn DEF CreateListing, CreateUnifiedDraft

LEMMA UnifiedType ==
    ASSUME DraftsTypeOK, NEW t \in Tabs,
           \/ \E l \in Drafted : OpenUnified(t, l)
           \/ \E tags \in TagSets : SaveUnified(t, tags)
           \/ SaveFails(t)
    PROVE  DraftsTypeOK'
<1>1. ASSUME NEW l \in Drafted, OpenUnified(t, l) PROVE DraftsTypeOK'
  <2>1. category[l] \in Leaves
    BY DEF DraftsTypeOK
  <2>2. PICK row \in Rows : row = Workflow(category[l], intent[l])
    BY <2>1, WorkflowAccepts DEF Rows
  <2>3. page' = [page EXCEPT ![t] = [listing |-> l, category |-> category[l], workflow |-> row]]
    BY <1>1, <2>2 DEF OpenUnified
  <2>4. QED
    BY <1>1, <2>1, <2>3 DEF OpenUnified, DraftsTypeOK, Rows
<1>2. ASSUME NEW tags \in TagSets, SaveUnified(t, tags) PROVE DraftsTypeOK'
  <2>1. page[t].listing \in Drafted /\ page[t].category \in Leaves
    BY <1>2 DEF SaveUnified, DraftsTypeOK
  <2>2. PICK l \in Drafted, c \in Leaves : l = page[t].listing /\ c = page[t].category
    BY <2>1
  <2>3. /\ category' = [category EXCEPT ![l] = c] /\ vertical' = [vertical EXCEPT ![l] = VerticalOf[c]]
        /\ tagged' = [tagged EXCEPT ![l] = tags \cup {c}] /\ page' = [page EXCEPT ![t] = NoPage]
        /\ DepublishEdited(l) /\ UNCHANGED <<exists, intent, detail, active>>
    BY <1>2, <2>2 DEF SaveUnified
  <2>4. tags \cup {c} \in SUBSET Leaves
    BY DEF TagSets
  <2>5. QED
    BY <2>3, <2>4 DEF DepublishEdited, DraftsTypeOK
<1>3. CASE SaveFails(t)
  BY <1>3 DEF SaveFails, DraftsTypeOK
<1>4. QED
  BY <1>1, <1>2, <1>3

LEMMA DraftsTypeStep ==
    ASSUME DraftsTypeOK, [DraftsNext]_draftsVars
    PROVE  DraftsTypeOK'
<1>1. CASE UNCHANGED draftsVars
  BY <1>1 DEF draftsVars, DraftsTypeOK
<1>2. ASSUME NEW l \in Drafted, NEW to \in {"draft", "published", "away"}, ShelfMoves(l, to) PROVE DraftsTypeOK'
  BY <1>2 DEF ShelfMoves, DraftsTypeOK
<1>3. ASSUME NEW c \in Unstable, ToggleLeaf(c) PROVE DraftsTypeOK'
  BY <1>3, DraftsAssumption DEF ToggleLeaf, DraftsTypeOK
<1>4. QED
  BY <1>1, <1>2, <1>3, PagesType, CreateType, UnifiedType DEF DraftsNext
=============================================================================
