---------------------------- MODULE Staff_proofs -----------------------------
(***************************************************************************)
(* Proofs about what staff work with.  Reports, for any number of          *)
(* submissions, listings, sources, texts and members of staff, and any     *)
(* limits: a report appears only about a published listing, its audit      *)
(* trail is unbroken, and the limits hold.  Reference data, for any        *)
(* counties, names, ZIP codes and imports: an import is whole and lasts    *)
(* until an older form is saved over it.                                   *)
(***************************************************************************)
EXTENDS Reports, Geography, SequenceTheorems, FiniteSetTheorems, TLAPS

\* What a submission between its lock and its commit relies on.
LockedIsPublished ==
    /\ published \subseteq Subjects
    /\ form \in [Submissions -> Forms \cup {NotPosted}]
    /\ stage \in [Submissions -> Stages]
    /\ subjectLock \in [Subjects -> Submissions \cup {Free}]
    /\ \A p \in Submissions : stage[p] \in {"locked", "admitted"} =>
           form[p].subject \in published /\ subjectLock[form[p].subject] = p

\* A step of a submission that posts its form, counts, or commits.
LEMMA SubmissionKeepsLock ==
    ASSUME LockedIsPublished, NEW p \in Submissions, ReportListing(p)
    PROVE  LockedIsPublished'
<1> USE DEF LockedIsPublished, Stages
<1>1. Free \notin Submissions
  BY ReportsAssumption
<1>2. ASSUME NEW f \in Forms, NEW shown \in BOOLEAN, PostReport(p, f, shown) PROVE LockedIsPublished'
  <2>1. PICK to \in {"waiting", "suppressed"} : stage' = [stage EXCEPT ![p] = to]
    BY <1>2 DEF PostReport
  <2>2. form' = [form EXCEPT ![p] = f] /\ UNCHANGED <<subjectLock, published>> /\ stage[p] = "new"
    BY <1>2 DEF PostReport
  <2>3. \A q \in Submissions : stage'[q] \in {"locked", "admitted"} =>
            stage[q] \in {"locked", "admitted"} /\ form'[q] = form[q]
    BY <2>1, <2>2
  <2>4. QED
    BY <2>1, <2>2, <2>3
<1>4. CASE LockSubject(p)
  <2>1. subjectLock[form[p].subject] = Free /\ form' = form /\ published' = published
    BY <1>4 DEF LockSubject, RowFree
  <2>2. CASE form[p].subject \in published
    <3>1. /\ subjectLock' = [subjectLock EXCEPT ![form[p].subject] = p]
          /\ stage' = [stage EXCEPT ![p] = "locked"]
      BY <1>4, <2>2 DEF LockSubject
    <3>2. QED
      BY <1>1, <2>1, <2>2, <3>1
  <2>3. CASE form[p].subject \notin published
    <3>1. stage' = [stage EXCEPT ![p] = "suppressed"] /\ subjectLock' = subjectLock
      BY <1>4, <2>3 DEF LockSubject
    <3>2. QED
      BY <2>1, <3>1
  <2>4. QED
    BY <2>2, <2>3
<1>3. CASE CountRecent(p) \/ CommitReport(p)
  <2>1. stage[p] \in {"locked", "admitted"} /\ UNCHANGED <<form, published>>
    BY <1>3 DEF CountRecent, CommitReport
  <2>2. CASE stage' = [stage EXCEPT ![p] = "admitted"] /\ UNCHANGED subjectLock
    BY <2>1, <2>2
  <2>3. ASSUME NEW outcome \in {"suppressed", "filed"}, Release(p, outcome) PROVE LockedIsPublished'
    <3>1. \A q \in Submissions \ {p} : stage[q] \in {"locked", "admitted"} => form[q].subject # form[p].subject
      BY <2>1
    <3>2. /\ stage' = [stage EXCEPT ![p] = outcome]
          /\ subjectLock' = [subjectLock EXCEPT ![form[p].subject] = Free]
      BY <2>3 DEF Release
    <3>3. QED
      BY <2>1, <3>1, <3>2
  <2>4. QED
    BY <1>3, <2>2, <2>3 DEF CountRecent, CommitReport
<1>5. QED
  BY <1>2, <1>3, <1>4 DEF ReportListing

\* Whatever else happens does not disturb a submission under its lock.
LEMMA LockKept == LockedIsPublished /\ [ReportsNext]_reportsVars => LockedIsPublished'
<1> SUFFICES ASSUME LockedIsPublished, [ReportsNext]_reportsVars PROVE LockedIsPublished'
  OBVIOUS
<1>1. CASE UNCHANGED <<form, stage, subjectLock, published>>
  BY <1>1 DEF LockedIsPublished
<1>2. ASSUME NEW p \in Submissions, LeaveWindow(p) \/ \E r \in Staff : TriageReport(r, p)
      PROVE  UNCHANGED <<form, stage, subjectLock, published>>
  BY <1>2 DEF LeaveWindow, TriageReport, LockReport, CommitTriage
<1>3. ASSUME NEW l \in Subjects, ChangeStatus(l) PROVE LockedIsPublished'
  <2>1. /\ subjectLock[l] = Free /\ UNCHANGED <<form, stage, subjectLock>>
        /\ published' = IF l \in published THEN published \ {l} ELSE published \cup {l}
    BY <1>3 DEF ChangeStatus, RowFree
  <2>2. \A p \in Submissions : stage[p] \in {"locked", "admitted"} => form[p].subject # l
    BY <2>1, ReportsAssumption DEF LockedIsPublished
  <2>3. QED
    BY <2>1, <2>2 DEF LockedIsPublished
<1>4. CASE UNCHANGED reportsVars
  BY <1>1, <1>4 DEF reportsVars
<1>5. QED
  BY <1>1, <1>2, <1>3, <1>4, SubmissionKeepsLock DEF ReportsNext

LEMMA LockInit == ReportsInit => LockedIsPublished
BY DEF ReportsInit, LockedIsPublished, Stages

\* Whoever is between the lock of a listing and its commit has that lock, and the listing
\* is published as long as it does: what changes the status waits for the row.
THEOREM LockInvariant == ReportsSpec => []LockedIsPublished
BY LockInit, LockKept, PTL DEF ReportsSpec

\* A report appears only about a listing that is published at that moment: the status of
\* the locked row still holds at the commit (submit_listing_report).
THEOREM ReportsAreAboutPublished == ReportsSpec => ReportsAboutPublished
<1>1. LockedIsPublished /\ [ReportsNext]_reportsVars =>
          [\A p \in filed' \ filed : form[p].subject \in published]_reportsVars
  <2> SUFFICES ASSUME LockedIsPublished, ReportsNext, NEW p \in filed' \ filed
               PROVE  form[p].subject \in published
    BY DEF reportsVars
  <2>1. \A q \in Submissions : CommitReport(q) =>
            filed' = filed \cup {q} /\ stage[q] = "admitted"
    BY DEF CommitReport
  <2>2. \/ UNCHANGED filed
        \/ \E q \in Submissions : CommitReport(q)
    BY DEF ReportsNext, ReportListing, PostReport, LockSubject, CountRecent, LeaveWindow, TriageReport,
           LockReport, CommitTriage, ChangeStatus
  <2>3. QED
    BY <2>1, <2>2 DEF LockedIsPublished
<1>2. QED
  BY <1>1, LockInvariant, PTL DEF ReportsSpec, ReportsAboutPublished

-----------------------------------------------------------------------------
TrailStep == [from : TriageStates, to : TriageStates, by : Staff \cup {Free}]

\* A report that is not filed yet is untouched, and whoever holds the lock of a report has
\* read the state it still has, which is not closed.
TrailInv ==
    /\ filed \subseteq Submissions
    /\ stage \in [Submissions -> Stages]
    /\ triageState \in [Submissions -> TriageStates]
    /\ reading \in [Submissions -> TriageStates]
    /\ assignee \in [Submissions -> Staff \cup {Free}]
    /\ reportLock \in [Submissions -> Staff \cup {Free}]
    /\ trail \in [Submissions -> Seq(TrailStep)]
    /\ \A p \in Submissions : p \in filed => stage[p] = "filed"
    /\ \A p \in Submissions : p \notin filed =>
           triageState[p] = "open" /\ assignee[p] = Free /\ reportLock[p] = Free
    /\ \A p \in Submissions : reportLock[p] # Free =>
           reading[p] = triageState[p] /\ triageState[p] \notin Closed
    /\ TrailUnbroken

\* One step of triage added to an unbroken trail.
LEMMA StepAppended ==
    ASSUME NEW steps \in Seq(TrailStep), NEW s \in TrailStep, steps # <<>>,
           s.from = Last(steps).to, s.from \notin Closed,
           \A n \in 2 .. Len(steps) : steps[n].from = steps[n - 1].to /\ steps[n].from \notin Closed
    PROVE  /\ Append(steps, s) \in Seq(TrailStep) /\ Append(steps, s) # <<>>
           /\ Last(Append(steps, s)) = s
           /\ \A n \in 2 .. Len(Append(steps, s)) :
                  /\ Append(steps, s)[n].from = Append(steps, s)[n - 1].to
                  /\ Append(steps, s)[n].from \notin Closed
<1>1. /\ Append(steps, s) \in Seq(TrailStep) /\ Append(steps, s) # <<>>
      /\ Len(steps) \in Nat /\ Len(Append(steps, s)) = Len(steps) + 1
      /\ \A i \in 1 .. Len(steps) : Append(steps, s)[i] = steps[i]
      /\ Append(steps, s)[Len(steps) + 1] = s
  BY AppendProperties, LenProperties
<1>2. Last(Append(steps, s)) = s
  BY <1>1 DEF Last
<1>3. ASSUME NEW n \in 2 .. Len(steps) + 1
      PROVE  /\ Append(steps, s)[n].from = Append(steps, s)[n - 1].to
             /\ Append(steps, s)[n].from \notin Closed
  <2>1. CASE n \in 2 .. Len(steps)
    BY <1>1, <2>1
  <2>2. CASE n = Len(steps) + 1
    BY <1>1, <2>2 DEF Last
  <2>3. QED
    BY <1>1, <2>1, <2>2
<1>4. QED
  BY <1>1, <1>2, <1>3

\* A commit files a report that nobody has triaged, with the first step of its trail.
LEMMA CommitKeepsTrails ==
    ASSUME TrailInv, NEW p \in Submissions, CommitReport(p)
    PROVE  TrailInv'
<1> USE DEF TrailInv
<1> DEFINE first == [from |-> "open", to |-> "open", by |-> Free]
<1>1. /\ p \notin filed /\ filed' = filed \cup {p}
      /\ stage' = [stage EXCEPT ![p] = "filed"]
      /\ trail' = [trail EXCEPT ![p] = <<first>>]
      /\ UNCHANGED <<triageState, assignee, reportLock, reading>>
  BY DEF CommitReport, Release
<1>2. <<first>> \in Seq(TrailStep) /\ Len(<<first>>) = 1 /\ Last(<<first>>) = first /\ <<first>> # <<>>
  BY DEF TrailStep, TriageStates, Last
<1>3. triageState[p] = "open" /\ assignee[p] = Free
  BY <1>1
<1>4. trail' \in [Submissions -> Seq(TrailStep)] /\ trail'[p] = <<first>>
      /\ \A q \in Submissions \ {p} : trail'[q] = trail[q]
  BY <1>1, <1>2
<1>5. first.to = "open" /\ first.by = Free
  OBVIOUS
<1> HIDE DEF first
<1>6. TrailUnbroken'
  BY <1>1, <1>2, <1>3, <1>4, <1>5 DEF TrailUnbroken
<1>7. QED
  BY <1>1, <1>4, <1>6 DEF Stages

\* A triage adds to the trail what it has read and what it writes.
LEMMA TriageKeepsTrails ==
    ASSUME TrailInv, NEW p \in Submissions, NEW r \in Staff, TriageReport(r, p)
    PROVE  TrailInv'
<1> USE DEF TrailInv
<1>1. Free \notin Staff
  BY ReportsAssumption
<1>2. CASE LockReport(r, p)
  BY <1>1, <1>2 DEF LockReport, Triageable, TrailUnbroken
<1>3. ASSUME NEW to \in TriageStates, CommitTriage(r, p, to) PROVE TrailInv'
  <2> DEFINE s == [from |-> reading[p], to |-> to, by |-> r]
  <2>1. /\ reportLock[p] = r /\ reading[p] = triageState[p] /\ triageState[p] \notin Closed /\ p \in filed
        /\ triageState' = [triageState EXCEPT ![p] = to]
        /\ assignee' = [assignee EXCEPT ![p] = r]
        /\ trail' = [trail EXCEPT ![p] = Append(@, s)]
        /\ reportLock' = [reportLock EXCEPT ![p] = Free]
        /\ reading' = [reading EXCEPT ![p] = "open"]
        /\ UNCHANGED <<stage, filed>>
    BY <1>1, <1>3 DEF CommitTriage
  <2>2. s \in TrailStep /\ s.from = triageState[p] /\ s.to = to /\ s.by = r
    BY <2>1 DEF TrailStep
  <2> HIDE DEF s
  <2>3. /\ trail[p] \in Seq(TrailStep) /\ trail[p] # <<>> /\ s.from = Last(trail[p]).to /\ s.from \notin Closed
        /\ \A n \in 2 .. Len(trail[p]) : /\ trail[p][n].from = trail[p][n - 1].to
                                        /\ trail[p][n].from \notin Closed
    BY <2>1, <2>2 DEF TrailUnbroken
  <2>4. /\ Append(trail[p], s) \in Seq(TrailStep) /\ Append(trail[p], s) # <<>>
        /\ Last(Append(trail[p], s)) = s
        /\ \A n \in 2 .. Len(Append(trail[p], s)) :
               /\ Append(trail[p], s)[n].from = Append(trail[p], s)[n - 1].to
               /\ Append(trail[p], s)[n].from \notin Closed
    BY <2>2, <2>3, StepAppended
  <2>5. /\ trail' \in [Submissions -> Seq(TrailStep)] /\ trail'[p] = Append(trail[p], s)
        /\ \A q \in Submissions \ {p} : trail'[q] = trail[q]
    BY <2>1, <2>4
  <2>6. /\ triageState'[p] = to /\ assignee'[p] = r
        /\ \A q \in Submissions \ {p} : triageState'[q] = triageState[q] /\ assignee'[q] = assignee[q]
    BY <2>1
  <2>7. TrailUnbroken'
    <3> SUFFICES ASSUME NEW q \in filed
                 PROVE  /\ trail'[q] # <<>> /\ Last(trail'[q]).to = triageState'[q]
                        /\ Last(trail'[q]).by = assignee'[q]
                        /\ \A n \in 2 .. Len(trail'[q]) : /\ trail'[q][n].from = trail'[q][n - 1].to
                                                        /\ trail'[q][n].from \notin Closed
      BY <2>1 DEF TrailUnbroken
    <3>1. CASE q = p
      BY <2>2, <2>4, <2>5, <2>6, <3>1
    <3>2. CASE q # p
      <4>1. trail'[q] = trail[q] /\ triageState'[q] = triageState[q] /\ assignee'[q] = assignee[q]
        BY <2>5, <2>6, <3>2
      <4>2. QED
        BY <4>1 DEF TrailUnbroken
    <3>3. QED
      BY <3>1, <3>2
  <2>8. QED
    BY <1>1, <2>1, <2>5, <2>7 DEF TriageStates
<1>4. QED
  BY <1>2, <1>3 DEF TriageReport

LEMMA TrailsInit == ReportsInit => TrailInv
<1>1. <<>> \in Seq(TrailStep)
  OBVIOUS
<1>2. QED
  BY <1>1 DEF ReportsInit, TrailInv, TriageStates, TrailUnbroken, Stages

\* Each step keeps the trails, whoever takes it.
LEMMA TrailsStep ==
    ASSUME TrailInv, [ReportsNext]_reportsVars
    PROVE  TrailInv'
<1>1. CASE UNCHANGED <<filed, stage, triageState, reading, assignee, reportLock, trail>>
  BY <1>1 DEF TrailInv, TrailUnbroken
<1>2. ASSUME NEW p \in Submissions, ReportListing(p) PROVE TrailInv'
  <2>1. CASE CommitReport(p)
    BY <2>1, CommitKeepsTrails
  <2>2. CASE CountRecent(p) \/ LockSubject(p) \/ \E f \in Forms, shown \in BOOLEAN : PostReport(p, f, shown)
    <3>1. /\ UNCHANGED <<filed, triageState, reading, assignee, reportLock, trail>>
          /\ stage[p] # "filed"
          /\ \E to \in {"waiting", "locked", "admitted", "suppressed"} : stage' = [stage EXCEPT ![p] = to]
      BY <2>2 DEF CountRecent, LockSubject, PostReport, Release, triageVars
    <3>2. QED
      BY <3>1 DEF TrailInv, TrailUnbroken, Stages
  <2>3. QED
    BY <1>2, <2>1, <2>2 DEF ReportListing
<1>3. ASSUME NEW p \in Submissions, LeaveWindow(p) PROVE TrailInv'
  BY <1>1, <1>3 DEF LeaveWindow, triageVars
<1>4. ASSUME NEW l \in Subjects, ChangeStatus(l) PROVE TrailInv'
  BY <1>1, <1>4 DEF ChangeStatus, triageVars
<1>5. CASE UNCHANGED reportsVars
  BY <1>1, <1>5 DEF reportsVars, triageVars
<1>6. QED
  BY <1>2, <1>3, <1>4, <1>5, TriageKeepsTrails DEF ReportsNext

\* The strengthening: the trails unbroken, and what is read under the lock of a report.
THEOREM TrailInvariant == ReportsSpec => []TrailInv
BY TrailsInit, TrailsStep, PTL DEF ReportsSpec

\* The trail of a report is unbroken, ends with its state and assignee, and stops when the
\* report is closed, whoever triages at the same time (transition_listing_report).
THEOREM TrailsAreUnbroken == ReportsSpec => []TrailUnbroken
<1>1. TrailInv => TrailUnbroken
  BY DEF TrailInv
<1>2. QED
  BY <1>1, TrailInvariant, PTL

\* The types say nothing else but which reports are recent and how many triages there were.
ReportsInv == LockedIsPublished /\ TrailInv /\ recent \subseteq filed /\ triages \in 0 .. MaxTriage

LEMMA ReportsInvInit == ReportsInit => ReportsInv
<1>1. ReportsInit => recent \subseteq filed /\ triages \in 0 .. MaxTriage
  BY ReportsAssumption DEF ReportsInit
<1>2. QED
  BY <1>1, LockInit, TrailsInit DEF ReportsInv

LEMMA ReportsInvStep ==
    ASSUME ReportsInv, [ReportsNext]_reportsVars
    PROVE  ReportsInv'
<1>1. recent' \subseteq filed' /\ triages' \in 0 .. MaxTriage
  <2>1. CASE UNCHANGED <<recent, filed, triages>>
    BY <2>1 DEF ReportsInv
  <2>2. ASSUME NEW p \in Submissions,
               LockSubject(p) \/ \E f \in Forms, shown \in BOOLEAN : PostReport(p, f, shown)
        PROVE  UNCHANGED <<recent, filed, triages>>
    BY <2>2 DEF LockSubject, PostReport, triageVars
  <2>3. ASSUME NEW p \in Submissions, CountRecent(p) \/ CommitReport(p) \/ LeaveWindow(p)
        PROVE  recent' \subseteq filed' /\ triages' \in 0 .. MaxTriage
    BY <2>3 DEF CountRecent, CommitReport, LeaveWindow, triageVars, ReportsInv
  <2>4. ASSUME NEW p \in Submissions, NEW r \in Staff, TriageReport(r, p)
        PROVE  recent' \subseteq filed' /\ triages' \in 0 .. MaxTriage
    <3>1. UNCHANGED <<recent, filed>> /\ (triages' = triages \/ (triages < MaxTriage /\ triages' = triages + 1))
      BY <2>4 DEF TriageReport, LockReport, CommitTriage
    <3>2. triages' \in 0 .. MaxTriage
      BY <3>1, ReportsAssumption DEF ReportsInv
    <3>3. QED
      BY <3>1, <3>2 DEF ReportsInv
  <2>5. ASSUME NEW l \in Subjects, ChangeStatus(l) PROVE UNCHANGED <<recent, filed, triages>>
    BY <2>5 DEF ChangeStatus, triageVars
  <2>6. CASE UNCHANGED reportsVars
    BY <2>1, <2>6 DEF reportsVars, triageVars
  <2>7. QED
    BY <2>1, <2>2, <2>3, <2>4, <2>5, <2>6 DEF ReportsNext, ReportListing
<1>2. QED
  BY <1>1, LockKept, TrailsStep DEF ReportsInv

LEMMA ReportsInvTypes == ASSUME ReportsInv PROVE ReportsTypeOK
BY DEF ReportsInv, LockedIsPublished, TrailInv, TrailStep, ReportsTypeOK

-----------------------------------------------------------------------------
\* Limits.  A submission that was admitted holds the lock of its listing, so nothing joins
\* the reports it has counted there; but only the number of listings bounds how many are
\* admitted at once from one source.

OfSubject(l) == {q \in recent : form[q].subject = l}
OfSource(s) == {q \in recent : form[q].source = s}
Admitted(s) == {q \in Submissions : form[q].source = s /\ stage[q] = "admitted"}
Pending(s) == OfSource(s) \cup Admitted(s)
SourceMaximum == SourceLimit + Cardinality(Subjects) - 1

Posted ==
    /\ recent \subseteq Submissions /\ IsFiniteSet(recent)
    /\ \A p \in recent : stage[p] = "filed"
    /\ \A p \in Submissions : stage[p] # "new" => form[p] \in Forms

LimitInv ==
    /\ LockedIsPublished /\ Posted
    /\ \A l \in Subjects : Cardinality(OfSubject(l)) <= ListingLimit
    /\ \A p, q \in recent : form[p] = form[q] => p = q
    /\ \A p \in Submissions : stage[p] = "admitted" =>
           /\ Cardinality(OfSubject(form[p].subject)) < ListingLimit
           /\ \A q \in recent : form[q] # form[p]
    /\ \A s \in Sources : Pending(s) # {} => Cardinality(Pending(s)) <= SourceMaximum

\* Each that is past its lock holds the lock of another listing.
Under(s) == {q \in Submissions : form[q].source = s /\ stage[q] \in {"locked", "admitted"}}

LEMMA FewUnderLock ==
    ASSUME LockedIsPublished, NEW s
    PROVE  /\ IsFiniteSet(Under(s)) /\ Cardinality(Under(s)) <= Cardinality(Subjects)
           /\ IsFiniteSet(Admitted(s))
<1> DEFINE f == [q \in Under(s) |-> form[q].subject]
<1>1. \A q \in Under(s) : form[q].subject \in Subjects /\ subjectLock[form[q].subject] = q
  BY DEF Under, LockedIsPublished
<1>2. f \in [Under(s) -> Subjects] /\ \A p, q \in Under(s) : f[p] = f[q] => p = q
  BY <1>1
<1>3. f \in Injection(Under(s), Subjects)
  BY <1>2 DEF Injection, IsInjective
<1>4. IsFiniteSet(Subjects)
  BY ReportsAssumption
<1>5. IsFiniteSet(Under(s)) /\ Cardinality(Under(s)) <= Cardinality(Subjects)
  BY <1>3, <1>4, FS_Injection
<1>6. Admitted(s) \subseteq Under(s)
  BY DEF Admitted, Under
<1>7. QED
  BY <1>5, <1>6, FS_Subset

LEMMA CountsOf ==
    ASSUME Posted
    PROVE  /\ \A l : IsFiniteSet(OfSubject(l)) /\ Cardinality(OfSubject(l)) \in Nat
           /\ \A s : IsFiniteSet(OfSource(s)) /\ Cardinality(OfSource(s)) \in Nat
<1>1. ASSUME NEW l PROVE IsFiniteSet(OfSubject(l)) /\ Cardinality(OfSubject(l)) \in Nat
  <2>1. OfSubject(l) \subseteq recent
    BY DEF OfSubject
  <2>2. QED
    BY <2>1, FS_Subset, FS_CardinalityType DEF Posted
<1>2. ASSUME NEW s PROVE IsFiniteSet(OfSource(s)) /\ Cardinality(OfSource(s)) \in Nat
  <2>1. OfSource(s) \subseteq recent
    BY DEF OfSource
  <2>2. QED
    BY <2>1, FS_Subset, FS_CardinalityType DEF Posted
<1>3. QED
  BY <1>1, <1>2

\* The limits as the submission counts them.
LEMMA AlikeIs ==
    ASSUME Posted, NEW p \in Submissions, form[p] \in Forms
    PROVE  /\ Alike(p, {"subject"}) = OfSubject(form[p].subject)
           /\ Alike(p, {"source"}) = OfSource(form[p].source)
           /\ Alike(p, {"subject", "source", "text"}) = {q \in recent : form[q] = form[p]}
<1>1. \A q \in recent : form[q] \in Forms
  BY DEF Posted
<1>2. \A q \in recent : form[q] = form[p] <=> /\ form[q].subject = form[p].subject
                                              /\ form[q].source = form[p].source
                                              /\ form[q].text = form[p].text
  BY <1>1 DEF Forms
<1>3. QED
  BY <1>2 DEF Alike, OfSubject, OfSource

\* Nothing joins, and reports may leave the window or locks be released.
LEMMA LimitsShrink ==
    ASSUME LimitInv, LockedIsPublished', Posted', recent' \subseteq recent,
           \A q \in Submissions : stage'[q] = "admitted" => stage[q] = "admitted",
           \A q \in Submissions : q \in recent \/ stage[q] = "admitted" => form'[q] = form[q]
    PROVE  LimitInv'
<1>1. recent \subseteq Submissions
  BY DEF LimitInv, Posted
<1>2. \A l : OfSubject(l)' \subseteq OfSubject(l)
  BY <1>1 DEF OfSubject
<1>3. \A s : Pending(s)' \subseteq Pending(s)
  BY <1>1 DEF Pending, OfSource, Admitted
<1>4. \A l : Cardinality(OfSubject(l)') <= Cardinality(OfSubject(l)) /\ Cardinality(OfSubject(l)') \in Nat
             /\ Cardinality(OfSubject(l)) \in Nat
  BY <1>2, CountsOf, FS_Subset, FS_CardinalityType DEF LimitInv
<1>5. ASSUME NEW s \in Sources, Pending(s)' # {} PROVE Cardinality(Pending(s)') <= SourceMaximum
  <2>1. IsFiniteSet(Pending(s))
    BY FewUnderLock, CountsOf, FS_Union DEF Pending, LimitInv
  <2>2. Cardinality(Pending(s)') <= Cardinality(Pending(s))
        /\ Cardinality(Pending(s)') \in Nat /\ Cardinality(Pending(s)) \in Nat
    BY <1>3, <2>1, FS_Subset, FS_CardinalityType
  <2>3. Pending(s) # {} /\ Cardinality(Pending(s)) <= SourceMaximum
    BY <1>3, <1>5 DEF LimitInv
  <2>4. SourceMaximum \in Int
    BY ReportsAssumption, FS_CardinalityType DEF SourceMaximum
  <2>5. QED
    BY <2>2, <2>3, <2>4
<1>6. \A l \in Subjects : Cardinality(OfSubject(l)') <= ListingLimit
  <2> SUFFICES ASSUME NEW l \in Subjects PROVE Cardinality(OfSubject(l)') <= ListingLimit
    OBVIOUS
  <2>1. Cardinality(OfSubject(l)) <= ListingLimit /\ ListingLimit \in Nat
    BY ReportsAssumption DEF LimitInv
  <2>2. QED
    BY <1>4, <2>1
<1>7. ASSUME NEW p \in Submissions, stage'[p] = "admitted"
      PROVE  /\ Cardinality(OfSubject(form[p].subject)') < ListingLimit /\ form'[p] = form[p]
             /\ \A q \in recent' : form'[q] # form'[p]
  <2>1. stage[p] = "admitted" /\ form'[p] = form[p]
    BY <1>7
  <2>2. Cardinality(OfSubject(form[p].subject)) < ListingLimit /\ \A q \in recent : form[q] # form[p]
    BY <2>1 DEF LimitInv
  <2>3. Cardinality(OfSubject(form[p].subject)') < ListingLimit
    <3>1. PICK l : l = form[p].subject
      OBVIOUS
    <3>2. Cardinality(OfSubject(l)') < ListingLimit
      BY <1>4, <2>2, <3>1, ReportsAssumption
    <3>3. OfSubject(l)' = OfSubject(form[p].subject)'
      BY <2>1, <3>1
    <3>4. QED
      BY <3>2, <3>3
  <2>4. \A q \in recent' : q \in recent /\ form'[q] = form[q]
    BY <1>1
  <2>5. QED
    BY <2>1, <2>2, <2>3, <2>4
<1>8. \A p, q \in recent' : form'[p] = form'[q] => p = q
  BY <1>1 DEF LimitInv
<1>9. QED
  BY <1>5, <1>6, <1>7, <1>8 DEF LimitInv, SourceMaximum

LEMMA PostedStep ==
    ASSUME LockedIsPublished, Posted, [ReportsNext]_reportsVars
    PROVE  Posted'
<1> USE DEF LockedIsPublished, Posted
<1>1. ASSUME NEW p \in Submissions, NEW f \in Forms, NEW shown \in BOOLEAN, PostReport(p, f, shown)
      PROVE  Posted'
  <2>1. stage[p] = "new" /\ form' = [form EXCEPT ![p] = f] /\ recent' = recent
        /\ \A q \in Submissions \ {p} : stage'[q] = stage[q]
    BY <1>1 DEF PostReport
  <2>2. QED
    BY <2>1
<1>2. ASSUME NEW p \in Submissions, LockSubject(p) \/ CountRecent(p) PROVE Posted'
  <2>1. /\ stage[p] \in {"waiting", "locked"} /\ UNCHANGED <<form, recent>>
        /\ \A q \in Submissions \ {p} : stage'[q] = stage[q]
    BY <1>2 DEF LockSubject, CountRecent, Release
  <2>2. QED
    BY <2>1
<1>3. ASSUME NEW p \in Submissions, CommitReport(p) PROVE Posted'
  <2>1. recent' = recent \cup {p} /\ stage' = [stage EXCEPT ![p] = "filed"] /\ form' = form
        /\ stage[p] = "admitted"
    BY <1>3 DEF CommitReport, Release
  <2>2. IsFiniteSet(recent')
    BY <2>1, FS_AddElement
  <2>3. QED
    BY <2>1, <2>2
<1>4. ASSUME NEW p \in Submissions, LeaveWindow(p) PROVE Posted'
  <2>1. recent' = recent \ {p} /\ UNCHANGED <<stage, form>>
    BY <1>4 DEF LeaveWindow
  <2>2. IsFiniteSet(recent')
    BY <2>1, FS_RemoveElement
  <2>3. QED
    BY <2>1, <2>2
<1>5. CASE UNCHANGED <<form, stage, recent>>
  BY <1>5
<1>6. ASSUME NEW p \in Submissions, NEW r \in Staff, TriageReport(r, p) PROVE Posted'
  BY <1>5, <1>6 DEF TriageReport, LockReport, CommitTriage
<1>7. ASSUME NEW l \in Subjects, ChangeStatus(l) PROVE Posted'
  BY <1>5, <1>7 DEF ChangeStatus
<1>8. CASE UNCHANGED reportsVars
  BY <1>5, <1>8 DEF reportsVars
<1>9. QED
  BY <1>1, <1>2, <1>3, <1>4, <1>6, <1>7, <1>8 DEF ReportsNext, ReportListing

\* The count that admits a submission leaves room for every other that is under its lock.
LEMMA LimitsOfCount ==
    ASSUME LimitInv, LockedIsPublished', Posted', NEW p \in Submissions, CountRecent(p), WithinLimits(p)
    PROVE  LimitInv'
<1>1. /\ stage[p] = "locked" /\ form[p] \in Forms /\ stage' = [stage EXCEPT ![p] = "admitted"]
      /\ UNCHANGED <<form, recent>>
      /\ stage \in [Submissions -> Stages]
  BY DEF CountRecent, LimitInv, Posted, LockedIsPublished
<1>2. /\ Cardinality(OfSource(form[p].source)) < SourceLimit
      /\ Cardinality(OfSubject(form[p].subject)) < ListingLimit
      /\ \A q \in recent : form[q] # form[p]
  BY <1>1, AlikeIs DEF WithinLimits, LimitInv
<1>3. ASSUME NEW s PROVE OfSource(s)' = OfSource(s) /\ OfSubject(s)' = OfSubject(s)
  BY <1>1 DEF OfSource, OfSubject
<1>4. ASSUME NEW s \in Sources, Pending(s)' # {} PROVE Cardinality(Pending(s)') <= SourceMaximum
  <2>1. CASE s # form[p].source
    <3>1. Pending(s)' = Pending(s)
      BY <1>1, <1>3, <2>1 DEF Pending, Admitted
    <3>2. QED
      BY <1>4, <3>1 DEF LimitInv
  <2>2. CASE s = form[p].source
    <3>1. Pending(s)' \subseteq OfSource(s) \cup Under(s)
      BY <1>1, <1>3 DEF Pending, Admitted, Under
    <3>2. /\ IsFiniteSet(OfSource(s)) /\ Cardinality(OfSource(s)) \in Nat
          /\ IsFiniteSet(Under(s)) /\ Cardinality(Under(s)) <= Cardinality(Subjects)
      BY CountsOf, FewUnderLock DEF LimitInv
    <3>3. /\ Cardinality(Under(s)) \in Nat /\ Cardinality(OfSource(s) \cap Under(s)) \in Nat
          /\ Cardinality(Subjects) \in Nat
      <4>1. IsFiniteSet(OfSource(s) \cap Under(s))
        BY <3>2, FS_Intersection
      <4>2. QED
        BY <3>2, <4>1, ReportsAssumption, FS_CardinalityType
    <3>4. /\ IsFiniteSet(OfSource(s) \cup Under(s))
          /\ Cardinality(OfSource(s) \cup Under(s)) =
                 Cardinality(OfSource(s)) + Cardinality(Under(s)) - Cardinality(OfSource(s) \cap Under(s))
      BY <3>2, FS_Union
    <3>5. /\ Cardinality(Pending(s)') <= Cardinality(OfSource(s) \cup Under(s))
          /\ Cardinality(Pending(s)') \in Nat
      BY <3>1, <3>4, FS_Subset, FS_CardinalityType
    <3>6. Cardinality(OfSource(s)) <= SourceLimit - 1
      BY <1>2, <2>2, <3>2, ReportsAssumption
    <3>7. QED
      BY <3>2, <3>3, <3>4, <3>5, <3>6, ReportsAssumption DEF SourceMaximum
  <2>3. QED
    BY <2>1, <2>2
<1>5. ASSUME NEW l \in Subjects PROVE Cardinality(OfSubject(l)') <= ListingLimit
  <2>1. Cardinality(OfSubject(l)) <= ListingLimit
    BY DEF LimitInv
  <2>2. QED
    BY <1>3, <2>1
<1>6. ASSUME NEW q \in Submissions, stage'[q] = "admitted"
      PROVE  /\ Cardinality(OfSubject(form[q].subject)') < ListingLimit
             /\ \A o \in recent' : form'[o] # form'[q]
  <2>1. q = p \/ stage[q] = "admitted"
    BY <1>1, <1>6
  <2>2. Cardinality(OfSubject(form[q].subject)) < ListingLimit /\ \A o \in recent : form[o] # form[q]
    BY <1>2, <2>1 DEF LimitInv
  <2>3. PICK l : l = form[q].subject /\ l = form'[q].subject
    BY <1>1
  <2>4. Cardinality(OfSubject(l)') < ListingLimit
    BY <1>3, <2>2, <2>3
  <2>5. OfSubject(l)' = OfSubject(form[q].subject)'
    BY <2>3
  <2>6. QED
    BY <1>1, <2>2, <2>4, <2>5
<1>7. QED
  BY <1>1, <1>4, <1>5, <1>6 DEF LimitInv, SourceMaximum

\* A commit adds one report to those of a listing that no other submission has locked.
LEMMA LimitsOfCommit ==
    ASSUME LimitInv, LockedIsPublished', Posted', NEW p \in Submissions, CommitReport(p)
    PROVE  LimitInv'
<1>1. /\ stage[p] = "admitted" /\ stage' = [stage EXCEPT ![p] = "filed"] /\ form' = form
      /\ recent' = recent \cup {p} /\ p \notin recent /\ recent \subseteq Submissions
      /\ stage \in [Submissions -> Stages]
  BY DEF CommitReport, Release, LimitInv, Posted, LockedIsPublished
<1>2. Cardinality(OfSubject(form[p].subject)) < ListingLimit /\ \A q \in recent : form[q] # form[p]
  BY <1>1 DEF LimitInv
<1>3. \A q \in Submissions \ {p} : stage[q] = "admitted" => form[q].subject # form[p].subject
  BY <1>1 DEF LimitInv, LockedIsPublished
<1>4. ASSUME NEW l PROVE OfSubject(l)' = IF l = form[p].subject THEN OfSubject(l) \cup {p} ELSE OfSubject(l)
  BY <1>1 DEF OfSubject
<1>5. ASSUME NEW s PROVE Pending(s)' = Pending(s)
  BY <1>1 DEF Pending, OfSource, Admitted
<1>6. ASSUME NEW l \in Subjects PROVE Cardinality(OfSubject(l)') <= ListingLimit
  <2>1. CASE l # form[p].subject
    BY <1>4, <2>1 DEF LimitInv
  <2>2. CASE l = form[p].subject
    <3>1. IsFiniteSet(OfSubject(l)) /\ p \notin OfSubject(l) /\ Cardinality(OfSubject(l)) \in Nat
      BY <1>1, CountsOf DEF LimitInv, OfSubject
    <3>2. Cardinality(OfSubject(l)') = Cardinality(OfSubject(l)) + 1
      BY <1>4, <2>2, <3>1, FS_AddElement
    <3>3. QED
      BY <1>2, <2>2, <3>1, <3>2, ReportsAssumption
  <2>3. QED
    BY <2>1, <2>2
<1>7. ASSUME NEW q \in Submissions, stage'[q] = "admitted"
      PROVE  /\ Cardinality(OfSubject(form[q].subject)') < ListingLimit
             /\ \A o \in recent' : form'[o] # form'[q]
  <2>1. q # p /\ stage[q] = "admitted" /\ form[q].subject # form[p].subject
    BY <1>1, <1>3, <1>7
  <2>2. Cardinality(OfSubject(form[q].subject)) < ListingLimit /\ \A o \in recent : form[o] # form[q]
    BY <2>1 DEF LimitInv
  <2>3. PICK l : l = form[q].subject /\ l = form'[q].subject
    BY <1>1
  <2>4. Cardinality(OfSubject(l)') < ListingLimit
    BY <1>4, <2>1, <2>2, <2>3
  <2>5. OfSubject(l)' = OfSubject(form[q].subject)'
    BY <2>3
  <2>6. QED
    BY <1>1, <2>1, <2>2, <2>4, <2>5
<1>8. \A a, b \in recent' : form'[a] = form'[b] => a = b
  BY <1>1, <1>2 DEF LimitInv
<1>9. QED
  BY <1>5, <1>6, <1>7, <1>8 DEF LimitInv, SourceMaximum

LEMMA LimitsStep ==
    ASSUME LimitInv, [ReportsNext]_reportsVars
    PROVE  LimitInv'
<1>1. LockedIsPublished' /\ Posted' /\ LockedIsPublished /\ Posted
  BY LockKept, PostedStep DEF LimitInv
<1>2. ASSUME NEW p \in Submissions,
             LockSubject(p) \/ \E f \in Forms, shown \in BOOLEAN : PostReport(p, f, shown)
      PROVE  LimitInv'
  <2>1. /\ stage[p] \in {"new", "waiting"} /\ p \notin recent /\ recent' = recent
        /\ \E to \in {"waiting", "locked", "suppressed"} : stage' = [stage EXCEPT ![p] = to]
        /\ \E f : form' = [form EXCEPT ![p] = f]
    <3>1. CASE LockSubject(p)
      <4>1. form' = [form EXCEPT ![p] = form[p]]
        BY <1>1, <3>1 DEF LockSubject, LockedIsPublished
      <4>2. QED
        BY <1>1, <3>1, <4>1 DEF LockSubject, Posted
    <3>2. CASE \E f \in Forms, shown \in BOOLEAN : PostReport(p, f, shown)
      BY <1>1, <3>2 DEF PostReport, Posted
    <3>3. QED
      BY <1>2, <3>1, <3>2
  <2>2. \A q \in Submissions : stage'[q] = "admitted" => stage[q] = "admitted"
    BY <1>1, <2>1 DEF LockedIsPublished
  <2>3. \A q \in Submissions : q \in recent \/ stage[q] = "admitted" => form'[q] = form[q]
    BY <1>1, <2>1 DEF LockedIsPublished
  <2>4. QED
    BY <1>1, <2>1, <2>2, <2>3, LimitsShrink
<1>3. ASSUME NEW p \in Submissions, CountRecent(p) PROVE LimitInv'
  <2>1. CASE WithinLimits(p)
    BY <1>1, <1>3, <2>1, LimitsOfCount
  <2>2. CASE ~ WithinLimits(p)
    <3>1. stage' = [stage EXCEPT ![p] = "suppressed"] /\ UNCHANGED <<form, recent>>
      BY <1>3, <2>2 DEF CountRecent, Release
    <3>2. \A q \in Submissions : stage'[q] = "admitted" => stage[q] = "admitted"
      BY <1>1, <3>1 DEF LockedIsPublished
    <3>3. QED
      BY <1>1, <3>1, <3>2, LimitsShrink
  <2>3. QED
    BY <2>1, <2>2
<1>4. ASSUME NEW p \in Submissions, CommitReport(p) PROVE LimitInv'
  BY <1>1, <1>4, LimitsOfCommit
<1>5. CASE UNCHANGED <<form, stage>> /\ recent' \subseteq recent
  BY <1>1, <1>5, LimitsShrink
<1>6. ASSUME NEW p \in Submissions, LeaveWindow(p) \/ \E r \in Staff : TriageReport(r, p) PROVE LimitInv'
  BY <1>5, <1>6 DEF LeaveWindow, TriageReport, LockReport, CommitTriage
<1>7. ASSUME NEW l \in Subjects, ChangeStatus(l) PROVE LimitInv'
  BY <1>5, <1>7 DEF ChangeStatus
<1>8. CASE UNCHANGED reportsVars
  BY <1>5, <1>8 DEF reportsVars
<1>9. QED
  BY <1>2, <1>3, <1>4, <1>6, <1>7, <1>8 DEF ReportsNext, ReportListing

\* A listing keeps its limit of reports and gets none twice; a source passes its own by at
\* most the other listings it writes about, since the counts of different listings are not
\* ordered (submit_listing_report).
THEOREM LimitsAreKept == ReportsSpec => []LimitsKept
<1>1. ReportsInit => LimitInv
  <2> SUFFICES ASSUME ReportsInit PROVE LimitInv
    OBVIOUS
  <2>1. LockedIsPublished /\ Posted
    BY FS_EmptySet DEF ReportsInit, LockedIsPublished, Posted, Stages
  <2>2. \A l : OfSubject(l) = {} /\ Pending(l) = {}
    BY DEF ReportsInit, OfSubject, Pending, OfSource, Admitted
  <2>3. \A l \in Subjects : Cardinality(OfSubject(l)) <= ListingLimit
    BY <2>2, FS_EmptySet, ReportsAssumption
  <2>4. QED
    BY <2>1, <2>2, <2>3 DEF LimitInv, ReportsInit
<1>2. LimitInv /\ [ReportsNext]_reportsVars => LimitInv'
  BY LimitsStep
<1>3. LimitInv => LimitsKept
  <2> SUFFICES ASSUME LimitInv, NEW p \in recent
               PROVE  /\ Cardinality(Alike(p, {"subject"})) <= ListingLimit
                      /\ Alike(p, {"subject", "source", "text"}) = {p}
                      /\ Cardinality(Alike(p, {"source"})) <= SourceLimit + Cardinality(Subjects) - 1
    BY DEF LimitsKept
  <2>1. p \in Submissions /\ form[p] \in Forms /\ form[p].subject \in Subjects /\ form[p].source \in Sources
    BY DEF LimitInv, Posted, Forms
  <2>2. Cardinality(OfSubject(form[p].subject)) <= ListingLimit
        /\ {q \in recent : form[q] = form[p]} = {p}
    BY <2>1 DEF LimitInv
  <2>3. Cardinality(OfSource(form[p].source)) <= SourceMaximum
    <3> DEFINE s == form[p].source
    <3>1. p \in Pending(s) /\ OfSource(s) \subseteq Pending(s)
      BY DEF Pending, OfSource
    <3>2. IsFiniteSet(Pending(s))
      BY FewUnderLock, CountsOf, FS_Union DEF Pending, LimitInv
    <3>3. Cardinality(OfSource(s)) <= Cardinality(Pending(s))
          /\ Cardinality(OfSource(s)) \in Nat /\ Cardinality(Pending(s)) \in Nat
      BY <3>1, <3>2, FS_Subset, FS_CardinalityType
    <3>4. Cardinality(Pending(s)) <= SourceMaximum
      BY <2>1, <3>1 DEF LimitInv
    <3>5. SourceMaximum \in Int
      BY ReportsAssumption, FS_CardinalityType DEF SourceMaximum
    <3>6. QED
      BY <3>3, <3>4, <3>5
  <2>4. QED
    BY <2>1, <2>2, <2>3, AlikeIs DEF LimitInv, SourceMaximum
<1>4. QED
  BY <1>1, <1>2, <1>3, PTL DEF ReportsSpec

-----------------------------------------------------------------------------
\* The reference data.

Runs == [file : [Places -> PlaceNames \cup {NoRow}], read : [Places -> PlaceNames \cup {NoRow}],
         left : SUBSET Places, written : SUBSET Places, dry : BOOLEAN]

\* A county is compared with what was read of it at the beginning, which it still is
\* unless staff rewrote it; and what is passed over was as the file has it.  A form that no
\* import has overtaken says what the table says, so saving it rewrites nothing.  Routes
\* are distinct in the table and as the running import sees it.
ImportInv ==
    /\ GeographyTypeOK /\ run \in Runs
    /\ run.left \cup run.written \subseteq {p \in Places : run.file[p] # NoRow}
    /\ Running => imports < begun
    /\ \A p \in Places : editing[p] # NoRow => placeName[p] = editing[p] \/ p \in oldForms
    /\ Running => \A p \in Places :
           /\ placeName[p] = run.read[p] \/ p \in meanwhile
           /\ run.file[p] # NoRow /\ p \notin run.left \cup run.written => run.read[p] = run.file[p]

RoutesInv == DistinctRoutes(placeName) /\ DistinctRoutes(SeenByRun)

LEMMA ImportInit ==
    ASSUME GeographyInit
    PROVE  ImportInv /\ RoutesInv /\ NamesLast
<1> USE GeographyAssumption DEF GeographyInit, NoRun
<1>1. ImportInv
  BY DEF ImportInv, GeographyTypeOK, Runs, Running, Files, DistinctRoutes
<1>2. RoutesInv /\ NamesLast
  BY DEF RoutesInv, DistinctRoutes, SeenByRun, NamesLast
<1>3. QED
  BY <1>1, <1>2

LEMMA ImportStep ==
    ASSUME ImportInv, [GeographyNext]_geographyVars
    PROVE  ImportInv'
<1> USE GeographyAssumption DEF ImportInv, GeographyTypeOK, Runs, Running, tableVars, namingVars
<1>1. ASSUME NEW f \in Files, NEW dry \in BOOLEAN, BeginImport(f, dry)
      PROVE  ImportInv'
  BY <1>1 DEF BeginImport, Files, Present
<1>2. ASSUME NEW p \in Places, WriteRow(p)
      PROVE  ImportInv'
  <2>1. run' \in Runs
    BY <1>2 DEF WriteRow
  <2>2. /\ run'.file = run.file /\ run'.read = run.read /\ run'.dry = run.dry
        /\ run'.left = run.left \ {p} /\ run'.written = IF MustWrite(p) THEN run.written \cup {p} ELSE run.written
    BY <1>2 DEF WriteRow
  <2>3. run # NoRun
    BY <1>2 DEF WriteRow, NoRun
  <2>4. QED
    BY <1>2, <2>1, <2>2, <2>3 DEF WriteRow, MustWrite, Present
<1>3. ASSUME NEW p \in Places, RollBack(p)
      PROVE  ImportInv'
  BY <1>3 DEF RollBack, NoRun, Files, DistinctRoutes, Present
<1>4. CASE EndImport
  <2>1. SeenByRun \in [Places -> PlaceNames \cup {NoRow}]
        /\ \A p \in Places : placeName[p] # NoRow => SeenByRun[p] # NoRow
    BY DEF SeenByRun
  <2>2. placeName' \in {placeName, SeenByRun}
    BY <1>4 DEF EndImport, Committed
  <2>3. placeName' \in [Places -> PlaceNames \cup {NoRow}] /\ Present \subseteq Present'
    BY <2>1, <2>2 DEF Present
  <2>4. /\ enabledHere' \in [Places -> BOOLEAN] /\ listed' \in [Places -> PlaceNames \cup {NoRow}]
        /\ oldForms' \subseteq {p \in Places : editing[p] # NoRow} /\ rewritten' \subseteq Places
    <3>1. CASE run.dry
      BY <1>4, <3>1 DEF EndImport
    <3>2. CASE ~ run.dry
      <4>1. /\ enabledHere' = [p \in Places |-> Created(p) \/ enabledHere[p]]
            /\ listed' = [p \in Places |-> IF p \in Named THEN run.file[p] ELSE listed[p]]
            /\ oldForms' = oldForms \cup {p \in Named : editing[p] # NoRow}
            /\ rewritten' = (rewritten \ Named) \cup (Named \cap (meanwhile \ run.written))
        BY <1>4, <3>2 DEF EndImport
      <4>2. \A p \in Places : (Created(p) \/ enabledHere[p]) \in BOOLEAN
        BY DEF Created
      <4>3. enabledHere' \in [Places -> BOOLEAN]
        BY <4>1, <4>2
      <4>4. QED
        BY <4>1, <4>3 DEF Named
    <3>3. QED
      BY <3>1, <3>2
  <2>5. imports' \in 0 .. begun
    <3>1. imports' \in {imports, imports + 1}
      BY <1>4 DEF EndImport
    <3>2. imports < begun
      BY <1>4 DEF EndImport
    <3>3. QED
      BY <3>1, <3>2
  <2>6. run' = NoRun /\ UNCHANGED <<editing, candidates, begun, meanwhile>>
    BY <1>4 DEF EndImport
  <2>7. ASSUME NEW p \in Places, editing[p] # NoRow
        PROVE  placeName'[p] = editing[p] \/ p \in oldForms'
    <3>1. CASE run.dry
      BY <1>4, <2>7, <3>1 DEF EndImport, Committed
    <3>2. CASE ~ run.dry
      <4>1. /\ placeName'[p] = SeenByRun[p]
            /\ oldForms' = oldForms \cup {q \in Named : editing[q] # NoRow}
        BY <1>4, <3>2 DEF EndImport, Committed
      <4>2. p \in run.written => p \in Named
        BY DEF Named
      <4>3. QED
        BY <2>7, <4>1, <4>2 DEF SeenByRun
    <3>3. QED
      BY <3>1, <3>2
  <2>8. QED
    BY <2>3, <2>4, <2>5, <2>6, <2>7 DEF NoRun, Files, DistinctRoutes
<1>5. ASSUME NEW p \in Places, OpenCounty(p) \/ LeaveCounty(p)
      PROVE  ImportInv'
  BY <1>5 DEF OpenCounty, LeaveCounty, Present
<1>6. ASSUME NEW p \in Places, NEW n \in PlaceNames, NEW flag \in BOOLEAN, SaveCounty(p, n, flag)
      PROVE  ImportInv'
  <2>1. /\ editing[p] # NoRow
        /\ placeName' = [placeName EXCEPT ![p] = n] /\ enabledHere' = [enabledHere EXCEPT ![p] = flag]
        /\ editing' = [editing EXCEPT ![p] = NoRow] /\ oldForms' = oldForms \ {p}
        /\ rewritten' \subseteq rewritten \cup {p}
        /\ meanwhile' = IF Rewrites(p, n) THEN meanwhile \cup {p} ELSE meanwhile
        /\ UNCHANGED <<run, imports, candidates, begun, listed>>
    BY <1>6 DEF SaveCounty
  <2>2. Rewrites(p, n) \/ placeName[p] = n
    BY <2>1 DEF Rewrites
  <2>3. n # NoRow
    OBVIOUS
  <2>4. Present \subseteq Present'
    BY <2>1, <2>3 DEF Present
  <2>5. ASSUME Running, NEW q \in Places
        PROVE  placeName'[q] = run.read[q] \/ q \in meanwhile'
    BY <2>1, <2>2, <2>5
  <2>6. GeographyTypeOK'
    BY <2>1, <2>4
  <2>7. QED
    BY <2>1, <2>5, <2>6
<1>7. CASE EnableAll
  BY <1>7 DEF EnableAll, Present
<1>8. ASSUME NEW rows \in SUBSET (Zips \X Places), ImportZips(rows)
      PROVE  ImportInv'
  <2>1. \A r \in Zips \X Places : r[2] \in Present => r \in Zips \X Present
    OBVIOUS
  <2>2. {r \in rows : r[2] \in Present} \subseteq Zips \X Present
    BY <2>1
  <2>3. QED
    BY <1>8, <2>2 DEF ImportZips, Present
<1>9. CASE UNCHANGED geographyVars
  BY <1>9 DEF geographyVars, Present
<1> HIDE DEF ImportInv, GeographyTypeOK, Runs, Running, tableVars, namingVars
<1>10. QED
  BY <1>1, <1>2, <1>3, <1>4, <1>5, <1>6, <1>7, <1>8, <1>9 DEF GeographyNext

\* The constraints keep routes distinct also in what a commit will make published.
LEMMA RoutesStep ==
    ASSUME ImportInv, RoutesInv, [GeographyNext]_geographyVars
    PROVE  RoutesInv'
<1> USE DEF RoutesInv, tableVars
<1>0. /\ placeName \in [Places -> PlaceNames \cup {NoRow}] /\ run \in Runs
      /\ SeenByRun = [p \in Places |-> IF p \in run.written THEN run.file[p] ELSE placeName[p]]
  BY DEF ImportInv, GeographyTypeOK, SeenByRun
<1>1. ASSUME run' = NoRun, DistinctRoutes(placeName')
      PROVE  RoutesInv'
  <2>1. SeenByRun' = [p \in Places |-> placeName'[p]]
    BY <1>1 DEF SeenByRun, NoRun
  <2>2. QED
    BY <1>1, <2>1 DEF DistinctRoutes
<1>2. CASE UNCHANGED <<placeName, run>>
  BY <1>2 DEF SeenByRun, DistinctRoutes
<1>3. ASSUME NEW f \in Files, NEW dry \in BOOLEAN, BeginImport(f, dry)
      PROVE  RoutesInv'
  <2>1. placeName' = placeName /\ run'.written = {}
    BY <1>3 DEF BeginImport
  <2>2. SeenByRun' = placeName
    BY <1>0, <2>1 DEF SeenByRun
  <2>3. QED
    BY <2>1, <2>2 DEF DistinctRoutes
<1>4. ASSUME NEW p \in Places, WriteRow(p)
      PROVE  RoutesInv'
  <2>1. placeName' = placeName /\ run'.file = run.file
        /\ run'.written = IF MustWrite(p) THEN run.written \cup {p} ELSE run.written
    BY <1>0, <1>4 DEF WriteRow, Runs
  <2>2. SeenByRun' = IF MustWrite(p) THEN [SeenByRun EXCEPT ![p] = run.file[p]] ELSE SeenByRun
    BY <1>0, <2>1 DEF SeenByRun
  <2>3. MustWrite(p) => DistinctRoutes([SeenByRun EXCEPT ![p] = run.file[p]])
    BY <1>4 DEF WriteRow, Collides
  <2>4. QED
    BY <2>1, <2>2, <2>3 DEF DistinctRoutes
<1>5. CASE (\E p \in Places : RollBack(p)) \/ EndImport
  <2>1. run' = NoRun /\ placeName' \in {placeName, SeenByRun}
    BY <1>5 DEF RollBack, EndImport, Committed
  <2>2. QED
    BY <1>1, <2>1 DEF DistinctRoutes
<1>6. ASSUME NEW p \in Places, NEW n \in PlaceNames, NEW flag \in BOOLEAN, SaveCounty(p, n, flag)
      PROVE  RoutesInv'
  <2>1. placeName' = [placeName EXCEPT ![p] = n] /\ run' = run /\ p \notin run.written
        /\ DistinctRoutes([placeName EXCEPT ![p] = n])
        /\ DistinctRoutes([SeenByRun EXCEPT ![p] = n])
    BY <1>6 DEF SaveCounty
  <2>2. SeenByRun' = [SeenByRun EXCEPT ![p] = n]
    BY <1>0, <2>1 DEF SeenByRun
  <2>3. QED
    BY <2>1, <2>2 DEF DistinctRoutes
<1>7. CASE (\E p \in Places : OpenCounty(p) \/ LeaveCounty(p)) \/ EnableAll
           \/ (\E rows \in SUBSET (Zips \X Places) : ImportZips(rows)) \/ UNCHANGED geographyVars
  BY <1>2, <1>7 DEF OpenCounty, LeaveCounty, EnableAll, ImportZips, geographyVars
<1>8. QED
  BY <1>3, <1>4, <1>5, <1>6, <1>7 DEF GeographyNext

\* What an import lists is what it commits, unless staff rewrote what it had passed over;
\* and a save changes the name only if it rewrites it.
LEMMA NamesStep ==
    ASSUME ImportInv, NamesLast, [GeographyNext]_geographyVars
    PROVE  NamesLast'
<1> USE DEF NamesLast
<1>1. CASE UNCHANGED <<placeName, listed, rewritten>>
  BY <1>1
<1>2. CASE EndImport
  <2>1. CASE run.dry
    BY <1>2, <2>1 DEF EndImport, Committed
  <2>2. CASE ~ run.dry
    <3>1. /\ placeName' = SeenByRun /\ Running /\ run.left = {}
          /\ listed' = [p \in Places |-> IF p \in Named THEN run.file[p] ELSE listed[p]]
          /\ rewritten' = (rewritten \ Named) \cup (Named \cap (meanwhile \ run.written))
      BY <1>2, <2>2 DEF EndImport, Committed
    <3>2. ASSUME NEW p \in Named PROVE placeName'[p] = listed'[p] \/ p \in rewritten'
      BY <3>1 DEF Named, SeenByRun, ImportInv
    <3>3. ASSUME NEW p \in Places \ Named
          PROVE  placeName'[p] = placeName[p] /\ listed'[p] = listed[p] /\ (p \in rewritten => p \in rewritten')
      BY <3>1 DEF Named, SeenByRun, ImportInv
    <3>4. QED
      BY <3>2, <3>3 DEF Named
  <2>3. QED
    BY <2>1, <2>2
<1>3. ASSUME NEW p \in Places, NEW n \in PlaceNames, NEW flag \in BOOLEAN, SaveCounty(p, n, flag)
      PROVE  NamesLast'
  <2>1. /\ editing[p] # NoRow /\ placeName' = [placeName EXCEPT ![p] = n] /\ listed' = listed
        /\ rewritten' = IF Rewrites(p, n) THEN rewritten \cup {p} ELSE rewritten
    BY <1>3 DEF SaveCounty
  <2>2. Rewrites(p, n) \/ placeName[p] = n
    BY <2>1 DEF Rewrites, ImportInv
  <2>3. placeName \in [Places -> PlaceNames \cup {NoRow}]
    BY DEF ImportInv, GeographyTypeOK
  <2>4. QED
    BY <2>1, <2>2, <2>3
<1>4. CASE ~ EndImport /\ ~ \E p \in Places, n \in PlaceNames, flag \in BOOLEAN : SaveCounty(p, n, flag)
  BY <1>1, <1>4 DEF GeographyNext, BeginImport, WriteRow, RollBack, OpenCounty, LeaveCounty, EnableAll,
                    ImportZips, geographyVars, tableVars, namingVars
<1>5. QED
  BY <1>2, <1>3, <1>4

LEMMA WholeStep ==
    ASSUME ImportInv, [GeographyNext]_geographyVars, imports' # imports
    PROVE  \A p \in Places : run.file[p] # NoRow => placeName'[p] = run.file[p] \/ p \in meanwhile
<1>1. EndImport
  BY DEF GeographyNext, BeginImport, WriteRow, RollBack, OpenCounty, SaveCounty, LeaveCounty, EnableAll,
         ImportZips, geographyVars, tableVars
<1>2. placeName' = SeenByRun /\ Running /\ run.left = {}
  BY <1>1 DEF EndImport, Committed
<1>3. QED
  BY <1>2 DEF SeenByRun, ImportInv

LEMMA ImportInductive == GeographySpec => [](ImportInv /\ RoutesInv /\ NamesLast)
<1>1. GeographyInit => ImportInv /\ RoutesInv /\ NamesLast
  BY ImportInit
<1>2. ImportInv /\ RoutesInv /\ NamesLast /\ [GeographyNext]_geographyVars
          => (ImportInv /\ RoutesInv /\ NamesLast)'
  BY ImportStep, RoutesStep, NamesStep
<1>3. QED
  BY <1>1, <1>2, PTL DEF GeographySpec

\* The name that a recorded import gave a county lasts until staff type another or save a
\* form that was opened before it: save() of a ModelAdmin writes every column, and nothing
\* else undoes an import, neither a dry run nor one that is rolled back.
THEOREM NamesAreLasting == GeographySpec => []NamesLast
BY ImportInductive, PTL

\* The routes that a running import has prepared are distinct together with those that
\* staff saved beside it, so its commit meets no constraint.
THEOREM RoutesStayDistinct == GeographySpec => [](DistinctRoutes(placeName) /\ DistinctRoutes(SeenByRun))
<1>1. RoutesInv => DistinctRoutes(placeName) /\ DistinctRoutes(SeenByRun)
  BY DEF RoutesInv
<1>2. QED
  BY <1>1, ImportInductive, PTL

\* A recorded import has named every county as its file does, except those whose name staff
\* rewrote while it ran (_upsert_reference_data).
THEOREM ImportsAreWhole == GeographySpec => ImportIsWhole
<1>1. ImportInv /\ [GeographyNext]_geographyVars =>
          [imports' # imports =>
               \A p \in Places : run.file[p] # NoRow =>
                   placeName'[p] = run.file[p] \/ p \in meanwhile]_geographyVars
  BY WholeStep
<1>2. QED
  BY <1>1, ImportInductive, PTL DEF GeographySpec, ImportIsWhole
=============================================================================
