------------------------------ MODULE Reports ------------------------------
(***************************************************************************)
(* Reports about listings (reports/services.py): buyers' submissions,      *)
(* which are counted before they are admitted, and triage by staff.  A     *)
(* submission is a process between its query, the lock of its listing and  *)
(* its commit, a triage between the lock of its report and its commit: the *)
(* reports that others have not committed yet are not counted.             *)
(***************************************************************************)
EXTENDS Naturals, FiniteSets, Sequences, SequencesExt

CONSTANTS
    Submissions,    \* posted report forms
    Subjects,       \* the listings they are about
    Sources,        \* hashes of the addresses they come from
    Texts,          \* their reasons and descriptions, normalised
    Staff,          \* users who may triage
    Free,           \* holds a lock nobody holds
    SourceLimit,    \* REPORT_RATE_SOURCE_LIMIT
    ListingLimit,   \* REPORT_RATE_LISTING_LIMIT
    MaxTriage       \* bounds the triage actions (no counterpart in the code)

ASSUME ReportsAssumption ==
    /\ IsFiniteSet(Subjects) /\ Free \notin Submissions \cup Staff
    /\ SourceLimit \in Nat /\ ListingLimit \in Nat /\ MaxTriage \in Nat

VARIABLES
    form,       \* what each submission says once it is posted: a subject, a source, a text
    stage,      \* how far a submission has got
    subjectLock,\* the submission that has locked the row of a subject
    published,  \* the subjects whose status is published
    filed,      \* the submissions whose report is committed
    recent,     \* the filed ones of the last REPORT_RATE_WINDOW_SECONDS
    triageState,\* ListingReport.state
    assignee,   \* ListingReport.assigned_to
    trail,      \* the ListingReportActions of a report, oldest first
    reportLock, \* the member of staff who has locked the row of a report
    reading,    \* the state that member read under the lock
    triages

triageVars == <<triageState, assignee, trail, reportLock, reading, triages>>
reportsVars == <<form, stage, subjectLock, published, filed, recent, triageVars>>

Forms == [subject : Subjects, source : Sources, text : Texts]
NotPosted == [subject |-> Free, source |-> Free, text |-> Free]
Stages == {"new", "waiting", "locked", "admitted", "suppressed", "filed"}
Closed == {"resolved", "dismissed"}
TriageStates == {"open", "acknowledged", "escalated"} \cup Closed

\* The recent reports that agree with a submission on some fields of the form.
Alike(p, fields) == {q \in recent : \A f \in fields : form[q][f] = form[p][f]}

ReportsInit ==
    /\ form = [p \in Submissions |-> NotPosted]
    /\ stage = [p \in Submissions |-> "new"]
    /\ subjectLock = [l \in Subjects |-> Free]
    /\ published = Subjects
    /\ filed = {} /\ recent = {}
    /\ triageState = [p \in Submissions |-> "open"]
    /\ assignee = [p \in Submissions |-> Free]
    /\ trail = [p \in Submissions |-> <<>>]
    /\ reportLock = [p \in Submissions |-> Free]
    /\ reading = [p \in Submissions |-> "open"]
    /\ triages = 0

BugRowNotLocked(l) == TRUE

\* select_for_update on the row of a listing.
RowFree(l) == subjectLock[l] = Free

\* submit_listing_report with the form f, up to its query: public_listings() finds the
\* listing when it is published and shown.  A listing is shown unless its expiry is past or
\* its vertical, category, state or county is disabled: either may come or go at any
\* moment, since neither needs the row of the listing.
PostReport(p, f, shown) ==
    /\ stage[p] = "new"
    /\ form' = [form EXCEPT ![p] = f]
    /\ stage' = [stage EXCEPT ![p] =
                     IF f.subject \in published /\ shown THEN "waiting" ELSE "suppressed"]
    /\ UNCHANGED <<subjectLock, published, filed, recent, triageVars>>

\* select_for_update(of=("self",)): only the row of the listing is locked, and only what
\* that row says is looked at again; the clock and the rows it is joined with are not.
LockSubject(p) ==
    /\ stage[p] = "waiting" /\ RowFree(form[p].subject)
    /\ IF form[p].subject \in published
       THEN /\ subjectLock' = [subjectLock EXCEPT ![form[p].subject] = p]
            /\ stage' = [stage EXCEPT ![p] = "locked"]
       ELSE /\ stage' = [stage EXCEPT ![p] = "suppressed"]
            /\ UNCHANGED subjectLock
    /\ UNCHANGED <<form, published, filed, recent, triageVars>>

Release(p, outcome) ==
    /\ stage' = [stage EXCEPT ![p] = outcome]
    /\ subjectLock' = [subjectLock EXCEPT ![form[p].subject] = Free]

BugCountsListingsOnly(p) ==
    /\ Cardinality(Alike(p, {"subject"})) < ListingLimit
    /\ Alike(p, {"subject", "source", "text"}) = {}

\* count() drops the FOR UPDATE of its query, and exists() locks at most a report that
\* refuses this one: only what has been committed is seen.
WithinLimits(p) ==
    /\ Cardinality(Alike(p, {"source"})) < SourceLimit
    /\ Cardinality(Alike(p, {"subject"})) < ListingLimit
    /\ Alike(p, {"subject", "source", "text"}) = {}

CountRecent(p) ==
    /\ stage[p] = "locked"
    /\ IF WithinLimits(p)
       THEN stage' = [stage EXCEPT ![p] = "admitted"] /\ UNCHANGED subjectLock
       ELSE Release(p, "suppressed")
    /\ UNCHANGED <<form, published, filed, recent, triageVars>>

CommitReport(p) ==
    /\ stage[p] = "admitted"
    /\ Release(p, "filed")
    /\ filed' = filed \cup {p}
    /\ recent' = recent \cup {p}
    /\ trail' = [trail EXCEPT ![p] = <<[from |-> "open", to |-> "open", by |-> Free]>>]
    /\ UNCHANGED <<form, published, triageState, assignee, reportLock, reading, triages>>

\* The window moves on, oldest report first or several at once.
LeaveWindow(p) ==
    /\ recent' = recent \ {p} /\ p \in recent
    /\ UNCHANGED <<form, stage, subjectLock, published, filed, triageVars>>

\* Every service that publishes a listing or withdraws it locks its row first.
ChangeStatus(l) ==
    /\ RowFree(l)
    /\ published' = IF l \in published THEN published \ {l} ELSE published \cup {l}
    /\ UNCHANGED <<form, stage, subjectLock, filed, recent, triageVars>>

BugClosedReopens(p) == reportLock[p] = Free

Triageable(p) == reportLock[p] = Free /\ triageState[p] \notin Closed

\* transition_listing_report: a closed report is refused.
LockReport(r, p) ==
    /\ p \in filed /\ Triageable(p)
    /\ triages < MaxTriage
    /\ triages' = triages + 1
    /\ reportLock' = [reportLock EXCEPT ![p] = r]
    /\ reading' = [reading EXCEPT ![p] = triageState[p]]
    /\ UNCHANGED <<form, stage, subjectLock, published, filed, recent, triageState,
                   assignee, trail>>

CommitTriage(r, p, to) ==
    /\ reportLock[p] = r /\ to # "open"
    /\ triageState' = [triageState EXCEPT ![p] = to]
    /\ assignee' = [assignee EXCEPT ![p] = r]
    /\ trail' = [trail EXCEPT ![p] = Append(@, [from |-> reading[p], to |-> to, by |-> r])]
    /\ reportLock' = [reportLock EXCEPT ![p] = Free]
    /\ reading' = [reading EXCEPT ![p] = "open"]
    /\ UNCHANGED <<form, stage, subjectLock, published, filed, recent, triages>>

\* The report page of a listing, and the triage page of a report.
ReportListing(p) ==
    \/ \E f \in Forms, shown \in BOOLEAN : PostReport(p, f, shown)
    \/ LockSubject(p) \/ CountRecent(p) \/ CommitReport(p)

TriageReport(r, p) == LockReport(r, p) \/ \E to \in TriageStates : CommitTriage(r, p, to)

ReportsNext ==
    \/ \E p \in Submissions : \/ ReportListing(p) \/ LeaveWindow(p)
                              \/ \E r \in Staff : TriageReport(r, p)
    \/ \E l \in Subjects : ChangeStatus(l)

ReportsSpec == ReportsInit /\ [][ReportsNext]_reportsVars

(***************************************************************************)
(* Properties.                                                             *)
(***************************************************************************)

ReportsTypeOK ==
    /\ form \in [Submissions -> Forms \cup {NotPosted}]
    /\ stage \in [Submissions -> Stages]
    /\ subjectLock \in [Subjects -> Submissions \cup {Free}]
    /\ published \subseteq Subjects
    /\ filed \subseteq Submissions /\ recent \subseteq filed
    /\ triageState \in [Submissions -> TriageStates]
    /\ reading \in [Submissions -> TriageStates]
    /\ assignee \in [Submissions -> Staff \cup {Free}]
    /\ reportLock \in [Submissions -> Staff \cup {Free}]
    /\ triages \in 0 .. MaxTriage
    /\ trail \in [Submissions -> Seq([from : TriageStates, to : TriageStates,
                                      by : Staff \cup {Free}])]

\* One listing never gets more reports in a window than its limit, nor the same
\* report twice: the lock of the listing orders the counts (reports/services.py:71).
\* One address may exceed its limit, by counting on several listings at once, but
\* by no more than the other listings it writes about.
LimitsKept ==
    \A p \in recent :
        /\ Cardinality(Alike(p, {"subject"})) <= ListingLimit
        /\ Alike(p, {"subject", "source", "text"}) = {p}
        /\ Cardinality(Alike(p, {"source"})) <= SourceLimit + Cardinality(Subjects) - 1

\* A report appears only about a listing that is published at that moment, whoever
\* withdraws it meanwhile: the status that the locked row had still holds at the commit
\* (reports/services.py:71).  Whether buyers see it was decided by the query, and may no
\* longer be so: no lock keeps the expiry and the places and categories it also asks for.
ReportsAboutPublished ==
    [][\A p \in filed' \ filed : form[p].subject \in published]_reportsVars

\* The audit trail of a report is unbroken and ends with its state and assignee;
\* nothing follows the closing of a report, whoever triages at the same time.
TrailUnbroken ==
    \A p \in filed :
        LET steps == trail[p] IN
        /\ steps # <<>> /\ Last(steps).to = triageState[p] /\ Last(steps).by = assignee[p]
        /\ \A n \in 2 .. Len(steps) : /\ steps[n].from = steps[n - 1].to
                                      /\ steps[n].from \notin Closed
=============================================================================
