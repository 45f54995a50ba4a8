------------------------------- MODULE Media -------------------------------
(***************************************************************************)
(* Images and videos of one listing (listings/services.py, cleanup command *)
(* cleanup_listing_media.py): rows in the database, which commit or roll   *)
(* back, beside files in a storage that does neither.  A request is a      *)
(* process: between the lock of the listing and the commit it saves or     *)
(* deletes one file at a time, and it may die, or its storage may raise,   *)
(* between any two of them.                                                *)
(***************************************************************************)
EXTENDS Naturals, FiniteSets, Sequences, Functions

CONSTANTS
    Images,         \* image uploads; each request opens a session of its own
    Videos,         \* video uploads, which have no session
    MaximumImages,  \* maximum_image_count of the media policy
    Nobody,         \* holds the listing's lock when no request does
    MaxDeaths       \* bounds how often a request dies (no counterpart in the code)

ASSUME MediaAssumption ==
    /\ IsFiniteSet(Images) /\ Images \cap Videos = {}
    /\ Nobody \notin Images \cup Videos
    /\ MaximumImages \in Nat
    /\ MaxDeaths \in Nat

Items == Images \cup Videos

VARIABLES
    session,    \* UploadSession.state of each image upload
    lapsed,     \* the open sessions whose expires_at has passed
    row,        \* state of the ListingImage or ListingVideo
    position,   \* ListingImage.ordering of the ready images, 0 for the others
    files,      \* what the storage holds: pairs of an item and a file of it
    aged,       \* staged files older than the cleanup's thirty minutes
    request,    \* where the request that uploads or deletes an item stands
    done,       \* how many files it has saved or deleted
    holder,     \* the request that holds the lock of the listing
    status,     \* of the listing: "draft", "published", or "away" where owners may not edit
    cleaner,    \* the cleanup command: its phase and the names it still has
    deaths,
    orphaned,   \* history: uploads that died with files saved
    cutOff,     \* history: deletions that died with files deleted
    overtaken   \* history: sessions finalised after the cleaner read them open

uploadVars == <<session, lapsed>>
imageVars == <<row, position>>
storageVars == <<files, aged>>
requestVars == <<request, done, holder>>
historyVars == <<deaths, orphaned, cutOff, overtaken>>
mediaVars == <<uploadVars, imageVars, storageVars, requestVars, status, cleaner, historyVars>>

BugKeepsPreview(i) == IF i \in Images THEN <<"image">> ELSE <<"source">>

Saved(i) == IF i \in Images THEN <<"staged", "image", "preview">> ELSE <<"source">>
\* The files of a row, which go with it.
Kept(i) == IF i \in Images THEN <<"image", "preview">> ELSE <<"source">>
KeptFiles(i) == {<<i, f>> : f \in Range(Kept(i))}
AllFiles == {<<i, f>> : i \in Items, f \in {"staged", "image", "preview", "source"}}

Ready == {i \in Images : row[i] = "ready"}
Unlocked == holder = Nobody

BugIgnoresLock == status # "away"
BugIgnoresStatus == Unlocked

\* _locked_owned_draft: the lock is taken, and the status of the locked row allows it.
MayWrite == Unlocked /\ status # "away"

\* _depublish_material_edit, the last call of every service below.
Depublished == status' = IF status = "published" THEN "away" ELSE status

BugRoomForOneMore == Cardinality(Ready) <= MaximumImages
Room == Cardinality(Ready) < MaximumImages

InTransaction(i) == request[i] \in {"saving", "unstaged", "deleting"}

MediaInit ==
    /\ session = [i \in Images |-> "none"]
    /\ lapsed = {}
    /\ row = [i \in Items |-> "none"]
    /\ position = [i \in Images |-> 0]
    /\ files = {}
    /\ aged = {}
    /\ request = [i \in Items |-> "new"]
    /\ done = [i \in Items |-> 0]
    /\ holder = Nobody
    /\ status = "draft"
    /\ cleaner = [phase |-> "idle", names |-> {}]
    /\ deaths = 0
    /\ orphaned = {} /\ cutOff = {} /\ overtaken = {}

(***************************************************************************)
(* Uploads.                                                                *)
(***************************************************************************)

\* edit_listing with an image in its form.  update_unified_listing has committed, and
\* taken a published listing away, when _attach_form_images begins.
EditWithImage(i) ==
    /\ request[i] = "new" /\ MayWrite
    /\ request' = [request EXCEPT ![i] = "posted"]
    /\ Depublished
    /\ UNCHANGED <<uploadVars, imageVars, storageVars, done, holder, cleaner, historyVars>>

\* begin_image_upload: its own transaction, before the file is looked at.
BeginUpload(i) ==
    /\ request[i] \in {"new", "posted"}
    /\ MayWrite /\ Room
    /\ session' = [session EXCEPT ![i] = "open"]
    /\ request' = [request EXCEPT ![i] = "begun"]
    /\ UNCHANGED <<lapsed, imageVars, storageVars, done, holder, status, cleaner, historyVars>>

\* finalize_image_upload: an expired session is marked in autocommit, so that
\* the error it raises does not undo the mark.
RefuseLapsed(i) ==
    /\ request[i] = "begun" /\ session[i] = "open" /\ i \in lapsed
    /\ session' = [session EXCEPT ![i] = "expired"]
    /\ lapsed' = lapsed \ {i}
    /\ request' = [request EXCEPT ![i] = "over"]
    /\ UNCHANGED <<imageVars, storageVars, done, holder, status, cleaner, historyVars>>

\* A request takes the lock; a request that commits or rolls back lets it go.
Locks(i, stage) ==
    /\ request' = [request EXCEPT ![i] = stage]
    /\ holder' = i
    /\ UNCHANGED <<uploadVars, imageVars, storageVars, done, status, cleaner, historyVars>>
Unlocks(i) ==
    /\ request' = [request EXCEPT ![i] = "over"]
    /\ done' = [done EXCEPT ![i] = 0]
    /\ holder' = Nobody

\* _finalize_image_upload up to the first file: the locks, then the checks made again
\* under them.
StartImage(i) ==
    /\ MayWrite /\ Room
    /\ request[i] = "begun" /\ session[i] = "open" /\ i \notin lapsed
    /\ Locks(i, "saving")

StartVideo(i) == i \in Videos /\ request[i] = "new" /\ MayWrite /\ Locks(i, "saving")

\* A check fails, or the payload is no image or video: nothing was saved.
Refuse(i) ==
    /\ request[i] \in {"new", "posted", "begun"} /\ Unlocked
    /\ ~ (i \in Images /\ request[i] = "begun" /\ session[i] = "open" /\ i \in lapsed)
    /\ request' = [request EXCEPT ![i] = "over"]
    /\ UNCHANGED <<uploadVars, imageVars, storageVars, done, holder, status, cleaner, historyVars>>

SaveFile(i) ==
    /\ request[i] = "saving" /\ done[i] < Len(Saved(i))
    /\ files' = files \cup {<<i, Saved(i)[done[i] + 1]>>}
    /\ done' = [done EXCEPT ![i] = @ + 1]
    /\ UNCHANGED <<uploadVars, imageVars, aged, request, holder, status, cleaner, historyVars>>

\* The staged copy goes while the row it was for is not committed yet.
Unstage(i) ==
    /\ i \in Images /\ request[i] = "saving" /\ done[i] = Len(Saved(i))
    /\ files' = files \ {<<i, "staged">>}
    /\ aged' = aged \ {<<i, "staged">>}
    /\ request' = [request EXCEPT ![i] = "unstaged"]
    /\ UNCHANGED <<uploadVars, imageVars, done, holder, status, cleaner, historyVars>>

NextOrder == IF Ready = {} THEN 0 ELSE 1 + CHOOSE p \in {position[i] : i \in Ready} :
                                            \A j \in Ready : position[j] <= p

BugSessionForgotten(i) == session
Finalized(i) == [session EXCEPT ![i] = "finalized"]

CommitImage(i) ==
    /\ request[i] = "unstaged"
    /\ row' = [row EXCEPT ![i] = "ready"]
    /\ position' = [position EXCEPT ![i] = NextOrder]
    /\ session' = Finalized(i)
    /\ lapsed' = lapsed \ {i}
    /\ overtaken' = IF cleaner.phase = "expiring" /\ i \in cleaner.names
                    THEN overtaken \cup {i} ELSE overtaken
    /\ Unlocks(i) /\ Depublished
    /\ UNCHANGED <<storageVars, cleaner, deaths, orphaned, cutOff>>

CommitVideo(i) ==
    /\ i \in Videos /\ request[i] = "saving" /\ done[i] = Len(Saved(i))
    /\ row' = [row EXCEPT ![i] = "ready"]
    /\ Unlocks(i) /\ Depublished
    /\ UNCHANGED <<uploadVars, position, storageVars, cleaner, historyVars>>

FinalizeImageUpload(i) ==
    RefuseLapsed(i) \/ StartImage(i) \/ Refuse(i) \/ SaveFile(i) \/ Unstage(i) \/ CommitImage(i)

\* The upload page, and the form of the edit page: a session, then its image.
UploadListingImage(i) == BeginUpload(i) \/ FinalizeImageUpload(i)
AttachFormImages(i) == request[i] = "posted" /\ (BeginUpload(i) \/ Refuse(i))

UploadListingVideo(i) == StartVideo(i) \/ Refuse(i) \/ SaveFile(i) \/ CommitVideo(i)

(***************************************************************************)
(* Deletion and order.                                                     *)
(***************************************************************************)

\* Only a ready image or video is found, by the pages that serve it and by this one.
Served(i) == row[i] = "ready"

StartDeleting(i) == request[i] = "over" /\ Served(i) /\ MayWrite /\ Locks(i, "deleting")

\* The files go before the transaction that marks the row commits.
DeleteFile(i) ==
    /\ request[i] = "deleting" /\ done[i] < Len(Kept(i))
    /\ files' = files \ {<<i, Kept(i)[done[i] + 1]>>}
    /\ done' = [done EXCEPT ![i] = @ + 1]
    /\ UNCHANGED <<uploadVars, imageVars, aged, request, holder, status, cleaner, historyVars>>

\* Where i stands among the images in S.
Before(i, S) == Cardinality({j \in S : position[j] < position[i]})

\* The loop of delete_listing_image, after k of the images that remain.
Renumbered(S, k) ==
    [i \in S |-> IF Before(i, S) < k THEN Before(i, S) ELSE position[i]]

\* The row is marked, in the transaction that has deleted the last file.
MarkDeleted(i) ==
    /\ request[i] = "deleting" /\ done[i] = Len(Kept(i))
    /\ row' = [row EXCEPT ![i] = "deleted"]
    /\ cutOff' = cutOff \ {i}
    /\ Unlocks(i) /\ Depublished
    /\ UNCHANGED <<uploadVars, storageVars, cleaner, deaths, orphaned, overtaken>>

DeleteListingImage(i) ==
    \/ StartDeleting(i) \/ DeleteFile(i)
    \/ LET rest == Ready \ {i} IN
       /\ MarkDeleted(i)
       /\ position' = [j \in Images |-> IF j \in rest THEN Renumbered(rest, Cardinality(rest))[j]
                                       ELSE 0]

DeleteListingVideo(i) ==
    StartDeleting(i) \/ DeleteFile(i) \/ (MarkDeleted(i) /\ UNCHANGED position)

\* The orders a seller may post: every ready image once.
Orders == {o \in [1 .. Cardinality(Ready) -> Ready] : Range(o) = Ready}

BugNotParked(o, k) == [i \in Ready |-> position[i]]

\* The two loops of reorder_images, after k rows of one of them: every row is
\* first moved out of the way of the rows still to be written.
Parked(o, k) ==
    [i \in Ready |-> LET n == CHOOSE n \in DOMAIN o : o[n] = i
                     IN  IF n <= k THEN n - 1 + Len(o) ELSE position[i]]
Placed(o, k) ==
    [i \in Ready |-> LET n == CHOOSE n \in DOMAIN o : o[n] = i
                     IN  IF n <= k THEN n - 1 ELSE Parked(o, Len(o))[i]]

Reorder(o) ==
    /\ MayWrite
    /\ position' = [i \in Images |-> IF i \in Ready THEN Placed(o, Len(o))[i] ELSE position[i]]
    /\ Depublished
    /\ UNCHANGED <<uploadVars, row, storageVars, requestVars, cleaner, historyVars>>

(***************************************************************************)
(* Death of a request, the rest of the site, and time.                     *)
(***************************************************************************)

\* The transaction rolls back and its locks go; the files stay as they are.
Die(i) ==
    /\ deaths < MaxDeaths /\ InTransaction(i)
    /\ deaths' = deaths + 1
    /\ orphaned' = IF request[i] # "deleting" /\ done[i] > 0 THEN orphaned \cup {i}
                   ELSE orphaned
    /\ cutOff' = IF request[i] = "deleting" /\ done[i] > 0 THEN cutOff \cup {i} ELSE cutOff
    /\ Unlocks(i)
    /\ UNCHANGED <<uploadVars, imageVars, storageVars, status, cleaner, overtaken>>

\* A submission, a decision of a moderator or a payment, each under the listing's lock.
ListingMoves(to) ==
    /\ Unlocked /\ status # to
    /\ status' = to
    /\ UNCHANGED <<uploadVars, imageVars, storageVars, requestVars, cleaner, historyVars>>

\* Half an hour goes by.  A staged file is younger than its session.
Lapse(i) ==
    /\ session[i] = "open" /\ i \notin lapsed
    /\ lapsed' = lapsed \cup {i}
    /\ UNCHANGED <<session, imageVars, storageVars, requestVars, status, cleaner, historyVars>>

Age(i) ==
    /\ <<i, "staged">> \in files \ aged
    /\ i \in lapsed \/ session[i] = "expired"
    /\ aged' = aged \cup {<<i, "staged">>}
    /\ UNCHANGED <<uploadVars, imageVars, files, requestVars, status, cleaner, historyVars>>

(***************************************************************************)
(* The cleanup command.  It locks nothing: what it iterates was read once, *)
(* and a session is written back by key.                                   *)
(***************************************************************************)

CleanRead ==
    /\ cleaner.phase = "idle"
    /\ cleaner' = [phase |-> "expiring",
                   names |-> {i \in Images : session[i] = "open" /\ i \in lapsed}]
    /\ UNCHANGED <<uploadVars, imageVars, storageVars, requestVars, status, historyVars>>

\* The update waits for a finalisation that holds the session's row.
CleanExpire(i) ==
    /\ cleaner.phase = "expiring" /\ i \in cleaner.names
    /\ ~ InTransaction(i) \/ request[i] = "deleting"
    /\ session' = [session EXCEPT ![i] = "expired"]
    /\ lapsed' = lapsed \ {i}
    /\ cleaner' = [cleaner EXCEPT !.names = @ \ {i}]
    /\ UNCHANGED <<imageVars, storageVars, requestVars, status, historyVars>>

BugOnlyOpenSessions == {i \in Images : <<i, "staged">> \in files /\ session[i] = "open"}

\* Staged files no row refers to: only a finalised session has a staged_key, whatever
\* its state became.
Abandoned == {i \in Images : <<i, "staged">> \in files /\ row[i] = "none"}

CleanList ==
    /\ cleaner.phase = "expiring" /\ cleaner.names = {}
    /\ cleaner' = [phase |-> "removing", names |-> Abandoned]
    /\ UNCHANGED <<uploadVars, imageVars, storageVars, requestVars, status, historyVars>>

CleanRemove(i) ==
    /\ cleaner.phase = "removing" /\ i \in cleaner.names
    /\ files' = files \ ({<<i, "staged">>} \cap aged)
    /\ aged' = aged \ {<<i, "staged">>}
    /\ cleaner' = [cleaner EXCEPT !.names = @ \ {i}]
    /\ UNCHANGED <<uploadVars, imageVars, requestVars, status, historyVars>>

CleanEnd ==
    /\ cleaner.phase = "removing" /\ cleaner.names = {}
    /\ cleaner' = [phase |-> "idle", names |-> {}]
    /\ UNCHANGED <<uploadVars, imageVars, storageVars, requestVars, status, historyVars>>

Clean == CleanRead \/ CleanList \/ CleanEnd \/ \E i \in Images : CleanExpire(i) \/ CleanRemove(i)

MediaNext ==
    \/ \E i \in Images : \/ EditWithImage(i) \/ AttachFormImages(i)
                         \/ UploadListingImage(i) \/ DeleteListingImage(i)
                         \/ Die(i) \/ Lapse(i) \/ Age(i)
    \/ \E i \in Videos : UploadListingVideo(i) \/ DeleteListingVideo(i) \/ Die(i)
    \/ \E o \in Orders : Reorder(o)
    \/ \E to \in {"draft", "published", "away"} : ListingMoves(to)
    \/ Clean

MediaSpec == MediaInit /\ [][MediaNext]_mediaVars

\* A request in a transaction goes on or dies; the scheduler runs the cleanup
\* again and again; time passes.
Progress(i) ==
    \/ InTransaction(i) /\ IF i \in Images THEN UploadListingImage(i) \/ DeleteListingImage(i)
                           ELSE UploadListingVideo(i) \/ DeleteListingVideo(i)
    \/ Die(i)

MediaFairness ==
    /\ WF_mediaVars(Clean)
    /\ \A i \in Items : WF_mediaVars(Progress(i))
    /\ \A i \in Images : WF_mediaVars(Lapse(i) \/ Age(i))

(***************************************************************************)
(* Properties.                                                             *)
(***************************************************************************)

\* Types, and the lock is held by the one request that is in a transaction.
MediaTypeOK ==
    /\ session \in [Images -> {"none", "open", "finalized", "expired"}]
    /\ lapsed \subseteq Images /\ aged \subseteq files
    /\ row \in [Items -> {"none", "ready", "deleted"}]
    /\ position \in [Images -> Nat]
    /\ files \subseteq AllFiles
    /\ request \in [Items -> {"new", "posted", "begun", "saving", "unstaged", "deleting", "over"}]
    /\ done \in [Items -> 0 .. 3]
    /\ holder \in Items \cup {Nobody}
    /\ \A i \in Items : InTransaction(i) <=> holder = i
    /\ status \in {"draft", "published", "away"}
    /\ cleaner \in [phase : {"idle", "expiring", "removing"}, names : SUBSET Images]
    /\ deaths \in 0 .. MaxDeaths
    /\ orphaned \subseteq Items /\ cutOff \subseteq Items /\ overtaken \subseteq Images

\* A ready image or video can be served, unless its deletion is running or died
\* half way; and a file that is not staged belongs to a ready row or to a request
\* that is running or died.  Files are saved before and deleted before the commit.
StorageMatchesRows ==
    /\ \A i \in Items : Served(i) =>
           KeptFiles(i) \subseteq files \/ request[i] = "deleting" \/ i \in cutOff
    /\ \A i \in Items, f \in {"image", "preview", "source"} : <<i, f>> \in files =>
           Served(i) \/ request[i] \in {"saving", "unstaged"} \/ i \in orphaned

\* A session says finalised exactly when it gave an image, except when the cleanup
\* had read it as open before and writes its state over the finalisation's.
SessionsTell ==
    \A i \in Images :
        /\ session[i] = "finalized" => row[i] # "none"
        /\ row[i] # "none" => session[i] = "finalized" \/ i \in overtaken

\* Requests that were all let in below the limit do not pass it together.
ImagesWithinMaximum == Cardinality(Ready) <= MaximumImages

\* The orders of the ready images are 0, 1, 2, ..., and no loop that rewrites them row
\* by row ever repeats one: the database refuses a repetition at once.
OrderNeverCollides ==
    /\ {position[i] : i \in Ready} = 0 .. Cardinality(Ready) - 1
    /\ \A o \in Orders : \A k \in 0 .. Len(o) :
           IsInjective(Parked(o, k)) /\ IsInjective(Placed(o, k))
    /\ \A i \in Ready : \A k \in 0 .. Cardinality(Ready) - 1 :
           IsInjective(Renumbered(Ready \ {i}, k))

\* What a moderator is shown does not change under them, and what the public is shown
\* does not change without going back to a moderator, also by a request let in before.
MediaFrozenInReview ==
    [][imageVars' # imageVars => status # "away" /\ status' # "published"]_mediaVars

\* "Choose one or more JPEG, PNG, or WebP images to attach when you save."
\* (templates/listings/create_listing.html:107): a listing whose edit has just been
\* accepted takes the images that came with it.
EditTakesImages ==
    [][\A i \in Images : request[i] = "new" /\ request'[i] = "posted" => status' # "away"]_mediaVars

\* A staged copy, which nobody reviews and no page serves, is not kept for ever.
StagingCleared ==
    \A i \in Images : <<i, "staged">> \in files ~> <<i, "staged">> \notin files
=============================================================================
