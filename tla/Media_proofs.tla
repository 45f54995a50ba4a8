---------------------------- MODULE Media_proofs ----------------------------
(***************************************************************************)
(* Proofs about the images and videos of a listing, for any number of      *)
(* uploads, any maximum and any number of deaths: who writes holds the     *)
(* lock, what is served is stored, sessions tell what became of them, and  *)
(* the orders of the images never collide.                                 *)
(***************************************************************************)
EXTENDS Media, FiniteSetTheorems, TLAPS

\* What the types need beside themselves: only staged copies age, and only an image has a
\* session and a staged copy.
TypeInv ==
    /\ MediaTypeOK
    /\ aged \subseteq {<<i, "staged">> : i \in Images}
    /\ \A i \in Videos : request[i] \notin {"posted", "begun", "unstaged"}

LEMMA Apart == Nobody \notin Items /\ \A i \in Videos : i \notin Images
BY MediaAssumption DEF Items

\* A file that an item may have.
LEMMA FilesOfItem ==
    ASSUME NEW i \in Items
    PROVE  /\ Len(Saved(i)) \in 1 .. 3 /\ \A n \in 1 .. Len(Saved(i)) : <<i, Saved(i)[n]>> \in AllFiles
           /\ Len(Kept(i)) \in 1 .. 2 /\ \A n \in 1 .. Len(Kept(i)) : Kept(i)[n] # "staged"
BY DEF Saved, Kept, AllFiles

\* One file more, of at most three.
LEMMA OneFileMore ==
    ASSUME NEW a \in 0 .. 3, NEW n \in 1 .. 3, a < n
    PROVE  a + 1 \in 1 .. n /\ a + 1 \in 0 .. 3
OBVIOUS

-----------------------------------------------------------------------------
\* Types, one lemma for each kind of step.

LEMMA TypeOfUpload ==
    ASSUME TypeInv, NEW i \in Images,
           EditWithImage(i) \/ BeginUpload(i) \/ RefuseLapsed(i) \/ StartImage(i) \/ Refuse(i)
    PROVE  TypeInv'
<1> USE Apart DEF TypeInv, MediaTypeOK, InTransaction, Items
<1>1. CASE EditWithImage(i)
  BY <1>1 DEF EditWithImage, Depublished, uploadVars, imageVars, storageVars, historyVars, MayWrite, Unlocked
<1>2. CASE BeginUpload(i)
  BY <1>2 DEF BeginUpload, imageVars, storageVars, historyVars, MayWrite, Unlocked
<1>3. CASE RefuseLapsed(i)
  BY <1>3 DEF RefuseLapsed, imageVars, storageVars, historyVars
<1>4. CASE StartImage(i)
  BY <1>4 DEF StartImage, Locks, uploadVars, imageVars, storageVars, historyVars, MayWrite, Unlocked
<1>5. CASE Refuse(i)
  BY <1>5 DEF Refuse, uploadVars, imageVars, storageVars, historyVars
<1>6. QED
  BY <1>1, <1>2, <1>3, <1>4, <1>5

LEMMA TypeOfSaving ==
    ASSUME TypeInv, NEW i \in Items,
           StartVideo(i) \/ SaveFile(i) \/ Unstage(i) \/ (i \in Images /\ CommitImage(i)) \/ CommitVideo(i)
           \/ (i \in Videos /\ Refuse(i)),
           NextOrder \in Nat
    PROVE  TypeInv'
<1> USE Apart, FilesOfItem DEF TypeInv, MediaTypeOK, InTransaction
<1>1. CASE StartVideo(i)
  BY <1>1 DEF StartVideo, Locks, uploadVars, imageVars, storageVars, historyVars, MayWrite, Unlocked
<1>2. CASE SaveFile(i)
  <2>1. done[i] \in 0 .. 3 /\ Len(Saved(i)) \in 1 .. 3 /\ done[i] < Len(Saved(i))
    BY <1>2 DEF SaveFile
  <2>2. done[i] + 1 \in 1 .. Len(Saved(i)) /\ done[i] + 1 \in 0 .. 3
    BY <2>1, OneFileMore, Zenon
  <2>3. QED
    BY <1>2, <2>2 DEF SaveFile, uploadVars, imageVars, historyVars
<1>3. CASE Unstage(i)
  BY <1>3 DEF Unstage, uploadVars, imageVars, historyVars
<1>4. CASE i \in Images /\ CommitImage(i)
  BY <1>4 DEF CommitImage, Unlocks, Depublished, Finalized, storageVars, Items
<1>5. CASE CommitVideo(i)
  BY <1>5 DEF CommitVideo, Unlocks, Depublished, uploadVars, storageVars, historyVars
<1>6. CASE i \in Videos /\ Refuse(i)
  BY <1>6 DEF Refuse, uploadVars, imageVars, storageVars, historyVars
<1>7. QED
  BY <1>1, <1>2, <1>3, <1>4, <1>5, <1>6

LEMMA TypeOfDeletion ==
    ASSUME TypeInv, NEW i \in Items,
           StartDeleting(i) \/ DeleteFile(i) \/ Die(i)
           \/ (MarkDeleted(i) /\ position' \in [Images -> Nat])
    PROVE  TypeInv'
<1> USE Apart, FilesOfItem DEF TypeInv, MediaTypeOK, InTransaction
<1>1. CASE StartDeleting(i)
  BY <1>1 DEF StartDeleting, Locks, uploadVars, imageVars, storageVars, historyVars, MayWrite, Unlocked
<1>2. CASE DeleteFile(i)
  <2>1. done[i] \in 0 .. 3 /\ Len(Kept(i)) \in 1 .. 3 /\ done[i] < Len(Kept(i))
    BY <1>2 DEF DeleteFile
  <2>2. done[i] + 1 \in 1 .. Len(Kept(i)) /\ done[i] + 1 \in 0 .. 3
    BY <2>1, OneFileMore, Zenon
  <2>3. QED
    BY <1>2, <2>2 DEF DeleteFile, uploadVars, imageVars, historyVars
<1>3. CASE Die(i)
  BY <1>3, MediaAssumption DEF Die, Unlocks, uploadVars, imageVars, storageVars
<1>4. CASE MarkDeleted(i) /\ position' \in [Images -> Nat]
  BY <1>4 DEF MarkDeleted, Unlocks, Depublished, uploadVars, storageVars
<1>5. QED
  BY <1>1, <1>2, <1>3, <1>4

LEMMA TypeOfClock ==
    ASSUME TypeInv, NEW i \in Images, Lapse(i) \/ Age(i)
    PROVE  TypeInv'
BY DEF TypeInv, MediaTypeOK, InTransaction, Items, Lapse, Age, imageVars, storageVars, requestVars,
       historyVars, uploadVars

LEMMA TypeOfCleaning ==
    ASSUME TypeInv, Clean
    PROVE  TypeInv'
<1> USE DEF TypeInv, MediaTypeOK, InTransaction, Items
<1>1. CASE CleanRead \/ CleanList \/ CleanEnd
  <2>1. \E phase \in {"idle", "expiring", "removing"}, names \in SUBSET Images :
             cleaner' = [phase |-> phase, names |-> names]
    <3>1. {i \in Images : session[i] = "open" /\ i \in lapsed} \in SUBSET Images
          /\ Abandoned \in SUBSET Images /\ {} \in SUBSET Images
      BY DEF Abandoned
    <3>2. QED
      BY <1>1, <3>1, Zenon DEF CleanRead, CleanList, CleanEnd
  <2>2. UNCHANGED <<uploadVars, imageVars, storageVars, requestVars, status, historyVars>>
    BY <1>1 DEF CleanRead, CleanList, CleanEnd
  <2>3. QED
    BY <2>1, <2>2 DEF uploadVars, imageVars, storageVars, requestVars, historyVars
<1>2. ASSUME NEW i \in Images, CleanExpire(i) PROVE TypeInv'
  BY <1>2 DEF CleanExpire, imageVars, storageVars, requestVars, historyVars
<1>3. ASSUME NEW i \in Images, CleanRemove(i) PROVE TypeInv'
  BY <1>3 DEF CleanRemove, uploadVars, imageVars, requestVars, historyVars
<1>4. QED
  BY <1>1, <1>2, <1>3 DEF Clean

-----------------------------------------------------------------------------
\* The orders of the ready images.

Dense == {position[i] : i \in Ready} = 0 .. Cardinality(Ready) - 1

\* As many numbers as images, so no two images have the same.
LEMMA DenseIsInjective ==
    ASSUME NEW S, IsFiniteSet(S), NEW p \in [S -> Nat], {p[i] : i \in S} = 0 .. Cardinality(S) - 1
    PROVE  \A i, j \in S : p[i] = p[j] => i = j
<1>1. Cardinality(S) \in Nat
  BY FS_CardinalityType
<1> DEFINE T == 0 .. Cardinality(S) - 1
<1>2. IsFiniteSet(T) /\ Cardinality(T) = Cardinality(S)
  <2>1. PICK n \in Nat : n = Cardinality(S)
    BY <1>1
  <2>2. 0 \in Int /\ n - 1 \in Int
    BY <2>1
  <2>3. /\ IsFiniteSet(0 .. n - 1)
        /\ Cardinality(0 .. n - 1) = IF 0 > n - 1 THEN 0 ELSE n - 1 - 0 + 1
    BY <2>2, FS_Interval
  <2>4. Cardinality(0 .. n - 1) = n
    BY <2>1, <2>3
  <2>5. QED
    BY <2>1, <2>3, <2>4
<1>3. p \in Surjection(S, T)
  BY DEF Surjection
<1>4. p \in Injection(S, T)
  BY <1>2, <1>3, FS_SurjSameCardinalityImpliesInj
<1>5. QED
  BY <1>4 DEF Injection, IsInjective

LEMMA SameCount ==
    ASSUME NEW S, IsFiniteSet(S), NEW T, NEW f \in [S -> T],
           \A i, j \in S : f[i] = f[j] => i = j, \A t \in T : \E i \in S : f[i] = t
    PROVE  IsFiniteSet(T) /\ Cardinality(T) = Cardinality(S)
<1>1. f \in Bijection(S, T)
  BY DEF Bijection, Injection, Surjection, IsInjective
<1>2. QED
  BY <1>1, FS_Bijection DEF ExistsBijection

LEMMA CountBelow ==
    ASSUME NEW n \in Nat
    PROVE  IsFiniteSet(0 .. n - 1) /\ Cardinality(0 .. n - 1) = n
<1>1. 0 \in Int /\ n - 1 \in Int
  OBVIOUS
<1>2. IsFiniteSet(0 .. n - 1) /\ Cardinality(0 .. n - 1) = IF 0 > n - 1 THEN 0 ELSE n - 1 - 0 + 1
  BY <1>1, FS_Interval
<1>3. (IF 0 > n - 1 THEN 0 ELSE n - 1 - 0 + 1) = n
  OBVIOUS
<1>4. QED
  BY <1>2, <1>3

LEMMA ReadyCount == IsFiniteSet(Ready) /\ Cardinality(Ready) \in Nat
BY MediaAssumption, FS_Subset, FS_CardinalityType DEF Ready

LEMMA NextIsCount ==
    ASSUME TypeInv, Dense
    PROVE  NextOrder = Cardinality(Ready)
<1> DEFINE P == {position[i] : i \in Ready}
           last == CHOOSE p \in P : \A j \in Ready : position[j] <= p
<1>1. Cardinality(Ready) \in Nat /\ P = 0 .. Cardinality(Ready) - 1
  BY ReadyCount DEF Dense
<1>2. CASE Ready = {}
  BY <1>2, FS_EmptySet DEF NextOrder
<1>3. CASE Ready # {}
  <2>1. Cardinality(Ready) # 0
    BY <1>3, ReadyCount, FS_EmptySet
  <2>2. Cardinality(Ready) - 1 \in P /\ \A j \in Ready : position[j] <= Cardinality(Ready) - 1
    BY <1>1, <2>1
  <2>3. last \in P /\ \A j \in Ready : position[j] <= last
    BY <2>2
  <2>4. last = Cardinality(Ready) - 1
    BY <1>1, <2>2, <2>3
  <2>5. NextOrder = 1 + last
    BY <1>3 DEF NextOrder
  <2>6. QED
    <3> HIDE DEF last, P
    <3>1. \A c \in Nat : \A o : last = c - 1 /\ o = 1 + last => o = c
      OBVIOUS
    <3>2. QED
      BY <1>1, <2>4, <2>5, <3>1
<1>4. QED
  BY <1>2, <1>3

LEMMA PositionsDiffer ==
    ASSUME TypeInv, Dense
    PROVE  \A k, l \in Ready : position[k] = position[l] => k = l
<1>1. [k \in Ready |-> position[k]] \in [Ready -> Nat]
  BY DEF TypeInv, MediaTypeOK, Ready
<1>2. {[k \in Ready |-> position[k]][l] : l \in Ready} = 0 .. Cardinality(Ready) - 1
  BY DEF Dense
<1>3. QED
  BY <1>1, <1>2, ReadyCount, DenseIsInjective

\* Where an image stands among the others when i is gone: numbers above i's move down.
LEMMA BeforeIs ==
    ASSUME TypeInv, Dense, NEW i \in Ready, NEW j \in Ready \ {i}
    PROVE  Before(j, Ready \ {i}) = IF position[j] < position[i] THEN position[j] ELSE position[j] - 1
<1> DEFINE S == {k \in Ready \ {i} : position[k] < position[j]}
           T == {n \in 0 .. position[j] - 1 : n # position[i]}
           f == [k \in S |-> position[k]]
<1>1. /\ position \in [Images -> Nat] /\ Ready \subseteq Images
      /\ Cardinality(Ready) \in Nat /\ {position[k] : k \in Ready} = 0 .. Cardinality(Ready) - 1
  BY ReadyCount DEF Dense, TypeInv, MediaTypeOK, Ready
<1>2. \A k, l \in Ready : position[k] = position[l] => k = l
  BY PositionsDiffer
<1>3. IsFiniteSet(S)
  BY ReadyCount, FS_Subset
<1>4. /\ position[i] \in Nat /\ position[j] \in 0 .. Cardinality(Ready) - 1
      /\ \A k \in S : /\ k \in Ready /\ position[k] \in Nat /\ position[k] # position[i]
                      /\ position[k] < position[j]
  BY <1>1, <1>2
<1>5. f \in [S -> T]
  <2>1. \A k \in S : position[k] \in T
    BY <1>4
  <2>2. QED
    BY <2>1
<1>6. \A k, l \in S : f[k] = f[l] => k = l
  BY <1>2, <1>4
<1>7. \A t \in T : \E k \in S : f[k] = t
  <2> SUFFICES ASSUME NEW t \in T PROVE \E k \in S : f[k] = t
    OBVIOUS
  <2>1. t \in 0 .. Cardinality(Ready) - 1 /\ t < position[j] /\ t # position[i]
    BY <1>1, <1>4
  <2>2. PICK k \in Ready : position[k] = t
    BY <1>1, <2>1
  <2>3. k \in S
    BY <2>1, <2>2
  <2>4. QED
    BY <2>2, <2>3
<1>8. Cardinality(T) = Cardinality(S)
  <2> HIDE DEF S, T, f
  <2>1. QED
    BY <1>3, <1>5, <1>6, <1>7, SameCount
<1>9. IsFiniteSet(0 .. position[j] - 1) /\ Cardinality(0 .. position[j] - 1) = position[j]
  BY <1>4, CountBelow
<1>10. T = (0 .. position[j] - 1) \ {position[i]} /\ position[i] # position[j]
  BY <1>1, <1>2
<1>11. Cardinality(T) = IF position[i] \in 0 .. position[j] - 1 THEN position[j] - 1 ELSE position[j]
  <2> HIDE DEF T
  <2>1. QED
    BY <1>9, <1>10, FS_RemoveElement
<1>12. position[i] \in 0 .. position[j] - 1 <=> ~ position[j] < position[i]
  BY <1>4, <1>10
<1>13. QED
  BY <1>8, <1>11, <1>12 DEF Before

\* What a step may be, for one item at a time.
RemoveImage(i) ==
    LET rest == Ready \ {i} IN
    /\ MarkDeleted(i)
    /\ position' = [j \in Images |-> IF j \in rest THEN Renumbered(rest, Cardinality(rest))[j] ELSE 0]

LEMMA Steps ==
    ASSUME MediaNext
    PROVE  \/ \E i \in Images : \/ EditWithImage(i) \/ BeginUpload(i) \/ RefuseLapsed(i) \/ StartImage(i)
                                \/ Unstage(i) \/ CommitImage(i) \/ RemoveImage(i)
           \/ \E i \in Items : Refuse(i) \/ SaveFile(i) \/ StartDeleting(i) \/ DeleteFile(i) \/ Die(i)
           \/ \E i \in Videos : StartVideo(i) \/ CommitVideo(i) \/ (MarkDeleted(i) /\ UNCHANGED position)
           \/ \E o \in Orders : Reorder(o)
           \/ \E to \in {"draft", "published", "away"} : ListingMoves(to)
           \/ \E i \in Images : Lapse(i) \/ Age(i)
           \/ Clean
<1>1. CASE \E i \in Images : \/ EditWithImage(i) \/ AttachFormImages(i) \/ UploadListingImage(i)
                              \/ DeleteListingImage(i) \/ Die(i) \/ Lapse(i) \/ Age(i)
  BY <1>1, Zenon DEF AttachFormImages, UploadListingImage, FinalizeImageUpload, DeleteListingImage, RemoveImage, Items
<1>2. CASE \E i \in Videos : UploadListingVideo(i) \/ DeleteListingVideo(i) \/ Die(i)
  BY <1>2, Zenon DEF UploadListingVideo, DeleteListingVideo, Items
<1>3. QED
  BY <1>1, <1>2, Zenon DEF MediaNext

-----------------------------------------------------------------------------
\* What a request that has come so far knows of its row, its files and the listing.

Requests ==
    \A i \in Items :
        /\ request[i] \notin {"deleting", "over"} => row[i] = "none"
        /\ request[i] = "deleting" => row[i] = "ready"
        /\ ~ InTransaction(i) => done[i] = 0
        /\ InTransaction(i) => status # "away"

LEMMA RequestsStep ==
    ASSUME TypeInv, Requests, [MediaNext]_mediaVars
    PROVE  Requests'
<1> USE Apart DEF TypeInv, MediaTypeOK, Requests, InTransaction, Items
<1>1. ASSUME NEW i \in Images,
             \/ EditWithImage(i) \/ BeginUpload(i) \/ RefuseLapsed(i) \/ StartImage(i)
             \/ Unstage(i) \/ CommitImage(i) \/ RemoveImage(i)
      PROVE  Requests'
  <2>1. CASE EditWithImage(i)
    BY <2>1 DEF EditWithImage, MayWrite, Unlocked, Depublished, imageVars
  <2>2. CASE BeginUpload(i)
    BY <2>2 DEF BeginUpload, imageVars
  <2>3. CASE RefuseLapsed(i)
    BY <2>3 DEF RefuseLapsed, imageVars
  <2>4. CASE StartImage(i)
    BY <2>4 DEF StartImage, Locks, imageVars, MayWrite, Unlocked
  <2>5. CASE Unstage(i)
    BY <2>5 DEF Unstage, imageVars
  <2>6. CASE CommitImage(i)
    BY <2>6 DEF CommitImage, Unlocks, Depublished
  <2>7. CASE RemoveImage(i)
    BY <2>7 DEF RemoveImage, MarkDeleted, Unlocks, Depublished
  <2>8. QED
    BY <1>1, <2>1, <2>2, <2>3, <2>4, <2>5, <2>6, <2>7
<1>2. ASSUME NEW i \in Items, Refuse(i) \/ SaveFile(i) \/ StartDeleting(i) \/ DeleteFile(i) \/ Die(i)
      PROVE  Requests'
  <2>1. CASE Refuse(i)
    BY <2>1 DEF Refuse, imageVars
  <2>2. CASE SaveFile(i) \/ DeleteFile(i)
    BY <2>2 DEF SaveFile, DeleteFile, imageVars
  <2>3. CASE StartDeleting(i)
    BY <2>3 DEF StartDeleting, Served, Locks, imageVars, MayWrite, Unlocked
  <2>4. CASE Die(i)
    BY <2>4 DEF Die, Unlocks, imageVars
  <2>5. QED
    BY <1>2, <2>1, <2>2, <2>3, <2>4
<1>3. ASSUME NEW i \in Videos, StartVideo(i) \/ CommitVideo(i) \/ MarkDeleted(i)
      PROVE  Requests'
  <2>1. CASE StartVideo(i)
    BY <2>1 DEF StartVideo, Locks, imageVars, MayWrite, Unlocked
  <2>2. CASE CommitVideo(i) \/ MarkDeleted(i)
    BY <2>2 DEF CommitVideo, MarkDeleted, Unlocks, Depublished
  <2>3. QED
    BY <1>3, <2>1, <2>2
<1>4. ASSUME NEW o, Reorder(o)
      PROVE  Requests'
  BY <1>4 DEF Reorder, MayWrite, Unlocked, Depublished, requestVars
<1>5. ASSUME NEW to, ListingMoves(to)
      PROVE  Requests'
  BY <1>5 DEF ListingMoves, Unlocked, imageVars, requestVars
<1>6. CASE UNCHANGED <<imageVars, requestVars, status>>
  BY <1>6 DEF imageVars, requestVars
<1>7. ASSUME NEW i \in Images, Lapse(i) \/ Age(i)
      PROVE  UNCHANGED <<imageVars, requestVars, status>>
  BY <1>7 DEF Lapse, Age
<1>8. CASE Clean
  BY <1>6, <1>8 DEF Clean, CleanRead, CleanList, CleanEnd, CleanExpire, CleanRemove
<1>9. CASE UNCHANGED mediaVars
  BY <1>6, <1>9 DEF mediaVars
<1>10. QED
  BY <1>1, <1>2, <1>3, <1>4, <1>5, <1>6, <1>7, <1>8, <1>9, Steps

-----------------------------------------------------------------------------
\* The loops that rewrite the orders.

\* Where the posted order puts an image.
Index(o, i) == CHOOSE n \in DOMAIN o : o[n] = i

LEMMA OrderOfReady ==
    ASSUME NEW o \in Orders
    PROVE  /\ Len(o) = Cardinality(Ready) /\ DOMAIN o = 1 .. Cardinality(Ready)
           /\ o \in [1 .. Cardinality(Ready) -> Ready]
           /\ \A i \in Ready : Index(o, i) \in 1 .. Cardinality(Ready) /\ o[Index(o, i)] = i
           /\ \A m \in 1 .. Cardinality(Ready) : Index(o, o[m]) = m
<1> DEFINE c == Cardinality(Ready)
<1>1. c \in Nat /\ IsFiniteSet(Ready)
  BY ReadyCount
<1>2. o \in [1 .. c -> Ready] /\ Range(o) = Ready
  BY DEF Orders
<1>3. o \in Seq(Ready) /\ Len(o) = c
  BY <1>1, <1>2
<1>4. \A i \in Ready : \E n \in 1 .. c : o[n] = i
  BY <1>2 DEF Range
<1>5. \A i \in Ready : Index(o, i) \in 1 .. c /\ o[Index(o, i)] = i
  BY <1>2, <1>4 DEF Index
<1>6. IsFiniteSet(1 .. c) /\ Cardinality(1 .. c) = c
  <2>1. 1 \in Int /\ c \in Int
    BY <1>1
  <2>2. Cardinality(1 .. c) = (IF 1 > c THEN 0 ELSE c - 1 + 1) /\ IsFiniteSet(1 .. c)
    BY <2>1, FS_Interval
  <2>3. (IF 1 > c THEN 0 ELSE c - 1 + 1) = c
    BY <1>1
  <2>4. QED
    BY <2>2, <2>3
<1>7. o \in Injection(1 .. c, Ready)
  <2>1. o \in Surjection(1 .. c, Ready)
    BY <1>2, <1>4 DEF Surjection
  <2>2. QED
    BY <2>1, <1>1, <1>6, FS_SurjSameCardinalityImpliesInj
<1>8. \A m, n \in 1 .. c : o[m] = o[n] => m = n
  BY <1>7 DEF Injection, IsInjective
<1>9. \A m \in 1 .. c : Index(o, o[m]) = m
  BY <1>2, <1>5, <1>8
<1>10. QED
  BY <1>2, <1>3, <1>5, <1>9

\* What the two loops of reorder_images have written after k rows.
LEMMA ParkedIs ==
    ASSUME NEW o \in Orders, NEW k \in 0 .. Cardinality(Ready), NEW i \in Ready
    PROVE  /\ Parked(o, k)[i] = IF Index(o, i) <= k THEN Index(o, i) - 1 + Cardinality(Ready) ELSE position[i]
           /\ Placed(o, k)[i] = IF Index(o, i) <= k THEN Index(o, i) - 1
                                ELSE Index(o, i) - 1 + Cardinality(Ready)
<1> DEFINE c == Cardinality(Ready)
<1>1. c \in Nat /\ Len(o) = c /\ Index(o, i) \in 1 .. c
  BY ReadyCount, OrderOfReady
<1>2. \A n \in 0 .. c :
          Parked(o, n)[i] = IF Index(o, i) <= n THEN Index(o, i) - 1 + Len(o) ELSE position[i]
  BY DEF Parked, Index
<1>3. Placed(o, k)[i] = IF Index(o, i) <= k THEN Index(o, i) - 1 ELSE Parked(o, Len(o))[i]
  BY DEF Placed, Index
<1>4. Parked(o, c)[i] = Index(o, i) - 1 + c
  BY <1>1, <1>2
<1>5. QED
  BY <1>1, <1>2, <1>3, <1>4

\* When one of them goes, the others' places are numbers below their count.
LEMMA PlaceInRest ==
    ASSUME TypeInv, Dense, NEW i \in Ready
    PROVE  /\ Cardinality(Ready \ {i}) = Cardinality(Ready) - 1
           /\ \A j \in Ready \ {i} :
                  /\ Before(j, Ready \ {i}) \in 0 .. Cardinality(Ready) - 2
                  /\ position[j] # position[i]
<1>1. Cardinality(Ready \ {i}) = Cardinality(Ready) - 1
  BY ReadyCount, FS_RemoveElement
<1>2. /\ position \in [Images -> Nat] /\ Ready \subseteq Images
      /\ Cardinality(Ready) \in Nat /\ {position[k] : k \in Ready} = 0 .. Cardinality(Ready) - 1
  BY ReadyCount DEF Dense, TypeInv, MediaTypeOK, Ready
<1>3. \A k, l \in Ready : position[k] = position[l] => k = l
  BY PositionsDiffer
<1>4. ASSUME NEW j \in Ready \ {i}
      PROVE  Before(j, Ready \ {i}) \in 0 .. Cardinality(Ready) - 2 /\ position[j] # position[i]
  <2>1. position[i] \in 0 .. Cardinality(Ready) - 1 /\ position[j] \in 0 .. Cardinality(Ready) - 1
        /\ position[i] # position[j]
    BY <1>2, <1>3
  <2>2. Before(j, Ready \ {i}) = IF position[j] < position[i] THEN position[j] ELSE position[j] - 1
    BY BeforeIs
  <2>3. QED
    BY <1>2, <2>1, <2>2
<1>5. QED
  BY <1>1, <1>4

LEMMA OrderOfCommit ==
    ASSUME TypeInv, Requests, Dense, NEW i \in Images, CommitImage(i)
    PROVE  Dense' /\ NextOrder \in Nat /\ i \notin Ready /\ Ready' = Ready \cup {i}
<1> DEFINE c == Cardinality(Ready)
<1>1. NextOrder = c /\ c \in Nat /\ {position[j] : j \in Ready} = 0 .. c - 1
  BY NextIsCount, ReadyCount DEF Dense
<1>2. i \in Items /\ row[i] = "none" /\ row' = [row EXCEPT ![i] = "ready"]
      /\ position' = [position EXCEPT ![i] = NextOrder] /\ row \in [Items -> {"none", "ready", "deleted"}]
      /\ position \in [Images -> Nat]
  BY DEF CommitImage, Requests, Items, TypeInv, MediaTypeOK
<1>3. i \notin Ready /\ Ready' = Ready \cup {i} /\ Ready \subseteq Images
  BY <1>2 DEF Ready, Items
<1>4. Cardinality(Ready') = c + 1
  BY <1>3, ReadyCount, FS_AddElement
<1>5. {position[j] : j \in Ready}' = {position[j] : j \in Ready} \cup {c}
  BY <1>1, <1>2, <1>3
<1>6. (0 .. c - 1) \cup {c} = 0 .. c + 1 - 1
  BY <1>1
<1>7. {position[j] : j \in Ready}' = 0 .. Cardinality(Ready') - 1
  BY <1>1, <1>4, <1>5, <1>6
<1>8. QED
  BY <1>1, <1>3, <1>7 DEF Dense

LEMMA OrderOfRemoval ==
    ASSUME TypeInv, Requests, Dense, NEW i \in Images, RemoveImage(i)
    PROVE  Dense' /\ position' \in [Images -> Nat] /\ i \in Ready /\ Ready' = Ready \ {i}
<1> DEFINE c == Cardinality(Ready)
           rest == Ready \ {i}
<1>1. i \in Items /\ row[i] = "ready" /\ row' = [row EXCEPT ![i] = "deleted"]
      /\ row \in [Items -> {"none", "ready", "deleted"}] /\ position \in [Images -> Nat]
  BY DEF RemoveImage, MarkDeleted, Requests, Items, TypeInv, MediaTypeOK
<1>2. i \in Ready /\ Ready' = rest /\ Ready \subseteq Images
  BY <1>1 DEF Ready, Items
<1>3. /\ c \in Nat /\ {position[j] : j \in Ready} = 0 .. c - 1
      /\ Cardinality(rest) = c - 1
      /\ \A j \in rest : Before(j, rest) \in 0 .. c - 2
  BY <1>2, ReadyCount, PlaceInRest DEF Dense
<1>4. \A j \in rest : Renumbered(rest, Cardinality(rest))[j] = Before(j, rest)
  BY <1>3 DEF Renumbered
<1>5. position' = [j \in Images |-> IF j \in rest THEN Renumbered(rest, Cardinality(rest))[j] ELSE 0]
  BY DEF RemoveImage
<1>6. \A j \in Images : position'[j] = IF j \in rest THEN Before(j, rest) ELSE 0
  BY <1>4, <1>5
<1>7. position' \in [Images -> Nat]
  <2>1. \A j \in Images : position'[j] \in Nat
    BY <1>3, <1>6
  <2>2. QED
    BY <2>1, <1>5
<1>8. \A t \in 0 .. c - 2 : \E j \in rest : Before(j, rest) = t
  <2> SUFFICES ASSUME NEW t \in 0 .. c - 2 PROVE \E j \in rest : Before(j, rest) = t
    OBVIOUS
  <2>0. position[i] \in 0 .. c - 1
    BY <1>2, <1>3
  <2>1. CASE t < position[i]
    <3>1. PICK j \in Ready : position[j] = t
      <4>1. t \in 0 .. c - 1
        BY <1>3
      <4>2. QED
        BY <1>3, <4>1
    <3>2. j \in rest /\ position[j] < position[i]
      BY <2>0, <2>1, <3>1
    <3>3. Before(j, rest) = t
      BY <1>2, <3>1, <3>2, BeforeIs
    <3>4. QED
      BY <3>2, <3>3
  <2>2. CASE ~ t < position[i]
    <3>1. PICK j \in Ready : position[j] = t + 1
      <4>1. t + 1 \in 0 .. c - 1
        BY <1>3
      <4>2. QED
        BY <1>3, <4>1
    <3>2. j \in rest /\ ~ position[j] < position[i]
      BY <2>0, <2>2, <3>1
    <3>3. Before(j, rest) = t + 1 - 1
      BY <1>2, <3>1, <3>2, BeforeIs
    <3>4. QED
      BY <3>2, <3>3
  <2>3. QED
    BY <2>1, <2>2
<1>9. {position[j] : j \in Ready}' = 0 .. c - 2
  <2>1. \A j \in rest : j \in Images /\ position'[j] = Before(j, rest)
    BY <1>2, <1>6
  <2>2. {position[j] : j \in Ready}' = {Before(j, rest) : j \in rest}
    BY <1>2, <2>1
  <2>3. {Before(j, rest) : j \in rest} = 0 .. c - 2
    <3>1. \A j \in rest : Before(j, rest) \in 0 .. c - 2
      BY <1>3
    <3>2. QED
      BY <1>8, <3>1
  <2>4. QED
    BY <2>2, <2>3
<1>10. c - 2 = c - 1 - 1
  BY <1>3
<1>11. QED
  BY <1>2, <1>3, <1>7, <1>9, <1>10 DEF Dense

LEMMA OrderOfReorder ==
    ASSUME TypeInv, Dense, NEW o \in Orders, Reorder(o)
    PROVE  Dense' /\ position' \in [Images -> Nat]
<1> DEFINE c == Cardinality(Ready)
<1>1. Ready' = Ready /\ Ready \subseteq Images /\ position \in [Images -> Nat] /\ c \in Nat
  BY ReadyCount DEF Ready, Reorder, TypeInv, MediaTypeOK
<1>2. position' = [i \in Images |-> IF i \in Ready THEN Placed(o, Len(o))[i] ELSE position[i]]
  BY DEF Reorder
<1>3. \A i \in Ready : Index(o, i) \in 1 .. c /\ Placed(o, Len(o))[i] = Index(o, i) - 1
  <2>1. \A i \in Ready : Index(o, i) \in 1 .. c /\ Len(o) = c
    BY OrderOfReady
  <2>2. c \in 0 .. c
    BY <1>1
  <2>3. \A i \in Ready : Index(o, i) <= c
    BY <1>1, <2>1
  <2>4. \A i \in Ready : Placed(o, c)[i] = Index(o, i) - 1
    BY <2>2, <2>3, ParkedIs
  <2>5. QED
    BY <2>1, <2>4
<1>4. position' \in [Images -> Nat]
  <2>1. \A i \in Images : position'[i] \in Nat
    BY <1>1, <1>2, <1>3
  <2>2. QED
    BY <1>2, <2>1
<1>5. \A i \in Ready : position'[i] = Index(o, i) - 1
  BY <1>1, <1>2, <1>3
<1>6. \A t \in 0 .. c - 1 : \E i \in Ready : Index(o, i) - 1 = t
  <2> SUFFICES ASSUME NEW t \in 0 .. c - 1 PROVE \E i \in Ready : Index(o, i) - 1 = t
    OBVIOUS
  <2>1. t + 1 \in 1 .. c
    BY <1>1
  <2>2. o[t + 1] \in Ready /\ Index(o, o[t + 1]) = t + 1
    BY <2>1, OrderOfReady
  <2>3. QED
    BY <2>2, <1>1
<1>7. {position[i] : i \in Ready}' = 0 .. c - 1
  BY <1>1, <1>3, <1>5, <1>6
<1>8. QED
  BY <1>1, <1>4, <1>7 DEF Dense

LEMMA DenseStep ==
    ASSUME TypeInv, Requests, Dense, [MediaNext]_mediaVars
    PROVE  Dense'
<1>1. CASE UNCHANGED imageVars
  BY <1>1 DEF imageVars, Dense, Ready
<1>2. ASSUME NEW i \in Images,
             \/ EditWithImage(i) \/ BeginUpload(i) \/ RefuseLapsed(i) \/ StartImage(i)
             \/ Unstage(i) \/ CommitImage(i) \/ RemoveImage(i)
      PROVE  Dense'
  BY <1>1, <1>2, OrderOfCommit, OrderOfRemoval
     DEF EditWithImage, BeginUpload, RefuseLapsed, StartImage, Locks, Unstage
<1>3. ASSUME NEW i \in Items, Refuse(i) \/ SaveFile(i) \/ StartDeleting(i) \/ DeleteFile(i) \/ Die(i)
      PROVE  Dense'
  BY <1>1, <1>3 DEF Refuse, SaveFile, StartDeleting, Locks, DeleteFile, Die
<1>4. ASSUME NEW i \in Videos, StartVideo(i) \/ CommitVideo(i) \/ (MarkDeleted(i) /\ UNCHANGED position)
      PROVE  Dense'
  <2>1. CASE StartVideo(i)
    BY <1>1, <2>1 DEF StartVideo, Locks
  <2>2. CASE CommitVideo(i) \/ (MarkDeleted(i) /\ UNCHANGED position)
    <3>1. Ready' = Ready /\ position' = position
      BY <2>2, Apart DEF CommitVideo, MarkDeleted, Ready, TypeInv, MediaTypeOK, Items
    <3>2. QED
      BY <3>1 DEF Dense
  <2>3. QED
    BY <1>4, <2>1, <2>2
<1>5. ASSUME NEW o \in Orders, Reorder(o) PROVE Dense'
  BY <1>5, OrderOfReorder
<1>6. ASSUME NEW to, ListingMoves(to) PROVE Dense'
  BY <1>1, <1>6 DEF ListingMoves
<1>7. ASSUME NEW i \in Images, Lapse(i) \/ Age(i) PROVE Dense'
  BY <1>1, <1>7 DEF Lapse, Age
<1>8. CASE Clean
  BY <1>1, <1>8 DEF Clean, CleanRead, CleanList, CleanEnd, CleanExpire, CleanRemove
<1>9. CASE UNCHANGED mediaVars
  BY <1>1, <1>9 DEF mediaVars
<1>10. QED
  BY <1>2, <1>3, <1>4, <1>5, <1>6, <1>7, <1>8, <1>9, Steps

LEMMA TypeStep ==
    ASSUME TypeInv, Requests, Dense, [MediaNext]_mediaVars
    PROVE  TypeInv'
<1>1. ASSUME NEW i \in Images,
             \/ EditWithImage(i) \/ BeginUpload(i) \/ RefuseLapsed(i) \/ StartImage(i)
             \/ Unstage(i) \/ CommitImage(i) \/ RemoveImage(i)
      PROVE  TypeInv'
  <2>1. i \in Items
    BY DEF Items
  <2>2. NextOrder \in Nat
    BY NextIsCount, ReadyCount
  <2>3. CASE RemoveImage(i)
    <3>1. MarkDeleted(i) /\ position' \in [Images -> Nat]
      BY <2>3, OrderOfRemoval DEF RemoveImage
    <3>2. QED
      BY <2>1, <3>1, TypeOfDeletion
  <2>4. QED
    BY <1>1, <2>1, <2>2, <2>3, TypeOfUpload, TypeOfSaving
<1>2. ASSUME NEW i \in Items, Refuse(i) \/ SaveFile(i) \/ StartDeleting(i) \/ DeleteFile(i) \/ Die(i)
      PROVE  TypeInv'
  <2>1. NextOrder \in Nat /\ (i \in Images \/ i \in Videos)
    BY NextIsCount, ReadyCount DEF Items
  <2>2. QED
    BY <1>2, <2>1, TypeOfUpload, TypeOfSaving, TypeOfDeletion
<1>3. ASSUME NEW i \in Videos, StartVideo(i) \/ CommitVideo(i) \/ (MarkDeleted(i) /\ UNCHANGED position)
      PROVE  TypeInv'
  <2>1. NextOrder \in Nat /\ i \in Items /\ position \in [Images -> Nat]
    BY NextIsCount, ReadyCount DEF Items, TypeInv, MediaTypeOK
  <2>2. QED
    BY <1>3, <2>1, TypeOfSaving, TypeOfDeletion
<1>4. ASSUME NEW o \in Orders, Reorder(o) PROVE TypeInv'
  <2>1. position' \in [Images -> Nat]
    BY <1>4, OrderOfReorder
  <2>2. QED
    BY <1>4, <2>1 DEF Reorder, Depublished, TypeInv, MediaTypeOK, InTransaction, uploadVars, storageVars,
                       requestVars, historyVars
<1>5. ASSUME NEW to \in {"draft", "published", "away"}, ListingMoves(to) PROVE TypeInv'
  BY <1>5 DEF ListingMoves, TypeInv, MediaTypeOK, InTransaction, uploadVars, imageVars, storageVars,
              requestVars, historyVars
<1>6. CASE UNCHANGED mediaVars
  BY <1>6 DEF mediaVars, TypeInv, MediaTypeOK, InTransaction, uploadVars, imageVars, storageVars,
              requestVars, historyVars
<1>7. QED
  BY <1>1, <1>2, <1>3, <1>4, <1>5, <1>6, Steps, TypeOfClock, TypeOfCleaning

-----------------------------------------------------------------------------
\* No row of a loop gets the order of another.

LEMMA ReorderApart ==
    ASSUME TypeInv, Dense, NEW o \in Orders, NEW k \in 0 .. Len(o)
    PROVE  IsInjective(Parked(o, k)) /\ IsInjective(Placed(o, k))
<1> DEFINE c == Cardinality(Ready)
<1>1. c \in Nat /\ k \in 0 .. c
  BY ReadyCount, OrderOfReady
<1>2. \A i \in Ready : Index(o, i) \in 1 .. c /\ o[Index(o, i)] = i /\ position[i] \in 0 .. c - 1
  BY OrderOfReady DEF Dense
<1>3. /\ DOMAIN Parked(o, k) = Ready /\ DOMAIN Placed(o, k) = Ready
      /\ \A i \in Ready :
             /\ Parked(o, k)[i] = IF Index(o, i) <= k THEN Index(o, i) - 1 + c ELSE position[i]
             /\ Placed(o, k)[i] = IF Index(o, i) <= k THEN Index(o, i) - 1 ELSE Index(o, i) - 1 + c
  BY <1>1, ParkedIs DEF Parked, Placed
<1>4. ASSUME NEW i \in Ready, NEW j \in Ready,
             Parked(o, k)[i] = Parked(o, k)[j] \/ Placed(o, k)[i] = Placed(o, k)[j]
      PROVE  i = j
  <2>1. Index(o, i) = Index(o, j) \/ position[i] = position[j]
    <3>1. /\ Index(o, i) \in 1 .. c /\ position[i] \in 0 .. c - 1
          /\ Index(o, j) \in 1 .. c /\ position[j] \in 0 .. c - 1
      BY <1>2
    <3>2. CASE Parked(o, k)[i] = Parked(o, k)[j]
      BY <1>1, <1>3, <3>1, <3>2
    <3>3. CASE Placed(o, k)[i] = Placed(o, k)[j]
      BY <1>1, <1>3, <3>1, <3>3
    <3>4. QED
      BY <1>4, <3>2, <3>3
  <2>2. QED
    BY <1>2, <2>1, PositionsDiffer
<1>5. QED
  BY <1>3, <1>4 DEF IsInjective

\* Number p when r is gone and the numbers below k have been written.
Moved(p, r, k) == LET q == IF p < r THEN p ELSE p - 1 IN IF q < k THEN q ELSE p

LEMMA RenumberApart ==
    ASSUME TypeInv, Dense, NEW i \in Ready, NEW k \in 0 .. Cardinality(Ready) - 1
    PROVE  IsInjective(Renumbered(Ready \ {i}, k))
<1> DEFINE c == Cardinality(Ready)
           rest == Ready \ {i}
           R == Renumbered(rest, k)
<1>1. c \in Nat /\ position[i] \in 0 .. c - 1 /\ k \in Nat
  BY ReadyCount DEF Dense
<1>2. \A j \in rest :
          /\ Before(j, rest) = IF position[j] < position[i] THEN position[j] ELSE position[j] - 1
          /\ position[j] \in 0 .. c - 1 /\ position[j] # position[i]
  BY BeforeIs, PositionsDiffer DEF Dense
<1>3. DOMAIN R = rest /\ \A j \in rest : R[j] = IF Before(j, rest) < k THEN Before(j, rest) ELSE position[j]
  BY DEF Renumbered
<1>4. ASSUME NEW a \in rest, NEW b \in rest, R[a] = R[b] PROVE a = b
  <2> HIDE DEF R
  <2>1. position[a] = position[b]
    <3>1. /\ Before(a, rest) = IF position[a] < position[i] THEN position[a] ELSE position[a] - 1
          /\ Before(b, rest) = IF position[b] < position[i] THEN position[b] ELSE position[b] - 1
          /\ position[a] \in Nat /\ position[b] \in Nat /\ position[i] \in Nat
          /\ position[a] # position[i] /\ position[b] # position[i]
      BY <1>1, <1>2
    <3>2. R[a] = (IF Before(a, rest) < k THEN Before(a, rest) ELSE position[a])
          /\ R[b] = (IF Before(b, rest) < k THEN Before(b, rest) ELSE position[b])
      BY <1>3
    <3>3. \A p, q, r \in Nat : p # r /\ q # r
              /\ Moved(p, r, k) = Moved(q, r, k) => p = q
      BY <1>1 DEF Moved
    <3>4. R[a] = Moved(position[a], position[i], k) /\ R[b] = Moved(position[b], position[i], k)
      BY <3>1, <3>2, Zenon DEF Moved
    <3>5. QED
      BY <1>4, <3>1, <3>3, <3>4
  <2>2. QED
    BY <2>1, PositionsDiffer
<1>5. QED
  BY <1>3, <1>4 DEF IsInjective

LEMMA OrdersStayApart ==
    ASSUME TypeInv, Dense
    PROVE  OrderNeverCollides
BY ReorderApart, RenumberApart DEF OrderNeverCollides, Dense

-----------------------------------------------------------------------------
\* Sessions.

\* What the cleanup has read as open and may still write over is known.
SessionInv ==
    /\ SessionsTell
    /\ cleaner.phase = "expiring" => \A i \in cleaner.names : row[i] # "none" => i \in overtaken

LEMMA SessionStep ==
    ASSUME TypeInv, Requests, SessionInv, [MediaNext]_mediaVars
    PROVE  SessionInv'
<1> USE Apart DEF TypeInv, MediaTypeOK, SessionInv, SessionsTell, Items
<1>1. CASE UNCHANGED <<session, row, cleaner, overtaken>>
  BY <1>1
<1>2. ASSUME NEW i \in Images,
             \/ EditWithImage(i) \/ BeginUpload(i) \/ RefuseLapsed(i) \/ StartImage(i)
             \/ Unstage(i) \/ CommitImage(i) \/ RemoveImage(i)
      PROVE  SessionInv'
  <2>1. CASE EditWithImage(i) \/ StartImage(i) \/ Unstage(i)
    BY <1>1, <2>1 DEF EditWithImage, StartImage, Locks, Unstage, uploadVars, imageVars, historyVars
  <2>2. CASE BeginUpload(i)
    BY <2>2 DEF BeginUpload, Requests, imageVars, historyVars
  <2>3. CASE RefuseLapsed(i)
    BY <2>3 DEF RefuseLapsed, Requests, imageVars, historyVars
  <2>4. CASE CommitImage(i)
    BY <2>4 DEF CommitImage, Finalized
  <2>5. CASE RemoveImage(i)
    BY <2>5 DEF RemoveImage, MarkDeleted, Requests, uploadVars
  <2>6. QED
    BY <1>2, <2>1, <2>2, <2>3, <2>4, <2>5
<1>3. ASSUME NEW i \in Items, Refuse(i) \/ SaveFile(i) \/ StartDeleting(i) \/ DeleteFile(i) \/ Die(i)
      PROVE  SessionInv'
  BY <1>1, <1>3 DEF Refuse, SaveFile, StartDeleting, Locks, DeleteFile, Die, uploadVars, imageVars, historyVars
<1>4. ASSUME NEW i \in Videos, StartVideo(i) \/ CommitVideo(i) \/ (MarkDeleted(i) /\ UNCHANGED position)
      PROVE  SessionInv'
  <2>1. \A j \in Images : row'[j] = row[j]
    BY <1>4 DEF StartVideo, Locks, CommitVideo, MarkDeleted, imageVars
  <2>2. UNCHANGED <<session, cleaner, overtaken>>
    BY <1>4 DEF StartVideo, Locks, CommitVideo, MarkDeleted, uploadVars, historyVars
  <2>3. QED
    BY <2>1, <2>2
<1>5. ASSUME NEW o, Reorder(o) PROVE SessionInv'
  BY <1>1, <1>5 DEF Reorder, uploadVars, historyVars
<1>6. ASSUME NEW to, ListingMoves(to) PROVE SessionInv'
  BY <1>1, <1>6 DEF ListingMoves, uploadVars, imageVars, historyVars
<1>7. ASSUME NEW i \in Images, Lapse(i) \/ Age(i) PROVE SessionInv'
  BY <1>1, <1>7 DEF Lapse, Age, uploadVars, imageVars, historyVars
<1>8. CASE Clean
  <2>1. CASE CleanRead
    BY <2>1 DEF CleanRead, uploadVars, imageVars, historyVars
  <2>2. CASE CleanList \/ CleanEnd
    BY <2>2 DEF CleanList, CleanEnd, uploadVars, imageVars, historyVars
  <2>3. ASSUME NEW i \in Images, CleanExpire(i) PROVE SessionInv'
    BY <2>3 DEF CleanExpire, imageVars, historyVars
  <2>4. ASSUME NEW i \in Images, CleanRemove(i) PROVE SessionInv'
    BY <2>4 DEF CleanRemove, uploadVars, imageVars, historyVars
  <2>5. QED
    BY <1>8, <2>1, <2>2, <2>3, <2>4 DEF Clean
<1>9. CASE UNCHANGED mediaVars
  BY <1>1, <1>9 DEF mediaVars, uploadVars, imageVars, historyVars
<1>10. QED
  BY <1>2, <1>3, <1>4, <1>5, <1>6, <1>7, <1>8, <1>9, Steps

-----------------------------------------------------------------------------
\* The maximum.

\* While an image is saved the lock is held, and nothing else becomes ready.
MaximumInv ==
    /\ ImagesWithinMaximum
    /\ \A i \in Images : request[i] \in {"saving", "unstaged"} => Room

LEMMA MaximumStep ==
    ASSUME TypeInv, Requests, Dense, MaximumInv, [MediaNext]_mediaVars
    PROVE  MaximumInv'
<1> USE DEF MaximumInv, ImagesWithinMaximum, Room
<1>1. ASSUME Ready' = Ready,
             \A i \in Images : request'[i] \in {"saving", "unstaged"} => request[i] \in {"saving", "unstaged"}
      PROVE  MaximumInv'
  BY <1>1
<1>2. ASSUME NEW i \in Images,
             \/ EditWithImage(i) \/ BeginUpload(i) \/ RefuseLapsed(i) \/ StartImage(i)
             \/ Unstage(i) \/ CommitImage(i) \/ RemoveImage(i)
      PROVE  MaximumInv'
  <2>1. CASE EditWithImage(i) \/ BeginUpload(i) \/ RefuseLapsed(i) \/ Unstage(i)
    BY <1>1, <2>1 DEF EditWithImage, BeginUpload, RefuseLapsed, Unstage, imageVars, Ready, TypeInv, MediaTypeOK,
                      Items
  <2>2. CASE StartImage(i)
    BY <2>2 DEF StartImage, Locks, imageVars, Ready
  <2>3. CASE CommitImage(i)
    <3>1. \A j \in Images : request'[j] \notin {"saving", "unstaged"}
      BY <2>3 DEF CommitImage, Unlocks, InTransaction, TypeInv, MediaTypeOK, Items
    <3>2. Cardinality(Ready) < MaximumImages
      BY <2>3 DEF CommitImage
    <3>3. Cardinality(Ready') = Cardinality(Ready) + 1
      BY <2>3, OrderOfCommit, ReadyCount, FS_AddElement
    <3>4. QED
      BY <3>1, <3>2, <3>3, ReadyCount, MediaAssumption
  <2>4. CASE RemoveImage(i)
    <3>1. \A j \in Images : request'[j] \notin {"saving", "unstaged"}
      BY <2>4 DEF RemoveImage, MarkDeleted, Unlocks, InTransaction, TypeInv, MediaTypeOK, Items
    <3>2. Cardinality(Ready') = Cardinality(Ready) - 1
      BY <2>4, OrderOfRemoval, ReadyCount, FS_RemoveElement
    <3>3. QED
      BY <3>1, <3>2, ReadyCount, MediaAssumption
  <2>5. QED
    BY <1>2, <2>1, <2>2, <2>3, <2>4
<1>3. ASSUME NEW i \in Items, Refuse(i) \/ SaveFile(i) \/ StartDeleting(i) \/ DeleteFile(i) \/ Die(i)
      PROVE  MaximumInv'
  BY <1>1, <1>3 DEF Refuse, SaveFile, StartDeleting, Locks, DeleteFile, Die, Unlocks, imageVars, Ready,
                    TypeInv, MediaTypeOK, Items
<1>4. ASSUME NEW i \in Videos, StartVideo(i) \/ CommitVideo(i) \/ (MarkDeleted(i) /\ UNCHANGED position)
      PROVE  MaximumInv'
  <2>1. i \in Items /\ i \notin Images
    BY Apart DEF Items
  <2>2. \A j \in Images : row'[j] = row[j] /\ request'[j] = request[j]
    BY <1>4, <2>1 DEF StartVideo, Locks, CommitVideo, MarkDeleted, Unlocks, imageVars, TypeInv, MediaTypeOK, Items
  <2>3. Ready' = Ready
    BY <2>2 DEF Ready
  <2>4. QED
    BY <1>1, <2>2, <2>3
<1>5. CASE UNCHANGED <<row, requestVars>>
  BY <1>1, <1>5 DEF Ready, requestVars
<1>6. ASSUME NEW o, Reorder(o) PROVE MaximumInv'
  BY <1>5, <1>6 DEF Reorder
<1>7. ASSUME NEW to, ListingMoves(to) PROVE MaximumInv'
  BY <1>5, <1>7 DEF ListingMoves, imageVars
<1>8. ASSUME NEW i \in Images, Lapse(i) \/ Age(i) PROVE MaximumInv'
  BY <1>5, <1>8 DEF Lapse, Age, imageVars
<1>9. CASE Clean
  BY <1>5, <1>9 DEF Clean, CleanRead, CleanList, CleanEnd, CleanExpire, CleanRemove, imageVars
<1>10. CASE UNCHANGED mediaVars
  BY <1>5, <1>10 DEF mediaVars, imageVars
<1>11. QED
  BY <1>2, <1>3, <1>4, <1>6, <1>7, <1>8, <1>9, <1>10, Steps

-----------------------------------------------------------------------------
\* Files.

LEMMA FilesByKind ==
    /\ \A i \in Images : /\ KeptFiles(i) = {<<i, "image">>, <<i, "preview">>}
                         /\ Len(Kept(i)) = 2 /\ Kept(i)[1] = "image" /\ Kept(i)[2] = "preview"
                         /\ Len(Saved(i)) = 3 /\ Saved(i)[1] = "staged" /\ Saved(i)[2] = "image"
                         /\ Saved(i)[3] = "preview"
    /\ \A i \in Videos : /\ KeptFiles(i) = {<<i, "source">>}
                         /\ Len(Kept(i)) = 1 /\ Kept(i)[1] = "source"
                         /\ Len(Saved(i)) = 1 /\ Saved(i)[1] = "source"
BY Apart DEF KeptFiles, Kept, Saved, Range

\* How far the files of an item are, seen from the request that saves or deletes them.
FilesOf(i) ==
    /\ row[i] = "ready" => KeptFiles(i) \subseteq files \/ request[i] = "deleting" \/ i \in cutOff
    /\ \A f \in {"image", "preview", "source"} :
           <<i, f>> \in files => row[i] = "ready" \/ request[i] \in {"saving", "unstaged"} \/ i \in orphaned
    /\ \A f \in {"image", "preview", "source"} : <<i, f>> \in files => <<i, f>> \in KeptFiles(i)
    /\ request[i] = "saving" /\ i \in Images =>
           /\ done[i] >= 2 => <<i, "image">> \in files
           /\ done[i] >= 3 => <<i, "preview">> \in files
    /\ request[i] = "saving" /\ i \in Videos /\ done[i] >= 1 => <<i, "source">> \in files
    /\ request[i] = "saving" /\ done[i] = 0 => KeptFiles(i) \cap files = {} \/ i \in orphaned
    /\ request[i] = "unstaged" => done[i] = 3 /\ KeptFiles(i) \subseteq files
    /\ request[i] = "deleting" /\ done[i] = 0 => KeptFiles(i) \subseteq files \/ i \in cutOff
    /\ request[i] = "deleting" /\ i \in Images =>
           /\ done[i] >= 1 => <<i, "image">> \notin files
           /\ done[i] >= 2 => <<i, "preview">> \notin files
    /\ request[i] = "deleting" /\ i \in Videos /\ done[i] >= 1 => <<i, "source">> \notin files

StorageInv == \A i \in Items : FilesOf(i)

\* A step that leaves the row, the request and the kept files of an item alone.
LEMMA FilesAlone ==
    ASSUME NEW i \in Items, FilesOf(i),
           row'[i] = row[i], request'[i] = request[i], done'[i] = done[i],
           i \in cutOff => i \in cutOff', i \in orphaned => i \in orphaned',
           \A f \in {"image", "preview", "source"} : <<i, f>> \in files' <=> <<i, f>> \in files
    PROVE  FilesOf(i)'
<1>1. \A j \in {i} : KeptFiles(j)' = KeptFiles(j)
  BY DEF KeptFiles, Kept
<1>2. KeptFiles(i) = {<<i, "image">>, <<i, "preview">>} \/ KeptFiles(i) = {<<i, "source">>}
  BY FilesByKind DEF Items
<1>3. QED
  BY <1>1, <1>2 DEF FilesOf

LEMMA FilesStep ==
    ASSUME TypeInv, Requests, NEW i \in Items, FilesOf(i),
           \/ Refuse(i) \/ SaveFile(i) \/ StartDeleting(i) \/ DeleteFile(i) \/ Die(i) \/ StartVideo(i)
           \/ CommitVideo(i) \/ MarkDeleted(i)
           \/ i \in Images /\ \/ EditWithImage(i) \/ BeginUpload(i) \/ RefuseLapsed(i) \/ StartImage(i)
                              \/ Unstage(i) \/ CommitImage(i)
    PROVE  FilesOf(i)'
<1>1. KeptFiles(i)' = KeptFiles(i)
  BY DEF KeptFiles, Kept
<1>2. CASE i \in Images
  <2>1. /\ i \notin Videos
        /\ KeptFiles(i) = {<<i, "image">>, <<i, "preview">>}
        /\ Len(Kept(i)) = 2 /\ Kept(i)[1] = "image" /\ Kept(i)[2] = "preview"
        /\ Len(Saved(i)) = 3 /\ Saved(i)[1] = "staged" /\ Saved(i)[2] = "image" /\ Saved(i)[3] = "preview"
    BY <1>2, FilesByKind, Apart
  <2> USE <1>1, <1>2, <2>1 DEF FilesOf, TypeInv, MediaTypeOK, Requests, InTransaction
  <2>2. CASE EditWithImage(i) \/ BeginUpload(i) \/ RefuseLapsed(i) \/ Refuse(i) \/ StartImage(i)
    BY <2>2 DEF EditWithImage, BeginUpload, RefuseLapsed, Refuse, StartImage, Locks, imageVars, storageVars,
                historyVars
  <2>3. CASE SaveFile(i)
    <3>1. done[i] \in {0, 1, 2}
      BY <2>3 DEF SaveFile
    <3>2. QED
      BY <2>3, <3>1 DEF SaveFile, imageVars, historyVars
  <2>4. CASE Unstage(i)
    BY <2>4 DEF Unstage, imageVars, historyVars
  <2>5. CASE CommitImage(i)
    BY <2>5 DEF CommitImage, Unlocks, storageVars
  <2>6. CASE StartDeleting(i)
    BY <2>6 DEF StartDeleting, Served, Locks, imageVars, storageVars, historyVars
  <2>7. CASE DeleteFile(i)
    <3>1. done[i] \in {0, 1}
      BY <2>7 DEF DeleteFile
    <3>2. QED
      BY <2>7, <3>1 DEF DeleteFile, imageVars, historyVars
  <2>8. CASE MarkDeleted(i)
    BY <2>8 DEF MarkDeleted, Unlocks, storageVars
  <2>9. CASE Die(i)
    BY <2>9 DEF Die, Unlocks, imageVars, storageVars
  <2>10. QED
    BY <2>2, <2>3, <2>4, <2>5, <2>6, <2>7, <2>8, <2>9 DEF StartVideo, CommitVideo
<1>3. CASE i \in Videos
  <2>1. /\ i \notin Images
        /\ KeptFiles(i) = {<<i, "source">>}
        /\ Len(Kept(i)) = 1 /\ Kept(i)[1] = "source"
        /\ Len(Saved(i)) = 1 /\ Saved(i)[1] = "source"
    BY <1>3, FilesByKind, Apart
  <2> USE <1>1, <1>3, <2>1 DEF FilesOf, TypeInv, MediaTypeOK, Requests, InTransaction
  <2>2. CASE Refuse(i) \/ StartVideo(i)
    BY <2>2 DEF Refuse, StartVideo, Locks, imageVars, storageVars, historyVars
  <2>3. CASE SaveFile(i)
    BY <2>3 DEF SaveFile, imageVars, historyVars
  <2>4. CASE CommitVideo(i)
    BY <2>4 DEF CommitVideo, Unlocks, storageVars, historyVars
  <2>5. CASE StartDeleting(i)
    BY <2>5 DEF StartDeleting, Served, Locks, imageVars, storageVars, historyVars
  <2>6. CASE DeleteFile(i)
    BY <2>6 DEF DeleteFile, imageVars, historyVars
  <2>7. CASE MarkDeleted(i)
    BY <2>7 DEF MarkDeleted, Unlocks, storageVars
  <2>8. CASE Die(i)
    BY <2>8 DEF Die, Unlocks, imageVars, storageVars
  <2>9. QED
    BY <2>2, <2>3, <2>4, <2>5, <2>6, <2>7, <2>8
<1>4. QED
  BY <1>2, <1>3 DEF Items

LEMMA StorageStep ==
    ASSUME TypeInv, Requests, StorageInv, [MediaNext]_mediaVars
    PROVE  StorageInv'
<1> DEFINE Writes(i) ==
        \/ Refuse(i) \/ SaveFile(i) \/ StartDeleting(i) \/ DeleteFile(i) \/ Die(i) \/ StartVideo(i)
        \/ CommitVideo(i) \/ MarkDeleted(i)
        \/ i \in Images /\ \/ EditWithImage(i) \/ BeginUpload(i) \/ RefuseLapsed(i) \/ StartImage(i)
                           \/ Unstage(i) \/ CommitImage(i)
<1>1. ASSUME NEW i \in Items, Writes(i) PROVE StorageInv'
  <2>1. FilesOf(i)'
    BY <1>1, FilesStep DEF StorageInv
  <2>2. ASSUME NEW j \in Items, j # i PROVE FilesOf(j)'
    <3>1. row'[j] = row[j] /\ request'[j] = request[j] /\ done'[j] = done[j]
      BY <1>1, <2>2
         DEF TypeInv, MediaTypeOK, imageVars, Refuse, SaveFile, StartDeleting, DeleteFile, Die, StartVideo, Locks,
             Unlocks, CommitVideo, MarkDeleted, EditWithImage, BeginUpload, RefuseLapsed, StartImage,
             Unstage, CommitImage
    <3>2. (j \in cutOff => j \in cutOff') /\ (j \in orphaned => j \in orphaned')
      BY <1>1, <2>2
         DEF historyVars, Refuse, SaveFile, StartDeleting, DeleteFile, Die, StartVideo, Locks,
             CommitVideo, MarkDeleted, EditWithImage, BeginUpload, RefuseLapsed, StartImage,
             Unstage, CommitImage
    <3>3. \A f : <<j, f>> \in files' <=> <<j, f>> \in files
      BY <1>1, <2>2
         DEF storageVars, Refuse, SaveFile, StartDeleting, DeleteFile, Die, StartVideo, Locks,
             CommitVideo, MarkDeleted, EditWithImage, BeginUpload, RefuseLapsed, StartImage,
             Unstage, CommitImage
    <3>4. QED
      BY <3>1, <3>2, <3>3, FilesAlone DEF StorageInv
  <2>3. QED
    BY <2>1, <2>2 DEF StorageInv
<1>2. ASSUME UNCHANGED <<row, requestVars, orphaned, cutOff>>,
             \A i \in Items, f \in {"image", "preview", "source"} : <<i, f>> \in files' <=> <<i, f>> \in files
      PROVE  StorageInv'
  BY <1>2, FilesAlone DEF StorageInv, requestVars
<1>3. ASSUME NEW i \in Images, CleanRemove(i) PROVE StorageInv'
  BY <1>2, <1>3 DEF CleanRemove, imageVars, historyVars
<1>4. ASSUME NEW o, Reorder(o) PROVE StorageInv'
  BY <1>2, <1>4 DEF Reorder, storageVars, historyVars
<1>5. ASSUME NEW to, ListingMoves(to) PROVE StorageInv'
  BY <1>2, <1>5 DEF ListingMoves, imageVars, storageVars, historyVars
<1>6. ASSUME NEW i \in Images, Lapse(i) \/ Age(i) PROVE StorageInv'
  BY <1>2, <1>6 DEF Lapse, Age, imageVars, storageVars, historyVars
<1>7. CASE Clean
  BY <1>2, <1>3, <1>7 DEF Clean, CleanRead, CleanList, CleanEnd, CleanExpire, imageVars, storageVars, historyVars
<1>8. CASE UNCHANGED mediaVars
  BY <1>2, <1>8 DEF mediaVars, imageVars, storageVars, historyVars
<1>9. QED
  <2>1. (\E i \in Items : Writes(i)) \/ (\E o \in Orders : Reorder(o))
        \/ (\E to \in {"draft", "published", "away"} : ListingMoves(to))
        \/ (\E i \in Images : Lapse(i) \/ Age(i)) \/ Clean \/ UNCHANGED mediaVars
    BY Steps, Zenon DEF RemoveImage, Items
  <2>2. QED
    BY <1>1, <1>4, <1>5, <1>6, <1>7, <1>8, <2>1

-----------------------------------------------------------------------------
\* What the listing's status allows.

LEMMA FrozenStep ==
    ASSUME TypeInv, Requests, [MediaNext]_mediaVars
    PROVE  imageVars' # imageVars => status # "away" /\ status' # "published"
<1> USE DEF imageVars
<1>1. ASSUME NEW i \in Items, CommitImage(i) \/ CommitVideo(i) \/ MarkDeleted(i)
      PROVE  status # "away" /\ status' # "published"
  <2>1. InTransaction(i)
    BY <1>1 DEF CommitImage, CommitVideo, MarkDeleted, InTransaction
  <2>2. status # "away"
    BY <2>1 DEF Requests
  <2>3. QED
    BY <1>1, <2>2 DEF CommitImage, CommitVideo, MarkDeleted, Depublished
<1>2. ASSUME NEW o, Reorder(o)
      PROVE  status # "away" /\ status' # "published"
  BY <1>2 DEF Reorder, MayWrite, Depublished
<1>3. CASE imageVars' # imageVars
  <2>1. (\E i \in Items : CommitImage(i) \/ CommitVideo(i) \/ MarkDeleted(i)) \/ (\E o : Reorder(o))
    <3>1. \A i \in Items : /\ ~ Refuse(i) /\ ~ SaveFile(i) /\ ~ StartDeleting(i) /\ ~ DeleteFile(i) /\ ~ Die(i)
                           /\ ~ StartVideo(i) /\ ~ EditWithImage(i) /\ ~ BeginUpload(i) /\ ~ RefuseLapsed(i)
                           /\ ~ StartImage(i) /\ ~ Unstage(i) /\ ~ Lapse(i) /\ ~ Age(i)
      BY <1>3 DEF Refuse, SaveFile, StartDeleting, DeleteFile, Die, StartVideo, Locks, EditWithImage,
                  BeginUpload, RefuseLapsed, StartImage, Unstage, Lapse, Age
    <3>2. ~ Clean /\ ~ UNCHANGED mediaVars /\ \A to : ~ ListingMoves(to)
      BY <1>3 DEF Clean, CleanRead, CleanList, CleanEnd, CleanExpire, CleanRemove, mediaVars, ListingMoves
    <3>3. QED
      BY <3>1, <3>2, Steps, Zenon DEF RemoveImage, Items
  <2>2. QED
    BY <1>1, <1>2, <2>1
<1>4. QED
  BY <1>3

-----------------------------------------------------------------------------
MediaInv == TypeInv /\ Requests /\ Dense /\ SessionInv /\ MaximumInv /\ StorageInv

LEMMA InitInv ==
    ASSUME MediaInit
    PROVE  MediaInv
<1>1. TypeInv
  BY MediaAssumption, Apart DEF MediaInit, TypeInv, MediaTypeOK, InTransaction, Items
<1>2. Ready = {} /\ Cardinality(Ready) = 0
  BY FS_EmptySet DEF MediaInit, Ready, Items
<1>3. Dense /\ MaximumInv
  BY <1>2, MediaAssumption DEF Dense, MaximumInv, ImagesWithinMaximum, MediaInit, Items
<1>4. Requests /\ SessionInv /\ StorageInv
  BY DEF MediaInit, Requests, InTransaction, SessionInv, SessionsTell, StorageInv, FilesOf, Items
<1>5. QED
  BY <1>1, <1>3, <1>4 DEF MediaInv

LEMMA MediaStep == MediaInv /\ [MediaNext]_mediaVars => MediaInv'
  BY TypeStep, RequestsStep, DenseStep, SessionStep, MaximumStep, StorageStep DEF MediaInv

LEMMA Inductive == MediaSpec => []MediaInv
<1>1. MediaInit => MediaInv
  BY InitInv
<1>2. QED
  BY <1>1, MediaStep, PTL DEF MediaSpec

\* The lock of the listing is held by the one request that is in a transaction
\* (_locked_owned_draft), and every variable keeps its type.
THEOREM MediaTypes == MediaSpec => []MediaTypeOK
<1>1. MediaInv => MediaTypeOK
  BY DEF MediaInv, TypeInv
<1>2. QED
  BY <1>1, Inductive, PTL

\* What is served is stored and what is stored is served, but for requests that are running
\* or have died: files are saved before the row commits and deleted before it is marked.
THEOREM StorageMatches == MediaSpec => []StorageMatchesRows
<1>1. MediaInv => StorageMatchesRows
  BY DEF MediaInv, StorageInv, FilesOf, StorageMatchesRows, Served
<1>2. QED
  BY <1>1, Inductive, PTL

\* A session tells whether it gave an image, unless the cleanup command, which locks
\* nothing, had read it as open before (cleanup_listing_media.py).
THEOREM SessionsTellAlways == MediaSpec => []SessionsTell
<1>1. MediaInv => SessionsTell
  BY DEF MediaInv, SessionInv
<1>2. QED
  BY <1>1, Inductive, PTL

\* However many uploads were let in before the limit was reached, the check made again
\* under the lock (_finalize_image_upload) keeps them together within it.
THEOREM MaximumKept == MediaSpec => []ImagesWithinMaximum
<1>1. MediaInv => ImagesWithinMaximum
  BY DEF MediaInv, MaximumInv
<1>2. QED
  BY <1>1, Inductive, PTL

\* The orders of the ready images are 0, 1, 2, ..., and neither of the loops of reorder_images
\* nor the one of delete_listing_image ever writes an order another row still has.
THEOREM OrdersNeverCollide == MediaSpec => []OrderNeverCollides
<1>1. MediaInv => OrderNeverCollides
  BY OrdersStayApart DEF MediaInv
<1>2. QED
  BY <1>1, Inductive, PTL

\* No image appears, goes or moves while a moderator has the listing, and none on a
\* published listing without taking it down (_depublish_material_edit).
THEOREM FrozenInReview == MediaSpec => MediaFrozenInReview
<1>1. MediaInv /\ [MediaNext]_mediaVars =>
          [imageVars' # imageVars => status # "away" /\ status' # "published"]_mediaVars
  BY FrozenStep DEF MediaInv
<1>2. QED
  BY <1>1, Inductive, PTL DEF MediaSpec, MediaFrozenInReview
=============================================================================
