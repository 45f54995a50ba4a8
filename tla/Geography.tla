----------------------------- MODULE Geography -----------------------------
(***************************************************************************)
(* The reference data of places (locations/services.py, zip_county.py):    *)
(* counties are imported from a Census file in one transaction that writes *)
(* row by row, while staff work in the admin site, whose form saves the    *)
(* whole row, also what staff left as it was opened; ZIP codes are mapped  *)
(* to counties by a file of their own.  A name stands for the name, the    *)
(* slug and the coordinates of a row, a flag for is_active and             *)
(* is_network_enabled.                                                     *)
(***************************************************************************)
EXTENDS Naturals, Functions

CONSTANTS
    Places,         \* county FIPS codes
    StateFips,      \* the state each code begins with
    PlaceNames,     \* names and their slugs
    NoRow,          \* a county that is not in the database; nothing
    Zips,
    MaxImports      \* bounds the imports begun (no counterpart in the code)

ASSUME GeographyAssumption ==
    StateFips \in [Places -> Nat] /\ NoRow \notin PlaceNames /\ MaxImports \in Nat

VARIABLES
    placeName,  \* County.name and slug
    enabledHere,\* County.is_active and is_network_enabled
    run,        \* the import that is running
    imports,    \* the ReferenceImport records: what each imported
    editing,    \* the county forms staff have open, as they were opened
    candidates, \* ZipCountyReference: pairs of a ZIP code and a county
    begun,
    listed,     \* history: the name the last recorded import of a county gave it
    oldForms,   \* history: the counties listed by an import since their form was opened
    rewritten,  \* history: the counties whose name is no longer the listed one, see Rewrites
    meanwhile   \* history: those whose name was rewritten since the run began

tableVars == <<placeName, enabledHere, imports>>
namingVars == <<listed, oldForms, rewritten, meanwhile>>
geographyVars == <<tableVars, run, editing, candidates, begun, namingVars>>

Present == {p \in Places : placeName[p] # NoRow}

\* _validate_counties: what may be in a file.  No two of its counties share a route.
DistinctRoutes(names) ==
    \A p, q \in {r \in Places : names[r] # NoRow} :
        StateFips[p] = StateFips[q] /\ names[p] = names[q] => p = q
Files == {f \in [Places -> PlaceNames \cup {NoRow}] : DistinctRoutes(f)}

NoRun == [file |-> [p \in Places |-> NoRow], read |-> [p \in Places |-> NoRow],
          left |-> {}, written |-> {}, dry |-> FALSE]
Running == run # NoRun
Named == {p \in Places : run.file[p] # NoRow}

GeographyInit ==
    /\ placeName = [p \in Places |-> NoRow]
    /\ enabledHere = [p \in Places |-> FALSE]
    /\ run = NoRun
    /\ imports = 0
    /\ editing = [p \in Places |-> NoRow]
    /\ candidates = {}
    /\ begun = 0
    /\ listed = [p \in Places |-> NoRow]
    /\ oldForms = {} /\ rewritten = {} /\ meanwhile = {}

\* import_census_geography up to its first write: the file is validated, and the
\* counties it names are read.
BeginImport(f, dry) ==
    /\ ~ Running /\ begun < MaxImports
    /\ {p \in Places : f[p] # NoRow} # {}
    /\ run' = [file |-> f, read |-> placeName, left |-> {p \in Places : f[p] # NoRow},
               written |-> {}, dry |-> dry]
    /\ begun' = begun + 1
    /\ meanwhile' = {}
    /\ UNCHANGED <<tableVars, editing, candidates, listed, oldForms, rewritten>>

\* The table as the transaction of the import sees it.
SeenByRun == [p \in Places |-> IF p \in run.written THEN run.file[p] ELSE placeName[p]]

BugOnlyCreates(p) == run.read[p] = NoRow

\* A row is written when it is new or differs from what was read at the beginning.
MustWrite(p) == run.read[p] = NoRow \/ run.read[p] # run.file[p]

\* The constraints of the table at the moment of a write: a code once, a route once.
Collides(p) ==
    \/ run.read[p] = NoRow /\ SeenByRun[p] # NoRow
    \/ ~ DistinctRoutes([SeenByRun EXCEPT ![p] = run.file[p]])

WriteRow(p) ==
    /\ p \in run.left
    /\ MustWrite(p) => ~ Collides(p)
    /\ run' = [run EXCEPT !.left = @ \ {p},
                          !.written = IF MustWrite(p) THEN @ \cup {p} ELSE @]
    /\ UNCHANGED <<tableVars, editing, candidates, begun, namingVars>>

\* IntegrityError: also for a file that swaps two names, which is valid as a whole.
RollBack(p) ==
    /\ p \in run.left /\ MustWrite(p) /\ Collides(p)
    /\ run' = NoRun
    /\ UNCHANGED <<tableVars, editing, candidates, begun, namingVars>>

\* A county that the import creates is enabled; save(update_fields=...) leaves the
\* flags of the others as they are.
Created(p) == p \in run.written /\ run.read[p] = NoRow

BugKeepsDryRun == SeenByRun

\* set_rollback(True): nothing that a dry run wrote is left.
Committed == IF run.dry THEN placeName ELSE SeenByRun

\* The commit with its ReferenceImport, or the rollback of a dry run.
EndImport ==
    /\ Running /\ run.left = {}
    /\ placeName' = Committed
    /\ IF run.dry
       THEN UNCHANGED <<enabledHere, imports, listed, oldForms, rewritten>>
       ELSE /\ enabledHere' = [p \in Places |-> Created(p) \/ enabledHere[p]]
            /\ imports' = imports + 1
            /\ listed' = [p \in Places |-> IF p \in Named THEN run.file[p] ELSE listed[p]]
            /\ oldForms' = oldForms \cup {p \in Named : editing[p] # NoRow}
            /\ rewritten' = (rewritten \ Named) \cup (Named \cap (meanwhile \ run.written))
    /\ run' = NoRun
    /\ UNCHANGED <<editing, candidates, begun, meanwhile>>

\* The admin site: a form is opened with the row as it is.
OpenCounty(p) ==
    /\ p \in Present /\ editing[p] = NoRow
    /\ editing' = [editing EXCEPT ![p] = placeName[p]]
    /\ UNCHANGED <<tableVars, run, candidates, begun, namingVars>>

\* Staff type another name, or the form says what an import has changed since.
Rewrites(p, n) == n # editing[p] \/ p \in oldForms

\* Every column is saved, those that were left as the form was opened too.  The save waits
\* for a row or a route that the import has written.
SaveCounty(p, n, flag) ==
    /\ editing[p] # NoRow /\ p \notin run.written
    /\ DistinctRoutes([placeName EXCEPT ![p] = n])
    /\ DistinctRoutes([SeenByRun EXCEPT ![p] = n])
    /\ placeName' = [placeName EXCEPT ![p] = n]
    /\ enabledHere' = [enabledHere EXCEPT ![p] = flag]
    /\ editing' = [editing EXCEPT ![p] = NoRow]
    /\ oldForms' = oldForms \ {p}
    /\ rewritten' = IF Rewrites(p, n) THEN rewritten \cup {p} ELSE rewritten
    /\ meanwhile' = IF Rewrites(p, n) THEN meanwhile \cup {p} ELSE meanwhile
    /\ UNCHANGED <<run, imports, candidates, begun, listed>>

\* The form is left, or its route is taken meanwhile.
LeaveCounty(p) ==
    /\ editing[p] # NoRow
    /\ editing' = [editing EXCEPT ![p] = NoRow]
    /\ oldForms' = oldForms \ {p}
    /\ UNCHANGED <<tableVars, run, candidates, begun, listed, rewritten, meanwhile>>

\* enable_nationwide_directory, which waits for the rows of a running import.
EnableAll ==
    /\ ~ Running
    /\ enabledHere' = [p \in Places |-> p \in Present]
    /\ UNCHANGED <<placeName, run, imports, editing, candidates, begun, namingVars>>

\* import_hud_zip_county_crosswalk: rows of unknown counties are skipped, candidates of
\* an earlier file are never removed.
ImportZips(rows) ==
    /\ {r \in rows : r[2] \in Present} # {}
    /\ candidates' = candidates \cup {r \in rows : r[2] \in Present}
    /\ UNCHANGED <<tableVars, run, editing, begun, namingVars>>

\* zip_county_candidates: what a seller is offered for a ZIP code.
ZipCandidates(z) == {p \in Places : <<z, p>> \in candidates /\ enabledHere[p]}

GeographyNext ==
    \/ \E f \in Files, dry \in BOOLEAN : BeginImport(f, dry)
    \/ \E p \in Places : \/ WriteRow(p) \/ RollBack(p) \/ OpenCounty(p) \/ LeaveCounty(p)
                         \/ \E n \in PlaceNames, flag \in BOOLEAN : SaveCounty(p, n, flag)
    \/ EndImport \/ EnableAll
    \/ \E rows \in SUBSET (Zips \X Places) : ImportZips(rows)

GeographySpec == GeographyInit /\ [][GeographyNext]_geographyVars

(***************************************************************************)
(* Properties.                                                             *)
(***************************************************************************)

GeographyTypeOK ==
    /\ placeName \in [Places -> PlaceNames \cup {NoRow}]
    /\ enabledHere \in [Places -> BOOLEAN]
    /\ run.file \in Files /\ run.read \in [Places -> PlaceNames \cup {NoRow}]
    /\ run.left \subseteq Places /\ run.written \subseteq Places /\ run.dry \in BOOLEAN
    /\ imports \in 0 .. begun /\ begun \in 0 .. MaxImports
    /\ editing \in [Places -> PlaceNames \cup {NoRow}]
    /\ candidates \subseteq Zips \X Present
    /\ listed \in [Places -> PlaceNames \cup {NoRow}]
    /\ oldForms \subseteq {p \in Places : editing[p] # NoRow}
    /\ rewritten \subseteq Places /\ meanwhile \subseteq Places

\* A recorded import has given every county of its file the name the file has, except
\* those whose name staff rewrote while it ran, which it compared with what it had read
\* (locations/services.py:341-347).  So it also repairs what an older form has undone.
ImportIsWhole ==
    [][imports' # imports =>
           \A p \in Places : run.file[p] # NoRow =>
               placeName'[p] = run.file[p] \/ p \in meanwhile]_geographyVars

\* The name that a recorded import gave a county lasts until staff type another or save a
\* form that was opened before the import: no dry run, no import that is rolled back, none
\* of other counties and no form opened since changes it (locations/services.py:155-158,
\* locations/admin.py:18, whose form saves every column).
NamesLast ==
    \A p \in Places : listed[p] # NoRow => placeName[p] = listed[p] \/ p \in rewritten
=============================================================================
