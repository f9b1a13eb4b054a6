--------------------------- MODULE RecordingImport ---------------------------
(***************************************************************************)
(* Importing one recording: the uploaded copy, the telemetry artifacts of  *)
(* its run, the row of the run, the sessions that list it, and the rows    *)
(* cache its readers share.                                                *)
(*                                                                         *)
(* An import moves the old artifacts aside, moves its own in place one by  *)
(* one, writes the row in one transaction and then points the sessions at  *)
(* the run.  A step that fails before the row is written undoes the moves, *)
(* and a move that cannot be undone is logged and skipped.  Nothing        *)
(* serialises two imports of one recording, and nothing is undone when the *)
(* process dies.  A database may hold the recording under several runs     *)
(* named after files; the one that owns it is chosen by each import.       *)
(***************************************************************************)
EXTENDS SessionMembership, FiniteSets

CONSTANTS
    Canonical,   \* recording-<sha>, the run id of the recording
    Decodings,   \* what a decoder makes of the file (vectorized, row by row)
    Importers,   \* threads importing the file
    Readers,     \* threads reading telemetry rows
    Stored,      \* what may be stored already: [table, files, lists, clock]
    MaxImports   \* imports in all; with reads, edits and faults, MaxEvents

ASSUME ImportAssumption ==
    /\ Canonical \in Runs
    /\ None \notin Runs \cup Sessions
    /\ Decodings # {}
    /\ MaxImports \in Nat /\ MaxEvents \in Nat

VARIABLES
    retained,   \* imports/<sha>.ibt exists
    files,      \* [Runs -> the artifacts in place]
    ctime,      \* [Runs -> moves of its cache files so far]
    table,      \* [Runs -> row of runs, with the decoding of its segments]
    rows,       \* [Runs -> entry of _TELEMETRY_ROWS_CACHE]
    importers, readers,
    clock,      \* the last imported_at
    imports,
    disturbed   \* runs two imports worked on at once, or one died on or could
                \* not undo, and no import that was alone has repaired since

artifacts == <<files, ctime, readers>>
database == <<table, clock>>
membership == <<sessions, editors>>
bounds == <<imports, events>>
vars == <<retained, files, ctime, table, rows, importers, readers, clock, imports,
          disturbed, sessions, editors, events>>

\* In the order they are moved: three artifacts, and the CSV an older import
\* left, which is only moved aside.
Artifacts == <<"cache", "metadata", "manifest", "alternate">>
Sources == {"cache", "alternate"}
Names == {Artifacts[n] : n \in DOMAIN Artifacts}
Moved == 3

Version == [id : 0..MaxImports, decoding : Decodings]
Row == [decoding : Decodings, at : Nat, segments : Decodings \cup {None}]
Nothing == [a \in Names |-> None]

Whole(version) == [a \in Names |-> IF a = "alternate" THEN None ELSE version]

\* The artifacts are those of the row: a promoted set, or the CSV alone that an
\* older import left; the segments are of that row or missing.
Belongs(set, row) ==
    IF row = None THEN set = Nothing
    ELSE /\ \E v \in Version :
               /\ v.decoding = row.decoding
               /\ set \in {Whole(v), [Nothing EXCEPT !.alternate = v]}
         /\ row.segments \in {row.decoding, None}

ASSUME StoredAssumption ==
    /\ None \notin Row
    /\ \A s \in Stored :
          /\ s.table \in [Runs -> Row \cup {None}]
          /\ s.files \in [Runs -> [Names -> Version \cup {None}]]
          /\ s.clock \in Nat
          /\ \A r \in Runs : Belongs(s.files[r], s.table[r])
          /\ s.lists \in Seq(Runs) /\ IsInjective(s.lists)

Resting == {"idle", "ok", "failed", "lost", "unreadable"}
Promoting == {"backup", "place", "invalidate", "save", "undo"}
ReadStates == {"hash", "sign", "lookup", "read", "admit"}
Finishing == {"aliases", "sessions", "rebind", "segments"}

Rests(pc) == [pc |-> pc, run |-> Canonical, version |-> None, step |-> 0,
              backups |-> Nothing, created |-> FALSE, alone |-> FALSE, aliases |-> {},
              seen |-> [s \in Sessions |-> None]]

At(i, pc) == importers[i].pc = pc
Become(i, k) == importers' = [importers EXCEPT ![i] = k]

-----------------------------------------------------------------------------
(***************************************************************************)
(* The import.                                                             *)
(***************************************************************************)
\* _promote_content_addressed_upload: link the copy in place unless it is there.
Upload(i) ==
    /\ importers[i].pc \in Resting /\ imports < MaxImports
    /\ events < MaxEvents
    /\ imports' = imports + 1 /\ events' = events + 1
    /\ retained' = TRUE
    /\ \E d \in Decodings :
          Become(i, [Rests("decode") EXCEPT
                        !.created = ~retained,
                        !.version = [id |-> imports + 1, decoding |-> d]])
    /\ UNCHANGED <<rows, disturbed, artifacts, database, membership>>

\* The copy is read after the upload; another import may have removed it.  A file
\* that is missing or cannot be decoded gives a result without a run, which is
\* answered as such and leaves the copy; one that goes while it is read raises.
Decode(i) ==
    /\ At(i, "decode")
    /\ \/ Become(i, [importers[i] EXCEPT !.pc = IF retained THEN "owner" ELSE "discard"])
       \/ Become(i, Rests("unreadable"))
    /\ UNCHANGED <<retained, rows, disturbed, artifacts, database, membership,
                   bounds>>

Held == {r \in Runs : table[r] # None}

\* find_recording_owner_run_id: the canonical run, or else a run whose row is the
\* oldest (of two that are equally old, the code takes the first by name).
Owners ==
    IF Held = {} \/ Canonical \in Held THEN {Canonical}
    ELSE {r \in Held : \A other \in Held : table[r].at <= table[other].at}

Works(i, run) ==
    importers[i].run = run /\ importers[i].pc \in Promoting \cup Finishing

\* The run is chosen, and the artifacts are staged under temporary names.
ChooseOwner(i) ==
    /\ At(i, "owner")
    /\ \E owner \in Owners :
          LET others == {j \in Importers : Works(j, owner)}
          IN  /\ importers' = [j \in Importers |->
                   IF j = i THEN [importers[i] EXCEPT !.pc = "backup", !.run = owner,
                                      !.step = 1, !.alone = (others = {})]
                   ELSE IF j \in others THEN [importers[j] EXCEPT !.alone = FALSE]
                   ELSE importers[j]]
              /\ disturbed' = IF others = {} THEN disturbed ELSE disturbed \cup {owner}
    /\ UNCHANGED <<retained, rows, artifacts, database, membership, bounds>>

\* The file a signature is taken of, and that is read: Parquet before CSV.
Preferred(set) == IF set["cache"] # None THEN set["cache"] ELSE set["alternate"]

\* A move is seen by the readers of the run that are under way.
Put(run, a, version) ==
    LET moved == [files[run] EXCEPT ![a] = version]
    IN  /\ files' = [files EXCEPT ![run] = moved]
        /\ ctime' = IF version # None /\ a \in Sources THEN [ctime EXCEPT ![run] = @ + 1]
                    ELSE ctime
        /\ readers' = [x \in Readers |->
              IF readers[x].pc \in ReadStates /\ readers[x].run = run
              THEN [readers[x] EXCEPT !.during = @ \cup {Preferred(moved)}] ELSE readers[x]]

\* promote(): what is in place is moved aside, one artifact after the other.
Backup(i) ==
    /\ At(i, "backup")
    /\ LET k == importers[i]
           a == Artifacts[k.step]
           next == IF k.step = Len(Artifacts)
                   THEN [k EXCEPT !.pc = "place", !.step = 1]
                   ELSE [k EXCEPT !.step = @ + 1]
       IN  /\ Put(k.run, a, None)
           /\ Become(i, [next EXCEPT !.backups[a] = files[k.run][a]])
    /\ UNCHANGED <<retained, rows, disturbed, database, membership, bounds>>

\* Then the staged artifacts are moved in place; step - 1 of them are there.
Place(i) ==
    /\ At(i, "place")
    /\ LET k == importers[i]
       IN  /\ Put(k.run, Artifacts[k.step], k.version)
           /\ Become(i, [k EXCEPT !.step = @ + 1,
                                  !.pc = IF k.step = Moved THEN "invalidate" ELSE "place"])
    /\ UNCHANGED <<retained, rows, disturbed, database, membership, bounds>>

Invalidate(i) ==
    /\ At(i, "invalidate")
    /\ rows' = [rows EXCEPT ![importers[i].run] = None]
    /\ Become(i, [importers[i] EXCEPT !.pc = "save"])
    /\ UNCHANGED <<retained, disturbed, artifacts, database, membership,
                   bounds>>

\* Variant: the row keeps its segments.
KeepSegments(run) == IF table[run] = None THEN None ELSE table[run].segments

\* The segments of the former import are deleted with the rest.
SegmentsAfterSave(run) == None

\* save_import: one transaction writes the row anew, imported_at included;
\* commit() then deletes the artifacts that were moved aside.
Save(i) ==
    /\ At(i, "save")
    /\ LET k == importers[i]
       IN  /\ table' = [table EXCEPT ![k.run] =
                  [decoding |-> k.version.decoding, at |-> clock + 1,
                   segments |-> SegmentsAfterSave(k.run)]]
           /\ Become(i, [k EXCEPT !.pc = "aliases", !.backups = Nothing, !.step = 0])
    /\ clock' = clock + 1
    /\ UNCHANGED <<retained, rows, disturbed, artifacts, membership, bounds>>

\* list_recording_alias_run_ids
Aliases(i) ==
    /\ At(i, "aliases")
    /\ LET others == Held \ {importers[i].run}
       IN  Become(i, [importers[i] EXCEPT
              !.aliases = others, !.pc = IF others = {} THEN "segments" ELSE "sessions"])
    /\ UNCHANGED <<retained, rows, disturbed, artifacts, database, membership,
                   bounds>>

\* rebind_recording_alias_memberships reads every session before its
\* transaction ...
SeeSessions(i) ==
    /\ At(i, "sessions")
    /\ Become(i, [importers[i] EXCEPT !.pc = "rebind", !.seen = sessions])
    /\ UNCHANGED <<retained, rows, disturbed, artifacts, database, membership,
                   bounds>>

ListsAny(s, aliases) == \E run \in aliases : Lists(s, run)

\* ... and writes back in it those that listed an alias.
Rebind(i) ==
    /\ At(i, "rebind")
    /\ LET k == importers[i]
       IN  /\ sessions' = [s \in Sessions |->
                 IF sessions[s] = None \/ ~ListsAny(k.seen[s], k.aliases) THEN sessions[s]
                 ELSE Rebound(k.seen[s], k.aliases, k.run)]
           /\ Become(i, [k EXCEPT !.pc = "segments"])
    /\ UNCHANGED <<retained, rows, editors, disturbed, artifacts, database,
                   bounds>>

\* save_segments; its failure is a warning.  The import has succeeded.
Segments(i) ==
    /\ At(i, "segments")
    /\ LET k == importers[i]
       IN  \/ /\ table' = [table EXCEPT ![k.run].segments = k.version.decoding]
              /\ events' = events
           \/ /\ events < MaxEvents /\ events' = events + 1
              /\ table' = table
    /\ disturbed' = IF importers[i].alone THEN disturbed \ {importers[i].run} ELSE disturbed
    /\ Become(i, [Rests("ok") EXCEPT !.run = importers[i].run])
    /\ UNCHANGED <<retained, clock, rows, imports, artifacts, membership>>

-----------------------------------------------------------------------------
(***************************************************************************)
(* Readers: read_telemetry_rows.                                           *)
(***************************************************************************)
NoRead == [pc |-> "idle", run |-> Canonical, source |-> None, manifest |-> None,
           signature |-> None, rows |-> None, during |-> {}]

Reader(x, k) == readers' = [readers EXCEPT ![x] = k]
Refused == [NoRead EXCEPT !.pc = "refused"]
Answer(k, version) ==
    [NoRead EXCEPT !.pc = "answered", !.rows = version, !.during = k.during]
InPlace(run, a) == files[run][a]

\* _source_signature: the path and the stat of the file; each move of a file
\* gives it a change time of its own.
Signature(run) ==
    IF Preferred(files[run]) = None THEN None
    ELSE [path  |-> IF files[run]["cache"] # None THEN "cache" ELSE "alternate",
          ctime |-> ctime[run]]

\* telemetry_cache_sha256 is the hash of the file.
Vouches(manifest, version) ==
    manifest # None /\ version # None /\ manifest.decoding = version.decoding

\* _telemetry_cache_source and the manifest: exactly one of the two files.
ReadManifest(x) ==
    /\ readers[x].pc \notin ReadStates /\ events < MaxEvents
    /\ events' = events + 1
    /\ \E run \in Held :
          LET present == {a \in Sources : InPlace(run, a) # None}
              start == [NoRead EXCEPT !.run = run, !.manifest = InPlace(run, "manifest"),
                           !.during = {Preferred(files[run])}]
          IN  Reader(x, IF Cardinality(present) = 1 /\ InPlace(run, "manifest") # None
                        THEN [start EXCEPT !.pc = "hash",
                                           !.source = CHOOSE a \in present : TRUE]
                        ELSE Refused)
    /\ UNCHANGED <<retained, files, ctime, rows, importers, imports, disturbed,
                   database, membership>>

Hash(x) ==
    /\ readers[x].pc = "hash"
    /\ LET k == readers[x]
       IN  Reader(x, IF Vouches(k.manifest, InPlace(k.run, k.source))
                     THEN [k EXCEPT !.pc = "sign"] ELSE Refused)
    /\ UNCHANGED <<retained, files, ctime, rows, importers, disturbed,
                   database, membership, bounds>>

Sign(x) ==
    /\ readers[x].pc = "sign"
    /\ Reader(x, [readers[x] EXCEPT !.pc = "lookup",
                                    !.signature = Signature(readers[x].run)])
    /\ UNCHANGED <<retained, files, ctime, rows, importers, disturbed,
                   database, membership, bounds>>

\* Variant: the entry of the run is good whatever file it was read from.
AnyEntry(k) == rows[k.run] # None

Current(k) == rows[k.run] # None /\ rows[k.run].signature = k.signature

\* Under the lock: an entry of another file is dropped.
Lookup(x) ==
    /\ readers[x].pc = "lookup"
    /\ LET k == readers[x]
       IN  IF Current(k)
           THEN Reader(x, Answer(k, rows[k.run].rows)) /\ rows' = rows
           ELSE /\ Reader(x, [k EXCEPT !.pc = "read"])
                /\ rows' = [rows EXCEPT ![k.run] = None]
    /\ UNCHANGED <<retained, files, ctime, importers, disturbed, database,
                   membership, bounds>>

\* Neither file there: no rows.
ReadFile(x) ==
    /\ readers[x].pc = "read"
    /\ LET k == readers[x]
       IN  Reader(x, [k EXCEPT !.pc = "admit", !.rows = Preferred(files[k.run])])
    /\ UNCHANGED <<retained, files, ctime, rows, importers, disturbed,
                   database, membership, bounds>>

\* Variant: the entry is filed under the file as it is now.
EntryOfNow(k) == [signature |-> Signature(k.run), rows |-> k.rows]

Entry(k) == [signature |-> k.signature, rows |-> k.rows]

\* Rows too large for the cache are answered and not kept.
Admit(x) ==
    /\ readers[x].pc = "admit"
    /\ LET k == readers[x]
       IN  /\ Reader(x, Answer(k, k.rows))
           /\ rows' \in {rows} \cup
                 (IF k.signature = None THEN {} ELSE {[rows EXCEPT ![k.run] = Entry(k)]})
    /\ UNCHANGED <<retained, files, ctime, importers, disturbed, database,
                   membership, bounds>>

\* The reads of other recordings push the entry out.
Evict ==
    /\ \E run \in Runs : rows[run] # None /\ rows' = [rows EXCEPT ![run] = None]
    /\ UNCHANGED <<retained, importers, disturbed, artifacts, database,
                   membership, bounds>>

-----------------------------------------------------------------------------
(***************************************************************************)
(* Faults.                                                                 *)
(***************************************************************************)
\* The decoder raises, staging raises, a move or the transaction fails.
Fail(i) ==
    /\ events < MaxEvents /\ events' = events + 1
    /\ \/ /\ importers[i].pc \in {"decode", "owner"}
          /\ Become(i, [importers[i] EXCEPT !.pc = "discard"])
       \/ /\ importers[i].pc \in {"backup", "place", "save"}
          /\ Become(i, [importers[i] EXCEPT
                !.pc = "undo",
                !.step = CASE importers[i].pc = "backup" -> 0
                           [] importers[i].pc = "place" -> importers[i].step - 1
                           [] OTHER -> Moved])
    /\ UNCHANGED <<retained, rows, imports, disturbed, artifacts, database,
                   membership>>

\* After the row is written, a database error ends the request as a failure and
\* any other error of the rebind is a warning.
FailRebind(i) ==
    /\ events < MaxEvents /\ events' = events + 1
    /\ importers[i].pc \in {"aliases", "sessions", "rebind"}
    /\ \E pc \in {"discard", "segments"} : Become(i, [importers[i] EXCEPT !.pc = pc])
    /\ UNCHANGED <<retained, rows, imports, disturbed, artifacts, database,
                   membership>>

Aside(k) == {n \in DOMAIN Artifacts : k.backups[Artifacts[n]] # None}

\* Variant: what was moved aside stays aside.
RestoresNothing(k) == {}

ToRestore(k) == Aside(k)

\* rollback(): the moved artifacts are deleted, last one first, and what was
\* moved aside is moved back.
Undo(i) ==
    /\ At(i, "undo")
    /\ LET k == importers[i]
           n == CHOOSE m \in ToRestore(k) : \A other \in ToRestore(k) : m <= other
       IN  \/ /\ k.step > 0
              /\ Put(k.run, Artifacts[k.step], None)
              /\ Become(i, [k EXCEPT !.step = @ - 1])
              /\ rows' = rows
           \/ /\ k.step = 0 /\ ToRestore(k) # {}
              /\ Put(k.run, Artifacts[n], k.backups[Artifacts[n]])
              /\ Become(i, [k EXCEPT !.backups[Artifacts[n]] = None])
              /\ rows' = rows
           \/ /\ k.step = 0 /\ ToRestore(k) = {}
              /\ rows' = [rows EXCEPT ![k.run] = None]
              /\ Become(i, [k EXCEPT !.pc = "discard"])
              /\ UNCHANGED artifacts
    /\ UNCHANGED <<retained, disturbed, database, membership, bounds>>

\* _safe_unlink and the except of the restore: a file that cannot be deleted or
\* moved back is logged, left as it is and forgotten.
UndoFails(i) ==
    /\ At(i, "undo")
    /\ events < MaxEvents /\ events' = events + 1
    /\ LET k == importers[i]
           n == CHOOSE m \in ToRestore(k) : \A other \in ToRestore(k) : m <= other
       IN  /\ disturbed' = disturbed \cup {k.run}
           /\ \/ /\ k.step > 0
                 /\ Become(i, [k EXCEPT !.alone = FALSE, !.step = @ - 1])
              \/ /\ k.step = 0 /\ ToRestore(k) # {}
                 /\ Become(i, [k EXCEPT !.alone = FALSE, !.backups[Artifacts[n]] = None])
    /\ UNCHANGED <<retained, rows, imports, artifacts, database, membership>>

\* Variant: the copy goes whoever created it.
NotKept(i) == FALSE

KeptAfterFailure(i) == retained /\ ~importers[i].created

\* The handler deletes the copy it created, if it can, and answers 500.
Discard(i) ==
    /\ At(i, "discard")
    /\ retained' \in {retained, KeptAfterFailure(i)}
    /\ Become(i, [Rests("failed") EXCEPT !.run = importers[i].run])
    /\ UNCHANGED <<rows, disturbed, artifacts, database, membership, bounds>>

\* The process dies: files and tables stay as they are.
Crash ==
    /\ events < MaxEvents /\ events' = events + 1
    /\ \E i \in Importers : importers[i].pc \notin Resting
    /\ disturbed' = disturbed \cup {r \in Runs : \E i \in Importers : Works(i, r)}
    /\ importers' = [i \in Importers |->
          IF importers[i].pc \in Resting THEN importers[i] ELSE Rests("lost")]
    /\ readers' = [x \in Readers |->
          IF readers[x].pc \in ReadStates THEN NoRead ELSE readers[x]]
    /\ editors' = [e \in Editors |-> NoEdit]
    /\ rows' = [r \in Runs |-> None]
    /\ UNCHANGED <<retained, files, ctime, imports, sessions, database>>

Edit ==
    /\ EditSessions
    /\ UNCHANGED <<retained, rows, importers, imports, disturbed, artifacts, database>>

Init ==
    /\ \E before \in Stored :
          /\ table = before.table
          /\ files = before.files
          /\ clock = before.clock
          /\ sessions = [s \in Sessions |-> [runs |-> before.lists, last |-> None]]
    /\ retained = FALSE
    /\ ctime = [r \in Runs |-> 0]
    /\ rows = [r \in Runs |-> None]
    /\ importers = [i \in Importers |-> Rests("idle")]
    /\ readers = [x \in Readers |-> NoRead]
    /\ editors = [e \in Editors |-> NoEdit]
    /\ imports = 0 /\ events = 0
    /\ disturbed = {}

Import(i) ==
    \/ Decode(i) \/ ChooseOwner(i) \/ Backup(i) \/ Place(i) \/ Invalidate(i)
    \/ Save(i) \/ Aliases(i) \/ SeeSessions(i) \/ Rebind(i) \/ Segments(i)
    \/ Fail(i) \/ FailRebind(i) \/ Undo(i) \/ UndoFails(i) \/ Discard(i)

Read(x) == Hash(x) \/ Sign(x) \/ Lookup(x) \/ ReadFile(x) \/ Admit(x)

Next ==
    \/ \E i \in Importers : Upload(i) \/ Import(i)
    \/ \E x \in Readers : ReadManifest(x) \/ Read(x)
    \/ Evict \/ Edit \/ Crash

Spec == Init /\ [][Next]_vars

-----------------------------------------------------------------------------
\* Every variable holds what it is declared to hold.
TypeOK ==
    /\ MembershipTypeOK
    /\ retained \in BOOLEAN
    /\ files \in [Runs -> [Names -> Version \cup {None}]]
    /\ table \in [Runs -> Row \cup {None}]
    /\ rows \in [Runs -> {None} \cup
          [signature : [path : Sources, ctime : Nat], rows : Version \cup {None}]]
    /\ \A i \in Importers :
          /\ importers[i].pc \in Resting \cup Promoting \cup Finishing
                                \cup {"decode", "owner", "discard"}
          /\ importers[i].run \in Runs
          /\ importers[i].backups \in [Names -> Version \cup {None}]
    /\ \A x \in Readers : readers[x].rows \in Version \cup {None}
    /\ disturbed \subseteq Runs

\* An import that fails is undone, and re-importing repairs: when no two imports of
\* a run overlapped, none died and none failed to move a file back, or one that was
\* alone has succeeded since, its artifacts are whole and are those of its row, and
\* its segments are of that row or missing, at whatever step imports failed.
QuietRunIsWhole ==
    \A r \in Runs \ disturbed :
        (\A i \in Importers : ~Works(i, r)) => Belongs(files[r], table[r])

\* An entry filed under the file that is in place holds the rows of that file,
\* also when the file was exchanged while it was read.
CurrentRowsAreExact ==
    \A r \in Runs : rows[r] # None /\ rows[r].signature = Signature(r) =>
        rows[r].rows = Preferred(files[r])

\* What a read answers was in place at some time during the read: no import,
\* rollback or crash lets it answer rows that were replaced before it began.
ReadIsOfItsTime ==
    \A x \in Readers : readers[x].pc = "answered" => readers[x].rows \in readers[x].during

\* A rebind that no edit overlapped leaves no alias in any session, and takes no
\* other run from it: "session membership converges on one recording owner".
RebindConverges ==
    [][\A i \in Importers :
          At(i, "rebind") /\ importers'[i].pc = "segments" /\ events' = events
             /\ importers[i].seen = sessions =>
                \A s \in Sessions : sessions[s] # None =>
                   /\ ~ListsAny(sessions'[s], importers[i].aliases)
                   /\ \A r \in Runs \ importers[i].aliases :
                         Lists(sessions[s], r) => Lists(sessions'[s], r)]_vars

\* "Atomically retain one uploaded source copy": while an import that created the
\* copy is under way the copy is there, whatever other imports of the file do, and
\* no other import created it.
CreatorsCopyIsThere ==
    \A i \in Importers : importers[i].created =>
        /\ retained
        /\ \A j \in Importers : importers[j].created => j = i

\* "A failed re-import leaves the previously promoted artifacts in place": what it
\* had moved aside is in place again when it lets go of it.
FailedImportRestores ==
    [][\A i \in Importers, a \in Names :
          /\ At(i, "undo") /\ importers'[i].pc = "undo"
          /\ importers[i].backups[a] # None /\ importers'[i].backups[a] = None
          => files'[importers[i].run][a] = importers[i].backups[a]]_vars

=============================================================================
