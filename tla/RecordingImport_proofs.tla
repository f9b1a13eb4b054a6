------------------------ MODULE RecordingImport_proofs ------------------------
(***************************************************************************)
(* For any runs, decoders, importers, readers and bounds, and whatever     *)
(* fails or dies: rows that the cache files under the file in place are    *)
(* the rows of that file; a read answers rows that were in place while it  *)
(* ran; the copy of the upload stays for the import that created it; a run *)
(* that no import is at work on has whole artifacts, those of its row; no  *)
(* session lists a run twice, and a rebinding leaves no alias in it.       *)
(*                                                                         *)
(* The cache is right because change times only grow: while the change     *)
(* time stands still a file can only go, so whoever carries the signature  *)
(* of what is in place has read what is in place (Filed), and two readers  *)
(* with one signature have seen one file (Shared).                         *)
(***************************************************************************)
EXTENDS RecordingImport, SessionMembership_proofs, TLAPS

ReaderFields == {"pc", "run", "source", "manifest", "signature", "rows", "during"}
Signed == {"lookup", "read", "admit"}

\* The tables of files, change times and entries, and what a reader holds.
CacheShape ==
    /\ DOMAIN files = Runs /\ \A r \in Runs : DOMAIN files[r] = Names
    /\ ctime \in [Runs -> Nat]
    /\ DOMAIN rows = Runs
    /\ DOMAIN readers = Readers
    /\ \A x \in Readers : DOMAIN readers[x] = ReaderFields /\ readers[x].run \in Runs

\* A signature taken at some time up to now, of the file that was preferred.
Past(s, r) ==
    /\ s.ctime \in Nat /\ s.ctime <= ctime[r]
    /\ s.ctime = ctime[r] /\ s.path = "alternate" => files[r]["cache"] = None

\* If it is the signature of what is in place, these are its rows.
Exact(s, version, r) == s = Signature(r) => version = Preferred(files[r])

Filed ==
    /\ \A r \in Runs : rows[r] # None =>
          /\ rows[r].signature # None
          /\ Past(rows[r].signature, r)
          /\ Exact(rows[r].signature, rows[r].rows, r)
    /\ \A x \in Readers : LET k == readers[x] IN
          k.signature # None =>
             /\ k.pc \in Signed => Past(k.signature, k.run)
             /\ k.pc = "admit" => Exact(k.signature, k.rows, k.run)

\* What a reader saw holds what its signature can lead it to.
Sees(x) ==
    LET k == readers[x]
    IN
       /\ k.pc \in ReadStates => Preferred(files[k.run]) \in k.during
       /\ k.pc \in {"admit", "answered"} => k.rows \in k.during
       /\ k.pc \in Signed =>
             /\ rows[k.run] # None /\ rows[k.run].signature = k.signature =>
                   rows[k.run].rows \in k.during
             /\ \A y \in Readers :
                   /\ readers[y].pc = "admit" /\ readers[y].run = k.run
                   /\ readers[y].signature = k.signature /\ k.signature # None
                   => readers[y].rows \in k.during

Shared == \A x \in Readers : Sees(x)

CacheInv == CacheShape /\ Filed /\ Shared

-----------------------------------------------------------------------------
(***************************************************************************)
(* What an action does to the cache and to the files.                      *)
(***************************************************************************)
cached == <<files, ctime, rows, readers>>

\* A move of one artifact of a run.
Moves == \E run, a, version : Put(run, a, version) /\ rows' = rows

\* The entry of a run is dropped, or of no run.
Drops == /\ \E r : rows' = [rows EXCEPT ![r] = None]
         /\ UNCHANGED <<files, ctime, readers>>

LEMMA NamesAre ==
    /\ Names = {"cache", "metadata", "manifest", "alternate"}
    /\ Sources \subseteq Names
  BY DEF Names, Artifacts, Sources

LEMMA ImportShape ==
    ASSUME NEW i, Upload(i) \/ Import(i)
    PROVE  UNCHANGED cached \/ Moves \/ Drops
  <1> USE DEF cached, artifacts
  <1>1. Upload(i) => UNCHANGED cached
    BY DEF Upload
  <1>2. Decode(i) \/ ChooseOwner(i) \/ Save(i) \/ Aliases(i) \/ SeeSessions(i) \/ Rebind(i)
           \/ Segments(i) \/ Fail(i) \/ FailRebind(i) \/ UndoFails(i) \/ Discard(i)
           => UNCHANGED cached
    BY DEF Decode, ChooseOwner, Save, Aliases, SeeSessions, Rebind, Segments, Fail,
           FailRebind, UndoFails, Discard
  <1>3. Backup(i) \/ Place(i) => Moves
    BY DEF Backup, Place, Moves
  <1>4. Invalidate(i) => Drops
    BY DEF Invalidate, Drops
  <1>5. Undo(i) => Moves \/ Drops
    BY DEF Undo, Moves, Drops
  <1> QED
    BY <1>1, <1>2, <1>3, <1>4, <1>5 DEF Import

-----------------------------------------------------------------------------
\* A move: what is filed stays right, and readers under way see the new file.
LEMMA MoveKeeps ==
    ASSUME CacheInv, Moves
    PROVE  CacheInv'
  <1> PICK run, a, version : Put(run, a, version) /\ rows' = rows
    BY DEF Moves
  <1> DEFINE moved == [files[run] EXCEPT ![a] = version]
             grows == version # None /\ a \in Sources
  <1>1. /\ files' = [files EXCEPT ![run] = moved]
        /\ ctime' = IF grows THEN [ctime EXCEPT ![run] = @ + 1] ELSE ctime
    BY DEF Put
  <1>2. \A x \in Readers :
           /\ DOMAIN readers'[x] = ReaderFields
           /\ readers'[x].pc = readers[x].pc /\ readers'[x].run = readers[x].run
           /\ readers'[x].signature = readers[x].signature
           /\ readers'[x].rows = readers[x].rows
           /\ readers'[x].during =
                 IF readers[x].pc \in ReadStates /\ readers[x].run = run
                 THEN readers[x].during \cup {Preferred(moved)} ELSE readers[x].during
    BY DEF Put, CacheInv, CacheShape, ReaderFields
  <1>3. DOMAIN readers' = Readers
    BY DEF Put
  <1>4. \A r \in Runs : files'[r] = IF r = run THEN moved ELSE files[r]
    BY <1>1 DEF CacheInv, CacheShape
  <1>5. \A r \in Runs : ctime'[r] = IF r = run /\ grows THEN ctime[r] + 1 ELSE ctime[r]
    BY <1>1 DEF CacheInv, CacheShape
  <1>6. CacheShape'
    <2>1. DOMAIN files' = Runs /\ \A r \in Runs : DOMAIN files'[r] = Names
      BY <1>1, <1>4 DEF CacheInv, CacheShape
    <2>2. ctime' \in [Runs -> Nat]
      <3>1. ctime \in [Runs -> Nat]
        BY DEF CacheInv, CacheShape
      <3>2. \A r \in Runs : ctime[r] + 1 \in Nat
        BY <3>1
      <3> HIDE DEF grows
      <3> QED
        BY <1>1, <3>1, <3>2
    <2>3. DOMAIN rows' = Runs
      BY DEF CacheInv, CacheShape
    <2>4. \A x \in Readers : DOMAIN readers'[x] = ReaderFields /\ readers'[x].run \in Runs
      BY <1>2 DEF CacheInv, CacheShape
    <2> QED
      BY <1>3, <2>1, <2>2, <2>3, <2>4 DEF CacheShape
  <1>7. \A r \in Runs :
           \/ ctime'[r] = ctime[r] + 1
           \/ /\ ctime'[r] = ctime[r]
              /\ \A b \in Sources : files'[r][b] \in {files[r][b], None}
    <2> SUFFICES ASSUME NEW r \in Runs, ~(r = run /\ grows), NEW b \in Sources
                 PROVE  files'[r][b] \in {files[r][b], None}
      BY <1>5
    <2>1. CASE r = run /\ b = a
      BY <2>1, <1>4, NamesAre DEF CacheInv, CacheShape
    <2>2. CASE r = run /\ b # a
      BY <2>2, <1>4, NamesAre DEF CacheInv, CacheShape
    <2> QED
      BY <2>1, <2>2, <1>4
  <1>8. \A r \in Runs : \A s : Past(s, r) => Past(s, r)'
    BY <1>7 DEF Past, CacheInv, CacheShape, Sources
  <1>9. ASSUME NEW r \in Runs, NEW s, NEW v, s # None, Past(s, r), Exact(s, v, r)
        PROVE  Exact(s, v, r)'
    <2> SUFFICES ASSUME s = Signature(r)' PROVE v = Preferred(files'[r])
      BY DEF Exact
    <2>1. Preferred(files'[r]) # None /\ s.ctime = ctime'[r]
          /\ s.path = IF files'[r]["cache"] # None THEN "cache" ELSE "alternate"
      BY <1>9 DEF Signature
    <2>2. /\ ctime'[r] = ctime[r]
          /\ \A b \in Sources : files'[r][b] \in {files[r][b], None}
      BY <2>1, <1>7, <1>9 DEF Past, CacheInv, CacheShape
    <2>3. Preferred(files'[r]) = Preferred(files[r])
          /\ s.path = IF files[r]["cache"] # None THEN "cache" ELSE "alternate"
      BY <2>1, <2>2, <1>9 DEF Past, Preferred, Sources
    <2>4. s = Signature(r)
      BY <2>1, <2>2, <2>3 DEF Signature
    <2> QED
      BY <2>3, <2>4, <1>9 DEF Exact
  <1>10. Filed'
    <2>1. ASSUME NEW r \in Runs, rows'[r] # None
          PROVE  /\ rows'[r].signature # None
                 /\ Past(rows[r].signature, r)'
                 /\ Exact(rows[r].signature, rows[r].rows, r)'
      BY <2>1, <1>8, <1>9 DEF CacheInv, Filed
    <2>2. ASSUME NEW x \in Readers, NEW s, NEW v, NEW r,
                 s = readers[x].signature, v = readers[x].rows, r = readers[x].run,
                 s # None
          PROVE  /\ readers[x].pc \in Signed => Past(s, r)'
                 /\ readers[x].pc = "admit" => Exact(s, v, r)'
      BY <2>2, <1>8, <1>9 DEF CacheInv, CacheShape, Filed, Signed
    <2>3. ASSUME NEW x \in Readers, readers'[x].signature # None
          PROVE  /\ readers'[x].pc \in Signed =>
                        Past(readers[x].signature, readers[x].run)'
                 /\ readers'[x].pc = "admit" =>
                        Exact(readers[x].signature, readers[x].rows, readers[x].run)'
      <3> PICK s, v, r : s = readers[x].signature /\ v = readers[x].rows /\ r = readers[x].run
        OBVIOUS
      <3>1. s = readers'[x].signature /\ v = readers'[x].rows /\ r = readers'[x].run
        BY <1>2
      <3>2. readers'[x].pc = readers[x].pc /\ s # None
        BY <1>2, <2>3, <3>1
      <3>3. /\ readers'[x].pc \in Signed => Past(s, r)'
            /\ readers'[x].pc = "admit" => Exact(s, v, r)'
        BY <2>2, <3>2
      <3> QED
        BY <3>1, <3>3 DEF Past, Exact, Signature
    <2> QED
      BY <2>1, <2>3 DEF Filed
  <1>11. Shared'
    <2> SUFFICES ASSUME NEW x \in Readers PROVE Sees(x)'
      BY DEF Shared
    <2>1. readers[x].run \in Runs /\ Sees(x)
      BY DEF CacheInv, CacheShape, Shared
    <2>2. readers[x].pc \in ReadStates => Preferred(files'[readers[x].run]) \in readers'[x].during
      BY <1>2, <1>4, <2>1 DEF Sees
    <2>3. readers[x].during \subseteq readers'[x].during
      BY <1>2
    <2> QED
      BY <1>2, <2>1, <2>2, <2>3 DEF Sees
  <1> QED
    BY <1>6, <1>10, <1>11 DEF CacheInv

\* An entry that is dropped can mislead nobody.
LEMMA DropKeeps ==
    ASSUME CacheInv, Drops
    PROVE  CacheInv'
  <1>1. UNCHANGED <<files, ctime, readers>> /\ DOMAIN rows' = Runs
    BY DEF Drops, CacheInv, CacheShape
  <1>2. \A r \in Runs : rows'[r] # None => rows'[r] = rows[r]
    BY DEF Drops, CacheInv, CacheShape
  <1>3. \A x \in Readers : readers[x].run \in Runs
    BY DEF CacheInv, CacheShape
  <1> QED
    BY <1>1, <1>2, <1>3 DEF CacheInv, CacheShape, Filed, Past, Exact, Signature, Shared, Sees

LEMMA StayKeeps ==
    ASSUME CacheInv, UNCHANGED cached
    PROVE  CacheInv'
  BY DEF cached, CacheInv, CacheShape, Filed, Past, Exact, Signature, Shared, Sees

-----------------------------------------------------------------------------
(***************************************************************************)
(* A step of one reader.  Files and change times stand still.              *)
(***************************************************************************)
\* What is asked of the reader that moved, beside what is asked of all.
LEMMA ReaderMoves ==
    ASSUME CacheInv, NEW x \in Readers, NEW k,
           UNCHANGED <<files, ctime>>, DOMAIN rows' = Runs,
           Reader(x, k), DOMAIN k = ReaderFields, k.run \in Runs,
           k.signature # None =>
              /\ k.pc \in Signed => Past(k.signature, k.run)
              /\ k.pc = "admit" => Exact(k.signature, k.rows, k.run),
           \A r \in Runs : rows'[r] # None =>
              \/ rows'[r] = rows[r]
              \/ /\ readers[x].pc = "admit" /\ readers[x].signature # None
                 /\ r = readers[x].run
                 /\ rows'[r].signature = readers[x].signature
                 /\ rows'[r].rows = readers[x].rows,
           k.pc = "admit" =>
              \A y \in Readers : y # x /\ readers[y].pc \in Signed /\ readers[y].run = k.run
                    /\ readers[y].signature = k.signature /\ k.signature # None
                 => k.rows \in readers[y].during,
           Sees(x)'
    PROVE  CacheInv'
  <1>1. DOMAIN readers' = Readers
        /\ \A y \in Readers : readers'[y] = IF y = x THEN k ELSE readers[y]
    BY DEF Reader, CacheInv, CacheShape
  <1>2. CacheShape'
    BY <1>1 DEF CacheInv, CacheShape
  <1>3. \A r \in Runs : rows'[r] # None =>
          /\ rows'[r].signature # None
          /\ Past(rows'[r].signature, r)
          /\ Exact(rows'[r].signature, rows'[r].rows, r)
    BY DEF CacheInv, Filed, Signed
  <1>4. Filed'
    BY <1>1, <1>3 DEF CacheInv, Filed, Past, Exact, Signature
  <1>5. ASSUME NEW y \in Readers, y # x PROVE Sees(y)'
    <2>1. Sees(y) /\ readers'[y] = readers[y] /\ readers[y].run \in Runs
      BY <1>1, <1>5 DEF CacheInv, CacheShape, Shared
    <2>2. \A z \in Readers : z # x => readers'[z] = readers[z]
      BY <1>1
    <2>3. readers[y].pc \in Signed /\ rows'[readers[y].run] # None
             /\ rows'[readers[y].run].signature = readers[y].signature =>
                rows'[readers[y].run].rows \in readers[y].during
      BY <2>1 DEF Sees
    <2>4. readers[y].pc \in Signed =>
             \A z \in Readers :
                /\ readers'[z].pc = "admit" /\ readers'[z].run = readers[y].run
                /\ readers'[z].signature = readers[y].signature
                /\ readers[y].signature # None
                => readers'[z].rows \in readers[y].during
      BY <1>1, <1>5, <2>1 DEF Sees
    <2> QED
      BY <2>1, <2>3, <2>4 DEF Sees
  <1> QED
    BY <1>2, <1>4, <1>5 DEF CacheInv, Shared

\* Before it signs a reader holds nothing that could be wrong.
LEMMA UnsignedKeeps ==
    ASSUME CacheInv, NEW x \in Readers, NEW k,
           UNCHANGED <<files, ctime, rows>>,
           Reader(x, k), DOMAIN k = ReaderFields, k.run \in Runs,
           k.pc \notin Signed, k.pc # "answered",
           k.pc \in ReadStates => Preferred(files[k.run]) \in k.during
    PROVE  CacheInv'
  <1>1. readers'[x] = k
    BY DEF Reader, CacheInv, CacheShape
  <1>2. Sees(x)'
    BY <1>1 DEF Sees, Signed
  <1>3. DOMAIN rows' = Runs
    BY DEF CacheInv, CacheShape
  <1> QED
    BY <1>2, <1>3, ReaderMoves DEF Signed

LEMMA ReadManifestKeeps ==
    ASSUME CacheInv, NEW x \in Readers, ReadManifest(x)
    PROVE  CacheInv'
  <1> PICK run \in Held : LET present == {a \in Sources : InPlace(run, a) # None}
              start == [NoRead EXCEPT !.run = run, !.manifest = InPlace(run, "manifest"),
                           !.during = {Preferred(files[run])}]
          IN  Reader(x, IF Cardinality(present) = 1 /\ InPlace(run, "manifest") # None
                        THEN [start EXCEPT !.pc = "hash",
                                           !.source = CHOOSE a \in present : TRUE]
                        ELSE Refused)
    BY DEF ReadManifest
  <1> DEFINE present == {a \in Sources : InPlace(run, a) # None}
             start == [NoRead EXCEPT !.run = run, !.manifest = InPlace(run, "manifest"),
                          !.during = {Preferred(files[run])}]
             k == [start EXCEPT !.pc = "hash", !.source = CHOOSE a \in present : TRUE]
  <1>1. Reader(x, k) \/ Reader(x, Refused)
    OBVIOUS
  <1>2. UNCHANGED <<files, ctime, rows>> /\ run \in Runs
    BY DEF ReadManifest, Held
  <1>3. DOMAIN k = ReaderFields /\ k.run = run /\ k.pc = "hash"
        /\ k.during = {Preferred(files[run])}
    BY DEF NoRead, ReaderFields
  <1>4. DOMAIN Refused = ReaderFields /\ Refused.run = Canonical /\ Refused.pc = "refused"
    BY DEF NoRead, ReaderFields, Refused
  <1> HIDE DEF k
  <1>5. CASE Reader(x, k)
    BY <1>2, <1>3, <1>5, UnsignedKeeps DEF Signed
  <1>6. CASE Reader(x, Refused)
    BY <1>2, <1>4, <1>6, UnsignedKeeps, ImportAssumption DEF Signed, ReadStates
  <1> QED
    BY <1>1, <1>5, <1>6

LEMMA HashKeeps ==
    ASSUME CacheInv, NEW x \in Readers, Hash(x)
    PROVE  CacheInv'
  <1> DEFINE k == [readers[x] EXCEPT !.pc = "sign"]
  <1>1. (Reader(x, k) \/ Reader(x, Refused)) /\ UNCHANGED <<files, ctime, rows>>
    BY DEF Hash
  <1>2. Sees(x) /\ readers[x].pc = "hash" /\ DOMAIN readers[x] = ReaderFields
        /\ readers[x].run \in Runs
    BY DEF Hash, CacheInv, CacheShape, Shared
  <1>3. DOMAIN k = ReaderFields /\ k.run = readers[x].run /\ k.pc = "sign"
        /\ k.during = readers[x].during
    BY <1>2 DEF ReaderFields
  <1>4. DOMAIN Refused = ReaderFields /\ Refused.run = Canonical /\ Refused.pc = "refused"
    BY DEF NoRead, ReaderFields, Refused
  <1>5. Preferred(files[readers[x].run]) \in readers[x].during
    BY <1>2 DEF Sees, ReadStates
  <1> HIDE DEF k
  <1>6. CASE Reader(x, k)
    BY <1>1, <1>2, <1>3, <1>5, <1>6, UnsignedKeeps DEF Signed
  <1>7. CASE Reader(x, Refused)
    BY <1>1, <1>4, <1>7, UnsignedKeeps, ImportAssumption DEF Signed, ReadStates
  <1> QED
    BY <1>1, <1>6, <1>7

\* Whoever carries this signature already read what is in place now.
LEMMA SignKeeps ==
    ASSUME CacheInv, NEW x \in Readers, Sign(x)
    PROVE  CacheInv'
  <1> DEFINE r == readers[x].run
             k == [readers[x] EXCEPT !.pc = "lookup", !.signature = Signature(r)]
  <1>1. Reader(x, k) /\ UNCHANGED <<files, ctime, rows>>
    BY DEF Sign
  <1>2. Sees(x) /\ readers[x].pc = "sign" /\ DOMAIN readers[x] = ReaderFields /\ r \in Runs
    BY DEF Sign, CacheInv, CacheShape, Shared
  <1>3. DOMAIN k = ReaderFields /\ k.run = r /\ k.pc = "lookup"
        /\ k.during = readers[x].during /\ k.signature = Signature(r)
    BY <1>2 DEF ReaderFields
  <1>4. Preferred(files[r]) \in readers[x].during
    BY <1>2 DEF Sees, ReadStates
  <1>5. Signature(r) # None => Past(Signature(r), r)
    BY <1>2 DEF Signature, Past, CacheInv, CacheShape
  <1>6. DOMAIN readers' = Readers
        /\ \A y \in Readers : readers'[y] = IF y = x THEN k ELSE readers[y]
    BY <1>1 DEF Reader, CacheInv, CacheShape
  <1> HIDE DEF k
  <1>7. rows[r] # None /\ rows[r].signature = Signature(r) => rows[r].rows = Preferred(files[r])
    BY <1>2 DEF CacheInv, Filed, Exact
  <1>8. \A y \in Readers : readers[y].pc = "admit" /\ readers[y].run = r
            /\ readers[y].signature = Signature(r) /\ Signature(r) # None
            => readers[y].rows = Preferred(files[r])
    BY DEF CacheInv, Filed, Exact
  <1>9. Sees(x)'
    BY <1>1, <1>3, <1>4, <1>6, <1>7, <1>8 DEF Sees, ReadStates
  <1>10. DOMAIN rows' = Runs
    BY <1>1 DEF CacheInv, CacheShape
  <1> QED
    BY <1>1, <1>2, <1>3, <1>5, <1>9, <1>10, ReaderMoves

LEMMA LookupKeeps ==
    ASSUME CacheInv, NEW x \in Readers, Lookup(x)
    PROVE  CacheInv'
  <1> DEFINE r == readers[x].run
             hit == Answer(readers[x], rows[r].rows)
             miss == [readers[x] EXCEPT !.pc = "read"]
  <1>1. UNCHANGED <<files, ctime>>
        /\ \/ Current(readers[x]) /\ Reader(x, hit) /\ rows' = rows
           \/ Reader(x, miss) /\ rows' = [rows EXCEPT ![r] = None]
    BY DEF Lookup
  <1>2. Sees(x) /\ readers[x].pc = "lookup" /\ DOMAIN readers[x] = ReaderFields /\ r \in Runs
    BY DEF Lookup, CacheInv, CacheShape, Shared
  <1>3. DOMAIN hit = ReaderFields /\ hit.run = Canonical /\ hit.pc = "answered"
        /\ hit.rows = rows[r].rows /\ hit.during = readers[x].during
    BY DEF Answer, NoRead, ReaderFields
  <1>4. DOMAIN miss = ReaderFields /\ miss.run = r /\ miss.pc = "read"
        /\ miss.during = readers[x].during /\ miss.signature = readers[x].signature
    BY <1>2 DEF ReaderFields
  <1>5. DOMAIN readers' = Readers
        /\ \A k : Reader(x, k) =>
              \A y \in Readers : readers'[y] = IF y = x THEN k ELSE readers[y]
    BY <1>1 DEF Reader, CacheInv, CacheShape
  <1>6. DOMAIN rows' = Runs /\ \A q \in Runs : rows'[q] # None => rows'[q] = rows[q]
    BY <1>1 DEF CacheInv, CacheShape
  <1> HIDE DEF hit, miss
  <1>7. CASE Current(readers[x]) /\ Reader(x, hit) /\ rows' = rows
    <2>1. rows[r].rows \in readers[x].during
      BY <1>2, <1>7 DEF Sees, Current, Signed
    <2>2. Sees(x)'
      BY <1>3, <1>5, <1>7, <2>1 DEF Sees, ReadStates, Signed
    <2>3. hit.pc \notin Signed
      BY <1>3 DEF Signed
    <2> QED
      BY <1>1, <1>3, <1>6, <1>7, <2>2, <2>3, ImportAssumption, ReaderMoves
  <1>8. CASE Reader(x, miss) /\ rows' = [rows EXCEPT ![r] = None]
    <2>1. rows'[r] = None
      BY <1>2, <1>8 DEF CacheInv, CacheShape
    <2>2. \A y \in Readers : readers'[y].pc = "admit" => readers'[y] = readers[y]
      BY <1>4, <1>5, <1>8
    <2>3. Sees(x)'
      BY <1>1, <1>2, <1>4, <1>5, <1>8, <2>1, <2>2 DEF Sees, ReadStates, Signed
    <2>4. miss.signature # None => Past(miss.signature, miss.run)
      BY <1>2, <1>4 DEF CacheInv, Filed, Signed
    <2> QED
      BY <1>1, <1>2, <1>4, <1>6, <1>8, <2>3, <2>4, ReaderMoves
  <1> QED
    BY <1>1, <1>7, <1>8

\* What is read is in place: it is in what every reader of the run saw.
LEMMA ReadFileKeeps ==
    ASSUME CacheInv, NEW x \in Readers, ReadFile(x)
    PROVE  CacheInv'
  <1> DEFINE r == readers[x].run
             k == [readers[x] EXCEPT !.pc = "admit", !.rows = Preferred(files[r])]
  <1>1. Reader(x, k) /\ UNCHANGED <<files, ctime, rows>>
    BY DEF ReadFile
  <1>2. Sees(x) /\ readers[x].pc = "read" /\ DOMAIN readers[x] = ReaderFields /\ r \in Runs
    BY DEF ReadFile, CacheInv, CacheShape, Shared
  <1>3. DOMAIN k = ReaderFields /\ k.run = r /\ k.pc = "admit" /\ k.rows = Preferred(files[r])
        /\ k.during = readers[x].during /\ k.signature = readers[x].signature
    BY <1>2 DEF ReaderFields
  <1>4. DOMAIN readers' = Readers
        /\ \A y \in Readers : readers'[y] = IF y = x THEN k ELSE readers[y]
    BY <1>1 DEF Reader, CacheInv, CacheShape
  <1> HIDE DEF k
  <1>5. \A y \in Readers : readers[y].pc \in Signed /\ readers[y].run = r =>
           Preferred(files[r]) \in readers[y].during
    BY DEF CacheInv, Shared, Sees, Signed, ReadStates
  <1>6. Preferred(files[r]) \in readers[x].during
    BY <1>2, <1>5 DEF Signed
  <1>7. k.signature # None => Past(k.signature, r) /\ Exact(k.signature, k.rows, r)
    BY <1>2, <1>3 DEF CacheInv, Filed, Signed, Exact
  <1>8. Sees(x)'
    BY <1>1, <1>2, <1>3, <1>4, <1>6 DEF Sees, ReadStates, Signed
  <1>9. DOMAIN rows' = Runs
    BY <1>1 DEF CacheInv, CacheShape
  <1> QED
    BY <1>1, <1>2, <1>3, <1>5, <1>7, <1>8, <1>9, ReaderMoves

LEMMA AdmitKeeps ==
    ASSUME CacheInv, NEW x \in Readers, Admit(x)
    PROVE  CacheInv'
  <1> DEFINE r == readers[x].run
             k == Answer(readers[x], readers[x].rows)
  <1>1. /\ Reader(x, k) /\ UNCHANGED <<files, ctime>>
        /\ \/ rows' = rows
           \/ readers[x].signature # None /\ rows' = [rows EXCEPT ![r] = Entry(readers[x])]
    BY DEF Admit
  <1>2. Sees(x) /\ readers[x].pc = "admit" /\ DOMAIN readers[x] = ReaderFields /\ r \in Runs
    BY DEF Admit, CacheInv, CacheShape, Shared
  <1>3. DOMAIN k = ReaderFields /\ k.run = Canonical /\ k.pc = "answered"
        /\ k.rows = readers[x].rows /\ k.during = readers[x].during
    BY DEF Answer, NoRead, ReaderFields
  <1>4. readers'[x] = k
    BY <1>1 DEF Reader, CacheInv, CacheShape
  <1> HIDE DEF k
  <1>5. DOMAIN rows' = Runs
    BY <1>1 DEF CacheInv, CacheShape
  <1>6. \A q \in Runs : rows'[q] # None =>
           \/ rows'[q] = rows[q]
           \/ /\ readers[x].signature # None /\ q = r
              /\ rows'[q].signature = readers[x].signature
              /\ rows'[q].rows = readers[x].rows
    BY <1>1 DEF CacheInv, CacheShape, Entry
  <1>7. Sees(x)'
    BY <1>2, <1>3, <1>4 DEF Sees, ReadStates, Signed
  <1>8. k.pc \notin Signed
    BY <1>3 DEF Signed
  <1> QED
    BY <1>1, <1>2, <1>3, <1>5, <1>6, <1>7, <1>8, ImportAssumption, ReaderMoves

-----------------------------------------------------------------------------
\* The process that dies takes the cache and the readers with it.
LEMMA CrashKeeps ==
    ASSUME CacheInv, Crash
    PROVE  CacheInv'
  <1>1. /\ UNCHANGED <<files, ctime>> /\ rows' = [q \in Runs |-> None]
        /\ readers' = [x \in Readers |->
              IF readers[x].pc \in ReadStates THEN NoRead ELSE readers[x]]
    BY DEF Crash
  <1>2. DOMAIN NoRead = ReaderFields /\ NoRead.run = Canonical /\ NoRead.pc = "idle"
    BY DEF NoRead, ReaderFields
  <1>3. \A x \in Readers : readers'[x].pc \notin ReadStates
           /\ (readers'[x].pc # "idle" => readers'[x] = readers[x])
    BY <1>1, <1>2 DEF ReadStates
  <1>4. CacheShape'
    BY <1>1, <1>2, ImportAssumption DEF CacheInv, CacheShape
  <1>5. Filed'
    BY <1>1, <1>3 DEF Filed, ReadStates, Signed
  <1>6. ASSUME NEW x \in Readers PROVE Sees(x)'
    BY <1>3 DEF CacheInv, Shared, Sees, Signed, ReadStates
  <1> QED
    BY <1>4, <1>5, <1>6 DEF CacheInv, Shared

LEMMA CacheInit ==
    ASSUME Init
    PROVE  CacheInv
  <1>1. DOMAIN NoRead = ReaderFields /\ NoRead.run = Canonical /\ NoRead.pc = "idle"
    BY DEF NoRead, ReaderFields
  <1>2. files \in [Runs -> [Names -> Version \cup {None}]]
    BY StoredAssumption DEF Init
  <1>3. /\ ctime = [r \in Runs |-> 0] /\ rows = [r \in Runs |-> None]
        /\ readers = [x \in Readers |-> NoRead]
    BY DEF Init
  <1>4. CacheShape
    BY <1>1, <1>2, <1>3, ImportAssumption DEF CacheShape
  <1>5. Filed /\ Shared
    BY <1>1, <1>3 DEF Filed, Shared, Sees, Signed, ReadStates
  <1> QED
    BY <1>4, <1>5 DEF CacheInv

LEMMA CacheStep ==
    ASSUME CacheInv, [Next]_vars
    PROVE  CacheInv'
  <1>1. ASSUME NEW i \in Importers, Upload(i) \/ Import(i) PROVE CacheInv'
    BY <1>1, ImportShape, MoveKeeps, DropKeeps, StayKeeps
  <1>2. ASSUME NEW x \in Readers, ReadManifest(x) \/ Read(x) PROVE CacheInv'
    BY <1>2, ReadManifestKeeps, HashKeeps, SignKeeps, LookupKeeps, ReadFileKeeps, AdmitKeeps
       DEF Read
  <1>3. CASE Evict
    BY <1>3, DropKeeps DEF Evict, Drops, artifacts
  <1>4. CASE Edit
    BY <1>4, StayKeeps DEF Edit, cached, artifacts
  <1>5. CASE Crash
    BY <1>5, CrashKeeps
  <1>6. CASE UNCHANGED vars
    BY <1>6, StayKeeps DEF vars, cached
  <1> QED
    BY <1>1, <1>2, <1>3, <1>4, <1>5, <1>6 DEF Next

\* "An entry filed under the file that is in place holds the rows of that file":
\* read_telemetry_rows admits what it read under the signature it took before.
THEOREM EntriesAreExact == Spec => []CurrentRowsAreExact
  <1>1. Init => CacheInv
    BY CacheInit
  <1>2. CacheInv /\ [Next]_vars => CacheInv'
    BY CacheStep
  <1>3. CacheInv => CurrentRowsAreExact
    BY DEF CacheInv, Filed, Exact, CurrentRowsAreExact
  <1> QED
    BY <1>1, <1>2, <1>3, PTL DEF Spec

\* A read answers what was in place at some time while it ran, also when it is
\* answered from the cache.
THEOREM ReadsAreOfTheirTime == Spec => []ReadIsOfItsTime
  <1>1. Init => CacheInv
    BY CacheInit
  <1>2. CacheInv /\ [Next]_vars => CacheInv'
    BY CacheStep
  <1>3. CacheInv => ReadIsOfItsTime
    BY DEF CacheInv, Shared, Sees, ReadIsOfItsTime
  <1> QED
    BY <1>1, <1>2, <1>3, PTL DEF Spec

-----------------------------------------------------------------------------
(***************************************************************************)
(* Imports.                                                                *)
(***************************************************************************)
ImporterFields ==
    {"pc", "run", "version", "step", "backups", "created", "alone", "aliases", "seen"}
Working(k) == k.pc \in Promoting \cup Finishing

-----------------------------------------------------------------------------
\* The copy of the upload.
Copy ==
    /\ DOMAIN importers = Importers
    /\ \A i \in Importers : DOMAIN importers[i] = ImporterFields
    /\ CreatorsCopyIsThere

\* An importer goes on, or rests and has created nothing.
LEMMA CopyStays ==
    ASSUME Copy, NEW i \in Importers, NEW k, Become(i, k), DOMAIN k = ImporterFields,
           k.created \in {importers[i].created, FALSE}, UNCHANGED retained
    PROVE  Copy'
  <1>1. DOMAIN importers' = Importers
        /\ \A j \in Importers : importers'[j] = IF j = i THEN k ELSE importers[j]
    BY DEF Become, Copy
  <1> QED
    BY <1>1 DEF Copy, CreatorsCopyIsThere

LEMMA CopyStep ==
    ASSUME Copy, [Next]_vars
    PROVE  Copy'
  <1>1. ASSUME NEW i \in Importers, Upload(i) PROVE Copy'
    <2>1. PICK d \in Decodings :
             Become(i, [Rests("decode") EXCEPT
                        !.created = ~retained,
                        !.version = [id |-> imports + 1, decoding |-> d]])
      BY <1>1 DEF Upload
    <2> DEFINE k == [Rests("decode") EXCEPT
                        !.created = ~retained,
                        !.version = [id |-> imports + 1, decoding |-> d]]
    <2>2. DOMAIN k = ImporterFields /\ k.created = ~retained
      BY DEF Rests, ImporterFields
    <2> HIDE DEF k
    <2>3. DOMAIN importers' = Importers
          /\ \A j \in Importers : importers'[j] = IF j = i THEN k ELSE importers[j]
      BY <2>1 DEF Become, Copy, k
    <2>4. retained' = TRUE
      BY <1>1 DEF Upload
    <2> QED
      BY <2>2, <2>3, <2>4 DEF Copy, CreatorsCopyIsThere
  <1>2. ASSUME NEW i \in Importers, ChooseOwner(i) PROVE Copy'
    <2>1. PICK owner \in Owners :
             LET others == {j \in Importers : Works(j, owner)}
             IN  importers' = [j \in Importers |->
                    IF j = i THEN [importers[i] EXCEPT !.pc = "backup", !.run = owner,
                                       !.step = 1, !.alone = (others = {})]
                    ELSE IF j \in others THEN [importers[j] EXCEPT !.alone = FALSE]
                    ELSE importers[j]]
      BY <1>2 DEF ChooseOwner
    <2>2. /\ DOMAIN importers' = Importers
          /\ \A j \in Importers : DOMAIN importers'[j] = ImporterFields
          /\ \A j \in Importers : importers'[j].created = importers[j].created
      BY <2>1 DEF Copy, ImporterFields
    <2> QED
      BY <1>2, <2>2 DEF ChooseOwner, Copy, CreatorsCopyIsThere
  <1>3. ASSUME NEW i \in Importers, Discard(i) PROVE Copy'
    <2> DEFINE k == [Rests("failed") EXCEPT !.run = importers[i].run]
    <2>1. DOMAIN k = ImporterFields /\ k.created = FALSE
      BY DEF Rests, ImporterFields
    <2> HIDE DEF k
    <2>2. DOMAIN importers' = Importers
          /\ \A j \in Importers : importers'[j] = IF j = i THEN k ELSE importers[j]
      BY <1>3 DEF Discard, Become, Copy, k
    <2>3. retained' \in {retained, retained /\ ~importers[i].created}
      BY <1>3 DEF Discard, KeptAfterFailure
    <2> QED
      BY <2>1, <2>2, <2>3 DEF Copy, CreatorsCopyIsThere
  <1>4. ASSUME NEW i \in Importers, Decode(i) PROVE Copy'
    <2> DEFINE k == [importers[i] EXCEPT !.pc = IF retained THEN "owner" ELSE "discard"]
    <2>1. DOMAIN k = ImporterFields /\ k.created = importers[i].created
      BY DEF Copy, ImporterFields
    <2> DEFINE none == Rests("unreadable")
    <2>2. DOMAIN none = ImporterFields /\ none.created = FALSE
      BY DEF Rests, ImporterFields
    <2>3. (Become(i, k) \/ Become(i, none)) /\ UNCHANGED retained
      BY <1>4 DEF Decode
    <2> HIDE DEF k, none
    <2> QED
      BY <2>1, <2>2, <2>3, CopyStays
  <1>5. ASSUME NEW i \in Importers, Backup(i) PROVE Copy'
    <2> DEFINE k == importers[i]
               next == IF k.step = Len(Artifacts) THEN [k EXCEPT !.pc = "place", !.step = 1]
                       ELSE [k EXCEPT !.step = @ + 1]
               after == [next EXCEPT !.backups[Artifacts[k.step]] =
                                        files[k.run][Artifacts[k.step]]]
    <2>1. DOMAIN next = ImporterFields /\ next.created = importers[i].created
      BY DEF Copy, ImporterFields
    <2>2. Become(i, after) /\ UNCHANGED retained
      BY <1>5 DEF Backup
    <2> HIDE DEF next
    <2>3. DOMAIN after = ImporterFields /\ after.created = importers[i].created
      BY <2>1 DEF ImporterFields
    <2> HIDE DEF after
    <2> QED
      BY <2>2, <2>3, CopyStays
  <1>6. ASSUME NEW i \in Importers, Place(i) PROVE Copy'
    <2> DEFINE k == [importers[i] EXCEPT !.step = @ + 1,
                      !.pc = IF importers[i].step = Moved THEN "invalidate" ELSE "place"]
    <2>1. DOMAIN k = ImporterFields /\ k.created = importers[i].created
      BY DEF Copy, ImporterFields
    <2>2. Become(i, k) /\ UNCHANGED retained
      BY <1>6 DEF Place
    <2> HIDE DEF k
    <2> QED
      BY <2>1, <2>2, CopyStays
  <1>7. ASSUME NEW i \in Importers, Invalidate(i) PROVE Copy'
    <2> DEFINE k == [importers[i] EXCEPT !.pc = "save"]
    <2>1. DOMAIN k = ImporterFields /\ k.created = importers[i].created
      BY DEF Copy, ImporterFields
    <2>2. Become(i, k) /\ UNCHANGED retained
      BY <1>7 DEF Invalidate
    <2> HIDE DEF k
    <2> QED
      BY <2>1, <2>2, CopyStays
  <1>8. ASSUME NEW i \in Importers, Save(i) PROVE Copy'
    <2> DEFINE k == [importers[i] EXCEPT !.pc = "aliases", !.backups = Nothing, !.step = 0]
    <2>1. DOMAIN k = ImporterFields /\ k.created = importers[i].created
      BY DEF Copy, ImporterFields
    <2>2. Become(i, k) /\ UNCHANGED retained
      BY <1>8 DEF Save
    <2> HIDE DEF k
    <2> QED
      BY <2>1, <2>2, CopyStays
  <1>9. ASSUME NEW i \in Importers, Aliases(i) PROVE Copy'
    <2> DEFINE k == [importers[i] EXCEPT !.aliases = Held \ {importers[i].run},
                      !.pc = IF Held \ {importers[i].run} = {} THEN "segments"
                             ELSE "sessions"]
    <2>1. DOMAIN k = ImporterFields /\ k.created = importers[i].created
      BY DEF Copy, ImporterFields
    <2>2. Become(i, k) /\ UNCHANGED retained
      BY <1>9 DEF Aliases
    <2> HIDE DEF k
    <2> QED
      BY <2>1, <2>2, CopyStays
  <1>10. ASSUME NEW i \in Importers, SeeSessions(i) PROVE Copy'
    <2> DEFINE k == [importers[i] EXCEPT !.pc = "rebind", !.seen = sessions]
    <2>1. DOMAIN k = ImporterFields /\ k.created = importers[i].created
      BY DEF Copy, ImporterFields
    <2>2. Become(i, k) /\ UNCHANGED retained
      BY <1>10 DEF SeeSessions
    <2> HIDE DEF k
    <2> QED
      BY <2>1, <2>2, CopyStays
  <1>11. ASSUME NEW i \in Importers, Rebind(i) PROVE Copy'
    <2> DEFINE k == [importers[i] EXCEPT !.pc = "segments"]
    <2>1. DOMAIN k = ImporterFields /\ k.created = importers[i].created
      BY DEF Copy, ImporterFields
    <2>2. Become(i, k) /\ UNCHANGED retained
      BY <1>11 DEF Rebind
    <2> HIDE DEF k
    <2> QED
      BY <2>1, <2>2, CopyStays
  <1>12. ASSUME NEW i \in Importers, Segments(i) PROVE Copy'
    <2> DEFINE k == [Rests("ok") EXCEPT !.run = importers[i].run]
    <2>1. DOMAIN k = ImporterFields /\ k.created = FALSE
      BY DEF Rests, ImporterFields
    <2>2. Become(i, k) /\ UNCHANGED retained
      BY <1>12 DEF Segments
    <2> HIDE DEF k
    <2> QED
      BY <2>1, <2>2, CopyStays
  <1>13. ASSUME NEW i \in Importers, Fail(i) PROVE Copy'
    <2>1. PICK pc, step : Become(i, [importers[i] EXCEPT !.pc = pc, !.step = step])
                          \/ Become(i, [importers[i] EXCEPT !.pc = pc])
      BY <1>13 DEF Fail
    <2> DEFINE k == [importers[i] EXCEPT !.pc = pc, !.step = step]
               other == [importers[i] EXCEPT !.pc = pc]
    <2>2. DOMAIN k = ImporterFields /\ k.created = importers[i].created
      BY DEF Copy, ImporterFields
    <2>3. DOMAIN other = ImporterFields /\ other.created = importers[i].created
      BY DEF Copy, ImporterFields
    <2>4. UNCHANGED retained
      BY <1>13 DEF Fail
    <2> HIDE DEF k, other
    <2> QED
      BY <2>1, <2>2, <2>3, <2>4, CopyStays DEF k, other
  <1>14. ASSUME NEW i \in Importers, FailRebind(i) PROVE Copy'
    <2>1. PICK pc \in {"discard", "segments"} : Become(i, [importers[i] EXCEPT !.pc = pc])
      BY <1>14 DEF FailRebind
    <2> DEFINE k == [importers[i] EXCEPT !.pc = pc]
    <2>2. DOMAIN k = ImporterFields /\ k.created = importers[i].created
      BY DEF Copy, ImporterFields
    <2>3. UNCHANGED retained
      BY <1>14 DEF FailRebind
    <2> HIDE DEF k
    <2> QED
      BY <2>1, <2>2, <2>3, CopyStays DEF k
  <1>15. ASSUME NEW i \in Importers, Undo(i) PROVE Copy'
    <2>1. PICK k : Become(i, k) /\ DOMAIN k = ImporterFields
                   /\ k.created = importers[i].created
      <3>1. ASSUME NEW a, Become(i, [importers[i] EXCEPT !.backups[a] = None])
            PROVE  \E k : Become(i, k) /\ DOMAIN k = ImporterFields
                          /\ k.created = importers[i].created
        BY <3>1 DEF Copy, ImporterFields
      <3>2. ASSUME Become(i, [importers[i] EXCEPT !.step = @ - 1])
            PROVE  \E k : Become(i, k) /\ DOMAIN k = ImporterFields
                          /\ k.created = importers[i].created
        BY <3>2 DEF Copy, ImporterFields
      <3>3. ASSUME Become(i, [importers[i] EXCEPT !.pc = "discard"])
            PROVE  \E k : Become(i, k) /\ DOMAIN k = ImporterFields
                          /\ k.created = importers[i].created
        BY <3>3 DEF Copy, ImporterFields
      <3> QED
        BY <1>15, <3>1, <3>2, <3>3 DEF Undo
    <2>2. UNCHANGED retained
      BY <1>15 DEF Undo
    <2> QED
      BY <2>1, <2>2, CopyStays
  <1>20. ASSUME NEW i \in Importers, UndoFails(i) PROVE Copy'
    <2>1. PICK k : Become(i, k) /\ DOMAIN k = ImporterFields
                   /\ k.created = importers[i].created
      <3>1. ASSUME NEW a, Become(i, [importers[i] EXCEPT !.alone = FALSE, !.backups[a] = None])
            PROVE  \E k : Become(i, k) /\ DOMAIN k = ImporterFields
                          /\ k.created = importers[i].created
        <4> DEFINE k == [importers[i] EXCEPT !.alone = FALSE, !.backups[a] = None]
        <4>1. DOMAIN k = ImporterFields /\ k.created = importers[i].created
          BY DEF Copy, ImporterFields
        <4> HIDE DEF k
        <4> QED
          BY <3>1, <4>1 DEF k
      <3>2. ASSUME Become(i, [importers[i] EXCEPT !.alone = FALSE, !.step = @ - 1])
            PROVE  \E k : Become(i, k) /\ DOMAIN k = ImporterFields
                          /\ k.created = importers[i].created
        <4> DEFINE k == [importers[i] EXCEPT !.alone = FALSE, !.step = @ - 1]
        <4>1. DOMAIN k = ImporterFields /\ k.created = importers[i].created
          BY DEF Copy, ImporterFields
        <4> HIDE DEF k
        <4> QED
          BY <3>2, <4>1 DEF k
      <3> QED
        BY <1>20, <3>1, <3>2 DEF UndoFails
    <2>2. UNCHANGED retained
      BY <1>20 DEF UndoFails
    <2> QED
      BY <2>1, <2>2, CopyStays
  <1>16. CASE Crash
    <2>1. \A pc : DOMAIN Rests(pc) = ImporterFields /\ Rests(pc).created = FALSE
      BY DEF Rests, ImporterFields
    <2>2. DOMAIN importers' = Importers
          /\ \A j \in Importers : importers'[j] \in {importers[j], Rests("lost")}
      BY <1>16 DEF Crash
    <2>3. UNCHANGED retained
      BY <1>16 DEF Crash
    <2> QED
      BY <2>1, <2>2, <2>3 DEF Copy, CreatorsCopyIsThere
  <1>17. ASSUME UNCHANGED <<retained, importers>> PROVE Copy'
    BY <1>17 DEF Copy, CreatorsCopyIsThere
  <1>18. ASSUME NEW x \in Readers, ReadManifest(x) \/ Read(x) PROVE Copy'
    BY <1>17, <1>18 DEF ReadManifest, Read, Hash, Sign, Lookup, ReadFile, Admit
  <1>19. CASE Evict \/ Edit \/ UNCHANGED vars
    BY <1>17, <1>19 DEF Evict, Edit, vars
  <1> QED
    BY <1>1, <1>2, <1>3, <1>4, <1>5, <1>6, <1>7, <1>8, <1>9, <1>10, <1>11, <1>12,
       <1>13, <1>14, <1>15, <1>16, <1>18, <1>19, <1>20
    DEF Next, Import

\* "Atomically retain one uploaded source copy": the copy an import created stays
\* while that import is under way.
THEOREM CopyStaysForCreator == Spec => []CreatorsCopyIsThere
  <1>1. Init => Copy
    BY DEF Init, Copy, CreatorsCopyIsThere, Rests, ImporterFields
  <1>2. Copy /\ [Next]_vars => Copy'
    BY CopyStep
  <1>3. Copy => CreatorsCopyIsThere
    BY DEF Copy
  <1> QED
    BY <1>1, <1>2, <1>3, PTL DEF Spec

-----------------------------------------------------------------------------
(***************************************************************************)
(* The artifacts of a run and its row.  Between two imports they belong    *)
(* together; while one import works alone, what it moved and what it still *)
(* holds aside say where each artifact is.                                 *)
(***************************************************************************)
Asides == [Names -> Version \cup {None}]

\* What an importer holds.
ImporterShape(k) ==
    /\ DOMAIN k = ImporterFields
    /\ k.pc \in Resting \cup Promoting \cup Finishing \cup {"decode", "owner", "discard"}
    /\ k.run \in Runs
    /\ k.backups \in Asides
    /\ Working(k) \/ k.pc \in {"decode", "owner"} => k.version \in Version
    /\ k.pc \in {"decode", "owner"} => k.backups = Nothing
    /\ k.pc = "backup" => k.step \in 1..4
    /\ k.pc = "place" => k.step \in 1..3
    /\ k.pc = "undo" => k.step \in 0..3

Tables ==
    /\ table \in [Runs -> Row \cup {None}]
    /\ files \in [Runs -> Asides]
    /\ clock \in Nat /\ imports \in Nat
    /\ DOMAIN importers = Importers
    /\ \A i \in Importers : ImporterShape(importers[i])

\* No other import works on the run of one that is alone, and on a run that is
\* not disturbed every import is alone.
Alone ==
    /\ \A i, j \in Importers :
          /\ Working(importers[i]) /\ Working(importers[j]) /\ i # j
          /\ importers[i].alone
          => importers[i].run # importers[j].run
    /\ \A i \in Importers :
          Working(importers[i]) /\ importers[i].run \notin disturbed => importers[i].alone

\* The artifacts in place, as an import left them that works alone.
Position(k, set) ==
    /\ k.pc = "backup" => \A n \in 1..4 :
          IF n < k.step THEN set[Artifacts[n]] = None
          ELSE k.backups[Artifacts[n]] = None
    /\ k.pc = "place" => \A n \in 1..4 :
          set[Artifacts[n]] = IF n < k.step THEN k.version ELSE None
    /\ k.pc \in {"invalidate", "save"} \cup Finishing => set = Whole(k.version)
    /\ k.pc = "undo" => \A n \in 1..4 :
          IF k.step = 0 THEN k.backups[Artifacts[n]] # None => set[Artifacts[n]] = None
          ELSE set[Artifacts[n]] = IF n <= k.step THEN k.version ELSE None

\* A row that was written stays.
Recorded ==
    \A i \in Importers :
       importers[i].pc \in Finishing => table[importers[i].run] # None

\* The row one that works alone has written is its own.
Written(k, row) ==
    k.pc \in Finishing =>
       /\ row # None /\ row.decoding = k.version.decoding
       /\ row.segments \in {row.decoding, None}

Owns ==
    \A i \in Importers :
       LET k == importers[i]
       IN  Working(k) /\ k.alone => Position(k, files[k.run]) /\ Written(k, table[k.run])

\* The set that was in place when the import chose the run: what it has moved
\* aside, and what it has not come to yet or moved back already.
Before(k, set) ==
    [a \in Names |->
        IF k.backups[a] # None THEN k.backups[a]
        ELSE IF k.pc = "backup" \/ (k.pc = "undo" /\ k.step = 0) THEN set[a] ELSE None]

Restorable ==
    \A i \in Importers :
       LET k == importers[i]
       IN  k.pc \in Promoting /\ k.run \notin disturbed
              => Belongs(Before(k, files[k.run]), table[k.run])

ImportInv == Tables /\ Alone /\ Recorded /\ Owns /\ Restorable /\ QuietRunIsWhole

LEMMA ArtifactsAre ==
    /\ DOMAIN Artifacts = 1..4 /\ Len(Artifacts) = 4
    /\ \A n \in 1..4 : Artifacts[n] \in Names
    /\ \A m, n \in 1..4 : Artifacts[m] = Artifacts[n] => m = n
    /\ \A a \in Names : \E n \in 1..4 : a = Artifacts[n]
    /\ \A n \in 1..4 : Artifacts[n] = "alternate" <=> n = 4
    /\ "alternate" \in Names
  <1>1. DOMAIN Artifacts = 1..4 /\ Len(Artifacts) = 4
    BY DEF Artifacts
  <1>2. \A n \in 1..4 : Artifacts[n] =
            CASE n = 1 -> "cache" [] n = 2 -> "metadata" [] n = 3 -> "manifest"
              [] OTHER -> "alternate"
    BY DEF Artifacts
  <1>3. Names = {Artifacts[n] : n \in 1..4}
    BY <1>1 DEF Names
  <1> QED
    BY <1>1, <1>2, <1>3

LEMMA OwnersAreRuns == Owners \subseteq Runs
  BY ImportAssumption DEF Owners, Held

\* A worker moves, and touches the artifacts and the row of its run only.
LEMMA WorkerMoves ==
    ASSUME ImportInv, NEW i \in Importers, Working(importers[i]),
           NEW k, NEW set, NEW row,
           Become(i, k), ImporterShape(k), k.run = importers[i].run,
           Working(k) => k.alone = importers[i].alone,
           files' = [files EXCEPT ![importers[i].run] = set], set \in Asides,
           table' = [table EXCEPT ![importers[i].run] = row], row \in Row \cup {None},
           k.pc \in Finishing \/ table[importers[i].run] # None => row # None,
           clock' \in Nat, imports' \in Nat,
           \/ disturbed' = disturbed
           \/ ~Working(k) /\ importers[i].alone /\ disturbed' = disturbed \ {importers[i].run},
           Working(k) /\ k.alone => Position(k, set) /\ Written(k, row),
           k.pc \in Promoting /\ k.run \notin disturbed => Belongs(Before(k, set), row),
           ~Working(k) /\ importers[i].alone /\ k.run \notin disturbed' => Belongs(set, row)
    PROVE  ImportInv'
  <1> DEFINE run == importers[i].run
  <1>1. /\ DOMAIN importers' = Importers
        /\ importers'[i] = k
        /\ \A j \in Importers \ {i} : importers'[j] = importers[j]
    BY DEF Become, ImportInv, Tables
  <1>2. /\ run \in Runs
        /\ \A r \in Runs : files'[r] = (IF r = run THEN set ELSE files[r])
        /\ \A r \in Runs : table'[r] = (IF r = run THEN row ELSE table[r])
    BY DEF ImportInv, Tables, ImporterShape
  <1>3. \A j \in Importers : ImporterShape(importers[j])
    BY DEF ImportInv, Tables
  <1>4. Tables'
    <2>1. table' \in [Runs -> Row \cup {None}] /\ files' \in [Runs -> Asides]
      BY <1>2 DEF ImportInv, Tables
    <2>2. \A j \in Importers : ImporterShape(importers'[j])
      BY <1>1, <1>3
    <2> QED
      BY <1>1, <2>1, <2>2 DEF Tables, ImporterShape, Working
  <1>5. \A j \in Importers : Working(importers'[j]) => Working(importers[j])
            /\ importers'[j].run = importers[j].run /\ importers'[j].alone = importers[j].alone
    BY <1>1
  <1>6. Alone'
    BY <1>1, <1>5 DEF Alone, ImportInv, Working
  <1>7. \A j \in Importers \ {i} :
           Working(importers[j]) /\ importers[j].alone => importers[j].run # run
    BY DEF Alone, ImportInv
  <1>8. Owns'
    <2> SUFFICES ASSUME NEW j \in Importers, Working(importers'[j]), importers'[j].alone
                 PROVE  Position(importers'[j], files'[importers'[j].run])
                        /\ Written(importers'[j], table'[importers'[j].run])
      BY DEF Owns, Working, Position, Written
    <2>1. CASE j = i
      BY <1>1, <1>2, <2>1
    <2>2. CASE j # i
      <3>1. importers'[j] = importers[j] /\ importers[j].run # run /\ importers[j].run \in Runs
        BY <1>1, <1>3, <1>7, <2>2 DEF ImporterShape
      <3>2. Position(importers[j], files[importers[j].run])
            /\ Written(importers[j], table[importers[j].run])
        BY <2>2, <3>1, <1>1 DEF Owns, ImportInv
      <3> QED
        BY <1>2, <3>1, <3>2
    <2> QED
      BY <2>1, <2>2
  <1>9. Restorable'
    <2> SUFFICES ASSUME NEW j \in Importers, importers'[j].pc \in Promoting,
                        importers'[j].run \notin disturbed'
                 PROVE  Belongs(Before(importers'[j], files'[importers'[j].run]),
                                table'[importers'[j].run])
      BY DEF Restorable, Before, Belongs
    <2>1. CASE j = i
      <3>1. Working(k)
        BY <1>1, <2>1 DEF Working
      <3>2. disturbed' = disturbed
        BY <3>1
      <3> QED
        BY <1>1, <1>2, <2>1, <3>2
    <2>2. CASE j # i
      <3>1. importers'[j] = importers[j] /\ importers[j].run \in Runs
            /\ Working(importers[j])
        BY <1>1, <1>3, <2>2 DEF ImporterShape, Working
      <3>2. importers[i].alone => importers[j].run # run
        BY <3>1, <2>2 DEF Alone, ImportInv
      <3>3. importers[j].run \notin disturbed
        BY <3>1, <3>2
      <3>4. importers[j].alone
        BY <3>1, <3>3 DEF Alone, ImportInv
      <3>5. importers[j].run # run
        BY <1>7, <2>2, <3>1, <3>4
      <3>6. Belongs(Before(importers[j], files[importers[j].run]), table[importers[j].run])
        BY <3>1, <3>3 DEF Restorable, ImportInv
      <3> QED
        BY <1>2, <3>1, <3>5, <3>6
    <2> QED
      BY <2>1, <2>2
  <1>10. QuietRunIsWhole'
    <2> SUFFICES ASSUME NEW r \in Runs, r \notin disturbed',
                        \A j \in Importers : ~(importers'[j].run = r /\ Working(importers'[j]))
                 PROVE  Belongs(files'[r], table'[r])
      BY DEF QuietRunIsWhole, Works, Working, Belongs
    <2>1. CASE r = run
      <3>1. ~Working(k)
        BY <1>1, <2>1
      <3>2. importers[i].alone
        BY <2>1, <3>1 DEF Alone, ImportInv
      <3> QED
        BY <1>2, <2>1, <3>1, <3>2
    <2>2. CASE r # run
      <3>1. r \notin disturbed
        BY <2>2
      <3>2. \A j \in Importers : ~Works(j, r)
        BY <1>1, <2>2 DEF Works, Working
      <3> QED
        BY <1>2, <2>2, <3>1, <3>2 DEF QuietRunIsWhole, ImportInv
    <2> QED
      BY <2>1, <2>2
  <1>11. Recorded'
    <2> SUFFICES ASSUME NEW j \in Importers, importers'[j].pc \in Finishing
                 PROVE  table'[importers'[j].run] # None
      BY DEF Recorded
    <2>1. importers'[j].run \in Runs
      BY <1>1, <1>3 DEF ImporterShape
    <2> QED
      BY <1>1, <1>2, <2>1 DEF Recorded, ImportInv
  <1> QED
    BY <1>4, <1>6, <1>8, <1>9, <1>10, <1>11 DEF ImportInv

\* Runs, rows and workers stay as they are; who did not work still does not.
LEMMA IdleMoves ==
    ASSUME ImportInv, UNCHANGED <<files, table, disturbed, clock>>, imports' \in Nat,
           DOMAIN importers' = Importers,
           \A i \in Importers : \/ importers'[i] = importers[i]
                                \/ /\ ~Working(importers[i]) /\ ~Working(importers'[i])
                                   /\ ImporterShape(importers'[i])
    PROVE  ImportInv'
  <1>1. \A j \in Importers :
           Working(importers[j]) \/ Working(importers'[j]) => importers'[j] = importers[j]
    OBVIOUS
  <1>2. Tables'
    <2>1. \A j \in Importers : ImporterShape(importers'[j])
      BY DEF ImportInv, Tables
    <2> QED
      BY <2>1 DEF ImportInv, Tables, ImporterShape, Working
  <1>3. Alone'
    <2>1. \A j \in Importers : Working(importers'[j]) =>
             Working(importers[j]) /\ importers'[j] = importers[j]
      BY <1>1
    <2> QED
      BY <2>1 DEF Alone, ImportInv, Working
  <1>4. Owns'
    <2> SUFFICES ASSUME NEW j \in Importers, Working(importers'[j]), importers'[j].alone
                 PROVE  Position(importers'[j], files'[importers'[j].run])
                        /\ Written(importers'[j], table'[importers'[j].run])
      BY DEF Owns, Working, Position, Written
    <2> QED
      BY <1>1 DEF Owns, ImportInv
  <1>5. Restorable'
    <2> SUFFICES ASSUME NEW j \in Importers, importers'[j].pc \in Promoting,
                        importers'[j].run \notin disturbed'
                 PROVE  Belongs(Before(importers'[j], files'[importers'[j].run]),
                                table'[importers'[j].run])
      BY DEF Restorable, Before, Belongs
    <2>1. importers'[j] = importers[j]
      BY <1>1 DEF Working
    <2> QED
      BY <2>1 DEF Restorable, ImportInv
  <1>6. QuietRunIsWhole'
    <2> SUFFICES ASSUME NEW r \in Runs, r \notin disturbed',
                        \A j \in Importers : ~(importers'[j].run = r /\ Working(importers'[j]))
                 PROVE  Belongs(files'[r], table'[r])
      BY DEF QuietRunIsWhole, Works, Working, Belongs
    <2>1. \A j \in Importers : ~Works(j, r)
      BY <1>1 DEF Works, Working
    <2> QED
      BY <2>1 DEF QuietRunIsWhole, ImportInv
  <1>7. Recorded'
    BY <1>1 DEF Recorded, ImportInv, Working
  <1> QED
    BY <1>2, <1>3, <1>4, <1>5, <1>6, <1>7 DEF ImportInv

\* What the invariant says of one that works.
LEMMA WorkerHolds ==
    ASSUME ImportInv, NEW i \in Importers, Working(importers[i])
    PROVE  LET k == importers[i] IN
           /\ ImporterShape(k) /\ k.run \in Runs
           /\ files[k.run] \in Asides /\ table[k.run] \in Row \cup {None}
           /\ clock \in Nat /\ imports \in Nat
           /\ k.pc \in Finishing => table[k.run] # None
           /\ k.run \notin disturbed => k.alone
           /\ k.alone => Position(k, files[k.run]) /\ Written(k, table[k.run])
           /\ k.pc \in Promoting /\ k.run \notin disturbed =>
                 Belongs(Before(k, files[k.run]), table[k.run])
  BY DEF ImportInv, Tables, ImporterShape, Alone, Recorded, Owns, Restorable

\* A worker moves without touching the artifacts or the row.
LEMMA WorkerPasses ==
    ASSUME ImportInv, NEW i \in Importers, Working(importers[i]), NEW k,
           Become(i, k), ImporterShape(k), k.run = importers[i].run,
           Working(k) => k.alone = importers[i].alone,
           UNCHANGED <<files, table, disturbed, clock, imports>>,
           k.pc \in Finishing => importers[i].pc \in Finishing,
           Working(k) /\ k.alone =>
               Position(k, files[k.run]) /\ Written(k, table[k.run]),
           k.pc \in Promoting /\ k.run \notin disturbed =>
               Belongs(Before(k, files[k.run]), table[k.run]),
           ~Working(k) /\ importers[i].alone /\ k.run \notin disturbed =>
               Belongs(files[k.run], table[k.run])
    PROVE  ImportInv'
  <1>1. /\ k.run \in Runs /\ clock \in Nat /\ imports \in Nat
        /\ files[k.run] \in Asides /\ table[k.run] \in Row \cup {None}
        /\ k.pc \in Finishing => table[k.run] # None
    BY WorkerHolds
  <1>2. files' = [files EXCEPT ![k.run] = files[k.run]]
        /\ table' = [table EXCEPT ![k.run] = table[k.run]]
    BY <1>1 DEF ImportInv, Tables
  <1> QED
    BY <1>1, <1>2, WorkerMoves

LEMMA BackupKeeps ==
    ASSUME ImportInv, NEW i \in Importers, Backup(i)
    PROVE  ImportInv'
  <1> DEFINE k == importers[i]
             a == Artifacts[k.step]
             old == files[k.run]
             next == IF k.step = Len(Artifacts) THEN [k EXCEPT !.pc = "place", !.step = 1]
                     ELSE [k EXCEPT !.step = @ + 1]
             after == [next EXCEPT !.backups[a] = old[a]]
             set == [old EXCEPT ![a] = None]
  <1>1. k.pc = "backup" /\ Working(k)
    BY DEF Backup, At, Working, Promoting
  <1>2. /\ ImporterShape(k) /\ k.run \in Runs /\ old \in Asides
        /\ table[k.run] \in Row \cup {None} /\ clock \in Nat /\ imports \in Nat
        /\ k.run \notin disturbed => k.alone
        /\ k.alone => Position(k, old)
        /\ k.run \notin disturbed => Belongs(Before(k, old), table[k.run])
    BY <1>1, WorkerHolds DEF Promoting
  <1>3. k.step \in 1..4 /\ a \in Names
    BY <1>1, <1>2, ArtifactsAre DEF ImporterShape
  <1>4. /\ DOMAIN next = ImporterFields /\ next.run = k.run /\ next.alone = k.alone
        /\ next.version = k.version /\ next.backups = k.backups
        /\ next.pc = (IF k.step = 4 THEN "place" ELSE "backup")
        /\ next.step = (IF k.step = 4 THEN 1 ELSE k.step + 1)
    BY <1>1, <1>2, ArtifactsAre DEF ImporterShape, ImporterFields
  <1>5. Become(i, after) /\ files' = [files EXCEPT ![k.run] = set]
        /\ UNCHANGED <<table, disturbed, clock, imports>>
    BY DEF Backup, Put, database, bounds
  <1> HIDE DEF next
  <1>6. /\ DOMAIN after = ImporterFields /\ after.run = k.run /\ after.alone = k.alone
        /\ after.version = k.version /\ after.pc = next.pc /\ after.step = next.step
        /\ after.backups = [k.backups EXCEPT ![a] = old[a]]
    BY <1>4 DEF ImporterFields
  <1> HIDE DEF after
  <1>7. k.backups \in Asides /\ k.version \in Version
    BY <1>1, <1>2 DEF ImporterShape
  <1>8. /\ after.backups \in Asides /\ set \in Asides
        /\ \A name \in Names :
              /\ after.backups[name] = (IF name = a THEN old[name] ELSE k.backups[name])
              /\ set[name] = (IF name = a THEN None ELSE old[name])
    BY <1>2, <1>3, <1>6, <1>7 DEF Asides
  <1>9. ImporterShape(after)
    BY <1>2, <1>3, <1>4, <1>6, <1>7, <1>8 DEF ImporterShape, Promoting
  <1>10. \A n \in 1..4 : /\ Artifacts[n] \in Names
                         /\ Artifacts[n] = a <=> n = k.step
    BY <1>3, ArtifactsAre
  <1>11. ASSUME k.alone PROVE Position(after, set)
    <2>1. \A n \in 1..4 : IF n < k.step THEN old[Artifacts[n]] = None
                          ELSE k.backups[Artifacts[n]] = None
      BY <1>1, <1>2, <1>11 DEF Position
    <2>2. \A n \in 1..4 : n <= k.step => set[Artifacts[n]] = None
      BY <1>3, <1>8, <1>10, <2>1
    <2>3. \A n \in 1..4 : n > k.step => after.backups[Artifacts[n]] = None
      BY <1>3, <1>8, <1>10, <2>1
    <2> QED
      BY <1>3, <1>4, <1>6, <2>2, <2>3 DEF Position, Finishing
  <1>12. ASSUME k.alone PROVE Before(after, set) = Before(k, old)
    <2>1. \A n \in 1..4 : IF n < k.step THEN old[Artifacts[n]] = None
                          ELSE k.backups[Artifacts[n]] = None
      BY <1>1, <1>2, <1>12 DEF Position
    <2> SUFFICES ASSUME NEW name \in Names
                 PROVE  Before(after, set)[name] = Before(k, old)[name]
      BY DEF Before
    <2>2. PICK n \in 1..4 : name = Artifacts[n]
      BY ArtifactsAre
    <2>3. after.pc = "place" => k.step = 4
      BY <1>4, <1>6
    <2>4. after.pc \in {"place", "backup"}
      BY <1>4, <1>6
    <2> QED
      BY <1>1, <1>3, <1>8, <1>10, <2>1, <2>2, <2>3, <2>4 DEF Before
  <1>13. ~(after.pc \in Finishing) /\ Working(after)
    BY <1>4, <1>6 DEF Working, Finishing, Promoting
  <1>14. table' = [table EXCEPT ![k.run] = table[k.run]]
    BY <1>2, <1>5 DEF ImportInv, Tables
  <1>15. after.run \notin disturbed => Belongs(Before(after, set), table[k.run])
    BY <1>2, <1>6, <1>12
  <1>16. Working(after) /\ after.alone => Position(after, set) /\ Written(after, table[k.run])
    BY <1>6, <1>11, <1>13 DEF Written
  <1>17. clock' \in Nat /\ imports' \in Nat /\ disturbed' = disturbed
    BY <1>2, <1>5
  <1> HIDE DEF k, set
  <1> QED
    BY <1>1, <1>2, <1>5, <1>6, <1>8, <1>9, <1>13, <1>14, <1>15, <1>16, <1>17, WorkerMoves
    DEF k

LEMMA PlaceKeeps ==
    ASSUME ImportInv, NEW i \in Importers, Place(i)
    PROVE  ImportInv'
  <1> DEFINE k == importers[i]
             a == Artifacts[k.step]
             old == files[k.run]
             after == [k EXCEPT !.step = @ + 1,
                                !.pc = IF k.step = Moved THEN "invalidate" ELSE "place"]
             set == [old EXCEPT ![a] = k.version]
  <1>1. k.pc = "place" /\ Working(k)
    BY DEF Place, At, Working, Promoting
  <1>2. /\ ImporterShape(k) /\ k.run \in Runs /\ old \in Asides
        /\ table[k.run] \in Row \cup {None} /\ clock \in Nat /\ imports \in Nat
        /\ k.alone => Position(k, old)
        /\ k.run \notin disturbed => Belongs(Before(k, old), table[k.run])
    BY <1>1, WorkerHolds DEF Promoting
  <1>3. k.step \in 1..3 /\ a \in Names /\ k.version \in Version
    BY <1>1, <1>2, ArtifactsAre DEF ImporterShape
  <1>4. Become(i, after) /\ files' = [files EXCEPT ![k.run] = set]
        /\ UNCHANGED <<table, disturbed, clock, imports>>
    BY DEF Place, Put, database, bounds
  <1>5. /\ DOMAIN after = ImporterFields /\ after.run = k.run /\ after.alone = k.alone
        /\ after.version = k.version /\ after.backups = k.backups
        /\ after.pc = (IF k.step = 3 THEN "invalidate" ELSE "place")
        /\ after.step = k.step + 1
    BY <1>2 DEF ImporterShape, ImporterFields, Moved
  <1> HIDE DEF after
  <1>6. /\ set \in Asides
        /\ \A name \in Names : set[name] = (IF name = a THEN k.version ELSE old[name])
    BY <1>2, <1>3 DEF Asides
  <1>7. ImporterShape(after)
    BY <1>1, <1>2, <1>3, <1>5 DEF ImporterShape, Promoting
  <1>8. \A n \in 1..4 : /\ Artifacts[n] \in Names
                        /\ Artifacts[n] = a <=> n = k.step
    BY <1>3, ArtifactsAre
  <1>9. ASSUME k.alone PROVE Position(after, set)
    <2>1. \A n \in 1..4 : old[Artifacts[n]] = IF n < k.step THEN k.version ELSE None
      BY <1>1, <1>2, <1>9 DEF Position
    <2>2. \A n \in 1..4 : set[Artifacts[n]] = IF n <= k.step THEN k.version ELSE None
      BY <1>3, <1>6, <1>8, <2>1
    <2>3. k.step = 3 => set = Whole(k.version)
      <3> SUFFICES ASSUME k.step = 3, NEW name \in Names
                   PROVE  set[name] = Whole(k.version)[name]
        BY <1>6 DEF Whole, Asides
      <3>1. PICK n \in 1..4 : name = Artifacts[n]
        BY ArtifactsAre
      <3>2. name = "alternate" <=> n = 4
        BY <3>1, ArtifactsAre
      <3> QED
        BY <2>2, <3>1, <3>2 DEF Whole
    <2> QED
      BY <1>3, <1>5, <2>2, <2>3 DEF Position, Finishing
  <1>10. Before(after, set) = Before(k, old)
    BY <1>1, <1>5 DEF Before
  <1>11. ~(after.pc \in Finishing) /\ Working(after)
    BY <1>5 DEF Working, Finishing, Promoting
  <1>12. table' = [table EXCEPT ![k.run] = table[k.run]]
    BY <1>2, <1>4 DEF ImportInv, Tables
  <1>13. after.run \notin disturbed => Belongs(Before(after, set), table[k.run])
    BY <1>2, <1>5, <1>10
  <1>14. Working(after) /\ after.alone => Position(after, set) /\ Written(after, table[k.run])
    BY <1>5, <1>9, <1>11 DEF Written
  <1>15. clock' \in Nat /\ imports' \in Nat /\ disturbed' = disturbed
    BY <1>2, <1>4
  <1> HIDE DEF k, set
  <1> QED
    BY <1>1, <1>2, <1>4, <1>5, <1>6, <1>7, <1>11, <1>12, <1>13, <1>14, <1>15, WorkerMoves
    DEF k

LEMMA InvalidateKeeps ==
    ASSUME ImportInv, NEW i \in Importers, Invalidate(i)
    PROVE  ImportInv'
  <1> DEFINE k == importers[i]
             after == [k EXCEPT !.pc = "save"]
  <1>1. k.pc = "invalidate" /\ Working(k)
    BY DEF Invalidate, At, Working, Promoting
  <1>2. ImporterShape(k)
    BY <1>1, WorkerHolds
  <1>3. Become(i, after) /\ UNCHANGED <<files, table, disturbed, clock, imports>>
    BY DEF Invalidate, artifacts, database, bounds
  <1>4. /\ DOMAIN after = ImporterFields /\ after.run = k.run /\ after.alone = k.alone
        /\ after.version = k.version /\ after.backups = k.backups /\ after.pc = "save"
    BY <1>2 DEF ImporterShape, ImporterFields
  <1> HIDE DEF after
  <1>5. ImporterShape(after)
    BY <1>1, <1>2, <1>4 DEF ImporterShape, Promoting, Working
  <1>6. Working(after) /\ ~(after.pc \in Finishing)
    BY <1>4 DEF Working, Promoting, Finishing
  <1>7. after.alone => Position(after, files[k.run]) /\ Written(after, table[k.run])
    BY <1>1, <1>4, <1>6, WorkerHolds DEF Position, Written
  <1>8. Before(after, files[k.run]) = Before(k, files[k.run])
    BY <1>1, <1>4 DEF Before
  <1>9. after.run \notin disturbed => Belongs(Before(after, files[k.run]), table[k.run])
    BY <1>1, <1>4, <1>8, WorkerHolds DEF Promoting
  <1> QED
    BY <1>1, <1>3, <1>4, <1>5, <1>6, <1>7, <1>9, WorkerPasses

LEMMA SaveKeeps ==
    ASSUME ImportInv, NEW i \in Importers, Save(i)
    PROVE  ImportInv'
  <1> DEFINE k == importers[i]
             old == files[k.run]
             after == [k EXCEPT !.pc = "aliases", !.backups = Nothing, !.step = 0]
             row == [decoding |-> k.version.decoding, at |-> clock + 1,
                     segments |-> SegmentsAfterSave(k.run)]
  <1>1. k.pc = "save" /\ Working(k)
    BY DEF Save, At, Working, Promoting
  <1>2. /\ ImporterShape(k) /\ k.run \in Runs /\ old \in Asides
        /\ clock \in Nat /\ imports \in Nat
        /\ k.alone => Position(k, old)
    BY <1>1, WorkerHolds
  <1>3. k.version \in Version
    BY <1>1, <1>2 DEF ImporterShape
  <1>4. /\ Become(i, after) /\ files' = files
        /\ table' = [table EXCEPT ![k.run] = row]
        /\ UNCHANGED <<disturbed, imports>> /\ clock' = clock + 1
    BY DEF Save, artifacts, bounds
  <1>5. /\ DOMAIN after = ImporterFields /\ after.run = k.run /\ after.alone = k.alone
        /\ after.version = k.version /\ after.backups = Nothing /\ after.pc = "aliases"
    BY <1>2 DEF ImporterShape, ImporterFields
  <1>6. /\ row \in Row /\ row.decoding = k.version.decoding /\ row.segments = None
    BY <1>2, <1>3 DEF Row, Version, SegmentsAfterSave
  <1>7. row # None
    BY <1>6, StoredAssumption
  <1> HIDE DEF after, row
  <1>8. Nothing \in Asides
    BY DEF Nothing, Asides
  <1>9. Working(after) /\ after.pc \in Finishing /\ after.pc \notin Promoting
    BY <1>5 DEF Working, Finishing, Promoting
  <1>10. ImporterShape(after)
    BY <1>2, <1>3, <1>5, <1>8, <1>9 DEF ImporterShape
  <1>11. after.alone => Position(after, old) /\ Written(after, row)
    BY <1>1, <1>2, <1>5, <1>6, <1>7 DEF Position, Written, Finishing
  <1>12. files' = [files EXCEPT ![k.run] = old]
    BY <1>2, <1>4 DEF ImportInv, Tables
  <1>13. clock' \in Nat /\ imports' \in Nat /\ disturbed' = disturbed
         /\ row \in Row \cup {None}
    BY <1>2, <1>4, <1>6
  <1> HIDE DEF k
  <1> QED
    BY <1>1, <1>2, <1>4, <1>5, <1>7, <1>9, <1>10, <1>11, <1>12, <1>13, WorkerMoves DEF k

\* After the row is written: on to the next step, or out with a failure.
LEMMA FinisherMoves ==
    ASSUME ImportInv, NEW i \in Importers, importers[i].pc \in Finishing,
           NEW k, Become(i, k), DOMAIN k = ImporterFields,
           k.pc \in Finishing \cup {"discard"}, k.run = importers[i].run,
           k.alone = importers[i].alone, k.version = importers[i].version,
           k.backups = importers[i].backups,
           UNCHANGED <<files, table, disturbed, clock, imports>>
    PROVE  ImportInv'
  <1>1. Working(importers[i]) /\ importers[i].pc \notin Promoting
    BY DEF Working, Finishing, Promoting
  <1>2. ImporterShape(importers[i])
    BY <1>1, WorkerHolds
  <1>3. k.pc \notin Promoting \cup {"decode", "owner"} /\ (Working(k) <=> k.pc \in Finishing)
    BY DEF Working, Finishing, Promoting
  <1>4. ImporterShape(k)
    BY <1>1, <1>2, <1>3 DEF ImporterShape, Promoting, Finishing
  <1>5. importers[i].alone =>
            /\ files[k.run] = Whole(k.version)
            /\ table[k.run] # None /\ table[k.run].decoding = k.version.decoding
            /\ table[k.run].segments \in {table[k.run].decoding, None}
    BY <1>1, WorkerHolds DEF Position, Written
  <1>6. Working(k) /\ k.alone => Position(k, files[k.run]) /\ Written(k, table[k.run])
    BY <1>3, <1>5 DEF Position, Written, Promoting
  <1>7. importers[i].alone => Belongs(files[k.run], table[k.run])
    BY <1>1, <1>2, <1>5 DEF Belongs, ImporterShape
  <1> QED
    BY <1>1, <1>3, <1>4, <1>6, <1>7, WorkerPasses

LEMMA FinishKeeps ==
    ASSUME ImportInv, NEW i \in Importers,
           Aliases(i) \/ SeeSessions(i) \/ Rebind(i) \/ FailRebind(i)
    PROVE  ImportInv'
  <1>1. importers[i].pc \in Finishing
    BY DEF Aliases, SeeSessions, Rebind, FailRebind, At, Finishing
  <1>2. DOMAIN importers[i] = ImporterFields
    BY DEF ImportInv, Tables, ImporterShape
  <1>3. UNCHANGED <<files, table, disturbed, clock, imports>>
    BY DEF Aliases, SeeSessions, Rebind, FailRebind, artifacts, database, bounds
  <1>4. CASE Aliases(i)
    <2> DEFINE others == Held \ {importers[i].run}
               k == [importers[i] EXCEPT !.aliases = others,
                       !.pc = IF others = {} THEN "segments" ELSE "sessions"]
    <2>1. Become(i, k)
      BY <1>4 DEF Aliases
    <2>2. /\ DOMAIN k = ImporterFields /\ k.pc \in Finishing /\ k.run = importers[i].run
          /\ k.alone = importers[i].alone /\ k.version = importers[i].version
          /\ k.backups = importers[i].backups
      BY <1>2 DEF ImporterFields, Finishing
    <2> HIDE DEF k
    <2> QED
      BY <1>1, <1>3, <2>1, <2>2, FinisherMoves
  <1>5. CASE SeeSessions(i)
    <2> DEFINE k == [importers[i] EXCEPT !.pc = "rebind", !.seen = sessions]
    <2>1. Become(i, k)
      BY <1>5 DEF SeeSessions
    <2>2. /\ DOMAIN k = ImporterFields /\ k.pc \in Finishing /\ k.run = importers[i].run
          /\ k.alone = importers[i].alone /\ k.version = importers[i].version
          /\ k.backups = importers[i].backups
      BY <1>2 DEF ImporterFields, Finishing
    <2> HIDE DEF k
    <2> QED
      BY <1>1, <1>3, <2>1, <2>2, FinisherMoves
  <1>6. ASSUME NEW pc \in {"segments", "discard"}, Become(i, [importers[i] EXCEPT !.pc = pc])
        PROVE  ImportInv'
    <2> DEFINE k == [importers[i] EXCEPT !.pc = pc]
    <2>1. Become(i, k)
      BY <1>6
    <2>2. /\ DOMAIN k = ImporterFields /\ k.pc \in Finishing \cup {"discard"}
          /\ k.run = importers[i].run
          /\ k.alone = importers[i].alone /\ k.version = importers[i].version
          /\ k.backups = importers[i].backups
      BY <1>2 DEF ImporterFields, Finishing
    <2> HIDE DEF k
    <2> QED
      BY <1>1, <1>3, <2>1, <2>2, FinisherMoves
  <1>7. CASE Rebind(i)
    BY <1>6, <1>7 DEF Rebind
  <1>8. CASE FailRebind(i)
    BY <1>6, <1>8 DEF FailRebind
  <1> QED
    BY <1>4, <1>5, <1>7, <1>8

\* The import succeeds; if it was alone, what disturbed the run is repaired.
LEMMA SegmentsKeeps ==
    ASSUME ImportInv, NEW i \in Importers, Segments(i)
    PROVE  ImportInv'
  <1> DEFINE k == importers[i]
             old == files[k.run]
             before == table[k.run]
             after == [Rests("ok") EXCEPT !.run = k.run]
             row == [before EXCEPT !.segments = k.version.decoding]
  <1>1. k.pc = "segments" /\ Working(k) /\ k.pc \in Finishing
    BY DEF Segments, At, Working, Finishing
  <1>2. /\ ImporterShape(k) /\ k.run \in Runs /\ old \in Asides
        /\ before \in Row \cup {None} /\ before # None /\ clock \in Nat /\ imports \in Nat
        /\ k.run \notin disturbed => k.alone
        /\ k.alone => Position(k, old) /\ Written(k, before)
    BY <1>1, WorkerHolds
  <1>3. k.version \in Version
    BY <1>1, <1>2 DEF ImporterShape
  <1>4. /\ Become(i, after) /\ files' = files /\ UNCHANGED <<clock, imports>>
        /\ table' \in {[table EXCEPT ![k.run].segments = k.version.decoding], table}
        /\ disturbed' = IF k.alone THEN disturbed \ {k.run} ELSE disturbed
    BY DEF Segments, artifacts
  <1>5. /\ DOMAIN after = ImporterFields /\ after.run = k.run /\ after.pc = "ok"
        /\ after.backups = Nothing
    BY DEF Rests, ImporterFields
  <1> HIDE DEF after
  <1>6. Nothing \in Asides
    BY DEF Nothing, Asides
  <1>7. ~Working(after) /\ after.pc \notin Promoting
    BY <1>5 DEF Working, Promoting, Finishing
  <1>8. ImporterShape(after)
    BY <1>2, <1>5, <1>6, <1>7 DEF ImporterShape, Resting
  <1>9. k.alone => /\ old = Whole(k.version)
                   /\ before # None /\ before.decoding = k.version.decoding
                   /\ before.segments \in {before.decoding, None}
    BY <1>1, <1>2 DEF Position, Written
  <1>10. k.version.decoding \in Decodings
    BY <1>3 DEF Version
  <1>11. PICK r : /\ table' = [table EXCEPT ![k.run] = r] /\ r \in Row /\ r # None
                  /\ k.alone => /\ r.decoding = k.version.decoding
                                /\ r.segments \in {r.decoding, None}
    <2>1. CASE table' = table
      <3>1. table' = [table EXCEPT ![k.run] = before]
        BY <1>2, <2>1 DEF ImportInv, Tables
      <3> QED
        BY <1>2, <1>9, <3>1
    <2>2. CASE table' = [table EXCEPT ![k.run].segments = k.version.decoding] /\ before \in Row
      <3>1. table' = [table EXCEPT ![k.run] = row]
        BY <2>2
      <3>2. /\ row \in Row /\ row.segments = k.version.decoding
            /\ row.decoding = before.decoding
        BY <1>10, <2>2 DEF Row
      <3>3. row # None
        BY <3>2, StoredAssumption
      <3> HIDE DEF row
      <3> QED
        BY <1>9, <3>1, <3>2, <3>3
    <2> QED
      BY <1>2, <1>4, <2>1, <2>2
  <1>12. k.alone => Belongs(old, r)
    BY <1>3, <1>9, <1>11 DEF Belongs
  <1>13. files' = [files EXCEPT ![k.run] = old]
    BY <1>2, <1>4 DEF ImportInv, Tables
  <1>14. clock' \in Nat /\ imports' \in Nat
    BY <1>2, <1>4
  <1>15. \/ disturbed' = disturbed
         \/ k.alone /\ disturbed' = disturbed \ {k.run}
    BY <1>4
  <1> HIDE DEF k
  <1> QED
    BY <1>1, <1>2, <1>4, <1>5, <1>7, <1>8, <1>11, <1>12, <1>13, <1>14, <1>15, WorkerMoves
    DEF k

\* What fails before the row is written is undone.
LEMMA FailKeeps ==
    ASSUME ImportInv, NEW i \in Importers, Fail(i)
    PROVE  ImportInv'
  <1> DEFINE k == importers[i]
             old == files[k.run]
             left == CASE k.pc = "backup" -> 0 [] k.pc = "place" -> k.step - 1 [] OTHER -> Moved
             after == [k EXCEPT !.pc = "undo", !.step = left]
             idle == [k EXCEPT !.pc = "discard"]
  <1>1. UNCHANGED <<files, table, disturbed, clock, imports>>
    BY DEF Fail, artifacts, database
  <1>2. ImporterShape(k) /\ imports \in Nat /\ DOMAIN importers = Importers
    BY DEF ImportInv, Tables
  <1>3. CASE k.pc \in {"decode", "owner"} /\ Become(i, idle)
    <2>1. /\ DOMAIN idle = ImporterFields /\ idle.pc = "discard" /\ idle.run = k.run
          /\ idle.backups = k.backups
      BY <1>2 DEF ImporterShape, ImporterFields
    <2> HIDE DEF idle
    <2>2. ~Working(k) /\ ~Working(idle)
      BY <1>3, <2>1 DEF Working, Promoting, Finishing
    <2>3. ImporterShape(idle)
      BY <1>2, <2>1, <2>2 DEF ImporterShape, Working
    <2>4. DOMAIN importers' = Importers
          /\ \A j \in Importers : importers'[j] = IF j = i THEN idle ELSE importers[j]
      BY <1>2, <1>3 DEF Become
    <2> QED
      BY <1>1, <1>2, <2>2, <2>3, <2>4, IdleMoves
  <1>4. CASE k.pc \in {"backup", "place", "save"} /\ Become(i, after)
    <2>1. Working(k) /\ k.pc \in Promoting
      BY <1>4 DEF Working, Promoting
    <2>2. /\ k.run \in Runs /\ old \in Asides
          /\ k.run \notin disturbed => k.alone
          /\ k.alone => Position(k, old)
          /\ k.run \notin disturbed => Belongs(Before(k, old), table[k.run])
      BY <2>1, WorkerHolds
    <2>3. /\ k.pc = "backup" => left = 0 /\ k.step \in 1..4
          /\ k.pc = "place" => left = k.step - 1 /\ k.step \in 1..3
          /\ k.pc = "save" => left = 3
      BY <1>2, <1>4 DEF Moved, ImporterShape
    <2>4. /\ DOMAIN after = ImporterFields /\ after.pc = "undo" /\ after.run = k.run
          /\ after.alone = k.alone /\ after.step = left
          /\ after.version = k.version /\ after.backups = k.backups
      BY <1>2 DEF ImporterShape, ImporterFields
    <2> HIDE DEF after, left
    <2>5. left \in 0..3
      BY <1>4, <2>3
    <2>6. Working(after) /\ ~(after.pc \in Finishing)
      BY <2>4 DEF Working, Promoting, Finishing
    <2>7. ImporterShape(after)
      BY <1>2, <2>1, <2>4, <2>5 DEF ImporterShape, Promoting
    <2>8. ASSUME k.alone PROVE Position(after, old)
      <3>1. CASE k.pc = "backup"
        <4>1. \A n \in 1..4 : IF n < k.step THEN old[Artifacts[n]] = None
                              ELSE k.backups[Artifacts[n]] = None
          BY <2>2, <2>8, <3>1 DEF Position
        <4> QED
          BY <2>3, <2>4, <3>1, <4>1 DEF Position, Finishing
      <3>2. CASE k.pc = "place"
        <4>1. \A n \in 1..4 : old[Artifacts[n]] = IF n < k.step THEN k.version ELSE None
          BY <2>2, <2>8, <3>2 DEF Position
        <4> QED
          BY <2>3, <2>4, <3>2, <4>1 DEF Position, Finishing
      <3>3. CASE k.pc = "save"
        <4>1. old = Whole(k.version)
          BY <2>2, <2>8, <3>3 DEF Position
        <4>2. \A n \in 1..4 : old[Artifacts[n]] = IF n <= 3 THEN k.version ELSE None
          BY <4>1, ArtifactsAre DEF Whole
        <4> QED
          BY <2>3, <2>4, <3>3, <4>2 DEF Position, Finishing
      <3> QED
        BY <1>4, <3>1, <3>2, <3>3
    <2>9. ASSUME k.alone PROVE Before(after, old) = Before(k, old)
      <3>1. CASE k.pc = "backup"
        BY <2>3, <2>4, <3>1 DEF Before
      <3>2. CASE k.pc = "place"
        <4>1. \A n \in 1..4 : k.step = 1 => old[Artifacts[n]] = None
          BY <2>2, <2>3, <2>9, <3>2 DEF Position
        <4>2. \A name \in Names : k.step = 1 => old[name] = None
          BY <4>1, ArtifactsAre
        <4> QED
          BY <2>3, <2>4, <3>2, <4>2 DEF Before
      <3>3. CASE k.pc = "save"
        BY <2>3, <2>4, <3>3 DEF Before
      <3> QED
        BY <1>4, <3>1, <3>2, <3>3
    <2>10. after.run \notin disturbed => Belongs(Before(after, old), table[k.run])
      BY <2>2, <2>4, <2>9
    <2>11. after.alone => Position(after, old) /\ Written(after, table[k.run])
      BY <2>4, <2>6, <2>8 DEF Written
    <2> HIDE DEF k
    <2> QED
      BY <1>1, <1>4, <2>1, <2>4, <2>6, <2>7, <2>10, <2>11, WorkerPasses DEF k
  <1> QED
    BY <1>3, <1>4 DEF Fail

LEMMA FirstOf ==
    ASSUME NEW S \in SUBSET (1..4), S # {}
    PROVE  (CHOOSE m \in S : \A other \in S : m <= other) \in S
  <1>1. \E m \in S : \A other \in S : m <= other
    <2>1. CASE 1 \in S
      BY <2>1
    <2>2. CASE 1 \notin S /\ 2 \in S
      BY <2>2
    <2>3. CASE 1 \notin S /\ 2 \notin S /\ 3 \in S
      BY <2>3
    <2>4. CASE 1 \notin S /\ 2 \notin S /\ 3 \notin S
      <3>1. \A m \in S : m = 4
        BY <2>4
      <3>2. 4 \in S
        BY <3>1
      <3> QED
        BY <3>1, <3>2
    <2> QED
      BY <2>1, <2>2, <2>3, <2>4
  <1> QED
    BY <1>1

\* rollback: delete what was placed, move back what was aside, and be done.
LEMMA UndoKeeps ==
    ASSUME ImportInv, NEW i \in Importers, Undo(i)
    PROVE  ImportInv'
  <1> DEFINE k == importers[i]
             old == files[k.run]
             aside == ToRestore(k)
             n == CHOOSE m \in aside : \A other \in aside : m <= other
  <1>1. k.pc = "undo" /\ Working(k) /\ k.pc \in Promoting
    BY DEF Undo, At, Working, Promoting
  <1>2. /\ ImporterShape(k) /\ k.run \in Runs /\ old \in Asides
        /\ table[k.run] \in Row \cup {None} /\ clock \in Nat /\ imports \in Nat
        /\ k.run \notin disturbed => k.alone
        /\ k.alone => Position(k, old)
        /\ k.run \notin disturbed => Belongs(Before(k, old), table[k.run])
    BY <1>1, WorkerHolds
  <1>3. k.step \in 0..3 /\ k.backups \in Asides /\ k.version \in Version
    BY <1>1, <1>2 DEF ImporterShape
  <1>4. aside \subseteq 1..4
        /\ \A m \in 1..4 : m \in aside <=> k.backups[Artifacts[m]] # None
    BY ArtifactsAre DEF ToRestore, Aside
  <1>5. UNCHANGED <<table, disturbed, clock, imports>>
    BY DEF Undo, database, bounds
  <1>6. table' = [table EXCEPT ![k.run] = table[k.run]]
    BY <1>2, <1>5 DEF ImportInv, Tables
  <1>7. clock' \in Nat /\ imports' \in Nat /\ disturbed' = disturbed
    BY <1>2, <1>5
  <1>8. CASE k.step > 0 /\ Put(k.run, Artifacts[k.step], None)
             /\ Become(i, [k EXCEPT !.step = @ - 1])
    <2> DEFINE a == Artifacts[k.step]
               after == [k EXCEPT !.step = @ - 1]
               set == [old EXCEPT ![a] = None]
    <2>1. Become(i, after) /\ files' = [files EXCEPT ![k.run] = set]
      BY <1>8 DEF Put
    <2>2. /\ DOMAIN after = ImporterFields /\ after.pc = "undo" /\ after.run = k.run
          /\ after.alone = k.alone /\ after.step = k.step - 1
          /\ after.version = k.version /\ after.backups = k.backups
      BY <1>1, <1>2 DEF ImporterShape, ImporterFields
    <2> HIDE DEF after
    <2>3. /\ a \in Names
          /\ \A m \in 1..4 : Artifacts[m] \in Names /\ (Artifacts[m] = a <=> m = k.step)
      BY <1>3, <1>8, ArtifactsAre
    <2>4. /\ set \in Asides
          /\ \A name \in Names : set[name] = (IF name = a THEN None ELSE old[name])
      BY <1>2, <2>3 DEF Asides
    <2>5. Working(after) /\ ~(after.pc \in Finishing)
      BY <2>2 DEF Working, Promoting, Finishing
    <2>6. ImporterShape(after)
      BY <1>2, <1>3, <1>8, <2>2 DEF ImporterShape, Promoting
    <2>7. k.alone => \A m \in 1..4 :
             old[Artifacts[m]] = IF m <= k.step THEN k.version ELSE None
      BY <1>1, <1>2, <1>3, <1>8 DEF Position
    <2>8. k.alone => \A m \in 1..4 :
             set[Artifacts[m]] = IF m <= k.step - 1 THEN k.version ELSE None
      BY <1>3, <2>3, <2>4, <2>7
    <2>9. k.alone => Position(after, set)
      BY <1>3, <1>8, <2>2, <2>8 DEF Position, Finishing
    <2>10. k.alone /\ k.step = 1 => \A name \in Names : set[name] = None
      BY <2>8, ArtifactsAre
    <2>11. k.alone => Before(after, set) = Before(k, old)
      BY <1>1, <1>3, <1>8, <2>2, <2>10 DEF Before
    <2>12. after.run \notin disturbed => Belongs(Before(after, set), table[k.run])
      BY <1>2, <2>2, <2>11
    <2>13. after.alone => Position(after, set) /\ Written(after, table[k.run])
      BY <2>2, <2>5, <2>9 DEF Written
    <2> HIDE DEF k, set
    <2> QED
      BY <1>1, <1>2, <1>6, <1>7, <2>1, <2>2, <2>4, <2>5, <2>6, <2>12, <2>13, WorkerMoves
      DEF k
  <1>9. CASE k.step = 0 /\ aside # {} /\ Put(k.run, Artifacts[n], k.backups[Artifacts[n]])
             /\ Become(i, [k EXCEPT !.backups[Artifacts[n]] = None])
    <2> DEFINE a == Artifacts[n]
               after == [k EXCEPT !.backups[a] = None]
               set == [old EXCEPT ![a] = k.backups[a]]
    <2>1. Become(i, after) /\ files' = [files EXCEPT ![k.run] = set]
      BY <1>9 DEF Put
    <2>2. /\ DOMAIN after = ImporterFields /\ after.pc = "undo" /\ after.run = k.run
          /\ after.alone = k.alone /\ after.step = 0
          /\ after.version = k.version /\ after.backups = [k.backups EXCEPT ![a] = None]
      BY <1>1, <1>2, <1>9 DEF ImporterShape, ImporterFields
    <2> HIDE DEF after
    <2>3. n \in aside
      BY <1>4, <1>9, FirstOf
    <2> HIDE DEF n, aside
    <2>4. /\ n \in 1..4 /\ a \in Names /\ k.backups[a] # None
          /\ \A m \in 1..4 : Artifacts[m] \in Names /\ (Artifacts[m] = a <=> m = n)
      BY <1>4, <2>3, ArtifactsAre
    <2>5. /\ set \in Asides /\ after.backups \in Asides
          /\ \A name \in Names :
                /\ set[name] = (IF name = a THEN k.backups[a] ELSE old[name])
                /\ after.backups[name] = (IF name = a THEN None ELSE k.backups[name])
      BY <1>2, <1>3, <2>2, <2>4 DEF Asides
    <2>6. Working(after) /\ ~(after.pc \in Finishing)
      BY <2>2 DEF Working, Promoting, Finishing
    <2>7. ImporterShape(after)
      BY <1>2, <1>3, <2>2, <2>5 DEF ImporterShape, Promoting
    <2>8. k.alone => \A m \in 1..4 : k.backups[Artifacts[m]] # None => old[Artifacts[m]] = None
      BY <1>1, <1>2, <1>9 DEF Position
    <2>9. k.alone =>
             \A m \in 1..4 : after.backups[Artifacts[m]] # None => set[Artifacts[m]] = None
      BY <2>4, <2>5, <2>8
    <2>10. k.alone => Position(after, set)
      BY <2>2, <2>9 DEF Position, Finishing
    <2>11. Before(after, set) = Before(k, old)
      BY <1>1, <1>9, <2>2, <2>4, <2>5 DEF Before
    <2>12. after.run \notin disturbed => Belongs(Before(after, set), table[k.run])
      BY <1>2, <2>2, <2>11
    <2>13. after.alone => Position(after, set) /\ Written(after, table[k.run])
      BY <2>2, <2>6, <2>10 DEF Written
    <2> HIDE DEF k, set, a
    <2> QED
      BY <1>1, <1>2, <1>6, <1>7, <2>1, <2>2, <2>5, <2>6, <2>7, <2>12, <2>13, WorkerMoves
      DEF k
  <1>10. CASE k.step = 0 /\ aside = {} /\ UNCHANGED artifacts
              /\ Become(i, [k EXCEPT !.pc = "discard"])
    <2> DEFINE after == [k EXCEPT !.pc = "discard"]
    <2>1. Become(i, after) /\ UNCHANGED <<files, table, disturbed, clock, imports>>
      BY <1>5, <1>10 DEF artifacts
    <2>2. /\ DOMAIN after = ImporterFields /\ after.pc = "discard" /\ after.run = k.run
          /\ after.backups = k.backups
      BY <1>2 DEF ImporterShape, ImporterFields
    <2> HIDE DEF after
    <2>3. ~Working(after) /\ after.pc \notin Promoting /\ after.pc \notin Finishing
      BY <2>2 DEF Working, Promoting, Finishing
    <2>4. ImporterShape(after)
      BY <1>2, <2>2, <2>3 DEF ImporterShape, Working
    <2>5. \A name \in Names : k.backups[name] = None
      BY <1>4, <1>10, ArtifactsAre
    <2>6. Before(k, old) = old
      BY <1>1, <1>2, <1>10, <2>5 DEF Before, Asides
    <2>7. after.run \notin disturbed => Belongs(old, table[k.run])
      BY <1>2, <2>2, <2>6
    <2> HIDE DEF k
    <2> QED
      BY <1>1, <2>1, <2>2, <2>3, <2>4, <2>7, WorkerPasses DEF k
  <1> QED
    BY <1>8, <1>9, <1>10 DEF Undo

\* A file that cannot be put back: nothing moves, and the run is disturbed.
LEMMA UndoFailsKeeps ==
    ASSUME ImportInv, NEW i \in Importers, UndoFails(i)
    PROVE  ImportInv'
  <1> DEFINE k == importers[i]
             aside == ToRestore(k)
             n == CHOOSE m \in aside : \A other \in aside : m <= other
  <1>1. /\ k.pc = "undo" /\ Working(k) /\ ImporterShape(k)
        /\ k.step \in 0..3 /\ k.backups \in Asides /\ k.version \in Version
    BY DEF UndoFails, At, Working, Promoting, ImportInv, Tables, ImporterShape
  <1>2. UNCHANGED <<files, table, clock, imports>> /\ disturbed' = disturbed \cup {k.run}
    BY DEF UndoFails, artifacts, database
  <1>3. PICK after : /\ Become(i, after) /\ ImporterShape(after)
                     /\ after.pc = "undo" /\ after.run = k.run /\ ~after.alone
    <2>1. ASSUME k.step > 0, Become(i, [k EXCEPT !.alone = FALSE, !.step = @ - 1])
          PROVE  \E after : /\ Become(i, after) /\ ImporterShape(after)
                            /\ after.pc = "undo" /\ after.run = k.run /\ ~after.alone
      <3> DEFINE after == [k EXCEPT !.alone = FALSE, !.step = @ - 1]
      <3>1. /\ DOMAIN after = ImporterFields /\ after.pc = "undo" /\ after.run = k.run
            /\ after.step = k.step - 1 /\ after.version = k.version
            /\ after.backups = k.backups /\ ~after.alone
        BY <1>1 DEF ImporterShape, ImporterFields
      <3>2. Become(i, after)
        BY <2>1
      <3> HIDE DEF after
      <3>3. ImporterShape(after)
        BY <1>1, <2>1, <3>1 DEF ImporterShape, Promoting
      <3> QED
        BY <3>1, <3>2, <3>3
    <2>2. ASSUME aside # {},
                 Become(i, [k EXCEPT !.alone = FALSE, !.backups[Artifacts[n]] = None])
          PROVE  \E after : /\ Become(i, after) /\ ImporterShape(after)
                            /\ after.pc = "undo" /\ after.run = k.run /\ ~after.alone
      <3> DEFINE a == Artifacts[n]
                 after == [k EXCEPT !.alone = FALSE, !.backups[a] = None]
      <3>1. /\ DOMAIN after = ImporterFields /\ after.pc = "undo" /\ after.run = k.run
            /\ after.step = k.step /\ after.version = k.version
            /\ after.backups = [k.backups EXCEPT ![a] = None] /\ ~after.alone
        BY <1>1 DEF ImporterShape, ImporterFields
      <3>2. Become(i, after)
        BY <2>2
      <3> HIDE DEF after, n
      <3>3. after.backups \in Asides
        BY <1>1, <3>1 DEF Asides
      <3>4. ImporterShape(after)
        BY <1>1, <3>1, <3>3 DEF ImporterShape, Promoting
      <3> QED
        BY <3>1, <3>2, <3>4
    <2> QED
      BY <2>1, <2>2 DEF UndoFails
  <1> HIDE DEF k, n, aside
  <1>4. /\ DOMAIN importers = Importers /\ DOMAIN importers' = Importers
        /\ \A j \in Importers : importers'[j] = IF j = i THEN after ELSE importers[j]
    BY <1>3 DEF Become, ImportInv, Tables
  <1>5. Working(after) /\ after.pc \notin Finishing
    BY <1>3 DEF Working, Promoting, Finishing
  <1>6. Tables'
    BY <1>2, <1>3, <1>4 DEF ImportInv, Tables, ImporterShape, Working
  <1>7. /\ \A j \in Importers : Working(importers'[j]) = Working(importers[j])
        /\ \A j \in Importers : importers'[j].run = importers[j].run
        /\ \A j \in Importers : importers'[j].alone => j # i
    <2>1. Working(importers[i]) /\ importers[i].run = after.run
      BY <1>1, <1>3 DEF k
    <2> QED
      BY <1>3, <1>4, <1>5, <2>1 DEF Working
  <1>8. Alone'
    <2>1. ASSUME NEW j \in Importers, NEW h \in Importers, j # h, importers'[j].alone,
                 Working(importers'[j]), Working(importers'[h])
          PROVE  importers'[j].run # importers'[h].run
      <3>1. Working(importers[j]) /\ Working(importers[h]) /\ importers[j].alone
        BY <1>4, <1>7, <2>1
      <3> QED
        BY <1>7, <2>1, <3>1 DEF Alone, ImportInv
    <2>2. ASSUME NEW j \in Importers, Working(importers'[j]),
                 importers'[j].run \notin disturbed'
          PROVE  importers'[j].alone
      <3>1. j # i /\ importers[j].run \notin disturbed
        BY <1>2, <1>3, <1>4, <2>2
      <3> QED
        BY <1>4, <2>2, <3>1 DEF Alone, ImportInv
    <2> QED
      BY <2>1, <2>2 DEF Alone, Working
  <1>9. Owns'
    <2> SUFFICES ASSUME NEW j \in Importers, Working(importers'[j]), importers'[j].alone
                 PROVE  Position(importers'[j], files'[importers'[j].run])
                        /\ Written(importers'[j], table'[importers'[j].run])
      BY DEF Owns, Working, Position, Written
    <2>1. importers'[j] = importers[j]
      BY <1>4, <1>7
    <2> QED
      BY <1>2, <2>1 DEF Owns, ImportInv
  <1>10. Restorable'
    <2> SUFFICES ASSUME NEW j \in Importers, importers'[j].pc \in Promoting,
                        importers'[j].run \notin disturbed'
                 PROVE  Belongs(Before(importers'[j], files'[importers'[j].run]),
                                table'[importers'[j].run])
      BY DEF Restorable, Before, Belongs
    <2>1. j # i /\ importers[j].run \notin disturbed
      BY <1>2, <1>3, <1>4
    <2> QED
      BY <1>2, <1>4, <2>1 DEF Restorable, ImportInv
  <1>11. QuietRunIsWhole'
    <2> SUFFICES ASSUME NEW r \in Runs, r \notin disturbed',
                        \A j \in Importers : ~(importers'[j].run = r /\ Working(importers'[j]))
                 PROVE  Belongs(files'[r], table'[r])
      BY DEF QuietRunIsWhole, Works, Working, Belongs
    <2>1. \A j \in Importers : ~(importers[j].run = r /\ Working(importers[j]))
      BY <1>7
    <2>2. \A j \in Importers : ~Works(j, r)
      BY <2>1 DEF Works, Working
    <2> QED
      BY <1>2, <2>2 DEF QuietRunIsWhole, ImportInv
  <1>12. Recorded'
    BY <1>2, <1>4, <1>5 DEF Recorded, ImportInv
  <1> QED
    BY <1>6, <1>8, <1>9, <1>10, <1>11, <1>12 DEF ImportInv

LEMMA IdleKeeps ==
    ASSUME ImportInv, NEW i \in Importers, Upload(i) \/ Decode(i) \/ Discard(i)
    PROVE  ImportInv'
  <1>1. UNCHANGED <<files, table, disturbed, clock>>
    BY DEF Upload, Decode, Discard, artifacts, database
  <1>2. /\ ImporterShape(importers[i]) /\ imports \in Nat /\ DOMAIN importers = Importers
    BY DEF ImportInv, Tables
  <1>3. ~Working(importers[i])
    BY DEF Upload, Decode, Discard, At, Working, Resting, Promoting, Finishing
  <1>4. Nothing \in Asides
    BY DEF Nothing, Asides
  <1>5. imports' \in Nat
    <2>1. imports' \in {imports, imports + 1}
      BY DEF Upload, Decode, Discard, bounds
    <2> QED
      BY <1>2, <2>1
  <1>6. PICK k : Become(i, k) /\ ImporterShape(k) /\ ~Working(k)
    <2>1. CASE Upload(i)
      <3>1. PICK d \in Decodings :
               Become(i, [Rests("decode") EXCEPT
                          !.created = ~retained,
                          !.version = [id |-> imports + 1, decoding |-> d]])
        BY <2>1 DEF Upload
      <3> DEFINE v == [id |-> imports + 1, decoding |-> d]
                 k == [Rests("decode") EXCEPT !.created = ~retained, !.version = v]
      <3>2. imports + 1 \in 0..MaxImports
        <4>1. imports < MaxImports
          BY <2>1 DEF Upload
        <4> QED
          BY <1>2, <4>1, ImportAssumption
      <3>3. v \in Version
        BY <3>2 DEF Version
      <3> HIDE DEF v
      <3>4. /\ DOMAIN k = ImporterFields /\ k.pc = "decode" /\ k.run = Canonical
            /\ k.backups = Nothing /\ k.version = v
        BY DEF Rests, ImporterFields
      <3>5. Become(i, k)
        BY <3>1 DEF v
      <3> HIDE DEF k
      <3>6. ~Working(k)
        BY <3>4 DEF Working, Promoting, Finishing
      <3> QED
        BY <1>4, <3>3, <3>4, <3>5, <3>6, ImportAssumption DEF ImporterShape
    <2>2. CASE Decode(i)
      <3> DEFINE k == [importers[i] EXCEPT !.pc = IF retained THEN "owner" ELSE "discard"]
      <3>1. /\ DOMAIN k = ImporterFields /\ k.pc \in {"owner", "discard"}
            /\ k.run = importers[i].run
            /\ k.backups = importers[i].backups /\ k.version = importers[i].version
        BY <1>2 DEF ImporterShape, ImporterFields
      <3> DEFINE none == Rests("unreadable")
      <3>2. (Become(i, k) \/ Become(i, none)) /\ importers[i].pc = "decode"
        BY <2>2 DEF Decode, At
      <3>3. /\ DOMAIN none = ImporterFields /\ none.pc = "unreadable"
            /\ none.run = Canonical /\ none.backups = Nothing
        BY DEF Rests, ImporterFields
      <3> HIDE DEF k, none
      <3>4. ~Working(k) /\ ~Working(none)
        BY <3>1, <3>3 DEF Working, Promoting, Finishing
      <3>5. ImporterShape(k)
        BY <1>2, <3>1, <3>2, <3>4 DEF ImporterShape
      <3>6. ImporterShape(none)
        BY <1>4, <3>3, <3>4, ImportAssumption DEF ImporterShape, Resting
      <3> QED
        BY <3>2, <3>4, <3>5, <3>6
    <2>3. CASE Discard(i)
      <3> DEFINE k == [Rests("failed") EXCEPT !.run = importers[i].run]
      <3>1. /\ DOMAIN k = ImporterFields /\ k.pc = "failed" /\ k.run = importers[i].run
            /\ k.backups = Nothing
        BY DEF Rests, ImporterFields
      <3>2. Become(i, k)
        BY <2>3 DEF Discard
      <3> HIDE DEF k
      <3>3. ~Working(k)
        BY <3>1 DEF Working, Promoting, Finishing
      <3> QED
        BY <1>2, <1>4, <3>1, <3>2, <3>3 DEF ImporterShape, Resting
    <2> QED
      BY <2>1, <2>2, <2>3
  <1>7. DOMAIN importers' = Importers
        /\ \A j \in Importers : importers'[j] = IF j = i THEN k ELSE importers[j]
    BY <1>2, <1>6 DEF Become
  <1> QED
    BY <1>1, <1>3, <1>5, <1>6, <1>7, IdleMoves

\* The run is chosen: alone on it, or with others, which disturbs the run.
LEMMA ChooseOwnerKeeps ==
    ASSUME ImportInv, NEW i \in Importers, ChooseOwner(i)
    PROVE  ImportInv'
  <1> DEFINE k == importers[i]
  <1>1. k.pc = "owner" /\ ~Working(k) /\ ImporterShape(k)
    BY DEF ChooseOwner, At, Working, Promoting, Finishing, ImportInv, Tables
  <1>2. UNCHANGED <<files, table, clock, imports>>
    BY DEF ChooseOwner, artifacts, database, bounds
  <1>3. PICK owner \in Owners :
           LET others == {j \in Importers : Works(j, owner)}
           IN  /\ importers' = [j \in Importers |->
                     IF j = i THEN [k EXCEPT !.pc = "backup", !.run = owner,
                                        !.step = 1, !.alone = (others = {})]
                     ELSE IF j \in others THEN [importers[j] EXCEPT !.alone = FALSE]
                     ELSE importers[j]]
               /\ disturbed' = IF others = {} THEN disturbed ELSE disturbed \cup {owner}
    BY DEF ChooseOwner
  <1> DEFINE others == {j \in Importers : Works(j, owner)}
             after == [k EXCEPT !.pc = "backup", !.run = owner,
                                !.step = 1, !.alone = (others = {})]
             joined(j) == [importers[j] EXCEPT !.alone = FALSE]
  <1>4. owner \in Runs
    BY OwnersAreRuns
  <1>5. /\ DOMAIN after = ImporterFields /\ after.pc = "backup" /\ after.run = owner
        /\ after.step = 1 /\ after.backups = Nothing /\ after.version \in Version
        /\ after.alone <=> others = {}
    <2> DEFINE none == (others = {})
    <2>1. after.alone = none
      BY <1>1 DEF ImporterShape, ImporterFields
    <2>2. /\ DOMAIN after = ImporterFields /\ after.pc = "backup" /\ after.run = owner
          /\ after.step = 1 /\ after.backups = Nothing /\ after.version \in Version
      BY <1>1 DEF ImporterShape, ImporterFields
    <2> QED
      BY <2>1, <2>2
  <1>6. \A j \in Importers :
           /\ DOMAIN joined(j) = ImporterFields /\ joined(j).alone = FALSE
           /\ joined(j).pc = importers[j].pc /\ joined(j).run = importers[j].run
           /\ joined(j).step = importers[j].step
           /\ joined(j).backups = importers[j].backups
           /\ joined(j).version = importers[j].version
    BY DEF ImportInv, Tables, ImporterShape, ImporterFields
  <1>7. /\ DOMAIN importers' = Importers
        /\ importers'[i] = after
        /\ \A j \in Importers \ {i} :
              importers'[j] = IF j \in others THEN joined(j) ELSE importers[j]
    BY <1>3
  <1>8. disturbed' = IF others = {} THEN disturbed ELSE disturbed \cup {owner}
    BY <1>3
  <1> HIDE DEF after, joined
  <1>9. \A j \in Importers \ {i} :
           /\ importers'[j].pc = importers[j].pc /\ importers'[j].run = importers[j].run
           /\ importers'[j].step = importers[j].step
           /\ importers'[j].backups = importers[j].backups
           /\ importers'[j].version = importers[j].version
           /\ DOMAIN importers'[j] = ImporterFields
           /\ Working(importers[j]) /\ importers[j].run = owner => importers'[j].alone = FALSE
           /\ ~(Working(importers[j]) /\ importers[j].run = owner) =>
                 importers'[j] = importers[j]
    <2>1. \A j \in Importers : DOMAIN importers[j] = ImporterFields
      BY DEF ImportInv, Tables, ImporterShape
    <2> QED
      BY <1>6, <1>7, <2>1 DEF Works, Working
  <1>10. ImporterShape(after) /\ Working(after) /\ after.pc \in Promoting
    <2>1. Nothing \in Asides
      BY DEF Nothing, Asides
    <2> QED
      BY <1>4, <1>5, <2>1 DEF ImporterShape, Promoting, Working
  <1>11. Tables'
    <2>1. \A j \in Importers \ {i} : ImporterShape(importers'[j])
      <3> SUFFICES ASSUME NEW j \in Importers \ {i}
                   PROVE  ImporterShape(importers'[j])
        OBVIOUS
      <3>1. ImporterShape(importers[j])
        BY DEF ImportInv, Tables
      <3> QED
        BY <1>9, <3>1 DEF ImporterShape, Working
    <2>2. \A j \in Importers : ImporterShape(importers'[j])
      BY <1>7, <1>10, <2>1
    <2> QED
      BY <1>2, <1>7, <2>2 DEF ImportInv, Tables, ImporterShape, Working
  <1>12. \A j \in Importers \ {i} : Working(importers'[j]) <=> Working(importers[j])
    BY <1>9 DEF Working
  <1>13. Alone'
    <2>1. ASSUME NEW j \in Importers, NEW m \in Importers, j # m,
                 Working(importers'[j]), Working(importers'[m]), importers'[j].alone
          PROVE  importers'[j].run # importers'[m].run
      <3>1. CASE j = i
        <4>1. ~Works(m, owner)
          BY <1>5, <1>7, <2>1, <3>1
        <4> QED
          BY <1>5, <1>7, <1>9, <1>12, <2>1, <3>1, <4>1 DEF Works, Working
      <3>2. CASE j # i
        <4>1. importers'[j] = importers[j] /\ importers[j].run # owner /\ Working(importers[j])
          BY <1>9, <1>12, <2>1, <3>2
        <4>2. CASE m = i
          BY <1>5, <1>7, <4>1, <4>2
        <4>3. CASE m # i
          BY <1>9, <1>12, <2>1, <4>1, <4>3 DEF Alone, ImportInv
        <4> QED
          BY <4>2, <4>3
      <3> QED
        BY <3>1, <3>2
    <2>2. ASSUME NEW j \in Importers, Working(importers'[j]), importers'[j].run \notin disturbed'
          PROVE  importers'[j].alone
      <3>1. CASE j = i
        BY <1>5, <1>7, <1>8, <2>2, <3>1
      <3>2. CASE j # i
        <4>1. Working(importers[j]) /\ importers[j].run = importers'[j].run
          BY <1>9, <1>12, <2>2, <3>2
        <4>2. importers[j].run # owner
          BY <1>8, <2>2, <4>1 DEF Works, Working
        <4>3. importers'[j] = importers[j]
          BY <1>9, <3>2, <4>2
        <4>4. importers[j].run \notin disturbed
          BY <1>8, <2>2, <4>1
        <4> QED
          BY <4>1, <4>3, <4>4 DEF Alone, ImportInv
      <3> QED
        BY <3>1, <3>2
    <2> QED
      BY <2>1, <2>2 DEF Alone, Working
  <1>14. Recorded'
    BY <1>2, <1>5, <1>7, <1>9 DEF Recorded, ImportInv, Finishing
  <1>15. Owns'
    <2> SUFFICES ASSUME NEW j \in Importers, Working(importers'[j]), importers'[j].alone
                 PROVE  Position(importers'[j], files[importers'[j].run])
                        /\ Written(importers'[j], table[importers'[j].run])
      BY <1>2 DEF Owns, Working, Position, Written
    <2>1. CASE j = i
      <3>1. \A n \in 1..4 : after.backups[Artifacts[n]] = None
        BY <1>5, ArtifactsAre DEF Nothing
      <3> QED
        BY <1>5, <1>7, <2>1, <3>1 DEF Position, Written, Finishing
    <2>2. CASE j # i
      <3>1. importers'[j] = importers[j] /\ Working(importers[j])
        BY <1>9, <1>12, <2>2
      <3> QED
        BY <3>1 DEF Owns, ImportInv
    <2> QED
      BY <2>1, <2>2
  <1>16. Restorable'
    <2> SUFFICES ASSUME NEW j \in Importers, importers'[j].pc \in Promoting,
                        importers'[j].run \notin disturbed'
                 PROVE  Belongs(Before(importers'[j], files'[importers'[j].run]),
                                table'[importers'[j].run])
      BY DEF Restorable, Before, Belongs
    <2>1. CASE j = i
      <3>1. owner \notin disturbed /\ others = {}
        BY <1>5, <1>7, <1>8, <2>1
      <3>2. Belongs(files[owner], table[owner])
        BY <1>4, <3>1 DEF QuietRunIsWhole, ImportInv
      <3>3. files[owner] \in Asides
        BY <1>4 DEF ImportInv, Tables
      <3>4. Before(after, files[owner]) = files[owner]
        BY <1>5, <3>3 DEF Before, Nothing, Asides
      <3> QED
        BY <1>2, <1>5, <1>7, <2>1, <3>2, <3>4
    <2>2. CASE j # i
      <3>1. importers[j].pc \in Promoting /\ importers[j].run = importers'[j].run
        BY <1>9, <2>2
      <3>2. importers[j].run # owner
        BY <1>8, <3>1 DEF Works, Working
      <3>3. importers'[j] = importers[j] /\ importers[j].run \notin disturbed
        BY <1>8, <1>9, <2>2, <3>1, <3>2
      <3> QED
        BY <1>2, <3>1, <3>3 DEF Restorable, ImportInv
    <2> QED
      BY <2>1, <2>2
  <1>17. QuietRunIsWhole'
    <2> SUFFICES ASSUME NEW r \in Runs, r \notin disturbed',
                        \A j \in Importers : ~(importers'[j].run = r /\ Working(importers'[j]))
                 PROVE  Belongs(files[r], table[r])
      BY <1>2 DEF QuietRunIsWhole, Works, Working, Belongs
    <2>1. r \notin disturbed
      BY <1>8
    <2>2. \A j \in Importers : ~Works(j, r)
      BY <1>1, <1>9, <1>12 DEF Works, Working
    <2> QED
      BY <2>1, <2>2 DEF QuietRunIsWhole, ImportInv
  <1> QED
    BY <1>11, <1>13, <1>14, <1>15, <1>16, <1>17 DEF ImportInv

\* Who worked when the process died disturbed its run.
LEMMA DeathKeeps ==
    ASSUME ImportInv, Crash
    PROVE  ImportInv'
  <1>1. UNCHANGED <<files, table, clock, imports>>
        /\ disturbed' = disturbed \cup {r \in Runs : \E i \in Importers : Works(i, r)}
    BY DEF Crash, database
  <1>2. /\ DOMAIN importers' = Importers
        /\ \A i \in Importers :
              importers'[i] = IF importers[i].pc \in Resting THEN importers[i] ELSE Rests("lost")
    BY DEF Crash
  <1>3. ImporterShape(Rests("lost")) /\ ~Working(Rests("lost"))
    <2> DEFINE k == Rests("lost")
    <2>1. /\ DOMAIN k = ImporterFields /\ k.pc = "lost" /\ k.run = Canonical
          /\ k.backups = Nothing
      BY DEF Rests, ImporterFields
    <2> HIDE DEF k
    <2>2. ~Working(k)
      BY <2>1 DEF Working, Promoting, Finishing
    <2>3. Nothing \in Asides
      BY DEF Nothing, Asides
    <2>4. ImporterShape(k)
      BY <2>1, <2>2, <2>3, ImportAssumption DEF ImporterShape, Resting
    <2> QED
      BY <2>2, <2>4 DEF k
  <1>4. \A i \in Importers : ImporterShape(importers'[i]) /\ ~Working(importers'[i])
    BY <1>2, <1>3 DEF ImportInv, Tables, Working, Resting, Promoting, Finishing
  <1>5. Tables'
    BY <1>1, <1>2, <1>4 DEF ImportInv, Tables, ImporterShape, Working
  <1>6. Alone' /\ Recorded' /\ Owns' /\ Restorable'
    <2>1. \A i \in Importers : importers'[i].pc \notin Promoting
      BY <1>4 DEF Working
    <2>2. Restorable'
      <3> SUFFICES ASSUME NEW i \in Importers, importers'[i].pc \in Promoting
                   PROVE  FALSE
        BY DEF Restorable
      <3> QED
        BY <2>1
    <2> QED
      BY <1>4, <2>2 DEF Alone, Recorded, Owns, Working
  <1>7. QuietRunIsWhole'
    <2>1. \A r \in Runs \ disturbed' : Belongs(files[r], table[r])
      BY <1>1 DEF QuietRunIsWhole, ImportInv
    <2> QED
      BY <1>1, <2>1 DEF QuietRunIsWhole, Belongs
  <1> QED
    BY <1>5, <1>6, <1>7 DEF ImportInv

LEMMA ImportStep ==
    ASSUME ImportInv, [Next]_vars
    PROVE  ImportInv'
  <1>1. ASSUME UNCHANGED <<files, table, importers, disturbed, clock>>, imports' = imports
        PROVE  ImportInv'
    <2>1. imports' \in Nat /\ DOMAIN importers' = Importers
      BY <1>1 DEF ImportInv, Tables
    <2> QED
      BY <1>1, <2>1, IdleMoves
  <1>2. ASSUME NEW i \in Importers, Upload(i) \/ Import(i)
        PROVE  ImportInv'
    BY <1>2, IdleKeeps, ChooseOwnerKeeps, BackupKeeps, PlaceKeeps, InvalidateKeeps,
       SaveKeeps, FinishKeeps, SegmentsKeeps, FailKeeps, UndoKeeps, UndoFailsKeeps
    DEF Import
  <1>3. ASSUME NEW x \in Readers, ReadManifest(x) \/ Read(x)
        PROVE  ImportInv'
    BY <1>1, <1>3 DEF ReadManifest, Read, Hash, Sign, Lookup, ReadFile, Admit, database, bounds
  <1>4. CASE Evict \/ Edit \/ UNCHANGED vars
    BY <1>1, <1>4 DEF Evict, Edit, vars, artifacts, database, bounds
  <1> QED
    BY <1>2, <1>3, <1>4, DeathKeeps DEF Next

LEMMA ImportInit ==
    ASSUME Init
    PROVE  ImportInv
  <1>1. PICK before \in Stored :
           table = before.table /\ files = before.files /\ clock = before.clock
    BY DEF Init
  <1>2. /\ table \in [Runs -> Row \cup {None}] /\ files \in [Runs -> Asides]
        /\ \A r \in Runs : Belongs(files[r], table[r])
    BY <1>1, StoredAssumption DEF Asides
  <1>3. clock \in Nat
    BY <1>1, StoredAssumption
  <1>4. /\ DOMAIN importers = Importers /\ imports \in Nat
        /\ \A i \in Importers : importers[i] = Rests("idle")
    BY DEF Init
  <1>5. ImporterShape(Rests("idle")) /\ ~Working(Rests("idle"))
    <2> DEFINE k == Rests("idle")
    <2>1. /\ DOMAIN k = ImporterFields /\ k.pc = "idle" /\ k.run = Canonical
          /\ k.backups = Nothing
      BY DEF Rests, ImporterFields
    <2> HIDE DEF k
    <2>2. ~Working(k)
      BY <2>1 DEF Working, Promoting, Finishing
    <2>3. Nothing \in Asides
      BY DEF Nothing, Asides
    <2>4. ImporterShape(k)
      BY <2>1, <2>2, <2>3, ImportAssumption DEF ImporterShape, Resting
    <2> QED
      BY <2>2, <2>4 DEF k
  <1>6. Tables
    BY <1>2, <1>3, <1>4, <1>5 DEF Tables
  <1>7. Alone /\ Recorded /\ Owns /\ Restorable
    BY <1>4, <1>5 DEF Alone, Recorded, Owns, Restorable, Working
  <1> QED
    BY <1>2, <1>6, <1>7 DEF ImportInv, QuietRunIsWhole

\* "A failed re-import leaves the previously promoted artifacts in place": the
\* artifacts of a run that no import is at work on are whole and those of its row,
\* whatever failed, unless two imports overlapped on it or one died and no import
\* that was alone has succeeded since.
THEOREM QuietRunsAreWhole == Spec => []QuietRunIsWhole
  <1>1. Init => ImportInv
    BY ImportInit
  <1>2. ImportInv /\ [Next]_vars => ImportInv'
    BY ImportStep
  <1>3. ImportInv => QuietRunIsWhole
    BY DEF ImportInv
  <1> QED
    BY <1>1, <1>2, <1>3, PTL DEF Spec


-----------------------------------------------------------------------------
(***************************************************************************)
(* The sessions.                                                           *)
(***************************************************************************)
\* A session that is there lists different runs.
SessionsSound ==
    /\ sessions \in [Sessions -> Session \cup {None}]
    /\ \A s \in Sessions : sessions[s] # None => Sound(sessions[s])

EditRecord ==
    [pc : {"idle", "write"}, kind : {"add", "remove"}, session : Sessions \cup {None},
     run : Runs \cup {None}, seen : Session \cup {None}]

\* What an edit holds; what it is about to write it computes of a sound session.
EditShape(k) ==
    /\ k \in EditRecord
    /\ k.pc = "write" => k.session \in Sessions /\ k.run \in Runs /\ Sound(k.seen)

\* A rebinding has seen every session that is there: none is made anew.
Seen(k) ==
    /\ k.pc \in {"sessions", "rebind"} => k.run \notin k.aliases
    /\ k.pc = "rebind" => \A s \in Sessions :
          sessions[s] # None => k.seen[s] # None /\ Sound(k.seen[s])

MembersInv ==
    /\ SessionsSound
    /\ editors \in [Editors -> EditRecord]
    /\ \A e \in Editors : EditShape(editors[e])
    /\ \A i \in Importers : Seen(importers[i])

\* An importer goes on, and to no step of the rebinding.
Passes(i) == \E k : Become(i, k) /\ k.pc \notin {"sessions", "rebind"}

LEMMA ImporterPasses ==
    ASSUME ImportInv, NEW i \in Importers,
           \/ Upload(i) \/ Decode(i) \/ Backup(i) \/ Place(i) \/ Invalidate(i) \/ Save(i)
           \/ Rebind(i) \/ Segments(i) \/ Fail(i) \/ FailRebind(i) \/ Undo(i) \/ UndoFails(i)
               \/ Discard(i)
    PROVE  Passes(i)
  <1>0. DOMAIN importers[i] = ImporterFields
    BY DEF ImportInv, Tables, ImporterShape
  <1>1. CASE Upload(i)
    <2>1. PICK d \in Decodings :
             Become(i, [Rests("decode") EXCEPT
                        !.created = ~retained,
                        !.version = [id |-> imports + 1, decoding |-> d]])
      BY <1>1 DEF Upload
    <2> DEFINE k == [Rests("decode") EXCEPT
                        !.created = ~retained,
                        !.version = [id |-> imports + 1, decoding |-> d]]
    <2>2. k.pc = "decode"
      BY DEF Rests
    <2> QED
      BY <2>1, <2>2 DEF Passes
  <1>2. CASE Decode(i)
    <2> DEFINE k == [importers[i] EXCEPT !.pc = IF retained THEN "owner" ELSE "discard"]
    <2>1. k.pc \in {"owner", "discard"} /\ Rests("unreadable").pc = "unreadable"
      BY <1>0 DEF ImporterFields, Rests
    <2> QED
      BY <1>2, <2>1 DEF Decode, Passes
  <1>3. CASE Backup(i)
    <2> DEFINE k == importers[i]
               next == IF k.step = Len(Artifacts) THEN [k EXCEPT !.pc = "place", !.step = 1]
                       ELSE [k EXCEPT !.step = @ + 1]
               after == [next EXCEPT !.backups[Artifacts[k.step]] =
                                        files[k.run][Artifacts[k.step]]]
    <2>1. next.pc \in {"place", "backup"}
      BY <1>0, <1>3 DEF Backup, At, ImporterFields
    <2>2. Become(i, after)
      BY <1>3 DEF Backup
    <2> HIDE DEF next
    <2>3. after.pc = next.pc
      OBVIOUS
    <2> QED
      BY <2>1, <2>2, <2>3 DEF Passes
  <1>4. CASE Place(i)
    <2> DEFINE k == [importers[i] EXCEPT !.step = @ + 1,
                      !.pc = IF importers[i].step = Moved THEN "invalidate" ELSE "place"]
    <2>1. k.pc \in {"invalidate", "place"}
      BY <1>0 DEF ImporterFields
    <2>2. Become(i, k)
      BY <1>4 DEF Place
    <2> QED
      BY <2>1, <2>2 DEF Passes
  <1>5. CASE Invalidate(i)
    <2>1. [importers[i] EXCEPT !.pc = "save"].pc = "save"
      BY <1>0 DEF ImporterFields
    <2> QED
      BY <1>5, <2>1 DEF Invalidate, Passes
  <1>6. CASE Save(i)
    <2> DEFINE k == [importers[i] EXCEPT !.pc = "aliases", !.backups = Nothing, !.step = 0]
    <2>1. k.pc = "aliases"
      BY <1>0 DEF ImporterFields
    <2>2. Become(i, k)
      BY <1>6 DEF Save
    <2> QED
      BY <2>1, <2>2 DEF Passes
  <1>7. CASE Rebind(i)
    <2>1. [importers[i] EXCEPT !.pc = "segments"].pc = "segments"
      BY <1>0 DEF ImporterFields
    <2> QED
      BY <1>7, <2>1 DEF Rebind, Passes
  <1>8. CASE Segments(i)
    <2> DEFINE k == [Rests("ok") EXCEPT !.run = importers[i].run]
    <2>1. k.pc = "ok"
      BY DEF Rests
    <2> QED
      BY <1>8, <2>1 DEF Segments, Passes
  <1>9. CASE Fail(i)
    <2>1. [importers[i] EXCEPT !.pc = "discard"].pc = "discard"
      BY <1>0 DEF ImporterFields
    <2>2. \A step : [importers[i] EXCEPT !.pc = "undo", !.step = step].pc = "undo"
      BY <1>0 DEF ImporterFields
    <2> QED
      BY <1>9, <2>1, <2>2 DEF Fail, Passes
  <1>10. CASE FailRebind(i)
    <2>1. \A pc : [importers[i] EXCEPT !.pc = pc].pc = pc
      BY <1>0 DEF ImporterFields
    <2> QED
      BY <1>10, <2>1 DEF FailRebind, Passes
  <1>11. CASE Undo(i)
    <2>1. importers[i].pc = "undo"
      BY <1>11 DEF Undo, At
    <2>2. ASSUME NEW a, Become(i, [importers[i] EXCEPT !.backups[a] = None])
          PROVE  Passes(i)
      <3>1. [importers[i] EXCEPT !.backups[a] = None].pc = "undo"
        BY <2>1
      <3> QED
        BY <2>2, <3>1 DEF Passes
    <2>3. ASSUME Become(i, [importers[i] EXCEPT !.step = @ - 1])
          PROVE  Passes(i)
      <3>1. [importers[i] EXCEPT !.step = @ - 1].pc = "undo"
        BY <2>1
      <3> QED
        BY <2>3, <3>1 DEF Passes
    <2>4. ASSUME Become(i, [importers[i] EXCEPT !.pc = "discard"])
          PROVE  Passes(i)
      <3>1. [importers[i] EXCEPT !.pc = "discard"].pc = "discard"
        BY <1>0 DEF ImporterFields
      <3> QED
        BY <2>4, <3>1 DEF Passes
    <2> QED
      BY <1>11, <2>2, <2>3, <2>4 DEF Undo
  <1>12. CASE Discard(i)
    <2> DEFINE k == [Rests("failed") EXCEPT !.run = importers[i].run]
    <2>1. k.pc = "failed"
      BY DEF Rests
    <2> QED
      BY <1>12, <2>1 DEF Discard, Passes
  <1>13. CASE UndoFails(i)
    <2>1. importers[i].pc = "undo"
      BY <1>13 DEF UndoFails, At
    <2>2. ASSUME NEW a, Become(i, [importers[i] EXCEPT !.alone = FALSE, !.backups[a] = None])
          PROVE  Passes(i)
      <3>1. [importers[i] EXCEPT !.alone = FALSE, !.backups[a] = None].pc = "undo"
        BY <2>1
      <3> QED
        BY <2>2, <3>1 DEF Passes
    <2>3. ASSUME Become(i, [importers[i] EXCEPT !.alone = FALSE, !.step = @ - 1])
          PROVE  Passes(i)
      <3>1. [importers[i] EXCEPT !.alone = FALSE, !.step = @ - 1].pc = "undo"
        BY <2>1
      <3> QED
        BY <2>3, <3>1 DEF Passes
    <2> QED
      BY <1>13, <2>2, <2>3 DEF UndoFails
  <1> QED
    BY <1>1, <1>2, <1>3, <1>4, <1>5, <1>6, <1>7, <1>8, <1>9, <1>10, <1>11, <1>12, <1>13

\* Sessions are rewritten soundly, and none is made anew.
Rewrites ==
    /\ sessions' \in [Sessions -> Session \cup {None}]
    /\ \A s \in Sessions : sessions'[s] # None => sessions[s] # None /\ Sound(sessions'[s])

\* What was seen before stays seen.
LEMMA SeenStays ==
    ASSUME Rewrites \/ UNCHANGED sessions, NEW k, Seen(k), NEW after,
           \/ after.pc \notin {"sessions", "rebind"}
           \/ /\ after.pc = k.pc /\ after.run = k.run /\ after.aliases = k.aliases
              /\ after.seen = k.seen
    PROVE  /\ after.pc \in {"sessions", "rebind"} => after.run \notin after.aliases
           /\ after.pc = "rebind" => \A s \in Sessions :
                 sessions'[s] # None => after.seen[s] # None /\ Sound(after.seen[s])
  BY DEF Seen, Rewrites

LEMMA MembersMove ==
    ASSUME MembersInv, Rewrites \/ UNCHANGED sessions,
           editors' \in [Editors -> EditRecord], \A e \in Editors : EditShape(editors'[e]),
           \A i \in Importers :
              LET k == importers[i] after == importers'[i]
              IN  \/ after.pc \notin {"sessions", "rebind"}
                  \/ /\ after.pc = k.pc /\ after.run = k.run /\ after.aliases = k.aliases
                     /\ after.seen = k.seen
    PROVE  MembersInv'
  <1>1. SessionsSound'
    BY DEF MembersInv, SessionsSound, Rewrites
  <1>2. ASSUME NEW i \in Importers
        PROVE  /\ importers'[i].pc \in {"sessions", "rebind"} =>
                     importers'[i].run \notin importers'[i].aliases
               /\ importers'[i].pc = "rebind" => \A s \in Sessions :
                     sessions'[s] # None =>
                        importers'[i].seen[s] # None /\ Sound(importers'[i].seen[s])
    <2>1. Seen(importers[i])
      BY DEF MembersInv
    <2> QED
      BY <2>1, SeenStays
  <1> QED
    BY <1>1, <1>2 DEF MembersInv, Seen, EditShape, Sound

LEMMA EditsAreSound ==
    ASSUME MembersInv, NEW e \in Editors, EditWrite(e)
    PROVE  Rewrites
  <1> DEFINE k == editors[e]
             edited == Edited(k)
             now == sessions[k.session]
  <1>1. k.session \in Sessions /\ k.run \in Runs /\ Sound(k.seen)
    BY DEF MembersInv, EditShape, EditWrite, NoEdit
  <1>2. Sound(edited)
    BY <1>1, WithIsSound, WithoutIsSound DEF Edited
  <1>3. sessions' = IF now = None THEN sessions
                    ELSE [sessions EXCEPT ![k.session].runs = edited.runs]
    BY DEF EditWrite
  <1> HIDE DEF edited
  <1>4. CASE now = None
    BY <1>3, <1>4 DEF MembersInv, SessionsSound, Rewrites
  <1>5. CASE now # None
    <2>1. Sound(now)
      BY <1>1, <1>5 DEF MembersInv, SessionsSound
    <2> DEFINE new == [now EXCEPT !.runs = edited.runs]
    <2>2. sessions' = [s \in Sessions |-> IF s = k.session THEN new ELSE sessions[s]]
      BY <1>1, <1>3, <1>5 DEF MembersInv, SessionsSound
    <2>3. new = [runs |-> edited.runs, last |-> now.last]
      BY <2>1 DEF Sound, Session
    <2>4. Sound(new)
      BY <1>2, <2>1, <2>3 DEF Sound, Session
    <2> HIDE DEF new, now
    <2>5. \A s \in Sessions : sessions'[s] # None => sessions[s] # None /\ Sound(sessions'[s])
      BY <1>5, <2>2, <2>4 DEF MembersInv, SessionsSound, now
    <2>6. sessions' \in [Sessions -> Session \cup {None}]
      BY <2>2, <2>4 DEF MembersInv, SessionsSound, Sound
    <2> QED
      BY <2>5, <2>6 DEF Rewrites
  <1> QED
    BY <1>4, <1>5

LEMMA LastIsSound ==
    ASSUME MembersInv, SetLast
    PROVE  Rewrites
  <1>1. PICK s \in Sessions, run \in Runs :
           sessions[s] # None /\ sessions' = [sessions EXCEPT ![s].last = run]
    BY DEF SetLast
  <1> DEFINE now == sessions[s]
             new == [now EXCEPT !.last = run]
  <1>2. Sound(now)
    BY <1>1 DEF MembersInv, SessionsSound
  <1>3. sessions' = [x \in Sessions |-> IF x = s THEN new ELSE sessions[x]]
    BY <1>1 DEF MembersInv, SessionsSound
  <1>4. new = [runs |-> now.runs, last |-> run]
    BY <1>2 DEF Sound, Session
  <1>5. Sound(new)
    BY <1>2, <1>4 DEF Sound, Session
  <1> HIDE DEF new
  <1>6. \A x \in Sessions : sessions'[x] # None => sessions[x] # None /\ Sound(sessions'[x])
    BY <1>1, <1>3, <1>5 DEF MembersInv, SessionsSound
  <1>7. sessions' \in [Sessions -> Session \cup {None}]
    BY <1>3, <1>5 DEF MembersInv, SessionsSound, Sound
  <1> QED
    BY <1>6, <1>7 DEF Rewrites

\* The rebinding writes sound sessions.
LEMMA RebindIsSound ==
    ASSUME ImportInv, MembersInv, NEW i \in Importers, Rebind(i)
    PROVE  Rewrites
  <1> DEFINE k == importers[i]
  <1>1. k.run \in Runs
    BY DEF ImportInv, Tables, ImporterShape
  <1>2. \A s \in Sessions :
           sessions[s] # None => k.seen[s] # None /\ Sound(k.seen[s])
    BY DEF Rebind, At, MembersInv, Seen
  <1>3. \A s \in Sessions : sessions[s] # None =>
           Sound(Rebound(k.seen[s], k.aliases, k.run))
    BY <1>1, <1>2, ReboundIsResolved DEF Sound
  <1>4. sessions' = [s \in Sessions |->
                 IF sessions[s] = None \/ ~ListsAny(k.seen[s], k.aliases) THEN sessions[s]
                 ELSE Rebound(k.seen[s], k.aliases, k.run)]
    BY DEF Rebind
  <1> HIDE DEF k
  <1>5. \A s \in Sessions : sessions'[s] # None => sessions[s] # None /\ Sound(sessions'[s])
    BY <1>3, <1>4 DEF MembersInv, SessionsSound
  <1>6. sessions' \in [Sessions -> Session \cup {None}]
    BY <1>3, <1>4 DEF MembersInv, SessionsSound, Sound
  <1> QED
    BY <1>5, <1>6 DEF Rewrites

LEMMA MembersStep ==
    ASSUME ImportInv, MembersInv, [Next]_vars
    PROVE  MembersInv'
  <1>0. /\ DOMAIN importers = Importers
        /\ editors \in [Editors -> EditRecord] /\ \A e \in Editors : EditShape(editors[e])
        /\ \A j \in Importers : DOMAIN importers[j] = ImporterFields
    BY DEF ImportInv, Tables, ImporterShape, MembersInv
  <1>1. ASSUME NEW i \in Importers, Passes(i), UNCHANGED editors,
               Rewrites \/ UNCHANGED sessions
        PROVE  MembersInv'
    <2>1. PICK k : Become(i, k) /\ k.pc \notin {"sessions", "rebind"}
      BY <1>1 DEF Passes
    <2>2. \A j \in Importers : importers'[j] = IF j = i THEN k ELSE importers[j]
      BY <1>0, <2>1 DEF Become
    <2> QED
      BY <1>0, <1>1, <2>1, <2>2, MembersMove
  <1>2. ASSUME NEW i \in Importers,
               \/ Upload(i) \/ Decode(i) \/ Backup(i) \/ Place(i) \/ Invalidate(i) \/ Save(i)
               \/ Segments(i) \/ Fail(i) \/ FailRebind(i) \/ Undo(i) \/ UndoFails(i)
               \/ Discard(i)
        PROVE  MembersInv'
    <2>1. UNCHANGED <<sessions, editors>>
      BY <1>2 DEF Upload, Decode, Backup, Place, Invalidate, Save, Segments, Fail, FailRebind,
                  Undo, UndoFails, Discard, membership
    <2>2. Passes(i)
      BY <1>2, ImporterPasses
    <2> QED
      BY <1>1, <2>1, <2>2
  <1>3. ASSUME NEW i \in Importers, Rebind(i)
        PROVE  MembersInv'
    BY <1>1, <1>3, ImporterPasses, RebindIsSound DEF Rebind
  <1>4. ASSUME NEW i \in Importers, ChooseOwner(i)
        PROVE  MembersInv'
    <2>1. PICK owner \in Owners :
             LET others == {j \in Importers : Works(j, owner)}
             IN  importers' = [j \in Importers |->
                    IF j = i THEN [importers[i] EXCEPT !.pc = "backup", !.run = owner,
                                       !.step = 1, !.alone = (others = {})]
                    ELSE IF j \in others THEN [importers[j] EXCEPT !.alone = FALSE]
                    ELSE importers[j]]
      BY <1>4 DEF ChooseOwner
    <2>2. importers'[i].pc = "backup"
      BY <1>0, <2>1 DEF ImporterFields
    <2>3. \A j \in Importers \ {i} :
             /\ importers'[j].pc = importers[j].pc /\ importers'[j].run = importers[j].run
             /\ importers'[j].aliases = importers[j].aliases
             /\ importers'[j].seen = importers[j].seen
      BY <1>0, <2>1 DEF ImporterFields
    <2>4. UNCHANGED <<sessions, editors>>
      BY <1>4 DEF ChooseOwner, membership
    <2> QED
      BY <1>0, <2>2, <2>3, <2>4, MembersMove
  <1>5. ASSUME NEW i \in Importers, Aliases(i)
        PROVE  MembersInv'
    <2> DEFINE others == Held \ {importers[i].run}
               k == [importers[i] EXCEPT !.aliases = others,
                        !.pc = IF others = {} THEN "segments" ELSE "sessions"]
    <2>1. Become(i, k) /\ UNCHANGED <<sessions, editors>>
      BY <1>5 DEF Aliases, membership
    <2>2. k.pc \in {"segments", "sessions"} /\ k.run = importers[i].run /\ k.aliases = others
      BY <1>0 DEF ImporterFields
    <2>3. k.run \notin k.aliases
      BY <2>2
    <2> HIDE DEF k, others
    <2>4. \A j \in Importers : importers'[j] = IF j = i THEN k ELSE importers[j]
      BY <1>0, <2>1 DEF Become
    <2>5. \A j \in Importers : Seen(importers[j])'
      BY <2>1, <2>2, <2>3, <2>4 DEF MembersInv, Seen
    <2> QED
      BY <1>0, <2>1, <2>5 DEF MembersInv, SessionsSound
  <1>6. ASSUME NEW i \in Importers, SeeSessions(i)
        PROVE  MembersInv'
    <2> DEFINE k == [importers[i] EXCEPT !.pc = "rebind", !.seen = sessions]
    <2>1. Become(i, k) /\ UNCHANGED <<sessions, editors>> /\ importers[i].pc = "sessions"
      BY <1>6 DEF SeeSessions, membership, At
    <2>2. /\ k.pc = "rebind" /\ k.run = importers[i].run /\ k.seen = sessions
          /\ k.aliases = importers[i].aliases
      BY <1>0 DEF ImporterFields
    <2> HIDE DEF k
    <2>3. \A j \in Importers : importers'[j] = IF j = i THEN k ELSE importers[j]
      BY <1>0, <2>1 DEF Become
    <2>4. k.run \notin k.aliases
      BY <2>1, <2>2 DEF MembersInv, Seen
    <2>5. \A j \in Importers : Seen(importers[j])'
      BY <2>1, <2>2, <2>3, <2>4 DEF MembersInv, Seen, SessionsSound
    <2> QED
      BY <1>0, <2>1, <2>5 DEF MembersInv, SessionsSound
  <1>7. CASE Crash
    <2>1. \A pc : Rests(pc).pc = pc
      BY DEF Rests
    <2>2. \A j \in Importers : importers'[j] \in {importers[j], Rests("lost")}
      BY <1>7 DEF Crash
    <2>3. UNCHANGED sessions /\ editors' = [e \in Editors |-> NoEdit]
      BY <1>7 DEF Crash
    <2>4. NoEdit \in EditRecord /\ EditShape(NoEdit)
      BY DEF EditShape, NoEdit, EditRecord
    <2>5. editors' \in [Editors -> EditRecord] /\ \A e \in Editors : EditShape(editors'[e])
      BY <2>3, <2>4
    <2> QED
      BY <2>1, <2>2, <2>3, <2>5, MembersMove
  <1>8. ASSUME UNCHANGED importers, Rewrites \/ UNCHANGED sessions,
               editors' \in [Editors -> EditRecord], \A e \in Editors : EditShape(editors'[e])
        PROVE  MembersInv'
    BY <1>8, MembersMove
  <1>9. CASE Edit
    <2>1. UNCHANGED importers
      BY <1>9 DEF Edit
    <2>2. ASSUME NEW e \in Editors, EditRead(e) PROVE MembersInv'
      <3>1. PICK s \in Sessions, run \in Runs, kind \in {"add", "remove"} :
               /\ sessions[s] # None
               /\ editors' = [editors EXCEPT ![e] =
                    [pc |-> "write", kind |-> kind, session |-> s, run |-> run,
                     seen |-> sessions[s]]]
        BY <2>2 DEF EditRead
      <3> DEFINE k == [pc |-> "write", kind |-> kind, session |-> s, run |-> run,
                       seen |-> sessions[s]]
      <3>2. EditShape(k)
        BY <3>1 DEF EditShape, EditRecord, MembersInv, SessionsSound
      <3> HIDE DEF k
      <3>3. k \in EditRecord
        BY <3>2 DEF EditShape
      <3>4. /\ editors' \in [Editors -> EditRecord]
            /\ \A x \in Editors : EditShape(editors'[x])
        BY <1>0, <3>1, <3>2, <3>3 DEF k
      <3> QED
        BY <1>8, <2>1, <2>2, <3>4 DEF EditRead
    <2>3. ASSUME NEW e \in Editors, EditWrite(e) PROVE MembersInv'
      <3>1. NoEdit \in EditRecord /\ EditShape(NoEdit)
        BY DEF EditShape, NoEdit, EditRecord
      <3>2. editors' = [editors EXCEPT ![e] = NoEdit]
        BY <2>3 DEF EditWrite
      <3>3. /\ editors' \in [Editors -> EditRecord]
            /\ \A x \in Editors : EditShape(editors'[x])
        BY <1>0, <3>1, <3>2
      <3> QED
        BY <1>8, <2>1, <2>3, <3>3, EditsAreSound
    <2>4. CASE SetLast
      BY <1>0, <1>8, <2>1, <2>4, LastIsSound DEF SetLast
    <2>5. CASE Delete
      <3>1. Rewrites
        BY <2>5 DEF Delete, MembersInv, SessionsSound, Rewrites
      <3> QED
        BY <1>0, <1>8, <2>1, <2>5, <3>1 DEF Delete
    <2> QED
      BY <1>9, <2>2, <2>3, <2>4, <2>5 DEF Edit, EditSessions
  <1>10. CASE Evict \/ UNCHANGED vars
    BY <1>0, <1>8, <1>10 DEF Evict, vars, membership
  <1>11. ASSUME NEW x \in Readers, ReadManifest(x) \/ Read(x)
         PROVE  MembersInv'
    BY <1>0, <1>8, <1>11 DEF ReadManifest, Read, Hash, Sign, Lookup, ReadFile, Admit, membership
  <1> QED
    BY <1>2, <1>3, <1>4, <1>5, <1>6, <1>7, <1>9, <1>10, <1>11 DEF Next, Import

LEMMA MembersInit ==
    ASSUME Init
    PROVE  MembersInv
  <1>1. PICK before \in Stored :
           sessions = [s \in Sessions |-> [runs |-> before.lists, last |-> None]]
    BY DEF Init
  <1>2. before.lists \in Seq(Runs) /\ IsInjective(before.lists)
    BY StoredAssumption
  <1>3. Sound([runs |-> before.lists, last |-> None])
    BY <1>2 DEF Sound, Session
  <1>4. SessionsSound
    BY <1>1, <1>3 DEF SessionsSound, Sound
  <1>5. editors \in [Editors -> EditRecord] /\ \A e \in Editors : EditShape(editors[e])
    BY DEF Init, EditShape, NoEdit, EditRecord
  <1>6. \A i \in Importers : importers[i].pc = "idle"
    BY DEF Init, Rests
  <1> QED
    BY <1>4, <1>5, <1>6 DEF MembersInv, Seen

\* However edits, deletions and rebinds interleave, no session lists a run twice
\* (_load_identity_list would refuse to open it): an edit writes a list it computed
\* of one that was sound when it read it, and the rebinding lists each name once.
THEOREM MembersStayDistinct == Spec => []MembersAreDistinct
  <1>1. Init => ImportInv /\ MembersInv
    BY ImportInit, MembersInit
  <1>2. ImportInv /\ MembersInv /\ [Next]_vars => (ImportInv /\ MembersInv)'
    BY ImportStep, MembersStep
  <1>3. MembersInv => MembersAreDistinct
    BY DEF MembersInv, SessionsSound, Sound, IsInjective, MembersAreDistinct
  <1> QED
    BY <1>1, <1>2, <1>3, PTL DEF Spec

-----------------------------------------------------------------------------
(***************************************************************************)
(* The types.                                                              *)
(***************************************************************************)
Readable == Version \cup {None}
Signatures == [path : Sources, ctime : Nat]
Entries == [signature : Signatures, rows : Readable]

\* What a reader holds to file or to answer.
ReaderShape(k) == k.signature \in Signatures \cup {None} /\ k.rows \in Readable

Typed ==
    /\ rows \in [Runs -> {None} \cup Entries]
    /\ \A x \in Readers : ReaderShape(readers[x])
    /\ retained \in BOOLEAN
    /\ disturbed \subseteq Runs
    /\ events \in 0..MaxEvents

LEMMA FilesAreTyped ==
    ASSUME ImportInv, CacheInv, NEW r \in Runs
    PROVE  Preferred(files[r]) \in Readable /\ Signature(r) \in Signatures \cup {None}
  <1>1. "cache" \in Names /\ "alternate" \in Names
    BY NamesAre
  <1>2. files[r] \in [Names -> Version \cup {None}]
    BY DEF ImportInv, Tables, Asides
  <1>3. Preferred(files[r]) \in Readable
    BY <1>1, <1>2 DEF Preferred, Readable
  <1>4. ctime[r] \in Nat
    BY DEF CacheInv, CacheShape
  <1>5. Signature(r) \in Signatures \cup {None}
    BY <1>4 DEF Signature, Signatures, Sources
  <1> QED
    BY <1>3, <1>5

\* A reader moves on with what is typed; entries are filed typed.
LEMMA ReaderIsTyped ==
    ASSUME CacheInv, Typed, NEW x \in Readers, NEW k, Reader(x, k), ReaderShape(k)
    PROVE  \A y \in Readers : ReaderShape(readers'[y])
  <1>1. \A y \in Readers : readers'[y] = IF y = x THEN k ELSE readers[y]
    BY DEF Reader, CacheInv, CacheShape
  <1> QED
    BY <1>1 DEF Typed

LEMMA ReadKeepsTypes ==
    ASSUME ImportInv, CacheInv, Typed, NEW x \in Readers, ReadManifest(x) \/ Read(x)
    PROVE  rows' \in [Runs -> {None} \cup Entries] /\ \A y \in Readers : ReaderShape(readers'[y])
  <1> DEFINE now == readers[x]
             r == now.run
             Goal == /\ rows' \in [Runs -> {None} \cup Entries]
                     /\ \A y \in Readers : ReaderShape(readers'[y])
  <1>1. DOMAIN now = ReaderFields /\ r \in Runs /\ ReaderShape(now)
    BY DEF CacheInv, CacheShape, Typed
  <1>2. rows \in [Runs -> {None} \cup Entries]
    BY DEF Typed
  <1>3. None \in Readable
    BY DEF Readable
  <1>4. Refused.signature = None /\ Refused.rows = None
    BY DEF Refused, NoRead
  <1>5. ReaderShape(Refused)
    BY <1>3, <1>4 DEF ReaderShape
  <1>6. \A k : \A version \in Readable : ReaderShape(Answer(k, version))
    <2> TAKE k
    <2> TAKE version \in Readable
    <2>1. Answer(k, version).signature = None /\ Answer(k, version).rows = version
      BY DEF Answer, NoRead
    <2> QED
      BY <2>1 DEF ReaderShape
  <1>7. Preferred(files[r]) \in Readable /\ Signature(r) \in Signatures \cup {None}
    BY <1>1, FilesAreTyped
  <1>8. \A pc : ReaderShape([now EXCEPT !.pc = pc])
    BY <1>1 DEF ReaderShape, ReaderFields
  <1>9. CASE ReadManifest(x)
    <2>1. PICK run \in Held :
            LET present == {a \in Sources : InPlace(run, a) # None}
                start == [NoRead EXCEPT !.run = run, !.manifest = InPlace(run, "manifest"),
                             !.during = {Preferred(files[run])}]
            IN  Reader(x, IF Cardinality(present) = 1 /\ InPlace(run, "manifest") # None
                          THEN [start EXCEPT !.pc = "hash",
                                             !.source = CHOOSE a \in present : TRUE]
                          ELSE Refused)
      BY <1>9 DEF ReadManifest
    <2> DEFINE present == {a \in Sources : InPlace(run, a) # None}
               start == [NoRead EXCEPT !.run = run, !.manifest = InPlace(run, "manifest"),
                            !.during = {Preferred(files[run])}]
               k == [start EXCEPT !.pc = "hash", !.source = CHOOSE a \in present : TRUE]
    <2>2. Reader(x, k) \/ Reader(x, Refused)
      BY <2>1
    <2>3. k.signature = None /\ k.rows = None
      BY DEF NoRead
    <2>4. ReaderShape(k)
      BY <1>3, <2>3 DEF ReaderShape
    <2> HIDE DEF k
    <2>5. rows' = rows
      BY <1>9 DEF ReadManifest
    <2> QED
      BY <1>2, <1>5, <2>2, <2>4, <2>5, ReaderIsTyped
  <1>10. CASE Hash(x)
    <2>1. Reader(x, [now EXCEPT !.pc = "sign"]) \/ Reader(x, Refused)
      BY <1>10 DEF Hash
    <2>2. rows' = rows
      BY <1>10 DEF Hash
    <2> QED
      BY <1>2, <1>5, <1>8, <2>1, <2>2, ReaderIsTyped
  <1>11. CASE Sign(x)
    <2> DEFINE k == [now EXCEPT !.pc = "lookup", !.signature = Signature(r)]
    <2>1. Reader(x, k) /\ rows' = rows
      BY <1>11 DEF Sign
    <2>2. k.signature = Signature(r) /\ k.rows = now.rows
      BY <1>1 DEF ReaderFields
    <2>3. ReaderShape(k)
      BY <1>1, <1>7, <2>2 DEF ReaderShape
    <2> HIDE DEF k
    <2> QED
      BY <1>2, <2>1, <2>3, ReaderIsTyped
  <1>12. CASE Lookup(x)
    <2>1. \/ Current(now) /\ Reader(x, Answer(now, rows[r].rows)) /\ rows' = rows
          \/ Reader(x, [now EXCEPT !.pc = "read"]) /\ rows' = [rows EXCEPT ![r] = None]
      BY <1>12 DEF Lookup
    <2>2. CASE Current(now) /\ Reader(x, Answer(now, rows[r].rows)) /\ rows' = rows
      <3>1. rows[r] \in Entries
        BY <1>1, <1>2, <2>2 DEF Current
      <3>2. rows[r].rows \in Readable
        BY <3>1 DEF Entries
      <3> QED
        BY <1>2, <1>6, <2>2, <3>2, ReaderIsTyped
    <2>3. CASE Reader(x, [now EXCEPT !.pc = "read"]) /\ rows' = [rows EXCEPT ![r] = None]
      BY <1>2, <1>8, <2>3, ReaderIsTyped
    <2> QED
      BY <2>1, <2>2, <2>3
  <1>13. CASE ReadFile(x)
    <2> DEFINE k == [now EXCEPT !.pc = "admit", !.rows = Preferred(files[r])]
    <2>1. Reader(x, k) /\ rows' = rows
      BY <1>13 DEF ReadFile
    <2>2. k.signature = now.signature /\ k.rows = Preferred(files[r])
      BY <1>1 DEF ReaderFields
    <2>3. ReaderShape(k)
      BY <1>1, <1>7, <2>2 DEF ReaderShape
    <2> HIDE DEF k
    <2> QED
      BY <1>2, <2>1, <2>3, ReaderIsTyped
  <1>14. CASE Admit(x)
    <2>1. /\ Reader(x, Answer(now, now.rows))
          /\ \/ rows' = rows
             \/ now.signature # None /\ rows' = [rows EXCEPT ![r] = Entry(now)]
      BY <1>14 DEF Admit
    <2>2. now.signature # None => Entry(now) \in Entries
      BY <1>1 DEF ReaderShape, Entry, Entries
    <2>3. rows' \in [Runs -> {None} \cup Entries]
      BY <1>2, <2>1, <2>2
    <2>4. ReaderShape(Answer(now, now.rows))
      BY <1>1, <1>6 DEF ReaderShape
    <2> QED
      BY <2>1, <2>3, <2>4, ReaderIsTyped
  <1> QED
    BY <1>9, <1>10, <1>11, <1>12, <1>13, <1>14 DEF Read

\* Moves and dropped entries.
LEMMA ImportKeepsReaders ==
    ASSUME CacheInv, Typed, UNCHANGED cached \/ Moves \/ Drops
    PROVE  rows' \in [Runs -> {None} \cup Entries] /\ \A y \in Readers : ReaderShape(readers'[y])
  <1>1. CASE UNCHANGED cached
    BY <1>1 DEF cached, Typed
  <1>2. CASE Moves
    <2>1. PICK run, a, version : Put(run, a, version) /\ rows' = rows
      BY <1>2 DEF Moves
    <2>2. \A x \in Readers : readers'[x].signature = readers[x].signature
                             /\ readers'[x].rows = readers[x].rows
      BY <2>1 DEF Put, CacheInv, CacheShape, ReaderFields
    <2> QED
      BY <2>1, <2>2 DEF Typed, ReaderShape
  <1>3. CASE Drops
    BY <1>3 DEF Drops, Typed
  <1> QED
    BY <1>1, <1>2, <1>3

LEMMA TypedStep ==
    ASSUME ImportInv, CacheInv, Typed, [Next]_vars
    PROVE  Typed'
  <1> DEFINE ReadsTyped == /\ rows' \in [Runs -> {None} \cup Entries]
                      /\ \A y \in Readers : ReaderShape(readers'[y])
  <1>0. MaxEvents \in Nat /\ events \in 0..MaxEvents
    BY ImportAssumption DEF Typed
  <1>1. ASSUME ReadsTyped, retained' \in BOOLEAN, disturbed' \subseteq Runs,
               events' = events \/ (events < MaxEvents /\ events' = events + 1)
        PROVE  Typed'
    BY <1>0, <1>1 DEF Typed, ReaderShape
  <1>2. retained \in BOOLEAN /\ disturbed \subseteq Runs
    BY DEF Typed
  <1>3. ASSUME NEW i \in Importers, Upload(i) \/ Import(i) PROVE Typed'
    <2>1. ReadsTyped
      BY <1>3, ImportShape, ImportKeepsReaders
    <2>2. retained' \in BOOLEAN
      BY <1>2, <1>3 DEF Import, Upload, Decode, ChooseOwner, Backup, Place, Invalidate, Save,
                        Aliases, SeeSessions, Rebind, Segments, Fail, FailRebind, Undo, UndoFails,
                  Discard,
                        KeptAfterFailure
    <2>5. importers[i].run \in Runs
      BY DEF ImportInv, Tables, ImporterShape
    <2>3. disturbed' \subseteq Runs
      BY <1>2, <1>3, <2>5, OwnersAreRuns
         DEF Import, Upload, Decode, ChooseOwner, Backup, Place, Invalidate, Save,
             Aliases, SeeSessions, Rebind, Segments, Fail, FailRebind, Undo, UndoFails,
                  Discard
    <2>4. events' = events \/ (events < MaxEvents /\ events' = events + 1)
      BY <1>3 DEF Import, Upload, Decode, ChooseOwner, Backup, Place, Invalidate, Save,
                  Aliases, SeeSessions, Rebind, Segments, Fail, FailRebind, Undo, UndoFails,
                  Discard, bounds
    <2> QED
      BY <1>1, <2>1, <2>2, <2>3, <2>4
  <1>4. ASSUME NEW x \in Readers, ReadManifest(x) \/ Read(x) PROVE Typed'
    <2>1. ReadsTyped
      BY <1>4, ReadKeepsTypes
    <2>2. UNCHANGED <<retained, disturbed>>
      BY <1>4 DEF ReadManifest, Read, Hash, Sign, Lookup, ReadFile, Admit
    <2>3. events' = events \/ (events < MaxEvents /\ events' = events + 1)
      BY <1>4 DEF ReadManifest, Read, Hash, Sign, Lookup, ReadFile, Admit, bounds
    <2> QED
      BY <1>1, <1>2, <2>1, <2>2, <2>3
  <1>5. CASE Evict
    <2>1. Drops /\ UNCHANGED <<retained, disturbed, events>>
      BY <1>5 DEF Evict, Drops, artifacts, bounds
    <2> QED
      BY <1>1, <1>2, <2>1, ImportKeepsReaders
  <1>6. CASE Edit
    <2>1. UNCHANGED cached /\ UNCHANGED <<retained, disturbed>>
      BY <1>6 DEF Edit, cached, artifacts
    <2>2. events' = events \/ (events < MaxEvents /\ events' = events + 1)
      BY <1>6 DEF Edit, EditSessions, EditRead, EditWrite, SetLast, Delete
    <2> QED
      BY <1>1, <1>2, <2>1, <2>2, ImportKeepsReaders
  <1>7. CASE Crash
    <2>1. NoRead.signature = None /\ NoRead.rows = None
      BY DEF NoRead
    <2>2. \A y \in Readers : readers'[y] \in {NoRead, readers[y]}
      BY <1>7 DEF Crash
    <2>3. ReadsTyped
      BY <1>7, <2>1, <2>2 DEF Crash, Typed, ReaderShape, Readable
    <2>4. disturbed' \subseteq Runs
      BY <1>2, <1>7 DEF Crash
    <2> QED
      BY <1>1, <1>2, <1>7, <2>3, <2>4 DEF Crash
  <1>8. CASE UNCHANGED vars
    BY <1>0, <1>8 DEF vars, Typed, ReaderShape
  <1> QED
    BY <1>3, <1>4, <1>5, <1>6, <1>7, <1>8 DEF Next

LEMMA TypedInit ==
    ASSUME Init
    PROVE  Typed
  <1>1. NoRead.signature = None /\ NoRead.rows = None
    BY DEF NoRead
  <1>2. \A x \in Readers : ReaderShape(readers[x])
    BY <1>1 DEF Init, ReaderShape, Readable
  <1>3. events \in 0..MaxEvents
    BY ImportAssumption DEF Init
  <1> QED
    BY <1>2, <1>3 DEF Init, Typed

\* Every variable holds what it is declared to hold; an entry of the rows cache is
\* never filed without the signature of a file.
THEOREM TypesAreKept == Spec => []TypeOK
  <1> DEFINE Inv == ImportInv /\ CacheInv /\ MembersInv /\ Typed
  <1>1. Init => Inv
    BY ImportInit, CacheInit, MembersInit, TypedInit
  <1>2. Inv /\ [Next]_vars => Inv'
    BY ImportStep, CacheStep, MembersStep, TypedStep
  <1>3. Inv => TypeOK
    <2> SUFFICES ASSUME Inv PROVE TypeOK
      OBVIOUS
    <2>1. MembershipTypeOK
      BY DEF MembershipTypeOK, MembersInv, SessionsSound, EditRecord, Typed
    <2>2. files \in [Runs -> [Names -> Version \cup {None}]] /\ table \in [Runs -> Row \cup {None}]
      BY DEF ImportInv, Tables, Asides
    <2>3. rows \in [Runs -> {None} \cup
             [signature : [path : Sources, ctime : Nat], rows : Version \cup {None}]]
      BY DEF Typed, Entries, Signatures, Readable
    <2>4. \A i \in Importers :
             /\ importers[i].pc \in Resting \cup Promoting \cup Finishing
                                   \cup {"decode", "owner", "discard"}
             /\ importers[i].run \in Runs
             /\ importers[i].backups \in [Names -> Version \cup {None}]
      BY DEF ImportInv, Tables, ImporterShape, Asides
    <2>5. \A x \in Readers : readers[x].rows \in Version \cup {None}
      BY DEF Typed, ReaderShape, Readable
    <2> QED
      BY <2>1, <2>2, <2>3, <2>4, <2>5 DEF TypeOK, Typed
  <1> HIDE DEF Inv
  <1>4. Spec => []Inv
    BY <1>1, <1>2, PTL DEF Spec
  <1> QED
    BY <1>3, <1>4, PTL

-----------------------------------------------------------------------------
(***************************************************************************)
(* The rebinding converges.                                                *)
(***************************************************************************)
\* Every importer but one stays as it is.
Others(i) == \A j \in Importers \ {i} : importers'[j] = importers[j]

LEMMA OneImporterMoves ==
    ASSUME ImportInv, NEW i \in Importers, Passes(i) \/ Aliases(i) \/ SeeSessions(i)
    PROVE  Others(i)
  <1>1. \E k : Become(i, k)
    BY DEF Passes, Aliases, SeeSessions
  <1>2. DOMAIN importers = Importers
    BY DEF ImportInv, Tables
  <1> QED
    BY <1>1, <1>2 DEF Become, Others

\* An importer leaves the rebinding by it, or because it failed.
LEMMA LeavesRebind ==
    ASSUME ImportInv, [Next]_vars, NEW i \in Importers,
           At(i, "rebind"), importers'[i].pc = "segments"
    PROVE  Rebind(i) \/ FailRebind(i)
  <1>0. importers'[i] # importers[i] /\ importers[i].pc = "rebind"
        /\ DOMAIN importers = Importers /\ DOMAIN importers[i] = ImporterFields
    BY DEF At, ImportInv, Tables, ImporterShape
  <1>1. ASSUME NEW j \in Importers, Upload(j) \/ Import(j), ~ChooseOwner(j)
        PROVE  j = i
    <2>1. Others(j)
      BY <1>1, ImporterPasses, OneImporterMoves DEF Import
    <2> QED
      BY <1>0, <2>1 DEF Others
  <1>2. ASSUME NEW j \in Importers, ChooseOwner(j)
        PROVE  FALSE
    <2>1. PICK owner \in Owners :
             LET others == {x \in Importers : Works(x, owner)}
             IN  importers' = [x \in Importers |->
                    IF x = j THEN [importers[j] EXCEPT !.pc = "backup", !.run = owner,
                                       !.step = 1, !.alone = (others = {})]
                    ELSE IF x \in others THEN [importers[x] EXCEPT !.alone = FALSE]
                    ELSE importers[x]]
      BY <1>2 DEF ChooseOwner
    <2>2. i # j
      BY <1>0, <1>2 DEF ChooseOwner, At
    <2>3. importers'[i] \in {[importers[i] EXCEPT !.alone = FALSE], importers[i]}
      BY <2>1, <2>2
    <2>4. [importers[i] EXCEPT !.alone = FALSE].pc = importers[i].pc
      BY <1>0 DEF ImporterFields
    <2> QED
      BY <1>0, <2>3, <2>4
  <1>3. ASSUME Upload(i) \/ Import(i), ~ChooseOwner(i)
        PROVE  Rebind(i) \/ FailRebind(i)
    BY <1>0, <1>3 DEF Import, Upload, Decode, Backup, Place, Invalidate, Save, Aliases,
                      SeeSessions, Segments, Fail, Undo, UndoFails, Discard, At, Resting
  <1>4. CASE Crash
    <2>1. importers'[i] \in {importers[i], Rests("lost")}
      BY <1>4 DEF Crash
    <2>2. Rests("lost").pc = "lost"
      BY DEF Rests
    <2> QED
      BY <1>0, <2>1, <2>2
  <1>5. ASSUME UNCHANGED importers PROVE FALSE
    BY <1>0, <1>5
  <1>6. CASE Evict \/ Edit \/ UNCHANGED vars
    BY <1>5, <1>6 DEF Evict, Edit, vars
  <1>7. ASSUME NEW x \in Readers, ReadManifest(x) \/ Read(x) PROVE FALSE
    BY <1>5, <1>7 DEF ReadManifest, Read, Hash, Sign, Lookup, ReadFile, Admit
  <1> QED
    BY <1>1, <1>2, <1>3, <1>4, <1>6, <1>7 DEF Next

\* What a rebinding leaves in a session it has seen as it is.
LEMMA RebindLeaves ==
    ASSUME ImportInv, MembersInv, NEW i \in Importers, Rebind(i),
           importers[i].seen = sessions, NEW s \in Sessions, sessions[s] # None
    PROVE  /\ ~ListsAny(sessions'[s], importers[i].aliases)
           /\ \A r \in Runs \ importers[i].aliases :
                 Lists(sessions[s], r) => Lists(sessions'[s], r)
  <1> DEFINE k == importers[i]
             now == sessions[s]
  <1>1. k.run \in Runs /\ k.run \notin k.aliases
    BY DEF ImportInv, Tables, ImporterShape, Rebind, At, MembersInv, Seen
  <1>2. now \in Session
    BY DEF MembersInv, SessionsSound, Sound
  <1>3. sessions'[s] = IF ~ListsAny(now, k.aliases) THEN now
                       ELSE Rebound(now, k.aliases, k.run)
    BY DEF Rebind
  <1>4. \A r : Lists(Rebound(now, k.aliases, k.run), r) <=>
                 \E n \in DOMAIN now.runs : Name(now.runs[n], k.aliases, k.run) = r
    BY <1>1, <1>2, ReboundIsResolved
  <1> HIDE DEF k, now
  <1>5. ~ListsAny(Rebound(now, k.aliases, k.run), k.aliases)
    BY <1>1, <1>4 DEF ListsAny, Name
  <1>6. \A r \in Runs \ k.aliases :
           Lists(now, r) => Lists(Rebound(now, k.aliases, k.run), r)
    BY <1>4 DEF Lists, Name
  <1> QED
    BY <1>3, <1>5, <1>6 DEF k, now

\* "Session membership converges on one recording owner": the rebinding leaves no
\* alias in a session that is as it saw it, and takes no other run from it.
THEOREM RebindingConverges == Spec => RebindConverges
  <1> DEFINE Inv == ImportInv /\ CacheInv /\ MembersInv /\ Typed
             A == \A i \in Importers :
                     At(i, "rebind") /\ importers'[i].pc = "segments" /\ events' = events
                        /\ importers[i].seen = sessions =>
                     \A s \in Sessions : sessions[s] # None =>
                        /\ ~ListsAny(sessions'[s], importers[i].aliases)
                        /\ \A r \in Runs \ importers[i].aliases :
                              Lists(sessions[s], r) => Lists(sessions'[s], r)
  <1>1. Init => Inv
    BY ImportInit, CacheInit, MembersInit, TypedInit
  <1>2. Inv /\ [Next]_vars => Inv'
    BY ImportStep, CacheStep, MembersStep, TypedStep
  <1>3. Inv /\ [Next]_vars => [A]_vars
    <2> SUFFICES ASSUME Inv, [Next]_vars, NEW i \in Importers,
                        At(i, "rebind"), importers'[i].pc = "segments", events' = events,
                        importers[i].seen = sessions
                 PROVE  \A s \in Sessions : sessions[s] # None =>
                           /\ ~ListsAny(sessions'[s], importers[i].aliases)
                           /\ \A r \in Runs \ importers[i].aliases :
                                 Lists(sessions[s], r) => Lists(sessions'[s], r)
      OBVIOUS
    <2>1. Rebind(i) \/ FailRebind(i)
      BY LeavesRebind
    <2>2. ~FailRebind(i)
      BY ImportAssumption DEF FailRebind, Typed
    <2> QED
      BY <2>1, <2>2, RebindLeaves
  <1> HIDE DEF Inv, A
  <1>4. Spec => [][A]_vars
    BY <1>1, <1>2, <1>3, PTL DEF Spec
  <1> QED
    BY <1>4 DEF A, RebindConverges

=============================================================================
