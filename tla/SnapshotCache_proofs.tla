------------------------- MODULE SnapshotCache_proofs -------------------------
(***************************************************************************)
(* For any number of threads, rows that say anything, and any bounds: a    *)
(* snapshot filed under the current key holds the rows the key covers as   *)
(* they are; an answer is not older in them than the call it answers; one  *)
(* thread builds a key; and who waits has a builder to wait for.           *)
(*                                                                         *)
(* Two things make it so.  Stamps only grow, so a row that is read after   *)
(* another carries at least its stamp, and a row with the current stamp is *)
(* the current row; laps have no stamp in the key, but an import writes    *)
(* them with the run's row, whose stamp is theirs (Fresh).  And a key has  *)
(* at most one future, held by the thread that builds it until the moment  *)
(* it wakes the waiters (Flight).                                          *)
(***************************************************************************)
EXTENDS SnapshotCache, SequenceTheorems, TLAPS

\* What a client holds.
ClientType ==
    [pc : Resting \cup Building \cup {"key", "lookup", "wait"},
     at : 1..5, key : Keys, bundle : Rows, since : Keys,
     owner : Clients \cup {None}]

\* A row read at some time up to now.
ReadOf(row, table) ==
    /\ row.stamp <= truth[table].stamp
    /\ row.stamp = truth[table].stamp => row = truth[table]

\* The least stamp of a row read after the key.
Floor(key, t) == IF t = "laps" THEN key["runs"].stamp ELSE key[t].stamp

\* A bundle whose rows were all read after those of its key.
Sound(key, bundle) ==
    \A t \in Keyed : Floor(key, t) <= bundle[t].stamp /\ ReadOf(bundle[t], t)

\* What a client has read so far, in the order in which it read it.
KeyRead(k, t) ==
    k.since[t].stamp <= Floor(k.key, t) /\ Floor(k.key, t) <= truth[t].stamp
Built(k, t) == Floor(k.key, t) <= k.bundle[t].stamp /\ ReadOf(k.bundle[t], t)

Held(k) ==
    /\ k.pc = "key" =>
          /\ k.at \in 1..3
          /\ \A t \in Keyed : k.since[t].stamp <= truth[t].stamp
          /\ k.at >= 2 => KeyRead(k, "session")
          /\ k.at >= 3 => KeyRead(k, "runs") /\ KeyRead(k, "laps")
    /\ k.pc \in {"lookup", "wait"} \cup Building => \A t \in Keyed : KeyRead(k, t)
    /\ k.pc = "build" =>
          /\ k.at \in 1..4
          /\ k.at >= 2 => Built(k, "runs")
          /\ k.at >= 3 => Built(k, "session")
          /\ k.at >= 4 => Built(k, "laps")
    /\ k.pc \in {"store", "publish"} => \A t \in Keyed : Built(k, t)
    /\ k.pc = "answered" => \A t \in Keyed : k.bundle[t].stamp >= k.since[t].stamp

Fresh ==
    /\ truth["laps"].stamp = truth["runs"].stamp
    /\ \A e \in disk : Sound(e.key, e.bundle)
    /\ \A i \in DOMAIN cache : Sound(cache[i].key, cache[i].bundle)
    /\ \A c \in Clients : Held(clients[c])

Flight ==
    /\ \A c \in Clients : clients[c].pc \in Building =>
          [key |-> clients[c].key, owner |-> c] \in inflight
    /\ \A f \in inflight : /\ clients[f.owner].pc \in Building
                           /\ clients[f.owner].key = f.key
    /\ \A f, g \in inflight : f.key = g.key => f.owner = g.owner
    /\ WaitersHaveABuilder

Inv == TypeOK /\ Fresh /\ Flight

\* What is being built is not in memory: when its snapshot goes to disk it takes
\* the place of no entry the dict holds.
NotYetCached ==
    \A c \in Clients : clients[c].pc \in Building =>
        \A i \in DOMAIN cache : cache[i].key # clients[c].key

Spill == OverflowIsOnDisk /\ NotYetCached

-----------------------------------------------------------------------------
\* The two records a call can end in are well typed.
LEMMA EndsType ==
    ASSUME NEW k \in ClientType, NEW bundle \in Rows
    PROVE  /\ Answered(k, bundle) \in ClientType
           /\ \A outcome \in Resting : Ended(k, outcome) \in ClientType
           /\ Unread \in Rows
<1>1. Unread \in Rows /\ NoKey \in Keys
  BY DEF Unread, NoKey, Blank, Rows, Keys, Row
<1>2. 1 \in 1..5
  OBVIOUS
<1>3. Answered(k, bundle) \in ClientType
  BY <1>1, <1>2 DEF Answered, ClientType, Resting
<1>4. ASSUME NEW outcome \in Resting PROVE Ended(k, outcome) \in ClientType
  BY <1>1, <1>2 DEF Ended, ClientType
<1> QED  BY <1>1, <1>3, <1>4

\* Evicting keeps a sequence of entries, and only entries it was given.
LEMMA EvictedType ==
    ASSUME CacheAssumption, NEW s \in Seq(Entry)
    PROVE  /\ Evicted(s) \in Seq(Entry)
           /\ \A i \in DOMAIN Evicted(s) : \E j \in DOMAIN s : Evicted(s)[i] = s[j]
           /\ Len(Evicted(s)) <= Limit
<1>1. CASE Len(s) <= Limit
  BY <1>1 DEF Evicted
<1>2. CASE ~(Len(s) <= Limit)
  <2> DEFINE m == Len(s) - Limit + 1
  <2>1. m \in Int /\ m >= 1 /\ Len(s) \in Nat /\ Limit \in Nat \ {0} /\ m <= Len(s)
    BY <1>2 DEF CacheAssumption
  <2>2. \A i \in m..Len(s) : s[i] \in Entry
    BY <2>1
  <2>3. /\ SubSeq(s, m, Len(s)) \in Seq(Entry)
        /\ Len(SubSeq(s, m, Len(s))) = Len(s) - m + 1
        /\ \A i \in 1..Len(s)-m+1 : SubSeq(s, m, Len(s))[i] = s[m+i-1]
    <3> HIDE DEF m
    <3> QED  BY <2>1, <2>2, SubSeqProperties
  <2>4. Evicted(s) = SubSeq(s, m, Len(s))
    BY <1>2 DEF Evicted
  <2>5. \A i \in DOMAIN Evicted(s) : m+i-1 \in DOMAIN s /\ Evicted(s)[i] = s[m+i-1]
    <3> HIDE DEF m
    <3> QED  BY <2>1, <2>3, <2>4
  <2>6. Len(Evicted(s)) = Limit
    BY <2>1, <2>3, <2>4
  <2> QED  BY <2>1, <2>3, <2>4, <2>5, <2>6
<1> QED  BY <1>1, <1>2

\* What a look into memory finds was cached under the key it was looked up by.
LEMMA FoundIs ==
    ASSUME NEW key, Cached(key) # {}
    PROVE  \E i \in DOMAIN cache : cache[i].key = key /\ Found(key) = cache[i].bundle
<1> DEFINE i == CHOOSE i \in Cached(key) : TRUE
<1>1. i \in Cached(key)
  OBVIOUS
<1>2. Found(key) = cache[i].bundle
  BY DEF Found
<1> HIDE DEF i
<1> QED  BY <1>1, <1>2 DEF Cached

\* Moving one client to a typed record keeps the function typed.
LEMMA MoveType ==
    ASSUME clients \in [Clients -> ClientType], NEW c \in Clients,
           NEW k \in ClientType
    PROVE  [clients EXCEPT ![c] = k] \in [Clients -> ClientType]
OBVIOUS

\* The types hold at the start and are kept by every step.
LEMMA TypeInit == CacheAssumption /\ Init => TypeOK
<1> SUFFICES ASSUME CacheAssumption, Init PROVE TypeOK
  OBVIOUS
<1>1. truth \in Rows
  BY DEF Init, Rows, Row
<1>2. Unread \in Rows /\ NoKey \in Keys
  BY DEF Unread, NoKey, Blank, Rows, Keys, Row
<1> QED
  BY <1>1, <1>2 DEF Init, TypeOK, CacheAssumption, Resting

\* A reader is at one of the tables it has to read.
Reading ==
    \A c \in Clients : /\ clients[c].pc = "key" => clients[c].at \in 1..3
                       /\ clients[c].pc = "build" => clients[c].at \in 1..4

LEMMA FreshReads == Fresh => Reading
BY DEF Fresh, Held, Reading

LEMMA TypeStep == CacheAssumption /\ TypeOK /\ Reading /\ [Next]_vars => TypeOK'
<1> SUFFICES ASSUME CacheAssumption, TypeOK, Reading, [Next]_vars PROVE TypeOK'
  OBVIOUS
<1>1. clients \in [Clients -> ClientType] /\ truth \in Rows
  BY DEF TypeOK, ClientType
<1>2. Unread \in Rows /\ NoKey \in Keys
  BY DEF Unread, NoKey, Blank, Rows, Keys, Row
<1>3. ASSUME NEW c \in Clients, Call(c) PROVE TypeOK'
  <2> DEFINE now == [t \in Keyed |-> truth[t]]
  <2>1. clients' = [clients EXCEPT ![c] =
                  [clients[c] EXCEPT !.pc = "key", !.at = 1, !.since = now]]
    BY <1>3 DEF Call
  <2> DEFINE k == [clients[c] EXCEPT !.pc = "key", !.at = 1, !.since = now]
  <2>2. now \in Keys
    BY <1>1 DEF Rows, Keys, Tables
  <2>3. k \in ClientType
    <3>1. clients[c] \in ClientType /\ 1 \in 1..5
      BY <1>1
    <3> HIDE DEF now
    <3> QED  BY <2>2, <3>1 DEF ClientType
  <2>4. clients' \in [Clients -> ClientType]
    <3> HIDE DEF k
    <3> QED  BY <1>1, <2>1, <2>3, MoveType DEF k
  <2> QED
    BY <1>3, <2>4 DEF Call, TypeOK, ClientType, CacheAssumption
<1>4. ASSUME NEW c \in Clients, ReadKey(c) PROVE TypeOK'
  <2> DEFINE at == clients[c].at
             table == KeyOrder[at]
             row == SemanticRevision(table, truth[table])
             next == IF at = Len(KeyOrder) THEN "lookup" ELSE "key"
  <2>1. at \in 1..3
    BY <1>4 DEF ReadKey, Reading
  <2>2. table \in Keyed
    BY <2>1 DEF KeyOrder, Keyed
  <2>3. row \in Row
    BY <1>1, <2>2 DEF SemanticRevision, Rows, Row, Tables
  <2> DEFINE k == [clients[c] EXCEPT !.pc = next, !.at = at + 1, !.key[table] = row]
  <2>4. clients' = [clients EXCEPT ![c] = k]
    BY <1>4 DEF ReadKey
  <2>5. k \in ClientType
    <3>1. [clients[c].key EXCEPT ![table] = row] \in Keys
      <4> HIDE DEF row, table
      <4> QED  BY <1>1, <2>2, <2>3 DEF Keys, ClientType
    <3>2. next \in {"lookup", "key"} /\ at + 1 \in 1..5
      BY <2>1
    <3> HIDE DEF row, table, next
    <3> QED  BY <1>1, <3>1, <3>2 DEF ClientType
  <2>6. clients' \in [Clients -> ClientType]
    <3> HIDE DEF k
    <3> QED  BY <1>1, <2>4, <2>5, MoveType
  <2> QED
    BY <1>4, <2>6 DEF ReadKey, TypeOK, ClientType
<1>5. ASSUME NEW c \in Clients, Peek(c) PROVE TypeOK'
  <2>1. CASE Cached(clients[c].key) = {}
    <3>1. Ended(clients[c], "absent") \in ClientType
      BY <1>1, EndsType DEF Resting
    <3>2. clients' = [clients EXCEPT ![c] = Ended(clients[c], "absent")]
      BY <1>5, <2>1 DEF Peek
    <3>3. clients' \in [Clients -> ClientType]
      BY <1>1, <3>1, <3>2, MoveType
    <3> QED  BY <1>5, <3>3 DEF Peek, TypeOK, ClientType
  <2>2. CASE Cached(clients[c].key) # {}
    <3>1. Found(clients[c].key) \in Rows
      <4>1. PICK i \in DOMAIN cache : Found(clients[c].key) = cache[i].bundle
        BY <2>2, FoundIs
      <4>2. cache[i] \in Entry
        BY DEF TypeOK
      <4> QED  BY <4>1, <4>2 DEF Entry
    <3>3. Answered(clients[c], Found(clients[c].key)) \in ClientType
      BY <1>1, <3>1, EndsType
    <3>4. clients' = [clients EXCEPT ![c] = Answered(clients[c], Found(clients[c].key))]
      BY <1>5, <2>2 DEF Peek
    <3>5. clients' \in [Clients -> ClientType]
      BY <1>1, <3>3, <3>4, MoveType
    <3> QED  BY <1>5, <3>5 DEF Peek, TypeOK, ClientType
  <2> QED  BY <2>1, <2>2
<1>6. ASSUME NEW c \in Clients, Lookup(c) PROVE TypeOK'
  <2> DEFINE key == clients[c].key
  <2>1. CASE Cached(key) # {}
    <3>1. Found(clients[c].key) \in Rows
      <4>1. PICK i \in DOMAIN cache : Found(clients[c].key) = cache[i].bundle
        BY <2>1, FoundIs
      <4>2. cache[i] \in Entry
        BY DEF TypeOK
      <4> QED  BY <4>1, <4>2 DEF Entry
    <3>3. Answered(clients[c], Found(clients[c].key)) \in ClientType
      BY <1>1, <3>1, EndsType
    <3>4. clients' = [clients EXCEPT ![c] = Answered(clients[c], Found(clients[c].key))]
          /\ inflight' = inflight /\ UNCHANGED <<truth, cache, disk, calls, writes>>
      BY <1>6, <2>1 DEF Lookup
    <3>5. clients' \in [Clients -> ClientType]
      BY <1>1, <3>3, <3>4, MoveType
    <3> QED  BY <3>4, <3>5 DEF TypeOK, ClientType
  <2>2. CASE Cached(key) = {} /\ Owners(key) # {}
    <3> DEFINE d == CHOOSE d \in Owners(key) : TRUE
    <3>1. d \in Clients
      BY <2>2 DEF Owners, TypeOK
    <3> HIDE DEF d
    <3>2. clients' = [clients EXCEPT ![c].pc = "wait", ![c].owner = d]
          /\ inflight' = inflight /\ UNCHANGED <<truth, cache, disk, calls, writes>>
      BY <1>6, <2>2 DEF Lookup, d
    <3> QED  BY <3>1, <3>2 DEF TypeOK
  <2>3. CASE Cached(key) = {} /\ Owners(key) = {}
    <3>1. key \in Keys
      BY <1>1 DEF ClientType
    <3> QED  BY <1>6, <2>3, <3>1 DEF Lookup, TypeOK, Building
  <2> QED  BY <2>1, <2>2, <2>3
<1>7. ASSUME NEW c \in Clients, NEW bundle \in Rows, Resolve(c, bundle)
      PROVE  clients' \in [Clients -> ClientType]
             /\ inflight' \subseteq [key : Keys, owner : Clients]
  <2>1. \A d \in Clients : Answered(clients[d], bundle) \in ClientType
    BY <1>1, EndsType
  <2> QED  BY <1>1, <1>7, <2>1 DEF Resolve, TypeOK
<1>8. ASSUME NEW c \in Clients, Load(c) PROVE TypeOK'
  <2>1. PICK e \in disk : cache' = Append(cache, e) /\ Resolve(c, e.bundle)
    BY <1>8 DEF Load
  <2>2. e \in Entry /\ e.bundle \in Rows
    BY DEF TypeOK, Entry
  <2>3. cache' \in Seq(Entry)
    BY <2>1, <2>2 DEF TypeOK
  <2> QED  BY <1>7, <1>8, <2>1, <2>2, <2>3 DEF Load, TypeOK, ClientType
<1>9. ASSUME NEW c \in Clients, LoadNothing(c) PROVE TypeOK'
  <2> DEFINE k == [clients[c] EXCEPT !.pc = "build", !.at = 1]
  <2>1. k \in ClientType
    <3>1. clients[c] \in ClientType /\ 1 \in 1..5
      BY <1>1
    <3> QED  BY <3>1 DEF ClientType, Building
  <2>2. clients' = [clients EXCEPT ![c] = k]
    BY <1>9 DEF LoadNothing
  <2>3. clients' \in [Clients -> ClientType]
    <3> HIDE DEF k
    <3> QED  BY <1>1, <2>1, <2>2, MoveType
  <2> QED  BY <1>9, <2>3 DEF LoadNothing, TypeOK, ClientType
<1>10. ASSUME NEW c \in Clients, Build(c) PROVE TypeOK'
  <2> DEFINE at == clients[c].at
             table == BuildOrder[at]
             next == IF at = Len(BuildOrder) THEN "store" ELSE "build"
  <2>1. at \in 1..4
    BY <1>10 DEF Build, Reading
  <2>2. table \in Tables
    BY <2>1 DEF BuildOrder, Tables, Keyed
  <2> DEFINE k == [clients[c] EXCEPT !.pc = next, !.at = at + 1,
                                     !.bundle[table] = truth[table]]
  <2>3. clients' = [clients EXCEPT ![c] = k]
    BY <1>10 DEF Build
  <2>4. k \in ClientType
    <3>1. [clients[c].bundle EXCEPT ![table] = truth[table]] \in Rows
      <4> HIDE DEF table
      <4> QED  BY <1>1, <2>2 DEF Rows, ClientType
    <3>2. next \in {"store", "build"} /\ at + 1 \in 1..5
      BY <2>1
    <3> HIDE DEF table, next
    <3> QED  BY <1>1, <3>1, <3>2 DEF ClientType, Building
  <2>5. clients' \in [Clients -> ClientType]
    <3> HIDE DEF k
    <3> QED  BY <1>1, <2>3, <2>4, MoveType
  <2> QED
    BY <1>10, <2>5 DEF Build, TypeOK, ClientType
<1>11. ASSUME NEW c \in Clients, Fail(c) PROVE TypeOK'
  <2>1. \A d \in Clients : Ended(clients[d], "failed") \in ClientType
    BY <1>1, EndsType DEF Resting
  <2> QED  BY <1>1, <1>11, <2>1 DEF Fail, TypeOK, ClientType
<1>12. ASSUME NEW c \in Clients PROVE Snapshot(c) \in Entry
  BY <1>1 DEF Snapshot, Entry, ClientType
<1>13. ASSUME NEW c \in Clients, Store(c) PROVE TypeOK'
  BY <1>12, <1>13 DEF Store, TypeOK, Building
<1>14. ASSUME NEW c \in Clients, Publish(c) PROVE TypeOK'
  <2>1. Append(cache, Snapshot(c)) \in Seq(Entry)
    BY <1>12 DEF TypeOK
  <2>2. cache' \in Seq(Entry)
    BY <1>14, <2>1, EvictedType DEF Publish
  <2>3. clients[c].bundle \in Rows
    BY <1>1 DEF ClientType
  <2> QED  BY <1>7, <1>14, <2>2, <2>3 DEF Publish, TypeOK, ClientType
<1>15. ASSUME Crash PROVE TypeOK'
  <2>1. \A d \in Clients : Ended(clients[d], "lost") \in ClientType
    BY <1>1, EndsType DEF Resting
  <2> QED  BY <1>1, <1>15, <2>1 DEF Crash, TypeOK, ClientType
<1>16. ASSUME NEW tables, Written(tables) PROVE TypeOK'
  <2>1. truth' \in Rows
    BY <1>1, <1>16 DEF Written, Rows, Row
  <2> QED  BY <1>16, <2>1 DEF Written, TypeOK, CacheAssumption
<1>17. ASSUME UNCHANGED vars PROVE TypeOK'
  BY <1>17 DEF vars, TypeOK
<1> QED
  BY <1>3, <1>4, <1>5, <1>6, <1>8, <1>9, <1>10, <1>11, <1>13, <1>14, <1>15, <1>16,
     <1>17
  DEF Next, Handle, Edit, Import, Remember

-----------------------------------------------------------------------------
LEMMA StampType ==
    ASSUME TypeOK
    PROVE  /\ \A t \in Tables : truth[t].stamp \in Nat
           /\ \A c \in Clients : \A t \in Keyed :
                 /\ clients[c].since[t].stamp \in Nat
                 /\ Floor(clients[c].key, t) \in Nat
                 /\ clients[c].bundle[t].stamp \in Nat
           /\ \A e \in Entry : \A t \in Keyed :
                 Floor(e.key, t) \in Nat /\ e.bundle[t].stamp \in Nat
<1>1. \A r \in Rows : \A t \in Tables : r[t].stamp \in Nat
  BY DEF Rows, Row
<1>2. \A r \in Keys : \A t \in Keyed : r[t].stamp \in Nat /\ Floor(r, t) \in Nat
  BY DEF Keys, Row, Floor, Keyed
<1>3. \A c \in Clients : clients[c] \in ClientType
  BY DEF TypeOK, ClientType
<1> QED  BY <1>1, <1>2, <1>3 DEF TypeOK, ClientType, Entry, Tables

\* A write only makes rows older: what was read in order stays so.
LEMMA WriteKeeps ==
    ASSUME TypeOK, NEW tables, Written(tables)
    PROVE  /\ \A e \in Entry : Sound(e.key, e.bundle) => Sound(e.key, e.bundle)'
           /\ \A c \in Clients : Held(clients[c]) => Held(clients[c])'
<1>1. \A t \in Tables : truth'[t] = truth[t] \/ truth'[t].stamp = truth[t].stamp + 1
  BY DEF Written, TypeOK, Rows
<1>2. clients' = clients
  BY DEF Written
<1>3. \A row \in Row : \A t \in Tables : ReadOf(row, t) => ReadOf(row, t)'
  BY <1>1, StampType DEF ReadOf, Row
<1>4. \A e \in Entry : Sound(e.key, e.bundle) => Sound(e.key, e.bundle)'
  BY <1>3 DEF Sound, Floor, Entry, Rows, Tables
<1>5. ASSUME NEW c \in Clients, Held(clients[c]) PROVE Held(clients[c])'
  <2>1. \A t \in Keyed : KeyRead(clients[c], t) => KeyRead(clients[c], t)'
    <3> TAKE t \in Keyed
    <3>1. t \in Tables /\ Floor(clients[c].key, t)' = Floor(clients[c].key, t)
      BY <1>2 DEF Floor, Tables
    <3> QED  BY <1>1, <1>2, <3>1, StampType DEF KeyRead
  <2>2. \A t \in Keyed : clients[c].bundle[t] \in Row
    BY DEF TypeOK, Rows, Tables
  <2>3. \A t \in Keyed : Built(clients[c], t) => Built(clients[c], t)'
    BY <1>2, <1>3, <2>2 DEF Built, Floor, Tables
  <2>4. \A t \in Keyed : clients[c].since[t].stamp <= truth[t].stamp
                             => clients[c].since[t].stamp <= truth'[t].stamp
    BY <1>1, StampType DEF Tables
  <2> QED  BY <1>2, <1>5, <2>1, <2>3, <2>4 DEF Held, Keyed
<1> QED  BY <1>4, <1>5

\* While the truth stands still, so does what was said about it.
LEMMA StillHeld ==
    ASSUME NEW k, truth' = truth
    PROVE  Held(k) => Held(k)'
BY DEF Held, KeyRead, Built, ReadOf, Floor

LEMMA StillSound ==
    ASSUME NEW key, NEW bundle, truth' = truth
    PROVE  Sound(key, bundle) => Sound(key, bundle)'
BY DEF Sound, ReadOf, Floor

\* A bundle filed soundly under a key that was read is not older than the call.
LEMMA AnswerHeld ==
    ASSUME TypeOK, NEW c \in Clients, NEW bundle \in Rows,
           \A t \in Keyed : KeyRead(clients[c], t),
           Sound(clients[c].key, bundle)
    PROVE  Held(Answered(clients[c], bundle))
<1>1. \A t \in Keyed : bundle[t].stamp >= clients[c].since[t].stamp
  BY StampType DEF KeyRead, Sound, Rows, Row, Tables
<1>2. /\ Answered(clients[c], bundle).pc = "answered"
      /\ Answered(clients[c], bundle).bundle = bundle
      /\ Answered(clients[c], bundle).since = clients[c].since
  BY DEF Answered, TypeOK
<1> QED  BY <1>1, <1>2 DEF Held, Building

LEMMA EndedHeld ==
    ASSUME NEW k \in ClientType, NEW outcome \in {"absent", "failed", "lost"}
    PROVE  Held(Ended(k, outcome))
BY DEF Held, Ended, Building, ClientType

\* One client moved, and the truth did not.
LEMMA MoveHeld ==
    ASSUME Fresh, truth' = truth, NEW c \in Clients, NEW k, Held(k),
           clients \in [Clients -> ClientType], clients' = [clients EXCEPT ![c] = k]
    PROVE  \A d \in Clients : Held(clients[d])'
<1>1. \A d \in Clients : clients'[d] = IF d = c THEN k ELSE clients[d]
  OBVIOUS
<1>2. ASSUME NEW d \in Clients PROVE Held(clients[d])'
  <2>1. Held(clients'[d])
    BY <1>1 DEF Fresh
  <2> QED  BY <2>1 DEF Held, KeyRead, Built, ReadOf, Floor
<1> QED  BY <1>2

\* The entries did not change, or only by one that is sound.
LEMMA FilesStill ==
    ASSUME Fresh, truth' = truth, disk' = disk, cache' = cache
    PROVE  /\ \A e \in disk' : Sound(e.key, e.bundle)'
           /\ \A i \in DOMAIN cache' : Sound(cache[i].key, cache[i].bundle)'
BY DEF Fresh, Sound, ReadOf, Floor

LEMMA FreshInit == CacheAssumption /\ Init => Fresh
<1> SUFFICES ASSUME Init PROVE Fresh
  OBVIOUS
<1>1. truth["laps"].stamp = 0 /\ truth["runs"].stamp = 0
  BY DEF Init, Tables, Keyed
<1>2. \A c \in Clients : Held(clients[c])
  BY DEF Init, Held, Building
<1> QED  BY <1>1, <1>2 DEF Init, Fresh

\* Every step keeps what was read in order in order.
LEMMA FreshStep ==
    ASSUME CacheAssumption, TypeOK, Fresh, WaitersHaveABuilder, [Next]_vars
    PROVE  Fresh'
<1>1. clients \in [Clients -> ClientType] /\ truth \in Rows
  BY DEF TypeOK, ClientType
<1>2. ASSUME NEW c \in Clients, Call(c) PROVE Fresh'
  <2> DEFINE now == [t \in Keyed |-> truth[t]]
  <2>1. clients' = [clients EXCEPT ![c] =
                  [clients[c] EXCEPT !.pc = "key", !.at = 1, !.since = now]]
    BY <1>2 DEF Call
  <2> DEFINE k == [clients[c] EXCEPT !.pc = "key", !.at = 1, !.since = now]
  <2>2. k.pc = "key" /\ k.at = 1 /\ k.since = now
    <3> HIDE DEF now
    <3> QED  BY <1>1 DEF ClientType
  <2>3. Held(k)
    <3>1. \A t \in Keyed : now[t].stamp <= truth[t].stamp
      BY StampType DEF Tables
    <3> HIDE DEF k, now
    <3> QED  BY <2>2, <3>1 DEF Held, Building
  <2>4. \A d \in Clients : Held(clients[d])'
    <3> HIDE DEF k
    <3> QED  BY <1>1, <1>2, <2>1, <2>3, MoveHeld DEF Call, k
  <2> QED  BY <1>2, <2>4, FilesStill DEF Call, Fresh
<1>3. ASSUME NEW c \in Clients, ReadKey(c) PROVE Fresh'
  <2> DEFINE at == clients[c].at
             table == KeyOrder[at]
             row == SemanticRevision(table, truth[table])
             k == [clients[c] EXCEPT !.pc = IF at = Len(KeyOrder) THEN "lookup" ELSE "key",
                                     !.at = at + 1, !.key[table] = row]
  <2>1. /\ clients[c].pc = "key" /\ Held(clients[c]) /\ clients[c] \in ClientType
        /\ at \in 1..3
    BY <1>1, <1>3 DEF ReadKey, Fresh, Held
  <2>2. table \in Keyed
    BY <2>1 DEF KeyOrder, Keyed
  <2>3. /\ k.pc = (IF at = 3 THEN "lookup" ELSE "key") /\ k.at = at + 1
        /\ k.since = clients[c].since /\ k.key = [clients[c].key EXCEPT ![table] = row]
    <3> HIDE DEF row, table
    <3> QED  BY <2>1 DEF ClientType, KeyOrder
  <2>4. \A t \in Keyed : k.key[t] = IF t = table THEN row ELSE clients[c].key[t]
    <3> HIDE DEF row, table
    <3> QED  BY <2>1, <2>2, <2>3 DEF ClientType, Keys
  <2>5. table # "laps" => row = truth[table]
    BY DEF SemanticRevision
  <2>6. truth["laps"].stamp = truth["runs"].stamp /\ \A t \in Keyed : truth[t].stamp \in Nat
    BY StampType DEF Fresh, Tables
  <2>7. \A t \in Keyed : clients[c].since[t].stamp <= truth[t].stamp
    BY <2>1 DEF Held
  <2> HIDE DEF k, row
  <2>8. Held(k)
    <3>1. CASE at = 1
      <4>1. table = "session"
        BY <3>1 DEF KeyOrder
      <4> QED
        BY <2>3, <2>4, <2>5, <2>6, <2>7, <3>1, <4>1
        DEF Held, KeyRead, Floor, Building, Keyed
    <3>2. CASE at = 2
      <4>1. table = "runs"
        BY <3>2 DEF KeyOrder
      <4>2. KeyRead(clients[c], "session")
        BY <2>1, <3>2 DEF Held
      <4> HIDE DEF table
      <4> QED
        BY <2>3, <2>4, <2>5, <2>6, <2>7, <3>2, <4>1, <4>2
        DEF Held, KeyRead, Floor, Building, Keyed
    <3>3. CASE at = 3
      <4>1. table = "laps"
        BY <3>3 DEF KeyOrder
      <4>2. \A t \in Keyed : KeyRead(clients[c], t)
        BY <2>1, <3>3 DEF Held, Keyed
      <4> HIDE DEF table
      <4>3. \A t \in Keyed : KeyRead(k, t)
        BY <2>3, <2>4, <4>1, <4>2 DEF KeyRead, Floor, Keyed
      <4> QED
        BY <2>3, <3>3, <4>3 DEF Held, Building
    <3> QED  BY <2>1, <3>1, <3>2, <3>3
  <2>9. clients' = [clients EXCEPT ![c] = k]
    BY <1>3 DEF ReadKey, k, row
  <2>10. UNCHANGED <<truth, cache, disk>>
    BY <1>3 DEF ReadKey
  <2>11. \A d \in Clients : Held(clients[d])'
    BY <1>1, <2>8, <2>9, <2>10, MoveHeld
  <2> QED  BY <2>10, <2>11, FilesStill DEF Fresh
<1>5. ASSUME NEW c \in Clients, clients[c].pc = "lookup", Cached(clients[c].key) # {}
      PROVE  Held(Answered(clients[c], Found(clients[c].key)))
  <2>1. PICK i \in DOMAIN cache : cache[i].key = clients[c].key
                                 /\ Found(clients[c].key) = cache[i].bundle
    BY <1>5, FoundIs
  <2>2. cache[i] \in Entry
    BY DEF TypeOK
  <2>3. Sound(clients[c].key, cache[i].bundle)
    BY <2>1 DEF Fresh
  <2>4. \A t \in Keyed : KeyRead(clients[c], t)
    BY <1>5 DEF Fresh, Held
  <2>5. cache[i].bundle \in Rows
    BY <2>2 DEF Entry
  <2> QED  BY <2>1, <2>3, <2>4, <2>5, AnswerHeld
<1>6. ASSUME NEW c \in Clients, Peek(c) PROVE Fresh'
  <2> DEFINE k == IF Cached(clients[c].key) = {} THEN Ended(clients[c], "absent")
                  ELSE Answered(clients[c], Found(clients[c].key))
  <2>1. Held(k)
    BY <1>1, <1>5, <1>6, EndedHeld DEF Peek
  <2>2. clients' = [clients EXCEPT ![c] = k] /\ UNCHANGED <<truth, cache, disk>>
    BY <1>6 DEF Peek
  <2> HIDE DEF k
  <2>3. \A d \in Clients : Held(clients[d])'
    BY <1>1, <2>1, <2>2, MoveHeld
  <2> QED  BY <2>2, <2>3, FilesStill DEF Fresh
<1>7. ASSUME NEW c \in Clients, Lookup(c) PROVE Fresh'
  <2>1. UNCHANGED <<truth, cache, disk>> /\ clients[c].pc = "lookup"
        /\ Held(clients[c]) /\ clients[c] \in ClientType
    BY <1>1, <1>7 DEF Lookup, Fresh
  <2>2. PICK k : clients' = [clients EXCEPT ![c] = k] /\ Held(k)
    <3>1. CASE Cached(clients[c].key) # {}
      BY <1>5, <1>7, <2>1, <3>1 DEF Lookup
    <3>2. CASE Cached(clients[c].key) = {} /\ Owners(clients[c].key) # {}
      <4> DEFINE o == CHOOSE d \in Owners(clients[c].key) : TRUE
                 k == [clients[c] EXCEPT !.pc = "wait", !.owner = o]
      <4>1. clients' = [clients EXCEPT ![c] = k]
        BY <1>7, <3>2 DEF Lookup
      <4> HIDE DEF o
      <4>2. Held(k)
        BY <2>1 DEF Held, KeyRead, Floor, Building, ClientType
      <4> QED  BY <4>1, <4>2
    <3>3. CASE Cached(clients[c].key) = {} /\ Owners(clients[c].key) = {}
      <4> DEFINE k == [clients[c] EXCEPT !.pc = "load"]
      <4>1. clients' = [clients EXCEPT ![c] = k]
        BY <1>7, <3>3 DEF Lookup
      <4>2. Held(k)
        BY <2>1 DEF Held, KeyRead, Floor, Building, ClientType
      <4> QED  BY <4>1, <4>2
    <3> QED  BY <3>1, <3>2, <3>3
  <2>3. \A d \in Clients : Held(clients[d])'
    BY <1>1, <2>1, <2>2, MoveHeld
  <2> QED  BY <2>1, <2>3, FilesStill DEF Fresh
<1>8. ASSUME NEW c \in Clients, NEW bundle \in Rows, Resolve(c, bundle), truth' = truth,
             clients[c].pc \in Building, Sound(clients[c].key, bundle)
      PROVE  \A d \in Clients : Held(clients[d])'
  <2> TAKE d \in Clients
  <2>1. CASE d = c \/ WaitsOn(d, c)
    <3>1. clients'[d] = Answered(clients[d], bundle)
      BY <1>8, <2>1 DEF Resolve
    <3>2. clients[d].key = clients[c].key
      BY <2>1 DEF WaitsOn, WaitersHaveABuilder
    <3>3. \A t \in Keyed : KeyRead(clients[d], t)
      BY <1>8, <2>1 DEF Fresh, Held, WaitsOn
    <3>4. Held(Answered(clients[d], bundle))
      BY <1>8, <3>2, <3>3, AnswerHeld
    <3> QED  BY <1>8, <3>1, <3>4 DEF Held, KeyRead, Built, ReadOf, Floor
  <2>2. CASE ~(d = c \/ WaitsOn(d, c))
    <3>1. clients'[d] = clients[d] /\ Held(clients[d])
      BY <1>8, <2>2 DEF Resolve, Fresh
    <3> QED  BY <1>8, <3>1 DEF Held, KeyRead, Built, ReadOf, Floor
  <2> QED  BY <2>1, <2>2
<1>9. ASSUME NEW c \in Clients, Load(c) PROVE Fresh'
  <2>1. PICK e \in disk : /\ e.key = clients[c].key
                          /\ cache' = Append(cache, e)
                          /\ Resolve(c, e.bundle)
    BY <1>9 DEF Load
  <2>2. e \in Entry /\ e.bundle \in Rows /\ Sound(e.key, e.bundle)
    BY DEF TypeOK, Entry, Fresh
  <2>3. UNCHANGED <<truth, disk>> /\ clients[c].pc \in Building
    BY <1>9 DEF Load, Building
  <2>4. \A d \in Clients : Held(clients[d])'
    BY <1>8, <2>1, <2>2, <2>3
  <2>5. \A i \in DOMAIN cache' : Sound(cache'[i].key, cache'[i].bundle)
    BY <2>1, <2>2 DEF TypeOK, Fresh
  <2>6. \A i \in DOMAIN cache' : Sound(cache[i].key, cache[i].bundle)'
    BY <2>3, <2>5 DEF Sound, ReadOf, Floor
  <2>7. \A f \in disk' : Sound(f.key, f.bundle)'
    BY <2>3 DEF Fresh, Sound, ReadOf, Floor
  <2> QED  BY <2>3, <2>4, <2>6, <2>7 DEF Fresh
<1>10. ASSUME NEW c \in Clients, LoadNothing(c) PROVE Fresh'
  <2> DEFINE k == [clients[c] EXCEPT !.pc = "build", !.at = 1]
  <2>1. Held(clients[c]) /\ clients[c] \in ClientType /\ clients[c].pc = "load"
        /\ clients' = [clients EXCEPT ![c] = k] /\ UNCHANGED <<truth, cache, disk>>
    BY <1>1, <1>10 DEF LoadNothing, Fresh
  <2>2. Held(k)
    BY <2>1 DEF Held, KeyRead, Floor, Building, ClientType
  <2> HIDE DEF k
  <2>3. \A d \in Clients : Held(clients[d])'
    BY <1>1, <2>1, <2>2, MoveHeld
  <2> QED  BY <2>1, <2>3, FilesStill DEF Fresh
<1>11. ASSUME NEW c \in Clients, Build(c) PROVE Fresh'
  <2> DEFINE at == clients[c].at
             table == BuildOrder[at]
             k == [clients[c] EXCEPT !.pc = IF at = Len(BuildOrder) THEN "store" ELSE "build",
                                     !.at = at + 1, !.bundle[table] = truth[table]]
  <2>1. /\ clients[c].pc = "build" /\ Held(clients[c]) /\ clients[c] \in ClientType
        /\ at \in 1..4 /\ clients' = [clients EXCEPT ![c] = k]
        /\ UNCHANGED <<truth, cache, disk>>
    BY <1>1, <1>11 DEF Build, Fresh, Held
  <2>2. table \in Tables
    BY <2>1 DEF BuildOrder, Tables, Keyed
  <2>3. /\ k.pc = (IF at = 4 THEN "store" ELSE "build") /\ k.at = at + 1
        /\ k.since = clients[c].since /\ k.key = clients[c].key
        /\ k.bundle = [clients[c].bundle EXCEPT ![table] = truth[table]]
    <3> HIDE DEF table
    <3> QED  BY <2>1 DEF ClientType, BuildOrder
  <2>4. \A t \in Tables : k.bundle[t] = IF t = table THEN truth[t] ELSE clients[c].bundle[t]
    <3> HIDE DEF table
    <3> QED  BY <2>1, <2>2, <2>3 DEF ClientType, Rows
  <2>5. \A t \in Keyed : KeyRead(clients[c], t)
    BY <2>1 DEF Held, Building
  <2> HIDE DEF k
  <2>6. \A t \in Keyed : KeyRead(k, t)
    BY <2>3, <2>5 DEF KeyRead
  <2>7. \A t \in Keyed : t = table \/ Built(clients[c], t) => Built(k, t)
    <3> TAKE t \in Keyed
    <3>1. truth[t].stamp \in Nat
      BY StampType DEF Tables
    <3> HIDE DEF table
    <3> QED  BY <2>3, <2>4, <2>5, <3>1 DEF Built, ReadOf, KeyRead, Tables
  <2>8. Held(k)
    <3>1. CASE at = 1
      <4>1. table = "runs"
        BY <3>1 DEF BuildOrder
      <4> QED  BY <2>3, <2>6, <2>7, <3>1, <4>1 DEF Held, Building, Keyed
    <3>2. CASE at = 2
      <4>1. table = "session"
        BY <3>2 DEF BuildOrder
      <4>2. Built(clients[c], "runs")
        BY <2>1, <3>2 DEF Held
      <4> QED  BY <2>3, <2>6, <2>7, <3>2, <4>1, <4>2 DEF Held, Building, Keyed
    <3>3. CASE at = 3
      <4>1. table = "laps"
        BY <3>3 DEF BuildOrder
      <4>2. Built(clients[c], "runs") /\ Built(clients[c], "session")
        BY <2>1, <3>3 DEF Held
      <4> QED  BY <2>3, <2>6, <2>7, <3>3, <4>1, <4>2 DEF Held, Building, Keyed
    <3>4. CASE at = 4
      <4>1. \A t \in Keyed : Built(clients[c], t)
        BY <2>1, <3>4 DEF Held, Keyed
      <4> QED  BY <2>3, <2>6, <2>7, <3>4, <4>1 DEF Held, Building
    <3> QED  BY <2>1, <3>1, <3>2, <3>3, <3>4
  <2>9. \A d \in Clients : Held(clients[d])'
    BY <1>1, <2>1, <2>8, MoveHeld
  <2> QED  BY <2>1, <2>9, FilesStill DEF Fresh
<1>13. ASSUME NEW c \in Clients, clients[c].pc \in {"store", "publish"}
       PROVE  /\ Snapshot(c) \in Entry /\ clients[c].bundle \in Rows
              /\ Sound(Snapshot(c).key, Snapshot(c).bundle)
              /\ Sound(clients[c].key, clients[c].bundle)
  <2>1. Snapshot(c) \in Entry /\ clients[c].bundle \in Rows
    BY <1>1 DEF Snapshot, Entry, ClientType
  <2>2. \A t \in Keyed : Built(clients[c], t)
    BY <1>13 DEF Fresh, Held
  <2> QED  BY <2>1, <2>2 DEF Built, Sound, Snapshot
<1>14. ASSUME NEW c \in Clients, Fail(c) PROVE Fresh'
  <2>1. \A d \in Clients : Held(Ended(clients[d], "failed"))
    BY <1>1, EndedHeld
  <2>2. \A d \in Clients : Held(clients'[d])
    BY <1>14, <2>1 DEF Fail, Fresh
  <2>3. UNCHANGED <<truth, cache, disk>>
    BY <1>14 DEF Fail
  <2>4. \A d \in Clients : Held(clients[d])'
    BY <2>2, <2>3 DEF Held, KeyRead, Built, ReadOf, Floor
  <2> QED  BY <2>3, <2>4, FilesStill DEF Fresh
<1>15. ASSUME NEW c \in Clients, Store(c) PROVE Fresh'
  <2> DEFINE k == [clients[c] EXCEPT !.pc = "publish"]
  <2>1. Held(clients[c]) /\ clients[c] \in ClientType /\ clients[c].pc = "store"
        /\ clients' = [clients EXCEPT ![c] = k] /\ UNCHANGED <<truth, cache>>
    BY <1>1, <1>15 DEF Store, Fresh
  <2>2. Held(k)
    BY <2>1 DEF Held, KeyRead, Floor, Built, Building, ClientType
  <2>3. \A e \in disk' : Sound(e.key, e.bundle)
    BY <1>13, <1>15, <2>1 DEF Store, Fresh
  <2>4. \A e \in disk' : Sound(e.key, e.bundle)'
    BY <2>1, <2>3 DEF Sound, ReadOf, Floor
  <2>5. \A i \in DOMAIN cache' : Sound(cache[i].key, cache[i].bundle)'
    BY <2>1 DEF Fresh, Sound, ReadOf, Floor
  <2> HIDE DEF k
  <2>6. \A d \in Clients : Held(clients[d])'
    BY <1>1, <2>1, <2>2, MoveHeld
  <2> QED  BY <2>1, <2>4, <2>5, <2>6 DEF Fresh
<1>16. ASSUME NEW c \in Clients, Publish(c) PROVE Fresh'
  <2> DEFINE longer == Append(cache, Snapshot(c))
  <2>1. clients[c].pc \in {"store", "publish"} /\ clients[c].pc \in Building
        /\ UNCHANGED <<truth, disk>> /\ Resolve(c, clients[c].bundle)
        /\ cache' = Evicted(longer)
    BY <1>16 DEF Publish, Building
  <2>2. \A d \in Clients : Held(clients[d])'
    BY <1>8, <1>13, <2>1
  <2>3. longer \in Seq(Entry)
        /\ \A j \in DOMAIN longer : Sound(longer[j].key, longer[j].bundle)
    BY <1>13, <2>1 DEF TypeOK, Fresh
  <2> HIDE DEF longer
  <2>4. \A i \in DOMAIN cache' : Sound(cache'[i].key, cache'[i].bundle)
    BY <2>1, <2>3, EvictedType
  <2>5. \A i \in DOMAIN cache' : Sound(cache[i].key, cache[i].bundle)'
    BY <2>1, <2>4 DEF Sound, ReadOf, Floor
  <2>6. \A e \in disk' : Sound(e.key, e.bundle)'
    BY <2>1 DEF Fresh, Sound, ReadOf, Floor
  <2> QED  BY <2>1, <2>2, <2>5, <2>6 DEF Fresh
<1>17. ASSUME Crash PROVE Fresh'
  <2>1. \A d \in Clients : Held(Ended(clients[d], "lost"))
    BY <1>1, EndedHeld
  <2>2. \A d \in Clients : Held(clients'[d])
    BY <1>17, <2>1 DEF Crash, Fresh
  <2>3. UNCHANGED <<truth, disk>> /\ cache' = <<>>
    BY <1>17 DEF Crash
  <2>4. \A d \in Clients : Held(clients[d])'
    BY <2>2, <2>3 DEF Held, KeyRead, Built, ReadOf, Floor
  <2>5. \A e \in disk' : Sound(e.key, e.bundle)'
    BY <2>3 DEF Fresh, Sound, ReadOf, Floor
  <2> QED  BY <2>3, <2>4, <2>5 DEF Fresh
<1>18. ASSUME Edit \/ Import \/ Remember PROVE Fresh'
  <2>1. PICK tables \in {{"session"}, {"runs", "laps"}, {"history"}} : Written(tables)
    BY <1>18 DEF Edit, Import, Remember
  <2>2. disk' = disk /\ cache' = cache /\ clients' = clients
    BY <2>1 DEF Written
  <2>3. disk \subseteq Entry /\ \A i \in DOMAIN cache : cache[i] \in Entry
    BY DEF TypeOK
  <2>4. \A e \in disk : Sound(e.key, e.bundle)'
    BY <2>1, <2>3, WriteKeeps DEF Fresh
  <2>5. \A i \in DOMAIN cache : Sound(cache[i].key, cache[i].bundle)'
    BY <2>1, <2>2, <2>3, WriteKeeps DEF Fresh
  <2>6. \A d \in Clients : Held(clients[d])'
    BY <2>1, WriteKeeps DEF Fresh
  <2>7. "laps" \in tables <=> "runs" \in tables
    OBVIOUS
  <2>8. /\ truth'["laps"].stamp =
              IF "laps" \in tables THEN truth["laps"].stamp + 1 ELSE truth["laps"].stamp
        /\ truth'["runs"].stamp =
              IF "runs" \in tables THEN truth["runs"].stamp + 1 ELSE truth["runs"].stamp
    BY <2>1 DEF Written, Tables, Keyed
  <2> QED  BY <2>2, <2>4, <2>5, <2>6, <2>7, <2>8 DEF Fresh
<1>19. ASSUME UNCHANGED vars PROVE Fresh'
  BY <1>19 DEF vars, Fresh, Sound, Held, KeyRead, Built, ReadOf, Floor
<1> QED
  BY <1>2, <1>3, <1>6, <1>7, <1>9, <1>10, <1>11, <1>14, <1>15, <1>16, <1>17, <1>18,
     <1>19
  DEF Next, Handle

-----------------------------------------------------------------------------
LEMMA FlightInit == CacheAssumption /\ Init => Flight
BY DEF Init, Flight, WaitersHaveABuilder, Building

\* A client moved without starting, joining or ending a build.
LEMMA FlightMove ==
    ASSUME TypeOK, Flight, inflight' = inflight, NEW c \in Clients, NEW k,
           clients' = [clients EXCEPT ![c] = k],
           k.pc # "wait", clients[c].pc \in Building <=> k.pc \in Building,
           k.pc \in Building => k.key = clients[c].key
    PROVE  Flight'
<1>1. \A d \in Clients : clients'[d] = IF d = c THEN k ELSE clients[d]
  BY DEF TypeOK
<1>2. \A f \in inflight : f.owner \in Clients
  BY DEF TypeOK
<1> QED  BY <1>1, <1>2 DEF Flight, WaitersHaveABuilder

\* Every client whose build ended, or who waited for it, is out of it.
LEMMA FlightEnd ==
    ASSUME TypeOK, Flight, NEW c \in Clients,
           inflight' = {f \in inflight : f.owner # c},
           \A d \in Clients : IF d = c \/ WaitsOn(d, c)
                              THEN clients'[d].pc \in Resting
                              ELSE clients'[d] = clients[d]
    PROVE  Flight'
<1>1. \A f \in inflight : f.owner \in Clients
  BY DEF TypeOK
<1>2. \A d \in Clients : d = c \/ WaitsOn(d, c) =>
         clients'[d].pc \notin Building /\ clients'[d].pc # "wait"
  BY DEF Resting, Building
<1>3. \A f \in inflight' : clients'[f.owner] = clients[f.owner]
  BY <1>1 DEF Flight, WaitsOn, Building
<1>4. \A d \in Clients : clients'[d].pc \in Building =>
         clients'[d] = clients[d] /\ d # c
  BY <1>2
<1>5. WaitersHaveABuilder'
  <2> SUFFICES ASSUME NEW d \in Clients, clients'[d].pc = "wait"
               PROVE  /\ clients'[d].owner \in Clients
                      /\ clients'[clients'[d].owner].pc \in Building
                      /\ clients'[clients'[d].owner].key = clients'[d].key
    BY DEF WaitersHaveABuilder
  <2>1. clients'[d] = clients[d] /\ d # c /\ ~WaitsOn(d, c)
    BY <1>2
  <2>2. clients[d].owner \in Clients /\ clients[d].owner # c
        /\ clients[clients[d].owner].pc \in Building
        /\ clients[clients[d].owner].key = clients[d].key
    BY <2>1 DEF Flight, WaitersHaveABuilder, WaitsOn
  <2>3. clients'[clients[d].owner] = clients[clients[d].owner]
    BY <2>2 DEF WaitsOn, Building
  <2> QED  BY <2>1, <2>2, <2>3
<1> QED  BY <1>1, <1>3, <1>4, <1>5 DEF Flight

LEMMA FlightResolve ==
    ASSUME TypeOK, Flight, NEW c \in Clients, NEW bundle, Resolve(c, bundle)
    PROVE  Flight'
<1>1. \A d \in Clients : Answered(clients[d], bundle).pc \in Resting
  BY DEF Answered, TypeOK, Resting
<1>2. \A d \in Clients : IF d = c \/ WaitsOn(d, c)
                        THEN clients'[d].pc \in Resting
                        ELSE clients'[d] = clients[d]
  BY <1>1 DEF Resolve
<1>3. inflight' = {f \in inflight : f.owner # c}
  BY DEF Resolve
<1> QED  BY <1>2, <1>3, FlightEnd

\* Every step keeps the futures with their builders.
LEMMA FlightStep ==
    ASSUME CacheAssumption, TypeOK, Flight, [Next]_vars
    PROVE  Flight'
<1>1. clients \in [Clients -> ClientType]
  BY DEF TypeOK, ClientType
<1>2. ASSUME NEW c \in Clients, Call(c) PROVE Flight'
  <2> DEFINE now == [t \in Keyed |-> truth[t]]
  <2>1. clients' = [clients EXCEPT ![c] =
                  [clients[c] EXCEPT !.pc = "key", !.at = 1, !.since = now]]
    BY <1>2 DEF Call
  <2> DEFINE k == [clients[c] EXCEPT !.pc = "key", !.at = 1, !.since = now]
  <2> HIDE DEF now
  <2>2. k.pc = "key"
    BY <1>1 DEF ClientType
  <2>3. clients' = [clients EXCEPT ![c] = k]
    BY <2>1
  <2>4. inflight' = inflight /\ clients[c].pc \in Resting
    BY <1>2 DEF Call
  <2> HIDE DEF k
  <2> QED  BY <2>2, <2>3, <2>4, FlightMove DEF Resting, Building
<1>3. ASSUME NEW c \in Clients, ReadKey(c) PROVE Flight'
  <2> DEFINE table == KeyOrder[clients[c].at]
             row == SemanticRevision(table, truth[table])
             next == IF clients[c].at = Len(KeyOrder) THEN "lookup" ELSE "key"
             k == [clients[c] EXCEPT !.pc = next, !.at = clients[c].at + 1,
                                     !.key[table] = row]
  <2>1. inflight' = inflight /\ clients[c].pc = "key" /\ clients' = [clients EXCEPT ![c] = k]
    BY <1>3 DEF ReadKey
  <2>2. next \in {"lookup", "key"}
    OBVIOUS
  <2> HIDE DEF next, row, table
  <2>3. k.pc = next
    BY <1>1 DEF ClientType
  <2> HIDE DEF k
  <2> QED  BY <2>1, <2>2, <2>3, FlightMove DEF Building
<1>4. ASSUME NEW c \in Clients, Peek(c) PROVE Flight'
  <2> DEFINE k == IF Cached(clients[c].key) = {} THEN Ended(clients[c], "absent")
                  ELSE Answered(clients[c], Found(clients[c].key))
  <2>1. clients' = [clients EXCEPT ![c] = k] /\ inflight' = inflight
        /\ clients[c].pc = "lookup"
    BY <1>4 DEF Peek
  <2>2. k.pc \in {"absent", "answered"}
    BY <1>1 DEF Ended, Answered, ClientType
  <2> HIDE DEF k
  <2> QED  BY <2>1, <2>2, FlightMove DEF Building
<1>5. ASSUME NEW c \in Clients, Lookup(c) PROVE Flight'
  <2>1. CASE Cached(clients[c].key) # {}
    <3> DEFINE k == Answered(clients[c], Found(clients[c].key))
    <3>1. clients' = [clients EXCEPT ![c] = k] /\ inflight' = inflight
          /\ clients[c].pc = "lookup"
      BY <1>5, <2>1 DEF Lookup
    <3>2. k.pc = "answered"
      BY <1>1 DEF Answered, ClientType
    <3> HIDE DEF k
    <3> QED  BY <3>1, <3>2, FlightMove DEF Building
  <2>2. CASE Cached(clients[c].key) = {} /\ Owners(clients[c].key) # {}
    <3> DEFINE o == CHOOSE d \in Owners(clients[c].key) : TRUE
    <3>1. o \in Owners(clients[c].key)
      BY <2>2
    <3>2. clients' = [clients EXCEPT ![c] = [clients[c] EXCEPT !.pc = "wait",
                                                               !.owner = o]]
          /\ inflight' = inflight /\ clients[c].pc = "lookup"
      BY <1>5, <2>2 DEF Lookup
    <3> HIDE DEF o
    <3>3. o \in Clients /\ clients[o].pc \in Building /\ clients[o].key = clients[c].key
      BY <3>1 DEF Owners, Flight, TypeOK
    <3>4. o # c
      BY <3>2, <3>3 DEF Building
    <3>5. \A d \in Clients \ {c} : clients'[d] = clients[d]
      BY <1>1, <3>2
    <3>6. /\ clients'[c].pc = "wait" /\ clients'[c].owner = o
          /\ clients'[c].key = clients[c].key
      BY <1>1, <3>2 DEF ClientType
    <3>7. \A f \in inflight : f.owner \in Clients \ {c}
      BY <3>2 DEF Flight, TypeOK, Building
    <3>8. WaitersHaveABuilder'
      BY <3>2, <3>3, <3>4, <3>5, <3>6 DEF Flight, WaitersHaveABuilder, Building
    <3> QED  BY <3>2, <3>5, <3>6, <3>7, <3>8 DEF Flight, Building
  <2>3. CASE Cached(clients[c].key) = {} /\ Owners(clients[c].key) = {}
    <3> DEFINE mine == [key |-> clients[c].key, owner |-> c]
    <3>1. clients' = [clients EXCEPT ![c] = [clients[c] EXCEPT !.pc = "load"]]
          /\ inflight' = inflight \cup {mine} /\ clients[c].pc = "lookup"
      BY <1>5, <2>3 DEF Lookup
    <3>2. \A d \in Clients \ {c} : clients'[d] = clients[d]
      BY <1>1, <3>1
    <3>3. clients'[c].pc = "load" /\ clients'[c].key = clients[c].key
      BY <1>1, <3>1 DEF ClientType
    <3>4. \A f \in inflight : f.owner \in Clients \ {c} /\ f.key # clients[c].key
      <4> TAKE f \in inflight
      <4>1. f.owner \in Clients /\ clients[f.owner].pc \in Building
        BY DEF Flight, TypeOK
      <4>2. f.key # clients[c].key
        BY <2>3 DEF Owners
      <4> QED  BY <3>1, <4>1, <4>2 DEF Building
    <3>5. \A d \in Clients : clients[d].pc = "wait" => clients[d].owner # c
      BY <3>1 DEF Flight, WaitersHaveABuilder, Building
    <3>6. WaitersHaveABuilder'
      BY <3>2, <3>3, <3>5 DEF Flight, WaitersHaveABuilder
    <3>7. \A d \in Clients : clients'[d].pc \in Building =>
             [key |-> clients'[d].key, owner |-> d] \in inflight'
      BY <3>1, <3>2, <3>3 DEF Flight
    <3>8. \A f \in inflight' : clients'[f.owner].pc \in Building
                              /\ clients'[f.owner].key = f.key
      BY <3>1, <3>2, <3>3, <3>4 DEF Flight, Building
    <3>9. \A f, g \in inflight' : f.key = g.key => f.owner = g.owner
      BY <3>1, <3>4 DEF Flight
    <3> QED  BY <3>6, <3>7, <3>8, <3>9 DEF Flight
  <2> QED  BY <2>1, <2>2, <2>3
<1>6. ASSUME NEW c \in Clients, Load(c) \/ Publish(c) PROVE Flight'
  <2>1. PICK bundle : Resolve(c, bundle)
    BY <1>6 DEF Load, Publish
  <2> QED  BY <2>1, FlightResolve
<1>7. ASSUME NEW c \in Clients,
             LoadNothing(c) \/ Build(c) \/ Store(c)
      PROVE  Flight'
  <2>1. /\ clients'[c].pc \in Building
        /\ clients'[c].key = clients[c].key
        /\ clients' = [clients EXCEPT ![c] = clients'[c]]
    <3> DEFINE table == BuildOrder[clients[c].at]
               next == IF clients[c].at = Len(BuildOrder) THEN "store" ELSE "build"
    <3>1. PICK k \in {[clients[c] EXCEPT !.pc = "build", !.at = 1],
                      [clients[c] EXCEPT !.pc = "publish"],
                      [clients[c] EXCEPT !.pc = next, !.at = clients[c].at + 1,
                                         !.bundle[table] = truth[table]]} :
                 clients' = [clients EXCEPT ![c] = k]
      BY <1>7 DEF LoadNothing, Build, Store
    <3>a. next \in {"store", "build"}
      OBVIOUS
    <3> HIDE DEF next, table
    <3>2. k.pc \in Building /\ k.key = clients[c].key
      BY <1>1, <3>a DEF Building, ClientType
    <3>3. clients'[c] = k
      BY <1>1, <3>1
    <3> QED  BY <3>1, <3>2, <3>3
  <2>2. inflight' = inflight /\ clients[c].pc \in Building
    BY <1>7 DEF LoadNothing, Build, Store, Building
  <2> DEFINE k == clients'[c]
  <2>3. k.pc \in Building /\ k.key = clients[c].key /\ clients' = [clients EXCEPT ![c] = k]
    BY <2>1
  <2>4. \A d \in Clients : clients'[d] = IF d = c THEN k ELSE clients[d]
    BY <1>1, <2>3
  <2>5. \A f \in inflight : f.owner \in Clients
    BY DEF TypeOK
  <2> HIDE DEF k
  <2> QED  BY <2>2, <2>3, <2>4, <2>5 DEF Flight, WaitersHaveABuilder, Building
<1>8. ASSUME NEW c \in Clients, Fail(c) PROVE Flight'
  <2>1. \A d \in Clients : Ended(clients[d], "failed").pc \in Resting
    BY <1>1 DEF Ended, ClientType, Resting
  <2>2. \A d \in Clients : IF d = c \/ WaitsOn(d, c)
                          THEN clients'[d].pc \in Resting
                          ELSE clients'[d] = clients[d]
    BY <1>8, <2>1 DEF Fail
  <2>3. inflight' = {f \in inflight : f.owner # c}
    BY <1>8 DEF Fail
  <2> QED  BY <2>2, <2>3, FlightEnd
<1>9. ASSUME Crash PROVE Flight'
  <2>1. \A d \in Clients : clients'[d].pc \in Resting
    BY <1>1, <1>9 DEF Crash, Ended, ClientType, Resting
  <2> QED
    BY <1>9, <2>1 DEF Crash, Flight, WaitersHaveABuilder, Resting, Building
<1>10. ASSUME Edit \/ Import \/ Remember PROVE Flight'
  <2>1. clients' = clients /\ inflight' = inflight
    BY <1>10 DEF Edit, Import, Remember, Written
  <2> QED  BY <2>1 DEF Flight, WaitersHaveABuilder
<1>11. ASSUME UNCHANGED vars PROVE Flight'
  BY <1>11 DEF vars, Flight, WaitersHaveABuilder
<1> QED
  BY <1>2, <1>3, <1>4, <1>5, <1>6, <1>7, <1>8, <1>9, <1>10, <1>11 DEF Next, Handle

-----------------------------------------------------------------------------
\* The invariant holds in every reachable state.
THEOREM CacheInvariant == Spec => []Inv
<1>1. Init => Inv
  BY CacheAssumption, TypeInit, FreshInit, FlightInit DEF Inv
<1>2. Inv /\ [Next]_vars => Inv'
  BY CacheAssumption, FreshReads, TypeStep, FreshStep, FlightStep DEF Inv, Flight
<1> QED  BY <1>1, <1>2, PTL DEF Spec

\* build_run_intelligence and peek_cached_run_intelligence: every variable has
\* its type, in any instance.
THEOREM CacheTyped == Spec => []TypeOK
<1>1. Inv => TypeOK
  BY DEF Inv
<1> QED  BY <1>1, CacheInvariant, PTL

\* peek_cached_run_intelligence: what is filed under the current identity holds
\* the session, workflow, run, lap, event and setup rows as they are, whatever was
\* written while it was built.
THEOREM CurrentIsExact == Spec => []KeyedRowsAreExact
<1>1. Inv => KeyedRowsAreExact
  <2> SUFFICES ASSUME Inv, NEW e \in Entries, e.key = CurrentKey, NEW t \in Keyed
               PROVE  e.bundle[t] = truth[t]
    BY DEF KeyedRowsAreExact
  <2>1. Sound(e.key, e.bundle)
    BY DEF Inv, Fresh, Entries
  <2>2. e \in Entry
    BY DEF Inv, TypeOK, Entries
  <2>3. \A u \in {"session", "runs"} : e.key[u] = truth[u]
    BY DEF CurrentKey, SemanticRevision, Keyed
  <2>4. Floor(e.key, t) = truth[t].stamp
    BY <2>3 DEF Floor, Keyed, Inv, Fresh
  <2>5. e.bundle[t].stamp = truth[t].stamp
    BY <2>1, <2>2, <2>4, StampType DEF Sound, ReadOf, Inv, Tables
  <2> QED  BY <2>1, <2>5 DEF Sound, ReadOf
<1> QED  BY <1>1, CacheInvariant, PTL

\* build_run_intelligence: no answer is older than its call, by whichever of the
\* four paths it came.
THEOREM AnswersAreFresh == Spec => []AnswerIsNotOlder
<1>1. Inv => AnswerIsNotOlder
  BY DEF Inv, Fresh, Held, AnswerIsNotOlder
<1> QED  BY <1>1, CacheInvariant, PTL

\* _SNAPSHOT_INFLIGHT: one thread builds a key.
THEOREM SingleFlight == Spec => []OneBuildPerKey
<1>1. Inv => OneBuildPerKey
  BY DEF Inv, Flight, OneBuildPerKey
<1> QED  BY <1>1, CacheInvariant, PTL

\* future.result(): who waits has a builder of its key to wait for.
THEOREM WaitersAreServed == Spec => []WaitersHaveABuilder
<1>1. Inv => WaitersHaveABuilder
  BY DEF Inv, Flight
<1> QED  BY <1>1, CacheInvariant, PTL

-----------------------------------------------------------------------------
\* A step that leaves both stores alone and starts no build.
LEMMA SpillStill ==
    ASSUME Spill, UNCHANGED <<cache, disk>>,
           \A d \in Clients : clients'[d].pc \in Building =>
              clients[d].pc \in Building /\ clients'[d].key = clients[d].key
    PROVE  Spill'
BY DEF Spill, OverflowIsOnDisk, NotYetCached

\* A resolved future: its owner and the waiters no longer build.
LEMMA ResolvedRest ==
    ASSUME TypeOK, NEW c \in Clients, NEW bundle, Resolve(c, bundle)
    PROVE  \A d \in Clients : clients'[d].pc \in Building =>
              d # c /\ clients'[d] = clients[d]
<1>1. \A d \in Clients : Answered(clients[d], bundle).pc = "answered"
  BY DEF Answered, TypeOK
<1> QED  BY <1>1 DEF Resolve, Building

LEMMA SpillInit == CacheAssumption /\ Init => Spill
BY DEF Init, Spill, OverflowIsOnDisk, NotYetCached, Building

LEMMA SpillStep == CacheAssumption /\ Inv /\ Spill /\ [Next]_vars => Spill'
<1> SUFFICES ASSUME CacheAssumption, Inv, Spill, [Next]_vars PROVE Spill'
  OBVIOUS
<1>1. /\ clients \in [Clients -> ClientType] /\ cache \in Seq(Entry) /\ disk \subseteq Entry
      /\ Limit \in Nat
  BY DEF Inv, TypeOK, ClientType, CacheAssumption
<1>2. ASSUME NEW c \in Clients,
             Call(c) \/ ReadKey(c) \/ Peek(c)
      PROVE  Spill'
  <2>1. UNCHANGED <<cache, disk>> /\ \A d \in Clients : d # c => clients'[d] = clients[d]
    BY <1>1, <1>2 DEF Call, ReadKey, Peek
  <2>2. clients'[c].pc \in {"key", "lookup", "answered", "absent"}
    <3>1. CASE Call(c)
      BY <1>1, <3>1 DEF Call, ClientType
    <3>2. CASE ReadKey(c)
      BY <1>1, <3>2 DEF ReadKey, ClientType
    <3>3. CASE Peek(c)
      <4>1. /\ Ended(clients[c], "absent").pc = "absent"
            /\ Answered(clients[c], Found(clients[c].key)).pc = "answered"
        BY <1>1 DEF Ended, Answered, ClientType
      <4> QED  BY <1>1, <3>3, <4>1 DEF Peek
    <3> QED  BY <1>2, <3>1, <3>2, <3>3
  <2>3. clients'[c].pc \notin Building
    BY <2>2 DEF Building
  <2> QED  BY <2>1, <2>3, SpillStill
<1>3. ASSUME NEW c \in Clients, Lookup(c) PROVE Spill'
  <2>1. CASE clients'[c].pc \in Building
    <3>1. UNCHANGED <<cache, disk>> /\ \A d \in Clients : d # c => clients'[d] = clients[d]
      BY <1>1, <1>3 DEF Lookup
    <3>2. Cached(clients[c].key) = {}
      <4>1. Answered(clients[c], Found(clients[c].key)).pc = "answered"
        BY <1>1 DEF Answered, ClientType
      <4>2. SUFFICES ASSUME clients' = [clients EXCEPT ![c] =
                               Answered(clients[c], Found(clients[c].key))]
                     PROVE  FALSE
        BY <1>3 DEF Lookup
      <4> QED  BY <1>1, <2>1, <4>1, <4>2 DEF Building
    <3>3. clients'[c].key = clients[c].key
      BY <1>1, <1>3, <3>2 DEF Lookup, ClientType
    <3> QED  BY <3>1, <3>2, <3>3 DEF Spill, OverflowIsOnDisk, NotYetCached, Cached
  <2>2. CASE clients'[c].pc \notin Building
    <3>1. \A d \in Clients : d # c => clients'[d] = clients[d]
      BY <1>1, <1>3 DEF Lookup
    <3> QED  BY <1>3, <2>2, <3>1, SpillStill DEF Lookup
  <2> QED  BY <2>1, <2>2
<1>4. ASSUME NEW c \in Clients, Load(c) PROVE Spill'
  <2>1. PICK e \in disk : /\ e.key = clients[c].key
                          /\ cache' = Append(cache, e)
                          /\ Resolve(c, e.bundle)
    BY <1>4 DEF Load
  <2>2. e \in Entry /\ clients[c].pc \in Building /\ disk' = disk
    BY <1>1, <1>4 DEF Load, Building
  <2>3. \A i \in DOMAIN cache' : cache'[i] = e \/ (i \in DOMAIN cache /\ cache'[i] = cache[i])
    BY <1>1, <2>1, <2>2
  <2>4. OverflowIsOnDisk'
    BY <2>2, <2>3 DEF Spill, OverflowIsOnDisk
  <2>5. \A d \in Clients : clients'[d].pc \in Building =>
           clients'[d] = clients[d] /\ clients[d].key # clients[c].key
    BY <2>1, <2>2, ResolvedRest DEF Inv, Flight
  <2>6. NotYetCached'
    BY <2>1, <2>3, <2>5 DEF Spill, NotYetCached
  <2> QED  BY <2>4, <2>6 DEF Spill
<1>5. ASSUME NEW c \in Clients,
             LoadNothing(c) \/ Build(c)
      PROVE  Spill'
  <2>1. /\ \A d \in Clients : clients'[d].key = clients[d].key
        /\ \A d \in Clients : clients'[d].pc \in Building => clients[d].pc \in Building
        /\ UNCHANGED <<cache, disk>>
    BY <1>1, <1>5 DEF LoadNothing, Build, Building, ClientType
  <2> QED  BY <2>1, SpillStill
<1>6. ASSUME NEW c \in Clients, Fail(c) PROVE Spill'
  <2>1. \A d \in Clients : Ended(clients[d], "failed").pc = "failed"
    BY <1>1 DEF Ended, ClientType
  <2>2. \A d \in Clients : clients'[d].pc \in Building => clients'[d] = clients[d]
    BY <1>6, <2>1 DEF Fail, Building
  <2> QED  BY <1>6, <2>2, SpillStill DEF Fail
<1>7. ASSUME NEW c \in Clients, Store(c) PROVE Spill'
  <2>1. /\ clients[c].pc \in Building /\ cache' = cache
        /\ \A e \in disk : e.key # clients[c].key => e \in disk'
    BY <1>7 DEF Store, Building
  <2>2. OverflowIsOnDisk'
    BY <2>1 DEF Spill, OverflowIsOnDisk, NotYetCached
  <2>3. \A d \in Clients : /\ clients'[d].key = clients[d].key
                           /\ clients'[d].pc \in Building => clients[d].pc \in Building
    BY <1>1, <1>7 DEF Store, Building, ClientType
  <2>4. NotYetCached'
    BY <2>1, <2>3 DEF Spill, NotYetCached
  <2> QED  BY <2>2, <2>4 DEF Spill
<1>8. ASSUME NEW c \in Clients, Publish(c) PROVE Spill'
  <2>1. Snapshot(c) \in Entry /\ Snapshot(c).key = clients[c].key
    BY <1>1 DEF Snapshot, Entry, ClientType
  <2>2. /\ clients[c].pc \in Building /\ Resolve(c, clients[c].bundle)
        /\ cache' = Evicted(Append(cache, Snapshot(c)))
    BY <1>8 DEF Publish, Building
  <2> DEFINE grown == Append(cache, Snapshot(c))
  <2>3. /\ grown \in Seq(Entry)
        /\ \A j \in DOMAIN grown :
              grown[j] = Snapshot(c) \/ (j \in DOMAIN cache /\ grown[j] = cache[j])
    BY <1>1, <2>1
  <2>4. /\ cache' \in Seq(Entry) /\ Len(cache') <= Limit
        /\ \A i \in DOMAIN cache' : \E j \in DOMAIN grown : cache'[i] = grown[j]
    <3> HIDE DEF grown
    <3> QED  BY <2>2, <2>3, EvictedType DEF grown
  <2>5. OverflowIsOnDisk'
    <3>1. \A i \in DOMAIN cache' : ~(i > Limit)
      BY <1>1, <2>4
    <3> QED  BY <3>1 DEF OverflowIsOnDisk
  <2>6. \A d \in Clients : clients'[d].pc \in Building =>
           clients'[d] = clients[d] /\ clients[d].key # clients[c].key
    BY <2>2, ResolvedRest DEF Inv, Flight
  <2>7. \A i \in DOMAIN cache' :
           cache'[i].key = clients[c].key \/ \E j \in DOMAIN cache : cache'[i] = cache[j]
    <3> HIDE DEF grown
    <3> QED  BY <2>1, <2>3, <2>4
  <2>8. NotYetCached'
    BY <2>6, <2>7 DEF Spill, NotYetCached
  <2> QED  BY <2>5, <2>8 DEF Spill
<1>9. ASSUME Crash PROVE Spill'
  BY <1>9 DEF Crash, Spill, OverflowIsOnDisk, NotYetCached
<1>10. ASSUME Edit \/ Import \/ Remember PROVE Spill'
  <2>1. UNCHANGED <<cache, disk, clients>>
    BY <1>10 DEF Edit, Import, Remember, Written
  <2> QED  BY <2>1, SpillStill
<1>11. ASSUME UNCHANGED vars PROVE Spill'
  BY <1>11, SpillStill DEF vars
<1> QED
  BY <1>2, <1>3, <1>4, <1>5, <1>6, <1>7, <1>8, <1>9, <1>10, <1>11 DEF Next, Handle

\* _persist_snapshot and the dict's eviction: an entry beyond the limit was
\* loaded from disk, and is still there.
THEOREM OverflowIsBacked == Spec => []OverflowIsOnDisk
<1>1. Init => Spill
  BY CacheAssumption, SpillInit
<1>2. Inv /\ Spill /\ [Next]_vars => Spill'
  BY CacheAssumption, SpillStep
<1>3. Spill => OverflowIsOnDisk
  BY DEF Spill
<1> QED  BY <1>1, <1>2, <1>3, CacheInvariant, PTL DEF Spec

=============================================================================
