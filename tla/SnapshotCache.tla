---------------------------- MODULE SnapshotCache ----------------------------
(***************************************************************************)
(* The shared intelligence snapshot: build_run_intelligence and            *)
(* peek_cached_run_intelligence for one run of one session.                *)
(*                                                                         *)
(* A snapshot is cached under a hash of rows it depends on.  The hash is   *)
(* taken first, row by row; the rows are read again, one after the other,  *)
(* by the build that follows.  Concurrent builds of one key share a        *)
(* future; a finished build goes to disk and to a bounded dict.            *)
(*                                                                         *)
(* Four rows stand for the inputs of a build:                              *)
(*   session  rows hashed with a time of change of their own (the session, *)
(*            its workflows);                                              *)
(*   runs     the run's row, hashed with the time of its import;           *)
(*   laps     laps, events and setups, hashed by what they say: they have  *)
(*            no time of change, but what rewrites them (an import, a new  *)
(*            lap eligibility) writes the run's row with them;             *)
(*   history  what the build reads and the hash leaves out: the workflows  *)
(*            of other sessions, measurement attempts, graded predictions, *)
(*            the driver's profile.                                        *)
(***************************************************************************)
EXTENDS Integers, Sequences, FiniteSets

CONSTANTS
    Clients,     \* threads of the server's pool
    Contents,    \* what a row may say
    Limit,       \* bundles kept in memory (16)
    None,
    MaxCalls,    \* calls made in all
    MaxWrites    \* changes of the stored truth in all

ASSUME CacheAssumption ==
    /\ Limit \in Nat \ {0} /\ MaxCalls \in Nat /\ MaxWrites \in Nat
    /\ None \notin Clients
    /\ Contents # {}

VARIABLES
    truth,     \* the rows as they are stored
    cache,     \* _SNAPSHOT_CACHE, oldest first
    inflight,  \* _SNAPSHOT_INFLIGHT: [key, owner]
    disk,      \* persisted snapshots
    clients,   \* the call each thread is in
    calls, writes

vars == <<truth, cache, inflight, disk, clients, calls, writes>>

Keyed == {"session", "runs", "laps"}
Tables == Keyed \cup {"history"}

\* The order of the queries of the hash, and of those of the build.
KeyOrder == <<"session", "runs", "laps">>
BuildOrder == <<"runs", "session", "laps", "history">>

\* stamp: how often the row was written.
Row == [content : Contents \cup {None}, stamp : Nat]
Rows == [Tables -> Row]
Keys == [Keyed -> Row]
Entry == [key : Keys, bundle : Rows]
Blank == [content |-> None, stamp |-> 0]
NoKey == [t \in Keyed |-> Blank]
Unread == [t \in Tables |-> Blank]

Resting == {"idle", "answered", "absent", "failed", "lost"}
Building == {"load", "build", "store", "publish"}

-----------------------------------------------------------------------------
\* Variant: imported_at is not part of the revision.
WithoutImportTime(table, row) ==
    IF table \in {"runs", "laps"} THEN [row EXCEPT !.stamp = 0] ELSE row

\* What of a row enters the semantic revision.
SemanticRevision(table, row) ==
    IF table = "laps" THEN [row EXCEPT !.stamp = 0] ELSE row

Cached(key) == {i \in DOMAIN cache : cache[i].key = key}
Found(key) == cache[CHOOSE i \in Cached(key) : TRUE].bundle

\* Both entry points begin with the key; they part where it is looked up.
Call(c) ==
    /\ clients[c].pc \in Resting
    /\ calls < MaxCalls
    /\ calls' = calls + 1
    /\ clients' = [clients EXCEPT ![c].pc = "key", ![c].at = 1,
                                  ![c].since = [t \in Keyed |-> truth[t]]]
    /\ UNCHANGED <<truth, cache, inflight, disk, writes>>

\* _semantic_repository_revision reads table after table.
ReadKey(c) ==
    /\ clients[c].pc = "key"
    /\ LET at == clients[c].at
           table == KeyOrder[at]
       IN  clients' = [clients EXCEPT
              ![c].pc = IF at = Len(KeyOrder) THEN "lookup" ELSE "key",
              ![c].at = at + 1,
              ![c].key[table] = SemanticRevision(table, truth[table])]
    /\ UNCHANGED <<truth, cache, inflight, disk, calls, writes>>

Answered(k, bundle) ==
    [k EXCEPT !.pc = "answered", !.bundle = bundle, !.key = NoKey, !.at = 1,
              !.owner = None]

Ended(k, outcome) ==
    [k EXCEPT !.pc = outcome, !.bundle = Unread, !.key = NoKey, !.since = NoKey,
              !.at = 1, !.owner = None]

\* A call of peek_cached_run_intelligence neither builds nor waits.
Peek(c) ==
    /\ clients[c].pc = "lookup"
    /\ LET key == clients[c].key
       IN  clients' = [clients EXCEPT ![c] =
              IF Cached(key) = {} THEN Ended(@, "absent") ELSE Answered(@, Found(key))]
    /\ UNCHANGED <<truth, cache, inflight, disk, calls, writes>>

\* Variant: a caller does not look for a build of its key.
JoinsNone(key) == {}

Owners(key) == {f.owner : f \in {g \in inflight : g.key = key}}

\* One of build_run_intelligence is answered from memory, joins the build of its key, or starts one.
Lookup(c) ==
    /\ clients[c].pc = "lookup"
    /\ LET key == clients[c].key
       IN  \/ /\ Cached(key) # {}
              /\ clients' = [clients EXCEPT ![c] = Answered(@, Found(key))]
              /\ inflight' = inflight
           \/ /\ Cached(key) = {} /\ Owners(key) # {}
              /\ clients' = [clients EXCEPT ![c].pc = "wait",
                                 ![c].owner = CHOOSE d \in Owners(key) : TRUE]
              /\ inflight' = inflight
           \/ /\ Cached(key) = {} /\ Owners(key) = {}
              /\ clients' = [clients EXCEPT ![c].pc = "load"]
              /\ inflight' = inflight \cup {[key |-> key, owner |-> c]}
    /\ UNCHANGED <<truth, cache, disk, calls, writes>>

WaitsOn(d, c) == clients[d].pc = "wait" /\ clients[d].owner = c

\* The future of c is resolved with a bundle: who waits on it returns with it.
Resolve(c, bundle) ==
    /\ inflight' = {f \in inflight : f.owner # c}
    /\ clients' = [d \in Clients |->
          IF d = c \/ WaitsOn(d, c) THEN Answered(clients[d], bundle) ELSE clients[d]]

\* A persisted snapshot of the key answers; this path does not evict.
Load(c) ==
    /\ clients[c].pc = "load"
    /\ \E e \in disk :
          /\ e.key = clients[c].key
          /\ cache' = Append(cache, e)
          /\ Resolve(c, e.bundle)
    /\ UNCHANGED <<truth, disk, calls, writes>>

\* No file, an unreadable one, or one that fails its checks.
LoadNothing(c) ==
    /\ clients[c].pc = "load"
    /\ clients' = [clients EXCEPT ![c].pc = "build", ![c].at = 1]
    /\ UNCHANGED <<truth, cache, inflight, disk, calls, writes>>

\* _build_run_intelligence_uncached reads the rows again, and the history.
Build(c) ==
    /\ clients[c].pc = "build"
    /\ LET at == clients[c].at
           table == BuildOrder[at]
       IN  clients' = [clients EXCEPT
              ![c].pc = IF at = Len(BuildOrder) THEN "store" ELSE "build",
              ![c].at = at + 1,
              ![c].bundle[table] = truth[table]]
    /\ UNCHANGED <<truth, cache, inflight, disk, calls, writes>>

\* Variant: the failure is raised to the owner only.
FailAlone(c) ==
    /\ clients[c].pc = "build"
    /\ clients' = [clients EXCEPT ![c] = Ended(@, "failed")]
    /\ inflight' = {f \in inflight : f.owner # c}
    /\ UNCHANGED <<truth, cache, disk, calls, writes>>

\* Any exception of the build goes to the owner and to all who wait on it.
Fail(c) ==
    /\ clients[c].pc = "build"
    /\ inflight' = {f \in inflight : f.owner # c}
    /\ clients' = [d \in Clients |->
          IF d = c \/ WaitsOn(d, c) THEN Ended(clients[d], "failed") ELSE clients[d]]
    /\ UNCHANGED <<truth, cache, disk, calls, writes>>

\* Variant: the envelope is filed before the bundle is in it.
SnapshotWithoutBundle(c) == [key |-> clients[c].key, bundle |-> None]

Snapshot(c) == [key |-> clients[c].key, bundle |-> clients[c].bundle]

\* The file is replaced as a whole; a write that fails is ignored.
Store(c) ==
    /\ clients[c].pc = "store"
    /\ disk' \in {disk, {e \in disk : e.key # clients[c].key} \cup {Snapshot(c)}}
    /\ clients' = [clients EXCEPT ![c].pc = "publish"]
    /\ UNCHANGED <<truth, cache, inflight, calls, writes>>

\* Variant: nothing is evicted.
KeepAll(entries) == entries

Evicted(entries) ==
    IF Len(entries) <= Limit THEN entries
    ELSE SubSeq(entries, Len(entries) - Limit + 1, Len(entries))

Publish(c) ==
    /\ clients[c].pc = "publish"
    /\ cache' = Evicted(Append(cache, Snapshot(c)))
    /\ Resolve(c, clients[c].bundle)
    /\ UNCHANGED <<truth, disk, calls, writes>>

\* The process dies; only the files stay.
Crash ==
    /\ \E c \in Clients : clients[c].pc \notin Resting
    /\ cache' = <<>> /\ inflight' = {}
    /\ clients' = [c \in Clients |->
          IF clients[c].pc \in Resting THEN clients[c] ELSE Ended(clients[c], "lost")]
    /\ UNCHANGED <<truth, disk, calls, writes>>

Written(tables) ==
    /\ writes < MaxWrites
    /\ writes' = writes + 1
    /\ \E content \in Contents :
          truth' = [t \in Tables |->
              IF t \in tables THEN [content |-> content, stamp |-> truth[t].stamp + 1]
              ELSE truth[t]]
    /\ UNCHANGED <<cache, inflight, disk, clients, calls>>

\* Another request edits the session or moves a workflow, with a new updated_at.
Edit == Written({"session"})

\* An import writes the run's row and all its laps, events and setups; so does
\* the qualification of its laps under a new lap_eligibility_version.
Import == Written({"runs", "laps"})

\* A request about another session, or one that records an attempt or a grade.
Remember == Written({"history"})

Init ==
    /\ truth \in [Tables -> {[content |-> x, stamp |-> 0] : x \in Contents}]
    /\ cache = <<>> /\ inflight = {} /\ disk = {}
    /\ clients = [c \in Clients |->
          [pc |-> "idle", at |-> 1, key |-> NoKey, bundle |-> Unread,
           since |-> NoKey, owner |-> None]]
    /\ calls = 0 /\ writes = 0

Handle(c) ==
    \/ ReadKey(c) \/ Peek(c) \/ Lookup(c) \/ Load(c) \/ LoadNothing(c)
    \/ Build(c) \/ Fail(c) \/ Store(c) \/ Publish(c)

Next ==
    \/ \E c \in Clients : Call(c) \/ Handle(c)
    \/ Crash \/ Edit \/ Import \/ Remember

Spec == Init /\ [][Next]_vars

\* The pool runs its threads; a waiting thread moves when its future resolves.
FairSpec == Spec /\ \A c \in Clients : WF_vars(Handle(c))

-----------------------------------------------------------------------------
\* Every variable holds what it is declared to hold.
TypeOK ==
    /\ truth \in Rows
    /\ cache \in Seq(Entry)
    /\ inflight \subseteq [key : Keys, owner : Clients]
    /\ disk \subseteq Entry
    /\ clients \in [Clients ->
          [pc : Resting \cup Building \cup {"key", "lookup", "wait"},
           at : 1..5, key : Keys, bundle : Rows,
           since : Keys, owner : Clients \cup {None}]]
    /\ calls \in 0..MaxCalls /\ writes \in 0..MaxWrites

Entries == {cache[i] : i \in DOMAIN cache} \cup disk

CurrentKey == [t \in Keyed |-> SemanticRevision(t, truth[t])]

\* An entry, in memory or on disk, whose key is that of the truth as it is now
\* holds the rows the key covers as they are now, even if rows changed, and
\* changed back, while it was built, and although laps carry no time of change.
KeyedRowsAreExact ==
    \A e \in Entries :
        e.key = CurrentKey => \A t \in Keyed : e.bundle[t] = truth[t]

\* "a stale cache entry cannot be projected after telemetry, setup, workflow, or
\* history drift": such an entry holds all that the build read as it is now.
CurrentEntryIsExact == \A e \in Entries : e.key = CurrentKey => e.bundle = truth

\* Whatever path answers a call (memory, disk, another's build, its own), no row
\* the key covers is older in the answer than it was when the call began.
AnswerIsNotOlder ==
    \A c \in Clients : clients[c].pc = "answered" =>
        \A t \in Keyed : clients[c].bundle[t].stamp >= clients[c].since[t].stamp

\* Single flight: no two threads build one key.
OneBuildPerKey ==
    \A c, d \in Clients :
        /\ clients[c].pc \in Building /\ clients[d].pc \in Building
        /\ clients[c].key = clients[d].key
        => c = d

\* A thread that waits waits on a thread that is building its key.
WaitersHaveABuilder ==
    \A c \in Clients : clients[c].pc = "wait" =>
        /\ clients[c].owner \in Clients
        /\ clients[clients[c].owner].pc \in Building
        /\ clients[clients[c].owner].key = clients[c].key

\* The dict outgrows its limit only by entries that were loaded from disk.
OverflowIsOnDisk == \A i \in DOMAIN cache : i > Limit => cache[i] \in disk

\* Every call returns, with a bundle or an error, or dies with the process.
EveryCallReturns ==
    \A c \in Clients : clients[c].pc \notin Resting ~> clients[c].pc \in Resting

=============================================================================
