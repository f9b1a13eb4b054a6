-------------------------- MODULE CrewChief_proofs --------------------------
(***************************************************************************)
(* What the runs of CrewChief check on two clients, for all of them: every *)
(* history is legal, continuations are counted once, the parts of an       *)
(* advance are one chain and, unless a case was published over a later     *)
(* one, there is one open end and the two ledgers of objectives agree.     *)
(***************************************************************************)
EXTENDS CrewChief, FiniteSetTheorems, SequenceTheorems, WellFoundedInduction, TLAPS

-----------------------------------------------------------------------------
(***************************************************************************)
(* What a workspace had folded, in a table that may have grown since.      *)
(***************************************************************************)
Heard(table, w) ==
    IF w.inv = 0 THEN <<>> ELSE SubSeq(table[w.inv].events, 1, w.length)

Standing(table, w) ==
    IF w.inv = 0 THEN "none" ELSE Status(table[w.inv], Heard(table, w), w.authority)

Going(table, w) == Standing(table, w) = "open" /\ ~Pending(Heard(table, w))

\* A workspace of this table, as it is or as it was.
Known(table, w) ==
    /\ w \in Workspace /\ w.inv \in 0 .. Len(table)
    /\ w.inv # 0 => w.length <= Len(table[w.inv].events)

\* What may be done next: the baseline, or what memory may direct.
Options(now, log) == {Baseline(now, log)} \cup Attention(now, log)

Grown(old, new) ==
    /\ Len(old) <= Len(new)
    /\ \A v \in DOMAIN old :
          /\ new[v].objective = old[v].objective /\ new[v].opened = old[v].opened
          /\ Len(old[v].events) <= Len(new[v].events)
          /\ \A n \in DOMAIN old[v].events : new[v].events[n] = old[v].events[n]

-----------------------------------------------------------------------------
(***************************************************************************)
(* What a request in flight knows.                                         *)
(***************************************************************************)
Stated(table, q) ==
    /\ q \in Request /\ Known(table, q.expect)
    /\ q.kind \in {"open", "objective"} => q.what \in Objectives
    /\ q.kind # "open" => q.expect.inv # 0

\* It passed the check of its route, on a workspace of the investigation.
Entitled(table, k) ==
    LET kind == k.request.kind
        standing == Standing(table, k.on)
    IN  /\ kind = "open" => standing \in {"none", "closed"}
        /\ kind = "continue" \/ (kind = "advance" /\ k.unit # 0) => Going(table, k.on)
        /\ kind = "answer" => standing = "open" /\ Pending(Heard(table, k.on))
        /\ kind \in {"objective", "abandon"} => standing = "open"
        /\ kind = "rebase" => standing \in {"open", "stale"}

\* The action it shows to be next, and the one the pair directs, are among those
\* the planner and the memory allow.
Chosen(table, k) ==
    IsContinuation(k) =>
        /\ k.action \in Options(k.on.authority, Heard(table, k.on))
        /\ k.pair # None => k.pair.action \in Options(k.on.authority, Heard(table, k.on))

\* The part of q that precedes part n answered w.
Follows(book, q, n, w) ==
    \E s \in book : /\ s.request = q /\ s.result = w
                    /\ s.unit = IF n = 1 THEN CountUnit ELSE n - 1

\* Part n of q was decided on w.
Linked(book, q, n, w) ==
    IF n = CountUnit THEN w = q.expect
    ELSE \E s \in book : /\ s.request = q /\ s.unit # n /\ s.result = w
                         /\ n > 1 => s.unit = n - 1
                         /\ n = 1 => s.unit = CountUnit

Prepared(table, book, k) ==
    /\ k.committed = None
    /\ Entitled(table, k) /\ Chosen(table, k)
    /\ k.request.kind = "advance" => Linked(book, k.request, k.unit, k.on)

\* It has committed, and has an answer to give or a next part to begin.
Committed(table, book, k) ==
    /\ k.committed # None /\ Known(table, k.committed) /\ k.committed.inv # 0
    /\ k.request.kind = "advance" /\ k.unit # 0 =>
          \E s \in book : /\ s.request = k.request /\ s.unit = k.unit
                          /\ s.result = k.committed

Busy(table, book, k) ==
    /\ Stated(table, k.request) /\ Known(table, k.on)
    /\ k.request.kind # "open" => k.on.inv # 0
    /\ k.unit \in 0 .. CountUnit
    /\ k.request.kind # "advance" => k.unit = 0
    /\ k.pc \in {"begin", "step"} => k.committed = None /\ k.pair = None
    /\ k.pc = "begin" => k.unit = 0 /\ k.on = k.request.expect
    /\ k.pc = "step" => /\ k.request.kind = "advance" /\ k.unit \in 1 .. CountUnit
                        /\ Follows(book, k.request, k.unit, k.on)
    /\ k.pc \in {"look", "pair"} =>
          Prepared(table, book, k) \/ Committed(table, book, k)
    /\ k.pc = "commit" => Prepared(table, book, k)
    /\ k.pc = "review" => Committed(table, book, k)

Informed(table, book, k) ==
    /\ k \in Client
    /\ k.pc \notin Resting => Busy(table, book, k)
    /\ k.pc \in Resting /\ k.request # None => Stated(table, k.request)

-----------------------------------------------------------------------------
(***************************************************************************)
(* The invariant.                                                          *)
(***************************************************************************)
StoreTyped ==
    /\ authority \in Authorities /\ learned \in Nat /\ ledgerSound \in BOOLEAN
    /\ investigations \in Seq(Investigation) /\ intents \in Seq(Objectives)
    /\ published \in Seq(Workspace) /\ receipts \subseteq Receipt
    /\ sends \in Nat /\ events \in Nat
    /\ AdaptationTypeOK(Workspace, Actions)

Lawful(inv) ==
    /\ LegalEvents(inv)
    /\ \A n \in DOMAIN inv.events :
          inv.events[n].kind = "objective" => inv.events[n].what \in Objectives

Histories == \A v \in DOMAIN investigations : Lawful(investigations[v])

\* Every investigation but the latest has its ending.
Finished(table) ==
    \A v \in DOMAIN table :
        v # Len(table) => KindsIn(table[v].events) \cap Endings # {}

\* It is of the latest investigation, with all of its events.
IsLatest(w) ==
    /\ w.inv = Latest
    /\ Latest # 0 => w.length = Len(Log(Latest))

\* What holds until a case is published over a later one.
HeadIsLatest == published # <<>> => IsLatest(CaseHead)
Orderly == Finished(investigations) /\ HeadIsLatest /\ ObjectivesAgree

Remembered ==
    /\ \A n \in DOMAIN published : Known(investigations, published[n])
    /\ \A r \in receipts : /\ Known(investigations, r.expect)
                            /\ Known(investigations, r.result) /\ r.result.inv # 0

PairsFit ==
    \A p \in pairs : /\ Known(investigations, p.on)
                     /\ p.action \in Options(p.on.authority, Heard(investigations, p.on))

Counted == IsFiniteSet(receipts) /\ ContinuesAreCounted

Chained ==
    \A r \in receipts : r.request.kind = "advance" =>
        Linked(receipts, r.request, r.unit, r.expect)

Store ==
    StoreTyped /\ Histories /\ Remembered /\ PairsFit /\ Counted /\ Chained
        /\ (InOrder => Orderly)

\* A reader holds a workspace of the table; before the first case is published, one
\* with all there is, because nothing can be committed.
ReaderKnows(x) ==
    /\ x.on # None => Known(investigations, x.on)
    /\ x.pc = "publish" => x.on # None
    /\ x.pc = "state" => x.what \in Objectives
    /\ published = <<>> /\ x.on # None => IsLatest(x.on)

ReadersKnow ==
    /\ DOMAIN readers = Readers /\ readers \in [Readers -> Reader]
    /\ \A r \in Readers : ReaderKnows(readers[r])

Inv ==
    /\ Store
    /\ DOMAIN clients = Clients /\ clients \in [Clients -> Client]
    /\ \A c \in Clients : Informed(investigations, receipts, clients[c])
    /\ ReadersKnow

-----------------------------------------------------------------------------
(***************************************************************************)
(* Extremes and sequences.                                                 *)
(***************************************************************************)

\* A set of numbers has a least one.
LEMMA MinExists ==
    ASSUME NEW S \in SUBSET Nat, S # {}
    PROVE  \E x \in S : \A y \in S : x <= y
  <1> DEFINE R == OpToRel(<, Nat)
  <1>1. R = {ss \in Nat \X Nat : ss[1] < ss[2]}
    BY DEF OpToRel
  <1>2. IsWellFoundedOn(R, Nat)
    BY NatLessThanWellFounded
  <1>3. \A x, y \in Nat : <<y, x>> \in R <=> y < x
    BY <1>1
  <1> HIDE DEF R
  <1>4. PICK x \in S : \A y \in S : ~(<<y, x>> \in R)
    BY <1>2, WFMin
  <1>5. \A y \in S : y \in Nat
    OBVIOUS
  <1>6. \A y \in S : ~(y < x)
    BY <1>3, <1>4, <1>5
  <1>7. \A y \in S : x <= y
    BY <1>5, <1>6
  <1> QED
    BY <1>7

\* Min finds it.
LEMMA MinFound ==
    ASSUME NEW S \in SUBSET Nat, S # {}
    PROVE  Min(S) \in S /\ \A y \in S : Min(S) <= y
  BY MinExists DEF Min

\* Max finds the greatest of a set of places.
LEMMA MaxFound ==
    ASSUME NEW n \in Nat, NEW S \in SUBSET (1 .. n), S # {}
    PROVE  Max(S) \in S /\ \A y \in S : Max(S) >= y
  <1> DEFINE D == {n - x : x \in S}
  <1>1. \A x \in S : x \in 1 .. n
    OBVIOUS
  <1>2. D \in SUBSET Nat /\ D # {}
    <2>1. \A x \in 1 .. n : n - x \in Nat
      OBVIOUS
    <2> QED
      BY <1>1, <2>1
  <1>3. PICK d \in D : \A y \in D : d <= y
    BY <1>2, MinExists
  <1>4. PICK x \in S : d = n - x
    OBVIOUS
  <1>5. \A y \in S : n - x <= n - y
    BY <1>3, <1>4
  <1> HIDE DEF D
  <1>6. \A y \in S : x >= y
    BY <1>1, <1>5
  <1> QED
    BY <1>6 DEF Max

\* Where the last event of a kind is.
LEMMA LastOfFound ==
    ASSUME NEW log, Len(log) \in Nat, NEW kind
    PROVE  /\ LastOf(log, kind) \in 0 .. Len(log)
           /\ LastOf(log, kind) # 0 => log[LastOf(log, kind)].kind = kind
           /\ \A n \in 1 .. Len(log) : log[n].kind = kind => LastOf(log, kind) >= n
  <1> DEFINE I == {n \in 1 .. Len(log) : log[n].kind = kind}
  <1>1. LastOf(log, kind) = IF I # {} THEN Max(I) ELSE 0
    BY DEF LastOf, SelectLastInSeq
  <1>2. CASE I = {}
    BY <1>1, <1>2
  <1>3. CASE I # {}
    <2>1. I \in SUBSET (1 .. Len(log))
      OBVIOUS
    <2>2. Max(I) \in I /\ \A y \in I : Max(I) >= y
      BY <1>3, <2>1, MaxFound
    <2> QED
      BY <1>1, <1>3, <2>2
  <1> QED
    BY <1>2, <1>3

\* It is the one place that has no other of its kind after it.
LEMMA LastOfIs ==
    ASSUME NEW log, Len(log) \in Nat, NEW kind, NEW m \in 0 .. Len(log),
           m # 0 => log[m].kind = kind,
           \A n \in 1 .. Len(log) : log[n].kind = kind => m >= n
    PROVE  LastOf(log, kind) = m
  <1>1. LastOf(log, kind) \in 0 .. Len(log)
    BY LastOfFound
  <1>2. LastOf(log, kind) # 0 => m >= LastOf(log, kind)
    BY LastOfFound
  <1>3. m # 0 => LastOf(log, kind) >= m
    BY LastOfFound
  <1> QED
    BY <1>1, <1>2, <1>3

\* The events up to n, in the order they came.
LEMMA HeadShape ==
    ASSUME NEW log, NEW n \in Nat, n <= Len(log), Len(log) \in Nat
    PROVE  /\ SubSeq(log, 1, n) = [m \in 1 .. n |-> log[m]]
           /\ Len(SubSeq(log, 1, n)) = n
           /\ DOMAIN SubSeq(log, 1, n) = 1 .. n
           /\ \A m \in 1 .. n : SubSeq(log, 1, n)[m] = log[m]
  OBVIOUS

LEMMA AppendShape ==
    ASSUME NEW S, NEW log \in Seq(S), NEW e
    PROVE  /\ Len(Append(log, e)) = Len(log) + 1
           /\ DOMAIN Append(log, e) = 1 .. Len(log) + 1
           /\ \A m \in 1 .. Len(log) : Append(log, e)[m] = log[m]
           /\ Append(log, e)[Len(log) + 1] = e
           /\ Len(log) \in Nat /\ DOMAIN log = 1 .. Len(log)
  OBVIOUS

\* One more event is the last of its kind and of no other.
LEMMA LastOfAppend ==
    ASSUME NEW S, NEW log \in Seq(S), NEW e, NEW kind
    PROVE  LastOf(Append(log, e), kind) =
               IF e.kind = kind THEN Len(log) + 1 ELSE LastOf(log, kind)
  <1> DEFINE more == Append(log, e)
  <1>1. /\ Len(more) = Len(log) + 1 /\ more[Len(log) + 1] = e /\ Len(log) \in Nat
        /\ \A m \in 1 .. Len(log) : more[m] = log[m]
    BY AppendShape
  <1> HIDE DEF more
  <1>2. CASE e.kind = kind
    <2>1. \A n \in 1 .. Len(more) : more[n].kind = kind => Len(log) + 1 >= n
      BY <1>1
    <2>2. LastOf(more, kind) = Len(log) + 1
      BY <1>1, <1>2, <2>1, LastOfIs
    <2> QED
      BY <1>2, <2>2 DEF more
  <1>3. CASE e.kind # kind
    <2> DEFINE m == LastOf(log, kind)
    <2>1. /\ m \in 0 .. Len(log) /\ (m # 0 => log[m].kind = kind)
          /\ \A n \in 1 .. Len(log) : log[n].kind = kind => m >= n
      BY <1>1, LastOfFound
    <2> HIDE DEF m
    <2>2. m # 0 => more[m].kind = kind
      BY <1>1, <2>1
    <2>3. \A n \in 1 .. Len(more) : more[n].kind = kind => m >= n
      BY <1>1, <1>3, <2>1
    <2>4. LastOf(more, kind) = m
      BY <1>1, <2>1, <2>2, <2>3, LastOfIs
    <2> QED
      BY <1>3, <2>4 DEF m, more
  <1> QED
    BY <1>2, <1>3

LEMMA KindsAppend ==
    ASSUME NEW S, NEW log \in Seq(S), NEW e
    PROVE  KindsIn(Append(log, e)) = KindsIn(log) \cup {e.kind}
  <1> DEFINE more == Append(log, e)
  <1>1. /\ DOMAIN more = 1 .. Len(log) + 1 /\ more[Len(log) + 1] = e /\ Len(log) \in Nat
        /\ \A m \in 1 .. Len(log) : more[m] = log[m]
        /\ DOMAIN log = 1 .. Len(log)
    BY AppendShape
  <1> HIDE DEF more
  <1>2. KindsIn(more) = KindsIn(log) \cup {e.kind}
    <2>1. \A n \in 1 .. Len(log) + 1 : n \in 1 .. Len(log) \/ n = Len(log) + 1
      BY <1>1
    <2>2. \A n \in 1 .. Len(log) : n \in 1 .. Len(log) + 1
      BY <1>1
    <2>3. Len(log) + 1 \in 1 .. Len(log) + 1
      BY <1>1
    <2> QED
      BY <1>1, <2>1, <2>2, <2>3 DEF KindsIn
  <1> QED
    BY <1>2 DEF more

\* A pending question is the last word of its kind.
LEMMA PendingAppend ==
    ASSUME NEW S, NEW log \in Seq(S), NEW e
    PROVE  e.kind \notin {"asked", "answered"} => Pending(Append(log, e)) = Pending(log)
  BY LastOfAppend DEF Pending

-----------------------------------------------------------------------------
(***************************************************************************)
(* What is folded has the type it should.                                  *)
(***************************************************************************)

LEMMA LogTyped ==
    ASSUME NEW inv \in Investigation
    PROVE  /\ inv.events \in Seq(Event) /\ Len(inv.events) \in Nat
           /\ DOMAIN inv.events = 1 .. Len(inv.events)
           /\ \A n \in 1 .. Len(inv.events) : inv.events[n] \in Event
           /\ inv.objective \in Objectives /\ inv.opened \in Authorities
           /\ inv.continues \in Nat
  BY DEF Investigation

LEMMA FoldedTyped ==
    ASSUME NEW inv \in Investigation, Lawful(inv)
    PROVE  FoldedObjective(inv, inv.events) \in Objectives
  <1>1. /\ Len(inv.events) \in Nat /\ DOMAIN inv.events = 1 .. Len(inv.events)
        /\ inv.objective \in Objectives
    BY LogTyped
  <1> DEFINE n == LastOf(inv.events, "objective")
  <1>2. n \in 0 .. Len(inv.events) /\ (n # 0 => inv.events[n].kind = "objective")
    BY <1>1, LastOfFound
  <1> HIDE DEF n
  <1>3. n # 0 => inv.events[n].what \in Objectives
    BY <1>1, <1>2 DEF Lawful
  <1> QED
    BY <1>1, <1>3 DEF FoldedObjective, n

\* The planner's choice: an inspection not made yet, a first question, or the
\* decision.
LEMMA OptionsAllowed ==
    ASSUME NEW now \in Authorities, NEW log, NEW a \in Options(now, log)
    PROVE  /\ a \in Actions
           /\ a \notin {"ask", "decide"} => a \in ToolNames /\ a \notin InspectedIn(log)
           /\ a = "ask" => "answered" \notin KindsIn(log)
  <1> DEFINE left == Left(now, log)
             first == Min(left)
             rest == left \ {Min(left)}
  <1>1. left \in SUBSET Nat
    BY PlanAssumption DEF Left
  <1>2. \A n \in left :
           Plan[now][n] \in ToolNames /\ Plan[now][n] \notin InspectedIn(log)
               /\ Plan[now][n] \notin {"ask", "decide"}
    <2>1. \A n \in left : Plan[now][n] \in ToolsOf(now) /\ Plan[now][n] \notin InspectedIn(log)
      BY DEF Left, ToolsOf
    <2>2. ToolsOf(now) \subseteq ToolNames
      BY DEF ToolNames
    <2> QED
      BY <2>1, <2>2, PlanAssumption
  <1>3. left # {} => first \in left
    BY <1>1, MinFound
  <1>4. rest # {} => Min(rest) \in left
    <2>1. rest \in SUBSET Nat
      BY <1>1
    <2> QED
      BY <2>1, MinFound
  <1>5. Baseline(now, log) = "ask" => "answered" \notin KindsIn(log)
    <2>1. left # {} => Plan[now][first] # "ask"
      BY <1>2, <1>3
    <2> QED
      BY <2>1 DEF Baseline
  <1>6. Baseline(now, log) \in {"ask", "decide"}
            \/ (left # {} /\ Baseline(now, log) = Plan[now][first])
    BY DEF Baseline
  <1>7. \A x \in Attention(now, log) : rest # {} /\ x = Plan[now][Min(rest)]
    BY DEF Attention
  <1> HIDE DEF left, first, rest
  <1>8. CASE a = Baseline(now, log)
    BY <1>2, <1>3, <1>5, <1>6, <1>8 DEF Actions
  <1>9. CASE a \in Attention(now, log)
    BY <1>2, <1>4, <1>7, <1>9 DEF Actions
  <1> QED
    BY <1>8, <1>9 DEF Options

-----------------------------------------------------------------------------
(***************************************************************************)
(* A table only grows, and what was read of it stays as it was.            *)
(***************************************************************************)

Table == Seq(Investigation)

LEMMA TableTyped ==
    ASSUME NEW table \in Table, NEW v \in 1 .. Len(table)
    PROVE  /\ table[v] \in Investigation /\ Len(table) \in Nat
           /\ DOMAIN table = 1 .. Len(table)
  BY DEF Table

LEMMA WorkspaceTyped ==
    ASSUME NEW w \in Workspace
    PROVE  /\ w.authority \in Authorities /\ w.learned \in Nat /\ w.inv \in Nat
           /\ w.length \in Nat /\ w.objective \in Objectives /\ w.intents \in Nat
           /\ w # None
  BY NoneAssumption DEF Workspace

LEMMA GrownHeard ==
    ASSUME NEW table \in Table, NEW new \in Table, Grown(table, new),
           NEW w, Known(table, w)
    PROVE  /\ Known(new, w)
           /\ Heard(new, w) = Heard(table, w)
           /\ Standing(new, w) = Standing(table, w)
           /\ Going(new, w) = Going(table, w)
  <1>1. w \in Workspace /\ w.inv \in 0 .. Len(table) /\ w.length \in Nat
    BY WorkspaceTyped DEF Known
  <1>2. Len(table) \in Nat /\ Len(new) \in Nat /\ Len(table) <= Len(new)
    BY DEF Grown, Table
  <1>3. CASE w.inv = 0
    BY <1>1, <1>2, <1>3 DEF Known, Heard, Standing, Going
  <1>4. CASE w.inv # 0
    <2> DEFINE old == table[w.inv]
               now == new[w.inv]
    <2>1. w.inv \in 1 .. Len(table) /\ w.inv \in 1 .. Len(new)
      BY <1>1, <1>2, <1>4
    <2>2. old \in Investigation /\ now \in Investigation /\ DOMAIN table = 1 .. Len(table)
      BY <2>1, TableTyped
    <2>3. /\ Len(old.events) \in Nat /\ DOMAIN old.events = 1 .. Len(old.events)
          /\ Len(now.events) \in Nat
      BY <2>2, LogTyped
    <2>4. /\ now.objective = old.objective /\ now.opened = old.opened
          /\ Len(old.events) <= Len(now.events)
          /\ \A n \in 1 .. Len(old.events) : now.events[n] = old.events[n]
      BY <2>1, <2>2, <2>3 DEF Grown
    <2>5. w.length <= Len(old.events)
      BY <1>4 DEF Known
    <2> HIDE DEF old, now
    <2>6. \A m \in 1 .. w.length : m \in 1 .. Len(old.events)
      BY <1>1, <2>3, <2>5
    <2>7. w.length <= Len(now.events)
      BY <1>1, <2>3, <2>4, <2>5
    <2>8. /\ SubSeq(old.events, 1, w.length) = [m \in 1 .. w.length |-> old.events[m]]
          /\ SubSeq(now.events, 1, w.length) = [m \in 1 .. w.length |-> now.events[m]]
      BY <1>1, <2>3, <2>5, <2>7, HeadShape
    <2>9. SubSeq(now.events, 1, w.length) = SubSeq(old.events, 1, w.length)
      BY <2>4, <2>6, <2>8
    <2>10. Known(new, w)
      BY <1>1, <1>2, <2>7 DEF Known, now
    <2>11. Heard(new, w) = Heard(table, w)
      BY <1>4, <2>9 DEF Heard, old, now
    <2>12. Standing(new, w) = Standing(table, w)
      BY <1>4, <2>4, <2>11 DEF Standing, Status, Accepted, old, now
    <2> QED
      BY <2>10, <2>11, <2>12 DEF Going
  <1> QED
    BY <1>3, <1>4

\* A table is as grown as itself.
LEMMA GrownIsReflexive ==
    ASSUME NEW table \in Table
    PROVE  Grown(table, table)
  <1>1. \A v \in DOMAIN table : Len(table[v].events) \in Nat
    BY TableTyped, LogTyped DEF Table
  <1> QED
    BY <1>1 DEF Grown, Table

LEMMA ClientTyped ==
    ASSUME NEW k \in Client
    PROVE  /\ k.pc \in Resting \cup {"begin", "step", "look", "pair", "commit", "review"}
           /\ k.request \in Request \cup {None} /\ k.unit \in 0 .. (CountUnit + 1)
           /\ k.on \in Workspace \cup {None} /\ k.action \in Actions \cup {None}
           /\ k.pair \in [on : Workspace, action : Actions, by : Nat] \cup {None}
           /\ k.effective \in Nat /\ k.committed \in Workspace \cup {None}
  BY DEF Client

\* What a request knows it still knows when others have committed.
LEMMA GrownBusy ==
    ASSUME NEW table \in Table, NEW new \in Table, Grown(table, new),
           NEW book, NEW more, book \subseteq more,
           NEW k, Busy(table, book, k)
    PROVE  Busy(new, more, k)
  <1>1. Known(table, k.on) /\ Stated(table, k.request)
    BY DEF Busy
  <1>2. /\ Known(new, k.on) /\ Heard(new, k.on) = Heard(table, k.on)
        /\ Standing(new, k.on) = Standing(table, k.on)
        /\ Going(new, k.on) = Going(table, k.on)
    BY <1>1, GrownHeard
  <1>3. Stated(new, k.request)
    BY <1>1, GrownHeard DEF Stated
  <1>4. Entitled(table, k) => Entitled(new, k)
    BY <1>2 DEF Entitled
  <1>5. Chosen(table, k) => Chosen(new, k)
    BY <1>2 DEF Chosen
  <1>6. Linked(book, k.request, k.unit, k.on) => Linked(more, k.request, k.unit, k.on)
    BY DEF Linked
  <1>7. Follows(book, k.request, k.unit, k.on) => Follows(more, k.request, k.unit, k.on)
    BY DEF Follows
  <1>8. Prepared(table, book, k) => Prepared(new, more, k)
    BY <1>4, <1>5, <1>6 DEF Prepared
  <1>9. Committed(table, book, k) => Committed(new, more, k)
    BY GrownHeard DEF Committed
  <1> QED
    BY <1>2, <1>3, <1>7, <1>8, <1>9 DEF Busy

LEMMA GrownInformed ==
    ASSUME NEW table \in Table, NEW new \in Table, Grown(table, new),
           NEW book, NEW more, book \subseteq more,
           NEW k, Informed(table, book, k)
    PROVE  Informed(new, more, k)
  <1>1. \A q : Stated(table, q) => Stated(new, q)
    BY GrownHeard DEF Stated
  <1> QED
    BY <1>1, GrownBusy DEF Informed

-----------------------------------------------------------------------------
(***************************************************************************)
(* Workspaces of the state.                                                *)
(***************************************************************************)

LEMMA HeardNow ==
    ASSUME NEW w
    PROVE  /\ LogOf(w) = Heard(investigations, w)
           /\ StatusOf(w) = Standing(investigations, w)
           /\ Continues(w) = Going(investigations, w)
  BY DEF LogOf, Log, Heard, StatusOf, Standing, Continues, Going

\* A workspace that is built is one of its table, with every event there is.
LEMMA BuiltKnown ==
    ASSUME NEW table \in Table, \A u \in DOMAIN table : Lawful(table[u]),
           NEW stated \in Seq(Objectives), NEW experience \in Nat,
           NEW v \in 0 .. Len(table), NEW asked, authority \in Authorities,
           v = 0 /\ stated = <<>> => asked \in Objectives
    PROVE  LET w == Built(table, stated, experience, v, asked)
           IN  /\ w.inv = v /\ w.authority = authority
               /\ v # 0 => w.length = Len(table[v].events)
               /\ w \in Workspace /\ Known(table, w)
  <1> DEFINE w == Built(table, stated, experience, v, asked)
             long == IF v = 0 THEN 0 ELSE Len(table[v].events)
             aim == ObjectiveOf(table, stated, v, asked)
  <1>1. Len(table) \in Nat /\ Len(stated) \in Nat /\ DOMAIN table = 1 .. Len(table)
    BY DEF Table
  <1>2. v # 0 => v \in 1 .. Len(table)
    BY <1>1
  <1>3. v # 0 => table[v] \in Investigation /\ Lawful(table[v])
    BY <1>1, <1>2, TableTyped
  <1>4. long \in Nat
    BY <1>3, LogTyped
  <1>5. aim \in Objectives
    <2>1. CASE v # 0
      BY <1>3, <2>1, FoldedTyped DEF ObjectiveOf
    <2>2. CASE v = 0 /\ stated = <<>>
      BY <2>2 DEF ObjectiveOf, Intent
    <2>3. CASE v = 0 /\ stated # <<>>
      <3>1. stated[Len(stated)] \in Objectives
        BY <2>3, ElementOfSeq, <1>1, EmptySeq
      <3> QED
        BY <2>3, <3>1 DEF ObjectiveOf, Intent, Last
    <2> QED
      BY <2>1, <2>2, <2>3
  <1>6. w = [authority |-> authority, learned |-> experience, inv |-> v, length |-> long,
             objective |-> aim, intents |-> Len(stated)]
    BY DEF Built
  <1> HIDE DEF long, aim, w
  <1>7. w.inv = v /\ w.authority = authority /\ w.length = long /\ w \in Workspace
    BY <1>1, <1>4, <1>5, <1>6 DEF Workspace
  <1>8. long <= long
    BY <1>4
  <1>9. Known(table, w)
    BY <1>1, <1>7, <1>8 DEF Known, long
  <1> QED
    BY <1>7, <1>9 DEF long, w

\* A pair was frozen for the same investigation and the same events.
LEMMA RevisionKnown ==
    ASSUME NEW table, NEW w, Known(table, w)
    PROVE  /\ Known(table, Revision(w)) /\ Heard(table, Revision(w)) = Heard(table, w)
           /\ Revision(w) \in Workspace /\ Revision(w).authority = w.authority
  <1>1. w \in Workspace
    BY DEF Known
  <1>2. /\ Revision(w) \in Workspace /\ Revision(w).inv = w.inv
        /\ Revision(w).length = w.length /\ Revision(w).authority = w.authority
    BY <1>1 DEF Revision, Workspace
  <1> QED
    BY <1>2 DEF Known, Heard

LEMMA ShownIsAnOption ==
    ASSUME PairsFit, NEW w, Known(investigations, w)
    PROVE  Shown(w) \in Options(w.authority, Heard(investigations, w))
  <1> DEFINE active == {p \in PairsOf(Revision(w)) :
                            p.by # 0 /\ Usable(p, Effective(verified, decision))}
  <1>1. CASE active = {}
    BY <1>1, HeardNow DEF Shown, Options
  <1>2. CASE active # {}
    <2>1. PICK p \in active : p = CHOOSE x \in active : TRUE
      BY <1>2
    <2>2. p \in pairs /\ p.on = Revision(w)
      BY <2>1 DEF PairsOf
    <2>3. p.action \in Options(w.authority, Heard(investigations, w))
      BY <2>2, RevisionKnown DEF PairsFit
    <2>4. Shown(w) = p.action
      BY <1>2, <2>1 DEF Shown
    <2> QED
      BY <2>3, <2>4
  <1> QED
    BY <1>1, <1>2

\* A receipt that is found is one of the request and the part.
LEMMA ResultFound ==
    ASSUME NEW q, NEW n, ReceiptsOf(q, n) # {}
    PROVE  \E s \in receipts : s.request = q /\ s.unit = n /\ s.result = ResultOf(q, n)
  BY DEF ReceiptsOf, ResultOf

-----------------------------------------------------------------------------
(***************************************************************************)
(* What a request becomes.                                                 *)
(***************************************************************************)

LEMMA ConstantsTyped ==
    /\ MaxSteps \in Nat /\ MaxSteps # 0 /\ CountUnit = MaxSteps + 1
    /\ \A n : n \in 1 .. MaxSteps => n \in Nat /\ n # 0 /\ n # CountUnit /\ n <= MaxSteps
    /\ CountUnit \in Nat /\ CountUnit # 0 /\ CountUnit # 1
    /\ 1 \in 1 .. CountUnit /\ 1 \in 0 .. CountUnit /\ 1 \in 0 .. (CountUnit + 1)
    /\ CountUnit \in 0 .. CountUnit /\ CountUnit \in 0 .. (CountUnit + 1)
    /\ 0 \in 0 .. CountUnit /\ 0 \in 0 .. (CountUnit + 1)
    /\ \A q \in Request : q.kind \in AllKinds
  <1>1. MaxSteps \in Nat \ {0} /\ CountUnit = MaxSteps + 1
    BY CrewAssumption DEF CountUnit
  <1>2. \A q \in Request : q.kind \in AllKinds
    BY DEF Request
  <1> QED
    BY <1>1, <1>2

\* A request as it is right after it begins or ends.
LEMMA Fresh ==
    ASSUME NEW pc, NEW q
    PROVE  [NoRequest EXCEPT !.pc = pc, !.request = q] =
               [pc |-> pc, request |-> q, unit |-> 0, on |-> None, action |-> None,
                pair |-> None, effective |-> 0, committed |-> None]
  <1> DEFINE first == [NoRequest EXCEPT !.pc = pc]
  <1>1. first = [pc |-> pc, request |-> None, unit |-> 0, on |-> None, action |-> None,
                 pair |-> None, effective |-> 0, committed |-> None]
    BY DEF NoRequest
  <1>2. [NoRequest EXCEPT !.pc = pc, !.request = q] = [first EXCEPT !.request = q]
    OBVIOUS
  <1> HIDE DEF first
  <1> QED
    BY <1>1, <1>2

LEMMA NoRequestTyped ==
    ASSUME NEW pc \in Resting \cup {"begin", "step", "look", "pair", "commit", "review"},
           NEW q \in Request \cup {None}
    PROVE  LET k == [NoRequest EXCEPT !.pc = pc, !.request = q]
           IN  /\ k \in Client /\ k.pc = pc /\ k.request = q /\ k.unit = 0
               /\ k.committed = None /\ k.pair = None /\ k.on = None
  <1> DEFINE k == [NoRequest EXCEPT !.pc = pc, !.request = q]
  <1>1. k = [pc |-> pc, request |-> q, unit |-> 0, on |-> None, action |-> None,
             pair |-> None, effective |-> 0, committed |-> None]
    BY Fresh
  <1>2. 0 \in 0 .. (CountUnit + 1) /\ 0 \in Nat
    BY ConstantsTyped
  <1> HIDE DEF k
  <1>3. k \in Client
    BY <1>1, <1>2 DEF Client
  <1> QED
    BY <1>1, <1>3 DEF k

LEMMA EndsInformed ==
    ASSUME NEW table, NEW book, NEW k, Stated(table, k.request), NEW pc \in Resting
    PROVE  Informed(table, book, Ends(k, pc))
  <1>1. k.request \in Request \cup {None}
    BY DEF Stated
  <1>2. /\ Ends(k, pc) \in Client /\ Ends(k, pc).pc = pc
        /\ Ends(k, pc).request = k.request
    BY <1>1, NoRequestTyped DEF Ends
  <1> QED
    BY <1>2 DEF Informed

\* The next part of an advance follows the one that answered w.
LEMMA OnwardInformed ==
    ASSUME NEW table, NEW book, NEW k, Stated(table, k.request),
           k.unit \in 0 .. CountUnit,
           NEW w, Known(table, w), w.inv # 0,
           k.request.kind = "advance" /\ k.unit # 0 =>
               \E s \in book : s.request = k.request /\ s.unit = k.unit /\ s.result = w
    PROVE  Informed(table, book, Onward(k, w))
  <1> DEFINE q == k.request
             part == IF k.unit = CountUnit THEN 1 ELSE k.unit + 1
             new == [NoRequest EXCEPT !.pc = "step", !.request = q, !.on = w,
                                      !.unit = part]
  <1>1. q \in Request
    BY DEF Stated
  <1>2. CASE q.kind # "advance" \/ k.unit = 0
    <2>1. "ok" \in Resting
      BY DEF Resting
    <2>2. Onward(k, w) = Ends(k, "ok")
      BY <1>2 DEF Onward, Ends
    <2> QED
      BY <2>1, <2>2, EndsInformed
  <1>3. CASE q.kind = "advance" /\ k.unit # 0
    <2>1. Onward(k, w) = new
      BY <1>3 DEF Onward
    <2>2. new = [pc |-> "step", request |-> q, unit |-> part, on |-> w, action |-> None,
                 pair |-> None, effective |-> 0, committed |-> None]
      <3> DEFINE first == [NoRequest EXCEPT !.pc = "step", !.request = q]
                 second == [first EXCEPT !.on = w]
      <3> HIDE DEF part
      <3>1. first = [pc |-> "step", request |-> q, unit |-> 0, on |-> None,
                     action |-> None, pair |-> None, effective |-> 0, committed |-> None]
        BY Fresh
      <3>2. new = [second EXCEPT !.unit = part]
        OBVIOUS
      <3> HIDE DEF first
      <3>3. second = [pc |-> "step", request |-> q, unit |-> 0, on |-> w,
                      action |-> None, pair |-> None, effective |-> 0, committed |-> None]
        BY <3>1
      <3> HIDE DEF second
      <3> QED
        BY <3>2, <3>3
    <2>3. /\ part \in 1 .. CountUnit /\ part \in 0 .. CountUnit
          /\ part \in 0 .. (CountUnit + 1)
      BY <1>3, ConstantsTyped
    <2>4. k.unit = IF part = 1 THEN CountUnit ELSE part - 1
      BY <1>3, ConstantsTyped
    <2>5. w \in Workspace
      BY DEF Known
    <2>6. PICK s \in book : s.request = q /\ s.unit = k.unit /\ s.result = w
      BY <1>3
    <2> HIDE DEF part, new
    <2>7. Follows(book, q, part, w)
      BY <2>4, <2>6 DEF Follows
    <2>8. new \in Client
      BY <1>1, <2>2, <2>3, <2>5 DEF Client
    <2>9. /\ new.pc = "step" /\ new.request = q /\ new.unit = part /\ new.on = w
          /\ new.committed = None /\ new.pair = None
      BY <2>2
    <2>10. "step" \notin Resting
      BY DEF Resting
    <2>11. Busy(table, book, new)
      BY <1>3, <2>3, <2>7, <2>9 DEF Busy
    <2> QED
      BY <2>1, <2>8, <2>9, <2>10, <2>11 DEF Informed
  <1> QED
    BY <1>2, <1>3

\* Ready for the transaction, or for the pair before it.
LEMMA PreparedInformed ==
    ASSUME NEW table, NEW book, NEW k \in Client, k.pc \in {"look", "pair", "commit"},
           Stated(table, k.request), Known(table, k.on),
           k.request.kind # "open" => k.on.inv # 0,
           k.unit \in 0 .. CountUnit, k.request.kind # "advance" => k.unit = 0,
           Prepared(table, book, k)
    PROVE  Informed(table, book, k)
  BY DEF Informed, Busy, Resting

LEMMA CommittedInformed ==
    ASSUME NEW table, NEW book, NEW k \in Client, k.pc \in {"look", "pair", "review"},
           Stated(table, k.request), Known(table, k.on),
           k.request.kind # "open" => k.on.inv # 0,
           k.unit \in 0 .. CountUnit, k.request.kind # "advance" => k.unit = 0,
           Committed(table, book, k)
    PROVE  Informed(table, book, k)
  BY DEF Informed, Busy, Resting

\* A continuation looks for its pair with an action the planner allows.
LEMMA LookingInformed ==
    ASSUME PairsFit, NEW k \in Client, k.committed = None, k.pair = None,
           Stated(investigations, k.request), Known(investigations, k.on), k.on.inv # 0,
           k.unit \in 0 .. CountUnit, k.request.kind # "advance" => k.unit = 0,
           Entitled(investigations, k),
           k.request.kind = "advance" => Linked(receipts, k.request, k.unit, k.on)
    PROVE  Informed(investigations, receipts, Looking(k))
  <1> DEFINE a == Shown(k.on)
             new == [k EXCEPT !.pc = "look", !.action = a]
  <1>1. a \in Options(k.on.authority, Heard(investigations, k.on))
    BY ShownIsAnOption
  <1> HIDE DEF a
  <1>2. a \in Actions
    <2>1. k.on.authority \in Authorities
      BY DEF Known, Workspace
    <2> QED
      BY <1>1, <2>1, OptionsAllowed
  <1>3. /\ new \in Client /\ new.pc = "look" /\ new.request = k.request
        /\ new.unit = k.unit /\ new.on = k.on /\ new.action = a
        /\ new.pair = k.pair /\ new.committed = k.committed
    BY <1>2 DEF Client
  <1> HIDE DEF new
  <1>4. Prepared(investigations, receipts, new)
    BY <1>1, <1>3 DEF Prepared, Entitled, Chosen
  <1>5. Informed(investigations, receipts, new)
    BY <1>3, <1>4, PreparedInformed
  <1> QED
    BY <1>5 DEF Looking, a, new

-----------------------------------------------------------------------------
(***************************************************************************)
(* The steps that change nothing but what a request knows.                 *)
(***************************************************************************)

\* What Inv says of a request in flight.
LEMMA InFlight ==
    ASSUME Inv, NEW c \in Clients
    PROVE  /\ clients[c] \in Client /\ Informed(investigations, receipts, clients[c])
           /\ clients[c].pc \notin Resting =>
                 Busy(investigations, receipts, clients[c])
           /\ investigations \in Table /\ PairsFit
  BY DEF Inv, Informed, Store, StoreTyped, Table

LEMMA ReceiptKnown ==
    ASSUME Inv, NEW r \in receipts
    PROVE  /\ Known(investigations, r.expect)
           /\ Known(investigations, r.result) /\ r.result.inv # 0
  BY DEF Inv, Store, Remembered

\* The check of the routes.
LEMMA AllowedIsEntitled ==
    ASSUME NEW k, k.request.kind \in AllKinds, Allows(k.request.kind, k.on, k.request.what)
    PROVE  /\ Entitled(investigations, k)
           /\ \A j : j.request = k.request /\ j.on = k.on => Entitled(investigations, j)
  BY HeardNow DEF Allows, Entitled, AllKinds, Going

LEMMA BeginInforms ==
    ASSUME Inv, NEW c \in Clients, Begin(c)
    PROVE  \E new : Informed(investigations, receipts, new) /\ Become(c, new)
  <1> DEFINE k == clients[c]
             q == k.request
             counted == q.kind = "advance" /\ ReceiptsOf(q, CountUnit) # {}
             w == ResultOf(q, CountUnit)
             step == [k EXCEPT !.pc = "step", !.unit = 1, !.on = w]
             count == [k EXCEPT !.pc = "commit", !.unit = CountUnit]
             ready == [k EXCEPT !.pc = "commit"]
             allowed == IsOn(k.on, q) /\ Allows(q.kind, k.on, q.what)
  <1>1. k.pc = "begin" /\ k.pc \notin Resting
    BY DEF Begin, At, Resting
  <1>2. k \in Client /\ Busy(investigations, receipts, k) /\ PairsFit
    BY <1>1, InFlight
  <1>3. /\ Stated(investigations, q) /\ Known(investigations, k.on)
        /\ k.unit = 0 /\ k.on = q.expect /\ k.committed = None /\ k.pair = None
        /\ q.kind # "open" => k.on.inv # 0
    BY <1>1, <1>2 DEF Busy
  <1>4. q \in Request /\ q.kind \in AllKinds
    BY <1>3, ConstantsTyped DEF Stated
  <1> DEFINE new == CASE ReceiptsOf(q, 0) # {} -> Ends(k, "ok")
                      [] ReceiptsOf(q, 0) = {} /\ counted -> step
                      [] ReceiptsOf(q, 0) = {} /\ ~counted /\ IsOn(k.on, q)
                            /\ Allows(q.kind, k.on, q.what) ->
                            CASE q.kind = "continue" -> Looking(k)
                              [] q.kind = "advance" -> count
                              [] OTHER -> ready
                      [] OTHER -> Ends(k, "refused")
  <1>5. Become(c, new)
    BY DEF Begin
  <1>6. Informed(investigations, receipts, Ends(k, "ok"))
        /\ Informed(investigations, receipts, Ends(k, "refused"))
    BY <1>3, EndsInformed DEF Resting
  <1>7. ASSUME counted PROVE Informed(investigations, receipts, step)
    <2>1. PICK s \in receipts : s.request = q /\ s.unit = CountUnit /\ s.result = w
      BY <1>7, ResultFound
    <2>2. Known(investigations, w) /\ w.inv # 0 /\ w \in Workspace
      BY <2>1, ReceiptKnown DEF Known
    <2> HIDE DEF w
    <2>3. /\ step \in Client /\ step.pc = "step" /\ step.request = q /\ step.unit = 1
          /\ step.on = w /\ step.pair = None /\ step.committed = None
      BY <1>2, <1>3, <2>2, ConstantsTyped DEF Client
    <2> HIDE DEF step
    <2>4. Follows(receipts, q, 1, w)
      BY <2>1 DEF Follows
    <2>5. Busy(investigations, receipts, step)
      BY <1>3, <1>7, <2>2, <2>3, <2>4, ConstantsTyped DEF Busy
    <2> QED
      BY <2>3, <2>5 DEF Informed, Resting
  <1>8. ASSUME allowed, q.kind = "continue" PROVE Informed(investigations, receipts, Looking(k))
    <2>1. Entitled(investigations, k)
      BY <1>4, <1>8, AllowedIsEntitled
    <2> QED
      BY <1>2, <1>3, <1>8, <2>1, LookingInformed, ConstantsTyped
  <1>9. ASSUME allowed, q.kind = "advance" PROVE Informed(investigations, receipts, count)
    <2>1. /\ count \in Client /\ count.pc = "commit" /\ count.request = q
          /\ count.unit = CountUnit
          /\ count.on = k.on /\ count.pair = None /\ count.committed = None
      BY <1>2, <1>3, ConstantsTyped DEF Client
    <2> HIDE DEF count
    <2>2. Entitled(investigations, count)
      BY <1>4, <1>9, <2>1, AllowedIsEntitled
    <2>3. Prepared(investigations, receipts, count)
      BY <1>3, <1>9, <2>1, <2>2, ConstantsTyped DEF Prepared, Chosen, IsContinuation, Linked
    <2> QED
      BY <1>3, <1>9, <2>1, <2>3, PreparedInformed, ConstantsTyped
  <1>10. ASSUME allowed, q.kind \notin {"continue", "advance"}
         PROVE  Informed(investigations, receipts, ready)
    <2>1. /\ ready \in Client /\ ready.pc = "commit" /\ ready.request = q
          /\ ready.unit = 0
          /\ ready.on = k.on /\ ready.pair = None /\ ready.committed = None
      BY <1>2, <1>3 DEF Client
    <2> HIDE DEF ready
    <2>2. Entitled(investigations, ready)
      BY <1>4, <1>10, <2>1, AllowedIsEntitled
    <2>3. Prepared(investigations, receipts, ready)
      BY <1>10, <2>1, <2>2 DEF Prepared, Chosen, IsContinuation
    <2> QED
      BY <1>3, <1>10, <2>1, <2>3, PreparedInformed, ConstantsTyped
  <1> HIDE DEF step, count, ready, k, q, w
  <1>11. Informed(investigations, receipts, new)
    BY <1>6, <1>7, <1>8, <1>9, <1>10
  <1> QED
    BY <1>5, <1>11

LEMMA StepInforms ==
    ASSUME Inv, NEW c \in Clients, Step(c)
    PROVE  \E new : Informed(investigations, receipts, new) /\ Become(c, new)
  <1> DEFINE k == clients[c]
             q == k.request
             w == ResultOf(q, k.unit)
             stops == Boundary(k.on) \/ k.unit > MaxSteps
             last == [k EXCEPT !.pc = "commit", !.unit = 0]
             new == CASE stops -> last
                      [] ~stops /\ ReceiptsOf(q, k.unit) # {} -> Onward(k, w)
                      [] ~stops /\ ReceiptsOf(q, k.unit) = {} /\ IsOn(k.on, q) -> Looking(k)
                      [] OTHER -> Ends(k, "refused")
  <1>1. k.pc = "step" /\ k.pc \notin Resting
    BY DEF Step, At, Resting
  <1>2. k \in Client /\ Busy(investigations, receipts, k) /\ PairsFit
    BY <1>1, InFlight
  <1>3. /\ Stated(investigations, q) /\ Known(investigations, k.on)
        /\ k.unit \in 1 .. CountUnit /\ q.kind = "advance"
        /\ k.committed = None /\ k.pair = None /\ k.on.inv # 0
        /\ Follows(receipts, q, k.unit, k.on)
    BY <1>1, <1>2 DEF Busy
  <1>4. Become(c, new)
    BY DEF Step
  <1>5. Informed(investigations, receipts, Ends(k, "refused"))
    BY <1>3, EndsInformed DEF Resting
  <1>6. Informed(investigations, receipts, last)
    <2>1. /\ last \in Client /\ last.pc = "commit" /\ last.request = q /\ last.unit = 0
          /\ last.on = k.on /\ last.pair = None /\ last.committed = None
      BY <1>2, <1>3, ConstantsTyped DEF Client
    <2> HIDE DEF last
    <2>2. Linked(receipts, q, 0, k.on)
      BY <1>3, ConstantsTyped DEF Linked, Follows
    <2>3. Prepared(investigations, receipts, last)
      BY <1>3, <2>1, <2>2 DEF Prepared, Entitled, Chosen, IsContinuation
    <2> QED
      BY <1>3, <2>1, <2>3, PreparedInformed, ConstantsTyped
  <1>7. ASSUME ReceiptsOf(q, k.unit) # {}
        PROVE  Informed(investigations, receipts, Onward(k, w))
    <2>1. PICK s \in receipts : s.request = q /\ s.unit = k.unit /\ s.result = w
      BY <1>7, ResultFound
    <2>2. Known(investigations, w) /\ w.inv # 0
      BY <2>1, ReceiptKnown
    <2>3. k.unit \in 0 .. CountUnit
      BY <1>3, ConstantsTyped
    <2> QED
      BY <1>3, <2>1, <2>2, <2>3, OnwardInformed
  <1>8. ASSUME ~stops PROVE Informed(investigations, receipts, Looking(k))
    <2>1. Going(investigations, k.on)
      BY <1>8, HeardNow DEF Boundary
    <2>2. Entitled(investigations, k)
      BY <1>3, <2>1 DEF Entitled
    <2>3. Linked(receipts, q, k.unit, k.on)
      BY <1>3, <1>8, ConstantsTyped DEF Linked, Follows
    <2>4. k.unit \in 0 .. CountUnit
      BY <1>3, ConstantsTyped
    <2> QED
      BY <1>2, <1>3, <2>2, <2>3, <2>4, LookingInformed
  <1> HIDE DEF last, k, q, w, stops
  <1>9. Informed(investigations, receipts, new)
    BY <1>5, <1>6, <1>7, <1>8
  <1> QED
    BY <1>4, <1>9

\* With a pair the planner allows, or without one.
LEMMA AfterFreezeInforms ==
    ASSUME NEW k, k.pc \in {"look", "pair"}, k \in Client,
           Busy(investigations, receipts, k),
           NEW p \in [on : Workspace, action : Actions, by : Nat] \cup {None},
           p # None /\ k.committed = None =>
               p.action \in Options(k.on.authority, Heard(investigations, k.on))
    PROVE  Informed(investigations, receipts, AfterFreeze(k, p))
  <1>1. /\ Stated(investigations, k.request) /\ Known(investigations, k.on)
        /\ k.unit \in 0 .. CountUnit
        /\ k.request.kind # "open" => k.on.inv # 0
        /\ k.request.kind # "advance" => k.unit = 0
        /\ \/ Prepared(investigations, receipts, k)
           \/ Committed(investigations, receipts, k)
    BY DEF Busy
  <1>2. CASE k.committed = None
    <2> DEFINE new == [k EXCEPT !.pc = "commit", !.pair = p]
    <2>1. /\ new \in Client /\ new.pc = "commit" /\ new.request = k.request
          /\ new.unit = k.unit /\ new.on = k.on /\ new.action = k.action
          /\ new.pair = p /\ new.committed = None
      BY <1>2 DEF Client
    <2> HIDE DEF new
    <2>2. Prepared(investigations, receipts, k)
      BY <1>1, <1>2 DEF Committed
    <2>3. Prepared(investigations, receipts, new)
      BY <1>2, <2>1, <2>2 DEF Prepared, Entitled, Chosen, IsContinuation
    <2>4. Informed(investigations, receipts, new)
      BY <1>1, <2>1, <2>3, PreparedInformed
    <2> QED
      BY <1>2, <2>4 DEF AfterFreeze, new
  <1>3. CASE k.committed # None
    <2>1. Committed(investigations, receipts, k)
      BY <1>1, <1>3 DEF Prepared
    <2>2. Informed(investigations, receipts, Onward(k, k.committed))
      BY <1>1, <2>1, OnwardInformed DEF Committed
    <2> QED
      BY <1>3, <2>2 DEF AfterFreeze
  <1> QED
    BY <1>2, <1>3

\* What a freeze is for is known.
LEMMA FreezingKnown ==
    ASSUME NEW k, k.pc \in {"look", "pair"}, Busy(investigations, receipts, k)
    PROVE  Known(investigations, Freezing(k))
  BY DEF Busy, Freezing, Prepared, Committed

\* Making up for a review, or auditing, keeps the ledger's type and every pair.
LEMMA RestoredTyped ==
    ASSUME AdaptationTypeOK(Workspace, Actions), Restored
    PROVE  AdaptationTypeOK(Workspace, Actions)' /\ pairs' = pairs
  <1>1. CASE unreviewed
    <2>1. PICK state \in ActivationStates :
              decision' = [number |-> decision.number + 1, state |-> state]
      BY <1>1 DEF Restored, Reviewed
    <2>2. decision.number \in Nat
      BY DEF AdaptationTypeOK
    <2>3. decision' \in [number : Nat, state : ActivationStates]
      BY <2>1, <2>2
    <2> QED
      BY <1>1, <2>3 DEF Restored, Reviewed, AdaptationTypeOK
  <1>2. CASE ~unreviewed
    BY <1>2 DEF Restored, AdaptationTypeOK, ledger
  <1> QED
    BY <1>1, <1>2

LEMMA EffectiveTyped ==
    ASSUME AdaptationTypeOK(Workspace, Actions)'
    PROVE  EffectiveBefore \in Nat
  <1>1. decision'.number \in Nat
    BY DEF AdaptationTypeOK
  <1> QED
    BY <1>1 DEF EffectiveBefore, Effective

LEMMA InvTyped ==
    ASSUME Inv
    PROVE  /\ AdaptationTypeOK(Workspace, Actions) /\ pairs \subseteq [on : Workspace, action : Actions, by : Nat]
           /\ PairsFit
  BY DEF Inv, Store, StoreTyped, AdaptationTypeOK

LEMMA LookInforms ==
    ASSUME Inv, NEW c \in Clients, Look(c)
    PROVE  /\ \E new : Informed(investigations, receipts, new) /\ Become(c, new)
           /\ AdaptationTypeOK(Workspace, Actions)' /\ pairs' = pairs
  <1> DEFINE k == clients[c]
             w == Freezing(k)
  <1>1. k.pc = "look" /\ k.pc \notin Resting
    BY DEF Look, At, Resting
  <1>2. k \in Client /\ Busy(investigations, receipts, k)
    BY <1>1, InFlight
  <1>3. AdaptationTypeOK(Workspace, Actions) /\ PairsFit
        /\ pairs \subseteq [on : Workspace, action : Actions, by : Nat]
    BY InvTyped
  <1>4. CASE NoPair(c)
    <2>1. Informed(investigations, receipts, AfterFreeze(k, None))
      BY <1>1, <1>2, AfterFreezeInforms
    <2> QED
      BY <1>3, <1>4, <2>1 DEF NoPair, AdaptationTypeOK, adaptation, ledger
  <1>5. CASE Restored /\ Become(c, [k EXCEPT !.pc = "pair", !.effective = EffectiveBefore])
    <2>1. AdaptationTypeOK(Workspace, Actions)' /\ pairs' = pairs
      BY <1>3, <1>5, RestoredTyped
    <2>2. EffectiveBefore \in Nat
      BY <2>1, EffectiveTyped
    <2> DEFINE e == EffectiveBefore
               new == [k EXCEPT !.pc = "pair", !.effective = e]
    <2> HIDE DEF e
    <2>3. /\ new \in Client /\ new.pc = "pair" /\ new.request = k.request
          /\ new.unit = k.unit /\ new.on = k.on /\ new.action = k.action
          /\ new.pair = k.pair /\ new.committed = k.committed
      BY <1>2, <2>2 DEF Client, e
    <2> HIDE DEF new
    <2>4. Busy(investigations, receipts, new)
      BY <1>1, <1>2, <2>3 DEF Busy, Prepared, Committed, Entitled, Chosen, IsContinuation
    <2>5. Informed(investigations, receipts, new)
      BY <2>3, <2>4 DEF Informed, Resting
    <2> QED
      BY <1>5, <2>1, <2>5 DEF new, e
  <1>6. CASE /\ Restored
             /\ \E p \in PairsOf(Revision(w)) :
                    Become(c, AfterFreeze(k, IF Usable(p, EffectiveBefore) THEN p ELSE None))
    <2>1. AdaptationTypeOK(Workspace, Actions)' /\ pairs' = pairs
      BY <1>3, <1>6, RestoredTyped
    <2>2. PICK p \in PairsOf(Revision(w)) :
              Become(c, AfterFreeze(k, IF Usable(p, EffectiveBefore) THEN p ELSE None))
      BY <1>6
    <2> DEFINE x == IF Usable(p, EffectiveBefore) THEN p ELSE None
    <2>3. p \in pairs /\ p.on = Revision(w)
      BY <2>2 DEF PairsOf
    <2>4. p.action \in Options(Revision(w).authority, Heard(investigations, Revision(w)))
      BY <1>3, <2>3 DEF PairsFit
    <2>5. Known(investigations, w)
      BY <1>1, <1>2, FreezingKnown
    <2>6. p.action \in Options(w.authority, Heard(investigations, w))
      BY <2>4, <2>5, RevisionKnown
    <2>7. x \in [on : Workspace, action : Actions, by : Nat] \cup {None}
          /\ (x # None => x.action \in Options(w.authority, Heard(investigations, w)))
      BY <1>3, <2>3, <2>6
    <2> HIDE DEF x
    <2>8. Informed(investigations, receipts, AfterFreeze(k, x))
      BY <1>1, <1>2, <2>7, AfterFreezeInforms DEF Freezing
    <2> QED
      BY <2>1, <2>2, <2>8 DEF x
  <1> QED
    BY <1>4, <1>5, <1>6 DEF Look

\* A pair is frozen as the planner and the memory say, for what is known.
LEMMA FreezeInforms ==
    ASSUME Inv, NEW c \in Clients, Freeze(c)
    PROVE  /\ \E new : Informed(investigations, receipts, new) /\ Become(c, new)
           /\ AdaptationTypeOK(Workspace, Actions)' /\ PairsFit'
  <1> DEFINE k == clients[c]
             w == Freezing(k)
  <1>1. k.pc = "pair" /\ k.pc \notin Resting
    BY DEF Freeze, At, Resting
  <1>2. k \in Client /\ Busy(investigations, receipts, k)
    BY <1>1, InFlight
  <1>3. /\ AdaptationTypeOK(Workspace, Actions) /\ PairsFit
        /\ pairs \subseteq [on : Workspace, action : Actions, by : Nat]
    BY InvTyped
  <1>4. investigations' = investigations
    BY DEF Freeze, history
  <1>5. CASE NoPair(c)
    <2>1. Informed(investigations, receipts, AfterFreeze(k, None))
      BY <1>1, <1>2, AfterFreezeInforms
    <2>2. UNCHANGED adaptation
      BY <1>5 DEF NoPair
    <2> QED
      BY <1>3, <1>4, <1>5, <2>1, <2>2
         DEF NoPair, AdaptationTypeOK, adaptation, ledger, PairsFit
  <1>6. CASE \E p \in Decisions(w, k.effective) : Frozen(p) /\ Become(c, AfterFreeze(k, p))
    <2>1. PICK p \in Decisions(w, k.effective) :
              Frozen(p) /\ Become(c, AfterFreeze(k, p))
      BY <1>6
    <2>2. Known(investigations, w)
      BY <1>1, <1>2, FreezingKnown
    <2>3. k.effective \in Nat
      BY <1>2 DEF Client
    <2>4. PICK a, by :
              /\ p = [on |-> Revision(w), action |-> a, by |-> by]
              /\ a \in Options(w.authority, LogOf(w)) /\ by \in Nat
      BY <2>1, <2>3 DEF Decisions, Options
    <2>5. /\ Known(investigations, Revision(w)) /\ Revision(w) \in Workspace
          /\ Heard(investigations, Revision(w)) = Heard(investigations, w)
          /\ Revision(w).authority = w.authority /\ w.authority \in Authorities
      BY <2>2, RevisionKnown, WorkspaceTyped DEF Known
    <2>6. a \in Options(w.authority, Heard(investigations, w)) /\ a \in Actions
      BY <2>4, <2>5, HeardNow, OptionsAllowed
    <2>7. /\ p \in [on : Workspace, action : Actions, by : Nat]
          /\ p.on = Revision(w) /\ p.action = a
      BY <2>4, <2>5, <2>6
    <2>8. Informed(investigations, receipts, AfterFreeze(k, p))
      BY <1>1, <1>2, <2>6, <2>7, AfterFreezeInforms DEF Freezing
    <2>9. /\ pairs' = pairs \cup {p} /\ verified' = FALSE
          /\ decision' = decision /\ unreviewed' = unreviewed
      BY <2>1 DEF Frozen
    <2>10. AdaptationTypeOK(Workspace, Actions)'
      BY <1>3, <2>7, <2>9 DEF AdaptationTypeOK
    <2>11. PairsFit'
      BY <1>3, <1>4, <2>5, <2>6, <2>7, <2>9 DEF PairsFit
    <2> QED
      BY <2>1, <2>8, <2>10, <2>11
  <1> QED
    BY <1>5, <1>6 DEF Freeze

LEMMA ReviewInforms ==
    ASSUME Inv, NEW c \in Clients, Review(c)
    PROVE  /\ \E new : Informed(investigations, receipts, new) /\ Become(c, new)
           /\ AdaptationTypeOK(Workspace, Actions)' /\ pairs' = pairs
  <1> DEFINE k == clients[c]
  <1>1. k.pc = "review" /\ k.pc \notin Resting
    BY DEF Review, At, Resting
  <1>2. Busy(investigations, receipts, k)
    BY <1>1, InFlight
  <1>3. AdaptationTypeOK(Workspace, Actions)
    BY InvTyped
  <1>4. /\ Stated(investigations, k.request) /\ k.unit \in 0 .. CountUnit
        /\ Committed(investigations, receipts, k)
    BY <1>1, <1>2 DEF Busy
  <1>5. Informed(investigations, receipts, Onward(k, k.committed))
    BY <1>4, OnwardInformed DEF Committed
  <1>6. AdaptationTypeOK(Workspace, Actions)' /\ pairs' = pairs
    <2>1. CASE Restored
      BY <1>3, <2>1, RestoredTyped
    <2>2. CASE UNCHANGED adaptation
      BY <1>3, <2>2 DEF AdaptationTypeOK, adaptation, ledger
    <2> QED
      BY <2>1, <2>2 DEF Review
  <1> QED
    BY <1>5, <1>6 DEF Review

\* A commit is followed by a review, a pair, or the next part.
LEMMA AfterCommitInforms ==
    ASSUME NEW table, NEW book, NEW k \in Client, k.pc = "commit",
           Stated(table, k.request), Known(table, k.on),
           k.request.kind # "open" => k.on.inv # 0,
           k.unit \in 0 .. CountUnit, k.request.kind # "advance" => k.unit = 0,
           NEW w, Known(table, w), w.inv # 0,
           \E s \in book : s.request = k.request /\ s.unit = k.unit /\ s.result = w,
           NEW captured \in BOOLEAN
    PROVE  Informed(table, book, AfterCommit(k, w, captured))
  <1> DEFINE review == [k EXCEPT !.pc = "review", !.committed = w]
             look == [k EXCEPT !.pc = "look", !.committed = w, !.pair = None]
  <1>1. w \in Workspace /\ w # None
    BY WorkspaceTyped DEF Known
  <1>2. /\ review \in Client /\ review.pc = "review" /\ review.request = k.request
        /\ review.unit = k.unit /\ review.on = k.on /\ review.committed = w
    BY <1>1 DEF Client
  <1>3. /\ look \in Client /\ look.pc = "look" /\ look.request = k.request
        /\ look.unit = k.unit /\ look.on = k.on /\ look.committed = w
    BY <1>1 DEF Client
  <1> HIDE DEF review, look
  <1>4. Committed(table, book, review) /\ Committed(table, book, look)
    BY <1>1, <1>2, <1>3 DEF Committed
  <1>5. Informed(table, book, review) /\ Informed(table, book, look)
    BY <1>2, <1>3, <1>4, CommittedInformed
  <1>6. Informed(table, book, Onward(k, w))
    BY OnwardInformed
  <1> QED
    BY <1>5, <1>6 DEF AfterCommit, review, look

LEMMA ReplayInforms ==
    ASSUME Inv, NEW c \in Clients, Replay(c)
    PROVE  \E new : Informed(investigations, receipts, new) /\ Become(c, new)
  <1> DEFINE k == clients[c]
             w == ResultOf(k.request, k.unit)
  <1>1. k.pc = "commit" /\ k.pc \notin Resting
    BY DEF Replay, At, Resting
  <1>2. k \in Client /\ Busy(investigations, receipts, k)
    BY <1>1, InFlight
  <1>3. PICK captured \in BOOLEAN : Become(c, AfterCommit(k, w, captured))
    BY DEF Replay
  <1>4. ReceiptsOf(k.request, k.unit) # {}
    BY DEF Replay
  <1>5. PICK s \in receipts : s.request = k.request /\ s.unit = k.unit /\ s.result = w
    BY <1>4, ResultFound
  <1>6. Known(investigations, w) /\ w.inv # 0
    BY <1>5, ReceiptKnown
  <1> HIDE DEF w
  <1>7. Informed(investigations, receipts, AfterCommit(k, w, captured))
    BY <1>1, <1>2, <1>5, <1>6, AfterCommitInforms DEF Busy
  <1> QED
    BY <1>3, <1>7

LEMMA FailInforms ==
    ASSUME Inv, NEW c \in Clients, Fail(c)
    PROVE  \E new : Informed(investigations, receipts, new) /\ Become(c, new)
  <1> DEFINE k == clients[c]
  <1>1. k.pc = "commit" /\ k.pc \notin Resting
    BY DEF Fail, At, Resting
  <1>2. Stated(investigations, k.request)
    BY <1>1, InFlight DEF Busy
  <1>3. Become(c, Ends(k, "refused")) \/ Become(c, Ends(k, "vetoed"))
    BY DEF Fail
  <1>4. "refused" \in Resting /\ "vetoed" \in Resting
    BY DEF Resting
  <1> QED
    BY <1>2, <1>3, <1>4, EndsInformed

LEMMA NoContractInforms ==
    ASSUME Inv, NEW c \in Clients, NoContract(c)
    PROVE  \E new : Informed(investigations, receipts, new) /\ Become(c, new)
  <1>1. clients[c].pc = "commit" /\ clients[c].pc \notin Resting
    BY DEF NoContract, At, Resting
  <1>2. Stated(investigations, clients[c].request)
    BY <1>1, InFlight DEF Busy
  <1>3. Become(c, Ends(clients[c], "refused")) /\ "refused" \in Resting
    BY DEF NoContract, Resting
  <1> QED
    BY <1>2, <1>3, EndsInformed

\* A request is sent on a workspace that was read.
LEMMA SendsInforms ==
    ASSUME Inv, NEW c \in Clients, NEW q, Stated(investigations, q), Sends(c, q)
    PROVE  \E new : Informed(investigations, receipts, new) /\ Become(c, new)
  <1> DEFINE new == [NoRequest EXCEPT !.pc = "begin", !.request = q, !.on = q.expect]
  <1>1. q \in Request /\ q.expect \in Workspace
    BY DEF Stated, Known
  <1>2. new = [pc |-> "begin", request |-> q, unit |-> 0, on |-> q.expect, action |-> None,
               pair |-> None, effective |-> 0, committed |-> None]
    <2> DEFINE first == [NoRequest EXCEPT !.pc = "begin", !.request = q]
    <2>1. first = [pc |-> "begin", request |-> q, unit |-> 0, on |-> None,
                   action |-> None, pair |-> None, effective |-> 0, committed |-> None]
      BY Fresh
    <2>2. new = [first EXCEPT !.on = q.expect]
      OBVIOUS
    <2> HIDE DEF first
    <2> QED
      BY <2>1, <2>2
  <1>3. Become(c, new)
    BY DEF Sends
  <1> HIDE DEF new
  <1>4. new \in Client
    BY <1>1, <1>2, ConstantsTyped DEF Client
  <1>5. /\ new.pc = "begin" /\ new.request = q /\ new.unit = 0 /\ new.on = q.expect
        /\ new.pair = None /\ new.committed = None
    BY <1>2
  <1>6. Busy(investigations, receipts, new)
    BY <1>5, ConstantsTyped DEF Busy, Stated
  <1> QED
    BY <1>3, <1>4, <1>5, <1>6 DEF Informed, Resting

LEMMA HeadKnown ==
    ASSUME Inv, published # <<>>
    PROVE  /\ Known(investigations, CaseHead)
           /\ Len(published) \in 1 .. Len(published) /\ CaseHead = published[Len(published)]
  <1>1. published \in Seq(Workspace) /\ Remembered
    BY DEF Inv, Store, StoreTyped
  <1>2. Len(published) \in 1 .. Len(published) /\ DOMAIN published = 1 .. Len(published)
    BY <1>1
  <1> QED
    BY <1>1, <1>2 DEF Remembered, CaseHead, Last

\* A workspace that is built now is one of the table.
LEMMA NowKnown ==
    ASSUME Inv, NEW stated \in Seq(Objectives), NEW v \in 0 .. Len(investigations),
           NEW asked \in Objectives
    PROVE  LET w == Built(investigations, stated, learned, v, asked)
           IN  /\ w \in Workspace /\ Known(investigations, w) /\ w.inv = v
               /\ v # 0 => w.length = Len(Log(v))
               /\ v = Latest => IsLatest(w)
  <1>1. /\ investigations \in Table /\ \A u \in DOMAIN investigations : Lawful(investigations[u])
        /\ authority \in Authorities /\ learned \in Nat
    BY DEF Inv, Store, StoreTyped, Histories, Table
  <1> QED
    BY <1>1, BuiltKnown DEF Log, IsLatest, Latest

LEMMA ReadingKnown ==
    ASSUME Inv, NEW w \in Readings
    PROVE  Known(investigations, w) /\ w \in Workspace
  <1>1. /\ intents \in Seq(Objectives) /\ published \in Seq(Workspace) /\ Remembered
        /\ investigations \in Table
    BY DEF Inv, Store, StoreTyped, Table
  <1>2. CASE w \in {published[n] : n \in {Len(published)} \ {0}}
    <2>1. Len(published) # 0 => Len(published) \in DOMAIN published
      BY <1>1
    <2> QED
      BY <1>1, <1>2, <2>1 DEF Remembered, Known
  <1>3. CASE \E v \in {Latest} \cup DOMAIN investigations, asked \in Objectives :
                w = Now(v, asked)
    <2>1. PICK v \in {Latest} \cup DOMAIN investigations, asked \in Objectives :
              w = Now(v, asked)
      BY <1>3
    <2>2. v \in 0 .. Len(investigations)
      BY <1>1, <2>1 DEF Latest, Table
    <2> QED
      BY <1>1, <2>1, <2>2, NowKnown DEF Now
  <1> QED
    BY <1>2, <1>3 DEF Readings

LEMMA SendInforms ==
    ASSUME Inv, NEW c \in Clients, Send(c)
    PROVE  \E new : Informed(investigations, receipts, new) /\ Become(c, new)
  <1>1. PICK kind \in Kinds, read \in Readings : \E what \in Whats(kind) :
           /\ kind = "open" \/ read.inv # 0
           /\ Sends(c, [kind |-> kind, expect |-> read, what |-> what])
    BY DEF Send
  <1>2. PICK what \in Whats(kind) :
           /\ kind = "open" \/ read.inv # 0
           /\ Sends(c, [kind |-> kind, expect |-> read, what |-> what])
    BY <1>1
  <1>3. kind \in AllKinds
    BY CrewAssumption
  <1>4. Known(investigations, read) /\ read \in Workspace
    BY ReadingKnown
  <1>5. /\ what \in Objectives \cup {"accepted", "current", None}
        /\ kind \in {"open", "objective"} => what \in Objectives
    BY <1>2, <1>3 DEF Whats, AllKinds
  <1> DEFINE q == [kind |-> kind, expect |-> read, what |-> what]
  <1>6. q \in Request /\ q.kind = kind /\ q.expect = read /\ q.what = what
    BY <1>3, <1>4, <1>5 DEF Request
  <1> HIDE DEF q
  <1>7. Stated(investigations, q)
    BY <1>2, <1>4, <1>5, <1>6 DEF Stated
  <1>8. Sends(c, q)
    BY <1>2 DEF q
  <1> QED
    BY <1>7, <1>8, SendsInforms

LEMMA RetryInforms ==
    ASSUME Inv, NEW c \in Clients, Retry(c)
    PROVE  \E new : Informed(investigations, receipts, new) /\ Become(c, new)
  <1>1. Stated(investigations, clients[c].request) /\ Sends(c, clients[c].request)
    BY InFlight DEF Retry, Informed
  <1> QED
    BY <1>1, SendsInforms

\* What is stored is as lawful as it was.
LEMMA LedgersStay ==
    ASSUME Inv, UNCHANGED history
    PROVE  /\ Histories' /\ Remembered' /\ Counted' /\ Chained' /\ (InOrder => Orderly)'
  <1>1. Histories /\ Remembered /\ Counted /\ Chained /\ (InOrder => Orderly)
    BY DEF Inv, Store
  <1>2. /\ investigations' = investigations /\ intents' = intents
        /\ published' = published /\ receipts' = receipts
    BY DEF history
  <1>3. Histories' /\ (InOrder => Orderly)'
    BY <1>1, <1>2 DEF Histories, InOrder, Orderly, HeadIsLatest, IsLatest, CaseHead, Latest,
                      Log, ObjectivesAgree
  <1>4. Remembered' /\ Counted' /\ Chained'
    BY <1>1, <1>2 DEF Remembered, Counted, ContinuesAreCounted, Chained
  <1> QED
    BY <1>3, <1>4

\* What the readers hold is known as long as the table and the cases stay.
LEMMA ReadersStay ==
    ASSUME Inv, readers' = readers, investigations' = investigations, published' = published
    PROVE  ReadersKnow'
  BY DEF Inv, ReadersKnow, ReaderKnows, IsLatest, Latest, Log

\* A step of one request, that stores nothing.
LEMMA ClientStep ==
    ASSUME Inv, NEW c \in Clients, NEW new, Informed(investigations, receipts, new),
           Become(c, new), UNCHANGED <<history, producers, readers>>,
           sends' \in Nat, events' \in Nat, AdaptationTypeOK(Workspace, Actions)', PairsFit'
    PROVE  Inv'
  <1>1. /\ Histories' /\ Remembered' /\ Counted' /\ Chained' /\ (InOrder => Orderly)'
    BY LedgersStay
  <1>2. /\ investigations' = investigations /\ intents' = intents
        /\ published' = published /\ receipts' = receipts
        /\ authority' = authority /\ learned' = learned /\ ledgerSound' = ledgerSound
    BY DEF history, producers
  <1>3. StoreTyped'
    BY <1>2 DEF Inv, Store, StoreTyped
  <1>4. Store'
    BY <1>1, <1>3 DEF Store
  <1>5. /\ DOMAIN clients = Clients /\ clients \in [Clients -> Client]
        /\ \A d \in Clients : Informed(investigations, receipts, clients[d])
    BY DEF Inv
  <1>6. clients' = [clients EXCEPT ![c] = new] /\ new \in Client
    BY DEF Become, Informed
  <1>7. DOMAIN clients' = Clients /\ clients' \in [Clients -> Client]
    BY <1>5, <1>6
  <1>8. \A d \in Clients : clients'[d] = IF d = c THEN new ELSE clients[d]
    BY <1>5, <1>6
  <1>9. \A d \in Clients : Informed(investigations, receipts, clients'[d])
    BY <1>5, <1>8
  <1>10. (\A d \in Clients : Informed(investigations, receipts, clients[d]))'
    BY <1>2, <1>9
  <1>11. ReadersKnow'
    BY <1>2, ReadersStay
  <1> QED
    BY <1>4, <1>7, <1>10, <1>11 DEF Inv

\* Every step of a request but its commit.
LEMMA HandlerKeepsInv ==
    ASSUME Inv, NEW c \in Clients, Mutation(c), ~Commit(c)
    PROVE  Inv'
  <1>1. /\ sends \in Nat /\ events \in Nat /\ AdaptationTypeOK(Workspace, Actions)
        /\ PairsFit
    BY DEF Inv, Store, StoreTyped
  <1>2. ASSUME UNCHANGED adaptation, UNCHANGED history
        PROVE  AdaptationTypeOK(Workspace, Actions)' /\ PairsFit'
    BY <1>1, <1>2 DEF AdaptationTypeOK, adaptation, ledger, PairsFit, history
  <1>3. ASSUME pairs' = pairs, UNCHANGED history PROVE PairsFit'
    BY <1>1, <1>3 DEF PairsFit, history
  <1>4. CASE Send(c)
    <2>1. /\ UNCHANGED <<history, producers, readers>> /\ UNCHANGED adaptation /\ UNCHANGED history
          /\ sends' \in Nat /\ events' \in Nat
      BY <1>1, <1>4 DEF Send, Sends
    <2> QED
      BY <1>2, <1>4, <2>1, SendInforms, ClientStep
  <1>5. CASE Retry(c)
    <2>1. /\ UNCHANGED <<history, producers, readers>> /\ UNCHANGED adaptation /\ UNCHANGED history
          /\ sends' \in Nat /\ events' \in Nat
      BY <1>1, <1>5 DEF Retry, Sends
    <2> QED
      BY <1>2, <1>5, <2>1, RetryInforms, ClientStep
  <1>6. CASE Begin(c)
    <2>1. /\ UNCHANGED <<history, producers, readers>> /\ UNCHANGED adaptation /\ UNCHANGED history
          /\ sends' \in Nat /\ events' \in Nat
      BY <1>1, <1>6 DEF Begin, bounds
    <2> QED
      BY <1>2, <1>6, <2>1, BeginInforms, ClientStep
  <1>7. CASE Step(c)
    <2>1. /\ UNCHANGED <<history, producers, readers>> /\ UNCHANGED adaptation /\ UNCHANGED history
          /\ sends' \in Nat /\ events' \in Nat
      BY <1>1, <1>7 DEF Step, bounds
    <2> QED
      BY <1>2, <1>7, <2>1, StepInforms, ClientStep
  <1>8. CASE Look(c)
    <2>1. /\ UNCHANGED <<history, producers, readers>> /\ UNCHANGED history
          /\ sends' \in Nat /\ events' \in Nat
      BY <1>1, <1>8 DEF Look, bounds
    <2> QED
      BY <1>3, <1>8, <2>1, LookInforms, ClientStep
  <1>9. CASE Freeze(c)
    <2>1. /\ UNCHANGED <<history, producers, readers>>
          /\ sends' \in Nat /\ events' \in Nat
      BY <1>1, <1>9 DEF Freeze, bounds
    <2> QED
      BY <1>9, <2>1, FreezeInforms, ClientStep
  <1>10. CASE Review(c)
    <2>1. /\ UNCHANGED <<history, producers, readers>> /\ UNCHANGED history
          /\ sends' \in Nat /\ events' \in Nat
      BY <1>1, <1>10 DEF Review, bounds
    <2> QED
      BY <1>3, <1>10, <2>1, ReviewInforms, ClientStep
  <1>11. CASE Replay(c)
    <2>1. /\ UNCHANGED <<history, producers, readers>> /\ UNCHANGED adaptation /\ UNCHANGED history
          /\ sends' \in Nat /\ events' \in Nat
      BY <1>1, <1>11 DEF Replay, bounds
    <2> QED
      BY <1>2, <1>11, <2>1, ReplayInforms, ClientStep
  <1>12. CASE NoContract(c)
    <2>1. /\ UNCHANGED <<history, producers, readers>> /\ UNCHANGED adaptation /\ UNCHANGED history
          /\ sends' \in Nat /\ events' \in Nat
      BY <1>1, <1>12 DEF NoContract, bounds
    <2> QED
      BY <1>2, <1>12, <2>1, NoContractInforms, ClientStep
  <1>13. CASE Fail(c)
    <2>1. /\ UNCHANGED <<history, producers, readers>> /\ UNCHANGED adaptation /\ UNCHANGED history
          /\ sends' \in Nat /\ events' \in Nat
      BY <1>1, <1>13 DEF Fail, bounds
    <2> QED
      BY <1>2, <1>13, <2>1, FailInforms, ClientStep
  <1> QED
    BY <1>4, <1>5, <1>6, <1>7, <1>8, <1>9, <1>10, <1>11, <1>12, <1>13 DEF Mutation

-----------------------------------------------------------------------------
(***************************************************************************)
(* The commit: the event is one that the events before it allow.           *)
(***************************************************************************)

Committing(k) ==
    /\ k \in Client /\ k.pc = "commit" /\ Busy(investigations, receipts, k)
    /\ published # <<>> /\ k.on = CaseHead
    /\ k.request.kind # "open" /\ Appends(k) => k.on.length = Len(Log(k.on.inv))

\* A commit that appends is decided on all that is stored of its investigation.
LEMMA DecidedOnAll ==
    ASSUME Inv, NEW k, Committing(k)
    PROVE  /\ Known(investigations, k.on) /\ k.on \in Workspace
           /\ Stated(investigations, k.request) /\ k.request.kind \in AllKinds
           /\ k.request.kind # "open" =>
                 k.on.inv # 0 /\ k.on.inv \in 1 .. Latest /\ k.on.inv \in DOMAIN investigations
           /\ k.request.kind # "open" /\ Appends(k) =>
                 Heard(investigations, k.on) = Log(k.on.inv)
           /\ k.unit \in 0 .. CountUnit
           /\ k.request.kind # "advance" => k.unit = 0
           /\ Prepared(investigations, receipts, k)
  <1>1. Known(investigations, k.on)
    BY HeadKnown DEF Committing
  <1>2. investigations \in Table
    BY DEF Inv, Store, StoreTyped, Table
  <1>3. Busy(investigations, receipts, k) /\ k.pc = "commit"
    BY DEF Committing
  <1>4. /\ Stated(investigations, k.request) /\ k.request.kind \in AllKinds
        /\ k.unit \in 0 .. CountUnit
        /\ k.request.kind # "advance" => k.unit = 0
        /\ k.request.kind # "open" => k.on.inv # 0
        /\ Prepared(investigations, receipts, k)
    BY <1>3, ConstantsTyped DEF Busy, Stated
  <1>5. k.request.kind # "open" => k.on.inv \in 1 .. Latest /\ k.on.inv \in DOMAIN investigations
    BY <1>1, <1>2, <1>4 DEF Known, Latest, Table
  <1>6. ASSUME k.request.kind # "open", Appends(k)
        PROVE  Heard(investigations, k.on) = Log(k.on.inv)
    <2>1. k.on.inv \in 1 .. Len(investigations) /\ k.on.inv # 0
      BY <1>4, <1>5, <1>6 DEF Latest
    <2>2. Log(k.on.inv) \in Seq(Event)
      BY <1>2, <2>1, TableTyped, LogTyped DEF Log
    <2>3. SubSeq(Log(k.on.inv), 1, Len(Log(k.on.inv))) = Log(k.on.inv)
      BY <2>2, SubSeqFull
    <2>4. k.on.length = Len(Log(k.on.inv))
      BY <1>6 DEF Committing
    <2> QED
      BY <2>1, <2>3, <2>4 DEF Heard, Log
  <1> QED
    BY <1>1, <1>4, <1>5, <1>6 DEF Known

LEMMA ActionAllowed ==
    ASSUME NEW table, NEW k, Chosen(table, k), IsContinuation(k)
    PROVE  Action(k) \in Options(k.on.authority, Heard(table, k.on))
  BY DEF Chosen, Action

\* Which event each request is.
LEMMA EventKinds ==
    ASSUME NEW k, k.request.kind \in AllKinds, k.request.kind # "advance" => k.unit = 0
    PROVE  /\ k.request.kind = "open" => EventKind(k) = "opened"
           /\ k.request.kind = "answer" => EventKind(k) = "answered"
           /\ k.request.kind = "objective" => EventKind(k) = "objective"
           /\ k.request.kind = "abandon" => EventKind(k) = "abandoned"
           /\ k.request.kind = "rebase" => EventKind(k) = "rebased"
           /\ IsContinuation(k) =>
                 /\ k.request.kind \in {"continue", "advance"}
                 /\ EventKind(k) = CASE Action(k) = "ask" -> "asked"
                                     [] Action(k) = "decide" -> "decided"
                                     [] OTHER -> "inspected"
           /\ Appends(k) =>
                 IsContinuation(k)
                     \/ k.request.kind \in {"open", "answer", "objective", "abandon", "rebase"}
  <1>1. IsContinuation(k) => k.request.kind \in {"continue", "advance"}
    BY ConstantsTyped DEF IsContinuation
  <1>2. k.request.kind = "continue" => IsContinuation(k)
    BY DEF IsContinuation
  <1> QED
    BY <1>1, <1>2 DEF EventKind, Appends, AllKinds

LEMMA EventTyped ==
    ASSUME Inv, NEW k, Committing(k), Appends(k)
    PROVE  /\ EventIn(k) \in Event /\ EventIn(k).kind = EventKind(k)
           /\ EventKind(k) = "objective" => EventIn(k).what \in Objectives
           /\ EventKind(k) = "inspected" => EventIn(k).what = Action(k)
           /\ k.request.kind # "open" => EventIn(k).authority = k.on.authority
  <1>1. /\ k.on \in Workspace /\ Stated(investigations, k.request)
        /\ k.request.kind \in AllKinds
        /\ k.request.kind # "advance" => k.unit = 0
        /\ Prepared(investigations, receipts, k)
    BY DecidedOnAll
  <1>2. authority \in Authorities /\ k.on.authority \in Authorities
    BY <1>1, WorkspaceTyped DEF Inv, Store, StoreTyped
  <1>3. /\ EventKind(k) \in {"opened", "inspected", "asked", "answered", "objective",
                             "rebased", "decided", "abandoned"}
        /\ EventKind(k) = "objective" => k.request.kind = "objective"
        /\ EventKind(k) = "inspected" =>
              IsContinuation(k) /\ Action(k) \notin {"ask", "decide"}
    <2>1. CASE IsContinuation(k)
      BY <1>1, <2>1, EventKinds
    <2>2. CASE k.request.kind \in {"open", "answer", "objective", "abandon", "rebase"}
      BY <1>1, <2>2, EventKinds
    <2> QED
      BY <1>1, <2>1, <2>2, EventKinds
  <1>4. EventKind(k) = "objective" => k.request.what \in Objectives
    BY <1>1, <1>3 DEF Stated
  <1>5. EventKind(k) = "inspected" => Action(k) \in ToolNames
    BY <1>1, <1>2, <1>3, ActionAllowed, OptionsAllowed DEF Prepared
  <1> DEFINE said == CASE EventKind(k) = "inspected" -> Action(k)
                       [] EventKind(k) = "objective" -> k.request.what
                       [] OTHER -> None
             now == IF k.request.kind = "open" THEN authority ELSE k.on.authority
             framed == k.pair # None
  <1>6. /\ said \in ToolNames \cup Objectives \cup {None}
        /\ EventKind(k) = "inspected" => said = Action(k)
        /\ EventKind(k) = "objective" => said = k.request.what
    BY <1>4, <1>5
  <1>7. now \in Authorities /\ framed \in BOOLEAN
    BY <1>2
  <1>8. EventIn(k) = [kind |-> EventKind(k), authority |-> now, what |-> said, pair |-> framed]
    BY DEF EventIn
  <1>9. k.request.kind # "open" => now = k.on.authority
    OBVIOUS
  <1> HIDE DEF said, now, framed
  <1>10. EventIn(k) \in Event
    BY <1>3, <1>6, <1>7, <1>8 DEF Event, Endings
  <1> QED
    BY <1>4, <1>6, <1>8, <1>9, <1>10

\* The event is legal after the events it was decided on.
LEMMA EventLegal ==
    ASSUME Inv, NEW k, Committing(k), Appends(k), k.request.kind # "open"
    PROVE  LegalEvent(investigations[k.on.inv], Log(k.on.inv), EventIn(k))
  <1> DEFINE inv == investigations[k.on.inv]
             log == Log(k.on.inv)
             e == EventIn(k)
  <1>1. /\ k.on.inv # 0 /\ Heard(investigations, k.on) = log
        /\ k.request.kind \in AllKinds
        /\ k.request.kind # "advance" => k.unit = 0
        /\ Prepared(investigations, receipts, k)
        /\ k.on.authority \in Authorities
    BY DecidedOnAll, WorkspaceTyped
  <1>2. /\ e.kind = EventKind(k) /\ e.authority = k.on.authority
        /\ EventKind(k) = "inspected" => e.what = Action(k)
    BY EventTyped
  <1>3. StatusOf(k.on) = Status(inv, log, k.on.authority)
    BY <1>1, HeardNow DEF Standing
  <1>4. Standing(investigations, k.on) = Status(inv, log, k.on.authority)
    BY <1>1 DEF Standing
  <1>5. Entitled(investigations, k) /\ Chosen(investigations, k)
    BY <1>1 DEF Prepared
  <1> HIDE DEF inv, log, e
  <1>6. Status(inv, log, k.on.authority) = "open" =>
            k.on.authority = Accepted(inv, log) /\ KindsIn(log) \cap Endings = {}
    BY DEF Status
  <1>7. Status(inv, log, k.on.authority) = "stale" => k.on.authority # Accepted(inv, log)
    BY DEF Status
  <1>8. CASE IsContinuation(k)
    <2>1. k.request.kind = "continue" \/ (k.request.kind = "advance" /\ k.unit # 0)
      BY <1>8, ConstantsTyped, <1>1, EventKinds DEF IsContinuation
    <2>2. Going(investigations, k.on)
      BY <1>5, <2>1 DEF Entitled
    <2>3. Status(inv, log, k.on.authority) = "open" /\ ~Pending(log)
      BY <1>1, <1>4, <2>2 DEF Going
    <2>4. /\ e.kind \in {"asked", "decided", "inspected"}
          /\ e.kind = "asked" => Action(k) = "ask"
          /\ e.kind = "inspected" => Action(k) \notin {"ask", "decide"}
      BY <1>1, <1>2, <1>8, EventKinds
    <2>5. Action(k) \in Options(k.on.authority, log)
      BY <1>1, <1>5, <1>8, ActionAllowed
    <2>6. /\ e.kind = "asked" => "answered" \notin KindsIn(log)
          /\ e.kind = "inspected" => e.what \notin InspectedIn(log)
      BY <1>1, <1>2, <2>4, <2>5, OptionsAllowed
    <2>7. LegalEvent(inv, log, e)
      BY <1>2, <1>6, <2>3, <2>4, <2>6 DEF LegalEvent
    <2> QED
      BY <2>7 DEF inv, log, e
  <1>9. CASE k.request.kind = "answer"
    <2>1. e.kind = "answered"
      BY <1>1, <1>2, <1>9, EventKinds
    <2>2. Status(inv, log, k.on.authority) = "open" /\ Pending(log)
      BY <1>1, <1>4, <1>5, <1>9 DEF Entitled
    <2>3. LegalEvent(inv, log, e)
      BY <1>2, <1>6, <2>1, <2>2 DEF LegalEvent
    <2> QED
      BY <2>3 DEF inv, log, e
  <1>10. CASE k.request.kind \in {"objective", "abandon"}
    <2>1. e.kind \in {"objective", "abandoned"}
      BY <1>1, <1>2, <1>10, EventKinds
    <2>2. Status(inv, log, k.on.authority) = "open"
      BY <1>1, <1>4, <1>5, <1>10 DEF Entitled
    <2>3. LegalEvent(inv, log, e)
      BY <1>2, <1>6, <2>1, <2>2 DEF LegalEvent
    <2> QED
      BY <2>3 DEF inv, log, e
  <1>11. CASE k.request.kind = "rebase"
    <2>1. e.kind = "rebased"
      BY <1>1, <1>2, <1>11, EventKinds
    <2>2. Status(inv, log, k.on.authority) = "stale"
      BY <1>3, <1>11 DEF Appends
    <2>3. LegalEvent(inv, log, e)
      BY <1>2, <1>7, <2>1, <2>2 DEF LegalEvent
    <2> QED
      BY <2>3 DEF inv, log, e
  <1> QED
    BY <1>1, <1>8, <1>9, <1>10, <1>11, EventKinds

-----------------------------------------------------------------------------
(***************************************************************************)
(* The commit: the table it leaves.                                        *)
(***************************************************************************)

\* One more legal event leaves a lawful history, that ends if it did before.
LEMMA LawfulAppend ==
    ASSUME NEW inv \in Investigation, Lawful(inv), NEW e \in Event,
           LegalEvent(inv, inv.events, e), e.kind = "objective" => e.what \in Objectives,
           NEW new \in Investigation, new.opened = inv.opened,
           new.events = Append(inv.events, e)
    PROVE  Lawful(new)
  <1> DEFINE log == inv.events
             more == new.events
             m == Len(log)
  <1>1. log \in Seq(Event) /\ m \in Nat /\ DOMAIN log = 1 .. m
    BY LogTyped
  <1>2. /\ Len(more) = m + 1 /\ DOMAIN more = 1 .. m + 1 /\ more[m + 1] = e
        /\ \A n \in 1 .. m : more[n] = log[n]
    BY <1>1, AppendShape
  <1>3. \A old : LegalEvent(inv, old, e) => LegalEvent(new, old, e)
    BY DEF LegalEvent, Accepted
  <1>4. \A old, x : LegalEvent(inv, old, x) => LegalEvent(new, old, x)
    BY DEF LegalEvent, Accepted
  <1>5. LegalEvents(inv) /\ \A n \in 1 .. m : log[n].kind = "objective" => log[n].what \in Objectives
    BY <1>1 DEF Lawful
  <1>6. LegalEvent(inv, log, e)
    OBVIOUS
  <1>7. \A n \in 2 .. m : LegalEvent(inv, SubSeq(log, 1, n - 1), log[n])
    BY <1>5 DEF LegalEvents
  <1> HIDE DEF log, more, m
  <1>8. \A n \in 0 .. m : SubSeq(more, 1, n) = SubSeq(log, 1, n)
    <2> TAKE n \in 0 .. m
    <2>1. n \in Nat /\ n <= m /\ n <= m + 1 /\ m + 1 \in Nat
      BY <1>1
    <2>2. SubSeq(more, 1, n) = [i \in 1 .. n |-> more[i]]
      BY <1>2, <2>1, HeadShape
    <2>3. SubSeq(log, 1, n) = [i \in 1 .. n |-> log[i]]
      BY <2>1, <1>1, HeadShape DEF m
    <2>4. \A i \in 1 .. n : i \in 1 .. m
      BY <1>1
    <2> QED
      BY <1>2, <2>2, <2>3, <2>4
  <1>9. SubSeq(more, 1, m) = log
    <2>1. SubSeq(log, 1, m) = log
      BY <1>1, SubSeqFull DEF m
    <2>2. m \in 0 .. m
      BY <1>1
    <2> QED
      BY <1>8, <2>1, <2>2
  <1>10. \A n \in 2 .. m + 1 : LegalEvent(new, SubSeq(more, 1, n - 1), more[n])
    <2> TAKE n \in 2 .. m + 1
    <2>1. CASE n = m + 1
      <3>1. n - 1 = m
        BY <1>1, <2>1
      <3> QED
        BY <1>2, <1>3, <1>6, <1>9, <2>1, <3>1
    <2>2. CASE n # m + 1
      <3>1. n \in 2 .. m /\ n \in 1 .. m /\ n - 1 \in 0 .. m
        BY <1>1, <2>2
      <3> QED
        BY <1>2, <1>4, <1>7, <1>8, <3>1
    <2> QED
      BY <2>1, <2>2
  <1>11. \A n \in 1 .. m + 1 : more[n].kind = "objective" => more[n].what \in Objectives
    <2>1. \A n \in 1 .. m + 1 : n \in 1 .. m \/ n = m + 1
      BY <1>1
    <2> QED
      BY <1>2, <1>5, <2>1
  <1> QED
    BY <1>2, <1>10, <1>11 DEF Lawful, LegalEvents, more

\* A row that has changed is as lawful and has heard what it had.
LEMMA RowChanged ==
    ASSUME Inv, NEW k, Committing(k), k.request.kind # "open"
    PROVE  LET row == investigations[k.on.inv]
               new == Applied(k)[k.on.inv]
           IN  /\ Applied(k) = [investigations EXCEPT ![k.on.inv] = new]
               /\ new \in Investigation /\ Lawful(new)
               /\ new.objective = row.objective /\ new.opened = row.opened
               /\ Len(row.events) <= Len(new.events)
               /\ \A n \in DOMAIN row.events : new.events[n] = row.events[n]
               /\ new.continues = IF Counts(k) THEN row.continues + 1 ELSE row.continues
  <1> DEFINE row == investigations[k.on.inv]
             events_ == IF Appends(k) THEN Append(row.events, EventIn(k)) ELSE row.events
             count == IF Counts(k) THEN row.continues + 1 ELSE row.continues
             new == [row EXCEPT !.events = events_, !.continues = count]
  <1>1. k.on.inv # 0 /\ k.on.inv \in 1 .. Latest
    BY DecidedOnAll
  <1>2. investigations \in Table /\ \A v \in DOMAIN investigations : Lawful(investigations[v])
    BY DEF Inv, Store, StoreTyped, Histories, Table
  <1>3. /\ k.on.inv \in 1 .. Len(investigations)
        /\ DOMAIN investigations = 1 .. Len(investigations)
    BY <1>1, <1>2 DEF Latest, Table
  <1>4. row \in Investigation /\ Lawful(row)
    BY <1>2, <1>3, TableTyped
  <1>5. /\ row.events \in Seq(Event) /\ Len(row.events) \in Nat
        /\ DOMAIN row.events = 1 .. Len(row.events) /\ row.continues \in Nat
    BY <1>4, LogTyped
  <1>6. Applied(k) = [investigations EXCEPT ![k.on.inv] = new]
    BY <1>1, <1>3 DEF Applied, Row
  <1>7. Applied(k)[k.on.inv] = new
    BY <1>3, <1>6
  <1>8. Appends(k) => /\ EventIn(k) \in Event
                      /\ EventIn(k).kind = "objective" => EventIn(k).what \in Objectives
                      /\ LegalEvent(row, row.events, EventIn(k))
    BY EventTyped, EventLegal DEF Log
  <1>9. events_ \in Seq(Event) /\ count \in Nat
    BY <1>5, <1>8
  <1> HIDE DEF row, count
  <1>10. /\ Len(row.events) <= Len(events_)
         /\ \A n \in DOMAIN row.events : events_[n] = row.events[n]
    <2>1. CASE Appends(k)
      <3>1. events_ = Append(row.events, EventIn(k))
        BY <2>1
      <3>2. /\ Len(events_) = Len(row.events) + 1
            /\ \A n \in 1 .. Len(row.events) : events_[n] = row.events[n]
        BY <1>5, <3>1, AppendShape
      <3> QED
        BY <1>5, <3>2
    <2>2. CASE ~Appends(k)
      BY <1>5, <2>2
    <2> QED
      BY <2>1, <2>2
  <1> HIDE DEF events_
  <1>11. /\ new \in Investigation /\ new.events = events_ /\ new.continues = count
         /\ new.objective = row.objective /\ new.opened = row.opened
    BY <1>4, <1>9 DEF Investigation
  <1> HIDE DEF new
  <1>12. Lawful(new)
    <2>1. CASE Appends(k)
      BY <1>4, <1>8, <1>11, <2>1, LawfulAppend DEF events_
    <2>2. CASE ~Appends(k)
      <3>1. new.events = row.events
        BY <1>11, <2>2 DEF events_
      <3> QED
        BY <1>4, <1>11, <3>1 DEF Lawful, LegalEvents, LegalEvent, Accepted
    <2> QED
      BY <2>1, <2>2
  <1> QED
    BY <1>6, <1>7, <1>10, <1>11, <1>12 DEF row, count

\* A new row has its first event and nothing counted.
LEMMA RowOpened ==
    ASSUME Inv, NEW k, Committing(k), k.request.kind = "open"
    PROVE  LET new == Applied(k)[Latest + 1]
           IN  /\ Applied(k) = Append(investigations, new)
               /\ new \in Investigation /\ Lawful(new) /\ new.continues = 0
  <1> DEFINE new == [objective |-> k.request.what, opened |-> k.on.authority,
                     events |-> <<EventIn(k)>>, continues |-> 0]
  <1>1. /\ k.on \in Workspace /\ Stated(investigations, k.request)
        /\ k.request.kind \in AllKinds
        /\ k.request.kind # "advance" => k.unit = 0
    BY DecidedOnAll
  <1>2. Appends(k)
    BY DEF Appends
  <1>3. EventIn(k) \in Event /\ EventIn(k).kind = "opened"
    BY <1>1, <1>2, EventTyped, EventKinds
  <1>4. k.request.what \in Objectives /\ k.on.authority \in Authorities
    BY <1>1, WorkspaceTyped DEF Stated
  <1> DEFINE e == EventIn(k)
  <1> HIDE DEF e
  <1>5. /\ <<e>> \in Seq(Event) /\ Len(<<e>>) = 1 /\ DOMAIN <<e>> = {1} /\ <<e>>[1] = e
    BY <1>3 DEF e
  <1>6. new \in Investigation /\ new.events = <<e>> /\ new.continues = 0
    BY <1>4, <1>5 DEF Investigation, e
  <1>7. Applied(k) = Append(investigations, new)
    BY DEF Applied
  <1> HIDE DEF new
  <1>8. Lawful(new)
    BY <1>3, <1>5, <1>6 DEF Lawful, LegalEvents, e
  <1>9. Applied(k)[Latest + 1] = new
    BY <1>7, AppendShape DEF Latest, Inv, Store, StoreTyped
  <1> QED
    BY <1>6, <1>7, <1>8, <1>9

\* The table after a commit: of its shape, grown, lawful.
LEMMA TableAfter ==
    ASSUME Inv, NEW k, Committing(k)
    PROVE  LET table == Applied(k)
               v == IF k.request.kind = "open" THEN Latest + 1 ELSE k.on.inv
           IN  /\ table \in Table /\ Grown(investigations, table)
               /\ \A u \in DOMAIN table : Lawful(table[u])
               /\ v \in 1 .. Len(table) /\ DOMAIN table = 1 .. Len(table)
               /\ Len(table) = IF k.request.kind = "open" THEN Latest + 1 ELSE Latest
               /\ \A u \in 1 .. Latest : u # v => table[u] = investigations[u]
  <1> DEFINE table == Applied(k)
             i == k.on.inv
             row == investigations[i]
  <1>1. /\ investigations \in Table
        /\ \A u \in DOMAIN investigations : Lawful(investigations[u])
    BY DEF Inv, Store, StoreTyped, Histories, Table
  <1>2. Latest \in Nat /\ DOMAIN investigations = 1 .. Latest /\ Latest = Len(investigations)
    BY <1>1 DEF Latest, Table
  <1>3. Grown(investigations, investigations)
    BY <1>1, GrownIsReflexive
  <1>4. CASE k.request.kind = "open"
    <2> DEFINE new == table[Latest + 1]
    <2>1. table = Append(investigations, new) /\ new \in Investigation /\ Lawful(new)
      BY <1>4, RowOpened
    <2> HIDE DEF table, new
    <2>2. /\ table \in Table /\ Len(table) = Latest + 1 /\ DOMAIN table = 1 .. Latest + 1
          /\ table[Latest + 1] = new /\ \A u \in 1 .. Latest : table[u] = investigations[u]
      BY <1>1, <1>2, <2>1, AppendShape DEF Table
    <2>3. Grown(investigations, table)
      BY <1>2, <1>3, <2>2 DEF Grown
    <2>4. \A u \in 1 .. Latest + 1 : u \in 1 .. Latest \/ u = Latest + 1
      BY <1>2
    <2>5. \A u \in DOMAIN table : Lawful(table[u])
      BY <1>1, <1>2, <2>1, <2>2, <2>4
    <2>6. Latest + 1 \in 1 .. Latest + 1
      BY <1>2
    <2> QED
      BY <1>4, <2>2, <2>3, <2>5, <2>6 DEF table
  <1>5. CASE k.request.kind # "open"
    <2> DEFINE new == table[i]
    <2>1. i # 0 /\ i \in 1 .. Latest
      BY <1>2, <1>5, DecidedOnAll
    <2>2. /\ table = [investigations EXCEPT ![i] = new]
          /\ new \in Investigation /\ Lawful(new)
          /\ new.objective = row.objective /\ new.opened = row.opened
          /\ Len(row.events) <= Len(new.events)
          /\ \A n \in DOMAIN row.events : new.events[n] = row.events[n]
      BY <1>5, RowChanged
    <2> HIDE DEF table, new, i
    <2>3. /\ table \in Table /\ Len(table) = Latest /\ DOMAIN table = 1 .. Latest
          /\ table[i] = new
          /\ \A u \in 1 .. Latest : u # i => table[u] = investigations[u]
      <3>1. investigations \in [1 .. Latest -> Investigation]
        BY <1>1, <1>2 DEF Table
      <3>2. /\ table \in [1 .. Latest -> Investigation] /\ table[i] = new
            /\ \A u \in 1 .. Latest : u # i => table[u] = investigations[u]
        BY <2>1, <2>2, <3>1
      <3>3. Latest \in Nat
        BY <1>2
      <3>4. table \in Seq(Investigation) /\ Len(table) = Latest /\ DOMAIN table = 1 .. Latest
        BY <3>2, <3>3
      <3> QED
        BY <3>2, <3>4 DEF Table
    <2>4. Grown(investigations, table)
      <3>1. \A u \in 1 .. Latest : u # i =>
               /\ table[u].objective = investigations[u].objective
               /\ table[u].opened = investigations[u].opened
               /\ Len(investigations[u].events) <= Len(table[u].events)
               /\ \A n \in DOMAIN investigations[u].events :
                     table[u].events[n] = investigations[u].events[n]
        BY <1>2, <1>3, <2>3 DEF Grown
      <3>2. /\ table[i].objective = row.objective /\ table[i].opened = row.opened
            /\ Len(row.events) <= Len(table[i].events)
            /\ \A n \in DOMAIN row.events : table[i].events[n] = row.events[n]
        BY <2>2, <2>3
      <3>3. Len(investigations) <= Len(table)
        BY <1>2, <2>3
      <3> QED
        BY <1>2, <3>1, <3>2, <3>3 DEF Grown
    <2>5. \A u \in DOMAIN table : Lawful(table[u])
      BY <1>1, <1>2, <2>2, <2>3
    <2> QED
      BY <1>5, <2>1, <2>3, <2>4, <2>5 DEF table, i
  <1> QED
    BY <1>4, <1>5

\* A commit on the latest investigation leaves one open end at most: it opens one
\* only when that has its ending.
LEMMA OneEndAfter ==
    ASSUME Inv, NEW k, Committing(k), Finished(investigations), IsLatest(k.on)
    PROVE  LET v == IF k.request.kind = "open" THEN Latest + 1 ELSE k.on.inv
           IN  Finished(Applied(k)) /\ v = Len(Applied(k))
  <1> DEFINE table == Applied(k)
             v == IF k.request.kind = "open" THEN Latest + 1 ELSE k.on.inv
             row == investigations[Latest]
  <1>1. /\ investigations \in Table /\ Latest \in Nat /\ DOMAIN investigations = 1 .. Latest
        /\ Latest = Len(investigations)
    BY DEF Inv, Store, StoreTyped, Latest, Table
  <1>2. k.on.inv = Latest
    BY DEF IsLatest
  <1>3. /\ DOMAIN table = 1 .. Len(table)
        /\ Len(table) = IF k.request.kind = "open" THEN Latest + 1 ELSE Latest
        /\ \A u \in 1 .. Latest : u # v => table[u] = investigations[u]
    BY TableAfter
  <1>4. v = Len(table)
    BY <1>2, <1>3
  <1>5. ASSUME k.request.kind = "open", Latest # 0
        PROVE  KindsIn(row.events) \cap Endings # {}
    <2>1. Latest \in 1 .. Len(investigations)
      BY <1>1, <1>5
    <2>2. Log(Latest) \in Seq(Event)
      BY <1>1, <2>1, TableTyped, LogTyped DEF Log
    <2>3. SubSeq(Log(Latest), 1, Len(Log(Latest))) = Log(Latest)
      BY <2>2, SubSeqFull
    <2>4. Heard(investigations, k.on) = Log(Latest)
      BY <1>2, <1>5, <2>3 DEF IsLatest, Heard, Log
    <2>5. Standing(investigations, k.on) \in {"none", "closed"}
      BY <1>5, DecidedOnAll DEF Prepared, Entitled
    <2>6. Status(row, Log(Latest), k.on.authority) \in {"none", "closed"}
      BY <1>2, <1>5, <2>4, <2>5 DEF Standing
    <2> QED
      BY <2>6 DEF Status, Log
  <1> HIDE DEF table, v
  <1>6. ASSUME NEW u \in DOMAIN table, u # Len(table)
        PROVE  KindsIn(table[u].events) \cap Endings # {}
    <2>1. u \in 1 .. Latest /\ u # v /\ (k.request.kind # "open" => u # Latest)
      <3>1. u \in 1 .. Len(table) /\ u # v
        BY <1>3, <1>4, <1>6
      <3>2. CASE k.request.kind = "open"
        BY <1>1, <1>3, <1>6, <3>1, <3>2
      <3>3. CASE k.request.kind # "open"
        BY <1>1, <1>3, <1>6, <3>1, <3>3
      <3> QED
        BY <3>2, <3>3
    <2>2. table[u] = investigations[u]
      BY <1>3, <2>1
    <2>3. CASE u = Latest
      BY <1>1, <1>5, <2>1, <2>2, <2>3
    <2>4. CASE u # Latest
      BY <1>1, <2>1, <2>2, <2>4 DEF Finished
    <2> QED
      BY <2>3, <2>4
  <1> QED
    BY <1>4, <1>6 DEF Finished, table, v

\* The count of each investigation goes up with the receipt of a continuation.
LEMMA CountsAfter ==
    ASSUME Inv, NEW k, Committing(k), ReceiptsOf(k.request, k.unit) = {},
           NEW w, NEW r,
           r = [request |-> k.request, unit |-> k.unit, expect |-> k.on, result |-> w],
           investigations' = Applied(k), receipts' = receipts \cup {r}
    PROVE  Counted'
  <1> DEFINE Of(v, book) == {s \in book : /\ s.expect.inv = v
                                          /\ s.request.kind = "continue" \/ s.unit = CountUnit}
  <1>1. /\ IsFiniteSet(receipts)
        /\ \A v \in DOMAIN investigations :
              investigations[v].continues = Cardinality(Of(v, receipts))
    BY DEF Inv, Store, Counted, ContinuesAreCounted
  <1>2. r \notin receipts
    BY DEF ReceiptsOf
  <1> DEFINE i == k.on.inv
  <1>3. r.expect.inv = i /\ r.request = k.request /\ r.unit = k.unit
    OBVIOUS
  <1>4. IsFiniteSet(receipts')
    BY <1>1, FS_AddElement
  <1>5. \A v : IsFiniteSet(Of(v, receipts)) /\ r \notin Of(v, receipts)
    BY <1>1, <1>2, FS_Subset
  <1>6. Latest \in Nat /\ DOMAIN investigations = 1 .. Latest
    BY DEF Inv, Store, StoreTyped, Latest
  <1>7. ASSUME NEW v, v # i \/ ~Counts(k)
        PROVE  Of(v, receipts') = Of(v, receipts)
    BY <1>3, <1>7 DEF Counts
  <1>8. Counts(k) => Of(i, receipts') = Of(i, receipts) \cup {r}
    BY <1>3 DEF Counts
  <1>9. \A v \in DOMAIN Applied(k) : Applied(k)[v].continues = Cardinality(Of(v, receipts'))
    <2>1. CASE k.request.kind = "open"
      <3> DEFINE new == Applied(k)[Latest + 1]
      <3>1. Applied(k) = Append(investigations, new) /\ new.continues = 0
        BY <2>1, RowOpened
      <3>2. /\ DOMAIN Applied(k) = 1 .. Latest + 1
            /\ \A v \in 1 .. Latest : Applied(k)[v] = investigations[v]
        <4>1. investigations \in Seq(Investigation) /\ Latest = Len(investigations)
          BY DEF Inv, Store, StoreTyped, Latest
        <4> HIDE DEF new
        <4> QED
          BY <3>1, <4>1, AppendShape
      <3>3. ~Counts(k)
        BY <2>1, DecidedOnAll, ConstantsTyped DEF Counts
      <3>4. Of(Latest + 1, receipts) = {}
        <4>1. \A s \in receipts : s.expect.inv \in 0 .. Latest
          BY ReceiptKnown DEF Known, Latest
        <4>2. \A s \in receipts : s.expect.inv # Latest + 1
          BY <1>6, <4>1
        <4> QED
          BY <4>2
      <3>5. \A v \in 1 .. Latest + 1 : v \in 1 .. Latest \/ v = Latest + 1
        BY <1>6
      <3>6. Cardinality(Of(Latest + 1, receipts)) = 0
        BY <3>4, FS_EmptySet
      <3> HIDE DEF Of, new
      <3>7. \A v \in 1 .. Latest : Applied(k)[v].continues = Cardinality(Of(v, receipts'))
        BY <1>1, <1>6, <1>7, <3>2, <3>3
      <3>8. Applied(k)[Latest + 1].continues = Cardinality(Of(Latest + 1, receipts'))
        BY <1>7, <3>1, <3>3, <3>6 DEF new
      <3> QED
        BY <3>2, <3>5, <3>7, <3>8
    <2>2. CASE k.request.kind # "open"
      <3> DEFINE new == Applied(k)[i]
                 row == investigations[i]
      <3>1. /\ Applied(k) = [investigations EXCEPT ![i] = new]
            /\ new.continues = IF Counts(k) THEN row.continues + 1 ELSE row.continues
        BY <2>2, RowChanged
      <3>2. i \in 1 .. Latest
        BY <1>6, <2>2, DecidedOnAll
      <3>3. row.continues = Cardinality(Of(i, receipts))
        BY <1>1, <1>6, <3>2
      <3> HIDE DEF Of, new, row
      <3>4. Cardinality(Of(i, receipts) \cup {r}) = Cardinality(Of(i, receipts)) + 1
        BY <1>5, FS_AddElement
      <3>5. new.continues = Cardinality(Of(i, receipts'))
        BY <1>7, <1>8, <3>1, <3>3, <3>4
      <3>6. DOMAIN Applied(k) = 1 .. Latest /\ \A v \in 1 .. Latest :
               v # i => Applied(k)[v] = investigations[v]
        BY <1>6, <3>1
      <3>7. \A v \in 1 .. Latest : v # i =>
               Applied(k)[v].continues = Cardinality(Of(v, receipts'))
        BY <1>1, <1>6, <1>7, <3>6
      <3> QED
        BY <3>5, <3>6, <3>7 DEF new
    <2> QED
      BY <2>1, <2>2
  <1> QED
    BY <1>4, <1>9 DEF Counted, ContinuesAreCounted

LEMMA RefinedTyped ==
    ASSUME Inv, NEW k, Committing(k), NEW stated \in Refined(k)
    PROVE  stated \in Seq(Objectives)
  <1>1. intents \in Seq(Objectives)
    BY DEF Inv, Store, StoreTyped
  <1>2. k.on.objective \in Objectives /\ Stated(investigations, k.request)
    BY DecidedOnAll, WorkspaceTyped
  <1>3. k.request.kind \in {"open", "objective"} => k.request.what \in Objectives
    BY <1>2 DEF Stated
  <1>4. \A o \in Objectives : Append(intents, o) \in Seq(Objectives)
    BY <1>1
  <1> QED
    BY <1>1, <1>2, <1>3, <1>4 DEF Refined

NotBefore(w, x) == w.inv < x.inv \/ (w.inv = x.inv /\ w.length <= x.length)

\* What was published stays known; the cases are in order if they were and the new
\* one is not of an earlier time than the one it follows.
LEMMA CaseAfter ==
    ASSUME published \in Seq(Workspace), NEW table,
           \A n \in DOMAIN published : Known(table, published[n]),
           NEW w \in Workspace, Known(table, w), published' = WithCase(w)
    PROVE  /\ published' \in Seq(Workspace) /\ published' # <<>> /\ CaseHead' = w
           /\ \A n \in DOMAIN published' : Known(table, published'[n])
           /\ InOrder' => InOrder
           /\ InOrder' /\ published # <<>> => NotBefore(CaseHead, w)
  <1>1. w.length \in Nat
    BY WorkspaceTyped
  <1>2. CASE published # <<>> /\ w = CaseHead
    <2>1. published' = published /\ CaseHead' = w
      BY <1>2 DEF WithCase, CaseHead
    <2>2. NotBefore(CaseHead, w)
      BY <1>1, <1>2 DEF NotBefore
    <2> QED
      BY <1>2, <2>1, <2>2 DEF InOrder
  <1>3. CASE ~(published # <<>> /\ w = CaseHead)
    <2>1. published' = Append(published, w)
      BY <1>3 DEF WithCase
    <2> DEFINE m == Len(published)
    <2>2. /\ published' \in Seq(Workspace) /\ Len(published') = m + 1
          /\ DOMAIN published' = 1 .. m + 1
          /\ published'[m + 1] = w
          /\ \A n \in 1 .. m : published'[n] = published[n]
          /\ DOMAIN published = 1 .. m /\ m \in Nat
      BY <2>1, AppendShape
    <2>3. \A n \in 1 .. m + 1 : n \in 1 .. m \/ n = m + 1
      BY <2>2
    <2>4. CaseHead' = w
      BY <2>2 DEF CaseHead, Last
    <2>5. published' # <<>>
      BY <2>2
    <2>6. published # <<>> => m \in 1 .. m /\ CaseHead = published[m]
      BY <2>2 DEF CaseHead, Last
    <2>7. m = Len(published)
      OBVIOUS
    <2> HIDE DEF m
    <2>8. InOrder' => InOrder
      <3> SUFFICES ASSUME InOrder' PROVE InOrder
        OBVIOUS
      <3>1. \A n \in 2 .. m : n \in 2 .. m + 1 /\ n \in 1 .. m /\ n - 1 \in 1 .. m
        BY <2>2
      <3> QED
        BY <2>2, <2>7, <3>1 DEF InOrder
    <2>9. InOrder' /\ published # <<>> => NotBefore(CaseHead, w)
      <3> SUFFICES ASSUME InOrder', published # <<>> PROVE NotBefore(CaseHead, w)
        OBVIOUS
      <3>1. m + 1 \in 2 .. m + 1 /\ (m + 1) - 1 = m
        BY <2>2, <2>6
      <3> QED
        BY <2>2, <2>6, <3>1 DEF InOrder, NotBefore
    <2> QED
      BY <2>2, <2>3, <2>4, <2>5, <2>8, <2>9
  <1> QED
    BY <1>2, <1>3

\* Its part of the advance was decided on what the part before it returned.
LEMMA ChainAfter ==
    ASSUME Chained, NEW r, r.request.kind = "advance" =>
                               Linked(receipts, r.request, r.unit, r.expect),
           receipts' = receipts \cup {r}
    PROVE  Chained'
  <1>1. \A q, n, w : Linked(receipts, q, n, w) => Linked(receipts', q, n, w)
    BY DEF Linked
  <1>2. \A s \in receipts' : s.request.kind = "advance" =>
            Linked(receipts', s.request, s.unit, s.expect)
    BY <1>1 DEF Chained
  <1> QED
    BY <1>2 DEF Chained

LEMMA CommitKeepsInv ==
    ASSUME Inv, NEW c \in Clients, Commit(c)
    PROVE  Inv'
  <1> DEFINE k == clients[c]
             q == k.request
             table == Applied(k)
             v == IF q.kind = "open" THEN Latest + 1 ELSE k.on.inv
  <1>1. k.pc = "commit" /\ k.pc \notin Resting /\ IsCurrent(k)
    BY DEF Commit, At, Resting
  <1>2. /\ k \in Client /\ Busy(investigations, receipts, k)
        /\ investigations \in Table /\ PairsFit
    BY <1>1, InFlight
  <1>3. Committing(k) /\ published # <<>> /\ k.on = CaseHead
    BY <1>1, <1>2 DEF Committing, IsCurrent
  <1>4. /\ Known(investigations, k.on) /\ k.on \in Workspace /\ Stated(investigations, q)
        /\ k.unit \in 0 .. CountUnit /\ Prepared(investigations, receipts, k)
    BY <1>3, DecidedOnAll
  <1>5. PICK stated \in Refined(k), captured \in Captures(k) :
            LET w == Built(table, stated, Learned(k), v, q.what)
            IN  /\ Readable(table, stated, v) /\ Publishable(w)
                /\ investigations' = table /\ intents' = stated
                /\ published' = WithCase(w)
                /\ receipts' = receipts \cup
                      {[request |-> q, unit |-> k.unit, expect |-> k.on, result |-> w]}
                /\ unreviewed' = (unreviewed \/ captured)
                /\ Become(c, AfterCommit(k, w, captured))
    BY DEF Commit
  <1> DEFINE w == Built(table, stated, Learned(k), v, q.what)
             r == [request |-> q, unit |-> k.unit, expect |-> k.on, result |-> w]
  <1>6. /\ Readable(table, stated, v)
        /\ investigations' = table /\ intents' = stated /\ published' = WithCase(w)
        /\ receipts' = receipts \cup {r} /\ unreviewed' = (unreviewed \/ captured)
        /\ Become(c, AfterCommit(k, w, captured))
    BY <1>5
  <1>7. /\ ReceiptsOf(q, k.unit) = {} /\ learned' = Learned(k)
        /\ verified' = (verified /\ table = investigations /\ learned' = learned)
        /\ authority' = authority /\ ledgerSound' = ledgerSound /\ pairs' = pairs
        /\ decision' = decision /\ sends' = sends /\ events' = events
        /\ readers' = readers
    BY DEF Commit, bounds
  <1>8. captured \in BOOLEAN
    BY <1>5 DEF Captures
  <1>9. /\ authority \in Authorities /\ learned \in Nat /\ ledgerSound \in BOOLEAN
        /\ published \in Seq(Workspace) /\ receipts \subseteq Receipt
        /\ sends \in Nat /\ events \in Nat /\ AdaptationTypeOK(Workspace, Actions)
        /\ Remembered /\ Chained
    BY DEF Inv, Store, StoreTyped
  <1>10. /\ table \in Table /\ Grown(investigations, table)
         /\ \A u \in DOMAIN table : Lawful(table[u])
         /\ v \in 1 .. Len(table) /\ DOMAIN table = 1 .. Len(table)
    BY <1>3, TableAfter
  <1>11. InOrder => Finished(table) /\ v = Len(table) /\ Orderly
    <2>1. InOrder => Orderly
      BY DEF Inv, Store
    <2> QED
      BY <1>3, <2>1, OneEndAfter DEF Orderly, HeadIsLatest
  <1>12. stated \in Seq(Objectives)
    BY <1>3, <1>5, RefinedTyped
  <1>13. Learned(k) \in Nat
    BY <1>9 DEF Learned
  <1>14. v \in 0 .. Len(table) /\ v # 0 /\ Len(table) \in Nat
    BY <1>10 DEF Table
  <1> HIDE DEF table, v
  <1>15. /\ w.inv = v /\ w.length = Len(table[v].events) /\ w \in Workspace
         /\ Known(table, w)
    BY <1>9, <1>10, <1>12, <1>13, <1>14, BuiltKnown
  <1> HIDE DEF w
  <1>16. r \in Receipt /\ r.request = q /\ r.unit = k.unit /\ r.expect = k.on /\ r.result = w
    BY <1>4, <1>15 DEF Receipt, Stated, Units
  <1>17. Counted'
    BY <1>3, <1>6, <1>7, CountsAfter DEF table
  <1> HIDE DEF r
  <1>18. Chained'
    BY <1>4, <1>6, <1>9, <1>16, ChainAfter DEF Prepared
  <1>19. \A x : Known(investigations, x) =>
             Known(table, x) /\ Heard(table, x) = Heard(investigations, x)
    BY <1>2, <1>10, GrownHeard
  <1>20. /\ published' \in Seq(Workspace) /\ published' # <<>> /\ CaseHead' = w
         /\ \A n \in DOMAIN published' : Known(table, published'[n])
         /\ InOrder' => InOrder
    <2>1. \A n \in DOMAIN published : Known(table, published[n])
      BY <1>9, <1>19 DEF Remembered
    <2> QED
      BY <1>6, <1>9, <1>15, <2>1, CaseAfter
  <1>21. Remembered'
    <2>1. \A s \in receipts' : Known(table, s.expect) /\ Known(table, s.result)
                                   /\ s.result.inv # 0
      BY <1>4, <1>6, <1>9, <1>14, <1>15, <1>16, <1>19 DEF Remembered
    <2> QED
      BY <1>6, <1>20, <2>1 DEF Remembered
  <1>22. PairsFit'
    BY <1>2, <1>6, <1>7, <1>19 DEF PairsFit
  <1>23. Histories'
    BY <1>6, <1>10 DEF Histories
  <1>24. (InOrder => Orderly)'
    <2> SUFFICES ASSUME InOrder' PROVE Orderly'
      OBVIOUS
    <2>1. Finished(table) /\ v = Len(table)
      BY <1>11, <1>20
    <2>2. stated # <<>> => ObjectiveOf(table, stated, v, None) = Last(stated)
      BY <1>6, <1>14 DEF Readable
    <2>3. stated # <<>> => FoldedObjective(table[v], table[v].events) = Last(stated)
      BY <1>14, <2>2 DEF ObjectiveOf
    <2>4. ObjectivesAgree'
      BY <1>6, <2>1, <2>3 DEF ObjectivesAgree, Latest, Log
    <2>5. HeadIsLatest'
      BY <1>6, <1>15, <1>20, <2>1 DEF HeadIsLatest, IsLatest, Latest, Log
    <2> QED
      BY <1>6, <2>1, <2>4, <2>5 DEF Orderly
  <1>25. StoreTyped'
    <2>1. AdaptationTypeOK(Workspace, Actions)'
      BY <1>6, <1>7, <1>8, <1>9 DEF AdaptationTypeOK
    <2>2. receipts' \subseteq Receipt
      BY <1>6, <1>9, <1>16
    <2> QED
      BY <1>6, <1>7, <1>9, <1>10, <1>12, <1>13, <1>20, <2>1, <2>2 DEF StoreTyped, Table
  <1>26. Store'
    BY <1>17, <1>18, <1>20, <1>21, <1>22, <1>23, <1>24, <1>25 DEF Store
  <1>27. \A d \in Clients : Informed(table, receipts', clients[d])
    <2>1. receipts \subseteq receipts'
      BY <1>6
    <2>2. \A d \in Clients : Informed(investigations, receipts, clients[d])
      BY DEF Inv
    <2> QED
      BY <1>2, <1>10, <2>1, <2>2, GrownInformed
  <1>28. Informed(table, receipts', AfterCommit(k, w, captured))
    <2>1. Busy(table, receipts', k)
      BY <1>1, <1>27 DEF Informed
    <2>2. \E s \in receipts' : s.request = q /\ s.unit = k.unit /\ s.result = w
      BY <1>6, <1>16
    <2>3. /\ Stated(table, q) /\ Known(table, k.on)
          /\ q.kind # "open" => k.on.inv # 0
          /\ q.kind # "advance" => k.unit = 0
      BY <2>1 DEF Busy
    <2>4. w.inv # 0
      BY <1>14, <1>15
    <2> QED
      BY <1>1, <1>2, <1>4, <1>8, <1>15, <2>2, <2>3, <2>4, AfterCommitInforms
  <1>29. DOMAIN clients = Clients /\ clients \in [Clients -> Client]
    BY DEF Inv
  <1> DEFINE new == AfterCommit(k, w, captured)
  <1>30. clients' = [clients EXCEPT ![c] = new] /\ new \in Client
    BY <1>6, <1>28 DEF Become, Informed
  <1> HIDE DEF new
  <1>31. DOMAIN clients' = Clients /\ clients' \in [Clients -> Client]
    BY <1>29, <1>30
  <1>32. \A d \in Clients : clients'[d] = IF d = c THEN new ELSE clients[d]
    BY <1>29, <1>30
  <1>33. \A d \in Clients : Informed(table, receipts', clients'[d])
    BY <1>27, <1>28, <1>32 DEF new
  <1>34. (\A d \in Clients : Informed(investigations, receipts, clients[d]))'
    BY <1>6, <1>33
  <1>35. ReadersKnow'
    <2>1. ReadersKnow
      BY DEF Inv
    <2> QED
      BY <1>6, <1>7, <1>19, <1>20, <2>1 DEF ReadersKnow, ReaderKnows
  <1> QED
    BY <1>26, <1>31, <1>34, <1>35 DEF Inv

-----------------------------------------------------------------------------
(***************************************************************************)
(* Everyone else.                                                          *)
(***************************************************************************)

\* Requests in flight are where they were, and what they know is still so.
LEMMA OthersStep ==
    ASSUME Inv, UNCHANGED <<investigations, receipts, clients>>, StoreTyped',
           pairs' = pairs, Remembered', (InOrder => Orderly)', ReadersKnow'
    PROVE  Inv'
  <1>1. /\ investigations' = investigations /\ receipts' = receipts /\ clients' = clients
    OBVIOUS
  <1>2. Histories /\ Counted /\ Chained /\ PairsFit
    BY DEF Inv, Store
  <1>3. Histories' /\ Counted' /\ Chained' /\ PairsFit'
    BY <1>1, <1>2 DEF Histories, Counted, ContinuesAreCounted, Chained, PairsFit
  <1>4. Store'
    BY <1>3 DEF Store
  <1>5. DOMAIN clients' = Clients /\ clients' \in [Clients -> Client]
    BY <1>1 DEF Inv
  <1>6. (\A c \in Clients : Informed(investigations, receipts, clients[c]))'
    BY <1>1 DEF Inv
  <1> QED
    BY <1>4, <1>5, <1>6 DEF Inv

\* A run that is read differently, a record elsewhere, a broken stream.
LEMMA OutsideKeepsInv ==
    ASSUME Inv, ChangeAuthority \/ LearnElsewhere \/ LedgerBreaks
    PROVE  Inv'
  <1>1. /\ authority \in Authorities /\ learned \in Nat /\ ledgerSound \in BOOLEAN
        /\ sends \in Nat /\ events \in Nat /\ AdaptationTypeOK(Workspace, Actions)
        /\ StoreTyped
    BY DEF Inv, Store, StoreTyped
  <1>2. /\ UNCHANGED history /\ clients' = clients /\ sends' = sends /\ pairs' = pairs
        /\ decision' = decision /\ unreviewed' = unreviewed
        /\ authority' \in Authorities /\ events' = events + 1
        /\ learned' = learned \/ learned' = learned + 1
        /\ ledgerSound' = ledgerSound \/ ledgerSound' = FALSE
        /\ verified' = verified \/ verified' = FALSE
        /\ readers' = readers
    <2>1. CASE ChangeAuthority
      BY <1>1, <2>1 DEF ChangeAuthority, Happens, ledger
    <2>2. CASE LearnElsewhere
      BY <1>1, <2>2 DEF LearnElsewhere, Happens, ledger
    <2>3. CASE LedgerBreaks
      BY <1>1, <2>3 DEF LedgerBreaks, Happens, ledger, adaptation
    <2> QED
      BY <2>1, <2>2, <2>3
  <1>3. AdaptationTypeOK(Workspace, Actions)'
    BY <1>1, <1>2 DEF AdaptationTypeOK
  <1>4. StoreTyped'
    <2>1. events' \in Nat /\ learned' \in Nat
      BY <1>1, <1>2
    <2>2. ledgerSound' \in BOOLEAN
      BY <1>1, <1>2
    <2> QED
      BY <1>1, <1>2, <1>3, <2>1, <2>2 DEF StoreTyped, history
  <1>5. Remembered' /\ (InOrder => Orderly)'
    BY <1>2, LedgersStay
  <1>6. UNCHANGED <<investigations, receipts, clients>> /\ published' = published
    BY <1>2 DEF history
  <1>7. ReadersKnow'
    BY <1>2, <1>6, ReadersStay
  <1> QED
    BY <1>2, <1>4, <1>5, <1>6, <1>7, OthersStep

\* One reader has done a step, and the table is as it was.
LEMMA ReaderStep ==
    ASSUME Inv, NEW r \in Readers, NEW x \in Reader, Read(r, x),
           investigations' = investigations, published # <<>> => published' # <<>>,
           ReaderKnows(x)'
    PROVE  ReadersKnow'
  <1>1. /\ DOMAIN readers = Readers /\ readers \in [Readers -> Reader]
        /\ \A d \in Readers : ReaderKnows(readers[d])
    BY DEF Inv, ReadersKnow
  <1>2. readers' = [readers EXCEPT ![r] = x]
    BY DEF Read
  <1>3. DOMAIN readers' = Readers /\ readers' \in [Readers -> Reader]
    BY <1>1, <1>2
  <1>4. \A d \in Readers : readers'[d] = IF d = r THEN x ELSE readers[d]
    BY <1>1, <1>2
  <1>5. ASSUME NEW d \in Readers PROVE ReaderKnows(readers[d])'
    <2>1. CASE d = r
      BY <1>4, <2>1 DEF ReaderKnows
    <2>2. CASE d # r
      BY <1>1, <1>4, <2>2 DEF ReaderKnows, IsLatest, Latest, Log
    <2> QED
      BY <2>1, <2>2
  <1> QED
    BY <1>3, <1>5 DEF ReadersKnow

LEMMA NotReadingKnows ==
    /\ NotReading \in Reader
    /\ Inv => ReaderKnows(NotReading) /\ ReaderKnows(NotReading)'
  BY DEF NotReading, Reader, ReaderKnows

LEMMA GetReadKeepsInv ==
    ASSUME Inv, NEW r \in Readers, GetRead(r)
    PROVE  Inv'
  <1>1. UNCHANGED <<history, producers, adaptation, clients, bounds>>
    BY DEF GetRead
  <1>2. PICK asked \in Objectives :
           Read(r, [pc |-> "publish", on |-> Now(Latest, asked), what |-> None])
    BY DEF GetRead
  <1> DEFINE w == Now(Latest, asked)
  <1>3. StoreTyped /\ Latest \in 0 .. Len(investigations)
    BY DEF Inv, Store, StoreTyped, Latest
  <1>4. w \in Workspace /\ Known(investigations, w) /\ IsLatest(w)
    BY <1>3, NowKnown DEF Now, StoreTyped
  <1> HIDE DEF w
  <1>5. PICK x \in Reader : x = [pc |-> "publish", on |-> w, what |-> None]
    BY <1>4 DEF Reader
  <1>6. /\ investigations' = investigations /\ published' = published
        /\ receipts' = receipts /\ clients' = clients /\ pairs' = pairs
    BY <1>1 DEF history, adaptation, ledger
  <1>7. ReaderKnows(x)'
    <2>1. x.pc = "publish" /\ x.on = w /\ w # None
      BY <1>4, <1>5, NoneAssumption
    <2>2. Known(investigations, x.on) /\ IsLatest(x.on)
      BY <1>4, <2>1
    <2> QED
      BY <1>4, <1>6, <2>1, <2>2 DEF ReaderKnows, IsLatest, Latest, Log
  <1>8. Read(r, x)
    BY <1>2, <1>5 DEF w
  <1>9. ReadersKnow'
    BY <1>6, <1>7, <1>8, ReaderStep
  <1>10. StoreTyped'
    BY <1>1, <1>3
       DEF StoreTyped, history, producers, adaptation, ledger, bounds, AdaptationTypeOK
  <1>11. Remembered' /\ (InOrder => Orderly)'
    BY <1>1, LedgersStay
  <1> QED
    BY <1>6, <1>10, <1>11, <1>9, OthersStep

\* A case read before is published now.  If the cases are in order still, it was of
\* the latest investigation, with all of its events.
LEMMA GetWriteKeepsInv ==
    ASSUME Inv, NEW r \in Readers, GetWrite(r)
    PROVE  Inv'
  <1> DEFINE w == readers[r].on
  <1>1. /\ UNCHANGED <<investigations, intents, receipts, producers, adaptation, clients,
                       bounds>>
        /\ Read(r, NotReading) /\ readers[r].pc = "publish"
        /\ published' = IF Publishable(w) THEN WithCase(w) ELSE published
    BY DEF GetWrite
  <1>2. StoreTyped /\ Remembered /\ (InOrder => Orderly) /\ investigations \in Table
    BY DEF Inv, Store, StoreTyped, Table
  <1>3. /\ Known(investigations, w) /\ w \in Workspace
        /\ published = <<>> => IsLatest(w)
    BY <1>1 DEF Inv, ReadersKnow, ReaderKnows, Known
  <1> HIDE DEF w
  <1>4. CASE ~Publishable(w)
    <2>1. published' = published /\ UNCHANGED history
      BY <1>1, <1>4 DEF history
    <2>2. Remembered' /\ (InOrder => Orderly)'
      BY <2>1, LedgersStay
    <2>3. ReadersKnow'
      BY <1>1, <2>1, ReaderStep, NotReadingKnows
    <2>4. StoreTyped'
      BY <1>1, <1>2, <2>1
         DEF StoreTyped, producers, adaptation, ledger, bounds, AdaptationTypeOK
    <2>5. pairs' = pairs
      BY <1>1 DEF adaptation, ledger
    <2> QED
      BY <1>1, <2>2, <2>3, <2>4, <2>5, OthersStep
  <1>5. CASE Publishable(w)
    <2>1. /\ published' \in Seq(Workspace) /\ published' # <<>> /\ CaseHead' = w
          /\ \A n \in DOMAIN published' : Known(investigations, published'[n])
          /\ InOrder' => InOrder
          /\ InOrder' /\ published # <<>> => NotBefore(CaseHead, w)
      BY <1>1, <1>2, <1>3, <1>5, CaseAfter DEF StoreTyped, Remembered
    <2>2. Remembered'
      BY <1>1, <1>2, <2>1 DEF Remembered
    <2>3. ASSUME InOrder' PROVE IsLatest(w)
      <3>1. CASE published = <<>>
        BY <1>3, <3>1
      <3>2. CASE published # <<>>
        <4>1. IsLatest(CaseHead) /\ NotBefore(CaseHead, w)
          BY <1>2, <2>1, <2>3, <3>2 DEF Orderly, HeadIsLatest
        <4>2. w.inv \in 0 .. Latest /\ Latest \in Nat
          BY <1>2, <1>3 DEF Known, Latest, Table
        <4>3. w.inv = Latest
          BY <4>1, <4>2 DEF IsLatest, NotBefore
        <4>4. ASSUME Latest # 0 PROVE w.length = Len(Log(Latest))
          <5>1. w.length <= Len(Log(Latest)) /\ w.length \in Nat
            BY <1>3, <4>3, <4>4, WorkspaceTyped DEF Known, Log
          <5>2. Len(Log(Latest)) <= w.length
            BY <4>1, <4>2, <4>3, <4>4 DEF IsLatest, NotBefore
          <5>3. Len(Log(Latest)) \in Nat
            BY <1>2, <4>2, <4>4, TableTyped, LogTyped DEF Log, Latest
          <5> QED
            BY <5>1, <5>2, <5>3
        <4> QED
          BY <4>3, <4>4 DEF IsLatest
      <3> QED
        BY <3>1, <3>2
    <2>4. (InOrder => Orderly)'
      <3> SUFFICES ASSUME InOrder' PROVE Orderly'
        OBVIOUS
      <3>1. Orderly /\ IsLatest(w)
        BY <1>2, <2>1, <2>3
      <3>2. HeadIsLatest'
        BY <1>1, <2>1, <3>1 DEF HeadIsLatest, IsLatest, Latest, Log
      <3> QED
        BY <1>1, <3>1, <3>2 DEF Orderly, Finished, ObjectivesAgree, Latest, Log
    <2>5. ReadersKnow'
      BY <1>1, <2>1, ReaderStep, NotReadingKnows
    <2>6. StoreTyped'
      BY <1>1, <1>2, <2>1
         DEF StoreTyped, producers, adaptation, ledger, bounds, AdaptationTypeOK
    <2>7. pairs' = pairs
      BY <1>1 DEF adaptation, ledger
    <2> QED
      BY <1>1, <2>2, <2>4, <2>5, <2>6, <2>7, OthersStep
  <1> QED
    BY <1>4, <1>5

LEMMA IntentReadKeepsInv ==
    ASSUME Inv, NEW r \in Readers, IntentRead(r)
    PROVE  Inv'
  <1>1. /\ UNCHANGED <<history, producers, adaptation, clients, sends>>
        /\ events' = events + 1 /\ published # <<>>
    BY DEF IntentRead, Happens
  <1>2. PICK stated \in Objectives :
           Read(r, [pc |-> "state", on |-> CaseHead, what |-> stated])
    BY DEF IntentRead
  <1>3. Known(investigations, CaseHead) /\ CaseHead \in Workspace
    BY <1>1, HeadKnown DEF Known
  <1>4. PICK x \in Reader : x = [pc |-> "state", on |-> CaseHead, what |-> stated]
    BY <1>3 DEF Reader
  <1>5. /\ investigations' = investigations /\ published' = published
        /\ receipts' = receipts /\ clients' = clients /\ pairs' = pairs
    BY <1>1 DEF history, adaptation, ledger
  <1>6. ReaderKnows(x)'
    <2>1. x.pc = "state" /\ x.on = CaseHead /\ x.what = stated
      BY <1>4
    <2>2. Known(investigations, x.on)
      BY <1>3, <2>1
    <2> QED
      BY <1>1, <1>5, <2>1, <2>2 DEF ReaderKnows
  <1>7. ReadersKnow'
    <2>1. Read(r, x)
      BY <1>2, <1>4
    <2> QED
      BY <1>5, <1>6, <2>1, ReaderStep
  <1>8. StoreTyped'
    <2>1. StoreTyped /\ events \in Nat
      BY DEF Inv, Store, StoreTyped
    <2>2. events' \in Nat
      BY <1>1, <2>1
    <2> QED
      BY <1>1, <2>1, <2>2
         DEF StoreTyped, history, producers, adaptation, ledger, AdaptationTypeOK
  <1>9. Remembered' /\ (InOrder => Orderly)'
    BY <1>1, LedgersStay
  <1> QED
    BY <1>5, <1>7, <1>8, <1>9, OthersStep

LEMMA IntentWriteKeepsInv ==
    ASSUME Inv, NEW r \in Readers, IntentWrite(r)
    PROVE  Inv'
  <1> DEFINE what == readers[r].what
             stated == Append(intents, what)
             w0 == Built(investigations, stated, learned, Latest, what)
             w == [w0 EXCEPT !.authority = authority']
  <1>1. /\ UNCHANGED <<investigations, receipts, learned, ledgerSound, ledger, clients, bounds>>
        /\ Read(r, NotReading) /\ readers[r].pc = "state"
        /\ Readable(investigations, stated, Latest)
        /\ intents' = stated /\ published' = WithCase(w)
        /\ authority' \in Authorities /\ verified' \in BOOLEAN
    BY DEF IntentWrite, Inv, Store, StoreTyped, AdaptationTypeOK
  <1>2. StoreTyped /\ Remembered /\ (InOrder => Orderly)
        /\ Latest \in 0 .. Len(investigations)
    BY DEF Inv, Store, StoreTyped, Latest
  <1>3. what \in Objectives
    BY <1>1 DEF Inv, ReadersKnow, ReaderKnows
  <1> HIDE DEF what
  <1>4. stated \in Seq(Objectives)
    BY <1>2, <1>3 DEF StoreTyped
  <1> HIDE DEF stated
  <1>5. w0 \in Workspace /\ Known(investigations, w0) /\ IsLatest(w0)
    BY <1>2, <1>3, <1>4, NowKnown
  <1> HIDE DEF w0
  <1>6. w \in Workspace /\ w.inv = w0.inv /\ w.length = w0.length
    BY <1>1, <1>5 DEF Workspace
  <1> HIDE DEF w
  <1>7. Known(investigations, w) /\ IsLatest(w)
    BY <1>5, <1>6 DEF Known, IsLatest
  <1>8. /\ published' \in Seq(Workspace) /\ published' # <<>> /\ CaseHead' = w
        /\ \A n \in DOMAIN published' : Known(investigations, published'[n])
        /\ InOrder' => InOrder
    BY <1>1, <1>2, <1>6, <1>7, CaseAfter DEF StoreTyped, Remembered
  <1>9. Remembered'
    BY <1>1, <1>2, <1>8 DEF Remembered
  <1>10. (InOrder => Orderly)'
    <2> SUFFICES ASSUME InOrder' PROVE Orderly'
      OBVIOUS
    <2>1. Orderly
      BY <1>2, <1>8
    <2>2. HeadIsLatest'
      BY <1>1, <1>7, <1>8 DEF HeadIsLatest, IsLatest, Latest, Log
    <2>3. Latest # 0 /\ stated # <<>> =>
              FoldedObjective(investigations[Latest], investigations[Latest].events)
                  = Last(stated)
      BY <1>1 DEF Readable, ObjectiveOf
    <2>4. ObjectivesAgree'
      BY <1>1, <2>3 DEF ObjectivesAgree, Latest, Log
    <2> QED
      BY <1>1, <2>1, <2>2, <2>4 DEF Orderly, Finished
  <1>11. ReadersKnow'
    BY <1>1, <1>8, ReaderStep, NotReadingKnows
  <1>12. StoreTyped'
    BY <1>1, <1>2, <1>4, <1>8 DEF StoreTyped, ledger, bounds, AdaptationTypeOK
  <1>13. pairs' = pairs
    BY <1>1 DEF ledger
  <1> QED
    BY <1>1, <1>9, <1>10, <1>11, <1>12, <1>13, OthersStep

LEMMA IntentFailsKeepsInv ==
    ASSUME Inv, NEW r \in Readers, IntentFails(r)
    PROVE  Inv'
  <1>1. UNCHANGED <<history, producers, adaptation, clients, bounds>> /\ Read(r, NotReading)
    BY DEF IntentFails
  <1>2. /\ investigations' = investigations /\ published' = published
        /\ receipts' = receipts /\ clients' = clients /\ pairs' = pairs
    BY <1>1 DEF history, adaptation, ledger
  <1>3. ReadersKnow'
    BY <1>1, <1>2, ReaderStep, NotReadingKnows
  <1>4. StoreTyped'
    BY <1>1 DEF Inv, Store, StoreTyped, history, producers, adaptation, ledger, bounds,
                AdaptationTypeOK
  <1>5. Remembered' /\ (InOrder => Orderly)'
    BY <1>1, LedgersStay
  <1> QED
    BY <1>2, <1>3, <1>4, <1>5, OthersStep

LEMMA CrashKeepsInv ==
    ASSUME Inv, Crash
    PROVE  Inv'
  <1>1. /\ UNCHANGED <<history, producers, ledger, sends>> /\ verified' = FALSE
        /\ events' = events + 1
        /\ clients' = [c \in Clients |-> IF clients[c].pc \in Resting THEN clients[c]
                                         ELSE Ends(clients[c], "lost")]
        /\ readers' = [r \in Readers |-> NotReading]
    BY DEF Crash, Happens
  <1>2. StoreTyped /\ PairsFit
    BY DEF Inv, Store
  <1>3. /\ investigations' = investigations /\ receipts' = receipts
        /\ published' = published /\ intents' = intents /\ pairs' = pairs
        /\ decision' = decision /\ unreviewed' = unreviewed /\ authority' = authority
        /\ learned' = learned /\ ledgerSound' = ledgerSound /\ sends' = sends
    BY <1>1 DEF history, producers, ledger
  <1>4. StoreTyped'
    <2>1. AdaptationTypeOK(Workspace, Actions)'
      BY <1>1, <1>2, <1>3 DEF StoreTyped, AdaptationTypeOK
    <2>2. events' \in Nat
      BY <1>1, <1>2 DEF StoreTyped
    <2> QED
      BY <1>2, <1>3, <2>1, <2>2 DEF StoreTyped
  <1>5. /\ Histories' /\ Remembered' /\ Counted' /\ Chained' /\ (InOrder => Orderly)'
    BY <1>1, LedgersStay
  <1>6. PairsFit'
    BY <1>2, <1>3 DEF PairsFit
  <1>7. Store'
    BY <1>4, <1>5, <1>6 DEF Store
  <1>8. ASSUME NEW c \in Clients
        PROVE  /\ Informed(investigations, receipts, clients'[c])
               /\ clients'[c].pc \in Resting /\ clients'[c].request = clients[c].request
    <2>1. Informed(investigations, receipts, clients[c])
      BY DEF Inv
    <2>2. CASE clients[c].pc \in Resting
      BY <1>1, <2>1, <2>2
    <2>3. CASE clients[c].pc \notin Resting
      <3>1. clients'[c] = Ends(clients[c], "lost")
        BY <1>1, <2>3
      <3>2. "lost" \in Resting
        BY DEF Resting
      <3>3. Stated(investigations, clients[c].request)
        BY <2>1, <2>3 DEF Informed, Busy
      <3>4. /\ Ends(clients[c], "lost").pc = "lost"
            /\ Ends(clients[c], "lost").request = clients[c].request
        BY Fresh DEF Ends
      <3> QED
        BY <3>1, <3>2, <3>3, <3>4, EndsInformed
    <2> QED
      BY <2>2, <2>3
  <1>9. DOMAIN clients' = Clients /\ clients' \in [Clients -> Client]
    <2>1. DOMAIN clients' = Clients
      BY <1>1
    <2>2. \A c \in Clients : clients'[c] \in Client
      BY <1>8 DEF Informed
    <2> DEFINE f == [c \in Clients |-> IF clients[c].pc \in Resting THEN clients[c]
                                       ELSE Ends(clients[c], "lost")]
    <2>3. clients' = f
      BY <1>1
    <2>4. \A c \in Clients : f[c] \in Client
      BY <2>2, <2>3
    <2>5. f \in [Clients -> Client]
      BY <2>4
    <2> QED
      BY <2>1, <2>3, <2>5
  <1>10. (\A c \in Clients : Informed(investigations, receipts, clients[c]))'
    BY <1>3, <1>8
  <1>11. ReadersKnow'
    BY <1>1, NotReadingKnows DEF ReadersKnow
  <1> QED
    BY <1>7, <1>9, <1>10, <1>11 DEF Inv

\* A step of nothing.
LEMMA StutterKeepsInv ==
    ASSUME Inv, UNCHANGED vars
    PROVE  Inv'
  <1>1. /\ UNCHANGED history /\ UNCHANGED <<investigations, receipts, clients>>
        /\ published' = published /\ pairs' = pairs /\ readers' = readers
    BY DEF vars, history
  <1>2. StoreTyped'
    BY DEF Inv, Store, StoreTyped, AdaptationTypeOK, vars
  <1>3. Remembered' /\ (InOrder => Orderly)' /\ ReadersKnow'
    BY <1>1, LedgersStay, ReadersStay
  <1> QED
    BY <1>1, <1>2, <1>3, OthersStep

-----------------------------------------------------------------------------
(***************************************************************************)
(* The theorems.                                                           *)
(***************************************************************************)

\* What was stored before is lawful, and nothing is in flight.
LEMMA InitHolds ==
    ASSUME Init
    PROVE  Inv
  <1>1. PICK s \in Stored : investigations = s.investigations /\ intents = s.intents
    BY DEF Init
  <1>2. /\ authority \in Authorities /\ learned = 0 /\ ledgerSound = TRUE
        /\ published = <<>> /\ receipts = {} /\ sends = 0 /\ events = 0
        /\ clients = [c \in Clients |-> NoRequest] /\ readers = [r \in Readers |-> NotReading]
    BY DEF Init
  <1>3. /\ investigations \in Table /\ intents \in Seq(Objectives)
        /\ \A v \in DOMAIN investigations :
              Lawful(investigations[v]) /\ investigations[v].continues = 0
        /\ Finished(investigations) /\ Readable(investigations, intents, Len(investigations))
    BY <1>1, StoredAssumption DEF Table, Lawful, Finished
  <1>4. AdaptationTypeOK(Workspace, Actions) /\ pairs = {}
    <2>1. /\ pairs = {} /\ decision \in [number : {1}, state : ActivationStates]
          /\ unreviewed = FALSE /\ verified = FALSE
      BY DEF Init, AdaptationInit
    <2>2. decision \in [number : Nat, state : ActivationStates]
      BY <2>1
    <2> QED
      BY <2>1, <2>2 DEF AdaptationTypeOK
  <1>5. StoreTyped
    BY <1>2, <1>3, <1>4 DEF StoreTyped, Table
  <1>6. Histories /\ HeadIsLatest /\ Remembered /\ PairsFit /\ Chained
    BY <1>2, <1>3, <1>4 DEF Histories, HeadIsLatest, Remembered, PairsFit, Chained
  <1>7. Counted
    <2>1. IsFiniteSet({}) /\ Cardinality({}) = 0
      BY FS_EmptySet
    <2>2. \A v : {r \in {} : /\ r.expect.inv = v
                             /\ r.request.kind = "continue" \/ r.unit = CountUnit} = {}
      OBVIOUS
    <2> QED
      BY <1>2, <1>3, <2>1, <2>2 DEF Counted, ContinuesAreCounted
  <1>8. ObjectivesAgree
    BY <1>3 DEF ObjectivesAgree, Readable, ObjectiveOf, Latest, Log, Table
  <1>9. Store
    BY <1>3, <1>5, <1>6, <1>7, <1>8 DEF Store, Orderly
  <1>10. /\ NoRequest \in Client /\ NoRequest.pc \in Resting /\ NoRequest.request = None
    BY ConstantsTyped DEF NoRequest, Client, Resting
  <1>11. DOMAIN clients = Clients /\ clients \in [Clients -> Client]
    BY <1>2, <1>10
  <1>12. \A c \in Clients : Informed(investigations, receipts, clients[c])
    BY <1>2, <1>10 DEF Informed
  <1>13. ReadersKnow
    BY <1>2 DEF ReadersKnow, ReaderKnows, NotReading, Reader
  <1> QED
    BY <1>9, <1>11, <1>12, <1>13 DEF Inv

LEMMA NextKeepsInv ==
    ASSUME Inv, [Next]_vars
    PROVE  Inv'
  <1>1. ASSUME NEW c \in Clients, Mutation(c) PROVE Inv'
    BY <1>1, HandlerKeepsInv, CommitKeepsInv
  <1>2. CASE ChangeAuthority \/ LearnElsewhere \/ LedgerBreaks
    BY <1>2, OutsideKeepsInv
  <1>3. ASSUME NEW r \in Readers, CaseRoute(r) PROVE Inv'
    BY <1>3, GetReadKeepsInv, GetWriteKeepsInv, IntentReadKeepsInv, IntentWriteKeepsInv,
       IntentFailsKeepsInv DEF CaseRoute
  <1>4. CASE Crash
    BY <1>4, CrashKeepsInv
  <1>5. CASE UNCHANGED vars
    BY <1>5, StutterKeepsInv
  <1> QED
    BY <1>1, <1>2, <1>3, <1>4, <1>5 DEF Next

LEMMA Invariant == Spec => []Inv
  <1>1. Init => Inv
    BY InitHolds
  <1>2. Inv /\ [Next]_vars => Inv'
    BY NextKeepsInv
  <1> QED
    BY <1>1, <1>2, PTL DEF Spec

\* Whatever requests, retries, crashes and changed evidence are interleaved, the
\* rows, receipts, pairs and requests keep the shape the handlers give them.
THEOREM ShapesHold == Spec => []TypeOK
  <1>1. Inv => TypeOK
    BY DEF Inv, Store, StoreTyped, ReadersKnow, TypeOK
  <1> QED
    BY <1>1, Invariant, PTL

\* Of any number of clients, readers, requests and crashes, two investigations are
\* without an ending only if the case of one reading was published over a later one:
\* the comparison with the current case is what keeps two requests to open apart.
THEOREM OneHasNoEnding == Spec => []OneOpenInOrder
  <1>1. Inv => OneOpenInOrder
    <2> SUFFICES ASSUME Inv, InOrder PROVE OneOpen
      BY DEF OneOpenInOrder
    <2>1. Finished(investigations)
      BY DEF Inv, Store, Orderly
    <2> QED
      BY <2>1 DEF OneOpen, Finished, Log
  <1> QED
    BY <1>1, Invariant, PTL

\* Every event was allowed by the events before it, however old the workspace on
\* which its request was decided.
THEOREM EveryHistoryIsLegal == Spec => []LegalHistory
  <1>1. Inv => LegalHistory
    BY DEF Inv, Store, Histories, Lawful, LegalHistory
  <1> QED
    BY <1>1, Invariant, PTL

\* A continuation counts once, retried, replayed or part of an advance.
THEOREM EachContinueCountsOnce == Spec => []ContinuesAreCounted
  <1>1. Inv => ContinuesAreCounted
    BY DEF Inv, Store, Counted
  <1> QED
    BY <1>1, Invariant, PTL

\* The parts of an advance, committed before and after a crash, are one chain.
THEOREM AdvancesAreChains == Spec => []AdvanceIsOneChain
  <1>1. Inv => AdvanceIsOneChain
    BY DEF Inv, Store, Chained, Linked, AdvanceIsOneChain
  <1> QED
    BY <1>1, Invariant, PTL

\* The objective folded from the events of the latest investigation is the driver's
\* last stated one, unless a case was published over a later one.
THEOREM LedgersAgree == Spec => []ObjectivesAgreeInOrder
  <1>1. Inv => ObjectivesAgreeInOrder
    BY DEF Inv, Store, Orderly, ObjectivesAgreeInOrder
  <1> QED
    BY <1>1, Invariant, PTL

=============================================================================
