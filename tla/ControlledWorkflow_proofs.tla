----------------------- MODULE ControlledWorkflow_proofs -----------------------
(***************************************************************************)
(* Proofs about the workflow table of EngineeringCase, for every value of  *)
(* its constants: what happens to the rows, whoever races to change them.  *)
(*                                                                         *)
(* The handlers decide outside the transaction and write inside it, so     *)
(* nothing about a step can be said before three facts are known of the    *)
(* requests in flight: the identity a start has drawn is still nobody's    *)
(* row, the rows a score has read are revisions the table went through in  *)
(* that order, and a published case only names workflows that are not      *)
(* abandoned.  They are inductive together (WInv).  With them every step   *)
(* is one of five (TableStep), and what the runs check about the table     *)
(* follows from that, by cases.                                            *)
(***************************************************************************)
EXTENDS EngineeringCase_proofs

-----------------------------------------------------------------------------
(***************************************************************************)
(* The revisions of a row.  A row only moves forward: from nothing to a    *)
(* plan, one stage at a time, and to its end.                              *)
(***************************************************************************)
Closed(w) == IF w.status \in TerminalStatus THEN 1 ELSE 0

Rank(w) == IF Exists(w) THEN Len(w.stages) + 1 + Closed(w) ELSE 0

Past(old, new) == old = new \/ Rank(old) < Rank(new)

LEMMA RankType ==
    ASSUME NEW w \in Workflow PROVE Rank(w) \in Nat
  <1>1. Len(w.stages) \in Nat
    BY DEF Workflow
  <1>2. Closed(w) \in {0, 1}
    BY DEF Closed
  <1> QED
    BY <1>1, <1>2 DEF Rank

LEMMA PastTransitive ==
    ASSUME NEW a \in Workflow, NEW b \in Workflow, NEW c \in Workflow,
           Past(a, b), Past(b, c)
    PROVE  Past(a, c)
  <1>1. Rank(a) \in Nat /\ Rank(b) \in Nat /\ Rank(c) \in Nat
    BY RankType
  <1> QED
    BY <1>1 DEF Past

\* A row read twice with the same value did not move in between.
LEMMA PastBothWays ==
    ASSUME NEW a \in Workflow, NEW b \in Workflow, Past(a, b), Past(b, a)
    PROVE  a = b
  <1>1. Rank(a) \in Nat /\ Rank(b) \in Nat
    BY RankType
  <1> QED
    BY <1>1 DEF Past

LEMMA PlannedShape ==
    ASSUME NEW run \in CaseRuns, NEW m \in SUBSET Runs, NEW t \in PlanTimes
    PROVE  /\ Planned(run, m, t) \in Workflow
           /\ Planned(run, m, t).status = "planned"
           /\ Planned(run, m, t).source = run
           /\ Planned(run, m, t).stages = <<>>
           /\ Planned(run, m, t).bound = TRUE
           /\ Planned(run, m, t).capture = "not_applicable"
  BY CaseAssumption, PlannedType DEF Planned, Absent

\* What recording the next stage does to a row.
LEMMA AttachedShape ==
    ASSUME NEW w \in Workflow, NEW run \in Runs, NEW stage \in {"A", "B", "A2"},
           stage = NextStage(w)
    PROVE  /\ Attached(w, run) \in Workflow
           /\ Attached(w, run).stages = Append(w.stages, run)
           /\ Attached(w, run).status = RecordedStatus[Len(w.stages) + 1]
           /\ Attached(w, run).source = w.source
           /\ Attached(w, run).bound = w.bound
           /\ Attached(w, run).capture = w.capture
           /\ Len(w.stages) \in 0 .. 2
           /\ stage = Stages[Len(w.stages) + 1]
  <1>1. w.stages \in Seq(Runs) /\ Len(w.stages) \in Nat
    BY DEF Workflow
  <1>2. Len(w.stages) < 3 /\ stage = Stages[Len(w.stages) + 1]
    BY RunsAssumption DEF NextStage
  <1>3. /\ Attached(w, run).stages = Append(w.stages, run)
        /\ Attached(w, run).status = RecordedStatus[Len(w.stages) + 1]
        /\ Attached(w, run).source = w.source
        /\ Attached(w, run).bound = w.bound
        /\ Attached(w, run).capture = w.capture
    BY DEF Attached, Workflow
  <1>4. Len(w.stages) \in 0 .. 2
    <2>1. \A n \in Nat : n < 3 => n \in 0 .. 2
      OBVIOUS
    <2> QED
      BY <1>1, <1>2, <2>1
  <1>5. Attached(w, run) \in Workflow
    BY AttachedType
  <1> QED
    BY <1>2, <1>3, <1>4, <1>5

LEMMA AttachedPast ==
    ASSUME NEW w \in Workflow, NEW run \in Runs, NEW stage \in {"A", "B", "A2"},
           stage = NextStage(w), Active(w)
    PROVE  Past(w, Attached(w, run)) /\ Exists(Attached(w, run)) /\ Active(Attached(w, run))
  <1> DEFINE new == Attached(w, run)
  <1>1. /\ new.stages = Append(w.stages, run)
        /\ new.status = RecordedStatus[Len(w.stages) + 1]
        /\ Len(w.stages) \in 0 .. 2
    BY AttachedShape
  <1>2. w.stages \in Seq(Runs)
    BY DEF Workflow
  <1> HIDE DEF new
  <1>3. Len(new.stages) = Len(w.stages) + 1
    BY <1>1, <1>2
  <1>4. new.status \in {"a_recorded", "b_recorded", "a2_recorded"}
    <2>1. CASE Len(w.stages) = 0
      BY <1>1, <2>1 DEF RecordedStatus
    <2>2. CASE Len(w.stages) = 1
      BY <1>1, <2>2 DEF RecordedStatus
    <2>3. CASE Len(w.stages) = 2
      BY <1>1, <2>3 DEF RecordedStatus
    <2> QED
      BY <1>1, <2>1, <2>2, <2>3
  <1>5. Closed(w) = 0 /\ Exists(w) /\ Closed(new) = 0 /\ Exists(new) /\ Active(new)
    BY <1>4 DEF Active, ActiveStatus, Closed, Exists, TerminalStatus
  <1>6. Rank(w) = Len(w.stages) + 1 /\ Rank(new) = Len(w.stages) + 2
    BY <1>1, <1>3, <1>5 DEF Rank
  <1> QED
    BY <1>1, <1>5, <1>6 DEF Past, new

LEMMA CancelledShape ==
    ASSUME NEW w \in Workflow
    PROVE  /\ Cancelled(w) \in Workflow
           /\ Cancelled(w).status = "cancelled"
           /\ Cancelled(w).stages = w.stages
           /\ Cancelled(w).source = w.source
           /\ Cancelled(w).bound = w.bound
           /\ Cancelled(w).capture = w.capture
  BY CancelledType DEF Cancelled, Workflow

LEMMA CancelledPast ==
    ASSUME NEW w \in Workflow, Active(w)
    PROVE  Past(w, Cancelled(w))
  <1>1. Len(w.stages) \in Nat
    BY DEF Workflow
  <1>2. Cancelled(w).status = "cancelled" /\ Cancelled(w).stages = w.stages
    BY CancelledShape
  <1>3. Closed(w) = 0 /\ Exists(w) /\ Closed(Cancelled(w)) = 1 /\ Exists(Cancelled(w))
    BY <1>2 DEF Active, ActiveStatus, Closed, Exists, TerminalStatus
  <1> QED
    BY <1>1, <1>2, <1>3 DEF Past, Rank

LEMMA ScoredShape ==
    ASSUME NEW w \in Workflow, NEW capture \in {"captured", "blocked"}, NEW n \in Nat
    PROVE  /\ Scored(w, capture, n) \in Workflow
           /\ Scored(w, capture, n).status = "scored"
           /\ Scored(w, capture, n).stages = w.stages
           /\ Scored(w, capture, n).source = w.source
           /\ Scored(w, capture, n).bound = w.bound
           /\ Scored(w, capture, n).capture = capture
           /\ Scored(w, capture, n).ordinal = n
  BY ScoredType DEF Scored, Workflow

LEMMA ScoredPast ==
    ASSUME NEW w \in Workflow, NEW capture \in {"captured", "blocked"}, NEW n \in Nat,
           Exists(w), w.status \notin TerminalStatus
    PROVE  Past(w, Scored(w, capture, n))
  <1> DEFINE new == Scored(w, capture, n)
  <1>1. Len(w.stages) \in Nat
    BY DEF Workflow
  <1>2. new.status = "scored" /\ new.stages = w.stages
    BY ScoredShape
  <1> HIDE DEF new
  <1>3. Closed(w) = 0 /\ Closed(new) = 1 /\ Exists(new)
    BY <1>2 DEF Closed, Exists, TerminalStatus
  <1>4. Rank(w) < Rank(new)
    BY <1>1, <1>2, <1>3 DEF Rank
  <1> QED
    BY <1>4 DEF Past, new

-----------------------------------------------------------------------------
(***************************************************************************)
(* What the requests in flight and the published cases know of the rows.   *)
(***************************************************************************)
\* A start that has built its candidate.
Plotting(k) == k.pc = "write" /\ k.request.kind = "start" /\ k.candidate # None

\* The identity it drew belongs to no row yet.
DrawnIsFree(k, table) ==
    Plotting(k) =>
        /\ k.candidate.id \in Workflows
        /\ ~Exists(table[k.candidate.id])
        /\ \E m \in SUBSET Runs, t \in PlanTimes :
              k.candidate.row = Planned(k.request.run, m, t)

\* The rows a score has read are revisions of its workflow, in the order read.
ReadInOrder(k, table) ==
    /\ k.pc = "score" =>
          /\ k.request.kind = "score" /\ k.snapshot \in Workflow
          /\ Past(k.snapshot, table[k.request.workflow])
    /\ k.pc = "write" /\ k.request.kind = "score" =>
          /\ k.snapshot \in Workflow /\ k.candidate.row \in Workflow
          /\ Past(k.snapshot, k.candidate.row)
          /\ Past(k.candidate.row, table[k.request.workflow])
          /\ Len(k.candidate.row.stages) = 3
          /\ k.candidate.row.status \notin TerminalStatus

\* A case names an open or a scored workflow, never an abandoned one.
NamesLive(case) ==
    case.active # None =>
        case.workflows[case.active].status \in ActiveStatus \cup {"scored"}

BuiltNamesLive(k) == k.pc = "write" /\ k.request.kind = "get" => NamesLive(k.built)

Informed(k, table) == DrawnIsFree(k, table) /\ ReadInOrder(k, table) /\ BuiltNamesLive(k)

RevisionsNameLive ==
    \A run \in CaseRuns : \A i \in DOMAIN revisions[run] : NamesLive(revisions[run][i].sha)

DrawnApart ==
    \A c, d \in Clients :
        /\ Plotting(clients[c]) /\ Plotting(clients[d])
        /\ clients[c].candidate.id = clients[d].candidate.id
        => c = d

WInv ==
    /\ \A c \in Clients : Informed(clients[c], workflows)
    /\ DrawnApart
    /\ RevisionsNameLive

\* Every projection names a live workflow, whatever it is a projection of.
LEMMA ProjectNames ==
    ASSUME NEW run, NEW objective, NEW m, NEW e, NEW table, NEW stated, NEW learned
    PROVE  NamesLive(Project(run, objective, m, e, table, stated, learned))
  <1> DEFINE touching == {id \in Related(m, table) : run \in Occupied(table[id])}
             open == {id \in touching : Active(table[id])}
             scored == {id \in touching : table[id].status = "scored"}
             last == {id \in scored : \A other \in scored :
                                          table[other].ordinal <= table[id].ordinal}
             named == NamedWorkflow(run, m, e, table)
  <1>1. \A id \in open : table[id].status \in ActiveStatus
    BY DEF Active
  <1>2. \A id \in last : table[id].status = "scored"
    OBVIOUS
  <1>3. open # {} => (CHOOSE id \in open : TRUE) \in open
    OBVIOUS
  <1>4. last # {} => (CHOOSE id \in last : TRUE) \in last
    OBVIOUS
  <1>5. Selected(run, m, table) =
            IF open # {} THEN CHOOSE id \in open : TRUE
            ELSE IF last # {} THEN CHOOSE id \in last : TRUE
            ELSE None
    BY DEF Selected
  <1> HIDE DEF open, last
  <1>6. Selected(run, m, table) \in open \cup last \cup {None}
    BY <1>3, <1>4, <1>5
  <1>7. named \in open \cup last \cup {None}
    BY <1>6 DEF NamedWorkflow
  <1>8. named # None => table[named].status \in ActiveStatus \cup {"scored"}
    BY <1>1, <1>2, <1>7
  <1>9. /\ Project(run, objective, m, e, table, stated, learned).active = named
        /\ Project(run, objective, m, e, table, stated, learned).workflows = table
    BY DEF Project
  <1> QED
    BY <1>8, <1>9 DEF NamesLive

\* Publishing a projection keeps that true of the log.
LEMMA PublishNames ==
    ASSUME TypeOK, RevisionsNameLive, NEW run \in CaseRuns, NEW case, NEW category,
           Publish(run, case, category), NamesLive(case)
    PROVE  RevisionsNameLive'
  <1>1. /\ \A other \in CaseRuns \ {run} : revisions'[other] = revisions[other]
        /\ Len(revisions[run]) \in Nat
        /\ DOMAIN revisions[run] = 1 .. Len(revisions[run])
        /\ DOMAIN revisions'[run] = 1 .. Len(revisions[run]) + 1
        /\ \A i \in DOMAIN revisions[run] : revisions'[run][i] = revisions[run][i]
        /\ revisions'[run][Len(revisions[run]) + 1].sha = case
    BY AppendShape
  <1>2. \A n \in Nat : \A i \in 1 .. n + 1 : i \in 1 .. n \/ i = n + 1
    OBVIOUS
  <1>3. \A i \in DOMAIN revisions'[run] : NamesLive(revisions'[run][i].sha)
    BY <1>1, <1>2 DEF RevisionsNameLive
  <1>4. \A other \in CaseRuns \ {run} : \A i \in DOMAIN revisions'[other] :
            NamesLive(revisions'[other][i].sha)
    BY <1>1 DEF RevisionsNameLive
  <1> QED
    BY <1>3, <1>4 DEF RevisionsNameLive

LEMMA HeadNames ==
    ASSUME TypeOK, RevisionsNameLive, NEW run \in CaseRuns, HeadSha(run) # None
    PROVE  NamesLive(HeadSha(run))
  <1>1. revisions[run] \in Seq(Revision) /\ revisions[run] # <<>>
    BY DEF TypeOK, HeadSha
  <1>2. Len(revisions[run]) \in DOMAIN revisions[run]
    BY <1>1
  <1>3. HeadSha(run) = revisions[run][Len(revisions[run])].sha
    BY <1>1 DEF HeadSha
  <1> QED
    BY <1>2, <1>3 DEF RevisionsNameLive

-----------------------------------------------------------------------------
(***************************************************************************)
(* A step, as the table sees it.  A decision is receipted for a request    *)
(* that had no receipt.                                                    *)
(***************************************************************************)
Decided(q, id) ==
    /\ RequestOK(q)
    /\ ~HasReceipt(q)
    /\ \E case, row : SaveReceipt(q, case, id, row)

Rests ==
    /\ UNCHANGED <<workflows, ledger>>
    /\ \/ receipts' = receipts
       \/ \E q : q.kind = "start" /\ Decided(q, None)

Plans(q, id) ==
    /\ q.kind = "start" /\ Decided(q, id)
    /\ id \in Workflows /\ ~Exists(workflows[id])
    /\ SlotFree(workflows, None, ScopeOf({q.run}, members))
    /\ \E m \in SUBSET Runs, t \in PlanTimes :
          workflows' = [workflows EXCEPT ![id] = Planned(q.run, m, t)]
    /\ ledger' = ledger

Records(q) ==
    /\ q.kind = "stage" /\ Decided(q, q.workflow)
    /\ CanAttach(workflows, q.workflow, q.stage, q.recording, members)
    /\ workflows' = StageTable(q)
    /\ ledger' = ledger

Abandons(q) ==
    /\ q.kind = "cancel" /\ Decided(q, q.workflow)
    /\ Active(workflows[q.workflow])
    /\ workflows' = CancelTable(q)
    /\ ledger' = ledger

Scores(q) ==
    /\ q.kind = "score" /\ Decided(q, q.workflow)
    /\ Exists(workflows[q.workflow]) /\ ~workflows[q.workflow].bound
    /\ workflows[q.workflow].status \notin TerminalStatus
    /\ Len(workflows[q.workflow].stages) = 3
    /\ workflows' = ScoreTable(q, workflows[q.workflow])
    /\ ledger' = ScoreLedger(q)

Changes(q) == Records(q) \/ Abandons(q) \/ Scores(q)

TableStep ==
    \/ Rests
    \/ \E q, id : Plans(q, id)
    \/ \E q : Changes(q)

\* A change is to one row, which was there before and moves forward.
LEMMA ChangeShape ==
    ASSUME TypeOK, NEW q, Changes(q)
    PROVE  /\ q.workflow \in Workflows
           /\ Exists(workflows[q.workflow])
           /\ workflows[q.workflow].status \notin TerminalStatus
           /\ Past(workflows[q.workflow], workflows'[q.workflow])
           /\ workflows'[q.workflow].source = workflows[q.workflow].source
           /\ workflows'[q.workflow].bound = workflows[q.workflow].bound
           /\ \A id \in Workflows \ {q.workflow} : workflows'[id] = workflows[id]
  <1>1. RequestOK(q) /\ q.kind \in {"stage", "cancel", "score"}
    BY DEF Changes, Records, Abandons, Scores, Decided
  <1>2. q.workflow \in Workflows
    BY <1>1 DEF RequestOK
  <1>3. workflows \in [Workflows -> Workflow] /\ workflows[q.workflow] \in Workflow
    BY <1>2 DEF TypeOK
  <1> DEFINE w == workflows[q.workflow]
  <1>4. CASE Records(q)
    <2>1. /\ q.stage = NextStage(w) /\ Active(w)
          /\ workflows' = [workflows EXCEPT ![q.workflow] = Attached(w, q.recording)]
      BY <1>3, <1>4 DEF Records, CanAttach, StageTable
    <2>2. q.stage \in {"A", "B", "A2"} /\ q.recording \in Runs
      BY <1>1, <1>4 DEF RequestOK, Records
    <2>3. /\ Past(w, Attached(w, q.recording))
          /\ Attached(w, q.recording).source = w.source
          /\ Attached(w, q.recording).bound = w.bound
      BY <1>3, <2>1, <2>2, AttachedPast, AttachedShape
    <2>4. Exists(w) /\ w.status \notin TerminalStatus
      BY <2>1 DEF Active, ActiveStatus, Exists, TerminalStatus
    <2> QED
      BY <1>2, <1>3, <2>1, <2>3, <2>4
  <1>5. CASE Abandons(q)
    <2>1. /\ Active(w)
          /\ workflows' = [workflows EXCEPT ![q.workflow] = Cancelled(w)]
      BY <1>3, <1>5 DEF Abandons, CancelTable
    <2>2. /\ Past(w, Cancelled(w))
          /\ Cancelled(w).source = w.source /\ Cancelled(w).bound = w.bound
      BY <1>3, <2>1, CancelledPast, CancelledShape
    <2>3. Exists(w) /\ w.status \notin TerminalStatus
      BY <2>1 DEF Active, ActiveStatus, Exists, TerminalStatus
    <2> QED
      BY <1>2, <1>3, <2>1, <2>2, <2>3
  <1>6. CASE Scores(q)
    <2> DEFINE capture == IF ledgerSound THEN "captured" ELSE "blocked"
               n == ScoredCount(workflows) + 1
    <2>1. /\ Exists(w) /\ w.status \notin TerminalStatus
          /\ workflows' = [workflows EXCEPT ![q.workflow] = Scored(w, capture, n)]
      BY <1>3, <1>6 DEF Scores, ScoreTable
    <2>2. capture \in {"captured", "blocked"} /\ n \in Nat
      BY <1>3, ScoredCountType
    <2> HIDE DEF capture, n
    <2>3. /\ Past(w, Scored(w, capture, n))
          /\ Scored(w, capture, n).source = w.source /\ Scored(w, capture, n).bound = w.bound
      BY <1>3, <2>1, <2>2, ScoredPast, ScoredShape
    <2> QED
      BY <1>2, <1>3, <2>1, <2>3
  <1> QED
    BY <1>4, <1>5, <1>6 DEF Changes

\* A plan fills a row that was not there.
LEMMA PlanShape ==
    ASSUME TypeOK, NEW q, NEW id, Plans(q, id)
    PROVE  /\ id \in Workflows /\ q.run \in CaseRuns
           /\ workflows'[id].status = "planned"
           /\ workflows'[id].stages = <<>>
           /\ workflows'[id].source = q.run
           /\ workflows'[id].bound = TRUE
           /\ workflows'[id].capture = "not_applicable"
           /\ Past(workflows[id], workflows'[id])
           /\ \A other \in Workflows \ {id} : workflows'[other] = workflows[other]
  <1>1. id \in Workflows /\ ~Exists(workflows[id]) /\ RequestOK(q)
    BY DEF Plans, Decided
  <1>2. q.run \in CaseRuns
    BY <1>1 DEF RequestOK
  <1>3. PICK m \in SUBSET Runs, t \in PlanTimes :
            workflows' = [workflows EXCEPT ![id] = Planned(q.run, m, t)]
    BY DEF Plans
  <1> DEFINE plan == Planned(q.run, m, t)
  <1>4. /\ plan \in Workflow
        /\ plan.status = "planned"
        /\ plan.source = q.run
        /\ plan.stages = <<>>
        /\ plan.bound = TRUE
        /\ plan.capture = "not_applicable"
    BY <1>2, PlannedShape
  <1> HIDE DEF plan
  <1>5. /\ workflows'[id] = plan
        /\ \A other \in Workflows \ {id} : workflows'[other] = workflows[other]
    BY <1>1, <1>3 DEF TypeOK, plan
  <1>6. Rank(workflows[id]) = 0
    BY <1>1 DEF Rank
  <1>7. Rank(plan) = 1
    BY <1>4 DEF Rank, Closed, Exists, TerminalStatus
  <1> QED
    BY <1>1, <1>2, <1>4, <1>5, <1>6, <1>7 DEF Past

\* Rows only move forward, and only a plan makes one.
LEMMA TableGrows ==
    ASSUME TypeOK, TableStep
    PROVE  \A id \in Workflows : Past(workflows[id], workflows'[id])
  <1>1. CASE Rests
    BY <1>1 DEF Rests, Past
  <1>2. CASE \E q, id : Plans(q, id)
    BY <1>2, PlanShape DEF Past
  <1>3. CASE \E q : Changes(q)
    BY <1>3, ChangeShape DEF Past
  <1> QED
    BY <1>1, <1>2, <1>3 DEF TableStep

-----------------------------------------------------------------------------
(***************************************************************************)
(* WInv is kept.  A client that holds nothing of a row needs no care, and  *)
(* what another client holds stays true as the rows move forward.          *)
(***************************************************************************)
Light(k) ==
    /\ k.pc # "score"
    /\ k.pc = "write" => k.request.kind \in {"intent", "stage", "cancel"}

LEMMA LightInformed ==
    ASSUME NEW k, NEW table, Light(k)
    PROVE  Informed(k, table) /\ ~Plotting(k)
  BY DEF Light, Informed, DrawnIsFree, ReadInOrder, BuiltNamesLive, Plotting

LEMMA StaysInformed ==
    ASSUME NEW k, NEW old \in [Workflows -> Workflow], NEW new \in [Workflows -> Workflow],
           k.pc \in {"score", "write"} /\ k.request.kind = "score"
               => k.request.workflow \in Workflows,
           Informed(k, old),
           \A id \in Workflows : Past(old[id], new[id]),
           Plotting(k) => ~Exists(new[k.candidate.id])
    PROVE  Informed(k, new)
  <1>1. DrawnIsFree(k, new)
    BY DEF Informed, DrawnIsFree
  <1>2. ReadInOrder(k, new)
    <2>1. CASE k.pc = "score"
      <3>1. /\ k.request.kind = "score" /\ k.snapshot \in Workflow
            /\ Past(k.snapshot, old[k.request.workflow])
        BY <2>1 DEF Informed, ReadInOrder
      <3>2. Past(k.snapshot, new[k.request.workflow])
        BY <2>1, <3>1, PastTransitive
      <3> QED
        BY <2>1, <3>1, <3>2 DEF ReadInOrder
    <2>2. CASE k.pc = "write" /\ k.request.kind = "score"
      <3>1. /\ k.candidate.row \in Workflow
            /\ Past(k.candidate.row, old[k.request.workflow])
        BY <2>2 DEF Informed, ReadInOrder
      <3>2. Past(k.candidate.row, new[k.request.workflow])
        BY <2>2, <3>1, PastTransitive
      <3> QED
        BY <2>2, <3>2 DEF Informed, ReadInOrder
    <2> QED
      BY <2>1, <2>2 DEF ReadInOrder
  <1> QED
    BY <1>1, <1>2 DEF Informed

LEMMA KnowsStill ==
    ASSUME TypeOK, TypeOK', WInv, TableStep, NEW c \in Clients,
           \A d \in Clients \ {c} : clients'[d] = clients[d],
           Informed(clients'[c], workflows'),
           Plotting(clients'[c]) =>
               \A d \in Clients \ {c} :
                   Plotting(clients[d]) =>
                       clients[d].candidate.id # clients'[c].candidate.id,
           \A d \in Clients \ {c} :
               Plotting(clients[d]) => ~Exists(workflows'[clients[d].candidate.id]),
           RevisionsNameLive'
    PROVE  WInv'
  <1>1. \A d \in Clients \ {c} : Informed(clients'[d], workflows')
    <2> SUFFICES ASSUME NEW d \in Clients \ {c}
                 PROVE  Informed(clients[d], workflows')
      OBVIOUS
    <2>1. workflows \in [Workflows -> Workflow] /\ workflows' \in [Workflows -> Workflow]
      BY DEF TypeOK
    <2>2. Informed(clients[d], workflows)
      BY DEF WInv
    <2>3. clients[d].pc \in {"score", "write"} /\ clients[d].request.kind = "score"
              => clients[d].request.workflow \in Workflows
      BY DEF TypeOK, ClientOK, Resting, RequestOK
    <2>4. \A id \in Workflows : Past(workflows[id], workflows'[id])
      BY TableGrows
    <2> QED
      BY <2>1, <2>2, <2>3, <2>4, StaysInformed
  <1>2. DrawnApart'
    BY DEF WInv, DrawnApart
  <1> QED
    BY <1>1, <1>2 DEF WInv

\* Identities drawn by others are still free after a step that plans nothing.
LEMMA DrawnStayFree ==
    ASSUME TypeOK, WInv, NEW c \in Clients, Rests \/ \E q : Changes(q)
    PROVE  \A d \in Clients \ {c} :
               Plotting(clients[d]) => ~Exists(workflows'[clients[d].candidate.id])
  <1> SUFFICES ASSUME NEW d \in Clients, Plotting(clients[d])
               PROVE  ~Exists(workflows'[clients[d].candidate.id])
    OBVIOUS
  <1>1. clients[d].candidate.id \in Workflows /\ ~Exists(workflows[clients[d].candidate.id])
    BY DEF WInv, Informed, DrawnIsFree
  <1>2. CASE Rests
    BY <1>1, <1>2 DEF Rests
  <1>3. CASE \E q : Changes(q)
    BY <1>1, <1>3, ChangeShape
  <1> QED
    BY <1>2, <1>3

\* A client that moves on without changing the tables, to a line where it holds
\* nothing of a row.
LEMMA QuietKnows ==
    ASSUME TypeOK, TypeOK', WInv, NEW c \in Clients,
           \A d \in Clients \ {c} : clients'[d] = clients[d],
           Light(clients'[c]),
           UNCHANGED <<workflows, ledger, receipts>>,
           RevisionsNameLive'
    PROVE  WInv' /\ TableStep
  <1>1. Rests /\ TableStep
    BY DEF Rests, TableStep
  <1>2. Informed(clients'[c], workflows') /\ ~Plotting(clients'[c])
    BY LightInformed
  <1>3. \A d \in Clients \ {c} :
            Plotting(clients[d]) => ~Exists(workflows'[clients[d].candidate.id])
    BY <1>1, DrawnStayFree
  <1> QED
    BY <1>1, <1>2, <1>3, KnowsStill

LEMMA ReplyMoves ==
    ASSUME TypeOK, NEW c \in Clients, NEW answer \in Resting, NEW case,
           Reply(c, answer, case)
    PROVE  /\ \A d \in Clients \ {c} : clients'[d] = clients[d]
           /\ clients'[c].pc = answer
           /\ Light(clients'[c])
  <1>1. PICK view : clients' = [clients EXCEPT ![c] =
                [pc |-> answer, request |-> None, snapshot |-> None, built |-> None,
                 candidate |-> None, view |-> view]]
    BY DEF Reply
  <1>2. /\ \A d \in Clients \ {c} : clients'[d] = clients[d]
        /\ clients'[c].pc = answer
    BY <1>1 DEF TypeOK
  <1> QED
    BY <1>2 DEF Light, Resting

\* A handler that answers and leaves the tables alone.
LEMMA AnswerKnows ==
    ASSUME TypeOK, TypeOK', WInv, NEW c \in Clients, NEW answer \in Resting, NEW case,
           Reply(c, answer, case),
           UNCHANGED <<workflows, ledger, receipts, revisions>>
    PROVE  WInv' /\ TableStep
  <1>1. RevisionsNameLive'
    BY DEF WInv, RevisionsNameLive
  <1> QED
    BY <1>1, ReplyMoves, QuietKnows

LEMMA RefuseKnows ==
    ASSUME TypeOK, TypeOK', WInv, NEW c \in Clients, Refuse(c)
    PROVE  WInv' /\ TableStep
  <1>1. /\ Reply(c, "refused", None) /\ "refused" \in Resting
        /\ UNCHANGED <<workflows, ledger, receipts, revisions>>
    BY DEF Refuse, store, Resting
  <1> QED
    BY <1>1, AnswerKnows

-----------------------------------------------------------------------------
(***************************************************************************)
(* The handlers, one by one.                                               *)
(***************************************************************************)
LEMMA SendKnows ==
    ASSUME TypeOK, TypeOK', WInv, NEW c \in Clients, Send(c)
    PROVE  WInv' /\ TableStep
  <1>0. PICK run \in CaseRuns : \E q \in RequestsFor(run, clients[c].view[run]) :
            clients' = [clients EXCEPT ![c].pc = "read", ![c].request = q]
    BY DEF Send
  <1>1. PICK q \in RequestsFor(run, clients[c].view[run]) :
            clients' = [clients EXCEPT ![c].pc = "read", ![c].request = q]
    BY <1>0
  <1>2. /\ \A d \in Clients \ {c} : clients'[d] = clients[d]
        /\ clients'[c].pc = "read"
    BY <1>1 DEF TypeOK, ClientOK
  <1>3. Light(clients'[c])
    BY <1>2 DEF Light
  <1>4. UNCHANGED <<workflows, ledger, receipts, revisions>>
    BY DEF Send, store
  <1>5. RevisionsNameLive'
    BY <1>4 DEF WInv, RevisionsNameLive
  <1> QED
    BY <1>2, <1>3, <1>4, <1>5, QuietKnows

\* Taking a bundle, before any merge.
LEMMA BundleKnows ==
    ASSUME TypeOK, TypeOK', WInv, NEW c \in Clients, NEW objective,
           TakeBundle(c, objective),
           UNCHANGED <<store, environment, sends>>
    PROVE  WInv' /\ TableStep
  <1>1. /\ \A d \in Clients \ {c} : clients'[d] = clients[d]
        /\ clients'[c].pc = "merge"
    BY DEF TakeBundle, TypeOK, ClientOK
  <1>2. Light(clients'[c])
    BY <1>1 DEF Light
  <1>3. UNCHANGED <<workflows, ledger, receipts, revisions>>
    BY DEF store
  <1>4. RevisionsNameLive'
    BY <1>3 DEF WInv, RevisionsNameLive
  <1> QED
    BY <1>1, <1>2, <1>3, <1>4, QuietKnows

LEMMA GetReadKnows ==
    ASSUME TypeOK, TypeOK', WInv, NEW c \in Clients, GetRead(c) \/ IntentRead(c)
    PROVE  WInv' /\ TableStep
  <1>1. \/ Refuse(c)
        \/ \E objective : TakeBundle(c, objective) /\ UNCHANGED <<store, environment, sends>>
    BY DEF GetRead, IntentRead
  <1> QED
    BY <1>1, RefuseKnows, BundleKnows

\* What a read builds is a projection, so it names a live workflow.
LEMMA GetMergeKnows ==
    ASSUME TypeOK, TypeOK', WInv, NEW c \in Clients, GetMerge(c)
    PROVE  WInv' /\ TableStep
  <1> DEFINE run == clients[c].request.run
             b == clients[c].snapshot
  <1>1. CASE Refuse(c)
    BY <1>1, RefuseKnows
  <1>2. CASE /\ clients' = [clients EXCEPT ![c].pc = "write", ![c].snapshot = None,
                                           ![c].built = Merged(run, b)]
             /\ UNCHANGED <<store, environment, sends>>
    <2>1. /\ \A d \in Clients \ {c} : clients'[d] = clients[d]
          /\ clients'[c].pc = "write" /\ clients'[c].request = clients[c].request
          /\ clients'[c].built = Merged(run, b)
      BY <1>2 DEF TypeOK, ClientOK
    <2>2. clients[c].request.kind = "get"
      BY DEF GetMerge, At
    <2>3. NamesLive(clients'[c].built)
      BY <2>1, ProjectNames DEF Merged
    <2>4. Informed(clients'[c], workflows') /\ ~Plotting(clients'[c])
      BY <2>1, <2>2, <2>3
         DEF Informed, DrawnIsFree, ReadInOrder, BuiltNamesLive, Plotting
    <2>5. UNCHANGED <<workflows, ledger, receipts, revisions>>
      BY <1>2 DEF store
    <2>6. Rests /\ TableStep /\ RevisionsNameLive'
      BY <2>5 DEF Rests, TableStep, WInv, RevisionsNameLive
    <2>7. \A d \in Clients \ {c} :
              Plotting(clients[d]) => ~Exists(workflows'[clients[d].candidate.id])
      BY <2>6, DrawnStayFree
    <2> QED
      BY <2>1, <2>4, <2>6, <2>7, KnowsStill
  <1> QED
    BY <1>1, <1>2 DEF GetMerge

LEMMA GetWriteKnows ==
    ASSUME TypeOK, TypeOK', WInv, NEW c \in Clients, GetWrite(c)
    PROVE  WInv' /\ TableStep
  <1> DEFINE q == clients[c].request
             case == clients[c].built
             answer == IF q.expected \in {None, case} THEN "ok" ELSE "refused"
  <1>1. q.run \in CaseRuns /\ NamesLive(case)
    BY DEF GetWrite, At, TypeOK, ClientOK, Resting, RequestOK, WInv, Informed,
           BuiltNamesLive
  <1>2. answer \in Resting /\ "collision" \in Resting
    BY DEF Resting
  <1>3. /\ \E held : Reply(c, answer, held) \/ Reply(c, "collision", held)
        /\ \/ UNCHANGED revisions
           \/ Publish(q.run, case, "rebuild")
        /\ UNCHANGED <<workflows, ledger, receipts>>
    BY DEF GetWrite, store
  <1>4. /\ \A d \in Clients \ {c} : clients'[d] = clients[d]
        /\ Light(clients'[c])
    BY <1>2, <1>3, ReplyMoves
  <1>5. CASE UNCHANGED revisions
    <2>1. RevisionsNameLive'
      BY <1>5 DEF WInv, RevisionsNameLive
    <2> QED
      BY <1>3, <1>4, <2>1, QuietKnows
  <1>6. CASE Publish(q.run, case, "rebuild")
    <2>1. RevisionsNameLive'
      BY <1>1, <1>6, PublishNames DEF WInv
    <2> QED
      BY <1>3, <1>4, <2>1, QuietKnows
  <1> QED
    BY <1>3, <1>5, <1>6

LEMMA IntentMergeKnows ==
    ASSUME TypeOK, TypeOK', WInv, NEW c \in Clients, IntentMerge(c)
    PROVE  WInv' /\ TableStep
  <1>1. CASE Refuse(c)
    BY <1>1, RefuseKnows
  <1>2. CASE /\ clients' = [clients EXCEPT ![c].pc = "write", ![c].snapshot = None]
             /\ UNCHANGED <<store, environment, sends>>
    <2>1. /\ \A d \in Clients \ {c} : clients'[d] = clients[d]
          /\ clients'[c].pc = "write" /\ clients'[c].request = clients[c].request
      BY <1>2 DEF TypeOK, ClientOK
    <2>2. Light(clients'[c])
      BY <2>1 DEF Light, IntentMerge, At
    <2>3. UNCHANGED <<workflows, ledger, receipts, revisions>>
      BY <1>2 DEF store
    <2>4. RevisionsNameLive'
      BY <2>3 DEF WInv, RevisionsNameLive
    <2> QED
      BY <2>1, <2>2, <2>3, <2>4, QuietKnows
  <1> QED
    BY <1>1, <1>2 DEF IntentMerge

LEMMA IntentWriteKnows ==
    ASSUME TypeOK, TypeOK', WInv, NEW c \in Clients, IntentWrite(c)
    PROVE  WInv' /\ TableStep
  <1> DEFINE q == clients[c].request
  <1>1. q.run \in CaseRuns
    BY DEF IntentWrite, At, TypeOK, ClientOK, Resting, RequestOK
  <1>2. /\ Publish(q.run, IntentCase(q), "driver_intent")
        /\ Reply(c, "ok", IntentCase(q)) /\ "ok" \in Resting
        /\ UNCHANGED <<workflows, ledger, receipts>>
    BY DEF IntentWrite, Resting
  <1>3. NamesLive(IntentCase(q))
    BY ProjectNames DEF IntentCase, Rebuilt
  <1>4. RevisionsNameLive'
    BY <1>1, <1>2, <1>3, PublishNames DEF WInv
  <1> QED
    BY <1>2, <1>4, ReplyMoves, QuietKnows

\* The identity a start draws is free, and nobody else has drawn it.
LEMMA StartMergeKnows ==
    ASSUME TypeOK, TypeOK', WInv, NEW c \in Clients, StartMerge(c)
    PROVE  WInv' /\ TableStep
  <1> DEFINE q == clients[c].request
  <1>1. CASE Refuse(c)
    BY <1>1, RefuseKnows
  <1>2. CASE /\ \E candidate \in Candidates(q.run) :
                   clients' = [clients EXCEPT ![c].pc = "write", ![c].snapshot = None,
                                              ![c].candidate = candidate]
             /\ UNCHANGED <<store, environment, sends>>
    <2>1. PICK candidate \in Candidates(q.run) :
              clients' = [clients EXCEPT ![c].pc = "write", ![c].snapshot = None,
                                         ![c].candidate = candidate]
      BY <1>2
    <2>2. /\ \A d \in Clients \ {c} : clients'[d] = clients[d]
          /\ clients'[c].pc = "write" /\ clients'[c].request = q
          /\ clients'[c].candidate = candidate
      BY <2>1 DEF TypeOK, ClientOK
    <2>3. q.kind = "start"
      BY DEF StartMerge, At
    <2>4. UNCHANGED <<workflows, ledger, receipts, revisions>>
      BY <1>2 DEF store
    <2>5. candidate # None =>
            /\ candidate.id \in FreshIds
            /\ \E t \in PlanTimes : candidate.row = Planned(q.run, members, t)
      <3> DEFINE drawn == CHOOSE id \in FreshIds : TRUE
      <3>1. SUFFICES ASSUME candidate # None
                     PROVE  /\ candidate.id \in FreshIds
                            /\ \E t \in PlanTimes : candidate.row = Planned(q.run, members, t)
        OBVIOUS
      <3>2. PICK t \in PlanTimes : /\ candidate = [id |-> drawn, row |-> Planned(q.run, members, t)]
                                   /\ FreshIds # {}
        BY <3>1 DEF Candidates
      <3>3. drawn \in FreshIds
        BY <3>2
      <3> QED
        BY <3>2, <3>3
    <2>6. candidate # None =>
            /\ candidate.id \in Workflows
            /\ ~Exists(workflows[candidate.id])
            /\ \A d \in Clients : clients[d].candidate = None
                                   \/ clients[d].candidate.id # candidate.id
      BY <2>5 DEF FreshIds
    <2>7. DrawnIsFree(clients'[c], workflows')
      <3>1. members \in SUBSET Runs
        BY DEF TypeOK
      <3>2. candidate # None =>
              \E m \in SUBSET Runs, t \in PlanTimes : candidate.row = Planned(q.run, m, t)
        BY <2>5, <3>1
      <3> QED
        BY <2>2, <2>4, <2>6, <3>2 DEF DrawnIsFree, Plotting
    <2>8. Informed(clients'[c], workflows')
      BY <2>2, <2>3, <2>7 DEF Informed, ReadInOrder, BuiltNamesLive
    <2>9. Plotting(clients'[c]) =>
            \A d \in Clients \ {c} :
                Plotting(clients[d]) => clients[d].candidate.id # clients'[c].candidate.id
      BY <2>2, <2>6 DEF Plotting
    <2>10. Rests /\ TableStep /\ RevisionsNameLive'
      BY <2>4 DEF Rests, TableStep, WInv, RevisionsNameLive
    <2>11. \A d \in Clients \ {c} :
              Plotting(clients[d]) => ~Exists(workflows'[clients[d].candidate.id])
      BY <2>10, DrawnStayFree
    <2> QED
      BY <2>2, <2>8, <2>9, <2>10, <2>11, KnowsStill
  <1> QED
    BY <1>1, <1>2 DEF StartMerge

\* A start that wins plans the row it has drawn; without a candidate it only
\* states the intent.
LEMMA StartWriteKnows ==
    ASSUME TypeOK, TypeOK', WInv, NEW c \in Clients, StartWrite(c)
    PROVE  WInv' /\ TableStep
  <1> DEFINE q == clients[c].request
             new == clients[c].candidate
             case == StartCase(q, new)
  <1>1. RequestOK(q) /\ clients[c].pc = "write" /\ q.kind = "start"
    BY DEF StartWrite, At, TypeOK, ClientOK, Resting
  <1>2. q.run \in CaseRuns
    BY <1>1 DEF RequestOK
  <1>3. /\ ~HasReceipt(q)
        /\ StartAccepts(q, new)
        /\ workflows' = StartTable(new)
        /\ \E category : Publish(q.run, case, category)
        /\ SaveReceipt(q, case, IF new = None THEN None ELSE new.id,
                                IF new = None THEN None ELSE new.row)
        /\ clients' = [clients EXCEPT ![c].pc = "recover", ![c].candidate = None]
        /\ UNCHANGED <<ledger, environment, sends>>
    BY DEF StartWrite
  <1>4. /\ \A d \in Clients \ {c} : clients'[d] = clients[d]
        /\ clients'[c].pc = "recover"
    BY <1>3 DEF TypeOK, ClientOK
  <1>5. Light(clients'[c])
    BY <1>4 DEF Light
  <1>6. Informed(clients'[c], workflows') /\ ~Plotting(clients'[c])
    BY <1>5, LightInformed
  <1>7. NamesLive(case)
    BY ProjectNames DEF StartCase, Rebuilt
  <1>8. RevisionsNameLive'
    BY <1>2, <1>3, <1>7, PublishNames DEF WInv
  <1>9. CASE new = None
    <2>1. Decided(q, None)
      BY <1>1, <1>3, <1>9 DEF Decided
    <2>2. UNCHANGED <<workflows, ledger>>
      BY <1>3, <1>9 DEF StartTable
    <2>3. Rests /\ TableStep
      BY <1>1, <2>1, <2>2 DEF Rests, TableStep
    <2>4. \A d \in Clients \ {c} :
              Plotting(clients[d]) => ~Exists(workflows'[clients[d].candidate.id])
      BY <2>3, DrawnStayFree
    <2> QED
      BY <1>4, <1>6, <1>8, <2>3, <2>4, KnowsStill
  <1>10. CASE new # None
    <2>1. Plotting(clients[c])
      BY <1>1, <1>10 DEF Plotting
    <2>2. /\ new.id \in Workflows /\ ~Exists(workflows[new.id])
          /\ \E m \in SUBSET Runs, t \in PlanTimes : new.row = Planned(q.run, m, t)
      BY <2>1 DEF WInv, Informed, DrawnIsFree
    <2>3. SlotFree(workflows, None, ScopeOf({q.run}, members))
      BY <1>3, <1>10 DEF StartAccepts
    <2>4. workflows' = [workflows EXCEPT ![new.id] = new.row]
      BY <1>3, <1>10 DEF StartTable
    <2>5. Decided(q, new.id)
      BY <1>1, <1>3, <1>10 DEF Decided
    <2>6. Plans(q, new.id)
      <3> HIDE DEF q, new
      <3> QED
        BY <1>1, <1>3, <2>2, <2>3, <2>4, <2>5 DEF Plans
    <2>7. TableStep
      BY <2>6 DEF TableStep
    <2>8. \A other \in Workflows \ {new.id} : workflows'[other] = workflows[other]
      BY <2>4 DEF TypeOK
    <2>9. \A d \in Clients \ {c} :
              Plotting(clients[d]) => ~Exists(workflows'[clients[d].candidate.id])
      <3> SUFFICES ASSUME NEW d \in Clients \ {c}, Plotting(clients[d])
                   PROVE  ~Exists(workflows'[clients[d].candidate.id])
        OBVIOUS
      <3>1. /\ clients[d].candidate.id \in Workflows
            /\ ~Exists(workflows[clients[d].candidate.id])
        BY DEF WInv, Informed, DrawnIsFree
      <3>2. clients[d].candidate.id # new.id
        BY <2>1 DEF WInv, DrawnApart
      <3>3. workflows'[clients[d].candidate.id] = workflows[clients[d].candidate.id]
        BY <2>8, <3>1, <3>2
      <3> QED
        BY <3>1, <3>3
    <2> QED
      BY <1>4, <1>6, <1>8, <2>7, <2>9, KnowsStill
  <1> QED
    BY <1>9, <1>10

LEMMA StartRecoverKnows ==
    ASSUME TypeOK, TypeOK', WInv, NEW c \in Clients, StartRecover(c)
    PROVE  WInv' /\ TableStep
  <1>1. /\ \E case : Reply(c, "ok", case) \/ Reply(c, "refused", case)
        /\ "ok" \in Resting /\ "refused" \in Resting
        /\ UNCHANGED <<workflows, ledger, receipts, revisions>>
    BY DEF StartRecover, store, Resting
  <1> QED
    BY <1>1, AnswerKnows

LEMMA ReplayKnows ==
    ASSUME TypeOK, TypeOK', WInv, NEW c \in Clients, Replay(c)
    PROVE  WInv' /\ TableStep
  <1>1. UNCHANGED <<workflows, ledger, receipts, revisions>>
    BY DEF Replay, store
  <1>2. CASE \E case : Reply(c, "ok", case)
    <2>1. "ok" \in Resting
      BY DEF Resting
    <2> QED
      BY <1>1, <1>2, <2>1, AnswerKnows
  <1>3. CASE clients' = [clients EXCEPT ![c].pc = "recover", ![c].candidate = None]
    <2>1. /\ \A d \in Clients \ {c} : clients'[d] = clients[d]
          /\ clients'[c].pc = "recover"
      BY <1>3 DEF TypeOK, ClientOK
    <2>2. Light(clients'[c]) /\ RevisionsNameLive'
      BY <1>1, <2>1 DEF Light, WInv, RevisionsNameLive
    <2> QED
      BY <1>1, <2>1, <2>2, QuietKnows
  <1> QED
    BY <1>2, <1>3 DEF Replay

LEMMA OpenTransactionKnows ==
    ASSUME TypeOK, TypeOK', WInv, NEW c \in Clients, OpenTransaction(c)
    PROVE  WInv' /\ TableStep
  <1>1. /\ \A d \in Clients \ {c} : clients'[d] = clients[d]
        /\ clients'[c].pc = "write" /\ clients'[c].request = clients[c].request
        /\ clients[c].request.kind \in {"stage", "cancel"}
    BY DEF OpenTransaction, At, TypeOK, ClientOK
  <1>2. UNCHANGED <<workflows, ledger, receipts, revisions>>
    BY DEF OpenTransaction, store
  <1>3. Light(clients'[c]) /\ RevisionsNameLive'
    BY <1>1, <1>2 DEF Light, WInv, RevisionsNameLive
  <1> QED
    BY <1>1, <1>2, <1>3, QuietKnows

\* The commit of a stage, a cancellation or a score: the change itself is what
\* the caller says it is, the rest is the same for the three.
LEMMA CommitKnows ==
    ASSUME TypeOK, TypeOK', WInv, NEW c \in Clients, NEW table, NEW learned, NEW category,
           CommitWorkflow(c, table, learned, category),
           RequestOK(clients[c].request),
           Changes(clients[c].request)
    PROVE  WInv' /\ TableStep
  <1> DEFINE q == clients[c].request
             case == WorkflowCase(q, table, learned)
  <1>1. /\ Publish(q.run, case, category)
        /\ Reply(c, "ok", case) /\ "ok" \in Resting
    BY DEF CommitWorkflow, Resting
  <1>2. /\ \A d \in Clients \ {c} : clients'[d] = clients[d]
        /\ Light(clients'[c])
    BY <1>1, ReplyMoves
  <1>3. Informed(clients'[c], workflows') /\ ~Plotting(clients'[c])
    BY <1>2, LightInformed
  <1>4. NamesLive(case) /\ q.run \in CaseRuns
    BY ProjectNames DEF WorkflowCase, Rebuilt, RequestOK
  <1>5. RevisionsNameLive'
    BY <1>1, <1>4, PublishNames DEF WInv
  <1>6. TableStep
    BY DEF TableStep
  <1>7. \A d \in Clients \ {c} :
            Plotting(clients[d]) => ~Exists(workflows'[clients[d].candidate.id])
    BY DrawnStayFree
  <1> QED
    BY <1>2, <1>3, <1>5, <1>6, <1>7, KnowsStill

LEMMA StageWriteKnows ==
    ASSUME TypeOK, TypeOK', WInv, NEW c \in Clients, StageWrite(c)
    PROVE  WInv' /\ TableStep
  <1> DEFINE q == clients[c].request
  <1>1. RequestOK(q) /\ q.kind = "stage"
    BY DEF StageWrite, At, TypeOK, ClientOK, Resting
  <1>2. /\ ~HasReceipt(q) /\ StageAccepts(q)
        /\ CommitWorkflow(c, StageTable(q), ledger, "workflow")
    BY DEF StageWrite
  <1>3. CanAttach(workflows, q.workflow, q.stage, q.recording, members)
    BY <1>2 DEF StageAccepts
  <1>4. /\ workflows' = StageTable(q) /\ ledger' = ledger
        /\ \E case, row : SaveReceipt(q, case, q.workflow, row)
    BY <1>2 DEF CommitWorkflow
  <1>5. Changes(q)
    <2> HIDE DEF q
    <2> QED
      BY <1>1, <1>2, <1>3, <1>4 DEF Changes, Records, Decided
  <1> QED
    BY <1>1, <1>2, <1>5, CommitKnows

\* Only an open workflow is abandoned: the head names it, in the revision the
\* table holds, and a head never names an abandoned one.
LEMMA CancelWriteKnows ==
    ASSUME TypeOK, TypeOK', WInv, NEW c \in Clients, CancelWrite(c)
    PROVE  WInv' /\ TableStep
  <1> DEFINE q == clients[c].request
  <1>1. RequestOK(q) /\ q.kind = "cancel"
    BY DEF CancelWrite, At, TypeOK, ClientOK, Resting
  <1>2. /\ ~HasReceipt(q) /\ CancelAccepts(q)
        /\ CommitWorkflow(c, CancelTable(q), ledger, "workflow")
    BY DEF CancelWrite
  <1>3. Active(workflows[q.workflow])
    <2>1. /\ HeadSha(q.run) # None
          /\ HeadSha(q.run).active = q.workflow
          /\ HeadSha(q.run).workflows[q.workflow] = workflows[q.workflow]
          /\ workflows[q.workflow].status # "scored"
      BY <1>2 DEF CancelAccepts, IsCurrentCaseWorkflow
    <2>2. q.run \in CaseRuns /\ q.workflow \in Workflows
      BY <1>1 DEF RequestOK
    <2>3. NamesLive(HeadSha(q.run))
      BY <2>1, <2>2, HeadNames DEF WInv
    <2> QED
      BY <2>1, <2>2, <2>3, RunsAssumption DEF NamesLive, Active
  <1>4. /\ workflows' = CancelTable(q) /\ ledger' = ledger
        /\ \E case, row : SaveReceipt(q, case, q.workflow, row)
    BY <1>2 DEF CommitWorkflow
  <1>5. Changes(q)
    <2> HIDE DEF q
    <2> QED
      BY <1>1, <1>2, <1>3, <1>4 DEF Changes, Abandons, Decided
  <1> QED
    BY <1>1, <1>2, <1>5, CommitKnows

\* A score reads its workflow twice; each time it holds what the table holds.
LEMMA ScoreReadKnows ==
    ASSUME TypeOK, TypeOK', WInv, NEW c \in Clients, ScoreRead(c) \/ ScorePrepare(c)
    PROVE  WInv' /\ TableStep
  <1> DEFINE q == clients[c].request
             w == workflows[q.workflow]
  <1>1. RequestOK(q) /\ q.kind = "score"
    BY DEF ScoreRead, ScorePrepare, At, TypeOK, ClientOK, Resting
  <1>2. w \in Workflow
    BY <1>1 DEF RequestOK, TypeOK
  <1>3. CASE Refuse(c)
    BY <1>3, RefuseKnows
  <1>4. ASSUME UNCHANGED <<workflows, ledger, receipts, revisions>>,
               \A d \in Clients \ {c} : clients'[d] = clients[d],
               ReadInOrder(clients'[c], workflows'),
               clients'[c].request = q
        PROVE  WInv' /\ TableStep
    <2>1. Informed(clients'[c], workflows') /\ ~Plotting(clients'[c])
      BY <1>1, <1>4 DEF Informed, DrawnIsFree, BuiltNamesLive, Plotting
    <2>2. Rests /\ TableStep /\ RevisionsNameLive'
      BY <1>4 DEF Rests, TableStep, WInv, RevisionsNameLive
    <2>3. \A d \in Clients \ {c} :
              Plotting(clients[d]) => ~Exists(workflows'[clients[d].candidate.id])
      BY <2>2, DrawnStayFree
    <2> QED
      BY <1>4, <2>1, <2>2, <2>3, KnowsStill
  <1>5. CASE /\ clients' = [clients EXCEPT ![c].pc = "score", ![c].snapshot = w]
             /\ UNCHANGED <<store, environment, sends>>
    <2>1. /\ \A d \in Clients \ {c} : clients'[d] = clients[d]
          /\ clients'[c].pc = "score" /\ clients'[c].request = q
          /\ clients'[c].snapshot = w
      BY <1>5 DEF TypeOK, ClientOK
    <2>2. UNCHANGED <<workflows, ledger, receipts, revisions>>
      BY <1>5 DEF store
    <2>3. ReadInOrder(clients'[c], workflows')
      BY <1>1, <1>2, <2>1, <2>2 DEF ReadInOrder, Past
    <2> QED
      BY <1>4, <2>1, <2>2, <2>3
  <1>6. CASE /\ ScorePrepare(c)
             /\ CanScore(workflows, q.workflow, members)
             /\ clients' = [clients EXCEPT ![c].pc = "write",
                               ![c].candidate = [id |-> q.workflow, row |-> w]]
             /\ UNCHANGED <<store, environment, sends>>
    <2>1. /\ \A d \in Clients \ {c} : clients'[d] = clients[d]
          /\ clients'[c].pc = "write" /\ clients'[c].request = q
          /\ clients'[c].snapshot = clients[c].snapshot
          /\ clients'[c].candidate.row = w
      BY <1>6 DEF TypeOK, ClientOK
    <2>2. UNCHANGED <<workflows, ledger, receipts, revisions>>
      BY <1>6 DEF store
    <2>3. clients[c].snapshot \in Workflow /\ Past(clients[c].snapshot, w)
      BY <1>6 DEF ScorePrepare, At, WInv, Informed, ReadInOrder
    <2>4. Len(w.stages) = 3 /\ w.status \notin TerminalStatus
      BY <1>6 DEF CanScore
    <2>5. ReadInOrder(clients'[c], workflows')
      BY <1>1, <1>2, <2>1, <2>2, <2>3, <2>4 DEF ReadInOrder, Past
    <2> QED
      BY <1>4, <2>1, <2>2, <2>5
  <1> QED
    BY <1>3, <1>5, <1>6 DEF ScoreRead, ScorePrepare

\* The row a score was computed from is the row it replaces: it was read after
\* the snapshot, the table has come back to the snapshot, and rows never return.
LEMMA ScoreWriteKnows ==
    ASSUME TypeOK, TypeOK', WInv, NEW c \in Clients, ScoreWrite(c)
    PROVE  WInv' /\ TableStep
  <1> DEFINE q == clients[c].request
             row == clients[c].candidate.row
             start == clients[c].snapshot
  <1>1. RequestOK(q) /\ clients[c].pc = "write" /\ q.kind = "score"
    BY DEF ScoreWrite, At, TypeOK, ClientOK, Resting
  <1>2. /\ ~HasReceipt(q) /\ ScoreAccepts(q, start, row)
        /\ CommitWorkflow(c, ScoreTable(q, row), ScoreLedger(q), "controlled_outcome")
    BY DEF ScoreWrite
  <1>3. workflows[q.workflow] = start /\ Exists(start) /\ ~row.bound
    BY <1>2 DEF ScoreAccepts, IsCurrentCaseWorkflow, ScoredRowIsValid
  <1>4. /\ start \in Workflow /\ row \in Workflow
        /\ Past(start, row) /\ Past(row, workflows[q.workflow])
        /\ Len(row.stages) = 3 /\ row.status \notin TerminalStatus
    BY <1>1 DEF WInv, Informed, ReadInOrder
  <1>5. row = workflows[q.workflow]
    BY <1>3, <1>4, PastBothWays
  <1>6. /\ workflows' = ScoreTable(q, row) /\ ledger' = ScoreLedger(q)
        /\ \E case, kept : SaveReceipt(q, case, q.workflow, kept)
    BY <1>2 DEF CommitWorkflow
  <1>7. Changes(q)
    <2> HIDE DEF q, row, start
    <2> QED
      BY <1>1, <1>2, <1>3, <1>4, <1>5, <1>6 DEF Changes, Scores, Decided
  <1> QED
    BY <1>1, <1>2, <1>7, CommitKnows

\* A lock not obtained in time, a crash, a change of the environment.
LEMMA LockTimeoutKnows ==
    ASSUME TypeOK, TypeOK', WInv, NEW c \in Clients, LockTimeout(c)
    PROVE  WInv' /\ TableStep
  <1>1. /\ Reply(c, "locked", None) /\ "locked" \in Resting
        /\ UNCHANGED <<workflows, ledger, receipts, revisions>>
    BY DEF LockTimeout, store, Resting
  <1> QED
    BY <1>1, AnswerKnows

LEMMA CrashKnows ==
    ASSUME TypeOK, TypeOK', WInv, Crash
    PROVE  WInv' /\ TableStep
  <1>1. UNCHANGED <<workflows, ledger, receipts, revisions>>
    BY DEF Crash, store
  <1>2. \A c \in Clients : clients'[c] = clients[c] \/ clients'[c].pc = "lost"
    <2> SUFFICES ASSUME NEW c \in Clients
                 PROVE  clients'[c] = clients[c] \/ clients'[c].pc = "lost"
      OBVIOUS
    <2>1. CASE clients[c].pc \in Resting
      <3>1. clients'[c] = clients[c]
        BY <2>1 DEF Crash
      <3> QED
        BY <3>1
    <2>2. CASE clients[c].pc \notin Resting
      <3>1. clients'[c].pc = "lost"
        BY <2>2 DEF Crash, TypeOK, ClientOK
      <3> QED
        BY <3>1
    <2> QED
      BY <2>1, <2>2
  <1>3. \A c \in Clients : clients'[c].pc = "lost" => Light(clients'[c])
    BY DEF Light
  <1>4. \A c \in Clients : Informed(clients'[c], workflows')
    <2> SUFFICES ASSUME NEW c \in Clients PROVE Informed(clients'[c], workflows')
      OBVIOUS
    <2>1. CASE clients'[c] = clients[c]
      BY <1>1, <2>1 DEF WInv
    <2>2. CASE clients'[c].pc = "lost"
      BY <1>3, <2>2, LightInformed
    <2> QED
      BY <1>2, <2>1, <2>2
  <1>5. \A c \in Clients : Plotting(clients'[c]) => clients'[c] = clients[c]
    BY <1>2 DEF Plotting
  <1>6. DrawnApart'
    BY <1>5 DEF WInv, DrawnApart
  <1>7. RevisionsNameLive' /\ Rests
    BY <1>1 DEF WInv, RevisionsNameLive, Rests
  <1> QED
    BY <1>4, <1>6, <1>7 DEF WInv, TableStep

LEMMA EnvironmentKnows ==
    ASSUME WInv, AddRun \/ RemoveRun \/ EvidenceChanges \/ UNCHANGED vars
    PROVE  WInv' /\ TableStep
  <1>1. UNCHANGED <<workflows, ledger, receipts, revisions, clients>>
    BY DEF AddRun, RemoveRun, EvidenceChanges, vars, store
  <1> QED
    BY <1>1 DEF WInv, DrawnApart, RevisionsNameLive, TableStep, Rests

\* Every step is one of the five, and keeps what makes it so.
LEMMA StepKnows ==
    ASSUME TypeOK, TypeOK', WInv, [Next]_vars
    PROVE  WInv' /\ TableStep
  <1>1. ASSUME NEW c \in Clients, Handle(c) PROVE WInv' /\ TableStep
    <2>1. CASE GetRead(c) \/ GetMerge(c) \/ GetWrite(c)
      BY <2>1, GetReadKnows, GetMergeKnows, GetWriteKnows
    <2>2. CASE IntentRead(c) \/ IntentMerge(c) \/ IntentWrite(c)
      BY <2>2, GetReadKnows, IntentMergeKnows, IntentWriteKnows
    <2>3. CASE StartMerge(c) \/ StartWrite(c) \/ StartRecover(c)
      BY <2>3, StartMergeKnows, StartWriteKnows, StartRecoverKnows
    <2>4. CASE Replay(c) \/ OpenTransaction(c)
      BY <2>4, ReplayKnows, OpenTransactionKnows
    <2>5. CASE StageWrite(c) \/ CancelWrite(c)
      BY <2>5, StageWriteKnows, CancelWriteKnows
    <2>6. CASE ScoreRead(c) \/ ScorePrepare(c) \/ ScoreWrite(c)
      BY <2>6, ScoreReadKnows, ScoreWriteKnows
    <2>7. CASE Rollback(c)
      BY <2>7, RefuseKnows DEF Rollback
    <2>8. CASE LockTimeout(c)
      BY <2>8, LockTimeoutKnows
    <2> QED
      BY <1>1, <2>1, <2>2, <2>3, <2>4, <2>5, <2>6, <2>7, <2>8 DEF Handle
  <1>2. CASE Crash
    BY <1>2, CrashKnows
  <1>3. CASE AddRun \/ RemoveRun \/ EvidenceChanges \/ UNCHANGED vars
    BY <1>3, EnvironmentKnows
  <1> QED
    BY <1>1, <1>2, <1>3, SendKnows DEF Next

\* Requests in flight hold identities nobody has and rows in the order the table
\* had them, and published cases never name an abandoned workflow.
THEOREM Knowledge == Spec => [](TypeOK /\ WInv)
  <1>1. Init => WInv
    <2> SUFFICES ASSUME Init PROVE WInv
      OBVIOUS
    <2>1. Idle.pc = "idle"
      BY DEF Idle
    <2>2. \A c \in Clients : clients[c].pc = "idle"
      BY <2>1 DEF Init
    <2>3. \A c \in Clients : Light(clients[c])
      BY <2>2 DEF Light
    <2>4. \A c \in Clients : Informed(clients[c], workflows) /\ ~Plotting(clients[c])
      BY <2>3, LightInformed
    <2>5. \A run \in CaseRuns : revisions[run] = <<>>
      BY DEF Init
    <2>6. RevisionsNameLive
      BY <2>5 DEF RevisionsNameLive
    <2> QED
      BY <2>4, <2>6 DEF WInv, DrawnApart
  <1>2. TypeOK /\ TypeOK' /\ WInv /\ [Next]_vars => WInv'
    BY StepKnows
  <1> QED
    BY <1>1, <1>2, TypeCorrect, PTL DEF Spec

-----------------------------------------------------------------------------
(***************************************************************************)
(* What the runs check about the table.                                    *)
(***************************************************************************)
LEMMA InitRows ==
    ASSUME Init
    PROVE  \A id \in Workflows : workflows[id] = Absent \/ workflows[id] \in Legacy
  <1> DEFINE blank == [id \in Workflows |-> Absent]
             anyone == CHOOSE id \in Workflows : TRUE
  <1>1. workflows \in {blank} \cup
            {[blank EXCEPT ![first] = row] : first \in {anyone}, row \in Legacy}
    BY DEF Init
  <1>2. \A id \in Workflows : blank[id] = Absent
    OBVIOUS
  <1>3. DOMAIN blank = Workflows
    OBVIOUS
  <1> HIDE DEF blank, anyone
  <1>4. CASE workflows = blank
    BY <1>2, <1>4
  <1>5. ASSUME NEW row \in Legacy, workflows = [blank EXCEPT ![anyone] = row]
        PROVE  \A id \in Workflows : workflows[id] = Absent \/ workflows[id] \in Legacy
    BY <1>2, <1>3, <1>5
  <1> QED
    BY <1>1, <1>4, <1>5

\* The table starts with at most one row.
LEMMA InitOneRow ==
    ASSUME Init
    PROVE  \A i, j \in Workflows : Exists(workflows[i]) /\ Exists(workflows[j]) => i = j
  <1> DEFINE blank == [id \in Workflows |-> Absent]
             anyone == CHOOSE id \in Workflows : TRUE
  <1>1. workflows \in {blank} \cup
            {[blank EXCEPT ![first] = row] : first \in {anyone}, row \in Legacy}
    BY DEF Init
  <1>2. \A id \in Workflows : ~Exists(blank[id])
    BY DEF Absent, Exists
  <1>3. DOMAIN blank = Workflows
    OBVIOUS
  <1> HIDE DEF blank, anyone
  <1>4. CASE workflows = blank
    BY <1>2, <1>4
  <1>5. ASSUME NEW row \in Legacy, workflows = [blank EXCEPT ![anyone] = row]
        PROVE  \A i, j \in Workflows : Exists(workflows[i]) /\ Exists(workflows[j]) => i = j
    <2>1. \A id \in Workflows \ {anyone} : workflows[id] = blank[id]
      BY <1>3, <1>5
    <2> QED
      BY <1>2, <2>1
  <1> QED
    BY <1>1, <1>4, <1>5

\* A closed workflow never changes again, whatever is in flight when it closes.
THEOREM ClosedStays == Spec => ClosedIsFinal
  <1> DEFINE Final == \A id \in Workflows :
                         workflows[id].status \in TerminalStatus
                             => workflows'[id] = workflows[id]
  <1>1. ASSUME TypeOK, TypeOK', WInv, [Next]_vars PROVE Final
    <2> SUFFICES ASSUME NEW id \in Workflows, workflows[id].status \in TerminalStatus
                 PROVE  workflows'[id] = workflows[id]
      OBVIOUS
    <2>1. TableStep
      BY <1>1, StepKnows
    <2>2. Exists(workflows[id])
      BY DEF Exists, TerminalStatus
    <2>3. CASE Rests
      BY <2>3 DEF Rests
    <2>4. ASSUME NEW q, NEW new, Plans(q, new)
          PROVE  workflows'[id] = workflows[id]
      <3>1. id # new
        BY <2>2, <2>4 DEF Plans
      <3>2. \A other \in Workflows \ {new} : workflows'[other] = workflows[other]
        BY <1>1, <2>4, PlanShape
      <3> QED
        BY <3>1, <3>2
    <2>5. ASSUME NEW q, Changes(q) PROVE workflows'[id] = workflows[id]
      BY <1>1, <2>5, ChangeShape
    <2> QED
      BY <2>1, <2>3, <2>4, <2>5 DEF TableStep
  <1>2. TypeOK /\ TypeOK' /\ WInv /\ [Next]_vars => [Final]_vars
    BY <1>1
  <1> HIDE DEF Final
  <1>3. Spec => [][Final]_vars
    BY <1>2, Knowledge, PTL DEF Spec
  <1> QED
    BY <1>3 DEF ClosedIsFinal, Final

-----------------------------------------------------------------------------
\* Recording the next stage gives the row the status that stage calls for.
LEMMA AttachedFits ==
    ASSUME NEW w \in Workflow, NEW run \in Runs, NEW stage \in {"A", "B", "A2"},
           stage = NextStage(w)
    PROVE  StatusFitsStages(Attached(w, run))
  <1> DEFINE new == Attached(w, run)
  <1>1. /\ new.stages = Append(w.stages, run)
        /\ new.status = RecordedStatus[Len(w.stages) + 1]
        /\ Len(w.stages) \in 0 .. 2
    BY AttachedShape
  <1>2. w.stages \in Seq(Runs)
    BY DEF Workflow
  <1> HIDE DEF new
  <1>3. Len(new.stages) = Len(w.stages) + 1 /\ new.stages # <<>>
    <2>1. /\ Append(w.stages, run) # <<>>
          /\ Len(Append(w.stages, run)) = Len(w.stages) + 1
      BY <1>2
    <2> QED
      BY <1>1, <2>1
  <1>4. new.status # "scored"
    <2>1. CASE Len(w.stages) = 0
      BY <1>1, <2>1 DEF RecordedStatus
    <2>2. CASE Len(w.stages) = 1
      BY <1>1, <2>2 DEF RecordedStatus
    <2>3. CASE Len(w.stages) = 2
      BY <1>1, <2>3 DEF RecordedStatus
    <2> QED
      BY <1>1, <2>1, <2>2, <2>3
  <1>5. \A n \in 0 .. 2 : n + 1 <= 3
    OBVIOUS
  <1>6. Len(new.stages) <= 3
    BY <1>1, <1>3, <1>5
  <1> QED
    BY <1>1, <1>3, <1>4, <1>6 DEF StatusFitsStages, new

RowsFit == \A id \in Workflows : StatusFitsStages(workflows[id])

LEMMA StepFits ==
    ASSUME TypeOK, RowsFit, TableStep
    PROVE  RowsFit'
  <1>1. CASE Rests
    BY <1>1 DEF Rests, RowsFit
  <1>2. ASSUME NEW q, NEW new, Plans(q, new) PROVE RowsFit'
    <2>1. /\ workflows'[new].status = "planned" /\ workflows'[new].stages = <<>>
          /\ \A other \in Workflows \ {new} : workflows'[other] = workflows[other]
      BY <1>2, PlanShape
    <2>2. StatusFitsStages(workflows'[new])
      BY <2>1 DEF StatusFitsStages
    <2> QED
      BY <2>1, <2>2 DEF RowsFit
  <1>3. ASSUME NEW q, Changes(q) PROVE RowsFit'
    <2> DEFINE w == workflows[q.workflow]
    <2>1. /\ q.workflow \in Workflows
          /\ \A other \in Workflows \ {q.workflow} : workflows'[other] = workflows[other]
      BY <1>3, ChangeShape
    <2>2. w \in Workflow /\ StatusFitsStages(w) /\ RequestOK(q)
      BY <1>3, <2>1 DEF TypeOK, RowsFit, Changes, Records, Abandons, Scores, Decided
    <2>3. StatusFitsStages(workflows'[q.workflow])
      <3>1. CASE Records(q)
        <4>1. /\ q.stage = NextStage(w)
              /\ q.stage \in {"A", "B", "A2"} /\ q.recording \in Runs
              /\ workflows'[q.workflow] = Attached(w, q.recording)
          BY <2>1, <2>2, <3>1 DEF Records, CanAttach, StageTable, RequestOK, TypeOK
        <4> QED
          BY <2>2, <4>1, AttachedFits
      <3>2. CASE Abandons(q)
        <4>1. workflows'[q.workflow] = Cancelled(w)
          BY <2>1, <3>2 DEF Abandons, CancelTable, TypeOK
        <4>2. Cancelled(w).status = "cancelled" /\ Cancelled(w).stages = w.stages
          BY <2>2, CancelledShape
        <4> DEFINE new == Cancelled(w)
        <4> HIDE DEF new, w
        <4>3. ~Active(new) /\ new.status # "scored" /\ new.stages = w.stages
          BY <4>2 DEF Active, ActiveStatus, new
        <4>4. StatusFitsStages(new)
          BY <2>2, <4>3 DEF StatusFitsStages
        <4> QED
          BY <4>1, <4>4 DEF new
      <3>3. CASE Scores(q)
        <4> DEFINE capture == IF ledgerSound THEN "captured" ELSE "blocked"
                   n == ScoredCount(workflows) + 1
        <4>1. workflows'[q.workflow] = Scored(w, capture, n) /\ Len(w.stages) = 3
          BY <2>1, <3>3 DEF Scores, ScoreTable, TypeOK
        <4>2. capture \in {"captured", "blocked"} /\ n \in Nat
          BY ScoredCountType DEF TypeOK
        <4> HIDE DEF capture, n
        <4>3. Scored(w, capture, n).status = "scored" /\ Scored(w, capture, n).stages = w.stages
          BY <2>2, <4>2, ScoredShape
        <4> DEFINE new == Scored(w, capture, n)
        <4> HIDE DEF new, w
        <4>4. ~Active(new) /\ Len(new.stages) = 3
          BY <4>1, <4>3 DEF Active, ActiveStatus, new
        <4>5. StatusFitsStages(new)
          BY <4>4 DEF StatusFitsStages
        <4> QED
          BY <4>1, <4>5 DEF new
      <3> QED
        BY <1>3, <3>1, <3>2, <3>3 DEF Changes
    <2> QED
      BY <2>1, <2>3 DEF RowsFit
  <1> QED
    BY <1>1, <1>2, <1>3 DEF TableStep

\* An open row always has the status its stages call for.
THEOREM StatusFollowsStages == Spec => []RowsFit
  <1>1. Init => RowsFit
    <2>1. StatusFitsStages(Absent)
      BY DEF Absent, StatusFitsStages, Active, ActiveStatus
    <2> QED
      BY <2>1, InitRows, LegacyAssumption DEF RowsFit
  <1>2. TypeOK /\ TypeOK' /\ WInv /\ RowsFit /\ [Next]_vars => RowsFit'
    BY StepKnows, StepFits
  <1> QED
    BY <1>1, <1>2, Knowledge, PTL DEF Spec

\* A committed score judges the very row it replaces, with all three stages
\* recorded, although both of its reads came before the transaction.
THEOREM ScoreIsOfTheRow == Spec => ScoreJudgesWhatItReplaces
  <1> DEFINE Judged ==
        \A id \in Workflows :
          workflows[id].status # "scored" /\ workflows'[id].status = "scored" =>
              /\ workflows[id].status = "a2_recorded"
              /\ workflows'[id] =
                    [workflows[id] EXCEPT !.status  = "scored",
                                          !.capture = workflows'[id].capture,
                                          !.ordinal = workflows'[id].ordinal]
  <1>1. ASSUME TypeOK, TypeOK', WInv, RowsFit, [Next]_vars PROVE Judged
    <2> SUFFICES ASSUME NEW id \in Workflows,
                        workflows[id].status # "scored", workflows'[id].status = "scored"
                 PROVE  /\ workflows[id].status = "a2_recorded"
                        /\ workflows'[id] =
                              [workflows[id] EXCEPT !.status  = "scored",
                                                    !.capture = workflows'[id].capture,
                                                    !.ordinal = workflows'[id].ordinal]
      OBVIOUS
    <2>1. TableStep
      BY <1>1, StepKnows
    <2>2. ~Rests
      BY DEF Rests
    <2>3. ASSUME NEW q, NEW new, Plans(q, new) PROVE FALSE
      <3>1. /\ workflows'[new].status = "planned"
            /\ \A other \in Workflows \ {new} : workflows'[other] = workflows[other]
        BY <1>1, <2>3, PlanShape
      <3> QED
        BY <3>1
    <2>4. PICK q : Changes(q)
      BY <2>1, <2>2, <2>3 DEF TableStep
    <2>5. q.workflow = id
      <3>1. \A other \in Workflows \ {q.workflow} : workflows'[other] = workflows[other]
        BY <1>1, <2>4, ChangeShape
      <3> QED
        BY <3>1
    <2> DEFINE w == workflows[id]
    <2>6. w \in Workflow /\ RequestOK(q)
      BY <1>1, <2>4 DEF TypeOK, Changes, Records, Abandons, Scores, Decided
    <2>7. ~Records(q)
      <3> SUFFICES ASSUME Records(q) PROVE FALSE
        OBVIOUS
      <3>1. /\ q.stage = NextStage(w) /\ Active(w)
            /\ q.stage \in {"A", "B", "A2"} /\ q.recording \in Runs
            /\ workflows'[id] = Attached(w, q.recording)
        BY <1>1, <2>5, <2>6 DEF Records, CanAttach, StageTable, RequestOK, TypeOK
      <3>2. Active(Attached(w, q.recording))
        BY <2>6, <3>1, AttachedPast
      <3> QED
        BY <3>1, <3>2 DEF Active, ActiveStatus
    <2>8. ~Abandons(q)
      <3> SUFFICES ASSUME Abandons(q) PROVE FALSE
        OBVIOUS
      <3>1. workflows'[id] = Cancelled(w)
        BY <1>1, <2>5 DEF Abandons, CancelTable, TypeOK
      <3> QED
        BY <2>6, <3>1, CancelledShape
    <2>9. Scores(q)
      BY <2>4, <2>7, <2>8 DEF Changes
    <2> DEFINE capture == IF ledgerSound THEN "captured" ELSE "blocked"
               n == ScoredCount(workflows) + 1
    <2>10. /\ Exists(w) /\ w.status \notin TerminalStatus /\ Len(w.stages) = 3
           /\ workflows'[id] = Scored(w, capture, n)
      BY <1>1, <2>5, <2>9 DEF Scores, ScoreTable, TypeOK
    <2>11. w.status = "a2_recorded"
      <3>1. Active(w) /\ StatusFitsStages(w)
        BY <1>1, <2>6, <2>10 DEF RowsFit, Workflow, Active, Exists
      <3>2. w.stages # <<>>
        BY <2>10
      <3>3. w.status = RecordedStatus[3]
        BY <2>10, <3>1, <3>2 DEF StatusFitsStages
      <3> QED
        BY <3>3 DEF RecordedStatus
    <2>12. capture \in {"captured", "blocked"} /\ n \in Nat
      BY <1>1, ScoredCountType DEF TypeOK
    <2> HIDE DEF capture, n
    <2>13. Scored(w, capture, n).capture = capture /\ Scored(w, capture, n).ordinal = n
      BY <2>6, <2>12, ScoredShape
    <2>14. Scored(w, capture, n) =
              [w EXCEPT !.status = "scored", !.capture = capture, !.ordinal = n]
      BY DEF Scored
    <2> HIDE DEF w
    <2> QED
      BY <2>10, <2>11, <2>13, <2>14 DEF w
  <1>2. TypeOK /\ TypeOK' /\ WInv /\ RowsFit /\ [Next]_vars => [Judged]_vars
    BY <1>1
  <1> HIDE DEF Judged
  <1>3. Spec => [][Judged]_vars
    BY <1>2, Knowledge, StatusFollowsStages, PTL DEF Spec
  <1> QED
    BY <1>3 DEF ScoreJudgesWhatItReplaces, Judged

-----------------------------------------------------------------------------
(***************************************************************************)
(* The recordings.  Only the last stage is compared with a new recording;  *)
(* that it then starts after all of them is because each of them starts    *)
(* after the one before it and ends no earlier than it starts.             *)
(***************************************************************************)
LEMMA AttachedIsOneTest ==
    ASSUME NEW w \in Workflow, NEW run \in Runs, NEW stage \in {"A", "B", "A2"},
           OneTest(w),
           stage = NextStage(w),
           IndependentRecordings(w, run),
           RecordingOrderIsValid(w, stage, run),
           StageSetupIsExact(w, stage, run)
    PROVE  OneTest(Attached(w, run))
  <1> DEFINE new == Attached(w, run)
             n == Len(w.stages)
  <1>1. /\ new.stages = Append(w.stages, run) /\ new.source = w.source
        /\ n \in 0 .. 2 /\ stage = Stages[n + 1]
    BY AttachedShape
  <1>2. w.stages \in Seq(Runs) /\ n \in Nat
    BY DEF Workflow
  <1>3. /\ DOMAIN w.stages = 1 .. n
        /\ DOMAIN Append(w.stages, run) = 1 .. n + 1
        /\ \A i \in 1 .. n : Append(w.stages, run)[i] = w.stages[i] /\ w.stages[i] \in Runs
        /\ Append(w.stages, run)[n + 1] = run
    BY <1>2
  <1>4. n >= 1 => /\ PreviousRun(w) = w.stages[n]
                  /\ stage # "A"
    <2>1. n >= 1 => w.stages # <<>>
      BY <1>2
    <2>2. n >= 1 => n = 1 \/ n = 2
      BY <1>1
    <2>3. n >= 1 => stage # "A"
      BY <1>1, <2>2 DEF Stages
    <2> QED
      BY <2>1, <2>3 DEF PreviousRun
  <1>5. stage = "B" <=> n + 1 = 2
    <2>1. CASE n = 0
      BY <1>1, <2>1 DEF Stages
    <2>2. CASE n = 1
      BY <1>1, <2>2 DEF Stages
    <2>3. CASE n = 2
      BY <1>1, <2>3 DEF Stages
    <2> QED
      BY <1>1, <2>1, <2>2, <2>3
  <1> HIDE DEF new, n
  <1>6. /\ DOMAIN new.stages = 1 .. n + 1
        /\ \A i \in 1 .. n : new.stages[i] = w.stages[i] /\ w.stages[i] \in Runs
        /\ new.stages[n + 1] = run
    BY <1>1, <1>3
  <1>7. \A i \in 1 .. n :
            /\ Recording[w.stages[i]].setup =
                  IF i = 2 THEN Proposed ELSE Recording[w.source].setup
            /\ \A j \in 1 .. i-1 :
                  /\ Recording[w.stages[i]].start > Recording[w.stages[j]].end
                  /\ Recording[w.stages[i]].sha # Recording[w.stages[j]].sha
            /\ Recording[w.stages[i]].sha # Recording[run].sha
    BY <1>3 DEF OneTest, IndependentRecordings
  <1>8. Recording[run].setup = IF n + 1 = 2 THEN Proposed ELSE Recording[w.source].setup
    BY <1>5 DEF StageSetupIsExact
  <1>9. \A j \in 1 .. n : Recording[run].start > Recording[w.stages[j]].end
    <2> SUFFICES ASSUME NEW j \in 1 .. n
                 PROVE  Recording[run].start > Recording[w.stages[j]].end
      OBVIOUS
    <2>1. n >= 1 /\ n \in 1 .. n
      BY <1>2
    <2>2. Recording[run].start > Recording[w.stages[n]].end
      BY <1>4, <2>1 DEF RecordingOrderIsValid
    <2>3. /\ Recording[run].start \in Nat
          /\ Recording[w.stages[n]].start \in Nat /\ Recording[w.stages[n]].end \in Nat
          /\ Recording[w.stages[n]].start <= Recording[w.stages[n]].end
          /\ Recording[w.stages[j]].end \in Nat
      BY <1>6, <2>1, RecordingAssumption
    <2>4. j = n \/ j \in 1 .. n-1
      BY <1>2
    <2>5. j # n => Recording[w.stages[n]].start > Recording[w.stages[j]].end
      BY <1>7, <2>1, <2>4
    <2> QED
      BY <2>2, <2>3, <2>5
  <1>10. \A i \in 1 .. n + 1 : i \in 1 .. n \/ i = n + 1
    BY <1>2
  <1>11. \A i \in 1 .. n : \A j \in 1 .. i-1 : j \in 1 .. n
    BY <1>2
  <1>12. ASSUME NEW i \in 1 .. n + 1
         PROVE  /\ Recording[new.stages[i]].setup =
                      IF i = 2 THEN Proposed ELSE Recording[w.source].setup
                /\ \A j \in 1 .. i-1 :
                      /\ Recording[new.stages[i]].start > Recording[new.stages[j]].end
                      /\ Recording[new.stages[i]].sha # Recording[new.stages[j]].sha
    <2>1. CASE i \in 1 .. n
      <3>1. new.stages[i] = w.stages[i] /\ \A j \in 1 .. i-1 : new.stages[j] = w.stages[j]
        BY <1>6, <1>11, <2>1
      <3> QED
        BY <1>7, <2>1, <3>1
    <2>2. CASE i = n + 1
      <3>1. /\ new.stages[i] = run /\ i - 1 = n
            /\ \A j \in 1 .. n : new.stages[j] = w.stages[j]
        BY <1>2, <1>6, <2>2
      <3>2. \A j \in 1 .. n : Recording[run].sha # Recording[w.stages[j]].sha
        BY <1>7
      <3> QED
        BY <1>8, <1>9, <2>2, <3>1, <3>2
    <2> QED
      BY <1>10, <2>1, <2>2
  <1> QED
    BY <1>1, <1>6, <1>12 DEF OneTest, new

LEMMA StepIsOneTest ==
    ASSUME TypeOK, StagesAreOneTest, TableStep
    PROVE  StagesAreOneTest'
  <1>1. CASE Rests
    BY <1>1 DEF Rests, StagesAreOneTest
  <1>2. ASSUME NEW q, NEW new, Plans(q, new) PROVE StagesAreOneTest'
    <2>1. /\ workflows'[new].stages = <<>>
          /\ \A other \in Workflows \ {new} : workflows'[other] = workflows[other]
      BY <1>2, PlanShape
    <2>2. OneTest(workflows'[new])
      BY <2>1 DEF OneTest
    <2> QED
      BY <2>1, <2>2 DEF StagesAreOneTest
  <1>3. ASSUME NEW q, Changes(q) PROVE StagesAreOneTest'
    <2> DEFINE w == workflows[q.workflow]
    <2>1. /\ q.workflow \in Workflows
          /\ \A other \in Workflows \ {q.workflow} : workflows'[other] = workflows[other]
      BY <1>3, ChangeShape
    <2>2. w \in Workflow /\ OneTest(w) /\ RequestOK(q)
      BY <1>3, <2>1 DEF TypeOK, StagesAreOneTest, Changes, Records, Abandons, Scores, Decided
    <2>3. OneTest(workflows'[q.workflow])
      <3>1. CASE Records(q)
        <4>1. /\ q.stage = NextStage(w)
              /\ q.stage \in {"A", "B", "A2"} /\ q.recording \in Runs
              /\ IndependentRecordings(w, q.recording)
              /\ RecordingOrderIsValid(w, q.stage, q.recording)
              /\ StageSetupIsExact(w, q.stage, q.recording)
              /\ workflows'[q.workflow] = Attached(w, q.recording)
          BY <2>1, <2>2, <3>1 DEF Records, CanAttach, StageTable, RequestOK, TypeOK
        <4> QED
          BY <2>2, <4>1, AttachedIsOneTest
      <3>2. CASE Abandons(q)
        <4>1. workflows'[q.workflow] = Cancelled(w)
          BY <2>1, <3>2 DEF Abandons, CancelTable, TypeOK
        <4>2. Cancelled(w).stages = w.stages /\ Cancelled(w).source = w.source
          BY <2>2, CancelledShape
        <4> QED
          BY <2>2, <4>1, <4>2 DEF OneTest
      <3>3. CASE Scores(q)
        <4> DEFINE capture == IF ledgerSound THEN "captured" ELSE "blocked"
                   n == ScoredCount(workflows) + 1
        <4>1. workflows'[q.workflow] = Scored(w, capture, n)
          BY <2>1, <3>3 DEF Scores, ScoreTable, TypeOK
        <4>2. capture \in {"captured", "blocked"} /\ n \in Nat
          BY ScoredCountType DEF TypeOK
        <4> HIDE DEF capture, n
        <4>3. Scored(w, capture, n).stages = w.stages /\ Scored(w, capture, n).source = w.source
          BY <2>2, <4>2, ScoredShape
        <4> QED
          BY <2>2, <4>1, <4>3 DEF OneTest
      <3> QED
        BY <1>3, <3>1, <3>2, <3>3 DEF Changes
    <2> QED
      BY <2>1, <2>3 DEF StagesAreOneTest
  <1> QED
    BY <1>1, <1>2, <1>3 DEF TableStep

\* Every recorded test is one a driver could have run, if the row an older build
\* may have left is: what later stages add is always in order, from files of
\* their own, and with the planned change in B only.
THEOREM StagesHold ==
    ASSUME \A w \in Legacy : OneTest(w)
    PROVE  Spec => []StagesAreOneTest
  <1>1. Init => StagesAreOneTest
    <2>1. OneTest(Absent)
      BY DEF Absent, OneTest
    <2> QED
      BY <2>1, InitRows DEF StagesAreOneTest
  <1>2. TypeOK /\ TypeOK' /\ WInv /\ StagesAreOneTest /\ [Next]_vars => StagesAreOneTest'
    BY StepKnows, StepIsOneTest
  <1> QED
    BY <1>1, <1>2, Knowledge, PTL DEF Spec

-----------------------------------------------------------------------------
(***************************************************************************)
(* Learning.  A row's capture is decided by the step that scores it, the   *)
(* same that writes the P33 stream, and a scored row stays as it is.       *)
(***************************************************************************)
Learned(w) == w.status = "scored" /\ w.capture = "captured"

LEMMA StepIsLearned ==
    ASSUME TypeOK, CaptureIsLearned, TableStep
    PROVE  CaptureIsLearned'
  <1>1. CASE Rests
    BY <1>1 DEF Rests, CaptureIsLearned
  <1>2. ASSUME NEW q, NEW new, Plans(q, new) PROVE CaptureIsLearned'
    <2>1. /\ workflows'[new].status = "planned"
          /\ new \in Workflows
          /\ \A other \in Workflows \ {new} : workflows'[other] = workflows[other]
      BY <1>2, PlanShape
    <2>2. ledger' = ledger /\ workflows[new].status = "absent"
      BY <1>2 DEF Plans, Exists
    <2>3. ~Learned(workflows'[new]) /\ ~Learned(workflows[new])
      BY <2>1, <2>2 DEF Learned
    <2> QED
      BY <2>1, <2>2, <2>3 DEF CaptureIsLearned, Learned
  <1>3. ASSUME NEW q, Changes(q) PROVE CaptureIsLearned'
    <2> DEFINE w == workflows[q.workflow]
    <2>1. /\ q.workflow \in Workflows /\ w.status \notin TerminalStatus
          /\ \A other \in Workflows \ {q.workflow} : workflows'[other] = workflows[other]
      BY <1>3, ChangeShape
    <2>2. w \in Workflow /\ RequestOK(q)
      BY <1>3, <2>1 DEF TypeOK, Changes, Records, Abandons, Scores, Decided
    <2>3. q.workflow \notin ledger
      BY <2>1 DEF CaptureIsLearned, TerminalStatus
    <2>4. CASE Records(q)
      <3>1. /\ q.stage = NextStage(w) /\ Active(w)
            /\ q.stage \in {"A", "B", "A2"} /\ q.recording \in Runs
            /\ workflows'[q.workflow] = Attached(w, q.recording)
            /\ ledger' = ledger
        BY <2>1, <2>2, <2>4 DEF Records, CanAttach, StageTable, RequestOK, TypeOK
      <3>2. Active(Attached(w, q.recording))
        BY <2>2, <3>1, AttachedPast
      <3>3. ~Learned(workflows'[q.workflow])
        BY <3>1, <3>2 DEF Learned, Active, ActiveStatus
      <3> QED
        BY <2>1, <2>3, <3>1, <3>3 DEF CaptureIsLearned, Learned
    <2>5. CASE Abandons(q)
      <3>1. workflows'[q.workflow] = Cancelled(w) /\ ledger' = ledger
        BY <2>1, <2>5 DEF Abandons, CancelTable, TypeOK
      <3>2. Cancelled(w).status = "cancelled"
        BY <2>2, CancelledShape
      <3>3. ~Learned(workflows'[q.workflow])
        BY <3>1, <3>2 DEF Learned
      <3> QED
        BY <2>1, <2>3, <3>1, <3>3 DEF CaptureIsLearned, Learned
    <2>6. CASE Scores(q)
      <3> DEFINE capture == IF ledgerSound THEN "captured" ELSE "blocked"
                 n == ScoredCount(workflows) + 1
      <3>1. /\ workflows'[q.workflow] = Scored(w, capture, n)
            /\ ledger' = IF ledgerSound THEN ledger \cup {q.workflow} ELSE ledger
        BY <2>1, <2>6 DEF Scores, ScoreTable, ScoreLedger, TypeOK
      <3>2. capture \in {"captured", "blocked"} /\ n \in Nat
        BY ScoredCountType DEF TypeOK
      <3>3. capture = "captured" <=> ledgerSound
        BY DEF TypeOK
      <3> HIDE DEF capture, n
      <3>4. Scored(w, capture, n).status = "scored" /\ Scored(w, capture, n).capture = capture
        BY <2>2, <3>2, ScoredShape
      <3>5. Learned(workflows'[q.workflow]) <=> ledgerSound
        BY <3>1, <3>3, <3>4 DEF Learned
      <3>6. q.workflow \in ledger' <=> Learned(workflows'[q.workflow])
        BY <2>3, <3>1, <3>5
      <3>7. \A other \in Workflows \ {q.workflow} : other \in ledger' <=> other \in ledger
        BY <3>1
      <3> QED
        BY <2>1, <3>6, <3>7 DEF CaptureIsLearned, Learned
    <2> QED
      BY <1>3, <2>4, <2>5, <2>6 DEF Changes
  <1> QED
    BY <1>1, <1>2, <1>3 DEF TableStep

\* The P33 stream holds the experience of exactly the workflows whose scored row
\* says it was captured, whatever the audit of the stream finds.
THEOREM CaptureHolds == Spec => []CaptureIsLearned
  <1>1. Init => CaptureIsLearned
    <2>1. Absent.capture = "not_applicable"
      BY DEF Absent
    <2> QED
      BY <2>1, InitRows, LegacyAssumption DEF Init, CaptureIsLearned
  <1>2. TypeOK /\ TypeOK' /\ WInv /\ CaptureIsLearned /\ [Next]_vars => CaptureIsLearned'
    BY StepKnows, StepIsLearned
  <1> QED
    BY <1>1, <1>2, Knowledge, PTL DEF Spec

-----------------------------------------------------------------------------
(***************************************************************************)
(* One open workflow.  A plan is refused when an open workflow occupies a  *)
(* run of the session; it is seen as long as its source is in the session. *)
(* The session is edited by other routes, which do not look at workflows:  *)
(* what follows is about sessions whose test sources are not removed.      *)
(***************************************************************************)
SourcesAreKept ==
    /\ CaseRuns \cap Churn = {}
    /\ \A w \in Legacy : w.source \notin Churn

\* Every row starts from a run nobody removes.
Anchored ==
    /\ Runs \ Churn \subseteq members
    /\ \A id \in Workflows :
          Exists(workflows[id]) => workflows[id].source \in Runs \ Churn

LEMMA StepAnchored ==
    ASSUME SourcesAreKept, TypeOK, Anchored, TableStep, [Next]_vars
    PROVE  Anchored'
  <1>1. Runs \ Churn \subseteq members'
    <2>1. members' = members \/ AddRun \/ RemoveRun
      BY DEF Next, Send, Handle, GetRead, GetMerge, GetWrite, IntentRead, IntentMerge,
             IntentWrite, StartMerge, StartWrite, StartRecover, Replay, OpenTransaction,
             StageWrite, CancelWrite, ScoreRead, ScorePrepare, ScoreWrite, Rollback,
             LockTimeout, Crash, EvidenceChanges, Refuse, CommitWorkflow, environment, vars
    <2> QED
      BY <2>1 DEF Anchored, AddRun, RemoveRun
  <1>2. CASE Rests
    BY <1>1, <1>2 DEF Rests, Anchored
  <1>3. ASSUME NEW q, NEW new, Plans(q, new) PROVE Anchored'
    <2>1. /\ workflows'[new].source = q.run /\ q.run \in CaseRuns
          /\ \A other \in Workflows \ {new} : workflows'[other] = workflows[other]
      BY <1>3, PlanShape
    <2>2. q.run \in Runs \ Churn
      BY <2>1, CaseAssumption DEF SourcesAreKept
    <2> QED
      BY <1>1, <2>1, <2>2 DEF Anchored
  <1>4. ASSUME NEW q, Changes(q) PROVE Anchored'
    <2>1. /\ q.workflow \in Workflows /\ Exists(workflows[q.workflow])
          /\ workflows'[q.workflow].source = workflows[q.workflow].source
          /\ \A other \in Workflows \ {q.workflow} : workflows'[other] = workflows[other]
      BY <1>4, ChangeShape
    <2> QED
      BY <1>1, <2>1 DEF Anchored
  <1> QED
    BY <1>2, <1>3, <1>4 DEF TableStep

LEMMA InitAnchored ==
    ASSUME SourcesAreKept, Init
    PROVE  Anchored
  <1>1. \A id \in Workflows : Exists(workflows[id]) => workflows[id] \in Legacy
    BY InitRows DEF Absent, Exists
  <1> QED
    BY <1>1, LegacyAssumption DEF Init, Anchored, SourcesAreKept

\* While a plan is accepted, no other workflow is open anywhere.
LEMMA PlanFindsNoneOpen ==
    ASSUME SourcesAreKept, TypeOK, Anchored, NEW q, NEW id, Plans(q, id)
    PROVE  \A other \in Workflows : ~Active(workflows[other])
  <1> SUFFICES ASSUME NEW other \in Workflows, Active(workflows[other])
               PROVE  FALSE
    OBVIOUS
  <1>1. q.run \in Runs \ Churn
    BY CaseAssumption DEF Plans, Decided, RequestOK, SourcesAreKept
  <1>2. ScopeOf({q.run}, members) = {q.run} \cup members
    BY <1>1 DEF ScopeOf, Anchored
  <1>3. workflows[other].source \in members
    BY DEF Anchored, Active, ActiveStatus, Exists
  <1>4. workflows[other].source \in Occupied(workflows[other])
    BY DEF Occupied
  <1>5. other \in DOMAIN workflows \ {None}
    BY RunsAssumption DEF TypeOK
  <1>6. Occupied(workflows[other]) \cap ScopeOf({q.run}, members) = {}
    BY <1>5 DEF Plans, SlotFree
  <1> QED
    BY <1>2, <1>3, <1>4, <1>6

LEMMA StepOneActive ==
    ASSUME SourcesAreKept, TypeOK, Anchored, OneActiveWorkflow, TableStep
    PROVE  OneActiveWorkflow'
  <1>1. CASE Rests
    BY <1>1 DEF Rests, OneActiveWorkflow
  <1>2. ASSUME NEW q, NEW new, Plans(q, new) PROVE OneActiveWorkflow'
    <2>1. \A other \in Workflows \ {new} : workflows'[other] = workflows[other]
      BY <1>2, PlanShape
    <2>2. \A other \in Workflows : ~Active(workflows[other])
      BY <1>2, PlanFindsNoneOpen
    <2> QED
      BY <2>1, <2>2 DEF OneActiveWorkflow
  <1>3. ASSUME NEW q, Changes(q) PROVE OneActiveWorkflow'
    <2>1. /\ q.workflow \in Workflows /\ Exists(workflows[q.workflow])
          /\ workflows[q.workflow].status \notin TerminalStatus
          /\ \A other \in Workflows \ {q.workflow} : workflows'[other] = workflows[other]
      BY <1>3, ChangeShape
    <2>2. workflows[q.workflow] \in Workflow
      BY <2>1 DEF TypeOK
    <2>3. Active(workflows[q.workflow])
      BY <2>1, <2>2 DEF Workflow, Active, Exists
    <2> QED
      BY <2>1, <2>3 DEF OneActiveWorkflow
  <1> QED
    BY <1>1, <1>2, <1>3 DEF TableStep

\* As long as the runs tests start from stay in the session, the source of every
\* workflow, open or closed, is a member of it.
THEOREM SourcesHold ==
    ASSUME SourcesAreKept
    PROVE  Spec => []Anchored
  <1>1. Init => Anchored
    BY InitAnchored
  <1>2. TypeOK /\ TypeOK' /\ WInv /\ Anchored /\ [Next]_vars => Anchored'
    BY StepKnows, StepAnchored
  <1> QED
    BY <1>1, <1>2, Knowledge, PTL DEF Spec

\* Two workflows of one session are never open together, although the candidates
\* of both may have been built while the slot was free, as long as the runs tests
\* start from stay in the session.
THEOREM OneIsOpen ==
    ASSUME SourcesAreKept
    PROVE  Spec => []OneActiveWorkflow
  <1>1. Init => OneActiveWorkflow
    BY InitOneRow DEF OneActiveWorkflow, Active, ActiveStatus, Exists
  <1>2. TypeOK /\ TypeOK' /\ WInv /\ Anchored /\ OneActiveWorkflow /\ [Next]_vars
            => OneActiveWorkflow'
    BY StepKnows, StepOneActive
  <1> QED
    BY <1>1, <1>2, Knowledge, SourcesHold, PTL DEF Spec

-----------------------------------------------------------------------------
(***************************************************************************)
(* The refinement: read as tests, the rows and the stream take the steps   *)
(* of ControlledTest.                                                      *)
(***************************************************************************)
Statuses == [id \in Workflows |-> workflows[id].status]

\* A step of one row is a move of one test.
LEMMA OneTestMoves ==
    ASSUME NEW test \in Workflows,
           \A other \in Workflows \ {test} : workflows'[other] = workflows[other]
    PROVE  /\ Statuses[test] = workflows[test].status
           /\ Statuses' = [Statuses EXCEPT ![test] = workflows'[test].status]
  BY DEF Statuses

LEMMA RefineTestInit ==
    ASSUME \A w \in Legacy : Active(w), Init
    PROVE  Tests!Init
  <1>1. \A id \in Workflows : workflows[id].status \in ActiveStatus \cup {"absent"}
    BY InitRows DEF Absent, Active
  <1> QED
    BY <1>1 DEF Init, Tests!Init, Tests!Open, ActiveStatus

LEMMA RefinePlan ==
    ASSUME SourcesAreKept, TypeOK, Anchored, NEW q, NEW test, Plans(q, test)
    PROVE  Tests!Plan(test)
  <1>1. /\ test \in Workflows /\ workflows'[test].status = "planned"
        /\ \A other \in Workflows \ {test} : workflows'[other] = workflows[other]
    BY PlanShape
  <1>2. /\ Statuses[test] = workflows[test].status
        /\ Statuses' = [Statuses EXCEPT ![test] = "planned"]
    BY <1>1, OneTestMoves
  <1>3. workflows[test].status = "absent" /\ ledger' = ledger
    BY DEF Plans, Exists
  <1>4. \A other \in Workflows : workflows[other].status \notin Tests!Open
    BY PlanFindsNoneOpen DEF Active, ActiveStatus, Tests!Open
  <1>5. \A other \in Workflows : Statuses[other] \notin Tests!Open
    BY <1>4 DEF Statuses
  <1> QED
    BY <1>2, <1>3, <1>5 DEF Tests!Plan, Tests!Move, Statuses

LEMMA RefineChange ==
    ASSUME TypeOK, RowsFit, NEW q, Changes(q)
    PROVE  /\ q.workflow \in Workflows
           /\ Tests!Record(q.workflow) \/ Tests!Abandon(q.workflow) \/ Tests!Score(q.workflow)
  <1> DEFINE test == q.workflow
             w == workflows[test]
  <1>1. /\ test \in Workflows /\ Exists(w) /\ w.status \notin TerminalStatus
        /\ \A other \in Workflows \ {test} : workflows'[other] = workflows[other]
    BY ChangeShape
  <1>2. /\ Statuses[test] = w.status
        /\ Statuses' = [Statuses EXCEPT ![test] = workflows'[test].status]
    BY <1>1, OneTestMoves
  <1>3. /\ w \in Workflow /\ RequestOK(q) /\ StatusFitsStages(w)
    BY <1>1 DEF TypeOK, Changes, Records, Abandons, Scores, Decided, RowsFit
  <1>4. Active(w)
    BY <1>1, <1>3 DEF Workflow, Active, Exists
  <1>5. CASE Records(q)
    <2>1. /\ q.stage = NextStage(w)
          /\ q.stage \in {"A", "B", "A2"} /\ q.recording \in Runs
          /\ workflows'[test] = Attached(w, q.recording) /\ ledger' = ledger
      BY <1>1, <1>3, <1>5 DEF Records, CanAttach, StageTable, RequestOK, TypeOK
    <2>2. /\ workflows'[test].status = RecordedStatus[Len(w.stages) + 1]
          /\ Len(w.stages) \in 0 .. 2
      BY <1>3, <2>1, AttachedShape
    <2>3. w.status = IF w.stages = <<>> THEN "planned" ELSE RecordedStatus[Len(w.stages)]
      BY <1>3, <1>4 DEF StatusFitsStages
    <2>4. w.stages = <<>> <=> Len(w.stages) = 0
      BY <1>3 DEF Workflow
    <2>5. \/ w.status = "planned" /\ workflows'[test].status = "a_recorded"
          \/ w.status = "a_recorded" /\ workflows'[test].status = "b_recorded"
          \/ w.status = "b_recorded" /\ workflows'[test].status = "a2_recorded"
      <3>1. CASE Len(w.stages) = 0
        BY <2>2, <2>3, <2>4, <3>1 DEF RecordedStatus
      <3>2. CASE Len(w.stages) = 1
        BY <2>2, <2>3, <2>4, <3>2 DEF RecordedStatus
      <3>3. CASE Len(w.stages) = 2
        BY <2>2, <2>3, <2>4, <3>3 DEF RecordedStatus
      <3> QED
        BY <2>2, <3>1, <3>2, <3>3
    <2> QED
      BY <1>1, <1>2, <2>1, <2>5 DEF Tests!Record, Tests!Move, Statuses
  <1>6. CASE Abandons(q)
    <2>1. workflows'[test] = Cancelled(w) /\ ledger' = ledger
      BY <1>1, <1>6 DEF Abandons, CancelTable, TypeOK
    <2>2. workflows'[test].status = "cancelled"
      BY <1>3, <2>1, CancelledShape
    <2>3. w.status \in Tests!Open
      BY <1>4 DEF Active, ActiveStatus, Tests!Open
    <2> QED
      BY <1>1, <1>2, <2>1, <2>2, <2>3 DEF Tests!Abandon, Statuses
  <1>7. CASE Scores(q)
    <2> DEFINE capture == IF ledgerSound THEN "captured" ELSE "blocked"
               n == ScoredCount(workflows) + 1
    <2>1. /\ workflows'[test] = Scored(w, capture, n) /\ Len(w.stages) = 3
          /\ ledger' = IF ledgerSound THEN ledger \cup {test} ELSE ledger
      BY <1>1, <1>7 DEF Scores, ScoreTable, ScoreLedger, TypeOK
    <2>2. capture \in {"captured", "blocked"} /\ n \in Nat
      BY ScoredCountType DEF TypeOK
    <2> HIDE DEF capture, n
    <2>3. workflows'[test].status = "scored"
      BY <1>3, <2>1, <2>2, ScoredShape
    <2>4. w.stages # <<>>
      BY <2>1
    <2>5. w.status = RecordedStatus[3]
      BY <1>3, <1>4, <2>1, <2>4 DEF StatusFitsStages
    <2>6. w.status = "a2_recorded"
      BY <2>5 DEF RecordedStatus
    <2> QED
      BY <1>1, <1>2, <2>1, <2>3, <2>6 DEF Tests!Score, Tests!Move, Statuses
  <1> QED
    BY <1>1, <1>5, <1>6, <1>7 DEF Changes

\* Whatever the clients race to do, each workflow lives the life of one test and
\* one test is open at a time, as long as the runs tests start from stay in the
\* session and the row an older build may have left is open.
THEOREM ControlledTestImplemented ==
    ASSUME SourcesAreKept, \A w \in Legacy : Active(w)
    PROVE  Spec => ImplementsControlledTest
  <1>1. Init => Tests!Init
    BY RefineTestInit
  <1>2. ASSUME TypeOK, TypeOK', WInv, RowsFit, Anchored, [Next]_vars
        PROVE  Tests!Next \/ UNCHANGED <<Statuses, ledger>>
    <2>1. TableStep
      BY <1>2, StepKnows
    <2>2. CASE Rests
      BY <2>2 DEF Rests, Statuses
    <2>3. ASSUME NEW q, NEW new, Plans(q, new) PROVE Tests!Next
      <3>1. new \in Workflows
        BY <1>2, <2>3, PlanShape
      <3> QED
        BY <1>2, <2>3, <3>1, RefinePlan DEF Tests!Next
    <2>4. ASSUME NEW q, Changes(q) PROVE Tests!Next
      BY <1>2, <2>4, RefineChange DEF Tests!Next
    <2> QED
      BY <2>1, <2>2, <2>3, <2>4 DEF TableStep
  <1>3. TypeOK /\ TypeOK' /\ WInv /\ RowsFit /\ Anchored /\ [Next]_vars
            => [Tests!Next]_<<Statuses, ledger>>
    BY <1>2
  <1> QED
    BY <1>1, <1>3, Knowledge, StatusFollowsStages, SourcesHold, PTL
       DEF Spec, ImplementsControlledTest, Tests!Spec, Statuses

-----------------------------------------------------------------------------
(***************************************************************************)
(* The receipts.  What a row went through is counted by the receipts that  *)
(* name it: none before it is planned, one more for each change, and never *)
(* a second one for the same request.                                      *)
(***************************************************************************)
Told(book, id, kind) == {r \in book : r.workflow = id /\ r.request.kind = kind}

Accounted(book, id, w) ==
    /\ Cardinality(Told(book, id, "start")) = 1
    /\ Cardinality(Told(book, id, "stage")) = Len(w.stages)
    /\ \A i \in DOMAIN w.stages : \E r \in Told(book, id, "stage") :
          r.request.stage = Stages[i] /\ r.request.recording = w.stages[i]
    /\ Cardinality(Told(book, id, "cancel")) = (IF w.status = "cancelled" THEN 1 ELSE 0)
    /\ Cardinality(Told(book, id, "score")) = (IF w.status = "scored" THEN 1 ELSE 0)

Books ==
    /\ IsFiniteSet(receipts)
    /\ \A r \in receipts : r.workflow \in Workflows => Exists(workflows[r.workflow])
    /\ \A id \in Workflows :
          Exists(workflows[id]) /\ workflows[id].bound
              => Accounted(receipts, id, workflows[id])

\* A receipt of a request that had none counts once, where it belongs.
LEMMA BookGrows ==
    ASSUME IsFiniteSet(receipts), NEW q, NEW case, NEW id, NEW row,
           ~HasReceipt(q), SaveReceipt(q, case, id, row),
           NEW other, NEW kind
    PROVE  /\ IsFiniteSet(receipts')
           /\ ~(other = id /\ kind = q.kind)
                  => Told(receipts', other, kind) = Told(receipts, other, kind)
           /\ Told(receipts, id, q.kind) \subseteq Told(receipts', id, q.kind)
           /\ \E r \in Told(receipts', id, q.kind) : r.request = q
           /\ Cardinality(Told(receipts, id, q.kind)) \in Nat
           /\ Cardinality(Told(receipts', id, q.kind))
                  = Cardinality(Told(receipts, id, q.kind)) + 1
  <1> DEFINE new == [request |-> q, result |-> case, workflow |-> id, revision |-> row]
             before == Told(receipts, id, q.kind)
             after == Told(receipts', id, q.kind)
  <1>1. receipts' = receipts \cup {new}
    BY DEF SaveReceipt
  <1>2. new.request = q /\ new.workflow = id
    OBVIOUS
  <1> HIDE DEF new
  <1>3. new \notin receipts
    BY <1>2 DEF HasReceipt
  <1>4. IsFiniteSet(receipts')
    BY <1>1, FS_AddElement
  <1>5. after = before \cup {new}
    BY <1>1, <1>2 DEF Told
  <1>6. before \subseteq receipts /\ new \notin before /\ new \in after
    BY <1>3, <1>5 DEF Told
  <1>7. IsFiniteSet(before)
    BY <1>6, FS_Subset
  <1>8. ~(other = id /\ kind = q.kind)
            => Told(receipts', other, kind) = Told(receipts, other, kind)
    BY <1>1, <1>2 DEF Told
  <1> HIDE DEF before, after
  <1>9. Cardinality(before) \in Nat /\ Cardinality(after) = Cardinality(before) + 1
    BY <1>5, <1>6, <1>7, FS_AddElement, FS_CardinalityType
  <1> QED
    BY <1>2, <1>4, <1>5, <1>6, <1>8, <1>9 DEF before, after

\* A row no receipt counts for has none of any kind.
LEMMA UntoldRow ==
    ASSUME NEW id, NEW kind, \A r \in receipts : r.workflow # id
    PROVE  Told(receipts, id, kind) = {} /\ Cardinality(Told(receipts, id, kind)) = 0
  BY FS_EmptySet DEF Told

\* What a receipt says of another row leaves this one's account as it was.
LEMMA AccountKept ==
    ASSUME Books, NEW q, NEW id, Decided(q, id),
           NEW other \in Workflows \ {id}, Accounted(receipts, other, workflows[other])
    PROVE  Accounted(receipts', other, workflows[other])
  <1>1. PICK case, row : SaveReceipt(q, case, id, row)
    BY DEF Decided
  <1>2. \A kind : Told(receipts', other, kind) = Told(receipts, other, kind)
    BY <1>1, BookGrows DEF Books, Decided
  <1> QED
    BY <1>2 DEF Accounted

\* The rows with a receipt are rows of the table, after a receipt as before it.
LEMMA BooksName ==
    ASSUME Books, NEW q, NEW id, Decided(q, id),
           id \in Workflows => Exists(workflows'[id]),
           \A other \in Workflows : Exists(workflows[other]) => Exists(workflows'[other])
    PROVE  /\ IsFiniteSet(receipts')
           /\ \A r \in receipts' : r.workflow \in Workflows => Exists(workflows'[r.workflow])
  <1>1. PICK case, row : SaveReceipt(q, case, id, row)
    BY DEF Decided
  <1>2. IsFiniteSet(receipts')
    BY <1>1, BookGrows DEF Books, Decided
  <1>3. \A r \in receipts' : r \in receipts \/ r.workflow = id
    BY <1>1 DEF SaveReceipt
  <1> QED
    BY <1>2, <1>3 DEF Books

LEMMA RestsBook ==
    ASSUME Books, Rests PROVE Books'
  <1>1. workflows' = workflows
    BY DEF Rests
  <1>2. CASE receipts' = receipts
    BY <1>1, <1>2 DEF Books
  <1>3. ASSUME NEW q, Decided(q, None) PROVE Books'
    <2>1. /\ IsFiniteSet(receipts')
          /\ \A r \in receipts' : r.workflow \in Workflows => Exists(workflows'[r.workflow])
      BY <1>1, <1>3, BooksName, RunsAssumption
    <2>2. \A id \in Workflows : Accounted(receipts, id, workflows[id])
                                    => Accounted(receipts', id, workflows[id])
      BY <1>3, AccountKept, RunsAssumption
    <2> QED
      BY <1>1, <2>1, <2>2 DEF Books
  <1> QED
    BY <1>2, <1>3 DEF Rests

LEMMA PlanBooks ==
    ASSUME TypeOK, Books, NEW q, NEW id, Plans(q, id) PROVE Books'
  <1>1. /\ id \in Workflows
        /\ workflows'[id].status = "planned" /\ workflows'[id].stages = <<>>
        /\ \A other \in Workflows \ {id} : workflows'[other] = workflows[other]
    BY PlanShape
  <1>2. Decided(q, id) /\ q.kind = "start" /\ ~Exists(workflows[id])
    BY DEF Plans
  <1>3. Exists(workflows'[id])
    BY <1>1 DEF Exists
  <1>4. /\ IsFiniteSet(receipts')
        /\ \A r \in receipts' : r.workflow \in Workflows => Exists(workflows'[r.workflow])
    BY <1>1, <1>2, <1>3, BooksName
  <1>5. \A r \in receipts : r.workflow # id
    BY <1>1, <1>2 DEF Books
  <1>6. PICK case, row : SaveReceipt(q, case, id, row)
    BY <1>2 DEF Decided
  <1>7. \A kind : Cardinality(Told(receipts, id, kind)) = 0
    BY <1>5, UntoldRow
  <1>8. Cardinality(Told(receipts', id, "start")) = 1
    BY <1>2, <1>6, <1>7, BookGrows DEF Books, Decided
  <1>9. \A kind \in {"stage", "cancel", "score"} :
            Cardinality(Told(receipts', id, kind)) = 0
    BY <1>2, <1>6, <1>7, BookGrows DEF Books, Decided
  <1>10. Len(workflows'[id].stages) = 0 /\ DOMAIN workflows'[id].stages = {}
    <2>1. Len(<<>>) = 0 /\ DOMAIN <<>> = {}
      OBVIOUS
    <2> QED
      BY <1>1, <2>1
  <1>11. Accounted(receipts', id, workflows'[id])
    BY <1>1, <1>8, <1>9, <1>10 DEF Accounted
  <1>12. \A other \in Workflows \ {id} : Accounted(receipts, other, workflows[other])
                                             => Accounted(receipts', other, workflows[other])
    BY <1>2, AccountKept
  <1> QED
    BY <1>1, <1>4, <1>11, <1>12 DEF Books

LEMMA RecordAccounted ==
    ASSUME TypeOK, Books, NEW q, Records(q),
           Accounted(receipts, q.workflow, workflows[q.workflow])
    PROVE  Accounted(receipts', q.workflow, workflows'[q.workflow])
  <1> DEFINE id == q.workflow
             w == workflows[id]
             new == workflows'[id]
  <1>1. /\ id \in Workflows
        /\ w.status \notin TerminalStatus
    BY ChangeShape DEF Changes
  <1>2. q.kind = "stage" /\ RequestOK(q) /\ ~HasReceipt(q)
    BY DEF Records, Decided
  <1>3. w \in Workflow /\ new = Attached(w, q.recording)
    BY <1>1 DEF TypeOK, Records, StageTable
  <1>4. /\ q.stage = NextStage(w) /\ q.stage \in {"A", "B", "A2"}
        /\ q.recording \in Runs /\ Active(w)
    BY <1>2 DEF RequestOK, Records, CanAttach
  <1>5. /\ new.stages = Append(w.stages, q.recording)
        /\ q.stage = Stages[Len(w.stages) + 1]
    BY <1>3, <1>4, AttachedShape
  <1>6. Active(new)
    BY <1>3, <1>4, AttachedPast
  <1>7. w.stages \in Seq(Runs)
    BY <1>3 DEF Workflow
  <1>8. PICK case, row : SaveReceipt(q, case, id, row)
    BY DEF Records, Decided
  <1> DEFINE before == Told(receipts, id, "stage")
             after == Told(receipts', id, "stage")
  <1>9. /\ before \subseteq after
        /\ Cardinality(after) = Cardinality(before) + 1
    BY <1>2, <1>8, BookGrows DEF Books
  <1>10. PICK r \in after : r.request = q
    BY <1>2, <1>8, BookGrows DEF Books
  <1>11. \A kind \in {"start", "cancel", "score"} :
             Told(receipts', id, kind) = Told(receipts, id, kind)
    BY <1>2, <1>8, BookGrows DEF Books
  <1>12. /\ Cardinality(Told(receipts, id, "start")) = 1
         /\ Cardinality(before) = Len(w.stages)
         /\ \A i \in DOMAIN w.stages : \E s \in before :
               s.request.stage = Stages[i] /\ s.request.recording = w.stages[i]
         /\ Cardinality(Told(receipts, id, "cancel")) = 0
         /\ Cardinality(Told(receipts, id, "score")) = 0
    BY <1>1 DEF Accounted, TerminalStatus
  <1>13. new.status # "cancelled" /\ new.status # "scored"
    BY <1>6 DEF Active, ActiveStatus
  <1> HIDE DEF id, w, new, before, after
  <1>14. /\ Len(new.stages) = Len(w.stages) + 1
         /\ new.stages[Len(w.stages) + 1] = q.recording
         /\ \A i \in DOMAIN new.stages : i \in DOMAIN w.stages \/ i = Len(w.stages) + 1
         /\ \A i \in DOMAIN w.stages : new.stages[i] = w.stages[i]
    <2>1. \A n \in Nat : \A i \in 1 .. n + 1 : i \in 1 .. n \/ i = n + 1
      OBVIOUS
    <2> QED
      BY <1>5, <1>7, <2>1
  <1>15. ASSUME NEW i \in DOMAIN new.stages
         PROVE  \E s \in after :
                    s.request.stage = Stages[i] /\ s.request.recording = new.stages[i]
    <2>1. CASE i \in DOMAIN w.stages
      BY <1>9, <1>12, <1>14, <2>1
    <2>2. CASE i = Len(w.stages) + 1
      BY <1>5, <1>10, <1>14, <2>2
    <2> QED
      BY <1>14, <2>1, <2>2
  <1> QED
    BY <1>9, <1>11, <1>12, <1>13, <1>14, <1>15 DEF Accounted, before, after, new, id

LEMMA AbandonAccounted ==
    ASSUME TypeOK, Books, NEW q, Abandons(q),
           Accounted(receipts, q.workflow, workflows[q.workflow])
    PROVE  Accounted(receipts', q.workflow, workflows'[q.workflow])
  <1> DEFINE id == q.workflow
             w == workflows[id]
             new == workflows'[id]
  <1>1. id \in Workflows /\ w.status \notin TerminalStatus
    BY ChangeShape DEF Changes
  <1>2. q.kind = "cancel" /\ ~HasReceipt(q)
    BY DEF Abandons, Decided
  <1>3. w \in Workflow /\ new = Cancelled(w)
    BY <1>1 DEF TypeOK, Abandons, CancelTable
  <1>4. new.status = "cancelled" /\ new.stages = w.stages
    BY <1>3, CancelledShape
  <1>5. PICK case, row : SaveReceipt(q, case, id, row)
    BY DEF Abandons, Decided
  <1>6. Cardinality(Told(receipts', id, "cancel"))
            = Cardinality(Told(receipts, id, "cancel")) + 1
    BY <1>2, <1>5, BookGrows DEF Books
  <1>7. \A kind \in {"start", "stage", "score"} :
            Told(receipts', id, kind) = Told(receipts, id, kind)
    BY <1>2, <1>5, BookGrows DEF Books
  <1>8. w.status # "cancelled" /\ w.status # "scored"
    BY <1>1 DEF TerminalStatus
  <1>9. Cardinality(Told(receipts', id, "cancel")) = 1
    BY <1>6, <1>8 DEF Accounted
  <1> HIDE DEF new
  <1> QED
    BY <1>4, <1>7, <1>8, <1>9 DEF Accounted, new

LEMMA ChangeBooks ==
    ASSUME TypeOK, Books, NEW q, Changes(q) PROVE Books'
  <1> DEFINE id == q.workflow
  <1>1. /\ id \in Workflows /\ Exists(workflows[id])
        /\ workflows'[id].bound = workflows[id].bound
        /\ \A other \in Workflows \ {id} : workflows'[other] = workflows[other]
    BY ChangeShape
  <1>2. Decided(q, id)
    BY DEF Changes, Records, Abandons, Scores
  <1>3. Exists(workflows'[id])
    <2>1. workflows[id] \in Workflow /\ Past(workflows[id], workflows'[id])
      BY <1>1, ChangeShape DEF TypeOK
    <2>2. Rank(workflows[id]) \in Nat
      BY <2>1, RankType
    <2>3. Exists(workflows'[id]) \/ Rank(workflows'[id]) = 0
      BY DEF Rank
    <2> QED
      BY <1>1, <2>1, <2>2, <2>3 DEF Past
  <1>4. /\ IsFiniteSet(receipts')
        /\ \A r \in receipts' : r.workflow \in Workflows => Exists(workflows'[r.workflow])
    BY <1>1, <1>2, <1>3, BooksName
  <1>5. \A other \in Workflows \ {id} : Accounted(receipts, other, workflows[other])
                                            => Accounted(receipts', other, workflows[other])
    BY <1>2, AccountKept
  <1>6. workflows[id].bound => Accounted(receipts', id, workflows'[id])
    <2> SUFFICES ASSUME workflows[id].bound PROVE Accounted(receipts', id, workflows'[id])
      OBVIOUS
    <2>1. Accounted(receipts, id, workflows[id])
      BY <1>1 DEF Books
    <2>2. Records(q) \/ Abandons(q)
      BY DEF Changes, Scores
    <2> QED
      BY <2>1, <2>2, RecordAccounted, AbandonAccounted
  <1> QED
    BY <1>1, <1>4, <1>5, <1>6 DEF Books

\* For every workflow planned by these routes the receipts account for exactly
\* what its row says happened, whatever clients raced or repeated.
THEOREM ReceiptsAccount == Spec => []ReceiptsAccountForWorkflows
  <1>1. Init => Books
    <2> SUFFICES ASSUME Init PROVE Books
      OBVIOUS
    <2>1. receipts = {}
      BY DEF Init
    <2>2. IsFiniteSet(receipts)
      BY <2>1, FS_EmptySet
    <2>3. \A id \in Workflows : ~Exists(workflows[id]) \/ ~workflows[id].bound
      BY InitRows, LegacyAssumption DEF Absent, Exists
    <2> QED
      BY <2>1, <2>2, <2>3 DEF Books
  <1>2. TypeOK /\ TypeOK' /\ WInv /\ Books /\ [Next]_vars => Books'
    BY StepKnows, RestsBook, PlanBooks, ChangeBooks DEF TableStep
  <1>3. Books => ReceiptsAccountForWorkflows
    BY DEF Books, Accounted, Told, ReceiptsAccountForWorkflows
  <1> QED
    BY <1>1, <1>2, <1>3, Knowledge, PTL DEF Spec

-----------------------------------------------------------------------------
(***************************************************************************)
(* A mutation and the case that shows it are one step.                     *)
(***************************************************************************)
\* Rebuilding a projection with the objective it shows gives it back.
LEMMA ProjectAgain ==
    ASSUME NEW run, NEW objective, NEW m, NEW e, NEW table, NEW stated, NEW learned
    PROVE  LET case == Project(run, objective, m, e, table, stated, learned)
           IN  Project(run, case.objective, m, e, table, stated, learned) = case
  <1> DEFINE last == IF stated = <<>> THEN objective ELSE stated[Len(stated)]
             case == Project(run, objective, m, e, table, stated, learned)
  <1>1. case.objective = last
    BY DEF Project
  <1>2. (IF stated = <<>> THEN last ELSE stated[Len(stated)]) = last
    OBVIOUS
  <1> HIDE DEF last
  <1>3. Project(run, last, m, e, table, stated, learned) = case
    BY <1>2 DEF Project, last
  <1> QED
    BY <1>1, <1>3

ShownBy(run) ==
    /\ Len(revisions'[run]) = Len(revisions[run]) + 1
    /\ revisions'[run][Len(revisions'[run])].sha =
          Project(run, revisions'[run][Len(revisions'[run])].sha.objective,
                  members, evidence, workflows', intents'[run], Cardinality(ledger'))

LEMMA PublishShows ==
    ASSUME TypeOK, NEW run \in CaseRuns, NEW objective, NEW category,
           Publish(run, Project(run, objective, members, evidence, workflows',
                                intents'[run], Cardinality(ledger')), category)
    PROVE  ShownBy(run)
  <1> DEFINE case == Project(run, objective, members, evidence, workflows',
                             intents'[run], Cardinality(ledger'))
             old == revisions[run]
             entry == [sha |-> case, previous |-> HeadSha(run),
                       category |-> IF old = <<>> THEN "initial" ELSE category]
  <1>1. Project(run, case.objective, members, evidence, workflows', intents'[run],
                Cardinality(ledger')) = case
    BY ProjectAgain
  <1>2. entry.sha = case
    OBVIOUS
  <1>3. revisions' = [revisions EXCEPT ![run] = Append(old, entry)]
    BY DEF Publish
  <1> HIDE DEF case, entry
  <1>4. revisions'[run] = Append(old, entry) /\ old \in Seq(Revision)
    BY <1>3 DEF TypeOK
  <1> HIDE DEF old
  <1>5. Len(Append(old, entry)) = Len(old) + 1 /\ Append(old, entry)[Len(old) + 1] = entry
    BY <1>4
  <1>6. revisions'[run][Len(revisions'[run])].sha = case
    BY <1>2, <1>4, <1>5
  <1> QED
    BY <1>1, <1>4, <1>5, <1>6 DEF ShownBy, old, case

LEMMA CommitShows ==
    ASSUME TypeOK, NEW c \in Clients, RequestOK(clients[c].request),
           NEW table, NEW learned, NEW category,
           CommitWorkflow(c, table, learned, category)
    PROVE  \E run \in CaseRuns : ShownBy(run)
  <1> DEFINE q == clients[c].request
  <1>1. q.run \in CaseRuns
    BY DEF RequestOK
  <1>2. /\ Publish(q.run, WorkflowCase(q, table, learned), category)
        /\ workflows' = table /\ ledger' = learned /\ intents' = intents
    BY DEF CommitWorkflow
  <1>3. WorkflowCase(q, table, learned) =
            Project(q.run, HeadSha(q.run).objective, members, evidence, workflows',
                    intents'[q.run], Cardinality(ledger'))
    BY <1>2 DEF WorkflowCase, Rebuilt
  <1> HIDE DEF q
  <1> QED
    BY <1>1, <1>2, <1>3, PublishShows

\* No step changes what a case is a projection of without publishing the case.
THEOREM MutationsAreShown == Spec => MutationShowsInTheCase
  <1> DEFINE Shows == <<workflows, intents, ledger>>' # <<workflows, intents, ledger>> =>
                          \E run \in CaseRuns : ShownBy(run)
  <1>1. ASSUME TypeOK, [Next]_vars PROVE Shows
    <2> SUFFICES ASSUME <<workflows, intents, ledger>>' # <<workflows, intents, ledger>>
                 PROVE  \E run \in CaseRuns : ShownBy(run)
      OBVIOUS
    <2>1. PICK c \in Clients : \/ IntentWrite(c) \/ StartWrite(c)
                              \/ StageWrite(c) \/ CancelWrite(c) \/ ScoreWrite(c)
      BY <1>1 DEF Next, Send, Handle, GetRead, GetMerge, GetWrite, IntentRead, IntentMerge,
                  StartMerge, StartRecover, Replay, OpenTransaction, ScoreRead,
                  ScorePrepare, Rollback, LockTimeout, Crash, AddRun, RemoveRun,
                  EvidenceChanges, Refuse, store, vars
    <2> DEFINE q == clients[c].request
    <2>2. RequestOK(q) /\ q.run \in CaseRuns
      BY <1>1, <2>1 DEF IntentWrite, StartWrite, StageWrite, CancelWrite, ScoreWrite, At,
                        TypeOK, ClientOK, Resting, RequestOK
    <2>3. q.run \in DOMAIN intents
      BY <1>1, <2>2 DEF TypeOK
    <2>4. CASE IntentWrite(c)
      <3>1. /\ Publish(q.run, IntentCase(q), "driver_intent")
            /\ intents' = [intents EXCEPT ![q.run] = StatedIntents(q)]
            /\ workflows' = workflows /\ ledger' = ledger
        BY <2>4 DEF IntentWrite
      <3>2. intents'[q.run] = StatedIntents(q)
        BY <2>3, <3>1
      <3>3. IntentCase(q) = Project(q.run, q.objective, members, evidence, workflows',
                                    intents'[q.run], Cardinality(ledger'))
        BY <3>1, <3>2 DEF IntentCase, Rebuilt
      <3> HIDE DEF q
      <3> QED
        BY <1>1, <2>2, <3>1, <3>3, PublishShows
    <2>5. CASE StartWrite(c)
      <3> DEFINE new == clients[c].candidate
      <3>1. /\ \E category : Publish(q.run, StartCase(q, new), category)
            /\ intents' = [intents EXCEPT ![q.run] = StatedIntents(q)]
            /\ workflows' = StartTable(new) /\ ledger' = ledger
        BY <2>5 DEF StartWrite
      <3>2. intents'[q.run] = StatedIntents(q)
        BY <2>3, <3>1
      <3>3. StartCase(q, new) = Project(q.run, q.objective, members, evidence, workflows',
                                        intents'[q.run], Cardinality(ledger'))
        BY <3>1, <3>2 DEF StartCase, Rebuilt
      <3> HIDE DEF q, new
      <3> QED
        BY <1>1, <2>2, <3>1, <3>3, PublishShows
    <2>6. CASE StageWrite(c) \/ CancelWrite(c) \/ ScoreWrite(c)
      <3>1. \E table, learned, category : CommitWorkflow(c, table, learned, category)
        BY <2>6 DEF StageWrite, CancelWrite, ScoreWrite
      <3> QED
        BY <1>1, <2>2, <3>1, CommitShows
    <2> QED
      BY <2>1, <2>4, <2>5, <2>6
  <1>2. TypeOK /\ [Next]_vars => [Shows]_vars
    BY <1>1
  <1> HIDE DEF Shows
  <1>3. Spec => [][Shows]_vars
    BY <1>2, TypeCorrect, PTL DEF Spec
  <1> QED
    BY <1>3 DEF MutationShowsInTheCase, Shows, ShownBy

-----------------------------------------------------------------------------
(***************************************************************************)
(* What the interface shows: one case, or none, for every run it can open. *)
(***************************************************************************)
CoversRuns(view) == view = [run \in CaseRuns |-> view[run]]

ViewsAreComplete == \A c \in Clients : CoversRuns(clients[c].view)

\* An answer that carries a case shows it to the interface, or is lost.
LEMMA ReplyShows ==
    ASSUME TypeOK, NEW c \in Clients, NEW answer, NEW case, Reply(c, answer, case),
           CoversRuns(clients[c].view)
    PROVE  /\ clients'[c].pc = answer
           /\ clients'[c].view \in
                {clients[c].view,
                 [clients[c].view EXCEPT ![clients[c].request.run] = case]}
           /\ CoversRuns(clients'[c].view)
           /\ case = None => clients'[c].view = clients[c].view
           /\ \A d \in Clients \ {c} : clients'[d] = clients[d]
  <1> DEFINE view == clients[c].view
             run == clients[c].request.run
  <1>1. PICK seen \in {view[run], IF case = None THEN view[run] ELSE case} :
            clients' = [clients EXCEPT ![c] =
                [pc |-> answer, request |-> None, snapshot |-> None, built |-> None,
                 candidate |-> None, view |-> [view EXCEPT ![run] = seen]]]
    BY DEF Reply
  <1>2. /\ clients'[c].pc = answer /\ clients'[c].view = [view EXCEPT ![run] = seen]
        /\ \A d \in Clients \ {c} : clients'[d] = clients[d]
    BY <1>1 DEF TypeOK
  <1> HIDE DEF view, run
  <1>3. view = [r \in CaseRuns |-> view[r]]
    BY DEF view, CoversRuns
  <1>4. [view EXCEPT ![run] = view[run]] = view
    BY <1>3
  <1>5. [view EXCEPT ![run] = seen] = [r \in CaseRuns |-> IF r = run THEN seen ELSE view[r]]
    BY <1>3
  <1>6. CoversRuns([view EXCEPT ![run] = seen])
    BY <1>5 DEF CoversRuns
  <1> QED
    BY <1>1, <1>2, <1>4, <1>6 DEF view, run

LEMMA ViewsKept ==
    ASSUME TypeOK, ViewsAreComplete, [Next]_vars
    PROVE  ViewsAreComplete'
  <1>1. ASSUME NEW c \in Clients, NEW answer, NEW case, Reply(c, answer, case)
        PROVE  ViewsAreComplete'
    BY <1>1, ReplyShows DEF ViewsAreComplete
  <1>2. ASSUME \A c \in Clients : clients'[c].view = clients[c].view
        PROVE  ViewsAreComplete'
    BY <1>2 DEF ViewsAreComplete, CoversRuns
  <1>3. CASE AddRun \/ RemoveRun \/ EvidenceChanges \/ UNCHANGED vars
    BY <1>2, <1>3 DEF AddRun, RemoveRun, EvidenceChanges, vars
  <1>4. CASE Crash
    BY <1>2, <1>4 DEF Crash, TypeOK, ClientOK
  <1>5. ASSUME NEW c \in Clients, Send(c) PROVE ViewsAreComplete'
    BY <1>2, <1>5 DEF Send, TypeOK, ClientOK
  <1>6. ASSUME NEW c \in Clients, Handle(c) PROVE ViewsAreComplete'
    <2>0. DOMAIN clients = Clients /\ "view" \in DOMAIN clients[c]
      BY DEF TypeOK, ClientOK
    <2>1. CASE Refuse(c)
      BY <1>1, <2>1 DEF Refuse
    <2>3. ASSUME NEW objective, TakeBundle(c, objective) PROVE ViewsAreComplete'
      BY <1>2, <2>0, <2>3 DEF TakeBundle
    <2>4. CASE GetRead(c) \/ GetMerge(c)
      BY <1>2, <2>0, <2>1, <2>3, <2>4 DEF GetRead, GetMerge
    <2>5. CASE GetWrite(c)
      BY <1>1, <2>5 DEF GetWrite
    <2>6. CASE IntentRead(c) \/ IntentMerge(c)
      BY <1>2, <2>0, <2>1, <2>3, <2>6 DEF IntentRead, IntentMerge
    <2>7. CASE IntentWrite(c) \/ StartRecover(c) \/ LockTimeout(c) \/ Rollback(c)
      BY <1>1, <2>1, <2>7 DEF IntentWrite, StartRecover, LockTimeout, Rollback
    <2>8. CASE StartMerge(c) \/ StartWrite(c)
      BY <1>2, <2>0, <2>1, <2>8 DEF StartMerge, StartWrite
    <2>9. CASE Replay(c) \/ OpenTransaction(c)
      BY <1>1, <1>2, <2>0, <2>9 DEF Replay, OpenTransaction
    <2>10. CASE StageWrite(c) \/ CancelWrite(c) \/ ScoreWrite(c)
      BY <1>1, <2>10 DEF StageWrite, CancelWrite, ScoreWrite, CommitWorkflow
    <2>11. CASE ScoreRead(c)
      BY <1>2, <2>0, <2>1, <2>11 DEF ScoreRead
    <2>12. CASE ScorePrepare(c)
      BY <1>2, <2>0, <2>1, <2>12 DEF ScorePrepare
    <2> QED
      BY <1>6, <2>4, <2>5, <2>6, <2>7, <2>8, <2>9, <2>10, <2>11, <2>12 DEF Handle
  <1> QED
    BY <1>3, <1>4, <1>5, <1>6 DEF Next

LEMMA ViewsComplete == Spec => []ViewsAreComplete
  <1>1. Init => ViewsAreComplete
    BY DEF Init, Idle, ViewsAreComplete, CoversRuns
  <1> QED
    BY <1>1, ViewsKept, TypeCorrect, PTL DEF Spec

-----------------------------------------------------------------------------
\* A repeated stage, cancel or score request is done once, and answered with the
\* response its receipt keeps, at whichever line its second delivery finds it:
\* not with the case as it stands by then, and no check that has since come to
\* fail refuses it.
THEOREM ReplaysAreFaithful == Spec => ReplayIsFaithful
  <1> DEFINE Answered(c, q) ==
               \/ /\ clients'[c].pc = "ok"
                  /\ \E r \in receipts :
                        r.request = q /\ Delivered(c, q.run, r.result)
               \/ /\ clients'[c].pc \in {"locked", "lost"}
                  /\ clients'[c].view = clients[c].view
             Faithful ==
        \A c \in Clients :
          /\ clients[c].pc \in {"read", "write"}
          /\ clients[c].request.kind \in {"stage", "cancel", "score"}
          /\ \E r \in receipts : r.request = clients[c].request
          /\ clients'[c].pc \in Resting
          => /\ UNCHANGED <<workflows, revisions, receipts, ledger>>
             /\ Answered(c, clients[c].request)
  <1>1. ASSUME TypeOK, ViewsAreComplete, [Next]_vars PROVE Faithful
    <2> SUFFICES ASSUME NEW c \in Clients,
                        clients[c].pc \in {"read", "write"},
                        clients[c].request.kind \in {"stage", "cancel", "score"},
                        HasReceipt(clients[c].request),
                        clients'[c].pc \in Resting
                 PROVE  /\ UNCHANGED <<workflows, revisions, receipts, ledger>>
                        /\ Answered(c, clients[c].request)
      BY DEF HasReceipt
    <2> DEFINE q == clients[c].request
    <2>1. clients[c].pc \notin Resting /\ clients'[c] # clients[c]
      BY DEF Resting
    <2>2. CASE Crash
      <3>1. clients'[c].pc = "lost" /\ clients'[c].view = clients[c].view
        BY <1>1, <2>1, <2>2 DEF Crash, TypeOK, ClientOK
      <3>2. UNCHANGED <<workflows, revisions, receipts, ledger>>
        BY <2>2 DEF Crash, store
      <3> QED
        BY <3>1, <3>2
    <2>3. CASE AddRun \/ RemoveRun \/ EvidenceChanges \/ UNCHANGED vars
      BY <2>1, <2>3 DEF AddRun, RemoveRun, EvidenceChanges, vars
    <2>4. ASSUME NEW d \in Clients, Send(d) \/ Handle(d), d # c
          PROVE  clients'[c] = clients[c]
      BY <1>1, <2>4
         DEF Send, Handle, GetRead, GetMerge, GetWrite, IntentRead, IntentMerge,
             IntentWrite, StartMerge, StartWrite, StartRecover, Replay, OpenTransaction,
             StageWrite, CancelWrite, CommitWorkflow, ScoreRead, ScorePrepare, ScoreWrite,
             Rollback, LockTimeout, Refuse, Reply, TakeBundle, TypeOK
    <2>5. ~Send(c)
      BY <2>1 DEF Send
    <2>6. CASE Handle(c)
      <3>1. Replay(c) \/ LockTimeout(c)
        BY <2>6 DEF Handle, GetRead, GetMerge, GetWrite, IntentRead, IntentMerge,
             IntentWrite, StartMerge, StartWrite, StartRecover, OpenTransaction,
             StageWrite, CancelWrite, ScoreRead, ScorePrepare, ScoreWrite, Rollback, At
      <3>2. UNCHANGED <<workflows, revisions, receipts, ledger>>
        BY <3>1 DEF Replay, LockTimeout, store
      <3>3. CASE Replay(c)
        <4> DEFINE r == ReceiptOf(q)
        <4>1. r \in receipts /\ r.request = q
          BY DEF HasReceipt, ReceiptOf
        <4>2. Reply(c, "ok", r.result)
          BY <3>3 DEF Replay
        <4> HIDE DEF r
        <4>3. clients'[c].pc = "ok" /\ Delivered(c, q.run, r.result)
          BY <1>1, <4>2, ReplyShows DEF Delivered, ViewsAreComplete
        <4> QED
          BY <3>2, <4>1, <4>3
      <3>4. CASE LockTimeout(c)
        <4>1. Reply(c, "locked", None)
          BY <3>4 DEF LockTimeout
        <4>2. clients'[c].pc = "locked" /\ clients'[c].view = clients[c].view
          BY <1>1, <4>1, ReplyShows DEF ViewsAreComplete
        <4> QED
          BY <3>2, <4>2
      <3> QED
        BY <3>1, <3>3, <3>4
    <2> QED
      BY <1>1, <2>1, <2>2, <2>3, <2>4, <2>5, <2>6 DEF Next
  <1>2. TypeOK /\ ViewsAreComplete /\ [Next]_vars => [Faithful]_vars
    BY <1>1
  <1> HIDE DEF Faithful
  <1>3. Spec => [][Faithful]_vars
    BY <1>2, TypeCorrect, ViewsComplete, PTL DEF Spec
  <1> QED
    BY <1>3 DEF ReplayIsFaithful, Faithful

=============================================================================
