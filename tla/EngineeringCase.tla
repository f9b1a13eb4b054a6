--------------------------- MODULE EngineeringCase ---------------------------
(***************************************************************************)
(* The Engineering Case of a run in a saved session, and the five requests *)
(* that move it: reading the current case, stating a driver intent,        *)
(* starting a controlled workflow, recording one of its stages, abandoning *)
(* it and scoring it.                                                      *)
(*                                                                         *)
(* A case is a projection of the session's evidence.  Every publication    *)
(* appends a revision whose identity is the hash of the projection (here:  *)
(* the projection itself) and moves the head.  A mutation names the        *)
(* revision it was decided on, and runs in one SQLite write transaction:   *)
(* check the head, change the tables, rebuild the projection on a copy of  *)
(* the transaction, publish it, keep a receipt.  Reads are several         *)
(* statements of several connections, so they are several steps here.      *)
(***************************************************************************)
EXTENDS ControlledWorkflow

CONSTANTS
    Clients,          \* requests in flight (threads of the server's pool)
    CaseRuns,         \* runs whose case is opened
    Objectives,       \* EngineeringObjective
    DefaultObjective, \* RACE_LONG_RUN
    Churn,            \* runs the user may add to and remove from the session
    EvidenceStates,   \* what the stored evidence allows, see evidence
    Legacy,           \* rows a database may hold from before the P32 receipts
    MaxSends          \* requests the clients send in all

ASSUME CaseAssumption ==
    /\ CaseRuns \subseteq Runs /\ Churn \subseteq Runs
    /\ DefaultObjective \in Objectives /\ None \notin Objectives
    /\ EvidenceStates \subseteq {"ready", "withheld", "blocked"}
    /\ "ready" \in EvidenceStates
    /\ MaxSends \in Nat

\* A row of an older build has a source and the status its stages call for, and
\* nothing of what later builds added: no P32 identity, no captured experience.
ASSUME LegacyAssumption ==
    /\ Legacy \subseteq Workflow
    /\ \A w \in Legacy : /\ w.source \in Runs /\ StatusFitsStages(w)
                         /\ ~w.bound /\ w.capture = "not_applicable"

VARIABLES
    workflows,    \* table controlled_test_workflows
    members,      \* run_ids of the saved session
    evidence,     \* "ready": P19 authorises the card; "withheld": it does not;
                  \* "blocked": data quality or telemetry health forbids any move
    intents,      \* [CaseRuns -> sequence of objectives], engineering_driver_intents
    revisions,    \* [CaseRuns -> sequence], engineering_case_revisions
    receipts,     \* table controlled_workflow_mutation_receipts
    ledger,       \* workflows whose experience is in the P33 stream
    ledgerSound,  \* the P33 chain passes its mutation-time audit
    clients,      \* the request each client has in flight
    sends         \* requests sent so far

store == <<workflows, intents, revisions, receipts, ledger>>
environment == <<members, evidence, ledgerSound>>
vars == <<workflows, members, evidence, intents, revisions, receipts, ledger,
          ledgerSound, clients, sends>>

Resting == {"idle", "ok", "refused", "collision", "locked", "lost"}

-----------------------------------------------------------------------------
(***************************************************************************)
(* The projection.                                                         *)
(***************************************************************************)
\* Any stored workflow of the session whose origin no longer holds blocks the
\* session's data quality.
Blocked(m, e, table) ==
    \/ e = "blocked"
    \/ \E id \in Workflows : /\ Exists(table[id])
                             /\ Occupied(table[id]) \cap m # {}
                             /\ ~OriginValid(table[id], m)

Related(m, table) ==
    {id \in Workflows : /\ Exists(table[id])
                        /\ Occupied(table[id]) \cap m # {}
                        /\ OriginValid(table[id], m)}

\* The bundle raises unless the run is a member and at most one workflow of
\* the session is active.
Buildable(run, m, table) ==
    /\ run \in m
    /\ Cardinality({id \in Related(m, table) : Active(table[id])}) <= 1

\* The workflow the guidance is about: the active one that touches the run, or
\* else the last scored one.
Selected(run, m, table) ==
    LET touching == {id \in Related(m, table) : run \in Occupied(table[id])}
        open == {id \in touching : Active(table[id])}
        scored == {id \in touching : table[id].status = "scored"}
        last == {id \in scored : \A other \in scored :
                                     table[other].ordinal <= table[id].ordinal}
    IN  IF open # {} THEN CHOOSE id \in open : TRUE
        ELSE IF last # {} THEN CHOOSE id \in last : TRUE
        ELSE None

\* The next trustworthy move names it, unless the evidence has to be recovered
\* first.
NamedWorkflow(run, m, e, table) ==
    IF Blocked(m, e, table) THEN None ELSE Selected(run, m, table)

Project(run, objective, m, e, table, stated, learned) ==
    [run       |-> run,
     objective |-> IF stated = <<>> THEN objective ELSE stated[Len(stated)],
     intents   |-> Len(stated),
     members   |-> m,
     evidence  |-> e,
     workflows |-> table,
     active    |-> NamedWorkflow(run, m, e, table),
     learned   |-> learned]

\* P19 authorises the workflow's own card now.
Authorised(run) ==
    /\ evidence = "ready"
    /\ ~Blocked(members, evidence, workflows)
    /\ Buildable(run, members, workflows)

-----------------------------------------------------------------------------
(***************************************************************************)
(* The revision log.                                                       *)
(***************************************************************************)
HeadSha(run) ==
    IF revisions[run] = <<>> THEN None ELSE revisions[run][Len(revisions[run])].sha

\* Variant: the column is not UNIQUE.
NeverPublished(run, case) == FALSE

\* case_sha256 is UNIQUE over the table.
Published(run, case) == \E i \in DOMAIN revisions[run] : revisions[run][i].sha = case

\* Variant: the head revision is updated in place.
Overwrite(run, case, category) ==
    revisions' = [revisions EXCEPT ![run] =
        LET entry == [sha |-> case, previous |-> HeadSha(run), category |-> category]
        IN  IF @ = <<>> THEN <<entry>> ELSE [@ EXCEPT ![Len(@)] = entry]]

Publish(run, case, category) ==
    revisions' = [revisions EXCEPT ![run] =
        Append(@, [sha      |-> case,
                   previous |-> HeadSha(run),
                   category |-> IF @ = <<>> THEN "initial" ELSE category])]

\* Variant: receipts are kept and never looked up.
ReceiptIgnored(request) == FALSE

HasReceipt(request) == \E r \in receipts : r.request = request
ReceiptOf(request) == CHOOSE r \in receipts : r.request = request

SaveReceipt(request, case, id, row) ==
    receipts' = receipts \cup
        {[request |-> request, result |-> case, workflow |-> id, revision |-> row]}

-----------------------------------------------------------------------------
(***************************************************************************)
(* Requests and replies.                                                   *)
(***************************************************************************)
Request(kind, run, objective, id, stage, recording, expected) ==
    [kind |-> kind, run |-> run, objective |-> objective, workflow |-> id,
     stage |-> stage, recording |-> recording, expected |-> expected]

\* What the interface can ask when it shows the revision seen (or nothing yet).
RequestsFor(run, seen) ==
    {Request("get", run, o, None, None, None, x) :
        o \in Objectives \cup {None}, x \in {None, seen}}
    \cup
    (IF seen = None THEN {} ELSE
        {Request(k, run, o, None, None, None, seen) :
            k \in {"intent", "start"}, o \in Objectives})
    \cup
    UNION {{Request("stage", run, None, id, s, r, seen) :
               s \in {"A", "B", "A2"}, r \in Runs}
           \cup {Request(k, run, None, id, None, None, seen) :
               k \in {"cancel", "score"}} :
           id \in {w \in Workflows : seen # None /\ seen.active = w}}

At(c, kind, pc) == clients[c].pc = pc /\ clients[c].request.kind = kind

\* The handler returns.  The reply, with the revision it carries, reaches the
\* interface or is lost on the way.
Reply(c, answer, case) ==
    LET run == clients[c].request.run
    IN  \E seen \in {clients[c].view[run], IF case = None THEN clients[c].view[run]
                                                          ELSE case} :
            clients' = [clients EXCEPT ![c] =
                [pc |-> answer, request |-> None, snapshot |-> None, built |-> None,
                 candidate |-> None, view |-> [clients[c].view EXCEPT ![run] = seen]]]

Refuse(c) == Reply(c, "refused", None) /\ UNCHANGED <<store, environment, sends>>

Send(c) ==
    /\ clients[c].pc \in Resting
    /\ sends < MaxSends
    /\ sends' = sends + 1
    /\ \E run \in CaseRuns : \E q \in RequestsFor(run, clients[c].view[run]) :
          clients' = [clients EXCEPT ![c].pc = "read", ![c].request = q]
    /\ UNCHANGED <<store, environment>>

-----------------------------------------------------------------------------
(***************************************************************************)
(* Building a case outside a transaction (GET, and the check both driver   *)
(* intent routes make first): the bundle is read, and only then the        *)
(* workflow it names, the driver intents and the learning head.            *)
(***************************************************************************)
Bundle(objective) ==
    [objective |-> objective, members |-> members, evidence |-> evidence,
     workflows |-> workflows]

\* The workflow the bundle names is still the row the table holds.
BundleIsCurrent(run, b) ==
    LET id == NamedWorkflow(run, b.members, b.evidence, b.workflows)
    IN  id = None \/ workflows[id] = b.workflows[id]

Merged(run, b) ==
    Project(run, b.objective, b.members, b.evidence, b.workflows,
            intents[run], Cardinality(ledger))

\* Variant: nothing is asked for a case that was never opened.
HeadObjectiveOrNone(run) ==
    IF HeadSha(run) = None THEN None ELSE HeadSha(run).objective

HeadObjective(run) ==
    IF HeadSha(run) = None THEN DefaultObjective ELSE HeadSha(run).objective

TakeBundle(c, objective) ==
    clients' = [clients EXCEPT ![c].pc = "merge", ![c].snapshot = Bundle(objective)]

GetRead(c) ==
    /\ At(c, "get", "read")
    /\ LET q == clients[c].request
       IN  IF Buildable(q.run, members, workflows)
           THEN /\ TakeBundle(c, IF q.objective = None THEN HeadObjective(q.run)
                                                       ELSE q.objective)
                /\ UNCHANGED <<store, environment, sends>>
           ELSE Refuse(c)

GetMerge(c) ==
    /\ At(c, "get", "merge")
    /\ LET run == clients[c].request.run
           b == clients[c].snapshot
       IN  IF BundleIsCurrent(run, b)
           THEN /\ clients' = [clients EXCEPT ![c].pc = "write",
                                              ![c].snapshot = None,
                                              ![c].built = Merged(run, b)]
                /\ UNCHANGED <<store, environment, sends>>
           ELSE Refuse(c)

\* finalize_case: unchanged truth keeps the head, anything else is appended to
\* whatever the head is by now; only then is the caller's expectation checked.
GetWrite(c) ==
    /\ At(c, "get", "write")
    /\ LET q == clients[c].request
           case == clients[c].built
           answer == IF q.expected \in {None, case} THEN "ok" ELSE "refused"
       IN  \/ /\ HeadSha(q.run) = case
              /\ Reply(c, answer, IF answer = "ok" THEN case ELSE None)
              /\ UNCHANGED <<store, environment, sends>>
           \/ /\ HeadSha(q.run) # case
              /\ ~Published(q.run, case)
              /\ Publish(q.run, case, "rebuild")
              /\ Reply(c, answer, IF answer = "ok" THEN case ELSE None)
              /\ UNCHANGED <<workflows, intents, receipts, ledger, environment, sends>>
           \/ /\ HeadSha(q.run) # case
              /\ Published(q.run, case)
              /\ Reply(c, "collision", None)
              /\ UNCHANGED <<store, environment, sends>>

-----------------------------------------------------------------------------
(***************************************************************************)
(* Stating a driver intent, alone or together with starting a workflow.    *)
(***************************************************************************)
\* _persisted_current_workspace, first half: the head is the one expected.
IntentRead(c) ==
    /\ \/ At(c, "intent", "read")
       \/ At(c, "start", "read") /\ ~HasReceipt(clients[c].request)
    /\ LET q == clients[c].request
       IN  IF HeadSha(q.run) = q.expected /\ Buildable(q.run, members, workflows)
           THEN /\ TakeBundle(c, HeadObjective(q.run))
                /\ UNCHANGED <<store, environment, sends>>
           ELSE Refuse(c)

\* Second half: a rebuild gives the expected case.
StillExpected(c) ==
    LET q == clients[c].request
        b == clients[c].snapshot
    IN  BundleIsCurrent(q.run, b) /\ Merged(q.run, b) = q.expected

IntentMerge(c) ==
    /\ At(c, "intent", "merge")
    /\ IF StillExpected(c)
       THEN /\ clients' = [clients EXCEPT ![c].pc = "write", ![c].snapshot = None]
            /\ UNCHANGED <<store, environment, sends>>
       ELSE Refuse(c)

\* uuid4: an identity nobody else holds.
FreshIds ==
    {id \in Workflows : /\ ~Exists(workflows[id])
                        /\ \A d \in Clients : clients[d].candidate = None
                                              \/ clients[d].candidate.id # id}

\* The candidate is built from what the tables say now, before the transaction.
\* The engine may always withhold it: no authorised card, another active
\* workflow in the scope, no P32 opportunity.
Candidates(run) ==
    {None} \cup
    (IF Authorised(run) /\ SlotFree(workflows, None, ScopeOf({run}, members))
     THEN {[id |-> CHOOSE id \in FreshIds : TRUE, row |-> Planned(run, members, t)] :
              t \in IF FreshIds = {} THEN {} ELSE PlanTimes}
     ELSE {})

StartMerge(c) ==
    /\ At(c, "start", "merge")
    /\ IF StillExpected(c)
       THEN /\ \E candidate \in Candidates(clients[c].request.run) :
                  clients' = [clients EXCEPT ![c].pc = "write", ![c].snapshot = None,
                                             ![c].candidate = candidate]
            /\ UNCHANGED <<store, environment, sends>>
       ELSE Refuse(c)

\* The case as the transaction sees it once the tables are changed.
Rebuilt(run, objective, table, stated, learned) ==
    Project(run, objective, members, evidence, table, stated, Cardinality(learned))

StatedIntents(q) == Append(intents[q.run], q.objective)

IntentCase(q) ==
    Rebuilt(q.run, q.objective, workflows, StatedIntents(q), ledger)

IntentAccepts(q) ==
    /\ HeadSha(q.run) = q.expected
    /\ Buildable(q.run, members, workflows)
    /\ ~Published(q.run, IntentCase(q))

IntentWrite(c) ==
    /\ At(c, "intent", "write")
    /\ LET q == clients[c].request
       IN  /\ IntentAccepts(q)
           /\ intents' = [intents EXCEPT ![q.run] = StatedIntents(q)]
           /\ Publish(q.run, IntentCase(q), "driver_intent")
           /\ Reply(c, "ok", IntentCase(q))
    /\ UNCHANGED <<workflows, receipts, ledger, environment, sends>>

StartTable(candidate) ==
    IF candidate = None THEN workflows
    ELSE [workflows EXCEPT ![candidate.id] = candidate.row]

\* Variant: the case is rebuilt before the intent is visible.
StartCaseWithoutIntent(q, candidate) ==
    Rebuilt(q.run, q.objective, StartTable(candidate), intents[q.run], ledger)

StartCase(q, candidate) ==
    Rebuilt(q.run, q.objective, StartTable(candidate), StatedIntents(q), ledger)

\* Variant: the expected revision is checked only before the transaction.
StartAcceptsAnyHead(q, candidate) ==
    /\ candidate # None =>
          /\ OriginValid(candidate.row, members)
          /\ SlotFree(workflows, None, ScopeOf({q.run}, members))
    /\ Buildable(q.run, members, StartTable(candidate))
    /\ ~Published(q.run, StartCase(q, candidate))
    /\ candidate # None => StartCase(q, candidate).active = candidate.id

\* Variant: the slot was free when the candidate was built, and the rebuilt
\* bundle tolerates a second active workflow.
StartAcceptsTakenSlot(q, candidate) ==
    /\ HeadSha(q.run) = q.expected
    /\ candidate # None => OriginValid(candidate.row, members)
    /\ ~Published(q.run, StartCase(q, candidate))

\* A candidate is inserted only while its scope is free and its origin holds,
\* and the response must show it as the successor case's workflow.
StartAccepts(q, candidate) ==
    /\ HeadSha(q.run) = q.expected
    /\ candidate # None =>
          /\ OriginValid(candidate.row, members)
          /\ SlotFree(workflows, None, ScopeOf({q.run}, members))
    /\ Buildable(q.run, members, StartTable(candidate))
    /\ ~Published(q.run, StartCase(q, candidate))
    /\ candidate # None => StartCase(q, candidate).active = candidate.id

StartWrite(c) ==
    /\ At(c, "start", "write")
    /\ LET q == clients[c].request
           new == clients[c].candidate
           case == StartCase(q, new)
       IN  /\ ~HasReceipt(q)
           /\ StartAccepts(q, new)
           /\ workflows' = StartTable(new)
           /\ intents' = [intents EXCEPT ![q.run] = StatedIntents(q)]
           /\ Publish(q.run, case, IF new = None THEN "driver_intent" ELSE "workflow")
           /\ SaveReceipt(q, case, IF new = None THEN None ELSE new.id,
                                   IF new = None THEN None ELSE new.row)
           /\ clients' = [clients EXCEPT ![c].pc = "recover", ![c].candidate = None]
    /\ UNCHANGED <<ledger, environment, sends>>

\* _recover_workflow_plan, after the commit and after a replay: the row the
\* receipt names must still be the revision the receipt froze.
StartRecover(c) ==
    /\ At(c, "start", "recover")
    /\ LET r == ReceiptOf(clients[c].request)
       IN  IF r.workflow = None \/ (r.workflow # None /\ workflows[r.workflow] = r.revision)
           THEN Reply(c, "ok", r.result)
           ELSE Reply(c, "refused", None)
    /\ UNCHANGED <<store, environment, sends>>

-----------------------------------------------------------------------------
(***************************************************************************)
(* Recording a stage, abandoning and scoring.                              *)
(***************************************************************************)
Receipted == {"start", "stage", "cancel", "score"}

\* Variant: the repeated request is answered with the case as it is now.
ReplayShowsHead(c) ==
    /\ clients[c].pc \in {"read", "write"}
    /\ clients[c].request.kind \in Receipted
    /\ HasReceipt(clients[c].request)
    /\ IF clients[c].request.kind = "start"
       THEN clients' = [clients EXCEPT ![c].pc = "recover", ![c].candidate = None]
       ELSE Reply(c, "ok", HeadSha(clients[c].request.run))
    /\ UNCHANGED <<store, environment, sends>>

\* The receipt of an earlier delivery of the same request answers it with the
\* response it keeps, before the handler starts and again under the write lock.
Replay(c) ==
    /\ clients[c].pc \in {"read", "write"}
    /\ clients[c].request.kind \in Receipted
    /\ HasReceipt(clients[c].request)
    /\ IF clients[c].request.kind = "start"
       THEN clients' = [clients EXCEPT ![c].pc = "recover", ![c].candidate = None]
       ELSE Reply(c, "ok", ReceiptOf(clients[c].request).result)
    /\ UNCHANGED <<store, environment, sends>>

\* _assert_current_case_workflow: the head is the one expected and names this
\* workflow in the revision the table holds.
IsCurrentCaseWorkflow(q) ==
    /\ HeadSha(q.run) # None
    /\ Exists(workflows[q.workflow])
    /\ HeadSha(q.run) = q.expected
    /\ workflows[q.workflow].source = q.run
    /\ HeadSha(q.run).active = q.workflow
    /\ HeadSha(q.run).workflows[q.workflow] = workflows[q.workflow]

WorkflowCase(q, table, learned) ==
    Rebuilt(q.run, HeadSha(q.run).objective, table, intents[q.run], learned)

\* _finalize_workflow_case_in_transaction: the rebuilt case names the workflow
\* while it is open and no workflow once it is closed.
Reflected(q, table, learned) ==
    LET case == WorkflowCase(q, table, learned)
    IN  /\ Buildable(q.run, members, table)
        /\ case.active = IF table[q.workflow].status \in TerminalStatus
                         THEN None ELSE q.workflow
        /\ ~Published(q.run, case)

\* Variant: the change is committed without its receipt.
CommitWithoutReceipt(c, table, learned, category) ==
    LET q == clients[c].request
        case == WorkflowCase(q, table, learned)
    IN  /\ Reflected(q, table, learned)
        /\ workflows' = table
        /\ ledger' = learned
        /\ Publish(q.run, case, category)
        /\ Reply(c, "ok", case)
        /\ UNCHANGED <<intents, receipts, environment, sends>>

CommitWorkflow(c, table, learned, category) ==
    LET q == clients[c].request
        case == WorkflowCase(q, table, learned)
    IN  /\ Reflected(q, table, learned)
        /\ workflows' = table
        /\ ledger' = learned
        /\ Publish(q.run, case, category)
        /\ SaveReceipt(q, case, q.workflow, table[q.workflow])
        /\ Reply(c, "ok", case)
        /\ UNCHANGED <<intents, environment, sends>>

\* Stage and cancel look for their receipt and go straight to the transaction.
OpenTransaction(c) ==
    /\ \/ At(c, "stage", "read")
       \/ At(c, "cancel", "read")
    /\ ~HasReceipt(clients[c].request)
    /\ clients' = [clients EXCEPT ![c].pc = "write"]
    /\ UNCHANGED <<store, environment, sends>>

StageTable(q) ==
    [workflows EXCEPT ![q.workflow] = Attached(@, q.recording)]

StageAccepts(q) ==
    /\ IsCurrentCaseWorkflow(q)
    /\ Authorised(q.run)
    /\ CanAttach(workflows, q.workflow, q.stage, q.recording, members)
    /\ Reflected(q, StageTable(q), ledger)

StageWrite(c) ==
    /\ At(c, "stage", "write")
    /\ ~HasReceipt(clients[c].request)
    /\ StageAccepts(clients[c].request)
    /\ CommitWorkflow(c, StageTable(clients[c].request), ledger, "workflow")

CancelTable(q) == [workflows EXCEPT ![q.workflow] = Cancelled(@)]

\* Variant: a scored test can be abandoned.
CancelAcceptsScored(q) ==
    /\ IsCurrentCaseWorkflow(q)
    /\ Reflected(q, CancelTable(q), ledger)

CancelAccepts(q) ==
    /\ IsCurrentCaseWorkflow(q)
    /\ workflows[q.workflow].status # "scored"
    /\ Reflected(q, CancelTable(q), ledger)

CancelWrite(c) ==
    /\ At(c, "cancel", "write")
    /\ ~HasReceipt(clients[c].request)
    /\ CancelAccepts(clients[c].request)
    /\ CommitWorkflow(c, CancelTable(clients[c].request), ledger, "workflow")

\* The row and the head are read, P19 authority is checked.
ScoreRead(c) ==
    /\ At(c, "score", "read")
    /\ ~HasReceipt(clients[c].request)
    /\ LET q == clients[c].request
       IN  IF IsCurrentCaseWorkflow(q) /\ Authorised(q.run)
                /\ OriginValid(workflows[q.workflow], members)
           THEN /\ clients' = [clients EXCEPT ![c].pc = "score",
                                              ![c].snapshot = workflows[q.workflow]]
                /\ UNCHANGED <<store, environment, sends>>
           ELSE Refuse(c)

\* _require_scored_p19_outcome: the origin of the scored row holds and a bundle
\* of the session as it would then stand can be built.
OutcomeStands(q) ==
    /\ OriginValid(workflows[q.workflow], members)
    /\ Buildable(q.run, members, [workflows EXCEPT ![q.workflow].status = "scored"])

\* score_workflow reads the row again, and its outcome is checked on the result.
\* Refused too when P19 has no one outcome with this verdict and control.
ScorePrepare(c) ==
    /\ At(c, "score", "score")
    /\ LET q == clients[c].request
       IN  \/ /\ CanScore(workflows, q.workflow, members)
              /\ OutcomeStands(q)
              /\ clients' = [clients EXCEPT ![c].pc = "write",
                                 ![c].candidate = [id  |-> q.workflow,
                                                   row |-> workflows[q.workflow]]]
              /\ UNCHANGED <<store, environment, sends>>
           \/ Refuse(c)

\* A sound P33 chain takes the experience with the score; otherwise the score
\* stands and says its capture was blocked.
ScoreTable(q, row) ==
    [workflows EXCEPT ![q.workflow] =
        Scored(row, IF ledgerSound THEN "captured" ELSE "blocked",
               ScoredCount(workflows) + 1)]

\* Variant: the experience is appended to a chain that failed its audit.
ScoreLedgerUnaudited(q) == ledger \cup {q.workflow}

ScoreLedger(q) == IF ledgerSound THEN ledger \cup {q.workflow} ELSE ledger

\* Variant: the score trusts the head and the row it read before.
ScoreAcceptsUnchecked(q, start, row) ==
    /\ ScoredRowIsValid(row)
    /\ SlotFree(workflows, q.workflow, ScopeOf(Occupied(row), members))
    /\ Reflected(q, ScoreTable(q, row), ScoreLedger(q))

ScoreAccepts(q, start, row) ==
    /\ IsCurrentCaseWorkflow(q)
    /\ workflows[q.workflow] = start
    /\ ScoredRowIsValid(row)
    /\ SlotFree(workflows, q.workflow, ScopeOf(Occupied(row), members))
    /\ Reflected(q, ScoreTable(q, row), ScoreLedger(q))

ScoreWrite(c) ==
    /\ At(c, "score", "write")
    /\ ~HasReceipt(clients[c].request)
    /\ LET q == clients[c].request
           row == clients[c].candidate.row
       IN  /\ ScoreAccepts(q, clients[c].snapshot, row)
           /\ CommitWorkflow(c, ScoreTable(q, row), ScoreLedger(q), "controlled_outcome")

-----------------------------------------------------------------------------
\* A transaction that fails one of its checks rolls back and answers 409.
Accepts(c) ==
    LET q == clients[c].request
    IN  CASE q.kind = "intent" -> IntentAccepts(q)
          [] q.kind = "start"  -> StartAccepts(q, clients[c].candidate)
          [] q.kind = "stage"  -> StageAccepts(q)
          [] q.kind = "cancel" -> CancelAccepts(q)
          [] q.kind = "score"  -> ScoreAccepts(q, clients[c].snapshot,
                                               clients[c].candidate.row)

\* Variant: the driver-intent route forgets to answer a failed transaction.
RollbackOfReceipted(c) ==
    /\ clients[c].pc = "write"
    /\ clients[c].request.kind \in Receipted
    /\ ~HasReceipt(clients[c].request)
    /\ ~Accepts(c)
    /\ Refuse(c)

Rollback(c) ==
    /\ clients[c].pc = "write"
    /\ clients[c].request.kind # "get"
    /\ clients[c].request.kind = "intent" \/ ~HasReceipt(clients[c].request)
    /\ ~Accepts(c)
    /\ Refuse(c)

\* BEGIN IMMEDIATE waits five seconds for another writer, then raises.
LockTimeout(c) ==
    /\ clients[c].pc = "write"
    /\ \E d \in Clients \ {c} : clients[d].pc = "write"
    /\ Reply(c, "locked", None)
    /\ UNCHANGED <<store, environment, sends>>

\* The process dies: requests in flight are lost, what was committed is not.
Crash ==
    /\ \E c \in Clients : clients[c].pc \notin Resting
    /\ clients' = [c \in Clients |->
          IF clients[c].pc \in Resting THEN clients[c]
          ELSE [clients[c] EXCEPT !.pc = "lost", !.request = None, !.snapshot = None,
                                  !.built = None, !.candidate = None]]
    /\ UNCHANGED <<store, environment, sends>>

\* The user edits the session's membership.
AddRun ==
    /\ \E run \in Churn \ members : members' = members \cup {run}
    /\ UNCHANGED <<store, evidence, ledgerSound, clients, sends>>

RemoveRun ==
    /\ \E run \in Churn \cap members : members' = members \ {run}
    /\ UNCHANGED <<store, evidence, ledgerSound, clients, sends>>

\* Stored telemetry, setups or history change what the projection may say.
EvidenceChanges ==
    /\ evidence' \in EvidenceStates \ {evidence}
    /\ UNCHANGED <<store, members, ledgerSound, clients, sends>>

-----------------------------------------------------------------------------
Idle == [pc |-> "idle", request |-> None, snapshot |-> None, built |-> None,
         candidate |-> None, view |-> [run \in CaseRuns |-> None]]

\* No case was opened yet; the table may hold one workflow of an older build.
Init ==
    /\ workflows \in
          {[id \in Workflows |-> Absent]} \cup
          {[[id \in Workflows |-> Absent] EXCEPT ![first] = row] :
              first \in {CHOOSE id \in Workflows : TRUE}, row \in Legacy}
    /\ members = Runs
    /\ evidence = "ready"
    /\ intents = [run \in CaseRuns |-> <<>>]
    /\ revisions = [run \in CaseRuns |-> <<>>]
    /\ receipts = {}
    /\ ledger = {}
    /\ ledgerSound \in BOOLEAN
    /\ clients = [c \in Clients |-> Idle]
    /\ sends = 0

Handle(c) ==
    \/ GetRead(c) \/ GetMerge(c) \/ GetWrite(c)
    \/ IntentRead(c) \/ IntentMerge(c) \/ IntentWrite(c)
    \/ StartMerge(c) \/ StartWrite(c) \/ StartRecover(c)
    \/ Replay(c) \/ OpenTransaction(c)
    \/ StageWrite(c) \/ CancelWrite(c)
    \/ ScoreRead(c) \/ ScorePrepare(c) \/ ScoreWrite(c)
    \/ Rollback(c) \/ LockTimeout(c)

Next ==
    \/ \E c \in Clients : Send(c) \/ Handle(c)
    \/ Crash \/ AddRun \/ RemoveRun \/ EvidenceChanges

Spec == Init /\ [][Next]_vars

\* The thread pool runs every request it accepted.
FairSpec == Spec /\ \A c \in Clients : WF_vars(Handle(c))

-----------------------------------------------------------------------------
(***************************************************************************)
(* Properties.                                                             *)
(***************************************************************************)
Projection ==
    [run : CaseRuns, objective : Objectives, intents : Nat, members : SUBSET Runs,
     evidence : EvidenceStates, workflows : [Workflows -> Workflow],
     active : Workflows \cup {None}, learned : Nat]

Revision ==
    [sha : Projection, previous : Projection \cup {None},
     category : {"initial", "rebuild", "driver_intent", "workflow", "controlled_outcome"}]

RequestOK(q) ==
    /\ q.kind \in {"get", "intent"} \cup Receipted
    /\ q.run \in CaseRuns
    /\ q.kind = "get" => q.objective \in Objectives \cup {None}
    /\ q.kind \in {"intent", "start"} => q.objective \in Objectives
    /\ q.kind # "get" => q.expected # None
    /\ q.kind = "stage" => q.stage \in {"A", "B", "A2"} /\ q.recording \in Runs
    /\ q.kind \in {"stage", "cancel", "score"} => q.workflow \in Workflows

\* What a client holds at each line of its handler.
ClientOK(k) ==
    /\ DOMAIN k = {"pc", "request", "snapshot", "built", "candidate", "view"}
    /\ k.pc \in Resting \cup {"read", "merge", "score", "write", "recover"}
    /\ k.pc \notin Resting => RequestOK(k.request)
    /\ k.pc = "merge" =>
          k.snapshot \in [objective : Objectives, members : SUBSET Runs,
                          evidence : EvidenceStates, workflows : [Workflows -> Workflow]]
    /\ k.pc = "write" /\ k.request.kind = "get" => k.built \in Projection
    /\ k.pc = "write" /\ k.request.kind = "start" =>
          k.candidate = None \/ k.candidate.row \in Workflow
    /\ k.pc = "write" /\ k.request.kind = "score" => k.candidate.row \in Workflow

\* Every table holds what its columns allow, and every client what its handler
\* needs at the line it has reached.
TypeOK ==
    /\ workflows \in [Workflows -> Workflow]
    /\ members \subseteq Runs
    /\ evidence \in EvidenceStates
    /\ intents \in [CaseRuns -> Seq(Objectives)]
    /\ revisions \in [CaseRuns -> Seq(Revision)]
    /\ \A r \in receipts : RequestOK(r.request) /\ r.request.kind \in Receipted
    /\ ledger \subseteq Workflows
    /\ ledgerSound \in BOOLEAN
    /\ DOMAIN clients = Clients
    /\ \A c \in Clients : ClientOK(clients[c])
    /\ sends \in 0..MaxSends

\* The revisions of a case form one chain: each names the one before it, and
\* no projection is published twice (what _validated_head_revision walks).
OneChain ==
    \A run \in CaseRuns : \A i, j \in DOMAIN revisions[run] :
        /\ revisions[run][i].previous =
              IF i = 1 THEN None ELSE revisions[run][i - 1].sha
        /\ revisions[run][i].sha = revisions[run][j].sha => i = j

\* A receipt is kept only for a mutation that became the direct successor of the
\* revision it was decided on: nothing was published in between.
ReceiptIsSuccessor ==
    \A r \in receipts : \E i \in DOMAIN revisions[r.request.run] :
        /\ revisions[r.request.run][i].sha = r.result
        /\ revisions[r.request.run][i].previous = r.request.expected

\* Of all the mutations decided on one revision, whoever sent them and however
\* often they were delivered, at most one took effect.
OneMutationPerRevision ==
    \A r, s \in receipts :
        /\ r.request.run = s.request.run
        /\ r.request.expected = s.request.expected
        => r = s

\* What the workflow table says happened to a workflow planned by these routes
\* is exactly what the receipts say: one start, one receipt per recorded stage,
\* a cancellation or a score for a closed row, and nothing for anything else.
ReceiptsAccountForWorkflows ==
    \A id \in Workflows :
        LET of(kind) == {r \in receipts : r.workflow = id /\ r.request.kind = kind}
            w == workflows[id]
        IN  Exists(w) /\ w.bound =>
            /\ Cardinality(of("start")) = 1
            /\ Cardinality(of("stage")) = Len(w.stages)
            /\ \A i \in DOMAIN w.stages : \E r \in of("stage") :
                  r.request.stage = Stages[i] /\ r.request.recording = w.stages[i]
            /\ Cardinality(of("cancel")) = (IF w.status = "cancelled" THEN 1 ELSE 0)
            /\ Cardinality(of("score")) = (IF w.status = "scored" THEN 1 ELSE 0)

\* Two workflows of one saved session are never active together, although the
\* candidates of both were built while the slot was free.
OneActiveWorkflow ==
    \A i, j \in Workflows :
        Active(workflows[i]) /\ Active(workflows[j]) => i = j

\* Learning is claimed exactly when it was written: the P33 stream holds the
\* experience of a workflow if and only if its scored row says so.
CaptureIsLearned ==
    \A id \in Workflows :
        id \in ledger <=> workflows[id].status = "scored" /\ workflows[id].capture = "captured"

\* A recorded test is one a driver could have run: each recording starts after
\* the one before it ended, no file is used twice, B is the only change.
StagesAreOneTest == \A id \in Workflows : OneTest(workflows[id])

\* A closed workflow never changes again.
ClosedIsFinal ==
    [][\A id \in Workflows :
          workflows[id].status \in TerminalStatus => workflows'[id] = workflows[id]]_vars

\* A committed score judges the very revision it replaces, although it was
\* computed before the transaction from two separate reads.
ScoreJudgesWhatItReplaces ==
    [][\A id \in Workflows :
          workflows[id].status # "scored" /\ workflows'[id].status = "scored" =>
              /\ workflows[id].status = "a2_recorded"
              /\ workflows'[id] =
                    [workflows[id] EXCEPT !.status  = "scored",
                                          !.capture = workflows'[id].capture,
                                          !.ordinal = workflows'[id].ordinal]]_vars

\* A change to the tables and the revision that shows it are one step: the new
\* head is the projection of the tables as they now are.
MutationShowsInTheCase ==
    [][<<workflows, intents, ledger>>' # <<workflows, intents, ledger>> =>
          \E run \in CaseRuns :
              /\ Len(revisions'[run]) = Len(revisions[run]) + 1
              /\ revisions'[run][Len(revisions'[run])].sha =
                    Project(run, revisions'[run][Len(revisions'[run])].sha.objective,
                            members, evidence, workflows', intents'[run],
                            Cardinality(ledger'))]_vars

\* What the interface shows of a run after an answer that carried this case:
\* the case, or what it showed before when the answer was lost on the way.
Delivered(c, run, case) ==
    clients'[c].view \in {clients[c].view, [clients[c].view EXCEPT ![run] = case]}

\* A repeated stage, cancel or score request is done once and answered with the
\* result it had the first time, whatever was published since: the response is
\* the one the receipt keeps, and never the case as it stands now.
ReplayIsFaithful ==
    [][\A c \in Clients :
          LET q == clients[c].request
          IN  /\ clients[c].pc \in {"read", "write"}
              /\ q.kind \in {"stage", "cancel", "score"}
              /\ \E r \in receipts : r.request = q
              /\ clients'[c].pc \in Resting
              => /\ UNCHANGED <<workflows, revisions, receipts, ledger>>
                 /\ \/ /\ clients'[c].pc = "ok"
                       /\ \E r \in receipts :
                             r.request = q /\ Delivered(c, q.run, r.result)
                    \/ /\ clients'[c].pc \in {"locked", "lost"}
                       /\ clients'[c].view = clients[c].view]_vars

\* Every request is answered, or dies with the process.
EveryRequestEnds ==
    \A c \in Clients : clients[c].pc \notin Resting ~> clients[c].pc \in Resting

-----------------------------------------------------------------------------
(***************************************************************************)
(* The two promises the handlers keep.                                     *)
(***************************************************************************)
\* The revision tables and receipts, read as a log of rebuilds and decisions.
Entry(revision) == [sha |-> revision.sha, category |-> revision.category]
Entries(table) == [i \in DOMAIN table |-> Entry(table[i])]

Decision(r) ==
    [run |-> r.request.run, request |-> r.request, expected |-> r.request.expected,
     result |-> r.result]

Log == INSTANCE CaseLog WITH
    Cases <- CaseRuns,
    log   <- [run \in CaseRuns |-> Entries(revisions[run])],
    done  <- {Decision(r) : r \in receipts}

\* The workflow table and the P33 stream, read as the session's tests.
Tests == INSTANCE ControlledTest WITH
    Tests   <- Workflows,
    status  <- [id \in Workflows |-> workflows[id].status],
    learned <- ledger

\* Every step of the handlers is one rebuild, one decision, or nothing, as the
\* case log promises: no receipt without its revision, no decision twice.
ImplementsCaseLog == Log!Spec

\* Whatever the clients race to do, each workflow lives the life of one test.
ImplementsControlledTest == Tests!Spec

-----------------------------------------------------------------------------
(***************************************************************************)
(* What the documentation says and the code does not do.                   *)
(***************************************************************************)
\* Publishing what is true again is no error: no read fails because the case
\* came back to a projection it had before.
IdenticalTruthIsIdempotent == \A c \in Clients : clients[c].pc # "collision"

\* A start whose response was lost is answered from its receipt when repeated.
StartReplayAnswers ==
    [][\A c \in Clients :
          At(c, "start", "recover") => clients'[c].pc # "refused"]_vars

\* A test with all three stages recorded, scored on its current revision with
\* its authority intact, gets its score.
ReadyScoreIsAccepted ==
    [][\A c \in Clients :
          /\ At(c, "score", "write")
          /\ IsCurrentCaseWorkflow(clients[c].request)
          /\ workflows[clients[c].request.workflow] = clients[c].snapshot
          /\ Authorised(clients[c].request.run)
          => clients'[c].pc # "refused"]_vars

=============================================================================
