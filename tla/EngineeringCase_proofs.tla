------------------------ MODULE EngineeringCase_proofs ------------------------
(***************************************************************************)
(* Proofs about EngineeringCase, for every value of its constants.         *)
(*                                                                         *)
(* First the types, which is where the handlers' own guards matter (a      *)
(* stage is recorded only below three, a score is written over an existing *)
(* row).  Then the shape of a step as the revision log sees it, from which *)
(* the chain, the receipts and the refinement of CaseLog follow.           *)
(***************************************************************************)
EXTENDS EngineeringCase, FiniteSetTheorems, SequenceTheorems, TLAPS

-----------------------------------------------------------------------------
(***************************************************************************)
(* The operators return what the tables hold.                              *)
(***************************************************************************)
\* The workflow a case names is one of the table, or none.
LEMMA NamedType ==
    ASSUME NEW run, NEW m, NEW e, NEW table
    PROVE  NamedWorkflow(run, m, e, table) \in Workflows \cup {None}
  <1> DEFINE touching == {id \in Related(m, table) : run \in Occupied(table[id])}
             open == {id \in touching : Active(table[id])}
             scored == {id \in touching : table[id].status = "scored"}
             last == {id \in scored : \A other \in scored :
                                          table[other].ordinal <= table[id].ordinal}
  <1>1. open \subseteq Workflows /\ last \subseteq Workflows
    BY DEF Related
  <1>2. open # {} => (CHOOSE id \in open : TRUE) \in Workflows
    BY <1>1
  <1>3. last # {} => (CHOOSE id \in last : TRUE) \in Workflows
    BY <1>1
  <1>4. Selected(run, m, table) =
            IF open # {} THEN CHOOSE id \in open : TRUE
            ELSE IF last # {} THEN CHOOSE id \in last : TRUE
            ELSE None
    BY DEF Selected
  <1> HIDE DEF open, last
  <1> QED
    BY <1>2, <1>3, <1>4 DEF NamedWorkflow

\* A projection of typed tables is a case.
LEMMA ProjectType ==
    ASSUME NEW run \in CaseRuns, NEW objective \in Objectives, NEW m \in SUBSET Runs,
           NEW e \in EvidenceStates, NEW table \in [Workflows -> Workflow],
           NEW stated \in Seq(Objectives), NEW learned \in Nat
    PROVE  Project(run, objective, m, e, table, stated, learned) \in Projection
  <1>1. (IF stated = <<>> THEN objective ELSE stated[Len(stated)]) \in Objectives
    OBVIOUS
  <1>2. Len(stated) \in Nat
    OBVIOUS
  <1> QED
    BY <1>1, <1>2, NamedType DEF Project, Projection

\* The learning head counts finitely many experiences.
LEMMA LearnedType ==
    ASSUME NEW learned \in SUBSET Workflows
    PROVE  Cardinality(learned) \in Nat
  BY RunsAssumption, FS_Subset, FS_CardinalityType

LEMMA ScoredCountType ==
    ASSUME NEW table \in [Workflows -> Workflow]
    PROVE  ScoredCount(table) \in Nat
  <1>1. {id \in DOMAIN table : table[id].status = "scored"} \subseteq Workflows
    OBVIOUS
  <1> QED
    BY <1>1, RunsAssumption, FS_Subset, FS_CardinalityType DEF ScoredCount

\* The head of a typed log is a case, or there is none.
LEMMA HeadType ==
    ASSUME revisions \in [CaseRuns -> Seq(Revision)], NEW run \in CaseRuns
    PROVE  HeadSha(run) \in Projection \cup {None}
  <1>1. revisions[run] \in Seq(Revision)
    OBVIOUS
  <1>2. CASE revisions[run] = <<>>
    BY <1>2 DEF HeadSha
  <1>3. CASE revisions[run] # <<>>
    <2>1. revisions[run][Len(revisions[run])] \in Revision
      BY <1>1, <1>3
    <2> QED
      BY <2>1, <1>3 DEF HeadSha, Revision
  <1> QED
    BY <1>2, <1>3

-----------------------------------------------------------------------------
(***************************************************************************)
(* What the guards make of a row.                                          *)
(***************************************************************************)
LEMMA AbsentType == Absent \in Workflow
  <1>1. <<>> \in Seq(Runs)
    OBVIOUS
  <1> QED
    BY <1>1 DEF Absent, Workflow

LEMMA PlannedType ==
    ASSUME NEW run \in Runs, NEW m \in SUBSET Runs, NEW t \in PlanTimes
    PROVE  Planned(run, m, t) \in Workflow
  <1>1. t \in Nat
    BY RunsAssumption
  <1> QED
    BY <1>1, AbsentType DEF Planned, Workflow, ActiveStatus

\* Only a workflow with fewer than three stages has a next one to record.
LEMMA AttachedType ==
    ASSUME NEW w \in Workflow, NEW run \in Runs, NEW stage \in {"A", "B", "A2"},
           stage = NextStage(w)
    PROVE  Attached(w, run) \in Workflow
  <1>1. w.stages \in Seq(Runs) /\ Len(w.stages) \in Nat
    BY DEF Workflow
  <1>2. Len(w.stages) < 3
    BY RunsAssumption DEF NextStage
  <1>3. RecordedStatus[Len(w.stages) + 1] \in ActiveStatus
    BY <1>1, <1>2 DEF RecordedStatus, ActiveStatus
  <1>4. Append(w.stages, run) \in Seq(Runs)
    BY <1>1
  <1> QED
    BY <1>3, <1>4 DEF Attached, Workflow

LEMMA CancelledType ==
    ASSUME NEW w \in Workflow PROVE Cancelled(w) \in Workflow
  BY DEF Cancelled, Workflow, TerminalStatus

LEMMA ScoredType ==
    ASSUME NEW w \in Workflow, NEW capture \in {"captured", "blocked"}, NEW n \in Nat
    PROVE  Scored(w, capture, n) \in Workflow
  BY DEF Scored, Workflow, TerminalStatus

-----------------------------------------------------------------------------
(***************************************************************************)
(* What a handler does to its client.                                      *)
(***************************************************************************)
\* The clients stay typed when one of them moves to a typed state.
LEMMA ClientMoves ==
    ASSUME TypeOK, NEW c \in Clients,
           DOMAIN clients' = DOMAIN clients,
           \A d \in Clients \ {c} : clients'[d] = clients[d],
           ClientOK(clients'[c])
    PROVE  DOMAIN clients' = Clients /\ \A d \in Clients : ClientOK(clients'[d])
  BY DEF TypeOK

\* A handler that returns leaves its client resting.
LEMMA ReplyType ==
    ASSUME TypeOK, NEW c \in Clients, NEW answer \in Resting, NEW case,
           Reply(c, answer, case)
    PROVE  DOMAIN clients' = Clients /\ \A d \in Clients : ClientOK(clients'[d])
  <1>1. PICK view : clients' = [clients EXCEPT ![c] =
                [pc |-> answer, request |-> None, snapshot |-> None, built |-> None,
                 candidate |-> None, view |-> view]]
    BY DEF Reply
  <1>2. /\ DOMAIN clients' = DOMAIN clients
        /\ \A d \in Clients \ {c} : clients'[d] = clients[d]
        /\ clients'[c] = [pc |-> answer, request |-> None, snapshot |-> None,
                          built |-> None, candidate |-> None, view |-> view]
    BY <1>1 DEF TypeOK
  <1>3. ClientOK(clients'[c])
    <2> DEFINE k == [pc |-> answer, request |-> None, snapshot |-> None,
                     built |-> None, candidate |-> None, view |-> view]
    <2>1. DOMAIN k = {"pc", "request", "snapshot", "built", "candidate", "view"}
      OBVIOUS
    <2>2. k.pc = answer
      OBVIOUS
    <2>3. answer \notin {"read", "merge", "score", "write", "recover"}
      BY DEF Resting
    <2> HIDE DEF k
    <2>4. ClientOK(k)
      BY <2>1, <2>2, <2>3 DEF ClientOK
    <2> QED
      BY <1>2, <2>4 DEF k
  <1> QED
    BY <1>2, <1>3, ClientMoves

LEMMA RefuseType ==
    ASSUME TypeOK, NEW c \in Clients, Refuse(c)
    PROVE  TypeOK'
  <1>1. Reply(c, "refused", None)
    BY DEF Refuse
  <1>2. DOMAIN clients' = Clients /\ \A d \in Clients : ClientOK(clients'[d])
    BY <1>1, ReplyType DEF Resting
  <1> QED
    BY <1>2 DEF Refuse, TypeOK, store, environment

\* Whatever the interface asks, it asks about its own case and names what it shows.
LEMMA RequestType ==
    ASSUME NEW run \in CaseRuns, NEW seen, NEW q \in RequestsFor(run, seen)
    PROVE  RequestOK(q)
  <1>1. CASE q \in {Request("get", run, o, None, None, None, x) :
                        o \in Objectives \cup {None}, x \in {None, seen}}
    BY <1>1 DEF Request, RequestOK, Receipted
  <1>2. CASE /\ seen # None
             /\ q \in {Request(k, run, o, None, None, None, seen) :
                          k \in {"intent", "start"}, o \in Objectives}
    BY <1>2 DEF Request, RequestOK, Receipted
  <1>3. CASE \E id \in Workflows :
                /\ seen # None
                /\ q \in {Request("stage", run, None, id, s, r, seen) :
                             s \in {"A", "B", "A2"}, r \in Runs}
                         \cup {Request(k, run, None, id, None, None, seen) :
                             k \in {"cancel", "score"}}
    BY <1>3 DEF Request, RequestOK, Receipted
  <1> QED
    BY <1>1, <1>2, <1>3 DEF RequestsFor

-----------------------------------------------------------------------------
(***************************************************************************)
(* A step, as the revision log and the receipts see it: nothing, a rebuild *)
(* by a read, an intent stated alone, or a decision with its receipt.      *)
(***************************************************************************)
Appends(run, case, category) ==
    /\ ~Published(run, case)
    /\ Publish(run, case, category)

Rebuilds ==
    \E run \in CaseRuns, case \in Projection :
        /\ Appends(run, case, "rebuild")
        /\ receipts' = receipts

States ==
    \E run \in CaseRuns, case \in Projection :
        /\ HeadSha(run) # None
        /\ Appends(run, case, "driver_intent")
        /\ receipts' = receipts

Decides ==
    \E q, id, row :
    \E case \in Projection, category \in {"driver_intent", "workflow", "controlled_outcome"} :
        /\ RequestOK(q) /\ q.kind \in Receipted
        /\ ~HasReceipt(q)
        /\ HeadSha(q.run) = q.expected
        /\ Appends(q.run, case, category)
        /\ SaveReceipt(q, case, id, row)

LogStep == UNCHANGED <<revisions, receipts>> \/ Rebuilds \/ States \/ Decides

\* Appending a case to a typed log gives a typed log.
LEMMA PublishType ==
    ASSUME revisions \in [CaseRuns -> Seq(Revision)], NEW run \in CaseRuns,
           NEW case \in Projection,
           NEW category \in {"rebuild", "driver_intent", "workflow", "controlled_outcome"},
           Publish(run, case, category)
    PROVE  revisions' \in [CaseRuns -> Seq(Revision)]
  <1> DEFINE entry == [sha |-> case, previous |-> HeadSha(run),
                       category |-> IF revisions[run] = <<>> THEN "initial" ELSE category]
  <1>1. entry \in Revision
    BY HeadType DEF Revision
  <1>2. revisions' = [revisions EXCEPT ![run] = Append(revisions[run], entry)]
    BY DEF Publish
  <1> HIDE DEF entry
  <1>3. Append(revisions[run], entry) \in Seq(Revision)
    BY <1>1
  <1> QED
    BY <1>2, <1>3

LEMMA LogStepType ==
    ASSUME TypeOK, LogStep
    PROVE  /\ revisions' \in [CaseRuns -> Seq(Revision)]
           /\ \A r \in receipts' : RequestOK(r.request) /\ r.request.kind \in Receipted
  <1>1. CASE UNCHANGED <<revisions, receipts>>
    BY <1>1 DEF TypeOK
  <1>2. CASE Rebuilds
    BY <1>2, PublishType DEF TypeOK, Rebuilds, Appends
  <1>3. CASE States
    BY <1>3, PublishType DEF TypeOK, States, Appends
  <1>4. CASE Decides
    <2>0. PICK q, id, row :
            \E case \in Projection,
               category \in {"driver_intent", "workflow", "controlled_outcome"} :
              /\ RequestOK(q) /\ q.kind \in Receipted
              /\ Appends(q.run, case, category)
              /\ SaveReceipt(q, case, id, row)
      BY <1>4 DEF Decides
    <2>1. PICK case \in Projection,
               category \in {"driver_intent", "workflow", "controlled_outcome"} :
              /\ RequestOK(q) /\ q.kind \in Receipted
              /\ Appends(q.run, case, category)
              /\ SaveReceipt(q, case, id, row)
      BY <2>0
    <2>2. q.run \in CaseRuns
      BY <2>1 DEF RequestOK
    <2>3. revisions' \in [CaseRuns -> Seq(Revision)]
      BY <2>1, <2>2, PublishType DEF TypeOK, Appends
    <2>4. \A r \in receipts' : r \in receipts \/ r.request = q
      BY <2>1 DEF SaveReceipt
    <2> QED
      BY <2>1, <2>3, <2>4 DEF TypeOK
  <1> QED
    BY <1>1, <1>2, <1>3, <1>4 DEF LogStep

-----------------------------------------------------------------------------
(***************************************************************************)
(* Each handler keeps the types and takes one of the four log steps.       *)
(***************************************************************************)
LEMMA SendStep ==
    ASSUME TypeOK, NEW c \in Clients, Send(c)
    PROVE  TypeOK' /\ LogStep
  <1>0. PICK run \in CaseRuns : \E q \in RequestsFor(run, clients[c].view[run]) :
            clients' = [clients EXCEPT ![c].pc = "read", ![c].request = q]
    BY DEF Send
  <1>1. PICK q \in RequestsFor(run, clients[c].view[run]) :
            clients' = [clients EXCEPT ![c].pc = "read", ![c].request = q]
    BY <1>0
  <1>2. RequestOK(q)
    BY <1>1, RequestType
  <1>3. /\ DOMAIN clients' = DOMAIN clients
        /\ \A d \in Clients \ {c} : clients'[d] = clients[d]
        /\ DOMAIN clients'[c] = DOMAIN clients[c]
        /\ clients'[c].pc = "read" /\ clients'[c].request = q
    BY <1>1 DEF TypeOK, ClientOK
  <1>4. ClientOK(clients'[c])
    BY <1>2, <1>3 DEF TypeOK, ClientOK, Resting
  <1>5. DOMAIN clients' = Clients /\ \A d \in Clients : ClientOK(clients'[d])
    BY <1>3, <1>4, ClientMoves
  <1>6. sends' \in 0..MaxSends
    BY CaseAssumption DEF Send, TypeOK
  <1> QED
    BY <1>5, <1>6 DEF Send, TypeOK, store, environment, LogStep

\* A step that leaves the tables alone and moves one client to a typed state.
LEMMA QuietStep ==
    ASSUME TypeOK, NEW c \in Clients,
           DOMAIN clients' = DOMAIN clients,
           \A d \in Clients \ {c} : clients'[d] = clients[d],
           ClientOK(clients'[c]),
           UNCHANGED <<store, environment, sends>>
    PROVE  TypeOK' /\ LogStep
  <1>1. DOMAIN clients' = Clients /\ \A d \in Clients : ClientOK(clients'[d])
    BY ClientMoves
  <1> QED
    BY <1>1 DEF TypeOK, store, environment, LogStep

LEMMA RefuseStep ==
    ASSUME TypeOK, NEW c \in Clients, Refuse(c)
    PROVE  TypeOK' /\ LogStep
  BY RefuseType DEF Refuse, store, LogStep

\* Taking a bundle: what the handler holds next is what the tables hold now.
LEMMA BundleStep ==
    ASSUME TypeOK, NEW c \in Clients, NEW objective \in Objectives,
           clients[c].pc = "read",
           TakeBundle(c, objective),
           UNCHANGED <<store, environment, sends>>
    PROVE  TypeOK' /\ LogStep
  <1>1. /\ DOMAIN clients' = DOMAIN clients
        /\ \A d \in Clients \ {c} : clients'[d] = clients[d]
        /\ DOMAIN clients'[c] = DOMAIN clients[c]
        /\ clients'[c].pc = "merge" /\ clients'[c].request = clients[c].request
        /\ clients'[c].snapshot = Bundle(objective)
    BY DEF TakeBundle, TypeOK, ClientOK
  <1>2. Bundle(objective) \in [objective : Objectives, members : SUBSET Runs,
                               evidence : EvidenceStates,
                               workflows : [Workflows -> Workflow]]
    BY DEF Bundle, TypeOK
  <1>3. ClientOK(clients'[c])
    BY <1>1, <1>2 DEF TypeOK, ClientOK, Resting
  <1> QED
    BY <1>1, <1>3, QuietStep

LEMMA HeadObjectiveType ==
    ASSUME TypeOK, NEW run \in CaseRuns
    PROVE  HeadObjective(run) \in Objectives
  <1>1. HeadSha(run) \in Projection \cup {None}
    BY HeadType DEF TypeOK
  <1> QED
    BY <1>1, CaseAssumption DEF HeadObjective, Projection

LEMMA GetReadStep ==
    ASSUME TypeOK, NEW c \in Clients, GetRead(c)
    PROVE  TypeOK' /\ LogStep
  <1> DEFINE q == clients[c].request
  <1>1. RequestOK(q) /\ clients[c].pc = "read" /\ q.kind = "get"
    BY DEF GetRead, At, TypeOK, ClientOK, Resting
  <1>2. HeadObjective(q.run) \in Objectives
    BY <1>1, HeadObjectiveType DEF RequestOK
  <1>3. (IF q.objective = None THEN HeadObjective(q.run) ELSE q.objective) \in Objectives
    BY <1>1, <1>2 DEF RequestOK
  <1>4. CASE Refuse(c)
    BY <1>4, RefuseStep
  <1>5. CASE /\ TakeBundle(c, IF q.objective = None THEN HeadObjective(q.run)
                                                    ELSE q.objective)
             /\ UNCHANGED <<store, environment, sends>>
    BY <1>1, <1>3, <1>5, BundleStep
  <1> QED
    BY <1>4, <1>5 DEF GetRead

LEMMA IntentReadStep ==
    ASSUME TypeOK, NEW c \in Clients, IntentRead(c)
    PROVE  TypeOK' /\ LogStep
  <1> DEFINE q == clients[c].request
  <1>1. RequestOK(q) /\ clients[c].pc = "read"
    BY DEF IntentRead, At, TypeOK, ClientOK, Resting
  <1>2. HeadObjective(q.run) \in Objectives
    BY <1>1, HeadObjectiveType DEF RequestOK
  <1>3. CASE Refuse(c)
    BY <1>3, RefuseStep
  <1>4. CASE /\ TakeBundle(c, HeadObjective(q.run))
             /\ UNCHANGED <<store, environment, sends>>
    BY <1>1, <1>2, <1>4, BundleStep
  <1> QED
    BY <1>3, <1>4 DEF IntentRead

\* The case a read builds from its bundle is a case.
LEMMA MergedType ==
    ASSUME TypeOK, NEW c \in Clients, clients[c].pc = "merge"
    PROVE  Merged(clients[c].request.run, clients[c].snapshot) \in Projection
  <1> DEFINE run == clients[c].request.run
             b == clients[c].snapshot
  <1>1. run \in CaseRuns
    BY DEF TypeOK, ClientOK, Resting, RequestOK
  <1>2. b \in [objective : Objectives, members : SUBSET Runs, evidence : EvidenceStates,
               workflows : [Workflows -> Workflow]]
    BY DEF TypeOK, ClientOK
  <1>3. intents[run] \in Seq(Objectives)
    BY <1>1 DEF TypeOK
  <1>4. Cardinality(ledger) \in Nat
    BY LearnedType DEF TypeOK
  <1> HIDE DEF run, b
  <1>5. Project(run, b.objective, b.members, b.evidence, b.workflows, intents[run],
                Cardinality(ledger)) \in Projection
    BY <1>1, <1>2, <1>3, <1>4, ProjectType
  <1> QED
    BY <1>5 DEF Merged, run, b

LEMMA GetMergeStep ==
    ASSUME TypeOK, NEW c \in Clients, GetMerge(c)
    PROVE  TypeOK' /\ LogStep
  <1> DEFINE run == clients[c].request.run
             b == clients[c].snapshot
  <1>1. clients[c].pc = "merge" /\ clients[c].request.kind = "get"
    BY DEF GetMerge, At
  <1>2. CASE Refuse(c)
    BY <1>2, RefuseStep
  <1>3. CASE /\ clients' = [clients EXCEPT ![c].pc = "write", ![c].snapshot = None,
                                           ![c].built = Merged(run, b)]
             /\ UNCHANGED <<store, environment, sends>>
    <2>1. /\ DOMAIN clients' = DOMAIN clients
          /\ \A d \in Clients \ {c} : clients'[d] = clients[d]
          /\ DOMAIN clients'[c] = DOMAIN clients[c]
          /\ clients'[c].pc = "write" /\ clients'[c].request = clients[c].request
          /\ clients'[c].built = Merged(run, b)
      BY <1>3 DEF TypeOK, ClientOK
    <2>2. ClientOK(clients'[c])
      BY <1>1, <2>1, MergedType DEF TypeOK, ClientOK, Resting
    <2> QED
      BY <1>3, <2>1, <2>2, QuietStep
  <1> QED
    BY <1>2, <1>3 DEF GetMerge

LEMMA GetWriteStep ==
    ASSUME TypeOK, NEW c \in Clients, GetWrite(c)
    PROVE  TypeOK' /\ LogStep
  <1> DEFINE q == clients[c].request
             case == clients[c].built
             answer == IF q.expected \in {None, case} THEN "ok" ELSE "refused"
  <1>1. q.run \in CaseRuns /\ case \in Projection
    BY DEF GetWrite, At, TypeOK, ClientOK, Resting, RequestOK
  <1>2. answer \in Resting /\ "collision" \in Resting
    BY DEF Resting
  <1>3. /\ \E held : Reply(c, answer, held) \/ Reply(c, "collision", held)
        /\ \/ UNCHANGED <<store, environment, sends>>
           \/ /\ ~Published(q.run, case)
              /\ Publish(q.run, case, "rebuild")
              /\ UNCHANGED <<workflows, intents, receipts, ledger, environment, sends>>
    BY DEF GetWrite
  <1>4. DOMAIN clients' = Clients /\ \A d \in Clients : ClientOK(clients'[d])
    BY <1>2, <1>3, ReplyType
  <1>5. LogStep
    BY <1>1, <1>3 DEF LogStep, Rebuilds, Appends, store
  <1> QED
    BY <1>3, <1>4, <1>5, LogStepType DEF TypeOK, store, environment

LEMMA IntentMergeStep ==
    ASSUME TypeOK, NEW c \in Clients, IntentMerge(c)
    PROVE  TypeOK' /\ LogStep
  <1>1. clients[c].pc = "merge" /\ clients[c].request.kind = "intent"
    BY DEF IntentMerge, At
  <1>2. CASE Refuse(c)
    BY <1>2, RefuseStep
  <1>3. CASE /\ clients' = [clients EXCEPT ![c].pc = "write", ![c].snapshot = None]
             /\ UNCHANGED <<store, environment, sends>>
    <2>1. /\ DOMAIN clients' = DOMAIN clients
          /\ \A d \in Clients \ {c} : clients'[d] = clients[d]
          /\ DOMAIN clients'[c] = DOMAIN clients[c]
          /\ clients'[c].pc = "write" /\ clients'[c].request = clients[c].request
      BY <1>3 DEF TypeOK, ClientOK
    <2>2. ClientOK(clients'[c])
      BY <1>1, <2>1 DEF TypeOK, ClientOK, Resting
    <2> QED
      BY <1>3, <2>1, <2>2, QuietStep
  <1> QED
    BY <1>2, <1>3 DEF IntentMerge

-----------------------------------------------------------------------------
(***************************************************************************)
(* The writes.  A case rebuilt inside the transaction is a case.           *)
(***************************************************************************)
LEMMA RebuiltType ==
    ASSUME TypeOK, NEW run \in CaseRuns, NEW objective \in Objectives,
           NEW table \in [Workflows -> Workflow], NEW stated \in Seq(Objectives),
           NEW learned \in SUBSET Workflows
    PROVE  Rebuilt(run, objective, table, stated, learned) \in Projection
  <1>1. Cardinality(learned) \in Nat
    BY LearnedType
  <1>2. members \in SUBSET Runs /\ evidence \in EvidenceStates
    BY DEF TypeOK
  <1>3. Project(run, objective, members, evidence, table, stated,
                Cardinality(learned)) \in Projection
    BY <1>1, <1>2, ProjectType
  <1> QED
    BY <1>3 DEF Rebuilt

LEMMA IntentWriteStep ==
    ASSUME TypeOK, NEW c \in Clients, IntentWrite(c)
    PROVE  TypeOK' /\ LogStep
  <1> DEFINE q == clients[c].request
  <1>1. RequestOK(q) /\ q.kind = "intent"
    BY DEF IntentWrite, At, TypeOK, ClientOK, Resting
  <1>2. /\ q.run \in CaseRuns /\ q.objective \in Objectives
        /\ q.expected # None
    BY <1>1 DEF RequestOK
  <1>3. StatedIntents(q) \in Seq(Objectives)
    BY <1>2 DEF StatedIntents, TypeOK
  <1>4. IntentCase(q) \in Projection
    <2>1. workflows \in [Workflows -> Workflow] /\ ledger \in SUBSET Workflows
      BY DEF TypeOK
    <2> QED
      BY <1>2, <1>3, <2>1, RebuiltType DEF IntentCase
  <1>5. /\ IntentAccepts(q)
        /\ intents' = [intents EXCEPT ![q.run] = StatedIntents(q)]
        /\ Publish(q.run, IntentCase(q), "driver_intent")
        /\ Reply(c, "ok", IntentCase(q))
        /\ UNCHANGED <<workflows, receipts, ledger, environment, sends>>
    BY DEF IntentWrite
  <1>6. DOMAIN clients' = Clients /\ \A d \in Clients : ClientOK(clients'[d])
    BY <1>5, ReplyType DEF Resting
  <1>7. intents' \in [CaseRuns -> Seq(Objectives)]
    BY <1>3, <1>5 DEF TypeOK
  <1>8. LogStep
    <2>1. HeadSha(q.run) # None /\ ~Published(q.run, IntentCase(q))
      BY <1>2, <1>5 DEF IntentAccepts
    <2> QED
      BY <1>2, <1>4, <1>5, <2>1 DEF LogStep, States, Appends
  <1> QED
    BY <1>5, <1>6, <1>7, <1>8, LogStepType DEF TypeOK, environment

\* A candidate is none, or a planned row of this session.
LEMMA CandidateType ==
    ASSUME TypeOK, NEW run \in CaseRuns, NEW candidate \in Candidates(run)
    PROVE  candidate = None \/ candidate.row \in Workflow
  <1>1. run \in Runs /\ members \in SUBSET Runs
    BY CaseAssumption DEF TypeOK
  <1>2. \A t \in PlanTimes : Planned(run, members, t) \in Workflow
    BY <1>1, PlannedType
  <1> QED
    BY <1>2 DEF Candidates

LEMMA StartMergeStep ==
    ASSUME TypeOK, NEW c \in Clients, StartMerge(c)
    PROVE  TypeOK' /\ LogStep
  <1> DEFINE q == clients[c].request
  <1>1. clients[c].pc = "merge" /\ q.kind = "start" /\ RequestOK(q)
    BY DEF StartMerge, At, TypeOK, ClientOK, Resting
  <1>2. CASE Refuse(c)
    BY <1>2, RefuseStep
  <1>3. CASE /\ \E candidate \in Candidates(q.run) :
                   clients' = [clients EXCEPT ![c].pc = "write", ![c].snapshot = None,
                                              ![c].candidate = candidate]
             /\ UNCHANGED <<store, environment, sends>>
    <2>1. PICK candidate \in Candidates(q.run) :
              clients' = [clients EXCEPT ![c].pc = "write", ![c].snapshot = None,
                                         ![c].candidate = candidate]
      BY <1>3
    <2>2. candidate = None \/ candidate.row \in Workflow
      BY <1>1, CandidateType DEF RequestOK
    <2>3. /\ DOMAIN clients' = DOMAIN clients
          /\ \A d \in Clients \ {c} : clients'[d] = clients[d]
          /\ DOMAIN clients'[c] = DOMAIN clients[c]
          /\ clients'[c].pc = "write" /\ clients'[c].request = q
          /\ clients'[c].candidate = candidate
      BY <2>1 DEF TypeOK, ClientOK
    <2>4. ClientOK(clients'[c])
      BY <1>1, <2>2, <2>3 DEF TypeOK, ClientOK, Resting
    <2> QED
      BY <1>3, <2>3, <2>4, QuietStep
  <1> QED
    BY <1>2, <1>3 DEF StartMerge

LEMMA StartWriteStep ==
    ASSUME TypeOK, NEW c \in Clients, StartWrite(c)
    PROVE  TypeOK' /\ LogStep
  <1> DEFINE q == clients[c].request
             new == clients[c].candidate
             case == StartCase(q, new)
             category == IF new = None THEN "driver_intent" ELSE "workflow"
  <1>1. RequestOK(q) /\ q.kind = "start" /\ (new = None \/ new.row \in Workflow)
    BY DEF StartWrite, At, TypeOK, ClientOK, Resting
  <1>2. q.run \in CaseRuns /\ q.objective \in Objectives
    BY <1>1 DEF RequestOK
  <1>3. StatedIntents(q) \in Seq(Objectives)
    BY <1>2 DEF StatedIntents, TypeOK
  <1>4. StartTable(new) \in [Workflows -> Workflow]
    BY <1>1 DEF StartTable, TypeOK
  <1>5. case \in Projection
    <2>1. ledger \in SUBSET Workflows
      BY DEF TypeOK
    <2> QED
      BY <1>2, <1>3, <1>4, <2>1, RebuiltType DEF StartCase
  <1>6. \E id, row :
        /\ ~HasReceipt(q)
        /\ StartAccepts(q, new)
        /\ workflows' = StartTable(new)
        /\ intents' = [intents EXCEPT ![q.run] = StatedIntents(q)]
        /\ Publish(q.run, case, category)
        /\ SaveReceipt(q, case, id, row)
        /\ clients' = [clients EXCEPT ![c].pc = "recover", ![c].candidate = None]
        /\ UNCHANGED <<ledger, environment, sends>>
    BY DEF StartWrite
  <1>7. /\ DOMAIN clients' = DOMAIN clients
        /\ \A d \in Clients \ {c} : clients'[d] = clients[d]
        /\ DOMAIN clients'[c] = DOMAIN clients[c]
        /\ clients'[c].pc = "recover" /\ clients'[c].request = q
    BY <1>6 DEF TypeOK, ClientOK
  <1>8. ClientOK(clients'[c])
    BY <1>1, <1>7 DEF TypeOK, ClientOK, Resting
  <1>9. DOMAIN clients' = Clients /\ \A d \in Clients : ClientOK(clients'[d])
    BY <1>7, <1>8, ClientMoves
  <1>10. LogStep
    <2>1. q.kind \in Receipted
      BY <1>1 DEF Receipted
    <2>2. HeadSha(q.run) = q.expected /\ ~Published(q.run, case)
      BY <1>6 DEF StartAccepts
    <2> HIDE DEF q, case
    <2>3. category \in {"driver_intent", "workflow", "controlled_outcome"}
      OBVIOUS
    <2> HIDE DEF category
    <2> QED
      BY <1>1, <1>5, <1>6, <2>1, <2>2, <2>3 DEF LogStep, Decides, Appends
  <1>11. intents' \in [CaseRuns -> Seq(Objectives)]
    BY <1>3, <1>6 DEF TypeOK
  <1> QED
    BY <1>4, <1>6, <1>9, <1>10, <1>11, LogStepType DEF TypeOK, environment

LEMMA StartRecoverStep ==
    ASSUME TypeOK, NEW c \in Clients, StartRecover(c)
    PROVE  TypeOK' /\ LogStep
  <1>1. /\ \E case : Reply(c, "ok", case) \/ Reply(c, "refused", case)
        /\ UNCHANGED <<store, environment, sends>>
    BY DEF StartRecover
  <1>2. DOMAIN clients' = Clients /\ \A d \in Clients : ClientOK(clients'[d])
    BY <1>1, ReplyType DEF Resting
  <1> QED
    BY <1>1, <1>2 DEF TypeOK, store, environment, LogStep

LEMMA ReplayStep ==
    ASSUME TypeOK, NEW c \in Clients, Replay(c)
    PROVE  TypeOK' /\ LogStep
  <1> DEFINE q == clients[c].request
  <1>1. RequestOK(q) /\ UNCHANGED <<store, environment, sends>>
    BY DEF Replay, TypeOK, ClientOK, Resting
  <1>2. CASE \E case : Reply(c, "ok", case)
    <2>1. DOMAIN clients' = Clients /\ \A d \in Clients : ClientOK(clients'[d])
      BY <1>2, ReplyType DEF Resting
    <2> QED
      BY <1>1, <2>1 DEF TypeOK, store, environment, LogStep
  <1>3. CASE clients' = [clients EXCEPT ![c].pc = "recover", ![c].candidate = None]
    <2>1. /\ DOMAIN clients' = DOMAIN clients
          /\ \A d \in Clients \ {c} : clients'[d] = clients[d]
          /\ DOMAIN clients'[c] = DOMAIN clients[c]
          /\ clients'[c].pc = "recover" /\ clients'[c].request = q
      BY <1>3 DEF TypeOK, ClientOK
    <2>2. ClientOK(clients'[c])
      BY <1>1, <2>1 DEF TypeOK, ClientOK, Resting
    <2> QED
      BY <1>1, <2>1, <2>2, QuietStep
  <1> QED
    BY <1>2, <1>3 DEF Replay

\* The commit shared by stages, cancellations and scores.
LEMMA CommitStep ==
    ASSUME TypeOK, NEW c \in Clients,
           clients[c].pc = "write", clients[c].request.kind \in {"stage", "cancel", "score"},
           ~HasReceipt(clients[c].request),
           IsCurrentCaseWorkflow(clients[c].request),
           NEW table \in [Workflows -> Workflow], NEW learned \in SUBSET Workflows,
           NEW category \in {"workflow", "controlled_outcome"},
           CommitWorkflow(c, table, learned, category)
    PROVE  TypeOK' /\ LogStep
  <1> DEFINE q == clients[c].request
             case == WorkflowCase(q, table, learned)
  <1>1. RequestOK(q) /\ q.kind \in Receipted
    BY DEF TypeOK, ClientOK, Resting, Receipted
  <1>2. q.run \in CaseRuns
    BY <1>1 DEF RequestOK
  <1>3. HeadSha(q.run) = q.expected /\ HeadSha(q.run) \in Projection
    BY <1>2, HeadType DEF IsCurrentCaseWorkflow, TypeOK
  <1>4. case \in Projection
    <2>1. HeadSha(q.run).objective \in Objectives
      BY <1>3 DEF Projection
    <2>2. intents[q.run] \in Seq(Objectives)
      BY <1>2 DEF TypeOK
    <2> HIDE DEF q
    <2> QED
      BY <1>2, <2>1, <2>2, RebuiltType DEF WorkflowCase
  <1>5. /\ ~Published(q.run, case)
        /\ workflows' = table
        /\ ledger' = learned
        /\ Publish(q.run, case, category)
        /\ SaveReceipt(q, case, q.workflow, table[q.workflow])
        /\ Reply(c, "ok", case)
        /\ UNCHANGED <<intents, environment, sends>>
    BY DEF CommitWorkflow, Reflected
  <1>6. DOMAIN clients' = Clients /\ \A d \in Clients : ClientOK(clients'[d])
    BY <1>5, ReplyType DEF Resting
  <1>7. LogStep
    <2> HIDE DEF q, case
    <2>1. category \in {"driver_intent", "workflow", "controlled_outcome"}
      OBVIOUS
    <2> QED
      BY <1>1, <1>2, <1>3, <1>4, <1>5, <2>1 DEF LogStep, Decides, Appends, q
  <1> QED
    BY <1>5, <1>6, <1>7, LogStepType DEF TypeOK, environment

LEMMA OpenTransactionStep ==
    ASSUME TypeOK, NEW c \in Clients, OpenTransaction(c)
    PROVE  TypeOK' /\ LogStep
  <1>1. /\ DOMAIN clients' = DOMAIN clients
        /\ \A d \in Clients \ {c} : clients'[d] = clients[d]
        /\ DOMAIN clients'[c] = DOMAIN clients[c]
        /\ clients'[c].pc = "write" /\ clients'[c].request = clients[c].request
    BY DEF OpenTransaction, TypeOK, ClientOK
  <1>2. RequestOK(clients[c].request) /\ clients[c].request.kind \in {"stage", "cancel"}
    BY DEF OpenTransaction, At, TypeOK, ClientOK, Resting
  <1>3. ClientOK(clients'[c])
    BY <1>1, <1>2 DEF TypeOK, ClientOK, Resting
  <1> QED
    BY <1>1, <1>3, QuietStep DEF OpenTransaction

\* A stage is recorded on a workflow that has one left to record.
LEMMA StageWriteStep ==
    ASSUME TypeOK, NEW c \in Clients, StageWrite(c)
    PROVE  TypeOK' /\ LogStep
  <1> DEFINE q == clients[c].request
  <1>1. RequestOK(q) /\ clients[c].pc = "write" /\ q.kind = "stage"
    BY DEF StageWrite, At, TypeOK, ClientOK, Resting
  <1>2. /\ q.workflow \in Workflows /\ q.recording \in Runs
        /\ q.stage \in {"A", "B", "A2"}
    BY <1>1 DEF RequestOK
  <1>3. /\ ~HasReceipt(q) /\ StageAccepts(q)
        /\ CommitWorkflow(c, StageTable(q), ledger, "workflow")
    BY DEF StageWrite
  <1>4. q.stage = NextStage(workflows[q.workflow])
    BY <1>3 DEF StageAccepts, CanAttach
  <1>5. Attached(workflows[q.workflow], q.recording) \in Workflow
    BY <1>2, <1>4, AttachedType DEF TypeOK
  <1>6. StageTable(q) \in [Workflows -> Workflow]
    BY <1>2, <1>5 DEF StageTable, TypeOK
  <1>7. ledger \in SUBSET Workflows /\ IsCurrentCaseWorkflow(q)
    BY <1>3 DEF TypeOK, StageAccepts
  <1> QED
    BY <1>1, <1>3, <1>6, <1>7, CommitStep

LEMMA CancelWriteStep ==
    ASSUME TypeOK, NEW c \in Clients, CancelWrite(c)
    PROVE  TypeOK' /\ LogStep
  <1> DEFINE q == clients[c].request
  <1>1. RequestOK(q) /\ clients[c].pc = "write" /\ q.kind = "cancel"
    BY DEF CancelWrite, At, TypeOK, ClientOK, Resting
  <1>2. q.workflow \in Workflows
    BY <1>1 DEF RequestOK
  <1>3. /\ ~HasReceipt(q) /\ CancelAccepts(q)
        /\ CommitWorkflow(c, CancelTable(q), ledger, "workflow")
    BY DEF CancelWrite
  <1>4. Cancelled(workflows[q.workflow]) \in Workflow
    BY <1>2, CancelledType DEF TypeOK
  <1>5. CancelTable(q) \in [Workflows -> Workflow]
    BY <1>2, <1>4 DEF CancelTable, TypeOK
  <1>6. ledger \in SUBSET Workflows /\ IsCurrentCaseWorkflow(q)
    BY <1>3 DEF TypeOK, CancelAccepts
  <1> QED
    BY <1>1, <1>3, <1>5, <1>6, CommitStep

LEMMA ScoreReadStep ==
    ASSUME TypeOK, NEW c \in Clients, ScoreRead(c)
    PROVE  TypeOK' /\ LogStep
  <1> DEFINE q == clients[c].request
  <1>1. RequestOK(q)
    BY DEF ScoreRead, At, TypeOK, ClientOK, Resting
  <1>2. CASE Refuse(c)
    BY <1>2, RefuseStep
  <1>3. CASE /\ clients' = [clients EXCEPT ![c].pc = "score",
                                           ![c].snapshot = workflows[q.workflow]]
             /\ UNCHANGED <<store, environment, sends>>
    <2>1. /\ DOMAIN clients' = DOMAIN clients
          /\ \A d \in Clients \ {c} : clients'[d] = clients[d]
          /\ DOMAIN clients'[c] = DOMAIN clients[c]
          /\ clients'[c].pc = "score" /\ clients'[c].request = q
      BY <1>3 DEF TypeOK, ClientOK
    <2>2. ClientOK(clients'[c])
      BY <1>1, <2>1 DEF TypeOK, ClientOK, Resting
    <2> QED
      BY <1>3, <2>1, <2>2, QuietStep
  <1> QED
    BY <1>2, <1>3 DEF ScoreRead

LEMMA ScorePrepareStep ==
    ASSUME TypeOK, NEW c \in Clients, ScorePrepare(c)
    PROVE  TypeOK' /\ LogStep
  <1> DEFINE q == clients[c].request
  <1>1. RequestOK(q) /\ q.kind = "score"
    BY DEF ScorePrepare, At, TypeOK, ClientOK, Resting
  <1>2. workflows[q.workflow] \in Workflow
    BY <1>1 DEF RequestOK, TypeOK
  <1>3. CASE Refuse(c)
    BY <1>3, RefuseStep
  <1>4. CASE /\ clients' = [clients EXCEPT ![c].pc = "write",
                                ![c].candidate = [id  |-> q.workflow,
                                                  row |-> workflows[q.workflow]]]
             /\ UNCHANGED <<store, environment, sends>>
    <2>1. /\ DOMAIN clients' = DOMAIN clients
          /\ \A d \in Clients \ {c} : clients'[d] = clients[d]
          /\ DOMAIN clients'[c] = DOMAIN clients[c]
          /\ clients'[c].pc = "write" /\ clients'[c].request = q
          /\ clients'[c].candidate.row = workflows[q.workflow]
      BY <1>4 DEF TypeOK, ClientOK
    <2>2. ClientOK(clients'[c])
      BY <1>1, <1>2, <2>1 DEF TypeOK, ClientOK, Resting
    <2> QED
      BY <1>4, <2>1, <2>2, QuietStep
  <1> QED
    BY <1>3, <1>4 DEF ScorePrepare

LEMMA ScoreWriteStep ==
    ASSUME TypeOK, NEW c \in Clients, ScoreWrite(c)
    PROVE  TypeOK' /\ LogStep
  <1> DEFINE q == clients[c].request
             row == clients[c].candidate.row
  <1>1. /\ RequestOK(q) /\ clients[c].pc = "write" /\ q.kind = "score"
        /\ row \in Workflow
    BY DEF ScoreWrite, At, TypeOK, ClientOK, Resting
  <1>2. q.workflow \in Workflows
    BY <1>1 DEF RequestOK
  <1>3. /\ ~HasReceipt(q) /\ ScoreAccepts(q, clients[c].snapshot, row)
        /\ CommitWorkflow(c, ScoreTable(q, row), ScoreLedger(q), "controlled_outcome")
    BY DEF ScoreWrite
  <1>4. ScoredCount(workflows) + 1 \in Nat
    BY ScoredCountType DEF TypeOK
  <1>5. Scored(row, IF ledgerSound THEN "captured" ELSE "blocked",
               ScoredCount(workflows) + 1) \in Workflow
    BY <1>1, <1>4, ScoredType
  <1>6. ScoreTable(q, row) \in [Workflows -> Workflow]
    BY <1>5 DEF ScoreTable, TypeOK
  <1>7. ScoreLedger(q) \in SUBSET Workflows
    BY <1>2 DEF ScoreLedger, TypeOK
  <1>8. IsCurrentCaseWorkflow(q)
    BY <1>3 DEF ScoreAccepts
  <1> QED
    BY <1>1, <1>3, <1>6, <1>7, <1>8, CommitStep

\* Failed transactions, a lock not obtained in time, a crash.
LEMMA LockTimeoutStep ==
    ASSUME TypeOK, NEW c \in Clients, LockTimeout(c)
    PROVE  TypeOK' /\ LogStep
  <1>1. DOMAIN clients' = Clients /\ \A d \in Clients : ClientOK(clients'[d])
    BY ReplyType DEF LockTimeout, Resting
  <1> QED
    BY <1>1 DEF LockTimeout, TypeOK, store, environment, LogStep

LEMMA CrashStep ==
    ASSUME TypeOK, Crash
    PROVE  TypeOK' /\ LogStep
  <1>1. DOMAIN clients' = Clients
    BY DEF Crash
  <1>2. \A c \in Clients : ClientOK(clients'[c])
    <2> SUFFICES ASSUME NEW c \in Clients PROVE ClientOK(clients'[c])
      OBVIOUS
    <2>2. CASE clients[c].pc \in Resting
      BY <2>2 DEF Crash, TypeOK
    <2>3. CASE clients[c].pc \notin Resting
      <3>1. DOMAIN clients'[c] = DOMAIN clients[c] /\ clients'[c].pc = "lost"
        BY <2>3 DEF Crash, TypeOK, ClientOK
      <3> QED
        BY <3>1 DEF TypeOK, ClientOK, Resting
    <2> QED
      BY <2>2, <2>3
  <1> QED
    BY <1>1, <1>2 DEF Crash, TypeOK, store, environment, LogStep

\* Membership edits and changes of the evidence, and steps that change nothing.
LEMMA EnvironmentStep ==
    ASSUME TypeOK, AddRun \/ RemoveRun \/ EvidenceChanges \/ UNCHANGED vars
    PROVE  TypeOK' /\ LogStep
  BY CaseAssumption
     DEF AddRun, RemoveRun, EvidenceChanges, vars, TypeOK, store, LogStep

\* Every step of the specification, whoever takes it.
LEMMA StepType ==
    ASSUME TypeOK, [Next]_vars
    PROVE  TypeOK' /\ LogStep
  <1>1. ASSUME NEW c \in Clients, Handle(c) PROVE TypeOK' /\ LogStep
    <2>1. CASE GetRead(c) \/ GetMerge(c) \/ GetWrite(c)
      BY <2>1, GetReadStep, GetMergeStep, GetWriteStep
    <2>2. CASE IntentRead(c) \/ IntentMerge(c) \/ IntentWrite(c)
      BY <2>2, IntentReadStep, IntentMergeStep, IntentWriteStep
    <2>3. CASE StartMerge(c) \/ StartWrite(c) \/ StartRecover(c)
      BY <2>3, StartMergeStep, StartWriteStep, StartRecoverStep
    <2>4. CASE Replay(c) \/ OpenTransaction(c)
      BY <2>4, ReplayStep, OpenTransactionStep
    <2>5. CASE StageWrite(c) \/ CancelWrite(c)
      BY <2>5, StageWriteStep, CancelWriteStep
    <2>6. CASE ScoreRead(c) \/ ScorePrepare(c) \/ ScoreWrite(c)
      BY <2>6, ScoreReadStep, ScorePrepareStep, ScoreWriteStep
    <2>7. CASE Rollback(c)
      BY <2>7, RefuseStep DEF Rollback
    <2>8. CASE LockTimeout(c)
      BY <2>8, LockTimeoutStep
    <2> QED
      BY <1>1, <2>1, <2>2, <2>3, <2>4, <2>5, <2>6, <2>7, <2>8 DEF Handle
  <1>2. CASE Crash
    BY <1>2, CrashStep
  <1>3. CASE AddRun \/ RemoveRun \/ EvidenceChanges \/ UNCHANGED vars
    BY <1>3, EnvironmentStep
  <1> QED
    BY <1>1, <1>2, <1>3, SendStep DEF Next

-----------------------------------------------------------------------------
\* The tables and the clients always hold what the handlers rely on: no handler
\* reaches a line with a value missing, no stage is recorded beyond the third.
THEOREM TypeCorrect == Spec => []TypeOK
  <1>1. Init => TypeOK
    <2> SUFFICES ASSUME Init PROVE TypeOK
      OBVIOUS
    <2>2. [id \in Workflows |-> Absent] \in [Workflows -> Workflow]
      BY AbsentType
    <2>3. workflows \in [Workflows -> Workflow]
      <3> DEFINE blank == [id \in Workflows |-> Absent]
      <3>1. workflows \in {blank} \cup
                {[blank EXCEPT ![first] = row] :
                    first \in {CHOOSE id \in Workflows : TRUE}, row \in Legacy}
        BY DEF Init
      <3>2. blank \in [Workflows -> Workflow]
        BY <2>2
      <3> HIDE DEF blank
      <3>3. \A first : \A row \in Legacy : [blank EXCEPT ![first] = row] \in [Workflows -> Workflow]
        BY <3>2, LegacyAssumption
      <3> DEFINE anyone == CHOOSE id \in Workflows : TRUE
      <3> HIDE DEF anyone
      <3>4. \A table \in {[blank EXCEPT ![first] = row] : first \in {anyone}, row \in Legacy} :
                table \in [Workflows -> Workflow]
        BY <3>3
      <3> QED
        BY <3>1, <3>2, <3>4 DEF anyone
    <2>4. \A c \in Clients : ClientOK(clients[c])
      <3>1. /\ DOMAIN Idle = {"pc", "request", "snapshot", "built", "candidate", "view"}
            /\ Idle.pc = "idle"
        BY DEF Idle
      <3>2. ClientOK(Idle)
        BY <3>1 DEF ClientOK, Resting
      <3>3. clients = [c \in Clients |-> Idle]
        BY DEF Init
      <3> HIDE DEF Idle
      <3> QED
        BY <3>2, <3>3
    <2>5. /\ intents \in [CaseRuns -> Seq(Objectives)]
          /\ revisions \in [CaseRuns -> Seq(Revision)]
      <3>1. <<>> \in Seq(Objectives) /\ <<>> \in Seq(Revision)
        OBVIOUS
      <3> QED
        BY <3>1 DEF Init
    <2>6. DOMAIN clients = Clients /\ receipts = {} /\ ledger = {} /\ sends = 0
      BY DEF Init
    <2>7. members \subseteq Runs /\ evidence \in EvidenceStates /\ ledgerSound \in BOOLEAN
      BY CaseAssumption DEF Init
    <2> QED
      BY <2>3, <2>4, <2>5, <2>6, <2>7, CaseAssumption DEF TypeOK
  <1>2. TypeOK /\ [Next]_vars => TypeOK'
    BY StepType
  <1> QED
    BY <1>1, <1>2, PTL DEF Spec

-----------------------------------------------------------------------------
(***************************************************************************)
(* The log.  OneChain is inductive for any append of an unpublished case;  *)
(* a receipt stays the successor of what it was decided on because         *)
(* revisions never move; and no two receipts share an expectation because  *)
(* the revision a new one names is the head, which no older one can have   *)
(* as its predecessor.                                                     *)
(***************************************************************************)
LogInv == OneChain /\ ReceiptIsSuccessor /\ OneMutationPerRevision

\* What an append leaves alone and what it adds.
LEMMA AppendShape ==
    ASSUME TypeOK, NEW run \in CaseRuns, NEW case, NEW category,
           Publish(run, case, category)
    PROVE  /\ \A other \in CaseRuns \ {run} : revisions'[other] = revisions[other]
           /\ Len(revisions[run]) \in Nat
           /\ DOMAIN revisions[run] = 1 .. Len(revisions[run])
           /\ DOMAIN revisions'[run] = 1 .. Len(revisions[run]) + 1
           /\ \A i \in DOMAIN revisions[run] : revisions'[run][i] = revisions[run][i]
           /\ revisions'[run][Len(revisions[run]) + 1].sha = case
           /\ revisions'[run][Len(revisions[run]) + 1].previous = HeadSha(run)
  <1> DEFINE old == revisions[run]
             entry == [sha |-> case, previous |-> HeadSha(run),
                       category |-> IF old = <<>> THEN "initial" ELSE category]
  <1>1. revisions' = [revisions EXCEPT ![run] = Append(old, entry)]
    BY DEF Publish
  <1>2. old \in Seq(Revision) /\ DOMAIN revisions = CaseRuns
    BY DEF TypeOK
  <1>3. revisions'[run] = Append(old, entry)
    BY <1>1, <1>2
  <1>4. \A other \in CaseRuns \ {run} : revisions'[other] = revisions[other]
    BY <1>1, <1>2
  <1>5. entry.sha = case /\ entry.previous = HeadSha(run)
    OBVIOUS
  <1> HIDE DEF entry
  <1>6. /\ Len(old) \in Nat /\ DOMAIN old = 1 .. Len(old)
        /\ DOMAIN Append(old, entry) = 1 .. Len(old) + 1
        /\ \A i \in DOMAIN old : Append(old, entry)[i] = old[i]
        /\ Append(old, entry)[Len(old) + 1] = entry
    BY <1>2
  <1> QED
    BY <1>3, <1>4, <1>5, <1>6

LEMMA AppendKeepsChain ==
    ASSUME TypeOK, OneChain, NEW run \in CaseRuns, NEW case, NEW category,
           Appends(run, case, category)
    PROVE  OneChain'
  <1> DEFINE n == Len(revisions[run])
  <1>1. Publish(run, case, category) /\ ~Published(run, case)
    BY DEF Appends
  <1>2. /\ \A other \in CaseRuns \ {run} : revisions'[other] = revisions[other]
        /\ n \in Nat
        /\ DOMAIN revisions[run] = 1 .. n
        /\ DOMAIN revisions'[run] = 1 .. n + 1
        /\ \A i \in 1 .. n : revisions'[run][i] = revisions[run][i]
        /\ revisions'[run][n + 1].sha = case
        /\ revisions'[run][n + 1].previous = HeadSha(run)
    BY <1>1, AppendShape
  <1>3. HeadSha(run) = IF n = 0 THEN None ELSE revisions[run][n].sha
    BY DEF HeadSha, TypeOK
  <1>4. \A i \in 1 .. n : revisions[run][i].sha # case
    BY <1>1, <1>2 DEF Published
  <1> HIDE DEF n
  <1>5. \A i, j \in 1 .. n :
            /\ revisions[run][i].previous =
                  IF i = 1 THEN None ELSE revisions[run][i - 1].sha
            /\ revisions[run][i].sha = revisions[run][j].sha => i = j
    <2>1. \A i, j \in DOMAIN revisions[run] :
            /\ revisions[run][i].previous =
                  IF i = 1 THEN None ELSE revisions[run][i - 1].sha
            /\ revisions[run][i].sha = revisions[run][j].sha => i = j
      BY DEF OneChain
    <2> QED
      BY <1>2, <2>1
  <1>6. \A i, j \in 1 .. n + 1 :
            /\ revisions'[run][i].previous =
                  IF i = 1 THEN None ELSE revisions'[run][i - 1].sha
            /\ revisions'[run][i].sha = revisions'[run][j].sha => i = j
    <2> SUFFICES ASSUME NEW i \in 1 .. n + 1, NEW j \in 1 .. n + 1
                 PROVE  /\ revisions'[run][i].previous =
                              IF i = 1 THEN None ELSE revisions'[run][i - 1].sha
                        /\ revisions'[run][i].sha = revisions'[run][j].sha => i = j
      OBVIOUS
    <2>1. revisions'[run][i].previous = IF i = 1 THEN None ELSE revisions'[run][i - 1].sha
      <3>1. CASE i = n + 1
        BY <1>2, <1>3, <3>1
      <3>2. CASE i \in 1 .. n
        <4>1. i # 1 => i - 1 \in 1 .. n
          BY <1>2, <3>2
        <4> QED
          BY <1>2, <1>5, <3>2, <4>1
      <3> QED
        BY <1>2, <3>1, <3>2
    <2>2. revisions'[run][i].sha = revisions'[run][j].sha => i = j
      BY <1>2, <1>4, <1>5
    <2> QED
      BY <2>1, <2>2
  <1> QED
    BY <1>2, <1>6 DEF OneChain

\* A revision that was published stays where it was.
LEMMA RevisionsStay ==
    ASSUME TypeOK, NEW run \in CaseRuns, NEW case, NEW category,
           Appends(run, case, category),
           NEW other \in CaseRuns, NEW i \in DOMAIN revisions[other]
    PROVE  i \in DOMAIN revisions'[other] /\ revisions'[other][i] = revisions[other][i]
  <1>1. CASE other # run
    BY <1>1, AppendShape DEF Appends
  <1>2. CASE other = run
    BY <1>2, AppendShape DEF Appends
  <1> QED
    BY <1>1, <1>2

LEMMA OldReceiptsStay ==
    ASSUME TypeOK, ReceiptIsSuccessor, NEW run \in CaseRuns, NEW case, NEW category,
           Appends(run, case, category), NEW r \in receipts
    PROVE  \E i \in DOMAIN revisions'[r.request.run] :
              /\ revisions'[r.request.run][i].sha = r.result
              /\ revisions'[r.request.run][i].previous = r.request.expected
  <1>1. r.request.run \in CaseRuns
    BY DEF TypeOK, RequestOK
  <1>2. PICK i \in DOMAIN revisions[r.request.run] :
              /\ revisions[r.request.run][i].sha = r.result
              /\ revisions[r.request.run][i].previous = r.request.expected
    BY DEF ReceiptIsSuccessor
  <1> QED
    BY <1>1, <1>2, RevisionsStay

\* Nobody decided on the head before: what was decided on has a successor.
LEMMA HeadIsUndecided ==
    ASSUME TypeOK, OneChain, ReceiptIsSuccessor, NEW run \in CaseRuns,
           NEW s \in receipts, s.request.run = run
    PROVE  s.request.expected # HeadSha(run)
  <1> SUFFICES ASSUME s.request.expected = HeadSha(run) PROVE FALSE
    OBVIOUS
  <1> DEFINE n == Len(revisions[run])
  <1>1. PICK i \in DOMAIN revisions[run] : revisions[run][i].previous = s.request.expected
    BY DEF ReceiptIsSuccessor
  <1>2. s.request.expected # None
    BY DEF TypeOK, RequestOK, Receipted
  <1>3. n \in Nat /\ DOMAIN revisions[run] = 1 .. n
    BY DEF TypeOK
  <1>4. i # 1 /\ i - 1 \in 1 .. n /\ revisions[run][i - 1].sha = HeadSha(run)
    BY <1>1, <1>2, <1>3 DEF OneChain
  <1>5. n \in 1 .. n /\ HeadSha(run) = revisions[run][n].sha
    BY <1>2, <1>3 DEF HeadSha, TypeOK
  <1>6. i - 1 = n
    BY <1>3, <1>4, <1>5 DEF OneChain
  <1> QED
    BY <1>1, <1>3, <1>6

LEMMA LogStepInv ==
    ASSUME TypeOK, LogInv, LogStep
    PROVE  LogInv'
  <1>1. CASE UNCHANGED <<revisions, receipts>>
    BY <1>1 DEF LogInv, OneChain, ReceiptIsSuccessor, OneMutationPerRevision
  <1>2. ASSUME NEW run \in CaseRuns, NEW case, NEW category,
               Appends(run, case, category), receipts' = receipts
        PROVE  LogInv'
    <2>1. OneChain'
      BY <1>2, AppendKeepsChain DEF LogInv
    <2>2. ReceiptIsSuccessor'
      BY <1>2, OldReceiptsStay DEF LogInv, ReceiptIsSuccessor
    <2> QED
      BY <1>2, <2>1, <2>2 DEF LogInv, OneMutationPerRevision
  <1>3. CASE Decides
    <2>1. PICK q, id, row : \E case \in Projection,
               category \in {"driver_intent", "workflow", "controlled_outcome"} :
              /\ RequestOK(q) /\ q.kind \in Receipted
              /\ HeadSha(q.run) = q.expected
              /\ Appends(q.run, case, category)
              /\ SaveReceipt(q, case, id, row)
      BY <1>3 DEF Decides
    <2>2. PICK case \in Projection,
               category \in {"driver_intent", "workflow", "controlled_outcome"} :
              /\ HeadSha(q.run) = q.expected
              /\ Appends(q.run, case, category)
              /\ SaveReceipt(q, case, id, row)
      BY <2>1
    <2>3. q.run \in CaseRuns
      BY <2>1 DEF RequestOK
    <2> DEFINE new == [request |-> q, result |-> case, workflow |-> id, revision |-> row]
               n == Len(revisions[q.run])
    <2>4. receipts' = receipts \cup {new}
      BY <2>2 DEF SaveReceipt
    <2>5. OneChain'
      BY <2>2, <2>3, AppendKeepsChain DEF LogInv
    <2>6. ReceiptIsSuccessor'
      <3>1. /\ n + 1 \in DOMAIN revisions'[q.run]
            /\ revisions'[q.run][n + 1].sha = case
            /\ revisions'[q.run][n + 1].previous = q.expected
        BY <2>2, <2>3, AppendShape DEF Appends
      <3>2. new.request = q /\ new.result = case
        OBVIOUS
      <3> HIDE DEF new, n
      <3>3. \E i \in DOMAIN revisions'[new.request.run] :
                /\ revisions'[new.request.run][i].sha = new.result
                /\ revisions'[new.request.run][i].previous = new.request.expected
        BY <3>1, <3>2
      <3>4. \A r \in receipts : \E i \in DOMAIN revisions'[r.request.run] :
                /\ revisions'[r.request.run][i].sha = r.result
                /\ revisions'[r.request.run][i].previous = r.request.expected
        BY <2>2, <2>3, OldReceiptsStay DEF LogInv
      <3> QED
        BY <2>4, <3>3, <3>4 DEF ReceiptIsSuccessor
    <2>7. OneMutationPerRevision'
      <3>1. \A s \in receipts : s.request.run = q.run => s.request.expected # q.expected
        BY <2>2, <2>3, HeadIsUndecided DEF LogInv
      <3>2. new.request = q
        OBVIOUS
      <3> HIDE DEF new
      <3> QED
        BY <2>4, <3>1, <3>2 DEF LogInv, OneMutationPerRevision
    <2> QED
      BY <2>5, <2>6, <2>7 DEF LogInv
  <1> QED
    BY <1>1, <1>2, <1>3 DEF LogStep, Rebuilds, States

\* The log, its receipts and the uniqueness of decisions hold together.
THEOREM LogCorrect == Spec => []LogInv
  <1>1. Init => LogInv
    BY DEF Init, LogInv, OneChain, ReceiptIsSuccessor, OneMutationPerRevision
  <1>2. TypeOK /\ LogInv /\ [Next]_vars => LogInv'
    BY StepType, LogStepInv
  <1> QED
    BY <1>1, <1>2, TypeCorrect, PTL DEF Spec

\* Whatever handlers race to publish, the revisions of a case are one chain
\* without repetitions: the walk of _validated_head_revision never fails.
THEOREM ChainHolds == Spec => []OneChain
  <1>1. LogInv => OneChain
    BY DEF LogInv
  <1> QED
    BY <1>1, LogCorrect, PTL

\* A stored receipt proves that its mutation directly followed the revision the
\* driver was looking at when asking for it.
THEOREM ReceiptsAreSuccessors == Spec => []ReceiptIsSuccessor
  <1>1. LogInv => ReceiptIsSuccessor
    BY DEF LogInv
  <1> QED
    BY <1>1, LogCorrect, PTL

\* A double click, a retry or a second window decides at most once on a revision.
THEOREM DecidedOnce == Spec => []OneMutationPerRevision
  <1>1. LogInv => OneMutationPerRevision
    BY DEF LogInv
  <1> QED
    BY <1>1, LogCorrect, PTL

-----------------------------------------------------------------------------
(***************************************************************************)
(* The refinement.  Entries maps an append to an append, so each of the    *)
(* four log steps is a step of CaseLog, or leaves its variables alone.     *)
(***************************************************************************)
Shown ==
    [sha : Projection,
     category : {"initial", "rebuild", "driver_intent", "workflow", "controlled_outcome"}]

LEMMA EntriesShape ==
    ASSUME NEW s \in Seq(Revision)
    PROVE  /\ Entries(s) \in Seq(Shown)
           /\ Len(Entries(s)) = Len(s)
           /\ DOMAIN Entries(s) = DOMAIN s
           /\ \A i \in DOMAIN s : Entries(s)[i] = Entry(s[i])
           /\ Entries(s) = <<>> <=> s = <<>>
  <1>1. \A i \in DOMAIN s : s[i] \in Revision
    OBVIOUS
  <1>2. \A e \in Revision : Entry(e) \in Shown
    BY DEF Revision, Entry, Shown
  <1>3. Len(s) \in Nat /\ DOMAIN s = 1 .. Len(s)
    OBVIOUS
  <1>4. Entries(s) \in [1 .. Len(s) -> Shown]
    BY <1>1, <1>2, <1>3 DEF Entries
  <1>5. Entries(s) \in Seq(Shown)
    BY <1>3, <1>4, SeqDef
  <1>6. Len(Entries(s)) = Len(s)
    BY <1>3, <1>4, <1>5
  <1>7. \A i \in DOMAIN s : Entries(s)[i] = Entry(s[i])
    BY DEF Entries
  <1>8. Entries(s) = <<>> <=> s = <<>>
    BY <1>5, <1>6, EmptySeq
  <1> QED
    BY <1>3, <1>4, <1>5, <1>6, <1>7, <1>8

LEMMA EntriesAppend ==
    ASSUME NEW s \in Seq(Revision), NEW e \in Revision
    PROVE  Entries(Append(s, e)) = Append(Entries(s), Entry(e))
  <1>1. Append(s, e) \in Seq(Revision)
    OBVIOUS
  <1>2. Entry(e) \in Shown
    BY DEF Revision, Entry, Shown
  <1>3. /\ Entries(s) \in Seq(Shown) /\ Len(Entries(s)) = Len(s)
        /\ \A i \in DOMAIN s : Entries(s)[i] = Entry(s[i])
    BY EntriesShape
  <1>4. /\ Entries(Append(s, e)) \in Seq(Shown)
        /\ Len(Entries(Append(s, e))) = Len(s) + 1
        /\ \A i \in 1 .. Len(s) + 1 : Entries(Append(s, e))[i] = Entry(Append(s, e)[i])
    <2>1. Len(Append(s, e)) = Len(s) + 1 /\ DOMAIN Append(s, e) = 1 .. Len(s) + 1
      OBVIOUS
    <2> DEFINE t == Append(s, e)
    <2> HIDE DEF t
    <2>2. /\ Entries(t) \in Seq(Shown) /\ Len(Entries(t)) = Len(t)
          /\ \A i \in DOMAIN t : Entries(t)[i] = Entry(t[i])
      BY <1>1, EntriesShape DEF t
    <2> QED
      BY <2>1, <2>2 DEF t
  <1>5. /\ Append(Entries(s), Entry(e)) \in Seq(Shown)
        /\ Len(Append(Entries(s), Entry(e))) = Len(s) + 1
    BY <1>2, <1>3
  <1>6. \A i \in 1 .. Len(s) + 1 :
            Append(Entries(s), Entry(e))[i] = Entries(Append(s, e))[i]
    BY <1>2, <1>3, <1>4
  <1> QED
    BY <1>4, <1>5, <1>6, SeqEqual

\* An append of a case nobody published makes the abstract log grow.
LEMMA AppendGrows ==
    ASSUME TypeOK, NEW run \in CaseRuns, NEW case \in Projection,
           NEW category \in {"rebuild", "driver_intent", "workflow", "controlled_outcome"},
           NEW allowed,
           (IF revisions[run] = <<>> THEN "initial" ELSE category) \in allowed,
           Appends(run, case, category)
    PROVE  Log!Grows(run, allowed) /\ Log!New(run).sha = case
  <1> DEFINE old == revisions[run]
             entry == [sha |-> case, previous |-> HeadSha(run),
                       category |-> IF old = <<>> THEN "initial" ELSE category]
             abs == [r \in CaseRuns |-> Entries(revisions[r])]
             n == Len(old)
  <1>1. /\ revisions' = [revisions EXCEPT ![run] = Append(old, entry)]
        /\ \A i \in DOMAIN old : old[i].sha # case
    BY DEF Publish, Appends, Published
  <1>2. old \in Seq(Revision) /\ DOMAIN revisions = CaseRuns
    BY DEF TypeOK
  <1>3. entry \in Revision
    BY HeadType DEF TypeOK, Revision
  <1>4. Entry(entry) = [sha |-> case, category |-> entry.category] /\ entry.category \in allowed
    BY DEF Entry
  <1>5. /\ Entries(old) \in Seq(Shown) /\ Len(Entries(old)) = n /\ n \in Nat
        /\ DOMAIN Entries(old) = 1 .. n /\ DOMAIN old = 1 .. n
        /\ \A i \in 1 .. n : Entries(old)[i].sha = old[i].sha
    <2>1. \A i \in DOMAIN old : Entry(old[i]).sha = old[i].sha
      BY DEF Entry
    <2> HIDE DEF old
    <2>2. n \in Nat /\ DOMAIN old = 1 .. n
      BY <1>2
    <2> QED
      BY <1>2, <2>1, <2>2, EntriesShape
  <1>6. Entries(Append(old, entry)) = Append(Entries(old), Entry(entry))
    BY <1>2, <1>3, EntriesAppend
  <1>7. Entry(entry) \in Shown
    BY <1>3 DEF Entry, Shown, Revision
  <1> HIDE DEF old, entry, n
  <1>8. /\ abs' = [abs EXCEPT ![run] = Append(Entries(old), Entry(entry))]
        /\ abs[run] = Entries(old)
        /\ abs'[run] = Append(Entries(old), Entry(entry))
    BY <1>1, <1>2, <1>6 DEF old
  <1> HIDE DEF abs
  <1>9. /\ Len(abs'[run]) = n + 1
        /\ abs'[run][n + 1] = Entry(entry)
    BY <1>5, <1>7, <1>8
  <1>10. abs'[run] # abs[run]
    BY <1>5, <1>8, <1>9
  <1>11. \A i \in DOMAIN abs[run] : abs[run][i].sha # case
    BY <1>1, <1>2, <1>5, <1>8
  <1>12. abs' = [abs EXCEPT ![run] = Append(abs[run], abs'[run][Len(abs'[run])])]
    BY <1>8, <1>9
  <1> QED
    BY <1>4, <1>9, <1>10, <1>11, <1>12 DEF Log!Grows, Log!New, abs

LEMMA RefineRebuild ==
    ASSUME TypeOK, Rebuilds
    PROVE  Log!Next
  <1>1. PICK run \in CaseRuns, case \in Projection :
            Appends(run, case, "rebuild") /\ receipts' = receipts
    BY DEF Rebuilds
  <1>2. Log!Grows(run, {"initial", "rebuild"})
    BY <1>1, AppendGrows
  <1>3. Log!Rebuild(run)
    BY <1>1, <1>2 DEF Log!Rebuild
  <1> QED
    BY <1>3 DEF Log!Next

LEMMA HeadIsLatest ==
    ASSUME TypeOK, NEW run \in CaseRuns
    PROVE  /\ Log!Latest(run) = HeadSha(run)
           /\ [r \in CaseRuns |-> Entries(revisions[r])][run] = <<>>
                <=> revisions[run] = <<>>
  <1>1. revisions[run] \in Seq(Revision)
    BY DEF TypeOK
  <1> DEFINE old == revisions[run]
  <1> HIDE DEF old
  <1>2. /\ Entries(old) = <<>> <=> old = <<>>
        /\ Len(Entries(old)) = Len(old)
        /\ \A i \in DOMAIN old : Entries(old)[i] = Entry(old[i])
    BY <1>1, EntriesShape DEF old
  <1>3. old # <<>> => Len(old) \in DOMAIN old
    BY <1>1 DEF old
  <1>4. old # <<>> => Entries(old)[Len(old)].sha = old[Len(old)].sha
    <2>1. Entry(old[Len(old)]).sha = old[Len(old)].sha
      BY DEF Entry
    <2> QED
      BY <1>2, <1>3, <2>1
  <1>5. [r \in CaseRuns |-> Entries(revisions[r])][run] = Entries(old)
    BY DEF old
  <1>6. Log!Latest(run) = IF Entries(old) = <<>> THEN None
                          ELSE Entries(old)[Len(Entries(old))].sha
    BY <1>5 DEF Log!Latest
  <1> QED
    BY <1>2, <1>4, <1>5, <1>6 DEF HeadSha, old

LEMMA RefineState ==
    ASSUME TypeOK, States
    PROVE  Log!Next
  <1>1. PICK run \in CaseRuns, case \in Projection :
            /\ HeadSha(run) # None
            /\ Appends(run, case, "driver_intent")
            /\ receipts' = receipts
    BY DEF States
  <1>2. revisions[run] # <<>>
    BY <1>1 DEF HeadSha
  <1>3. Log!Grows(run, {"driver_intent"})
    BY <1>1, <1>2, AppendGrows
  <1>4. Log!State(run)
    BY <1>1, <1>2, <1>3, HeadIsLatest DEF Log!State
  <1> QED
    BY <1>4 DEF Log!Next

LEMMA RefineDecide ==
    ASSUME TypeOK, Decides
    PROVE  Log!Next
  <1> DEFINE kinds == {"driver_intent", "workflow", "controlled_outcome"}
  <1>1. PICK q, id, row : \E case \in Projection, category \in kinds :
            /\ RequestOK(q) /\ q.kind \in Receipted /\ ~HasReceipt(q)
            /\ HeadSha(q.run) = q.expected
            /\ Appends(q.run, case, category)
            /\ SaveReceipt(q, case, id, row)
    BY DEF Decides
  <1>2. PICK case \in Projection, category \in kinds :
            /\ Appends(q.run, case, category)
            /\ SaveReceipt(q, case, id, row)
    BY <1>1
  <1> DEFINE new == [request |-> q, result |-> case, workflow |-> id, revision |-> row]
             run == q.run
  <1>3. run \in CaseRuns /\ revisions[run] # <<>>
    BY <1>1 DEF RequestOK, Receipted, HeadSha
  <1>4. receipts' = receipts \cup {new} /\ ~HasReceipt(q) /\ HeadSha(run) = q.expected
    BY <1>1, <1>2 DEF SaveReceipt
  <1>5. Decision(new) = [run |-> run, request |-> q, expected |-> q.expected,
                         result |-> case]
    BY DEF Decision
  <1>6. \A r \in receipts : Decision(r).request # q
    BY <1>4 DEF Decision, HasReceipt
  <1> HIDE DEF new
  <1>7. {Decision(r) : r \in receipts'} = {Decision(r) : r \in receipts} \cup {Decision(new)}
    BY <1>4
  <1> HIDE DEF run
  <1>8. Log!Grows(run, kinds) /\ Log!New(run).sha = case
    BY <1>2, <1>3, AppendGrows DEF run
  <1> DEFINE d == Decision(new)
  <1>9. d.run = run /\ d.request = q /\ d.expected = q.expected /\ d.result = case
    BY <1>5
  <1> HIDE DEF d, kinds
  <1>10. /\ d \in {Decision(r) : r \in receipts'}
         /\ d.run = run /\ d.expected = Log!Latest(run) /\ d.result = Log!New(run).sha
         /\ \A other \in {Decision(r) : r \in receipts} : other.request # d.request
         /\ {Decision(r) : r \in receipts'} = {Decision(r) : r \in receipts} \cup {d}
    BY <1>3, <1>4, <1>6, <1>7, <1>8, <1>9, HeadIsLatest DEF d
  <1>11. Log!Decide(run)
    BY <1>3, <1>8, <1>10, HeadIsLatest DEF Log!Decide, kinds
  <1> QED
    BY <1>3, <1>11 DEF Log!Next

\* The handlers, with their reads outside the transaction, their retries and
\* their crashes, implement the log of rebuilds and decisions CaseLog describes.
THEOREM CaseLogImplemented == Spec => ImplementsCaseLog
  <1>1. Init => Log!Init
    <2>1. Entries(<<>>) = <<>>
      BY EntriesShape, EmptySeq
    <2> SUFFICES ASSUME Init PROVE Log!Init
      OBVIOUS
    <2>2. revisions = [run \in CaseRuns |-> <<>>] /\ receipts = {}
      BY DEF Init
    <2> QED
      BY <2>1, <2>2 DEF Log!Init
  <1>2. TypeOK /\ [Next]_vars
            => [Log!Next]_<<[run \in CaseRuns |-> Entries(revisions[run])],
                            {Decision(r) : r \in receipts}>>
    <2> SUFFICES ASSUME TypeOK, [Next]_vars
                 PROVE  \/ Log!Next
                        \/ UNCHANGED <<[run \in CaseRuns |-> Entries(revisions[run])],
                                       {Decision(r) : r \in receipts}>>
      OBVIOUS
    <2>1. LogStep
      BY StepType
    <2>2. CASE UNCHANGED <<revisions, receipts>>
      BY <2>2
    <2> QED
      BY <2>1, <2>2, RefineRebuild, RefineState, RefineDecide DEF LogStep
  <1> QED
    BY <1>1, <1>2, TypeCorrect, PTL DEF Spec, ImplementsCaseLog, Log!Spec

=============================================================================
