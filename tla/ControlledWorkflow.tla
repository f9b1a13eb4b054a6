-------------------------- MODULE ControlledWorkflow --------------------------
(***************************************************************************)
(* The controlled A/B/A2 setup test: one record per row of the table       *)
(* controlled_test_workflows, and the guards controlled_workflow_service   *)
(* puts on starting, recording, abandoning and scoring it.  Operators      *)
(* only; EngineeringCase holds the state.                                  *)
(*                                                                         *)
(* A recording keeps what the guards tell apart: the interval it covers,   *)
(* the hash of its source file and the setup the car carried.              *)
(***************************************************************************)
EXTENDS Naturals, Sequences, FiniteSets

CONSTANTS
    Runs,           \* imported recordings
    Workflows,      \* identities a new workflow may get (aba_<uuid>)
    None,           \* Python's None
    Recording,      \* [Runs -> [start, end, sha, setup]]
    Proposed,       \* the setup the authorised test asks for in stage B
    PlanTimes       \* instants at which a workflow may be planned

ASSUME RunsAssumption ==
    /\ None \notin Runs /\ None \notin Workflows /\ None \notin {"A", "B", "A2"}
    /\ IsFiniteSet(Workflows)
    /\ PlanTimes \subseteq Nat

\* A recording without such an interval (_recording_interval gives None) is
\* never attached to a stage.
ASSUME RecordingAssumption ==
    \A run \in Runs : /\ Recording[run].start \in Nat /\ Recording[run].end \in Nat
                      /\ Recording[run].start <= Recording[run].end

Stages == <<"A", "B", "A2">>
RecordedStatus == <<"a_recorded", "b_recorded", "a2_recorded">>
ActiveStatus == {"planned", "a_recorded", "b_recorded", "a2_recorded"}
TerminalStatus == {"scored", "cancelled"}

(***************************************************************************)
(* bound: the row carries a P32 identity, and with it must carry the P32   *)
(* receipt.  ordinal orders the scored rows by updated_at.                 *)
(***************************************************************************)
Workflow ==
    [status  : ActiveStatus \cup TerminalStatus \cup {"absent"},
     source  : Runs \cup {None},
     stages  : Seq(Runs),
     scope   : SUBSET Runs,
     created : Nat,
     bound   : BOOLEAN,
     capture : {"not_applicable", "captured", "blocked"},
     ordinal : Nat]

Absent ==
    [status |-> "absent", source |-> None, stages |-> <<>>, scope |-> {},
     created |-> 0, bound |-> FALSE, capture |-> "not_applicable", ordinal |-> 0]

Exists(w) == w.status # "absent"
Active(w) == w.status \in ActiveStatus
Occupied(w) == {w.source} \cup {w.stages[i] : i \in DOMAIN w.stages}

\* A workflow is still authorised by the session it was planned in: its source
\* and every run of the scope frozen at creation are still members.
OriginValid(w, members) == w.source \in members /\ w.scope \subseteq members

\* One saved session: a scope that touches it grows to all of it.
ScopeOf(runs, members) == IF runs \cap members = {} THEN runs ELSE runs \cup members

\* No other active workflow occupies a run of the scope.
SlotFree(table, id, scope) ==
    \A other \in DOMAIN table \ {id} :
        Active(table[other]) => Occupied(table[other]) \cap scope = {}

\* The status an open row has is the one its stages call for, a scored row has
\* all three.
StatusFitsStages(w) ==
    /\ Active(w) => w.status = IF w.stages = <<>> THEN "planned"
                                                 ELSE RecordedStatus[Len(w.stages)]
    /\ w.status = "scored" => Len(w.stages) = 3
    /\ Len(w.stages) <= 3

\* The recordings of a test are ones a driver could have made: each starts after
\* those before it ended, comes from a file of its own, and only B's setup moved.
OneTest(w) ==
    \A i \in DOMAIN w.stages :
        /\ Recording[w.stages[i]].setup =
              IF i = 2 THEN Proposed ELSE Recording[w.source].setup
        /\ \A j \in 1..i-1 :
              /\ Recording[w.stages[i]].start > Recording[w.stages[j]].end
              /\ Recording[w.stages[i]].sha # Recording[w.stages[j]].sha

-----------------------------------------------------------------------------
(***************************************************************************)
(* Recording a stage.                                                      *)
(***************************************************************************)
PreviousRun(w) == IF w.stages = <<>> THEN w.source ELSE w.stages[Len(w.stages)]

NextStage(w) == IF Len(w.stages) < 3 THEN Stages[Len(w.stages) + 1] ELSE None

\* Variant: the stage is only compared with the source recording.
OrderFromSource(w, stage, run) ==
    \/ stage = "A" /\ run = w.source
    \/ /\ Recording[run].start > Recording[w.source].end
       /\ stage = "A" \/ Recording[run].start > w.created

RecordingOrderIsValid(w, stage, run) ==
    \/ stage = "A" /\ run = w.source
    \/ /\ Recording[run].start > Recording[PreviousRun(w)].end
       /\ stage = "A" \/ Recording[run].start > w.created

\* The stage recordings come from different source files.
IndependentRecordings(w, run) ==
    \A i \in DOMAIN w.stages : Recording[w.stages[i]].sha # Recording[run].sha

\* A and A2 carry the source's setup, B the one planned change.
StageSetupIsExact(w, stage, run) ==
    Recording[run].setup =
        IF stage = "B" THEN Proposed ELSE Recording[w.source].setup

CanAttach(table, id, stage, run, members) ==
    LET w == table[id]
    IN  /\ Active(w)
        /\ OriginValid(w, members)
        /\ SlotFree(table, id, ScopeOf(Occupied(w) \cup {run}, members))
        /\ stage = NextStage(w)
        /\ IndependentRecordings(w, run)
        /\ RecordingOrderIsValid(w, stage, run)
        /\ StageSetupIsExact(w, stage, run)

Attached(w, run) ==
    [w EXCEPT !.stages = Append(@, run), !.status = RecordedStatus[Len(w.stages) + 1]]

-----------------------------------------------------------------------------
(***************************************************************************)
(* Planning, abandoning, scoring.                                          *)
(***************************************************************************)
Planned(run, members, time) ==
    [Absent EXCEPT !.status = "planned", !.source = run, !.scope = members,
                   !.created = time, !.bound = TRUE]

Cancelled(w) == [w EXCEPT !.status = "cancelled"]

ScoredCount(table) == Cardinality({id \in DOMAIN table : table[id].status = "scored"})

\* score_workflow: every stage recorded, still open, no rival in its scope.
CanScore(table, id, members) ==
    LET w == table[id]
    IN  /\ Len(w.stages) = 3
        /\ w.status \notin TerminalStatus
        /\ SlotFree(table, id, ScopeOf(Occupied(w), members))

Scored(w, capture, ordinal) ==
    [w EXCEPT !.status = "scored", !.capture = capture, !.ordinal = ordinal]

\* score_workflow rebuilds the reproduction snapshot from a fixed list of keys;
\* the P32 receipt is not one of them, so the row keeps its P32 identity and
\* loses the receipt that identity requires.
ScoredRowIsValid(w) == ~w.bound

=============================================================================
