------------------------------ MODULE CrewChief ------------------------------
(***************************************************************************)
(* The Crew Chief: investigations of one run in a saved session, and the   *)
(* requests that move them.                                                *)
(*                                                                         *)
(* A request names the revision of the Engineering Case it was decided on. *)
(* Its handler looks for a receipt of the same request, rebuilds the       *)
(* workspace, compares, prepares its events, and commits them in one       *)
(* transaction with the case the changed database projects and a receipt.  *)
(* Continuing also freezes a pair of decisions in a transaction before it  *)
(* and one after it.  An advance is several such commits, each with a      *)
(* receipt of its own, so that a retry takes up where the first one ended. *)
(*                                                                         *)
(* The case has routes of its own.  Reading it builds the workspace and    *)
(* publishes its case in a later transaction, after whatever case is then  *)
(* current; the driver's intent is compared before its transaction and in  *)
(* it.  The workspace itself can be read without being published.          *)
(***************************************************************************)
EXTENDS Adaptation, Integers, Sequences, FiniteSets, SequencesExt, FiniteSetsExt

CONSTANTS
    None,
    Clients,           \* mutations in flight
    Kinds,             \* the mutations they make
    Readers,           \* requests in flight to the routes of the case
    Authorities,       \* what the producers' evidence may be
    Blocking,          \* those on which the critic is blocked
    Objectives,
    Plan,              \* for an authority, the inspections in the order preferred
    Enough,            \* for an authority, the sets of them that explain it
    Integrity,         \* those that come before the question to the driver
    MaxSteps,          \* max_read_only_steps of an advance, 4 in the program
    Stored,            \* what may be stored already: [investigations, intents]
    MaxInvestigations, MaxSends, MaxEvents

ToolsOf(now) == {Plan[now][n] : n \in DOMAIN Plan[now]}
ToolNames == UNION {ToolsOf(now) : now \in Authorities}
AllKinds == {"open", "continue", "advance", "answer", "objective", "abandon", "rebase"}

ASSUME CrewAssumption ==
    /\ Blocking \subseteq Authorities /\ Kinds \subseteq AllKinds
    /\ Integrity \subseteq ToolNames
    /\ None \notin Objectives \cup Authorities
    /\ MaxSteps \in Nat \ {0}
    /\ MaxInvestigations \in Nat /\ MaxSends \in Nat /\ MaxEvents \in Nat

ASSUME PlanAssumption ==
    /\ \A now \in Authorities : Plan[now] \in Seq(ToolsOf(now))
    /\ \A now \in Authorities : Enough[now] \subseteq SUBSET ToolNames
    /\ ToolNames \cap {"ask", "decide"} = {}

VARIABLES
    authority,      \* the producers' evidence: p19, p20, p26, p32, setup, runtime,
                    \* the session's runs, the active workflow
    learned,        \* records of the P33 stream, of every scope
    ledgerSound,    \* that stream passes its audit
    investigations, \* crew_chief_investigations and crew_chief_events
    intents,        \* objectives of engineering_driver_intents
    published,      \* engineering_case_revisions
    receipts,       \* crew_chief_mutation_receipts
    clients,        \* the request each client has in flight
    readers,        \* the workspace each reader holds, and what it does with it
    sends, events

history == <<investigations, intents, published, receipts>>
producers == <<authority, learned, ledgerSound>>
bounds == <<sends, events>>
vars == <<authority, learned, ledgerSound, investigations, intents, published, receipts,
          clients, readers, sends, events, pairs, decision, unreviewed, verified>>

Actions == ToolNames \cup {"ask", "decide"}
Endings == {"decided", "abandoned"}

Event == [kind : {"opened", "inspected", "asked", "answered", "objective", "rebased"}
                    \cup Endings,
          authority : Authorities, what : ToolNames \cup Objectives \cup {None},
          pair : BOOLEAN]

Investigation == [objective : Objectives, opened : Authorities, events : Seq(Event),
                  continues : Nat]

\* A workspace, up to the hashes: everything its case and its folded state say.
Workspace == [authority : Authorities, learned : Nat, inv : Nat, length : Nat,
              objective : Objectives, intents : Nat]

ASSUME NoneAssumption == None \notin Workspace

CountUnit == MaxSteps + 1
Units == 0..CountUnit     \* 0: the request itself; 1.. the steps of an advance

Request == [kind : AllKinds, expect : Workspace,
            what : Objectives \cup {"accepted", "current", None}]
Receipt == [request : Request, unit : Units, expect : Workspace, result : Workspace]

-----------------------------------------------------------------------------
(***************************************************************************)
(* fold_investigation.                                                     *)
(***************************************************************************)
KindsIn(log) == {log[n].kind : n \in DOMAIN log}
InspectedIn(log) == {log[n].what : n \in {m \in DOMAIN log : log[m].kind = "inspected"}}

LastOf(log, kind) == SelectLastInSeq(log, LAMBDA e : e.kind = kind)

FoldedObjective(inv, log) ==
    IF LastOf(log, "objective") = 0 THEN inv.objective ELSE log[LastOf(log, "objective")].what

Accepted(inv, log) ==
    IF LastOf(log, "rebased") = 0 THEN inv.opened ELSE log[LastOf(log, "rebased")].authority

\* An authority other than the accepted one makes it stale, closed or not.
Status(inv, log, now) ==
    IF Accepted(inv, log) # now THEN "stale"
    ELSE IF KindsIn(log) \cap Endings # {} THEN "closed"
    ELSE "open"

Pending(log) == LastOf(log, "asked") > LastOf(log, "answered")

\* The places of the inspections not made yet, in the planner's order.
Left(now, log) == {n \in DOMAIN Plan[now] : Plan[now][n] \notin InspectedIn(log)}

\* Those made explain the evidence.
Explained(now, log) == \E made \in Enough[now] : made \subseteq InspectedIn(log)

\* The next action of the planner: the inspections of integrity, one question,
\* the other inspections until they explain enough, the decision.
Baseline(now, log) ==
    LET first == Plan[now][Min(Left(now, log))]
        answered == "answered" \in KindsIn(log)
        goesOn == IF answered THEN ~Explained(now, log) ELSE first \in Integrity
    IN  IF Left(now, log) # {} /\ goesOn THEN first
        ELSE IF answered THEN "decide" ELSE "ask"

\* Memory may move an inspection one place forward, none of integrity.
Attention(now, log) ==
    LET rest == Left(now, log) \ {Min(Left(now, log))}
    IN  IF Baseline(now, log) \in ToolNames \ Integrity /\ rest # {}
        THEN {Plan[now][Min(rest)]}
        ELSE {}

-----------------------------------------------------------------------------
(***************************************************************************)
(* build_crew_chief_workspace.                                             *)
(***************************************************************************)
Latest == Len(investigations)
Log(v) == investigations[v].events

Intent(stated, otherwise) == IF stated = <<>> THEN otherwise ELSE Last(stated)

ObjectiveOf(table, stated, v, asked) ==
    IF v = 0 THEN Intent(stated, asked) ELSE FoldedObjective(table[v], table[v].events)

\* Variant: the two ledgers are not compared.
ReadableAnyway(table, stated, v) == v \in 0..Len(table)

\* "objective and DriverIntent ledger disagree"
Readable(table, stated, v) ==
    v # 0 /\ stated # <<>> => ObjectiveOf(table, stated, v, None) = Last(stated)

Built(table, stated, experience, v, asked) ==
    [authority |-> authority, learned |-> experience, inv |-> v,
     length    |-> IF v = 0 THEN 0 ELSE Len(table[v].events),
     objective |-> ObjectiveOf(table, stated, v, asked),
     intents   |-> Len(stated)]

Now(v, asked) == Built(investigations, intents, learned, v, asked)

\* What a workspace had folded; the events before it never change.
LogOf(w) == IF w.inv = 0 THEN <<>> ELSE SubSeq(Log(w.inv), 1, w.length)
StatusOf(w) ==
    IF w.inv = 0 THEN "none" ELSE Status(investigations[w.inv], LogOf(w), w.authority)

-----------------------------------------------------------------------------
(***************************************************************************)
(* Requests.                                                               *)
(***************************************************************************)
Resting == {"idle", "ok", "refused", "vetoed", "lost"}

\* on: the workspace read; action: what it shows to be next; committed: the one
\* returned, while what follows the commit is still to be done.
NoRequest == [pc |-> "idle", request |-> None, unit |-> 0, on |-> None, action |-> None,
              pair |-> None, effective |-> 0, committed |-> None]

At(c, pc) == clients[c].pc = pc
Become(c, k) == clients' = [clients EXCEPT ![c] = k]
Goto(c, pc) == Become(c, [clients[c] EXCEPT !.pc = pc])

CaseHead == Last(published)

\* What a client may have read: the current case, or the workspace as it is now,
\* of the latest investigation or of one it names.
Readings ==
    {published[n] : n \in {Len(published)} \ {0}}
    \cup {Now(v, asked) : v \in {u \in {Latest} \cup DOMAIN investigations :
                                   Readable(investigations, intents, u)},
                        asked \in Objectives}

Sends(c, request) ==
    /\ sends < MaxSends /\ sends' = sends + 1
    /\ Become(c, [NoRequest EXCEPT !.pc = "begin", !.request = request,
                                   !.on = request.expect])
    /\ UNCHANGED <<history, producers, adaptation, readers, events>>

Whats(kind) ==
    CASE kind \in {"open", "objective"} -> Objectives
      [] kind = "rebase" -> {"accepted", "current"}
      [] OTHER -> {None}

\* On what the client has read, and for its investigation.
Send(c) ==
    /\ clients[c].pc \in Resting
    /\ \E kind \in Kinds, read \in Readings : \E what \in Whats(kind) :
          /\ kind = "open" \/ read.inv # 0
          /\ Sends(c, [kind |-> kind, expect |-> read, what |-> what])

\* The answer did not arrive, or the process died: the same request again.
Retry(c) ==
    /\ clients[c].pc \in Resting /\ clients[c].request # None
    /\ Sends(c, clients[c].request)

-----------------------------------------------------------------------------
(***************************************************************************)
(* The handlers, up to the transaction.                                    *)
(***************************************************************************)
ReceiptsOf(request, unit) == {r \in receipts : r.request = request /\ r.unit = unit}
ResultOf(request, unit) == (CHOOSE r \in ReceiptsOf(request, unit) : TRUE).result

\* _assert_crew_mutation_identity
IsOn(w, request) ==
    LET v == IF request.kind = "open" THEN Latest ELSE w.inv
    IN  /\ Readable(investigations, intents, v)
        /\ w = Now(v, request.what)

Continues(w) == StatusOf(w) = "open" /\ ~Pending(LogOf(w))

\* Variant: a closed investigation is not told from an open one.
AllowsAnyStatus(kind, w, what) ==
    CASE kind = "open" -> TRUE
      [] kind \in {"continue", "advance"} -> Continues(w)
      [] kind = "answer" -> StatusOf(w) = "open" /\ Pending(LogOf(w))
      [] kind \in {"objective", "abandon"} -> StatusOf(w) = "open"
      [] kind = "rebase" -> \/ StatusOf(w) = "open" /\ what = "current"
                            \/ StatusOf(w) = "stale" /\ what = "accepted"

Allows(kind, w, what) ==
    CASE kind = "open" -> StatusOf(w) \in {"none", "closed"}
      [] kind \in {"continue", "advance"} -> Continues(w)
      [] kind = "answer" -> StatusOf(w) = "open" /\ Pending(LogOf(w))
      [] kind \in {"objective", "abandon"} -> StatusOf(w) = "open"
      [] kind = "rebase" -> \/ StatusOf(w) = "open" /\ what = "current"
                            \/ StatusOf(w) = "stale" /\ what = "accepted"

\* The revision a pair is frozen for says nothing of the driver's intents.
Revision(w) == [w EXCEPT !.intents = 0]

\* What a workspace shows to be next: an active pair while it is in effect.
Shown(w) ==
    LET active == {p \in PairsOf(Revision(w)) :
                       p.by # 0 /\ Usable(p, Effective(verified, decision))}
    IN  IF active = {} THEN Baseline(w.authority, LogOf(w)) ELSE (CHOOSE p \in active : TRUE).action

Looking(k) == [k EXCEPT !.pc = "look", !.action = Shown(k.on)]

\* The next part of an advance, or the answer.
Onward(k, w) ==
    IF k.request.kind # "advance" \/ k.unit = 0
    THEN [NoRequest EXCEPT !.pc = "ok", !.request = k.request]
    ELSE [NoRequest EXCEPT !.pc = "step", !.request = k.request, !.on = w,
                           !.unit = IF k.unit = CountUnit THEN 1 ELSE k.unit + 1]

Ends(k, pc) == [NoRequest EXCEPT !.pc = pc, !.request = k.request]

\* Receipt, workspace, comparison; several reads, taken as one.
Begin(c) ==
    /\ At(c, "begin")
    /\ LET k == clients[c]
           q == k.request
           counted == q.kind = "advance" /\ ReceiptsOf(q, CountUnit) # {}
       IN  Become(c,
              CASE ReceiptsOf(q, 0) # {} -> Ends(k, "ok")
                [] ReceiptsOf(q, 0) = {} /\ counted ->
                      [k EXCEPT !.pc = "step", !.unit = 1, !.on = ResultOf(q, CountUnit)]
                [] ReceiptsOf(q, 0) = {} /\ ~counted /\ IsOn(k.on, q)
                      /\ Allows(q.kind, k.on, q.what) ->
                      CASE q.kind = "continue" -> Looking(k)
                        [] q.kind = "advance" -> [k EXCEPT !.pc = "commit", !.unit = CountUnit]
                        [] OTHER -> [k EXCEPT !.pc = "commit"]
                [] OTHER -> Ends(k, "refused"))
    /\ UNCHANGED <<history, producers, adaptation, readers, bounds>>

\* Where an advance stops by itself.
Boundary(w) ==
    \/ ~Continues(w)
    \/ w.authority \in Blocking /\ Integrity \subseteq InspectedIn(LogOf(w))
    \/ Baseline(w.authority, LogOf(w)) = "decide"

\* Variant: a part starts from whatever the workspace is now.
StepOnNow(c) ==
    /\ At(c, "step")
    /\ LET k == clients[c]
           q == k.request
           now == Now(k.on.inv, q.what)
           stops == Boundary(now) \/ k.unit > MaxSteps
       IN  /\ Readable(investigations, intents, k.on.inv)
           /\ Become(c,
              CASE stops -> [k EXCEPT !.pc = "commit", !.unit = 0]
                [] ~stops /\ ReceiptsOf(q, k.unit) # {} -> Onward(k, ResultOf(q, k.unit))
                [] OTHER -> Looking([k EXCEPT !.on = now]))
    /\ UNCHANGED <<history, producers, adaptation, readers, bounds>>

Step(c) ==
    /\ At(c, "step")
    /\ LET k == clients[c]
           q == k.request
           stops == Boundary(k.on) \/ k.unit > MaxSteps
       IN  Become(c,
              CASE stops -> [k EXCEPT !.pc = "commit", !.unit = 0]
                [] ~stops /\ ReceiptsOf(q, k.unit) # {} -> Onward(k, ResultOf(q, k.unit))
                [] ~stops /\ ReceiptsOf(q, k.unit) = {} /\ IsOn(k.on, q) -> Looking(k)
                [] OTHER -> Ends(k, "refused"))
    /\ UNCHANGED <<history, producers, adaptation, readers, bounds>>

-----------------------------------------------------------------------------
(***************************************************************************)
(* _freeze_p34_pair_for_workspace: before the transaction of a             *)
(* continuation, for the workspace read, and after the transactions that   *)
(* end nothing, for the one returned.  Whatever fails in it, the caller    *)
(* goes on without a pair.                                                 *)
(***************************************************************************)
Freezing(k) == IF k.committed = None THEN k.on ELSE k.committed

AfterFreeze(k, p) ==
    IF k.committed = None THEN [k EXCEPT !.pc = "commit", !.pair = p]
    ELSE Onward(k, k.committed)

NoPair(c) == Become(c, AfterFreeze(clients[c], None)) /\ UNCHANGED adaptation

\* What is in effect, and the pair frozen already.
Look(c) ==
    /\ At(c, "look")
    /\ LET k == clients[c]
           w == Freezing(k)
           existing == PairsOf(Revision(w))
       IN  \/ NoPair(c)
           \/ /\ StatusOf(w) = "open"
              /\ Restored
              /\ IF existing = {}
                 THEN Become(c, [k EXCEPT !.pc = "pair", !.effective = EffectiveBefore])
                 ELSE \E p \in existing :
                          Become(c, AfterFreeze(k,
                              IF Usable(p, EffectiveBefore) THEN p ELSE None))
    /\ UNCHANGED <<history, producers, readers, bounds>>

\* The baseline, or what the memory in effect directs.
Decisions(w, effective) ==
    LET baseline == Baseline(w.authority, LogOf(w))
        directed == IF effective = 0 THEN {}
                    ELSE Attention(w.authority, LogOf(w)) \cup {baseline}
    IN  {[on |-> Revision(w), action |-> baseline, by |-> 0]}
            \cup {[on |-> Revision(w), action |-> a, by |-> effective] : a \in directed}

Freeze(c) ==
    /\ At(c, "pair")
    /\ LET k == clients[c]
       IN  \/ NoPair(c)
           \/ \E p \in Decisions(Freezing(k), k.effective) :
                 Frozen(p) /\ Become(c, AfterFreeze(k, p))
    /\ UNCHANGED <<history, producers, readers, bounds>>

-----------------------------------------------------------------------------
(***************************************************************************)
(* _commit_crew_case_mutation.                                             *)
(***************************************************************************)

\* _production_subgoal_from_pair
Action(k) == IF k.pair # None /\ k.pair.by # 0 THEN k.pair.action ELSE k.action

\* Whether the part in hand is a continuation.
IsContinuation(k) == k.request.kind = "continue" \/ k.unit \in 1..MaxSteps

EventKind(k) ==
    CASE k.request.kind = "open" -> "opened"
      [] k.request.kind = "answer" -> "answered"
      [] k.request.kind = "objective" -> "objective"
      [] k.request.kind = "abandon" -> "abandoned"
      [] k.request.kind = "rebase" -> "rebased"
      [] IsContinuation(k) ->
            CASE Action(k) = "ask" -> "asked"
              [] Action(k) = "decide" -> "decided"
              [] OTHER -> "inspected"

\* The count and the answer of an advance, and a rebase of what is current,
\* append nothing.
Appends(k) ==
    CASE k.request.kind = "advance" -> IsContinuation(k)
      [] k.request.kind = "rebase" -> StatusOf(k.on) = "stale"
      [] OTHER -> TRUE

\* Variant: an event carries what the request says.
EventAsAsked(k) ==
    [kind |-> EventKind(k), authority |-> k.on.authority, pair |-> k.pair # None,
     what |-> IF EventKind(k) = "inspected" THEN Action(k) ELSE k.request.what]

EventIn(k) ==
    [kind |-> EventKind(k),
     authority |-> IF k.request.kind = "open" THEN authority ELSE k.on.authority,
     what |-> CASE EventKind(k) = "inspected" -> Action(k)
                [] EventKind(k) = "objective" -> k.request.what
                [] OTHER -> None,
     pair |-> k.pair # None]

\* A continuation must name the pair that foretold it, and do what it says.
Contradicts(k) ==
    /\ IsContinuation(k)
    /\ IF k.pair = None THEN \E p \in PairsOf(Revision(k.on)) : p.action = Action(k)
       ELSE k.pair.action # Action(k)

\* Variant: the steps of an advance count as well.
CountsSteps(k) == IsContinuation(k) \/ k.unit = CountUnit

Counts(k) == k.request.kind = "continue" \/ k.unit = CountUnit

Row(inv, k) ==
    [inv EXCEPT !.events = IF Appends(k) THEN Append(@, EventIn(k)) ELSE @,
                !.continues = IF Counts(k) THEN @ + 1 ELSE @]

Applied(k) ==
    IF k.request.kind = "open"
    THEN Append(investigations, [objective |-> k.request.what, opened |-> k.on.authority,
                                 events |-> <<EventIn(k)>>, continues |-> 0])
    ELSE [investigations EXCEPT ![k.on.inv] = Row(@, k)]

\* _append_objective_intent_refinement, _append_driver_answer_intent_refinement
Refined(k) ==
    CASE k.request.kind \in {"open", "objective"} ->
            {IF intents = <<>> \/ Last(intents) = k.request.what THEN intents
             ELSE Append(intents, k.request.what)}
      [] k.request.kind = "answer" -> {intents, Append(intents, k.on.objective)}
      [] OTHER -> {intents}

Terminal(k) == Appends(k) /\ EventKind(k) \in Endings

\* The P33 record of an ending, unless that stream is broken; the P34 outcome
\* too, if a pair was frozen, unless its own unit fails.
Learned(k) == IF Terminal(k) /\ ledgerSound THEN learned + 1 ELSE learned
Captures(k) ==
    IF Terminal(k) /\ ledgerSound /\ \E p \in pairs : p.on.inv = k.on.inv
    THEN BOOLEAN ELSE {FALSE}

\* What follows a commit: a review of a capture, a pair for the next revision of
\* what goes on, nothing after the count and the answer of an advance.
AfterCommit(k, w, captured) ==
    CASE captured -> [k EXCEPT !.pc = "review", !.committed = w]
      [] ~captured /\ (Terminal(k) \/ (k.request.kind = "advance" /\ ~IsContinuation(k))) ->
            Onward(k, w)
      [] OTHER -> [k EXCEPT !.pc = "look", !.committed = w, !.pair = None]

\* finalize_case_in_transaction: a case already published is current or refused.
Publishable(w) == w \notin {published[n] : n \in 1..(Len(published) - 1)}
WithCase(w) == IF published # <<>> /\ w = CaseHead THEN published ELSE Append(published, w)

\* Variant: only the investigation is compared with the current case.
IsCurrentInvestigation(k) == published # <<>> /\ k.on.inv = CaseHead.inv

\* The current case is the one decided on and, if an event is appended, it follows
\* the last one stored.
IsCurrent(k) ==
    /\ published # <<>> /\ k.on = CaseHead
    /\ k.request.kind # "open" /\ Appends(k) => Len(Log(k.on.inv)) = k.on.length

\* A decision may be a measurement mission whose contract the evidence lacks.
NoContract(c) ==
    /\ At(c, "commit")
    /\ IsContinuation(clients[c]) /\ EventKind(clients[c]) = "decided"
    /\ Become(c, Ends(clients[c], "refused"))
    /\ UNCHANGED <<history, producers, adaptation, readers, bounds>>

Replay(c) ==
    /\ At(c, "commit")
    /\ LET k == clients[c]
       IN  /\ ReceiptsOf(k.request, k.unit) # {}
           /\ \E captured \in IF Terminal(k) THEN BOOLEAN ELSE {FALSE} :
                  Become(c, AfterCommit(k, ResultOf(k.request, k.unit), captured))
    /\ UNCHANGED <<history, producers, adaptation, readers, bounds>>

Commit(c) ==
    /\ At(c, "commit")
    /\ LET k == clients[c]
           q == k.request
           v == IF q.kind = "open" THEN Latest + 1 ELSE k.on.inv
           table == Applied(k)
       IN  /\ ReceiptsOf(q, k.unit) = {}
           /\ IsCurrent(k) /\ ~Contradicts(k)
           /\ q.kind = "open" => Latest < MaxInvestigations
           /\ \E stated \in Refined(k), captured \in Captures(k) :
                 LET w == Built(table, stated, Learned(k), v, q.what)
                 IN  /\ Readable(table, stated, v) /\ Publishable(w)
                     /\ investigations' = table /\ intents' = stated
                     /\ published' = WithCase(w)
                     /\ receipts' = receipts \cup
                           {[request |-> q, unit |-> k.unit, expect |-> k.on, result |-> w]}
                     /\ unreviewed' = (unreviewed \/ captured)
                     /\ Become(c, AfterCommit(k, w, captured))
           /\ learned' = Learned(k)
           /\ verified' = (verified /\ table = investigations /\ learned' = learned)
    /\ UNCHANGED <<authority, ledgerSound, pairs, decision, readers, bounds>>

\* Any failure rolls the transaction back.
Fail(c) ==
    /\ At(c, "commit")
    /\ LET k == clients[c]
           q == k.request
           v == IF q.kind = "open" THEN Latest + 1 ELSE k.on.inv
       IN  /\ ReceiptsOf(q, k.unit) = {}
           /\ CASE ~IsCurrent(k) -> Become(c, Ends(k, "refused"))
                [] IsCurrent(k) /\ Contradicts(k) -> Become(c, Ends(k, "vetoed"))
                [] OTHER ->
                     /\ \E stated \in Refined(k) :
                           LET w == Built(Applied(k), stated, Learned(k), v, q.what)
                           IN  ~Readable(Applied(k), stated, v) \/ ~Publishable(w)
                     /\ Become(c, Ends(k, "refused"))
    /\ UNCHANGED <<history, producers, adaptation, readers, bounds>>

\* _review_p34_terminal_capture, whose failure is ignored
Review(c) ==
    /\ At(c, "review")
    /\ Restored \/ UNCHANGED adaptation
    /\ Become(c, Onward(clients[c], clients[c].committed))
    /\ UNCHANGED <<history, producers, readers, bounds>>

-----------------------------------------------------------------------------
(***************************************************************************)
(* Everyone else.                                                          *)
(***************************************************************************)
Happens == events < MaxEvents /\ events' = events + 1

\* An import, an edited session, a workflow: the run is read differently.  Those
\* that touch the audited tables end the audit too.
ChangeAuthority ==
    /\ Happens
    /\ authority' \in Authorities \ {authority}
    /\ verified' \in {verified, FALSE}
    /\ UNCHANGED <<history, learned, ledgerSound, ledger, clients, readers, sends>>

\* A record of another scope, or damage that its audit finds.
LearnElsewhere ==
    /\ Happens
    /\ learned' = learned + 1 /\ verified' = FALSE
    /\ UNCHANGED <<history, authority, ledgerSound, ledger, clients, readers, sends>>

LedgerBreaks ==
    /\ Happens /\ ledgerSound
    /\ ledgerSound' = FALSE
    /\ UNCHANGED <<history, authority, learned, adaptation, clients, readers, sends>>

NotReading == [pc |-> "idle", on |-> None, what |-> None]
Read(r, reading) == readers' = [readers EXCEPT ![r] = reading]

\* Reading the case builds the workspace of the latest investigation ...
GetRead(r) ==
    /\ readers[r].pc = "idle"
    /\ Readable(investigations, intents, Latest)
    /\ \E asked \in Objectives :
          LET w == Now(Latest, asked)
          IN  /\ w \notin {published[n] : n \in DOMAIN published}
              /\ Read(r, [pc |-> "publish", on |-> w, what |-> None])
    /\ UNCHANGED <<history, producers, adaptation, clients, bounds>>

\* ... and publishes its case later, whatever the current case is by then.
GetWrite(r) ==
    /\ readers[r].pc = "publish"
    /\ published' = IF Publishable(readers[r].on) THEN WithCase(readers[r].on)
                    ELSE published
    /\ Read(r, NotReading)
    /\ UNCHANGED <<investigations, intents, receipts, producers, adaptation, clients,
                   bounds>>

\* The driver states an intent on the current case, as it is built now ...
IntentRead(r) ==
    /\ Happens
    /\ readers[r].pc = "idle" /\ published # <<>>
    /\ Readable(investigations, intents, Latest)
    /\ CaseHead = Now(Latest, CaseHead.objective)
    /\ \E stated \in Objectives :
          Read(r, [pc |-> "state", on |-> CaseHead, what |-> stated])
    /\ UNCHANGED <<history, producers, adaptation, clients, sends>>

\* ... and states it if that is the current case still, alone or with a workflow,
\* which the run is then read with.
IntentWrite(r) ==
    /\ readers[r].pc = "state"
    /\ readers[r].on = CaseHead
    /\ \/ authority' = authority /\ verified' = verified
       \/ authority' \in Authorities \ {authority} /\ verified' = FALSE
    /\ LET stated == Append(intents, readers[r].what)
           w == [Built(investigations, stated, learned, Latest, readers[r].what)
                     EXCEPT !.authority = authority']
       IN  /\ Readable(investigations, stated, Latest) /\ Publishable(w)
           /\ intents' = stated /\ published' = WithCase(w)
    /\ Read(r, NotReading)
    /\ UNCHANGED <<investigations, receipts, learned, ledgerSound, ledger, clients, bounds>>

\* Refused, or rolled back.
IntentFails(r) ==
    /\ readers[r].pc = "state"
    /\ Read(r, NotReading)
    /\ UNCHANGED <<history, producers, adaptation, clients, bounds>>

\* The process ends; what it had audited and was doing is gone.
Crash ==
    /\ Happens
    /\ clients' = [c \in Clients |-> IF clients[c].pc \in Resting THEN clients[c]
                                     ELSE Ends(clients[c], "lost")]
    /\ readers' = [r \in Readers |-> NotReading]
    /\ verified' = FALSE
    /\ UNCHANGED <<history, producers, ledger, sends>>

-----------------------------------------------------------------------------
Init ==
    /\ authority \in Authorities
    /\ learned = 0 /\ ledgerSound = TRUE
    /\ \E s \in Stored : investigations = s.investigations /\ intents = s.intents
    /\ published = <<>> /\ receipts = {}
    /\ clients = [c \in Clients |-> NoRequest]
    /\ readers = [r \in Readers |-> NotReading]
    /\ sends = 0 /\ events = 0
    /\ AdaptationInit

Mutation(c) ==
    \/ Send(c) \/ Retry(c) \/ Begin(c) \/ Step(c) \/ Look(c) \/ Freeze(c)
    \/ Replay(c) \/ Commit(c) \/ NoContract(c) \/ Fail(c) \/ Review(c)

CaseRoute(r) == GetRead(r) \/ GetWrite(r) \/ IntentRead(r) \/ IntentWrite(r) \/ IntentFails(r)

Next ==
    \/ \E c \in Clients : Mutation(c)
    \/ \E r \in Readers : CaseRoute(r)
    \/ ChangeAuthority \/ LearnElsewhere \/ LedgerBreaks \/ Crash

Spec == Init /\ [][Next]_vars

-----------------------------------------------------------------------------
(***************************************************************************)
(* Properties.                                                             *)
(***************************************************************************)
Client == [pc : Resting \cup {"begin", "step", "look", "pair", "commit", "review"},
           request : Request \cup {None}, unit : 0..(CountUnit + 1),
           on : Workspace \cup {None}, action : Actions \cup {None},
           pair : [on : Workspace, action : Actions, by : Nat] \cup {None},
           effective : Nat, committed : Workspace \cup {None}]

Reader == [pc : {"idle", "publish", "state"}, on : Workspace \cup {None},
           what : Objectives \cup {None}]

\* Every investigation, case, receipt, pair and request has the shape the storage
\* and the handlers give it.
TypeOK ==
    /\ authority \in Authorities /\ learned \in Nat /\ ledgerSound \in BOOLEAN
    /\ investigations \in Seq(Investigation) /\ intents \in Seq(Objectives)
    /\ published \in Seq(Workspace) /\ receipts \subseteq Receipt
    /\ clients \in [Clients -> Client] /\ readers \in [Readers -> Reader]
    /\ sends \in Nat /\ events \in Nat
    /\ AdaptationTypeOK(Workspace, Actions)

\* "An open Crew Chief investigation already exists for this scope.": of the
\* investigations of a run in a session at most one has no ending.
OneOpen ==
    \A u, v \in DOMAIN investigations :
        /\ KindsIn(Log(u)) \cap Endings = {}
        /\ KindsIn(Log(v)) \cap Endings = {}
        => u = v

\* Each case published is of the investigation of the one before it, with as many
\* events or more, or of a later investigation.
InOrder ==
    \A n \in 2..Len(published) :
        LET before == published[n - 1]
        IN  \/ before.inv < published[n].inv
            \/ before.inv = published[n].inv /\ before.length <= published[n].length

\* Two investigations are open only where the case read before one of them was
\* published after it: otherwise, of two requests to open that were each built
\* while there was none, one is refused.
OneOpenInOrder == InOrder => OneOpen

\* An event is one that the events before it allow: whatever was interleaved
\* between the reading and the commit, an answer follows its question, nothing
\* but a question's answer or an ending follows the question, an inspection is
\* not repeated, only a rebase follows an ending, and only a rebase carries
\* another authority than the one accepted before it.
LegalEvent(inv, log, e) ==
    /\ e.kind = "rebased" <=> e.authority # Accepted(inv, log)
    /\ e.kind # "rebased" => KindsIn(log) \cap Endings = {}
    /\ e.kind = "answered" => Pending(log)
    /\ e.kind \in {"inspected", "asked", "decided"} => ~Pending(log)
    /\ e.kind = "inspected" => e.what \notin InspectedIn(log)
    /\ e.kind = "asked" => "answered" \notin KindsIn(log)

LegalEvents(inv) ==
    \A n \in 2..Len(inv.events) :
        LegalEvent(inv, SubSeq(inv.events, 1, n - 1), inv.events[n])

\* Every history is one that a single careful user could have made.
LegalHistory == \A v \in DOMAIN investigations : LegalEvents(investigations[v])

\* What is stored already was written by these requests, before continuations were
\* counted.
ASSUME StoredAssumption ==
    \A s \in Stored :
        /\ s.investigations \in Seq(Investigation) /\ s.intents \in Seq(Objectives)
        /\ \A v \in DOMAIN s.investigations :
              LET inv == s.investigations[v]
              IN  /\ LegalEvents(inv) /\ inv.continues = 0
                  /\ v # Len(s.investigations) => KindsIn(inv.events) \cap Endings # {}
                  /\ \A n \in DOMAIN inv.events :
                        inv.events[n].kind = "objective" => inv.events[n].what \in Objectives
        /\ Readable(s.investigations, s.intents, Len(s.investigations))

\* An investigation counts the continuations the driver asked for, each once:
\* a retry after a crash does not count again, nor do the steps of an advance.
ContinuesAreCounted ==
    \A v \in DOMAIN investigations :
        investigations[v].continues =
            Cardinality({r \in receipts :
                /\ r.expect.inv = v
                /\ r.request.kind = "continue" \/ r.unit = CountUnit})

\* The parts of an advance are one chain: each was decided on the case the one
\* before it returned, the first on what the request named, and the answer says
\* what the last one did.
AdvanceIsOneChain ==
    \A r \in receipts : r.request.kind = "advance" =>
        IF r.unit = CountUnit THEN r.expect = r.request.expect
        ELSE \E s \in receipts :
                /\ s.request = r.request /\ s.unit # r.unit /\ s.result = r.expect
                /\ r.unit > 1 => s.unit = r.unit - 1
                /\ r.unit = 1 => s.unit = CountUnit

\* "Keep objective selection and the case-bound DriverIntent ledger coherent.": the
\* objective of the latest investigation is the one the driver last stated.
ObjectivesAgree ==
    intents # <<>> /\ Latest > 0 =>
        FoldedObjective(investigations[Latest], Log(Latest)) = Last(intents)

\* The two ledgers of objectives part only where a case was published over a later
\* one: otherwise a change of the objective is never made on an investigation that
\* another has followed.
ObjectivesAgreeInOrder == InOrder => ObjectivesAgree

\* "changed P19/P20/P26/setup/runtime/workflow truth is read-only until an exact
\* explicit rebase"
StaleIsReadOnly ==
    [][\A v \in DOMAIN investigations :
           Len(investigations'[v].events) > Len(Log(v)) =>
               \/ Last(investigations'[v].events).kind = "rebased"
               \/ Accepted(investigations[v], Log(v)) = authority]_vars

\* "Missing/corrupt adaptation truth cannot veto the deterministic Crew/P19
\* production path."
P34CannotVeto == \A c \in Clients : ~At(c, "vetoed")

=============================================================================
