------------------------------- MODULE CaseLog -------------------------------
(***************************************************************************)
(* What the publication of Engineering Cases promises, without saying how: *)
(* each run has a log of case revisions that only grows and never repeats  *)
(* itself.  A revision is either a rebuild of what the evidence says, or   *)
(* the effect of a decision.  A decision names the revision it was made    *)
(* on, takes effect only as its direct successor, and at most once; when   *)
(* it is a workflow decision its receipt is part of the same step.         *)
(***************************************************************************)
EXTENDS Naturals, Sequences

CONSTANTS Cases, None       \* the runs, and "no revision yet"

VARIABLES
    log,    \* [Cases -> sequence of [sha, category]]
    done    \* receipts: [run, request, expected, result]

Latest(run) == IF log[run] = <<>> THEN None ELSE log[run][Len(log[run])].sha

Init == log = [run \in Cases |-> <<>>] /\ done = {}

New(run) == log'[run][Len(log'[run])]

\* The log of run gains one revision nobody has published before.
Grows(run, categories) ==
    /\ log'[run] # log[run]
    /\ New(run).category \in categories
    /\ \A i \in DOMAIN log[run] : log[run][i].sha # New(run).sha
    /\ log' = [log EXCEPT ![run] = Append(@, New(run))]

Rebuild(run) ==
    /\ Grows(run, {"initial", "rebuild"})
    /\ done' = done

\* A driver intent alone leaves no receipt.
State(run) ==
    /\ log[run] # <<>>
    /\ Grows(run, {"driver_intent"})
    /\ done' = done

\* A receipted decision: made on the latest revision, not made before.
Decide(run) ==
    /\ log[run] # <<>>
    /\ Grows(run, {"driver_intent", "workflow", "controlled_outcome"})
    /\ \E r \in done' :
          /\ r.run = run
          /\ r.expected = Latest(run)
          /\ r.result = New(run).sha
          /\ \A other \in done : other.request # r.request
          /\ done' = done \cup {r}

Next == \E run \in Cases : Rebuild(run) \/ State(run) \/ Decide(run)

Spec == Init /\ [][Next]_<<log, done>>

=============================================================================
