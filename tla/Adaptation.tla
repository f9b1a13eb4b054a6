------------------------------ MODULE Adaptation ------------------------------
(***************************************************************************)
(* Investigation adaptation (P34): the pair of decisions, baseline and     *)
(* with memory, frozen for a revision of an investigation before its next  *)
(* event, and the activation that lets the second one direct attention.    *)
(*                                                                         *)
(* An activation is a row of the ledger, and counts in a process only      *)
(* while that process has audited the ledger as it is now.  The audit is   *)
(* keyed by a revision that every write to the P33, P34, investigation,    *)
(* workflow and run tables raises, so each of them ends it: here, verified *)
(* becomes FALSE.                                                          *)
(***************************************************************************)
EXTENDS Naturals

VARIABLES
    pairs,      \* paired_decision records: [on, action, by]
    decision,   \* the latest activation_decision: its number and its state
    unreviewed, \* a paired_comparison is newer than the last policy_evaluation
    verified    \* this process has audited the ledger as it is

ledger == <<pairs, decision, unreviewed>>
adaptation == <<ledger, verified>>

ActivationStates == {"limited_attention", "shadow_only"}

AdaptationTypeOK(Revisions, Actions) ==
    /\ pairs \subseteq [on : Revisions, action : Actions, by : Nat]
    /\ decision \in [number : Nat, state : ActivationStates]
    /\ unreviewed \in BOOLEAN /\ verified \in BOOLEAN

AdaptationInit ==
    /\ pairs = {}
    /\ decision \in [number : {1}, state : ActivationStates]
    /\ unreviewed = FALSE /\ verified = FALSE

PairsOf(revision) == {p \in pairs : p.on = revision}

\* persist_p34_evaluation_and_activation: the evidence may earn the activation
\* or take it back; the process has then audited what it wrote.
Reviewed ==
    /\ \E state \in ActivationStates :
          decision' = [number |-> decision.number + 1, state |-> state]
    /\ unreviewed' = FALSE
    /\ verified' = TRUE
    /\ UNCHANGED pairs

\* resolve_effective_activation_decision: its number, 0 if there is none.
Effective(audited, latest) ==
    IF audited /\ latest.state = "limited_attention" THEN latest.number ELSE 0

\* A freeze first makes up for a review that a crash cut off, then reads what is
\* in effect, and only then audits the ledger, for the next revision.
Restored ==
    IF unreviewed THEN Reviewed ELSE verified' = TRUE /\ UNCHANGED ledger

EffectiveBefore == Effective(verified \/ unreviewed, decision')

\* Of the pair frozen already: one that an activation directs is used only while
\* that activation is in effect.
Usable(p, effective) == p.by \in {0, effective}

\* One pair per revision.
Frozen(p) ==
    /\ PairsOf(p.on) = {}
    /\ pairs' = pairs \cup {p}
    /\ verified' = FALSE
    /\ UNCHANGED <<decision, unreviewed>>

=============================================================================
