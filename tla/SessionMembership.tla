-------------------------- MODULE SessionMembership --------------------------
(***************************************************************************)
(* The saved sessions: the runs each one lists, in the order they were     *)
(* added, and the run it was last opened on.  An edit reads the list on    *)
(* one connection and writes the whole list back on another; there is no   *)
(* check that it is still the list that was read.                          *)
(***************************************************************************)
EXTENDS Integers, SequencesExt

CONSTANTS Runs, Sessions, Editors, None, MaxEvents

VARIABLES
    sessions,  \* table racelab_sessions: [runs, last], None once deleted
    editors,   \* the edit each request is in
    events     \* edits, and whatever else happens, so far

Session == [runs : Seq(Runs), last : Runs \cup {None}]

Lists(s, run) == \E i \in DOMAIN s.runs : s.runs[i] = run

With(s, run) == IF Lists(s, run) THEN s ELSE [s EXCEPT !.runs = Append(@, run)]

Without(s, run) ==
    LET keep(kept, r) == IF r = run THEN kept ELSE Append(kept, r)
    IN  [s EXCEPT !.runs = FoldLeft(keep, <<>>, @)]

\* Variant: an alias is replaced where it stands, also beside its owner.
ReboundInPlace(s, aliases, owner) ==
    [s EXCEPT !.runs = [i \in DOMAIN @ |-> IF @[i] \in aliases THEN owner ELSE @[i]]]

\* Variant: a session that lists the owner already is left alone.
ReboundUnlessListed(s, aliases, owner) ==
    IF Lists(s, owner) THEN s
    ELSE [s EXCEPT !.runs = [i \in DOMAIN @ |-> IF @[i] \in aliases THEN owner ELSE @[i]]]

\* Aliases become their owner, which is listed once.
Rebound(s, aliases, owner) ==
    LET resolved(run) == IF run \in aliases THEN owner ELSE run
        add(kept, run) == IF Contains(kept, resolved(run)) THEN kept
                          ELSE Append(kept, resolved(run))
    IN  [runs |-> FoldLeft(add, <<>>, s.runs),
         last |-> IF s.last = None THEN None ELSE resolved(s.last)]

NoEdit == [pc |-> "idle", kind |-> "add", session |-> None, run |-> None, seen |-> None]

\* add_run_to_session and remove_run_from_session read the row.
EditRead(e) ==
    /\ editors[e].pc = "idle" /\ events < MaxEvents
    /\ events' = events + 1
    /\ \E s \in Sessions, run \in Runs, kind \in {"add", "remove"} :
          /\ sessions[s] # None
          /\ kind = "add" => ~Lists(sessions[s], run)
          /\ editors' = [editors EXCEPT ![e] =
                [pc |-> "write", kind |-> kind, session |-> s, run |-> run,
                 seen |-> sessions[s]]]
    /\ UNCHANGED sessions

Edited(k) == IF k.kind = "add" THEN With(k.seen, k.run) ELSE Without(k.seen, k.run)

\* The list is written as it was computed; the rest of the row is left alone,
\* and a session deleted meanwhile stays deleted.
EditWrite(e) ==
    /\ editors[e].pc = "write"
    /\ LET k == editors[e]
       IN  sessions' = IF sessions[k.session] = None THEN sessions
                       ELSE [sessions EXCEPT ![k.session].runs = Edited(k).runs]
    /\ editors' = [editors EXCEPT ![e] = NoEdit]
    /\ UNCHANGED events

\* update_session and set_last_opened are one UPDATE.
SetLast ==
    /\ events < MaxEvents /\ events' = events + 1
    /\ \E s \in Sessions, run \in Runs :
          /\ sessions[s] # None
          /\ sessions' = [sessions EXCEPT ![s].last = run]
    /\ UNCHANGED editors

Delete ==
    /\ events < MaxEvents /\ events' = events + 1
    /\ \E s \in Sessions :
          /\ sessions[s] # None
          /\ sessions' = [sessions EXCEPT ![s] = None]
    /\ UNCHANGED editors

EditSessions == (\E e \in Editors : EditRead(e) \/ EditWrite(e)) \/ SetLast \/ Delete

MembershipTypeOK ==
    /\ sessions \in [Sessions -> Session \cup {None}]
    /\ editors \in [Editors ->
          [pc : {"idle", "write"}, kind : {"add", "remove"},
           session : Sessions \cup {None}, run : Runs \cup {None},
           seen : Session \cup {None}]]
    /\ events \in 0..MaxEvents

\* However edits and rebinds of a recording interleave, no session lists a run
\* twice: _load_identity_list refuses a list that repeats a run, so the session
\* could not be opened any more, and the scope of the Engineering Case with it.
MembersAreDistinct ==
    \A s \in Sessions : sessions[s] # None =>
        \A i, j \in DOMAIN sessions[s].runs :
            sessions[s].runs[i] = sessions[s].runs[j] => i = j

=============================================================================
