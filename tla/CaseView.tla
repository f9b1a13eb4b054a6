------------------------------- MODULE CaseView -------------------------------
(***************************************************************************)
(* The interface's one view of the engineering case of a scope (a run in a *)
(* session; two scopes differ in the run): EngineeringCaseProvider over    *)
(* the HTTP client, and the mutations its surfaces send.                   *)
(*                                                                         *)
(* React is asynchronous: a handler changes refs at once and queues state; *)
(* a later render makes the queued state visible; the effect of a render   *)
(* runs later still, and before the next render.  Promises resolve between *)
(* any two of these steps.  A callback keeps the key of the render it was  *)
(* made in.                                                                *)
(***************************************************************************)
EXTENDS ApiClient

CONSTANTS
    Failed,      \* no usable answer: refused, lost or timed out
    DefaultObjective,
    MaxEvents    \* user actions, and revisions published by others

ASSUME ViewAssumption == Scopes # {} /\ DefaultObjective \in Objectives

VARIABLES
    log,       \* the objective of each revision of each scope's case
    scope,     \* runId and sessionId, as the next render will get them
    token,     \* retryToken and invalidationToken, which only grow
    state,     \* EngineeringCaseState as queued
    view,      \* what the last render provides to its consumers
    effect,    \* the key the effect last ran for
    sequence,  \* requestSequence
    objectiveRef, revisionRef,
    fetch,     \* the promise of the last effect, until it settles
    posts,     \* mutations not settled yet
    adopted,   \* history: the last revision replaceRevision accepted, per scope
    chosen,    \* history: the user's objective for the scope on screen
    events

providerVars == <<scope, token, state, view, effect, sequence, objectiveRef,
                  revisionRef, fetch>>
historyVars == <<adopted, chosen>>
vars == <<log, providerVars, posts, historyVars, events, apiVars>>

\* Dial-In's advice, Dial-In's verified plan, the Crew Chief's deck.
Surfaces == {"dial", "plan", "crew"}
Revision == [scope : Scopes, number : Nat, objective : Objectives]
Key == <<scope, token>>
Keys == Scopes \X Nat

\* Variant: the answer does not say which objective it is of.
WithoutObjective(s, objectives) ==
    [scope |-> s, number |-> Len(objectives), objective |-> None]

Newest(s, objectives) ==
    [scope |-> s, number |-> Len(objectives), objective |-> objectives[Len(objectives)]]

-----------------------------------------------------------------------------
\* Variant: the state is shown whatever it was fetched for.
ShownAnyway == state

\* A render provides the queued state only if it is of the render's own key.
Shown ==
    IF state.key = Key THEN state
    ELSE [key |-> Key, revision |-> None, status |-> "loading"]

\* The effect of the last render runs before the next one.
Render ==
    /\ effect = view.key
    /\ [Shown EXCEPT !.key = Key] # view
    /\ view' = [Shown EXCEPT !.key = Key]
    /\ UNCHANGED <<log, scope, token, state, effect, sequence, objectiveRef,
                   revisionRef, fetch, posts, historyVars, events, apiVars>>

\* A new key cancels the last fetch (which then settles without effect, so only
\* the newest is kept), clears the view and asks again.
Effect ==
    /\ effect # view.key
    /\ LET s == view.key[1]
           path == [scope |-> s,
                    objective |-> IF objectiveRef.scope = s THEN objectiveRef.value
                                  ELSE None]
       IN  /\ Get(path)
           /\ fetch' = [key |-> view.key, sequence |-> sequence + 1,
                        request |-> Request(path, None), answer |-> responses[path]]
    /\ effect' = view.key
    /\ sequence' = sequence + 1
    /\ revisionRef' = [key |-> view.key, revision |-> None]
    /\ state' = [key |-> view.key, revision |-> None, status |-> "loading"]
    /\ UNCHANGED <<log, scope, token, view, objectiveRef, posts, historyVars,
                   events>>

\* Variant: only the next effect retires a fetch.
UntilNextEffect == TRUE

Current == fetch.sequence = sequence

\* The fetch settles; if it was superseded it changes nothing.
Settle ==
    /\ fetch # None /\ fetch.answer # None
    /\ fetch' = None
    /\ \/ /\ ~Current
          /\ UNCHANGED <<state, objectiveRef, revisionRef>>
       \/ /\ Current /\ fetch.answer = Failed
          /\ revisionRef' = [key |-> fetch.key, revision |-> None]
          /\ state' = [key |-> fetch.key, revision |-> None, status |-> "error"]
          /\ UNCHANGED objectiveRef
       \/ /\ Current /\ fetch.answer # Failed
          /\ objectiveRef' = [scope |-> fetch.key[1], value |-> fetch.answer.objective]
          /\ revisionRef' = [key |-> fetch.key, revision |-> fetch.answer]
          /\ state' = [key |-> fetch.key, revision |-> fetch.answer, status |-> "ready"]
    /\ UNCHANGED <<log, scope, token, view, effect, sequence, posts, historyVars,
                   events, apiVars>>

-----------------------------------------------------------------------------
\* Variant: the view is marked stale and nothing asks for it again.
MarkedStale ==
    /\ sequence' = sequence + 1
    /\ revisionRef' = [key |-> None, revision |-> None]
    /\ state' = [state EXCEPT !.revision = None, !.status = "stale"]
    /\ UNCHANGED token

Invalidated ==
    /\ sequence' = sequence + 1
    /\ revisionRef' = [key |-> None, revision |-> None]
    /\ state' = [state EXCEPT !.revision = None, !.status = "stale"]
    /\ token' = token + 1

UserActs ==
    /\ events < MaxEvents
    /\ events' = events + 1
    /\ UNCHANGED <<log, view, effect, fetch, apiVars, adopted>>

Retry ==
    /\ UserActs
    /\ sequence' = sequence + 1
    /\ revisionRef' = [key |-> None, revision |-> None]
    /\ token' = token + 1
    /\ UNCHANGED <<scope, state, objectiveRef, posts, chosen>>

Invalidate ==
    /\ UserActs /\ Invalidated
    /\ UNCHANGED <<scope, objectiveRef, posts, chosen>>

\* The scope is that of the render whose control was used.
SelectObjective(o) ==
    /\ UserActs
    /\ objectiveRef # [scope |-> view.key[1], value |-> o]
    /\ objectiveRef' = [scope |-> view.key[1], value |-> o]
    /\ chosen' = [scope |-> view.key[1], value |-> o]
    /\ Invalidated
    /\ UNCHANGED <<scope, posts>>

\* The user opens another run or session.
ChangeScope(s) ==
    /\ UserActs
    /\ s # scope
    /\ scope' = s
    /\ chosen' = [scope |-> s, value |-> None]
    /\ UNCHANGED <<token, state, sequence, objectiveRef, revisionRef, posts>>

\* A surface sends a mutation decided on the revision it shows.
Mutate(surface) ==
    /\ UserActs
    /\ view.status = "ready" /\ view.revision # None
    /\ posts' = posts \cup {[surface |-> surface, key |-> view.key,
                             expected |-> view.revision, answer |-> None,
                             open |-> TRUE]}
    /\ UNCHANGED <<scope, token, state, sequence, objectiveRef, revisionRef, chosen>>

-----------------------------------------------------------------------------
\* The mutation was answered with success: the client forgets its responses.
ReceivePost(p) ==
    /\ p \in posts /\ p.open /\ p.answer \notin {None, Failed}
    /\ posts' = (posts \ {p}) \cup {[p EXCEPT !.open = FALSE]}
    /\ Forget
    /\ UNCHANGED <<log, providerVars, historyVars, events>>

\* The surface that sent it still listens.
Listens(p) ==
    IF p.surface = "crew" THEN view.key = p.key /\ view.revision = p.expected
    ELSE view.key[1] = p.key[1]

\* replaceRevision with the key of the render that sent the mutation.
Replaceable(p) == revisionRef.key = p.key /\ revisionRef.revision # None

ExactSuccessor(p) ==
    /\ Replaceable(p)
    /\ p.answer.number = revisionRef.revision.number + 1
    /\ p.expected = revisionRef.revision

Idempotent(p) == Replaceable(p) /\ p.answer = revisionRef.revision

\* A successful mutation's response reaches its surface.
Adopt(p) ==
    /\ p \in posts /\ ~p.open
    /\ posts' = posts \ {p}
    /\ \/ /\ Listens(p) /\ ExactSuccessor(p)
          /\ sequence' = sequence + 1
          /\ objectiveRef' = [scope |-> p.key[1], value |-> p.answer.objective]
          /\ revisionRef' = [key |-> p.key, revision |-> p.answer]
          /\ state' = [key |-> p.key, revision |-> p.answer, status |-> "ready"]
          /\ adopted' = [adopted EXCEPT ![p.key[1]] = p.answer.number]
          /\ chosen' = IF chosen.scope = p.key[1]
                       THEN [chosen EXCEPT !.value = p.answer.objective] ELSE chosen
          /\ UNCHANGED token
       \/ /\ Listens(p) /\ ~ExactSuccessor(p) /\ ~Idempotent(p) /\ p.surface # "plan"
          /\ Invalidated
          /\ UNCHANGED <<objectiveRef, historyVars>>
       \/ /\ \/ ~Listens(p) \/ Idempotent(p)
             \/ ~ExactSuccessor(p) /\ p.surface = "plan"
          /\ UNCHANGED <<sequence, objectiveRef, revisionRef, state, token, historyVars>>
    /\ UNCHANGED <<log, scope, view, effect, fetch, events, apiVars>>

\* A refusal, a network error or the timeout: the responses stay remembered.
FailPost(p) ==
    /\ p \in posts /\ p.open
    /\ posts' = posts \ {p}
    /\ IF p.surface = "dial" /\ Listens(p) THEN Invalidated
       ELSE UNCHANGED <<sequence, revisionRef, state, token>>
    /\ UNCHANGED <<log, scope, view, effect, objectiveRef, fetch, historyVars,
                   events, apiVars>>

-----------------------------------------------------------------------------
\* GET /engineering-case publishes when it asks for another objective.
ServeGet(r) ==
    /\ LET path == r.path
           old == log[path.scope]
           new == IF path.objective \in {None, old[Len(old)]} THEN old
                  ELSE Append(old, path.objective)
       IN  /\ log' = [log EXCEPT ![path.scope] = new]
           /\ ServerAnswers(r, Newest(path.scope, new))
    /\ UNCHANGED <<providerVars, posts, historyVars, events>>

\* A mutation is accepted on the head only.
ServePost(p) ==
    /\ p \in posts /\ p.answer = None
    /\ LET s == p.key[1]
       IN  IF Len(log[s]) # p.expected.number
           THEN /\ posts' = (posts \ {p}) \cup {[p EXCEPT !.answer = Failed]}
                /\ UNCHANGED log
           ELSE \E o \in Objectives :
                /\ log' = [log EXCEPT ![s] = Append(@, o)]
                /\ posts' = (posts \ {p}) \cup
                       {[p EXCEPT !.answer = Newest(s, Append(log[s], o))]}
    /\ UNCHANGED <<providerVars, historyVars, events, apiVars>>

\* Another window publishes, or a request whose caller has given up is served.
Move(s, o) ==
    /\ events < MaxEvents
    /\ events' = events + 1
    /\ log' = [log EXCEPT ![s] = Append(@, o)]
    /\ UNCHANGED <<providerVars, posts, historyVars, apiVars>>

\* The answer of a GET reaches the fetch that waits for it.
Told(r, answer) ==
    /\ fetch' = IF fetch # None /\ fetch.request = [r EXCEPT !.answer = None]
                THEN [fetch EXCEPT !.answer = answer] ELSE fetch
    /\ UNCHANGED <<log, scope, token, state, view, effect, sequence, objectiveRef,
                   revisionRef, posts, historyVars, events>>

Receive(r) == ReceiveGet(r) /\ Told(r, r.answer)

Fail(r) == FailGet(r) /\ Told(r, Failed)

Forgotten(path) ==
    /\ Expire(path)
    /\ UNCHANGED <<log, providerVars, posts, historyVars, events>>

Init ==
    /\ log = [s \in Scopes |-> <<DefaultObjective>>]
    /\ scope = CHOOSE s \in Scopes : TRUE  \* they are alike
    /\ token = 0
    /\ state = [key |-> None, revision |-> None, status |-> "idle"]
    /\ view = [key |-> Key, revision |-> None, status |-> "loading"]
    /\ effect = None /\ sequence = 0
    /\ objectiveRef = [scope |-> scope, value |-> None]
    /\ revisionRef = [key |-> None, revision |-> None]
    /\ fetch = None /\ posts = {}
    /\ adopted = [s \in Scopes |-> 0]
    /\ chosen = [scope |-> scope, value |-> None]
    /\ events = 0
    /\ ApiInit

Next ==
    \/ Render \/ Effect \/ Retry \/ Invalidate
    \/ \E o \in Objectives : SelectObjective(o)
    \/ \E s \in Scopes : ChangeScope(s)
    \/ \E surface \in Surfaces : Mutate(surface)
    \/ Settle
    \/ \E p \in posts : ServePost(p) \/ ReceivePost(p) \/ Adopt(p) \/ FailPost(p)
    \/ \E r \in requests : ServeGet(r) \/ Receive(r) \/ Fail(r)
    \/ \E path \in Paths : Forgotten(path)
    \/ \E s \in Scopes, o \in Objectives : Move(s, o)

Spec == Init /\ [][Next]_vars

\* React renders what is queued and runs its effects; promises settle; a request
\* that gets no answer ends with its timeout.
FairSpec ==
    /\ Spec
    /\ WF_vars(Render) /\ WF_vars(Effect)
    /\ WF_vars(Settle)
    /\ WF_vars(\E p \in posts : ReceivePost(p) \/ Adopt(p) \/ FailPost(p))
    /\ WF_vars(\E r \in requests : Receive(r) \/ Fail(r))

-----------------------------------------------------------------------------
GetRequest == [path : Paths, generation : Nat, answer : Revision \cup {None}]

\* Every variable holds what it is declared to hold.
TypeOK ==
    /\ log \in [Scopes -> Seq(Objectives)]
    /\ scope \in Scopes /\ token \in Nat /\ sequence \in Nat
    /\ {state, view} \subseteq
          [key : Keys \cup {None}, revision : Revision \cup {None},
           status : {"idle", "loading", "ready", "stale", "error"}]
    /\ view.key \in Keys /\ effect \in Keys \cup {None}
    /\ objectiveRef \in [scope : Scopes, value : Objectives \cup {None}]
    /\ revisionRef \in [key : Keys \cup {None}, revision : Revision \cup {None}]
    /\ fetch \in {None} \cup [key : Keys, sequence : Nat, request : GetRequest,
                              answer : Revision \cup {None, Failed}]
    /\ posts \subseteq [surface : Surfaces, key : Keys, expected : Revision,
                        answer : Revision \cup {None, Failed}, open : BOOLEAN]
    /\ responses \in [Paths -> Revision \cup {None}] /\ generation \in Nat
    /\ requests \subseteq GetRequest
    /\ adopted \in [Scopes -> Nat]
    /\ chosen \in [scope : Scopes, value : Objectives \cup {None}]

\* Consumers never see a revision of another scope than the one on screen.
ViewIsOfItsScope == view.revision # None => view.revision.scope = view.key[1]

\* "Atomic mutation replacement": once the view has adopted the outcome of a
\* mutation, no fetch, cached response or late answer puts an older revision of
\* that scope back.
AdoptedIsNotUndone ==
    state.revision # None => state.revision.number >= adopted[state.revision.scope]

\* The objective the user selected is the objective of what is shown, until a
\* mutation changes it: no answer to an earlier question replaces it.
SelectionIsShown ==
    (/\ state.revision # None /\ state.revision.scope = chosen.scope
     /\ chosen.value # None)
    => state.revision.objective = chosen.value

\* Loading and stale are passing states: the view comes to a revision or an error.
ViewSettles == view.status \in {"loading", "stale"} ~> view.status \in {"ready", "error"}

=============================================================================
