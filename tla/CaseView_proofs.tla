---------------------------- MODULE CaseView_proofs ----------------------------
(***************************************************************************)
(* For any number of runs and objectives, and any number of user actions:  *)
(* the interface never shows a case under another run; a revision it has   *)
(* adopted from a mutation is not replaced by an older one; and what it    *)
(* shows is of the objective the user selected.                            *)
(*                                                                         *)
(* Three arguments make it so, one for each.  What a path is answered with *)
(* is of that path, and goes only to fetches that asked for it (Kept).     *)
(* Between the answer of a mutation and its adoption the client has        *)
(* forgotten what it remembered, and the adoption retires the fetch under  *)
(* way, so all that can still be shown was read later (Floor).  A fetch    *)
(* that was not retired asks for the selection of the scope it is of       *)
(* (Asked).                                                                *)
(***************************************************************************)
EXTENDS CaseView, TLAPS

\* A revision that is an answer to path.
Fits(a, path) ==
    /\ a.scope = path.scope /\ a.number <= Len(log[path.scope])
    /\ path.objective # None => a.objective = path.objective

Kept ==
    /\ \A s \in Scopes : Len(log[s]) >= 1 /\ adopted[s] <= Len(log[s])
    /\ \A path \in Paths : responses[path] # None => Fits(responses[path], path)
    /\ \A r \in requests : /\ r.generation <= generation
                           /\ r.answer # None => Fits(r.answer, r.path)
    /\ fetch # None =>
          /\ fetch.sequence <= sequence
          /\ fetch.request.path.scope = fetch.key[1]
          /\ fetch.answer \notin {None, Failed} => Fits(fetch.answer, fetch.request.path)
    /\ \A p \in posts : p.answer \notin {None, Failed} =>
          p.answer.scope = p.key[1] /\ p.answer.number <= Len(log[p.key[1]])
    /\ state.revision # None => state.revision.scope = state.key[1]
    /\ ViewIsOfItsScope

\* The fetch that may still be shown waits for r.
Awaited(r) ==
    /\ fetch # None /\ Current
    /\ fetch.request.path = r.path /\ fetch.request.generation = r.generation

\* Nothing that is remembered, or will be, is older than n.
NoneOlder(s, n) ==
    /\ \A path \in Paths : path.scope = s /\ responses[path] # None =>
          responses[path].number >= n
    /\ \A r \in requests : r.path.scope = s /\ Remembered(r) /\ r.answer # None =>
          r.answer.number >= n

Floor ==
    /\ \A s \in Scopes : NoneOlder(s, adopted[s])
    /\ \A p \in posts : ~p.open =>
          p.answer \notin {None, Failed} /\ NoneOlder(p.key[1], p.answer.number)
    /\ \A r \in requests : Awaited(r) /\ r.answer # None =>
          r.answer.number >= adopted[r.path.scope]
    /\ fetch # None /\ Current /\ fetch.answer \notin {None, Failed} =>
          fetch.answer.number >= adopted[fetch.key[1]]
    /\ AdoptedIsNotUndone

Asked ==
    /\ chosen.value # None =>
          /\ view.key[1] = chosen.scope => objectiveRef = chosen
          /\ scope = chosen.scope => view.key[1] = chosen.scope
          /\ fetch # None /\ Current =>
                IF fetch.key[1] = chosen.scope
                THEN fetch.request.path.objective = chosen.value
                ELSE view.key[1] # chosen.scope
    /\ SelectionIsShown

Inv == TypeOK /\ Kept /\ Floor /\ Asked

-----------------------------------------------------------------------------
StateType ==
    [key : Keys \cup {None}, revision : Revision \cup {None},
     status : {"idle", "loading", "ready", "stale", "error"}]
FetchType ==
    [key : Keys, sequence : Nat, request : GetRequest,
     answer : Revision \cup {None, Failed}]
PostType ==
    [surface : Surfaces, key : Keys, expected : Revision,
     answer : Revision \cup {None, Failed}, open : BOOLEAN]

\* The answer of the server to a question about a scope with history old.
LEMMA NewestType ==
    ASSUME NEW s \in Scopes, NEW old \in Seq(Objectives), Len(old) >= 1
    PROVE  Newest(s, old) \in Revision
BY DEF Newest, Revision

\* An appended objective is the newest revision.
LEMMA AppendedType ==
    ASSUME NEW s \in Scopes, NEW old \in Seq(Objectives), NEW o \in Objectives
    PROVE  /\ Append(old, o) \in Seq(Objectives) /\ Len(Append(old, o)) = Len(old) + 1
           /\ Newest(s, Append(old, o)) = [scope |-> s, number |-> Len(old) + 1, objective |-> o]
BY DEF Newest

\* The types hold at the start and are kept by every step.
LEMMA TypeInit == Init => TypeOK
<1> SUFFICES ASSUME Init PROVE TypeOK
  OBVIOUS
<1>1. scope \in Scopes
  BY ViewAssumption DEF Init
<1>2. Key \in Keys
  BY <1>1 DEF Init, Key, Keys
<1>3. /\ log \in [Scopes -> Seq(Objectives)] /\ adopted \in [Scopes -> Nat]
      /\ responses \in [Paths -> Revision \cup {None}]
  BY ViewAssumption DEF Init, ApiInit
<1> QED  BY <1>1, <1>2, <1>3 DEF Init, ApiInit, TypeOK

\* What a mutation or a retry does to the provider's own variables.
LEMMA InvalidatedType ==
    ASSUME TypeOK, Invalidated
    PROVE  /\ state' \in StateType /\ token' \in Nat /\ sequence' \in Nat
           /\ revisionRef' \in [key : Keys \cup {None}, revision : Revision \cup {None}]
<1>1. state \in StateType /\ sequence \in Nat /\ token \in Nat
  BY DEF TypeOK, StateType
<1>2. [state EXCEPT !.revision = None, !.status = "stale"] \in StateType
  BY <1>1 DEF StateType
<1> QED  BY <1>1, <1>2 DEF Invalidated

\* What a response does to the view it reaches: it replaces the revision, it
\* invalidates the view, or it is dropped.
Replaces(p) ==
    /\ Listens(p) /\ ExactSuccessor(p)
    /\ sequence' = sequence + 1
    /\ objectiveRef' = [scope |-> p.key[1], value |-> p.answer.objective]
    /\ revisionRef' = [key |-> p.key, revision |-> p.answer]
    /\ state' = [key |-> p.key, revision |-> p.answer, status |-> "ready"]
    /\ adopted' = [adopted EXCEPT ![p.key[1]] = p.answer.number]
    /\ chosen' = IF chosen.scope = p.key[1]
                 THEN [chosen EXCEPT !.value = p.answer.objective] ELSE chosen
    /\ UNCHANGED token

LEMMA AdoptCases ==
    ASSUME NEW p, Adopt(p)
    PROVE  /\ p \in posts /\ ~p.open /\ posts' = posts \ {p}
           /\ UNCHANGED <<log, scope, view, effect, fetch, events,
                          responses, generation, requests>>
           /\ \/ Replaces(p)
              \/ Invalidated /\ UNCHANGED <<objectiveRef, adopted, chosen>>
              \/ UNCHANGED <<sequence, objectiveRef, revisionRef, state, token,
                             adopted, chosen>>
<1> USE DEF historyVars, apiVars
<1>1. /\ p \in posts /\ ~p.open /\ posts' = posts \ {p}
      /\ UNCHANGED <<log, scope, view, effect, fetch, events,
                     responses, generation, requests>>
  BY DEF Adopt
<1>2. \/ Replaces(p)
      \/ Invalidated /\ UNCHANGED <<objectiveRef, adopted, chosen>>
      \/ UNCHANGED <<sequence, objectiveRef, revisionRef, state, token,
                     adopted, chosen>>
  BY DEF Adopt, Replaces
<1> QED  BY <1>1, <1>2

\* The answer of a mutation that waits for its surface.
LEMMA WaitingAnswer ==
    ASSUME TypeOK, Floor, NEW p \in posts, ~p.open
    PROVE  /\ p.answer \in Revision /\ p.key \in Keys /\ p.key[1] \in Scopes
           /\ p.answer.number \in Nat /\ p.answer.objective \in Objectives
<1>1. p \in PostType
  BY DEF TypeOK, PostType
<1>2. p.answer \in Revision
  BY <1>1 DEF Floor, PostType
<1> QED  BY <1>1, <1>2 DEF PostType, Keys, Revision

LEMMA TypeStep == Inv /\ [Next]_vars => TypeOK'
<1> SUFFICES ASSUME Inv, [Next]_vars PROVE TypeOK'
  OBVIOUS
<1> USE DEF providerVars, historyVars, apiVars
<1>0. /\ state \in StateType /\ view \in StateType /\ TypeOK
      /\ fetch # None => fetch \in FetchType
      /\ posts \subseteq PostType
  BY DEF Inv, TypeOK, StateType, FetchType, PostType
<1>1. CASE Render
  <2>1. view' \in StateType /\ view'.key \in Keys
    BY <1>0, <1>1 DEF Render, Shown, Key, Keys, StateType, TypeOK
  <2> QED  BY <1>0, <1>1, <2>1 DEF Render, TypeOK, StateType
<1>2. CASE Effect
  <2> DEFINE s == view.key[1]
             path == [scope |-> s, objective |-> IF objectiveRef.scope = s
                                                 THEN objectiveRef.value ELSE None]
  <2>1. path \in Paths /\ view.key \in Keys
    BY <1>0 DEF TypeOK, Keys, Paths
  <2>2. Request(path, None) \in GetRequest
    BY <1>0, <2>1 DEF TypeOK, GetRequest, Request
  <2>3. /\ fetch' = [key |-> view.key, sequence |-> sequence + 1,
                     request |-> Request(path, None), answer |-> responses[path]]
        /\ requests' \subseteq requests \cup {Request(path, None)}
        /\ UNCHANGED <<responses, generation>>
    BY <1>2 DEF Effect, Get
  <2> HIDE DEF path
  <2>4. fetch' \in FetchType
    BY <1>0, <2>1, <2>2, <2>3 DEF FetchType, TypeOK
  <2> QED  BY <1>0, <1>2, <2>1, <2>2, <2>3, <2>4 DEF Effect, TypeOK, FetchType
<1>3. CASE Settle
  <2>1. fetch \in FetchType /\ fetch.key[1] \in Scopes
    BY <1>0, <1>3 DEF Settle, FetchType, Keys
  <2>2. fetch.answer \notin {None, Failed} => fetch.answer \in Revision
    BY <2>1 DEF FetchType
  <2>3. /\ state' \in StateType
        /\ revisionRef' \in [key : Keys \cup {None}, revision : Revision \cup {None}]
        /\ objectiveRef' \in [scope : Scopes, value : Objectives \cup {None}]
    BY <1>0, <1>3, <2>1, <2>2 DEF Settle, StateType, FetchType, TypeOK, Revision
  <2> QED  BY <1>0, <1>3, <2>3 DEF Settle, TypeOK, StateType
<1>4. CASE Retry \/ Invalidate
  <2>1. /\ state' \in StateType /\ token' \in Nat /\ sequence' \in Nat
        /\ revisionRef' \in [key : Keys \cup {None}, revision : Revision \cup {None}]
    BY <1>0, <1>4, InvalidatedType DEF Retry, Invalidate, TypeOK
  <2> QED  BY <1>0, <1>4, <2>1 DEF Retry, Invalidate, UserActs, TypeOK, StateType
<1>5. ASSUME NEW o \in Objectives, SelectObjective(o) PROVE TypeOK'
  <2>1. /\ state' \in StateType /\ token' \in Nat /\ sequence' \in Nat
        /\ revisionRef' \in [key : Keys \cup {None}, revision : Revision \cup {None}]
    BY <1>0, <1>5, InvalidatedType DEF SelectObjective
  <2>2. view.key[1] \in Scopes
    BY <1>0 DEF TypeOK, Keys
  <2> QED  BY <1>0, <1>5, <2>1, <2>2 DEF SelectObjective, UserActs, TypeOK, StateType
<1>6. ASSUME NEW s \in Scopes, ChangeScope(s) PROVE TypeOK'
  BY <1>0, <1>6 DEF ChangeScope, UserActs, TypeOK
<1>7. ASSUME NEW surface \in Surfaces, Mutate(surface) PROVE TypeOK'
  <2>1. [surface |-> surface, key |-> view.key, expected |-> view.revision,
         answer |-> None, open |-> TRUE] \in PostType
    BY <1>0, <1>7 DEF Mutate, TypeOK, PostType
  <2>2. posts' \subseteq PostType
    BY <1>0, <1>7, <2>1 DEF Mutate
  <2> QED  BY <1>0, <1>7, <2>2 DEF Mutate, UserActs, TypeOK, PostType
<1>8. ASSUME NEW p \in posts, ServePost(p) PROVE TypeOK'
  <2>1. p \in PostType /\ p.key[1] \in Scopes
    BY <1>0 DEF PostType, Keys
  <2>2. [p EXCEPT !.answer = Failed] \in PostType
    BY <2>1 DEF PostType
  <2>3. CASE Len(log[p.key[1]]) # p.expected.number
    <3>1. posts' \subseteq PostType /\ log' = log
      BY <1>0, <1>8, <2>2, <2>3 DEF ServePost
    <3> QED  BY <1>0, <1>8, <3>1 DEF ServePost, TypeOK, PostType
  <2>4. CASE ~(Len(log[p.key[1]]) # p.expected.number)
    <3>1. PICK o \in Objectives :
             /\ log' = [log EXCEPT ![p.key[1]] = Append(@, o)]
             /\ posts' = (posts \ {p}) \cup
                   {[p EXCEPT !.answer = Newest(p.key[1], Append(log[p.key[1]], o))]}
      BY <1>8, <2>4 DEF ServePost
    <3>2. log[p.key[1]] \in Seq(Objectives)
      BY <1>0, <2>1 DEF TypeOK
    <3>3. Newest(p.key[1], Append(log[p.key[1]], o)) \in Revision
      BY <2>1, <3>2, AppendedType DEF Revision
    <3>4. Append(log[p.key[1]], o) \in Seq(Objectives)
      BY <2>1, <3>2, AppendedType
    <3>5. posts' \subseteq PostType
      BY <1>0, <2>1, <3>1, <3>3 DEF PostType
    <3>6. log' \in [Scopes -> Seq(Objectives)]
      BY <1>0, <3>1, <3>4 DEF TypeOK
    <3> QED  BY <1>0, <1>8, <3>5, <3>6 DEF ServePost, TypeOK, PostType
  <2> QED  BY <2>3, <2>4
<1>9. ASSUME NEW p \in posts, ReceivePost(p) PROVE TypeOK'
  <2>1. posts' \subseteq PostType
    BY <1>0, <1>9 DEF ReceivePost, PostType
  <2> QED  BY <1>0, <1>9, <2>1 DEF ReceivePost, Forget, TypeOK, PostType
<1>10. ASSUME NEW p \in posts, Adopt(p) PROVE TypeOK'
  <2>1. CASE Replaces(p)
    <3>1. /\ p.answer \in Revision /\ p.key \in Keys /\ p.key[1] \in Scopes
          /\ p.answer.number \in Nat /\ p.answer.objective \in Objectives
      BY <1>0, <1>10, AdoptCases, WaitingAnswer DEF Inv
    <3>2. state' \in StateType /\ sequence' \in Nat /\ token' \in Nat
      BY <1>0, <2>1, <3>1 DEF Replaces, StateType, TypeOK
    <3>3. /\ revisionRef' \in [key : Keys \cup {None}, revision : Revision \cup {None}]
          /\ objectiveRef' \in [scope : Scopes, value : Objectives \cup {None}]
      BY <2>1, <3>1 DEF Replaces
    <3>4. /\ adopted' \in [Scopes -> Nat]
          /\ chosen' \in [scope : Scopes, value : Objectives \cup {None}]
      BY <1>0, <2>1, <3>1 DEF Replaces, TypeOK
    <3> QED
      BY <1>0, <1>10, <3>2, <3>3, <3>4, AdoptCases DEF TypeOK, StateType
  <2>2. CASE /\ Invalidated \/ UNCHANGED <<sequence, revisionRef, state, token>>
             /\ UNCHANGED <<objectiveRef, adopted, chosen>>
    <3>1. /\ state' \in StateType /\ token' \in Nat /\ sequence' \in Nat
          /\ revisionRef' \in [key : Keys \cup {None}, revision : Revision \cup {None}]
      BY <1>0, <2>2, InvalidatedType DEF TypeOK
    <3> QED  BY <1>0, <1>10, <2>2, <3>1, AdoptCases DEF TypeOK, StateType
  <2> QED  BY <1>10, <2>1, <2>2, AdoptCases
<1>11. ASSUME NEW p \in posts, FailPost(p) PROVE TypeOK'
  <2>1. Invalidated \/ UNCHANGED <<sequence, revisionRef, state, token>>
    BY <1>11 DEF FailPost
  <2>2. /\ state' \in StateType /\ token' \in Nat /\ sequence' \in Nat
        /\ revisionRef' \in [key : Keys \cup {None}, revision : Revision \cup {None}]
    BY <1>0, <2>1, InvalidatedType DEF TypeOK
  <2> QED  BY <1>0, <1>11, <2>2 DEF FailPost, TypeOK, StateType
<1>12. ASSUME NEW r \in requests, ServeGet(r) PROVE TypeOK'
  <2> DEFINE path == r.path
             old == log[path.scope]
             new == IF path.objective \in {None, old[Len(old)]} THEN old
                    ELSE Append(old, path.objective)
  <2>1. r \in GetRequest /\ path \in Paths /\ path.scope \in Scopes
    BY <1>0 DEF TypeOK, GetRequest, Paths
  <2>2. old \in Seq(Objectives) /\ Len(old) >= 1
    BY <1>0, <2>1 DEF TypeOK, Inv, Kept
  <2>3. new \in Seq(Objectives) /\ Len(new) >= 1
    BY <2>1, <2>2 DEF Paths
  <2>4. Newest(path.scope, new) \in Revision
    BY <2>1, <2>3, NewestType
  <2>5. /\ log' = [log EXCEPT ![path.scope] = new]
        /\ requests' = (requests \ {r}) \cup {[r EXCEPT !.answer = Newest(path.scope, new)]}
        /\ UNCHANGED <<responses, generation>>
    BY <1>12 DEF ServeGet, ServerAnswers
  <2> HIDE DEF new
  <2>6. requests' \subseteq GetRequest /\ log' \in [Scopes -> Seq(Objectives)]
    BY <1>0, <2>1, <2>3, <2>4, <2>5 DEF TypeOK, GetRequest
  <2> QED  BY <1>0, <1>12, <2>5, <2>6 DEF ServeGet, TypeOK
<1>13. ASSUME NEW r \in requests, Receive(r) \/ Fail(r) PROVE TypeOK'
  <2>1. r \in GetRequest
    BY <1>0 DEF TypeOK
  <2>2. /\ requests' \subseteq requests /\ generation' = generation
        /\ responses' \in [Paths -> Revision \cup {None}]
    BY <1>0, <1>13, <2>1 DEF Receive, Fail, ReceiveGet, FailGet, TypeOK, GetRequest
  <2>3. PICK a \in Revision \cup {None, Failed} : Told(r, a)
    BY <1>13, <2>1 DEF Receive, Fail, GetRequest
  <2>4. fetch' # None => fetch' \in FetchType
    BY <1>0, <2>3 DEF Told, FetchType
  <2> QED  BY <1>0, <2>2, <2>3, <2>4 DEF Told, TypeOK, FetchType
<1>14. ASSUME NEW path \in Paths, Forgotten(path) PROVE TypeOK'
  BY <1>0, <1>14 DEF Forgotten, Expire, TypeOK
<1>15. ASSUME NEW s \in Scopes, NEW o \in Objectives, Move(s, o) PROVE TypeOK'
  BY <1>0, <1>15 DEF Move, TypeOK
<1>16. CASE UNCHANGED vars
  BY <1>0, <1>16 DEF vars, TypeOK
<1> QED
  BY <1>1, <1>2, <1>3, <1>4, <1>5, <1>6, <1>7, <1>8, <1>9, <1>10, <1>11, <1>12,
     <1>13, <1>14, <1>15, <1>16 DEF Next

-----------------------------------------------------------------------------
\* A served GET is answered with the newest revision, and shortens no history.
LEMMA ServedLog ==
    ASSUME TypeOK, NEW r \in requests, ServeGet(r), Kept
    PROVE  \E a \in Revision :
              /\ requests' = (requests \ {r}) \cup {[r EXCEPT !.answer = a]}
              /\ Fits(a, r.path)'
              /\ a.number = Len(log'[r.path.scope])
              /\ \A s \in Scopes : Len(log'[s]) >= Len(log[s])
<1> DEFINE path == r.path
           old == log[path.scope]
           new == IF path.objective \in {None, old[Len(old)]} THEN old
                  ELSE Append(old, path.objective)
           a == Newest(path.scope, new)
<1>1. r \in GetRequest /\ path \in Paths /\ path.scope \in Scopes
      /\ path.objective \in Objectives \cup {None}
  BY DEF TypeOK, GetRequest, Paths
<1>2. old \in Seq(Objectives) /\ Len(old) >= 1
  BY <1>1 DEF TypeOK, Kept
<1>3. /\ new \in Seq(Objectives) /\ Len(new) >= Len(old)
      /\ path.objective # None => new[Len(new)] = path.objective
  BY <1>1, <1>2
<1>4. /\ log' = [log EXCEPT ![path.scope] = new]
      /\ requests' = (requests \ {r}) \cup {[r EXCEPT !.answer = a]}
  BY DEF ServeGet, ServerAnswers
<1> HIDE DEF new
<1>5. /\ a \in Revision /\ a.scope = path.scope /\ a.number = Len(new)
      /\ a.objective = new[Len(new)]
  BY <1>1, <1>2, <1>3, NewestType DEF Newest
<1>6. log'[path.scope] = new /\ \A s \in Scopes : s # path.scope => log'[s] = log[s]
  BY <1>1, <1>4 DEF TypeOK
<1>7. \A s \in Scopes : Len(log'[s]) >= Len(log[s])
  <2>1. \A s \in Scopes : Len(log[s]) \in Nat
    BY DEF TypeOK
  <2> HIDE DEF path
  <2> QED  BY <1>3, <1>6, <2>1
<1>8. log'[path.scope] = new /\ Len(new) = a.number
  BY <1>5, <1>6
<1>9. PICK b \in Revision : b = a
  BY <1>5
<1>10. /\ requests' = (requests \ {r}) \cup {[r EXCEPT !.answer = b]}
       /\ b.number = Len(log'[r.path.scope]) /\ b.scope = r.path.scope
       /\ r.path.objective # None => b.objective = r.path.objective
  BY <1>3, <1>4, <1>5, <1>8, <1>9
<1>11. Fits(b, r.path)'
  <2>1. b.number \in Nat
    BY DEF Revision
  <2> QED  BY <1>10, <2>1 DEF Fits
<1> QED  BY <1>7, <1>10, <1>11

\* A user action, a refused mutation or a stale response: at most the revision
\* is taken out of the view.
LEMMA KeptProvider ==
    ASSUME TypeOK, Kept, UNCHANGED <<log, responses, generation, requests, fetch, view, adopted>>,
           sequence' \in {sequence, sequence + 1},
           state' = state \/ state'.revision = None,
           \A p \in posts' : p \in posts \/ p.answer = None
    PROVE  Kept'
<1>1. sequence \in Nat /\ (fetch # None => fetch.sequence \in Nat)
  BY DEF TypeOK
<1>2. (fetch # None => fetch.sequence <= sequence)'
  BY <1>1 DEF Kept
<1> QED  BY <1>2 DEF Kept, Fits, ViewIsOfItsScope

LEMMA InvalidatedSequence ==
    ASSUME TypeOK, Invalidated
    PROVE  sequence' = sequence + 1 /\ state'.revision = None
BY DEF Invalidated, TypeOK

\* A history that only grows keeps every answer an answer.
LEMMA KeptGrown ==
    ASSUME TypeOK, Kept, TypeOK',
           \A s \in Scopes : Len(log'[s]) >= Len(log[s]),
           UNCHANGED <<responses, generation, fetch, sequence, state, view, adopted>>,
           \A r \in requests' : \/ r \in requests
                                \/ r.generation <= generation /\ (r.answer # None => Fits(r.answer, r.path)'),
           \A p \in posts' : \/ p \in posts
                             \/ p.answer \notin {None, Failed} =>
                                   /\ p.answer.scope = p.key[1]
                                   /\ p.answer.number <= Len(log'[p.key[1]])
    PROVE  Kept'
<1>0. /\ \A s \in Scopes : Len(log[s]) \in Nat /\ Len(log'[s]) \in Nat /\ adopted[s] \in Nat
      /\ \A path \in Paths : path.scope \in Scopes
  <2>1. log \in [Scopes -> Seq(Objectives)] /\ adopted \in [Scopes -> Nat]
    BY DEF TypeOK
  <2>2. log' \in [Scopes -> Seq(Objectives)]
    BY DEF TypeOK
  <2> QED  BY <2>1, <2>2 DEF Paths
<1>1. \A path \in Paths, a \in Revision : Fits(a, path) => Fits(a, path)'
  BY <1>0 DEF Fits, Revision
<1>2. (\A path \in Paths : responses[path] # None => Fits(responses[path], path))'
  BY <1>1 DEF Kept, TypeOK
<1>3. (\A r \in requests : /\ r.generation <= generation
                           /\ r.answer # None => Fits(r.answer, r.path))'
  <2> SUFFICES ASSUME NEW r \in requests'
               PROVE  /\ r.generation <= generation'
                      /\ r.answer # None => Fits(r.answer, r.path)'
    OBVIOUS
  <2>1. CASE r \in requests
    <3>1. r.path \in Paths /\ r.answer \in Revision \cup {None}
      BY <2>1 DEF TypeOK, GetRequest
    <3> QED  BY <1>1, <2>1, <3>1 DEF Kept
  <2> QED  BY <2>1
<1>4. (fetch # None =>
          /\ fetch.sequence <= sequence
          /\ fetch.request.path.scope = fetch.key[1]
          /\ fetch.answer \notin {None, Failed} => Fits(fetch.answer, fetch.request.path))'
  <2>1. fetch # None => /\ fetch.request.path \in Paths
                        /\ fetch.answer \in Revision \cup {None, Failed}
    BY DEF TypeOK, GetRequest
  <2> QED  BY <1>1, <2>1 DEF Kept
<1>5. (\A p \in posts : p.answer \notin {None, Failed} =>
          p.answer.scope = p.key[1] /\ p.answer.number <= Len(log[p.key[1]]))'
  <2> SUFFICES ASSUME NEW p \in posts', p.answer \notin {None, Failed}, p \in posts
               PROVE  p.answer.scope = p.key[1] /\ p.answer.number <= Len(log'[p.key[1]])
    OBVIOUS
  <2>1. p.answer \in Revision /\ p.key[1] \in Scopes /\ p.answer.number \in Nat
    BY DEF TypeOK, Keys, Revision
  <2> QED  BY <1>0, <2>1 DEF Kept
<1>6. (\A s \in Scopes : Len(log[s]) >= 1 /\ adopted[s] <= Len(log[s]))'
  BY <1>0 DEF Kept
<1> QED  BY <1>2, <1>3, <1>4, <1>5, <1>6 DEF Kept, ViewIsOfItsScope

LEMMA KeptInit == Init => Kept
<1> SUFFICES ASSUME Init PROVE Kept
  OBVIOUS
<1>1. \A s \in Scopes : Len(log[s]) = 1 /\ adopted[s] = 0
  BY DEF Init
<1> QED  BY <1>1 DEF Init, ApiInit, Kept, ViewIsOfItsScope

LEMMA KeptStep == Inv /\ TypeOK' /\ [Next]_vars => Kept'
<1> SUFFICES ASSUME Inv, TypeOK', [Next]_vars PROVE Kept'
  OBVIOUS
<1> USE DEF providerVars, historyVars, apiVars
<1>0. /\ TypeOK /\ Kept /\ sequence \in Nat
      /\ fetch # None => fetch \in FetchType
      /\ requests \subseteq GetRequest
  BY DEF Inv, TypeOK, FetchType
<1>1. CASE Render
  <2>1. view'.revision # None => view'.revision = state.revision /\ view'.key = state.key
    BY <1>0, <1>1 DEF Render, Shown, TypeOK
  <2>2. ViewIsOfItsScope'
    BY <1>0, <2>1 DEF Kept, ViewIsOfItsScope
  <2> QED  BY <1>0, <1>1, <2>2 DEF Render, Kept, Fits
<1>2. CASE Effect
  <2> DEFINE s == view.key[1]
             path == [scope |-> s, objective |-> IF objectiveRef.scope = s
                                                 THEN objectiveRef.value ELSE None]
             asked == Request(path, None)
  <2>1. path \in Paths /\ path.scope = view.key[1]
    BY <1>0 DEF TypeOK, Keys, Paths
  <2>2. /\ fetch' = [key |-> view.key, sequence |-> sequence + 1,
                     request |-> asked, answer |-> responses[path]]
        /\ requests' \subseteq requests \cup {asked}
        /\ sequence' = sequence + 1 /\ state'.revision = None
        /\ UNCHANGED <<log, responses, generation, posts, view, adopted>>
    BY <1>2 DEF Effect, Get
  <2> HIDE DEF path
  <2>3. asked.path = path /\ asked.answer = None /\ asked.generation = generation
    BY DEF Request
  <2> HIDE DEF asked
  <2>4. (fetch # None =>
          /\ fetch.sequence <= sequence
          /\ fetch.request.path.scope = fetch.key[1]
          /\ fetch.answer \notin {None, Failed} => Fits(fetch.answer, fetch.request.path))'
    BY <1>0, <2>1, <2>2, <2>3 DEF Kept, Fits
  <2>5. (\A r \in requests : /\ r.generation <= generation
                             /\ r.answer # None => Fits(r.answer, r.path))'
    <3>1. generation <= generation
      BY <1>0 DEF TypeOK
    <3> QED  BY <1>0, <2>2, <2>3, <3>1 DEF Kept, Fits
  <2> QED  BY <1>0, <2>2, <2>4, <2>5 DEF Kept, Fits, ViewIsOfItsScope
<1>3. CASE Settle
  <2>1. state' = state \/ state'.revision = None
        \/ (state'.revision = fetch.answer /\ state'.key = fetch.key /\ fetch.answer \notin {None, Failed})
    BY <1>3 DEF Settle
  <2>2. fetch # None /\ fetch' = None
    BY <1>3 DEF Settle
  <2>3. (state.revision # None => state.revision.scope = state.key[1])'
    BY <1>0, <2>1, <2>2 DEF Kept, Fits
  <2> QED  BY <1>0, <1>3, <2>2, <2>3 DEF Settle, Kept, Fits, ViewIsOfItsScope
<1>4. CASE Retry \/ Invalidate \/ \E o \in Objectives : SelectObjective(o)
  <2>1. sequence' = sequence + 1 /\ (state' = state \/ state'.revision = None)
    BY <1>0, <1>4, InvalidatedSequence DEF Retry, Invalidate, SelectObjective
  <2> QED
    BY <1>0, <1>4, <2>1, KeptProvider DEF Retry, Invalidate, SelectObjective, UserActs
<1>5. CASE \E s \in Scopes : ChangeScope(s)
  BY <1>0, <1>5, KeptProvider DEF ChangeScope, UserActs
<1>6. CASE \E surface \in Surfaces : Mutate(surface)
  BY <1>0, <1>6, KeptProvider DEF Mutate, UserActs
<1>7. ASSUME NEW p \in posts, ServePost(p) PROVE Kept'
  <2>0. p \in PostType /\ p.key[1] \in Scopes /\ log \in [Scopes -> Seq(Objectives)]
    BY <1>0 DEF TypeOK, PostType, Keys
  <2>1. CASE Len(log[p.key[1]]) # p.expected.number
    <3>1. [p EXCEPT !.answer = Failed].answer = Failed
      BY <2>0 DEF PostType
    <3>2. /\ log' = log
          /\ \A q \in posts' : q \in posts \/ q.answer = Failed
      BY <1>7, <2>1, <3>1 DEF ServePost
    <3>3. \A s \in Scopes : Len(log'[s]) >= Len(log[s])
      BY <2>0, <3>2
    <3> QED  BY <1>0, <1>7, <3>2, <3>3, KeptGrown DEF ServePost
  <2>2. CASE ~(Len(log[p.key[1]]) # p.expected.number)
    <3> DEFINE old == log[p.key[1]]
    <3>1. PICK o \in Objectives :
             /\ log' = [log EXCEPT ![p.key[1]] = Append(@, o)]
             /\ posts' = (posts \ {p}) \cup {[p EXCEPT !.answer = Newest(p.key[1], Append(old, o))]}
      BY <1>7, <2>2 DEF ServePost
    <3>2. /\ Len(Append(old, o)) = Len(old) + 1 /\ Len(old) \in Nat
          /\ Newest(p.key[1], Append(old, o)) =
                [scope |-> p.key[1], number |-> Len(old) + 1, objective |-> o]
      <4>1. old \in Seq(Objectives)
        BY <2>0
      <4> HIDE DEF old
      <4> QED  BY <2>0, <4>1, AppendedType
    <3>3. Len(log'[p.key[1]]) = Len(old) + 1
      BY <2>0, <3>1, <3>2
    <3>4. \A s \in Scopes : Len(log'[s]) >= Len(log[s])
      BY <2>0, <3>1, <3>2, <3>3
    <3>5. \A q \in posts' : q \in posts \/ /\ q.key[1] = p.key[1]
                                           /\ q.answer.scope = p.key[1]
                                           /\ q.answer.number = Len(old) + 1
      <4> DEFINE a == Newest(p.key[1], Append(old, o))
      <4>1. a.scope = p.key[1] /\ a.number = Len(old) + 1
        BY <3>2
      <4> HIDE DEF a
      <4>2. [p EXCEPT !.answer = a].answer = a /\ [p EXCEPT !.answer = a].key = p.key
        BY <2>0 DEF PostType
      <4> QED  BY <3>1, <4>1, <4>2 DEF a
    <3>6. \A q \in posts' : q \in posts \/ /\ q.answer.scope = q.key[1]
                                           /\ q.answer.number <= Len(log'[q.key[1]])
      <4> HIDE DEF old
      <4> QED  BY <3>2, <3>3, <3>5
    <3> QED  BY <1>0, <1>7, <3>4, <3>6, KeptGrown DEF ServePost
  <2> QED  BY <2>1, <2>2
<1>8. ASSUME NEW p \in posts, ReceivePost(p) PROVE Kept'
  <2>1. /\ \A q \in posts' : \/ q \in posts
                             \/ q.answer = p.answer /\ q.key = p.key
        /\ generation' = generation + 1 /\ requests' = requests
        /\ \A path \in Paths : responses'[path] = None
        /\ UNCHANGED <<log, fetch, sequence, state, view, adopted>>
    BY <1>0, <1>8 DEF ReceivePost, Forget, TypeOK
  <2>2. \A r \in requests : r.generation <= generation'
    BY <1>0, <2>1 DEF TypeOK, GetRequest, Kept
  <2> QED  BY <1>0, <2>1, <2>2 DEF Kept, Fits, ViewIsOfItsScope
<1>9. ASSUME NEW p \in posts, Adopt(p) PROVE Kept'
  <2>1. CASE Replaces(p)
    <3>1. /\ p.answer \in Revision /\ p.key[1] \in Scopes /\ ~p.open
          /\ p.answer.number \in Nat /\ p.answer \notin {None, Failed}
      BY <1>0, <1>9, AdoptCases, WaitingAnswer DEF Inv, Floor
    <3>2. p.answer.scope = p.key[1] /\ p.answer.number <= Len(log[p.key[1]])
      BY <1>0, <3>1 DEF Kept
    <3>3. (\A s \in Scopes : Len(log[s]) >= 1 /\ adopted[s] <= Len(log[s]))'
      BY <1>0, <1>9, <2>1, <3>1, <3>2, AdoptCases DEF Replaces, Kept, TypeOK
    <3>4. (state.revision # None => state.revision.scope = state.key[1])'
      BY <2>1, <3>2 DEF Replaces
    <3>5. (fetch # None => fetch.sequence <= sequence)'
      <4>1. fetch # None => fetch.sequence <= sequence /\ fetch.sequence \in Nat
        BY <1>0 DEF Kept, FetchType
      <4>2. sequence' = sequence + 1 /\ fetch' = fetch
        BY <1>9, <2>1, AdoptCases DEF Replaces
      <4> QED  BY <1>0, <4>1, <4>2
    <3> QED
      BY <1>0, <1>9, <3>3, <3>4, <3>5, AdoptCases DEF Kept, Fits, ViewIsOfItsScope
  <2>2. CASE Invalidated /\ UNCHANGED <<objectiveRef, adopted, chosen>>
    <3>1. sequence' = sequence + 1 /\ state'.revision = None
      BY <1>0, <2>2, InvalidatedSequence
    <3> QED  BY <1>0, <1>9, <2>2, <3>1, AdoptCases, KeptProvider
  <2>3. CASE UNCHANGED <<sequence, objectiveRef, revisionRef, state, token, adopted, chosen>>
    BY <1>0, <1>9, <2>3, AdoptCases, KeptProvider
  <2> QED  BY <1>9, <2>1, <2>2, <2>3, AdoptCases
<1>10. ASSUME NEW p \in posts, FailPost(p) PROVE Kept'
  <2>1. sequence' \in {sequence, sequence + 1} /\ (state' = state \/ state'.revision = None)
    BY <1>0, <1>10, InvalidatedSequence DEF FailPost
  <2> QED  BY <1>0, <1>10, <2>1, KeptProvider DEF FailPost
<1>11. ASSUME NEW r \in requests, ServeGet(r) PROVE Kept'
  <2>1. PICK a \in Revision :
           /\ requests' = (requests \ {r}) \cup {[r EXCEPT !.answer = a]}
           /\ Fits(a, r.path)'
           /\ \A s \in Scopes : Len(log'[s]) >= Len(log[s])
    BY <1>0, <1>11, ServedLog
  <2>2. LET q == [r EXCEPT !.answer = a]
        IN  q.answer = a /\ q.path = r.path /\ q.generation = r.generation
    BY <1>0 DEF GetRequest
  <2>3. r.generation <= generation
    BY <1>0 DEF Kept
  <2>4. \A q \in requests' : \/ q \in requests
                             \/ q.generation <= generation /\ Fits(q.answer, q.path)'
    BY <2>1, <2>2, <2>3 DEF Fits
  <2> QED  BY <1>0, <1>11, <2>1, <2>4, KeptGrown DEF ServeGet, ServerAnswers
<1>12. ASSUME NEW r \in requests, Receive(r) \/ Fail(r) PROVE Kept'
  <2>1. PICK a \in {r.answer, Failed} :
           /\ Told(r, a)
           /\ a \notin {None, Failed} => a = r.answer
           /\ requests' = requests \ {r} /\ generation' = generation
           /\ \/ responses' = responses
              \/ /\ responses' = [responses EXCEPT ![r.path] = r.answer]
                 /\ r.answer # None
    BY <1>12 DEF Receive, Fail, ReceiveGet, FailGet
  <2>2. r \in GetRequest /\ r.path \in Paths /\ (r.answer # None => Fits(r.answer, r.path))
    BY <1>0 DEF Kept, GetRequest
  <2>3. (\A path \in Paths : responses[path] # None => Fits(responses[path], path))'
    BY <1>0, <2>1, <2>2 DEF Told, Kept, Fits, TypeOK
  <2>4. (fetch # None =>
          /\ fetch.sequence <= sequence
          /\ fetch.request.path.scope = fetch.key[1]
          /\ fetch.answer \notin {None, Failed} => Fits(fetch.answer, fetch.request.path))'
    <3>1. CASE fetch' = fetch
      BY <1>0, <2>1, <3>1 DEF Told, Kept, Fits
    <3>2. CASE fetch' # fetch
      <4>1. fetch # None /\ fetch.request = [r EXCEPT !.answer = None]
            /\ fetch' = [fetch EXCEPT !.answer = a] /\ log' = log /\ sequence' = sequence
        BY <2>1, <3>2 DEF Told
      <4>2. fetch.request.path = r.path
        BY <2>2, <4>1 DEF GetRequest
      <4>3. /\ fetch'.answer = a /\ fetch'.request = fetch.request
            /\ fetch'.key = fetch.key /\ fetch'.sequence = fetch.sequence
        BY <1>0, <4>1 DEF FetchType
      <4> QED  BY <1>0, <2>1, <2>2, <4>1, <4>2, <4>3 DEF Kept, Fits
    <3> QED  BY <3>1, <3>2
  <2> QED  BY <1>0, <2>1, <2>3, <2>4 DEF Told, Kept, Fits, ViewIsOfItsScope
<1>13. ASSUME NEW path \in Paths, Forgotten(path) PROVE Kept'
  <2>1. \A q \in Paths : responses'[q] # None => responses'[q] = responses[q]
    BY <1>0, <1>13 DEF Forgotten, Expire, TypeOK
  <2> QED  BY <1>0, <1>13, <2>1 DEF Forgotten, Expire, Kept, Fits, ViewIsOfItsScope
<1>14. ASSUME NEW s \in Scopes, NEW o \in Objectives, Move(s, o) PROVE Kept'
  <2>1. log \in [Scopes -> Seq(Objectives)] /\ log' = [log EXCEPT ![s] = Append(log[s], o)]
    BY <1>0, <1>14 DEF Move, TypeOK
  <2>2. \A x \in Scopes : Len(log'[x]) >= Len(log[x])
    <3>1. Len(Append(log[s], o)) = Len(log[s]) + 1 /\ Len(log[s]) \in Nat
      BY <2>1
    <3>2. \A x \in Scopes : log'[x] = IF x = s THEN Append(log[s], o) ELSE log[x]
      BY <2>1
    <3> QED  BY <2>1, <3>1, <3>2
  <2> QED  BY <1>0, <1>14, <2>2, KeptGrown DEF Move
<1>15. CASE UNCHANGED vars
  BY <1>0, <1>15 DEF vars, Kept, Fits, ViewIsOfItsScope
<1> QED
  BY <1>1, <1>2, <1>3, <1>4, <1>5, <1>6, <1>7, <1>8, <1>9, <1>10, <1>11, <1>12,
     <1>13, <1>14, <1>15 DEF Next

-----------------------------------------------------------------------------
\* A new sequence number retires the fetch under way.
LEMMA Retired ==
    ASSUME TypeOK, Kept, fetch' = fetch, sequence' = sequence + 1
    PROVE  ~(fetch # None /\ Current)'
<1>1. fetch # None => fetch.sequence <= sequence /\ fetch.sequence \in Nat
  BY DEF Kept, TypeOK
<1>2. sequence \in Nat
  BY DEF TypeOK
<1> QED  BY <1>1, <1>2 DEF Current

\* A step that brings no answer to the client and no revision to the view.
LEMMA FloorStill ==
    ASSUME TypeOK, Kept, Floor, UNCHANGED <<responses, generation, requests, adopted, fetch>>,
           sequence' \in {sequence, sequence + 1},
           state' = state \/ state'.revision = None,
           \A p \in posts' : p \in posts \/ p.open
    PROVE  Floor'
<1>1. (\A s \in Scopes : NoneOlder(s, adopted[s]))'
  BY DEF Floor, NoneOlder, Remembered
<1>2. (\A p \in posts : ~p.open =>
          p.answer \notin {None, Failed} /\ NoneOlder(p.key[1], p.answer.number))'
  BY DEF Floor, NoneOlder, Remembered
<1>3. AdoptedIsNotUndone'
  BY DEF Floor, AdoptedIsNotUndone
<1>4. CASE sequence' = sequence
  BY <1>1, <1>2, <1>3, <1>4 DEF Floor, Awaited, Current
<1>5. CASE sequence' = sequence + 1
  <2>1. ~(fetch # None /\ Current)'
    BY <1>5, Retired
  <2> QED  BY <1>1, <1>2, <1>3, <2>1 DEF Floor, Awaited
<1> QED  BY <1>4, <1>5

LEMMA FloorInit == Init => Floor
<1> SUFFICES ASSUME Init PROVE Floor
  OBVIOUS
<1>1. \A path \in Paths : responses[path] = None
  BY DEF Init, ApiInit
<1> QED  BY <1>1 DEF Init, ApiInit, Floor, NoneOlder, AdoptedIsNotUndone

LEMMA FloorStep == Inv /\ TypeOK' /\ [Next]_vars => Floor'
<1> SUFFICES ASSUME Inv, TypeOK', [Next]_vars PROVE Floor'
  OBVIOUS
<1> USE DEF providerVars, historyVars, apiVars
<1>0. /\ TypeOK /\ Kept /\ Floor /\ sequence \in Nat
      /\ fetch # None => fetch \in FetchType
      /\ requests \subseteq GetRequest /\ posts \subseteq PostType
      /\ adopted \in [Scopes -> Nat]
  BY DEF Inv, TypeOK, FetchType, PostType
<1>1. CASE Render
  BY <1>0, <1>1, FloorStill DEF Render
<1>2. CASE Effect
  <2> DEFINE s == view.key[1]
             path == [scope |-> s, objective |-> IF objectiveRef.scope = s
                                                 THEN objectiveRef.value ELSE None]
             asked == Request(path, None)
  <2>1. path \in Paths /\ path.scope = view.key[1] /\ path.scope \in Scopes
    BY <1>0 DEF TypeOK, Keys, Paths
  <2>2. /\ fetch' = [key |-> view.key, sequence |-> sequence + 1,
                     request |-> asked, answer |-> responses[path]]
        /\ requests' \subseteq requests \cup {asked}
        /\ sequence' = sequence + 1 /\ state'.revision = None
        /\ UNCHANGED <<log, responses, generation, posts, view, adopted>>
    BY <1>2 DEF Effect, Get
  <2> HIDE DEF path
  <2>3. asked.path = path /\ asked.answer = None /\ asked.generation = generation
    BY DEF Request
  <2> HIDE DEF asked
  <2>4. /\ fetch'.key = view.key /\ fetch'.request = asked /\ fetch'.answer = responses[path]
        /\ \A r \in requests' : r \in requests \/ r.answer = None
    BY <2>2, <2>3
  <2>5. (\A x \in Scopes : NoneOlder(x, adopted[x]))'
    BY <1>0, <2>2, <2>4 DEF Floor, NoneOlder, Remembered
  <2>6. (\A p \in posts : ~p.open =>
            p.answer \notin {None, Failed} /\ NoneOlder(p.key[1], p.answer.number))'
    BY <1>0, <2>2, <2>4 DEF Floor, NoneOlder, Remembered
  <2>7. (fetch # None /\ Current /\ fetch.answer \notin {None, Failed} =>
            fetch.answer.number >= adopted[fetch.key[1]])'
    BY <1>0, <2>1, <2>2, <2>4 DEF Floor, NoneOlder
  <2>8. (\A r \in requests : Awaited(r) /\ r.answer # None =>
            r.answer.number >= adopted[r.path.scope])'
    <3> SUFFICES ASSUME NEW r \in requests', r.path = path, r.generation = generation,
                        r.answer # None
                 PROVE  r.answer.number >= adopted[r.path.scope]
      BY <2>2, <2>3, <2>4 DEF Awaited
    <3> QED  BY <1>0, <2>1, <2>4 DEF Floor, NoneOlder, Remembered
  <2>9. AdoptedIsNotUndone'
    BY <2>2 DEF AdoptedIsNotUndone
  <2> QED  BY <2>5, <2>6, <2>7, <2>8, <2>9 DEF Floor
<1>3. CASE Settle
  <2>1. /\ fetch # None /\ fetch' = None
        /\ UNCHANGED <<responses, generation, requests, adopted, posts, sequence>>
        /\ \/ state' = state \/ state'.revision = None
           \/ /\ Current /\ fetch.answer \notin {None, Failed}
              /\ state'.revision = fetch.answer
    BY <1>3 DEF Settle
  <2>2. AdoptedIsNotUndone'
    BY <1>0, <2>1 DEF AdoptedIsNotUndone, Floor, Kept, Fits
  <2> QED  BY <1>0, <2>1, <2>2 DEF Floor, NoneOlder, Remembered, Awaited
<1>4. CASE Retry \/ Invalidate \/ \E o \in Objectives : SelectObjective(o)
  <2>1. sequence' = sequence + 1 /\ (state' = state \/ state'.revision = None)
    BY <1>0, <1>4, InvalidatedSequence DEF Retry, Invalidate, SelectObjective
  <2> QED
    BY <1>0, <1>4, <2>1, FloorStill DEF Retry, Invalidate, SelectObjective, UserActs
<1>5. CASE \E s \in Scopes : ChangeScope(s)
  BY <1>0, <1>5, FloorStill DEF ChangeScope, UserActs
<1>6. CASE \E surface \in Surfaces : Mutate(surface)
  BY <1>0, <1>6, FloorStill DEF Mutate, UserActs
<1>7. ASSUME NEW p \in posts, ServePost(p) PROVE Floor'
  <2>1. p \in PostType /\ p.open
    BY <1>0, <1>7 DEF ServePost, Floor
  <2>2. \A q \in posts' : q \in posts \/ \E a : q = [p EXCEPT !.answer = a]
    BY <1>7 DEF ServePost
  <2>3. \A a : [p EXCEPT !.answer = a].open = TRUE
    BY <2>1 DEF PostType
  <2>4. \A q \in posts' : q \in posts \/ q.open
    BY <2>2, <2>3
  <2> QED  BY <1>0, <1>7, <2>4, FloorStill DEF ServePost
<1>8. ASSUME NEW p \in posts, ReceivePost(p) PROVE Floor'
  <2>1. /\ generation' = generation + 1 /\ requests' = requests
        /\ \A path \in Paths : responses'[path] = None
        /\ UNCHANGED <<log, fetch, sequence, state, view, adopted>>
        /\ p.answer \notin {None, Failed}
        /\ posts' = (posts \ {p}) \cup {[p EXCEPT !.open = FALSE]}
    BY <1>0, <1>8 DEF ReceivePost, Forget, TypeOK
  <2>2. \A r \in requests : r.generation # generation'
    BY <1>0, <2>1 DEF TypeOK, GetRequest, Kept
  <2>3. \A x, n : NoneOlder(x, n)'
    BY <2>1, <2>2 DEF NoneOlder, Remembered
  <2>4. \A q \in posts' : ~q.open => q.answer \notin {None, Failed}
    <3>1. [p EXCEPT !.open = FALSE].answer = p.answer
      BY <1>0 DEF PostType
    <3> QED  BY <1>0, <2>1, <3>1 DEF Floor
  <2> QED
    BY <1>0, <2>1, <2>3, <2>4 DEF Floor, Awaited, Current, AdoptedIsNotUndone
<1>9. ASSUME NEW p \in posts, Adopt(p) PROVE Floor'
  <2>1. CASE Replaces(p)
    <3>1. /\ p.answer \in Revision /\ p.key[1] \in Scopes /\ p.answer.scope = p.key[1]
          /\ p.answer.number \in Nat /\ NoneOlder(p.key[1], p.answer.number)
      BY <1>0, <1>9, AdoptCases, WaitingAnswer DEF Floor, Kept
    <3>2. /\ state'.revision = p.answer /\ sequence' = sequence + 1
          /\ adopted' = [adopted EXCEPT ![p.key[1]] = p.answer.number]
          /\ posts' = posts \ {p}
          /\ UNCHANGED <<fetch, responses, generation, requests>>
      BY <1>9, <2>1, AdoptCases DEF Replaces
    <3>3. ~(fetch # None /\ Current)'
      BY <1>0, <3>2, Retired
    <3>4. AdoptedIsNotUndone'
      BY <1>0, <3>1, <3>2 DEF AdoptedIsNotUndone
    <3>5. (\A s \in Scopes : NoneOlder(s, adopted[s]))'
      BY <1>0, <3>1, <3>2 DEF Floor, NoneOlder, Remembered
    <3>6. (\A q \in posts : ~q.open =>
              q.answer \notin {None, Failed} /\ NoneOlder(q.key[1], q.answer.number))'
      BY <1>0, <3>2 DEF Floor, NoneOlder, Remembered
    <3> QED  BY <3>3, <3>4, <3>5, <3>6 DEF Floor, Awaited
  <2>2. CASE Invalidated /\ UNCHANGED <<objectiveRef, adopted, chosen>>
    <3>1. sequence' = sequence + 1 /\ state'.revision = None
      BY <1>0, <2>2, InvalidatedSequence
    <3> QED  BY <1>0, <1>9, <2>2, <3>1, AdoptCases, FloorStill
  <2>3. CASE UNCHANGED <<sequence, objectiveRef, revisionRef, state, token, adopted, chosen>>
    BY <1>0, <1>9, <2>3, AdoptCases, FloorStill
  <2> QED  BY <1>9, <2>1, <2>2, <2>3, AdoptCases
<1>10. ASSUME NEW p \in posts, FailPost(p) PROVE Floor'
  <2>1. sequence' \in {sequence, sequence + 1} /\ (state' = state \/ state'.revision = None)
    BY <1>0, <1>10, InvalidatedSequence DEF FailPost
  <2> QED  BY <1>0, <1>10, <2>1, FloorStill DEF FailPost
<1>11. ASSUME NEW r \in requests, ServeGet(r) PROVE Floor'
  <2>1. PICK a \in Revision :
           /\ requests' = (requests \ {r}) \cup {[r EXCEPT !.answer = a]}
           /\ a.number = Len(log'[r.path.scope])
           /\ \A s \in Scopes : Len(log'[s]) >= Len(log[s])
    BY <1>0, <1>11, ServedLog
  <2>2. UNCHANGED <<responses, generation, posts, fetch, sequence, state, adopted>>
    BY <1>11 DEF ServeGet, ServerAnswers
  <2>3. r \in GetRequest /\ r.path.scope \in Scopes
    BY <1>0 DEF GetRequest, Paths
  <2>4. \A n \in Nat : n <= Len(log[r.path.scope]) => n <= a.number
    <3>1. Len(log[r.path.scope]) \in Nat /\ a.number \in Nat
      <4>1. log[r.path.scope] \in Seq(Objectives) /\ a \in Revision
        BY <1>0, <2>3 DEF TypeOK
      <4> QED  BY <4>1 DEF Revision
    <3> QED  BY <2>1, <2>3, <3>1
  <2> DEFINE q == [r EXCEPT !.answer = a]
  <2>5. q.answer = a /\ q.path = r.path /\ q.generation = r.generation
    BY <2>3 DEF GetRequest
  <2>6. \A x \in requests' : x \in requests \/ x = q
    BY <2>1
  <2> HIDE DEF q
  <2>7. \A s \in Scopes, n \in Nat : NoneOlder(s, n) /\ n <= Len(log[s]) => NoneOlder(s, n)'
    BY <2>2, <2>4, <2>5, <2>6 DEF NoneOlder, Remembered
  <2>8. (\A s \in Scopes : NoneOlder(s, adopted[s]))'
    BY <1>0, <2>2, <2>7 DEF Floor, Kept, NoneOlder
  <2>9. (\A p \in posts : ~p.open =>
            p.answer \notin {None, Failed} /\ NoneOlder(p.key[1], p.answer.number))'
    <3> SUFFICES ASSUME NEW p \in posts, ~p.open
                 PROVE  p.answer \notin {None, Failed} /\ NoneOlder(p.key[1], p.answer.number)'
      BY <2>2 DEF NoneOlder
    <3>1. /\ p.answer \in Revision /\ p.key[1] \in Scopes /\ p.answer.number \in Nat
          /\ p.answer \notin {None, Failed}
      BY <1>0, WaitingAnswer DEF Floor
    <3>2. p.answer.number <= Len(log[p.key[1]]) /\ NoneOlder(p.key[1], p.answer.number)
      BY <1>0, <3>1 DEF Kept, Floor
    <3> QED  BY <2>7, <3>1, <3>2
  <2>10. (\A x \in requests : Awaited(x) /\ x.answer # None =>
             x.answer.number >= adopted[x.path.scope])'
    <3>1. adopted[r.path.scope] <= a.number
      BY <1>0, <2>3, <2>4 DEF Kept
    <3> QED
      BY <1>0, <2>2, <2>5, <2>6, <3>1 DEF Floor, Awaited, Current, Revision
  <2> QED
    BY <1>0, <2>2, <2>8, <2>9, <2>10 DEF Floor, Current, AdoptedIsNotUndone
<1>12. ASSUME NEW r \in requests, Receive(r) \/ Fail(r) PROVE Floor'
  <2>1. PICK a \in {r.answer, Failed} :
           /\ Told(r, a)
           /\ a \notin {None, Failed} => a = r.answer
           /\ requests' = requests \ {r} /\ generation' = generation
           /\ \/ responses' = responses
              \/ /\ responses' = [responses EXCEPT ![r.path] = r.answer]
                 /\ Remembered(r) /\ r.answer # None
    BY <1>12 DEF Receive, Fail, ReceiveGet, FailGet
  <2>2. r \in GetRequest /\ r.path \in Paths
    BY <1>0 DEF GetRequest
  <2>3. UNCHANGED <<adopted, posts, sequence, state, generation>>
    BY <2>1 DEF Told
  <2>4. \A s, n : NoneOlder(s, n) => NoneOlder(s, n)'
    BY <1>0, <2>1, <2>2 DEF NoneOlder, Remembered, TypeOK
  <2>5. (\A s \in Scopes : NoneOlder(s, adopted[s]))'
    BY <1>0, <2>3, <2>4 DEF Floor, NoneOlder
  <2>6. (\A p \in posts : ~p.open =>
            p.answer \notin {None, Failed} /\ NoneOlder(p.key[1], p.answer.number))'
    BY <1>0, <2>3, <2>4 DEF Floor, NoneOlder
  <2>7. fetch' # None => /\ fetch # None /\ fetch'.key = fetch.key
                         /\ fetch'.request = fetch.request /\ fetch'.sequence = fetch.sequence
                         /\ \/ fetch'.answer = fetch.answer
                            \/ /\ fetch'.answer = a
                               /\ fetch.request.path = r.path
                               /\ fetch.request.generation = r.generation
    <3>1. CASE fetch' = fetch
      BY <3>1
    <3>2. CASE fetch' # fetch
      <4>1. fetch # None /\ fetch.request = [r EXCEPT !.answer = None]
            /\ fetch' = [fetch EXCEPT !.answer = a]
        BY <2>1, <3>2 DEF Told
      <4>2. fetch.request.path = r.path /\ fetch.request.generation = r.generation
        BY <2>2, <4>1 DEF GetRequest
      <4> QED  BY <1>0, <4>1, <4>2 DEF FetchType
    <3> QED  BY <3>1, <3>2
  <2>8. (\A x \in requests : Awaited(x) /\ x.answer # None =>
             x.answer.number >= adopted[x.path.scope])'
    BY <1>0, <2>1, <2>3, <2>7 DEF Floor, Awaited, Current
  <2>9. (fetch # None /\ Current /\ fetch.answer \notin {None, Failed} =>
            fetch.answer.number >= adopted[fetch.key[1]])'
    BY <1>0, <2>1, <2>3, <2>7 DEF Floor, Awaited, Current, Kept
  <2> QED  BY <1>0, <2>3, <2>5, <2>6, <2>8, <2>9 DEF Floor, AdoptedIsNotUndone
<1>13. ASSUME NEW path \in Paths, Forgotten(path) PROVE Floor'
  <2>1. /\ \A q \in Paths : responses'[q] # None => responses'[q] = responses[q]
        /\ UNCHANGED <<requests, generation, fetch, sequence, posts, adopted, state>>
    BY <1>0, <1>13 DEF Forgotten, Expire, TypeOK
  <2>2. \A s, n : NoneOlder(s, n) => NoneOlder(s, n)'
    BY <2>1 DEF NoneOlder, Remembered
  <2>3. (\A s \in Scopes : NoneOlder(s, adopted[s]))'
    BY <1>0, <2>1, <2>2 DEF Floor, NoneOlder
  <2>4. (\A p \in posts : ~p.open =>
            p.answer \notin {None, Failed} /\ NoneOlder(p.key[1], p.answer.number))'
    BY <1>0, <2>1, <2>2 DEF Floor, NoneOlder
  <2> QED  BY <1>0, <2>1, <2>3, <2>4 DEF Floor, Awaited, Current, AdoptedIsNotUndone
<1>14. ASSUME NEW s \in Scopes, NEW o \in Objectives, Move(s, o) PROVE Floor'
  BY <1>0, <1>14, FloorStill DEF Move
<1>15. CASE UNCHANGED vars
  BY <1>0, <1>15, FloorStill DEF vars
<1> QED
  BY <1>1, <1>2, <1>3, <1>4, <1>5, <1>6, <1>7, <1>8, <1>9, <1>10, <1>11, <1>12,
     <1>13, <1>14, <1>15 DEF Next

-----------------------------------------------------------------------------
\* A step that leaves the selection, the scope and what the fetch asked alone.
LEMMA AskedStill ==
    ASSUME TypeOK, Kept, Asked, UNCHANGED <<chosen, scope, view, objectiveRef>>,
           \/ fetch' = fetch /\ sequence' = sequence + 1
           \/ /\ sequence' = sequence
              /\ fetch' # None => /\ fetch # None /\ fetch'.key = fetch.key
                                  /\ fetch'.request = fetch.request
                                  /\ fetch'.sequence = fetch.sequence,
           state' = state \/ state'.revision = None
    PROVE  Asked'
<1>1. SelectionIsShown'
  BY DEF Asked, SelectionIsShown
<1>2. CASE fetch' = fetch /\ sequence' = sequence + 1
  <2>1. ~(fetch # None /\ Current)'
    BY <1>2, Retired
  <2> QED  BY <1>1, <2>1 DEF Asked
<1>3. CASE ~(fetch' = fetch /\ sequence' = sequence + 1)
  BY <1>1, <1>3 DEF Asked, Current
<1> QED  BY <1>2, <1>3

LEMMA AskedInit == Init => Asked
BY DEF Init, Asked, SelectionIsShown

LEMMA AskedStep == Inv /\ TypeOK' /\ [Next]_vars => Asked'
<1> SUFFICES ASSUME Inv, TypeOK', [Next]_vars PROVE Asked'
  OBVIOUS
<1> USE DEF providerVars, historyVars, apiVars
<1>0. /\ TypeOK /\ Kept /\ Floor /\ Asked /\ sequence \in Nat
      /\ fetch # None => fetch \in FetchType
      /\ chosen \in [scope : Scopes, value : Objectives \cup {None}]
      /\ requests \subseteq GetRequest
  BY DEF Inv, TypeOK, FetchType
<1>1. CASE Render
  <2>1. view'.key = <<scope, token>>
    <3>1. Shown \in StateType
      BY <1>0 DEF Shown, Key, Keys, TypeOK, StateType
    <3> QED  BY <1>1, <3>1 DEF Render, StateType, Key
  <2>2. UNCHANGED <<scope, chosen, objectiveRef, fetch, sequence, state>>
    BY <1>1 DEF Render
  <2> QED  BY <1>0, <2>1, <2>2 DEF Asked, Current, SelectionIsShown
<1>2. CASE Effect
  <2> DEFINE s == view.key[1]
             path == [scope |-> s, objective |-> IF objectiveRef.scope = s
                                                 THEN objectiveRef.value ELSE None]
             asked == Request(path, None)
  <2>1. path.objective = IF objectiveRef.scope = view.key[1] THEN objectiveRef.value ELSE None
    OBVIOUS
  <2>2. /\ fetch' = [key |-> view.key, sequence |-> sequence + 1,
                     request |-> asked, answer |-> responses[path]]
        /\ state'.revision = None
        /\ UNCHANGED <<view, scope, chosen, objectiveRef>>
    BY <1>2 DEF Effect
  <2> HIDE DEF path
  <2>3. asked.path = path
    BY DEF Request
  <2> HIDE DEF asked
  <2>4. fetch'.key = view.key /\ fetch'.request.path = path
    BY <2>2, <2>3
  <2>5. /\ fetch'.key = view'.key
        /\ fetch'.request.path.objective =
              IF objectiveRef.scope = view.key[1] THEN objectiveRef.value ELSE None
    BY <2>1, <2>2, <2>4
  <2> QED  BY <1>0, <2>2, <2>5 DEF Asked, SelectionIsShown
<1>3. CASE Settle
  <2>1. /\ fetch # None /\ fetch' = None
        /\ UNCHANGED <<view, scope, chosen>>
    BY <1>3 DEF Settle
  <2>2. CASE /\ UNCHANGED objectiveRef
             /\ state' = state \/ state'.revision = None
    BY <1>0, <2>1, <2>2 DEF Asked, SelectionIsShown
  <2>3. CASE /\ Current /\ fetch.answer \notin {None, Failed}
             /\ state'.revision = fetch.answer
             /\ objectiveRef' = [scope |-> fetch.key[1], value |-> fetch.answer.objective]
    <3>1. /\ fetch.answer.scope = fetch.key[1]
          /\ fetch.request.path.objective # None =>
                fetch.answer.objective = fetch.request.path.objective
      BY <1>0, <2>1, <2>3 DEF Kept, Fits
    <3>2. chosen.value # None /\ fetch.key[1] = chosen.scope =>
             fetch.answer.objective = chosen.value
      BY <1>0, <2>1, <2>3, <3>1 DEF Asked
    <3>3. chosen.value # None /\ fetch.key[1] = chosen.scope => objectiveRef' = chosen
      BY <1>0, <2>3, <3>2
    <3>4. SelectionIsShown'
      BY <2>1, <2>3, <3>1, <3>2 DEF SelectionIsShown
    <3> QED  BY <1>0, <2>1, <2>3, <3>3, <3>4 DEF Asked
  <2> QED  BY <1>3, <2>2, <2>3 DEF Settle
<1>4. CASE Retry \/ Invalidate
  <2>1. sequence' = sequence + 1 /\ (state' = state \/ state'.revision = None)
    BY <1>0, <1>4, InvalidatedSequence DEF Retry, Invalidate
  <2> QED  BY <1>0, <1>4, <2>1, AskedStill DEF Retry, Invalidate, UserActs
<1>5. ASSUME NEW o \in Objectives, SelectObjective(o) PROVE Asked'
  <2>1. /\ sequence' = sequence + 1 /\ state'.revision = None
        /\ fetch' = fetch /\ view' = view
        /\ objectiveRef' = chosen' /\ chosen'.scope = view.key[1]
    BY <1>0, <1>5, InvalidatedSequence DEF SelectObjective, UserActs
  <2>2. ~(fetch # None /\ Current)'
    BY <1>0, <2>1, Retired
  <2> QED  BY <2>1, <2>2 DEF Asked, SelectionIsShown
<1>6. ASSUME NEW s \in Scopes, ChangeScope(s) PROVE Asked'
  BY <1>6 DEF ChangeScope, Asked, SelectionIsShown
<1>7. CASE \E surface \in Surfaces : Mutate(surface)
  BY <1>0, <1>7, AskedStill DEF Mutate, UserActs
<1>8. CASE \E p \in posts : ServePost(p) \/ ReceivePost(p)
  BY <1>0, <1>8, AskedStill DEF ServePost, ReceivePost
<1>9. ASSUME NEW p \in posts, Adopt(p) PROVE Asked'
  <2>1. CASE Replaces(p)
    <3>1. p.answer.scope = p.key[1] /\ view.key[1] = p.key[1]
      BY <1>0, <1>9, <2>1, AdoptCases, WaitingAnswer DEF Floor, Kept, Replaces, Listens
    <3>2. /\ state'.revision = p.answer /\ sequence' = sequence + 1
          /\ UNCHANGED <<scope, view, fetch>>
          /\ objectiveRef' = [scope |-> p.key[1], value |-> p.answer.objective]
          /\ chosen' = IF chosen.scope = p.key[1]
                       THEN [chosen EXCEPT !.value = p.answer.objective] ELSE chosen
      BY <1>9, <2>1, AdoptCases DEF Replaces
    <3>3. ~(fetch # None /\ Current)'
      BY <1>0, <3>2, Retired
    <3>4. CASE chosen.scope = p.key[1]
      <4>1. chosen' = objectiveRef' /\ chosen'.value = p.answer.objective
        BY <1>0, <3>2, <3>4
      <4> QED  BY <3>1, <3>2, <3>3, <4>1 DEF Asked, SelectionIsShown
    <3>5. CASE chosen.scope # p.key[1]
      BY <1>0, <3>1, <3>2, <3>3, <3>5 DEF Asked, SelectionIsShown
    <3> QED  BY <3>4, <3>5
  <2>2. CASE Invalidated /\ UNCHANGED <<objectiveRef, adopted, chosen>>
    <3>1. sequence' = sequence + 1 /\ state'.revision = None
      BY <1>0, <2>2, InvalidatedSequence
    <3> QED  BY <1>0, <1>9, <2>2, <3>1, AdoptCases, AskedStill
  <2>3. CASE UNCHANGED <<sequence, objectiveRef, revisionRef, state, token, adopted, chosen>>
    BY <1>0, <1>9, <2>3, AdoptCases, AskedStill
  <2> QED  BY <1>9, <2>1, <2>2, <2>3, AdoptCases
<1>10. ASSUME NEW p \in posts, FailPost(p) PROVE Asked'
  <2>1. sequence' \in {sequence, sequence + 1} /\ (state' = state \/ state'.revision = None)
    BY <1>0, <1>10, InvalidatedSequence DEF FailPost
  <2> QED  BY <1>0, <1>10, <2>1, AskedStill DEF FailPost
<1>11. CASE \E r \in requests : ServeGet(r)
  BY <1>0, <1>11, AskedStill DEF ServeGet
<1>12. ASSUME NEW r \in requests, Receive(r) \/ Fail(r) PROVE Asked'
  <2>1. PICK a : Told(r, a)
    BY <1>12 DEF Receive, Fail
  <2>2. fetch' # None => /\ fetch # None /\ fetch'.key = fetch.key
                         /\ fetch'.request = fetch.request
                         /\ fetch'.sequence = fetch.sequence
    BY <1>0, <2>1 DEF Told, FetchType
  <2> QED  BY <1>0, <2>1, <2>2, AskedStill DEF Told
<1>13. CASE \E path \in Paths : Forgotten(path)
  BY <1>0, <1>13, AskedStill DEF Forgotten
<1>14. CASE \E s \in Scopes, o \in Objectives : Move(s, o)
  BY <1>0, <1>14, AskedStill DEF Move
<1>15. CASE UNCHANGED vars
  BY <1>0, <1>15, AskedStill DEF vars
<1> QED
  BY <1>1, <1>2, <1>3, <1>4, <1>5, <1>6, <1>7, <1>8, <1>9, <1>10, <1>11, <1>12,
     <1>13, <1>14, <1>15 DEF Next

-----------------------------------------------------------------------------
\* The invariant holds in every reachable state.
THEOREM ViewInvariant == Spec => []Inv
<1>1. Init => Inv
  BY TypeInit, KeptInit, FloorInit, AskedInit DEF Inv
<1>2. Inv /\ [Next]_vars => Inv'
  BY TypeStep, KeptStep, FloorStep, AskedStep DEF Inv
<1> QED  BY <1>1, <1>2, PTL DEF Spec

\* EngineeringCaseProvider and requestJson: every variable has its type.
THEOREM ViewTyped == Spec => []TypeOK
<1>1. Inv => TypeOK
  BY DEF Inv
<1> QED  BY <1>1, ViewInvariant, PTL

\* EngineeringCaseProvider: a case is never shown under another run, whatever
\* answers arrive after the user opened one.
THEOREM ViewIsScoped == Spec => []ViewIsOfItsScope
<1>1. Inv => ViewIsOfItsScope
  BY DEF Inv, Kept
<1> QED  BY <1>1, ViewInvariant, PTL

\* replaceRevision, invalidateApiCache and requestSequence together: an adopted
\* revision is not replaced by an older one.
THEOREM AdoptedStays == Spec => []AdoptedIsNotUndone
<1>1. Inv => AdoptedIsNotUndone
  BY DEF Inv, Floor
<1> QED  BY <1>1, ViewInvariant, PTL

\* selectObjective: what is shown of the selected scope is of that objective.
THEOREM SelectionStays == Spec => []SelectionIsShown
<1>1. Inv => SelectionIsShown
  BY DEF Inv, Asked
<1> QED  BY <1>1, ViewInvariant, PTL

=============================================================================
