----------------------------- MODULE MCCrewChief -----------------------------
(* Instances of CrewChief for TLC.                                         *)
EXTENDS CrewChief, TLC

CONSTANTS c1, c2, r1, A1, A2, T1, T2, T3, race, qualifying

Symmetry == Permutations({c1, c2})

\* The other evidence asks for the inspections in another order, and is explained
\* before all of them were made.
ThreeTools == A1 :> <<T1, T2, T3>> @@ A2 :> <<T1, T3, T2>>
Explaining == A1 :> {} @@ A2 :> {{T1, T3}}

E(kind, what) == [kind |-> kind, authority |-> A1, what |-> what, pair |-> FALSE]
With(log) == [investigations |-> <<[objective |-> race, opened |-> A1, events |-> log,
                                    continues |-> 0]>>,
              intents |-> <<>>]

\* Nothing yet, or an investigation from before continuations were counted: its
\* question pending, or about to decide.
Nothing == [investigations |-> <<>>, intents |-> <<>>]
Asked == <<E("opened", None), E("inspected", T1), E("asked", None)>>
Inspected == Asked \o <<E("answered", None), E("inspected", T2), E("inspected", T3)>>

OnlyNothing == {Nothing}
\* The driver has stated an intent and opened nothing.
Intended == {[Nothing EXCEPT !.intents = <<race>>]}

AnyStored == {Nothing, With(Asked), With(Inspected)}
=============================================================================
