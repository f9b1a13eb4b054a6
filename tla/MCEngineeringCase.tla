-------------------------- MODULE MCEngineeringCase --------------------------
(***************************************************************************)
(* Small instances of EngineeringCase.  Run 1 is the source; 2 carries the *)
(* planned change; 3 restores the baseline; 4 is a second copy of 3's file *)
(* and 5 overlaps 2.                                                       *)
(***************************************************************************)
EXTENDS EngineeringCase, TLC

MCRecording ==
    [r \in 1..5 |->
        [start |-> <<1, 4, 7, 7, 5>>[r], end |-> <<2, 5, 8, 8, 6>>[r],
         sha |-> <<"s1", "s2", "s3", "s3", "s5">>[r],
         setup |-> <<"base", "planned", "base", "base", "base">>[r]]]

MCPlanTimes == {3}

NoLegacy == {}

\* A finished but unscored test, planned before workflows carried P32 receipts.
OldTest ==
    {[status |-> "a2_recorded", source |-> 1, stages |-> <<1, 2, 3>>, scope |-> {1, 2},
      created |-> 3, bound |-> FALSE, capture |-> "not_applicable", ordinal |-> 0]}


\* The clients are interchangeable.
Interchangeable == Permutations(Clients)

=============================================================================
