---------------------------- MODULE ControlledTest ----------------------------
(***************************************************************************)
(* What a session promises about its controlled tests: one is open at a    *)
(* time; it goes from its plan through A, B and A2 to a score, may be      *)
(* abandoned at any point before, and once closed stays as it is.  A score *)
(* may teach the P33 stream, in the same step, once.                       *)
(***************************************************************************)
CONSTANT Tests

VARIABLES
    status,   \* [Tests -> status]
    learned   \* tests whose experience was kept

Open == {"planned", "a_recorded", "b_recorded", "a2_recorded"}

Init ==
    /\ status \in [Tests -> Open \cup {"absent"}]
    /\ learned = {}

Move(test, from, to) == status[test] = from /\ status' = [status EXCEPT ![test] = to]

Plan(test) ==
    /\ \A other \in Tests : status[other] \notin Open
    /\ Move(test, "absent", "planned")
    /\ learned' = learned

Record(test) ==
    /\ \/ Move(test, "planned", "a_recorded")
       \/ Move(test, "a_recorded", "b_recorded")
       \/ Move(test, "b_recorded", "a2_recorded")
    /\ learned' = learned

Abandon(test) ==
    /\ status[test] \in Open
    /\ status' = [status EXCEPT ![test] = "cancelled"]
    /\ learned' = learned

Score(test) ==
    /\ Move(test, "a2_recorded", "scored")
    /\ learned' \in {learned, learned \cup {test}}

Next == \E test \in Tests : Plan(test) \/ Record(test) \/ Abandon(test) \/ Score(test)

Spec == Init /\ [][Next]_<<status, learned>>

=============================================================================
