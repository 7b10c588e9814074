----------------------------- MODULE JobStreamMC -----------------------------
(***************************************************************************)
(* Small instances of JobStream: two turns without faults, the second      *)
(* while the first still has its text, its terminal event and live_state   *)
(* to write, and one turn with any of the faults.                          *)
(***************************************************************************)
EXTENDS JobStream

\* The outcome of a turn that does not come is of no interest.
BoundedInit ==
    /\ Init
    /\ faults # {} \/ outcome[1] # "waiting_for_user_input" =>
           \A t \in Turns \ {1} : outcome[t] = "waiting_for_user_input"

BoundedNext ==
    /\ Next
    /\ turn' # turn => faults = {} /\ stage[turn] = "done"

BoundedSpec == BoundedInit /\ [][BoundedNext]_vars /\ Fairness
=============================================================================
