----------------------------- MODULE Submissions ------------------------------
(***************************************************************************)
(* What the execution service promises a client that retries: a submission *)
(* of a session is one execution, which is accepted while no other of the  *)
(* session is active, is entered at most once and ends once.               *)
(***************************************************************************)
CONSTANTS Sessions, Submissions

VARIABLE phase      \* of each submission of each session

Ended == {"succeeded", "failed", "interrupted"}
Active(s, i) == phase[s][i] \in {"accepted", "running"}

PhasesInit == phase = [s \in Sessions |-> [i \in Submissions |-> "new"]]

Moves(s, i, to) == phase' = [phase EXCEPT ![s][i] = to]

Accepts(s, i) ==
    /\ phase[s][i] = "new"
    /\ \A j \in Submissions : ~Active(s, j)
    /\ Moves(s, i, "accepted")

Enters(s, i) == phase[s][i] = "accepted" /\ Moves(s, i, "running")

\* An input that was never entered did not succeed.
Ends(s, i) ==
    \/ phase[s][i] = "accepted" /\ \E to \in Ended \ {"succeeded"} : Moves(s, i, to)
    \/ phase[s][i] = "running" /\ \E to \in Ended : Moves(s, i, to)

PhasesNext ==
    \E s \in Sessions, i \in Submissions : Accepts(s, i) \/ Enters(s, i) \/ Ends(s, i)

SubmissionsSpec == PhasesInit /\ [][PhasesNext]_phase
=============================================================================
