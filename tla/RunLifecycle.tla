---------------------------- MODULE RunLifecycle ----------------------------
(***************************************************************************)
(* What a skunkworks run promises to whoever reads its state.json: the     *)
(* statuses it goes through, in order, and the one gate on the way out.    *)
(* Nothing here says which process writes the file or when; Skunkworks and *)
(* SkunkworksRun are shown to implement it.                                *)
(***************************************************************************)
CONSTANT Runs

VARIABLES status,   \* status[r]: RunStatus in r's state.json, "none" without one
          verdict   \* verdict[r]: the architect's, "none" until there is one

lifeVars == <<status, verdict>>

RunningStatuses == {"queued", "ideating", "researching", "architecting"}
Decisions       == {"approved", "rejected", "revise_requested"}
Statuses        == {"none", "awaiting_commander", "error"}
                     \union RunningStatuses \union Decisions

Verdicts == {"none", "pass", "fail"}   \* "pass" is APPROVED_FOR_BUILD

LifeTypeOK == /\ status  \in [Runs -> Statuses]
              /\ verdict \in [Runs -> Verdicts]

LifeInit == /\ status  = [r \in Runs |-> "none"]
            /\ verdict = [r \in Runs |-> "none"]

\* The next stage of a run that goes well.
Successor == [s \in {"none"} \union RunningStatuses |->
                CASE s = "none"         -> "queued"
                  [] s = "queued"       -> "ideating"
                  [] s = "ideating"     -> "researching"
                  [] s = "researching"  -> "architecting"
                  [] s = "architecting" -> "awaiting_commander"]

Move(r, s) == status' = [status EXCEPT ![r] = s]

Advance(r) == /\ status[r] \in DOMAIN Successor
              /\ status[r] = "architecting" => verdict[r] # "none"
              /\ Move(r, Successor[status[r]])
              /\ UNCHANGED verdict

Audit(r) == /\ status[r] = "architecting"
            /\ verdict[r] = "none"
            /\ \E v \in Verdicts \ {"none"} : verdict' = [verdict EXCEPT ![r] = v]
            /\ UNCHANGED status

\* A decision is taken once, on a run that waits for it, and APPROVED needs
\* the architect's APPROVED_FOR_BUILD.
Decide(r) == /\ status[r] = "awaiting_commander"
             /\ \E d \in Decisions : /\ d = "approved" => verdict[r] = "pass"
                                     /\ Move(r, d)
             /\ UNCHANGED verdict

\* A run can be lost up to the decision, never after it.  What the architect
\* said in the meantime may reach the file with the failure.
Fail(r) == /\ status[r] \in DOMAIN Successor \union {"awaiting_commander"}
           /\ Move(r, "error")
           /\ \/ UNCHANGED verdict
              \/ /\ status[r] = "architecting"
                 /\ verdict[r] = "none"
                 /\ \E v \in Verdicts : verdict' = [verdict EXCEPT ![r] = v]

LifeNext == \E r \in Runs : Advance(r) \/ Audit(r) \/ Decide(r) \/ Fail(r)

LifeSpec == LifeInit /\ [][LifeNext]_lifeVars
=============================================================================
