-------------------------- MODULE RunLifecycleProofs --------------------------
(***************************************************************************)
(* What a reader of state.json may conclude from RunLifecycle alone, for   *)
(* any runs: whatever implements the lifecycle keeps these.                *)
(***************************************************************************)
EXTENDS RunLifecycle, Naturals, TLAPS

\* Who waits for the commander, or has heard from him, has an architect's verdict,
\* and who is approved has the one that allows it.
Judged == \A r \in Runs :
            /\ status[r] \in Decisions \union {"awaiting_commander"} => verdict[r] # "none"
            /\ status[r] = "approved" => verdict[r] = "pass"

\* How many moves a status is from the end.
MovesLeft(s) == CASE s = "none"               -> 6
                  [] s = "queued"             -> 5
                  [] s = "ideating"           -> 4
                  [] s = "researching"        -> 3
                  [] s = "architecting"       -> 2
                  [] s = "awaiting_commander" -> 1
                  [] OTHER                    -> 0

OneWay == \A r \in Runs : /\ status'[r] # status[r] => MovesLeft(status'[r]) < MovesLeft(status[r])
                          /\ verdict'[r] # verdict[r] => /\ verdict[r] = "none"
                                                        /\ status[r] = "architecting"

LifeInv == LifeTypeOK /\ Judged

LEMMA LifeStarts == LifeInit => LifeInv
  BY DEF LifeInit, LifeInv, LifeTypeOK, Judged, Statuses, Verdicts, Decisions

\* One move of one run.
LEMMA MoveInv ==
  ASSUME LifeInv, NEW r \in Runs, Advance(r) \/ Audit(r) \/ Decide(r) \/ Fail(r)
  PROVE  LifeInv' /\ OneWay
<1> USE DEF LifeInv, LifeTypeOK, Judged, OneWay, Move, MovesLeft, Statuses, Verdicts,
            Decisions, RunningStatuses
<1>1. CASE Advance(r)
  <2>1. \A s \in DOMAIN Successor :
           /\ Successor[s] \in Statuses \ (Decisions \union {"none"})
           /\ MovesLeft(Successor[s]) < MovesLeft(s)
           /\ Successor[s] = "awaiting_commander" => s = "architecting"
        BY DEF Successor
  <2>2. /\ status[r] \in DOMAIN Successor
        /\ status' = [status EXCEPT ![r] = Successor[status[r]]]
        /\ UNCHANGED verdict
        BY <1>1 DEF Advance
  <2>3. LifeInv' BY <1>1, <2>1, <2>2 DEF Advance
  <2>4. OneWay BY <2>1, <2>2
  <2> QED BY <2>3, <2>4
<1>2. CASE Audit(r)   BY <1>2 DEF Audit
<1>3. CASE Decide(r)  BY <1>3 DEF Decide
<1>4. CASE Fail(r)    BY <1>4 DEF Fail, Successor
<1> QED BY <1>1, <1>2, <1>3, <1>4

LEMMA LifeStep == LifeInv /\ [LifeNext]_lifeVars => LifeInv' /\ [OneWay]_lifeVars
<1> SUFFICES ASSUME LifeInv, [LifeNext]_lifeVars PROVE LifeInv' /\ [OneWay]_lifeVars OBVIOUS
<1>1. CASE LifeNext BY <1>1, MoveInv DEF LifeNext
<1>2. CASE UNCHANGED lifeVars
      BY <1>2 DEF lifeVars, LifeInv, LifeTypeOK, Judged
<1> QED BY <1>1, <1>2

LEMMA LifeInvariant == LifeSpec => []LifeInv
  BY LifeStarts, LifeStep, PTL DEF LifeSpec

\* Statuses and verdicts keep their types.
THEOREM LifeTypeCorrect == LifeSpec => []LifeTypeOK
<1>1. LifeInv => LifeTypeOK BY DEF LifeInv
<1> QED BY <1>1, LifeInvariant, PTL

\* gate.py: no decision without a verdict, no approval without APPROVED_FOR_BUILD.
THEOREM LifeIsJudged == LifeSpec => []Judged
<1>1. LifeInv => Judged BY DEF LifeInv
<1> QED BY <1>1, LifeInvariant, PTL

\* pipeline.py: no status comes back, a decision and an error are final, and a verdict
\* is given once, by the architect.
THEOREM LifeIsOneWay == LifeSpec => [][OneWay]_lifeVars
  BY LifeInvariant, LifeStep, PTL DEF LifeSpec
=============================================================================
