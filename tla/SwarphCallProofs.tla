-------------------------- MODULE SwarphCallProofs --------------------------
(***************************************************************************)
(* Theorems about SwarphCall for any number of hooks of each kind, any     *)
(* place of the writer among them and any bill.                            *)
(***************************************************************************)
EXTENDS SwarphCall, TLAPS

(* The strengthening: what is known at each place of the call.             *)

\* The legs come back in order, and nothing is built before the first.
LegInv ==
  /\ \A l \in Legs : /\ ~legs[l].back => legs[l] = NoLeg
                     /\ legs[l].cost > 0 => legs[l].basis # "unknown"
  /\ legs[2].back => legs[1].back
  /\ at \in {"new", "pre", "dispatch", "onerror"} =>
       ~legs[1].back /\ row = NoRow
  /\ at = "retry" => legs[1].back /\ ~legs[2].back /\ row = NoRow
  /\ at \in {"post", "returned"} => legs[1].back

\* Whatever has come back is in the response.
SumInv ==
  at \in {"retry", "post", "returned"} =>
    /\ resp.tokens = Sum("tokens") /\ resp.cost = Sum("cost")
    /\ resp.thinking = None <=> \A l \in Legs : legs[l].thinking = None
    /\ resp.cost > 0 => resp.basis # "unknown"
    /\ (\A l \in Legs : legs[l].basis = "unknown") => resp.basis = "unknown"

\* What the harness has decided so far.
JudgeInv ==
  /\ at = "retry" => schema /\ resp.parsed = 0 /\ resp.error = "none"
  /\ at \in {"post", "returned"} =>
       /\ schema => (resp.parsed = 0 <=> resp.error # "none")
       /\ resp.parsed # 0 => /\ legs[resp.parsed].json
                             /\ \A l \in Legs : legs[l].back => l <= resp.parsed

\* Only a leg that was sent is billed, and one that was priced at its bill; its
\* files have not been tried to remove only while it is awaited.
WorkInv ==
  /\ \A l \in Legs : /\ work[l] = "none" => billed[l] = 0
                     /\ legs[l].back => work[l] = "done"
                     /\ legs[l].cost = IF legs[l].basis = "unknown" THEN 0 ELSE billed[l]
  /\ home[1] = "there" => at = "dispatch"
  /\ home[2] = "there" => at = "retry"
  /\ at \in {"new", "pre", "dispatch", "onerror"} => work[2] = "none"
  /\ at \in {"post", "returned"} =>
       work[2] = "none" \/ legs[2].back \/ resp.error = "retry_failed"

\* The hooks run from the first to the last.
HookInv ==
  /\ at \in {"dispatch", "retry"} => hook = 1
  /\ at \in {"new", "pre", "dispatch"} => told = 0
  /\ at = "onerror" => told = hook - 1 /\ hook <= ErrorHooks + 1
  /\ told <= ErrorHooks
  /\ at \in {"post", "returned"} =>
       /\ row # NoRow => row = resp
       /\ Writer # 0 /\ hook > Writer => row = resp \/ failed
  /\ at = "returned" => hook > PostHooks

CallInv == /\ CallTypeOK /\ LegInv /\ SumInv /\ JudgeInv /\ WorkInv /\ HookInv
           /\ RowIsTotal /\ ErrorsTold

-----------------------------------------------------------------------------
\* Initially nothing has been sent.
LEMMA CallInit == Init => CallInv
<1> SUFFICES ASSUME Init PROVE CallInv
  OBVIOUS
<1> USE CallAssumption DEF Init, Legs, Places, Ended
<1>1. NoLeg \in Leg /\ NoLeg.cost = 0 /\ ~NoLeg.back
  BY DEF NoLeg, Leg, Opt, None, Bases
<1>2. NoResp \in Resp
  BY DEF NoResp, Resp, Opt, None, Bases
<1>3. CallTypeOK
  <2>1. kind \in Kinds /\ timed \in BOOLEAN /\ schema \in BOOLEAN /\ failed \in BOOLEAN
    OBVIOUS
  <2>2. at \in Places /\ hook \in Nat /\ told \in Nat /\ why = "none"
    OBVIOUS
  <2>3. /\ work \in [Legs -> {"none", "running", "done"}]
        /\ billed \in [Legs -> Nat] /\ home \in [Legs -> Homes]
        /\ legs \in [Legs -> Leg]
    BY <1>1 DEF Homes
  <2> QED BY <1>2, <2>1, <2>2, <2>3 DEF CallTypeOK
<1>4. LegInv /\ SumInv /\ JudgeInv
  BY <1>1 DEF LegInv, SumInv, JudgeInv
<1>5. WorkInv /\ HookInv
  BY <1>1 DEF WorkInv, HookInv, NoLeg
<1>6. RowIsTotal /\ ErrorsTold
  BY DEF RowIsTotal, ErrorsTold
<1> QED BY <1>3, <1>4, <1>5, <1>6 DEF CallInv

\* A row that was not written is none that the call could have built.
LEMMA NoRowDiffers == \A r \in Resp : r # NoRow
  BY DEF Resp, NoRow, NoResp

\* What an adapter says has its type, and its cost is the bill if it has a basis
\* and nothing if it has none.
LEMMA AnswerTypes ==
  ASSUME NEW n \in Nat, kind \in Kinds, NEW a \in Answers(n)
  PROVE  /\ a.tokens \in Nat /\ a.thinking \in Opt /\ a.cost \in Nat /\ a.basis \in Bases
         /\ a.cost = IF a.basis = "unknown" THEN 0 ELSE n
<1> USE DEF Opt, None, Bases
<1>1. CASE kind = "metered" BY <1>1 DEF Answers, MeteredAnswers
<1>2. CASE kind = "list"    BY <1>2 DEF Answers, ListAnswers
<1>3. CASE kind = "tokens"  BY <1>3 DEF Answers, TokenAnswers
<1>4. CASE kind = "text"    BY <1>4 DEF Answers, TextAnswers
<1> QED BY <1>1, <1>2, <1>3, <1>4 DEF Kinds

\* Files that were there are gone or left; there were none otherwise.
LEMMA Cleaned ==
  ASSUME home \in [Legs -> Homes], NEW l \in Legs, CleanUp(l)
  PROVE  /\ home' \in [Legs -> Homes] /\ home'[l] # "there"
         /\ \A k \in Legs : k # l => home'[k] = home[k]
  BY DEF CleanUp, Removed, Homes

\* Hooks, and what ends the call, leave the legs and the response alone.
LEMMA HookSteps ==
  ASSUME CallInv, Resolve \/ PreHook \/ ErrorHook \/ Reraise \/ OtherHook \/ Return
  PROVE  CallInv'
<1> USE CallAssumption
    DEF CallInv, CallTypeOK, LegInv, SumInv, Sum, JudgeInv, WorkInv, HookInv, RowIsTotal,
        ErrorsTold, Places, Ended, Legs, askVars, legVars, outVars, Leave
<1>1. CASE Resolve   BY <1>1 DEF Resolve
<1>2. CASE PreHook   BY <1>2 DEF PreHook
<1>3. CASE ErrorHook BY <1>3 DEF ErrorHook
<1>4. CASE Reraise   BY <1>4 DEF Reraise
<1>5. CASE OtherHook BY <1>5 DEF OtherHook
<1>6. CASE Return    BY <1>6 DEF Return
<1> QED BY <1>1, <1>2, <1>3, <1>4, <1>5, <1>6

\* Giving up on the first leg, and the exception of the second.
LEMMA FailSteps ==
  ASSUME CallInv, AdapterRaises \/ TimesOut \/ CancelDispatch \/ CancelRetry \/ RetryRaises
  PROVE  CallInv'
<1> USE CallAssumption
    DEF CallInv, CallTypeOK, LegInv, SumInv, Sum, JudgeInv, WorkInv, HookInv, RowIsTotal,
        ErrorsTold, Places, Ended, Legs, askVars, legVars, outVars, Leave, ToOnError, Resp
<1>1. CASE AdapterRaises  BY <1>1, Cleaned DEF AdapterRaises
<1>2. CASE TimesOut       BY <1>2, Cleaned DEF TimesOut
<1>3. CASE CancelDispatch BY <1>3, Cleaned DEF CancelDispatch
<1>4. CASE CancelRetry    BY <1>4, Cleaned DEF CancelRetry
<1>5. CASE RetryRaises    BY <1>5, Cleaned DEF RetryRaises
<1> QED BY <1>1, <1>2, <1>3, <1>4, <1>5

LEMMA OtherSteps ==
  ASSUME CallInv, Dispatch \/ WorkDone \/ Write \/ CancelInHook
  PROVE  CallInv'
<1> USE CallAssumption
    DEF CallInv, CallTypeOK, LegInv, SumInv, Sum, JudgeInv, WorkInv, HookInv, RowIsTotal,
        ErrorsTold, Places, Ended, Legs, askVars, legVars, outVars, Leave
<1>1. CASE Dispatch     BY <1>1 DEF Dispatch, Send, Files, Homes
<1>2. CASE WorkDone     BY <1>2 DEF WorkDone, NoLeg
<1>3. CASE Write
  <2> USE <1>3 DEF Write
  <2>3. (row' = resp /\ failed' = failed) \/ (failed' = TRUE /\ row' = row) OBVIOUS
  <2>1. CallTypeOK'
    <3>1. CASE row' = resp /\ failed' = failed BY <3>1
    <3>2. CASE failed' = TRUE /\ row' = row BY <3>2
    <3> QED BY <2>3, <3>1, <3>2
  <2>2. LegInv' /\ SumInv' /\ JudgeInv' /\ WorkInv' OBVIOUS
  <2>4. HookInv'
    <3>1. CASE row' = resp BY <3>1
    <3>2. CASE failed' = TRUE /\ row' = row BY <3>2
    <3> QED BY <2>3, <3>1, <3>2
  <2>5. RowIsTotal' BY <2>3
  <2>6. ErrorsTold' OBVIOUS
  <2> QED BY <2>1, <2>2, <2>4, <2>5, <2>6
<1>4. CASE CancelInHook BY <1>4, NoRowDiffers DEF CancelInHook
<1> QED BY <1>1, <1>2, <1>3, <1>4

\* What a leg that came back looks like.
LEMMA ReceivedLeg ==
  ASSUME CallTypeOK, NEW l \in Legs, NEW n \in Nat, NEW a \in Answers(n),
         NEW good \in BOOLEAN, Received(l, a, good)
  PROVE  /\ legs' \in [Legs -> Leg]
         /\ \A k \in Legs : k # l => legs'[k] = legs[k]
         /\ legs'[l].back /\ legs'[l].json = good
         /\ legs'[l].tokens = a.tokens /\ legs'[l].cost = a.cost
         /\ legs'[l].thinking = a.thinking /\ legs'[l].basis = a.basis
<1> DEFINE L == [back |-> TRUE, tokens |-> a.tokens, thinking |-> a.thinking,
                 cost |-> a.cost, basis |-> a.basis, json |-> good]
<1>1. L \in Leg
  <2>1. kind \in Kinds BY DEF CallTypeOK
  <2> QED BY <2>1, AnswerTypes DEF Leg
<1>2. legs \in [Legs -> Leg] /\ legs' = [legs EXCEPT ![l] = L]
  BY DEF CallTypeOK, Received
<1> QED BY <1>1, <1>2

\* The response is the first answer.
LEMMA AnsweredStep ==
  ASSUME CallInv, Answered
  PROVE  CallInv'
<1> USE CallAssumption DEF CallInv, Legs
<1>1. PICK a \in Answers(billed[1]), good \in BOOLEAN :
         /\ Received(1, a, good)
         /\ IF schema /\ ~good
              THEN /\ resp' = RespOf(a, 0)
                   /\ at' = "retry"
                   /\ work' = [work EXCEPT ![2] = "running"]
                   /\ \E f \in Removed(home[1]) :
                        home' = [home EXCEPT ![1] = f, ![2] = Files]
              ELSE /\ resp' = RespOf(a, IF schema THEN 1 ELSE 0)
                   /\ at' = "post"
                   /\ CleanUp(1)
                   /\ UNCHANGED work
  BY DEF Answered
<1>2. /\ at = "dispatch" /\ work[1] = "done"
      /\ UNCHANGED <<kind, timed, schema, hook, told, billed, row, failed, why>>
  BY DEF Answered, askVars
<1>3. billed[1] \in Nat /\ kind \in Kinds /\ CallTypeOK
  BY DEF CallTypeOK
<1>4. /\ a.tokens \in Nat /\ a.thinking \in Opt /\ a.cost \in Nat /\ a.basis \in Bases
      /\ a.cost = IF a.basis = "unknown" THEN 0 ELSE billed[1]
  BY <1>3, AnswerTypes
<1>5. /\ legs' \in [Legs -> Leg] /\ legs'[2] = legs[2]
      /\ legs'[1].back /\ legs'[1].json = good
      /\ legs'[1].tokens = a.tokens /\ legs'[1].cost = a.cost
      /\ legs'[1].thinking = a.thinking /\ legs'[1].basis = a.basis
  BY <1>1, <1>3, ReceivedLeg
<1>6. legs[2] = NoLeg /\ row = NoRow /\ ~legs[2].back /\ hook = 1 /\ told = 0
  BY <1>2 DEF LegInv, HookInv, NoLeg
<1>7. /\ legs'[2].tokens = 0 /\ legs'[2].cost = 0 /\ legs'[2].thinking = None
      /\ ~legs'[2].back
  BY <1>5, <1>6 DEF NoLeg
<1>8. CASE schema /\ ~good
  <2> USE <1>8
  <2>1. /\ resp' = RespOf(a, 0) /\ at' = "retry"
        /\ work' = [work EXCEPT ![2] = "running"]
        /\ \E f \in Removed(home[1]) : home' = [home EXCEPT ![1] = f, ![2] = Files]
    BY <1>1
  <2>2. CallTypeOK'
    <3>1. resp' \in Resp BY <1>4, <2>1 DEF RespOf, Resp
    <3>2. Files \in Homes /\ Removed(home[1]) \subseteq Homes
          BY <1>3 DEF Files, Homes, Removed, CallTypeOK
    <3>3. work' \in [Legs -> {"none", "running", "done"}] BY <1>3, <2>1 DEF CallTypeOK
    <3>4. home' \in [Legs -> Homes] BY <1>3, <2>1, <3>2 DEF CallTypeOK
    <3> QED BY <1>2, <1>3, <1>5, <2>1, <3>1, <3>3, <3>4 DEF CallTypeOK, Places
  <2>3. LegInv' BY <1>2, <1>4, <1>5, <1>6, <1>7, <2>1 DEF LegInv, Leg
  <2>4. SumInv' BY <1>4, <1>5, <1>7, <2>1 DEF SumInv, Sum, RespOf, Opt
  <2>5. JudgeInv' BY <1>2, <2>1 DEF JudgeInv, RespOf
  <2>6. WorkInv'
    <3>1. home'[1] # "there" BY <1>3, <2>1 DEF Removed, CallTypeOK
    <3>2. /\ work'[1] = "done" /\ work'[2] = "running"
          BY <1>2, <1>3, <2>1 DEF CallTypeOK
    <3>3. \A l \in Legs : /\ work'[l] = "none" => billed'[l] = 0
                          /\ legs'[l].back => work'[l] = "done"
                          /\ legs'[l].cost = IF legs'[l].basis = "unknown" THEN 0 ELSE billed'[l]
          BY <1>2, <1>4, <1>5, <1>6, <1>7, <3>2 DEF NoLeg
    <3>4. at' = "retry" BY <2>1
    <3>5. /\ home'[1] = "there" => at' = "dispatch"
          /\ home'[2] = "there" => at' = "retry"
          /\ at' \notin {"new", "pre", "dispatch", "onerror", "post", "returned"}
          BY <3>1, <3>4
    <3> QED BY <3>3, <3>5 DEF WorkInv
  <2>7. HookInv' BY <1>2, <1>6, <2>1 DEF HookInv
  <2>8. RowIsTotal' /\ ErrorsTold' BY <1>2, <1>6, <2>1 DEF RowIsTotal, ErrorsTold
  <2> QED BY <2>2, <2>3, <2>4, <2>5, <2>6, <2>7, <2>8
<1>9. CASE ~(schema /\ ~good)
  <2> USE <1>9
  <2>1. /\ resp' = RespOf(a, IF schema THEN 1 ELSE 0) /\ at' = "post"
        /\ home' \in [Legs -> Homes] /\ home'[1] # "there" /\ home'[2] = home[2]
        /\ work' = work
    BY <1>1, <1>3, Cleaned DEF CallTypeOK
  <2>2. CallTypeOK'
    BY <1>2, <1>3, <1>4, <1>5, <2>1 DEF CallTypeOK, RespOf, Resp, Places
  <2>3. LegInv' BY <1>2, <1>4, <1>5, <1>6, <1>7, <2>1 DEF LegInv, Leg
  <2>4. SumInv' BY <1>4, <1>5, <1>7, <2>1 DEF SumInv, Sum, RespOf, Opt
  <2>5. JudgeInv' BY <1>2, <1>5, <1>7, <2>1 DEF JudgeInv, RespOf
  <2>6. WorkInv' BY <1>2, <1>3, <1>4, <1>5, <1>6, <1>7, <2>1 DEF WorkInv, CallTypeOK, NoLeg
  <2>7. HookInv' BY <1>2, <1>6, <2>1 DEF HookInv
  <2>8. RowIsTotal' /\ ErrorsTold' BY <1>2, <1>6, <2>1 DEF RowIsTotal, ErrorsTold
  <2> QED BY <2>2, <2>3, <2>4, <2>5, <2>6, <2>7, <2>8
<1> QED BY <1>8, <1>9

\* The fold adds up, keeps what was reported and takes over a known basis.
LEMMA FoldOf ==
  ASSUME NEW r \in Resp, NEW a,
         a.tokens \in Nat, a.thinking \in Opt, a.cost \in Nat, a.basis \in Bases
  PROVE  /\ Fold(r, a) \in Resp
         /\ Fold(r, a).tokens = r.tokens + a.tokens /\ Fold(r, a).cost = r.cost + a.cost
         /\ Fold(r, a).thinking = SumOpt(r.thinking, a.thinking)
         /\ Fold(r, a).basis = IF r.basis = "unknown" THEN a.basis ELSE r.basis
<1>1. r.tokens + a.tokens \in Nat /\ r.cost + a.cost \in Nat
  BY DEF Resp
<1>2. SumOpt(r.thinking, a.thinking) \in Opt
  BY DEF SumOpt, Opt, None, Resp
<1>3. (IF r.basis = "unknown" THEN a.basis ELSE r.basis) \in Bases
  BY DEF Resp
<1> QED BY <1>1, <1>2, <1>3 DEF Fold, Resp

\* The verdict of the harness changes what was parsed and the class only.
LEMMA JudgeOf ==
  ASSUME NEW r \in Resp, NEW good \in BOOLEAN
  PROVE  /\ Judge(r, good) \in Resp
         /\ Judge(r, good).tokens = r.tokens /\ Judge(r, good).cost = r.cost
         /\ Judge(r, good).thinking = r.thinking /\ Judge(r, good).basis = r.basis
         /\ Judge(r, good).parsed = IF good THEN 2 ELSE 0
         /\ Judge(r, good).error = IF good THEN "none" ELSE "malformed_json"
<1> DEFINE p == IF good THEN 2 ELSE 0
           e == IF good THEN "none" ELSE "malformed_json"
<1>1. p \in 0..2 /\ e \in {"none", "malformed_json", "retry_failed"}
  OBVIOUS
<1>2. Judge(r, good) = [r EXCEPT !.parsed = p, !.error = e]
  BY DEF Judge
<1> HIDE DEF p, e
<1>3. Judge(r, good) = [tokens |-> r.tokens, thinking |-> r.thinking, cost |-> r.cost,
                        basis |-> r.basis, parsed |-> p, error |-> e]
  BY <1>2 DEF Resp
<1>4. Judge(r, good) \in Resp
  BY <1>1, <1>3 DEF Resp
<1> QED BY <1>3, <1>4 DEF p, e

\* The second answer is added to the first.
LEMMA RetryAnsweredStep ==
  ASSUME CallInv, RetryAnswered
  PROVE  CallInv'
<1> USE CallAssumption DEF CallInv, Legs
<1>1. PICK a \in Answers(billed[2]), good \in BOOLEAN :
         Received(2, a, good) /\ resp' = Judge(Fold(resp, a), good)
  BY DEF RetryAnswered
<1>2. /\ at = "retry" /\ at' = "post" /\ work[2] = "done" /\ work' = work
      /\ home' \in [Legs -> Homes] /\ home'[2] # "there" /\ home'[1] = home[1]
      /\ UNCHANGED <<kind, timed, schema, hook, told, billed, row, failed, why>>
  BY Cleaned DEF RetryAnswered, askVars, CallTypeOK
<1>3. billed[2] \in Nat /\ kind \in Kinds /\ CallTypeOK /\ resp \in Resp
  BY DEF CallTypeOK
<1>4. /\ a.tokens \in Nat /\ a.thinking \in Opt /\ a.cost \in Nat /\ a.basis \in Bases
      /\ a.cost = IF a.basis = "unknown" THEN 0 ELSE billed[2]
  BY <1>3, AnswerTypes
<1>5. /\ legs' \in [Legs -> Leg] /\ legs'[1] = legs[1]
      /\ legs'[2].back /\ legs'[2].json = good
      /\ legs'[2].tokens = a.tokens /\ legs'[2].cost = a.cost
      /\ legs'[2].thinking = a.thinking /\ legs'[2].basis = a.basis
  BY <1>1, <1>3, ReceivedLeg
<1>6. /\ legs[1].back /\ legs[2] = NoLeg /\ row = NoRow /\ hook = 1
      /\ schema /\ resp.parsed = 0 /\ resp.error = "none"
  BY <1>2 DEF LegInv, HookInv, JudgeInv
<1>7. /\ resp.tokens = legs[1].tokens /\ resp.cost = legs[1].cost
      /\ resp.thinking = None <=> legs[1].thinking = None
      /\ resp.cost > 0 => resp.basis # "unknown"
      /\ legs[1].basis = "unknown" => resp.basis = "unknown"
  BY <1>2, <1>3, <1>6 DEF SumInv, Sum, NoLeg, CallTypeOK, Leg
<1>8. /\ resp'.tokens = resp.tokens + a.tokens /\ resp'.cost = resp.cost + a.cost
      /\ resp'.thinking = SumOpt(resp.thinking, a.thinking)
      /\ resp'.basis = IF resp.basis = "unknown" THEN a.basis ELSE resp.basis
      /\ resp'.parsed = IF good THEN 2 ELSE 0
      /\ resp'.error = IF good THEN "none" ELSE "malformed_json"
      /\ resp' \in Resp
  <2>1. /\ Fold(resp, a) \in Resp
        /\ Fold(resp, a).tokens = resp.tokens + a.tokens
        /\ Fold(resp, a).cost = resp.cost + a.cost
        /\ Fold(resp, a).thinking = SumOpt(resp.thinking, a.thinking)
        /\ Fold(resp, a).basis = IF resp.basis = "unknown" THEN a.basis ELSE resp.basis
    BY <1>3, <1>4, FoldOf
  <2> QED BY <1>1, <2>1, JudgeOf
<1>9. resp'.thinking = None <=> resp.thinking = None /\ a.thinking = None
  BY <1>3, <1>4, <1>8 DEF SumOpt, Resp, Opt, None
<1>10. CallTypeOK'
  BY <1>2, <1>3, <1>5, <1>8 DEF CallTypeOK, Places
<1>11. LegInv' BY <1>2, <1>4, <1>5, <1>6 DEF LegInv
<1>12. SumInv'
  <2>1. resp'.tokens = legs'[1].tokens + legs'[2].tokens BY <1>5, <1>7, <1>8
  <2>2. resp'.cost = legs'[1].cost + legs'[2].cost BY <1>5, <1>7, <1>8
  <2>3. resp'.thinking = None <=> \A l \in Legs : legs'[l].thinking = None
    BY <1>5, <1>7, <1>9
  <2>4. resp'.cost > 0 => resp'.basis # "unknown"
    BY <1>3, <1>4, <1>7, <1>8 DEF Resp
  <2>5. (\A l \in Legs : legs'[l].basis = "unknown") => resp'.basis = "unknown"
    BY <1>5, <1>7, <1>8
  <2> QED BY <2>1, <2>2, <2>3, <2>4, <2>5 DEF SumInv, Sum
<1>13. JudgeInv' BY <1>2, <1>5, <1>8 DEF JudgeInv
<1>14. WorkInv' BY <1>2, <1>3, <1>4, <1>5 DEF WorkInv, CallTypeOK
<1>15. HookInv' BY <1>2, <1>6 DEF HookInv
<1>16. RowIsTotal' /\ ErrorsTold' BY <1>2, <1>6 DEF RowIsTotal, ErrorsTold
<1> QED BY <1>10, <1>11, <1>12, <1>13, <1>14, <1>15, <1>16

\* Every step keeps the invariant.
LEMMA CallStep == CallInv /\ [Next]_vars => CallInv'
<1> SUFFICES ASSUME CallInv, [Next]_vars PROVE CallInv'
  OBVIOUS
<1>1. CASE UNCHANGED vars
  BY <1>1 DEF vars, askVars, legVars, outVars, CallInv, CallTypeOK, LegInv, SumInv, Sum,
              JudgeInv, WorkInv, HookInv, RowIsTotal, ErrorsTold
<1>2. CASE Next
  BY <1>2, HookSteps, FailSteps, OtherSteps, AnsweredStep, RetryAnsweredStep
  DEF Next, Task, Cancel
<1> QED BY <1>1, <1>2

-----------------------------------------------------------------------------
(* What the invariant says of a call, step by step and at its end.         *)

\* The strengthening holds in every reachable state.
THEOREM CallInvariant == Spec => []CallInv
  BY CallInit, CallStep, PTL DEF Spec

\* swarph_call.py, json_harness.py: every variable keeps its type; the row that
\* is written is a response the call has built.
THEOREM CallTypeCorrect == Spec => []CallTypeOK
<1>1. CallInv => CallTypeOK BY DEF CallInv
<1> QED BY <1>1, CallInvariant, PTL

\* swarph_call.py fold: whatever the two legs reported, the row has the tokens
\* and the cost of both, and no cost beside "unknown".
THEOREM RowsAreTotal == Spec => []RowIsTotal
<1>1. CallInv => RowIsTotal BY DEF CallInv
<1> QED BY <1>1, CallInvariant, PTL

\* swarph_call.py, json_harness.py: with any bills and any reports of them, the
\* cost of a returned call is the bill of its priced legs, and it tells of every
\* other bill but one that the fold hides behind a priced leg.
THEOREM UndercountsAreVisible == Spec => []UndercountVisible
<1>1. CallInv => UndercountVisible
  <2> SUFFICES ASSUME CallInv, at = "returned" PROVE UndercountVisible
      BY DEF UndercountVisible
  <2>1. resp.cost = legs[1].cost + legs[2].cost BY DEF CallInv, SumInv, Sum
  <2>2. \A l \in Legs : legs[l].cost = IF legs[l].basis = "unknown" THEN 0 ELSE billed[l]
        BY DEF CallInv, WorkInv
  <2>3. ASSUME NEW l \in Legs, billed[l] > 0, legs[l].basis = "unknown", ~Flagged
        PROVE  Hidden(l)
    <3>1. legs[1].back BY DEF CallInv, LegInv
    <3>2. legs[l].back
      <4>1. l = 2 => work[2] # "none" BY <2>3 DEF CallInv, WorkInv
      <4> QED BY <2>3, <3>1, <4>1 DEF CallInv, WorkInv, Flagged, Legs
    <3>3. PICK m \in Legs : legs[m].basis # "unknown"
          BY <2>3 DEF CallInv, SumInv, Flagged
    <3>4. legs[m].back BY <3>3 DEF CallInv, LegInv, NoLeg
    <3> QED BY <2>3, <3>2, <3>3, <3>4 DEF Hidden
  <2> QED BY <2>1, <2>2, <2>3 DEF UndercountVisible, Legs
<1> QED BY <1>1, CallInvariant, PTL

\* The post_call loop: with any number of hooks, wherever the writer stands
\* among them, a call that returns has its row or its writer failed.
THEOREM ReturnedCallsAreAttributed == Spec => []ReturnedAttributed
<1>1. CallInv => ReturnedAttributed
  BY CallAssumption DEF CallInv, CallTypeOK, HookInv, ReturnedAttributed
<1> QED BY <1>1, CallInvariant, PTL

\* parse_with_retry: a call with a schema returns what it parsed, of the last
\* leg that came back, or an error_class.
THEOREM AlwaysParsedOrClassified == Spec => []ParsedOrClassified
<1>1. CallInv => ParsedOrClassified
  BY DEF CallInv, JudgeInv, ParsedOrClassified
<1> QED BY <1>1, CallInvariant, PTL

\* The on_error loop tells each hook once, however many there are.
THEOREM ErrorsAreTold == Spec => []ErrorsTold
<1>1. CallInv => ErrorsTold BY DEF CallInv
<1> QED BY <1>1, CallInvariant, PTL

\* The finally of the text CLIs: whatever ends the call, at any hook or leg, no
\* file of it lies there that was not tried to remove.
THEOREM CleanUpIsTried == Spec => []CleanUpTried
<1>1. CallInv => CleanUpTried BY DEF CallInv, WorkInv, CleanUpTried, Ended, Legs
<1> QED BY <1>1, CallInvariant, PTL

-----------------------------------------------------------------------------
(* Progress.  TimedCallEnds needs fairness and stays with TLC; what makes  *)
(* it true is that every hook has one turn and every leg one answer.  A    *)
(* call that does not end is one whose provider does not answer.           *)

\* Within the loops over the hooks the turn is inside the loop or just past it.
TurnInv ==
  /\ at = "new"  => hook = 1
  /\ at = "pre"  => hook \in 1..(PreHooks + 1)
  /\ at = "post" => hook \in 1..(PostHooks + 1)

\* What the call has left to do: the turns of the loop it is in, and what may
\* come after.
StepsLeft ==
  CASE at = "new"      -> 5 + PreHooks + ErrorHooks + PostHooks
    [] at = "pre"      -> 5 + PreHooks + ErrorHooks + PostHooks - hook
    [] at = "dispatch" -> 3 + ErrorHooks + PostHooks
    [] at = "onerror"  -> 2 + ErrorHooks - hook
    [] at = "retry"    -> 2 + PostHooks
    [] at = "post"     -> 2 + PostHooks - hook
    [] at \in Ended    -> 0

CountsDown == /\ StepsLeft \in 0..(5 + PreHooks + ErrorHooks + PostHooks)
              /\ StepsLeft = 0 <=> at \in Ended

\* All that the call does itself, and what a provider does.
StepCounts == /\ Task \/ AdapterRaises \/ RetryRaises \/ Cancel => StepsLeft' < StepsLeft
              /\ WorkDone => StepsLeft' = StepsLeft

LEMMA TurnInit == Init => TurnInv
  BY CallAssumption DEF Init, TurnInv

LEMMA TurnStep == CallInv /\ TurnInv /\ [Next]_vars => TurnInv'
<1> SUFFICES ASSUME CallInv, TurnInv, [Next]_vars PROVE TurnInv' OBVIOUS
<1>0. hook \in Nat /\ {PreHooks, ErrorHooks, PostHooks} \subseteq Nat
      BY CallAssumption DEF CallInv, CallTypeOK
<1> USE <1>0 DEF TurnInv, Leave, ToOnError, Send
<1>1. CASE Resolve BY <1>1 DEF Resolve
<1>2. CASE PreHook BY <1>2 DEF PreHook
<1>3. CASE Dispatch \/ ErrorHook \/ Reraise \/ Return
      BY <1>3 DEF Dispatch, ErrorHook, Reraise, Return
<1>4. CASE Answered \/ RetryAnswered \/ RetryRaises
  <2>1. at \in {"dispatch", "retry"} /\ at' \in {"retry", "post"} /\ hook' = hook
        BY <1>4 DEF Answered, RetryAnswered, RetryRaises
  <2> QED BY <2>1 DEF CallInv, HookInv
<1>5. CASE TimesOut \/ AdapterRaises \/ Cancel
      BY <1>5 DEF TimesOut, AdapterRaises, Cancel, CancelInHook, CancelDispatch, CancelRetry
<1>6. CASE OtherHook BY <1>6 DEF OtherHook
<1>7. CASE Write
  <2>1. hook <= PostHooks BY <1>7, CallAssumption DEF Write
  <2> QED BY <1>7, <2>1 DEF Write
<1>8. CASE WorkDone \/ UNCHANGED vars BY <1>8 DEF WorkDone, vars
<1> QED BY <1>1, <1>2, <1>3, <1>4, <1>5, <1>6, <1>7, <1>8 DEF Next, Task

LEMMA Measured == CallInv /\ TurnInv => CountsDown
<1> SUFFICES ASSUME CallInv, TurnInv PROVE CountsDown OBVIOUS
<1>1. /\ hook \in Nat /\ PreHooks \in Nat /\ ErrorHooks \in Nat /\ PostHooks \in Nat
      /\ at \in Places
      BY CallAssumption DEF CallInv, CallTypeOK
<1>2. at = "onerror" => hook <= ErrorHooks + 1 BY DEF CallInv, HookInv
<1> DEFINE Most == 5 + PreHooks + ErrorHooks + PostHooks
<1>3. CASE at \in Ended
  <2>1. StepsLeft = 0 BY <1>3 DEF StepsLeft, Ended
  <2>2. 0 \in 0..Most BY <1>1
  <2> QED BY <1>3, <2>1, <2>2 DEF CountsDown
<1>4. CASE at \notin Ended
  <2>1. StepsLeft \in 1..Most
    <3>1. CASE at \in {"new", "pre"}
      <4>1. hook \in 1..(PreHooks + 1) BY <1>1, <3>1 DEF TurnInv
      <4>2. StepsLeft \in {Most, Most - hook} BY <1>1, <3>1 DEF StepsLeft, Ended
      <4> QED BY <1>1, <4>1, <4>2
    <3>2. CASE at \in {"dispatch", "retry"}
      <4>1. StepsLeft \in {3 + ErrorHooks + PostHooks, 2 + PostHooks} BY <1>1, <3>2 DEF StepsLeft, Ended
      <4> QED BY <1>1, <4>1
    <3>3. CASE at = "onerror"
      <4>1. StepsLeft = 2 + ErrorHooks - hook BY <1>1, <3>3 DEF StepsLeft, Ended
      <4> QED BY <1>1, <1>2, <3>3, <4>1
    <3>4. CASE at = "post"
      <4>1. StepsLeft = 2 + PostHooks - hook BY <1>1, <3>4 DEF StepsLeft, Ended
      <4> QED BY <1>1, <3>4, <4>1 DEF TurnInv
    <3> QED BY <1>1, <1>4, <3>1, <3>2, <3>3, <3>4 DEF Places
  <2> HIDE DEF Most
  <2>2. StepsLeft \in 0..Most /\ StepsLeft # 0 BY <2>1, <1>1 DEF Most
  <2> QED BY <1>4, <2>2 DEF CountsDown, Most
<1> QED BY <1>3, <1>4

\* Every turn of a hook is one turn less, and every way out of a leg leads on.
LEMMA CallCounts ==
  ASSUME CallInv, TurnInv, Task \/ AdapterRaises \/ RetryRaises \/ Cancel
  PROVE  StepsLeft' < StepsLeft
<1>1. /\ hook \in Nat /\ PreHooks \in Nat /\ ErrorHooks \in Nat /\ PostHooks \in Nat
      BY CallAssumption DEF CallInv, CallTypeOK
<1>2. at \in {"dispatch", "retry"} => hook = 1 BY DEF CallInv, HookInv
<1> USE DEF StepsLeft, Leave, ToOnError, TurnInv, Ended
<1>3. CASE Resolve   BY <1>1, <1>3 DEF Resolve
<1>4. CASE PreHook   BY <1>1, <1>4 DEF PreHook
<1>5. CASE Dispatch  BY <1>1, <1>5 DEF Dispatch
<1>6. CASE Answered
  <2>1. at = "dispatch" /\ at' \in {"retry", "post"} /\ hook' = hook BY <1>6 DEF Answered
  <2> QED BY <1>1, <1>2, <2>1
<1>7. CASE TimesOut \/ AdapterRaises \/ CancelDispatch
  <2>1. at = "dispatch" /\ at' = "onerror" /\ hook' = hook
        BY <1>7 DEF TimesOut, AdapterRaises, CancelDispatch
  <2> QED BY <1>1, <1>2, <2>1
<1>8. CASE ErrorHook BY <1>1, <1>8 DEF ErrorHook
<1>9. CASE Reraise
  <2>1. hook <= ErrorHooks + 1 BY <1>9 DEF Reraise, CallInv, HookInv
  <2> QED BY <1>1, <1>9, <2>1 DEF Reraise
<1>10. CASE RetryAnswered \/ RetryRaises
  <2>1. at = "retry" /\ at' = "post" /\ hook' = hook BY <1>10 DEF RetryAnswered, RetryRaises
  <2> QED BY <1>1, <1>2, <2>1
<1>11. CASE OtherHook BY <1>1, <1>11 DEF OtherHook
<1>12. CASE Write     BY <1>1, <1>12 DEF Write
<1>13. CASE Return    BY <1>1, <1>13 DEF Return
<1>14. CASE CancelInHook \/ CancelRetry
  <2>1. at \in {"pre", "onerror", "post", "retry"} /\ at' = "raised"
        BY <1>14 DEF CancelInHook, CancelRetry
  <2>2. StepsLeft' = 0 BY <2>1
  <2>3. StepsLeft \in Nat \ {0} BY <2>1, Measured, CallAssumption DEF CountsDown
  <2> HIDE DEF StepsLeft
  <2> QED BY <2>2, <2>3
<1> QED BY <1>3, <1>4, <1>5, <1>6, <1>7, <1>8, <1>9, <1>10, <1>11, <1>12, <1>13, <1>14
        DEF Task, Cancel

LEMMA TurnsHold == Spec => []TurnInv
  BY TurnInit, TurnStep, CallInvariant, PTL DEF Spec

\* For any number of hooks a call has at most five steps to make and one for each
\* hook, and none left exactly when it has returned or raised.
THEOREM CallIsBounded == Spec => []CountsDown
  BY TurnsHold, CallInvariant, Measured, PTL

\* Whatever the call does, is told or suffers brings it nearer to its end, and what
\* the provider does changes nothing: only waiting for a provider can be for ever.
THEOREM EveryStepCounts == Spec => [][StepCounts]_vars
<1>1. WorkDone => StepsLeft' = StepsLeft BY DEF WorkDone, StepsLeft
<1>2. CallInv /\ TurnInv /\ [Next]_vars => [StepCounts]_vars
      BY <1>1, CallCounts DEF StepCounts
<1> QED BY <1>2, TurnsHold, CallInvariant, PTL DEF Spec
=============================================================================
