----------------------------- MODULE SwarphCall -----------------------------
(***************************************************************************)
(* One SwarphCall.chat: the hooks, the adapter under its timeout, the JSON *)
(* harness with its one retry, the fold of the two legs, and the row of    *)
(* attribution.  The provider works on a leg whether or not the call still *)
(* waits for it.  A step of the call ends where the event loop may run     *)
(* something else: at an await, which is also where it can be cancelled.   *)
(***************************************************************************)
EXTENDS Integers

CONSTANTS PreHooks,    \* how many pre_call hooks are registered
          ErrorHooks,  \* on_error hooks
          PostHooks,   \* post_call hooks
          Writer,      \* which post_call hook writes the attribution, 0 for none
          MaxTokens    \* bound: tokens a provider bills for one leg

ASSUME CallAssumption == /\ {PreHooks, ErrorHooks, PostHooks, MaxTokens} \subseteq Nat
                         /\ Writer \in 0..PostHooks

VARIABLES kind,    \* what the provider's adapter can report
          timed,   \* was timeout_seconds given?
          schema,  \* was json_schema given?
          at,      \* where the call is
          hook,    \* the hook whose turn it is
          told,    \* on_error hooks that have come back
          work,    \* work[l]: the provider's side of leg l
          billed,  \* billed[l]: tokens the provider charged for it
          home,    \* home[l]: the temporary files of leg l
          legs,    \* legs[l]: the response to leg l, NoLeg without one
          resp,    \* the LLMResponse being built
          row,     \* the attribution row
          failed,  \* did the writer fail?
          why      \* why the call raised

askVars  == <<kind, timed, schema>>
legVars  == <<work, billed, home>>
outVars  == <<resp, row, failed>>
vars     == <<askVars, at, hook, told, legVars, legs, outVars, why>>

Legs   == {1, 2}
Kinds  == {"metered", "list", "tokens", "text"}
Bases  == {"metered", "list", "unknown"}
Homes  == {"none", "there", "gone", "left"}
Ended  == {"returned", "raised"}
Places == {"new", "pre", "dispatch", "onerror", "retry", "post"} \union Ended

None  == -1    \* "this provider did not report it"; 0 is a reported zero
Opt   == {None} \union Nat
NoLeg == [back |-> FALSE, tokens |-> 0, thinking |-> None, cost |-> 0,
          basis |-> "unknown", json |-> FALSE]
Leg   == [back : BOOLEAN, tokens : Nat, thinking : Opt, cost : Nat,
          basis : Bases, json : BOOLEAN]

\* The parts of LLMResponse the call changes.  parsed: the leg it came from.
NoResp == [tokens |-> 0, thinking |-> None, cost |-> 0, basis |-> "unknown",
           parsed |-> 0, error |-> "none"]
Resp   == [tokens : Nat, thinking : Opt, cost : Nat, basis : Bases,
           parsed : 0..2, error : {"none", "malformed_json", "retry_failed"}]
NoRow  == [tokens |-> 0, thinking |-> None, cost |-> 0, basis |-> "unknown",
           parsed |-> 0, error |-> "unwritten"]

Init == /\ kind \in Kinds /\ timed \in BOOLEAN /\ schema \in BOOLEAN
        /\ at = "new" /\ hook = 1 /\ told = 0 /\ why = "none"
        /\ work = [l \in Legs |-> "none"]
        /\ billed = [l \in Legs |-> 0]
        /\ home = [l \in Legs |-> "none"]
        /\ legs = [l \in Legs |-> NoLeg]
        /\ resp = NoResp /\ row = NoRow /\ failed = FALSE

Leave(reason) == at' = "raised" /\ why' = reason

-----------------------------------------------------------------------------
(* The adapters: what one says of a leg its provider charged n tokens for. *)

\* gemini, deepseek, openai, grok: the usage block may be missing.
MeteredAnswers(n) == {[tokens |-> n, thinking |-> None, cost |-> n, basis |-> "metered"],
                      [tokens |-> 0, thinking |-> None, cost |-> 0, basis |-> "unknown"]}

\* claude -p: a missing usage block reads as zeros, and older versions have no
\* total_cost_usd.
ListAnswers(n) == [tokens : {0, n}, thinking : {None, 0, n}, cost : {n}, basis : {"list"}]
                    \union [tokens : {0, n}, thinking : {None, 0, n}, cost : {0},
                            basis : {"unknown"}]

\* agy and the gemini CLI (zeros without stats) count tokens and know no price.
TokenAnswers(n) == [tokens : {0, n}, thinking : {None, 0, n}, cost : {0},
                    basis : {"unknown"}]

\* The grok and vibe CLIs print text.
TextAnswers == {[tokens |-> 0, thinking |-> None, cost |-> 0, basis |-> "unknown"]}

Answers(n) == CASE kind = "metered" -> MeteredAnswers(n)
                [] kind = "list"    -> ListAnswers(n)
                [] kind = "tokens"  -> TokenAnswers(n)
                [] kind = "text"    -> TextAnswers

\* The text CLIs make their prompt file, home and work directory.
Files == IF kind = "text" THEN "there" ELSE "none"

\* adapter.chat up to its await.
Send(l) == /\ work' = [work EXCEPT ![l] = "running"]
           /\ home' = [home EXCEPT ![l] = Files]
           /\ UNCHANGED billed

\* The finally of the text CLIs runs however the await ends.  What the system
\* refuses to remove is left without a word; so is vibe's first directory when
\* its second cannot be made, one of the ways in which the adapter raises.
Removed(f) == IF f = "there" THEN {"gone", "left"} ELSE {f}
CleanUp(l) == \E f \in Removed(home[l]) : home' = [home EXCEPT ![l] = f]

\* The provider finishes; nobody need be waiting any more.
WorkDone ==
    /\ \E l \in Legs : /\ work[l] = "running"
                       /\ work' = [work EXCEPT ![l] = "done"]
                       /\ \E n \in 0..MaxTokens : billed' = [billed EXCEPT ![l] = n]
    /\ UNCHANGED <<askVars, at, hook, told, home, legs, outVars, why>>

-----------------------------------------------------------------------------
(* Up to the adapter.                                                      *)

\* The adapter is looked up on first use; it may be unknown or not installed.
Resolve ==
    /\ at = "new"
    /\ \/ at' = "pre" /\ UNCHANGED why
       \/ Leave("unresolved")
    /\ UNCHANGED <<askVars, hook, told, legVars, legs, outVars>>

PreHook ==
    /\ at = "pre" /\ hook <= PreHooks
    /\ \/ hook' = hook + 1 /\ UNCHANGED <<at, why>>
       \/ Leave("hook") /\ UNCHANGED hook
    /\ UNCHANGED <<askVars, told, legVars, legs, outVars>>

Dispatch ==
    /\ at = "pre" /\ hook > PreHooks
    /\ at' = "dispatch"
    /\ hook' = 1
    /\ Send(1)
    /\ UNCHANGED <<askVars, told, legs, outVars, why>>

-----------------------------------------------------------------------------
(* The first leg.                                                          *)

Received(l, a, good) == legs' = [legs EXCEPT ![l] =
                          [back |-> TRUE, tokens |-> a.tokens, thinking |-> a.thinking,
                           cost |-> a.cost, basis |-> a.basis, json |-> good]]

RespOf(a, parsed) == [tokens |-> a.tokens, thinking |-> a.thinking, cost |-> a.cost,
                      basis |-> a.basis, parsed |-> parsed, error |-> "none"]

\* The response is there: parse it if a schema was given, ask again if that
\* fails, go on to the post_call hooks otherwise.
Answered ==
    /\ at = "dispatch" /\ work[1] = "done"
    /\ \E a \in Answers(billed[1]), good \in BOOLEAN :
         /\ Received(1, a, good)
         /\ IF schema /\ ~good
              THEN /\ resp' = RespOf(a, 0)
                   /\ at' = "retry"
                   /\ work' = [work EXCEPT ![2] = "running"]
                   /\ \E f \in Removed(home[1]) :
                        home' = [home EXCEPT ![1] = f, ![2] = Files]
              ELSE /\ resp' = RespOf(a, IF schema THEN 1 ELSE 0)
                   /\ at' = "post"
                   /\ CleanUp(1)
                   /\ UNCHANGED work
    /\ UNCHANGED <<askVars, hook, told, billed, row, failed, why>>

\* BaseException: the on_error hooks run before it is raised again.
ToOnError(reason) == at' = "onerror" /\ why' = reason

\* Not installed, refused, its own timeout: the provider may be at it still.
AdapterRaises ==
    /\ at = "dispatch"
    /\ ToOnError("adapter")
    /\ CleanUp(1)
    /\ UNCHANGED <<askVars, hook, told, work, billed, legs, outVars>>

\* Mutant: the temporary files go only when the provider is done.
TimesOutLeavesFiles ==
    /\ at = "dispatch" /\ timed
    /\ ToOnError("timeout")
    /\ IF work[1] = "running" THEN UNCHANGED home ELSE CleanUp(1)
    /\ UNCHANGED <<askVars, hook, told, work, billed, legs, outVars>>

\* Mutant: a call that gives up waits for its thread first.
TimesOutAfterWork ==
    /\ at = "dispatch" /\ timed /\ work[1] = "done"
    /\ ToOnError("timeout")
    /\ CleanUp(1)
    /\ UNCHANGED <<askVars, hook, told, work, billed, legs, outVars>>

\* wait_for gives up on the await, not on the thread or the request behind it.
TimesOut ==
    /\ at = "dispatch" /\ timed
    /\ ToOnError("timeout")
    /\ CleanUp(1)
    /\ UNCHANGED <<askVars, hook, told, work, billed, legs, outVars>>

\* Mutant: a hook that raises ends the loop.
ErrorHookStops ==
    /\ at = "onerror" /\ hook <= ErrorHooks
    /\ told' = told + 1
    /\ hook' \in {hook + 1, ErrorHooks + 1}
    /\ UNCHANGED <<askVars, at, legVars, legs, outVars, why>>

\* Whether the hook returns or raises makes no difference.
ErrorHook ==
    /\ at = "onerror" /\ hook <= ErrorHooks
    /\ told' = told + 1
    /\ hook' = hook + 1
    /\ UNCHANGED <<askVars, at, legVars, legs, outVars, why>>

Reraise ==
    /\ at = "onerror" /\ hook > ErrorHooks
    /\ Leave(why)
    /\ UNCHANGED <<askVars, hook, told, legVars, legs, outVars>>

-----------------------------------------------------------------------------
(* The retry leg: no timeout, no on_error hooks.                           *)

\* Mutant: added without asking whether it was reported.
SumOptUnaware(a, b) == a + b

\* None-aware: a quantity neither leg reported stays unreported.
SumOpt(a, b) == IF b = None THEN a ELSE (IF a = None THEN 0 ELSE a) + b

\* Mutant: the basis of the first leg is kept.
FoldKeepsBasis(r, a) == [r EXCEPT !.tokens = @ + a.tokens, !.cost = @ + a.cost,
                                  !.thinking = SumOpt(@, a.thinking)]

Fold(r, a) == [r EXCEPT !.tokens   = @ + a.tokens,
                        !.cost     = @ + a.cost,
                        !.thinking = SumOpt(@, a.thinking),
                        !.basis    = IF @ = "unknown" THEN a.basis ELSE @]

\* Mutant: a second failure to parse is not classified.
JudgeSilently(r, good) == [r EXCEPT !.parsed = IF good THEN 2 ELSE 0]

\* The text is the first leg's either way; what was parsed may be the second's.
Judge(r, good) == [r EXCEPT !.parsed = IF good THEN 2 ELSE 0,
                            !.error  = IF good THEN "none" ELSE "malformed_json"]

RetryAnswered ==
    /\ at = "retry" /\ work[2] = "done"
    /\ \E a \in Answers(billed[2]), good \in BOOLEAN :
         /\ Received(2, a, good)
         /\ resp' = Judge(Fold(resp, a), good)
    /\ at' = "post"
    /\ CleanUp(2)
    /\ UNCHANGED <<askVars, hook, told, work, billed, row, failed, why>>

\* Mutant: the exception of the retry is swallowed without a class.
RetryRaisesSilently ==
    /\ at = "retry"
    /\ at' = "post"
    /\ CleanUp(2)
    /\ UNCHANGED <<askVars, hook, told, work, billed, legs, outVars, why>>

RetryRaises ==
    /\ at = "retry"
    /\ resp' = [resp EXCEPT !.error = "retry_failed"]
    /\ at' = "post"
    /\ CleanUp(2)
    /\ UNCHANGED <<askVars, hook, told, work, billed, legs, row, failed, why>>

-----------------------------------------------------------------------------
(* The post_call hooks, the writer of attribution among them.              *)

\* Mutant: a hook that raises ends the loop.
OtherHookStops ==
    /\ at = "post" /\ hook <= PostHooks /\ hook # Writer
    /\ hook' \in {hook + 1, PostHooks + 1}
    /\ UNCHANGED <<askVars, at, told, legVars, legs, outVars, why>>

\* Returns or raises, the next one runs.
OtherHook ==
    /\ at = "post" /\ hook <= PostHooks /\ hook # Writer
    /\ hook' = hook + 1
    /\ UNCHANGED <<askVars, at, told, legVars, legs, outVars, why>>

Write ==
    /\ at = "post" /\ hook = Writer
    /\ hook' = hook + 1
    /\ \/ row' = resp /\ UNCHANGED failed
       \/ failed' = TRUE /\ UNCHANGED row
    /\ UNCHANGED <<askVars, at, told, legVars, legs, resp, why>>

Return ==
    /\ at = "post" /\ hook > PostHooks
    /\ at' = "returned"
    /\ UNCHANGED <<askVars, hook, told, legVars, legs, outVars, why>>

-----------------------------------------------------------------------------
(* The task is cancelled.  CancelledError is no Exception: neither the     *)
(* harness nor the loops over the hooks stop it.                           *)

CancelInHook ==
    /\ \/ at = "pre"     /\ hook <= PreHooks   /\ UNCHANGED row
       \/ at = "onerror" /\ hook <= ErrorHooks /\ UNCHANGED row
       \/ at = "post"    /\ hook <= PostHooks
                         /\ row' \in IF hook = Writer THEN {row, resp} ELSE {row}
    /\ Leave("cancelled")
    /\ UNCHANGED <<askVars, hook, told, legVars, legs, resp, failed>>

CancelDispatch ==
    /\ at = "dispatch"
    /\ ToOnError("cancelled")
    /\ CleanUp(1)
    /\ UNCHANGED <<askVars, hook, told, work, billed, legs, outVars>>

CancelRetry ==
    /\ at = "retry"
    /\ Leave("cancelled")
    /\ CleanUp(2)
    /\ UNCHANGED <<askVars, hook, told, work, billed, legs, outVars>>

Cancel == CancelInHook \/ CancelDispatch \/ CancelRetry

Task == \/ Resolve \/ PreHook \/ Dispatch \/ Answered \/ TimesOut
        \/ ErrorHook \/ Reraise \/ RetryAnswered
        \/ OtherHook \/ Write \/ Return

Next == Task \/ AdapterRaises \/ RetryRaises \/ WorkDone \/ Cancel

Spec == Init /\ [][Next]_vars

\* The event loop runs what is ready and fires the timer; hooks come back.
\* No provider has to answer, no adapter has to raise.
FairSpec == Spec /\ WF_vars(Task)

-----------------------------------------------------------------------------
(* Properties.                                                             *)

CallTypeOK ==
    /\ kind \in Kinds /\ timed \in BOOLEAN /\ schema \in BOOLEAN
    /\ at \in Places
    /\ hook \in Nat /\ told \in Nat
    /\ work \in [Legs -> {"none", "running", "done"}]
    /\ billed \in [Legs -> Nat] /\ home \in [Legs -> Homes]
    /\ legs \in [Legs -> Leg]
    /\ resp \in Resp /\ row \in Resp \union {NoRow} /\ failed \in BOOLEAN
    /\ why \in {"none", "unresolved", "hook", "adapter", "timeout", "cancelled"}

Sum(f) == legs[1][f] + legs[2][f]

\* swarph_call.py fold, attribution_post_call: a row that is written carries
\* the tokens and the cost of every leg that came back, is silent on thinking
\* only when both legs were, and never has a cost beside "unknown".
RowIsTotal ==
    row # NoRow =>
      /\ row.tokens = Sum("tokens") /\ row.cost = Sum("cost")
      /\ row.thinking = None <=> \A l \in Legs : legs[l].thinking = None
      /\ row.cost > 0 => row.basis # "unknown"

\* The response says that its cost is not the whole bill: there is no basis for
\* it, or the retry raised.
Flagged == resp.basis = "unknown" \/ resp.error = "retry_failed"

\* What the fold hides: both legs came back and only the other was priced (this
\* is what CostBasisHonest is about).
Hidden(l) == legs[l].back /\ \E m \in Legs \ {l} : legs[m].back /\ legs[m].basis # "unknown"

\* swarph_call.py, json_harness.py: the cost of a returned call is the bill of
\* the legs that were priced, and of every other leg that was billed, one that
\* came back without its usage or a retry that never did, the response says so,
\* unless the fold hides it.
UndercountVisible ==
    at = "returned" =>
      LET priced(l) == IF legs[l].basis = "unknown" THEN 0 ELSE billed[l]
      IN  /\ resp.cost = priced(1) + priced(2)
          /\ \A l \in Legs : billed[l] > 0 =>
                              legs[l].basis # "unknown" \/ Flagged \/ Hidden(l)

\* swarph_call.py post_call loop: a call that returns has its row, unless the
\* writer itself failed; no other hook can prevent it.
ReturnedAttributed ==
    at = "returned" /\ Writer # 0 => row = resp \/ failed

\* parse_with_retry: a call with a schema returns a parsed answer, of the last
\* leg that came back, or an error_class, and never both.
ParsedOrClassified ==
    at = "returned" =>
      /\ schema => (resp.parsed = 0 <=> resp.error # "none")
      /\ resp.parsed # 0 => /\ legs[resp.parsed].json
                            /\ \A l \in Legs : legs[l].back => l <= resp.parsed

\* swarph_call.py on_error: a call that fails on its first leg tells every
\* on_error hook exactly once, whatever those hooks raise.
ErrorsTold ==
    /\ told <= ErrorHooks
    /\ at = "raised" /\ why \in {"adapter", "timeout"} => told = ErrorHooks

\* grok_cli.py, vibe_cli.py: however a call ends, no prompt file, home or work
\* directory of it lies there that was not tried to remove.
CleanUpTried == at \in Ended => \A l \in Legs : home[l] # "there"

\* swarph_call.py timeout_seconds: without a schema a timed call ends although
\* its provider may never answer.
TimedCallEnds == (timed /\ ~schema) ~> (at \in Ended)

\* attribution.py: "every SwarphCall writes one row of attribution data after a
\* successful adapter call".
SuccessAttributed ==
    at \in Ended /\ legs[1].back /\ Writer # 0 => row # NoRow \/ failed

\* attribution.py: a 0.0 beside "unknown" is never summed as measured free
\* usage.  A metered row is the whole bill of the legs that came back.
CostBasisHonest ==
    row # NoRow /\ row.basis = "metered" =>
      \A l \in Legs : legs[l].back => legs[l].basis = "metered"
=============================================================================
