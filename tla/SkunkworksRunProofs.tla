------------------------- MODULE SkunkworksRunProofs -------------------------
(***************************************************************************)
(* Theorems about SkunkworksRun for every choice of the ceilings that      *)
(* leaves the architect a job.                                             *)
(***************************************************************************)
EXTENDS SkunkworksRun, TLAPS

(* The inductive invariant, in four parts; that no deadline of a poll loop *)
(* is past the ceiling is part of the type.                                *)

\* Where the process can be in each status.
PlaceInv ==
  /\ status = "none"         => at = "new"
  /\ status = "queued"       => at = "enter"
  /\ status = "ideating"     => at \in {"check", "post", "poll", "look", "enter"}
  /\ status = "researching"  => at \in {"query", "check", "search", "urls", "enter"}
  /\ status = "architecting" => at \in {"check", "post", "poll", "look", "enter"}
  /\ status \in {"awaiting_commander", "error"} => at = "ended"

\* Every job is counted once, every query asked gives one row.
CountInv ==
  /\ status \in {"none", "queued"} => jobsUsed = 0 /\ rows = 0
  /\ status = "ideating" => /\ rows = 0
                            /\ jobsUsed = IF at = "check" THEN 0 ELSE 1
  /\ status = "researching" =>
       /\ rows <= ToAsk
       /\ at \in {"check", "search", "urls"} => rows < ToAsk
       /\ at = "enter" => rows = ToAsk
       /\ jobsUsed = IF at \in {"search", "urls"} THEN 2 + rows ELSE 1 + rows
       /\ cut = wanted - ToAsk
  /\ status = "architecting" =>
       /\ rows = ToAsk /\ cut = wanted - ToAsk
       /\ jobsUsed = IF at = "check" THEN 1 + ToAsk ELSE 2 + ToAsk
       /\ at = "enter" => verdict # "none"
  /\ NothingDropped

\* A job is out exactly while it is polled; the last one may outlive the run.
OutInv ==
  /\ at # "ended" => /\ out = IF job = "out" THEN 1 ELSE 0
                     /\ job = "out" => at \in {"poll", "look"}
  /\ job = "out" => out = 1
  /\ OneJobOut

RunInv == RunTypeOK /\ PlaceInv /\ CountInv /\ OutInv /\ NeverOutOfJobs

\* How many queries are asked never exceeds either number.
LEMMA ToAskBound ==
  ASSUME wanted \in 0..MaxWanted
  PROVE  ToAsk \in Nat /\ ToAsk <= MaxQueries /\ ToAsk <= wanted
  BY RunAssumption DEF ToAsk, Least

\* Time passes up to the ceiling.
LEMMA LaterBound ==
  ASSUME clock \in 0..MaxRunTime, NEW t \in Nat
  PROVE  Later(t) \in 0..MaxRunTime /\ (t > 0 /\ clock < MaxRunTime => Later(t) > clock)
  BY RunAssumption DEF Later, Least, Times

LEMMA RunInit == Init => RunInv
<1> SUFFICES ASSUME Init PROVE RunInv OBVIOUS
<1> USE RunAssumption DEF Init
<1>0. /\ MaxJobs \in Nat /\ MaxWanted \in Nat /\ MaxQueries \in Nat
      /\ MaxRunTime \in Nat
      BY DEF Times
<1>1. RunTypeOK
  <2>1. /\ 0 \in 0..MaxJobs /\ 0 \in 0..MaxWanted /\ 0 \in 0..MaxQueries
        /\ 0 \in 0..MaxRunTime
        BY <1>0
  <2> QED BY <2>1 DEF RunTypeOK, Places, Errors
<1>3. PlaceInv /\ CountInv /\ OutInv /\ NeverOutOfJobs
      BY DEF PlaceInv, CountInv, NothingDropped, OutInv, OneJobOut, NeverOutOfJobs
<1> QED BY <1>1, <1>3 DEF RunInv

\* A run that fails keeps its clock, its counts and its jobs.
LEMMA FailsKeepsInv ==
  ASSUME RunInv, NEW why \in Errors \ {"jobs"}, Fails(why),
         UNCHANGED <<clock, deadline, jobsUsed, wanted, cut, rows, verdict, job, stop, session>>,
         out' = out \/ (job # "out" /\ at # "ended" /\ out' \in {out, out + 1})
  PROVE  RunInv'
  BY RunAssumption
  DEF Fails, RunInv, RunTypeOK, PlaceInv, CountInv, OutInv, NeverOutOfJobs,
      NothingDropped, OneJobOut, Places

\* The guard, the stages and the queue job, one action at a time.
LEMMA StageStep ==
  ASSUME RunInv, Queued \/ Enter \/ Check \/ NextQuery
  PROVE  RunInv'
<1> USE RunAssumption
    DEF RunInv, RunTypeOK, PlaceInv, CountInv, OutInv, NeverOutOfJobs,
        NothingDropped, OneJobOut, Places, guardVars, queueVars,
        workVars, envVars
<1>0. ToAsk \in Nat /\ ToAsk <= MaxQueries /\ wanted - ToAsk \in 0..MaxWanted
      BY ToAskBound
<1>1. CASE Queued BY <1>0, <1>1 DEF Queued, RunningStatuses, ToAsk
<1>2. CASE Enter
  <2>1. ToAsk' = ToAsk BY <1>2 DEF Enter, ToAsk
  <2>2. CASE status = "queued"
        BY <1>0, <1>2, <2>1, <2>2 DEF Enter, NextStatus, RunningStatuses
  <2>3. CASE status = "ideating"
        BY <1>0, <1>2, <2>1, <2>3 DEF Enter, NextStatus, RunningStatuses
  <2>4. CASE status = "researching"
        BY <1>0, <1>2, <2>1, <2>4 DEF Enter, NextStatus, RunningStatuses
  <2>5. CASE status = "architecting"
        BY <1>0, <1>2, <2>1, <2>5 DEF Enter, NextStatus, RunningStatuses
  <2> QED BY <1>2, <2>2, <2>3, <2>4, <2>5 DEF Enter, RunningStatuses
<1>3. CASE Check
  <2>1. ToAsk' = ToAsk BY <1>3 DEF Check, ToAsk
  <2>2. clock < MaxRunTime /\ jobsUsed < MaxJobs
        BY <1>3 DEF Check, Refusal, Remaining, Times
  <2> QED BY <1>0, <1>3, <2>1, <2>2 DEF Check, Times
<1>4. CASE NextQuery
  <2>1. ToAsk' = ToAsk BY <1>4 DEF NextQuery, ToAsk
  <2> QED BY <1>0, <1>4, <2>1 DEF NextQuery
<1> QED BY <1>1, <1>2, <1>3, <1>4

LEMMA QueueStep ==
  ASSUME RunInv, Post \/ PollOut \/ Ideated \/ Audited
  PROVE  RunInv'
<1> USE RunAssumption
    DEF RunInv, RunTypeOK, PlaceInv, CountInv, OutInv, NeverOutOfJobs,
        NothingDropped, OneJobOut, Places, guardVars, queueVars,
        workVars, envVars, Times
<1>0. ToAsk \in Nat /\ ToAsk <= MaxQueries BY ToAskBound
<1>1. CASE Post
  <2>1. ToAsk' = ToAsk BY <1>1 DEF Post, ToAsk
  <2>2. deadline' \in 0..MaxRunTime
        BY <1>1 DEF Post, Remaining, Least, Most
  <2> QED BY <1>0, <1>1, <2>1, <2>2 DEF Post
<1>2. CASE PollOut
  <2>1. ToAsk' = ToAsk BY <1>2 DEF PollOut, ToAsk
  <2> QED BY <1>0, <1>2, <2>1 DEF PollOut
<1>3. CASE Ideated
  <2>1. ToAsk' \in Nat BY <1>3, ToAskBound DEF Ideated, ToAsk, Least
  <2> QED BY <1>0, <1>3, <2>1 DEF Ideated
<1>4. CASE Audited
  <2>1. ToAsk' = ToAsk BY <1>4 DEF Audited, ToAsk
  <2> QED BY <1>0, <1>4, <2>1 DEF Audited
<1> QED BY <1>1, <1>2, <1>3, <1>4

\* A look at the clock ends the run or lets it sleep.
LEMMA LookStep ==
  ASSUME RunInv, Look
  PROVE  RunInv'
<1>1. CASE clock >= deadline
      BY <1>1, FailsKeepsInv DEF Look, Errors, queueVars, workVars, envVars
<1>2. CASE ~(clock >= deadline)
  <2>1. clock' \in 0..MaxRunTime
        BY <1>2, LaterBound, RunAssumption DEF Look, RunInv, RunTypeOK, Times
  <2> QED BY <1>2, <2>1
          DEF Look, RunInv, RunTypeOK, PlaceInv, CountInv, OutInv, NeverOutOfJobs,
              NothingDropped, OneJobOut, Places, queueVars, workVars, envVars, ToAsk
<1> QED BY <1>1, <1>2

LEMMA SearchStep ==
  ASSUME RunInv, Searched \/ SearchRefused \/ Row
  PROVE  RunInv'
<1> USE RunAssumption
    DEF RunInv, RunTypeOK, PlaceInv, CountInv, OutInv, NeverOutOfJobs,
        NothingDropped, OneJobOut, Places, guardVars, queueVars,
        workVars, envVars, Times
<1>0. ToAsk \in Nat /\ ToAsk <= MaxQueries BY ToAskBound
<1>1. CASE Searched
  <2>1. ToAsk' = ToAsk BY <1>1 DEF Searched, ToAsk
  <2> QED BY <1>0, <1>1, <2>1 DEF Searched
<1>2. CASE SearchRefused
  <2>1. ToAsk' = ToAsk BY <1>2 DEF SearchRefused, ToAsk
  <2> QED BY <1>0, <1>2, <2>1 DEF SearchRefused, Fails, Errors
<1>3. CASE Row
  <2>1. ToAsk' = ToAsk BY <1>3 DEF Row, ToAsk
  <2>4. status = "researching" BY <1>3 DEF Row, RunningStatuses
  <2>5. rows' = rows + 1 /\ rows' \in 0..MaxQueries /\ at' = "query"
        BY <1>0, <1>3, <2>4 DEF Row
  <2> QED BY <1>0, <1>3, <2>1, <2>4, <2>5 DEF Row
<1> QED BY <1>1, <1>2, <1>3

LEMMA RunStep == RunInv /\ [Next]_vars => RunInv'
<1> SUFFICES ASSUME RunInv, [Next]_vars PROVE RunInv' OBVIOUS
<1>1. CASE Refuse
  <2>1. jobsUsed < MaxJobs
        BY <1>1, RunAssumption, ToAskBound
        DEF Refuse, RunInv, RunTypeOK, RunningStatuses, PlaceInv, CountInv
  <2>2. Refusal \in Errors \ {"jobs"}
        BY <1>1, <2>1, RunAssumption DEF Refuse, Refusal, Errors, Refusals, RunInv, RunTypeOK
  <2> QED BY <1>1, <2>2, FailsKeepsInv DEF Refuse, guardVars, queueVars, workVars, envVars
<1>2. CASE Raises \/ PollFails \/ JobRefused
      BY <1>2, FailsKeepsInv
      DEF Raises, PollFails, JobRefused, Errors, guardVars, queueVars, workVars, envVars
<1>3. CASE PostFails
      BY <1>3, FailsKeepsInv
      DEF PostFails, Errors, guardVars, workVars, envVars, RunInv, OutInv
<1>4. CASE Queued \/ Enter \/ Check \/ NextQuery BY <1>4, StageStep
<1>5. CASE Post \/ PollOut \/ Ideated \/ Audited BY <1>5, QueueStep
<1>9. CASE Look BY <1>9, LookStep
<1>10. CASE TimePasses
  <2>1. clock' \in 0..MaxRunTime
        BY <1>10, RunAssumption DEF TimePasses, RunInv, RunTypeOK, Times
  <2> QED BY <1>10, <2>1
          DEF TimePasses, RunInv, RunTypeOK, PlaceInv, CountInv, OutInv, NeverOutOfJobs,
              NothingDropped, OneJobOut, queueVars, workVars, envVars, ToAsk
<1>6. CASE Searched \/ SearchRefused \/ Row BY <1>6, SearchStep
<1>7. CASE WorkerFinishes
      BY <1>7 DEF WorkerFinishes, RunInv, RunTypeOK, PlaceInv, CountInv, OutInv,
         NeverOutOfJobs, NothingDropped, OneJobOut, guardVars, workVars,
         envVars, ToAsk
<1>8. CASE StopRequested \/ SessionTurns \/ UNCHANGED vars
  <2>1. stop' \in BOOLEAN /\ session' \in BOOLEAN
        BY <1>8 DEF StopRequested, SessionTurns, vars, RunInv, RunTypeOK
  <2>2. UNCHANGED <<status, verdict, at, clock, deadline, jobsUsed, wanted, cut, rows,
                    job, out, error>>
        BY <1>8 DEF StopRequested, SessionTurns, vars, guardVars, queueVars, workVars
  <2> QED BY <2>1, <2>2
          DEF RunInv, RunTypeOK, PlaceInv, CountInv, OutInv, NeverOutOfJobs,
              NothingDropped, OneJobOut, ToAsk
<1> QED BY <1>1, <1>2, <1>3, <1>4, <1>5, <1>6, <1>7, <1>8, <1>9, <1>10
        DEF Next, Step, Faults, Env, Queue, Research

LEMMA RunInvariant == Spec => []RunInv
  BY RunInit, RunStep, PTL DEF Spec

\* Every variable of a run keeps its type.
THEOREM RunTypeCorrect == Spec => []RunTypeOK
<1>1. RunInv => RunTypeOK BY DEF RunInv
<1> QED BY <1>1, RunInvariant, PTL

\* However long POST, GET, searches and callbacks take: once the ceiling has passed
\* a run counts no job, and the poll loop sleeps no more.  The guard looks at the
\* clock for the first; the second is because of the deadline, which is formed
\* after the POST and is never past the ceiling.
THEOREM NothingIsBegunLate == Spec => NothingBegunLate
<1>1. ASSUME RunInv, Next, jobsUsed' # jobsUsed PROVE clock < MaxRunTime
  <2>1. Check
        BY <1>1 DEF Next, Step, Faults, Env, Queue, Research, Queued, Enter, Refuse, Post,
           PollOut, Look, JobRefused, Ideated, Audited, NextQuery, Searched, SearchRefused, Row,
           Raises, PostFails, PollFails, TimePasses, StopRequested, SessionTurns,
           WorkerFinishes, guardVars
  <2> QED BY <1>1, <2>1, RunAssumption
          DEF Check, Refusal, Remaining, RunInv, RunTypeOK, Times
<1>2. ASSUME RunInv, Next, at = "look", at' = "poll" PROVE clock < MaxRunTime
  <2>1. Look
        BY <1>2 DEF Next, Step, Faults, Env, Queue, Research, Queued, Enter, Check, Refuse,
           Post, PollOut, JobRefused, Ideated, Audited, NextQuery, Searched, SearchRefused,
           Row, Raises, PostFails, PollFails, TimePasses, StopRequested, SessionTurns,
           WorkerFinishes, Fails
  <2>2. ~(clock >= deadline) BY <1>2, <2>1 DEF Look, Fails
  <2> QED BY <1>2, <2>2, RunAssumption DEF RunInv, RunTypeOK, Times
<1>3. RunInv /\ [Next]_vars =>
        [jobsUsed' # jobsUsed \/ (at = "look" /\ at' = "poll") => clock < MaxRunTime]_vars
      BY <1>1, <1>2
<1> QED BY <1>3, RunInvariant, PTL DEF Spec, NothingBegunLate

\* With room for two jobs beside the queries, the job count refuses nobody.
THEOREM ArchitectHeadroom == Spec => []NeverOutOfJobs
<1>1. RunInv => NeverOutOfJobs BY DEF RunInv
<1> QED BY <1>1, RunInvariant, PTL

\* A run never has two jobs out, however its POSTs fail.
THEOREM SingleJobOut == Spec => []OneJobOut
<1>1. RunInv => OneJobOut BY DEF RunInv, OutInv
<1> QED BY <1>1, RunInvariant, PTL

\* Who reaches the architect has a row for every query that was not cut, and who
\* reaches the commander has used exactly one job for each stage and each query.
THEOREM ResearchComplete == Spec => []NothingDropped
<1>1. RunInv => NothingDropped BY DEF RunInv, CountInv
<1> QED BY <1>1, RunInvariant, PTL

-----------------------------------------------------------------------------
(* The lifecycle.  Only the architect's answer gives a verdict, so a run   *)
(* has none before it.                                                     *)

VerdictInv == verdict # "none" => \/ status \in {"awaiting_commander", "error"}
                                  \/ status = "architecting" /\ at = "enter"

\* Only Audited changes the verdict; Queued, Enter and a failure the status.
LEMMA VerdictStep == RunInv /\ VerdictInv /\ [Next]_vars => VerdictInv'
<1> SUFFICES ASSUME RunInv, VerdictInv, [Next]_vars PROVE VerdictInv' OBVIOUS
<1> USE DEF VerdictInv, guardVars, queueVars, workVars, envVars
<1>1. CASE Refuse \/ Raises \/ PostFails \/ PollFails \/ Look \/ JobRefused
           \/ SearchRefused
      BY <1>1 DEF Refuse, Raises, PostFails, PollFails, Look, JobRefused,
                  SearchRefused, Fails
<1>2. CASE Enter BY <1>2 DEF Enter, NextStatus, RunInv, RunTypeOK, RunningStatuses, PlaceInv
<1>3. CASE Audited BY <1>3 DEF Audited
<1>4. CASE \/ Queued \/ Check \/ Post \/ PollOut \/ Ideated \/ NextQuery \/ Searched
           \/ Row \/ TimePasses \/ StopRequested \/ SessionTurns \/ WorkerFinishes \/ UNCHANGED vars
      BY <1>4 DEF Queued, Check, Post, PollOut, Ideated, NextQuery, Searched, Row,
                  TimePasses, StopRequested, SessionTurns, WorkerFinishes, vars, RunInv, PlaceInv
<1> QED BY <1>1, <1>2, <1>3, <1>4 DEF Next, Step, Faults, Env, Queue, Research

\* The one run, as the lifecycle's set of runs sees it.
LEMMA LifeOfOne ==
  /\ \A s : status' = s => Life!Move(1, s)
  /\ Life!Successor["none"] = "queued"
  /\ \A s \in RunningStatuses : s \in DOMAIN Life!Successor /\ Life!Successor[s] = NextStatus[s]
  /\ "none" \in DOMAIN Life!Successor
  BY DEF Life!Move, Life!Successor, Life!RunningStatuses, RunningStatuses, NextStatus

\* A failure of the run is a failure of the lifecycle, from any status but an
\* ended one.
LEMMA FailsIsLife ==
  ASSUME RunInv, at # "ended", NEW why, Fails(why), UNCHANGED verdict
  PROVE  Life!LifeNext
<1>1. status \in RunningStatuses \union {"none"}
      BY DEF RunInv, RunTypeOK, PlaceInv
<1>2. Life!Fail(1) BY <1>1, LifeOfOne DEF Fails, Life!Fail
<1> QED BY <1>2 DEF Life!LifeNext

LEMMA RunStepIsLife ==
  ASSUME RunInv, VerdictInv, [Next]_vars
  PROVE  [Life!LifeNext]_(Life!lifeVars)
<1> USE DEF guardVars, queueVars, workVars, envVars
<1>1. CASE Refuse \/ Raises \/ PostFails \/ PollFails \/ JobRefused \/ SearchRefused
      BY <1>1, FailsIsLife
      DEF Refuse, Raises, PostFails, PollFails, JobRefused, SearchRefused
<1>6. CASE Look
  <2>1. CASE clock >= deadline BY <1>6, <2>1, FailsIsLife DEF Look
  <2>2. CASE ~(clock >= deadline)
        BY <1>6, <2>2 DEF Look, Life!lifeVars
  <2> QED BY <2>1, <2>2
<1>2. CASE Queued
  <2>1. status = "none"
        BY <1>2 DEF Queued, RunInv, RunTypeOK, PlaceInv, RunningStatuses
  <2>2. Life!Advance(1) BY <1>2, <2>1, LifeOfOne DEF Queued, Life!Advance
  <2> QED BY <2>2 DEF Life!LifeNext
<1>3. CASE Enter
  <2>1. /\ status \in RunningStatuses
        /\ status = "architecting" => verdict # "none"
        BY <1>3 DEF Enter, RunInv, RunTypeOK, PlaceInv, CountInv
  <2>2. Life!Advance(1) BY <1>3, <2>1, LifeOfOne DEF Enter, Life!Advance
  <2> QED BY <2>2 DEF Life!LifeNext
<1>4. CASE Audited
  <2>1. status = "architecting" /\ verdict = "none" BY <1>4 DEF Audited, VerdictInv
  <2>2. Life!Audit(1) BY <1>4, <2>1 DEF Audited, Life!Audit, Life!Verdicts
  <2> QED BY <2>2 DEF Life!LifeNext
<1>5. CASE \/ Check \/ Post \/ PollOut \/ Ideated \/ NextQuery \/ Searched
           \/ Row \/ TimePasses \/ StopRequested \/ SessionTurns \/ WorkerFinishes \/ UNCHANGED vars
  <2>1. UNCHANGED <<status, verdict>>
        BY <1>5 DEF Check, Post, PollOut, Ideated, NextQuery, Searched, Row,
                    TimePasses, StopRequested, SessionTurns, WorkerFinishes, vars
  <2> QED BY <2>1 DEF Life!lifeVars
<1> QED BY <1>1, <1>2, <1>3, <1>4, <1>5, <1>6
        DEF Next, Step, Faults, Env, Queue, Research

\* From the first write to the commander, what state.json shows of a run is a
\* behaviour of the abstract lifecycle, for all ceilings and however it fails.
THEOREM RunImplementsLifecycle == Spec => ImplementsLifecycle
<1>1. Init => Life!LifeInit BY DEF Init, Life!LifeInit
<1>2. Init => VerdictInv BY DEF Init, VerdictInv
<1>3. RunInv /\ VerdictInv /\ [Next]_vars => [Life!LifeNext]_(Life!lifeVars)
      BY RunStepIsLife
<1> QED BY <1>1, <1>2, <1>3, RunInvariant, VerdictStep, PTL
        DEF Spec, ImplementsLifecycle, Life!LifeSpec

-----------------------------------------------------------------------------
(* Progress.  RunEnds itself needs fairness and stays with TLC; what makes *)
(* it true is that a run has only so many steps to make.  StepsLeft counts *)
(* them down: a job is at most JobSteps, a query four, and a poll loop has *)
(* no more rounds than there is time up to the deadline of the run.        *)

\* From the check before a model job to the enter after it.
JobSteps == 2 * MaxRunTime + 4

\* Steps left when the stage of this status has returned.
AfterStage(s) ==
  CASE s = "architecting" -> 1
    [] s = "researching"  -> 2 + JobSteps
    [] s = "ideating"     -> 4 + JobSteps + 4 * MaxQueries
    [] OTHER              -> 5 + 2 * JobSteps + 4 * MaxQueries

QueriesLeft == 4 * (MaxQueries - rows)

StepsLeft ==
  CASE at = "ended"  -> 0
    [] at = "new"    -> AfterStage("queued") + 1
    [] at = "enter"  -> AfterStage(status)
    [] at = "check" /\ status # "researching" -> AfterStage(status) + JobSteps
    [] at = "post"   -> AfterStage(status) + JobSteps - 1
    [] at = "poll"   -> AfterStage(status) + 2 + 2 * (MaxRunTime - clock)
    [] at = "look"   -> AfterStage(status) + 1 + 2 * (MaxRunTime - clock)
    [] at = "query"  -> AfterStage("researching") + 1 + QueriesLeft
    [] at = "check" /\ status = "researching" -> AfterStage("researching") + QueriesLeft
    [] at = "search" -> AfterStage("researching") + QueriesLeft - 1
    [] at = "urls"   -> AfterStage("researching") + QueriesLeft - 2

MostSteps == AfterStage("queued") + 1

Ended == status \in {"awaiting_commander", "error"}

CountsDown == StepsLeft \in 0..MostSteps /\ (StepsLeft = 0 <=> Ended)

StepCounts == /\ Step \/ Faults => StepsLeft' < StepsLeft
              /\ Env => StepsLeft' <= StepsLeft

\* The measure is a number, and nothing is left exactly when the run is over.
LEMMA Measured == RunInv => CountsDown
<1> SUFFICES ASSUME RunInv PROVE CountsDown OBVIOUS
<1> USE RunAssumption
    DEF RunInv, RunTypeOK, Places, PlaceInv, StepsLeft, AfterStage, MostSteps,
        JobSteps, QueriesLeft, Times, RunningStatuses, Ended, CountsDown
<1>1. /\ MaxRunTime \in Nat /\ MaxQueries \in Nat
      /\ clock \in 0..MaxRunTime /\ rows \in 0..MaxQueries
      BY DEF Times
<1>3. at = "search" \/ at = "urls" => rows < MaxQueries
      BY ToAskBound DEF CountInv
<1>4. CASE at = "ended"
  <2>1. Ended BY <1>4
  <2>2. StepsLeft = 0 /\ MostSteps \in Nat BY <1>1, <1>4
  <2> HIDE DEF StepsLeft, MostSteps, Ended
  <2> QED BY <2>1, <2>2
<1>5. CASE at # "ended"
  <2>1. ~Ended BY <1>5
  <2>2. StepsLeft \in 1..MostSteps
    <3>1. CASE at = "new"    BY <1>1, <3>1
    <3>2. CASE at = "enter"  BY <1>1, <3>2
    <3>3. CASE at = "check" /\ status # "researching" BY <1>1, <3>3
    <3>4. CASE at = "post"   BY <1>1, <3>4
    <3>5. CASE at = "poll"   BY <1>1, <3>5
    <3>10. CASE at = "look"  BY <1>1, <3>10
    <3>6. CASE at = "query"  BY <1>1, <3>6
    <3>7. CASE at = "check" /\ status = "researching" BY <1>1, <3>7
    <3>8. CASE at = "search" BY <1>1, <1>3, <3>8
    <3>9. CASE at = "urls"   BY <1>1, <1>3, <3>9
    <3> QED BY <1>5, <3>1, <3>2, <3>3, <3>4, <3>5, <3>6, <3>7, <3>8, <3>9, <3>10
  <2>3. MostSteps \in Nat BY <1>1
  <2> HIDE DEF StepsLeft, MostSteps, Ended
  <2> QED BY <2>1, <2>2, <2>3
<1> QED BY <1>4, <1>5

\* One step of the run: each action by its own count.
LEMMA StepsDown ==
  ASSUME RunInv, RunInv', Step \/ Faults
  PROVE  StepsLeft' < StepsLeft
<1> USE RunAssumption
    DEF StepsLeft, AfterStage, JobSteps, QueriesLeft, Times, guardVars, queueVars,
        workVars, envVars
<1>0. /\ MaxRunTime \in Nat /\ MaxQueries \in Nat /\ rows \in 0..MaxQueries
      /\ clock \in 0..MaxRunTime /\ clock' \in 0..MaxRunTime
      BY DEF RunInv, RunTypeOK
<1>1. at # "ended" => StepsLeft > 0
  <2>1. at # "ended" => ~Ended
        BY DEF RunInv, PlaceInv, Ended
  <2>2. MostSteps \in Nat BY <1>0 DEF MostSteps
  <2> HIDE DEF StepsLeft, MostSteps
  <2> QED BY <2>1, <2>2, Measured DEF CountsDown
<1>2. CASE \/ Refuse \/ Raises \/ PostFails \/ PollFails \/ JobRefused \/ SearchRefused
           \/ Look /\ clock >= deadline
  <2>1. at # "ended" /\ at' = "ended"
        BY <1>2 DEF Refuse, Raises, PostFails, PollFails, Look, JobRefused,
                    SearchRefused, Fails
  <2> HIDE DEF StepsLeft
  <2>2. StepsLeft' = 0 BY <2>1 DEF StepsLeft
  <2> QED BY <1>1, <2>1, <2>2
<1>3. CASE Queued BY <1>0, <1>3 DEF Queued
<1>4. CASE Enter
  <2>1. status \in RunningStatuses
        BY <1>4 DEF Enter, RunInv, RunTypeOK, PlaceInv
  <2> QED BY <1>0, <1>4, <2>1 DEF Enter, NextStatus, RunningStatuses, RunInv, CountInv
<1>5. CASE Check BY <1>0, <1>5 DEF Check
<1>6. CASE Post    BY <1>0, <1>6 DEF Post
<1>7. CASE PollOut BY <1>0, <1>7 DEF PollOut
<1>12. CASE Look /\ ~(clock >= deadline)
  <2>1. deadline \in 0..MaxRunTime BY DEF RunInv, RunTypeOK
  <2>2. clock < MaxRunTime BY <1>0, <1>12, <2>1
  <2>3. clock' > clock BY <1>0, <1>12, <2>2, LaterBound DEF Look
  <2>4. at = "look" /\ at' = "poll" /\ status' = status BY <1>12 DEF Look
  <2> QED BY <1>0, <2>3, <2>4
<1>8. CASE Ideated \/ Audited BY <1>0, <1>8 DEF Ideated, Audited
<1>9. CASE NextQuery
  <2>1. status = "researching"
        BY <1>9 DEF NextQuery, RunInv, RunTypeOK, PlaceInv, RunningStatuses
  <2> QED BY <1>0, <1>9, <2>1 DEF NextQuery
<1>10. CASE Searched BY <1>0, <1>10 DEF Searched
<1>11. CASE Row
  <2>1. rows' = rows + 1 /\ at = "urls" /\ at' = "query" BY <1>11 DEF Row
  <2> QED BY <1>0, <2>1
<1> QED BY <1>2, <1>3, <1>4, <1>5, <1>6, <1>7, <1>8, <1>9, <1>10, <1>11, <1>12
        DEF Step, Faults, Queue, Research

\* Nobody but the run itself moves it; the time that passes leaves it fewer looks.
LEMMA EnvLeavesSteps ==
  ASSUME RunInv, Env
  PROVE  StepsLeft' <= StepsLeft
<1>0. /\ MaxRunTime \in Nat /\ MaxQueries \in Nat /\ rows \in 0..MaxQueries
      /\ clock \in 0..MaxRunTime
      BY RunAssumption DEF RunInv, RunTypeOK, Times
<1>1. StepsLeft \in Nat BY <1>0, Measured DEF CountsDown, MostSteps, AfterStage, JobSteps
<1>2. CASE StopRequested \/ SessionTurns \/ WorkerFinishes
  <2>1. StepsLeft' = StepsLeft
        BY <1>2 DEF StopRequested, SessionTurns, WorkerFinishes, StepsLeft, AfterStage,
           QueriesLeft, guardVars, queueVars, workVars, envVars
  <2> HIDE DEF StepsLeft
  <2> QED BY <1>1, <2>1
<1>3. CASE TimePasses
  <2>1. UNCHANGED <<at, status, rows>> /\ clock' = clock + 1
        BY <1>3 DEF TimePasses, workVars
  <2>2. CASE at \in {"poll", "look"}
        BY <1>0, <2>1, <2>2 DEF StepsLeft, AfterStage, JobSteps
  <2>3. CASE at \notin {"poll", "look"}
    <3>1. StepsLeft' = StepsLeft BY <2>1, <2>3 DEF StepsLeft, AfterStage, QueriesLeft
    <3> HIDE DEF StepsLeft
    <3> QED BY <1>1, <3>1
  <2> QED BY <2>2, <2>3
<1> QED BY <1>2, <1>3 DEF Env

\* For all ceilings a run has never more than MostSteps steps to make, and none
\* exactly when it is with the commander or in ERROR.
THEOREM StepsAreBounded == Spec => []CountsDown
  BY RunInvariant, Measured, PTL

\* Every step of the run, a failing call included, leaves fewer of them, and what
\* the time, the operator, the session and the workers do leaves no more: a run
\* that keeps making steps ends, and only one that waits for ever does not.
THEOREM EveryStepCounts == Spec => [][StepCounts]_vars
<1>1. RunInv /\ RunInv' /\ [Next]_vars => [StepCounts]_vars
  <2> SUFFICES ASSUME RunInv, RunInv', Next PROVE StepCounts OBVIOUS
  <2>1. Step \/ Faults => StepsLeft' < StepsLeft BY StepsDown
  <2>2. Env => StepsLeft' <= StepsLeft BY EnvLeavesSteps
  <2> QED BY <2>1, <2>2 DEF StepCounts
<1> QED BY <1>1, RunInvariant, PTL DEF Spec
=============================================================================
