---------------------------- MODULE SkunkworksRun ----------------------------
(***************************************************************************)
(* One run inside its process: the stages of Pipeline.run, the guard asked *)
(* before every model job, the queue job that is posted and polled, and    *)
(* the research queries.  Time may pass anywhere, as long as it likes:     *)
(* POST and GET, the callbacks and the urls of an answer have no limit of  *)
(* their own in this code.  Each action that persists does so in one step; *)
(* what other processes see between two writes, and what a kill leaves, is *)
(* module Skunkworks.                                                      *)
(***************************************************************************)
EXTENDS Integers

CONSTANTS MaxJobs,     \* MAX_JOBS_PER_RUN
          MaxQueries,  \* MAX_RESEARCH_QUERIES
          MaxRunTime,  \* MAX_RUN_SECONDS
          JobTimeout,  \* JOB_TIMEOUT_SECONDS
          PollTime,    \* POLL_SECONDS
          MaxWanted    \* bound: queries an ideation asks for

Times == {MaxRunTime, JobTimeout, PollTime}

ASSUME RunAssumption == /\ {MaxQueries, MaxWanted} \subseteq Nat
                        /\ Times \subseteq Nat \ {0}
                        /\ MaxJobs \in Nat /\ MaxJobs >= MaxQueries + 2

VARIABLES status,    \* state.json: RunStatus, "none" before the first write
          verdict,   \* the architecture's verdict, "pass" for APPROVED_FOR_BUILD
          at,        \* where the process is
          clock,     \* time since JobGuard was made, up to MaxRunTime: the code
                     \* makes no difference between later times
          deadline,  \* of the poll loop
          jobsUsed,  \* JobGuard.jobs_used
          wanted,    \* usable queries in the ideation's output
          cut,       \* RunState.cut_queries
          rows,      \* results of the research stage so far
          job,       \* the queue's answer about the job being polled
          out,       \* jobs of this run the queue has not finished
          stop,      \* the STOP file is there
          session,   \* the US cash session is open
          error      \* why the run is in ERROR

guardVars == <<clock, jobsUsed>>
queueVars == <<deadline, job, out>>
workVars  == <<wanted, cut, rows, verdict>>
envVars   == <<stop, session>>
vars == <<status, verdict, at, clock, deadline, jobsUsed, wanted, cut, rows, job,
          out, stop, session, error>>

RunningStatuses == {"queued", "ideating", "researching", "architecting"}
Refusals == {"session", "stop", "jobs", "clock"}
Errors   == {"none", "exception", "queue", "timeout", "job", "answer", "research"} \union Refusals
Places   == {"new", "enter", "check", "post", "poll", "look", "query", "search", "urls", "ended"}

Least(a, b) == IF a < b THEN a ELSE b
Most(a, b)  == IF a > b THEN a ELSE b

\* Mutant: nothing is cut.
ToAskUncut == wanted

\* Queries past MAX_RESEARCH_QUERIES are cut: recorded, never sent.
ToAsk == Least(wanted, MaxQueries)

Init == /\ status = "none" /\ verdict = "none" /\ at = "new" /\ error = "none"
        /\ clock = 0 /\ deadline = 0 /\ jobsUsed = 0
        /\ wanted = 0 /\ cut = 0 /\ rows = 0
        /\ job = "none" /\ out = 0
        /\ stop = FALSE /\ session = FALSE

\* Anything that raises inside Pipeline.run makes the run ERROR, for good.
Fails(why) == /\ status' = "error"
              /\ at' = "ended"
              /\ error' = why

-----------------------------------------------------------------------------
(* Pipeline.run.                                                           *)

Queued ==
    /\ at = "new"
    /\ status' = "queued"
    /\ at' = "enter"
    /\ UNCHANGED <<guardVars, queueVars, workVars, envVars, error>>

\* Mutant: a run goes from ideation straight to the architect.
NextStatusSkips == [queued |-> "ideating", ideating |-> "architecting",
                    researching |-> "architecting", architecting |-> "awaiting_commander"]

NextStatus == [queued |-> "ideating", ideating |-> "researching",
               researching |-> "architecting", architecting |-> "awaiting_commander"]

\* The stage before has returned, its output is saved and on_stage has run.  What
\* the research stage will not ask is recorded before its first query.
Enter ==
    /\ at = "enter"
    /\ status' = NextStatus[status]
    /\ at' = CASE status = "architecting" -> "ended"
               [] status = "ideating"     -> "query"
               [] OTHER                   -> "check"
    /\ cut' = IF status = "ideating" THEN wanted - ToAsk ELSE cut
    /\ UNCHANGED <<guardVars, queueVars, wanted, rows, verdict, envVars, error>>

\* A write, a callback, the missing runner, the transport: whatever raises, but
\* for what the loop over the queries turns into a row.
Raises ==
    /\ at \notin {"ended", "search", "urls"}
    /\ at = "check" => status # "researching"
    /\ Fails("exception")
    /\ UNCHANGED <<guardVars, queueVars, workVars, envVars>>

-----------------------------------------------------------------------------
(* JobGuard.check: session window, stop file, job count, wall clock.       *)

Remaining == MaxRunTime - clock
Later(t)  == Least(clock + t, MaxRunTime)

\* The first ceiling that refuses.
Refusal == CASE session             -> "session"
             [] stop                -> "stop"
             [] jobsUsed >= MaxJobs -> "jobs"
             [] Remaining <= 0      -> "clock"
             [] OTHER               -> "none"

Check ==
    /\ at = "check"
    /\ Refusal = "none"
    /\ jobsUsed' = jobsUsed + 1
    /\ at' = IF status = "researching" THEN "search" ELSE "post"
    /\ UNCHANGED <<status, clock, queueVars, workVars, envVars, error>>

Refuse ==
    /\ at = "check"
    /\ Refusal # "none"
    /\ Fails(Refusal)
    /\ UNCHANGED <<guardVars, queueVars, workVars, envVars>>

-----------------------------------------------------------------------------
(* QueueRunner: one job posted, polled to a terminal state.                *)

\* Mutant: the deadline forgets the wall clock of the run.
PostUncapped ==
    /\ at = "post"
    /\ job' = "out"
    /\ out' = out + 1
    /\ deadline' = clock + JobTimeout
    /\ at' = "poll"
    /\ UNCHANGED <<status, guardVars, workVars, envVars, error>>

\* The POST may last; the deadline is counted from its answer.
Post ==
    /\ at = "post"
    /\ job' = "out"
    /\ out' = out + 1
    /\ deadline' = clock + Least(JobTimeout, Most(Remaining, 0))
    /\ at' = "poll"
    /\ UNCHANGED <<status, guardVars, workVars, envVars, error>>

\* Mutant: a POST that fails is tried again.
PostRetried ==
    /\ at = "post"
    /\ out' = out + 1
    /\ UNCHANGED <<status, at, guardVars, deadline, job, workVars, envVars, error>>

\* Not 200; or no answer at all, and the queue may have the job or not.
PostFails ==
    /\ at = "post"
    /\ Fails("queue")
    /\ out' \in {out, out + 1}
    /\ UNCHANGED <<guardVars, deadline, job, workVars, envVars>>

\* The GET says the job is not finished.
PollOut ==
    /\ at = "poll"
    /\ job = "out"
    /\ at' = "look"
    /\ UNCHANGED <<status, guardVars, queueVars, workVars, envVars, error>>

\* Mutant: nobody looks at the clock.
LookNever ==
    /\ at = "look"
    /\ clock' = Later(PollTime)
    /\ at' = "poll"
    /\ UNCHANGED <<status, jobsUsed, queueVars, workVars, envVars, error>>

\* Too late: the job stays with the queue, nothing takes it back.  Otherwise the
\* run sleeps and asks again.
Look ==
    /\ at = "look"
    /\ IF clock >= deadline
         THEN Fails("timeout") /\ UNCHANGED clock
         ELSE /\ clock' = Later(PollTime)
              /\ at' = "poll"
              /\ UNCHANGED <<status, error>>
    /\ UNCHANGED <<jobsUsed, queueVars, workVars, envVars>>

PollFails ==
    /\ at = "poll"
    /\ Fails("queue")
    /\ UNCHANGED <<guardVars, queueVars, workVars, envVars>>

\* The queue says failed; result_json cannot be read; the labels are not the
\* lane and the model asked for; the text holds no JSON object.
JobRefused ==
    /\ at = "poll"
    /\ \/ job = "failed" /\ Fails("job")
       \/ job = "done"   /\ Fails("answer")
    /\ UNCHANGED <<guardVars, queueVars, workVars, envVars>>

Ideated ==
    /\ at = "poll" /\ job = "done" /\ status = "ideating"
    /\ wanted' \in 0..MaxWanted
    /\ at' = "enter"
    /\ UNCHANGED <<status, guardVars, queueVars, cut, rows, verdict, envVars, error>>

Audited ==
    /\ at = "poll" /\ job = "done" /\ status = "architecting"
    /\ verdict' \in {"pass", "fail"}
    /\ at' = "enter"
    /\ UNCHANGED <<status, guardVars, queueVars, wanted, cut, rows, envVars, error>>

Queue == Post \/ PollOut \/ Look \/ JobRefused \/ Ideated \/ Audited

-----------------------------------------------------------------------------
(* _stage_research and ResearchRunner, one query after the other.          *)

\* Mutant: the last query is left out.
NextQueryOffByOne ==
    /\ at = "query"
    /\ at' = IF rows + 1 < ToAsk THEN "check" ELSE "enter"
    /\ UNCHANGED <<status, guardVars, queueVars, workVars, envVars, error>>

NextQuery ==
    /\ at = "query"
    /\ at' = IF rows < ToAsk THEN "check" ELSE "enter"
    /\ UNCHANGED <<status, guardVars, queueVars, workVars, envVars, error>>

\* claude -p runs, as long as RESEARCH_TIMEOUT lets it.
Searched ==
    /\ at = "search"
    /\ at' = "urls"
    /\ UNCHANGED <<status, guardVars, queueVars, workVars, envVars, error>>

\* No binary, timed out, exit code, unparseable, no search done.
SearchRefused ==
    /\ at = "search"
    /\ Fails("research")
    /\ UNCHANGED <<guardVars, queueVars, workVars, envVars>>

\* The urls have been fetched, one by one, however many the answer has.  A row
\* either way: any exception that is not a refusal is the row of its query.
Row ==
    /\ at = "urls"
    /\ rows' = rows + 1
    /\ at' = "query"
    /\ UNCHANGED <<status, guardVars, queueVars, wanted, cut, verdict, envVars, error>>

Research == NextQuery \/ Searched \/ SearchRefused \/ Row

-----------------------------------------------------------------------------
(* The world: the time, the operator's STOP, the session, the workers.     *)

\* Wherever the run is, whatever it waits for may last.
TimePasses ==
    /\ at # "ended" /\ clock < MaxRunTime
    /\ clock' = clock + 1
    /\ UNCHANGED <<status, at, jobsUsed, queueVars, workVars, envVars, error>>

StopRequested ==
    /\ ~stop
    /\ stop' = TRUE
    /\ UNCHANGED <<status, at, guardVars, queueVars, workVars, session, error>>

SessionTurns ==
    /\ session' = ~session
    /\ UNCHANGED <<status, at, guardVars, queueVars, workVars, stop, error>>

WorkerFinishes ==
    /\ job = "out"
    /\ job' \in {"done", "failed"}
    /\ out' = out - 1
    /\ UNCHANGED <<status, at, guardVars, deadline, workVars, envVars, error>>

-----------------------------------------------------------------------------
Step   == Queued \/ Enter \/ Check \/ Refuse \/ Queue \/ Research
Faults == Raises \/ PostFails \/ PollFails
Env    == TimePasses \/ StopRequested \/ SessionTurns \/ WorkerFinishes
Next   == Step \/ Faults \/ Env

Spec == Init /\ [][Next]_vars

\* The process runs.  No call has to fail, no worker has to answer, nobody has
\* to stop the run.
FairSpec == Spec /\ WF_vars(Step)

-----------------------------------------------------------------------------
(* Properties.                                                             *)

RunTypeOK ==
    /\ status \in {"none", "awaiting_commander", "error"} \union RunningStatuses
    /\ verdict \in {"none", "pass", "fail"}
    /\ at \in Places
    /\ {clock, deadline} \subseteq 0..MaxRunTime
    /\ jobsUsed \in 0..MaxJobs
    /\ {wanted, cut} \subseteq 0..MaxWanted /\ rows \in 0..MaxQueries
    /\ job \in {"none", "out", "done", "failed"} /\ out \in Nat
    /\ stop \in BOOLEAN /\ session \in BOOLEAN
    /\ error \in Errors

\* ceilings.py MAX_RUN_SECONDS: when the ceiling has passed, during a POST or a
\* GET too, no job is counted and the poll loop does not sleep for another look.
\* How long what was begun before may last, no line of the code says.
NothingBegunLate ==
    [][jobsUsed' # jobsUsed \/ (at = "look" /\ at' = "poll") => clock < MaxRunTime]_vars

\* ceilings.py MAX_JOBS_PER_RUN: "ideation 1 + research up to
\* MAX_RESEARCH_QUERIES + architect 1" is what the stages use, so a run is never
\* refused its architect for the number of its jobs.
NeverOutOfJobs == error # "jobs"

\* runners.py QueueRunner: "so a run never has two jobs out".
OneJobOut == out <= 1

\* pipeline.py _stage_research: when the architect is asked, and when the
\* commander is, every query the ideation wanted has exactly one row or is
\* recorded as cut, and every job was counted exactly once.
NothingDropped ==
    /\ status \in {"architecting", "awaiting_commander"} => rows + cut = wanted
    /\ status = "awaiting_commander" => /\ jobsUsed = 2 + rows
                                        /\ verdict # "none"

\* pipeline.py, runners.py: whatever the queue and its workers do or leave
\* undone, a run comes to the commander or to ERROR.
RunEnds == <>(status \in {"awaiting_commander", "error"})

\* The run goes through the abstract lifecycle.
Life == INSTANCE RunLifecycle WITH
          Runs <- {1},
          status  <- [r \in {1} |-> status],
          verdict <- [r \in {1} |-> verdict]

ImplementsLifecycle == Life!LifeSpec
=============================================================================
