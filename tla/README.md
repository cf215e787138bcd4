# swarph-mesh in TLA+

A verification development for the Python package in `src/src/swarph_mesh`: TLA+
modules translated from its source, TLC runs over small instances, and TLAPS
proofs for every instance. Paths below are relative to that package unless they
start with `src/`.

## The system

`swarph-mesh` gives every command-line "cell" one way to call a language model
and one way to talk to other cells. Its parts:

| Part | State it keeps | Operations | Talks to |
|---|---|---|---|
| **Skunkworks cell** `skunkworks/service.py, ceilings.py, pipeline.py, state.py, artifacts.py, gate.py` | one directory per cell: `.lock`, and per run `state.json`, three stage outputs, `assessment.json` | `start_run` (lock, sweep of dead runs, daily cap, pipeline), `Pipeline.approve` from another process | other processes, only through the files |
| **Skunkworks run** `skunkworks/runners.py`, `JobGuard` | job count, wall clock, the job being polled, research rows | guard, post, poll, research query | the gateway's job queue, `claude -p`, web servers |
| **Swarph call** `swarph_call.py, json_harness.py, hooks.py, attribution.py` | a lazily made adapter, the attribution file | `chat`: hooks, dispatch with a timeout, one JSON retry, attribution | an adapter |
| **Adapter registry** `registry/` | specs by capability, probe results, published entries | `register`, `resolve`, `probe_all`, publish, index | probes, the gateway |
| **Mesh client** `mesh_client.py` | one HTTP client | `send`, `fetch`, `mark_read`, `aclose` | the gateway |
| **Discovery** `discovery.py` | catalog, pricing and cost caches | `list_models`, fetches with fallbacks, invalidation | provider HTTP APIs |
| **Adapters** `adapters/` | a table of singletons | `chat`: translate, call, parse | provider APIs and CLIs |

### What is hard, and what makes each part correct

* **Skunkworks cell.** Nothing but files coordinates the processes: the lock is a
  file with a pid in it, "dead" means `kill(pid, 0)` fails, the state of a run is
  a JSON file its owner, a sweeper and a decider may all write. Hard: two starts
  between two system calls, a kill between two writes, midnight between the
  count and the name, a decision while the owner is still in its last call.
  Correct when there is one live run, the cap holds for every day, a run shown to
  the commander has its evidence on disk, the gate holds in every file, a decision
  is final, and nothing the dead have left in `.lock` keeps a start out.
* **Skunkworks run.** Hard: ceilings asked in one place and consumed in another,
  polls against a deadline derived from the clock, a queue that may never answer,
  refusals that must end the run and exceptions that must not. Correct when the
  jobs and queries are accounted for, nothing is begun past a ceiling, at most
  one job is out, and the run always ends.
* **Swarph call.** Hard: a timeout against an answer, a second paid leg, hooks
  that fail, cancellation. Correct when every answer that was paid for and
  returned is attributed with the sum of its legs, what is missing from the row is
  visible in it, every failure is told, and everything put on disk was tried to be removed.
* **Registry.** No lock: a probe answers after its spec was replaced, `probe_all`
  writes back what it read, and publishers read, merge and write while the cell's
  daemon replaces everything. Correct when every entry is of a spec that was probed
  and admitted, a request gets the lane the rules name, and the gateway shows
  registered adapters, once each.
* **Mesh client.** Hard: an answer that is lost after the DM arrived, a request that
  arrives after its caller gave up, a client closed under a request. Correct when a
  DM is never doubled without cause, a fetch is exact, and no connection pool leaks.
* **Discovery.** Hard: a slow fetch against a newer one, a fetch in flight across an
  invalidation, an error in the middle of a list. Correct when what a cache serves
  is no older than its time to live and the calls that made it, and complete.

## Modules

| Module | Models | Extends |
|---|---|---|
| `RunLifecycle` | what a run promises to a reader of `state.json`: the order of the statuses, one decision, the gate (abstract) | |
| `Skunkworks` | one cell: processes in `start_run`, deciders, the files | |
| `SkunkworksRun` | one run with time: guard, queue job, research loop | |
| `SwarphCall` | one `chat` call: hooks, dispatch, timeout, retry, fold, attribution, cancellation | |
| `Discovery` | the threads that call `discovery.py`, and the cache of one listing | |
| `AdapterRegistry` | the threads that register, probe and publish adapters; the gateway's entry of the cell | |
| `MeshClient` | the tasks that share one `MeshClient`; the gateway's DMs | |
| `MC<module>` | instances for TLC | each of the above but the first |
| `<module>Proofs` | theorems | the module, `TLAPS` |
| `SkunkworksDecisionProofs` | theorems about the verdict, the commander's decision and the lifecycle | `SkunkworksProofs` |

`Skunkworks` and `SkunkworksRun` look at the same pipeline from two sides. In the
first a stage is one step that returns or raises, and every file operation is a
step of its own, since another process may come between two of them. In the
second a stage is taken apart, and the files are left alone. Both implement
`RunLifecycle` (property `ImplementsLifecycle` of either, by `INSTANCE ... WITH`), which
is checked by a run and proved for each.

### `Skunkworks`: state and actions against the code

* `pc[p]` is the place of process `p` in `start_run`; a process calls it once, so
  its run is named by its pid. `lock` is the file `.lock`: who created it, and the
  pid in it (`NoPid` when it is empty, which is what `acquire` reads as 0).
* `hand[p]`, `target[p]` are the `RunState` object in memory, `disk[r]` is
  `state.json`, `files[r]` counts the stage outputs on disk, `assessed[r]` is
  `assessment.json`. A `RunState` is cut down to its status, how many stage
  outputs it holds, and whether the architect said `APPROVED_FOR_BUILD`.
* `LockCreate` .. `LockWrite` are the system calls of `RunLock.acquire`, one each;
  `AcquireRaises` is any of them failing, or an interrupt there, which no `finally`
  cleans up after. `pc` tells a start that was `"refused"` the lock from one that is
  `"done"`. `met[p]` is history: whether another process lived at some moment since
  `p` began to acquire.
* `Release` is `RunLock.release`, which catches `FileNotFoundError` only;
  `ReleaseFails` is any other error of the unlink, or an interrupt in the `finally`.
  The lock then names a live process that has left its run, and the cell is locked
  for as long as that process lives. `Sweep*` is `sweep_dead_runs`: list, read,
  probe, then the two halves of `persist`. `CapCheck` and `Create` are the count and
  the stamp, between which `Midnight` may fall. `WriteState`/`WriteFiles` are the
  halves of `persist`; `StageReturns`/`StageRaises` a stage; `HookReturns`,
  `HookRaises` the caller's `on_stage`; `PersistFails` a write that raises.
  `Raises` is what the `except` of `Pipeline.run` does, and what an exception
  inside the `except` does. `Interrupt` is `KeyboardInterrupt`, which only the
  `finally` sees; `Crash` is a kill.
* `DecideLoad`, `Approve`, `Assess` are `swarph skunkworks decide`: load, check and
  write `state.json`, then `assessment.json`. The command is outside this
  repository; that it loads a state and passes it to `approve` is its interface.
* `OverlappingStarts` and `LateFailures` are assumptions made visible: whether two
  starts may be inside `acquire` at once, and whether a call may fail once the run
  awaits the commander. The runs say which properties need which.

### `SkunkworksRun`: state and actions against the code

* `clock` is the time since `JobGuard` was made. `TimePasses` moves it wherever the
  run is: a POST, a GET, a callback and the url checks of an answer (a list without a
  limit) take as long as they take, and nothing here bounds them. It stops at
  `MaxRunTime`, since the code makes no difference between later times. `deadline` is
  the poll loop's: `PollOut` is a GET that says the job is not finished, `Look` the one
  `if` after it, which gives up or sleeps. `cut` is `cut_queries`. `out` counts the jobs the queue has not finished, `job` is what it
  says of the one being polled.
* `Check` and `Refuse` are `JobGuard.check`, with its ceilings in the code's order;
  `Post` .. `Audited` are `QueueRunner.__call__`; `NextQuery`, `Searched`,
  `SearchRefused`, `Row` are the research loop with `ResearchRunner.__call__`.
  `Raises` is any other exception. `StopRequested`, `SessionTurns` and
  `WorkerFinishes` are the world.

### `SwarphCall`: state and actions against the code

* A step of the call ends at an `await`: nothing else runs in the event loop before,
  and a cancellation arrives there. `at` is the await the call is in, `hook` the index
  of the loop over a list of hooks, `why` the exception on its way out.
* `work`, `billed` are the provider's side of the two legs: `asyncio.to_thread` and an
  HTTP request go on after `wait_for` has given up on them, and `WorkDone` may happen at
  any time. `home` follows the prompt file or directories of a text CLI: there, gone, or
  left. `CleanUp` is the `finally` of their adapters, which swallows what it cannot remove
  (`rmtree(ignore_errors=True)`, `except OSError: pass`), so it may leave them.
* `legs[l]` is the `LLMResponse` of a leg as the adapter made it, `resp` the object that
  `chat` changes and returns, `row` what was written. A response is cut down to one
  token count, one `Optional` count (`thinking` stands for the four fields that are folded
  alike), cost, basis, and whether its text parses. `parsed` names the leg it came from.
* `kind` is what an adapter can report (`Answers`): metered APIs (gemini, deepseek, openai,
  grok) a usage block or none, `claude -p` a list price or none, gemini-cli and agy tokens
  and no price, grok-cli and vibe-cli text only.
* `Resolve`, `PreHook`, `Dispatch`, `Answered`, `AdapterRaises`, `TimesOut`, `ErrorHook`,
  `Reraise`, `OtherHook`, `Write`, `Return` are `chat`; `RetryAnswered` (with `Fold` and
  `Judge`) and `RetryRaises` are `parse_with_retry` and the fold after it. `CancelInHook`,
  `CancelDispatch` and `CancelRetry` are `CancelledError` at each await: `except Exception`
  does not stop it, `except BaseException` around the dispatch does.

### `Discovery`: state and actions against the code

* `what` says which of the five listings a behaviour is about. The model catalog and
  Gemini's prices are `Cached` in a pair of globals, here `cache` and `stamp`; OpenAI's
  costs and the prices are `Paged`; xAI's usage and DeepSeek's balance are one request.
* A listing is cut down to when its first page was read (`since`), its pages, whether the
  last one named another (`more`), and whose models its usable entries are (`of`: the
  developers of what `_parse_aimlapi_entry` accepts).
* `asked[t]` are the developers whose models the caller of `list_models` wants: all, one, or
  one the catalog has never heard of. The code looks at it only when it has a listing, so
  `Ask` chooses it there; `Answer` is the filter over what was found, or the providers
  `Fallback` asked.
* `Check`, `Stamped`, `Age`, `Read` are the single reads of the globals in `list_models` /
  `_is_cache_fresh` and in the cache hit of `fetch_gemini_pricing`. Between two of them
  another thread may invalidate or store: that the catalog's `_catalog_fetched_at` is `None`
  by the time it is subtracted (TypeError), and that the price list is gone by the time it
  is indexed (KeyError), are the two ways to `raised` there.
* `AnotherPage`, `LastPage`, `Fails`, `Breaks` are what a provider may answer: the errors
  each fetch catches and what it returns for them (`Fails`), and those it does not
  (`Breaks`). `Store` and `Stamp` are the two writes, `Forget` and `ForgetStamp` those of
  the `invalidate_*` functions, `Fallback` the providers asked one by one.
* `Tick` is the passing of time, `MaxCall` the longest a call takes: every request has a
  timeout and the loops over pages are bounded. It is an assumption about the host, and
  the bounds on ages are stated in it.

### `AdapterRegistry`: state and actions against the code

* `order` and `entry` are `_entries`, a dict in insertion order. Of the results an entry
  keeps `of`, the spec they were found for, and whether one is a FAIL. `latest`, `crossed`
  and `lost` only record: what `register` last stored, the names stored while a `probe_all`
  held results of them, and while it was between its second read and its write.
* `G1` .. `G6` are the probes with the statuses each can return; `dirty` is the config home
  `_g4_config` looks at, the only one that can FAIL. A runner that returns no `str`, or a provenance file that goes
while it is read, raises (`MayRaise`). `Probe`, `ProbeRaises`, `Store` are
  `register`. `Get`, `Post`, `HookFails` are its hook (`make_indexer_hook` over
  `gateway_publisher`), `caps` what the gateway has of the cell, `Snapshot` the daemon that
  registers the cell anew (`publish.py`, DURABILITY NOTE). A `Post` whose answer is lost
  raises although it was done.
* `ProbeAll`, `Worker`, `WorkerRaises`, `Judge`, `Reread`, `WriteBack` are `probe_all`: the
  workers read an entry and probe it, the results are judged, and name by name the entry
  is read again and written back.
* `resolve` and `Best` change nothing: they are operators over the positions of `_entries`,
  where "first" is the least position. They are checked in every reachable registry, and
  proved, against `RouteOK`, which says declaratively what a lane has to be.

### `MeshClient`: state and actions against the code

* A step is what runs between two awaits. `current`, `open`, `made` are `_client` and the
  `AsyncClient`s behind it, `Ensure` is `_ensure_client`, `Close` and `Closed` are `aclose` up
  to and after its await. `raced` records that a client was made while one was in between.
* `net` are requests nobody has taken yet. `NoAnswer` (a timeout, a broken connection, a
  cancellation) ends a call and leaves its request in `net` if it would change something,
  so it may be served after the call, after its retry, or never.
* `Send`, `Fetch`, `MarkRead`, `Other` are the calls, `Good` what `_request` and the models
  accept of an answer, `Handed` the filter of `fetch`. `validate_node_name` belongs to
  another package; it is the set of names it may return.
* A task has one DM to send and sends it again as long as it was told that it failed,
  which is the caller `mesh_types.py:42-46` speaks of. `Copies` are its DM at the gateway.
* The gateway (`Serve`, `Refuse`, `Arrive`, `Inbox`) is external: it does what it is asked
  once for each request that reaches it.

## Runs

| Run | Instance | Shows |
|---|---|---|
| `serial` | 2 processes, 1 decider, cap 1, 2 days; no overlap, no late failure | types, one live run, daily cap, the gate, assessment and state agree, a decision is final, the lifecycle |
| `faults` | 2 processes, a stale lock or none of a third, no decider, overlap and late failures allowed, fairness | evidence on disk, a start is refused the lock only when another process lived during its acquire, a start ends |
| `overlap` | 2 processes, overlap | **violation** of `OneLiveRun` |
| `two_deciders` | 1 process, 2 deciders | **violation** of `DecisionFinal` |
| `late_failure` | 1 process, 1 decider, late failures | **violation** of `DecisionFinal` |
| `one_run` | the real ceilings in units of 100 s, 9 queries wanted, fairness | types, nothing is begun past the ceiling, jobs are enough, one job out, every query a row or recorded as cut, the run ends, the lifecycle |
| `call` | 1 pre-call, 2 on_error, 3 post-call hooks with the writer in the middle, bills up to 2, fairness | types, the row is the sum of the legs, an undercount is visible, a returned call is attributed, parsed or classified, errors are told, what is on disk is tried to be removed, a timed call ends |
| `call_cancel` | the same | **violation** of `SuccessAttributed` |
| `call_basis` | the same | **violation** of `CostBasisHonest` |
| `discovery` | 2 threads, any of the listings, one developer of models, a time to live of 1, 2 pages, calls of at most 1, 3 units of time, fairness | types, the age of what is served, what survives an invalidation, no list cut by an error, no empty answer without the fallback or a provider filter, a store never goes far back, calls end |
| `registry` | 2 threads, 2 names, 3 specs, 4 calls, 1 daemon snapshot | types, entries are of admitted specs, the gateway shows registered adapters, the lane of every request |
| `mesh` | 2 tasks, 3 fetches, 3 calls, 2 DMs from outside, 3 clients made | types, how often a DM is sent, what a fetch returns, no client left open |

Deadlock is not checked: processes exit, days run out, runs and calls end, after
which nothing is left to do.

**Bounds.** `Before` is a process that died earlier: its stale lock makes the second round of
`acquire`, and giving up after it, happen with two live processes. Two processes race on the lock, and one sweeps the other: no action
looks at more than one other process. Two days put a midnight between any two
steps of both runs, and a cap of one is reached by the second. A third decider or
process adds no new pair. The nine wanted queries are one more than the code sends,
so the cut is taken; ten jobs are exactly used up. Time in units of 100 s keeps the
ratio of the constants (1800 and 600 s); a poll is one unit, longer than the 2 s of the
code, but any time may pass beside it, and `NothingBegunLate` and the number of steps of
a run are proved for every value. Two on_error hooks and a hook on either side of the writer
put a failing hook before and after each that must still run; bills of 0, 1 and 2 tell
a missing count, a reported zero, and two different legs apart, and the number of hooks
and the bill are arbitrary in the proofs. A call is modelled alone: two calls share
only a stateless adapter and the lock around one blocking append.

In `Discovery` one thread's call is compared with the other's, so two are enough, and
three units of time let a listing outlive its time to live and the call that stored it.
Two pages are the first and the last. One developer
makes three callers: of everything, of his models, and of a provider that has none. In `AdapterRegistry` four calls are two
registrations of one name around a `probe_all`, and a fourth; the three specs give a
name a lane of either kind and a request a choice of two metered ones. In `MeshClient` three calls are a
send, its repetition and a fetch or `mark_read`, or an `aclose` between two requests.
`MaxTime`, `MaxCalls`, `MaxSnapshots`, `MaxDMs` and `MaxMade` only bound the state space,
and are arbitrary in the proofs, as are the sets of threads, tasks, names and specs.

**Fairness.** `Skunkworks!FairSpec` has weak fairness of what each live process does
next when no call fails (`Progress`): the operating system schedules it. Nobody has
to start a run, decide, be interrupted or die. A stage is taken to answer, which is
`RunEnds` of `SkunkworksRun`. `SkunkworksRun!FairSpec` has weak fairness of the
process's own steps: sleeps and timeouts end. No worker of the queue ever has to
finish, and the run ends all the same. `SwarphCall!FairSpec` has weak fairness of the
task: the event loop runs what is ready and fires the timer, and hooks come back. No
provider has to answer. `TimedCallEnds` is about calls without a schema: the retry leg
has no timeout, and with a schema a timed call may wait for ever. `Discovery!FairSpec` has
weak fairness of each thread: it is scheduled, and its requests time out (a provider that
is silent is a `Fails`). `CallsEnd` then rests on `max_pages` alone, since a provider may name a
next page every time. `AdapterRegistry` and `MeshClient` state no fairness: the former's calls
have no loop that could fail to end, and a request of the latter waits for httpx.

### What the violations mean

* `overlap`: `.lock` is created empty (`ceilings.py:149`) and the pid is written after;
  a start that reads in between sees pid 0, removes the file and acquires. Two runs
  are live, against "One live run per cell" (`ceilings.py:139`). The same happens
  when a start removes at 158 a lock newer than the one it read.
* `two_deciders`: `approve` checks the object it was given; two decides that
  loaded the same waiting run both pass, and the later write wins.
* `late_failure`: the handler of `Pipeline.run` writes ERROR from the owner's copy,
  over a decision taken between the last `persist` and the failure.
* `call_cancel`: `json_harness.py:67` and `swarph_call.py:222` catch `Exception`, so a
  `CancelledError` during the retry, or in a post-call hook ahead of the writer, leaves
  `chat` without a row, although the first leg succeeded and was billed; `attribution.py:3`
  says every call writes one after a successful adapter call. What does hold,
  `ReturnedAttributed`, is about calls that return.
* `call_basis`: the fold keeps a known basis when the other leg's is unknown, so a row may
  be called metered when half of its cost was never measured, which `openai.py:229`
  says the label must not claim.

More disagreements are within what a passing run states, and have no run of their
own:

* `src/README.md:116` says "at most 10 jobs and 30 minutes per run". The jobs hold
  (`RunTypeOK`). The clock is asked before a job (`ceilings.py:92`) and between two polls
  (`runners.py:151`) only. A research job has a timeout of 300 s of its own, and a POST, a GET
  (`runners.py:136`, `145`) and the urls of an answer (`434`) have no limit in this code, so
  it bounds the length of a run by nothing. What holds is `NothingBegunLate`: past the
  30 minutes no job is counted and no sleep begun.
* `ceilings.py:140` says "A lock whose pid is dead is taken over", and it is
  (`NeverLockedOut`). But a release that fails (`ReleaseFails`) leaves a lock whose pid is
  that of a live process without a run, and "another run is live" (`ceilings.py:156`) is then
  said of none.
* `artifacts.py:60` says "assessment.json on every commander decision". A kill or a failing
  write between `state.json` and `assessment.json` (`pipeline.py:96-97`) leaves a decided run
  without one for good, since `approve` refuses it from then on. `AssessmentAgrees` speaks of
  an `assessment.json` that exists.
* `vibe_cli.py:446` says "both trees are removed in the finally". `rmtree` ignores what it
  cannot remove (478-479), as does the `unlink` of `grok_cli.py:300-302`; and when the second
  `mkdtemp` fails (448), the `try` has not begun and the first tree stays. `CleanUpTried`
  says that removal was tried, with the second case counted as one that failed.
* `swarph_call.py:215`, in the same fold as `call_basis`: a leg that was billed and came back
  without its usage is nothing in the row, and is not flagged when the other leg was priced.
  `UndercountVisible` names this case (`Hidden`) and no other.
* `publish.py:41` says "preserving ALL existing capabilities". Between its GET and its POST
  another publisher or the daemon may write, and the POST takes that back. `GatewayTrue` is
  about what is complete until then (`written.over` excepts it).
* `discovery.py:102` says `invalidate_catalog` will "Force the next `list_models` call to
  re-fetch". A fetch in flight across it stores its older listing afterwards, and the next
  call is served that from the cache. `ForgetBounded` says how old it can be.
* `registry.py:124-127` says a registered adapter's gates are "re-verified"; when the name is
  registered again meanwhile, the results stored are those of the spec before
  (`registry.py:151-153`), and a registration between that read and that write is undone.
  `EntriesTrue` names exactly these two cases.

## Proofs

`SkunkworksProofs` (for any sets of processes and deciders, any cap, any number of days):

* `TypeCorrect`: `TypeOK` with `TypeInv`, one lemma per group of actions.
* `MutualExclusion`, assuming `~OverlappingStarts`. `OneLiveRun` is not inductive: it
  says nothing of a process still acquiring. `LockInv` adds that the lock file
  was made by whoever is between its creation and its release, that it names him once
  he is past the write, that a pid read and found dead is still the one in the file,
  and that at most one process is inside `acquire`. The exclusion of two starts is
  what keeps the pid read and the file removed the same.
* `CapHolds`, same assumption. `DayInv` adds that the holder at `create` saw fewer runs than
  the cap on the day it counted, and that today's count can only have become zero by
  a midnight since; only the holder makes a directory, which is where
  `MutualExclusion` comes in.
* `EvidenceKept`, unconditional. `EvidenceInv` follows a run through its owner's
  hand: what is in the hand past a `persist` is on disk, what a sweeper is about to
  write is an ERROR, a decider's copy has three outputs.
* `DeadNeverLockOut`, unconditional: a start that meets no other live process during its
  acquire is never refused the lock, whatever was left in it. `NeverLockedOut` speaks of
  the end of the acquire only; `MetInv` adds what such a start is sure of on the way: a pid
  it has read is not its own (`NotNamedYet`), it began with two rounds (`FreshTries`), and it
  is in its first, or in its second with the lock it removed still gone (`AloneRounds`), so
  that its next `open` succeeds. It is not said that a start gets the lock when somebody
  lives: a release that failed keeps it from the cell until its process exits.

`SkunkworksDecisionProofs` (for any processes, terminals, cap and days). Every writer of
`state.json` writes a copy it made earlier, so nothing said of the file is inductive: the
invariants say how stale each copy may be. There are three layers, each with the
assumptions it needs and no more.

* No assumption: `ApprovedOnlyPassed`. A state that says approved holds the verdict that
  allows it, however starts overlap: only a terminal writes a decision (`Undecided`), and with
  it the verdict of the copy it has just checked.
* `~OverlappingStarts`: `GateKept`, which adds `assessment.json`, and `VerdictIsFinal`.
  `VerdictInv` says that no copy that will be written has another verdict than the file:
  the owner's is the file's or the first there is (`OwnCopy`), a sweep's is of a run its owner
  has left, so it cannot have got a verdict since it was read (`SweptCopy`; this is where
  `LockInv` is needed), a terminal's was loaded from a file that had its last
  (`LoadedCopy`, from `EvidenceInv`). Neither more terminals nor late failures matter here.
* `OneAtATime` (besides, no failure once the run waits for the commander, and one terminal):
  `AssessmentFollowsState`, `DecisionIsFinal` and `CellImplementsLifecycle`. `DecisionInv`
  adds the status: the owner's copy (`OwnerInv`) is one legal step ahead of the file before its
  write (`StepsTo`), equal to it after, and its owner's no more once the run waits; the sweep's
  (`SweeperInv`) is of somebody else's unfinished run; the terminal's (`CopyInv`) is the file.
  `ReadyKept` and `ApproveWrites` then say all there is to say of the writes, and `StepIsLife`
  maps each to `Advance`, `Audit` or `Fail`, `ApproveIsLife` to `Decide`, everything else to a
  stutter. None of the three assumptions can be left out: `late_failure` and `two_deciders` show
  a decision written over without the second or the third. With overlapping starts alone TLC finds
  one too: a start that overtook the lock reads a state just before its owner's last write,
  finds the owner gone when it asks, and writes ERROR over what was decided meanwhile. The code
  keeps none of them by itself.

`RunLifecycleProofs` (for any runs): what the abstract lifecycle is good for. `LifeIsJudged`:
no decision without a verdict, no approval without `APPROVED_FOR_BUILD`. `LifeIsOneWay`: no
status comes back, a decision and an error are final, a verdict is given once. Whatever
implements the lifecycle, as the two theorems named `...ImplementsLifecycle` say a run and a
cell do, has these properties of its `state.json`.

`SkunkworksRunProofs` (for any ceilings with `MaxJobs >= MaxQueries + 2`): `RunTypeCorrect`,
`NothingIsBegunLate`, `ArchitectHeadroom`, `SingleJobOut`, `ResearchComplete`, all from one
invariant `RunInv`: which places go with which statuses (`PlaceInv`), how jobs, rows and cut
queries are related (`CountInv`), and that a job is out exactly while it is polled (`OutInv`).
That a deadline never lies past the ceiling, which is what makes the poll loop stop in
time, is in the type. `RunImplementsLifecycle` adds `VerdictInv`,
that a run has no verdict before its architect's answer, so that the answer is an `Audit`.

`SwarphCallProofs` (for any number of hooks of each kind, any place of the writer, any
bill): `CallTypeCorrect`, `RowsAreTotal`, `UndercountsAreVisible`,
`ReturnedCallsAreAttributed`, `AlwaysParsedOrClassified`, `ErrorsAreTold`, `CleanUpIsTried`.
None of the seven is inductive, as each speaks of the row or of the end. `CallInv` says
what is known on the way: the legs come back in order and `resp` is their sum
(`LegInv`, `SumInv`), what the harness decided (`JudgeInv`), that only a leg that
was sent is billed, that a priced one costs its bill, that a file nobody has tried to remove is
of the leg that is awaited (`WorkInv`), and
how far the hooks are (`HookInv`). `FoldOf` and `JudgeOf` are the lemmas about the
fold and the verdict.

`DiscoveryProofs` (for any threads, time to live, number of pages and length of a call):
`DiscoveryTypeCorrect`, `AgesBounded`, `ForgetsBounded`, `NeverCut`, `FallbackAlwaysReached` and
the action property `CacheNeverFarBack`. An age is bounded at the return of a call, but the
listing was put there by others: `Inv` says that a stamp is at most two calls' time after
what is in the cache was read (`CacheTimes`: one for the fetch that stored it, one for a
slower one that stamped), what a thread knows of the cache at each place (`KnowsOf`), and
that nobody in flight is older than `MaxCall` (`FlightOf`). `FallbackAlwaysReached` has the
provider filter as its one exception: a catalog with models, of which none is wanted.

`AdapterRegistryProofs` (for any threads, specs and numbers of calls): `RegistryTypeCorrect`,
`EntriesAreTrue`, `GatewayIsTrue`, `RoutesAreRight`. `Inv` adds what a thread is about to store
(`JobOK`) and what its `probe_all` holds (`HeldOK`): results of a spec that was admitted, and of
the one that is registered unless its name is in `crossed`; and that what a `Get` returned was
`PublishedOnce`, so that a `Post` of it is. `RoutesAreRight` needs of the registry only that what
is in it was admitted, hence is free or metered (`ZeroOrMetered`), and of `resolve` that the least
position of a set that is not empty is one of its positions: `LeastNat`, from the library's
induction over `<` on `Nat`, and `BestOfLanes`.

`MeshClientProofs` (for any tasks, fetches and bounds): `MeshTypeCorrect`, `SendsOnce`,
`InboxCorrect`, `NoneIsOrphaned`. `Counts` relates the copies of a DM, at the gateway and on
the way, with how each send ended; `ReqInv` that a request whose task waits is its call,
not yet answered; `Knows` what an answer says of the gateway at the time it is read,
which has changed since it was given; `ClientInv` that at an `aclose`'s await no client
is open.

**Progress.** Liveness under fairness is out of the prover's reach, and so is `ENABLED`: that
`StartEnds`, `RunEnds`, `TimedCallEnds` and `CallsEnd` hold is checked by TLC only. What makes
them true is proved, with no bound: in each of the four modules `StepsLeft` is a number of steps
still to make, at most a stated bound and zero exactly at the end (`StartIsBounded`,
`StepsAreBounded`, `CallIsBounded`), every step of the actor itself, failing ones
included, makes it smaller, and no step of anybody else makes it larger (`EveryStepCounts`). So
no loop of the code can go round for ever, and what is left to fairness is that an actor who
can take a step does. The measures follow the loops:

* `start_run`: the rounds of `acquire` are counted by `tries`, a sweep by the directories it
  listed, the pipeline by the statuses ahead and the outputs missing, of which a failure leaves
  none (`FailedLess`) and each transition one less (`AdvancedLess`). The invariant is `TypeInv`,
  for the bounds of `tries` and `made`; no lock and no absence of overlap is assumed.
* A run: four steps for each query left, and a poll loop has no more rounds than there is time
  up to the ceiling, each of which sleeps for some of it. Time that passes by itself leaves the
  measure or lowers it.
* A call: one turn for each hook (`TurnInv`). A step of the provider leaves the measure as it is,
  so a call that does not end waits for a provider.
* A fetch: one step for each page up to `max_pages`. No store, stamp or invalidation of another
  thread sends a call back to a place it has left.

Only model-checked: those four liveness properties themselves. Every other property of a
passing run is stated by a theorem.

## Plan

The command line adapters' own state: the audit log of `vibe_cli.py`, sessions. Of the proofs:
a refinement from `SkunkworksRun` to the stage of `Skunkworks`, which agree today through the
lifecycle that both implement.

## Not modelled

The text of prompts, answers and personas; JSON and pydantic validation; argument
lists of subprocesses and the HTTP formats of providers; `url_status`; logging;
Windows' `OpenProcess`. A recycled pid (the model's pids are used once) and a host
whose clock goes back are outside the model. Of `discovery.py`: what is in a listing, the
model-id normalizers, the tables of retired models and static prices and the arithmetic of
the drift reports, all pure functions of their arguments. Of `registry/`: the lazily made
singleton, and that walking `_entries` while another thread inserts raises in Python. Of
`mesh_client.py`: the patterns of the secret detector (`secret` is a Boolean) and the text
of a DM. The adapters' wire formats and output parsing. `PROJECT.json` lists each part
with its status.
