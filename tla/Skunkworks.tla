----------------------------- MODULE Skunkworks -----------------------------
(***************************************************************************)
(* One cell's skunkworks directory and the operating-system processes that *)
(* work in it: start_run (lock, sweep, daily cap, pipeline) and the        *)
(* commander's decide.  A step is one call that another process can see    *)
(* the effect of: a system call on .lock, an atomic write of state.json, a *)
(* read of one.  What happens inside a stage is module SkunkworksRun; here *)
(* a stage returns or raises.                                              *)
(*                                                                         *)
(* A process starts at most one run and a pid is not recycled, so the run  *)
(* a process creates is named by its pid.                                  *)
(***************************************************************************)
EXTENDS Naturals, FiniteSets

CONSTANTS Pids,               \* processes that call start_run, one call each
          NoPid,              \* no process: an absent or an empty lock file
          Before,             \* processes of earlier starts, dead by now
          Deciders,           \* terminals from which runs are decided
          MaxRunsPerDay,      \* MAX_RUNS_PER_DAY
          LastDay,            \* bound: the UTC days the model lives through
          OverlappingStarts,  \* may two starts be inside RunLock.acquire at once?
          LateFailures        \* may a call fail once state.json says awaiting_commander?

ASSUME ConstantsAssumption ==
         /\ NoPid \notin Pids
         /\ IsFiniteSet(Pids)
         /\ Before \subseteq Pids
         /\ MaxRunsPerDay \in Nat \ {0}
         /\ LastDay \in Nat \ {0}
         /\ OverlappingStarts \in BOOLEAN
         /\ LateFailures \in BOOLEAN

VARIABLES pc,        \* pc[p]: where process p is in start_run
          tries,     \* tries[p]: rounds left in RunLock.acquire's loop
          seen,      \* seen[p]: the pid p read from .lock
          lock,      \* .lock: who made the file, and the pid written in it
          met,       \* history: has another process lived since p began acquire?
          todo,      \* todo[p]: run directories p's sweep has yet to visit
          hand,      \* hand[p]: the RunState object p holds
          target,    \* target[p]: the run that object belongs to
          today,     \* the UTC day
          dirDay,    \* dirDay[r]: day in the name of run directory r, 0 without one
          disk,      \* disk[r]: r's state.json
          files,     \* files[r]: how many of r's stage output files exist
          assessed,  \* assessed[r]: the decision in r's assessment.json
          dpc,       \* dpc[d]: where decider d is
          dhand,     \* dhand[d]: the RunState d loaded
          drun       \* drun[d]: and whose it is

lockVars  == <<tries, seen, lock, met>>
runVars   == <<hand, target, disk, files>>
cmdVars   == <<assessed, dpc, dhand, drun>>
dayVars   == <<today, dirDay>>
vars      == <<pc, tries, seen, lock, met, todo, hand, target, today, dirDay,
               disk, files, assessed, dpc, dhand, drun>>

\* Mutant: a run that waits for the commander counts as running.
RunningStatusesAll == {"queued", "ideating", "researching", "architecting",
                       "awaiting_commander"}

RunningStatuses == {"queued", "ideating", "researching", "architecting"}
Decisions       == {"approved", "rejected", "revise_requested"}
Statuses        == {"none", "awaiting_commander", "error"}
                     \union RunningStatuses \union Decisions

\* made: how many of ideation, research and architecture the state holds;
\* verdict: what the architecture says, "pass" for APPROVED_FOR_BUILD.
RunState == [status : Statuses, made : 0..3, verdict : {"none", "pass", "fail"}]
NoState  == [status |-> "none", made |-> 0, verdict |-> "none"]
NewState == [status |-> "queued", made |-> 0, verdict |-> "none"]
NoLock   == [maker |-> NoPid, text |-> NoPid]

Acquiring == {"open", "read", "probe", "unlink", "write"}
Sweeping  == {"list", "sweep", "sweepProbe", "sweepState", "sweepFiles"}
InRun     == {"state", "files", "work", "hook"}
InTry     == Sweeping \union {"cap", "create", "setup"} \union InRun
Holding   == InTry \union {"release"}
PCs       == {"idle", "refused", "done", "dead"} \union Acquiring \union Holding

Alive(p) == p \in Pids /\ pc[p] \notin {"idle", "dead"}

Goto(p, l) == pc' = [pc EXCEPT ![p] = l]
From(p, l, m) == pc[p] = l /\ Goto(p, m)

\* The local variables of start_run are gone once its finally has run.
Forget(p) == /\ tries'  = [tries  EXCEPT ![p] = 0]
             /\ seen'   = [seen   EXCEPT ![p] = NoPid]
             /\ met'    = [met    EXCEPT ![p] = FALSE]
             /\ todo'   = [todo   EXCEPT ![p] = {}]
             /\ hand'   = [hand   EXCEPT ![p] = NoState]
             /\ target' = [target EXCEPT ![p] = p]

\* What a killed process may have left: its pid in the file, or nothing yet.
Stale == {l \in [maker : Before, text : Before \union {NoPid}] : l.text \in {l.maker, NoPid}}

Init == /\ pc     = [p \in Pids |-> IF p \in Before THEN "dead" ELSE "idle"]
        /\ tries  = [p \in Pids |-> 2]
        /\ seen   = [p \in Pids |-> NoPid]
        /\ lock   \in {NoLock} \union Stale
        /\ met    = [p \in Pids |-> FALSE]
        /\ todo   = [p \in Pids |-> {}]
        /\ hand   = [p \in Pids |-> NoState]
        /\ target = [p \in Pids |-> p]
        /\ today  = 1
        /\ dirDay = [r \in Pids |-> 0]
        /\ disk   = [r \in Pids |-> NoState]
        /\ files  = [r \in Pids |-> 0]
        /\ assessed = [r \in Pids |-> "none"]
        /\ dpc    = [d \in Deciders |-> "idle"]
        /\ dhand  = [d \in Deciders |-> NoState]
        /\ drun   = [d \in Deciders |-> NoPid]

-----------------------------------------------------------------------------
(* start_run up to the try block: RunLock.acquire, one system call a step. *)

\* The persona loads and the session window is open: on to the lock.
Begin(p) ==
    /\ OverlappingStarts \/ \A q \in Pids : pc[q] \notin Acquiring
    /\ From(p, "idle", "open")
    /\ met' = [q \in Pids |-> IF q = p THEN \E o \in Pids \ {p} : Alive(o)
                             ELSE met[q] \/ pc[q] \in Acquiring]
    /\ UNCHANGED <<tries, seen, lock, todo, runVars, dayVars, cmdVars>>

\* Mutant: the lock file is opened without O_EXCL.
LockCreateShared(p) ==
    /\ tries[p] > 0
    /\ From(p, "open", "write")
    /\ lock' = [maker |-> p, text |-> NoPid]
    /\ UNCHANGED <<tries, seen, met, todo, runVars, dayVars, cmdVars>>

\* os.open(O_CREAT | O_EXCL) makes an empty file; there is nothing in it yet.
LockCreate(p) ==
    /\ tries[p] > 0
    /\ lock = NoLock
    /\ From(p, "open", "write")
    /\ lock' = [maker |-> p, text |-> NoPid]
    /\ UNCHANGED <<tries, seen, met, todo, runVars, dayVars, cmdVars>>

LockExists(p) ==
    /\ tries[p] > 0
    /\ lock # NoLock
    /\ From(p, "open", "read")
    /\ UNCHANGED <<lockVars, todo, runVars, dayVars, cmdVars>>

LockGiveUp(p) ==
    /\ tries[p] = 0
    /\ From(p, "open", "refused")
    /\ UNCHANGED <<lockVars, todo, runVars, dayVars, cmdVars>>

\* An empty file reads as pid 0, and so does one that has gone meanwhile.
LockRead(p) ==
    /\ From(p, "read", "probe")
    /\ seen' = [seen EXCEPT ![p] = lock.text]
    /\ UNCHANGED <<tries, lock, met, todo, runVars, dayVars, cmdVars>>

\* Mutant: a lock without a pid in it counts as a live one.
LockProbeEmptyLives(p) ==
    /\ From(p, "probe", IF seen[p] = NoPid \/ Alive(seen[p]) THEN "refused" ELSE "unlink")
    /\ seen' = [seen EXCEPT ![p] = NoPid]
    /\ UNCHANGED <<tries, lock, met, todo, runVars, dayVars, cmdVars>>

\* "another run is live": the pid in the file is that of a live process.
LockProbe(p) ==
    /\ From(p, "probe", IF Alive(seen[p]) THEN "refused" ELSE "unlink")
    /\ seen' = [seen EXCEPT ![p] = NoPid]
    /\ UNCHANGED <<tries, lock, met, todo, runVars, dayVars, cmdVars>>

\* Removes whatever is at the path now, not what was read.
LockUnlink(p) ==
    /\ From(p, "unlink", "open")
    /\ lock' = NoLock
    /\ tries' = [tries EXCEPT ![p] = @ - 1]
    /\ UNCHANGED <<seen, met, todo, runVars, dayVars, cmdVars>>

\* The pid goes to the file this process created, which may no longer be .lock.
LockWrite(p) ==
    /\ From(p, "write", "list")
    /\ lock' = IF lock.maker = p THEN [lock EXCEPT !.text = p] ELSE lock
    /\ UNCHANGED <<tries, seen, met, todo, runVars, dayVars, cmdVars>>

\* A system call of acquire fails otherwise, or an interrupt comes before the
\* try block is reached: the file stays as it is, with the pid or without.
AcquireRaises(p) ==
    /\ pc[p] \in Acquiring
    /\ Goto(p, "done")
    /\ \/ UNCHANGED lock
       \/ /\ pc[p] = "write" /\ lock.maker = p
          /\ lock' = [lock EXCEPT !.text = p]
    /\ UNCHANGED <<tries, seen, met, todo, runVars, dayVars, cmdVars>>

Acquire(p) == \/ LockCreate(p) \/ LockExists(p) \/ LockGiveUp(p)
              \/ LockRead(p) \/ LockProbe(p) \/ LockUnlink(p)
              \/ LockWrite(p) \/ AcquireRaises(p)

-----------------------------------------------------------------------------
(* persist(): state.json first, then the output files.  Files of earlier   *)
(* stages are rewritten with what they hold, so only the newest is news.   *)

PutState(r, st)  == disk' = [disk EXCEPT ![r] = st]
PutFiles(r, st)  == files' = [files EXCEPT ![r] = IF st.made > @ THEN st.made ELSE @]
Holds(p, r, st)  == /\ hand' = [hand EXCEPT ![p] = st]
                    /\ target' = [target EXCEPT ![p] = r]
Failed(st)       == [st EXCEPT !.status = "error"]

(* sweep_dead_runs: read a state, ask whether its pid lives, write ERROR.  *)

SweepList(p) ==
    /\ From(p, "list", "sweep")
    /\ todo' = [todo EXCEPT ![p] = {r \in Pids : dirDay[r] # 0}]
    /\ UNCHANGED <<lockVars, runVars, dayVars, cmdVars>>

SweepSkip(p) ==
    /\ pc[p] = "sweep"
    /\ \E r \in todo[p] : /\ disk[r].status \notin RunningStatuses
                          /\ todo' = [todo EXCEPT ![p] = @ \ {r}]
    /\ UNCHANGED <<pc, lockVars, runVars, dayVars, cmdVars>>

SweepRead(p) ==
    /\ From(p, "sweep", "sweepProbe")
    /\ \E r \in todo[p] : /\ disk[r].status \in RunningStatuses
                          /\ todo' = [todo EXCEPT ![p] = @ \ {r}]
                          /\ Holds(p, r, disk[r])
    /\ UNCHANGED <<lockVars, disk, files, dayVars, cmdVars>>

SweepProbe(p) ==
    /\ IF Alive(target[p])
         THEN From(p, "sweepProbe", "sweep") /\ UNCHANGED <<hand, target>>
         ELSE /\ From(p, "sweepProbe", "sweepState")
              /\ Holds(p, target[p], Failed(hand[p]))
    /\ UNCHANGED <<lockVars, todo, disk, files, dayVars, cmdVars>>

SweepState(p) ==
    /\ From(p, "sweepState", "sweepFiles")
    /\ PutState(target[p], hand[p])
    /\ UNCHANGED <<lockVars, todo, hand, target, files, dayVars, cmdVars>>

SweepFiles(p) ==
    /\ From(p, "sweepFiles", "sweep")
    /\ PutFiles(target[p], hand[p])
    /\ UNCHANGED <<lockVars, todo, hand, target, disk, dayVars, cmdVars>>

SweepEnd(p) ==
    /\ todo[p] = {}
    /\ From(p, "sweep", "cap")
    /\ UNCHANGED <<lockVars, todo, runVars, dayVars, cmdVars>>

Sweep(p) == \/ SweepList(p) \/ SweepSkip(p) \/ SweepRead(p) \/ SweepProbe(p)
            \/ SweepState(p) \/ SweepFiles(p) \/ SweepEnd(p)

-----------------------------------------------------------------------------
(* The daily cap and the new run directory.                                *)

RunsOn(day) == {r \in Pids : dirDay[r] = day}

\* Mutant: > where the cap is reached at =.
CapCheckOffByOne(p) ==
    /\ From(p, "cap", IF Cardinality(RunsOn(today)) > MaxRunsPerDay
                        THEN "release" ELSE "create")
    /\ UNCHANGED <<lockVars, todo, runVars, dayVars, cmdVars>>

CapCheck(p) ==
    /\ From(p, "cap", IF Cardinality(RunsOn(today)) >= MaxRunsPerDay
                        THEN "release" ELSE "create")
    /\ UNCHANGED <<lockVars, todo, runVars, dayVars, cmdVars>>

\* RunState.new stamps the clock again: midnight may have passed since the cap.
Create(p) ==
    /\ From(p, "create", "setup")
    /\ dirDay' = [dirDay EXCEPT ![p] = today]
    /\ Holds(p, p, NewState)
    /\ UNCHANGED <<lockVars, todo, disk, files, today, cmdVars>>

\* request.json is written, the runners are built, the persona loads again.
Setup(p) ==
    /\ From(p, "setup", "state")
    /\ UNCHANGED <<lockVars, todo, runVars, dayVars, cmdVars>>

\* The persona file has gone: Pipeline.run turns that into ERROR.
SetupPersonaGone(p) ==
    /\ From(p, "setup", "state")
    /\ Holds(p, p, Failed(hand[p]))
    /\ UNCHANGED <<lockVars, todo, disk, files, dayVars, cmdVars>>

\* request.json or the runners fail before Pipeline.run: no state.json at all.
SetupFails(p) ==
    /\ From(p, "setup", "release")
    /\ UNCHANGED <<lockVars, todo, runVars, dayVars, cmdVars>>

Admit(p) == \/ CapCheck(p) \/ Create(p) \/ Setup(p)
            \/ SetupPersonaGone(p) \/ SetupFails(p)

-----------------------------------------------------------------------------
(* Pipeline.run: transition, persist, stage, persist, on_stage.            *)

\* Mutant: a run goes from ideation straight to the architect.
NextStatusSkips == [queued |-> "ideating", ideating |-> "architecting",
                    researching |-> "architecting", architecting |-> "awaiting_commander"]

NextStatus == [queued |-> "ideating", ideating |-> "researching",
               researching |-> "architecting", architecting |-> "awaiting_commander"]
StageOf    == [ideating |-> 1, researching |-> 2, architecting |-> 3]

\* Mutant: the stage is called again after it has returned.
BeforeWorkAgain(st) == st.status \in DOMAIN StageOf

\* transition() has been persisted but the stage has not produced its output.
BeforeWork(st) == /\ st.status \in DOMAIN StageOf
                  /\ st.made < StageOf[st.status]

Advanced(st) == [st EXCEPT !.status = NextStatus[@]]

WriteState(p) ==
    /\ From(p, "state", "files")
    /\ PutState(p, hand[p])
    /\ UNCHANGED <<lockVars, todo, hand, target, files, dayVars, cmdVars>>

WriteFiles(p) ==
    /\ PutFiles(p, hand[p])
    /\ \/ /\ hand[p].status = "queued"
          /\ From(p, "files", "state")
          /\ Holds(p, p, Advanced(hand[p]))
       \/ /\ hand[p].status # "queued"
          /\ From(p, "files", IF BeforeWork(hand[p]) THEN "work" ELSE "hook")
          /\ UNCHANGED <<hand, target>>
    /\ UNCHANGED <<lockVars, todo, disk, dayVars, cmdVars>>

\* Mutant: the output of a stage is not persisted before the next transition.
StageReturnsUnsaved(p) ==
    /\ From(p, "work", "hook")
    /\ \E v \in {"none", "pass", "fail"} :
         /\ (v # "none") <=> (hand[p].status = "architecting")
         /\ Holds(p, p, [hand[p] EXCEPT !.made = @ + 1, !.verdict = v])
    /\ UNCHANGED <<lockVars, todo, disk, files, dayVars, cmdVars>>

StageReturns(p) ==
    /\ From(p, "work", "state")
    /\ \E v \in {"none", "pass", "fail"} :
         /\ (v # "none") <=> (hand[p].status = "architecting")
         /\ Holds(p, p, [hand[p] EXCEPT !.made = @ + 1, !.verdict = v])
    /\ UNCHANGED <<lockVars, todo, disk, files, dayVars, cmdVars>>

StageRaises(p) ==
    /\ From(p, "work", "state")
    /\ Holds(p, p, Failed(hand[p]))
    /\ UNCHANGED <<lockVars, todo, disk, files, dayVars, cmdVars>>

\* on_stage returns: the next stage begins, or the run is over.
HookReturns(p) ==
    /\ \/ /\ hand[p].status \in DOMAIN NextStatus
          /\ From(p, "hook", "state")
          /\ Holds(p, p, Advanced(hand[p]))
       \/ /\ hand[p].status \notin DOMAIN NextStatus
          /\ From(p, "hook", "release")
          /\ UNCHANGED <<hand, target>>
    /\ UNCHANGED <<lockVars, todo, disk, files, dayVars, cmdVars>>

\* Mutant: the handler of Pipeline.run is inside the loop it handles.
RaisesRetried(p) ==
    /\ Goto(p, "state")
    /\ Holds(p, p, Failed(hand[p]))
    /\ UNCHANGED <<lockVars, todo, disk, files, dayVars, cmdVars>>

\* An exception in the try block of Pipeline.run makes the run ERROR; one in
\* its handler leaves through start_run's finally.
Raises(p) ==
    /\ \/ /\ hand[p].status # "error"
          /\ Goto(p, "state")
          /\ Holds(p, p, Failed(hand[p]))
       \/ /\ hand[p].status = "error"
          /\ Goto(p, "release")
          /\ UNCHANGED <<hand, target>>
    /\ UNCHANGED <<lockVars, todo, disk, files, dayVars, cmdVars>>

\* A run whose state.json already waits for the commander fails late: the
\* output files cannot be rewritten, or the caller's on_stage raises.
Published(p) == pc[p] \in {"files", "hook"} /\ hand[p].status = "awaiting_commander"

PersistFails(p) ==
    /\ pc[p] \in {"state", "files"}
    /\ Published(p) => LateFailures
    /\ Raises(p)

HookRaises(p) ==
    /\ pc[p] = "hook"
    /\ Published(p) => LateFailures
    /\ Raises(p)

SweepPersistFails(p) ==
    /\ pc[p] \in {"sweepState", "sweepFiles"}
    /\ Goto(p, "release")
    /\ UNCHANGED <<lockVars, todo, runVars, dayVars, cmdVars>>

Run(p) == \/ WriteState(p) \/ WriteFiles(p) \/ StageReturns(p) \/ StageRaises(p)
          \/ HookReturns(p) \/ HookRaises(p) \/ PersistFails(p)
          \/ SweepPersistFails(p)

-----------------------------------------------------------------------------
(* Leaving: the finally, KeyboardInterrupt, the end of the process, a kill.*)

\* RunLock.release removes whatever is at the path.
Release(p) ==
    /\ From(p, "release", "done")
    /\ lock' = NoLock
    /\ Forget(p)
    /\ UNCHANGED <<disk, files, dayVars, cmdVars>>

\* Only a file that is not there is no error: on any other, or an interrupt, the
\* lock stays and names a process that has left its run.
ReleaseFails(p) ==
    /\ From(p, "release", "done")
    /\ Forget(p)
    /\ UNCHANGED <<lock, disk, files, dayVars, cmdVars>>

\* KeyboardInterrupt is no Exception: nothing is persisted, finally runs.
Interrupt(p) ==
    /\ pc[p] \in InTry
    /\ Goto(p, "release")
    /\ UNCHANGED <<lockVars, todo, runVars, dayVars, cmdVars>>

Exit(p) ==
    /\ pc[p] \in {"done", "refused"}
    /\ Goto(p, "dead")
    /\ Forget(p)
    /\ UNCHANGED <<lock, disk, files, dayVars, cmdVars>>

Crash(p) ==
    /\ pc[p] \in Acquiring \union Holding
    /\ Goto(p, "dead")
    /\ Forget(p)
    /\ UNCHANGED <<lock, disk, files, dayVars, cmdVars>>

-----------------------------------------------------------------------------
(* swarph skunkworks decide: load state.json, Pipeline.approve.            *)

\* Mutant: a decided run can be decided again.
DecideLoadAgain(d) ==
    /\ dpc[d] = "idle"
    /\ \E r \in Pids :
         /\ disk[r].status \in Decisions \union {"awaiting_commander"}
         /\ dhand' = [dhand EXCEPT ![d] = disk[r]]
         /\ drun'  = [drun  EXCEPT ![d] = r]
    /\ dpc' = [dpc EXCEPT ![d] = "approve"]
    /\ UNCHANGED <<pc, lockVars, todo, runVars, dayVars, assessed>>

\* The state is read here and checked here; it is written back a step later.
\* A run in any other status, and a verdict the gate refuses, change nothing.
DecideLoad(d) ==
    /\ dpc[d] = "idle"
    /\ \E r \in Pids :
         /\ disk[r].status = "awaiting_commander"
         /\ dhand' = [dhand EXCEPT ![d] = disk[r]]
         /\ drun'  = [drun  EXCEPT ![d] = r]
    /\ dpc' = [dpc EXCEPT ![d] = "approve"]
    /\ UNCHANGED <<pc, lockVars, todo, runVars, dayVars, assessed>>

\* Mutant: only a missing verdict closes the gate.
GateOpenOnAny(cv, verdict) == cv # "approved" \/ verdict # "none"

\* check_architect_verdict_gate: only APPROVED needs the architect's.
GateOpen(cv, verdict) == cv # "approved" \/ verdict = "pass"

\* approve() on the loaded state: decide and write state.json.
Approve(d) ==
    /\ dpc[d] = "approve"
    /\ \E cv \in Decisions :
         /\ GateOpen(cv, dhand[d].verdict)
         /\ dhand' = [dhand EXCEPT ![d].status = cv]
         /\ PutState(drun[d], [dhand[d] EXCEPT !.status = cv])
    /\ dpc' = [dpc EXCEPT ![d] = "assess"]
    /\ UNCHANGED <<pc, lockVars, todo, hand, target, files, dayVars, assessed, drun>>

DecideEnd(d) == /\ dpc'   = [dpc   EXCEPT ![d] = "idle"]
                /\ dhand' = [dhand EXCEPT ![d] = NoState]
                /\ drun'  = [drun  EXCEPT ![d] = NoPid]

\* The rest of persist(), then write_assessment_always.
Assess(d) ==
    /\ dpc[d] = "assess"
    /\ PutFiles(drun[d], dhand[d])
    /\ assessed' = [assessed EXCEPT ![drun[d]] = dhand[d].status]
    /\ DecideEnd(d)
    /\ UNCHANGED <<pc, lockVars, todo, hand, target, disk, dayVars>>

\* The terminal gives up, a write fails, or the process is killed.
DecideStops(d) ==
    /\ dpc[d] # "idle"
    /\ DecideEnd(d)
    /\ UNCHANGED <<pc, lockVars, todo, runVars, dayVars, assessed>>

Midnight ==
    /\ today < LastDay
    /\ today' = today + 1
    /\ UNCHANGED <<pc, lockVars, todo, runVars, dirDay, cmdVars>>

-----------------------------------------------------------------------------
\* What goes on inside start_run, failures of its calls included.
Work(p) == \/ Acquire(p) \/ Sweep(p) \/ Admit(p) \/ Run(p)
           \/ Release(p) \/ ReleaseFails(p) \/ Exit(p)

Next == \/ \E p \in Pids : Begin(p) \/ Work(p) \/ Interrupt(p) \/ Crash(p)
        \/ \E d \in Deciders : \/ DecideLoad(d) \/ Approve(d)
                               \/ Assess(d) \/ DecideStops(d)
        \/ Midnight

Spec == Init /\ [][Next]_vars

\* The same without the failures, which nothing makes happen.  A stage answers
\* one way or the other: that is RunEnds of SkunkworksRun.
Progress(p) == \/ LockCreate(p) \/ LockExists(p) \/ LockGiveUp(p) \/ LockRead(p)
               \/ LockProbe(p) \/ LockUnlink(p) \/ LockWrite(p) \/ Sweep(p)
               \/ CapCheck(p) \/ Create(p) \/ Setup(p) \/ WriteState(p)
               \/ WriteFiles(p) \/ StageReturns(p) \/ StageRaises(p)
               \/ HookReturns(p) \/ Release(p) \/ Exit(p)

\* The operating system runs every live process; nothing makes anyone start
\* a run, decide one or be killed.
FairSpec == Spec /\ \A p \in Pids : WF_vars(Progress(p))

-----------------------------------------------------------------------------
(* Properties.                                                             *)

TypeOK ==
    /\ pc \in [Pids -> PCs]
    /\ tries \in [Pids -> 0..2]
    /\ seen \in [Pids -> Pids \union {NoPid}]
    /\ lock \in [maker : Pids \union {NoPid}, text : Pids \union {NoPid}]
    /\ met \in [Pids -> BOOLEAN]
    /\ todo \in [Pids -> SUBSET Pids]
    /\ hand \in [Pids -> RunState]
    /\ target \in [Pids -> Pids]
    /\ today \in 1..LastDay
    /\ dirDay \in [Pids -> 0..LastDay]
    /\ disk \in [Pids -> RunState]
    /\ files \in [Pids -> 0..3]
    /\ assessed \in [Pids -> {"none"} \union Decisions]
    /\ dpc \in [Deciders -> {"idle", "approve", "assess"}]
    /\ dhand \in [Deciders -> RunState]
    /\ drun \in [Deciders -> Pids \union {NoPid}]

\* ceilings.py RunLock, README: one live run per cell.  No two processes are
\* between a successful acquire and the end of release.
OneLiveRun == \A p, q \in Pids : pc[p] \in Holding /\ pc[q] \in Holding => p = q

\* ceilings.py MAX_RUNS_PER_DAY: on no UTC day are more run directories made
\* than the cap, however midnight falls between the count and the directory.
DailyCap == \A day \in 1..LastDay : Cardinality(RunsOn(day)) <= MaxRunsPerDay

\* pipeline.py, artifacts.py persist: a run the commander can decide, or has
\* decided, has all three stage outputs on disk, whatever crashed in between.
EvidenceOnDisk ==
    \A r \in Pids : disk[r].status \in Decisions \union {"awaiting_commander"}
                      => files[r] = 3 /\ disk[r].verdict # "none"

\* gate.py: no run is APPROVED, in state.json or in assessment.json, unless
\* the architect of that run said APPROVED_FOR_BUILD.
GateHolds ==
    \A r \in Pids : (disk[r].status = "approved" \/ assessed[r] = "approved")
                      => disk[r].verdict = "pass"

\* ceilings.py RunLock ("A lock whose pid is dead is taken over"): a start is
\* refused the lock only when another process was alive at some moment of its
\* acquire.  Whatever crashes, failed writes and failed releases have left in
\* .lock, it locks the cell no longer than the process that left it lives.
NeverLockedOut == \A p \in Pids : pc[p] = "refused" => met[p]

\* artifacts.py write_assessment_always: assessment.json never disagrees with
\* the decision in state.json.
AssessmentAgrees ==
    \A r \in Pids : assessed[r] # "none" => disk[r].status = assessed[r]

\* pipeline.py approve ("There is no override"): once a decision is in
\* state.json no process writes anything else there.
DecisionFinal ==
    [][\A r \in Pids : disk[r].status \in Decisions => disk'[r] = disk[r]]_vars

\* service.py start_run: a call that begins ends, with the process; the lock
\* loop, the sweep and the pipeline cannot go round for ever.
StartEnds == \A p \in Pids : pc[p] = "open" ~> pc[p] = "dead"

\* state.json goes through the statuses of the abstract lifecycle only.
Life == INSTANCE RunLifecycle WITH
          Runs <- Pids,
          status  <- [r \in Pids |-> disk[r].status],
          verdict <- [r \in Pids |-> disk[r].verdict]

ImplementsLifecycle == Life!LifeSpec
=============================================================================
