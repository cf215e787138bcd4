---------------------- MODULE SkunkworksDecisionProofs ----------------------
(***************************************************************************)
(* Theorems about the commander's decision.  That the gate holds needs     *)
(* only starts that do not overlap inside acquire.  That a decision is     *)
(* never written over, that assessment.json agrees with it, and that       *)
(* state.json goes through the abstract lifecycle need one terminal too,   *)
(* and a call that cannot fail once the run waits for its decision: what   *)
(* the code leaves to its callers.                                         *)
(***************************************************************************)
EXTENDS SkunkworksProofs

Left  == {"release", "done", "dead"}

-----------------------------------------------------------------------------
(* The architect's verdict.  state.json is written back from copies made   *)
(* earlier, by the run's owner, a sweep or a terminal; the gate holds      *)
(* since no copy that will be written has another verdict than the file.   *)

\* What the owner of a run holds of it.
OwnCopy(p) ==
  /\ pc[p] \notin InRun \union Left => disk[p].status = "none" /\ disk[p].verdict = "none"
  /\ pc[p] = "setup" => hand[p] = NewState
  /\ pc[p] \in InRun =>
       /\ hand[p].status \notin Decisions \union {"none"}
       /\ hand[p].made < 3 => hand[p].verdict = "none"
       /\ hand[p].status = "architecting" => hand[p].made >= 2
       /\ disk[p].verdict # "none" => hand[p].verdict = disk[p].verdict

\* What a sweep does, of a run somebody else has left.
SweptCopy(p) ==
  pc[p] \in {"sweepProbe", "sweepState"} =>
     /\ target[p] # p /\ disk[target[p]].status # "none"
     /\ hand[p].verdict = disk[target[p]].verdict

\* What a terminal does.
LoadedCopy(d) ==
  /\ dpc[d] # "idle" => dhand[d].verdict = disk[drun[d]].verdict
  /\ dpc[d] = "assess" => (dhand[d].status = "approved" => dhand[d].verdict = "pass")

VerdictInv == /\ \A p \in Pids : OwnCopy(p) /\ SweptCopy(p)
              /\ \A d \in Deciders : LoadedCopy(d)
              /\ GateHolds

\* What the lemmas of this section start from.
Apart == TypeInv /\ LockInv /\ EvidenceInv /\ VerdictInv

LEMMA Alone ==
  ASSUME Apart, NEW p \in Pids, NEW q \in Pids, pc[p] \in Holding, pc[q] \in Holding
  PROVE  p = q
  BY DEF Apart, LockInv, HolderNamed

LEMMA VerdictInit == Init => VerdictInv
  BY DEF Init, VerdictInv, OwnCopy, SweptCopy, LoadedCopy, GateHolds, InRun, Left, NoState

\* Two steps of a process write state.json.
LEMMA ProcessWrites ==
  ASSUME TypeOK, NEW p \in Pids, Begin(p) \/ Work(p) \/ Interrupt(p) \/ Crash(p)
  PROVE  /\ WriteState(p) \/ SweepState(p) \/ UNCHANGED disk
         /\ UNCHANGED assessed
         /\ \A q \in Pids \ {p} : target'[q] = target[q]
<1> USE DEF TypeOK, runVars, cmdVars, Holds, Forget
<1>1. CASE Acquire(p)
      BY <1>1 DEF Acquire, LockCreate, LockExists, LockGiveUp, LockRead, LockProbe,
                  LockUnlink, LockWrite, AcquireRaises
<1>2. CASE Sweep(p)
      BY <1>2 DEF Sweep, SweepList, SweepSkip, SweepRead, SweepProbe,
                  SweepState, SweepFiles, SweepEnd
<1>3. CASE Admit(p)
      BY <1>3 DEF Admit, CapCheck, Create, Setup, SetupPersonaGone, SetupFails
<1>4. CASE Run(p)
      BY <1>4 DEF Run, WriteState, WriteFiles, StageReturns, StageRaises, HookReturns,
                  HookRaises, PersistFails, SweepPersistFails, Raises
<1>5. CASE Begin(p) \/ Release(p) \/ ReleaseFails(p) \/ Interrupt(p) \/ Exit(p) \/ Crash(p)
      BY <1>5 DEF Begin, Release, ReleaseFails, Interrupt, Exit, Crash
<1> QED BY <1>1, <1>2, <1>3, <1>4, <1>5 DEF Work

\* The owner's write: no decision, and the verdict that is there, or the first.
LEMMA OwnerWrites ==
  ASSUME Apart, NEW p \in Pids, WriteState(p)
  PROVE  /\ pc[p] = "state" /\ pc'[p] = "files"
         /\ disk' = [disk EXCEPT ![p] = hand[p]]
         /\ UNCHANGED <<hand, target>>
         /\ hand[p].status \notin Decisions \union {"none"}
         /\ disk[p].verdict # "none" => hand[p].verdict = disk[p].verdict
         /\ hand[p] \in RunState
  BY DEF Apart, TypeInv, TypeOK, WriteState, PutState, From, Goto, VerdictInv,
         OwnCopy, InRun

\* The sweep's write: the failure of a run whose owner is gone.
LEMMA SweeperWrites ==
  ASSUME Apart, NEW p \in Pids, SweepState(p)
  PROVE  /\ pc[p] = "sweepState" /\ pc'[p] = "sweepFiles"
         /\ target[p] \in Pids /\ target[p] # p
         /\ pc[target[p]] \in Left /\ pc[target[p]] \notin Holding
         /\ disk' = [disk EXCEPT ![target[p]] = hand[p]]
         /\ UNCHANGED <<hand, target>>
         /\ hand[p].status = "error"
         /\ hand[p].verdict = disk[target[p]].verdict
<1> USE DEF Apart, TypeInv, TypeOK
<1>1. pc[p] = "sweepState" /\ pc'[p] = "sweepFiles" BY DEF SweepState, From, Goto
<1>2. target[p] \in Pids /\ SweptCopy(p) /\ OwnCopy(target[p]) BY DEF VerdictInv
<1>3. hand[p].status = "error" BY <1>1 DEF EvidenceInv, HandInv
<1>4. pc[target[p]] \notin Holding
      BY <1>1, <1>2, Alone DEF SweptCopy, Holding, InTry, Sweeping
<1>5. pc[target[p]] \in Left
      BY <1>1, <1>2, <1>4 DEF SweptCopy, OwnCopy, Holding, InTry
<1> QED BY <1>1, <1>2, <1>3, <1>4, <1>5 DEF SweptCopy, SweepState, PutState

\* What a process holds of its own run after a step.
LEMMA OwnCopyIdle ==
  ASSUME Apart, NEW p \in Pids,
         \/ Begin(p) \/ Acquire(p) \/ Release(p) \/ ReleaseFails(p)
         \/ Interrupt(p) \/ Exit(p) \/ Crash(p)
         \/ SweepList(p) \/ SweepSkip(p) \/ SweepRead(p) \/ SweepEnd(p)
         \/ CapCheck(p) \/ SetupFails(p) \/ SweepPersistFails(p)
  PROVE  OwnCopy(p)'
<1> USE DEF Apart, TypeInv, TypeOK, From, Goto
<1>1. UNCHANGED disk /\ pc'[p] \notin Busy BY IdleStep
<1>2. pc'[p] \in Left \/ pc[p] \notin InRun \union Left
  <2>1. CASE Release(p) \/ ReleaseFails(p) \/ Interrupt(p) \/ Exit(p) \/ Crash(p) \/ SetupFails(p)
             \/ SweepPersistFails(p)
        BY <2>1 DEF Release, ReleaseFails, Interrupt, Exit, Crash, SetupFails, SweepPersistFails, Left
  <2>2. CASE Begin(p) \/ SweepList(p) \/ SweepSkip(p) \/ SweepRead(p) \/ SweepEnd(p)
             \/ CapCheck(p)
        BY <2>2 DEF Begin, SweepList, SweepSkip, SweepRead, SweepEnd, CapCheck, InRun, Left
  <2>3. CASE Acquire(p)
        BY <2>3 DEF Acquire, LockCreate, LockExists, LockGiveUp, LockRead, LockProbe,
                    LockUnlink, LockWrite, AcquireRaises, InRun, Left
  <2> QED BY <2>1, <2>2, <2>3
<1>3. OwnCopy(p) BY DEF VerdictInv
<1> QED BY <1>1, <1>2, <1>3 DEF OwnCopy, Busy, InRun, Left

\* A failure outside the sweep changes the status alone.
LEMMA OwnCopyFails ==
  ASSUME Apart, NEW p \in Pids, StageRaises(p) \/ HookRaises(p) \/ PersistFails(p)
  PROVE  OwnCopy(p)'
<1> USE DEF Apart, TypeInv, TypeOK, From, Goto, Holds
<1>1. UNCHANGED disk /\ pc[p] \in InRun
      BY DEF StageRaises, HookRaises, PersistFails, Raises, InRun
<1>2. OwnCopy(p) /\ hand[p] \in RunState BY DEF VerdictInv
<1>3. \/ pc'[p] = "release"
      \/ pc'[p] = "state" /\ hand'[p] = Failed(hand[p])
      BY DEF StageRaises, HookRaises, PersistFails, Raises
<1>4. Failed(hand[p]).status = "error" /\ Failed(hand[p]).verdict = hand[p].verdict
      /\ Failed(hand[p]).made = hand[p].made
      BY <1>2 DEF Failed, RunState
<1> QED BY <1>1, <1>2, <1>3, <1>4 DEF OwnCopy, InRun, Left, Decisions

\* The next stage begins with what the one before it has made.
LEMMA OwnCopyAdvances ==
  ASSUME Apart, NEW p \in Pids, pc[p] \in {"files", "hook"},
         hand[p].status \in DOMAIN NextStatus,
         hand[p].status = "queued" \/ pc[p] = "hook",
         pc'[p] = "state", hand'[p] = Advanced(hand[p]), UNCHANGED disk
  PROVE  OwnCopy(p)'
<1> USE DEF Apart, TypeInv, TypeOK
<1>1. OwnCopy(p) /\ hand[p] \in RunState /\ HandInv(p) BY DEF VerdictInv, EvidenceInv
<1>2. /\ hand'[p].status = NextStatus[hand[p].status]
      /\ hand'[p].verdict = hand[p].verdict /\ hand'[p].made = hand[p].made
      BY <1>1 DEF Advanced, RunState
<1>3. hand[p].status = "researching" => hand[p].made >= 2
      BY <1>1 DEF HandInv, InRun, BeforeWork, StageOf, RunState
<1>4. /\ hand'[p].status \notin Decisions \union {"none"}
      /\ hand'[p].status = "architecting" => hand[p].status = "researching"
      BY <1>2 DEF NextStatus, Decisions
<1> QED BY <1>1, <1>2, <1>3, <1>4 DEF OwnCopy, InRun

LEMMA OwnCopyMoves ==
  ASSUME Apart, NEW p \in Pids,
         \/ SweepProbe(p) \/ SweepState(p) \/ SweepFiles(p)
         \/ Create(p) \/ Setup(p) \/ SetupPersonaGone(p)
         \/ WriteState(p) \/ WriteFiles(p) \/ StageReturns(p) \/ HookReturns(p)
  PROVE  OwnCopy(p)'
<1> USE DEF Apart, TypeInv, TypeOK, From, Goto, Holds, runVars
<1>0. OwnCopy(p) /\ hand[p] \in RunState /\ disk[p] \in RunState BY DEF VerdictInv
<1>1. CASE SweepProbe(p) \/ SweepFiles(p)
      BY <1>0, <1>1 DEF SweepProbe, SweepFiles, OwnCopy, InRun, Left
<1>2. CASE SweepState(p)
      BY <1>0, <1>2, SweeperWrites DEF OwnCopy, InRun, Left
<1>3. CASE Create(p)
      BY <1>0, <1>3 DEF Create, OwnCopy, InRun, Left, NewState
<1>4. CASE Setup(p)
      BY <1>0, <1>4 DEF Setup, OwnCopy, InRun, Left, NewState, Decisions
<1>5. CASE SetupPersonaGone(p)
      BY <1>0, <1>5 DEF SetupPersonaGone, OwnCopy, InRun, Left, NewState, Failed, Decisions
<1>6. CASE WriteState(p)
  <2>1. disk'[p] = hand[p] /\ hand'[p] = hand[p] /\ pc[p] = "state" /\ pc'[p] = "files"
        BY <1>6, OwnerWrites
  <2> QED BY <1>0, <2>1 DEF OwnCopy, InRun
<1>7. CASE WriteFiles(p)
  <2>1. pc[p] = "files" /\ UNCHANGED disk BY <1>7 DEF WriteFiles
  <2>2. CASE hand[p].status = "queued"
        BY <1>7, <2>1, <2>2, OwnCopyAdvances DEF WriteFiles, NextStatus
  <2>3. CASE hand[p].status # "queued"
    <3>1. pc'[p] \in {"work", "hook"} /\ hand' = hand BY <1>7, <2>3 DEF WriteFiles
    <3> QED BY <1>0, <2>1, <3>1 DEF OwnCopy, InRun
  <2> QED BY <2>2, <2>3
<1>8. CASE StageReturns(p)
  <2>1. PICK v \in {"none", "pass", "fail"} :
          /\ (v # "none") <=> (hand[p].status = "architecting")
          /\ Holds(p, p, [hand[p] EXCEPT !.made = @ + 1, !.verdict = v])
        BY <1>8 DEF StageReturns
  <2>2. /\ hand'[p].status = hand[p].status
        /\ hand'[p].made = hand[p].made + 1
        /\ hand'[p].verdict = v
        BY <1>0, <2>1 DEF RunState
  <2>3. /\ pc[p] = "work" /\ pc'[p] = "state" /\ UNCHANGED disk
        /\ BeforeWork(hand[p])
        BY <1>8 DEF StageReturns, InStage
  <2>4. hand[p].made < 3 /\ hand[p].made \in 0..3
        BY <1>0, <2>3, InStageBound DEF BeforeWork, StageOf, RunState
  <2>5. disk[p].verdict = "none"
        BY <1>0, <2>3, <2>4 DEF OwnCopy, InRun
  <2> QED BY <1>0, <2>1, <2>2, <2>3, <2>4, <2>5 DEF OwnCopy, InRun
<1>9. CASE HookReturns(p)
  <2>1. pc[p] = "hook" /\ UNCHANGED disk BY <1>9 DEF HookReturns
  <2>2. CASE hand[p].status \in DOMAIN NextStatus
        BY <1>9, <2>1, <2>2, OwnCopyAdvances DEF HookReturns
  <2>3. CASE hand[p].status \notin DOMAIN NextStatus
        BY <1>0, <1>9, <2>1, <2>3 DEF HookReturns, OwnCopy, InRun, Left
  <2> QED BY <2>2, <2>3
<1> QED BY <1>1, <1>2, <1>3, <1>4, <1>5, <1>6, <1>7, <1>8, <1>9

\* Nobody is about to judge or fail a swept run but by SweepRead and SweepProbe.
LEMMA SweepEntered ==
  ASSUME TypeOK, NEW p \in Pids, Begin(p) \/ Work(p) \/ Interrupt(p) \/ Crash(p),
         ~SweepRead(p), ~SweepProbe(p)
  PROVE  pc'[p] \notin {"sweepProbe", "sweepState"}
<1> USE DEF TypeOK, From, Goto
<1>1. CASE Sweep(p)
      BY <1>1 DEF Sweep, SweepList, SweepSkip, SweepState, SweepFiles, SweepEnd
<1>2. CASE Acquire(p)
      BY <1>2 DEF Acquire, LockCreate, LockExists, LockGiveUp, LockRead, LockProbe,
                  LockUnlink, LockWrite, AcquireRaises
<1>3. CASE Admit(p)
      BY <1>3 DEF Admit, CapCheck, Create, Setup, SetupPersonaGone, SetupFails
<1>4. CASE Run(p)
      BY <1>4 DEF Run, WriteState, WriteFiles, StageReturns, StageRaises, HookReturns,
                  HookRaises, PersistFails, SweepPersistFails, Raises
<1>5. CASE Begin(p) \/ Release(p) \/ ReleaseFails(p) \/ Interrupt(p) \/ Exit(p) \/ Crash(p)
      BY <1>5 DEF Begin, Release, ReleaseFails, Interrupt, Exit, Crash
<1> QED BY <1>1, <1>2, <1>3, <1>4, <1>5 DEF Work

\* What the sweep holds after a step of its process.
LEMMA SweptCopyStep ==
  ASSUME Apart, NEW p \in Pids, Begin(p) \/ Work(p) \/ Interrupt(p) \/ Crash(p)
  PROVE  SweptCopy(p)'
<1> USE DEF Apart, TypeInv, TypeOK, From, Goto, Holds, runVars
<1>1. CASE SweepRead(p)
  <2>1. PICK r \in todo[p] : /\ disk[r].status \in RunningStatuses
                             /\ Holds(p, r, disk[r])
        BY <1>1 DEF SweepRead
  <2>2. r \in Pids /\ pc[p] = "sweep" /\ UNCHANGED disk BY <1>1 DEF SweepRead
  <2>3. disk[p].status = "none"
        BY <2>2 DEF VerdictInv, OwnCopy, InRun, Left
  <2> QED BY <2>1, <2>2, <2>3 DEF SweptCopy, RunningStatuses
<1>2. CASE SweepProbe(p)
  <2>1. pc[p] = "sweepProbe" /\ SweptCopy(p) /\ UNCHANGED disk
        BY <1>2 DEF SweepProbe, VerdictInv
  <2>2. \/ pc'[p] = "sweep"
        \/ target'[p] = target[p] /\ hand'[p] = Failed(hand[p])
        BY <1>2 DEF SweepProbe
  <2>3. Failed(hand[p]).verdict = hand[p].verdict BY DEF Failed, RunState
  <2> QED BY <2>1, <2>2, <2>3 DEF SweptCopy
<1>3. CASE ~SweepRead(p) /\ ~SweepProbe(p)
      BY <1>3, SweepEntered DEF SweptCopy
<1> QED BY <1>1, <1>2, <1>3

\* The other processes hold what they held, and their files are as they were:
\* whoever writes is alone in the cell.
LEMMA OthersCopies ==
  ASSUME Apart, NEW p \in Pids,
         Begin(p) \/ Work(p) \/ Interrupt(p) \/ Crash(p),
         NEW q \in Pids \ {p}
  PROVE  OwnCopy(q)' /\ SweptCopy(q)'
<1> USE DEF Apart, TypeInv, TypeOK
<1>1. /\ pc'[q] = pc[q] /\ hand'[q] = hand[q] /\ target'[q] = target[q]
      /\ OwnCopy(q) /\ SweptCopy(q)
      BY OwnMove, ProcessWrites DEF VerdictInv
<1>2. CASE WriteState(p)
  <2>1. disk' = [disk EXCEPT ![p] = hand[p]] /\ pc[p] = "state" BY <1>2, OwnerWrites
  <2>2. pc[q] \notin Holding BY <2>1, Alone DEF Holding, InTry, InRun
  <2> QED BY <1>1, <2>1, <2>2
          DEF OwnCopy, SweptCopy, Holding, InTry, InRun, Sweeping
<1>3. CASE SweepState(p)
  <2>1. pc[q] \notin Holding
        BY <1>3, SweeperWrites, Alone DEF Holding, InTry, Sweeping
  <2>2. OwnCopy(q)'
    <3>1. CASE q = target[p]
      <4>1. pc[q] \in Left /\ pc[q] \notin InRun \union {"setup"}
            BY <1>3, <2>1, <3>1, SweeperWrites DEF Holding, InTry
      <4> QED BY <1>1, <4>1 DEF OwnCopy
    <3>2. CASE q # target[p]
          BY <1>1, <1>3, <3>2, SweeperWrites DEF OwnCopy
    <3> QED BY <3>1, <3>2
  <2> QED BY <1>1, <2>1, <2>2 DEF SweptCopy, Holding, InTry, Sweeping
<1>4. CASE UNCHANGED disk BY <1>1, <1>4 DEF OwnCopy, SweptCopy
<1> QED BY <1>2, <1>3, <1>4, ProcessWrites

\* A process writes no decision, and over no verdict but with the same.
LEMMA VerdictStays ==
  ASSUME Apart, NEW p \in Pids,
         Begin(p) \/ Work(p) \/ Interrupt(p) \/ Crash(p), NEW r \in Pids
  PROVE  \/ disk'[r] = disk[r]
         \/ /\ disk'[r].status \notin Decisions
            /\ disk[r].verdict # "none" => disk'[r].verdict = disk[r].verdict
<1> USE DEF Apart, TypeInv, TypeOK
<1>1. CASE WriteState(p) BY <1>1, OwnerWrites
<1>2. CASE SweepState(p) BY <1>2, SweeperWrites DEF Decisions
<1>3. CASE UNCHANGED disk BY <1>3
<1> QED BY <1>1, <1>2, <1>3, ProcessWrites

\* A step of a process.
LEMMA ProcessKeepsVerdict ==
  ASSUME Apart, NEW p \in Pids, Begin(p) \/ Work(p) \/ Interrupt(p) \/ Crash(p)
  PROVE  VerdictInv'
<1> USE DEF Apart, TypeInv, TypeOK
<1>1. OwnCopy(p)'
      BY OwnCopyIdle, OwnCopyFails, OwnCopyMoves DEF Work, Sweep, Admit, Run
<1>2. \A q \in Pids : OwnCopy(q)' /\ SweptCopy(q)' BY <1>1, SweptCopyStep, OthersCopies
<1>3. UNCHANGED <<dpc, dhand, drun, assessed>> BY OwnMove, ProcessWrites
<1>4. ASSUME NEW d \in Deciders PROVE LoadedCopy(d)'
  <2>1. LoadedCopy(d) /\ DeciderInv(d) BY DEF VerdictInv, EvidenceInv
  <2>2. dpc[d] # "idle" => disk'[drun[d]].verdict = disk[drun[d]].verdict
        BY <2>1, VerdictStays DEF LoadedCopy, DeciderInv
  <2> QED BY <1>3, <2>1, <2>2 DEF LoadedCopy
<1>5. GateHolds' BY <1>3, VerdictStays DEF VerdictInv, GateHolds, Decisions
<1> QED BY <1>2, <1>4, <1>5 DEF VerdictInv

\* A step of a terminal, with others at work or not.
LEMMA DeciderKeepsVerdict ==
  ASSUME Apart, NEW d \in Deciders,
         DecideLoad(d) \/ Approve(d) \/ Assess(d) \/ DecideStops(d)
  PROVE  /\ VerdictInv'
         /\ \A r \in Pids : disk'[r].verdict = disk[r].verdict
<1> USE DEF Apart, TypeInv, TypeOK, runVars
<1>1. CASE DecideLoad(d)
      BY <1>1 DEF DecideLoad, VerdictInv, OwnCopy, SweptCopy, LoadedCopy, GateHolds
<1>2. CASE Approve(d)
  <2> DEFINE r == drun[d]
  <2>1. PICK cv \in Decisions : /\ GateOpen(cv, dhand[d].verdict)
                                /\ dhand' = [dhand EXCEPT ![d].status = cv]
                                /\ PutState(r, [dhand[d] EXCEPT !.status = cv])
        BY <1>2 DEF Approve
  <2>2. /\ dpc[d] = "approve" /\ dpc' = [dpc EXCEPT ![d] = "assess"]
        /\ UNCHANGED <<pc, hand, target, assessed, drun>>
        BY <1>2 DEF Approve
  <2>3. /\ r \in Pids /\ dhand[d].verdict # "none" /\ dhand[d].verdict = disk[r].verdict
        BY <2>2 DEF EvidenceInv, DeciderInv, VerdictInv, LoadedCopy
  <2>4. /\ disk'[r].status = cv /\ disk'[r].verdict = disk[r].verdict
        /\ dhand'[d].status = cv /\ dhand'[d].verdict = dhand[d].verdict
        /\ \A q \in Pids \ {r} : disk'[q] = disk[q]
        /\ \A e \in Deciders \ {d} : dhand'[e] = dhand[e]
        BY <2>1, <2>3 DEF PutState, RunState
  <2>5. cv = "approved" => disk[r].verdict = "pass" BY <2>1, <2>3 DEF GateOpen
  <2>6. ASSUME NEW p \in Pids PROVE OwnCopy(p)' /\ SweptCopy(p)'
    <3>1. OwnCopy(p) /\ SweptCopy(p) /\ target[p] \in Pids BY DEF VerdictInv
    <3>2. \A q \in Pids : /\ disk'[q].verdict = disk[q].verdict
                          /\ disk'[q].status = "none" => disk[q].status = "none"
          BY <2>4 DEF Decisions
    <3>3. p = r => pc[p] \in InRun \union Left BY <2>3, <3>1 DEF OwnCopy
    <3>4. p # r => disk'[p] = disk[p] BY <2>4
    <3> QED BY <2>2, <3>1, <3>2, <3>3, <3>4 DEF OwnCopy, SweptCopy
  <2>7. ASSUME NEW e \in Deciders PROVE LoadedCopy(e)'
    <3>1. LoadedCopy(e) /\ DeciderInv(e) BY DEF VerdictInv, EvidenceInv
    <3>2. CASE e = d BY <2>2, <2>3, <2>4, <2>5, <3>2 DEF LoadedCopy
    <3>3. CASE e # d BY <2>2, <2>4, <3>1, <3>3 DEF LoadedCopy, DeciderInv
    <3> QED BY <3>2, <3>3
  <2>8. GateHolds' BY <2>2, <2>4, <2>5 DEF VerdictInv, GateHolds
  <2> QED BY <2>4, <2>6, <2>7, <2>8 DEF VerdictInv
<1>3. CASE Assess(d)
  <2>1. UNCHANGED <<pc, hand, target, disk>> /\ DecideEnd(d) /\ dpc[d] = "assess"
        /\ assessed' = [assessed EXCEPT ![drun[d]] = dhand[d].status]
        BY <1>3 DEF Assess
  <2>2. drun[d] \in Pids /\ LoadedCopy(d) BY <2>1 DEF EvidenceInv, DeciderInv, VerdictInv
  <2>3. GateHolds' BY <2>1, <2>2 DEF VerdictInv, GateHolds, LoadedCopy
  <2>4. \A e \in Deciders : LoadedCopy(e)'
        BY <2>1 DEF DecideEnd, VerdictInv, LoadedCopy
  <2> QED BY <2>1, <2>3, <2>4 DEF VerdictInv, OwnCopy, SweptCopy
<1>4. CASE DecideStops(d)
  <2>1. UNCHANGED <<pc, hand, target, disk, assessed>> /\ DecideEnd(d)
        BY <1>4 DEF DecideStops
  <2> QED BY <2>1 DEF DecideEnd, VerdictInv, OwnCopy, SweptCopy, LoadedCopy, GateHolds
<1> QED BY <1>1, <1>2, <1>3, <1>4

LEMMA VerdictStep ==
  /\ Apart /\ [Next]_vars => VerdictInv'
  /\ Apart /\ [Next]_vars =>
       \A r \in Pids : disk[r].verdict # "none" => disk'[r].verdict = disk[r].verdict
<1> SUFFICES ASSUME Apart, [Next]_vars
             PROVE  /\ VerdictInv'
                    /\ \A r \in Pids :
                          disk[r].verdict # "none" => disk'[r].verdict = disk[r].verdict
    OBVIOUS
<1>1. CASE UNCHANGED vars \/ Midnight
      BY <1>1 DEF vars, Midnight, runVars, cmdVars, Apart, VerdictInv, OwnCopy, SweptCopy,
                  LoadedCopy, GateHolds
<1>2. ASSUME NEW p \in Pids, Begin(p) \/ Work(p) \/ Interrupt(p) \/ Crash(p)
      PROVE  \A r \in Pids : disk[r].verdict # "none" => disk'[r].verdict = disk[r].verdict
      BY <1>2, VerdictStays
<1> QED BY <1>1, <1>2, ProcessKeepsVerdict, DeciderKeepsVerdict DEF Next

LEMMA ApartAlways ==
  ASSUME ~OverlappingStarts
  PROVE  /\ Init => Apart
         /\ Apart /\ [Next]_vars => Apart'
  BY TypeInit, LockInit, EvidenceInit, VerdictInit, TypeStep, LockStep, EvidenceStep, VerdictStep
  DEF Apart

\* No run is approved, in either file, that its architect did not pass: with any number
\* of terminals, and calls that fail at any point.
THEOREM GateKept ==
  ASSUME ~OverlappingStarts
  PROVE  Spec => []GateHolds
<1>1. Init => Apart BY ApartAlways
<1>2. Apart /\ [Next]_vars => Apart' BY ApartAlways
<1>3. Apart => GateHolds BY DEF Apart, VerdictInv
<1> QED BY <1>1, <1>2, <1>3, PTL DEF Spec

\* What the architect said, once in state.json, stays there: no stale copy takes it back.
THEOREM VerdictIsFinal ==
  ASSUME ~OverlappingStarts
  PROVE  Spec => [][\A r \in Pids : disk[r].verdict # "none"
                                      => disk'[r].verdict = disk[r].verdict]_vars
<1>1. Init => Apart BY ApartAlways
<1>2. Apart /\ [Next]_vars => Apart' BY ApartAlways
<1>3. Apart /\ [Next]_vars => [\A r \in Pids : disk[r].verdict # "none"
                                 => disk'[r].verdict = disk[r].verdict]_vars
      BY VerdictStep
<1> QED BY <1>1, <1>2, <1>3, PTL DEF Spec

-----------------------------------------------------------------------------
(* state.json by itself, with starts that overlap as they like: a decision *)
(* comes from a terminal only, and with the verdict it was checked against.*)

Undecided == \A p \in Pids : pc[p] \in InRun \union {"setup"} => hand[p].status \notin Decisions

ApprovedPassed == \A r \in Pids : disk[r].status = "approved" => disk[r].verdict = "pass"

\* No process takes a decision into its hands.
LEMMA UndecidedStep ==
  ASSUME TypeInv, Undecided, NEW p \in Pids, Begin(p) \/ Work(p) \/ Interrupt(p) \/ Crash(p)
  PROVE  Undecided'
<1> USE DEF TypeInv, TypeOK, From, Goto, Holds, runVars
<1>1. \A q \in Pids \ {p} : pc'[q] = pc[q] /\ hand'[q] = hand[q] BY OwnMove
<1>2. /\ hand[p] \in RunState /\ Failed(hand[p]).status \notin Decisions
      /\ pc[p] \in InRun \union {"setup"} => hand[p].status \notin Decisions
      BY DEF Undecided, Failed, RunState, Decisions
<1>3. hand[p].status \in DOMAIN NextStatus => Advanced(hand[p]).status \notin Decisions
      BY <1>2 DEF Advanced, NextStatus, RunState, Decisions
<1>4. pc'[p] \in InRun \union {"setup"} => hand'[p].status \notin Decisions
  <2>1. CASE \/ Begin(p) \/ Acquire(p) \/ Release(p) \/ ReleaseFails(p)
             \/ Interrupt(p) \/ Exit(p) \/ Crash(p)
             \/ SweepList(p) \/ SweepSkip(p) \/ SweepRead(p) \/ SweepEnd(p)
             \/ CapCheck(p) \/ SetupFails(p) \/ SweepPersistFails(p)
        BY <2>1, IdleStep DEF Busy
  <2>2. CASE SweepProbe(p) \/ SweepState(p) \/ SweepFiles(p)
        BY <2>2 DEF SweepProbe, SweepState, SweepFiles, InRun
  <2>3. CASE Create(p) BY <2>3 DEF Create, NewState, Decisions
  <2>4. CASE Setup(p) \/ SetupPersonaGone(p) \/ WriteState(p)
        BY <1>2, <2>4 DEF Setup, SetupPersonaGone, WriteState, InRun
  <2>5. CASE WriteFiles(p) \/ HookReturns(p)
        BY <1>2, <1>3, <2>5 DEF WriteFiles, HookReturns, NextStatus, InRun
  <2>6. CASE StageReturns(p)
        BY <1>2, <2>6 DEF StageReturns, InRun, RunState
  <2>7. CASE StageRaises(p) \/ HookRaises(p) \/ PersistFails(p)
        BY <1>2, <2>7 DEF StageRaises, HookRaises, PersistFails, Raises, InRun
  <2> QED BY <2>1, <2>2, <2>3, <2>4, <2>5, <2>6, <2>7 DEF Work, Sweep, Admit, Run
<1> QED BY <1>1, <1>4 DEF Undecided

\* Nobody writes "approved" but a terminal, through the gate.
LEMMA ApprovedStep ==
  TypeInv /\ EvidenceInv /\ Undecided /\ ApprovedPassed /\ [Next]_vars => (Undecided /\ ApprovedPassed)'
<1> SUFFICES ASSUME TypeInv, EvidenceInv, Undecided, ApprovedPassed, [Next]_vars
             PROVE  (Undecided /\ ApprovedPassed)'
    OBVIOUS
<1> USE DEF TypeInv, TypeOK
<1>1. ASSUME NEW p \in Pids, Begin(p) \/ Work(p) \/ Interrupt(p) \/ Crash(p)
      PROVE  (Undecided /\ ApprovedPassed)'
  <2>1. CASE WriteState(p)
        BY <1>1, <2>1, UndecidedStep
        DEF WriteState, From, PutState, Undecided, ApprovedPassed, InRun, Decisions
  <2>2. CASE SweepState(p)
    <3>1. hand[p].status = "error" BY <2>2 DEF SweepState, From, EvidenceInv, HandInv
    <3> QED BY <1>1, <2>2, <3>1, UndecidedStep DEF SweepState, PutState, ApprovedPassed
  <2>3. CASE UNCHANGED disk BY <1>1, <2>3, UndecidedStep DEF ApprovedPassed
  <2> QED BY <1>1, <2>1, <2>2, <2>3, ProcessWrites
<1>2. ASSUME NEW d \in Deciders, Approve(d) PROVE (Undecided /\ ApprovedPassed)'
  <2>1. PICK cv \in Decisions : /\ GateOpen(cv, dhand[d].verdict)
                                /\ PutState(drun[d], [dhand[d] EXCEPT !.status = cv])
        BY <1>2 DEF Approve
  <2>2. UNCHANGED <<pc, hand>> /\ drun[d] \in Pids
        BY <1>2 DEF Approve, EvidenceInv, DeciderInv
  <2>3. /\ \A r \in Pids \ {drun[d]} : disk'[r] = disk[r]
        /\ disk'[drun[d]].status = cv /\ disk'[drun[d]].verdict = dhand[d].verdict
        BY <2>1, <2>2 DEF PutState, RunState
  <2> QED BY <2>1, <2>2, <2>3 DEF GateOpen, Undecided, ApprovedPassed
<1>3. CASE \/ UNCHANGED vars \/ Midnight
           \/ \E d \in Deciders : DecideLoad(d) \/ Assess(d) \/ DecideStops(d)
      BY <1>3 DEF vars, Midnight, DecideLoad, Assess, DecideStops, runVars,
                  Undecided, ApprovedPassed
<1> QED BY <1>1, <1>2, <1>3 DEF Next

\* However starts overlap, calls fail and terminals race, a state.json that says APPROVED
\* holds the verdict APPROVED_FOR_BUILD.
THEOREM ApprovedOnlyPassed == Spec => []ApprovedPassed
<1> DEFINE All == TypeInv /\ EvidenceInv /\ Undecided /\ ApprovedPassed
<1>1. Init => All
  <2>1. Init => Undecided /\ ApprovedPassed
        BY DEF Init, Undecided, ApprovedPassed, InRun, NoState
  <2> QED BY <2>1, TypeInit, EvidenceInit
<1>2. All /\ [Next]_vars => All' BY TypeStep, EvidenceStep, ApprovedStep
<1> QED BY <1>1, <1>2, PTL DEF Spec

-----------------------------------------------------------------------------
(* The decision.                                                           *)

OneAtATime == /\ ~OverlappingStarts
              /\ ~LateFailures
              /\ \A d, e \in Deciders : d = e

-----------------------------------------------------------------------------
(* The invariant: every copy of a run that somebody will write back is     *)
(* either the file itself or one legal step ahead of it.                   *)

Fresh == {"none"} \union RunningStatuses

\* What the architect says may come with a step of an unaudited run.
SameVerdict(old, new) == \/ new.verdict = old.verdict
                         \/ old.status = "architecting" /\ old.verdict = "none"

\* One step of a run, failure included, as its owner is about to write it.
StepsTo(old, new) ==
  /\ old.status \in Fresh
  /\ \/ new.status \in {"error", old.status} /\ SameVerdict(old, new)
     \/ old.status = "none" /\ new.status = "queued" /\ new.verdict = old.verdict
     \/ /\ old.status \in RunningStatuses
        /\ new.status = NextStatus[old.status] /\ new.verdict = old.verdict
        /\ old.status = "architecting" => old.verdict # "none"

\* Before state.json is written the object is a step ahead, afterwards it says
\* the same, until the run waits for the commander and is no longer its owner's.
OwnerInv(p) ==
  /\ pc[p] = "state" => StepsTo(disk[p], hand[p])
  /\ pc[p] \in {"files", "work", "hook"} =>
       \/ disk[p].status = hand[p].status /\ disk[p].verdict = hand[p].verdict
       \/ hand[p].status = "awaiting_commander" /\ disk[p].status \in Ready

\* The sweep's copy is that of a run somebody else left unfinished.
SweeperInv(p) ==
  pc[p] \in {"sweepProbe", "sweepState"} => disk[target[p]].status \in RunningStatuses

\* The decider's copy is the file.
CopyInv(d) ==
  /\ dpc[d] = "approve" => /\ disk[drun[d]] = dhand[d]
                           /\ dhand[d].status = "awaiting_commander"
  /\ dpc[d] = "assess"  => disk[drun[d]] = dhand[d]

DecisionInv == /\ \A p \in Pids : OwnerInv(p) /\ SweeperInv(p)
               /\ \A d \in Deciders : CopyInv(d)
               /\ AssessmentAgrees

LEMMA DecisionInit == Init => DecisionInv
  BY DEF Init, DecisionInv, OwnerInv, SweeperInv, CopyInv, AssessmentAgrees

-----------------------------------------------------------------------------
(* The steps of one process.                                               *)

\* The owner writes a step of the run, and the sweep fails one that was running.
LEMMA WritesStep ==
  ASSUME Apart, DecisionInv, NEW p \in Pids
  PROVE  /\ WriteState(p) => StepsTo(disk[p], hand[p])
         /\ SweepState(p) => disk[target[p]].status \in RunningStatuses
  BY OwnerWrites, SweeperWrites DEF DecisionInv, OwnerInv, SweeperInv

\* A run that is ready for the commander is nobody's to write.
LEMMA ReadyKept ==
  ASSUME Apart, DecisionInv, NEW p \in Pids,
         Begin(p) \/ Work(p) \/ Interrupt(p) \/ Crash(p), NEW r \in Pids
  PROVE  \/ disk'[r] = disk[r]
         \/ disk[r].status \notin Ready /\ disk'[r].status \notin Decisions
<1> USE DEF Apart, TypeInv, TypeOK
<1>1. CASE WriteState(p)
      BY <1>1, OwnerWrites, WritesStep DEF StepsTo, Fresh, RunningStatuses, Ready, Decisions
<1>2. CASE SweepState(p)
  <2>1. /\ disk' = [disk EXCEPT ![target[p]] = hand[p]]
        /\ hand[p].status = "error" /\ target[p] \in Pids
        BY <1>2, SweeperWrites
  <2>2. disk[target[p]].status \notin Ready
        BY <1>2, WritesStep DEF RunningStatuses, Ready, Decisions
  <2> QED BY <2>1, <2>2 DEF Decisions
<1>3. CASE UNCHANGED disk BY <1>3
<1> QED BY <1>1, <1>2, <1>3, ProcessWrites

\* A process with nothing in hand to save has not begun its run or has left it.
LEMMA IdleOwner ==
  ASSUME Apart, NEW p \in Pids,
         \/ Begin(p) \/ Acquire(p) \/ Release(p) \/ ReleaseFails(p)
         \/ Interrupt(p) \/ Exit(p) \/ Crash(p)
         \/ SweepList(p) \/ SweepSkip(p) \/ SweepRead(p) \/ SweepEnd(p)
         \/ CapCheck(p) \/ SetupFails(p) \/ SweepPersistFails(p)
  PROVE  OwnerInv(p)'
  BY IdleStep DEF Apart, TypeInv, OwnerInv, Busy, InRun

\* Failing in the middle of a step is a step too.
LEMMA FailureSteps ==
  ASSUME NEW old \in RunState, NEW new \in RunState,
         \/ StepsTo(old, new)
         \/ old.status = new.status /\ old.verdict = new.verdict /\ old.status \in Fresh
  PROVE  StepsTo(old, Failed(new))
  BY DEF StepsTo, SameVerdict, Failed, RunState

\* A failure outside the sweep: ERROR is a step of what is on disk.
LEMMA FailingOwner ==
  ASSUME OneAtATime, Apart, DecisionInv, NEW p \in Pids,
         StageRaises(p) \/ HookRaises(p) \/ PersistFails(p)
  PROVE  OwnerInv(p)'
<1> USE DEF Apart, TypeInv, TypeOK, From, Goto, Holds
<1>1. UNCHANGED disk /\ pc[p] \in InRun
      BY DEF StageRaises, HookRaises, PersistFails, Raises, InRun
<1>2. \/ pc'[p] = "release"
      \/ pc'[p] = "state" /\ hand'[p] = Failed(hand[p])
      BY DEF StageRaises, HookRaises, PersistFails, Raises
<1>3. CASE pc'[p] = "release" BY <1>1, <1>3 DEF OwnerInv, OwnCopy, DecisionInv, InRun, Left
<1>4. CASE pc'[p] = "state" /\ hand'[p] = Failed(hand[p])
  <2>1. OwnerInv(p) /\ OwnCopy(p) /\ hand[p] \in RunState /\ disk[p] \in RunState
        BY DEF DecisionInv, VerdictInv
  <2>2. Failed(hand[p]).status = "error" /\ Failed(hand[p]).verdict = hand[p].verdict
        /\ Failed(hand[p]).made = hand[p].made
        BY <2>1 DEF Failed, RunState
  <2>3. StepsTo(disk[p], Failed(hand[p]))
    <3>1. CASE pc[p] = "state" BY <2>1, <3>1, FailureSteps DEF OwnerInv, OwnCopy
    <3>2. CASE pc[p] # "state"
      <4>1. pc[p] \in {"files", "work", "hook"} BY <1>1, <3>2 DEF InRun
      <4>2. hand[p].status \notin {"awaiting_commander", "error"}
        <5>1. CASE StageRaises(p)
              BY <5>1 DEF StageRaises, InStage, BeforeWork, StageOf
        <5>2. CASE HookRaises(p) \/ PersistFails(p)
              BY <1>4, <4>1, <5>2
              DEF OneAtATime, HookRaises, PersistFails, Published, Raises
        <5> QED BY <5>1, <5>2
      <4>3. disk[p].status = hand[p].status /\ disk[p].verdict = hand[p].verdict
            BY <2>1, <4>1, <4>2 DEF OwnerInv, OwnCopy
      <4>4. hand[p].status \in Fresh
            BY <2>1, <1>1, <4>2 DEF OwnerInv, OwnCopy, RunState, Statuses, Fresh
      <4> QED BY <2>1, <4>3, <4>4, FailureSteps
    <3> QED BY <3>1, <3>2
  <2> QED BY <1>1, <1>4, <2>1, <2>2, <2>3 DEF OwnerInv, OwnCopy, InRun, Decisions
<1> QED BY <1>2, <1>3, <1>4

\* The next stage is a step of the finished one.
LEMMA AdvancingOwner ==
  ASSUME Apart, DecisionInv, NEW p \in Pids, pc[p] \in {"files", "hook"},
         hand[p].status \in DOMAIN NextStatus,
         hand[p].status = "queued" \/ pc[p] = "hook",
         pc'[p] = "state", hand'[p] = Advanced(hand[p]), UNCHANGED disk
  PROVE  OwnerInv(p)'
<1> USE DEF Apart, TypeInv, TypeOK
<1>1. OwnerInv(p) /\ OwnCopy(p) /\ hand[p] \in RunState /\ HandInv(p)
      BY DEF DecisionInv, VerdictInv, EvidenceInv
<1>2. /\ hand'[p].status = NextStatus[hand[p].status]
      /\ hand'[p].verdict = hand[p].verdict /\ hand'[p].made = hand[p].made
      BY <1>1 DEF Advanced, RunState
<1>3. hand[p].status \in RunningStatuses BY DEF NextStatus, RunningStatuses
<1>4. disk[p].status = hand[p].status /\ disk[p].verdict = hand[p].verdict
      BY <1>1, <1>3 DEF OwnerInv, OwnCopy, RunningStatuses
<1>5. /\ hand[p].status = "architecting" => hand[p].verdict # "none"
      /\ hand[p].status = "researching" => hand[p].made >= 2
      BY <1>1 DEF HandInv, InRun, Produced, BeforeWork, StageOf, RunState
<1>6. StepsTo(disk[p], hand'[p])
      BY <1>2, <1>3, <1>4, <1>5 DEF StepsTo, Fresh
<1>7. /\ hand'[p].status \notin Decisions \union {"none"}
      /\ hand'[p].status = "architecting" => hand[p].status = "researching"
      BY <1>2, <1>3 DEF NextStatus, RunningStatuses, Decisions
<1> QED BY <1>1, <1>2, <1>5, <1>6, <1>7 DEF OwnerInv, OwnCopy, InRun

\* What a process holds after a step of its own.
LEMMA OwnerStep ==
  ASSUME OneAtATime, Apart, DecisionInv, NEW p \in Pids,
         \/ SweepProbe(p) \/ SweepState(p) \/ SweepFiles(p)
         \/ Create(p) \/ Setup(p) \/ SetupPersonaGone(p)
         \/ WriteState(p) \/ WriteFiles(p) \/ StageReturns(p) \/ HookReturns(p)
  PROVE  OwnerInv(p)'
<1> USE DEF Apart, TypeInv, TypeOK, From, Goto, Holds, runVars
<1>0. OwnerInv(p) /\ OwnCopy(p) /\ hand[p] \in RunState /\ disk[p] \in RunState
        BY DEF DecisionInv, VerdictInv
<1>1. CASE SweepProbe(p) \/ SweepFiles(p)
      BY <1>0, <1>1 DEF SweepProbe, SweepFiles, OwnerInv, InRun, Left
<1>2. CASE SweepState(p)
      BY <1>0, <1>2, SweeperWrites DEF OwnerInv, OwnCopy, InRun, Left
<1>3. CASE Create(p)
      BY <1>0, <1>3 DEF Create, OwnerInv, InRun, Left, NewState
<1>4. CASE Setup(p)
  <2>1. pc[p] = "setup" /\ pc'[p] = "state" /\ UNCHANGED <<hand, disk>> BY <1>4 DEF Setup
  <2>2. hand[p] = NewState /\ disk[p].status = "none" /\ disk[p].verdict = "none"
        BY <1>0, <2>1 DEF OwnerInv, OwnCopy, InRun, Left
  <2> QED BY <2>1, <2>2
          DEF OwnerInv, OwnCopy, InRun, NewState, StepsTo, Fresh, Decisions
<1>5. CASE SetupPersonaGone(p)
  <2>1. pc[p] = "setup" /\ pc'[p] = "state" /\ disk' = disk /\ hand'[p] = Failed(hand[p])
        BY <1>5 DEF SetupPersonaGone
  <2>2. hand[p] = NewState /\ disk[p].status = "none" /\ disk[p].verdict = "none"
        BY <1>0, <2>1 DEF OwnerInv, OwnCopy, InRun, Left
  <2> QED BY <2>1, <2>2
          DEF OwnerInv, OwnCopy, InRun, NewState, Failed, StepsTo, SameVerdict, Fresh, Decisions
<1>6. CASE WriteState(p)
  <2>1. disk'[p] = hand[p] /\ hand'[p] = hand[p] /\ pc[p] = "state" /\ pc'[p] = "files"
        BY <1>6, OwnerWrites
  <2> QED BY <1>0, <2>1 DEF OwnerInv, OwnCopy, InRun
<1>7. CASE WriteFiles(p)
  <2>1. pc[p] = "files" /\ UNCHANGED disk BY <1>7 DEF WriteFiles
  <2>2. CASE hand[p].status = "queued"
        BY <1>7, <2>1, <2>2, AdvancingOwner DEF WriteFiles, NextStatus
  <2>3. CASE hand[p].status # "queued"
    <3>1. pc'[p] \in {"work", "hook"} /\ hand' = hand BY <1>7, <2>3 DEF WriteFiles
    <3> QED BY <1>0, <2>1, <3>1 DEF OwnerInv, OwnCopy, InRun
  <2> QED BY <2>2, <2>3
<1>8. CASE StageReturns(p)
  <2>1. PICK v \in {"none", "pass", "fail"} :
          /\ (v # "none") <=> (hand[p].status = "architecting")
          /\ Holds(p, p, [hand[p] EXCEPT !.made = @ + 1, !.verdict = v])
        BY <1>8 DEF StageReturns
  <2>2. /\ hand'[p].status = hand[p].status
        /\ hand'[p].made = hand[p].made + 1
        /\ hand'[p].verdict = v
        BY <1>0, <2>1 DEF RunState
  <2>3. /\ pc[p] = "work" /\ pc'[p] = "state" /\ UNCHANGED disk
        /\ BeforeWork(hand[p])
        BY <1>8 DEF StageReturns, InStage
  <2>4. /\ hand[p].status \in {"ideating", "researching", "architecting"}
        /\ hand[p].made < 3 /\ hand[p].made \in 0..3
        BY <1>0, <2>3, InStageBound DEF BeforeWork, StageOf, RunState
  <2>5. disk[p].status = hand[p].status /\ disk[p].verdict = "none" /\ hand[p].verdict = "none"
        BY <1>0, <2>3, <2>4 DEF OwnerInv, OwnCopy, InRun
  <2>6. StepsTo(disk[p], hand'[p])
        BY <2>1, <2>2, <2>4, <2>5 DEF StepsTo, SameVerdict, Fresh, RunningStatuses
  <2> QED BY <1>0, <2>1, <2>2, <2>3, <2>4, <2>6 DEF OwnerInv, OwnCopy, InRun
<1>9. CASE HookReturns(p)
  <2>1. pc[p] = "hook" /\ UNCHANGED disk BY <1>9 DEF HookReturns
  <2>2. CASE hand[p].status \in DOMAIN NextStatus
        BY <1>9, <2>1, <2>2, AdvancingOwner DEF HookReturns
  <2>3. CASE hand[p].status \notin DOMAIN NextStatus
        BY <1>0, <1>9, <2>1, <2>3 DEF HookReturns, OwnerInv, InRun, Left
  <2> QED BY <2>2, <2>3
<1> QED BY <1>1, <1>2, <1>3, <1>4, <1>5, <1>6, <1>7, <1>8, <1>9

\* What the sweep holds after a step of its process.
LEMMA SweeperStep ==
  ASSUME Apart, DecisionInv, NEW p \in Pids,
         Begin(p) \/ Work(p) \/ Interrupt(p) \/ Crash(p)
  PROVE  SweeperInv(p)'
<1> USE DEF Apart, TypeInv, TypeOK, From, Goto, Holds
<1>1. CASE SweepRead(p) BY <1>1 DEF SweepRead, SweeperInv
<1>2. CASE SweepProbe(p)
  <2>1. pc[p] = "sweepProbe" /\ SweeperInv(p) /\ UNCHANGED disk
        BY <1>2 DEF SweepProbe, DecisionInv
  <2>2. pc'[p] = "sweep" \/ target'[p] = target[p] BY <1>2 DEF SweepProbe
  <2> QED BY <2>1, <2>2 DEF SweeperInv
<1>3. CASE ~SweepRead(p) /\ ~SweepProbe(p) BY <1>3, SweepEntered DEF SweeperInv
<1> QED BY <1>1, <1>2, <1>3

\* The other processes hold what they held, and their files are as they were:
\* whoever writes is alone in the cell.
LEMMA OthersStep ==
  ASSUME Apart, DecisionInv, NEW p \in Pids,
         Begin(p) \/ Work(p) \/ Interrupt(p) \/ Crash(p),
         NEW q \in Pids \ {p}
  PROVE  OwnerInv(q)' /\ SweeperInv(q)'
<1> USE DEF Apart, TypeInv, TypeOK
<1>1. /\ pc'[q] = pc[q] /\ hand'[q] = hand[q] /\ target'[q] = target[q]
      /\ OwnerInv(q) /\ SweeperInv(q)
      BY OwnMove, ProcessWrites DEF DecisionInv
<1>2. CASE WriteState(p) \/ SweepState(p)
  <2>1. pc[p] \in Holding BY <1>2, OwnerWrites, SweeperWrites DEF Holding, InTry, InRun, Sweeping
  <2>2. pc[q] \notin Holding BY <2>1, Alone
  <2> QED BY <1>1, <2>2 DEF OwnerInv, SweeperInv, Holding, InTry, InRun, Sweeping
<1>3. CASE UNCHANGED disk BY <1>1, <1>3 DEF OwnerInv, SweeperInv
<1> QED BY <1>2, <1>3, ProcessWrites

\* A step of a process keeps the whole invariant.
LEMMA ProcessStep ==
  ASSUME OneAtATime, Apart, DecisionInv, NEW p \in Pids,
         Begin(p) \/ Work(p) \/ Interrupt(p) \/ Crash(p)
  PROVE  DecisionInv'
<1> USE DEF Apart, TypeInv, TypeOK
<1>1. OwnerInv(p)' BY IdleOwner, FailingOwner, OwnerStep DEF Work, Sweep, Admit, Run
<1>2. \A q \in Pids : OwnerInv(q)' /\ SweeperInv(q)' BY <1>1, SweeperStep, OthersStep
<1>3. UNCHANGED <<dpc, dhand, drun, assessed>> BY OwnMove, ProcessWrites
<1>4. \A r \in Pids : \/ disk'[r] = disk[r]
                      \/ disk[r].status \notin Ready /\ disk'[r].status \notin Decisions
      BY ReadyKept
<1>5. ASSUME NEW d \in Deciders PROVE CopyInv(d)'
  <2>1. CopyInv(d) /\ DeciderInv(d) BY DEF DecisionInv, EvidenceInv
  <2>2. dpc[d] # "idle" => drun[d] \in Pids /\ dhand[d].status \in Ready
        BY <2>1 DEF CopyInv, DeciderInv, Decided, Ready
  <2>3. dpc[d] # "idle" => disk[drun[d]] = dhand[d] BY <2>1 DEF CopyInv
  <2> QED BY <1>3, <1>4, <2>1, <2>2, <2>3 DEF CopyInv
<1>6. AssessmentAgrees'
      BY <1>3, <1>4 DEF DecisionInv, AssessmentAgrees, Ready
<1> QED BY <1>2, <1>5, <1>6 DEF DecisionInv

-----------------------------------------------------------------------------
(* The steps of the terminal.                                              *)

\* approve() writes a decision on a run that waits for it, through the gate.
LEMMA ApproveWrites ==
  ASSUME Apart, DecisionInv, NEW d \in Deciders, Approve(d)
  PROVE  /\ drun[d] \in Pids
         /\ disk[drun[d]].status = "awaiting_commander"
         /\ \E cv \in Decisions :
              /\ cv = "approved" => disk[drun[d]].verdict = "pass"
              /\ disk' = [disk EXCEPT ![drun[d]].status = cv]
              /\ dhand' = [dhand EXCEPT ![d] = disk'[drun[d]]]
         /\ dpc' = [dpc EXCEPT ![d] = "assess"]
         /\ UNCHANGED <<pc, hand, target, assessed, drun>>
<1> USE DEF Apart, TypeInv, TypeOK
<1>1. PICK cv \in Decisions :
        /\ GateOpen(cv, dhand[d].verdict)
        /\ dhand' = [dhand EXCEPT ![d].status = cv]
        /\ PutState(drun[d], [dhand[d] EXCEPT !.status = cv])
      BY DEF Approve
<1>2. /\ drun[d] \in Pids /\ disk[drun[d]] = dhand[d]
      /\ dhand[d].status = "awaiting_commander"
      BY DEF Approve, EvidenceInv, DeciderInv, DecisionInv, CopyInv
<1>3. disk' = [disk EXCEPT ![drun[d]].status = cv] BY <1>1, <1>2 DEF PutState
<1>4. dhand' = [dhand EXCEPT ![d] = disk'[drun[d]]] BY <1>1, <1>2, <1>3
<1>5. cv = "approved" => disk[drun[d]].verdict = "pass" BY <1>1, <1>2 DEF GateOpen
<1> QED BY <1>2, <1>3, <1>4, <1>5 DEF Approve

\* A step of the only terminal keeps the invariant.
LEMMA DeciderStep ==
  ASSUME OneAtATime, Apart, DecisionInv, NEW d \in Deciders,
         DecideLoad(d) \/ Approve(d) \/ Assess(d) \/ DecideStops(d)
  PROVE  DecisionInv'
<1> USE DEF Apart, TypeInv, TypeOK, runVars
<1>0. \A e \in Deciders : e = d BY DEF OneAtATime
<1>1. CASE DecideLoad(d)
  <2>1. CopyInv(d)' BY <1>1 DEF DecideLoad, CopyInv
  <2> QED BY <1>0, <1>1, <2>1
          DEF DecideLoad, DecisionInv, OwnerInv, SweeperInv, AssessmentAgrees
<1>2. CASE Approve(d)
  <2> DEFINE r == drun[d]
  <2>1. PICK cv \in Decisions :
          /\ cv = "approved" => disk[r].verdict = "pass"
          /\ disk' = [disk EXCEPT ![r].status = cv]
          /\ dhand' = [dhand EXCEPT ![d] = disk'[r]]
        BY <1>2, ApproveWrites
  <2>2. /\ r \in Pids /\ disk[r].status = "awaiting_commander"
        /\ dpc' = [dpc EXCEPT ![d] = "assess"]
        /\ UNCHANGED <<pc, hand, target, assessed, drun>>
        BY <1>2, ApproveWrites
  <2>3. disk'[r].status = cv /\ disk'[r].verdict = disk[r].verdict
        BY <2>1, <2>2 DEF RunState
  <2>4. ASSUME NEW p \in Pids PROVE OwnerInv(p)'
    <3>1. OwnerInv(p) BY DEF DecisionInv
    <3>2. CASE p = r
          BY <2>2, <2>3, <3>1, <3>2 DEF OwnerInv, StepsTo, Fresh, RunningStatuses, Ready
    <3>3. CASE p # r BY <2>1, <2>2, <3>1, <3>3 DEF OwnerInv
    <3> QED BY <3>2, <3>3
  <2>5. ASSUME NEW p \in Pids PROVE SweeperInv(p)'
        BY <2>1, <2>2 DEF DecisionInv, SweeperInv, RunningStatuses
  <2>6. CopyInv(d)' BY <2>1, <2>2 DEF CopyInv
  <2>7. assessed[r] = "none" BY <2>2 DEF DecisionInv, AssessmentAgrees, Decisions
  <2>8. AssessmentAgrees' BY <2>1, <2>2, <2>7 DEF DecisionInv, AssessmentAgrees
  <2> QED BY <1>0, <2>4, <2>5, <2>6, <2>8 DEF DecisionInv
<1>3. CASE Assess(d)
  <2>1. UNCHANGED <<pc, hand, target, disk>> /\ dpc'[d] = "idle"
        BY <1>3 DEF Assess, DecideEnd
  <2>2. /\ drun[d] \in Pids /\ disk[drun[d]] = dhand[d]
        /\ assessed' = [assessed EXCEPT ![drun[d]] = dhand[d].status]
        BY <1>3 DEF Assess, EvidenceInv, DeciderInv, DecisionInv, CopyInv
  <2>3. AssessmentAgrees' BY <2>1, <2>2 DEF DecisionInv, AssessmentAgrees
  <2> QED BY <1>0, <2>1, <2>3 DEF DecisionInv, OwnerInv, SweeperInv, CopyInv
<1>4. CASE DecideStops(d)
  <2>1. UNCHANGED <<pc, hand, target, disk, assessed>> /\ dpc'[d] = "idle"
        BY <1>4 DEF DecideStops, DecideEnd
  <2> QED BY <1>0, <2>1
          DEF DecisionInv, OwnerInv, SweeperInv, CopyInv, AssessmentAgrees
<1> QED BY <1>1, <1>2, <1>3, <1>4

LEMMA DecisionStep ==
  ASSUME OneAtATime
  PROVE  Apart /\ DecisionInv /\ [Next]_vars => DecisionInv'
<1> SUFFICES ASSUME Apart, DecisionInv, [Next]_vars PROVE DecisionInv' OBVIOUS
<1>1. CASE UNCHANGED vars \/ Midnight
      BY <1>1 DEF vars, Midnight, runVars, cmdVars, DecisionInv, OwnerInv, SweeperInv,
                  CopyInv, AssessmentAgrees
<1> QED BY <1>1, ProcessStep, DeciderStep DEF Next

\* The invariant of this module, with what was known before it.
LEMMA DecisionAlways ==
  ASSUME OneAtATime
  PROVE  Spec => [](Apart /\ DecisionInv)
<1>1. Init => Apart /\ DecisionInv BY ApartAlways, DecisionInit DEF OneAtATime
<1>2. Apart /\ DecisionInv /\ [Next]_vars => (Apart /\ DecisionInv)'
      BY ApartAlways, DecisionStep DEF OneAtATime
<1> QED BY <1>1, <1>2, PTL DEF Spec

-----------------------------------------------------------------------------
(* What a reader of the two files may rely on.                             *)

\* assessment.json says what state.json says, with any number of runs, crashes
\* and interrupts.
THEOREM AssessmentFollowsState ==
  ASSUME OneAtATime
  PROVE  Spec => []AssessmentAgrees
<1>1. Apart /\ DecisionInv => AssessmentAgrees BY DEF DecisionInv
<1> QED BY <1>1, DecisionAlways, PTL

\* No step writes over a decision.
LEMMA DecisionStays ==
  ASSUME Apart, DecisionInv, [Next]_vars, NEW r \in Pids, disk[r].status \in Decisions
  PROVE  disk'[r] = disk[r]
<1>1. ASSUME NEW p \in Pids, Begin(p) \/ Work(p) \/ Interrupt(p) \/ Crash(p)
      PROVE  disk'[r] = disk[r]
      BY <1>1, ReadyKept DEF Ready
<1>2. ASSUME NEW d \in Deciders, Approve(d) PROVE disk'[r] = disk[r]
      BY <1>2, ApproveWrites DEF Apart, TypeInv, TypeOK, Decisions
<1>3. ASSUME UNCHANGED disk PROVE disk'[r] = disk[r] BY <1>3
<1>4. CASE \/ UNCHANGED vars \/ Midnight
           \/ \E d \in Deciders : DecideLoad(d) \/ Assess(d) \/ DecideStops(d)
      BY <1>3, <1>4 DEF vars, Midnight, DecideLoad, Assess, DecideStops, runVars
<1> QED BY <1>1, <1>2, <1>4 DEF Next

\* "There is no override": a decision in state.json is the last thing written
\* there.
THEOREM DecisionIsFinal ==
  ASSUME OneAtATime
  PROVE  Spec => DecisionFinal
<1>1. Apart /\ DecisionInv /\ [Next]_vars
        => [\A r \in Pids : disk[r].status \in Decisions => disk'[r] = disk[r]]_vars
      BY DecisionStays
<1> QED BY <1>1, DecisionAlways, PTL DEF Spec, DecisionFinal

-----------------------------------------------------------------------------
(* state.json implements the abstract lifecycle.                           *)

ShownStatus  == [r \in Pids |-> disk[r].status]
ShownVerdict == [r \in Pids |-> disk[r].verdict]

\* A write of one run's file is a change of one run's status and verdict.
LEMMA OneFileShown ==
  ASSUME TypeOK, NEW r \in Pids, NEW new \in RunState, disk' = [disk EXCEPT ![r] = new]
  PROVE  /\ ShownStatus'  = [ShownStatus  EXCEPT ![r] = new.status]
         /\ ShownVerdict' = [ShownVerdict EXCEPT ![r] = new.verdict]
         /\ ShownStatus[r] = disk[r].status /\ ShownVerdict[r] = disk[r].verdict
         /\ new.verdict = disk[r].verdict => ShownVerdict' = ShownVerdict
         /\ new.status = disk[r].status => ShownStatus' = ShownStatus
  BY DEF TypeOK, ShownStatus, ShownVerdict

\* The lifecycle goes through the stages in the pipeline's order.
LEMMA SameOrder ==
  /\ DOMAIN Life!Successor = Fresh
  /\ Life!Successor["none"] = "queued"
  /\ \A s \in RunningStatuses : Life!Successor[s] = NextStatus[s]
  BY DEF Life!Successor, Life!RunningStatuses, Fresh, RunningStatuses, NextStatus

\* A step of its owner is a step of the run.
LEMMA StepIsLife ==
  ASSUME TypeOK, NEW r \in Pids, NEW new \in RunState,
         disk' = [disk EXCEPT ![r] = new], StepsTo(disk[r], new)
  PROVE  Life!LifeNext \/ UNCHANGED Life!lifeVars
<1>0. /\ ShownStatus'  = [ShownStatus  EXCEPT ![r] = new.status]
      /\ ShownVerdict' = [ShownVerdict EXCEPT ![r] = new.verdict]
      /\ ShownStatus[r] = disk[r].status /\ ShownVerdict[r] = disk[r].verdict
      /\ new.verdict = disk[r].verdict => ShownVerdict' = ShownVerdict
      /\ new.status = disk[r].status => ShownStatus' = ShownStatus
      BY OneFileShown
<1>1. new.verdict \in {"none", "pass", "fail"} BY DEF RunState
<1>2. disk[r].status \in Fresh BY DEF StepsTo
<1>3. CASE new.status = "error" /\ SameVerdict(disk[r], new)
  <2>1. Life!Move(r, "error") BY <1>0, <1>3 DEF Life!Move, ShownStatus
  <2>2. \/ UNCHANGED ShownVerdict
        \/ disk[r].status = "architecting" /\ disk[r].verdict = "none"
        BY <1>0, <1>3 DEF SameVerdict
  <2>3. Life!Fail(r)
        BY <1>0, <1>1, <1>2, <2>1, <2>2, SameOrder
        DEF Life!Fail, Life!Verdicts, ShownStatus, ShownVerdict
  <2> QED BY <2>3 DEF Life!LifeNext
<1>4. CASE new.status = disk[r].status /\ SameVerdict(disk[r], new)
  <2>1. CASE new.verdict = disk[r].verdict
        BY <1>0, <1>4, <2>1 DEF Life!lifeVars, ShownStatus, ShownVerdict
  <2>2. CASE new.verdict # disk[r].verdict
    <3>1. disk[r].status = "architecting" /\ disk[r].verdict = "none"
          BY <1>4, <2>2 DEF SameVerdict
    <3>2. Life!Audit(r)
          BY <1>0, <1>1, <1>4, <2>2, <3>1
          DEF Life!Audit, Life!Verdicts, ShownStatus, ShownVerdict
    <3> QED BY <3>2 DEF Life!LifeNext
  <2> QED BY <2>1, <2>2
<1>5. CASE \/ /\ disk[r].status = "none" /\ new.status = "queued"
              /\ new.verdict = disk[r].verdict
           \/ /\ disk[r].status \in RunningStatuses
              /\ new.status = NextStatus[disk[r].status] /\ new.verdict = disk[r].verdict
              /\ disk[r].status = "architecting" => disk[r].verdict # "none"
  <2>1. /\ new.status = Life!Successor[disk[r].status] /\ UNCHANGED ShownVerdict
        /\ disk[r].status = "architecting" => disk[r].verdict # "none"
        BY <1>0, <1>5, SameOrder
  <2>2. Life!Advance(r)
        BY <1>0, <1>2, <2>1, SameOrder
        DEF Life!Advance, Life!Move, ShownStatus, ShownVerdict
  <2> QED BY <2>2 DEF Life!LifeNext
<1> QED BY <1>3, <1>4, <1>5 DEF StepsTo

\* The terminal's write is the decision.
LEMMA ApproveIsLife ==
  ASSUME Apart, DecisionInv, NEW d \in Deciders, Approve(d)
  PROVE  Life!LifeNext
<1> USE DEF Apart, TypeInv, TypeOK
<1>1. PICK cv \in Decisions :
        /\ cv = "approved" => disk[drun[d]].verdict = "pass"
        /\ disk' = [disk EXCEPT ![drun[d]].status = cv]
      BY ApproveWrites
<1>2. drun[d] \in Pids /\ disk[drun[d]].status = "awaiting_commander" BY ApproveWrites
<1> DEFINE r == drun[d]  new == [disk[r] EXCEPT !.status = cv]
<1>3. /\ new \in RunState /\ new.status = cv /\ new.verdict = disk[r].verdict
      /\ disk' = [disk EXCEPT ![r] = new]
      BY <1>1, <1>2 DEF RunState, Statuses
<1>4. /\ ShownStatus' = [ShownStatus EXCEPT ![r] = cv]
      /\ ShownVerdict' = ShownVerdict
      /\ ShownStatus[r] = "awaiting_commander" /\ ShownVerdict[r] = disk[r].verdict
  <2> HIDE DEF new
  <2> QED BY <1>2, <1>3, OneFileShown
<1>5. Life!Decide(r)
      BY <1>1, <1>4
      DEF Life!Decide, Life!Move, Life!Decisions, Decisions, ShownStatus, ShownVerdict
<1> QED BY <1>2, <1>5 DEF Life!LifeNext

\* Every step of the cell is a step of one run, or none.
LEMMA CellStepIsLife ==
  ASSUME Apart, DecisionInv, [Next]_vars
  PROVE  [Life!LifeNext]_(Life!lifeVars)
<1> USE DEF Apart, TypeInv
<1>1. ASSUME UNCHANGED disk PROVE UNCHANGED Life!lifeVars BY <1>1 DEF Life!lifeVars
<1>2. ASSUME NEW p \in Pids, Begin(p) \/ Work(p) \/ Interrupt(p) \/ Crash(p)
      PROVE  [Life!LifeNext]_(Life!lifeVars)
  <2>1. CASE WriteState(p) BY <2>1, OwnerWrites, WritesStep, StepIsLife
  <2>2. CASE SweepState(p)
    <3>1. /\ target[p] \in Pids /\ disk' = [disk EXCEPT ![target[p]] = hand[p]]
          /\ disk[target[p]].status \in RunningStatuses
          /\ hand[p].status = "error" /\ hand[p].verdict = disk[target[p]].verdict
          /\ hand[p] \in RunState
          BY <2>2, SweeperWrites, WritesStep DEF TypeOK
    <3>2. StepsTo(disk[target[p]], hand[p]) BY <3>1 DEF StepsTo, SameVerdict, Fresh
    <3> QED BY <3>1, <3>2, StepIsLife
  <2> QED BY <1>1, <1>2, <2>1, <2>2, ProcessWrites
<1>3. ASSUME NEW d \in Deciders, Approve(d) PROVE Life!LifeNext BY <1>3, ApproveIsLife
<1>4. CASE \/ UNCHANGED vars \/ Midnight
           \/ \E d \in Deciders : DecideLoad(d) \/ Assess(d) \/ DecideStops(d)
      BY <1>1, <1>4 DEF vars, Midnight, DecideLoad, Assess, DecideStops, runVars
<1> QED BY <1>2, <1>3, <1>4 DEF Next

\* Any number of runs in one cell, swept, interrupted or killed at any point:
\* what state.json shows of each is a behaviour of the abstract lifecycle.
THEOREM CellImplementsLifecycle ==
  ASSUME OneAtATime
  PROVE  Spec => ImplementsLifecycle
<1>1. Init => Life!LifeInit BY DEF Init, Life!LifeInit, NoState
<1>2. Apart /\ DecisionInv /\ [Next]_vars => [Life!LifeNext]_(Life!lifeVars)
      BY CellStepIsLife
<1> QED BY <1>1, <1>2, DecisionAlways, PTL DEF Spec, ImplementsLifecycle, Life!LifeSpec
=============================================================================
