-------------------------- MODULE SkunkworksProofs --------------------------
(***************************************************************************)
(* Theorems about Skunkworks for every set of processes and deciders,      *)
(* every daily cap and every number of days.                               *)
(***************************************************************************)
EXTENDS Skunkworks, TLAPS, FiniteSetTheorems

(* Types.  TypeOK is not inductive: a round that is under way was there to *)
(* take, a process is only inside a stage that has not answered, and only  *)
(* a decision is assessed.                                                 *)
Rounds  == \A p \in Pids : pc[p] \in {"read", "probe", "unlink"} => tries[p] > 0
InStage == \A p \in Pids : pc[p] = "work" => BeforeWork(hand[p])
Decided == \A d \in Deciders : dpc[d] = "assess" => dhand[d].status \in Decisions
TypeInv == TypeOK /\ Rounds /\ InStage /\ Decided

\* Initially nobody has started and there are no files.
LEMMA TypeInit == Init => TypeInv
  BY ConstantsAssumption
  DEF Init, TypeInv, TypeOK, Rounds, InStage, Decided, PCs, NoLock, Stale, NoState,
      RunState, Statuses

\* The system calls of RunLock.acquire keep the types.
LEMMA AcquireTypes ==
  ASSUME TypeInv, NEW p \in Pids, Acquire(p)
  PROVE  TypeInv'
<1> USE ConstantsAssumption
    DEF TypeInv, TypeOK, Rounds, InStage, Decided, PCs, Acquiring, Holding,
        InTry, Sweeping, From, Goto, lockVars, runVars, cmdVars, dayVars, NoLock
<1>1. CASE LockCreate(p)     BY <1>1 DEF LockCreate
<1>2. CASE LockExists(p)     BY <1>2 DEF LockExists
<1>3. CASE LockGiveUp(p)     BY <1>3 DEF LockGiveUp
<1>4. CASE LockRead(p)       BY <1>4 DEF LockRead
<1>5. CASE LockProbe(p)      BY <1>5 DEF LockProbe
<1>6. CASE LockUnlink(p)     BY <1>6 DEF LockUnlink
<1>7. CASE LockWrite(p)      BY <1>7 DEF LockWrite
<1>8. CASE AcquireRaises(p) BY <1>8 DEF AcquireRaises
<1> QED BY <1>1, <1>2, <1>3, <1>4, <1>5, <1>6, <1>7, <1>8 DEF Acquire

\* What the sweep reads is a run state, and so is what it writes.
LEMMA FailedIsState == \A st \in RunState : Failed(st) \in RunState
  BY DEF Failed, RunState, Statuses

\* sweep_dead_runs keeps the types.
LEMMA SweepTypes ==
  ASSUME TypeInv, NEW p \in Pids, Sweep(p) \/ SweepPersistFails(p)
  PROVE  TypeInv'
<1> USE DEF TypeInv, TypeOK, Rounds, InStage, Decided, PCs, Acquiring, Holding,
        InTry, Sweeping, From, Goto, lockVars, runVars, cmdVars, dayVars
<1>1. CASE SweepList(p)  BY <1>1 DEF SweepList
<1>2. CASE SweepSkip(p)  BY <1>2 DEF SweepSkip
<1>3. CASE SweepRead(p)  BY <1>3 DEF SweepRead, Holds
<1>4. CASE SweepProbe(p)
  <2>1. Failed(hand[p]) \in RunState BY FailedIsState
  <2>2. hand' \in [Pids -> RunState] /\ target' \in [Pids -> Pids]
        BY <1>4, <2>1 DEF SweepProbe, Holds
  <2>3. pc' \in [Pids -> PCs] /\ Rounds' /\ InStage' BY <1>4 DEF SweepProbe, Holds
  <2> QED BY <1>4, <2>2, <2>3 DEF SweepProbe
<1>5. CASE SweepState(p) BY <1>5 DEF SweepState, PutState
<1>6. CASE SweepFiles(p) BY <1>6 DEF SweepFiles, PutFiles, RunState
<1>7. CASE SweepEnd(p)   BY <1>7 DEF SweepEnd
<1>8. CASE SweepPersistFails(p) BY <1>8 DEF SweepPersistFails
<1> QED BY <1>1, <1>2, <1>3, <1>4, <1>5, <1>6, <1>7, <1>8 DEF Sweep

\* The cap and the new run directory keep the types.
LEMMA AdmitTypes ==
  ASSUME TypeInv, NEW p \in Pids, Admit(p)
  PROVE  TypeInv'
<1> USE DEF TypeInv, TypeOK, Rounds, InStage, Decided, PCs, Acquiring, Holding,
        InTry, InRun, From, Goto, lockVars, runVars, cmdVars, dayVars, Holds
<1>1. CASE CapCheck(p)         BY <1>1 DEF CapCheck
<1>2. CASE Create(p)
      BY <1>2, ConstantsAssumption DEF Create, NewState, RunState, Statuses, RunningStatuses
<1>3. CASE Setup(p)            BY <1>3 DEF Setup
<1>4. CASE SetupPersonaGone(p) BY <1>4, FailedIsState DEF SetupPersonaGone
<1>5. CASE SetupFails(p)       BY <1>5 DEF SetupFails
<1> QED BY <1>1, <1>2, <1>3, <1>4, <1>5 DEF Admit

\* transition() stays inside RunStatus.
LEMMA AdvancedIsState ==
  ASSUME NEW st \in RunState, st.status \in DOMAIN NextStatus
  PROVE  Advanced(st) \in RunState
  BY DEF Advanced, NextStatus, RunState, Statuses, RunningStatuses

\* A stage that has not answered leaves room for its output.
LEMMA InStageBound ==
  ASSUME NEW st \in RunState, BeforeWork(st)
  PROVE  st.made < StageOf[st.status] /\ StageOf[st.status] \in 1..3 /\ st.made < 3
<1>1. st.status \in {"ideating", "researching", "architecting"}
      BY DEF BeforeWork, StageOf
<1>2. StageOf[st.status] \in 1..3 BY <1>1 DEF StageOf
<1> QED BY <1>2 DEF BeforeWork, RunState

\* What an exception leaves behind.
LEMMA RaisesTypes ==
  ASSUME TypeInv, NEW p \in Pids, pc[p] \in InRun, Raises(p)
  PROVE  TypeInv'
<1> USE DEF TypeInv, TypeOK, Rounds, InStage, Decided, PCs, Holding, InTry, InRun,
        Goto, lockVars, runVars, cmdVars, dayVars, Holds
<1>1. pc' \in [Pids -> PCs] /\ target' \in [Pids -> Pids] BY DEF Raises
<1>2. hand' \in [Pids -> RunState] BY FailedIsState DEF Raises
<1>3. Rounds' /\ InStage' BY DEF Raises
<1> QED BY <1>1, <1>2, <1>3 DEF Raises

\* Pipeline.run keeps the types.
LEMMA RunTypes ==
  ASSUME TypeInv, NEW p \in Pids, Run(p)
  PROVE  TypeInv'
<1> USE DEF TypeInv, TypeOK, Rounds, InStage, Decided, PCs, Acquiring, Holding,
        InTry, InRun, From, Goto, lockVars, runVars, cmdVars, dayVars, Holds
<1>1. CASE WriteState(p)   BY <1>1 DEF WriteState, PutState
<1>2. CASE WriteFiles(p)
  <2>1. files' \in [Pids -> 0..3] BY <1>2 DEF WriteFiles, PutFiles, RunState
  <2>2. hand[p].status = "queued" => hand[p].status \in DOMAIN NextStatus
        BY DEF NextStatus
  <2>3. hand' \in [Pids -> RunState] BY <1>2, <2>2, AdvancedIsState DEF WriteFiles
  <2>4. pc' \in [Pids -> PCs] /\ target' \in [Pids -> Pids] BY <1>2 DEF WriteFiles
  <2>5. Rounds' BY <1>2 DEF WriteFiles
  <2>6. InStage' BY <1>2 DEF WriteFiles
  <2> QED BY <1>2, <2>1, <2>3, <2>4, <2>5, <2>6 DEF WriteFiles
<1>3. CASE StageReturns(p)
  <2>1. PICK v \in {"none", "pass", "fail"} :
          Holds(p, p, [hand[p] EXCEPT !.made = @ + 1, !.verdict = v])
        BY <1>3 DEF StageReturns
  <2> DEFINE made == hand[p].made + 1
  <2>2. hand[p] \in RunState /\ hand[p].made < 3
        BY <1>3, InStageBound DEF StageReturns
  <2>3. [hand[p] EXCEPT !.made = @ + 1, !.verdict = v] \in RunState
    <3>1. made \in 0..3 BY <2>2 DEF RunState
    <3>2. [hand[p] EXCEPT !.made = made, !.verdict = v] \in RunState
      <4> HIDE DEF made
      <4> QED BY <2>1, <2>2, <3>1 DEF RunState
    <3> QED BY <3>2
  <2>4. hand' \in [Pids -> RunState] /\ target' \in [Pids -> Pids] BY <2>1, <2>3
  <2>5. InStage' BY <1>3, <2>1 DEF StageReturns
  <2> QED BY <1>3, <2>4, <2>5 DEF StageReturns
<1>4. CASE StageRaises(p)  BY <1>4, FailedIsState DEF StageRaises
<1>5. CASE HookReturns(p)
  <2>0. hand[p].status \in DOMAIN NextStatus => Advanced(hand[p]) \in RunState
        BY AdvancedIsState
  <2>1. hand' \in [Pids -> RunState] /\ target' \in [Pids -> Pids]
        BY <1>5, <2>0 DEF HookReturns
  <2>2. pc' \in [Pids -> PCs] /\ Rounds' /\ InStage' BY <1>5 DEF HookReturns
  <2> QED BY <1>5, <2>1, <2>2 DEF HookReturns
<1>6. CASE HookRaises(p)   BY <1>6, RaisesTypes DEF HookRaises, InRun
<1>7. CASE PersistFails(p) BY <1>7, RaisesTypes DEF PersistFails, InRun
<1>8. CASE SweepPersistFails(p) BY <1>8, SweepTypes
<1> QED BY <1>1, <1>2, <1>3, <1>4, <1>5, <1>6, <1>7, <1>8 DEF Run

\* Beginning, leaving and being killed keep the types.
LEMMA LeaveTypes ==
  ASSUME TypeInv, NEW p \in Pids,
         Begin(p) \/ Release(p) \/ ReleaseFails(p) \/ Interrupt(p) \/ Exit(p) \/ Crash(p)
  PROVE  TypeInv'
<1> USE ConstantsAssumption
    DEF TypeInv, TypeOK, Rounds, InStage, Decided, PCs, Acquiring, Holding,
        From, Goto, lockVars, runVars, cmdVars, dayVars, Forget, NoLock,
        NoState, RunState, Statuses
<1>1. CASE Begin(p)     BY <1>1 DEF Begin
<1>2. CASE Release(p)   BY <1>2 DEF Release
<1>6. CASE ReleaseFails(p) BY <1>6 DEF ReleaseFails
<1>3. CASE Interrupt(p) BY <1>3 DEF Interrupt
<1>4. CASE Exit(p)      BY <1>4 DEF Exit
<1>5. CASE Crash(p)     BY <1>5 DEF Crash
<1> QED BY <1>1, <1>2, <1>3, <1>4, <1>5, <1>6

\* swarph skunkworks decide and the passing of midnight keep the types.
LEMMA DecideTypes ==
  ASSUME TypeInv, NEW d \in Deciders,
         DecideLoad(d) \/ Approve(d) \/ Assess(d) \/ DecideStops(d)
  PROVE  TypeInv'
<1> USE DEF TypeInv, TypeOK, Rounds, InStage, Decided, lockVars, runVars,
        cmdVars, dayVars, DecideEnd
<1>1. CASE DecideLoad(d)  BY <1>1 DEF DecideLoad
<1>2. CASE Approve(d)
  <2>1. PICK cv \in Decisions :
          /\ dhand' = [dhand EXCEPT ![d].status = cv]
          /\ PutState(drun[d], [dhand[d] EXCEPT !.status = cv])
        BY <1>2 DEF Approve
  <2>2. [dhand[d] EXCEPT !.status = cv] \in RunState BY <2>1 DEF RunState, Statuses
  <2>3. disk' \in [Pids -> RunState] BY <2>1, <2>2 DEF PutState
  <2>4. dhand' \in [Deciders -> RunState] /\ dhand'[d].status = cv
        BY <2>1, <2>2 DEF RunState
  <2>5. dpc' \in [Deciders -> {"idle", "approve", "assess"}] BY <1>2 DEF Approve
  <2>6. Decided' BY <1>2, <2>1, <2>4 DEF Approve
  <2> QED BY <1>2, <2>3, <2>4, <2>5, <2>6 DEF Approve
<1>3. CASE Assess(d)
  <2>1. files' \in [Pids -> 0..3] BY <1>3 DEF Assess, PutFiles, RunState
  <2>2. assessed' \in [Pids -> {"none"} \union Decisions] BY <1>3 DEF Assess
  <2>3. dhand' \in [Deciders -> RunState] /\ drun' \in [Deciders -> Pids \union {NoPid}]
        BY <1>3 DEF Assess, NoState, RunState, Statuses
  <2>4. dpc' \in [Deciders -> {"idle", "approve", "assess"}] /\ Decided'
        BY <1>3 DEF Assess
  <2> QED BY <1>3, <2>1, <2>2, <2>3, <2>4 DEF Assess
<1>4. CASE DecideStops(d) BY <1>4 DEF DecideStops, NoState, RunState, Statuses
<1> QED BY <1>1, <1>2, <1>3, <1>4

LEMMA MidnightTypes ==
  ASSUME TypeInv, Midnight
  PROVE  TypeInv'
  BY ConstantsAssumption
  DEF Midnight, TypeInv, TypeOK, Rounds, InStage, Decided, lockVars, runVars, cmdVars

LEMMA TypeStep == TypeInv /\ [Next]_vars => TypeInv'
<1> SUFFICES ASSUME TypeInv, [Next]_vars PROVE TypeInv' OBVIOUS
<1>1. CASE UNCHANGED vars
      BY <1>1 DEF vars, TypeInv, TypeOK, Rounds, InStage, Decided
<1>2. CASE Next
      BY <1>2, AcquireTypes, SweepTypes, AdmitTypes, RunTypes, LeaveTypes,
         DecideTypes, MidnightTypes DEF Next, Work
<1> QED BY <1>1, <1>2

\* Every variable keeps its type, whatever the processes, terminals and days.
THEOREM TypeCorrect == Spec => []TypeOK
<1>1. Spec => []TypeInv BY TypeInit, TypeStep, PTL DEF Spec
<1> QED BY <1>1, PTL DEF TypeInv

-----------------------------------------------------------------------------
(* Mutual exclusion.  As long as no two starts overlap inside acquire, the *)
(* lock file is that of the process that holds the cell, a process about   *)
(* to judge a lock has seen its holder, and one about to unlink has none.  *)

HolderNamed == \A p \in Pids : pc[p] \in Holding => lock = [maker |-> p, text |-> p]
WriterOwns  == \A p \in Pids : pc[p] = "write" => lock = [maker |-> p, text |-> NoPid]
OneAcquires == \A p, q \in Pids : pc[p] \in Acquiring /\ pc[q] \in Acquiring => p = q
SeesHolder  == \A p, q \in Pids : pc[p] = "probe" /\ pc[q] \in Holding => seen[p] = q
UnlinkSafe  == \A p, q \in Pids : pc[p] = "unlink" => pc[q] \notin Holding
LockInv     == HolderNamed /\ WriterOwns /\ OneAcquires /\ SeesHolder /\ UnlinkSafe

\* Between acquire and release a process leaves the lock alone.
LEMMA InsideStep ==
  ASSUME TypeOK, NEW p \in Pids, Sweep(p) \/ Admit(p) \/ Run(p) \/ Interrupt(p)
  PROVE  pc[p] \in Holding /\ UNCHANGED lockVars /\ \E l \in Holding : Goto(p, l)
<1> USE DEF From, Holding, InTry, Sweeping, InRun
<1>1. CASE Sweep(p)
      BY <1>1 DEF Sweep, SweepList, SweepSkip, SweepRead, SweepProbe,
                  SweepState, SweepFiles, SweepEnd, lockVars, Goto, TypeOK
<1>2. CASE Admit(p)
      BY <1>2 DEF Admit, CapCheck, Create, Setup, SetupPersonaGone, SetupFails, lockVars
<1>3. CASE Run(p)
      BY <1>3 DEF Run, WriteState, WriteFiles, StageReturns, StageRaises, HookReturns,
                  HookRaises, PersistFails, SweepPersistFails, Raises, lockVars
<1>4. CASE Interrupt(p) BY <1>4 DEF Interrupt, lockVars
<1> QED BY <1>1, <1>2, <1>3, <1>4

\* Deciding and the passing of time concern neither the processes nor the lock.
LEMMA OutsideStep ==
  ASSUME Midnight \/ \E d \in Deciders : \/ DecideLoad(d) \/ Approve(d)
                                         \/ Assess(d) \/ DecideStops(d)
  PROVE  UNCHANGED <<pc, lockVars>>
  BY DEF Midnight, DecideLoad, Approve, Assess, DecideStops, lockVars

LEMMA LockInit == Init => LockInv
  BY DEF Init, LockInv, HolderNamed, WriterOwns, OneAcquires, SeesHolder,
         UnlinkSafe, Holding, InTry, Sweeping, InRun, Acquiring

\* One system call of acquire, with the callers one at a time.
LEMMA AcquireKeepsLockInv ==
  ASSUME TypeOK, LockInv, NEW p \in Pids, Acquire(p)
  PROVE  LockInv'
<1> USE ConstantsAssumption
    DEF TypeOK, LockInv, HolderNamed, WriterOwns, OneAcquires, SeesHolder, UnlinkSafe,
        Holding, InTry, Sweeping, InRun, Acquiring, From, Goto, lockVars, NoLock
<1>1. CASE LockCreate(p)     BY <1>1 DEF LockCreate
<1>2. CASE LockExists(p)     BY <1>2 DEF LockExists
<1>3. CASE LockGiveUp(p)     BY <1>3 DEF LockGiveUp
<1>4. CASE LockRead(p)       BY <1>4 DEF LockRead
<1>5. CASE LockProbe(p)      BY <1>5 DEF LockProbe, Alive
<1>6. CASE LockUnlink(p)     BY <1>6 DEF LockUnlink
<1>7. CASE LockWrite(p)      BY <1>7 DEF LockWrite
<1>8. CASE AcquireRaises(p) BY <1>8 DEF AcquireRaises
<1> QED BY <1>1, <1>2, <1>3, <1>4, <1>5, <1>6, <1>7, <1>8 DEF Acquire

LEMMA LockStep ==
  ASSUME ~OverlappingStarts
  PROVE  TypeInv /\ LockInv /\ [Next]_vars => LockInv'
<1> SUFFICES ASSUME TypeInv, LockInv, [Next]_vars PROVE LockInv' OBVIOUS
<1> USE DEF TypeInv, TypeOK, LockInv, HolderNamed, WriterOwns, OneAcquires, SeesHolder, UnlinkSafe
<1>1. ASSUME NEW p \in Pids, Begin(p) PROVE LockInv'
      BY <1>1 DEF Begin, From, Goto, lockVars, Acquiring, Holding, InTry, Sweeping, InRun
<1>2. ASSUME NEW p \in Pids, Acquire(p) PROVE LockInv' BY <1>2, AcquireKeepsLockInv
<1>3. ASSUME NEW p \in Pids, Sweep(p) \/ Admit(p) \/ Run(p) \/ Interrupt(p) PROVE LockInv'
  <2>1. pc[p] \in Holding /\ UNCHANGED lockVars /\ \E l \in Holding : Goto(p, l)
        BY <1>3, InsideStep
  <2> QED BY <2>1 DEF Goto, lockVars, Acquiring, Holding, InTry, Sweeping, InRun
<1>4. ASSUME NEW p \in Pids, Release(p) \/ ReleaseFails(p) PROVE LockInv'
  <2>1. /\ pc[p] = "release" /\ pc' = [pc EXCEPT ![p] = "done"]
        /\ seen' = [seen EXCEPT ![p] = NoPid]
        BY <1>4 DEF Release, ReleaseFails, From, Goto, Forget
  <2> QED BY <2>1 DEF Acquiring, Holding, InTry, Sweeping, InRun
<1>5. ASSUME NEW p \in Pids, Exit(p) \/ Crash(p) PROVE LockInv'
  <2>1. /\ pc' = [pc EXCEPT ![p] = "dead"]
        /\ seen' = [seen EXCEPT ![p] = NoPid]
        /\ UNCHANGED lock
        BY <1>5 DEF Exit, Crash, Goto, Forget
  <2> QED BY <2>1 DEF Acquiring, Holding, InTry, Sweeping, InRun
<1>6. ASSUME UNCHANGED <<pc, lockVars>> PROVE LockInv' BY <1>6 DEF lockVars
<1>7. CASE UNCHANGED vars BY <1>6, <1>7 DEF vars, lockVars
<1>8. CASE Next
      BY <1>1, <1>2, <1>3, <1>4, <1>5, <1>6, <1>8, OutsideStep DEF Next, Work
<1> QED BY <1>7, <1>8

\* Starts that do not overlap inside acquire never give two live runs, however
\* many there are and whoever is interrupted or killed at whatever point.
THEOREM MutualExclusion ==
  ASSUME ~OverlappingStarts
  PROVE  Spec => []OneLiveRun
<1>1. Init => TypeInv /\ LockInv BY TypeInit, LockInit
<1>2. TypeInv /\ LockInv /\ [Next]_vars => (TypeInv /\ LockInv)'
      BY TypeStep, LockStep
<1>3. LockInv => OneLiveRun BY DEF LockInv, HolderNamed, OneLiveRun
<1> QED BY <1>1, <1>2, <1>3, PTL DEF Spec

-----------------------------------------------------------------------------
(* The daily cap.  The count is compared before the directory is named, so *)
(* the invariant must say that what was counted still holds when the name  *)
(* is made: nobody else is inside, and a new day starts with no runs.      *)

NoFutureRuns == \A r \in Pids : dirDay[r] <= today
RoomToCreate == \A p \in Pids :
                  pc[p] = "create" => Cardinality(RunsOn(today)) < MaxRunsPerDay
DayInv == DailyCap /\ NoFutureRuns /\ RoomToCreate

\* Counting the runs of a day gives a number.
LEMMA RunsCount ==
  \A day \in Nat : IsFiniteSet(RunsOn(day)) /\ Cardinality(RunsOn(day)) \in Nat
<1>1. \A day \in Nat : RunsOn(day) \subseteq Pids BY DEF RunsOn
<1>2. IsFiniteSet(Pids) BY ConstantsAssumption
<1> QED BY <1>1, <1>2, FS_Subset, FS_CardinalityType

LEMMA DayInit == Init => DayInv
<1> SUFFICES ASSUME Init PROVE DayInv OBVIOUS
<1>1. \A day \in 1..LastDay : RunsOn(day) = {} BY DEF Init, RunsOn
<1>2. DailyCap BY <1>1, FS_EmptySet, ConstantsAssumption DEF DailyCap
<1>3. NoFutureRuns BY DEF Init, NoFutureRuns
<1>4. RoomToCreate BY DEF Init, RoomToCreate
<1> QED BY <1>2, <1>3, <1>4 DEF DayInv

\* Only the check of the cap leads to a new directory.
Cautious == UNCHANGED dayVars /\ \A p \in Pids : pc'[p] = "create" => pc[p] = "create"

LEMMA CautiousKeepsDayInv == TypeOK /\ DayInv /\ Cautious => DayInv'
  BY DEF Cautious, DayInv, DailyCap, NoFutureRuns, RoomToCreate, RunsOn, dayVars

LEMMA CautiousStep ==
  ASSUME TypeOK, NEW p \in Pids,
         \/ Begin(p) \/ Acquire(p) \/ Sweep(p) \/ Run(p) \/ Release(p) \/ ReleaseFails(p)
         \/ Setup(p) \/ SetupPersonaGone(p) \/ SetupFails(p)
         \/ Interrupt(p) \/ Exit(p) \/ Crash(p)
  PROVE  Cautious
<1> USE DEF Cautious, TypeOK, From, Goto, dayVars
<1>1. CASE Begin(p) BY <1>1 DEF Begin
<1>2. CASE Acquire(p)
      BY <1>2 DEF Acquire, LockCreate, LockExists, LockGiveUp, LockRead, LockProbe,
                  LockUnlink, LockWrite, AcquireRaises
<1>3. CASE Sweep(p)
      BY <1>3 DEF Sweep, SweepList, SweepSkip, SweepRead, SweepProbe,
                  SweepState, SweepFiles, SweepEnd
<1>4. CASE Run(p)
      BY <1>4 DEF Run, WriteState, WriteFiles, StageReturns, StageRaises, HookReturns,
                  HookRaises, PersistFails, SweepPersistFails, Raises
<1>5. CASE Setup(p) \/ SetupPersonaGone(p) \/ SetupFails(p)
      BY <1>5 DEF Setup, SetupPersonaGone, SetupFails
<1>6. CASE Release(p) \/ ReleaseFails(p) \/ Interrupt(p) \/ Exit(p) \/ Crash(p)
      BY <1>6 DEF Release, ReleaseFails, Interrupt, Exit, Crash
<1> QED BY <1>1, <1>2, <1>3, <1>4, <1>5, <1>6

LEMMA DayStep == TypeInv /\ OneLiveRun /\ DayInv /\ [Next]_vars => DayInv'
<1> SUFFICES ASSUME TypeInv, OneLiveRun, DayInv, [Next]_vars PROVE DayInv' OBVIOUS
<1> USE DEF TypeInv
<1>1. ASSUME NEW p \in Pids, CapCheck(p) PROVE DayInv'
  <2>1. UNCHANGED dayVars BY <1>1 DEF CapCheck
  <2>2. DailyCap' /\ NoFutureRuns'
        BY <2>1 DEF DayInv, DailyCap, NoFutureRuns, RunsOn, dayVars
  <2>3. Cardinality(RunsOn(today)) \in Nat BY RunsCount DEF TypeOK
  <2>4. RoomToCreate'
        BY <1>1, <2>1, <2>3, ConstantsAssumption
        DEF CapCheck, From, Goto, TypeOK, DayInv, RoomToCreate, RunsOn, dayVars
  <2> QED BY <2>2, <2>4 DEF DayInv
<1>2. ASSUME NEW p \in Pids, Create(p) PROVE DayInv'
  <2>1. UNCHANGED today /\ dirDay' = [dirDay EXCEPT ![p] = today] BY <1>2 DEF Create
  <2>2. RunsOn(today)' \subseteq RunsOn(today) \union {p}
        BY <2>1 DEF RunsOn, TypeOK
  <2>3. \A day \in 1..LastDay : day # today => RunsOn(day)' \subseteq RunsOn(day)
        BY <2>1 DEF RunsOn, TypeOK
  <2>4. Cardinality(RunsOn(today)) < MaxRunsPerDay
        BY <1>2 DEF Create, From, DayInv, RoomToCreate
  <2>5. ASSUME NEW day \in 1..LastDay PROVE Cardinality(RunsOn(day)') <= MaxRunsPerDay
    <3>1. IsFiniteSet(RunsOn(day)) /\ Cardinality(RunsOn(day)) \in Nat BY RunsCount
    <3>2. CASE day = today
      <4>1. /\ IsFiniteSet(RunsOn(today) \union {p})
            /\ Cardinality(RunsOn(today) \union {p}) <= Cardinality(RunsOn(today)) + 1
            BY <3>1, <3>2, FS_AddElement
      <4>2. /\ Cardinality(RunsOn(today)') <= Cardinality(RunsOn(today) \union {p})
            /\ Cardinality(RunsOn(today)') \in Nat
            /\ Cardinality(RunsOn(today) \union {p}) \in Nat
            BY <2>2, <4>1, FS_Subset, FS_CardinalityType
      <4>3. RunsOn(day)' = RunsOn(today)' BY <2>1, <3>2 DEF RunsOn
      <4> QED BY <2>4, <3>1, <3>2, <4>1, <4>2, <4>3, ConstantsAssumption
    <3>3. CASE day # today
      <4>1. /\ Cardinality(RunsOn(day)') <= Cardinality(RunsOn(day))
            /\ Cardinality(RunsOn(day)') \in Nat
            BY <2>3, <3>1, <3>3, FS_Subset, FS_CardinalityType
      <4> QED BY <3>1, <4>1, ConstantsAssumption DEF DayInv, DailyCap
    <3> QED BY <3>2, <3>3
  <2>6. DailyCap' BY <2>5 DEF DailyCap, RunsOn
  <2>7. NoFutureRuns' BY <2>1 DEF DayInv, NoFutureRuns, TypeOK
  <2>8. \A q \in Pids : pc'[q] # "create"
        BY <1>2 DEF Create, From, Goto, OneLiveRun, Holding, InTry, TypeOK
  <2> QED BY <2>6, <2>7, <2>8 DEF DayInv, RoomToCreate
<1>3. ASSUME Midnight PROVE DayInv'
  <2>1. today' = today + 1 /\ UNCHANGED <<pc, dirDay>> BY <1>3 DEF Midnight
  <2>2. DailyCap' BY <2>1 DEF DayInv, DailyCap, RunsOn
  <2>3. NoFutureRuns' BY <2>1 DEF DayInv, NoFutureRuns, TypeOK
  <2>4. RunsOn(today)' = {} BY <2>1 DEF RunsOn, DayInv, NoFutureRuns, TypeOK
  <2>5. RoomToCreate' BY <2>4, FS_EmptySet, ConstantsAssumption DEF RoomToCreate
  <2> QED BY <2>2, <2>3, <2>5 DEF DayInv
<1>4. ASSUME NEW d \in Deciders, DecideLoad(d) \/ Approve(d) \/ Assess(d) \/ DecideStops(d)
      PROVE  Cautious
      BY <1>4 DEF DecideLoad, Approve, Assess, DecideStops, Cautious, dayVars
<1>5. CASE UNCHANGED vars BY <1>5, CautiousKeepsDayInv DEF vars, Cautious, dayVars
<1>6. CASE Next
      BY <1>1, <1>2, <1>3, <1>4, <1>6, CautiousStep, CautiousKeepsDayInv
      DEF Next, Work, Admit
<1> QED BY <1>5, <1>6

\* On no day are more run directories made than the cap allows, although the
\* count and the name are taken at different times: for every cap, any number
\* of processes and wherever midnight falls.
THEOREM CapHolds ==
  ASSUME ~OverlappingStarts
  PROVE  Spec => []DailyCap
<1> DEFINE All == TypeInv /\ LockInv /\ DayInv
<1>1. Init => All BY TypeInit, LockInit, DayInit
<1>2. LockInv => OneLiveRun BY DEF LockInv, HolderNamed, OneLiveRun
<1>3. All /\ [Next]_vars => All'
      BY <1>2, TypeStep, LockStep, DayStep
<1>4. All => DailyCap BY DEF DayInv
<1> QED BY <1>1, <1>3, <1>4, PTL DEF Spec
-----------------------------------------------------------------------------
(* Evidence on disk.  The state a process holds is never ahead of what has *)
(* been produced, and a run is ready for the commander, in anyone's hands, *)
(* only when its last output file is there.                                *)

Ready == Decisions \union {"awaiting_commander"}

Produced(st) ==
  /\ st.status = "queued" => st.made = 0
  /\ st.status \in DOMAIN StageOf => st.made <= StageOf[st.status]
  /\ st.status = "architecting" /\ st.made = 3 => st.verdict # "none"
  /\ st.status \in Ready => st.made = 3 /\ st.verdict # "none"

\* What process p holds: nothing that has not been produced, nothing a hook can
\* see that has not been saved, nothing but failures in the sweep's hands.
HandInv(p) ==
  /\ pc[p] \in InRun \union {"setup"} => /\ Produced(hand[p])
                                         /\ hand[p].status \in Ready => files[p] = 3
  /\ pc[p] = "hook" => files[p] >= hand[p].made /\ ~BeforeWork(hand[p])
  /\ pc[p] \in {"sweepState", "sweepFiles"} => hand[p].status = "error"

\* What decider d has loaded was ready when it was loaded and still is.
DeciderInv(d) == dpc[d] # "idle" => /\ drun[d] \in Pids
                                    /\ files[drun[d]] = 3
                                    /\ dhand[d].verdict # "none"

EvidenceInv == /\ \A p \in Pids : HandInv(p)
               /\ \A d \in Deciders : DeciderInv(d)
               /\ EvidenceOnDisk

LEMMA EvidenceInit == Init => EvidenceInv
  BY DEF Init, EvidenceInv, HandInv, DeciderInv, EvidenceOnDisk, InRun, NoState, Decisions

\* A failed state claims nothing.
LEMMA FailedProduced == \A st \in RunState : Produced(Failed(st))
  BY DEF Produced, Failed, RunState, Ready, Decisions, StageOf

FilesGrow == \A r \in Pids : files[r] \in 0..3 /\ files'[r] \in 0..3 /\ files'[r] >= files[r]

\* What a step may put in a run's state.json.
FitToShow(r) == \/ disk'[r] = disk[r]
                \/ disk'[r].status \notin Ready
                \/ files'[r] = 3 /\ disk'[r].verdict # "none"

\* A step of one process need only be checked for what that process holds then
\* and for what it writes.
LEMMA OneHand ==
  ASSUME TypeOK, EvidenceInv, NEW p \in Pids, FilesGrow,
         UNCHANGED <<dpc, dhand, drun>>,
         \A q \in Pids \ {p} : pc'[q] = pc[q] /\ hand'[q] = hand[q],
         HandInv(p)',
         \A r \in Pids : FitToShow(r)
  PROVE  EvidenceInv'
<1>1. ASSUME NEW q \in Pids, q # p PROVE HandInv(q)'
  <2>1. HandInv(q) /\ pc'[q] = pc[q] /\ hand'[q] = hand[q] BY <1>1 DEF EvidenceInv
  <2>2. /\ hand[q].made \in 0..3
        /\ files[q] \in 0..3 /\ files'[q] \in 0..3 /\ files'[q] >= files[q]
        BY DEF TypeOK, RunState, FilesGrow
  <2>3. BeforeWork(hand'[q]) <=> BeforeWork(hand[q]) BY <2>1
  <2>4. Produced(hand'[q]) <=> Produced(hand[q]) BY <2>1
  <2> QED BY <2>1, <2>2, <2>3, <2>4 DEF HandInv
<1>2. \A d \in Deciders : DeciderInv(d)' BY DEF EvidenceInv, DeciderInv, FilesGrow
<1>3. EvidenceOnDisk'
      BY DEF EvidenceInv, EvidenceOnDisk, FitToShow, FilesGrow, Ready
<1> QED BY <1>1, <1>2, <1>3 DEF EvidenceInv

\* Nobody else's place or state in hand moves with a process.
LEMMA OwnMove ==
  ASSUME TypeOK, NEW p \in Pids,
         \/ Begin(p) \/ Work(p) \/ Interrupt(p) \/ Crash(p)
  PROVE  /\ UNCHANGED <<dpc, dhand, drun>>
         /\ \A q \in Pids \ {p} : pc'[q] = pc[q] /\ hand'[q] = hand[q]
<1> USE DEF TypeOK, From, Goto, runVars, cmdVars, Holds, Forget
<1>1. CASE Acquire(p)
      BY <1>1 DEF Acquire, LockCreate, LockExists, LockGiveUp, LockRead, LockProbe,
                  LockUnlink, LockWrite, AcquireRaises
<1>2. CASE Sweep(p)
      BY <1>2 DEF Sweep, SweepList, SweepSkip, SweepRead, SweepProbe,
                  SweepState, SweepFiles, SweepEnd
<1>3. CASE Admit(p)
      BY <1>3 DEF Admit, CapCheck, Create, Setup, SetupPersonaGone, SetupFails
<1>4. CASE Run(p)
      BY <1>4 DEF Run, WriteState, WriteFiles, StageReturns, StageRaises, HookReturns,
                  HookRaises, PersistFails, SweepPersistFails, Raises
<1>5. CASE Begin(p) \/ Interrupt(p)
      BY <1>5 DEF Begin, Interrupt
<1>6. CASE Release(p) \/ ReleaseFails(p) \/ Exit(p) \/ Crash(p)
      BY <1>6 DEF Release, ReleaseFails, Exit, Crash
<1> QED BY <1>1, <1>2, <1>3, <1>4, <1>5, <1>6 DEF Work

Busy == InRun \union {"setup", "sweepState", "sweepFiles"}

\* Most steps leave a process with nothing it could write.
LEMMA IdleStep ==
  ASSUME TypeOK, NEW p \in Pids,
         \/ Begin(p) \/ Acquire(p) \/ Release(p) \/ ReleaseFails(p)
         \/ Interrupt(p) \/ Exit(p) \/ Crash(p)
         \/ SweepList(p) \/ SweepSkip(p) \/ SweepRead(p) \/ SweepEnd(p)
         \/ CapCheck(p) \/ SetupFails(p) \/ SweepPersistFails(p)
  PROVE  UNCHANGED <<disk, files>> /\ pc'[p] \notin Busy
<1> USE DEF TypeOK, From, Goto, Busy, InRun, runVars
<1>1. CASE Acquire(p)
      BY <1>1 DEF Acquire, LockCreate, LockExists, LockGiveUp, LockRead, LockProbe,
                  LockUnlink, LockWrite, AcquireRaises
<1>2. CASE Begin(p) \/ Release(p) \/ ReleaseFails(p) \/ Interrupt(p) \/ Exit(p) \/ Crash(p)
      BY <1>2 DEF Begin, Release, ReleaseFails, Interrupt, Exit, Crash, Forget
<1>3. CASE SweepList(p) \/ SweepSkip(p) \/ SweepRead(p) \/ SweepEnd(p)
      BY <1>3 DEF SweepList, SweepSkip, SweepRead, SweepEnd, Holds
<1>4. CASE CapCheck(p) \/ SetupFails(p) \/ SweepPersistFails(p)
      BY <1>4 DEF CapCheck, SetupFails, SweepPersistFails
<1> QED BY <1>1, <1>2, <1>3, <1>4

\* Output files are written, never taken away.
LEMMA PutFilesGrow ==
  ASSUME TypeOK, NEW r \in Pids, NEW st \in RunState, PutFiles(r, st)
  PROVE  FilesGrow /\ files'[r] >= st.made
  BY DEF TypeOK, PutFiles, FilesGrow, RunState

LEMMA SameFilesGrow == TypeOK /\ UNCHANGED files => FilesGrow
  BY DEF TypeOK, FilesGrow

\* Steps of a process that end with something in its hands.
LEMMA BusyStep ==
  ASSUME TypeInv, EvidenceInv, NEW p \in Pids,
         \/ SweepProbe(p) \/ SweepState(p) \/ SweepFiles(p)
         \/ Create(p) \/ Setup(p) \/ SetupPersonaGone(p)
         \/ WriteState(p) \/ WriteFiles(p) \/ StageReturns(p) \/ StageRaises(p)
         \/ HookReturns(p) \/ HookRaises(p) \/ PersistFails(p)
  PROVE  FilesGrow /\ HandInv(p)' /\ \A r \in Pids : FitToShow(r)
<1> USE DEF TypeInv, From, Goto, runVars
<1>0. /\ HandInv(p)
      /\ hand[p] \in RunState
      /\ pc \in [Pids -> PCs] /\ hand \in [Pids -> RunState]
      /\ disk \in [Pids -> RunState] /\ target[p] \in Pids
      BY DEF EvidenceInv, TypeOK
<1>1. CASE SweepProbe(p)
      BY <1>0, <1>1, SameFilesGrow
      DEF SweepProbe, Holds, Failed, RunState, HandInv, FitToShow, InRun
<1>2. CASE SweepState(p)
      BY <1>0, <1>2, SameFilesGrow
      DEF SweepState, PutState, HandInv, FitToShow, InRun, Ready, Decisions
<1>3. CASE SweepFiles(p)
      BY <1>0, <1>3, PutFilesGrow DEF SweepFiles, HandInv, FitToShow, InRun
<1>4. CASE Create(p)
  <2>1. Produced(NewState) /\ NewState.status \notin Ready
        BY DEF Produced, NewState, StageOf, Ready, Decisions
  <2> QED BY <1>0, <1>4, <2>1, SameFilesGrow DEF Create, Holds, HandInv, FitToShow, InRun
<1>5. CASE Setup(p)
  <2>1. FilesGrow /\ \A r \in Pids : FitToShow(r)
        BY <1>5, SameFilesGrow DEF Setup, FitToShow
  <2>2. pc[p] = "setup" /\ pc'[p] = "state" /\ UNCHANGED <<hand, files>>
        BY <1>0, <1>5 DEF Setup
  <2> QED BY <1>0, <2>1, <2>2 DEF HandInv, InRun
<1>6. CASE SetupPersonaGone(p) \/ StageRaises(p) \/ HookRaises(p) \/ PersistFails(p)
  <2>1. UNCHANGED <<disk, files>>
        BY <1>6 DEF SetupPersonaGone, StageRaises, HookRaises, PersistFails, Raises
  <2>2. \/ pc'[p] = "release"
        \/ pc'[p] = "state" /\ hand'[p] = Failed(hand[p])
        BY <1>0, <1>6
        DEF SetupPersonaGone, StageRaises, HookRaises, PersistFails, Raises, Holds
  <2>3. Failed(hand[p]).status \notin Ready /\ Produced(Failed(hand[p]))
        BY <1>0, FailedProduced DEF Failed, RunState, Ready, Decisions
  <2>4. HandInv(p)' BY <2>2, <2>3 DEF HandInv, InRun
  <2> QED BY <2>1, <2>4, SameFilesGrow DEF FitToShow
<1>7. CASE WriteState(p)
  <2>1. FilesGrow /\ UNCHANGED files BY <1>7, SameFilesGrow DEF WriteState
  <2>2. pc[p] = "state" /\ pc'[p] = "files" /\ hand'[p] = hand[p]
        BY <1>0, <1>7 DEF WriteState
  <2>3. HandInv(p)' BY <1>0, <2>1, <2>2 DEF HandInv, InRun
  <2>4. FitToShow(p)
        BY <1>0, <1>7, <2>1, <2>2 DEF WriteState, PutState, HandInv, InRun, Produced, FitToShow
  <2>5. \A r \in Pids \ {p} : FitToShow(r)
        BY <1>0, <1>7 DEF WriteState, PutState, FitToShow
  <2> QED BY <2>1, <2>3, <2>4, <2>5
<1>8. CASE WriteFiles(p)
  <2>1. FilesGrow /\ files'[p] >= hand[p].made
        BY <1>0, <1>8, PutFilesGrow DEF WriteFiles
  <2>2. \A r \in Pids : FitToShow(r) BY <1>8 DEF WriteFiles, FitToShow
  <2>3. CASE hand[p].status = "queued"
    <3>1. pc'[p] = "state" /\ hand'[p] = Advanced(hand[p])
          BY <1>0, <1>8, <2>3 DEF WriteFiles, Holds
    <3>2. Advanced(hand[p]).status = "ideating" /\ Advanced(hand[p]).made = 0
          BY <1>0, <1>8, <2>3
          DEF WriteFiles, HandInv, InRun, Produced, Advanced, NextStatus, RunState
    <3>3. Produced(hand'[p]) BY <3>1, <3>2 DEF Produced, Ready, Decisions, StageOf
    <3> QED BY <2>1, <2>2, <3>1, <3>2, <3>3 DEF HandInv, InRun, Ready, Decisions
  <2>4. CASE hand[p].status # "queued"
    <3>1. /\ pc[p] = "files" /\ hand'[p] = hand[p]
          /\ pc'[p] \in {"work", "hook"}
          /\ pc'[p] = "hook" => ~BeforeWork(hand[p])
          BY <1>0, <1>8, <2>4 DEF WriteFiles
    <3>2. HandInv(p)'
          BY <1>0, <2>1, <3>1 DEF HandInv, InRun, FilesGrow, BeforeWork, Produced
    <3> QED BY <2>1, <2>2, <3>2
  <2> QED BY <2>3, <2>4
<1>9. CASE StageReturns(p)
  <2>1. PICK v \in {"none", "pass", "fail"} :
          /\ (v # "none") <=> (hand[p].status = "architecting")
          /\ Holds(p, p, [hand[p] EXCEPT !.made = @ + 1, !.verdict = v])
        BY <1>9 DEF StageReturns
  <2>2. BeforeWork(hand[p]) BY <1>9 DEF StageReturns, InStage
  <2>3. /\ hand'[p].status = hand[p].status
        /\ hand'[p].made = hand[p].made + 1
        /\ hand'[p].verdict = v
        BY <1>0, <2>1 DEF Holds, RunState
  <2>4. /\ hand[p].status \in {"ideating", "researching", "architecting"}
        /\ hand[p].made \in 0..3
        /\ StageOf[hand[p].status] \in 1..3
        /\ hand[p].made < StageOf[hand[p].status]
        BY <1>0, <2>2, InStageBound DEF BeforeWork, StageOf, RunState
  <2>5. Produced(hand'[p])
        BY <2>1, <2>3, <2>4 DEF Produced, Ready, Decisions
  <2>6. hand'[p].status \notin Ready BY <2>3, <2>4 DEF Ready, Decisions
  <2>7. pc'[p] = "state" /\ UNCHANGED <<disk, files>> BY <1>0, <1>9 DEF StageReturns
  <2> QED BY <2>5, <2>6, <2>7, SameFilesGrow DEF HandInv, FitToShow, InRun
<1>10. CASE HookReturns(p)
  <2>1. UNCHANGED <<disk, files>> BY <1>10 DEF HookReturns
  <2>2. FilesGrow /\ \A r \in Pids : FitToShow(r) BY <2>1, SameFilesGrow DEF FitToShow
  <2>3. CASE hand[p].status \in DOMAIN NextStatus
    <3>1. pc'[p] = "state" /\ hand'[p] = Advanced(hand[p])
          BY <1>0, <1>10, <2>3 DEF HookReturns, Holds
    <3>2. /\ hand'[p].status = NextStatus[hand[p].status]
          /\ hand'[p].made = hand[p].made /\ hand'[p].verdict = hand[p].verdict
          BY <1>0, <3>1 DEF Advanced, RunState
    <3>3. Produced(hand[p]) /\ ~BeforeWork(hand[p]) /\ files[p] >= hand[p].made
          BY <1>0, <1>10 DEF HookReturns, HandInv, InRun
    <3>4. hand[p].made \in 0..3 /\ files[p] \in 0..3 BY <1>0 DEF RunState, TypeOK
    <3>5. CASE hand[p].status = "queued"
          BY <2>1, <2>2, <3>1, <3>2, <3>3, <3>5
          DEF HandInv, InRun, Produced, NextStatus, StageOf, Ready, Decisions
    <3>6. CASE hand[p].status = "ideating"
          BY <2>1, <2>2, <3>1, <3>2, <3>3, <3>4, <3>6
          DEF HandInv, InRun, Produced, NextStatus, StageOf, Ready, Decisions
    <3>7. CASE hand[p].status = "researching"
          BY <2>1, <2>2, <3>1, <3>2, <3>3, <3>4, <3>7
          DEF HandInv, InRun, Produced, NextStatus, StageOf, Ready, Decisions
    <3>8. CASE hand[p].status = "architecting"
      <4>1. hand[p].made = 3
            BY <3>3, <3>4, <3>8 DEF Produced, BeforeWork, StageOf
      <4> QED BY <2>1, <2>2, <3>1, <3>2, <3>3, <3>4, <3>8, <4>1
              DEF HandInv, InRun, Produced, NextStatus, StageOf, Ready, Decisions
    <3> QED BY <2>3, <3>5, <3>6, <3>7, <3>8 DEF NextStatus
  <2>4. CASE hand[p].status \notin DOMAIN NextStatus
    <3>1. pc'[p] = "release" BY <1>0, <1>10, <2>4 DEF HookReturns
    <3> QED BY <2>2, <3>1 DEF HandInv, InRun
  <2> QED BY <2>3, <2>4
<1> QED BY <1>1, <1>2, <1>3, <1>4, <1>5, <1>6, <1>7, <1>8, <1>9, <1>10

\* A decider writes what it loaded with a decision in it.
LEMMA DecideKeepsEvidence ==
  ASSUME TypeInv, EvidenceInv, NEW d \in Deciders,
         DecideLoad(d) \/ Approve(d) \/ Assess(d) \/ DecideStops(d)
  PROVE  EvidenceInv'
<1> USE DEF TypeInv, TypeOK, runVars
<1>1. CASE DecideLoad(d)
  <2>1. \A e \in Deciders : DeciderInv(e)'
        BY <1>1 DEF DecideLoad, EvidenceInv, DeciderInv, EvidenceOnDisk
  <2> QED BY <1>1, <2>1 DEF DecideLoad, EvidenceInv, HandInv, EvidenceOnDisk
<1>2. CASE Approve(d)
  <2>1. PICK cv \in Decisions :
          /\ dhand' = [dhand EXCEPT ![d].status = cv]
          /\ PutState(drun[d], [dhand[d] EXCEPT !.status = cv])
        BY <1>2 DEF Approve
  <2>2. /\ drun[d] \in Pids /\ files[drun[d]] = 3 /\ dhand[d].verdict # "none"
        /\ UNCHANGED <<pc, hand, files, drun>>
        BY <1>2 DEF Approve, EvidenceInv, DeciderInv
  <2>3. [dhand[d] EXCEPT !.status = cv].verdict = dhand[d].verdict BY DEF RunState
  <2>4. EvidenceOnDisk'
        BY <2>1, <2>2, <2>3 DEF PutState, EvidenceInv, EvidenceOnDisk
  <2>5. dpc' = [dpc EXCEPT ![d] = "assess"] BY <1>2 DEF Approve
  <2>6. \A e \in Deciders : dhand'[e].verdict = dhand[e].verdict BY <2>1, <2>3
  <2>7. \A e \in Deciders : DeciderInv(e)'
        BY <2>2, <2>5, <2>6 DEF EvidenceInv, DeciderInv
  <2> QED BY <2>2, <2>4, <2>7 DEF EvidenceInv, HandInv
<1>3. CASE Assess(d)
  <2>1. \A r \in Pids : files'[r] \in 0..3 /\ files'[r] >= files[r]
        BY <1>3 DEF Assess, PutFiles, RunState
  <2>2. \A e \in Deciders : DeciderInv(e)'
    <3>1. dpc' = [dpc EXCEPT ![d] = "idle"] BY <1>3 DEF Assess, DecideEnd
    <3>2. \A e \in Deciders \ {d} : dhand'[e] = dhand[e] /\ drun'[e] = drun[e]
          BY <1>3 DEF Assess, DecideEnd
    <3> QED BY <2>1, <3>1, <3>2 DEF EvidenceInv, DeciderInv
  <2>3. ASSUME NEW p \in Pids PROVE HandInv(p)'
    <3>1. HandInv(p) /\ UNCHANGED <<pc, hand>> BY <1>3 DEF Assess, EvidenceInv
    <3>2. hand[p].made \in 0..3 /\ files[p] \in 0..3 BY DEF RunState
    <3> QED BY <2>1, <3>1, <3>2 DEF HandInv
  <2> QED BY <1>3, <2>1, <2>2, <2>3 DEF Assess, EvidenceInv, EvidenceOnDisk
<1>4. CASE DecideStops(d)
      BY <1>4 DEF DecideStops, DecideEnd, EvidenceInv, HandInv, DeciderInv, EvidenceOnDisk
<1> QED BY <1>1, <1>2, <1>3, <1>4

LEMMA EvidenceStep == TypeInv /\ EvidenceInv /\ [Next]_vars => EvidenceInv'
<1> SUFFICES ASSUME TypeInv, EvidenceInv, [Next]_vars PROVE EvidenceInv' OBVIOUS
<1>0. TypeOK BY DEF TypeInv
<1>1. ASSUME NEW p \in Pids, Begin(p) \/ Work(p) \/ Interrupt(p) \/ Crash(p)
      PROVE  EvidenceInv'
  <2>1. /\ UNCHANGED <<dpc, dhand, drun>>
        /\ \A q \in Pids \ {p} : pc'[q] = pc[q] /\ hand'[q] = hand[q]
        BY <1>0, <1>1, OwnMove
  <2>2. FilesGrow /\ HandInv(p)' /\ \A r \in Pids : FitToShow(r)
    <3>1. CASE UNCHANGED <<disk, files>> /\ pc'[p] \notin Busy
          BY <1>0, <3>1, SameFilesGrow DEF Busy, InRun, HandInv, FitToShow
    <3> QED BY <1>0, <1>1, <3>1, IdleStep, BusyStep DEF Work, Sweep, Admit, Run
  <2> QED BY <1>0, <2>1, <2>2, OneHand
<1>2. ASSUME UNCHANGED <<pc, hand, disk, files, dpc, dhand, drun>> PROVE EvidenceInv'
      BY <1>2 DEF EvidenceInv, HandInv, DeciderInv, EvidenceOnDisk
<1>3. CASE Midnight \/ UNCHANGED vars
      BY <1>2, <1>3 DEF Midnight, vars, runVars, cmdVars
<1> QED BY <1>1, <1>3, DecideKeepsEvidence DEF Next

\* A run the commander may decide, or has decided, has its three outputs and a
\* verdict on disk.  No assumption: it holds with two live runs, with late
\* failures and with any number of deciders.
THEOREM EvidenceKept == Spec => []EvidenceOnDisk
<1>1. Init => TypeInv /\ EvidenceInv BY TypeInit, EvidenceInit
<1>2. TypeInv /\ EvidenceInv /\ [Next]_vars => (TypeInv /\ EvidenceInv)'
      BY TypeStep, EvidenceStep
<1>3. EvidenceInv => EvidenceOnDisk BY DEF EvidenceInv
<1> QED BY <1>1, <1>2, <1>3, PTL DEF Spec

-----------------------------------------------------------------------------
(* Nobody is locked out.  A start that has met nobody is in its first      *)
(* round, or in its second with the lock it removed still gone; what it    *)
(* reads is not its own pid, so a live pid there is that of another.       *)

NotNamedYet == \A p \in Pids :
  pc[p] \in {"idle"} \union Acquiring => /\ lock.text # p
                                         /\ pc[p] = "probe" => seen[p] # p
FreshTries  == \A p \in Pids : pc[p] = "idle" => tries[p] = 2
AloneRounds == \A p \in Pids :
  pc[p] \in Acquiring \union {"refused"} /\ ~met[p] =>
    /\ \A q \in Pids \ {p} : ~Alive(q)
    /\ pc[p] # "refused"
    /\ pc[p] = "open" => tries[p] = 2 \/ (tries[p] = 1 /\ lock = NoLock)
    /\ pc[p] \in {"read", "probe", "unlink"} => tries[p] = 2
MetInv == NotNamedYet /\ FreshTries /\ AloneRounds

LEMMA MetInit == Init => MetInv
  BY ConstantsAssumption
  DEF Init, MetInv, NotNamedYet, FreshTries, AloneRounds, NoLock, Stale, Acquiring

\* A process that makes a step is alive, or begins.
LEMMA MoverLives ==
  ASSUME TypeOK, NEW p \in Pids, Work(p) \/ Interrupt(p) \/ Crash(p)
  PROVE  Alive(p)
<1> USE DEF Alive, From
<1>1. CASE Acquire(p)
      BY <1>1 DEF Acquire, LockCreate, LockExists, LockGiveUp, LockRead, LockProbe,
                  LockUnlink, LockWrite, AcquireRaises, Acquiring
<1>2. CASE Sweep(p) \/ Admit(p) \/ Run(p) \/ Interrupt(p)
      BY <1>2, InsideStep DEF Holding, InTry, Sweeping, InRun
<1>3. CASE Release(p) \/ ReleaseFails(p) \/ Exit(p) \/ Crash(p)
      BY <1>3 DEF Release, ReleaseFails, Exit, Crash, Acquiring, Holding, InTry,
                  Sweeping, InRun
<1> QED BY <1>1, <1>2, <1>3 DEF Work

\* A step of one process that is alive leaves the others as they are, and none
\* of those can be in acquire without having met it.
LEMMA OneMetMoves ==
  ASSUME TypeOK, MetInv, NEW p \in Pids, Alive(p),
         \A q \in Pids \ {p} : /\ pc'[q] = pc[q] /\ tries'[q] = tries[q]
                               /\ seen'[q] = seen[q] /\ met'[q] = met[q],
         lock'.text \in {lock.text, NoPid, p},
         pc'[p] # "idle",
         pc'[p] \in Acquiring => lock'.text # p /\ (pc'[p] = "probe" => seen'[p] # p),
         pc'[p] \in Acquiring \union {"refused"} /\ ~met'[p] =>
           /\ pc[p] \in Acquiring /\ ~met[p]
           /\ pc'[p] # "refused"
           /\ pc'[p] = "open" => tries'[p] = 2 \/ (tries'[p] = 1 /\ lock' = NoLock)
           /\ pc'[p] \in {"read", "probe", "unlink"} => tries'[p] = 2
  PROVE  MetInv'
<1> USE DEF MetInv
<1>1. NotNamedYet' BY ConstantsAssumption DEF NotNamedYet
<1>2. FreshTries' BY DEF FreshTries
<1>3. ASSUME NEW q \in Pids, q # p, pc'[q] \in Acquiring \union {"refused"}, ~met'[q]
      PROVE  FALSE
      BY <1>3 DEF AloneRounds
<1>4. \A q \in Pids \ {p} : Alive(q)' <=> Alive(q) BY DEF Alive
<1>5. AloneRounds' BY <1>3, <1>4 DEF AloneRounds
<1> QED BY <1>1, <1>2, <1>5

LEMMA AcquireKeepsMet ==
  ASSUME TypeInv, MetInv, NEW p \in Pids, Acquire(p)
  PROVE  MetInv'
<1> USE ConstantsAssumption DEF TypeInv, TypeOK, From, Goto, lockVars, NoLock
<1>1. Alive(p) BY MoverLives DEF Work
<1>2. /\ pc[p] \in Acquiring => lock.text # p /\ (pc[p] = "probe" => seen[p] # p)
      /\ pc[p] \in Acquiring /\ ~met[p] =>
           /\ \A q \in Pids \ {p} : ~Alive(q)
           /\ pc[p] = "open" => tries[p] = 2 \/ (tries[p] = 1 /\ lock = NoLock)
           /\ pc[p] \in {"read", "probe", "unlink"} => tries[p] = 2
      BY DEF MetInv, NotNamedYet, AloneRounds
<1>3. CASE LockCreate(p)    BY <1>1, <1>2, <1>3, OneMetMoves DEF LockCreate, Acquiring
<1>4. CASE LockExists(p)    BY <1>1, <1>2, <1>4, OneMetMoves DEF LockExists, Acquiring
<1>5. CASE LockGiveUp(p)    BY <1>1, <1>2, <1>5, OneMetMoves DEF LockGiveUp, Acquiring
<1>6. CASE LockRead(p)      BY <1>1, <1>2, <1>6, OneMetMoves DEF LockRead, Acquiring
<1>7. CASE LockProbe(p)
  <2>1. ~met[p] => ~Alive(seen[p]) BY <1>2, <1>7 DEF LockProbe, Acquiring, Alive
  <2> QED BY <1>1, <1>2, <1>7, <2>1, OneMetMoves DEF LockProbe, Acquiring
<1>8. CASE LockUnlink(p)    BY <1>1, <1>2, <1>8, OneMetMoves DEF LockUnlink, Acquiring
<1>9. CASE LockWrite(p)
      BY <1>1, <1>2, <1>9, OneMetMoves DEF LockWrite, Acquiring
<1>10. CASE AcquireRaises(p)
      BY <1>1, <1>2, <1>10, OneMetMoves DEF AcquireRaises, Acquiring
<1> QED BY <1>3, <1>4, <1>5, <1>6, <1>7, <1>8, <1>9, <1>10 DEF Acquire

LEMMA MetStep == TypeInv /\ MetInv /\ [Next]_vars => MetInv'
<1> SUFFICES ASSUME TypeInv, MetInv, [Next]_vars PROVE MetInv' OBVIOUS
<1> USE DEF TypeInv, TypeOK
<1>1. ASSUME NEW p \in Pids, Begin(p) PROVE MetInv'
  <2> USE DEF MetInv, Begin, From, Goto
  <2>1. NotNamedYet' BY <1>1 DEF NotNamedYet, Acquiring
  <2>2. FreshTries' BY <1>1 DEF FreshTries
  <2>3. ASSUME NEW q \in Pids, pc'[q] \in Acquiring \union {"refused"}, ~met'[q]
        PROVE  q = p /\ ~\E o \in Pids \ {p} : Alive(o)
        BY <1>1, <2>3 DEF AloneRounds, Alive, Acquiring
  <2>4. AloneRounds' BY <1>1, <2>3 DEF AloneRounds, FreshTries, Alive
  <2> QED BY <2>1, <2>2, <2>4
<1>2. ASSUME NEW p \in Pids, Acquire(p) PROVE MetInv' BY <1>2, AcquireKeepsMet
<1>3. ASSUME NEW p \in Pids, Sweep(p) \/ Admit(p) \/ Run(p) \/ Interrupt(p) PROVE MetInv'
  <2>1. pc[p] \in Holding /\ UNCHANGED lockVars /\ \E l \in Holding : Goto(p, l)
        BY <1>3, InsideStep
  <2>2. Alive(p) BY <1>3, MoverLives DEF Work
  <2> QED BY <2>1, <2>2, OneMetMoves
          DEF Goto, lockVars, Holding, InTry, Sweeping, InRun, Acquiring
<1>4. ASSUME NEW p \in Pids, Release(p) \/ ReleaseFails(p) \/ Exit(p) \/ Crash(p) PROVE MetInv'
  <2>1. Alive(p) BY <1>4, MoverLives DEF Work
  <2>2. /\ pc' = [pc EXCEPT ![p] = "done"] \/ pc' = [pc EXCEPT ![p] = "dead"]
        /\ \A q \in Pids \ {p} : /\ tries'[q] = tries[q] /\ seen'[q] = seen[q]
                               /\ met'[q] = met[q]
        BY <1>4 DEF Release, ReleaseFails, Exit, Crash, From, Goto, Forget
  <2>3. lock'.text \in {lock.text, NoPid}
        BY <1>4 DEF Release, ReleaseFails, Exit, Crash, NoLock
  <2> QED BY <2>1, <2>2, <2>3, OneMetMoves DEF Acquiring
<1>5. ASSUME UNCHANGED <<pc, lockVars>> PROVE MetInv'
      BY <1>5 DEF MetInv, NotNamedYet, FreshTries, AloneRounds, Alive, lockVars
<1>6. CASE UNCHANGED vars BY <1>5, <1>6 DEF vars, lockVars
<1>7. CASE Next BY <1>1, <1>2, <1>3, <1>4, <1>5, <1>7, OutsideStep DEF Next, Work
<1> QED BY <1>6, <1>7

\* Whatever was left in .lock, by a kill, a write or a release that failed, a
\* start that meets no other live process of the cell is never refused the lock,
\* with overlapping starts too.
THEOREM DeadNeverLockOut == Spec => []NeverLockedOut
<1>1. Init => TypeInv /\ MetInv BY TypeInit, MetInit
<1>2. TypeInv /\ MetInv /\ [Next]_vars => (TypeInv /\ MetInv)'
      BY TypeStep, MetStep
<1>3. MetInv => NeverLockedOut BY DEF MetInv, AloneRounds, NeverLockedOut
<1> QED BY <1>1, <1>2, <1>3, PTL DEF Spec

-----------------------------------------------------------------------------
(* Progress.  StartEnds needs fairness and stays with TLC; what makes it   *)
(* true is how much a call of start_run has left to do: every step a       *)
(* process takes, a failure, an interrupt or a kill included, leaves it    *)
(* fewer, and no other process, terminal or midnight gives it more.        *)

\* What Pipeline.run has left with this state in hand: the transitions ahead,
\* of which a failure leaves none, and the stages without output.
Ahead(st) == CASE st.status = "queued"       -> 5
               [] st.status = "ideating"     -> 4
               [] st.status = "researching"  -> 3
               [] st.status = "architecting" -> 2
               [] st.status = "error"        -> 0
               [] OTHER                      -> 1

RunLeft(st) == 4 * (Ahead(st) + 3 - st.made)

\* What the sweep has left, for each directory a read, a probe and two writes.
SweepLeft(p) == 4 * Cardinality(todo[p])
MostSwept    == 4 * Cardinality(Pids)

\* The steps before the next place are as many as the places it can go through.
StepsLeft(p) ==
  CASE pc[p] = "dead"       -> 0
    [] pc[p] = "done"       -> 1
    [] pc[p] = "refused"    -> 1
    [] pc[p] = "release"    -> 2
    [] pc[p] = "hook"       -> 4 + RunLeft(hand[p])
    [] pc[p] = "work"       -> 4 + RunLeft(hand[p])
    [] pc[p] = "files"      -> 5 + RunLeft(hand[p])
    [] pc[p] = "state"      -> 6 + RunLeft(hand[p])
    [] pc[p] = "setup"      -> 39
    [] pc[p] = "create"     -> 40
    [] pc[p] = "cap"        -> 41
    [] pc[p] = "sweep"      -> 42 + SweepLeft(p)
    [] pc[p] = "sweepFiles" -> 43 + SweepLeft(p)
    [] pc[p] = "sweepState" -> 44 + SweepLeft(p)
    [] pc[p] = "sweepProbe" -> 45 + SweepLeft(p)
    [] pc[p] = "list"       -> 43 + MostSwept
    [] pc[p] = "write"      -> 44 + MostSwept
    [] pc[p] = "unlink"     -> 42 + MostSwept + 4 * tries[p]
    [] pc[p] = "probe"      -> 43 + MostSwept + 4 * tries[p]
    [] pc[p] = "read"       -> 44 + MostSwept + 4 * tries[p]
    [] pc[p] = "open"       -> 45 + MostSwept + 4 * tries[p]
    [] pc[p] = "idle"       -> 54 + MostSwept

CountsDown == \A p \in Pids : /\ StepsLeft(p) \in 0..(54 + MostSwept)
                              /\ StepsLeft(p) = 0 <=> pc[p] = "dead"

Own(p) == Begin(p) \/ Work(p) \/ Interrupt(p) \/ Crash(p)

StepCounts == \A p \in Pids : /\ Own(p) => StepsLeft(p)' < StepsLeft(p)
                              /\ StepsLeft(p)' <= StepsLeft(p)

-----------------------------------------------------------------------------
(* What the parts of the measure are made of.                              *)

\* A pipeline has at most eight rounds ahead.
LEMMA RunLeftRange ==
  ASSUME NEW st \in RunState
  PROVE  Ahead(st) \in 0..5 /\ st.made \in 0..3 /\ RunLeft(st) \in 0..32
<1>1. Ahead(st) \in 0..5 /\ st.made \in 0..3 BY DEF Ahead, RunState
<1> QED BY <1>1 DEF RunLeft

\* A failure leaves no transition ahead.
LEMMA FailedLess ==
  ASSUME NEW st \in RunState, st.status # "error"
  PROVE  RunLeft(Failed(st)) + 4 <= RunLeft(st)
<1>1. Failed(st).status = "error" /\ Failed(st).made = st.made BY DEF Failed, RunState
<1>2. Ahead(Failed(st)) = 0 BY <1>1 DEF Ahead
<1>3. Ahead(st) >= 1 BY DEF Ahead
<1> QED BY <1>1, <1>2, <1>3, RunLeftRange DEF RunLeft

\* transition() leaves one less.
LEMMA AdvancedLess ==
  ASSUME NEW st \in RunState, st.status \in DOMAIN NextStatus
  PROVE  RunLeft(Advanced(st)) + 4 = RunLeft(st)
<1>1. /\ Advanced(st).status = NextStatus[st.status]
      /\ Advanced(st).made = st.made
      BY DEF Advanced, RunState
<1>2. Ahead(Advanced(st)) + 1 = Ahead(st) BY <1>1 DEF Ahead, NextStatus
<1>3. Ahead(Advanced(st)) \in Nat BY <1>1 DEF Ahead
<1> QED BY <1>1, <1>2, <1>3, RunLeftRange DEF RunLeft

\* The sweep visits no directory twice and no more than there are.
LEMMA SweepRange ==
  ASSUME NEW S \in SUBSET Pids
  PROVE  /\ Cardinality(S) \in Nat /\ Cardinality(Pids) \in Nat
         /\ Cardinality(S) <= Cardinality(Pids)
         /\ \A r \in S : Cardinality(S \ {r}) = Cardinality(S) - 1
<1>1. IsFiniteSet(Pids) /\ IsFiniteSet(S) BY ConstantsAssumption, FS_Subset
<1> QED BY <1>1, FS_CardinalityType, FS_Subset, FS_RemoveElement

\* The measure is a number up to that of a call that has not begun, and only a
\* process that is gone has nothing left.
LEMMA Measured == TypeInv => CountsDown
<1> SUFFICES ASSUME TypeInv, NEW p \in Pids
             PROVE  /\ StepsLeft(p) \in 0..(54 + MostSwept)
                    /\ StepsLeft(p) = 0 <=> pc[p] = "dead"
    BY DEF CountsDown
<1>1. /\ pc[p] \in PCs /\ tries[p] \in 0..2 /\ RunLeft(hand[p]) \in 0..32
      /\ SweepLeft(p) \in Nat /\ MostSwept \in Nat /\ SweepLeft(p) <= MostSwept
  <2>1. pc[p] \in PCs /\ tries[p] \in 0..2 /\ hand[p] \in RunState /\ todo[p] \in SUBSET Pids
        BY DEF TypeInv, TypeOK
  <2> QED BY <2>1, RunLeftRange, SweepRange DEF SweepLeft, MostSwept
<1> HIDE DEF SweepLeft, MostSwept, RunLeft
<1>2. pc[p] = "dead" => StepsLeft(p) = 0 BY DEF StepsLeft
<1>3. ASSUME pc[p] # "dead" PROVE StepsLeft(p) \in 1..(54 + MostSwept)
  <2>1. CASE pc[p] \in {"idle", "done", "refused", "list", "write"}
    <3>1. StepsLeft(p) \in {1, 43 + MostSwept, 44 + MostSwept, 54 + MostSwept}
          BY <2>1 DEF StepsLeft, Sweeping, InRun
    <3> QED BY <1>1, <3>1
  <2>2. CASE pc[p] \in {"open", "read", "probe", "unlink"}
    <3>1. StepsLeft(p) \in {n + MostSwept + 4 * tries[p] : n \in 42..45}
          BY <2>2 DEF StepsLeft, Sweeping, InRun
    <3> QED BY <1>1, <3>1
  <2>3. CASE pc[p] \in Sweeping \ {"list"}
    <3>1. StepsLeft(p) \in {n + SweepLeft(p) : n \in 42..45} BY <2>3 DEF StepsLeft, Sweeping, InRun
    <3> QED BY <1>1, <3>1
  <2>4. CASE pc[p] \in InRun
    <3>1. StepsLeft(p) \in {n + RunLeft(hand[p]) : n \in 4..6} BY <2>4 DEF StepsLeft, Sweeping, InRun
    <3> QED BY <1>1, <3>1
  <2>5. CASE pc[p] \in {"cap", "create", "setup", "release"}
    <3>1. StepsLeft(p) \in {2, 39, 40, 41} BY <2>5 DEF StepsLeft, Sweeping, InRun
    <3> QED BY <1>1, <3>1
  <2> QED BY <1>1, <1>3, <2>1, <2>2, <2>3, <2>4, <2>5
            DEF PCs, Holding, InTry, Acquiring, Sweeping
<1> QED BY <1>1, <1>2, <1>3

-----------------------------------------------------------------------------
(* A process's own steps.                                                  *)

\* Each round of RunLock.acquire ends in an unlink, and there are two.
LEMMA AcquireCounts ==
  ASSUME TypeInv, NEW p \in Pids, Begin(p) \/ Acquire(p)
  PROVE  StepsLeft(p)' < StepsLeft(p)
<1> USE DEF From, Goto, lockVars, runVars
<1>1. /\ pc \in [Pids -> PCs] /\ tries \in [Pids -> 0..2]
      /\ MostSwept \in Nat /\ tries[p] \in 0..2
      BY SweepRange DEF TypeInv, TypeOK, MostSwept
<1>2. MostSwept' = MostSwept BY DEF MostSwept
<1> HIDE DEF MostSwept
<1>3. CASE Begin(p)          BY <1>1, <1>2, <1>3 DEF Begin, StepsLeft
<1>4. CASE LockCreate(p)     BY <1>1, <1>2, <1>4 DEF LockCreate, StepsLeft
<1>5. CASE LockExists(p)     BY <1>1, <1>2, <1>5 DEF LockExists, StepsLeft
<1>6. CASE LockGiveUp(p)     BY <1>1, <1>2, <1>6 DEF LockGiveUp, StepsLeft
<1>7. CASE LockRead(p)       BY <1>1, <1>2, <1>7 DEF LockRead, StepsLeft
<1>8. CASE LockProbe(p)      BY <1>1, <1>2, <1>8 DEF LockProbe, StepsLeft
<1>9. CASE LockUnlink(p)
  <2>1. tries'[p] = tries[p] - 1 BY <1>1, <1>9 DEF LockUnlink
  <2> QED BY <1>1, <1>2, <1>9, <2>1 DEF LockUnlink, StepsLeft
<1>10. CASE LockWrite(p)      BY <1>1, <1>2, <1>10 DEF LockWrite, StepsLeft
<1>11. CASE AcquireRaises(p)
  <2>1. pc[p] \in {"open", "read", "probe", "unlink", "write"} /\ pc'[p] = "done"
        BY <1>1, <1>11 DEF AcquireRaises, Acquiring
  <2>2. StepsLeft(p)' = 1 BY <2>1 DEF StepsLeft
  <2>3. StepsLeft(p) \in {44 + MostSwept} \union {n + MostSwept + 4 * tries[p] : n \in 42..45}
        BY <2>1 DEF StepsLeft
  <2> QED BY <1>1, <2>2, <2>3
<1> QED BY <1>3, <1>4, <1>5, <1>6, <1>7, <1>8, <1>9, <1>10, <1>11 DEF Acquire

\* sweep_dead_runs goes once through what it listed.
LEMMA SweepCounts ==
  ASSUME TypeInv, NEW p \in Pids, Sweep(p) \/ SweepPersistFails(p)
  PROVE  StepsLeft(p)' < StepsLeft(p)
<1> USE DEF From, Goto, lockVars, runVars
<1>1. /\ pc \in [Pids -> PCs] /\ todo \in [Pids -> SUBSET Pids]
      /\ MostSwept \in Nat /\ SweepLeft(p) \in Nat
      BY SweepRange DEF TypeInv, TypeOK, MostSwept, SweepLeft
<1>2. \A r \in todo[p] : todo'[p] = todo[p] \ {r} => SweepLeft(p)' + 4 = SweepLeft(p)
      BY <1>1, SweepRange DEF SweepLeft
<1>3. todo'[p] = todo[p] => SweepLeft(p)' = SweepLeft(p) BY DEF SweepLeft
<1>4. SweepLeft(p)' \in Nat /\ SweepLeft(p)' <= MostSwept
  <2>1. todo'[p] \in SUBSET Pids BY SweepTypes DEF TypeInv, TypeOK
  <2> QED BY <2>1, SweepRange DEF SweepLeft, MostSwept
<1> HIDE DEF SweepLeft, MostSwept
<1>5. CASE SweepList(p)  BY <1>1, <1>4, <1>5 DEF SweepList, StepsLeft
<1>6. CASE SweepSkip(p)
  <2>1. PICK r \in todo[p] : todo'[p] = todo[p] \ {r} BY <1>1, <1>6 DEF SweepSkip
  <2>2. pc[p] = "sweep" /\ pc'[p] = "sweep" BY <1>6 DEF SweepSkip
  <2> QED BY <1>1, <1>2, <1>4, <2>1, <2>2 DEF StepsLeft
<1>7. CASE SweepRead(p)
  <2>1. PICK r \in todo[p] : todo'[p] = todo[p] \ {r} BY <1>1, <1>7 DEF SweepRead
  <2>2. pc[p] = "sweep" /\ pc'[p] = "sweepProbe" BY <1>1, <1>7 DEF SweepRead
  <2> QED BY <1>1, <1>2, <1>4, <2>1, <2>2 DEF StepsLeft
<1>8. CASE SweepProbe(p) BY <1>1, <1>3, <1>8 DEF SweepProbe, StepsLeft
<1>9. CASE SweepState(p) BY <1>1, <1>3, <1>9 DEF SweepState, StepsLeft
<1>10. CASE SweepFiles(p) BY <1>1, <1>3, <1>10 DEF SweepFiles, StepsLeft
<1>11. CASE SweepEnd(p)   BY <1>1, <1>3, <1>11 DEF SweepEnd, StepsLeft
<1>12. CASE SweepPersistFails(p)
      BY <1>1, <1>3, <1>12 DEF SweepPersistFails, StepsLeft
<1> QED BY <1>5, <1>6, <1>7, <1>8, <1>9, <1>10, <1>11, <1>12 DEF Sweep

\* Each round of Pipeline.run goes through a transition, makes an output or fails.
LEMMA RunCounts ==
  ASSUME TypeInv, NEW p \in Pids, Admit(p) \/ Run(p)
  PROVE  StepsLeft(p)' < StepsLeft(p)
<1> USE DEF From, Goto, Holds, lockVars, runVars
<1>1. /\ pc \in [Pids -> PCs] /\ hand \in [Pids -> RunState] /\ hand[p] \in RunState
      /\ RunLeft(hand[p]) \in 0..32
      BY RunLeftRange DEF TypeInv, TypeOK
<1>2. RunLeft(hand'[p]) \in 0..32
  <2>1. hand'[p] \in RunState BY AdmitTypes, RunTypes DEF TypeInv, TypeOK
  <2> QED BY <2>1, RunLeftRange
<1>3. hand[p].status # "error" => RunLeft(Failed(hand[p])) + 4 <= RunLeft(hand[p])
      BY <1>1, FailedLess
<1>4. hand[p].status \in DOMAIN NextStatus => RunLeft(Advanced(hand[p])) + 4 = RunLeft(hand[p])
      BY <1>1, AdvancedLess
<1>5. CASE CapCheck(p)         BY <1>1, <1>5 DEF CapCheck, StepsLeft
<1>6. CASE Create(p)           BY <1>1, <1>6 DEF Create, StepsLeft
<1>7. CASE Setup(p)            BY <1>1, <1>2, <1>7 DEF Setup, StepsLeft
<1>8. CASE SetupPersonaGone(p)
  <2>1. pc[p] = "setup" /\ pc'[p] = "state" BY <1>1, <1>8 DEF SetupPersonaGone
  <2> QED BY <1>2, <2>1 DEF StepsLeft
<1>9. CASE SetupFails(p)       BY <1>1, <1>9 DEF SetupFails, StepsLeft
<1>10. CASE WriteState(p)      BY <1>1, <1>10 DEF WriteState, StepsLeft
<1>11. CASE WriteFiles(p)
  <2>1. CASE hand[p].status = "queued"
    <3>1. pc[p] = "files" /\ pc'[p] = "state" /\ hand'[p] = Advanced(hand[p])
          BY <1>1, <1>11, <2>1 DEF WriteFiles
    <3>2. hand[p].status \in DOMAIN NextStatus BY <2>1 DEF NextStatus
    <3> QED BY <1>1, <1>2, <1>4, <3>1, <3>2 DEF StepsLeft
  <2>2. CASE hand[p].status # "queued"
    <3>1. pc[p] = "files" /\ pc'[p] \in {"work", "hook"} /\ hand'[p] = hand[p]
          BY <1>1, <1>11, <2>2 DEF WriteFiles
    <3> QED BY <1>1, <3>1 DEF StepsLeft
  <2> QED BY <2>1, <2>2
<1>12. CASE StageReturns(p)
  <2>1. PICK v \in {"none", "pass", "fail"} :
          hand'[p] = [hand[p] EXCEPT !.made = @ + 1, !.verdict = v]
        BY <1>1, <1>12 DEF StageReturns
  <2>2. hand'[p].status = hand[p].status /\ hand'[p].made = hand[p].made + 1
        BY <1>1, <2>1 DEF RunState
  <2>3. Ahead(hand'[p]) = Ahead(hand[p]) BY <2>2 DEF Ahead
  <2>4. RunLeft(hand'[p]) + 4 = RunLeft(hand[p])
        BY <1>1, <2>2, <2>3, RunLeftRange DEF RunLeft
  <2>5. pc[p] = "work" /\ pc'[p] = "state" BY <1>1, <1>12 DEF StageReturns
  <2> QED BY <1>1, <1>2, <2>4, <2>5 DEF StepsLeft
<1>13. CASE StageRaises(p)
  <2>1. pc[p] = "work" /\ pc'[p] = "state" /\ hand'[p] = Failed(hand[p])
        BY <1>1, <1>13 DEF StageRaises
  <2>2. hand[p].status # "error" BY <2>1 DEF TypeInv, InStage, BeforeWork, StageOf
  <2> QED BY <1>1, <1>2, <1>3, <2>1, <2>2 DEF StepsLeft
<1>14. CASE HookReturns(p)
  <2>1. CASE hand[p].status \in DOMAIN NextStatus
    <3>1. pc[p] = "hook" /\ pc'[p] = "state" /\ hand'[p] = Advanced(hand[p])
          BY <1>1, <1>14, <2>1 DEF HookReturns
    <3> QED BY <1>1, <1>2, <1>4, <2>1, <3>1 DEF StepsLeft
  <2>2. CASE hand[p].status \notin DOMAIN NextStatus
    <3>1. pc[p] = "hook" /\ pc'[p] = "release" BY <1>1, <1>14, <2>2 DEF HookReturns
    <3> QED BY <1>1, <3>1 DEF StepsLeft
  <2> QED BY <2>1, <2>2
<1>15. CASE PersistFails(p) \/ HookRaises(p)
  <2>1. pc[p] \in {"state", "files", "hook"} /\ Raises(p)
        BY <1>15 DEF PersistFails, HookRaises
  <2>2. CASE hand[p].status # "error"
    <3>1. pc'[p] = "state" /\ hand'[p] = Failed(hand[p]) BY <1>1, <2>1, <2>2 DEF Raises
    <3> QED BY <1>1, <1>2, <1>3, <2>1, <2>2, <3>1 DEF StepsLeft
  <2>3. CASE hand[p].status = "error"
    <3>1. pc'[p] = "release" BY <1>1, <2>1, <2>3 DEF Raises
    <3> QED BY <1>1, <2>1, <3>1 DEF StepsLeft
  <2> QED BY <2>2, <2>3
<1>16. CASE SweepPersistFails(p) BY <1>16, SweepCounts
<1> QED BY <1>5, <1>6, <1>7, <1>8, <1>9, <1>10, <1>11, <1>12, <1>13, <1>14, <1>15, <1>16
        DEF Admit, Run

\* On the way out there are two steps, and a killed process makes none.
LEMMA LeaveCounts ==
  ASSUME TypeInv, NEW p \in Pids, Release(p) \/ ReleaseFails(p) \/ Exit(p) \/ Interrupt(p) \/ Crash(p)
  PROVE  StepsLeft(p)' < StepsLeft(p)
<1> USE DEF From, Goto
<1>1. pc \in [Pids -> PCs] /\ StepsLeft(p) \in Nat /\ (pc[p] # "dead" => StepsLeft(p) > 0)
      BY Measured, SweepRange DEF TypeInv, TypeOK, CountsDown, MostSwept
<1>2. CASE Release(p) \/ ReleaseFails(p) BY <1>1, <1>2 DEF Release, ReleaseFails, StepsLeft
<1>3. CASE Exit(p)    BY <1>1, <1>3 DEF Exit, StepsLeft
<1>4. CASE Interrupt(p)
  <2>1. pc[p] \in InTry /\ pc'[p] = "release" BY <1>1, <1>4 DEF Interrupt
  <2>2. StepsLeft(p)' = 2 BY <2>1 DEF StepsLeft
  <2>3. StepsLeft(p) > 2
    <3>1. RunLeft(hand[p]) \in Nat /\ SweepLeft(p) \in Nat /\ MostSwept \in Nat
      <4>1. hand[p] \in RunState /\ todo[p] \in SUBSET Pids BY DEF TypeInv, TypeOK
      <4> QED BY <4>1, RunLeftRange, SweepRange DEF SweepLeft, MostSwept
    <3>2. CASE pc[p] \in Sweeping BY <3>1, <3>2 DEF StepsLeft, Sweeping
    <3>3. CASE pc[p] \in InRun BY <3>1, <3>3 DEF StepsLeft, InRun
    <3>4. CASE pc[p] \in {"cap", "create", "setup"} BY <3>4 DEF StepsLeft
    <3> QED BY <2>1, <3>2, <3>3, <3>4 DEF InTry
  <2> QED BY <2>2, <2>3
<1>5. CASE Crash(p)
  <2>1. pc[p] # "dead" /\ pc'[p] = "dead"
        BY <1>1, <1>5 DEF Crash, Acquiring, Holding, InTry, Sweeping, InRun
  <2>2. StepsLeft(p)' = 0 BY <2>1 DEF StepsLeft
  <2> QED BY <1>1, <2>1, <2>2
<1> QED BY <1>2, <1>3, <1>4, <1>5

LEMMA OwnCounts ==
  ASSUME TypeInv, NEW p \in Pids, Own(p)
  PROVE  StepsLeft(p)' < StepsLeft(p)
  BY AcquireCounts, SweepCounts, RunCounts, LeaveCounts DEF Own, Work

-----------------------------------------------------------------------------
(* The others.                                                             *)

Locals(p) == <<pc[p], tries[p], todo[p], hand[p]>>

LEMMA LocalsDecide ==
  ASSUME NEW p \in Pids, UNCHANGED Locals(p)
  PROVE  StepsLeft(p)' = StepsLeft(p)
  BY DEF Locals, StepsLeft, SweepLeft, MostSwept

\* Nobody writes another process's variables.
LEMMA OthersLeave ==
  ASSUME TypeInv, NEW p \in Pids, NEW q \in Pids, p # q, Own(q)
  PROVE  UNCHANGED Locals(p)
<1> USE DEF Locals, From, Goto, Holds, Forget, lockVars, runVars, TypeInv, TypeOK
<1>1. CASE Begin(q) BY <1>1 DEF Begin
<1>2. CASE Acquire(q)
      BY <1>2 DEF Acquire, LockCreate, LockExists, LockGiveUp, LockRead, LockProbe,
                  LockUnlink, LockWrite, AcquireRaises
<1>3. CASE Sweep(q)
      BY <1>3 DEF Sweep, SweepList, SweepSkip, SweepRead, SweepProbe, SweepState,
                  SweepFiles, SweepEnd
<1>4. CASE Admit(q)
      BY <1>4 DEF Admit, CapCheck, Create, Setup, SetupPersonaGone, SetupFails
<1>5. CASE Run(q)
      BY <1>5 DEF Run, WriteState, WriteFiles, StageReturns, StageRaises, HookReturns,
                  HookRaises, PersistFails, SweepPersistFails, Raises
<1>6. CASE Release(q) \/ ReleaseFails(q) \/ Exit(q) \/ Interrupt(q) \/ Crash(q)
      BY <1>6 DEF Release, ReleaseFails, Exit, Interrupt, Crash
<1> QED BY <1>1, <1>2, <1>3, <1>4, <1>5, <1>6 DEF Own, Work

LEMMA OutsideLeaves ==
  ASSUME NEW p \in Pids,
         Midnight \/ \E d \in Deciders : \/ DecideLoad(d) \/ Approve(d)
                                        \/ Assess(d) \/ DecideStops(d)
  PROVE  UNCHANGED Locals(p)
  BY DEF Locals, Midnight, DecideLoad, Approve, Assess, DecideStops, lockVars, runVars

\* A call of start_run has at most 54 steps to make, and four more for each
\* directory its sweep can meet; it has none left only when its process is gone.
THEOREM StartIsBounded == Spec => []CountsDown
<1>1. Spec => []TypeInv BY TypeInit, TypeStep, PTL DEF Spec
<1> QED BY <1>1, Measured, PTL

\* Each step of a process brings it nearer to its end, whatever fails, and nothing
\* anyone else does takes it further away: neither the lock loop, the sweep nor
\* the pipeline can go round for ever.
THEOREM EveryStepCounts == Spec => [][StepCounts]_vars
<1>1. Spec => []TypeInv BY TypeInit, TypeStep, PTL DEF Spec
<1>2. TypeInv /\ CountsDown /\ CountsDown' /\ [Next]_vars => [StepCounts]_vars
  <2> SUFFICES ASSUME TypeInv, CountsDown, CountsDown', Next, NEW p \in Pids
               PROVE  /\ Own(p) => StepsLeft(p)' < StepsLeft(p)
                      /\ StepsLeft(p)' <= StepsLeft(p)
      BY DEF StepCounts
  <2>1. Own(p) => StepsLeft(p)' < StepsLeft(p) BY OwnCounts
  <2>2. StepsLeft(p) \in Nat /\ StepsLeft(p)' \in Nat
    <3>1. MostSwept \in Nat BY SweepRange DEF MostSwept
    <3>2. MostSwept' = MostSwept BY DEF MostSwept
    <3> QED BY <3>1, <3>2 DEF CountsDown
  <2>3. CASE Own(p) BY <2>1, <2>2, <2>3
  <2>4. CASE ~Own(p)
    <3>1. UNCHANGED Locals(p)
      <4>1. CASE \E q \in Pids : Own(q) BY <2>4, <4>1, OthersLeave
      <4>2. CASE ~\E q \in Pids : Own(q) BY <4>2, OutsideLeaves DEF Next, Own
      <4> QED BY <4>1, <4>2
    <3> QED BY <2>2, <2>4, <3>1, LocalsDecide
  <2> QED BY <2>1, <2>3, <2>4
<1> QED BY <1>1, <1>2, StartIsBounded, PTL DEF Spec
=============================================================================
