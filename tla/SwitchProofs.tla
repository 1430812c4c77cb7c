---------------------------- MODULE SwitchProofs ----------------------------
(***************************************************************************)
(* Proofs about the scheduler of Switch, for any number of CPUs, contexts  *)
(* and affinity masks.  IInv is the inductive invariant; the theorems that *)
(* follow it rest on it.  Then two components that decide what may be      *)
(* scheduled: ProcControl (instance Control) and ProcHandles (Procs).      *)
(***************************************************************************)
EXTENDS Switch, TLAPS

\* The CPU that is between taking CONTEXT_SWITCH_LOCK and giving it back is
\* the one that holds it, so at most one CPU is.
LockInv ==
    \A cpu \in Cpus : pc[cpu] \in {"begin", "scan", "hook", "unlock"} <=> lock = cpu

\* The kmain context of a CPU is always there to be switched to, and only its
\* own CPU can do so.
IdleInv ==
    \A cpu \in Cpus :
        /\ Idle[cpu] \in contexts
        /\ status[Idle[cpu]] = "Runnable"
        /\ affinity[Idle[cpu]] = {cpu}
        /\ \A q \in Cpus : current[q] = Idle[cpu] => q = cpu
        /\ pc[cpu] = "exit" => current[cpu] \notin IdleContexts

\* A context does not block or exit while it holds a PreemptGuard.
PreemptInv == \A c \in Context : preempt[c] > 0 => status[c] = "Runnable"

\* The context a CPU executes, or is about to return into, is runnable.
ReturnInv ==
    \A cpu \in Cpus :
        pc[cpu] \in {"run", "hook", "unlock"} => status[current[cpu]] = "Runnable"

\* During a scan the previous context cannot become non-preemptable, and the
\* idle context is passed over exactly once.
ScanInv ==
    \A cpu \in Cpus : pc[cpu] = "scan" =>
        /\ preempt[current[cpu]] = 0
        /\ current[cpu] \notin left
        /\ current[cpu] # Idle[cpu] => (skip_idle <=> Idle[cpu] \in left)
        /\ current[cpu] = Idle[cpu] => skip_idle

IInv ==
    /\ TypeOK
    /\ LockInv
    /\ OneCpuPerContext
    /\ RunningIsCurrent
    /\ IdleInv
    /\ PreemptInv
    /\ ReturnInv
    /\ ScanInv

\* Context::spawn preserves the inductive invariant.
LEMMA SpawnStep ==
    ASSUME IInv, NEW cpu \in Cpus, NEW c \in Context, Spawn(cpu, c)
    PROVE  IInv'
<1> USE DEF IInv, TypeOK, Spawn, switchVars, placeVars
<1>1. TypeOK'
  BY SwitchAssumption DEF Context
<1>2. LockInv' /\ OneCpuPerContext' /\ RunningIsCurrent' /\ IdleInv' /\ PreemptInv' /\ ReturnInv' /\ ScanInv'
  BY DEF LockInv, OneCpuPerContext, RunningIsCurrent, IdleInv, PreemptInv, ReturnInv, ScanInv
<1> QED
  BY <1>1, <1>2, Zenon

\* The "start" handle preserves the inductive invariant.
LEMMA StartStep ==
    ASSUME IInv, NEW cpu \in Cpus, NEW c \in Context, Start(cpu, c)
    PROVE  IInv'
<1> USE DEF IInv, TypeOK, Start, switchVars, placeVars
<1>1. TypeOK'
  BY SwitchAssumption, Zenon DEF Status
<1>2. LockInv' /\ OneCpuPerContext' /\ RunningIsCurrent' /\ IdleInv' /\ PreemptInv' /\ ReturnInv' /\ ScanInv'
  BY DEF LockInv, OneCpuPerContext, RunningIsCurrent, IdleInv, PreemptInv, ReturnInv, ScanInv
<1> QED
  BY <1>1, <1>2, Zenon

\* Context::block preserves the inductive invariant.
LEMMA BlockStep ==
    ASSUME IInv, NEW cpu \in Cpus, NEW w \in Time \cup {Never}, Block(cpu, w)
    PROVE  IInv'
<1> USE DEF IInv, TypeOK, Block, Runs, switchVars, placeVars
<1>1. TypeOK'
  BY SwitchAssumption, Zenon DEF Status
<1>2. LockInv'
  BY SwitchAssumption DEF LockInv
<1>3. IdleInv'
  BY SwitchAssumption DEF IdleInv, IdleContexts
<1>4. PreemptInv'
  BY SwitchAssumption DEF PreemptInv
<1>5. ReturnInv'
  BY SwitchAssumption DEF ReturnInv, OneCpuPerContext
<1>6. ScanInv'
  BY SwitchAssumption DEF ScanInv
<1>7. OneCpuPerContext' /\ RunningIsCurrent'
  BY Zenon DEF OneCpuPerContext, RunningIsCurrent
<1> QED
  BY <1>1, <1>2, <1>3, <1>4, <1>5, <1>6, <1>7, Zenon

\* Context::unblock preserves the inductive invariant.
LEMMA UnblockStep ==
    ASSUME IInv, NEW cpu \in Cpus, NEW c \in Context, Unblock(cpu, c)
    PROVE  IInv'
<1> USE DEF IInv, TypeOK, Unblock, switchVars, placeVars
<1>1. TypeOK'
  BY SwitchAssumption, Zenon DEF Status
<1>2. LockInv' /\ OneCpuPerContext' /\ RunningIsCurrent' /\ IdleInv' /\ PreemptInv' /\ ReturnInv' /\ ScanInv'
  BY DEF LockInv, OneCpuPerContext, RunningIsCurrent, IdleInv, PreemptInv, ReturnInv, ScanInv
<1> QED
  BY <1>1, <1>2, Zenon

\* PreemptGuard::new preserves the inductive invariant.
LEMMA PreemptEnterStep ==
    ASSUME IInv, NEW cpu \in Cpus, PreemptEnter(cpu)
    PROVE  IInv'
<1> USE DEF IInv, TypeOK, PreemptEnter, Runs, switchVars, placeVars
<1>1. TypeOK'
  BY SwitchAssumption
<1>2. PreemptInv'
  BY SwitchAssumption DEF PreemptInv, ReturnInv
<1>3. ScanInv'
  BY SwitchAssumption, Zenon DEF ScanInv, OneCpuPerContext
<1>4. LockInv' /\ OneCpuPerContext' /\ RunningIsCurrent' /\ IdleInv' /\ ReturnInv'
  BY DEF LockInv, OneCpuPerContext, RunningIsCurrent, IdleInv, ReturnInv
<1> QED
  BY <1>1, <1>2, <1>3, <1>4, Zenon

\* Dropping a PreemptGuard preserves the inductive invariant.
LEMMA PreemptExitStep ==
    ASSUME IInv, NEW cpu \in Cpus, PreemptExit(cpu)
    PROVE  IInv'
<1> USE DEF IInv, TypeOK, PreemptExit, Runs, switchVars, placeVars
<1>1. TypeOK'
  BY SwitchAssumption
<1>2. PreemptInv'
  BY SwitchAssumption DEF PreemptInv
<1>3. ScanInv'
  BY SwitchAssumption DEF ScanInv
<1>4. LockInv' /\ OneCpuPerContext' /\ RunningIsCurrent' /\ IdleInv' /\ ReturnInv'
  BY DEF LockInv, OneCpuPerContext, RunningIsCurrent, IdleInv, ReturnInv
<1> QED
  BY <1>1, <1>2, <1>3, <1>4, Zenon

\* The "sched-affinity" handle preserves the inductive invariant.
LEMMA SetAffinityStep ==
    ASSUME IInv, NEW cpu \in Cpus, NEW c \in Context, NEW mask \in Masks, SetAffinity(cpu, c, mask)
    PROVE  IInv'
<1> USE DEF IInv, TypeOK, SetAffinity, switchVars, placeVars
<1>1. TypeOK'
  BY SwitchAssumption, Zenon
<1>2. IdleInv'
  BY SwitchAssumption DEF IdleInv, IdleContexts, Context
<1>3. LockInv' /\ OneCpuPerContext' /\ RunningIsCurrent' /\ PreemptInv' /\ ReturnInv' /\ ScanInv'
  BY DEF LockInv, OneCpuPerContext, RunningIsCurrent, PreemptInv, ReturnInv, ScanInv
<1> QED
  BY <1>1, <1>2, <1>3, Zenon

\* The status change of exit_this_context preserves the inductive invariant.
LEMMA ExitDeadStep ==
    ASSUME IInv, NEW cpu \in Cpus, ExitDead(cpu)
    PROVE  IInv'
<1> USE DEF IInv, TypeOK, ExitDead, Runs, switchVars, placeVars
<1>1. TypeOK'
  BY SwitchAssumption, Zenon DEF Status
<1>2. LockInv'
  BY SwitchAssumption DEF LockInv
<1>3. IdleInv'
  BY SwitchAssumption DEF IdleInv, IdleContexts
<1>4. PreemptInv'
  BY SwitchAssumption DEF PreemptInv
<1>5. ReturnInv'
  BY SwitchAssumption DEF ReturnInv, OneCpuPerContext
<1>6. ScanInv'
  BY SwitchAssumption DEF ScanInv
<1>7. OneCpuPerContext' /\ RunningIsCurrent'
  BY Zenon DEF OneCpuPerContext, RunningIsCurrent
<1> QED
  BY <1>1, <1>2, <1>3, <1>4, <1>5, <1>6, <1>7, Zenon

\* The removal from CONTEXTS in exit_this_context preserves the inductive invariant.
LEMMA ExitRemoveStep ==
    ASSUME IInv, NEW cpu \in Cpus, ExitRemove(cpu)
    PROVE  IInv'
<1> USE DEF IInv, TypeOK, ExitRemove, switchVars, placeVars
<1>1. TypeOK'
  BY SwitchAssumption, Zenon
<1>2. LockInv'
  BY SwitchAssumption, Zenon DEF LockInv
<1>3. IdleInv'
  BY SwitchAssumption DEF IdleInv, IdleContexts
<1>4. ScanInv'
  BY SwitchAssumption, Zenon DEF ScanInv
<1>5. OneCpuPerContext' /\ RunningIsCurrent' /\ PreemptInv' /\ ReturnInv'
  BY DEF OneCpuPerContext, RunningIsCurrent, PreemptInv, ReturnInv
<1> QED
  BY <1>1, <1>2, <1>3, <1>4, <1>5, Zenon

\* A call of switch() preserves the inductive invariant.
LEMMA TickStep ==
    ASSUME IInv, NEW cpu \in Cpus, Tick(cpu)
    PROVE  IInv'
<1> USE DEF IInv, TypeOK, Tick, switchVars, placeVars
<1>1. TypeOK'
  BY SwitchAssumption, Zenon
<1>2. LockInv'
  BY SwitchAssumption DEF LockInv
<1>3. IdleInv'
  BY SwitchAssumption DEF IdleInv
<1>4. ScanInv'
  BY SwitchAssumption, Zenon DEF ScanInv
<1>5. OneCpuPerContext' /\ RunningIsCurrent' /\ PreemptInv' /\ ReturnInv'
  BY DEF OneCpuPerContext, RunningIsCurrent, PreemptInv, ReturnInv
<1> QED
  BY <1>1, <1>2, <1>3, <1>4, <1>5, Zenon

\* Taking CONTEXT_SWITCH_LOCK preserves the inductive invariant.
LEMMA AcquireStep ==
    ASSUME IInv, NEW cpu \in Cpus, Acquire(cpu)
    PROVE  IInv'
<1> USE DEF IInv, TypeOK, Acquire, switchVars, placeVars
<1>1. TypeOK'
  BY SwitchAssumption, Zenon
<1>2. LockInv'
  BY SwitchAssumption DEF LockInv
<1>3. IdleInv'
  BY SwitchAssumption DEF IdleInv
<1>4. ScanInv'
  BY SwitchAssumption, Zenon DEF ScanInv
<1>5. OneCpuPerContext' /\ RunningIsCurrent' /\ PreemptInv' /\ ReturnInv'
  BY DEF OneCpuPerContext, RunningIsCurrent, PreemptInv, ReturnInv
<1> QED
  BY <1>1, <1>2, <1>3, <1>4, <1>5, Zenon

\* The early return of switch() for a non-preemptable context preserves the inductive invariant.
LEMMA BeginRefusedStep ==
    ASSUME IInv, NEW cpu \in Cpus, BeginRefused(cpu)
    PROVE  IInv'
<1> USE DEF IInv, TypeOK, BeginRefused, switchVars, placeVars
<1>1. TypeOK'
  BY SwitchAssumption, Zenon
<1>2. LockInv'
  BY SwitchAssumption DEF LockInv
<1>3. IdleInv'
  BY SwitchAssumption DEF IdleInv
<1>4. ReturnInv'
  BY SwitchAssumption DEF ReturnInv, PreemptInv
<1>5. ScanInv'
  BY SwitchAssumption, Zenon DEF ScanInv
<1>6. OneCpuPerContext' /\ RunningIsCurrent' /\ PreemptInv'
  BY Zenon DEF OneCpuPerContext, RunningIsCurrent, PreemptInv
<1> QED
  BY <1>1, <1>2, <1>3, <1>4, <1>5, <1>6, Zenon

\* The start of the scan preserves the inductive invariant.
LEMMA BeginScanStep ==
    ASSUME IInv, NEW cpu \in Cpus, BeginScan(cpu)
    PROVE  IInv'
<1> USE DEF IInv, TypeOK, BeginScan, switchVars, placeVars
<1>1. TypeOK'
  BY SwitchAssumption
<1>2. LockInv'
  BY SwitchAssumption DEF LockInv
<1>3. IdleInv'
  BY SwitchAssumption DEF IdleInv
<1>4. ScanInv'
  BY SwitchAssumption DEF ScanInv, LockInv, IdleInv
<1>5. OneCpuPerContext' /\ RunningIsCurrent' /\ PreemptInv' /\ ReturnInv'
  BY DEF OneCpuPerContext, RunningIsCurrent, PreemptInv, ReturnInv
<1> QED
  BY <1>1, <1>2, <1>3, <1>4, <1>5, Zenon

\* Passing over the idle context preserves the inductive invariant.
LEMMA SkipIdleStep ==
    ASSUME IInv, NEW cpu \in Cpus, SkipIdle(cpu)
    PROVE  IInv'
<1> USE DEF IInv, TypeOK, SkipIdle, IsCandidate, switchVars, placeVars
<1>1. TypeOK'
  BY SwitchAssumption, Zenon
<1>2. ScanInv'
  BY SwitchAssumption DEF ScanInv, LockInv
<1>3. LockInv' /\ OneCpuPerContext' /\ RunningIsCurrent' /\ IdleInv' /\ PreemptInv' /\ ReturnInv'
  BY DEF LockInv, OneCpuPerContext, RunningIsCurrent, IdleInv, PreemptInv, ReturnInv
<1> QED
  BY <1>1, <1>2, <1>3, Zenon

\* Passing over a candidate that is not runnable preserves the inductive invariant.
LEMMA SkipCandidateStep ==
    ASSUME IInv, NEW cpu \in Cpus, NEW c \in Context, SkipCandidate(cpu, c)
    PROVE  IInv'
<1> USE DEF IInv, TypeOK, SkipCandidate, IsCandidate, CanSwitch, switchVars, placeVars
<1>1. TypeOK'
  BY SwitchAssumption, Zenon
<1>2. ScanInv'
  BY SwitchAssumption, Zenon DEF ScanInv, LockInv
<1>3. LockInv' /\ OneCpuPerContext' /\ RunningIsCurrent' /\ IdleInv' /\ PreemptInv' /\ ReturnInv'
  BY DEF LockInv, OneCpuPerContext, RunningIsCurrent, IdleInv, PreemptInv, ReturnInv
<1> QED
  BY <1>1, <1>2, <1>3, Zenon

\* The switch to the context that was found preserves the inductive invariant.
LEMMA SwitchToStep ==
    ASSUME IInv, NEW cpu \in Cpus, NEW c \in Context, SwitchTo(cpu, c)
    PROVE  IInv'
<1> USE DEF IInv, TypeOK, SwitchTo, IsCandidate, CanSwitch, Considered, switchVars, placeVars
<1>1. TypeOK'
  <2>1. wake' \in [Context -> Time \cup {Never}]
    BY Zenon
  <2>2. status' \in [Context -> Status] /\ current' \in [Cpus -> Context]
    BY Zenon DEF Status
  <2>3. running' \in [Context -> BOOLEAN] /\ cpu_id' \in [Context -> Cpus \cup {NoCpu}]
    BY Zenon
  <2>4. guards' \subseteq Context /\ left' \subseteq Context
    BY Zenon
  <2> QED
    BY <2>1, <2>2, <2>3, <2>4, Zenon
<1>2. LockInv'
  BY SwitchAssumption DEF LockInv
<1>3. OneCpuPerContext'
  BY SwitchAssumption DEF OneCpuPerContext, RunningIsCurrent
<1>4. RunningIsCurrent'
  BY SwitchAssumption DEF RunningIsCurrent, OneCpuPerContext
<1>5. IdleInv'
  <2> SUFFICES ASSUME NEW p \in Cpus
               PROVE  /\ Idle[p] \in contexts' /\ status'[Idle[p]] = "Runnable" /\ affinity'[Idle[p]] = {p}
                      /\ \A q \in Cpus : current'[q] = Idle[p] => q = p
                      /\ pc'[p] = "exit" => current'[p] \notin IdleContexts
    BY Zenon DEF IdleInv
  <2>1. /\ Idle[p] \in contexts /\ status[Idle[p]] = "Runnable" /\ affinity[Idle[p]] = {p}
        /\ \A q \in Cpus : current[q] = Idle[p] => q = p
        /\ pc[p] = "exit" => current[p] \notin IdleContexts
    BY Zenon DEF IdleInv
  <2>2. cpu \in affinity[c]
    BY Zenon
  <2>3. status'[Idle[p]] = "Runnable"
    BY <2>1, SwitchAssumption, Zenon
  <2>4. \A q \in Cpus : current'[q] = Idle[p] => q = p
    BY <2>1, <2>2, Zenon
  <2>5. pc'[p] = "exit" => p # cpu /\ pc[p] = "exit"
    BY Zenon
  <2> QED
    BY <2>1, <2>3, <2>4, <2>5, Zenon
<1>6. PreemptInv'
  BY SwitchAssumption, Zenon DEF PreemptInv
<1>7. ReturnInv'
  BY SwitchAssumption DEF ReturnInv, OneCpuPerContext
<1>8. ScanInv'
  <2>1. \A p \in Cpus : pc'[p] # "scan"
    <3>1. lock = cpu
      BY Zenon DEF LockInv
    <3>2. \A p \in Cpus : pc[p] = "scan" => p = cpu
      BY <3>1, Zenon DEF LockInv
    <3> QED
      BY <3>2, Zenon
  <2> QED
    BY <2>1, Zenon DEF ScanInv
<1> QED
  BY <1>1, <1>2, <1>3, <1>4, <1>5, <1>6, <1>7, <1>8, Zenon

\* The return of switch() without a target preserves the inductive invariant.
LEMMA NoTargetStep ==
    ASSUME IInv, NEW cpu \in Cpus, NoTarget(cpu)
    PROVE  IInv'
<1> USE DEF IInv, TypeOK, NoTarget, CanSwitch, Considered, switchVars, placeVars
<1>1. TypeOK'
  BY SwitchAssumption, Zenon
<1>2. LockInv'
  BY SwitchAssumption DEF LockInv
<1>3. IdleInv'
  BY SwitchAssumption DEF IdleInv
<1>4. ReturnInv'
  BY SwitchAssumption DEF ReturnInv, ScanInv, IdleInv, RunningIsCurrent
<1>5. ScanInv'
  BY SwitchAssumption, Zenon DEF ScanInv
<1>6. OneCpuPerContext' /\ RunningIsCurrent' /\ PreemptInv'
  BY Zenon DEF OneCpuPerContext, RunningIsCurrent, PreemptInv
<1> QED
  BY <1>1, <1>2, <1>3, <1>4, <1>5, <1>6, Zenon

\* Dropping the guards in switch_finish_hook preserves the inductive invariant.
LEMMA FinishHookStep ==
    ASSUME IInv, NEW cpu \in Cpus, FinishHook(cpu)
    PROVE  IInv'
<1> USE DEF IInv, TypeOK, FinishHook, switchVars, placeVars
<1>1. TypeOK'
  BY SwitchAssumption, Zenon
<1>2. LockInv'
  BY SwitchAssumption, Zenon DEF LockInv
<1>3. IdleInv'
  BY SwitchAssumption DEF IdleInv
<1>4. ReturnInv'
  BY SwitchAssumption, Zenon DEF ReturnInv
<1>5. ScanInv'
  BY SwitchAssumption, Zenon DEF ScanInv
<1>6. OneCpuPerContext' /\ RunningIsCurrent' /\ PreemptInv'
  BY Zenon DEF OneCpuPerContext, RunningIsCurrent, PreemptInv
<1> QED
  BY <1>1, <1>2, <1>3, <1>4, <1>5, <1>6, Zenon

\* Releasing CONTEXT_SWITCH_LOCK in switch_finish_hook preserves the inductive invariant.
LEMMA FinishUnlockStep ==
    ASSUME IInv, NEW cpu \in Cpus, FinishUnlock(cpu)
    PROVE  IInv'
<1> USE DEF IInv, TypeOK, FinishUnlock, switchVars, placeVars
<1>1. TypeOK'
  BY SwitchAssumption, Zenon
<1>2. LockInv'
  BY SwitchAssumption DEF LockInv
<1>3. IdleInv'
  BY SwitchAssumption DEF IdleInv
<1>4. ReturnInv'
  BY SwitchAssumption DEF ReturnInv
<1>5. ScanInv'
  BY SwitchAssumption, Zenon DEF ScanInv
<1>6. OneCpuPerContext' /\ RunningIsCurrent' /\ PreemptInv'
  BY Zenon DEF OneCpuPerContext, RunningIsCurrent, PreemptInv
<1> QED
  BY <1>1, <1>2, <1>3, <1>4, <1>5, <1>6, Zenon

\* The passing of time preserves the inductive invariant.
LEMMA AdvanceStep == IInv /\ Advance => IInv'
<1> SUFFICES ASSUME IInv, Advance PROVE IInv'
  BY Zenon
<1> USE DEF IInv, TypeOK, Advance, switchVars, placeVars
<1>1. TypeOK'
  BY SwitchAssumption DEF Time
<1>2. LockInv' /\ OneCpuPerContext' /\ RunningIsCurrent'
  BY Zenon DEF LockInv, OneCpuPerContext, RunningIsCurrent
<1>3. IdleInv' /\ PreemptInv'
  BY Zenon DEF IdleInv, PreemptInv
<1>4. ReturnInv' /\ ScanInv'
  BY Zenon DEF ReturnInv, ScanInv
<1> QED
  BY <1>1, <1>2, <1>3, <1>4, Zenon

\* After context::init on every CPU the inductive invariant holds.
LEMMA InitIInv == Init => IInv
<1> SUFFICES ASSUME Init PROVE IInv
  BY Zenon
<1> USE SwitchAssumption DEF Init
<1>1. \A c \in IdleContexts : (CHOOSE cpu \in Cpus : Idle[cpu] = c) \in Cpus
  BY Zenon DEF IdleContexts
<1>2. IdleContexts \subseteq Context /\ \A cpu \in Cpus : Idle[cpu] \in IdleContexts
  BY Zenon DEF IdleContexts, Context
<1>3. TypeOK
  <2>1. cpu_id \in [Context -> Cpus \cup {NoCpu}]
    BY <1>1, Zenon
  <2>2. current \in [Cpus -> Context]
    BY <1>2, Zenon
  <2> QED
    BY <1>2, <2>1, <2>2 DEF TypeOK, Status, Time
<1>4. LockInv /\ OneCpuPerContext /\ PreemptInv /\ ScanInv
  BY <1>2 DEF LockInv, OneCpuPerContext, PreemptInv, ScanInv
<1>5. RunningIsCurrent
  BY <1>2, Zenon DEF RunningIsCurrent, IdleContexts
<1>6. IdleInv
  <2>1. \A cpu \in Cpus : affinity[Idle[cpu]] = {cpu}
    BY <1>2
  <2> QED
    BY <1>2, <2>1, Zenon DEF IdleInv
<1>7. ReturnInv
  BY <1>2, Zenon DEF ReturnInv
<1> QED
  BY <1>3, <1>4, <1>5, <1>6, <1>7, Zenon DEF IInv

\* Every step of the scheduler and of the contexts preserves IInv.
LEMMA NextIInv == IInv /\ [Next]_vars => IInv'
<1> SUFFICES ASSUME IInv, [Next]_vars PROVE IInv'
  BY Zenon
<1>1. CASE UNCHANGED vars
  <2> USE <1>1 DEF vars, IInv
  <2>1. TypeOK'
    BY Zenon DEF TypeOK
  <2>2. LockInv'
    BY Zenon DEF LockInv
  <2>3. OneCpuPerContext'
    BY Zenon DEF OneCpuPerContext
  <2>4. RunningIsCurrent'
    BY Zenon DEF RunningIsCurrent
  <2>5. IdleInv'
    BY Zenon DEF IdleInv
  <2>6. PreemptInv'
    BY Zenon DEF PreemptInv
  <2>7. ReturnInv'
    BY Zenon DEF ReturnInv
  <2>8. ScanInv'
    BY Zenon DEF ScanInv
  <2> QED
    BY <2>1, <2>2, <2>3, <2>4, <2>5, <2>6, <2>7, <2>8, Zenon
<1>2. ASSUME NEW cpu \in Cpus, SwitchStep(cpu) PROVE IInv'
  BY <1>2, BeginRefusedStep, BeginScanStep, SkipIdleStep, SkipCandidateStep, SwitchToStep,
     NoTargetStep, FinishHookStep, FinishUnlockStep, Zenon DEF SwitchStep
<1>3. ASSUME NEW cpu \in Cpus,
             \/ Tick(cpu) \/ Acquire(cpu) \/ PreemptEnter(cpu) \/ PreemptExit(cpu)
             \/ ExitDead(cpu) \/ ExitRemove(cpu)
             \/ \E w \in Time \cup {Never} : Block(cpu, w)
      PROVE  IInv'
  BY <1>3, TickStep, AcquireStep, PreemptEnterStep, PreemptExitStep, ExitDeadStep,
     ExitRemoveStep, BlockStep, Zenon
<1>4. ASSUME NEW cpu \in Cpus, NEW c \in Context,
             \/ Spawn(cpu, c) \/ Start(cpu, c) \/ Unblock(cpu, c)
             \/ \E mask \in Masks : SetAffinity(cpu, c, mask)
      PROVE  IInv'
  BY <1>4, SpawnStep, StartStep, UnblockStep, SetAffinityStep, Zenon
<1> QED
  BY <1>1, <1>2, <1>3, <1>4, AdvanceStep, Zenon DEF Next

\* IInv is an invariant of the scheduler.
THEOREM Invariance == Spec => []IInv
  BY InitIInv, NextIInv, PTL DEF Spec

\* The state of the scheduler is well typed in every reachable state.
THEOREM TypeCorrect == Spec => []TypeOK
<1>1. IInv => TypeOK
  BY Zenon DEF IInv
<1> QED
  BY <1>1, Invariance, PTL

\* Mutual exclusion of switch(): no context is current on two CPUs.
THEOREM MutualExclusion == Spec => []OneCpuPerContext
<1>1. IInv => OneCpuPerContext
  BY Zenon DEF IInv
<1> QED
  BY <1>1, Invariance, PTL

\* The flag that update_runnable trusts is exact.
THEOREM RunningFlagExact == Spec => []RunningIsCurrent
<1>1. IInv => RunningIsCurrent
  BY Zenon DEF IInv
<1> QED
  BY <1>1, Invariance, PTL

\* switch() never returns into a context that is blocked or dead.
THEOREM ReturnsRunnable == Spec => []SwitchReturnsRunnable
<1>1. IInv => SwitchReturnsRunnable
  BY Zenon DEF IInv, ReturnInv, SwitchReturnsRunnable
<1> QED
  BY <1>1, Invariance, PTL

\* PreemptGuard and the affinity mask are respected by every switch.
THEOREM GuardsAndMasksRespected == Spec => LeavesAndEnters
<1> DEFINE A == \A cpu \in Cpus : current'[cpu] # current[cpu] =>
                  /\ preempt[current[cpu]] = 0
                  /\ cpu \in affinity[current'[cpu]]
<1>1. ASSUME IInv, Next PROVE A
  <2>1. ASSUME NEW cpu \in Cpus, NEW c \in Context, SwitchTo(cpu, c) PROVE A
    BY <1>1, <2>1, Zenon DEF IInv, TypeOK, ScanInv, SwitchTo, CanSwitch, Considered
  <2>2. CASE UNCHANGED current
    BY <2>2, Zenon
  <2>3. Next => \/ UNCHANGED current
                \/ \E cpu \in Cpus, c \in Context : SwitchTo(cpu, c)
    <3> USE DEF placeVars
    <3>1. ASSUME NEW cpu \in Cpus, SwitchStep(cpu)
          PROVE  UNCHANGED current \/ \E c \in Context : SwitchTo(cpu, c)
      BY <3>1, Zenon DEF SwitchStep, BeginRefused, BeginScan, SkipIdle, SkipCandidate, NoTarget,
                  FinishHook, FinishUnlock
    <3>2. \A cpu \in Cpus : Tick(cpu) \/ Acquire(cpu) \/ PreemptEnter(cpu) \/ PreemptExit(cpu) => UNCHANGED current
      BY Zenon DEF Tick, Acquire, PreemptEnter, PreemptExit
    <3>3. \A cpu \in Cpus : ExitDead(cpu) \/ ExitRemove(cpu) => UNCHANGED current
      BY Zenon DEF ExitDead, ExitRemove
    <3>4. \A cpu \in Cpus : \A w \in Time \cup {Never} : Block(cpu, w) => UNCHANGED current
      BY Zenon DEF Block
    <3>5. \A cpu \in Cpus, c \in Context : Spawn(cpu, c) \/ Start(cpu, c) \/ Unblock(cpu, c) => UNCHANGED current
      BY Zenon DEF Spawn, Start, Unblock
    <3>6. \A cpu \in Cpus, c \in Context : \A mask \in Masks : SetAffinity(cpu, c, mask) => UNCHANGED current
      BY Zenon DEF SetAffinity
    <3>7. Advance => UNCHANGED current
      BY Zenon DEF Advance
    <3> QED
      BY <3>1, <3>2, <3>3, <3>4, <3>5, <3>6, <3>7, Zenon DEF Next
  <2> QED
    BY <1>1, <2>1, <2>2, <2>3, Zenon
<1>2. IInv /\ [Next]_vars => [A]_vars
  BY <1>1, Zenon
<1> QED
  BY <1>2, Invariance, PTL DEF Spec, LeavesAndEnters

-----------------------------------------------------------------------------
(* Contexts and those who control them: ProcControl.                        *)

CONSTANTS ct_Controllers, ct_Targets, ct_Verbs, ct_Cpus, ct_None
VARIABLES ct_status, ct_running, ct_sigkilled, ct_contexts, ct_seen, ct_pending, ct_sent, ct_pc,
          ct_target, ct_prev_status

Control == INSTANCE ProcControl WITH
    Controllers <- ct_Controllers, Targets <- ct_Targets, Verbs <- ct_Verbs, Cpus <- ct_Cpus,
    None <- ct_None, status <- ct_status, running <- ct_running, sigkilled <- ct_sigkilled,
    contexts <- ct_contexts, seen <- ct_seen, pending <- ct_pending, sent <- ct_sent, pc <- ct_pc,
    target <- ct_target, prev_status <- ct_prev_status

\* The types of the state.
ControlTypes ==
    /\ ct_status \in [Control!Context -> Control!Status] /\ ct_running \in [Control!Context -> BOOLEAN]
    /\ ct_sigkilled \in [Control!Context -> BOOLEAN] /\ ct_seen \in [Control!Context -> BOOLEAN]
    /\ ct_contexts \subseteq Control!Context
    /\ ct_pending \in [Control!Context -> BOOLEAN] /\ ct_sent \in [Control!Context -> BOOLEAN]
    /\ ct_pc \in [Control!Context -> Control!PC] /\ ct_target \in [Control!Context -> ct_Targets \cup {ct_None}]
    /\ ct_prev_status \in [Control!Context -> Control!Status]

\* Nothing puts a context to sleep: it is not blocked, and no try_stop_context will make
\* it so again.
StaysAwake(c) ==
    /\ ct_status[c] # "Blocked"
    /\ \A a \in Control!Context : ct_target[a] = c => ct_prev_status[a] # "Blocked"

\* Whom an Interrupt has reached in WaitCondition::wait stays awake; who does not run is
\* inside switch(); who has exited is not in CONTEXTS; only controllers have a target.
ControlledOK(c) ==
    /\ ct_sent[c] => ct_pending[c] /\ (ct_pc[c] = "wait" => StaysAwake(c))
    /\ ~ct_running[c] => ct_pc[c] \in Control!InSwitch
    /\ ct_pc[c] = "exited" => c \notin ct_contexts
    /\ ct_target[c] # ct_None => c \in ct_Controllers

\* The inductive invariant.
ControlInv == ControlTypes /\ \A c \in Control!Context : ControlledOK(c)

\* The timer interrupt of a running context preserves ControlInv.
LEMMA ControlTickKeeps == ASSUME ControlInv, NEW c \in Control!Context, Control!Tick(c) PROVE ControlInv'
<1> USE DEF Control!Tick, Control!stopVars, Control!killVars, Control!sigVars
<1>1. ControlTypes'
  BY DEF ControlInv, ControlTypes, Control!PC
<1>2. ASSUME NEW d \in Control!Context PROVE ControlledOK(d)'
  BY DEF ControlInv, ControlledOK, StaysAwake
<1> QED
  BY <1>1, <1>2, Zenon DEF ControlInv

\* Leaving a context in switch() preserves ControlInv.
LEMMA ControlLeaveKeeps == ASSUME ControlInv, NEW c \in Control!Context, Control!Leave(c) PROVE ControlInv'
<1> USE DEF Control!Leave, Control!stopVars, Control!killVars, Control!sigVars
<1>1. ControlTypes'
  BY DEF ControlInv, ControlTypes
<1>2. ASSUME NEW d \in Control!Context PROVE ControlledOK(d)'
  BY DEF ControlInv, ControlledOK, StaysAwake
<1> QED
  BY <1>1, <1>2, Zenon DEF ControlInv

\* The choice of a context in switch() preserves ControlInv.
LEMMA ControlDispatchKeeps ==
    ASSUME ControlInv, NEW c \in Control!Context, Control!Dispatch(c)
    PROVE  ControlInv'
<1> USE DEF Control!Dispatch, Control!stopVars, Control!sigVars, Control!Resumed
<1>1. ControlTypes'
  BY DEF ControlInv, ControlTypes, Control!PC
<1>2. ASSUME NEW d \in Control!Context PROVE ControlledOK(d)'
  BY DEF ControlInv, ControlledOK, ControlTypes, StaysAwake, Control!InSwitch
<1> QED
  BY <1>1, <1>2, Zenon DEF ControlInv

\* signal_handler, which acts on being_sigkilled, preserves ControlInv.
LEMMA ControlSignalHandlerKeeps ==
    ASSUME ControlInv, NEW c \in Control!Context, Control!SignalHandler(c)
    PROVE  ControlInv'
<1> USE DEF Control!SignalHandler, Control!stopVars, Control!killVars, Control!sigVars
<1>1. ControlTypes'
  BY DEF ControlInv, ControlTypes, Control!PC
<1>2. ASSUME NEW d \in Control!Context PROVE ControlledOK(d)'
  BY DEF ControlInv, ControlledOK, StaysAwake
<1> QED
  BY <1>1, <1>2, Zenon DEF ControlInv

\* WaitCondition::wait, which looks for signals and blocks, preserves ControlInv.
LEMMA ControlWaitBlockKeeps ==
    ASSUME ControlInv, NEW c \in Control!Context, Control!WaitBlock(c)
    PROVE  ControlInv'
<1> USE DEF Control!WaitBlock, Control!stopVars, Control!killVars, Control!sigVars
<1>1. ControlTypes'
  BY DEF ControlInv, ControlTypes, Control!Status, Control!PC
<1>2. ASSUME NEW d \in Control!Context PROVE ControlledOK(d)'
  BY DEF ControlInv, ControlledOK, StaysAwake
<1> QED
  BY <1>1, <1>2, Zenon DEF ControlInv

\* The block of UserInner::call, which does not look for signals, preserves ControlInv.
LEMMA ControlCallBlockKeeps ==
    ASSUME ControlInv, NEW c \in Control!Context, Control!CallBlock(c)
    PROVE  ControlInv'
<1> USE DEF Control!CallBlock, Control!stopVars, Control!killVars, Control!sigVars
<1>1. ControlTypes'
  BY DEF ControlInv, ControlTypes, Control!Status, Control!PC
<1>2. ASSUME NEW d \in Control!Context PROVE ControlledOK(d)'
  BY DEF ControlInv, ControlledOK, StaysAwake
<1> QED
  BY <1>1, <1>2, Zenon DEF ControlInv

\* The block of UserInner::call after a wake-up without an answer preserves ControlInv.
LEMMA ControlCallAgainKeeps ==
    ASSUME ControlInv, NEW c \in Control!Context, Control!CallAgain(c)
    PROVE  ControlInv'
<1> USE DEF Control!CallAgain, Control!stopVars, Control!killVars, Control!sigVars
<1>1. ControlTypes'
  BY DEF ControlInv, ControlTypes, Control!Status, Control!PC
<1>2. ASSUME NEW d \in Control!Context PROVE ControlledOK(d)'
  BY DEF ControlInv, ControlledOK, StaysAwake
<1> QED
  BY <1>1, <1>2, Zenon DEF ControlInv

\* The return of UserInner::call preserves ControlInv.
LEMMA ControlCallAnsweredKeeps ==
    ASSUME ControlInv, NEW c \in Control!Context, Control!CallAnswered(c)
    PROVE  ControlInv'
<1> USE DEF Control!CallAnswered, Control!stopVars, Control!killVars, Control!sigVars
<1>1. ControlTypes'
  BY DEF ControlInv, ControlTypes, Control!PC
<1>2. ASSUME NEW d \in Control!Context PROVE ControlledOK(d)'
  BY DEF ControlInv, ControlledOK, StaysAwake
<1> QED
  BY <1>1, <1>2, Zenon DEF ControlInv

\* Context::unblock by a notification preserves ControlInv.
LEMMA ControlUnblockKeeps ==
    ASSUME ControlInv, NEW c \in Control!Context, Control!Unblock(c)
    PROVE  ControlInv'
<1> USE DEF Control!Unblock, Control!stopVars, Control!killVars, Control!sigVars
<1>1. ControlTypes'
  BY DEF ControlInv, ControlTypes, Control!Status
<1>2. ASSUME NEW d \in Control!Context PROVE ControlledOK(d)'
  BY DEF ControlInv, ControlledOK, StaysAwake
<1> QED
  BY <1>1, <1>2, Zenon DEF ControlInv

\* The store of a pending signal in the control page preserves ControlInv.
LEMMA ControlSignalSetKeeps ==
    ASSUME ControlInv, NEW c \in Control!Context, Control!SignalSet(c)
    PROVE  ControlInv'
<1> USE DEF Control!SignalSet, Control!stopVars, Control!killVars
<1>1. ControlTypes'
  BY DEF ControlInv, ControlTypes
<1>2. ASSUME NEW d \in Control!Context PROVE ControlledOK(d)'
  BY DEF ControlInv, ControlledOK, StaysAwake
<1> QED
  BY <1>1, <1>2, Zenon DEF ControlInv

\* The end of a signal in user code preserves ControlInv.
LEMMA ControlSignalHandledKeeps ==
    ASSUME ControlInv, NEW c \in Control!Context, Control!SignalHandled(c)
    PROVE  ControlInv'
<1> USE DEF Control!SignalHandled, Control!stopVars, Control!killVars
<1>1. ControlTypes'
  BY DEF ControlInv, ControlTypes
<1>2. ASSUME NEW d \in Control!Context PROVE ControlledOK(d)'
  BY DEF ControlInv, ControlledOK, ControlTypes, StaysAwake
<1> QED
  BY <1>1, <1>2, Zenon DEF ControlInv

\* The begin of exit_this_context preserves ControlInv.
LEMMA ControlExitSelfKeeps ==
    ASSUME ControlInv, NEW c \in Control!Context, Control!ExitSelf(c)
    PROVE  ControlInv'
<1> USE DEF Control!ExitSelf, Control!stopVars, Control!killVars, Control!sigVars
<1>1. ControlTypes'
  BY DEF ControlInv, ControlTypes, Control!PC
<1>2. ASSUME NEW d \in Control!Context PROVE ControlledOK(d)'
  BY DEF ControlInv, ControlledOK, StaysAwake
<1> QED
  BY <1>1, <1>2, Zenon DEF ControlInv

\* The closing of the files of an exiting context preserves ControlInv.
LEMMA ControlExitClosingKeeps ==
    ASSUME ControlInv, NEW c \in Control!Context, Control!ExitClosing(c)
    PROVE  ControlInv'
<1> USE DEF Control!ExitClosing, Control!stopVars, Control!killVars, Control!sigVars
<1>1. ControlTypes'
  BY DEF ControlInv, ControlTypes, Control!Status, Control!PC
<1>2. ASSUME NEW d \in Control!Context PROVE ControlledOK(d)'
  BY DEF ControlInv, ControlledOK, StaysAwake
<1> QED
  BY <1>1, <1>2, Zenon DEF ControlInv

\* The status Dead of an exiting context preserves ControlInv.
LEMMA ControlExitDeadKeeps ==
    ASSUME ControlInv, NEW c \in Control!Context, Control!ExitDead(c)
    PROVE  ControlInv'
<1> USE DEF Control!ExitDead, Control!stopVars, Control!killVars, Control!sigVars
<1>1. ControlTypes'
  BY DEF ControlInv, ControlTypes, Control!Status, Control!PC
<1>2. ASSUME NEW d \in Control!Context PROVE ControlledOK(d)'
  BY DEF ControlInv, ControlledOK, StaysAwake
<1> QED
  BY <1>1, <1>2, Zenon DEF ControlInv

\* The removal from CONTEXTS preserves ControlInv.
LEMMA ControlExitRemoveKeeps ==
    ASSUME ControlInv, NEW c \in Control!Context, Control!ExitRemove(c)
    PROVE  ControlInv'
<1> USE DEF Control!ExitRemove, Control!stopVars, Control!killVars, Control!sigVars
<1>1. ControlTypes'
  BY DEF ControlInv, ControlTypes, Control!PC
<1>2. ASSUME NEW d \in Control!Context PROVE ControlledOK(d)'
  BY DEF ControlInv, ControlledOK, StaysAwake
<1> QED
  BY <1>1, <1>2, Zenon DEF ControlInv

\* A look of try_stop_context at a context that may still run preserves ControlInv.
LEMMA ControlTryStopCheckKeeps ==
    ASSUME ControlInv, NEW c \in Control!Context, Control!TryStopCheck(c)
    PROVE  ControlInv'
<1> USE DEF Control!TryStopCheck, Control!stopVars, Control!killVars, Control!sigVars
<1>1. ControlTypes'
  BY DEF ControlInv, ControlTypes, Control!PC
<1>2. ASSUME NEW d \in Control!Context PROVE ControlledOK(d)'
  BY DEF ControlInv, ControlledOK, StaysAwake
<1> QED
  BY <1>1, <1>2, Zenon DEF ControlInv

\* The callback of try_stop_context, which puts the status back, preserves ControlInv.
LEMMA ControlTryStopApplyKeeps ==
    ASSUME ControlInv, NEW c \in Control!Context, Control!TryStopApply(c)
    PROVE  ControlInv'
<1> USE DEF Control!TryStopApply, Control!killVars, Control!sigVars, Control!Returned
<1>1. ControlTypes'
  BY DEF ControlInv, ControlTypes, Control!Status, Control!PC
<1>2. ASSUME NEW d \in Control!Context PROVE ControlledOK(d)'
  BY DEF ControlInv, ControlledOK, ControlTypes, StaysAwake
<1> QED
  BY <1>1, <1>2, Zenon DEF ControlInv

\* A write to the start handle preserves ControlInv.
LEMMA ControlStartKeeps ==
    ASSUME ControlInv, NEW a \in ct_Controllers, NEW c \in ct_Targets \ {a}, Control!Start(a, c)
    PROVE  ControlInv'
<1> USE DEF Control!Start, Control!stopVars, Control!killVars, Control!sigVars, Control!Calls,
   Control!Returned
<1>1. ControlTypes'
  BY DEF ControlInv, ControlTypes, Control!Status, Control!PC
<1>2. ASSUME NEW d \in Control!Context PROVE ControlledOK(d)'
  BY DEF ControlInv, ControlledOK, StaysAwake
<1> QED
  BY <1>1, <1>2, Zenon DEF ControlInv

\* ContextVerb::Stop preserves ControlInv.
LEMMA ControlStopKeeps ==
    ASSUME ControlInv, NEW a \in ct_Controllers, NEW c \in ct_Targets \ {a}, Control!Stop(a, c)
    PROVE  ControlInv'
<1> USE DEF Control!Stop, Control!stopVars, Control!killVars, Control!sigVars, Control!Calls,
   Control!Returned
<1>1. ControlTypes'
  BY DEF ControlInv, ControlTypes, Control!Status, Control!PC
<1>2. ASSUME NEW d \in Control!Context PROVE ControlledOK(d)'
  BY DEF ControlInv, ControlledOK, StaysAwake
<1> QED
  BY <1>1, <1>2, Zenon DEF ControlInv

\* ContextVerb::Unstop preserves ControlInv.
LEMMA ControlUnstopKeeps ==
    ASSUME ControlInv, NEW a \in ct_Controllers, NEW c \in ct_Targets \ {a}, Control!Unstop(a, c)
    PROVE  ControlInv'
<1> USE DEF Control!Unstop, Control!stopVars, Control!killVars, Control!sigVars, Control!Calls,
   Control!Returned
<1>1. ControlTypes'
  BY DEF ControlInv, ControlTypes, Control!Status, Control!PC
<1>2. ASSUME NEW d \in Control!Context PROVE ControlledOK(d)'
  BY DEF ControlInv, ControlledOK, StaysAwake
<1> QED
  BY <1>1, <1>2, Zenon DEF ControlInv

\* ContextVerb::Interrupt preserves ControlInv.
LEMMA ControlInterruptKeeps ==
    ASSUME Control!ProcControlAssumption, ControlInv, NEW a \in ct_Controllers,
           NEW c \in ct_Targets \ {a}, Control!Interrupt(a, c)
    PROVE  ControlInv'
<1> USE DEF Control!Interrupt, Control!stopVars, Control!killVars, Control!Calls, Control!Returned
<1>1. ControlTypes'
  BY DEF ControlInv, ControlTypes, Control!Status, Control!PC
<1>2. ASSUME NEW d \in Control!Context PROVE ControlledOK(d)'
  BY DEF Control!ProcControlAssumption, ControlInv, ControlledOK, ControlTypes, StaysAwake
<1> QED
  BY <1>1, <1>2, Zenon DEF ControlInv

\* ContextVerb::ForceKill preserves ControlInv.
LEMMA ControlForceKillKeeps ==
    ASSUME ControlInv, NEW a \in ct_Controllers, NEW c \in ct_Targets \ {a}, Control!ForceKill(a, c)
    PROVE  ControlInv'
<1> USE DEF Control!ForceKill, Control!stopVars, Control!sigVars, Control!Calls, Control!Returned
<1>1. ControlTypes'
  BY DEF ControlInv, ControlTypes, Control!Status, Control!PC
<1>2. ASSUME NEW d \in Control!Context PROVE ControlledOK(d)'
  BY DEF ControlInv, ControlledOK, StaysAwake
<1> QED
  BY <1>1, <1>2, Zenon DEF ControlInv

\* The entry of try_stop_context, which hard-blocks its target, preserves ControlInv.
LEMMA ControlTryStopKeeps ==
    ASSUME ControlInv, NEW a \in ct_Controllers, NEW c \in ct_Targets \ {a}, Control!TryStop(a, c)
    PROVE  ControlInv'
<1> USE DEF Control!TryStop, Control!killVars, Control!sigVars, Control!Calls
<1>1. ControlTypes'
  BY DEF ControlInv, ControlTypes, Control!Status, Control!PC, Control!Context
<1>2. ASSUME NEW d \in Control!Context PROVE ControlledOK(d)'
  BY DEF ControlInv, ControlledOK, ControlTypes, StaysAwake
<1> QED
  BY <1>1, <1>2, Zenon DEF ControlInv

\* All contexts start runnable or stopped, and without signals.
LEMMA ControlInitially == ASSUME Control!ProcControlAssumption, Control!Init PROVE ControlInv
  BY DEF Control!Init, ControlInv, ControlledOK, ControlTypes, Control!Status, Control!PC, Control!InSwitch

\* Every step of the contexts and of those who control them preserves ControlInv.
LEMMA ControlNext ==
    ASSUME Control!ProcControlAssumption, ControlInv, [Control!Next]_Control!vars
    PROVE  ControlInv'
<1>1. ASSUME NEW c \in Control!Context, Control!Tick(c) \/ Control!Dispatch(c) \/ Control!Kernel(c)
      PROVE  ControlInv'
  BY <1>1, ControlTickKeeps, ControlDispatchKeeps, ControlLeaveKeeps, ControlSignalHandlerKeeps,
     ControlExitDeadKeeps, ControlExitRemoveKeeps, ControlCallAgainKeeps, ControlCallAnsweredKeeps,
     ControlTryStopCheckKeeps, ControlTryStopApplyKeeps, Zenon DEF Control!Kernel
<1>2. ASSUME NEW c \in Control!Context,
             \/ Control!WaitBlock(c) \/ Control!CallBlock(c) \/ Control!Unblock(c) \/ Control!SignalSet(c)
             \/ Control!SignalHandled(c) \/ Control!ExitSelf(c) \/ Control!ExitClosing(c)
      PROVE  ControlInv'
  BY <1>2, ControlWaitBlockKeeps, ControlCallBlockKeeps, ControlUnblockKeeps, ControlSignalSetKeeps, ControlSignalHandledKeeps,
     ControlExitSelfKeeps,
     ControlExitClosingKeeps, Zenon
<1>3. ASSUME NEW a \in ct_Controllers, NEW c \in ct_Targets \ {a},
             \/ Control!Start(a, c) \/ Control!Stop(a, c) \/ Control!Unstop(a, c) \/ Control!Interrupt(a, c)
             \/ Control!ForceKill(a, c) \/ Control!TryStop(a, c)
      PROVE  ControlInv'
  BY <1>3, ControlStartKeeps, ControlStopKeeps, ControlUnstopKeeps, ControlInterruptKeeps,
     ControlForceKillKeeps, ControlTryStopKeeps, Zenon
<1>4. CASE UNCHANGED Control!vars
  BY <1>4, Zenon DEF Control!vars, ControlInv, ControlledOK, ControlTypes, StaysAwake
<1> QED
  BY <1>1, <1>2, <1>3, <1>4, Zenon DEF Control!Next

\* ControlInv holds whatever contexts and controllers do to each other.
THEOREM ControlInvariant == ASSUME Control!ProcControlAssumption PROVE Control!Spec => []ControlInv
  BY ControlInitially, ControlNext, PTL DEF Control!Spec

\* SignalledIsNotBlocked of ProcControl: once the sender has done its Interrupt, the
\* context does not sleep in WaitCondition::wait with the signal pending, for any
\* contexts, targets and controllers.  The comment in signal_handler says it of every
\* sleep; UserInner::call, which checks for no signals, is left out.
THEOREM SignalledIsNotBlockedAlways ==
    ASSUME Control!ProcControlAssumption
    PROVE  Control!Spec => []Control!SignalledIsNotBlocked
<1>1. ControlInv => Control!SignalledIsNotBlocked
  BY Zenon DEF ControlInv, ControlledOK, Control!SignalledIsNotBlocked, StaysAwake
<1> QED
  BY <1>1, ControlInvariant, PTL

\* exit_this_context is final: no step takes a context out of its end or puts it back into
\* CONTEXTS.
ExitIsFinal == [][\A c \in Control!Context : ct_pc[c] = "exited" => ct_pc'[c] = "exited" /\ c \notin ct_contexts']_Control!vars

\* No verb of the proc scheme brings back a context that has exited.
LEMMA ExitStays == ASSUME ControlInv, [Control!Next]_Control!vars, NEW d \in Control!Context,
       ct_pc[d] = "exited"
                   PROVE  ct_pc'[d] = "exited" /\ d \notin ct_contexts'
<1>1. ASSUME NEW c \in Control!Context, Control!Tick(c) \/ Control!Dispatch(c) \/ Control!Kernel(c)
      PROVE  ct_pc'[d] = "exited" /\ d \notin ct_contexts'
  BY <1>1 DEF Control!Tick, Control!Dispatch, Control!Kernel, Control!Leave, Control!SignalHandler,
     Control!ExitDead, Control!ExitRemove, Control!CallAgain, Control!CallAnswered, Control!TryStopCheck,
     Control!TryStopApply, Control!Returned, ControlInv, ControlledOK, ControlTypes
<1>2. ASSUME NEW c \in Control!Context,
             \/ Control!WaitBlock(c) \/ Control!CallBlock(c) \/ Control!Unblock(c) \/ Control!SignalSet(c)
             \/ Control!SignalHandled(c) \/ Control!ExitSelf(c) \/ Control!ExitClosing(c)
      PROVE  ct_pc'[d] = "exited" /\ d \notin ct_contexts'
  BY <1>2 DEF Control!WaitBlock, Control!CallBlock, Control!Unblock, Control!SignalSet, Control!SignalHandled,
     Control!ExitSelf, Control!ExitClosing, ControlInv, ControlledOK,
     ControlTypes
<1>3. ASSUME NEW a \in ct_Controllers, NEW c \in ct_Targets \ {a},
             \/ Control!Start(a, c) \/ Control!Stop(a, c) \/ Control!Unstop(a, c) \/ Control!Interrupt(a, c)
             \/ Control!ForceKill(a, c) \/ Control!TryStop(a, c)
      PROVE  ct_pc'[d] = "exited" /\ d \notin ct_contexts'
  BY <1>3 DEF Control!Start, Control!Stop, Control!Unstop, Control!Interrupt, Control!ForceKill,
     Control!TryStop, Control!Calls, Control!Returned, ControlInv, ControlledOK,
     ControlTypes
<1>4. CASE UNCHANGED Control!vars
  BY <1>4, Zenon DEF Control!vars, ControlInv, ControlledOK
<1> QED
  BY <1>1, <1>2, <1>3, <1>4, Zenon DEF Control!Next

\* exit_this_context is final: ForceKill, Start, Unstop and try_stop_context may write the
\* status of a dead context, but it never runs again and never returns to CONTEXTS.
THEOREM ExitIsFinalAlways == ASSUME Control!ProcControlAssumption PROVE Control!Spec => ExitIsFinal
<1>1. ControlInv /\ [Control!Next]_Control!vars => \A c \in Control!Context : ct_pc[c] = "exited" => ct_pc'[c] = "exited" /\ c \notin ct_contexts'
  BY ExitStays, Zenon
<1> QED
  BY <1>1, ControlInvariant, PTL DEF Control!Spec, ExitIsFinal

-----------------------------------------------------------------------------
(* Handles of the proc scheme on address spaces and file tables: ProcHandles.*)

CONSTANTS ph_Threads, ph_Openers, ph_Children, ph_Spaces, ph_Tables, ph_MaxId, ph_PathSets, ph_None
VARIABLES ph_handles, ph_next_id, ph_lock, ph_status, ph_running, ph_space, ph_regs, ph_files,
          ph_pc, ph_call, ph_arc, ph_closing, ph_closed, ph_made, ph_panicked, ph_paths

Procs == INSTANCE ProcHandles WITH
    Threads <- ph_Threads, Openers <- ph_Openers, Children <- ph_Children, Spaces <- ph_Spaces,
    Tables <- ph_Tables, MaxId <- ph_MaxId, PathSets <- ph_PathSets, None <- ph_None,
    handles <- ph_handles, next_id <- ph_next_id, lock <- ph_lock, status <- ph_status,
    running <- ph_running, space <- ph_space, regs <- ph_regs, files <- ph_files, pc <- ph_pc,
    call <- ph_call, arc <- ph_arc, closing <- ph_closing, closed <- ph_closed, made <- ph_made,
    panicked <- ph_panicked, paths <- ph_paths

\* The kinds of handles.
HandleKinds == {"None", "Authority", "OpenViaDup", "AddrSpace", "Filetable", "NewFiletable",
   "CurrentAddrSpace", "CurrentFiletable", "Start", "AwaitingAddrSpaceChange", "AwaitingFiletableChange"}
\* The statuses of contexts.
ProcStatuses == {"None", "Runnable", "NotYetStarted", "Dead"}
\* The places where a context is.
ProcPlaces == {"user", "copy", "CurrentAddrSpace", "CurrentFiletable", "loop", "apply", "exit", "exited"}

\* The handles.
ProcHandleSet == [kind : HandleKinds, context : Procs!Contexts \cup {"None"},
   space : ph_Spaces \cup {ph_None}, table : ph_Tables \cup {ph_None}]
\* What a call keeps between its steps.
ProcCalls == [id : Procs!Ids \cup {ph_None}, number : Procs!Ids \cup {ph_None},
   context : Procs!Contexts \cup {"None"}, prev : ProcStatuses, space : ph_Spaces \cup {ph_None}]

\* The types of the state.
ProcTypes ==
    /\ ph_handles \in [Procs!Ids -> ProcHandleSet]
    /\ ph_status \in [Procs!Contexts -> ProcStatuses] /\ ph_running \in [Procs!Contexts -> BOOLEAN]
    /\ ph_space \in [Procs!Contexts -> ph_Spaces \cup {ph_None}] /\ ph_regs \in [Procs!Contexts -> ph_Spaces \cup {ph_None}]
    /\ ph_files \in [Procs!Contexts -> ph_Tables \cup {ph_None}] /\ ph_arc \in [Procs!Contexts -> ph_Tables \cup {ph_None}]
    /\ ph_closing \in [Procs!Contexts -> ph_Tables \cup {ph_None}]
    /\ ph_pc \in [Procs!Contexts -> ProcPlaces]
    /\ ph_call \in [Procs!Contexts -> ProcCalls]

\* A context, a call or a handle has an Arc of the table.
TableHeld(t) ==
    \/ \E c \in Procs!Contexts : ph_files[c] = t \/ ph_arc[c] = t
    \/ \E i \in Procs!Ids : ph_handles[i].kind \in Procs!Strong /\ ph_handles[i].table = t

\* force_close_all has the table, or had it.
TableFinished(t) == t \in ph_closed \/ \E c \in Procs!Contexts : ph_closing[c] = t

\* A table that is being closed has no Arc left; what is referred to, even weakly, was made.
TableOK(t) ==
    /\ TableFinished(t) => ~TableHeld(t) /\ t \in ph_made
    /\ TableHeld(t) \/ (\E i \in Procs!Ids : ph_handles[i].table = t) => t \in ph_made

\* c is a context that was made.
ContextExists(c) == c \in Procs!Contexts /\ ph_status[c] # "None"

\* A context has no registers yet or those of its address space, unless it is exiting; who
\* does not exist does not run; a call has found what it works on.
ProcContextOK(c) ==
    /\ ph_regs[c] \in {ph_None, ph_space[c]} \/ ph_pc[c] \in {"exit", "exited"} \/ ph_closing[c] # ph_None
    /\ ph_closing[c] # ph_None => ph_pc[c] \in {"exit", "loop", "apply"}
    /\ ph_status[c] = "None" => ph_regs[c] = ph_None /\ ~ph_running[c]
    /\ ph_pc[c] \notin {"user", "exit", "exited"} => ContextExists(ph_call[c].context)
    /\ ph_pc[c] \in {"loop", "apply"} => ph_call[c].prev # "None"
    /\ ph_pc[c] \in {"CurrentAddrSpace",
       "CurrentFiletable"} => ph_call[c].id \in Procs!Ids /\ ph_call[c].number \in Procs!Ids

\* A handle stands for a context that was made.
ProcHandleOK(i) == ph_handles[i].kind # "None" => ContextExists(ph_handles[i].context)

\* The inductive invariant.
ProcInv ==
    /\ ProcTypes
    /\ \A t \in ph_Tables : TableOK(t)
    /\ \A c \in Procs!Contexts : ProcContextOK(c)
    /\ \A i \in Procs!Ids : ProcHandleOK(i)

\* The strong count of a table, Holders, is zero exactly when nobody has it.
LEMMA HoldersAreHeld == ASSUME NEW t PROVE Procs!Holders(t) # {} <=> TableHeld(t)
  BY Zenon DEF Procs!Holders, TableHeld

\* Where Arc::try_unwrap sees a count of one, nobody else has the table.
LEMMA LastHolderLeaves ==
    ASSUME NEW t, NEW c \in Procs!Contexts, Procs!Holders(t) = {<<"context", c>>}
    PROVE  /\ \A d \in Procs!Contexts : ph_arc[d] # t /\ (d # c => ph_files[d] # t)
           /\ \A i \in Procs!Ids : ~(ph_handles[i].kind \in Procs!Strong /\ ph_handles[i].table = t)
<1>1. \A d \in Procs!Contexts : ph_files[d] = t => <<"context", d>> \in Procs!Holders(t)
  BY Zenon DEF Procs!Holders
<1>2. \A d \in Procs!Contexts : ph_arc[d] = t => <<"call", d>> \in Procs!Holders(t)
  BY Zenon DEF Procs!Holders
<1>3. \A i \in Procs!Ids : ph_handles[i].kind \in Procs!Strong /\ ph_handles[i].table = t => <<"handle",
         i>> \in Procs!Holders(t)
  BY Zenon DEF Procs!Holders
<1> QED
  BY <1>1, <1>2, <1>3, Zenon

\* The dispatch of a runnable context preserves ProcInv.
LEMMA ProcDispatchKeeps ==
    ASSUME Procs!ProcHandlesAssumption, ProcInv, NEW c \in Procs!Contexts, Procs!Dispatch(c)
    PROVE  ProcInv'
<1> USE DEF Procs!Dispatch, Procs!ctxVars, Procs!tableVars
<1>1. ProcTypes'
  BY Zenon DEF ProcInv, ProcTypes
<1>2. ASSUME NEW t \in ph_Tables PROVE TableOK(t)'
  BY Zenon DEF ProcInv, TableOK, TableFinished, TableHeld
<1>3. ASSUME NEW d \in Procs!Contexts PROVE ProcContextOK(d)'
  <2>1. /\ ph_regs' = ph_regs /\ ph_space' = ph_space /\ ph_pc' = ph_pc /\ ph_closing' = ph_closing
        /\ ph_status' = ph_status /\ ph_call' = ph_call
    BY Zenon
  <2>2. ph_running \in [Procs!Contexts -> BOOLEAN]
    BY Zenon DEF ProcInv, ProcTypes
  <2>3. ProcContextOK(d)
    BY Zenon DEF ProcInv
  <2>4. ph_status[d] = "None" => ~ph_running'[d]
    BY <2>2, <2>3, Zenon DEF ProcContextOK
  <2> HIDE DEF Procs!Dispatch
  <2> QED
    BY <2>1, <2>3, <2>4, Zenon DEF ProcContextOK, ContextExists
<1>4. ASSUME NEW j \in Procs!Ids PROVE ProcHandleOK(j)'
  BY Zenon DEF ProcInv, ProcHandleOK, ContextExists
<1> QED
  BY <1>1, <1>2, <1>3, <1>4, Zenon DEF ProcInv

\* Leaving a context in switch() preserves ProcInv.
LEMMA ProcLeaveKeeps ==
    ASSUME Procs!ProcHandlesAssumption, ProcInv, NEW c \in Procs!Contexts, Procs!Leave(c)
    PROVE  ProcInv'
<1> USE DEF Procs!Leave, Procs!ctxVars, Procs!tableVars
<1>1. ProcTypes'
  BY Zenon DEF ProcInv, ProcTypes
<1>2. ASSUME NEW t \in ph_Tables PROVE TableOK(t)'
  BY Zenon DEF ProcInv, TableOK, TableFinished, TableHeld
<1>3. ASSUME NEW d \in Procs!Contexts PROVE ProcContextOK(d)'
  <2>1. /\ ph_regs' = ph_regs /\ ph_space' = ph_space /\ ph_pc' = ph_pc /\ ph_closing' = ph_closing
        /\ ph_status' = ph_status /\ ph_call' = ph_call
    BY Zenon
  <2>2. ph_running \in [Procs!Contexts -> BOOLEAN]
    BY Zenon DEF ProcInv, ProcTypes
  <2>3. ProcContextOK(d)
    BY Zenon DEF ProcInv
  <2>4. ph_status[d] = "None" => ~ph_running'[d]
    BY <2>2, <2>3, Zenon DEF ProcContextOK
  <2> HIDE DEF Procs!Leave
  <2> QED
    BY <2>1, <2>3, <2>4, Zenon DEF ProcContextOK, ContextExists
<1>4. ASSUME NEW j \in Procs!Ids PROVE ProcHandleOK(j)'
  BY Zenon DEF ProcInv, ProcHandleOK, ContextExists
<1> QED
  BY <1>1, <1>2, <1>3, <1>4, Zenon DEF ProcInv

\* The begin of exit_this_context, which takes files and address space out, preserves ProcInv.
LEMMA ProcExitKeeps ==
    ASSUME Procs!ProcHandlesAssumption, ProcInv, NEW c \in Procs!Contexts, Procs!Exit(c)
    PROVE  ProcInv'
<1> USE DEF Procs!Exit, Procs!schedVars, Procs!Runs, Procs!Goto
<1>1. ProcTypes'
  BY Zenon DEF ProcInv, ProcTypes, ProcPlaces
<1>2. ASSUME NEW t \in ph_Tables PROVE TableOK(t)'
  BY LastHolderLeaves DEF Procs!ProcHandlesAssumption, ProcInv, ProcTypes, TableOK, TableFinished, TableHeld
<1>3. ASSUME NEW d \in Procs!Contexts PROVE ProcContextOK(d)'
  BY Zenon DEF ProcInv, ProcTypes, ProcContextOK, ContextExists
<1>4. ASSUME NEW j \in Procs!Ids PROVE ProcHandleOK(j)'
  BY Zenon DEF ProcInv, ProcHandleOK, ContextExists
<1> QED
  BY <1>1, <1>2, <1>3, <1>4, Zenon DEF ProcInv

\* The drop of a file table that could not be unwrapped preserves ProcInv.
LEMMA ProcDropKeeps ==
    ASSUME Procs!ProcHandlesAssumption, ProcInv, NEW c \in Procs!Contexts, Procs!Drop(c)
    PROVE  ProcInv'
<1> USE DEF Procs!Drop, Procs!schedVars, Procs!ctxVars, Procs!Runs
<1>1. ProcTypes'
  BY Zenon DEF ProcInv, ProcTypes
<1>2. ASSUME NEW t \in ph_Tables PROVE TableOK(t)'
  <2>1. ph_closed' = ph_closed /\ ph_closing' = ph_closing /\ ph_files' = ph_files
        /\ ph_handles' = ph_handles /\ ph_made' = ph_made
    BY Zenon
  <2>2. ph_arc \in [Procs!Contexts -> ph_Tables \cup {ph_None}] /\ TableOK(t)
    BY Zenon DEF ProcInv, ProcTypes
  <2>3. t # ph_None
    BY Zenon DEF Procs!ProcHandlesAssumption
  <2>4. ASSUME NEW d \in Procs!Contexts, ph_arc'[d] = t PROVE ph_arc[d] = t
    BY <2>2, <2>3, <2>4, Zenon
  <2> HIDE DEF Procs!Drop
  <2>5. TableHeld(t)' => TableHeld(t)
    BY <2>1, <2>4, Zenon DEF TableHeld
  <2>6. TableFinished(t)' <=> TableFinished(t)
    BY <2>1, Zenon DEF TableFinished
  <2> QED
    BY <2>1, <2>2, <2>5, <2>6, Zenon DEF TableOK
<1>3. ASSUME NEW d \in Procs!Contexts PROVE ProcContextOK(d)'
  BY Zenon DEF ProcInv, ProcContextOK, ContextExists
<1>4. ASSUME NEW j \in Procs!Ids PROVE ProcHandleOK(j)'
  BY Zenon DEF ProcInv, ProcHandleOK, ContextExists
<1> QED
  BY <1>1, <1>2, <1>3, <1>4, Zenon DEF ProcInv

\* The end of force_close_all and the status Dead preserves ProcInv.
LEMMA ProcDeadKeeps ==
    ASSUME Procs!ProcHandlesAssumption, ProcInv, NEW c \in Procs!Contexts, Procs!Dead(c)
    PROVE  ProcInv'
<1> USE DEF Procs!Dead, Procs!ctxVars, Procs!Runs, Procs!Goto
<1>1. ProcTypes'
  BY Zenon DEF ProcInv, ProcTypes, ProcStatuses, ProcPlaces
<1>2. ASSUME NEW t \in ph_Tables PROVE TableOK(t)'
  BY DEF Procs!ProcHandlesAssumption, ProcInv, TableOK, TableFinished, TableHeld
<1>3. ASSUME NEW d \in Procs!Contexts PROVE ProcContextOK(d)'
  BY Zenon DEF ProcInv, ProcTypes, ProcContextOK, ContextExists
<1>4. ASSUME NEW j \in Procs!Ids PROVE ProcHandleOK(j)'
  BY DEF ProcInv, ProcHandleOK, ContextExists
<1> QED
  BY <1>1, <1>2, <1>3, <1>4, Zenon DEF ProcInv

\* Opening the authority handle preserves ProcInv.
LEMMA ProcOpenAuthorityKeeps ==
    ASSUME Procs!ProcHandlesAssumption, ProcInv, NEW c \in Procs!Contexts, Procs!OpenAuthority(c)
    PROVE  ProcInv'
<1> USE DEF Procs!OpenAuthority, Procs!schedVars, Procs!ctxVars, Procs!tableVars, Procs!Runs,
   Procs!new_handle
<1>1. ProcTypes'
  BY Zenon DEF ProcInv, ProcTypes, ProcHandleSet, HandleKinds, Procs!Handle, Procs!NoHandle
<1>2. ASSUME NEW t \in ph_Tables PROVE TableOK(t)'
  BY DEF ProcInv, TableOK, TableFinished, TableHeld, Procs!Strong, ProcContextOK, Procs!Handle,
     Procs!NoHandle
<1>3. ASSUME NEW d \in Procs!Contexts PROVE ProcContextOK(d)'
  BY Zenon DEF ProcInv, ProcContextOK, ContextExists
<1>4. ASSUME NEW j \in Procs!Ids PROVE ProcHandleOK(j)'
  BY DEF ProcInv, ProcContextOK, ProcHandleOK, ContextExists, Procs!Handle
<1> QED
  BY <1>1, <1>2, <1>3, <1>4, Zenon DEF ProcInv

\* dup of the authority to a handle on the caller preserves ProcInv.
LEMMA ProcCurContextKeeps ==
    ASSUME Procs!ProcHandlesAssumption, ProcInv, NEW c \in Procs!Contexts, Procs!CurContext(c)
    PROVE  ProcInv'
<1> USE DEF Procs!CurContext, Procs!schedVars, Procs!ctxVars, Procs!tableVars, Procs!Runs, Procs!new_handle
<1>1. ProcTypes'
  BY Zenon DEF ProcInv, ProcTypes, ProcHandleSet, HandleKinds, Procs!Handle, Procs!NoHandle
<1>2. ASSUME NEW t \in ph_Tables PROVE TableOK(t)'
  BY DEF ProcInv, TableOK, TableFinished, TableHeld, Procs!Strong, ProcContextOK, Procs!Handle,
     Procs!NoHandle
<1>3. ASSUME NEW d \in Procs!Contexts PROVE ProcContextOK(d)'
  BY Zenon DEF ProcInv, ProcContextOK, ContextExists
<1>4. ASSUME NEW j \in Procs!Ids PROVE ProcHandleOK(j)'
  BY DEF ProcInv, ProcContextOK, ProcHandleOK, ContextExists, Procs!Handle
<1> QED
  BY <1>1, <1>2, <1>3, <1>4, Zenon DEF ProcInv

\* dup of the authority to a new context preserves ProcInv.
LEMMA ProcNewContextKeeps ==
    ASSUME Procs!ProcHandlesAssumption, ProcInv, NEW c \in Procs!Contexts, NEW x \in ph_Children,
           Procs!NewContext(c, x)
    PROVE  ProcInv'
<1> USE DEF Procs!NewContext, Procs!tableVars, Procs!Runs, Procs!new_handle
<1>1. ProcTypes'
  <2>1. PICK s \in ph_Spaces \ ph_made, t \in ph_Tables \ ph_made :
           ph_space' = [ph_space EXCEPT ![x] = s] /\ ph_files' = [ph_files EXCEPT ![x] = t]
    BY Zenon DEF Procs!Fresh
  <2>2. Procs!Handle("OpenViaDup", x) \in ProcHandleSet
    BY Zenon DEF ProcHandleSet, Procs!Handle, Procs!NoHandle, HandleKinds, Procs!Contexts
  <2>3. ph_handles' \in [Procs!Ids -> ProcHandleSet]
    BY <2>2, Zenon DEF ProcInv, ProcTypes
  <2>4. ph_status' \in [Procs!Contexts -> ProcStatuses]
    BY Zenon DEF ProcInv, ProcTypes, ProcStatuses
  <2>5. ph_space' \in [Procs!Contexts -> ph_Spaces \cup {ph_None}] /\ ph_files' \in [Procs!Contexts -> ph_Tables \cup {ph_None}]
    BY <2>1, Zenon DEF ProcInv, ProcTypes
  <2> QED
    BY <2>3, <2>4, <2>5, Zenon DEF ProcInv, ProcTypes
<1>2. ASSUME NEW t \in ph_Tables PROVE TableOK(t)'
  BY DEF ProcInv, TableOK, TableFinished, TableHeld, Procs!Strong, ProcContextOK, Procs!Handle,
     Procs!NoHandle, Procs!Fresh
<1>3. ASSUME NEW d \in Procs!Contexts PROVE ProcContextOK(d)'
  BY DEF ProcInv, ProcContextOK, ContextExists
<1>4. ASSUME NEW j \in Procs!Ids PROVE ProcHandleOK(j)'
  <2>1. \A d \in Procs!Contexts : ContextExists(d) => ContextExists(d)'
    BY DEF ContextExists
  <2>2. ContextExists(x)'
    BY Zenon DEF ProcInv, ProcTypes, ContextExists, Procs!Contexts
  <2>3. ph_handles'[j] = ph_handles[j] \/ ph_handles'[j] = Procs!Handle("OpenViaDup", x)
    OBVIOUS
  <2> QED
    BY <2>2 DEF ProcInv, ProcHandleOK, Procs!Handle, ContextExists
<1> QED
  BY <1>1, <1>2, <1>3, <1>4, Zenon DEF ProcInv

\* dup of an address space to an empty or a cloned one preserves ProcInv.
LEMMA ProcDupAddrSpaceKeeps ==
    ASSUME Procs!ProcHandlesAssumption, ProcInv, NEW c \in Procs!Contexts, NEW i \in Procs!Ids,
           Procs!DupAddrSpace(c, i)
    PROVE  ProcInv'
<1> USE DEF Procs!DupAddrSpace, Procs!schedVars, Procs!ctxVars, Procs!tableVars, Procs!Runs,
   Procs!new_handle
<1>1. ProcTypes'
  <2>1. PICK s \in ph_Spaces \ ph_made : ph_handles' = [ph_handles EXCEPT ![ph_next_id] = [ph_handles[i] EXCEPT !.space = s]]
    BY Zenon DEF Procs!Fresh
  <2>2. [ph_handles[i] EXCEPT !.space = s] \in ProcHandleSet
    BY DEF ProcInv, ProcTypes, ProcHandleSet
  <2>3. ph_handles' \in [Procs!Ids -> ProcHandleSet]
    BY <2>1, <2>2, Zenon DEF ProcInv, ProcTypes
  <2> QED
    BY <2>3, Zenon DEF ProcInv, ProcTypes
<1>2. ASSUME NEW t \in ph_Tables PROVE TableOK(t)'
  BY DEF ProcInv, TableOK, TableFinished, TableHeld
<1>3. ASSUME NEW d \in Procs!Contexts PROVE ProcContextOK(d)'
  BY Zenon DEF ProcInv, ProcContextOK, ContextExists
<1>4. ASSUME NEW j \in Procs!Ids PROVE ProcHandleOK(j)'
  BY DEF ProcInv, ProcHandleOK, ContextExists
<1> QED
  BY <1>1, <1>2, <1>3, <1>4, Zenon DEF ProcInv

\* dup of a file table, which upgrades the weak reference, preserves ProcInv.
LEMMA ProcDupFiletableKeeps ==
    ASSUME Procs!ProcHandlesAssumption, ProcInv, NEW c \in Procs!Contexts, NEW i \in Procs!Ids,
           Procs!DupFiletable(c, i)
    PROVE  ProcInv'
<1> USE DEF Procs!DupFiletable, Procs!schedVars, Procs!ctxVars, Procs!Runs, Procs!Goto
<1>1. ProcTypes'
  <2>1. ph_handles[i].table \in ph_Tables \cup {ph_None} /\ ph_handles[i].context \in Procs!Contexts \cup {"None"}
    BY Zenon DEF ProcInv, ProcTypes, ProcHandleSet
  <2>2. ph_arc' \in [Procs!Contexts -> ph_Tables \cup {ph_None}]
    BY <2>1, Zenon DEF ProcInv, ProcTypes
  <2>3. ph_call' \in [Procs!Contexts -> ProcCalls]
    <3>1. [ph_call[c] EXCEPT !.context = ph_handles[i].context] \in ProcCalls
      <4>1. ph_call[c] \in ProcCalls
        BY Zenon DEF ProcInv, ProcTypes
      <4> HIDE DEF Procs!DupFiletable
      <4> QED
        BY <2>1, <4>1, Zenon DEF ProcCalls
    <3> QED
      BY <3>1, Zenon DEF ProcInv, ProcTypes
  <2>4. ph_pc' \in [Procs!Contexts -> ProcPlaces]
    BY Zenon DEF ProcInv, ProcTypes, ProcPlaces
  <2> QED
    BY <2>2, <2>3, <2>4, Zenon DEF ProcInv, ProcTypes
<1>2. ASSUME NEW t \in ph_Tables PROVE TableOK(t)'
  BY HoldersAreHeld DEF ProcInv, TableOK, TableFinished, TableHeld
<1>3. ASSUME NEW d \in Procs!Contexts PROVE ProcContextOK(d)'
  BY DEF ProcInv, ProcTypes, ProcContextOK, ProcHandleOK, ContextExists
<1>4. ASSUME NEW j \in Procs!Ids PROVE ProcHandleOK(j)'
  BY Zenon DEF ProcInv, ProcHandleOK, ContextExists
<1> QED
  BY <1>1, <1>2, <1>3, <1>4, Zenon DEF ProcInv

\* dup of a context handle to one of its parts preserves ProcInv.
LEMMA ProcDupContextKeeps ==
    ASSUME Procs!ProcHandlesAssumption, ProcInv, NEW c \in Procs!Contexts, NEW i \in Procs!Ids,
           NEW path \in Procs!Paths, Procs!DupContext(c, i, path)
    PROVE  ProcInv'
<1> USE DEF Procs!DupContext, Procs!schedVars, Procs!ctxVars, Procs!tableVars, Procs!Runs, Procs!new_handle
<1>1. ProcTypes'
  BY Zenon DEF ProcInv, ProcTypes, ProcHandleSet, ProcHandleOK, ContextExists, HandleKinds, Procs!Handle,
     Procs!NoHandle, Procs!openat_context, Procs!Paths
<1>2. ASSUME NEW t \in ph_Tables PROVE TableOK(t)'
  <2> DEFINE x == ph_handles[i].context
             h == Procs!openat_context(x, path)
  <2>1. x \in Procs!Contexts
    BY Zenon DEF ProcInv, ProcHandleOK, ContextExists
  <2>2. h.kind \notin Procs!Strong /\ h.table \in {ph_None, ph_files[x]}
    BY Zenon DEF Procs!openat_context, Procs!Paths, Procs!Handle, Procs!NoHandle, Procs!Strong
  <2>3. \A j \in Procs!Ids : ph_handles'[j] = IF j = ph_next_id THEN h ELSE ph_handles[j]
    BY Zenon DEF ProcInv, ProcTypes
  <2>a. ph_files' = ph_files /\ ph_arc' = ph_arc
    BY Zenon
  <2> HIDE DEF h, Procs!DupContext
  <2>4. TableHeld(t)' => TableHeld(t)
    BY <2>2, <2>3, <2>a, Zenon DEF TableHeld
  <2>5. (\E j \in Procs!Ids : ph_handles'[j].table = t) => TableHeld(t) \/ \E j \in Procs!Ids : ph_handles[j].table = t
    BY <2>1, <2>2, <2>3, Zenon DEF TableHeld, Procs!ProcHandlesAssumption
  <2> QED
    BY <2>4, <2>5, Zenon DEF ProcInv, TableOK, TableFinished, Procs!DupContext
<1>3. ASSUME NEW d \in Procs!Contexts PROVE ProcContextOK(d)'
  BY Zenon DEF ProcInv, ProcContextOK, ContextExists
<1>4. ASSUME NEW j \in Procs!Ids PROVE ProcHandleOK(j)'
  BY DEF ProcInv, ProcHandleOK, ContextExists, Procs!Handle, Procs!openat_context, Procs!Paths
<1> QED
  BY <1>1, <1>2, <1>3, <1>4, Zenon DEF ProcInv

\* The copy of the upgraded file table preserves ProcInv.
LEMMA ProcCopyFiletableKeeps ==
    ASSUME Procs!ProcHandlesAssumption, ProcInv, NEW c \in Procs!Contexts, Procs!CopyFiletable(c)
    PROVE  ProcInv'
<1> USE DEF Procs!CopyFiletable, Procs!schedVars, Procs!ctxVars, Procs!Runs, Procs!Goto, Procs!new_handle
<1>1. ProcTypes'
  <2> DEFINE h(t) == [Procs!Handle("NewFiletable", ph_call[c].context) EXCEPT !.table = t]
  <2>1. PICK t \in ph_Tables \ ph_made : ph_handles' = [ph_handles EXCEPT ![ph_next_id] = h(t)]
    BY Zenon DEF Procs!Fresh
  <2>2. h(t) \in ProcHandleSet
    BY Zenon DEF ProcInv, ProcTypes, ProcHandleSet, ProcCalls, Procs!Handle, Procs!NoHandle, HandleKinds
  <2>3. ph_handles' \in [Procs!Ids -> ProcHandleSet]
    BY <2>1, <2>2, Zenon DEF ProcInv, ProcTypes
  <2>4. ph_call' \in [Procs!Contexts -> ProcCalls] /\ ph_pc' \in [Procs!Contexts -> ProcPlaces]
    BY Zenon DEF ProcInv, ProcTypes, ProcCalls, Procs!NoCall, ProcStatuses, ProcPlaces
  <2>5. ph_arc' \in [Procs!Contexts -> ph_Tables \cup {ph_None}]
    BY Zenon DEF ProcInv, ProcTypes
  <2> QED
    BY <2>3, <2>4, Zenon DEF ProcInv, ProcTypes
<1>2. ASSUME NEW t \in ph_Tables PROVE TableOK(t)'
  BY DEF Procs!ProcHandlesAssumption, ProcInv, TableOK, TableFinished, TableHeld, Procs!Fresh
<1>3. ASSUME NEW d \in Procs!Contexts PROVE ProcContextOK(d)'
  BY Zenon DEF ProcInv, ProcTypes, ProcContextOK, ContextExists
<1>4. ASSUME NEW j \in Procs!Ids PROVE ProcHandleOK(j)'
  BY DEF ProcInv, ProcContextOK, ProcHandleOK, ContextExists, Procs!Handle
<1> QED
  BY <1>1, <1>2, <1>3, <1>4, Zenon DEF ProcInv

\* A write that selects the new address space preserves ProcInv.
LEMMA ProcWriteAddrSpaceKeeps ==
    ASSUME Procs!ProcHandlesAssumption, ProcInv, NEW c \in Procs!Contexts, Procs!WriteAddrSpace(c)
    PROVE  ProcInv'
<1> USE DEF Procs!WriteAddrSpace, Procs!schedVars, Procs!ctxVars, Procs!tableVars, Procs!Runs,
   Procs!Goto, Procs!Returns
<1>1. ProcTypes'
  <2>1. ph_call[c] \in ProcCalls /\ ph_call[c].number \in Procs!Ids
    BY DEF ProcInv, ProcTypes, ProcContextOK
  <2>2. [Procs!Handle("AwaitingAddrSpaceChange",
           ph_call[c].context) EXCEPT !.space = ph_handles[ph_call[c].number].space] \in ProcHandleSet
    BY <2>1 DEF ProcInv, ProcTypes, ProcHandleSet, ProcCalls, HandleKinds, Procs!Handle, Procs!NoHandle
  <2>3. ph_handles' \in [Procs!Ids -> ProcHandleSet]
    BY <2>2, Zenon DEF ProcInv, ProcTypes
  <2>4. ph_call' \in [Procs!Contexts -> ProcCalls] /\ ph_pc' \in [Procs!Contexts -> ProcPlaces]
    BY Zenon DEF ProcInv, ProcTypes, ProcCalls, Procs!NoCall, ProcStatuses, ProcPlaces
  <2> QED
    BY <2>3, <2>4, Zenon DEF ProcInv, ProcTypes
<1>2. ASSUME NEW t \in ph_Tables PROVE TableOK(t)'
  BY DEF Procs!ProcHandlesAssumption, ProcInv, TableOK, TableFinished, TableHeld, Procs!Handle,
     Procs!NoHandle
<1>3. ASSUME NEW d \in Procs!Contexts PROVE ProcContextOK(d)'
  BY Zenon DEF ProcInv, ProcTypes, ProcContextOK, ContextExists
<1>4. ASSUME NEW j \in Procs!Ids PROVE ProcHandleOK(j)'
  BY DEF ProcInv, ProcContextOK, ProcHandleOK, ContextExists, Procs!Handle
<1> QED
  BY <1>1, <1>2, <1>3, <1>4, Zenon DEF ProcInv

\* A write that selects the new file table preserves ProcInv.
LEMMA ProcWriteFiletableKeeps ==
    ASSUME Procs!ProcHandlesAssumption, ProcInv, NEW c \in Procs!Contexts, Procs!WriteFiletable(c)
    PROVE  ProcInv'
<1> USE DEF Procs!WriteFiletable, Procs!schedVars, Procs!ctxVars, Procs!tableVars, Procs!Runs,
   Procs!Goto, Procs!Returns
<1> DEFINE m == ph_call[c].number
           k == ph_call[c].id
           h == ph_handles[m]
           await == [Procs!Handle("AwaitingFiletableChange", ph_call[c].context) EXCEPT !.table = h.table]
           weak == [h EXCEPT !.kind = "Filetable", !.context = ph_call[c].context]
           Alive == h.kind = "Filetable" /\ Procs!Holders(h.table) # {}
           New == h.kind = "NewFiletable"
<1>5. m \in Procs!Ids /\ k \in Procs!Ids /\ h \in ProcHandleSet /\ ContextExists(ph_call[c].context)
  BY Zenon DEF ProcInv, ProcTypes, ProcContextOK
<1>6. /\ Alive => ph_handles' = [ph_handles EXCEPT ![k] = await]
      /\ New => ph_handles' = [ph_handles EXCEPT ![m] = weak, ![k] = await]
      /\ ~Alive /\ ~New => ph_handles' = ph_handles
  BY Zenon
<1>7. await \in ProcHandleSet /\ weak \in ProcHandleSet
  BY <1>5, Zenon DEF ProcHandleSet, Procs!Handle, Procs!NoHandle, HandleKinds, ContextExists
<1>8. \A j \in Procs!Ids : \/ ph_handles'[j] = ph_handles[j]
                           \/ j = k /\ ph_handles'[j] = await /\ (Alive \/ New)
                           \/ j = m /\ ph_handles'[j] = weak
  <2>1. CASE Alive
    BY <2>1
  <2>2. CASE New
    BY Zenon DEF ProcInv, ProcTypes
  <2>3. CASE ~Alive /\ ~New
    BY <2>3, Zenon
  <2> QED
    BY <2>1, <2>2, Zenon
<1>1. ProcTypes'
  <2>1. ph_handles' \in [Procs!Ids -> ProcHandleSet]
    <3>1. CASE Alive
      BY <1>7, Zenon DEF ProcInv, ProcTypes
    <3>2. CASE New
      BY <1>7, Zenon DEF ProcInv, ProcTypes
    <3>3. CASE ~Alive /\ ~New
      BY <3>3, Zenon DEF ProcInv, ProcTypes
    <3> QED
      BY <3>1, <3>2, <3>3, Zenon
  <2>2. ph_call' \in [Procs!Contexts -> ProcCalls] /\ ph_pc' \in [Procs!Contexts -> ProcPlaces]
    BY Zenon DEF ProcInv, ProcTypes, ProcCalls, Procs!NoCall, ProcStatuses, ProcPlaces
  <2> QED
    BY <2>1, <2>2, Zenon DEF ProcInv, ProcTypes
<1>2. ASSUME NEW t \in ph_Tables PROVE TableOK(t)'
  <2>1. await.table = h.table /\ weak.table = h.table /\ weak.kind \notin Procs!Strong
    BY SMTT(30) DEF Procs!Strong
  <2>2. Alive \/ New => TableHeld(h.table)
    BY <1>5, HoldersAreHeld, Zenon DEF TableHeld, Procs!Strong
  <2>3. TableHeld(t)' => TableHeld(t)
    <3>1. ASSUME NEW j \in Procs!Ids, ph_handles'[j].kind \in Procs!Strong, ph_handles'[j].table = t
          PROVE  TableHeld(t)
      BY <1>8, <2>1, <2>2, <3>1, Zenon DEF TableHeld
    <3> QED
      BY <3>1, Zenon DEF TableHeld
  <2>4. ASSUME NEW j \in Procs!Ids, ph_handles'[j].table = t
        PROVE  \E q \in Procs!Ids : ph_handles[q].table = t
    <3>1. ph_handles[j].table = t \/ ph_handles[m].table = t
      BY <1>8, <2>1, <2>4, Zenon
    <3> QED
      BY <1>5, <3>1, Zenon
  <2> QED
    BY <2>3, <2>4, Zenon DEF ProcInv, TableOK, TableFinished
<1>3. ASSUME NEW d \in Procs!Contexts PROVE ProcContextOK(d)'
  BY DEF ProcInv, ProcTypes, ProcContextOK, ContextExists
<1>4. ASSUME NEW j \in Procs!Ids PROVE ProcHandleOK(j)'
  <2>1. await.context = ph_call[c].context /\ weak.context = ph_call[c].context
    BY DEF Procs!Handle
  <2>2. \A y : ContextExists(y) => ContextExists(y)'
    BY Zenon DEF ContextExists
  <2> QED
    BY <1>5, <1>8, <2>1, <2>2, Zenon DEF ProcInv, ProcHandleOK
<1> QED
  BY <1>1, <1>2, <1>3, <1>4, Zenon DEF ProcInv

\* A round of the loop in try_stop_context preserves ProcInv.
LEMMA ProcCheckKeeps ==
    ASSUME Procs!ProcHandlesAssumption, ProcInv, NEW c \in Procs!Contexts, Procs!Check(c)
    PROVE  ProcInv'
<1> USE DEF Procs!Check, Procs!schedVars, Procs!ctxVars, Procs!tableVars, Procs!Runs, Procs!Goto
<1>1. ProcTypes'
  BY Zenon DEF ProcInv, ProcTypes, ProcPlaces
<1>2. ASSUME NEW t \in ph_Tables PROVE TableOK(t)'
  BY Zenon DEF ProcInv, TableOK, TableFinished, TableHeld
<1>3. ASSUME NEW d \in Procs!Contexts PROVE ProcContextOK(d)'
  BY DEF ProcInv, ProcContextOK, ContextExists
<1>4. ASSUME NEW j \in Procs!Ids PROVE ProcHandleOK(j)'
  BY Zenon DEF ProcInv, ProcHandleOK, ContextExists
<1> QED
  BY <1>1, <1>2, <1>3, <1>4, Zenon DEF ProcInv

\* The installation of registers and address space in the stopped context preserves ProcInv.
LEMMA ProcApplyKeeps ==
    ASSUME Procs!ProcHandlesAssumption, ProcInv, NEW c \in Procs!Contexts, Procs!Apply(c)
    PROVE  ProcInv'
<1> USE DEF Procs!Apply, Procs!tableVars, Procs!Runs, Procs!Goto
<1>1. ProcTypes'
  <2>1. CASE ph_running[ph_call[c].context]
    BY <2>1, Zenon DEF ProcInv, ProcTypes
  <2>2. CASE ~ph_running[ph_call[c].context]
    <3>1. ph_call[c] \in ProcCalls /\ Procs!NoCall \in ProcCalls
      BY Zenon DEF ProcInv, ProcTypes, ProcCalls, Procs!NoCall, ProcStatuses
    <3>5. ph_call[c].space \in ph_Spaces \cup {ph_None}
      BY <3>1, Zenon DEF ProcCalls
    <3>6. ph_regs' \in [Procs!Contexts -> ph_Spaces \cup {ph_None}]
      BY <3>5, Zenon DEF ProcInv, ProcTypes
    <3>2. ph_regs' \in [Procs!Contexts -> ph_Spaces \cup {ph_None}] /\ ph_space' \in [Procs!Contexts -> ph_Spaces \cup {ph_None}]
      BY <3>6 DEF ProcInv, ProcTypes
    <3>3. ph_status' \in [Procs!Contexts -> ProcStatuses]
      BY DEF ProcInv, ProcTypes, ProcCalls
    <3>4. ph_call' \in [Procs!Contexts -> ProcCalls] /\ ph_pc' \in [Procs!Contexts -> ProcPlaces]
      BY <3>1 DEF ProcInv, ProcTypes, ProcPlaces
    <3> QED
      BY <3>2, <3>3, <3>4, Zenon DEF ProcInv, ProcTypes
  <2> QED
    BY <2>1, <2>2, Zenon
<1>2. ASSUME NEW t \in ph_Tables PROVE TableOK(t)'
  BY Zenon DEF ProcInv, TableOK, TableFinished, TableHeld
<1>3. ASSUME NEW d \in Procs!Contexts PROVE ProcContextOK(d)'
  BY DEF ProcInv, ProcTypes, ProcContextOK, ContextExists
<1>4. ASSUME NEW j \in Procs!Ids PROVE ProcHandleOK(j)'
  BY Zenon DEF ProcInv, ProcTypes, ProcContextOK, ProcHandleOK, ContextExists
<1> QED
  BY <1>1, <1>2, <1>3, <1>4, Zenon DEF ProcInv

\* A write to the start handle preserves ProcInv.
LEMMA ProcWriteStartKeeps ==
    ASSUME Procs!ProcHandlesAssumption, ProcInv, NEW c \in Procs!Contexts, NEW i \in Procs!Ids,
           Procs!WriteStart(c, i)
    PROVE  ProcInv'
<1> USE DEF Procs!WriteStart, Procs!ctxVars, Procs!tableVars, Procs!Runs
<1>1. ProcTypes'
  BY Zenon DEF ProcInv, ProcTypes, ProcStatuses
<1>2. ASSUME NEW t \in ph_Tables PROVE TableOK(t)'
  BY Zenon DEF ProcInv, TableOK, TableFinished, TableHeld
<1>a. \A d \in Procs!Contexts : ph_status[d] # "None" => ph_status'[d] # "None"
  BY Zenon DEF ProcInv, ProcTypes
<1>3. ASSUME NEW d \in Procs!Contexts PROVE ProcContextOK(d)'
  BY <1>a, Zenon DEF ProcInv, ProcContextOK, ContextExists
<1>4. ASSUME NEW j \in Procs!Ids PROVE ProcHandleOK(j)'
  BY <1>a, Zenon DEF ProcInv, ProcHandleOK, ContextExists
<1> QED
  BY <1>1, <1>2, <1>3, <1>4, Zenon DEF ProcInv

\* close() of a handle, which may install a file table, preserves ProcInv.
LEMMA ProcCloseKeeps ==
    ASSUME Procs!ProcHandlesAssumption, ProcInv, NEW c \in Procs!Contexts, NEW i \in Procs!Ids,
           Procs!Close(c, i)
    PROVE  ProcInv'
<1> USE DEF Procs!Close, Procs!schedVars, Procs!tableVars, Procs!Closes
<1>1. ProcTypes'
  BY Zenon DEF ProcInv, ProcTypes, ProcHandleSet, HandleKinds, Procs!NoHandle
<1>2. ASSUME NEW t \in ph_Tables PROVE TableOK(t)'
  BY Zenon DEF Procs!ProcHandlesAssumption, ProcInv, ProcTypes, TableOK, TableFinished, TableHeld,
     Procs!Strong, Procs!NoHandle
<1>3. ASSUME NEW d \in Procs!Contexts PROVE ProcContextOK(d)'
  BY Zenon DEF ProcInv, ProcContextOK, ContextExists
<1>4. ASSUME NEW j \in Procs!Ids PROVE ProcHandleOK(j)'
  <2>1. ph_handles'[j] = ph_handles[j] \/ ph_handles'[j].kind = "None"
    BY Zenon DEF ProcInv, ProcTypes, Procs!NoHandle
  <2> QED
    BY <2>1, Zenon DEF ProcInv, ProcHandleOK, ContextExists
<1> QED
  BY <1>1, <1>2, <1>3, <1>4, Zenon DEF ProcInv

\* close() of a handle that changes the address space of the caller preserves ProcInv.
LEMMA ProcCloseOwnKeeps ==
    ASSUME Procs!ProcHandlesAssumption, ProcInv, NEW c \in Procs!Contexts, NEW i \in Procs!Ids,
           Procs!CloseOwn(c, i)
    PROVE  ProcInv'
<1> USE DEF Procs!CloseOwn, Procs!schedVars, Procs!tableVars, Procs!Closes
<1>1. ProcTypes'
  BY Zenon DEF ProcInv, ProcTypes, ProcHandleSet, HandleKinds, Procs!NoHandle
<1>2. ASSUME NEW t \in ph_Tables PROVE TableOK(t)'
  BY Zenon DEF Procs!ProcHandlesAssumption, ProcInv, ProcTypes, TableOK, TableFinished, TableHeld,
     Procs!NoHandle
<1>3. ASSUME NEW d \in Procs!Contexts PROVE ProcContextOK(d)'
  BY Zenon DEF ProcInv, ProcTypes, ProcContextOK, ContextExists
<1>4. ASSUME NEW j \in Procs!Ids PROVE ProcHandleOK(j)'
  <2>1. ph_handles'[j] = ph_handles[j] \/ ph_handles'[j].kind = "None"
    BY Zenon DEF ProcInv, ProcTypes, Procs!NoHandle
  <2> QED
    BY <2>1, Zenon DEF ProcInv, ProcHandleOK, ContextExists
<1> QED
  BY <1>1, <1>2, <1>3, <1>4, Zenon DEF ProcInv

\* close() of a handle that is to change the address space of another context preserves ProcInv.
LEMMA ProcCloseOtherKeeps ==
    ASSUME Procs!ProcHandlesAssumption, ProcInv, NEW c \in Procs!Contexts, NEW i \in Procs!Ids,
           Procs!CloseOther(c, i)
    PROVE  ProcInv'
<1> USE DEF Procs!CloseOther, Procs!ctxVars, Procs!tableVars, Procs!Goto, Procs!Closes
<1>1. ProcTypes'
  <2> DEFINE x == ph_handles[i].context
  <2>1. x \in Procs!Contexts /\ ph_handles[i] \in ProcHandleSet /\ Procs!NoHandle \in ProcHandleSet
    BY Zenon DEF ProcInv, ProcTypes, ProcHandleOK, ContextExists, ProcHandleSet, Procs!NoHandle, HandleKinds
  <2>2. [ph_call[c] EXCEPT !.context = x, !.prev = ph_status[x],
           !.space = ph_handles[i].space] \in ProcCalls
    <3>1. ph_status[x] \in ProcStatuses /\ ph_call[c] \in ProcCalls
      BY <2>1, Zenon DEF ProcInv, ProcTypes
    <3> QED
      BY <2>1, <3>1, Zenon DEF ProcCalls, ProcHandleSet
  <2>3. ph_handles' \in [Procs!Ids -> ProcHandleSet] /\ ph_status' \in [Procs!Contexts -> ProcStatuses]
    BY <2>1, Zenon DEF ProcInv, ProcTypes, ProcStatuses
  <2>4. ph_call' \in [Procs!Contexts -> ProcCalls] /\ ph_pc' \in [Procs!Contexts -> ProcPlaces]
    BY <2>2, Zenon DEF ProcInv, ProcTypes, ProcPlaces
  <2> QED
    BY <2>3, <2>4, Zenon DEF ProcInv, ProcTypes
<1>2. ASSUME NEW t \in ph_Tables PROVE TableOK(t)'
  BY DEF Procs!ProcHandlesAssumption, ProcInv, TableOK, TableFinished, TableHeld, Procs!NoHandle
<1>3. ASSUME NEW d \in Procs!Contexts PROVE ProcContextOK(d)'
  BY DEF ProcInv, ProcTypes, ProcContextOK, ProcHandleOK, ContextExists
<1>4. ASSUME NEW j \in Procs!Ids PROVE ProcHandleOK(j)'
  <2>1. ph_handles'[j] = ph_handles[j] \/ ph_handles'[j].kind = "None"
    BY Zenon DEF ProcInv, ProcTypes, Procs!NoHandle
  <2>2. \A d \in Procs!Contexts : ph_status[d] # "None" => ph_status'[d] # "None"
    BY Zenon DEF ProcInv, ProcTypes
  <2> QED
    BY <2>1, <2>2, Zenon DEF ProcInv, ProcHandleOK, ContextExists
<1> QED
  BY <1>1, <1>2, <1>3, <1>4, Zenon DEF ProcInv

\* A write to a handle, with the two lookups by number, preserves ProcInv.
LEMMA ProcWriteKeeps ==
    ASSUME Procs!ProcHandlesAssumption, ProcInv, NEW c \in Procs!Contexts, NEW i \in Procs!Ids,
           NEW n \in Procs!Ids, Procs!Write(c, i, n)
    PROVE  ProcInv'
<1> USE DEF Procs!Write, Procs!schedVars, Procs!ctxVars, Procs!tableVars, Procs!Runs, Procs!Goto
<1>1. ProcTypes'
  <2>1. ph_handles[i] \in ProcHandleSet /\ ph_call[c] \in ProcCalls
    BY Zenon DEF ProcInv, ProcTypes
  <2>2. [ph_call[c] EXCEPT !.id = i, !.number = n, !.context = ph_handles[i].context] \in ProcCalls
    BY <2>1, Zenon DEF ProcCalls, ProcHandleSet
  <2>3. ph_call' \in [Procs!Contexts -> ProcCalls]
    BY <2>2, Zenon DEF ProcInv, ProcTypes
  <2>4. ph_pc' \in [Procs!Contexts -> ProcPlaces]
    BY Zenon DEF ProcInv, ProcTypes, ProcPlaces
  <2> QED
    BY <2>3, <2>4, Zenon DEF ProcInv, ProcTypes
<1>2. ASSUME NEW t \in ph_Tables PROVE TableOK(t)'
  BY Zenon DEF ProcInv, TableOK, TableFinished, TableHeld
<1>3. ASSUME NEW d \in Procs!Contexts PROVE ProcContextOK(d)'
  BY DEF ProcInv, ProcTypes, ProcContextOK, ProcHandleOK, ContextExists
<1>4. ASSUME NEW j \in Procs!Ids PROVE ProcHandleOK(j)'
  BY Zenon DEF ProcInv, ProcHandleOK, ContextExists
<1> QED
  BY <1>1, <1>2, <1>3, <1>4, Zenon DEF ProcInv

\* The first contexts have spaces and tables of their own, and no handle is open.
LEMMA ProcInitially == ASSUME Procs!ProcHandlesAssumption, Procs!Init PROVE ProcInv
<1>1. Procs!NoHandle \in ProcHandleSet /\ Procs!NoCall \in ProcCalls
  BY Zenon DEF Procs!NoHandle, Procs!NoCall, ProcHandleSet, ProcCalls, HandleKinds, ProcStatuses
<1>2. PICK s \in ph_Spaces, t \in ph_Tables :
        /\ ph_space = [c \in Procs!Contexts |-> IF c \in ph_Threads THEN s ELSE ph_None]
        /\ ph_regs = ph_space
        /\ ph_files = [c \in Procs!Contexts |-> IF c \in ph_Threads THEN t ELSE ph_None]
        /\ ph_made = {s, t}
  BY Zenon DEF Procs!Init, Procs!Fresh
<1>3. ProcTypes
  BY <1>1, <1>2, Zenon DEF Procs!Init, ProcTypes, ProcStatuses, ProcPlaces
<1>4. \A x \in ph_Tables : TableOK(x)
  BY Zenon DEF Procs!ProcHandlesAssumption, Procs!Init, TableOK, TableFinished, TableHeld, Procs!NoHandle
<1>5. \A c \in Procs!Contexts : ProcContextOK(c)
  BY Zenon DEF Procs!Init, ProcContextOK
<1>6. \A i \in Procs!Ids : ProcHandleOK(i)
  BY Zenon DEF Procs!Init, ProcHandleOK, Procs!NoHandle
<1> QED
  BY <1>3, <1>4, <1>5, <1>6, Zenon DEF ProcInv

\* Every step of the threads and of the handles preserves ProcInv.
LEMMA ProcNext == ASSUME Procs!ProcHandlesAssumption, ProcInv, [Procs!Next]_Procs!vars PROVE ProcInv'
<1>1. ASSUME NEW c \in Procs!Contexts,
             Procs!Dispatch(c) \/ Procs!Leave(c) \/ Procs!Exit(c) \/ Procs!Drop(c) \/ Procs!Dead(c)
      PROVE  ProcInv'
  BY <1>1, ProcDispatchKeeps, ProcLeaveKeeps, ProcExitKeeps, ProcDropKeeps, ProcDeadKeeps, Zenon
<1>2. ASSUME NEW c \in ph_Openers,
             \/ Procs!OpenAuthority(c) \/ Procs!CurContext(c)
             \/ \E x \in ph_Children : Procs!NewContext(c, x)
             \/ \E i \in Procs!Ids : \/ Procs!DupAddrSpace(c, i) \/ Procs!DupFiletable(c, i)
                                     \/ \E path \in ph_paths \cap Procs!Paths : Procs!DupContext(c, i, path)
      PROVE  ProcInv'
  <2>1. c \in Procs!Contexts /\ \A path \in ph_paths \cap Procs!Paths : path \in Procs!Paths
    BY Zenon DEF Procs!ProcHandlesAssumption, Procs!Contexts
  <2> QED
    BY <1>2, <2>1, ProcOpenAuthorityKeeps, ProcCurContextKeeps, ProcNewContextKeeps, ProcDupAddrSpaceKeeps,
       ProcDupFiletableKeeps, ProcDupContextKeeps, Zenon
<1>3. ASSUME NEW c \in ph_Threads,
             Procs!CopyFiletable(c) \/ Procs!WriteAddrSpace(c) \/ Procs!WriteFiletable(c) \/ Procs!Check(c) \/ Procs!Apply(c)
      PROVE  ProcInv'
  <2>1. c \in Procs!Contexts
    BY Zenon DEF Procs!Contexts
  <2> QED
    BY <1>3, <2>1, ProcCopyFiletableKeeps, ProcWriteAddrSpaceKeeps, ProcWriteFiletableKeeps,
       ProcCheckKeeps, ProcApplyKeeps,
       Zenon
<1>4. ASSUME NEW c \in ph_Threads, NEW i \in Procs!Ids,
             \/ Procs!WriteStart(c, i) \/ Procs!Close(c, i) \/ Procs!CloseOwn(c,
                i) \/ Procs!CloseOther(c, i)
             \/ \E n \in Procs!Ids : Procs!Write(c, i, n)
      PROVE  ProcInv'
  <2>1. c \in Procs!Contexts
    BY Zenon DEF Procs!Contexts
  <2> QED
    BY <1>4, <2>1, ProcWriteStartKeeps, ProcCloseKeeps, ProcCloseOwnKeeps, ProcCloseOtherKeeps,
       ProcWriteKeeps, Zenon
<1>5. CASE UNCHANGED Procs!vars
  BY <1>5, Zenon DEF Procs!vars, Procs!schedVars, Procs!ctxVars, Procs!tableVars, ProcInv, ProcTypes,
     TableOK, TableFinished, TableHeld,
     ProcContextOK, ContextExists, ProcHandleOK
<1> QED
  BY <1>1, <1>2, <1>3, <1>4, <1>5, Zenon DEF Procs!Next, Procs!Step

\* ProcInv holds for any threads, contexts, tables, spaces and numbers of handles.
THEOREM ProcInvariant == ASSUME Procs!ProcHandlesAssumption PROVE Procs!Spec => []ProcInv
  BY ProcInitially, ProcNext, PTL DEF Procs!Spec

\* ClosedTablesAreUnused of ProcHandles: force_close_all works on a table that no context
\* uses, no handle will install and no call copies.
THEOREM ClosedTablesAreUnusedAlways ==
    ASSUME Procs!ProcHandlesAssumption
    PROVE  Procs!Spec => []Procs!ClosedTablesAreUnused
<1>1. ASSUME ProcInv PROVE Procs!ClosedTablesAreUnused
  <2>1. ASSUME NEW t \in ph_Tables, t \in ph_closed \/ \E c \in Procs!Contexts : ph_closing[c] = t
        PROVE  Procs!Holders(t) = {}
    BY <1>1, <2>1, HoldersAreHeld, Zenon DEF ProcInv, TableOK, TableFinished
  <2> QED
    BY <2>1, Zenon DEF Procs!ClosedTablesAreUnused
<1> QED
  BY <1>1, ProcInvariant, PTL

\* RegistersMatchSpace of ProcHandles: who runs user code does so in the address space its
\* registers were prepared for, whoever changes either through handles.
THEOREM RegistersMatchSpaceAlways ==
    ASSUME Procs!ProcHandlesAssumption
    PROVE  Procs!Spec => []Procs!RegistersMatchSpace
<1>1. ASSUME ProcInv PROVE Procs!RegistersMatchSpace
  <2>1. ASSUME NEW c \in Procs!Contexts, ph_pc[c] = "user", ph_regs[c] # ph_None
        PROVE  ph_regs[c] = ph_space[c]
    BY <1>1, <2>1, Zenon DEF ProcInv, ProcContextOK
  <2> QED
    BY <2>1, Zenon DEF Procs!RegistersMatchSpace
<1> QED
  BY <1>1, ProcInvariant, PTL
=============================================================================
