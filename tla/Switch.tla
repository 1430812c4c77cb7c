------------------------------- MODULE Switch -------------------------------
(***************************************************************************)
(* The scheduler of context/switch.rs: the round-robin switch() that every *)
(* CPU runs under the global CONTEXT_SWITCH_LOCK, the context operations   *)
(* that decide who may be picked (block, unblock, spawn, start, exit,      *)
(* affinity, PreemptGuard) and the wake-up times the scan itself expires.  *)
(*                                                                         *)
(* A context is a number: its place in the pointer order in which the      *)
(* BTreeSet CONTEXTS is scanned.  A context's RwLock is modelled by        *)
(* `guards`: switch() keeps the guards of the previous and the next        *)
(* context over several steps, every other writer holds one for the length *)
(* of one action.  Interrupts are off in kernel code, so Tick only meets a *)
(* CPU whose pc is "run".                                                  *)
(***************************************************************************)
EXTENDS Naturals, FiniteSets

CONSTANTS
    Cpus,       \* the logical CPUs
    Idle,       \* Idle[cpu]: the kmain context of the CPU
    User,       \* the contexts that spawn() can create
    NoCpu,      \* stands for Option::None in cpu_id, and a free switch lock
    Never,      \* stands for Option::None in wake
    Masks,      \* the affinity masks that user space writes
    MaxTime     \* bound on the clock

IdleContexts == {Idle[cpu] : cpu \in Cpus}
Context == User \cup IdleContexts
Time == 0 .. MaxTime

ASSUME SwitchAssumption ==
    /\ NoCpu \notin Cpus
    /\ Masks \subseteq SUBSET Cpus
    /\ MaxTime \in Nat
    /\ Never \notin Time
    /\ User \subseteq Nat
    /\ Idle \in [Cpus -> Nat]
    /\ \A p, q \in Cpus : Idle[p] = Idle[q] => p = q
    /\ User \cap IdleContexts = {}

VARIABLES
    status,        \* Context::status
    running,       \* Context::running
    cpu_id,        \* Context::cpu_id
    affinity,      \* Context::sched_affinity
    wake,          \* Context::wake
    preempt,       \* Context::preempt_locks
    contexts,      \* CONTEXTS
    current,       \* current_ctxt of each PercpuBlock
    lock,          \* CONTEXT_SWITCH_LOCK (with its holder)
    pc,            \* where each CPU is
    left,          \* contexts the scan in progress has not visited yet
    skip_idle,     \* skip_idle of the scan in progress
    guards,        \* contexts locked by the switch in progress
    now            \* time::monotonic()

vars == <<status, running, cpu_id, affinity, wake, preempt, contexts, current,
          lock, pc, left, skip_idle, guards, now>>

\* What switch() writes to the contexts, and what the rest of the kernel does.
switchVars == <<lock, left, skip_idle, guards>>
placeVars  == <<running, cpu_id, current>>

Status == {"Runnable", "Blocked", "HardBlocked", "Dead"}

-----------------------------------------------------------------------------
(* context::init on every CPU: each kmain is current on its CPU, runnable   *)
(* and bound to it.  No other context exists yet.                           *)

Init ==
    /\ status = [c \in Context |-> IF c \in IdleContexts THEN "Runnable" ELSE "HardBlocked"]
    /\ running = [c \in Context |-> c \in IdleContexts]
    /\ cpu_id = [c \in Context |-> IF c \in IdleContexts
                                   THEN CHOOSE cpu \in Cpus : Idle[cpu] = c ELSE NoCpu]
    /\ affinity = [c \in Context |-> {cpu \in Cpus : c = Idle[cpu] \/ c \in User}]
    /\ wake = [c \in Context |-> Never]
    /\ preempt = [c \in Context |-> 0]
    /\ contexts = IdleContexts
    /\ current = Idle
    /\ lock = NoCpu
    /\ pc = [cpu \in Cpus |-> "run"]
    /\ left = {}
    /\ skip_idle = TRUE
    /\ guards = {}
    /\ now = 0

-----------------------------------------------------------------------------
(* What the context that is current on a CPU may do besides switch().       *)

Runs(cpu, c) == pc[cpu] = "run" /\ current[cpu] = c

\* Context::new and context::spawn: a new context, not started, in CONTEXTS.
\* The write lock on CONTEXTS excludes a scan, which holds the read lock.
Spawn(cpu, c) ==
    /\ pc[cpu] = "run"
    /\ c \in User \ contexts
    /\ status[c] = "HardBlocked"
    /\ \A p \in Cpus : pc[p] # "scan"
    /\ contexts' = contexts \cup {c}
    /\ UNCHANGED <<status, affinity, wake, preempt, pc, now, placeVars, switchVars>>

\* proc scheme, handle "start": only a context that has not been started yet.
Start(cpu, c) ==
    /\ pc[cpu] = "run"
    /\ c \in contexts \ guards
    /\ status[c] = "HardBlocked"
    /\ status' = [status EXCEPT ![c] = "Runnable"]
    /\ UNCHANGED <<affinity, wake, preempt, contexts, pc, now, placeVars, switchVars>>

\* Context::block by the current context, then switch().  WaitCondition::wait
\* leaves wake alone; FUTEX_WAIT, nanosleep and user scheme calls first store
\* their deadline, or None, in it.
Block(cpu, w) ==
    LET c == current[cpu] IN
    /\ Runs(cpu, c)
    /\ c \notin guards \cup IdleContexts
    /\ preempt[c] = 0
    /\ w \in {wake[c], Never, now + 1}
    /\ wake' = [wake EXCEPT ![c] = w]
    /\ status' = [status EXCEPT ![c] = IF @ = "Runnable" THEN "Blocked" ELSE @]
    /\ pc' = [pc EXCEPT ![cpu] = "spin"]
    /\ UNCHANGED <<affinity, preempt, contexts, now, placeVars, switchVars>>

\* Context::unblock of another context by code running on cpu.  wake stays.
Unblock(cpu, c) ==
    /\ pc[cpu] = "run"
    /\ c \in Context \ guards
    /\ status[c] = "Blocked"
    /\ status' = [status EXCEPT ![c] = "Runnable"]
    /\ UNCHANGED <<affinity, wake, preempt, contexts, pc, now, placeVars, switchVars>>

\* PreemptGuard::new and its drop.
PreemptEnter(cpu) ==
    LET c == current[cpu] IN
    /\ Runs(cpu, c)
    /\ c \notin guards \cup IdleContexts
    /\ preempt[c] = 0
    /\ preempt' = [preempt EXCEPT ![c] = @ + 1]
    /\ UNCHANGED <<status, affinity, wake, contexts, pc, now, placeVars, switchVars>>

PreemptExit(cpu) ==
    LET c == current[cpu] IN
    /\ Runs(cpu, c)
    /\ c \notin guards
    /\ preempt[c] > 0
    /\ preempt' = [preempt EXCEPT ![c] = @ - 1]
    /\ UNCHANGED <<status, affinity, wake, contexts, pc, now, placeVars, switchVars>>

\* proc scheme, handle "sched-affinity": any mask, at any time.
SetAffinity(cpu, c, mask) ==
    /\ pc[cpu] = "run"
    /\ c \in (User \cap contexts) \ guards
    /\ affinity' = [affinity EXCEPT ![c] = mask]
    /\ UNCHANGED <<status, wake, preempt, contexts, pc, now, placeVars, switchVars>>

\* exit_this_context: first the status, then (another lock) the removal from
\* CONTEXTS, then the switch that never returns.
ExitDead(cpu) ==
    LET c == current[cpu] IN
    /\ Runs(cpu, c)
    /\ c \notin guards \cup IdleContexts
    /\ preempt[c] = 0
    /\ status' = [status EXCEPT ![c] = "Dead"]
    /\ pc' = [pc EXCEPT ![cpu] = "exit"]
    /\ UNCHANGED <<affinity, wake, preempt, contexts, now, placeVars, switchVars>>

ExitRemove(cpu) ==
    /\ pc[cpu] = "exit"
    /\ \A p \in Cpus : pc[p] # "scan"
    /\ contexts' = contexts \ {current[cpu]}
    /\ pc' = [pc EXCEPT ![cpu] = "spin"]
    /\ UNCHANGED <<status, affinity, wake, preempt, now, placeVars, switchVars>>

\* tick() after enough timer interrupts, the loop of run_userspace, sched_yield:
\* the current context calls switch() without having blocked.
Tick(cpu) ==
    /\ pc[cpu] = "run"
    /\ pc' = [pc EXCEPT ![cpu] = "spin"]
    /\ UNCHANGED <<status, affinity, wake, preempt, contexts, now, placeVars, switchVars>>

\* The clock advances.
Advance ==
    /\ now < MaxTime
    /\ now' = now + 1
    /\ UNCHANGED <<status, affinity, wake, preempt, contexts, pc, placeVars, switchVars>>

-----------------------------------------------------------------------------
(* switch()                                                                 *)

\* The compare_exchange loop on CONTEXT_SWITCH_LOCK succeeds.
Acquire(cpu) ==
    /\ pc[cpu] = "spin"
    /\ lock = NoCpu
    /\ lock' = cpu
    /\ pc' = [pc EXCEPT ![cpu] = "begin"]
    /\ UNCHANGED <<status, affinity, wake, preempt, contexts, left, skip_idle, guards, now, placeVars>>

\* Locks the previous context.  It cannot be preempted: release and return.
BeginRefused(cpu) ==
    /\ pc[cpu] = "begin"
    /\ preempt[current[cpu]] > 0
    /\ lock' = NoCpu
    /\ pc' = [pc EXCEPT ![cpu] = "run"]
    /\ UNCHANGED <<status, affinity, wake, preempt, contexts, left, skip_idle, guards, now, placeVars>>

\* The scan without its second range.
BeginScan_OneRange(cpu) ==
    /\ pc[cpu] = "begin"
    /\ preempt[current[cpu]] = 0
    /\ guards' = {current[cpu]}
    /\ left' = {c \in contexts : c > current[cpu]}
    /\ skip_idle' = TRUE
    /\ pc' = [pc EXCEPT ![cpu] = "scan"]
    /\ UNCHANGED <<status, affinity, wake, preempt, contexts, lock, now, placeVars>>

BeginScan(cpu) ==
    /\ pc[cpu] = "begin"
    /\ preempt[current[cpu]] = 0
    /\ guards' = {current[cpu]}
    /\ left' = contexts \ {current[cpu]}
    /\ skip_idle' = TRUE
    /\ pc' = [pc EXCEPT ![cpu] = "scan"]
    /\ UNCHANGED <<status, affinity, wake, preempt, contexts, lock, now, placeVars>>

\* The two chained ranges: contexts above prev in pointer order, then below.
Precedes(prev, c, d) == IF (c > prev) = (d > prev) THEN c =< d ELSE c > prev

\* What the loop body looks at next: the ranges in order, then the idle context.
IsCandidate(cpu, c) ==
    IF left = {} THEN c = Idle[cpu]
    ELSE c \in left /\ \A d \in left : Precedes(current[cpu], c, d)

\* update_runnable: the wake-up time of a soft-blocked context, if reached,
\* makes it runnable; then a runnable context can be switched to.
WakeDue(c) == status[c] = "Blocked" /\ wake[c] # Never /\ now >= wake[c]

\* update_runnable without its first test, and without its second.
Considered_Running(cpu, c) == cpu \in affinity[c]
Considered(cpu, c) == ~running[c] /\ cpu \in affinity[c]

CanSwitch(cpu, c) == Considered(cpu, c) /\ (status[c] = "Runnable" \/ WakeDue(c))

\* skip_idle is never reset.
SkipIdle_Always(cpu) ==
    /\ pc[cpu] = "scan"
    /\ left # {}
    /\ IsCandidate(cpu, Idle[cpu])
    /\ skip_idle
    /\ left' = left \ {Idle[cpu]}
    /\ UNCHANGED <<status, affinity, wake, preempt, contexts, lock, pc, skip_idle, guards, now, placeVars>>

\* The first time the idle context shows up it is passed over.  At the end of
\* the chain (left = {}) this ends the loop without a target.
SkipIdle(cpu) ==
    /\ pc[cpu] = "scan"
    /\ left # {}
    /\ IsCandidate(cpu, Idle[cpu])
    /\ skip_idle
    /\ skip_idle' = FALSE
    /\ left' = left \ {Idle[cpu]}
    /\ UNCHANGED <<status, affinity, wake, preempt, contexts, lock, pc, guards, now, placeVars>>

\* A candidate that update_runnable refuses.
SkipCandidate(cpu, c) ==
    /\ pc[cpu] = "scan"
    /\ left # {}
    /\ IsCandidate(cpu, c)
    /\ ~(c = Idle[cpu] /\ skip_idle)
    /\ ~CanSwitch(cpu, c)
    /\ left' = left \ {c}
    /\ UNCHANGED <<status, affinity, wake, preempt, contexts, lock, pc, skip_idle, guards, now, placeVars>>

\* A candidate that can be switched to: both guards are kept, the contexts and
\* the CPU are updated, and switch_to changes stacks.
SwitchTo(cpu, next) ==
    LET prev == current[cpu] IN
    /\ pc[cpu] = "scan"
    /\ IsCandidate(cpu, next)
    /\ ~(next = Idle[cpu] /\ skip_idle)
    /\ CanSwitch(cpu, next)
    /\ wake' = [wake EXCEPT ![next] = IF WakeDue(next) THEN Never ELSE @]
    /\ status' = [status EXCEPT ![next] = "Runnable"]
    /\ running' = [running EXCEPT ![prev] = FALSE, ![next] = TRUE]
    /\ cpu_id' = [cpu_id EXCEPT ![next] = cpu]
    /\ current' = [current EXCEPT ![cpu] = next]
    /\ guards' = {prev, next}
    /\ left' = {}
    /\ pc' = [pc EXCEPT ![cpu] = "hook"]
    /\ UNCHANGED <<affinity, preempt, contexts, lock, skip_idle, now>>

\* The chain is exhausted without a target: unlock everything and return.
NoTarget(cpu) ==
    /\ pc[cpu] = "scan"
    /\ left = {}
    /\ skip_idle \/ ~CanSwitch(cpu, Idle[cpu])
    /\ guards' = {}
    /\ lock' = NoCpu
    /\ pc' = [pc EXCEPT ![cpu] = "run"]
    /\ UNCHANGED <<status, affinity, wake, preempt, contexts, left, skip_idle, now, placeVars>>

\* switch_finish_hook, on the new stack: drop both guards, then the lock.
FinishHook(cpu) ==
    /\ pc[cpu] = "hook"
    /\ guards' = {}
    /\ pc' = [pc EXCEPT ![cpu] = "unlock"]
    /\ UNCHANGED <<status, affinity, wake, preempt, contexts, lock, left, skip_idle, now, placeVars>>

FinishUnlock(cpu) ==
    /\ pc[cpu] = "unlock"
    /\ lock' = NoCpu
    /\ pc' = [pc EXCEPT ![cpu] = "run"]
    /\ UNCHANGED <<status, affinity, wake, preempt, contexts, left, skip_idle, guards, now, placeVars>>

-----------------------------------------------------------------------------

\* The steps of switch() once its lock is taken: they run with interrupts off.
SwitchStep(cpu) ==
    \/ BeginRefused(cpu) \/ BeginScan(cpu)
    \/ SkipIdle(cpu) \/ NoTarget(cpu)
    \/ \E c \in Context : SkipCandidate(cpu, c) \/ SwitchTo(cpu, c)
    \/ FinishHook(cpu) \/ FinishUnlock(cpu)

Next ==
    \/ \E cpu \in Cpus :
        \/ Tick(cpu) \/ Acquire(cpu) \/ SwitchStep(cpu)
        \/ PreemptEnter(cpu) \/ PreemptExit(cpu)
        \/ ExitDead(cpu) \/ ExitRemove(cpu)
        \/ \E w \in Time \cup {Never} : Block(cpu, w)
        \/ \E c \in Context :
            \/ Spawn(cpu, c) \/ Start(cpu, c) \/ Unblock(cpu, c)
            \/ \E mask \in Masks : SetAffinity(cpu, c, mask)
    \/ Advance

Spec == Init /\ [][Next]_vars

-----------------------------------------------------------------------------
(* Properties                                                               *)

\* The type invariant of the scheduler's state.
TypeOK ==
    /\ status \in [Context -> Status]
    /\ running \in [Context -> BOOLEAN]
    /\ cpu_id \in [Context -> Cpus \cup {NoCpu}]
    /\ affinity \in [Context -> SUBSET Cpus]
    /\ wake \in [Context -> Time \cup {Never}]
    /\ preempt \in [Context -> Nat]
    /\ contexts \subseteq Context
    /\ current \in [Cpus -> Context]
    /\ lock \in Cpus \cup {NoCpu}
    /\ pc \in [Cpus -> {"run", "exit", "spin", "begin", "scan", "hook", "unlock"}]
    /\ left \subseteq Context
    /\ skip_idle \in BOOLEAN
    /\ guards \subseteq Context
    /\ now \in Time

\* No context, and so no kernel stack, is ever current on two CPUs: what the
\* `running` flag, the scan and CONTEXT_SWITCH_LOCK of switch() are for.
OneCpuPerContext == \A p, q \in Cpus : current[p] = current[q] => p = q

\* Context::running is TRUE exactly for the contexts some CPU is on: the flag
\* update_runnable trusts is never stale, whatever CPU wrote it.
RunningIsCurrent == \A c \in Context : running[c] <=> \E cpu \in Cpus : current[cpu] = c

\* switch() never returns into a context that is not runnable: a context that
\* blocked itself does not resume before it was unblocked or its wake-up time
\* came, and exit_this_context never reaches its unreachable!().
SwitchReturnsRunnable ==
    \A cpu \in Cpus : pc[cpu] = "run" => status[current[cpu]] = "Runnable"

\* A CPU leaves a context only while that context holds no PreemptGuard, and
\* enters one only if its affinity mask has the CPU at that moment.
LeavesAndEnters ==
    [][\A cpu \in Cpus : current'[cpu] # current[cpu] =>
          /\ preempt[current[cpu]] = 0
          /\ cpu \in affinity[current'[cpu]]]_vars

\* Starvation freedom of the round-robin scan: a context that stays runnable and
\* keeps its affinity mask is run again and again.  Each path through switch() and
\* switch_finish_hook must give CONTEXT_SWITCH_LOCK back for that.
NoStarvation ==
    \A c \in User, mask \in (Masks \cup {Cpus}) \ {{}} :
        <>[](c \in contexts /\ status[c] = "Runnable" /\ affinity[c] = mask) => []<>running[c]

\* Code that runs with interrupts off gets to its end.  Timer interrupts reach
\* every CPU and do not all fall into PreemptGuard sections, which end.  A spin
\* on CONTEXT_SWITCH_LOCK, or on the write lock of CONTEXTS, that finds the lock
\* free again and again eventually takes it.
Fairness ==
    \A cpu \in Cpus :
        /\ WF_vars(SwitchStep(cpu))
        /\ SF_vars(PreemptExit(cpu))
        /\ SF_vars(Tick(cpu) /\ preempt[current[cpu]] = 0)
        /\ SF_vars(Acquire(cpu))
        /\ SF_vars(ExitRemove(cpu))

FairSpec == Spec /\ Fairness
=============================================================================
