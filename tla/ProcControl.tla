---------------------------- MODULE ProcControl ----------------------------
(***************************************************************************)
(* How one context controls another through the proc scheme               *)
(* (scheme/proc.rs): the verbs of the status handle (Stop, Unstop,         *)
(* Interrupt, ForceKill), the start handle, and try_stop_context, which    *)
(* the register handles use to look at a context that may be running.      *)
(* The target blocks, is signalled, and exits (exit_this_context) at the   *)
(* same time.                                                              *)
(*                                                                         *)
(* Scheduling is Switch seen from above: a context enters a CPU when it is *)
(* listed, runnable and not running, and leaves it only inside switch(),   *)
(* which always finds at least the idle context.  Each action holds the    *)
(* write lock of the one context whose fields it changes.                  *)
(***************************************************************************)
EXTENDS Naturals, FiniteSets

CONSTANTS
    Controllers,    \* contexts that write to proc handles
    Targets,        \* contexts the handles are about
    Verbs,          \* the operations the controllers use
    Cpus,           \* how many contexts can run at the same time
    None            \* no target

Context == Controllers \cup Targets

ProcControlAssumption ==
    /\ Cpus \in Nat \ {0}
    /\ None \notin Context
    /\ Verbs \subseteq {"Start", "Stop", "Unstop", "Interrupt", "ForceKill", "TryStop"}

VARIABLES
    status,     \* Context::status
    running,    \* Context::running
    sigkilled,  \* Context::being_sigkilled
    contexts,   \* CONTEXTS
    seen,       \* switch_internals.being_sigkilled of the CPU the context is on
    pending,    \* an unblocked signal is pending in the shared signal page
    sent,       \* the sender of that signal has done its Interrupt, while nobody
                \* was stopping the context
    pc,         \* where the context is
    target,     \* try_stop_context: whom this context is stopping
    prev_status \* try_stop_context: the status it replaced

vars == <<status, running, sigkilled, contexts, seen, pending, sent, pc, target, prev_status>>
stopVars == <<target, prev_status>>
killVars == <<sigkilled, seen>>
sigVars  == <<pending, sent>>

Status == {"Runnable", "Blocked", "NotYetStarted", "Stopped", "Dead"}

\* user: outside the kernel.  tick, wait, call, cancel, loop: inside switch(),
\* called by the timer, by WaitCondition::wait, by UserInner::call before and after
\* it has cancelled the request, by try_stop_context.
\* closing: inside switch() while exit_this_context closes files.
PC == {"user", "tick", "handler", "wait", "call", "woken", "cancel", "rewoken",
       "loop", "check", "apply", "exit", "closing", "remove", "exited"}
InSwitch == {"tick", "wait", "call", "cancel", "loop", "closing", "exited"}

Init ==
    /\ status = [c \in Context |-> IF c \in Controllers THEN "Runnable" ELSE "NotYetStarted"]
    /\ running = [c \in Context |-> FALSE]
    /\ sigkilled = [c \in Context |-> FALSE]
    /\ contexts = Context
    /\ seen = [c \in Context |-> FALSE]
    /\ pending = [c \in Context |-> FALSE]
    /\ sent = [c \in Context |-> FALSE]
    /\ pc = [c \in Context |-> "wait"]
    /\ target = [c \in Context |-> None]
    /\ prev_status = [c \in Context |-> "Runnable"]

-----------------------------------------------------------------------------
(* Scheduling                                                               *)

\* tick(): the timer interrupts user code and calls switch().
Tick(c) ==
    /\ running[c] /\ pc[c] = "user"
    /\ pc' = [pc EXCEPT ![c] = "tick"]
    /\ UNCHANGED <<status, running, contexts, stopVars, killVars, sigVars>>

\* switch() stores FALSE in prev_context.running.
Leave(c) ==
    /\ running[c] /\ pc[c] \in InSwitch
    /\ running' = [running EXCEPT ![c] = FALSE]
    /\ UNCHANGED <<status, contexts, pc, stopVars, killVars, sigVars>>

\* The resumed system call does not look at being_sigkilled, and neither does
\* signal_handler.
Resumed_Ignores(c) ==
    CASE pc[c] = "tick" -> "user"
      [] pc[c] = "call" -> "woken"
      [] pc[c] = "cancel" -> "rewoken"
      [] pc[c] = "loop" -> "check"
      [] pc[c] = "closing" -> "exit"
      [] OTHER -> "user"

\* Where the code goes on when switch() returns.  A system call that ends looks
\* at the CPU's being_sigkilled, which this very switch has written.
Resumed(c) ==
    CASE pc[c] = "tick" -> "handler"
      [] pc[c] = "call" -> "woken"
      [] pc[c] = "cancel" -> "rewoken"
      [] pc[c] = "loop" -> "check"
      [] pc[c] = "closing" -> "exit"
      [] OTHER -> IF sigkilled[c] THEN "exit" ELSE "user"

\* switch() finds c: it is in CONTEXTS, not running, and runnable.
Dispatch(c) ==
    /\ c \in contexts
    /\ ~running[c]
    /\ status[c] = "Runnable"
    /\ Cardinality({d \in Context : running[d]}) < Cpus
    /\ running' = [running EXCEPT ![c] = TRUE]
    /\ seen' = [seen EXCEPT ![c] = sigkilled[c]]
    /\ pc' = [pc EXCEPT ![c] = Resumed(c)]
    /\ UNCHANGED <<status, contexts, sigkilled, stopVars, sigVars>>

\* tick() ends in signal_handler: a context being killed exits.
SignalHandler(c) ==
    /\ running[c] /\ pc[c] = "handler"
    /\ pc' = [pc EXCEPT ![c] = IF sigkilled[c] THEN "exit" ELSE "user"]
    /\ UNCHANGED <<status, running, contexts, stopVars, killVars, sigVars>>

-----------------------------------------------------------------------------
(* The target                                                               *)

\* Mutant of WaitBlock: it does not look for signals.
WaitBlock_Unchecked(c) ==
    /\ running[c] /\ pc[c] = "user" /\ c \in Targets
    /\ status' = [status EXCEPT ![c] = IF @ = "Runnable" THEN "Blocked" ELSE @]
    /\ pc' = [pc EXCEPT ![c] = "wait"]
    /\ UNCHANGED <<running, contexts, stopVars, killVars, sigVars>>

\* WaitCondition::wait under the context's lock: no unblocked signal is pending,
\* so block(), then switch().
WaitBlock(c) ==
    /\ running[c] /\ pc[c] = "user" /\ c \in Targets
    /\ ~pending[c]
    /\ status' = [status EXCEPT ![c] = IF @ = "Runnable" THEN "Blocked" ELSE @]
    /\ pc' = [pc EXCEPT ![c] = "wait"]
    /\ UNCHANGED <<running, contexts, stopVars, killVars, sigVars>>

\* UserInner::call: block() without a look at the signals, then switch().
CallBlock(c) ==
    /\ running[c] /\ pc[c] = "user" /\ c \in Targets
    /\ status' = [status EXCEPT ![c] = IF @ = "Runnable" THEN "Blocked" ELSE @]
    /\ pc' = [pc EXCEPT ![c] = "call"]
    /\ UNCHANGED <<running, contexts, stopVars, killVars, sigVars>>

\* The scheme has not answered: unless the context is being killed, the request is
\* cancelled, if it has not been, and the context blocks again, also unchecked.  A
\* call whose time is up is cancelled and blocks even then.
CallAgain(c) ==
    /\ running[c]
    /\ pc[c] = "woken" \/ (pc[c] = "rewoken" /\ ~sigkilled[c])
    /\ status' = [status EXCEPT ![c] = IF @ = "Runnable" THEN "Blocked" ELSE @]
    /\ pc' = [pc EXCEPT ![c] = "cancel"]
    /\ UNCHANGED <<running, contexts, stopVars, killVars, sigVars>>

\* The scheme has answered, or the context is being killed: the system call ends.
CallAnswered(c) ==
    /\ running[c] /\ pc[c] \in {"woken", "rewoken"}
    /\ pc' = [pc EXCEPT ![c] = IF seen[c] THEN "exit" ELSE "user"]
    /\ UNCHANGED <<status, running, contexts, stopVars, killVars, sigVars>>

\* What it waits for happens: Context::unblock.
Unblock(c) ==
    /\ pc[c] \in {"wait", "call", "cancel", "closing"}
    /\ status[c] = "Blocked"
    /\ status' = [status EXCEPT ![c] = "Runnable"]
    /\ UNCHANGED <<running, contexts, pc, stopVars, killVars, sigVars>>

\* The process manager sets a bit in the signal page, before its Interrupt.
SignalSet(c) ==
    /\ c \in Targets /\ pc[c] # "exited"
    /\ pending' = [pending EXCEPT ![c] = TRUE]
    /\ UNCHANGED <<status, running, contexts, sent, pc, stopVars, killVars>>

\* User code handles the signal and clears the bit.
SignalHandled(c) ==
    /\ running[c] /\ pc[c] = "user" /\ pending[c]
    /\ pending' = [pending EXCEPT ![c] = FALSE]
    /\ sent' = [sent EXCEPT ![c] = FALSE]
    /\ UNCHANGED <<status, running, contexts, pc, stopVars, killVars>>

\* The status handle's ForceKill on the own context, or an exception without a
\* handler: exit_this_context.
ExitSelf(c) ==
    /\ running[c] /\ pc[c] = "user" /\ c \in Targets
    /\ pc' = [pc EXCEPT ![c] = "exit"]
    /\ UNCHANGED <<status, running, contexts, stopVars, killVars, sigVars>>

\* Closing the files sends messages to schemes and waits for their answers.
ExitClosing(c) ==
    /\ running[c] /\ pc[c] = "exit"
    /\ status' = [status EXCEPT ![c] = IF @ = "Runnable" THEN "Blocked" ELSE @]
    /\ pc' = [pc EXCEPT ![c] = "closing"]
    /\ UNCHANGED <<running, contexts, stopVars, killVars, sigVars>>

\* The files are closed: the status is overwritten, whatever it is by now.
ExitDead(c) ==
    /\ running[c] /\ pc[c] = "exit"
    /\ status' = [status EXCEPT ![c] = "Dead"]
    /\ pc' = [pc EXCEPT ![c] = "remove"]
    /\ UNCHANGED <<running, contexts, stopVars, killVars, sigVars>>

\* Under the lock of CONTEXTS; then switch(), which must not return.
ExitRemove(c) ==
    /\ running[c] /\ pc[c] = "remove"
    /\ contexts' = contexts \ {c}
    /\ pc' = [pc EXCEPT ![c] = "exited"]
    /\ UNCHANGED <<status, running, stopVars, killVars, sigVars>>

-----------------------------------------------------------------------------
(* The controllers.  Every write to a handle is a system call: at its end    *)
(* the caller exits if it has been killed.                                   *)

Calls(a, verb) ==
    /\ verb \in Verbs
    /\ a \in Controllers
    /\ running[a] /\ pc[a] = "user"

Returned(a) == [pc EXCEPT ![a] = IF seen[a] THEN "exit" ELSE "user"]

\* start handle: only a context that has not been started.
Start(a, c) ==
    /\ Calls(a, "Start")
    /\ status[c] = "NotYetStarted"
    /\ status' = [status EXCEPT ![c] = "Runnable"]
    /\ pc' = Returned(a)
    /\ UNCHANGED <<running, contexts, stopVars, killVars, sigVars>>

\* Stop: refused for a dead context, otherwise whatever the status was.
Stop(a, c) ==
    /\ Calls(a, "Stop")
    /\ status[c] # "Dead"
    /\ status' = [status EXCEPT ![c] = "Stopped"]
    /\ pc' = Returned(a)
    /\ UNCHANGED <<running, contexts, stopVars, killVars, sigVars>>

\* Unstop.
Unstop(a, c) ==
    /\ Calls(a, "Unstop")
    /\ status[c] = "Stopped"
    /\ status' = [status EXCEPT ![c] = "Runnable"]
    /\ pc' = Returned(a)
    /\ UNCHANGED <<running, contexts, stopVars, killVars, sigVars>>

\* Interrupt: unblock(), which acts on a soft-blocked context only.
Interrupt(a, c) ==
    /\ Calls(a, "Interrupt")
    /\ status' = [status EXCEPT ![c] = IF @ = "Blocked" THEN "Runnable" ELSE @]
    /\ sent' = [sent EXCEPT ![c] = pending[c] /\ \A b \in Controllers : target[b] # c]
    /\ pc' = Returned(a)
    /\ UNCHANGED <<running, contexts, pending, stopVars, killVars>>

\* ForceKill of another context: runnable, whatever the status was.
ForceKill(a, c) ==
    /\ Calls(a, "ForceKill")
    /\ status' = [status EXCEPT ![c] = "Runnable"]
    /\ sigkilled' = [sigkilled EXCEPT ![c] = TRUE]
    /\ pc' = Returned(a)
    /\ UNCHANGED <<running, contexts, seen, stopVars, sigVars>>

\* try_stop_context on another context: replace its status, and look whether it
\* is running, under one write lock.
TryStop(a, c) ==
    /\ Calls(a, "TryStop")
    /\ target' = [target EXCEPT ![a] = c]
    /\ prev_status' = [prev_status EXCEPT ![a] = status[c]]
    /\ status' = [status EXCEPT ![c] = "NotYetStarted"]
    /\ pc' = [pc EXCEPT ![a] = IF running[c] THEN "loop" ELSE "apply"]
    /\ UNCHANGED <<running, contexts, killVars, sigVars>>

\* Wait until stopped: after each switch(), read running under the read lock.
TryStopCheck(a) ==
    /\ running[a] /\ pc[a] = "check"
    /\ pc' = [pc EXCEPT ![a] = IF running[target[a]] THEN "loop" ELSE "apply"]
    /\ UNCHANGED <<status, running, contexts, stopVars, killVars, sigVars>>

\* The assertion holds, the callback runs, and the status goes back.
TryStopApply(a) ==
    /\ running[a] /\ pc[a] = "apply"
    /\ ~running[target[a]]
    /\ status' = [status EXCEPT ![target[a]] = prev_status[a]]
    /\ target' = [target EXCEPT ![a] = None]
    /\ prev_status' = [prev_status EXCEPT ![a] = "Runnable"]
    /\ pc' = Returned(a)
    /\ UNCHANGED <<running, contexts, killVars, sigVars>>

-----------------------------------------------------------------------------

\* The steps of code that runs in the kernel with interrupts off.
Kernel(c) ==
    \/ Leave(c) \/ SignalHandler(c) \/ ExitDead(c) \/ ExitRemove(c)
    \/ CallAgain(c) \/ CallAnswered(c) \/ TryStopCheck(c) \/ TryStopApply(c)

Next ==
    \/ \E c \in Context :
        \/ Tick(c) \/ Dispatch(c) \/ Kernel(c)
        \/ WaitBlock(c) \/ CallBlock(c) \/ Unblock(c) \/ SignalSet(c) \/ SignalHandled(c)
        \/ ExitSelf(c) \/ ExitClosing(c)
    \/ \E a \in Controllers : \E c \in Targets \ {a} :
        \/ Start(a, c) \/ Stop(a, c) \/ Unstop(a, c) \/ Interrupt(a, c)
        \/ ForceKill(a, c) \/ TryStop(a, c)

Spec == Init /\ [][Next]_vars

\* Kernel code gets to its end, timer interrupts come, and the round-robin scan
\* serves every runnable context again and again (NoStarvation of Switch).
Fairness ==
    \A c \in Context :
        WF_vars(Kernel(c)) /\ SF_vars(Tick(c)) /\ SF_vars(Dispatch(c))

FairSpec == Spec /\ Fairness

-----------------------------------------------------------------------------
(* Properties                                                               *)

\* The comment in signal_handler (context/signal.rs): a context "will check for
\* signals (with the context lock held, which is required when sending signals).
\* After that, any detection of pending unblocked signals by the sender, will
\* result in the context being unblocked": once the sender has done its
\* Interrupt, the context does not sleep in WaitCondition::wait.  In two places
\* the code does not do what the comment says.  UserInner::call checks for no
\* signals before it blocks, so a signalled context may sleep there until the
\* scheme answers (pc "call" and "cancel").  And an Interrupt that meets a context held by
\* try_stop_context finds HardBlocked and does nothing; the status Blocked is put
\* back later (sent is then not set).
SignalledIsNotBlocked ==
    \A c \in Context : pc[c] = "wait" /\ pending[c] /\ sent[c] => status[c] # "Blocked"

Killed(c) == sigkilled[c]
Gone(c) == pc[c] = "exited" \/ status[c] # "Runnable"

\* A context that ForceKill marked exits, unless it sleeps or is stopped: the
\* mark reaches the code that acts on it (signal_handler after a tick, the end
\* of a system call) on whatever CPU the context next runs.
KilledExits == \A c \in Targets : []<>(Killed(c) => Gone(c))

=============================================================================
