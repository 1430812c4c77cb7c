------------------------------- MODULE Sleep -------------------------------
(***************************************************************************)
(* The three ways to sleep that share Context::wake and Context::status:   *)
(* FUTEX_WAIT / FUTEX_WAKE (syscall/futex.rs), nanosleep (syscall/time.rs) *)
(* and WaitCondition::wait (sync/wait_condition.rs), with the timeouts     *)
(* that update_runnable (context/switch.rs) expires and signals.           *)
(*                                                                         *)
(* There is one futex word, at one physical address that every context     *)
(* maps at the same virtual address; Space says which address space a      *)
(* context lives in.  A context inside switch() resumes when it is         *)
(* runnable (SwitchReturnsRunnable of Switch).                             *)
(***************************************************************************)
EXTENDS Naturals, Sequences, FiniteSetsExt

CONSTANTS
    Context,
    Space,          \* Space[c]: the address space of c
    WakeCounts,     \* the values that user code passes to FUTEX_WAKE
    Never,          \* Option::None, for wake and timeouts
    NoContext,      \* FUTEXES is not locked
    MaxTime,        \* bound on the clock
    MaxWord,        \* bound on the stores to the futex word
    MaxEntries      \* bound on the entries in FUTEXES

Time == 0 .. MaxTime

SleepAssumption ==
    /\ MaxTime \in Nat /\ MaxWord \in Nat /\ MaxEntries \in Nat
    /\ WakeCounts \subseteq Nat
    /\ Never \notin Time
    /\ NoContext \notin Context

\* What NoMissedWake takes for granted of the callers: FUTEX_WAKE is called for all
\* who wait, by threads of one address space.
WakesAll ==
    /\ \A n \in WakeCounts : n >= MaxEntries
    /\ \A c, d \in Context : Space[c] = Space[d]

VARIABLES
    status,     \* Context::status
    wake,       \* Context::wake
    pc,         \* where the context is
    futexes,    \* FUTEXES[physical address]: the entries
    lock,       \* who holds the lock of FUTEXES
    word,       \* the futex word
    val,        \* FUTEX_WAIT: expected value.  FUTEX_WAKE: contexts left to wake
    timeout,    \* the timeout of the call in progress
    waitlist,   \* WaitCondition::contexts
    pending,    \* an unblocked signal is pending
    now         \* time::monotonic()

vars == <<status, wake, pc, futexes, lock, word, val, timeout, waitlist, pending, now>>
futexVars == <<futexes, lock, word>>

Init ==
    /\ status = [c \in Context |-> "Runnable"]
    /\ wake = [c \in Context |-> Never]
    /\ pc = [c \in Context |-> "user"]
    /\ futexes = <<>>
    /\ lock = NoContext
    /\ word = 0
    /\ val = [c \in Context |-> 0]
    /\ timeout = [c \in Context |-> Never]
    /\ waitlist = {}
    /\ pending = [c \in Context |-> FALSE]
    /\ now = 0

\* The call of c ends; its parameters are forgotten, and what it returns is left out.
Return(c) ==
    /\ pc' = [pc EXCEPT ![c] = "user"]
    /\ val' = [val EXCEPT ![c] = 0]
    /\ timeout' = [timeout EXCEPT ![c] = Never]

\* Context::block of the caller.
Blocked(c) == [status EXCEPT ![c] = IF @ = "Runnable" THEN "Blocked" ELSE @]

\* Context::unblock of the contexts in S.
Unblocked(S) == [c \in Context |-> IF c \in S /\ status[c] = "Blocked" THEN "Runnable" ELSE status[c]]

-----------------------------------------------------------------------------
(* FUTEX_WAIT                                                               *)

\* Lock FUTEXES and load the word; t is the absolute timeout, or none.
FutexLock(c, t) ==
    /\ pc[c] = "user"
    /\ lock = NoContext
    /\ Len(futexes) < MaxEntries
    /\ t \in {Never, now + 1}
    /\ lock' = c
    /\ timeout' = [timeout EXCEPT ![c] = t]
    /\ pc' = [pc EXCEPT ![c] = "check"]
    /\ UNCHANGED <<status, wake, futexes, word, val, waitlist, pending, now>>

\* The load finds another value than the caller's: EAGAIN.
FutexAgain(c) ==
    /\ pc[c] = "check"
    /\ lock' = NoContext
    /\ Return(c)
    /\ UNCHANGED <<status, wake, futexes, word, waitlist, pending, now>>

\* It finds the expected value.
FutexExpected(c) ==
    /\ pc[c] = "check"
    /\ val' = [val EXCEPT ![c] = word]
    /\ pc' = [pc EXCEPT ![c] = "block"]
    /\ UNCHANGED <<status, wake, futexes, lock, word, timeout, waitlist, pending, now>>

\* Under the context's lock: store wake, look for signals, block.
FutexInterrupted(c) ==
    /\ pc[c] = "block"
    /\ pending[c]
    /\ wake' = [wake EXCEPT ![c] = timeout[c]]
    /\ lock' = NoContext
    /\ Return(c)
    /\ UNCHANGED <<status, futexes, word, waitlist, pending, now>>

\* The timeout is not handed to the scheduler.
FutexBlock_NoWake(c) ==
    /\ pc[c] = "block"
    /\ ~pending[c]
    /\ status' = Blocked(c)
    /\ pc' = [pc EXCEPT ![c] = "push"]
    /\ UNCHANGED <<wake, futexVars, val, timeout, waitlist, pending, now>>

FutexBlock(c) ==
    /\ pc[c] = "block"
    /\ ~pending[c]
    /\ wake' = [wake EXCEPT ![c] = timeout[c]]
    /\ status' = Blocked(c)
    /\ pc' = [pc EXCEPT ![c] = "push"]
    /\ UNCHANGED <<futexVars, val, timeout, waitlist, pending, now>>

\* Push the entry, unlock, switch().
FutexPush(c) ==
    /\ pc[c] = "push"
    /\ futexes' = Append(futexes, [context |-> c, addr_space |-> Space[c]])
    /\ lock' = NoContext
    /\ pc' = [pc EXCEPT ![c] = "futex"]
    /\ UNCHANGED <<status, wake, word, val, timeout, waitlist, pending, now>>

-----------------------------------------------------------------------------
(* FUTEX_WAKE                                                               *)

\* User code changes the word, and then calls FUTEX_WAKE.
Store(c) ==
    /\ pc[c] = "user"
    /\ word < MaxWord
    /\ word' = word + 1
    /\ pc' = [pc EXCEPT ![c] = "stored"]
    /\ UNCHANGED <<status, wake, futexes, lock, val, timeout, waitlist, pending, now>>

FutexWake(c, n) ==
    /\ pc[c] = "stored"
    /\ lock = NoContext
    /\ lock' = c
    /\ val' = [val EXCEPT ![c] = n]
    /\ pc' = [pc EXCEPT ![c] = "waking"]
    /\ UNCHANGED <<status, wake, futexes, word, timeout, waitlist, pending, now>>

\* The entries that FUTEX_WAKE of c accepts: same virtual address, same space.
Matching(c) == {i \in DOMAIN futexes : futexes[i].addr_space = Space[c]}

\* Vec::swap_remove: the last entry takes the place of entry i.
SwapRemove(s, i) == SubSeq([s EXCEPT ![i] = s[Len(s)]], 1, Len(s) - 1)

\* The loop ends after the first entry.
FutexWakeOne_Single(c) ==
    /\ pc[c] = "waking"
    /\ val[c] > 0 /\ Matching(c) # {}
    /\ LET i == Min(Matching(c)) IN
       /\ status' = Unblocked({futexes[i].context})
       /\ futexes' = SwapRemove(futexes, i)
    /\ val' = [val EXCEPT ![c] = 0]
    /\ UNCHANGED <<wake, pc, lock, word, timeout, waitlist, pending, now>>

\* One round of the loop that finds a matching entry.
FutexWakeOne(c) ==
    /\ pc[c] = "waking"
    /\ val[c] > 0 /\ Matching(c) # {}
    /\ LET i == Min(Matching(c)) IN
       /\ status' = Unblocked({futexes[i].context})
       /\ futexes' = SwapRemove(futexes, i)
    /\ val' = [val EXCEPT ![c] = @ - 1]
    /\ UNCHANGED <<wake, pc, lock, word, timeout, waitlist, pending, now>>

FutexWakeEnd(c) ==
    /\ pc[c] = "waking"
    /\ val[c] = 0 \/ Matching(c) = {}
    /\ lock' = NoContext
    /\ Return(c)
    /\ UNCHANGED <<status, wake, futexes, word, waitlist, pending, now>>

-----------------------------------------------------------------------------
(* nanosleep and WaitCondition                                              *)

\* nanosleep up to the switch().
Nanosleep(c) ==
    /\ pc[c] = "user" /\ ~pending[c]
    /\ now < MaxTime
    /\ timeout' = [timeout EXCEPT ![c] = now + 1]
    /\ wake' = [wake EXCEPT ![c] = now + 1]
    /\ status' = Blocked(c)
    /\ pc' = [pc EXCEPT ![c] = "nanosleep"]
    /\ UNCHANGED <<futexVars, val, waitlist, pending, now>>

\* WaitCondition::wait up to the switch(): Pipe has its inner steps.
Wait(c) ==
    /\ pc[c] = "user" /\ ~pending[c]
    /\ status' = Blocked(c)
    /\ waitlist' = waitlist \cup {c}
    /\ pc' = [pc EXCEPT ![c] = "wait"]
    /\ UNCHANGED <<wake, futexVars, val, timeout, pending, now>>

\* WaitCondition::notify.
Notify ==
    /\ waitlist # {}
    /\ status' = Unblocked(waitlist)
    /\ waitlist' = {}
    /\ UNCHANGED <<wake, pc, futexVars, val, timeout, pending, now>>

-----------------------------------------------------------------------------
(* Waking up: switch() returns                                              *)

Asleep(c) == pc[c] \in {"futex", "nanosleep", "wait"}

\* update_runnable: a runnable context is taken as it is; the wake-up time of a
\* blocked one, when reached, makes it runnable and is cleared.
Woken(c) ==
    /\ Asleep(c)
    /\ \/ status[c] = "Runnable" /\ UNCHANGED wake
       \/ /\ status[c] = "Blocked" /\ wake[c] # Never /\ now >= wake[c]
          /\ wake' = [wake EXCEPT ![c] = Never]
    /\ status' = [status EXCEPT ![c] = "Runnable"]

\* "The scheduler clears `wake` on timeout."
FutexResume(c) ==
    /\ pc[c] = "futex"
    /\ Woken(c)
    /\ Return(c)
    /\ UNCHANGED <<futexVars, waitlist, pending, now>>

NanosleepResume(c) ==
    /\ pc[c] = "nanosleep"
    /\ Woken(c)
    /\ pc' = [pc EXCEPT ![c] = "take"]
    /\ UNCHANGED <<futexVars, val, timeout, waitlist, pending, now>>

\* nanosleep takes the wake-up time away; if there still was one, EINTR.
NanosleepTake(c) ==
    /\ pc[c] = "take"
    /\ wake' = [wake EXCEPT ![c] = Never]
    /\ Return(c)
    /\ UNCHANGED <<status, futexVars, waitlist, pending, now>>

\* wait() returns false, which its callers turn into EINTR, if the context is
\* still on the wait list.
WaitResume(c) ==
    /\ pc[c] = "wait"
    /\ Woken(c)
    /\ waitlist' = waitlist \ {c}
    /\ Return(c)
    /\ UNCHANGED <<futexVars, pending, now>>

-----------------------------------------------------------------------------
(* Signals and time                                                         *)

SignalSet(c) ==
    /\ ~pending[c]
    /\ pending' = [pending EXCEPT ![c] = TRUE]
    /\ UNCHANGED <<status, wake, pc, futexVars, val, timeout, waitlist, now>>

\* proc scheme, Interrupt: Context::unblock.
SignalInterrupt(c) ==
    /\ pending[c] /\ status[c] = "Blocked"
    /\ status' = Unblocked({c})
    /\ UNCHANGED <<wake, pc, futexVars, val, timeout, waitlist, pending, now>>

SignalHandled(c) ==
    /\ pending[c] /\ pc[c] = "user"
    /\ pending' = [pending EXCEPT ![c] = FALSE]
    /\ UNCHANGED <<status, wake, pc, futexVars, val, timeout, waitlist, now>>

Advance ==
    /\ now < MaxTime
    /\ now' = now + 1
    /\ UNCHANGED <<status, wake, pc, futexVars, val, timeout, waitlist, pending>>

-----------------------------------------------------------------------------

\* The steps of a context that is inside a system call.
Kernel(c) ==
    \/ FutexAgain(c) \/ FutexExpected(c) \/ FutexInterrupted(c) \/ FutexBlock(c) \/ FutexPush(c)
    \/ FutexWakeOne(c) \/ FutexWakeEnd(c)
    \/ FutexResume(c) \/ NanosleepResume(c) \/ NanosleepTake(c) \/ WaitResume(c)

Next ==
    \/ \E c \in Context :
        \/ Kernel(c)
        \/ \E t \in Time \cup {Never} : FutexLock(c, t)
        \/ Store(c)
        \/ \E n \in WakeCounts : FutexWake(c, n)
        \/ Nanosleep(c) \/ Wait(c)
        \/ SignalSet(c) \/ SignalInterrupt(c) \/ SignalHandled(c)
    \/ Notify \/ Advance

Spec == Init /\ [][Next]_vars

\* Kernel code gets to its end, runnable contexts are scheduled (NoStarvation of
\* Switch) and time passes.
Fairness == WF_vars(Advance) /\ \A c \in Context : WF_vars(Kernel(c))

FairSpec == Spec /\ Fairness

-----------------------------------------------------------------------------
(* Properties                                                               *)

\* FUTEX_WAIT compares and goes to sleep atomically with respect to FUTEX_WAKE:
\* whoever still sleeps on an old value will be reached by a FUTEX_WAKE that has
\* been promised by the store and is still to come or not finished.  This is about
\* the threads of one address space: FUTEX_WAKE skips the entries of the others.
NoMissedWake ==
    \A c \in Context :
        pc[c] = "futex" /\ status[c] = "Blocked" /\ val[c] # word
            => \E d \in Context : pc[d] \in {"stored", "waking"}

TimedSleep(c) == Asleep(c) /\ timeout[c] # Never
Awake(c) == pc[c] = "user"

\* A sleep with a timeout ends, whatever else wakes or does not wake the context.
TimedSleepEnds == \A c \in Context : TimedSleep(c) ~> Awake(c)
=============================================================================
