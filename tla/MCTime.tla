------------------------------- MODULE MCTime -------------------------------
(***************************************************************************)
(* What waits for time to pass: timeouts written to the time scheme (Timeouts), and*)
(* contexts that sleep with or without a wake-up time.                     *)
(*                                                                         *)
(* v1, v2, ... hold the variables of the component that moves.  Components *)
(* share none, so that interleaving them would add nothing to what each of *)
(* them can do; part, which never changes, says which one it is.           *)
(***************************************************************************)
EXTENDS Timeouts

VARIABLES part, v1, v2, v3, v4, v5, v6, v7, v8, v9, v10, v11

MCClock == [h \in Handles |-> IF h = "m" THEN "monotonic" ELSE "realtime"]

Sleeping == INSTANCE Sleep WITH
    Context <- {1, 2}, Space <- <<1, 1>>, WakeCounts <- {9}, Never <- 99, NoContext <- 0,
    MaxTime <- 2, MaxWord <- 1, MaxEntries <- 2, status <- v1, wake <- v2, pc <- v3,
    futexes <- v4, lock <- v5, word <- v6, val <- v7, timeout <- v8, waitlist <- v9,
    pending <- v10, now <- v11

sum_vars == <<part, vars, v1, v2, v3, v4, v5, v6, v7, v8, v9, v10, v11>>

SumInit ==
    \/ part = "timeouts" /\ Init /\ v1 = 0 /\ v2 = 0 /\ v3 = 0 /\ v4 = 0 /\ v5 = 0 /\ v6 = 0
       /\ v7 = 0 /\ v8 = 0 /\ v9 = 0 /\ v10 = 0 /\ v11 = 0
    \/ part = "sleep" /\ Sleeping!Init /\ Init

TimeoutsMoves ==
    part = "timeouts" /\ Next /\ UNCHANGED <<part, v1, v2, v3, v4, v5, v6, v7, v8, v9, v10, v11>>
SleepingMoves == part = "sleep" /\ Sleeping!Next /\ UNCHANGED <<part, vars>>

SumNext == TimeoutsMoves \/ SleepingMoves

\* Steps of each component.
Timing(A) == part = "timeouts" /\ A /\ UNCHANGED <<part, v1, v2, v3, v4, v5, v6, v7, v8, v9, v10, v11>>
Resting(A) == part = "sleep" /\ A /\ UNCHANGED <<part, vars>>

SumFairness ==
    /\ \A c \in Cpus : WF_sum_vars(Timing(Interrupt(c)))
    /\ WF_sum_vars(Resting(Sleeping!Advance))
    /\ \A c \in {1, 2} : WF_sum_vars(Resting(Sleeping!Kernel(c)))

SumSpec == SumInit /\ [][SumNext]_sum_vars /\ SumFairness

-----------------------------------------------------------------------------
ASSUME SleepingInstance == Sleeping!SleepAssumption /\ Sleeping!WakesAll

\* Nobody sleeps on a futex whose word has changed, unless a wake is coming (see Sleep).
NoMissedWake == part = "sleep" => Sleeping!NoMissedWake

\* A sleep with a wake-up time ends (see Sleep); the two contexts are interchangeable.
TimedSleepEnds ==
    part = "sleep" /\ Sleeping!TimedSleep(1) ~> part # "sleep" \/ Sleeping!Awake(1)
=============================================================================
