------------------------------ MODULE MCCalls -------------------------------
(***************************************************************************)
(* Calls that return: reads of a pipe (Pipe), calls of a scheme in user space, and*)
(* contexts that leave the kernel to be killed; also how processors start. *)
(*                                                                         *)
(* v1, v2, ... hold the variables of the component that moves.  Components *)
(* share none, so that interleaving them would add nothing to what each of *)
(* them can do; part, which never changes, says which one it is.           *)
(***************************************************************************)
EXTENDS Pipe

VARIABLES part, v1, v2, v3, v4, v5, v6, v7, v8, v9, v10, v11, v12, v13, v14, v15, v16, v17, v18

Control == INSTANCE ProcControl WITH
    Controllers <- {"p1", "p2"}, Targets <- {"t1"},
    Verbs <- {"Start", "Stop", "Unstop", "Interrupt", "ForceKill", "TryStop"}, Cpus <- 2,
    None <- "none", status <- v1, running <- v2, sigkilled <- v3, contexts <- v4, seen <- v5,
    pending <- v6, sent <- v7, pc <- v8, target <- v9, prev_status <- v10

Calls == INSTANCE UserScheme WITH
    Callers <- {"c"}, Tags <- {"t1", "t2"}, Timed <- BOOLEAN, Kills <- 1, CanUnmount <- TRUE,
    None <- "none", MaxReq <- 2, states <- v1, lock <- v2, todo <- v3, unmounting <- v4,
    notified <- v5, pc <- v6, status <- v7, wake <- v8, killed <- v9, call <- v10, mapped <- v11,
    requests <- v12, hpc <- v13, hstatus <- v14, hlisted <- v15, hblock <- v16, held <- v17,
    last <- v18

Starting == INSTANCE Startup WITH
    Hw <- 0 .. 3, Disabled <- {2}, Bsps <- {0, 1}, None <- 99, platform <- v1, bsp <- v2,
    pc <- v3, next <- v4, CPU_COUNT <- v5, ap_count <- v6, args <- v7, AP_READY <- v8,
    BSP_READY <- v9, id <- v10, stack <- v11, known <- v12, lock <- v13

sum_vars == <<part, vars, v1, v2, v3, v4, v5, v6, v7, v8, v9, v10, v11, v12, v13, v14, v15, v16, v17, v18>>

SumInit ==
    \/ part = "pipe" /\ Init /\ v1 = 0 /\ v2 = 0 /\ v3 = 0 /\ v4 = 0 /\ v5 = 0 /\ v6 = 0 /\ v7 = 0
       /\ v8 = 0 /\ v9 = 0 /\ v10 = 0 /\ v11 = 0 /\ v12 = 0 /\ v13 = 0 /\ v14 = 0 /\ v15 = 0
       /\ v16 = 0 /\ v17 = 0 /\ v18 = 0
    \/ part = "control" /\ Control!Init /\ Init /\ v11 = 0 /\ v12 = 0 /\ v13 = 0 /\ v14 = 0
       /\ v15 = 0 /\ v16 = 0 /\ v17 = 0 /\ v18 = 0
    \/ part = "calls" /\ Calls!Init /\ Init
    \/ part = "startup" /\ Starting!Init /\ Init /\ v14 = 0 /\ v15 = 0 /\ v16 = 0 /\ v17 = 0 /\ v18 = 0

PipeMoves ==
    /\ part = "pipe"
    /\ Next
    /\ UNCHANGED <<part, v1, v2, v3, v4, v5, v6, v7, v8, v9, v10, v11, v12, v13, v14, v15, v16, v17, v18>>
ControlMoves ==
    part = "control" /\ Control!Next
    /\ UNCHANGED <<part, vars, v11, v12, v13, v14, v15, v16, v17, v18>>
CallsMoves == part = "calls" /\ Calls!Next /\ UNCHANGED <<part, vars>>
StartingMoves == part = "startup" /\ Starting!Next /\ UNCHANGED <<part, vars, v14, v15, v16, v17, v18>>

SumNext == PipeMoves \/ ControlMoves \/ CallsMoves \/ StartingMoves

\* Steps of each component.
Piping(A) == part = "pipe" /\ A /\ UNCHANGED <<part, v1, v2, v3, v4, v5, v6, v7, v8, v9, v10, v11, v12, v13, v14, v15, v16, v17, v18>>
Controlling(A) == part = "control" /\ A /\ UNCHANGED <<part, vars, v11, v12, v13, v14, v15, v16, v17, v18>>
Calling(A) == part = "calls" /\ A /\ UNCHANGED <<part, vars>>

\* Fairness of a step of one component or of another is fairness of both, as only one
\* of them can ever be enabled; and strong fairness conditions are the costly ones.
SumFairness ==
    /\ \A c \in Ctx : WF_sum_vars(Piping(Work(c)))
    /\ \A e \in End : WF_sum_vars(Piping(CloseStep(e)))
    /\ \A c \in {"p1", "p2", "t1"} : WF_sum_vars(Controlling(Control!Kernel(c)))
    /\ WF_sum_vars(Calling(Calls!Expire("c"))) /\ WF_sum_vars(Calling(Calls!UnmountNotify))
    /\ WF_sum_vars(Calling(Calls!HandlerStep)) /\ WF_sum_vars(Calling(Calls!HandlerRead))
    /\ SF_sum_vars(Controlling(Control!Tick("t1")) \/ Calling(Calls!CallStep("c")))
    /\ SF_sum_vars(Controlling(Control!Dispatch("t1")) \/ Calling(Calls!Answers))
    /\ SF_sum_vars(Controlling(Control!Tick("p1")) \/ Piping(\E c \in Reader : LockQueue(c)))
    /\ SF_sum_vars(Controlling(Control!Tick("p2")) \/ Piping(\E c \in Writer : LockQueue(c)))

SumSpec == SumInit /\ [][SumNext]_sum_vars /\ SumFairness

-----------------------------------------------------------------------------
ASSUME ControlInstance == Control!ProcControlAssumption
ASSUME CallsInstance == Calls!UserSchemeAssumption
ASSUME StartingInstance == Starting!StartupAssumption

\* A context that has been sent a signal does not sleep on (see ProcControl).
SignalledIsNotBlocked == part = "control" => Control!SignalledIsNotBlocked

\* A context that was killed exits, or does not run (see ProcControl).
KilledExits ==
    []<>(part = "control" => (Control!Killed("t1") => Control!Gone("t1")))

\* A call of a scheme returns, if the scheme answers (see UserScheme).
CallReturns == []<>(part = "calls" => ~Calls!Waits("c"))

\* Processors that start have numbers and stacks of their own (see Startup).
ProcessorsAreDistinct == part = "startup" => Starting!ProcessorsAreDistinct
=============================================================================
