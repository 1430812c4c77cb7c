------------------------------ MODULE MCFiles -------------------------------
(***************************************************************************)
(* What a process has: its files, through the system calls on them (FileOps), the*)
(* table of them, and the handles through which contexts get a table and an*)
(* address space.                                                          *)
(*                                                                         *)
(* v1, v2, ... hold the variables of the component that moves.  Components *)
(* share none, so that interleaving them would add nothing to what each of *)
(* them can do; part, which never changes, says which one it is.           *)
(***************************************************************************)
EXTENDS FileOps, TLC

VARIABLES part, v1, v2, v3, v4, v5, v6, v7, v8, v9, v10, v11, v12, v13, v14, v15, v16

\* The threads that make calls on files are interchangeable.
Symmetry == Permutations(Threads)

\* What a process opens: the handles to start a new context in a new space, to change
\* the space of the current context, and to change its file table.
OpenPaths ==
    {{"new-context", "addrspace", "current-addrspace", "start"},
     {"cur-context", "addrspace", "current-addrspace"},
     {"cur-context", "filetable", "current-filetable"}}

Table == INSTANCE FdTbl WITH
    File <- {"f"}, CONTEXT_MAX_FILES <- 3, MaxBulk <- 2, fdtbl <- v1, active_count <- v2

Procs == INSTANCE ProcHandles WITH
    Threads <- {"t1", "t2"}, Openers <- {"t1"}, Children <- {"c1"}, Spaces <- {1, 2},
    Tables <- {11, 12}, MaxId <- 5, PathSets <- OpenPaths, None <- 0, handles <- v1,
    next_id <- v2, lock <- v3, status <- v4, running <- v5, space <- v6, regs <- v7, files <- v8,
    pc <- v9, call <- v10, arc <- v11, closing <- v12, closed <- v13, made <- v14,
    panicked <- v15, paths <- v16

sum_vars == <<part, vars, v1, v2, v3, v4, v5, v6, v7, v8, v9, v10, v11, v12, v13, v14, v15, v16>>

SumInit ==
    \/ part = "calls" /\ Init /\ v1 = 0 /\ v2 = 0 /\ v3 = 0 /\ v4 = 0 /\ v5 = 0 /\ v6 = 0
       /\ v7 = 0 /\ v8 = 0 /\ v9 = 0 /\ v10 = 0 /\ v11 = 0 /\ v12 = 0 /\ v13 = 0 /\ v14 = 0
       /\ v15 = 0 /\ v16 = 0
    \/ part = "table" /\ Table!Init /\ Init /\ v3 = 0 /\ v4 = 0 /\ v5 = 0 /\ v6 = 0 /\ v7 = 0
       /\ v8 = 0 /\ v9 = 0 /\ v10 = 0 /\ v11 = 0 /\ v12 = 0 /\ v13 = 0 /\ v14 = 0 /\ v15 = 0
       /\ v16 = 0
    \/ part = "handles" /\ Procs!Init /\ Init

CallsMoves ==
    part = "calls" /\ Next
    /\ UNCHANGED <<part, v1, v2, v3, v4, v5, v6, v7, v8, v9, v10, v11, v12, v13, v14, v15, v16>>
TableMoves ==
    part = "table" /\ Table!Next
    /\ UNCHANGED <<part, vars, v3, v4, v5, v6, v7, v8, v9, v10, v11, v12, v13, v14, v15, v16>>
ProcsMoves == part = "handles" /\ Procs!Next /\ UNCHANGED <<part, vars>>

SumNext == CallsMoves \/ TableMoves \/ ProcsMoves

SumSpec == SumInit /\ [][SumNext]_sum_vars

-----------------------------------------------------------------------------
ASSUME TableInstance == Table!FdTblAssumption
ASSUME ProcsInstance == Procs!ProcHandlesAssumption

\* The cached number of open files is the number of open files (see FdTbl).
ActiveCountIsExact == part = "table" => Table!ActiveCountIsExact

\* A context runs in the space that its registers are meant for (see ProcHandles).
RegistersMatchSpace == part = "handles" => Procs!RegistersMatchSpace

\* No context uses a file table whose files have been closed (see ProcHandles).
ClosedTablesAreUnused == part = "handles" => Procs!ClosedTablesAreUnused
=============================================================================
