------------------------------ MODULE MCGrants ------------------------------
(***************************************************************************)
(* Two maps that the kernel keeps for user space: the grants of an address *)
(* space (GrantMap), and the names of schemes.                             *)
(*                                                                         *)
(* v1, v2, ... hold the variables of the component that moves.  Components *)
(* share none, so that interleaving them would add nothing to what each of *)
(* them can do; part, which never changes, says which one it is.           *)
(***************************************************************************)
EXTENDS GrantMap

CONSTANTS FileA, Lender

VARIABLES part, v1, v2, v3, v4, v5, v6, v7, v8, v9, v10, v11

\* Providers of every kind the operations on grants tell apart.
MCSources ==
    {[flags |-> {"w"}, prov |-> Allocated(NoRef, 0)],
     [flags |-> {"w"}, prov |-> FmapBorrowed(FileA, 0)],
     [flags |-> {}, prov |-> PhysBorrowed(0)],
     [flags |-> {}, prov |-> External(Lender, 0, 0)],
     [flags |-> {}, prov |-> External(Lender, 0, 1)]}

Names == INSTANCE Schemes WITH
    Daemons <- {"d", "e"}, Clients <- {"c"}, Names <- {"a", "b"}, MAX_GLOBAL_SCHEMES <- 4,
    SCHEME_MAX_SCHEMES <- 8, MaxNamespaces <- 2, MaxRegistrations <- 5, Window <- 2, map <- v1,
    names <- v2, next_ns <- v3, next_id <- v4, handles <- v5, pc <- v6, task <- v7, begun <- v8,
    since <- v9, wrapped <- v10, panicked <- v11

sum_vars == <<part, vars, v1, v2, v3, v4, v5, v6, v7, v8, v9, v10, v11>>

SumInit ==
    \/ part = "grants" /\ Init /\ v1 = 0 /\ v2 = 0 /\ v3 = 0 /\ v4 = 0 /\ v5 = 0 /\ v6 = 0
       /\ v7 = 0 /\ v8 = 0 /\ v9 = 0 /\ v10 = 0 /\ v11 = 0
    \/ part = "schemes" /\ Names!Init /\ Init

GrantsMoves ==
    part = "grants" /\ Next /\ UNCHANGED <<part, v1, v2, v3, v4, v5, v6, v7, v8, v9, v10, v11>>
NamesMoves == part = "schemes" /\ Names!Next /\ UNCHANGED <<part, vars>>

SumNext == GrantsMoves \/ NamesMoves

SumSpec == SumInit /\ [][SumNext]_sum_vars

-----------------------------------------------------------------------------
ASSUME NamesInstance == Names!SchemesAssumption

\* Names resolve to schemes, and files reach the scheme that opened them or none (see
\* Schemes).
SchemesAreReached == part = "schemes" => Names!NamesResolve /\ Names!FilesReachOwner
=============================================================================
