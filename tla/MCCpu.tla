------------------------------- MODULE MCCpu --------------------------------
(***************************************************************************)
(* What a processor does besides system calls: it switches contexts (Switch)*)
(* and their registers.                                                    *)
(*                                                                         *)
(* v1, v2, ... hold the variables of the component that moves.  Components *)
(* share none, so that interleaving them would add nothing to what each of *)
(* them can do; part, which never changes, says which one it is.           *)
(***************************************************************************)
EXTENDS MCSwitch

VARIABLES part, v1, v2, v3, v4, v5, v6, v7, v8, v9

Regs == INSTANCE Registers WITH
    Cpus <- {1, 2}, Users <- {11, 12}, Values <- {0, 1}, arch <- v1, current <- v2, mode <- v3,
    reg <- v4, kstack <- v5, saved <- v6, loadable <- v7, mine <- v8, panicked <- v9

sum_vars == <<part, vars, v1, v2, v3, v4, v5, v6, v7, v8, v9>>

SumInit ==
    \/ part = "switch" /\ Init /\ v1 = 0 /\ v2 = 0 /\ v3 = 0 /\ v4 = 0 /\ v5 = 0 /\ v6 = 0
       /\ v7 = 0 /\ v8 = 0 /\ v9 = 0
    \/ part = "registers" /\ Regs!Init /\ Init

SwitchMoves == part = "switch" /\ Next /\ UNCHANGED <<part, v1, v2, v3, v4, v5, v6, v7, v8, v9>>
RegsMoves == part = "registers" /\ Regs!Next /\ UNCHANGED <<part, vars>>

SumNext == SwitchMoves \/ RegsMoves

SumSpec == SumInit /\ [][SumNext]_sum_vars

-----------------------------------------------------------------------------
ASSUME RegistersInstance == Regs!RegistersAssumption

\* A context finds the registers it left (switch_to and the entry code; see Registers).
RegistersAreOwn == part = "registers" => Regs!RegistersAreOwn
=============================================================================
