------------------------------- MODULE MCUser -------------------------------
(***************************************************************************)
(* What the kernel does for schemes and drivers in user space: calls of a  *)
(* scheme (UserScheme), descriptors and buffers that go with them, interrupts*)
(* and input.                                                              *)
(*                                                                         *)
(* v1, v2, ... hold the variables of the component that moves.  Components *)
(* share none, so that interleaving them would add nothing to what each of *)
(* them can do; part, which never changes, says which one it is.           *)
(***************************************************************************)
EXTENDS UserScheme, TLC

VARIABLES part, v1, v2, v3, v4, v5, v6, v7, v8, v9, v10, v11, v12, v13, v14

\* Callers are interchangeable, and so are the keys of the slab.
Symmetry == Permutations(Callers) \cup Permutations(Tags)

\* Irq 5 is overridden to line 20 of the I/O APIC, the number of an extended irq.
Overrides == [i \in {5, 17, 20} |-> IF i = 5 THEN 20 ELSE i]

Passed == INSTANCE FdPass WITH
    Callers <- {"c"}, Handler <- "h", Descs <- {1, 2}, Slots <- {1, 2}, None <- 0, table <- v1,
    state <- v2, killed <- v3, dead <- v4, closed <- v5

Lent == INSTANCE Capture WITH
    PAGE_SIZE <- 2, NPages <- 3, MaxCalls <- 2, MaxWrites <- 1, MaxUnmaps <- 1, user <- v1,
    present <- v2, ht <- v3, frame <- v4, dst <- v5, phase <- v6, guard <- v7, sent <- v8,
    wrote <- v9, calls <- v10, result <- v11

Legacy == INSTANCE Irq WITH
    Drivers <- {1, 2}, Cpus <- {0}, BSP <- 0, Irqs <- {4, 5}, resolve <- [i \in {4, 5} |-> i],
    Level <- {4}, MaxCount <- 3, irq_method <- v1, reserved <- v2, masked <- v3, COUNTS <- v4, handles <- v5,
    cpu <- v6, created <- v7, request <- v8, pending <- v9, missed <- v10, isr <- v11, pc <- v12,
    seen <- v13, told <- v14

Shared == INSTANCE Irq WITH
    Drivers <- {1, 2}, Cpus <- {0, 1}, BSP <- 0, Irqs <- {5, 17, 20}, resolve <- Overrides,
    Level <- {5}, MaxCount <- 1, irq_method <- v1, reserved <- v2, masked <- v3, COUNTS <- v4, handles <- v5,
    cpu <- v6, created <- v7, request <- v8, pending <- v9, missed <- v10, isr <- v11, pc <- v12,
    seen <- v13, told <- v14

Keys == INSTANCE Input WITH
    Serio <- {"kbd"}, Debug <- {"com"}, Readers <- {1, 2}, MaxBytes <- 2, fifo <- v1, came <- v2,
    queue <- v3, handles <- v4, contexts <- v5, isr <- v6, pc <- v7, blocked <- v8, pending <- v9,
    told <- v10

sum_vars == <<part, vars, v1, v2, v3, v4, v5, v6, v7, v8, v9, v10, v11, v12, v13, v14>>

SumInit ==
    \/ part = "calls" /\ Init /\ v1 = 0 /\ v2 = 0 /\ v3 = 0 /\ v4 = 0 /\ v5 = 0 /\ v6 = 0
       /\ v7 = 0 /\ v8 = 0 /\ v9 = 0 /\ v10 = 0 /\ v11 = 0 /\ v12 = 0 /\ v13 = 0 /\ v14 = 0
    \/ part = "fds" /\ Passed!Init /\ Init /\ v6 = 0 /\ v7 = 0 /\ v8 = 0 /\ v9 = 0 /\ v10 = 0
       /\ v11 = 0 /\ v12 = 0 /\ v13 = 0 /\ v14 = 0
    \/ part = "buffer" /\ Lent!Init /\ Init /\ v12 = 0 /\ v13 = 0 /\ v14 = 0
    \/ part = "irq" /\ Legacy!Init /\ Init
    \/ part = "vectors" /\ Shared!Init /\ Init
    \/ part = "input" /\ Keys!Init /\ Init /\ v11 = 0 /\ v12 = 0 /\ v13 = 0 /\ v14 = 0

\* Bound: one of the callers is killed.
OneKill == \A c, d \in Callers : killed'[c] > 0 /\ killed'[d] > 0 => c = d

CallsMoves ==
    part = "calls" /\ Next /\ OneKill
    /\ UNCHANGED <<part, v1, v2, v3, v4, v5, v6, v7, v8, v9, v10, v11, v12, v13, v14>>
PassedMoves ==
    part = "fds" /\ Passed!Next /\ UNCHANGED <<part, vars, v6, v7, v8, v9, v10, v11, v12, v13, v14>>
LentMoves == part = "buffer" /\ Lent!Next /\ UNCHANGED <<part, vars, v12, v13, v14>>
LegacyMoves == part = "irq" /\ Legacy!Next /\ UNCHANGED <<part, vars>>
SharedMoves == part = "vectors" /\ Shared!Next /\ UNCHANGED <<part, vars>>
KeysMoves == part = "input" /\ Keys!Next /\ UNCHANGED <<part, vars, v11, v12, v13, v14>>

SumNext == CallsMoves \/ PassedMoves \/ LentMoves \/ LegacyMoves \/ SharedMoves \/ KeysMoves

SumSpec == SumInit /\ [][SumNext]_sum_vars

-----------------------------------------------------------------------------
ASSUME PassedInstance == Passed!FdPassAssumption
ASSUME IrqInstance == Legacy!IrqAssumption /\ Shared!IrqAssumption
ASSUME KeysInstance == Keys!InputAssumption

\* A description that a process or a call refers to is not closed (see FdPass).
InUseIsOpen == part = "fds" => Passed!InUseIsOpen

\* The handler sees the caller's bytes one after the other (see Capture).
BufferIsContiguous == part = "buffer" => Lent!BufferIsContiguous

\* What the handler wrote reaches the caller when the call returns (see Capture).
WrittenBack == [][part = "buffer" => Lent!WrittenBackStep]_sum_vars

\* A driver is told of every interrupt that it has not acknowledged (see Irq).
NoLostInterrupt ==
    /\ part = "irq" => Legacy!NoLostInterrupt
    /\ part = "vectors" => Shared!NoLostInterrupt

\* No reader sleeps while input is queued for it (see Input).
ReadersWake == part = "input" => Keys!ReadersWake
=============================================================================
