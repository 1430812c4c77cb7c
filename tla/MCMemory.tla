------------------------------ MODULE MCMemory ------------------------------
(***************************************************************************)
(* Physical memory: the frames that spaces share (AddrSpace), the allocator they*)
(* come from, and how both are set up from the memory map of the boot loader;*)
(* and event queues.                                                       *)
(*                                                                         *)
(* v1, v2, ... hold the variables of the component that moves.  Components *)
(* share none, so that interleaving them would add nothing to what each of *)
(* them can do; part, which never changes, says which one it is.           *)
(***************************************************************************)
EXTENDS AddrSpace

VARIABLES part, v1, v2, v3, v4, v5, v6, v7, v8, v9, v10, v11, v12

Region(b, s, k) == [base |-> b, size |-> s, kind |-> k]

\* Free regions that overlap, touch and meet inside a page; reservations at an end,
\* inside, across two regions, and with unaligned ends.
BootRegions ==
    {Region(2, 12, "Free"), Region(5, 9, "Free"), Region(14, 14, "Free"),
     Region(7, 3, "Reserved"), Region(12, 5, "IdentityMap"),
     Region(20, 3, "Kernel"), Region(22, 3, "Device"), Region(6, 0, "Null")}

Allocator == INSTANCE Frames WITH
    Base <- 3, Count <- 7, AbsOff <- 4, MaxOrder <- 2, BlockOrders <- {1, 2}, ContigCounts <- {4},
    info <- v1, for_orders <- v2, used_frames <- v3, given <- v4, failed <- v5

Startup == INSTANCE Boot WITH
    PAGE_SIZE <- 2, Regions <- BootRegions, MaxRegions <- 5, MaxEntries <- 4, LowLimit <- 2,
    HighLimit <- 27, MaxTables <- 2, SectionsPerPage <- 3, InfosPerPage <- 3,
    MAX_SECTION_PAGE_COUNT <- 4, MAX_ORDER <- 2, phase <- v1, given <- v2, entries <- v3, i <- v4,
    areas <- v5, bump <- v6, table <- v7, sections <- v8, free <- v9

Queues == INSTANCE Events WITH
    Files <- {"p"}, Polled <- {"p"}, Queues <- {"q1", "q2"}, Threads <- {1, 2}, MaxCalls <- 2,
    fds <- v1, exists <- v2, registry <- v3, queue <- v4, data <- v5, told <- v6, pc <- v7,
    call <- v8, todo <- v9, done <- v10, late <- v11, calls <- v12

sum_vars == <<part, vars, v1, v2, v3, v4, v5, v6, v7, v8, v9, v10, v11, v12>>

SumInit ==
    \/ part = "spaces" /\ Init /\ v1 = 0 /\ v2 = 0 /\ v3 = 0 /\ v4 = 0 /\ v5 = 0 /\ v6 = 0
       /\ v7 = 0 /\ v8 = 0 /\ v9 = 0 /\ v10 = 0 /\ v11 = 0 /\ v12 = 0
    \/ part = "frames" /\ Allocator!Init /\ Init /\ v6 = 0 /\ v7 = 0 /\ v8 = 0 /\ v9 = 0
       /\ v10 = 0 /\ v11 = 0 /\ v12 = 0
    \/ part = "boot" /\ Startup!Init /\ Init /\ v10 = 0 /\ v11 = 0 /\ v12 = 0
    \/ part = "events" /\ Queues!Init /\ Init

SpacesMoves ==
    /\ part = "spaces" /\ Next
    /\ UNCHANGED <<part, v1, v2, v3, v4, v5, v6, v7, v8, v9, v10, v11, v12>>
AllocatorMoves ==
    part = "frames" /\ Allocator!Next /\ UNCHANGED <<part, vars, v6, v7, v8, v9, v10, v11, v12>>
StartupMoves == part = "boot" /\ Startup!Next /\ UNCHANGED <<part, vars, v10, v11, v12>>
QueuesMoves == part = "events" /\ Queues!Next /\ UNCHANGED <<part, vars>>

SumNext == SpacesMoves \/ AllocatorMoves \/ StartupMoves \/ QueuesMoves

SumSpec == SumInit /\ [][SumNext]_sum_vars

-----------------------------------------------------------------------------
ASSUME AllocatorInstance == Allocator!FramesAssumption
ASSUME QueuesInstance == Queues!PolledAssumption

\* Every frame is free, or allocated once (see Frames).
EveryFrameOnce == part = "frames" => Allocator!EveryFrameOnce

\* No two buddies are free next to each other (see Frames).
BuddiesAreMerged == part = "frames" => Allocator!BuddiesAreMerged

\* The areas are the usable frames of the memory map, each once (see Boot).
AreasAreTheUsableFrames == part = "boot" => Startup!AreasAreTheUsableFrames

\* The first free lists hold every frame not used during startup, once (see Boot).
FirstFreeListsExact == part = "boot" => Startup!FirstFreeListsExact

\* A queue hears of a file that can be read (see Events).
NoLostEvent == part = "events" => Queues!NoLostEvent
=============================================================================
