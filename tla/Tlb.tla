--------------------------------- MODULE Tlb ---------------------------------
(***************************************************************************)
(* TLB shootdown: what Flusher (context/memory.rs) and PercpuBlock         *)
(* (percpu.rs) do so that no CPU uses a translation after the page behind  *)
(* it is freed or loses its write permission, while CPUs move between      *)
(* address spaces (switch_arch_hook, set_addr_space).                      *)
(*                                                                         *)
(* A CPU that changes an address space holds its lock, asks every other    *)
(* CPU that uses the space to flush, flushes itself, and waits for the     *)
(* acknowledgements, which are counted in a word of the space.  A CPU is   *)
(* asked by a flag and an interrupt; it looks at the flag when the         *)
(* interrupt comes in user mode, and in every loop in which it spins.      *)
(***************************************************************************)
EXTENDS Integers, FiniteSets, FiniteSetsExt

CONSTANTS
    Cpus,               \* a set of numbers
    Spaces,             \* the address spaces
    NPages,             \* pages of an address space
    Small,              \* the address spaces in which only page 1 is mapped at first (see Init)
    QueueCap,           \* capacity of pagequeue, 32 in the code
    None

VARIABLES
    pc,                 \* where a CPU is; "run" is user mode
    space,              \* current_addrsp
    next,               \* the address space a CPU switches to
    root,               \* the address space whose table is loaded
    tlb,                \* the translations a CPU has cached
    blocks,             \* the CPUs in ALL_PERCPU_BLOCKS
    wants,              \* wants_tlb_shootdown
    flushed,            \* the CPU has flushed for a request and not yet acknowledged
    used_by,            \* AddrSpace::used_by
    writer,             \* the CPU that holds the lock of a space for writing
    tlb_ack,            \* AddrSpaceWrapper::tlb_ack
    pte,                \* the page tables: a frame and whether it is writable
    free,               \* frames that are free
    job                 \* the operation of a CPU and its Flusher

cpuvars == <<space, next, root, used_by>>
vars == <<pc, cpuvars, tlb, blocks, wants, flushed, writer, tlb_ack, pte, free, job>>

PageSet == 1 .. NPages
Empty == [p \in PageSet |-> None]
\* The frame that page p of space s gets is named after the page.
Entry(s, p, w) == [frame |-> <<s, p>>, w |-> w]

ASSUME TlbAssumption ==
    /\ Cpus \subseteq Nat /\ IsFiniteSet(Cpus) /\ NPages \in Nat
    /\ None \notin Cpus /\ None \notin Spaces /\ None \notin Spaces \X PageSet
    /\ None \notin [frame : Spaces \X PageSet, w : BOOLEAN]

\* kind: what is done to the pages of todo.  queue and dirty are the FlusherState, held
\* is what queue() pushes after a flush of the full queue, taken what a flush took from
\* the queue, targets and asked its loop over active_cpus, last the flush of Drop; missed
\* is history: the CPUs it counts and did not ask.
NoJob == [space |-> None, kind |-> "none", todo |-> {}, queue |-> {}, dirty |-> FALSE, held |-> {},
          taken |-> {}, targets |-> {}, asked |-> 0, missed |-> {}, last |-> FALSE]

\* The pages mapped at first, a bound on the states: where no CPU has a block, every space
\* is small.
Mapped(s, p) == p = 1 \/ (s \notin Small /\ blocks = Cpus)

\* On x86 every CPU puts its block into ALL_PERCPU_BLOCKS (install_pcr) before it
\* schedules; the other architectures never call init_tlb_shootdown.
Init ==
    /\ blocks \in {Cpus, {}}
    /\ pc = [c \in Cpus |-> "run"]
    /\ space = [c \in Cpus |-> None] /\ next = space /\ root = space
    /\ tlb = [c \in Cpus |-> Empty]
    /\ wants = [c \in Cpus |-> FALSE] /\ flushed = wants
    /\ used_by = [s \in Spaces |-> {}] /\ writer = [s \in Spaces |-> None]
    /\ tlb_ack = [s \in Spaces |-> 0]
    /\ pte = [s \in Spaces |-> [p \in PageSet |-> IF Mapped(s, p) THEN Entry(s, p, TRUE) ELSE None]]
    /\ free = {}
    /\ job = [c \in Cpus |-> NoJob]

At(c, place) == pc[c] = place /\ ~flushed[c]
Goto(c, place) == pc' = [pc EXCEPT ![c] = place]
Now(c, j) == job' = [job EXCEPT ![c] = j]

-----------------------------------------------------------------------------
(* The hardware.                                                           *)

\* Page walks, which can be speculative, cache translations of the loaded table; a
\* translation that is cached is not looked up again.
Walk(c) ==
    /\ root[c] # None
    /\ tlb' = [tlb EXCEPT ![c] = [p \in PageSet |-> IF @[p] = None THEN pte[root[c]][p] ELSE @[p]]]
    /\ tlb' # tlb
    /\ UNCHANGED <<blocks, pc, cpuvars, wants, flushed, writer, tlb_ack, pte, free, job>>

-----------------------------------------------------------------------------
(* Switching the address space: switch_arch_hook, and set_addr_space of    *)
(* the current context.                                                    *)

BeginSwitch(c, s) ==
    /\ At(c, "run") /\ s # space[c]
    /\ next' = [next EXCEPT ![c] = s]
    /\ Goto(c, IF space[c] = None THEN "replace" ELSE "leave")
    /\ UNCHANGED <<blocks, space, root, used_by, tlb, wants, flushed, writer, tlb_ack, pte, free, job>>

Leave(c) ==
    /\ At(c, "leave") /\ writer[space[c]] = None
    /\ used_by' = [used_by EXCEPT ![space[c]] = @ \ {c}]
    /\ Goto(c, "replace")
    /\ UNCHANGED <<blocks, space, next, root, tlb, wants, flushed, writer, tlb_ack, pte, free, job>>

Replace(c) ==
    /\ At(c, "replace")
    /\ space' = [space EXCEPT ![c] = next[c]]
    /\ Goto(c, "enter")
    /\ UNCHANGED <<blocks, next, root, used_by, tlb, wants, flushed, writer, tlb_ack, pte, free, job>>

\* Loading a table drops the translations of the old one.
Enter(c) ==
    /\ At(c, "enter")
    /\ space[c] # None => writer[space[c]] = None
    /\ used_by' = [s \in Spaces |-> IF s = space[c] THEN used_by[s] \cup {c} ELSE used_by[s]]
    /\ root' = [root EXCEPT ![c] = space[c]]
    /\ tlb' = [tlb EXCEPT ![c] = Empty]
    /\ next' = [next EXCEPT ![c] = None]
    /\ Goto(c, "run")
    /\ UNCHANGED <<blocks, space, wants, flushed, writer, tlb_ack, pte, free, job>>

-----------------------------------------------------------------------------
(* An operation that changes the page tables of an address space, its own   *)
(* or another: unmap, or a change of flags.                                 *)

Begin(c, s, kind) ==
    /\ At(c, "run") /\ space[c] # None
    /\ Now(c, [NoJob EXCEPT !.space = s, !.kind = kind, !.todo = PageSet])
    /\ Goto(c, "lock")
    /\ UNCHANGED <<blocks, cpuvars, tlb, wants, flushed, writer, tlb_ack, pte, free>>

\* acquire_write, after any number of failed attempts.
AcquireWrite(c) ==
    /\ At(c, "lock") /\ writer[job[c].space] = None
    /\ writer' = [writer EXCEPT ![job[c].space] = c]
    /\ Goto(c, "work")
    /\ UNCHANGED <<blocks, cpuvars, tlb, wants, flushed, tlb_ack, pte, free, job>>

\* What the operation makes of a page.
NewEntry(kind, s, p) ==
    IF kind = "unmap" \/ pte[s][p] = None THEN None ELSE Entry(s, p, FALSE)

\* Flusher::queue.  An entry keeps the frame where the frame is to be freed.
Queue(j, entries) ==
    IF Cardinality(j.queue) >= QueueCap THEN [j EXCEPT !.dirty = TRUE, !.held = entries]
    ELSE [j EXCEPT !.dirty = TRUE, !.queue = @ \cup entries]

ChangePage(c) ==
    LET j  == job[c]
        p  == Min(j.todo)
        e  == pte[j.space][p]
        e2 == NewEntry(j.kind, j.space, p)
        rest   == [j EXCEPT !.todo = @ \ {p}]
        queued == Queue(rest, {<<p, IF j.kind = "unmap" THEN e.frame ELSE None>>})
    IN  /\ At(c, "work") /\ j.todo # {}
        /\ pte' = [pte EXCEPT ![j.space][p] = e2]
        /\ IF e = e2 THEN Now(c, rest) /\ UNCHANGED pc
           ELSE Now(c, queued) /\ Goto(c, IF queued.held = {} THEN "work" ELSE "flush")
        /\ UNCHANGED <<blocks, cpuvars, tlb, wants, flushed, writer, tlb_ack, free>>

-----------------------------------------------------------------------------
(* Flusher::flush.                                                         *)

Unlocked(c) == writer' = [writer EXCEPT ![job[c].space] = None] /\ Now(c, NoJob) /\ Goto(c, "run")

\* The Flusher is dropped when the pages are done, and the lock after it.
Dropped(c) == pc[c] = "work" /\ job[c].todo = {}

NothingToFlush(c) ==
    /\ Dropped(c) /\ ~flushed[c] /\ job[c].queue = {} /\ ~job[c].dirty
    /\ Unlocked(c)
    /\ UNCHANGED <<blocks, cpuvars, tlb, wants, flushed, tlb_ack, pte, free>>

\* Mutant of StartFlush: the flusher asks no other CPU.
StartFlush_OnlySelf(c) ==
    LET j == job[c] IN
    /\ Dropped(c) \/ pc[c] = "flush"
    /\ ~flushed[c] /\ (j.queue # {} \/ j.dirty)
    /\ tlb_ack' = [tlb_ack EXCEPT ![j.space] = 0]
    /\ Now(c, [j EXCEPT !.taken = j.queue, !.queue = {}, !.dirty = j.queue # {},
                        !.targets = {}, !.asked = 0, !.missed = {}, !.last = Dropped(c)])
    /\ Goto(c, "ask")
    /\ UNCHANGED <<blocks, cpuvars, tlb, wants, flushed, writer, pte, free>>

StartFlush(c) ==
    LET j == job[c] IN
    /\ Dropped(c) \/ pc[c] = "flush"
    /\ ~flushed[c] /\ (j.queue # {} \/ j.dirty)
    /\ tlb_ack' = [tlb_ack EXCEPT ![j.space] = 0]
    /\ Now(c, [j EXCEPT !.taken = j.queue, !.queue = {}, !.dirty = j.queue # {},
                        !.targets = used_by[j.space] \ {c}, !.asked = 0, !.missed = {}, !.last = Dropped(c)])
    /\ Goto(c, "ask")
    /\ UNCHANGED <<blocks, cpuvars, tlb, wants, flushed, writer, pte, free>>

\* shootdown_tlb_ipi, which spins as long as the flag of the other CPU is set.  It returns
\* at once, and flush counts the CPU all the same, if the CPU has no block.
Ask(c) ==
    LET j == job[c]
        d == Min(j.targets)
        known == d \in blocks
    IN  /\ At(c, "ask") /\ j.targets # {} /\ (known => ~wants[d])
        /\ wants' = [wants EXCEPT ![d] = @ \/ known]
        /\ Now(c, [j EXCEPT !.targets = @ \ {d}, !.asked = @ + 1,
                            !.missed = IF known THEN @ ELSE @ \cup {d}])
        /\ UNCHANGED <<blocks, pc, cpuvars, tlb, flushed, writer, tlb_ack, pte, free>>

FlushOwn(c) ==
    /\ At(c, "ask") /\ job[c].targets = {}
    /\ tlb' = IF c \in used_by[job[c].space] THEN [tlb EXCEPT ![c] = Empty] ELSE tlb
    /\ Goto(c, "wait")
    /\ UNCHANGED <<blocks, cpuvars, wants, flushed, writer, tlb_ack, pte, free, job>>

Acknowledged(c) == tlb_ack[job[c].space] >= job[c].asked

\* Mutant of FinishFlush: the frames are freed without waiting for the other CPUs.
FinishFlush_NoWait(c) ==
    LET j == job[c] IN
    /\ At(c, "wait")
    /\ free' = free \cup {e[2] : e \in {t \in j.taken : t[2] # None}}
    /\ IF j.last THEN Unlocked(c)
       ELSE /\ Now(c, [j EXCEPT !.queue = j.held, !.held = {}, !.taken = {}, !.asked = 0, !.missed = {}])
            /\ Goto(c, "work") /\ UNCHANGED writer
    /\ UNCHANGED <<blocks, cpuvars, tlb, wants, flushed, tlb_ack, pte>>

\* Every CPU has answered: the frames are freed, and the operation goes on or ends.
FinishFlush(c) ==
    LET j == job[c] IN
    /\ At(c, "wait") /\ Acknowledged(c)
    /\ free' = free \cup {e[2] : e \in {t \in j.taken : t[2] # None}}
    /\ IF j.last THEN Unlocked(c)
       ELSE /\ Now(c, [j EXCEPT !.queue = j.held, !.held = {}, !.taken = {}, !.asked = 0, !.missed = {}])
            /\ Goto(c, "work") /\ UNCHANGED writer
    /\ UNCHANGED <<blocks, cpuvars, tlb, wants, flushed, tlb_ack, pte>>

-----------------------------------------------------------------------------
(* maybe_handle_tlb_shootdown: by the interrupt in user mode, and in the    *)
(* loops that wait for a lock, for the flag of another CPU, for answers.    *)

Spins(c) ==
    \/ pc[c] = "leave" /\ writer[space[c]] # None
    \/ pc[c] = "enter" /\ space[c] # None /\ writer[space[c]] # None
    \/ pc[c] = "lock" /\ writer[job[c].space] # None
    \/ pc[c] = "ask" /\ job[c].targets # {} /\ wants[Min(job[c].targets)]
    \/ pc[c] = "wait" /\ ~Acknowledged(c)

\* Mutant of FlushForOther: a CPU that spins for a lock answers nobody.
FlushForOther_NotSpinning(c) ==
    /\ wants[c] /\ ~flushed[c] /\ pc[c] = "run"
    /\ wants' = [wants EXCEPT ![c] = FALSE]
    /\ tlb' = [tlb EXCEPT ![c] = Empty]
    /\ flushed' = [flushed EXCEPT ![c] = TRUE]
    /\ UNCHANGED <<blocks, pc, cpuvars, writer, tlb_ack, pte, free, job>>

FlushForOther(c) ==
    /\ wants[c] /\ ~flushed[c] /\ (pc[c] = "run" \/ Spins(c))
    /\ wants' = [wants EXCEPT ![c] = FALSE]
    /\ tlb' = [tlb EXCEPT ![c] = Empty]
    /\ flushed' = [flushed EXCEPT ![c] = TRUE]
    /\ UNCHANGED <<blocks, pc, cpuvars, writer, tlb_ack, pte, free, job>>

Acknowledge(c) ==
    /\ flushed[c]
    /\ tlb_ack' = [s \in Spaces |-> IF s = space[c] THEN tlb_ack[s] + 1 ELSE tlb_ack[s]]
    /\ flushed' = [flushed EXCEPT ![c] = FALSE]
    /\ UNCHANGED <<blocks, pc, cpuvars, tlb, wants, writer, pte, free, job>>

-----------------------------------------------------------------------------
Kernel(c) ==
    \/ Leave(c) \/ Replace(c) \/ Enter(c)
    \/ AcquireWrite(c) \/ ChangePage(c)
    \/ NothingToFlush(c) \/ StartFlush(c) \/ Ask(c) \/ FlushOwn(c) \/ FinishFlush(c)
    \/ FlushForOther(c) \/ Acknowledge(c)

Next == \E c \in Cpus :
    \/ Walk(c)
    \/ \E s \in Spaces \cup {None} : BeginSwitch(c, s)
    \/ \E s \in Spaces, kind \in {"unmap", "protect"} : Begin(c, s, kind)
    \/ Kernel(c)

\* A CPU in the kernel goes on, and an interrupt that is pending is taken in user mode,
\* be it after several system calls.  The locks the model does not have are taken to be
\* given up: a CPU that spins for one with interrupts off answers nobody meanwhile.
Spec == /\ Init /\ [][Next]_vars
        /\ \A c \in Cpus : WF_vars(Kernel(c)) /\ SF_vars(FlushForOther(c))

-----------------------------------------------------------------------------
(* Properties.                                                             *)

\* A CPU that can use its translations has none that its page table does not have,
\* unless the space is locked by an operation that has yet to ask it: after mprotect or
\* munmap nobody writes through the old translation.
StaleOnlyWhileLocked ==
    \A c \in Cpus, p \in PageSet :
        (pc[c] \notin {"replace", "enter"} /\ tlb[c][p] # None /\ tlb[c][p] # pte[space[c]][p])
            => writer[space[c]] # None

\* No CPU that can use its translations has one of a free frame: flush frees only after
\* the acknowledgements.
NoFreeFrameReachable ==
    \A c \in Cpus, p \in PageSet :
        (pc[c] \notin {"replace", "enter"} /\ tlb[c][p] # None) => tlb[c][p].frame \notin free

\* While a CPU waits, its counter has exactly one acknowledgement for every request that
\* was sent and is no longer pending: none is lost to another space, and none is left over
\* from an earlier flush to be counted twice.  A CPU that was counted and not asked, as it
\* has no block, is in missed: its acknowledgement never comes.
AcksExact ==
    \A c \in Cpus : pc[c] = "wait" =>
        job[c].asked = tlb_ack[job[c].space] + Cardinality(job[c].missed)
                       + Cardinality({d \in Cpus \ {c} : (wants[d] \/ flushed[d]) /\ space[d] = job[c].space})

\* An operation that has its lock ends, also when two CPUs wait for each other, where
\* every CPU has registered its block.  Where none has, flush waits for an answer to a
\* request that shootdown_tlb_ipi did not send.
FlushesEnd == \A c \in Cpus : (pc[c] = "work" /\ blocks = Cpus) ~> pc[c] = "run"
=============================================================================
