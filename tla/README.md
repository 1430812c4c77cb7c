# A TLA+ model of the kernel

This directory is a verification development for the kernel under `src/src`: TLA+
modules translated from the Rust source, TLC configurations that check them on small
instances, and TLAPS proofs of the most important results for every instance.
`PROJECT.json` lists the runs, maps every definition to the lines it models, and names
the hazards of the code with the properties that watch them. Paths below are relative
to `src/src`.

## The system and its modules

A microkernel: it schedules contexts, gives them memory, and passes messages between
user programs and *schemes*, which are kernel modules or user-space drivers.

| Part | Source | What makes it hard | Module |
|---|---|---|---|
| scheduler | `context/switch.rs`, `context/mod.rs` | CPUs scan the same set; a context blocks itself and is woken before it has left the CPU | `Switch` |
| registers, kernel entry | `context/arch/`, `arch/*/interrupt/handler.rs`, `scheme/proc.rs` | four architectures, each saving in its own way; registers written from outside | `Registers` |
| start of the processors | `main.rs`, `acpi/madt/arch/`, `arch/*/start.rs` | arguments that are overwritten, on x86; processors that do not come up, on aarch64 | `Startup` |
| pipes, wait conditions | `scheme/pipe.rs`, `sync/wait_condition.rs` | a wake-up between check and sleep; signals; closes of both ends | `Pipe`, `ByteStream` |
| context control | `scheme/proc.rs`, `scheme/user.rs`, `context/signal.rs`, `syscall/process.rs` | several controllers, a target on another CPU, a status that is saved and put back | `ProcControl` |
| proc handles | `scheme/proc.rs`, `syscall/process.rs` | file tables and address spaces exchanged when a handle is closed | `ProcHandles` |
| futexes and sleeps | `syscall/futex.rs`, `syscall/time.rs` | a timeout racing a wake; entries and wake-up times that outlive the call | `Sleep` |
| time scheme | `scheme/time.rs`, `context/timeout.rs` | two timer interrupts in one list | `Timeouts` |
| calls to user-space schemes | `scheme/user.rs`, `sync/wait_queue.rs` | tags used again, cancellation, timeouts, kills, a handler on another CPU | `UserScheme` |
| buffers of calls | `scheme/user.rs` | partial pages, faults while copying back, kills | `Capture` |
| descriptors in calls | `scheme/user.rs`, `syscall/fs.rs` | counted references in flight | `FdPass` |
| file descriptions | `syscall/fs.rs`, `context/file.rs` | threads that share a table; the last reference closes | `FileOps` |
| file table | `context/context.rs` | limits kept by a counter; searches for runs of places | `FdTbl` |
| scheme table, namespaces | `scheme/mod.rs`, `scheme/root.rs` | numbers used again under open files | `Schemes` |
| frame allocator | `memory/mod.rs` | merging at section borders; partial returns | `Frames` |
| memory at boot | `startup/memory.rs`, `memory/mod.rs` | overlapping and unaligned regions | `Boot` |
| address spaces | `context/memory.rs`, `memory/mod.rs` | copy-on-write, borrowing, counts of references | `AddrSpace` |
| grants | `context/memory.rs` | cutting, joining and moving of spans | `UserGrants`, `GrantMap`, `PageMap` |
| TLB shootdown | `percpu.rs`, `context/memory.rs` | flushers that wait for each other, CPUs between two spaces or not registered | `Tlb` |
| event queues | `event.rs`, `scheme/event.rs` | an event during registration; queues in queues | `Events` |
| interrupts as files | `scheme/irq.rs`, `arch/x86_shared/` | an interrupt between read and acknowledgement; edges and masks | `Irq` |
| keyboard, mouse, serial line | `scheme/serio.rs`, `scheme/debug.rs`, `sync/wait_queue.rs` | interrupt handlers against readers | `Input` |

The parts interact through the context: `Pipe`, `Sleep`, `UserScheme`, `Input` and
`ProcControl` block and unblock contexts, and what they need of the scheduler is what
`Switch` shows: `switch()` returns into a context only if it is runnable, and a context
that stays runnable is run again. In those modules a context that is Runnable may take
its next step at any time, and one that is Blocked may not. `AddrSpace` treats a page as
a grant of its own, which `GrantMap` justifies by showing that the calls on grants act
page by page (`PageMap`).

Every module has one action per step that other contexts can observe: code under one
lock is one action, and a lock that is kept over several such steps is a variable. Data
is reduced to what the properties distinguish. A definition whose name contains an
underscore after another definition's name (`KwriteBytes_Quiet`) is a faulty variant of
that definition, kept to show that a property notices it; no specification uses it.

**`Switch`**. Each CPU has a program counter. `run` is code outside `switch()`, `spin`
waits for CONTEXT_SWITCH_LOCK, `begin`, `scan`, `hook` and `unlock` are the stages of
`switch()` and `switch_finish_hook`, `exit` lies between the two halves of
`exit_this_context`. A context is a number, its place in the order of the BTreeSet;
`left` is what remains of the round-robin scan, `guards` the context locks that
`switch()` keeps.

**`Registers`**. Five classes of registers: what an interrupt pushes, the thread
pointers, the float registers, the I/O bitmap and the kernel stack with the callee-saved
registers. `switch_to`, entry and return are translated for each architecture; the proc
scheme writes the copies of stopped contexts. `mine` is what a context last put there.

**`Startup`**. The boot processor walks the table of processors, fills the arguments,
waits for AP_READY (with a limit on aarch64) and sets BSP_READY; on x86 a started processor
copies what it needs at the places where the code reads it. On aarch64 it goes `astray`
(see below), so what the properties say of started processors is about x86.

**`Pipe`**. A context in `kread` or `kwrite` takes the queue lock, looks, and moves
bytes, fails, or enters `WaitCondition::wait`, which is split where the code lets go of
something: the check for signals and `block()` (WaitBlock), the entry in the wait list
and the release of the queue lock (WaitPush), the return of `switch()` (WaitResume), the
removal from the list (WaitUnlist). `close` is three steps (store the flag, notify,
remove). `sent` and `got` record all bytes. **`ByteStream`** is what a pipe promises: each
call takes effect in one step between its beginning and its end. `Pipe` defines the
refinement mapping (ImplementsStream).

**`ProcControl`**. Controllers write verbs to proc handles, or stop a target with
`try_stop_context` (mark, wait until it has left its CPU, call back and put the status
back). Targets run, are preempted, take signals and exit, and sleep in two ways:
`WaitCondition::wait` checks for signals before it blocks, `UserInner::call` does not.
`seen` is the copy of `being_sigkilled` that a CPU makes at a switch. **`ProcHandles`** has the handles that
carry a file table or an address space to another context, and who closes a table.

**`Sleep`**. One futex word and its list in FUTEXES, nanosleep, and a WaitCondition,
because the three share `Context::wake`. `Store` is what user code does before
FUTEX_WAKE. **`Timeouts`**: the list of timeouts is locked for one entry at a time, so two
processors can be in it.

**`UserScheme`**. Callers run `call_extended_inner`: reserve a tag, block, post the slot,
send, sleep, and after each wake-up look at the slot and return, cancel, hand the buffer
over because of a kill, or block again. The handler reads the queue (checking `unmounting`
before the lock, as the code does) and answers. Requests are numbered so that a property
can say which request an answer belongs to. **`Capture`** has the bytes of one lent
buffer, **`FdPass`** the descriptions that travel with a call.

**`FileOps`**. Threads share a table; `file` is the reference a thread holds outside the
table, `locked` the description whose read lock it keeps (openat and fcntl do until they
return), `filesLock` the thread in F_SETFL, which keeps the table while it waits for a
description. `mail` is a description that was sent and not received. The look at the strong
count (SendSole) and the hand-over of an exclusive description (SendCall) are two steps. **`FdTbl`** is the
inside of the table: the two vectors, `active_count`, and all operations.

**`Frames`**. `Init` is the cutting loop of `init_sections` for one section. Allocation
splits, deallocation merges, both through the links in PageInfo. **`Boot`** takes the
memory map of the boot loader to AREAS and the first free lists. **`AddrSpace`** has the
page tables of several spaces over shared frames with their counts; **`UserGrants`** are
the operators on the map of grants and its holes, **`GrantMap`** the calls, **`PageMap`**
what they promise page by page. `GrantMap` has no page table; `AddrSpace` has. **`Tlb`**
follows one address-space operation from the write lock through `Flusher::flush` to the
acknowledgements, and the switch of spaces; `blocks` are the CPUs in ALL_PERCPU_BLOCKS.

**`Events`**, **`Irq`**, **`Input`**, **`Schemes`**: the registration of a file with a
queue is several steps, and triggers meet it; interrupts, of edges, levels and messages, are
counted, masked and acknowledged; interrupt handlers fill wait queues that readers empty;
registrations of schemes, namespaces and open files that keep a number.

Some variables and fields are histories: they decide nothing and record exactly what the
code gives up, so that a property can be stated for the rest and still be exact. They are
`leaked`, `short` and `forced` of `AddrSpace`, `behind` of `UserGrants`, `late` of `Events`,
`missed` of `Irq` and of `Tlb`. What each stands for is in the section on where the code
departs from what it says.

## The runs

An MC module checks several components in one run. Its variable `part` is chosen in
the initial state and never changes; it says which component moves, the others keep
their initial values. Components that share no variable need no interleaving, so the
states are the sum and not the product of theirs. One component is extended, the others
are instances whose variables are `v1`, `v2`, …. The fairness of a component is asked of
its steps only.

| Run | Components | Properties |
|---|---|---|
| `cpu` | `Switch`, `Registers` | no context on two CPUs (OneCpuPerContext); `switch()` never returns into a blocked or dead context (SwitchReturnsRunnable); contexts find their registers (RegistersAreOwn) |
| `progress` | `Switch`, with the clock at rest | the scan starves nobody (NoStarvation) |
| `calls` | `Pipe`, `ProcControl`, `UserScheme`, `Startup` | nobody sleeps on data or room (NoLostWakeup); the pipe is a byte stream (ImplementsStream); a read with data returns (ReadReturnsOnData); a signal is not slept through in `WaitCondition::wait` (SignalledIsNotBlocked); killed contexts exit (KilledExits); calls return if the handler answers (CallReturns); started processors have numbers and stacks of their own, on x86 (ProcessorsAreDistinct) |
| `user` | `UserScheme`, `FdPass`, `Capture`, `Irq`, `Input` | answers and cancellations meet their request (TagMatchesCall); lent buffers stay mapped (BorrowedUntilAnswered), are seen in one piece (BufferIsContiguous) and come back (WrittenBack); descriptions in use are open (InUseIsOpen); no interrupt that the controller recorded is lost (NoLostInterrupt), no reader sleeps on input (ReadersWake) |
| `files` | `FileOps`, `FdTbl`, `ProcHandles` | what is referenced is open (ReferencedIsOpen); FD_EXCLUSIVE is exclusive from the look at the count to the receipt (ExclusiveIsExclusive); the count of files is exact (ActiveCountIsExact); registers fit the space (RegistersMatchSpace), closed tables are unused (ClosedTablesAreUnused) |
| `memory` | `AddrSpace`, `Frames`, `Boot`, `Events` | no frame lost or given twice (EveryFrameOnce), buddies merged (BuddiesAreMerged); AREAS and first free lists exact (AreasAreTheUsableFrames, FirstFreeListsExact); counts exact up to the leaks and shortages listed below (RefcountExact); copy-on-write pages read-only unless mprotect or mremap made them writable (CowIsReadOnly); no event lost except to a queue that the trigger has passed (NoLostEvent) |
| `grants` | `GrantMap`, `Schemes` | holes are the complement of the grants (HolesExact); the panic of mprotect is the only one (NoOtherPanic); the grants agree page by page with `PageMap`, except for the place of a borrow that was split (PagesAgree); names resolve, and files reach the scheme that opened them or none (SchemesAreReached) |
| `tlb` | `Tlb` | a stale translation needs a locked space (StaleOnlyWhileLocked); no CPU reaches a free frame (NoFreeFrameReachable); flushes end where all CPUs are registered (FlushesEnd) |
| `time` | `Timeouts`, `Sleep` | timeouts fire (TimeoutsFire); nobody sleeps on an old value after FUTEX_WAKE (NoMissedWake); timed sleeps end (TimedSleepEnds) |
| `pipe_close` | `Pipe` | fails: a close between a reader's look at the flag and its entry in the wait list (CloseWakesReader) |
| `frames_contig` | `Frames` | fails: a contiguous grant of three pages breaks the assertions of deallocation (DeallocateAssertionsHold) |
| `startup` | `Startup` | fails: no processor but the first gets through the scheduler (ContextsAreScheduled) |

**Bounds.** Two CPUs and two user contexts let a scan of one CPU overlap with block,
unblock, exit and affinity changes from the other. One reader and one writer with a queue
shorter than what is sent make both sides sleep. Two controllers are needed for a
try_stop_context to meet another one, or another verb. Two tags for two requests force a
tag to be used again while the first call is being cancelled. Two threads with two places
and three descriptions reach every pair of calls on one description. The sections of
seven frames start and end off alignment, so that each case of the cutting loop and of
the merge occurs; the regions at boot overlap, touch and lie inside each other, up to five
of them in any order. Two CPUs, two spaces, two pages and a queue for one frame make
shootdowns meet and flushes fall into the middle of an operation; the second space has one
mapped page at first (Small), and so has each space where no CPU is registered. Address
spaces of four pages with two grants let a call cut a grant at either end and in the middle;
besides plain memory there is one kind of borrowed memory at a time (MaxKinds: a file, a
physical range, pages of another space, pinned or not). Legacy interrupts are taken with
edges and with levels (Level), on PIC and I/O APIC. Three instants, two stores, two
timeouts. The constants Max… stand in the guards of the actions
that consume them. Where a theorem exists, it does away with the bounds.

**Deadlock** is checked in `progress`. In the other runs the system may really stop: when
all bytes, instants, requests or descriptions of the bound are spent, or everybody sleeps
without a waker.

**Fairness.** `progress`: code with interrupts disabled runs to its end; timer interrupts
reach each CPU and do not all fall into preemption guards; a spin on a lock that becomes
free again and again succeeds. (The spin locks of the kernel give no such guarantee
themselves; it is what the hardware provides in practice.) The clock is at rest there,
because a deadline is only a second way to unblock a context. `calls`, `time`, `tlb`: a
runnable context is scheduled, which is NoStarvation of `Switch`; locks as above; the
clock advances and timer interrupts come; a CPU that spins for acknowledgements answers
the requests to itself. So do those that spin for an address
space or for CONTEXT_SWITCH_LOCK, whose loops call `maybe_handle_tlb_shootdown`; a CPU that spins with interrupts disabled for
another lock does not answer, and such locks are outside the model. CallReturns also assumes
a handler that reads and answers.

## What is proved

The theorems hold for every value of the constants that satisfies the named assumption of
the component. Each rests on an inductive invariant (`IInv`, or a name of the component's own),
which TLC checked on the instance of the run, or a smaller one; there is one lemma per
action.

**`SwitchProofs`** (any CPUs, contexts, masks; `SwitchAssumption`: idle contexts are
distinct and not user contexts, the constants have their types): `TypeCorrect`,
`MutualExclusion` (OneCpuPerContext), `RunningFlagExact`, `ReturnsRunnable`
(SwitchReturnsRunnable) and the action property `GuardsAndMasksRespected`.
OneCpuPerContext is not inductive: it needs the running flag to be exact, and the flag is
written by whichever CPU holds CONTEXT_SWITCH_LOCK, so `IInv` says who holds the lock
(LockInv). That `switch()` always finds something to run when the current context cannot
go on needs that the kmain context of each CPU stays runnable, in CONTEXTS and bound to
its CPU (IdleInv), and that the scan passes over it exactly once (ScanInv).

The module goes on with two components that decide what the scheduler may choose, each as
an instance of its own:

- `ProcControl` (any contexts, targets, controllers; `ProcControlAssumption`):
  `SignalledIsNotBlockedAlways` (SignalledIsNotBlocked) and `ExitIsFinalAlways` (no verb of the
  proc scheme brings a context back that has exited). The first is about
  `WaitCondition::wait` and Interrupts that found the context unstopped. A signalled context stays awake only
  because no `try_stop_context` that is under way will put the status Blocked back
  (StaysAwake); ControlledOK adds who is inside `switch()` and who is in CONTEXTS.
- `ProcHandles` (any threads, children, tables, spaces, handles; `ProcHandlesAssumption`):
  `ClosedTablesAreUnusedAlways` (ClosedTablesAreUnused) and `RegistersMatchSpaceAlways`
  (RegistersMatchSpace). TableOK says that a table in `force_close_all` has no Arc left, where
  the strong count is a sum over contexts, calls and handles; ProcContextOK follows registers
  and address space through a change from outside.

**`RegistersProofs`** (any CPUs, contexts and values, each architecture;
`RegistersAssumption`): `RegistersKept` (RegistersAreOwn). The strengthening follows the
registers to where they are: on the CPU of the context that runs (CpuOK), on its kernel
stack once it has entered the kernel (Kept), and in its saved fields while it does not run
(StoppedOK), differently for every architecture. The module also proves, as instances, two
components that the CPUs and the clock drive:

- `Startup` (any number of processors, boot processor, set of disabled ones, on x86
  and on aarch64 with ACPI or a device tree; `StartupAssumption`): `ProcessorsDistinct`
  (ProcessorsAreDistinct) and `SchedulingStartsLast` (NobodySchedulesEarly). On x86 one
  processor at a time is between its start and AP_READY, and it is the one the arguments are
  for (OrderInv); the number of a round is larger than those given before (NumberInv). On
  aarch64 the argument is only that no processor but the first gets anywhere (AstrayInv).
- `Sleep` (any contexts, times, values; `SleepAssumption`, and `WakesAll`: FUTEX_WAKE is for
  all who wait, in one address space): `NoMissedWakeAlways` (NoMissedWake). Each context that
  is blocked in FUTEX_WAIT has an entry in FUTEXES, a FUTEX_WAKE under way can still reach
  every entry, `swap_remove` loses none (`SwapRemoved`), and the lock of FUTEXES is held from
  the load of the word to the push of the entry (SleeperOK).

**`PipeProofs`** (any readers, writers, queue and buffer sizes; `PipeAssumption`):
`TypeCorrect`, `WakeupsKept` (NoLostWakeup), `BytesInOrder`, `ClosedIsRemoved`
(ClosedPipeRemoved), `EintrNeedsSignal` (InterruptNeedsSignal) and the refinement
`PipeImplementsStream` (ImplementsStream). For the first, a context holds the
queue lock from its look at the queue until it is in the wait list (LockInv, CommitInv),
so the queue cannot change in between; a blocked context is in the list or on its way into
it (ListInv); and each change of the queue empties the list. That both closes together
remove the pipe needs that each clears its flag before it loads the other's (ClosedInv).
EINTR is not a misread notification, because a context that is awake and still listed was
woken by a signal (SignalInv). For the refinement, every step of the pipe maps to a step of
`ByteStream` or to none; a call answers in the step in which it lets go of the queue.

**`EventsProofs`** (any files, queues, threads and registrations of queues with each other;
`PolledAssumption`): `EventsKept` (NoLostEvent). The invariant has a stronger notion of
what is under way: the question of a registration counts only where the scheme answers it,
because the other files are looked at when the entry is made (Asks). Events that reach a
queue after its turn in `trigger` are excepted by the history `late`. Two sources of events
follow:

- `Input` (any ports, readers, bytes; `InputAssumption`): `ReadersWakeAlways` (ReadersWake),
  because a blocked reader is in the list of its queue.
- `Irq` (any CPUs, interrupts, drivers, PIC or I/O APIC; `IrqAssumption`: legacy interrupts
  have lines of their own): `NoLostInterruptAlways` (NoLostInterrupt). A line is masked only
  by an interrupt that is counted or being counted (LineOK), every driver that shares it then
  has something left to acknowledge and a reason to wake up (LegacyOK), and a message or a
  recorded edge stays accounted for from the device to the acknowledgement (MessageOK).
  Edges that the controller does not record are excepted by the history `missed`.

**`TlbProofs`** (any CPUs, spaces, pages and capacity of the flusher's queue;
`TlbAssumption`): `StaleWhileLocked` (StaleOnlyWhileLocked), `FreedUnreachable`
(NoFreeFrameReachable) and `AcknowledgementsExact` (AcksExact). A stale translation is
harmless only because its page is in the flusher's queue, or taken from it and the CPU
still has to be asked or to answer (StaleOK); a frame is free only if no queue and no page
table has it (FreeOK); the wait ends only when all have answered because `tlb_ack` counts
exactly the answers of this flush (Counted; CPUs that were counted and could not be asked
never answer, and the wait does not end without them), which in turn needs that one CPU at a time
holds the lock of a space (LockExact), that `used_by` is exact (UsedExact), and that what
was asked is what is still pending or answered (Asked).

**`UserSchemeProofs`** (any callers, tags, requests, kills; `UserSchemeAssumption`):
`AnswersMatchCalls` (TagMatchesCall), `BuffersBorrowed` (BorrowedUntilAnswered),
`EintrOnlyCancelled` (EintrNeedsCancel) and the action property `BuffersKeepOwner`
(BufferKeepsOwner). A tag is used again as soon as its slot is vacant, so the argument is
about what is still under way: every request in the queue or with the handler has a slot
that waits for it, and is in one of these places only (Sent); every cancellation in the
queue was sent by the request that the slot still has (Cancels); the slots of two calls are
two (Distinct), and so are the requests of two slots (OwnRequests); CallOK says what
the slot of a call holds at each place of `call_extended_inner`.

**`FileOpsProofs`** (any threads, size of the table, number of descriptions;
`FileOpsAssumption`): `TypeCorrect`, `UsedFilesAreOpen` (ReferencedIsOpen),
`ExclusiveIsSole` (ExclusiveIsExclusive) and `OnlySetflDeadlocks` (DeadlockNeedsSetfl).
Lemmas turn the strong count, a sum of four cardinalities, into the absence of other
references; the steps then only have to show that new references come from old ones, or
from a description that the scheme has just made. ThreadOK says what a thread holds at each
place. That FD_EXCLUSIVE stays exclusive needs that what is in the mail is open, so that
it is not made a second time, and that a description whose only reference is local to one
thread stays that thread's alone, whatever the others do (Sole).

**`FdPassProofs`** (any callers, descriptions, size of the tables; `FdPassAssumption`):
`InUseIsOpenAlways` (InUseIsOpen). What has been closed is in no file table and in no call
(FdInv); a close happens when the strong count is one, and the count, a sum of two
cardinalities, is replaced by the sets of places that hold the description (TablePlaces,
CallPlaces).

The numbers in file descriptions come from the list of schemes (`Schemes`, any daemons,
clients, names, sizes; `SchemesAssumption`): `FilesReachOwnerAlways` (FilesReachOwner) and
`NamesResolveAlways` (NamesResolve as long as the numbers have not wrapped around; the second
round, which needs the bound Window, is left to TLC). The search for a number ends with a free
one because the list is finite (`SomeNumberIsFree`, from the least-number principle), and until
it wraps all numbers in use, reserved ones included, are below `next_id` (SchemesInv).

Only model-checked: liveness (NoStarvation, ReadReturnsOnData, KilledExits, CallReturns,
FlushesEnd, TimeoutsFire, TimedSleepEnds), which the prover does not do under fairness; what
rests on recursive functions or folds over data, whose induction it does not do either (the
lists of `Frames` and `Boot`, the scan of `FdTbl`, the folds of `GrantMap` and `AddrSpace`);
`Capture`, whose arithmetic of pages and offsets (div and mod
by a constant that is not fixed) is beyond the solver; and NamesResolve once the numbers of
schemes are used again.

A caveat of the prover: the SMT translation of tlapm 1.4.5 takes the intersection of two sets
that are both written out (`{a} \cap {b}`, `{a} \cap 0 .. 15`) to be empty unless the same
expression is in both, which is wrong. No definition or proof step of the modules with
theorems, expanded, contains such an intersection; `Lines` of `Irq` is written with
comprehensions for this reason. The intersections that do occur have a variable, a constant or
a comprehension on one side, which is translated correctly.

## Where the code departs from what it says

Checked by runs:

- `pipe_close` (`scheme/pipe.rs:105`): `close()` clears the alive flag and notifies without
  the queue lock. A reader that has loaded the flag and is not yet in the wait list misses
  the notification and sleeps for ever.
- `frames_contig` (`memory/mod.rs:196`, `context/memory.rs:1233`): a contiguous grant is
  rounded up to a power of two but returned by page count. The rest stays outside every
  free list with a PageInfo that reads as free, and a later deallocation merges with it
  against the debug assertions.
- `startup` (`main.rs:230`): `kmain_ap` enters the scheduler without `context::init`, finds
  no current context and panics with CONTEXT_SWITCH_LOCK held.

Met while modelling; the properties except them explicitly, or do not speak of them:

- *Context control.* `scheme/proc.rs:69-90`: a target held by `try_stop_context` is marked
  NotYetStarted, which the start handle, ForceKill or a second stopper make runnable again,
  so the assertion "process can't have been restarted, we stopped it!" can fail. An
  Interrupt that meets such a target does nothing, and the status Blocked is put back later:
  the signal is slept through. `scheme/user.rs:287`: `UserInner::call` blocks without the
  check for signals that `context/signal.rs:31-34` relies on, so a context that was signalled
  on its way sleeps there until the scheme answers. SignalledIsNotBlocked speaks of neither.
  `scheme/proc.rs:1141`: writing `sched-affinity` does not move
  the context, so `cpu_id` can lie outside the mask. A file table whose last two holders
  let go at once is not closed (`Arc::try_unwrap`).
- *Futexes and timeouts.* `syscall/futex.rs:145`: a FUTEX_WAIT that ended leaves its
  wake-up time and, if it timed out, its entry in FUTEXES; both can end a later wait.
  `syscall/futex.rs:195`: FUTEX_WAKE skips the entries of other address spaces, although the
  key of FUTEXES is the physical address; NoMissedWake is stated for one address space.
  `context/timeout.rs:70`: an entry that another processor takes out makes this one skip the
  next until the next tick.
- *Calls.* `scheme/user.rs:356`: a call that is killed after its timeout hands its buffer
  over twice, the second time an empty one (exception in BufferKeepsOwner).
  `scheme/user.rs:452`: an interrupted call that has also timed out may return EINTR where
  line 395 announces ETIMEDOUT. `scheme/user.rs:427`: a call with a timeout still waits for
  the answer to its cancellation. `scheme/user.rs:785`: `read()` loads `unmounting` before it
  locks the queue, and can block after `unmount()` has notified. A copy that faults in the
  middle of a buffer leaves pages pinned; a fault while copying back skips the unmapping.
  `ObtainFd` keeps only the first of several descriptors, and a full table drops what it
  obtains (FIXME at `scheme/user.rs:890`).
- *Files.* `context/file.rs:87`: two threads that close the last two references at once may
  both fail `Arc::try_unwrap`, and nobody tells the scheme; no property of `FileOps` or
  `FdPass` notices a close that is missing, only one that comes too early. `syscall/fs.rs:187`: with a full
  table the new description is dropped without close. `syscall/fs.rs:595`: F_SETFL changes
  whatever the descriptor stands for after the scheme has agreed. `syscall/fs.rs:613`:
  F_SETFL can deadlock with openat, F_DUPFD or a second fcntl (exception in
  DeadlockNeedsSetfl).
- *Memory.* `memory/mod.rs:1073`: the debug assertion of `init_frame` contradicts
  `mark_used`. `context/memory.rs:264`: mprotect panics when a grant it has listed was merged
  with the one before (excepted in NoOtherPanic). `context/memory.rs:1883`: unmapping a pinned
  borrow panics when the file mapping of the source is another one by then, which nobody has
  pinned; this is the panic "unpin" of `AddrSpace`, and not in `GrantMap`, which has one space. `context/memory.rs:1440`: `borrow_fmap` queues the release
  of a copy-on-write frame that it replaces on a flusher state of its own, which is flushed
  only when its 32 places are full and is otherwise dropped, so the reference is lost
  (`leaked`; so are those of a mapping over a present entry and of a fork without memory).
  `context/memory.rs:2624`: a fault on borrowed memory whose source has no grant maps one
  zeroed page in two tables, counted once (`short`, with the two other cases RefcountExact
  lists). `context/memory.rs:1838` and `1809`: mprotect and mremap set the flags they are
  asked for without a look at the frame, so a frame that is shared copy-on-write, the zeroed
  one included, becomes writable (`forced`), where `memory/mod.rs:456` says it is mapped
  read-only and `context/memory.rs:543` calls the write fault on it unreachable.
  `context/memory.rs:1998-2077`: `extract` leaves `src_base` of the upper part of a split
  borrow as it was, so its pages name places too low in the source (`behind`). A block of free
  memory that begins below the mark of the bump allocator is dropped at boot.
- *TLB.* `context/memory.rs:2841` counts every CPU of `used_by`, `percpu.rs:91` returns
  without a request for a CPU that is not in ALL_PERCPU_BLOCKS. Only x86 fills that table; on
  aarch64 and riscv64, where `ipi_single` is a FIXME besides, a flush that counts another CPU
  waits for ever (`missed`; FlushesEnd is about registered CPUs). The path of `correct_inner`
  marked "TODO: flusher" changes an entry without a shootdown and is not in `Tlb`.
- *Events.* `event.rs:236`: a queue that `trigger` has passed on is in `done`. If it is read
  empty and then gets an event of another queue in the same loop, it is not announced again,
  and who waits for it sleeps on (`late`).
- *Start.* `arch/x86_shared/start.rs:244`: the cpu_id is read after AP_READY, when the next
  arguments may be there. On aarch64 (`acpi/madt/arch/aarch64.rs:233` and `327`) PSCI is given
  virtual addresses of the entry point and of the arguments, and `kstart_ap` adds PHYS_OFFSET
  to the second, which its comment (`arch/aarch64/start.rs:326`) calls physical: no secondary
  processor comes up. The loop over a device tree goes to the number of enabled processors
  and takes its counter for their numbers, so a processor behind a disabled one is not tried.
- *Registers.* A new aarch64 context inherits float registers, riscv64 saves none, and
  `set_fx_regs` panics there.
- *Interrupts, schemes.* Legacy lines are edge-triggered unless an override says otherwise
  (`arch/x86_shared/device/ioapic.rs:353-399`), and `trigger` masks the line until a driver
  acknowledges. An edge that comes in between is not recorded by the I/O APIC, nor is that of
  a device that shares a line which is already high; the driver learns of it with the next
  interrupt, if one comes (`missed`). A vector once reserved stays reserved; closing a handle uses the
  boot processor's table. Numbers of schemes wrap around and are used again
  (`scheme/mod.rs:89`).

## What is not modelled

Assumed of the architecture: interrupts are masked in `switch()`, a timer interrupt reaches
every CPU, each context has its own stack, and the atomics used for locks behave as such
(memory orderings are not modelled). The crates `rmm`, `slab` and `linked_list_allocator`
are used as their callers in `src/` use them.

Of `AddrSpace`, each operation is one step except the faults that give the lock up; races
inside the others, huge pages and the order in which two spaces are locked are left out. Of
`UserScheme`, the fmap handshake is left out; `Frames` has one section. `Input` has
`WaitCondition::wait` in one step; the window inside it is taken apart in `Pipe`. The last clause
of FirstFreeListsExact bounds the number of sections by whole areas, not by what the bump
allocator has left of them. SchemesAreReached speaks of files
only until the numbers of schemes wrap around. `Startup` begins where the boot processor has
the table; the early returns for a missing table or interrupt controller are left out. Parsers of firmware
tables, device registers, page-table bits, formatting, logging, profiling, the read-only
schemes and the code that is switched off (ptrace sessions, the cache of paths) are not
modelled; `PROJECT.json` lists each with the reason. About 30 % of the lines of the
implementation are mapped to definitions.
