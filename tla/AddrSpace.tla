----------------------------- MODULE AddrSpace -----------------------------
(***************************************************************************)
(* The frames behind the pages of address spaces: page tables, reference   *)
(* counts, copy-on-write, borrowed pages and page faults, from             *)
(* context/memory.rs and the PageInfo of memory/mod.rs.  GrantMap shows    *)
(* that calls act on the pages of a span one by one, so a grant is a page  *)
(* here, and a call names a page.  Of the access rights only writing is    *)
(* told apart.  The whole memory is one record, and an operation maps a    *)
(* record to the next.  A lock is held through an operation except in the  *)
(* page faults on borrowed and on file pages, which are several steps.     *)
(***************************************************************************)
EXTENDS Integers, FiniteSets, FiniteSetsExt

CONSTANTS
    Spaces, NPages,     \* address spaces, pages of each
    FirstSpaces,        \* those in use at the start
    Frames,             \* the frames of the allocator, numbers
    Device,             \* a frame without PageInfo
    None,               \* no grant, no mapping, no frame
    MaxRefs,            \* bound on a reference count
    MaxOps              \* bound on the operations

VARIABLES
    mem,                \* the memory, see below
    fault,              \* the page fault between its steps, or None
    ops                 \* operations so far

vars == <<mem, fault, ops>>

Pages == 0 .. NPages - 1
Zero == 0               \* the zeroed frame; it is no member of Frames
Counted == Frames \cup {Zero}
Places == Spaces \X Pages

\* A grant: its kind; may it be written; for External the place it borrows; pins.
Grant(kind, w, src, pins) == [kind |-> kind, w |-> w, src |-> src, pins |-> pins]
Pte(f, w) == [f |-> f, w |-> w]

\* alive: the spaces in use; g and pt: grants and page tables; n and shared: count and
\* kind of the references to a frame (n = 0 is free); held: references of the kernel
\* itself; panic: a failed assertion.  Three histories of what the code gives up: leaked
\* and short, references to a frame that were abandoned and entries that were not
\* counted; forced, the entries made writable over a copy-on-write frame.
Boot == [alive |-> FirstSpaces,
         g  |-> [x \in Places |-> None],
         pt |-> [x \in Places |-> None],
         n  |-> [f \in Counted |-> IF f = Zero THEN 1 ELSE 0],
         shared |-> [f \in Counted |-> FALSE],
         held |-> [f \in Counted |-> IF f = Zero THEN 1 ELSE 0],
         leaked |-> [f \in Counted |-> 0], short |-> [f \in Counted |-> 0],
         forced |-> {}, panic |-> "none"]

Panic(m, where) == IF m.panic = "none" THEN [m EXCEPT !.panic = where] ELSE m

-----------------------------------------------------------------------------
(* PageInfo: a count of one is neither shared nor copy-on-write.           *)

IsCow(m, f)    == f \in Counted /\ m.n[f] > 1 /\ ~m.shared[f]
IsShared(m, f) == f \in Counted /\ m.n[f] > 1 /\ m.shared[f]
AllowsWritable(m, f) == ~IsCow(m, f)

\* add_ref: "ok", or the error it returns; a count has one kind of reference.
AddRefResult(m, f, kind) ==
    IF m.n[f] > 1 /\ m.shared[f] # (kind = "Shared")
    THEN IF kind = "Shared" THEN "CowToShared" ELSE "SharedToCow"
    ELSE "ok"
AddRef(m, f, kind) ==
    IF m.n[f] = 0 THEN Panic(m, "add_ref to free frame")
    ELSE IF AddRefResult(m, f, kind) # "ok" THEN m
    ELSE [m EXCEPT !.n[f] = @ + 1, !.shared[f] = (kind = "Shared")]

\* Mutant of FreeRef: the last reference but one is not counted down.
FreeRef_KeepsTwo(m, f) ==
    IF f \notin Counted THEN m
    ELSE IF m.n[f] = 0 THEN Panic(m, "remove_ref of free frame")
    ELSE [m EXCEPT !.n[f] = IF @ = 2 THEN 2 ELSE @ - 1, !.shared[f] = @ /\ m.n[f] > 2]

\* remove_ref, and the frame is free when it was the last: handle_free_action.
FreeRef(m, f) ==
    IF f \notin Counted THEN m
    ELSE IF m.n[f] = 0 THEN Panic(m, "remove_ref of free frame")
    ELSE [m EXCEPT !.n[f] = @ - 1, !.shared[f] = @ /\ m.n[f] > 2]

\* init_frame: a frame and its first references; None when memory is exhausted.
FreeFrames(m) == {f \in Frames : m.n[f] = 0}
NewFrame(m) == IF FreeFrames(m) = {} THEN None ELSE Min(FreeFrames(m))
InitFrame(m, f, refs) == [m EXCEPT !.n[f] = refs, !.shared[f] = refs > 1]

\* cow: an exclusive frame for the holder of a reference to f, with a second, shared
\* reference if asked for.  [m, f]; f is None when memory is exhausted.
Cow(m, f, kind) ==
    LET refs == IF kind = "Shared" THEN 2 ELSE 1
        new  == NewFrame(m)
    IN  IF m.n[f] = 1 THEN [m |-> InitFrame(m, f, refs), f |-> f]
        ELSE IF new = None THEN [m |-> m, f |-> None]
        ELSE [m |-> FreeRef(InitFrame(m, new, refs), f), f |-> new]

\* A reference to f that no entry stands for, and an entry to f that no reference does.
Leak(m, f) == IF f \in Counted THEN [m EXCEPT !.leaked[f] = @ + 1] ELSE m
Short(m, f) == IF f \in Counted THEN [m EXCEPT !.short[f] = @ + 1] ELSE m

\* Mapping over an entry that is present abandons the reference behind it.
SetPte(m, x, f, w) ==
    LET m1 == IF m.pt[x] = None THEN m ELSE Leak(m, m.pt[x].f)
    IN  [m1 EXCEPT !.pt[x] = Pte(f, w), !.forced = @ \ {x}]
ClearPte(m, x) == [m EXCEPT !.pt[x] = None, !.forced = @ \ {x}]

-----------------------------------------------------------------------------
(* Grants.                                                                 *)

CanHaveFlags(grant, w) == grant.kind \in {"Allocated", "Contig"} \/ (w => grant.w)
SetGrant(m, x, grant) == [m EXCEPT !.g[x] = grant]

\* Grant::zeroed: the zeroed frame, read-only, until the page is written; a page behind
\* the first MAX_EAGER_PAGES is left absent.
Zeroed(m, x, w, kind, eager) ==
    SetGrant(IF eager THEN SetPte(AddRef(m, Zero, "Cow"), x, Zero, FALSE) ELSE m,
             x, Grant(kind, w, None, 0))

\* zeroed_phys_contiguous, of a page.
Contiguous(m, x, w) ==
    LET f == NewFrame(m)
    IN  IF f = None THEN m
        ELSE SetGrant(SetPte(InitFrame(m, f, 1), x, f, w), x, Grant("Contig", w, None, 0))

Physmap(m, x, w) == SetGrant(SetPte(m, x, Device, w), x, Grant("Phys", w, None, 0))

\* allocated_shared_one_page, of a frame the kernel holds.
SharedPage(m, x, f, w, pins) ==
    IF AddRefResult(m, f, "Shared") # "ok" THEN Panic(m, "must be possible if previously Zero")
    ELSE SetGrant(SetPte(AddRef(m, f, "Shared"), x, f, w), x, Grant("Shared", w, None, pins))

\* Grant::borrow of page y: a shared file page is pinned; what is present is mapped
\* at once unless it is copy-on-write.
Borrow(m, x, y, w, pins) ==
    LET m1 == IF m.g[y].kind = "Fmap" THEN [m EXCEPT !.g[y].pins = @ + 1] ELSE m
        f  == m.pt[y].f
        m2 == IF m.pt[y] = None THEN m1
              ELSE IF f = Device THEN SetPte(m1, x, f, w)
              ELSE IF AddRefResult(m1, f, "Shared") # "ok" THEN m1
              ELSE SetPte(AddRef(m1, f, "Shared"), x, f, w)
    IN  IF m.g[y] = None \/ ~CanHaveFlags(m.g[y], w) THEN m
        ELSE SetGrant(m2, x, Grant("External", w, y, pins))

\* Grant::unmap.  A borrow ends at its source too: "fmap pinning code is wrong".
Unmap(m, x) ==
    LET grant == m.g[x]
        src   == grant.src
        m1 == IF grant.kind # "External" \/ m.g[src] = None \/ m.g[src].kind # "Fmap" THEN m
              ELSE IF m.g[src].pins = 0 THEN Panic(m, "unpin")
              ELSE [m EXCEPT !.g[src].pins = @ - 1]
        m2 == IF m1.pt[x] = None THEN m1 ELSE FreeRef(ClearPte(m1, x), m1.pt[x].f)
    IN  [m2 EXCEPT !.g[x] = None]

\* remap and transfer give an entry the flags as they are asked for, whether or not
\* the frame is copy-on-write.
Force(m, x, w) == IF w /\ IsCow(m, m.pt[x].f) THEN [m EXCEPT !.forced = @ \cup {x}] ELSE m
Remap(m, x, w) ==
    LET m1 == IF m.pt[x] = None THEN m ELSE Force([m EXCEPT !.pt[x].w = w], x, w)
    IN  [m1 EXCEPT !.g[x].w = w]
Transfer(m, x, y, w) ==
    LET m1 == IF m.pt[x] = None THEN m
              ELSE Force(SetPte(ClearPte(m, x), y, m.pt[x].f, w), y, w)
    IN  [m1 EXCEPT !.g[x] = None, !.g[y] = m.g[x]]

-----------------------------------------------------------------------------
(* try_clone, page by page.                                                *)

\* A result is the memory, and whether memory sufficed.  copy_mappings of private
\* memory: the frame becomes copy-on-write; one that others share is copied.
Done(m) == [m |-> m, ok |-> TRUE]
\* Mutant of CopyOwned: the original page stays writable.
CopyOwned_Writable(m, x, y) ==
    LET f  == m.pt[x].f
        m2 == AddRef(m, f, "Shared")
        c  == Cow(m2, f, "Cow")
    IN  IF m.pt[x] = None THEN Done(SetGrant(m, y, m.g[x]))
        ELSE IF AddRefResult(m, f, "Cow") = "ok"
             THEN Done(SetGrant(SetPte(AddRef(m, f, "Cow"), y, f, FALSE), y, m.g[x]))
        ELSE IF c.f = None THEN [m |-> Leak(m2, f), ok |-> FALSE]
        ELSE Done(SetGrant(SetPte(c.m, y, c.f, FALSE), y, m.g[x]))

CopyOwned(m, x, y) ==
    LET f  == m.pt[x].f
        m1 == [m EXCEPT !.pt[x].w = FALSE]
        m2 == AddRef(m1, f, "Shared")
        c  == Cow(m2, f, "Cow")
    IN  IF m.pt[x] = None THEN Done(SetGrant(m, y, m.g[x]))
        ELSE IF AddRefResult(m1, f, "Cow") = "ok"
             THEN Done(SetGrant(SetPte(AddRef(m1, f, "Cow"), y, f, FALSE), y, m.g[x]))
        ELSE IF c.f = None THEN [m |-> Leak(m2, f), ok |-> FALSE]
        ELSE Done(SetGrant(SetPte(c.m, y, c.f, FALSE), y, m.g[x]))

\* copy_mappings of shared memory: a page that is absent, or is the zeroed frame, gets
\* a frame of its own first.
CopyBorrowed(m, x, y) ==
    LET new   == NewFrame(m)
        fresh == m.pt[x] = None
        m1 == IF fresh THEN [InitFrame(m, new, 1) EXCEPT !.pt[x] = Pte(new, m.g[x].w)] ELSE m
        f  == m1.pt[x].f
        c  == Cow(m1, f, "Shared")
        m2 == IF AddRefResult(m1, f, "Shared") = "ok" THEN AddRef(m1, f, "Shared")
              ELSE [c.m EXCEPT !.pt[x].f = c.f]
    IN  IF fresh /\ new = None THEN Done(Panic(m, "handle OOM"))
        ELSE IF AddRefResult(m1, f, "Shared") # "ok" /\ c.f = None THEN [m |-> m1, ok |-> FALSE]
        ELSE Done(SetGrant(SetPte(m2, y, m2.pt[x].f, m.g[x].w), y, m.g[x]))

\* Captures, contiguous memory and shared files are not inherited.
CloneGrant(m, x, y) ==
    LET grant == m.g[x] IN
    IF grant = None THEN Done(m)
    ELSE CASE grant.kind \in {"Contig", "Fmap"} \/ grant.pins > 0 -> Done(m)
           [] grant.kind = "Phys"      -> Done(Physmap(m, y, grant.w))
           [] grant.kind = "Allocated" -> CopyOwned(m, x, y)
           [] grant.kind = "Shared" /\ grant.pins = 0   -> CopyBorrowed(m, x, y)
           [] grant.kind = "External" /\ grant.pins = 0 -> Done(SetGrant(m, y, grant))

\* Drop for AddrSpace: everything is unpinned and unmapped.
DropSpace(m, s) ==
    FoldSet(LAMBDA p, a : IF a.g[<<s, p>>] = None THEN a ELSE Unmap(a, <<s, p>>),
            [m EXCEPT !.alive = @ \ {s}], Pages)

\* The clone is dropped when it fails half-way.
CloneSpace(m, s, d) ==
    LET step(p, r) == IF r.ok THEN CloneGrant(r.m, <<s, p>>, <<d, p>>) ELSE r
        all == FoldSet(step, Done([m EXCEPT !.alive = @ \cup {d}]), Pages)
    IN  IF all.ok THEN all.m ELSE DropSpace(all.m, d)

-----------------------------------------------------------------------------
(* correct_inner, the part that holds the lock throughout: owned and        *)
(* physical memory.  [m, f]; f is None when the fault is not resolved.      *)

Resolve(m, x, write) ==
    LET grant == m.g[x]
        f     == m.pt[x].f
        new   == NewFrame(m)
        fresh == IF new = None THEN [m |-> m, f |-> None] ELSE [m |-> InitFrame(m, new, 1), f |-> new]
        r     == IF grant.kind = "Phys" THEN [m |-> m, f |-> Device]
                 ELSE IF m.pt[x] = None THEN fresh
                 ELSE IF ~write \/ AllowsWritable(m, f) THEN [m |-> m, f |-> f]
                 ELSE Cow(m, f, "Cow")
        w     == grant.w /\ (write \/ m.pt[x] = None \/ grant.kind = "Phys" \/ AllowsWritable(m, f))
    IN  IF grant = None \/ (write /\ ~grant.w) THEN [m |-> m, f |-> None]
        ELSE IF r.f = None THEN r
        ELSE [m |-> [r.m EXCEPT !.pt[x] = Pte(r.f, w), !.forced = @ \ {x}], f |-> r.f]

\* The source y of a borrowed page is moved from f to new, which has a reference for it.
\* It may have another entry by now, or none.
MoveSource(m, y, f, new) ==
    IF m.pt[y] = None THEN Leak(Short(m, f), new)
    ELSE IF m.pt[y].f = f THEN [m EXCEPT !.pt[y].f = new]
    ELSE [Leak(Short(m, f), m.pt[y].f) EXCEPT !.pt[y].f = new]

\* A borrowed page whose source y is in frame f, with flag w of its grant: a second,
\* shared reference; a frame that is copy-on-write is first made the source's own.
ShareFrame(m, x, y, f, w) ==
    LET c == Cow(m, f, "Shared")
    IN  IF f \notin Counted THEN Panic(m, "all allocated frames need a PageInfo")
        ELSE IF m.n[f] = 0 THEN Panic(m, "add_ref to free frame")
        ELSE IF AddRefResult(m, f, "Shared") = "ok" THEN SetPte(AddRef(m, f, "Shared"), x, f, w)
        ELSE IF c.f = None THEN m
        ELSE SetPte(MoveSource(c.m, y, f, c.f), x, c.f, w)

\* The source of a borrowed page has no grant any more: both get a zeroed page, which
\* is counted once.
ZeroBoth(m, x, y, w) ==
    LET f == NewFrame(m)
    IN  IF f = None THEN m ELSE Short(SetPte(SetPte(InitFrame(m, f, 1), y, f, w), x, f, w), f)

\* borrow_fmap of page y, which the scheme answered with: mapped shared or, for a
\* private mapping, read-only on both sides.  Where the source is copy-on-write it gets
\* a frame of its own, and its reference to the old one is abandoned: its removal is
\* queued in src_flusher_state, which is dropped unflushed (a longer call flushes it when
\* it has 32 entries).
BorrowFmap(m, x, y, w, private) ==
    LET m0  == IF private /\ m.pt[y] # None THEN [m EXCEPT !.pt[y].w = FALSE] ELSE m
        r   == IF m0.pt[y] = None THEN Resolve(m0, y, FALSE) ELSE [m |-> m0, f |-> m0.pt[y].f]
        ok  == r.f = Device \/ AddRefResult(r.m, r.f, "Shared") = "ok"
        new == IF ok THEN r.f ELSE NewFrame(r.m)
        m1  == IF r.f = Device THEN r.m
               ELSE IF ok THEN AddRef(r.m, r.f, "Shared")
               ELSE Leak([InitFrame(r.m, new, 2) EXCEPT !.pt[y].f = new, !.forced = @ \ {y}], r.f)
    IN  IF r.f = None \/ new = None THEN r.m
        ELSE SetGrant(SetPte(m1, x, new, w /\ ~private), x, Grant("Fmap", w, None, 0))

-----------------------------------------------------------------------------
(* The operations as steps.                                                *)

Init == mem = Boot /\ fault = None /\ ops = 0

Step(m) == mem' = m /\ ops' = ops + 1
Keeps == UNCHANGED fault

\* The kernel runs, and the bounds are not reached.
Runs ==
    /\ mem.panic = "none" /\ ops < MaxOps
    /\ \A f \in Frames : mem.n[f] < MaxRefs
Live(x) == Runs /\ x[1] \in mem.alive
Unused(x) == Live(x) /\ mem.g[x] = None
Granted(x) == Live(x) /\ mem.g[x] # None

MmapZeroed(x, w, kind, eager) == Unused(x) /\ Step(Zeroed(mem, x, w, kind, eager)) /\ Keeps
MmapContiguous(x, w)   == Unused(x) /\ Step(Contiguous(mem, x, w)) /\ Keeps
MmapPhysical(x, w)     == Unused(x) /\ Step(Physmap(mem, x, w)) /\ Keeps
MmapBorrow(x, y, w, pins) ==
    Unused(x) /\ Live(y) /\ x[1] # y[1] /\ Step(Borrow(mem, x, y, w, pins)) /\ Keeps
MmapFile(x, y, w, private) ==
    /\ Unused(x) /\ Granted(y) /\ x[1] # y[1]
    /\ mem.g[y].kind \in {"Allocated", "Contig", "Shared", "Phys"}
    /\ Step(BorrowFmap(mem, x, y, w, private)) /\ Keeps
Munmap(x) == Granted(x) /\ mem.g[x].pins = 0 /\ Step(Unmap(mem, x)) /\ Keeps

\* The release of a capture unpins first; a shared file is not pinned by a flag.
ReleaseCapture(x) ==
    Granted(x) /\ mem.g[x].pins > 0 /\ mem.g[x].kind # "Fmap" /\ Step(Unmap(mem, x)) /\ Keeps
Mprotect(x, w) ==
    /\ Granted(x) /\ mem.g[x].pins = 0 /\ CanHaveFlags(mem.g[x], w)
    /\ Step(Remap(mem, x, w)) /\ Keeps
Mremap(x, y, w) ==
    /\ Granted(x) /\ Unused(y) /\ mem.g[x].pins = 0 /\ CanHaveFlags(mem.g[x], w)
    /\ Step(Transfer(mem, x, y, w)) /\ Keeps
Fork(s, d) == Runs /\ s \in mem.alive /\ d \notin mem.alive /\ Step(CloneSpace(mem, s, d)) /\ Keeps

\* The last reference to an address space goes; borrowing grants hold one.
Exit(s) ==
    /\ Runs /\ s \in mem.alive
    /\ \A x \in Places : mem.g[x] # None /\ mem.g[x].kind = "External" => mem.g[x].src[1] # s
    /\ fault = None
    /\ Step(DropSpace(mem, s)) /\ Keeps

\* A page of the kernel, which it lends for the odd ends of buffers and for signals.
KernelFrame ==
    LET f == NewFrame(mem)
    IN  Runs /\ f # None /\ Step([InitFrame(mem, f, 1) EXCEPT !.held[f] = 1]) /\ Keeps
LendPage(x, f, w, pins) == Unused(x) /\ mem.held[f] > 0 /\ Step(SharedPage(mem, x, f, w, pins)) /\ Keeps
DropFrame(f) == Runs /\ mem.held[f] > 0 /\ Step([FreeRef(mem, f) EXCEPT !.held[f] = @ - 1]) /\ Keeps

\* borrow_frame_enforce_rw_allocated, and mremap with KEEP_OLD, which maps the frame.
BorrowFrame(x) ==
    LET direct == mem.pt[x] # None /\ mem.pt[x].w
        r == IF direct THEN [m |-> mem, f |-> mem.pt[x].f] ELSE Resolve(mem, x, TRUE)
    IN  /\ Granted(x) /\ mem.g[x].kind \in {"Allocated", "Contig"}
        /\ r.f # None
        /\ IF AddRefResult(r.m, r.f, "Shared") # "ok" THEN Step(Panic(r.m, "if it was CoW, it was read-only"))
           ELSE Step([AddRef(r.m, r.f, "Shared") EXCEPT !.held[r.f] = @ + 1])
        /\ Keeps
MapHeld(x, f, w) ==
    /\ Unused(x) /\ f \in Frames /\ mem.held[f] > 0 /\ mem.n[f] > mem.held[f]
    /\ Step([SetGrant(SetPte(mem, x, f, w), x, Grant("Allocated", w, None, 0)) EXCEPT !.held[f] = @ - 1])
    /\ Keeps

\* A page fault: the entry is absent or forbids the write.
Faults(x, write) == Granted(x) /\ (mem.pt[x] # None => write /\ ~mem.pt[x].w /\ mem.g[x].w)
FaultOwned(x, write) ==
    /\ Faults(x, write) /\ mem.g[x].kind \notin {"External", "Fmap"}
    /\ Step(Resolve(mem, x, write).m) /\ Keeps

\* On a borrowed page, while the lock is held.  A source that is not present is
\* resolved first, with no lock held in between.
Absent(x, y, w) == [kind |-> "borrow", x |-> x, y |-> y, w |-> w, f |-> None]
FaultBorrowed(x, write) ==
    LET y == mem.g[x].src
        w == mem.g[x].w
    IN  /\ Faults(x, write) /\ mem.g[x].kind = "External" /\ fault = None
        /\ IF y[1] = x[1] THEN Step(Panic(mem, "self borrow")) /\ Keeps
           ELSE IF mem.g[y] = None THEN Step(ZeroBoth(mem, x, y, w)) /\ Keeps
           ELSE IF mem.pt[y] # None THEN Step(ShareFrame(mem, x, y, mem.pt[y].f, w)) /\ Keeps
           ELSE Step(mem) /\ fault' = Absent(x, y, w)
ResolveSource ==
    LET r == Resolve(mem, fault.y, FALSE)
    IN  /\ Runs /\ fault # None /\ fault.kind = "borrow" /\ fault.f = None
        /\ Step(r.m)
        /\ fault' = IF r.f = None THEN None ELSE [fault EXCEPT !.f = r.f]
FinishBorrowed ==
    /\ Runs /\ fault # None /\ fault.kind = "borrow" /\ fault.f # None
    /\ Step(ShareFrame(mem, fault.x, fault.y, fault.f, fault.w))
    /\ fault' = None

\* On a file page: the scheme is asked, and maps one of its own pages y, which is
\* not counted again.
FaultFile(x) ==
    /\ Faults(x, TRUE) /\ mem.g[x].kind = "Fmap" /\ fault = None
    /\ Step(mem) /\ fault' = [kind |-> "file", x |-> x, y |-> x, w |-> mem.g[x].w, f |-> None]
ProvideMmap(y) ==
    /\ Runs /\ fault # None /\ fault.kind = "file" /\ fault.f = None
    /\ Live(y) /\ y[1] # fault.x[1] /\ mem.pt[y] # None
    /\ Step(mem) /\ fault' = [fault EXCEPT !.f = mem.pt[y].f]
FinishFile ==
    /\ Runs /\ fault # None /\ fault.kind = "file" /\ fault.f # None
    /\ Step(Short(SetPte(mem, fault.x, fault.f, fault.w), fault.f))
    /\ fault' = None

Next ==
    \/ \E x \in Places, w \in BOOLEAN :
        \/ \E kind \in {"Allocated", "Shared"}, eager \in BOOLEAN : MmapZeroed(x, w, kind, eager)
        \/ MmapContiguous(x, w)
        \/ MmapPhysical(x, w)
        \/ \E y \in Places : \/ \E pins \in {0, 1} : MmapBorrow(x, y, w, pins)
                             \/ \E private \in BOOLEAN : MmapFile(x, y, w, private)
                             \/ Mremap(x, y, w)
        \/ Mprotect(x, w)
        \/ \E f \in Frames : \/ \E pins \in {0, 1} : LendPage(x, f, w, pins)
                             \/ MapHeld(x, f, w)
        \/ FaultOwned(x, w)
        \/ FaultBorrowed(x, w)
    \/ \E x \in Places : \/ Munmap(x) \/ ReleaseCapture(x) \/ BorrowFrame(x)
                         \/ FaultFile(x) \/ ProvideMmap(x)
    \/ \E s, d \in Spaces : Fork(s, d)
    \/ \E s \in Spaces : Exit(s)
    \/ KernelFrame
    \/ \E f \in Frames : DropFrame(f)
    \/ ResolveSource \/ FinishBorrowed \/ FinishFile

Spec == Init /\ [][Next]_vars

-----------------------------------------------------------------------------
(* Properties.                                                             *)

References(f) == mem.held[f] + Cardinality({x \in Places : mem.pt[x] # None /\ mem.pt[x].f = f})

\* The count of a frame is the number of page-table entries and of kernel references
\* to it, after every fork, fault, copy, move, borrow and exit, but for what the code
\* itself gives up, to the reference.  Leaked: a mapping over an entry that is present,
\* a fork that runs out of memory, and the old frame of a copy-on-write page that
\* borrow_fmap moves.  Short, so that the frame may be freed while it is mapped: the
\* zero page of a source without a grant, a page that a scheme provides for a fault, and
\* a source that has changed when the fault on its borrower ends.
RefcountExact == \A f \in Counted : mem.n[f] = References(f) + mem.leaked[f] - mem.short[f]

\* PageInfo says that a copy-on-write page is mapped read-only: an entry that lets
\* such a frame be written is one that mprotect or mremap set to what was asked for
\* without a look at the frame, or the frame has fewer counted than mapped references.
CowIsReadOnly ==
    \A x \in Places : mem.pt[x] # None /\ mem.pt[x].w /\ IsCow(mem, mem.pt[x].f) =>
        x \in mem.forced \/ mem.short[mem.pt[x].f] > 0

=============================================================================
