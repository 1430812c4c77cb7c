------------------------------- MODULE Frames -------------------------------
(***************************************************************************)
(* The allocator of physical frames (memory/mod.rs): a buddy allocator     *)
(* whose free lists are threaded through the PageInfo of each frame, and   *)
(* the three ways in which the kernel takes frames from it: single frames  *)
(* (init_frame, RaiiFrame), blocks of 2^n frames that are returned as      *)
(* such (Kstack), and physically contiguous grants, which are taken as a   *)
(* block and returned frame by frame (Grant::zeroed_phys_contiguous and    *)
(* handle_free_action).  FREELIST is a mutex: an allocation or             *)
(* deallocation is one step.                                               *)
(***************************************************************************)
EXTENDS Integers, FiniteSets

CONSTANTS
    Base, Count,        \* the section: frames Base .. Base + Count - 1
    AbsOff,             \* frames below it were used by the bump allocator
    MaxOrder,           \* MAX_ORDER
    BlockOrders,        \* orders of the blocks that kernel stacks use
    ContigCounts,       \* page counts of contiguous grants
    None

Owned  == Base .. Base + Count - 1      \* the frames with a PageInfo
Orders == 0 .. MaxOrder

FramesAssumption ==
    /\ Base \in Nat \ {0} /\ Count \in Nat \ {0} /\ AbsOff \in Nat /\ MaxOrder \in Nat
    /\ BlockOrders \subseteq Orders
    /\ ContigCounts \subseteq 1 .. 2^MaxOrder
    /\ None \notin Nat

VARIABLES
    info,           \* PageInfo of each frame
    for_orders,     \* FreeList::for_orders: the first frame of each free list
    used_frames,    \* FreeList::used_frames
    given,          \* what has been allocated and not yet returned
    failed          \* whether an assertion of deallocate_p2frame has failed

vars == <<info, for_orders, used_frames, given, failed>>

-----------------------------------------------------------------------------
(* Initialisation: the section is cut into aligned blocks                   *)

Aligned(f, order) == f % 2^order = 0

\* The loop of init_sections before it looks at an order: the part of the section that
\* is left, and the blocks cut off so far.
Cut(order) ==
    LET cut[k \in 0 .. order] ==
        IF k = 0 THEN [base |-> Base, len |-> Count, blocks |-> {}]
        ELSE LET c == cut[k - 1]
                 n == 2^(k - 1)
                 first == c.len > 0 /\ ~Aligned(c.base, k)
                 b == IF first THEN c.base + n ELSE c.base
                 l == IF first THEN c.len - n ELSE c.len
                 final == l > 0 /\ ~Aligned(b + l, k)
             IN  [base |-> b,
                  len |-> IF final THEN l - n ELSE l,
                  blocks |-> c.blocks \cup (IF first THEN {[base |-> c.base, order |-> k - 1]} ELSE {})
                                      \cup (IF final THEN {[base |-> b + l - n, order |-> k - 1]} ELSE {})]
    IN  cut[order]

\* append_page leaves out the blocks that begin in the used part.
InitBlocks ==
    LET c == Cut(MaxOrder) IN
    {b \in c.blocks \cup {[base |-> c.base + i, order |-> MaxOrder] :
                            i \in {j \in 0 .. c.len - 1 : j % 2^MaxOrder = 0}} :
        b.base >= AbsOff}

\* The blocks of an order in the sequence in which append_page links them: by address.
After(b)  == {c \in InitBlocks : c.order = b.order /\ c.base > b.base}
Before(b) == {c \in InitBlocks : c.order = b.order /\ c.base < b.base}
Lowest(S)  == IF S = {} THEN None ELSE (CHOOSE b \in S : \A c \in S : b.base <= c.base).base
Highest(S) == IF S = {} THEN None ELSE (CHOOSE b \in S : \A c \in S : b.base >= c.base).base

\* A PageInfo: used frames have a reference count, free ones links and an order.
Used(n) == [used |-> TRUE, rc |-> n, prev |-> None, next |-> None, order |-> 0]
MadeFree(order) == [used |-> FALSE, rc |-> 0, prev |-> None, next |-> None, order |-> order]

Init ==
    /\ info = [f \in Owned |->
                IF f < AbsOff THEN Used(0)
                ELSE IF \E b \in InitBlocks : b.base = f
                THEN LET b == CHOOSE c \in InitBlocks : c.base = f IN
                     [MadeFree(b.order) EXCEPT !.prev = Highest(Before(b)), !.next = Lowest(After(b))]
                ELSE MadeFree(0)]
    /\ for_orders = [k \in Orders |-> Lowest({b \in InitBlocks : b.order = k})]
    /\ used_frames = 0
    /\ given = {}
    /\ failed = FALSE

-----------------------------------------------------------------------------
(* The allocator                                                            *)

\* The smallest order from min_order on whose list is not empty.
Available(min) == {k \in min .. MaxOrder : for_orders[k] # None}
FrameOrder(min) == CHOOSE k \in Available(min) : \A l \in Available(min) : k <= l

\* allocate_p2frame: unlink the first block, put its upper halves on the lists below,
\* which are empty.
Allocated(min) ==
    LET n == FrameOrder(min)
        frame == for_orders[n]
        next == info[frame].next
        halves == min .. n - 1
    IN  [frame |-> frame,
         info |-> [f \in Owned |->
                    IF f = frame THEN Used(0)
                    ELSE IF \E k \in halves : f = frame + 2^k
                    THEN MadeFree(CHOOSE k \in halves : f = frame + 2^k)
                    ELSE IF f = next THEN [info[f] EXCEPT !.prev = None]
                    ELSE info[f]],
         heads |-> [k \in Orders |->
                    IF k = n THEN next
                    ELSE IF k \in halves THEN frame + 2^k
                    ELSE for_orders[k]]]

\* One round of the loop of deallocate_p2frame on m = [info, heads, current, order, go, ok].
Sibling(f, order) == IF Aligned(f, order + 1) THEN f + 2^order ELSE f - 2^order

\* A sibling of the same order is left alone.
Mergeable_Strict(m) ==
    LET s == Sibling(m.current, m.order) IN
    m.go /\ s \in Owned /\ ~m.info[s].used /\ m.info[s].order > m.order

\* The sibling has a PageInfo, is free, and is a whole block of the same order.
Mergeable(m) ==
    LET s == Sibling(m.current, m.order) IN
    m.go /\ s \in Owned /\ ~m.info[s].used /\ m.info[s].order >= m.order

\* Take a block out of its doubly linked list.
Unlinked(i, s) ==
    [f \in Owned |->
        IF f = i[s].prev THEN [i[f] EXCEPT !.next = i[s].next, !.order = i[s].order]
        ELSE IF f = i[s].next THEN [i[f] EXCEPT !.prev = i[s].prev]
        ELSE i[f]]

Merge(m) ==
    LET s == Sibling(m.current, m.order)
        first == m.info[s].prev = None
    IN  IF ~Mergeable(m) THEN [m EXCEPT !.go = FALSE]
        ELSE [m EXCEPT !.info = Unlinked(@, s),
                       !.heads = IF first THEN [@ EXCEPT ![m.order] = m.info[s].next] ELSE @,
                       !.ok = @ /\ (first => m.heads[m.order] = s),
                       !.current = IF s < @ THEN s ELSE @,
                       !.order = @ + 1]

\* The block is not put in front of the list it goes to, but replaces it.
Pushed_Replaces(m) ==
    [m EXCEPT !.info = [@ EXCEPT ![m.current] = MadeFree(m.order)],
              !.heads = [@ EXCEPT ![m.order] = m.current]]

\* make_free, and the block becomes the head of its list.
Pushed(m) ==
    LET old == m.heads[m.order] IN
    [m EXCEPT !.info = [f \in Owned |->
                            IF f = m.current THEN [MadeFree(m.order) EXCEPT !.next = old]
                            ELSE IF f = old THEN [m.info[f] EXCEPT !.prev = m.current]
                            ELSE m.info[f]],
              !.heads = [@ EXCEPT ![m.order] = m.current]]

\* used_frames after a block was returned.
Returned(order) == used_frames - 2^order

\* deallocate_p2frame.  The first store makes the frame free without links.
Deallocate(frame, order) ==
    LET start == [info |-> [info EXCEPT ![frame] = [@ EXCEPT !.used = FALSE, !.rc = 0, !.prev = None]],
                  heads |-> for_orders, current |-> frame, order |-> order, go |-> TRUE, ok |-> TRUE]
        merge[k \in order .. MaxOrder] == IF k = order THEN start ELSE Merge(merge[k - 1])
        end == Pushed(merge[MaxOrder])
    IN  /\ info' = end.info
        /\ for_orders' = end.heads
        /\ used_frames' = Returned(order)
        /\ failed' = (failed \/ ~end.ok)

-----------------------------------------------------------------------------
(* The users of the allocator                                               *)

\* Something was allocated: what it is, the PageInfo of its frame, and how many frames
\* of a contiguous grant have been marked and given back.
Give(a, order, kind, count) ==
    /\ given' = given \cup {[base |-> a.frame, order |-> order, kind |-> kind, count |-> count,
                             marked |-> 0, freed |-> 0]}
    /\ for_orders' = a.heads
    /\ used_frames' = used_frames + 2^order

\* init_frame: allocate and store the count, one.  (The debug assertion that it is
\* one already is left out: mark_used leaves a count of zero.)
InitFrame ==
    /\ Available(0) # {}
    /\ LET a == Allocated(0) IN
       /\ Give(a, 0, "frame", 1)
       /\ info' = [a.info EXCEPT ![a.frame] = Used(1)]
    /\ UNCHANGED failed

\* Kstack::new.
NewBlock(order) ==
    /\ Available(order) # {}
    /\ LET a == Allocated(order) IN
       /\ Give(a, order, "block", 2^order)
       /\ info' = a.info
    /\ UNCHANGED failed

\* RaiiFrame::drop and Kstack::drop.
Drop(g) ==
    /\ g \in given /\ g.kind \in {"frame", "block"}
    /\ Deallocate(g.base, g.order)
    /\ given' = given \ {g}

\* zeroed_phys_contiguous: a block of the next power of two ...
OrderFor(n) == CHOOSE k \in Orders : 2^k >= n /\ \A l \in Orders : 2^l >= n => k <= l

NewContig(n) ==
    /\ Available(OrderFor(n)) # {}
    /\ LET a == Allocated(OrderFor(n)) IN
       /\ Give(a, OrderFor(n), "contig", n)
       /\ info' = a.info
    /\ UNCHANGED failed

Replace(g, h) == given' = (given \ {g}) \cup {h}

\* ... then, without the lock, one reference is stored for each page of the grant.
MarkContig(g) ==
    /\ g \in given /\ g.kind = "contig" /\ g.marked < g.count
    /\ info' = [info EXCEPT ![g.base + g.marked] = [@ EXCEPT !.used = TRUE, !.rc = 1, !.prev = None]]
    /\ Replace(g, [g EXCEPT !.marked = @ + 1])
    /\ UNCHANGED <<for_orders, used_frames, failed>>

\* handle_free_action: remove_ref and deallocate_frame, frame by frame.
FreeContig(g) ==
    /\ g \in given /\ g.kind = "contig" /\ g.marked = g.count
    /\ Deallocate(g.base + g.freed, 0)
    /\ IF g.freed + 1 = g.count THEN given' = given \ {g}
       ELSE Replace(g, [g EXCEPT !.freed = @ + 1])

-----------------------------------------------------------------------------

Next ==
    \/ InitFrame
    \/ \E order \in BlockOrders : NewBlock(order)
    \/ \E n \in ContigCounts : NewContig(n)
    \/ \E g \in given : Drop(g) \/ MarkContig(g) \/ FreeContig(g)

Spec == Init /\ [][Next]_vars

-----------------------------------------------------------------------------
(* Properties                                                               *)

\* The frames of the free list of an order, following next.
FreeList(order) ==
    LET walk[n \in 0 .. Count] ==
            IF n = 0 THEN for_orders[order]
            ELSE LET f == walk[n - 1] IN IF f = None THEN None ELSE info[f].next
    IN  {walk[n] : n \in 0 .. Count} \ {None}

Span(f, n) == f .. f + n - 1
FreeBlocks == UNION {FreeList(k) \X {k} : k \in Orders}
FreeFrames == UNION {Span(b[1], 2^b[2]) : b \in FreeBlocks}
Held(g) == Span(g.base + g.freed, 2^g.order - g.freed)
GivenFrames == UNION {Held(g) : g \in given}
Managed == UNION {Span(b.base, 2^b.order) : b \in InitBlocks}

\* The allocator neither loses a frame nor gives it out twice: every frame it manages is
\* either in exactly one block of the free lists, or belongs to exactly one allocation;
\* used_frames, from which free_frames() is computed, counts the latter.
EveryFrameOnce ==
    /\ FreeFrames \cup GivenFrames = Managed
    /\ FreeFrames \cap GivenFrames = {}
    /\ \A b, c \in FreeBlocks : b # c => Span(b[1], 2^b[2]) \cap Span(c[1], 2^c[2]) = {}
    /\ \A g, h \in given : g # h => Held(g) \cap Held(h) = {}
    /\ used_frames = Cardinality(GivenFrames)

\* Merging is complete: the two halves of a larger block are never both free blocks.
BuddiesAreMerged ==
    LET free == FreeBlocks IN
    \A b \in free : b[2] < MaxOrder => <<Sibling(b[1], b[2]), b[2]>> \notin free

\* The debug assertions of deallocate_p2frame about the sibling's list hold.
DeallocateAssertionsHold == ~failed
=============================================================================
