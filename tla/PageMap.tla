------------------------------- MODULE PageMap -------------------------------
(***************************************************************************)
(* What the calls on an address space promise, page by page and without    *)
(* grants.  A page is None or has a source (the kind of memory, the file   *)
(* or address space, the place there), the accesses it permits, and        *)
(* whether it is pinned.  A call acts on the pages of its span from below  *)
(* and stops only at a page that forbids it.                               *)
(***************************************************************************)
EXTENDS Integers

CONSTANTS
    NPages,             \* the pages of the address space
    LowestPage,         \* pages below are mapped only on explicit request
    None                \* no source, and no file

PageSet == 0 .. NPages - 1
NoPages == [p \in PageSet |-> None]

Pinned(page, p) == page[p] # None /\ page[p].pinned
Refuses(page, p, flags) ==
    /\ page[p] # None
    /\ page[p].pinned \/ (page[p].kind # "Allocated" /\ ~(flags \subseteq page[p].flags))

IsFree(page, from, to) == \A p \in from .. to - 1 : page[p] = None
HasPinned(page, from, to) == \E p \in from .. to - 1 : Pinned(page, p)

\* The pages are freed up to the first that is pinned.
Unmapped(page, from, to) ==
    [p \in PageSet |-> IF p \in from .. to - 1 /\ ~HasPinned(page, from, p + 1) THEN None ELSE page[p]]

\* The pages are freed, pinned or not.
Released(page, from, to) == [p \in PageSet |-> IF p \in from .. to - 1 THEN None ELSE page[p]]

\* The pages get the flags up to the first that refuses them.
Protected(page, from, to, flags) ==
    [p \in PageSet |->
        IF /\ p \in from .. to - 1 /\ page[p] # None
           /\ \A q \in from .. p : ~Refuses(page, q, flags)
        THEN [page[p] EXCEPT !.flags = flags] ELSE page[p]]

\* Where a mapping goes, as a set: to the lowest free run that is long enough, or to the
\* pages it names, if they are free or can be freed.
Chosen(page, mode, base, count) ==
    CASE mode = "anywhere" ->
            {b \in LowestPage .. NPages - count :
                /\ IsFree(page, b, b + count)
                /\ \A q \in LowestPage .. b - 1 : ~IsFree(page, q, q + count)}
      [] mode = "noreplace" -> {b \in {base} : IsFree(page, b, b + count)}
      [] mode = "fixed"     -> {b \in {base} : ~HasPinned(page, b, b + count)}

\* A fixed mapping has freed pages also when it fails.
Cleared(page, mode, base, count) == IF mode = "fixed" THEN Unmapped(page, base, base + count) ELSE page

Mapped(page, mode, base, count, source(_)) ==
    LET at  == Chosen(page, mode, base, count)
        dst == CHOOSE b \in at : TRUE
        now == Cleared(page, mode, base, count)
    IN  IF at = {} THEN now
        ELSE [p \in PageSet |-> IF p \in dst .. dst + count - 1 THEN source(p - dst) ELSE now[p]]

\* The pages of a span move together, the rest of the destination is zeroed memory, and
\* the rest of the source is freed; or nothing moves.
Moved(page, from, count, mode, base, new, flags) ==
    LET room == IF mode = "anywhere" /\ count > new THEN count ELSE new
        at   == Chosen(page, mode, base, room)
        dst  == CHOOSE b \in at : TRUE
        now  == Cleared(page, mode, base, room)
        zeroed == [kind |-> "Allocated", ref |-> None, place |-> 0, flags |-> flags, pinned |-> FALSE]
        source == from .. from + count - 1
    IN  IF \/ at = {}
           \/ \E p \in source : Refuses(now, p, flags) \/ p \in dst .. dst + new - 1
        THEN now
        ELSE [p \in PageSet |->
                IF p \in dst .. dst + new - 1
                THEN IF p - dst < count /\ now[from + (p - dst)] # None
                     THEN now[from + (p - dst)] ELSE zeroed
                ELSE IF p \in source THEN None ELSE now[p]]
=============================================================================
