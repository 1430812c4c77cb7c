-------------------------------- MODULE Boot --------------------------------
(***************************************************************************)
(* How the kernel finds its memory at boot (startup/memory.rs and          *)
(* init_sections of memory/mod.rs): the regions that the bootloader and    *)
(* the kernel arguments name are rounded to pages and listed; the free     *)
(* ones are cut around the reserved ones and joined into AREAS; a bump     *)
(* allocator takes from them the page tables of the kernel, the array of   *)
(* sections and the PageInfo arrays; and what it has not used becomes the  *)
(* blocks of the first free lists.                                         *)
(*                                                                         *)
(* Addresses are counted in units of which a page has PAGE_SIZE, frames    *)
(* from 0.  BumpAllocator and PageMapper belong to the rmm library.        *)
(***************************************************************************)
EXTENDS Integers, Sequences, FiniteSets, SequencesExt

CONSTANTS
    PAGE_SIZE,
    Regions,            \* what the bootloader may describe: [base, size, kind]
    MaxRegions,         \* bound: regions in one memory map
    MaxEntries,         \* the length of MemoryMap::entries
    LowLimit, HighLimit,
    MaxTables,          \* bound: page table frames that map_memory needs
    SectionsPerPage,    \* PAGE_SIZE / size_of::<Section>()
    InfosPerPage,       \* PAGE_SIZE / size_of::<PageInfo>()
    MAX_SECTION_PAGE_COUNT,
    MAX_ORDER

VARIABLES
    phase,      \* "register", "areas", "map", "sections", "done" or "panic"
    given,      \* the regions described so far
    entries,    \* MEMORY_MAP: [start, end, kind], in the order of registration
    i,          \* the entry that init looks at next
    areas,      \* AREAS: [start, end]
    bump,       \* the bump allocator: the areas from the current one on, and the offset in it
    table,      \* the linear mapping: the kind of mapping of each frame
    sections,   \* Section: [base, count]
    free        \* the blocks linked by append_page: [base, order]

vars == <<phase, given, entries, i, areas, bump, table, sections, free>>

-----------------------------------------------------------------------------
(* The memory map                                                           *)

DivCeil(a, b) == (a + b - 1) \div b
align_up(x) == DivCeil(x, PAGE_SIZE) * PAGE_SIZE
align_down(x) == (x \div PAGE_SIZE) * PAGE_SIZE

Smaller(a, b) == IF a < b THEN a ELSE b
Larger(a, b) == IF a > b THEN a ELSE b

\* Mutant of Rounded: reserved ranges are rounded to the pages they fill.
Rounded_Inwards(r) == [start |-> align_up(r.base), end |-> align_down(r.base + r.size), kind |-> r.kind]

(* Free memory is rounded inwards, everything else outwards. *)
Rounded(r) ==
    IF r.kind = "Free"
    THEN [start |-> align_up(r.base), end |-> align_down(r.base + r.size), kind |-> r.kind]
    ELSE [start |-> align_down(r.base), end |-> align_up(r.base + r.size), kind |-> r.kind]

(* register_memory_region and MemoryMap::register, for one more region. *)
Register(r) ==
    /\ phase = "register" /\ Len(given) < MaxRegions
    /\ given' = Append(given, r)
    /\ LET used == r.kind # "Null" /\ r.size # 0
           e == Rounded(r)
       IN  /\ phase' = IF used /\ Len(entries) >= MaxEntries THEN "panic" ELSE phase
           /\ entries' = IF used /\ Len(entries) < MaxEntries /\ e.start < e.end
                         THEN Append(entries, e) ELSE entries
    /\ UNCHANGED <<i, areas, bump, table, sections, free>>

EndOfMap ==
    /\ phase = "register"
    /\ phase' = "areas"
    /\ UNCHANGED <<given, entries, i, areas, bump, table, sections, free>>

-----------------------------------------------------------------------------
(* AREAS                                                                    *)

Intersect(a, b) == [a EXCEPT !.start = Larger(a.start, b.start), !.end = Smaller(a.end, b.end)]

Touch(a, b) == a.start <= b.end /\ a.end >= b.start
Combine(a, b) == [start |-> Smaller(a.start, b.start), end |-> Larger(a.end, b.end)]

(* The second half of add_memory: the new area absorbs the areas that it overlaps or *)
(* touches, whose places go to the last one, and is put at the end.                  *)
RECURSIVE Joined(_, _, _)
Joined(as, area, k) ==
    IF k > Len(as) THEN Append(as, area)
    ELSE IF Touch(area, as[k])
    THEN Joined(Front([as EXCEPT ![k] = as[Len(as)]]), Combine(area, as[k]), k)
    ELSE Joined(as, area, k + 1)

Reservations == SelectSeq(entries, LAMBDA e : e.kind # "Free")

(* The first half: what a reservation takes from the end or from the start of the   *)
(* area is cut off; one inside it splits the area, whose first part is added by a   *)
(* recursive call.                                                                  *)
CutEnd(a, r) == IF a.end > r.start /\ a.end <= r.end THEN [a EXCEPT !.end = r.start] ELSE a
CutStart(a, r) == IF a.start >= r.start /\ a.start < r.end THEN [a EXCEPT !.start = r.end] ELSE a
Holds(a, r) == a.start <= r.start /\ a.end > r.start

RECURSIVE add_memory(_, _, _)
add_memory(as, area, k) ==
    IF k > Len(Reservations) THEN Joined(as, area, 1)
    ELSE LET r == Reservations[k]
             a == CutEnd(area, r)
             b == CutStart(a, r)
         IN  IF a.start >= a.end \/ b.start >= b.end THEN as
             ELSE IF Holds(b, r)
             THEN add_memory(add_memory(as, [b EXCEPT !.end = r.start], 1),
                             [b EXCEPT !.start = r.end], k + 1)
             ELSE add_memory(as, b, k + 1)

Limit == [start |-> align_up(LowLimit), end |-> align_down(HighLimit)]

(* One round of the loop of init. *)
AddArea ==
    /\ phase = "areas" /\ i <= Len(entries)
    /\ i' = i + 1
    /\ LET a == Intersect([start |-> entries[i].start, end |-> entries[i].end], Limit)
       IN  areas' = IF entries[i].kind = "Free" /\ a.start < a.end THEN add_memory(areas, a, 1) ELSE areas
    /\ UNCHANGED <<phase, given, entries, bump, table, sections, free>>

BumpAllocator(as) == [rest |-> as, off |-> 0]

SortAreas ==
    /\ phase = "areas" /\ i > Len(entries)
    /\ areas' = SortSeq(areas, LAMBDA a, b : a.start < b.start)
    /\ bump' = BumpAllocator(areas')
    /\ phase' = "map"
    /\ UNCHANGED <<given, entries, i, table, sections, free>>

-----------------------------------------------------------------------------
(* The kernel's page tables                                                 *)

Frame(x) == x \div PAGE_SIZE
FramesOf(a) == Frame(a.start) .. Frame(a.end) - 1

(* BumpAllocator::allocate: n frames in a row, leaving an area that has not as many. *)
RECURSIVE Taken(_, _)
Taken(b, n) ==
    IF b.rest = <<>> THEN [ok |-> FALSE, bump |-> b]
    ELSE IF Head(b.rest).end - Head(b.rest).start - b.off < n * PAGE_SIZE
    THEN Taken([rest |-> Tail(b.rest), off |-> 0], n)
    ELSE [ok |-> TRUE, bump |-> [b EXCEPT !.off = @ + n * PAGE_SIZE]]

AbsOffset(b) == IF b.rest = <<>> THEN 0 ELSE Frame(Head(b.rest).start + b.off)

OfKind(kind) == UNION {FramesOf(entries[k]) : k \in {j \in DOMAIN entries : entries[j].kind = kind}}
InAreas == UNION {FramesOf(areas[k]) : k \in DOMAIN areas}

(* The first entry of kind Kernel. *)
KernelFrames ==
    LET ks == {k \in DOMAIN entries : entries[k].kind = "Kernel"}
    IN  FramesOf(entries[CHOOSE k \in ks : \A j \in ks : k <= j])

(* map_memory: areas, kernel and identity mapped regions as memory, then the devices, *)
(* of which a later mapping of a frame replaces an earlier one.                       *)
map_memory ==
    /\ phase = "map"
    /\ \E n \in 0 .. MaxTables :
         LET t == Taken(bump, n)
             kernel == OfKind("Kernel") # {}
         IN  /\ bump' = t.bump
             /\ phase' = IF t.ok /\ kernel THEN "sections" ELSE "panic"
             /\ table' = IF ~(t.ok /\ kernel) THEN table
                         ELSE LET normal == InAreas \cup KernelFrames \cup OfKind("IdentityMap")
                                  dev == OfKind("Device")
                              IN  [f \in normal \cup dev |-> IF f \in dev THEN "device" ELSE "memory"]
    /\ UNCHANGED <<given, entries, i, areas, sections, free>>

-----------------------------------------------------------------------------
(* init_sections                                                            *)

(* The areas that are left, the first without what is used of it. *)
FreeAreas(b) ==
    [k \in DOMAIN b.rest |->
        IF k = 1 THEN [b.rest[1] EXCEPT !.start = @ + b.off] ELSE b.rest[k]]

SectionSize == MAX_SECTION_PAGE_COUNT * PAGE_SIZE
MaxSections(a) == DivCeil(a.end, SectionSize) - a.start \div SectionSize
max_section_count(b) == FoldLeft(LAMBDA n, a : n + MaxSections(a), 0, FreeAreas(b))

(* The frames of an area cut at the boundaries of sections, with the PageInfo array  *)
(* of each piece taken from the bump allocator.                                      *)
RECURSIVE Sectioned(_, _, _)
Sectioned(s, base, left) ==
    IF left <= 0 \/ ~s.ok THEN s
    ELSE LET n == Smaller(Smaller(left, MAX_SECTION_PAGE_COUNT),
                          MAX_SECTION_PAGE_COUNT - (base % MAX_SECTION_PAGE_COUNT))
             t == Taken(s.bump, DivCeil(n, InfosPerPage))
         IN  Sectioned([ok |-> t.ok, bump |-> t.bump,
                        sections |-> Append(s.sections, [base |-> base, count |-> n])],
                       base + n, left - n)

AllSections(b, as) ==
    FoldLeft(LAMBDA s, a : Sectioned(s, Frame(a.start), Frame(a.end) - Frame(a.start)),
             [ok |-> TRUE, bump |-> b, sections |-> <<>>], as)

Aligned(f, order) == f % 2^order = 0

(* The blocks of a section: unaligned ones are cut off at both ends, order by order, *)
(* and the rest is made of blocks of the largest order.                              *)
RECURSIVE Blocks(_, _, _)
Blocks(base, len, order) ==
    IF len = 0 THEN {}
    ELSE IF order = MAX_ORDER
    THEN {[base |-> base + 2^order * k, order |-> order] : k \in 0 .. (len - 1) \div 2^order}
    ELSE LET n == 2^order
             first == ~Aligned(base, order + 1)
             b == IF first THEN base + n ELSE base
             l == IF first THEN len - n ELSE len
             final == l > 0 /\ ~Aligned(b + l, order + 1)
         IN  Blocks(b, IF final THEN l - n ELSE l, order + 1)
               \cup (IF first THEN {[base |-> base, order |-> order]} ELSE {})
               \cup (IF final THEN {[base |-> b + l - n, order |-> order]} ELSE {})

\* Mutant of append_page: the frames the boot allocator gave away count as free.
append_page_All(blocks, abs_offset) == blocks

(* append_page leaves out the blocks that begin below what the bump allocator used. *)
append_page(blocks, abs_offset) == {b \in blocks : b.base >= abs_offset}

init_sections ==
    /\ phase = "sections"
    /\ LET array == Taken(bump, DivCeil(max_section_count(bump), SectionsPerPage))
           s == AllSections(array.bump, FreeAreas(bump))
           all == UNION {Blocks(s.sections[k].base, s.sections[k].count, 0) : k \in DOMAIN s.sections}
       IN  IF array.ok /\ s.ok
           THEN /\ bump' = s.bump
                /\ sections' = SortSeq(s.sections, LAMBDA x, y : x.base < y.base)
                /\ free' = append_page(all, AbsOffset(s.bump))
                /\ phase' = IF free' = {} THEN "panic" ELSE "done"   \* the zeroed frame of init_mm
           ELSE phase' = "panic" /\ UNCHANGED <<bump, sections, free>>
    /\ UNCHANGED <<given, entries, i, areas, table>>

(* get_page_info: binary search for the last section that starts at or below a frame. *)
get_page_info(f) ==
    LET below == {k \in DOMAIN sections : sections[k].base <= f}
    IN  IF below = {} THEN FALSE
        ELSE LET k == CHOOSE x \in below : \A y \in below : y <= x
             IN  f - sections[k].base < sections[k].count

Init ==
    /\ phase = "register" /\ given = <<>> /\ entries = <<>> /\ i = 1 /\ areas = <<>>
    /\ bump = [rest |-> <<>>, off |-> 0] /\ table = <<>> /\ sections = <<>> /\ free = {}

Next ==
    \/ \E r \in Regions : Register(r)
    \/ EndOfMap
    \/ AddArea
    \/ SortAreas
    \/ map_memory
    \/ init_sections

Spec == Init /\ [][Next]_vars

-----------------------------------------------------------------------------

(* The bytes of the described regions of some kinds. *)
Bytes(kinds) == UNION {given[k].base .. given[k].base + given[k].size - 1 :
                         k \in {j \in DOMAIN given : given[j].kind \in kinds}}
PageBytes(f) == f * PAGE_SIZE .. (f + 1) * PAGE_SIZE - 1

Kinds == {"Free", "Reclaim", "Reserved", "Kernel", "Device", "IdentityMap"}

(* Whatever regions are described, in whatever order and however they overlap,     *)
(* AREAS are exactly the frames inside the limits that lie within one free region  *)
(* and hold no byte of any other region; the areas are in order and do not touch   *)
(* (add_memory).  Free regions that meet inside a page do not make it usable.      *)
AreasAreTheUsableFrames ==
    phase \in {"map", "sections", "done"} =>
        /\ InAreas = {f \in Frame(align_up(LowLimit)) .. Frame(align_down(HighLimit)) - 1 :
                        /\ PageBytes(f) \cap Bytes(Kinds \ {"Free"}) = {}
                        /\ \E k \in DOMAIN given :
                             /\ given[k].kind = "Free"
                             /\ PageBytes(f) \subseteq given[k].base .. given[k].base + given[k].size - 1}
        /\ \A k \in 1 .. Len(areas) - 1 : areas[k].end < areas[k + 1].start

BlockFrames(b) == b.base .. b.base + 2^b.order - 1
FreeFrames == UNION {BlockFrames(b) : b \in free}

(* The free lists start with aligned blocks that share no frame, each in one       *)
(* section, of usable memory the bump allocator has not handed out, whose frames   *)
(* have a PageInfo; the only usable frames missing are those the bump allocator    *)
(* has passed and those of the block it has begun; and the array of sections is    *)
(* long enough (init_sections, get_page_info).                                     *)
FirstFreeListsExact ==
    phase = "done" =>
        /\ \A b, c \in free : b # c => BlockFrames(b) \cap BlockFrames(c) = {}
        /\ \A b \in free : Aligned(b.base, b.order)
        /\ \A f \in FreeFrames : f \in InAreas /\ f >= AbsOffset(bump) /\ get_page_info(f)
        /\ \A f \in InAreas \ FreeFrames :
             \/ f < AbsOffset(bump)
             \/ \E k \in DOMAIN sections : \E b \in Blocks(sections[k].base, sections[k].count, 0) :
                  f \in BlockFrames(b) /\ b.base < AbsOffset(bump)
        /\ Len(sections) <= max_section_count(BumpAllocator(areas))

=============================================================================
