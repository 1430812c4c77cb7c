------------------------------ MODULE GrantMap ------------------------------
(***************************************************************************)
(* The grants of one address space under the calls that change them: mmap, *)
(* munmap, mprotect, mremap and the captures of user schemes (pinned       *)
(* borrows from another address space, which their release unmaps).  The   *)
(* lock of the address space is held through every call, so a call is a    *)
(* step.                                                                   *)
(***************************************************************************)
EXTENDS UserGrants

CONSTANTS
    Sources,            \* what can be mapped: flags and a provider
    MaxGrants,          \* bound on the number of grants a mapping may add to
    MaxKinds,           \* bound on the kinds of borrowed memory mapped at a time
    MaxMove             \* bound on the pages that mremap moves

VARIABLES
    grants,             \* the grants, with their holes
    panicked,           \* the place of the code that panicked
    page                \* what every page must be, kept by the calls of PageMap

vars == <<grants, panicked, page>>

P == INSTANCE PageMap WITH NPages <- UserEnd, LowestPage <- mmap_min, None <- NoRef

Flags == SUBSET {"w"}
Spans == {s \in [base : 0 .. UserEnd - 1, count : 1 .. UserEnd] : End(s) <= UserEnd}

Init == grants = NewGrants /\ panicked = "none" /\ page = P!NoPages

Became(u, pages) == panicked = "none" /\ grants' = u /\ page' = pages /\ UNCHANGED panicked

\* The page at an offset of a mapping.  Places matter where the provider has them.
PageAt(info, offset) ==
    LET prov   == info.prov
        placed == prov.kind \in {"Phys", "External"} \/ FileRef(info) # NoRef
    IN  [kind |-> prov.kind, ref |-> prov.ref, flags |-> info.flags, pinned |-> IsPinned(info),
         place |-> IF placed THEN prov.off + offset ELSE 0]

\* The kinds of memory mapped that is not the address space's own.
Kinds == {page[p].kind : p \in {q \in P!PageSet : page[q] # NoRef}} \ {"Allocated"}

\* A mapping, the first page of which is asked for or found.
DoMmap(mode, span, source) ==
    LET info == Info(span.count, source.flags, source.prov) IN
    /\ Cardinality(DOMAIN grants.inner) < MaxGrants
    /\ source.prov.kind \in {"Allocated"} \cup Kinds \/ Cardinality(Kinds) < MaxKinds
    /\ mode = "anywhere" => span.base = 0
    /\ source.prov.pins > 0 => mode = "anywhere"
    /\ Became(Mmap(grants, mode, span.base, info).grants,
              P!Mapped(page, mode, span.base, span.count, LAMBDA i : PageAt(info, i)))

DoMunmap(span) ==
    Became(MunmapInner(grants, span, FALSE).grants, P!Unmapped(page, span.base, End(span)))

\* release of a capture: its span holds what was pinned for it, and is unmapped.
Release(b) ==
    LET span == GrantSpan(grants, b) IN
    /\ grants.inner[b].prov.kind \in {"External", "Shared"} /\ IsPinned(grants.inner[b])
    /\ Became(MunmapInner(grants, span, TRUE).grants, P!Released(page, b, End(span)))

DoMprotect(span, flags) ==
    LET r == Mprotect(grants, span, flags)
    IN  IF r.err = "panic" THEN /\ panicked = "none" /\ panicked' = "mprotect"
                                /\ UNCHANGED <<grants, page>>
        ELSE Became(r.grants, P!Protected(page, span.base, End(span), flags))

\* mremap; here it changes the size by at most a page and asks for read-only pages (mprotect
\* gives them back their flag).
DoMove(src, mode, base, new, flags) ==
    /\ mode = "anywhere" => base = 0
    /\ base + new <= UserEnd /\ new - src.count \in -1 .. 1 /\ src.count <= MaxMove
    /\ Became(Move([u \in {1} |-> grants], 1, 1, src, mode, base, new, flags).us[1],
              P!Moved(page, src.base, src.count, mode, base, new, flags))

Next ==
    \/ \E span \in Spans :
        \/ \E mode \in {"fixed", "noreplace", "anywhere"}, source \in Sources :
                DoMmap(mode, span, source)
        \/ DoMunmap(span)
        \/ \E flags \in Flags : DoMprotect(span, flags)
        \/ \E mode \in {"fixed", "anywhere"}, base \in 0 .. UserEnd - 1, new \in 1 .. UserEnd :
                DoMove(span, mode, base, new, {})
    \/ \E b \in DOMAIN grants.inner : Release(b)

Spec == Init /\ [][Next]_vars

-----------------------------------------------------------------------------
(* Properties.                                                             *)

\* The holes are exactly the longest runs of free pages between the grants, in every
\* state: reserve and unreserve keep the second map in step with the first through
\* every split and merge, so find_free never overlooks or offers a page wrongly.
HolesExact ==
    LET used == UNION {Pages(GrantSpan(grants, b)) : b \in DOMAIN grants.inner}
        free == 0 .. UserEnd - 1 \ used
        starts == {p \in free : p - 1 \notin free}
    IN  /\ DOMAIN grants.holes = starts
        /\ \A h \in starts : /\ Pages(Span(h, grants.holes[h])) \subseteq free
                             /\ h + grants.holes[h] \notin free

\* No assertion of insert, extract, before, after, transfer or unmap fails whatever the
\* order of the calls.  One panic is left: the expect of mprotect ("grant cannot
\* magically disappear") fails when a grant it has listed was merged with the one before.
NoOtherPanic == grants.ok /\ panicked \in {"none", "mprotect"}

\* Split and merged, moved and partly unmapped, the grants say of every page what the
\* calls promised: a call changes exactly the pages it names up to the first that
\* forbids it, a mapping without an address takes the lowest free run, and every page
\* keeps its place in its file or physical range.  A page borrowed from another address
\* space does not, when pages below it were split off its grant: extract leaves
\* src_base as it is, and the grant names a page that lies as many pages too low.
PagesAgree ==
    \A p \in P!PageSet :
        page[p] = IF Holding(grants, p) = {} THEN NoRef
                  ELSE LET b == Max(Holding(grants, p))
                           info == grants.inner[b]
                       IN  [PageAt(info, p - b) EXCEPT !.place = @ + info.prov.behind]
=============================================================================
