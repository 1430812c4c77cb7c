----------------------------- MODULE UserGrants -----------------------------
(***************************************************************************)
(* The grants of an address space, struct UserGrants in context/memory.rs, *)
(* as values: a map from first pages to grants, a map from first pages to  *)
(* the sizes of the holes between them, and ok, which becomes FALSE when   *)
(* an assertion of the code would have failed.  Pages are numbered from 0, *)
(* and a page of address space is a unit of size.                          *)
(***************************************************************************)
EXTENDS Integers, FiniteSets, SequencesExt, FiniteSetsExt

CONSTANTS
    UserEnd,            \* USER_END_OFFSET in pages
    NoRef               \* no file, and no other address space

mmap_min == 1           \* MMAP_MIN_DEFAULT

-----------------------------------------------------------------------------
(* PageSpan.                                                               *)

Span(base, count) == [base |-> base, count |-> count]
End(s) == s.base + s.count
Between(start, end) == Span(start, IF end < start THEN 0 ELSE end - start)
Intersection(s, t) == Between(IF s.base > t.base THEN s.base ELSE t.base,
                              IF End(s) < End(t) THEN End(s) ELSE End(t))
Intersects(s, t) == Intersection(s, t).count # 0
Pages(s) == s.base .. End(s) - 1

-----------------------------------------------------------------------------
(* GrantInfo.  A provider has a kind; the file or the address space behind  *)
(* it; the page there, or the frame, that its first page corresponds to; a  *)
(* number of pins (a flag, except for Fmap); and phys_contiguous.  behind   *)
(* is a history: by how many pages the place of a borrow lags, see Extract. *)

Provider(kind, ref, off, pins, contig) ==
    [kind |-> kind, ref |-> ref, off |-> off, pins |-> pins, contig |-> contig, behind |-> 0]
Allocated(file, off)       == Provider("Allocated", file, off, 0, FALSE)
Contiguous                 == Provider("Allocated", NoRef, 0, 0, TRUE)
AllocatedShared(pins)      == Provider("Shared", NoRef, 0, pins, FALSE)
PhysBorrowed(frame)        == Provider("Phys", NoRef, frame, 0, FALSE)
External(space, src, pins) == Provider("External", space, src, pins, FALSE)
FmapBorrowed(file, off)    == Provider("Fmap", file, off, 0, FALSE)

Info(count, flags, prov) == [count |-> count, flags |-> flags, prov |-> prov]

IsPinned(info) == info.prov.pins > 0
CanExtract(info, unpin) == ~IsPinned(info) \/ unpin \/ info.prov.contig
Unpin(info) == IF info.prov.kind = "Fmap" THEN info ELSE [info EXCEPT !.prov.pins = 0]

\* Owned memory can have any flags, borrowed memory only a part of those it has.
CanHaveFlags(info, flags) == info.prov.kind = "Allocated" \/ flags \subseteq info.flags

Plain(info) == info.prov.kind = "Allocated" /\ info.prov.ref = NoRef /\ ~info.prov.contig
CanBeMerged(i, j) == i.flags = j.flags /\ Plain(i) /\ Plain(j)

\* The file that is told of an unmapping.
FileRef(info) == IF info.prov.kind \in {"Allocated", "Fmap"} THEN info.prov.ref ELSE NoRef

-----------------------------------------------------------------------------
(* The map of grants and the map of holes.                                 *)

NewGrants == [inner |-> <<>>, holes |-> (0 :> UserEnd), ok |-> TRUE]

Without(f, x) == [y \in DOMAIN f \ {x} |-> f[y]]
With(f, x, v) == (x :> v) @@ f
GrantSpan(u, b) == Span(b, u.inner[b].count)

\* The first page of the grant that occupies page p, as a set.
Holding(u, p) ==
    LET below == {b \in DOMAIN u.inner : b <= p}
        last  == Max(below)
    IN  IF below # {} /\ p < End(GrantSpan(u, last)) THEN {last} ELSE {}

\* conflicts: from the grant that contains the first page of the span, or from
\* that page on, as long as the grants intersect the span.
Conflicts(u, span) ==
    LET first == Min(Holding(u, span.base) \cup {span.base})
        from  == {b \in DOMAIN u.inner : b >= first}
    IN  {b \in from : \A c \in from : c <= b => Intersects(GrantSpan(u, c), span)}

Ascending(S) == [i \in 1 .. Cardinality(S) |-> CHOOSE x \in S : Cardinality({y \in S : y < x}) = i - 1]

\* Mutant of FindFree: the part of a hole below mmap_min counts as available.
FindFree_FromHole(u, count) ==
    LET large == {h \in DOMAIN u.holes : h + u.holes[h] > mmap_min /\ count <= u.holes[h]}
    IN  IF large = {} THEN {} ELSE {Max({Min(large), mmap_min})}

\* find_free_near: the first hole that is large enough above mmap_min.
FindFree(u, count) ==
    LET skipped(h) == h + u.holes[h] <= mmap_min
        seen  == {h \in DOMAIN u.holes : \E g \in DOMAIN u.holes : g <= h /\ ~skipped(g)}
        avail(h) == IF h <= mmap_min /\ mmap_min <= h + u.holes[h]
                    THEN u.holes[h] - (mmap_min - h) ELSE u.holes[h]
        large == {h \in seen : count <= avail(h)}
    IN  IF large = {} THEN {} ELSE {Max({Min(large), mmap_min})}

\* reserve: the hole that begins before the grant is cut, then the one at its base.
CutFrom(holes, p, pend, base, end) ==
    LET cut == IF pend > base THEN [holes EXCEPT ![p] = base - p] ELSE holes
    IN  IF pend > end THEN With(cut, end, pend - end) ELSE cut
\* Mutant of CutAt: the rest of a hole whose start is taken is forgotten.
CutAt_Whole(holes, base, count) == IF base \in DOMAIN holes THEN Without(holes, base) ELSE holes

CutAt(holes, base, count) ==
    IF base \notin DOMAIN holes THEN holes
    ELSE LET rest == Without(holes, base)
         IN  IF holes[base] > count THEN With(rest, base + count, holes[base] - count) ELSE rest
CutBefore(holes, prev, base, count) ==
    IF prev = {} THEN holes
    ELSE CutFrom(holes, Max(prev), Max(prev) + holes[Max(prev)], base, base + count)
Reserve(holes, base, count) ==
    CutAt(CutBefore(holes, {h \in DOMAIN holes : h < base}, base, count), base, count)

\* unreserve: join the freed range with the holes on both sides.
Unreserve(holes, base, count) ==
    LET end   == base + count
        after == IF end \in DOMAIN holes THEN holes[end] ELSE 0
        rest  == Without(holes, end)
        prev  == {h \in DOMAIN rest : h < base}
        p     == Max(prev)
    IN  IF prev # {} /\ p + rest[p] = base THEN [rest EXCEPT ![p] = end - p + after]
        ELSE With(rest, base, count + after)

\* insert: merged with the neighbours where they are plain memory with equal flags.
Insert(u, grant) ==
    LET base   == grant.base
        count  == grant.info.count
        before == {b \in DOMAIN u.inner : b < base}
        after  == {b \in DOMAIN u.inner : b >= base + count}
        low    == {b \in before : /\ b = Max(before) /\ End(GrantSpan(u, b)) = base
                                  /\ CanBeMerged(u.inner[b], grant.info)}
        high   == {b \in after : b = base + count /\ CanBeMerged(u.inner[b], grant.info)}
        pages  == count + SumSet({u.inner[b].count : b \in low}) + SumSet({u.inner[b].count : b \in high})
        kept   == [b \in DOMAIN u.inner \ (low \cup high) |-> u.inner[b]]
    IN  [inner |-> With(kept, Min(low \cup {base}), [grant.info EXCEPT !.count = pages]),
         holes |-> Reserve(u.holes, base, count),
         ok    |-> u.ok /\ Conflicts(u, Span(base, count)) = {}]

\* remove, of a grant that exists.
RemoveGrant(u, base) ==
    [inner |-> Without(u.inner, base),
     holes |-> Unreserve(u.holes, base, u.inner[base].count),
     ok    |-> u.ok]

Grant(base, info) == [base |-> base, info |-> info]

\* Mutant of Extract: the middle part keeps the offset of the whole grant.
Extract_KeepsOffset(grant, span) ==
    LET prov  == grant.info.prov
        whole == Span(grant.base, grant.info.count)
        part(s) == Grant(s.base, Info(s.count, grant.info.flags, [prov EXCEPT !.pins = 0, !.contig = FALSE]))
    IN  [rest |-> {part(s) : s \in {t \in {Between(grant.base, span.base), Between(End(span), End(whole))} : t.count # 0}},
         mid  |-> part(span),
         ok   |-> /\ CanExtract(grant.info, FALSE)
                  /\ grant.base <= span.base /\ End(span) <= End(whole)]

\* extract: the part before and the part after a span within the grant, where
\* they are not empty, and the middle.  A borrow from an address space keeps src_base,
\* its first page there, in all three, although the later parts begin further on.
Extract(grant, span) ==
    LET prov  == grant.info.prov
        moves == prov.kind = "Phys" \/ (prov.kind \in {"Allocated", "Fmap"} /\ prov.ref # NoRef)
        at(page) == IF moves THEN prov.off + (page - grant.base) ELSE prov.off
        lag(page) == IF prov.kind = "External" THEN prov.behind + (page - grant.base) ELSE 0
        whole == Span(grant.base, grant.info.count)
        sides == {Between(grant.base, span.base), Between(End(span), End(whole))}
        part(s) == Grant(s.base, Info(s.count, grant.info.flags,
                       [prov EXCEPT !.off = at(s.base), !.behind = lag(s.base)]))
        loose(s) == [part(s) EXCEPT !.info.prov.pins = 0, !.info.prov.contig = FALSE]
    IN  [rest |-> {loose(s) : s \in {t \in sides : t.count # 0}},
         mid  |-> part(span),
         ok   |-> /\ CanExtract(grant.info, FALSE)
                  /\ grant.base <= span.base /\ End(span) <= End(whole)]

\* Take the part of the grant at base that lies in the span out of the map, and put
\* back what lies outside: the removal, extract and the insertions.
TakeOut(u, base, span, unpin) ==
    LET info  == IF unpin THEN Unpin(u.inner[base]) ELSE u.inner[base]
        split == Extract(Grant(base, info), Intersection(GrantSpan(u, base), span))
        rest  == FoldSet(LAMBDA g, v : Insert(v, g), RemoveGrant(u, base), split.rest)
    IN  [grants |-> [rest EXCEPT !.ok = @ /\ split.ok],
         grant  |-> split.mid]

-----------------------------------------------------------------------------
(* The operations of an address space on its grants.  A result has the new  *)
(* grants, what the operation took, and an error or "ok".                   *)

\* munmap_inner: grant after grant from below; one that is pinned stops it, and
\* what was taken out by then stays out.
Took(r, t) == [r EXCEPT !.grants = t.grants, !.taken = Append(@, t.grant)]
MunmapInner(u, span, unpin) ==
    LET step(r, b) == IF r.err # "ok" THEN r
                      ELSE IF IsPinned(u.inner[b]) /\ ~unpin THEN [r EXCEPT !.err = "EBUSY"]
                      ELSE Took(r, TakeOut(r.grants, b, span, unpin))
    IN  FoldLeft(step, [grants |-> u, taken |-> <<>>, err |-> "ok"], Ascending(Conflicts(u, span)))

\* mprotect.  The grants to change are listed first; one that is no longer in the
\* map under its first page when its turn comes is a failed expect, "panic".
Reflagged(r, t, flags) ==
    LET allowed == CanHaveFlags(t.grant.info, flags)
        back    == IF allowed THEN [t.grant EXCEPT !.info.flags = flags] ELSE t.grant
    IN  [r EXCEPT !.grants = Insert(t.grants, back), !.err = IF allowed THEN @ ELSE "EACCES",
                  !.taken = IF allowed THEN Append(@, t.grant) ELSE @]
Mprotect(u, span, flags) ==
    LET step(r, b) == IF r.err # "ok" THEN r
                      ELSE IF IsPinned(u.inner[b]) THEN [r EXCEPT !.err = "EBUSY"]
                      ELSE IF b \notin DOMAIN r.grants.inner THEN [r EXCEPT !.err = "panic"]
                      ELSE Reflagged(r, TakeOut(r.grants, b, span, FALSE), flags)
    IN  FoldLeft(step, [grants |-> u, taken |-> <<>>, err |-> "ok"], Ascending(Conflicts(u, span)))

\* Where a new mapping goes: a fixed span after its grants are unmapped, a fixed one that
\* must be free, or the free one that is found.
Placed(r, base, err) == [grants |-> r.grants, taken |-> r.taken, base |-> base,
                         err |-> IF r.err # "ok" THEN r.err ELSE err]
Place(u, mode, base, count) ==
    LET nothing == [grants |-> u, taken |-> <<>>, err |-> "ok"]
        at(found) == IF found = {} THEN Placed(nothing, 0, "ENOMEM") ELSE Placed(nothing, Max(found), "ok")
    IN  CASE mode = "noreplace" ->
                Placed(nothing, base, IF Conflicts(u, Span(base, count)) = {} THEN "ok" ELSE "EEXIST")
          [] mode = "fixed" -> Placed(MunmapInner(u, Span(base, count), FALSE), base, "ok")
          [] mode = "anywhere" -> at(FindFree(u, count))

\* mmap of a grant with this information.
Mmap(u, mode, base, info) ==
    LET put(place) == IF place.err # "ok" THEN place
                      ELSE [place EXCEPT !.grants = Insert(@, Grant(place.base, info))]
    IN  put(Place(u, mode, base, info.count))

\* move.  The pages from m.prev up to one of the source become zeroed memory.
FillGap(m, d, src, dst, to, flags) ==
    LET fresh == Grant(dst + (m.prev - src.base), Info(to - m.prev, flags, Allocated(NoRef, 0)))
    IN  IF m.prev < to
        THEN [m EXCEPT !.us[d] = Insert(@, fresh), !.zeroed = Append(@, fresh)]
        ELSE m

MovedOne(m, s, d, src, dst, t) ==
    LET to == [t.grant EXCEPT !.base = dst + (t.grant.base - src.base)]
        us == [m.us EXCEPT ![s] = t.grants]
    IN  [m EXCEPT !.us = [us EXCEPT ![d] = Insert(@, to)], !.moved = Append(@, t.grant),
                  !.prev = t.grant.base + t.grant.info.count]

MoveAll(us, s, d, src, dst, new, flags, place, surplus) ==
    LET kept == Span(src.base, Min({src.count, new}))
        one(m, b) == MovedOne(m, s, d, src, dst, TakeOut(m.us[s], b, kept, FALSE))
        step(m, b) == one(FillGap(m, d, src, dst, b, flags), b)
        start == [us |-> [us EXCEPT ![s] = surplus.grants], moved |-> <<>>, zeroed |-> <<>>, prev |-> src.base,
                  base |-> dst, cleared |-> place.taken, surplus |-> surplus.taken, err |-> "ok"]
    IN  FillGap(FoldLeft(step, start, Ascending(Conflicts(surplus.grants, kept))),
                d, src, dst, src.base + new, flags)

MoveFailed(us, place, err) ==
    [us |-> us, moved |-> <<>>, zeroed |-> <<>>, prev |-> 0, base |-> place.base,
     cleared |-> place.taken, surplus |-> <<>>, err |-> err]

\* What move checks after it chose, and cleared, the destination.
MoveError(us, s, src, dst, new, flags, infos) ==
    CASE \E i \in infos : ~CanExtract(i, FALSE)      -> "EBUSY"
      [] \E i \in infos : ~CanHaveFlags(i, flags)    -> "EPERM"
      [] Intersects(Span(dst, new), src)             -> "EBUSY"
      [] OTHER                                       -> "ok"

MoveChecked(us, s, d, src, new, flags, place, err) ==
    IF err # "ok" THEN MoveFailed(us, place, err)
    ELSE MoveAll(us, s, d, src, place.base, new, flags, place,
                 MunmapInner(us[s], Span(src.base + new, Max({0, src.count - new})), FALSE))

MovePlaced(us, s, d, src, new, flags, place) ==
    IF place.err # "ok" THEN MoveFailed(us, place, place.err)
    ELSE MoveChecked(us, s, d, src, new, flags, place,
             MoveError(us, s, src, place.base, new, flags, {us[s].inner[b] : b \in Conflicts(us[s], src)}))

\* move, from the grants us[s] to us[d], which may be the same.  The destination is
\* chosen, and cleared, before the source is looked at; the pages beyond the new size
\* are unmapped; the grants are moved in order and the gaps between them are filled
\* with zeroed memory.  A moved grant keeps its flags.
Move(us, s, d, src, mode, base, new, flags) ==
    LET placed(place) == MovePlaced([us EXCEPT ![d] = place.grants], s, d, src, new, flags, place)
    IN  placed(Place(us[d], mode, base, IF mode = "anywhere" THEN Max({new, src.count}) ELSE new))
=============================================================================
