----------------------------- MODULE TlbProofs -----------------------------
(***************************************************************************)
(* No stale translation outlives its lock, and no free frame is reachable  *)
(* (Tlb), for any CPUs, address spaces, pages and queue capacity.          *)
(***************************************************************************)
EXTENDS Tlb, FiniteSetTheorems, WellFoundedInduction, TLAPS

Places == {"run", "leave", "replace", "enter", "lock", "work", "flush", "ask", "wait"}
FrameSet == Spaces \X PageSet
EntrySet == [frame : FrameSet, w : BOOLEAN]
QueueSet == SUBSET (PageSet \X (FrameSet \cup {None}))
JobSet == [space : Spaces \cup {None}, kind : {"none", "unmap", "protect"}, todo : SUBSET PageSet,
           queue : QueueSet, dirty : BOOLEAN, held : QueueSet, taken : QueueSet,
           targets : SUBSET Cpus, asked : Nat, missed : SUBSET Cpus, last : BOOLEAN]
Table == [PageSet -> EntrySet \cup {None}]

\* The state is well typed; blocks does not change.
TypeOK ==
    /\ pc \in [Cpus -> Places]
    /\ space \in [Cpus -> Spaces \cup {None}]
    /\ next \in [Cpus -> Spaces \cup {None}]
    /\ root \in [Cpus -> Spaces \cup {None}]
    /\ tlb \in [Cpus -> Table]
    /\ wants \in [Cpus -> BOOLEAN]
    /\ flushed \in [Cpus -> BOOLEAN]
    /\ used_by \in [Spaces -> SUBSET Cpus]
    /\ writer \in [Spaces -> Cpus \cup {None}]
    /\ tlb_ack \in [Spaces -> Nat]
    /\ pte \in [Spaces -> Table]
    /\ free \subseteq FrameSet
    /\ job \in [Cpus -> JobSet]

\* A CPU that is not in the middle of a switch uses the translations of its space.
Uses(c) == pc[c] \notin {"replace", "enter"}
\* A CPU in these places holds the lock of the space of its job.
Locks(c) == pc[c] \in {"work", "flush", "ask", "wait"}
Pages(entries) == {e[1] : e \in entries}
Pending(s) == {d \in Cpus : (wants[d] \/ flushed[d]) /\ space[d] = s}

\* used_by is exact, and a CPU that uses a space has its table loaded.
UsedExact ==
    /\ \A s \in Spaces, c \in Cpus : c \in used_by[s] <=> Uses(c) /\ space[c] = s
    /\ \A c \in Cpus : Uses(c) => root[c] = space[c]
    /\ \A c \in Cpus : pc[c] = "leave" => space[c] \in Spaces

\* Tables and caches have a page's own frame, and the table no frame that is free.
OwnFrames ==
    /\ \A c \in Cpus, p \in PageSet : tlb[c][p] # None => root[c] \in Spaces /\ tlb[c][p].frame = <<root[c], p>>
    /\ \A s \in Spaces, p \in PageSet : pte[s][p] # None => pte[s][p].frame = <<s, p>>
    /\ \A s \in Spaces, p \in PageSet : <<s, p>> \in free => pte[s][p] = None

\* The lock is held by the CPU that works on the space.
LockExact ==
    /\ \A c \in Cpus : pc[c] = "lock" \/ Locks(c) => job[c].space \in Spaces
    /\ \A c \in Cpus : Locks(c) => writer[job[c].space] = c
    /\ \A s \in Spaces : writer[s] # None =>
           writer[s] \in Cpus /\ Locks(writer[s]) /\ job[writer[s]].space = s

\* What a Flusher has at each place, and that a frame it will free is out of the table,
\* its page not among those that wait for the next flush.
JobOK(c) ==
    /\ job[c].queue # {} => pc[c] \in {"work", "flush"}
    /\ job[c].held # {} => pc[c] \in {"flush", "ask", "wait"}
    /\ job[c].taken # {} => pc[c] \in {"ask", "wait"}
    /\ job[c].targets # {} => pc[c] = "ask"
    /\ job[c].last => job[c].held = {} /\ pc[c] \in {"ask", "wait"}
    /\ Locks(c) => job[c].targets \subseteq used_by[job[c].space] \ {c}
    /\ \A e \in job[c].queue \cup job[c].held \cup job[c].taken :
           e[2] # None => e[2] = <<job[c].space, e[1]>> /\ pte[job[c].space][e[1]] = None
    /\ \A e \in job[c].queue \cup job[c].taken, h \in job[c].held : e[2] # None => h[1] # e[1]

\* A CPU that is asked, or has flushed and not said so, uses a space that another CPU has
\* locked and asked it for.
Awaited(d) ==
    /\ ~(wants[d] /\ flushed[d])
    /\ Uses(d) /\ space[d] \in Spaces
    /\ writer[space[d]] \in Cpus \ {d}
    /\ pc[writer[space[d]]] \in {"ask", "wait"}
    /\ d \notin job[writer[space[d]]].targets
Asked == \A d \in Cpus : wants[d] \/ flushed[d] => Awaited(d)

\* Every CPU that was counted has acknowledged, owes an answer or was not asked.
CountOK(c) ==
    /\ job[c].asked = tlb_ack[job[c].space] + Cardinality(job[c].missed) + Cardinality(Pending(job[c].space))
    /\ \A d \in job[c].missed : d \notin job[c].targets
Counted == \A c \in Cpus : pc[c] \in {"ask", "wait"} => CountOK(c)

\* A translation that is not in the table any more is still to be flushed.
Stale(c, p) == Uses(c) /\ tlb[c][p] # None /\ tlb[c][p] # pte[space[c]][p]
Due(w, c, p) ==
    \/ p \in Pages(job[w].queue) \cup Pages(job[w].held)
    \/ wants[c]
    \/ pc[w] = "ask" /\ (c \in job[w].targets \/ c = w)
    \/ pc[w] \in {"ask", "wait"} /\ c \in job[w].missed
StaleOK ==
    \A c \in Cpus, p \in PageSet :
        Stale(c, p) => writer[space[c]] \in Cpus /\ Due(writer[space[c]], c, p)

\* No translation in use is of a free frame.
FreeOK ==
    \A c \in Cpus, p \in PageSet :
        (Uses(c) /\ tlb[c][p] # None) => <<space[c], p>> \notin free

\* Nobody owes an answer for a space and no translation of it is stale, and a step frees
\* only frames of it that are out of its table: what allows its lock to be dropped.
Quiet(s) ==
    /\ \A d \in Cpus : space[d] = s => ~wants[d] /\ ~flushed[d]
    /\ \A d \in Cpus, p \in PageSet :
           Uses(d) /\ space[d] = s /\ tlb[d][p] # None => tlb[d][p] = pte[s][p]
Frees(s) ==
    /\ free' \subseteq FrameSet
    /\ \A z \in Spaces, p \in PageSet : <<z, p>> \in free' \ free => z = s /\ pte[s][p] = None

IInv ==
    /\ TypeOK /\ UsedExact /\ OwnFrames /\ LockExact /\ (\A c \in Cpus : JobOK(c))
    /\ Asked /\ Counted /\ StaleOK /\ FreeOK

-----------------------------------------------------------------------------
(* The operators.                                                          *)

(* A non-empty set of numbers has its least element. *)
LEMMA MinOf ==
  ASSUME NEW S \in SUBSET Nat, S # {}
  PROVE  Min(S) \in S
<1> DEFINE R == OpToRel(<, Nat)
<1>1. \E x \in S : \A y \in S : ~ (<<y, x>> \in R)
  BY NatLessThanWellFounded, WFMin, Zenon
<1>2. \A y, x \in S : (<<y, x>> \in R) <=> y < x
  BY Zenon DEF OpToRel
<1> HIDE DEF R
<1>3. PICK x \in S : \A y \in S : ~ (<<y, x>> \in R)
  BY <1>1, Zenon
<1>4. \A y \in S : ~ (y < x)
  BY <1>2, <1>3, Zenon
<1>5. \A y \in S : x =< y
  BY <1>4
<1> QED
  BY <1>5, Zenon DEF Min

(* The types of the fields of a job. *)
LEMMA JobFields ==
  ASSUME NEW j \in JobSet
  PROVE  /\ j.space \in Spaces \cup {None} /\ j.kind \in {"none", "unmap", "protect"}
         /\ j.todo \in SUBSET PageSet /\ j.queue \in QueueSet /\ j.held \in QueueSet
         /\ j.taken \in QueueSet /\ j.targets \in SUBSET Cpus /\ j.asked \in Nat
         /\ j.missed \in SUBSET Cpus /\ j.dirty \in BOOLEAN /\ j.last \in BOOLEAN
  BY Zenon DEF JobSet

(* No job at all is a job. *)
LEMMA NoJobFields ==
  /\ NoJob \in JobSet
  /\ NoJob.queue = {} /\ NoJob.held = {} /\ NoJob.taken = {} /\ NoJob.targets = {} /\ ~NoJob.last
  BY Zenon DEF NoJob, JobSet, QueueSet

(* The job that a new operation starts with. *)
LEMMA JobBegins ==
  ASSUME NEW s \in Spaces, NEW kind \in {"unmap", "protect"}
  PROVE  \E r \in JobSet :
           /\ r = [NoJob EXCEPT !.space = s, !.kind = kind, !.todo = PageSet]
           /\ r.space = s /\ r.queue = {} /\ r.held = {} /\ r.taken = {} /\ r.targets = {}
           /\ ~r.last
<1> DEFINE r == [NoJob EXCEPT !.space = s, !.kind = kind, !.todo = PageSet]
<1>1. /\ r \in JobSet
      /\ r.space = s /\ r.queue = {} /\ r.held = {} /\ r.taken = {} /\ r.targets = {}
      /\ ~r.last
  BY Zenon DEF NoJob, JobSet, QueueSet
<1>2. r = [NoJob EXCEPT !.space = s, !.kind = kind, !.todo = PageSet]
  BY Zenon
<1> HIDE DEF r
<1> QED
  BY <1>1, <1>2, Zenon

(* A page is taken from todo. *)
LEMMA JobWorks ==
  ASSUME NEW j \in JobSet, NEW q
  PROVE  \E r \in JobSet :
           /\ r = [j EXCEPT !.todo = @ \ {q}]
           /\ r.space = j.space /\ r.queue = j.queue /\ r.held = j.held /\ r.taken = j.taken
           /\ r.targets = j.targets /\ r.asked = j.asked /\ r.last = j.last
<1> DEFINE r == [j EXCEPT !.todo = @ \ {q}]
<1>0. j.todo \ {q} \in SUBSET PageSet
  BY Zenon DEF JobSet
<1>1. /\ r \in JobSet
      /\ r.space = j.space /\ r.queue = j.queue /\ r.held = j.held /\ r.taken = j.taken
      /\ r.targets = j.targets /\ r.asked = j.asked /\ r.last = j.last
  BY <1>0, Zenon DEF JobSet
<1>2. r = [j EXCEPT !.todo = @ \ {q}]
  BY Zenon
<1> HIDE DEF r
<1> QED
  BY <1>1, <1>2, Zenon

(* Flusher::queue with a full queue, and with room in it. *)
LEMMA JobQueues ==
  ASSUME NEW j \in JobSet, NEW entries \in QueueSet
  PROVE  \E r \in JobSet :
           /\ r = Queue(j, entries)
           /\ r.space = j.space
           /\ r.taken = j.taken /\ r.targets = j.targets /\ r.asked = j.asked /\ r.last = j.last
           /\ \/ r.queue = j.queue /\ r.held = entries
              \/ r.queue = j.queue \cup entries /\ r.held = j.held
<1> DEFINE full == [j EXCEPT !.dirty = TRUE, !.held = entries]
           room == [j EXCEPT !.dirty = TRUE, !.queue = @ \cup entries]
<1>1. /\ full \in JobSet /\ full.space = j.space
      /\ full.taken = j.taken /\ full.targets = j.targets /\ full.asked = j.asked /\ full.last = j.last
      /\ full.queue = j.queue /\ full.held = entries
  BY Zenon DEF JobSet
<1>2. j.queue \cup entries \in QueueSet
  BY Zenon DEF JobSet, QueueSet
<1>3. /\ room \in JobSet /\ room.space = j.space
      /\ room.taken = j.taken /\ room.targets = j.targets /\ room.asked = j.asked /\ room.last = j.last
      /\ room.queue = j.queue \cup entries /\ room.held = j.held
  BY <1>2, Zenon DEF JobSet
<1>4. Queue(j, entries) = full \/ Queue(j, entries) = room
  BY Zenon DEF Queue
<1> HIDE DEF full, room
<1> QED
  BY <1>1, <1>3, <1>4, Zenon

(* The end of a flush after which the operation goes on. *)
LEMMA JobGoesOn ==
  ASSUME NEW j \in JobSet
  PROVE  \E r \in JobSet :
           /\ r = [j EXCEPT !.queue = j.held, !.held = {}, !.taken = {}, !.asked = 0, !.missed = {}]
           /\ r.space = j.space /\ r.queue = j.held /\ r.held = {} /\ r.taken = {}
           /\ r.targets = j.targets /\ r.asked = 0 /\ r.last = j.last
<1> DEFINE r == [j EXCEPT !.queue = j.held, !.held = {}, !.taken = {}, !.asked = 0, !.missed = {}]
<1>1. /\ r \in JobSet
      /\ r.space = j.space /\ r.queue = j.held /\ r.held = {} /\ r.taken = {}
      /\ r.targets = j.targets /\ r.asked = 0 /\ r.last = j.last
  BY Zenon DEF JobSet, QueueSet
<1>2. r = [j EXCEPT !.queue = j.held, !.held = {}, !.taken = {}, !.asked = 0, !.missed = {}]
  BY Zenon
<1> HIDE DEF r
<1> QED
  BY <1>1, <1>2, Zenon

(* CPUs are finitely many. *)
LEMMA CpusFinite ==
  ASSUME NEW S \in SUBSET Cpus
  PROVE  /\ IsFiniteSet(S) /\ Cardinality(S) \in Nat
         /\ Cardinality(S) = 0 <=> S = {}
<1>1. IsFiniteSet(S)
  BY TlbAssumption, FS_Subset, Zenon
<1> QED
  BY <1>1, FS_CardinalityType, FS_EmptySet, Zenon

(* The CPUs whose answer is missing are finitely many. *)
LEMMA PendingFinite ==
  ASSUME NEW s \in Spaces
  PROVE  /\ IsFiniteSet(Pending(s)) /\ Cardinality(Pending(s)) \in Nat
         /\ Cardinality(Pending(s)) = 0 <=> Pending(s) = {}
<1>1. Pending(s) \in SUBSET Cpus
  BY Zenon DEF Pending
<1> QED
  BY <1>1, CpusFinite, Zenon

(* A Flusher that is not moved by a step on a page table it has nothing to free in. *)
LEMMA JobMoved ==
  ASSUME NEW d \in Cpus, JobOK(d), job'[d] = job[d], pc'[d] = pc[d], used_by' = used_by,
         \A t \in job[d].queue \cup job[d].held \cup job[d].taken :
           t[2] # None => t[2] = <<job[d].space, t[1]>> /\ pte'[job[d].space][t[1]] = None
  PROVE  JobOK(d)'
<1>1. (\A e \in job[d].queue \cup job[d].held \cup job[d].taken :
          e[2] # None => e[2] = <<job[d].space, e[1]>> /\ pte[job[d].space][e[1]] = None)'
  BY Zenon
<1>2. (\A e \in job[d].queue \cup job[d].taken, h \in job[d].held : e[2] # None => h[1] # e[1])'
  BY Zenon DEF JobOK
<1>3. /\ (job[d].queue # {} => pc[d] \in {"work", "flush"})'
      /\ (job[d].held # {} => pc[d] \in {"flush", "ask", "wait"})'
      /\ (job[d].taken # {} => pc[d] \in {"ask", "wait"})'
      /\ (job[d].targets # {} => pc[d] = "ask")'
      /\ (job[d].last => job[d].held = {} /\ pc[d] \in {"ask", "wait"})'
      /\ (Locks(d) => job[d].targets \subseteq used_by[job[d].space] \ {d})'
  BY Zenon DEF JobOK, Locks
<1> QED
  BY <1>1, <1>2, <1>3, Zenon DEF JobOK

(* What holds of an operation holds while it, the table and the users do not change. *)
LEMMA JobKept ==
  ASSUME NEW d \in Cpus, JobOK(d), pc'[d] = pc[d], job'[d] = job[d], pte' = pte, used_by' = used_by
  PROVE  JobOK(d)'
  BY Zenon DEF JobOK, Locks

(* A CPU that is at no place of an operation has no lock. *)
LEMMA NotWriter ==
  ASSUME TlbAssumption, LockExact, NEW c \in Cpus, ~Locks(c)
  PROVE  \A z \in Spaces : writer[z] # c
<1>1. c # None
  BY Zenon DEF TlbAssumption
<1> QED
  BY <1>1, Zenon DEF LockExact, Locks

(* A CPU has no lock but that of the space it works on. *)
LEMMA OtherWriter ==
  ASSUME TlbAssumption, LockExact, NEW c \in Cpus
  PROVE  \A z \in Spaces : z # job[c].space => writer[z] # c
<1>1. c # None
  BY Zenon DEF TlbAssumption
<1> QED
  BY <1>1, Zenon DEF LockExact

(* A CPU in the middle of an operation has the lock of its space. *)
LEMMA HasLock ==
  ASSUME LockExact, NEW c \in Cpus, Locks(c)
  PROVE  job[c].space \in Spaces /\ writer[job[c].space] = c
  BY Zenon DEF LockExact

(* used_by stays exact while nobody starts or stops using a space. *)
LEMMA UsedKept ==
  ASSUME UsedExact, used_by' = used_by, root' = root, space' = space,
         \A d \in Cpus : (Uses(d)' <=> Uses(d)) /\ (pc'[d] = "leave" => pc[d] = "leave")
  PROVE  UsedExact'
  BY Zenon DEF UsedExact

(* Tables and caches keep their own frames while they do not change and no frame is freed. *)
LEMMA OwnKept ==
  ASSUME OwnFrames, root' = root, tlb' = tlb, pte' = pte, free' = free
  PROVE  OwnFrames'
  BY Zenon DEF OwnFrames

(* Dropping translations leaves the others as they are. *)
LEMMA OwnDropped ==
  ASSUME OwnFrames, root' = root, pte' = pte, free' = free,
         \A d \in Cpus, p \in PageSet : tlb'[d][p] = None \/ tlb'[d][p] = tlb[d][p]
  PROVE  OwnFrames'
  BY SMTT(30), ZenonT(30) DEF OwnFrames

(* The locks stay with their CPUs while nobody enters or leaves an operation. *)
LEMMA LockKept ==
  ASSUME LockExact, writer' = writer,
         \A d \in Cpus : /\ (Locks(d)' <=> Locks(d)) /\ job'[d].space = job[d].space
                         /\ pc'[d] = "lock" => pc[d] = "lock"
  PROVE  LockExact'
<1>1. \A d \in Cpus : pc'[d] = "lock" \/ Locks(d)' => job'[d].space \in Spaces
  BY Zenon DEF LockExact
<1>2. \A d \in Cpus : Locks(d)' => writer'[job'[d].space] = d
  BY Zenon DEF LockExact
<1>3. \A z \in Spaces : (writer[z] # None =>
         writer[z] \in Cpus /\ Locks(writer[z]) /\ job[writer[z]].space = z)'
  <2> SUFFICES ASSUME NEW z \in Spaces, writer'[z] # None
               PROVE  (writer[z] \in Cpus /\ Locks(writer[z]) /\ job[writer[z]].space = z)'
    BY Zenon
  <2>1. writer[z] \in Cpus /\ Locks(writer[z]) /\ job[writer[z]].space = z /\ writer'[z] = writer[z]
    BY Zenon DEF LockExact
  <2> QED
    BY <2>1, Zenon DEF Locks
<1> QED
  BY <1>1, <1>2, <1>3, ZenonT(30) DEF LockExact

(* The count of answers stays right while nobody is asked, answers or begins to ask. *)
LEMMA CountedKept ==
  ASSUME Counted, \A z : Pending(z)' = Pending(z), tlb_ack' = tlb_ack,
         \A d \in Cpus : pc'[d] \in {"ask", "wait"} =>
             /\ pc[d] \in {"ask", "wait"}
             /\ job'[d].asked = job[d].asked /\ job'[d].space = job[d].space
             /\ job'[d].missed = job[d].missed /\ job'[d].targets = job[d].targets
  PROVE  Counted'
  BY Zenon DEF Counted, CountOK

(* Who owes an answer depends on the requests and the spaces in use alone. *)
LEMMA PendingKept ==
  ASSUME wants' = wants, flushed' = flushed, space' = space
  PROVE  \A z : Pending(z)' = Pending(z)
  BY Zenon DEF Pending

(* A translation that was to be flushed still is, when neither the lock of its space nor *)
(* the operation that holds it changes.                                                   *)
LEMMA StillDue ==
  ASSUME StaleOK, NEW d \in Cpus, NEW p \in PageSet, Stale(d, p), space'[d] = space[d],
         writer'[space[d]] = writer[space[d]], wants'[d] = wants[d],
         \A w \in Cpus : w = writer[space[d]] => pc'[w] = pc[w] /\ job'[w] = job[w]
  PROVE  (writer[space[d]] \in Cpus /\ Due(writer[space[d]], d, p))'
  BY DEF StaleOK, Due

(* Only a CPU that uses a space has stale translations, and they are of that space. *)
LEMMA StaleSpace ==
  ASSUME UsedExact, OwnFrames, NEW d \in Cpus, NEW p \in PageSet, Stale(d, p)
  PROVE  space[d] \in Spaces
  BY Zenon DEF UsedExact, OwnFrames, Stale

-----------------------------------------------------------------------------
(* The invariant holds initially and implies the properties.               *)

(* The kernel starts with every CPU outside any address space. *)
LEMMA InitIInv ==
  ASSUME Init
  PROVE  IInv
<1> USE TlbAssumption
<1>1. \A s \in Spaces, p \in PageSet : Entry(s, p, TRUE) \in EntrySet /\ Entry(s, p, TRUE).frame = <<s, p>>
  BY Zenon DEF Entry, EntrySet, FrameSet
<1>2. \A s \in Spaces, p \in PageSet : pte[s][p] = None \/ pte[s][p] = Entry(s, p, TRUE)
  BY Zenon DEF Init
<1>3. \A c \in Cpus : pc[c] = "run" /\ space[c] = None /\ root[c] = None /\ ~wants[c] /\ ~flushed[c]
                      /\ job[c] = NoJob /\ \A p \in PageSet : tlb[c][p] = None
  BY Zenon DEF Init, Empty
<1>4. free = {} /\ \A s \in Spaces : used_by[s] = {} /\ writer[s] = None
  BY Zenon DEF Init
<1>5. TypeOK
  <2>1. pte \in [Spaces -> Table]
    BY <1>1, <1>2, Zenon DEF Init, Table
  <2>2. tlb \in [Cpus -> Table]
    BY Zenon DEF Init, Table, Empty
  <2>3. job \in [Cpus -> JobSet]
    BY NoJobFields, Zenon DEF Init
  <2> QED
    BY <2>1, <2>2, <2>3, Zenon DEF TypeOK, Init, Places
<1>6. UsedExact
  BY <1>3, <1>4, Zenon DEF UsedExact, Uses
<1>7. OwnFrames
  BY <1>1, <1>2, <1>3, <1>4 DEF OwnFrames
<1>8. LockExact
  BY <1>3, <1>4, Zenon DEF LockExact, Locks
<1>9. \A c \in Cpus : JobOK(c)
  BY <1>3, NoJobFields, Zenon DEF JobOK, Locks
<1>10. Asked /\ Counted /\ StaleOK /\ FreeOK
  BY <1>3, <1>4, Zenon DEF Asked, Awaited, Counted, StaleOK, Stale, FreeOK
<1> QED
  BY <1>5, <1>6, <1>7, <1>8, <1>9, <1>10, Zenon DEF IInv

(* The invariant gives the three properties of a shootdown. *)
LEMMA IInvImplies ==
  ASSUME IInv
  PROVE  StaleOnlyWhileLocked /\ NoFreeFrameReachable /\ AcksExact
<1> USE TlbAssumption DEF IInv
<1>1. StaleOnlyWhileLocked
  BY Zenon DEF StaleOK, Stale, StaleOnlyWhileLocked, Uses
<1>2. NoFreeFrameReachable
  <2> SUFFICES ASSUME NEW c \in Cpus, NEW p \in PageSet, Uses(c), tlb[c][p] # None
               PROVE  tlb[c][p].frame \notin free
    BY Zenon DEF NoFreeFrameReachable, Uses
  <2>1. root[c] = space[c]
    BY Zenon DEF UsedExact
  <2>2. tlb[c][p].frame = <<space[c], p>>
    BY <2>1, Zenon DEF OwnFrames
  <2> QED
    BY <2>2, Zenon DEF FreeOK
<1>3. AcksExact
  <2> SUFFICES ASSUME NEW c \in Cpus, pc[c] = "wait"
               PROVE  job[c].asked = tlb_ack[job[c].space] + Cardinality(job[c].missed)
                        + Cardinality({d \in Cpus \ {c} : (wants[d] \/ flushed[d]) /\ space[d] = job[c].space})
    BY Zenon DEF AcksExact
  <2>1. job[c].space \in Spaces /\ writer[job[c].space] = c
    BY Zenon DEF LockExact, Locks
  <2>2. {d \in Cpus \ {c} : (wants[d] \/ flushed[d]) /\ space[d] = job[c].space} = Pending(job[c].space)
    BY <2>1, Zenon DEF Asked, Awaited, Pending
  <2> QED
    BY <2>2, Zenon DEF Counted, CountOK
<1> QED
  BY <1>1, <1>2, <1>3, Zenon

-----------------------------------------------------------------------------
(* Every step preserves the invariant.                                     *)

(* A page walk caches what the table has. *)
LEMMA WalkStep ==
  ASSUME IInv, NEW c \in Cpus, Walk(c)
  PROVE  IInv'
<1> USE TlbAssumption DEF IInv
<1>e. /\ root[c] # None
      /\ UNCHANGED <<pc, space, next, root, used_by, wants, flushed, writer, tlb_ack, pte, free, job>>
  BY Zenon DEF Walk, cpuvars
<1>t. tlb' = [tlb EXCEPT ![c] = [p \in PageSet |-> IF tlb[c][p] = None THEN pte[root[c]][p] ELSE tlb[c][p]]]
  BY Zenon DEF Walk
<1>r. root[c] \in Spaces
  BY <1>e, Zenon DEF TypeOK
<1>p. /\ \A d \in Cpus \ {c} : tlb'[d] = tlb[d]
      /\ \A p \in PageSet : tlb'[c][p] = IF tlb[c][p] = None THEN pte[root[c]][p] ELSE tlb[c][p]
  BY <1>t, Zenon DEF TypeOK
<1>1. TypeOK'
  <2>1. tlb' \in [Cpus -> Table]
    BY <1>t, <1>r DEF TypeOK, Table
  <2> QED
    BY <1>e, <2>1, Zenon DEF TypeOK
<1>2. UsedExact'
  BY <1>e, Zenon DEF UsedExact, Uses
<1>3. OwnFrames'
  BY <1>e, <1>p, <1>r DEF OwnFrames
<1>4. LockExact'
  BY <1>e, Zenon DEF LockExact, Locks
<1>5. \A d \in Cpus : JobOK(d)'
  BY <1>e, JobKept, Zenon
<1>6. Asked'
  BY <1>e, Zenon DEF Asked, Awaited, Uses
<1>7. Counted'
  BY <1>e, CountedKept, PendingKept, Zenon
<1>8. StaleOK'
  <2> SUFFICES ASSUME NEW d \in Cpus, NEW p \in PageSet, Stale(d, p)'
               PROVE  (writer[space[d]] \in Cpus /\ Due(writer[space[d]], d, p))'
    BY Zenon DEF StaleOK
  <2>1. Stale(d, p)
    BY <1>e, <1>p, <1>r DEF Stale, Uses, UsedExact
  <2>2. space[d] \in Spaces
    BY <2>1, StaleSpace, Zenon
  <2> QED
    BY <1>e, <1>p, <2>1, <2>2, StillDue, Zenon
<1>9. FreeOK'
  BY <1>e, <1>p, <1>r DEF FreeOK, Uses, UsedExact, OwnFrames
<1> QED
  BY <1>1, <1>2, <1>3, <1>4, <1>5, <1>6, <1>7, <1>8, <1>9, Zenon DEF IInv

(* A CPU that begins a switch owes nobody an answer unless it goes on using its space. *)
LEMMA BeginSwitchStep ==
  ASSUME IInv, NEW c \in Cpus, NEW s \in Spaces \cup {None}, BeginSwitch(c, s)
  PROVE  IInv'
<1> USE TlbAssumption DEF IInv
<1>e. /\ pc[c] = "run" /\ ~flushed[c]
      /\ UNCHANGED <<space, root, used_by, tlb, wants, flushed, writer, tlb_ack, pte, free, job>>
  BY Zenon DEF BeginSwitch, At
<1>p. /\ pc'[c] = IF space[c] = None THEN "replace" ELSE "leave"
      /\ \A d \in Cpus \ {c} : pc'[d] = pc[d]
  BY Zenon DEF BeginSwitch, Goto, TypeOK
<1>s. space[c] = None \/ space[c] \in Spaces
  BY Zenon DEF TypeOK
<1>l. \A z \in Spaces : writer[z] # c
  BY <1>e, NotWriter, Zenon DEF Locks
<1>1. TypeOK'
  BY <1>e DEF TypeOK, BeginSwitch, Goto, Places
<1>2. UsedExact'
  BY <1>e, <1>p, <1>s DEF UsedExact, Uses
<1>3. OwnFrames'
  BY <1>e, Zenon DEF OwnFrames
<1>4. LockExact'
  BY <1>e, <1>p, LockKept, Zenon DEF Locks
<1>5. \A d \in Cpus : JobOK(d)'
  BY <1>e, <1>p, SMTT(30), ZenonT(30) DEF JobOK, Locks
<1>6. Asked'
  <2> SUFFICES ASSUME NEW d \in Cpus, wants'[d] \/ flushed'[d]
               PROVE  Awaited(d)'
    BY Zenon DEF Asked
  <2>1. Awaited(d)
    BY <1>e, Zenon DEF Asked
  <2>2. Uses(d)'
    BY <1>e, <1>p, <2>1, Zenon DEF Awaited, Uses
  <2> QED
    BY <1>e, <1>p, <1>l, <2>1, <2>2, Zenon DEF Awaited
<1>7. Counted'
  BY <1>e, <1>p, CountedKept, PendingKept, Zenon
<1>8. StaleOK'
  <2> SUFFICES ASSUME NEW d \in Cpus, NEW p \in PageSet, Stale(d, p)'
               PROVE  (writer[space[d]] \in Cpus /\ Due(writer[space[d]], d, p))'
    BY Zenon DEF StaleOK
  <2>1. Stale(d, p)
    BY <1>e, <1>p, Zenon DEF Stale, Uses
  <2>2. space[d] \in Spaces
    BY <2>1, StaleSpace, Zenon
  <2> QED
    BY <1>e, <1>p, <1>l, <2>1, <2>2, StillDue, Zenon
<1>9. FreeOK'
  BY <1>e, <1>p, Zenon DEF FreeOK, Uses
<1> QED
  BY <1>1, <1>2, <1>3, <1>4, <1>5, <1>6, <1>7, <1>8, <1>9, Zenon DEF IInv

(* A CPU leaves a space that nobody has locked: nobody waits for its answer. *)
LEMMA LeaveStep ==
  ASSUME IInv, NEW c \in Cpus, Leave(c)
  PROVE  IInv'
<1> USE TlbAssumption DEF IInv
<1>e. /\ pc[c] = "leave" /\ ~flushed[c] /\ writer[space[c]] = None
      /\ UNCHANGED <<space, next, root, tlb, wants, flushed, writer, tlb_ack, pte, free, job>>
  BY Zenon DEF Leave, At
<1>p. pc'[c] = "replace" /\ \A d \in Cpus \ {c} : pc'[d] = pc[d]
  BY Zenon DEF Leave, Goto, TypeOK
<1>s. space[c] \in Spaces
  BY <1>e, Zenon DEF UsedExact
<1>u. \A s \in Spaces : used_by'[s] = IF s = space[c] THEN used_by[s] \ {c} ELSE used_by[s]
  BY <1>s, Zenon DEF Leave, TypeOK
<1>w. ~wants[c]
  BY <1>e, Zenon DEF Asked, Awaited
<1>l. \A z \in Spaces : writer[z] # c
  BY <1>e, NotWriter, Zenon DEF Locks
<1>1. TypeOK'
  BY <1>e, <1>s DEF TypeOK, Leave, Goto, Places
<1>2. UsedExact'
  <2>1. \A s \in Spaces, d \in Cpus : (d \in used_by[s] <=> Uses(d) /\ space[d] = s)'
    <3> SUFFICES ASSUME NEW s \in Spaces, NEW d \in Cpus
                 PROVE  d \in used_by'[s] <=> Uses(d)' /\ space'[d] = s
      BY Zenon
    <3>1. d \in used_by[s] <=> Uses(d) /\ space[d] = s
      BY Zenon DEF UsedExact
    <3>2. CASE d = c
      BY <1>e, <1>p, <1>u, <3>1, <3>2, Zenon DEF Uses
    <3>3. CASE d # c
      BY <1>e, <1>p, <1>u, <3>1, <3>3, Zenon DEF Uses
    <3> QED
      BY <3>2, <3>3, Zenon
  <2>2. \A d \in Cpus : (Uses(d) => root[d] = space[d])' /\ (pc[d] = "leave" => space[d] \in Spaces)'
    BY <1>e, <1>p, Zenon DEF UsedExact, Uses
  <2> QED
    BY <2>1, <2>2, Zenon DEF UsedExact
<1>3. OwnFrames'
  BY <1>e, OwnKept, Zenon
<1>4. LockExact'
  BY <1>e, <1>p, LockKept, Zenon DEF Locks
<1>5. \A d \in Cpus : JobOK(d)'
  <2>1. \A d \in Cpus : Locks(d) => job[d].space \in Spaces /\ job[d].space # space[c]
    BY <1>e DEF LockExact
  <2>2. \A d \in Cpus : Locks(d)' => Locks(d)
    BY <1>p, Zenon DEF Locks
  <2>3. \A d \in Cpus : Locks(d)' => used_by'[job[d].space] = used_by[job[d].space]
    BY <1>u, <2>1, <2>2, Zenon
  <2> QED
    BY <1>e, <1>p, <2>2, <2>3, SMTT(30), ZenonT(30) DEF JobOK
<1>6. Asked'
  <2> SUFFICES ASSUME NEW d \in Cpus, wants'[d] \/ flushed'[d]
               PROVE  Awaited(d)'
    BY Zenon DEF Asked
  <2>1. Awaited(d) /\ d # c
    BY <1>e, <1>w, Zenon DEF Asked
  <2> QED
    BY <1>e, <1>p, <1>l, <2>1, Zenon DEF Awaited, Uses
<1>7. Counted'
  <2>1. \A z : Pending(z)' = Pending(z)
    BY <1>e, PendingKept, Zenon
  <2> QED
    BY <1>e, <1>p, <2>1, CountedKept, Zenon
<1>8. StaleOK'
  <2> SUFFICES ASSUME NEW d \in Cpus, NEW p \in PageSet, Stale(d, p)'
               PROVE  (writer[space[d]] \in Cpus /\ Due(writer[space[d]], d, p))'
    BY Zenon DEF StaleOK
  <2>1. Stale(d, p) /\ d # c
    BY <1>e, <1>p, Zenon DEF Stale, Uses
  <2>2. space[d] \in Spaces
    BY <2>1, StaleSpace, Zenon
  <2> QED
    BY <1>e, <1>p, <1>l, <2>1, <2>2, StillDue, Zenon
<1>9. FreeOK'
  BY <1>e, <1>p, Zenon DEF FreeOK, Uses
<1> QED
  BY <1>1, <1>2, <1>3, <1>4, <1>5, <1>6, <1>7, <1>8, <1>9, Zenon DEF IInv

(* The space of a CPU is replaced while it uses none. *)
LEMMA ReplaceStep ==
  ASSUME IInv, NEW c \in Cpus, Replace(c)
  PROVE  IInv'
<1> USE TlbAssumption DEF IInv
<1>e. /\ pc[c] = "replace" /\ ~flushed[c]
      /\ UNCHANGED <<next, root, used_by, tlb, wants, flushed, writer, tlb_ack, pte, free, job>>
  BY Zenon DEF Replace, At
<1>p. pc'[c] = "enter" /\ \A d \in Cpus \ {c} : pc'[d] = pc[d] /\ space'[d] = space[d]
  BY Zenon DEF Replace, Goto, TypeOK
<1>w. ~wants[c]
  BY <1>e, Zenon DEF Asked, Awaited, Uses
<1>l. \A z \in Spaces : writer[z] # c
  BY <1>e, NotWriter, Zenon DEF Locks
<1>1. TypeOK'
  BY <1>e, Zenon DEF TypeOK, Replace, Goto, Places
<1>2. UsedExact'
  BY <1>e, <1>p DEF UsedExact, Uses
<1>3. OwnFrames'
  BY <1>e, Zenon DEF OwnFrames
<1>4. LockExact'
  BY <1>e, <1>p, LockKept, Zenon DEF Locks
<1>5. \A d \in Cpus : JobOK(d)'
  <2>1. \A d \in Cpus \ {c} : JobOK(d)'
    BY <1>e, <1>p, JobKept, Zenon
  <2>2. JobOK(c)'
    BY <1>e, <1>p, Zenon DEF JobOK, Locks
  <2> QED
    BY <2>1, <2>2, Zenon
<1>6. Asked'
  <2> SUFFICES ASSUME NEW d \in Cpus, wants'[d] \/ flushed'[d]
               PROVE  Awaited(d)'
    BY Zenon DEF Asked
  <2>1. Awaited(d) /\ d # c
    BY <1>e, <1>w, Zenon DEF Asked
  <2>2. space'[d] = space[d] /\ (Uses(d)' <=> Uses(d))
    BY <1>p, <2>1, Zenon DEF Uses
  <2>3. space[d] \in Spaces /\ writer[space[d]] \in Cpus \ {c}
    BY <1>l, <2>1, Zenon DEF Awaited
  <2>4. pc'[writer[space[d]]] = pc[writer[space[d]]]
    BY <1>p, <2>3, Zenon
  <2> QED
    BY <1>e, <2>1, <2>2, <2>3, <2>4, Zenon DEF Awaited
<1>7. Counted'
  <2>1. \A s : Pending(s)' = Pending(s)
    BY <1>e, <1>p, <1>w, Zenon DEF Pending
  <2> QED
    BY <1>e, <1>p, <2>1, CountedKept, Zenon
<1>8. StaleOK'
  <2> SUFFICES ASSUME NEW d \in Cpus, NEW p \in PageSet, Stale(d, p)'
               PROVE  (writer[space[d]] \in Cpus /\ Due(writer[space[d]], d, p))'
    BY Zenon DEF StaleOK
  <2>1. Stale(d, p) /\ d # c
    BY <1>e, <1>p, Zenon DEF Stale, Uses
  <2>2. space[d] \in Spaces
    BY <2>1, StaleSpace, Zenon
  <2> QED
    BY <1>e, <1>p, <1>l, <2>1, <2>2, StillDue, Zenon
<1>9. FreeOK'
  BY <1>e, <1>p, Zenon DEF FreeOK, Uses
<1> QED
  BY <1>1, <1>2, <1>3, <1>4, <1>5, <1>6, <1>7, <1>8, <1>9, Zenon DEF IInv

(* A CPU enters a space with no translation cached. *)
LEMMA EnterStep ==
  ASSUME IInv, NEW c \in Cpus, Enter(c)
  PROVE  IInv'
<1> USE TlbAssumption DEF IInv
<1>e. /\ pc[c] = "enter" /\ ~flushed[c] /\ (space[c] # None => writer[space[c]] = None)
      /\ UNCHANGED <<space, wants, flushed, writer, tlb_ack, pte, free, job>>
  BY Zenon DEF Enter, At
<1>p. /\ pc'[c] = "run" /\ root'[c] = space[c] /\ \A p \in PageSet : tlb'[c][p] = None
      /\ \A d \in Cpus \ {c} : pc'[d] = pc[d] /\ root'[d] = root[d] /\ tlb'[d] = tlb[d]
  BY DEF Enter, Goto, TypeOK, Empty
<1>u. \A s \in Spaces : used_by'[s] = IF s = space[c] THEN used_by[s] \cup {c} ELSE used_by[s]
  BY Zenon DEF Enter
<1>w. ~wants[c]
  BY <1>e, Zenon DEF Asked, Awaited, Uses
<1>l. \A z \in Spaces : writer[z] # c
  BY <1>e, NotWriter, Zenon DEF Locks
<1>1. TypeOK'
  <2>1. tlb' \in [Cpus -> Table]
    BY Zenon DEF TypeOK, Enter, Empty, Table
  <2>2. used_by' \in [Spaces -> SUBSET Cpus]
    BY DEF TypeOK, Enter
  <2>3. pc' \in [Cpus -> Places] /\ root' \in [Cpus -> Spaces \cup {None}] /\ next' \in [Cpus -> Spaces \cup {None}]
    BY Zenon DEF TypeOK, Enter, Goto, Places
  <2> QED
    BY <1>e, <2>1, <2>2, <2>3, Zenon DEF TypeOK
<1>2. UsedExact'
  <2>1. \A s \in Spaces, d \in Cpus : (d \in used_by[s] <=> Uses(d) /\ space[d] = s)'
    <3> SUFFICES ASSUME NEW s \in Spaces, NEW d \in Cpus
                 PROVE  d \in used_by'[s] <=> Uses(d)' /\ space'[d] = s
      BY Zenon
    <3>1. d \in used_by[s] <=> Uses(d) /\ space[d] = s
      BY Zenon DEF UsedExact
    <3>2. CASE d = c
      BY <1>e, <1>p, <1>u, <3>1, <3>2, Zenon DEF Uses
    <3>3. CASE d # c
      <4>1. d \in used_by'[s] <=> d \in used_by[s]
        BY <1>u, <3>3, Zenon
      <4>2. Uses(d)' <=> Uses(d)
        BY <1>p, <3>3, Zenon DEF Uses
      <4> QED
        BY <1>e, <3>1, <4>1, <4>2, Zenon
    <3> QED
      BY <3>2, <3>3, Zenon
  <2>2. \A d \in Cpus : (Uses(d) => root[d] = space[d])' /\ (pc[d] = "leave" => space[d] \in Spaces)'
    BY <1>e, <1>p, Zenon DEF UsedExact, Uses
  <2> QED
    BY <2>1, <2>2, Zenon DEF UsedExact
<1>3. OwnFrames'
  BY <1>e, <1>p DEF OwnFrames
<1>4. LockExact'
  <2>1. \A d \in Cpus : (Locks(d)' <=> Locks(d)) /\ (pc'[d] = "lock" => pc[d] = "lock")
    BY <1>e, <1>p, Zenon DEF Locks
  <2> QED
    BY <1>e, <2>1, Zenon DEF LockExact
<1>5. \A d \in Cpus : JobOK(d)'
  <2>1. \A d \in Cpus : Locks(d)' => Locks(d)
    BY <1>p, Zenon DEF Locks
  <2>2. \A d \in Cpus : Locks(d)' => job[d].targets \subseteq used_by'[job[d].space] \ {d}
    <3> SUFFICES ASSUME NEW d \in Cpus, Locks(d)'
                 PROVE  job[d].targets \subseteq used_by'[job[d].space] \ {d}
      BY Zenon
    <3>1. Locks(d) /\ job[d].space \in Spaces
      BY <2>1, Zenon DEF LockExact
    <3>2. used_by[job[d].space] \subseteq used_by'[job[d].space]
      BY <3>1, <1>u, Zenon
    <3> QED
      BY <3>1, <3>2, Zenon DEF JobOK
  <2> QED
    <3> SUFFICES ASSUME NEW d \in Cpus PROVE JobOK(d)'
      BY Zenon
    <3>1. JobOK(d) /\ job'[d] = job[d] /\ pte' = pte
      BY <1>e, Zenon
    <3>2. \A x \in {"work", "flush", "ask", "wait"} : pc[d] = x => pc'[d] = x
      BY <1>e, <1>p, Zenon
    <3> QED
      BY <2>2, <3>1, <3>2, SMTT(30), ZenonT(30) DEF JobOK
<1>6. Asked'
  <2> SUFFICES ASSUME NEW d \in Cpus, wants'[d] \/ flushed'[d]
               PROVE  Awaited(d)'
    BY Zenon DEF Asked
  <2>1. Awaited(d) /\ d # c
    BY <1>e, <1>w, Zenon DEF Asked
  <2> QED
    BY <1>e, <1>p, <1>l, <2>1, Zenon DEF Awaited, Uses
<1>7. Counted'
  BY <1>e, <1>p, CountedKept, PendingKept, Zenon
<1>8. StaleOK'
  <2> SUFFICES ASSUME NEW d \in Cpus, NEW p \in PageSet, Stale(d, p)'
               PROVE  (writer[space[d]] \in Cpus /\ Due(writer[space[d]], d, p))'
    BY Zenon DEF StaleOK
  <2>1. Stale(d, p) /\ d # c
    BY <1>e, <1>p DEF Stale, Uses
  <2>2. space[d] \in Spaces
    BY <2>1, StaleSpace, Zenon
  <2> QED
    BY <1>e, <1>p, <1>l, <2>1, <2>2, StillDue, Zenon
<1>9. FreeOK'
  BY <1>e, <1>p, Zenon DEF FreeOK, Uses
<1> QED
  BY <1>1, <1>2, <1>3, <1>4, <1>5, <1>6, <1>7, <1>8, <1>9, Zenon DEF IInv

(* A new operation has nothing queued. *)
LEMMA BeginStep ==
  ASSUME IInv, NEW c \in Cpus, NEW s \in Spaces, NEW kind \in {"unmap", "protect"}, Begin(c, s, kind)
  PROVE  IInv'
<1> USE TlbAssumption DEF IInv
<1>e. /\ pc[c] = "run" /\ ~flushed[c]
      /\ UNCHANGED <<space, next, root, used_by, tlb, wants, flushed, writer, tlb_ack, pte, free>>
  BY Zenon DEF Begin, At, cpuvars
<1>p. pc'[c] = "lock" /\ \A d \in Cpus \ {c} : pc'[d] = pc[d] /\ job'[d] = job[d]
  BY Zenon DEF Begin, Goto, Now, TypeOK
<1>j. /\ job'[c] \in JobSet /\ job'[c].space = s /\ job'[c].queue = {} /\ job'[c].held = {}
      /\ job'[c].taken = {} /\ job'[c].targets = {} /\ ~job'[c].last
  <2>1. job'[c] = [NoJob EXCEPT !.space = s, !.kind = kind, !.todo = PageSet]
    BY Zenon DEF Begin, Now, TypeOK
  <2>2. PICK r \in JobSet :
           /\ r = [NoJob EXCEPT !.space = s, !.kind = kind, !.todo = PageSet]
           /\ r.space = s /\ r.queue = {} /\ r.held = {} /\ r.taken = {} /\ r.targets = {} /\ ~r.last
    BY JobBegins
  <2>3. job'[c] = r
    BY <2>1, <2>2, Zenon
  <2> QED
    BY <2>2, <2>3, Zenon
<1>l. \A z \in Spaces : writer[z] # c
  BY <1>e, NotWriter, Zenon DEF Locks
<1>1. TypeOK'
  <2>1. job' \in [Cpus -> JobSet]
    BY <1>j, Zenon DEF TypeOK, Begin, Now
  <2> QED
    BY <1>e, <2>1, Zenon DEF TypeOK, Begin, Goto, Places
<1>2. UsedExact'
  BY <1>e, <1>p, UsedKept, Zenon DEF Uses
<1>3. OwnFrames'
  BY <1>e, Zenon DEF OwnFrames
<1>4. LockExact'
  <2>1. \A d \in Cpus \ {c} : (pc[d] = "lock" \/ Locks(d) => job[d].space \in Spaces)' /\ (Locks(d) => writer[job[d].space] = d)'
    BY <1>e, <1>p DEF LockExact, Locks
  <2>2. (pc[c] = "lock" \/ Locks(c) => job[c].space \in Spaces)' /\ (Locks(c) => writer[job[c].space] = c)'
    BY <1>p, <1>j, Zenon DEF Locks
  <2>3. \A z \in Spaces : (writer[z] # None =>
           writer[z] \in Cpus /\ Locks(writer[z]) /\ job[writer[z]].space = z)'
    <3> SUFFICES ASSUME NEW z \in Spaces, writer'[z] # None
                 PROVE  (writer[z] \in Cpus /\ Locks(writer[z]) /\ job[writer[z]].space = z)'
      BY Zenon
    <3>1. writer[z] \in Cpus \ {c} /\ Locks(writer[z]) /\ job[writer[z]].space = z /\ writer'[z] = writer[z]
      BY <1>e, <1>l, Zenon DEF LockExact
    <3> QED
      BY <1>p, <3>1, Zenon DEF Locks
  <2> QED
    BY <2>1, <2>2, <2>3, ZenonT(30) DEF LockExact
<1>5. \A d \in Cpus : JobOK(d)'
  <2>1. JobOK(c)'
    BY <1>p, <1>j, Zenon DEF JobOK, Locks
  <2>2. \A d \in Cpus \ {c} : JobOK(d)'
    BY <1>e, <1>p, JobKept, Zenon
  <2> QED
    BY <2>1, <2>2, Zenon
<1>6. Asked'
  <2> SUFFICES ASSUME NEW d \in Cpus, wants'[d] \/ flushed'[d]
               PROVE  Awaited(d)'
    BY Zenon DEF Asked
  <2>1. Awaited(d)
    BY <1>e, Zenon DEF Asked
  <2> QED
    BY <1>e, <1>p, <1>l, <2>1, Zenon DEF Awaited, Uses
<1>7. Counted'
  BY <1>e, <1>p, CountedKept, PendingKept, Zenon
<1>8. StaleOK'
  <2> SUFFICES ASSUME NEW d \in Cpus, NEW p \in PageSet, Stale(d, p)'
               PROVE  (writer[space[d]] \in Cpus /\ Due(writer[space[d]], d, p))'
    BY Zenon DEF StaleOK
  <2>1. Stale(d, p)
    BY <1>e, <1>p, Zenon DEF Stale, Uses
  <2>2. space[d] \in Spaces
    BY <2>1, StaleSpace, Zenon
  <2> QED
    BY <1>e, <1>p, <1>l, <2>1, <2>2, StillDue, Zenon
<1>9. FreeOK'
  BY <1>e, <1>p, Zenon DEF FreeOK, Uses
<1> QED
  BY <1>1, <1>2, <1>3, <1>4, <1>5, <1>6, <1>7, <1>8, <1>9, Zenon DEF IInv

(* The lock of a space is taken when no CPU has anything of it still to be flushed. *)
LEMMA AcquireWriteStep ==
  ASSUME IInv, NEW c \in Cpus, AcquireWrite(c)
  PROVE  IInv'
<1> USE TlbAssumption DEF IInv
<1>e. /\ pc[c] = "lock" /\ ~flushed[c] /\ writer[job[c].space] = None
      /\ UNCHANGED <<space, next, root, used_by, tlb, wants, flushed, tlb_ack, pte, free, job>>
  BY Zenon DEF AcquireWrite, At, cpuvars
<1>s. job[c].space \in Spaces
  BY <1>e, Zenon DEF LockExact
<1>p. /\ pc'[c] = "work" /\ \A d \in Cpus \ {c} : pc'[d] = pc[d]
      /\ writer'[job[c].space] = c /\ \A z \in Spaces \ {job[c].space} : writer'[z] = writer[z]
  BY <1>s DEF AcquireWrite, Goto, TypeOK
<1>l. \A z \in Spaces : writer[z] # c
  BY <1>e, NotWriter, Zenon DEF Locks
<1>1. TypeOK'
  BY <1>e, <1>s, Zenon DEF TypeOK, AcquireWrite, Goto, Places
<1>2. UsedExact'
  BY <1>e, <1>p, UsedKept, Zenon DEF Uses
<1>3. OwnFrames'
  BY <1>e, OwnKept, Zenon
<1>4. LockExact'
  <2>1. \A d \in Cpus \ {c} : (pc[d] = "lock" \/ Locks(d) => job[d].space \in Spaces)' /\ (Locks(d) => writer[job[d].space] = d)'
    BY <1>e, <1>p, <1>s DEF LockExact, Locks
  <2>2. (pc[c] = "lock" \/ Locks(c) => job[c].space \in Spaces)' /\ (Locks(c) => writer[job[c].space] = c)'
    BY <1>e, <1>p, <1>s, Zenon
  <2>3. \A z \in Spaces : (writer[z] # None =>
           writer[z] \in Cpus /\ Locks(writer[z]) /\ job[writer[z]].space = z)'
    <3>2. \A z \in Spaces \ {job[c].space} : (writer[z] # None =>
             writer[z] \in Cpus /\ Locks(writer[z]) /\ job[writer[z]].space = z)'
      <4> SUFFICES ASSUME NEW z \in Spaces \ {job[c].space}, writer'[z] # None
                   PROVE  (writer[z] \in Cpus /\ Locks(writer[z]) /\ job[writer[z]].space = z)'
        BY Zenon
      <4>1. writer'[z] = writer[z] /\ writer[z] \in Cpus \ {c} /\ Locks(writer[z]) /\ job[writer[z]].space = z
        BY <1>p, <1>l, Zenon DEF LockExact
      <4> QED
        BY <1>e, <1>p, <4>1 DEF Locks
    <3>3. writer'[job[c].space] = c /\ Locks(c)' /\ job'[c] = job[c]
      BY <1>e, <1>p, Zenon DEF Locks
    <3>4. \A z \in Spaces : z = job[c].space => (writer[z] # None =>
             writer[z] \in Cpus /\ Locks(writer[z]) /\ job[writer[z]].space = z)'
      BY <3>3, Zenon
    <3> QED
      BY <3>2, <3>4, Zenon
  <2> QED
    BY <2>1, <2>2, <2>3 DEF LockExact
<1>5. \A d \in Cpus : JobOK(d)'
  <2>1. JobOK(c)'
    BY <1>e, <1>p, Zenon DEF JobOK
  <2>2. \A d \in Cpus \ {c} : JobOK(d)'
    BY <1>e, <1>p, JobKept, Zenon
  <2> QED
    BY <2>1, <2>2, Zenon
<1>6. Asked'
  <2> SUFFICES ASSUME NEW d \in Cpus, wants'[d] \/ flushed'[d]
               PROVE  Awaited(d)'
    BY Zenon DEF Asked
  <2>1. Awaited(d)
    BY <1>e, Zenon DEF Asked
  <2>2. writer'[space[d]] = writer[space[d]] /\ writer[space[d]] # c
    BY <1>e, <1>p, <1>l, <2>1, Zenon DEF Awaited
  <2>3. Uses(d)'
    BY <1>e, <1>p, <2>1, Zenon DEF Awaited, Uses
  <2> QED
    BY <1>e, <1>p, <2>1, <2>2, <2>3, ZenonT(30) DEF Awaited
<1>7. Counted'
  BY <1>e, <1>p, CountedKept, PendingKept, Zenon
<1>8. StaleOK'
  <2> SUFFICES ASSUME NEW d \in Cpus, NEW p \in PageSet, Stale(d, p)'
               PROVE  (writer[space[d]] \in Cpus /\ Due(writer[space[d]], d, p))'
    BY Zenon DEF StaleOK
  <2>1. Stale(d, p)
    BY <1>e, <1>p, Zenon DEF Stale, Uses
  <2>2. space[d] \in Spaces /\ space[d] # job[c].space
    BY <1>e, <2>1, StaleSpace, Zenon DEF StaleOK
  <2> QED
    BY <1>e, <1>p, <1>l, <2>1, <2>2, StillDue
<1>9. FreeOK'
  BY <1>e, <1>p, Zenon DEF FreeOK, Uses
<1> QED
  BY <1>1, <1>2, <1>3, <1>4, <1>5, <1>6, <1>7, <1>8, <1>9, Zenon DEF IInv

(* A page that changes is queued in the same step, with its frame if that is to be freed. *)
LEMMA ChangePageStep ==
  ASSUME IInv, NEW c \in Cpus, ChangePage(c)
  PROVE  IInv'
<1> USE TlbAssumption DEF IInv
<1>a. pc[c] = "work" /\ ~flushed[c] /\ job[c].todo # {}
  BY Zenon DEF ChangePage, At
<1>j. PICK j \in JobSet : j = job[c]
  BY Zenon DEF TypeOK
<1>s. PICK s \in Spaces : s = j.space /\ writer[s] = c
  BY <1>a, <1>j, HasLock, Zenon DEF Locks
<1>q. PICK q \in PageSet : q = Min(j.todo)
  <2>1. j.todo \in SUBSET PageSet
    BY JobFields, Zenon
  <2>2. j.todo \in SUBSET Nat
    BY <2>1 DEF PageSet
  <2> QED
    BY <1>a, <1>j, <2>1, <2>2, MinOf, Zenon
<1>t. PICK e \in EntrySet \cup {None} : e = pte[s][q]
  BY DEF TypeOK, Table
<1>n. PICK e2 \in EntrySet \cup {None} :
         /\ e2 = NewEntry(j.kind, s, q)
         /\ e2 # None => e # None /\ e2.frame = <<s, q>>
         /\ j.kind = "unmap" => e2 = None
  <2>1. Entry(s, q, FALSE) \in EntrySet /\ Entry(s, q, FALSE).frame = <<s, q>>
    BY Zenon DEF Entry, EntrySet, FrameSet
  <2> QED
    BY <1>t, <2>1, Zenon DEF NewEntry
<1>o. e # None => e.frame = <<s, q>>
  BY <1>t, Zenon DEF OwnFrames
<1>f. PICK f \in FrameSet \cup {None} :
         /\ e # None => f = IF j.kind = "unmap" THEN e.frame ELSE None
         /\ f # None => f = <<s, q>> /\ e2 = None
  <2>1. <<s, q>> \in FrameSet
    BY Zenon DEF FrameSet
  <2> QED
    BY <1>n, <1>o, <2>1, Zenon
<1>r. PICK rest \in JobSet :
         /\ rest = [j EXCEPT !.todo = @ \ {q}]
         /\ rest.space = s /\ rest.queue = j.queue /\ rest.held = j.held
         /\ rest.taken = j.taken /\ rest.targets = j.targets /\ rest.last = j.last
  BY <1>s, JobWorks
<1>u. PICK queued \in JobSet :
         /\ queued = Queue(rest, {<<q, f>>})
         /\ queued.space = s /\ queued.taken = j.taken /\ queued.targets = j.targets
         /\ queued.last = j.last
         /\ \/ queued.queue = j.queue /\ queued.held = {<<q, f>>}
            \/ queued.queue = j.queue \cup {<<q, f>>} /\ queued.held = j.held
  <2>1. {<<q, f>>} \in QueueSet
    BY DEF QueueSet
  <2> QED
    <3>1. \E r \in JobSet :
             /\ r = Queue(rest, {<<q, f>>})
             /\ r.space = rest.space
             /\ r.taken = rest.taken /\ r.targets = rest.targets /\ r.asked = rest.asked /\ r.last = rest.last
             /\ \/ r.queue = rest.queue /\ r.held = {<<q, f>>}
                \/ r.queue = rest.queue \cup {<<q, f>>} /\ r.held = rest.held
      BY <2>1, JobQueues, Zenon
    <3>2. PICK r \in JobSet :
             /\ r = Queue(rest, {<<q, f>>})
             /\ r.space = rest.space
             /\ r.taken = rest.taken /\ r.targets = rest.targets /\ r.asked = rest.asked /\ r.last = rest.last
             /\ \/ r.queue = rest.queue /\ r.held = {<<q, f>>}
                \/ r.queue = rest.queue \cup {<<q, f>>} /\ r.held = rest.held
      BY <3>1, Zenon
    <3> WITNESS r \in JobSet
    <3> QED
      BY <1>r, <3>2, Zenon
<1>e. /\ UNCHANGED <<space, next, root, used_by, tlb, wants, flushed, writer, tlb_ack, free>>
      /\ pte' = [pte EXCEPT ![s][q] = e2]
      /\ \/ e = e2 /\ job' = [job EXCEPT ![c] = rest] /\ pc' = pc
         \/ /\ e # e2 /\ job' = [job EXCEPT ![c] = queued]
            /\ pc' = [pc EXCEPT ![c] = IF queued.held = {} THEN "work" ELSE "flush"]
  <2>1. /\ UNCHANGED <<space, next, root, used_by, tlb, wants, flushed, writer, tlb_ack, free>>
        /\ pte' = [pte EXCEPT ![s][q] = e2]
    BY <1>j, <1>s, <1>q, <1>n, Zenon DEF ChangePage, cpuvars
  <2>2. CASE e = e2
    <3>1. NewEntry(job[c].kind, job[c].space, Min(job[c].todo)) = e2 /\ pte[job[c].space][Min(job[c].todo)] = e
      BY <1>j, <1>s, <1>q, <1>t, <1>n, Zenon
    <3>2. rest = [job[c] EXCEPT !.todo = @ \ {Min(job[c].todo)}]
      BY <1>j, <1>q, <1>r, Zenon
    <3> QED
      BY <2>1, <2>2, <3>1, <3>2, Zenon DEF ChangePage, Now
  <2>3. CASE e # e2
    <3>1. f = IF j.kind = "unmap" THEN e.frame ELSE None
      BY <1>n, <1>f, <2>3, Zenon
    <3> QED
      <4>1. NewEntry(job[c].kind, job[c].space, Min(job[c].todo)) = e2 /\ pte[job[c].space][Min(job[c].todo)] = e
        BY <1>j, <1>s, <1>q, <1>t, <1>n, Zenon
      <4>2. queued = Queue([job[c] EXCEPT !.todo = @ \ {Min(job[c].todo)}],
                           {<<Min(job[c].todo), IF job[c].kind = "unmap" THEN e.frame ELSE None>>})
        BY <1>j, <1>q, <1>r, <1>u, <3>1, Zenon
      <4> QED
        BY <2>1, <2>3, <4>1, <4>2, Zenon DEF ChangePage, Now, Goto
  <2> QED
    BY <2>2, <2>3, Zenon
<1>h. j.held = {} /\ j.taken = {} /\ j.targets = {}
  BY <1>a, <1>j, Zenon DEF JobOK
<1>p. /\ pte'[s][q] = e2
      /\ \A p \in PageSet : p # q => pte'[s][p] = pte[s][p]
      /\ \A z \in Spaces : z # s => pte'[z] = pte[z]
  <2>1. pte \in [Spaces -> Table] /\ pte[s] \in [PageSet -> EntrySet \cup {None}]
    BY Zenon DEF TypeOK, Table
  <2> QED
    BY <1>e, <2>1, Zenon
<1>y. pte' \in [Spaces -> Table]
  BY <1>e, <1>n, <1>q, <1>s, Zenon DEF TypeOK, Table
<1>d. \A d \in Cpus \ {c} : pc'[d] = pc[d] /\ job'[d] = job[d]
  BY <1>e DEF TypeOK
<1>k. /\ job'[c] \in JobSet /\ job'[c].space = s /\ job'[c].taken = {} /\ job'[c].targets = {}
      /\ job'[c].last = j.last
      /\ \/ e = e2 /\ job'[c].queue = j.queue /\ job'[c].held = {} /\ pc'[c] = "work"
         \/ e # e2 /\ job'[c].queue = j.queue /\ job'[c].held = {<<q, f>>} /\ pc'[c] = "flush"
         \/ e # e2 /\ job'[c].queue = j.queue \cup {<<q, f>>} /\ job'[c].held = {} /\ pc'[c] = "work"
  <2>1. CASE e = e2
    <3>1. job'[c] = rest /\ pc'[c] = "work"
      BY <1>a, <1>e, <2>1, Zenon DEF TypeOK
    <3> QED
      BY <2>1, <3>1, <1>r, <1>h, Zenon
  <2>2. CASE e # e2
    <3>1. job'[c] = queued /\ pc'[c] = IF queued.held = {} THEN "work" ELSE "flush"
      BY <1>e, <2>2, Zenon DEF TypeOK
    <3> QED
      BY <2>2, <3>1, <1>u, <1>h, Zenon
  <2> QED
    BY <2>1, <2>2, Zenon
<1>m. pc'[c] \in {"work", "flush"}
  BY <1>k, Zenon
<1>l. \A z \in Spaces : z # s => writer[z] # c
  BY <1>j, <1>s, OtherWriter, Zenon
<1>x. job' \in [Cpus -> JobSet] /\ pc' \in [Cpus -> Places]
  <2>1. job' \in [Cpus -> JobSet]
    BY <1>e, <1>d, <1>k, Zenon DEF TypeOK
  <2>2. pc' \in [Cpus -> Places]
    BY <1>e, Zenon DEF TypeOK, Places
  <2> QED
    BY <2>1, <2>2, Zenon
<1>z. \A z \in Spaces, p \in PageSet : pte[z][p] = None => pte'[z][p] = None
  BY <1>p, <1>n, <1>t, Zenon
<1>1. TypeOK'
  BY <1>e, <1>x, <1>y, Zenon DEF TypeOK
<1>2. UsedExact'
  BY <1>a, <1>e, <1>d, <1>m, UsedKept, Zenon DEF Uses
<1>3. OwnFrames'
  <2>1. \A z \in Spaces, p \in PageSet : pte'[z][p] # None => pte'[z][p].frame = <<z, p>>
    BY <1>p, <1>n DEF OwnFrames
  <2> QED
    BY <1>e, <1>z, <2>1 DEF OwnFrames
<1>4. LockExact'
  <2>1. \A d \in Cpus \ {c} : (pc[d] = "lock" \/ Locks(d) => job[d].space \in Spaces)' /\ (Locks(d) => writer[job[d].space] = d)'
    BY <1>e, <1>d, Zenon DEF LockExact, Locks
  <2>2. job'[c].space \in Spaces /\ writer'[job'[c].space] = c
    BY <1>e, <1>k, <1>s, Zenon
  <2>3. \A z \in Spaces : (writer[z] # None =>
           writer[z] \in Cpus /\ Locks(writer[z]) /\ job[writer[z]].space = z)'
    <3> SUFFICES ASSUME NEW z \in Spaces, writer'[z] # None
                 PROVE  (writer[z] \in Cpus /\ Locks(writer[z]) /\ job[writer[z]].space = z)'
      BY Zenon
    <3>1. writer'[z] = writer[z] /\ writer[z] \in Cpus /\ Locks(writer[z]) /\ job[writer[z]].space = z
      BY <1>e, Zenon DEF LockExact
    <3>2. CASE writer[z] = c
      BY <1>j, <1>s, <1>k, <1>m, <3>1, <3>2, Zenon DEF Locks
    <3>3. CASE writer[z] # c
      BY <1>d, <3>1, <3>3, Zenon DEF Locks
    <3> QED
      BY <3>2, <3>3, Zenon
  <2> QED
    BY <2>1, <2>2, <2>3, ZenonT(30) DEF LockExact
<1>5. \A d \in Cpus : JobOK(d)'
  <2>1. JobOK(c)'
    <3>1. \A t \in j.queue : t[2] # None => t[2] = <<s, t[1]>> /\ pte[s][t[1]] = None
      BY <1>j, <1>s, Zenon DEF JobOK
    <3>2. \A t \in j.queue : t[1] \in PageSet
      BY JobFields DEF QueueSet
    <3>3. ~job'[c].last
      BY <1>a, <1>j, <1>k, Zenon DEF JobOK
    <3>4. \A t \in job'[c].queue \cup job'[c].held \cup job'[c].taken :
             t[2] # None => t[2] = <<s, t[1]>> /\ pte'[s][t[1]] = None
      <4> SUFFICES ASSUME NEW t \in job'[c].queue \cup job'[c].held \cup job'[c].taken, t[2] # None
                   PROVE  t[2] = <<s, t[1]>> /\ pte'[s][t[1]] = None
        BY Zenon
      <4>1. t \in j.queue \/ t = <<q, f>>
        BY <1>k, Zenon
      <4>2. CASE t \in j.queue
        BY <1>z, <3>1, <3>2, <4>2, Zenon
      <4>3. CASE t = <<q, f>>
        <5>1. t[1] = q /\ t[2] = f
          BY <4>3, Zenon
        <5> QED
          BY <1>f, <1>p, <5>1, Zenon
      <4> QED
        BY <4>1, <4>2, <4>3, Zenon
    <3>5. \A t \in job'[c].queue \cup job'[c].taken, h \in job'[c].held : t[2] # None => h[1] # t[1]
      <4> SUFFICES ASSUME NEW t \in job'[c].queue, NEW h \in job'[c].held, t[2] # None
                   PROVE  h[1] # t[1]
        BY <1>k, Zenon
      <4>1. e # e2 /\ t \in j.queue /\ h = <<q, f>>
        BY <1>k, Zenon
      <4>2. h[1] = q
        BY <4>1, Zenon
      <4>3. e # None
        BY <1>n, <4>1, Zenon
      <4>4. pte[s][t[1]] = None
        BY <3>1, <4>1, Zenon
      <4> QED
        BY <1>t, <4>2, <4>3, <4>4, Zenon
    <3> QED
      BY <1>k, <1>m, <3>3, <3>4, <3>5, Zenon DEF JobOK
  <2>2. \A d \in Cpus \ {c} : JobOK(d)'
    <3> SUFFICES ASSUME NEW d \in Cpus \ {c} PROVE JobOK(d)'
      BY Zenon
    <3>1. \A t \in job[d].queue \cup job[d].held \cup job[d].taken :
             t[2] # None => t[2] = <<job[d].space, t[1]>> /\ pte'[job[d].space][t[1]] = None
      <4> SUFFICES ASSUME NEW t \in job[d].queue \cup job[d].held \cup job[d].taken, t[2] # None
                   PROVE  t[2] = <<job[d].space, t[1]>> /\ pte'[job[d].space][t[1]] = None
        BY Zenon
      <4>1. t[2] = <<job[d].space, t[1]>> /\ pte[job[d].space][t[1]] = None /\ Locks(d)
        BY Zenon DEF JobOK, Locks
      <4>2. job[d].space \in Spaces
        BY <4>1, Zenon DEF LockExact
      <4>3. job[d] \in JobSet
        BY Zenon DEF TypeOK
      <4>4. t[1] \in PageSet
        BY <4>3, JobFields DEF QueueSet
      <4> QED
        BY <4>1, <4>2, <4>4, <1>z, Zenon
    <3>2. JobOK(d) /\ job'[d] = job[d] /\ pc'[d] = pc[d] /\ used_by' = used_by
      BY <1>e, <1>d, Zenon
    <3> QED
      BY <3>1, <3>2, JobMoved, Zenon
  <2> QED
    BY <2>1, <2>2, Zenon
<1>6. Asked'
  <2> SUFFICES ASSUME NEW d \in Cpus, wants'[d] \/ flushed'[d]
               PROVE  Awaited(d)'
    BY Zenon DEF Asked
  <2>1. Awaited(d)
    BY <1>e, Zenon DEF Asked
  <2>2. writer'[space[d]] = writer[space[d]] /\ writer[space[d]] # c
    BY <1>a, <1>e, <2>1, Zenon DEF Awaited
  <2>3. Uses(d)'
    BY <1>a, <1>e, <1>d, <1>m, <2>1, Zenon DEF Awaited, Uses
  <2> QED
    BY <1>e, <1>d, <2>1, <2>2, <2>3, Zenon DEF Awaited
<1>7. Counted'
  BY <1>a, <1>e, <1>d, <1>m, CountedKept, PendingKept, Zenon
<1>8. StaleOK'
  <2> SUFFICES ASSUME NEW d \in Cpus, NEW p \in PageSet, Stale(d, p)'
               PROVE  (writer[space[d]] \in Cpus /\ Due(writer[space[d]], d, p))'
    BY Zenon DEF StaleOK
  <2>1. Uses(d) /\ tlb[d][p] # None /\ tlb[d][p] # pte'[space[d]][p]
    BY <1>a, <1>e, <1>d, <1>m, Zenon DEF Stale, Uses
  <2>2. space[d] \in Spaces
    BY <2>1, Zenon DEF UsedExact, OwnFrames
  <2>3. space'[d] = space[d] /\ writer' = writer /\ wants' = wants
    BY <1>e, Zenon
  <2>4. CASE space[d] # s
    <3>1. Stale(d, p) /\ writer[space[d]] # c
      BY <1>p, <1>l, <2>1, <2>2, <2>4, Zenon DEF Stale
    <3> QED
      BY <1>d, <2>3, <3>1, StillDue, Zenon
  <2>5. CASE space[d] = s
    <3>1. CASE p = q /\ e # e2
      <4>1. q \in Pages(job'[c].queue) \cup Pages(job'[c].held)
        <5>1. <<q, f>> \in job'[c].queue \cup job'[c].held
          BY <1>k, <3>1, Zenon
        <5>2. <<q, f>>[1] = q
          BY Zenon
        <5> QED
          BY <5>1, <5>2, Zenon DEF Pages
      <4> QED
        BY <1>s, <2>3, <2>5, <3>1, <4>1, Zenon DEF Due
    <3>2. CASE ~(p = q /\ e # e2)
      <4>1. Stale(d, p)
        BY <1>p, <1>t, <2>1, <2>5, <3>2, Zenon DEF Stale
      <4>2. Due(c, d, p)
        BY <1>s, <2>5, <4>1, Zenon DEF StaleOK
      <4>3. p \in Pages(j.queue) \/ wants[d]
        BY <1>a, <1>j, <1>h, <4>2, Zenon DEF Due, Pages
      <4>4. Pages(j.queue) \subseteq Pages(job'[c].queue)
        BY <1>k, Zenon DEF Pages
      <4> QED
        BY <1>s, <2>3, <2>5, <4>3, <4>4, Zenon DEF Due
    <3> QED
      BY <3>1, <3>2, Zenon
  <2> QED
    BY <2>4, <2>5, Zenon
<1>9. FreeOK'
  BY <1>a, <1>e, <1>d, <1>m, Zenon DEF FreeOK, Uses
<1> QED
  BY <1>1, <1>2, <1>3, <1>4, <1>5, <1>6, <1>7, <1>8, <1>9, Zenon DEF IInv

(* An operation may unlock a space and free frames of it when nobody owes an answer, no *)
(* translation of the space is stale, and the frames are in no table.                   *)
LEMMA UnlockStep ==
  ASSUME IInv, NEW c \in Cpus, NEW s \in Spaces, Locks(c), s = job[c].space, writer[s] = c,
         UNCHANGED <<space, next, root, used_by, tlb, wants, flushed, tlb_ack, pte>>,
         writer' = [writer EXCEPT ![s] = None], job' = [job EXCEPT ![c] = NoJob],
         pc' = [pc EXCEPT ![c] = "run"],
         Quiet(s), Frees(s)
  PROVE  IInv'
<1> USE TlbAssumption DEF IInv, Quiet, Frees
<1>p. /\ pc'[c] = "run" /\ job'[c] = NoJob /\ writer'[s] = None
      /\ \A d \in Cpus \ {c} : pc'[d] = pc[d] /\ job'[d] = job[d]
      /\ \A z \in Spaces \ {s} : writer'[z] = writer[z]
  BY DEF TypeOK
<1>l. \A z \in Spaces : z # s => writer[z] # c
  <2>1. c # None
    BY Zenon DEF TlbAssumption
  <2> QED
    BY <2>1, Zenon DEF LockExact
<1>1. TypeOK'
  BY NoJobFields, Zenon DEF TypeOK, Places
<1>2. UsedExact'
  <2>1. \A d \in Cpus : (Uses(d)' <=> Uses(d)) /\ (pc'[d] = "leave" => pc[d] = "leave")
    BY <1>p, Zenon DEF Uses, Locks
  <2> QED
    BY <2>1, Zenon DEF UsedExact
<1>3. OwnFrames'
  BY SMTT(30), ZenonT(30) DEF OwnFrames
<1>4. LockExact'
  <2>1. \A d \in Cpus \ {c} : Locks(d) => job[d].space # s
    BY Zenon DEF LockExact
  <2>2. LockExact /\ (\A z \in Spaces : z # s => writer[z] # c) /\ s \in Spaces
    BY <1>l, Zenon
  <2> HIDE DEF IInv, Quiet, Frees
  <2>3. \A d \in Cpus : (pc'[d] = "lock" \/ Locks(d)') =>
           d # c /\ job'[d] = job[d] /\ (pc[d] = "lock" \/ Locks(d)) /\ (Locks(d)' => Locks(d))
    BY <1>p, Zenon DEF Locks
  <2>4. \A d \in Cpus : pc'[d] = "lock" \/ Locks(d)' => job'[d].space \in Spaces
    BY <2>2, <2>3, Zenon DEF LockExact
  <2>5. \A d \in Cpus : Locks(d)' => writer'[job'[d].space] = d
    BY <1>p, <2>1, <2>2, <2>3, SMTT(30), ZenonT(30) DEF LockExact
  <2>6. ASSUME NEW z \in Spaces, writer'[z] # None
        PROVE  writer'[z] \in Cpus /\ Locks(writer[z])' /\ job'[writer[z]].space = z /\ writer'[z] = writer[z]
    <3>1. z # s /\ writer'[z] = writer[z] /\ writer[z] # c
      BY <1>p, <2>2, <2>6, Zenon
    <3>2. writer[z] \in Cpus \ {c} /\ Locks(writer[z]) /\ job[writer[z]].space = z
      BY <2>2, <2>6, <3>1, Zenon DEF LockExact
    <3> QED
      BY <1>p, <3>1, <3>2 DEF Locks
  <2>7. \A z \in Spaces : (writer[z] # None =>
           writer[z] \in Cpus /\ Locks(writer[z]) /\ job[writer[z]].space = z)'
    BY <2>6, Zenon DEF Locks
  <2> QED
    BY <2>4, <2>5, <2>7, ZenonT(30) DEF LockExact
<1>5. \A d \in Cpus : JobOK(d)'
  <2>1. JobOK(c)'
    BY <1>p, NoJobFields, Zenon DEF JobOK, Locks
  <2>2. \A d \in Cpus \ {c} : JobOK(d)'
    BY <1>p, JobKept, Zenon
  <2> QED
    BY <2>1, <2>2, Zenon
<1>6. Asked'
  <2> SUFFICES ASSUME NEW d \in Cpus, wants'[d] \/ flushed'[d]
               PROVE  Awaited(d)'
    BY Zenon DEF Asked
  <2>1. Awaited(d)
    BY Zenon DEF Asked
  <2>2. writer'[space[d]] = writer[space[d]] /\ writer[space[d]] # c
    BY <1>p, <1>l, <2>1, Zenon DEF Awaited
  <2>3. Uses(d)'
    BY <1>p, <2>1, Zenon DEF Awaited, Uses
  <2>4. space' = space /\ wants' = wants /\ flushed' = flushed
    BY Zenon
  <2> HIDE DEF IInv, Quiet, Frees
  <2> QED
    BY <1>p, <2>1, <2>2, <2>3, <2>4, SMTT(30), ZenonT(30) DEF Awaited
<1>7. Counted'
  <2>1. \A z : Pending(z)' = Pending(z)
    BY Zenon DEF Pending
  <2> QED
    BY <1>p, <2>1, CountedKept, Zenon
<1>8. StaleOK'
  <2> SUFFICES ASSUME NEW d \in Cpus, NEW p \in PageSet, Stale(d, p)'
               PROVE  (writer[space[d]] \in Cpus /\ Due(writer[space[d]], d, p))'
    BY Zenon DEF StaleOK
  <2>1. Stale(d, p)
    BY <1>p, Zenon DEF Stale, Uses, Locks
  <2>2. space[d] \in Spaces
    BY <2>1, StaleSpace, Zenon
  <2>3. space[d] # s
    <3>1. \A e \in Cpus, q \in PageSet :
             Uses(e) /\ space[e] = s /\ tlb[e][q] # None => tlb[e][q] = pte[s][q]
      BY Zenon
    <3> HIDE DEF IInv, Quiet, Frees
    <3> QED
      BY <2>1, <3>1 DEF Stale
  <2> QED
    <3>1. writer'[space[d]] = writer[space[d]] /\ writer[space[d]] # c
      BY <1>p, <1>l, <2>2, <2>3, Zenon
    <3>2. \A w \in Cpus : w = writer[space[d]] => pc'[w] = pc[w] /\ job'[w] = job[w]
      BY <1>p, <3>1, Zenon
    <3>3. StaleOK /\ space'[d] = space[d] /\ wants'[d] = wants[d]
      BY Zenon
    <3> HIDE DEF IInv, Quiet, Frees
    <3> QED
      BY <2>1, <3>1, <3>2, <3>3, StillDue, Zenon
<1>9. FreeOK'
  <2> SUFFICES ASSUME NEW d \in Cpus, NEW p \in PageSet, Uses(d)', tlb'[d][p] # None, <<space'[d], p>> \in free'
               PROVE  FALSE
    BY Zenon DEF FreeOK
  <2>1. Uses(d) /\ tlb[d][p] # None
    BY <1>p, Zenon DEF Uses, Locks
  <2>2. space[d] \in Spaces
    BY <2>1, Zenon DEF UsedExact, OwnFrames
  <2>3. <<space[d], p>> \notin free
    BY <2>1, Zenon DEF FreeOK
  <2> QED
    BY <2>1, <2>2, <2>3, Zenon
<1> QED
  BY <1>1, <1>2, <1>3, <1>4, <1>5, <1>6, <1>7, <1>8, <1>9, Zenon DEF IInv

(* An operation that changed nothing unlocks without a flush. *)
LEMMA NothingToFlushStep ==
  ASSUME IInv, NEW c \in Cpus, NothingToFlush(c)
  PROVE  IInv'
<1> USE TlbAssumption DEF IInv
<1>a. pc[c] = "work"
  BY Zenon DEF NothingToFlush, Dropped
<1>s. PICK s \in Spaces : s = job[c].space /\ writer[s] = c
  BY <1>a, HasLock, Zenon DEF Locks
<1>e. /\ Locks(c) /\ job[c].queue = {}
      /\ UNCHANGED <<space, next, root, used_by, tlb, wants, flushed, tlb_ack, pte, free>>
      /\ writer' = [writer EXCEPT ![s] = None] /\ job' = [job EXCEPT ![c] = NoJob]
      /\ pc' = [pc EXCEPT ![c] = "run"]
  BY <1>a, <1>s, Zenon DEF NothingToFlush, cpuvars, Unlocked, Now, Goto, Locks
<1>n. Quiet(s)
  <2>1. \A d \in Cpus : space[d] = s => ~wants[d] /\ ~flushed[d]
    BY <1>a, <1>s, Zenon DEF Asked, Awaited
  <2>2. job[c].held = {}
    BY <1>a, Zenon DEF JobOK
  <2>3. Pages(job[c].queue) \cup Pages(job[c].held) = {}
    BY <1>e, <2>2, Zenon DEF Pages
  <2> QED
    BY <1>a, <1>s, <2>1, <2>3, Zenon DEF StaleOK, Stale, Due, Quiet
<1>g. Frees(s)
  BY <1>e, Zenon DEF TypeOK, Frees
<1>u. UNCHANGED <<space, next, root, used_by, tlb, wants, flushed, tlb_ack, pte>>
  BY <1>e, Zenon
<1> QED
  BY <1>e, <1>s, <1>n, <1>g, <1>u, UnlockStep, Zenon

(* shootdown_tlb_ipi is about to ask all the CPUs that use the space. *)
LEMMA StartFlushStep ==
  ASSUME IInv, NEW c \in Cpus, StartFlush(c)
  PROVE  IInv'
<1> USE TlbAssumption DEF IInv
<1>a. pc[c] \in {"work", "flush"} /\ ~flushed[c] /\ (Dropped(c) => pc[c] = "work")
  BY Zenon DEF StartFlush, Dropped
<1>j. PICK j \in JobSet : j = job[c]
  BY Zenon DEF TypeOK
<1>s. PICK s \in Spaces : s = j.space /\ writer[s] = c
  BY <1>a, <1>j, HasLock, Zenon DEF Locks
<1>b. PICK b \in BOOLEAN : b = Dropped(c)
  BY Zenon DEF Dropped
<1>y. PICK y \in BOOLEAN : y = (j.queue # {})
  BY Zenon
<1>t. PICK t \in SUBSET Cpus : t = used_by[s] \ {c}
  BY Zenon DEF TypeOK
<1>r. PICK r \in JobSet :
         /\ r = [j EXCEPT !.taken = j.queue, !.queue = {}, !.dirty = y,
                          !.targets = t, !.asked = 0, !.missed = {}, !.last = b]
         /\ r.space = j.space /\ r.queue = {} /\ r.held = j.held /\ r.taken = j.queue
         /\ r.targets = t /\ r.asked = 0 /\ r.missed = {} /\ r.last = b
  <2> DEFINE n == [j EXCEPT !.taken = j.queue, !.queue = {}, !.dirty = y,
                            !.targets = t, !.asked = 0, !.missed = {}, !.last = b]
  <2>1. /\ n \in JobSet
        /\ n.space = j.space /\ n.queue = {} /\ n.held = j.held /\ n.taken = j.queue
        /\ n.targets = t /\ n.asked = 0 /\ n.missed = {} /\ n.last = b
    BY ZenonT(30) DEF JobSet, QueueSet
  <2>2. n = [j EXCEPT !.taken = j.queue, !.queue = {}, !.dirty = y,
                      !.targets = t, !.asked = 0, !.missed = {}, !.last = b]
    BY Zenon
  <2> HIDE DEF n
  <2> QED
    BY <2>1, <2>2, Zenon
<1>e. /\ UNCHANGED <<space, next, root, used_by, tlb, wants, flushed, writer, pte, free>>
      /\ tlb_ack' = [tlb_ack EXCEPT ![s] = 0]
      /\ job' = [job EXCEPT ![c] = r] /\ pc' = [pc EXCEPT ![c] = "ask"]
  BY <1>j, <1>s, <1>b, <1>y, <1>t, <1>r, Zenon DEF StartFlush, cpuvars, Now, Goto
<1>p. /\ pc'[c] = "ask" /\ job'[c] = r
      /\ \A d \in Cpus \ {c} : pc'[d] = pc[d] /\ job'[d] = job[d]
      /\ tlb_ack'[s] = 0 /\ \A z \in Spaces \ {s} : tlb_ack'[z] = tlb_ack[z]
  BY <1>e, <1>s DEF TypeOK
<1>h. j.taken = {} /\ (b => j.held = {})
  BY <1>a, <1>b, <1>j, Zenon DEF JobOK
<1>l. \A z \in Spaces : z # s => writer[z] # c
  BY <1>j, <1>s, OtherWriter, Zenon
<1>n. \A d \in Cpus : wants[d] \/ flushed[d] => space[d] # s
  BY <1>a, <1>s, Zenon DEF Asked, Awaited
<1>1. TypeOK'
  <2>1. job' \in [Cpus -> JobSet]
    BY <1>e, <1>r, Zenon DEF TypeOK
  <2> QED
    BY <1>e, <1>s, <2>1, Zenon DEF TypeOK, Places
<1>2. UsedExact'
  <2>1. \A d \in Cpus : ((Uses(d)' <=> Uses(d)) /\ pc'[d] # "leave") \/ pc'[d] = pc[d]
    BY <1>a, <1>p, Zenon DEF Uses
  <2>2. \A d \in Cpus : Uses(d)' <=> Uses(d)
    BY <2>1, Zenon DEF Uses
  <2> QED
    BY <1>e, <2>1, <2>2, Zenon DEF UsedExact
<1>3. OwnFrames'
  BY <1>e, Zenon DEF OwnFrames
<1>4. LockExact'
  <2>1. \A d \in Cpus \ {c} : (pc[d] = "lock" \/ Locks(d) => job[d].space \in Spaces)' /\ (Locks(d) => writer[job[d].space] = d)'
    BY <1>e, <1>p DEF LockExact, Locks
  <2>2. job'[c].space = s /\ writer'[s] = c /\ Locks(c)'
    BY <1>e, <1>p, <1>r, <1>s, Zenon DEF Locks
  <2>3. \A z \in Spaces \ {s} : (writer[z] # None =>
           writer[z] \in Cpus /\ Locks(writer[z]) /\ job[writer[z]].space = z)'
    <3> SUFFICES ASSUME NEW z \in Spaces \ {s}, writer'[z] # None
                 PROVE  (writer[z] \in Cpus /\ Locks(writer[z]) /\ job[writer[z]].space = z)'
      BY Zenon
    <3>1. writer'[z] = writer[z] /\ writer[z] \in Cpus \ {c} /\ Locks(writer[z]) /\ job[writer[z]].space = z
      BY <1>e, <1>l, Zenon DEF LockExact
    <3> QED
      BY <1>p, <3>1 DEF Locks
  <2> QED
    BY <1>s, <2>1, <2>2, <2>3 DEF LockExact
<1>5. \A d \in Cpus : JobOK(d)'
  <2>1. JobOK(c)'
    <3>1. \A e \in r.queue \cup r.held \cup r.taken :
             e[2] # None => e[2] = <<r.space, e[1]>> /\ pte[r.space][e[1]] = None
      BY <1>j, <1>r DEF JobOK
    <3>2. \A e \in r.queue \cup r.taken, h \in r.held : e[2] # None => h[1] # e[1]
      BY <1>j, <1>r DEF JobOK
    <3>3. r.targets \subseteq used_by[r.space] \ {c}
      BY <1>r, <1>s, <1>t, Zenon
    <3> QED
      <4>1. pte' = pte /\ used_by' = used_by /\ job'[c] = r /\ pc'[c] = "ask"
        BY <1>e, <1>p, Zenon
      <4>2. r.queue = {} /\ (r.last => r.held = {})
        BY <1>h, <1>r, Zenon
      <4> QED
        BY <3>1, <3>2, <3>3, <4>1, <4>2, Zenon DEF JobOK
  <2>2. \A d \in Cpus \ {c} : JobOK(d)'
    BY <1>e, <1>p, JobKept, Zenon
  <2> QED
    BY <2>1, <2>2, Zenon
<1>6. Asked'
  <2> SUFFICES ASSUME NEW d \in Cpus, wants'[d] \/ flushed'[d]
               PROVE  Awaited(d)'
    BY Zenon DEF Asked
  <2>1. Awaited(d)
    BY <1>e, Zenon DEF Asked
  <2>2. writer'[space[d]] = writer[space[d]] /\ writer[space[d]] # c
    BY <1>e, <1>l, <1>n, <2>1, Zenon DEF Awaited
  <2>3. Uses(d)'
    BY <1>a, <1>e, <1>p, <2>1, Zenon DEF Awaited, Uses
  <2> QED
    BY <1>e, <1>p, <2>1, <2>2, <2>3, SMTT(30) DEF Awaited
<1>7. Counted'
  <2>1. \A z : Pending(z)' = Pending(z)
    BY <1>e, Zenon DEF Pending
  <2>2. Cardinality(Pending(s)) = 0 /\ Cardinality(Pending(s)) \in Nat
    <3>1. Pending(s) = {}
      BY <1>n, Zenon DEF Pending
    <3> QED
      BY <3>1, PendingFinite, Zenon
  <2>3. CountOK(c)'
    <3>1. job'[c].asked = 0 /\ job'[c].missed = {} /\ job'[c].space = s /\ tlb_ack'[s] = 0
      BY <1>p, <1>r, <1>s, Zenon
    <3>2. Cardinality({}) = 0
      BY FS_EmptySet, Zenon
    <3> QED
      BY <2>1, <2>2, <3>1, <3>2 DEF CountOK
  <2>4. \A d \in Cpus \ {c} : pc'[d] \in {"ask", "wait"} => CountOK(d)'
    <3>1. \A d \in Cpus \ {c} : pc[d] \in {"ask", "wait"} => job[d].space \in Spaces \ {s}
      BY <1>s DEF LockExact, Locks
    <3> QED
      BY <1>p, <2>1, <3>1, SMTT(30), ZenonT(30) DEF Counted, CountOK
  <2> QED
    BY <2>3, <2>4, Zenon DEF Counted
<1>8. StaleOK'
  <2> SUFFICES ASSUME NEW d \in Cpus, NEW p \in PageSet, Stale(d, p)'
               PROVE  (writer[space[d]] \in Cpus /\ Due(writer[space[d]], d, p))'
    BY Zenon DEF StaleOK
  <2>1. Stale(d, p)
    BY <1>a, <1>e, <1>p, Zenon DEF Stale, Uses
  <2>2. space[d] \in Spaces
    BY <2>1, StaleSpace, Zenon
  <2>3. CASE space[d] = s
    <3>1. d \in used_by[s]
      BY <2>1, <2>3, Zenon DEF Stale, UsedExact
    <3>2. d \in r.targets \/ d = c
      BY <1>r, <1>t, <3>1, Zenon
    <3> QED
      BY <1>e, <1>p, <1>s, <2>3, <3>2, Zenon DEF Due
  <2>4. CASE space[d] # s
    <3>1. writer[space[d]] # c
      BY <1>l, <2>2, <2>4, Zenon
    <3> QED
      BY <1>e, <1>p, <2>1, <3>1, StillDue, Zenon
  <2> QED
    BY <2>3, <2>4, Zenon
<1>9. FreeOK'
  BY <1>a, <1>e, <1>p, Zenon DEF FreeOK, Uses
<1> QED
  BY <1>1, <1>2, <1>3, <1>4, <1>5, <1>6, <1>7, <1>8, <1>9, Zenon DEF IInv

(* A CPU that owes no answer is counted, and asked if it has a block. *)
LEMMA AskStep ==
  ASSUME IInv, NEW c \in Cpus, Ask(c)
  PROVE  IInv'
<1> USE TlbAssumption DEF IInv
<1>a. pc[c] = "ask" /\ ~flushed[c] /\ job[c].targets # {}
  BY Zenon DEF Ask, At
<1>j. PICK j \in JobSet : j = job[c]
  BY Zenon DEF TypeOK
<1>s. PICK s \in Spaces : s = j.space /\ writer[s] = c
  BY <1>a, <1>j, HasLock, Zenon DEF Locks
<1>t. PICK t \in Cpus : t = Min(j.targets) /\ t \in j.targets
  <2>1. j.targets \in SUBSET Cpus
    BY JobFields, Zenon
  <2>2. j.targets \in SUBSET Nat
    BY <2>1, Zenon
  <2> QED
    BY <1>a, <1>j, <2>1, <2>2, MinOf, Zenon
<1>m. PICK m \in SUBSET Cpus : m = IF t \in blocks THEN j.missed ELSE j.missed \cup {t}
  BY JobFields, Zenon
<1>r. PICK r \in JobSet :
         /\ r = [j EXCEPT !.targets = @ \ {t}, !.asked = @ + 1, !.missed = m]
         /\ r.space = j.space /\ r.queue = j.queue /\ r.held = j.held /\ r.taken = j.taken
         /\ r.last = j.last /\ r.targets = j.targets \ {t} /\ r.asked = j.asked + 1 /\ r.missed = m
  <2> DEFINE n == [j EXCEPT !.targets = @ \ {t}, !.asked = @ + 1, !.missed = m]
  <2>1. j.targets \ {t} \in SUBSET Cpus /\ j.asked + 1 \in Nat
    BY DEF JobSet
  <2>2. /\ n \in JobSet
        /\ n.space = j.space /\ n.queue = j.queue /\ n.held = j.held /\ n.taken = j.taken
        /\ n.last = j.last /\ n.targets = j.targets \ {t} /\ n.asked = j.asked + 1 /\ n.missed = m
    BY <2>1, ZenonT(30) DEF JobSet
  <2>3. n = [j EXCEPT !.targets = @ \ {t}, !.asked = @ + 1, !.missed = m]
    BY Zenon
  <2> HIDE DEF n
  <2> QED
    BY <2>2, <2>3, Zenon
<1>e. /\ UNCHANGED <<pc, space, next, root, used_by, tlb, flushed, writer, tlb_ack, pte, free>>
      /\ wants' = [wants EXCEPT ![t] = wants[t] \/ t \in blocks] /\ job' = [job EXCEPT ![c] = r]
  BY <1>j, <1>t, <1>m, <1>r, Zenon DEF Ask, cpuvars, Now
<1>u. t # c /\ Uses(t) /\ space[t] = s /\ ~flushed[t] /\ ~wants[t]
  <2>1. t \in used_by[s] \ {c}
    BY <1>a, <1>j, <1>s, <1>t, Zenon DEF JobOK, Locks
  <2>2. t # c /\ Uses(t) /\ space[t] = s
    BY <1>s, <2>1, Zenon DEF UsedExact
  <2>3. wants[t] \/ flushed[t] => t \notin job[writer[space[t]]].targets
    BY Zenon DEF Asked, Awaited
  <2> QED
    BY <1>j, <1>s, <1>t, <2>2, <2>3, Zenon
<1>p. /\ job'[c] = r /\ (wants'[t] <=> t \in blocks)
      /\ \A d \in Cpus \ {c} : job'[d] = job[d]
      /\ \A d \in Cpus \ {t} : wants'[d] = wants[d]
  BY <1>e, <1>u, Zenon DEF TypeOK
<1>l. \A z \in Spaces : z # s => writer[z] # c
  BY <1>j, <1>s, OtherWriter, Zenon
<1>1. TypeOK'
  <2>1. job' \in [Cpus -> JobSet]
    BY <1>e, <1>r, Zenon DEF TypeOK
  <2>2. wants' \in [Cpus -> BOOLEAN]
    BY <1>e, Zenon DEF TypeOK
  <2> QED
    BY <1>e, <2>1, <2>2, Zenon DEF TypeOK
<1>2. UsedExact'
  BY <1>e, Zenon DEF UsedExact, Uses
<1>3. OwnFrames'
  BY <1>e, Zenon DEF OwnFrames
<1>4. LockExact'
  <2>1. \A d \in Cpus : job'[d].space = job[d].space
    BY <1>j, <1>p, <1>r, Zenon
  <2> QED
    BY <1>e, <2>1 DEF LockExact, Locks
<1>5. \A d \in Cpus : JobOK(d)'
  <2>1. JobOK(c)'
    <3>1. JobOK(c) /\ Locks(c)
      BY <1>a, Zenon DEF Locks
    <3>2. pte' = pte /\ used_by' = used_by /\ pc' = pc /\ job'[c] = r
      BY <1>e, <1>p, Zenon
    <3>3. /\ r.space = job[c].space /\ r.queue = job[c].queue /\ r.held = job[c].held /\ r.taken = job[c].taken
          /\ r.last = job[c].last /\ r.targets \subseteq job[c].targets
      BY <1>j, <1>r, Zenon
    <3>4. pc[c] = "ask"
      BY <1>a, Zenon
    <3> HIDE DEF IInv
    <3> QED
      BY <3>1, <3>2, <3>3, <3>4, SMTT(30), ZenonT(30) DEF JobOK, Locks
  <2>2. \A d \in Cpus \ {c} : JobOK(d)'
    BY <1>e, <1>p, JobKept, Zenon
  <2> QED
    BY <2>1, <2>2, Zenon
<1>6. Asked'
  <2>1. \A d \in Cpus : job'[d].targets \subseteq job[d].targets
    BY <1>j, <1>p, <1>r
  <2>2. \A d \in Cpus \ {t} : ((wants[d] \/ flushed[d]) =>
        /\ ~(wants[d] /\ flushed[d])
        /\ Uses(d) /\ space[d] \in Spaces
        /\ writer[space[d]] \in Cpus \ {d}
        /\ pc[writer[space[d]]] \in {"ask", "wait"}
        /\ d \notin job[writer[space[d]]].targets)'
    BY <1>e, <1>p, <2>1, Zenon DEF Asked, Awaited, Uses
  <2>3. ~flushed'[t] /\ Uses(t)' /\ space'[t] = s /\ writer'[s] = c /\ pc'[c] = "ask" /\ t \notin job'[c].targets
    BY <1>a, <1>e, <1>p, <1>r, <1>s, <1>u, Zenon DEF Uses
  <2> QED
    BY <1>u, <2>2, <2>3, SMTT(30), ZenonT(30) DEF Asked, Awaited
<1>7. Counted'
  <2>1. \A z : z # s => Pending(z)' = Pending(z)
    BY <1>e, <1>p, <1>u, Zenon DEF Pending
  <2>2. /\ Cardinality(Pending(s)) \in Nat /\ tlb_ack[s] \in Nat /\ j.asked \in Nat
        /\ Cardinality(j.missed) \in Nat /\ IsFiniteSet(j.missed)
    BY PendingFinite, CpusFinite, JobFields, Zenon DEF TypeOK
  <2>3. j.asked = tlb_ack[s] + Cardinality(j.missed) + Cardinality(Pending(s)) /\ t \notin j.missed
    BY <1>a, <1>j, <1>s, <1>t, Zenon DEF Counted, CountOK
  <2>4. \A z \in Spaces : z = s =>
           Cardinality(m) + Cardinality(Pending(z)') = Cardinality(j.missed) + Cardinality(Pending(z)) + 1
    <3> SUFFICES ASSUME NEW z \in Spaces, z = s
                 PROVE  Cardinality(m) + Cardinality(Pending(z)') = Cardinality(j.missed) + Cardinality(Pending(z)) + 1
      BY Zenon
    <3>1. CASE t \in blocks
      <4>1. Pending(z)' = Pending(z) \cup {t} /\ t \notin Pending(z)
        BY <1>e, <1>p, <1>u, <3>1 DEF Pending
      <4>2. Cardinality(Pending(z)') = Cardinality(Pending(z)) + 1
        BY <4>1, PendingFinite, FS_AddElement, Zenon
      <4> QED
        BY <1>m, <2>2, <3>1, <4>2
    <3>2. CASE t \notin blocks
      <4>1. Pending(z)' = Pending(z)
        BY <1>e, <1>p, <1>u, <3>2, Zenon DEF Pending
      <4>2. Cardinality(m) = Cardinality(j.missed) + 1
        BY <1>m, <2>2, <2>3, <3>2, FS_AddElement, Zenon
      <4> QED
        BY <2>2, <4>1, <4>2
    <3> QED
      BY <3>1, <3>2, Zenon
  <2>5. \A z \in Spaces : z = s => Cardinality(Pending(z)') \in Nat
    <3>1. \A z : Pending(z)' \in SUBSET Cpus
      BY Zenon DEF Pending
    <3> QED
      BY <3>1, CpusFinite, Zenon
  <2>6. /\ job'[c].asked = j.asked + 1 /\ job'[c].missed = m /\ job'[c].space = s /\ tlb_ack' = tlb_ack
        /\ job'[c].targets = j.targets \ {t}
    BY <1>e, <1>p, <1>r, <1>s, Zenon
  <2>7. \A d \in Cpus : d = c => CountOK(d)'
    <3>1. Cardinality(m) \in Nat
      BY CpusFinite, Zenon
    <3>2. \A d \in m : d \notin j.targets \ {t}
      BY <1>a, <1>j, <1>m, Zenon DEF Counted, CountOK
    <3>3. \A z \in Spaces : z = s =>
             j.asked + 1 = tlb_ack[z] + Cardinality(m) + Cardinality(Pending(z)')
      BY <2>2, <2>3, <2>4, <2>5, <3>1
    <3> QED
      BY <2>6, <3>2, <3>3, Zenon DEF CountOK
  <2>8. \A d \in Cpus \ {c} : pc'[d] \in {"ask", "wait"} => CountOK(d)'
    <3>1. \A d \in Cpus \ {c} : pc[d] \in {"ask", "wait"} => job[d].space # s
      BY <1>s DEF LockExact, Locks
    <3> QED
      <4> SUFFICES ASSUME NEW d \in Cpus \ {c}, pc'[d] \in {"ask", "wait"}
                   PROVE  CountOK(d)'
        BY Zenon
      <4>1. CountOK(d) /\ job'[d] = job[d] /\ tlb_ack' = tlb_ack
        BY <1>e, <1>p, Zenon DEF Counted
      <4>2. Pending(job[d].space)' = Pending(job[d].space)
        BY <1>e, <2>1, <3>1, <4>1, Zenon
      <4> QED
        BY <4>1, <4>2, Zenon DEF CountOK
  <2> QED
    BY <2>7, <2>8, Zenon DEF Counted
<1>8. StaleOK'
  <2> SUFFICES ASSUME NEW d \in Cpus, NEW p \in PageSet, Stale(d, p)'
               PROVE  (writer[space[d]] \in Cpus /\ Due(writer[space[d]], d, p))'
    BY Zenon DEF StaleOK
  <2>1. Stale(d, p)
    BY <1>e, Zenon DEF Stale, Uses
  <2>2. space[d] \in Spaces
    BY <2>1, StaleSpace, Zenon
  <2>3. CASE d = t
    <3>1. wants'[t] \/ t \in job'[c].missed
      BY <1>m, <1>p, <1>r, Zenon
    <3> QED
      BY <1>a, <1>e, <1>s, <1>u, <2>3, <3>1, Zenon DEF Due
  <2>4. CASE d # t /\ space[d] = s
    <3>1. Due(c, d, p)
      BY <1>s, <2>1, <2>4, Zenon DEF StaleOK
    <3>2. Due(c, d, p)'
      BY <1>e, <1>j, <1>m, <1>p, <1>r, <2>4, <3>1 DEF Due
    <3> QED
      BY <1>e, <1>s, <2>4, <3>2, Zenon
  <2>5. CASE d # t /\ space[d] # s
    BY <1>e, <1>p, <1>l, <2>1, <2>2, <2>5, StillDue, Zenon
  <2> QED
    BY <2>3, <2>4, <2>5, Zenon
<1>9. FreeOK'
  BY <1>e, Zenon DEF FreeOK, Uses
<1> QED
  BY <1>1, <1>2, <1>3, <1>4, <1>5, <1>6, <1>7, <1>8, <1>9, Zenon DEF IInv

(* The CPU that flushes drops its own translations before it waits. *)
LEMMA FlushOwnStep ==
  ASSUME IInv, NEW c \in Cpus, FlushOwn(c)
  PROVE  IInv'
<1> USE TlbAssumption DEF IInv
<1>a. pc[c] = "ask" /\ ~flushed[c] /\ job[c].targets = {}
  BY Zenon DEF FlushOwn, At
<1>s. PICK s \in Spaces : s = job[c].space /\ writer[s] = c
  BY <1>a, HasLock, Zenon DEF Locks
<1>e. /\ UNCHANGED <<space, next, root, used_by, wants, flushed, writer, tlb_ack, pte, free, job>>
      /\ tlb' = IF c \in used_by[s] THEN [tlb EXCEPT ![c] = Empty] ELSE tlb
      /\ pc' = [pc EXCEPT ![c] = "wait"]
  BY <1>s, Zenon DEF FlushOwn, cpuvars, Goto
<1>p. /\ pc'[c] = "wait"
      /\ \A d \in Cpus \ {c} : pc'[d] = pc[d] /\ tlb'[d] = tlb[d]
      /\ \A p \in PageSet : tlb'[c][p] = None \/ tlb'[c][p] = tlb[c][p]
      /\ c \in used_by[s] => \A p \in PageSet : tlb'[c][p] = None
  BY <1>e, Zenon DEF TypeOK, Empty
<1>l. \A z \in Spaces : z # s => writer[z] # c
  BY <1>s, OtherWriter, Zenon
<1>1. TypeOK'
  <2>1. tlb' \in [Cpus -> Table]
    BY <1>e, Zenon DEF TypeOK, Empty, Table
  <2> QED
    BY <1>e, <2>1, Zenon DEF TypeOK, Places
<1>2. UsedExact'
  BY <1>a, <1>e, <1>p, UsedKept, Zenon DEF Uses
<1>3. OwnFrames'
  BY <1>e, <1>p, OwnDropped, Zenon
<1>4. LockExact'
  BY <1>a, <1>e, <1>p, LockKept, Zenon DEF Locks
<1>5. \A d \in Cpus : JobOK(d)'
  <2>1. JobOK(c)'
    <3>1. pte' = pte /\ used_by' = used_by /\ job' = job /\ pc'[c] = "wait"
      BY <1>e, <1>p, Zenon
    <3> QED
      BY <1>a, <3>1 DEF JobOK, Locks
  <2>2. \A d \in Cpus \ {c} : JobOK(d)'
    BY <1>a, <1>e, <1>p, JobKept, Zenon
  <2> QED
    BY <2>1, <2>2, Zenon
<1>6. Asked'
  BY <1>a, <1>e, <1>p, SMTT(30), ZenonT(30) DEF Asked, Awaited, Uses
<1>7. Counted'
  BY <1>a, <1>e, <1>p, CountedKept, PendingKept, Zenon
<1>8. StaleOK'
  <2> SUFFICES ASSUME NEW d \in Cpus, NEW p \in PageSet, Stale(d, p)'
               PROVE  (writer[space[d]] \in Cpus /\ Due(writer[space[d]], d, p))'
    BY Zenon DEF StaleOK
  <2>1. Stale(d, p)
    BY <1>a, <1>e, <1>p DEF Stale, Uses
  <2>2. space[d] \in Spaces
    BY <2>1, StaleSpace, Zenon
  <2>3. CASE space[d] = s
    <3>1. d \in used_by[s]
      BY <2>1, <2>3, Zenon DEF Stale, UsedExact
    <3>2. d # c
      BY <1>p, <3>1, Zenon DEF Stale
    <3>3. Due(c, d, p)
      BY <1>s, <2>1, <2>3, Zenon DEF StaleOK
    <3>4. p \in Pages(job[c].queue) \cup Pages(job[c].held) \/ wants[d] \/ d \in job[c].missed
      BY <1>a, <3>2, <3>3, Zenon DEF Due
    <3>5. Due(c, d, p)'
      BY <1>e, <1>p, <3>4, Zenon DEF Due
    <3> QED
      BY <1>e, <1>s, <2>3, <3>5, Zenon
  <2>4. CASE space[d] # s
    <3>1. writer[space[d]] # c
      BY <1>l, <2>2, <2>4, Zenon
    <3> QED
      BY <1>e, <1>p, <2>1, <3>1, StillDue, Zenon
  <2> QED
    BY <2>3, <2>4, Zenon
<1>9. FreeOK'
  BY <1>a, <1>e, <1>p, Zenon DEF FreeOK, Uses
<1> QED
  BY <1>1, <1>2, <1>3, <1>4, <1>5, <1>6, <1>7, <1>8, <1>9, Zenon DEF IInv

(* When every request is acknowledged, no CPU has a translation that was taken for the flush. *)
LEMMA FinishFlushStep ==
  ASSUME IInv, NEW c \in Cpus, FinishFlush(c)
  PROVE  IInv'
<1> USE TlbAssumption DEF IInv
<1>a. pc[c] = "wait" /\ ~flushed[c]
  BY Zenon DEF FinishFlush, At
<1>j. PICK j \in JobSet : j = job[c]
  BY Zenon DEF TypeOK
<1>s. PICK s \in Spaces : s = j.space /\ writer[s] = c
  BY <1>a, <1>j, Zenon DEF LockExact, Locks
<1>r. PICK r \in JobSet :
         /\ r = [j EXCEPT !.queue = j.held, !.held = {}, !.taken = {}, !.asked = 0, !.missed = {}]
         /\ r.space = j.space /\ r.queue = j.held /\ r.held = {} /\ r.taken = {}
         /\ r.targets = j.targets /\ r.asked = 0 /\ r.last = j.last
  BY JobGoesOn, Zenon
<1>e. /\ tlb_ack[s] >= j.asked
      /\ UNCHANGED <<space, next, root, used_by, tlb, wants, flushed, tlb_ack, pte>>
      /\ free' = free \cup {e[2] : e \in {t \in j.taken : t[2] # None}}
      /\ \/ /\ j.last /\ writer' = [writer EXCEPT ![s] = None]
            /\ job' = [job EXCEPT ![c] = NoJob] /\ pc' = [pc EXCEPT ![c] = "run"]
         \/ /\ ~j.last /\ writer' = writer
            /\ job' = [job EXCEPT ![c] = r] /\ pc' = [pc EXCEPT ![c] = "work"]
  BY <1>j, <1>s, <1>r, Zenon DEF FinishFlush, Acknowledged, cpuvars, Unlocked, Now, Goto
<1>k. j.missed = {} /\ \A d \in Cpus : space[d] = s => ~wants[d] /\ ~flushed[d]
  <2>1. j.asked = tlb_ack[s] + Cardinality(j.missed) + Cardinality(Pending(s))
    BY <1>a, <1>j, <1>s, Zenon DEF Counted, CountOK
  <2>2. /\ Cardinality(Pending(s)) \in Nat /\ tlb_ack[s] \in Nat /\ j.asked \in Nat
        /\ Cardinality(j.missed) \in Nat
    BY PendingFinite, CpusFinite, JobFields, Zenon DEF TypeOK
  <2>3. Cardinality(Pending(s)) = 0 /\ Cardinality(j.missed) = 0
    BY <1>e, <2>1, <2>2
  <2>4. Pending(s) = {} /\ j.missed = {}
    BY <1>s, <2>3, PendingFinite, CpusFinite, JobFields, Zenon
  <2> QED
    BY <2>4, Zenon DEF Pending
<1>q. j.queue = {} /\ j.targets = {}
  BY <1>a, <1>j, Zenon DEF JobOK
<1>n. \A d \in Cpus, p \in PageSet :
         Uses(d) /\ space[d] = s /\ tlb[d][p] # None => tlb[d][p] = pte[s][p] \/ p \in Pages(j.held)
  <2> SUFFICES ASSUME NEW d \in Cpus, NEW p \in PageSet, Stale(d, p), space[d] = s
               PROVE  p \in Pages(j.held)
    BY Zenon DEF Stale
  <2>1. Due(c, d, p)
    BY <1>s, Zenon DEF StaleOK
  <2>2. p \notin Pages(j.queue)
    BY <1>q, Zenon DEF Pages
  <2> QED
    BY <1>a, <1>j, <1>k, <2>1, <2>2, Zenon DEF Due
<1>f. \A e \in j.taken : e[2] # None =>
         /\ e[1] \in PageSet /\ e[2] = <<s, e[1]>> /\ pte[s][e[1]] = None /\ e[1] \notin Pages(j.held)
  <2>1. \A e \in j.taken : e[1] \in PageSet
    BY JobFields, Zenon DEF QueueSet
  <2> QED
    BY <1>j, <1>s, <2>1, SMTT(30), ZenonT(30) DEF JobOK, Pages
<1>g. /\ free' \subseteq FrameSet
      /\ \A z \in Spaces, p \in PageSet : <<z, p>> \in free' \ free =>
            z = s /\ pte[s][p] = None /\ p \notin Pages(j.held)
  <2>1. \A x \in free' \ free : \E e \in j.taken : e[2] # None /\ x = e[2]
    BY <1>e, Zenon
  <2>2. \A x \in free' \ free : \E p \in PageSet : x = <<s, p>> /\ pte[s][p] = None /\ p \notin Pages(j.held)
    <3> SUFFICES ASSUME NEW x \in free' \ free
                 PROVE  \E p \in PageSet : x = <<s, p>> /\ pte[s][p] = None /\ p \notin Pages(j.held)
      BY Zenon
    <3>1. PICK e \in j.taken : e[2] # None /\ x = e[2]
      BY <2>1, Zenon
    <3>2. /\ e[1] \in PageSet /\ x = <<s, e[1]>> /\ pte[s][e[1]] = None /\ e[1] \notin Pages(j.held)
      BY <1>f, <3>1, Zenon
    <3> QED
      BY <3>2, Zenon
  <2>3. free' \subseteq FrameSet
    BY <2>2, <1>s DEF TypeOK, FrameSet
  <2> QED
    BY <2>2, <2>3, Zenon
<1>c. CASE j.last
  <2>1. j.held = {}
    BY <1>c, <1>j, Zenon DEF JobOK
  <2>2. Quiet(s)
    BY <2>1, <1>k, <1>n, Zenon DEF Pages, Quiet
  <2>3. Locks(c)
    BY <1>a, Zenon DEF Locks
  <2>4. /\ writer' = [writer EXCEPT ![s] = None]
        /\ job' = [job EXCEPT ![c] = NoJob] /\ pc' = [pc EXCEPT ![c] = "run"]
    BY <1>c, <1>e, Zenon
  <2>5. UNCHANGED <<space, next, root, used_by, tlb, wants, flushed, tlb_ack, pte>>
    BY <1>e, Zenon
  <2>6. s = job[c].space
    BY <1>j, <1>s, Zenon
  <2>7. Frees(s)
    BY <1>g, Zenon DEF Frees
  <2> QED
    BY <1>s, <2>7, <2>2, <2>3, <2>4, <2>5, <2>6, UnlockStep, Zenon
<1>b. CASE ~j.last
  <2>e. /\ writer' = writer /\ job' = [job EXCEPT ![c] = r] /\ pc' = [pc EXCEPT ![c] = "work"]
        /\ UNCHANGED <<space, next, root, used_by, tlb, wants, flushed, tlb_ack, pte>>
    BY <1>b, <1>e, Zenon
  <2>p. /\ pc'[c] = "work" /\ job'[c] = r
        /\ \A d \in Cpus \ {c} : pc'[d] = pc[d] /\ job'[d] = job[d]
    BY <2>e, Zenon DEF TypeOK
  <2>l. \A z \in Spaces : z # s => writer[z] # c
    BY <1>j, <1>s, OtherWriter, Zenon
  <2>1. TypeOK'
    <3>1. job' \in [Cpus -> JobSet]
      BY <2>e, <1>r, Zenon DEF TypeOK
    <3> QED
      BY <2>e, <1>g, <3>1, Zenon DEF TypeOK, Places
  <2>2. UsedExact'
    <3>1. \A d \in Cpus : (Uses(d)' <=> Uses(d)) /\ (pc'[d] = "leave" <=> pc[d] = "leave")
      BY <1>a, <2>p, Zenon DEF Uses
    <3> QED
      BY <2>e, <3>1, Zenon DEF UsedExact
  <2>3. OwnFrames'
    <3>1. \A z \in Spaces, p \in PageSet : <<z, p>> \in free' => pte'[z][p] = None
      BY <2>e, <1>g DEF OwnFrames
    <3> QED
      BY <2>e, <3>1, Zenon DEF OwnFrames
  <2>4. LockExact'
    <3>1. \A d \in Cpus : job'[d].space = job[d].space /\ (Locks(d)' <=> Locks(d)) /\ (pc'[d] = "lock" <=> pc[d] = "lock")
      BY <1>a, <1>j, <1>r, <2>p DEF Locks
    <3> QED
      BY <2>e, <3>1, Zenon DEF LockExact
  <2>5. \A d \in Cpus : JobOK(d)'
    <3>1. JobOK(c)'
      <4>1. pte' = pte /\ used_by' = used_by /\ job'[c] = r /\ pc'[c] = "work"
        BY <2>e, <2>p, Zenon
      <4>2. ~r.last /\ r.held = {} /\ r.taken = {} /\ r.targets = {}
        BY <1>b, <1>q, <1>r, Zenon
      <4>3. \A e \in r.queue : e[2] # None => e[2] = <<r.space, e[1]>> /\ pte[r.space][e[1]] = None
        BY <1>j, <1>r DEF JobOK
      <4> QED
        BY <4>1, <4>2, <4>3, Zenon DEF JobOK
    <3>2. \A d \in Cpus \ {c} : JobOK(d)'
      BY <2>e, <2>p, JobKept, Zenon
    <3> QED
      BY <3>1, <3>2, Zenon
  <2>6. Asked'
    <3> SUFFICES ASSUME NEW d \in Cpus, wants'[d] \/ flushed'[d]
                 PROVE  Awaited(d)'
      BY Zenon DEF Asked
    <3>1. Awaited(d)
      BY <2>e, Zenon DEF Asked
    <3>2. writer'[space[d]] = writer[space[d]] /\ writer[space[d]] # c
      BY <1>k, <2>e, <2>l, <3>1, Zenon DEF Awaited
    <3>3. Uses(d)'
      BY <1>a, <2>e, <2>p, <3>1, Zenon DEF Awaited, Uses
    <3> QED
      BY <2>e, <2>p, <3>1, <3>2, <3>3 DEF Awaited
  <2>7. Counted'
    BY <2>e, <2>p, CountedKept, PendingKept, Zenon
  <2>8. StaleOK'
    <3> SUFFICES ASSUME NEW d \in Cpus, NEW p \in PageSet, Stale(d, p)'
                 PROVE  (writer[space[d]] \in Cpus /\ Due(writer[space[d]], d, p))'
      BY Zenon DEF StaleOK
    <3>1. Stale(d, p)
      BY <1>a, <2>e, <2>p, Zenon DEF Stale, Uses
    <3>2. space[d] \in Spaces
      BY <3>1, StaleSpace, Zenon
    <3>3. CASE space[d] = s
      <4>1. p \in Pages(r.queue)
        BY <1>n, <1>r, <3>1, <3>3, Zenon DEF Stale
      <4> QED
        BY <2>e, <2>p, <1>s, <3>3, <4>1, Zenon DEF Due
    <3>4. CASE space[d] # s
      BY <2>e, <2>p, <2>l, <3>1, <3>2, <3>4, StillDue, Zenon
    <3> QED
      BY <3>3, <3>4, Zenon
  <2>9. FreeOK'
    <3> SUFFICES ASSUME NEW d \in Cpus, NEW p \in PageSet, Uses(d)', tlb'[d][p] # None, <<space'[d], p>> \in free'
                 PROVE  FALSE
      BY Zenon DEF FreeOK
    <3>1. Uses(d) /\ tlb[d][p] # None
      BY <1>a, <2>e, <2>p, Zenon DEF Uses
    <3>2. space[d] \in Spaces
      BY <3>1, Zenon DEF UsedExact, OwnFrames
    <3>3. <<space[d], p>> \notin free
      BY <3>1, Zenon DEF FreeOK
    <3> QED
      BY <2>e, <1>g, <1>n, <3>1, <3>2, <3>3, Zenon
  <2> QED
    BY <2>1, <2>2, <2>3, <2>4, <2>5, <2>6, <2>7, <2>8, <2>9, Zenon DEF IInv
<1> QED
  BY <1>b, <1>c, Zenon

(* maybe_handle_tlb_shootdown drops all translations before it answers. *)
LEMMA FlushForOtherStep ==
  ASSUME IInv, NEW c \in Cpus, FlushForOther(c)
  PROVE  IInv'
<1> USE TlbAssumption DEF IInv
<1>e. /\ wants[c] /\ ~flushed[c]
      /\ UNCHANGED <<pc, space, next, root, used_by, writer, tlb_ack, pte, free, job>>
      /\ wants' = [wants EXCEPT ![c] = FALSE] /\ flushed' = [flushed EXCEPT ![c] = TRUE]
      /\ tlb' = [tlb EXCEPT ![c] = Empty]
  BY Zenon DEF FlushForOther, cpuvars
<1>p. /\ ~wants'[c] /\ flushed'[c] /\ \A p \in PageSet : tlb'[c][p] = None
      /\ \A d \in Cpus \ {c} : wants'[d] = wants[d] /\ flushed'[d] = flushed[d] /\ tlb'[d] = tlb[d]
  BY <1>e DEF TypeOK, Empty
<1>1. TypeOK'
  <2>1. tlb' \in [Cpus -> Table]
    BY <1>e, Zenon DEF TypeOK, Empty, Table
  <2>2. wants' \in [Cpus -> BOOLEAN] /\ flushed' \in [Cpus -> BOOLEAN]
    BY <1>e, Zenon DEF TypeOK
  <2> QED
    BY <1>e, <2>1, <2>2, Zenon DEF TypeOK
<1>2. UsedExact'
  BY <1>e, Zenon DEF UsedExact, Uses
<1>3. OwnFrames'
  BY <1>e, <1>p, OwnDropped, Zenon
<1>4. LockExact'
  BY <1>e, Zenon DEF LockExact, Locks
<1>5. \A d \in Cpus : JobOK(d)'
  BY <1>e, JobKept, Zenon
<1>6. Asked'
  BY <1>e, <1>p, SMTT(30), ZenonT(30) DEF Asked, Awaited, Uses
<1>7. Counted'
  <2>1. \A z : Pending(z)' = Pending(z)
    BY <1>e, <1>p DEF Pending
  <2> QED
    BY <1>e, <2>1, CountedKept, Zenon
<1>8. StaleOK'
  <2> SUFFICES ASSUME NEW d \in Cpus, NEW p \in PageSet, Stale(d, p)'
               PROVE  (writer[space[d]] \in Cpus /\ Due(writer[space[d]], d, p))'
    BY Zenon DEF StaleOK
  <2>1. Stale(d, p) /\ d # c
    BY <1>e, <1>p DEF Stale, Uses
  <2>2. space[d] \in Spaces
    BY <2>1, StaleSpace, Zenon
  <2> QED
    BY <1>e, <1>p, <2>1, <2>2, StillDue, Zenon
<1>9. FreeOK'
  BY <1>e, <1>p DEF FreeOK, Uses
<1> QED
  BY <1>1, <1>2, <1>3, <1>4, <1>5, <1>6, <1>7, <1>8, <1>9, Zenon DEF IInv

(* An acknowledgement is counted in the space of the request it answers. *)
LEMMA AcknowledgeStep ==
  ASSUME IInv, NEW c \in Cpus, Acknowledge(c)
  PROVE  IInv'
<1> USE TlbAssumption DEF IInv
<1>e. /\ flushed[c]
      /\ UNCHANGED <<pc, space, next, root, used_by, tlb, wants, writer, pte, free, job>>
      /\ flushed' = [flushed EXCEPT ![c] = FALSE]
      /\ tlb_ack' = [s \in Spaces |-> IF s = space[c] THEN tlb_ack[s] + 1 ELSE tlb_ack[s]]
  BY Zenon DEF Acknowledge, cpuvars
<1>w. ~wants[c] /\ space[c] \in Spaces
  BY <1>e, Zenon DEF Asked, Awaited
<1>p. /\ ~flushed'[c] /\ \A d \in Cpus \ {c} : flushed'[d] = flushed[d]
      /\ tlb_ack'[space[c]] = tlb_ack[space[c]] + 1
      /\ \A z \in Spaces : z # space[c] => tlb_ack'[z] = tlb_ack[z]
  BY <1>e, <1>w, Zenon DEF TypeOK
<1>1. TypeOK'
  <2>1. tlb_ack' \in [Spaces -> Nat]
    BY <1>e, SMTT(30), ZenonT(30) DEF TypeOK
  <2>2. flushed' \in [Cpus -> BOOLEAN]
    BY <1>e, Zenon DEF TypeOK
  <2> QED
    BY <1>e, <2>1, <2>2, Zenon DEF TypeOK
<1>2. UsedExact'
  BY <1>e, Zenon DEF UsedExact, Uses
<1>3. OwnFrames'
  BY <1>e, SMTT(30), ZenonT(30) DEF OwnFrames
<1>4. LockExact'
  BY <1>e, Zenon DEF LockExact, Locks
<1>5. \A d \in Cpus : JobOK(d)'
  BY <1>e, JobKept, Zenon
<1>6. Asked'
  BY <1>e, <1>p DEF Asked, Awaited, Uses
<1>7. Counted'
  <2>0. PICK y \in Spaces : y = space[c]
    BY <1>w, Zenon
  <2>1. Pending(y)' = Pending(y) \ {c} /\ c \in Pending(y)
    BY <1>e, <1>p, <1>w, <2>0 DEF Pending
  <2>2. \A z : z # y => Pending(z)' = Pending(z)
    BY <1>e, <1>p, <2>0 DEF Pending
  <2>3. Cardinality(Pending(y)') = Cardinality(Pending(y)) - 1
    <3>1. IsFiniteSet(Pending(y))
      BY PendingFinite, Zenon
    <3> QED
      BY <2>1, <3>1, FS_RemoveElement
  <2>4. Cardinality(Pending(y)) \in Nat /\ tlb_ack[y] \in Nat
    BY PendingFinite, Zenon DEF TypeOK
  <2>5. tlb_ack'[y] + Cardinality(Pending(y)') = tlb_ack[y] + Cardinality(Pending(y))
    BY <1>p, <2>0, <2>3, <2>4
  <2>6. \A z \in Spaces : tlb_ack'[z] + Cardinality(Pending(z)') = tlb_ack[z] + Cardinality(Pending(z))
    BY <1>p, <2>0, <2>2, <2>5, Zenon
  <2>7. \A d \in Cpus : pc[d] \in {"ask", "wait"} => job[d].space \in Spaces
    BY Zenon DEF LockExact, Locks
  <2> QED
    <3> SUFFICES ASSUME NEW d \in Cpus, pc'[d] \in {"ask", "wait"}
                 PROVE  CountOK(d)'
      BY Zenon DEF Counted
    <3>1. PICK z \in Spaces : z = job[d].space
      BY <1>e, <2>7, Zenon
    <3>2. job[d].missed \in SUBSET Cpus /\ Pending(z)' \in SUBSET Cpus /\ Pending(z) \in SUBSET Cpus
      BY JobFields, Zenon DEF TypeOK, Pending
    <3>3. /\ Cardinality(job[d].missed) \in Nat /\ Cardinality(Pending(z)') \in Nat
          /\ Cardinality(Pending(z)) \in Nat
      BY <3>2, CpusFinite, Zenon
    <3>4. tlb_ack[z] \in Nat /\ tlb_ack'[z] \in Nat
      BY <1>1, Zenon DEF TypeOK
    <3>5. job[d].asked = tlb_ack[z] + Cardinality(job[d].missed) + Cardinality(Pending(z))
      BY <1>e, <3>1, Zenon DEF Counted, CountOK
    <3>6. tlb_ack'[z] + Cardinality(Pending(z)') = tlb_ack[z] + Cardinality(Pending(z))
      BY <2>6, Zenon
    <3>7. job[d].asked = tlb_ack'[z] + Cardinality(job[d].missed) + Cardinality(Pending(z)')
      BY <3>3, <3>4, <3>5, <3>6
    <3>8. \A x \in job[d].missed : x \notin job[d].targets
      BY <1>e, Zenon DEF Counted, CountOK
    <3> QED
      BY <1>e, <3>1, <3>7, <3>8, Zenon DEF CountOK
<1>8. StaleOK'
  <2> SUFFICES ASSUME NEW d \in Cpus, NEW p \in PageSet, Stale(d, p)'
               PROVE  (writer[space[d]] \in Cpus /\ Due(writer[space[d]], d, p))'
    BY Zenon DEF StaleOK
  <2>1. Stale(d, p)
    BY <1>e, Zenon DEF Stale, Uses
  <2>2. space[d] \in Spaces
    BY <2>1, StaleSpace, Zenon
  <2> QED
    BY <1>e, <2>1, <2>2, StillDue, Zenon
<1>9. FreeOK'
  BY <1>e, Zenon DEF FreeOK, Uses
<1> QED
  BY <1>1, <1>2, <1>3, <1>4, <1>5, <1>6, <1>7, <1>8, <1>9, Zenon DEF IInv

(* Every step of a CPU keeps the invariant. *)
LEMMA NextStep ==
  ASSUME IInv, [Next]_vars
  PROVE  IInv'
<1>1. CASE Next
  <2> SUFFICES ASSUME NEW c \in Cpus,
                      \/ Walk(c)
                      \/ \E s \in Spaces \cup {None} : BeginSwitch(c, s)
                      \/ \E s \in Spaces, kind \in {"unmap", "protect"} : Begin(c, s, kind)
                      \/ Kernel(c)
               PROVE  IInv'
    BY <1>1, Zenon DEF Next
  <2>1. CASE Walk(c) BY <2>1, WalkStep, Zenon
  <2>2. CASE \E s \in Spaces \cup {None} : BeginSwitch(c, s) BY <2>2, BeginSwitchStep, Zenon
  <2>3. CASE \E s \in Spaces, kind \in {"unmap", "protect"} : Begin(c, s, kind) BY <2>3, BeginStep, Zenon
  <2>4. CASE Kernel(c)
    <3>1. CASE Leave(c) BY <3>1, LeaveStep, Zenon
    <3>2. CASE Replace(c) BY <3>2, ReplaceStep, Zenon
    <3>3. CASE Enter(c) BY <3>3, EnterStep, Zenon
    <3>4. CASE AcquireWrite(c) BY <3>4, AcquireWriteStep, Zenon
    <3>5. CASE ChangePage(c) BY <3>5, ChangePageStep, Zenon
    <3>6. CASE NothingToFlush(c) BY <3>6, NothingToFlushStep, Zenon
    <3>7. CASE StartFlush(c) BY <3>7, StartFlushStep, Zenon
    <3>8. CASE Ask(c) BY <3>8, AskStep, Zenon
    <3>9. CASE FlushOwn(c) BY <3>9, FlushOwnStep, Zenon
    <3>10. CASE FinishFlush(c) BY <3>10, FinishFlushStep, Zenon
    <3>11. CASE FlushForOther(c) BY <3>11, FlushForOtherStep, Zenon
    <3>12. CASE Acknowledge(c) BY <3>12, AcknowledgeStep, Zenon
    <3> QED
      BY <2>4, <3>1, <3>2, <3>3, <3>4, <3>5, <3>6, <3>7, <3>8, <3>9, <3>10, <3>11, <3>12, Zenon DEF Kernel
  <2> QED
    BY <2>1, <2>2, <2>3, <2>4, Zenon
<1>2. CASE UNCHANGED vars
  <2> USE DEF IInv
  <2>u. UNCHANGED <<pc, space, next, root, used_by, tlb, wants, flushed, writer, tlb_ack, pte, free, job>>
    BY <1>2, Zenon DEF vars, cpuvars
  <2>1. TypeOK'
    BY <2>u, Zenon DEF TypeOK
  <2>2. UsedExact' /\ OwnFrames' /\ LockExact'
    BY <2>u, UsedKept, OwnKept, LockKept, Zenon DEF Uses, Locks
  <2>3. \A c \in Cpus : JobOK(c)'
    BY <2>u, JobKept, Zenon
  <2>4. Asked' /\ Counted'
    <3>1. \A z : Pending(z)' = Pending(z)
      BY <2>u, PendingKept, Zenon
    <3>2. Counted'
      BY <2>u, <3>1, CountedKept, Zenon
    <3>3. Asked'
      BY <2>u, Zenon DEF Asked, Awaited, Uses
    <3> QED
      BY <3>2, <3>3, Zenon
  <2>5. StaleOK' /\ FreeOK'
    BY <2>u, Zenon DEF StaleOK, Stale, Due, FreeOK, Uses
  <2> QED
    BY <2>1, <2>2, <2>3, <2>4, <2>5, Zenon
<1> QED
  BY <1>1, <1>2, Zenon

-----------------------------------------------------------------------------
(* The invariant holds in every state of every behaviour. *)
LEMMA Invariance == Spec => []IInv
<1>1. Init => IInv
  BY InitIInv, Zenon
<1>2. IInv /\ [Next]_vars => IInv'
  BY NextStep, Zenon
<1> QED
  BY <1>1, <1>2, PTL DEF Spec

(* A CPU that can use its translations has none that its page table no longer has, unless *)
(* the space is locked by the operation that is flushing it: munmap and mprotect return   *)
(* with no old translation left, for any CPUs, spaces, pages and queue capacity.          *)
THEOREM StaleWhileLocked == Spec => []StaleOnlyWhileLocked
<1>1. IInv => StaleOnlyWhileLocked
  BY IInvImplies, Zenon
<1> QED
  BY <1>1, Invariance, PTL

(* No CPU has a usable translation of a frame that Flusher::flush has freed. *)
THEOREM FreedUnreachable == Spec => []NoFreeFrameReachable
<1>1. IInv => NoFreeFrameReachable
  BY IInvImplies, Zenon
<1> QED
  BY <1>1, Invariance, PTL

(* tlb_ack has exactly one acknowledgement for every answered request of the flush that *)
(* waits: none is lost to another space and none is left from an earlier flush.          *)
THEOREM AcknowledgementsExact == Spec => []AcksExact
<1>1. IInv => AcksExact
  BY IInvImplies, Zenon
<1> QED
  BY <1>1, Invariance, PTL
=============================================================================
