------------------------------- MODULE Capture ------------------------------
(***************************************************************************)
(* The buffer of a call to a user-space scheme (scheme/user.rs): the       *)
(* caller's bytes appear contiguously in the handler's address space.      *)
(* Whole pages are borrowed; the partial first and last page are copied to *)
(* the calling context's head and tail frames, which are mapped instead,   *)
(* and copied back when the call returns.  Another thread of the caller    *)
(* may unmap pages of the buffer at any time.  Bytes are small values:     *)
(* those of the caller are its addresses, 0 is a zeroed byte.              *)
(***************************************************************************)
EXTENDS Integers, FiniteSets, FiniteSetsExt

CONSTANTS PAGE_SIZE,  \* bytes of a page
          NPages,     \* pages of the caller's memory, whose addresses begin at PAGE_SIZE
          MaxCalls, MaxWrites, MaxUnmaps  \* bounds on the calls, the handler's stores and the unmappings

VARIABLES user,       \* the caller's memory
          present,    \* pages the caller has mapped
          ht,         \* contents of the head and the tail frame
          frame,      \* SyscallFrame of the head and the tail
          dst,        \* pages the kernel has mapped in the handler's address space
          phase,      \* of the calling thread
          guard,      \* the CaptureGuard and what the call is for
          sent,       \* the caller's memory when the call began
          wrote,      \* what the handler has written, by index into the buffer
          calls,      \* calls so far
          result      \* of the last call, as far as its buffer goes

vars == <<user, present, ht, frame, dst, phase, guard, sent, wrote, calls, result>>

UserPages == 1 .. NPages
Addrs == PAGE_SIZE .. PAGE_SIZE * (NPages + 1) - 1
DstPages == 1 .. 2 * NPages
Handlers == 900      \* a byte of the handler is Handlers plus its index
Kernels == 800       \* a byte of a path is Kernels plus its index
Span(first, count) == first .. first + count - 1
NoSpan == {}

\* KernelScheme for UserScheme: the buffer each operation captures, and whether it looks at the
\* outcome of release or leaves that to the guard's Drop.
kopen     == [capture |-> "path", release |-> "drop"]
kopenat   == [capture |-> "path", release |-> "checked"]
unlinkat  == [capture |-> "path", release |-> "drop"]
flink     == [capture |-> "path", release |-> "drop"]
frename   == [capture |-> "path", release |-> "drop"]
kdup      == [capture |-> "ro",   release |-> "checked"]
kwriteoff == [capture |-> "ro",   release |-> "checked"]
kfutimens == [capture |-> "ro",   release |-> "checked"]
kfpath    == [capture |-> "wo",   release |-> "checked"]
kreadoff  == [capture |-> "wo",   release |-> "checked"]
getdents  == [capture |-> "wo",   release |-> "checked"]
kfstat    == [capture |-> "wo",   release |-> "checked"]
kfstatvfs == [capture |-> "wo",   release |-> "checked"]
kcall     == [capture |-> "rw",   release |-> "drop"]

Operations == {kopen, kopenat, unlinkat, flink, frename, kdup, kwriteoff, kfutimens, kfpath,
               kreadoff, getdents, kfstat, kfstatvfs, kcall}

READ(op) == op.capture \in {"path", "ro", "rw"}
WRITE(op) == op.capture \in {"wo", "rw"}

NoGuard == [op |-> kopen, addr |-> 0, len |-> 0, base |-> 0, head |-> FALSE, tail |-> FALSE, span |-> NoSpan]

Init ==
  /\ user = [a \in Addrs |-> a]
  /\ present = UserPages
  /\ ht = [h \in {"head", "tail"} |-> [o \in 0 .. PAGE_SIZE - 1 |-> 0]]
  /\ frame = [h \in {"head", "tail"} |-> "Free"]
  /\ dst = [p \in DstPages |-> <<"free", 0>>]
  /\ phase = "idle"
  /\ guard = NoGuard
  /\ sent = user
  /\ wrote = [i \in {} |-> 0]
  /\ calls = 0
  /\ result = "none"

\* page_range_containing: the first page, how many, and the offset into the first.
PageOf(a) == a \div PAGE_SIZE
Offset(a) == a % PAGE_SIZE
PageCount(a, len) == (len + Offset(a) + PAGE_SIZE - 1) \div PAGE_SIZE

\* UserGrants::find_free: the first span of free pages.
FindFree(count) ==
  Min({p \in DstPages : \A q \in Span(p, count) : q \in DstPages /\ dst[q][1] = "free"} \cup {2 * NPages + 1})

\* split_at: how much of the buffer is in the head page, in whole pages, in the tail page.
HeadLen(a, len) == IF Offset(a) = 0 THEN 0 ELSE Min({PAGE_SIZE - Offset(a), len})
MiddlePages(a, len) == (len - HeadLen(a, len)) \div PAGE_SIZE
TailLen(a, len) == (len - HeadLen(a, len)) % PAGE_SIZE

\* Mutant of Head: the bytes before the first page boundary go to the start of the page.
Head_AtStart(op, a, len) ==
  [o \in 0 .. PAGE_SIZE - 1 |->
     IF READ(op) /\ o < HeadLen(a, len) THEN user[a + o] ELSE 0]

\* The head frame: zeroes, and when the scheme may read, the caller's bytes at their offset.
Head(op, a, len) ==
  [o \in 0 .. PAGE_SIZE - 1 |->
     IF READ(op) /\ o >= Offset(a) /\ o < Offset(a) + HeadLen(a, len)
     THEN user[PageOf(a) * PAGE_SIZE + o] ELSE 0]
Tail(op, a, len) ==
  [o \in 0 .. PAGE_SIZE - 1 |->
     IF READ(op) /\ o < TailLen(a, len) THEN user[a + len - TailLen(a, len) + o] ELSE 0]

\* capture_inner, with the handler's address space locked: map the head, borrow the middle, map the
\* tail.  What fails returns at once: what is mapped by then stays mapped, the frames go back.
Capture(op, a, len) ==
  LET h == HeadLen(a, len) > 0
      n == MiddlePages(a, len)
      t == TailLen(a, len) > 0
      first == FindFree(PageCount(a, len))
      from == IF h THEN PageOf(a) + 1 ELSE PageOf(a)
      to == IF h THEN first + 1 ELSE first
      headOK == ~h \/ ~READ(op) \/ PageOf(a) \in present
      middleOK == headOK /\ Span(from, n) \subseteq present
      tailOK == middleOK /\ (~t \/ ~READ(op) \/ from + n \in present)
  IN /\ phase = "idle" /\ calls < MaxCalls
     /\ op.capture # "path"
     /\ first + PageCount(a, len) - 1 \in DstPages
     /\ dst' = [p \in DstPages |->
          CASE h /\ headOK /\ p = first -> <<"head", 0>>
            [] middleOK /\ p \in Span(to, n) -> <<"middle", from + p - to>>
            [] t /\ tailOK /\ p = to + n -> <<"tail", 0>>
            [] OTHER -> dst[p]]
     /\ ht' = [ht EXCEPT !["head"] = IF h /\ headOK THEN Head(op, a, len) ELSE @,
                         !["tail"] = IF t /\ tailOK THEN Tail(op, a, len) ELSE @]
     /\ IF tailOK
        THEN /\ phase' = "called"
             /\ frame' = [frame EXCEPT !["head"] = IF h THEN "Used" ELSE @, !["tail"] = IF t THEN "Used" ELSE @]
             /\ guard' = [op |-> op, addr |-> a, len |-> len, base |-> first * PAGE_SIZE + Offset(a),
                          head |-> h, tail |-> t, span |-> Span(first, PageCount(a, len))]
        ELSE UNCHANGED <<phase, frame, guard>>
     /\ result' = IF tailOK THEN "none" ELSE "EFAULT"
     /\ sent' = user
     /\ calls' = calls + 1
     /\ UNCHANGED <<user, present, wrote>>

\* copy_and_capture_tail: a path is copied to the tail frame, mapped for reading only.
CaptureTail(op, len) ==
  LET first == FindFree(1)
  IN /\ phase = "idle" /\ calls < MaxCalls
     /\ op.capture = "path"
     /\ len <= PAGE_SIZE
     /\ first \in DstPages
     /\ ht' = [ht EXCEPT !["tail"] = [o \in 0 .. PAGE_SIZE - 1 |-> IF o < len THEN Kernels + o ELSE @[o]]]
     /\ dst' = [dst EXCEPT ![first] = <<"tail", 0>>]
     /\ frame' = [frame EXCEPT !["tail"] = "Used"]
     /\ guard' = [op |-> op, addr |-> 0, len |-> len, base |-> first * PAGE_SIZE,
                  head |-> FALSE, tail |-> FALSE, span |-> {first}]
     /\ phase' = "called" /\ result' = "none"
     /\ sent' = user
     /\ calls' = calls + 1
     /\ UNCHANGED <<user, present, wrote>>

-----------------------------------------------------------------------------
\* The byte the handler sees at an address.
View(a) ==
  LET p == dst[PageOf(a)]
  IN  IF p[1] = "middle" THEN user[p[2] * PAGE_SIZE + Offset(a)] ELSE ht[p[1]][Offset(a)]

\* External: the handler stores a byte of the buffer, through whatever the page maps.
HandlerWrites(i) ==
  LET a == guard.base + i
      p == dst[PageOf(a)]
  IN /\ phase \in {"called", "killed"}
     /\ WRITE(guard.op)
     /\ i < guard.len
     /\ i \notin DOMAIN wrote /\ Cardinality(DOMAIN wrote) < MaxWrites
     /\ wrote' = [j \in DOMAIN wrote \cup {i} |-> IF j = i THEN Handlers + i ELSE wrote[j]]
     /\ IF p[1] = "middle"
        THEN user' = [user EXCEPT ![p[2] * PAGE_SIZE + Offset(a)] = Handlers + i] /\ UNCHANGED ht
        ELSE ht' = [ht EXCEPT ![p[1]][Offset(a)] = Handlers + i] /\ UNCHANGED user
     /\ UNCHANGED <<present, frame, dst, phase, guard, sent, calls, result>>

\* Another thread of the caller unmaps a page.
Unmap(p) ==
  /\ p \in present /\ NPages - Cardinality(present) < MaxUnmaps
  /\ present' = present \ {p}
  /\ UNCHANGED <<user, ht, frame, dst, phase, guard, sent, wrote, calls, result>>

\* The call returned: release_inner copies the head and the tail back and unmaps the span.  A copy
\* that faults ends it: what follows is not done, and a second release does nothing.
HeadBack == ~guard.head \/ ~WRITE(guard.op) \/ PageOf(guard.addr) \in present
TailBack == HeadBack /\ (~guard.tail \/ ~WRITE(guard.op) \/ PageOf(guard.addr + guard.len - 1) \in present)

\* Mutant of Released: only the head page is copied back.
Released_HeadOnly(span) ==
  /\ user' = [a \in Addrs |->
       IF WRITE(guard.op) /\ guard.head /\ HeadBack
            /\ a - guard.addr \in 0 .. HeadLen(guard.addr, guard.len) - 1
       THEN ht["head"][Offset(guard.base) + a - guard.addr] ELSE user[a]]
  /\ dst' = IF TailBack THEN [p \in DstPages |-> IF p \in span THEN <<"free", 0>> ELSE dst[p]] ELSE dst
  /\ frame' = [h \in {"head", "tail"} |-> "Free"]
  /\ result' = IF TailBack \/ guard.op.release = "drop" THEN "Ok" ELSE "EFAULT"

Released(span) ==
  LET tail == guard.addr + guard.len - TailLen(guard.addr, guard.len)
  IN /\ user' = [a \in Addrs |->
          CASE WRITE(guard.op) /\ guard.head /\ HeadBack
                 /\ a - guard.addr \in 0 .. HeadLen(guard.addr, guard.len) - 1 ->
                   ht["head"][Offset(guard.base) + a - guard.addr]
            [] WRITE(guard.op) /\ guard.tail /\ TailBack
                 /\ a - tail \in 0 .. TailLen(guard.addr, guard.len) - 1 -> ht["tail"][a - tail]
            [] OTHER -> user[a]]
     /\ dst' = IF TailBack THEN [p \in DstPages |-> IF p \in span THEN <<"free", 0>> ELSE dst[p]] ELSE dst
     /\ frame' = [h \in {"head", "tail"} |-> "Free"]
     /\ result' = IF TailBack \/ guard.op.release = "drop" THEN "Ok" ELSE "EFAULT"

Release ==
  /\ phase = "called"
  /\ Released(guard.span)
  /\ phase' = "idle"
  /\ guard' = NoGuard /\ sent' = user' /\ wrote' = [i \in {} |-> 0]
  /\ UNCHANGED <<present, ht, calls>>

\* SIGKILL while the call waits: the span becomes the handler's to unmap when it responds.
Kill ==
  /\ phase = "called"
  /\ Released(NoSpan)
  /\ phase' = "killed"
  /\ UNCHANGED <<present, ht, guard, sent, wrote, calls>>

\* respond to a call whose caller was killed: munmap of callee_responsible.
Respond ==
  /\ phase = "killed"
  /\ dst' = [p \in DstPages |-> IF p \in guard.span THEN <<"free", 0>> ELSE dst[p]]
  /\ phase' = "gone"
  /\ guard' = NoGuard /\ sent' = user /\ wrote' = [i \in {} |-> 0]
  /\ UNCHANGED <<user, present, ht, frame, calls, result>>

Next ==
  \/ \E op \in Operations, a \in Addrs, len \in 1 .. 2 * PAGE_SIZE :
       a + len - 1 \in Addrs /\ Capture(op, a, len)
  \/ \E op \in Operations, len \in 1 .. PAGE_SIZE : CaptureTail(op, len)
  \/ \E i \in 0 .. 2 * PAGE_SIZE - 1 : HandlerWrites(i)
  \/ \E p \in UserPages : Unmap(p)
  \/ Release \/ Kill \/ Respond

Spec == Init /\ [][Next]_vars

-----------------------------------------------------------------------------
InBuffer(a) == guard.op.capture # "path" /\ a >= guard.addr /\ a < guard.addr + guard.len

(* While a call is under way the handler sees the buffer as one run of     *)
(* bytes from the address it was given: what the caller sent, or zeroes in *)
(* the copied parts of a buffer it may only write, and its own stores.     *)
BufferIsContiguous ==
  phase \in {"called", "killed"} =>
    \A i \in 0 .. guard.len - 1 :
      View(guard.base + i) =
        IF i \in DOMAIN wrote THEN wrote[i]
        ELSE IF guard.op.capture = "path" THEN Kernels + i
        ELSE IF ~READ(guard.op) /\ dst[PageOf(guard.base + i)][1] # "middle" THEN 0
        ELSE sent[guard.addr + i]

WrittenBackStep ==
  phase = "called" =>
    /\ \A a \in Addrs : user'[a] # user[a] => InBuffer(a) /\ WRITE(guard.op)
    /\ phase' = "idle" /\ result' = "Ok" /\ guard.op.release = "checked" =>
          \A i \in DOMAIN wrote : user'[guard.addr + i] = wrote[i]

(* A call changes no byte of the caller outside its buffer, and none at    *)
(* all when the buffer is read-only; when an operation that looks at the   *)
(* outcome of release succeeds, what the handler wrote is in its place.    *)
WrittenBack == [][WrittenBackStep]_vars

=============================================================================
