----------------------------- MODULE PipeProofs -----------------------------
(***************************************************************************)
(* Proofs about pipes, for any number of readers and writers and any queue *)
(* size: no wake-up by data is lost, a closed pipe is removed, EINTR means *)
(* a signal, and a pipe implements the byte stream of ByteStream.          *)
(*                                                                         *)
(* For the first, IInv relates the queue lock, the wait lists and the      *)
(* status of the contexts; the point is that a context keeps the queue     *)
(* lock from its look at the queue until it is in the wait list, and that  *)
(* every change of the queue notifies.                                     *)
(***************************************************************************)
EXTENDS Pipe, SequenceTheorems, TLAPS

\* Who is past the queue lock holds it.
LockInv == \A c \in Ctx : pc[c] \in {"look", "block", "push"} <=> lock = c

\* What a context that has nothing to do knows while it holds the lock.
Idles(c) == IF c \in Reader THEN queue = <<>> ELSE Len(queue) = MAX_QUEUE_SIZE

CommitInv == \A c \in Ctx : pc[c] \in {"block", "push"} => Idles(c)

\* A blocked context is on its way into the wait list, or in it.
ListInv ==
    \A c \in Ctx :
        /\ status[c] = "Blocked" => pc[c] \in {"push", "switch"}
        /\ Asleep(c) => c \in waiters[EndOf(c)]

IInv == TypeOK /\ LockInv /\ CommitInv /\ ListInv /\ NoLostWakeup

\* Every context uses one of the two ends.
LEMMA EndType == \A c \in Ctx : EndOf(c) \in End /\ (EndOf(c) = "read" <=> c \in Reader)
  BY Zenon DEF EndOf, End

\* The record of a context that is in no call.
LEMMA NoCallType == NoCall \in [len : Nat, nonblock : BOOLEAN]
  BY Zenon DEF NoCall

\* What the end of a call does to the variables it writes.
LEMMA ReturnProps ==
    ASSUME TypeOK, NEW c \in Ctx,
           NEW r \in {"ok", "eof", "EAGAIN", "EINTR", "EPIPE", "EFAULT"}, Return(c, r)
    PROVE  /\ pc' \in [Ctx -> {"user", "lock", "look", "block", "push", "switch", "unlist"}]
           /\ result' \in [Ctx -> {"none", "ok", "eof", "EAGAIN", "EINTR", "EPIPE", "EFAULT"}]
           /\ lock' \in Ctx \cup {NoContext}
           /\ call' \in [Ctx -> [len : Nat, nonblock : BOOLEAN]]
           /\ LockInv => LockInv'
<1> USE DEF TypeOK, Return
<1>1. pc' \in [Ctx -> {"user", "lock", "look", "block", "push", "switch", "unlist"}]
  BY Zenon
<1>2. result' \in [Ctx -> {"none", "ok", "eof", "EAGAIN", "EINTR", "EPIPE", "EFAULT"}]
  BY Zenon
<1>3. lock' \in Ctx \cup {NoContext}
  BY Zenon
<1>4. call' \in [Ctx -> [len : Nat, nonblock : BOOLEAN]]
  BY NoCallType, Zenon
<1>5. ASSUME LockInv PROVE LockInv'
  BY <1>5, PipeAssumption, Zenon DEF LockInv
<1> QED
  BY <1>1, <1>2, <1>3, <1>4, <1>5, Zenon

\* The first half of WaitCondition::wait preserves the invariant.
LEMMA WaitBlockStep ==
    ASSUME IInv, NEW c \in Ctx, WaitBlock(c)
    PROVE  IInv'
<1> USE DEF IInv, TypeOK, WaitBlock, Return, byteVars, endVars
<1>1. TypeOK' /\ LockInv'
  <2>1. CASE signal[c]
    BY <2>1, ReturnProps, Zenon
  <2>2. CASE ~(signal[c])
    <3>1. pc' = [pc EXCEPT ![c] = "push"] /\ UNCHANGED <<lock, result, call>>
      BY <2>2, Zenon
    <3>2. LockInv'
      BY <2>2, <3>1, PipeAssumption, Zenon DEF LockInv
    <3> QED
      BY <2>2, <3>1, <3>2, Zenon
  <2> QED
    BY <2>1, <2>2, Zenon
<1>3. CommitInv'
  BY PipeAssumption DEF CommitInv, Idles, Ctx
<1>4. ListInv'
  BY EndType DEF ListInv, Asleep, LockInv
<1>5. NoLostWakeup'
  BY EndType DEF NoLostWakeup, CommitInv, Idles, ListInv, Asleep
<1> QED
  BY <1>1, <1>3, <1>4, <1>5, Zenon

\* The entry in the wait list preserves the invariant.
LEMMA WaitPushStep ==
    ASSUME IInv, NEW c \in Ctx, WaitPush(c)
    PROVE  IInv'
<1> USE DEF IInv, TypeOK, WaitPush, byteVars, endVars
<1>1. TypeOK'
  BY PipeAssumption, EndType, NoCallType DEF End
<1>2. LockInv'
  BY PipeAssumption, Zenon DEF LockInv
<1>3. CommitInv'
  BY PipeAssumption, Zenon DEF CommitInv, Idles, Ctx
<1>4. ListInv'
  BY EndType DEF ListInv, Asleep, LockInv
<1>5. NoLostWakeup'
  BY EndType, Zenon DEF NoLostWakeup, CommitInv, Idles, ListInv, Asleep
<1> QED
  BY <1>1, <1>2, <1>3, <1>4, <1>5, Zenon

\* The return of switch() preserves the invariant.
LEMMA WaitResumeStep ==
    ASSUME IInv, NEW c \in Ctx, WaitResume(c)
    PROVE  IInv'
<1> USE DEF IInv, TypeOK, WaitResume, byteVars, endVars
<1>1. TypeOK'
  BY PipeAssumption, EndType, NoCallType, Zenon DEF End
<1>2. LockInv'
  BY PipeAssumption, Zenon DEF LockInv
<1>3. CommitInv'
  BY PipeAssumption, Zenon DEF CommitInv, Idles, Ctx
<1>4. ListInv'
  BY EndType, Zenon DEF ListInv, Asleep, LockInv
<1>5. NoLostWakeup'
  BY EndType, Zenon DEF NoLostWakeup, CommitInv, Idles, ListInv, Asleep
<1> QED
  BY <1>1, <1>2, <1>3, <1>4, <1>5, Zenon

\* The end of WaitCondition::wait preserves the invariant.
LEMMA WaitUnlistStep ==
    ASSUME IInv, NEW c \in Ctx, WaitUnlist(c)
    PROVE  IInv'
<1> USE DEF IInv, TypeOK, WaitUnlist, Return, byteVars, endVars
<1>1. TypeOK' /\ LockInv'
  <2>1. CASE c \in waiters[EndOf(c)]
    BY <2>1, ReturnProps, EndType, Zenon DEF End
  <2>2. CASE ~(c \in waiters[EndOf(c)])
    <3>1. pc' = [pc EXCEPT ![c] = "lock"] /\ UNCHANGED <<lock, result, call>>
      BY <2>2, Zenon
    <3>2. LockInv'
      BY <2>2, <3>1, PipeAssumption, Zenon DEF LockInv
    <3> QED
      BY <2>2, <3>1, <3>2, EndType, Zenon DEF End
  <2> QED
    BY <2>1, <2>2, Zenon
<1>3. CommitInv'
  BY PipeAssumption DEF CommitInv, Idles, Ctx
<1>4. ListInv'
  BY EndType DEF ListInv, Asleep, LockInv
<1>5. NoLostWakeup'
  BY EndType, Zenon DEF NoLostWakeup, CommitInv, Idles, ListInv, Asleep
<1> QED
  BY <1>1, <1>3, <1>4, <1>5, Zenon

\* Entering kread or kwrite preserves the invariant.
LEMMA CallStep ==
    ASSUME IInv, NEW c \in Ctx, NEW n \in Sizes, NEW nb \in BOOLEAN, Call(c, n, nb)
    PROVE  IInv'
<1> USE DEF IInv, TypeOK, Call, byteVars, endVars
<1>1. TypeOK'
  BY PipeAssumption, EndType, NoCallType, Zenon DEF End
<1>2. LockInv'
  BY PipeAssumption, Zenon DEF LockInv
<1>3. CommitInv'
  BY PipeAssumption, Zenon DEF CommitInv, Idles, Ctx
<1>4. ListInv'
  BY EndType DEF ListInv, Asleep, LockInv
<1>5. NoLostWakeup'
  BY EndType, Zenon DEF NoLostWakeup, CommitInv, Idles, ListInv, Asleep
<1> QED
  BY <1>1, <1>2, <1>3, <1>4, <1>5, Zenon

\* Locking the queue preserves the invariant.
LEMMA LockQueueStep ==
    ASSUME IInv, NEW c \in Ctx, LockQueue(c)
    PROVE  IInv'
<1> USE DEF IInv, TypeOK, LockQueue, byteVars, endVars
<1>1. TypeOK'
  BY PipeAssumption, EndType, NoCallType, Zenon DEF End
<1>2. LockInv'
  BY PipeAssumption, Zenon DEF LockInv
<1>3. CommitInv'
  BY PipeAssumption, Zenon DEF CommitInv, Idles, Ctx
<1>4. ListInv'
  BY EndType, Zenon DEF ListInv, Asleep, LockInv
<1>5. NoLostWakeup'
  BY EndType, Zenon DEF NoLostWakeup, CommitInv, Idles, ListInv, Asleep
<1> QED
  BY <1>1, <1>2, <1>3, <1>4, <1>5, Zenon

\* A failed user copy preserves the invariant.
LEMMA FaultStep ==
    ASSUME IInv, NEW c \in Ctx, Fault(c)
    PROVE  IInv'
<1> USE DEF IInv, TypeOK, Fault, Return, byteVars, endVars
<1>1. TypeOK'
  BY PipeAssumption, EndType, NoCallType, Zenon DEF End
<1>2. LockInv'
  BY PipeAssumption DEF LockInv
<1>3. CommitInv'
  BY PipeAssumption, Zenon DEF CommitInv, Idles, Ctx
<1>4. ListInv'
  BY EndType DEF ListInv, Asleep, LockInv
<1>5. NoLostWakeup'
  BY EndType, Zenon DEF NoLostWakeup, CommitInv, Idles, ListInv, Asleep
<1> QED
  BY <1>1, <1>2, <1>3, <1>4, <1>5, Zenon

\* A kread that finds no byte preserves the invariant.
LEMMA KreadNothingStep ==
    ASSUME IInv, NEW c \in Ctx, KreadNothing(c)
    PROVE  IInv'
<1> USE DEF IInv, TypeOK, KreadNothing, Nothing, Least, byteVars, endVars
<1>1. TypeOK' /\ LockInv'
  <2>1. CASE call[c].len = 0 \/ call[c].nonblock \/ ~alive["write"]
    <3>1. \E r \in {"ok", "eof", "EAGAIN"} : Return(c, r)
      BY <2>1
    <3>2. UNCHANGED <<waiters, status, signal, byteVars, endVars>>
      BY <2>1, Zenon
    <3> HIDE DEF KreadNothing, Nothing
    <3> QED
      BY <3>1, <3>2, ReturnProps
  <2>2. CASE ~(call[c].len = 0 \/ call[c].nonblock \/ ~alive["write"])
    <3>1. pc' = [pc EXCEPT ![c] = "block"] /\ UNCHANGED <<lock, result, call>>
      BY <2>2, Zenon
    <3>2. LockInv'
      BY <2>2, <3>1, PipeAssumption, Zenon DEF LockInv
    <3> QED
      BY <2>2, <3>1, <3>2, Zenon
  <2> QED
    BY <2>1, <2>2, Zenon
<1>3. CommitInv'
  <2> SUFFICES ASSUME NEW d \in Ctx, pc'[d] \in {"block", "push"} PROVE Idles(d)'
    BY Zenon DEF CommitInv
  <2>1. queue' = queue /\ (d # c => pc'[d] = pc[d])
    BY DEF Return
  <2>2. CASE d # c
    BY <2>1, <2>2, Zenon DEF CommitInv, Idles
  <2>3. CASE d = c
    <3>1. Len(queue) \in Nat /\ call[c].len > 0 /\ call[c].len \in Nat
      BY <2>3 DEF Return
    <3>2. queue = <<>>
      BY <3>1
    <3> QED
      BY <2>1, <2>3, <3>2, Zenon DEF Idles
  <2> QED
    BY <2>2, <2>3, Zenon
<1>4. ListInv'
  BY EndType DEF ListInv, Asleep, LockInv, Return
<1>5. NoLostWakeup'
  BY EndType, Zenon DEF NoLostWakeup, CommitInv, Idles, ListInv, Asleep
<1> QED
  BY <1>1, <1>3, <1>4, <1>5, Zenon

\* A kwrite without a reader preserves the invariant.
LEMMA KwriteBrokenStep ==
    ASSUME IInv, NEW c \in Ctx, KwriteBroken(c)
    PROVE  IInv'
<1> USE DEF IInv, TypeOK, KwriteBroken, Return, byteVars, endVars
<1>1. TypeOK'
  BY PipeAssumption, EndType, NoCallType, Zenon DEF End
<1>2. LockInv'
  BY PipeAssumption, Zenon DEF LockInv
<1>3. CommitInv'
  BY PipeAssumption, Zenon DEF CommitInv, Idles, Ctx
<1>4. ListInv'
  BY EndType DEF ListInv, Asleep, LockInv
<1>5. NoLostWakeup'
  BY EndType, Zenon DEF NoLostWakeup, CommitInv, Idles, ListInv, Asleep
<1> QED
  BY <1>1, <1>2, <1>3, <1>4, <1>5, Zenon

\* A kwrite that finds no room preserves the invariant.
LEMMA KwriteNothingStep ==
    ASSUME IInv, NEW c \in Ctx, KwriteNothing(c)
    PROVE  IInv'
<1> USE DEF IInv, TypeOK, KwriteNothing, Nothing, Room, Least, byteVars, endVars
<1>1. TypeOK' /\ LockInv'
  <2>1. CASE call[c].len = 0 \/ call[c].nonblock
    <3>1. \E r \in {"ok", "eof", "EAGAIN"} : Return(c, r)
      BY <2>1
    <3>2. UNCHANGED <<waiters, status, signal, byteVars, endVars>>
      BY <2>1, Zenon
    <3> HIDE DEF KwriteNothing, Nothing, Room, Least
    <3> QED
      BY <3>1, <3>2, ReturnProps
  <2>2. CASE ~(call[c].len = 0 \/ call[c].nonblock)
    <3>1. pc' = [pc EXCEPT ![c] = "block"] /\ UNCHANGED <<lock, result, call>>
      BY <2>2, Zenon
    <3>2. LockInv'
      BY <2>2, <3>1, PipeAssumption DEF LockInv
    <3> QED
      BY <2>2, <3>1, <3>2, Zenon
  <2> QED
    BY <2>1, <2>2, Zenon
<1>3. CommitInv'
  BY PipeAssumption DEF CommitInv, Idles, Ctx, Return
<1>4. ListInv'
  BY EndType DEF ListInv, Asleep, LockInv, Return
<1>5. NoLostWakeup'
  BY EndType, Zenon DEF NoLostWakeup, CommitInv, Idles, ListInv, Asleep
<1> QED
  BY <1>1, <1>3, <1>4, <1>5, Zenon

\* Duplicating the write end preserves the invariant.
LEMMA KdupStep ==
    ASSUME IInv, Kdup
    PROVE  IInv'
<1> USE DEF IInv, TypeOK, Kdup, byteVars, endVars
<1>1. TypeOK'
  BY PipeAssumption, EndType, NoCallType, Zenon DEF End
<1>2. LockInv'
  BY PipeAssumption, Zenon DEF LockInv
<1>3. CommitInv'
  BY PipeAssumption, Zenon DEF CommitInv, Idles, Ctx
<1>4. ListInv'
  BY EndType, Zenon DEF ListInv, Asleep, LockInv
<1>5. NoLostWakeup'
  BY EndType, Zenon DEF NoLostWakeup, CommitInv, Idles, ListInv, Asleep
<1> QED
  BY <1>1, <1>2, <1>3, <1>4, <1>5, Zenon

\* The first step of close() preserves the invariant.
LEMMA CloseStoreStep ==
    ASSUME IInv, NEW e \in End, CloseStore(e)
    PROVE  IInv'
<1> USE DEF IInv, TypeOK, CloseStore, byteVars, endVars
<1>1. TypeOK'
  BY PipeAssumption, EndType, NoCallType, Zenon DEF End
<1>2. LockInv'
  BY PipeAssumption, Zenon DEF LockInv
<1>3. CommitInv'
  BY PipeAssumption, Zenon DEF CommitInv, Idles, Ctx
<1>4. ListInv'
  BY EndType, Zenon DEF ListInv, Asleep, LockInv
<1>5. NoLostWakeup'
  BY EndType, Zenon DEF NoLostWakeup, CommitInv, Idles, ListInv, Asleep
<1> QED
  BY <1>1, <1>2, <1>3, <1>4, <1>5, Zenon

\* The notification of close() preserves the invariant.
LEMMA CloseNotifyStep ==
    ASSUME IInv, NEW e \in End, CloseNotify(e)
    PROVE  IInv'
<1> USE DEF IInv, TypeOK, CloseNotify, Notify, Other, byteVars, endVars
<1>1. TypeOK'
  BY PipeAssumption, EndType, NoCallType, Zenon DEF End
<1>2. LockInv'
  BY PipeAssumption, Zenon DEF LockInv
<1>3. CommitInv'
  BY PipeAssumption, Zenon DEF CommitInv, Idles, Ctx
<1>4. ListInv'
  BY EndType, Zenon DEF ListInv, Asleep, LockInv
<1>5. NoLostWakeup'
  BY EndType, Zenon DEF NoLostWakeup, CommitInv, Idles, ListInv, Asleep
<1> QED
  BY <1>1, <1>2, <1>3, <1>4, <1>5, Zenon

\* The end of close() preserves the invariant.
LEMMA CloseRemoveStep ==
    ASSUME IInv, NEW e \in End, CloseRemove(e)
    PROVE  IInv'
<1> USE DEF IInv, TypeOK, CloseRemove, byteVars, endVars
<1>1. TypeOK'
  BY PipeAssumption, EndType, NoCallType, Zenon DEF End
<1>2. LockInv'
  BY PipeAssumption, Zenon DEF LockInv
<1>3. CommitInv'
  BY PipeAssumption, Zenon DEF CommitInv, Idles, Ctx
<1>4. ListInv'
  BY EndType, Zenon DEF ListInv, Asleep, LockInv
<1>5. NoLostWakeup'
  BY EndType, Zenon DEF NoLostWakeup, CommitInv, Idles, ListInv, Asleep
<1> QED
  BY <1>1, <1>2, <1>3, <1>4, <1>5, Zenon

\* A signal becoming pending preserves the invariant.
LEMMA SignalSetStep ==
    ASSUME IInv, NEW c \in Ctx, SignalSet(c)
    PROVE  IInv'
<1> USE DEF IInv, TypeOK, SignalSet, byteVars, endVars
<1>1. TypeOK'
  BY PipeAssumption, EndType, NoCallType, Zenon DEF End
<1>2. LockInv'
  BY PipeAssumption, Zenon DEF LockInv
<1>3. CommitInv'
  BY PipeAssumption, Zenon DEF CommitInv, Idles, Ctx
<1>4. ListInv'
  BY EndType, Zenon DEF ListInv, Asleep, LockInv
<1>5. NoLostWakeup'
  BY EndType, Zenon DEF NoLostWakeup, CommitInv, Idles, ListInv, Asleep
<1> QED
  BY <1>1, <1>2, <1>3, <1>4, <1>5, Zenon

\* The Interrupt verb preserves the invariant.
LEMMA SignalInterruptStep ==
    ASSUME IInv, NEW c \in Ctx, SignalInterrupt(c)
    PROVE  IInv'
<1> USE DEF IInv, TypeOK, SignalInterrupt, byteVars, endVars
<1>1. TypeOK'
  BY PipeAssumption, EndType, NoCallType, Zenon DEF End
<1>2. LockInv'
  BY PipeAssumption, Zenon DEF LockInv
<1>3. CommitInv'
  BY PipeAssumption, Zenon DEF CommitInv, Idles, Ctx
<1>4. ListInv'
  BY EndType DEF ListInv, Asleep, LockInv
<1>5. NoLostWakeup'
  BY EndType DEF NoLostWakeup, CommitInv, Idles, ListInv, Asleep
<1> QED
  BY <1>1, <1>2, <1>3, <1>4, <1>5, Zenon

\* The handling of a signal preserves the invariant.
LEMMA SignalHandledStep ==
    ASSUME IInv, NEW c \in Ctx, SignalHandled(c)
    PROVE  IInv'
<1> USE DEF IInv, TypeOK, SignalHandled, byteVars, endVars
<1>1. TypeOK'
  BY PipeAssumption, EndType, NoCallType, Zenon DEF End
<1>2. LockInv'
  BY PipeAssumption, Zenon DEF LockInv
<1>3. CommitInv'
  BY PipeAssumption, Zenon DEF CommitInv, Idles, Ctx
<1>4. ListInv'
  BY EndType, Zenon DEF ListInv, Asleep, LockInv
<1>5. NoLostWakeup'
  BY EndType, Zenon DEF NoLostWakeup, CommitInv, Idles, ListInv, Asleep
<1> QED
  BY <1>1, <1>2, <1>3, <1>4, <1>5, Zenon

\* Splitting a queue at n: the two parts, and what they add up to.
LEMMA DrainProps ==
    ASSUME NEW q \in Seq(Nat), NEW n \in Nat, n =< Len(q)
    PROVE  /\ SubSeq(q, 1, n) \in Seq(Nat)
           /\ SubSeq(q, n + 1, Len(q)) \in Seq(Nat)
           /\ Len(SubSeq(q, n + 1, Len(q))) = Len(q) - n
           /\ SubSeq(q, 1, n) \o SubSeq(q, n + 1, Len(q)) = q
<1>1. \A i \in 1 .. Len(q) : q[i] \in Nat
  OBVIOUS
<1>2. SubSeq(q, 1, n) \in Seq(Nat)
  BY <1>1, SubSeqProperties
<1>3. SubSeq(q, n + 1, Len(q)) \in Seq(Nat) /\ Len(SubSeq(q, n + 1, Len(q))) = Len(q) - n
  BY <1>1, SubSeqProperties
<1>4. SubSeq(q, 1, n) \o SubSeq(q, n + 1, Len(q)) = SubSeq(q, 1, Len(q))
  <2>1. 1 \in 1 .. Len(q) + 1 /\ n \in 1 - 1 .. Len(q) /\ Len(q) \in n .. Len(q)
    OBVIOUS
  <2> QED
    BY <2>1, ConcatAdjacentSubSeq, Zenon
<1> QED
  BY <1>2, <1>3, <1>4, SubSeqFull, Zenon

\* Concatenation of byte sequences is associative.
LEMMA Associative == \A x, y, z \in Seq(Nat) : (x \o y) \o z = x \o (y \o z)
<1> TAKE x, y, z \in Seq(Nat)
<1> DEFINE l == (x \o y) \o z
           r == x \o (y \o z)
<1>1. l \in Seq(Nat) /\ r \in Seq(Nat) /\ Len(l) = Len(r)
  OBVIOUS
<1>2. \A i \in 1 .. Len(l) : l[i] = r[i]
  OBVIOUS
<1> HIDE DEF l, r
<1>3. l = r
  BY <1>1, <1>2, SeqEqual, Zenon
<1> QED
  BY <1>3, Zenon DEF l, r

\* Moving a prefix of the queue to what was read before keeps the stream.
LEMMA MovePrefix ==
    ASSUME NEW g \in Seq(Nat), NEW q \in Seq(Nat), NEW n \in Nat, n =< Len(q)
    PROVE  (g \o SubSeq(q, 1, n)) \o SubSeq(q, n + 1, Len(q)) = g \o q
<1> DEFINE x == SubSeq(q, 1, n)
           y == SubSeq(q, n + 1, Len(q))
<1>1. x \in Seq(Nat) /\ y \in Seq(Nat) /\ x \o y = q
  BY DrainProps, Zenon
<1> HIDE DEF x, y
<1>2. (g \o x) \o y = g \o (x \o y)
  BY <1>1, Associative, ZenonT(60)
<1>3. (g \o x) \o y = g \o q
  BY <1>1, <1>2, Zenon
<1> QED
  BY <1>3, Zenon DEF x, y

\* Reading preserves the invariant: the queue shrinks, and all writers that
\* were asleep are notified.  No reader was asleep, since there were bytes.
LEMMA KreadBytesStep ==
    ASSUME IInv, NEW c \in Ctx, KreadBytes(c)
    PROVE  IInv'
<1> DEFINE n == Least(call[c].len, Len(queue))
<1>1. n \in Nat /\ n > 0 /\ n =< Len(queue) /\ queue # <<>>
  <2>1. call[c].len \in Nat /\ queue \in Seq(Nat)
    BY Zenon DEF IInv, TypeOK
  <2>2. n > 0
    BY Zenon DEF KreadBytes
  <2> QED
    BY <2>1, <2>2 DEF Least
<1> USE DEF IInv, TypeOK, KreadBytes, Notify, Return, endVars
<1>2. /\ queue' \in Seq(Nat) /\ Len(queue') =< MAX_QUEUE_SIZE
      /\ SubSeq(queue, 1, n) \in Seq(Nat)
  <2>1. queue' = SubSeq(queue, n + 1, Len(queue)) /\ queue \in Seq(Nat) /\ Len(queue) =< MAX_QUEUE_SIZE
    BY Zenon
  <2> HIDE DEF n, TypeOK, KreadBytes
  <2>2. queue' \in Seq(Nat) /\ Len(queue') = Len(queue) - n /\ SubSeq(queue, 1, n) \in Seq(Nat)
    BY <1>1, <2>1, DrainProps, Zenon
  <2> QED
    BY <1>1, <2>1, <2>2, PipeAssumption
<1>3. TypeOK'
  <2>1. got' \in Seq(Nat)
    BY <1>2, ConcatProperties, Zenon
  <2> QED
    BY <1>2, <2>1, PipeAssumption, NoCallType, Zenon DEF End
<1>4. LockInv'
  BY PipeAssumption DEF LockInv
<1>5. CommitInv'
  BY PipeAssumption, Zenon DEF CommitInv, LockInv
<1>6. ListInv'
  BY EndType DEF ListInv, Asleep, LockInv
<1>7. NoLostWakeup'
  BY <1>1, EndType, Zenon DEF NoLostWakeup, ListInv, Asleep, End
<1> QED
  BY <1>3, <1>4, <1>5, <1>6, <1>7, Zenon

\* Writing preserves the invariant, in the same way.
LEMMA KwriteBytesStep ==
    ASSUME IInv, NEW c \in Ctx, NEW n \in Nat, KwriteBytes(c, n)
    PROVE  IInv'
<1> DEFINE new == [i \in 1 .. n |-> Len(sent) + i]
<1> USE DEF IInv, TypeOK, KwriteBytes, Notify, Return, endVars
<1>1. n > 0 /\ Len(queue) + n =< MAX_QUEUE_SIZE
  BY PipeAssumption, SMTT(20) DEF Room, Least
<1>2. new \in Seq(Nat) /\ Len(new) = n
  BY <1>1
<1>3. queue' \in Seq(Nat) /\ Len(queue') = Len(queue) + n /\ sent' \in Seq(Nat)
  <2>1. queue' = queue \o new /\ sent' = sent \o new /\ queue \in Seq(Nat) /\ sent \in Seq(Nat)
    BY Zenon
  <2> HIDE DEF new, IInv, TypeOK, KwriteBytes
  <2> QED
    BY <1>2, <2>1, ConcatProperties, Zenon
<1>4. TypeOK'
  BY <1>1, <1>3, PipeAssumption, NoCallType, Zenon DEF End
<1>5. LockInv'
  BY PipeAssumption DEF LockInv
<1>6. CommitInv'
  BY PipeAssumption DEF CommitInv, LockInv
<1>7. ListInv'
  <2> SUFFICES ASSUME NEW d \in Ctx, status'[d] = "Blocked"
               PROVE  pc'[d] \in {"push", "switch"} /\ (pc'[d] = "switch" => d \in waiters'[EndOf(d)])
    BY Zenon DEF ListInv, Asleep
  <2>1. status[d] = "Blocked" /\ d \notin waiters["read"] /\ pc[c] = "look"
    BY Zenon
  <2>2. pc[d] \in {"push", "switch"} /\ (pc[d] = "switch" => d \in waiters[EndOf(d)])
    BY <2>1, Zenon DEF ListInv, Asleep
  <2>3. d # c /\ pc'[d] = pc[d]
    BY <2>1, <2>2, Zenon
  <2> QED
    BY <2>1, <2>2, <2>3, EndType, Zenon DEF End
<1>8. NoLostWakeup'
  <2> SUFFICES ASSUME NEW d \in Ctx, Asleep(d)'
               PROVE  d \in Writer /\ Len(queue') = MAX_QUEUE_SIZE
    BY EndType, PipeAssumption, Zenon DEF NoLostWakeup, Ctx
  <2>1. Asleep(d) /\ d \notin waiters["read"]
    BY Zenon DEF Asleep
  <2>2. d \notin Reader
    BY <2>1, EndType, Zenon DEF ListInv
  <2>3. Len(queue) = MAX_QUEUE_SIZE
    BY <2>1, <2>2, Zenon DEF NoLostWakeup
  <2>4. Len(queue) \in Nat
    OBVIOUS
  <2> HIDE DEF IInv, TypeOK, KwriteBytes
  <2> QED
    BY <1>1, <2>3, <2>4, PipeAssumption
<1> QED
  BY <1>4, <1>5, <1>6, <1>7, <1>8, Zenon

\* A new pipe satisfies the invariant.
LEMMA InitIInv == Init => IInv
<1> SUFFICES ASSUME Init PROVE IInv
  BY Zenon
<1> USE PipeAssumption, NoCallType DEF Init
<1>1. TypeOK
  <2>1. queue \in Seq(Nat) /\ Len(queue) = 0 /\ sent \in Seq(Nat) /\ got \in Seq(Nat)
    OBVIOUS
  <2>2. call \in [Ctx -> [len : Nat, nonblock : BOOLEAN]]
    BY Zenon
  <2>3. /\ pipes \in BOOLEAN /\ has_run_dup \in BOOLEAN /\ open \subseteq End
        /\ alive \in [End -> BOOLEAN] /\ lock \in Ctx \cup {NoContext}
        /\ closing \in [End -> {"no", "stored", "notified", "done"}]
        /\ waiters \in [End -> SUBSET Ctx]
    BY Zenon DEF End
  <2>4. /\ status \in [Ctx -> {"Runnable", "Blocked"}] /\ signal \in [Ctx -> BOOLEAN]
        /\ pc \in [Ctx -> {"user", "lock", "look", "block", "push", "switch", "unlist"}]
        /\ result \in [Ctx -> {"none", "ok", "eof", "EAGAIN", "EINTR", "EPIPE", "EFAULT"}]
    BY Zenon
  <2> QED
    BY <2>1, <2>2, <2>3, <2>4 DEF TypeOK
<1>2. LockInv /\ CommitInv /\ ListInv /\ NoLostWakeup
  BY Zenon DEF LockInv, CommitInv, ListInv, NoLostWakeup, Asleep
<1> QED
  BY <1>1, <1>2, Zenon DEF IInv

\* Every step preserves the invariant.
LEMMA NextIInv == IInv /\ [Next]_vars => IInv'
<1> SUFFICES ASSUME IInv, [Next]_vars PROVE IInv'
  BY Zenon
<1>1. CASE UNCHANGED vars
  <2> USE <1>1 DEF vars, IInv
  <2>1. TypeOK'
    BY Zenon DEF TypeOK
  <2>2. LockInv'
    BY Zenon DEF LockInv
  <2>3. CommitInv'
    BY Zenon DEF CommitInv, Idles
  <2>4. ListInv'
    BY Zenon DEF ListInv, Asleep
  <2>5. NoLostWakeup'
    BY Zenon DEF NoLostWakeup, Asleep
  <2> QED
    BY <2>1, <2>2, <2>3, <2>4, <2>5, Zenon
<1>2. ASSUME NEW c \in Ctx, Work(c) PROVE IInv'
  BY <1>2, PipeAssumption, KreadBytesStep, KreadNothingStep, KwriteBrokenStep, KwriteNothingStep,
     KwriteBytesStep, WaitBlockStep, WaitPushStep, WaitResumeStep, WaitUnlistStep DEF Work
<1>3. ASSUME NEW e \in End, CloseStore(e) \/ CloseStep(e) PROVE IInv'
  BY <1>3, CloseStoreStep, CloseNotifyStep, CloseRemoveStep, Zenon DEF CloseStep
<1>4. ASSUME NEW c \in Ctx,
             \/ \E n \in Sizes, nb \in BOOLEAN : Call(c, n, nb)
             \/ LockQueue(c) \/ Fault(c)
             \/ SignalSet(c) \/ SignalInterrupt(c) \/ SignalHandled(c)
      PROVE  IInv'
  BY <1>4, CallStep, LockQueueStep, FaultStep, SignalSetStep, SignalInterruptStep, SignalHandledStep, Zenon
<1> QED
  BY <1>1, <1>2, <1>3, <1>4, KdupStep, Zenon DEF Next

\* The invariant holds in every reachable state.
THEOREM Invariance == Spec => []IInv
  BY InitIInv, NextIInv, PTL DEF Spec

\* The state of a pipe is well typed; the queue stays within MAX_QUEUE_SIZE.
THEOREM TypeCorrect == Spec => []TypeOK
<1>1. IInv => TypeOK
  BY Zenon DEF IInv
<1> QED
  BY <1>1, Invariance, PTL

\* No reader sleeps on queued bytes and no writer on free room.
THEOREM WakeupsKept == Spec => []NoLostWakeup
<1>1. IInv => NoLostWakeup
  BY Zenon DEF IInv
<1> QED
  BY <1>1, Invariance, PTL

\* Every byte written is read once and in order: only kread and kwrite touch the
\* queue, and each moves a prefix or adds a suffix.
THEOREM BytesInOrder == Spec => []FifoExact
<1>1. Init => FifoExact
  <2> SUFFICES ASSUME Init PROVE got \o queue = sent
    BY Zenon DEF FifoExact
  <2>1. got = <<>> /\ queue = <<>> /\ sent = <<>> /\ <<>> \in Seq(Nat)
    BY DEF Init
  <2> QED
    BY <2>1, ConcatEmptySeq, Zenon
<1>2. ASSUME TypeOK, FifoExact, NEW c \in Ctx, KreadBytes(c) PROVE FifoExact'
  <2> DEFINE n == Least(call[c].len, Len(queue))
  <2>1. /\ got' = got \o SubSeq(queue, 1, n)
        /\ queue' = SubSeq(queue, n + 1, Len(queue))
        /\ sent' = sent /\ sent = got \o queue
    BY <1>2, Zenon DEF KreadBytes, FifoExact
  <2>2. n \in Nat /\ n =< Len(queue) /\ queue \in Seq(Nat) /\ got \in Seq(Nat)
    BY <1>2 DEF TypeOK, Least
  <2> HIDE DEF n
  <2>3. (got \o SubSeq(queue, 1, n)) \o SubSeq(queue, n + 1, Len(queue)) = got \o queue
    BY <2>2, MovePrefix, Zenon
  <2> QED
    BY <2>1, <2>3, Zenon DEF FifoExact
<1>3. ASSUME TypeOK, FifoExact, NEW c \in Ctx, NEW n \in Nat, KwriteBytes(c, n) PROVE FifoExact'
  <2> DEFINE new == [i \in 1 .. n |-> Len(sent) + i]
  <2>1. queue' = queue \o new /\ sent' = sent \o new /\ got' = got /\ sent = got \o queue
    BY <1>3, Zenon DEF KwriteBytes, FifoExact
  <2>2. new \in Seq(Nat) /\ queue \in Seq(Nat) /\ got \in Seq(Nat)
    BY <1>3 DEF TypeOK
  <2> HIDE DEF new
  <2>3. (got \o queue) \o new = got \o (queue \o new)
    BY <2>2, Associative, Zenon
  <2> QED
    BY <2>1, <2>3, Zenon DEF FifoExact
<1>4. [Next]_vars => \/ UNCHANGED byteVars
                     \/ \E c \in Ctx : KreadBytes(c) \/ \E n \in Nat : KwriteBytes(c, n)
  <2> USE DEF byteVars
  <2>1. UNCHANGED vars => UNCHANGED byteVars
    BY Zenon DEF vars
  <2>2. ASSUME NEW c \in Ctx, Work(c)
        PROVE  UNCHANGED byteVars \/ KreadBytes(c) \/ \E n \in Nat : KwriteBytes(c, n)
    <3>1. KreadNothing(c) \/ KwriteNothing(c) \/ KwriteBroken(c) => UNCHANGED byteVars
      BY Zenon DEF KreadNothing, KwriteNothing, KwriteBroken, Nothing
    <3>2. WaitBlock(c) \/ WaitPush(c) \/ WaitResume(c) \/ WaitUnlist(c) => UNCHANGED byteVars
      BY Zenon DEF WaitBlock, WaitPush, WaitResume, WaitUnlist
    <3> QED
      BY <2>2, <3>1, <3>2, PipeAssumption DEF Work
  <2>3. \A e \in End : CloseStore(e) \/ CloseStep(e) => UNCHANGED byteVars
    BY Zenon DEF CloseStore, CloseStep, CloseNotify, CloseRemove
  <2>4. \A c \in Ctx : \A n \in Sizes, nb \in BOOLEAN : Call(c, n, nb) => UNCHANGED byteVars
    BY Zenon DEF Call
  <2>5. \A c \in Ctx : LockQueue(c) \/ Fault(c) => UNCHANGED byteVars
    BY Zenon DEF LockQueue, Fault
  <2>6. \A c \in Ctx : SignalSet(c) \/ SignalInterrupt(c) \/ SignalHandled(c) => UNCHANGED byteVars
    BY Zenon DEF SignalSet, SignalInterrupt, SignalHandled
  <2>7. Kdup => UNCHANGED byteVars
    BY Zenon DEF Kdup
  <2> QED
    BY <2>1, <2>2, <2>3, <2>4, <2>5, <2>6, <2>7, Zenon DEF Next
<1>5. TypeOK /\ FifoExact /\ [Next]_vars => FifoExact'
  BY <1>2, <1>3, <1>4, Zenon DEF FifoExact, byteVars
<1> QED
  BY <1>1, <1>5, TypeCorrect, PTL DEF Spec

-----------------------------------------------------------------------------
(* The two ends: a pipe whose ends are both closed is gone.                  *)

\* The flag of an end is cleared before close() of that end looks at the other's.
ClosedInv == \A e \in End : closing[e] # "no" => ~alive[e]

\* Only close() writes what ClosedInv and ClosedPipeRemoved speak of.
LEMMA EndsKept ==
    ASSUME [Next]_vars
    PROVE  \/ UNCHANGED <<pipes, alive, closing>>
           \/ \E e \in End : CloseStore(e) \/ CloseNotify(e) \/ CloseRemove(e)
<1> USE DEF endVars
<1>1. UNCHANGED vars => UNCHANGED <<pipes, alive, closing>>
  BY Zenon DEF vars
<1>2. ASSUME NEW c \in Ctx, Work(c) PROVE UNCHANGED <<pipes, alive, closing>>
  <2>1. \A n \in Nat : KreadBytes(c) \/ KwriteBytes(c, n) => UNCHANGED <<pipes, alive, closing>>
    BY Zenon DEF KreadBytes, KwriteBytes
  <2>2. KreadNothing(c) \/ KwriteNothing(c) \/ KwriteBroken(c) => UNCHANGED <<pipes, alive, closing>>
    BY Zenon DEF KreadNothing, KwriteNothing, KwriteBroken, Nothing
  <2>3. WaitBlock(c) \/ WaitPush(c) \/ WaitResume(c) \/ WaitUnlist(c)
          => UNCHANGED <<pipes, alive, closing>>
    BY Zenon DEF WaitBlock, WaitPush, WaitResume, WaitUnlist
  <2> QED
    BY <1>2, <2>1, <2>2, <2>3, PipeAssumption DEF Work
<1>3. \A c \in Ctx : \A n \in Sizes, nb \in BOOLEAN :
        Call(c, n, nb) => UNCHANGED <<pipes, alive, closing>>
  BY Zenon DEF Call
<1>4. \A c \in Ctx : LockQueue(c) \/ Fault(c) => UNCHANGED <<pipes, alive, closing>>
  BY Zenon DEF LockQueue, Fault
<1>5. \A c \in Ctx : SignalSet(c) \/ SignalInterrupt(c) \/ SignalHandled(c)
        => UNCHANGED <<pipes, alive, closing>>
  BY Zenon DEF SignalSet, SignalInterrupt, SignalHandled
<1>6. Kdup => UNCHANGED <<pipes, alive, closing>>
  BY Zenon DEF Kdup
<1> QED
  BY <1>1, <1>2, <1>3, <1>4, <1>5, <1>6, Zenon DEF Next, CloseStep

\* Whichever of two overlapping closes looks last sees that the other end is gone
\* and removes the pipe from PIPES.
THEOREM ClosedIsRemoved == Spec => []ClosedPipeRemoved
<1>1. Init => ClosedInv /\ ClosedPipeRemoved
  BY Zenon DEF Init, ClosedInv, ClosedPipeRemoved, End
<1>2. ASSUME TypeOK, ClosedInv, ClosedPipeRemoved, [Next]_vars
      PROVE  (ClosedInv /\ ClosedPipeRemoved)'
  <2>1. alive \in [End -> BOOLEAN] /\ closing \in [End -> {"no", "stored", "notified", "done"}]
    BY <1>2, Zenon DEF TypeOK
  <2>2. CASE UNCHANGED <<pipes, alive, closing>>
    BY <1>2, <2>2, Zenon DEF ClosedInv, ClosedPipeRemoved
  <2>3. ASSUME NEW e \in End, CloseStore(e) PROVE (ClosedInv /\ ClosedPipeRemoved)'
    BY <1>2, <2>1, <2>3, Zenon DEF CloseStore, ClosedInv, ClosedPipeRemoved
  <2>4. ASSUME NEW e \in End, CloseNotify(e) PROVE (ClosedInv /\ ClosedPipeRemoved)'
    BY <1>2, <2>1, <2>4, Zenon DEF CloseNotify, ClosedInv, ClosedPipeRemoved
  <2>5. ASSUME NEW e \in End, CloseRemove(e) PROVE (ClosedInv /\ ClosedPipeRemoved)'
    <3>1. /\ closing' = [closing EXCEPT ![e] = "done"] /\ closing[e] = "notified"
          /\ alive' = alive /\ pipes' = (pipes /\ alive[Other(e)])
      BY <2>5, Zenon DEF CloseRemove
    <3>2. ClosedInv'
      BY <1>2, <2>1, <3>1, Zenon DEF ClosedInv
    <3>3. Other(e) \in End /\ Other(e) # e
      BY Zenon DEF Other, End
    <3>4. ASSUME closing'[Other(e)] = "done" PROVE ~pipes'
      BY <1>2, <2>1, <3>1, <3>3, <3>4, Zenon DEF ClosedInv
    <3> QED
      BY <3>2, <3>3, <3>4, Zenon DEF ClosedPipeRemoved
  <2> QED
    BY <1>2, <2>2, <2>3, <2>4, <2>5, EndsKept, Zenon
<1> QED
  BY <1>1, <1>2, TypeCorrect, PTL DEF Spec

-----------------------------------------------------------------------------
(* Interruption.                                                             *)

\* A context is only in the list of its own end, from its push to its unlist.
Listed(c) ==
    \A e \in End : c \in waiters[e] => e = EndOf(c) /\ pc[c] \in {"switch", "unlist"}

\* A context that runs although nobody notified it has a signal pending.
WokenBySignal(c) ==
    status[c] = "Runnable" /\ (pc[c] = "push" \/ c \in waiters[EndOf(c)]) => signal[c]

SignalInv == \A c \in Ctx : Listed(c) /\ WokenBySignal(c)

\* A new pipe has no waiters.
LEMMA InitSignalInv == Init => SignalInv
  BY EndType, Zenon DEF Init, SignalInv, Listed, WokenBySignal

\* A step of a context c that is outside push and the lists before and after.
LEMMA OutsideStep ==
    ASSUME TypeOK, SignalInv, NEW c \in Ctx, waiters' = waiters, status' = status, signal' = signal,
           pc[c] \notin {"push", "switch", "unlist"}, pc'[c] # "push",
           \A d \in Ctx : d # c => pc'[d] = pc[d]
    PROVE  SignalInv'
  BY EndType, Zenon DEF TypeOK, SignalInv, Listed, WokenBySignal

\* A step that notifies the other end and otherwise leaves the lists alone.
LEMMA NotifyStep ==
    ASSUME TypeOK, SignalInv, NEW e \in End, Notify(e), signal' = signal,
           \A d \in Ctx : \/ pc'[d] = pc[d]
                          \/ pc[d] = "look" /\ pc'[d] = "user"
    PROVE  SignalInv'
<1> SUFFICES ASSUME NEW d \in Ctx PROVE (Listed(d) /\ WokenBySignal(d))'
  BY Zenon DEF SignalInv
<1>1. Listed(d) /\ WokenBySignal(d)
  BY Zenon DEF SignalInv
<1>2. /\ waiters \in [End -> SUBSET Ctx] /\ waiters' = [waiters EXCEPT ![e] = {}]
      /\ status'[d] = IF d \in waiters[e] THEN "Runnable" ELSE status[d]
  BY Zenon DEF TypeOK, Notify
<1>3. Listed(d)'
  BY <1>1, <1>2, EndType, Zenon DEF Listed
<1>4. WokenBySignal(d)'
  BY <1>1, <1>2, EndType, Zenon DEF Listed, WokenBySignal
<1> QED
  BY <1>3, <1>4, Zenon

\* Every step keeps it: notify empties the list it wakes, and a signal is handled
\* only outside the kernel.
LEMMA NextSignalInv ==
    ASSUME IInv, SignalInv, [Next]_vars
    PROVE  SignalInv'
<1>0. TypeOK
  BY Zenon DEF IInv
<1> USE DEF endVars, byteVars
<1>1. CASE UNCHANGED vars \/ Kdup
  BY <1>1, Zenon DEF vars, Kdup, SignalInv, Listed, WokenBySignal
<1>2. ASSUME NEW e \in End, CloseStore(e) \/ CloseStep(e) PROVE SignalInv'
  <2>1. CASE CloseStore(e) \/ CloseRemove(e)
    BY <2>1, Zenon DEF CloseStore, CloseRemove, SignalInv, Listed, WokenBySignal
  <2>2. CASE CloseNotify(e)
    <3>1. Other(e) \in End /\ Notify(Other(e)) /\ signal' = signal /\ pc' = pc
      BY <2>2, Zenon DEF CloseNotify, Other, End
    <3> QED
      BY <1>0, <3>1, NotifyStep, Zenon
  <2> QED
    BY <1>2, <2>1, <2>2, Zenon DEF CloseStep
<1>3. ASSUME NEW c \in Ctx, KreadBytes(c) \/ \E n \in Nat : KwriteBytes(c, n) PROVE SignalInv'
  <2>1. \E e \in End : Notify(e)
    BY <1>3, Zenon DEF KreadBytes, KwriteBytes, End
  <2>2. signal' = signal /\ pc[c] = "look" /\ pc' = [pc EXCEPT ![c] = "user"]
    BY <1>3, Zenon DEF KreadBytes, KwriteBytes, Return
  <2> QED
    BY <1>0, <2>1, <2>2, NotifyStep, Zenon DEF TypeOK
<1>4. ASSUME NEW c \in Ctx, KreadNothing(c) \/ KwriteNothing(c) \/ KwriteBroken(c) \/ Fault(c)
      PROVE  SignalInv'
  <2>1. UNCHANGED <<waiters, status, signal>> /\ pc[c] = "look"
    BY <1>4, Zenon DEF KreadNothing, KwriteNothing, KwriteBroken, Fault, Nothing
  <2>2. pc' = [pc EXCEPT ![c] = "user"] \/ pc' = [pc EXCEPT ![c] = "block"]
    BY <1>4, Zenon DEF KreadNothing, KwriteNothing, KwriteBroken, Fault, Nothing, Return
  <2> QED
    BY <1>0, <2>1, <2>2, OutsideStep, SMTT(30), ZenonT(30) DEF TypeOK
<1>5. ASSUME NEW c \in Ctx, LockQueue(c) \/ \E n \in Sizes, nb \in BOOLEAN : Call(c, n, nb)
      PROVE  SignalInv'
  <2>1. /\ UNCHANGED <<waiters, status, signal>> /\ pc[c] \in {"user", "lock"}
        /\ pc' = [pc EXCEPT ![c] = "look"] \/ pc' = [pc EXCEPT ![c] = "lock"]
    BY <1>5, Zenon DEF LockQueue, Call
  <2> QED
    BY <1>0, <2>1, OutsideStep, SMTT(30), ZenonT(30) DEF TypeOK
<1>6. ASSUME NEW c \in Ctx, WaitBlock(c) PROVE SignalInv'
  <2>1. CASE signal[c]
    <3>1. UNCHANGED <<waiters, status, signal>> /\ pc[c] = "block" /\ pc' = [pc EXCEPT ![c] = "user"]
      BY <1>6, <2>1, Zenon DEF WaitBlock, Return
    <3> QED
      BY <1>0, <3>1, OutsideStep, Zenon DEF TypeOK
  <2>2. CASE ~signal[c]
    BY <1>0, <1>6, <2>2, EndType, SMTT(30), ZenonT(30) DEF WaitBlock, TypeOK, SignalInv, Listed, WokenBySignal
  <2> QED
    BY <2>1, <2>2, Zenon
<1>7. ASSUME NEW c \in Ctx, WaitPush(c) PROVE SignalInv'
  BY <1>0, <1>7, EndType DEF WaitPush, TypeOK, SignalInv, Listed, WokenBySignal
<1>8. ASSUME NEW c \in Ctx, WaitResume(c) PROVE SignalInv'
  BY <1>0, <1>8, EndType, Zenon DEF WaitResume, TypeOK, SignalInv, Listed, WokenBySignal
<1>9. ASSUME NEW c \in Ctx, WaitUnlist(c) PROVE SignalInv'
  <2>1. /\ waiters' = [waiters EXCEPT ![EndOf(c)] = @ \ {c}]
        /\ pc' = [pc EXCEPT ![c] = "user"] \/ pc' = [pc EXCEPT ![c] = "lock"]
        /\ status' = status /\ signal' = signal
    BY <1>9, Zenon DEF WaitUnlist, Return
  <2> QED
    BY <1>0, <2>1, EndType DEF TypeOK, SignalInv, Listed, WokenBySignal
<1>10. ASSUME NEW c \in Ctx, SignalSet(c) \/ SignalInterrupt(c) PROVE SignalInv'
  BY <1>0, <1>10, EndType, SMTT(30), ZenonT(30) DEF SignalSet, SignalInterrupt, TypeOK, SignalInv, Listed, WokenBySignal
<1>11. ASSUME NEW c \in Ctx, SignalHandled(c) PROVE SignalInv'
  BY <1>0, <1>11, EndType, Zenon DEF SignalHandled, TypeOK, SignalInv, Listed, WokenBySignal
<1>12. ASSUME NEW c \in Ctx, Work(c) PROVE SignalInv'
  BY <1>12, <1>3, <1>4, <1>6, <1>7, <1>8, <1>9, PipeAssumption DEF Work
<1> QED
  BY <1>1, <1>2, <1>4, <1>5, <1>10, <1>11, <1>12, Zenon DEF Next

\* A call that ends with EINTR found its signal pending before it blocked, or was
\* woken while it was still listed, which only the Interrupt verb does.
LEMMA EintrStep ==
    ASSUME IInv, SignalInv, [Next]_vars,
           NEW c \in Ctx, result[c] = "none", result'[c] = "EINTR"
    PROVE  signal[c]
<1>0. TypeOK
  BY Zenon DEF IInv
<1>1. ASSUME NEW d \in Ctx, NEW r, Return(d, r), r # "EINTR" PROVE FALSE
  BY <1>0, <1>1, Zenon DEF Return, TypeOK
<1>2. result' # result
  BY Zenon
<1> USE DEF endVars, byteVars
<1>3. ~UNCHANGED vars /\ ~Kdup
  BY <1>2, Zenon DEF vars, Kdup
<1>4. ~ \E e \in End : CloseStore(e) \/ CloseStep(e)
  BY <1>2, Zenon DEF CloseStore, CloseStep, CloseNotify, CloseRemove
<1>5. ~ \E d \in Ctx : LockQueue(d) \/ SignalSet(d) \/ SignalInterrupt(d) \/ SignalHandled(d)
  BY <1>2, Zenon DEF LockQueue, SignalSet, SignalInterrupt, SignalHandled
<1>6. ~ \E d \in Ctx : \E n \in Sizes, nb \in BOOLEAN : Call(d, n, nb)
  <2> SUFFICES ASSUME NEW d \in Ctx, result' = [result EXCEPT ![d] = "none"] PROVE FALSE
    BY Zenon DEF Call
  <2>1. result'[c] = "none"
    BY <1>0, Zenon DEF TypeOK
  <2> QED
    BY <2>1, Zenon
<1>7. ~ \E d \in Ctx : \/ KreadBytes(d) \/ KwriteBroken(d) \/ Fault(d)
                       \/ \E n \in 1 .. MAX_QUEUE_SIZE : KwriteBytes(d, n)
  BY <1>1, Zenon DEF KreadBytes, KwriteBroken, Fault, KwriteBytes
<1>8. ~ \E d \in Ctx : KreadNothing(d) \/ KwriteNothing(d)
  BY <1>1, <1>2, Zenon DEF KreadNothing, KwriteNothing, Nothing
<1>9. PICK d \in Ctx : WaitBlock(d) \/ WaitPush(d) \/ WaitResume(d) \/ WaitUnlist(d)
  BY <1>3, <1>4, <1>5, <1>6, <1>7, <1>8, Zenon DEF Next, Work
<1>10. ~(WaitPush(d) \/ WaitResume(d))
  BY <1>2, Zenon DEF WaitPush, WaitResume
<1>11. CASE WaitBlock(d)
  BY <1>0, <1>2, <1>11 DEF WaitBlock, Return, TypeOK
<1>12. CASE WaitUnlist(d)
  <2>1. d = c /\ c \in waiters[EndOf(c)] /\ pc[c] = "unlist"
    BY <1>0, <1>2, <1>12, Zenon DEF WaitUnlist, Return, TypeOK
  <2>2. status[c] = "Runnable"
    BY <1>0, <2>1, Zenon DEF IInv, ListInv, TypeOK
  <2> QED
    BY <2>1, <2>2, Zenon DEF SignalInv, WokenBySignal
<1> QED
  BY <1>9, <1>10, <1>11, <1>12, Zenon

\* WaitCondition::wait reports EINTR only to a context with a pending signal: a
\* notification is never mistaken for an interruption.
THEOREM EintrNeedsSignal == Spec => InterruptNeedsSignal
<1>1. IInv /\ SignalInv /\ [Next]_vars => SignalInv'
  BY NextSignalInv, Zenon
<1>2. IInv /\ SignalInv /\ [Next]_vars
        => [\A c \in Ctx : result[c] = "none" /\ result'[c] = "EINTR" => signal[c]]_vars
  BY EintrStep, Zenon
<1> QED
  BY <1>1, <1>2, Invariance, InitSignalInv, PTL DEF Spec, InterruptNeedsSignal


-----------------------------------------------------------------------------
(* Refinement: the step of kread or kwrite that answers is a step of the     *)
(* stream, and all that happens before it, the locking, the sleeping and the *)
(* notifying, changes nothing that a caller can see.                         *)

\* Only a call that may block and has bytes to move gets to the wait condition.
SleepInv ==
    \A c \in Ctx : pc[c] \in {"block", "push", "switch", "unlist"} =>
        call[c].len > 0 /\ ~call[c].nonblock

\* An end that has a description has not been closed, nor has the write end before
\* kdup has made it.
OpenInv ==
    /\ \A e \in open : alive[e]
    /\ ~has_run_dup => alive["write"] /\ "write" \notin open

RInv == TypeOK /\ FifoExact /\ SleepInv /\ OpenInv

\* The end of a call is an answer of the stream.
LEMMA ReturnAnswers ==
    ASSUME TypeOK, NEW c \in Ctx, NEW r, pc[c] # "user", Return(c, r), UNCHANGED alive
    PROVE  Stream!Answer(c, r)
<1> USE DEF TypeOK, Return
<1>1. {d \in Ctx : pc'[d] # "user"} = {d \in Ctx : pc[d] # "user"} \ {c}
  BY Zenon
<1> QED
  BY <1>1, Zenon DEF Stream!Answer, NoCall

\* A step inside a call is none of the stream.
LEMMA InsideStutters ==
    ASSUME TypeOK, NEW c \in Ctx, pc[c] # "user", NEW l, l # "user",
           pc' = [pc EXCEPT ![c] = l], UNCHANGED <<sent, got, alive, call, result>>
    PROVE  UNCHANGED Stream!vars
<1>1. {d \in Ctx : pc'[d] # "user"} = {d \in Ctx : pc[d] # "user"}
  BY Zenon DEF TypeOK
<1> QED
  BY <1>1, Zenon DEF Stream!vars

\* What the queue holds is what the stream has not delivered.
LEMMA UnreadIsQueued ==
    ASSUME TypeOK, FifoExact
    PROVE  /\ Stream!Unread = Len(queue)
           /\ Len(sent) = Len(got) + Len(queue)
           /\ Len(queue) \in Nat /\ Len(got) \in Nat
<1>1. got \in Seq(Nat) /\ queue \in Seq(Nat) /\ sent = got \o queue
  BY Zenon DEF TypeOK, FifoExact
<1>2. Len(sent) = Len(got) + Len(queue) /\ Len(queue) \in Nat /\ Len(got) \in Nat
  BY <1>1
<1> QED
  BY <1>2 DEF Stream!Unread

\* A prefix of the queue, behind what was read, is a prefix of the stream.
LEMMA NextBytes ==
    ASSUME NEW g \in Seq(Nat), NEW q \in Seq(Nat), NEW n \in 1 .. Len(q)
    PROVE  SubSeq(g \o q, 1, Len(g) + n) = g \o SubSeq(q, 1, n)
<1> DEFINE s == g \o q
           t == SubSeq(q, 1, n)
<1>1. s \in Seq(Nat) /\ Len(s) = Len(g) + Len(q) /\ Len(g) \in Nat /\ Len(q) \in Nat
  OBVIOUS
<1>2. t \in Seq(Nat) /\ Len(t) = n /\ \A i \in 1 .. n : t[i] = q[i]
  OBVIOUS
<1>3. Len(SubSeq(s, 1, Len(g) + n)) = Len(g) + n
  BY <1>1
<1>4. Len(g \o t) = Len(g) + n
  BY <1>1, <1>2
<1>5. ASSUME NEW i \in 1 .. Len(g) + n PROVE SubSeq(s, 1, Len(g) + n)[i] = (g \o t)[i]
  <2>1. SubSeq(s, 1, Len(g) + n)[i] = s[i]
    BY <1>1, SMTT(30), ZenonT(30)
  <2>2. CASE i =< Len(g)
    BY <1>1, <1>2, <2>1, <2>2
  <2>3. CASE i > Len(g)
    BY <1>1, <1>2, <2>1, <2>3
  <2> QED
    BY <1>1, <2>2, <2>3
<1>6. SubSeq(s, 1, Len(g) + n) \in Seq(Nat) /\ g \o t \in Seq(Nat)
  BY <1>1, <1>2, SMTT(30), ZenonT(30)
<1> HIDE DEF s, t
<1>7. SubSeq(s, 1, Len(g) + n) = g \o t
  BY <1>1, <1>3, <1>4, <1>5, <1>6, SeqEqual, Zenon
<1> QED
  BY <1>7, Zenon DEF s, t

\* The bytes a kwrite appends are a sequence of the length it reports.
LEMMA FreshBytes ==
    ASSUME NEW m \in Nat, NEW n \in Nat
    PROVE  [i \in 1 .. n |-> m + i] \in Seq(Nat) /\ Len([i \in 1 .. n |-> m + i]) = n
<1>1. [i \in 1 .. n |-> m + i] \in [1 .. n -> Nat]
  OBVIOUS
<1> QED
  BY <1>1

\* What is written does not change what was written before.
LEMMA KeptPrefix ==
    ASSUME NEW s \in Seq(Nat), NEW t \in Seq(Nat)
    PROVE  SubSeq(s \o t, 1, Len(s)) = s /\ Len(s \o t) = Len(s) + Len(t)
<1>1. Len(s \o t) = Len(s) + Len(t) /\ Len(s) \in Nat /\ Len(t) \in Nat /\ s \o t \in Seq(Nat)
  OBVIOUS
<1>2. SubSeq(s \o t, 1, Len(s)) \in Seq(Nat) /\ Len(SubSeq(s \o t, 1, Len(s))) = Len(s)
  BY <1>1
<1>3. ASSUME NEW i \in 1 .. Len(s) PROVE SubSeq(s \o t, 1, Len(s))[i] = s[i]
  BY <1>1
<1> QED
  BY <1>1, <1>2, <1>3, SeqEqual, Zenon

\* The steps of WaitCondition::wait.
LEMMA WaitRefines ==
    ASSUME RInv, NEW c \in Ctx, WaitBlock(c) \/ WaitPush(c) \/ WaitResume(c) \/ WaitUnlist(c)
    PROVE  Stream!Interrupted(c) \/ UNCHANGED Stream!vars
<1> USE DEF RInv, byteVars, endVars
<1>0. pc[c] \in {"block", "push", "switch", "unlist"} /\ UNCHANGED <<sent, got, alive>>
  BY Zenon DEF WaitBlock, WaitPush, WaitResume, WaitUnlist
<1>1. call[c].len > 0 /\ ~call[c].nonblock /\ pc[c] # "user"
  BY <1>0, Zenon DEF SleepInv
<1>2. CASE Return(c, "EINTR")
  <2>1. Stream!Answer(c, "EINTR")
    BY <1>0, <1>1, <1>2, ReturnAnswers, Zenon
  <2> QED
    BY <1>0, <1>1, <2>1, Zenon DEF Stream!Interrupted
<1>3. CASE ~Return(c, "EINTR")
  <2>1. UNCHANGED <<call, result>>
        /\ \E l \in {"push", "switch", "unlist", "lock"} : pc' = [pc EXCEPT ![c] = l]
    BY <1>3, Zenon DEF WaitBlock, WaitPush, WaitResume, WaitUnlist
  <2> QED
    BY <1>0, <1>1, <2>1, InsideStutters, Zenon
<1> QED
  BY <1>2, <1>3, Zenon

\* kread that finds bytes.
LEMMA KreadBytesRefines ==
    ASSUME RInv, NEW c \in Ctx, KreadBytes(c)
    PROVE  Stream!Read(c)
<1> DEFINE n == Least(call[c].len, Len(queue))
<1> USE DEF RInv
<1>1. /\ c \in Reader /\ pc[c] = "look" /\ n > 0
      /\ got' = got \o SubSeq(queue, 1, n)
      /\ Return(c, "ok") /\ UNCHANGED <<sent, alive>>
  BY Zenon DEF KreadBytes, endVars
<1>2. call[c].len \in Nat /\ queue \in Seq(Nat) /\ got \in Seq(Nat) /\ sent = got \o queue
  BY Zenon DEF TypeOK, FifoExact
<1>3. /\ n \in Nat /\ n \in 1 .. call[c].len /\ n \in 1 .. Len(queue)
      /\ n = call[c].len \/ n = Len(queue)
      /\ call[c].len > 0
  BY <1>1, <1>2 DEF Least
<1> HIDE DEF n
<1>4. Stream!Unread = Len(queue) /\ Stream!Unread > 0
  BY <1>2, <1>3, UnreadIsQueued
<1>5. got' = SubSeq(sent, 1, Len(got) + n)
  BY <1>1, <1>2, <1>3, NextBytes, Zenon
<1>6. Stream!Answer(c, "ok")
  BY <1>1, ReturnAnswers, Zenon
<1>7. \E k \in 1 .. call[c].len :
        /\ k = call[c].len \/ k = Stream!Unread
        /\ k =< Stream!Unread
        /\ got' = SubSeq(sent, 1, Len(got) + k)
  BY <1>3, <1>4, <1>5
<1> QED
  BY <1>1, <1>3, <1>4, <1>6, <1>7, Zenon DEF Stream!Read

\* kwrite that finds room.
LEMMA KwriteBytesRefines ==
    ASSUME RInv, NEW c \in Ctx, NEW n \in Nat, KwriteBytes(c, n)
    PROVE  Stream!Write(c)
<1> DEFINE new == [i \in 1 .. n |-> Len(sent) + i]
<1> USE DEF RInv
<1>1. /\ c \in Writer /\ pc[c] = "look" /\ alive["read"]
      /\ n \in 1 .. Room(call[c].len)
      /\ sent' = sent \o new
      /\ Return(c, "ok") /\ UNCHANGED <<got, alive>>
  BY Zenon DEF KwriteBytes, endVars
<1>2. /\ call[c].len \in Nat /\ queue \in Seq(Nat) /\ sent \in Seq(Nat)
      /\ Len(queue) \in Nat /\ Len(queue) =< MAX_QUEUE_SIZE /\ MAX_QUEUE_SIZE \in Nat
  BY PipeAssumption DEF TypeOK
<1>3. n \in 1 .. call[c].len /\ Len(queue) + n =< MAX_QUEUE_SIZE
  BY <1>1, <1>2 DEF Room, Least
<1>4. new \in Seq(Nat) /\ Len(new) = n
  <2>1. Len(sent) \in Nat
    BY <1>2
  <2> QED
    BY <2>1, FreshBytes, Zenon
<1> HIDE DEF new
<1>5. Len(sent') = Len(sent) + n /\ SubSeq(sent', 1, Len(sent)) = sent
  BY <1>1, <1>2, <1>4, KeptPrefix, Zenon
<1>6. Stream!Unread = Len(queue)
  BY UnreadIsQueued, Zenon
<1>7. Stream!Answer(c, "ok")
  BY <1>1, ReturnAnswers, Zenon
<1>8. \E k \in 1 .. call[c].len : Stream!Unread + k =< MAX_QUEUE_SIZE /\ Len(sent') = Len(sent) + k
  BY <1>3, <1>5, <1>6, Zenon
<1> QED
  BY <1>1, <1>5, <1>7, <1>8, Zenon DEF Stream!Write

\* kread that finds no byte.
LEMMA KreadNothingRefines ==
    ASSUME RInv, NEW c \in Ctx, KreadNothing(c)
    PROVE  Stream!Empty(c) \/ Stream!EndOfFile(c) \/ Stream!Again(c) \/ UNCHANGED Stream!vars
<1> USE DEF RInv, byteVars, endVars
<1>1. /\ c \in Reader /\ c \notin Writer /\ pc[c] = "look"
      /\ UNCHANGED <<sent, got, alive>>
  BY PipeAssumption, Zenon DEF KreadNothing, Nothing
<1>2. /\ call[c].len \in Nat
      /\ Stream!Unread = Len(queue) /\ Len(queue) \in Nat
  BY UnreadIsQueued, Zenon DEF TypeOK
<1>3. call[c].len > 0 => Len(queue) = 0
  BY <1>2 DEF KreadNothing, Least
<1>4. CASE call[c].len = 0
  <2>1. Return(c, "ok")
    BY <1>4 DEF KreadNothing, Nothing
  <2> QED
    BY <1>1, <1>4, <2>1, ReturnAnswers, Zenon DEF Stream!Empty
<1>5. CASE call[c].len > 0 /\ ~alive["write"]
  <2>1. Return(c, "eof")
    BY <1>5, Zenon DEF KreadNothing
  <2> QED
    BY <1>1, <1>2, <1>3, <1>5, <2>1, ReturnAnswers, Zenon DEF Stream!EndOfFile
<1>6. CASE call[c].len > 0 /\ alive["write"] /\ call[c].nonblock
  <2>1. Return(c, "EAGAIN")
    BY <1>6 DEF KreadNothing, Nothing
  <2> QED
    BY <1>1, <1>2, <1>3, <1>6, <2>1, ReturnAnswers, Zenon DEF Stream!Again
<1>7. CASE call[c].len > 0 /\ alive["write"] /\ ~call[c].nonblock
  <2>1. pc' = [pc EXCEPT ![c] = "block"] /\ UNCHANGED <<call, result>>
    BY <1>7 DEF KreadNothing, Nothing
  <2> QED
    BY <1>1, <2>1, InsideStutters, Zenon
<1> QED
  BY <1>2, <1>4, <1>5, <1>6, <1>7

\* kwrite that finds no room.
LEMMA KwriteNothingRefines ==
    ASSUME RInv, NEW c \in Ctx, KwriteNothing(c)
    PROVE  Stream!Empty(c) \/ Stream!Again(c) \/ UNCHANGED Stream!vars
<1> USE DEF RInv, byteVars, endVars
<1>1. /\ c \in Writer /\ c \notin Reader /\ pc[c] = "look" /\ alive["read"]
      /\ UNCHANGED <<sent, got, alive>>
  BY PipeAssumption, Zenon DEF KwriteNothing, Nothing
<1>2. /\ call[c].len \in Nat
      /\ Stream!Unread = Len(queue) /\ Len(queue) \in Nat
      /\ Len(queue) =< MAX_QUEUE_SIZE /\ MAX_QUEUE_SIZE \in Nat
  BY UnreadIsQueued, PipeAssumption, Zenon DEF TypeOK
<1>3. call[c].len > 0 => Len(queue) = MAX_QUEUE_SIZE
  BY <1>2 DEF KwriteNothing, Room, Least
<1>4. CASE call[c].len = 0
  <2>1. Return(c, "ok")
    BY <1>4 DEF KwriteNothing, Nothing
  <2> QED
    BY <1>1, <1>4, <2>1, ReturnAnswers, Zenon DEF Stream!Empty
<1>5. CASE call[c].len > 0 /\ call[c].nonblock
  <2>1. Return(c, "EAGAIN")
    BY <1>5 DEF KwriteNothing, Nothing
  <2> QED
    BY <1>1, <1>2, <1>3, <1>5, <2>1, ReturnAnswers, Zenon DEF Stream!Again
<1>6. CASE call[c].len > 0 /\ ~call[c].nonblock
  <2>1. pc' = [pc EXCEPT ![c] = "block"] /\ UNCHANGED <<call, result>>
    BY <1>6 DEF KwriteNothing, Nothing
  <2> QED
    BY <1>1, <2>1, InsideStutters, Zenon
<1> QED
  BY <1>2, <1>4, <1>5, <1>6

\* A broken pipe, and a failed user copy.
LEMMA RefusalRefines ==
    ASSUME RInv, NEW c \in Ctx, KwriteBroken(c) \/ Fault(c)
    PROVE  Stream!Broken(c) \/ Stream!Faulted(c)
<1> USE DEF RInv, byteVars, endVars
<1>1. CASE KwriteBroken(c)
  BY <1>1, ReturnAnswers, Zenon DEF KwriteBroken, Stream!Broken
<1>2. CASE Fault(c)
  <2>1. /\ Stream!Unread = Len(queue) /\ Len(queue) \in Nat /\ queue \in Seq(Nat)
    BY UnreadIsQueued, Zenon DEF TypeOK
  <2>2. IF c \in Reader THEN Stream!Unread > 0 ELSE Stream!Unread < MAX_QUEUE_SIZE /\ alive["read"]
    BY <1>2, <2>1 DEF Fault
  <2>3. Stream!Answer(c, "EFAULT") /\ UNCHANGED <<sent, got>> /\ call[c].len > 0
    BY <1>2, ReturnAnswers, Zenon DEF Fault
  <2> QED
    BY <2>2, <2>3, Zenon DEF Stream!Faulted
<1> QED
  BY <1>1, <1>2, Zenon

\* The beginning of a call, which the stream sees, and the queue lock, which it does not.
LEMMA CallRefines ==
    ASSUME RInv, NEW c \in Ctx,
           LockQueue(c) \/ \E n \in Sizes, nb \in BOOLEAN : Call(c, n, nb)
    PROVE  Stream!Begin(c) \/ UNCHANGED Stream!vars
<1> USE DEF RInv, byteVars, endVars
<1>1. CASE LockQueue(c)
  BY <1>1, InsideStutters, Zenon DEF LockQueue
<1>2. CASE \E n \in Sizes, nb \in BOOLEAN : Call(c, n, nb)
  <2>1. PICK n \in Sizes, nb \in BOOLEAN : Call(c, n, nb)
    BY <1>2, Zenon
  <2>2. {d \in Ctx : pc'[d] # "user"} = {d \in Ctx : pc[d] # "user"} \cup {c}
    BY <2>1 DEF Call, TypeOK
  <2>3. alive[IF c \in Reader THEN "read" ELSE "write"]
    BY <2>1, Zenon DEF Call, EndOf, OpenInv
  <2>4. c \in Ctx \ {d \in Ctx : pc[d] # "user"}
    BY <2>1, Zenon DEF Call
  <2>5. /\ call' = [call EXCEPT ![c] = [len |-> n, nonblock |-> nb]]
        /\ result' = [result EXCEPT ![c] = "none"] /\ UNCHANGED <<sent, got, alive>>
    BY <2>1, Zenon DEF Call
  <2> QED
    BY <2>2, <2>3, <2>4, <2>5, Zenon DEF Stream!Begin, Stream!Ctx, Ctx
<1> QED
  BY <1>1, <1>2, Zenon

\* close(): the stream sees the flag, not the notifications.
LEMMA CloseRefines ==
    ASSUME RInv, NEW e \in End, CloseStore(e) \/ CloseStep(e)
    PROVE  Stream!Close(e) \/ UNCHANGED Stream!vars
<1> USE DEF RInv, byteVars, endVars
<1>1. CASE CloseStore(e)
  <2>1. alive[e] /\ alive' = [alive EXCEPT ![e] = FALSE]
        /\ UNCHANGED <<sent, got, pc, call, result>>
    BY <1>1, Zenon DEF CloseStore, OpenInv
  <2>2. {c \in Ctx : pc[c] # "user"} \cap (IF e = "read" THEN Reader ELSE Writer) = {}
    BY <1>1, PipeAssumption, Zenon DEF CloseStore, EndOf, End, Ctx
  <2> QED
    BY <2>1, <2>2, Zenon DEF Stream!Close
<1>2. CASE CloseStep(e)
  BY <1>2, Zenon DEF CloseStep, CloseNotify, CloseRemove, Stream!vars
<1> QED
  BY <1>1, <1>2, Zenon

\* A step of c in which it keeps its call and was asleep already, comes to sleep with
\* such a call, or does not sleep.
LEMMA SleepKept ==
    ASSUME TypeOK, SleepInv, NEW c \in Ctx, NEW l,
           pc' = [pc EXCEPT ![c] = l], \A d \in Ctx \ {c} : call'[d] = call[d],
           \/ l \in {"user", "lock", "look"}
           \/ call'[c] = call[c] /\ pc[c] \in {"block", "push", "switch", "unlist"}
           \/ call'[c] = call[c] /\ call[c].len > 0 /\ ~call[c].nonblock
    PROVE  SleepInv'
<1> SUFFICES ASSUME NEW d \in Ctx, pc'[d] \in {"block", "push", "switch", "unlist"}
             PROVE  call'[d].len > 0 /\ ~call'[d].nonblock
  BY Zenon DEF SleepInv
<1>1. CASE d = c
  <2>1. pc'[c] = l /\ call'[c] = call[c]
    BY <1>1, Zenon DEF TypeOK
  <2>2. call[c].len > 0 /\ ~call[c].nonblock
    BY <1>1, <2>1, Zenon DEF SleepInv
  <2> QED
    BY <1>1, <2>1, <2>2, Zenon
<1>2. CASE d # c
  <2>1. pc'[d] = pc[d] /\ call'[d] = call[d]
    BY <1>2, Zenon DEF TypeOK
  <2> QED
    BY <2>1, Zenon DEF SleepInv
<1> QED
  BY <1>1, <1>2, Zenon

\* The facts about sleepers and ends hold of a new pipe, and every step keeps them.
LEMMA SleepOpenInit == Init => SleepInv /\ OpenInv
  BY DEF Init, SleepInv, OpenInv, End

LEMMA SleepOpenNext == TypeOK /\ SleepInv /\ OpenInv /\ [Next]_vars => SleepInv' /\ OpenInv'
<1> SUFFICES ASSUME TypeOK, SleepInv, OpenInv, [Next]_vars PROVE SleepInv' /\ OpenInv'
  BY Zenon
<1> USE DEF TypeOK, byteVars, endVars
<1>1. CASE UNCHANGED vars
  BY <1>1, Zenon DEF vars, SleepInv, OpenInv
<1>2. ASSUME NEW c \in Ctx,
             \/ WaitBlock(c) \/ WaitPush(c) \/ WaitResume(c) \/ WaitUnlist(c)
             \/ LockQueue(c) \/ Fault(c)
      PROVE  SleepInv' /\ OpenInv'
  <2>1. OpenInv'
    BY <1>2 DEF OpenInv, WaitBlock, WaitPush, WaitResume, WaitUnlist, LockQueue, Fault
  <2>2. \/ pc' = [pc EXCEPT ![c] = "user"] /\ \A d \in Ctx \ {c} : call'[d] = call[d]
        \/ /\ UNCHANGED call /\ pc[c] \in {"block", "push", "switch"}
           /\ \E l \in {"push", "switch", "unlist"} : pc' = [pc EXCEPT ![c] = l]
        \/ UNCHANGED call /\ \E l \in {"lock", "look"} : pc' = [pc EXCEPT ![c] = l]
    BY <1>2, SMTT(30), ZenonT(30) DEF Return, WaitBlock, WaitPush, WaitResume, WaitUnlist, LockQueue, Fault
  <2> QED
    BY <2>1, <2>2, SleepKept, Zenon
<1>3. ASSUME NEW c \in Ctx, NEW n \in Sizes, NEW nb \in BOOLEAN, Call(c, n, nb)
      PROVE  SleepInv' /\ OpenInv'
  <2>1. OpenInv'
    BY <1>3, Zenon DEF OpenInv, Call
  <2>2. pc' = [pc EXCEPT ![c] = "lock"] /\ \A d \in Ctx \ {c} : call'[d] = call[d]
    BY <1>3, Zenon DEF Call
  <2> QED
    BY <2>1, <2>2, SleepKept, Zenon
<1>4. ASSUME NEW c \in Ctx, KreadNothing(c) \/ KwriteNothing(c) \/ KwriteBroken(c)
      PROVE  SleepInv' /\ OpenInv'
  <2>1. OpenInv'
    BY <1>4 DEF OpenInv, KreadNothing, KwriteNothing, KwriteBroken, Nothing
  <2>2. \/ pc' = [pc EXCEPT ![c] = "user"] /\ \A d \in Ctx \ {c} : call'[d] = call[d]
        \/ /\ pc' = [pc EXCEPT ![c] = "block"] /\ UNCHANGED call
           /\ call[c].len > 0 /\ ~call[c].nonblock
    BY <1>4, SMTT(30), ZenonT(30) DEF KreadNothing, KwriteNothing, KwriteBroken, Nothing, Return
  <2> QED
    BY <2>1, <2>2, SleepKept, Zenon
<1>5. ASSUME NEW c \in Ctx, KreadBytes(c) \/ \E n \in Nat : KwriteBytes(c, n)
      PROVE  SleepInv' /\ OpenInv'
  <2>1. OpenInv'
    BY <1>5 DEF OpenInv, KreadBytes, KwriteBytes
  <2>2. pc' = [pc EXCEPT ![c] = "user"] /\ \A d \in Ctx \ {c} : call'[d] = call[d]
    BY <1>5 DEF KreadBytes, KwriteBytes, Return
  <2> QED
    BY <2>1, <2>2, SleepKept, Zenon
<1>6. ASSUME NEW c \in Ctx, SignalSet(c) \/ SignalInterrupt(c) \/ SignalHandled(c)
      PROVE  SleepInv' /\ OpenInv'
  BY <1>6 DEF SignalSet, SignalInterrupt, SignalHandled, SleepInv, OpenInv
<1>7. ASSUME NEW e \in End, CloseStore(e) \/ CloseStep(e)
      PROVE  SleepInv' /\ OpenInv'
  <2>1. UNCHANGED <<pc, call>>
    BY <1>7, Zenon DEF CloseStore, CloseStep, CloseNotify, CloseRemove
  <2>2. CASE CloseStore(e)
    <3>1. /\ e \in open /\ open' = open \ {e} /\ alive' = [alive EXCEPT ![e] = FALSE]
          /\ has_run_dup' = has_run_dup
      BY <2>2, Zenon DEF CloseStore
    <3>2. \A f \in open' : alive'[f]
      BY <3>1, Zenon DEF OpenInv
    <3>3. ~has_run_dup => e = "read"
      BY <3>1, Zenon DEF OpenInv, End
    <3>4. ~has_run_dup => alive'["write"] /\ "write" \notin open'
      BY <3>1, <3>3, Zenon DEF OpenInv, End
    <3> QED
      BY <2>1, <3>1, <3>2, <3>4, Zenon DEF SleepInv, OpenInv
  <2>3. CASE CloseStep(e)
    BY <2>1, <2>3 DEF CloseStep, CloseNotify, CloseRemove, SleepInv, OpenInv
  <2> QED
    BY <1>7, <2>2, <2>3, Zenon
<1>8. ASSUME Kdup PROVE SleepInv' /\ OpenInv'
  BY <1>8, Zenon DEF Kdup, SleepInv, OpenInv
<1>9. 1 .. MAX_QUEUE_SIZE \subseteq Nat
  BY PipeAssumption
<1> QED
  BY <1>1, <1>2, <1>3, <1>4, <1>5, <1>6, <1>7, <1>8, <1>9 DEF Next, Work

\* Every step of the pipe is a step of the stream, or invisible to it.
LEMMA StepRefines == RInv /\ [Next]_vars => [Stream!Next]_Stream!vars
<1> SUFFICES ASSUME RInv, [Next]_vars PROVE Stream!Next \/ UNCHANGED Stream!vars
  BY Zenon
<1>1. CASE UNCHANGED vars
  BY <1>1, Zenon DEF vars, Stream!vars
<1>2. ASSUME NEW c \in Ctx, Work(c) PROVE Stream!Next \/ UNCHANGED Stream!vars
  <2>1. 1 .. MAX_QUEUE_SIZE \subseteq Nat
    BY PipeAssumption
  <2> QED
    BY <1>2, <2>1, KreadBytesRefines, KwriteBytesRefines, KreadNothingRefines, KwriteNothingRefines,
       RefusalRefines, WaitRefines, Zenon DEF Work, Stream!Next, Stream!Ctx, Ctx
<1>3. ASSUME NEW c \in Ctx,
             \/ \E n \in Sizes, nb \in BOOLEAN : Call(c, n, nb)
             \/ LockQueue(c) \/ Fault(c)
      PROVE  Stream!Next \/ UNCHANGED Stream!vars
  BY <1>3, CallRefines, RefusalRefines, Zenon DEF Stream!Next, Stream!Ctx, Ctx
<1>4. ASSUME NEW c \in Ctx, SignalSet(c) \/ SignalInterrupt(c) \/ SignalHandled(c)
      PROVE  UNCHANGED Stream!vars
  BY <1>4, Zenon DEF SignalSet, SignalInterrupt, SignalHandled, Stream!vars, byteVars, endVars
<1>5. ASSUME NEW e \in End, CloseStore(e) \/ CloseStep(e)
      PROVE  Stream!Next \/ UNCHANGED Stream!vars
  BY <1>5, CloseRefines, Zenon DEF Stream!Next, End
<1>6. Kdup => UNCHANGED Stream!vars
  BY Zenon DEF Kdup, Stream!vars, byteVars, endVars
<1> QED
  BY <1>1, <1>2, <1>3, <1>4, <1>5, <1>6, Zenon DEF Next

\* The pipe implements the byte stream: to its callers, kread and kwrite take effect
\* in one step, for any number of readers and writers and any queue size.
THEOREM PipeImplementsStream == Spec => ImplementsStream
<1>1. Init => Stream!Init
  BY Zenon DEF Init, Stream!Init, End, NoCall, Stream!Ctx, Ctx
<1>2. Spec => []RInv
  <2>1. Spec => [](SleepInv /\ OpenInv)
    BY SleepOpenInit, SleepOpenNext, TypeCorrect, PTL DEF Spec
  <2> QED
    BY <2>1, TypeCorrect, BytesInOrder, PTL DEF RInv
<1> QED
  BY <1>1, <1>2, StepRefines, PTL DEF Spec, ImplementsStream, Stream!Spec
=============================================================================
