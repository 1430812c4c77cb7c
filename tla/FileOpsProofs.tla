--------------------------- MODULE FileOpsProofs ----------------------------
(***************************************************************************)
(* Proofs about FileOps, for any threads, any size of the table and any    *)
(* number of descriptions: close() never pulls a description from under    *)
(* another user of it, FD_EXCLUSIVE is only told of a description that     *)
(* nobody else can reach, and only F_SETFL makes threads wait for each     *)
(* other.                                                                  *)
(*                                                                         *)
(* Arc::strong_count is a sum of four cardinalities.  The proofs replace   *)
(* it at once by what it is compared with: that it is not zero             *)
(* (Referenced), and that it is one (OnlyThread, OnlyMail).                *)
(***************************************************************************)
EXTENDS FileOps, FiniteSetTheorems, TLAPS

\* Some thread or place of the table refers to d.
Outside(d) ==
    \/ \E i \in Fds : files[i] = d
    \/ \E t \in Threads : file[t] = d \/ locked[t] = d

\* Somebody does, or a message.
Referenced(d) == Outside(d) \/ \E m \in mail : m.desc = d

\* The file that t holds is referred to by nothing else.
OnlyThread(t) ==
    /\ \A i \in Fds : files[i] # file[t]
    /\ \A m \in mail : m.desc # file[t]
    /\ \A u \in Threads : locked[u] # file[t] /\ (u # t => file[u] # file[t])

Places == {"user", "made", "kdup", "close", "drop", "dup2", "insert", "rw", "openat", "fcntl",
           "agreed", "setfl", "send", "exclusive", "granted", "exited"}

\* Where a thread holds a file, and where it holds a read lock ("made" with or without).
WithFile == {"made", "kdup", "close", "drop", "insert", "rw", "send", "exclusive", "granted", "setfl"}
WithLock == {"openat", "fcntl", "agreed"}

ThreadsTyped ==
    /\ pc \in [Threads -> Places]
    /\ fd \in [Threads -> Fds]
    /\ new \in [Threads -> Fds]
    /\ file \in [Threads -> Desc \cup {None}]
    /\ locked \in [Threads -> Desc \cup {None}]

MailTyped ==
    /\ mail \subseteq [desc : Desc, exclusive : BOOLEAN]
    /\ \A m, n \in mail : m = n

Typed ==
    /\ files \in [Fds -> Desc \cup {None}]
    /\ filesLock \in Threads \cup {None}
    /\ scheme \in [Desc -> {"unborn", "open", "closed"}]
    /\ MailTyped
    /\ ThreadsTyped

\* What t holds where it is; F_SETFL keeps the table locked, so that the descriptor it
\* has looked up stays.
ThreadOK(t) ==
    /\ pc[t] \in WithFile => file[t] \in Desc
    /\ pc[t] \notin WithFile => file[t] = None
    /\ pc[t] \in WithLock => locked[t] \in Desc
    /\ pc[t] \notin WithLock \cup {"made"} => locked[t] = None
    /\ (filesLock = t) <=> (pc[t] = "setfl")
    /\ pc[t] = "setfl" => files[fd[t]] # None

RefsOpen == \A d \in Desc : Referenced(d) => scheme[d] = "open"
MailSole == \A m \in mail : m.exclusive => ~Outside(m.desc)

\* A thread that fdwrite_inner has found alone with its description stays alone with it.
Sole == \A t \in Threads : pc[t] = "granted" => OnlyThread(t)

\* The invariant; together with Sole it is inductive.
IInv ==
    /\ Typed
    /\ \A t \in Threads : ThreadOK(t)
    /\ RefsOpen
    /\ MailSole

-----------------------------------------------------------------------------
(* Counting references                                                       *)

\* A set of numbers that has one has a least one: add_file and the schemes find it.
LEMMA HasLeast ==
    ASSUME NEW S, S \subseteq Nat, S # {}
    PROVE  \E n \in S : \A m \in S : n <= m
<1>1. IsWellFoundedOn(OpToRel(<, Nat), Nat)
  BY NatLessThanWellFounded, Zenon
<1>2. PICK n \in S : \A m \in S : ~(<<m, n>> \in OpToRel(<, Nat))
  BY <1>1, WFMin, Zenon
<1>3. \A m \in S : ~(m < n)
  BY <1>2, Zenon DEF OpToRel
<1> QED
  BY <1>3

\* A description that a scheme makes was not there before.
LEMMA FreshIsUnborn ==
    ASSUME Unborn # {}
    PROVE  Fresh \in Desc /\ scheme[Fresh] = "unborn"
<1>1. Unborn \subseteq Nat
  BY DEF Unborn, Desc
<1>2. \E d \in Unborn : \A e \in Unborn : d <= e
  BY <1>1, HasLeast, Zenon
<1>3. Fresh \in Unborn
  BY <1>2, Zenon DEF Fresh
<1> QED
  BY <1>3, Zenon DEF Unborn

\* add_file changes at most one place, which was free, to hold d.
LEMMA AddIsPut ==
    ASSUME NEW d
    PROVE  Add(d) = files \/ \E i \in Fds : files[i] = None /\ Add(d) = [files EXCEPT ![i] = d]
<1>1. CASE Free = {}
  BY <1>1, Zenon DEF Add
<1>2. CASE Free # {}
  <2>1. Free \subseteq Nat
    BY FileOpsAssumption DEF Free, Fds
  <2>2. \E i \in Free : \A j \in Free : i <= j
    BY <1>2, <2>1, HasLeast, Zenon
  <2>3. (CHOOSE i \in Free : \A j \in Free : i <= j) \in Free
    BY <2>2, Zenon
  <2> QED
    BY <1>2, <2>3, Zenon DEF Add, Free
<1> QED
  BY <1>1, <1>2, Zenon

\* The sets that Strong counts are finite.
LEMMA RefsFinite ==
    ASSUME MailTyped, NEW d
    PROVE  /\ IsFiniteSet({i \in Fds : files[i] = d})
           /\ IsFiniteSet({m \in mail : m.desc = d})
           /\ IsFiniteSet({t \in Threads : file[t] = d})
           /\ IsFiniteSet({t \in Threads : locked[t] = d})
<1>1. IsFiniteSet(Fds) /\ IsFiniteSet(Threads)
  BY FileOpsAssumption, FS_Interval DEF Fds
<1>2. IsFiniteSet(mail)
  <2>1. CASE mail = {}
    BY <2>1, FS_EmptySet, Zenon
  <2>2. CASE mail # {}
    <3>1. PICK m \in mail : TRUE
      BY <2>2, Zenon
    <3>2. mail = {m}
      BY <3>1, Zenon DEF MailTyped
    <3> QED
      BY <3>2, FS_Singleton, Zenon
  <2> QED
    BY <2>1, <2>2, Zenon
<1>3. IsFiniteSet({i \in Fds : files[i] = d})
  BY <1>1, FS_Subset, Zenon
<1>4. IsFiniteSet({m \in mail : m.desc = d})
  BY <1>2, FS_Subset, Zenon
<1>5. IsFiniteSet({t \in Threads : file[t] = d})
  BY <1>1, FS_Subset, Zenon
<1>6. IsFiniteSet({t \in Threads : locked[t] = d})
  BY <1>1, FS_Subset, Zenon
<1> QED
  BY <1>3, <1>4, <1>5, <1>6, Zenon

\* The strong count is a number, and not zero exactly when there is a reference.
LEMMA StrongPositive ==
    ASSUME MailTyped, NEW d
    PROVE  Strong(d) \in Nat /\ (Strong(d) > 0 <=> Referenced(d))
<1> DEFINE A == {i \in Fds : files[i] = d}
           B == {m \in mail : m.desc = d}
           C == {t \in Threads : file[t] = d}
           D == {t \in Threads : locked[t] = d}
<1>1. IsFiniteSet(A) /\ IsFiniteSet(B) /\ IsFiniteSet(C) /\ IsFiniteSet(D)
  BY RefsFinite, Zenon
<1>2. /\ Cardinality(A) \in Nat /\ Cardinality(B) \in Nat
      /\ Cardinality(C) \in Nat /\ Cardinality(D) \in Nat
  BY <1>1, FS_CardinalityType, Zenon
<1>3. /\ Cardinality(A) = 0 <=> A = {}
      /\ Cardinality(B) = 0 <=> B = {}
      /\ Cardinality(C) = 0 <=> C = {}
      /\ Cardinality(D) = 0 <=> D = {}
  BY <1>1, FS_EmptySet, Zenon
<1>4. Strong(d) = Cardinality(A) + Cardinality(B) + Cardinality(C) + Cardinality(D)
  BY Zenon DEF Strong
<1>5. Referenced(d) <=> A # {} \/ B # {} \/ C # {} \/ D # {}
  BY Zenon DEF Referenced, Outside
<1> HIDE DEF A, B, C, D
<1>6. /\ Strong(d) \in Nat
      /\ Strong(d) > 0 <=> \/ Cardinality(A) # 0 \/ Cardinality(B) # 0
                           \/ Cardinality(C) # 0 \/ Cardinality(D) # 0
  BY <1>2, <1>4
<1> QED
  BY <1>3, <1>5, <1>6, Zenon

\* FileDescriptor::close and FD_EXCLUSIVE: a thread whose Arc has the strong count 1 has
\* the only one.
LEMMA StrongOfThread ==
    ASSUME MailTyped, NEW t \in Threads, Strong(file[t]) = 1
    PROVE  OnlyThread(t)
<1> DEFINE d == file[t]
           A == {i \in Fds : files[i] = d}
           B == {m \in mail : m.desc = d}
           C == {u \in Threads : file[u] = d}
           D == {u \in Threads : locked[u] = d}
<1>1. IsFiniteSet(A) /\ IsFiniteSet(B) /\ IsFiniteSet(C) /\ IsFiniteSet(D)
  BY RefsFinite, Zenon
<1>2. /\ Cardinality(A) \in Nat /\ Cardinality(B) \in Nat
      /\ Cardinality(C) \in Nat /\ Cardinality(D) \in Nat
  BY <1>1, FS_CardinalityType, Zenon
<1>3. /\ Cardinality(A) = 0 <=> A = {}
      /\ Cardinality(B) = 0 <=> B = {}
      /\ Cardinality(C) = 0 <=> C = {}
      /\ Cardinality(D) = 0 <=> D = {}
  BY <1>1, FS_EmptySet, Zenon
<1>4. Cardinality(A) + Cardinality(B) + Cardinality(C) + Cardinality(D) = 1
  BY Zenon DEF Strong
<1>5. t \in C
  BY Zenon
<1>6. A = {} /\ B = {} /\ D = {} /\ Cardinality(C) = 1
  <2> HIDE DEF A, B, C, D
  <2> QED
    BY <1>2, <1>3, <1>4, <1>5
<1>7. PICK x : C = {x}
  <2> HIDE DEF C
  <2> QED
    BY <1>1, <1>6, FS_Singleton, Zenon
<1>8. \A u \in Threads : u # t => file[u] # file[t]
  BY <1>5, <1>7, Zenon
<1> QED
  BY <1>6, <1>8, Zenon DEF OnlyThread

\* A message has the only reference exactly when there is none outside the mail.
LEMMA StrongOfMail ==
    ASSUME MailTyped, NEW m \in mail
    PROVE  Strong(m.desc) = 1 <=> ~Outside(m.desc)
<1> DEFINE d == m.desc
           A == {i \in Fds : files[i] = d}
           B == {n \in mail : n.desc = d}
           C == {u \in Threads : file[u] = d}
           D == {u \in Threads : locked[u] = d}
<1>1. IsFiniteSet(A) /\ IsFiniteSet(B) /\ IsFiniteSet(C) /\ IsFiniteSet(D)
  BY RefsFinite, Zenon
<1>2. /\ Cardinality(A) \in Nat /\ Cardinality(B) \in Nat
      /\ Cardinality(C) \in Nat /\ Cardinality(D) \in Nat
  BY <1>1, FS_CardinalityType, Zenon
<1>3. /\ Cardinality(A) = 0 <=> A = {}
      /\ Cardinality(C) = 0 <=> C = {}
      /\ Cardinality(D) = 0 <=> D = {}
  BY <1>1, FS_EmptySet, Zenon
<1>4. Strong(d) = Cardinality(A) + Cardinality(B) + Cardinality(C) + Cardinality(D)
  BY Zenon DEF Strong
<1>5. B = {m}
  BY Zenon DEF MailTyped
<1>6. Cardinality(B) = 1
  BY <1>5, FS_Singleton, Zenon
<1>7. Outside(d) <=> A # {} \/ C # {} \/ D # {}
  BY Zenon DEF Outside
<1>8. Strong(d) = 1 <=> ~Outside(d)
  <2> HIDE DEF A, B, C, D
  <2> QED
    BY <1>2, <1>3, <1>4, <1>6, <1>7
<1> QED
  BY <1>8, Zenon

-----------------------------------------------------------------------------
(* What a step of one thread does to the threads                             *)

\* A thread may be at place with the file h and the read lock of l.
Fits(place, h, l) ==
    /\ place \in Places \ {"setfl"}
    /\ h \in Desc \cup {None}
    /\ l \in Desc \cup {None}
    /\ place \in WithFile => h \in Desc
    /\ place \notin WithFile => h = None
    /\ place \in WithLock => l \in Desc
    /\ place \notin WithLock \cup {"made"} => l = None

\* None is neither a description nor a thread.
LEMMA NoneIsNothing == None \notin Desc /\ None \notin Threads
  BY FileOpsAssumption, Zenon

\* A thread that moves, and does not take or release the table, leaves all threads in
\* order; the table changes only while it is not locked.
LEMMA MoveOK ==
    ASSUME Typed, \A u \in Threads : ThreadOK(u), NEW t \in Threads, NEW place, NEW h, NEW l,
           Fits(place, h, l), pc[t] # "setfl",
           pc' = [pc EXCEPT ![t] = place],
           file' = [file EXCEPT ![t] = h],
           locked' = [locked EXCEPT ![t] = l],
           NEW i \in Fds, fd' = [fd EXCEPT ![t] = i],
           NEW j \in Fds, new' = [new EXCEPT ![t] = j],
           filesLock' = filesLock, files' = files \/ Unlocked
    PROVE  ThreadsTyped' /\ \A u \in Threads : ThreadOK(u)'
<1>1. ThreadsTyped'
  BY Zenon DEF Typed, ThreadsTyped, Fits
<1>2. ThreadOK(t)'
  <2>1. pc'[t] = place /\ file'[t] = h /\ locked'[t] = l
    BY Zenon DEF Typed, ThreadsTyped
  <2>2. filesLock # t
    BY Zenon DEF ThreadOK
  <2> QED
    BY <2>1, <2>2, Zenon DEF ThreadOK, Fits
<1>3. ASSUME NEW u \in Threads, u # t PROVE ThreadOK(u)'
  <2>1. pc'[u] = pc[u] /\ file'[u] = file[u] /\ locked'[u] = locked[u] /\ fd'[u] = fd[u]
    BY <1>3, Zenon DEF Typed, ThreadsTyped
  <2>2. ThreadOK(u)
    BY Zenon
  <2>3. pc[u] = "setfl" => files' = files
    BY <2>2, NoneIsNothing, Zenon DEF ThreadOK, Unlocked
  <2> QED
    BY <2>1, <2>2, <2>3, Zenon DEF ThreadOK
<1> QED
  BY <1>1, <1>2, <1>3, Zenon

\* The same for the end of a system call ...
LEMMA LeaveOK ==
    ASSUME Typed, \A u \in Threads : ThreadOK(u), NEW t \in Threads, Leave(t), pc[t] # "setfl",
           filesLock' = filesLock, files' = files \/ Unlocked
    PROVE  ThreadsTyped' /\ \A u \in Threads : ThreadOK(u)'
<1>1. Fits("user", None, None)
  BY Zenon DEF Fits, Places, WithFile, WithLock
<1>2. 0 \in Fds
  BY FileOpsAssumption DEF Fds
<1> QED
  BY <1>1, <1>2, MoveOK, Zenon DEF Leave

\* ... for a step inside it ...
LEMMA GotoOK ==
    ASSUME Typed, \A u \in Threads : ThreadOK(u), NEW t \in Threads, NEW place, NEW h,
           Goto(t, place, h), locked' = locked, Fits(place, h, locked[t]), pc[t] # "setfl",
           filesLock' = filesLock, files' = files
    PROVE  ThreadsTyped' /\ \A u \in Threads : ThreadOK(u)'
<1>1. /\ locked' = [locked EXCEPT ![t] = locked[t]]
      /\ fd' = [fd EXCEPT ![t] = fd[t]]
      /\ new' = [new EXCEPT ![t] = new[t]]
      /\ fd[t] \in Fds /\ new[t] \in Fds
  BY Zenon DEF Goto, Typed, ThreadsTyped
<1> QED
  BY <1>1, MoveOK, Zenon DEF Goto

\* ... and for its beginning.
LEMMA EnterOK ==
    ASSUME Typed, \A u \in Threads : ThreadOK(u), NEW t \in Threads, NEW call, NEW i \in Fds,
           NEW j \in Fds, NEW place, NEW h, NEW l, Enter(t, call, i, j, place, h, l),
           Fits(place, h, l), filesLock' = filesLock, files' = files \/ Unlocked
    PROVE  ThreadsTyped' /\ \A u \in Threads : ThreadOK(u)'
  BY MoveOK, Zenon DEF Enter

-----------------------------------------------------------------------------
(* What a step does to the references                                        *)

\* Who refers to d after a step of t.
LEMMA OutsideNext ==
    ASSUME NEW t \in Threads, NEW d,
           \A u \in Threads \ {t} : file'[u] = file[u] /\ locked'[u] = locked[u]
    PROVE  Outside(d)' <=> \/ \E i \in Fds : files'[i] = d
                           \/ file'[t] = d \/ locked'[t] = d
                           \/ \E u \in Threads \ {t} : file[u] = d \/ locked[u] = d
  BY Zenon DEF Outside

\* The end of a call adds no reference to those of the table.
LEMMA LeaveOutside ==
    ASSUME ThreadsTyped, NEW t \in Threads, Leave(t), NEW d \in Desc, Outside(d)'
    PROVE  \/ \E i \in Fds : files'[i] = d
           \/ \E u \in Threads \ {t} : file[u] = d \/ locked[u] = d
<1>1. /\ \A u \in Threads \ {t} : file'[u] = file[u] /\ locked'[u] = locked[u]
      /\ file'[t] = None /\ locked'[t] = None
  BY Zenon DEF Leave, ThreadsTyped
<1> QED
  BY <1>1, OutsideNext, NoneIsNothing

\* A step inside a call can add one to h, its beginning one to h and one to l.
LEMMA GotoOutside ==
    ASSUME ThreadsTyped, NEW t \in Threads, NEW place, NEW h, Goto(t, place, h), locked' = locked,
           files' = files, NEW d \in Desc, Outside(d)'
    PROVE  Outside(d) \/ h = d
<1>1. /\ \A u \in Threads \ {t} : file'[u] = file[u] /\ locked'[u] = locked[u]
      /\ file'[t] = h /\ locked'[t] = locked[t]
  BY Zenon DEF ThreadsTyped, Goto
<1>2. \/ \E i \in Fds : files'[i] = d
      \/ h = d \/ locked[t] = d
      \/ \E u \in Threads \ {t} : file[u] = d \/ locked[u] = d
  BY <1>1, OutsideNext, Zenon
<1> QED
  BY <1>2, Zenon DEF Outside

\* Who refers to d after the beginning of a call.
LEMMA EnterOutside ==
    ASSUME ThreadsTyped, NEW t \in Threads, NEW call, NEW i, NEW j, NEW place, NEW h, NEW l,
           Enter(t, call, i, j, place, h, l), NEW d \in Desc, Outside(d)'
    PROVE  \/ \E k \in Fds : files'[k] = d
           \/ h = d \/ l = d
           \/ \E u \in Threads \ {t} : file[u] = d \/ locked[u] = d
<1>1. /\ \A u \in Threads \ {t} : file'[u] = file[u] /\ locked'[u] = locked[u]
      /\ file'[t] = h /\ locked'[t] = l
  BY Zenon DEF Enter, ThreadsTyped
<1> QED
  BY <1>1, OutsideNext, Zenon

\* The step refers to nothing new.
NothingNew == \A d \in Desc : Outside(d)' => Outside(d)

\* Then what is referred to is still open, and what is sent exclusively still alone.
LEMMA RefsKept ==
    ASSUME IInv, NothingNew, scheme' = scheme, mail' = mail
    PROVE  RefsOpen' /\ MailSole'
<1>1. RefsOpen'
  BY Zenon DEF IInv, RefsOpen, NothingNew, Referenced
<1>2. MailSole'
  BY Zenon DEF IInv, MailSole, NothingNew, Typed, MailTyped
<1> QED
  BY <1>1, <1>2, Zenon

\* A new description is open, and in no message.
LEMMA RefsMade ==
    ASSUME IInv, Make, mail' = mail, \A d \in Desc : Outside(d)' => Outside(d) \/ d = Fresh
    PROVE  /\ scheme' \in [Desc -> {"unborn", "open", "closed"}]
           /\ RefsOpen' /\ MailSole'
<1>1. Fresh \in Desc /\ scheme[Fresh] = "unborn"
  BY FreshIsUnborn, Zenon DEF Make
<1>2. /\ scheme' \in [Desc -> {"unborn", "open", "closed"}]
      /\ scheme'[Fresh] = "open"
      /\ \A d \in Desc : d # Fresh => scheme'[d] = scheme[d]
  BY <1>1, Zenon DEF Make, IInv, Typed
<1>3. RefsOpen'
  BY <1>1, <1>2, Zenon DEF IInv, RefsOpen, Referenced
<1>4. \A m \in mail : m.desc \in Desc /\ m.desc # Fresh
  BY <1>1, Zenon DEF IInv, RefsOpen, Referenced, Typed, MailTyped
<1>5. MailSole'
  BY <1>4, Zenon DEF IInv, MailSole
<1> QED
  BY <1>2, <1>3, <1>5, Zenon

\* A description may be closed when the step leaves no reference to it.
LEMMA RefsClosed ==
    ASSUME IInv, NothingNew, NEW e \in Desc, scheme' = [scheme EXCEPT ![e] = "closed"],
           ~Outside(e)', mail' \subseteq mail, \A m \in mail' : m.desc # e
    PROVE  /\ scheme' \in [Desc -> {"unborn", "open", "closed"}]
           /\ RefsOpen' /\ MailSole'
<1>1. /\ scheme' \in [Desc -> {"unborn", "open", "closed"}]
      /\ \A d \in Desc : d # e => scheme'[d] = scheme[d]
  BY Zenon DEF IInv, Typed
<1>2. RefsOpen'
  BY <1>1, Zenon DEF IInv, RefsOpen, NothingNew, Referenced
<1>3. MailSole'
  BY Zenon DEF IInv, MailSole, NothingNew, Typed, MailTyped
<1> QED
  BY <1>1, <1>2, <1>3, Zenon

-----------------------------------------------------------------------------
(* Steps that leave the schemes and the mail alone                           *)

\* A call ends.
LEMMA PlainLeave ==
    ASSUME IInv, NEW t \in Threads, pc[t] # "setfl", Leave(t),
           UNCHANGED <<files, filesLock, scheme, mail>>
    PROVE  IInv'
<1> USE DEF IInv
<1>1. ThreadsTyped' /\ \A u \in Threads : ThreadOK(u)'
  BY LeaveOK, Zenon
<1>2. NothingNew
  BY LeaveOutside, Zenon DEF NothingNew, Outside, Typed
<1>3. RefsOpen' /\ MailSole'
  BY <1>2, RefsKept, Zenon
<1>4. Typed'
  BY <1>1, Zenon DEF Typed, MailTyped
<1> QED
  BY <1>1, <1>3, <1>4, Zenon

\* A call goes on with nothing, or with a file that something refers to.
LEMMA PlainGoto ==
    ASSUME IInv, NEW t \in Threads, pc[t] # "setfl", NEW place, NEW h, Goto(t, place, h),
           UNCHANGED <<files, filesLock, scheme, mail, locked>>,
           Fits(place, h, locked[t]), h = None \/ Outside(h)
    PROVE  IInv'
<1> USE DEF IInv
<1>1. ThreadsTyped' /\ \A u \in Threads : ThreadOK(u)'
  BY GotoOK, Zenon
<1>2. NothingNew
  BY GotoOutside, NoneIsNothing, Zenon DEF NothingNew, Typed
<1>3. RefsOpen' /\ MailSole'
  BY <1>2, RefsKept, Zenon
<1>4. Typed'
  BY <1>1, Zenon DEF Typed, MailTyped
<1> QED
  BY <1>1, <1>3, <1>4, Zenon

\* A call begins with files that something refers to, and may empty a place.
LEMMA PlainEnter ==
    ASSUME IInv, NEW t \in Threads, NEW call, NEW i \in Fds, NEW j \in Fds, NEW place, NEW h, NEW l,
           Enter(t, call, i, j, place, h, l),
           UNCHANGED <<filesLock, scheme, mail>>, Unlocked,
           files' = files \/ \E k \in Fds : files' = [files EXCEPT ![k] = None],
           Fits(place, h, l), h = None \/ Outside(h), l = None \/ Outside(l)
    PROVE  IInv'
<1> USE DEF IInv
<1>1. ThreadsTyped' /\ \A u \in Threads : ThreadOK(u)'
  BY EnterOK, Zenon
<1>2. files' \in [Fds -> Desc \cup {None}] /\ \A k \in Fds : files'[k] \in {files[k], None}
  BY Zenon DEF Typed
<1>3. NothingNew
  <2> SUFFICES ASSUME NEW d \in Desc, Outside(d)' PROVE Outside(d)
    BY Zenon DEF NothingNew
  <2>1. \/ \E k \in Fds : files'[k] = d
        \/ h = d \/ l = d
        \/ \E u \in Threads \ {t} : file[u] = d \/ locked[u] = d
    BY EnterOutside DEF Typed
  <2> QED
    BY <2>1, <1>2, NoneIsNothing, Zenon DEF Outside
<1>4. RefsOpen' /\ MailSole'
  BY <1>3, RefsKept, Zenon
<1>5. Typed'
  BY <1>1, <1>2, Zenon DEF Typed, MailTyped
<1> QED
  BY <1>1, <1>4, <1>5, Zenon

\* A call ends, and the file it holds may get a place.
LEMMA PutLeave ==
    ASSUME IInv, NEW t \in Threads, pc[t] \in {"made", "insert"}, Leave(t),
           UNCHANGED <<filesLock, scheme, mail>>, Unlocked,
           files' = files \/ \E k \in Fds : files' = [files EXCEPT ![k] = file[t]]
    PROVE  IInv'
<1> USE DEF IInv
<1>1. ThreadsTyped' /\ \A u \in Threads : ThreadOK(u)'
  BY LeaveOK, Zenon
<1>2. file[t] \in Desc
  BY Zenon DEF ThreadOK, WithFile
<1>3. files' \in [Fds -> Desc \cup {None}] /\ \A k \in Fds : files'[k] \in {files[k], file[t]}
  BY <1>2, Zenon DEF Typed
<1>4. NothingNew
  <2> SUFFICES ASSUME NEW d \in Desc, Outside(d)' PROVE Outside(d)
    BY Zenon DEF NothingNew
  <2>1. \/ \E k \in Fds : files'[k] = d
        \/ \E u \in Threads \ {t} : file[u] = d \/ locked[u] = d
    BY LeaveOutside, Zenon DEF Typed
  <2> QED
    BY <2>1, <1>3, Zenon DEF Outside
<1>5. RefsOpen' /\ MailSole'
  BY <1>4, RefsKept, Zenon
<1>6. Typed'
  BY <1>1, <1>3, Zenon DEF Typed, MailTyped
<1> QED
  BY <1>1, <1>5, <1>6, Zenon

\* open, openat, dup, F_DUPFD: add_file or EMFILE.
LEMMA AddFileStep ==
    ASSUME IInv, NEW t \in Threads, AddFile(t)
    PROVE  IInv'
  BY PutLeave, AddIsPut, Zenon DEF AddFile

\* dup2: insert_file or EMFILE.
LEMMA Dup2InsertStep ==
    ASSUME IInv, NEW t \in Threads, Dup2Insert(t)
    PROVE  IInv'
<1>1. new[t] \in Fds /\ files \in [Fds -> Desc \cup {None}]
  BY Zenon DEF IInv, Typed, ThreadsTyped
<1>2. files' = files \/ files' = [files EXCEPT ![new[t]] = file[t]]
  BY <1>1, Zenon DEF Dup2Insert
<1> QED
  BY <1>1, <1>2, PutLeave, Zenon DEF Dup2Insert

\* The scheme answers with an error.
LEMMA RefusedStep ==
    ASSUME IInv, NEW t \in Threads, Refused(t)
    PROVE  IInv'
  BY PlainLeave, Zenon DEF Refused

\* The Arc is dropped, and dup2 goes on.
LEMMA ClosedStep ==
    ASSUME IInv, NEW t \in Threads, pc[t] = "drop", Closed(t),
           UNCHANGED <<files, filesLock, scheme, mail>>
    PROVE  IInv'
<1>1. CASE op[t] = "dup2"
  <2>1. locked[t] = None
    BY Zenon DEF IInv, ThreadOK, WithLock
  <2>2. Fits("dup2", None, locked[t])
    BY <2>1, Zenon DEF Fits, Places, WithFile, WithLock
  <2>3. Goto(t, "dup2", None) /\ locked' = locked
    BY <1>1, Zenon DEF Closed
  <2> QED
    BY <2>2, <2>3, PlainGoto, Zenon
<1>2. CASE op[t] # "dup2"
  BY <1>2, PlainLeave, Zenon DEF Closed
<1> QED
  BY <1>1, <1>2, Zenon

\* dup2: duplicate_file or EBADF.
LEMMA Dup2GetStep ==
    ASSUME IInv, NEW t \in Threads, Dup2Get(t)
    PROVE  IInv'
<1>1. CASE Leave(t)
  BY <1>1, PlainLeave, Zenon DEF Dup2Get
<1>2. CASE ~Leave(t)
  <2>1. PICK place \in {"insert", "kdup"} : Goto(t, place, files[fd[t]])
    BY <1>2, Zenon DEF Dup2Get
  <2>2. files[fd[t]] # None /\ locked' = locked /\ pc[t] = "dup2"
    BY <1>2, Zenon DEF Dup2Get
  <2>3. fd[t] \in Fds /\ files[fd[t]] \in Desc
    BY <2>2, Zenon DEF IInv, Typed, ThreadsTyped
  <2>4. locked[t] = None
    BY <2>2, Zenon DEF IInv, ThreadOK, WithLock
  <2>5. Fits(place, files[fd[t]], locked[t])
    BY <2>1, <2>3, <2>4, Zenon DEF Fits, Places, WithFile, WithLock
  <2>6. Outside(files[fd[t]])
    BY <2>3, Zenon DEF Outside
  <2> QED
    BY <2>1, <2>2, <2>5, <2>6, PlainGoto, Zenon DEF Dup2Get
<1> QED
  BY <1>1, <1>2, Zenon

\* fcntl: F_DUPFD ...
LEMMA FcntlDupStep ==
    ASSUME IInv, NEW t \in Threads, FcntlDup(t)
    PROVE  IInv'
<1>1. CASE Leave(t)
  BY <1>1, PlainLeave, Zenon DEF FcntlDup
<1>2. CASE ~Leave(t)
  <2>1. /\ Goto(t, "made", files[fd[t]]) /\ locked' = locked
        /\ files[fd[t]] # None /\ pc[t] = "fcntl"
    BY <1>2, Zenon DEF FcntlDup
  <2>2. fd[t] \in Fds /\ files[fd[t]] \in Desc /\ locked[t] \in Desc \cup {None}
    BY <2>1, Zenon DEF IInv, Typed, ThreadsTyped
  <2>3. Fits("made", files[fd[t]], locked[t])
    BY <2>2, Zenon DEF Fits, Places, WithFile, WithLock
  <2>4. Outside(files[fd[t]])
    BY <2>2, Zenon DEF Outside
  <2> QED
    BY <2>1, <2>3, <2>4, PlainGoto, Zenon DEF FcntlDup
<1> QED
  BY <1>1, <1>2, Zenon

\* ... and the commands that the scheme is asked about.
LEMMA FcntlAgreedStep ==
    ASSUME IInv, NEW t \in Threads, FcntlAgreed(t)
    PROVE  IInv'
<1>1. locked[t] \in Desc
  BY Zenon DEF IInv, ThreadOK, FcntlAgreed, WithLock
<1>2. Fits("agreed", None, locked[t])
  BY <1>1, Zenon DEF Fits, Places, WithFile, WithLock
<1> QED
  BY <1>2, PlainGoto, Zenon DEF FcntlAgreed

\* F_SETFL takes the table ...
LEMMA FcntlSetStep ==
    ASSUME IInv, NEW t \in Threads, FcntlSet(t)
    PROVE  IInv'
<1> USE DEF IInv
<1>1. pc[t] = "agreed" /\ filesLock = None /\ files[fd[t]] # None
  BY Zenon DEF FcntlSet, Unlocked
<1>2. locked[t] \in Desc
  BY <1>1, Zenon DEF ThreadOK, WithLock
<1>3. /\ pc' = [pc EXCEPT ![t] = "setfl"] /\ file' = [file EXCEPT ![t] = locked[t]]
      /\ locked' = [locked EXCEPT ![t] = None]
      /\ filesLock' = t /\ UNCHANGED <<fd, new, files, scheme, mail>>
  BY Zenon DEF FcntlSet, Goto
<1>4. Typed'
  BY <1>2, <1>3, Zenon DEF Typed, ThreadsTyped, MailTyped, Places
<1>5. ThreadOK(t)'
  <2>1. pc'[t] = "setfl" /\ file'[t] = locked[t] /\ locked'[t] = None
    BY <1>3, Zenon DEF Typed, ThreadsTyped
  <2> QED
    BY <1>1, <1>2, <1>3, <2>1, Zenon DEF ThreadOK, WithFile, WithLock
<1>6. ASSUME NEW u \in Threads, u # t PROVE ThreadOK(u)'
  <2>1. pc'[u] = pc[u] /\ file'[u] = file[u] /\ locked'[u] = locked[u] /\ fd'[u] = fd[u]
    BY <1>3, <1>6, Zenon DEF Typed, ThreadsTyped
  <2>2. ThreadOK(u)
    BY Zenon
  <2> QED
    BY <1>1, <1>3, <1>6, <2>1, <2>2, NoneIsNothing, Zenon DEF ThreadOK
<1>7. NothingNew
  <2> SUFFICES ASSUME NEW d \in Desc, Outside(d)' PROVE Outside(d)
    BY Zenon DEF NothingNew
  <2>1. \/ \E i \in Fds : files'[i] = d
        \/ locked[t] = d \/ None = d
        \/ \E u \in Threads \ {t} : file[u] = d \/ locked[u] = d
    <3>1. /\ \A u \in Threads \ {t} : file'[u] = file[u] /\ locked'[u] = locked[u]
          /\ file'[t] = locked[t] /\ locked'[t] = None
      BY <1>3, Zenon DEF Typed, ThreadsTyped
    <3> QED
      BY <3>1, OutsideNext, Zenon
  <2> QED
    BY <1>3, <2>1, NoneIsNothing, Zenon DEF Outside
<1>8. RefsOpen' /\ MailSole'
  BY <1>3, <1>7, RefsKept, Zenon
<1> QED
  BY <1>4, <1>5, <1>6, <1>8, Zenon

\* ... and gives it back.
LEMMA FcntlWriteStep ==
    ASSUME IInv, NEW t \in Threads, FcntlWrite(t)
    PROVE  IInv'
<1> USE DEF IInv
<1>1. pc[t] = "setfl" /\ filesLock' = None /\ Leave(t) /\ UNCHANGED <<files, scheme, mail>>
  BY Zenon DEF FcntlWrite
<1>2. Typed'
  BY <1>1, FileOpsAssumption DEF Typed, ThreadsTyped, MailTyped, Places, Leave, Fds
<1>3. filesLock = t
  BY <1>1, Zenon DEF ThreadOK
<1>4. ThreadOK(t)'
  <2>1. pc'[t] = "user" /\ file'[t] = None /\ locked'[t] = None
    BY <1>1, Zenon DEF Typed, ThreadsTyped, Leave
  <2> QED
    BY <1>1, <2>1, NoneIsNothing, Zenon DEF ThreadOK, WithFile, WithLock
<1>5. ASSUME NEW u \in Threads, u # t PROVE ThreadOK(u)'
  <2>1. pc'[u] = pc[u] /\ file'[u] = file[u] /\ locked'[u] = locked[u] /\ fd'[u] = fd[u]
    BY <1>1, <1>5, Zenon DEF Typed, ThreadsTyped, Leave
  <2>2. ThreadOK(u)
    BY Zenon
  <2> QED
    BY <1>1, <1>3, <1>5, <2>1, <2>2, NoneIsNothing, Zenon DEF ThreadOK
<1>6. NothingNew
  BY <1>1, LeaveOutside, Zenon DEF NothingNew, Outside, Typed
<1>7. RefsOpen' /\ MailSole'
  BY <1>1, <1>6, RefsKept, Zenon
<1> QED
  BY <1>2, <1>4, <1>5, <1>7, Zenon

\* The calls that look a descriptor up: dup, close, dup2, read, write, openat, fcntl, sendfd.
LEMMA LookupStep ==
    ASSUME IInv, NEW t \in Threads, NEW i \in Fds,
           \/ \E call \in {"dup", "kdup"} : Dup(t, i, call)
           \/ Close(t, i)
           \/ \E j \in Fds : Dup2(t, i, j)
           \/ ReadWrite(t, i)
           \/ \E call \in {"openat", "fcntl"} : ReadLock(t, i, call)
           \/ \E clone, exclusive \in BOOLEAN : Send(t, i, clone, exclusive)
    PROVE  IInv'
<1>1. 0 \in Fds /\ files \in [Fds -> Desc \cup {None}]
  BY FileOpsAssumption DEF Fds, IInv, Typed
<1>2. \A k \in Fds : files[k] # None => files[k] \in Desc /\ Outside(files[k])
  BY <1>1, Zenon DEF Outside
<1>3. \A h \in Desc : \A place \in WithFile \ {"setfl"} : Fits(place, h, None)
  BY DEF Fits, Places, WithFile, WithLock
<1>4. ASSUME NEW call \in {"dup", "kdup"}, Dup(t, i, call) PROVE IInv'
  <2>1. (IF call = "dup" THEN "made" ELSE "kdup") \in WithFile \ {"setfl"}
    BY Zenon DEF WithFile
  <2>2. Fits(IF call = "dup" THEN "made" ELSE "kdup", files[i], None)
    BY <1>2, <1>3, <1>4, <2>1, Zenon DEF Dup
  <2> QED
    BY <1>1, <1>2, <1>4, <2>2, PlainEnter, Zenon DEF Dup
<1>5. CASE Close(t, i)
  <2>1. Fits("close", files[i], None)
    BY <1>2, <1>3, <1>5, Zenon DEF Close, WithFile
  <2> QED
    BY <1>1, <1>2, <1>5, <2>1, PlainEnter, Zenon DEF Close
<1>6. ASSUME NEW j \in Fds, Dup2(t, i, j) PROVE IInv'
  <2>1. CASE files[j] = None
    <3>1. Fits("dup2", None, None)
      BY Zenon DEF Fits, Places, WithFile, WithLock
    <3>2. Enter(t, "dup2", i, j, "dup2", None, None)
      BY <1>6, <2>1, Zenon DEF Dup2
    <3> QED
      BY <1>6, <3>1, <3>2, PlainEnter, Zenon DEF Dup2
  <2>2. CASE files[j] # None
    <3>1. Fits("close", files[j], None)
      BY <1>2, <1>3, <2>2, Zenon DEF WithFile
    <3>2. Enter(t, "dup2", i, j, "close", files[j], None)
      BY <1>6, <2>2, Zenon DEF Dup2
    <3> QED
      BY <1>2, <1>6, <2>2, <3>1, <3>2, PlainEnter, Zenon DEF Dup2
  <2> QED
    BY <2>1, <2>2, Zenon
<1>7. CASE ReadWrite(t, i)
  <2>1. Fits("rw", files[i], None)
    BY <1>2, <1>3, <1>7, Zenon DEF ReadWrite, WithFile
  <2> QED
    BY <1>1, <1>2, <1>7, <2>1, PlainEnter, Zenon DEF ReadWrite
<1>8. ASSUME NEW call \in {"openat", "fcntl"}, ReadLock(t, i, call) PROVE IInv'
  <2>1. Fits(call, None, files[i])
    BY <1>2, <1>8, Zenon DEF ReadLock, Fits, Places, WithFile, WithLock
  <2> QED
    BY <1>1, <1>2, <1>8, <2>1, PlainEnter, Zenon DEF ReadLock
<1>9. ASSUME NEW clone \in BOOLEAN, NEW exclusive \in BOOLEAN, Send(t, i, clone, exclusive) PROVE IInv'
  <2>1. (IF exclusive THEN "exclusive" ELSE "send") \in WithFile \ {"setfl"}
    BY Zenon DEF WithFile
  <2>2. Fits(IF exclusive THEN "exclusive" ELSE "send", files[i], None)
    BY <1>2, <1>3, <1>9, <2>1, Zenon DEF Send
  <2>3. files' = files \/ files' = [files EXCEPT ![i] = None]
    BY <1>9, Zenon DEF Send
  <2> QED
    BY <1>1, <1>2, <1>9, <2>2, <2>3, PlainEnter, Zenon DEF Send
<1> QED
  BY <1>4, <1>5, <1>6, <1>7, <1>8, <1>9, Zenon

-----------------------------------------------------------------------------
(* Steps that make or close a description, and the mail                      *)

\* open: a new description.
LEMMA OpenStep ==
    ASSUME IInv, NEW t \in Threads, Open(t)
    PROVE  IInv'
<1> USE DEF IInv
<1>1. Make /\ Enter(t, "open", 0, 0, "made", Fresh, None) /\ UNCHANGED <<files, filesLock, mail>>
  BY Zenon DEF Open
<1>2. Fresh \in Desc
  BY <1>1, FreshIsUnborn, Zenon DEF Make
<1>3. Fits("made", Fresh, None)
  BY <1>2, Zenon DEF Fits, Places, WithFile, WithLock
<1>4. 0 \in Fds
  BY FileOpsAssumption DEF Fds
<1>5. ThreadsTyped' /\ \A u \in Threads : ThreadOK(u)'
  BY <1>1, <1>3, <1>4, EnterOK, Zenon
<1>6. ASSUME NEW d \in Desc, Outside(d)' PROVE Outside(d) \/ d = Fresh
  <2>1. \/ \E k \in Fds : files'[k] = d
        \/ Fresh = d \/ None = d
        \/ \E u \in Threads \ {t} : file[u] = d \/ locked[u] = d
    BY <1>1, <1>6, EnterOutside DEF Typed
  <2> QED
    BY <1>1, <2>1, NoneIsNothing, Zenon DEF Outside
<1>7. scheme' \in [Desc -> {"unborn", "open", "closed"}] /\ RefsOpen' /\ MailSole'
  BY <1>1, <1>6, RefsMade, Zenon
<1>8. Typed'
  BY <1>1, <1>5, <1>7, Zenon DEF Typed, MailTyped
<1> QED
  BY <1>5, <1>7, <1>8, Zenon

\* kdup and kopenat: a new description inside a call.
LEMMA MakeGoto ==
    ASSUME IInv, NEW t \in Threads, pc[t] \in {"kdup", "openat"}, Make, NEW place,
           place \in {"made", "insert"}, place = "insert" => pc[t] = "kdup",
           Goto(t, place, Fresh), UNCHANGED <<files, filesLock, mail, locked>>
    PROVE  IInv'
<1> USE DEF IInv
<1>1. Fresh \in Desc
  BY FreshIsUnborn, Zenon DEF Make
<1>2. locked[t] \in Desc \cup {None} /\ (pc[t] = "kdup" => locked[t] = None)
  BY Zenon DEF Typed, ThreadsTyped, ThreadOK, WithLock
<1>3. Fits(place, Fresh, locked[t])
  BY <1>1, <1>2, Zenon DEF Fits, Places, WithFile, WithLock
<1>4. ThreadsTyped' /\ \A u \in Threads : ThreadOK(u)'
  BY <1>3, GotoOK, Zenon
<1>5. \A d \in Desc : Outside(d)' => Outside(d) \/ d = Fresh
  BY GotoOutside DEF Typed
<1>6. scheme' \in [Desc -> {"unborn", "open", "closed"}] /\ RefsOpen' /\ MailSole'
  BY <1>5, RefsMade, Zenon
<1>7. Typed'
  BY <1>4, <1>6, Zenon DEF Typed, MailTyped
<1> QED
  BY <1>4, <1>6, <1>7, Zenon

\* FileDescriptor::close: only the thread with the last Arc closes the description.
LEMMA FileCloseStep ==
    ASSUME IInv, NEW t \in Threads, FileClose(t)
    PROVE  IInv'
<1> USE DEF IInv
<1>1. pc[t] = "close" /\ UNCHANGED <<files, filesLock, mail>>
  BY Zenon DEF FileClose
<1>2. file[t] \in Desc /\ locked[t] = None
  BY <1>1, Zenon DEF ThreadOK, WithFile, WithLock
<1>3. CASE Strong(file[t]) = 1 /\ Closed(t) /\ scheme' = [scheme EXCEPT ![file[t]] = "closed"]
  <2>1. OnlyThread(t)
    BY <1>3, StrongOfThread, Zenon DEF Typed
  <2>2. file' = [file EXCEPT ![t] = None] /\ locked' = [locked EXCEPT ![t] = None]
    BY <1>2, <1>3, Zenon DEF Closed, Leave, Goto, Typed, ThreadsTyped
  <2>3. ThreadsTyped' /\ \A u \in Threads : ThreadOK(u)'
    <3>1. CASE op[t] = "dup2"
      <4>1. Fits("dup2", None, locked[t])
        BY <1>2, Zenon DEF Fits, Places, WithFile, WithLock
      <4> QED
        BY <1>1, <1>3, <3>1, <4>1, GotoOK, Zenon DEF Closed
    <3>2. CASE op[t] # "dup2"
      BY <1>1, <1>3, <3>2, LeaveOK, Zenon DEF Closed
    <3> QED
      BY <3>1, <3>2, Zenon
  <2>4. \A d \in Desc : Outside(d)' <=>
            \/ \E i \in Fds : files[i] = d
            \/ \E u \in Threads \ {t} : file[u] = d \/ locked[u] = d
    <3>1. /\ \A u \in Threads \ {t} : file'[u] = file[u] /\ locked'[u] = locked[u]
          /\ file'[t] = None /\ locked'[t] = None
      BY <2>2, Zenon DEF Typed, ThreadsTyped
    <3> QED
      BY <1>1, <3>1, OutsideNext, NoneIsNothing
  <2>5. NothingNew
    BY <2>4, Zenon DEF NothingNew, Outside
  <2>6. \A m \in mail' : m.desc # file[t]
    BY <1>1, <2>1, Zenon DEF OnlyThread
  <2>7. scheme' \in [Desc -> {"unborn", "open", "closed"}] /\ RefsOpen' /\ MailSole'
    <3>1. \A e \in Desc : e = file[t] =>
            scheme' \in [Desc -> {"unborn", "open", "closed"}] /\ RefsOpen' /\ MailSole'
      <4> SUFFICES ASSUME NEW e \in Desc, e = file[t]
                   PROVE  scheme' \in [Desc -> {"unborn", "open", "closed"}] /\ RefsOpen' /\ MailSole'
        BY Zenon
      <4>1. ~Outside(e)'
        BY <1>2, <2>1, <2>4, Zenon DEF OnlyThread
      <4> QED
        BY <1>1, <1>3, <2>5, <2>6, <4>1, RefsClosed, Zenon
    <3> QED
      BY <1>2, <3>1, Zenon
  <2>8. Typed'
    BY <1>1, <2>3, <2>7, Zenon DEF Typed, MailTyped
  <2> QED
    BY <2>3, <2>7, <2>8, Zenon
<1>4. CASE Goto(t, "drop", file[t]) /\ UNCHANGED <<scheme, locked>>
  <2>1. Fits("drop", file[t], locked[t])
    BY <1>2, Zenon DEF Fits, Places, WithFile, WithLock
  <2>2. Outside(file[t])
    BY Zenon DEF Outside
  <2> QED
    BY <1>1, <1>4, <2>1, <2>2, PlainGoto, Zenon
<1> QED
  BY <1>3, <1>4, Zenon DEF FileClose

\* sendfd: the count is one.
LEMMA SendSoleStep ==
    ASSUME IInv, NEW t \in Threads, SendSole(t)
    PROVE  IInv'
<1>1. file[t] \in Desc /\ locked[t] = None /\ pc[t] # "setfl"
  BY Zenon DEF SendSole, IInv, ThreadOK, WithFile, WithLock
<1>2. Fits("granted", file[t], locked[t])
  BY <1>1, Zenon DEF Fits, Places, WithFile, WithLock
<1>3. Outside(file[t])
  BY Zenon DEF Outside
<1> QED
  BY <1>1, <1>2, <1>3, PlainGoto, Zenon DEF SendSole

\* sendfd: the Arc goes into the mail, exclusively only when it is the last one.
LEMMA SendCallStep ==
    ASSUME IInv, Sole, NEW t \in Threads, SendCall(t)
    PROVE  IInv'
<1> USE DEF IInv
<1>1. /\ pc[t] \in {"send", "granted"} /\ (pc[t] = "granted" => OnlyThread(t))
      /\ Leave(t) /\ UNCHANGED <<files, filesLock, scheme>>
  BY Zenon DEF SendCall, Sole
<1>2. file[t] \in Desc
  BY <1>1, Zenon DEF ThreadOK, WithFile
<1>3. ThreadsTyped' /\ \A u \in Threads : ThreadOK(u)'
  BY <1>1, LeaveOK, Zenon
<1>4. NothingNew
  BY <1>1, LeaveOutside, Zenon DEF NothingNew, Outside, Typed
<1>5. CASE mail # {}
  <2>1. mail' = mail
    BY <1>5, Zenon DEF SendCall
  <2>2. RefsOpen' /\ MailSole'
    BY <1>1, <1>4, <2>1, RefsKept, Zenon
  <2>3. Typed'
    BY <1>1, <1>3, <2>1, Zenon DEF Typed, MailTyped
  <2> QED
    BY <1>3, <2>2, <2>3, Zenon
<1>6. CASE mail = {}
  <2>1. PICK x \in BOOLEAN : x = (pc[t] = "granted")
    BY Zenon
  <2>2. mail' = {[desc |-> file[t], exclusive |-> x]}
    BY <1>6, <2>1, Zenon DEF SendCall
  <2>3. \A m \in mail' : m.desc = file[t] /\ m.exclusive = x
    BY <2>2
  <2>4. MailTyped'
    BY <1>2, <2>2 DEF MailTyped
  <2>5. Typed'
    BY <1>1, <1>3, <2>4, Zenon DEF Typed
  <2>6. Outside(file[t])
    BY Zenon DEF Outside
  <2>7. RefsOpen'
    <3> SUFFICES ASSUME NEW d \in Desc, Referenced(d)' PROVE scheme'[d] = "open"
      BY Zenon DEF RefsOpen
    <3>1. Outside(d)
      BY <1>4, <2>3, <2>6, Zenon DEF Referenced, NothingNew
    <3> QED
      BY <1>1, <3>1, Zenon DEF RefsOpen, Referenced
  <2>8. MailSole'
    <3> SUFFICES ASSUME NEW m \in mail', m.exclusive PROVE ~Outside(m.desc)'
      BY Zenon DEF MailSole
    <3>1. OnlyThread(t)
      BY <1>1, <2>1, <2>3, Zenon
    <3>2. \A d \in Desc : Outside(d)' => \/ \E i \in Fds : files[i] = d
                                         \/ \E u \in Threads \ {t} : file[u] = d \/ locked[u] = d
      BY <1>1, LeaveOutside DEF Typed
    <3>3. \A d \in Desc : d = file[t] => ~Outside(d)'
      BY <3>1, <3>2, Zenon DEF OnlyThread
    <3>4. m.desc \in Desc /\ m.desc = file[t]
      BY <1>2, <2>3, Zenon
    <3> QED
      BY <3>3, <3>4, Zenon
  <2> QED
    BY <1>3, <2>5, <2>7, <2>8, Zenon
<1> QED
  BY <1>5, <1>6, Zenon

\* The files of the threads are not touched: what they refer to stays.
LEMMA MailThreads ==
    ASSUME IInv, UNCHANGED <<filesLock, thread>>, files' = files \/ Unlocked
    PROVE  ThreadsTyped' /\ \A u \in Threads : ThreadOK(u)'
<1> USE DEF IInv, thread
<1>1. ThreadsTyped'
  BY Zenon DEF Typed, ThreadsTyped
<1>2. ASSUME NEW u \in Threads PROVE ThreadOK(u)'
  <2>1. ThreadOK(u)
    BY Zenon
  <2>2. pc[u] = "setfl" => files' = files
    BY <2>1, NoneIsNothing, Zenon DEF ThreadOK, Unlocked
  <2> QED
    BY <2>1, <2>2, Zenon DEF ThreadOK
<1> QED
  BY <1>1, <1>2, Zenon

\* A message is received.
LEMMA MailTakeStep ==
    ASSUME IInv, MailTake
    PROVE  IInv'
<1> USE DEF IInv
<1>1. UNCHANGED <<filesLock, scheme, thread>> /\ Unlocked /\ mail' = {}
  BY Zenon DEF MailTake
<1>2. PICK m \in mail : files' = Add(m.desc)
  BY Zenon DEF MailTake
<1>3. PICK d \in Desc : d = m.desc
  BY <1>2, Zenon DEF Typed, MailTyped
<1>4. files' \in [Fds -> Desc \cup {None}] /\ \A i \in Fds : files'[i] \in {files[i], d}
  BY <1>2, <1>3, AddIsPut DEF Typed
<1>5. ThreadsTyped' /\ \A u \in Threads : ThreadOK(u)'
  BY <1>1, MailThreads, Zenon
<1>6. RefsOpen'
  <2> SUFFICES ASSUME NEW e \in Desc, Referenced(e)' PROVE scheme'[e] = "open"
    BY Zenon DEF RefsOpen
  <2>1. Referenced(e)
    BY <1>1, <1>2, <1>3, <1>4, Zenon DEF Referenced, Outside, thread
  <2> QED
    BY <1>1, <2>1, Zenon DEF RefsOpen
<1>7. MailSole'
  BY <1>1, Zenon DEF MailSole
<1>8. Typed'
  BY <1>1, <1>4, <1>5, Zenon DEF Typed, MailTyped
<1> QED
  BY <1>5, <1>6, <1>7, <1>8, Zenon

\* A message is answered without being received: respond() closes what it carries, if
\* it has the last Arc.
LEMMA MailCloseStep ==
    ASSUME IInv, MailClose
    PROVE  IInv'
<1> USE DEF IInv
<1>1. UNCHANGED <<files, filesLock, thread>> /\ mail' = {}
  BY Zenon DEF MailClose
<1>2. PICK m \in mail : scheme' = IF Strong(m.desc) = 1 THEN [scheme EXCEPT ![m.desc] = "closed"] ELSE scheme
  BY Zenon DEF MailClose
<1>3. \A e \in Desc : Outside(e)' <=> Outside(e)
  BY <1>1, Zenon DEF Outside, thread
<1>4. NothingNew
  BY <1>3, Zenon DEF NothingNew
<1>5. scheme' \in [Desc -> {"unborn", "open", "closed"}] /\ RefsOpen' /\ MailSole'
  <2>1. CASE Strong(m.desc) = 1
    <3>1. PICK d \in Desc : d = m.desc
      BY <1>2, Zenon DEF Typed, MailTyped
    <3>2. ~Outside(d)
      BY <1>2, <2>1, <3>1, StrongOfMail, Zenon DEF Typed
    <3>3. ~Outside(d)'
      BY <1>3, <3>2, Zenon
    <3>4. scheme' = [scheme EXCEPT ![d] = "closed"]
      BY <1>2, <2>1, <3>1, Zenon
    <3> QED
      BY <1>1, <1>4, <3>3, <3>4, RefsClosed, Zenon
  <2>2. CASE Strong(m.desc) # 1
    <3>1. scheme' = scheme
      BY <1>2, <2>2, Zenon
    <3>2. RefsOpen'
      BY <1>1, <1>4, <3>1, Zenon DEF RefsOpen, Referenced, NothingNew
    <3> QED
      BY <1>1, <3>1, <3>2, Zenon DEF MailSole, Typed
  <2> QED
    BY <2>1, <2>2, Zenon
<1>6. ThreadsTyped' /\ \A u \in Threads : ThreadOK(u)'
  BY <1>1, MailThreads, Zenon
<1>7. Typed'
  BY <1>1, <1>5, <1>6, Zenon DEF Typed, MailTyped
<1> QED
  BY <1>5, <1>6, <1>7, Zenon

\* exit_this_context: the last thread closes what only the table and it refer to.
LEMMA ExitStep ==
    ASSUME IInv, NEW t \in Threads, Exit(t)
    PROVE  IInv'
<1> USE DEF IInv
<1>1. /\ pc[t] = "user" /\ Unlocked /\ pc' = [pc EXCEPT ![t] = "exited"]
      /\ UNCHANGED <<filesLock, mail, op, fd, new, file, locked>>
  BY Zenon DEF Exit
<1>2. file[t] = None /\ locked[t] = None
  BY <1>1, Zenon DEF ThreadOK, WithFile, WithLock
<1>3. ThreadsTyped' /\ \A u \in Threads : ThreadOK(u)'
  <2>1. Fits("exited", None, None)
    BY Zenon DEF Fits, Places, WithFile, WithLock
  <2>2. /\ file' = [file EXCEPT ![t] = None] /\ locked' = [locked EXCEPT ![t] = None]
        /\ fd' = [fd EXCEPT ![t] = fd[t]] /\ new' = [new EXCEPT ![t] = new[t]]
        /\ fd[t] \in Fds /\ new[t] \in Fds
    BY <1>1, <1>2, Zenon DEF Typed, ThreadsTyped
  <2> QED
    BY <1>1, <2>1, <2>2, MoveOK, Zenon
<1>4. CASE UNCHANGED <<files, scheme>>
  <2>1. NothingNew
    BY <1>1, <1>4, Zenon DEF NothingNew, Outside
  <2>2. RefsOpen' /\ MailSole'
    BY <1>1, <1>4, <2>1, RefsKept, Zenon
  <2>3. Typed'
    BY <1>1, <1>3, <1>4, Zenon DEF Typed, MailTyped
  <2> QED
    BY <1>3, <2>2, <2>3, Zenon
<1>5. CASE \A u \in Threads \ {t} : pc[u] = "exited"
  <2>1. /\ files' = [i \in Fds |-> None]
        /\ scheme' = [d \in Desc |-> IF d \in {files[i] : i \in Fds} /\ \A m \in mail : m.desc # d
                                     THEN "closed" ELSE scheme[d]]
    BY <1>5, Zenon DEF Exit
  <2>2. \A u \in Threads : file[u] = None /\ locked[u] = None
    BY <1>2, <1>5, Zenon DEF ThreadOK, WithFile, WithLock
  <2>3. \A d \in Desc : ~Outside(d)'
    BY <1>1, <2>1, <2>2, NoneIsNothing, Zenon DEF Outside
  <2>4. RefsOpen'
    <3> SUFFICES ASSUME NEW d \in Desc, Referenced(d)' PROVE scheme'[d] = "open"
      BY Zenon DEF RefsOpen
    <3>1. \E m \in mail : m.desc = d
      BY <1>1, <2>3, Zenon DEF Referenced
    <3>2. scheme[d] = "open"
      BY <3>1, Zenon DEF RefsOpen, Referenced
    <3> QED
      BY <2>1, <3>1, <3>2, Zenon
  <2>5. MailSole'
    BY <1>1, <2>3, Zenon DEF MailSole, Typed, MailTyped
  <2>6. Typed'
    BY <1>1, <1>3, <2>1, Zenon DEF Typed, MailTyped
  <2> QED
    BY <1>3, <2>4, <2>5, <2>6, Zenon
<1> QED
  BY <1>4, <1>5, Zenon DEF Exit

-----------------------------------------------------------------------------
(* The invariant                                                             *)

\* No thread holds anything at the start.
LEMMA InitIInv == Init => IInv
<1> SUFFICES ASSUME Init PROVE IInv
  BY Zenon
<1> USE DEF Init
<1>1. 0 \in Fds
  BY FileOpsAssumption DEF Fds
<1>2. Typed
  BY <1>1, Zenon DEF Typed, ThreadsTyped, MailTyped, Places
<1>3. \A t \in Threads : ThreadOK(t)
  BY NoneIsNothing, Zenon DEF ThreadOK, WithFile, WithLock
<1>4. RefsOpen
  BY NoneIsNothing, Zenon DEF RefsOpen, Referenced, Outside
<1>5. MailSole
  BY Zenon DEF MailSole
<1> QED
  BY <1>2, <1>3, <1>4, <1>5, Zenon DEF IInv

\* Every step of a system call ...
LEMMA StepIInv ==
    ASSUME IInv, Sole, NEW t \in Threads, Step(t)
    PROVE  IInv'
<1>1. CASE KdupCall(t)
  <2>1. PICK place \in {"made", "insert"} : Goto(t, place, Fresh)
    BY <1>1, Zenon DEF KdupCall
  <2> QED
    BY <1>1, <2>1, MakeGoto, Zenon DEF KdupCall
<1>2. CASE OpenAtCall(t)
  BY <1>2, MakeGoto, Zenon DEF OpenAtCall
<1>3. CASE FileDrop(t)
  BY <1>3, ClosedStep, Zenon DEF FileDrop
<1>4. CASE ReadWriteEnd(t)
  BY <1>4, PlainLeave, Zenon DEF ReadWriteEnd
<1>5. CASE SendBusy(t)
  BY <1>5, PlainLeave, Zenon DEF SendBusy
<1>6. CASE FcntlDone(t)
  BY <1>6, PlainLeave, Zenon DEF FcntlDone
<1>7. CASE SendSole(t)
  BY <1>7, SendSoleStep, Zenon
<1> QED
  BY <1>1, <1>2, <1>3, <1>4, <1>5, <1>6, <1>7, AddFileStep, RefusedStep, FileCloseStep, Dup2GetStep,
     Dup2InsertStep, SendCallStep, FcntlDupStep, FcntlAgreedStep, FcntlSetStep, FcntlWriteStep, Zenon
  DEF Step

\* ... and of the whole keeps the invariant.
LEMMA NextIInv == IInv /\ Sole /\ [Next]_vars => IInv'
<1> SUFFICES ASSUME IInv, Sole, [Next]_vars PROVE IInv'
  BY Zenon
<1>1. ASSUME NEW t \in Threads, Step(t) PROVE IInv'
  BY <1>1, StepIInv, Zenon
<1>2. ASSUME NEW t \in Threads, Calls(t) PROVE IInv'
  <2>1. CASE Open(t)
    BY <2>1, OpenStep, Zenon
  <2>2. CASE Exit(t)
    BY <2>2, ExitStep, Zenon
  <2>3. CASE ~Open(t) /\ ~Exit(t)
    <3>1. PICK i \in Fds :
            \/ \E call \in {"dup", "kdup"} : Dup(t, i, call)
            \/ Close(t, i)
            \/ \E j \in Fds : Dup2(t, i, j)
            \/ ReadWrite(t, i)
            \/ \E call \in {"openat", "fcntl"} : ReadLock(t, i, call)
            \/ \E clone, exclusive \in BOOLEAN : Send(t, i, clone, exclusive)
      BY <1>2, <2>3, Zenon DEF Calls
    <3> QED
      BY <3>1, LookupStep, Zenon
  <2> QED
    BY <2>1, <2>2, <2>3, Zenon
<1>3. CASE MailTake
  BY <1>3, MailTakeStep, Zenon
<1>4. CASE MailClose
  BY <1>4, MailCloseStep, Zenon
<1>5. CASE UNCHANGED vars
  BY <1>5, Zenon DEF vars, thread, IInv, Typed, ThreadsTyped, MailTyped, ThreadOK, RefsOpen, MailSole,
              Referenced, Outside
<1> QED
  BY <1>1, <1>2, <1>3, <1>4, <1>5, Zenon DEF Next

-----------------------------------------------------------------------------
(* Nobody comes to share a description that fdwrite_inner found alone        *)

\* A step of u leaves t alone with its description, if what the step puts anywhere is
\* not that description.
LEMMA StaysSole ==
    ASSUME Typed, NEW t \in Threads, NEW u \in Threads, u # t, OnlyThread(t),
           \A x \in Threads \ {u} : file'[x] = file[x] /\ locked'[x] = locked[x],
           file'[u] # file[t], locked'[u] # file[t],
           \A i \in Fds : files'[i] # file[t],
           \A m \in mail' : m.desc # file[t]
    PROVE  OnlyThread(t)'
<1>1. file'[t] = file[t]
  BY Zenon
<1>2. \A x \in Threads : locked'[x] # file[t] /\ (x # t => file'[x] # file[t])
  BY Zenon DEF OnlyThread
<1> QED
  BY <1>1, <1>2, Zenon DEF OnlyThread

\* What a thread that is alone with its description knows of it.
LEMMA SoleFacts ==
    ASSUME IInv, NEW t \in Threads, pc[t] = "granted", OnlyThread(t), NEW u \in Threads, u # t
    PROVE  /\ file[t] \in Desc /\ file[t] # None /\ (Unborn # {} => file[t] # Fresh)
           /\ \A i \in Fds : files[i] # file[t]
           /\ \A m \in mail : m.desc # file[t]
           /\ file[u] # file[t] /\ locked[u] # file[t]
<1>1. file[t] \in Desc
  BY Zenon DEF IInv, ThreadOK, WithFile
<1>2. scheme[file[t]] = "open"
  BY <1>1, Zenon DEF IInv, RefsOpen, Referenced, Outside
<1>3. Unborn # {} => file[t] # Fresh
  BY <1>2, FreshIsUnborn, Zenon
<1> QED
  BY <1>1, <1>3, NoneIsNothing, Zenon DEF OnlyThread

\* The end of a call of another thread.
LEMMA SoleLeave ==
    ASSUME IInv, NEW t \in Threads, pc[t] = "granted", OnlyThread(t), NEW u \in Threads, u # t,
           Leave(u),
           \A i \in Fds : files'[i] # file[t], \A m \in mail' : m.desc # file[t]
    PROVE  OnlyThread(t)'
<1>1. /\ \A x \in Threads \ {u} : file'[x] = file[x] /\ locked'[x] = locked[x]
      /\ file'[u] = None /\ locked'[u] = None
  BY Zenon DEF Leave, IInv, Typed, ThreadsTyped
<1> QED
  BY <1>1, SoleFacts, StaysSole, Zenon DEF IInv

\* A step inside it.
LEMMA SoleGoto ==
    ASSUME IInv, NEW t \in Threads, pc[t] = "granted", OnlyThread(t), NEW u \in Threads, u # t,
           NEW place, NEW h, Goto(u, place, h), h # file[t], locked' = locked, files' = files, mail' = mail
    PROVE  OnlyThread(t)'
<1>1. /\ \A x \in Threads \ {u} : file'[x] = file[x] /\ locked'[x] = locked[x]
      /\ file'[u] = h /\ locked'[u] = locked[u]
  BY Zenon DEF Goto, IInv, Typed, ThreadsTyped
<1> QED
  BY <1>1, SoleFacts, StaysSole, Zenon DEF IInv

\* Its beginning.
LEMMA SoleEnter ==
    ASSUME IInv, NEW t \in Threads, pc[t] = "granted", OnlyThread(t), NEW u \in Threads, u # t,
           NEW call, NEW i, NEW j, NEW place, NEW h, NEW l, Enter(u, call, i, j, place, h, l),
           h # file[t], l # file[t], mail' = mail, \A k \in Fds : files'[k] # file[t]
    PROVE  OnlyThread(t)'
<1>1. /\ \A x \in Threads \ {u} : file'[x] = file[x] /\ locked'[x] = locked[x]
      /\ file'[u] = h /\ locked'[u] = l
  BY Zenon DEF Enter, IInv, Typed, ThreadsTyped
<1> QED
  BY <1>1, SoleFacts, StaysSole, Zenon DEF IInv

\* A step of a system call of another thread ...
LEMMA SoleStep ==
    ASSUME IInv, NEW t \in Threads, pc[t] = "granted", OnlyThread(t), NEW u \in Threads, u # t, Step(u)
    PROVE  OnlyThread(t)'
<1>1. /\ file[t] # None /\ (Unborn # {} => file[t] # Fresh)
      /\ \A i \in Fds : files[i] # file[t]
      /\ \A m \in mail : m.desc # file[t]
      /\ file[u] # file[t] /\ locked[u] # file[t]
  BY SoleFacts, Zenon
<1>2. ASSUME Leave(u), files' = files, mail' = mail PROVE OnlyThread(t)'
  BY <1>1, <1>2, SoleLeave, Zenon
<1>3. CASE AddFile(u)
  <2>1. \A i \in Fds : files'[i] # file[t]
    <3>1. files' = files \/ \E k \in Fds : files' = [files EXCEPT ![k] = file[u]]
      BY <1>3, AddIsPut, Zenon DEF AddFile
    <3> QED
      BY <1>1, <3>1, Zenon DEF IInv, Typed
  <2> QED
    BY <1>1, <1>3, <2>1, SoleLeave, Zenon DEF AddFile
<1>4. CASE Dup2Insert(u)
  <2>1. \A i \in Fds : files'[i] # file[t]
    BY <1>1, <1>4, Zenon DEF Dup2Insert, IInv, Typed
  <2> QED
    BY <1>1, <1>4, <2>1, SoleLeave, Zenon DEF Dup2Insert
<1>5. CASE KdupCall(u) \/ OpenAtCall(u)
  <2>1. PICK place \in {"made", "insert"} : Goto(u, place, Fresh)
    BY <1>5, Zenon DEF KdupCall, OpenAtCall
  <2> QED
    BY <1>1, <1>5, <2>1, SoleGoto, Zenon DEF KdupCall, OpenAtCall, Make
<1>6. CASE FileClose(u) \/ FileDrop(u)
  <2>1. CASE Leave(u)
    BY <1>2, <1>6, <2>1, Zenon DEF FileClose, FileDrop
  <2>2. CASE ~Leave(u)
    <3>1. PICK place \in {"dup2", "drop"}, h \in {None, file[u]} : Goto(u, place, h) /\ locked' = locked
      BY <1>6, <2>2, Zenon DEF FileClose, FileDrop, Closed
    <3> QED
      BY <1>1, <1>6, <3>1, SoleGoto, Zenon DEF FileClose, FileDrop
  <2> QED
    BY <2>1, <2>2, Zenon
<1>7. CASE Dup2Get(u) \/ FcntlDup(u)
  <2>1. CASE Leave(u)
    BY <1>2, <1>7, <2>1, Zenon DEF Dup2Get, FcntlDup
  <2>2. CASE ~Leave(u)
    <3>1. PICK place \in {"insert", "kdup", "made"} : Goto(u, place, files[fd[u]]) /\ locked' = locked
      BY <1>7, <2>2, Zenon DEF Dup2Get, FcntlDup
    <3>2. fd[u] \in Fds
      BY Zenon DEF IInv, Typed, ThreadsTyped
    <3> QED
      BY <1>1, <1>7, <3>1, <3>2, SoleGoto, Zenon DEF Dup2Get, FcntlDup
  <2> QED
    BY <2>1, <2>2, Zenon
<1>8. CASE SendSole(u)
  BY <1>1, <1>8, SoleGoto, Zenon DEF SendSole
<1>9. CASE SendCall(u)
  <2>1. \A m \in mail' : m.desc # file[t]
    <3>1. CASE mail = {}
      <4>1. \A m \in mail' : m.desc = file[u]
        BY <1>9, <3>1 DEF SendCall
      <4> QED
        BY <1>1, <4>1, Zenon
    <3>2. CASE mail # {}
      BY <1>1, <1>9, <3>2, Zenon DEF SendCall
    <3> QED
      BY <3>1, <3>2, Zenon
  <2> QED
    BY <1>1, <1>9, <2>1, SoleLeave, Zenon DEF SendCall
<1>10. CASE FcntlAgreed(u)
  BY <1>1, <1>10, SoleGoto, Zenon DEF FcntlAgreed
<1>11. CASE FcntlSet(u)
  <2>1. /\ \A x \in Threads \ {u} : file'[x] = file[x] /\ locked'[x] = locked[x]
        /\ file'[u] = locked[u] /\ locked'[u] = None
    BY <1>11, Zenon DEF FcntlSet, Goto, IInv, Typed, ThreadsTyped
  <2> QED
    BY <1>1, <1>11, <2>1, StaysSole, Zenon DEF FcntlSet, IInv
<1>12. CASE Refused(u) \/ ReadWriteEnd(u) \/ SendBusy(u) \/ FcntlDone(u) \/ FcntlWrite(u)
  BY <1>2, <1>12, Zenon DEF Refused, ReadWriteEnd, SendBusy, FcntlDone, FcntlWrite
<1> QED
  BY <1>3, <1>4, <1>5, <1>6, <1>7, <1>8, <1>9, <1>10, <1>11, <1>12, Zenon DEF Step

\* ... or its beginning.
LEMMA SoleCalls ==
    ASSUME IInv, NEW t \in Threads, pc[t] = "granted", OnlyThread(t), NEW u \in Threads, u # t, Calls(u)
    PROVE  OnlyThread(t)'
<1>1. /\ file[t] # None /\ (Unborn # {} => file[t] # Fresh)
      /\ \A i \in Fds : files[i] # file[t]
      /\ \A m \in mail : m.desc # file[t]
      /\ file[u] # file[t] /\ locked[u] # file[t]
  BY SoleFacts, Zenon
<1>2. ASSUME NEW k \in Fds, files' = [files EXCEPT ![k] = None] PROVE \A i \in Fds : files'[i] # file[t]
  BY <1>1, <1>2, Zenon DEF IInv, Typed
<1>3. CASE Open(u)
  BY <1>1, <1>3, SoleEnter, Zenon DEF Open, Make
<1>4. CASE Exit(u)
  <2>1. \A i \in Fds : files'[i] # file[t]
    BY <1>1, <1>4, Zenon DEF Exit
  <2> QED
    BY <1>1, <1>4, <2>1, StaysSole, Zenon DEF Exit, IInv
<1>5. ASSUME NEW i \in Fds, Close(u, i) PROVE OnlyThread(t)'
  BY <1>1, <1>2, <1>5, SoleEnter, Zenon DEF Close
<1>6. ASSUME NEW i \in Fds, ReadWrite(u, i) PROVE OnlyThread(t)'
  BY <1>1, <1>6, SoleEnter, Zenon DEF ReadWrite
<1>7. ASSUME NEW i \in Fds, NEW call \in {"dup", "kdup"}, Dup(u, i, call) PROVE OnlyThread(t)'
  BY <1>1, <1>7, SoleEnter, Zenon DEF Dup
<1>8. ASSUME NEW i \in Fds, NEW call \in {"openat", "fcntl"}, ReadLock(u, i, call) PROVE OnlyThread(t)'
  BY <1>1, <1>8, SoleEnter, Zenon DEF ReadLock
<1>9. ASSUME NEW i \in Fds, NEW j \in Fds, Dup2(u, i, j) PROVE OnlyThread(t)'
  BY <1>1, <1>2, <1>9, SoleEnter, Zenon DEF Dup2
<1>10. ASSUME NEW i \in Fds, NEW clone \in BOOLEAN, NEW exclusive \in BOOLEAN, Send(u, i, clone, exclusive)
       PROVE  OnlyThread(t)'
  <2>1. \A k \in Fds : files'[k] # file[t]
    BY <1>1, <1>2, <1>10, Zenon DEF Send
  <2> QED
    BY <1>1, <1>10, <2>1, SoleEnter, Zenon DEF Send
<1> QED
  BY <1>3, <1>4, <1>5, <1>6, <1>7, <1>8, <1>9, <1>10, Zenon DEF Calls

\* A thread is granted FD_EXCLUSIVE by SendSole only.
LEMMA GrantedBySendSole ==
    ASSUME Typed, NEW u \in Threads, Step(u) \/ Calls(u)
    PROVE  \E place : pc' = [pc EXCEPT ![u] = place] /\ (place = "granted" => SendSole(u))
<1>1. CASE Step(u) /\ ~SendSole(u)
  <2>1. \/ Leave(u)
        \/ \E place \in Places \ {"granted"}, h \in Desc \cup {None, Fresh} \cup {files[fd[u]]} : Goto(u, place, h)
    BY <1>1, Zenon DEF Step, AddFile, KdupCall, Refused, FileClose, FileDrop, Closed, Dup2Get, Dup2Insert,
       ReadWriteEnd, OpenAtCall, SendBusy, SendCall, FcntlDup, FcntlAgreed, FcntlDone, FcntlSet, FcntlWrite,
       Places, Typed, ThreadsTyped
  <2> QED
    BY <2>1, Zenon DEF Leave, Goto
<1>2. CASE SendSole(u)
  BY <1>2, Zenon DEF SendSole, Goto
<1>3. CASE Calls(u)
  <2>1. \E place \in Places \ {"granted"} : pc' = [pc EXCEPT ![u] = place]
    BY <1>3, Zenon DEF Calls, Enter, Open, Exit, Close, ReadWrite, Dup, ReadLock, Dup2, Send, Places
  <2> QED
    BY <2>1, Zenon
<1> QED
  BY <1>1, <1>2, <1>3, Zenon

\* Sole is inductive.
LEMMA NextSole == IInv /\ Sole /\ [Next]_vars => Sole'
<1> SUFFICES ASSUME IInv, Sole, [Next]_vars, NEW t \in Threads, pc'[t] = "granted"
             PROVE  OnlyThread(t)'
  BY Zenon DEF Sole
<1>1. ASSUME NEW u \in Threads, Step(u) \/ Calls(u) PROVE OnlyThread(t)'
  <2>1. PICK place : pc' = [pc EXCEPT ![u] = place] /\ (place = "granted" => SendSole(u))
    BY <1>1, GrantedBySendSole, Zenon DEF IInv
  <2>2. CASE u = t
    <3>1. SendSole(t)
      BY <2>1, <2>2, Zenon DEF IInv, Typed, ThreadsTyped
    <3>2. OnlyThread(t)
      BY <3>1, StrongOfThread, Zenon DEF SendSole, IInv, Typed
    <3>3. file' = file /\ UNCHANGED <<files, mail, locked>>
      BY <3>1, Zenon DEF SendSole, Goto, IInv, Typed, ThreadsTyped
    <3> QED
      BY <3>2, <3>3, Zenon DEF OnlyThread
  <2>3. CASE u # t
    <3>1. pc[t] = "granted"
      BY <2>1, <2>3, Zenon DEF IInv, Typed, ThreadsTyped
    <3> QED
      BY <1>1, <2>3, <3>1, SoleStep, SoleCalls, Zenon DEF Sole
  <2> QED
    BY <2>2, <2>3, Zenon
<1>2. CASE MailTake
  <2>1. UNCHANGED thread /\ mail' = {}
    BY <1>2, Zenon DEF MailTake
  <2>2. OnlyThread(t)
    BY <2>1, Zenon DEF Sole, thread
  <2>3. PICK m \in mail : files' = Add(m.desc)
    BY <1>2, Zenon DEF MailTake
  <2>4. files' = files \/ \E k \in Fds : files' = [files EXCEPT ![k] = m.desc]
    BY <2>3, AddIsPut, Zenon
  <2>5. \A i \in Fds : files'[i] # file[t]
    BY <2>2, <2>3, <2>4, Zenon DEF OnlyThread, IInv, Typed
  <2> QED
    BY <2>1, <2>2, <2>5, Zenon DEF OnlyThread, thread
<1>3. CASE MailClose
  BY <1>3, Zenon DEF MailClose, Sole, OnlyThread, thread
<1>4. CASE UNCHANGED vars
  BY <1>4, Zenon DEF vars, thread, Sole, OnlyThread
<1> QED
  BY <1>1, <1>2, <1>3, <1>4, Zenon DEF Next

\* The invariant holds of every behaviour.
THEOREM Invariance == Spec => []IInv
<1>1. Init => Sole
  BY Zenon DEF Init, Sole
<1> QED
  BY <1>1, InitIInv, NextIInv, NextSole, PTL DEF Spec

-----------------------------------------------------------------------------
(* The theorems                                                              *)

\* The state is well typed, and only F_SETFL keeps the lock of the table.
THEOREM TypeCorrect == Spec => []TypeOK
<1>1. IInv => TypeOK
  BY Zenon DEF IInv, Typed, ThreadsTyped, MailTyped, ThreadOK, TypeOK
<1> QED
  BY <1>1, Invariance, PTL

\* Whatever the threads of a process do to the same descriptors, a description that the
\* table, a message or a system call refers to has not been closed at its scheme
\* (FileDescriptor::close, exit_this_context, respond).
THEOREM UsedFilesAreOpen == Spec => []ReferencedIsOpen
<1>1. IInv => ReferencedIsOpen
  <2> SUFFICES ASSUME IInv, NEW d \in Desc, Strong(d) > 0 PROVE scheme[d] = "open"
    BY Zenon DEF ReferencedIsOpen
  <2>1. Referenced(d)
    BY StrongPositive, Zenon DEF IInv, Typed
  <2> QED
    BY <2>1, Zenon DEF IInv, RefsOpen
<1> QED
  BY <1>1, Invariance, PTL

\* What sendfd sent with FD_EXCLUSIVE has no other reference until it is received: the
\* count that fdwrite_inner looks at once cannot grow again.
THEOREM ExclusiveIsSole == Spec => []ExclusiveIsExclusive
<1>1. IInv => ExclusiveIsExclusive
  BY StrongOfMail, Zenon DEF IInv, Typed, MailSole, ExclusiveIsExclusive
<1> QED
  BY <1>1, Invariance, PTL

\* Two threads wait for each other only if one of them is in F_SETFL, which keeps the
\* table while it waits for a description; no thread waits for itself.
THEOREM OnlySetflDeadlocks == Spec => []DeadlockNeedsSetfl
<1>1. IInv => DeadlockNeedsSetfl
  <2> SUFFICES ASSUME IInv, NEW t \in Threads, NEW u \in Threads, WaitsFor(t, u), WaitsFor(u, t)
               PROVE  t # u /\ "setfl" \in {pc[t], pc[u]}
    BY Zenon DEF DeadlockNeedsSetfl
  <2>1. ThreadOK(t) /\ ThreadOK(u)
    BY Zenon DEF IInv
  <2>2. ASSUME NEW x \in Threads, NEW y \in Threads, ThreadOK(x), ThreadOK(y), WaitsFor(x, y)
        PROVE  \/ pc[y] = "setfl" /\ pc[x] # "setfl"
               \/ pc[x] = "setfl" /\ pc[y] # "setfl"
               \/ pc[x] = "rw" /\ locked[x] = None /\ locked[y] # None
    <3>1. CASE WantsTable(x) /\ filesLock = y
      BY <2>2, <3>1, Zenon DEF WantsTable, ThreadOK
    <3>2. CASE pc[x] = "rw" /\ locked[y] = file[x]
      BY <2>2, <3>2, NoneIsNothing, Zenon DEF ThreadOK, WithFile, WithLock
    <3>3. CASE pc[x] = "setfl" /\ locked[y] = files[fd[x]]
      BY <2>2, <3>3, Zenon DEF ThreadOK, WithLock
    <3> QED
      BY <2>2, <3>1, <3>2, <3>3, Zenon DEF WaitsFor, WantsToWrite
  <2> QED
    BY <2>1, <2>2, Zenon
<1> QED
  BY <1>1, Invariance, PTL
=============================================================================
