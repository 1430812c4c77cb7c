------------------------------ MODULE FileOps -------------------------------
(***************************************************************************)
(* The life of file descriptions: the threads of a process share a table   *)
(* of descriptors and open, duplicate, use, send, control and close them   *)
(* (syscall/fs.rs, context/file.rs).  A description is an Arc; closing it  *)
(* at its scheme is left to whoever holds the last one and calls close().  *)
(* The inside of the table is the subject of FdTbl.                        *)
(***************************************************************************)
EXTENDS Naturals, FiniteSets

CONSTANTS
    Threads,
    MaxFd,          \* the table has the places 0 .. MaxFd
    MaxDesc,        \* bound on the number of descriptions
    Ops,            \* the system calls that the threads make
    None

Fds  == 0 .. MaxFd
Desc == 1 .. MaxDesc

ASSUME FileOpsAssumption ==
    /\ IsFiniteSet(Threads)
    /\ MaxFd \in Nat /\ MaxDesc \in Nat
    /\ None \notin Desc \cup Threads
    /\ Ops \subseteq {"open", "openat", "rw", "dup", "kdup", "dup2", "close", "send", "fcntl", "exit"}

VARIABLES
    files,      \* the table, Context::files
    filesLock,  \* the thread that keeps its write lock between two steps
    scheme,     \* what the scheme thinks of each description
    mail,       \* descriptions that were sent and not yet received: at most one
    pc, op, fd, new,    \* of each thread: place, call, arguments
    file,       \* of each thread: the description whose Arc it holds
    locked      \* and the one whose Arc and read lock it holds

thread == <<pc, op, fd, new, file, locked>>
vars == <<files, filesLock, scheme, mail, thread>>

Init ==
    /\ files = [i \in Fds |-> None]
    /\ filesLock = None
    /\ scheme = [d \in Desc |-> "unborn"]
    /\ mail = {}
    /\ pc = [t \in Threads |-> "user"]
    /\ op = [t \in Threads |-> "none"]
    /\ fd = [t \in Threads |-> 0]
    /\ new = [t \in Threads |-> 0]
    /\ file = [t \in Threads |-> None]
    /\ locked = [t \in Threads |-> None]

-----------------------------------------------------------------------------

\* Arc::strong_count.
Strong(d) ==
    Cardinality({i \in Fds : files[i] = d}) + Cardinality({m \in mail : m.desc = d})
    + Cardinality({t \in Threads : file[t] = d}) + Cardinality({t \in Threads : locked[t] = d})

Unlocked == filesLock = None

\* add_file: the lowest free place, if there is one.
Free == {i \in Fds : files[i] = None}
Add(d) ==
    IF Free = {} THEN files
    ELSE [files EXCEPT ![CHOOSE i \in Free : \A j \in Free : i <= j] = d]

\* The thread enters a system call, holding the file h and the read lock of l.
Enter(t, call, i, j, place, h, l) ==
    /\ pc[t] = "user"
    /\ call \in Ops
    /\ op' = [op EXCEPT ![t] = call]
    /\ fd' = [fd EXCEPT ![t] = i]
    /\ new' = [new EXCEPT ![t] = j]
    /\ pc' = [pc EXCEPT ![t] = place]
    /\ file' = [file EXCEPT ![t] = h]
    /\ locked' = [locked EXCEPT ![t] = l]

\* It goes on, holding h; at the end it holds nothing.
Goto(t, place, h) ==
    /\ pc' = [pc EXCEPT ![t] = place]
    /\ file' = [file EXCEPT ![t] = h]
    /\ UNCHANGED <<op, fd, new>>

Leave(t) ==
    /\ pc' = [pc EXCEPT ![t] = "user"]
    /\ file' = [file EXCEPT ![t] = None]
    /\ locked' = [locked EXCEPT ![t] = None]
    /\ op' = [op EXCEPT ![t] = "none"]
    /\ fd' = [fd EXCEPT ![t] = 0]
    /\ new' = [new EXCEPT ![t] = 0]

\* The scheme makes a new description.
Unborn == {d \in Desc : scheme[d] = "unborn"}
Fresh == CHOOSE d \in Unborn : \A e \in Unborn : d <= e
Make == Unborn # {} /\ scheme' = [scheme EXCEPT ![Fresh] = "open"]

-----------------------------------------------------------------------------
(* open, dup, dup2, close                                                   *)

\* open: kopen succeeds.
Open(t) ==
    /\ Make
    /\ Enter(t, "open", 0, 0, "made", Fresh, None)
    /\ UNCHANGED <<files, filesLock, mail>>

\* open, openat, dup and F_DUPFD end with add_file, or EMFILE.
AddFile(t) ==
    /\ pc[t] = "made"
    /\ Unlocked
    /\ files' = Add(file[t])
    /\ Leave(t)
    /\ UNCHANGED <<filesLock, scheme, mail>>

\* duplicate_file: get_file ...
Dup(t, i, call) ==
    /\ call \in {"dup", "kdup"}
    /\ Unlocked /\ files[i] # None
    /\ Enter(t, call, i, 0, IF call = "dup" THEN "made" ELSE "kdup", files[i], None)
    /\ UNCHANGED <<files, filesLock, scheme, mail>>

\* ... and with a payload a new description from the scheme.
KdupCall(t) ==
    /\ pc[t] = "kdup"
    /\ Make
    /\ Goto(t, IF op[t] = "dup2" THEN "insert" ELSE "made", Fresh)
    /\ UNCHANGED <<files, filesLock, mail, locked>>

\* The scheme answers kdup, kopenat, fcntl, kreadoff or kwriteoff with an error.
Refused(t) ==
    /\ pc[t] \in {"kdup", "openat", "fcntl", "rw"}
    /\ Leave(t)
    /\ UNCHANGED <<files, filesLock, scheme, mail>>

\* close: remove_file ...
Close(t, i) ==
    /\ Unlocked /\ files[i] # None
    /\ files' = [files EXCEPT ![i] = None]
    /\ Enter(t, "close", i, 0, "close", files[i], None)
    /\ UNCHANGED <<filesLock, scheme, mail>>

\* What follows FileDescriptor::close.
Closed(t) == IF op[t] = "dup2" THEN Goto(t, "dup2", None) /\ UNCHANGED locked ELSE Leave(t)

\* close() does not ask whether the Arc is the last one.
FileClose_Always(t) ==
    /\ pc[t] = "close"
    /\ scheme' = [scheme EXCEPT ![file[t]] = "closed"]
    /\ Closed(t)
    /\ UNCHANGED <<files, filesLock, mail>>

\* ... FileDescriptor::close: Arc::try_unwrap, then try_close at the scheme ...
FileClose(t) ==
    /\ pc[t] = "close"
    /\ \/ /\ Strong(file[t]) = 1
          /\ scheme' = [scheme EXCEPT ![file[t]] = "closed"]
          /\ Closed(t)
       \/ /\ Strong(file[t]) > 1
          /\ Goto(t, "drop", file[t])
          /\ UNCHANGED <<scheme, locked>>
    /\ UNCHANGED <<files, filesLock, mail>>

\* ... or the Arc that try_unwrap gave back is dropped.
FileDrop(t) ==
    /\ pc[t] = "drop"
    /\ Closed(t)
    /\ UNCHANGED <<files, filesLock, scheme, mail>>

\* dup2: close(new_fd), whose result is ignored ...
Dup2(t, i, j) ==
    /\ i # j
    /\ Unlocked
    /\ files' = [files EXCEPT ![j] = None]
    /\ Enter(t, "dup2", i, j, IF files[j] = None THEN "dup2" ELSE "close", files[j], None)
    /\ UNCHANGED <<filesLock, scheme, mail>>

\* ... duplicate_file, or EBADF ...
Dup2Get(t) ==
    /\ pc[t] = "dup2"
    /\ Unlocked
    /\ \/ files[fd[t]] = None /\ Leave(t)
       \/ /\ files[fd[t]] # None
          /\ \E place \in {"insert", "kdup"} : Goto(t, place, files[fd[t]])
          /\ UNCHANGED locked
    /\ UNCHANGED <<files, filesLock, scheme, mail>>

\* ... and insert_file, or EMFILE if the place has been taken meanwhile.
Dup2Insert(t) ==
    /\ pc[t] = "insert"
    /\ Unlocked
    /\ files' = [files EXCEPT ![new[t]] = IF @ = None THEN file[t] ELSE @]
    /\ Leave(t)
    /\ UNCHANGED <<filesLock, scheme, mail>>

-----------------------------------------------------------------------------
(* read, write, seek; openat; sendfd; fcntl; exit                           *)

\* sys_read, sys_write, lseek: file_op_generic_ext keeps the Arc during the call ...
ReadWrite(t, i) ==
    /\ Unlocked /\ files[i] # None
    /\ Enter(t, "rw", i, 0, "rw", files[i], None)
    /\ UNCHANGED <<files, filesLock, scheme, mail>>

\* Nobody keeps the read lock of d.
Writable(d) == \A t \in Threads : locked[t] # d

\* ... then waits for the write lock of the description to move the offset.
ReadWriteEnd(t) ==
    /\ pc[t] = "rw"
    /\ Writable(file[t])
    /\ Leave(t)
    /\ UNCHANGED <<files, filesLock, scheme, mail>>

\* openat and fcntl take the read lock of the description, and keep it.
ReadLock(t, i, call) ==
    /\ call \in {"openat", "fcntl"}
    /\ Unlocked /\ files[i] # None
    /\ Enter(t, call, i, 0, call, None, files[i])
    /\ UNCHANGED <<files, filesLock, scheme, mail>>

OpenAtCall(t) ==
    /\ pc[t] = "openat"
    /\ Make
    /\ Goto(t, "made", Fresh)
    /\ UNCHANGED <<files, filesLock, mail, locked>>

\* sendfd: fdwrite_inner removes the file, or copies it with FD_CLONE ...
Send(t, i, clone, exclusive) ==
    /\ Unlocked /\ files[i] # None
    /\ files' = IF clone THEN files ELSE [files EXCEPT ![i] = None]
    /\ Enter(t, "send", i, 0, IF exclusive THEN "exclusive" ELSE "send", files[i], None)
    /\ UNCHANGED <<filesLock, scheme, mail>>

\* FD_EXCLUSIVE is granted without a look at the references.
SendBusy_Ignores(t) ==
    /\ pc[t] = "exclusive"
    /\ Goto(t, "granted", file[t])
    /\ UNCHANGED <<files, filesLock, scheme, mail, locked>>

\* ... refuses FD_EXCLUSIVE with EBUSY while there are other references ...
SendBusy(t) ==
    /\ pc[t] = "exclusive"
    /\ Strong(file[t]) > 1
    /\ Leave(t)
    /\ UNCHANGED <<files, filesLock, scheme, mail>>

\* ... and else goes on to tell the scheme so ...
SendSole(t) ==
    /\ pc[t] = "exclusive"
    /\ Strong(file[t]) = 1
    /\ Goto(t, "granted", file[t])
    /\ UNCHANGED <<files, filesLock, scheme, mail, locked>>

\* ... to which it passes the Arc, if the scheme has room for it.
SendCall(t) ==
    /\ pc[t] \in {"send", "granted"}
    /\ mail' = IF mail = {} THEN {[desc |-> file[t], exclusive |-> pc[t] = "granted"]} ELSE mail
    /\ Leave(t)
    /\ UNCHANGED <<files, filesLock, scheme>>

\* The receiving scheme obtains the file ...
MailTake ==
    /\ Unlocked
    /\ \E m \in mail : files' = Add(m.desc)
    /\ mail' = {}
    /\ UNCHANGED <<filesLock, scheme, thread>>

\* ... or answers without it: respond() tries to close it.
MailClose ==
    /\ \E m \in mail : scheme' = IF Strong(m.desc) = 1 THEN [scheme EXCEPT ![m.desc] = "closed"] ELSE scheme
    /\ mail' = {}
    /\ UNCHANGED <<files, filesLock, thread>>

\* fcntl, F_DUPFD: duplicate_file looks the descriptor up again.
FcntlDup(t) ==
    /\ pc[t] = "fcntl"
    /\ Unlocked
    /\ \/ files[fd[t]] = None /\ Leave(t)
       \/ files[fd[t]] # None /\ Goto(t, "made", files[fd[t]]) /\ UNCHANGED locked
    /\ UNCHANGED <<files, filesLock, scheme, mail>>

\* The other commands: the scheme agrees, or need not be asked.
FcntlAgreed(t) ==
    /\ pc[t] = "fcntl"
    /\ Goto(t, "agreed", None)
    /\ UNCHANGED <<files, filesLock, scheme, mail, locked>>

\* "Perform kernel operation if scheme agrees": look the descriptor up again, with
\* the table locked.  EBADF if it is gone; F_GETFD, F_SETFD and F_GETFL are done ...
FcntlDone(t) ==
    /\ pc[t] = "agreed"
    /\ Unlocked
    /\ Leave(t)
    /\ UNCHANGED <<files, filesLock, scheme, mail>>

\* ... F_SETFL drops the read lock, keeps the table locked ...
FcntlSet(t) ==
    /\ pc[t] = "agreed"
    /\ Unlocked /\ files[fd[t]] # None
    /\ filesLock' = t
    /\ Goto(t, "setfl", locked[t])
    /\ locked' = [locked EXCEPT ![t] = None]
    /\ UNCHANGED <<files, scheme, mail>>

\* ... and waits for the write lock of what the descriptor now stands for.
FcntlWrite(t) ==
    /\ pc[t] = "setfl"
    /\ Writable(files[fd[t]])
    /\ filesLock' = None
    /\ Leave(t)
    /\ UNCHANGED <<files, scheme, mail>>

\* exit_this_context: the last thread closes the files that are still open.
Exit(t) ==
    /\ pc[t] = "user" /\ "exit" \in Ops
    /\ Unlocked
    /\ pc' = [pc EXCEPT ![t] = "exited"]
    /\ IF \A u \in Threads \ {t} : pc[u] = "exited"
       THEN /\ files' = [i \in Fds |-> None]
            /\ scheme' = [d \in Desc |->
                            IF d \in {files[i] : i \in Fds} /\ \A m \in mail : m.desc # d
                            THEN "closed" ELSE scheme[d]]
       ELSE UNCHANGED <<files, scheme>>
    /\ UNCHANGED <<filesLock, mail, op, fd, new, file, locked>>

-----------------------------------------------------------------------------

Step(t) ==
    \/ AddFile(t) \/ KdupCall(t) \/ Refused(t) \/ FileClose(t) \/ FileDrop(t)
    \/ Dup2Get(t) \/ Dup2Insert(t) \/ ReadWriteEnd(t) \/ OpenAtCall(t)
    \/ SendBusy(t) \/ SendSole(t) \/ SendCall(t)
    \/ FcntlDup(t) \/ FcntlAgreed(t) \/ FcntlDone(t) \/ FcntlSet(t) \/ FcntlWrite(t)

Calls(t) ==
    \/ Open(t) \/ Exit(t)
    \/ \E i \in Fds :
        \/ Close(t, i) \/ ReadWrite(t, i)
        \/ \E call \in {"dup", "kdup"} : Dup(t, i, call)
        \/ \E call \in {"openat", "fcntl"} : ReadLock(t, i, call)
        \/ \E j \in Fds : Dup2(t, i, j)
        \/ \E clone, exclusive \in BOOLEAN : Send(t, i, clone, exclusive)

Next ==
    \/ \E t \in Threads : Step(t) \/ Calls(t)
    \/ MailTake \/ MailClose

Spec == Init /\ [][Next]_vars

-----------------------------------------------------------------------------
(* Properties                                                               *)

\* The type invariant; only F_SETFL keeps the lock of the table.
TypeOK ==
    /\ files \in [Fds -> Desc \cup {None}]
    /\ scheme \in [Desc -> {"unborn", "open", "closed"}]
    /\ mail \subseteq [desc : Desc, exclusive : BOOLEAN]
    /\ file \in [Threads -> Desc \cup {None}]
    /\ locked \in [Threads -> Desc \cup {None}]
    /\ \A t \in Threads : (filesLock = t) = (pc[t] = "setfl")

\* A description in a table, in a message or in use by a system call is open at
\* its scheme: close() by one thread never pulls it from under another.
ReferencedIsOpen == \A d \in Desc : Strong(d) > 0 => scheme[d] = "open"

\* fdwrite_inner tells the scheme FD_EXCLUSIVE only of a description to which no other
\* reference exists: whatever other threads do after it has looked at the count, none
\* comes into being until the description is handed over, nor until it is received.
ExclusiveIsExclusive == \A m \in mail : m.exclusive => Strong(m.desc) = 1

\* t spins for a lock that u keeps: the table's, or the one of a description.
WantsTable(t) == pc[t] \in {"made", "dup2", "insert", "fcntl", "agreed"}
WantsToWrite(t) ==
    CASE pc[t] = "rw" -> {file[t]}
      [] pc[t] = "setfl" -> {files[fd[t]]}
      [] OTHER -> {}
WaitsFor(t, u) ==
    \/ WantsTable(t) /\ filesLock = u
    \/ locked[u] \in WantsToWrite(t)

\* Threads never wait for each other, or for themselves, with one exception: F_SETFL
\* keeps the table while it waits for a description that openat, F_DUPFD or another
\* fcntl keeps until it gets the table.
DeadlockNeedsSetfl ==
    \A t, u \in Threads : WaitsFor(t, u) /\ WaitsFor(u, t) => t # u /\ "setfl" \in {pc[t], pc[u]}
=============================================================================
