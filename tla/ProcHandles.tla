---------------------------- MODULE ProcHandles ----------------------------
(***************************************************************************)
(* The handles of the proc scheme (scheme/proc.rs) through which user      *)
(* space builds processes: the process manager's authority, handles on a   *)
(* context, on its address space and on its file table, and the two        *)
(* handles that replace them when they are closed, which is how execve     *)
(* and fork end.  With them, the life of a file table: who holds an Arc to *)
(* it, and who closes its files (exit_this_context, syscall/process.rs).   *)
(*                                                                         *)
(* An address space or a file table is a name.  The registers of a context *)
(* are abstracted to the address space they were last prepared for.  The   *)
(* verbs of the status handle are in ProcControl.                          *)
(***************************************************************************)
EXTENDS Naturals, FiniteSets

CONSTANTS
    Threads,    \* the contexts that run at first, threads of one process
    Openers,    \* those of them that open handles; every thread uses them
    Children,   \* the contexts that can be spawned
    Spaces,     \* names of address spaces (numbers)
    Tables,     \* names of file tables (other numbers)
    MaxId,      \* bound on the handles that are ever opened
    PathSets,   \* bound on what is opened by kdup: a behaviour uses one of these
    None

Contexts == Threads \cup Children
Ids == 1..MaxId

ProcHandlesAssumption ==
    /\ Openers \subseteq Threads
    /\ None \notin Tables /\ "None" \notin Contexts

VARIABLES
    handles,    \* HANDLES
    next_id,    \* NEXT_ID
    lock,       \* LOCK of kopen: the authority has been opened
    status,     \* Context::status; "None" before the context exists
    running,    \* Context::running
    space,      \* Context::addr_space
    regs,       \* the address space the saved registers are meant for
    files,      \* Context::files
    pc,         \* where the context is
    call,       \* what its system call is about
    arc,        \* a file table it holds an Arc to, inside a call
    closing,    \* the file table it has unwrapped and closes
    closed,     \* the file tables whose files have been closed
    made,       \* the address spaces and file tables that exist or existed
    panicked,   \* an assertion failed
    paths       \* the bound: what kdup opens

schedVars == <<status, running>>
ctxVars == <<space, regs, files>>
tableVars == <<arc, closing, closed>>
vars == <<handles, next_id, lock, schedVars, ctxVars, pc, call, tableVars, made, panicked, paths>>

NoHandle == [kind |-> "None", context |-> "None", space |-> None, table |-> None]
NoCall == [id |-> None, number |-> None, context |-> "None", prev |-> "None", space |-> None]

Handle(kind, c) == [NoHandle EXCEPT !.kind = kind, !.context = c]
Live == {i \in Ids : handles[i].kind # "None"}
Kind(kind) == {i \in Ids : handles[i].kind = kind}

\* A new name: the least, since names mean nothing.
Fresh(S) == {x \in S : \A y \in S : x <= y}

\* The strong references to a file table.
Strong == {"NewFiletable", "AwaitingFiletableChange"}
Holders(t) ==
    {<<"context", c>> : c \in {d \in Contexts : files[d] = t}}
    \cup {<<"call", c>> : c \in {d \in Contexts : arc[d] = t}}
    \cup {<<"handle", i>> : i \in {j \in Ids : handles[j].kind \in Strong /\ handles[j].table = t}}

Init ==
    /\ handles = [i \in Ids |-> NoHandle]
    /\ next_id = 1
    /\ lock = FALSE
    /\ status = [c \in Contexts |-> IF c \in Threads THEN "Runnable" ELSE "None"]
    /\ running = [c \in Contexts |-> FALSE]
    /\ \E s \in Fresh(Spaces), t \in Fresh(Tables) :
        /\ space = [c \in Contexts |-> IF c \in Threads THEN s ELSE None]
        /\ regs = space
        /\ files = [c \in Contexts |-> IF c \in Threads THEN t ELSE None]
        /\ made = {s, t}
    /\ pc = [c \in Contexts |-> "user"]
    /\ call = [c \in Contexts |-> NoCall]
    /\ arc = [c \in Contexts |-> None]
    /\ closing = [c \in Contexts |-> None]
    /\ closed = {}
    /\ panicked = FALSE
    /\ paths \in PathSets

Runs(c, at) == ~panicked /\ running[c] /\ pc[c] = at
Goto(c, at) == pc' = [pc EXCEPT ![c] = at]

\* new_handle: the next id, and an entry in HANDLES.
new_handle(h) ==
    /\ next_id \in Ids
    /\ handles' = [handles EXCEPT ![next_id] = h]
    /\ next_id' = next_id + 1

-----------------------------------------------------------------------------
(* Scheduling, seen from above                                              *)

Dispatch(c) ==
    /\ ~panicked /\ ~running[c] /\ status[c] = "Runnable" /\ pc[c] # "exited"
    /\ running' = [running EXCEPT ![c] = TRUE]
    /\ UNCHANGED <<handles, next_id, lock, status, ctxVars, pc, call, tableVars, made, panicked>>

\* A tick in user space, or the switch() of try_stop_context.
Leave(c) ==
    /\ ~panicked /\ running[c] /\ pc[c] \in {"user", "loop", "exited"}
    /\ running' = [running EXCEPT ![c] = FALSE]
    /\ UNCHANGED <<handles, next_id, lock, status, ctxVars, pc, call, tableVars, made, panicked>>

-----------------------------------------------------------------------------
(* Opening handles                                                          *)

\* kopen("authority"): the first caller, ever.
OpenAuthority(c) ==
    /\ Runs(c, "user") /\ ~lock
    /\ lock' = TRUE
    /\ new_handle(Handle("Authority", c))
    /\ UNCHANGED <<schedVars, ctxVars, pc, call, tableVars, made, panicked>>

\* kdup of the authority, "new-context": context::spawn makes a context with an
\* empty address space and an empty file table.
NewContext(c, x) ==
    /\ Runs(c, "user") /\ Kind("Authority") # {} /\ "new-context" \in paths /\ status[x] = "None"
    /\ \E s \in Fresh(Spaces \ made), t \in Fresh(Tables \ made) :
        /\ space' = [space EXCEPT ![x] = s]
        /\ files' = [files EXCEPT ![x] = t]
        /\ made' = made \cup {s, t}
    /\ status' = [status EXCEPT ![x] = "NotYetStarted"]
    /\ new_handle(Handle("OpenViaDup", x))
    /\ UNCHANGED <<lock, running, regs, pc, call, tableVars, panicked>>

\* kdup of the authority, "cur-context".
CurContext(c) ==
    /\ Runs(c, "user") /\ Kind("Authority") # {} /\ "cur-context" \in paths
    /\ new_handle(Handle("OpenViaDup", c))
    /\ UNCHANGED <<lock, schedVars, ctxVars, pc, call, tableVars, made, panicked>>

\* openat_context: what kdup of an OpenViaDup handle makes.  The address space is
\* held, the file table only weakly; a context that is exiting has neither.
openat_context(x, path) ==
    CASE path = "addrspace" -> [Handle("AddrSpace", x) EXCEPT !.space = space[x]]
      [] path = "filetable" -> [Handle("Filetable", x) EXCEPT !.table = files[x]]
      [] path = "current-addrspace" -> Handle("CurrentAddrSpace", x)
      [] path = "current-filetable" -> Handle("CurrentFiletable", x)
      [] path = "start" -> Handle("Start", x)

Paths == {"addrspace", "filetable", "current-addrspace", "current-filetable", "start"}

DupContext(c, i, path) ==
    /\ Runs(c, "user") /\ handles[i].kind = "OpenViaDup"
    /\ LET x == handles[i].context IN
        /\ path = "addrspace" => space[x] # None
        /\ path = "filetable" => files[x] # None
        /\ new_handle(openat_context(x, path))
    /\ UNCHANGED <<lock, schedVars, ctxVars, pc, call, tableVars, made, panicked>>

\* kdup of an address space, "empty" or "exclusive" (AddrSpace::try_clone): a new
\* address space.
DupAddrSpace(c, i) ==
    /\ Runs(c, "user") /\ handles[i].kind = "AddrSpace"
    /\ \E s \in Fresh(Spaces \ made) :
        /\ made' = made \cup {s}
        /\ new_handle([handles[i] EXCEPT !.space = s])
    /\ UNCHANGED <<lock, schedVars, ctxVars, pc, call, tableVars, panicked>>

\* kdup of a file table, "copy": upgrade, or EOWNERDEAD; the Arc is held until
\* the copy is made.
DupFiletable(c, i) ==
    /\ Runs(c, "user") /\ handles[i].kind = "Filetable" /\ Holders(handles[i].table) # {}
    /\ arc' = [arc EXCEPT ![c] = handles[i].table]
    /\ call' = [call EXCEPT ![c].context = handles[i].context]
    /\ Goto(c, "copy")
    /\ UNCHANGED <<handles, next_id, lock, schedVars, ctxVars, closing, closed, made, panicked>>

CopyFiletable(c) ==
    /\ Runs(c, "copy")
    /\ \E t \in Fresh(Tables \ made) :
        /\ made' = made \cup {t}
        /\ new_handle([Handle("NewFiletable", call[c].context) EXCEPT !.table = t])
    /\ arc' = [arc EXCEPT ![c] = None]
    /\ call' = [call EXCEPT ![c] = NoCall]
    /\ Goto(c, "user")
    /\ UNCHANGED <<lock, schedVars, ctxVars, closing, closed, panicked>>

-----------------------------------------------------------------------------
(* Writing to handles                                                       *)

\* kwriteoff clones the handle and finds the number behind the descriptor it is
\* given, before it takes the lock of HANDLES.
Write(c, i, n) ==
    /\ Runs(c, "user") /\ n \in Live
    /\ handles[i].kind \in {"CurrentAddrSpace", "CurrentFiletable"}
    /\ call' = [call EXCEPT ![c] = [@ EXCEPT !.id = i, !.number = n, !.context = handles[i].context]]
    /\ Goto(c, handles[i].kind)
    /\ UNCHANGED <<handles, next_id, lock, schedVars, ctxVars, tableVars, made, panicked>>

Returns(c) == /\ call' = [call EXCEPT ![c] = NoCall] /\ Goto(c, "user")

\* The number names an address space by now: close will install it.
WriteAddrSpace(c) ==
    /\ Runs(c, "CurrentAddrSpace")
    /\ LET h == handles[call[c].number] IN
        handles' = IF h.kind = "AddrSpace"
                   THEN [handles EXCEPT ![call[c].id] =
                            [Handle("AwaitingAddrSpaceChange", call[c].context) EXCEPT !.space = h.space]]
                   ELSE handles
    /\ Returns(c)
    /\ UNCHANGED <<next_id, lock, schedVars, ctxVars, tableVars, made, panicked>>

\* The number names a file table that is alive, or a new one, which is left with a
\* weak reference.
WriteFiletable(c) ==
    /\ Runs(c, "CurrentFiletable")
    /\ LET n == call[c].number
           h == handles[n]
           awaiting == [Handle("AwaitingFiletableChange", call[c].context) EXCEPT !.table = h.table]
       IN handles' =
            CASE h.kind = "Filetable" /\ Holders(h.table) # {} ->
                    [handles EXCEPT ![call[c].id] = awaiting]
              [] h.kind = "NewFiletable" ->
                    [handles EXCEPT ![n] = [h EXCEPT !.kind = "Filetable", !.context = call[c].context],
                                    ![call[c].id] = awaiting]
              [] OTHER -> handles
    /\ Returns(c)
    /\ UNCHANGED <<next_id, lock, schedVars, ctxVars, tableVars, made, panicked>>

\* The start handle.
WriteStart(c, i) ==
    /\ Runs(c, "user") /\ handles[i].kind = "Start"
    /\ status[handles[i].context] = "NotYetStarted"
    /\ status' = [status EXCEPT ![handles[i].context] = "Runnable"]
    /\ UNCHANGED <<handles, next_id, lock, running, ctxVars, pc, call, tableVars, made, panicked>>

-----------------------------------------------------------------------------
(* Closing handles, from user space or while the files of an exiting context *)
(* are closed                                                                *)

\* A description is closed when its last reference goes, so not during a call on it.
Closes(c, i) ==
    /\ ~panicked /\ running[c] /\ i \in Live
    /\ pc[c] = "user" \/ (pc[c] = "exit" /\ closing[c] # None)
    /\ \A d \in Contexts : call[d].id # i

\* close: the handle goes; one that awaits a change of the file table makes it.
Close(c, i) ==
    /\ Closes(c, i) /\ handles[i].kind # "AwaitingAddrSpaceChange"
    /\ handles' = [handles EXCEPT ![i] = NoHandle]
    /\ files' = IF handles[i].kind = "AwaitingFiletableChange"
                THEN [files EXCEPT ![handles[i].context] = handles[i].table] ELSE files
    /\ UNCHANGED <<next_id, lock, schedVars, space, regs, pc, call, tableVars, made, panicked>>

\* Mutant of CloseOwn: a context that replaces its own space keeps its registers.
CloseOwn_KeepsRegs(c, i) ==
    /\ Closes(c, i) /\ handles[i].kind = "AwaitingAddrSpaceChange" /\ handles[i].context = c
    /\ handles' = [handles EXCEPT ![i] = NoHandle]
    /\ space' = [space EXCEPT ![c] = handles[i].space]
    /\ UNCHANGED <<regs, next_id, lock, schedVars, files, pc, call, tableVars, made, panicked>>

\* close of a handle that awaits a change of the address space: the registers and
\* the address space of the own context, under its lock.
CloseOwn(c, i) ==
    /\ Closes(c, i) /\ handles[i].kind = "AwaitingAddrSpaceChange" /\ handles[i].context = c
    /\ handles' = [handles EXCEPT ![i] = NoHandle]
    /\ regs' = [regs EXCEPT ![c] = handles[i].space]
    /\ space' = [space EXCEPT ![c] = handles[i].space]
    /\ UNCHANGED <<next_id, lock, schedVars, files, pc, call, tableVars, made, panicked>>

\* The same for another context, which try_stop_context stops first.
CloseOther(c, i) ==
    LET x == handles[i].context IN
    /\ Closes(c, i) /\ handles[i].kind = "AwaitingAddrSpaceChange" /\ x # c
    /\ handles' = [handles EXCEPT ![i] = NoHandle]
    /\ call' = [call EXCEPT ![c] = [@ EXCEPT !.context = x, !.prev = status[x], !.space = handles[i].space]]
    /\ status' = [status EXCEPT ![x] = "NotYetStarted"]
    /\ Goto(c, IF running[x] THEN "loop" ELSE "apply")
    /\ UNCHANGED <<next_id, lock, running, ctxVars, tableVars, made, panicked>>

\* Wait until stopped.
Check(c) ==
    /\ Runs(c, "loop") /\ ~running[call[c].context]
    /\ Goto(c, "apply")
    /\ UNCHANGED <<handles, next_id, lock, schedVars, ctxVars, call, tableVars, made, panicked>>

\* Under the lock of the context: the assertion, the callback, the old status.
Apply(c) ==
    LET x == call[c].context IN
    /\ Runs(c, "apply")
    /\ IF running[x]
       THEN panicked' = TRUE /\ UNCHANGED <<regs, space, status, pc, call>>
       ELSE /\ regs' = [regs EXCEPT ![x] = call[c].space]
            /\ space' = [space EXCEPT ![x] = call[c].space]
            /\ status' = [status EXCEPT ![x] = call[c].prev]
            /\ call' = [call EXCEPT ![c] = NoCall]
            /\ Goto(c, IF closing[c] = None THEN "user" ELSE "exit")
            /\ UNCHANGED panicked
    /\ UNCHANGED <<handles, next_id, lock, running, files, tableVars, made>>

-----------------------------------------------------------------------------
(* exit_this_context                                                        *)

\* Mutant of Exit: the table is closed whoever else holds it.
Exit_ClosesShared(c) ==
    /\ Runs(c, "user") /\ regs[c] # None
    /\ closing' = [closing EXCEPT ![c] = files[c]]
    /\ files' = [files EXCEPT ![c] = None]
    /\ space' = [space EXCEPT ![c] = None]
    /\ Goto(c, "exit")
    /\ UNCHANGED <<arc, handles, next_id, lock, schedVars, regs, call, closed, made, panicked>>

\* Under the lock of the context, Arc::try_unwrap: the only reference becomes the
\* table itself, one of several is given back, still to be dropped.
Exit(c) ==
    /\ Runs(c, "user") /\ regs[c] # None
    /\ IF Holders(files[c]) = {<<"context", c>>}
       THEN closing' = [closing EXCEPT ![c] = files[c]] /\ UNCHANGED arc
       ELSE arc' = [arc EXCEPT ![c] = files[c]] /\ UNCHANGED closing
    /\ files' = [files EXCEPT ![c] = None]
    /\ space' = [space EXCEPT ![c] = None]
    /\ Goto(c, "exit")
    /\ UNCHANGED <<handles, next_id, lock, schedVars, regs, call, closed, made, panicked>>

\* map_or_else drops the reference that could not be unwrapped.
Drop(c) ==
    /\ Runs(c, "exit") /\ arc[c] # None
    /\ arc' = [arc EXCEPT ![c] = None]
    /\ UNCHANGED <<handles, next_id, lock, schedVars, ctxVars, pc, call, closing, closed, made, panicked>>

\* force_close_all has gone through the table; the context is dead.
Dead(c) ==
    /\ Runs(c, "exit") /\ arc[c] = None
    /\ closed' = closed \cup ({closing[c]} \ {None})
    /\ closing' = [closing EXCEPT ![c] = None]
    /\ status' = [status EXCEPT ![c] = "Dead"]
    /\ Goto(c, "exited")
    /\ UNCHANGED <<handles, next_id, lock, running, ctxVars, call, arc, made, panicked>>

Step ==
    \/ \E c \in Contexts : Dispatch(c) \/ Leave(c) \/ Exit(c) \/ Drop(c) \/ Dead(c)
    \/ \E c \in Openers :
        \/ OpenAuthority(c) \/ CurContext(c)
        \/ \E x \in Children : NewContext(c, x)
        \/ \E i \in Ids : DupAddrSpace(c, i) \/ DupFiletable(c, i) \/ \E path \in paths \cap Paths : DupContext(c, i, path)
    \/ \E c \in Threads :
        \/ CopyFiletable(c) \/ WriteAddrSpace(c) \/ WriteFiletable(c) \/ Check(c) \/ Apply(c)
        \/ \E i \in Ids :
            \/ WriteStart(c, i) \/ Close(c, i) \/ CloseOwn(c, i) \/ CloseOther(c, i)
            \/ \E n \in Ids : Write(c, i, n)

Next == Step /\ UNCHANGED paths

Spec == Init /\ [][Next]_vars

-----------------------------------------------------------------------------
(* Properties                                                               *)

\* Whoever runs user code runs it in the address space its registers were
\* prepared for: close() changes both under the context's lock, after
\* try_stop_context has taken the context off its CPU ("since they also require
\* switching the instruction and stack pointer").  A context that has never been
\* given registers is in its first kernel function.
RegistersMatchSpace ==
    \A c \in Contexts :
        running[c] /\ pc[c] = "user" /\ regs[c] # None => regs[c] = space[c]

\* force_close_all works on a file table that no context uses, no handle will
\* install and no call copies: Arc::try_unwrap has seen the last reference, and a
\* weak reference cannot come back to life.
ClosedTablesAreUnused ==
    \A t \in Tables : t \in closed \/ (\E c \in Contexts : closing[c] = t) => Holders(t) = {}

=============================================================================
