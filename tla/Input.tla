------------------------------- MODULE Input -------------------------------
(***************************************************************************)
(* Input of the kernel's own drivers: bytes of the keyboard and the mouse  *)
(* (scheme/serio.rs) and of the serial line (scheme/debug.rs) go into wait *)
(* queues (sync/wait_queue.rs) from interrupt handlers; threads read them, *)
(* or wait for events of their handles.                                    *)
(***************************************************************************)
EXTENDS Naturals, Sequences, FiniteSets

CONSTANTS
    Serio, Debug,       \* the ports of both schemes, with one queue each
    Readers,            \* threads, each with one handle
    MaxBytes            \* bound on the bytes of a port

Ports == Serio \cup Debug

InputAssumption == "none" \notin Ports

VARIABLES
    fifo,               \* bytes in the device
    came,               \* bytes that came to the device so far
    queue,              \* INPUT: bytes are numbered in the order they came
    handles,            \* HANDLES: the port of each open handle, else "none"
    contexts,           \* the waiting readers of each queue's condition
    isr,                \* what the interrupt handler of a port does
    pc,                 \* what a reader does
    blocked, pending,   \* readers that are blocked; readers with a signal
    told                \* readers with an event

vars == <<fifo, came, queue, handles, contexts, isr, pc, blocked, pending, told>>

Init ==
    /\ fifo = [p \in Ports |-> 0] /\ came = fifo
    /\ queue = [p \in Ports |-> << >>]
    /\ handles = [r \in Readers |-> "none"]
    /\ contexts = [p \in Ports |-> {}]
    /\ isr = [p \in Ports |-> "idle"]
    /\ pc = [r \in Readers |-> "idle"]
    /\ blocked = {} /\ pending = {} /\ told = {}

-----------------------------------------------------------------------------
(* Interrupt handlers.                                                     *)

Arrive(p) ==
    /\ came[p] < MaxBytes
    /\ came' = [came EXCEPT ![p] = @ + 1] /\ fifo' = [fifo EXCEPT ![p] = @ + 1]
    /\ UNCHANGED <<queue, handles, contexts, isr, pc, blocked, pending, told>>

\* serio_input and debug_input: WaitQueue::send, the byte first.
Send(p) ==
    /\ fifo[p] > 0 /\ isr[p] \in IF p \in Debug THEN {"idle", "more"} ELSE {"idle"}
    /\ fifo' = [fifo EXCEPT ![p] = @ - 1]
    /\ queue' = [queue EXCEPT ![p] = Append(@, came[p] - fifo'[p])]
    /\ isr' = [isr EXCEPT ![p] = "notify"]
    /\ UNCHANGED <<came, handles, contexts, pc, blocked, pending, told>>

\* WaitCondition::notify; the serial line is then read again until it is empty.
Notify(p) ==
    /\ isr[p] = "notify"
    /\ blocked' = blocked \ contexts[p]
    /\ contexts' = [contexts EXCEPT ![p] = {}]
    /\ isr' = [isr EXCEPT ![p] = IF p \in Debug THEN "more" ELSE "events"]
    /\ UNCHANGED <<fifo, came, queue, handles, pc, pending, told>>

Tell(p, scheme) ==
    /\ told' = told \cup {r \in Readers : handles[r] \in scheme}
    /\ isr' = [isr EXCEPT ![p] = "idle"]
    /\ UNCHANGED <<fifo, came, queue, handles, contexts, pc, blocked, pending>>

\* The end of serio_input, and debug_notify: events for all handles of the scheme.
Events(p) == isr[p] = "events" /\ Tell(p, Serio)
debug_notify(p) == isr[p] = "more" /\ fifo[p] = 0 /\ Tell(p, Debug)

-----------------------------------------------------------------------------
(* Readers.                                                                *)

OpenHandle(r, p) ==
    /\ handles[r] = "none" /\ handles' = [handles EXCEPT ![r] = p]
    /\ UNCHANGED <<fifo, came, queue, contexts, isr, pc, blocked, pending, told>>

Open(r, p) == p \in Serio /\ OpenHandle(r, p)
OpenDebug(r, p) == p \in Debug /\ OpenHandle(r, p)

Close(r) ==
    /\ handles[r] # "none" /\ pc[r] = "idle"
    /\ handles' = [handles EXCEPT ![r] = "none"] /\ told' = told \ {r}
    /\ UNCHANGED <<fifo, came, queue, contexts, isr, pc, blocked, pending>>

Reading(r) ==
    /\ pc[r] = "idle"
    /\ pc' = [pc EXCEPT ![r] = "read"] /\ told' = told \ {r}
    /\ UNCHANGED <<fifo, came, queue, handles, contexts, isr, blocked, pending>>

Read(r) == handles[r] \in Serio /\ Reading(r)
ReadDebug(r) == handles[r] \in Debug /\ Reading(r)

\* receive_into_user: as many bytes as there are and the buffer has room for.
Receive(r, n) ==
    LET p == handles[r] IN
    /\ pc[r] = "read" /\ n \in 1 .. Len(queue[p])
    /\ queue' = [queue EXCEPT ![p] = SubSeq(@, n + 1, Len(@))]
    /\ pc' = [pc EXCEPT ![r] = "idle"]
    /\ UNCHANGED <<fifo, came, handles, contexts, isr, blocked, pending, told>>

\* With O_NONBLOCK, or a signal for WaitCondition::wait: EAGAIN, EINTR.
ReceiveNothing(r) ==
    /\ pc[r] = "read" /\ queue[handles[r]] = << >>
    /\ pc' = [pc EXCEPT ![r] = "idle"] /\ pending' = pending \ {r}
    /\ UNCHANGED <<fifo, came, queue, handles, contexts, isr, blocked, told>>

\* Mutant of Wait: the queue is not looked at under the lock that wait() gives up.
Wait_Unchecked(r) ==
    /\ pc[r] = "read" /\ r \notin pending
    /\ blocked' = blocked \cup {r}
    /\ contexts' = [contexts EXCEPT ![handles[r]] = @ \cup {r}]
    /\ pc' = [pc EXCEPT ![r] = "wait"]
    /\ UNCHANGED <<fifo, came, queue, handles, isr, pending, told>>

\* WaitCondition::wait blocks the reader and lists it before it unlocks the queue.
Wait(r) ==
    /\ pc[r] = "read" /\ queue[handles[r]] = << >> /\ r \notin pending
    /\ blocked' = blocked \cup {r}
    /\ contexts' = [contexts EXCEPT ![handles[r]] = @ \cup {r}]
    /\ pc' = [pc EXCEPT ![r] = "wait"]
    /\ UNCHANGED <<fifo, came, queue, handles, isr, pending, told>>

\* A reader that finds itself still listed was not notified.
Resume(r) ==
    /\ pc[r] = "wait" /\ r \notin blocked
    /\ pc' = [pc EXCEPT ![r] = IF r \in contexts[handles[r]] THEN "idle" ELSE "read"]
    /\ contexts' = [contexts EXCEPT ![handles[r]] = @ \ {r}]
    /\ pending' = IF r \in contexts[handles[r]] THEN pending \ {r} ELSE pending
    /\ UNCHANGED <<fifo, came, queue, handles, isr, blocked, told>>

Signal(r) ==
    /\ r \notin pending /\ pending' = pending \cup {r}
    /\ blocked' = blocked \ {r}
    /\ UNCHANGED <<fifo, came, queue, handles, contexts, isr, pc, told>>

-----------------------------------------------------------------------------
Next ==
    \/ \E p \in Ports : Arrive(p) \/ Send(p) \/ Notify(p) \/ Events(p) \/ debug_notify(p)
    \/ \E r \in Readers :
        \/ Close(r) \/ Read(r) \/ ReadDebug(r) \/ ReceiveNothing(r) \/ Wait(r) \/ Resume(r) \/ Signal(r)
        \/ \E p \in Ports : Open(r, p) \/ OpenDebug(r, p)
        \/ \E n \in 1 .. MaxBytes : Receive(r, n)

Spec == Init /\ [][Next]_vars

-----------------------------------------------------------------------------
\* A thread sleeps only while there is nothing to read: a blocked reader's queue is empty,
\* or the handler that put the byte in it is about to notify.
ReadersWake ==
    \A r \in blocked : queue[handles[r]] = << >> \/ isr[handles[r]] = "notify"
=============================================================================
