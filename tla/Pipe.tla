-------------------------------- MODULE Pipe --------------------------------
(***************************************************************************)
(* One pipe of scheme/pipe.rs with the WaitConditions its two ends sleep   *)
(* on (sync/wait_condition.rs).  Reader and writer contexts run kread and  *)
(* kwrite step by step on any number of CPUs; each end is closed once, by  *)
(* a context that takes no queue lock.                                     *)
(*                                                                         *)
(* A context in "switch" is in context::switch(): by SwitchReturnsRunnable *)
(* of module Switch it goes on only when its status is Runnable.  The file *)
(* description is shared by an operation in progress, so an end is closed  *)
(* only while no context is inside kread or kwrite of that end.            *)
(***************************************************************************)
EXTENDS Naturals, Sequences

CONSTANTS
    Reader, Writer,     \* contexts that use the read end, and the write end
    NoContext,          \* a free queue lock
    MAX_QUEUE_SIZE,
    Sizes,              \* lengths of the user buffers
    MaxSent             \* no write is called once so many bytes were sent

Ctx == Reader \cup Writer
End == {"read", "write"}
EndOf(c) == IF c \in Reader THEN "read" ELSE "write"
Other(e) == IF e = "read" THEN "write" ELSE "read"
NoCall == [len |-> 0, nonblock |-> FALSE]
Least(m, n) == IF m =< n THEN m ELSE n

ASSUME PipeAssumption ==
    /\ Reader \cap Writer = {}
    /\ NoContext \notin Ctx
    /\ MAX_QUEUE_SIZE \in Nat \ {0}
    /\ Sizes \subseteq Nat
    /\ MaxSent \in Nat

VARIABLES
    pipes,          \* the pipe is in PIPES
    queue,          \* Pipe::queue
    alive,          \* Pipe::reader_is_alive, Pipe::writer_is_alive
    has_run_dup,    \* Pipe::has_run_dup
    open,           \* the ends that have a file description
    closing,        \* progress of close() of each end
    lock,           \* holder of the queue lock
    waiters,        \* contexts of read_condition and of write_condition
    status,         \* Context::status
    signal,         \* an unblocked signal is pending (SigProcControl)
    pc,             \* where each context is
    call,           \* length and O_NONBLOCK of the call in progress
    result,         \* of the last call
    sent, got       \* all bytes written, all bytes read

vars == <<pipes, queue, alive, has_run_dup, open, closing, lock, waiters,
          status, signal, pc, call, result, sent, got>>

endVars == <<pipes, alive, has_run_dup, open, closing>>
byteVars == <<queue, sent, got>>

\* PipeScheme::kopen: the pipe exists, and only its read end is open.
Init ==
    /\ pipes = TRUE
    /\ queue = <<>> /\ sent = <<>> /\ got = <<>>
    /\ alive = [e \in End |-> TRUE]
    /\ has_run_dup = FALSE
    /\ open = {"read"}
    /\ closing = [e \in End |-> "no"]
    /\ lock = NoContext
    /\ waiters = [e \in End |-> {}]
    /\ status = [c \in Ctx |-> "Runnable"]
    /\ signal = [c \in Ctx |-> FALSE]
    /\ pc = [c \in Ctx |-> "user"]
    /\ call = [c \in Ctx |-> NoCall]
    /\ result = [c \in Ctx |-> "none"]

-----------------------------------------------------------------------------
(* WaitCondition                                                            *)

\* notify: every context of the list is popped and unblocked.
Notify(e) ==
    /\ status' = [c \in Ctx |-> IF c \in waiters[e] THEN "Runnable" ELSE status[c]]
    /\ waiters' = [waiters EXCEPT ![e] = {}]

\* A call ends: the queue lock, if held, is released.
Return(c, r) ==
    /\ pc' = [pc EXCEPT ![c] = "user"]
    /\ result' = [result EXCEPT ![c] = r]
    /\ lock' = IF lock = c THEN NoContext ELSE lock
    /\ call' = [call EXCEPT ![c] = NoCall]

\* wait, first part: return at once for a pending signal, else block.  The
\* PreemptGuard keeps the context on its CPU until Push although it is Blocked.
WaitBlock(c) ==
    /\ pc[c] = "block"
    /\ IF signal[c]
       THEN Return(c, "EINTR") /\ UNCHANGED status
       ELSE /\ status' = [status EXCEPT ![c] = "Blocked"]
            /\ pc' = [pc EXCEPT ![c] = "push"]
            /\ UNCHANGED <<lock, result, call>>
    /\ UNCHANGED <<waiters, signal, byteVars, endVars>>

\* Without the PreemptGuard: once blocked, a context that a timer interrupt
\* takes off its CPU does not get to push itself.
WaitPush_Preempted(c) ==
    /\ pc[c] = "push"
    /\ status[c] = "Runnable"
    /\ waiters' = [waiters EXCEPT ![EndOf(c)] = @ \cup {c}]
    /\ lock' = NoContext
    /\ pc' = [pc EXCEPT ![c] = "switch"]
    /\ UNCHANGED <<status, signal, call, result, byteVars, endVars>>

\* wait: push onto the list, then drop the guard that was passed in.
WaitPush(c) ==
    /\ pc[c] = "push"
    /\ waiters' = [waiters EXCEPT ![EndOf(c)] = @ \cup {c}]
    /\ lock' = NoContext
    /\ pc' = [pc EXCEPT ![c] = "switch"]
    /\ UNCHANGED <<status, signal, call, result, byteVars, endVars>>

\* context::switch returns.
WaitResume(c) ==
    /\ pc[c] = "switch"
    /\ status[c] = "Runnable"
    /\ pc' = [pc EXCEPT ![c] = "unlist"]
    /\ UNCHANGED <<lock, waiters, status, signal, call, result, byteVars, endVars>>

\* wait, last part: still listed means nobody notified, EINTR; else the caller
\* loops.
WaitUnlist(c) ==
    /\ pc[c] = "unlist"
    /\ waiters' = [waiters EXCEPT ![EndOf(c)] = @ \ {c}]
    /\ IF c \in waiters[EndOf(c)]
       THEN Return(c, "EINTR")
       ELSE pc' = [pc EXCEPT ![c] = "lock"] /\ UNCHANGED <<lock, result, call>>
    /\ UNCHANGED <<status, signal, byteVars, endVars>>

-----------------------------------------------------------------------------
(* kread and kwrite                                                         *)

\* The system call: the description is looked up, and the pipe in PIPES.
Call(c, n, nb) ==
    /\ pc[c] = "user"
    /\ pipes /\ EndOf(c) \in open
    /\ c \in Writer => Len(sent) < MaxSent
    /\ call' = [call EXCEPT ![c] = [len |-> n, nonblock |-> nb]]
    /\ result' = [result EXCEPT ![c] = "none"]
    /\ pc' = [pc EXCEPT ![c] = "lock"]
    /\ UNCHANGED <<lock, waiters, status, signal, byteVars, endVars>>

LockQueue(c) ==
    /\ pc[c] = "lock"
    /\ lock = NoContext
    /\ lock' = c
    /\ pc' = [pc EXCEPT ![c] = "look"]
    /\ UNCHANGED <<waiters, status, signal, call, result, byteVars, endVars>>

\* The copy to or from user memory fails before anything was moved.
Fault(c) ==
    /\ pc[c] = "look"
    /\ call[c].len > 0
    /\ IF c \in Reader THEN queue # <<>> ELSE alive["read"] /\ Len(queue) < MAX_QUEUE_SIZE
    /\ Return(c, "EFAULT")
    /\ UNCHANGED <<waiters, status, signal, byteVars, endVars>>

\* No byte could be moved: the empty buffer, O_NONBLOCK, else go to sleep.
Nothing(c) ==
    /\ \/ call[c].len = 0 /\ Return(c, "ok")
       \/ call[c].len > 0 /\ call[c].nonblock /\ Return(c, "EAGAIN")
       \/ /\ call[c].len > 0 /\ ~call[c].nonblock
          /\ pc' = [pc EXCEPT ![c] = "block"]
          /\ UNCHANGED <<lock, result, call>>
    /\ UNCHANGED <<waiters, status, signal, byteVars, endVars>>

\* kread that drains what it did not copy.
KreadBytes_DrainsAll(c) ==
    LET n == Least(call[c].len, Len(queue)) IN
    /\ c \in Reader /\ pc[c] = "look" /\ n > 0
    /\ got' = got \o SubSeq(queue, 1, n)
    /\ queue' = <<>>
    /\ Notify("write")
    /\ Return(c, "ok")
    /\ UNCHANGED <<signal, sent, endVars>>

\* Bytes are read in order, and the writers are notified under the queue lock.
KreadBytes(c) ==
    LET n == Least(call[c].len, Len(queue)) IN
    /\ c \in Reader /\ pc[c] = "look" /\ n > 0
    /\ got' = got \o SubSeq(queue, 1, n)
    /\ queue' = SubSeq(queue, n + 1, Len(queue))
    /\ Notify("write")
    /\ Return(c, "ok")
    /\ UNCHANGED <<signal, sent, endVars>>

\* End of file if the writer is gone; an empty buffer is answered before.
KreadNothing(c) ==
    /\ c \in Reader /\ pc[c] = "look"
    /\ Least(call[c].len, Len(queue)) = 0
    /\ IF call[c].len > 0 /\ ~alive["write"]
       THEN Return(c, "eof") /\ UNCHANGED <<waiters, status, signal, byteVars, endVars>>
       ELSE Nothing(c)

\* How many of n bytes a write can queue.
Room(n) == Least(MAX_QUEUE_SIZE - Len(queue), n)

\* kwrite that forgets to wake the readers.
KwriteBytes_Quiet(c, n) ==
    /\ c \in Writer /\ pc[c] = "look" /\ alive["read"]
    /\ n \in 1 .. Room(call[c].len)
    /\ queue' = queue \o [i \in 1 .. n |-> Len(sent) + i]
    /\ sent' = sent \o [i \in 1 .. n |-> Len(sent) + i]
    /\ UNCHANGED <<status, waiters>>
    /\ Return(c, "ok")
    /\ UNCHANGED <<signal, got, endVars>>

\* n bytes are queued (fewer than there is room for if a later chunk faults) and
\* the readers are notified under the queue lock.  A byte is its position in
\* the stream.
KwriteBytes(c, n) ==
    /\ c \in Writer /\ pc[c] = "look" /\ alive["read"]
    /\ n \in 1 .. Room(call[c].len)
    /\ queue' = queue \o [i \in 1 .. n |-> Len(sent) + i]
    /\ sent' = sent \o [i \in 1 .. n |-> Len(sent) + i]
    /\ Notify("read")
    /\ Return(c, "ok")
    /\ UNCHANGED <<signal, got, endVars>>

\* The reader is gone.
KwriteBroken(c) ==
    /\ c \in Writer /\ pc[c] = "look" /\ ~alive["read"]
    /\ Return(c, "EPIPE")
    /\ UNCHANGED <<waiters, status, signal, byteVars, endVars>>

KwriteNothing(c) ==
    /\ c \in Writer /\ pc[c] = "look" /\ alive["read"]
    /\ Room(call[c].len) = 0
    /\ Nothing(c)

-----------------------------------------------------------------------------
(* The ends, and signals                                                    *)

\* kdup("write"), or kopenat, of the read end: the write end is given out once.
Kdup ==
    /\ "read" \in open /\ pipes /\ ~has_run_dup
    /\ has_run_dup' = TRUE
    /\ open' = open \cup {"write"}
    /\ UNCHANGED <<pipes, alive, closing, lock, waiters, status, signal, pc, call, result, byteVars>>

\* The last descriptor of an end is closed: first the flag, ...
CloseStore(e) ==
    /\ e \in open /\ pipes
    /\ \A c \in Ctx : EndOf(c) = e => pc[c] = "user"
    /\ open' = open \ {e}
    /\ alive' = [alive EXCEPT ![e] = FALSE]
    /\ closing' = [closing EXCEPT ![e] = "stored"]
    /\ UNCHANGED <<pipes, has_run_dup, lock, waiters, status, signal, pc, call, result, byteVars>>

\* ... then notify the other end, ...
CloseNotify(e) ==
    /\ closing[e] = "stored"
    /\ Notify(Other(e))
    /\ closing' = [closing EXCEPT ![e] = "notified"]
    /\ UNCHANGED <<pipes, alive, has_run_dup, open, lock, signal, pc, call, result, byteVars>>

\* ... then look at the flag of the other end and remove the pipe.
CloseRemove(e) ==
    /\ closing[e] = "notified"
    /\ closing' = [closing EXCEPT ![e] = "done"]
    /\ pipes' = (pipes /\ alive[Other(e)])
    /\ UNCHANGED <<alive, has_run_dup, open, lock, waiters, status, signal, pc, call, result, byteVars>>

\* A signal is made pending, and the context interrupted by the proc scheme's
\* Interrupt verb: the two are separate writes of the process manager.
SignalSet(c) ==
    /\ ~signal[c]
    /\ signal' = [signal EXCEPT ![c] = TRUE]
    /\ UNCHANGED <<lock, waiters, status, pc, call, result, byteVars, endVars>>

SignalInterrupt(c) ==
    /\ signal[c] /\ status[c] = "Blocked"
    /\ status' = [status EXCEPT ![c] = "Runnable"]
    /\ UNCHANGED <<lock, waiters, signal, pc, call, result, byteVars, endVars>>

SignalHandled(c) ==
    /\ signal[c] /\ pc[c] = "user"
    /\ signal' = [signal EXCEPT ![c] = FALSE]
    /\ UNCHANGED <<lock, waiters, status, pc, call, result, byteVars, endVars>>

-----------------------------------------------------------------------------

\* What a context does inside the kernel once it has called.
Work(c) ==
    \/ KreadBytes(c) \/ KreadNothing(c) \/ KwriteBroken(c) \/ KwriteNothing(c)
    \/ \E n \in 1 .. MAX_QUEUE_SIZE : KwriteBytes(c, n)
    \/ WaitBlock(c) \/ WaitPush(c) \/ WaitResume(c) \/ WaitUnlist(c)

CloseStep(e) == CloseNotify(e) \/ CloseRemove(e)

Next ==
    \/ Kdup
    \/ \E e \in End : CloseStore(e) \/ CloseStep(e)
    \/ \E c \in Ctx :
        \/ \E n \in Sizes, nb \in BOOLEAN : Call(c, n, nb)
        \/ LockQueue(c) \/ Work(c) \/ Fault(c)
        \/ SignalSet(c) \/ SignalInterrupt(c) \/ SignalHandled(c)

Spec == Init /\ [][Next]_vars

\* A context in the kernel is not stopped for good, the spin lock of the queue
\* is won eventually, and a close that began finishes.
Fairness ==
    /\ \A c \in Ctx : WF_vars(Work(c)) /\ SF_vars(LockQueue(c))
    /\ \A e \in End : WF_vars(CloseStep(e))

FairSpec == Spec /\ Fairness

-----------------------------------------------------------------------------
(* Properties                                                               *)

\* The type invariant; the queue never outgrows MAX_QUEUE_SIZE.
TypeOK ==
    /\ pipes \in BOOLEAN /\ has_run_dup \in BOOLEAN
    /\ queue \in Seq(Nat) /\ Len(queue) =< MAX_QUEUE_SIZE
    /\ sent \in Seq(Nat) /\ got \in Seq(Nat)
    /\ alive \in [End -> BOOLEAN]
    /\ open \subseteq End
    /\ closing \in [End -> {"no", "stored", "notified", "done"}]
    /\ lock \in Ctx \cup {NoContext}
    /\ waiters \in [End -> SUBSET Ctx]
    /\ status \in [Ctx -> {"Runnable", "Blocked"}]
    /\ signal \in [Ctx -> BOOLEAN]
    /\ pc \in [Ctx -> {"user", "lock", "look", "block", "push", "switch", "unlist"}]
    /\ call \in [Ctx -> [len : Nat, nonblock : BOOLEAN]]
    /\ result \in [Ctx -> {"none", "ok", "eof", "EAGAIN", "EINTR", "EPIPE", "EFAULT"}]

\* A context that only a notification, or a signal, can bring back.
Asleep(c) == pc[c] = "switch" /\ status[c] = "Blocked"

\* Every byte written is read once and in order, or is still queued, whatever
\* readers and writers overlap and whatever copies fault.
FifoExact == got \o queue = sent

\* No wake-up by data is lost between the check of the queue and the sleep: no
\* reader sleeps while bytes are queued, no writer while there is room.
NoLostWakeup ==
    \A c \in Ctx : Asleep(c) =>
        IF c \in Reader THEN queue = <<>> ELSE Len(queue) = MAX_QUEUE_SIZE

\* WaitCondition::wait ends a call with EINTR only for a signal.
InterruptNeedsSignal ==
    [][\A c \in Ctx : result[c] = "none" /\ result'[c] = "EINTR" => signal[c]]_vars

\* Two closes that overlap still remove the pipe from PIPES.
ClosedPipeRemoved == (\A e \in End : closing[e] = "done") => ~pipes

\* A read that finds, or gets, bytes to read returns, unless another reader takes them.
ReadReturnsOnData ==
    \A c \in Reader : []<>(pc[c] = "user" \/ queue = <<>>)

Stream == INSTANCE ByteStream WITH
    Capacity <- MAX_QUEUE_SIZE,
    busy <- {c \in Ctx : pc[c] # "user"}

\* kread and kwrite are atomic to their callers: with its locks, sleeps and
\* notifications the pipe does what the byte stream of ByteStream does.
ImplementsStream == Stream!Spec

\* "as otherwise we might miss a wakeup" (WaitCondition::wait): once close() of
\* the write end has returned, a read of the empty pipe returns too.
CloseWakesReader ==
    \A c \in Reader : pc[c] # "user" /\ closing["write"] = "done" ~> pc[c] = "user"
=============================================================================
