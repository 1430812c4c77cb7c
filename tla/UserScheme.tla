----------------------------- MODULE UserScheme -----------------------------
(***************************************************************************)
(* Calls from contexts to a scheme that lives in user space                *)
(* (scheme/user.rs): next_id, call_extended_inner with cancellation,       *)
(* timeouts and kills, the queue `todo` of submission entries, the         *)
(* handler's read() and respond(), unmount(), and who unmaps the buffer    *)
(* that a call lends to the handler (CaptureGuard).                        *)
(*                                                                         *)
(* The handler behaves well: one thread reads one entry at a time, others  *)
(* answer each request that was read, once.  A request carries a number    *)
(* that the program does not have, to tell calls with the same tag apart.  *)
(* A context inside switch() resumes when it is runnable, or when its      *)
(* wake-up time makes it so (Switch).                                      *)
(***************************************************************************)
EXTENDS Naturals, Sequences

CONSTANTS
    Callers,
    Tags,           \* the keys of the slab `states`
    Timed,          \* whether calls have a timeout: a subset of BOOLEAN
    Kills,          \* how often ForceKill may hit a caller
    CanUnmount,     \* whether the scheme may be unmounted
    None,           \* no tag, and no context
    MaxReq          \* bound on the number of calls

Req == 1 .. MaxReq

ASSUME UserSchemeAssumption ==
    /\ MaxReq \in Nat /\ Kills \in Nat
    /\ Timed \subseteq BOOLEAN /\ CanUnmount \in BOOLEAN
    /\ None \notin Tags \cup Callers

VARIABLES
    states,     \* UserInner::states
    lock,       \* whether a caller keeps the lock of states between two steps
    todo,       \* UserInner::todo
    unmounting, \* UserInner::unmounting
    notified,   \* unmount() has called notify_signal
    pc, status, wake, killed,   \* of the callers: place, Context fields
    call,       \* of the callers: the call in progress
    mapped,     \* requests whose buffer is mapped in the handler's space
    requests,   \* how many calls have been made
    hpc, hstatus, hlisted, hblock,  \* of the handler: place, status, on the wait list, blocking
    held,       \* entries that the handler has read and not answered
    last        \* what the last step returned, or delivered

vars == <<states, lock, todo, unmounting, notified, pc, status, wake, killed, call, mapped,
          requests, hpc, hstatus, hlisted, hblock, held, last>>
handlerVars == <<hpc, hblock, held>>
kernelVars  == <<states, lock, mapped>>
mountVars   == <<unmounting, notified>>
contextVars == <<wake, killed>>

\* An entry of the slab: an enum State, or vacant.  A response remembers which
\* request it answers and whether that was being cancelled.
Slot == [state : {"Vacant", "Placeholder", "Waiting", "Responded"}, req : Req \cup {0},
         context : Callers \cup {None}, canceling : BOOLEAN, callee_responsible : BOOLEAN,
         code : {"ok", "EINTR", "ECANCELED", "EIO"}]
Vacant == [state |-> "Vacant", req |-> 0, context |-> None, canceling |-> FALSE,
           callee_responsible |-> FALSE, code |-> "ok"]

\* The parameters and local variables of call_extended_inner; expired: the time is
\* past timeout_expiry.
NoCall == [tag |-> None, req |-> 0, timed |-> FALSE, expired |-> FALSE, timed_out |-> FALSE,
           caller_responsible |-> FALSE]
Nothing == [what |-> "nothing", req |-> 0, other |-> 0, canceling |-> FALSE, timed_out |-> FALSE]

Init ==
    /\ states = [t \in Tags |-> Vacant]
    /\ lock = FALSE
    /\ todo = <<>>
    /\ unmounting = FALSE /\ notified = FALSE
    /\ pc = [c \in Callers |-> "user"]
    /\ status = [c \in Callers |-> "Runnable"]
    /\ wake = [c \in Callers |-> FALSE]
    /\ killed = [c \in Callers |-> 0]
    /\ call = [c \in Callers |-> NoCall]
    /\ mapped = {}
    /\ requests = 0
    /\ hpc = "user" /\ hstatus = "Runnable" /\ hlisted = FALSE /\ hblock = FALSE
    /\ held = {}
    /\ last = Nothing

-----------------------------------------------------------------------------
(* The caller                                                               *)

Goto(c, place) == pc' = [pc EXCEPT ![c] = place]

\* Context::block and Context::unblock.
Block(c) == [status EXCEPT ![c] = IF @ = "Runnable" THEN "Blocked" ELSE @]

\* WaitQueue::send: push, then WaitCondition::notify.
Send(entry) ==
    /\ todo' = Append(todo, entry)
    /\ hlisted' = FALSE
    /\ hstatus' = IF hlisted THEN "Runnable" ELSE hstatus

\* The call returns; CaptureGuard unmaps the buffer if it is still the caller's.
Return(c, what, other, canceling) ==
    /\ last' = [what |-> what, req |-> call[c].req, other |-> other, canceling |-> canceling,
                 timed_out |-> call[c].timed_out]
    /\ call' = [call EXCEPT ![c] = NoCall]
    /\ Goto(c, "user")

\* capture_user and next_id: a buffer in the handler's space, a slot in states.
CallBegin(c, t, timed) ==
    /\ pc[c] = "user"
    /\ requests < MaxReq
    /\ states[t].state = "Vacant" /\ ~lock
    /\ requests' = requests + 1
    /\ states' = [states EXCEPT ![t] = [Vacant EXCEPT !.state = "Placeholder", !.req = requests + 1]]
    /\ mapped' = mapped \cup {requests + 1}
    /\ call' = [call EXCEPT ![c] = [tag |-> t, req |-> requests + 1, timed |-> timed,
                                    expired |-> FALSE, timed_out |-> FALSE,
                                    caller_responsible |-> TRUE]]
    /\ Goto(c, "check")
    /\ last' = Nothing
    /\ UNCHANGED <<lock, todo, status, hstatus, hlisted, mountVars, contextVars, handlerVars>>

\* The scheme is being unmounted: ENODEV.  The slot stays.
CallRefused(c) ==
    /\ pc[c] = "check"
    /\ unmounting
    /\ mapped' = mapped \ {call[c].req}
    /\ Return(c, "ENODEV", 0, FALSE)
    /\ UNCHANGED <<states, lock, todo, status, requests, hstatus, hlisted, mountVars, contextVars, handlerVars>>

CallAccepted(c) ==
    /\ pc[c] = "check"
    /\ ~unmounting
    /\ Goto(c, "block")
    /\ last' = Nothing
    /\ UNCHANGED <<todo, status, call, requests, hstatus, hlisted, kernelVars, mountVars, contextVars, handlerVars>>

\* Under a PreemptGuard: store wake and block ...
CallBlock(c) ==
    /\ pc[c] = "block"
    /\ wake' = [wake EXCEPT ![c] = call[c].timed]
    /\ status' = Block(c)
    /\ Goto(c, "post")
    /\ last' = Nothing
    /\ UNCHANGED <<todo, killed, call, requests, hstatus, hlisted, kernelVars, mountVars, handlerVars>>

\* ... fill the slot ...
CallPost(c) ==
    /\ pc[c] = "post"
    /\ ~lock
    /\ states' = [states EXCEPT ![call[c].tag].state = "Waiting", ![call[c].tag].context = c]
    /\ Goto(c, "send")
    /\ last' = Nothing
    /\ UNCHANGED <<lock, todo, status, call, mapped, requests, hstatus, hlisted, mountVars, contextVars, handlerVars>>

\* ... send the entry, and switch().
CallSend(c) ==
    /\ pc[c] = "send"
    /\ Send([op |-> "Call", tag |-> call[c].tag, req |-> call[c].req])
    /\ Goto(c, "sleep")
    /\ last' = Nothing
    /\ UNCHANGED <<status, call, requests, kernelVars, mountVars, contextVars, handlerVars>>

\* switch() returns: unblocked, or update_runnable found the wake-up time reached.
CallResume(c) ==
    /\ pc[c] = "sleep"
    /\ \/ status[c] = "Runnable" /\ UNCHANGED wake
       \/ /\ status[c] = "Blocked" /\ wake[c] /\ call[c].expired
          /\ wake' = [wake EXCEPT ![c] = FALSE]
    /\ status' = [status EXCEPT ![c] = "Runnable"]
    /\ Goto(c, "woken")
    /\ last' = Nothing
    /\ UNCHANGED <<todo, killed, call, requests, hstatus, hlisted, kernelVars, mountVars, handlerVars>>

Mine(c) == states[call[c].tag]

\* State::Responded: remove the slot.  A cancelled call with a timeout and no wake
\* left reports ETIMEDOUT.
CallDone(c) ==
    /\ pc[c] = "woken" /\ ~lock
    /\ Mine(c).state = "Responded"
    /\ states' = [states EXCEPT ![call[c].tag] = Vacant]
    /\ mapped' = IF call[c].caller_responsible THEN mapped \ {call[c].req} ELSE mapped
    /\ Return(c, IF Mine(c).code \in {"ECANCELED", "EINTR"} /\ call[c].timed /\ ~wake[c]
                 THEN "ETIMEDOUT" ELSE Mine(c).code,
              Mine(c).req, Mine(c).canceling)
    /\ UNCHANGED <<lock, todo, status, requests, hstatus, hlisted, mountVars, contextVars, handlerVars>>

\* eintr_if_sigkill: the buffer of a killed caller becomes the handler's to unmap.
HandOver(c) == killed[c] > 0

Handed(c) == [Mine(c) EXCEPT !.canceling = TRUE,
                             !.callee_responsible = IF HandOver(c) THEN call[c].caller_responsible ELSE @]
Kept(c) == [call EXCEPT ![c].caller_responsible = @ /\ ~HandOver(c),
                        ![c].timed_out = call[c].timed /\ call[c].expired]

\* The killed caller leaves its buffer to be unmapped by its own guard.
CallKilled_KeepsBuffer(c) ==
    /\ pc[c] = "woken" /\ ~lock
    /\ Mine(c).state = "Waiting"
    /\ killed[c] > 0
    /\ Mine(c).canceling \/ ~(call[c].timed /\ call[c].expired)
    /\ states' = [states EXCEPT ![call[c].tag].canceling = TRUE]
    /\ mapped' = mapped \ {call[c].req}
    /\ Return(c, "EINTR", 0, TRUE)
    /\ UNCHANGED <<lock, todo, status, requests, hstatus, hlisted, mountVars, contextVars, handlerVars>>

\* Still waiting, and killed: EINTR, unless this is the timeout.
CallKilled(c) ==
    /\ pc[c] = "woken" /\ ~lock
    /\ Mine(c).state = "Waiting"
    /\ killed[c] > 0
    /\ Mine(c).canceling \/ ~(call[c].timed /\ call[c].expired)
    /\ states' = [states EXCEPT ![call[c].tag] = Handed(c)]
    /\ Return(c, "EINTR", 0, TRUE)
    /\ UNCHANGED <<lock, todo, status, mapped, requests, hstatus, hlisted, mountVars, contextVars, handlerVars>>

\* The caller gives up its slot at once instead of waiting for the answer.
CallCancel_FreesSlot(c) ==
    /\ pc[c] = "woken" /\ ~lock
    /\ Mine(c).state = "Waiting" /\ ~Mine(c).canceling
    /\ killed[c] = 0 \/ (call[c].timed /\ call[c].expired)
    /\ states' = [states EXCEPT ![call[c].tag] = Vacant]
    /\ mapped' = mapped \ {call[c].req}
    /\ Send([op |-> "Cancel", tag |-> call[c].tag, req |-> call[c].req])
    /\ Return(c, "ETIMEDOUT", 0, TRUE)
    /\ UNCHANGED <<lock, status, requests, mountVars, contextVars, handlerVars>>

\* Still waiting: a spurious wake-up, a signal or the timeout.  Ask the handler to
\* cancel, with the lock of states held until the caller has blocked again.
CallCancel(c) ==
    /\ pc[c] = "woken" /\ ~lock
    /\ Mine(c).state = "Waiting" /\ ~Mine(c).canceling
    /\ killed[c] = 0 \/ (call[c].timed /\ call[c].expired)
    /\ states' = [states EXCEPT ![call[c].tag] = Handed(c)]
    /\ call' = Kept(c)
    /\ Send([op |-> "Cancel", tag |-> call[c].tag, req |-> call[c].req])
    /\ lock' = TRUE
    /\ Goto(c, "reblock")
    /\ last' = Nothing
    /\ UNCHANGED <<status, mapped, requests, mountVars, contextVars, handlerVars>>

\* Still waiting for the answer to the cancellation.
CallCanceling(c) ==
    /\ pc[c] = "woken" /\ ~lock
    /\ Mine(c).state = "Waiting" /\ Mine(c).canceling
    /\ killed[c] = 0
    /\ lock' = TRUE
    /\ Goto(c, "reblock")
    /\ last' = Nothing
    /\ UNCHANGED <<states, todo, status, call, mapped, requests, hstatus, hlisted, mountVars, contextVars, handlerVars>>

CallReblock(c) ==
    /\ pc[c] = "reblock"
    /\ status' = Block(c)
    /\ lock' = FALSE
    /\ Goto(c, "sleep")
    /\ last' = Nothing
    /\ UNCHANGED <<states, todo, call, mapped, requests, hstatus, hlisted, mountVars, contextVars, handlerVars>>

-----------------------------------------------------------------------------
(* The handler                                                              *)

\* UserInner::read: whether to block is decided once.
HandlerRead ==
    /\ hpc = "user"
    /\ hblock' = ~unmounting
    /\ hpc' = "receive"
    /\ last' = Nothing
    /\ UNCHANGED <<todo, pc, status, call, requests, hstatus, hlisted, held, kernelVars, mountVars, contextVars>>

\* receive_into_user finds an entry.  A cancellation concerns the request that
\* the handler holds under the tag.
HandlerReceive ==
    /\ hpc = "receive"
    /\ todo # <<>>
    /\ todo' = Tail(todo)
    /\ LET e == Head(todo) IN
       /\ held' = IF e.op = "Call" THEN held \cup {[tag |-> e.tag, req |-> e.req]} ELSE held
       /\ last' = IF e.op = "Cancel" /\ \E h \in held : h.tag = e.tag
                  THEN [Nothing EXCEPT !.what = "Cancel", !.req = e.req,
                                       !.other = (CHOOSE h \in held : h.tag = e.tag).req]
                  ELSE Nothing
    /\ hpc' = "user"
    /\ UNCHANGED <<pc, status, call, requests, hstatus, hlisted, hblock, kernelVars, mountVars, contextVars>>

\* It finds none and may block: WaitCondition::wait under the queue's lock.
HandlerWait ==
    /\ hpc = "receive"
    /\ todo = <<>> /\ hblock
    /\ hstatus' = "Blocked"
    /\ hlisted' = TRUE
    /\ hpc' = "wait"
    /\ last' = Nothing
    /\ UNCHANGED <<todo, pc, status, call, requests, hblock, held, kernelVars, mountVars, contextVars>>

\* It finds none and may not block: end of file if the scheme is being unmounted.
HandlerEof ==
    /\ hpc = "receive"
    /\ todo = <<>> /\ ~hblock
    /\ hpc' = "eof"
    /\ last' = Nothing
    /\ UNCHANGED <<todo, pc, status, call, requests, hstatus, hlisted, hblock, held, kernelVars, mountVars, contextVars>>

\* wait() returns: notified, or (still on the list) by notify_signal with EINTR.
HandlerResume ==
    /\ hpc = "wait" /\ hstatus = "Runnable"
    /\ hlisted' = FALSE
    /\ hpc' = IF hlisted THEN "user" ELSE "receive"
    /\ last' = Nothing
    /\ UNCHANGED <<todo, pc, status, call, requests, hstatus, hblock, held, kernelVars, mountVars, contextVars>>

\* respond(): what the caller sees of an error code depends on the cancellation.
Code(slot, code) ==
    CASE code = "ECANCELED" /\ slot.canceling -> "EINTR"
      [] code = "EINTR" /\ ~slot.canceling -> "EIO"
      [] OTHER -> code

\* respond() does not wake a caller that has been cancelled.
Respond_Quiet(h, code, alive) ==
    /\ ~lock
    /\ states[h.tag].state = "Waiting"
    /\ alive
    /\ states' = [states EXCEPT ![h.tag].state = "Responded", ![h.tag].code = Code(states[h.tag], code),
                                ![h.tag].req = h.req]
    /\ status' = IF states[h.tag].canceling THEN status
                  ELSE [status EXCEPT ![states[h.tag].context] = "Runnable"]
    /\ mapped' = IF states[h.tag].callee_responsible THEN mapped \ {states[h.tag].req} ELSE mapped

\* The context of the call can be upgraded (alive): store the response and
\* unblock it; otherwise remove the slot.  Then unmap what is the handler's.
Respond(h, code, alive) ==
    /\ ~lock
    /\ states[h.tag].state = "Waiting"
    /\ \/ /\ alive
          /\ states' = [states EXCEPT ![h.tag].state = "Responded", ![h.tag].code = Code(states[h.tag], code),
                                      ![h.tag].req = h.req]
          /\ status' = [status EXCEPT ![states[h.tag].context] = "Runnable"]
       \/ /\ ~alive
          /\ states' = [states EXCEPT ![h.tag] = Vacant]
          /\ UNCHANGED status
    /\ mapped' = IF states[h.tag].callee_responsible THEN mapped \ {states[h.tag].req} ELSE mapped

\* The handler writes an answer to a request it holds: write(), handle_parsed,
\* respond().  The context of a caller that has exited may be gone.
HandlerAnswer(h, code, alive) ==
    /\ h \in held
    /\ alive \/ \E c \in Callers : states[h.tag].context = c /\ pc[c] = "exited"
    /\ Respond(h, code, alive)
    /\ held' = held \ {h}
    /\ last' = Nothing
    /\ UNCHANGED <<lock, todo, pc, call, requests, hpc, hstatus, hlisted, hblock, mountVars, contextVars>>

\* unmount(): the flag ...
UnmountStore ==
    /\ CanUnmount /\ ~unmounting
    /\ unmounting' = TRUE
    /\ last' = Nothing
    /\ UNCHANGED <<notified, todo, pc, status, call, requests, hstatus, hlisted, kernelVars, contextVars, handlerVars>>

\* ... and notify_signal, which unblocks the waiters and leaves them on the list.
UnmountNotify ==
    /\ unmounting /\ ~notified
    /\ notified' = TRUE
    /\ hstatus' = IF hlisted THEN "Runnable" ELSE hstatus
    /\ last' = Nothing
    /\ UNCHANGED <<unmounting, todo, pc, status, call, requests, hlisted, kernelVars, contextVars, handlerVars>>

-----------------------------------------------------------------------------
(* The environment                                                          *)

\* The timeout of the call passes.
Expire(c) ==
    /\ call[c].timed /\ ~call[c].expired
    /\ call' = [call EXCEPT ![c].expired = TRUE]
    /\ last' = Nothing
    /\ UNCHANGED <<todo, pc, status, requests, hstatus, hlisted, kernelVars, mountVars, contextVars, handlerVars>>

\* proc scheme: ForceKill, and Interrupt.
ForceKill(c) ==
    /\ killed[c] < Kills
    /\ killed' = [killed EXCEPT ![c] = @ + 1]
    /\ status' = [status EXCEPT ![c] = "Runnable"]
    /\ last' = Nothing
    /\ UNCHANGED <<todo, pc, wake, call, requests, hstatus, hlisted, kernelVars, mountVars, handlerVars>>

\* A killed caller gets out of the kernel only to exit; on the way it may call again,
\* to close its files.
Exit(c) ==
    /\ killed[c] > 0
    /\ pc[c] = "user"
    /\ Goto(c, "exited")
    /\ last' = Nothing
    /\ UNCHANGED <<todo, status, call, requests, hstatus, hlisted, kernelVars, mountVars, contextVars, handlerVars>>

Interrupt(c) ==
    /\ status[c] = "Blocked"
    /\ status' = [status EXCEPT ![c] = "Runnable"]
    /\ last' = Nothing
    /\ UNCHANGED <<todo, pc, call, requests, hstatus, hlisted, kernelVars, mountVars, contextVars, handlerVars>>

-----------------------------------------------------------------------------

\* The steps of a call, and of the kernel code of the handler.
CallStep(c) ==
    \/ CallRefused(c) \/ CallAccepted(c) \/ CallBlock(c) \/ CallPost(c) \/ CallSend(c)
    \/ CallResume(c) \/ CallDone(c) \/ CallKilled(c) \/ CallCancel(c) \/ CallCanceling(c)
    \/ CallReblock(c)

HandlerStep == HandlerReceive \/ HandlerWait \/ HandlerEof \/ HandlerResume

Answers == \E h \in held, code \in {"ok", "EINTR", "ECANCELED"}, alive \in BOOLEAN : HandlerAnswer(h, code, alive)

Next ==
    \/ \E c \in Callers :
        \/ CallStep(c) \/ Expire(c) \/ ForceKill(c) \/ Exit(c) \/ Interrupt(c)
        \/ \E t \in Tags, timed \in Timed : CallBegin(c, t, timed)
    \/ HandlerRead \/ HandlerStep \/ Answers
    \/ UnmountStore \/ UnmountNotify

Spec == Init /\ [][Next]_vars

\* Kernel code gets to its end and runnable contexts are scheduled; timeouts pass.
KernelFairness ==
    /\ \A c \in Callers : SF_vars(CallStep(c)) /\ WF_vars(Expire(c))
    /\ WF_vars(HandlerStep) /\ WF_vars(UnmountNotify)

\* A handler that keeps reading its requests, and that answers them.
Responsive == WF_vars(HandlerRead) /\ SF_vars(Answers)

FairSpec == Spec /\ KernelFairness /\ Responsive

-----------------------------------------------------------------------------
(* Properties                                                               *)

\* Tags are used again, and calls are cancelled, time out and are killed; yet the
\* answer that a call returns is the answer to that call, and a cancellation that the
\* handler applies to the request it holds under a tag was meant for that request
\* (the entry is sent while the slot is still taken).
TagMatchesCall == last.what \in {"ok", "EIO", "ECANCELED", "Cancel"} => last.other = last.req

\* "EINTR is valid after cancelation has been requested, but not otherwise. This
\* is because the userspace signal trampoline will be invoked after a syscall
\* returns EINTR" (respond()).
EintrNeedsCancel == last.what = "EINTR" => last.canceling

\* "The scheme must be able to access the borrowed memory until it has responded
\* to the request" (call_extended_inner): the buffer of a request that the handler
\* has not answered is still mapped.
BorrowedUntilAnswered == \A h \in held : h.req \in mapped

\* A lent buffer has somebody to unmap it: the caller while its call lasts, or,
\* "populated the caller is interrupted by SIGKILL", the slot of the request.
HasOwner(r) ==
    \/ \E c \in Callers : call[c].req = r /\ call[c].caller_responsible
    \/ \E t \in Tags : states[t].req = r /\ states[t].state = "Waiting" /\ states[t].callee_responsible

\* No step takes the last owner from a mapped buffer, except when a call is killed
\* that was already being cancelled for its timeout: eintr_if_sigkill then moves
\* what it had moved before.
BufferKeepsOwner ==
    [][\A r \in mapped' :
        \/ HasOwner(r)'
        \/ r \in mapped /\ ~HasOwner(r)
        \/ \E c \in Callers : call[c].req = r /\ call[c].timed_out /\ killed[c] > 0]_vars

Waits(c) == call[c].req # 0 /\ ~unmounting

\* With a responsive handler every call returns: no wake-up is lost between
\* respond() and the places where call_extended_inner blocks.  A handler that is
\* told of an unmount need not answer.
CallReturns == \A c \in Callers : []<>~Waits(c)
=============================================================================
