----------------------------- MODULE ByteStream -----------------------------
(***************************************************************************)
(* What the pipe scheme promises, without queue, locks and wait            *)
(* conditions: a byte stream of bounded capacity on which every call of    *)
(* kread and kwrite takes effect in one step between its beginning and its *)
(* end, with the answer that the stream justifies in that step.  A call    *)
(* that could neither move a byte nor be refused has no step to take yet:  *)
(* it blocks.                                                              *)
(***************************************************************************)
EXTENDS Naturals, Sequences

CONSTANTS Reader, Writer,
          Capacity,       \* bytes that were written and not yet read
          Sizes           \* lengths of the buffers

VARIABLES sent, got,      \* what was written, what was read
          alive,          \* the ends that are not closed
          busy,           \* contexts inside a call
          call, result    \* what they asked for, and were answered last

vars == <<sent, got, alive, busy, call, result>>

Ctx == Reader \cup Writer
Unread == Len(sent) - Len(got)

Init ==
    /\ sent = <<>> /\ got = <<>>
    /\ alive = [e \in {"read", "write"} |-> TRUE]
    /\ busy = {}
    /\ call = [c \in Ctx |-> [len |-> 0, nonblock |-> FALSE]]
    /\ result = [c \in Ctx |-> "none"]

Begin(c) ==
    /\ c \in Ctx \ busy
    /\ alive[IF c \in Reader THEN "read" ELSE "write"]
    /\ busy' = busy \cup {c}
    /\ \E n \in Sizes, nb \in BOOLEAN : call' = [call EXCEPT ![c] = [len |-> n, nonblock |-> nb]]
    /\ result' = [result EXCEPT ![c] = "none"]
    /\ UNCHANGED <<sent, got, alive>>

\* The answer r ends the call.
Answer(c, r) ==
    /\ c \in busy
    /\ busy' = busy \ {c}
    /\ call' = [call EXCEPT ![c] = [len |-> 0, nonblock |-> FALSE]]
    /\ result' = [result EXCEPT ![c] = r]
    /\ UNCHANGED alive

\* The next bytes of the stream, as many as there are and fit.
Read(c) ==
    /\ c \in Reader /\ call[c].len > 0 /\ Unread > 0
    /\ \E n \in 1 .. call[c].len :
        /\ n = call[c].len \/ n = Unread
        /\ n =< Unread
        /\ got' = SubSeq(sent, 1, Len(got) + n)
    /\ UNCHANGED sent
    /\ Answer(c, "ok")

\* At least one byte, and at most what there is room for.
Write(c) ==
    /\ c \in Writer /\ alive["read"]
    /\ \E n \in 1 .. call[c].len :
        /\ Unread + n =< Capacity
        /\ Len(sent') = Len(sent) + n
    /\ SubSeq(sent', 1, Len(sent)) = sent
    /\ UNCHANGED got
    /\ Answer(c, "ok")

\* A buffer without bytes is answered at once, unless the pipe is broken.
Empty(c) ==
    /\ call[c].len = 0
    /\ c \in Writer => alive["read"]
    /\ UNCHANGED <<sent, got>> /\ Answer(c, "ok")

\* Nothing can be moved now: end of file, broken pipe, or try again.
EndOfFile(c) ==
    /\ c \in Reader /\ call[c].len > 0 /\ Unread = 0 /\ ~alive["write"]
    /\ UNCHANGED <<sent, got>> /\ Answer(c, "eof")

Broken(c) ==
    /\ c \in Writer /\ ~alive["read"]
    /\ UNCHANGED <<sent, got>> /\ Answer(c, "EPIPE")

Again(c) ==
    /\ call[c].nonblock /\ call[c].len > 0
    /\ IF c \in Reader THEN Unread = 0 /\ alive["write"] ELSE Unread = Capacity /\ alive["read"]
    /\ UNCHANGED <<sent, got>> /\ Answer(c, "EAGAIN")

\* The buffer cannot be accessed, or a signal ends a call that may block.
Faulted(c) ==
    /\ call[c].len > 0
    /\ IF c \in Reader THEN Unread > 0 ELSE Unread < Capacity /\ alive["read"]
    /\ UNCHANGED <<sent, got>> /\ Answer(c, "EFAULT")

Interrupted(c) ==
    /\ call[c].len > 0 /\ ~call[c].nonblock
    /\ UNCHANGED <<sent, got>> /\ Answer(c, "EINTR")

Close(e) ==
    /\ alive[e]
    /\ busy \cap (IF e = "read" THEN Reader ELSE Writer) = {}
    /\ alive' = [alive EXCEPT ![e] = FALSE]
    /\ UNCHANGED <<sent, got, busy, call, result>>

Next ==
    \/ \E c \in Ctx :
        \/ Begin(c) \/ Read(c) \/ Write(c) \/ Empty(c) \/ EndOfFile(c) \/ Broken(c)
        \/ Again(c) \/ Faulted(c) \/ Interrupted(c)
    \/ \E e \in {"read", "write"} : Close(e)

Spec == Init /\ [][Next]_vars
=============================================================================
