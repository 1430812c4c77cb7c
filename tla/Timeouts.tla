------------------------------ MODULE Timeouts ------------------------------
(***************************************************************************)
(* The time scheme and its timeouts (scheme/time.rs, context/timeout.rs,   *)
(* time.rs).  The timer interrupt of each processor goes through the list  *)
(* of timeouts and triggers an event for those that have elapsed; the list *)
(* is locked for one entry at a time, so that several processors can be in *)
(* it, and calls can add to it.                                            *)
(***************************************************************************)
EXTENDS Naturals, Sequences, FiniteSets, SequencesExt

CONSTANTS
    Cpus,
    Handles,            \* handles of the time scheme, each for one clock
    clock,              \* [Handles -> {"monotonic", "realtime"}]
    MaxTime,            \* bound on the clocks
    MaxTimeouts         \* bound on the number of timeouts

VARIABLES
    monotonic, START,   \* realtime is the sum of both
    open,               \* HANDLES
    registry,           \* REGISTRY: the timeouts, by number
    timeout,            \* a timeout's handle and time
    made,               \* how many timeouts there were
    triggered,          \* timeouts whose event was triggered
    pc, i, now, fire    \* the loop of trigger: index, clocks at the start, timeout taken out

vars == <<monotonic, START, open, registry, timeout, made, triggered, pc, i, now, fire>>

NoTimeout == [handle |-> CHOOSE h \in Handles : TRUE, time |-> 0]

Init ==
    /\ monotonic = 0 /\ START = 0
    /\ open = Handles
    /\ registry = << >> /\ made = 0 /\ triggered = {}
    /\ timeout = [n \in 1 .. MaxTimeouts |-> NoTimeout]
    /\ pc = [c \in Cpus |-> "run"]
    /\ i = [c \in Cpus |-> 0] /\ fire = i
    /\ now = [c \in Cpus |-> [monotonic |-> 0, realtime |-> 0]]

Clocks == [monotonic |-> monotonic, realtime |-> START + monotonic]
Elapsed(n, clocks) == clocks[clock[timeout[n].handle]] >= timeout[n].time

-----------------------------------------------------------------------------
\* kwrite and register.
Write(h, time) ==
    /\ h \in open /\ made < MaxTimeouts
    /\ made' = made + 1
    /\ timeout' = [timeout EXCEPT ![made'] = [handle |-> h, time |-> time]]
    /\ registry' = Append(registry, made')
    /\ UNCHANGED <<monotonic, START, open, triggered, pc, i, now, fire>>

\* close: the timeouts of the handle stay, and trigger nothing.
Close(h) ==
    /\ h \in open
    /\ open' = open \ {h}
    /\ UNCHANGED <<monotonic, START, registry, timeout, made, triggered, pc, i, now, fire>>

Advance ==
    /\ monotonic < MaxTime
    /\ monotonic' = monotonic + 1
    /\ UNCHANGED <<START, open, registry, timeout, made, triggered, pc, i, now, fire>>

\* sys_update_time_offset: the time of day is set, perhaps back.
SetTime(start) ==
    /\ start # START /\ START' = start
    /\ UNCHANGED <<monotonic, open, registry, timeout, made, triggered, pc, i, now, fire>>

-----------------------------------------------------------------------------
\* The timer interrupt: trigger reads the clocks once.
Trigger(c) ==
    /\ pc[c] = "run"
    /\ pc' = [pc EXCEPT ![c] = "loop"] /\ i' = [i EXCEPT ![c] = 1]
    /\ now' = [now EXCEPT ![c] = Clocks]
    /\ UNCHANGED <<monotonic, START, open, registry, timeout, made, triggered, fire>>

\* Mutant of Check: the first entry is removed in place of the one that is due.
Check_Front(c) ==
    /\ pc[c] = "loop" /\ i[c] <= Len(registry)
    /\ LET n == registry[i[c]] IN
       IF Elapsed(n, now[c])
       THEN /\ registry' = Tail(registry)
            /\ fire' = [fire EXCEPT ![c] = n] /\ pc' = [pc EXCEPT ![c] = "fire"]
            /\ UNCHANGED i
       ELSE i' = [i EXCEPT ![c] = @ + 1] /\ UNCHANGED <<registry, fire, pc>>
    /\ UNCHANGED <<monotonic, START, open, timeout, made, triggered, now>>

\* One entry, under the lock of the list: an elapsed one is taken out.
Check(c) ==
    /\ pc[c] = "loop" /\ i[c] <= Len(registry)
    /\ LET n == registry[i[c]] IN
       IF Elapsed(n, now[c])
       THEN /\ registry' = RemoveAt(registry, i[c])
            /\ fire' = [fire EXCEPT ![c] = n] /\ pc' = [pc EXCEPT ![c] = "fire"]
            /\ UNCHANGED i
       ELSE i' = [i EXCEPT ![c] = @ + 1] /\ UNCHANGED <<registry, fire, pc>>
    /\ UNCHANGED <<monotonic, START, open, timeout, made, triggered, now>>

Fire(c) ==
    /\ pc[c] = "fire"
    /\ triggered' = triggered \cup {fire[c]}
    /\ pc' = [pc EXCEPT ![c] = "loop"] /\ fire' = [fire EXCEPT ![c] = 0]
    /\ UNCHANGED <<monotonic, START, open, registry, timeout, made, i, now>>

Done(c) ==
    /\ pc[c] = "loop" /\ i[c] > Len(registry)
    /\ pc' = [pc EXCEPT ![c] = "run"]
    /\ i' = [i EXCEPT ![c] = 0]
    /\ now' = [now EXCEPT ![c] = [monotonic |-> 0, realtime |-> 0]]
    /\ UNCHANGED <<monotonic, START, open, registry, timeout, made, triggered, fire>>

-----------------------------------------------------------------------------
Interrupt(c) == Trigger(c) \/ Check(c) \/ Fire(c) \/ Done(c)

Next ==
    \/ \E h \in Handles : Close(h) \/ \E time \in 0 .. MaxTime : Write(h, time)
    \/ Advance
    \/ \E start \in 0 .. MaxTime : SetTime(start)
    \/ \E c \in Cpus : Interrupt(c)

Spec == Init /\ [][Next]_vars /\ \A c \in Cpus : WF_vars(Interrupt(c))

-----------------------------------------------------------------------------
\* Timeout n has elapsed and is not triggered.
Forgotten(n) == n <= made /\ n \notin triggered /\ Elapsed(n, Clocks)

\* No timeout is forgotten, although an entry that another processor takes out makes this
\* one skip the next: it is never so that a timeout stays elapsed and is not triggered.
TimeoutsFire == \A n \in 1 .. MaxTimeouts : []<>~Forgotten(n)
=============================================================================
