------------------------------- MODULE Events -------------------------------
(***************************************************************************)
(* Event queues (event.rs, scheme/event.rs): processes register files with *)
(* queues, the kernel and the schemes trigger files, and a queue, being a  *)
(* file itself, is triggered in turn in the queues it is registered with.  *)
(* Registering is not atomic: the entry is made first, the scheme is then  *)
(* asked whether the file is ready, and the queues are told.  Only reading *)
(* is modelled: the one flag is EVENT_READ.                                *)
(***************************************************************************)
EXTENDS Naturals, FiniteSets

CONSTANTS
    Files,              \* files that are not event queues
    Polled,             \* those whose scheme answers fevent; irq, time, serio and debug do not
    Queues,             \* event queues
    Threads,
    MaxCalls            \* bound on the number of calls and arrivals

Objects == Files \cup Queues
Nothing == "nothing"

PolledAssumption == Polled \subseteq Files /\ Files \cap Queues = {} /\ Nothing \notin Objects

VARIABLES
    fds,                \* objects with an open file descriptor
    exists,             \* objects their scheme has: queues(), and the handles of the others
    registry,           \* REGISTRY: the queues a file is registered with
    queue,              \* the events in a queue: the objects that became readable, each once
    data,               \* files with something to read
    told,               \* pairs <<q, o>>: a reader of q knows that o is readable
    pc, call,           \* what a thread does: a call with an object and a queue
    todo, done,         \* the loop of trigger
    late,               \* history: queues that got an event after their turn in that loop
    calls               \* number of calls and arrivals so far

vars == <<fds, exists, registry, queue, data, told, pc, call, todo, done, late, calls>>

NoCall == [object |-> Nothing, queue |-> Nothing]

\* Registrations may have been made while nothing was readable.
Init ==
    /\ fds = Objects /\ exists = Objects
    /\ registry \in [Objects -> SUBSET Queues]
    /\ \A q \in Queues : q \notin registry[q]
    /\ queue = [q \in Queues |-> {}]
    /\ data = {} /\ told = {} /\ late = {}
    /\ pc = [t \in Threads |-> "idle"]
    /\ call = [t \in Threads |-> NoCall]
    /\ todo = [t \in Threads |-> {}] /\ done = todo
    /\ calls = 0

Readable(o) == IF o \in Queues THEN queue[o] # {} ELSE o \in data
Goto(t, place) ==
    /\ pc' = [pc EXCEPT ![t] = place]
    /\ call' = IF place = "idle" THEN [call EXCEPT ![t] = NoCall] ELSE call
Call(t, o, q, place) ==
    /\ pc[t] = "idle" /\ pc' = [pc EXCEPT ![t] = place]
    /\ calls < MaxCalls /\ calls' = calls + 1
    /\ call' = [call EXCEPT ![t] = IF place = "idle" THEN NoCall ELSE [object |-> o, queue |-> q]]

\* A description that a registering thread has cloned is not the last one.
Cloned(o) == \E t \in Threads : pc[t] \in {"register", "sync", "trigger"} /\ call[t].queue # Nothing
                                                                          /\ call[t].object = o

-----------------------------------------------------------------------------
(* EventQueue::write.                                                      *)

\* The file is looked up, which fails without a descriptor, and may not be the queue.
Write(t, q, o) ==
    /\ Call(t, o, q, "register") /\ o # q /\ {o, q} \subseteq fds
    /\ UNCHANGED <<fds, exists, registry, queue, data, told, todo, done, late>>

\* Mutant of Register: the state of the file is not asked for after the registration.
Register_NoSync(t) ==
    LET o == call[t].object
        q == call[t].queue
    IN  /\ pc[t] = "register"
        /\ registry' = [registry EXCEPT ![o] = @ \cup {q}]
        /\ told' = IF o \in data \ Polled THEN told \cup {<<q, o>>} ELSE told
        /\ Goto(t, "idle")
        /\ UNCHANGED <<fds, exists, queue, data, todo, done, late, calls>>

\* A reader of a scheme that does not answer fevent has to look for itself.
Register(t) ==
    LET o == call[t].object
        q == call[t].queue
    IN  /\ pc[t] = "register"
        /\ registry' = [registry EXCEPT ![o] = @ \cup {q}]
        /\ told' = IF o \in data \ Polled THEN told \cup {<<q, o>>} ELSE told
        /\ Goto(t, "sync")
        /\ UNCHANGED <<fds, exists, queue, data, todo, done, late, calls>>

\* A registration with no flags removes the entry; its sync is the same.
Deregister(t) ==
    LET o == call[t].object IN
    /\ pc[t] = "register"
    /\ registry' = [registry EXCEPT ![o] = @ \ {call[t].queue}]
    /\ told' = told \ {<<call[t].queue, o>>}
    /\ Goto(t, "sync")
    /\ UNCHANGED <<fds, exists, queue, data, todo, done, late, calls>>

\* fevent, with the flags of all registrations; nothing is ready when it fails.
fevent(o) == o \in exists /\ o \in Polled \cup Queues /\ registry[o] # {} /\ Readable(o)

Sync(t) ==
    /\ pc[t] = "sync"
    /\ Goto(t, IF fevent(call[t].object) THEN "trigger" ELSE "idle")
    /\ UNCHANGED <<fds, exists, registry, queue, data, told, todo, done, late, calls>>

-----------------------------------------------------------------------------
(* trigger.                                                                *)

\* The kernel or a scheme has something to read for a file, and then triggers it.
Arrive(t, f) ==
    /\ Call(t, f, Nothing, "trigger") /\ f \in exists
    /\ data' = data \cup {f}
    /\ UNCHANGED <<fds, exists, registry, queue, told, todo, done, late>>

\* trigger_inner, under the lock of the registry.
Told(o) == {q \in registry[o] : q \in exists}
Send(o) == queue' = [q \in Queues |-> IF q \in Told(o) THEN queue[q] \cup {o} ELSE queue[q]]

Trigger(t) ==
    LET o == call[t].object IN
    /\ pc[t] = "trigger"
    /\ Send(o)
    /\ todo' = [todo EXCEPT ![t] = Told(o)] /\ done' = [done EXCEPT ![t] = {}]
    /\ Goto(t, "queues")
    /\ late' = late \ {o}
    /\ UNCHANGED <<fds, exists, registry, data, told, calls>>

\* The queues that got an event are readable; the order of todo is that of hash maps.  A
\* queue that gets another event after its turn is not announced again.
TriggerQueue(t, q) ==
    /\ pc[t] = "queues" /\ q \in todo[t]
    /\ IF q \in done[t] THEN todo' = [todo EXCEPT ![t] = @ \ {q}] /\ UNCHANGED <<queue, done, late>>
       ELSE /\ Send(q)
            /\ todo' = [todo EXCEPT ![t] = (@ \ {q}) \cup Told(q)]
            /\ done' = [done EXCEPT ![t] = @ \cup {q}]
            /\ late' = (late \ {q}) \cup (Told(q) \cap done'[t])
    /\ UNCHANGED <<fds, exists, registry, data, told, pc, call, calls>>

TriggerDone(t) ==
    /\ pc[t] = "queues" /\ todo[t] = {}
    /\ Goto(t, "idle")
    /\ done' = [done EXCEPT ![t] = {}]
    /\ UNCHANGED <<fds, exists, registry, queue, data, told, todo, late, calls>>

-----------------------------------------------------------------------------
(* Closing: FileDescriptor::close and try_close.                           *)

Close(t, o) ==
    /\ Call(t, o, Nothing, IF Cloned(o) THEN "idle" ELSE "unregister") /\ o \in fds
    /\ fds' = fds \ {o}
    /\ UNCHANGED <<exists, registry, queue, data, told, todo, done, late>>

Unregister(t) ==
    LET o == call[t].object IN
    /\ pc[t] = "unregister"
    /\ registry' = [registry EXCEPT ![o] = {}]
    /\ told' = {p \in told : p[2] # o}
    /\ Goto(t, "close")
    /\ UNCHANGED <<fds, exists, queue, data, todo, done, late, calls>>

\* The scheme forgets the file; a queue leaves its entries in the registry.
CloseFile(t) ==
    LET o == call[t].object IN
    /\ pc[t] = "close"
    /\ exists' = exists \ {o} /\ data' = data \ {o}
    /\ told' = {p \in told : o \notin {p[1], p[2]}}
    /\ queue' = [q \in Queues |-> IF q = o THEN {} ELSE queue[q]]
    /\ late' = late \ {o}
    /\ Goto(t, "idle")
    /\ UNCHANGED <<fds, registry, todo, done, calls>>

-----------------------------------------------------------------------------
(* A process reads events of a queue, then what they announced.            *)

Read(q, got) ==
    /\ q \in fds /\ got # {}
    /\ queue' = [queue EXCEPT ![q] = @ \ got]
    /\ told' = {p \in told : queue'[q] # {} \/ p[2] # q} \cup {<<q, o>> : o \in got}
    /\ late' = IF queue'[q] = {} THEN late \ {q} ELSE late
    /\ UNCHANGED <<fds, exists, registry, data, pc, call, todo, done, calls>>

Drain(f) ==
    /\ f \in data \cap fds
    /\ data' = data \ {f}
    /\ told' = {p \in told : p[2] # f}
    /\ UNCHANGED <<fds, exists, registry, queue, pc, call, todo, done, late, calls>>

-----------------------------------------------------------------------------
Step(t) == \/ Register(t) \/ Deregister(t) \/ Sync(t)
           \/ Trigger(t) \/ (\E q \in Queues : TriggerQueue(t, q)) \/ TriggerDone(t)
           \/ Unregister(t) \/ CloseFile(t)

Next ==
    \/ \E t \in Threads :
        \/ \E q \in Queues, o \in Objects : Write(t, q, o)
        \/ \E f \in Files : Arrive(t, f)
        \/ \E o \in Objects : Close(t, o)
        \/ Step(t)
    \/ \E q \in Queues : \E got \in SUBSET queue[q] : Read(q, got)
    \/ \E f \in Files : Drain(f)

Spec == Init /\ [][Next]_vars

-----------------------------------------------------------------------------
(* Properties.                                                             *)

\* A trigger of o, or a registration that has yet to ask about it, is under way.
UnderWay(o) ==
    \E t \in Threads : \/ pc[t] \in {"sync", "trigger"} /\ call[t].object = o
                       \/ pc[t] = "queues" /\ o \in todo[t] \ done[t]

\* No readiness is lost: of a registered file that is readable there is an event in the
\* queue, or the reader has got one since the file became readable, or one is about to
\* be sent.  Data that arrive between the registration and the question are covered.  One
\* kind of event is lost, and set apart: a queue that trigger has announced, that is then
\* read empty and gets an event of another queue in the same loop, is in `done` and is
\* not announced again; who waits for it is not woken.
NoLostEvent ==
    \A o \in exists : \A q \in registry[o] \cap exists :
        Readable(o) => \/ o \in queue[q]
                       \/ <<q, o>> \in told
                       \/ UnderWay(o)
                       \/ o \in late

=============================================================================
