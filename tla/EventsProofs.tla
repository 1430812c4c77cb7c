---------------------------- MODULE EventsProofs ----------------------------
(***************************************************************************)
(* Proof that event queues lose no readiness but that of a queue after its *)
(* turn in trigger (late), for any files, queues and threads.  EventInv is *)
(* NoLostEvent with a stronger notion of what is under way: the question   *)
(* of a registration counts only where the scheme answers it, since the    *)
(* others are looked at when the entry is made.  Then two sources of       *)
(* events: Input (instance Keys) and Irq (instance Interrupts).            *)
(***************************************************************************)
EXTENDS Events, Sequences, TLAPS

Places == {"idle", "register", "sync", "trigger", "queues", "unregister", "close"}

(* The types; who is in a call has an object, who registers has a queue.           *)
TypeInv ==
    /\ exists \subseteq Objects /\ data \subseteq Files
    /\ registry \in [Objects -> SUBSET Queues]
    /\ queue \in [Queues -> SUBSET Objects]
    /\ pc \in [Threads -> Places]
    /\ call \in [Threads -> [object : Objects \cup {Nothing}, queue : Queues \cup {Nothing}]]
    /\ \A t \in Threads : pc[t] # "idle" => call[t].object \in Objects
    /\ \A t \in Threads : pc[t] = "register" => call[t].queue \in Queues
    /\ todo \in [Threads -> SUBSET Queues] /\ done \in [Threads -> SUBSET Queues]

(* Thread t will send, or offer to send, the events of o.                          *)
Asks(t, o) ==
    \/ pc[t] = "sync" /\ call[t].object = o /\ o \in Polled \cup Queues
    \/ pc[t] = "trigger" /\ call[t].object = o
    \/ pc[t] = "queues" /\ o \in todo[t] \ done[t]

Announced(o, q) == o \in queue[q] \/ <<q, o>> \in told \/ o \in late \/ \E t \in Threads : Asks(t, o)

EventInv == \A o \in exists : \A q \in registry[o] \cap exists : Readable(o) => Announced(o, q)

IInv == TypeInv /\ EventInv

(* What is asked stays asked when the thread that moves did not ask it. *)
LEMMA AsksKept ==
    ASSUME NEW t \in Threads, NEW o, NEW u \in Threads, Asks(u, o), ~Asks(t, o),
           \A v \in Threads : v # t => /\ pc'[v] = pc[v] /\ call'[v] = call[v]
                                       /\ todo'[v] = todo[v] /\ done'[v] = done[v]
    PROVE  \E v \in Threads : Asks(v, o)'
<1>1. u # t
  BY Zenon
<1>2. Asks(u, o)'
  BY <1>1, Zenon DEF Asks
<1> QED
  BY <1>2, Zenon

(* A step of thread t that sends nothing and asks for nothing: what was announced  *)
(* still is, if t did not ask for it.                                              *)
LEMMA AnnouncedKept ==
    ASSUME NEW t \in Threads, NEW o, NEW q, Announced(o, q), queue'[q] = queue[q],
           <<q, o>> \in told => <<q, o>> \in told', o \in late => o \in late', ~Asks(t, o),
           \A v \in Threads : v # t => /\ pc'[v] = pc[v] /\ call'[v] = call[v]
                                       /\ todo'[v] = todo[v] /\ done'[v] = done[v]
    PROVE  Announced(o, q)'
<1>1. CASE o \in queue[q] \/ <<q, o>> \in told \/ o \in late
  BY <1>1, Zenon DEF Announced
<1>2. CASE \E u \in Threads : Asks(u, o)
  BY <1>2, AsksKept, Zenon DEF Announced
<1> QED
  BY <1>1, <1>2, Zenon DEF Announced

(* Nothing is readable at first. *)
LEMMA InitIInv ==
    ASSUME PolledAssumption, Init PROVE IInv
<1>1. TypeInv
  <2>1. NoCall \in [object : Objects \cup {Nothing}, queue : Queues \cup {Nothing}]
    BY Zenon DEF NoCall
  <2>2. call \in [Threads -> [object : Objects \cup {Nothing}, queue : Queues \cup {Nothing}]]
    BY <2>1, Zenon DEF Init
  <2> QED
    BY <2>2, Zenon DEF Init, TypeInv, Places
<1>2. \A o \in Objects : ~Readable(o)
  BY Zenon DEF Init, Readable
<1>3. EventInv
  BY <1>1, <1>2, Zenon DEF EventInv, TypeInv
<1> QED
  BY <1>1, <1>3, Zenon DEF IInv

-----------------------------------------------------------------------------
(* Where a thread goes. *)

(* A new call. *)
LEMMA CallTypes ==
    ASSUME TypeInv, NEW t \in Threads, NEW o \in Objects, NEW q \in Queues \cup {Nothing},
           NEW p \in Places, Call(t, o, q, p), p = "register" => q \in Queues
    PROVE  /\ pc' \in [Threads -> Places]
           /\ call' \in [Threads -> [object : Objects \cup {Nothing}, queue : Queues \cup {Nothing}]]
           /\ \A u \in Threads : pc'[u] # "idle" => call'[u].object \in Objects
           /\ \A u \in Threads : pc'[u] = "register" => call'[u].queue \in Queues
           /\ \A u \in Threads : u # t => pc'[u] = pc[u] /\ call'[u] = call[u]
           /\ pc[t] = "idle" /\ pc'[t] = p
           /\ p # "idle" => call'[t].object = o
<1> DEFINE new == IF p = "idle" THEN NoCall ELSE [object |-> o, queue |-> q]
<1>1. new \in [object : Objects \cup {Nothing}, queue : Queues \cup {Nothing}]
  BY Zenon DEF NoCall
<1>2. p # "idle" => new.object = o /\ new.queue = q
  BY Zenon
<1>3. call' = [call EXCEPT ![t] = new] /\ pc' = [pc EXCEPT ![t] = p] /\ pc[t] = "idle"
  BY Zenon DEF Call
<1> HIDE DEF new
<1> QED
  BY <1>1, <1>2, <1>3, Zenon DEF TypeInv

(* The next step of a call. *)
LEMMA GotoTypes ==
    ASSUME TypeInv, NEW t \in Threads, NEW p \in Places, Goto(t, p), p # "register",
           pc[t] # "idle"
    PROVE  /\ pc' \in [Threads -> Places]
           /\ call' \in [Threads -> [object : Objects \cup {Nothing}, queue : Queues \cup {Nothing}]]
           /\ \A u \in Threads : pc'[u] # "idle" => call'[u].object \in Objects
           /\ \A u \in Threads : pc'[u] = "register" => call'[u].queue \in Queues
           /\ \A u \in Threads : u # t => pc'[u] = pc[u] /\ call'[u] = call[u]
           /\ pc'[t] = p
           /\ p # "idle" => call'[t] = call[t]
<1>1. NoCall \in [object : Objects \cup {Nothing}, queue : Queues \cup {Nothing}]
  BY Zenon DEF NoCall
<1>2. call' = IF p = "idle" THEN [call EXCEPT ![t] = NoCall] ELSE call
  BY Zenon DEF Goto
<1>3. pc' = [pc EXCEPT ![t] = p]
  BY Zenon DEF Goto
<1>4. call' \in [Threads -> [object : Objects \cup {Nothing}, queue : Queues \cup {Nothing}]]
  BY <1>1, <1>2, Zenon DEF TypeInv
<1> QED
  BY <1>2, <1>3, <1>4, Zenon DEF TypeInv

-----------------------------------------------------------------------------
(* EventQueue::write. *)

(* The file is looked up. *)
LEMMA WriteStep ==
    ASSUME PolledAssumption, IInv, NEW t \in Threads, NEW q \in Queues, NEW o \in Objects,
           Write(t, q, o)
    PROVE  IInv'
<1>a. TypeInv /\ EventInv
  BY Zenon DEF IInv
<1>b. Call(t, o, q, "register") /\ UNCHANGED <<exists, registry, queue, data, told, todo, done, late>>
  BY Zenon DEF Write
<1>c. /\ TypeInv'
      /\ \A v \in Threads : v # t => pc'[v] = pc[v] /\ call'[v] = call[v]
      /\ pc[t] = "idle"
  <2>1. "register" \in Places
    BY Zenon DEF Places
  <2> QED
    BY <1>a, <1>b, <2>1, CallTypes, Zenon DEF TypeInv
<1>1. EventInv'
  <2> SUFFICES ASSUME NEW a \in exists', NEW b \in registry'[a] \cap exists', Readable(a)'
               PROVE  Announced(a, b)'
    BY Zenon DEF EventInv
  <2>1. Announced(a, b)
    BY <1>a, <1>b, Zenon DEF EventInv, Readable
  <2>2. ~Asks(t, a)
    BY <1>c, Zenon DEF Asks
  <2> QED
    BY <1>b, <1>c, <2>1, <2>2, AnnouncedKept, Zenon
<1> QED
  BY <1>c, <1>1, Zenon DEF IInv

(* The entry is made.  The new pair is asked about by sync, or was looked at.      *)
LEMMA RegisterStep ==
    ASSUME PolledAssumption, IInv, NEW t \in Threads, Register(t)
    PROVE  IInv'
<1>a. TypeInv /\ EventInv
  BY Zenon DEF IInv
<1> DEFINE o == call[t].object
           q == call[t].queue
<1>b. /\ Goto(t, "sync") /\ UNCHANGED <<exists, queue, data, todo, done, late>> /\ pc[t] = "register"
      /\ registry' = [registry EXCEPT ![o] = @ \cup {q}]
      /\ told' = IF o \in data \ Polled THEN told \cup {<<q, o>>} ELSE told
  BY Zenon DEF Register
<1>c. o \in Objects /\ q \in Queues
  BY <1>a, <1>b, Zenon DEF TypeInv
<1>d. /\ pc' \in [Threads -> Places]
      /\ call' \in [Threads -> [object : Objects \cup {Nothing}, queue : Queues \cup {Nothing}]]
      /\ \A u \in Threads : pc'[u] # "idle" => call'[u].object \in Objects
      /\ \A u \in Threads : pc'[u] = "register" => call'[u].queue \in Queues
      /\ \A u \in Threads : u # t => pc'[u] = pc[u] /\ call'[u] = call[u]
      /\ pc'[t] = "sync" /\ call'[t].object = o
  BY <1>a, <1>b, GotoTypes, Zenon DEF Places
<1> HIDE DEF o, q
<1>1. TypeInv'
  BY <1>a, <1>b, <1>c, <1>d DEF TypeInv
<1>2. EventInv'
  <2> SUFFICES ASSUME NEW a \in exists', NEW b \in registry'[a] \cap exists', Readable(a)'
               PROVE  Announced(a, b)'
    BY Zenon DEF EventInv
  <2>1. a \in Objects /\ Readable(a) /\ a \in exists
    BY <1>a, <1>b, Zenon DEF TypeInv, Readable
  <2>2. CASE b \in registry[a]
    <3>1. Announced(a, b) /\ ~Asks(t, a)
      BY <1>a, <1>b, <2>1, <2>2, Zenon DEF EventInv, Asks
    <3> QED
      BY <1>b, <1>d, <3>1, AnnouncedKept, Zenon
  <2>3. CASE b \notin registry[a]
    <3>1. a = o /\ b = q
      BY <1>a, <1>b, <1>c, <2>1, <2>3, Zenon DEF TypeInv
    <3>2. CASE o \in Polled \cup Queues
      <4>1. Asks(t, a)'
        BY <1>d, <3>1, <3>2, Zenon DEF Asks
      <4> QED
        BY <3>1, <4>1, Zenon DEF Announced
    <3>3. CASE o \notin Polled \cup Queues
      <4>1. o \in data
        BY <2>1, <3>1, <3>3, Zenon DEF Readable
      <4> QED
        BY <1>b, <3>1, <3>3, <4>1, Zenon DEF Announced
    <3> QED
      BY <3>2, <3>3, Zenon
  <2> QED
    BY <2>2, <2>3, Zenon
<1> QED
  BY <1>1, <1>2, Zenon DEF IInv

(* The entry is removed. *)
LEMMA DeregisterStep ==
    ASSUME PolledAssumption, IInv, NEW t \in Threads, Deregister(t)
    PROVE  IInv'
<1>a. TypeInv /\ EventInv
  BY Zenon DEF IInv
<1> DEFINE o == call[t].object
           q == call[t].queue
<1>b. /\ Goto(t, "sync") /\ UNCHANGED <<exists, queue, data, todo, done, late>> /\ pc[t] = "register"
      /\ registry' = [registry EXCEPT ![o] = @ \ {q}]
      /\ told' = told \ {<<q, o>>}
  BY Zenon DEF Deregister
<1>c. o \in Objects /\ q \in Queues
  BY <1>a, <1>b, Zenon DEF TypeInv
<1>d. /\ pc' \in [Threads -> Places]
      /\ call' \in [Threads -> [object : Objects \cup {Nothing}, queue : Queues \cup {Nothing}]]
      /\ \A u \in Threads : pc'[u] # "idle" => call'[u].object \in Objects
      /\ \A u \in Threads : pc'[u] = "register" => call'[u].queue \in Queues
      /\ \A u \in Threads : u # t => pc'[u] = pc[u] /\ call'[u] = call[u]
  BY <1>a, <1>b, GotoTypes, Zenon DEF Places
<1> HIDE DEF o, q
<1>1. TypeInv'
  BY <1>a, <1>b, <1>c, <1>d, Zenon DEF TypeInv
<1>2. EventInv'
  <2> SUFFICES ASSUME NEW a \in exists', NEW b \in registry'[a] \cap exists', Readable(a)'
               PROVE  Announced(a, b)'
    BY Zenon DEF EventInv
  <2>1. a \in Objects /\ Readable(a) /\ a \in exists
    BY <1>a, <1>b, Zenon DEF TypeInv, Readable
  <2>2. b \in registry[a] /\ ~(a = o /\ b = q)
    BY <1>a, <1>b, <1>c, <2>1, Zenon DEF TypeInv
  <2>3. Announced(a, b) /\ ~Asks(t, a)
    BY <1>a, <1>b, <2>1, <2>2, Zenon DEF EventInv, Asks
  <2>4. <<b, a>> \in told => <<b, a>> \in told'
    BY <1>b, <2>2, Zenon
  <2> QED
    BY <1>b, <1>d, <2>3, <2>4, AnnouncedKept, Zenon
<1> QED
  BY <1>1, <1>2, Zenon DEF IInv

(* The scheme is asked. *)
LEMMA SyncStep ==
    ASSUME PolledAssumption, IInv, NEW t \in Threads, Sync(t)
    PROVE  IInv'
<1>a. TypeInv /\ EventInv
  BY Zenon DEF IInv
<1> DEFINE o == call[t].object
           p == IF fevent(o) THEN "trigger" ELSE "idle"
<1>b. /\ Goto(t, p) /\ UNCHANGED <<exists, registry, queue, data, told, todo, done, late>>
      /\ pc[t] = "sync"
  BY Zenon DEF Sync
<1>c. o \in Objects /\ p \in Places /\ p # "register"
  BY <1>a, <1>b, Zenon DEF TypeInv, Places
<1>e. (p = "trigger" <=> fevent(o)) /\ p \in {"trigger", "idle"}
  BY Zenon
<1> HIDE DEF p
<1>d. /\ pc' \in [Threads -> Places]
      /\ call' \in [Threads -> [object : Objects \cup {Nothing}, queue : Queues \cup {Nothing}]]
      /\ \A u \in Threads : pc'[u] # "idle" => call'[u].object \in Objects
      /\ \A u \in Threads : pc'[u] = "register" => call'[u].queue \in Queues
      /\ \A u \in Threads : u # t => pc'[u] = pc[u] /\ call'[u] = call[u]
      /\ pc'[t] = p /\ (p # "idle" => call'[t].object = o)
  BY <1>a, <1>b, <1>c, GotoTypes, Zenon
<1> HIDE DEF o
<1>1. TypeInv'
  BY <1>a, <1>b, <1>c, <1>d, Zenon DEF TypeInv
<1>2. EventInv'
  <2> SUFFICES ASSUME NEW a \in exists', NEW b \in registry'[a] \cap exists', Readable(a)'
               PROVE  Announced(a, b)'
    BY Zenon DEF EventInv
  <2>1. a \in Objects /\ Readable(a) /\ a \in exists /\ b \in registry[a] /\ Announced(a, b)
    BY <1>a, <1>b, Zenon DEF TypeInv, Readable, EventInv
  <2>2. CASE ~Asks(t, a)
    BY <1>b, <1>d, <2>1, <2>2, AnnouncedKept, Zenon
  <2>3. CASE Asks(t, a)
    <3>1. a = o /\ a \in Polled \cup Queues
      BY <1>b, <2>3, Zenon DEF Asks, o
    <3>2. fevent(o)
      BY <2>1, <3>1, Zenon DEF fevent
    <3>3. Asks(t, a)'
      BY <1>d, <1>e, <3>1, <3>2, Zenon DEF Asks
    <3> QED
      BY <3>3, Zenon DEF Announced
  <2> QED
    BY <2>2, <2>3, Zenon
<1> QED
  BY <1>1, <1>2, Zenon DEF IInv

-----------------------------------------------------------------------------
(* trigger. *)

(* Something to read arrives: it is triggered. *)
LEMMA ArriveStep ==
    ASSUME PolledAssumption, IInv, NEW t \in Threads, NEW f \in Files, Arrive(t, f)
    PROVE  IInv'
<1>a. TypeInv /\ EventInv
  BY Zenon DEF IInv
<1>b. /\ Call(t, f, Nothing, "trigger") /\ UNCHANGED <<exists, registry, queue, told, todo, done, late>>
      /\ data' = data \cup {f} /\ f \in Objects
  BY Zenon DEF Arrive, Objects
<1>d. /\ pc' \in [Threads -> Places]
      /\ call' \in [Threads -> [object : Objects \cup {Nothing}, queue : Queues \cup {Nothing}]]
      /\ \A u \in Threads : pc'[u] # "idle" => call'[u].object \in Objects
      /\ \A u \in Threads : pc'[u] = "register" => call'[u].queue \in Queues
      /\ \A u \in Threads : u # t => pc'[u] = pc[u] /\ call'[u] = call[u]
      /\ pc[t] = "idle" /\ pc'[t] = "trigger" /\ call'[t].object = f
  BY <1>a, <1>b, CallTypes, Zenon DEF Places
<1>1. TypeInv'
  BY <1>a, <1>b, <1>d, Zenon DEF TypeInv
<1>2. EventInv'
  <2> SUFFICES ASSUME NEW a \in exists', NEW b \in registry'[a] \cap exists', Readable(a)'
               PROVE  Announced(a, b)'
    BY Zenon DEF EventInv
  <2>1. CASE a = f
    <3>1. Asks(t, a)'
      BY <1>d, <2>1, Zenon DEF Asks
    <3> QED
      BY <3>1, Zenon DEF Announced
  <2>2. CASE a # f
    <3>1. Announced(a, b) /\ ~Asks(t, a)
      BY <1>a, <1>b, <1>d, <2>2, Zenon DEF EventInv, Readable, Asks
    <3> QED
      BY <1>b, <1>d, <3>1, AnnouncedKept, Zenon
  <2> QED
    BY <2>1, <2>2, Zenon
<1> QED
  BY <1>1, <1>2, Zenon DEF IInv

(* What sending the events of o does to the queues. *)
LEMMA SendProps ==
    ASSUME TypeInv, NEW o \in Objects, Send(o)
    PROVE  /\ queue' \in [Queues -> SUBSET Objects]
           /\ Told(o) \subseteq Queues
           /\ \A q \in registry[o] \cap exists : o \in queue'[q]
           /\ \A q \in Queues : queue[q] \subseteq queue'[q]
           /\ \A q \in Queues : q \notin Told(o) => queue'[q] = queue[q]
  BY Zenon DEF TypeInv, Send, Told

(* trigger_inner: all queues of o get its event, and are themselves to be told.    *)
LEMMA TriggerStep ==
    ASSUME PolledAssumption, IInv, NEW t \in Threads, Trigger(t)
    PROVE  IInv'
<1>a. TypeInv /\ EventInv
  BY Zenon DEF IInv
<1> DEFINE o == call[t].object
<1>b. /\ Goto(t, "queues") /\ UNCHANGED <<exists, registry, data, told>> /\ pc[t] = "trigger"
      /\ Send(o) /\ todo' = [todo EXCEPT ![t] = Told(o)] /\ done' = [done EXCEPT ![t] = {}]
      /\ late' = late \ {o}
  BY Zenon DEF Trigger
<1>c. o \in Objects
  BY <1>a, <1>b, Zenon DEF TypeInv
<1>d. /\ pc' \in [Threads -> Places]
      /\ call' \in [Threads -> [object : Objects \cup {Nothing}, queue : Queues \cup {Nothing}]]
      /\ \A u \in Threads : pc'[u] # "idle" => call'[u].object \in Objects
      /\ \A u \in Threads : pc'[u] = "register" => call'[u].queue \in Queues
      /\ \A u \in Threads : u # t => pc'[u] = pc[u] /\ call'[u] = call[u]
      /\ pc'[t] = "queues"
  BY <1>a, <1>b, GotoTypes, Zenon DEF Places
<1>e. \A q \in Objects : Asks(t, q) => q = o
  BY <1>b, Zenon DEF Asks
<1> HIDE DEF o
<1>f. /\ queue' \in [Queues -> SUBSET Objects]
      /\ Told(o) \subseteq Queues
      /\ \A q \in registry[o] \cap exists : o \in queue'[q]
      /\ \A q \in Queues : queue[q] \subseteq queue'[q]
      /\ \A q \in Queues : q \notin Told(o) => queue'[q] = queue[q]
  BY <1>a, <1>b, <1>c, SendProps, Zenon
<1>g. /\ todo' \in [Threads -> SUBSET Queues] /\ done' \in [Threads -> SUBSET Queues]
      /\ todo'[t] = Told(o) /\ done'[t] = {}
      /\ \A v \in Threads : v # t => todo'[v] = todo[v] /\ done'[v] = done[v]
  BY <1>a, <1>b, <1>f, Zenon DEF TypeInv
<1>1. TypeInv'
  BY <1>a, <1>b, <1>d, <1>f, <1>g, Zenon DEF TypeInv
<1>2. EventInv'
  <2> SUFFICES ASSUME NEW a \in exists', NEW b \in registry'[a] \cap exists', Readable(a)'
               PROVE  Announced(a, b)'
    BY Zenon DEF EventInv
  <2>1. a \in Objects /\ a \in exists /\ b \in registry[a] \cap exists /\ b \in Queues
    BY <1>a, <1>b, Zenon DEF TypeInv
  <2>2. CASE a = o
    BY <1>f, <2>1, <2>2, Zenon DEF Announced
  <2>3. CASE a # o /\ ~Readable(a)
    <3>1. a \in Told(o)
      BY <1>b, <1>f, <2>3, Zenon DEF Readable
    <3>2. Asks(t, a)'
      BY <1>d, <1>g, <3>1, Zenon DEF Asks
    <3> QED
      BY <3>2, Zenon DEF Announced
  <2>4. CASE a # o /\ Readable(a)
    <3>1. Announced(a, b) /\ ~Asks(t, a)
      BY <1>a, <1>e, <2>1, <2>4, Zenon DEF EventInv
    <3>2. CASE a \in queue[b] \/ <<b, a>> \in told \/ a \in late
      BY <1>b, <1>f, <2>1, <2>4, <3>2, Zenon DEF Announced
    <3>3. CASE \E u \in Threads : Asks(u, a)
      BY <1>d, <1>g, <3>1, <3>3, AsksKept, Zenon DEF Announced
    <3> QED
      BY <3>1, <3>2, <3>3, Zenon DEF Announced
  <2> QED
    BY <2>2, <2>3, <2>4, Zenon
<1> QED
  BY <1>1, <1>2, Zenon DEF IInv

(* The loop of trigger: a queue that has become readable is announced in turn.  A  *)
(* queue that has had its turn is late.                                            *)
LEMMA TriggerQueueStep ==
    ASSUME PolledAssumption, IInv, NEW t \in Threads, NEW o \in Queues, TriggerQueue(t, o)
    PROVE  IInv'
<1>a. TypeInv /\ EventInv
  BY Zenon DEF IInv
<1>b. /\ UNCHANGED <<exists, registry, data, told, pc, call>> /\ pc[t] = "queues" /\ o \in todo[t]
      /\ o \in Objects
  BY Zenon DEF TriggerQueue, Objects
<1>3. CASE o \in done[t]
  <2>1. todo' = [todo EXCEPT ![t] = @ \ {o}] /\ UNCHANGED <<queue, done, late>>
    BY <1>3, Zenon DEF TriggerQueue
  <2>2. TypeInv'
    BY <1>a, <1>b, <2>1, Zenon DEF TypeInv
  <2>3. ASSUME NEW a, NEW u \in Threads, Asks(u, a) PROVE Asks(u, a)'
    BY <1>a, <1>b, <1>3, <2>1, <2>3, Zenon DEF Asks, TypeInv
  <2>4. ASSUME NEW a, NEW b, Announced(a, b) PROVE Announced(a, b)'
    BY <1>b, <2>1, <2>3, <2>4, Zenon DEF Announced
  <2>5. EventInv'
    BY <1>a, <1>b, <2>1, <2>4, Zenon DEF EventInv, Readable
  <2> QED
    BY <2>2, <2>5, Zenon DEF IInv
<1>4. CASE o \notin done[t]
  <2>a. /\ Send(o) /\ todo' = [todo EXCEPT ![t] = (@ \ {o}) \cup Told(o)]
        /\ done' = [done EXCEPT ![t] = @ \cup {o}]
        /\ late' = (late \ {o}) \cup (Told(o) \cap done'[t])
    BY <1>4, Zenon DEF TriggerQueue
  <2>b. /\ queue' \in [Queues -> SUBSET Objects]
        /\ Told(o) \subseteq Queues
        /\ \A q \in registry[o] \cap exists : o \in queue'[q]
        /\ \A q \in Queues : queue[q] \subseteq queue'[q]
        /\ \A q \in Queues : q \notin Told(o) => queue'[q] = queue[q]
    BY <1>a, <1>b, <2>a, SendProps, Zenon
  <2>c. /\ todo' \in [Threads -> SUBSET Queues] /\ done' \in [Threads -> SUBSET Queues]
        /\ todo'[t] = (todo[t] \ {o}) \cup Told(o) /\ done'[t] = done[t] \cup {o}
        /\ \A v \in Threads : v # t => todo'[v] = todo[v] /\ done'[v] = done[v]
    BY <1>a, <2>a, <2>b, Zenon DEF TypeInv
  <2>1. TypeInv'
    BY <1>a, <1>b, <2>b, <2>c, Zenon DEF TypeInv
  <2>2. EventInv'
    <3> SUFFICES ASSUME NEW a \in exists', NEW b \in registry'[a] \cap exists', Readable(a)'
                 PROVE  Announced(a, b)'
      BY Zenon DEF EventInv
    <3>1. a \in Objects /\ a \in exists /\ b \in registry[a] \cap exists /\ b \in Queues
      BY <1>a, <1>b, Zenon DEF TypeInv
    <3>2. CASE a = o
      BY <2>b, <3>1, <3>2, Zenon DEF Announced
    <3>3. CASE a # o /\ ~Readable(a)
      <4>1. a \in Told(o) /\ a \in Queues
        BY <1>b, <2>b, <3>3, Zenon DEF Readable
      <4>2. CASE a \in done'[t]
        BY <2>a, <4>1, <4>2, Zenon DEF Announced
      <4>3. CASE a \notin done'[t]
        <5>1. Asks(t, a)'
          BY <1>b, <2>c, <4>1, <4>3, Zenon DEF Asks
        <5> QED
          BY <5>1, Zenon DEF Announced
      <4> QED
        BY <4>2, <4>3, Zenon
    <3>4. CASE a # o /\ Readable(a)
      <4>1. Announced(a, b)
        BY <1>a, <3>1, <3>4, Zenon DEF EventInv
      <4>2. CASE a \in queue[b] \/ <<b, a>> \in told \/ a \in late
        BY <1>b, <2>a, <2>b, <3>1, <3>4, <4>2, Zenon DEF Announced
      <4>3. ASSUME NEW u \in Threads, Asks(u, a) PROVE Asks(u, a)'
        BY <1>b, <2>c, <3>4, <4>3, Zenon DEF Asks
      <4> QED
        BY <4>1, <4>2, <4>3, Zenon DEF Announced
    <3> QED
      BY <3>2, <3>3, <3>4, Zenon
  <2> QED
    BY <2>1, <2>2, Zenon DEF IInv
<1> QED
  BY <1>3, <1>4, Zenon

(* The loop ends when nothing is left to announce. *)
LEMMA TriggerDoneStep ==
    ASSUME PolledAssumption, IInv, NEW t \in Threads, TriggerDone(t)
    PROVE  IInv'
<1>a. TypeInv /\ EventInv
  BY Zenon DEF IInv
<1>b. /\ Goto(t, "idle") /\ UNCHANGED <<exists, registry, queue, data, told, todo, late>>
      /\ pc[t] = "queues" /\ todo[t] = {} /\ done' = [done EXCEPT ![t] = {}]
  BY Zenon DEF TriggerDone
<1>d. /\ pc' \in [Threads -> Places]
      /\ call' \in [Threads -> [object : Objects \cup {Nothing}, queue : Queues \cup {Nothing}]]
      /\ \A u \in Threads : pc'[u] # "idle" => call'[u].object \in Objects
      /\ \A u \in Threads : pc'[u] = "register" => call'[u].queue \in Queues
      /\ \A u \in Threads : u # t => pc'[u] = pc[u] /\ call'[u] = call[u]
  BY <1>a, <1>b, GotoTypes, Zenon DEF Places
<1>e. /\ done' \in [Threads -> SUBSET Queues]
      /\ \A v \in Threads : v # t => todo'[v] = todo[v] /\ done'[v] = done[v]
  BY <1>a, <1>b, Zenon DEF TypeInv
<1>1. TypeInv'
  BY <1>a, <1>b, <1>d, <1>e, Zenon DEF TypeInv
<1>2. EventInv'
  <2> SUFFICES ASSUME NEW a \in exists', NEW b \in registry'[a] \cap exists', Readable(a)'
               PROVE  Announced(a, b)'
    BY Zenon DEF EventInv
  <2>1. Announced(a, b) /\ ~Asks(t, a)
    BY <1>a, <1>b, Zenon DEF EventInv, Readable, Asks
  <2> QED
    BY <1>b, <1>d, <1>e, <2>1, AnnouncedKept, Zenon
<1> QED
  BY <1>1, <1>2, Zenon DEF IInv

-----------------------------------------------------------------------------
(* Closing. *)

(* The descriptor goes. *)
LEMMA CloseStep ==
    ASSUME PolledAssumption, IInv, NEW t \in Threads, NEW o \in Objects, Close(t, o)
    PROVE  IInv'
<1>a. TypeInv /\ EventInv
  BY Zenon DEF IInv
<1> DEFINE p == IF Cloned(o) THEN "idle" ELSE "unregister"
<1>b. Call(t, o, Nothing, p) /\ UNCHANGED <<exists, registry, queue, data, told, todo, done, late>>
  BY Zenon DEF Close
<1>c. p \in Places /\ p # "register"
  BY Zenon DEF Places
<1> HIDE DEF p
<1>d. /\ pc' \in [Threads -> Places]
      /\ call' \in [Threads -> [object : Objects \cup {Nothing}, queue : Queues \cup {Nothing}]]
      /\ \A u \in Threads : pc'[u] # "idle" => call'[u].object \in Objects
      /\ \A u \in Threads : pc'[u] = "register" => call'[u].queue \in Queues
      /\ \A u \in Threads : u # t => pc'[u] = pc[u] /\ call'[u] = call[u]
      /\ pc[t] = "idle"
  BY <1>a, <1>b, <1>c, CallTypes, Zenon
<1>1. TypeInv'
  BY <1>a, <1>b, <1>d, Zenon DEF TypeInv
<1>2. EventInv'
  <2> SUFFICES ASSUME NEW a \in exists', NEW b \in registry'[a] \cap exists', Readable(a)'
               PROVE  Announced(a, b)'
    BY Zenon DEF EventInv
  <2>1. Announced(a, b) /\ ~Asks(t, a)
    BY <1>a, <1>b, <1>d, Zenon DEF EventInv, Readable, Asks
  <2> QED
    BY <1>b, <1>d, <2>1, AnnouncedKept, Zenon
<1> QED
  BY <1>1, <1>2, Zenon DEF IInv

(* The registrations of the file go. *)
LEMMA UnregisterStep ==
    ASSUME PolledAssumption, IInv, NEW t \in Threads, Unregister(t)
    PROVE  IInv'
<1>a. TypeInv /\ EventInv
  BY Zenon DEF IInv
<1> DEFINE o == call[t].object
<1>b. /\ Goto(t, "close") /\ UNCHANGED <<exists, queue, data, todo, done, late>> /\ pc[t] = "unregister"
      /\ registry' = [registry EXCEPT ![o] = {}] /\ told' = {p \in told : p[2] # o}
  BY Zenon DEF Unregister
<1>c. o \in Objects
  BY <1>a, <1>b, Zenon DEF TypeInv
<1>d. /\ pc' \in [Threads -> Places]
      /\ call' \in [Threads -> [object : Objects \cup {Nothing}, queue : Queues \cup {Nothing}]]
      /\ \A u \in Threads : pc'[u] # "idle" => call'[u].object \in Objects
      /\ \A u \in Threads : pc'[u] = "register" => call'[u].queue \in Queues
      /\ \A u \in Threads : u # t => pc'[u] = pc[u] /\ call'[u] = call[u]
  BY <1>a, <1>b, GotoTypes, Zenon DEF Places
<1> HIDE DEF o
<1>1. TypeInv'
  BY <1>a, <1>b, <1>c, <1>d, Zenon DEF TypeInv
<1>2. EventInv'
  <2> SUFFICES ASSUME NEW a \in exists', NEW b \in registry'[a] \cap exists', Readable(a)'
               PROVE  Announced(a, b)'
    BY Zenon DEF EventInv
  <2>1. a \in Objects /\ a # o /\ b \in registry[a] /\ a \in exists
    BY <1>a, <1>b, <1>c, Zenon DEF TypeInv
  <2>2. Announced(a, b) /\ ~Asks(t, a)
    BY <1>a, <1>b, <2>1, Zenon DEF EventInv, Readable, Asks
  <2>3. <<b, a>> \in told => <<b, a>> \in told'
    BY <1>b, <2>1, Zenon
  <2> QED
    BY <1>b, <1>d, <2>2, <2>3, AnnouncedKept, Zenon
<1> QED
  BY <1>1, <1>2, Zenon DEF IInv

(* The scheme forgets it. *)
LEMMA CloseFileStep ==
    ASSUME PolledAssumption, IInv, NEW t \in Threads, CloseFile(t)
    PROVE  IInv'
<1>a. TypeInv /\ EventInv
  BY Zenon DEF IInv
<1> DEFINE o == call[t].object
<1>b. /\ Goto(t, "idle") /\ UNCHANGED <<registry, todo, done>> /\ pc[t] = "close"
      /\ exists' = exists \ {o} /\ data' = data \ {o}
      /\ told' = {p \in told : o \notin {p[1], p[2]}}
      /\ queue' = [q \in Queues |-> IF q = o THEN {} ELSE queue[q]] /\ late' = late \ {o}
  BY Zenon DEF CloseFile
<1>d. /\ pc' \in [Threads -> Places]
      /\ call' \in [Threads -> [object : Objects \cup {Nothing}, queue : Queues \cup {Nothing}]]
      /\ \A u \in Threads : pc'[u] # "idle" => call'[u].object \in Objects
      /\ \A u \in Threads : pc'[u] = "register" => call'[u].queue \in Queues
      /\ \A u \in Threads : u # t => pc'[u] = pc[u] /\ call'[u] = call[u]
  BY <1>a, <1>b, GotoTypes, Zenon DEF Places
<1> HIDE DEF o
<1>1. TypeInv'
  BY <1>a, <1>b, <1>d, Zenon DEF TypeInv
<1>2. EventInv'
  <2> SUFFICES ASSUME NEW a \in exists', NEW b \in registry'[a] \cap exists', Readable(a)'
               PROVE  Announced(a, b)'
    BY Zenon DEF EventInv
  <2>1. a \in Objects /\ a # o /\ b # o /\ a \in exists /\ b \in registry[a] \cap exists /\ b \in Queues
    BY <1>a, <1>b, Zenon DEF TypeInv
  <2>2. queue'[b] = queue[b] /\ Readable(a)
    BY <1>b, <2>1, Zenon DEF Readable
  <2>3. Announced(a, b) /\ ~Asks(t, a)
    BY <1>a, <1>b, <2>1, <2>2, Zenon DEF EventInv, Asks
  <2>4. (<<b, a>> \in told => <<b, a>> \in told') /\ (a \in late => a \in late')
    BY <1>b, <2>1, Zenon
  <2> QED
    BY <1>b, <1>d, <2>2, <2>3, <2>4, AnnouncedKept, Zenon
<1> QED
  BY <1>1, <1>2, Zenon DEF IInv

-----------------------------------------------------------------------------
(* The process. *)

(* Events that were read are known. *)
LEMMA ReadStep ==
    ASSUME PolledAssumption, IInv, NEW q \in Queues, NEW got \in SUBSET queue[q], Read(q, got)
    PROVE  IInv'
<1>a. TypeInv /\ EventInv
  BY Zenon DEF IInv
<1>b. /\ UNCHANGED <<exists, registry, data, pc, call, todo, done>>
      /\ queue' = [queue EXCEPT ![q] = @ \ got]
      /\ told' = {p \in told : queue'[q] # {} \/ p[2] # q} \cup {<<q, o>> : o \in got}
      /\ late' = IF queue'[q] = {} THEN late \ {q} ELSE late
  BY Zenon DEF Read
<1>1. TypeInv'
  BY <1>a, <1>b, Zenon DEF TypeInv
<1>2. EventInv'
  <2> SUFFICES ASSUME NEW a \in exists', NEW b \in registry'[a] \cap exists', Readable(a)'
               PROVE  Announced(a, b)'
    BY Zenon DEF EventInv
  <2>1. a \in Objects /\ a \in exists /\ b \in registry[a] \cap exists /\ b \in Queues
    BY <1>a, <1>b, Zenon DEF TypeInv
  <2>2. Readable(a)
    BY <1>a, <1>b, Zenon DEF Readable, TypeInv
  <2>3. CASE a \in queue[b]
    <3>1. a \in queue'[b] \/ (b = q /\ a \in got)
      BY <1>a, <1>b, <2>1, <2>3, Zenon DEF TypeInv
    <3> QED
      BY <1>b, <3>1, Zenon DEF Announced
  <2>4. CASE <<b, a>> \in told
    <3>1. a = q => queue'[q] # {}
      BY Zenon DEF Readable
    <3>2. <<b, a>> \in told'
      BY <1>b, <2>4, <3>1, Zenon
    <3> QED
      BY <3>2, Zenon DEF Announced
  <2>5. ASSUME NEW u \in Threads, Asks(u, a) PROVE Announced(a, b)'
    BY <1>b, <2>5, Zenon DEF Asks, Announced
  <2>6. CASE a \in late
    <3>1. a = q => queue'[q] # {}
      BY Zenon DEF Readable
    <3>2. a \in late'
      BY <1>b, <2>6, <3>1, Zenon
    <3> QED
      BY <3>2, Zenon DEF Announced
  <2> QED
    BY <1>a, <2>1, <2>2, <2>3, <2>4, <2>5, <2>6, Zenon DEF EventInv, Announced
<1> QED
  BY <1>1, <1>2, Zenon DEF IInv

(* A file that was read is not readable. *)
LEMMA DrainStep ==
    ASSUME PolledAssumption, IInv, NEW f \in Files, Drain(f)
    PROVE  IInv'
<1>a. TypeInv /\ EventInv
  BY Zenon DEF IInv
<1>b. /\ UNCHANGED <<exists, registry, queue, pc, call, todo, done, late>>
      /\ data' = data \ {f} /\ told' = {p \in told : p[2] # f}
  BY Zenon DEF Drain
<1>1. TypeInv'
  BY <1>a, <1>b, Zenon DEF TypeInv
<1>2. EventInv'
  <2> SUFFICES ASSUME NEW a \in exists', NEW b \in registry'[a] \cap exists', Readable(a)'
               PROVE  Announced(a, b)'
    BY Zenon DEF EventInv
  <2>1. a # f /\ Readable(a)
    BY <1>b, Zenon DEF Readable, PolledAssumption
  <2>2. Announced(a, b)
    BY <1>a, <1>b, <2>1, Zenon DEF EventInv
  <2>3. <<b, a>> \in told => <<b, a>> \in told'
    BY <1>b, <2>1, Zenon
  <2> QED
    BY <1>b, <2>2, <2>3, Zenon DEF Announced, Asks
<1> QED
  BY <1>1, <1>2, Zenon DEF IInv

-----------------------------------------------------------------------------

(* The invariant is inductive. *)
LEMMA NextIInv == PolledAssumption /\ IInv /\ [Next]_vars => IInv'
<1> SUFFICES ASSUME PolledAssumption, IInv, [Next]_vars PROVE IInv'
  BY Zenon
<1>1. CASE UNCHANGED vars
  <2>1. TypeInv'
    BY <1>1, Zenon DEF IInv, TypeInv, vars
  <2>2. EventInv'
    BY <1>1, Zenon DEF IInv, EventInv, Announced, Asks, Readable, vars
  <2> QED
    BY <2>1, <2>2, Zenon DEF IInv
<1>2. ASSUME NEW t \in Threads, Step(t) PROVE IInv'
  BY <1>2, RegisterStep, DeregisterStep, SyncStep, TriggerStep, TriggerQueueStep, TriggerDoneStep,
     UnregisterStep, CloseFileStep, Zenon DEF Step
<1> QED
  BY <1>1, <1>2, WriteStep, ArriveStep, CloseStep, ReadStep, DrainStep, Zenon DEF Next

(* For any files, queues and threads: of a registered file that is readable there  *)
(* is an event in the queue, the reader knows, or the event is about to be sent    *)
(* (register, sync and trigger of event.rs are separate steps); but for a queue    *)
(* that got an event after its turn in the loop of trigger, which is not announced.*)
THEOREM EventsKept ==
    ASSUME PolledAssumption
    PROVE  Spec => []NoLostEvent
<1>1. Init => IInv
  BY InitIInv, Zenon
<1>2. IInv /\ [Next]_vars => IInv'
  BY NextIInv, Zenon
<1>3. IInv => NoLostEvent
  <2>1. \A o, t : Asks(t, o) => \/ pc[t] \in {"sync", "trigger"} /\ call[t].object = o
                                \/ pc[t] = "queues" /\ o \in todo[t] \ done[t]
    BY Zenon DEF Asks
  <2> QED
    BY <2>1, Zenon DEF IInv, EventInv, Announced, NoLostEvent, UnderWay
<1> QED
  BY <1>1, <1>2, <1>3, PTL DEF Spec

-----------------------------------------------------------------------------
(* Input of the keyboard, the mouse and the serial line: Input.             *)

CONSTANTS in_Serio, in_Debug, in_Readers, in_MaxBytes
VARIABLES in_fifo, in_came, in_queue, in_handles, in_contexts, in_isr, in_pc, in_blocked,
          in_pending, in_told

Keys == INSTANCE Input WITH
    Serio <- in_Serio, Debug <- in_Debug, Readers <- in_Readers, MaxBytes <- in_MaxBytes,
    fifo <- in_fifo, came <- in_came, queue <- in_queue, handles <- in_handles,
    contexts <- in_contexts, isr <- in_isr, pc <- in_pc, blocked <- in_blocked,
    pending <- in_pending, told <- in_told

\* The inductive invariant: a blocked reader is in the list of the queue it reads from, so the
\* next notification reaches it.
InputInv ==
    /\ in_handles \in [in_Readers -> Keys!Ports \cup {"none"}] /\ in_contexts \in [Keys!Ports -> SUBSET in_Readers]
    /\ in_pc \in [in_Readers -> {"idle", "read", "wait"}] /\ in_blocked \subseteq in_Readers
    /\ in_queue \in [Keys!Ports -> Seq(Nat)] /\ in_isr \in [Keys!Ports -> {"idle", "notify", "more",
       "events"}]
    /\ in_fifo \in [Keys!Ports -> Nat] /\ in_came \in [Keys!Ports -> Nat] /\ \A p \in Keys!Ports : in_fifo[p] <= in_came[p]
    /\ \A r \in in_Readers :
        /\ in_pc[r] # "idle" => in_handles[r] \in Keys!Ports
        /\ r \in in_blocked => in_pc[r] = "wait" /\ r \in in_contexts[in_handles[r]]
    /\ Keys!ReadersWake

\* A byte that arrives at the device preserves InputInv.
LEMMA InputArriveKeeps ==
    ASSUME Keys!InputAssumption, InputInv, NEW p \in Keys!Ports, Keys!Arrive(p)
    PROVE  InputInv'
  BY DEF InputInv, Keys!ReadersWake, Keys!Arrive

\* WaitQueue::send by the interrupt handler preserves InputInv.
LEMMA InputSendKeeps ==
    ASSUME Keys!InputAssumption, InputInv, NEW p \in Keys!Ports, Keys!Send(p)
    PROVE  InputInv'
  BY DEF InputInv, Keys!ReadersWake, Keys!Send

\* The notification after the lock of the queue is released preserves InputInv.
LEMMA InputNotifyKeeps ==
    ASSUME Keys!InputAssumption, InputInv, NEW p \in Keys!Ports, Keys!Notify(p)
    PROVE  InputInv'
  BY DEF InputInv, Keys!ReadersWake, Keys!Notify

\* The end of the handler, which triggers the events, preserves InputInv.
LEMMA InputEventsKeeps ==
    ASSUME Keys!InputAssumption, InputInv, NEW p \in Keys!Ports, Keys!Events(p)
    PROVE  InputInv'
  BY DEF InputInv, Keys!ReadersWake, Keys!Events, Keys!Tell

\* debug_notify preserves InputInv.
LEMMA InputDebugNotifyKeeps ==
    ASSUME Keys!InputAssumption, InputInv, NEW p \in Keys!Ports, Keys!debug_notify(p)
    PROVE  InputInv'
  BY DEF InputInv, Keys!ReadersWake, Keys!debug_notify, Keys!Tell

\* close() of a handle preserves InputInv.
LEMMA InputCloseKeeps ==
    ASSUME Keys!InputAssumption, InputInv, NEW r \in in_Readers, Keys!Close(r)
    PROVE  InputInv'
  BY DEF InputInv, Keys!ReadersWake, Keys!Close

\* A read of a serio handle preserves InputInv.
LEMMA InputReadKeeps ==
    ASSUME Keys!InputAssumption, InputInv, NEW r \in in_Readers, Keys!Read(r)
    PROVE  InputInv'
  BY DEF InputInv, Keys!ReadersWake, Keys!Read, Keys!Reading, Keys!Ports

\* A read of a debug handle preserves InputInv.
LEMMA InputReadDebugKeeps ==
    ASSUME Keys!InputAssumption, InputInv, NEW r \in in_Readers, Keys!ReadDebug(r)
    PROVE  InputInv'
  BY DEF InputInv, Keys!ReadersWake, Keys!ReadDebug, Keys!Reading, Keys!Ports

\* A read without blocking that finds nothing preserves InputInv.
LEMMA InputReceiveNothingKeeps ==
    ASSUME Keys!InputAssumption, InputInv, NEW r \in in_Readers, Keys!ReceiveNothing(r)
    PROVE  InputInv'
  BY DEF InputInv, Keys!ReadersWake, Keys!ReceiveNothing

\* WaitCondition::wait, with the queue still locked, preserves InputInv.
LEMMA InputWaitKeeps ==
    ASSUME Keys!InputAssumption, InputInv, NEW r \in in_Readers, Keys!Wait(r)
    PROVE  InputInv'
  BY DEF InputInv, Keys!ReadersWake, Keys!Wait

\* The return of the wait, to look at the queue again, preserves InputInv.
LEMMA InputResumeKeeps ==
    ASSUME Keys!InputAssumption, InputInv, NEW r \in in_Readers, Keys!Resume(r)
    PROVE  InputInv'
  BY DEF InputInv, Keys!ReadersWake, Keys!Resume

\* A signal that ends the wait preserves InputInv.
LEMMA InputSignalKeeps ==
    ASSUME Keys!InputAssumption, InputInv, NEW r \in in_Readers, Keys!Signal(r)
    PROVE  InputInv'
  BY DEF InputInv, Keys!ReadersWake, Keys!Signal

\* Opening a serio port preserves InputInv.
LEMMA InputOpenKeeps ==
    ASSUME Keys!InputAssumption, InputInv, NEW r \in in_Readers, NEW p \in Keys!Ports, Keys!Open(r, p)
    PROVE  InputInv'
  BY DEF Keys!InputAssumption, InputInv, Keys!ReadersWake, Keys!Open, Keys!OpenHandle

\* Opening the debug scheme preserves InputInv.
LEMMA InputOpenDebugKeeps ==
    ASSUME Keys!InputAssumption, InputInv, NEW r \in in_Readers, NEW p \in Keys!Ports, Keys!OpenDebug(r, p)
    PROVE  InputInv'
  BY DEF Keys!InputAssumption, InputInv, Keys!ReadersWake, Keys!OpenDebug, Keys!OpenHandle

\* WaitQueue::receive_into_user of n bytes preserves InputInv.
LEMMA InputReceiveKeeps ==
    ASSUME Keys!InputAssumption, InputInv, NEW r \in in_Readers, NEW n \in 1 .. in_MaxBytes,
           Keys!Receive(r, n)
    PROVE  InputInv'
<1>1. Keys!ReadersWake'
  BY DEF InputInv, Keys!ReadersWake, Keys!Receive
<1> QED
  BY <1>1 DEF InputInv, Keys!Receive

\* No port has bytes and nobody reads.
LEMMA InputInitially == ASSUME Keys!Init PROVE InputInv
  BY DEF Keys!Init, InputInv, Keys!ReadersWake

\* Every step of readers and interrupt handlers preserves InputInv.
LEMMA InputNext == ASSUME Keys!InputAssumption, InputInv, [Keys!Next]_Keys!vars PROVE InputInv'
<1>1. ASSUME NEW p \in Keys!Ports,
             Keys!Arrive(p) \/ Keys!Send(p) \/ Keys!Notify(p) \/ Keys!Events(p) \/ Keys!debug_notify(p)
      PROVE  InputInv'
  BY <1>1, InputArriveKeeps, InputSendKeeps, InputNotifyKeeps, InputEventsKeeps, InputDebugNotifyKeeps,
     Zenon
<1>2. ASSUME NEW r \in in_Readers,
             Keys!Close(r) \/ Keys!Read(r) \/ Keys!ReadDebug(r) \/ Keys!ReceiveNothing(r) \/ Keys!Wait(r) \/ Keys!Resume(r) \/ Keys!Signal(r)
      PROVE  InputInv'
  BY <1>2, InputCloseKeeps, InputReadKeeps, InputReadDebugKeeps, InputReceiveNothingKeeps,
     InputWaitKeeps, InputResumeKeeps,
     InputSignalKeeps, Zenon
<1>3. ASSUME NEW r \in in_Readers, NEW p \in Keys!Ports, Keys!Open(r, p) \/ Keys!OpenDebug(r, p)
      PROVE  InputInv'
  BY <1>3, InputOpenKeeps, InputOpenDebugKeeps, Zenon
<1>4. ASSUME NEW r \in in_Readers, NEW n \in 1 .. in_MaxBytes, Keys!Receive(r, n) PROVE InputInv'
  BY <1>4, InputReceiveKeeps, Zenon
<1>5. CASE UNCHANGED Keys!vars
  BY <1>5, Zenon DEF Keys!vars, InputInv, Keys!ReadersWake
<1> QED
  BY <1>1, <1>2, <1>3, <1>4, <1>5, Zenon DEF Keys!Next

\* InputInv holds for any ports, readers and numbers of bytes.
THEOREM InputInvariant == ASSUME Keys!InputAssumption PROVE Keys!Spec => []InputInv
  BY InputInitially, InputNext, PTL DEF Keys!Spec

\* ReadersWake of Input: no reader of serio or debug sleeps while there are bytes in its
\* queue and no notification is on its way.
THEOREM ReadersWakeAlways == ASSUME Keys!InputAssumption PROVE Keys!Spec => []Keys!ReadersWake
<1>1. InputInv => Keys!ReadersWake
  BY Zenon DEF InputInv
<1> QED
  BY <1>1, InputInvariant, PTL

-----------------------------------------------------------------------------
(* Interrupts and their drivers: Irq.                                       *)

CONSTANTS ir_Drivers, ir_Cpus, ir_BSP, ir_Irqs, ir_resolve, ir_Level, ir_MaxCount
VARIABLES ir_irq_method, ir_reserved, ir_masked, ir_COUNTS, ir_handles, ir_cpu, ir_created,
          ir_request, ir_pending, ir_missed, ir_isr, ir_pc, ir_seen, ir_told

Interrupts == INSTANCE Irq WITH
    Drivers <- ir_Drivers, Cpus <- ir_Cpus, BSP <- ir_BSP, Irqs <- ir_Irqs, resolve <- ir_resolve,
    Level <- ir_Level, MaxCount <- ir_MaxCount, irq_method <- ir_irq_method, reserved <- ir_reserved,
    masked <- ir_masked, COUNTS <- ir_COUNTS, handles <- ir_handles, cpu <- ir_cpu,
    created <- ir_created, request <- ir_request, pending <- ir_pending, missed <- ir_missed,
    isr <- ir_isr, pc <- ir_pc, seen <- ir_seen, told <- ir_told

\* A message or an edge of irq i is under way to CPU c.
MessageComing(c, i) == <<c, i>> \in ir_pending

\* Where a driver has its handle.
DriverActive == {"read", "serve", "write", "store", "unmask", "wait"}

\* The types of the state.
IrqTypes ==
    /\ ir_irq_method \in {"pic", "apic"} /\ ir_COUNTS \in [ir_Irqs -> Nat]
    /\ ir_handles \in [ir_Drivers -> [irq : ir_Irqs \cup {999}, ack : Nat]]
    /\ ir_cpu \in [ir_Drivers -> ir_Cpus]
    /\ ir_request \subseteq ir_Drivers /\ ir_told \subseteq ir_Drivers
    /\ ir_isr \in [ir_Cpus -> [pc : {"idle", "count", "events"}, irq : ir_Irqs \cup {999}]]
    /\ ir_pc \in [ir_Drivers -> DriverActive \cup {"new", "open", "reserve", "stat", "closed"}]
    /\ ir_seen \in [ir_Drivers -> Nat]

\* An idle handler has no irq.
IsrOK(c) == ir_isr[c].pc = "idle" <=> ir_isr[c].irq = 999

\* What the handle of a driver is at each place.  A driver that has reserved no vector has a
\* legacy irq, and only such a driver misses an edge.
IrqHandleOK(d) ==
    /\ ir_pc[d] \in DriverActive \cup {"open", "reserve", "stat"} => ir_handles[d].irq \in ir_Irqs
    /\ ir_pc[d] \in {"new", "open", "reserve", "stat"} => ir_handles[d].ack = 0
    /\ d \in ir_request => ir_pc[d] \in DriverActive
    /\ ir_pc[d] = "new" => ir_cpu[d] = ir_BSP
    /\ ir_pc[d] \in DriverActive /\ d \notin ir_created =>
          ir_handles[d].irq \in Interrupts!Legacy /\ ir_cpu[d] = ir_BSP
    /\ d \in ir_missed => d \in ir_request /\ d \notin ir_created

\* The line of irq i is masked.
LineMasked(i) == Interrupts!Lines(i) \cap ir_masked # {}
\* The handler of CPU c is about to count irq i.
IsrCounting(c, i) == ir_isr[c].pc = "count" /\ ir_isr[c].irq = i
\* The handler of CPU c is about to send the events of irq i.
IsrTelling(c, i) == ir_isr[c].pc = "events" /\ ir_isr[c].irq = i
\* Some handler is.
Telling(i) == \E c \in ir_Cpus : IsrTelling(c, i)

\* A line is only masked by a handler that has counted the interrupt, or is about to.
LineOK(i) == LineMasked(i) => IsrCounting(ir_BSP, i) \/ ir_COUNTS[i] > 0

\* A driver has not acknowledged more than was counted.
CountOK(d) ==
    LET h == ir_handles[d] IN
    ir_pc[d] \in DriverActive =>
        /\ h.ack <= ir_COUNTS[h.irq]
        /\ ir_pc[d] \in {"serve", "write", "store"} => h.ack <= ir_seen[d] /\ ir_seen[d] <= ir_COUNTS[h.irq]

\* While the line is masked, each driver of the interrupt still has to acknowledge it, and has
\* an event, or is awake, or will get an event.
LegacyOK(d) ==
    LET h == ir_handles[d] IN
    /\ ir_pc[d] \in DriverActive /\ h.irq \in Interrupts!Legacy
    /\ LineMasked(h.irq) /\ ~IsrCounting(ir_BSP, h.irq)
    =>  /\ ir_pc[d] \in {"read", "wait"} => h.ack < ir_COUNTS[h.irq]
        /\ Telling(h.irq) \/ d \in ir_told \/ ir_pc[d] # "wait"
        /\ Telling(h.irq) \/ d \in ir_told \/ (ir_pc[d] \in {"serve", "write"} => ir_seen[d] = ir_COUNTS[h.irq])

\* The request of the device made a message or an edge that was recorded.
Recorded(d) == d \in ir_request /\ d \notin ir_missed /\ (d \in ir_created \/ Interrupts!Edge(ir_handles[d].irq))

\* A message or a recorded edge is under way or being counted, or its driver has a count to
\* acknowledge and an event, or will get one.
MessageOK(d) ==
    LET h == ir_handles[d] IN
    Recorded(d) =>
        \/ MessageComing(ir_cpu[d], h.irq)
        \/ IsrCounting(ir_cpu[d], h.irq)
        \/ /\ ir_pc[d] \in {"read", "wait", "unmask"} => h.ack < ir_COUNTS[h.irq]
           /\ ir_pc[d] \in {"write", "store"} => ir_seen[d] < ir_COUNTS[h.irq]
           /\ ir_pc[d] \in {"read", "serve"} \/ d \in ir_told \/ Telling(h.irq)

\* All that IrqInv says of one driver.
DriverOK(d) == IrqHandleOK(d) /\ CountOK(d) /\ LegacyOK(d) /\ MessageOK(d)

\* A step that changes nothing of the driver.
SameDriver(e) ==
    /\ ir_pc'[e] = ir_pc[e] /\ ir_handles'[e] = ir_handles[e] /\ ir_seen'[e] = ir_seen[e] /\ ir_cpu'[e] = ir_cpu[e]
    /\ (e \in ir_told' <=> e \in ir_told) /\ (e \in ir_request' <=> e \in ir_request)
    /\ (e \in ir_created' <=> e \in ir_created) /\ (e \in ir_missed' <=> e \in ir_missed)

\* The inductive invariant.
IrqInv ==
    /\ IrqTypes
    /\ \A c \in ir_Cpus : IsrOK(c)
    /\ \A i \in Interrupts!Legacy : LineOK(i)
    /\ \A d \in ir_Drivers : IrqHandleOK(d) /\ CountOK(d) /\ LegacyOK(d) /\ MessageOK(d)

\* The lines that two legacy interrupts mask are different ones.
LEMMA LegacyLinesApart ==
    ASSUME Interrupts!IrqAssumption, NEW i \in Interrupts!Legacy, NEW j \in Interrupts!Legacy, i # j
    PROVE  Interrupts!Lines(i) \cap Interrupts!Lines(j) = {}
  BY DEF Interrupts!IrqAssumption, Interrupts!Lines, Interrupts!Legacy

\* A step that leaves a driver, the counts and the handlers alone, and masks no more lines,
\* preserves what IrqInv says of the driver.
LEMMA SameDriverKeeps ==
    ASSUME Interrupts!IrqAssumption, IrqInv, NEW e \in ir_Drivers, SameDriver(e), ir_COUNTS' = ir_COUNTS,
           \A x \in ir_Cpus, j \in ir_Irqs : MessageComing(x, j) => MessageComing(x, j)',
           \A x \in ir_Cpus, j \in ir_Irqs : IsrCounting(x, j)' <=> IsrCounting(x, j),
           \A x \in ir_Cpus, j \in ir_Irqs : IsrTelling(x, j)' <=> IsrTelling(x, j),
           \A j \in Interrupts!Legacy : LineMasked(j)' => LineMasked(j)
    PROVE  DriverOK(e)'
<1>1. ir_BSP \in ir_Cpus /\ \A j \in Interrupts!Legacy : j \in ir_Irqs
  BY Zenon DEF Interrupts!IrqAssumption, Interrupts!Legacy
<1>2. IrqHandleOK(e)' /\ CountOK(e)'
  BY Zenon DEF SameDriver, IrqInv, IrqHandleOK, CountOK
<1>t. \A j \in ir_Irqs : Telling(j)' <=> Telling(j)
  BY Zenon DEF Telling
<1>3. LegacyOK(e)'
  BY <1>1, <1>t, Zenon DEF SameDriver, IrqInv, LegacyOK
<1>4. MessageOK(e)'
  <2>1. Recorded(e)' => Recorded(e)
    BY Zenon DEF SameDriver, Recorded, Interrupts!Edge
  <2> SUFFICES ASSUME Recorded(e) PROVE MessageOK(e)'
    BY <2>1, Zenon DEF MessageOK
  <2>2. ir_handles[e].irq \in ir_Irqs /\ ir_cpu[e] \in ir_Cpus
    BY DEF IrqInv, IrqTypes, IrqHandleOK, Recorded
  <2> QED
    BY <1>t, <2>2, Zenon DEF SameDriver, IrqInv, MessageOK
<1> QED
  BY <1>2, <1>3, <1>4, Zenon DEF DriverOK

\* The list of free interrupts, from which a driver chooses, preserves IrqInv.
LEMMA IrqListKeeps ==
    ASSUME Interrupts!IrqAssumption, IrqInv, NEW d \in ir_Drivers, NEW c \in ir_Cpus, NEW i \in ir_Irqs,
           Interrupts!List(d, c, i)
    PROVE  IrqInv'
<1> USE DEF Interrupts!List, Interrupts!At, Interrupts!Goto
<1>1. \A x \in ir_Cpus, j \in ir_Irqs : MessageComing(x, j)' <=> MessageComing(x, j)
  BY Zenon DEF MessageComing
<1>2. \A x \in ir_Cpus, j \in ir_Irqs : IsrCounting(x, j)' <=> IsrCounting(x, j)
  BY Zenon DEF IsrCounting
<1>3. \A x \in ir_Cpus, j \in ir_Irqs : IsrTelling(x, j)' <=> IsrTelling(x, j)
  BY Zenon DEF IsrTelling
<1>t. \A j \in ir_Irqs : Telling(j)' <=> Telling(j)
  BY <1>3, Zenon DEF Telling
<1>m. \A j \in Interrupts!Legacy : LineMasked(j)' <=> LineMasked(j)
  BY Zenon DEF LineMasked, Interrupts!Lines
<1>4. IrqTypes'
  BY DEF IrqInv, IrqTypes, DriverActive
<1>9. ASSUME NEW x \in ir_Cpus PROVE IsrOK(x)'
  BY DEF IrqInv, IsrOK
<1>10. IrqHandleOK(d)'
  BY DEF IrqInv, IrqTypes, IrqHandleOK, DriverActive
<1>5. ASSUME NEW j \in Interrupts!Legacy PROVE LineOK(j)'
  BY <1>2, <1>m DEF Interrupts!IrqAssumption, IrqInv, IrqTypes, LineOK, Interrupts!Legacy
<1>6. CountOK(d)'
  BY DEF IrqInv, CountOK, DriverActive
<1>7. LegacyOK(d)'
  BY <1>2, <1>3, <1>t, <1>m DEF Interrupts!IrqAssumption, IrqInv, IrqTypes, IrqHandleOK, LineOK,
     CountOK,
     LegacyOK, DriverActive, Interrupts!Legacy
<1>8. MessageOK(d)'
  <2>1. d \notin ir_request
    BY Zenon DEF IrqInv, IrqHandleOK, DriverActive
  <2> QED
    BY <2>1, Zenon DEF MessageOK, Recorded, Interrupts!Edge
<1>11. ASSUME NEW e \in ir_Drivers PROVE DriverOK(e)'
  <2>1. CASE e = d
    BY <1>6, <1>7, <1>8, <1>10, <2>1, Zenon DEF DriverOK
  <2>2. CASE e # d
    <3>1. SameDriver(e) /\ ir_COUNTS' = ir_COUNTS
      BY <2>2 DEF SameDriver, IrqInv, IrqTypes
    <3> QED
      BY <1>1, <1>2, <1>3, <1>m, <3>1, SameDriverKeeps, Zenon
  <2> QED
    BY <2>1, <2>2, Zenon
<1> QED
  BY <1>4, <1>5, <1>9, <1>11, Zenon DEF IrqInv, DriverOK

\* The check of open() that the vector is free preserves IrqInv.
LEMMA IrqOpenCheckKeeps ==
    ASSUME Interrupts!IrqAssumption, IrqInv, NEW d \in ir_Drivers, Interrupts!OpenCheck(d)
    PROVE  IrqInv'
<1> USE DEF Interrupts!OpenCheck, Interrupts!At, Interrupts!Goto
<1>1. \A x \in ir_Cpus, j \in ir_Irqs : MessageComing(x, j)' <=> MessageComing(x, j)
  BY Zenon DEF MessageComing
<1>2. \A x \in ir_Cpus, j \in ir_Irqs : IsrCounting(x, j)' <=> IsrCounting(x, j)
  BY Zenon DEF IsrCounting
<1>3. \A x \in ir_Cpus, j \in ir_Irqs : IsrTelling(x, j)' <=> IsrTelling(x, j)
  BY Zenon DEF IsrTelling
<1>t. \A j \in ir_Irqs : Telling(j)' <=> Telling(j)
  BY <1>3, Zenon DEF Telling
<1>m. \A j \in Interrupts!Legacy : LineMasked(j)' <=> LineMasked(j)
  BY Zenon DEF LineMasked, Interrupts!Lines
<1>4. IrqTypes'
  BY DEF IrqInv, IrqTypes
<1>9. ASSUME NEW x \in ir_Cpus PROVE IsrOK(x)'
  BY DEF IrqInv, IsrOK
<1>10. IrqHandleOK(d)'
  BY DEF IrqInv, IrqHandleOK, DriverActive
<1>5. ASSUME NEW j \in Interrupts!Legacy PROVE LineOK(j)'
  BY <1>2, <1>m DEF Interrupts!IrqAssumption, IrqInv, IrqTypes, LineOK, Interrupts!Legacy
<1>6. CountOK(d)'
  BY DEF IrqInv, CountOK, DriverActive
<1>7. LegacyOK(d)'
  BY <1>2, <1>3, <1>t, <1>m DEF Interrupts!IrqAssumption, IrqInv, IrqTypes, IrqHandleOK, LineOK,
     CountOK,
     LegacyOK, DriverActive, Interrupts!Legacy
<1>8. MessageOK(d)'
  <2>1. d \notin ir_request
    BY Zenon DEF IrqInv, IrqHandleOK, DriverActive
  <2> QED
    BY <2>1, Zenon DEF MessageOK, Recorded, Interrupts!Edge
<1>11. ASSUME NEW e \in ir_Drivers PROVE DriverOK(e)'
  <2>1. CASE e = d
    BY <1>6, <1>7, <1>8, <1>10, <2>1, Zenon DEF DriverOK
  <2>2. CASE e # d
    <3>1. SameDriver(e) /\ ir_COUNTS' = ir_COUNTS
      BY <2>2 DEF SameDriver, IrqInv, IrqTypes
    <3> QED
      BY <1>1, <1>2, <1>3, <1>m, <3>1, SameDriverKeeps, Zenon
  <2> QED
    BY <2>1, <2>2, Zenon
<1> QED
  BY <1>4, <1>5, <1>9, <1>11, Zenon DEF IrqInv, DriverOK

\* The reservation of the vector, after the check, preserves IrqInv.
LEMMA IrqOpenReserveKeeps ==
    ASSUME Interrupts!IrqAssumption, IrqInv, NEW d \in ir_Drivers, Interrupts!OpenReserve(d)
    PROVE  IrqInv'
<1> USE DEF Interrupts!OpenReserve, Interrupts!At, Interrupts!Goto
<1>1. \A x \in ir_Cpus, j \in ir_Irqs : MessageComing(x, j)' <=> MessageComing(x, j)
  BY Zenon DEF MessageComing
<1>2. \A x \in ir_Cpus, j \in ir_Irqs : IsrCounting(x, j)' <=> IsrCounting(x, j)
  BY Zenon DEF IsrCounting
<1>3. \A x \in ir_Cpus, j \in ir_Irqs : IsrTelling(x, j)' <=> IsrTelling(x, j)
  BY Zenon DEF IsrTelling
<1>t. \A j \in ir_Irqs : Telling(j)' <=> Telling(j)
  BY <1>3, Zenon DEF Telling
<1>m. \A j \in Interrupts!Legacy : LineMasked(j)' <=> LineMasked(j)
  BY Zenon DEF LineMasked, Interrupts!Lines
<1>4. IrqTypes'
  BY DEF IrqInv, IrqTypes, DriverActive
<1>9. ASSUME NEW x \in ir_Cpus PROVE IsrOK(x)'
  BY DEF IrqInv, IsrOK
<1>10. IrqHandleOK(d)'
  BY DEF IrqInv, IrqHandleOK, DriverActive
<1>5. ASSUME NEW j \in Interrupts!Legacy PROVE LineOK(j)'
  BY <1>2, <1>m DEF Interrupts!IrqAssumption, IrqInv, IrqTypes, LineOK, Interrupts!Legacy
<1>6. CountOK(d)'
  BY DEF IrqInv, IrqTypes, IrqHandleOK, CountOK
<1>7. LegacyOK(d)'
  <2> SUFFICES ASSUME ir_handles[d].irq \in Interrupts!Legacy, LineMasked(ir_handles[d].irq),
         ~IsrCounting(ir_BSP, ir_handles[d].irq)
               PROVE  LegacyOK(d)'
    BY <1>2, <1>m, Zenon DEF Interrupts!IrqAssumption, LegacyOK, Interrupts!Legacy
  <2>1. ir_handles[d].irq \in ir_Irqs /\ ir_BSP \in ir_Cpus
    BY Zenon DEF Interrupts!IrqAssumption, Interrupts!Legacy
  <2>2. ir_pc'[d] = "read" /\ ir_handles[d].ack < ir_COUNTS[ir_handles[d].irq]
    BY <2>1 DEF IrqInv, IrqTypes, IrqHandleOK, LineOK
  <2> QED
    BY <2>2 DEF LegacyOK
<1>8. MessageOK(d)'
  <2>1. d \notin ir_request
    BY Zenon DEF IrqInv, IrqHandleOK, DriverActive
  <2> QED
    BY <2>1, Zenon DEF MessageOK, Recorded, Interrupts!Edge
<1>11. ASSUME NEW e \in ir_Drivers PROVE DriverOK(e)'
  <2>1. CASE e = d
    BY <1>6, <1>7, <1>8, <1>10, <2>1, Zenon DEF DriverOK
  <2>2. CASE e # d
    <3>1. SameDriver(e) /\ ir_COUNTS' = ir_COUNTS
      BY <2>2 DEF SameDriver, IrqInv, IrqTypes
    <3> QED
      BY <1>1, <1>2, <1>3, <1>m, <3>1, SameDriverKeeps, Zenon
  <2> QED
    BY <2>1, <2>2, Zenon
<1> QED
  BY <1>4, <1>5, <1>9, <1>11, Zenon DEF IrqInv, DriverOK

\* open() of a legacy interrupt preserves IrqInv.
LEMMA IrqOpenLegacyKeeps ==
    ASSUME Interrupts!IrqAssumption, IrqInv, NEW d \in ir_Drivers, NEW i \in ir_Irqs,
           Interrupts!OpenLegacy(d, i)
    PROVE  IrqInv'
<1> USE DEF Interrupts!OpenLegacy, Interrupts!At, Interrupts!Goto
<1>1. \A x \in ir_Cpus, j \in ir_Irqs : MessageComing(x, j)' <=> MessageComing(x, j)
  BY Zenon DEF MessageComing
<1>2. \A x \in ir_Cpus, j \in ir_Irqs : IsrCounting(x, j)' <=> IsrCounting(x, j)
  BY Zenon DEF IsrCounting
<1>3. \A x \in ir_Cpus, j \in ir_Irqs : IsrTelling(x, j)' <=> IsrTelling(x, j)
  BY Zenon DEF IsrTelling
<1>t. \A j \in ir_Irqs : Telling(j)' <=> Telling(j)
  BY <1>3, Zenon DEF Telling
<1>m. \A j \in Interrupts!Legacy : LineMasked(j)' <=> LineMasked(j)
  BY Zenon DEF LineMasked, Interrupts!Lines
<1>4. IrqTypes'
  BY DEF IrqInv, IrqTypes, DriverActive
<1>9. ASSUME NEW x \in ir_Cpus PROVE IsrOK(x)'
  BY DEF IrqInv, IsrOK
<1>10. IrqHandleOK(d)'
  BY DEF IrqInv, IrqTypes, IrqHandleOK, DriverActive
<1>5. ASSUME NEW j \in Interrupts!Legacy PROVE LineOK(j)'
  BY <1>2, <1>m DEF Interrupts!IrqAssumption, IrqInv, IrqTypes, LineOK, Interrupts!Legacy
<1>6. CountOK(d)'
  BY DEF IrqInv, IrqTypes, IrqHandleOK, CountOK
<1>7. LegacyOK(d)'
  BY <1>2, <1>3, <1>t, <1>m DEF Interrupts!IrqAssumption, IrqInv, IrqTypes, IrqHandleOK, LineOK,
     CountOK,
     LegacyOK, DriverActive, Interrupts!Legacy
<1>8. MessageOK(d)'
  <2>1. d \notin ir_request
    BY Zenon DEF IrqInv, IrqHandleOK, DriverActive
  <2> QED
    BY <2>1, Zenon DEF MessageOK, Recorded, Interrupts!Edge
<1>11. ASSUME NEW e \in ir_Drivers PROVE DriverOK(e)'
  <2>1. CASE e = d
    BY <1>6, <1>7, <1>8, <1>10, <2>1, Zenon DEF DriverOK
  <2>2. CASE e # d
    <3>1. SameDriver(e) /\ ir_COUNTS' = ir_COUNTS
      BY <2>2 DEF SameDriver, IrqInv, IrqTypes
    <3> QED
      BY <1>1, <1>2, <1>3, <1>m, <3>1, SameDriverKeeps, Zenon
  <2> QED
    BY <2>1, <2>2, Zenon
<1> QED
  BY <1>4, <1>5, <1>9, <1>11, Zenon DEF IrqInv, DriverOK

\* open() with O_STAT preserves IrqInv.
LEMMA IrqOpenStatKeeps ==
    ASSUME Interrupts!IrqAssumption, IrqInv, NEW d \in ir_Drivers, NEW i \in ir_Irqs,
           Interrupts!OpenStat(d, i)
    PROVE  IrqInv'
<1> USE DEF Interrupts!OpenStat, Interrupts!At, Interrupts!Goto
<1>1. \A x \in ir_Cpus, j \in ir_Irqs : MessageComing(x, j)' <=> MessageComing(x, j)
  BY Zenon DEF MessageComing
<1>2. \A x \in ir_Cpus, j \in ir_Irqs : IsrCounting(x, j)' <=> IsrCounting(x, j)
  BY Zenon DEF IsrCounting
<1>3. \A x \in ir_Cpus, j \in ir_Irqs : IsrTelling(x, j)' <=> IsrTelling(x, j)
  BY Zenon DEF IsrTelling
<1>t. \A j \in ir_Irqs : Telling(j)' <=> Telling(j)
  BY <1>3, Zenon DEF Telling
<1>m. \A j \in Interrupts!Legacy : LineMasked(j)' <=> LineMasked(j)
  BY Zenon DEF LineMasked, Interrupts!Lines
<1>4. IrqTypes'
  <2>1. ir_handles' \in [ir_Drivers -> [irq : ir_Irqs \cup {999}, ack : Nat]]
    BY DEF IrqInv, IrqTypes
  <2>2. ir_pc' \in [ir_Drivers -> DriverActive \cup {"new", "open", "reserve", "stat", "closed"}]
    BY DEF IrqInv, IrqTypes
  <2> QED
    BY <2>1, <2>2 DEF IrqInv, IrqTypes
<1>9. ASSUME NEW x \in ir_Cpus PROVE IsrOK(x)'
  BY DEF IrqInv, IsrOK
<1>10. IrqHandleOK(d)'
  BY DEF IrqInv, IrqTypes, IrqHandleOK, DriverActive
<1>5. ASSUME NEW j \in Interrupts!Legacy PROVE LineOK(j)'
  BY <1>2, <1>m DEF Interrupts!IrqAssumption, IrqInv, IrqTypes, LineOK, Interrupts!Legacy
<1>6. CountOK(d)'
  BY DEF IrqInv, CountOK, DriverActive
<1>7. LegacyOK(d)'
  BY <1>2, <1>3, <1>t, <1>m DEF Interrupts!IrqAssumption, IrqInv, IrqTypes, IrqHandleOK, LineOK,
     CountOK,
     LegacyOK, DriverActive, Interrupts!Legacy
<1>8. MessageOK(d)'
  <2>1. d \notin ir_request
    BY Zenon DEF IrqInv, IrqHandleOK, DriverActive
  <2> QED
    BY <2>1, Zenon DEF MessageOK, Recorded, Interrupts!Edge
<1>11. ASSUME NEW e \in ir_Drivers PROVE DriverOK(e)'
  <2>1. CASE e = d
    BY <1>6, <1>7, <1>8, <1>10, <2>1, Zenon DEF DriverOK
  <2>2. CASE e # d
    <3>1. SameDriver(e) /\ ir_COUNTS' = ir_COUNTS
      BY <2>2 DEF SameDriver, IrqInv, IrqTypes
    <3> QED
      BY <1>1, <1>2, <1>3, <1>m, <3>1, SameDriverKeeps, Zenon
  <2> QED
    BY <2>1, <2>2, Zenon
<1> QED
  BY <1>4, <1>5, <1>9, <1>11, Zenon DEF IrqInv, DriverOK

\* close() of a handle preserves IrqInv.
LEMMA IrqCloseKeeps ==
    ASSUME Interrupts!IrqAssumption, IrqInv, NEW d \in ir_Drivers, Interrupts!Close(d)
    PROVE  IrqInv'
<1> USE DEF Interrupts!Close, Interrupts!At, Interrupts!Goto
<1>1. \A x \in ir_Cpus, j \in ir_Irqs : MessageComing(x, j)' <=> MessageComing(x, j)
  BY Zenon DEF MessageComing
<1>2. \A x \in ir_Cpus, j \in ir_Irqs : IsrCounting(x, j)' <=> IsrCounting(x, j)
  BY Zenon DEF IsrCounting
<1>3. \A x \in ir_Cpus, j \in ir_Irqs : IsrTelling(x, j)' <=> IsrTelling(x, j)
  BY Zenon DEF IsrTelling
<1>t. \A j \in ir_Irqs : Telling(j)' <=> Telling(j)
  BY <1>3, Zenon DEF Telling
<1>m. \A j \in Interrupts!Legacy : LineMasked(j)' <=> LineMasked(j)
  BY Zenon DEF LineMasked, Interrupts!Lines
<1>4. IrqTypes'
  BY DEF IrqInv, IrqTypes
<1>9. ASSUME NEW x \in ir_Cpus PROVE IsrOK(x)'
  BY DEF IrqInv, IsrOK
<1>10. IrqHandleOK(d)'
  BY DEF IrqInv, IrqHandleOK, DriverActive
<1>5. ASSUME NEW j \in Interrupts!Legacy PROVE LineOK(j)'
  BY <1>2, <1>m DEF Interrupts!IrqAssumption, IrqInv, IrqTypes, LineOK, Interrupts!Legacy
<1>6. CountOK(d)'
  BY DEF IrqInv, IrqTypes, CountOK, DriverActive
<1>7. LegacyOK(d)'
  BY <1>2, <1>3, <1>t, <1>m DEF Interrupts!IrqAssumption, IrqInv, IrqTypes, IrqHandleOK, LineOK,
     CountOK,
     LegacyOK, DriverActive, Interrupts!Legacy
<1>8. MessageOK(d)'
  BY Zenon DEF MessageOK, Recorded, Interrupts!Edge
<1>11. ASSUME NEW e \in ir_Drivers PROVE DriverOK(e)'
  <2>1. CASE e = d
    BY <1>6, <1>7, <1>8, <1>10, <2>1, Zenon DEF DriverOK
  <2>2. CASE e # d
    <3>1. SameDriver(e) /\ ir_COUNTS' = ir_COUNTS
      BY <2>2 DEF SameDriver, IrqInv, IrqTypes
    <3> QED
      BY <1>1, <1>2, <1>3, <1>m, <3>1, SameDriverKeeps, Zenon
  <2> QED
    BY <2>1, <2>2, Zenon
<1> QED
  BY <1>4, <1>5, <1>9, <1>11, Zenon DEF IrqInv, DriverOK

\* A device that needs service preserves IrqInv.
LEMMA IrqRequestKeeps ==
    ASSUME Interrupts!IrqAssumption, IrqInv, NEW d \in ir_Drivers, Interrupts!Request(d)
    PROVE  IrqInv'
<1> USE DEF Interrupts!Request
<1>1. \A x \in ir_Cpus, j \in ir_Irqs : MessageComing(x, j) => MessageComing(x, j)'
  BY Zenon DEF MessageComing
<1>2. \A x \in ir_Cpus, j \in ir_Irqs : IsrCounting(x, j)' <=> IsrCounting(x, j)
  BY Zenon DEF IsrCounting
<1>3. \A x \in ir_Cpus, j \in ir_Irqs : IsrTelling(x, j)' <=> IsrTelling(x, j)
  BY Zenon DEF IsrTelling
<1>t. \A j \in ir_Irqs : Telling(j)' <=> Telling(j)
  BY <1>3, Zenon DEF Telling
<1>m. \A j \in Interrupts!Legacy : LineMasked(j)' <=> LineMasked(j)
  BY Zenon DEF LineMasked, Interrupts!Lines
<1>4. IrqTypes'
  BY DEF IrqInv, IrqTypes
<1>9. ASSUME NEW x \in ir_Cpus PROVE IsrOK(x)'
  BY DEF IrqInv, IsrOK
<1>10. IrqHandleOK(d)'
  <2>1. d \in ir_missed' => d \in ir_request' /\ d \notin ir_created'
    BY Zenon DEF IrqInv, IrqHandleOK, Interrupts!Raises
  <2> QED
    BY <2>1, Zenon DEF IrqInv, IrqHandleOK, DriverActive
<1>5. ASSUME NEW j \in Interrupts!Legacy PROVE LineOK(j)'
  BY <1>2, <1>m DEF Interrupts!IrqAssumption, IrqInv, IrqTypes, LineOK, Interrupts!Legacy
<1>6. CountOK(d)'
  BY Zenon DEF IrqInv, CountOK
<1>7. LegacyOK(d)'
  BY <1>2, <1>3, <1>t, <1>m, Zenon DEF Interrupts!IrqAssumption, IrqInv, LegacyOK, Interrupts!Legacy
<1>8. MessageOK(d)'
  <2>1. CASE d \in ir_created
    BY <2>1, Zenon DEF MessageOK, MessageComing, Interrupts!Raises
  <2>2. CASE Interrupts!Edge(ir_handles[d].irq) /\ d \notin ir_missed'
    BY <2>2, Zenon DEF MessageOK, MessageComing
  <2> QED
    BY <2>1, <2>2, Zenon DEF MessageOK, Recorded, Interrupts!Edge
<1>11. ASSUME NEW e \in ir_Drivers PROVE DriverOK(e)'
  <2>1. CASE e = d
    BY <1>6, <1>7, <1>8, <1>10, <2>1, Zenon DEF DriverOK
  <2>2. CASE e # d
    <3>1. SameDriver(e) /\ ir_COUNTS' = ir_COUNTS
      BY <2>2 DEF SameDriver, IrqInv, IrqTypes
    <3> QED
      BY <1>1, <1>2, <1>3, <1>m, <3>1, SameDriverKeeps, Zenon
  <2> QED
    BY <2>1, <2>2, Zenon
<1> QED
  BY <1>4, <1>5, <1>9, <1>11, Zenon DEF IrqInv, DriverOK

\* A read by the driver, which compares the counts, preserves IrqInv.
LEMMA IrqReadKeeps ==
    ASSUME Interrupts!IrqAssumption, IrqInv, NEW d \in ir_Drivers, Interrupts!Read(d)
    PROVE  IrqInv'
<1> USE DEF Interrupts!Read, Interrupts!At, Interrupts!Goto
<1>1. \A x \in ir_Cpus, j \in ir_Irqs : MessageComing(x, j)' <=> MessageComing(x, j)
  BY Zenon DEF MessageComing
<1>2. \A x \in ir_Cpus, j \in ir_Irqs : IsrCounting(x, j)' <=> IsrCounting(x, j)
  BY Zenon DEF IsrCounting
<1>3. \A x \in ir_Cpus, j \in ir_Irqs : IsrTelling(x, j)' <=> IsrTelling(x, j)
  BY Zenon DEF IsrTelling
<1>t. \A j \in ir_Irqs : Telling(j)' <=> Telling(j)
  BY <1>3, Zenon DEF Telling
<1>m. \A j \in Interrupts!Legacy : LineMasked(j)' <=> LineMasked(j)
  BY Zenon DEF LineMasked, Interrupts!Lines
<1>4. IrqTypes'
  <2>1. ir_handles[d].irq \in ir_Irqs
    BY Zenon DEF IrqInv, IrqHandleOK, DriverActive
  <2>2. CASE ir_handles[d].ack # ir_COUNTS[ir_handles[d].irq]
    <3>1. ir_COUNTS[ir_handles[d].irq] \in Nat
      BY <2>1 DEF IrqInv, IrqTypes
    <3>2. ir_seen' = [ir_seen EXCEPT ![d] = ir_COUNTS[ir_handles[d].irq]] /\ ir_pc' = [ir_pc EXCEPT ![d] = "serve"]
      BY <2>2, Zenon
    <3>3. ir_seen' \in [ir_Drivers -> Nat]
      BY <3>1 DEF IrqInv, IrqTypes
    <3>4. ir_pc' \in [ir_Drivers -> DriverActive \cup {"new", "open", "reserve", "stat", "closed"}]
      <4>1. ir_pc \in [ir_Drivers -> DriverActive \cup {"new", "open", "reserve", "stat", "closed"}]
        BY Zenon DEF IrqInv, IrqTypes
      <4> HIDE DEF Interrupts!Read, Interrupts!At, Interrupts!Goto
      <4> QED
        BY <3>2, <4>1 DEF DriverActive
    <3> QED
      BY <3>3, <3>4 DEF IrqInv, IrqTypes
  <2>3. CASE ir_handles[d].ack = ir_COUNTS[ir_handles[d].irq]
    BY <2>3 DEF IrqInv, IrqTypes, DriverActive
  <2> QED
    BY <2>2, <2>3, Zenon
<1>9. ASSUME NEW x \in ir_Cpus PROVE IsrOK(x)'
  BY DEF IrqInv, IsrOK
<1>10. IrqHandleOK(d)'
  BY DEF IrqInv, IrqTypes, IrqHandleOK, DriverActive
<1>5. ASSUME NEW j \in Interrupts!Legacy PROVE LineOK(j)'
  BY <1>2, <1>m DEF Interrupts!IrqAssumption, IrqInv, IrqTypes, LineOK, Interrupts!Legacy
<1>6. CountOK(d)'
  BY DEF IrqInv, IrqTypes, IrqHandleOK, CountOK, DriverActive
<1>7. LegacyOK(d)'
  <2> SUFFICES ASSUME ir_handles[d].irq \in Interrupts!Legacy, LineMasked(ir_handles[d].irq),
         ~IsrCounting(ir_BSP, ir_handles[d].irq)
               PROVE  LegacyOK(d)'
    BY <1>2, <1>m, Zenon DEF Interrupts!IrqAssumption, LegacyOK, Interrupts!Legacy
  <2>1. ir_handles[d].irq \in ir_Irqs /\ ir_BSP \in ir_Cpus
    BY Zenon DEF Interrupts!IrqAssumption, Interrupts!Legacy
  <2>2. ir_handles[d].ack < ir_COUNTS[ir_handles[d].irq]
    BY Zenon DEF IrqInv, LegacyOK, DriverActive
  <2>3. ir_handles[d].ack # ir_COUNTS[ir_handles[d].irq]
    BY <2>1, <2>2 DEF IrqInv, IrqTypes
  <2>4. ir_pc'[d] = "serve" /\ ir_seen'[d] = ir_COUNTS[ir_handles[d].irq]
    BY <2>3 DEF IrqInv, IrqTypes
  <2> QED
    BY <2>4 DEF LegacyOK
<1>8. MessageOK(d)'
  BY <1>1, <1>2, <1>3, <1>t DEF IrqInv, IrqTypes, IrqHandleOK, CountOK, MessageOK, Recorded,
     Interrupts!Edge
<1>11. ASSUME NEW e \in ir_Drivers PROVE DriverOK(e)'
  <2>1. CASE e = d
    BY <1>6, <1>7, <1>8, <1>10, <2>1, Zenon DEF DriverOK
  <2>2. CASE e # d
    <3>1. SameDriver(e) /\ ir_COUNTS' = ir_COUNTS
      BY <2>2 DEF SameDriver, IrqInv, IrqTypes
    <3> QED
      BY <1>1, <1>2, <1>3, <1>m, <3>1, SameDriverKeeps, Zenon
  <2> QED
    BY <2>1, <2>2, Zenon
<1> QED
  BY <1>4, <1>5, <1>9, <1>11, Zenon DEF IrqInv, DriverOK

\* The driver that serves its device preserves IrqInv.
LEMMA IrqServeKeeps ==
    ASSUME Interrupts!IrqAssumption, IrqInv, NEW d \in ir_Drivers, Interrupts!Serve(d)
    PROVE  IrqInv'
<1> USE DEF Interrupts!Serve, Interrupts!At, Interrupts!Goto
<1>1. \A x \in ir_Cpus, j \in ir_Irqs : MessageComing(x, j)' <=> MessageComing(x, j)
  BY Zenon DEF MessageComing
<1>2. \A x \in ir_Cpus, j \in ir_Irqs : IsrCounting(x, j)' <=> IsrCounting(x, j)
  BY Zenon DEF IsrCounting
<1>3. \A x \in ir_Cpus, j \in ir_Irqs : IsrTelling(x, j)' <=> IsrTelling(x, j)
  BY Zenon DEF IsrTelling
<1>t. \A j \in ir_Irqs : Telling(j)' <=> Telling(j)
  BY <1>3, Zenon DEF Telling
<1>m. \A j \in Interrupts!Legacy : LineMasked(j)' <=> LineMasked(j)
  BY Zenon DEF LineMasked, Interrupts!Lines
<1>4. IrqTypes'
  BY DEF IrqInv, IrqTypes, DriverActive
<1>9. ASSUME NEW x \in ir_Cpus PROVE IsrOK(x)'
  BY DEF IrqInv, IsrOK
<1>10. IrqHandleOK(d)'
  BY DEF IrqInv, IrqHandleOK, DriverActive
<1>5. ASSUME NEW j \in Interrupts!Legacy PROVE LineOK(j)'
  BY <1>2, <1>m DEF Interrupts!IrqAssumption, IrqInv, IrqTypes, LineOK, Interrupts!Legacy
<1>6. CountOK(d)'
  BY DEF IrqInv, CountOK, DriverActive
<1>7. LegacyOK(d)'
  <2> SUFFICES ASSUME ir_handles[d].irq \in Interrupts!Legacy, LineMasked(ir_handles[d].irq),
         ~IsrCounting(ir_BSP, ir_handles[d].irq)
               PROVE  LegacyOK(d)'
    BY <1>2, <1>m, Zenon DEF Interrupts!IrqAssumption, LegacyOK, Interrupts!Legacy
  <2>1. ir_handles[d].irq \in ir_Irqs /\ ir_BSP \in ir_Cpus
    BY Zenon DEF Interrupts!IrqAssumption, Interrupts!Legacy
  <2>2. Telling(ir_handles[d].irq)' \/ d \in ir_told' \/ ir_seen'[d] = ir_COUNTS'[ir_handles'[d].irq]
    BY <1>3, <1>t, <2>1, Zenon DEF IrqInv, LegacyOK, DriverActive
  <2>3. ir_pc'[d] = "write" /\ ir_handles' = ir_handles
    BY DEF IrqInv, IrqTypes
  <2> QED
    BY <2>2, <2>3 DEF LegacyOK
<1>8. MessageOK(d)'
  BY Zenon DEF MessageOK, Recorded, Interrupts!Edge
<1>11. ASSUME NEW e \in ir_Drivers PROVE DriverOK(e)'
  <2>1. CASE e = d
    BY <1>6, <1>7, <1>8, <1>10, <2>1, Zenon DEF DriverOK
  <2>2. CASE e # d
    <3>1. SameDriver(e) /\ ir_COUNTS' = ir_COUNTS
      BY <2>2 DEF SameDriver, IrqInv, IrqTypes
    <3> QED
      BY <1>1, <1>2, <1>3, <1>m, <3>1, SameDriverKeeps, Zenon
  <2> QED
    BY <2>1, <2>2, Zenon
<1> QED
  BY <1>4, <1>5, <1>9, <1>11, Zenon DEF IrqInv, DriverOK

\* The first half of a write, which compares the counts, preserves IrqInv.
LEMMA IrqWriteKeeps ==
    ASSUME Interrupts!IrqAssumption, IrqInv, NEW d \in ir_Drivers, Interrupts!Write(d)
    PROVE  IrqInv'
<1> USE DEF Interrupts!Write, Interrupts!At, Interrupts!Goto
<1>1. \A x \in ir_Cpus, j \in ir_Irqs : MessageComing(x, j)' <=> MessageComing(x, j)
  BY Zenon DEF MessageComing
<1>2. \A x \in ir_Cpus, j \in ir_Irqs : IsrCounting(x, j)' <=> IsrCounting(x, j)
  BY Zenon DEF IsrCounting
<1>3. \A x \in ir_Cpus, j \in ir_Irqs : IsrTelling(x, j)' <=> IsrTelling(x, j)
  BY Zenon DEF IsrTelling
<1>t. \A j \in ir_Irqs : Telling(j)' <=> Telling(j)
  BY <1>3, Zenon DEF Telling
<1>m. \A j \in Interrupts!Legacy : LineMasked(j)' <=> LineMasked(j)
  BY Zenon DEF LineMasked, Interrupts!Lines
<1>4. IrqTypes'
  BY DEF IrqInv, IrqTypes, DriverActive
<1>9. ASSUME NEW x \in ir_Cpus PROVE IsrOK(x)'
  BY DEF IrqInv, IsrOK
<1>10. IrqHandleOK(d)'
  BY DEF IrqInv, IrqHandleOK, DriverActive
<1>5. ASSUME NEW j \in Interrupts!Legacy PROVE LineOK(j)'
  BY <1>2, <1>m DEF Interrupts!IrqAssumption, IrqInv, IrqTypes, LineOK, Interrupts!Legacy
<1>6. CountOK(d)'
  BY Zenon DEF IrqInv, CountOK, DriverActive
<1>7. LegacyOK(d)'
  <2> SUFFICES ASSUME ir_handles[d].irq \in Interrupts!Legacy, LineMasked(ir_handles[d].irq),
         ~IsrCounting(ir_BSP, ir_handles[d].irq)
               PROVE  LegacyOK(d)'
    BY <1>2, <1>m, Zenon DEF Interrupts!IrqAssumption, LegacyOK, Interrupts!Legacy
  <2>1. ir_handles[d].irq \in ir_Irqs /\ ir_BSP \in ir_Cpus
    BY Zenon DEF Interrupts!IrqAssumption, Interrupts!Legacy
  <2>2. CASE ir_seen[d] = ir_COUNTS[ir_handles[d].irq]
    <3>1. ir_pc'[d] = "store"
      BY <2>2 DEF IrqInv, IrqTypes
    <3> QED
      BY <3>1 DEF LegacyOK
  <2>3. CASE ir_seen[d] # ir_COUNTS[ir_handles[d].irq]
    <3>1. Telling(ir_handles[d].irq)' \/ d \in ir_told'
      BY <1>3, <1>t, <2>1, <2>3, Zenon DEF IrqInv, LegacyOK, DriverActive
    <3>2. ir_handles[d].ack < ir_COUNTS[ir_handles[d].irq]
      <4>1. ir_handles[d].ack <= ir_seen[d] /\ ir_seen[d] <= ir_COUNTS[ir_handles[d].irq]
        BY Zenon DEF IrqInv, CountOK, DriverActive
      <4>2. ir_handles[d].ack \in Nat /\ ir_seen[d] \in Nat /\ ir_COUNTS[ir_handles[d].irq] \in Nat
        BY <2>1 DEF IrqInv, IrqTypes
      <4> QED
        BY <2>3, <4>1, <4>2
    <3>3. ir_pc'[d] = "wait" /\ ir_handles' = ir_handles /\ ir_COUNTS' = ir_COUNTS
      BY <2>3 DEF IrqInv, IrqTypes
    <3> HIDE DEF Interrupts!Write, Interrupts!At, Interrupts!Goto
    <3> QED
      BY <3>1, <3>2, <3>3 DEF LegacyOK
  <2> QED
    BY <2>2, <2>3, Zenon
<1>8. MessageOK(d)'
  BY <1>1, <1>2, <1>3, <1>t DEF IrqInv, IrqTypes, IsrOK, IrqHandleOK, CountOK, MessageOK, Recorded,
     Interrupts!Edge
<1>11. ASSUME NEW e \in ir_Drivers PROVE DriverOK(e)'
  <2>1. CASE e = d
    BY <1>6, <1>7, <1>8, <1>10, <2>1, Zenon DEF DriverOK
  <2>2. CASE e # d
    <3>1. SameDriver(e) /\ ir_COUNTS' = ir_COUNTS
      BY <2>2 DEF SameDriver, IrqInv, IrqTypes
    <3> QED
      BY <1>1, <1>2, <1>3, <1>m, <3>1, SameDriverKeeps, Zenon
  <2> QED
    BY <2>1, <2>2, Zenon
<1> QED
  BY <1>4, <1>5, <1>9, <1>11, Zenon DEF IrqInv, DriverOK

\* The store of the acknowledged count preserves IrqInv.
LEMMA IrqStoreKeeps ==
    ASSUME Interrupts!IrqAssumption, IrqInv, NEW d \in ir_Drivers, Interrupts!Store(d)
    PROVE  IrqInv'
<1> USE DEF Interrupts!Store, Interrupts!At, Interrupts!Goto
<1>1. \A x \in ir_Cpus, j \in ir_Irqs : MessageComing(x, j)' <=> MessageComing(x, j)
  BY Zenon DEF MessageComing
<1>2. \A x \in ir_Cpus, j \in ir_Irqs : IsrCounting(x, j)' <=> IsrCounting(x, j)
  BY Zenon DEF IsrCounting
<1>3. \A x \in ir_Cpus, j \in ir_Irqs : IsrTelling(x, j)' <=> IsrTelling(x, j)
  BY Zenon DEF IsrTelling
<1>t. \A j \in ir_Irqs : Telling(j)' <=> Telling(j)
  BY <1>3, Zenon DEF Telling
<1>m. \A j \in Interrupts!Legacy : LineMasked(j)' <=> LineMasked(j)
  BY Zenon DEF LineMasked, Interrupts!Lines
<1>4. IrqTypes'
  BY DEF IrqInv, IrqTypes, DriverActive
<1>9. ASSUME NEW x \in ir_Cpus PROVE IsrOK(x)'
  BY DEF IrqInv, IsrOK
<1>10. IrqHandleOK(d)'
  BY DEF IrqInv, IrqHandleOK, DriverActive
<1>5. ASSUME NEW j \in Interrupts!Legacy PROVE LineOK(j)'
  BY <1>2, <1>m DEF Interrupts!IrqAssumption, IrqInv, IrqTypes, LineOK, Interrupts!Legacy
<1>6. CountOK(d)'
  BY DEF IrqInv, IrqTypes, CountOK, DriverActive
<1>7. LegacyOK(d)'
  BY <1>2, <1>3, <1>t, <1>m DEF Interrupts!IrqAssumption, IrqInv, IrqTypes, IrqHandleOK, LineOK,
     CountOK,
     LegacyOK, DriverActive, Interrupts!Legacy
<1>8. MessageOK(d)'
  <2>1. ir_pc'[d] = "unmask" /\ ir_handles'[d].irq = ir_handles[d].irq /\ ir_handles'[d].ack = ir_seen[d]
    BY DEF IrqInv, IrqTypes
  <2>2. d \in ir_request => ir_cpu[d] \in ir_Cpus /\ ir_handles[d].irq \in ir_Irqs
    BY DEF IrqInv, IrqTypes, IrqHandleOK
  <2>3. /\ ir_request' = ir_request /\ ir_cpu' = ir_cpu /\ ir_told' = ir_told /\ ir_COUNTS' = ir_COUNTS
        /\ ir_created' = ir_created /\ ir_missed' = ir_missed /\ ir_pc[d] = "store"
    BY Zenon
  <2> HIDE DEF Interrupts!Store
  <2> QED
    BY <1>1, <1>2, <1>3, <1>t, <2>1, <2>2, <2>3, Zenon DEF IrqInv, MessageOK, Recorded, Interrupts!Edge
<1>11. ASSUME NEW e \in ir_Drivers PROVE DriverOK(e)'
  <2>1. CASE e = d
    BY <1>6, <1>7, <1>8, <1>10, <2>1, Zenon DEF DriverOK
  <2>2. CASE e # d
    <3>1. SameDriver(e) /\ ir_COUNTS' = ir_COUNTS
      BY <2>2 DEF SameDriver, IrqInv, IrqTypes
    <3> QED
      BY <1>1, <1>2, <1>3, <1>m, <3>1, SameDriverKeeps, Zenon
  <2> QED
    BY <2>1, <2>2, Zenon
<1> QED
  BY <1>4, <1>5, <1>9, <1>11, Zenon DEF IrqInv, DriverOK

\* acknowledge(), which unmasks the line, preserves IrqInv.
LEMMA IrqAcknowledgeKeeps ==
    ASSUME Interrupts!IrqAssumption, IrqInv, NEW d \in ir_Drivers, Interrupts!acknowledge(d)
    PROVE  IrqInv'
<1> USE DEF Interrupts!acknowledge, Interrupts!At, Interrupts!Goto
<1>1. \A x \in ir_Cpus, j \in ir_Irqs : MessageComing(x, j)' <=> MessageComing(x, j)
  BY Zenon DEF MessageComing
<1>2. \A x \in ir_Cpus, j \in ir_Irqs : IsrCounting(x, j)' <=> IsrCounting(x, j)
  BY Zenon DEF IsrCounting
<1>3. \A x \in ir_Cpus, j \in ir_Irqs : IsrTelling(x, j)' <=> IsrTelling(x, j)
  BY Zenon DEF IsrTelling
<1>t. \A j \in ir_Irqs : Telling(j)' <=> Telling(j)
  BY <1>3, Zenon DEF Telling
<1>m. \A j \in Interrupts!Legacy : LineMasked(j)' => LineMasked(j) /\ j # ir_handles[d].irq
  BY Zenon DEF LineMasked, Interrupts!Lines
<1>4. IrqTypes'
  BY DEF IrqInv, IrqTypes, DriverActive
<1>9. ASSUME NEW x \in ir_Cpus PROVE IsrOK(x)'
  BY DEF IrqInv, IsrOK
<1>10. IrqHandleOK(d)'
  BY DEF IrqInv, IrqHandleOK, DriverActive
<1>5. ASSUME NEW j \in Interrupts!Legacy PROVE LineOK(j)'
  BY <1>2, <1>m DEF Interrupts!IrqAssumption, IrqInv, IrqTypes, LineOK, Interrupts!Legacy
<1>6. CountOK(d)'
  BY DEF IrqInv, CountOK, DriverActive
<1>7. LegacyOK(d)'
  BY <1>m, Zenon DEF LegacyOK
<1>8. MessageOK(d)'
  BY <1>1, <1>2, <1>3, <1>t DEF IrqInv, IrqTypes, IrqHandleOK, CountOK, MessageOK, Recorded,
     Interrupts!Edge
<1>11. ASSUME NEW e \in ir_Drivers PROVE DriverOK(e)'
  <2>1. CASE e = d
    BY <1>6, <1>7, <1>8, <1>10, <2>1, Zenon DEF DriverOK
  <2>2. CASE e # d
    <3>1. SameDriver(e) /\ ir_COUNTS' = ir_COUNTS
      BY <2>2 DEF SameDriver, IrqInv, IrqTypes
    <3> QED
      BY <1>1, <1>2, <1>3, <1>m, <3>1, SameDriverKeeps, Zenon
  <2> QED
    BY <2>1, <2>2, Zenon
<1> QED
  BY <1>4, <1>5, <1>9, <1>11, Zenon DEF IrqInv, DriverOK

\* An event that wakes the driver preserves IrqInv.
LEMMA IrqWakeKeeps ==
    ASSUME Interrupts!IrqAssumption, IrqInv, NEW d \in ir_Drivers, Interrupts!Wake(d)
    PROVE  IrqInv'
<1> USE DEF Interrupts!Wake, Interrupts!At, Interrupts!Goto
<1>1. \A x \in ir_Cpus, j \in ir_Irqs : MessageComing(x, j)' <=> MessageComing(x, j)
  BY Zenon DEF MessageComing
<1>2. \A x \in ir_Cpus, j \in ir_Irqs : IsrCounting(x, j)' <=> IsrCounting(x, j)
  BY Zenon DEF IsrCounting
<1>3. \A x \in ir_Cpus, j \in ir_Irqs : IsrTelling(x, j)' <=> IsrTelling(x, j)
  BY Zenon DEF IsrTelling
<1>t. \A j \in ir_Irqs : Telling(j)' <=> Telling(j)
  BY <1>3, Zenon DEF Telling
<1>m. \A j \in Interrupts!Legacy : LineMasked(j)' <=> LineMasked(j)
  BY Zenon DEF LineMasked, Interrupts!Lines
<1>4. IrqTypes'
  BY DEF IrqInv, IrqTypes, DriverActive
<1>9. ASSUME NEW x \in ir_Cpus PROVE IsrOK(x)'
  BY DEF IrqInv, IsrOK
<1>10. IrqHandleOK(d)'
  BY DEF IrqInv, IrqHandleOK, DriverActive
<1>5. ASSUME NEW j \in Interrupts!Legacy PROVE LineOK(j)'
  BY <1>2, <1>m DEF Interrupts!IrqAssumption, IrqInv, IrqTypes, LineOK, Interrupts!Legacy
<1>6. CountOK(d)'
  BY DEF IrqInv, CountOK, DriverActive
<1>7. LegacyOK(d)'
  <2> SUFFICES ASSUME ir_handles[d].irq \in Interrupts!Legacy, LineMasked(ir_handles[d].irq),
         ~IsrCounting(ir_BSP, ir_handles[d].irq)
               PROVE  LegacyOK(d)'
    BY <1>2, <1>m, Zenon DEF Interrupts!IrqAssumption, LegacyOK, Interrupts!Legacy
  <2>1. ir_handles[d].irq \in ir_Irqs /\ ir_BSP \in ir_Cpus
    BY Zenon DEF Interrupts!IrqAssumption, Interrupts!Legacy
  <2>2. ir_handles[d].ack < ir_COUNTS[ir_handles[d].irq]
    BY Zenon DEF IrqInv, LegacyOK, DriverActive
  <2>3. ir_pc'[d] = "read"
    BY DEF IrqInv, IrqTypes
  <2> QED
    BY <2>2, <2>3 DEF LegacyOK
<1>8. MessageOK(d)'
  BY <1>1, <1>2, <1>3, <1>t DEF IrqInv, IrqTypes, IrqHandleOK, CountOK, MessageOK, Recorded,
     Interrupts!Edge, DriverActive
<1>11. ASSUME NEW e \in ir_Drivers PROVE DriverOK(e)'
  <2>1. CASE e = d
    BY <1>6, <1>7, <1>8, <1>10, <2>1, Zenon DEF DriverOK
  <2>2. CASE e # d
    <3>1. SameDriver(e) /\ ir_COUNTS' = ir_COUNTS
      BY <2>2 DEF SameDriver, IrqInv, IrqTypes
    <3> QED
      BY <1>1, <1>2, <1>3, <1>m, <3>1, SameDriverKeeps, Zenon
  <2> QED
    BY <2>1, <2>2, Zenon
<1> QED
  BY <1>4, <1>5, <1>9, <1>11, Zenon DEF IrqInv, DriverOK

\* A legacy interrupt, whose handler masks the line, preserves IrqInv.
LEMMA IrqInterruptKeeps ==
    ASSUME Interrupts!IrqAssumption, IrqInv, NEW i \in ir_Irqs, Interrupts!Interrupt(i)
    PROVE  IrqInv'
<1> USE DEF Interrupts!Interrupt
<1>1. \A x \in ir_Cpus, j \in ir_Irqs : MessageComing(x, j)' <=> MessageComing(x, j) /\ ~(x = ir_BSP /\ j = i)
  BY Zenon DEF MessageComing
<1>2. \A x \in ir_Cpus, j \in ir_Irqs : IsrCounting(x, j)' <=> IsrCounting(x, j) \/ (x = ir_BSP /\ j = i)
  BY DEF IsrCounting, IrqInv, IrqTypes, Interrupts!Idle
<1>3. \A x \in ir_Cpus, j \in ir_Irqs : IsrTelling(x, j)' <=> IsrTelling(x, j)
  BY DEF IsrTelling, Interrupts!Idle
<1>t. \A j \in ir_Irqs : Telling(j)' <=> Telling(j)
  BY <1>3, Zenon DEF Telling
<1>m. \A j \in Interrupts!Legacy : j # i => (LineMasked(j)' <=> LineMasked(j))
  <2> SUFFICES ASSUME NEW j \in Interrupts!Legacy, j # i PROVE LineMasked(j)' <=> LineMasked(j)
    BY Zenon
  <2>1. Interrupts!Lines(i) \cap Interrupts!Lines(j) = {} /\ Interrupts!Lines(j)' = Interrupts!Lines(j)
    BY LegacyLinesApart, Zenon DEF Interrupts!Lines
  <2> QED
    BY <2>1, Zenon DEF LineMasked
<1>4. IrqTypes'
  BY DEF Interrupts!IrqAssumption, IrqInv, IrqTypes
<1>9. ASSUME NEW x \in ir_Cpus PROVE IsrOK(x)'
  BY DEF Interrupts!IrqAssumption, IrqInv, IsrOK
<1>10. ASSUME NEW e \in ir_Drivers PROVE IrqHandleOK(e)'
  BY Zenon DEF IrqInv, IrqHandleOK
<1>5. ASSUME NEW j \in Interrupts!Legacy PROVE LineOK(j)'
  BY <1>2, <1>m DEF Interrupts!IrqAssumption, IrqInv, IrqTypes, LineOK, Interrupts!Legacy
<1>6. ASSUME NEW e \in ir_Drivers PROVE CountOK(e)'
  BY Zenon DEF IrqInv, CountOK
<1>7. ASSUME NEW e \in ir_Drivers PROVE LegacyOK(e)'
  BY <1>2, <1>3, <1>t, <1>m, Zenon DEF Interrupts!IrqAssumption, IrqInv, LegacyOK, Interrupts!Legacy
<1>8. ASSUME NEW e \in ir_Drivers PROVE MessageOK(e)'
  <2> SUFFICES ASSUME Recorded(e) PROVE MessageOK(e)'
    BY Zenon DEF MessageOK, Recorded, Interrupts!Edge
  <2>1. ir_cpu[e] \in ir_Cpus /\ ir_handles[e].irq \in ir_Irqs
    BY DEF IrqInv, IrqTypes, IrqHandleOK, Recorded
  <2> QED
    BY <1>1, <1>2, <1>t, <2>1, Zenon DEF IrqInv, MessageOK
<1> QED
  BY <1>4, <1>5, <1>6, <1>7, <1>8, <1>9, <1>10, Zenon DEF IrqInv

\* The count in irq_trigger preserves IrqInv.
LEMMA IrqCountKeeps ==
    ASSUME Interrupts!IrqAssumption, IrqInv, NEW c \in ir_Cpus, Interrupts!Count(c)
    PROVE  IrqInv'
<1> USE DEF Interrupts!Count
<1>1. \A x \in ir_Cpus, j \in ir_Irqs : MessageComing(x, j)' <=> MessageComing(x, j)
  BY Zenon DEF MessageComing
<1>2. \A x \in ir_Cpus, j \in ir_Irqs : IsrCounting(x, j)' <=> IsrCounting(x, j) /\ x # c
  BY DEF IsrCounting, IrqInv, IrqTypes
<1>3. \A x \in ir_Cpus, j \in ir_Irqs : IsrTelling(x, j)' <=> IsrTelling(x,
         j) \/ (x = c /\ j = ir_isr[c].irq)
  BY DEF IsrTelling, IrqInv, IrqTypes
<1>t. \A j \in ir_Irqs : Telling(j)' <=> Telling(j) \/ j = ir_isr[c].irq
  BY <1>3, Zenon DEF Telling
<1>m. \A j \in Interrupts!Legacy : LineMasked(j)' <=> LineMasked(j)
  BY Zenon DEF LineMasked, Interrupts!Lines
<1>4. IrqTypes'
  <2>1. ir_isr[c].irq \in ir_Irqs
    BY DEF IrqInv, IrqTypes, IsrOK
  <2>2. ir_COUNTS' \in [ir_Irqs -> Nat]
    BY <2>1 DEF IrqInv, IrqTypes
  <2>3. ir_isr' \in [ir_Cpus -> [pc : {"idle", "count", "events"}, irq : ir_Irqs \cup {999}]]
    BY DEF IrqInv, IrqTypes
  <2> QED
    BY <2>2 DEF IrqInv, IrqTypes
<1>9. ASSUME NEW x \in ir_Cpus PROVE IsrOK(x)'
  BY DEF IrqInv, IsrOK
<1>10. ASSUME NEW e \in ir_Drivers PROVE IrqHandleOK(e)'
  BY Zenon DEF IrqInv, IrqHandleOK
<1>5. ASSUME NEW j \in Interrupts!Legacy PROVE LineOK(j)'
  <2>1. ir_COUNTS'[j] \in Nat /\ ir_COUNTS[j] \in Nat /\ ir_COUNTS'[j] >= ir_COUNTS[j]
    BY DEF IrqInv, IrqTypes, IsrOK, Interrupts!Legacy
  <2>2. CASE IsrCounting(ir_BSP, j) /\ c = ir_BSP
    <3>1. ir_COUNTS'[j] = ir_COUNTS[j] + 1
      BY <2>2 DEF IrqInv, IrqTypes, IsrCounting, Interrupts!Legacy
    <3> QED
      BY <2>1, <3>1 DEF LineOK
  <2>3. CASE ~(IsrCounting(ir_BSP, j) /\ c = ir_BSP)
    <3>1. LineMasked(j)' => IsrCounting(ir_BSP, j)' \/ ir_COUNTS[j] > 0
      BY <1>2, <1>m, <2>3, Zenon DEF Interrupts!IrqAssumption, IrqInv, LineOK, Interrupts!Legacy
    <3> QED
      BY <2>1, <3>1 DEF LineOK
  <2> QED
    BY <2>2, <2>3, Zenon
<1>6. ASSUME NEW e \in ir_Drivers PROVE CountOK(e)'
  BY DEF IrqInv, IrqTypes, CountOK
<1>7. ASSUME NEW e \in ir_Drivers PROVE LegacyOK(e)'
  <2> SUFFICES ASSUME ir_pc[e] \in DriverActive, ir_handles[e].irq \in Interrupts!Legacy,
         LineMasked(ir_handles[e].irq),
                      ~IsrCounting(ir_BSP, ir_handles[e].irq)'
               PROVE  LegacyOK(e)'
    BY <1>m, Zenon DEF LegacyOK
  <2>1. ir_handles[e].irq \in ir_Irqs /\ ir_BSP \in ir_Cpus
    BY Zenon DEF Interrupts!IrqAssumption, Interrupts!Legacy
  <2>2. CASE ir_handles[e].irq = ir_isr[c].irq
    <3>2. Telling(ir_handles[e].irq)'
      BY <1>t, <2>1, <2>2, Zenon
    <3>3. ir_COUNTS'[ir_handles[e].irq] = ir_COUNTS[ir_handles[e].irq] + 1
      BY <2>1, <2>2 DEF IrqInv, IrqTypes
    <3>4. ir_handles[e].ack < ir_COUNTS'[ir_handles[e].irq]
      BY <2>1, <3>3 DEF IrqInv, IrqTypes, CountOK
    <3> QED
      BY <3>2, <3>4, Zenon DEF LegacyOK
  <2>3. CASE ir_handles[e].irq # ir_isr[c].irq
    <3>1. ir_COUNTS'[ir_handles[e].irq] = ir_COUNTS[ir_handles[e].irq]
      BY <2>1, <2>3 DEF IrqInv, IrqTypes
    <3>2. ~IsrCounting(ir_BSP, ir_handles[e].irq)
      BY <1>2, <2>1, <2>3, Zenon DEF IsrCounting
    <3> QED
      BY <1>3, <1>t, <2>1, <2>3, <3>1, <3>2, Zenon DEF IrqInv, LegacyOK
  <2> QED
    BY <2>2, <2>3, Zenon
<1>8. ASSUME NEW e \in ir_Drivers PROVE MessageOK(e)'
  <2> SUFFICES ASSUME Recorded(e) PROVE MessageOK(e)'
    BY Zenon DEF MessageOK, Recorded, Interrupts!Edge
  <2>1. ir_cpu[e] \in ir_Cpus /\ ir_handles[e].irq \in ir_Irqs /\ ir_pc[e] \in DriverActive
    BY DEF IrqInv, IrqTypes, IrqHandleOK, Recorded
  <2>2. CASE ir_handles[e].irq = ir_isr[c].irq
    <3>1. Telling(ir_handles[e].irq)'
      BY <1>t, <2>1, <2>2, Zenon
    <3>2. ir_COUNTS'[ir_handles[e].irq] = ir_COUNTS[ir_handles[e].irq] + 1
      BY <2>1, <2>2 DEF IrqInv, IrqTypes
    <3>3. /\ ir_handles[e].ack < ir_COUNTS'[ir_handles[e].irq]
          /\ ir_pc[e] \in {"write", "store"} => ir_seen[e] < ir_COUNTS'[ir_handles[e].irq]
      BY <2>1, <3>2 DEF IrqInv, IrqTypes, CountOK
    <3> QED
      BY <3>1, <3>3, Zenon DEF MessageOK
  <2>3. CASE ir_handles[e].irq # ir_isr[c].irq
    <3>1. ir_COUNTS'[ir_handles[e].irq] = ir_COUNTS[ir_handles[e].irq]
      BY <2>1, <2>3 DEF IrqInv, IrqTypes
    <3>2. IsrCounting(ir_cpu[e], ir_handles[e].irq) => IsrCounting(ir_cpu[e], ir_handles[e].irq)'
      BY <1>2, <2>1, <2>3, Zenon DEF IsrCounting
    <3> QED
      BY <1>1, <1>t, <2>1, <2>3, <3>1, <3>2, Zenon DEF IrqInv, MessageOK
  <2> QED
    BY <2>2, <2>3, Zenon
<1> QED
  BY <1>4, <1>5, <1>6, <1>7, <1>8, <1>9, <1>10, Zenon DEF IrqInv

\* The events of irq_trigger preserves IrqInv.
LEMMA IrqEventsKeeps ==
    ASSUME Interrupts!IrqAssumption, IrqInv, NEW c \in ir_Cpus, Interrupts!Events(c)
    PROVE  IrqInv'
<1> USE DEF Interrupts!Events
<1>1. \A x \in ir_Cpus, j \in ir_Irqs : MessageComing(x, j)' <=> MessageComing(x, j)
  BY Zenon DEF MessageComing
<1>2. \A x \in ir_Cpus, j \in ir_Irqs : IsrCounting(x, j)' <=> IsrCounting(x, j)
  BY DEF IsrCounting, Interrupts!Idle
<1>3. \A x \in ir_Cpus, j \in ir_Irqs : IsrTelling(x, j)' <=> IsrTelling(x, j) /\ x # c
  BY DEF IsrTelling, IrqInv, IrqTypes, Interrupts!Idle
<1>t. ASSUME NEW e \in ir_Drivers, ir_pc[e] \in DriverActive, ir_handles[e].irq \in ir_Irqs, Telling(ir_handles[e].irq)
      PROVE  Telling(ir_handles[e].irq)' \/ e \in ir_told'
  <2> PICK x \in ir_Cpus : IsrTelling(x, ir_handles[e].irq)
    BY <1>t, Zenon DEF Telling
  <2>1. CASE x = c
    BY <1>t, <2>1 DEF IsrTelling, Interrupts!Handles, DriverActive
  <2>2. CASE x # c
    BY <1>3, <1>t, <2>2, Zenon DEF Telling
  <2> QED
    BY <2>1, <2>2, Zenon
<1>m. \A j \in Interrupts!Legacy : LineMasked(j)' <=> LineMasked(j)
  BY Zenon DEF LineMasked, Interrupts!Lines
<1>4. IrqTypes'
  <2>1. ir_told' \subseteq ir_Drivers
    <3>1. ir_told \subseteq ir_Drivers
      BY Zenon DEF IrqInv, IrqTypes
    <3>2. Interrupts!Handles(ir_isr[c].irq) \subseteq ir_Drivers
      BY Zenon DEF Interrupts!Handles
    <3> QED
      BY <3>1, <3>2, Zenon
  <2>2. ir_isr' \in [ir_Cpus -> [pc : {"idle", "count", "events"}, irq : ir_Irqs \cup {999}]]
    BY DEF IrqInv, IrqTypes, Interrupts!Idle
  <2> QED
    BY <2>1, <2>2 DEF IrqInv, IrqTypes
<1>9. ASSUME NEW x \in ir_Cpus PROVE IsrOK(x)'
  BY DEF Interrupts!IrqAssumption, IrqInv, IsrOK, Interrupts!Legacy, Interrupts!Idle
<1>10. ASSUME NEW e \in ir_Drivers PROVE IrqHandleOK(e)'
  BY Zenon DEF IrqInv, IrqHandleOK
<1>5. ASSUME NEW j \in Interrupts!Legacy PROVE LineOK(j)'
  BY <1>2, <1>m DEF Interrupts!IrqAssumption, IrqInv, IrqTypes, LineOK, Interrupts!Legacy
<1>6. ASSUME NEW e \in ir_Drivers PROVE CountOK(e)'
  BY Zenon DEF IrqInv, CountOK
<1>7. ASSUME NEW e \in ir_Drivers PROVE LegacyOK(e)'
  <2> SUFFICES ASSUME ir_pc[e] \in DriverActive, ir_handles[e].irq \in Interrupts!Legacy,
         LineMasked(ir_handles[e].irq),
                      ~IsrCounting(ir_BSP, ir_handles[e].irq)
               PROVE  LegacyOK(e)'
    BY <1>2, <1>m, Zenon DEF Interrupts!IrqAssumption, LegacyOK, Interrupts!Legacy
  <2>1. ir_handles[e].irq \in ir_Irqs
    BY Zenon DEF Interrupts!Legacy
  <2> QED
    BY <1>t, <2>1, Zenon DEF IrqInv, LegacyOK
<1>8. ASSUME NEW e \in ir_Drivers PROVE MessageOK(e)'
  <2> SUFFICES ASSUME Recorded(e) PROVE MessageOK(e)'
    BY Zenon DEF MessageOK, Recorded, Interrupts!Edge
  <2>1. ir_cpu[e] \in ir_Cpus /\ ir_handles[e].irq \in ir_Irqs /\ ir_pc[e] \in DriverActive
    BY DEF IrqInv, IrqTypes, IrqHandleOK, Recorded
  <2>2. e \in ir_told => e \in ir_told'
    BY Zenon
  <2> QED
    BY <1>1, <1>2, <1>t, <2>1, <2>2, Zenon DEF IrqInv, MessageOK
<1> QED
  BY <1>4, <1>5, <1>6, <1>7, <1>8, <1>9, <1>10, Zenon DEF IrqInv

\* A message-signalled interrupt preserves IrqInv.
LEMMA IrqGenericInterruptKeeps ==
    ASSUME Interrupts!IrqAssumption, IrqInv, NEW c \in ir_Cpus, NEW i \in ir_Irqs,
           Interrupts!GenericInterrupt(c, i)
    PROVE  IrqInv'
<1> USE DEF Interrupts!GenericInterrupt
<1>1. \A x \in ir_Cpus, j \in ir_Irqs : MessageComing(x, j)' <=> MessageComing(x, j) /\ ~(x = c /\ j = i)
  BY Zenon DEF MessageComing
<1>2. \A x \in ir_Cpus, j \in ir_Irqs : IsrCounting(x, j)' <=> IsrCounting(x, j) \/ (x = c /\ j = i)
  BY DEF IsrCounting, IrqInv, IrqTypes, Interrupts!Idle
<1>3. \A x \in ir_Cpus, j \in ir_Irqs : IsrTelling(x, j)' <=> IsrTelling(x, j)
  BY DEF IsrTelling, IrqInv, IrqTypes, Interrupts!Idle
<1>t. \A j \in ir_Irqs : Telling(j)' <=> Telling(j)
  BY <1>3, Zenon DEF Telling
<1>m. \A j \in Interrupts!Legacy : LineMasked(j)' <=> LineMasked(j)
  BY Zenon DEF LineMasked, Interrupts!Lines
<1>4. IrqTypes'
  BY DEF IrqInv, IrqTypes
<1>9. ASSUME NEW x \in ir_Cpus PROVE IsrOK(x)'
  BY DEF Interrupts!IrqAssumption, IrqInv, IrqTypes, IsrOK
<1>10. ASSUME NEW e \in ir_Drivers PROVE IrqHandleOK(e)'
  BY Zenon DEF IrqInv, IrqHandleOK, DriverActive
<1>5. ASSUME NEW j \in Interrupts!Legacy PROVE LineOK(j)'
  BY <1>2, <1>m DEF Interrupts!IrqAssumption, IrqInv, IrqTypes, LineOK, Interrupts!Legacy
<1>6. ASSUME NEW e \in ir_Drivers PROVE CountOK(e)'
  BY Zenon DEF IrqInv, CountOK
<1>7. ASSUME NEW e \in ir_Drivers PROVE LegacyOK(e)'
  BY <1>2, <1>3, <1>t, <1>m, Zenon DEF Interrupts!IrqAssumption, IrqInv, LegacyOK, Interrupts!Legacy
<1>8. ASSUME NEW e \in ir_Drivers PROVE MessageOK(e)'
  <2> SUFFICES ASSUME Recorded(e) PROVE MessageOK(e)'
    BY Zenon DEF MessageOK, Recorded, Interrupts!Edge
  <2>1. ir_cpu[e] \in ir_Cpus /\ ir_handles[e].irq \in ir_Irqs
    BY DEF IrqInv, IrqTypes, IrqHandleOK, Recorded
  <2> QED
    BY <1>1, <1>2, <1>t, <2>1, Zenon DEF IrqInv, MessageOK
<1> QED
  BY <1>4, <1>5, <1>6, <1>7, <1>8, <1>9, <1>10, Zenon DEF IrqInv

\* No line is masked and no handle is open.
LEMMA IrqInitially == ASSUME Interrupts!IrqAssumption, Interrupts!Init PROVE IrqInv
<1>1. IrqTypes
  BY DEF Interrupts!IrqAssumption, Interrupts!Init, IrqTypes, Interrupts!NoHandle, Interrupts!Idle
<1>2. \A c \in ir_Cpus : IsrOK(c)
  BY DEF Interrupts!Init, IsrOK, Interrupts!Idle
<1>3. \A i \in Interrupts!Legacy : LineOK(i)
  BY Zenon DEF Interrupts!Init, LineOK, LineMasked
<1>4. \A d \in ir_Drivers : IrqHandleOK(d) /\ CountOK(d) /\ LegacyOK(d) /\ MessageOK(d)
  BY Zenon DEF Interrupts!Init, IrqHandleOK, CountOK, LegacyOK, MessageOK, Recorded,
     Interrupts!Edge, DriverActive, Interrupts!NoHandle
<1> QED
  BY <1>1, <1>2, <1>3, <1>4, Zenon DEF IrqInv

\* Every step of devices, handlers and drivers preserves IrqInv.
LEMMA IrqNext == ASSUME Interrupts!IrqAssumption, IrqInv, [Interrupts!Next]_Interrupts!vars PROVE IrqInv'
<1>1. ASSUME NEW d \in ir_Drivers, NEW c \in ir_Cpus, NEW i \in ir_Irqs, Interrupts!List(d, c, i)
      PROVE  IrqInv'
  BY <1>1, IrqListKeeps, Zenon
<1>2. ASSUME NEW d \in ir_Drivers, NEW i \in ir_Irqs, Interrupts!OpenLegacy(d,
             i) \/ Interrupts!OpenStat(d, i)
      PROVE  IrqInv'
  BY <1>2, IrqOpenLegacyKeeps, IrqOpenStatKeeps, Zenon
<1>3. ASSUME NEW d \in ir_Drivers,
             Interrupts!OpenCheck(d) \/ Interrupts!OpenReserve(d) \/ Interrupts!Close(d) \/ Interrupts!Request(d)
      PROVE  IrqInv'
  BY <1>3, IrqOpenCheckKeeps, IrqOpenReserveKeeps, IrqCloseKeeps, IrqRequestKeeps, Zenon
<1>4. ASSUME NEW d \in ir_Drivers,
             Interrupts!Read(d) \/ Interrupts!Serve(d) \/ Interrupts!Write(d) \/ Interrupts!Store(d) \/ Interrupts!acknowledge(d) \/ Interrupts!Wake(d)
      PROVE  IrqInv'
  BY <1>4, IrqReadKeeps, IrqServeKeeps, IrqWriteKeeps, IrqStoreKeeps, IrqAcknowledgeKeeps, IrqWakeKeeps,
     Zenon
<1>5. ASSUME NEW i \in ir_Irqs, Interrupts!Interrupt(i) PROVE IrqInv'
  BY <1>5, IrqInterruptKeeps, Zenon
<1>6. ASSUME NEW c \in ir_Cpus,
             Interrupts!Count(c) \/ Interrupts!Events(c) \/ \E i \in ir_Irqs : Interrupts!GenericInterrupt(c, i)
      PROVE  IrqInv'
  BY <1>6, IrqCountKeeps, IrqEventsKeeps, IrqGenericInterruptKeeps, Zenon
<1>7. CASE UNCHANGED Interrupts!vars
  <2>1. IrqTypes'
    BY <1>7 DEF Interrupts!vars, IrqInv, IrqTypes
  <2>6. \A c \in ir_Cpus : IsrOK(c)'
    <3> SUFFICES ASSUME NEW c \in ir_Cpus PROVE IsrOK(c)'
      BY Zenon
    <3>1. ir_isr' = ir_isr
      BY <1>7, Zenon DEF Interrupts!vars
    <3>2. IsrOK(c)
      BY Zenon DEF IrqInv
    <3> QED
      BY <3>1, <3>2 DEF IsrOK
  <2>2. \A i \in Interrupts!Legacy : LineOK(i)'
    BY <1>7, Zenon DEF Interrupts!vars, IrqInv, LineOK, LineMasked, Interrupts!Lines, IsrCounting
  <2>3. \A d \in ir_Drivers : IrqHandleOK(d)' /\ CountOK(d)'
    BY <1>7, Zenon DEF Interrupts!vars, IrqInv, IrqHandleOK, CountOK
  <2>4. \A d \in ir_Drivers : LegacyOK(d)'
    BY <1>7, Zenon DEF Interrupts!vars, IrqInv, LegacyOK, LineMasked, Interrupts!Lines, IsrCounting,
       Telling, IsrTelling
  <2>5. \A d \in ir_Drivers : MessageOK(d)'
    BY <1>7, Zenon DEF Interrupts!vars, IrqInv, MessageOK, Recorded, Interrupts!Edge,
       MessageComing, IsrCounting,
       Telling, IsrTelling
  <2> QED
    BY <2>1, <2>2, <2>3, <2>4, <2>5, <2>6, Zenon DEF IrqInv
<1> QED
  BY <1>1, <1>2, <1>3, <1>4, <1>5, <1>6, <1>7, Zenon DEF Interrupts!Next

\* Where IrqInv holds, no interrupt is lost.
LEMMA InterruptsArrive == ASSUME Interrupts!IrqAssumption, IrqInv PROVE Interrupts!NoLostInterrupt
<1> SUFFICES ASSUME NEW d \in ir_request, ir_pc[d] = "wait", d \notin ir_told,
                    \A c \in ir_Cpus : ir_isr[c].irq # ir_handles[d].irq
             PROVE  \/ d \in ir_created /\ <<ir_cpu[d], ir_handles[d].irq>> \in ir_pending
                    \/ /\ d \notin ir_created /\ Interrupts!Lines(ir_handles[d].irq) \cap ir_masked = {}
                       /\ Interrupts!Edge(ir_handles[d].irq) =>
                             d \in ir_missed \/ <<ir_BSP, ir_handles[d].irq>> \in ir_pending
  BY Zenon DEF Interrupts!NoLostInterrupt
<1>1. d \in ir_Drivers /\ ir_BSP \in ir_Cpus /\ ir_cpu[d] \in ir_Cpus
  BY DEF Interrupts!IrqAssumption, IrqInv, IrqTypes
<1>2. Recorded(d) => <<ir_cpu[d], ir_handles[d].irq>> \in ir_pending
  BY <1>1, Zenon DEF IrqInv, MessageOK, IsrCounting, Telling, IsrTelling, MessageComing
<1>3. CASE d \in ir_created
  BY <1>1, <1>2, <1>3, Zenon DEF IrqInv, IrqHandleOK, Recorded
<1>4. CASE d \notin ir_created
  <2>1. ir_handles[d].irq \in Interrupts!Legacy /\ ir_cpu[d] = ir_BSP
    BY <1>1, <1>4, Zenon DEF IrqInv, IrqHandleOK, DriverActive
  <2>2. ~LineMasked(ir_handles[d].irq)
    BY <1>1, <2>1, Zenon DEF IrqInv, LegacyOK, IsrCounting, Telling, IsrTelling, DriverActive
  <2> QED
    BY <1>2, <1>4, <2>1, <2>2, Zenon DEF Recorded, LineMasked
<1> QED
  BY <1>3, <1>4, Zenon

\* IrqInv holds for any CPUs, interrupts and drivers, on either interrupt controller.
THEOREM IrqInvariant == ASSUME Interrupts!IrqAssumption PROVE Interrupts!Spec => []IrqInv
  BY IrqInitially, IrqNext, PTL DEF Interrupts!Spec

\* NoLostInterrupt of Irq: a device that needs service while its driver waits will make the
\* driver run, unless the controller did not record its edge; and no line stays masked with
\* nobody to unmask it.
THEOREM NoLostInterruptAlways ==
    ASSUME Interrupts!IrqAssumption
    PROVE  Interrupts!Spec => []Interrupts!NoLostInterrupt
  BY IrqInvariant, InterruptsArrive, PTL
=============================================================================
