-------------------------------- MODULE Irq --------------------------------
(***************************************************************************)
(* Interrupt requests on x86: the vectors of the interrupt tables and      *)
(* their reservations (idt.rs), the handlers and the masks of the PIC and  *)
(* of the I/O APIC (interrupt/irq.rs, pic.rs, ioapic.rs), and the irq      *)
(* scheme through which drivers get their interrupts (scheme/irq.rs).      *)
(* Drivers are external; each has one handle and one device.  A vector is  *)
(* named by its irq number, which is 32 less.                              *)
(***************************************************************************)
EXTENDS Naturals, FiniteSets

CONSTANTS
    Drivers,            \* a driver opens at most one handle, NEXT_FD never returns
    Cpus, BSP,          \* the boot processor gets all the legacy interrupts
    Irqs,               \* the irq numbers in use
    resolve,            \* the line of the I/O APIC for an irq (SRC_OVERRIDES)
    Level,              \* legacy irqs that an override, or the firmware of a PIC, makes level-triggered
    MaxCount            \* bound on COUNTS

BASE_IRQ_COUNT == 16
Legacy == {i \in Irqs : i < BASE_IRQ_COUNT}

\* There are 224 vectors from 32 on; no two legacy interrupts in use
\* share a line of the I/O APIC.
IrqAssumption ==
    /\ BSP \in Cpus /\ Irqs \subseteq 0 .. 223
    /\ resolve \in [Irqs -> Nat]
    /\ \A i, j \in Legacy : resolve[i] = resolve[j] => i = j

VARIABLES
    irq_method,         \* "pic" or "apic"
    reserved,           \* the reservations of each interrupt table
    masked,             \* masked lines of the interrupt controller
    COUNTS,             \* interrupts so far
    handles,            \* HANDLES: a driver's irq and the last count it acknowledged
    cpu,                \* the processor a driver opened its irq for
    created,            \* drivers that reserved their irq, with O_CREAT
    request,            \* drivers whose device needs service
    pending,            \* <<c, i>>: messages and recorded edges on their way to processor c
    missed,             \* drivers whose device raised an edge that was not recorded
    isr,                \* what a processor's interrupt handler does
    pc, seen,           \* what a driver does, and the count it has read
    told                \* drivers with an event for their handle

vars == <<irq_method, reserved, masked, COUNTS, handles, cpu, created, request, pending, missed, isr, pc, seen, told>>

NoHandle == [irq |-> 999, ack |-> 0]
Idle == [pc |-> "idle", irq |-> 999]

\* IPIs: Wakeup, Tlb, Switch and Pit are vectors 0x40 to 0x43.
Ipis == 32 .. 35
\* init_generic: the vectors with a handler of the kernel's own.  The legacy interrupts, the
\* timer and the error interrupt of the local APIC of the boot processor, else only the last.
KernelVectors(c) == (IF c = BSP THEN 0 .. 17 ELSE {17}) \cup Ipis

Init ==
    /\ irq_method \in {"pic", "apic"}
    /\ reserved = [c \in Cpus |-> KernelVectors(c)]
    /\ masked = {}
    /\ COUNTS = [i \in Irqs |-> 0]
    /\ handles = [d \in Drivers |-> NoHandle]
    /\ cpu = [d \in Drivers |-> BSP]
    /\ created = {} /\ request = {} /\ pending = {} /\ missed = {} /\ told = {}
    /\ isr = [c \in Cpus |-> Idle]
    /\ pc = [d \in Drivers |-> "new"]
    /\ seen = [d \in Drivers |-> 0]

\* The one processor of a machine with a PIC runs nothing else while it handles an interrupt.
CanRun == irq_method = "pic" => isr[BSP] = Idle
At(d, place) == pc[d] = place /\ CanRun
Goto(d, place) == pc' = [pc EXCEPT ![d] = place]

-----------------------------------------------------------------------------
(* Reservations of vectors, without a lock around test and set.            *)

is_reserved(c, i) == i \in reserved[c]
\* fetch_or, which does not clear a bit when the value is false.
set_reserved(c, i, value) == IF value THEN [reserved EXCEPT ![c] = @ \cup {i}] ELSE reserved
available_irqs(c) == {i \in Irqs : ~is_reserved(c, i) /\ ~(c = BSP /\ i < BASE_IRQ_COUNT)}

\* getdents of cpu-<c>: a driver chooses one of the free irqs.
List(d, c, i) ==
    /\ At(d, "new") /\ i \in available_irqs(c)
    /\ cpu' = [cpu EXCEPT ![d] = c]
    /\ handles' = [handles EXCEPT ![d].irq = i]
    /\ Goto(d, "open")
    /\ UNCHANGED <<irq_method, reserved, masked, COUNTS, created, request, pending, missed, isr, seen, told>>

\* open_ext_irq with O_CREAT: first the test, which may give EEXIST.
OpenCheck(d) ==
    /\ At(d, "open")
    /\ Goto(d, IF is_reserved(cpu[d], handles[d].irq) THEN "closed" ELSE "reserve")
    /\ UNCHANGED <<irq_method, reserved, masked, COUNTS, handles, cpu, created, request, pending, missed, isr, seen, told>>

\* Then the reservation, and the new handle.
OpenReserve(d) ==
    /\ At(d, "reserve")
    /\ reserved' = set_reserved(cpu[d], handles[d].irq, TRUE)
    /\ created' = created \cup {d}
    /\ Goto(d, "read")
    /\ UNCHANGED <<irq_method, masked, COUNTS, handles, cpu, request, pending, missed, isr, seen, told>>

\* kopen of a legacy irq, which drivers share.
OpenLegacy(d, i) ==
    /\ At(d, "new") /\ i \in Legacy
    /\ handles' = [handles EXCEPT ![d].irq = i]
    /\ Goto(d, "read")
    /\ UNCHANGED <<irq_method, reserved, masked, COUNTS, cpu, created, request, pending, missed, isr, seen, told>>

\* open_ext_irq with O_STAT: a handle, without a reservation.
OpenStat(d, i) ==
    /\ At(d, "new") /\ i \in Irqs \ Legacy
    /\ handles' = [handles EXCEPT ![d].irq = i]
    /\ Goto(d, "stat")
    /\ UNCHANGED <<irq_method, reserved, masked, COUNTS, cpu, created, request, pending, missed, isr, seen, told>>

\* close: the reservation of the boot processor is to be removed, whichever it was; the handle stays.
Close(d) ==
    /\ At(d, "stat") \/ At(d, "read") \/ At(d, "serve") \/ At(d, "write") \/ At(d, "wait")
    /\ reserved' = IF handles[d].irq > BASE_IRQ_COUNT THEN set_reserved(BSP, handles[d].irq, FALSE)
                   ELSE reserved
    /\ request' = request \ {d} /\ missed' = missed \ {d} /\ told' = told \ {d}
    /\ seen' = [seen EXCEPT ![d] = 0]
    /\ Goto(d, "closed")
    /\ UNCHANGED <<irq_method, masked, COUNTS, handles, cpu, created, pending, isr>>

-----------------------------------------------------------------------------
(* Interrupts.                                                             *)

\* The lines that mask and unmask work on: the PIC has 16, the I/O APIC 24.
Lines(i) == IF irq_method = "pic" THEN {n \in 0 .. 15 : n = i} ELSE {n \in 0 .. 23 : n = resolve[i]}

\* ioapic::init: a legacy line is edge-triggered unless an override says that it is
\* level-triggered.  A driver that has reserved a vector has a device that sends messages.
Edge(i) == i \in Legacy \ Level

Asserted(i) == \E d \in request \ created : handles[d].irq = i

\* The PIC remembers an edge of a masked line; the I/O APIC ignores it.
Accepts(i) == irq_method = "pic" \/ Lines(i) \cap masked = {}

\* What comes of the request: a message, or the edge of a line that nobody held.
Raises(d) == d \in created \/ (Edge(handles[d].irq) /\ ~Asserted(handles[d].irq) /\ Accepts(handles[d].irq))

\* A device needs service: a legacy one holds its line, others send a message.
Request(d) ==
    LET coming == <<cpu[d], handles[d].irq>> IN
    /\ pc[d] \in {"read", "serve", "write", "store", "unmask", "wait"}
    /\ d \notin request /\ request' = request \cup {d}
    /\ pending' = IF Raises(d) THEN pending \cup {coming} ELSE pending
    /\ missed' = IF Edge(handles[d].irq) /\ coming \notin pending' THEN missed \cup {d} ELSE missed
    /\ UNCHANGED <<irq_method, reserved, masked, COUNTS, handles, cpu, created, isr, pc, seen, told>>

\* trigger: the line is masked until a driver acknowledges the interrupt.
Interrupt(i) ==
    /\ i \in Legacy /\ Lines(i) \cap masked = {} /\ isr[BSP] = Idle
    /\ IF Edge(i) THEN <<BSP, i>> \in pending ELSE Asserted(i)
    /\ COUNTS[i] < MaxCount
    /\ pending' = pending \ {<<BSP, i>>}
    /\ masked' = masked \cup Lines(i)
    /\ isr' = [isr EXCEPT ![BSP] = [pc |-> "count", irq |-> i]]
    /\ UNCHANGED <<irq_method, reserved, COUNTS, handles, cpu, created, request, missed, pc, seen, told>>

\* generic_irq: nothing is masked.
GenericInterrupt(c, i) ==
    /\ <<c, i>> \in pending /\ ~(c = BSP /\ i \in Legacy) /\ isr[c] = Idle
    /\ COUNTS[i] < MaxCount
    /\ pending' = pending \ {<<c, i>>}
    /\ isr' = [isr EXCEPT ![c] = [pc |-> "count", irq |-> i]]
    /\ UNCHANGED <<irq_method, reserved, masked, COUNTS, handles, cpu, created, request, missed, pc, seen, told>>

\* irq_trigger: the count, then an event for each handle of the irq; then the end of interrupt.
Count(c) ==
    /\ isr[c].pc = "count"
    /\ COUNTS' = [COUNTS EXCEPT ![isr[c].irq] = @ + 1]
    /\ isr' = [isr EXCEPT ![c].pc = "events"]
    /\ UNCHANGED <<irq_method, reserved, masked, handles, cpu, created, request, pending, missed, pc, seen, told>>

\* Of the handles of an irq, those a driver waits for; HANDLES has the closed ones too.
Handles(i) == {d \in Drivers : handles[d].irq = i
                                 /\ pc[d] \notin {"new", "open", "reserve", "stat", "closed"}}

\* Mutant of Events: only the first handle of the interrupt gets an event.
Events_First(c) ==
    /\ isr[c].pc = "events"
    /\ told' = told \cup {d \in Handles(isr[c].irq) : \A e \in Handles(isr[c].irq) : d <= e}
    /\ isr' = [isr EXCEPT ![c] = Idle]
    /\ UNCHANGED <<irq_method, reserved, masked, COUNTS, handles, cpu, created, request, pending, missed, pc, seen>>

Events(c) ==
    /\ isr[c].pc = "events"
    /\ told' = told \cup Handles(isr[c].irq)
    /\ isr' = [isr EXCEPT ![c] = Idle]
    /\ UNCHANGED <<irq_method, reserved, masked, COUNTS, handles, cpu, created, request, pending, missed, pc, seen>>

-----------------------------------------------------------------------------
(* A driver, external but for its calls: it reads the count at the start   *)
(* and after each event, serves its device, and acknowledges the count.    *)

\* kreadoff: the count, or nothing when it was acknowledged.
Read(d) ==
    /\ At(d, "read")
    /\ IF handles[d].ack # COUNTS[handles[d].irq]
       THEN seen' = [seen EXCEPT ![d] = COUNTS[handles[d].irq]] /\ Goto(d, "serve")
       ELSE UNCHANGED seen /\ Goto(d, "wait")
    /\ UNCHANGED <<irq_method, reserved, masked, COUNTS, handles, cpu, created, request, pending, missed, isr, told>>

Serve(d) ==
    /\ At(d, "serve")
    /\ request' = request \ {d} /\ missed' = missed \ {d}
    /\ Goto(d, "write")
    /\ UNCHANGED <<irq_method, reserved, masked, COUNTS, handles, cpu, created, pending, isr, seen, told>>

\* kwrite: the count is compared first; an old one does nothing.
Write(d) ==
    /\ At(d, "write")
    /\ Goto(d, IF seen[d] = COUNTS[handles[d].irq] THEN "store" ELSE "wait")
    /\ UNCHANGED <<irq_method, reserved, masked, COUNTS, handles, cpu, created, request, pending, missed, isr, seen, told>>

Store(d) ==
    /\ At(d, "store")
    /\ handles' = [handles EXCEPT ![d].ack = seen[d]]
    /\ Goto(d, "unmask")
    /\ UNCHANGED <<irq_method, reserved, masked, COUNTS, cpu, created, request, pending, missed, isr, seen, told>>

acknowledge(d) ==
    /\ At(d, "unmask")
    /\ masked' = masked \ Lines(handles[d].irq)
    /\ Goto(d, "wait")
    /\ UNCHANGED <<irq_method, reserved, COUNTS, handles, cpu, created, request, pending, missed, isr, seen, told>>

Wake(d) ==
    /\ At(d, "wait") /\ d \in told
    /\ told' = told \ {d}
    /\ Goto(d, "read")
    /\ UNCHANGED <<irq_method, reserved, masked, COUNTS, handles, cpu, created, request, pending, missed, isr, seen>>

-----------------------------------------------------------------------------
Next ==
    \/ \E d \in Drivers :
        \/ \E c \in Cpus, i \in Irqs : List(d, c, i)
        \/ \E i \in Irqs : OpenLegacy(d, i) \/ OpenStat(d, i)
        \/ OpenCheck(d) \/ OpenReserve(d) \/ Close(d) \/ Request(d)
        \/ Read(d) \/ Serve(d) \/ Write(d) \/ Store(d) \/ acknowledge(d) \/ Wake(d)
    \/ \E i \in Irqs : Interrupt(i)
    \/ \E c \in Cpus : Count(c) \/ Events(c) \/ \E i \in Irqs : GenericInterrupt(c, i)

Spec == Init /\ [][Next]_vars

-----------------------------------------------------------------------------
(* Properties.                                                             *)

\* No interrupt is lost by the kernel: a device that needs service while its driver waits
\* will make the driver run.  An event is there, or a handler is at work, or the interrupt
\* is yet to come: its message is on its way, or its line is not masked and is held or has an
\* edge recorded.  In particular no line stays masked with nobody to unmask it, whatever order
\* handlers and drivers that share it take.  An edge that the controller did not record is
\* lost (missed): trigger masks a line until it is acknowledged, and meanwhile the I/O APIC
\* ignores the edges of a line that init made edge-triggered; nor does a second device
\* make an edge on a line that is held.  Such a driver waits with its line unmasked.
NoLostInterrupt ==
    \A d \in request : pc[d] = "wait" =>
        \/ d \in told
        \/ \E c \in Cpus : isr[c].irq = handles[d].irq
        \/ d \in created /\ <<cpu[d], handles[d].irq>> \in pending
        \/ /\ d \notin created /\ Lines(handles[d].irq) \cap masked = {}
           /\ Edge(handles[d].irq) => d \in missed \/ <<BSP, handles[d].irq>> \in pending

=============================================================================
