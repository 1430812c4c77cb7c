------------------------------- MODULE Startup -------------------------------
(***************************************************************************)
(* How the boot processor starts the others (acpi/madt/arch/x86.rs and     *)
(* aarch64.rs, arch/*/start.rs, kmain and kmain_ap).  For every processor  *)
(* of the table the boot processor fills a KernelArgsAp on its own stack,  *)
(* clears AP_READY, starts the processor and waits for AP_READY: without   *)
(* limit on x86, for a bounded number of rounds on aarch64.  On x86 the    *)
(* started processor copies what it needs from the arguments, sets         *)
(* AP_READY and waits for BSP_READY before it enters the scheduler.        *)
(*                                                                         *)
(* On aarch64 no started processor comes that far.  PSCI is given the      *)
(* kernel's virtual addresses of kstart_ap and of the arguments.  A        *)
(* processor begins with its MMU off and faults at the first; were it on,  *)
(* kstart_ap would take the second for a physical address, add PHYS_OFFSET *)
(* to it and fault at the sum.                                             *)
(*                                                                         *)
(* The arguments of one round are overwritten by those of the next, and    *)
(* are dead memory after the last.  platform and bsp never change.         *)
(***************************************************************************)
EXTENDS Naturals, FiniteSets

CONSTANTS Hw,          \* the hardware numbers of the processors, 0 .. n
          Disabled,    \* processors whose table entry has the enabled flag clear
          Bsps,        \* which processor may be the boot processor
          None

VARIABLES platform,    \* "x86", "madt" (aarch64 with ACPI) or "dtb" (aarch64)
          bsp,         \* the boot processor
          pc,          \* what every processor does
          next,        \* the table entry that the boot processor looks at next
          CPU_COUNT, ap_count, args, AP_READY, BSP_READY,
          id,          \* the cpu_id in the PercpuBlock of a processor
          stack,       \* the stack it runs on, named after the round that allocated it
          known,       \* the cpu_id that a processor hands to kmain_ap
          lock         \* CONTEXT_SWITCH_LOCK: its holder

vars == <<platform, bsp, pc, next, CPU_COUNT, ap_count, args, AP_READY, BSP_READY, id, stack,
          known, lock>>

(* The numbers are those of the table, and none of them, nor the number of any     *)
(* round, is None.                                                                 *)
StartupAssumption ==
  /\ Cardinality(Hw) \in Nat /\ Hw = 0 .. Cardinality(Hw) - 1
  /\ Bsps \subseteq Hw
  /\ None \notin 0 .. Cardinality(Hw)

NoArgs == [id |-> None, stack |-> None]

Init ==
  /\ platform \in {"x86", "madt", "dtb"} /\ bsp \in Bsps
  /\ pc = [c \in Hw |-> IF c = bsp THEN "loop" ELSE "off"]
  /\ next = 0
  /\ CPU_COUNT = CASE platform = "x86" -> 1
                   [] platform = "madt" -> Cardinality(Hw)
                   [] platform = "dtb" -> Cardinality(Hw \ Disabled)
  /\ ap_count = 0
  /\ args = NoArgs /\ AP_READY = FALSE /\ BSP_READY = FALSE
  /\ id = [c \in Hw |-> IF c = bsp THEN 0 ELSE None]
  /\ stack = [c \in Hw |-> None]
  /\ known = [c \in Hw |-> None]
  /\ lock = None

Goto(c, l) == pc' = [pc EXCEPT ![c] = l]

-----------------------------------------------------------------------------
(* The boot processor *)

(* The tables of ACPI list every processor.  With a device tree the loop counts up *)
(* to the number of enabled ones, and does not begin if that is one.               *)
Entries == IF platform = "dtb" THEN {c \in Hw : c < CPU_COUNT /\ CPU_COUNT > 1} ELSE Hw

(* It has no enabled flags either. *)
Starts(c) == c # bsp /\ (platform = "dtb" \/ c \notin Disabled)

Skip ==
  /\ pc[bsp] = "loop" /\ next \in Entries /\ ~Starts(next)
  /\ next' = next + 1
  /\ UNCHANGED <<platform, bsp, pc, CPU_COUNT, ap_count, args, AP_READY, BSP_READY, id, stack, known, lock>>

(* LogicalCpuId::next, ap_count + 1, or the number itself. *)
NewId(c) == CASE platform = "x86" -> CPU_COUNT
              [] platform = "madt" -> ap_count + 1
              [] platform = "dtb" -> c

(* x86: stack, PCR and IDT, the arguments, then the INIT and START interrupts. *)
StartX86 ==
  /\ platform = "x86" /\ pc[bsp] = "loop" /\ next \in Entries /\ Starts(next)
  /\ CPU_COUNT' = CPU_COUNT + 1
  /\ args' = [id |-> NewId(next), stack |-> next]
  /\ AP_READY' = FALSE
  /\ pc' = [pc EXCEPT ![bsp] = "wait", ![next] = "boot"]
  /\ UNCHANGED <<platform, bsp, next, ap_count, BSP_READY, id, stack, known, lock>>

(* aarch64: stack, arguments, and the PSCI call CPU_ON, which succeeds or not. *)
PsciOn(count) ==
  /\ pc[bsp] = "loop" /\ next \in Entries /\ Starts(next)
  /\ args' = [id |-> NewId(next), stack |-> next]
  /\ AP_READY' = FALSE
  /\ \/ /\ next \notin Disabled
        /\ pc' = [pc EXCEPT ![bsp] = "wait", ![next] = "boot"]
        /\ UNCHANGED <<next, ap_count>>
     \/ /\ next' = next + 1
        /\ ap_count' = count
        /\ UNCHANGED pc
  /\ UNCHANGED <<platform, bsp, CPU_COUNT, BSP_READY, id, stack, known, lock>>

(* start_secondary_cpus counts the processors that fail to start, the other does not. *)
CpuOn == platform = "madt" /\ PsciOn(ap_count + 1)
CpuOnDtb == platform = "dtb" /\ PsciOn(ap_count)

Counted == ap_count' = IF platform = "x86" THEN ap_count ELSE ap_count + 1

\* Mutant of SeesReady: the boot processor does not wait for the flag.
SeesReady_Early ==
  /\ pc[bsp] = "wait"
  /\ Goto(bsp, "loop") /\ next' = next + 1 /\ Counted
  /\ UNCHANGED <<platform, bsp, CPU_COUNT, args, AP_READY, BSP_READY, id, stack, known, lock>>

SeesReady ==
  /\ pc[bsp] = "wait" /\ AP_READY
  /\ Goto(bsp, "loop") /\ next' = next + 1 /\ Counted
  /\ UNCHANGED <<platform, bsp, CPU_COUNT, args, AP_READY, BSP_READY, id, stack, known, lock>>

(* aarch64: timeout reaches 0, which is how every wait there ends. *)
Timeout ==
  /\ platform # "x86" /\ pc[bsp] = "wait" /\ ~AP_READY
  /\ Goto(bsp, "loop") /\ next' = next + 1 /\ Counted
  /\ UNCHANGED <<platform, bsp, CPU_COUNT, args, AP_READY, BSP_READY, id, stack, known, lock>>

(* All are started: the frame of the loop is gone, and BSP_READY is set. *)
BspReady ==
  /\ pc[bsp] = "loop" /\ next \notin Entries
  /\ Goto(bsp, "kmain")
  /\ BSP_READY' = TRUE
  /\ args' \in {args, NoArgs}
  /\ UNCHANGED <<platform, bsp, next, CPU_COUNT, ap_count, AP_READY, id, stack, known, lock>>

(* kmain: context::init gives this processor its current and its idle context. *)
Kmain ==
  /\ pc[bsp] = "kmain"
  /\ Goto(bsp, "schedule")
  /\ UNCHANGED <<platform, bsp, next, CPU_COUNT, ap_count, args, AP_READY, BSP_READY, id, stack, known, lock>>

-----------------------------------------------------------------------------
(* A started processor *)

(* The trampoline and start_ap: stack and PCR are taken from the arguments as they *)
(* are now.                                                                        *)
TakesArgs(c) ==
  /\ platform = "x86" /\ pc[c] = "boot"
  /\ Goto(c, "init")
  /\ id' = [id EXCEPT ![c] = args.id]
  /\ stack' = [stack EXCEPT ![c] = args.stack]
  /\ UNCHANGED <<platform, bsp, next, CPU_COUNT, ap_count, args, AP_READY, BSP_READY, known, lock>>

(* aarch64: the processor faults before it has read its arguments. *)
kstart_ap(c) ==
  /\ platform # "x86" /\ pc[c] = "boot"
  /\ Goto(c, "astray")
  /\ UNCHANGED <<platform, bsp, next, CPU_COUNT, ap_count, args, AP_READY, BSP_READY, id, stack, known, lock>>

Signals(c) ==
  /\ pc[c] = "init"
  /\ Goto(c, "cpu_id")
  /\ AP_READY' = TRUE
  /\ UNCHANGED <<platform, bsp, next, CPU_COUNT, ap_count, args, BSP_READY, id, stack, known, lock>>

(* start_ap reads args.cpu_id, the value of the block, after it has set AP_READY. *)
ReadsId(c) ==
  /\ pc[c] = "cpu_id"
  /\ Goto(c, "spin")
  /\ known' = [known EXCEPT ![c] = args.id]
  /\ UNCHANGED <<platform, bsp, next, CPU_COUNT, ap_count, args, AP_READY, BSP_READY, id, stack, lock>>

KmainAp(c) ==
  /\ pc[c] = "spin" /\ BSP_READY
  /\ Goto(c, "schedule")
  /\ UNCHANGED <<platform, bsp, next, CPU_COUNT, ap_count, args, AP_READY, BSP_READY, id, stack, known, lock>>

-----------------------------------------------------------------------------
(* run_userspace *)

TakeLock(c) ==
  /\ pc[c] = "schedule" /\ lock = None
  /\ lock' = c
  /\ Goto(c, "switch")
  /\ UNCHANGED <<platform, bsp, next, CPU_COUNT, ap_count, args, AP_READY, BSP_READY, id, stack, known>>

(* Only kmain has called context::init: context::current() fails on any other      *)
(* processor, "not inside of context", and the panic handler halts it as it is.    *)
Switch(c) ==
  /\ pc[c] = "switch"
  /\ \/ c = bsp /\ Goto(c, "schedule") /\ lock' = None
     \/ c # bsp /\ Goto(c, "halted") /\ UNCHANGED lock
  /\ UNCHANGED <<platform, bsp, next, CPU_COUNT, ap_count, args, AP_READY, BSP_READY, id, stack, known>>

Next ==
  \/ Skip
  \/ StartX86
  \/ CpuOn
  \/ CpuOnDtb
  \/ SeesReady
  \/ Timeout
  \/ BspReady
  \/ Kmain
  \/ \E c \in Hw : TakesArgs(c)
  \/ \E c \in Hw : kstart_ap(c)
  \/ \E c \in Hw : Signals(c)
  \/ \E c \in Hw : ReadsId(c)
  \/ \E c \in Hw : KmainAp(c)
  \/ \E c \in Hw : TakeLock(c)
  \/ \E c \in Hw : Switch(c)

Spec == Init /\ [][Next]_vars

-----------------------------------------------------------------------------

Up == {c \in Hw : pc[c] \notin {"off", "boot", "astray"}}

(* No two processors run with the same cpu_id or on the same stack, and none runs  *)
(* before its arguments are there (the handshake of madt init and start_ap).  Of   *)
(* an aarch64 machine it says little, as only the boot processor comes up.         *)
ProcessorsAreDistinct ==
    /\ \A c, d \in Up : c # d => id[c] # id[d] /\ stack[c] # stack[d]
    /\ \A c \in Up : id[c] # None

(* Nobody schedules while the boot processor still sets up another one: it is past *)
(* its table (BSP_READY), and on x86 none is half started.                         *)
NobodySchedulesEarly ==
  \A c \in Hw : pc[c] \in {"schedule", "switch", "halted"} =>
    /\ pc[bsp] \notin {"loop", "wait"}
    /\ platform = "x86" => \A d \in Hw : pc[d] \notin {"boot", "init"}

(* "Enter the scheduler loop - contexts will be scheduled on this CPU" (kmain_ap): *)
(* no processor halts in the scheduler, where it would keep the switch lock.       *)
ContextsAreScheduled == \A c \in Hw : pc[c] # "halted"
=============================================================================
