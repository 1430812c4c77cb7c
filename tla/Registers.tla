----------------------------- MODULE Registers -----------------------------
(***************************************************************************)
(* Where the registers of a context are while it runs and while it does    *)
(* not (context/arch, the interrupt entry code and the proc scheme's       *)
(* "regs" files).  User registers are pushed on the kernel stack by every  *)
(* entry and popped by the return; switch_to exchanges the callee-saved    *)
(* registers, the thread pointer and the float registers with the fields   *)
(* of the two contexts, in a way of its own on every architecture; the     *)
(* proc scheme writes the copies of a context that is stopped, and the     *)
(* registers themselves for the caller.                                    *)
(*                                                                         *)
(* The registers are five: gp (what an interrupt pushes), env (FSBASE and  *)
(* GSBASE, TPIDR_EL0, tp), fp (the float registers), io (the I/O bitmap of *)
(* the TSS) and k (the kernel stack in use, with the callee-saved          *)
(* registers).  A kernel stack is named after its context.  arch never     *)
(* changes; "fsgsbase" is x86_64 on a CPU that has that feature.           *)
(***************************************************************************)
EXTENDS Naturals

CONSTANTS Cpus,      \* CPUs; each also names the kmain context it starts with
          Users,     \* the contexts with a kernel stack and a user mode
          Values     \* what a register can hold, 0 included

VARIABLES arch,      \* the architecture of this kernel
          current,   \* the context every CPU runs
          mode,      \* "user" or "kernel", per CPU
          reg,       \* the registers of every CPU; stack: the stack the next entry uses
          kstack,    \* the InterruptStack at the top of every kernel stack
          saved,     \* context.arch and context.kfx
          loadable,  \* arch.fx_loadable (aarch64)
          mine,      \* what every context last put in its registers
          panicked

vars == <<arch, current, mode, reg, kstack, saved, loadable, mine, panicked>>

(* A kmain context is not the context of a user program. *)
RegistersAssumption == Users \cap Cpus = {}

Contexts == Users \cup Cpus
X86 == {"x86_64", "fsgsbase", "x86"}
Archs == X86 \cup {"aarch64", "riscv64"}

(* Float registers nobody has defined: a new aarch64 context has no copy to load. *)
Undefined == 99

(* A context as Context::new and setup_initial_call leave it. *)
NewContext(c) == [k |-> c, env |-> 0, fp |-> 0, io |-> FALSE]

Init ==
  /\ arch \in Archs
  /\ current = [p \in Cpus |-> p]
  /\ mode = [p \in Cpus |-> "kernel"]
  /\ reg = [p \in Cpus |-> [k |-> p, gp |-> 0, env |-> 0, fp |-> 0, io |-> FALSE, stack |-> p]]
  /\ kstack = [c \in Contexts |-> [gp |-> 0, tp |-> 0]]
  /\ saved = [c \in Contexts |-> NewContext(c)]
  /\ loadable = [c \in Contexts |-> FALSE]
  /\ mine = [c \in Contexts |-> [gp |-> 0, env |-> 0, io |-> FALSE,
                                 fp |-> IF arch \in X86 THEN 0 ELSE Undefined]]
  /\ panicked = FALSE

Running(c) == \E p \in Cpus : current[p] = c

-----------------------------------------------------------------------------
(* User mode *)

(* What user code can write without the kernel. *)
Direct == {"gp", "fp"} \cup IF arch \in {"fsgsbase", "aarch64", "riscv64"} THEN {"env"} ELSE {}

UserSets(p, r, v) ==
  /\ mode[p] = "user" /\ r \in Direct
  /\ reg' = [reg EXCEPT ![p][r] = v]
  /\ mine' = [mine EXCEPT ![current[p]][r] = v]
  /\ UNCHANGED <<arch, current, mode, kstack, saved, loadable, panicked>>

(* An interrupt, exception or system call in user mode: the processor (or the  *)
(* entry code) takes the kernel stack of the TSS, of SP_EL1 or of the per-CPU  *)
(* area, and the entry code pushes the user's registers there.  The kernel     *)
(* then uses the general registers for itself.                                 *)
PushX86_64(p) == /\ kstack' = [kstack EXCEPT ![reg[p].stack].gp = reg[p].gp]
                 /\ reg' = [reg EXCEPT ![p].k = reg[p].stack, ![p].gp = 0]

PushX86(p) == /\ kstack' = [kstack EXCEPT ![reg[p].stack].gp = reg[p].gp]
              /\ reg' = [reg EXCEPT ![p].k = reg[p].stack, ![p].gp = 0]

PushAarch64(p) == /\ kstack' = [kstack EXCEPT ![reg[p].k].gp = reg[p].gp]
                  /\ reg' = [reg EXCEPT ![p].gp = 0]

PushRiscv(p) == /\ kstack' = [kstack EXCEPT ![reg[p].stack] = [gp |-> reg[p].gp, tp |-> reg[p].env]]
                /\ reg' = [reg EXCEPT ![p].k = reg[p].stack, ![p].gp = 0, ![p].env = 0]

Enter(p) ==
  /\ mode[p] = "user"
  /\ mode' = [mode EXCEPT ![p] = "kernel"]
  /\ \/ arch \in {"x86_64", "fsgsbase"} /\ PushX86_64(p)
     \/ arch = "x86" /\ PushX86(p)
     \/ arch = "aarch64" /\ PushAarch64(p)
     \/ arch = "riscv64" /\ PushRiscv(p)
  /\ UNCHANGED <<arch, current, saved, loadable, mine, panicked>>

(* Return to user mode, also the first one of a new context (enter_usermode). *)
(* Only riscv64 notes here which stack the next entry has to use.             *)
PopX86_64(p) == reg' = [reg EXCEPT ![p].gp = kstack[reg[p].k].gp]

PopX86(p) == reg' = [reg EXCEPT ![p].gp = kstack[reg[p].k].gp]

PopAarch64(p) == reg' = [reg EXCEPT ![p].gp = kstack[reg[p].k].gp]

PopRiscv(p) == reg' = [reg EXCEPT ![p].gp = kstack[reg[p].k].gp, ![p].env = kstack[reg[p].k].tp,
                                  ![p].stack = reg[p].k]

Return(p) ==
  /\ mode[p] = "kernel" /\ current[p] \in Users
  /\ mode' = [mode EXCEPT ![p] = "user"]
  /\ \/ arch \in {"x86_64", "fsgsbase"} /\ PopX86_64(p)
     \/ arch = "x86" /\ PopX86(p)
     \/ arch = "aarch64" /\ PopAarch64(p)
     \/ arch = "riscv64" /\ PopRiscv(p)
  /\ UNCHANGED <<arch, current, kstack, saved, loadable, mine, panicked>>

-----------------------------------------------------------------------------
(* switch_to of every architecture, prev being the context the CPU runs *)

(* gdt::set_tss_stack, which a context without kernel stack leaves alone. *)
TssStack(p, next) == IF next \in Users THEN next ELSE reg[p].stack

(* Without fsgsbase the base registers are loaded and not saved: they are      *)
(* written through the kernel only, which keeps context.arch equal to them.    *)
SwitchX86_64(p, prev, next) ==
  LET fast == arch = "fsgsbase"
  IN /\ saved' = [saved EXCEPT ![prev].fp = reg[p].fp, ![prev].k = reg[p].k,
                               ![prev].env = IF fast THEN reg[p].env ELSE @]
     /\ reg' = [reg EXCEPT ![p].stack = TssStack(p, next), ![p].io = saved[next].io,
                           ![p].fp = saved[next].fp, ![p].env = saved[next].env,
                           ![p].k = saved[next].k]
     /\ UNCHANGED loadable

SwitchX86(p, prev, next) ==
  /\ saved' = [saved EXCEPT ![prev].fp = reg[p].fp, ![prev].k = reg[p].k, ![prev].env = reg[p].env]
  /\ reg' = [reg EXCEPT ![p].stack = TssStack(p, next), ![p].io = saved[next].io,
                        ![p].fp = saved[next].fp, ![p].env = saved[next].env, ![p].k = saved[next].k]
  /\ UNCHANGED loadable

\* Mutant of SwitchAarch64: the switch does not load the floating-point registers.
SwitchAarch64_KeepsFloats(p, prev, next) ==
  /\ saved' = [saved EXCEPT ![prev].fp = reg[p].fp, ![prev].k = reg[p].k, ![prev].env = reg[p].env]
  /\ loadable' = [loadable EXCEPT ![prev] = TRUE]
  /\ reg' = [reg EXCEPT ![p].env = saved[next].env, ![p].k = saved[next].k]

(* fp_save notes that there is something to load, and fp_load is called only then. *)
fp_save(p, prev) == loadable' = [loadable EXCEPT ![prev] = TRUE]
fp_load(p, next) == IF loadable[next] THEN saved[next].fp ELSE reg[p].fp

SwitchAarch64(p, prev, next) ==
  /\ saved' = [saved EXCEPT ![prev].fp = reg[p].fp, ![prev].k = reg[p].k, ![prev].env = reg[p].env]
  /\ fp_save(p, prev)
  /\ reg' = [reg EXCEPT ![p].fp = fp_load(p, next), ![p].env = saved[next].env, ![p].k = saved[next].k]

(* "FIXME floating point"; tp stays the kernel's, the user's is on the stack. *)
SwitchRiscv(p, prev, next) ==
  /\ saved' = [saved EXCEPT ![prev].k = reg[p].k]
  /\ reg' = [reg EXCEPT ![p].k = saved[next].k]
  /\ UNCHANGED loadable

SwitchTo(p, next) ==
  /\ mode[p] = "kernel" /\ ~Running(next) /\ (next \in Users \/ next = p)
  /\ current' = [current EXCEPT ![p] = next]
  /\ \/ arch \in {"x86_64", "fsgsbase"} /\ SwitchX86_64(p, current[p], next)
     \/ arch = "x86" /\ SwitchX86(p, current[p], next)
     \/ arch = "aarch64" /\ SwitchAarch64(p, current[p], next)
     \/ arch = "riscv64" /\ SwitchRiscv(p, current[p], next)
  /\ UNCHANGED <<arch, mode, kstack, mine, panicked>>

-----------------------------------------------------------------------------
(* The proc scheme's register files, and the Iopl verb *)

Accesses(p, c) == mode[p] = "kernel" /\ current[p] \in Users /\ c \in Users

(* write_env_regs: the copy that the next switch to the context loads; riscv64 has *)
(* it in the interrupt stack.                                                      *)
SetEnvX86_64(c, v) == saved' = [saved EXCEPT ![c].env = v] /\ UNCHANGED kstack
SetEnvX86(c, v) == saved' = [saved EXCEPT ![c].env = v] /\ UNCHANGED kstack
SetEnvAarch64(c, v) == saved' = [saved EXCEPT ![c].env = v] /\ UNCHANGED kstack
SetEnvRiscv(c, v) == kstack' = [kstack EXCEPT ![c].tp = v] /\ UNCHANGED saved

(* write_current_env_regs, for a handle of the caller's own context. *)
OwnEnvX86_64(p, c, v) == reg' = [reg EXCEPT ![p].env = v] /\ SetEnvX86_64(c, v)
OwnEnvX86(p, c, v) == reg' = [reg EXCEPT ![p].env = v] /\ SetEnvX86(c, v)
OwnEnvAarch64(p, c, v) == reg' = [reg EXCEPT ![p].env = v] /\ UNCHANGED <<saved, kstack>>
OwnEnvRiscv(p, c, v) == UNCHANGED reg /\ SetEnvRiscv(c, v)

WriteOwnEnv(p, v) ==
  /\ Accesses(p, current[p])
  /\ \/ arch \in {"x86_64", "fsgsbase"} /\ OwnEnvX86_64(p, current[p], v)
     \/ arch = "x86" /\ OwnEnvX86(p, current[p], v)
     \/ arch = "aarch64" /\ OwnEnvAarch64(p, current[p], v)
     \/ arch = "riscv64" /\ OwnEnvRiscv(p, current[p], v)
  /\ mine' = [mine EXCEPT ![current[p]].env = v]
  /\ UNCHANGED <<arch, current, mode, loadable, panicked>>

(* Inside try_stop_context: the context is on no CPU. *)
WriteEnv(p, c, v) ==
  /\ Accesses(p, c) /\ ~Running(c)
  /\ \/ arch \in {"x86_64", "fsgsbase"} /\ SetEnvX86_64(c, v)
     \/ arch = "x86" /\ SetEnvX86(c, v)
     \/ arch = "aarch64" /\ SetEnvAarch64(c, v)
     \/ arch = "riscv64" /\ SetEnvRiscv(c, v)
  /\ mine' = [mine EXCEPT ![c].env = v]
  /\ UNCHANGED <<arch, current, mode, reg, loadable, panicked>>

(* InterruptStack::load into the copy on the kernel stack, for a stopped *)
(* context or for the caller, whose return will pop it.                  *)
WriteInt(p, c, v) ==
  /\ Accesses(p, c) /\ (c = current[p] \/ ~Running(c))
  /\ kstack' = [kstack EXCEPT ![c].gp = v]
  /\ mine' = [mine EXCEPT ![c].gp = v]
  /\ UNCHANGED <<arch, current, mode, reg, saved, loadable, panicked>>

(* set_fx_regs writes kfx.  For the caller itself that is overwritten at its   *)
(* next switch: the write is lost, and mine keeps what the registers hold.     *)
SetFxX86(c, v) == saved' = [saved EXCEPT ![c].fp = v] /\ UNCHANGED panicked

SetFxAarch64(c, v) ==
  \/ loadable[c] /\ saved' = [saved EXCEPT ![c].fp = v] /\ UNCHANGED panicked
  \/ ~loadable[c] /\ panicked' = TRUE /\ UNCHANGED saved

SetFxRiscv(c, v) == panicked' = TRUE /\ UNCHANGED saved

WriteFloat(p, c, v) ==
  /\ Accesses(p, c) /\ (c = current[p] \/ ~Running(c))
  /\ \/ arch \in X86 /\ SetFxX86(c, v)
     \/ arch = "aarch64" /\ SetFxAarch64(c, v)
     \/ arch = "riscv64" /\ SetFxRiscv(c, v)
  /\ mine' = IF Running(c) \/ panicked' THEN mine ELSE [mine EXCEPT ![c].fp = v]
  /\ UNCHANGED <<arch, current, mode, reg, kstack, loadable>>

(* kcall Iopl: set_userspace_io_allowed for the caller; only x86 has the bitmap. *)
Iopl(p) ==
  /\ Accesses(p, current[p]) /\ arch \in X86
  /\ saved' = [saved EXCEPT ![current[p]].io = TRUE]
  /\ reg' = [reg EXCEPT ![p].io = TRUE]
  /\ mine' = [mine EXCEPT ![current[p]].io = TRUE]
  /\ UNCHANGED <<arch, current, mode, kstack, loadable, panicked>>

Next ==
  \/ \E p \in Cpus, r \in {"gp", "env", "fp"}, v \in Values : ~panicked /\ UserSets(p, r, v)
  \/ \E p \in Cpus : ~panicked /\ Enter(p)
  \/ \E p \in Cpus : ~panicked /\ Return(p)
  \/ \E p \in Cpus, c \in Contexts : ~panicked /\ SwitchTo(p, c)
  \/ \E p \in Cpus, v \in Values : ~panicked /\ WriteOwnEnv(p, v)
  \/ \E p \in Cpus, c \in Users, v \in Values : ~panicked /\ WriteEnv(p, c, v)
  \/ \E p \in Cpus, c \in Users, v \in Values : ~panicked /\ WriteInt(p, c, v)
  \/ \E p \in Cpus, c \in Users, v \in Values : ~panicked /\ WriteFloat(p, c, v)
  \/ \E p \in Cpus : ~panicked /\ Iopl(p)

Spec == Init /\ [][Next]_vars

-----------------------------------------------------------------------------

(* Where the thread pointer of a context in the kernel is, and of one on no CPU. *)
EnvInKernel(p, c) == IF arch = "riscv64" THEN kstack[c].tp ELSE reg[p].env
EnvStopped(c) == IF arch = "riscv64" THEN kstack[c].tp ELSE saved[c].env

Floats(c) == arch # "riscv64" /\ mine[c].fp # Undefined

(* Whatever entries, switches, migrations and register writes came before, a   *)
(* context that runs finds its own values in every register, its own kernel    *)
(* stack under it and ready for its next entry, and its own I/O permission;    *)
(* and the copies of a context on no CPU, which the proc scheme reads, are the *)
(* values it had.  (switch_to, the entry code and the regs files; the float    *)
(* registers of riscv64, which nothing saves, and those an aarch64 context     *)
(* never wrote are left out.)                                                  *)
RegistersAreOwn ==
  /\ \A p \in Cpus :
       LET c == current[p]
       IN /\ reg[p].k = c
          /\ arch \in X86 => reg[p].io = mine[c].io
          /\ arch \in X86 /\ c \in Users => reg[p].stack = c
          /\ Floats(c) => reg[p].fp = mine[c].fp
          /\ mode[p] = "user" => reg[p].gp = mine[c].gp /\ reg[p].env = mine[c].env
          /\ mode[p] = "kernel" /\ c \in Users => /\ kstack[c].gp = mine[c].gp
                                                  /\ EnvInKernel(p, c) = mine[c].env
  /\ \A c \in Users :
       ~Running(c) => /\ kstack[c].gp = mine[c].gp
                      /\ EnvStopped(c) = mine[c].env
                      /\ saved[c].io = mine[c].io
                      /\ Floats(c) => saved[c].fp = mine[c].fp

=============================================================================
