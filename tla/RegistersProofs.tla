--------------------------- MODULE RegistersProofs ---------------------------
(***************************************************************************)
(* A context finds its own registers, on every architecture: proof of      *)
(* RegistersAreOwn for any number of CPUs, contexts and register values.   *)
(* Then Startup (instance Processors): the handshake over AP_READY lets one *)
(* processor at a time between its start and its copy of the arguments, so *)
(* that they are its own.  And Sleep (instance Sleeping): a FUTEX_WAKE     *)
(* reaches everybody who waits.                                            *)
(***************************************************************************)
EXTENDS Registers, Sequences, WellFoundedInduction, TLAPS

(* What a register can hold. *)
All == Values \cup {0, Undefined}

(* The records of a CPU, of a kernel stack and of a context, and the values it gave. *)
RegSet == [k : Contexts, gp : All, env : All, fp : All, io : BOOLEAN, stack : Contexts]
KstackSet == [gp : All, tp : All]
SavedSet == [k : Contexts, env : All, fp : All, io : BOOLEAN]
MineSet == [gp : All, env : All, io : BOOLEAN, fp : All]

(* The type invariant. *)
TypeOK ==
  /\ arch \in Archs
  /\ current \in [Cpus -> Contexts]
  /\ mode \in [Cpus -> {"user", "kernel"}]
  /\ reg \in [Cpus -> RegSet]
  /\ kstack \in [Contexts -> KstackSet]
  /\ saved \in [Contexts -> SavedSet]
  /\ loadable \in [Contexts -> BOOLEAN]
  /\ mine \in [Contexts -> MineSet]
  /\ panicked \in BOOLEAN

(* A CPU runs a user context or its own kmain context, and no context is on two. *)
Placed ==
  /\ \A p \in Cpus : current[p] \in Users \/ current[p] = p
  /\ \A p, q \in Cpus : current[p] = current[q] => p = q

(* What a CPU holds of the context c it runs. *)
CpuOK(p, c) ==
  /\ reg[p].k = c
  /\ arch \in X86 => reg[p].io = mine[c].io
  /\ arch \in X86 /\ c \in Users => reg[p].stack = c
  /\ Floats(c) => reg[p].fp = mine[c].fp
  /\ mode[p] = "user" => /\ c \in Users
                         /\ reg[p].gp = mine[c].gp /\ reg[p].env = mine[c].env
                         /\ arch = "riscv64" => reg[p].stack = c
  /\ mode[p] = "kernel" /\ c \in Users => /\ kstack[c].gp = mine[c].gp
                                          /\ EnvInKernel(p, c) = mine[c].env

(* What memory holds of any context: x86_64 without fsgsbase never saves the bases. *)
Kept(c) ==
  /\ saved[c].io = mine[c].io
  /\ arch = "x86_64" => saved[c].env = mine[c].env

(* What memory holds of a context on no CPU. *)
StoppedOK(c) ==
  /\ saved[c].k = c
  /\ Floats(c) => saved[c].fp = mine[c].fp /\ (arch = "aarch64" => loadable[c])
  /\ c \in Users => kstack[c].gp = mine[c].gp /\ EnvStopped(c) = mine[c].env

(* The inductive invariant. *)
IInv ==
  /\ TypeOK
  /\ Placed
  /\ \A p \in Cpus : CpuOK(p, current[p])
  /\ \A c \in Contexts : Kept(c)
  /\ \A c \in Contexts : ~Running(c) => StoppedOK(c)

(* The sets that the types are made of. *)
LEMMA Members == /\ Users \subseteq Contexts /\ Cpus \subseteq Contexts
                 /\ Values \subseteq All /\ 0 \in All /\ Undefined \in All
  BY Zenon DEF Contexts, All

(* The fields of a record have the types of its set, and an update keeps it there. *)
LEMMA RegFields ==
  ASSUME NEW r \in RegSet
  PROVE  /\ r.k \in Contexts /\ r.stack \in Contexts
         /\ r.gp \in All /\ r.env \in All /\ r.fp \in All /\ r.io \in BOOLEAN
         /\ \A c \in Contexts : [r EXCEPT !.k = c] \in RegSet /\ [r EXCEPT !.stack = c] \in RegSet
         /\ \A v \in All : /\ [r EXCEPT !.gp = v] \in RegSet /\ [r EXCEPT !.env = v] \in RegSet
                            /\ [r EXCEPT !.fp = v] \in RegSet
         /\ \A b \in BOOLEAN : [r EXCEPT !.io = b] \in RegSet
  BY Zenon DEF RegSet

(* What switch_to loads at once. *)
LEMMA RegLoads ==
  ASSUME NEW r \in RegSet, NEW a \in Contexts, NEW b \in BOOLEAN, NEW f \in All, NEW e \in All,
         NEW k \in Contexts
  PROVE  /\ [r EXCEPT !.stack = a, !.io = b, !.fp = f, !.env = e, !.k = k] \in RegSet
         /\ [r EXCEPT !.fp = f, !.env = e, !.k = k] \in RegSet
  BY Zenon DEF RegSet

(* The fields of a frame on a kernel stack ... *)
LEMMA KstackFields ==
  ASSUME NEW r \in KstackSet
  PROVE  /\ r.gp \in All /\ r.tp \in All
         /\ \A v \in All : [r EXCEPT !.gp = v] \in KstackSet /\ [r EXCEPT !.tp = v] \in KstackSet
         /\ \A v, w \in All : [gp |-> v, tp |-> w] \in KstackSet
  BY Zenon DEF KstackSet

(* ... of what switch_to saves in the context ... *)
LEMMA SavedFields ==
  ASSUME NEW r \in SavedSet
  PROVE  /\ r.k \in Contexts /\ r.env \in All /\ r.fp \in All /\ r.io \in BOOLEAN
         /\ \A c \in Contexts : [r EXCEPT !.k = c] \in SavedSet
         /\ \A v \in All : [r EXCEPT !.env = v] \in SavedSet /\ [r EXCEPT !.fp = v] \in SavedSet
         /\ \A b \in BOOLEAN : [r EXCEPT !.io = b] \in SavedSet
  BY Zenon DEF SavedSet

(* ... and of what a context believes its registers to be. *)
LEMMA MineFields ==
  ASSUME NEW r \in MineSet
  PROVE  /\ \A v \in All : /\ [r EXCEPT !.gp = v] \in MineSet /\ [r EXCEPT !.env = v] \in MineSet
                            /\ [r EXCEPT !.fp = v] \in MineSet
         /\ [r EXCEPT !.io = TRUE] \in MineSet
  BY Zenon DEF MineSet

(* The kernel starts with every kmain context on its CPU and no program running. *)
LEMMA InitIInv ==
  ASSUME RegistersAssumption, Init
  PROVE  IInv
<1>1. TypeOK
  BY Members, Zenon DEF Init, TypeOK, RegSet, KstackSet, SavedSet, MineSet, NewContext
<1>2. Placed
  BY Zenon DEF Init, Placed
<1>3. \A p \in Cpus : CpuOK(p, current[p])
  BY Zenon DEF Init, CpuOK, Floats, EnvInKernel, Contexts, X86, Archs, Undefined, RegistersAssumption
<1>4. \A c \in Contexts : Kept(c)
  BY Zenon DEF Init, Kept, NewContext
<1>5. \A c \in Contexts : StoppedOK(c)
  BY Zenon DEF Init, StoppedOK, NewContext, Floats, EnvStopped, X86, Archs
<1> QED
  BY <1>1, <1>2, <1>3, <1>4, <1>5, Zenon DEF IInv

(* The invariant says more than RegistersAreOwn. *)
LEMMA IInvImplies == IInv => RegistersAreOwn
  BY DEF IInv, RegistersAreOwn, CpuOK, Kept, StoppedOK, TypeOK, Contexts

(* User code changes registers of its own CPU only, and those it may write. *)
LEMMA UserSetsStep ==
  ASSUME IInv, NEW p \in Cpus, NEW r \in {"gp", "env", "fp"}, NEW v \in Values, UserSets(p, r,
     v)
  PROVE  IInv'
<1> USE Members
<1>a. TypeOK /\ Placed
  BY Zenon DEF IInv
<1>b. \A q \in Cpus : CpuOK(q, current[q])
  BY Zenon DEF IInv
<1>c. \A x \in Contexts : Kept(x)
  BY Zenon DEF IInv
<1>d. \A x \in Contexts : ~Running(x) => StoppedOK(x)
  BY Zenon DEF IInv
<1>e. /\ mode[p] = "user" /\ (r = "env" => arch \in {"fsgsbase", "aarch64", "riscv64"})
      /\ reg' = [reg EXCEPT ![p][r] = v]
      /\ mine' = [mine EXCEPT ![current[p]][r] = v]
      /\ arch' = arch
      /\ current' = current
      /\ mode' = mode
      /\ kstack' = kstack
      /\ saved' = saved
      /\ loadable' = loadable
      /\ panicked' = panicked
  BY Zenon DEF UserSets, Direct
<1>f. /\ arch' \in Archs /\ current' \in [Cpus -> Contexts] /\ mode' \in [Cpus -> {"user", "kernel"}]
      /\ kstack' \in [Contexts -> KstackSet]
      /\ saved' \in [Contexts -> SavedSet]
      /\ loadable' \in [Contexts -> BOOLEAN] /\ panicked' \in BOOLEAN
  <2>1. arch' \in Archs /\ current' \in [Cpus -> Contexts] /\ mode' \in [Cpus -> {"user", "kernel"}]
    BY <1>a, <1>e, Zenon DEF TypeOK
  <2>2. kstack' \in [Contexts -> KstackSet]
    BY <1>a, <1>e, Zenon DEF TypeOK
  <2>3. saved' \in [Contexts -> SavedSet]
    BY <1>a, <1>e, Zenon DEF TypeOK
  <2>4. loadable' \in [Contexts -> BOOLEAN] /\ panicked' \in BOOLEAN
    BY <1>a, <1>e, Zenon DEF TypeOK
  <2> QED
    BY <2>1, <2>2, <2>3, <2>4, Zenon
<1>g. Placed'
  BY <1>a, <1>e, Zenon DEF TypeOK, Placed
<1>h. \A x \in Contexts : ~Running(x)' => StoppedOK(x)'
  BY <1>a, <1>d, <1>e DEF TypeOK, RegSet, KstackSet, SavedSet, MineSet, StoppedOK, Running,
     EnvStopped, Floats
<1>1. CASE r = "gp"
  <2>1. /\ reg' \in [Cpus -> RegSet]
        /\ mine' \in [Contexts -> MineSet]
    <3>1. reg' \in [Cpus -> RegSet]
      BY <1>a, <1>e, <1>1, RegFields, KstackFields, SavedFields, Zenon DEF TypeOK
    <3>2. mine' \in [Contexts -> MineSet]
      BY <1>a, <1>e, <1>1, MineFields, Zenon DEF TypeOK
    <3> QED
      BY <3>1, <3>2, Zenon
  <2>2. \A q \in Cpus : CpuOK(q, current[q])'
    BY <1>a, <1>b, <1>e, <1>1 DEF TypeOK, RegSet, KstackSet, SavedSet, MineSet, Placed, CpuOK,
       Floats, EnvInKernel, X86
  <2>3. \A x \in Contexts : Kept(x)'
    BY <1>a, <1>c, <1>e, <1>1 DEF TypeOK, SavedSet, MineSet, Kept
  <2> QED
    BY <1>f, <1>g, <1>h, <2>1, <2>2, <2>3, Zenon DEF IInv, TypeOK
<1>2. CASE r = "env"
  <2>1. /\ reg' \in [Cpus -> RegSet]
        /\ mine' \in [Contexts -> MineSet]
    <3>1. reg' \in [Cpus -> RegSet]
      BY <1>a, <1>e, <1>2, RegFields, KstackFields, SavedFields, Zenon DEF TypeOK
    <3>2. mine' \in [Contexts -> MineSet]
      BY <1>a, <1>e, <1>2, MineFields, Zenon DEF TypeOK
    <3> QED
      BY <3>1, <3>2, Zenon
  <2>2. \A q \in Cpus : CpuOK(q, current[q])'
    BY <1>a, <1>b, <1>e, <1>2 DEF TypeOK, RegSet, KstackSet, SavedSet, MineSet, Placed, CpuOK,
       Floats, EnvInKernel, X86
  <2>3. \A x \in Contexts : Kept(x)'
    BY <1>a, <1>c, <1>e, <1>2 DEF TypeOK, SavedSet, MineSet, Kept
  <2> QED
    BY <1>f, <1>g, <1>h, <2>1, <2>2, <2>3, Zenon DEF IInv, TypeOK
<1>3. CASE r = "fp"
  <2>1. /\ reg' \in [Cpus -> RegSet]
        /\ mine' \in [Contexts -> MineSet]
    <3>1. reg' \in [Cpus -> RegSet]
      BY <1>a, <1>e, <1>3, RegFields, KstackFields, SavedFields, Zenon DEF TypeOK
    <3>2. mine' \in [Contexts -> MineSet]
      BY <1>a, <1>e, <1>3, MineFields, Zenon DEF TypeOK
    <3> QED
      BY <3>1, <3>2, Zenon
  <2>2. \A q \in Cpus : CpuOK(q, current[q])'
    BY <1>a, <1>b, <1>e, <1>3 DEF TypeOK, RegSet, KstackSet, SavedSet, MineSet, Placed, CpuOK,
       Floats, EnvInKernel, X86
  <2>3. \A x \in Contexts : Kept(x)'
    BY <1>a, <1>c, <1>e, <1>3 DEF TypeOK, SavedSet, MineSet, Kept
  <2> QED
    BY <1>f, <1>g, <1>h, <2>1, <2>2, <2>3, Zenon DEF IInv, TypeOK
<1> QED
  BY <1>1, <1>2, <1>3, Zenon

(* An entry pushes on the stack of the context that runs, and on no other. *)
LEMMA EnterStep ==
  ASSUME IInv, NEW p \in Cpus, Enter(p)
  PROVE  IInv'
<1> USE Members
<1>a. TypeOK /\ Placed
  BY Zenon DEF IInv
<1>b. \A q \in Cpus : CpuOK(q, current[q])
  BY Zenon DEF IInv
<1>c. \A x \in Contexts : Kept(x)
  BY Zenon DEF IInv
<1>d. \A x \in Contexts : ~Running(x) => StoppedOK(x)
  BY Zenon DEF IInv
<1>e. /\ mode[p] = "user"
      /\ mode' = [mode EXCEPT ![p] = "kernel"]
      /\ arch' = arch
      /\ current' = current
      /\ saved' = saved
      /\ loadable' = loadable
      /\ mine' = mine
      /\ panicked' = panicked
  BY Zenon DEF Enter
<1>f. /\ arch' \in Archs /\ current' \in [Cpus -> Contexts] /\ mode' \in [Cpus -> {"user", "kernel"}]
      /\ saved' \in [Contexts -> SavedSet]
      /\ loadable' \in [Contexts -> BOOLEAN] /\ panicked' \in BOOLEAN
      /\ mine' \in [Contexts -> MineSet]
  <2>1. arch' \in Archs /\ current' \in [Cpus -> Contexts] /\ mode' \in [Cpus -> {"user", "kernel"}]
    BY <1>a, <1>e, Zenon DEF TypeOK
  <2>2. saved' \in [Contexts -> SavedSet]
    BY <1>a, <1>e, Zenon DEF TypeOK
  <2>3. loadable' \in [Contexts -> BOOLEAN] /\ panicked' \in BOOLEAN
    BY <1>a, <1>e, Zenon DEF TypeOK
  <2>4. mine' \in [Contexts -> MineSet]
    BY <1>a, <1>e, MineFields, Zenon DEF TypeOK
  <2> QED
    BY <2>1, <2>2, <2>3, <2>4, Zenon
<1>g. Placed'
  BY <1>a, <1>e, Zenon DEF TypeOK, Placed
<1>h. \A x \in Contexts : Kept(x)'
  BY <1>a, <1>c, <1>e, Zenon DEF TypeOK, SavedSet, MineSet, Kept
<1>1. CASE arch \in {"x86_64", "fsgsbase"}
  <2>a. PushX86_64(p)
    BY <1>1, Zenon DEF Enter
  <2>1. /\ reg' \in [Cpus -> RegSet]
        /\ kstack' \in [Contexts -> KstackSet]
    <3>1. reg' \in [Cpus -> RegSet]
      BY <1>a, <1>e, <1>1, <2>a, RegFields, KstackFields, SavedFields, Zenon DEF TypeOK, PushX86_64
    <3>2. kstack' \in [Contexts -> KstackSet]
      BY <1>a, <1>e, <1>1, <2>a, RegFields, KstackFields, Zenon DEF TypeOK, PushX86_64
    <3> QED
      BY <3>1, <3>2, Zenon
  <2>2. \A q \in Cpus : CpuOK(q, current[q])'
    BY <1>a, <1>b, <1>e, <1>1, <2>a DEF TypeOK, RegSet, KstackSet, SavedSet, MineSet, Placed,
       CpuOK, Floats, EnvInKernel, X86, PushX86_64
  <2>4. \A x \in Contexts : ~Running(x)' => StoppedOK(x)'
    BY <1>a, <1>d, <1>b, <1>e, <1>1, <2>a DEF TypeOK, RegSet, KstackSet, SavedSet, MineSet,
       StoppedOK, Running, EnvStopped, Floats, CpuOK, X86, PushX86_64
  <2> QED
    BY <1>f, <1>g, <1>h, <2>1, <2>2, <2>4, Zenon DEF IInv, TypeOK
<1>2. CASE arch = "x86"
  <2>a. PushX86(p)
    BY <1>2, Zenon DEF Enter
  <2>1. /\ reg' \in [Cpus -> RegSet]
        /\ kstack' \in [Contexts -> KstackSet]
    <3>1. reg' \in [Cpus -> RegSet]
      BY <1>a, <1>e, <1>2, <2>a, RegFields, KstackFields, SavedFields, Zenon DEF TypeOK, PushX86
    <3>2. kstack' \in [Contexts -> KstackSet]
      BY <1>a, <1>e, <1>2, <2>a, RegFields, KstackFields, Zenon DEF TypeOK, PushX86
    <3> QED
      BY <3>1, <3>2, Zenon
  <2>2. \A q \in Cpus : CpuOK(q, current[q])'
    BY <1>a, <1>b, <1>e, <1>2, <2>a DEF TypeOK, RegSet, KstackSet, SavedSet, MineSet, Placed,
       CpuOK, Floats, EnvInKernel, X86, PushX86
  <2>4. \A x \in Contexts : ~Running(x)' => StoppedOK(x)'
    BY <1>a, <1>d, <1>b, <1>e, <1>2, <2>a DEF TypeOK, RegSet, KstackSet, SavedSet, MineSet,
       StoppedOK, Running, EnvStopped, Floats, CpuOK, X86, PushX86
  <2> QED
    BY <1>f, <1>g, <1>h, <2>1, <2>2, <2>4, Zenon DEF IInv, TypeOK
<1>3. CASE arch = "aarch64"
  <2>a. PushAarch64(p)
    BY <1>3, Zenon DEF Enter
  <2>1. /\ reg' \in [Cpus -> RegSet]
        /\ kstack' \in [Contexts -> KstackSet]
    <3>1. reg' \in [Cpus -> RegSet]
      BY <1>a, <1>e, <1>3, <2>a, RegFields, KstackFields, SavedFields, Zenon DEF TypeOK, PushAarch64
    <3>2. kstack' \in [Contexts -> KstackSet]
      BY <1>a, <1>e, <1>3, <2>a, RegFields, KstackFields, Zenon DEF TypeOK, PushAarch64
    <3> QED
      BY <3>1, <3>2, Zenon
  <2>2. \A q \in Cpus : CpuOK(q, current[q])'
    BY <1>a, <1>b, <1>e, <1>3, <2>a DEF TypeOK, RegSet, KstackSet, SavedSet, MineSet, Placed,
       CpuOK, Floats, EnvInKernel, X86, PushAarch64
  <2>4. \A x \in Contexts : ~Running(x)' => StoppedOK(x)'
    BY <1>a, <1>d, <1>b, <1>e, <1>3, <2>a DEF TypeOK, RegSet, KstackSet, SavedSet, MineSet,
       StoppedOK, Running, EnvStopped, Floats, CpuOK, X86, PushAarch64
  <2> QED
    BY <1>f, <1>g, <1>h, <2>1, <2>2, <2>4, Zenon DEF IInv, TypeOK
<1>4. CASE arch = "riscv64"
  <2>a. PushRiscv(p)
    BY <1>4, Zenon DEF Enter
  <2>1. /\ reg' \in [Cpus -> RegSet]
        /\ kstack' \in [Contexts -> KstackSet]
    <3>1. reg' \in [Cpus -> RegSet]
      BY <1>a, <1>e, <1>4, <2>a, RegFields, KstackFields, SavedFields, Zenon DEF TypeOK, PushRiscv
    <3>2. kstack' \in [Contexts -> KstackSet]
      BY <1>a, <1>e, <1>4, <2>a, RegFields, KstackFields, Zenon DEF TypeOK, PushRiscv
    <3> QED
      BY <3>1, <3>2, Zenon
  <2>2. \A q \in Cpus : CpuOK(q, current[q])'
    BY <1>a, <1>b, <1>e, <1>4, <2>a DEF TypeOK, RegSet, KstackSet, SavedSet, MineSet, Placed,
       CpuOK, Floats, EnvInKernel, X86, PushRiscv
  <2>4. \A x \in Contexts : ~Running(x)' => StoppedOK(x)'
    BY <1>a, <1>d, <1>b, <1>e, <1>4, <2>a DEF TypeOK, RegSet, KstackSet, SavedSet, MineSet,
       StoppedOK, Running, EnvStopped, Floats, CpuOK, X86, PushRiscv
  <2> QED
    BY <1>f, <1>g, <1>h, <2>1, <2>2, <2>4, Zenon DEF IInv, TypeOK
<1> QED
  BY <1>1, <1>2, <1>3, <1>4, <1>a, Zenon DEF TypeOK, Archs, X86

(* The return pops what the last entry, or a write to the stopped context, left. *)
LEMMA ReturnStep ==
  ASSUME IInv, NEW p \in Cpus, Return(p)
  PROVE  IInv'
<1> USE Members
<1>a. TypeOK /\ Placed
  BY Zenon DEF IInv
<1>b. \A q \in Cpus : CpuOK(q, current[q])
  BY Zenon DEF IInv
<1>c. \A x \in Contexts : Kept(x)
  BY Zenon DEF IInv
<1>d. \A x \in Contexts : ~Running(x) => StoppedOK(x)
  BY Zenon DEF IInv
<1>e. /\ mode[p] = "kernel" /\ current[p] \in Users
      /\ mode' = [mode EXCEPT ![p] = "user"]
      /\ arch' = arch
      /\ current' = current
      /\ kstack' = kstack
      /\ saved' = saved
      /\ loadable' = loadable
      /\ mine' = mine
      /\ panicked' = panicked
  BY Zenon DEF Return
<1>f. /\ arch' \in Archs /\ current' \in [Cpus -> Contexts] /\ mode' \in [Cpus -> {"user", "kernel"}]
      /\ kstack' \in [Contexts -> KstackSet]
      /\ saved' \in [Contexts -> SavedSet]
      /\ loadable' \in [Contexts -> BOOLEAN] /\ panicked' \in BOOLEAN
      /\ mine' \in [Contexts -> MineSet]
  <2>1. arch' \in Archs /\ current' \in [Cpus -> Contexts] /\ mode' \in [Cpus -> {"user", "kernel"}]
    BY <1>a, <1>e, Zenon DEF TypeOK
  <2>2. kstack' \in [Contexts -> KstackSet]
    BY <1>a, <1>e, Zenon DEF TypeOK
  <2>3. saved' \in [Contexts -> SavedSet]
    BY <1>a, <1>e, Zenon DEF TypeOK
  <2>4. loadable' \in [Contexts -> BOOLEAN] /\ panicked' \in BOOLEAN
    BY <1>a, <1>e, Zenon DEF TypeOK
  <2>5. mine' \in [Contexts -> MineSet]
    BY <1>a, <1>e, MineFields, Zenon DEF TypeOK
  <2> QED
    BY <2>1, <2>2, <2>3, <2>4, <2>5, Zenon
<1>g. Placed'
  BY <1>a, <1>e, Zenon DEF TypeOK, Placed
<1>h. \A x \in Contexts : Kept(x)'
  BY <1>a, <1>c, <1>e, Zenon DEF TypeOK, SavedSet, MineSet, Kept
<1>i. \A x \in Contexts : ~Running(x)' => StoppedOK(x)'
  BY <1>a, <1>d, <1>e DEF TypeOK, RegSet, KstackSet, SavedSet, MineSet, StoppedOK, Running,
     EnvStopped, Floats
<1>1. CASE arch \in {"x86_64", "fsgsbase"}
  <2>a. PopX86_64(p)
    BY <1>1, Zenon DEF Return
  <2>1. reg' \in [Cpus -> RegSet]
    BY <1>a, <1>e, <1>1, <2>a, RegFields, KstackFields, SavedFields, Zenon DEF TypeOK, PopX86_64
  <2>2. \A q \in Cpus : CpuOK(q, current[q])'
    BY <1>a, <1>b, <1>e, <1>1, <2>a DEF TypeOK, RegSet, KstackSet, SavedSet, MineSet, Placed,
       CpuOK, Floats, EnvInKernel, X86, PopX86_64
  <2> QED
    BY <1>f, <1>g, <1>h, <1>i, <2>1, <2>2, Zenon DEF IInv, TypeOK
<1>2. CASE arch = "x86"
  <2>a. PopX86(p)
    BY <1>2, Zenon DEF Return
  <2>1. reg' \in [Cpus -> RegSet]
    BY <1>a, <1>e, <1>2, <2>a, RegFields, KstackFields, SavedFields, Zenon DEF TypeOK, PopX86
  <2>2. \A q \in Cpus : CpuOK(q, current[q])'
    BY <1>a, <1>b, <1>e, <1>2, <2>a DEF TypeOK, RegSet, KstackSet, SavedSet, MineSet, Placed,
       CpuOK, Floats, EnvInKernel, X86, PopX86
  <2> QED
    BY <1>f, <1>g, <1>h, <1>i, <2>1, <2>2, Zenon DEF IInv, TypeOK
<1>3. CASE arch = "aarch64"
  <2>a. PopAarch64(p)
    BY <1>3, Zenon DEF Return
  <2>1. reg' \in [Cpus -> RegSet]
    BY <1>a, <1>e, <1>3, <2>a, RegFields, KstackFields, SavedFields, Zenon DEF TypeOK, PopAarch64
  <2>2. \A q \in Cpus : CpuOK(q, current[q])'
    BY <1>a, <1>b, <1>e, <1>3, <2>a DEF TypeOK, RegSet, KstackSet, SavedSet, MineSet, Placed,
       CpuOK, Floats, EnvInKernel, X86, PopAarch64
  <2> QED
    BY <1>f, <1>g, <1>h, <1>i, <2>1, <2>2, Zenon DEF IInv, TypeOK
<1>4. CASE arch = "riscv64"
  <2>a. PopRiscv(p)
    BY <1>4, Zenon DEF Return
  <2>b. reg[p] \in RegSet /\ reg[p].k = current[p] /\ current[p] \in Users /\ kstack[reg[p].k] \in KstackSet
    BY <1>a, <1>b, <1>e, Zenon DEF TypeOK, CpuOK
  <2>c. /\ reg' = [reg EXCEPT ![p] = [reg[p] EXCEPT !.gp = kstack[reg[p].k].gp,
                                                  !.env = kstack[reg[p].k].tp, !.stack = reg[p].k]]
        /\ [reg[p] EXCEPT !.gp = kstack[reg[p].k].gp, !.env = kstack[reg[p].k].tp,
                          !.stack = reg[p].k] \in RegSet
    BY <1>a, <2>a, <2>b, RegFields, KstackFields, Zenon DEF TypeOK, PopRiscv
  <2>1. reg' \in [Cpus -> RegSet]
    BY <1>a, <2>c, Zenon DEF TypeOK
  <2>d. /\ \A q \in Cpus \ {p} : reg'[q] = reg[q]
        /\ reg'[p].k = reg[p].k /\ reg'[p].stack = reg[p].k
        /\ reg'[p].gp = kstack[reg[p].k].gp /\ reg'[p].env = kstack[reg[p].k].tp
    BY <1>a, <2>b, <2>c, Zenon DEF TypeOK, RegSet
  <2>2. ASSUME NEW q \in Cpus
        PROVE  CpuOK(q, current[q])'
    <3>1. CASE q = p
      BY <1>a, <1>b, <1>e, <1>4, <2>b, <2>d, <3>1 DEF CpuOK, EnvInKernel, Floats, X86, TypeOK
    <3>2. CASE q # p
      BY <1>a, <1>b, <1>e, <2>d, <3>2 DEF CpuOK, EnvInKernel, Floats, TypeOK
    <3> QED
      BY <3>1, <3>2, Zenon
  <2> QED
    BY <1>f, <1>g, <1>h, <1>i, <2>1, <2>2, Zenon DEF IInv, TypeOK
<1> QED
  BY <1>1, <1>2, <1>3, <1>4, <1>a, Zenon DEF TypeOK, Archs, X86

(* switch_to saves all that only the registers hold, and loads what the context had. *)
LEMMA SwitchToStep ==
  ASSUME IInv, NEW p \in Cpus, NEW next \in Contexts, SwitchTo(p, next)
  PROVE  IInv'
<1> USE Members
<1>a. TypeOK /\ Placed
  BY Zenon DEF IInv
<1>b. \A q \in Cpus : CpuOK(q, current[q])
  BY Zenon DEF IInv
<1>c. \A x \in Contexts : Kept(x)
  BY Zenon DEF IInv
<1>d. \A x \in Contexts : ~Running(x) => StoppedOK(x)
  BY Zenon DEF IInv
<1>e. /\ mode[p] = "kernel" /\ ~Running(next) /\ (next \in Users \/ next = p)
      /\ current' = [current EXCEPT ![p] = next]
      /\ arch' = arch
      /\ mode' = mode
      /\ kstack' = kstack
      /\ mine' = mine
      /\ panicked' = panicked
  BY Zenon DEF SwitchTo
<1>f. /\ arch' \in Archs /\ current' \in [Cpus -> Contexts] /\ mode' \in [Cpus -> {"user", "kernel"}]
      /\ kstack' \in [Contexts -> KstackSet]
      /\ mine' \in [Contexts -> MineSet]
  <2>1. arch' \in Archs /\ current' \in [Cpus -> Contexts] /\ mode' \in [Cpus -> {"user", "kernel"}]
    BY <1>a, <1>e, Zenon DEF TypeOK
  <2>2. kstack' \in [Contexts -> KstackSet]
    BY <1>a, <1>e, Zenon DEF TypeOK
  <2>3. mine' \in [Contexts -> MineSet]
    BY <1>a, <1>e, MineFields, Zenon DEF TypeOK
  <2> QED
    BY <2>1, <2>2, <2>3, Zenon
<1>g. Placed'
  BY <1>a, <1>e, Zenon DEF TypeOK, Placed, Running
<1>1. CASE arch \in {"x86_64", "fsgsbase"}
  <2>a. SwitchX86_64(p, current[p], next)
    BY <1>1, Zenon DEF SwitchTo
  <2>b. TssStack(p, next) \in Contexts
    BY <1>a, RegFields, Zenon DEF TypeOK, TssStack
  <2> DEFINE loaded ==
            [reg[p] EXCEPT !.stack = TssStack(p, next), !.io = saved[next].io, !.fp = saved[next].fp,
                           !.env = saved[next].env, !.k = saved[next].k]
  <2>c. reg' = [reg EXCEPT ![p] = loaded]
    BY <1>a, <2>a, Zenon DEF SwitchX86_64, TypeOK
  <2>e. loaded \in RegSet
    <3>1. reg[p] \in RegSet /\ saved[next] \in SavedSet
      BY <1>a, Zenon DEF TypeOK
    <3> QED
      BY <2>b, <3>1, RegLoads, RegFields, SavedFields, SMTT(30), ZenonT(30)
  <2>d. /\ \A q \in Cpus \ {p} : reg'[q] = reg[q]
        /\ reg'[p].stack = TssStack(p, next)
        /\ reg'[p].io = saved[next].io
        /\ reg'[p].fp = saved[next].fp
        /\ reg'[p].env = saved[next].env
        /\ reg'[p].k = saved[next].k
        /\ reg'[p].gp = reg[p].gp
    BY <1>a, <2>c DEF TypeOK, RegSet
  <2> HIDE DEF loaded
  <2>f. /\ \A x \in Contexts \ {current[p]} : saved'[x] = saved[x] /\ loadable'[x] = loadable[x]
        /\ saved'[current[p]].k = reg[p].k
        /\ saved'[current[p]].fp = reg[p].fp
        /\ saved'[current[p]].env = IF arch = "fsgsbase" THEN reg[p].env ELSE saved[current[p]].env
    BY <1>a, <2>a DEF TypeOK, SavedSet, SwitchX86_64
  <2>1. /\ reg' \in [Cpus -> RegSet]
        /\ saved' \in [Contexts -> SavedSet]
        /\ loadable' \in [Contexts -> BOOLEAN] /\ panicked' \in BOOLEAN
    <3>1. reg' \in [Cpus -> RegSet]
      BY <1>a, <2>c, <2>e, Zenon DEF TypeOK
    <3>2. saved' \in [Contexts -> SavedSet]
      BY <1>a, <1>e, <1>1, <2>a, <2>b, RegFields, SavedFields DEF TypeOK, SwitchX86_64
    <3>3. loadable' \in [Contexts -> BOOLEAN] /\ panicked' \in BOOLEAN
      BY <1>a, <1>e, <1>1, <2>a, <2>b, Zenon DEF TypeOK, SwitchX86_64
    <3> QED
      BY <3>1, <3>2, <3>3, Zenon
  <2>2. ASSUME NEW q \in Cpus
        PROVE  CpuOK(q, current[q])'
    <3>1. CASE q = p
      <4>1. current'[q] = next /\ StoppedOK(next) /\ Kept(next)
        BY <1>a, <1>c, <1>d, <1>e, <3>1, Zenon DEF TypeOK
      <4> QED
        BY <1>e, <1>1, <2>d, <3>1, <4>1, Zenon DEF CpuOK, Kept, StoppedOK, EnvStopped, EnvInKernel,
           Floats, X86, TssStack
    <3>2. CASE q # p
      <4>1. current'[q] = current[q] /\ CpuOK(q, current[q]) /\ reg'[q] = reg[q]
        BY <1>a, <1>b, <1>e, <2>d, <3>2, Zenon DEF TypeOK
      <4> QED
        BY <1>e, <4>1, Zenon DEF CpuOK, EnvInKernel, Floats
    <3> QED
      BY <3>1, <3>2, Zenon
  <2>3. \A x \in Contexts : Kept(x)'
    BY <1>a, <1>c, <1>e, <1>1, <2>a DEF TypeOK, SavedSet, MineSet, Kept, SwitchX86_64, TssStack
  <2>4. ASSUME NEW x \in Contexts, ~Running(x)'
        PROVE  StoppedOK(x)'
    <3>1. CASE x = current[p]
      <4>1. CpuOK(p, x) /\ Kept(x)
        BY <1>b, <1>c, <3>1, Zenon
      <4> QED
        BY <1>e, <1>1, <2>f, <3>1, <4>1, Zenon DEF CpuOK, Kept, StoppedOK, EnvStopped, EnvInKernel, Floats
    <3>2. CASE x # current[p]
      <4>1. ~Running(x)
        BY <1>a, <1>e, <2>4, <3>2, Zenon DEF Running, TypeOK
      <4> QED
        BY <1>d, <1>e, <2>f, <3>2, <4>1 DEF StoppedOK, EnvStopped, Floats
    <3> QED
      BY <3>1, <3>2, Zenon
  <2> QED
    BY <1>f, <1>g, <2>1, <2>2, <2>3, <2>4, Zenon DEF IInv, TypeOK
<1>2. CASE arch = "x86"
  <2>a. SwitchX86(p, current[p], next)
    BY <1>2, Zenon DEF SwitchTo
  <2>b. TssStack(p, next) \in Contexts
    BY <1>a, RegFields, Zenon DEF TypeOK, TssStack
  <2> DEFINE loaded ==
            [reg[p] EXCEPT !.stack = TssStack(p, next), !.io = saved[next].io, !.fp = saved[next].fp,
                           !.env = saved[next].env, !.k = saved[next].k]
  <2>c. reg' = [reg EXCEPT ![p] = loaded]
    BY <1>a, <2>a, Zenon DEF SwitchX86, TypeOK
  <2>e. loaded \in RegSet
    <3>1. reg[p] \in RegSet /\ saved[next] \in SavedSet
      BY <1>a, Zenon DEF TypeOK
    <3> QED
      BY <2>b, <3>1, RegLoads, RegFields, SavedFields, SMTT(30), ZenonT(30)
  <2>d. /\ \A q \in Cpus \ {p} : reg'[q] = reg[q]
        /\ reg'[p].stack = TssStack(p, next)
        /\ reg'[p].io = saved[next].io
        /\ reg'[p].fp = saved[next].fp
        /\ reg'[p].env = saved[next].env
        /\ reg'[p].k = saved[next].k
        /\ reg'[p].gp = reg[p].gp
    BY <1>a, <2>c DEF TypeOK, RegSet
  <2> HIDE DEF loaded
  <2>f. /\ \A x \in Contexts \ {current[p]} : saved'[x] = saved[x] /\ loadable'[x] = loadable[x]
        /\ saved'[current[p]].k = reg[p].k
        /\ saved'[current[p]].fp = reg[p].fp
        /\ saved'[current[p]].env = reg[p].env
    BY <1>a, <2>a DEF TypeOK, SavedSet, SwitchX86
  <2>1. /\ reg' \in [Cpus -> RegSet]
        /\ saved' \in [Contexts -> SavedSet]
        /\ loadable' \in [Contexts -> BOOLEAN] /\ panicked' \in BOOLEAN
    <3>1. reg' \in [Cpus -> RegSet]
      BY <1>a, <2>c, <2>e, Zenon DEF TypeOK
    <3>2. saved' \in [Contexts -> SavedSet]
      BY <1>a, <1>e, <1>2, <2>a, <2>b, RegFields, SavedFields DEF TypeOK, SwitchX86
    <3>3. loadable' \in [Contexts -> BOOLEAN] /\ panicked' \in BOOLEAN
      BY <1>a, <1>e, <1>2, <2>a, <2>b, Zenon DEF TypeOK, SwitchX86
    <3> QED
      BY <3>1, <3>2, <3>3, Zenon
  <2>2. ASSUME NEW q \in Cpus
        PROVE  CpuOK(q, current[q])'
    <3>1. CASE q = p
      <4>1. current'[q] = next /\ StoppedOK(next) /\ Kept(next)
        BY <1>a, <1>c, <1>d, <1>e, <3>1, Zenon DEF TypeOK
      <4> QED
        BY <1>e, <1>2, <2>d, <3>1, <4>1, Zenon DEF CpuOK, Kept, StoppedOK, EnvStopped, EnvInKernel,
           Floats, X86, TssStack
    <3>2. CASE q # p
      <4>1. current'[q] = current[q] /\ CpuOK(q, current[q]) /\ reg'[q] = reg[q]
        BY <1>a, <1>b, <1>e, <2>d, <3>2, Zenon DEF TypeOK
      <4> QED
        BY <1>e, <4>1, Zenon DEF CpuOK, EnvInKernel, Floats
    <3> QED
      BY <3>1, <3>2, Zenon
  <2>3. \A x \in Contexts : Kept(x)'
    BY <1>a, <1>c, <1>e, <1>2, <2>a DEF TypeOK, SavedSet, MineSet, Kept, SwitchX86, TssStack
  <2>4. ASSUME NEW x \in Contexts, ~Running(x)'
        PROVE  StoppedOK(x)'
    <3>1. CASE x = current[p]
      <4>1. CpuOK(p, x) /\ Kept(x)
        BY <1>b, <1>c, <3>1, Zenon
      <4> QED
        BY <1>e, <1>2, <2>f, <3>1, <4>1, Zenon DEF CpuOK, Kept, StoppedOK, EnvStopped, EnvInKernel, Floats
    <3>2. CASE x # current[p]
      <4>1. ~Running(x)
        BY <1>a, <1>e, <2>4, <3>2, Zenon DEF Running, TypeOK
      <4> QED
        BY <1>d, <1>e, <2>f, <3>2, <4>1 DEF StoppedOK, EnvStopped, Floats
    <3> QED
      BY <3>1, <3>2, Zenon
  <2> QED
    BY <1>f, <1>g, <2>1, <2>2, <2>3, <2>4, Zenon DEF IInv, TypeOK
<1>3. CASE arch = "aarch64"
  <2>a. SwitchAarch64(p, current[p], next)
    BY <1>3, Zenon DEF SwitchTo
  <2> DEFINE loaded ==
            [reg[p] EXCEPT !.fp = fp_load(p, next), !.env = saved[next].env, !.k = saved[next].k]
  <2>c. reg' = [reg EXCEPT ![p] = loaded]
    BY <1>a, <2>a, Zenon DEF SwitchAarch64, TypeOK
  <2>e. loaded \in RegSet
    <3>1. reg[p] \in RegSet /\ saved[next] \in SavedSet
      BY <1>a, Zenon DEF TypeOK
    <3>2. fp_load(p, next) \in All
      BY <3>1, RegFields, SavedFields, Zenon DEF fp_load
    <3> QED
      BY <3>1, <3>2, RegLoads, SavedFields, Zenon
  <2>d. /\ \A q \in Cpus \ {p} : reg'[q] = reg[q]
        /\ reg'[p].fp = fp_load(p, next)
        /\ reg'[p].env = saved[next].env
        /\ reg'[p].k = saved[next].k
        /\ reg'[p].gp = reg[p].gp
        /\ reg'[p].io = reg[p].io
        /\ reg'[p].stack = reg[p].stack
    BY <1>a, <2>c DEF TypeOK, RegSet
  <2> HIDE DEF loaded
  <2>f. /\ \A x \in Contexts \ {current[p]} : saved'[x] = saved[x] /\ loadable'[x] = loadable[x]
        /\ saved'[current[p]].k = reg[p].k
        /\ saved'[current[p]].fp = reg[p].fp
        /\ saved'[current[p]].env = reg[p].env
        /\ loadable'[current[p]]
    BY <1>a, <2>a DEF TypeOK, SavedSet, SwitchAarch64, fp_save
  <2>1. /\ reg' \in [Cpus -> RegSet]
        /\ saved' \in [Contexts -> SavedSet]
        /\ loadable' \in [Contexts -> BOOLEAN] /\ panicked' \in BOOLEAN
    <3>1. reg' \in [Cpus -> RegSet]
      BY <1>a, <2>c, <2>e, Zenon DEF TypeOK
    <3>2. saved' \in [Contexts -> SavedSet]
      BY <1>a, <1>e, <1>3, <2>a, RegFields, SavedFields DEF TypeOK, SwitchAarch64, fp_save,
         fp_load
    <3>3. loadable' \in [Contexts -> BOOLEAN] /\ panicked' \in BOOLEAN
      BY <1>a, <1>e, <1>3, <2>a, Zenon DEF TypeOK, SwitchAarch64, fp_save, fp_load
    <3> QED
      BY <3>1, <3>2, <3>3, Zenon
  <2>2. ASSUME NEW q \in Cpus
        PROVE  CpuOK(q, current[q])'
    <3>1. CASE q = p
      <4>1. current'[q] = next /\ StoppedOK(next) /\ Kept(next)
        BY <1>a, <1>c, <1>d, <1>e, <3>1, Zenon DEF TypeOK
      <4> QED
        BY <1>e, <1>3, <2>d, <3>1, <4>1, Zenon DEF CpuOK, Kept, StoppedOK, EnvStopped, EnvInKernel,
           Floats, X86, fp_load
    <3>2. CASE q # p
      <4>1. current'[q] = current[q] /\ CpuOK(q, current[q]) /\ reg'[q] = reg[q]
        BY <1>a, <1>b, <1>e, <2>d, <3>2, Zenon DEF TypeOK
      <4> QED
        BY <1>e, <4>1, Zenon DEF CpuOK, EnvInKernel, Floats
    <3> QED
      BY <3>1, <3>2, Zenon
  <2>3. \A x \in Contexts : Kept(x)'
    BY <1>a, <1>c, <1>e, <1>3, <2>a DEF TypeOK, SavedSet, MineSet, Kept, SwitchAarch64, fp_save,
       fp_load
  <2>4. ASSUME NEW x \in Contexts, ~Running(x)'
        PROVE  StoppedOK(x)'
    <3>1. CASE x = current[p]
      <4>1. CpuOK(p, x) /\ Kept(x)
        BY <1>b, <1>c, <3>1, Zenon
      <4> QED
        BY <1>e, <1>3, <2>f, <3>1, <4>1, Zenon DEF CpuOK, Kept, StoppedOK, EnvStopped, EnvInKernel, Floats
    <3>2. CASE x # current[p]
      <4>1. ~Running(x)
        BY <1>a, <1>e, <2>4, <3>2, Zenon DEF Running, TypeOK
      <4> QED
        BY <1>d, <1>e, <2>f, <3>2, <4>1 DEF StoppedOK, EnvStopped, Floats
    <3> QED
      BY <3>1, <3>2, Zenon
  <2> QED
    BY <1>f, <1>g, <2>1, <2>2, <2>3, <2>4, Zenon DEF IInv, TypeOK
<1>4. CASE arch = "riscv64"
  <2>a. SwitchRiscv(p, current[p], next)
    BY <1>4, Zenon DEF SwitchTo
  <2> DEFINE loaded ==
            [reg[p] EXCEPT !.k = saved[next].k]
  <2>c. reg' = [reg EXCEPT ![p] = loaded]
    BY <1>a, <2>a, Zenon DEF SwitchRiscv, TypeOK
  <2>e. loaded \in RegSet
    <3>1. reg[p] \in RegSet /\ saved[next] \in SavedSet
      BY <1>a, Zenon DEF TypeOK
    <3> QED
      BY <3>1, RegLoads, RegFields, SavedFields, Zenon
  <2>d. /\ \A q \in Cpus \ {p} : reg'[q] = reg[q]
        /\ reg'[p].k = saved[next].k
        /\ reg'[p].gp = reg[p].gp
        /\ reg'[p].env = reg[p].env
        /\ reg'[p].fp = reg[p].fp
        /\ reg'[p].io = reg[p].io
        /\ reg'[p].stack = reg[p].stack
    BY <1>a, <2>c DEF TypeOK, RegSet
  <2> HIDE DEF loaded
  <2>f. /\ \A x \in Contexts \ {current[p]} : saved'[x] = saved[x] /\ loadable'[x] = loadable[x]
        /\ saved'[current[p]].k = reg[p].k
    BY <1>a, <2>a DEF TypeOK, SavedSet, SwitchRiscv
  <2>1. /\ reg' \in [Cpus -> RegSet]
        /\ saved' \in [Contexts -> SavedSet]
        /\ loadable' \in [Contexts -> BOOLEAN] /\ panicked' \in BOOLEAN
    <3>1. reg' \in [Cpus -> RegSet]
      BY <1>a, <2>c, <2>e, Zenon DEF TypeOK
    <3>2. saved' \in [Contexts -> SavedSet]
      BY <1>a, <1>e, <1>4, <2>a, RegFields, SavedFields, Zenon DEF TypeOK, SwitchRiscv
    <3>3. loadable' \in [Contexts -> BOOLEAN] /\ panicked' \in BOOLEAN
      BY <1>a, <1>e, <1>4, <2>a, Zenon DEF TypeOK, SwitchRiscv
    <3> QED
      BY <3>1, <3>2, <3>3, Zenon
  <2>2. ASSUME NEW q \in Cpus
        PROVE  CpuOK(q, current[q])'
    <3>1. CASE q = p
      <4>1. current'[q] = next /\ StoppedOK(next) /\ Kept(next)
        BY <1>a, <1>c, <1>d, <1>e, <3>1, Zenon DEF TypeOK
      <4> QED
        BY <1>e, <1>4, <2>d, <3>1, <4>1, Zenon DEF CpuOK, Kept, StoppedOK, EnvStopped, EnvInKernel,
           Floats, X86
    <3>2. CASE q # p
      <4>1. current'[q] = current[q] /\ CpuOK(q, current[q]) /\ reg'[q] = reg[q]
        BY <1>a, <1>b, <1>e, <2>d, <3>2, Zenon DEF TypeOK
      <4> QED
        BY <1>e, <4>1, Zenon DEF CpuOK, EnvInKernel, Floats
    <3> QED
      BY <3>1, <3>2, Zenon
  <2>3. \A x \in Contexts : Kept(x)'
    BY <1>a, <1>c, <1>e, <1>4, <2>a DEF TypeOK, SavedSet, MineSet, Kept, SwitchRiscv
  <2>4. ASSUME NEW x \in Contexts, ~Running(x)'
        PROVE  StoppedOK(x)'
    <3>1. CASE x = current[p]
      <4>1. CpuOK(p, x) /\ Kept(x)
        BY <1>b, <1>c, <3>1, Zenon
      <4> QED
        BY <1>e, <1>4, <2>f, <3>1, <4>1, Zenon DEF CpuOK, Kept, StoppedOK, EnvStopped, EnvInKernel, Floats
    <3>2. CASE x # current[p]
      <4>1. ~Running(x)
        BY <1>a, <1>e, <2>4, <3>2, Zenon DEF Running, TypeOK
      <4> QED
        BY <1>d, <1>e, <2>f, <3>2, <4>1 DEF StoppedOK, EnvStopped, Floats
    <3> QED
      BY <3>1, <3>2, Zenon
  <2> QED
    BY <1>f, <1>g, <2>1, <2>2, <2>3, <2>4, Zenon DEF IInv, TypeOK
<1> QED
  BY <1>1, <1>2, <1>3, <1>4, <1>a, Zenon DEF TypeOK, Archs, X86

(* write_current_env_regs leaves register and copy where a later switch expects them. *)
LEMMA WriteOwnEnvStep ==
  ASSUME IInv, NEW p \in Cpus, NEW v \in Values, WriteOwnEnv(p, v)
  PROVE  IInv'
<1> USE Members
<1>a. TypeOK /\ Placed
  BY Zenon DEF IInv
<1>b. \A q \in Cpus : CpuOK(q, current[q])
  BY Zenon DEF IInv
<1>c. \A x \in Contexts : Kept(x)
  BY Zenon DEF IInv
<1>d. \A x \in Contexts : ~Running(x) => StoppedOK(x)
  BY Zenon DEF IInv
<1>e. /\ mode[p] = "kernel" /\ current[p] \in Users
      /\ mine' = [mine EXCEPT ![current[p]].env = v]
      /\ arch' = arch
      /\ current' = current
      /\ mode' = mode
      /\ loadable' = loadable
      /\ panicked' = panicked
  BY Zenon DEF WriteOwnEnv, Accesses
<1>f. /\ arch' \in Archs /\ current' \in [Cpus -> Contexts] /\ mode' \in [Cpus -> {"user", "kernel"}]
      /\ loadable' \in [Contexts -> BOOLEAN] /\ panicked' \in BOOLEAN
  <2>1. arch' \in Archs /\ current' \in [Cpus -> Contexts] /\ mode' \in [Cpus -> {"user", "kernel"}]
    BY <1>a, <1>e, Zenon DEF TypeOK
  <2>2. loadable' \in [Contexts -> BOOLEAN] /\ panicked' \in BOOLEAN
    BY <1>a, <1>e, Zenon DEF TypeOK
  <2> QED
    BY <2>1, <2>2, Zenon
<1>g. Placed'
  BY <1>a, <1>e, Zenon DEF TypeOK, Placed
<1>1. CASE arch \in {"x86_64", "fsgsbase"}
  <2>a. OwnEnvX86_64(p, current[p], v)
    BY <1>1, Zenon DEF WriteOwnEnv, Accesses
  <2>1. /\ reg' \in [Cpus -> RegSet]
        /\ kstack' \in [Contexts -> KstackSet]
        /\ saved' \in [Contexts -> SavedSet]
        /\ mine' \in [Contexts -> MineSet]
    <3>1. reg' \in [Cpus -> RegSet]
      BY <1>a, <1>e, <1>1, <2>a, RegFields, KstackFields, SavedFields, Zenon DEF TypeOK, OwnEnvX86_64,
         SetEnvX86_64
    <3>2. kstack' \in [Contexts -> KstackSet]
      BY <1>a, <1>e, <1>1, <2>a, RegFields, KstackFields, Zenon DEF TypeOK, OwnEnvX86_64, SetEnvX86_64
    <3>3. saved' \in [Contexts -> SavedSet]
      BY <1>a, <1>e, <1>1, <2>a, RegFields, SavedFields, Zenon DEF TypeOK, OwnEnvX86_64, SetEnvX86_64
    <3>4. mine' \in [Contexts -> MineSet]
      BY <1>a, <1>e, <1>1, <2>a, MineFields, Zenon DEF TypeOK, OwnEnvX86_64, SetEnvX86_64
    <3> QED
      BY <3>1, <3>2, <3>3, <3>4, Zenon
  <2>2. \A q \in Cpus : CpuOK(q, current[q])'
    BY <1>a, <1>b, <1>e, <1>1, <2>a DEF TypeOK, RegSet, KstackSet, SavedSet, MineSet, Placed,
       CpuOK, Floats, EnvInKernel, X86, OwnEnvX86_64, SetEnvX86_64
  <2>3. \A x \in Contexts : Kept(x)'
    BY <1>a, <1>c, <1>e, <1>1, <2>a DEF TypeOK, SavedSet, MineSet, Kept, OwnEnvX86_64,
       SetEnvX86_64
  <2>4. \A x \in Contexts : ~Running(x)' => StoppedOK(x)'
    BY <1>a, <1>d, <1>e, <1>1, <2>a DEF TypeOK, RegSet, KstackSet, SavedSet, MineSet, StoppedOK,
       Running, EnvStopped, Floats, OwnEnvX86_64, SetEnvX86_64
  <2> QED
    BY <1>f, <1>g, <2>1, <2>2, <2>3, <2>4, Zenon DEF IInv, TypeOK
<1>2. CASE arch = "x86"
  <2>a. OwnEnvX86(p, current[p], v)
    BY <1>2, Zenon DEF WriteOwnEnv, Accesses
  <2>1. /\ reg' \in [Cpus -> RegSet]
        /\ kstack' \in [Contexts -> KstackSet]
        /\ saved' \in [Contexts -> SavedSet]
        /\ mine' \in [Contexts -> MineSet]
    <3>1. reg' \in [Cpus -> RegSet]
      BY <1>a, <1>e, <1>2, <2>a, RegFields, KstackFields, SavedFields, Zenon DEF TypeOK, OwnEnvX86,
         SetEnvX86
    <3>2. kstack' \in [Contexts -> KstackSet]
      BY <1>a, <1>e, <1>2, <2>a, RegFields, KstackFields, Zenon DEF TypeOK, OwnEnvX86, SetEnvX86
    <3>3. saved' \in [Contexts -> SavedSet]
      BY <1>a, <1>e, <1>2, <2>a, RegFields, SavedFields, Zenon DEF TypeOK, OwnEnvX86, SetEnvX86
    <3>4. mine' \in [Contexts -> MineSet]
      BY <1>a, <1>e, <1>2, <2>a, MineFields, Zenon DEF TypeOK, OwnEnvX86, SetEnvX86
    <3> QED
      BY <3>1, <3>2, <3>3, <3>4, Zenon
  <2>2. \A q \in Cpus : CpuOK(q, current[q])'
    BY <1>a, <1>b, <1>e, <1>2, <2>a DEF TypeOK, RegSet, KstackSet, SavedSet, MineSet, Placed,
       CpuOK, Floats, EnvInKernel, X86, OwnEnvX86, SetEnvX86
  <2>3. \A x \in Contexts : Kept(x)'
    BY <1>a, <1>c, <1>e, <1>2, <2>a DEF TypeOK, SavedSet, MineSet, Kept, OwnEnvX86, SetEnvX86
  <2>4. \A x \in Contexts : ~Running(x)' => StoppedOK(x)'
    BY <1>a, <1>d, <1>e, <1>2, <2>a DEF TypeOK, RegSet, KstackSet, SavedSet, MineSet, StoppedOK,
       Running, EnvStopped, Floats, OwnEnvX86, SetEnvX86
  <2> QED
    BY <1>f, <1>g, <2>1, <2>2, <2>3, <2>4, Zenon DEF IInv, TypeOK
<1>3. CASE arch = "aarch64"
  <2>a. OwnEnvAarch64(p, current[p], v)
    BY <1>3, Zenon DEF WriteOwnEnv, Accesses
  <2>1. /\ reg' \in [Cpus -> RegSet]
        /\ kstack' \in [Contexts -> KstackSet]
        /\ saved' \in [Contexts -> SavedSet]
        /\ mine' \in [Contexts -> MineSet]
    <3>1. reg' \in [Cpus -> RegSet]
      BY <1>a, <1>e, <1>3, <2>a, RegFields, KstackFields, SavedFields, Zenon DEF TypeOK, OwnEnvAarch64
    <3>2. kstack' \in [Contexts -> KstackSet]
      BY <1>a, <1>e, <1>3, <2>a, RegFields, KstackFields, Zenon DEF TypeOK, OwnEnvAarch64
    <3>3. saved' \in [Contexts -> SavedSet]
      BY <1>a, <1>e, <1>3, <2>a, RegFields, SavedFields, Zenon DEF TypeOK, OwnEnvAarch64
    <3>4. mine' \in [Contexts -> MineSet]
      BY <1>a, <1>e, <1>3, <2>a, MineFields, Zenon DEF TypeOK, OwnEnvAarch64
    <3> QED
      BY <3>1, <3>2, <3>3, <3>4, Zenon
  <2>2. \A q \in Cpus : CpuOK(q, current[q])'
    BY <1>a, <1>b, <1>e, <1>3, <2>a DEF TypeOK, RegSet, KstackSet, SavedSet, MineSet, Placed,
       CpuOK, Floats, EnvInKernel, X86, OwnEnvAarch64
  <2>3. \A x \in Contexts : Kept(x)'
    BY <1>a, <1>c, <1>e, <1>3, <2>a DEF TypeOK, SavedSet, MineSet, Kept, OwnEnvAarch64
  <2>4. \A x \in Contexts : ~Running(x)' => StoppedOK(x)'
    BY <1>a, <1>d, <1>e, <1>3, <2>a DEF TypeOK, RegSet, KstackSet, SavedSet, MineSet, StoppedOK,
       Running, EnvStopped, Floats, OwnEnvAarch64
  <2> QED
    BY <1>f, <1>g, <2>1, <2>2, <2>3, <2>4, Zenon DEF IInv, TypeOK
<1>4. CASE arch = "riscv64"
  <2>a. OwnEnvRiscv(p, current[p], v)
    BY <1>4, Zenon DEF WriteOwnEnv, Accesses
  <2>1. /\ reg' \in [Cpus -> RegSet]
        /\ kstack' \in [Contexts -> KstackSet]
        /\ saved' \in [Contexts -> SavedSet]
        /\ mine' \in [Contexts -> MineSet]
    <3>1. reg' \in [Cpus -> RegSet]
      BY <1>a, <1>e, <1>4, <2>a, RegFields, KstackFields, SavedFields, Zenon DEF TypeOK, OwnEnvRiscv,
         SetEnvRiscv
    <3>2. kstack' \in [Contexts -> KstackSet]
      BY <1>a, <1>e, <1>4, <2>a, RegFields, KstackFields, Zenon DEF TypeOK, OwnEnvRiscv, SetEnvRiscv
    <3>3. saved' \in [Contexts -> SavedSet]
      BY <1>a, <1>e, <1>4, <2>a, RegFields, SavedFields, Zenon DEF TypeOK, OwnEnvRiscv, SetEnvRiscv
    <3>4. mine' \in [Contexts -> MineSet]
      BY <1>a, <1>e, <1>4, <2>a, MineFields, Zenon DEF TypeOK, OwnEnvRiscv, SetEnvRiscv
    <3> QED
      BY <3>1, <3>2, <3>3, <3>4, Zenon
  <2>2. \A q \in Cpus : CpuOK(q, current[q])'
    BY <1>a, <1>b, <1>e, <1>4, <2>a DEF TypeOK, RegSet, KstackSet, SavedSet, MineSet, Placed,
       CpuOK, Floats, EnvInKernel, X86, OwnEnvRiscv, SetEnvRiscv
  <2>3. \A x \in Contexts : Kept(x)'
    BY <1>a, <1>c, <1>e, <1>4, <2>a DEF TypeOK, SavedSet, MineSet, Kept, OwnEnvRiscv,
       SetEnvRiscv
  <2>4. \A x \in Contexts : ~Running(x)' => StoppedOK(x)'
    BY <1>a, <1>d, <1>e, <1>4, <2>a DEF TypeOK, RegSet, KstackSet, SavedSet, MineSet, StoppedOK,
       Running, EnvStopped, Floats, OwnEnvRiscv, SetEnvRiscv
  <2> QED
    BY <1>f, <1>g, <2>1, <2>2, <2>3, <2>4, Zenon DEF IInv, TypeOK
<1> QED
  BY <1>1, <1>2, <1>3, <1>4, <1>a, Zenon DEF TypeOK, Archs, X86

(* write_env_regs of a stopped context changes the copy that is loaded next. *)
LEMMA WriteEnvStep ==
  ASSUME IInv, NEW p \in Cpus, NEW c \in Users, NEW v \in Values, WriteEnv(p, c, v)
  PROVE  IInv'
<1> USE Members
<1>a. TypeOK /\ Placed
  BY Zenon DEF IInv
<1>b. \A q \in Cpus : CpuOK(q, current[q])
  BY Zenon DEF IInv
<1>c. \A x \in Contexts : Kept(x)
  BY Zenon DEF IInv
<1>d. \A x \in Contexts : ~Running(x) => StoppedOK(x)
  BY Zenon DEF IInv
<1>e. /\ ~Running(c)
      /\ mine' = [mine EXCEPT ![c].env = v]
      /\ arch' = arch
      /\ current' = current
      /\ mode' = mode
      /\ reg' = reg
      /\ loadable' = loadable
      /\ panicked' = panicked
  BY Zenon DEF WriteEnv
<1>f. /\ arch' \in Archs /\ current' \in [Cpus -> Contexts] /\ mode' \in [Cpus -> {"user", "kernel"}]
      /\ reg' \in [Cpus -> RegSet]
      /\ loadable' \in [Contexts -> BOOLEAN] /\ panicked' \in BOOLEAN
  <2>1. arch' \in Archs /\ current' \in [Cpus -> Contexts] /\ mode' \in [Cpus -> {"user", "kernel"}]
    BY <1>a, <1>e, Zenon DEF TypeOK
  <2>2. reg' \in [Cpus -> RegSet]
    BY <1>a, <1>e, Zenon DEF TypeOK
  <2>3. loadable' \in [Contexts -> BOOLEAN] /\ panicked' \in BOOLEAN
    BY <1>a, <1>e, Zenon DEF TypeOK
  <2> QED
    BY <2>1, <2>2, <2>3, Zenon
<1>g. Placed'
  BY <1>a, <1>e, Zenon DEF TypeOK, Placed
<1>1. CASE arch \in {"x86_64", "fsgsbase"}
  <2>a. SetEnvX86_64(c, v)
    BY <1>1, Zenon DEF WriteEnv
  <2>1. /\ kstack' \in [Contexts -> KstackSet]
        /\ saved' \in [Contexts -> SavedSet]
        /\ mine' \in [Contexts -> MineSet]
    <3>1. kstack' \in [Contexts -> KstackSet]
      BY <1>a, <1>e, <1>1, <2>a, RegFields, KstackFields, Zenon DEF TypeOK, SetEnvX86_64
    <3>2. saved' \in [Contexts -> SavedSet]
      BY <1>a, <1>e, <1>1, <2>a, RegFields, SavedFields, Zenon DEF TypeOK, SetEnvX86_64
    <3>3. mine' \in [Contexts -> MineSet]
      BY <1>a, <1>e, <1>1, <2>a, MineFields, Zenon DEF TypeOK, SetEnvX86_64
    <3> QED
      BY <3>1, <3>2, <3>3, Zenon
  <2>2. \A q \in Cpus : CpuOK(q, current[q])'
    BY <1>a, <1>b, <1>e, <1>1, <2>a DEF TypeOK, RegSet, KstackSet, SavedSet, MineSet, Placed,
       CpuOK, Floats, EnvInKernel, X86, Running, SetEnvX86_64
  <2>3. \A x \in Contexts : Kept(x)'
    BY <1>a, <1>c, <1>e, <1>1, <2>a DEF TypeOK, SavedSet, MineSet, Kept, SetEnvX86_64
  <2>4. \A x \in Contexts : ~Running(x)' => StoppedOK(x)'
    BY <1>a, <1>d, <1>e, <1>1, <2>a DEF TypeOK, RegSet, KstackSet, SavedSet, MineSet, StoppedOK,
       Running, EnvStopped, Floats, SetEnvX86_64
  <2> QED
    BY <1>f, <1>g, <2>1, <2>2, <2>3, <2>4, Zenon DEF IInv, TypeOK
<1>2. CASE arch = "x86"
  <2>a. SetEnvX86(c, v)
    BY <1>2, Zenon DEF WriteEnv
  <2>1. /\ kstack' \in [Contexts -> KstackSet]
        /\ saved' \in [Contexts -> SavedSet]
        /\ mine' \in [Contexts -> MineSet]
    <3>1. kstack' \in [Contexts -> KstackSet]
      BY <1>a, <1>e, <1>2, <2>a, RegFields, KstackFields, Zenon DEF TypeOK, SetEnvX86
    <3>2. saved' \in [Contexts -> SavedSet]
      BY <1>a, <1>e, <1>2, <2>a, RegFields, SavedFields, Zenon DEF TypeOK, SetEnvX86
    <3>3. mine' \in [Contexts -> MineSet]
      BY <1>a, <1>e, <1>2, <2>a, MineFields, Zenon DEF TypeOK, SetEnvX86
    <3> QED
      BY <3>1, <3>2, <3>3, Zenon
  <2>2. \A q \in Cpus : CpuOK(q, current[q])'
    BY <1>a, <1>b, <1>e, <1>2, <2>a DEF TypeOK, RegSet, KstackSet, SavedSet, MineSet, Placed,
       CpuOK, Floats, EnvInKernel, X86, Running, SetEnvX86
  <2>3. \A x \in Contexts : Kept(x)'
    BY <1>a, <1>c, <1>e, <1>2, <2>a DEF TypeOK, SavedSet, MineSet, Kept, SetEnvX86
  <2>4. \A x \in Contexts : ~Running(x)' => StoppedOK(x)'
    BY <1>a, <1>d, <1>e, <1>2, <2>a DEF TypeOK, RegSet, KstackSet, SavedSet, MineSet, StoppedOK,
       Running, EnvStopped, Floats, SetEnvX86
  <2> QED
    BY <1>f, <1>g, <2>1, <2>2, <2>3, <2>4, Zenon DEF IInv, TypeOK
<1>3. CASE arch = "aarch64"
  <2>a. SetEnvAarch64(c, v)
    BY <1>3, Zenon DEF WriteEnv
  <2>1. /\ kstack' \in [Contexts -> KstackSet]
        /\ saved' \in [Contexts -> SavedSet]
        /\ mine' \in [Contexts -> MineSet]
    <3>1. kstack' \in [Contexts -> KstackSet]
      BY <1>a, <1>e, <1>3, <2>a, RegFields, KstackFields, Zenon DEF TypeOK, SetEnvAarch64
    <3>2. saved' \in [Contexts -> SavedSet]
      BY <1>a, <1>e, <1>3, <2>a, RegFields, SavedFields, Zenon DEF TypeOK, SetEnvAarch64
    <3>3. mine' \in [Contexts -> MineSet]
      BY <1>a, <1>e, <1>3, <2>a, MineFields, Zenon DEF TypeOK, SetEnvAarch64
    <3> QED
      BY <3>1, <3>2, <3>3, Zenon
  <2>2. \A q \in Cpus : CpuOK(q, current[q])'
    BY <1>a, <1>b, <1>e, <1>3, <2>a DEF TypeOK, RegSet, KstackSet, SavedSet, MineSet, Placed,
       CpuOK, Floats, EnvInKernel, X86, Running, SetEnvAarch64
  <2>3. \A x \in Contexts : Kept(x)'
    BY <1>a, <1>c, <1>e, <1>3, <2>a DEF TypeOK, SavedSet, MineSet, Kept, SetEnvAarch64
  <2>4. \A x \in Contexts : ~Running(x)' => StoppedOK(x)'
    BY <1>a, <1>d, <1>e, <1>3, <2>a DEF TypeOK, RegSet, KstackSet, SavedSet, MineSet, StoppedOK,
       Running, EnvStopped, Floats, SetEnvAarch64
  <2> QED
    BY <1>f, <1>g, <2>1, <2>2, <2>3, <2>4, Zenon DEF IInv, TypeOK
<1>4. CASE arch = "riscv64"
  <2>a. SetEnvRiscv(c, v)
    BY <1>4, Zenon DEF WriteEnv
  <2>1. /\ kstack' \in [Contexts -> KstackSet]
        /\ saved' \in [Contexts -> SavedSet]
        /\ mine' \in [Contexts -> MineSet]
    <3>1. kstack' \in [Contexts -> KstackSet]
      BY <1>a, <1>e, <1>4, <2>a, RegFields, KstackFields, Zenon DEF TypeOK, SetEnvRiscv
    <3>2. saved' \in [Contexts -> SavedSet]
      BY <1>a, <1>e, <1>4, <2>a, RegFields, SavedFields, Zenon DEF TypeOK, SetEnvRiscv
    <3>3. mine' \in [Contexts -> MineSet]
      BY <1>a, <1>e, <1>4, <2>a, MineFields, Zenon DEF TypeOK, SetEnvRiscv
    <3> QED
      BY <3>1, <3>2, <3>3, Zenon
  <2>2. \A q \in Cpus : CpuOK(q, current[q])'
    BY <1>a, <1>b, <1>e, <1>4, <2>a DEF TypeOK, RegSet, KstackSet, SavedSet, MineSet, Placed,
       CpuOK, Floats, EnvInKernel, X86, Running, SetEnvRiscv
  <2>3. \A x \in Contexts : Kept(x)'
    BY <1>a, <1>c, <1>e, <1>4, <2>a DEF TypeOK, SavedSet, MineSet, Kept, SetEnvRiscv
  <2>4. \A x \in Contexts : ~Running(x)' => StoppedOK(x)'
    BY <1>a, <1>d, <1>e, <1>4, <2>a DEF TypeOK, RegSet, KstackSet, SavedSet, MineSet, StoppedOK,
       Running, EnvStopped, Floats, SetEnvRiscv
  <2> QED
    BY <1>f, <1>g, <2>1, <2>2, <2>3, <2>4, Zenon DEF IInv, TypeOK
<1> QED
  BY <1>1, <1>2, <1>3, <1>4, <1>a, Zenon DEF TypeOK, Archs, X86

(* Writing the interrupt stack is seen by the next return of that context. *)
LEMMA WriteIntStep ==
  ASSUME IInv, NEW p \in Cpus, NEW c \in Users, NEW v \in Values, WriteInt(p, c, v)
  PROVE  IInv'
<1> USE Members
<1>a. TypeOK /\ Placed
  BY Zenon DEF IInv
<1>b. \A q \in Cpus : CpuOK(q, current[q])
  BY Zenon DEF IInv
<1>c. \A x \in Contexts : Kept(x)
  BY Zenon DEF IInv
<1>d. \A x \in Contexts : ~Running(x) => StoppedOK(x)
  BY Zenon DEF IInv
<1>e. /\ mode[p] = "kernel" /\ (c = current[p] \/ ~Running(c))
      /\ kstack' = [kstack EXCEPT ![c].gp = v]
      /\ mine' = [mine EXCEPT ![c].gp = v]
      /\ arch' = arch
      /\ current' = current
      /\ mode' = mode
      /\ reg' = reg
      /\ saved' = saved
      /\ loadable' = loadable
      /\ panicked' = panicked
  BY Zenon DEF WriteInt, Accesses
<1>1. /\ arch' \in Archs /\ current' \in [Cpus -> Contexts] /\ mode' \in [Cpus -> {"user", "kernel"}]
      /\ reg' \in [Cpus -> RegSet]
      /\ kstack' \in [Contexts -> KstackSet]
      /\ saved' \in [Contexts -> SavedSet]
      /\ loadable' \in [Contexts -> BOOLEAN] /\ panicked' \in BOOLEAN
      /\ mine' \in [Contexts -> MineSet]
  <2>1. arch' \in Archs /\ current' \in [Cpus -> Contexts] /\ mode' \in [Cpus -> {"user", "kernel"}]
    BY <1>a, <1>e, Zenon DEF TypeOK
  <2>2. reg' \in [Cpus -> RegSet]
    BY <1>a, <1>e, Zenon DEF TypeOK
  <2>3. kstack' \in [Contexts -> KstackSet]
    BY <1>a, <1>e, RegFields, KstackFields, Zenon DEF TypeOK
  <2>4. saved' \in [Contexts -> SavedSet]
    BY <1>a, <1>e, Zenon DEF TypeOK
  <2>5. loadable' \in [Contexts -> BOOLEAN] /\ panicked' \in BOOLEAN
    BY <1>a, <1>e, Zenon DEF TypeOK
  <2>6. mine' \in [Contexts -> MineSet]
    BY <1>a, <1>e, MineFields, Zenon DEF TypeOK
  <2> QED
    BY <2>1, <2>2, <2>3, <2>4, <2>5, <2>6, Zenon
<1>2. Placed'
  BY <1>a, <1>e, Zenon DEF TypeOK, Placed
<1>3. \A q \in Cpus : CpuOK(q, current[q])'
  BY <1>a, <1>b, <1>e DEF TypeOK, RegSet, KstackSet, SavedSet, MineSet, Placed, CpuOK, Floats,
     EnvInKernel, X86, Running
<1>4. \A x \in Contexts : Kept(x)'
  BY <1>a, <1>c, <1>e DEF TypeOK, SavedSet, MineSet, Kept
<1>5. \A x \in Contexts : ~Running(x)' => StoppedOK(x)'
  BY <1>a, <1>d, <1>e DEF TypeOK, RegSet, KstackSet, SavedSet, MineSet, StoppedOK, Running,
     EnvStopped, Floats
<1> QED
  BY <1>1, <1>2, <1>3, <1>4, <1>5, Zenon DEF IInv, TypeOK

(* set_fx_regs changes a copy; that of a running context is not looked at. *)
LEMMA WriteFloatStep ==
  ASSUME IInv, NEW p \in Cpus, NEW c \in Users, NEW v \in Values, ~panicked, WriteFloat(p, c, v)
  PROVE  IInv'
<1> USE Members
<1>a. TypeOK /\ Placed
  BY Zenon DEF IInv
<1>b. /\ mine' = IF Running(c) \/ panicked' THEN mine ELSE [mine EXCEPT ![c].fp = v]
      /\ arch' = arch
      /\ current' = current
      /\ mode' = mode
      /\ reg' = reg
      /\ kstack' = kstack
      /\ loadable' = loadable
  BY Zenon DEF WriteFloat
<1>c. CASE panicked'
  <2>1. saved' = saved /\ mine' = mine
    BY <1>a, <1>b, <1>c, Zenon DEF WriteFloat, SetFxX86, SetFxAarch64, SetFxRiscv, TypeOK
  <2> QED
    BY <1>b, <1>c, <2>1 DEF IInv, TypeOK, Placed, CpuOK, Kept, StoppedOK, Running, Floats,
       EnvInKernel, EnvStopped
<1>d. CASE ~panicked'
  <2>a. /\ arch # "riscv64" /\ panicked' = panicked
        /\ saved' = [saved EXCEPT ![c].fp = v]
        /\ arch = "aarch64" => loadable[c]
    BY <1>a, <1>d, Zenon DEF WriteFloat, SetFxX86, SetFxAarch64, SetFxRiscv, TypeOK, X86
  <2>b. /\ saved'[c].fp = v /\ saved'[c].k = saved[c].k /\ saved'[c].env = saved[c].env
        /\ saved'[c].io = saved[c].io
        /\ \A x \in Contexts \ {c} : saved'[x] = saved[x]
    BY <1>a, <2>a DEF TypeOK, SavedSet
  <2>c. /\ \A x \in Contexts \ {c} : mine'[x] = mine[x]
        /\ mine'[c].gp = mine[c].gp /\ mine'[c].env = mine[c].env /\ mine'[c].io = mine[c].io
        /\ mine'[c].fp = IF Running(c) THEN mine[c].fp ELSE v
    BY <1>a, <1>b, <1>d DEF TypeOK, MineSet
  <2>1. TypeOK'
    <3>1. saved' \in [Contexts -> SavedSet]
      BY <1>a, <2>a, SavedFields, Zenon DEF TypeOK
    <3>2. mine' \in [Contexts -> MineSet]
      BY <1>a, <1>b, MineFields, Zenon DEF TypeOK
    <3> QED
      BY <1>a, <1>b, <2>a, <3>1, <3>2, Zenon DEF TypeOK
  <2>2. Placed'
    BY <1>a, <1>b, Zenon DEF Placed
  <2>3. ASSUME NEW q \in Cpus
        PROVE  CpuOK(q, current[q])'
    <3>1. CpuOK(q, current[q]) /\ current[q] \in Contexts
      BY <1>a, Zenon DEF IInv, TypeOK
    <3>2. /\ mine'[current[q]].gp = mine[current[q]].gp /\ mine'[current[q]].fp = mine[current[q]].fp
          /\ mine'[current[q]].env = mine[current[q]].env /\ mine'[current[q]].io = mine[current[q]].io
      BY <2>c, <3>1, Zenon DEF Running
    <3> QED
      BY <1>b, <3>1, <3>2, Zenon DEF CpuOK, Floats, EnvInKernel
  <2>4. \A x \in Contexts : Kept(x)'
    BY <1>b, <2>b, <2>c DEF IInv, Kept
  <2>5. ASSUME NEW x \in Contexts, ~Running(x)'
        PROVE  StoppedOK(x)'
    <3>1. StoppedOK(x) /\ ~Running(x)
      BY <1>b, <2>5, Zenon DEF IInv, Running
    <3>2. CASE x = c
      BY <1>b, <2>a, <2>b, <2>c, <3>1, <3>2 DEF StoppedOK, Floats, EnvStopped
    <3>3. CASE x # c
      BY <1>b, <2>b, <2>c, <3>1, <3>3, Zenon DEF StoppedOK, Floats, EnvStopped
    <3> QED
      BY <3>2, <3>3, Zenon
  <2> QED
    BY <2>1, <2>2, <2>3, <2>4, <2>5, Zenon DEF IInv
<1> QED
  BY <1>c, <1>d, Zenon

(* The I/O permission is set in the copy and in the bitmap of this CPU. *)
LEMMA IoplStep ==
  ASSUME IInv, NEW p \in Cpus, Iopl(p)
  PROVE  IInv'
<1> DEFINE c == current[p]
<1>a. TypeOK /\ Placed /\ c \in Contexts
  BY Zenon DEF IInv, TypeOK
<1>b. /\ arch' = arch
      /\ current' = current
      /\ mode' = mode
      /\ kstack' = kstack
      /\ loadable' = loadable
      /\ panicked' = panicked
  BY Zenon DEF Iopl
<1>c. /\ \A x \in Contexts \ {c} : saved'[x] = saved[x]
      /\ saved'[c].k = saved[c].k /\ saved'[c].env = saved[c].env /\ saved'[c].fp = saved[c].fp
      /\ saved'[c].io = TRUE
  BY <1>a DEF Iopl, TypeOK, SavedSet
<1>d. /\ \A x \in Contexts \ {c} : mine'[x] = mine[x]
      /\ mine'[c].gp = mine[c].gp /\ mine'[c].env = mine[c].env /\ mine'[c].fp = mine[c].fp
      /\ mine'[c].io = TRUE
  BY <1>a DEF Iopl, TypeOK, MineSet
<1>e. /\ \A q \in Cpus \ {p} : reg'[q] = reg[q]
      /\ reg'[p].k = reg[p].k /\ reg'[p].gp = reg[p].gp /\ reg'[p].env = reg[p].env
      /\ reg'[p].fp = reg[p].fp /\ reg'[p].stack = reg[p].stack
      /\ reg'[p].io = TRUE
  BY <1>a, Zenon DEF Iopl, TypeOK, RegSet
<1> HIDE DEF c
<1>1. TypeOK'
  <2>1. reg' \in [Cpus -> RegSet]
    BY <1>a, RegFields, Zenon DEF Iopl, TypeOK
  <2>2. saved' \in [Contexts -> SavedSet]
    BY <1>a, SavedFields, Zenon DEF Iopl, TypeOK
  <2>3. mine' \in [Contexts -> MineSet]
    BY <1>a, MineFields, Zenon DEF Iopl, TypeOK
  <2> QED
    BY <1>a, <1>b, <2>1, <2>2, <2>3, Zenon DEF TypeOK
<1>2. Placed'
  BY <1>a, <1>b, Zenon DEF Placed
<1>3. ASSUME NEW q \in Cpus
      PROVE  CpuOK(q, current[q])'
  <2>1. CpuOK(q, current[q]) /\ current[q] \in Contexts
    BY <1>a, Zenon DEF IInv, TypeOK
  <2>2. CASE q = p
    <3>1. current[q] = c
      BY <2>2, Zenon DEF c
    <3>2. reg'[q].io = mine'[c].io
      BY <1>d, <1>e, <2>2, Zenon
    <3> QED
      BY <1>b, <1>d, <1>e, <2>1, <2>2, <3>1, <3>2 DEF CpuOK, Floats, EnvInKernel
  <2>3. CASE q # p
    <3>1. current[q] # c
      BY <1>a, <2>3, Zenon DEF Placed, c
    <3> QED
      BY <1>b, <1>d, <1>e, <2>1, <2>3, <3>1 DEF CpuOK, Floats, EnvInKernel
  <2> QED
    BY <2>2, <2>3, Zenon
<1>4. \A x \in Contexts : Kept(x)'
  BY <1>b, <1>c, <1>d DEF IInv, Kept
<1>5. ASSUME NEW x \in Contexts, ~Running(x)'
      PROVE  StoppedOK(x)'
  <2>1. StoppedOK(x) /\ x # c
    BY <1>b, <1>5, Zenon DEF IInv, Running, c
  <2> QED
    BY <1>b, <1>c, <1>d, <2>1, Zenon DEF StoppedOK, Floats, EnvStopped
<1> QED
  BY <1>1, <1>2, <1>3, <1>4, <1>5, Zenon DEF IInv

(* The invariant is inductive. *)
LEMMA NextStep == IInv /\ [Next]_vars => IInv'
<1> SUFFICES ASSUME IInv, [Next]_vars PROVE IInv'
  BY Zenon
<1>1. CASE Next
  BY <1>1, UserSetsStep, EnterStep, ReturnStep, SwitchToStep, WriteOwnEnvStep, WriteEnvStep,
     WriteIntStep, WriteFloatStep, IoplStep, Zenon DEF Next
<1>2. CASE UNCHANGED vars
  <2>1. TypeOK' /\ Placed'
    BY <1>2, Zenon DEF vars, IInv, TypeOK, Placed
  <2>2. \A q \in Cpus : CpuOK(q, current[q])'
    BY <1>2, Zenon DEF vars, IInv, CpuOK, Floats, EnvInKernel
  <2>3. \A x \in Contexts : Kept(x)'
    BY <1>2, Zenon DEF vars, IInv, Kept
  <2>4. \A x \in Contexts : ~Running(x)' => StoppedOK(x)'
    BY <1>2 DEF vars, IInv, StoppedOK, Running, Floats, EnvStopped
  <2> QED
    BY <2>1, <2>2, <2>3, <2>4, Zenon DEF IInv
<1> QED
  BY <1>1, <1>2, Zenon

(* For every number of CPUs, of contexts and of register values, and on every *)
(* architecture: a context that runs finds its own registers, stack and I/O   *)
(* permission, and the copies of one that does not run are its values.        *)
THEOREM RegistersKept ==
  ASSUME RegistersAssumption
  PROVE  Spec => []RegistersAreOwn
<1>1. Init => IInv
  BY InitIInv, Zenon
<1> QED
  BY <1>1, NextStep, IInvImplies, PTL DEF Spec

-----------------------------------------------------------------------------
(* The start of the processors: Startup.                                    *)

CONSTANTS st_Hw, st_Disabled, st_Bsps, st_None
VARIABLES st_platform, st_bsp, st_pc, st_next, st_CPU_COUNT, st_ap_count, st_args, st_AP_READY,
          st_BSP_READY, st_id, st_stack, st_known, st_lock

Processors == INSTANCE Startup WITH
    Hw <- st_Hw, Disabled <- st_Disabled, Bsps <- st_Bsps, None <- st_None, platform <- st_platform,
    bsp <- st_bsp, pc <- st_pc, next <- st_next, CPU_COUNT <- st_CPU_COUNT, ap_count <- st_ap_count,
    args <- st_args, AP_READY <- st_AP_READY, BSP_READY <- st_BSP_READY, id <- st_id,
    stack <- st_stack, known <- st_known, lock <- st_lock

BspStates == {"loop", "wait", "kmain", "schedule", "switch"}
ApStates == {"off", "boot", "astray", "init", "cpu_id", "spin", "schedule", "switch", "halted"}

CpuNumbers == 0 .. Processors!Cardinality(st_Hw)

StartTypes ==
  /\ st_platform \in {"x86", "madt", "dtb"} /\ st_bsp \in st_Hw
  /\ st_pc \in [st_Hw -> BspStates \cup ApStates]
  /\ st_next \in CpuNumbers /\ (st_platform = "x86" => st_CPU_COUNT \in Nat)
  /\ st_AP_READY \in BOOLEAN /\ st_BSP_READY \in BOOLEAN
  /\ st_id = [c \in st_Hw |-> st_id[c]] /\ st_stack = [c \in st_Hw |-> st_stack[c]]

(* The boot processor leaves its table before anybody schedules.                   *)
FlagInv ==
  /\ st_pc[st_bsp] \in BspStates
  /\ \A c \in st_Hw : c # st_bsp => st_pc[c] \in ApStates
  /\ st_pc[st_bsp] = "wait" => st_next \in st_Hw /\ st_next # st_bsp
  /\ st_BSP_READY <=> st_pc[st_bsp] \notin {"loop", "wait"}
  /\ \A c \in st_Hw : st_pc[c] \in {"schedule", "switch", "halted"} => st_BSP_READY

(* On aarch64 only the boot processor is up.                                       *)
AstrayInv ==
  /\ \A c \in st_Hw : c # st_bsp => st_pc[c] \in {"off", "boot", "astray"}
  /\ st_id[st_bsp] = 0

(* On x86 one processor at a time is between its start and AP_READY, the one that  *)
(* the arguments are for; those that follow it in the table are off.               *)
OrderInv ==
  /\ \A c \in st_Hw : st_pc[c] \in {"boot", "init"} => c = st_next /\ st_pc[st_bsp] = "wait" /\ ~st_AP_READY
  /\ \A c \in st_Hw : st_pc[c] # "astray"
  /\ st_pc[st_bsp] = "wait" => st_args.stack = st_next
  /\ \A c \in st_Hw : c # st_bsp /\ (c > st_next \/ (c = st_next /\ st_pc[st_bsp] # "wait")) => st_pc[c] = "off"
  /\ \A c \in st_Hw : c # st_bsp /\ st_pc[c] \notin {"off", "boot"} => st_stack[c] = c
  /\ st_stack[st_bsp] = st_None

(* The number of the round that is on, or that comes next.                         *)
NextNumber == IF st_pc[st_bsp] = "wait" THEN st_CPU_COUNT - 1 ELSE st_CPU_COUNT

(* Numbers count the rounds.                                                       *)
NumberInv ==
  /\ NextNumber \in Nat \ {0} /\ NextNumber =< st_next + 1
  /\ st_pc[st_bsp] = "wait" => st_args.id = NextNumber
  /\ \A c \in Processors!Up : st_id[c] \in CpuNumbers
  /\ \A c \in Processors!Up : IF st_pc[st_bsp] = "wait" /\ c = st_next THEN st_id[c] = NextNumber ELSE st_id[c] < NextNumber
  /\ \A c, d \in Processors!Up : c # d => st_id[c] # st_id[d]

StartInv ==
  /\ StartTypes /\ FlagInv
  /\ IF st_platform = "x86" THEN OrderInv /\ NumberInv ELSE AstrayInv

(* What the assumption on the constants says. *)
LEMMA StartConstants ==
  ASSUME Processors!StartupAssumption
  PROVE  /\ Processors!Cardinality(st_Hw) \in Nat
         /\ \A c : c \in st_Hw <=> c \in Nat /\ c < Processors!Cardinality(st_Hw)
         /\ \A c : c \in CpuNumbers <=> c \in Nat /\ c =< Processors!Cardinality(st_Hw)
         /\ st_None \notin CpuNumbers
  BY DEF Processors!StartupAssumption, CpuNumbers

(* The boot processor is up. *)
LEMMA BspIsUp ==
  ASSUME StartTypes, FlagInv PROVE st_bsp \in Processors!Up
  BY Zenon DEF StartTypes, FlagInv, Processors!Up, BspStates

(* Before the first entry of the table is looked at. *)
LEMMA StartInitially ==
  ASSUME Processors!StartupAssumption, Processors!Init PROVE StartInv
<1> USE StartConstants DEF Processors!Init
<1>1. StartTypes
  <2>1. (st_platform = "x86" => st_CPU_COUNT \in Nat) /\ st_bsp \in st_Hw /\ st_next \in CpuNumbers
    BY DEF Processors!StartupAssumption
  <2> QED
    BY <2>1, Zenon DEF StartTypes, BspStates, ApStates
<1>2. FlagInv
  BY <1>1, Zenon DEF StartTypes, FlagInv, BspStates, ApStates
<1>3. OrderInv
  BY <1>1, Zenon DEF StartTypes, OrderInv
<1>4. Processors!Up = {st_bsp} /\ st_pc[st_bsp] = "loop" /\ st_id[st_bsp] = 0
  BY <1>1, Zenon DEF StartTypes, Processors!Up
<1>5. st_platform = "x86" => NumberInv
  <2> SUFFICES ASSUME st_platform = "x86" PROVE NumberInv
    BY Zenon
  <2>1. st_CPU_COUNT = 1 /\ NextNumber = 1
    BY <1>4, Zenon DEF NextNumber
  <2> QED
    BY <1>1, <1>4, <2>1 DEF NumberInv
<1>6. AstrayInv
  BY <1>1, <1>4, Zenon DEF StartTypes, AstrayInv
<1> QED
  BY <1>1, <1>2, <1>3, <1>5, <1>6, Zenon DEF StartInv

-----------------------------------------------------------------------------
(* The boot processor *)

(* An entry of the table that is skipped. *)
LEMMA StartSkipStep ==
  ASSUME Processors!StartupAssumption, StartInv, Processors!Skip PROVE StartInv'
<1> USE StartConstants DEF Processors!Skip
<1>a. StartTypes /\ FlagInv /\ st_next' = st_next + 1 /\ st_next \in st_Hw
  BY DEF StartInv, Processors!Entries
<1>b. st_next' \in CpuNumbers
  BY <1>a
<1>1. StartTypes'
  BY <1>a, <1>b, Zenon DEF StartTypes
<1>2. FlagInv'
  BY <1>a, Zenon DEF FlagInv
<1>3. ASSUME OrderInv PROVE OrderInv'
  BY <1>3, <1>a DEF OrderInv, StartTypes
<1>4. ASSUME NumberInv PROVE NumberInv'
  <2>1. Processors!Up' = Processors!Up /\ NextNumber' = NextNumber
    BY Zenon DEF Processors!Up, NextNumber
  <2> QED
    BY <1>4, <1>a, <2>1 DEF NumberInv, StartTypes
<1>5. ASSUME AstrayInv PROVE AstrayInv'
  BY <1>5, Zenon DEF AstrayInv
<1> QED
  BY <1>1, <1>2, <1>3, <1>4, <1>5, Zenon DEF StartInv

(* What StartX86, CpuOn and CpuOnDtb have in common when the processor starts: the *)
(* arguments are those of this round.                                              *)
Started ==
  /\ st_pc[st_bsp] = "loop" /\ st_next \in st_Hw /\ st_next # st_bsp
  /\ st_args' = [id |-> Processors!NewId(st_next), stack |-> st_next]
  /\ st_AP_READY' = FALSE
  /\ st_pc' = [st_pc EXCEPT ![st_bsp] = "wait", ![st_next] = "boot"]
  /\ st_CPU_COUNT' = IF st_platform = "x86" THEN st_CPU_COUNT + 1 ELSE st_CPU_COUNT
  /\ UNCHANGED <<st_platform, st_bsp, st_next, st_BSP_READY, st_id, st_stack>>

(* A processor is started. *)
LEMMA StartStartedStep ==
  ASSUME Processors!StartupAssumption, StartInv, Started PROVE StartInv'
<1> USE StartConstants DEF Started
<1>a. StartTypes /\ FlagInv /\ (st_platform = "x86" => st_CPU_COUNT' \in Nat)
  BY DEF StartInv, StartTypes
<1>b. /\ \A c \in st_Hw : st_pc'[c] = IF c = st_next THEN "boot" ELSE IF c = st_bsp THEN "wait" ELSE st_pc[c]
      /\ st_pc' \in [st_Hw -> BspStates \cup ApStates]
  BY <1>a, Zenon DEF StartTypes, BspStates, ApStates
<1>1. StartTypes'
  BY <1>a, <1>b, Zenon DEF StartTypes
<1>2. FlagInv'
  BY <1>a, <1>b, Zenon DEF FlagInv, StartTypes, BspStates, ApStates
<1>3. ASSUME OrderInv PROVE OrderInv'
  BY <1>3, <1>a, <1>b DEF OrderInv, StartTypes
<1>4. ASSUME OrderInv, NumberInv, st_platform = "x86" PROVE NumberInv'
  <2>1. Processors!Up' = Processors!Up /\ st_next \notin Processors!Up
    <3>1. st_pc[st_next] = "off" /\ st_bsp \in st_Hw
      BY <1>4, <1>a, Zenon DEF OrderInv, StartTypes
    <3> QED
      BY <1>b, <3>1, Zenon DEF Processors!Up
  <2>2. st_pc'[st_bsp] = "wait" /\ st_bsp' = st_bsp
    BY <1>a, <1>b, Zenon DEF StartTypes
  <2>3. NextNumber' = NextNumber
    BY <1>4, <1>a, <2>2 DEF NextNumber, StartTypes
  <2>4. Processors!NewId(st_next) = NextNumber
    BY <1>4, Zenon DEF Processors!NewId, NextNumber
  <2> QED
    BY <1>4, <2>1, <2>2, <2>3, <2>4, Zenon DEF NumberInv
<1>5. ASSUME AstrayInv PROVE AstrayInv'
  BY <1>5, <1>a, <1>b, Zenon DEF AstrayInv, StartTypes
<1> QED
  BY <1>1, <1>2, <1>3, <1>4, <1>5, Zenon DEF StartInv

(* PSCI refuses to start a processor, or the boot processor gives it up. *)
Refused ==
  /\ st_pc[st_bsp] \in {"loop", "wait"} /\ st_next \in st_Hw
  /\ st_AP_READY' \in BOOLEAN /\ st_next' = st_next + 1
  /\ st_platform # "x86"
  /\ st_pc' \in {st_pc, [st_pc EXCEPT ![st_bsp] = "loop"]} /\ st_pc'[st_bsp] = "loop"
  /\ UNCHANGED <<st_platform, st_bsp, st_CPU_COUNT, st_BSP_READY, st_id, st_stack>>

(* The round of a processor that did not come up is over. *)
LEMMA StartRefusedStep ==
  ASSUME Processors!StartupAssumption, StartInv, Refused PROVE StartInv'
<1> USE StartConstants DEF Refused
<1>a. StartTypes /\ FlagInv /\ AstrayInv
  BY Zenon DEF StartInv
<1>b. /\ \A c \in st_Hw : st_pc'[c] = IF c = st_bsp THEN "loop" ELSE st_pc[c]
      /\ st_pc' \in [st_Hw -> BspStates \cup ApStates]
  BY <1>a, Zenon DEF StartTypes, BspStates, ApStates
<1>c. st_next' \in CpuNumbers
  BY StartConstants
<1>1. StartTypes'
  BY <1>a, <1>b, <1>c, Zenon DEF StartTypes
<1>2. FlagInv'
  BY <1>a, <1>b, Zenon DEF FlagInv, StartTypes, BspStates, ApStates
<1>3. AstrayInv'
  BY <1>a, <1>b, Zenon DEF AstrayInv, StartTypes
<1> QED
  BY <1>1, <1>2, <1>3, Zenon DEF StartInv

(* What the boot processor may see of a processor that PSCI was asked to start. *)
LEMMA StartPsciStep ==
  ASSUME Processors!StartupAssumption, StartInv,
         Processors!CpuOn \/ Processors!CpuOnDtb \/ Processors!Timeout
  PROVE  StartInv'
<1>1. st_platform # "x86" /\ st_bsp \in st_Hw /\ st_pc \in [st_Hw -> BspStates \cup ApStates] /\ st_AP_READY \in BOOLEAN
  BY Zenon DEF Processors!CpuOn, Processors!CpuOnDtb, Processors!Timeout, StartInv, StartTypes
<1>2. Processors!Entries \subseteq st_Hw
  BY Zenon DEF Processors!Entries
<1>3. CASE Processors!CpuOn \/ Processors!CpuOnDtb
  <2>1. Started \/ Refused
    BY <1>1, <1>2, <1>3, Zenon DEF Processors!CpuOn, Processors!CpuOnDtb, Processors!PsciOn, Processors!Starts,
       Started, Refused
  <2> QED
    BY <2>1, StartStartedStep, StartRefusedStep, Zenon
<1>4. CASE Processors!Timeout
  <2>1. st_next \in st_Hw
    BY <1>4, Zenon DEF Processors!Timeout, StartInv, FlagInv
  <2>2. Refused
    BY <1>1, <1>4, <2>1, Zenon DEF Processors!Timeout, Processors!Goto, Refused
  <2> QED
    BY <2>2, StartRefusedStep, Zenon
<1> QED
  BY <1>3, <1>4, Zenon

(* INIT and START always start it. *)
LEMMA StartX86Step ==
  ASSUME Processors!StartupAssumption, StartInv, Processors!StartX86 PROVE StartInv'
<1>1. Processors!Entries \subseteq st_Hw
  BY Zenon DEF Processors!Entries
<1>2. Started
  BY <1>1, Zenon DEF Processors!StartX86, Processors!Starts, Started
<1> QED
  BY <1>2, StartStartedStep, Zenon

(* The boot processor has seen AP_READY. *)
LEMMA StartSeesReadyStep ==
  ASSUME Processors!StartupAssumption, StartInv, Processors!SeesReady PROVE StartInv'
<1> USE StartConstants DEF Processors!SeesReady, Processors!Goto
<1>a. StartTypes /\ FlagInv
  BY Zenon DEF StartInv
<1>b. /\ \A c \in st_Hw : st_pc'[c] = IF c = st_bsp THEN "loop" ELSE st_pc[c]
      /\ st_pc' \in [st_Hw -> BspStates \cup ApStates] /\ st_next' = st_next + 1
  BY <1>a, Zenon DEF StartTypes, BspStates, ApStates
<1>0. st_next' \in CpuNumbers
  BY <1>a, <1>b DEF FlagInv, StartTypes
<1>1. StartTypes'
  BY <1>0, <1>a, <1>b, Zenon DEF StartTypes
<1>2. FlagInv'
  BY <1>a, <1>b, Zenon DEF FlagInv, StartTypes, BspStates, ApStates
<1>3. ASSUME OrderInv PROVE OrderInv'
  BY <1>3, <1>a, <1>b DEF OrderInv, StartTypes, FlagInv
<1>4. ASSUME NumberInv, st_platform = "x86" PROVE NumberInv'
  <2>1. Processors!Up' = Processors!Up
    <3>1. st_bsp \in Processors!Up
      BY <1>a, BspIsUp, Zenon
    <3> QED
      BY <1>a, <1>b, <3>1, Zenon DEF Processors!Up, StartTypes
  <2>2. st_bsp' = st_bsp /\ st_pc'[st_bsp] = "loop" /\ st_id' = st_id /\ st_bsp \in st_Hw
    BY <1>a, <1>b, Zenon DEF StartTypes
  <2>3. NextNumber' = NextNumber + 1
    BY <1>4, <1>a, <2>2 DEF NextNumber, StartTypes
  <2>4. \A c \in Processors!Up : st_id[c] \in Nat /\ st_id[c] =< NextNumber
    BY <1>4 DEF NumberInv
  <2>5. /\ NextNumber \in Nat \ {0} /\ NextNumber =< st_next + 1 /\ st_next \in Nat
        /\ \A c \in Processors!Up : st_id[c] \in CpuNumbers
        /\ \A c, d \in Processors!Up : c # d => st_id[c] # st_id[d]
    BY <1>4, <1>a, Zenon DEF NumberInv, StartTypes
  <2>6. NextNumber' \in Nat \ {0} /\ NextNumber' =< st_next' + 1
    BY <1>b, <2>3, <2>5
  <2>7. \A c \in Processors!Up' : st_id'[c] < NextNumber'
    BY <2>1, <2>2, <2>3, <2>4, <2>5
  <2>8. CpuNumbers' = CpuNumbers /\ "loop" # "wait"
    BY Zenon DEF CpuNumbers
  <2> QED
    BY <2>1, <2>2, <2>5, <2>6, <2>7, <2>8 DEF NumberInv
<1>5. ASSUME AstrayInv PROVE AstrayInv'
  BY <1>5, <1>a, <1>b, Zenon DEF AstrayInv, StartTypes
<1> QED
  BY <1>1, <1>2, <1>3, <1>4, <1>5, Zenon DEF StartInv

(* What BspReady and Kmain have in common: the boot processor is past its table. *)
Past ==
  /\ st_pc[st_bsp] \in {"loop", "kmain"}
  /\ \E l \in {"kmain", "schedule"} : Processors!Goto(st_bsp, l)
  /\ st_BSP_READY' = TRUE
  /\ UNCHANGED <<st_platform, st_bsp, st_next, st_CPU_COUNT, st_AP_READY, st_id, st_stack>>

(* The table is done: nobody needs the arguments any more. *)
LEMMA StartPastStep ==
  ASSUME Processors!StartupAssumption, StartInv, Past PROVE StartInv'
<1> USE StartConstants DEF Past, Processors!Goto
<1>a. StartTypes /\ FlagInv
  BY Zenon DEF StartInv
<1>b. PICK l \in {"kmain", "schedule"} :
        /\ \A c \in st_Hw : st_pc'[c] = IF c = st_bsp THEN l ELSE st_pc[c]
        /\ st_pc' \in [st_Hw -> BspStates \cup ApStates]
  BY <1>a DEF StartTypes, BspStates, ApStates
<1>1. StartTypes'
  BY <1>a, <1>b, Zenon DEF StartTypes
<1>2. FlagInv'
  BY <1>a, <1>b, Zenon DEF FlagInv, StartTypes, BspStates, ApStates
<1>3. ASSUME OrderInv PROVE OrderInv'
  BY <1>3, <1>a, <1>b, Zenon DEF OrderInv, StartTypes
<1>4. ASSUME NumberInv PROVE NumberInv'
  <2>1. Processors!Up' = Processors!Up
    <3>1. st_bsp \in Processors!Up
      BY <1>a, BspIsUp, Zenon
    <3> QED
      BY <1>a, <1>b, <3>1, Zenon DEF Processors!Up, StartTypes
  <2>2. st_bsp' = st_bsp /\ st_pc'[st_bsp] = l /\ st_id' = st_id /\ st_pc[st_bsp] # "wait"
    BY <1>a, <1>b, Zenon DEF StartTypes
  <2>3. NextNumber' = NextNumber
    BY <1>b, <2>2, Zenon DEF NextNumber
  <2> QED
    BY <1>4, <1>b, <2>1, <2>2, <2>3 DEF NumberInv
<1>5. ASSUME AstrayInv PROVE AstrayInv'
  BY <1>5, <1>a, <1>b, Zenon DEF AstrayInv, StartTypes
<1> QED
  BY <1>1, <1>2, <1>3, <1>4, <1>5, Zenon DEF StartInv

(* BspReady and kmain. *)
LEMMA StartPastTableStep ==
  ASSUME Processors!StartupAssumption, StartInv, Processors!BspReady \/ Processors!Kmain PROVE StartInv'
<1>1. CASE Processors!BspReady
  <2>1. Past
    BY <1>1, Zenon DEF Processors!BspReady, Past
  <2> QED
    BY <2>1, StartPastStep, Zenon
<1>2. CASE Processors!Kmain
  <2>1. st_BSP_READY = TRUE
    BY <1>2, Zenon DEF Processors!Kmain, StartInv, StartTypes, FlagInv
  <2>2. Past
    BY <1>2, <2>1, Zenon DEF Processors!Kmain, Past
  <2> QED
    BY <2>2, StartPastStep, Zenon
<1> QED
  BY <1>1, <1>2, Zenon

-----------------------------------------------------------------------------
(* A started processor *)

(* It copies the arguments, and they are its own. *)
LEMMA StartTakesStep ==
  ASSUME Processors!StartupAssumption, StartInv, NEW c \in st_Hw, Processors!TakesArgs(c)
  PROVE  StartInv'
<1> USE StartConstants
<1>0. /\ st_pc[c] = "boot" /\ st_pc' = [st_pc EXCEPT ![c] = "init"]
      /\ st_id' = [st_id EXCEPT ![c] = st_args.id]
      /\ st_stack' = [st_stack EXCEPT ![c] = st_args.stack]
      /\ UNCHANGED <<st_platform, st_bsp, st_next, st_CPU_COUNT, st_args, st_AP_READY, st_BSP_READY>>
      /\ st_platform = "x86"
  BY Zenon DEF Processors!TakesArgs, Processors!Goto
<1>a. StartTypes /\ FlagInv
  BY Zenon DEF StartInv
<1>b. /\ \A d \in st_Hw : st_pc'[d] = IF d = c THEN "init" ELSE st_pc[d]
      /\ st_pc' \in [st_Hw -> BspStates \cup ApStates]
      /\ \A d \in st_Hw : st_id'[d] = IF d = c THEN st_args.id ELSE st_id[d]
      /\ \A d \in st_Hw : st_stack'[d] = IF d = c THEN st_args.stack ELSE st_stack[d]
      /\ st_id' = [d \in st_Hw |-> st_id'[d]] /\ st_stack' = [d \in st_Hw |-> st_stack'[d]]
  BY <1>0, <1>a, Zenon DEF StartTypes, BspStates, ApStates
<1>c. c # st_bsp /\ st_pc[c] = "boot"
  BY <1>0, <1>a, Zenon DEF FlagInv, BspStates
<1>1. StartTypes'
  BY <1>0, <1>a, <1>b, Zenon DEF StartTypes
<1>2. FlagInv'
  BY <1>0, <1>a, <1>b, <1>c, Zenon DEF FlagInv, StartTypes, BspStates, ApStates
<1>3. ASSUME OrderInv PROVE OrderInv'
  BY <1>3, <1>0, <1>a, <1>b, <1>c DEF OrderInv, StartTypes
<1>4. ASSUME OrderInv, NumberInv PROVE NumberInv'
  <2>1. c = st_next /\ st_pc[st_bsp] = "wait" /\ st_pc'[st_bsp] = "wait" /\ Processors!Up' = Processors!Up \cup {c} /\ c \notin Processors!Up
    BY <1>4, <1>a, <1>b, <1>c DEF OrderInv, Processors!Up, StartTypes
  <2>2. UNCHANGED <<st_bsp, st_next, st_args>> /\ NextNumber' = NextNumber
    BY <1>0, <2>1, Zenon DEF NextNumber
  <2>3. st_id'[c] = NextNumber /\ NextNumber \in CpuNumbers /\ NextNumber \in Nat
    BY <1>4, <1>b, <2>1, <1>a DEF NumberInv, StartTypes
  <2>4. \A d \in Processors!Up : d # c /\ st_id'[d] = st_id[d] /\ st_id[d] \in CpuNumbers /\ st_id[d] < NextNumber
    BY <1>4, <1>b, <2>1, Zenon DEF NumberInv, Processors!Up
  <2>5. \A d, e \in Processors!Up' : d # e => st_id'[d] # st_id'[e]
    <3>1. \A d \in Processors!Up : st_id'[d] \in Nat /\ st_id'[d] # NextNumber
      BY <2>3, <2>4
    <3>2. \A d, e \in Processors!Up : d # e => st_id'[d] # st_id'[e]
      BY <1>4, <2>4, Zenon DEF NumberInv
    <3> QED
      BY <2>1, <2>3, <3>1, <3>2, Zenon
  <2> QED
    BY <1>4, <2>1, <2>2, <2>3, <2>4, <2>5, Zenon DEF NumberInv
<1> QED
  BY <1>0, <1>1, <1>2, <1>3, <1>4, Zenon DEF StartInv

(* A processor that has no arguments does not come up. *)
LEMMA StartAstrayStep ==
  ASSUME Processors!StartupAssumption, StartInv, NEW c \in st_Hw, Processors!kstart_ap(c)
  PROVE  StartInv'
<1> USE DEF Processors!kstart_ap, Processors!Goto
<1>a. StartTypes /\ FlagInv /\ AstrayInv
  BY Zenon DEF StartInv
<1>b. /\ \A d \in st_Hw : st_pc'[d] = IF d = c THEN "astray" ELSE st_pc[d]
      /\ st_pc' \in [st_Hw -> BspStates \cup ApStates]
  BY <1>a, Zenon DEF StartTypes, BspStates, ApStates
<1>c. c # st_bsp
  BY <1>a, Zenon DEF FlagInv, BspStates
<1>1. StartTypes'
  BY <1>a, <1>b, Zenon DEF StartTypes
<1>2. FlagInv'
  BY <1>a, <1>b, <1>c, Zenon DEF FlagInv, StartTypes, BspStates, ApStates
<1>3. AstrayInv'
  BY <1>a, <1>b, <1>c, Zenon DEF AstrayInv, StartTypes
<1> QED
  BY <1>1, <1>2, <1>3, Zenon DEF StartInv

(* A later step of a processor c, from l to m: it is up, and stays up. *)
Moves(c, l, m) ==
  /\ st_pc[c] = l /\ st_pc' = [st_pc EXCEPT ![c] = m]
  /\ st_AP_READY' \in BOOLEAN
  /\ st_AP_READY' = st_AP_READY \/ l = "init"
  /\ UNCHANGED <<st_platform, st_bsp, st_next, st_CPU_COUNT, st_args, st_BSP_READY, st_id, st_stack>>

(* Such a step leaves numbers and stacks alone. *)
LEMMA StartMovesStep ==
  ASSUME Processors!StartupAssumption, StartInv, NEW c \in st_Hw, NEW l, NEW m, Moves(c, l, m),
         \/ l = "init" /\ m = "cpu_id"
         \/ l = "cpu_id" /\ m = "spin"
         \/ l = "spin" /\ m = "schedule" /\ st_BSP_READY
         \/ l = "schedule" /\ m = "switch"
         \/ l = "switch" /\ m = "schedule"
         \/ l = "switch" /\ m = "halted" /\ c # st_bsp
  PROVE  StartInv'
<1> USE StartConstants DEF Moves
<1>a. StartTypes /\ FlagInv
  BY Zenon DEF StartInv
<1>b. /\ \A d \in st_Hw : st_pc'[d] = IF d = c THEN m ELSE st_pc[d]
      /\ st_pc' \in [st_Hw -> BspStates \cup ApStates]
  BY <1>a, Zenon DEF StartTypes, BspStates, ApStates
<1>c. st_pc[st_bsp] \in {"loop", "wait"} => c # st_bsp /\ st_pc'[st_bsp] = st_pc[st_bsp]
  BY <1>a, <1>b, Zenon DEF StartTypes
<1>d. st_pc'[st_bsp] = "wait" <=> st_pc[st_bsp] = "wait"
  BY <1>a, <1>b, <1>c, Zenon DEF StartTypes
<1>1. StartTypes'
  BY <1>a, <1>b, Zenon DEF StartTypes
<1>2. FlagInv'
  BY <1>a, <1>b, <1>c DEF FlagInv, StartTypes, BspStates, ApStates
<1>3. ASSUME OrderInv PROVE OrderInv'
  <2>1. \A d \in st_Hw : st_pc'[d] \in {"boot", "init"} => st_pc[d] = st_pc'[d] /\ d # c
    BY <1>b, Zenon
  <2>2. \A d \in st_Hw : (st_pc'[d] = "off" <=> st_pc[d] = "off") /\ (st_pc'[d] = "boot" <=> st_pc[d] = "boot")
    BY <1>b, Zenon
  <2>3. \A d \in st_Hw : st_pc'[d] \in {"boot",
           "init"} => d = st_next /\ st_pc[st_bsp] = "wait" /\ ~st_AP_READY'
    BY <1>3, <2>1, Zenon DEF OrderInv
  <2>4. \A d \in st_Hw : st_pc'[d] # "astray"
    BY <1>3, <1>b, Zenon DEF OrderInv
  <2> QED
    BY <1>3, <1>a, <1>d, <2>2, <2>3, <2>4, Zenon DEF OrderInv, StartTypes
<1>4. ASSUME NumberInv PROVE NumberInv'
  <2>1. Processors!Up' = Processors!Up
    BY <1>b, Zenon DEF Processors!Up
  <2>2. UNCHANGED <<st_bsp, st_next, st_args, st_id>> /\ NextNumber' = NextNumber
    BY <1>d, Zenon DEF NextNumber
  <2> QED
    BY <1>4, <1>d, <2>1, <2>2 DEF NumberInv
<1>5. ASSUME AstrayInv PROVE AstrayInv'
  <2>1. c = st_bsp
    BY <1>5, Zenon DEF AstrayInv
  <2> QED
    BY <1>5, <1>a, <1>b, <2>1, Zenon DEF AstrayInv, StartTypes
<1> QED
  BY <1>1, <1>2, <1>3, <1>4, <1>5, Zenon DEF StartInv

(* AP_READY, the wait for BSP_READY, and the scheduler. *)
LEMMA StartProcessorStep ==
  ASSUME Processors!StartupAssumption, StartInv, NEW c \in st_Hw,
         Processors!Signals(c) \/ Processors!ReadsId(c) \/ Processors!KmainAp(c) \/ Processors!TakeLock(c) \/ Processors!Switch(c)
  PROVE  StartInv'
<1> USE DEF Moves, Processors!Goto
<1>0. st_AP_READY \in BOOLEAN
  BY Zenon DEF StartInv, StartTypes
<1>1. CASE Processors!Signals(c)
  <2>1. Moves(c, "init", "cpu_id")
    BY <1>1, Zenon DEF Processors!Signals
  <2> QED
    BY <2>1, StartMovesStep, Zenon
<1>2. CASE Processors!ReadsId(c)
  <2>1. Moves(c, "cpu_id", "spin")
    BY <1>0, <1>2, Zenon DEF Processors!ReadsId
  <2> QED
    BY <2>1, StartMovesStep, Zenon
<1>3. CASE Processors!KmainAp(c)
  <2>1. Moves(c, "spin", "schedule") /\ st_BSP_READY
    BY <1>0, <1>3, Zenon DEF Processors!KmainAp
  <2> QED
    BY <2>1, StartMovesStep, Zenon
<1>4. CASE Processors!TakeLock(c)
  <2>1. Moves(c, "schedule", "switch")
    BY <1>0, <1>4, Zenon DEF Processors!TakeLock
  <2> QED
    BY <2>1, StartMovesStep, Zenon
<1>5. CASE Processors!Switch(c)
  <2>1. Moves(c, "switch", "schedule") \/ (Moves(c, "switch", "halted") /\ c # st_bsp)
    BY <1>0, <1>5, Zenon DEF Processors!Switch
  <2> QED
    BY <2>1, StartMovesStep, Zenon
<1> QED
  BY <1>1, <1>2, <1>3, <1>4, <1>5, Zenon

-----------------------------------------------------------------------------

(* The invariant is inductive. *)
LEMMA StartNext == Processors!StartupAssumption /\ StartInv /\ [Processors!Next]_Processors!vars => StartInv'
<1> SUFFICES ASSUME Processors!StartupAssumption, StartInv,
       [Processors!Next]_Processors!vars PROVE StartInv'
  BY Zenon
<1>1. CASE UNCHANGED Processors!vars
  <2>1. UNCHANGED <<st_platform, st_bsp, st_pc, st_next, st_CPU_COUNT, st_args, st_AP_READY,
           st_BSP_READY, st_id, st_stack>>
    BY <1>1, Zenon DEF Processors!vars
  <2>2. StartTypes' /\ FlagInv' /\ (AstrayInv => AstrayInv')
    BY <2>1, Zenon DEF StartInv, StartTypes, FlagInv, AstrayInv
  <2>3. OrderInv => OrderInv'
    BY <2>1, Zenon DEF OrderInv
  <2>4. Processors!Up' = Processors!Up /\ NextNumber' = NextNumber
    BY <2>1, Zenon DEF Processors!Up, NextNumber
  <2>5. NumberInv => NumberInv'
    BY <2>1, <2>4, Zenon DEF NumberInv
  <2> QED
    BY <2>1, <2>2, <2>3, <2>5, Zenon DEF StartInv
<1>2. CASE Processors!Next
  BY <1>2, StartSkipStep, StartX86Step, StartPsciStep, StartSeesReadyStep,
     StartPastTableStep, StartTakesStep, StartAstrayStep,
     StartProcessorStep, Zenon DEF Processors!Next
<1> QED
  BY <1>1, <1>2, Zenon

(* The invariant says that processors are distinct. *)
LEMMA StartDistinct ==
  ASSUME Processors!StartupAssumption, StartInv PROVE Processors!ProcessorsAreDistinct
<1> USE StartConstants DEF StartInv
<1>1. st_None \notin CpuNumbers /\ st_None \notin st_Hw /\ Processors!Up \subseteq st_Hw
  BY DEF Processors!Up
<1>2. CASE st_platform = "x86"
  <2>1. \A c, d \in Processors!Up : c # d => st_stack[c] # st_stack[d]
    BY <1>1, <1>2, Zenon DEF OrderInv, Processors!Up
  <2> QED
    BY <1>1, <1>2, <2>1, Zenon DEF NumberInv, Processors!ProcessorsAreDistinct
<1>3. CASE st_platform # "x86"
  <2>1. \A c \in Processors!Up : c = st_bsp
    BY <1>3, Zenon DEF AstrayInv, Processors!Up
  <2>2. st_id[st_bsp] # st_None
    <3>1. 0 \in CpuNumbers /\ st_id[st_bsp] = 0
      BY <1>3 DEF AstrayInv
    <3> QED
      BY <1>1, <3>1, Zenon
  <2> QED
    BY <2>1, <2>2, Zenon DEF Processors!ProcessorsAreDistinct
<1> QED
  BY <1>2, <1>3, Zenon

(* For every number of processors and every boot processor: no two processors run  *)
(* with the same cpu_id or on the same stack.  The proof is about x86; on aarch64  *)
(* the processors that PSCI starts never get their arguments.                      *)
THEOREM ProcessorsDistinct ==
  ASSUME Processors!StartupAssumption
  PROVE  Processors!Spec => []Processors!ProcessorsAreDistinct
<1>1. Processors!Init => StartInv
  BY StartInitially, Zenon
<1>2. StartInv /\ [Processors!Next]_Processors!vars => StartInv'
  BY StartNext, Zenon
<1>3. StartInv => Processors!ProcessorsAreDistinct
  BY StartDistinct, Zenon
<1> QED
  BY <1>1, <1>2, <1>3, PTL DEF Processors!Spec

(* Nobody enters the scheduler before the boot processor is done with its table,   *)
(* and then, on x86, every started processor has its arguments.                    *)
THEOREM SchedulingStartsLast ==
  ASSUME Processors!StartupAssumption
  PROVE  Processors!Spec => []Processors!NobodySchedulesEarly
<1>1. Processors!Init => StartInv
  BY StartInitially, Zenon
<1>2. StartInv /\ [Processors!Next]_Processors!vars => StartInv'
  BY StartNext, Zenon
<1>3. StartInv => Processors!NobodySchedulesEarly
  BY Zenon DEF StartInv, FlagInv, OrderInv, Processors!NobodySchedulesEarly
<1> QED
  BY <1>1, <1>2, <1>3, PTL DEF Processors!Spec

-----------------------------------------------------------------------------
(* Futexes, nanosleep and wait conditions: Sleep.                           *)

CONSTANTS sl_Context, sl_Space, sl_WakeCounts, sl_Never, sl_NoContext, sl_MaxTime, sl_MaxWord,
          sl_MaxEntries
VARIABLES sl_status, sl_wake, sl_pc, sl_futexes, sl_lock, sl_word, sl_val, sl_timeout, sl_waitlist,
          sl_pending, sl_now

Sleeping == INSTANCE Sleep WITH
    Context <- sl_Context, Space <- sl_Space, WakeCounts <- sl_WakeCounts, Never <- sl_Never,
    NoContext <- sl_NoContext, MaxTime <- sl_MaxTime, MaxWord <- sl_MaxWord,
    MaxEntries <- sl_MaxEntries, status <- sl_status, wake <- sl_wake, pc <- sl_pc,
    futexes <- sl_futexes, lock <- sl_lock, word <- sl_word, val <- sl_val, timeout <- sl_timeout,
    waitlist <- sl_waitlist, pending <- sl_pending, now <- sl_now

\* The entries of FUTEXES.
FutexEntries == Seq([context : sl_Context, addr_space : {sl_Space[c] : c \in sl_Context}])
\* The places where FUTEXES is locked.
LockHolding == {"check", "block", "push", "waking"}
\* The places where a context is.
SleepPlaces == LockHolding \cup {"user", "futex", "stored", "nanosleep", "take", "wait"}

\* c has an entry in FUTEXES.
InFutexes(c) == \E i \in DOMAIN sl_futexes : sl_futexes[i].context = c

\* A FUTEX_WAKE is still to come after a store, or not finished.
WakePromised == \E d \in sl_Context : sl_pc[d] \in {"stored", "waking"}

\* The types of the state.
SleepTypes ==
    /\ sl_status \in [sl_Context -> {"Runnable", "Blocked"}] /\ sl_pc \in [sl_Context -> SleepPlaces]
    /\ sl_val \in [sl_Context -> Nat] /\ sl_word \in Nat /\ sl_futexes \in FutexEntries

\* The lock is held exactly at its places; a FUTEX_WAKE under way has enough left for every
\* entry; a blocked context has an entry; it, or one that is about to block, waits for the
\* value the word has, unless a FUTEX_WAKE was promised.
SleeperOK(c) ==
    /\ sl_pc[c] \in LockHolding <=> sl_lock = c
    /\ sl_pc[c] \in {"check", "block", "push"} => Len(sl_futexes) < sl_MaxEntries
    /\ sl_pc[c] = "waking" => sl_val[c] >= Len(sl_futexes)
    /\ sl_pc[c] = "futex" /\ sl_status[c] = "Blocked" => InFutexes(c)
    /\ sl_pc[c] \in {"block",
       "push"} \/ (sl_pc[c] = "futex" /\ sl_status[c] = "Blocked") => sl_val[c] = sl_word \/ WakePromised

\* The inductive invariant.
SleepInv ==
    /\ SleepTypes
    /\ Len(sl_futexes) <= sl_MaxEntries
    /\ \A c \in sl_Context : SleeperOK(c)

\* FUTEX_WAIT, which locks FUTEXES, preserves SleepInv.
LEMMA SleepFutexLockKeeps ==
    ASSUME Sleeping!SleepAssumption, Sleeping!WakesAll, SleepInv, NEW c \in sl_Context, NEW t,
           Sleeping!FutexLock(c, t)
    PROVE  SleepInv'
<1> USE DEF Sleeping!FutexLock
<1>1. SleepTypes'
  BY Zenon DEF SleepInv, SleepTypes, SleepPlaces, LockHolding
<1>2. UNCHANGED sl_futexes /\ \A d \in sl_Context : InFutexes(d)' <=> InFutexes(d)
  BY Zenon DEF InFutexes
<1>3. WakePromised => WakePromised'
  BY DEF WakePromised
<1>4. ASSUME NEW d \in sl_Context PROVE SleeperOK(d)'
  BY <1>2, <1>3, Zenon DEF Sleeping!SleepAssumption, SleepInv, SleepTypes, SleeperOK, LockHolding
<1> QED
  BY <1>1, <1>4, Zenon DEF SleepInv

\* EAGAIN of FUTEX_WAIT preserves SleepInv.
LEMMA SleepFutexAgainKeeps ==
    ASSUME Sleeping!SleepAssumption, Sleeping!WakesAll, SleepInv, NEW c \in sl_Context,
           Sleeping!FutexAgain(c)
    PROVE  SleepInv'
<1> USE DEF Sleeping!FutexAgain, Sleeping!Return
<1>1. SleepTypes'
  BY Zenon DEF SleepInv, SleepTypes, SleepPlaces
<1>2. UNCHANGED sl_futexes /\ \A d \in sl_Context : InFutexes(d)' <=> InFutexes(d)
  BY Zenon DEF InFutexes
<1>3. WakePromised => WakePromised'
  BY DEF WakePromised
<1>4. ASSUME NEW d \in sl_Context PROVE SleeperOK(d)'
  BY <1>2, <1>3, Zenon DEF Sleeping!SleepAssumption, SleepInv, SleepTypes, SleeperOK, LockHolding
<1> QED
  BY <1>1, <1>4, Zenon DEF SleepInv

\* The load of FUTEX_WAIT that finds the expected value preserves SleepInv.
LEMMA SleepFutexExpectedKeeps ==
    ASSUME Sleeping!SleepAssumption, Sleeping!WakesAll, SleepInv, NEW c \in sl_Context,
           Sleeping!FutexExpected(c)
    PROVE  SleepInv'
<1> USE DEF Sleeping!FutexExpected
<1>1. SleepTypes'
  BY Zenon DEF SleepInv, SleepTypes, SleepPlaces, LockHolding
<1>2. UNCHANGED sl_futexes /\ \A d \in sl_Context : InFutexes(d)' <=> InFutexes(d)
  BY Zenon DEF InFutexes
<1>3. WakePromised => WakePromised'
  BY DEF WakePromised
<1>4. ASSUME NEW d \in sl_Context PROVE SleeperOK(d)'
  BY <1>2, <1>3, Zenon DEF SleepInv, SleepTypes, SleeperOK, LockHolding
<1> QED
  BY <1>1, <1>4, Zenon DEF SleepInv

\* FUTEX_WAIT that finds a signal preserves SleepInv.
LEMMA SleepFutexInterruptedKeeps ==
    ASSUME Sleeping!SleepAssumption, Sleeping!WakesAll, SleepInv, NEW c \in sl_Context,
           Sleeping!FutexInterrupted(c)
    PROVE  SleepInv'
<1> USE DEF Sleeping!FutexInterrupted, Sleeping!Return
<1>1. SleepTypes'
  BY Zenon DEF SleepInv, SleepTypes, SleepPlaces
<1>2. UNCHANGED sl_futexes /\ \A d \in sl_Context : InFutexes(d)' <=> InFutexes(d)
  BY Zenon DEF InFutexes
<1>3. WakePromised => WakePromised'
  BY DEF WakePromised
<1>4. ASSUME NEW d \in sl_Context PROVE SleeperOK(d)'
  BY <1>2, <1>3, Zenon DEF Sleeping!SleepAssumption, SleepInv, SleepTypes, SleeperOK, LockHolding
<1> QED
  BY <1>1, <1>4, Zenon DEF SleepInv

\* Context::block in FUTEX_WAIT preserves SleepInv.
LEMMA SleepFutexBlockKeeps ==
    ASSUME Sleeping!SleepAssumption, Sleeping!WakesAll, SleepInv, NEW c \in sl_Context,
           Sleeping!FutexBlock(c)
    PROVE  SleepInv'
<1> USE DEF Sleeping!FutexBlock, Sleeping!Blocked, Sleeping!futexVars
<1>1. SleepTypes'
  BY Zenon DEF SleepInv, SleepTypes, SleepPlaces, LockHolding
<1>2. UNCHANGED sl_futexes /\ \A d \in sl_Context : InFutexes(d)' <=> InFutexes(d)
  BY Zenon DEF InFutexes
<1>3. WakePromised => WakePromised'
  BY DEF WakePromised
<1>4. ASSUME NEW d \in sl_Context PROVE SleeperOK(d)'
  BY <1>2, <1>3 DEF SleepInv, SleeperOK, LockHolding
<1> QED
  BY <1>1, <1>4, Zenon DEF SleepInv

\* The store of a new value by user code preserves SleepInv.
LEMMA SleepStoreKeeps ==
    ASSUME Sleeping!SleepAssumption, Sleeping!WakesAll, SleepInv, NEW c \in sl_Context, Sleeping!Store(c)
    PROVE  SleepInv'
<1> USE DEF Sleeping!Store
<1>1. SleepTypes'
  BY DEF SleepInv, SleepTypes, SleepPlaces
<1>2. UNCHANGED sl_futexes /\ \A d \in sl_Context : InFutexes(d)' <=> InFutexes(d)
  BY Zenon DEF InFutexes
<1>3. WakePromised => WakePromised'
  BY DEF WakePromised
<1>4. ASSUME NEW d \in sl_Context PROVE SleeperOK(d)'
  BY <1>2, Zenon DEF SleepInv, SleepTypes, SleeperOK, LockHolding, WakePromised
<1> QED
  BY <1>1, <1>4, Zenon DEF SleepInv

\* FUTEX_WAKE, which locks FUTEXES, preserves SleepInv.
LEMMA SleepFutexWakeKeeps ==
    ASSUME Sleeping!SleepAssumption, Sleeping!WakesAll, SleepInv, NEW c \in sl_Context,
           NEW n \in sl_WakeCounts, Sleeping!FutexWake(c, n)
    PROVE  SleepInv'
<1> USE DEF Sleeping!FutexWake
<1>1. SleepTypes'
  BY Zenon DEF Sleeping!SleepAssumption, SleepInv, SleepTypes, SleepPlaces, LockHolding
<1>2. UNCHANGED sl_futexes /\ \A d \in sl_Context : InFutexes(d)' <=> InFutexes(d)
  BY Zenon DEF InFutexes
<1>3. WakePromised => WakePromised'
  BY DEF WakePromised
<1>4. ASSUME NEW d \in sl_Context PROVE SleeperOK(d)'
  BY <1>2, <1>3 DEF Sleeping!SleepAssumption, Sleeping!WakesAll, SleepInv, SleepTypes, SleeperOK,
     LockHolding
<1> QED
  BY <1>1, <1>4, Zenon DEF SleepInv

\* nanosleep up to its switch() preserves SleepInv.
LEMMA SleepNanosleepKeeps ==
    ASSUME Sleeping!SleepAssumption, Sleeping!WakesAll, SleepInv, NEW c \in sl_Context,
           Sleeping!Nanosleep(c)
    PROVE  SleepInv'
<1> USE DEF Sleeping!Nanosleep, Sleeping!Blocked, Sleeping!futexVars
<1>1. SleepTypes'
  BY Zenon DEF SleepInv, SleepTypes, SleepPlaces
<1>2. UNCHANGED sl_futexes /\ \A d \in sl_Context : InFutexes(d)' <=> InFutexes(d)
  BY Zenon DEF InFutexes
<1>3. WakePromised => WakePromised'
  BY DEF WakePromised
<1>4. ASSUME NEW d \in sl_Context PROVE SleeperOK(d)'
  BY <1>2, <1>3 DEF SleepInv, SleeperOK, LockHolding
<1> QED
  BY <1>1, <1>4, Zenon DEF SleepInv

\* WaitCondition::wait up to its switch() preserves SleepInv.
LEMMA SleepWaitKeeps ==
    ASSUME Sleeping!SleepAssumption, Sleeping!WakesAll, SleepInv, NEW c \in sl_Context, Sleeping!Wait(c)
    PROVE  SleepInv'
<1> USE DEF Sleeping!Wait, Sleeping!Blocked, Sleeping!futexVars
<1>1. SleepTypes'
  BY Zenon DEF SleepInv, SleepTypes, SleepPlaces
<1>2. UNCHANGED sl_futexes /\ \A d \in sl_Context : InFutexes(d)' <=> InFutexes(d)
  BY Zenon DEF InFutexes
<1>3. WakePromised => WakePromised'
  BY DEF WakePromised
<1>4. ASSUME NEW d \in sl_Context PROVE SleeperOK(d)'
  BY <1>2, <1>3 DEF SleepInv, SleeperOK, LockHolding
<1> QED
  BY <1>1, <1>4, Zenon DEF SleepInv

\* The end of FUTEX_WAIT preserves SleepInv.
LEMMA SleepFutexResumeKeeps ==
    ASSUME Sleeping!SleepAssumption, Sleeping!WakesAll, SleepInv, NEW c \in sl_Context,
           Sleeping!FutexResume(c)
    PROVE  SleepInv'
<1> USE DEF Sleeping!FutexResume, Sleeping!Return, Sleeping!Woken, Sleeping!Asleep, Sleeping!futexVars
<1>1. SleepTypes'
  BY Zenon DEF SleepInv, SleepTypes, SleepPlaces
<1>2. UNCHANGED sl_futexes /\ \A d \in sl_Context : InFutexes(d)' <=> InFutexes(d)
  BY Zenon DEF InFutexes
<1>3. WakePromised => WakePromised'
  BY DEF WakePromised
<1>4. ASSUME NEW d \in sl_Context PROVE SleeperOK(d)'
  BY <1>2, <1>3, Zenon DEF SleepInv, SleepTypes, SleeperOK, LockHolding
<1> QED
  BY <1>1, <1>4, Zenon DEF SleepInv

\* The return of the switch() of nanosleep preserves SleepInv.
LEMMA SleepNanosleepResumeKeeps ==
    ASSUME Sleeping!SleepAssumption, Sleeping!WakesAll, SleepInv, NEW c \in sl_Context,
           Sleeping!NanosleepResume(c)
    PROVE  SleepInv'
<1> USE DEF Sleeping!NanosleepResume, Sleeping!Woken, Sleeping!Asleep, Sleeping!futexVars
<1>1. SleepTypes'
  BY Zenon DEF SleepInv, SleepTypes, SleepPlaces
<1>2. UNCHANGED sl_futexes /\ \A d \in sl_Context : InFutexes(d)' <=> InFutexes(d)
  BY Zenon DEF InFutexes
<1>3. WakePromised => WakePromised'
  BY DEF WakePromised
<1>4. ASSUME NEW d \in sl_Context PROVE SleeperOK(d)'
  BY <1>2, <1>3 DEF SleepInv, SleeperOK, LockHolding
<1> QED
  BY <1>1, <1>4, Zenon DEF SleepInv

\* The end of nanosleep preserves SleepInv.
LEMMA SleepNanosleepTakeKeeps ==
    ASSUME Sleeping!SleepAssumption, Sleeping!WakesAll, SleepInv, NEW c \in sl_Context,
           Sleeping!NanosleepTake(c)
    PROVE  SleepInv'
<1> USE DEF Sleeping!NanosleepTake, Sleeping!Return, Sleeping!futexVars
<1>1. SleepTypes'
  BY Zenon DEF SleepInv, SleepTypes, SleepPlaces
<1>2. UNCHANGED sl_futexes /\ \A d \in sl_Context : InFutexes(d)' <=> InFutexes(d)
  BY Zenon DEF InFutexes
<1>3. WakePromised => WakePromised'
  BY DEF WakePromised
<1>4. ASSUME NEW d \in sl_Context PROVE SleeperOK(d)'
  BY <1>2, <1>3 DEF SleepInv, SleeperOK, LockHolding
<1> QED
  BY <1>1, <1>4, Zenon DEF SleepInv

\* The end of WaitCondition::wait preserves SleepInv.
LEMMA SleepWaitResumeKeeps ==
    ASSUME Sleeping!SleepAssumption, Sleeping!WakesAll, SleepInv, NEW c \in sl_Context,
           Sleeping!WaitResume(c)
    PROVE  SleepInv'
<1> USE DEF Sleeping!WaitResume, Sleeping!Return, Sleeping!Woken, Sleeping!Asleep, Sleeping!futexVars
<1>1. SleepTypes'
  BY Zenon DEF SleepInv, SleepTypes, SleepPlaces
<1>2. UNCHANGED sl_futexes /\ \A d \in sl_Context : InFutexes(d)' <=> InFutexes(d)
  BY Zenon DEF InFutexes
<1>3. WakePromised => WakePromised'
  BY DEF WakePromised
<1>4. ASSUME NEW d \in sl_Context PROVE SleeperOK(d)'
  BY <1>2, <1>3 DEF SleepInv, SleeperOK, LockHolding
<1> QED
  BY <1>1, <1>4, Zenon DEF SleepInv

\* The store of a pending signal preserves SleepInv.
LEMMA SleepSignalSetKeeps ==
    ASSUME Sleeping!SleepAssumption, Sleeping!WakesAll, SleepInv, NEW c \in sl_Context,
           Sleeping!SignalSet(c)
    PROVE  SleepInv'
<1> USE DEF Sleeping!SignalSet, Sleeping!futexVars
<1>1. SleepTypes'
  BY Zenon DEF SleepInv, SleepTypes
<1>2. UNCHANGED sl_futexes /\ \A d \in sl_Context : InFutexes(d)' <=> InFutexes(d)
  BY Zenon DEF InFutexes
<1>3. WakePromised => WakePromised'
  BY Zenon DEF WakePromised
<1>4. ASSUME NEW d \in sl_Context PROVE SleeperOK(d)'
  BY <1>2, <1>3, Zenon DEF SleepInv, SleeperOK
<1> QED
  BY <1>1, <1>4, Zenon DEF SleepInv

\* ContextVerb::Interrupt preserves SleepInv.
LEMMA SleepSignalInterruptKeeps ==
    ASSUME Sleeping!SleepAssumption, Sleeping!WakesAll, SleepInv, NEW c \in sl_Context,
           Sleeping!SignalInterrupt(c)
    PROVE  SleepInv'
<1> USE DEF Sleeping!SignalInterrupt, Sleeping!Unblocked, Sleeping!futexVars
<1>1. SleepTypes'
  BY Zenon DEF SleepInv, SleepTypes
<1>2. UNCHANGED sl_futexes /\ \A d \in sl_Context : InFutexes(d)' <=> InFutexes(d)
  BY Zenon DEF InFutexes
<1>3. WakePromised => WakePromised'
  BY Zenon DEF WakePromised
<1>4. ASSUME NEW d \in sl_Context PROVE SleeperOK(d)'
  BY <1>2, <1>3, Zenon DEF SleepInv, SleeperOK
<1> QED
  BY <1>1, <1>4, Zenon DEF SleepInv

\* The end of a signal in user code preserves SleepInv.
LEMMA SleepSignalHandledKeeps ==
    ASSUME Sleeping!SleepAssumption, Sleeping!WakesAll, SleepInv, NEW c \in sl_Context,
           Sleeping!SignalHandled(c)
    PROVE  SleepInv'
<1> USE DEF Sleeping!SignalHandled, Sleeping!futexVars
<1>1. SleepTypes'
  BY Zenon DEF SleepInv, SleepTypes
<1>2. UNCHANGED sl_futexes /\ \A d \in sl_Context : InFutexes(d)' <=> InFutexes(d)
  BY Zenon DEF InFutexes
<1>3. WakePromised => WakePromised'
  BY Zenon DEF WakePromised
<1>4. ASSUME NEW d \in sl_Context PROVE SleeperOK(d)'
  BY <1>2, <1>3, Zenon DEF SleepInv, SleeperOK
<1> QED
  BY <1>1, <1>4, Zenon DEF SleepInv

\* WaitCondition::notify preserves SleepInv.
LEMMA SleepNotifyKeeps ==
    ASSUME Sleeping!SleepAssumption, Sleeping!WakesAll, SleepInv, Sleeping!Notify PROVE SleepInv'
<1> USE DEF Sleeping!Notify, Sleeping!Unblocked, Sleeping!futexVars
<1>1. SleepTypes'
  BY Zenon DEF SleepInv, SleepTypes
<1>2. UNCHANGED sl_futexes /\ \A d \in sl_Context : InFutexes(d)' <=> InFutexes(d)
  BY Zenon DEF InFutexes
<1>3. WakePromised => WakePromised'
  BY Zenon DEF WakePromised
<1>4. ASSUME NEW d \in sl_Context PROVE SleeperOK(d)'
  BY <1>2, <1>3, Zenon DEF SleepInv, SleeperOK
<1> QED
  BY <1>1, <1>4, Zenon DEF SleepInv

\* The clock preserves SleepInv.
LEMMA SleepAdvanceKeeps ==
    ASSUME Sleeping!SleepAssumption, Sleeping!WakesAll, SleepInv, Sleeping!Advance PROVE SleepInv'
<1> USE DEF Sleeping!Advance, Sleeping!futexVars
<1>1. SleepTypes'
  BY Zenon DEF SleepInv, SleepTypes
<1>2. UNCHANGED sl_futexes /\ \A d \in sl_Context : InFutexes(d)' <=> InFutexes(d)
  BY Zenon DEF InFutexes
<1>3. WakePromised => WakePromised'
  BY Zenon DEF WakePromised
<1>4. ASSUME NEW d \in sl_Context PROVE SleeperOK(d)'
  BY <1>2, <1>3, Zenon DEF SleepInv, SleeperOK
<1> QED
  BY <1>1, <1>4, Zenon DEF SleepInv

\* The push of the entry in FUTEX_WAIT, which unlocks FUTEXES, preserves SleepInv.
LEMMA SleepFutexPushKeeps ==
    ASSUME Sleeping!SleepAssumption, Sleeping!WakesAll, SleepInv, NEW c \in sl_Context,
           Sleeping!FutexPush(c)
    PROVE  SleepInv'
<1> DEFINE e == [context |-> c, addr_space |-> sl_Space[c]]
<1>1. /\ sl_pc[c] = "push" /\ sl_lock = c /\ Len(sl_futexes) < sl_MaxEntries /\ Len(sl_futexes) \in Nat /\ sl_futexes \in FutexEntries
      /\ sl_futexes' = Append(sl_futexes,
         e) /\ sl_lock' = sl_NoContext /\ sl_pc' = [sl_pc EXCEPT ![c] = "futex"]
      /\ UNCHANGED <<sl_status, sl_val, sl_word>>
  BY DEF Sleeping!FutexPush, SleepInv, SleepTypes, SleeperOK, LockHolding
<1>2. e \in [context : sl_Context, addr_space : {sl_Space[d] : d \in sl_Context}] /\ e.context = c
  BY Zenon
<1> HIDE DEF e
<1>3. sl_futexes' \in FutexEntries /\ Len(sl_futexes') = Len(sl_futexes) + 1 /\ Len(sl_futexes') <= sl_MaxEntries
  BY <1>1, <1>2 DEF FutexEntries, Sleeping!SleepAssumption
<1>4. SleepTypes'
  BY <1>1, <1>3, Zenon DEF SleepInv, SleepTypes, SleepPlaces
<1>5. InFutexes(c)' /\ \A d \in sl_Context : InFutexes(d) => InFutexes(d)'
  <2>1. sl_futexes'[Len(sl_futexes) + 1].context = c /\ Len(sl_futexes) + 1 \in DOMAIN sl_futexes'
    BY <1>1, <1>2
  <2>2. \A i \in DOMAIN sl_futexes : i \in DOMAIN sl_futexes' /\ sl_futexes'[i] = sl_futexes[i]
    BY <1>1
  <2> QED
    BY <2>1, <2>2, Zenon DEF InFutexes
<1>6. WakePromised => WakePromised'
  BY <1>1 DEF WakePromised
<1>7. ASSUME NEW d \in sl_Context PROVE SleeperOK(d)'
  BY <1>1, <1>5, <1>6, Zenon DEF Sleeping!SleepAssumption, SleepInv, SleepTypes, SleeperOK, LockHolding
<1> QED
  BY <1>3, <1>4, <1>7, Zenon DEF SleepInv

\* A nonempty set of numbers has a least one: FUTEX_WAKE finds the first entry.
LEMMA MinOfNumbers == ASSUME NEW S \in SUBSET Nat, S # {} PROVE Sleeping!Min(S) \in S
<1>1. \E x \in S : \A y \in S : <<y, x>> \notin OpToRel(<, Nat)
  BY NatLessThanWellFounded, WFMin, Zenon
<1>2. PICK x \in S : \A y \in S : <<y, x>> \notin OpToRel(<, Nat)
  BY <1>1, Zenon
<1>3. \A y \in S : x <= y
  <2>1. ASSUME NEW y \in S, y < x PROVE FALSE
    <3>1. <<y, x>> \in OpToRel(<, Nat)
      BY <2>1, Zenon DEF OpToRel
    <3> QED
      BY <1>2, <3>1, Zenon
  <2> QED
    BY <2>1
<1> QED
  BY <1>3, Zenon DEF Sleeping!Min

\* Vec::swap_remove takes out one entry and keeps the others.
LEMMA SwapRemoved ==
    ASSUME NEW T, NEW s \in Seq(T), NEW i \in DOMAIN s
    PROVE  /\ Sleeping!SwapRemove(s, i) \in Seq(T) /\ Len(Sleeping!SwapRemove(s, i)) = Len(s) - 1
           /\ \A j \in DOMAIN s : j # i => \E k \in DOMAIN Sleeping!SwapRemove(s,
              i) : Sleeping!SwapRemove(s, i)[k] = s[j]
<1> DEFINE t == [s EXCEPT ![i] = s[Len(s)]]
           r == SubSeq(t, 1, Len(s) - 1)
<1>1. Len(s) \in Nat \ {0} /\ i \in 1 .. Len(s) /\ DOMAIN s = 1 .. Len(s)
  OBVIOUS
<1>2. t \in Seq(T) /\ Len(t) = Len(s)
  OBVIOUS
<1>3. r \in Seq(T) /\ Len(r) = Len(s) - 1 /\ \A k \in 1 .. Len(s) - 1 : r[k] = t[k]
  BY <1>2
<1>4. Sleeping!SwapRemove(s, i) = r
  BY Zenon DEF Sleeping!SwapRemove
<1>5. ASSUME NEW j \in DOMAIN s, j # i PROVE \E k \in DOMAIN r : r[k] = s[j]
  <2>1. CASE j < Len(s)
    <3>1. j \in DOMAIN r /\ r[j] = s[j]
      BY <1>5, <2>1
    <3> QED
      BY <3>1, Zenon
  <2>2. CASE j = Len(s)
    <3>1. i \in DOMAIN r /\ r[i] = s[j]
      BY <1>5, <2>2
    <3> QED
      BY <3>1, Zenon
  <2> QED
    BY <2>1, <2>2
<1> QED
  BY <1>3, <1>4, <1>5, Zenon

\* A round of FUTEX_WAKE, which takes one entry out and unblocks its context, preserves SleepInv.
LEMMA SleepFutexWakeOneKeeps ==
    ASSUME Sleeping!SleepAssumption, Sleeping!WakesAll, SleepInv, NEW c \in sl_Context,
           Sleeping!FutexWakeOne(c)
    PROVE  SleepInv'
<1> DEFINE i == Sleeping!Min(Sleeping!Matching(c))
           w == sl_futexes[i].context
<1>1. /\ sl_pc[c] = "waking" /\ sl_val[c] > 0 /\ Sleeping!Matching(c) # {} /\ sl_status' = Sleeping!Unblocked({w})
      /\ sl_futexes' = Sleeping!SwapRemove(sl_futexes, i) /\ sl_val' = [sl_val EXCEPT ![c] = @ - 1]
      /\ UNCHANGED <<sl_pc, sl_lock, sl_word>>
  BY Zenon DEF Sleeping!FutexWakeOne
<1>2. i \in DOMAIN sl_futexes
  <2>1. Sleeping!Matching(c) \in SUBSET Nat /\ Sleeping!Matching(c) \subseteq DOMAIN sl_futexes
    BY DEF Sleeping!Matching, SleepInv
  <2>2. i \in Sleeping!Matching(c)
    BY <1>1, <2>1, MinOfNumbers, Zenon
  <2> QED
    BY <2>1, <2>2, Zenon
<1>3. sl_lock = c /\ sl_futexes \in FutexEntries /\ Len(sl_futexes) \in Nat /\ Len(sl_futexes) <= sl_MaxEntries /\ sl_val[c] >= Len(sl_futexes)
  BY <1>1 DEF SleepInv, SleepTypes, SleeperOK, LockHolding
<1> HIDE DEF i
<1>4. /\ sl_futexes' \in FutexEntries /\ Len(sl_futexes') = Len(sl_futexes) - 1
      /\ \A j \in DOMAIN sl_futexes : j # i => \E k \in DOMAIN sl_futexes' : sl_futexes'[k] = sl_futexes[j]
  BY <1>1, <1>2, <1>3, SwapRemoved, Zenon DEF FutexEntries
<1>5. \A d \in sl_Context : InFutexes(d) => d = w \/ InFutexes(d)'
  BY <1>4, Zenon DEF InFutexes
<1> HIDE DEF w
<1>6. SleepTypes'
  BY <1>1, <1>4 DEF SleepInv, SleepTypes, Sleeping!Unblocked
<1>7. /\ sl_status'[w] # "Blocked" \/ w \notin sl_Context
      /\ \A d \in sl_Context : sl_status'[d] = "Blocked" => sl_status[d] = "Blocked"
  BY <1>1, Zenon DEF Sleeping!Unblocked
<1>8. WakePromised'
  BY <1>1, Zenon DEF WakePromised
<1>9. ASSUME NEW d \in sl_Context PROVE SleeperOK(d)'
  <2>1. SleeperOK(d) /\ (sl_pc[d] \in LockHolding => d = c)
    BY <1>3, Zenon DEF SleepInv, SleeperOK
  <2>2. (sl_pc[d] \in LockHolding <=> sl_lock = d)' /\ sl_pc'[d] \notin {"check", "block", "push"}
    BY <1>1, <2>1, Zenon DEF SleeperOK, LockHolding
  <2>3. sl_pc'[d] = "waking" => sl_val'[d] >= Len(sl_futexes')
    BY <1>1, <1>3, <1>4, <2>1 DEF LockHolding, SleepInv, SleepTypes
  <2>4. sl_pc'[d] = "futex" /\ sl_status'[d] = "Blocked" => InFutexes(d)'
    BY <1>1, <1>5, <1>7, <2>1, Zenon DEF SleeperOK
  <2> QED
    BY <1>8, <2>2, <2>3, <2>4, Zenon DEF SleeperOK
<1> QED
  BY <1>4, <1>6, <1>9 DEF SleepInv, Sleeping!SleepAssumption

\* The end of FUTEX_WAKE, which finds no more entries, preserves SleepInv.
LEMMA SleepFutexWakeEndKeeps ==
    ASSUME Sleeping!SleepAssumption, Sleeping!WakesAll, SleepInv, NEW c \in sl_Context,
           Sleeping!FutexWakeEnd(c)
    PROVE  SleepInv'
<1>1. /\ sl_pc[c] = "waking" /\ sl_lock = c /\ sl_val[c] >= Len(sl_futexes) /\ Len(sl_futexes) \in Nat
      /\ sl_lock' = sl_NoContext /\ sl_pc' = [sl_pc EXCEPT ![c] = "user"] /\ sl_val' = [sl_val EXCEPT ![c] = 0]
      /\ UNCHANGED <<sl_status, sl_futexes, sl_word>>
  BY DEF Sleeping!FutexWakeEnd, Sleeping!Return, SleepInv, SleeperOK, LockHolding
<1>2. DOMAIN sl_futexes = {}
  <2>1. CASE sl_val[c] = 0
    BY <1>1, <2>1
  <2>2. CASE Sleeping!Matching(c) = {}
    <3>1. \A i \in DOMAIN sl_futexes : sl_futexes[i].addr_space = sl_Space[c]
      <4> SUFFICES ASSUME NEW i \in DOMAIN sl_futexes PROVE sl_futexes[i].addr_space = sl_Space[c]
        BY Zenon
      <4>1. sl_futexes[i] \in [context : sl_Context, addr_space : {sl_Space[d] : d \in sl_Context}]
        <5>1. sl_futexes \in FutexEntries
          BY Zenon DEF SleepInv, SleepTypes
        <5>2. ASSUME NEW T, sl_futexes \in Seq(T) PROVE sl_futexes[i] \in T
          BY <5>2
        <5> QED
          BY <5>1, <5>2, Zenon DEF FutexEntries
      <4>2. sl_futexes[i].addr_space \in {sl_Space[d] : d \in sl_Context}
        BY <4>1, Zenon
      <4>3. PICK d \in sl_Context : sl_futexes[i].addr_space = sl_Space[d]
        BY <4>2, Zenon
      <4> QED
        BY <4>3, Zenon DEF Sleeping!WakesAll
    <3> QED
      BY <2>2, <3>1, Zenon DEF Sleeping!Matching
  <2> QED
    BY <2>1, <2>2, Zenon DEF Sleeping!FutexWakeEnd
<1>3. \A d \in sl_Context : ~InFutexes(d)
  BY <1>2, Zenon DEF InFutexes
<1>4. SleepTypes'
  BY <1>1, Zenon DEF SleepInv, SleepTypes, SleepPlaces
<1>5. ASSUME NEW d \in sl_Context PROVE SleeperOK(d)'
  BY <1>1, <1>3, Zenon DEF Sleeping!SleepAssumption, SleepInv, SleepTypes, SleeperOK, LockHolding
<1> QED
  BY <1>1, <1>4, <1>5, Zenon DEF SleepInv

\* Nobody sleeps and FUTEXES is empty.
LEMMA SleepInitially == ASSUME Sleeping!SleepAssumption, Sleeping!Init PROVE SleepInv
<1>1. SleepTypes /\ Len(sl_futexes) <= sl_MaxEntries
  BY DEF Sleeping!SleepAssumption, Sleeping!Init, SleepTypes, FutexEntries, SleepPlaces
<1>2. \A c \in sl_Context : SleeperOK(c)
  BY Zenon DEF Sleeping!SleepAssumption, Sleeping!Init, SleeperOK, LockHolding
<1> QED
  BY <1>1, <1>2, Zenon DEF SleepInv

\* Every step of the contexts, of signals and of the clock preserves SleepInv.
LEMMA SleepNext ==
    ASSUME Sleeping!SleepAssumption, Sleeping!WakesAll, SleepInv, [Sleeping!Next]_Sleeping!vars
    PROVE  SleepInv'
<1>1. ASSUME NEW c \in sl_Context, Sleeping!Kernel(c) PROVE SleepInv'
  BY <1>1, SleepFutexAgainKeeps, SleepFutexExpectedKeeps, SleepFutexInterruptedKeeps,
     SleepFutexBlockKeeps, SleepFutexPushKeeps,
     SleepFutexWakeOneKeeps, SleepFutexWakeEndKeeps, SleepFutexResumeKeeps, SleepNanosleepResumeKeeps,
        SleepNanosleepTakeKeeps,
     SleepWaitResumeKeeps, Zenon DEF Sleeping!Kernel
<1>2. ASSUME NEW c \in sl_Context,
             \/ \E t \in Sleeping!Time \cup {sl_Never} : Sleeping!FutexLock(c, t)
             \/ Sleeping!Store(c) \/ \E n \in sl_WakeCounts : Sleeping!FutexWake(c, n)
             \/ Sleeping!Nanosleep(c) \/ Sleeping!Wait(c)
             \/ Sleeping!SignalSet(c) \/ Sleeping!SignalInterrupt(c) \/ Sleeping!SignalHandled(c)
      PROVE  SleepInv'
  BY <1>2, SleepFutexLockKeeps, SleepStoreKeeps, SleepFutexWakeKeeps, SleepNanosleepKeeps,
     SleepWaitKeeps, SleepSignalSetKeeps,
     SleepSignalInterruptKeeps, SleepSignalHandledKeeps, Zenon
<1>3. CASE UNCHANGED Sleeping!vars
  <2>1. SleepTypes' /\ Len(sl_futexes') <= sl_MaxEntries
    BY <1>3, Zenon DEF Sleeping!vars, SleepInv, SleepTypes
  <2>2. \A c \in sl_Context : SleeperOK(c)'
    BY <1>3, Zenon DEF Sleeping!vars, SleepInv, SleeperOK, InFutexes, WakePromised
  <2> QED
    BY <2>1, <2>2, Zenon DEF SleepInv
<1> QED
  BY <1>1, <1>2, <1>3, SleepNotifyKeeps, SleepAdvanceKeeps, Zenon DEF Sleeping!Next

\* SleepInv holds for any contexts, times and values, if FUTEX_WAKE is for all (WakesAll).
THEOREM SleepInvariant ==
    ASSUME Sleeping!SleepAssumption, Sleeping!WakesAll
    PROVE  Sleeping!Spec => []SleepInv
  BY SleepInitially, SleepNext, PTL DEF Sleeping!Spec

\* NoMissedWake of Sleep: whoever sleeps on an old value of the futex word will be reached by
\* a FUTEX_WAKE that is still to come or not finished.
THEOREM NoMissedWakeAlways ==
    ASSUME Sleeping!SleepAssumption, Sleeping!WakesAll
    PROVE  Sleeping!Spec => []Sleeping!NoMissedWake
<1>1. SleepInv => Sleeping!NoMissedWake
  BY Zenon DEF SleepInv, SleeperOK, WakePromised, Sleeping!NoMissedWake
<1> QED
  BY <1>1, SleepInvariant, PTL
=============================================================================
