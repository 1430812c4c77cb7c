------------------------------ MODULE Schemes ------------------------------
(***************************************************************************)
(* The list of schemes with its namespaces (scheme/mod.rs), the handles of *)
(* the root schemes through which daemons register theirs (scheme/root.rs),*)
(* mkns (syscall/privilege.rs) and the lookup of open (syscall/fs.rs).     *)
(* Registration takes the lock of the list twice; file descriptions keep   *)
(* the number of a scheme, not the scheme.                                 *)
(***************************************************************************)
EXTENDS Naturals, FiniteSets, FiniteSetsExt, Functions

CONSTANTS
    Daemons,            \* a daemon serves at most one scheme at a time
    Clients,            \* a client has at most one file
    Names,              \* names that daemons choose
    MAX_GLOBAL_SCHEMES,
    SCHEME_MAX_SCHEMES,
    MaxNamespaces,      \* bound on the namespaces, the null namespace aside
    MaxRegistrations,   \* bound on the schemes registered
    Window              \* bound on the registrations that begin while another is under way

\* The global schemes of this model: event is in every namespace, irq only in the root, and
\* null, the last, is not in the list.
Event == 1
Irq == 2
Global(g) == <<"global", g>>
Root(ns) == <<"root", ns>>
User(k) == <<"user", k>>
NoScheme == <<"none", 0>>

SchemesAssumption ==
    /\ Daemons \cap Clients = {}
    /\ MAX_GLOBAL_SCHEMES \in Nat /\ MAX_GLOBAL_SCHEMES > Irq
    /\ SCHEME_MAX_SCHEMES \in Nat \ {0}

VARIABLES
    map,                \* SchemeList.map: number -> scheme
    names,              \* SchemeList.names: namespace -> name -> number
    next_ns, next_id,
    handles,            \* the daemons that have a handle of a root scheme
    pc, task,           \* what a daemon or client does; its namespace, name, number and scheme
    begun,              \* registrations so far: schemes are told apart by their number here
    since,              \* registrations that began since a daemon's own
    wrapped,            \* numbers have been given out again
    panicked            \* an assertion has failed

vars == <<map, names, next_ns, next_id, handles, pc, task, begun, since, wrapped, panicked>>

Tasks == Daemons \cup Clients
NoTask == [ns |-> 0, name |-> "", id |-> 0, scheme |-> NoScheme]

\* insert of a map.
Insert(f, key, value) == [k \in DOMAIN f \cup {key} |-> IF k = key THEN value ELSE f[k]]

\* new_ns: the names every namespace has, and those in f.
Common(f, id) == Insert(Insert(f, "", id), "event", Event)

\* new, with new_null and new_root.
Init ==
    /\ map = Insert([g \in {Event, Irq} |-> Global(g)], MAX_GLOBAL_SCHEMES, Root(1))
    /\ names = [ns \in {0, 1} |-> IF ns = 0 THEN [n \in {} |-> 0]
                                           ELSE Common([n \in {"irq"} |-> Irq], MAX_GLOBAL_SCHEMES)]
    /\ next_ns = 2 /\ next_id = MAX_GLOBAL_SCHEMES + 1
    /\ handles = {}
    /\ pc = [t \in Tasks |-> "idle"] /\ task = [t \in Tasks |-> NoTask]
    /\ begun = 0 /\ since = [d \in Daemons |-> 0]
    /\ wrapped = FALSE /\ panicked = FALSE

\* The next number that no scheme of the list has, from the start again when all were used.
Start == IF next_id >= SCHEME_MAX_SCHEMES THEN 1 ELSE next_id
\* Mutant of Allocated: the smallest number that is free now.
Allocated_Smallest == Min({i \in 1 .. 1 + Cardinality(DOMAIN map) : i \notin DOMAIN map})

Allocated == Min({i \in Start .. Start + Cardinality(DOMAIN map) : i \notin DOMAIN map})
Wraps == wrapped' = (wrapped \/ next_id >= SCHEME_MAX_SCHEMES)

\* get_name: a reserved name has no scheme yet.
get_name(ns, n) == IF n \in DOMAIN names[ns] /\ names[ns][n] \in DOMAIN map THEN {names[ns][n]} ELSE {}

-----------------------------------------------------------------------------
(* RootScheme::kopen with O_CREAT.                                         *)

\* reserve_scheme; EEXIST leaves everything as it was.
Reserve(d, ns, n) ==
    /\ pc[d] = "idle" /\ begun < MaxRegistrations
    /\ n \notin DOMAIN names[ns]
    /\ \A e \in Daemons : pc[e] = "reserved" => since[e] < Window
    /\ begun' = begun + 1 /\ since' = [e \in Daemons |-> IF e = d THEN 0 ELSE IF pc[e] = "reserved" THEN since[e] + 1 ELSE 0]
    /\ task' = [task EXCEPT ![d] = [ns |-> ns, name |-> n, id |-> Allocated, scheme |-> User(begun')]]
    /\ names' = [names EXCEPT ![ns] = Insert(@, n, Allocated)]
    /\ next_id' = Allocated + 1 /\ Wraps
    /\ pc' = [pc EXCEPT ![d] = "reserved"]
    /\ UNCHANGED <<map, next_ns, handles, panicked>>

\* complete_registration
Complete(d) ==
    /\ pc[d] = "reserved"
    /\ panicked' = (panicked \/ task[d].id \in DOMAIN map)
    /\ map' = Insert(map, task[d].id, task[d].scheme)
    /\ pc' = [pc EXCEPT ![d] = "handle"]
    /\ UNCHANGED <<names, next_ns, next_id, handles, task, begun, since, wrapped>>

InsertHandle(d) ==
    /\ pc[d] = "handle"
    /\ handles' = handles \cup {d}
    /\ pc' = [pc EXCEPT ![d] = "serve"]
    /\ UNCHANGED <<map, names, next_ns, next_id, task, begun, since, wrapped, panicked>>

\* close: the handle is removed first, then the scheme, which takes its names with it.
Close(d) ==
    /\ pc[d] = "serve"
    /\ handles' = handles \ {d}
    /\ pc' = [pc EXCEPT ![d] = "close"]
    /\ UNCHANGED <<map, names, next_ns, next_id, task, begun, since, wrapped, panicked>>

remove(d) ==
    LET id == task[d].id IN
    /\ pc[d] = "close"
    /\ panicked' = (panicked \/ id \notin DOMAIN map)
    /\ map' = Restrict(map, DOMAIN map \ {id})
    /\ names' = [ns \in DOMAIN names |-> Restrict(names[ns], {n \in DOMAIN names[ns] : names[ns][n] # id})]
    /\ pc' = [pc EXCEPT ![d] = "idle"] /\ task' = [task EXCEPT ![d] = NoTask]
    /\ UNCHANGED <<next_ns, next_id, handles, begun, since, wrapped>>

-----------------------------------------------------------------------------
\* make_ns: a new namespace with a root scheme of its own and some of the names.  One that is
\* not found, or is there already, ends it, but what was made stays, as if less was wanted.
make_ns(from, wanted) ==
    LET copied == {n \in wanted \ {"", "event"} : get_name(from, n) # {}}
    IN  /\ next_ns <= MaxNamespaces /\ begun < MaxRegistrations
        /\ begun' = begun + 1
        /\ next_ns' = next_ns + 1
        /\ map' = Insert(map, Allocated, Root(next_ns))
        /\ names' = Insert(names, next_ns, Common([n \in copied |-> names[from][n]], Allocated))
        /\ next_id' = Allocated + 1 /\ Wraps
        /\ UNCHANGED <<handles, pc, task, since, panicked>>

-----------------------------------------------------------------------------
(* open, and the calls on an open file.                                    *)

Lookup(c, ns, n) ==
    /\ pc[c] = "idle"
    /\ \E id \in get_name(ns, n) :
        task' = [task EXCEPT ![c] = [ns |-> ns, name |-> n, id |-> id, scheme |-> map[id]]]
    /\ pc' = [pc EXCEPT ![c] = "open"]
    /\ UNCHANGED <<map, names, next_ns, next_id, handles, begun, since, wrapped, panicked>>

\* The call to the scheme: a daemon that closed its handle is no longer there, ENODEV.
Alive(s) == s \in {map[i] : i \in DOMAIN map} /\ \A d \in Daemons : task[d].scheme = s => d \in handles

Opened(c) ==
    /\ pc[c] = "open"
    /\ pc' = [pc EXCEPT ![c] = IF Alive(task[c].scheme) THEN "file" ELSE "idle"]
    /\ task' = IF Alive(task[c].scheme) THEN task ELSE [task EXCEPT ![c] = NoTask]
    /\ UNCHANGED <<map, names, next_ns, next_id, handles, begun, since, wrapped, panicked>>

CloseFile(c) ==
    /\ pc[c] = "file"
    /\ pc' = [pc EXCEPT ![c] = "idle"] /\ task' = [task EXCEPT ![c] = NoTask]
    /\ UNCHANGED <<map, names, next_ns, next_id, handles, begun, since, wrapped, panicked>>

-----------------------------------------------------------------------------
Next ==
    \/ \E d \in Daemons :
        \/ \E ns \in 1 .. next_ns - 1, n \in Names : Reserve(d, ns, n)
        \/ Complete(d) \/ InsertHandle(d) \/ Close(d) \/ remove(d)
    \/ \E from \in 0 .. next_ns - 1 : \E wanted \in SUBSET (Names \cup {"irq"}) : make_ns(from, wanted)
    \/ \E c \in Clients :
        \/ \E ns \in 1 .. next_ns - 1, n \in Names : Lookup(c, ns, n)
        \/ Opened(c) \/ CloseFile(c)

Spec == Init /\ [][Next]_vars

-----------------------------------------------------------------------------
\* No name dangles and no assertion of the list fails: the number of every name in every
\* namespace is that of a scheme, or is reserved by one registration that is under way,
\* although registrations, removals and copies of namespaces overlap.  Numbers may have
\* been used before; fewer registrations begin during another than there are numbers.
NamesResolve ==
    /\ ~panicked
    /\ \A ns \in DOMAIN names : \A n \in DOMAIN names[ns] :
        names[ns][n] \in DOMAIN map \cup {task[d].id : d \in {e \in Daemons : pc[e] = "reserved"}}

\* A file reaches the scheme that opened it or none, until the numbers are used again: the
\* number in a description never stands for a scheme registered later.
FilesReachOwner ==
    ~wrapped => \A c \in Clients : pc[c] = "file" /\ task[c].id \in DOMAIN map
                                   => map[task[c].id] = task[c].scheme
=============================================================================
