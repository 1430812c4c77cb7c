------------------------------- MODULE FdPass -------------------------------
(***************************************************************************)
(* File descriptions that travel with a call to a user-space scheme        *)
(* (scheme/user.rs, syscall/fs.rs): a sender's fds move into the waiting   *)
(* call, the handler obtains them (ObtainFd, as one fd or in bulk),        *)
(* attaches its own (MoveFd), or answers with one (ResponseWithFd) or with *)
(* the attached ones (ResponseWithMultipleFds); what is left in the call   *)
(* when it is answered is closed.  File tables are abstracted to slots.    *)
(* A description is reference counted (Arc); only Arc::try_unwrap of the   *)
(* last reference closes it, a plain drop of the last one loses it.        *)
(***************************************************************************)
EXTENDS Naturals, Sequences, FiniteSets, Functions

CONSTANTS Callers,   \* contexts that call the scheme
          Handler,   \* the context that serves it
          Descs,     \* file descriptions
          Slots,     \* entries of a file table (the POSIX or the upper half)
          None

FdPassAssumption == IsFiniteSet(Callers) /\ IsFiniteSet(Slots) /\ None \notin Descs

VARIABLES table,     \* the file table of each context
          state,     \* UserInner.states, one request per caller
          killed,    \* callers that ended their call with EINTR and exit
          dead,      \* callers whose context is gone
          closed     \* descriptions whose try_close has been called

vars == <<table, state, killed, dead, closed>>

Contexts == Callers \cup {Handler}
Calls == {"Sendfd", "Recvfd", "Open"}
Free == [st |-> "Free", call |-> None, fds |-> <<>>, exclusive |-> FALSE, response |-> "None"]

\* Each description begins in one file table, each context has some.
Init ==
  /\ table \in {t \in [Contexts -> [Slots -> Descs \cup {None}]] :
       \A d \in Descs : Cardinality({cs \in Contexts \X Slots : t[cs[1]][cs[2]] = d}) = 1}
  /\ state = [c \in Callers |-> Free]
  /\ killed = {} /\ dead = {}
  /\ closed = {}

\* Arc::strong_count.
Count(d, t, s) ==
  Cardinality({cs \in Contexts \X Slots : t[cs[1]][cs[2]] = d})
    + Cardinality({ci \in Callers \X (1 .. Cardinality(Slots)) :
                     ci[2] <= Len(s[ci[1]].fds) /\ s[ci[1]].fds[ci[2]] = d})
Strong(d) == Count(d, table, state)

Empty(tbl) == {i \in Slots : tbl[i] = None}
Lowest(S) == CHOOSE i \in S : \A j \in S : i <= j

\* validate_handles: a caller names fds in any order, none of them twice.
Lists == {list \in UNION {[1 .. n -> Slots] : n \in 1 .. Cardinality(Slots)} :
            \A j, k \in DOMAIN list : list[j] = list[k] => j = k}

\* bulk_get_files, and what bulk_remove_files leaves.
Files(tbl, list) == [k \in DOMAIN list |-> tbl[list[k]]]
Removed(tbl, S) == [i \in Slots |-> IF i \in S THEN None ELSE tbl[i]]

\* bulk_add_files_posix, bulk_insert_files_upper: all of them, or EMFILE and the vector is dropped.
BulkAdd(tbl, descs) ==
  LET Rank(i) == Cardinality({j \in Empty(tbl) : j <= i})
  IN  IF Len(descs) > Cardinality(Empty(tbl)) THEN tbl
      ELSE [i \in Slots |-> IF tbl[i] = None /\ Rank(i) \in DOMAIN descs THEN descs[Rank(i)] ELSE tbl[i]]

\* bulk_insert_files_upper_manual: into the named slots, all of which must be empty.
BulkInsert(tbl, descs, first) ==
  IF \A k \in DOMAIN descs : first + k - 1 \in Empty(tbl)
  THEN [i \in Slots |-> IF i - first + 1 \in DOMAIN descs THEN descs[i - first + 1] ELSE tbl[i]]
  ELSE tbl

\* bulk_add_fds and bulk_insert_fds for a payload of n fds; a payload of another size is EINVAL.
Delivered(tbl, descs, n) ==
  IF n # Len(descs) THEN {tbl} ELSE {BulkAdd(tbl, descs)} \cup {BulkInsert(tbl, descs, i) : i \in Slots}

-----------------------------------------------------------------------------
\* dup and close of a context's own fd, as far as the counts go.
Dup(c, i) ==
  /\ table[c][i] # None
  /\ Empty(table[c]) # {}
  /\ table' = [table EXCEPT ![c][Lowest(Empty(table[c]))] = table[c][i]]
  /\ UNCHANGED <<state, killed, dead, closed>>

Close(c, i) ==
  /\ table[c][i] # None
  /\ table' = [table EXCEPT ![c][i] = None]
  /\ closed' = IF Strong(table[c][i]) = 1 THEN closed \cup {table[c][i]} ELSE closed
  /\ UNCHANGED <<state, killed, dead>>

\* fdwrite_inner's check, after the fds have left the table: any other reference is EBUSY.
Busy(c, list, clone) ==
  \E i \in Range(list) :
    Count(table[c][i], IF clone THEN table ELSE [table EXCEPT ![c] = Removed(@, Range(list))], state)
      + Cardinality({j \in Range(list) : table[c][j] = table[c][i]}) > 1

\* fdwrite_inner, call_fdwrite and sendfd: clone the fds or take them out of the table; when the check
\* for exclusive use or the scheme refuses, the vector is dropped and the fds do not return.
Take(c, list, clone) ==
  /\ \A i \in Range(list) : table[c][i] # None
  /\ table' = IF clone THEN table ELSE [table EXCEPT ![c] = Removed(@, Range(list))]

\* sendfd to the scheme: UserScheme::kfdwrite starts a call that carries the descriptions.
Sendfd(c, list, clone, exclusive) ==
  /\ state[c].st = "Free"
  /\ Take(c, list, clone)
  /\ state' = IF exclusive /\ Busy(c, list, clone) THEN state
              ELSE [state EXCEPT ![c] = [st |-> "Waiting", call |-> "Sendfd", fds |-> Files(table[c], list),
                                         exclusive |-> exclusive, response |-> "None"]]
  /\ UNCHANGED <<killed, dead, closed>>

\* The scheme has gone (ENODEV): the descriptions that were taken are dropped.
SendNoDevice(c, list, clone) ==
  /\ state[c].st = "Free"
  /\ Take(c, list, clone)
  /\ UNCHANGED <<state, killed, dead, closed>>

\* UserScheme::kfdread, and the calls answered by one fd (kopen, kopenat, kdup).
Call(c, call) ==
  /\ call # "Sendfd"
  /\ state[c].st = "Free"
  /\ state' = [state EXCEPT ![c] = [Free EXCEPT !.st = "Waiting", !.call = call]]
  /\ UNCHANGED <<table, killed, dead, closed>>

\* call_fdwrite on the scheme's socket, handle_movefd: the fds replace what the request carried.
MoveFd(c, list, clone, exclusive) ==
  /\ Take(Handler, list, clone)
  /\ state' = IF state[c].st # "Waiting" \/ (exclusive /\ Busy(Handler, list, clone)) THEN state
              ELSE [state EXCEPT ![c].fds = Files(table[Handler], list), ![c].exclusive = exclusive]
  /\ UNCHANGED <<killed, dead, closed>>

\* ParsedCqe::ObtainFd: fds.take().remove(0), then add_file, or insert_file at a chosen slot.
\* Without a free slot the first description is dropped as the others are.
ObtainFd(c, i) ==
  /\ state[c].st = "Waiting" /\ state[c].fds # <<>>
  /\ state' = [state EXCEPT ![c].fds = <<>>, ![c].exclusive = FALSE]
  /\ table' = IF table[Handler][i] = None THEN [table EXCEPT ![Handler][i] = state[c].fds[1]] ELSE table
  /\ UNCHANGED <<killed, dead, closed>>

\* call_fdread on the scheme's socket, handle_obtainfd.
ObtainFds(c, n) ==
  /\ state[c].st = "Waiting" /\ state[c].fds # <<>>
  /\ state' = [state EXCEPT ![c].fds = <<>>, ![c].exclusive = FALSE]
  /\ \E tbl \in Delivered(table[Handler], state[c].fds, n) : table' = [table EXCEPT ![Handler] = tbl]
  /\ UNCHANGED <<killed, dead, closed>>

\* A caller that is gone leaves no Responded state behind, and its response is dropped.
Answered(c, response, fds) ==
  IF c \in dead THEN [state EXCEPT ![c] = Free]
  ELSE [state EXCEPT ![c] = [@ EXCEPT !.st = "Responded", !.fds = fds, !.exclusive = FALSE,
                                      !.response = response]]

\* Mutant of ToClose: the descriptors of a response nobody takes are closed unasked.
ToClose_All(c) == Range(state[c].fds)

\* to_close: the descriptions of the request that only the request still referred to.
ToClose(c) == {d \in Range(state[c].fds) : Strong(d) = Cardinality({k \in DOMAIN state[c].fds : state[c].fds[k] = d})}

\* respond with a code.
Respond(c) ==
  /\ state[c].st = "Waiting"
  /\ state' = Answered(c, "Regular", <<>>)
  /\ closed' = closed \cup ToClose(c)
  /\ UNCHANGED <<table, killed, dead>>

\* ResponseWithFd: the fd leaves the handler's table before respond looks at the tag.
RespondFd(c, i) ==
  /\ table[Handler][i] # None
  /\ table' = [table EXCEPT ![Handler][i] = None]
  /\ IF state[c].st = "Waiting"
     THEN /\ state' = Answered(c, "Fd", <<table[Handler][i]>>)
          /\ closed' = closed \cup ToClose(c)
     ELSE UNCHANGED <<state, closed>>
  /\ UNCHANGED <<killed, dead>>

\* ResponseWithMultipleFds: the response takes the request's descriptions.
RespondFds(c) ==
  /\ state[c].st = "Waiting"
  /\ state' = Answered(c, "MultipleFds", state[c].fds)
  /\ UNCHANGED <<table, killed, dead, closed>>

\* The caller is woken: states.remove, then the tail of kfdwrite, kfdread or kopen.  An answer of
\* the wrong kind is EIO and drops what it carries.
Return(c, n) ==
  /\ state[c].st = "Responded"
  /\ state' = [state EXCEPT ![c] = Free]
  /\ \E tbl \in CASE state[c].call = "Recvfd" /\ state[c].response = "MultipleFds" ->
                       Delivered(table[c], state[c].fds, n)
                  [] state[c].call = "Open" /\ state[c].response = "Fd" -> {BulkAdd(table[c], state[c].fds)}
                  [] OTHER -> {table[c]} :
       table' = [table EXCEPT ![c] = tbl]
  /\ UNCHANGED <<killed, dead, closed>>

\* SIGKILL: the call ends with EINTR, its state stays Waiting; the exiting context closes its files.
Kill(c) ==
  /\ state[c].st = "Waiting"
  /\ killed' = killed \cup {c}
  /\ table' = [table EXCEPT ![c] = Removed(@, Slots)]
  /\ closed' = closed \cup {d \in Descs : /\ Strong(d) > 0
                                          /\ Strong(d) = Cardinality({i \in Slots : table[c][i] = d})}
  /\ UNCHANGED <<state, dead>>

\* The last Arc of the context is dropped: its weak reference in the request no longer upgrades.
Gone(c) ==
  /\ c \in killed \ dead
  /\ dead' = dead \cup {c}
  /\ UNCHANGED <<table, state, killed, closed>>

Next ==
  \/ \E c \in Contexts, i \in Slots : c \notin killed /\ (Dup(c, i) \/ Close(c, i))
  \/ \E c \in Callers : c \notin killed /\
       \/ \E list \in Lists, clone, exclusive \in BOOLEAN : Sendfd(c, list, clone, exclusive)
       \/ \E list \in Lists, clone \in BOOLEAN : SendNoDevice(c, list, clone)
       \/ \E call \in Calls : Call(c, call)
       \/ \E n \in 1 .. 2 : Return(c, n)
       \/ Kill(c)
  \/ \E c \in Callers, list \in Lists, clone, exclusive \in BOOLEAN : MoveFd(c, list, clone, exclusive)
  \/ \E c \in Callers, i \in Slots : ObtainFd(c, i) \/ RespondFd(c, i)
  \/ \E c \in Callers, n \in 1 .. 2 : ObtainFds(c, n)
  \/ \E c \in Callers : Respond(c) \/ RespondFds(c) \/ Gone(c)

Spec == Init /\ [][Next]_vars

-----------------------------------------------------------------------------
(* A description that a file table, a waiting call or an undelivered       *)
(* answer still refers to has not been closed at its scheme: only the last *)
(* reference closes it, wherever in a transfer that one is.                *)
InUseIsOpen == \A d \in closed : Strong(d) = 0

=============================================================================
