------------------------------- MODULE FdTbl --------------------------------
(***************************************************************************)
(* The table of file descriptors of a context, struct FdTbl in             *)
(* context/context.rs: two vectors of optional files and a count of the    *)
(* files in both.  Every operation runs under the lock of the table, and   *)
(* is one step here.                                                       *)
(***************************************************************************)
EXTENDS Integers, Sequences, FiniteSets

CONSTANTS
    File,                   \* file descriptors, the Rust values
    CONTEXT_MAX_FILES,
    MaxBulk,                \* bound on the files in one bulk operation
    None

FdTblAssumption ==
    /\ CONTEXT_MAX_FILES \in Nat /\ MaxBulk \in Nat
    /\ None \notin File

Tables == {"posix", "upper"}    \* a handle is tagged (UPPER_FDTBL_TAG) or not

VARIABLES
    fdtbl,          \* posix_fdtbl and upper_fdtbl
    active_count

vars == <<fdtbl, active_count>>

Init ==
    /\ fdtbl = [b \in Tables |-> <<>>]
    /\ active_count = 0

-----------------------------------------------------------------------------

\* Index i of a Rust vector is place i + 1 of a sequence.
Get(v, i) == IF i < Len(v) THEN v[i + 1] ELSE None
Resize(v, n) == [k \in 1 .. (IF n > Len(v) THEN n ELSE Len(v)) |-> Get(v, k - 1)]

\* Store the files at the indices idx, in that order, in a vector that is long enough.
Store(v, idx, files) ==
    [k \in 1 .. Len(v) |->
        IF \E n \in 1 .. Len(idx) : idx[n] = k - 1
        THEN files[CHOOSE n \in 1 .. Len(idx) : idx[n] = k - 1] ELSE v[k]]

\* The handles that are open, and those of a table that are free from min on.
Open == {<<b, i>> \in Tables \X (0 .. Len(fdtbl["posix"]) + Len(fdtbl["upper"])) : Get(fdtbl[b], i) # None}
FreeFrom(b, min) == {i \in min .. Len(fdtbl[b]) - 1 : Get(fdtbl[b], i) = None}
Least(S) == CHOOSE x \in S : \A y \in S : x <= y

Full(count) == active_count + count > CONTEXT_MAX_FILES

\* Put files at indices of table b, growing it to at least n places.
Put(b, n, idx, files) ==
    /\ fdtbl' = [fdtbl EXCEPT ![b] = Store(Resize(@, n), idx, files)]
    /\ active_count' = active_count + Len(files)

\* An operation that fails changes nothing.
Fail == UNCHANGED <<fdtbl, active_count>>

-----------------------------------------------------------------------------

\* insert_file.
InsertFile(b, i, f) ==
    IF Full(1) \/ i >= CONTEXT_MAX_FILES \/ Get(fdtbl[b], i) # None THEN Fail
    ELSE Put(b, i + 1, <<i>>, <<f>>)

\* add_file and add_file_min.
AddFileMin(b, min, f) ==
    IF Full(1) THEN Fail
    ELSE LET n == Len(fdtbl[b]) IN
         IF FreeFrom(b, min) # {} \/ n >= min
         THEN LET i == IF FreeFrom(b, min) # {} THEN Least(FreeFrom(b, min)) ELSE n IN
              Put(b, i + 1, <<i>>, <<f>>)
         ELSE InsertFile(b, min, f)

\* find_free_posix_slots: the first free indices, then new ones.
FreeSlots(v, count) ==
    LET free == {i \in 0 .. Len(v) + count - 1 : Get(v, i) = None} IN
    [n \in 1 .. count |-> CHOOSE i \in free : Cardinality({j \in free : j <= i}) = n]

\* bulk_add_files_posix.
BulkAddFilesPosix(files) ==
    IF Full(Len(files)) THEN Fail
    ELSE LET handles == FreeSlots(fdtbl["posix"], Len(files)) IN
         Put("posix", handles[Len(files)] + 1, handles, files)

\* The loop of find_free_upper_block after i places: a run of free ones so far.
Scan(v, len) ==
    LET scan[i \in 0 .. Len(v)] ==
            IF i = 0 THEN [start |-> 0, count |-> 0]
            ELSE LET s == scan[i - 1] IN
                 IF s.count = len THEN s
                 ELSE IF v[i] # None THEN [s EXCEPT !.count = 0]
                 ELSE [start |-> IF s.count = 0 THEN i - 1 ELSE s.start, count |-> s.count + 1]
    IN  scan[Len(v)]

\* find_free_upper_block: the run found, or the one at the end of the vector, which
\* Put makes long enough.
FreeBlock(v, len) ==
    LET s == Scan(v, len) IN IF s.count = 0 THEN Len(v) ELSE s.start

\* bulk_insert_files_upper.
BulkInsertFilesUpper(files) ==
    IF Full(Len(files)) THEN Fail
    ELSE LET start == FreeBlock(fdtbl["upper"], Len(files))
             handles == [k \in 1 .. Len(files) |-> start + k - 1] IN
         Put("upper", start + Len(files), handles, files)

\* A handle may be named twice.
FreeSlotsValid_Twice(handles) ==
    \A k \in 1 .. Len(handles) :
        handles[k] < CONTEXT_MAX_FILES /\ Get(fdtbl["upper"], handles[k]) = None

\* validate_free_slots: in range, no duplicates, all free.
FreeSlotsValid(handles) ==
    \A k \in 1 .. Len(handles) :
        /\ handles[k] < CONTEXT_MAX_FILES
        /\ Get(fdtbl["upper"], handles[k]) = None
        /\ \A l \in 1 .. k - 1 : handles[l] # handles[k]

\* bulk_insert_files_upper_manual, with the tags that bulk_insert_fds adds.
BulkInsertFilesUpperManual(files, handles) ==
    IF Len(handles) # Len(files) \/ Full(Len(files)) \/ ~FreeSlotsValid(handles) THEN Fail
    ELSE LET top == -Least({-handles[k] : k \in 1 .. Len(handles)}) IN
         Put("upper", top + 1, handles, files)

\* remove_file: the vectors never shrink.
RemoveFile(b, i) ==
    IF Get(fdtbl[b], i) = None THEN Fail
    ELSE /\ fdtbl' = [fdtbl EXCEPT ![b] = Store(@, <<i>>, <<None>>)]
         /\ active_count' = active_count - 1

\* validate_handles, as in bulk_remove_files and bulk_get_files: <<table, index>>
\* pairs in range, without duplicates, all open.
HandlesValid(handles) ==
    \A k \in 1 .. Len(handles) :
        /\ handles[k][2] < CONTEXT_MAX_FILES
        /\ Get(fdtbl[handles[k][1]], handles[k][2]) # None
        /\ \A l \in 1 .. k - 1 : handles[l] # handles[k]

\* bulk_remove_files.
BulkRemoveFiles(handles) ==
    IF ~HandlesValid(handles) THEN Fail
    ELSE /\ fdtbl' = [b \in Tables |->
                        [k \in 1 .. Len(fdtbl[b]) |->
                            IF \E n \in 1 .. Len(handles) : handles[n] = <<b, k - 1>>
                            THEN None ELSE fdtbl[b][k]]]
         /\ active_count' = active_count - Len(handles)

\* force_close_all.
ForceCloseAll ==
    /\ fdtbl' = [b \in Tables |-> [k \in 1 .. Len(fdtbl[b]) |-> None]]
    /\ active_count' = 0

-----------------------------------------------------------------------------

Index == 0 .. CONTEXT_MAX_FILES     \* the indices that are asked for
Bulk(S) == UNION {[1 .. n -> S] : n \in 1 .. MaxBulk}

Next ==
    \/ \E b \in Tables, i \in Index, f \in File :
        AddFileMin(b, i, f) \/ InsertFile(b, i, f)
    \/ \E b \in Tables : \E i \in 0 .. Len(fdtbl[b]) : RemoveFile(b, i)
    \/ \E files \in Bulk(File) :
        \/ BulkAddFilesPosix(files) \/ BulkInsertFilesUpper(files)
        \/ \E handles \in Bulk(Index) : BulkInsertFilesUpperManual(files, handles)
    \/ \E handles \in Bulk(Tables \X Index) : BulkRemoveFiles(handles)
    \/ ForceCloseAll

Spec == Init /\ [][Next]_vars

-----------------------------------------------------------------------------
(* Properties                                                               *)

\* active_count, on which every limit check relies, is the number of open files in
\* both tables, after any mixture of single and bulk operations.
ActiveCountIsExact == active_count = Cardinality(Open)

=============================================================================
