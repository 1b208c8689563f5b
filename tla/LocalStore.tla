----------------------------- MODULE LocalStore -----------------------------
(***************************************************************************)
(* LocalDevClientBase: one client object on mocks/<file>.json, shared by   *)
(* several threads.  Writers read, change and replace the file under       *)
(* _lock; readers take no lock.  A write goes to <file>.json.tmp and then  *)
(* over the file with os.replace.  The process may crash at any step, and  *)
(* a developer may delete the file between calls.                          *)
(***************************************************************************)
EXTENDS StoreOperations

CONSTANTS
    Threads,
    NoThread,      \* _lock is free
    NoFile,        \* the path does not exist
    Truncated,     \* the file has been opened for writing and is incomplete
    MaxCalls,      \* bound: calls made by all threads
    MaxFaults      \* bound: crashes of the process and deletions of the file

ASSUME LockAssumption == NoThread \notin Threads
ASSUME FileAssumption == {NoFile, Truncated} \cap [Levels -> Seq(Entry)] = {}
ASSUME NamesAssumption == Names # {}
ASSUME BoundsAssumption == MaxCalls \in Nat /\ MaxFaults \in Nat

VARIABLES
    kind,      \* which of the three clients the object is
    file,      \* what a reader of the path finds: whole data or NoFile
    tmp,       \* the temporary path: NoFile, a truncated file or whole data
    lock,      \* holder of _lock
    pc,        \* per thread: the statement to run next
    call,      \* per thread: its last operation
    changed,   \* per thread: the data about to be written
    answer,    \* per thread: the answer of its last operation
    calls, faults

vars == <<kind, file, tmp, lock, pc, call, changed, answer, calls, faults>>

NoCall == [op |-> "none"]

\* bound: what a developer has prepared, for one name
Of(k) == <<[name |-> CHOOSE n \in Names : TRUE, tenant |-> k,
            value |-> Prepared, labels |-> {}]>>

Init ==
    /\ kind \in Kinds
    /\ \E k \in Tenants :
          file \in [instance: {Of(k)},
                    subaccount: {<<>>, Of(NoTenant), Of(k), Of(k) \o Of(NoTenant)}]
    /\ tmp = NoFile
    /\ lock = NoThread
    /\ pc = [t \in Threads |-> "idle"]
    /\ call = [t \in Threads |-> NoCall]
    /\ changed = [t \in Threads |-> EmptyData]
    /\ answer = [t \in Threads |-> Ok]
    /\ calls = 0 /\ faults = 0

Goto(t, from, to) == pc[t] = from /\ pc' = [pc EXCEPT ![t] = to]
Answers(t, a) == answer' = [answer EXCEPT ![t] = a]

Call(t) ==
    /\ calls < MaxCalls
    /\ \E o \in Operations(kind) :
          /\ call' = [call EXCEPT ![t] = o]
          /\ Goto(t, "idle", IF IsWrite(o) THEN "lock"
                             ELSE IF IsRead(o) THEN "open" ELSE "refuse")
    /\ calls' = calls + 1
    /\ UNCHANGED <<kind, file, tmp, lock, changed, answer, faults>>

Refuse(t) ==
    /\ Goto(t, "refuse", "done")
    /\ Answers(t, NoTenantGiven)
    /\ UNCHANGED <<kind, file, tmp, lock, call, changed, calls, faults>>

-----------------------------------------------------------------------------
(* Readers *)

\* a missing file reads as the initial data, after _ensure_file
ReadFile(t) ==
    /\ IF file = NoFile
       THEN /\ Goto(t, "open", "ensure")
            /\ Answers(t, Perform(EmptyData, call[t]).answer)
       ELSE /\ Goto(t, "open", "done")
            /\ Answers(t, Perform(file, call[t]).answer)
    /\ UNCHANGED <<kind, file, tmp, lock, call, changed, calls, faults>>

EnsureExists(t) ==
    /\ Goto(t, "ensure", IF file = NoFile THEN "ensure_lock" ELSE "done")
    /\ UNCHANGED <<kind, file, tmp, lock, call, changed, answer, calls, faults>>

EnsureLocked(t) ==
    /\ lock = NoThread
    /\ lock' = t
    /\ changed' = [changed EXCEPT ![t] = EmptyData]
    /\ Goto(t, "ensure_lock", IF file = NoFile THEN "ensure_open" ELSE "unlock")
    /\ UNCHANGED <<kind, file, tmp, call, answer, calls, faults>>

-----------------------------------------------------------------------------
(* Writers *)

AcquireLock(t) ==
    /\ lock = NoThread
    /\ lock' = t
    /\ Goto(t, "lock", "load")
    /\ UNCHANGED <<kind, file, tmp, call, changed, answer, calls, faults>>

\* _read under the lock; an entity that exists already, or does not, is an
\* HttpError with status 409 or 404
LoadAndChange(t) ==
    /\ file # NoFile
    /\ LET r == Perform(file, call[t])
       IN  IF r.answer = Ok
           THEN /\ Goto(t, "load", "open_tmp")
                /\ changed' = [changed EXCEPT ![t] = r.data]
                /\ UNCHANGED answer
           ELSE /\ Goto(t, "load", "unlock")
                /\ Answers(t, r.answer)
                /\ UNCHANGED changed
    /\ UNCHANGED <<kind, file, tmp, lock, call, calls, faults>>

\* _read finds no file and calls _ensure_file like a reader, holding the lock
LoadMissing(t) ==
    /\ file = NoFile
    /\ Goto(t, "load", "ensure")
    /\ UNCHANGED <<kind, file, tmp, lock, call, changed, answer, calls, faults>>

-----------------------------------------------------------------------------
(* _safe_write, for a writer and for _ensure_file *)

\* mutant: the file itself is truncated and rewritten
OpenInPlace(t) ==
    /\ \/ Goto(t, "open_tmp", "dump")
       \/ Goto(t, "ensure_open", "ensure_dump")
    /\ tmp' = Truncated
    /\ file' = Truncated
    /\ UNCHANGED <<kind, lock, call, changed, answer, calls, faults>>

OpenTmp(t) ==
    /\ \/ Goto(t, "open_tmp", "dump")
       \/ Goto(t, "ensure_open", "ensure_dump")
    /\ tmp' = Truncated
    /\ UNCHANGED <<kind, file, lock, call, changed, answer, calls, faults>>

Dump(t) ==
    /\ \/ Goto(t, "dump", "replace")
       \/ Goto(t, "ensure_dump", "ensure_replace")
    /\ tmp' = changed[t]
    /\ UNCHANGED <<kind, file, lock, call, changed, answer, calls, faults>>

Replace(t) ==
    /\ Goto(t, "replace", "unlock")
    /\ file' = tmp
    /\ tmp' = NoFile
    /\ Answers(t, Ok)
    /\ UNCHANGED <<kind, lock, call, changed, calls, faults>>

EnsureReplace(t) ==
    /\ Goto(t, "ensure_replace", "unlock")
    /\ file' = tmp
    /\ tmp' = NoFile
    /\ UNCHANGED <<kind, lock, call, changed, answer, calls, faults>>

\* mutant: the error leaves without releasing _lock
WriteFailsHoldingLock(t) ==
    /\ \E from \in {"open_tmp", "dump", "replace"} : Goto(t, from, "done")
    /\ Answers(t, StoreFailed)
    /\ UNCHANGED <<kind, file, tmp, lock, call, changed, calls, faults>>

\* open, dump or replace raises: _write reports it, the file is as before
WriteFails(t) ==
    /\ \E from \in {"open_tmp", "dump", "replace"} : Goto(t, from, "unlock")
    /\ Answers(t, StoreFailed)
    /\ UNCHANGED <<kind, file, tmp, lock, call, changed, calls, faults>>

\* the same in _ensure_file, where nothing catches it: the reader's call raises
EnsureFails(t) ==
    /\ \E from \in {"ensure_open", "ensure_dump", "ensure_replace"} : Goto(t, from, "unlock")
    /\ Answers(t, StoreFailed)
    /\ UNCHANGED <<kind, file, tmp, lock, call, changed, calls, faults>>

Unlock(t) ==
    /\ Goto(t, "unlock", "done")
    /\ lock' = NoThread
    /\ UNCHANGED <<kind, file, tmp, call, changed, answer, calls, faults>>

Return(t) ==
    /\ Goto(t, "done", "idle")
    /\ call' = [call EXCEPT ![t] = NoCall]
    /\ changed' = [changed EXCEPT ![t] = EmptyData]
    /\ Answers(t, Ok)
    /\ UNCHANGED <<kind, file, tmp, lock, calls, faults>>

-----------------------------------------------------------------------------
(* The environment *)

\* the next process makes a new client: a free lock, no call
Crash ==
    /\ faults < MaxFaults
    /\ file # NoFile  \* create_client makes a local client only for an existing file
    /\ faults' = faults + 1
    /\ pc' = [t \in Threads |-> "idle"]
    /\ lock' = NoThread
    /\ call' = [t \in Threads |-> NoCall]
    /\ changed' = [t \in Threads |-> EmptyData]
    /\ answer' = [t \in Threads |-> Ok]
    /\ UNCHANGED <<kind, file, tmp, calls>>

DeleteFile ==
    /\ faults < MaxFaults
    /\ \A t \in Threads : pc[t] = "idle"
    /\ file' = NoFile
    /\ faults' = faults + 1
    /\ UNCHANGED <<kind, tmp, lock, pc, call, changed, answer, calls>>

-----------------------------------------------------------------------------
Read(t) == Refuse(t) \/ ReadFile(t) \/ EnsureExists(t) \/ EnsureLocked(t)
Write(t) ==
    \/ AcquireLock(t) \/ LoadAndChange(t) \/ LoadMissing(t)
    \/ OpenTmp(t) \/ Dump(t) \/ Replace(t) \/ EnsureReplace(t)
    \/ WriteFails(t) \/ EnsureFails(t) \/ Unlock(t)
Work(t) == Read(t) \/ Write(t) \/ Return(t)

Next ==
    \/ \E t \in Threads : Call(t) \/ Work(t)
    \/ Crash
    \/ DeleteFile

Spec == Init /\ [][Next]_vars

-----------------------------------------------------------------------------
(* Properties *)

Ensuring == {"ensure", "ensure_lock", "ensure_open", "ensure_dump", "ensure_replace"}
Writing == {"load", "open_tmp", "dump", "replace"}

\* a writer, a reader that makes the file anew, or a writer that tries to
Holds(t) ==
    \/ pc[t] \in Writing \cup {"ensure_open", "ensure_dump", "ensure_replace", "unlock"}
    \/ pc[t] \in Ensuring /\ IsWrite(call[t])

\* Types.  _lock is held exactly between taking it and releasing it, on every
\* error path too, the temporary file is complete when it is renamed, and a
\* reader of the path finds whole data or no file.
TypeOK ==
    /\ kind \in Kinds
    /\ file \in [Levels -> Seq(Entry)] \cup {NoFile}
    /\ tmp \in [Levels -> Seq(Entry)] \cup {NoFile, Truncated}
    /\ lock \in Threads \cup {NoThread}
    /\ pc \in [Threads -> {"idle", "refuse", "open", "lock", "unlock", "done"}
                          \cup Ensuring \cup Writing]
    /\ \A t \in Threads : lock = t <=> Holds(t)
    /\ \A t \in Threads : pc[t] \in {"replace", "ensure_replace"} => tmp = changed[t]
    /\ calls \in 0..MaxCalls /\ faults \in 0..MaxFaults

\* The class promises "Thread-safe JSON file operations": every operation takes
\* effect at once or not at all, in spite of the steps of other threads and of
\* a crash between any two of its own (_create_entity ... _safe_write).
Phase(t) ==
    CASE pc[t] = "idle" -> "idle"
      [] pc[t] \in {"unlock", "done"} -> "answered"
      [] pc[t] \in Ensuring -> IF IsRead(call[t]) THEN "answered" ELSE "called"
      [] OTHER -> "called"

Abstract == INSTANCE AtomicStore WITH
    data <- IF file = NoFile THEN EmptyData ELSE file,
    phase <- [t \in Threads |-> Phase(t)]

Implements == Abstract!Spec

\* _read says of a missing file "Initialize if deleted between calls": the call
\* that finds it missing makes the file anew and does not wait for itself.
DeletedFileIsInitialized ==
    \A t \in Threads : ~(pc[t] = "ensure_lock" /\ lock = t)
=============================================================================
