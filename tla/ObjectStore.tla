----------------------------- MODULE ObjectStore -----------------------------
(***************************************************************************)
(* objectstore/_s3.py: threads that share one ObjectStoreClient, whose     *)
(* Minio client is rebuilt, under a lock, when the binding has changed     *)
(* (proactive) or when S3 refuses the credentials (reactive, one retry).   *)
(***************************************************************************)
EXTENDS ConfigFactory

CONSTANTS
    Threads,        \* callers of the shared client
    NoThread,       \* nobody holds the lock
    NoOperation     \* the thread is in no operation

NoThreadAssumption == NoThread \notin Threads

VARIABLES
    minio,          \* _minio_client: the credentials it was built with
    lock,           \* holder of _lock
    pc,             \* where each thread is
    op,             \* the kind of its operation
    seen,           \* the mtime its has_changed() read
    read,           \* the binding its factory call has read
    using,          \* the credentials of the client its call evaluated
    tries,          \* how often its operation has been refused and retried
    calm            \* history: its operation ran alone, on a steady binding

clientVars == <<minio, lock>>
localVars == <<op, seen, read, using, tries>>
vars == <<bindingVars, clientVars, pc, localVars, calm>>

(***************************************************************************)
(* Access key and secret are files of their own.                           *)
(***************************************************************************)
Credentials == [id : Versions, secret : Versions]

NothingRead == [id |-> 0, secret |-> 0]

Labels == {"idle", "stat", "compare", "lock", "readId", "readSecret",
           "install", "call", "request", "iterate", "rejected"}

(***************************************************************************)
(* What the two tries of an operation share.  "repeatable": nothing        *)
(* (put_object_from_bytes makes a new stream in each try; get, delete).    *)
(* "head": head_object and object_exists, whose refusal has no body and    *)
(* so no code to tell a credential error by.  "stream": a stream the first *)
(* try has read to its end (put_object, put_object_from_file).  "list":    *)
(* list_objects returns an iterator, whose requests are sent after         *)
(* _execute_with_retry has ended.                                          *)
(***************************************************************************)
Kinds == {"repeatable", "head", "stream", "list"}

NoOp == NoOperation

Init ==
    /\ BindingInit
    /\ minio = NothingRead
    /\ lock = NoThread
    /\ pc = [t \in Threads |-> "idle"]
    /\ op = [t \in Threads |-> NoOp]
    /\ seen = [t \in Threads |-> NoMtime]
    /\ read = [t \in Threads |-> NothingRead]
    /\ using = [t \in Threads |-> NothingRead]
    /\ tries = [t \in Threads |-> 0]
    /\ calm = [t \in Threads |-> FALSE]

At(t, l) == pc[t] = l
Goto(t, l) == pc' = [pc EXCEPT ![t] = l]
Idle(t) == At(t, "idle")

\* The operation returns or raises.
Done(t) ==
    /\ op' = [op EXCEPT ![t] = NoOp]
    /\ using' = [using EXCEPT ![t] = NothingRead]
    /\ tries' = [tries EXCEPT ![t] = 0]
    /\ read' = [read EXCEPT ![t] = NothingRead]
    /\ calm' = [calm EXCEPT ![t] = FALSE]

-----------------------------------------------------------------------------

Operation(t, k) ==
    /\ Idle(t)
    /\ Goto(t, IF Mounted THEN "stat" ELSE "call")
    /\ op' = [op EXCEPT ![t] = k]
    /\ calm' = [u \in Threads |-> u = t /\ \A v \in Threads : Idle(v)]
    /\ UNCHANGED <<bindingVars, clientVars, seen, read, using, tries>>

(***************************************************************************)
(* _refresh_if_rotated: has_changed() without the lock.                    *)
(***************************************************************************)
StatBinding(t) ==
    /\ At(t, "stat")
    /\ seen' = [seen EXCEPT ![t] = binding]
    /\ Goto(t, "compare")
    /\ UNCHANGED <<bindingVars, clientVars, op, read, using, tries, calm>>

CompareMtime(t) ==
    /\ At(t, "compare")
    /\ Remember(seen[t])
    /\ seen' = [seen EXCEPT ![t] = NoMtime]
    /\ Goto(t, IF MtimeChanged(seen[t]) THEN "lock" ELSE "call")
    /\ UNCHANGED <<binding, accepted, clientVars, op, read, using, tries, calm>>

(***************************************************************************)
(* _refresh_credentials, under the lock: the binding is read file by file, *)
(* then the client is rebuilt.                                             *)
(***************************************************************************)
\* Mutant: the lock is not taken.
RefreshWithoutLock(t) ==
    /\ At(t, "lock")
    /\ Goto(t, "readId")
    /\ UNCHANGED <<bindingVars, clientVars, localVars, calm>>

EnterRefresh(t) ==
    /\ At(t, "lock")
    /\ lock = NoThread
    /\ lock' = t
    /\ Goto(t, "readId")
    /\ UNCHANGED <<bindingVars, minio, localVars, calm>>

ReadId(t) ==
    /\ At(t, "readId")
    /\ read' = [read EXCEPT ![t].id = binding]
    /\ Goto(t, "readSecret")
    /\ UNCHANGED <<bindingVars, clientVars, op, seen, using, tries, calm>>

ReadSecret(t) ==
    /\ At(t, "readSecret")
    /\ read' = [read EXCEPT ![t].secret = binding]
    /\ Goto(t, "install")
    /\ UNCHANGED <<bindingVars, clientVars, op, seen, using, tries, calm>>

\* The factory, or the constructor of Minio, raises, and with it the operation.
RefreshFails(t) ==
    /\ pc[t] \in {"readId", "readSecret", "install"}
    /\ lock' = NoThread
    /\ Goto(t, "idle")
    /\ Done(t)
    /\ UNCHANGED <<bindingVars, minio, seen>>

\* Mutant: the credentials are read again, the client is not rebuilt.
InstallNothing(t) ==
    /\ At(t, "install")
    /\ lock' = NoThread
    /\ read' = [read EXCEPT ![t] = NothingRead]
    /\ Goto(t, "call")
    /\ UNCHANGED <<bindingVars, minio, op, seen, using, tries, calm>>

InstallClient(t) ==
    /\ At(t, "install")
    /\ minio' = read[t]
    /\ lock' = NoThread
    /\ read' = [read EXCEPT ![t] = NothingRead]
    /\ Goto(t, "call")
    /\ UNCHANGED <<bindingVars, op, seen, using, tries, calm>>

(***************************************************************************)
(* fn(): self._minio_client is evaluated, and S3 is asked.  list_objects   *)
(* only makes an iterator, which the caller then runs.                     *)
(***************************************************************************)
Call(t) ==
    /\ At(t, "call")
    /\ using' = [using EXCEPT ![t] = minio]
    /\ Goto(t, IF op[t] = "list" THEN "iterate" ELSE "request")
    /\ UNCHANGED <<bindingVars, clientVars, op, seen, read, tries, calm>>

Refused(t) == ~(using[t].id = using[t].secret /\ using[t].id \in accepted)

Consumed(t) == tries[t] > 0 /\ op[t] = "stream"

Succeeds(t) ==
    /\ pc[t] \in {"request", "iterate"}
    /\ ~Refused(t)
    /\ ~Consumed(t)
    /\ Goto(t, "idle")
    /\ Done(t)
    /\ UNCHANGED <<bindingVars, clientVars, seen>>

\* InvalidAccessKeyId, SignatureDoesNotMatch inside _execute_with_retry.
FirstRefusal(t) ==
    /\ At(t, "request")
    /\ Refused(t) /\ tries[t] = 0 /\ op[t] # "head"
    /\ tries' = [tries EXCEPT ![t] = @ + 1]
    /\ Goto(t, "lock")
    /\ UNCHANGED <<bindingVars, clientVars, op, seen, read, using, calm>>

\* The retry is refused, or the first try has used the stream up, or the
\* iterator or a head is refused: no handler is left.
FinalRefusal(t) ==
    /\ \/ At(t, "request") /\ tries[t] > 0 /\ (Refused(t) \/ Consumed(t))
       \/ At(t, "request") /\ op[t] = "head" /\ Refused(t)
       \/ At(t, "iterate") /\ Refused(t)
    /\ Goto(t, "rejected")
    /\ UNCHANGED <<bindingVars, clientVars, localVars, calm>>

\* Any other S3 or transport error is raised.
OtherError(t) ==
    /\ pc[t] \in {"request", "iterate"}
    /\ Goto(t, "idle")
    /\ Done(t)
    /\ UNCHANGED <<bindingVars, clientVars, seen>>

RaiseError(t) ==
    /\ At(t, "rejected")
    /\ Goto(t, "idle")
    /\ Done(t)
    /\ UNCHANGED <<bindingVars, clientVars, seen>>

Step(t) ==
    \/ StatBinding(t) \/ CompareMtime(t)
    \/ EnterRefresh(t) \/ ReadId(t) \/ ReadSecret(t) \/ RefreshFails(t)
    \/ InstallClient(t)
    \/ Call(t) \/ Succeeds(t) \/ FirstRefusal(t) \/ FinalRefusal(t)
    \/ OtherError(t) \/ RaiseError(t)

Platform ==
    /\ RotateBinding \/ RevokeOld
    /\ calm' = [t \in Threads |-> FALSE]
    /\ UNCHANGED <<clientVars, pc, localVars>>

Next ==
    \/ \E t \in Threads : Step(t) \/ \E k \in Kinds : Operation(t, k)
    \/ Platform

Spec == Init /\ [][Next]_vars

(***************************************************************************)
(* Threads are scheduled, their network calls return, and a thread that    *)
(* asks for the lock often enough gets it (callers are few).               *)
(***************************************************************************)
FairSpec ==
    /\ Spec
    /\ \A t \in Threads : WF_vars(Step(t)) /\ SF_vars(EnterRefresh(t))

-----------------------------------------------------------------------------

TypeOK ==
    /\ BindingTypeOK
    /\ minio \in Credentials
    /\ lock \in Threads \cup {NoThread}
    /\ pc \in [Threads -> Labels]
    /\ op \in [Threads -> Kinds \cup {NoOp}]
    /\ seen \in [Threads -> Versions \cup {NoMtime}]
    /\ read \in [Threads -> Credentials]
    /\ using \in [Threads -> Credentials]
    /\ tries \in [Threads -> 0 .. 1]
    /\ calm \in [Threads -> BOOLEAN]

(***************************************************************************)
(* Refreshes are ordered: the client never goes back to older credentials, *)
(* because the binding is read with the lock already held.                 *)
(***************************************************************************)
NeverOlder ==
    [][minio'.id >= minio.id /\ minio'.secret >= minio.secret]_minio

(***************************************************************************)
(* An operation that can be repeated, alone on a steady binding, is never  *)
(* refused for its credentials, even when an earlier has_changed() used    *)
(* the change up and the factory then failed.                              *)
(***************************************************************************)
RejectedOnlyUnderRace ==
    \A t \in Threads : calm[t] /\ op[t] = "repeatable" => ~At(t, "rejected")

(***************************************************************************)
(* Every operation returns or raises: a factory that raises under the lock *)
(* does not keep it from the next refresh.                                 *)
(***************************************************************************)
OperationsEnd == \A t \in Threads : ~Idle(t) ~> Idle(t)

=============================================================================
