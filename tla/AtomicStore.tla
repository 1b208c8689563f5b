---------------------------- MODULE AtomicStore ----------------------------
(***************************************************************************)
(* What the local clients promise: "Thread-safe JSON file operations".     *)
(* Every operation takes effect at one instant between its call and its    *)
(* return, on the data of that instant, or fails and changes nothing.  A   *)
(* crash drops the calls that have not returned and keeps the data; when   *)
(* the file is deleted the store is empty.                                 *)
(***************************************************************************)
EXTENDS StoreOperations

CONSTANT Threads

VARIABLES
    data,    \* the stored entries
    phase,   \* per thread: idle, called, answered
    call,    \* per thread: the operation it is in
    answer   \* per thread: the answer of that operation, once it has one

vars == <<data, phase, call, answer>>

NoCall == [op |-> "none"]

Init ==
    /\ data \in [Levels -> Seq(Entry)]
    /\ phase = [t \in Threads |-> "idle"]
    /\ call = [t \in Threads |-> NoCall]
    /\ answer = [t \in Threads |-> Ok]

Call(t) ==
    /\ phase[t] = "idle"
    /\ \E kind \in Kinds : \E o \in Operations(kind) : call' = [call EXCEPT ![t] = o]
    /\ phase' = [phase EXCEPT ![t] = "called"]
    /\ UNCHANGED <<data, answer>>

TakeEffect(t) ==
    /\ phase[t] = "called"
    /\ data' = Perform(data, call[t]).data
    /\ answer' = [answer EXCEPT ![t] = Perform(data, call[t]).answer]
    /\ phase' = [phase EXCEPT ![t] = "answered"]
    /\ UNCHANGED call

\* a read may fail after it has read
Fail(t) ==
    /\ phase[t] = "called" \/ (phase[t] = "answered" /\ IsRead(call[t]))
    /\ answer' = [answer EXCEPT ![t] = StoreFailed]
    /\ phase' = [phase EXCEPT ![t] = "answered"]
    /\ UNCHANGED <<data, call>>

Return(t) ==
    /\ phase[t] = "answered"
    /\ phase' = [phase EXCEPT ![t] = "idle"]
    /\ call' = [call EXCEPT ![t] = NoCall]
    /\ answer' = [answer EXCEPT ![t] = Ok]
    /\ UNCHANGED data

Crash ==
    /\ phase' = [t \in Threads |-> "idle"]
    /\ call' = [t \in Threads |-> NoCall]
    /\ answer' = [t \in Threads |-> Ok]
    /\ UNCHANGED data

FileDeleted ==
    /\ \A t \in Threads : phase[t] = "idle"
    /\ data' = EmptyData
    /\ UNCHANGED <<phase, call, answer>>

Next ==
    \/ \E t \in Threads : Call(t) \/ TakeEffect(t) \/ Fail(t) \/ Return(t)
    \/ Crash
    \/ FileDeleted

Spec == Init /\ [][Next]_vars
=============================================================================
