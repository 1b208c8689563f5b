----------------------------- MODULE TimedMemory -----------------------------
(***************************************************************************)
(* agent_memory/factory/_timed_memory.py: TimedInMemorySaver stamps the    *)
(* activity of a conversation on every put, and a daemon thread evicts the *)
(* conversations inactive for longer than ttl_seconds.  The lock protects  *)
(* the dictionary of stamps; the checkpoints themselves, in InMemorySaver, *)
(* are stored and deleted outside it.                                      *)
(*                                                                         *)
(* Time is discrete.  A stamp is kept as its age, now - ts, which stops at *)
(* MaxAge: beyond, the age makes no difference to any step.                *)
(***************************************************************************)
EXTENDS Integers

CONSTANTS
    Conversations,  \* thread_ids
    Writers,        \* Python threads or tasks calling put, aput
    Ttl,            \* ttl_seconds, in ticks
    Interval,       \* _SWEEP_INTERVAL_SECONDS, in ticks
    NoStamp,        \* the conversation is not in _last_active
    NoConversation

ASSUME TtlAssumption == Ttl \in Nat
ASSUME IntervalAssumption == Interval \in Nat \ {0}
ASSUME NoStampAssumption == NoStamp \notin Int
ASSUME NoConversationAssumption == NoConversation \notin Conversations

VARIABLES
    age,            \* _last_active: the age of each stamp
    stored,         \* conversations with a checkpoint in InMemorySaver
    writing,        \* writer -> conversation between its stamp and its store
    timer,          \* ticks the sweeper still sleeps
    sweeper,        \* where the sweeper is
    expired,        \* what is left of the list its scan built
    evicting,       \* the conversation it is deleting
    raced           \* history: conversations with a put that overlapped the
                    \* eviction of the same conversation

stampVars == <<age, stored>>
sweepVars == <<timer, sweeper, expired, evicting>>
vars == <<stampVars, writing, sweepVars, raced>>

MaxAge == Ttl + Interval + 1

Ages == 0 .. MaxAge

Init ==
    /\ age = [c \in Conversations |-> NoStamp]
    /\ stored = {}
    /\ writing = [w \in Writers |-> NoConversation]
    /\ timer = Interval
    /\ sweeper = "sleep"
    /\ expired = {}
    /\ evicting = NoConversation
    /\ raced = {}

BeingWritten(c) == \E w \in Writers : writing[w] = c
BeingEvicted(c) == c \in expired \/ c = evicting

-----------------------------------------------------------------------------

\* Mutant: the checkpoint is stored and no stamp is left.
PutWithoutStamp(w, c) ==
    /\ writing[w] = NoConversation
    /\ writing' = [writing EXCEPT ![w] = c]
    /\ raced' = IF BeingEvicted(c) THEN raced \cup {c}
                ELSE IF BeingWritten(c) THEN raced ELSE raced \ {c}
    /\ UNCHANGED <<stampVars, sweepVars>>

(***************************************************************************)
(* put, aput: the stamp, under the lock, then the checkpoint.              *)
(***************************************************************************)
PutStamp(w, c) ==
    /\ writing[w] = NoConversation
    /\ writing' = [writing EXCEPT ![w] = c]
    /\ age' = [age EXCEPT ![c] = 0]
    /\ raced' = IF BeingEvicted(c) THEN raced \cup {c}
                ELSE IF BeingWritten(c) THEN raced ELSE raced \ {c}
    /\ UNCHANGED <<stored, sweepVars>>

PutStore(w) ==
    /\ writing[w] # NoConversation
    /\ stored' = stored \cup {writing[w]}
    /\ writing' = [writing EXCEPT ![w] = NoConversation]
    /\ UNCHANGED <<age, sweepVars, raced>>

-----------------------------------------------------------------------------

(***************************************************************************)
(* _sweep_loop: a scan each time the sleep of Interval is over.            *)
(***************************************************************************)
\* Mutant: an inactivity of Ttl + 1 is not enough.
IsExpiredLate(c) == age[c] # NoStamp /\ age[c] > Ttl + 1

IsExpired(c) == age[c] # NoStamp /\ age[c] > Ttl

\* Mutant: the scan also takes what is inactive for exactly Ttl.
ScanAtTtl ==
    /\ sweeper = "sleep"
    /\ timer = 0
    /\ expired' = {c \in Conversations : age[c] # NoStamp /\ age[c] >= Ttl}
    /\ sweeper' = "sweep"
    /\ raced' = raced \cup {c \in expired' : BeingWritten(c)}
    /\ UNCHANGED <<stampVars, writing, timer, evicting>>

Scan ==
    /\ sweeper = "sleep"
    /\ timer = 0
    /\ expired' = {c \in Conversations : IsExpired(c)}
    /\ sweeper' = "sweep"
    /\ raced' = raced \cup {c \in expired' : BeingWritten(c)}
    /\ UNCHANGED <<stampVars, writing, timer, evicting>>

(***************************************************************************)
(* _evict_expired: for each of them delete_thread, without the lock, then  *)
(* the stamp is popped, under it.                                          *)
(***************************************************************************)
DeleteThread ==
    /\ sweeper = "sweep"
    /\ \E c \in expired :
          /\ evicting' = c
          /\ expired' = expired \ {c}
          /\ stored' = stored \ {c}
    /\ sweeper' = "pop"
    /\ UNCHANGED <<age, writing, timer, raced>>

\* Mutant: the loop does not go on after an eviction.
PopAndDie ==
    /\ sweeper = "pop"
    /\ age' = [age EXCEPT ![evicting] = NoStamp]
    /\ evicting' = NoConversation
    /\ sweeper' = "dead"
    /\ UNCHANGED <<stored, writing, timer, expired, raced>>

PopStamp ==
    /\ sweeper = "pop"
    /\ age' = [age EXCEPT ![evicting] = NoStamp]
    /\ evicting' = NoConversation
    /\ sweeper' = "sweep"
    /\ UNCHANGED <<stored, writing, timer, expired, raced>>

SleepAgain ==
    /\ sweeper = "sweep"
    /\ expired = {}
    /\ sweeper' = "sleep"
    /\ timer' = Interval
    /\ UNCHANGED <<stampVars, writing, expired, evicting, raced>>

Sweep == Scan \/ DeleteThread \/ PopStamp \/ SleepAgain

(***************************************************************************)
(* The clock.  A sweep takes no time: the bound the class promises counts  *)
(* the sleep only.  A put may take any time.                               *)
(***************************************************************************)
Older(c) == IF age[c] = NoStamp \/ age[c] = MaxAge THEN age[c] ELSE age[c] + 1

Tick ==
    /\ sweeper = "sleep" /\ timer > 0
    /\ timer' = timer - 1
    /\ age' = [c \in Conversations |-> Older(c)]
    /\ UNCHANGED <<stored, writing, sweeper, expired, evicting, raced>>

Next ==
    \/ \E w \in Writers : PutStore(w) \/ \E c \in Conversations : PutStamp(w, c)
    \/ Sweep
    \/ Tick

Spec == Init /\ [][Next]_vars

(***************************************************************************)
(* The daemon runs and time passes; a put that has begun ends.             *)
(***************************************************************************)
FairSpec ==
    /\ Spec
    /\ WF_vars(Sweep) /\ WF_vars(Tick)
    /\ \A w \in Writers : WF_vars(PutStore(w))

-----------------------------------------------------------------------------

TypeOK ==
    /\ age \in [Conversations -> Ages \cup {NoStamp}]
    /\ stored \subseteq Conversations
    /\ writing \in [Writers -> Conversations \cup {NoConversation}]
    /\ timer \in 0 .. Interval
    /\ sweeper \in {"sleep", "sweep", "pop"}
    /\ expired \subseteq Conversations
    /\ evicting \in Conversations \cup {NoConversation}
    /\ raced \subseteq Conversations

(***************************************************************************)
(* "a thread may live up to ttl_seconds + 60 seconds before deletion": no  *)
(* stamped conversation is ever inactive for longer than Ttl + Interval.   *)
(***************************************************************************)
EvictedInTime ==
    \A c \in Conversations : age[c] # NoStamp => age[c] <= Ttl + Interval

(***************************************************************************)
(* The sweeper finds every checkpoint: a stored conversation has a stamp,  *)
(* unless one of its puts overlapped its eviction, which leaves a          *)
(* checkpoint that no sweep sees until the next put.                       *)
(***************************************************************************)
StoredIsStamped ==
    \A c \in stored : age[c] = NoStamp => c \in raced

(***************************************************************************)
(* Class doc, ttl_seconds: "Threads inactive for longer than this are      *)
(* evicted": what delete_thread deletes is inactive when it is deleted,    *)
(* unless one of its puts overlapped the sweep.                            *)
(***************************************************************************)
OnlyInactiveDeletedUnlessRaced ==
    [][\A c \in Conversations :
          c \in stored /\ c \notin stored' => IsExpired(c) \/ c \in raced]_vars

(***************************************************************************)
(* A conversation nobody writes to any more is evicted in the end, unless  *)
(* it was raced.                                                           *)
(***************************************************************************)
InactiveEvicted ==
    \A c \in Conversations :
        c \in stored ~> c \notin stored \/ c \in raced \/ BeingWritten(c)

=============================================================================
