-------------------------- MODULE TimedMemoryProofs --------------------------
(***************************************************************************)
(* What holds of TimedMemory for any number of conversations and writers,  *)
(* any Ttl and any Interval.                                               *)
(***************************************************************************)
EXTENDS TimedMemory, TLAPS

(***************************************************************************)
(* While the sweeper sleeps, a stamp has at most Ttl plus the time slept;  *)
(* while it works, what is older than Ttl is still on its list.            *)
(***************************************************************************)
Lateness ==
    \A c \in Conversations : age[c] # NoStamp =>
        IF sweeper = "sleep"
        THEN age[c] + timer <= Ttl + Interval
        ELSE /\ age[c] <= Ttl + Interval
             /\ BeingEvicted(c) \/ age[c] <= Ttl

(***************************************************************************)
(* A put that can leave a checkpoint without a stamp is marked as a race,  *)
(* and so is every checkpoint without one.                                 *)
(***************************************************************************)
RacesAreMarked ==
    \A c \in Conversations :
        /\ BeingWritten(c) /\ (BeingEvicted(c) \/ age[c] = NoStamp) => c \in raced
        /\ c \in stored /\ (c = evicting \/ age[c] = NoStamp) => c \in raced

ListIsInactive == \A c \in expired : IsExpired(c) \/ c \in raced

SweepLabels ==
    /\ sweeper = "pop" <=> evicting # NoConversation
    /\ sweeper = "sleep" => expired = {}
    /\ evicting \notin expired

IInv == /\ TypeOK
        /\ SweepLabels
        /\ Lateness
        /\ RacesAreMarked
        /\ ListIsInactive

-----------------------------------------------------------------------------

LEMMA InitIInv == Init => IInv
  BY IntervalAssumption, TtlAssumption, NoStampAssumption, NoConversationAssumption
  DEF Init, IInv, TypeOK, SweepLabels, Lateness, RacesAreMarked, ListIsInactive,
      BeingWritten, BeingEvicted

LEMMA StepKeepsIInv ==
  ASSUME IInv, [Next]_vars
  PROVE  IInv'
<1> USE IntervalAssumption, TtlAssumption, NoStampAssumption,
        NoConversationAssumption
    DEF IInv, TypeOK, SweepLabels, Lateness, RacesAreMarked, ListIsInactive,
        IsExpired, BeingWritten, BeingEvicted, Ages, MaxAge, stampVars,
        sweepVars
<1>1. ASSUME NEW w \in Writers, NEW c \in Conversations, PutStamp(w, c)
      PROVE  IInv'
  BY <1>1 DEF PutStamp
<1>2. ASSUME NEW w \in Writers, PutStore(w) PROVE IInv'
  BY <1>2 DEF PutStore
<1>3. CASE Scan
  BY <1>3 DEF Scan
<1>4. CASE DeleteThread
  BY <1>4 DEF DeleteThread
<1>5. CASE PopStamp
  BY <1>5 DEF PopStamp
<1>6. CASE SleepAgain
  BY <1>6 DEF SleepAgain
<1>7. CASE Tick
  BY <1>7 DEF Tick, Older
<1>8. CASE UNCHANGED vars
  BY <1>8 DEF vars
<1> QED
  BY <1>1, <1>2, <1>3, <1>4, <1>5, <1>6, <1>7, <1>8 DEF Next, Sweep

\* The invariant holds in every interleaving of put, aput, the sweeper and time.
THEOREM Inductive == Spec => []IInv
  BY InitIInv, StepKeepsIInv, PTL DEF Spec

(***************************************************************************)
(* Every variable of the saver and its sweeper keeps its type.             *)
(***************************************************************************)
THEOREM TypeCorrect == Spec => []TypeOK
  BY Inductive, PTL DEF IInv

(***************************************************************************)
(* No stamped conversation outlives Ttl + Interval, whatever the puts of   *)
(* other conversations do (_timed_memory.py: "ttl_seconds + 60").          *)
(***************************************************************************)
THEOREM Punctual == Spec => []EvictedInTime
<1>1. IInv => EvictedInTime
  BY TtlAssumption, IntervalAssumption
  DEF IInv, TypeOK, Lateness, EvictedInTime, Ages, MaxAge
<1> QED
  BY Inductive, <1>1, PTL

(***************************************************************************)
(* A checkpoint the sweeper cannot see comes only from a put that          *)
(* overlapped the eviction of the same conversation.                       *)
(***************************************************************************)
THEOREM OrphansComeFromRaces == Spec => []StoredIsStamped
<1>1. IInv => StoredIsStamped
  BY DEF IInv, TypeOK, RacesAreMarked, StoredIsStamped
<1> QED
  BY Inductive, <1>1, PTL

(***************************************************************************)
(* delete_thread deletes an active conversation only after such an overlap.*)
(***************************************************************************)
THEOREM ActiveDeletedOnlyByRace == Spec => OnlyInactiveDeletedUnlessRaced
<1> DEFINE Justified ==
      \A c \in Conversations :
          c \in stored /\ c \notin stored' => IsExpired(c) \/ c \in raced
<1>1. IInv /\ [Next]_vars => [Justified]_vars
  BY DEF IInv, ListIsInactive, Next, Sweep, PutStamp, PutStore, Scan,
         DeleteThread, PopStamp, SleepAgain, Tick, stampVars
<1> QED
  BY Inductive, <1>1, PTL DEF Spec, OnlyInactiveDeletedUnlessRaced

=============================================================================
