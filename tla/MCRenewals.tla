----------------------------- MODULE MCRenewals -----------------------------
(***************************************************************************)
(* Small instances of the two clients that are rebuilt while threads use   *)
(* them: that of CBC when its certificate is renewed, that of the object   *)
(* store when its credentials are rotated.  They share nothing, so `part`  *)
(* chooses the one that moves and the other stays in its initial state.    *)
(***************************************************************************)
EXTENDS CbcClient, Sequences, TLC

CONSTANTS
    Parts,
    MaxVersion, NoMtime, Mounted, NoOperation

VARIABLES
    part,
    binding, accepted, lastMtime, minio, storeLock, storePc, op, seen, read, storeUsing, tries,
    storeCalm

Store == INSTANCE ObjectStore WITH
    lock <- storeLock, pc <- storePc, using <- storeUsing, calm <- storeCalm

ASSUME Bounds ==
    /\ MaxVersion \in Nat /\ NoMtime \notin Int /\ Mounted \in BOOLEAN
    /\ ClientIds # {}
    /\ BoundsAssumption /\ FactoryAssumption /\ NobodyAssumption /\ NoClientAssumption
    /\ Store!NoThreadAssumption

storeVars == <<binding, accepted, lastMtime, minio, storeLock, storePc, op, seen, read,
               storeUsing, tries, storeCalm>>

renewalsVars == <<part, vars, storeVars>>

RenewalsInit ==
    /\ part \in Parts
    /\ Init /\ Store!Init

CbcMoves(A) == part = "cbc" /\ A /\ UNCHANGED <<part, storeVars>>
StoreMoves(A) == part = "store" /\ A /\ UNCHANGED <<part, vars>>

RenewalsNext == CbcMoves(Next) \/ StoreMoves(Store!Next)

RenewalsSpec == RenewalsInit /\ [][RenewalsNext]_renewalsVars

AnyStep(t) == CbcMoves(Step(t)) \/ StoreMoves(Store!Step(t))
EnterLock(t) == CbcMoves(EnterRebuild(t)) \/ StoreMoves(Store!EnterRefresh(t))

\* the fairness of CbcClient and of ObjectStore: `part` never changes
FairRenewalsSpec ==
    RenewalsSpec /\ \A t \in Threads :
        WF_renewalsVars(AnyStep(t)) /\ SF_renewalsVars(EnterLock(t))

\* the part that does not move is idle
BothIdle(t) == Idle(t) /\ Store!Idle(t)

Symmetry == Permutations(Threads)

-----------------------------------------------------------------------------
(* Properties, besides those of CbcClient *)

\* The types of all parts.  Each holds too while its part does not move.
TypesOK ==
    /\ part \in Parts
    /\ TypeOK /\ Store!TypeOK

\* objectstore/_s3.py: ObjectStore
RejectedOnlyUnderRace == Store!RejectedOnlyUnderRace
NeverOlder == Store!NeverOlder

\* Every operation of either client ends: nobody waits for a lock for ever, and a
\* factory that raises under the lock does not keep it from the next.
AllOperationsEnd == \A t \in Threads : ~BothIdle(t) ~> BothIdle(t)
=============================================================================
