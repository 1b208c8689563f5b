----------------------------- MODULE RenewalsProofs -----------------------------
(***************************************************************************)
(* What holds of the two clients that are rebuilt while threads use them,  *)
(* for any number of threads, of client objects, of certificates, of       *)
(* rotations and of requests in an operation: first of the CBC client and  *)
(* of the object store alone, then of both, as MCRenewals composes them.   *)
(***************************************************************************)
EXTENDS MCRenewals, TLAPS

-----------------------------------------------------------------------------
(* The CBC client *)

ConstantsAreSound ==
    /\ BoundsAssumption
    /\ NobodyAssumption
    /\ NoClientAssumption
    /\ ClientIds # {}

-----------------------------------------------------------------------------
(* The inductive invariant *)

LeftOK == \A t \in Threads : ~Idle(t) => left[t] >= 1

TypeInv == TypeOK /\ LeftOK

(***************************************************************************)
(* A rebuild holds the lock, so there is at most one.  Until it swaps, the *)
(* client it will close is the one in the field; the one it has built is   *)
(* open and no other thread refers to it.                                  *)
(***************************************************************************)
RebuildOK ==
    \A t \in Threads :
        /\ pc[t] \in {"send", "flight", "lock"} => using[t] # NoClient
        /\ Rebuilding(t) => lock = t /\ previous[t] # NoClient
        /\ pc[t] \in {"build", "swap"} => previous[t] = client
        /\ At(t, "swap") => /\ using[t] # NoClient
                            /\ using[t].id # client.id /\ using[t].id \notin closed
        /\ At(t, "closePrevious") => using[t] = client /\ previous[t].id # client.id

(***************************************************************************)
(* ReplacedClientsClosed, where a rebuild answers for the client it        *)
(* replaces and for the one it has built, not for the one that failed.     *)
(***************************************************************************)
Accounted(c) ==
    \/ c = client
    \/ c.id \in closed
    \/ \E u \in Threads :
          \/ Rebuilding(u) /\ c = previous[u]
          \/ pc[u] \in {"swap", "closePrevious"} /\ c = using[u]

AllAccounted == \A t \in Threads : using[t] # NoClient => Accounted(using[t])

(***************************************************************************)
(* While an operation runs alone on a steady certificate, it uses the      *)
(* client in the field, and after a rebuild that one is trusted.           *)
(***************************************************************************)
CalmOK ==
    /\ cert \in trusted
    /\ \A t \in Threads : Idle(t) => ~retrying[t]
    /\ \A t \in Threads : calm[t] =>
          /\ \A u \in Threads \ {t} : Idle(u)
          /\ pc[t] \in {"send", "flight"} => using[t] = client
          /\ pc[t] \in {"swap", "closePrevious"} => using[t].cert \in trusted
          /\ pc[t] \in {"pick", "send", "flight"} /\ retrying[t] => client.cert \in trusted

IInv ==
    /\ TypeInv
    /\ RebuildOK
    /\ CurrentClientOpen
    /\ AllAccounted
    /\ CalmOK
    /\ LoneOperationRecovers

-----------------------------------------------------------------------------

LEMMA InitIInv ==
  ASSUME ConstantsAreSound
  PROVE  Init => IInv
<1> SUFFICES ASSUME Init PROVE IInv
  OBVIOUS
<1> USE DEF ConstantsAreSound, BoundsAssumption, NobodyAssumption, NoClientAssumption, Init
<1>1. TypeInv
  <2>1. client \in Client
    BY DEF Client, Certs
  <2>2. 0 \in Certs /\ 0 \in 0 .. MaxRequests
    BY DEF Certs
  <2>3. TypeOK
    BY <2>1, <2>2 DEF TypeOK, Labels
  <2> QED
    BY <2>3 DEF TypeInv, LeftOK, Idle, At
<1>2. RebuildOK
  BY DEF RebuildOK, Rebuilding, At
<1>3. CurrentClientOpen /\ AllAccounted
  BY DEF CurrentClientOpen, AllAccounted
<1>4. CalmOK /\ LoneOperationRecovers
  BY DEF CalmOK, LoneOperationRecovers, Idle, At
<1> QED
  BY <1>1, <1>2, <1>3, <1>4 DEF IInv

\* The identity a rebuild takes is one nothing refers to.
LEMMA FreeIdIsFree ==
  ASSUME FreeIds # {}, NEW c, c = CHOOSE x \in FreeIds : TRUE
  PROVE  /\ c \in ClientIds /\ c # client.id
         /\ \A t \in Threads : using[t] # NoClient => using[t].id # c
         /\ \A t \in Threads : previous[t] # NoClient => previous[t].id # c
<1>1. c \in FreeIds
  OBVIOUS
<1> QED
  BY <1>1 DEF FreeIds, Referred

LEMMA StepKeepsTypeInv ==
  ASSUME ConstantsAreSound, IInv, [Next]_vars
  PROVE  TypeInv'
<1> USE DEF ConstantsAreSound, BoundsAssumption, IInv, TypeInv, TypeOK, LeftOK, Idle, At, Goto,
            Certs, Labels, envVars, clientVars, localVars
<1>1. ASSUME NEW t \in Threads, NEW n \in 1 .. MaxRequests, Operation(t, n) PROVE TypeInv'
  BY <1>1 DEF Operation
<1>2. ASSUME NEW t \in Threads, PickClient(t) PROVE TypeInv'
  BY <1>2 DEF PickClient
<1>3. ASSUME NEW t \in Threads, SendRequest(t) \/ ClientClosed(t) PROVE TypeInv'
  BY <1>3 DEF SendRequest, ClientClosed, Move
<1>4. ASSUME NEW t \in Threads, Answered(t) PROVE TypeInv'
  BY <1>4 DEF Answered
<1>5. ASSUME NEW t \in Threads, HttpError(t) \/ TransportError(t) PROVE TypeInv'
  BY <1>5 DEF HttpError, TransportError, Move
<1>6. ASSUME NEW t \in Threads, TlsFailure(t) PROVE TypeInv'
  BY <1>6 DEF TlsFailure
<1>7. ASSUME NEW t \in Threads, EnterRebuild(t) PROVE TypeInv'
  BY <1>7 DEF EnterRebuild
<1>8. ASSUME NEW t \in Threads, BuildClient(t) PROVE TypeInv'
  <2>1. PICK c \in ClientIds : /\ using' = [using EXCEPT ![t] = [id |-> c, cert |-> cert]]
                               /\ closed' = closed \ {c}
    BY <1>8, FreeIdIsFree DEF BuildClient
  <2>2. [id |-> c, cert |-> cert] \in Client
    BY DEF Client
  <2> QED
    BY <1>8, <2>1, <2>2 DEF BuildClient
<1>9. ASSUME NEW t \in Threads, BuildFails(t) PROVE TypeInv'
  BY <1>9 DEF BuildFails
<1>10. ASSUME NEW t \in Threads, SwapClient(t) PROVE TypeInv'
  BY <1>10 DEF SwapClient, RebuildOK
<1>11. ASSUME NEW t \in Threads, ClosePrevious(t) PROVE TypeInv'
  <2>1. previous[t] \in Client
    BY <1>11 DEF ClosePrevious, RebuildOK, Rebuilding
  <2> QED
    BY <1>11, <2>1 DEF ClosePrevious, Client
<1>12. ASSUME NEW t \in Threads, Raise(t) PROVE TypeInv'
  BY <1>12 DEF Raise
<1>13. CASE RenewCert
  BY <1>13 DEF RenewCert
<1>14. CASE ExpireOldCerts
  BY <1>14 DEF ExpireOldCerts
<1>15. CASE Close
  BY <1>15 DEF Close, Client
<1>16. CASE UNCHANGED vars
  BY <1>16 DEF vars
<1> QED
  BY <1>1, <1>2, <1>3, <1>4, <1>5, <1>6, <1>7, <1>8, <1>9, <1>10, <1>11, <1>12, <1>13, <1>14,
     <1>15, <1>16 DEF Next, Step

LEMMA StepKeepsRebuild ==
  ASSUME ConstantsAreSound, IInv, [Next]_vars
  PROVE  RebuildOK'
<1> USE DEF ConstantsAreSound, NobodyAssumption, NoClientAssumption, IInv, TypeInv, TypeOK,
            RebuildOK, Rebuilding,
            Idle, At, Goto, envVars, clientVars, localVars
<1>1. ASSUME NEW t \in Threads, NEW n \in 1 .. MaxRequests, Operation(t, n) PROVE RebuildOK'
  BY <1>1 DEF Operation
<1>2. ASSUME NEW t \in Threads, PickClient(t) PROVE RebuildOK'
  BY <1>2 DEF PickClient
<1>3. ASSUME NEW t \in Threads, SendRequest(t) \/ ClientClosed(t) PROVE RebuildOK'
  BY <1>3 DEF SendRequest, ClientClosed, Move
<1>4. ASSUME NEW t \in Threads, Answered(t) PROVE RebuildOK'
  BY <1>4 DEF Answered
<1>5. ASSUME NEW t \in Threads, HttpError(t) \/ TransportError(t) PROVE RebuildOK'
  BY <1>5 DEF HttpError, TransportError, Move
<1>6. ASSUME NEW t \in Threads, TlsFailure(t) PROVE RebuildOK'
  BY <1>6 DEF TlsFailure
<1>7. ASSUME NEW t \in Threads, EnterRebuild(t) PROVE RebuildOK'
  BY <1>7 DEF EnterRebuild
<1>8. ASSUME NEW t \in Threads, BuildClient(t) PROVE RebuildOK'
  <2>1. PICK c : /\ c = CHOOSE x \in FreeIds : TRUE
                 /\ FreeIds # {}
                 /\ using' = [using EXCEPT ![t] = [id |-> c, cert |-> cert]]
                 /\ closed' = closed \ {c}
    BY <1>8 DEF BuildClient
  <2>2. /\ c \in ClientIds /\ c # client.id
        /\ \A u \in Threads : using[u] # NoClient => using[u].id # c
        /\ \A u \in Threads : previous[u] # NoClient => previous[u].id # c
    BY <2>1, FreeIdIsFree
  <2>3. [id |-> c, cert |-> cert] \in Client
    BY <2>2 DEF Client
  <2>4. /\ pc[t] = "build" /\ pc' = [pc EXCEPT ![t] = "swap"]
        /\ UNCHANGED <<cert, trusted, client, lock, ownerClosed, left, retrying, previous, calm>>
    BY <1>8 DEF BuildClient
  <2> QED
    BY <2>1, <2>2, <2>3, <2>4
<1>9. ASSUME NEW t \in Threads, BuildFails(t) PROVE RebuildOK'
  BY <1>9 DEF BuildFails
<1>10. ASSUME NEW t \in Threads, SwapClient(t) PROVE RebuildOK'
  BY <1>10 DEF SwapClient
<1>11. ASSUME NEW t \in Threads, ClosePrevious(t) PROVE RebuildOK'
  BY <1>11 DEF ClosePrevious
<1>12. ASSUME NEW t \in Threads, Raise(t) PROVE RebuildOK'
  BY <1>12 DEF Raise
<1>13. CASE RenewCert
  BY <1>13 DEF RenewCert
<1>14. CASE ExpireOldCerts
  BY <1>14 DEF ExpireOldCerts
<1>15. CASE Close
  BY <1>15 DEF Close
<1>16. CASE UNCHANGED vars
  BY <1>16 DEF vars
<1> QED
  BY <1>1, <1>2, <1>3, <1>4, <1>5, <1>6, <1>7, <1>8,
     <1>9, <1>10, <1>11, <1>12, <1>13, <1>14, <1>15, <1>16 DEF Next, Step

LEMMA StepKeepsOpen ==
  ASSUME ConstantsAreSound, IInv, [Next]_vars
  PROVE  CurrentClientOpen'
<1> USE DEF ConstantsAreSound, NobodyAssumption, NoClientAssumption, IInv, TypeInv, TypeOK,
            RebuildOK, Rebuilding, CurrentClientOpen,
            Idle, At, Goto, envVars, clientVars, localVars
<1>1. ASSUME NEW t \in Threads, NEW n \in 1 .. MaxRequests, Operation(t, n)
      PROVE CurrentClientOpen'
  BY <1>1 DEF Operation
<1>2. ASSUME NEW t \in Threads, PickClient(t) PROVE CurrentClientOpen'
  BY <1>2 DEF PickClient
<1>3. ASSUME NEW t \in Threads, SendRequest(t) \/ ClientClosed(t) PROVE CurrentClientOpen'
  BY <1>3 DEF SendRequest, ClientClosed, Move
<1>4. ASSUME NEW t \in Threads, Answered(t) PROVE CurrentClientOpen'
  BY <1>4 DEF Answered
<1>5. ASSUME NEW t \in Threads, HttpError(t) \/ TransportError(t) PROVE CurrentClientOpen'
  BY <1>5 DEF HttpError, TransportError, Move
<1>6. ASSUME NEW t \in Threads, TlsFailure(t) PROVE CurrentClientOpen'
  BY <1>6 DEF TlsFailure
<1>7. ASSUME NEW t \in Threads, EnterRebuild(t) PROVE CurrentClientOpen'
  BY <1>7 DEF EnterRebuild
<1>8. ASSUME NEW t \in Threads, BuildClient(t) PROVE CurrentClientOpen'
  <2>1. PICK c : /\ c = CHOOSE x \in FreeIds : TRUE
                 /\ FreeIds # {}
                 /\ using' = [using EXCEPT ![t] = [id |-> c, cert |-> cert]]
                 /\ closed' = closed \ {c}
    BY <1>8 DEF BuildClient
  <2>2. /\ c \in ClientIds /\ c # client.id
        /\ \A u \in Threads : using[u] # NoClient => using[u].id # c
        /\ \A u \in Threads : previous[u] # NoClient => previous[u].id # c
    BY <2>1, FreeIdIsFree
  <2>3. [id |-> c, cert |-> cert] \in Client
    BY <2>2 DEF Client
  <2>4. /\ pc[t] = "build" /\ pc' = [pc EXCEPT ![t] = "swap"]
        /\ UNCHANGED <<cert, trusted, client, lock, ownerClosed, left, retrying, previous, calm>>
    BY <1>8 DEF BuildClient
  <2> QED
    BY <2>1, <2>2, <2>3, <2>4
<1>9. ASSUME NEW t \in Threads, BuildFails(t) PROVE CurrentClientOpen'
  BY <1>9 DEF BuildFails
<1>10. ASSUME NEW t \in Threads, SwapClient(t) PROVE CurrentClientOpen'
  BY <1>10 DEF SwapClient
<1>11. ASSUME NEW t \in Threads, ClosePrevious(t) PROVE CurrentClientOpen'
  BY <1>11 DEF ClosePrevious
<1>12. ASSUME NEW t \in Threads, Raise(t) PROVE CurrentClientOpen'
  BY <1>12 DEF Raise
<1>13. CASE RenewCert
  BY <1>13 DEF RenewCert
<1>14. CASE ExpireOldCerts
  BY <1>14 DEF ExpireOldCerts
<1>15. CASE Close
  BY <1>15 DEF Close
<1>16. CASE UNCHANGED vars
  BY <1>16 DEF vars
<1> QED
  BY <1>1, <1>2, <1>3, <1>4, <1>5, <1>6, <1>7, <1>8,
     <1>9, <1>10, <1>11, <1>12, <1>13, <1>14, <1>15, <1>16 DEF Next, Step

LEMMA StepKeepsAccounts ==
  ASSUME ConstantsAreSound, IInv, [Next]_vars
  PROVE  AllAccounted'
<1> USE DEF ConstantsAreSound, NobodyAssumption, NoClientAssumption, IInv, TypeInv, TypeOK,
            RebuildOK, Rebuilding, AllAccounted, Accounted,
            Idle, At, Goto, envVars, clientVars, localVars
<1>1. ASSUME NEW t \in Threads, NEW n \in 1 .. MaxRequests, Operation(t, n) PROVE AllAccounted'
  BY <1>1 DEF Operation
<1>2. ASSUME NEW t \in Threads, PickClient(t) PROVE AllAccounted'
  BY <1>2 DEF PickClient
<1>3. ASSUME NEW t \in Threads, SendRequest(t) \/ ClientClosed(t) PROVE AllAccounted'
  BY <1>3 DEF SendRequest, ClientClosed, Move
<1>4. ASSUME NEW t \in Threads, Answered(t) PROVE AllAccounted'
  BY <1>4 DEF Answered
<1>5. ASSUME NEW t \in Threads, HttpError(t) \/ TransportError(t) PROVE AllAccounted'
  BY <1>5 DEF HttpError, TransportError, Move
<1>6. ASSUME NEW t \in Threads, TlsFailure(t) PROVE AllAccounted'
  BY <1>6 DEF TlsFailure
<1>7. ASSUME NEW t \in Threads, EnterRebuild(t) PROVE AllAccounted'
  BY <1>7 DEF EnterRebuild
<1>8. ASSUME NEW t \in Threads, BuildClient(t) PROVE AllAccounted'
  <2>1. PICK c : /\ c = CHOOSE x \in FreeIds : TRUE
                 /\ FreeIds # {}
                 /\ using' = [using EXCEPT ![t] = [id |-> c, cert |-> cert]]
                 /\ closed' = closed \ {c}
    BY <1>8 DEF BuildClient
  <2>2. /\ c \in ClientIds /\ c # client.id
        /\ \A u \in Threads : using[u] # NoClient => using[u].id # c
        /\ \A u \in Threads : previous[u] # NoClient => previous[u].id # c
    BY <2>1, FreeIdIsFree
  <2>3. [id |-> c, cert |-> cert] \in Client
    BY <2>2 DEF Client
  <2>4. /\ pc[t] = "build" /\ pc' = [pc EXCEPT ![t] = "swap"]
        /\ UNCHANGED <<cert, trusted, client, lock, ownerClosed, left, retrying, previous, calm>>
    BY <1>8 DEF BuildClient
  <2> QED
    BY <2>1, <2>2, <2>3, <2>4
<1>9. ASSUME NEW t \in Threads, BuildFails(t) PROVE AllAccounted'
  BY <1>9 DEF BuildFails
<1>10. ASSUME NEW t \in Threads, SwapClient(t) PROVE AllAccounted'
  BY <1>10 DEF SwapClient
<1>11. ASSUME NEW t \in Threads, ClosePrevious(t) PROVE AllAccounted'
  BY <1>11 DEF ClosePrevious
<1>12. ASSUME NEW t \in Threads, Raise(t) PROVE AllAccounted'
  <2>1. /\ ~Rebuilding(t) /\ ~Rebuilding(t)'
        /\ \A u \in Threads \ {t} : /\ pc'[u] = pc[u] /\ using'[u] = using[u]
                                     /\ previous'[u] = previous[u]
        /\ using'[t] = NoClient
        /\ UNCHANGED <<client, closed>>
    BY <1>12 DEF Raise, Failures
  <2>2. ASSUME NEW u \in Threads, using'[u] # NoClient PROVE Accounted(using[u])'
    <3>1. u # t /\ Accounted(using[u])
      BY <2>1, <2>2
    <3> QED
      BY <2>1, <3>1
  <2> QED
    BY <2>2
<1>13. CASE RenewCert
  BY <1>13 DEF RenewCert
<1>14. CASE ExpireOldCerts
  BY <1>14 DEF ExpireOldCerts
<1>15. CASE Close
  BY <1>15 DEF Close
<1>16. CASE UNCHANGED vars
  BY <1>16 DEF vars
<1> QED
  BY <1>1, <1>2, <1>3, <1>4, <1>5, <1>6, <1>7, <1>8,
     <1>9, <1>10, <1>11, <1>12, <1>13, <1>14, <1>15, <1>16 DEF Next, Step

LEMMA StepKeepsCalm ==
  ASSUME ConstantsAreSound, IInv, [Next]_vars
  PROVE  CalmOK'
<1> USE DEF ConstantsAreSound, NobodyAssumption, NoClientAssumption, IInv, TypeInv, TypeOK,
            RebuildOK, Rebuilding, CalmOK,
            Idle, At, Goto, envVars, clientVars, localVars
<1>1. ASSUME NEW t \in Threads, NEW n \in 1 .. MaxRequests, Operation(t, n) PROVE CalmOK'
  <2>1. ASSUME NEW u \in Threads, calm'[u] PROVE u = t /\ \A v \in Threads : pc[v] = "idle"
    BY <1>1, <2>1 DEF Operation
  <2>2. /\ pc[t] = "idle" /\ pc' = [pc EXCEPT ![t] = "pick"]
        /\ UNCHANGED <<cert, trusted, client, using, retrying>>
    BY <1>1 DEF Operation
  <2> QED
    BY <2>1, <2>2
<1>2. ASSUME NEW t \in Threads, PickClient(t) PROVE CalmOK'
  BY <1>2 DEF PickClient
<1>3. ASSUME NEW t \in Threads, SendRequest(t) \/ ClientClosed(t) PROVE CalmOK'
  BY <1>3 DEF SendRequest, ClientClosed, Move
<1>4. ASSUME NEW t \in Threads, Answered(t) PROVE CalmOK'
  BY <1>4 DEF Answered
<1>5. ASSUME NEW t \in Threads, HttpError(t) \/ TransportError(t) PROVE CalmOK'
  BY <1>5 DEF HttpError, TransportError, Move
<1>6. ASSUME NEW t \in Threads, TlsFailure(t) PROVE CalmOK'
  BY <1>6 DEF TlsFailure
<1>7. ASSUME NEW t \in Threads, EnterRebuild(t) PROVE CalmOK'
  BY <1>7 DEF EnterRebuild
<1>8. ASSUME NEW t \in Threads, BuildClient(t) PROVE CalmOK'
  <2>1. PICK c : /\ c = CHOOSE x \in FreeIds : TRUE
                 /\ FreeIds # {}
                 /\ using' = [using EXCEPT ![t] = [id |-> c, cert |-> cert]]
                 /\ closed' = closed \ {c}
    BY <1>8 DEF BuildClient
  <2>2. /\ c \in ClientIds /\ c # client.id
        /\ \A u \in Threads : using[u] # NoClient => using[u].id # c
        /\ \A u \in Threads : previous[u] # NoClient => previous[u].id # c
    BY <2>1, FreeIdIsFree
  <2>3. [id |-> c, cert |-> cert] \in Client
    BY <2>2 DEF Client
  <2>4. /\ pc[t] = "build" /\ pc' = [pc EXCEPT ![t] = "swap"]
        /\ UNCHANGED <<cert, trusted, client, lock, ownerClosed, left, retrying, previous, calm>>
    BY <1>8 DEF BuildClient
  <2> QED
    BY <2>1, <2>2, <2>3, <2>4
<1>9. ASSUME NEW t \in Threads, BuildFails(t) PROVE CalmOK'
  BY <1>9 DEF BuildFails
<1>10. ASSUME NEW t \in Threads, SwapClient(t) PROVE CalmOK'
  BY <1>10 DEF SwapClient
<1>11. ASSUME NEW t \in Threads, ClosePrevious(t) PROVE CalmOK'
  BY <1>11 DEF ClosePrevious
<1>12. ASSUME NEW t \in Threads, Raise(t) PROVE CalmOK'
  BY <1>12 DEF Raise
<1>13. CASE RenewCert
  BY <1>13 DEF RenewCert
<1>14. CASE ExpireOldCerts
  BY <1>14 DEF ExpireOldCerts
<1>15. CASE Close
  BY <1>15 DEF Close
<1>16. CASE UNCHANGED vars
  BY <1>16 DEF vars
<1> QED
  BY <1>1, <1>2, <1>3, <1>4, <1>5, <1>6, <1>7, <1>8,
     <1>9, <1>10, <1>11, <1>12, <1>13, <1>14, <1>15, <1>16 DEF Next, Step

LEMMA StepKeepsLone ==
  ASSUME ConstantsAreSound, IInv, [Next]_vars
  PROVE  LoneOperationRecovers'
<1> USE DEF ConstantsAreSound, NobodyAssumption, NoClientAssumption, IInv, TypeInv, TypeOK,
            RebuildOK, CalmOK, CurrentClientOpen, LoneOperationRecovers,
            Idle, At, Goto, envVars, clientVars, localVars
<1>1. ASSUME NEW t \in Threads, NEW n \in 1 .. MaxRequests, Operation(t, n)
      PROVE LoneOperationRecovers'
  BY <1>1 DEF Operation
<1>2. ASSUME NEW t \in Threads, PickClient(t) PROVE LoneOperationRecovers'
  BY <1>2 DEF PickClient
<1>3. ASSUME NEW t \in Threads, SendRequest(t) \/ ClientClosed(t) PROVE LoneOperationRecovers'
  BY <1>3 DEF SendRequest, ClientClosed, Move
<1>4. ASSUME NEW t \in Threads, Answered(t) PROVE LoneOperationRecovers'
  BY <1>4 DEF Answered
<1>5. ASSUME NEW t \in Threads, HttpError(t) \/ TransportError(t) PROVE LoneOperationRecovers'
  BY <1>5 DEF HttpError, TransportError, Move
<1>6. ASSUME NEW t \in Threads, TlsFailure(t) PROVE LoneOperationRecovers'
  <2>1. /\ pc[t] = "flight" /\ using[t].cert \notin trusted
        /\ UNCHANGED <<using, client, closed, ownerClosed, calm>>
    BY <1>6 DEF TlsFailure, Handshake
  <2>2. calm[t] => ~retrying[t]
    BY <2>1
  <2>3. calm[t] /\ HasSslFactory => pc' = [pc EXCEPT ![t] = "lock"]
    BY <1>6, <2>2 DEF TlsFailure
  <2>4. \/ pc' = [pc EXCEPT ![t] = "lock"]
        \/ pc' = [pc EXCEPT ![t] = "tlsError"]
    BY <1>6 DEF TlsFailure
  <2> QED
    BY <2>1, <2>3, <2>4
<1>7. ASSUME NEW t \in Threads, EnterRebuild(t) PROVE LoneOperationRecovers'
  BY <1>7 DEF EnterRebuild
<1>8. ASSUME NEW t \in Threads, BuildClient(t) PROVE LoneOperationRecovers'
  <2>1. PICK c : /\ c = CHOOSE x \in FreeIds : TRUE
                 /\ FreeIds # {}
                 /\ using' = [using EXCEPT ![t] = [id |-> c, cert |-> cert]]
                 /\ closed' = closed \ {c}
    BY <1>8 DEF BuildClient
  <2>2. /\ c \in ClientIds /\ c # client.id
        /\ \A u \in Threads : using[u] # NoClient => using[u].id # c
        /\ \A u \in Threads : previous[u] # NoClient => previous[u].id # c
    BY <2>1, FreeIdIsFree
  <2>3. [id |-> c, cert |-> cert] \in Client
    BY <2>2 DEF Client
  <2>4. /\ pc[t] = "build" /\ pc' = [pc EXCEPT ![t] = "swap"]
        /\ UNCHANGED <<cert, trusted, client, lock, ownerClosed, left, retrying, previous, calm>>
    BY <1>8 DEF BuildClient
  <2> QED
    BY <2>1, <2>2, <2>3, <2>4
<1>9. ASSUME NEW t \in Threads, BuildFails(t) PROVE LoneOperationRecovers'
  BY <1>9 DEF BuildFails
<1>10. ASSUME NEW t \in Threads, SwapClient(t) PROVE LoneOperationRecovers'
  BY <1>10 DEF SwapClient
<1>11. ASSUME NEW t \in Threads, ClosePrevious(t) PROVE LoneOperationRecovers'
  BY <1>11 DEF ClosePrevious
<1>12. ASSUME NEW t \in Threads, Raise(t) PROVE LoneOperationRecovers'
  BY <1>12 DEF Raise
<1>13. CASE RenewCert
  BY <1>13 DEF RenewCert
<1>14. CASE ExpireOldCerts
  BY <1>14 DEF ExpireOldCerts
<1>15. CASE Close
  BY <1>15 DEF Close
<1>16. CASE UNCHANGED vars
  BY <1>16 DEF vars
<1> QED
  BY <1>1, <1>2, <1>3, <1>4, <1>5, <1>6, <1>7, <1>8,
     <1>9, <1>10, <1>11, <1>12, <1>13, <1>14, <1>15, <1>16 DEF Next, Step

\* The invariant holds in every interleaving of requests, rebuilds
\* (_rebuild_http_client), rotations and close().
LEMMA Inductive ==
  ASSUME ConstantsAreSound
  PROVE  Spec => []IInv
<1>1. Init => IInv
  BY InitIInv
<1>2. IInv /\ [Next]_vars => IInv'
  <2> SUFFICES ASSUME IInv, [Next]_vars PROVE IInv'
    OBVIOUS
  <2> QED
    BY StepKeepsTypeInv, StepKeepsRebuild, StepKeepsOpen, StepKeepsAccounts, StepKeepsCalm,
       StepKeepsLone DEF IInv
<1> QED
  BY <1>1, <1>2, PTL DEF Spec

\* The types of CbcClient, and an operation under way has a request left.
LEMMA TypeCorrect ==
  ASSUME ConstantsAreSound
  PROVE  Spec => []TypeInv
<1>1. IInv => TypeInv
  BY DEF IInv
<1> QED
  BY <1>1, Inductive, PTL

\* The client in the field is open until close() is called on the CBC client.
LEMMA FieldIsOpen ==
  ASSUME ConstantsAreSound
  PROVE  Spec => []CurrentClientOpen
<1>1. IInv => CurrentClientOpen
  BY DEF IInv
<1> QED
  BY <1>1, Inductive, PTL

\* A client that is replaced is closed: no connection pool is lost.
LEMMA NoClientLost ==
  ASSUME ConstantsAreSound
  PROVE  Spec => []ReplacedClientsClosed
<1>1. IInv => ReplacedClientsClosed
  BY DEF IInv, AllAccounted, Accounted, ReplacedClientsClosed, Rebuilding
<1> QED
  BY <1>1, Inductive, PTL

\* One rebuild is enough for an operation that runs alone on a steady
\* certificate: it meets neither a TLS failure nor a closed client.
LEMMA LoneOperation ==
  ASSUME ConstantsAreSound
  PROVE  Spec => []LoneOperationRecovers
<1>1. IInv => LoneOperationRecovers
  BY DEF IInv
<1> QED
  BY <1>1, Inductive, PTL

-----------------------------------------------------------------------------
(* The object store *)

LEMMA StoreSound == MaxVersion \in Nat /\ Mounted \in BOOLEAN /\ NoThread \notin Threads
BY Bounds DEF Store!NoThreadAssumption

(***************************************************************************)
(* The lock is held from EnterRefresh to the end of the refresh.           *)
(***************************************************************************)
InRefresh(t) == storePc[t] \in {"readId", "readSecret", "install"}

(***************************************************************************)
(* A refresh has read nothing older than the client: both are as old as    *)
(* the binding at most, and nobody else replaces the client meanwhile.     *)
(***************************************************************************)
RefreshIsOrdered ==
    /\ minio.id <= binding /\ minio.secret <= binding
    /\ \A t \in Threads :
          /\ InRefresh(t) => storeLock = t
          /\ storePc[t] \in {"readSecret", "install"} => minio.id <= read[t].id /\ read[t].id <= binding
          /\ Store!At(t, "install") => minio.secret <= read[t].secret /\ read[t].secret <= binding

TriesOK == \A t \in Threads : Store!Idle(t) => tries[t] = 0

StoreTypeInv == Store!TypeOK /\ TriesOK

StoreIInv == StoreTypeInv /\ RefreshIsOrdered

-----------------------------------------------------------------------------

LEMMA StoreInitIInv == Store!Init => StoreIInv
<1> USE StoreSound
<1>1. Store!Init => StoreTypeInv
  BY DEF Store!Init, Store!BindingInit, StoreTypeInv, Store!TypeOK, TriesOK,
         Store!BindingTypeOK, Store!Versions, Store!Credentials,
         Store!NothingRead, Store!Labels, Store!NoOp
<1>2. Store!Init => RefreshIsOrdered
  BY DEF Store!Init, Store!BindingInit, Store!NothingRead, RefreshIsOrdered, InRefresh, Store!At
<1> QED
  BY <1>1, <1>2 DEF StoreIInv

LEMMA StoreKeepsTypeInv ==
  ASSUME StoreTypeInv, [Store!Next]_(Store!vars)
  PROVE  StoreTypeInv'
<1> USE StoreSound
    DEF StoreTypeInv, Store!TypeOK, TriesOK, Store!BindingTypeOK, Store!Versions,
        Store!Credentials, Store!NothingRead, Store!Labels,
        Store!At, Store!Goto, Store!Idle, Store!NoOp, Store!Kinds, Store!bindingVars, Store!clientVars, Store!localVars
<1>1. ASSUME NEW t \in Threads, NEW k \in Store!Kinds, Store!Operation(t, k) PROVE StoreTypeInv'
  BY <1>1 DEF Store!Operation
<1>2. ASSUME NEW t \in Threads, Store!StatBinding(t) PROVE StoreTypeInv'
  BY <1>2 DEF Store!StatBinding
<1>3. ASSUME NEW t \in Threads, Store!CompareMtime(t) PROVE StoreTypeInv'
  BY <1>3 DEF Store!CompareMtime, Store!Remember
<1>4. ASSUME NEW t \in Threads, Store!EnterRefresh(t) PROVE StoreTypeInv'
  BY <1>4 DEF Store!EnterRefresh
<1>5. ASSUME NEW t \in Threads, Store!ReadId(t) PROVE StoreTypeInv'
  BY <1>5 DEF Store!ReadId
<1>6. ASSUME NEW t \in Threads, Store!ReadSecret(t) PROVE StoreTypeInv'
  BY <1>6 DEF Store!ReadSecret
<1>7. ASSUME NEW t \in Threads, Store!RefreshFails(t) PROVE StoreTypeInv'
  <2>1. /\ op' = [op EXCEPT ![t] = Store!NoOp]
        /\ storeUsing' = [storeUsing EXCEPT ![t] = Store!NothingRead]
        /\ tries' = [tries EXCEPT ![t] = 0]
        /\ read' = [read EXCEPT ![t] = Store!NothingRead]
        /\ storeCalm' = [storeCalm EXCEPT ![t] = FALSE]
        /\ storePc' = [storePc EXCEPT ![t] = "idle"]
        /\ storeLock' = NoThread
        /\ UNCHANGED <<binding, accepted, lastMtime, minio, seen>>
    BY <1>7 DEF Store!RefreshFails, Store!Done
  <2> QED
    BY <2>1
<1>8. ASSUME NEW t \in Threads, Store!InstallClient(t) PROVE StoreTypeInv'
  BY <1>8 DEF Store!InstallClient
<1>9. ASSUME NEW t \in Threads, Store!Call(t) PROVE StoreTypeInv'
  BY <1>9 DEF Store!Call
<1>10. ASSUME NEW t \in Threads, Store!Succeeds(t) \/ Store!RaiseError(t) \/ Store!OtherError(t)
       PROVE StoreTypeInv'
  <2>1. /\ op' = [op EXCEPT ![t] = Store!NoOp]
        /\ storeUsing' = [storeUsing EXCEPT ![t] = Store!NothingRead]
        /\ tries' = [tries EXCEPT ![t] = 0]
        /\ read' = [read EXCEPT ![t] = Store!NothingRead]
        /\ storeCalm' = [storeCalm EXCEPT ![t] = FALSE]
        /\ storePc' = [storePc EXCEPT ![t] = "idle"]
        /\ UNCHANGED <<binding, accepted, lastMtime, minio, storeLock, seen>>
    BY <1>10 DEF Store!Succeeds, Store!RaiseError, Store!OtherError, Store!Done
  <2> QED
    BY <2>1
<1>11. ASSUME NEW t \in Threads, Store!FirstRefusal(t) PROVE StoreTypeInv'
  BY <1>11 DEF Store!FirstRefusal
<1>12. ASSUME NEW t \in Threads, Store!FinalRefusal(t) PROVE StoreTypeInv'
  BY <1>12 DEF Store!FinalRefusal
<1>13. CASE Store!Platform
  <2>1. binding' \in Store!Versions /\ lastMtime' = lastMtime
    BY <1>13 DEF Store!Platform, Store!RotateBinding, Store!RevokeOld
  <2>2. accepted' \subseteq accepted \cup {binding, binding'}
    BY <1>13 DEF Store!Platform, Store!RotateBinding, Store!RevokeOld
  <2>3. storeCalm' \in [Threads -> BOOLEAN]
    BY <1>13 DEF Store!Platform
  <2> QED
    BY <1>13, <2>1, <2>2, <2>3 DEF Store!Platform
<1>14. CASE UNCHANGED Store!vars
  BY <1>14 DEF Store!vars
<1> QED
  BY <1>1, <1>2, <1>3, <1>4, <1>5, <1>6, <1>7, <1>8, <1>9, <1>10, <1>11, <1>12, <1>13, <1>14
  DEF Store!Next, Store!Step

LEMMA StoreKeepsOrder ==
  ASSUME StoreIInv, [Store!Next]_(Store!vars)
  PROVE  RefreshIsOrdered'
<1> USE StoreSound
    DEF StoreIInv, StoreTypeInv, Store!TypeOK, Store!BindingTypeOK, Store!Versions,
        Store!Credentials,
        Store!NothingRead, Store!At, Store!Goto, Store!Idle, Store!bindingVars, Store!clientVars, Store!localVars,
        RefreshIsOrdered, InRefresh
<1>1. ASSUME NEW t \in Threads, NEW k \in Store!Kinds, Store!Operation(t, k)
      PROVE RefreshIsOrdered'
  BY <1>1 DEF Store!Operation
<1>2. ASSUME NEW t \in Threads, Store!StatBinding(t) PROVE RefreshIsOrdered'
  BY <1>2 DEF Store!StatBinding
<1>3. ASSUME NEW t \in Threads, Store!CompareMtime(t) PROVE RefreshIsOrdered'
  BY <1>3 DEF Store!CompareMtime, Store!Remember
<1>4. ASSUME NEW t \in Threads, Store!EnterRefresh(t) PROVE RefreshIsOrdered'
  BY <1>4 DEF Store!EnterRefresh
<1>5. ASSUME NEW t \in Threads, Store!ReadId(t) PROVE RefreshIsOrdered'
  BY <1>5 DEF Store!ReadId
<1>6. ASSUME NEW t \in Threads, Store!ReadSecret(t) PROVE RefreshIsOrdered'
  BY <1>6 DEF Store!ReadSecret
<1>7. ASSUME NEW t \in Threads, Store!RefreshFails(t) PROVE RefreshIsOrdered'
  BY <1>7 DEF Store!RefreshFails, Store!Done
<1>8. ASSUME NEW t \in Threads, Store!InstallClient(t) PROVE RefreshIsOrdered'
  BY <1>8 DEF Store!InstallClient
<1>9. ASSUME NEW t \in Threads, Store!Call(t) PROVE RefreshIsOrdered'
  BY <1>9 DEF Store!Call
<1>10. ASSUME NEW t \in Threads, Store!Succeeds(t) \/ Store!RaiseError(t) \/ Store!OtherError(t)
       PROVE  RefreshIsOrdered'
  BY <1>10 DEF Store!Succeeds, Store!RaiseError, Store!OtherError, Store!Done
<1>11. ASSUME NEW t \in Threads, Store!FirstRefusal(t) PROVE RefreshIsOrdered'
  BY <1>11 DEF Store!FirstRefusal
<1>12. ASSUME NEW t \in Threads, Store!FinalRefusal(t) PROVE RefreshIsOrdered'
  BY <1>12 DEF Store!FinalRefusal
<1>13. CASE Store!Platform
  BY <1>13 DEF Store!Platform, Store!RotateBinding, Store!RevokeOld
<1>14. CASE UNCHANGED Store!vars
  BY <1>14 DEF Store!vars
<1> QED
  BY <1>1, <1>2, <1>3, <1>4, <1>5, <1>6, <1>7, <1>8, <1>9, <1>10, <1>11, <1>12, <1>13, <1>14
  DEF Store!Next, Store!Step

\* The invariant holds in every interleaving of operations, refreshes
\* (_execute_with_retry) and rotations.
LEMMA StoreInductive == Store!Spec => []StoreIInv
<1>1. StoreIInv /\ [Store!Next]_(Store!vars) => StoreIInv'
  BY StoreKeepsTypeInv, StoreKeepsOrder DEF StoreIInv
<1> QED
  BY <1>1, StoreInitIInv, PTL DEF Store!Spec

(***************************************************************************)
(* Refreshes are ordered: whatever refreshes overlap, the shared client    *)
(* never goes back to older credentials (objectstore/_s3.py:94-119).       *)
(***************************************************************************)
LEMMA StoreNeverOlder == Store!Spec => Store!NeverOlder
<1> DEFINE Newer == minio'.id >= minio.id /\ minio'.secret >= minio.secret
<1>1. StoreIInv /\ [Store!Next]_(Store!vars) => [Newer]_minio
  <2> SUFFICES ASSUME StoreIInv, [Store!Next]_(Store!vars), minio' # minio PROVE Newer
    OBVIOUS
  <2>1. PICK t \in Threads : Store!InstallClient(t)
    BY DEF Store!Next, Store!Step, Store!vars, Store!bindingVars, Store!clientVars,
           Store!Operation, Store!StatBinding, Store!CompareMtime,
           Store!EnterRefresh, Store!ReadId, Store!ReadSecret, Store!RefreshFails, Store!Call, Store!Succeeds, Store!FirstRefusal,
           Store!FinalRefusal, Store!OtherError, Store!RaiseError, Store!Platform
  <2> QED
    BY <2>1, StoreSound
    DEF Store!InstallClient, StoreIInv, StoreTypeInv, Store!TypeOK, Store!BindingTypeOK,
        Store!Versions, Store!Credentials,
        RefreshIsOrdered, Store!At
<1> QED
  BY StoreInductive, <1>1, PTL DEF Store!Spec, Store!NeverOlder

-----------------------------------------------------------------------------
(***************************************************************************)
(* An operation that is storeCalm has the client to itself, on a binding that   *)
(* does not change: what it reads is the mounted version, which is         *)
(* accepted, and after its first refusal it sends with what it has read.   *)
(***************************************************************************)
Mountedly(c) == c.id = binding /\ c.secret = binding

StoreCalmOK(t) ==
    storeCalm[t] =>
        /\ \A u \in Threads : u # t => Store!Idle(u)
        /\ Store!At(t, "readSecret") => read[t].id = binding
        /\ Store!At(t, "install") => Mountedly(read[t])
        /\ tries[t] = 1 => storePc[t] \notin {"idle", "stat", "compare"}
        /\ tries[t] = 1 /\ Store!At(t, "call") => Mountedly(minio)
        /\ tries[t] = 1 /\ Store!At(t, "request") => Mountedly(storeUsing[t])
        /\ Store!At(t, "iterate") => op[t] = "list"
        /\ Store!At(t, "rejected") => op[t] # "repeatable"

StoreCalmInv == Store!MountedIsAccepted /\ \A t \in Threads : StoreCalmOK(t)

LEMMA StoreInitCalm == Store!Init => StoreCalmInv
<1>1. Store!Init => Store!MountedIsAccepted
  BY DEF Store!Init, Store!BindingInit, Store!MountedIsAccepted
<1>2. ASSUME Store!Init, NEW t \in Threads PROVE ~storeCalm[t]
  BY <1>2 DEF Store!Init
<1> QED
  BY <1>1, <1>2 DEF StoreCalmInv, StoreCalmOK

LEMMA StoreKeepsCalm ==
  ASSUME StoreTypeInv, StoreCalmInv, [Store!Next]_(Store!vars)
  PROVE  StoreCalmInv'
<1> USE StoreSound
    DEF StoreTypeInv, Store!TypeOK, TriesOK, Store!BindingTypeOK, StoreCalmInv, StoreCalmOK,
        Store!MountedIsAccepted, Mountedly,
        Store!Credentials, Store!NothingRead, Store!At, Store!Goto, Store!Idle, Store!bindingVars, Store!clientVars, Store!localVars
<1>1. ASSUME NEW t \in Threads, NEW k \in Store!Kinds, Store!Operation(t, k) PROVE StoreCalmInv'
  <2>1. \A u \in Threads : storeCalm'[u] => u = t /\ \A v \in Threads : storePc[v] = "idle"
    BY <1>1, Zenon DEF Store!Operation
  <2>2. /\ storePc' \in {[storePc EXCEPT ![t] = "stat"], [storePc EXCEPT ![t] = "call"]}
        /\ storePc[t] = "idle"
        /\ UNCHANGED <<binding, accepted, minio, read, storeUsing, tries>>
    BY <1>1 DEF Store!Operation
  <2> QED
    BY <2>1, <2>2
<1>2. ASSUME NEW t \in Threads, Store!StatBinding(t) PROVE StoreCalmInv'
  BY <1>2 DEF Store!StatBinding
<1>3. ASSUME NEW t \in Threads, Store!CompareMtime(t) PROVE StoreCalmInv'
  BY <1>3 DEF Store!CompareMtime, Store!Remember
<1>4. ASSUME NEW t \in Threads, Store!EnterRefresh(t) PROVE StoreCalmInv'
  BY <1>4 DEF Store!EnterRefresh
<1>5. ASSUME NEW t \in Threads, Store!ReadId(t) PROVE StoreCalmInv'
  BY <1>5 DEF Store!ReadId
<1>6. ASSUME NEW t \in Threads, Store!ReadSecret(t) PROVE StoreCalmInv'
  BY <1>6 DEF Store!ReadSecret
<1>7. ASSUME NEW t \in Threads, Store!RefreshFails(t) PROVE StoreCalmInv'
  BY <1>7 DEF Store!RefreshFails, Store!Done
<1>8. ASSUME NEW t \in Threads, Store!InstallClient(t) PROVE StoreCalmInv'
  BY <1>8 DEF Store!InstallClient
<1>9. ASSUME NEW t \in Threads, Store!Call(t) PROVE StoreCalmInv'
  BY <1>9 DEF Store!Call
<1>10. ASSUME NEW t \in Threads, Store!Succeeds(t) \/ Store!RaiseError(t) \/ Store!OtherError(t)
       PROVE StoreCalmInv'
  <2>1. /\ op' = [op EXCEPT ![t] = Store!NoOp]
        /\ storeUsing' = [storeUsing EXCEPT ![t] = Store!NothingRead]
        /\ tries' = [tries EXCEPT ![t] = 0]
        /\ read' = [read EXCEPT ![t] = Store!NothingRead]
        /\ storeCalm' = [storeCalm EXCEPT ![t] = FALSE]
        /\ storePc' = [storePc EXCEPT ![t] = "idle"]
        /\ UNCHANGED <<binding, accepted, minio>>
    BY <1>10 DEF Store!Succeeds, Store!RaiseError, Store!OtherError, Store!Done
  <2> QED
    BY <2>1
<1>11. ASSUME NEW t \in Threads, Store!FirstRefusal(t) PROVE StoreCalmInv'
  BY <1>11 DEF Store!FirstRefusal
<1>12. ASSUME NEW t \in Threads, Store!FinalRefusal(t) PROVE StoreCalmInv'
  BY <1>12 DEF Store!FinalRefusal, Store!Refused, Store!Consumed
<1>13. CASE Store!Platform
  BY <1>13, StoreSound DEF Store!Platform, Store!RotateBinding, Store!RevokeOld
<1>14. CASE UNCHANGED Store!vars
  BY <1>14 DEF Store!vars
<1> QED
  BY <1>1, <1>2, <1>3, <1>4, <1>5, <1>6, <1>7, <1>8, <1>9, <1>10, <1>11, <1>12, <1>13, <1>14
  DEF Store!Next, Store!Step

(***************************************************************************)
(* An operation that can be repeated and runs alone on a steady binding    *)
(* recovers with its one retry from credentials that have been rotated     *)
(* (objectstore/_s3.py:99-121).                                            *)
(***************************************************************************)
LEMMA StoreLoneOperation == Store!Spec => []Store!RejectedOnlyUnderRace
<1>1. Store!Spec => []StoreCalmInv
  <2>1. StoreTypeInv /\ StoreCalmInv /\ [Store!Next]_(Store!vars) => StoreCalmInv'
    BY StoreKeepsCalm
  <2>2. StoreIInv => StoreTypeInv
    BY DEF StoreIInv
  <2> QED
    BY <2>1, <2>2, StoreInitCalm, StoreInductive, PTL DEF Store!Spec
<1>2. StoreCalmInv => Store!RejectedOnlyUnderRace
  BY DEF StoreCalmInv, StoreCalmOK, Store!RejectedOnlyUnderRace
<1> QED
  BY <1>1, <1>2, PTL

-----------------------------------------------------------------------------
(* The parts together *)

\* Behaviours of the composition are behaviours of each part.
LEMMA ContainsCbc == RenewalsSpec => Spec
<1>1. RenewalsInit => Init
  BY DEF RenewalsInit
<1>2. [RenewalsNext]_renewalsVars => [Next]_vars
  BY DEF RenewalsNext, renewalsVars, CbcMoves, StoreMoves
<1> QED
  BY <1>1, <1>2, PTL DEF RenewalsSpec, Spec

LEMMA ContainsStore == RenewalsSpec => Store!Spec
<1>1. RenewalsInit => Store!Init
  BY DEF RenewalsInit
<1>2. [RenewalsNext]_renewalsVars => [Store!Next]_(Store!vars)
  BY DEF RenewalsNext, renewalsVars, CbcMoves, StoreMoves, storeVars, Store!vars,
         Store!bindingVars, Store!clientVars, Store!localVars
<1> QED
  BY <1>1, <1>2, PTL DEF RenewalsSpec, Store!Spec

LEMMA CbcConstants == ConstantsAreSound
BY Bounds DEF ConstantsAreSound

\* The types of both parts, and an operation of CBC under way has a request left.
THEOREM RenewalTypes == RenewalsSpec => []TypesOK
<1>1. RenewalsSpec => []TypeInv
  BY ContainsCbc, CbcConstants, TypeCorrect, PTL
<1>2. RenewalsSpec => []StoreIInv
  BY ContainsStore, StoreInductive, PTL
<1>3. RenewalsSpec => [](part \in Parts)
  <2>1. RenewalsInit => part \in Parts
    BY DEF RenewalsInit
  <2>2. part \in Parts /\ [RenewalsNext]_renewalsVars => (part \in Parts)'
    BY DEF RenewalsNext, renewalsVars, CbcMoves, StoreMoves
  <2> QED
    BY <2>1, <2>2, PTL DEF RenewalsSpec
<1>4. (TypeInv /\ StoreIInv /\ part \in Parts) => TypesOK
  BY DEF TypeInv, StoreIInv, StoreTypeInv, TypesOK
<1> QED
  BY <1>1, <1>2, <1>3, <1>4, PTL

\* The client in the field is open until close() is called on the CBC client, whatever
\* rebuilds overlap (cbc/client.py, _rebuild_http_client).
THEOREM FieldStaysOpen == RenewalsSpec => []CurrentClientOpen
BY ContainsCbc, CbcConstants, FieldIsOpen, PTL

\* A client that is replaced is closed: no connection pool is lost
\* (cbc/client.py, _rebuild_http_client).
THEOREM NoPoolIsLost == RenewalsSpec => []ReplacedClientsClosed
BY ContainsCbc, CbcConstants, NoClientLost, PTL

\* One rebuild is enough for an operation that runs alone on a steady certificate: it
\* meets neither a TLS failure nor a closed client (cbc/client.py, _request).
THEOREM LoneOperationsRecover == RenewalsSpec => []LoneOperationRecovers
BY ContainsCbc, CbcConstants, LoneOperation, PTL

\* An operation that can be repeated and runs alone on a steady binding recovers with
\* its one retry from credentials that have been rotated
\* (objectstore/_s3.py, _execute_with_retry).
THEOREM OnlyRacesAreRejected == RenewalsSpec => []RejectedOnlyUnderRace
<1>1. Store!RejectedOnlyUnderRace => RejectedOnlyUnderRace
  BY DEF RejectedOnlyUnderRace
<1> QED
  BY <1>1, ContainsStore, StoreLoneOperation, PTL

\* Refreshes are ordered: whatever refreshes overlap, the shared client never goes back
\* to older credentials (objectstore/_s3.py, _refresh_credentials).
THEOREM ClientIsNeverOlder == RenewalsSpec => NeverOlder
<1>1. Store!NeverOlder => NeverOlder
  BY DEF NeverOlder
<1> QED
  BY <1>1, ContainsStore, StoreNeverOlder, PTL
=============================================================================
