--------------------------- MODULE XsuaaAuthProofs ---------------------------
(***************************************************************************)
(* What holds of XsuaaAuth for any number of threads, tenants, rotations   *)
(* and attempts: type correctness, tenant isolation, and that no closed    *)
(* session is handed out from the cache.                                   *)
(***************************************************************************)
EXTENDS XsuaaAuth, TLAPS

(***************************************************************************)
(* The strengthening.  A thread holds a session exactly when its label     *)
(* says so; between the grant and the store a session belongs to one       *)
(* thread, and to no cache entry; entries of two tenants are two objects.  *)
(* A thread at the token endpoint asks its tenant's, or the provider's for *)
(* want of a derivable URL: what it has read was mounted at some time.     *)
(***************************************************************************)
Busy(t) == ~At(t, "idle")
Storing(t) == At(t, "store")

LabelsTellLocals ==
    \A t \in Threads :
        /\ Busy(t) => tenant[t] \in Tenants
        /\ pc[t] = "idle" => session[t] = NoSession /\ refused[t] = NoVersion
        /\ pc[t] \in {"store", "send"} => session[t] \in SessionType
        /\ pc[t] \notin {"failed", "rejected"} => attempt[t] < MaxAttempts
        /\ pc[t] = "compare" => seen[t] \in Versions

EntriesDistinct ==
    \A j, k \in Tenants :
        Cached(j) /\ Cached(k) /\ j # k
            => cache[j].session.id # cache[k].session.id

PendingIsPrivate ==
    \A t \in Threads : Storing(t) =>
        /\ session[t].id \notin closed
        /\ session[t].id \notin CachedIds
        /\ \A u \in Threads : Storing(u) /\ u # t => session[u].id # session[t].id

ReadsAreOfThePast ==
    /\ config.secret \in 0 .. binding
    /\ \A t \in Threads : read[t].secret \in 0 .. binding

UrlsAreOfTheTenant ==
    \A t \in Threads : At(t, "fetch") =>
        url[t] = tenant[t] \/ (url[t] = Provider /\ Underivable)

IInv == /\ TypeOK
        /\ LabelsTellLocals
        /\ ReadsAreOfThePast
        /\ UrlsAreOfTheTenant
        /\ TenantIsolation
        /\ EntriesDistinct
        /\ PendingIsPrivate
        /\ CachedSessionsOpen

-----------------------------------------------------------------------------

LEMMA InitIInv == Init => IInv
  BY VersionAssumption, MtimeAssumption, AttemptsAssumption
  DEF Init, BindingInit, IInv, TypeOK, BindingTypeOK, Versions, Config,
      NothingRead, Labels, NoEntry, Cached, CachedIds, Holders, At, Busy,
      Storing, LabelsTellLocals, TenantIsolation, EntriesDistinct,
      PendingIsPrivate, CachedSessionsOpen, ReadsAreOfThePast, UrlsAreOfTheTenant,
      Owners

(***************************************************************************)
(* Each step keeps the types, and what a label says of the locals.         *)
(***************************************************************************)
LEMMA StepKeepsTypes ==
  ASSUME IInv, Next
  PROVE  TypeOK' /\ LabelsTellLocals'
<1> USE VersionAssumption, MtimeAssumption, AttemptsAssumption
    DEF IInv, TypeOK, LabelsTellLocals, BindingTypeOK, bindingVars,
        providerVars, threadVars, At, Goto, Idle, Busy, Labels
<1>1. ASSUME NEW t \in Threads, StatBinding(t) PROVE TypeOK' /\ LabelsTellLocals'
  BY <1>1 DEF StatBinding, Versions
<1>2. ASSUME NEW t \in Threads, CompareMtime(t) PROVE TypeOK' /\ LabelsTellLocals'
  BY <1>2 DEF CompareMtime, Remember
<1>3. ASSUME NEW t \in Threads, EvictRotated(t) PROVE TypeOK' /\ LabelsTellLocals'
  BY <1>3 DEF EvictRotated, EvictAll, CachedIds, Cached, Entry, SessionType, NoEntry
<1>4. ASSUME NEW t \in Threads, Lookup(t) PROVE TypeOK' /\ LabelsTellLocals'
  BY <1>4 DEF Lookup, Entry, Cached, NoEntry
<1>5. ASSUME NEW t \in Threads, ReadId(t) PROVE TypeOK' /\ LabelsTellLocals'
  BY <1>5 DEF ReadId, Config
<1>6. ASSUME NEW t \in Threads, ReadSecret(t) PROVE TypeOK' /\ LabelsTellLocals'
  BY <1>6 DEF ReadSecret, Config
<1>7. ASSUME NEW t \in Threads, ReadFails(t) PROVE TypeOK' /\ LabelsTellLocals'
  BY <1>7 DEF ReadFails
<1>8. ASSUME NEW t \in Threads, AssignConfig(t) PROVE TypeOK' /\ LabelsTellLocals'
  BY <1>8 DEF AssignConfig, NothingRead, Config, Versions
<1>24. ASSUME NEW t \in Threads, DeriveUrl(t) PROVE TypeOK' /\ LabelsTellLocals'
  BY <1>24 DEF DeriveUrl, Owners
<1>9. ASSUME NEW t \in Threads, TokenGranted(t) PROVE TypeOK' /\ LabelsTellLocals'
  BY <1>9 DEF TokenGranted, CredentialsValid, FreeIds, SessionType, Config, Owners
<1>10. ASSUME NEW t \in Threads, TokenRefused(t) PROVE TypeOK' /\ LabelsTellLocals'
  BY <1>10 DEF TokenRefused, AttemptFails
<1>11. ASSUME NEW t \in Threads, TokenOutage(t) PROVE TypeOK' /\ LabelsTellLocals'
  BY <1>11 DEF TokenOutage, AttemptFails
<1>12. ASSUME NEW t \in Threads, FatalClientError(t) PROVE TypeOK' /\ LabelsTellLocals'
  BY <1>12 DEF FatalClientError
<1>13. ASSUME NEW t \in Threads, StoreToken(t) PROVE TypeOK' /\ LabelsTellLocals'
  BY <1>13 DEF StoreToken, Entry, SessionType, Cached, NoEntry
<1>14. ASSUME NEW t \in Threads, Succeeds(t) PROVE TypeOK' /\ LabelsTellLocals'
  BY <1>14 DEF Succeeds, Release, NothingRead, Config, Versions, Owners
<1>15. ASSUME NEW t \in Threads, FirstUnauthorized(t) PROVE TypeOK' /\ LabelsTellLocals'
  BY <1>15 DEF FirstUnauthorized, SessionType
<1>16. ASSUME NEW t \in Threads, SecondUnauthorized(t) PROVE TypeOK' /\ LabelsTellLocals'
  BY <1>16 DEF SecondUnauthorized
<1>17. ASSUME NEW t \in Threads, Invalidate(t) PROVE TypeOK' /\ LabelsTellLocals'
  BY <1>17 DEF Invalidate, NoEntry
<1>18. ASSUME NEW t \in Threads, ReturnFailure(t) PROVE TypeOK' /\ LabelsTellLocals'
  BY <1>18 DEF ReturnFailure, Release, NothingRead, Config, Versions, Owners
<1>19. ASSUME NEW t \in Threads, NEW k \in Tenants, Request(t, k)
       PROVE TypeOK' /\ LabelsTellLocals'
  BY <1>19 DEF Request
<1>20. ASSUME Rotate PROVE TypeOK' /\ LabelsTellLocals'
  BY <1>20 DEF Rotate, RotateBinding, Versions
<1>21. ASSUME Revoke PROVE TypeOK' /\ LabelsTellLocals'
  BY <1>21 DEF Revoke, RevokeOld
<1>22. ASSUME Close PROVE TypeOK' /\ LabelsTellLocals'
  BY <1>22 DEF Close, EvictAll, CachedIds, Cached, Entry, SessionType, NoEntry
<1>23. ASSUME NEW k \in Tenants, Expire(k) PROVE TypeOK' /\ LabelsTellLocals'
  <2>1. cache[k] \in Entry
    BY <1>23 DEF Expire, Cached
  <2>2. [cache[k] EXCEPT !.live = FALSE] \in Entry
    BY <2>1 DEF Entry
  <2>3. cache' \in [Tenants -> Entry \cup {NoEntry}]
    BY <1>23, <2>2 DEF Expire
  <2> QED
    BY <1>23, <2>3 DEF Expire
<1> QED
  BY <1>1, <1>2, <1>3, <1>4, <1>5, <1>6, <1>7, <1>8, <1>9, <1>10, <1>11, <1>12, <1>13, <1>14,
     <1>15, <1>16, <1>17, <1>18, <1>19, <1>20, <1>21, <1>22, <1>23, <1>24
  DEF Next, Step

(***************************************************************************)
(* The version of the binding only grows, and every read takes the one of  *)
(* its moment.                                                             *)
(***************************************************************************)
LEMMA StepKeepsPast ==
  ASSUME IInv, Next
  PROVE  ReadsAreOfThePast' /\ (Underivable => Underivable')
<1> USE DEF IInv, TypeOK, BindingTypeOK, Versions, ReadsAreOfThePast, Underivable,
        bindingVars, providerVars, threadVars, Goto, At
<1>1. ASSUME NEW t \in Threads, ReadSecret(t) PROVE ReadsAreOfThePast'
  BY <1>1 DEF ReadSecret, Config
<1>2. ASSUME NEW t \in Threads, ReadId(t) PROVE ReadsAreOfThePast'
  BY <1>2 DEF ReadId, Config
<1>3. ASSUME NEW t \in Threads, AssignConfig(t) PROVE ReadsAreOfThePast'
  BY <1>3 DEF AssignConfig, NothingRead
<1>4. ASSUME NEW t \in Threads, Succeeds(t) \/ ReturnFailure(t) PROVE ReadsAreOfThePast'
  BY <1>4 DEF Succeeds, ReturnFailure, Release, NothingRead
<1>5. ASSUME Rotate PROVE ReadsAreOfThePast' /\ (Underivable => Underivable')
  <2>1. /\ binding' = binding + 1 /\ config' = config /\ read' = read
        /\ binding \in Nat
    BY <1>5 DEF Rotate, RotateBinding
  <2>2. 0 .. binding \subseteq 0 .. binding'
    BY <2>1
  <2> QED
    BY <2>1, <2>2
<1>6. CASE config' = config /\ read' = read /\ binding' = binding
  BY <1>6
<1>7. ~Rotate => binding' = binding
  BY DEF Next, Step, StatBinding, CompareMtime, EvictRotated, Lookup, ReadId, ReadSecret,
         ReadFails, AssignConfig, DeriveUrl, TokenGranted, TokenRefused, TokenOutage,
         AttemptFails, FatalClientError, StoreToken, Succeeds, FirstUnauthorized,
         SecondUnauthorized, Invalidate, ReturnFailure, Request, Revoke, RevokeOld, Expire,
         Close
<1>8. CASE ~Rotate
  <2>1. Underivable => Underivable'
    BY <1>7, <1>8
  <2> QED
    BY <1>1, <1>2, <1>3, <1>4, <1>6, <1>8, <2>1
    DEF Next, Step, StatBinding, CompareMtime, EvictRotated, Lookup, ReadFails, DeriveUrl,
        TokenGranted, TokenRefused, TokenOutage, AttemptFails, FatalClientError, StoreToken,
        FirstUnauthorized, SecondUnauthorized, Invalidate, Request, Revoke, RevokeOld, Expire,
        Close
<1> QED
  BY <1>5, <1>8

(***************************************************************************)
(* The token URL is derived for the tenant of the request, whoever has     *)
(* assigned the _config it is derived from.                                *)
(***************************************************************************)
LEMMA StepKeepsUrls ==
  ASSUME IInv, Next
  PROVE  UrlsAreOfTheTenant'
<1> USE StepKeepsPast
    DEF IInv, TypeOK, UrlsAreOfTheTenant, bindingVars, providerVars, threadVars, At, Goto
<1>1. ASSUME NEW t \in Threads, DeriveUrl(t) PROVE UrlsAreOfTheTenant'
  <2>1. config.secret \notin Zoned \cap Labelled => Underivable
    BY DEF ReadsAreOfThePast, Underivable
  <2>2. pc' = [pc EXCEPT ![t] = "fetch"] =>
            url'[t] = tenant'[t] \/ (url'[t] = Provider /\ Underivable')
    BY <1>1, <2>1 DEF DeriveUrl
  <2>3. \A u \in Threads : u # t => url'[u] = url[u] /\ tenant'[u] = tenant[u] /\ pc'[u] = pc[u]
    BY <1>1 DEF DeriveUrl
  <2>4. pc'[t] = "fetch" => pc' = [pc EXCEPT ![t] = "fetch"]
    BY <1>1 DEF DeriveUrl
  <2> QED
    BY <2>2, <2>3, <2>4
<1>2. ASSUME NEW t \in Threads, NEW k \in Tenants, Request(t, k) PROVE UrlsAreOfTheTenant'
  BY <1>2 DEF Request, Idle
<1>3. ASSUME NEW t \in Threads, Succeeds(t) \/ ReturnFailure(t) PROVE UrlsAreOfTheTenant'
  BY <1>3 DEF Succeeds, ReturnFailure, Release
<1>4. ASSUME NEW t \in Threads, TokenGranted(t) PROVE UrlsAreOfTheTenant'
  BY <1>4 DEF TokenGranted
<1>5. ASSUME \A u \in Threads : pc'[u] = "fetch" =>
                 pc[u] = "fetch" /\ url'[u] = url[u] /\ tenant'[u] = tenant[u]
      PROVE  UrlsAreOfTheTenant'
  BY <1>5
<1>6. ASSUME NEW t \in Threads,
             \/ StatBinding(t) \/ CompareMtime(t) \/ EvictRotated(t) \/ Lookup(t)
             \/ ReadId(t) \/ ReadSecret(t) \/ ReadFails(t) \/ AssignConfig(t)
             \/ TokenRefused(t) \/ TokenOutage(t) \/ FatalClientError(t) \/ StoreToken(t)
             \/ FirstUnauthorized(t) \/ SecondUnauthorized(t) \/ Invalidate(t)
      PROVE  UrlsAreOfTheTenant'
  BY <1>5, <1>6
  DEF StatBinding, CompareMtime, EvictRotated, Lookup, ReadId, ReadSecret, ReadFails,
      AssignConfig, TokenRefused, TokenOutage, AttemptFails, FatalClientError, StoreToken,
      FirstUnauthorized, SecondUnauthorized, Invalidate
<1>7. ASSUME Rotate \/ Revoke \/ Close \/ \E k \in Tenants : Expire(k)
      PROVE  UrlsAreOfTheTenant'
  BY <1>5, <1>7 DEF Rotate, Revoke, Close, Expire
<1> QED
  BY <1>1, <1>2, <1>3, <1>4, <1>6, <1>7 DEF Next, Step

(***************************************************************************)
(* A session is obtained, cached and used for one tenant.                  *)
(***************************************************************************)
LEMMA StepKeepsIsolation ==
  ASSUME IInv, Next
  PROVE  TenantIsolation'
<1>0. Underivable => Underivable'
  BY StepKeepsPast
<1> USE <1>0, NoSessionAssumption
    DEF IInv, TypeOK, LabelsTellLocals, TenantIsolation, IssuedFor, bindingVars,
        providerVars, threadVars, At, Goto, Idle, Busy, NoEntry, Cached,
        Holders, Labels
<1>1. CASE cache' = cache /\ session' = session /\ tenant' = tenant
  BY <1>1
<1>2. ASSUME NEW t \in Threads, EvictRotated(t) PROVE TenantIsolation'
  BY <1>2 DEF EvictRotated, EvictAll
<1>3. ASSUME NEW t \in Threads, Lookup(t) PROVE TenantIsolation'
  BY <1>3 DEF Lookup, Entry, SessionType
<1>4. ASSUME NEW t \in Threads, TokenGranted(t) PROVE TenantIsolation'
  BY <1>4 DEF TokenGranted, SessionType, UrlsAreOfTheTenant
<1>5. ASSUME NEW t \in Threads, StoreToken(t) PROVE TenantIsolation'
  BY <1>5 DEF StoreToken, Entry, SessionType
<1>6. ASSUME NEW t \in Threads, Succeeds(t) PROVE TenantIsolation'
  BY <1>6 DEF Succeeds, Release
<1>7. ASSUME NEW t \in Threads, FirstUnauthorized(t) PROVE TenantIsolation'
  BY <1>7 DEF FirstUnauthorized
<1>8. ASSUME NEW t \in Threads, Invalidate(t) PROVE TenantIsolation'
  BY <1>8 DEF Invalidate
<1>9. ASSUME NEW t \in Threads, ReturnFailure(t) PROVE TenantIsolation'
  BY <1>9 DEF ReturnFailure, Release
<1>10. ASSUME NEW t \in Threads, NEW k \in Tenants, Request(t, k) PROVE TenantIsolation'
  BY <1>10 DEF Request
<1>11. CASE Close
  BY <1>11 DEF Close, EvictAll
<1>12. ASSUME NEW k \in Tenants, Expire(k) PROVE TenantIsolation'
  BY <1>12 DEF Expire, Entry
<1> QED
  BY <1>1, <1>2, <1>3, <1>4, <1>5, <1>6, <1>7, <1>8, <1>9, <1>10, <1>11, <1>12
  DEF Next, Step, StatBinding, CompareMtime, ReadId, ReadSecret, ReadFails,
      AssignConfig, DeriveUrl, TokenRefused, TokenOutage, AttemptFails,
      FatalClientError, SecondUnauthorized, Rotate, RotateBinding, Revoke, RevokeOld

(***************************************************************************)
(* Session objects: which are shared, and which are closed.                *)
(***************************************************************************)
SessionsInv == EntriesDistinct /\ PendingIsPrivate /\ CachedSessionsOpen

LEMMA StepKeepsSessions ==
  ASSUME IInv, Next
  PROVE  SessionsInv'
<1> USE NoSessionAssumption
    DEF IInv, TypeOK, LabelsTellLocals, SessionsInv, EntriesDistinct,
        PendingIsPrivate, CachedSessionsOpen, bindingVars, providerVars,
        threadVars, At, Goto, Idle, Busy, Storing, NoEntry, Cached, CachedIds,
        Labels
<1>1. ASSUME cache' = cache, closed' = closed,
             \A u \in Threads :
                 Storing(u)' => Storing(u) /\ session'[u] = session[u]
      PROVE  SessionsInv'
  BY <1>1
<1>2. ASSUME NEW t \in Threads, EvictRotated(t) PROVE SessionsInv'
  BY <1>2 DEF EvictRotated, EvictAll
<1>3. ASSUME NEW t \in Threads, TokenGranted(t) PROVE SessionsInv'
  <2> DEFINE s == CHOOSE i \in FreeIds : TRUE
  <2>1. s \in SessionIds /\ s \notin CachedIds /\ s \notin HeldIds
    BY <1>3 DEF TokenGranted, FreeIds
  <2>2. /\ session' = [session EXCEPT ![t] =
                          [id |-> s, issuer |-> url[t], cred |-> config.id]]
        /\ closed' = closed \ {s}
        /\ cache' = cache
        /\ pc' = [pc EXCEPT ![t] = "store"]
    BY <1>3 DEF TokenGranted
  <2>3. ASSUME NEW u \in Threads, u # t, Storing(u) PROVE session[u].id # s
    BY <2>1, <2>3 DEF HeldIds, Holders
  <2> QED
    BY <2>1, <2>2, <2>3
<1>4. ASSUME NEW t \in Threads, StoreToken(t) PROVE SessionsInv'
  BY <1>4 DEF StoreToken, Entry, SessionType
<1>5. ASSUME NEW t \in Threads, Invalidate(t) PROVE SessionsInv'
  BY <1>5 DEF Invalidate
<1>6. CASE Close
  BY <1>6 DEF Close, EvictAll
<1>7. ASSUME NEW k \in Tenants, Expire(k) PROVE SessionsInv'
  BY <1>7 DEF Expire, Entry

<1>8. ASSUME NEW t \in Threads, StatBinding(t) PROVE SessionsInv'
  BY <1>1, <1>8 DEF StatBinding
<1>9. ASSUME NEW t \in Threads, CompareMtime(t) PROVE SessionsInv'
  BY <1>1, <1>9 DEF CompareMtime
<1>10. ASSUME NEW t \in Threads, Lookup(t) PROVE SessionsInv'
  BY <1>1, <1>10 DEF Lookup
<1>11. ASSUME NEW t \in Threads, ReadId(t) PROVE SessionsInv'
  BY <1>1, <1>11 DEF ReadId
<1>12. ASSUME NEW t \in Threads, ReadSecret(t) PROVE SessionsInv'
  BY <1>1, <1>12 DEF ReadSecret
<1>13. ASSUME NEW t \in Threads, ReadFails(t) PROVE SessionsInv'
  BY <1>1, <1>13 DEF ReadFails
<1>14. ASSUME NEW t \in Threads, AssignConfig(t) PROVE SessionsInv'
  BY <1>1, <1>14 DEF AssignConfig
<1>24. ASSUME NEW t \in Threads, DeriveUrl(t) PROVE SessionsInv'
  BY <1>1, <1>24 DEF DeriveUrl
<1>15. ASSUME NEW t \in Threads, TokenRefused(t) PROVE SessionsInv'
  BY <1>1, <1>15 DEF TokenRefused, AttemptFails
<1>16. ASSUME NEW t \in Threads, TokenOutage(t) PROVE SessionsInv'
  BY <1>1, <1>16 DEF TokenOutage, AttemptFails
<1>17. ASSUME NEW t \in Threads, FatalClientError(t) PROVE SessionsInv'
  BY <1>1, <1>17 DEF FatalClientError
<1>18. ASSUME NEW t \in Threads, Succeeds(t) PROVE SessionsInv'
  BY <1>1, <1>18 DEF Succeeds, Release
<1>19. ASSUME NEW t \in Threads, FirstUnauthorized(t) PROVE SessionsInv'
  BY <1>1, <1>19 DEF FirstUnauthorized
<1>20. ASSUME NEW t \in Threads, SecondUnauthorized(t) PROVE SessionsInv'
  BY <1>1, <1>20 DEF SecondUnauthorized
<1>21. ASSUME NEW t \in Threads, ReturnFailure(t) PROVE SessionsInv'
  BY <1>1, <1>21 DEF ReturnFailure, Release
<1>22. ASSUME NEW t \in Threads, NEW k \in Tenants, Request(t, k) PROVE SessionsInv'
  BY <1>1, <1>22 DEF Request
<1>23. CASE Rotate \/ Revoke
  BY <1>1, <1>23 DEF Rotate, RotateBinding, Revoke, RevokeOld
<1> QED
  BY <1>2, <1>3, <1>4, <1>5, <1>6, <1>7, <1>8, <1>9, <1>10, <1>11, <1>12, <1>13, <1>14, <1>15,
     <1>16, <1>17, <1>18, <1>19, <1>20, <1>21, <1>22, <1>23, <1>24
  DEF Next, Step

LEMMA StutterKeepsIInv ==
  ASSUME IInv, UNCHANGED vars
  PROVE  IInv'
  BY DEF vars, bindingVars, providerVars, IInv, TypeOK, BindingTypeOK,
         LabelsTellLocals, TenantIsolation, EntriesDistinct, PendingIsPrivate,
         CachedSessionsOpen, At, Busy, Storing, Cached, CachedIds, Holders,
         ReadsAreOfThePast, UrlsAreOfTheTenant, Underivable, IssuedFor

\* The invariant holds in every interleaving of requests, rotations, invalidations
\* and close() of XsuaaAuthProvider.
THEOREM Inductive == Spec => []IInv
<1>1. IInv /\ [Next]_vars => IInv'
  BY StepKeepsTypes, StepKeepsPast, StepKeepsUrls, StepKeepsIsolation, StepKeepsSessions,
     StutterKeepsIInv
  DEF IInv, SessionsInv
<1> QED
  BY InitIInv, <1>1, PTL DEF Spec

(***************************************************************************)
(* Every variable of the client and the provider keeps its type.           *)
(***************************************************************************)
THEOREM TypeCorrect == Spec => []TypeOK
  BY Inductive, PTL DEF IInv

(***************************************************************************)
(* No request of a tenant gets a token that another subscriber's endpoint  *)
(* issued, nor has one cached for it; and none of the provider's unless    *)
(* some binding has been mounted from which no tenant's URL is derived     *)
(* (XsuaaAuthProvider._cache, _derive_tenant_token_url).                   *)
(***************************************************************************)
THEOREM TenantsAreIsolated == Spec => []TenantIsolation
  BY Inductive, PTL DEF IInv

(***************************************************************************)
(* No session in _cache has been closed, although rotation, replacement    *)
(* and close() close cached sessions while other threads look them up.     *)
(***************************************************************************)
THEOREM CachedSessionsAreOpen == Spec => []CachedSessionsOpen
  BY Inductive, PTL DEF IInv

-----------------------------------------------------------------------------

(***************************************************************************)
(* Recovery.  While a request is calm, what its thread has read, assigned  *)
(* and obtained is of the mounted version; and once its first token has    *)
(* been refused and evicted, nobody puts an entry of its tenant back.      *)
(***************************************************************************)
CalmInv ==
    \A t \in Threads : calm[t] =>
        /\ \A u \in Threads : Busy(u) => u = t
        /\ pc[t] \in {"readSecret", "assign"} => read[t].id = binding
        /\ pc[t] = "assign" => read[t].secret = binding
        /\ pc[t] \in {"derive", "fetch"} => config.id = binding /\ config.secret = binding
        /\ pc[t] = "store" => session[t].cred = binding
        /\ pc[t] = "send" /\ refused[t] # NoVersion => session[t].cred = binding
        /\ pc[t] \in {"stat", "compare", "evict", "lookup"} /\ refused[t] # NoVersion
               => ~Cached(tenant[t])
        /\ pc[t] # "rejected"

RecoveryInv == MountedIsAccepted /\ CalmInv

LEMMA InitRecoveryInv == Init => RecoveryInv
  BY DEF Init, BindingInit, RecoveryInv, MountedIsAccepted, CalmInv

LEMMA StepKeepsRecoveryInv ==
  ASSUME IInv, RecoveryInv, [Next]_vars
  PROVE  RecoveryInv'
<1> USE NoVersionAssumption, NoSessionAssumption
    DEF IInv, TypeOK, BindingTypeOK, Versions, LabelsTellLocals, RecoveryInv,
        MountedIsAccepted, CalmInv, bindingVars, providerVars, threadVars, At,
        Goto, Idle, Busy, NoEntry, Cached
<1>1. ASSUME NEW t \in Threads, StatBinding(t) PROVE RecoveryInv'
  BY <1>1 DEF StatBinding
<1>2. ASSUME NEW t \in Threads, CompareMtime(t) PROVE RecoveryInv'
  BY <1>2 DEF CompareMtime, Remember
<1>3. ASSUME NEW t \in Threads, EvictRotated(t) PROVE RecoveryInv'
  BY <1>3 DEF EvictRotated, EvictAll
<1>4. ASSUME NEW t \in Threads, Lookup(t) PROVE RecoveryInv'
  BY <1>4 DEF Lookup
<1>5. ASSUME NEW t \in Threads, ReadId(t) PROVE RecoveryInv'
  BY <1>5 DEF ReadId, Config
<1>6. ASSUME NEW t \in Threads, ReadSecret(t) PROVE RecoveryInv'
  BY <1>6 DEF ReadSecret, Config
<1>7. ASSUME NEW t \in Threads, ReadFails(t) PROVE RecoveryInv'
  BY <1>7 DEF ReadFails
<1>8. ASSUME NEW t \in Threads, AssignConfig(t) PROVE RecoveryInv'
  BY <1>8 DEF AssignConfig
<1>25. ASSUME NEW t \in Threads, DeriveUrl(t) PROVE RecoveryInv'
  BY <1>25 DEF DeriveUrl
<1>9. ASSUME NEW t \in Threads, TokenGranted(t) PROVE RecoveryInv'
  BY <1>9 DEF TokenGranted, CredentialsValid, Config
<1>10. ASSUME NEW t \in Threads, TokenRefused(t) PROVE RecoveryInv'
  BY <1>10 DEF TokenRefused, AttemptFails, CredentialsValid
<1>11. ASSUME NEW t \in Threads, TokenOutage(t) PROVE RecoveryInv'
  BY <1>11 DEF TokenOutage, AttemptFails
<1>12. ASSUME NEW t \in Threads, FatalClientError(t) PROVE RecoveryInv'
  BY <1>12 DEF FatalClientError
<1>13. ASSUME NEW t \in Threads, StoreToken(t) PROVE RecoveryInv'
  BY <1>13 DEF StoreToken
<1>14. ASSUME NEW t \in Threads, Succeeds(t) PROVE RecoveryInv'
  BY <1>14 DEF Succeeds, Release
<1>15. ASSUME NEW t \in Threads, FirstUnauthorized(t) PROVE RecoveryInv'
  BY <1>15 DEF FirstUnauthorized
<1>16. ASSUME NEW t \in Threads, SecondUnauthorized(t) PROVE RecoveryInv'
  BY <1>16 DEF SecondUnauthorized
<1>17. ASSUME NEW t \in Threads, Invalidate(t) PROVE RecoveryInv'
  BY <1>17 DEF Invalidate
<1>18. ASSUME NEW t \in Threads, ReturnFailure(t) PROVE RecoveryInv'
  BY <1>18 DEF ReturnFailure, Release
<1>19. ASSUME NEW t \in Threads, NEW k \in Tenants, Request(t, k) PROVE RecoveryInv'
  <2>1. /\ MountedIsAccepted'
        /\ refused'[t] = NoVersion
        /\ pc'[t] \in {"stat", "lookup"}
        /\ \A u \in Threads : u # t => ~calm'[u] /\ pc'[u] = pc[u]
    BY <1>19 DEF Request
  <2>2. calm'[t] => \A u \in Threads : Busy(u)' => u = t
    BY <1>19 DEF Request
  <2> QED
    BY <2>1, <2>2
<1>20. CASE Rotate
  BY <1>20 DEF Rotate, RotateBinding
<1>21. CASE Revoke
  BY <1>21 DEF Revoke, RevokeOld
<1>22. CASE Close
  BY <1>22 DEF Close, EvictAll
<1>23. ASSUME NEW k \in Tenants, Expire(k) PROVE RecoveryInv'
  BY <1>23 DEF Expire
<1>24. CASE UNCHANGED vars
  BY <1>24 DEF vars
<1> QED
  BY <1>1, <1>2, <1>3, <1>4, <1>5, <1>6, <1>7, <1>8, <1>9, <1>10, <1>11, <1>12, <1>13, <1>14,
     <1>15, <1>16, <1>17, <1>18, <1>19, <1>20, <1>21, <1>22, <1>23, <1>24, <1>25
  DEF Next, Step

(***************************************************************************)
(* A request that runs alone on a steady binding is never refused for its  *)
(* credentials: HttpClient.request recovers from any stale cache by its    *)
(* one retry.                                                              *)
(***************************************************************************)
THEOREM LoneRequestRecovers == Spec => []RejectedOnlyUnderRace
<1>1. RecoveryInv => RejectedOnlyUnderRace
  BY DEF RecoveryInv, CalmInv, RejectedOnlyUnderRace, At
<1> QED
  BY Inductive, InitRecoveryInv, StepKeepsRecoveryInv, <1>1, PTL DEF Spec

=============================================================================
