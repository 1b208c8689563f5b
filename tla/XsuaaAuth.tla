------------------------------ MODULE XsuaaAuth ------------------------------
(***************************************************************************)
(* core/protocol/http: threads that share one HttpClient, whose            *)
(* XsuaaAuthProvider caches one OAuth2 session per tenant and follows      *)
(* rotations of the binding (ConfigFactory).                               *)
(*                                                                         *)
(* One action per step between two points at which another thread can run: *)
(* the lock protects each access to the cache, and nothing protects        *)
(* has_changed(), the field _config, or the time between two accesses.     *)
(***************************************************************************)
EXTENDS ConfigFactory

CONSTANTS
    Threads,        \* callers of HttpClient.request
    Tenants,        \* cache keys
    Provider,       \* the key None, and whose the token URL of the binding is
    BadTenants,     \* tenants _validate_tenant_subdomain refuses
    Zoned,          \* versions of the binding with identityzone and token_url
    Labelled,       \* versions whose token_url begins with the identity zone
    SessionIds,     \* identities of OAuth2Session objects
    MaxAttempts,    \* _TOKEN_FETCH_MAX_ATTEMPTS
    NoTenant,       \* the thread makes no request
    NoSession,      \* no session held, or no cache entry
    NoVersion       \* no token of this request has been refused yet

ASSUME AttemptsAssumption == MaxAttempts \in Nat \ {0}
ASSUME TenantAssumption == NoTenant \notin Tenants
ASSUME NoVersionAssumption == NoVersion \notin Int

VARIABLES
    config,         \* _config, shared by all threads
    cache,          \* _cache: tenant -> entry
    closed,         \* sessions on which close() has been called
    pc,             \* where each thread is
    tenant,         \* tenant_subdomain of its request
    seen,           \* the mtime its has_changed() read
    read,           \* the binding its factory call has read
    attempt,        \* failed attempts of its _fetch_token
    url,            \* its token_url: whose token endpoint it asks
    session,        \* the session it holds
    refused,        \* the version whose token got the first 401
    calm            \* history: its request ran alone, on a steady binding

providerVars == <<config, cache, closed>>
vars == <<bindingVars, providerVars,
          pc, tenant, seen, read, attempt, url, session, refused, calm>>

(***************************************************************************)
(* The client id is read before the secret, the URLs and the zone, from    *)
(* another file: secret is the version of all the latter.                  *)
(***************************************************************************)
Config == [id : Versions, secret : Versions]

NothingRead == [id |-> 0, secret |-> 0]

Owners == Tenants \cup {Provider}

(***************************************************************************)
(* A token acts for the tenant whose URL has issued it, with the           *)
(* credentials that were sent there.                                       *)
(***************************************************************************)
SessionType == [id : SessionIds, issuer : Owners, cred : Versions]

Entry == [session : SessionType, live : BOOLEAN]

Labels == {"idle", "stat", "compare", "evict", "lookup", "readId",
           "readSecret", "assign", "derive", "fetch", "store", "send", "invalidate",
           "rejected", "failed"}

ASSUME NoSessionAssumption == NoSession \notin SessionType \cup Entry

NoEntry == NoSession
Cached(k) == cache[k] # NoEntry
CachedIds == {cache[k].session.id : k \in {j \in Tenants : Cached(j)}}
Holders == {t \in Threads : session[t] # NoSession}
HeldIds == {session[t].id : t \in Holders}

(***************************************************************************)
(* An OAuth2Session object lives as long as the cache or a thread refers   *)
(* to it; a new session is an object nothing refers to.                    *)
(***************************************************************************)
FreeIds == SessionIds \ (CachedIds \cup HeldIds)

-----------------------------------------------------------------------------

Init ==
    /\ BindingInit
    /\ config = [id |-> 0, secret |-> 0]
    /\ cache = [k \in Tenants |-> NoEntry]
    /\ closed = {}
    /\ pc = [t \in Threads |-> "idle"]
    /\ tenant = [t \in Threads |-> NoTenant]
    /\ seen = [t \in Threads |-> NoMtime]
    /\ read = [t \in Threads |-> NothingRead]
    /\ attempt = [t \in Threads |-> 0]
    /\ url = [t \in Threads |-> Provider]
    /\ session = [t \in Threads |-> NoSession]
    /\ refused = [t \in Threads |-> NoVersion]
    /\ calm = [t \in Threads |-> FALSE]

At(t, l) == pc[t] = l
Goto(t, l) == pc' = [pc EXCEPT ![t] = l]
Idle(t) == At(t, "idle")

(***************************************************************************)
(* HttpClient.request begins.  Its history is calm while no other request  *)
(* is in progress and the platform leaves the binding alone.               *)
(***************************************************************************)
Request(t, k) ==
    /\ Idle(t)
    /\ Goto(t, IF Mounted THEN "stat" ELSE "lookup")
    /\ tenant' = [tenant EXCEPT ![t] = k]
    /\ calm' = [u \in Threads |-> u = t /\ \A v \in Threads : Idle(v)]
    /\ UNCHANGED <<bindingVars, providerVars, seen, read, attempt, url, session,
                   refused>>

(***************************************************************************)
(* get_session: has_changed(), without the lock.                           *)
(***************************************************************************)
StatBinding(t) ==
    /\ At(t, "stat")
    /\ seen' = [seen EXCEPT ![t] = binding]
    /\ Goto(t, "compare")
    /\ UNCHANGED <<bindingVars, providerVars, tenant, read, attempt, url, session,
                   refused, calm>>

CompareMtime(t) ==
    /\ At(t, "compare")
    /\ Remember(seen[t])
    /\ seen' = [seen EXCEPT ![t] = NoMtime]
    /\ Goto(t, IF MtimeChanged(seen[t]) THEN "evict" ELSE "lookup")
    /\ UNCHANGED <<binding, accepted, providerVars, tenant, read, attempt, url,
                   session, refused, calm>>

\* Mutant: the sessions are closed and the cache is left as it is.
EvictAllWithoutClear ==
    /\ closed' = closed \cup CachedIds
    /\ UNCHANGED cache

(***************************************************************************)
(* _invalidate_all_unsafe, under the lock.                                 *)
(***************************************************************************)
EvictAll ==
    /\ closed' = closed \cup CachedIds
    /\ cache' = [k \in Tenants |-> NoEntry]

EvictRotated(t) ==
    /\ At(t, "evict")
    /\ EvictAll
    /\ Goto(t, "lookup")
    /\ UNCHANGED <<bindingVars, config, tenant, seen, read, attempt, url, session,
                   refused, calm>>

\* Mutant: the lookup takes any live entry, whatever the tenant.
LookupAnyTenant(t) ==
    /\ At(t, "lookup")
    /\ IF \E k \in Tenants : Cached(k) /\ cache[k].live
       THEN /\ \E k \in Tenants :
                  /\ Cached(k) /\ cache[k].live
                  /\ session' = [session EXCEPT ![t] = cache[k].session]
            /\ Goto(t, "send")
       ELSE /\ Goto(t, "readId")
            /\ UNCHANGED session
    /\ UNCHANGED <<bindingVars, providerVars, tenant, seen, read, attempt, url,
                   refused, calm>>

(***************************************************************************)
(* get_session: the cached session if its token is not about to expire.    *)
(***************************************************************************)
Lookup(t) ==
    LET k == tenant[t] IN
    /\ At(t, "lookup")
    /\ IF Cached(k) /\ cache[k].live
       THEN /\ session' = [session EXCEPT ![t] = cache[k].session]
            /\ Goto(t, "send")
       ELSE /\ Goto(t, "readId")
            /\ UNCHANGED session
    /\ UNCHANGED <<bindingVars, providerVars, tenant, seen, read, attempt, url,
                   refused, calm>>

(***************************************************************************)
(* _fetch_token: ConfigFactory.__call__ reads the binding file by file; it *)
(* raises when the binding cannot be read or does not validate.            *)
(***************************************************************************)
ReadId(t) ==
    /\ At(t, "readId")
    /\ read' = [read EXCEPT ![t].id = binding]
    /\ Goto(t, "readSecret")
    /\ UNCHANGED <<bindingVars, providerVars, tenant, seen, attempt, url, session,
                   refused, calm>>

ReadSecret(t) ==
    /\ At(t, "readSecret")
    /\ read' = [read EXCEPT ![t].secret = binding]
    /\ Goto(t, "assign")
    /\ UNCHANGED <<bindingVars, providerVars, tenant, seen, attempt, url, session,
                   refused, calm>>

ReadFails(t) ==
    /\ pc[t] \in {"readId", "readSecret"}
    /\ Goto(t, "failed")
    /\ UNCHANGED <<bindingVars, providerVars, tenant, seen, read, attempt, url,
                   session, refused, calm>>

(***************************************************************************)
(* self._config = ..., which other threads assign too.                     *)
(***************************************************************************)
AssignConfig(t) ==
    /\ At(t, "assign")
    /\ config' = read[t]
    /\ read' = [read EXCEPT ![t] = NothingRead]
    /\ Goto(t, "derive")
    /\ UNCHANGED <<bindingVars, cache, closed, tenant, seen, attempt, url,
                   session, refused, calm>>

(***************************************************************************)
(* The token URL, from the _config there is now.  It stays the provider's  *)
(* for the key None, for a binding without a zone, and when its host does  *)
(* not begin with the zone.  (It and the zone are two reads; what comes of *)
(* two versions comes of one of them too.)                                 *)
(***************************************************************************)
DeriveUrl(t) ==
    LET k == tenant[t]
        derives == k # Provider /\ config.secret \in Zoned
    IN
    /\ At(t, "derive")
    /\ IF derives /\ k \in BadTenants
       THEN /\ Goto(t, "failed")
            /\ UNCHANGED url
       ELSE /\ url' = [url EXCEPT ![t] = IF derives /\ config.secret \in Labelled
                                        THEN k ELSE Provider]
            /\ Goto(t, "fetch")
    /\ UNCHANGED <<bindingVars, providerVars, tenant, seen, read, attempt,
                   session, refused, calm>>

(***************************************************************************)
(* One call of the token endpoint.  Each attempt reads client id and       *)
(* secret from self._config again.                                         *)
(***************************************************************************)
CredentialsValid == config.id = config.secret /\ config.id \in accepted

TokenGranted(t) ==
    /\ At(t, "fetch")
    /\ CredentialsValid
    /\ FreeIds # {}
    /\ LET s == CHOOSE i \in FreeIds : TRUE IN
       /\ session' = [session EXCEPT ![t] =
                        [id |-> s, issuer |-> url[t], cred |-> config.id]]
       /\ closed' = closed \ {s}
    /\ attempt' = [attempt EXCEPT ![t] = 0]
    /\ url' = [url EXCEPT ![t] = Provider]
    /\ Goto(t, "store")
    /\ UNCHANGED <<bindingVars, config, cache, tenant, seen, read, refused, calm>>

\* Mutant: one attempt too many.
AttemptFailsOffByOne(t, end) ==
    /\ At(t, "fetch")
    /\ attempt' = [attempt EXCEPT ![t] = @ + 1]
    /\ Goto(t, IF attempt[t] < MaxAttempts THEN "fetch" ELSE end)
    /\ UNCHANGED <<bindingVars, providerVars, tenant, seen, read, url, session,
                   refused, calm>>

\* Mutant: the count starts again instead of giving up.
AttemptFailsForever(t, end) ==
    /\ At(t, "fetch")
    /\ attempt' = [attempt EXCEPT ![t] = (@ + 1) % MaxAttempts]
    /\ UNCHANGED <<bindingVars, providerVars, pc, tenant, seen, read, url, session,
                   refused, calm>>

AttemptFails(t, end) ==
    /\ At(t, "fetch")
    /\ attempt' = [attempt EXCEPT ![t] = @ + 1]
    /\ Goto(t, IF attempt[t] + 1 < MaxAttempts THEN "fetch" ELSE end)
    /\ UNCHANGED <<bindingVars, providerVars, tenant, seen, read, url, session,
                   refused, calm>>

TokenRefused(t) == ~CredentialsValid /\ AttemptFails(t, "rejected")

TokenOutage(t) == AttemptFails(t, "failed")

FatalClientError(t) ==
    /\ At(t, "fetch")
    /\ Goto(t, "failed")
    /\ UNCHANGED <<bindingVars, providerVars, tenant, seen, read, attempt, url,
                   session, refused, calm>>

(***************************************************************************)
(* The new session replaces the cached one, which is closed.               *)
(***************************************************************************)
StoreToken(t) ==
    LET k == tenant[t] IN
    /\ At(t, "store")
    /\ closed' = IF Cached(k) THEN closed \cup {cache[k].session.id} ELSE closed
    /\ cache' = [cache EXCEPT ![k] = [session |-> session[t], live |-> TRUE]]
    /\ Goto(t, "send")
    /\ UNCHANGED <<bindingVars, config, tenant, seen, read, attempt, url, session,
                   refused, calm>>

(***************************************************************************)
(* HttpClient._execute sends the request; HttpClient.request evicts the    *)
(* tenant's entry after a first 401 and tries once more.                   *)
(***************************************************************************)
Release(t) ==
    /\ tenant' = [tenant EXCEPT ![t] = NoTenant]
    /\ seen' = [seen EXCEPT ![t] = NoMtime]
    /\ read' = [read EXCEPT ![t] = NothingRead]
    /\ attempt' = [attempt EXCEPT ![t] = 0]
    /\ url' = [url EXCEPT ![t] = Provider]
    /\ session' = [session EXCEPT ![t] = NoSession]
    /\ refused' = [refused EXCEPT ![t] = NoVersion]
    /\ calm' = [calm EXCEPT ![t] = FALSE]

Succeeds(t) ==
    /\ At(t, "send")
    /\ session[t].cred \in accepted
    /\ Goto(t, "idle")
    /\ Release(t)
    /\ UNCHANGED <<bindingVars, providerVars>>

FirstUnauthorized(t) ==
    /\ At(t, "send")
    /\ session[t].cred \notin accepted
    /\ refused[t] = NoVersion
    /\ refused' = [refused EXCEPT ![t] = session[t].cred]
    /\ session' = [session EXCEPT ![t] = NoSession]
    /\ Goto(t, "invalidate")
    /\ UNCHANGED <<bindingVars, providerVars, tenant, seen, read, attempt, url, calm>>

SecondUnauthorized(t) ==
    /\ At(t, "send")
    /\ session[t].cred \notin accepted
    /\ refused[t] # NoVersion
    /\ Goto(t, "rejected")
    /\ UNCHANGED <<bindingVars, providerVars, tenant, seen, read, attempt, url,
                   session, refused, calm>>

\* Mutant: the retry does not evict the refused token.
InvalidateNothing(t) ==
    /\ At(t, "invalidate")
    /\ Goto(t, IF Mounted THEN "stat" ELSE "lookup")
    /\ UNCHANGED <<bindingVars, providerVars, tenant, seen, read, attempt, url,
                   session, refused, calm>>

Invalidate(t) ==
    /\ At(t, "invalidate")
    /\ cache' = [cache EXCEPT ![tenant[t]] = NoEntry]
    /\ Goto(t, IF Mounted THEN "stat" ELSE "lookup")
    /\ UNCHANGED <<bindingVars, config, closed, tenant, seen, read, attempt, url,
                   session, refused, calm>>

(***************************************************************************)
(* The caller gets the 401 response or the exception.                      *)
(***************************************************************************)
ReturnFailure(t) ==
    /\ pc[t] \in {"rejected", "failed"}
    /\ Goto(t, "idle")
    /\ Release(t)
    /\ UNCHANGED <<bindingVars, providerVars>>

Step(t) ==
    \/ StatBinding(t) \/ CompareMtime(t) \/ EvictRotated(t) \/ Lookup(t)
    \/ ReadId(t) \/ ReadSecret(t) \/ ReadFails(t) \/ AssignConfig(t) \/ DeriveUrl(t)
    \/ TokenGranted(t) \/ TokenRefused(t) \/ TokenOutage(t) \/ FatalClientError(t)
    \/ StoreToken(t)
    \/ Succeeds(t) \/ FirstUnauthorized(t) \/ SecondUnauthorized(t)
    \/ Invalidate(t) \/ ReturnFailure(t)

(***************************************************************************)
(* The environment: the platform, the clock (a cached token comes within   *)
(* the expiry buffer), and an owner that closes the client while others    *)
(* still use it (close, invalidate_all).                                   *)
(***************************************************************************)
threadVars == <<pc, tenant, seen, read, attempt, url, session, refused>>

Rotate ==
    /\ RotateBinding
    /\ calm' = [t \in Threads |-> FALSE]
    /\ UNCHANGED <<providerVars, threadVars>>

Revoke ==
    /\ RevokeOld
    /\ calm' = [t \in Threads |-> FALSE]
    /\ UNCHANGED <<providerVars, threadVars>>

Expire(k) ==
    /\ Cached(k) /\ cache[k].live
    /\ cache' = [cache EXCEPT ![k].live = FALSE]
    /\ UNCHANGED <<bindingVars, config, closed, threadVars, calm>>

Close ==
    /\ EvictAll
    /\ UNCHANGED <<bindingVars, config, threadVars, calm>>

Next ==
    \/ \E t \in Threads : Step(t) \/ \E k \in Tenants : Request(t, k)
    \/ Rotate \/ Revoke \/ Close
    \/ \E k \in Tenants : Expire(k)

Spec == Init /\ [][Next]_vars

(***************************************************************************)
(* A thread inside request() is scheduled again and again, and each call   *)
(* it makes returns or times out.  Nobody has to make another request.     *)
(***************************************************************************)
FairSpec == Spec /\ \A t \in Threads : WF_vars(Step(t))

-----------------------------------------------------------------------------

TypeOK ==
    /\ BindingTypeOK
    /\ config \in Config
    /\ cache \in [Tenants -> Entry \cup {NoEntry}]
    /\ closed \subseteq SessionIds
    /\ pc \in [Threads -> Labels]
    /\ tenant \in [Threads -> Tenants \cup {NoTenant}]
    /\ seen \in [Threads -> Versions \cup {NoMtime}]
    /\ read \in [Threads -> Config]
    /\ attempt \in [Threads -> 0 .. MaxAttempts]
    /\ url \in [Threads -> Owners]
    /\ session \in [Threads -> SessionType \cup {NoSession}]
    /\ refused \in [Threads -> Versions \cup {NoVersion}]
    /\ calm \in [Threads -> BOOLEAN]

(***************************************************************************)
(* No request of a tenant runs with the token of another subscriber, from  *)
(* the cache or fresh, whatever other threads put into _config and _cache  *)
(* between its steps; and it runs with the provider's token only if some   *)
(* version of the binding has been mounted that no tenant's token URL can  *)
(* be derived from.  (In that case it does: the provider's token is cached *)
(* under the tenant.)                                                      *)
(***************************************************************************)
Underivable == \E v \in 0 .. binding : v \notin Zoned \cap Labelled

IssuedFor(k, s) == s.issuer = k \/ (s.issuer = Provider /\ Underivable)

TenantIsolation ==
    /\ \A k \in Tenants : Cached(k) => IssuedFor(k, cache[k].session)
    /\ \A t \in Holders : IssuedFor(tenant[t], session[t])

(***************************************************************************)
(* No closed session is handed out from the cache: every path that closes  *)
(* a cached session (rotation, replacement, close()) also takes it out.    *)
(***************************************************************************)
CachedSessionsOpen == CachedIds \cap closed = {}

(***************************************************************************)
(* Recovery without a race: a request during which no other request runs   *)
(* and the binding stays as it is never fails for its credentials, however *)
(* stale the cache was when it began (http/client.py: "This recovers from  *)
(* credentials that were revoked after secret rotation").                  *)
(***************************************************************************)
RejectedOnlyUnderRace == \A t \in Threads : calm[t] => ~At(t, "rejected")

(***************************************************************************)
(* Every request() ends, with a response or an exception.                  *)
(***************************************************************************)
RequestsEnd == \A t \in Threads : ~Idle(t) ~> Idle(t)

(***************************************************************************)
(* The provider heals: the binding is rotated finitely often, so from some *)
(* point on no request fails for its credentials, although threads that    *)
(* were slow put old tokens and an old _config back after the eviction.    *)
(***************************************************************************)
HealsAfterRotation == <>[](\A t \in Threads : ~At(t, "rejected"))

=============================================================================
