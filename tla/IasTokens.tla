------------------------------ MODULE IasTokens ------------------------------
(***************************************************************************)
(* adms/_ias_fetcher.py and _token_cache.py: threads that share one        *)
(* IasTokenFetcher.  get_token serves the service's own token from a cache *)
(* and follows rotations of the binding; exchange_token exchanges a user's *)
(* JWT, is not cached, and does not look for a rotation.  No lock protects *)
(* the fetcher's fields.  An ADMS call that gets a 401 raises, without     *)
(* a retry (adms/_http.py).                                                *)
(***************************************************************************)
EXTENDS ConfigFactory

CONSTANTS
    Threads,        \* callers
    Calls,          \* the calls they make, of {"service", "user"}
    NoToken         \* nothing cached

CallsAssumption == Calls \subseteq {"service", "user"}

VARIABLES
    config,         \* _config, with both credentials
    fields,         \* _client_id, _client_secret
    cached,         \* the service token in _cache
    pc,             \* where each thread is
    op,             \* "service" or "user"
    seen,           \* the mtime its has_changed() read
    read,           \* the binding its factory call has read
    using,          \* the credentials in its payload, then of its token
    calm            \* history: its get_token met no other, on a steady binding,
                    \* and its has_changed() has reported the rotation, if any

fetcherVars == <<config, fields, cached>>
localVars == <<op, seen, read, using>>
vars == <<bindingVars, fetcherVars, pc, localVars, calm>>

(***************************************************************************)
(* IAS credentials are two files, two fields and two entries of a payload. *)
(***************************************************************************)
Credentials == [id : Versions, secret : Versions]

NothingRead == [id |-> 0, secret |-> 0]

NoTokenAssumption == NoToken \notin [cred : Versions, live : BOOLEAN]

Labels == {"idle", "stat", "compare", "readId", "readSecret",
           "setConfig", "applyId", "applySecret", "newCache", "lookup", "payloadId", "payloadSecret",
           "fetch", "store", "use", "rejected", "failed"}

NoCall == "none"

Init ==
    /\ BindingInit
    /\ config = NothingRead
    /\ fields = NothingRead
    /\ cached = NoToken
    /\ pc = [t \in Threads |-> "idle"]
    /\ op = [t \in Threads |-> NoCall]
    /\ seen = [t \in Threads |-> NoMtime]
    /\ read = [t \in Threads |-> NothingRead]
    /\ using = [t \in Threads |-> NothingRead]
    /\ calm = [t \in Threads |-> FALSE]

At(t, l) == pc[t] = l
Goto(t, l) == pc' = [pc EXCEPT ![t] = l]
Idle(t) == At(t, "idle")

-----------------------------------------------------------------------------

(***************************************************************************)
(* AdmsHttp._bearer_token: get_token, or exchange_token for a user's JWT.  *)
(***************************************************************************)
Operation(t, k) ==
    /\ Idle(t)
    /\ Goto(t, IF k = "user" THEN "payloadId"
               ELSE IF Mounted THEN "stat" ELSE "lookup")
    /\ op' = [op EXCEPT ![t] = k]
    /\ calm' = IF k = "user" THEN calm
               ELSE [u \in Threads |-> u = t /\ Mounted
                                       /\ \A v \in Threads : op[v] # "service"]
    /\ UNCHANGED <<bindingVars, fetcherVars, seen, read, using>>

(***************************************************************************)
(* _refresh_if_rotated.                                                    *)
(***************************************************************************)
StatBinding(t) ==
    /\ At(t, "stat")
    /\ seen' = [seen EXCEPT ![t] = binding]
    /\ Goto(t, "compare")
    /\ UNCHANGED <<bindingVars, fetcherVars, op, read, using, calm>>

CompareMtime(t) ==
    /\ At(t, "compare")
    /\ Remember(seen[t])
    /\ seen' = [seen EXCEPT ![t] = NoMtime]
    /\ Goto(t, IF MtimeChanged(seen[t]) THEN "readId" ELSE "lookup")
    /\ calm' = [calm EXCEPT ![t] = @ /\ MtimeChanged(seen[t])]
    /\ UNCHANGED <<binding, accepted, fetcherVars, op, read, using>>

ReadId(t) ==
    /\ At(t, "readId")
    /\ read' = [read EXCEPT ![t].id = binding]
    /\ Goto(t, "readSecret")
    /\ UNCHANGED <<bindingVars, fetcherVars, op, seen, using, calm>>

ReadSecret(t) ==
    /\ At(t, "readSecret")
    /\ read' = [read EXCEPT ![t].secret = binding]
    /\ Goto(t, "setConfig")
    /\ UNCHANGED <<bindingVars, fetcherVars, op, seen, using, calm>>

(***************************************************************************)
(* The factory raises: has_changed() has already forgotten the rotation.   *)
(***************************************************************************)
ReadFails(t) ==
    /\ pc[t] \in {"readId", "readSecret"}
    /\ Goto(t, "failed")
    /\ UNCHANGED <<bindingVars, fetcherVars, localVars, calm>>

(***************************************************************************)
(* _config is replaced; _apply_config then copies it field by field, from  *)
(* whatever _config another thread may have put there; then an empty cache.*)
(***************************************************************************)
SetConfig(t) ==
    /\ At(t, "setConfig")
    /\ config' = read[t]
    /\ read' = [read EXCEPT ![t] = NothingRead]
    /\ Goto(t, "applyId")
    /\ UNCHANGED <<bindingVars, fields, cached, op, seen, using, calm>>

ApplyId(t) ==
    /\ At(t, "applyId")
    /\ fields' = [fields EXCEPT !.id = config.id]
    /\ Goto(t, "applySecret")
    /\ UNCHANGED <<bindingVars, config, cached, localVars, calm>>

ApplySecret(t) ==
    /\ At(t, "applySecret")
    /\ fields' = [fields EXCEPT !.secret = config.secret]
    /\ Goto(t, "newCache")
    /\ UNCHANGED <<bindingVars, config, cached, localVars, calm>>

\* Mutant: the tokens of the old credentials are kept.
KeepCache(t) ==
    /\ At(t, "newCache")
    /\ Goto(t, "lookup")
    /\ UNCHANGED <<bindingVars, fetcherVars, localVars, calm>>

NewCache(t) ==
    /\ At(t, "newCache")
    /\ cached' = NoToken
    /\ Goto(t, "lookup")
    /\ UNCHANGED <<bindingVars, config, fields, localVars, calm>>

(***************************************************************************)
(* InMemoryTokenCache.get, under its own lock, drops an expired token.     *)
(***************************************************************************)
Lookup(t) ==
    /\ At(t, "lookup")
    /\ IF cached # NoToken /\ cached.live
       THEN /\ using' = [using EXCEPT ![t] = [id |-> cached.cred, secret |-> cached.cred]]
            /\ Goto(t, "use")
            /\ UNCHANGED cached
       ELSE /\ cached' = NoToken
            /\ Goto(t, "payloadId")
            /\ UNCHANGED using
    /\ UNCHANGED <<bindingVars, config, fields, op, seen, read, calm>>

(***************************************************************************)
(* The payload, then the call of the token endpoint.                       *)
(***************************************************************************)
PayloadId(t) ==
    /\ At(t, "payloadId")
    /\ using' = [using EXCEPT ![t].id = fields.id]
    /\ Goto(t, "payloadSecret")
    /\ UNCHANGED <<bindingVars, fetcherVars, op, seen, read, calm>>

PayloadSecret(t) ==
    /\ At(t, "payloadSecret")
    /\ using' = [using EXCEPT ![t].secret = fields.secret]
    /\ Goto(t, "fetch")
    /\ UNCHANGED <<bindingVars, fetcherVars, op, seen, read, calm>>

CredentialsValid(t) == using[t].id = using[t].secret /\ using[t].id \in accepted

Fetched(t) ==
    /\ At(t, "fetch")
    /\ CredentialsValid(t)
    /\ Goto(t, IF op[t] = "service" THEN "store" ELSE "use")
    /\ UNCHANGED <<bindingVars, fetcherVars, localVars, calm>>

FetchRefused(t) ==
    /\ At(t, "fetch")
    /\ ~CredentialsValid(t)
    /\ Goto(t, "rejected")
    /\ UNCHANGED <<bindingVars, fetcherVars, localVars, calm>>

\* No connection, an error status, no access_token, no usable expires_in.
FetchFails(t) ==
    /\ At(t, "fetch")
    /\ Goto(t, "failed")
    /\ UNCHANGED <<bindingVars, fetcherVars, localVars, calm>>

(***************************************************************************)
(* self._cache.set: into the cache there is now, which may not be the one  *)
(* the token was looked up in.  ttl = max(expires_in - buffer, 0).         *)
(***************************************************************************)
StoreToken(t) ==
    /\ At(t, "store")
    /\ \E live \in BOOLEAN : cached' = [cred |-> using[t].id, live |-> live]
    /\ Goto(t, "use")
    /\ UNCHANGED <<bindingVars, config, fields, localVars, calm>>

(***************************************************************************)
(* The call of the ADM service with the token.                             *)
(***************************************************************************)
Done(t) ==
    /\ op' = [op EXCEPT ![t] = NoCall]
    /\ read' = [read EXCEPT ![t] = NothingRead]
    /\ using' = [using EXCEPT ![t] = NothingRead]
    /\ calm' = [calm EXCEPT ![t] = FALSE]

Succeeds(t) ==
    /\ At(t, "use")
    /\ using[t].id \in accepted
    /\ Goto(t, "idle")
    /\ Done(t)
    /\ UNCHANGED <<bindingVars, fetcherVars, seen>>

Unauthorized(t) ==
    /\ At(t, "use")
    /\ using[t].id \notin accepted
    /\ Goto(t, "rejected")
    /\ UNCHANGED <<bindingVars, fetcherVars, localVars, calm>>

RaiseError(t) ==
    /\ pc[t] \in {"rejected", "failed"}
    /\ Goto(t, "idle")
    /\ Done(t)
    /\ UNCHANGED <<bindingVars, fetcherVars, seen>>

Step(t) ==
    \/ StatBinding(t) \/ CompareMtime(t) \/ ReadId(t) \/ ReadSecret(t)
    \/ ReadFails(t) \/ SetConfig(t) \/ ApplyId(t) \/ ApplySecret(t) \/ NewCache(t)
    \/ Lookup(t) \/ PayloadId(t) \/ PayloadSecret(t)
    \/ Fetched(t) \/ FetchRefused(t) \/ FetchFails(t) \/ StoreToken(t)
    \/ Succeeds(t) \/ Unauthorized(t) \/ RaiseError(t)

Platform ==
    /\ RotateBinding \/ RevokeOld
    /\ calm' = [t \in Threads |-> FALSE]
    /\ UNCHANGED <<fetcherVars, pc, localVars>>

Expire ==
    /\ cached # NoToken /\ cached.live
    /\ cached' = [cached EXCEPT !.live = FALSE]
    /\ UNCHANGED <<bindingVars, config, fields, pc, localVars, calm>>

Next ==
    \/ \E t \in Threads : Step(t) \/ \E k \in Calls : Operation(t, k)
    \/ Platform
    \/ Expire

Spec == Init /\ [][Next]_vars

-----------------------------------------------------------------------------

TypeOK ==
    /\ BindingTypeOK
    /\ config \in Credentials
    /\ fields \in Credentials
    /\ cached \in [cred : Versions, live : BOOLEAN] \cup {NoToken}
    /\ pc \in [Threads -> Labels]
    /\ op \in [Threads -> Calls \cup {NoCall}]
    /\ seen \in [Threads -> Versions \cup {NoMtime}]
    /\ read \in [Threads -> Credentials]
    /\ using \in [Threads -> Credentials]
    /\ calm \in [Threads -> BOOLEAN]

(***************************************************************************)
(* Rotations reach the token: a get_token whose has_changed() reports one, *)
(* and that meets no other get_token and no further rotation, asks with    *)
(* the id and the secret of the mounted binding, never with those of two   *)
(* versions or with a token of before, whatever exchanges of user tokens   *)
(* read the fields meanwhile and whatever the calls before have left in    *)
(* _config, the fields and the cache.                                      *)
(***************************************************************************)
NoticedRotationIsApplied ==
    \A t \in Threads :
        calm[t] /\ pc[t] \in {"fetch", "store", "use", "rejected"}
            => using[t] = [id |-> binding, secret |-> binding]

=============================================================================
