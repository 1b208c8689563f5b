------------------------------ MODULE AdmsCsrf ------------------------------
(***************************************************************************)
(* adms/_http.py: threads (or coroutines) that share one AdmsHttp and its  *)
(* cache of CSRF tokens, one per OData service root.  post, patch and      *)
(* delete carry a token and, on a 403, fetch another one and retry once.   *)
(* The lock _csrf_lock makes each access of the cache one step; no lock is *)
(* held during a network call.  The bearer token is abstracted: a CSRF     *)
(* fetch that is refused has no X-CSRF-Token header, which gives "".       *)
(***************************************************************************)
EXTENDS Integers

CONSTANTS
    Threads,        \* callers
    Roots,          \* service roots, the keys of _csrf_tokens
    TokenIds,       \* bound: tokens the server has to choose from
    EmptyToken,     \* "", cached when the response has no header
    NoCsrf          \* no entry in _csrf_tokens

TokenAssumption ==
    EmptyToken \notin TokenIds /\ NoCsrf \notin TokenIds \cup {EmptyToken}

VARIABLES
    cache,          \* _csrf_tokens
    valid,          \* the tokens the server accepts for a root
    pc,             \* where each thread is
    root,           \* service root of its write
    kind,           \* "write", or "denied": 403 whatever the token is
    csrf,           \* the token it has
    tries,          \* how often it has been answered 403 and went on
    current,        \* history: its token came out of the cache, and no token
                    \* of the root has been evicted since
    steady          \* history: since there last was no write in flight, no
                    \* token has expired and no response lacked the header

serverVars == <<valid>>
localVars == <<root, kind, csrf, tries>>
vars == <<cache, serverVars, pc, localVars, current, steady>>

Tokens == TokenIds \cup {EmptyToken}

Labels == {"idle", "lookup", "fetch", "merge", "send", "evict", "refused"}

AnyRoot == CHOOSE r \in Roots : TRUE

Init ==
    /\ cache = [r \in Roots |-> NoCsrf]
    /\ valid = [r \in Roots |-> {}]
    /\ pc = [t \in Threads |-> "idle"]
    /\ root = [t \in Threads |-> AnyRoot]
    /\ kind = [t \in Threads |-> "write"]
    /\ csrf = [t \in Threads |-> NoCsrf]
    /\ tries = [t \in Threads |-> 0]
    /\ current = [t \in Threads |-> FALSE]
    /\ steady = TRUE

At(t, l) == pc[t] = l
Goto(t, l) == pc' = [pc EXCEPT ![t] = l]
Idle(t) == At(t, "idle")

\* The write returns or raises.
Done(t) ==
    /\ root' = [root EXCEPT ![t] = AnyRoot]
    /\ kind' = [kind EXCEPT ![t] = "write"]
    /\ csrf' = [csrf EXCEPT ![t] = NoCsrf]
    /\ tries' = [tries EXCEPT ![t] = 0]
    /\ current' = [current EXCEPT ![t] = FALSE]

-----------------------------------------------------------------------------

(***************************************************************************)
(* post, patch, delete: _send_with_csrf.                                   *)
(***************************************************************************)
SendWithCsrf(t, r, k) ==
    /\ Idle(t)
    /\ root' = [root EXCEPT ![t] = r]
    /\ kind' = [kind EXCEPT ![t] = k]
    /\ steady' = (steady \/ \A u \in Threads : Idle(u))
    /\ Goto(t, "lookup")
    /\ UNCHANGED <<cache, serverVars, csrf, tries, current>>

(***************************************************************************)
(* _get_csrf_token: the cache, else the server.                            *)
(***************************************************************************)
Lookup(t) ==
    /\ At(t, "lookup")
    /\ IF cache[root[t]] # NoCsrf
       THEN /\ csrf' = [csrf EXCEPT ![t] = cache[root[t]]]
            /\ current' = [current EXCEPT ![t] = TRUE]
            /\ Goto(t, "send")
       ELSE /\ Goto(t, "fetch")
            /\ UNCHANGED <<csrf, current>>
    /\ UNCHANGED <<cache, serverVars, root, kind, tries, steady>>

(***************************************************************************)
(* A new token is one nobody holds; the server may also answer with one it *)
(* has given before.                                                       *)
(***************************************************************************)
Unused(r) ==
    TokenIds \ ({cache[r]} \cup valid[r] \cup {csrf[t] : t \in Threads})

FetchCsrf(t) ==
    /\ At(t, "fetch")
    /\ \E n \in Unused(root[t]) \cup valid[root[t]] :
          /\ csrf' = [csrf EXCEPT ![t] = n]
          /\ valid' = [valid EXCEPT ![root[t]] = @ \cup {n}]
    /\ Goto(t, "merge")
    /\ UNCHANGED <<cache, root, kind, tries, current, steady>>

\* The status is not looked at: an answer without the header counts too.
FetchEmpty(t) ==
    /\ At(t, "fetch")
    /\ csrf' = [csrf EXCEPT ![t] = EmptyToken]
    /\ steady' = FALSE
    /\ Goto(t, "merge")
    /\ UNCHANGED <<cache, serverVars, root, kind, tries, current>>

\* No bearer token, or no connection: the write raises.
FetchFails(t) ==
    /\ At(t, "fetch")
    /\ Goto(t, "idle")
    /\ Done(t)
    /\ UNCHANGED <<cache, serverVars, steady>>

(***************************************************************************)
(* setdefault: the token that was cached first is the one that is used.    *)
(***************************************************************************)
\* Mutant: the last writer wins.
MergeOverwrites(t) ==
    /\ At(t, "merge")
    /\ cache' = [cache EXCEPT ![root[t]] = csrf[t]]
    /\ current' = [current EXCEPT ![t] = TRUE]
    /\ Goto(t, "send")
    /\ UNCHANGED <<serverVars, localVars, steady>>

Merge(t) ==
    /\ At(t, "merge")
    /\ LET r == root[t]
           first == IF cache[r] = NoCsrf THEN csrf[t] ELSE cache[r]
       IN  /\ cache' = [cache EXCEPT ![r] = first]
           /\ csrf' = [csrf EXCEPT ![t] = first]
    /\ current' = [current EXCEPT ![t] = TRUE]
    /\ Goto(t, "send")
    /\ UNCHANGED <<serverVars, root, kind, tries, steady>>

(***************************************************************************)
(* _request with the token.                                                *)
(***************************************************************************)
Forbidden(t) == kind[t] = "denied" \/ csrf[t] \notin valid[root[t]]

Succeeds(t) ==
    /\ At(t, "send")
    /\ ~Forbidden(t)
    /\ Goto(t, "idle")
    /\ Done(t)
    /\ UNCHANGED <<cache, serverVars, steady>>

Answered403(t) ==
    /\ At(t, "send")
    /\ Forbidden(t)
    /\ Goto(t, IF tries[t] = 0 THEN "evict" ELSE "refused")
    /\ UNCHANGED <<cache, serverVars, localVars, current, steady>>

\* No bearer token, no connection, any other error status: the write raises.
OtherError(t) ==
    /\ At(t, "send")
    /\ Goto(t, "idle")
    /\ Done(t)
    /\ UNCHANGED <<cache, serverVars, steady>>

(***************************************************************************)
(* On 403: the cached token is dropped, if it still is the refused one.    *)
(***************************************************************************)
Retry(t) ==
    /\ tries' = [tries EXCEPT ![t] = @ + 1]
    /\ csrf' = [csrf EXCEPT ![t] = NoCsrf]
    /\ Goto(t, "lookup")
    /\ UNCHANGED <<serverVars, root, kind, steady>>

\* Mutant: whatever is cached is dropped.
EvictAnything(t) ==
    /\ At(t, "evict")
    /\ cache' = [cache EXCEPT ![root[t]] = NoCsrf]
    /\ current' = [u \in Threads |-> current[u] /\ root[u] # root[t]]
    /\ Retry(t)

\* Mutant: nothing is dropped.
EvictNothing(t) ==
    /\ At(t, "evict")
    /\ current' = [current EXCEPT ![t] = FALSE]
    /\ Retry(t)
    /\ UNCHANGED cache

\* Mutant: the retry is not told from the first request.
EvictUncounted(t) ==
    /\ At(t, "evict")
    /\ cache' = [cache EXCEPT ![root[t]] = IF @ = csrf[t] THEN NoCsrf ELSE @]
    /\ current' = [u \in Threads |-> current[u] /\ root[u] # root[t]]
    /\ csrf' = [csrf EXCEPT ![t] = NoCsrf]
    /\ Goto(t, "lookup")
    /\ UNCHANGED <<serverVars, root, kind, tries, steady>>

Evict(t) ==
    /\ At(t, "evict")
    /\ IF cache[root[t]] = csrf[t]
       THEN /\ cache' = [cache EXCEPT ![root[t]] = NoCsrf]
            /\ current' = [u \in Threads |-> current[u] /\ root[u] # root[t]]
       ELSE /\ current' = [current EXCEPT ![t] = FALSE]
            /\ UNCHANGED cache
    /\ Retry(t)

RaiseError(t) ==
    /\ At(t, "refused")
    /\ Goto(t, "idle")
    /\ Done(t)
    /\ UNCHANGED <<cache, serverVars, steady>>

Step(t) ==
    \/ Lookup(t) \/ FetchCsrf(t) \/ FetchEmpty(t) \/ FetchFails(t)
    \/ Merge(t) \/ Succeeds(t) \/ Answered403(t) \/ OtherError(t)
    \/ Evict(t) \/ RaiseError(t)

(***************************************************************************)
(* "CSRF tokens have server-side TTLs".                                    *)
(***************************************************************************)
ExpireToken(r) ==
    /\ \E n \in valid[r] : valid' = [valid EXCEPT ![r] = @ \ {n}]
    /\ steady' = FALSE
    /\ UNCHANGED <<cache, pc, localVars, current>>

Next ==
    \/ \E t \in Threads :
          \/ Step(t)
          \/ \E r \in Roots, k \in {"write", "denied"} : SendWithCsrf(t, r, k)
    \/ \E r \in Roots : ExpireToken(r)

Spec == Init /\ [][Next]_vars

(***************************************************************************)
(* Threads are scheduled and every network call has a timeout.             *)
(***************************************************************************)
FairSpec == Spec /\ \A t \in Threads : WF_vars(Step(t))

-----------------------------------------------------------------------------

TypeOK ==
    /\ cache \in [Roots -> Tokens \cup {NoCsrf}]
    /\ valid \in [Roots -> SUBSET TokenIds]
    /\ pc \in [Threads -> Labels]
    /\ root \in [Threads -> Roots]
    /\ kind \in [Threads -> {"write", "denied"}]
    /\ csrf \in [Threads -> Tokens \cup {NoCsrf}]
    /\ tries \in [Threads -> 0 .. 1]
    /\ current \in [Threads -> BOOLEAN]
    /\ steady \in BOOLEAN

(***************************************************************************)
(* _get_csrf_token: "setdefault ensures only the first writer wins, so all *)
(* callers observe the same token": as long as nothing is evicted, every   *)
(* caller that got a token for a root has the one that is cached.          *)
(***************************************************************************)
AllObserveTheSameToken ==
    \A t \in Threads : current[t] => csrf[t] = cache[root[t]]

(***************************************************************************)
(* The late 403 of a stale token does not throw a sibling's fresh token    *)
(* away: a valid token is evicted only for a caller who was denied with    *)
(* that very token.                                                        *)
(***************************************************************************)
FreshTokenIsKept ==
    [][\A r \in Roots :
          cache[r] \in valid[r] /\ cache'[r] = NoCsrf
              => \E t \in Threads : At(t, "evict") /\ kind[t] = "denied"
                                    /\ csrf[t] = cache[r]]_vars

(***************************************************************************)
(* However many writes find the same stale token at once, each recovers:   *)
(* unless a token has expired or a header was missing during the writes    *)
(* that overlap with it, a permitted write is not refused twice.           *)
(***************************************************************************)
UndisturbedWritesRecover ==
    \A t \in Threads : steady /\ kind[t] = "write" => ~At(t, "refused")

(***************************************************************************)
(* A write ends, also when the server answers 403 for ever.                *)
(***************************************************************************)
WritesEnd == \A t \in Threads : ~Idle(t) ~> Idle(t)

=============================================================================
