--------------------------- MODULE GatewayTokens ---------------------------
(***************************************************************************)
(* agentgateway: concurrent calls of one AgentGatewayClient share its      *)
(* _TokenCache and _GatewayUrlCache.  A customer agent runs its calls in   *)
(* threads of an executor and takes no lock: every access of the           *)
(* OrderedDict is a step.  An LoB agent uses the caches from the event     *)
(* loop only, where nothing happens between two awaits.  System and user   *)
(* tokens are kept in two dicts by the same code: this is one of them; of  *)
(* system tokens, it has one user.  The URLs are kept per scope.           *)
(* Times are what is left until they come, and 0 when they have passed.    *)
(***************************************************************************)
EXTENDS Integers, Sequences, FiniteSets

CONSTANTS
    Callers,
    Users,       \* whose JWTs user tokens are exchanged for
    Scopes,      \* of the tenants
    MaxTokens,   \* max_system_token_cache_size, max_user_token_cache_size
    Buffer,      \* token_expiry_buffer_seconds
    Fallback,    \* fallback_token_ttl_seconds
    MaxLife      \* bound: how long a token lives

BufferAssumption == Buffer \in Nat /\ Fallback \in Nat /\ Buffer < Fallback
BoundAssumption == MaxTokens \in Nat /\ MaxLife \in Nat
SetAssumption == Users # {} /\ Scopes # {} /\ IsFiniteSet(Callers)

VARIABLES
    flow,     \* "customer" or "lob"
    version,  \* of the IAS destination, which has the URL and gives the tokens
    tokens,   \* the dict of tokens in its order, least recently used first
    urls,     \* per scope: the version of the cached URL, and who has stored it; LoB only
    request   \* per caller

gatewayVars == <<flow, version, tokens, urls, request>>

\* what the response says of the lifetime: a date, seconds, or nothing
Metadata == {"expires_at", "expires_in", "none"}

Versions == {0, 1}

\* the scope for a system token, the hash of JWT and scope for a user's
Keys == Users \X Scopes
Scope(k) == k[2]
AnyKey == CHOOSE k \in Keys : TRUE

\* left: until it dies; expires: until the cache takes it for expired;
\* late: how long the response took, up to more than the buffer
NoEntry == [key |-> AnyKey, left |-> 0, expires |-> 0, says |-> "none", from |-> 0,
            late |-> 0]

Url(e) == [from |-> e.from, by |-> e.key]
NoUrl == [from |-> 2, by |-> AnyKey]

Request(k) == [
    pc |-> "lookup", key |-> k, token |-> NoEntry,
    alone |-> FALSE,  \* history: no other call has been under way
    alive |-> TRUE,   \* history: the cached token was alive when it was judged
    paired |-> TRUE]  \* history: the token and the URL belong together

Init ==
    /\ flow \in {"customer", "lob"}
    /\ version = 0
    /\ tokens = <<>>
    /\ urls = [s \in Scopes |-> NoUrl]
    /\ request = [c \in Callers |-> [Request(AnyKey) EXCEPT !.pc = "returned"]]

Busy(c) == request[c].pc \notin {"returned", "raised", "key_error"}
At(c, label) == request[c].pc = label
Goto(c, label) == request' = [request EXCEPT ![c].pc = label]
Ended(r, label) == [r EXCEPT !.pc = label, !.token = NoEntry]

-----------------------------------------------------------------------------
(* The dict *)

Has(k) == \E i \in DOMAIN tokens : tokens[i].key = k
Position(k) == CHOOSE i \in DOMAIN tokens : tokens[i].key = k
EntryOf(k) == tokens[Position(k)]
Removed(s, i) == SubSeq(s, 1, i - 1) \o SubSeq(s, i + 1, Len(s))
Without(k) == IF Has(k) THEN Removed(tokens, Position(k)) ELSE tokens
AtEnd(e) == Append(Without(e.key), e)
Assigned(e) ==
    IF Has(e.key) THEN [i \in DOMAIN tokens |-> IF tokens[i].key = e.key THEN e ELSE tokens[i]]
    ELSE Append(tokens, e)

\* while len > max: popitem(last=False)
Trimmed(s) == IF Len(s) > MaxTokens THEN SubSeq(s, Len(s) - MaxTokens + 1, Len(s)) ELSE s

IsValid(e) == e.expires > 0

Alive(e) == e.left > 0 \/ e.says = "none"

\* an entry of the dict: of its metadata only matters whether its end is known,
\* which it is not if the response took longer than the buffer
Entry(e) == [e EXCEPT !.late = 0,
    !.says = IF e.says = "none" \/ (e.says = "expires_in" /\ e.late > Buffer)
             THEN "none" ELSE "expires_at"]

Until(n) == IF n > 0 THEN n ELSE 0

\* mutant: the buffer is forgotten
WithoutBuffer(life, says) == IF says = "none" THEN Fallback ELSE life

\* compute_expires_at, and for the bearer of an LoB agent its exp claim
ExpiresAfter(life, says) == IF says = "none" THEN Fallback ELSE Until(life - Buffer)

Elapse(e) == [e EXCEPT !.left = Until(@ - 1), !.expires = Until(@ - 1)]

\* expires_in counts from when the response is processed, not from when it was
\* issued: the deadline does not come nearer while the response is on its way
ElapseInFlight(e) ==
    [e EXCEPT !.left = Until(@ - 1),
              !.late = IF e.says # "expires_in" \/ @ > Buffer THEN @ ELSE @ + 1,
              !.expires = IF e.says = "expires_at" THEN Until(@ - 1) ELSE @]

-----------------------------------------------------------------------------
(* Both flows *)

Call(c, k) ==
    /\ ~Busy(c)
    /\ request' = [d \in Callers |->
           IF d = c THEN [Request(k) EXCEPT !.alone = \A e \in Callers \ {c} : ~Busy(e)]
           ELSE [request[d] EXCEPT !.alone = FALSE]]
    /\ UNCHANGED <<flow, version, tokens, urls>>

\* the token service, or the destination with its token
Issue(c) ==
    /\ At(c, "fetch")
    /\ \E life \in 0..MaxLife, says \in Metadata \ IF flow = "lob" THEN {"expires_in"} ELSE {} :
          request' = [request EXCEPT ![c].pc = "answered",
              ![c].token = [key |-> request[c].key, left |-> life, says |-> says,
                            expires |-> ExpiresAfter(life, says), from |-> version, late |-> 0]]
    /\ UNCHANGED <<flow, version, tokens, urls>>

IssueFails(c) ==
    /\ At(c, "fetch")
    /\ Goto(c, "raised")
    /\ UNCHANGED <<flow, version, tokens, urls>>

-----------------------------------------------------------------------------
(* A customer agent: get_system_token_mtls, exchange_user_token *)

Lookup(c) ==
    LET k == request[c].key IN
    /\ flow = "customer" /\ At(c, "lookup")
    /\ request' = [request EXCEPT ![c].pc = IF Has(k) THEN "judge" ELSE "fetch",
                                  ![c].token = IF Has(k) THEN EntryOf(k) ELSE NoEntry]
    /\ UNCHANGED <<flow, version, tokens, urls>>

Judge(c) ==
    LET e == request[c].token IN
    /\ At(c, "judge")
    /\ request' = [request EXCEPT ![c].pc = IF IsValid(e) THEN "touch" ELSE "drop",
                                  ![c].alive = IsValid(e) => Alive(e),
                                  ![c].token = NoEntry]
    /\ UNCHANGED <<flow, version, tokens, urls>>

\* move_to_end raises KeyError if the entry is gone
Touch(c) ==
    LET k == request[c].key IN
    /\ At(c, "touch")
    /\ tokens' = IF Has(k) THEN AtEnd(EntryOf(k)) ELSE tokens
    /\ Goto(c, IF Has(k) THEN "returned" ELSE "key_error")
    /\ UNCHANGED <<flow, version, urls>>

\* mutant: an expired token is deleted, and then moved
DropAndTouch(c) ==
    /\ At(c, "drop")
    /\ tokens' = Without(request[c].key)
    /\ Goto(c, IF Has(request[c].key) THEN "touch" ELSE "key_error")
    /\ UNCHANGED <<flow, version, urls>>

\* deletes what is there by now, which may be another caller's fresh token
Drop(c) ==
    /\ At(c, "drop")
    /\ tokens' = Without(request[c].key)
    /\ Goto(c, IF Has(request[c].key) THEN "fetch" ELSE "key_error")
    /\ UNCHANGED <<flow, version, urls>>

Insert(c) ==
    /\ flow = "customer" /\ At(c, "answered")
    /\ tokens' = Assigned(Entry(request[c].token))
    /\ request' = [request EXCEPT ![c] = Ended(@, "move")]
    /\ UNCHANGED <<flow, version, urls>>

Move(c) ==
    LET k == request[c].key IN
    /\ At(c, "move")
    /\ tokens' = IF Has(k) THEN AtEnd(EntryOf(k)) ELSE tokens
    /\ Goto(c, IF Has(k) THEN "evict" ELSE "key_error")
    /\ UNCHANGED <<flow, version, urls>>

\* mutant: one entry too many is kept
EvictTooLate(c) ==
    /\ At(c, "evict")
    /\ Goto(c, IF Len(tokens) > MaxTokens + 1 THEN "pop" ELSE "returned")
    /\ UNCHANGED <<flow, version, tokens, urls>>

\* the loop measures the dict and then pops its first entry, which may by now be the
\* fresh token of another; popitem raises KeyError if there is none
Evict(c) ==
    /\ At(c, "evict")
    /\ Goto(c, IF Len(tokens) > MaxTokens THEN "pop" ELSE "returned")
    /\ UNCHANGED <<flow, version, tokens, urls>>

Pop(c) ==
    /\ At(c, "pop")
    /\ IF tokens = <<>> THEN Goto(c, "key_error") /\ UNCHANGED tokens
       ELSE Goto(c, "evict") /\ tokens' = Tail(tokens)
    /\ UNCHANGED <<flow, version, urls>>

-----------------------------------------------------------------------------
(* An LoB agent: fetch_system_auth, fetch_user_auth *)

\* the cached URL of its scope goes with the token: it is of the same version of the
\* destination, or another user of the scope has stored it
Paired(e) ==
    LET u == urls[Scope(e.key)] IN u.by = e.key => u.from = e.from

\* the token and the URL are looked up without an await in between
LookupBoth(c) ==
    LET k == request[c].key
        valid == Has(k) /\ IsValid(EntryOf(k))
    IN  /\ flow = "lob" /\ At(c, "lookup")
        /\ tokens' = IF valid THEN AtEnd(EntryOf(k)) ELSE Without(k)
        /\ request' = [request EXCEPT ![c] =
               IF valid /\ urls[Scope(k)] # NoUrl
               THEN [@ EXCEPT !.pc = "returned", !.alive = Alive(EntryOf(k)),
                              !.paired = Paired(EntryOf(k))]
               ELSE [@ EXCEPT !.pc = "fetch"]]
        /\ UNCHANGED <<flow, version, urls>>

\* mutant: a URL that is cached is not replaced
StoreIfNoUrl(c) ==
    LET e == Entry(request[c].token) IN
    /\ flow = "lob" /\ At(c, "answered")
    /\ tokens' = Trimmed(AtEnd(e))
    /\ urls' = [urls EXCEPT ![Scope(e.key)] = IF @ = NoUrl THEN Url(e) ELSE @]
    /\ request' = [request EXCEPT ![c] = Ended(@, "returned")]
    /\ UNCHANGED <<flow, version>>

Keeping(kept, s) == IF s \in kept THEN urls[s] ELSE NoUrl

\* both are stored; the cache of URLs has a bound of its own and may lose others
StoreBoth(c) ==
    LET e == Entry(request[c].token) IN
    /\ flow = "lob" /\ At(c, "answered")
    /\ tokens' = Trimmed(AtEnd(e))
    /\ \E kept \in SUBSET (Scopes \ {Scope(e.key)}) :
          urls' = [s \in Scopes |-> IF s = Scope(e.key) THEN Url(e) ELSE Keeping(kept, s)]
    /\ request' = [request EXCEPT ![c] = Ended(@, "returned")]
    /\ UNCHANGED <<flow, version>>

\* tokens of the other kind have their URLs, with scopes of their own, in the same
\* cache: a call that stores one may lose any of these
StoreOtherKind ==
    /\ flow = "lob"
    /\ \E kept \in SUBSET Scopes : urls' = [s \in Scopes |-> Keeping(kept, s)]
    /\ UNCHANGED <<flow, version, tokens, request>>

-----------------------------------------------------------------------------
Tick ==
    /\ tokens' = [i \in DOMAIN tokens |-> Elapse(tokens[i])]
    /\ request' = [c \in Callers |-> [request[c] EXCEPT !.token =
           IF At(c, "answered") THEN ElapseInFlight(@) ELSE Elapse(@)]]
    /\ UNCHANGED <<flow, version, urls>>

\* the destination changes: bound, once
ChangeDestination ==
    /\ flow = "lob" /\ version = 0
    /\ version' = 1
    /\ UNCHANGED <<flow, tokens, urls, request>>

Step(c) ==
    \/ Lookup(c) \/ Judge(c) \/ Touch(c) \/ Drop(c) \/ LookupBoth(c)
    \/ Issue(c) \/ IssueFails(c)
    \/ Insert(c) \/ Move(c) \/ Evict(c) \/ Pop(c) \/ StoreBoth(c)

Next ==
    \/ \E c \in Callers : Step(c) \/ \E k \in Keys : Call(c, k)
    \/ StoreOtherKind
    \/ Tick
    \/ ChangeDestination

Spec == Init /\ [][Next]_gatewayVars

-----------------------------------------------------------------------------
(* Properties *)

\* Types; a key occurs once; and the cache is over its bound by no more entries
\* than there are calls between inserting and evicting.
TypeOK ==
    /\ flow \in {"customer", "lob"} /\ version \in Versions
    /\ urls \in [Scopes -> [from : Versions, by : Keys] \cup {NoUrl}]
    /\ \A i, j \in DOMAIN tokens : tokens[i].key = tokens[j].key => i = j
    /\ Len(tokens) <= MaxTokens + Cardinality({c \in Callers : request[c].pc \in {"move", "evict", "pop"}})
    /\ \A c \in Callers :
          /\ request[c].pc \in {"lookup", "judge", "touch", "drop", "fetch", "answered",
                                "move", "evict", "pop", "returned", "raised", "key_error"}
          /\ request[c].key \in Keys
          /\ request[c].token \in [key: Keys, left: 0..MaxLife, expires: Nat,
                                   says: Metadata, from: Versions,
                                   late: 0..Buffer + 1]

\* The caches are not locked, and a KeyError is the price: but a call that runs
\* alone from its beginning to its end never pays it, at no bound of the cache.
OnlyRacesRaise ==
    \A c \in Callers : request[c].alone => ~At(c, "key_error")

\* A token from the cache was alive when it was judged, whatever other callers
\* did to the cache: unless its response had no metadata, or said expires_in and
\* took longer than the buffer.
CachedTokensAreFresh == \A c \in Callers : request[c].alive

\* The token and the URL an LoB call returns come from the same version of the
\* destination, though they are cached apart, have different bounds, and other
\* calls fetch at the same time: unless the URL is one that another user of the same
\* scope has fetched since, which the code takes to be the same.  A system token has
\* its scope for itself, and always its own URL.
PairsBelongTogether == \A c \in Callers : request[c].paired
=============================================================================
