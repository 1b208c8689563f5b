------------------------------ MODULE UmsCache ------------------------------
(***************************************************************************)
(* extensibility: threads share one UmsTransport.  A call looks for its    *)
(* key in the cache under a lock, or fetches the extensions of the key     *)
(* page by page and stores them under the lock.                            *)
(* Time is kept as ages, up to the time to live.                           *)
(***************************************************************************)
EXTENDS Integers, Sequences, FiniteSets

CONSTANTS
    Readers,
    CacheKeys,   \* pairs of a tenant and a capability
    MaxEntries,  \* _CACHE_MAX_SIZE
    Ttl,         \* _CACHE_TTL_SECONDS
    MaxPages,    \* _MAX_PAGES
    Pages        \* bound: how many pages the service may have

UmsAssumption ==
    /\ {MaxEntries, Ttl, MaxPages, Pages} \subseteq Nat \ {0}
    /\ CacheKeys # {}

VARIABLES
    umsCache,  \* the dict in its order: [key, age, edges]
    umsCall    \* per thread

umsVars == <<umsCache, umsCall>>

\* all_edges: of whom, the pages in the order of their arrival, how many there
\* are, whether the service forgot a cursor, and the time since it was stored
NoEdges(k) == [of |-> k, pages |-> <<>>, total |-> 1, lost |-> FALSE, since |-> 0]

CallOf(k, label) == [pc |-> label, key |-> k, cursor |-> 1, edges |-> NoEdges(k)]

Init ==
    /\ umsCache = <<>>
    /\ umsCall = [t \in Readers |-> CallOf(CHOOSE k \in CacheKeys : TRUE, "raised")]

At(t, label) == umsCall[t].pc = label
Entries(k) == {i \in DOMAIN umsCache : umsCache[i].key = k}
Unexpired(e) == e.age < Ttl
Removed(s, i) == SubSeq(s, 1, i - 1) \o SubSeq(s, i + 1, Len(s))

\* the entries that have not expired, in their order
UnexpiredOf(s) ==
    LET Upto[i \in 0..Len(s)] ==
          IF i = 0 THEN <<>>
          ELSE IF Unexpired(s[i]) THEN Append(Upto[i - 1], s[i]) ELSE Upto[i - 1]
    IN  Upto[Len(s)]

\* skip_cache goes to the service at once
Call(t, k) ==
    /\ umsCall[t].pc \in {"returned", "raised"}
    /\ \E first \in {"lookup", "prepare"} :
          umsCall' = [umsCall EXCEPT ![t] = CallOf(k, first)]
    /\ UNCHANGED umsCache

\* mutant: a hit renews the time stamp
HitRenews(t) ==
    /\ At(t, "lookup")
    /\ \E i \in Entries(umsCall[t].key) :
          /\ Unexpired(umsCache[i])
          /\ umsCache' = Append(Removed(umsCache, i), [umsCache[i] EXCEPT !.age = 0])
          /\ umsCall' = [umsCall EXCEPT ![t].pc = "returned", ![t].edges = umsCache[i].edges]

\* one step, under _cache_lock; the entry becomes the most recently used one
Hit(t) ==
    /\ At(t, "lookup")
    /\ \E i \in Entries(umsCall[t].key) :
          /\ Unexpired(umsCache[i])
          /\ umsCache' = Append(Removed(umsCache, i), umsCache[i])
          /\ umsCall' = [umsCall EXCEPT ![t].pc = "returned", ![t].edges = umsCache[i].edges]

\* an expired entry stays where it is
Miss(t) ==
    /\ At(t, "lookup")
    /\ \A i \in Entries(umsCall[t].key) : ~Unexpired(umsCache[i])
    /\ umsCall' = [umsCall EXCEPT ![t].pc = "prepare"]
    /\ UNCHANGED umsCache

\* the destination, its certificate and the URL
Prepare(t) ==
    /\ At(t, "prepare")
    /\ \E total \in 1..Pages :
          umsCall' = [umsCall EXCEPT ![t].pc = "fetch", ![t].edges.total = total]
    /\ UNCHANGED umsCache

\* mutant: what was collected before a failure is stored
RaiseAndStore(t) ==
    /\ umsCall[t].pc \in {"prepare", "fetch"}
    /\ umsCall' = [umsCall EXCEPT ![t].pc = "store"]
    /\ UNCHANGED umsCache

\* one of them is missing, the service fails, or answers with errors
Raise(t) ==
    /\ umsCall[t].pc \in {"prepare", "fetch"}
    /\ umsCall' = [umsCall EXCEPT ![t] = CallOf(@.key, "raised")]
    /\ UNCHANGED umsCache

\* the page the cursor asks for, and its pageInfo: no next page, a cursor, or a
\* next page without a cursor, which asks for the first page again
FetchPage(t) ==
    LET c == umsCall[t]
        pages == Append(c.edges.pages, c.cursor)
        hasNext == c.cursor < c.edges.total
    IN  /\ At(t, "fetch")
        /\ \E cursor \in IF hasNext THEN {c.cursor + 1, 1} ELSE {c.cursor} :
              umsCall' = [umsCall EXCEPT ![t] = [c EXCEPT
                  !.pc = IF hasNext /\ Len(pages) < MaxPages THEN "fetch" ELSE "store",
                  !.cursor = cursor,
                  !.edges = [c.edges EXCEPT !.pages = pages,
                                            !.lost = @ \/ (hasNext /\ cursor = 1)]]]
        /\ UNCHANGED umsCache

\* the time stamp, then under _cache_lock: the expired entries go, then the least
\* recently used, until there is room for one; an entry of the key that is still
\* there is replaced at its place
Store(t) ==
    LET c == umsCall[t]
        new == [key |-> c.key, age |-> 0, edges |-> c.edges]
        fresh == UnexpiredOf(umsCache)
        kept == SubSeq(fresh, Len(fresh) - MaxEntries + 2, Len(fresh))
        room == IF Len(fresh) >= MaxEntries THEN kept ELSE fresh
    IN  /\ At(t, "store")
        /\ umsCache' = IF \E i \in DOMAIN room : room[i].key = c.key
                       THEN [i \in DOMAIN room |-> IF room[i].key = c.key THEN new ELSE room[i]]
                       ELSE Append(room, new)
        /\ umsCall' = [umsCall EXCEPT ![t].pc = "returned"]

Tick ==
    LET Older(n) == IF n < Ttl THEN n + 1 ELSE n IN
    /\ umsCache' = [i \in DOMAIN umsCache |->
           [umsCache[i] EXCEPT !.age = Older(@), !.edges.since = Older(@)]]
    /\ UNCHANGED umsCall

Step(t) ==
    Hit(t) \/ Miss(t) \/ Prepare(t) \/ Raise(t) \/ FetchPage(t) \/ Store(t)

Next ==
    \/ \E t \in Readers : Step(t) \/ \E k \in CacheKeys : Call(t, k)
    \/ Tick

Spec == Init /\ [][Next]_umsVars

-----------------------------------------------------------------------------
(* Properties *)

\* Types; the cache never exceeds its bound, and holds a key once.
TypeOK ==
    /\ Len(umsCache) <= MaxEntries
    /\ \A i, j \in DOMAIN umsCache : umsCache[i].key = umsCache[j].key => i = j
    /\ \A i \in DOMAIN umsCache : umsCache[i].age \in 0..Ttl
    /\ \A t \in Readers :
          /\ umsCall[t].pc \in {"lookup", "prepare", "fetch", "store", "returned", "raised"}
          /\ umsCall[t].key \in CacheKeys
          /\ umsCall[t].cursor \in 1..Pages
          /\ Len(umsCall[t].edges.pages) <= MaxPages

\* A call returns every page of the service once and in order, from the service
\* or from what any thread has cached, and although fetches fail half-way: unless
\* the service forgot a cursor or has more pages than are asked for.
AnswersAreComplete ==
    \A t \in Readers :
        LET e == umsCall[t].edges IN
        At(t, "returned") /\ ~e.lost /\ e.total <= MaxPages =>
            e.pages = [i \in 1..e.total |-> i]

\* What a call returns is of the tenant and the capability it asked for, and from
\* a fetch that ended less than _CACHE_TTL_SECONDS ago, whoever used it meanwhile.
AnswersAreRecent ==
    \A t \in Readers :
        LET c == umsCall[t] IN
        At(t, "returned") => c.edges.of = c.key /\ c.edges.since < Ttl
=============================================================================
