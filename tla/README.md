# SAP Cloud SDK for Python: TLA+ models and proofs

TLA+ models of `src/src/sap_cloud_sdk` (below: `sdk/`), TLC runs that check them
on small instances, and TLAPS proofs of the most important invariants for every
value of the constants. `PROJECT.json` lists components, runs, mutants, the lines
each definition stands for, findings, hazards and theorems.

    tlc -workers 2 -config XsuaaSafety.cfg MCXsuaaAuth.tla
    tlapm XsuaaAuthProofs.tla

## 1. The system

The SDK is a library: application threads (or coroutines) call clients, the
clients call services over HTTP, and most clients hold credentials that come
from a *binding*, a directory of secret files that the platform may replace at
any time. The same problems occur in many modules: notice that the binding has
changed, drop what was derived from the old one, recover when the server refuses
credentials that were fetched too early or too late, and report truly what a call
of several requests has done when one of them fails. Few of the steps are under a
lock.

| Component | State | Operations | Hard because |
|---|---|---|---|
| `core/secret_resolver`, config modules of the services | `_last_mtime`; a config being filled | `ConfigFactory.__call__`, `has_changed`, resolution from mount, flat mount, environment | a change is reported once; files are read one by one; a source that gives up leaves its fields |
| `core/protocol/http` | `_config`, `_cache` of sessions per tenant | `request`, `get_session`, `invalidate(_all)`, `close` | shared `_config`; rotation, 401 retry and storing of tokens interleave |
| `cbc` | `_http_client`, `_lock` | operations of several requests, rebuild, `close` | the client is swapped and closed while others use it |
| `agent_memory/factory` | `_last_active`, checkpoints | `put`, `aput`, sweeper thread | stamp and checkpoint are not updated together |
| `objectstore` | `_creds_config`, `_minio_client`, `_lock` | put, get, delete, list, head, exists | the retry repeats closures that cannot all be repeated |
| `adms` | `_config` and its copies, token cache; `_csrf_tokens` | `get_token`, `exchange_token`; `get`, `post`, `patch`, `delete`; the APIs on top | no lock around the fetcher; CSRF tokens expire and 403 is retried |
| `destination`, `agent_memory`, `dms`, `print`, `dpi_ng` clients | a shared HTTP session; `If-Match` in its headers (`dpi_ng`) | sequences of requests | lost answers, partial failures, answers without a body, a header all threads share |
| `destination` local store | a JSON file, `_lock` | create, update, delete, find, labels | readers take no lock; one temporary path; crashes; a deleted file |
| `agentgateway` | token, URL and tool caches | discovery, token exchange, tool calls | LRU and TTL without a lock; concurrent listing under a semaphore; the environment is looked at twice |
| `extensibility` | cache of the UMS transport | fetch of implementations, `call_hook`, `call_hook_agw` | write-back after a slow fetch, pagination, deadlines |
| `aicore` | environment variables, litellm patches, the filter | configure, watcher thread, completion retry | variables are written one by one, patches are global |
| the rest | none, or a library's | one request per call, model classes, generated code | |

The parts interact through calls (every client reads its binding through a
config module and the resolver; the destination client serves cbc, agentgateway
and extensibility) and, inside a client, through its fields. What makes each
correct: tokens stay with their tenant and flow; nothing closed is handed out; a
noticed rotation is followed and an undisturbed call never fails because of an
old one; caches keep what is fresh and drop what has expired; a write that is
reported has happened, once; a file is never seen half written; every call ends.

The full list of components is `"components"`; what can go wrong where is
`"hazards"`, each with the properties that would catch it.

## 2. Modules

| Module | Code | What an action is |
|---|---|---|
| `ConfigFactory` | `core/secret_resolver/_config_factory.py`, and the platform | rotation, revocation, `has_changed`'s comparison |
| `XsuaaAuth` (extends it) | `core/protocol/http/models.py`, `client.py`, `core/_tenant.py` | one step of `HttpClient.request` between two points at which another thread can run |
| `ObjectStore` (extends it) | `objectstore/_s3.py` | one step of an operation inside `_execute_with_retry` |
| `IasTokens` (extends it) | `adms/_ias_fetcher.py`, `_token_cache.py` | one field assignment, lookup or network call |
| `AdmsCsrf` | `adms/_http.py` | one locked access of `_csrf_tokens`, or one network call |
| `CbcClient` | `cbc/client.py` | one step of `_request`, `_send`, `_rebuild_http_client` |
| `TimedMemory` | `agent_memory/factory/_timed_memory.py` | one locked access, one store or delete, one clock tick |
| `ServiceBindings` | `core/secret_resolver/resolver.py`, the config modules and `create_client` of every service | reading of one field, giving up of one source, validation |
| `GatewayDiscovery` | `agentgateway/agw_client.py`, `_lob.py`, `_customer.py`, `_fragments.py`, `extensibility/client.py` | token, second detection, one server asked or answering, one tool call |
| `GatewayTokens` | `agentgateway/_token_cache.py`, `_lob.py`, `_customer.py` | one access of an `OrderedDict`, one token request, time |
| `UmsCache` | `extensibility/_ums_transport.py` | a locked cache access, one page, time |
| `HookPolling` | `extensibility/client.py`, `call_hook` | one request, one sleep |
| `AicoreConfig` | `aicore/__init__.py`, `completion.py`, `filtering/` | one environment variable written or read, one attempt of a completion |
| `StoreOperations` | `destination/_local_client_base.py`, `local_*_client.py` | pure operators: what an operation does to the file's data and answers |
| `AtomicStore` | the promise "Thread-safe JSON file operations" | a whole operation in one step |
| `LocalStore` | `destination/_local_client_base.py` | one file operation: read, open, write, rename; crash; deletion |
| `ServiceRequests` | | the vocabulary of requests and programs |
| `DestinationMethods`, `DmsMethods` (with print), `MemoryMethods`, `AdmsMethods`, `ConsentMethods` | the clients of those services | operators: the programs of requests each method can run |
| `ServiceCalls` | the transports of these clients, and the services | one request: send, answer, translate, retry |
| `MC*` | | instances for TLC |
| `XsuaaAuthProofs`, `TimedMemoryProofs`, `AdmsCsrfProofs`, `LocalStoreProofs`, `ServiceCallsProofs` | | inductive invariants, theorems, proofs of the module in the name |
| `SharedStateProofs`, `RenewalsProofs`, `EnvironmentProofs` | | the same for the parts of `MCSharedState`, `MCRenewals`, `MCEnvironment`, and for their compositions |

A module of a component with threads has `pc[t]` for where thread `t` is; an
action is what the code does from one interruptible point to the next, so a
region under a lock that calls nothing outside is one action, while a lock held
during a network call or a file access is a variable. Environment actions rotate
bindings, revoke and expire credentials, close clients, delete files and crash.
Errors are actions too: a factory that raises, an endpoint that is down, an
answer that is lost after the service did what was asked.

**Instances that share a run.** `MCRenewals`, `MCEnvironment` and
`MCSharedState` join modules whose code has no state in common. `part` is chosen
in the initial state from `Parts`; only the module of that part moves, and the
others stay in their initial states, where their invariants hold as well. One of the
modules is extended (`CbcClient`, `LocalStore`, `AdmsCsrf`), the others are
instances. So one
such run is exactly the separate runs of its modules, and its state count is their
sum. Real interaction is inside a module: `ServiceCalls` composes the five method
modules with the transports and a service; `XsuaaAuth`, `ObjectStore` and
`IasTokens` compose a client with `ConfigFactory`; `LocalStore` applies
`StoreOperations`, as does `AtomicStore`.

**Abstractions.**

* A binding is a version number; its directory's mtime is the same number. An id
  and a secret are read from two files, so a read can be torn: the pair of
  versions then differs, and no server accepts it. A server accepts a version
  from when it is mounted until it is revoked (`accepted`).
* Payloads, URLs, filters and bodies are left out, except where a property speaks
  of them (the entry an operation of the local store finds depends on names,
  tenants and labels, which are model values).
* An object that can be closed (`OAuth2Session`, `httpx.Client`) has an identity;
  an identity is free for a new object when nothing refers to it.
* `ServiceCalls` keeps one entity per scope of a service; another client may
  create, change or delete it. A list of several pages is a list of one.
* Times are kept as ages or as what is left, cut off where the code no longer
  tells them apart.
* History variables (`calm`, `steady`, `current`, `raced`, `history`, `tokenAt`)
  record what the properties speak of; no guard of the code's actions reads them.
* `ObjectStore` distinguishes operations by what a second try shares with the
  first (nothing, a consumed stream, an iterator that has not run) and, for head
  requests, that there is none: their refusal has no body to read a code from.
* A token URL is whose it is: a tenant's or the provider's. `Zoned` and `Labelled`
  are the versions of the binding that have an identity zone, and whose token URL
  begins with it; only if both hold is a tenant's URL derived (`DeriveUrl`).
* `GatewayTokens` keeps tokens by user and scope and gateway URLs by scope, as the
  code does; a URL carries who has stored it. It has one of the two kinds of
  tokens; the other kind only shares the cache of URLs (`StoreOtherKind`).
* `GatewayDiscovery` remembers of the caller's last listing whose servers its tools
  are on (`kept`): a tool is called there, whatever flow is detected by then.
* Smaller simplifications: the file of `LocalStore` is deleted only between calls
  (the comment it contradicts speaks of these); destinations that cannot be parsed,
  which the client skips (`destination/client.py:895-901`), do not occur in
  `ServiceCalls`, so an empty list comes from an empty scope; of ADMS only the CSRF
  token gets stale there, while the 401 of its bearer token, which is not retried
  (`adms/_http.py:382,402`), is in `IasTokens` (`Unauthorized`).
* `AsyncAdmsHttp` does the steps of `AdmsHttp` with coroutines for threads and is
  covered by the same module.
* A definition marked `Mutant` is a wrong variant of the definition after it; no
  specification uses it. Every property has one that violates it.

## 3. Runs

| Run | Instance | Distinct states | Properties |
|---|---|---|---|
| `XsuaaSafety` | 2 threads, 2 tenants (one refused) and the provider, 4 sessions, 1 rotation to a binding without a zone, 2 attempts, symmetry | 2.9 M | `TypeOK`, `TenantIsolation`, `CachedSessionsOpen`, `RejectedOnlyUnderRace` |
| `XsuaaHeals` | 2 threads, 1 tenant, 3 sessions, no watched directory | 92 k | `RequestsEnd`, `HealsAfterRotation` |
| `TimedMemory` | 2 writers, 2 conversations, ttl 3, interval 2 | 9.5 k | `EvictedInTime`, `StoredIsStamped`, `OnlyInactiveDeletedUnlessRaced`, `InactiveEvicted` |
| `Renewals` | `CbcClient` and `ObjectStore`: 2 threads, 2 renewals or rotations, operations of up to 2 requests, 3 clients | 245 k | `CurrentClientOpen`, `ReplacedClientsClosed`, `LoneOperationRecovers`, `RejectedOnlyUnderRace`, `NeverOlder`, `AllOperationsEnd` |
| `Environment` | `LocalStore`: 2 threads, 2 calls, 1 fault, 1 name, provider and 1 tenant; `ServiceBindings`: every service, 2 rotations; `GatewayDiscovery`: 2 servers, 1 permit, 1 change of environment | 490 k | `Implements`, `ConfigsComeFromOneSource`, `TokensStayInTheirFlow`, `DiscoveriesAreComplete` |
| `Services` | `ServiceCalls`: 2 threads, 2 calls of any methods, 2 faults, symmetry | 3.9 M | `ReportedWritesAreDone`, `AnswersWereTrue`, `UndisturbedCallsSucceed` |
| `SharedState` | `IasTokens`, `AdmsCsrf`, `GatewayTokens`, `UmsCache`, `HookPolling`, `AicoreConfig` | 455 k | `NoticedRotationIsApplied`; `AllObserveTheSameToken`, `UndisturbedWritesRecover`, `FreshTokenIsKept`, `WritesEnd`; `OnlyRacesRaise`, `CachedTokensAreFresh`, `PairsBelongTogether`; `AnswersAreComplete`, `AnswersAreRecent`; `CallsEndInTime`; `LoneCompletionRecovers` |
| `CbcHerd` | violated | | the documented guard against a thundering herd is absent |
| `LocalStoreDeleted` | violated | | a write after the file was deleted waits for its own lock |
| `ServicesEmptyError` | violated | | agent memory: an error without a body is reported as success |
| `AicoreFiltering` | violated | | after a rotation, the input filter refuses the second try of a completion, and that error is not translated |
| `AnonymizationBinding` | violated | | no source can configure the data anonymization client |

Each run also checks one type invariant, which joins those of its modules and, in
`LocalStore`, says who holds `_lock`, and in `GatewayDiscovery`, that every permit
of the semaphore is given back.

**The refinement.** `AtomicStore` is what the local clients promise: an
operation takes effect at one instant between call and return, on the data of
that instant, or fails and changes nothing; a crash drops the calls that have not
returned; a deleted file is an empty store. `LocalStore` implements it
(`Implements`): the file is what `os.replace` put there last, the writer's instant is
the replacement, the reader's the reading. The mutant that writes in place
instead of to the temporary file is caught, as are partial files left by a crash.

**Bounds.** Two threads are enough for each race found: one stale, one fresh. One
rotation gives an old and a new version; `ObjectStore` and `CbcClient` need two
for an order between refreshes, and `ServiceBindings` for one during a load and
one after it. Two tenants are what isolation is about; the
liveness run `XsuaaHeals` has one, because the steps of different tenants meet
only in `_config` and `EvictAll`. `MaxAttempts` is 2 instead of 3: first, and
last. The numbers of identities are one more than can be referred to at once, so
a guard on a free identity never blocks. In `AdmsCsrf` a third token is one
neither the cache nor the sibling has; the entries of different service roots
never meet. In `LocalStore` a name exists for the provider and for a subscriber,
the only two kinds of entries a search tells apart, and the file starts with
every arrangement of them; two calls of two threads overlap in every way. In
`GatewayDiscovery` two servers share one permit, so one waits while the other is
asked; its first and its last answer are different servers. `Services` lets two
calls of any two methods overlap, with two faults between them: one lost answer
and one interference of another client. `GatewayTokens` has a cache of one
token for two users of one scope, who share one URL, so every insertion is at the
bound; `UmsCache` two pages at most
for three that the server has. No run is otherwise constrained. `Environment` and
`Services` turn the deadlock check off because their calls are bounded and the
program then stops; in `LocalStore` the invariant on `_lock` takes its place.

**Fairness.** A thread inside a call is scheduled and its network calls have
timeouts, hence weak fairness of its steps; nobody has to begin a call.
Acquisition of the lock in `CbcClient` and `ObjectStore` has strong fairness: a
waiter may be overtaken, but with weak fairness a thread whose factory keeps
failing could starve it for ever, which Python's locks do not make likely but do
not exclude either. So `AllOperationsEnd` says that no code path keeps the lock. In
`TimedMemory` the sweeper and time go on, and a `put` that has begun ends. In
`SharedState` only the threads of `AdmsCsrf` are fair. No fairness is assumed of
rotations, revocations or faults.

**Findings.** What the violated runs show, with the sentence of the code or the
documentation they contradict, is under `"findings"`.

### Divergences met while modelling that no run checks

They are in the models where the code is modelled (a model does what the code
does), but have no property of their own.

* `adms/_ias_fetcher.py:146`: `exchange_token` never looks for a rotation, and
  `has_changed` reports a change made before its first call as none, so such a
  fetcher can be refused until the next rotation (`src/GUIDELINES.md:204` promises
  that clients heal). Two threads that apply two rotations may leave an id and a
  secret of different versions in its fields, and one may store a token of the old
  credentials in the cache the other has just made.
* `core/_tenant.py:52`: when no tenant URL can be derived from the binding, the
  provider's token is fetched and cached under the tenant, as documented there
  (`:33-34`); `TenantIsolation` allows that, and only then.
* `agentgateway/_lob.py:316`: a user's fetch stores the URL of the scope for all of
  its users; after a change of the destination, another's cached token goes with the
  new URL (`_token_cache.py:143` assumes that URLs are stable).
* `agent_memory/factory/_timed_memory.py:104`: an active conversation can be
  evicted when its put overlaps the sweep; `OnlyInactiveDeletedUnlessRaced` says
  that nothing else evicts it.
* `objectstore/_s3.py:55,186,334,380`: consumed streams, unstarted listings and head
  requests are not recovered by the retry. `core/protocol/http/client.py:70`: nor are uploads of dms
  and print, whose stream the first attempt has consumed.
* `core/protocol/http/client.py:89`: `base_url` may belong to another binding
  version than the session; a retry may use a token that a sibling fetched with
  the refused credentials and stored after the eviction (later requests recover:
  `HealsAfterRotation`).
* `aicore/__init__.py:188`: a reload overrides a filter set by the program.
* `destination/local_*_client.py`: a duplicate that carries `properties["tenant"]`
  is not refused; updates of fragments and certificates drop the tenant; updates
  and labels reach the first entry of a name, whoever's it is; two client objects
  on one file share the temporary path without sharing a lock.
* `extensibility/_ums_transport.py:128-130` speaks of LRU; storing an existing key
  at capacity evicts another entry, and does not move the key to the end.
* `core/secret_resolver/_config_factory.py:21-24,51-53`: rotation of a flat mount
  (`SERVICE_BINDING_ROOT`) is not noticed. `adms/config.py:75`: `resource`, optional
  in the config, is required by the resolver. `ias/_verifier.py:150-157`: the
  verifier uses fields that a resolver which failed has left, so that the step
  for `IAS_URL` is skipped.
* `agentgateway`: `list_agent_cards` does not check for transparent mode
  (`agw_client.py:518`, against `:486-488`); one A2A card that is no JSON object ends a
  listing that filters by name (`_lob.py:799-801`, against "isolate per-fragment
  failures", `:773`); `MCPToolFilter.gtids` is not passed on (`_lob.py:444`, against
  `_models.py:203-205`); `max_concurrent_tasks=0` would wait for ever;
  `list_active_integrations` lets errors of the destination client through.
* `agentgateway/_lob.py:540`, `_customer.py:852`: a tool listed before the environment
  changed is called at its old URL with a token of the new flow
  (`TokensStayInTheirFlow` says that only such a change mixes flows). The gateway's
  `KeyError`s of overlapping calls are in the model too (`OnlyRacesRaise`).
* `cbc/client.py:529`: a request on a client that a sibling's rebuild has closed ends
  with a `RuntimeError`.
* `aicore/completion.py:184`: a stream is wrapped only if output filtering is still
  active when it starts, so its filter errors stay untyped if the program has
  switched filtering off since the request was made.
* `extensibility/client.py`, `call_hook_agw`: for an LoB agent without a user token
  it fails after it has listed everything, and errors of the discovery or of an
  answer that is no JSON object have other types than its docstring names.

## 4. Proofs

`tlapm` proves every obligation of the eight proof modules. Every invariant of a
passing run, every action property and the refinement is a theorem for all values of
the constants; TLC has checked each on the instances above.

Assumed are the named assumptions of the constants: bounds are natural numbers, the
null values are not in the sets they stand beside, there is a name, a client object, a
service root, a key; of `GatewayTokens` also that the callers are finitely many and
that the buffer is smaller than the fallback, as in the code; of `UmsCache` that
its bounds are not 0. Modules that share a run with others state them as
definitions, which the assumption `Bounds` of the `MC` module joins; TLC evaluates it,
so the run and the theorems speak of the same constants. No theorem has a hypothesis
besides.

**Composition.** A behaviour of `SharedSpec`, `RenewalsSpec` or `EnvironmentSpec` is
one of every module it joins, because the parts that do not move stutter
(`ContainsIas`, `ContainsStore`, ...). Each part has its own inductive invariant and
its theorem on its own `Spec`, and the theorem of the run follows.

`XsuaaAuthProofs`. `IInv` conjoins `TypeOK`; `TenantIsolation`; what a label
says about its thread's locals (a thread past the lookup holds a session, a
thread that fetches has a tenant and a URL that is the tenant's, or the provider's if
a binding allowed no other); and three facts about identities: the
sessions of different tenants are different objects (`EntriesDistinct`), a
session that has been fetched and not yet stored is open and known to its
thread only (`PendingIsPrivate`), and cached sessions are open. The last alone
is not inductive: storing a session that another entry also held, or that was
closed, would break it. One lemma per part has one step per action. Then
`TenantsAreIsolated` and `CachedSessionsAreOpen` follow.

`LoneRequestRecovers` needs a second invariant, about a calm thread: all other
threads are idle and the mounted version is accepted; what it has read is the
mounted version; `_config` is that version when it asks for a token; and after
its first 401 the cache has no entry for its tenant until it stores a new one,
so the session it sends with next is of the mounted version and is accepted.
Hence neither a refused token request nor a second 401 is possible.

`TimedMemoryProofs`. `IInv` relates ages to the sleeping timer (`Lateness`: a
stamp seen by the last scan as not expired is at most `Ttl` old plus the time
slept since) and says who is marked as raced. `Punctual`,
`OrphansComeFromRaces` and `ActiveDeletedOnlyByRace` follow, for every `Ttl`
and `Interval`.

`LocalStoreProofs`. `StoreImplementsAtomicStore` is the refinement, for any
threads, names, tenants, values, labels, calls and faults. Its invariant says
what a label knows (`LabelOK`): a writer past `_read` is about to write what its
operation makes of the file *as it is now*, and a reader that makes the file
anew finds none. That is inductive only together with the holder of `_lock`
(`TypeOK`): whoever replaces the file holds it, so nobody else is between reading
and replacing. The only search that matters is `IndexOf`, whose result is an index of
the list (`IndexOfRange`, from the well-foundedness of `<`); with it the
operations keep the two lists lists of entries (`PerformKeepsTypes`), and what
they answer is the same operator on both sides (`SamePerform`). Then each step is
a stutter (`Stutter`), the effect of the operation (`Effect`) or its failure
(`Failure`) of the abstract store.

`RenewalsProofs`, `CbcClient`. A rebuild holds the lock, so there is one at most, and until it
swaps, the client it will close is the one in the field (`RebuildOK`). Without
that, `ClosePrevious` could close the current client. `ReplacedClientsClosed` is
not inductive as it stands: it lets a rebuild answer for the client that failed,
which it forgets when it has built another. `AllAccounted` lets it answer only for
the one it will close and the one it has built. `CalmOK` says that a lone
operation uses the client in the field, and that this one is trusted after a rebuild.

`RenewalsProofs`, `ObjectStore`. `RefreshIsOrdered`: a refresh reads nothing older than the
client, because the binding only gets newer and the lock keeps every other
refresh away; hence `NeverOlder`, an action property. `StoreCalmOK`: what
a lone operation has read is the mounted version, and from the first refusal on that
is the version it sends with.

`AdmsCsrfProofs`. `LabelOK` says what is cached while a thread holds what it takes
for the current token, whatever order fetches, evictions and stores come in.
`StaleGoesOnce`: while nothing expires, whoever sends while a stale token is
cached sends that very token, so the first caller to be refused evicts it, a
sibling's eviction does not hit the new one, and a second attempt carries a token
the server knows. `RefusedForGood`: a token that was refused because it was not valid
does not become valid while somebody holds it; hence `FreshTokenIsKept`.

`SharedStateProofs`, `IasTokens`. Each statement from the factory on carries the mounted
version one place further: read, `_config`, the two fields, an empty cache, the payload,
the token (`IasCalmInv`). Exchanges of user tokens may run beside it: they only read the
fields.

`SharedStateProofs`, `GatewayTokens`. The cache is a sequence with one entry per key;
lemmas say what deleting, moving, assigning and trimming keep of it. `CacheOK` and
`RequestOK` say that what is cached, answered or held is *fresh*: the cache takes it for
expired before it dies. For a token in flight this has to speak of the time its response
has spent (`FreshInFlight`): `expires_in` counts from the end of the response, so the
deadline stands still while the life runs. The bound of the cache is the hard part,
since insertion, `move_to_end` and eviction are three steps of several callers, and two
of them may insert the same key. `SizeOK` says that there is a set of callers with
different keys that, together with those about to evict, accounts for every entry over
the bound. `AloneOK` says that the entry a lone caller has seen is still there, hence no
`KeyError`, at the bound 0 as well. For `PairsBelongTogether`, a cached token and the URL
of its scope are of one version whenever the same key has stored both last.

`SharedStateProofs`, `UmsCache`. `UmsCallOK`: without a forgotten cursor, the pages of a
fetch are the first ones in order, and the cursor is the next; `UmsEntryOK`: an entry is
of its key, complete, and its edges are not older than the entry. What dropping the
expired entries leaves is defined by recursion over the sequence; that these are entries
that were there, one per key and no more of them, is shown by a least counterexample:
the set of lengths at which the claim fails would have a least element (`WFMin` with
`NatLessThanWellFounded`, which take no operator as a parameter).

`SharedStateProofs`, `HookPolling`. The deadline is at most one request after the
beginning, and a poll begins at most one interval late (`OnTime`).

`SharedStateProofs`, `AicoreConfig`. `ReloadIsCurrent`: while some completion is calm,
every reload under way, the watcher's included, has copied the mounted secret as far as
its label says; so what the calm one reads back from the environment for its second try
is of that version, although others write the same variables.

`ServiceCallsProofs`. First, on the tables: every program of every method of the six
clients is of one or two requests, and the second follows the first in one of the ways
`Follows` names; this is the only place where the tables are opened. `EffectsOK`: the
writes ahead have not been executed, those behind have, unless an error was taken for a
result; once an answer has been received it says which of the two holds of the present
one, so that the retry after 401 does not execute it twice. `PathOK`: the call has seen
in each scope what its answer says, and why it went on to the second; `seen` grows with
every step of anybody (`Watches`). `HeaderHeld`: an `If-Match` in the shared session
belongs to somebody who is sending. `LoneOK`, of a call since whose begin nothing has
happened: it is the only one under way, its remaining requests can be executed, the
header is there when it is needed and gone when not, and a credential is refused at most
once. The counters of calls and faults, which only grow, make "nothing has happened" a
fact about the state (`mark`).

`EnvironmentProofs`, `ServiceBindings`. `ServicesAreSound` opens the ten declarations
once. `ReadOK`: while a source is read, exactly the first fields are its own, the others
have what earlier sources left, and the last one has never been reached: who reads it
has all of them and ends the resolution. `SourceOK` carries that to the end of the load,
also for IAS, whose loader swallows the error of the resolver and goes on with the
fields that are left.

`EnvironmentProofs`, `GatewayDiscovery`. `PermitsOK`: a permit for each server that is
asked. `FlowOK`: token and servers carry the number of changes there had been when they
were chosen, and equal numbers mean equal flows. `KeptOK` says the same of a kept tool,
for as long as the caller keeps it. `ResultOK`: what is found enumerates what was
offered, in increasing order (`Enumerates`; `InOrder` is another recursion over a
sequence, proved like the one above).

**What the proofs changed in the models.** `ServiceBindings.Rotate` forgot, at a
rotation after a load, that there had been one during it: `ConfigsComeFromOneSource` was
not inductive, and with two rotations TLC finds the violation that one had hidden. The
history now remembers, and the run has two. Some `CASE`s of `ServiceCalls` and
`ServiceBindings` had guards that overlap, so their value was not determined although
TLC takes the first; they are `IF`s now. `SelectSeq`, which the provers cannot expand,
has become recursive functions (`UnexpiredOf`, `InOrder`), and nested `EXCEPT`s with
several `@`, which `tlapm` 1.4.5 expands wrongly, are written with an operator.

**Checked by TLC only**: the liveness properties `RequestsEnd`, `HealsAfterRotation`,
`InactiveEvicted`, `AllOperationsEnd` and `WritesEnd`, which need fairness and
`ENABLED`; and the violated runs, whose counterexamples are TLC's. No module uses
recursive operators.

## 5. What is left

1. An abstract cache (an answer is what some fetch of that key returned, and young
   enough) that `UmsCache` and `GatewayTokens` are shown to implement.
2. `IasTokens` and `AdmsCsrf` composed: a CSRF fetch whose bearer token is refused
   has no header, which is `FetchEmpty` of `AdmsCsrf` without its cause.
3. The OAuth flow of `dpi_ng/auth.py` and the key files of `outputmanagement`.

## 6. Not modelled

* Model classes, request builders, filters and response parsing: they have no
  state, and no property here speaks of their text.
* `core/auditlog_ng/gen`, `buf/validate`: generated.
* `core/telemetry`, `core/bootstrap`, `core/runtime_context`, `agent_decorators`:
  set-up executed once, or wrappers of OpenTelemetry and of context variables,
  whose concurrency is the library's.
* `core/auditlog`, the transport of `core/data_anonymization`: one message or
  request per call, no state that changes.
* `outputmanagement`: one request per call over a certificate in two temporary
  files; what is hard is their removal after a failure, in one thread.
* `dpi_ng/auth.py`: the refresh of its own token, with the same shape as the
  lookups of `IasTokens`.
* `ias`: parsing and verification of tokens; the key cache is a library's.
* `aicore`: proxy mode, which has no credentials to reload, and mTLS.
* `cbc`: the resolvers of base URL and tenant, which change no state of the client.
* `core/_tenant`: the text of token URLs; what comes of it is in `XsuaaAuth`.
* Processes share no modelled state but the file of `LocalStore` and the binding;
  nothing else survives a restart.
