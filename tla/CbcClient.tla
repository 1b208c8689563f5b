------------------------------ MODULE CbcClient ------------------------------
(***************************************************************************)
(* cbc/client.py: threads that share one CBCClient.  Its httpx.Client was  *)
(* built with the mTLS certificate of its day; after a TLS failure the     *)
(* client is rebuilt, under a lock, with the certificate the Destination   *)
(* Service has now, and the request is sent once more.                     *)
(*                                                                         *)
(* An operation (get_consumption_versions, get_configuration,              *)
(* get_entity_data, get_feature_statuses, get_feature_status) is a sequence*)
(* of GET requests that stops at the first error.                          *)
(***************************************************************************)
EXTENDS Integers

CONSTANTS
    Threads,        \* callers of the shared client
    ClientIds,      \* identities of httpx.Client objects
    MaxCert,        \* bound: the certificate is rotated at most this often
    MaxRequests,    \* bound: requests of one operation
    HasSslFactory,  \* ssl_context was given (FALSE: plain HTTPS, local mock)
    NoThread,       \* nobody holds the lock
    NoClient        \* the thread refers to no client

BoundsAssumption == MaxCert \in Nat /\ MaxRequests \in Nat \ {0}
FactoryAssumption == HasSslFactory \in BOOLEAN
NobodyAssumption == NoThread \notin Threads

VARIABLES
    cert,           \* version of the certificate in the Destination Service
    trusted,        \* versions the CBC server accepts
    client,         \* _http_client
    closed,         \* ids of clients on which close() has been called
    lock,           \* holder of _lock
    ownerClosed,    \* history: CBCClient.close() has been called
    pc,             \* where each thread is
    left,           \* requests its operation still has to make
    retrying,       \* the request in progress is the retry
    using,          \* the client its _send evaluated
    previous,       \* the local "previous" of _rebuild_http_client
    calm            \* history: its operation ran alone, on a steady certificate

envVars == <<cert, trusted>>
clientVars == <<client, closed, lock, ownerClosed>>
localVars == <<left, retrying, using, previous>>
vars == <<envVars, clientVars, pc, localVars, calm>>

Certs == 0 .. MaxCert

\* An httpx.Client, with the certificate it was built with.
Client == [id : ClientIds, cert : Certs]

NoClientAssumption == NoClient \notin Client

Labels == {"idle", "pick", "send", "flight", "lock", "build", "swap", "closePrevious",
           "tlsError", "networkError", "configError", "httpError", "clientClosed"}

Failures == {"tlsError", "networkError", "configError", "httpError", "clientClosed"}

Init ==
    /\ cert = 0
    /\ trusted = {0}
    /\ client = [id |-> CHOOSE c \in ClientIds : TRUE, cert |-> 0]
    /\ closed = {}
    /\ lock = NoThread
    /\ ownerClosed = FALSE
    /\ pc = [t \in Threads |-> "idle"]
    /\ left = [t \in Threads |-> 0]
    /\ retrying = [t \in Threads |-> FALSE]
    /\ using = [t \in Threads |-> NoClient]
    /\ previous = [t \in Threads |-> NoClient]
    /\ calm = [t \in Threads |-> FALSE]

At(t, l) == pc[t] = l
Goto(t, l) == pc' = [pc EXCEPT ![t] = l]
Idle(t) == At(t, "idle")

-----------------------------------------------------------------------------

(***************************************************************************)
(* An operation of n requests begins; base URL and tenant are resolved once*)
(* per operation, which changes no state of the client.                    *)
(***************************************************************************)
Operation(t, n) ==
    /\ Idle(t)
    /\ Goto(t, "pick")
    /\ left' = [left EXCEPT ![t] = n]
    /\ calm' = [u \in Threads |-> u = t /\ \A v \in Threads : Idle(v)]
    /\ UNCHANGED <<envVars, clientVars, retrying, using, previous>>

(***************************************************************************)
(* _send: self._http_client is evaluated, then its request() is called.    *)
(***************************************************************************)
PickClient(t) ==
    /\ At(t, "pick")
    /\ using' = [using EXCEPT ![t] = client]
    /\ Goto(t, "send")
    /\ UNCHANGED <<envVars, clientVars, left, retrying, previous, calm>>

Move(t, from, to) ==
    /\ At(t, from)
    /\ Goto(t, to)
    /\ UNCHANGED <<envVars, clientVars, localVars, calm>>

SendRequest(t) ==
    /\ At(t, "send") /\ using[t].id \notin closed
    /\ Move(t, "send", "flight")

(***************************************************************************)
(* httpx refuses to send with a closed client: a RuntimeError that no      *)
(* handler of _request catches.                                            *)
(***************************************************************************)
ClientClosed(t) ==
    /\ At(t, "send") /\ using[t].id \in closed
    /\ Move(t, "send", "clientClosed")

Handshake(t) == using[t].cert \in trusted

\* Mutant: one request more than the operation has.
AnsweredOffByOne(t) ==
    /\ At(t, "flight")
    /\ Handshake(t)
    /\ left' = [left EXCEPT ![t] = @ - 1]
    /\ retrying' = [retrying EXCEPT ![t] = FALSE]
    /\ using' = [using EXCEPT ![t] = NoClient]
    /\ Goto(t, IF left[t] = 0 THEN "idle" ELSE "pick")
    /\ UNCHANGED <<envVars, clientVars, previous, calm>>

(***************************************************************************)
(* A 2xx response: the next request of the operation, or the end.          *)
(***************************************************************************)
Answered(t) ==
    /\ At(t, "flight")
    /\ Handshake(t)
    /\ left' = [left EXCEPT ![t] = @ - 1]
    /\ retrying' = [retrying EXCEPT ![t] = FALSE]
    /\ using' = [using EXCEPT ![t] = NoClient]
    /\ Goto(t, IF left[t] = 1 THEN "idle" ELSE "pick")
    /\ UNCHANGED <<envVars, clientVars, previous, calm>>

(***************************************************************************)
(* A 4xx or 5xx response (CBCClientError, CBCServerError); no connection,  *)
(* a timeout, a connection closed meanwhile (CBCNetworkError).             *)
(***************************************************************************)
HttpError(t) == At(t, "flight") /\ Handshake(t) /\ Move(t, "flight", "httpError")

TransportError(t) == Move(t, "flight", "networkError")

(***************************************************************************)
(* The server refuses the certificate (ssl.SSLError in the cause chain).   *)
(***************************************************************************)
TlsFailure(t) ==
    /\ At(t, "flight")
    /\ ~Handshake(t)
    /\ Goto(t, IF HasSslFactory /\ ~retrying[t] THEN "lock" ELSE "tlsError")
    /\ UNCHANGED <<envVars, clientVars, localVars, calm>>

-----------------------------------------------------------------------------

\* Mutant: the client to close is remembered before the lock is taken.
PreviousBeforeLock(t) ==
    /\ At(t, "lock")
    /\ lock = NoThread
    /\ lock' = t
    /\ previous' = [previous EXCEPT ![t] = using[t]]
    /\ Goto(t, "build")
    /\ UNCHANGED <<envVars, client, closed, ownerClosed, left,
                   retrying, using, calm>>

(***************************************************************************)
(* _rebuild_http_client, under the lock: remember the client to close,     *)
(* build a new one, replace, close.                                        *)
(***************************************************************************)
EnterRebuild(t) ==
    /\ At(t, "lock")
    /\ lock = NoThread
    /\ lock' = t
    /\ previous' = [previous EXCEPT ![t] = client]
    /\ Goto(t, "build")
    /\ UNCHANGED <<envVars, client, closed, ownerClosed, left,
                   retrying, using, calm>>

(***************************************************************************)
(* The new object is one nothing refers to.                                *)
(***************************************************************************)
Referred ==
    {client} \cup {using[t] : t \in {u \in Threads : using[u] # NoClient}}
             \cup {previous[t] : t \in {u \in Threads : previous[u] # NoClient}}

FreeIds == ClientIds \ {c.id : c \in Referred}

\* Mutant: the SSL context is not loaded again.
BuildWithOldCert(t) ==
    /\ At(t, "build")
    /\ FreeIds # {}
    /\ LET c == CHOOSE c \in FreeIds : TRUE IN
       /\ using' = [using EXCEPT ![t] = [id |-> c, cert |-> previous[t].cert]]
       /\ closed' = closed \ {c}
    /\ Goto(t, "swap")
    /\ UNCHANGED <<envVars, client, lock, ownerClosed, left, retrying,
                   previous, calm>>

BuildClient(t) ==
    /\ At(t, "build")
    /\ FreeIds # {}
    /\ LET c == CHOOSE c \in FreeIds : TRUE IN
       /\ using' = [using EXCEPT ![t] = [id |-> c, cert |-> cert]]
       /\ closed' = closed \ {c}
    /\ Goto(t, "swap")
    /\ UNCHANGED <<envVars, client, lock, ownerClosed, left, retrying,
                   previous, calm>>

\* Mutant: the lock is kept when the factory raises.
BuildFailsHoldingLock(t) ==
    /\ At(t, "build")
    /\ Goto(t, "configError")
    /\ UNCHANGED <<envVars, clientVars, localVars, calm>>

(***************************************************************************)
(* The certificate cannot be fetched or loaded (CBCConfigError): the lock  *)
(* is released and the old client stays.                                   *)
(***************************************************************************)
BuildFails(t) ==
    /\ At(t, "build")
    /\ lock' = NoThread
    /\ Goto(t, "configError")
    /\ UNCHANGED <<envVars, client, closed, ownerClosed, localVars, calm>>

SwapClient(t) ==
    /\ At(t, "swap")
    /\ client' = using[t]
    /\ Goto(t, "closePrevious")
    /\ UNCHANGED <<envVars, closed, lock, ownerClosed, localVars, calm>>

\* Mutant: the client in the field is closed, not the one it replaced.
CloseCurrent(t) ==
    /\ At(t, "closePrevious")
    /\ closed' = closed \cup {client.id}
    /\ lock' = NoThread
    /\ previous' = [previous EXCEPT ![t] = NoClient]
    /\ using' = [using EXCEPT ![t] = NoClient]
    /\ retrying' = [retrying EXCEPT ![t] = TRUE]
    /\ Goto(t, "pick")
    /\ UNCHANGED <<envVars, client, ownerClosed, left, calm>>

ClosePrevious(t) ==
    /\ At(t, "closePrevious")
    /\ closed' = closed \cup {previous[t].id}
    /\ lock' = NoThread
    /\ previous' = [previous EXCEPT ![t] = NoClient]
    /\ using' = [using EXCEPT ![t] = NoClient]
    /\ retrying' = [retrying EXCEPT ![t] = TRUE]
    /\ Goto(t, "pick")
    /\ UNCHANGED <<envVars, client, ownerClosed, left, calm>>

(***************************************************************************)
(* The exception reaches the caller.                                       *)
(***************************************************************************)
Raise(t) ==
    /\ pc[t] \in Failures
    /\ Goto(t, "idle")
    /\ left' = [left EXCEPT ![t] = 0]
    /\ retrying' = [retrying EXCEPT ![t] = FALSE]
    /\ using' = [using EXCEPT ![t] = NoClient]
    /\ previous' = [previous EXCEPT ![t] = NoClient]
    /\ calm' = [calm EXCEPT ![t] = FALSE]
    /\ UNCHANGED <<envVars, clientVars>>

Step(t) ==
    \/ PickClient(t) \/ SendRequest(t) \/ Answered(t) \/ HttpError(t) \/ TransportError(t)
    \/ ClientClosed(t) \/ TlsFailure(t)
    \/ EnterRebuild(t) \/ BuildClient(t) \/ BuildFails(t) \/ SwapClient(t)
    \/ ClosePrevious(t) \/ Raise(t)

(***************************************************************************)
(* The environment: the certificate is renewed, the old one stops being    *)
(* trusted, and the owner closes the client.                               *)
(***************************************************************************)
RenewCert ==
    /\ cert < MaxCert
    /\ cert' = cert + 1
    /\ trusted' = trusted \cup {cert + 1}
    /\ calm' = [t \in Threads |-> FALSE]
    /\ UNCHANGED <<clientVars, pc, localVars>>

ExpireOldCerts ==
    /\ trusted # {cert}
    /\ trusted' = {cert}
    /\ calm' = [t \in Threads |-> FALSE]
    /\ UNCHANGED <<cert, clientVars, pc, localVars>>

Close ==
    /\ closed' = closed \cup {client.id}
    /\ ownerClosed' = TRUE
    /\ UNCHANGED <<envVars, client, lock, pc, localVars, calm>>

Next ==
    \/ \E t \in Threads : Step(t) \/ \E n \in 1 .. MaxRequests : Operation(t, n)
    \/ RenewCert \/ ExpireOldCerts \/ Close

Spec == Init /\ [][Next]_vars

(***************************************************************************)
(* Threads are scheduled and their calls return or time out.  Strong       *)
(* fairness of the lock: a waiter may be overtaken, but not for ever; with *)
(* weak fairness a thread whose factory keeps failing could starve it.     *)
(***************************************************************************)
FairSpec ==
    Spec /\ \A t \in Threads : WF_vars(Step(t)) /\ SF_vars(EnterRebuild(t))

-----------------------------------------------------------------------------

TypeOK ==
    /\ cert \in Certs
    /\ trusted \subseteq Certs
    /\ client \in Client
    /\ closed \subseteq ClientIds
    /\ lock \in Threads \cup {NoThread}
    /\ ownerClosed \in BOOLEAN
    /\ pc \in [Threads -> Labels]
    /\ left \in [Threads -> 0 .. MaxRequests]
    /\ retrying \in [Threads -> BOOLEAN]
    /\ using \in [Threads -> Client \cup {NoClient}]
    /\ previous \in [Threads -> Client \cup {NoClient}]
    /\ calm \in [Threads -> BOOLEAN]

Rebuilding(t) == pc[t] \in {"build", "swap", "closePrevious"}

(***************************************************************************)
(* The client in the field is open, whatever rebuilds overlap, until the   *)
(* owner closes it; so a caller that begins then does not meet a closed    *)
(* client.                                                                 *)
(***************************************************************************)
CurrentClientOpen == ~ownerClosed => client.id \notin closed

(***************************************************************************)
(* No httpx.Client is lost with its connections open: a client a thread    *)
(* has in hand is in the field, closed, or in the hands of a rebuild.      *)
(***************************************************************************)
ReplacedClientsClosed ==
    \A t \in Threads : using[t] # NoClient =>
        \/ using[t] = client
        \/ using[t].id \in closed
        \/ \E u \in Threads : Rebuilding(u) /\ using[t] \in {previous[u], using[u]}

(***************************************************************************)
(* An operation that runs alone while the certificate stays as it is does  *)
(* not fail at the TLS handshake nor on a closed client: one rebuild is    *)
(* enough for the whole operation.                                         *)
(***************************************************************************)
LoneOperationRecovers ==
    \A t \in Threads : calm[t] =>
        /\ HasSslFactory => ~At(t, "tlsError")
        /\ ~ownerClosed => ~At(t, "clientClosed")

(***************************************************************************)
(* _rebuild_http_client: "Guards against a thundering herd: if another     *)
(* thread already rebuilt while this one waited on the lock, reuse that    *)
(* client instead of rebuilding again": a rebuild starts only while the    *)
(* client that failed is still the one in the field.                       *)
(***************************************************************************)
NoThunderingHerd ==
    \A t \in Threads : At(t, "build") => using[t] = client

(***************************************************************************)
(* Every operation ends; nobody waits for the lock for ever.               *)
(***************************************************************************)
OperationsEnd == \A t \in Threads : ~Idle(t) ~> Idle(t)

=============================================================================
