---------------------------- MODULE ServiceCalls ----------------------------
(***************************************************************************)
(* Threads share one client object of a REST service and call its methods. *)
(* A call runs a program of requests; the transport of the client decides  *)
(* what an answer means and whether a request is sent again.  The service  *)
(* keeps one entity per scope, which other clients change; it may revoke   *)
(* the credential of the client, fail, or lose an answer.                  *)
(***************************************************************************)
EXTENDS Naturals, DmsMethods, MemoryMethods, DestinationMethods, AdmsMethods,
        ConsentMethods

CONSTANTS
    Threads,
    MaxCalls,    \* bound: calls made by all threads
    MaxFaults    \* bound: failures, revocations and changes by other clients

ASSUME CallBounds == MaxCalls \in Nat /\ MaxFaults \in Nat

\* PrintClient has the transport of DMSClient, and is not told apart from it
Clients == {"dms", "agent_memory", "destination", "adms", "dpi_ng"}

Programs(client) ==
    CASE client = "dms"          -> DmsPrograms \cup PrintPrograms
      [] client = "agent_memory" -> MemoryPrograms
      [] client = "destination"  -> DestinationPrograms
      [] client = "adms"         -> AdmsPrograms
      [] client = "dpi_ng"       -> ConsentPrograms

\* an entity; of a document: complete and clean, complete and not scanned yet,
\* or without the content that was sent
Contents == {"absent", "full", "pending", "cut"}
Statuses == {200, 401, 404, 409, 428, 500, 0}   \* 0: none yet

VARIABLES
    client,    \* which client the threads share
    store,     \* per scope: the entity in the service
    stale,     \* the service refuses the credential the client holds
    ifMatch,   \* If-Match is among the headers of the shared session
    call,      \* per thread: its last call
    calls, faults

vars == <<client, store, stale, ifMatch, call, calls, faults>>

NoReply == [status |-> 0, body |-> TRUE, value |-> "absent"]

Started(program) == [
    pc |-> IF program = NoRequest THEN "returned" ELSE "next",
    program |-> program,
    step |-> 1,           \* the request of the program it has come to
    attempt |-> 0,        \* how often that request has been sent
    header |-> FALSE,     \* it carried If-Match
    reply |-> NoReply,
    answer |-> IF program = NoRequest THEN "local" ELSE "none",
    \* history of the call
    applied |-> 0,        \* how often the service executed a write of it
    swallowed |-> FALSE,  \* an error was taken for a result
    seen |-> [s \in Scopes |-> {store[s]}],
    feasible |-> FALSE,   \* nothing stands in its way when it begins,
    mark |-> 0]           \* no other call is under way, and so many events were

\* the programs of the other clients use one scope for any tenant
UsedScopes == IF client = "destination" THEN Scopes ELSE {"provider"}

Ended(c, answer) ==
    [c EXCEPT !.pc = "returned", !.answer = answer,
              !.attempt = 0, !.header = FALSE, !.reply = NoReply]

Active(c) == c.pc \in {"next", "send", "sent", "answered"}
Now(c) == c.program[c.step]

Init ==
    /\ client \in Clients
    /\ store \in {s \in [Scopes -> {"absent", "full"}] :
                    \A x \in Scopes \ UsedScopes : s[x] = "absent"}
    /\ stale = FALSE
    /\ ifMatch = FALSE
    /\ call = [t \in Threads |-> Started(NoRequest)]
    /\ calls = 0 /\ faults = 0

\* a call under way sees every state the service goes through
Watch(c, st) ==
    IF Active(c) THEN [c EXCEPT !.seen = [s \in Scopes |-> @[s] \cup {st[s]}]] ELSE c

-----------------------------------------------------------------------------
(* The transports *)

\* mutant: the retry of HttpClient.request is missing
NeverSentAgain(r) == FALSE

\* HttpClient sends any request again after 401; AdmsHttp a write after 403
SentAgain(r) ==
    \/ client \in {"dms", "agent_memory", "destination"}
    \/ client = "adms" /\ r.kind \in Writes

\* only the writes of ADMS carry the CSRF token, which is what gets stale there
CarriesCredential(r) == client = "adms" => r.kind \in Writes

\* save of a persisted entity and delete_entity
NeedsIfMatch(r) == client = "dpi_ng" /\ r.kind \in {"change", "delete"}

Again(c) ==
    c.reply.status = 401 /\ SentAgain(Now(c)) /\ c.attempt = 1

\* mutant: every error of a lookup is an empty result
AnyErrorIsMissing(c) == c.reply.status # 200 /\ Now(c).kind \in {"find", "find_list"}

Missing(c) == c.reply.status = 404 /\ Now(c).kind \in {"find", "find_list"}

\* mutant: the status is not looked at
AcceptedAnyway(c) == TRUE

\* _request of agent_memory looks for a body before it looks at the status
Accepted(c) ==
    \/ c.reply.status = 200
    \/ client = "agent_memory" /\ ~c.reply.body

ResultOf(c) ==
    IF Missing(c) THEN "nothing"
    ELSE IF c.reply.status # 200 THEN "blank"
    ELSE IF Now(c).kind \in Writes THEN "done"
    ELSE IF c.reply.value = "absent" THEN "nothing"
    ELSE c.reply.value

-----------------------------------------------------------------------------
(* The service *)

CanDo(kind, content) ==
    CASE kind \in Creates -> content = "absent"
      [] kind = "list"    -> TRUE
      [] OTHER            -> content # "absent"

\* the stream of an upload has been read when it is sent for a second time
Stored(c, content) ==
    IF Now(c).kind \in Streams /\ c.attempt > 1 THEN "cut"
    ELSE CASE Now(c).kind \in Creates -> IF client = "adms" THEN "pending" ELSE "full"
           [] Now(c).kind = "delete"  -> "absent"
           [] OTHER                   -> content

Feasible(program) ==
    \A i \in 1..Len(program) :
        LET r == program[i]
        IN  /\ r.kind \in {"find", "find_list"} \/ CanDo(r.kind, store[r.scope])
            /\ r.when = "if_clean" => store[r.scope] = "full"
            /\ stale => client # "dpi_ng"   \* which does not retry

\* the service answers, after it has executed the request or without doing so
Answer(t, status, executed) ==
    LET c == call[t]
        s == Now(c).scope
        after == IF executed THEN [store EXCEPT ![s] = Stored(c, @)] ELSE store
        value == IF executed THEN store[s] ELSE "absent"
        writes == IF executed /\ Now(c).kind \in Writes THEN 1 ELSE 0
    IN  \E body \in IF client = "agent_memory" /\ status # 200 THEN BOOLEAN ELSE {TRUE} :
            LET answered == [c EXCEPT !.pc = "answered", !.applied = @ + writes,
                    !.reply = [status |-> status, body |-> body, value |-> value]]
            IN  /\ store' = after
                /\ call' = [u \in Threads |->
                               Watch(IF u = t THEN answered ELSE call[u], after)]

Unauthorized(t) ==
    /\ call[t].pc = "sent"
    /\ stale /\ CarriesCredential(Now(call[t]))
    /\ Answer(t, 401, FALSE)
    /\ UNCHANGED <<client, stale, ifMatch, calls, faults>>

\* 404 for what is missing, 409 for what exists already
Execute(t) ==
    LET r == Now(call[t]) IN
    /\ call[t].pc = "sent"
    /\ ~(stale /\ CarriesCredential(r))
    /\ IF CanDo(r.kind, store[r.scope]) THEN Answer(t, 200, TRUE)
       ELSE Answer(t, IF r.kind \in Creates THEN 409 ELSE 404, FALSE)
    /\ UNCHANGED <<client, stale, ifMatch, calls, faults>>

\* a change without If-Match, or If-Match where it does not belong
WrongHeader(t) ==
    /\ call[t].pc = "sent"
    /\ call[t].header # NeedsIfMatch(Now(call[t]))
    /\ Answer(t, 428, FALSE)
    /\ UNCHANGED <<client, stale, ifMatch, calls, faults>>

\* the service fails, or its answer is lost, before or after the effect: the
\* client raises for no answer as it does for an error with a body
Outage(t) ==
    LET r == Now(call[t]) IN
    /\ call[t].pc = "sent" /\ faults < MaxFaults
    /\ \E executed \in {FALSE, CanDo(r.kind, store[r.scope])} :
          Answer(t, 500, executed)
    /\ faults' = faults + 1
    /\ UNCHANGED <<client, stale, ifMatch, calls>>

\* other clients of the service; a scan ends, or a new version waits for its scan
OthersChange ==
    /\ faults < MaxFaults
    /\ \E s \in UsedScopes,
          new \in {"absent", "full"} \cup IF client = "adms" THEN {"pending"} ELSE {} :
          /\ new # store[s]
          /\ store' = [store EXCEPT ![s] = new]
          /\ call' = [u \in Threads |-> Watch(call[u], store')]
    /\ faults' = faults + 1
    /\ UNCHANGED <<client, stale, ifMatch, calls>>

Revoke ==
    /\ faults < MaxFaults /\ ~stale
    /\ stale' = TRUE
    /\ faults' = faults + 1
    /\ UNCHANGED <<client, store, ifMatch, call, calls>>

-----------------------------------------------------------------------------
(* The client *)

Call(t) ==
    /\ ~Active(call[t]) /\ calls < MaxCalls
    /\ \E p \in Programs(client) :
          call' = [call EXCEPT ![t] = [Started(p) EXCEPT
                      !.feasible = Feasible(p) /\ \A u \in Threads : ~Active(call[u]),
                      !.mark = calls + 1 + faults]]
    /\ calls' = calls + 1
    /\ UNCHANGED <<client, store, stale, ifMatch, faults>>

\* mutant: the header is never set
SetNothing(t) ==
    /\ call[t].pc = "next" /\ NeedsIfMatch(Now(call[t]))
    /\ call' = [call EXCEPT ![t].pc = "send"]
    /\ UNCHANGED <<client, store, stale, ifMatch, calls, faults>>

SetIfMatch(t) ==
    /\ call[t].pc = "next" /\ NeedsIfMatch(Now(call[t]))
    /\ ifMatch' = TRUE
    /\ call' = [call EXCEPT ![t].pc = "send"]
    /\ UNCHANGED <<client, store, stale, calls, faults>>

\* requests merges the headers of the session into the request
SendRequest(t) ==
    /\ \/ call[t].pc = "send"
       \/ call[t].pc = "next" /\ ~NeedsIfMatch(Now(call[t]))
    /\ call' = [call EXCEPT ![t].pc = "sent", ![t].header = ifMatch,
                   ![t].attempt = @ + 1]
    /\ UNCHANGED <<client, store, stale, ifMatch, calls, faults>>

\* mutant: popped only after success
PopAfterSuccess(t) ==
    ifMatch' = (ifMatch /\ ~(NeedsIfMatch(Now(call[t])) /\ call[t].reply.status = 200))

\* finally: session.headers.pop("If-Match", None)
PopIfMatch(t) == ifMatch' = (ifMatch /\ ~NeedsIfMatch(Now(call[t])))

\* the credential is evicted, the next request gets a new one
Resend(t) ==
    /\ call[t].pc = "answered" /\ Again(call[t])
    /\ stale' = FALSE
    /\ call' = [call EXCEPT ![t].pc = "next"]
    /\ PopIfMatch(t)
    /\ UNCHANGED <<client, store, calls, faults>>

Fail(t) ==
    /\ call[t].pc = "answered" /\ ~Again(call[t])
    /\ ~Missing(call[t]) /\ ~Accepted(call[t])
    /\ call' = [call EXCEPT ![t] = Ended(@, "raised")]
    /\ PopIfMatch(t)
    /\ UNCHANGED <<client, store, stale, calls, faults>>

\* the next request of the program, an error, or the end of the call
Proceed(t) ==
    LET c == call[t]
        result == ResultOf(c)
        last == c.step = Len(c.program)
        when == c.program[c.step + 1].when
        kept == [c EXCEPT !.swallowed = @ \/ (c.reply.status # 200 /\ ~Missing(c))]
        next == [kept EXCEPT !.pc = "next", !.step = @ + 1, !.attempt = 0,
                             !.header = FALSE, !.reply = NoReply]
        end == Ended(kept, result)
    IN  /\ c.pc = "answered" /\ ~Again(c)
        /\ Missing(c) \/ Accepted(c)
        /\ call' = [call EXCEPT ![t] =
               IF last THEN end
               ELSE CASE when = "always"     -> next
                      [] when = "if_nothing" -> IF result = "nothing" THEN next ELSE end
                      [] when = "if_clean"   -> IF result = "full" THEN next
                                                ELSE Ended(kept, "raised")]
        /\ PopIfMatch(t)
        /\ UNCHANGED <<client, store, stale, calls, faults>>

-----------------------------------------------------------------------------
Serve(t) == Unauthorized(t) \/ Execute(t) \/ WrongHeader(t) \/ Outage(t)
Run(t) == SetIfMatch(t) \/ SendRequest(t) \/ Resend(t) \/ Fail(t) \/ Proceed(t)

Next ==
    \/ \E t \in Threads : Call(t) \/ Run(t) \/ Serve(t)
    \/ OthersChange
    \/ Revoke

Spec == Init /\ [][Next]_vars

-----------------------------------------------------------------------------
(* Properties *)

Answers == {"none", "local", "raised", "nothing", "blank", "done"} \cup Contents
Returned(c, answers) == c.pc = "returned" /\ c.answer \in answers
Swallowed(c) == client = "agent_memory" /\ c.swallowed
WritesOfCall(c) == {i \in 1..Len(c.program) : c.program[i].kind \in Writes}

\* Types; a request is sent twice at most, and If-Match is in the shared
\* headers only while a call that put it there is under way, whatever fails.
TypeOK ==
    /\ client \in Clients
    /\ store \in [Scopes -> Contents]
    /\ stale \in BOOLEAN /\ ifMatch \in BOOLEAN
    /\ ifMatch => \E t \in Threads :
          call[t].pc \in {"send", "sent", "answered"} /\ NeedsIfMatch(Now(call[t]))
    /\ \A t \in Threads :
          LET c == call[t] IN
          /\ c.program \in Programs(client) \cup {NoRequest}
          /\ c.pc \in {"next", "send", "sent", "answered", "returned"}
          /\ Active(c) => c.step \in 1..Len(c.program)
          /\ c.attempt \in 0..2 /\ c.reply.status \in Statuses
          /\ c.answer \in Answers /\ c.applied \in 0..2
          /\ c.seen \in [Scopes -> SUBSET Contents]
    /\ calls \in 0..MaxCalls /\ faults \in 0..MaxFaults

\* A write that is reported as done has been executed, and no write is executed
\* twice, in spite of the retry, of lost answers and of the other thread: except
\* where agent_memory takes an error without a body for success.
ReportedWritesAreDone ==
    \A t \in Threads :
        LET c == call[t] IN
        /\ c.applied <= 1
        /\ ~Swallowed(c) /\ c.pc = "returned" /\ c.answer \notin {"raised", "local"}
           /\ WritesOfCall(c) # {} => c.applied = 1

\* What a call returns was so at some time during the call: the entity existed
\* in the scope it was read from, every scope asked before was empty, a download
\* URL was given for a document that had been clean, and "nothing" means that
\* every scope of the strategy was empty, though not all at once.
AnswersWereTrue ==
    \A t \in Threads :
        LET c == call[t]
            Seen(i) == c.seen[c.program[i].scope]
        IN  /\ Returned(c, Contents) /\ ~Swallowed(c) =>
                  /\ c.answer \in Seen(c.step)
                  /\ \A i \in 2..c.step :
                        /\ c.program[i].when = "if_nothing" => "absent" \in Seen(i - 1)
                        /\ c.program[i].when = "if_clean" => "full" \in Seen(i - 1)
            /\ Returned(c, {"nothing"}) =>
                  \A i \in 1..Len(c.program) : "absent" \in Seen(i)

\* A call that runs alone, meets no failure and could be executed as the service
\* was when it began succeeds, although the credential may have become stale.
UndisturbedCallsSucceed ==
    \A t \in Threads :
        LET c == call[t] IN
        c.feasible /\ c.mark = calls + faults => ~Returned(c, {"raised"})

\* AgentMemoryClient documents AgentMemoryNotFoundError and AgentMemoryHttpError
\* for every method: a call the service answers with an error does not return.
ErrorsAreRaised ==
    \A t \in Threads : call[t].pc = "returned" => ~call[t].swallowed
=============================================================================
