-------------------------- MODULE GatewayDiscovery --------------------------
(***************************************************************************)
(* agentgateway/agw_client.py, _lob.py, _customer.py and _fragments.py,    *)
(* and extensibility/client.py, call_hook_agw: a call of an                *)
(* AgentGatewayClient fetches a token, detects whose credentials it has -  *)
(* a second time, the environment may have changed - and then asks all     *)
(* servers at once, a bounded number of them at a time, or calls a tool,   *)
(* whose URL is of the flow that was detected when the tool was listed.    *)
(* How the token is fetched and cached is in GatewayTokens.                *)
(***************************************************************************)
EXTENDS Integers, Sequences, FiniteSets

CONSTANTS
    MaxServers,      \* bound: servers that are asked
    MaxConcurrent,   \* max_concurrent_tasks
    MaxChanges       \* bound: changes of the environment

DiscoveryAssumption ==
    MaxServers \in Nat /\ MaxConcurrent \in Nat \ {0} /\ MaxChanges \in Nat

VARIABLES
    mode, changes,   \* whose credentials the environment has, and how often that changed
    tenant,          \* the client has a tenant_subdomain
    gwPc, operation,
    user,            \* the caller passed a user token
    onlyNamed,       \* the filter has names
    token,           \* whose token the call has fetched
    tokenAt,         \* history: the changes there had been when it was fetched
    target,          \* whose servers the call goes to, by their URLs
    urlAt,           \* history: the changes there had been when these were chosen
    kept,            \* what the caller has kept of his last listing: a tool's target, urlAt
    answers,         \* per server
    permits,         \* of the semaphore
    found,           \* what the discovery returns, in order
    tool,            \* the tool of a hook, once it has been found
    gwError

discoveryVars == <<mode, changes, tenant, gwPc, operation, user, onlyNamed, token, tokenAt,
                   target, urlAt, kept, answers, permits, found, tool, gwError>>

\* a credentials file comes first, then the variables of the transparent mode
Modes == {"customer", "transparent", "lob"}

Operations == {"tools", "cards", "integrations", "call", "hook", "clientId"}

\* of what a server offers matters one tool: the hook's, one of the same name on a
\* server of another name, another one, or none; of a card matters its name, and
\* whether it is a JSON object
Offers == {"hook", "namesake", "other", "nothing"}
Cards == {"hook", "other", "noObject"}

Named(offer) == offer \in {"hook", "namesake"}

NothingKept == [flow |-> "none", at |-> 0]

Init ==
    /\ mode \in Modes /\ changes = 0 /\ tenant \in BOOLEAN
    /\ gwPc = "returned" /\ operation = "clientId"
    /\ user = FALSE /\ onlyNamed = FALSE
    /\ token = "none" /\ tokenAt = 0 /\ target = "none" /\ urlAt = 0 /\ kept = NothingKept
    /\ answers = <<>> /\ permits = MaxConcurrent
    /\ found = <<>> /\ tool = "none" /\ gwError = "none"

context == <<mode, changes, tenant, operation, user, onlyNamed>>
fetched == <<token, tokenAt>>
chosen == <<target, urlAt, kept>>
gathering == <<answers, permits, found>>

Goto(label) == gwPc' = label /\ UNCHANGED gwError
Raise(what) == gwPc' = "raised" /\ gwError' = what

\* the operation lists: a hook does until it has its tool
Lists == operation \in {"tools", "cards"} \/ (operation = "hook" /\ tool = "none")

\* a user token makes a difference where a tool is called
Passes(o) == IF o \in {"call", "hook"} THEN BOOLEAN ELSE {FALSE}

\* what is raised when a token cannot be fetched or a tool be called: call_hook_agw
\* translates it once it has its tool
CallError ==
    IF operation = "hook" /\ tool # "none" THEN "TransportError" ELSE "AgentGatewaySDKError"

\* call_mcp_tool is given a tool that list_mcp_tools has returned, however long ago
Call(o, u) ==
    /\ o = "call" => kept # NothingKept
    /\ gwPc \in {"returned", "raised"}
    /\ operation' = o /\ user' = u
    /\ onlyNamed' \in IF o \in {"tools", "cards"} THEN BOOLEAN ELSE {FALSE}
    /\ gwPc' = IF o \in {"cards", "integrations", "clientId"} THEN "guard" ELSE "auth"
    /\ token' = "none" /\ tokenAt' = 0 /\ tool' = "none" /\ gwError' = "none"
    /\ IF o = "call" THEN target' = kept.flow /\ urlAt' = kept.at
       ELSE target' = "none" /\ urlAt' = 0
    /\ answers' = <<>> /\ permits' = MaxConcurrent /\ found' = <<>>
    /\ UNCHANGED <<mode, changes, tenant, kept>>

-----------------------------------------------------------------------------
(* Detections and tokens *)

\* list_agent_cards looks for a credentials file only, and asks the servers of an LoB
\* agent
GuardCards ==
    /\ gwPc = "guard" /\ operation = "cards"
    /\ IF mode = "customer" \/ ~tenant
       THEN Raise("AgentGatewaySDKError") /\ UNCHANGED chosen
       ELSE Goto("auth") /\ target' = "lob" /\ urlAt' = changes /\ UNCHANGED kept
    /\ UNCHANGED <<context, fetched, gathering, tool>>

\* list_active_integrations looks for both; what the destination service raises
\* passes through
Integrations ==
    /\ gwPc = "guard" /\ operation = "integrations"
    /\ IF mode # "lob" \/ ~tenant THEN Raise("AgentGatewaySDKError")
       ELSE Goto("returned") \/ Raise("DestinationError")
    /\ UNCHANGED <<context, fetched, chosen, gathering, tool>>

ClientId ==
    /\ gwPc = "guard" /\ operation = "clientId"
    /\ Goto("returned") \/ Raise("AgentGatewaySDKError")
    /\ UNCHANGED <<context, fetched, chosen, gathering, tool>>

\* get_system_auth, get_user_auth: the first detection
Authenticate ==
    /\ gwPc = "auth"
    /\ \/ /\ mode = "lob" => tenant
          /\ token' = mode /\ tokenAt' = changes
          /\ Goto(IF operation = "cards" THEN "list" ELSE "detect")
       \/ Raise(CallError) /\ UNCHANGED fetched
    /\ UNCHANGED <<context, chosen, gathering, tool>>

\* mutant: the flow is that of the client's tenant
DetectByTenant ==
    /\ gwPc = "detect"
    /\ IF Lists
       THEN /\ target' = (IF tenant THEN "lob" ELSE mode) /\ urlAt' = changes
            /\ UNCHANGED kept /\ Goto("list")
       ELSE /\ UNCHANGED chosen
            /\ Goto(IF tenant THEN "invokeLob" ELSE "invokeCustomer")
    /\ UNCHANGED <<context, fetched, gathering, tool>>

\* the second detection chooses the servers of a listing; for a call, whose URL is
\* its tool's, it chooses only how to call: an LoB agent needs a user token
Detect ==
    /\ gwPc = "detect"
    /\ mode = "lob" => IF Lists THEN tenant ELSE user
    /\ IF Lists THEN target' = mode /\ urlAt' = changes /\ UNCHANGED kept /\ Goto("list")
       ELSE UNCHANGED chosen /\ Goto(IF mode = "lob" THEN "invokeLob" ELSE "invokeCustomer")
    /\ UNCHANGED <<context, fetched, gathering, tool>>

\* the credentials are loaded again, which may fail
DetectFails ==
    /\ gwPc = "detect"
    /\ mode = "lob" => IF Lists THEN ~tenant ELSE ~user
    /\ Lists \/ mode = "lob"
    /\ Raise(CallError)
    /\ UNCHANGED <<context, fetched, chosen, gathering, tool>>

-----------------------------------------------------------------------------
(* get_mcp_tools_lob, get_mcp_tools_customer, get_agent_cards_lob *)

Servers == \E n \in 0..MaxServers : answers' = [i \in 1..n |-> "waiting"]

\* the fragments of the tenant, less those without a URL, a card's without an ORD
\* id, and those the filter does not want
ListFragments ==
    /\ gwPc = "list" /\ target = "lob"
    /\ Servers /\ Goto("gather")
    /\ UNCHANGED <<context, fetched, chosen, permits, found, tool>>

FragmentsFail ==
    /\ gwPc = "list" /\ target = "lob"
    /\ Raise("AgentGatewaySDKError")
    /\ UNCHANGED <<context, fetched, chosen, gathering, tool>>

\* the dependencies in the credentials
ListDependencies ==
    /\ gwPc = "list" /\ target # "lob"
    /\ Servers /\ Goto("gather")
    /\ UNCHANGED <<context, fetched, chosen, permits, found, tool>>

Ask(i) ==
    /\ gwPc = "gather" /\ permits > 0
    /\ answers[i] = "waiting"
    /\ answers' = [answers EXCEPT ![i] = "asked"]
    /\ permits' = permits - 1
    /\ UNCHANGED <<context, gwPc, fetched, chosen, found, tool, gwError>>

Receive(i, contents) ==
    /\ gwPc = "gather" /\ answers[i] = "asked"
    /\ \E c \in contents : answers' = [answers EXCEPT ![i] = c]
    /\ permits' = permits + 1
    /\ UNCHANGED <<context, gwPc, fetched, chosen, found, tool, gwError>>

AnswerTools(i) == operation # "cards" /\ Receive(i, Offers)

AnswerCard(i) == operation = "cards" /\ Receive(i, Cards)

\* no answer, an error of any kind, or no server name for a customer agent: the
\* error is logged, the other servers go on
Fails(i) == Receive(i, {"failed"})

Answered == \A i \in DOMAIN answers : answers[i] \notin {"waiting", "asked"}

\* the servers of a set, in the order of the tasks, whatever the order of the answers
InOrder(servers) ==
    LET Upto[i \in 0..Len(answers)] ==
          IF i = 0 THEN <<>>
          ELSE IF i \in servers THEN Append(Upto[i - 1], i) ELSE Upto[i - 1]
    IN  Upto[Len(answers)]

\* a caller keeps the tools he has listed
Keep == kept' = IF operation = "tools" /\ found' # <<>> THEN [flow |-> target, at |-> urlAt]
                ELSE kept

\* mutant: the results are those up to the first failure
CollectUntilFailure ==
    /\ gwPc = "gather" /\ operation # "cards" /\ Answered
    /\ found' = InOrder({i \in DOMAIN answers :
           /\ \A j \in 1..i : answers[j] # "failed"
           /\ answers[i] # "nothing"
           /\ (onlyNamed => Named(answers[i]))})
    /\ Goto(IF operation = "hook" THEN "match" ELSE "returned")
    /\ Keep
    /\ UNCHANGED <<context, fetched, target, urlAt, answers, permits, tool>>

\* the tools of the servers that have answered
Collect ==
    /\ gwPc = "gather" /\ operation # "cards" /\ Answered
    /\ found' = InOrder({i \in DOMAIN answers :
           /\ answers[i] \notin {"failed", "nothing"}
           /\ (onlyNamed => Named(answers[i]))})
    /\ Goto(IF operation = "hook" THEN "match" ELSE "returned")
    /\ Keep
    /\ UNCHANGED <<context, fetched, target, urlAt, answers, permits, tool>>

\* a card that is no JSON object has no name to compare
CollectCards ==
    LET received == {i \in DOMAIN answers : answers[i] # "failed"}
    IN  /\ gwPc = "gather" /\ operation = "cards" /\ Answered
        /\ IF onlyNamed /\ \E i \in received : answers[i] = "noObject"
           THEN Raise("AgentGatewaySDKError") /\ UNCHANGED found
           ELSE /\ Goto("returned")
                /\ found' = InOrder({i \in received : onlyNamed => Named(answers[i])})
        /\ UNCHANGED <<context, fetched, chosen, answers, permits, tool>>

-----------------------------------------------------------------------------
(* call_mcp_tool, call_hook_agw *)

\* _discover_n8n_tools: the first tool of the hook's name on the hook's server
Match ==
    /\ gwPc = "match"
    /\ IF \E i \in DOMAIN found : answers[found[i]] = "hook"
       THEN tool' = "hook" /\ Goto("auth")
       ELSE Raise("ExtensibilityError") /\ UNCHANGED tool
    /\ UNCHANGED <<context, fetched, chosen, gathering>>

\* the text of the result, or an error: of the tool, the protocol, no or a malformed
\* result, or any other, which the task groups of the MCP client may have wrapped
Invoked ==
    /\ \/ Goto(IF operation = "hook" THEN "parse" ELSE "returned")
       \/ Raise(CallError)
    /\ UNCHANGED <<context, fetched, chosen, gathering, tool>>

InvokeLob == gwPc = "invokeLob" /\ Invoked

InvokeCustomer == gwPc = "invokeCustomer" /\ Invoked

\* the text is a message or no JSON; is JSON but no message; or is no JSON object,
\* and has no get
Parse ==
    /\ gwPc = "parse"
    /\ \/ Goto("returned")
       \/ \E e \in {"TransportError", "ExtensibilityError", "AttributeError"} : Raise(e)
    /\ UNCHANGED <<context, fetched, chosen, gathering, tool>>

-----------------------------------------------------------------------------
ChangeEnvironment ==
    /\ changes < MaxChanges
    /\ changes' = changes + 1
    /\ mode' \in Modes \ {mode}
    /\ UNCHANGED <<tenant, gwPc, operation, user, onlyNamed, fetched, chosen, gathering,
                   tool, gwError>>

Next ==
    \/ \E o \in Operations : \E u \in Passes(o) : Call(o, u)
    \/ GuardCards \/ Integrations \/ ClientId
    \/ Authenticate \/ Detect \/ DetectFails
    \/ ListFragments \/ FragmentsFail \/ ListDependencies
    \/ \E i \in DOMAIN answers : Ask(i) \/ AnswerTools(i) \/ AnswerCard(i) \/ Fails(i)
    \/ Collect \/ CollectCards
    \/ Match \/ InvokeLob \/ InvokeCustomer \/ Parse
    \/ ChangeEnvironment

Spec == Init /\ [][Next]_discoveryVars

-----------------------------------------------------------------------------
(* Properties *)

\* Types; a server that has answered or failed gives its permit to the next.
TypeOK ==
    /\ mode \in Modes /\ changes \in 0..MaxChanges
    /\ operation \in Operations
    /\ gwPc \in {"guard", "auth", "detect", "list", "gather", "match", "invokeLob",
                 "invokeCustomer", "parse", "returned", "raised"}
    /\ {token, target, kept.flow} \subseteq Modes \cup {"none"}
    /\ {tokenAt, urlAt, kept.at} \subseteq 0..changes
    /\ \A i \in DOMAIN answers : answers[i] \in Offers \cup Cards \cup {"waiting", "asked", "failed"}
    /\ permits = MaxConcurrent - Cardinality({i \in DOMAIN answers : answers[i] = "asked"})

Invoking == gwPc \in {"invokeLob", "invokeCustomer"}

\* A token goes to servers of another flow only if the environment has changed between
\* the two detections they come from, or if it is of the transparent mode and agent
\* cards are listed: when servers are listed, from the fetch of the token to the choice
\* of the servers; when a tool is called, from the choice of its server, maybe calls
\* ago, to the fetch of the token.  A change at any other time does no harm: a hook
\* fetches anew for the tool it has found.  And the token of an LoB agent calls a tool
\* without a user only if the environment has changed since it was fetched.
TokensStayInTheirFlow ==
    /\ (gwPc = "gather" \/ Invoking) /\ tokenAt = urlAt =>
          token = target \/ (operation = "cards" /\ token = "transparent")
    /\ Invoking /\ token = "lob" => user \/ tokenAt < changes

\* What the servers that answered offer is found, each once and in the order of the
\* servers, however many others fail and whoever answers first; a discovery that has
\* asked its servers does not raise, unless it looks for the names of cards one of
\* which is no JSON object; and a hook is not found only if no server that answered
\* offers it under the hook's own server name.
DiscoveriesAreComplete ==
    LET offered == {i \in DOMAIN answers :
                       /\ answers[i] \in (Offers \cup Cards) \ {"nothing"}
                       /\ onlyNamed => Named(answers[i])}
    IN  /\ gwPc \in {"match", "returned"} =>
              /\ {found[i] : i \in DOMAIN found} = offered
              /\ \A i, j \in DOMAIN found : i < j => found[i] < found[j]
        /\ gwPc = "raised" /\ answers # <<>> =>
              \/ operation = "hook"
              \/ /\ operation = "cards" /\ onlyNamed
                 /\ \E i \in DOMAIN answers : answers[i] = "noObject"
        /\ gwPc = "raised" /\ gwError = "ExtensibilityError" /\ tool = "none" =>
              \A i \in DOMAIN answers : answers[i] # "hook"
=============================================================================
