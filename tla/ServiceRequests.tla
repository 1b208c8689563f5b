-------------------------- MODULE ServiceRequests --------------------------
(***************************************************************************)
(* The vocabulary in which the REST clients are described.  A method of a  *)
(* client is the set of programs it can run; a program is the sequence of  *)
(* requests it sends.  The empty program is a call that ends without one:  *)
(* refused because of its arguments, or answered from configuration.       *)
(***************************************************************************)
EXTENDS Sequences

Reads == {"get",       \* one entity; a missing one is an error
          "find",      \* one entity; a missing one is no entity
          "list",      \* a collection or a query
          "find_list"} \* a collection; a missing one is the empty collection
Creates == {"create", "upload"}
Writes == Creates \cup
          {"change", "delete",
           "act",      \* an action or function that changes an existing entity
           "append"}   \* like upload, adds the rest of a stream to an entity
Streams == {"upload", "append"}  \* the body is a stream, read when it is sent

Scopes == {"subscriber", "provider"}

\* when: a later request is always sent, only if what came before found
\* nothing, or only if it found a document whose scan is clean
Conditions == {"always", "if_nothing", "if_clean"}

Request == [kind: Reads \cup Writes, scope: Scopes, when: Conditions]
Send(kind, scope, when) == [kind |-> kind, scope |-> scope, when |-> when]

NoRequest == <<>>

\* one scope stands for the tenant the caller names, whichever it is
Once(kind) == {<<Send(kind, "provider", "always")>>}
Twice(first, second, when) ==
    {<<Send(first, "provider", "always"), Send(second, "provider", when)>>}
Checked(programs) == programs \cup {NoRequest}

ByStrategy(kind) ==
    LET First(s) == Send(kind, s, "always")
        Then(s) == Send(kind, s, "if_nothing")
    IN  {NoRequest,                                       \* no tenant given
         <<First("subscriber")>>,                         \* SUBSCRIBER_ONLY
         <<First("provider")>>,                           \* PROVIDER_ONLY
         <<First("subscriber"), Then("provider")>>,       \* SUBSCRIBER_FIRST
         <<First("provider"), Then("subscriber")>>}       \* PROVIDER_FIRST

\* the programs of a table of methods
ProgramsOf(methods) == UNION {methods[m] : m \in DOMAIN methods}
=============================================================================
