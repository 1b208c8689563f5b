-------------------------- MODULE StoreOperations --------------------------
(***************************************************************************)
(* What one operation of the local destination, fragment and certificate   *)
(* clients does to the content of its JSON file, and what it answers.      *)
(* Pure operators: LocalStore says when they are applied.                  *)
(*                                                                         *)
(* The file holds two lists.  An entry may carry a tenant (a subscriber's) *)
(* or none (the provider's).  Every search takes the first entry of the    *)
(* list that has the name and, for most, a given tenant.                   *)
(***************************************************************************)
EXTENDS Naturals, Sequences, SequencesExt

CONSTANTS
    Names,
    Tenants,    \* subscriber subdomains
    NoTenant,   \* the entry has no tenant field
    AnyTenant,  \* the search does not look at the tenant
    Values,     \* the other fields of an entity the program writes
    Prepared,   \* those of an entry the developer wrote into the file
    LabelKeys

Levels == {"instance", "subaccount"}
\* the certificate client is, operation by operation, the fragment client
Kinds == {"destination", "fragment"}
Strategies ==
    {"SUBSCRIBER_ONLY", "PROVIDER_ONLY", "SUBSCRIBER_FIRST", "PROVIDER_FIRST"}

Owners == Tenants \cup {NoTenant}
Entry == [name: Names, tenant: Owners, value: Values \cup {Prepared},
          labels: SUBSET LabelKeys]
\* from_dict keeps an unknown string field as a property and to_dict writes it
\* back, so an entity can carry the tenant of the entry it was read from
Entity == [name: Names, tenant: Owners, value: Values]

EmptyData == [l \in Levels |-> <<>>]

-----------------------------------------------------------------------------
(* Searches *)

Matches(e, n, k) == e.name = n /\ k \in {AnyTenant, e.tenant}

\* 0 when no entry matches
IndexOf(list, n, k) == SelectInSeq(list, LAMBDA e : Matches(e, n, k))

Found(list, n, k) == IndexOf(list, n, k) # 0

\* the tenants whose entries a strategy looks at, in its order
ScopesOf(strategy, k) ==
    CASE strategy = "SUBSCRIBER_ONLY"  -> <<k>>
      [] strategy = "PROVIDER_ONLY"    -> <<NoTenant>>
      [] strategy = "SUBSCRIBER_FIRST" -> <<k, NoTenant>>
      [] strategy = "PROVIDER_FIRST"   -> <<NoTenant, k>>

NeedsTenant(strategy) == strategy # "PROVIDER_ONLY"

FirstFound(list, n, scopes) ==
    LET hit == SelectInSeq(scopes, LAMBDA k : Found(list, n, k))
    IN  IF hit = 0 THEN <<>> ELSE <<list[IndexOf(list, n, scopes[hit])]>>

FirstNonEmpty(list, scopes) ==
    LET OfTenant(k) == SelectSeq(list, LAMBDA e : e.tenant = k)
        hit == SelectInSeq(scopes, LAMBDA k : OfTenant(k) # <<>>)
    IN  IF hit = 0 THEN <<>> ELSE OfTenant(scopes[hit])

-----------------------------------------------------------------------------
(* Answers: a status, the entries and the labels returned *)

Answer(status, entries, labels) ==
    [status |-> status, entries |-> entries, labels |-> labels]
Ok == Answer("ok", <<>>, {})
NotFound == Answer("404", <<>>, {})
Conflict == Answer("409", <<>>, {})
NoTenantGiven == Answer("no_tenant", <<>>, {})
StoreFailed == Answer("store_failed", <<>>, {})

Same(d, a) == [data |-> d, answer |-> a]
Changed(d, level, list) == [data |-> [d EXCEPT ![level] = list], answer |-> Ok]

-----------------------------------------------------------------------------
(* Effect of each operation on the data read from the file *)

GetEntity(d, o) ==
    Same(d, Answer("ok", FirstFound(d[o.level], o.name, o.scopes), {}))

ListEntities(d, o) ==
    Same(d, Answer("ok", FirstNonEmpty(d[o.level], o.scopes), {}))

CreateEntity(d, o) ==
    IF Found(d[o.level], o.entity.name, o.scope)
    THEN Same(d, Conflict)
    ELSE LET e == [name |-> o.entity.name, tenant |-> o.entity.tenant,
                   value |-> o.entity.value, labels |-> {}]
         IN  Changed(d, o.level, Append(d[o.level], e))

UpdateEntity(d, o) ==
    LET i == IndexOf(d[o.level], o.entity.name, AnyTenant)
        existing == d[o.level][i]
        tenant == IF "tenant" \in o.keep /\ existing.tenant # NoTenant
                  THEN existing.tenant ELSE o.entity.tenant
        updated == [name |-> o.entity.name, tenant |-> tenant,
                    value |-> o.entity.value, labels |-> existing.labels]
    IN  IF i = 0 THEN Same(d, NotFound)
        ELSE Changed(d, o.level, [d[o.level] EXCEPT ![i] = updated])

DeleteEntity(d, o) ==
    LET i == IndexOf(d[o.level], o.name, o.scope)
    IN  IF i = 0 THEN Same(d, NotFound)
        ELSE Changed(d, o.level, RemoveAt(d[o.level], i))

GetLabels(d, o) ==
    LET i == IndexOf(d[o.level], o.name, AnyTenant)
    IN  Same(d, IF i = 0 THEN NotFound
                ELSE Answer("ok", <<>>, d[o.level][i].labels))

WithLabels(d, o, New(_)) ==
    LET i == IndexOf(d[o.level], o.name, AnyTenant)
    IN  IF i = 0 THEN Same(d, NotFound)
        ELSE Changed(d, o.level, [d[o.level] EXCEPT ![i].labels = New(@)])

SetLabels(d, o) == WithLabels(d, o, LAMBDA old : o.labels)

\* labels are keys: adding is an upsert by key
PatchLabels(d, o) ==
    WithLabels(d, o, LAMBDA old : IF o.action = "ADD" THEN old \cup o.labels
                                  ELSE old \ o.labels)

Perform(d, o) ==
    CASE o.op = "get"          -> GetEntity(d, o)
      [] o.op = "list"         -> ListEntities(d, o)
      [] o.op = "create"       -> CreateEntity(d, o)
      [] o.op = "update"       -> UpdateEntity(d, o)
      [] o.op = "delete"       -> DeleteEntity(d, o)
      [] o.op = "get_labels"   -> GetLabels(d, o)
      [] o.op = "set_labels"   -> SetLabels(d, o)
      [] o.op = "patch_labels" -> PatchLabels(d, o)
      [] OTHER                 -> Same(d, NoTenantGiven)

-----------------------------------------------------------------------------
(* The operations each client offers *)

\* a tenant missing where the strategy needs one is refused before any read
Strategic(o, strategy, k) ==
    IF NeedsTenant(strategy) /\ k = NoTenant THEN [op |-> "refuse"] ELSE o

ReadsOf(n) ==
    {[op |-> "get", level |-> "instance", name |-> n, scopes |-> <<AnyTenant>>]}
    \cup
    {Strategic([op |-> "get", level |-> "subaccount", name |-> n, scopes |-> ScopesOf(s, k)],
               s, k) :
        s \in Strategies, k \in Owners}

Lists ==
    {[op |-> "list", level |-> "instance", scopes |-> <<k>>] : k \in Owners}
    \cup
    {Strategic([op |-> "list", level |-> "subaccount", scopes |-> ScopesOf(s, k)], s, k) :
        s \in Strategies, k \in Owners}

Labellings(n) ==
    [op: {"get_labels"}, level: Levels, name: {n}]
    \cup [op: {"set_labels"}, level: Levels, name: {n}, labels: SUBSET LabelKeys]
    \cup [op: {"patch_labels"}, level: Levels, name: {n},
          action: {"ADD", "DELETE"}, labels: SUBSET LabelKeys \ {{}}]

\* create and delete look only at provider entries of the subaccount list
DestinationWrites(n) ==
    LET Scope(l) == IF l = "subaccount" THEN NoTenant ELSE AnyTenant
        Keep(l) == IF l = "subaccount" THEN {"tenant", "labels"} ELSE {"labels"}
        Entities == {e \in Entity : e.name = n}
    IN  {[op |-> "create", level |-> l, entity |-> e, scope |-> Scope(l)] :
            l \in Levels, e \in Entities}
        \cup {[op |-> "update", level |-> l, entity |-> e, keep |-> Keep(l)] :
            l \in Levels, e \in Entities}
        \cup {[op |-> "delete", level |-> l, name |-> n, scope |-> Scope(l)] :
            l \in Levels}

\* fragments and certificates: by name alone, and only the labels survive
ByNameWrites(n) ==
    LET Entities == {e \in Entity : e.name = n}
    IN  [op: {"create"}, level: Levels, entity: Entities, scope: {AnyTenant}]
        \cup [op: {"update"}, level: Levels, entity: Entities, keep: {{"labels"}}]
        \cup [op: {"delete"}, level: Levels, name: {n}, scope: {AnyTenant}]

WritesOf(kind, n) ==
    IF kind = "destination" THEN DestinationWrites(n) ELSE ByNameWrites(n)

Operations(kind) ==
    Lists \cup UNION {ReadsOf(n) \cup Labellings(n) \cup WritesOf(kind, n) : n \in Names}

IsRead(o) == o.op \in {"get", "list", "get_labels"}
IsWrite(o) == o.op \in {"create", "update", "delete", "set_labels", "patch_labels"}
=============================================================================
