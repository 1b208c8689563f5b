--------------------------- MODULE ServiceBindings ---------------------------
(***************************************************************************)
(* core/secret_resolver and the config modules of the services: the fields *)
(* of a binding are read one by one, from the first of up to three sources *)
(* that has them all, into one object that keeps what a source that gave   *)
(* up has left in it.  The platform may replace the mounted files between  *)
(* two reads.  What a file holds is chosen when it is read.                *)
(***************************************************************************)
EXTENDS Integers, Sequences

CONSTANT MaxRotations   \* bound: how often the mounted files are replaced

RotationsAssumption == MaxRotations \in Nat

VARIABLES
    bindPc,
    service, entry,   \* what is loaded, and by which function
    rootSet,          \* SERVICE_BINDING_ROOT is set
    rotations,        \* how often the mounted files have been replaced
    left,             \* the sources not tried yet, the current one first
    target,           \* the fields of the binding object
    error,            \* what was raised
    history           \* of this load

bindingVars == <<bindPc, service, entry, rootSet, rotations, left, target, error, history>>

-----------------------------------------------------------------------------
(* The services: their fields in the order they are read; those that must  *)
(* not be empty; those that are parsed; and the error of their functions.  *)

Binding(fields, mandatory, parsed, raises) ==
    [fields |-> fields, mandatory |-> mandatory, parsed |-> parsed, raises |-> raises,
     strings |-> TRUE]

Destination ==
    Binding(<<"clientid", "clientsecret", "url", "uri", "identityzone">>,
            {"clientid", "clientsecret", "url", "uri", "identityzone"}, {}, "ConfigError")

\* get_service_instance_id: nothing is validated
DestinationInstance == Binding(<<"instanceid">>, {}, {}, "DestinationOperationError")

\* validate parses both fields
Sdm == Binding(<<"uri", "uaa">>, {"uri", "uaa"}, {"uri", "uaa"}, "ConfigError")

PrintService == Binding(<<"url", "uaa">>, {"url", "uaa"}, {"uaa"}, "ConfigError")

Adms == Binding(<<"clientid", "clientsecret", "url", "uri", "resource">>,
                {"clientid", "clientsecret", "url", "uri"}, {}, "ConfigError")

AgentMemory == Binding(<<"application_url", "uaa">>, {"application_url", "uaa"}, {"uaa"},
                       "AgentMemoryConfigError")

AuditLog == Binding(<<"url", "uaa">>, {"url", "uaa"}, {"uaa"}, "ClientCreationError")

BucketBinding == Binding(<<"access_key_id", "secret_access_key", "bucket", "host">>,
                         {"access_key_id", "secret_access_key", "bucket", "host"}, {},
                         "ClientCreationError")

\* cert, key and the others are Optional[str], which the resolver refuses
DataAnonymization ==
    [Binding(<<"url", "cert", "key", "cert_path", "key_path", "destination_name">>,
             {"url"}, {}, "ClientCreationError") EXCEPT !.strings = FALSE]

Identity == Binding(<<"url", "clientid">>, {"url", "clientid"}, {}, "IASConfigError")

Services == [
    destination |-> Destination, instanceid |-> DestinationInstance, sdm |-> Sdm,
    print |-> PrintService, adms |-> Adms, memory |-> AgentMemory, auditlog |-> AuditLog,
    objectstore |-> BucketBinding, anonymization |-> DataAnonymization, ias |-> Identity]

\* "load": the loader of the service; "create": its create_client, where that reads
\* the binding; "factory": its ConfigFactory; "verifier": IASVerifier.from_env
Entries(s) ==
    CASE s = "objectstore"                  -> {"factory"}
      [] s = "instanceid"                   -> {"load"}
      [] s = "anonymization"                -> {"load", "create"}
      [] s = "ias"                          -> {"verifier"}
      [] s \in {"sdm", "adms", "auditlog"}  -> {"load", "factory"}
      [] OTHER                              -> {"load", "create", "factory"}

\* create_client translates what went wrong once more
Translated == {"destination", "print"}

\* what a function other than a ConfigFactory raises, whatever went wrong
ErrorOf(s, e) ==
    IF e = "create" /\ s \in Translated THEN "ClientCreationError"
    ELSE Services[s].raises

-----------------------------------------------------------------------------
Contents(s, f) ==
    {"good", "empty"} \cup (IF f \in Services[s].parsed THEN {"broken"} ELSE {})

Unset == [from |-> "none", at |-> 0, is |-> "empty"]

Fields(s) == {Services[s].fields[i] : i \in DOMAIN Services[s].fields}

Sources == IF rootSet THEN <<"flat", "mount", "env">> ELSE <<"mount", "env">>

\* rotated: the mounted files were replaced; faulty: the name of the instance was
\* refused, a source lacked something, or what it had was of no use
FreshHistory == [rotated |-> FALSE, faulty |-> FALSE]

Init ==
    /\ bindPc = "returned"
    /\ service = "instanceid" /\ entry = "load"
    /\ rootSet \in BOOLEAN
    /\ rotations = 0
    /\ left = <<>> /\ target = [f \in {} |-> Unset]
    /\ error = "none" /\ history = FreshHistory

Idle == bindPc \in {"returned", "raised"}

Call(s, e) ==
    /\ Idle
    /\ bindPc' = IF e = "verifier" THEN "vcap" ELSE "inputs"
    /\ service' = s /\ entry' = e
    /\ left' = <<>>
    /\ target' = [f \in Fields(s) |-> Unset]
    /\ error' = "none" /\ history' = FreshHistory
    /\ UNCHANGED <<rootSet, rotations>>

\* the except clause of a loader translates all, a ConfigFactory has none; the
\* binding object goes with the frame
Raise(raised) ==
    /\ bindPc' = "raised"
    /\ error' = IF entry = "factory" THEN raised ELSE ErrorOf(service, entry)
    /\ target' = [f \in Fields(service) |-> Unset]
    /\ UNCHANGED <<service, entry, rootSet, rotations, left>>

-----------------------------------------------------------------------------
(* read_from_mount_and_fallback_to_env_var *)

\* an explicit config, or a file for the local mock mode: nothing is read
Given ==
    /\ bindPc = "inputs" /\ entry = "create"
    /\ bindPc' = "returned"
    /\ UNCHANGED <<service, entry, rootSet, rotations, left, target, error, history>>

\* the name of the instance is no path component
BadName ==
    /\ bindPc = "inputs" /\ service \notin {"instanceid", "memory", "auditlog", "ias"}
    /\ Raise("ValueError")
    /\ history' = [history EXCEPT !.faulty = TRUE]

GoodName ==
    /\ bindPc = "inputs"
    /\ bindPc' = "read"
    /\ left' = Sources
    /\ UNCHANGED <<service, entry, rootSet, rotations, target, error, history>>

\* the field that is read next from the current source
NextField(s) ==
    LET names == Services[s].fields
        unread == {i \in DOMAIN names : target[names[i]].from # Head(left)}
    IN  names[CHOOSE i \in unread : \A j \in unread : i <= j]

ReadField ==
    LET f == NextField(service)
        names == Services[service].fields
    IN  /\ bindPc = "read" /\ Services[service].strings
        /\ \E content \in Contents(service, f) :
              target' = [target EXCEPT ![f] =
                  [from |-> Head(left), is |-> content,
                   at |-> IF Head(left) = "env" THEN 0 ELSE rotations]]
        /\ IF f = names[Len(names)]
           THEN bindPc' = IF entry = "verifier" THEN "verdict" ELSE "validate"
           ELSE UNCHANGED bindPc
        /\ UNCHANGED <<service, entry, rootSet, rotations, left, error, history>>

\* what was read stays in the binding object
NextSource ==
    /\ bindPc = "read"
    /\ left' = Tail(left)
    /\ bindPc' = IF left' # <<>> THEN "read"
                 ELSE IF entry = "verifier" THEN "verdict" ELSE "unresolved"
    /\ UNCHANGED <<service, entry, rootSet, rotations, target, error>>

\* mutant: a missing environment variable is passed over
LacksOrSkips ==
    \/ NextSource /\ history' = [history EXCEPT !.faulty = TRUE]
    \/ /\ bindPc = "read" /\ Head(left) = "env"
       /\ bindPc' = "validate"
       /\ UNCHANGED <<service, entry, rootSet, rotations, left, target, error, history>>

\* a file or variable is missing or cannot be read, or the directory is
SourceLacks ==
    /\ NextSource
    /\ history' = [history EXCEPT !.faulty = TRUE]

\* _get_field_map refuses fields that are not declared as str
FieldsRefused ==
    /\ ~Services[service].strings
    /\ NextSource
    /\ UNCHANGED history

Unresolved ==
    /\ bindPc = "unresolved"
    /\ Raise("RuntimeError") /\ UNCHANGED history

-----------------------------------------------------------------------------
(* validate, and what makes the config object of the binding *)

Unusable(fields) == \E f \in fields : target[f].is # "good"

\* only sdm parses in validate
Validate ==
    LET b == Services[service]
        empty == \E f \in b.mandatory : target[f].is = "empty"
        broken == service = "sdm" /\ Unusable(b.parsed)
        own == service \in {"adms", "memory", "objectstore"}
    IN  /\ bindPc = "validate"
        /\ IF empty \/ broken
           THEN /\ Raise(IF own THEN b.raises ELSE "ValueError")
                /\ history' = [history EXCEPT !.faulty = TRUE]
           ELSE /\ bindPc' = "extract"
                /\ UNCHANGED <<service, entry, rootSet, rotations, left, target, error, history>>

Extract ==
    /\ bindPc = "extract"
    /\ IF Unusable(Services[service].parsed)
       THEN /\ Raise(Services[service].raises)
            /\ history' = [history EXCEPT !.faulty = TRUE]
       ELSE /\ bindPc' = "returned"
            /\ UNCHANGED <<service, entry, rootSet, rotations, left, target, error, history>>

-----------------------------------------------------------------------------
(* IASVerifier.from_env: VCAP_SERVICES, the binding, IAS_URL *)

Vcap ==
    /\ bindPc = "vcap"
    /\ \/ bindPc' = "returned" /\ UNCHANGED error           \* url and clientid
       \/ bindPc' = "raised" /\ error' = "IASConfigError"   \* url alone
       \/ bindPc' = "inputs" /\ UNCHANGED error             \* neither, or not readable
    /\ UNCHANGED <<service, entry, rootSet, rotations, left, target, history>>

\* the error of the resolver was swallowed: the fields may be of a source that
\* gave up
Verdict ==
    /\ bindPc = "verdict"
    /\ \/ /\ target["url"].is = "empty"
          /\ bindPc' = "iasUrl" /\ UNCHANGED error
       \/ /\ target["url"].is # "empty" /\ target["clientid"].is = "empty"
          /\ bindPc' = "raised" /\ error' = "IASConfigError"
       \/ /\ target["url"].is # "empty" /\ target["clientid"].is # "empty"
          /\ bindPc' = "returned" /\ UNCHANGED error
    /\ UNCHANGED <<service, entry, rootSet, rotations, left, target, history>>

IasUrl ==
    /\ bindPc = "iasUrl"
    /\ \/ bindPc' = "returned" /\ UNCHANGED error
       \/ bindPc' = "raised" /\ error' = "IASConfigError"
    /\ target' = [f \in Fields(service) |-> Unset]   \* not used
    /\ UNCHANGED <<service, entry, rootSet, rotations, left, history>>

-----------------------------------------------------------------------------
Rotate ==
    /\ rotations < MaxRotations
    /\ rotations' = rotations + 1
    /\ history' = [history EXCEPT !.rotated = @ \/ ~Idle]
    /\ UNCHANGED <<bindPc, service, entry, rootSet, left, target, error>>

Next ==
    \/ \E s \in DOMAIN Services : \E e \in Entries(s) : Call(s, e)
    \/ BadName \/ GoodName \/ Given \/ ReadField \/ SourceLacks \/ FieldsRefused
    \/ Unresolved
    \/ Validate \/ Extract
    \/ Vcap \/ Verdict \/ IasUrl
    \/ Rotate

Spec == Init /\ [][Next]_bindingVars

-----------------------------------------------------------------------------
(* Properties *)

\* Types; there is a source to read from, and what was read is content of its field.
TypeOK ==
    /\ bindPc \in {"inputs", "read", "unresolved", "validate", "extract", "vcap", "verdict",
                   "iasUrl", "returned", "raised"}
    /\ service \in DOMAIN Services /\ entry \in Entries(service)
    /\ rootSet \in BOOLEAN /\ rotations \in 0..MaxRotations
    /\ bindPc = "read" => left # <<>>
    /\ \A f \in DOMAIN target :
          target[f].is \in {"empty"} \cup Contents(service, f)

LoadedFromBinding == bindPc = "returned" /\ \E f \in DOMAIN target : target[f].from # "none"

\* A config, whichever function loaded it, comes from one source although earlier
\* sources have filled in fields before they gave up; it is of one version of the
\* mounted files unless they were replaced during the load; no field the service
\* cannot do without is empty, and none it parses is broken.
ConfigsComeFromOneSource ==
    LoadedFromBinding =>
        /\ \A f, g \in DOMAIN target :
              /\ target[f].from = target[g].from
              /\ ~history.rotated => target[f].at = target[g].at
        /\ \A f \in Services[service].mandatory \cup Services[service].parsed :
              target[f].is = "good"

\* core/data_anonymization/user-guide.md: "The factory loads credentials from the
\* secret mount or the CLOUD_SDK_CFG environment variable".  So create_client, called
\* without a config, fails only if a source lacks something, or its content is wrong.
AnonymizationIsConfigured ==
    service = "anonymization" /\ bindPc = "raised" => history.faulty
=============================================================================
