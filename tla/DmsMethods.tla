----------------------------- MODULE DmsMethods -----------------------------
(***************************************************************************)
(* DMSClient and PrintClient: each method is one request, and an upload    *)
(* sends a stream of the caller.                                           *)
(***************************************************************************)
EXTENDS ServiceRequests

Repositories == [
    onboard_repository   |-> Once("create"),
    get_all_repositories |-> Once("list"),
    get_repository       |-> Checked(Once("get")),
    update_repository    |-> Checked(Once("change"))]

Configs == [
    delete_repository |-> Checked(Once("delete")),
    create_config     |-> Once("create"),
    get_configs       |-> Once("list"),
    update_config     |-> Checked(Once("change")),
    delete_config     |-> Checked(Once("delete"))]

Creation == [
    create_folder   |-> Checked(Once("create")),
    create_document |-> Checked(Once("upload"))]

\* check_in may bring no file: then it is an action like the others
Versioning == [
    check_out        |-> Checked(Once("act")),
    check_in         |-> Checked(Once("act") \cup Once("append")),
    cancel_check_out |-> Checked(Once("act"))]

\* without entries to add or remove it only reads
AccessControl == [apply_acl |-> Checked(Once("get") \cup Once("act"))]

Objects == [
    get_object  |-> Checked(Once("get")),
    get_content |-> Checked(Once("get"))]

Properties == [
    update_properties |-> Checked(Once("change")),
    get_children      |-> Checked(Once("list"))]

\* an object in the bin is not an object: restoring makes it one again
Removal == [
    delete_object  |-> Checked(Once("delete")),
    restore_object |-> Checked(Once("create"))]

Streaming == [
    append_content_stream |-> Checked(Once("append")),
    cmis_query            |-> Checked(Once("list"))]

DmsPrograms ==
    ProgramsOf(Repositories) \cup ProgramsOf(Configs) \cup ProgramsOf(Creation)
    \cup ProgramsOf(Versioning) \cup ProgramsOf(AccessControl)
    \cup ProgramsOf(Objects) \cup ProgramsOf(Properties)
    \cup ProgramsOf(Removal) \cup ProgramsOf(Streaming)

\* queues, documents and tasks are put with If-None-Match: *
Queues == [
    list_queues        |-> Once("list"),
    create_queue       |-> Once("create"),
    get_print_profiles |-> Once("get"),
    upload_document    |-> Once("upload"),
    create_print_task  |-> Once("create")]

PrintPrograms == ProgramsOf(Queues)
=============================================================================
