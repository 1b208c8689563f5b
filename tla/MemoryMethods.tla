--------------------------- MODULE MemoryMethods ---------------------------
(***************************************************************************)
(* AgentMemoryClient.                                                      *)
(***************************************************************************)
EXTENDS ServiceRequests

Memories == [
    add_memory    |-> Checked(Once("create")),
    get_memory    |-> Checked(Once("get")),
    update_memory |-> Checked(Once("change")),
    delete_memory |-> Checked(Once("delete"))]

MemoryQueries == [
    list_memories   |-> Checked(Once("list")),
    count_memories  |-> Once("list"),
    search_memories |-> Checked(Once("list"))]

Messages == [
    add_message    |-> Checked(Once("create")),
    get_message    |-> Checked(Once("get")),
    delete_message |-> Checked(Once("delete"))]

MessageQueries == [list_messages |-> Checked(Once("list"))]

\* the retention configuration is always there
Retention == [
    get_retention_config    |-> Once("get"),
    update_retention_config |-> Checked(Once("change"))]

MemoryPrograms ==
    ProgramsOf(Memories) \cup ProgramsOf(MemoryQueries) \cup ProgramsOf(Messages)
    \cup ProgramsOf(MessageQueries) \cup ProgramsOf(Retention)
=============================================================================
