---------------------------- MODULE AdmsMethods ----------------------------
(***************************************************************************)
(* The APIs over AdmsHttp: documents, relations, jobs and configuration.   *)
(* The asynchronous classes send the same requests as the others.          *)
(***************************************************************************)
EXTENDS ServiceRequests

\* the documents are read through their relations
Documents == [
    get_all |-> Once("list"),
    get     |-> Once("get")]

\* the scan state is read first, the URL is asked for only if it is CLEAN
DownloadUrl == [get_download_url |-> Twice("get", "get", "if_clean")]

\* UpdateDocument answers with the changed fields only: the rest is fetched
DocumentWrites == [
    update                  |-> Twice("act", "get", "always"),
    restore_content_version |-> Once("act"),
    delete_content_version  |-> Once("act")]

AsyncDocuments ==
    ProgramsOf(Documents) \cup ProgramsOf(DownloadUrl) \cup ProgramsOf(DocumentWrites)

Relations == [
    get_all                   |-> Once("list"),
    get                       |-> Once("get"),
    create                    |-> Once("create"),
    generate_upload_urls      |-> Once("act"),
    complete_multipart_upload |-> Once("act"),
    lock                      |-> Once("act"),
    unlock                    |-> Once("act"),
    delete                    |-> Once("delete")]

\* a draft of a business object node is made, checked, activated or thrown away
Drafts == [
    create_draft                |-> Once("create"),
    validate_draft              |-> Once("act"),
    activate_draft              |-> Once("act"),
    discard_draft               |-> Once("delete"),
    delete_business_object_node |-> Once("delete"),
    get_change_logs             |-> Once("list"),
    get_bo_node_change_logs     |-> Once("list")]

AsyncRelations == ProgramsOf(Relations)

AsyncDrafts == ProgramsOf(Drafts)

\* StartJob makes a job, whose status is asked for later
Jobs == [
    start_zip_download     |-> Once("create"),
    start_delete_user_data |-> Once("create"),
    get_status             |-> Once("get")]

AsyncJobs == ProgramsOf(Jobs)

AllowedDomains == [
    get_all_allowed_domains |-> Once("list"),
    create_allowed_domain   |-> Once("create"),
    get_allowed_domain      |-> Once("get"),
    update_allowed_domain   |-> Once("change"),
    delete_allowed_domain   |-> Once("delete")]

DocumentTypes == [
    get_all_document_types |-> Once("list"),
    create_document_type   |-> Once("create"),
    get_document_type      |-> Once("get"),
    update_document_type   |-> Once("change"),
    delete_document_type   |-> Once("delete")]

BusinessObjectTypes == [
    get_all_business_object_types |-> Once("list"),
    create_business_object_type   |-> Once("create"),
    get_business_object_type      |-> Once("get"),
    update_business_object_type   |-> Once("change"),
    delete_business_object_type   |-> Once("delete")]

TypeMappings == [
    get_type_mappings   |-> Once("list"),
    create_type_mapping |-> Once("create"),
    get_type_mapping    |-> Once("get"),
    delete_type_mapping |-> Once("delete"),
    mark_default        |-> Once("act")]

FileExtensionPolicies == [
    get_all_file_extension_policies |-> Once("list"),
    create_file_extension_policy    |-> Once("create"),
    get_file_extension_policy       |-> Once("get"),
    delete_file_extension_policy    |-> Once("delete")]

ApplicationTenants == [
    get_all_application_tenants |-> Once("list"),
    create_application_tenant   |-> Once("create"),
    get_application_tenant      |-> Once("get"),
    delete_application_tenant   |-> Once("delete")]

AsyncDomainsAndDocumentTypes == ProgramsOf(AllowedDomains) \cup ProgramsOf(DocumentTypes)
AsyncObjectTypesAndMappings == ProgramsOf(BusinessObjectTypes) \cup ProgramsOf(TypeMappings)
AsyncPoliciesAndTenants ==
    ProgramsOf(FileExtensionPolicies) \cup ProgramsOf(ApplicationTenants)

AdmsPrograms ==
    AsyncDocuments \cup AsyncRelations \cup AsyncDrafts \cup AsyncJobs
    \cup AsyncDomainsAndDocumentTypes \cup AsyncObjectTypesAndMappings
    \cup AsyncPoliciesAndTenants
=============================================================================
