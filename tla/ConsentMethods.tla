--------------------------- MODULE ConsentMethods ---------------------------
(***************************************************************************)
(* The consent services of dpi_ng over BaseODataClient.  Changing and      *)
(* deleting an entity reads it first; an action that returns the entity    *)
(* reads it afterwards.                                                    *)
(***************************************************************************)
EXTENDS ServiceRequests

Listing == Once("list")
Reading == Once("get")
Creating == Once("create")                     \* save of a new entity
Changing == Twice("get", "change", "always")   \* get, _apply_body, save
Deleting == Twice("get", "delete", "always")   \* get, delete_entity
Acting == Twice("act", "get", "always")      \* call_action, get

ConsentPurposes == [
    list_purposes  |-> Listing,  get_purpose    |-> Reading,
    create_purpose |-> Creating, update_purpose |-> Changing,
    delete_purpose |-> Deleting]
PurposeActions == [
    set_purpose_active |-> Acting, set_purpose_inactive |-> Acting]
PurposeTexts == [
    list_purpose_texts  |-> Listing,  get_purpose_text    |-> Reading,
    create_purpose_text |-> Creating, update_purpose_text |-> Changing,
    delete_purpose_text |-> Deleting]

RetentionRules == [
    list_rules  |-> Listing,  get_rule    |-> Reading,
    create_rule |-> Creating, update_rule |-> Changing,
    delete_rule |-> Deleting]
RetentionActions == [
    set_rule_active |-> Acting, set_rule_inactive |-> Acting]

Templates == [
    list_templates  |-> Listing,  get_template    |-> Reading,
    create_template |-> Creating, update_template |-> Changing,
    delete_template |-> Deleting]
TemplateActions == [
    set_template_active |-> Acting, set_template_inactive |-> Acting]
TemplateTexts == [
    list_template_texts  |-> Listing,  get_template_text    |-> Reading,
    create_template_text |-> Creating, update_template_text |-> Changing,
    delete_template_text |-> Deleting]
ThirdPartyPersData == [
    list_third_party_pers_data   |-> Listing,
    get_third_party_pers_data    |-> Reading,
    create_third_party_pers_data |-> Creating,
    update_third_party_pers_data |-> Changing,
    delete_third_party_pers_data |-> Deleting]

Consents == [
    list_consents  |-> Listing, get_consent |-> Reading,
    delete_consent |-> Deleting]
\* checkConsentExists is a query in the form of an action
ConsentActions == [
    create_consent_from_template |-> Creating,
    withdraw_consent             |-> Once("act"),
    terminate_consent            |-> Once("act"),
    check_consent_exists         |-> Listing]

ThirdParties == [
    list_third_parties |-> Listing,  get_third_party    |-> Reading,
    create_third_party |-> Creating, update_third_party |-> Changing,
    delete_third_party |-> Deleting]
Jurisdictions == [
    list_jurisdictions  |-> Listing,  get_jurisdiction    |-> Reading,
    create_jurisdiction |-> Creating, update_jurisdiction |-> Changing,
    delete_jurisdiction |-> Deleting]
JurisdictionTexts == [
    list_jurisdiction_texts  |-> Listing,
    create_jurisdiction_text |-> Creating,
    update_jurisdiction_text |-> Changing,
    delete_jurisdiction_text |-> Deleting]
Languages == [list_languages |-> Listing, get_language |-> Reading]
LanguageDescriptions == [
    list_language_descriptions  |-> Listing,
    create_language_description |-> Creating,
    update_language_description |-> Changing,
    delete_language_description |-> Deleting]
SourceInfos == [
    list_source_infos  |-> Listing,  get_source_info    |-> Reading,
    create_source_info |-> Creating, update_source_info |-> Changing,
    delete_source_info |-> Deleting]
Controllers == [
    list_controllers  |-> Listing,  get_controller    |-> Reading,
    create_controller |-> Creating, update_controller |-> Changing,
    delete_controller |-> Deleting]
DataSubjectTypes == [
    list_data_subject_types  |-> Listing,  get_data_subject_type    |-> Reading,
    create_data_subject_type |-> Creating, update_data_subject_type |-> Changing,
    delete_data_subject_type |-> Deleting]
Applications == [
    list_applications  |-> Listing,  get_application    |-> Reading,
    create_application |-> Creating, update_application |-> Changing,
    delete_application |-> Deleting]
MasterDataSources == [
    list_master_data_sources  |-> Listing,  get_master_data_source    |-> Reading,
    create_master_data_source |-> Creating, update_master_data_source |-> Changing,
    delete_master_data_source |-> Deleting]
OutboundChannelTypes == [
    list_outbound_channel_types  |-> Listing,
    get_outbound_channel_type    |-> Reading,
    create_outbound_channel_type |-> Creating,
    update_outbound_channel_type |-> Changing,
    delete_outbound_channel_type |-> Deleting]

ConsentTables == {
    ConsentPurposes, PurposeActions, PurposeTexts, RetentionRules,
    RetentionActions, Templates, TemplateActions, TemplateTexts,
    ThirdPartyPersData, Consents, ConsentActions, ThirdParties, Jurisdictions,
    JurisdictionTexts, Languages, LanguageDescriptions, SourceInfos, Controllers,
    DataSubjectTypes, Applications, MasterDataSources, OutboundChannelTypes}

ConsentPrograms == UNION {ProgramsOf(table) : table \in ConsentTables}
=============================================================================
