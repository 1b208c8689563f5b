------------------------- MODULE DestinationMethods -------------------------
(***************************************************************************)
(* DestinationClient, FragmentClient and CertificateClient of the          *)
(* Destination Service.  Each has its own copy of the helpers, with the    *)
(* same requests.                                                          *)
(***************************************************************************)
EXTENDS ServiceRequests

\* _get_<entity> and _list_<entities>: 404 is an answer
DestinationHelpers == [get |-> "find", list |-> "find_list"]
FragmentHelpers == [get |-> "find", list |-> "find_list"]
CertificateHelpers == [get |-> "find", list |-> "find_list"]

\* _apply_access_strategy
DestinationStrategies(kind) == ByStrategy(kind)
FragmentStrategies(kind) == ByStrategy(kind)
CertificateStrategies(kind) == ByStrategy(kind)

DestinationLists == [
    list_instance_destinations   |-> Once(DestinationHelpers.list),
    list_subaccount_destinations |-> DestinationStrategies(DestinationHelpers.list)]

\* with a transparent proxy the answer is made without a request
DestinationReads == [
    get_instance_destination   |-> Checked(Once(DestinationHelpers.get)),
    get_subaccount_destination |-> DestinationStrategies(DestinationHelpers.get)]

\* the v2 API resolves the tenants itself
Consumption == [get_destination |-> Checked(Once("find"))]

DestinationWrites == [
    create_destination |-> Checked(Once("create")),
    update_destination |-> Checked(Once("change")),
    delete_destination |-> Checked(Once("delete"))]

DestinationLabels == [
    get_destination_labels    |-> Checked(Once("get")),
    update_destination_labels |-> Checked(Once("change")),
    patch_destination_labels  |-> Checked(Once("change"))]

FragmentReads == [
    get_instance_fragment     |-> Checked(Once(FragmentHelpers.get)),
    get_subaccount_fragment   |-> FragmentStrategies(FragmentHelpers.get),
    list_instance_fragments   |-> Once(FragmentHelpers.list),
    list_subaccount_fragments |-> FragmentStrategies(FragmentHelpers.list)]

FragmentWrites == [
    create_fragment |-> Checked(Once("create")),
    update_fragment |-> Checked(Once("change")),
    delete_fragment |-> Checked(Once("delete"))]

FragmentLabels == [
    get_fragment_labels    |-> Checked(Once("get")),
    update_fragment_labels |-> Checked(Once("change")),
    patch_fragment_labels  |-> Checked(Once("change"))]

CertificateReads == [
    list_instance_certificates   |-> Once(CertificateHelpers.list),
    list_subaccount_certificates |-> CertificateStrategies(CertificateHelpers.list),
    get_instance_certificate     |-> Checked(Once(CertificateHelpers.get)),
    get_subaccount_certificate   |-> CertificateStrategies(CertificateHelpers.get)]

CertificateWrites == [
    create_certificate |-> Checked(Once("create")),
    update_certificate |-> Checked(Once("change")),
    delete_certificate |-> Checked(Once("delete"))]

CertificateLabels == [
    get_certificate_labels    |-> Checked(Once("get")),
    update_certificate_labels |-> Checked(Once("change")),
    patch_certificate_labels  |-> Checked(Once("change"))]

DestinationPrograms ==
    ProgramsOf(DestinationLists) \cup ProgramsOf(DestinationReads)
    \cup ProgramsOf(Consumption)
    \cup ProgramsOf(DestinationWrites) \cup ProgramsOf(DestinationLabels)
    \cup ProgramsOf(FragmentReads) \cup ProgramsOf(FragmentWrites)
    \cup ProgramsOf(FragmentLabels)
    \cup ProgramsOf(CertificateReads) \cup ProgramsOf(CertificateWrites)
    \cup ProgramsOf(CertificateLabels)
=============================================================================
