--------------------------- MODULE MCEnvironment ---------------------------
(***************************************************************************)
(* Small instances of what depends on files and variables that others      *)
(* change: the JSON file of the local clients, the bindings of the         *)
(* services, and the credentials of the Agent Gateway.  They share no      *)
(* state, so `part` chooses the one that moves and the others stay in      *)
(* their initial states.                                                   *)
(***************************************************************************)
EXTENDS Integers, LocalStore, TLC

CONSTANTS
    Parts,
    MaxRotations,
    MaxServers, MaxConcurrent, MaxChanges

VARIABLES
    part,
    bindPc, service, entry, rootSet, rotations, left, binding, error, history,
    mode, changes, tenant, gwPc, operation, user, onlyNamed, token, tokenAt, target, urlAt,
    kept, answers, permits, found, tool, gwError

Bindings == INSTANCE ServiceBindings WITH target <- binding
Discovery == INSTANCE GatewayDiscovery

ASSUME Bounds ==
    /\ Parts \subseteq {"store", "bindings", "discovery"}
    /\ Bindings!RotationsAssumption /\ Discovery!DiscoveryAssumption

storeVars == vars
bindingVars == <<bindPc, service, entry, rootSet, rotations, left, binding, error, history>>
discoveryVars == <<mode, changes, tenant, gwPc, operation, user, onlyNamed, token, tokenAt,
                   target, urlAt, kept, answers, permits, found, tool, gwError>>

EnvironmentInit ==
    /\ part \in Parts
    /\ Init /\ Bindings!Init /\ Discovery!Init
    /\ part # "store" => kind = "destination" /\ file.subaccount = <<>>
    /\ part # "bindings" => rootSet
    /\ part # "discovery" => mode = "lob" /\ tenant

EnvironmentNext ==
    \/ part = "store" /\ Next /\ UNCHANGED <<part, bindingVars, discoveryVars>>
    \/ part = "bindings" /\ Bindings!Next /\ UNCHANGED <<part, storeVars, discoveryVars>>
    \/ part = "discovery" /\ Discovery!Next /\ UNCHANGED <<part, storeVars, bindingVars>>

EnvironmentSpec ==
    EnvironmentInit /\ [][EnvironmentNext]_<<part, storeVars, bindingVars, discoveryVars>>

Symmetry == Permutations(Threads)

-----------------------------------------------------------------------------
(* Properties, beside those of LocalStore; each holds too while its part   *)
(* does not move.                                                          *)

\* The types of all parts.
TypesOK == TypeOK /\ Bindings!TypeOK /\ Discovery!TypeOK

\* core/secret_resolver and the config modules: ServiceBindings
ConfigsComeFromOneSource == Bindings!ConfigsComeFromOneSource
AnonymizationIsConfigured == Bindings!AnonymizationIsConfigured

\* agentgateway: GatewayDiscovery
TokensStayInTheirFlow == Discovery!TokensStayInTheirFlow
DiscoveriesAreComplete == Discovery!DiscoveriesAreComplete
=============================================================================
