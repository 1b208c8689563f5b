--------------------------- MODULE MCSharedState ---------------------------
(***************************************************************************)
(* Small instances of the modules of what threads share without asking     *)
(* each other: tokens, caches, environment variables.  They do not touch   *)
(* each other's state, so `part` chooses the one that moves and the others *)
(* stay in their initial states.                                           *)
(***************************************************************************)
EXTENDS AdmsCsrf, Sequences

CONSTANTS
    MaxVersion, NoMtime, Mounted, Calls, NoToken,
    Callers, Users, Scopes, MaxTokens, Buffer, Fallback, MaxLife,
    Readers, CacheKeys, MaxEntries, Ttl, MaxPages, Pages,
    HookTimeout, RequestTime,
    Completions, Rotations

VARIABLES
    part,
    binding, accepted, lastMtime, config, fields, cached, iasPc, op, seen, read, using, calm,
    flow, version, tokens, urls, request,
    umsCache, umsCall,
    hookPc, elapsed, deadline, workflow, status,
    aicoreMode, mounted, usable, env, watched, filter, job

Ias == INSTANCE IasTokens WITH pc <- iasPc
Gateway == INSTANCE GatewayTokens
Ums == INSTANCE UmsCache
Hook == INSTANCE HookPolling
Aicore == INSTANCE AicoreConfig

\* INSTANCE does not bring the assumptions of ConfigFactory
ASSUME Bounds ==
    /\ MaxVersion \in Nat /\ Mounted \in BOOLEAN /\ NoMtime \notin Int
    /\ Ias!CallsAssumption /\ Ias!NoTokenAssumption
    /\ TokenAssumption /\ Roots # {}
    /\ Gateway!BufferAssumption /\ Gateway!BoundAssumption /\ Gateway!SetAssumption
    /\ Ums!UmsAssumption /\ Hook!HookAssumption /\ Aicore!AicoreAssumption

Parts == {"ias", "csrf", "gateway", "ums", "hook", "aicore"}

iasVars == <<binding, accepted, lastMtime, config, fields, cached, iasPc, op, seen, read,
             using, calm>>
gatewayVars == <<flow, version, tokens, urls, request>>
umsVars == <<umsCache, umsCall>>
hookVars == <<hookPc, elapsed, deadline, workflow, status>>
aicoreVars == <<aicoreMode, mounted, usable, env, watched, filter, job>>

sharedVars == <<part, iasVars, vars, gatewayVars, umsVars, hookVars, aicoreVars>>

SharedInit ==
    /\ part \in Parts
    /\ Ias!Init /\ Init /\ Gateway!Init /\ Ums!Init /\ Hook!Init /\ Aicore!Init
    /\ part # "gateway" => flow = "lob"
    /\ part # "hook" => workflow = "success"
    /\ part # "aicore" => aicoreMode = "direct"

SharedNext ==
    \/ /\ part = "ias" /\ Ias!Next
       /\ UNCHANGED <<part, vars, gatewayVars, umsVars, hookVars, aicoreVars>>
    \/ /\ part = "csrf" /\ Next
       /\ UNCHANGED <<part, iasVars, gatewayVars, umsVars, hookVars, aicoreVars>>
    \/ /\ part = "gateway" /\ Gateway!Next
       /\ UNCHANGED <<part, iasVars, vars, umsVars, hookVars, aicoreVars>>
    \/ /\ part = "ums" /\ Ums!Next
       /\ UNCHANGED <<part, iasVars, vars, gatewayVars, hookVars, aicoreVars>>
    \/ /\ part = "hook" /\ Hook!Next
       /\ UNCHANGED <<part, iasVars, vars, gatewayVars, umsVars, aicoreVars>>
    \/ /\ part = "aicore" /\ Aicore!Next
       /\ UNCHANGED <<part, iasVars, vars, gatewayVars, umsVars, hookVars>>

SharedSpec == SharedInit /\ [][SharedNext]_sharedVars

\* the threads of AdmsHttp are scheduled and every network call has a timeout
FairSharedSpec ==
    SharedSpec /\ \A t \in Threads :
        WF_sharedVars(/\ part = "csrf" /\ Step(t)
                      /\ UNCHANGED <<part, iasVars, gatewayVars, umsVars, hookVars, aicoreVars>>)

-----------------------------------------------------------------------------
(* Properties, besides those of AdmsCsrf *)

\* The types of all parts.  Each holds too while its part does not move.
TypesOK ==
    /\ part \in Parts
    /\ Ias!TypeOK /\ TypeOK /\ Gateway!TypeOK
    /\ Ums!TypeOK /\ Hook!TypeOK /\ Aicore!TypeOK

\* adms/_ias_fetcher.py: IasTokens
NoticedRotationIsApplied == Ias!NoticedRotationIsApplied

\* agentgateway/_token_cache.py: GatewayTokens
OnlyRacesRaise == Gateway!OnlyRacesRaise
CachedTokensAreFresh == Gateway!CachedTokensAreFresh
PairsBelongTogether == Gateway!PairsBelongTogether

\* extensibility: UmsCache, HookPolling
AnswersAreComplete == Ums!AnswersAreComplete
AnswersAreRecent == Ums!AnswersAreRecent
CallsEndInTime == Hook!CallsEndInTime

\* aicore: AicoreConfig
LoneCompletionRecovers == Aicore!LoneCompletionRecovers
InputRefusalsAreTyped == Aicore!InputRefusalsAreTyped
=============================================================================
